----------------------------- MODULE RemoteInput -----------------------------
(* Mouse and keyboard on their way to a remote desktop: the handlers of the *)
(* canvas (frontend/app.js), which send packets of six bytes, and the       *)
(* gateway, which turns a packet into what RDP (protocols/rdp.rs) or VNC    *)
(* (protocols/vnc.rs) understands. An RDP event is a change, so the gateway *)
(* compares each pointer packet with the one before; RFB sends the state.   *)
(* The page learns of mouse and keys only what happens over the canvas and  *)
(* while it has the focus.                                                  *)
EXTENDS Integers, Sequences

CONSTANTS Protocols,  \* kinds of session: "rdp", "vnc"
          Points,     \* positions on the canvas
          Buttons,    \* buttons of the mouse
          Keys,       \* [code : scancode and extended bit, or <<0, 0>> for a key
                      \*         that is not in the table; uni : its character, below 2^16]
          Outside,    \* the mouse is not over the canvas; no position
          MaxWire,    \* bound: packets on their way
          MaxTurns    \* bound: turns of the wheel

Turns == {"up", "down"}

ASSUME InputAssumption ==
  /\ Protocols \subseteq {"rdp", "vnc"} /\ Outside \notin Points
  /\ Buttons \subseteq {"left", "middle", "right"}
  /\ Keys \subseteq [code : (0..255) \X {0, 1}, uni : Nat]
  /\ \A k \in Keys : k.code[1] = 0 => k.code[2] = 0
  /\ {MaxWire, MaxTurns} \subseteq Nat

VARIABLES protocol,         \* of the session
          at, held, keys,   \* the user: where the mouse is, the buttons down that
                            \* were pressed over the canvas, the keys down
          ws,               \* readyState of the WebSocket: connecting or open
          focus,            \* the canvas has the keyboard focus
          mouseMask,        \* the page: buttons it believes down
          last,             \* lastPointerPos
          throttled,        \* pointerThrottleTimer is running
          wire,             \* packets sent and not yet read by the gateway
          prev,             \* the gateway: prev_mouse_mask, prev_x, prev_y
          desk,             \* the remote desktop's input state
          history           \* what happened where the page does not look

userVars == <<at, held, keys>>
pageVars == <<ws, focus, mouseMask, last, throttled>>
gatewayVars == <<protocol, prev, desk>>
vars == <<userVars, pageVars, wire, gatewayVars, history>>

Pointer(mask, pos) == [type |-> "pointer", mask |-> mask, pos |-> pos]
KeyUpPlain(down, k) ==  \* mutant: the extended bit is sent on keydown only
  [type |-> "key", down |-> down, scancode |-> k.code[1],
   extended |-> IF down THEN k.code[2] ELSE 0, unicode |-> k.uni]

Key(down, k) == [type |-> "key", down |-> down, scancode |-> k.code[1],
                 extended |-> k.code[2], unicode |-> k.uni]

Init == /\ protocol \in Protocols
        /\ at = Outside /\ held = {} /\ keys = {}
        /\ ws = "connecting" /\ focus = TRUE /\ mouseMask = {}
        /\ last = [mask |-> {}, pos |-> Outside] /\ throttled = FALSE
        /\ wire = <<>>
        /\ \E origin \in Points : prev = [mask |-> {}, pos |-> origin]
        /\ \E p \in Points : desk = [pos |-> p, pressed |-> {}, turned |-> 0,
                                     keys |-> {}]
        /\ history = [stuckButtons |-> {}, beside |-> {}, stuckKeys |-> {}, swallowed |-> FALSE,
                      turned |-> 0]

Down == held \cup history.beside  \* the buttons the user holds

-----------------------------------------------------------------------------
(* The page. Every handler ends in sendPointer or sendKey.                  *)

CanSend == ws = "open"
Room(n) == Len(wire) + n <= MaxWire

\* sendPointer for each mask; all but moves are forced past the comparison.
SendPointers(masks, pos) ==
  IF CanSend
  THEN /\ Room(Len(masks))
       /\ wire' = wire \o [i \in DOMAIN masks |-> Pointer(masks[i], pos)]
       /\ last' = [mask |-> masks[Len(masks)], pos |-> pos]
  ELSE UNCHANGED <<wire, last>>

SendKey(down, k) == IF CanSend THEN Room(1) /\ wire' = Append(wire, Key(down, k))
                    ELSE UNCHANGED wire

Opens == /\ ws = "connecting" /\ ws' = "open"
         /\ UNCHANGED <<userVars, focus, mouseMask, last, throttled, wire, gatewayVars, history>>

\* mousemove: nothing is sent while the timer runs, nor what was sent last.
Moves(p) ==
  /\ p # at /\ at' = p
  /\ IF throttled
     THEN UNCHANGED <<wire, last, throttled>> /\ history' = [history EXCEPT !.swallowed = TRUE]
     ELSE /\ throttled' = TRUE
          /\ IF last = [mask |-> mouseMask, pos |-> p] THEN UNCHANGED <<wire, last>>
             ELSE SendPointers(<<mouseMask>>, p)
          /\ history' = [history EXCEPT !.swallowed = ~CanSend]
  /\ UNCHANGED <<held, keys, ws, focus, mouseMask, gatewayVars>>

ThrottleEnds == /\ throttled /\ throttled' = FALSE
                /\ UNCHANGED <<userVars, ws, focus, mouseMask, last, wire, gatewayVars, history>>

Leaves == /\ at # Outside /\ at' = Outside
          /\ UNCHANGED <<held, keys, pageVars, wire, gatewayVars, history>>

PressesThrottled(b) ==  \* mutant: mousedown is throttled like mousemove
  /\ at # Outside /\ b \notin Down
  /\ held' = held \cup {b} /\ mouseMask' = mouseMask \cup {b} /\ focus' = TRUE
  /\ IF throttled THEN UNCHANGED <<wire, last>> ELSE SendPointers(<<mouseMask'>>, at)
  /\ history' = [history EXCEPT !.stuckButtons = @ \ {b}, !.swallowed = ~CanSend]
  /\ UNCHANGED <<at, keys, ws, throttled, gatewayVars>>

Presses(b) ==
  /\ at # Outside /\ b \notin Down
  /\ held' = held \cup {b} /\ mouseMask' = mouseMask \cup {b} /\ focus' = TRUE
  /\ SendPointers(<<mouseMask'>>, at)
  /\ history' = [history EXCEPT !.stuckButtons = @ \ {b}, !.swallowed = ~CanSend]
  /\ UNCHANGED <<at, keys, ws, throttled, gatewayVars>>

\* A button pressed beside the canvas, perhaps to be dragged in: no handler runs.
PressesBeside(b) == /\ at = Outside /\ b \notin Down
                    /\ history' = [history EXCEPT !.beside = @ \cup {b}]
                    /\ UNCHANGED <<userVars, pageVars, wire, gatewayVars>>

\* The canvas hears of a release only when the mouse is over it, wherever the
\* button was pressed.
Releases(b) ==
  /\ b \in Down /\ held' = held \ {b}
  /\ IF at = Outside
     THEN /\ history' = [history EXCEPT !.stuckButtons = @ \cup (held \cap {b}),
                                        !.beside = @ \ {b}]
          /\ UNCHANGED <<mouseMask, wire, last>>
     ELSE /\ mouseMask' = mouseMask \ {b} /\ SendPointers(<<mouseMask'>>, at)
          /\ history' = [history EXCEPT !.stuckButtons = @ \ {b}, !.beside = @ \ {b},
                                        !.swallowed = ~CanSend]
  /\ UNCHANGED <<at, keys, ws, focus, throttled, gatewayVars>>

TurnsWheelForGood(t) ==  \* mutant: the wheel's bit stays in the mask
  /\ at # Outside /\ history.turned < MaxTurns
  /\ mouseMask' = mouseMask \cup {t} /\ SendPointers(<<mouseMask'>>, at)
  /\ history' = [history EXCEPT !.turned = IF CanSend THEN @ + 1 ELSE @, !.swallowed = ~CanSend]
  /\ UNCHANGED <<userVars, ws, focus, throttled, gatewayVars>>

\* wheel: a packet with the wheel's bit and one without.
TurnsWheel(t) ==
  /\ at # Outside /\ history.turned < MaxTurns
  /\ SendPointers(<<mouseMask \cup {t}, mouseMask>>, at)
  /\ history' = [history EXCEPT !.turned = IF CanSend THEN @ + 1 ELSE @, !.swallowed = ~CanSend]
  /\ UNCHANGED <<userVars, ws, focus, mouseMask, throttled, gatewayVars>>

\* keydown, also repeated while the key is held.
KeyDown(k) ==
  /\ focus /\ keys' = keys \cup {k} /\ SendKey(TRUE, k)
  /\ history' = [history EXCEPT !.stuckKeys = IF CanSend THEN @ \ {k} ELSE @]
  /\ UNCHANGED <<at, held, pageVars, gatewayVars>>

\* keyup goes elsewhere when the canvas has lost the focus.
KeyUp(k) ==
  /\ k \in keys /\ keys' = keys \ {k}
  /\ IF focus THEN SendKey(FALSE, k) /\ UNCHANGED history
     ELSE UNCHANGED wire /\ history' = [history EXCEPT !.stuckKeys = @ \cup {k}]
  /\ UNCHANGED <<at, held, pageVars, gatewayVars>>

FocusLost == /\ focus /\ focus' = FALSE
             /\ UNCHANGED <<userVars, ws, mouseMask, last, throttled, wire, gatewayVars, history>>
-----------------------------------------------------------------------------
(* The gateway, and what the desktop makes of what it passes on.            *)

Wheel(new) == new.mask \cap Turns # {}

\* The packet that lets the wheel go, and nothing else, makes no event.
Silent(new, old) ==
  new.pos = old.pos /\ new.mask # old.mask /\ new.mask = old.mask \ Turns

MapMouseOnButtons(d, new, old) ==  \* mutant: the position goes with buttons only
  [d EXCEPT !.pos     = IF new.mask \ Turns # old.mask \ Turns \/ Wheel(new) THEN new.pos ELSE @,
            !.pressed = (@ \ (old.mask \ new.mask)) \cup ((new.mask \ old.mask) \ Turns),
            !.turned  = IF Wheel(new) THEN @ + 1 ELSE @]

\* map_mouse_events, as the desktop takes the events: one for a new position,
\* one for each button whose bit has changed, one for the wheel, and if there
\* is none of these one for the position. All carry the packet's position.
MapMouse(d, new, old) ==
  [d EXCEPT !.pos     = IF Silent(new, old) THEN @ ELSE new.pos,
            !.pressed = (@ \ (old.mask \ new.mask)) \cup ((new.mask \ old.mask) \ Turns),
            !.turned  = IF Wheel(new) THEN @ + 1 ELSE @]

Struck(d, down, key) == [d EXCEPT !.keys = IF down THEN @ \cup {key} ELSE @ \ {key}]

\* A scancode is a key; a character leaves no trace in the state of the keys;
\* without both the keysym is zero, which map_key_event finds nothing for.
RdpKey(d, p) == IF p.scancode # 0 THEN Struck(d, p.down, <<p.scancode, p.extended>>) ELSE d

\* A VNC server takes the whole state of the pointer.
RfbPointer(d, p) == [d EXCEPT !.pos = p.pos, !.pressed = p.mask \ Turns,
                              !.turned = IF Wheel(p) THEN @ + 1 ELSE @]

\* The keysym of a VNC key event: bytes 2 to 5 of the packet, big-endian.
Keysym(p) == p.scancode * 2^24 + p.extended * 2^16 + p.unicode

\* What a packet does to gateway and desktop.
Taken(s, p) ==
  CASE protocol = "vnc" /\ p.type = "pointer" -> [s EXCEPT !.desk = RfbPointer(@, p)]
    [] protocol = "vnc" /\ p.type = "key"     -> [s EXCEPT !.desk = Struck(@, p.down, Keysym(p))]
    [] protocol = "rdp" /\ p.type = "pointer" ->
         [prev |-> [mask |-> p.mask, pos |-> p.pos], desk |-> MapMouse(s.desk, p, s.prev)]
    [] protocol = "rdp" /\ p.type = "key"     -> [s EXCEPT !.desk = RdpKey(@, p)]

GatewayTakes == /\ wire # <<>> /\ wire' = Tail(wire)
                /\ LET s == Taken([prev |-> prev, desk |-> desk], Head(wire))
                   IN prev' = s.prev /\ desk' = s.desk
                /\ UNCHANGED <<userVars, pageVars, protocol, history>>

Next == \/ Opens \/ ThrottleEnds \/ Leaves \/ FocusLost \/ GatewayTakes
        \/ \E p \in Points : Moves(p)
        \/ \E b \in Buttons : Presses(b) \/ PressesBeside(b) \/ Releases(b)
        \/ \E t \in Turns : TurnsWheel(t)
        \/ \E k \in Keys : KeyDown(k) \/ KeyUp(k)

Spec == Init /\ [][Next]_vars

-----------------------------------------------------------------------------
(* Properties.                                                              *)

\* Gateway and desktop after some packets.
After(s, packets) ==
  LET after[i \in 0..Len(packets)] ==
        IF i = 0 THEN s ELSE Taken(after[i - 1], packets[i])
  IN after[Len(packets)]

\* The desktop's state once all packets on their way have been taken.
Upcoming == After([prev |-> prev, desk |-> desk], wire).desk

Mask == Buttons \cup Turns
Masks == [mask : SUBSET Mask, pos : Points \cup {Outside}]

\* Type invariant.
TypeOK == /\ protocol \in Protocols
          /\ at \in Points \cup {Outside} /\ Down \subseteq Buttons /\ keys \subseteq Keys
          /\ ws \in {"connecting", "open"} /\ {focus, throttled} \subseteq BOOLEAN
          /\ mouseMask \subseteq Buttons /\ last \in Masks /\ prev \in Masks
          /\ Len(wire) <= MaxWire
          /\ \A i \in DOMAIN wire : wire[i].type \in {"pointer", "key"}
          /\ desk.pos \in Points /\ desk.pressed \subseteq Buttons

\* From the first packet on, the desktop has (or will have, when the packets on
\* their way arrive) exactly those buttons down that the user pressed over the
\* canvas and holds, and those that he let go beside it: throttling, and the
\* gateway's packet to packet comparison, lose no press and no release.
ButtonsFollow == last.pos # Outside => Upcoming.pressed = held \cup history.stuckButtons

\* The pointer is where the user's is, unless the latest move fell into the
\* pause after another; a press or release is never swallowed.
PointerFollows ==
  last.pos # Outside /\ at # Outside /\ ~history.swallowed => Upcoming.pos = at

\* Each turn of the wheel that was sent scrolls once.
EachTurnScrollsOnce == Upcoming.turned = history.turned

Code(k) == k.code

\* No key is down on the desktop that the user is not holding, but for those
\* let go after the canvas had lost the focus.
KeysFollow ==
  protocol = "rdp" => Upcoming.keys \subseteq {Code(k) : k \in keys \cup history.stuckKeys}

\* A VNC server is told the keysym of the key ("Key Event: [0x04, down_flag: u8,
\* keysym: u32]", vnc.rs:436); that of a Latin-1 character is its code.
KeysymsAreRight ==
  protocol = "vnc" => \A s \in Upcoming.keys : \E k \in Keys : s = k.uni
=============================================================================
