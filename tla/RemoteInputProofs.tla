-------------------------- MODULE RemoteInputProofs --------------------------
(* Proofs about RemoteInput, for any number of positions, buttons and keys, *)
(* and any number of packets on their way. The invariant is about the state *)
(* in the end, when all packets have been taken: Upcoming.                  *)
EXTENDS RemoteInput, TLAPS, FiniteSetTheorems

-----------------------------------------------------------------------------
(* Packets taken one after the other.                                       *)

\* A set of numbers that is not empty has a smallest member.
LEMMA Smallest == ASSUME NEW T \in SUBSET Nat, T # {} PROVE \E x \in T : \A y \in T : x <= y
  <1> DEFINE Upto(n) == 0..n
             R == StrictSubsetOrdering(Nat)
             F == {Upto(n) : n \in T}
  <1>1. F \subseteq FiniteSubsetsOf(Nat) /\ F # {}
    <2>1. ASSUME NEW n \in T PROVE Upto(n) \in SUBSET Nat /\ IsFiniteSet(Upto(n))
      BY FS_Interval
    <2> QED BY <2>1 DEF FiniteSubsetsOf
  <1>2. PICK a \in F : \A b \in F : <<b, a>> \notin R
    <2> HIDE DEF F, R
    <2>1. IsWellFoundedOn(R, FiniteSubsetsOf(Nat))
      BY FS_StrictSubsetOrderingWellFounded DEF R
    <2> QED BY <1>1, <2>1, WFMin, Zenon
  <1>3. PICK x \in T : a = Upto(x)
    OBVIOUS
  <1>4. ASSUME NEW y \in T, y < x PROVE FALSE
    <2>1. Upto(y) \in SUBSET Nat /\ Upto(x) \in SUBSET Nat
      OBVIOUS
    <2>2. Upto(y) \subseteq Upto(x) /\ Upto(y) # Upto(x)
      <3>1. x \in Upto(x) /\ x \notin Upto(y)
        BY <1>4
      <3> QED BY <1>4, <3>1
    <2>3. <<Upto(y), Upto(x)>> \in R
      BY <2>1, <2>2, Zenon DEF StrictSubsetOrdering
    <2> QED BY <1>2, <1>3, <2>3
  <1> QED BY <1>4

\* Gateway and desktop, packet by packet, and in the end.
Film(s, gd, ps) ==
  s = [i \in 0..Len(ps) |-> IF i = 0 THEN gd ELSE Taken(s[i - 1], ps[i])]
Leads(gd, ps, end) == \E s : Film(s, gd, ps) /\ s[Len(ps)] = end

LEMMA FilmAfter ==
  ASSUME NEW s, NEW gd, NEW ps, Len(ps) \in Nat, Film(s, gd, ps)
  PROVE  After(gd, ps) = s[Len(ps)]
  <1> DEFINE n == Len(ps)
             end == CHOOSE end : end = [i \in 0..n |->
                      IF i = 0 THEN gd ELSE Taken(end[i - 1], ps[i])]
             T == {i \in 0..n : end[i] # s[i]}
  <1>1. end = [i \in 0..n |-> IF i = 0 THEN gd ELSE Taken(end[i - 1], ps[i])]
    <2>1. \E x : x = [i \in 0..n |-> IF i = 0 THEN gd ELSE Taken(x[i - 1], ps[i])]
      BY DEF Film
    <2> QED BY <2>1, Zenon
  <1>2. After(gd, ps) = end[n]
    BY Zenon DEF After
  <1> HIDE DEF end
  <1>3. ASSUME T # {} PROVE FALSE
    <2>1. PICK i \in T : \A j \in T : i <= j
      <3>1. T \in SUBSET Nat
        OBVIOUS
      <3> HIDE DEF T
      <3> QED BY <1>3, <3>1, Smallest
    <2>2. i # 0
      BY <1>1, <2>1 DEF Film
    <2>3. end[i - 1] = s[i - 1]
      BY <2>1, <2>2
    <2> QED BY <1>1, <2>1, <2>2, <2>3 DEF Film
  <1> QED BY <1>2, <1>3

LEMMA LeadsAfter == ASSUME NEW gd, NEW ps, Len(ps) \in Nat, NEW end, Leads(gd, ps, end)
                    PROVE  After(gd, ps) = end
  BY FilmAfter DEF Leads

LEMMA LeadsNow == ASSUME NEW gd, NEW end PROVE Leads(gd, <<>>, end) <=> end = gd
  <1>1. ASSUME Leads(gd, <<>>, end) PROVE end = gd
    BY <1>1 DEF Leads, Film
  <1>2. Leads(gd, <<>>, gd)
    <2>1. PICK s : s = [i \in 0..0 |-> gd]
      OBVIOUS
    <2>2. Film(s, gd, <<>>) /\ s[Len(<<>>)] = gd
      BY <2>1 DEF Film
    <2> QED BY <2>2 DEF Leads
  <1> QED BY <1>1, <1>2

LEMMA LeadsOn ==
  ASSUME NEW M, NEW ps \in Seq(M), NEW m, NEW gd, NEW end, Leads(gd, ps, end)
  PROVE  Leads(gd, Append(ps, m), Taken(end, m))
  <1>1. PICK s : Film(s, gd, ps) /\ s[Len(ps)] = end
    BY DEF Leads
  <1>2. PICK n \in Nat : n = Len(ps)
    OBVIOUS
  <1>3. /\ Len(Append(ps, m)) = n + 1 /\ Append(ps, m)[n + 1] = m
        /\ \A i \in 1..n : Append(ps, m)[i] = ps[i]
    BY <1>2
  <1>4. PICK t : t = [i \in 0..n + 1 |-> IF i = n + 1 THEN Taken(end, m) ELSE s[i]]
    OBVIOUS
  <1>5. \A i \in 0..n + 1 :
          t[i] = IF i = 0 THEN gd ELSE Taken(t[i - 1], Append(ps, m)[i])
    <2> SUFFICES ASSUME NEW i \in 0..n + 1
                 PROVE  t[i] = IF i = 0 THEN gd ELSE Taken(t[i - 1], Append(ps, m)[i])
      OBVIOUS
    <2>1. CASE i = n + 1
      <3>1. i # 0 /\ i - 1 = n /\ n \in 0..n + 1 /\ n # n + 1
        BY <2>1
      <3>2. t[n] = end
        BY <1>1, <1>2, <1>4, <3>1
      <3>3. t[i] = Taken(end, m)
        BY <1>4, <2>1
      <3>4. t[i - 1] = end /\ Append(ps, m)[i] = m
        BY <1>3, <2>1, <3>1, <3>2, Zenon
      <3> QED BY <3>1, <3>3, <3>4, Zenon
    <2>2. CASE i \in 0..n
      <3>1. s[i] = IF i = 0 THEN gd ELSE Taken(s[i - 1], ps[i])
        BY <1>1, <1>2, <2>2 DEF Film
      <3>2. t[i] = s[i] /\ (i # 0 => t[i - 1] = s[i - 1])
        BY <1>4, <2>2
      <3> QED BY <1>3, <2>2, <3>1, <3>2
    <2>3. i = n + 1 \/ i \in 0..n
      OBVIOUS
    <2> QED BY <2>1, <2>2, <2>3, Zenon
  <1>6. Film(t, gd, Append(ps, m))
    <2>1. t = [i \in 0..n + 1 |-> IF i = 0 THEN gd ELSE Taken(t[i - 1], Append(ps, m)[i])]
      <3> DEFINE u == [i \in 0..n + 1 |-> IF i = 0 THEN gd ELSE Taken(t[i - 1], Append(ps, m)[i])]
      <3>1. \A i \in 0..n + 1 : t[i] = u[i]
        BY <1>5
      <3> HIDE DEF u
      <3>2. t = [i \in 0..n + 1 |-> t[i]]
        BY <1>4
      <3>3. u = [i \in 0..n + 1 |-> u[i]]
        BY DEF u
      <3>4. t = u
        BY <3>1, <3>2, <3>3
      <3> QED BY <3>4 DEF u
    <2> QED BY <1>3, <2>1 DEF Film
  <1> QED BY <1>3, <1>4, <1>6 DEF Leads

LEMMA LeadsFrom ==
  ASSUME NEW M, NEW ps \in Seq(M), ps # <<>>, NEW gd, NEW end, Leads(gd, ps, end)
  PROVE  Leads(Taken(gd, Head(ps)), Tail(ps), end)
  <1>1. PICK s : Film(s, gd, ps) /\ s[Len(ps)] = end
    BY DEF Leads
  <1>2. PICK n \in Nat : n = Len(Tail(ps)) /\ Len(ps) = n + 1
    OBVIOUS
  <1>3. \A i \in 1..n : Tail(ps)[i] = ps[i + 1]
    BY <1>2
  <1>4. PICK t : t = [i \in 0..n |-> s[i + 1]]
    OBVIOUS
  <1>5. \A i \in 0..n :
          t[i] = IF i = 0 THEN Taken(gd, Head(ps)) ELSE Taken(t[i - 1], Tail(ps)[i])
    <2> SUFFICES ASSUME NEW i \in 0..n
                 PROVE  t[i] = IF i = 0 THEN Taken(gd, Head(ps))
                               ELSE Taken(t[i - 1], Tail(ps)[i])
      OBVIOUS
    <2>1. s[i + 1] = Taken(s[i], ps[i + 1])
      BY <1>1, <1>2 DEF Film
    <2>2. CASE i = 0
      <3>1. s[0] = gd /\ Head(ps) = ps[1]
        BY <1>1, <1>2 DEF Film
      <3> QED BY <1>4, <2>1, <2>2, <3>1
    <2>3. CASE i \in 1..n
      <3>1. i # 0 /\ i - 1 \in 0..n /\ i - 1 + 1 = i
        BY <2>3
      <3>2. t[i - 1] = s[i] /\ t[i] = s[i + 1]
        BY <1>4, <3>1
      <3>3. Tail(ps)[i] = ps[i + 1]
        BY <1>3, <2>3
      <3> QED BY <2>1, <3>1, <3>2, <3>3, Zenon
    <2>4. i = 0 \/ i \in 1..n
      OBVIOUS
    <2> QED BY <2>2, <2>3, <2>4, Zenon
  <1>6. Film(t, Taken(gd, Head(ps)), Tail(ps))
    <2> DEFINE u == [i \in 0..n |-> IF i = 0 THEN Taken(gd, Head(ps))
                                    ELSE Taken(t[i - 1], Tail(ps)[i])]
    <2>1. \A i \in 0..n : t[i] = u[i]
      BY <1>5
    <2> HIDE DEF u
    <2>2. t = [i \in 0..n |-> t[i]]
      BY <1>4
    <2>3. u = [i \in 0..n |-> u[i]]
      BY DEF u
    <2>4. t = u
      BY <2>1, <2>2, <2>3
    <2> QED BY <1>2, <2>4 DEF Film, u
  <1>7. t[n] = end
    BY <1>1, <1>2, <1>4
  <1> QED BY <1>2, <1>6, <1>7 DEF Leads

-----------------------------------------------------------------------------
(* One packet.                                                              *)

Pointers == [type : {"pointer"}, mask : SUBSET Mask, pos : Points]
KeyPackets == [type : {"key"}, down : BOOLEAN, scancode : 0..255, extended : {0, 1},
               unicode : Nat]
Packets == Pointers \cup KeyPackets

Codes == {<<p.scancode, p.extended>> : p \in KeyPackets} \cup {Keysym(p) : p \in KeyPackets}
Prevs == [mask : SUBSET Mask, pos : Points]
Desks == [pos : Points, pressed : SUBSET Buttons, turned : Nat, keys : SUBSET Codes]
Gateways == [prev : Prevs, desk : Desks]

\* Gateway and desktop agree on a pointer packet: they have taken it last.
Settled(g, mask, pos) ==
  /\ g.desk.pressed = mask \ Turns /\ g.desk.pos = pos
  /\ protocol = "rdp" => g.prev = [mask |-> mask, pos |-> pos]

LEMMA NoButtonTurns == Buttons \cap Turns = {} /\ Mask \ Turns = Buttons
  <1>1. Buttons \subseteq {"left", "middle", "right"}
    BY InputAssumption
  <1>2. "left" \notin Turns /\ "middle" \notin Turns /\ "right" \notin Turns
    BY DEF Turns
  <1> QED BY <1>1, <1>2 DEF Mask

LEMMA PointerType ==
  ASSUME protocol \in {"rdp", "vnc"}, NEW g \in Gateways, NEW p \in Pointers
  PROVE  Taken(g, p) \in Gateways
  <1>1. /\ g.desk \in Desks /\ g.prev \in Prevs /\ p.type = "pointer"
        /\ p.mask \subseteq Mask /\ p.pos \in Points
    BY DEF Gateways, Pointers
  <1> DEFINE turned == IF Wheel(p) THEN g.desk.turned + 1 ELSE g.desk.turned
             pressed == (g.desk.pressed \ (g.prev.mask \ p.mask))
                          \cup ((p.mask \ g.prev.mask) \ Turns)
             pos == IF Silent(p, g.prev) THEN g.desk.pos ELSE p.pos
  <1>2. turned \in Nat /\ pos \in Points
    BY <1>1 DEF Desks
  <1>3. p.mask \ Turns \subseteq Buttons /\ pressed \subseteq Buttons
    BY <1>1, NoButtonTurns DEF Desks
  <1>4. /\ RfbPointer(g.desk, p) = [g.desk EXCEPT !.pos = p.pos, !.pressed = p.mask \ Turns,
                                                  !.turned = turned]
        /\ MapMouse(g.desk, p, g.prev) = [g.desk EXCEPT !.pos = pos, !.pressed = pressed,
                                                        !.turned = turned]
    BY DEF RfbPointer, MapMouse
  <1> HIDE DEF turned, pressed, pos
  <1>5. RfbPointer(g.desk, p) \in Desks /\ MapMouse(g.desk, p, g.prev) \in Desks
    BY <1>1, <1>2, <1>3, <1>4 DEF Desks
  <1>6. CASE protocol = "vnc"
    <2>1. Taken(g, p) = [g EXCEPT !.desk = RfbPointer(@, p)]
      BY <1>1, <1>6 DEF Taken
    <2> QED BY <1>5, <2>1 DEF Gateways
  <1>7. CASE protocol = "rdp"
    <2>1. Taken(g, p) = [prev |-> [mask |-> p.mask, pos |-> p.pos],
                         desk |-> MapMouse(g.desk, p, g.prev)]
      BY <1>1, <1>7 DEF Taken
    <2>2. [mask |-> p.mask, pos |-> p.pos] \in Prevs
      BY <1>1 DEF Prevs
    <2> QED BY <1>5, <2>1, <2>2 DEF Gateways
  <1> QED BY <1>6, <1>7

\* A pointer packet is passed on as it is, in RDP because the packets compared
\* differ from each other in what the desktop does not know yet.
LEMMA PointerTaken ==
  ASSUME protocol \in {"rdp", "vnc"}, NEW g \in Gateways, NEW p \in Pointers,
         protocol = "rdp" => g.desk.pressed = g.prev.mask \ Turns,
         protocol = "rdp" /\ Silent(p, g.prev) => g.desk.pos = p.pos
  PROVE  /\ Taken(g, p) \in Gateways
         /\ Settled(Taken(g, p), p.mask, p.pos)
         /\ Taken(g, p).desk.keys = g.desk.keys
         /\ Taken(g, p).desk.turned = IF Wheel(p) THEN g.desk.turned + 1 ELSE g.desk.turned
  <1>1. /\ g.desk \in Desks /\ g.prev \in Prevs /\ p.type = "pointer"
        /\ p.mask \subseteq Mask /\ p.pos \in Points
    BY DEF Gateways, Pointers
  <1>2. p.mask \ Turns \subseteq Buttons
    BY <1>1, NoButtonTurns
  <1> DEFINE turned == IF Wheel(p) THEN g.desk.turned + 1 ELSE g.desk.turned
  <1>0. turned \in Nat
    BY <1>1 DEF Desks
  <1>3. CASE protocol = "vnc"
    <2>1. Taken(g, p) = [g EXCEPT !.desk = RfbPointer(@, p)]
      BY <1>1, <1>3 DEF Taken
    <2>0. RfbPointer(g.desk, p) = [g.desk EXCEPT !.pos = p.pos, !.pressed = p.mask \ Turns,
                                                !.turned = turned]
      BY DEF RfbPointer
    <2> HIDE DEF turned
    <2>2. RfbPointer(g.desk, p) \in Desks
      BY <1>0, <1>1, <1>2, <2>0 DEF Desks
    <2>3. Taken(g, p).desk = RfbPointer(g.desk, p) /\ Taken(g, p) \in Gateways
      BY <2>1, <2>2 DEF Gateways
    <2>4. /\ RfbPointer(g.desk, p).pos = p.pos /\ RfbPointer(g.desk, p).pressed = p.mask \ Turns
          /\ RfbPointer(g.desk, p).keys = g.desk.keys
          /\ RfbPointer(g.desk, p).turned = turned
      BY <1>1, <2>0 DEF Desks
    <2> QED BY <1>3, <2>3, <2>4 DEF Settled, turned
  <1>4. CASE protocol = "rdp"
    <2>1. Taken(g, p) = [prev |-> [mask |-> p.mask, pos |-> p.pos],
                         desk |-> MapMouse(g.desk, p, g.prev)]
      BY <1>1, <1>4 DEF Taken
    <2> DEFINE pressed == (g.desk.pressed \ (g.prev.mask \ p.mask))
                            \cup ((p.mask \ g.prev.mask) \ Turns)
    <2>2. pressed = p.mask \ Turns
      BY <1>4
    <2>5. MapMouse(g.desk, p, g.prev) = [g.desk EXCEPT !.pos = p.pos, !.pressed = pressed,
                                                        !.turned = turned]
      <3>1. (IF Silent(p, g.prev) THEN g.desk.pos ELSE p.pos) = p.pos
        BY <1>4
      <3> QED BY <3>1 DEF MapMouse
    <2> HIDE DEF turned, pressed
    <2>3. /\ MapMouse(g.desk, p, g.prev) \in Desks
          /\ MapMouse(g.desk, p, g.prev).pressed = pressed
          /\ MapMouse(g.desk, p, g.prev).pos = p.pos
          /\ MapMouse(g.desk, p, g.prev).keys = g.desk.keys
          /\ MapMouse(g.desk, p, g.prev).turned = turned
      BY <1>0, <1>1, <1>2, <2>2, <2>5 DEF Desks
    <2>4. [mask |-> p.mask, pos |-> p.pos] \in Prevs
      BY <1>1 DEF Prevs
    <2> QED BY <1>4, <2>1, <2>2, <2>3, <2>4 DEF Settled, Gateways, turned
  <1> QED BY <1>3, <1>4

\* A key packet concerns the keys alone.
LEMMA KeyTaken ==
  ASSUME protocol \in {"rdp", "vnc"}, NEW g \in Gateways, NEW p \in KeyPackets
  PROVE  /\ Taken(g, p) \in Gateways /\ Taken(g, p).prev = g.prev
         /\ Taken(g, p).desk.pos = g.desk.pos /\ Taken(g, p).desk.pressed = g.desk.pressed
         /\ Taken(g, p).desk.turned = g.desk.turned
         /\ protocol = "rdp" => Taken(g, p).desk.keys =
              IF p.scancode = 0 THEN g.desk.keys
              ELSE IF p.down THEN g.desk.keys \cup {<<p.scancode, p.extended>>}
              ELSE g.desk.keys \ {<<p.scancode, p.extended>>}
  <1>1. g.desk \in Desks /\ g.prev \in Prevs
    BY DEF Gateways
  <1>7. p.type = "key" /\ p.down \in BOOLEAN
    BY DEF KeyPackets
  <1>2. Keysym(p) \in Codes /\ <<p.scancode, p.extended>> \in Codes
    BY DEF Codes
  <1>3. ASSUME NEW down \in BOOLEAN, NEW key \in Codes
        PROVE  /\ Struck(g.desk, down, key) \in Desks
               /\ Struck(g.desk, down, key).pos = g.desk.pos
               /\ Struck(g.desk, down, key).pressed = g.desk.pressed
               /\ Struck(g.desk, down, key).turned = g.desk.turned
               /\ Struck(g.desk, down, key).keys =
                    IF down THEN g.desk.keys \cup {key} ELSE g.desk.keys \ {key}
    BY <1>1 DEF Struck, Desks
  <1>4. PICK d \in Desks : /\ Taken(g, p) = [g EXCEPT !.desk = d]
                           /\ protocol = "rdp" => d = RdpKey(g.desk, p)
                           /\ protocol = "vnc" => d = Struck(g.desk, p.down, Keysym(p))
    <2>1. CASE protocol = "vnc"
      BY <1>1, <1>2, <1>3, <1>7, <2>1 DEF Taken
    <2>2. CASE protocol = "rdp"
      <3>1. RdpKey(g.desk, p) \in Desks
        BY <1>1, <1>2, <1>3, <1>7 DEF RdpKey
      <3>2. Taken(g, p) = [g EXCEPT !.desk = RdpKey(g.desk, p)]
        BY <1>1, <1>7, <2>2 DEF Taken
      <3> QED BY <2>2, <3>1, <3>2
    <2> QED BY <2>1, <2>2
  <1>5. Taken(g, p) \in Gateways /\ Taken(g, p).desk = d /\ Taken(g, p).prev = g.prev
    BY <1>4 DEF Gateways
  <1>6. /\ d.pos = g.desk.pos /\ d.pressed = g.desk.pressed /\ d.turned = g.desk.turned
        /\ protocol = "rdp" => d.keys =
              IF p.scancode = 0 THEN g.desk.keys
              ELSE IF p.down THEN g.desk.keys \cup {<<p.scancode, p.extended>>}
              ELSE g.desk.keys \ {<<p.scancode, p.extended>>}
    <2>1. CASE protocol = "vnc"
      <3>1. d = Struck(g.desk, p.down, Keysym(p)) /\ protocol # "rdp"
        BY <1>4, <2>1
      <3> QED BY <1>2, <1>3, <1>7, <3>1
    <2>2. CASE protocol = "rdp"
      <3>1. CASE p.scancode = 0
        BY <1>4, <2>2, <3>1 DEF RdpKey
      <3>2. CASE p.scancode # 0
        <4>1. d = Struck(g.desk, p.down, <<p.scancode, p.extended>>)
          BY <1>4, <2>2, <3>2 DEF RdpKey
        <4> QED BY <1>2, <1>3, <1>7, <2>2, <3>2, <4>1
      <3> QED BY <3>1, <3>2
    <2> QED BY <2>1, <2>2
  <1> QED BY <1>5, <1>6

LEMMA TakenType ==
  ASSUME protocol \in {"rdp", "vnc"}, NEW g \in Gateways, NEW p \in Packets
  PROVE  Taken(g, p) \in Gateways
  BY PointerType, KeyTaken DEF Packets

-----------------------------------------------------------------------------
(* What every step leaves in order.                                         *)

PageType == /\ protocol \in Protocols /\ protocol \in {"rdp", "vnc"}
            /\ at \in Points \cup {Outside} /\ held \subseteq Buttons /\ keys \subseteq Keys
            /\ ws \in {"connecting", "open"}
            /\ focus \in BOOLEAN /\ throttled \in BOOLEAN
            /\ mouseMask \subseteq Buttons /\ last \in Masks
            /\ history \in [stuckButtons : SUBSET Buttons, beside : SUBSET Buttons,
                            stuckKeys : SUBSET Keys, swallowed : BOOLEAN, turned : Nat]

Now == [prev |-> prev, desk |-> desk]

WireType == wire \in Seq(Packets) /\ Len(wire) <= MaxWire /\ Now \in Gateways

\* What the page believes: the buttons held, and those let go where it did not
\* look; and what it sent last, if it has sent anything.
PageInv == /\ held \cap history.stuckButtons = {}
           /\ mouseMask = held \cup history.stuckButtons
           /\ last.mask \subseteq Buttons
           /\ last.pos # Outside => ws = "open" /\ last.mask = mouseMask
           /\ last.pos = Outside => last.mask = {}
           /\ last.pos # Outside /\ at # Outside /\ ~history.swallowed => last.pos = at

Accounted == {Code(k) : k \in keys \cup history.stuckKeys}

\* The state in the end is what the page sent last, and the keys' own matter.
Ends(g) == /\ g \in Gateways
           /\ g.desk.pressed = last.mask /\ g.desk.turned = history.turned
           /\ last.pos # Outside => g.desk.pos = last.pos
           /\ protocol = "rdp" =>
                /\ g.prev.mask = last.mask
                /\ g.desk.keys \subseteq Accounted /\ \A c \in g.desk.keys : c[1] # 0
                /\ ws = "connecting" => g.desk.keys = {}

EndInv == \E g : Leads(Now, wire, g) /\ Ends(g)

Inv == PageType /\ WireType /\ PageInv /\ EndInv

LEMMA InitInv == Init => Inv
  <1> SUFFICES ASSUME Init PROVE Inv
    OBVIOUS
  <1>1. PICK origin \in Points, p \in Points :
          /\ prev = [mask |-> {}, pos |-> origin]
          /\ desk = [pos |-> p, pressed |-> {}, turned |-> 0, keys |-> {}]
    BY DEF Init
  <1>2. PICK g : g = [prev |-> prev, desk |-> desk]
    OBVIOUS
  <1>3. g \in Gateways
    BY <1>1, <1>2 DEF Gateways, Prevs, Desks
  <1>4. last.mask = {} /\ last.pos = Outside
    BY DEF Init
  <1>5. Ends(g)
    BY <1>1, <1>2, <1>3, <1>4 DEF Init, Ends
  <1>6. Leads(Now, wire, g)
    <2>1. Leads(g, <<>>, g)
      BY LeadsNow
    <2> QED BY <1>2, <2>1 DEF Now, Init
  <1>7. WireType
    <2>1. wire = <<>>
      BY DEF Init
    <2> QED BY <1>2, <1>3, <2>1, InputAssumption DEF WireType, Now
  <1>8. PageType
    <2>1. protocol \in Protocols /\ protocol \in {"rdp", "vnc"}
      BY InputAssumption DEF Init
    <2>2. last \in Masks
      BY DEF Init, Masks
    <2> QED BY <2>1, <2>2 DEF Init, PageType
  <1>9. PageInv
    BY <1>4 DEF Init, PageInv
  <1> QED BY <1>5, <1>6, <1>7, <1>8, <1>9 DEF Inv, EndInv

-----------------------------------------------------------------------------
(* The end, as the wire changes.                                            *)

LEMMA SameTaken == ASSUME protocol' = protocol PROVE \A g, p : Taken(g, p)' = Taken(g, p)
  BY DEF Taken, RdpKey

LEMMA SameLeads ==
  ASSUME protocol' = protocol, NEW s, NEW ps, NEW g
  PROVE  Leads(s, ps, g)' <=> Leads(s, ps, g)
  BY SameTaken DEF Leads, Film

LEMMA NothingSent ==
  ASSUME UNCHANGED <<protocol, wire, prev, desk>>, NEW g, Leads(Now, wire, g)
  PROVE  Leads(Now, wire, g)'
  <1>1. PICK s, ps : s = Now /\ ps = wire
    OBVIOUS
  <1>2. Leads(s, ps, g)'
    BY <1>1, SameLeads
  <1>3. Now' = s /\ wire' = ps
    BY <1>1 DEF Now
  <1> QED BY <1>2, <1>3

LEMMA Sent ==
  ASSUME UNCHANGED <<protocol, prev, desk>>, wire \in Seq(Packets), NEW p, wire' = Append(wire, p),
         NEW g, Leads(Now, wire, g)
  PROVE  Leads(Now, wire, Taken(g, p))'
  <1>1. PICK s, ps, h : s = Now /\ ps = wire /\ h = Taken(g, p)
    OBVIOUS
  <1>2. PICK qs : qs = Append(ps, p)
    OBVIOUS
  <1>3. Leads(s, qs, h)'
    BY <1>1, <1>2, LeadsOn, SameLeads
  <1>4. Now' = s /\ wire' = qs /\ Taken(g, p)' = h
    BY <1>1, <1>2, SameTaken DEF Now
  <1> QED BY <1>3, <1>4

LEMMA Received ==
  ASSUME protocol \in {"rdp", "vnc"}, WireType, GatewayTakes, NEW g, Leads(Now, wire, g)
  PROVE  WireType' /\ Leads(Now, wire, g)'
  <1>1. PICK s, ps : s = Now /\ ps = wire
    OBVIOUS
  <1>2. PICK h, qs : h = Taken(s, Head(ps)) /\ qs = Tail(ps)
    OBVIOUS
  <1>3. h \in Gateways /\ qs \in Seq(Packets)
    <2>1. ps \in Seq(Packets) /\ ps # <<>> /\ s \in Gateways
      BY <1>1 DEF WireType, GatewayTakes
    <2>2. Head(ps) \in Packets
      BY <2>1
    <2> QED BY <2>2, <1>2, <2>1, TakenType
  <1>4. Leads(h, qs, g)'
    <2>1. Leads(h, qs, g)
      BY <1>1, <1>2, LeadsFrom DEF WireType, GatewayTakes
    <2> QED BY <2>1, SameLeads DEF GatewayTakes
  <1>5. Now' = h /\ wire' = qs
    <2>1. prev' = h.prev /\ desk' = h.desk /\ wire' = qs
      BY <1>1, <1>2 DEF GatewayTakes, Now
    <2>2. h = [prev |-> h.prev, desk |-> h.desk]
      BY <1>3 DEF Gateways
    <2> QED BY <2>1, <2>2 DEF Now
  <1>6. Len(wire') <= MaxWire
    BY <1>1, <1>2, <1>5, InputAssumption DEF WireType
  <1> QED BY <1>3, <1>4, <1>5, <1>6 DEF WireType

-----------------------------------------------------------------------------
(* What the page does, seen from the wire: nothing, one packet of the       *)
(* pointer, the two of the wheel, one of a key.                             *)

Quiet == UNCHANGED <<wire, last>>
SendsPointer(mask, pos) ==
  /\ ws = "open" /\ Len(wire) + 1 <= MaxWire /\ wire' = Append(wire, Pointer(mask, pos))
  /\ last' = [mask |-> mask, pos |-> pos]
SendsWheel(t, mask, pos) ==
  /\ ws = "open" /\ Len(wire) + 2 <= MaxWire
  /\ wire' = Append(Append(wire, Pointer(mask \cup {t}, pos)), Pointer(mask, pos))
  /\ last' = [mask |-> mask, pos |-> pos]
SendsKey(down, k) ==
  /\ ws = "open" /\ Len(wire) + 1 <= MaxWire /\ wire' = Append(wire, Key(down, k))
  /\ UNCHANGED last

LEMMA OnePacket ==
  ASSUME wire \in Seq(Packets), NEW mask, NEW pos, SendPointers(<<mask>>, pos)
  PROVE  SendsPointer(mask, pos) \/ (ws # "open" /\ Quiet)
  <1>1. CASE ws = "open"
    <2> DEFINE more == [i \in DOMAIN <<mask>> |-> Pointer(<<mask>>[i], pos)]
    <2>1. /\ Len(<<mask>>) = 1 /\ <<mask>>[1] = mask /\ DOMAIN <<mask>> = 1..1
      OBVIOUS
    <2>2. more = <<Pointer(mask, pos)>>
      BY <2>1
    <2>3. wire \o <<Pointer(mask, pos)>> = Append(wire, Pointer(mask, pos))
      OBVIOUS
    <2>4. /\ Len(wire) + 1 <= MaxWire /\ wire' = wire \o more
          /\ last' = [mask |-> mask, pos |-> pos]
      BY <1>1, <2>1 DEF SendPointers, CanSend, Room
    <2> QED BY <1>1, <2>2, <2>3, <2>4 DEF SendsPointer
  <1>2. CASE ws # "open"
    BY <1>2 DEF SendPointers, CanSend, Quiet
  <1> QED BY <1>1, <1>2

LEMMA TwoPackets ==
  ASSUME wire \in Seq(Packets), NEW t, NEW mask, NEW pos,
         SendPointers(<<mask \cup {t}, mask>>, pos)
  PROVE  SendsWheel(t, mask, pos) \/ (ws # "open" /\ Quiet)
  <1>1. CASE ws = "open"
    <2> DEFINE masks == <<mask \cup {t}, mask>>
               a == Pointer(mask \cup {t}, pos)
               b == Pointer(mask, pos)
               more == [i \in DOMAIN masks |-> Pointer(masks[i], pos)]
    <2>1. /\ Len(masks) = 2 /\ masks[1] = mask \cup {t} /\ masks[2] = mask
          /\ DOMAIN masks = 1..2
      OBVIOUS
    <2>2. more = <<a, b>>
      <3>1. Pointer(masks[1], pos) = a /\ Pointer(masks[2], pos) = b
        BY <2>1
      <3> HIDE DEF a, b, masks
      <3>2. DOMAIN <<a, b>> = 1..2 /\ <<a, b>>[1] = a /\ <<a, b>>[2] = b
        OBVIOUS
      <3>3. \A i \in 1..2 : Pointer(masks[i], pos) = <<a, b>>[i]
        BY <3>1, <3>2
      <3>4. <<a, b>> = [i \in 1..2 |-> <<a, b>>[i]]
        BY <3>2
      <3>5. more = [i \in 1..2 |-> <<a, b>>[i]]
        BY <2>1, <3>3
      <3> QED BY <3>4, <3>5
    <2>3. wire \o <<a, b>> = Append(Append(wire, a), b)
      <3> HIDE DEF a, b
      <3> QED OBVIOUS
    <2>4. /\ Len(wire) + 2 <= MaxWire /\ wire' = wire \o more
          /\ last' = [mask |-> mask, pos |-> pos]
      BY <1>1, <2>1 DEF SendPointers, CanSend, Room
    <2> QED BY <1>1, <2>2, <2>3, <2>4 DEF SendsWheel
  <1>2. CASE ws # "open"
    BY <1>2 DEF SendPointers, CanSend, Quiet
  <1> QED BY <1>1, <1>2

\* The rest of a step of the page.
Aside == UNCHANGED <<protocol, prev, desk>>
Keyless == UNCHANGED <<keys, ws>> /\ history'.stuckKeys = history.stuckKeys

LEMMA PointerPacket == ASSUME NEW mask \in SUBSET Mask, NEW pos \in Points
                       PROVE  /\ Pointer(mask, pos) \in Pointers
                              /\ Pointer(mask, pos).mask = mask /\ Pointer(mask, pos).pos = pos
  BY DEF Pointer, Pointers

\* A pointer packet on top of what was sent last.
LEMMA PointerOnTop ==
  ASSUME protocol \in {"rdp", "vnc"}, NEW g \in Gateways, NEW old \in SUBSET Buttons,
         g.desk.pressed = old, protocol = "rdp" => g.prev.mask = old,
         NEW mask \in SUBSET Mask, NEW pos \in Points
  PROVE  \E h \in Gateways :
           /\ h = Taken(g, Pointer(mask, pos)) /\ Settled(h, mask, pos)
           /\ h.desk.keys = g.desk.keys
           /\ h.desk.turned = IF mask \cap Turns # {} THEN g.desk.turned + 1 ELSE g.desk.turned
  <1> DEFINE p == Pointer(mask, pos)
  <1>1. p \in Pointers /\ p.mask = mask /\ p.pos = pos
    BY PointerPacket
  <1> HIDE DEF p
  <1>2. old = old \ Turns
    BY NoButtonTurns
  <1>3. protocol = "rdp" => ~Silent(p, g.prev)
    BY <1>2 DEF Silent
  <1>4. /\ Settled(Taken(g, p), p.mask, p.pos) /\ Taken(g, p).desk.keys = g.desk.keys
        /\ Taken(g, p).desk.turned = IF Wheel(p) THEN g.desk.turned + 1 ELSE g.desk.turned
    BY <1>1, <1>2, <1>3, PointerTaken
  <1>5. Wheel(p) <=> mask \cap Turns # {}
    BY <1>1 DEF Wheel
  <1>6. Taken(g, p) \in Gateways
    BY <1>1, PointerType
  <1> QED BY <1>1, <1>4, <1>5, <1>6 DEF p

LEMMA QuietEnds ==
  ASSUME Inv, Aside, Quiet, history'.turned = history.turned,
         Accounted \subseteq Accounted' \/ ws = "connecting",
         ws' = "connecting" => ws = "connecting"
  PROVE  WireType' /\ EndInv'
  <1>1. WireType'
    BY DEF Inv, WireType, Quiet, Aside, Now
  <1>2. PICK g : Leads(Now, wire, g) /\ Ends(g)
    BY DEF Inv, EndInv
  <1>3. Leads(Now, wire, g)'
    BY <1>2, NothingSent DEF Quiet, Aside
  <1>4. Ends(g)'
    BY <1>2 DEF Ends, Quiet, Aside
  <1> QED BY <1>1, <1>3, <1>4 DEF EndInv

LEMMA PointerEnds ==
  ASSUME Inv, Aside, Keyless, history'.turned = history.turned,
         NEW mask \in SUBSET Buttons, NEW pos \in Points, SendsPointer(mask, pos)
  PROVE  WireType' /\ EndInv'
  <1>1. PICK p \in Pointers : p = Pointer(mask, pos)
    BY PointerPacket DEF Mask
  <1>2. WireType'
    <2>1. p \in Packets
      BY DEF Packets
    <2> QED BY <1>1, <2>1 DEF Inv, WireType, SendsPointer, Aside, Now
  <1>3. PICK g : Leads(Now, wire, g) /\ Ends(g)
    BY DEF Inv, EndInv
  <1>4. mask \cap Turns = {} /\ mask \ Turns = mask /\ pos # Outside
    BY NoButtonTurns, InputAssumption
  <1>5. PICK h \in Gateways : /\ h = Taken(g, p) /\ Settled(h, mask, pos)
                              /\ h.desk.keys = g.desk.keys /\ h.desk.turned = g.desk.turned
    <2>1. PICK old \in SUBSET Buttons : old = last.mask
      BY DEF Inv, PageInv
    <2> QED BY <1>1, <1>3, <1>4, <2>1, PointerOnTop DEF Inv, PageType, Ends, Mask
  <1>6. Leads(Now, wire, h)'
    <2>1. Leads(Now, wire, Taken(g, p))'
      BY <1>1, <1>3, Sent DEF Inv, WireType, Aside, SendsPointer
    <2> QED BY <1>5, <2>1, SameTaken DEF Aside
  <1>7. last'.mask = mask /\ last'.pos = pos
    BY DEF SendsPointer
  <1>8. Ends(h)'
    <2>1. Accounted' = Accounted
      BY DEF Accounted, Keyless
    <2> QED BY <1>3, <1>4, <1>5, <1>7, <2>1 DEF Ends, Settled, Keyless, Aside
  <1> QED BY <1>2, <1>6, <1>8 DEF EndInv

LEMMA WheelEnds ==
  ASSUME Inv, Aside, Keyless, history'.turned = history.turned + 1, NEW t \in Turns,
         NEW mask \in SUBSET Buttons, mask = last.mask \/ last.pos = Outside,
         NEW pos \in Points, SendsWheel(t, mask, pos)
  PROVE  WireType' /\ EndInv'
  <1>1. PICK both \in SUBSET Mask : both = mask \cup {t}
    BY DEF Mask
  <1>2. PICK a \in Pointers, b \in Pointers : a = Pointer(both, pos) /\ b = Pointer(mask, pos)
    BY PointerPacket DEF Mask
  <1>3. PICK w : w = Append(wire, a)
    OBVIOUS
  <1>4. /\ wire \in Seq(Packets) /\ w \in Seq(Packets) /\ wire' = Append(w, b)
        /\ Len(wire') <= MaxWire /\ wire' \in Seq(Packets)
    <2>1. a \in Packets /\ b \in Packets /\ wire \in Seq(Packets)
      BY DEF Packets, Inv, WireType
    <2>2. wire' = Append(w, b) /\ Len(wire) + 2 <= MaxWire
      BY <1>1, <1>2, <1>3 DEF SendsWheel
    <2> QED BY <1>3, <2>1, <2>2, InputAssumption
  <1>5. WireType'
    BY <1>4 DEF Inv, WireType, Aside, Now
  <1>6. PICK g : Leads(Now, wire, g) /\ Ends(g)
    BY DEF Inv, EndInv
  <1>7. /\ mask \cap Turns = {} /\ mask \ Turns = mask /\ pos # Outside /\ mask \subseteq Mask
        /\ both \cap Turns # {} /\ both \ Turns = mask
    <2>1. mask \cap Turns = {} /\ mask \ Turns = mask /\ mask \subseteq Mask
      BY NoButtonTurns DEF Mask
    <2>2. both \cap Turns # {} /\ both \ Turns = mask
      BY <1>1, <2>1
    <2>3. pos # Outside
      BY InputAssumption
    <2> QED BY <2>1, <2>2, <2>3
  <1>8. protocol \in {"rdp", "vnc"} /\ g \in Gateways
    BY <1>6 DEF Inv, PageType, Ends
  <1>9. PICK h \in Gateways : /\ h = Taken(g, a) /\ Settled(h, both, pos)
                              /\ h.desk.keys = g.desk.keys /\ h.desk.turned = g.desk.turned + 1
    <2>1. PICK old \in SUBSET Buttons : old = last.mask
      BY DEF Inv, PageInv
    <2> QED BY <1>2, <1>6, <1>7, <1>8, <2>1, PointerOnTop DEF Ends
  <1>10. /\ Taken(h, b) \in Gateways /\ Settled(Taken(h, b), mask, pos)
         /\ Taken(h, b).desk.keys = g.desk.keys /\ Taken(h, b).desk.turned = g.desk.turned + 1
    <2>1. b.mask = mask /\ b.pos = pos
      BY <1>2, <1>7, PointerPacket
    <2>2. ~Wheel(b)
      BY <1>7, <2>1 DEF Wheel
    <2>3. /\ protocol = "rdp" => h.desk.pressed = h.prev.mask \ Turns
          /\ h.desk.pos = pos
      BY <1>7, <1>9 DEF Settled
    <2>4. Taken(h, b) \in Gateways
      BY <1>8, PointerType
    <2>5. /\ Settled(Taken(h, b), b.mask, b.pos) /\ Taken(h, b).desk.keys = h.desk.keys
          /\ Taken(h, b).desk.turned = IF Wheel(b) THEN h.desk.turned + 1 ELSE h.desk.turned
      BY <1>8, <2>1, <2>3, PointerTaken
    <2> QED BY <1>9, <2>1, <2>2, <2>4, <2>5
  <1>11. PICK k \in Gateways : /\ k = Taken(h, b) /\ Settled(k, mask, pos)
                               /\ k.desk.keys = g.desk.keys /\ k.desk.turned = g.desk.turned + 1
    BY <1>10
  <1>12. Leads(Now, wire, k)'
    <2>1. PICK s, ps : s = Now /\ ps = wire
      OBVIOUS
    <2>2. Leads(s, w, h)
      BY <1>3, <1>4, <1>6, <1>9, <2>1, LeadsOn
    <2>3. PICK v : v = Append(w, b)
      OBVIOUS
    <2>4. Leads(s, v, k)
      BY <1>4, <1>11, <2>2, <2>3, LeadsOn
    <2>5. Leads(s, v, k)'
      BY <2>4, SameLeads DEF Aside
    <2>6. Now' = s /\ wire' = v
      BY <1>4, <2>1, <2>3 DEF Now, Aside
    <2> QED BY <2>5, <2>6
  <1>13. last'.mask = mask /\ last'.pos = pos
    BY DEF SendsWheel
  <1>14. Ends(k)'
    <2>1. Accounted' = Accounted
      BY DEF Accounted, Keyless
    <2> QED BY <1>6, <1>7, <1>11, <1>13, <2>1 DEF Ends, Settled, Keyless, Aside
  <1> QED BY <1>5, <1>12, <1>14 DEF EndInv

LEMMA KeyPacket == ASSUME NEW down \in BOOLEAN, NEW k \in Keys
                   PROVE  /\ Key(down, k) \in KeyPackets /\ Key(down, k).down = down
                          /\ <<Key(down, k).scancode, Key(down, k).extended>> = Code(k)
                          /\ Key(down, k).scancode = Code(k)[1]
  <1>1. k \in [code : (0..255) \X {0, 1}, uni : Nat]
    BY InputAssumption
  <1>2. k.code[1] \in 0..255 /\ k.code[2] \in {0, 1} /\ k.code = <<k.code[1], k.code[2]>> /\ k.uni \in Nat
    BY <1>1
  <1>3. Key(down, k) \in KeyPackets
    BY <1>2 DEF Key, KeyPackets
  <1> QED BY <1>2, <1>3 DEF Key, Code

\* A key packet leaves down at most what the user has down, or let go unseen.
LEMMA KeyEnds ==
  ASSUME Inv, Aside, ws' = ws, history'.turned = history.turned,
         NEW down \in BOOLEAN, NEW k \in Keys, SendsKey(down, k),
         IF down THEN Accounted \cup {Code(k)} \subseteq Accounted'
         ELSE Accounted \ {Code(k)} \subseteq Accounted'
  PROVE  WireType' /\ EndInv'
  <1>1. PICK p \in KeyPackets : /\ p = Key(down, k) /\ p.down = down
                                /\ <<p.scancode, p.extended>> = Code(k) /\ p.scancode = Code(k)[1]
    BY KeyPacket
  <1>2. WireType'
    <2>1. p \in Packets
      BY DEF Packets
    <2> QED BY <1>1, <2>1 DEF Inv, WireType, SendsKey, Aside, Now
  <1>3. PICK g : Leads(Now, wire, g) /\ Ends(g)
    BY DEF Inv, EndInv
  <1>4. protocol \in {"rdp", "vnc"} /\ g \in Gateways
    BY <1>3 DEF Inv, PageType, Ends
  <1>5. PICK h \in Gateways :
          /\ h = Taken(g, p) /\ h.prev = g.prev
          /\ h.desk.pos = g.desk.pos /\ h.desk.pressed = g.desk.pressed
          /\ h.desk.turned = g.desk.turned
          /\ protocol = "rdp" => h.desk.keys =
               IF p.scancode = 0 THEN g.desk.keys
               ELSE IF down THEN g.desk.keys \cup {Code(k)} ELSE g.desk.keys \ {Code(k)}
    <2>1. PICK h : h = Taken(g, p)
      OBVIOUS
    <2>2. /\ h \in Gateways /\ h.prev = g.prev
          /\ h.desk.pos = g.desk.pos /\ h.desk.pressed = g.desk.pressed
          /\ h.desk.turned = g.desk.turned
      BY <1>1, <1>4, <2>1, KeyTaken
    <2>3. protocol = "rdp" => h.desk.keys =
            IF p.scancode = 0 THEN g.desk.keys
            ELSE IF p.down THEN g.desk.keys \cup {<<p.scancode, p.extended>>}
            ELSE g.desk.keys \ {<<p.scancode, p.extended>>}
      BY <1>1, <1>4, <2>1, KeyTaken, Zenon
    <2>4. protocol = "rdp" => h.desk.keys =
            IF p.scancode = 0 THEN g.desk.keys
            ELSE IF down THEN g.desk.keys \cup {Code(k)} ELSE g.desk.keys \ {Code(k)}
      BY <1>1, <2>3, Zenon
    <2> QED BY <2>1, <2>2, <2>4
  <1>6. Leads(Now, wire, h)'
    <2>1. Leads(Now, wire, Taken(g, p))'
      BY <1>1, <1>3, Sent DEF Inv, WireType, Aside, SendsKey
    <2> QED BY <1>5, <2>1, SameTaken DEF Aside
  <1>7. ASSUME protocol = "rdp"
        PROVE  h.desk.keys \subseteq Accounted' /\ \A c \in h.desk.keys : c[1] # 0
    <2>1. g.desk.keys \subseteq Accounted /\ \A c \in g.desk.keys : c[1] # 0
      BY <1>3, <1>7 DEF Ends
    <2>2. CASE p.scancode = 0
      <3>1. h.desk.keys = g.desk.keys /\ Code(k) \notin g.desk.keys
        BY <1>1, <1>5, <1>7, <2>1, <2>2
      <3> QED BY <2>1, <3>1
    <2>3. CASE p.scancode # 0
      BY <1>1, <1>5, <1>7, <2>1, <2>3
    <2> QED BY <2>2, <2>3
  <1>8. Ends(h)'
    BY <1>3, <1>5, <1>7 DEF Ends, SendsKey, Aside
  <1> QED BY <1>2, <1>6, <1>8 DEF EndInv

\* What the gateway takes was on its way already.
LEMMA TakesEnds == ASSUME Inv, GatewayTakes PROVE WireType' /\ EndInv'
  <1>1. PICK g : Leads(Now, wire, g) /\ Ends(g)
    BY DEF Inv, EndInv
  <1>2. WireType' /\ Leads(Now, wire, g)'
    BY <1>1, Received DEF Inv, PageType
  <1>3. Accounted' = Accounted
    BY DEF Accounted, GatewayTakes, userVars
  <1>4. Ends(g)'
    BY <1>1, <1>3 DEF Ends, GatewayTakes, userVars, pageVars
  <1> QED BY <1>2, <1>4 DEF EndInv

-----------------------------------------------------------------------------
(* The steps.                                                               *)

\* The user and the session go on without the page sending anything.
LEMMA SilentKeeps ==
  ASSUME Inv, Opens \/ ThrottleEnds \/ Leaves \/ FocusLost PROVE Inv'
  <1>1. Aside /\ Quiet /\ UNCHANGED <<held, keys, mouseMask, history>>
    BY DEF Opens, ThrottleEnds, Leaves, FocusLost, Aside, Quiet, userVars, pageVars, gatewayVars
  <1>2. WireType' /\ EndInv'
    <2>1. ws' = ws \/ ws' = "open"
      BY DEF Opens, ThrottleEnds, Leaves, FocusLost, userVars, pageVars
    <2> QED BY <1>1, <2>1, QuietEnds DEF Accounted
  <1>3. PageType'
    <2>1. ws' \in {"connecting", "open"} /\ at' \in Points \cup {Outside}
      BY DEF Inv, PageType, Opens, ThrottleEnds, Leaves, FocusLost, userVars, pageVars
    <2>2. focus' \in BOOLEAN /\ throttled' \in BOOLEAN
      BY Zenon DEF Inv, PageType, Opens, ThrottleEnds, Leaves, FocusLost, userVars, pageVars
    <2> QED BY <1>1, <2>1, <2>2 DEF Inv, PageType, Aside, Quiet
  <1>4. PageInv'
    <2>1. at' = at \/ at' = Outside
      BY DEF Opens, ThrottleEnds, Leaves, FocusLost, userVars, pageVars
    <2>2. ws' = ws \/ ws' = "open"
      BY DEF Opens, ThrottleEnds, Leaves, FocusLost, userVars, pageVars
    <2> QED BY <1>1, <2>1, <2>2 DEF Inv, PageInv, Quiet
  <1> QED BY <1>2, <1>3, <1>4 DEF Inv

LEMMA TakesKeeps == ASSUME Inv, GatewayTakes PROVE Inv'
  <1>1. PageType'
    BY DEF Inv, PageType, GatewayTakes, userVars, pageVars
  <1>2. PageInv'
    BY DEF Inv, PageInv, GatewayTakes, userVars, pageVars
  <1> QED BY <1>1, <1>2, TakesEnds DEF Inv

\* What was sent last, whichever of its masks were for the wheel alone.
LEMMA LastType == ASSUME NEW mask \in SUBSET Buttons, NEW pos \in Points, last' = [mask |-> mask, pos |-> pos]
                  PROVE  last' \in Masks /\ last'.mask = mask /\ last'.pos = pos /\ pos # Outside
  BY InputAssumption DEF Masks, Mask

LEMMA MovesKeeps == ASSUME Inv, NEW p \in Points, Moves(p) PROVE Inv'
  <1>1. /\ Aside /\ Keyless /\ UNCHANGED <<held, focus, mouseMask>> /\ at' = p
        /\ history' = [history EXCEPT !.swallowed = history'.swallowed]
        /\ history'.swallowed \in BOOLEAN
    BY DEF Inv, PageType, Moves, Aside, Keyless, gatewayVars, CanSend
  <1>2. /\ history'.turned = history.turned /\ history'.stuckKeys = history.stuckKeys
        /\ history'.stuckButtons = history.stuckButtons
        /\ history' \in [stuckButtons : SUBSET Buttons, beside : SUBSET Buttons,
                         stuckKeys : SUBSET Keys, swallowed : BOOLEAN, turned : Nat]
    BY <1>1 DEF Inv, PageType
  <1>3. throttled' \in BOOLEAN
    BY Zenon DEF Inv, PageType, Moves
  <1>4. PICK mask \in SUBSET Buttons : mask = mouseMask
    BY DEF Inv, PageType
  <1>5. ASSUME ~SendsPointer(mask, p)
        PROVE  Quiet /\ (last.pos # Outside /\ ~history'.swallowed => last.pos = p)
    <2>1. CASE throttled
      <3>1. Quiet /\ history' = [history EXCEPT !.swallowed = TRUE]
        BY <2>1 DEF Moves, Quiet
      <3>2. history'.swallowed = TRUE
        BY <3>1 DEF Inv, PageType
      <3> QED BY <3>1, <3>2
    <2>2. CASE ~throttled /\ last = [mask |-> mouseMask, pos |-> p]
      BY <2>2 DEF Moves, Quiet
    <2>3. CASE ~throttled /\ last # [mask |-> mouseMask, pos |-> p]
      <3>1. SendPointers(<<mask>>, p)
        BY <1>4, <2>3 DEF Moves, SendPointers
      <3>2. ws # "open" /\ Quiet
        BY <1>5, <3>1, OnePacket DEF Inv, WireType
      <3> QED BY <3>2 DEF Inv, PageInv
    <2> QED BY <2>1, <2>2, <2>3
  <1>6. CASE SendsPointer(mask, p)
    <2>1. last' \in Masks /\ last'.mask = mask /\ last'.pos = p /\ p # Outside /\ ws' = "open"
      BY <1>1, <1>6, LastType DEF SendsPointer, Keyless
    <2>2. PageType'
      BY <1>1, <1>2, <1>3, <2>1 DEF Inv, PageType, Aside, Keyless
    <2>3. PageInv'
      BY <1>1, <1>2, <1>4, <2>1 DEF Inv, PageInv
    <2>4. WireType' /\ EndInv'
      BY <1>1, <1>2, <1>6, PointerEnds
    <2> QED BY <2>2, <2>3, <2>4 DEF Inv
  <1>7. CASE ~SendsPointer(mask, p)
    <2>1. PageType'
      BY <1>1, <1>2, <1>3, <1>5, <1>7 DEF Inv, PageType, Aside, Keyless, Quiet
    <2>2. PageInv'
      BY <1>1, <1>2, <1>5, <1>7 DEF Inv, PageInv, Keyless, Quiet
    <2>3. WireType' /\ EndInv'
      BY <1>1, <1>2, <1>5, <1>7, QuietEnds DEF Accounted, Keyless
    <2> QED BY <2>1, <2>2, <2>3 DEF Inv
  <1> QED BY <1>6, <1>7

LEMMA PressesKeeps == ASSUME Inv, NEW b \in Buttons, Presses(b) PROVE Inv'
  <1>1. /\ Aside /\ Keyless /\ UNCHANGED <<at, throttled>>
        /\ at \in Points /\ b \notin held /\ held' = held \cup {b}
        /\ mouseMask' = mouseMask \cup {b} /\ focus' = TRUE
    BY DEF Inv, PageType, Presses, Down, Aside, Keyless, gatewayVars
  <1>2. /\ history'.turned = history.turned /\ history'.stuckKeys = history.stuckKeys
        /\ history'.stuckButtons = history.stuckButtons \ {b}
        /\ history' \in [stuckButtons : SUBSET Buttons, beside : SUBSET Buttons,
                         stuckKeys : SUBSET Keys, swallowed : BOOLEAN, turned : Nat]
    BY DEF Inv, PageType, Presses, CanSend
  <1>3. PICK mask \in SUBSET Buttons, q \in Points : mask = mouseMask' /\ q = at
    BY <1>1 DEF Inv, PageType
  <1>4. SendsPointer(mask, q) \/ (ws # "open" /\ Quiet)
    <2>1. SendPointers(<<mask>>, q)
      BY <1>3 DEF Presses, SendPointers
    <2> QED BY <2>1, OnePacket DEF Inv, WireType
  <1>5. focus' \in BOOLEAN /\ throttled' \in BOOLEAN
    BY <1>1, Zenon DEF Inv, PageType
  <1>6. CASE SendsPointer(mask, q)
    <2>1. last' \in Masks /\ last'.mask = mask /\ last'.pos = q /\ q # Outside /\ ws' = "open"
      BY <1>1, <1>6, LastType DEF SendsPointer, Keyless
    <2>2. PageType'
      BY <1>1, <1>2, <1>3, <1>5, <2>1 DEF Inv, PageType, Aside, Keyless
    <2>3. PageInv'
      BY <1>1, <1>2, <1>3, <2>1 DEF Inv, PageInv
    <2>4. WireType' /\ EndInv'
      BY <1>1, <1>2, <1>6, PointerEnds
    <2> QED BY <2>2, <2>3, <2>4 DEF Inv
  <1>7. CASE ws # "open" /\ Quiet
    <2>1. PageType'
      BY <1>1, <1>2, <1>3, <1>5, <1>7 DEF Inv, PageType, Aside, Keyless, Quiet
    <2>2. PageInv'
      BY <1>1, <1>2, <1>7 DEF Inv, PageInv, Keyless, Quiet
    <2>3. WireType' /\ EndInv'
      BY <1>1, <1>2, <1>7, QuietEnds DEF Accounted, Keyless
    <2> QED BY <2>1, <2>2, <2>3 DEF Inv
  <1> QED BY <1>4, <1>6, <1>7

LEMMA PressesBesideKeeps == ASSUME Inv, NEW b \in Buttons, PressesBeside(b) PROVE Inv'
  <1>1. /\ Aside /\ Quiet /\ UNCHANGED <<at, held, keys, focus, throttled, mouseMask>>
        /\ history' = [history EXCEPT !.beside = @ \cup {b}]
    BY DEF PressesBeside, Aside, Quiet, userVars, pageVars, gatewayVars
  <1>2. /\ history'.turned = history.turned /\ history'.stuckKeys = history.stuckKeys
        /\ history'.stuckButtons = history.stuckButtons /\ history'.swallowed = history.swallowed
        /\ history' \in [stuckButtons : SUBSET Buttons, beside : SUBSET Buttons,
                         stuckKeys : SUBSET Keys, swallowed : BOOLEAN, turned : Nat]
    BY <1>1 DEF Inv, PageType
  <1>3. focus' \in BOOLEAN /\ throttled' \in BOOLEAN
    BY <1>1, Zenon DEF Inv, PageType
  <1>4. ws' = ws
    BY DEF PressesBeside, pageVars
  <1>5. PageType'
    BY <1>1, <1>2, <1>3, <1>4 DEF Inv, PageType, Aside, Quiet
  <1>6. PageInv'
    BY <1>1, <1>2, <1>4 DEF Inv, PageInv, Quiet
  <1>7. WireType' /\ EndInv'
    BY <1>1, <1>2, <1>4, QuietEnds DEF Accounted
  <1> QED BY <1>5, <1>6, <1>7 DEF Inv

LEMMA ReleasesKeeps == ASSUME Inv, NEW b \in Buttons, Releases(b) PROVE Inv'
  <1>1. /\ Aside /\ Keyless /\ UNCHANGED <<at, focus, throttled>>
        /\ held' = held \ {b}
    BY DEF Inv, PageType, Releases, Aside, Keyless, gatewayVars
  <1>2. /\ history'.turned = history.turned /\ history'.stuckKeys = history.stuckKeys
        /\ history' \in [stuckButtons : SUBSET Buttons, beside : SUBSET Buttons,
                         stuckKeys : SUBSET Keys, swallowed : BOOLEAN, turned : Nat]
        /\ history'.stuckButtons = IF at = Outside
                                   THEN history.stuckButtons \cup (held \cap {b})
                                   ELSE history.stuckButtons \ {b}
    <2>1. CASE at = Outside
      <3>1. history' = [history EXCEPT !.stuckButtons = @ \cup (held \cap {b}),
                                       !.beside = @ \ {b}]
        BY <2>1 DEF Releases
      <3> QED BY <2>1, <3>1 DEF Inv, PageType
    <2>2. CASE at # Outside
      <3>1. PICK swallowed \in BOOLEAN : swallowed = ~CanSend
        BY Zenon
      <3>2. history' = [history EXCEPT !.stuckButtons = @ \ {b}, !.beside = @ \ {b},
                                       !.swallowed = swallowed]
        <4>1. history' = [history EXCEPT !.stuckButtons = @ \ {b}, !.beside = @ \ {b},
                                         !.swallowed = ~CanSend]
          BY <2>2 DEF Releases
        <4> QED BY <3>1, <4>1
      <3> QED BY <2>2, <3>2 DEF Inv, PageType
    <2> QED BY <2>1, <2>2
  <1>3. focus' \in BOOLEAN /\ throttled' \in BOOLEAN
    BY <1>1, Zenon DEF Inv, PageType
  <1>4. CASE at = Outside
    <2>1. Quiet /\ UNCHANGED mouseMask
      BY <1>4 DEF Releases, Quiet
    <2>2. PageType'
      BY <1>1, <1>2, <1>3, <2>1 DEF Inv, PageType, Aside, Keyless, Quiet
    <2>3. PageInv'
      BY <1>1, <1>2, <1>4, <2>1 DEF Inv, PageInv, Keyless, Quiet
    <2>4. WireType' /\ EndInv'
      BY <1>1, <1>2, <2>1, QuietEnds DEF Accounted, Keyless
    <2> QED BY <2>2, <2>3, <2>4 DEF Inv
  <1>5. CASE at # Outside
    <2>1. PICK mask \in SUBSET Buttons, q \in Points :
            mask = mouseMask' /\ q = at /\ mouseMask' = mouseMask \ {b}
      BY <1>5 DEF Inv, PageType, Releases
    <2>2. SendsPointer(mask, q) \/ (ws # "open" /\ Quiet)
      <3>1. SendPointers(<<mask>>, q)
        BY <1>5, <2>1 DEF Releases, SendPointers
      <3> QED BY <3>1, OnePacket DEF Inv, WireType
    <2>3. CASE SendsPointer(mask, q)
      <3>1. last' \in Masks /\ last'.mask = mask /\ last'.pos = q /\ q # Outside /\ ws' = "open"
        BY <1>1, <2>3, LastType DEF SendsPointer, Keyless
      <3>2. PageType'
        BY <1>1, <1>2, <1>3, <2>1, <3>1 DEF Inv, PageType, Aside, Keyless
      <3>3. PageInv'
        BY <1>1, <1>2, <1>5, <2>1, <3>1 DEF Inv, PageInv
      <3>4. WireType' /\ EndInv'
        BY <1>1, <1>2, <2>3, PointerEnds
      <3> QED BY <3>2, <3>3, <3>4 DEF Inv
    <2>4. CASE ws # "open" /\ Quiet
      <3>1. PageType'
        BY <1>1, <1>2, <1>3, <2>1, <2>4 DEF Inv, PageType, Aside, Keyless, Quiet
      <3>2. PageInv'
        BY <1>1, <1>2, <1>5, <2>1, <2>4 DEF Inv, PageInv, Keyless, Quiet
      <3>3. WireType' /\ EndInv'
        BY <1>1, <1>2, <2>4, QuietEnds DEF Accounted, Keyless
      <3> QED BY <3>1, <3>2, <3>3 DEF Inv
    <2> QED BY <2>2, <2>3, <2>4
  <1> QED BY <1>4, <1>5

LEMMA TurnsWheelKeeps == ASSUME Inv, NEW t \in Turns, TurnsWheel(t) PROVE Inv'
  <1>1. /\ Aside /\ Keyless /\ UNCHANGED <<at, held, focus, mouseMask, throttled>> /\ at \in Points
    BY DEF Inv, PageType, TurnsWheel, Aside, Keyless, gatewayVars, userVars
  <1>2. /\ history'.turned = IF ws = "open" THEN history.turned + 1 ELSE history.turned
        /\ history'.stuckKeys = history.stuckKeys
        /\ history'.stuckButtons = history.stuckButtons
        /\ history' \in [stuckButtons : SUBSET Buttons, beside : SUBSET Buttons,
                         stuckKeys : SUBSET Keys, swallowed : BOOLEAN, turned : Nat]
    <2>1. PICK turned \in Nat :
            turned = IF ws = "open" THEN history.turned + 1 ELSE history.turned
      BY DEF Inv, PageType
    <2>2. PICK swallowed \in BOOLEAN : swallowed = ~CanSend
      BY Zenon
    <2>3. history' = [history EXCEPT !.turned = turned, !.swallowed = swallowed]
      <3>1. history' = [history EXCEPT !.turned = IF CanSend THEN @ + 1 ELSE @,
                                       !.swallowed = ~CanSend]
        BY DEF TurnsWheel
      <3> QED BY <2>1, <2>2, <3>1 DEF CanSend
    <2> QED BY <2>1, <2>3 DEF Inv, PageType
  <1>3. focus' \in BOOLEAN /\ throttled' \in BOOLEAN
    BY <1>1, Zenon DEF Inv, PageType
  <1>4. PICK mask \in SUBSET Buttons, q \in Points : mask = mouseMask /\ q = at
    BY <1>1 DEF Inv, PageType
  <1>5. SendsWheel(t, mask, q) \/ (ws # "open" /\ Quiet)
    <2>1. SendPointers(<<mask \cup {t}, mask>>, q)
      BY <1>4 DEF TurnsWheel, SendPointers
    <2> QED BY <2>1, TwoPackets DEF Inv, WireType
  <1>6. CASE SendsWheel(t, mask, q)
    <2>1. last' \in Masks /\ last'.mask = mask /\ last'.pos = q /\ q # Outside /\ ws' = "open"
      BY <1>1, <1>6, LastType DEF SendsWheel, Keyless
    <2>2. PageType'
      BY <1>1, <1>2, <1>3, <2>1 DEF Inv, PageType, Aside, Keyless
    <2>3. PageInv'
      BY <1>1, <1>2, <1>4, <2>1 DEF Inv, PageInv
    <2>4. WireType' /\ EndInv'
      <3>1. mask = last.mask \/ last.pos = Outside
        BY <1>4 DEF Inv, PageInv
      <3>2. history'.turned = history.turned + 1
        BY <1>2, <1>6 DEF SendsWheel
      <3> QED BY <1>1, <1>6, <3>1, <3>2, WheelEnds
    <2> QED BY <2>2, <2>3, <2>4 DEF Inv
  <1>7. CASE ws # "open" /\ Quiet
    <2>1. PageType'
      BY <1>1, <1>2, <1>3, <1>7 DEF Inv, PageType, Aside, Keyless, Quiet
    <2>2. PageInv'
      BY <1>1, <1>2, <1>7 DEF Inv, PageInv, Keyless, Quiet
    <2>3. WireType' /\ EndInv'
      BY <1>1, <1>2, <1>7, QuietEnds DEF Accounted, Keyless
    <2> QED BY <2>1, <2>2, <2>3 DEF Inv
  <1> QED BY <1>5, <1>6, <1>7

LEMMA KeyMoves == ASSUME NEW k \in Keys, KeyDown(k) \/ KeyUp(k)
                  PROVE  Aside /\ UNCHANGED <<at, held, pageVars>>
  BY DEF KeyDown, KeyUp, Aside, gatewayVars

LEMMA KeyPage ==
  ASSUME Inv, NEW k \in Keys, KeyDown(k) \/ KeyUp(k),
         keys' \subseteq Keys,
         history'.stuckButtons = history.stuckButtons /\ history'.swallowed = history.swallowed,
         history' \in [stuckButtons : SUBSET Buttons, beside : SUBSET Buttons,
                       stuckKeys : SUBSET Keys, swallowed : BOOLEAN, turned : Nat]
  PROVE  PageType' /\ PageInv'
  <1>1. Aside /\ UNCHANGED <<at, held, pageVars>>
    BY KeyMoves
  <1>2. focus' \in BOOLEAN /\ throttled' \in BOOLEAN
    BY <1>1, Zenon DEF Inv, PageType, pageVars
  <1>3. PageType'
    BY <1>1, <1>2 DEF Inv, PageType, pageVars, Aside
  <1>4. PageInv'
    BY <1>1 DEF Inv, PageInv, pageVars
  <1> QED BY <1>3, <1>4

LEMMA KeyDownKeeps == ASSUME Inv, NEW k \in Keys, KeyDown(k) PROVE Inv'
  <1>1. Aside /\ UNCHANGED <<last, ws>> /\ keys' = keys \cup {k}
    BY KeyMoves DEF KeyDown, pageVars
  <1>2. PICK stuck \in SUBSET Keys :
          /\ stuck = IF ws = "open" THEN history.stuckKeys \ {k} ELSE history.stuckKeys
          /\ history' = [history EXCEPT !.stuckKeys = stuck]
    BY DEF Inv, PageType, KeyDown, CanSend
  <1>3. /\ history'.stuckKeys = stuck /\ history'.turned = history.turned
        /\ history'.stuckButtons = history.stuckButtons /\ history'.swallowed = history.swallowed
        /\ history' \in [stuckButtons : SUBSET Buttons, beside : SUBSET Buttons,
                         stuckKeys : SUBSET Keys, swallowed : BOOLEAN, turned : Nat]
    BY <1>2 DEF Inv, PageType
  <1>4. Accounted \cup {Code(k)} \subseteq Accounted'
    BY <1>1, <1>2, <1>3 DEF Accounted
  <1>5. WireType' /\ EndInv'
    <2>1. CASE ws = "open"
      <3>1. SendsKey(TRUE, k)
        BY <1>1, <2>1 DEF KeyDown, SendKey, SendsKey, CanSend, Room
      <3> QED BY <1>1, <1>3, <1>4, <3>1, KeyEnds
    <2>2. CASE ws # "open"
      <3>1. Quiet
        BY <1>1, <2>2 DEF KeyDown, SendKey, CanSend, Quiet
      <3> QED BY <1>1, <1>3, <1>4, <3>1, QuietEnds
    <2> QED BY <2>1, <2>2
  <1>6. keys' \subseteq Keys
    BY <1>1 DEF Inv, PageType
  <1> QED BY <1>3, <1>5, <1>6, KeyPage DEF Inv

LEMMA KeyUpKeeps == ASSUME Inv, NEW k \in Keys, KeyUp(k) PROVE Inv'
  <1>1. Aside /\ UNCHANGED <<last, ws>> /\ keys' = keys \ {k} /\ k \in keys
    BY KeyMoves DEF KeyUp, pageVars
  <1>2. PICK stuck \in SUBSET Keys :
          /\ stuck = IF focus THEN history.stuckKeys ELSE history.stuckKeys \cup {k}
          /\ history' = [history EXCEPT !.stuckKeys = stuck]
    <2>1. history = [history EXCEPT !.stuckKeys = history.stuckKeys]
      BY DEF Inv, PageType
    <2> QED BY <2>1 DEF Inv, PageType, KeyUp
  <1>3. /\ history'.stuckKeys = stuck /\ history'.turned = history.turned
        /\ history'.stuckButtons = history.stuckButtons /\ history'.swallowed = history.swallowed
        /\ history' \in [stuckButtons : SUBSET Buttons, beside : SUBSET Buttons,
                         stuckKeys : SUBSET Keys, swallowed : BOOLEAN, turned : Nat]
    BY <1>2 DEF Inv, PageType
  <1>4. Accounted \ {Code(k)} \subseteq Accounted' /\ (~focus => Accounted \subseteq Accounted')
    BY <1>1, <1>2, <1>3 DEF Accounted
  <1>5. WireType' /\ EndInv'
    <2>1. CASE focus /\ ws = "open"
      <3>1. SendsKey(FALSE, k)
        BY <1>1, <2>1 DEF KeyUp, SendKey, SendsKey, CanSend, Room
      <3> QED BY <1>1, <1>3, <1>4, <3>1, KeyEnds
    <2>2. CASE ~(focus /\ ws = "open")
      <3>1. Quiet
        BY <1>1, <2>2 DEF KeyUp, SendKey, CanSend, Quiet
      <3>2. Accounted \subseteq Accounted' \/ ws = "connecting"
        BY <1>4, <2>2 DEF Inv, PageType
      <3> QED BY <1>1, <1>3, <3>1, <3>2, QuietEnds
    <2> QED BY <2>1, <2>2
  <1>6. keys' \subseteq Keys
    BY <1>1 DEF Inv, PageType
  <1> QED BY <1>3, <1>5, <1>6, KeyPage DEF Inv

LEMMA StutterKeeps == ASSUME Inv, UNCHANGED vars PROVE Inv'
  <1>1. Aside /\ Quiet /\ UNCHANGED <<userVars, pageVars, history>>
    BY DEF vars, gatewayVars, pageVars, Aside, Quiet
  <1>2. WireType' /\ EndInv'
    BY <1>1, QuietEnds DEF Accounted, userVars, pageVars
  <1>3. focus' \in BOOLEAN /\ throttled' \in BOOLEAN
    BY <1>1, Zenon DEF Inv, PageType, pageVars
  <1>4. PageType' /\ PageInv'
    BY <1>1, <1>3 DEF Inv, PageType, PageInv, userVars, pageVars, Aside
  <1> QED BY <1>2, <1>4 DEF Inv

LEMMA NextInv == Inv /\ [Next]_vars => Inv'
  <1> SUFFICES ASSUME Inv, [Next]_vars PROVE Inv'
    OBVIOUS
  <1>1. CASE UNCHANGED vars
    BY <1>1, StutterKeeps
  <1>2. CASE Opens \/ ThrottleEnds \/ Leaves \/ FocusLost
    BY <1>2, SilentKeeps
  <1>3. CASE GatewayTakes
    BY <1>3, TakesKeeps
  <1>4. CASE \E p \in Points : Moves(p)
    BY <1>4, MovesKeeps
  <1>5. CASE \E b \in Buttons : Presses(b) \/ PressesBeside(b) \/ Releases(b)
    BY <1>5, PressesKeeps, PressesBesideKeeps, ReleasesKeeps
  <1>6. CASE \E t \in Turns : TurnsWheel(t)
    BY <1>6, TurnsWheelKeeps
  <1>7. CASE \E k \in Keys : KeyDown(k) \/ KeyUp(k)
    BY <1>7, KeyDownKeeps, KeyUpKeeps
  <1> QED BY <1>1, <1>2, <1>3, <1>4, <1>5, <1>6, <1>7 DEF Next

LEMMA Invariance == Spec => []Inv
  BY InitInv, NextInv, PTL DEF Spec

-----------------------------------------------------------------------------
(* What follows.                                                            *)

\* Upcoming is the state in the end.
LEMMA UpcomingEnds == ASSUME Inv PROVE \E g : Upcoming = g.desk /\ Ends(g)
  <1>1. PICK g : Leads(Now, wire, g) /\ Ends(g)
    BY DEF Inv, EndInv
  <1>2. Len(wire) \in Nat
    BY DEF Inv, WireType
  <1>3. After(Now, wire) = g
    BY <1>1, <1>2, LeadsAfter
  <1> QED BY <1>1, <1>3 DEF Upcoming, Now

\* Every variable has its type; no packet is lost for lack of room.
THEOREM TypeCorrect == Spec => []TypeOK
  <1>1. Inv => TypeOK
    <2> SUFFICES ASSUME Inv PROVE TypeOK
      OBVIOUS
    <2>1. {focus, throttled} \subseteq BOOLEAN
      BY Zenon DEF Inv, PageType
    <2>2. prev \in Prevs /\ desk \in Desks
      BY DEF Inv, WireType, Now, Gateways
    <2>3. \A i \in DOMAIN wire : wire[i].type \in {"pointer", "key"}
      <3>1. \A q \in Packets : q.type \in {"pointer", "key"}
        BY DEF Packets, Pointers, KeyPackets
      <3> QED BY <3>1 DEF Inv, WireType
    <2> QED BY <2>1, <2>2, <2>3 DEF Inv, PageType, WireType, TypeOK, Down, Prevs, Masks, Desks
  <1> QED BY <1>1, Invariance, PTL

\* Throttling and the comparison of packets lose no press and no release.
THEOREM ButtonsAreFollowed == Spec => []ButtonsFollow
  <1>1. Inv => ButtonsFollow
    BY UpcomingEnds DEF Inv, PageInv, Ends, ButtonsFollow
  <1> QED BY <1>1, Invariance, PTL

\* The pointer ends where the user's is.
THEOREM PointerIsFollowed == Spec => []PointerFollows
  <1>1. Inv => PointerFollows
    BY UpcomingEnds DEF Inv, PageInv, Ends, PointerFollows
  <1> QED BY <1>1, Invariance, PTL

\* The two packets of a turn of the wheel scroll once, not twice and not never.
THEOREM TurnsScrollOnce == Spec => []EachTurnScrollsOnce
  <1>1. Inv => EachTurnScrollsOnce
    BY UpcomingEnds DEF Ends, EachTurnScrollsOnce
  <1> QED BY <1>1, Invariance, PTL

\* No key stays down but what the user holds or let go without the focus.
THEOREM KeysAreFollowed == Spec => []KeysFollow
  <1>1. Inv => KeysFollow
    BY UpcomingEnds DEF Ends, Accounted, KeysFollow
  <1> QED BY <1>1, Invariance, PTL
=============================================================================
