------------------------------ MODULE RdpSession ------------------------------
(* One RDP session of the gateway: handle_rdp_session (protocols/rdp.rs).   *)
(*   client   the IronRDP thread; its events go into the output queue       *)
(*   loop     output queue -> frames and errors -> WebSocket queue          *)
(*   writer   WebSocket queue -> browser                                    *)
(*   reader   browser -> client (input, resize) and pongs                   *)
(* The canvas is the browser's: app.js applies each message to it.          *)
EXTENDS RdpFrames, Sequences, TLC

CONSTANTS Screens,    \* the frames the remote desktop may show
          Asked,      \* [w, h]: the desktop size asked for
          OutCap,     \* capacity of the output queue (64 in the code)
          WsCap,      \* capacity of the WebSocket queue (512 in the code)
          MaxFrames,  \* bound: frames the client emits
          MaxOthers,  \* bound: pointer and other events the client emits
          MaxPings    \* bound: pings the browser sends

ASSUME SessionAssumption ==
  /\ \A f \in Screens \cup {Asked} : f.w \in Nat \ {0} /\ f.h \in Nat \ {0}
  /\ {OutCap, WsCap} \subseteq Nat \ {0}
  /\ {MaxFrames, MaxOthers, MaxPings} \subseteq Nat

VARIABLES client,     \* the RDP connection: up, ended with an event, or gone
          screen,     \* the frame the client emitted last
          emitted,    \* [frames, others]: how many events it has emitted
          out,        \* the output queue
          lp,         \* output loop, then the end of the handler
          latest,     \* the event in the loop's hand
          sized,      \* [w, h] of the last init sent for a frame, or none
          prev,       \* prev_frame: the pixels sent last
          stale,      \* history: the canvas was erased and prev_frame kept
          wsq,        \* the WebSocket queue
          wr, wmsg,   \* writer: program counter, message in hand
          rdr,        \* reader
          running,    \* is_running
          closeAsked, \* RdpInputEvent::Close was sent to the client
          browser,    \* the browser's end: open, closing, or lost
          inbox,      \* messages of the browser not yet read
          pings,      \* pings sent by the browser
          canvas,     \* what the browser shows
          told        \* the browser was shown an error

clientVars  == <<client, screen, emitted>>
loopVars    == <<lp, latest, sized, prev, stale>>
writerVars  == <<wr, wmsg, canvas, told>>
browserVars == <<browser, inbox, pings>>
vars == <<clientVars, out, loopVars, wsq, writerVars, rdr, running, closeAsked,
          browserVars>>

Event(k) == [kind |-> k]
Image(f) == [kind |-> "image", frame |-> f]
EndKinds == {"failure", "error", "graceful"}

InitMessage(w, h) == [type |-> "init", w |-> w, h |-> h]
TilesMessage(p) == [type |-> "tiles", paint |-> p]
Plain(t) == [type |-> t]

NoEvent == Event("other")
NoScreen == [w |-> 1, h |-> 1, pix |-> (0 :> Black)]
NoSize == [w |-> 0, h |-> 0]

\* The configuration is valid and the threads are spawned; the first init
\* message, of the size asked for, is already queued.
Init == /\ client = "up" /\ screen = NoScreen
        /\ emitted = [frames |-> 0, others |-> 0]
        /\ out = <<>> /\ lp = "recv" /\ latest = NoEvent
        /\ sized = NoSize /\ prev = <<>> /\ stale = FALSE
        /\ wsq = <<InitMessage(Asked.w, Asked.h)>>
        /\ wr = "recv" /\ wmsg = Plain("none") /\ rdr = "next"
        /\ running = TRUE /\ closeAsked = FALSE
        /\ browser = "open" /\ inbox = <<>> /\ pings = 0
        /\ canvas = Erased(1, 1) /\ told = FALSE

-----------------------------------------------------------------------------
(* The IronRDP client, as the gateway sees it through its event queue.      *)

ClientFrame == UNCHANGED <<loopVars, wsq, writerVars, rdr, running, closeAsked, browserVars>>

LoopOver == lp \in {"over", "close", "abortReader", "abortWriter", "done"}
Room == Len(out) < OutCap \/ LoopOver

Emit(e) == Room /\ out' = Append(out, e)

ClientShows(f) == /\ client = "up" /\ emitted.frames < MaxFrames /\ ~LoopOver
                  /\ Emit(Image(f)) /\ screen' = f
                  /\ emitted' = [emitted EXCEPT !.frames = @ + 1]
                  /\ ClientFrame /\ UNCHANGED client

ClientEmitsOther == /\ client = "up" /\ emitted.others < MaxOthers /\ ~LoopOver
                    /\ Emit(Event("other"))
                    /\ emitted' = [emitted EXCEPT !.others = @ + 1]
                    /\ ClientFrame /\ UNCHANGED <<client, screen>>

\* ConnectionFailure or Terminated is the last event of a client.
ClientEnds(k) == /\ client = "up"
                 /\ Emit(Event(k)) /\ client' = "gone"
                 /\ ClientFrame /\ UNCHANGED <<screen, emitted>>

\* The thread could not build its runtime, or panicked: no event.
ClientDies == /\ client = "up" /\ client' = "gone"
              /\ ClientFrame /\ UNCHANGED <<out, screen, emitted>>

ClientCloses == closeAsked /\ ClientEnds("graceful")

-----------------------------------------------------------------------------
(* Output loop.                                                             *)

LpFrame == UNCHANGED <<clientVars, writerVars, rdr, browserVars>>

LpStop(next) == lp' = next /\ UNCHANGED <<latest, sized, prev, stale>>

\* The flag is looked at only when an event has arrived.
LpRecv == /\ lp = "recv" /\ out # <<>>
          /\ out' = Tail(out) /\ latest' = Head(out)
          /\ lp' = IF running THEN "drain" ELSE "over"
          /\ LpFrame /\ UNCHANGED <<sized, prev, stale, wsq, running, closeAsked>>

LpRecvEnd == /\ lp = "recv" /\ out = <<>> /\ client = "gone"
             /\ LpStop("over")
             /\ LpFrame /\ UNCHANGED <<out, wsq, running, closeAsked>>

LpDrainKeepsFirst == \* mutant: the newer events are dropped instead
  /\ lp = "drain" /\ out # <<>>
  /\ out' = Tail(out)
  /\ LpFrame /\ UNCHANGED <<lp, latest, sized, prev, stale, wsq, running, closeAsked>>

\* Coalescing: whatever is queued replaces the event in hand.
LpDrain == /\ lp = "drain" /\ out # <<>>
           /\ out' = Tail(out) /\ latest' = Head(out)
           /\ LpFrame /\ UNCHANGED <<lp, sized, prev, stale, wsq, running, closeAsked>>

NewSize == sized # [w |-> latest.frame.w, h |-> latest.frame.h]

LpHandle == /\ lp = "drain" /\ out = <<>>
            /\ LpStop(CASE latest.kind = "image"    -> IF NewSize THEN "init" ELSE "frame"
                        [] latest.kind = "graceful" -> "over"
                        [] latest.kind = "other"    -> "recv"
                        [] OTHER                    -> "error")
            /\ LpFrame /\ UNCHANGED <<out, wsq, running, closeAsked>>

\* send waits for room; without a receiver it fails.
WriterGone == wr = "done"
PushDrops(m) ==  \* mutant: try_send, which drops the message when there is no room
  wsq' = IF WriterGone \/ Len(wsq) = WsCap THEN wsq ELSE Append(wsq, m)

Push(m) == /\ WriterGone \/ Len(wsq) < WsCap
           /\ wsq' = IF WriterGone THEN wsq ELSE Append(wsq, m)

\* The page erases the canvas. The number of pixels is all that is compared
\* with prev_frame later: if it is the same, what was sent counts as shown.
LpInit == /\ lp = "init"
          /\ Push(InitMessage(latest.frame.w, latest.frame.h))
          /\ sized' = [w |-> latest.frame.w, h |-> latest.frame.h]
          /\ stale' = (Cardinality(DOMAIN prev) = latest.frame.w * latest.frame.h)
          /\ lp' = "frame"
          /\ LpFrame /\ UNCHANGED <<out, latest, prev, running, closeAsked>>

Whole(paint, f) == DOMAIN paint = Cells(Screen(f.w, f.h))

LpSend == /\ lp = "frame"
          /\ LET r == Process(prev, latest.frame)
             IN /\ prev' = r.prev
                /\ stale' = (stale /\ \A p \in r.paint : ~Whole(p, latest.frame))
                /\ IF r.paint = {}
                   THEN UNCHANGED wsq /\ lp' = "recv"
                   ELSE /\ \E p \in r.paint : Push(TilesMessage(p))
                        /\ lp' = IF WriterGone THEN "over" ELSE "recv"
          /\ LpFrame /\ UNCHANGED <<out, latest, sized, running, closeAsked>>

LpError == /\ lp = "error"
           /\ Push(Plain("error")) /\ LpStop("over")
           /\ LpFrame /\ UNCHANGED <<out, running, closeAsked>>

\* The end of the handler, once the loop is left.
LpOver == /\ lp = "over" /\ running' = FALSE /\ LpStop("close")
          /\ LpFrame /\ UNCHANGED <<out, wsq, closeAsked>>

LpClose == /\ lp = "close" /\ closeAsked' = TRUE /\ LpStop("abortReader")
           /\ LpFrame /\ UNCHANGED <<out, wsq, running>>

LpAbortReader == /\ lp = "abortReader" /\ rdr' = "done" /\ LpStop("abortWriter")
                 /\ UNCHANGED <<clientVars, writerVars, browserVars, out, wsq,
                                running, closeAsked>>

LpAbortWriter == /\ lp = "abortWriter" /\ wr' = "done" /\ LpStop("done")
                 /\ UNCHANGED <<clientVars, wmsg, canvas, told, browserVars, out, wsq,
                                rdr, running, closeAsked>>

Loop == \/ LpRecv \/ LpRecvEnd \/ LpDrain \/ LpHandle \/ LpInit \/ LpSend \/ LpError
        \/ LpOver \/ LpClose \/ LpAbortReader \/ LpAbortWriter

-----------------------------------------------------------------------------
(* Writer, reader and browser.                                              *)

WrFrame == UNCHANGED <<clientVars, out, loopVars, rdr, running, closeAsked, browserVars>>

WrRecv == /\ wr = "recv" /\ wsq # <<>>
          /\ wmsg' = Head(wsq) /\ wsq' = Tail(wsq)
          /\ wr' = IF running THEN "send" ELSE "done"
          /\ WrFrame /\ UNCHANGED <<canvas, told>>

\* What the page does with a message.
Shown(cv, m) == CASE m.type = "init"  -> Erased(m.w, m.h)
                  [] m.type = "tiles" -> Painted(cv, m.paint)
                  [] OTHER            -> cv

WrSend == /\ wr = "send" /\ browser = "open"
          /\ canvas' = Shown(canvas, wmsg) /\ told' = (told \/ wmsg.type = "error")
          /\ wr' = "recv"
          /\ WrFrame /\ UNCHANGED <<wsq, wmsg>>

\* Into the socket's buffer for nobody to read, or an error.
WrSendToNobody == /\ wr = "send" /\ browser # "open"
                  /\ wr' \in {"recv", "done"}
                  /\ WrFrame /\ UNCHANGED <<wsq, wmsg, canvas, told>>

Writer == WrRecv \/ WrSend \/ WrSendToNobody

RdrFrame == UNCHANGED <<clientVars, out, loopVars, writerVars>>

RdrIgnoresClose == \* mutant: only the flag is cleared
  /\ rdr = "next" /\ inbox # <<>>
  /\ inbox' = Tail(inbox)
  /\ IF ~running \/ Head(inbox) = "close"
     THEN rdr' = "leave" /\ UNCHANGED <<wsq, closeAsked>>
     ELSE Push(Plain("pong")) /\ UNCHANGED <<rdr, closeAsked>>
  /\ RdrFrame /\ UNCHANGED <<running, browser, pings>>

\* Input and resize requests are passed on to the client, whose answer is
\* whatever it shows next; they change nothing here.
RdrNext == /\ rdr = "next" /\ inbox # <<>>
           /\ inbox' = Tail(inbox)
           /\ IF ~running THEN rdr' = "leave" /\ UNCHANGED <<wsq, closeAsked>>
              ELSE IF Head(inbox) = "close"
                   THEN rdr' = "leave" /\ closeAsked' = TRUE /\ UNCHANGED wsq
              ELSE Push(Plain("pong")) /\ UNCHANGED <<rdr, closeAsked>>
           /\ RdrFrame /\ UNCHANGED <<running, browser, pings>>

\* The stream fails: no close request reaches the client.
RdrStreamEnds == /\ rdr = "next" /\ inbox = <<>> /\ browser = "lost"
                 /\ rdr' = "leave"
                 /\ RdrFrame /\ UNCHANGED <<wsq, running, closeAsked, browserVars>>

\* Out of the loop, and with no await before it, the flag is cleared.
RdrLeave == /\ rdr = "leave"
            /\ rdr' = "done" /\ running' = FALSE
            /\ RdrFrame /\ UNCHANGED <<wsq, closeAsked, browserVars>>

Reader == RdrNext \/ RdrStreamEnds \/ RdrLeave

BrFrame == UNCHANGED <<clientVars, out, loopVars, wsq, writerVars, rdr, running, closeAsked>>

BrowserPings == /\ browser = "open" /\ pings < MaxPings
                /\ inbox' = Append(inbox, "ping") /\ pings' = pings + 1
                /\ BrFrame /\ UNCHANGED browser

BrowserCloses == /\ browser = "open" /\ browser' = "closing"
                 /\ inbox' = Append(inbox, "close")
                 /\ BrFrame /\ UNCHANGED pings

ConnectionLost == /\ browser \in {"open", "closing"} /\ browser' = "lost" /\ inbox' = <<>>
                  /\ BrFrame /\ UNCHANGED pings

Browser == BrowserPings \/ BrowserCloses \/ ConnectionLost

Client == \/ \E f \in Screens : ClientShows(f)
          \/ ClientEmitsOther
          \/ \E k \in EndKinds : ClientEnds(k)
          \/ ClientDies

Next == Client \/ ClientCloses \/ Loop \/ Writer \/ Reader \/ Browser

\* Every task that can run runs; the client honours a close request. The
\* remote desktop may stay silent for ever.
Fairness == /\ WF_vars(Loop) /\ WF_vars(Writer) /\ WF_vars(Reader)
            /\ WF_vars(ClientCloses)

Spec == Init /\ [][Next]_vars /\ Fairness

-----------------------------------------------------------------------------
(* Properties.                                                              *)

\* Type invariant; neither queue outgrows its capacity.
TypeOK == /\ client \in {"up", "gone"} /\ screen \in Screens \cup {NoScreen}
          /\ emitted.frames \in 0..MaxFrames /\ emitted.others \in 0..MaxOthers
          /\ Len(out) <= OutCap \/ LoopOver
          /\ \A i \in DOMAIN out : out[i].kind \in {"image", "other"} \cup EndKinds
          /\ lp \in {"recv", "drain", "init", "frame", "error", "over", "close",
                     "abortReader", "abortWriter", "done"}
          /\ Len(wsq) <= WsCap
          /\ wr \in {"recv", "send", "done"} /\ rdr \in {"next", "leave", "done"}
          /\ {running, closeAsked, told, stale} \subseteq BOOLEAN
          /\ browser \in {"open", "closing", "lost"} /\ pings \in 0..MaxPings

\* The messages on their way to the browser.
Upcoming == (IF wr = "send" THEN <<wmsg>> ELSE <<>>) \o wsq

\* The pictures a canvas goes through when messages arrive one after the other,
\* and the last of them.
Stills(cv, msgs) ==
  LET pic[i \in 0..Len(msgs)] == IF i = 0 THEN cv ELSE Shown(pic[i - 1], msgs[i]) IN pic
After(cv, msgs) == Stills(cv, msgs)[Len(msgs)]

\* While the session runs, the cached frame the next one is compared with is
\* what the browser shows, or will show when all that is queued has arrived:
\* so a tile found unchanged is on the canvas ("First frame or size changed:
\* send full frame and cache", rdp.rs:516). Not so after a resize that kept the
\* number of pixels, until a frame is sent whole: then parts may be missing, and
\* are black, but nothing else is shown in their place.
CacheIsShown ==
  running /\ wr # "done" /\ browser = "open" /\ lp = "recv" /\ sized # NoSize =>
    LET shown == After(canvas, Upcoming)
        cached == Picture([w |-> sized.w, h |-> sized.h, pix |-> prev])
    IN Lacks(shown, cached) /\ (~stale => shown = cached)

\* When everything has come to rest the browser shows the desktop's last frame
\* ("so only the latest frame is processed", CHANGELOG.md:22), but for the parts
\* that such a resize left black, as long as the client emits nothing but frames:
\* another event queued behind the last frame takes its place in the loop's hand
\* (rdp.rs:661).
LatestFrameShown ==
  /\ running /\ client = "up" /\ browser = "open" /\ wr = "recv" /\ lp = "recv"
  /\ out = <<>> /\ wsq = <<>> /\ emitted.frames > 0 /\ emitted.others = 0
  => Lacks(canvas, Picture(screen)) /\ (~stale => canvas = Picture(screen))

Over == lp = "done" /\ wr = "done" /\ rdr = "done"

\* Has a task something to do that needs neither a new event of the client nor
\* the browser?
WsRoom == WriterGone \/ Len(wsq) < WsCap
LoopReady == \/ lp = "recv" /\ (out # <<>> \/ client = "gone")
             \/ lp \in {"init", "error"} /\ WsRoom
             \/ lp = "frame" /\ (WsRoom \/ Process(prev, latest.frame).paint = {})
             \/ lp \in {"drain", "over", "close", "abortReader", "abortWriter"}
WriterReady == \/ wr = "recv" /\ wsq # <<>>
               \/ wr = "send"
ReaderReady == \/ /\ rdr = "next" /\ inbox # <<>>
                  /\ ~running \/ Head(inbox) = "close" \/ WsRoom
               \/ rdr = "next" /\ inbox = <<>> /\ browser = "lost"
               \/ rdr = "leave"
ClientReady == closeAsked /\ client = "up" /\ Room

AtRest == ~(LoopReady \/ WriterReady \/ ReaderReady \/ ClientReady)

\* What a task may wait for when nothing in the session moves.
AwaitsClient == lp = "recv" /\ out = <<>> /\ client = "up" /\ ~closeAsked
AwaitsBrowser == rdr = "next" /\ browser = "open" /\ inbox = <<>>

\* The tasks never wait for each other alone, with two queues at their capacity
\* and the flag between them: at rest the session is over and its client gone;
\* or it runs, with the loop waiting for the desktop, the reader for the browser
\* and the writer for either; or the stream failed while the desktop was silent,
\* the one case in which a session is left waiting for the desktop alone
\* (rdp.rs:404).
RestIsIdle ==
  AtRest => \/ Over /\ client = "gone"
            \/ AwaitsClient /\ AwaitsBrowser /\ running /\ wr = "recv" /\ wsq = <<>>
            \/ AwaitsClient /\ browser = "lost" /\ rdr = "done"

\* Whoever ends a session, all of it ends: when the page is closed, or the RDP
\* connection ends, with an event or without, so does every task; and a session
\* that is over leaves no RDP connection behind.
SessionEnds == /\ browser = "closing" ~> Over \/ browser = "lost"
               /\ client = "gone" \/ lp = "done" ~> Over /\ client = "gone"

\* Coalescing never swallows the error the connection ended with: a message
\* with it is queued for the browser, unless the browser has left. That it gets
\* there is not promised: the handler clears the flag and aborts the writer right
\* behind it (rdp.rs:371, 733, 736).
ErrorQueued ==
  (\E i \in DOMAIN out : out[i].kind \in {"failure", "error"})
    ~> \/ told \/ browser # "open"
       \/ \E i \in DOMAIN wsq : wsq[i].type = "error"
       \/ wr = "send" /\ wmsg.type = "error"

-----------------------------------------------------------------------------
(* The session as a Display.                                                *)

Draws(m) == m.type \in {"init", "tiles"}
Pictures(cv, msgs) == LET still == Stills(cv, msgs)
                      IN [i \in DOMAIN msgs |-> IF Draws(msgs[i]) THEN {still[i]} ELSE {}]
OnTheWay == Pictures(canvas, Upcoming)

\* What an event shows; those behind an error are never looked at.
Shows(e) == IF e.kind = "image" THEN {Picture(e.frame)} ELSE {}
InHand == IF lp \in {"drain", "init", "frame"} THEN <<Shows(latest)>> ELSE <<>>
Waiting == IF LoopOver \/ lp = "error" THEN <<>> ELSE [i \in DOMAIN out |-> Shows(out[i])]

\* A session that ends shows nothing more.
Live == browser = "open" /\ wr # "done"
Due == IF Live THEN OnTheWay \o InHand \o Waiting ELSE <<>>

\* Diffs of tiles, batches and full frames, coalescing, resizes and the end of
\* a session at any point add up to a Display: the browser is shown frames of
\* the desktop, in order, and whole ones unless a resize kept the number of
\* pixels (rdp.rs:515, 661).
D == INSTANCE Display WITH Frames <- {Picture(f) : f \in Screens},
                           Blanks <- {Erased(f.w, f.h) : f \in Screens \cup {Asked, NoScreen}},
                           Dark <- Black, due <- Due, faded <- Live /\ stale
DisplayRefined == D!DisplaySpec
=============================================================================
