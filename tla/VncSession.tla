------------------------------ MODULE VncSession ------------------------------
(* One VNC session of the gateway: handle_vnc_session (protocols/vnc.rs).   *)
(*   reader   RFB stream -> queue, and a request for the next update        *)
(*   sender   queue -> WebSocket                                            *)
(*   main     WebSocket -> RFB stream: input, the subject of RemoteInput,   *)
(*            until the browser closes (the page sends no refresh message)  *)
(* The server answers requests: it sends nothing it was not asked for. The  *)
(* screen is a strip of cells; a rectangle brings the new colours of some   *)
(* cells, or copies one cell to another.                                    *)
EXTENDS Naturals, Sequences

CONSTANTS Size,       \* cells of the screen
          Colours, Black,
          Cap,        \* capacity of the queue (512 in the code)
          MaxChanges  \* bound: changes of the screen

ASSUME VncAssumption == /\ {Size, Cap} \subseteq Nat \ {0} /\ Black \in Colours
                        /\ MaxChanges \in Nat

VARIABLES server,    \* down, up, or eof
          fb,        \* its framebuffer
          seen,      \* the picture its updates so far add up to
          changes,   \* how often the framebuffer has changed
          reqs,      \* requests it has not answered
          stream,    \* updates it has sent that reader has not begun to read
          rd,        \* reader: program counter
          rest, pkt, \* rectangles of the update still to be read, packet in hand
          queue,     \* the mpsc queue
          snd, msg,  \* sender: program counter, packet in hand
          aborted,   \* the handler has called abort on the sender
          running,   \* is_running
          mn,        \* main
          browser,   \* the browser's end: open, closing, or lost
          inbox,     \* messages of the browser not yet read
          canvas     \* what the browser shows

serverVars  == <<server, fb, seen, changes>>
readerVars  == <<rd, rest, pkt>>
senderVars  == <<snd, msg, canvas>>
browserVars == <<browser, inbox>>
vars == <<serverVars, reqs, stream, readerVars, queue, senderVars, aborted, running, mn,
          browserVars>>

Cells == 1..Size
Blank == [c \in Cells |-> Black]

Raw(paint) == [type |-> "raw", paint |-> paint]
CopyRect(from, to) == [type |-> "copy", from |-> from, to |-> to]
Nothing == Raw(<<>>)

\* What the canvas does with a packet.
Shown(cv, p) ==
  IF p.type = "copy" THEN [cv EXCEPT ![p.to] = cv[p.from]]
  ELSE [c \in Cells |-> IF c \in DOMAIN p.paint THEN p.paint[c] ELSE cv[c]]

Init == /\ server = "down" /\ fb \in [Cells -> Colours] /\ seen = Blank /\ changes = 0
        /\ reqs = <<>> /\ stream = <<>>
        /\ rd = "none" /\ rest = <<>> /\ pkt = Nothing
        /\ queue = <<>> /\ snd = "none" /\ msg = Nothing /\ canvas = Blank
        /\ aborted = FALSE /\ running = FALSE /\ mn = "setup"
        /\ browser = "open" /\ inbox = <<>>

-----------------------------------------------------------------------------
(* Setup: the handshake, which ends with a request for the whole screen.    *)

Start == /\ mn = "setup"
         /\ mn' = "next" /\ rd' = "spawned" /\ snd' = "recv" /\ running' = TRUE
         /\ server' = "up" /\ reqs' = <<"full">>
         /\ UNCHANGED <<fb, seen, changes, stream, rest, pkt, queue, msg, canvas, aborted,
                        browserVars>>

SetupFails == /\ mn = "setup"
              /\ mn' = "done" /\ rd' = "done" /\ snd' = "done"
              /\ UNCHANGED <<serverVars, reqs, stream, rest, pkt, queue, msg, canvas, aborted,
                             running, browserVars>>

-----------------------------------------------------------------------------
(* The VNC server.                                                          *)

ServerFrame == UNCHANGED <<readerVars, queue, senderVars, aborted, running, mn, browserVars>>

ScreenChanges == /\ server = "up" /\ changes < MaxChanges
                 /\ \E picture \in [Cells -> Colours] : picture # fb /\ fb' = picture
                 /\ changes' = changes + 1
                 /\ ServerFrame /\ UNCHANGED <<server, seen, reqs, stream>>

Differing(a, b) == {c \in Cells : a[c] # b[c]}
Part(cells) == Raw([c \in cells |-> fb[c]])

\* Rectangles that turn what the client has seen into the framebuffer.
Updates == {<<Part(Cells)>>} \cup
  {<<CopyRect(i, j), Part(Differing(Shown(seen, CopyRect(i, j)), fb))>> :
     i \in Cells, j \in Cells}

\* One update may answer several requests.
ServerAnswers ==
  /\ server = "up" /\ reqs # <<>>
  /\ \E n \in 1..Len(reqs) :
       /\ fb # seen \/ \E i \in 1..n : reqs[i] = "full"
       /\ reqs' = SubSeq(reqs, n + 1, Len(reqs))
       /\ \E rects \in IF \E i \in 1..n : reqs[i] = "full" THEN {<<Part(Cells)>>} ELSE Updates :
            stream' = Append(stream, rects)
  /\ seen' = fb
  /\ ServerFrame /\ UNCHANGED <<server, fb, changes>>

\* The connection ends, perhaps in the middle of an update.
Cut(rects) == {SubSeq(rects, 1, n) : n \in 0..Len(rects)}

ServerEnds ==
  /\ server = "up" /\ server' = "eof"
  /\ IF stream # <<>>
     THEN /\ \E rects \in Cut(stream[Len(stream)]) :
                stream' = [stream EXCEPT ![Len(stream)] = rects]
          /\ UNCHANGED rest
     ELSE rest' \in Cut(rest) /\ UNCHANGED stream
  /\ UNCHANGED <<fb, seen, changes, reqs, rd, pkt, queue, senderVars, aborted, running, mn,
                 browserVars>>

-----------------------------------------------------------------------------
(* Reader.                                                                  *)

RdFrame == UNCHANGED <<serverVars, senderVars, aborted, mn, browserVars>>

RdCheck == /\ rd \in {"spawned", "check"}
           /\ rd' = IF running THEN "read" ELSE "stop"
           /\ RdFrame /\ UNCHANGED <<reqs, stream, rest, pkt, queue, running>>

RdUpdate == /\ rd = "read" /\ stream # <<>>
            /\ rest' = Head(stream) /\ stream' = Tail(stream) /\ rd' = "rects"
            /\ RdFrame /\ UNCHANGED <<reqs, pkt, queue, running>>

RdEnd == /\ rd = "read" /\ stream = <<>> /\ server = "eof" /\ rd' = "stop"
         /\ RdFrame /\ UNCHANGED <<reqs, stream, rest, pkt, queue, running>>

RdRect == /\ rd = "rects" /\ rest # <<>>
          /\ pkt' = Head(rest) /\ rest' = Tail(rest) /\ rd' = "send"
          /\ RdFrame /\ UNCHANGED <<reqs, stream, queue, running>>

RdRectsEndQuietly == /\ rd = "rects" /\ rest = <<>> /\ rd' = "check"  \* mutant: no request
                     /\ RdFrame /\ UNCHANGED <<reqs, stream, rest, pkt, queue, running>>

RdRectsEnd == /\ rd = "rects" /\ rest = <<>> /\ rd' = "request"
              /\ RdFrame /\ UNCHANGED <<reqs, stream, rest, pkt, queue, running>>

RdSendDrops == /\ rd = "send" /\ snd # "done"  \* mutant: dropped when the queue is full
               /\ queue' = IF Len(queue) < Cap THEN Append(queue, pkt) ELSE queue
               /\ rd' = "rects"
               /\ RdFrame /\ UNCHANGED <<reqs, stream, rest, pkt, running>>

RdSend == /\ rd = "send" /\ snd # "done" /\ Len(queue) < Cap
          /\ queue' = Append(queue, pkt) /\ rd' = "rects"
          /\ RdFrame /\ UNCHANGED <<reqs, stream, rest, pkt, running>>

\* The break leaves the loop over the rectangles only.
RdSendFails == /\ rd = "send" /\ snd = "done" /\ rd' = "request"
               /\ RdFrame /\ UNCHANGED <<reqs, stream, rest, pkt, queue, running>>

RdRequest == /\ rd = "request" /\ rd' = "check"
             /\ reqs' = Append(reqs, "incremental")
             /\ RdFrame /\ UNCHANGED <<stream, rest, pkt, queue, running>>

RdStop == /\ rd = "stop" /\ rd' = "drop" /\ running' = FALSE
          /\ RdFrame /\ UNCHANGED <<reqs, stream, rest, pkt, queue>>

RdDrop == /\ rd = "drop" /\ rd' = "done"
          /\ RdFrame /\ UNCHANGED <<reqs, stream, rest, pkt, queue, running>>

Reader == \/ RdCheck \/ RdUpdate \/ RdEnd \/ RdRect \/ RdRectsEnd
          \/ RdSend \/ RdSendFails \/ RdRequest \/ RdStop \/ RdDrop

-----------------------------------------------------------------------------
(* Sender.                                                                  *)

SndFrame == UNCHANGED <<serverVars, reqs, stream, readerVars, aborted, mn, browserVars>>

SndRecv == /\ snd = "recv" /\ queue # <<>>
           /\ msg' = Head(queue) /\ queue' = Tail(queue) /\ snd' = "send"
           /\ SndFrame /\ UNCHANGED <<canvas, running>>

SndRecvEnd == /\ snd = "recv" /\ queue = <<>> /\ rd = "done" /\ snd' = "stop"
              /\ SndFrame /\ UNCHANGED <<queue, msg, canvas, running>>

SndSend == /\ snd = "send" /\ browser = "open"
           /\ canvas' = Shown(canvas, msg) /\ snd' = "recv"
           /\ SndFrame /\ UNCHANGED <<queue, msg, running>>

SndSendToNobody == /\ snd = "send" /\ browser # "open"
                   /\ snd' \in {"recv", "stop"}
                   /\ SndFrame /\ UNCHANGED <<queue, msg, canvas, running>>

SndStopKeepsFlag == /\ snd = "stop" /\ snd' = "drop"  \* mutant
                    /\ SndFrame /\ UNCHANGED <<queue, msg, canvas, running>>

SndStop == /\ snd = "stop" /\ snd' = "drop" /\ running' = FALSE
           /\ SndFrame /\ UNCHANGED <<queue, msg, canvas>>

SndDrop == /\ \/ snd = "drop"
              \/ aborted /\ snd \in {"recv", "send"}
           /\ snd' = "done" /\ queue' = <<>>
           /\ SndFrame /\ UNCHANGED <<msg, canvas, running>>

Sender == SndRecv \/ SndRecvEnd \/ SndSend \/ SndSendToNobody \/ SndStop \/ SndDrop

-----------------------------------------------------------------------------
(* Main.                                                                    *)

MnFrame == UNCHANGED <<serverVars, reqs, stream, rest, pkt, queue, senderVars>>

MnNext == /\ mn = "next" /\ inbox # <<>>
          /\ inbox' = Tail(inbox)
          /\ mn' = IF Head(inbox) = "close" THEN "store" ELSE "next"
          /\ MnFrame /\ UNCHANGED <<rd, aborted, running, browser>>

MnStreamEndsNever ==  \* mutant: an error of the stream does not end the loop
  /\ mn = "next" /\ inbox = <<>> /\ browser = "lost" /\ mn' = "next"
  /\ MnFrame /\ UNCHANGED <<rd, aborted, running, browserVars>>

MnStreamEnds == /\ mn = "next" /\ inbox = <<>> /\ browser = "lost" /\ mn' = "store"
                /\ MnFrame /\ UNCHANGED <<rd, aborted, running, browserVars>>

MnStore == /\ mn = "store" /\ mn' = "abortSender" /\ running' = FALSE
           /\ MnFrame /\ UNCHANGED <<rd, aborted, browserVars>>

MnAbortSender == /\ mn = "abortSender" /\ mn' = "abortReader" /\ aborted' = TRUE
                 /\ MnFrame /\ UNCHANGED <<rd, running, browserVars>>

\* Only a task that has not begun can be cancelled on the blocking pool.
MnAbortReader == /\ mn = "abortReader" /\ mn' = "done"
                 /\ rd' = IF rd = "spawned" THEN "done" ELSE rd
                 /\ MnFrame /\ UNCHANGED <<aborted, running, browserVars>>

Main == MnNext \/ MnStreamEnds \/ MnStore \/ MnAbortSender \/ MnAbortReader

-----------------------------------------------------------------------------
(* The browser.                                                             *)

BrFrame == UNCHANGED <<serverVars, reqs, stream, readerVars, queue, senderVars, aborted,
                       running, mn>>

BrowserCloses == /\ browser = "open" /\ browser' = "closing"
                 /\ inbox' = Append(inbox, "close")
                 /\ BrFrame

ConnectionLost == /\ browser \in {"open", "closing"} /\ browser' = "lost"
                  /\ inbox' = <<>>
                  /\ BrFrame

Next == \/ Start \/ SetupFails \/ Reader \/ Sender \/ Main
        \/ ScreenChanges \/ ServerAnswers \/ ServerEnds
        \/ BrowserCloses \/ ConnectionLost

\* Every task that can run does, and a server answers what it can answer.
Fairness == /\ WF_vars(Start \/ SetupFails) /\ WF_vars(Reader)
            /\ WF_vars(Sender) /\ WF_vars(SndDrop) /\ WF_vars(Main)
            /\ WF_vars(ServerAnswers)

Spec == Init /\ [][Next]_vars /\ Fairness

-----------------------------------------------------------------------------
(* Properties.                                                              *)

Packets == [type : {"raw"}, paint : UNION {[s -> Colours] : s \in SUBSET Cells}]
             \cup [type : {"copy"}, from : Cells, to : Cells]

\* Type invariant.
TypeOK == /\ server \in {"down", "up", "eof"}
          /\ {fb, seen, canvas} \subseteq [Cells -> Colours]
          /\ \A i \in DOMAIN reqs : reqs[i] \in {"full", "incremental"}
          /\ \A i \in DOMAIN stream : stream[i] \in Seq(Packets)
          /\ rest \in Seq(Packets) /\ queue \in Seq(Packets) /\ Len(queue) <= Cap
          /\ rd \in {"none", "spawned", "check", "read", "rects", "send", "request", "stop",
                     "drop", "done"}
          /\ snd \in {"none", "recv", "send", "stop", "drop", "done"}
          /\ mn \in {"setup", "next", "store", "abortSender", "abortReader", "done"}
          /\ browser \in {"open", "closing", "lost"} /\ {aborted, running} \subseteq BOOLEAN

\* Packets on their way to the canvas, oldest first, the stream's excepted.
Upcoming == (IF snd = "send" THEN <<msg>> ELSE <<>>) \o queue
              \o (IF rd = "send" THEN <<pkt>> ELSE <<>>) \o rest

\* What a canvas shows when packets, or whole updates, have been drawn on it
\* one after the other.
After(cv, packets) ==
  LET pic[i \in 0..Len(packets)] == IF i = 0 THEN cv ELSE Shown(pic[i - 1], packets[i])
  IN pic[Len(packets)]

AfterAll(cv, updates) ==
  LET pic[i \in 0..Len(updates)] == IF i = 0 THEN cv ELSE After(pic[i - 1], updates[i])
  IN pic[Len(updates)]

\* While the session lasts, the canvas together with all that is on its way is
\* the picture the server believes its client to have: no packet is lost,
\* repeated or overtaken by another, which for a CopyRect would copy the wrong
\* pixels and leave them there.
PictureInStep ==
  server = "up" /\ browser = "open" /\ snd \in {"recv", "send"} =>
    AfterAll(After(canvas, Upcoming), stream) = seen

\* The stream of updates never dries up: a session that runs has asked for the
\* next update, or is about to when it has read the one under way.
AlwaysAsked ==
  server = "up" /\ running /\ rd # "done" =>
    reqs # <<>> \/ stream # <<>> \/ rd \in {"rects", "send", "request"}

\* The reader never takes the rest of an update for the start of a message,
\* although it leaves an update half read when the queue is closed.
NeverOutOfStep == rd = "read" => rest = <<>>

\* Has a task, or the server, something to do that needs neither a change of the
\* screen nor the browser?
ReaderReady == \/ rd \in {"spawned", "check", "rects", "request", "stop", "drop"}
               \/ rd = "read" /\ (stream # <<>> \/ server = "eof")
               \/ rd = "send" /\ (snd = "done" \/ Len(queue) < Cap)
SenderReady == \/ snd = "recv" /\ (queue # <<>> \/ rd = "done" \/ aborted)
               \/ snd \in {"send", "stop", "drop"}
MainReady == \/ mn = "next" /\ (inbox # <<>> \/ browser = "lost")
             \/ mn \in {"setup", "store", "abortSender", "abortReader"}
ServerReady == /\ server = "up" /\ reqs # <<>>
               /\ fb # seen \/ \E i \in DOMAIN reqs : reqs[i] = "full"

AtRest == ~(ReaderReady \/ SenderReady \/ MainReady \/ ServerReady)

\* What a task may wait for when nothing in the session moves.
AwaitsServer == rd = "read" /\ stream = <<>> /\ server = "up"
AwaitsBrowser == mn = "next" /\ browser = "open" /\ inbox = <<>>

\* Requests, updates, queue and flag never leave the tasks waiting for each other
\* alone, nor the server for a request: at rest a session that still has its
\* sender shows the desktop as it is, and waits for it to change and for the
\* browser; in one that has not, the reader may wait for the server and the
\* handler for the browser, each though the other has ended.
RestIsIdle ==
  AtRest => /\ AwaitsServer \/ rd = "done"
            /\ \/ snd = "recv" /\ AwaitsServer /\ AwaitsBrowser /\ canvas = fb
               \/ snd = "done"
            /\ AwaitsBrowser \/ (mn = "done" /\ snd = "done")

\* The desktop's last picture is shown in the end, as long as both ends live.
LastPictureShown == <>[](canvas = fb \/ server = "eof" \/ browser # "open" \/ mn = "done")

AllDone == rd = "done" /\ snd = "done" /\ mn = "done"

\* Once browser and server are both gone, so are all tasks of the session.
HangupAndEofEndTasks == (browser # "open" /\ server = "eof") ~> AllDone
=============================================================================
