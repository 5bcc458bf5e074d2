--------------------------- MODULE TerminalTunnel ---------------------------
(* One terminal session of the gateway: handle_ssh_session                  *)
(* (protocols/ssh.rs) and handle_local_pty_session (protocols/local_pty.rs).*)
(* Three tasks share a stop flag and a bounded queue:                       *)
(*   reader   remote shell -> queue      (blocking thread)                  *)
(*   sender   queue -> WebSocket         (async task)                       *)
(*   main     WebSocket -> remote shell  (the request handler)              *)
(* The SSH handler guards its one channel object with a mutex that reader   *)
(* and main both take; the PTY handler has separate reader and writer.      *)
(* The shell may wait too: what is written to it has to fit into the buffers*)
(* before it until it reads, and what it writes until the reader does.      *)
(* Chunks and messages are numbered; their text is not modelled.            *)
EXTENDS Naturals, Sequences

CONSTANTS Kinds,   \* kinds of session: "ssh", "pty"
          Cap,     \* capacity of the queue (256 in the code)
          InRoom,  \* keystrokes that fit between gateway and shell
          OutRoom, \* chunks that fit between shell and gateway
          MaxOut,  \* bound: chunks the remote shell writes
          MaxIn    \* bound: messages the browser sends

ASSUME TunnelAssumption == /\ Kinds \subseteq {"ssh", "pty"}
                           /\ {Cap, InRoom, OutRoom} \subseteq Nat \ {0}
                           /\ MaxOut \in Nat
                           /\ MaxIn \in Nat

VARIABLES kind,     \* the kind of this session, which never changes
          remote,   \* the remote shell: not started, open, blocked in a write,
                    \* ended, or broken
          made,     \* chunks the shell has written
          eaten,    \* keystrokes the shell has read
          taken,    \* chunks the reader has read
          rd, buf,  \* reader: program counter, chunk in hand
          chan,     \* the mpsc queue
          snd, msg, \* sender: program counter, chunk in hand
          aborted,  \* the handler has called abort on the sender
          running,  \* the shared is_running flag
          mn, cur,  \* main: program counter, message in hand
          holder,   \* who holds the channel mutex
          browser,  \* the browser's end of the WebSocket
          inbox,    \* messages from the browser not yet read by main
          typed,    \* messages the browser has sent
          got,      \* chunks the browser has received
          written   \* numbers of the messages written to the shell

remoteVars == <<remote, made, eaten>>
readerVars == <<taken, rd, buf>>
senderVars == <<snd, msg, got>>
mainVars   == <<mn, cur, written>>
userVars   == <<browser, inbox, typed>>
vars == <<kind, remoteVars, readerVars, senderVars, mainVars, userVars,
          chan, aborted, running, holder>>

MsgKinds == {"data", "resize", "ping", "close"}
Messages == [kind : MsgKinds, id : Nat]
NoMessage == [kind |-> "ping", id |-> 0]

\* Only what is written to the shell is told apart by its number.
Message(k, n) == [kind |-> k, id |-> IF k = "data" THEN n ELSE 0]

\* Do reader and main take the same mutex to use the channel?
SharedEverywhere == TRUE  \* mutant
SharedChannel == kind = "ssh"

Init == /\ kind \in Kinds
        /\ remote = "down" /\ made = 0 /\ eaten = 0
        /\ taken = 0 /\ rd = "none" /\ buf = 0
        /\ chan = <<>>
        /\ snd = "none" /\ msg = 0 /\ got = <<>>
        /\ aborted = FALSE /\ running = FALSE
        /\ mn = "setup" /\ cur = NoMessage /\ written = <<>>
        /\ holder = "none"
        /\ browser = "open" /\ inbox = <<>> /\ typed = 0

-----------------------------------------------------------------------------
(* Setup. The shell is started, then the tasks are spawned; an error before *)
(* that is reported and the handler returns without spawning anything.      *)

Start == /\ mn = "setup"
         /\ mn' = "next" /\ rd' = "spawned" /\ snd' = "recv"
         /\ remote' = "open" /\ running' = TRUE
         /\ UNCHANGED <<kind, made, eaten, taken, buf, chan, msg, got, aborted, cur,
                        written, holder, userVars>>

SetupFails == /\ mn = "setup"
              /\ mn' = "done" /\ rd' = "done" /\ snd' = "done"
              /\ UNCHANGED <<kind, remoteVars, taken, buf, chan, msg, got, aborted,
                             running, cur, written, holder, userVars>>

-----------------------------------------------------------------------------
(* Reader. In SSH the mutex is held while the read blocks.                  *)

ReaderUnlock == holder' = IF holder = "reader" THEN "none" ELSE holder

RdFrame == UNCHANGED <<kind, remoteVars, senderVars, mainVars, userVars, aborted>>

\* The blocking pool has started the closure and it tests the stop flag.
RdCheck == /\ rd \in {"spawned", "check"}
           /\ rd' = IF ~running THEN "stop"
                    ELSE IF SharedChannel THEN "lock" ELSE "read"
           /\ RdFrame /\ UNCHANGED <<taken, buf, chan, running, holder>>

RdLock == /\ rd = "lock" /\ holder = "none"
          /\ holder' = "reader" /\ rd' = "read"
          /\ RdFrame /\ UNCHANGED <<taken, buf, chan, running>>

RdDataKeepsLock == \* mutant: the guard lives on while the chunk is queued
  /\ rd = "read" /\ remote # "failed" /\ taken < made
  /\ taken' = taken + 1 /\ buf' = taken + 1 /\ rd' = "send"
  /\ RdFrame /\ UNCHANGED <<chan, running, holder>>

RdData == /\ rd = "read" /\ remote # "failed" /\ taken < made
          /\ taken' = taken + 1 /\ buf' = taken + 1 /\ rd' = "send"
          /\ ReaderUnlock
          /\ RdFrame /\ UNCHANGED <<chan, running>>

\* read returns Ok(0) when the shell has ended and all it wrote was read,
\* Err as soon as the transport is broken.
RdEnd == /\ rd = "read"
         /\ \/ remote = "failed"
            \/ remote = "eof" /\ taken = made
         /\ rd' = "stop"
         /\ ReaderUnlock
         /\ RdFrame /\ UNCHANGED <<taken, buf, chan, running>>

RdSendDrops == \* mutant: try_send, its error ignored
  /\ rd = "send" /\ snd # "done"
  /\ chan' = IF Len(chan) < Cap THEN Append(chan, buf) ELSE chan
  /\ rd' = "check"
  /\ RdFrame /\ UNCHANGED <<taken, buf, running, holder>>

\* blocking_send waits for room; it fails once the receiver is dropped.
RdSend == /\ rd = "send" /\ snd # "done" /\ Len(chan) < Cap
          /\ chan' = Append(chan, buf) /\ rd' = "check"
          /\ RdFrame /\ UNCHANGED <<taken, buf, running, holder>>

RdSendFails == /\ rd = "send" /\ snd = "done"
               /\ rd' = "stop"
               /\ RdFrame /\ UNCHANGED <<taken, buf, chan, running, holder>>

\* The flag is cleared, then the closure ends and drops the queue's sender.
RdStop == /\ rd = "stop"
          /\ running' = FALSE /\ rd' = "drop"
          /\ RdFrame /\ UNCHANGED <<taken, buf, chan, holder>>

RdDrop == /\ rd = "drop"
          /\ rd' = "done"
          /\ RdFrame /\ UNCHANGED <<taken, buf, chan, running, holder>>

Reader == \/ RdCheck \/ RdLock \/ RdData \/ RdEnd
          \/ RdSend \/ RdSendFails \/ RdStop \/ RdDrop

-----------------------------------------------------------------------------
(* Sender.                                                                  *)

SndFrame == UNCHANGED <<kind, remoteVars, readerVars, mainVars, userVars, aborted, holder>>

SndRecv == /\ snd = "recv" /\ chan # <<>>
           /\ msg' = Head(chan) /\ chan' = Tail(chan) /\ snd' = "send"
           /\ SndFrame /\ UNCHANGED <<got, running>>

SndRecvEndEarly == \* mutant: stops with the flag, whatever is queued
  /\ snd = "recv" /\ ~running
  /\ snd' = "stop"
  /\ SndFrame /\ UNCHANGED <<msg, got, chan, running>>

\* recv yields None when the queue is empty and the reader's end is dropped.
SndRecvEnd == /\ snd = "recv" /\ chan = <<>> /\ rd = "done"
              /\ snd' = "stop"
              /\ SndFrame /\ UNCHANGED <<msg, got, chan, running>>

SndSend == /\ snd = "send" /\ browser = "open"
           /\ got' = Append(got, msg) /\ snd' = "recv"
           /\ SndFrame /\ UNCHANGED <<msg, chan, running>>

\* After the browser hung up a frame may still fit in the socket's buffer,
\* to be discarded by the peer, or the send fails.
SndSendToNobody == /\ snd = "send" /\ browser # "open"
                   /\ snd' \in {"recv", "stop"}
                   /\ SndFrame /\ UNCHANGED <<msg, got, chan, running>>

SndStopKeepsFlag == \* mutant
  /\ snd = "stop" /\ snd' = "drop"
  /\ SndFrame /\ UNCHANGED <<msg, got, chan, running>>

SndStop == /\ snd = "stop"
           /\ running' = FALSE /\ snd' = "drop"
           /\ SndFrame /\ UNCHANGED <<msg, got, chan>>

\* The future ends, or is cancelled at one of its two await points: what the
\* queue still holds goes with the receiver.
SndDrop == /\ \/ snd = "drop"
              \/ aborted /\ snd \in {"recv", "send"}
           /\ snd' = "done" /\ chan' = <<>>
           /\ SndFrame /\ UNCHANGED <<msg, got, running>>

Sender == \/ SndRecv \/ SndRecvEnd \/ SndSend \/ SndSendToNobody
          \/ SndStop \/ SndDrop

-----------------------------------------------------------------------------
(* Main. It awaits the next message and never looks at the stop flag.       *)

MnFrame == UNCHANGED <<kind, remoteVars, senderVars, chan>>

\* Binary, text and clipboard_push are written, resize changes the window;
\* ping does nothing.
AfterMessage(m) ==
  CASE m.kind = "close" -> "store"
    [] m.kind = "ping"  -> "next"
    [] OTHER            -> IF SharedChannel THEN "lock" ELSE "write"

MnNext == /\ mn = "next" /\ inbox # <<>>
          /\ cur' = Head(inbox) /\ inbox' = Tail(inbox)
          /\ mn' = AfterMessage(Head(inbox))
          /\ MnFrame
          /\ UNCHANGED <<readerVars, written, browser, typed, aborted, running, holder>>

\* The stream is at its end, or yields an error: the connection was lost.
MnStreamEnds == /\ mn = "next" /\ inbox = <<>> /\ browser = "lost"
                /\ mn' = "store"
                /\ MnFrame
                /\ UNCHANGED <<readerVars, cur, written, userVars, aborted, running, holder>>

MnBarge == \* mutant: writes without the mutex
  /\ mn = "lock"
  /\ mn' = "write"
  /\ MnFrame
  /\ UNCHANGED <<readerVars, cur, written, userVars, aborted, running, holder>>

MnLock == /\ mn = "lock" /\ holder = "none"
          /\ holder' = "main" /\ mn' = "write"
          /\ MnFrame
          /\ UNCHANGED <<readerVars, cur, written, userVars, aborted, running>>

Alive == remote \in {"open", "blocked"}

\* write_all returns when everything fits into the buffers before the shell, or
\* when it fails, which it does on a broken transport and on a PTY without a
\* shell; a window that the end of an SSH shell left closed stays closed.
Accepts == \/ Len(written) < eaten + InRoom
           \/ remote = "failed"
           \/ remote = "eof" /\ kind = "pty"

\* Until then the handler is blocked in its write, in SSH with the mutex. An
\* error of write_all or request_pty_size is discarded.
MnWrite == /\ mn = "write" /\ (cur.kind = "data" => Accepts)
           /\ written' = IF cur.kind = "data" /\ Alive
                         THEN Append(written, cur.id) ELSE written
           /\ mn' = "next" /\ cur' = NoMessage
           /\ holder' = IF holder = "main" THEN "none" ELSE holder
           /\ MnFrame
           /\ UNCHANGED <<readerVars, userVars, aborted, running>>

MnStore == /\ mn = "store"
           /\ running' = FALSE
           /\ mn' = "kill"
           /\ MnFrame
           /\ UNCHANGED <<readerVars, cur, written, userVars, aborted, holder>>

MnKillNothing == \* mutant
  /\ mn = "kill" /\ mn' = "abortSender"
  /\ MnFrame
  /\ UNCHANGED <<readerVars, cur, written, userVars, aborted, running, holder>>

\* Only the PTY handler kills its child; the reader then meets end of file.
MnKill == /\ mn = "kill"
          /\ remote' = IF kind = "pty" /\ Alive THEN "eof" ELSE remote
          /\ mn' = "abortSender"
          /\ UNCHANGED <<kind, made, eaten, senderVars, chan, readerVars, cur, written,
                         userVars, aborted, running, holder>>

MnAbortSender == /\ mn = "abortSender"
                 /\ aborted' = TRUE /\ mn' = "abortReader"
                 /\ MnFrame
                 /\ UNCHANGED <<readerVars, cur, written, userVars, running, holder>>

\* Aborting a blocking task only cancels it while the pool has not begun it.
MnAbortReader == /\ mn = "abortReader"
                 /\ rd' = IF rd = "spawned" THEN "done" ELSE rd
                 /\ mn' = "done"
                 /\ MnFrame
                 /\ UNCHANGED <<taken, buf, cur, written, userVars, aborted, running, holder>>

Main == \/ MnNext \/ MnStreamEnds \/ MnLock \/ MnWrite
        \/ MnStore \/ MnKill \/ MnAbortSender \/ MnAbortReader

-----------------------------------------------------------------------------
(* The remote shell and the browser.                                        *)

EnvFrame == UNCHANGED <<kind, readerVars, senderVars, mainVars, chan, aborted, running, holder>>

OutputFits == made < taken + OutRoom

ShellWrites == /\ remote = "open" /\ OutputFits /\ made < MaxOut
               /\ made' = made + 1
               /\ EnvFrame /\ UNCHANGED <<remote, eaten, userVars>>

\* The shell has more to write than fits: it does nothing else until it does.
ShellBlocks == /\ remote = "open" /\ ~OutputFits /\ made < MaxOut
               /\ remote' = "blocked"
               /\ EnvFrame /\ UNCHANGED <<made, eaten, userVars>>

ShellResumes == /\ remote = "blocked" /\ OutputFits
                /\ made' = made + 1 /\ remote' = "open"
                /\ EnvFrame /\ UNCHANGED <<eaten, userVars>>

ShellReads == /\ remote = "open" /\ eaten < Len(written)
              /\ eaten' = eaten + 1
              /\ EnvFrame /\ UNCHANGED <<remote, made, userVars>>

ShellEnds == /\ Alive
             /\ remote' \in {"eof", "failed"}
             /\ EnvFrame /\ UNCHANGED <<made, eaten, userVars>>

BrowserSends == /\ browser = "open" /\ typed < MaxIn
                /\ \E k \in {"data", "resize", "ping"} :
                     inbox' = Append(inbox, Message(k, typed + 1))
                /\ typed' = typed + 1
                /\ EnvFrame /\ UNCHANGED <<remoteVars, browser>>

BrowserCloses == /\ browser = "open"
                 /\ browser' = "closing"
                 /\ inbox' = Append(inbox, Message("close", 0))
                 /\ EnvFrame /\ UNCHANGED <<remoteVars, typed>>

\* The connection breaks; messages not yet delivered are lost with it. One that
\* breaks after the browser closed it is one that broke before, or went on.
ConnectionLost == /\ browser = "open"
                  /\ browser' = "lost"
                  /\ \E n \in 0..Len(inbox) : inbox' = SubSeq(inbox, 1, n)
                  /\ EnvFrame /\ UNCHANGED <<remoteVars, typed>>

\* Both halves of the socket are dropped: the browser sees it close.
SocketDropped == mn = "done" /\ snd = "done"

BrowserSeesEnd == /\ browser = "open" /\ SocketDropped
                  /\ browser' = "ended"
                  /\ EnvFrame /\ UNCHANGED <<remoteVars, inbox, typed>>

Environment == \/ ShellWrites \/ ShellBlocks \/ ShellResumes \/ ShellReads \/ ShellEnds
               \/ BrowserSends \/ BrowserCloses \/ ConnectionLost \/ BrowserSeesEnd

Next == Start \/ SetupFails \/ Reader \/ Sender \/ Main \/ Environment

\* The runtime keeps running every task that can take a step. Nothing is
\* assumed of the shell and the user: they may stay silent for ever, and the
\* shell may never read.
Fairness == /\ WF_vars(Start \/ SetupFails)
            /\ WF_vars(Reader)
            /\ WF_vars(Sender) /\ WF_vars(SndDrop)
            /\ WF_vars(Main)
            /\ WF_vars(BrowserSeesEnd)

Spec == Init /\ [][Next]_vars /\ Fairness

-----------------------------------------------------------------------------
(* Properties.                                                              *)

RdStates == {"none", "spawned", "check", "lock", "read", "send", "stop", "drop", "done"}
SndStates == {"none", "recv", "send", "stop", "drop", "done"}
MnStates == {"setup", "next", "lock", "write", "store", "kill",
             "abortSender", "abortReader", "done"}

\* Type invariant; the queue never outgrows its capacity.
TypeOK == /\ kind \in Kinds /\ remote \in {"down", "open", "blocked", "eof", "failed"}
          /\ made \in Nat /\ taken \in 0..made
          /\ rd \in RdStates /\ buf \in Nat
          /\ chan \in Seq(Nat) /\ Len(chan) <= Cap
          /\ snd \in SndStates /\ msg \in Nat /\ got \in Seq(Nat)
          /\ aborted \in BOOLEAN /\ running \in BOOLEAN
          /\ mn \in MnStates /\ cur \in Messages /\ written \in Seq(Nat)
          /\ eaten \in 0..Len(written)
          /\ holder \in {"none", "reader", "main"}
          /\ browser \in {"open", "closing", "lost", "ended"}
          /\ inbox \in Seq(Messages) /\ typed \in Nat

\* The chunk a task has taken from one side and not yet handed to the other.
InHand(busy, chunk) == IF busy THEN <<chunk>> ELSE <<>>

\* While the browser listens and the sender lives, what the reader took from
\* the shell is, in order and without gap or repetition, what the browser has
\* received followed by what is on its way.
NothingLost ==
  browser = "open" /\ snd \in {"recv", "send"} =>
    got \o InHand(snd = "send", msg) \o chan \o InHand(rd = "send", buf)
      = [i \in 1..taken |-> i]

\* Neither end of the queue is dropped while the flag says the session runs:
\* an observer of the flag never learns of the end later than the queue's users.
\* The one exception is a sender cancelled by the handler, which clears the
\* flag first.
EndsAfterStop == (rd \in {"drop", "done"} \/ snd \in {"drop", "done"}) => ~running

\* The SSH channel is never used by reader and main at the same time.
ChannelExclusive == SharedChannel => ~(rd = "read" /\ mn = "write")

\* The mutex belongs to a task that is using the channel, so a task that ends
\* or waits for the queue never keeps it.
LockHeldOnlyInUse == /\ holder = "reader" => rd = "read"
                     /\ holder = "main" => mn = "write"

\* Has a task something to do that needs neither the shell nor the browser?
ReaderReady == \/ rd \in {"spawned", "check", "stop", "drop"}
               \/ rd = "lock" /\ holder = "none"
               \/ rd = "read" /\ (remote \in {"eof", "failed"} \/ taken < made)
               \/ rd = "send" /\ (snd = "done" \/ Len(chan) < Cap)
SenderReady == \/ snd = "recv" /\ (chan # <<>> \/ rd = "done" \/ aborted)
               \/ snd \in {"send", "stop", "drop"}
MainReady == \/ mn = "next" /\ (inbox # <<>> \/ browser = "lost")
             \/ mn = "lock" /\ holder = "none"
             \/ mn = "write" /\ (cur.kind = "data" => Accepts)
             \/ mn \in {"setup", "store", "kill", "abortSender", "abortReader"}

AtRest == ~(ReaderReady \/ SenderReady \/ MainReady)

\* What a task may wait for when nothing in the session moves.
AwaitsOutput == rd = "read" /\ Alive /\ taken = made
AwaitsRoom == mn = "write" /\ cur.kind = "data" /\ ~Accepts
AwaitsBrowser == mn = "next" /\ browser = "open" /\ inbox = <<>>

\* What reader, sender and handler wait for at rest. The reader waits for output
\* or has ended; in SSH it may also wait for the mutex of a handler whose write
\* waits for the shell. The sender waits for the reader, and then a browser that
\* listens has all that was read. The handler waits for the browser, or for the
\* shell to read, or in SSH for the mutex of a reader that waits for output, or
\* has ended, with the sender and in PTY the reader.
ReaderRests == \/ AwaitsOutput \/ rd = "done"
               \/ rd = "lock" /\ kind = "ssh" /\ AwaitsRoom
SenderRests == \/ snd = "recv" /\ rd # "done" /\ (browser = "open" => Len(got) = taken)
               \/ snd = "done"
MainRests == \/ AwaitsBrowser \/ AwaitsRoom
             \/ mn = "lock" /\ kind = "ssh" /\ AwaitsOutput
             \/ mn = "done" /\ snd = "done" /\ (kind = "pty" => rd = "done")

\* Blocked in a write that nobody makes room for.
ShellStuck == remote = "blocked" /\ ~OutputFits

\* The tasks never wait for each other alone, with the mutex, the full queue and
\* the flag between them. Together with the shell they can, in one way only as
\* long as the reader lives: an SSH handler writes, with the mutex, to a shell
\* that waits for its output to be read, by the reader that waits for the mutex
\* (ssh.rs:206 against ssh.rs:166). A PTY session keeps its shell waiting only
\* when its reader has ended.
RestIsIdle ==
  AtRest => /\ ReaderRests /\ SenderRests /\ MainRests
            /\ ShellStuck => \/ rd = "done"
                             \/ kind = "ssh" /\ rd = "lock" /\ AwaitsRoom

AllDone == rd = "done" /\ snd = "done" /\ mn = "done"
Gone == browser \in {"closing", "lost"}

\* Time and again there is room for a keystroke: the shell reads its input.
ShellKeepsReading == []<>Accepts

\* Once the browser has hung up every task of the session ends, if the shell
\* reads what was typed before: until then the handler is in its write and does
\* not see the close (local_pty.rs:126, 162). In a PTY session the handler then
\* kills the shell, which unblocks the reader; in an SSH session the remote end
\* must be over too.
HangupEndsTasks ==
  ShellKeepsReading =>
    (Gone /\ (kind = "pty" \/ remote \in {"eof", "failed"})) ~> AllDone

Delivered(n) ==
  (\E i \in DOMAIN inbox : inbox[i] = [kind |-> "data", id |-> n])
    ~> (\/ \E i \in DOMAIN written : written[i] = n
        \/ remote \in {"eof", "failed"} \/ browser = "lost" \/ mn = "done")

\* A keystroke that reached the gateway is written to the shell, if the shell
\* and the connection live on and the shell reads (ssh.rs:202, "Read from
\* WebSocket -> Write to SSH Channel").
KeystrokeWritten == ShellKeepsReading => \A n \in 1..MaxIn : Delivered(n)

\* In a PTY session, whose writer is not the reader's, that is so.
PtyKeystrokeWritten == [](kind = "ssh") \/ KeystrokeWritten

\* The tunnel is a pipe. It counts as up until the browser hangs up or the
\* transport breaks; the shell ending does not bring it down. In SSH everything
\* written is received only if the shell reads: see RestIsIdle.
P == INSTANCE Pipe WITH up <- /\ browser = "open"
                              /\ remote # "failed"
                              /\ ~(mn = "done" /\ remote = "down")
PipeRefined == /\ P!PipeSafe
               /\ []<>(kind = "pty" \/ Accepts) => P!PipeFair
=============================================================================
