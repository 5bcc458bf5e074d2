----------------------- MODULE TerminalTunnelProofs -----------------------
(* Proofs about TerminalTunnel, for both kinds of session and every value   *)
(* of the bounds.                                                           *)
EXTENDS TerminalTunnel, SequenceTheorems, TLAPS

USE DEF RdStates, SndStates, MnStates

-----------------------------------------------------------------------------
\* Every variable keeps its type and the queue its capacity, whatever the
\* interleaving of reader, sender and handler.
THEOREM TypeCorrect == Spec => []TypeOK
<1>1. Init => TypeOK
  <2>1. NoMessage \in Messages /\ <<>> \in Seq(Nat) /\ <<>> \in Seq(Messages)
    BY DEF NoMessage, Messages, MsgKinds
  <2>2. Init => aborted \in BOOLEAN /\ running \in BOOLEAN
    BY DEF Init
  <2>3. QED
    BY TunnelAssumption, <2>1, <2>2 DEF Init, TypeOK
<1>2. TypeOK /\ [Next]_vars => TypeOK'
  <2> SUFFICES ASSUME TypeOK, [Next]_vars PROVE TypeOK'
    OBVIOUS
  <2> USE TunnelAssumption DEF TypeOK
  <2>1. CASE Start
    BY <2>1 DEF Start, userVars
  <2>2. CASE SetupFails
    BY <2>2 DEF SetupFails, userVars, remoteVars
  <2>3. CASE Reader
    <3> USE DEF RdFrame, remoteVars, senderVars, mainVars, userVars, ReaderUnlock
    <3>1. CASE RdCheck  BY <3>1 DEF RdCheck
    <3>2. CASE RdLock  BY <3>2 DEF RdLock
    <3>3. CASE RdData  BY <3>3 DEF RdData
    <3>4. CASE RdEnd  BY <3>4 DEF RdEnd
    <3>5. CASE RdSend
      <4>1. chan' \in Seq(Nat) /\ Len(chan') = Len(chan) + 1
        BY <3>5 DEF RdSend
      <4>2. QED
        BY <3>5, <4>1 DEF RdSend
    <3>6. CASE RdSendFails  BY <3>6 DEF RdSendFails
    <3>7. CASE RdStop
      <4>1. running' \in BOOLEAN
        BY <3>7 DEF RdStop
      <4>2. QED
        BY <3>7, <4>1 DEF RdStop
    <3>8. CASE RdDrop  BY <3>8 DEF RdDrop
    <3>9. QED
      BY <2>3, <3>1, <3>2, <3>3, <3>4, <3>5, <3>6, <3>7, <3>8 DEF Reader
  <2>4. CASE Sender
    <3> USE DEF SndFrame, remoteVars, readerVars, mainVars, userVars
    <3>1. CASE SndRecv
      <4>1. chan' \in Seq(Nat) /\ Len(chan') = Len(chan) - 1 /\ msg' \in Nat
        BY <3>1 DEF SndRecv
      <4>2. QED
        BY <3>1, <4>1 DEF SndRecv
    <3>2. CASE SndRecvEnd  BY <3>2 DEF SndRecvEnd
    <3>3. CASE SndSend  BY <3>3 DEF SndSend
    <3>4. CASE SndSendToNobody  BY <3>4 DEF SndSendToNobody
    <3>5. CASE SndStop
      <4>1. running' \in BOOLEAN
        BY <3>5 DEF SndStop
      <4>2. QED
        BY <3>5, <4>1 DEF SndStop
    <3>6. CASE SndDrop  BY <3>6 DEF SndDrop
    <3>7. QED
      BY <2>4, <3>1, <3>2, <3>3, <3>4, <3>5, <3>6 DEF Sender
  <2>5. CASE Main
    <3> USE DEF MnFrame, remoteVars, readerVars, senderVars, userVars
    <3>1. CASE MnNext
      <4>1. cur' \in Messages /\ inbox' \in Seq(Messages) /\ mn' \in MnStates
        BY <3>1 DEF MnNext, AfterMessage
      <4>2. QED
        BY <3>1, <4>1 DEF MnNext
    <3>2. CASE MnStreamEnds  BY <3>2 DEF MnStreamEnds
    <3>3. CASE MnLock  BY <3>3 DEF MnLock
    <3>4. CASE MnWrite
      <4>1. cur.id \in Nat
        BY DEF Messages
      <4>2. written' \in Seq(Nat) /\ Len(written') \in Nat /\ Len(written') >= Len(written)
        BY <3>4, <4>1 DEF MnWrite
      <4>3. NoMessage \in Messages
        BY DEF NoMessage, Messages, MsgKinds
      <4>4. QED
        BY <3>4, <4>2, <4>3 DEF MnWrite
    <3>5. CASE MnStore
      <4>1. running' \in BOOLEAN
        BY <3>5 DEF MnStore
      <4>2. QED
        BY <3>5, <4>1 DEF MnStore
    <3>6. CASE MnKill  BY <3>6 DEF MnKill
    <3>7. CASE MnAbortSender
      <4>1. aborted' \in BOOLEAN
        BY <3>7 DEF MnAbortSender
      <4>2. QED
        BY <3>7, <4>1 DEF MnAbortSender
    <3>8. CASE MnAbortReader  BY <3>8 DEF MnAbortReader
    <3>9. QED
      BY <2>5, <3>1, <3>2, <3>3, <3>4, <3>5, <3>6, <3>7, <3>8 DEF Main
  <2>6. CASE Environment
    <3> USE DEF EnvFrame, remoteVars, readerVars, senderVars, mainVars, userVars
    <3>1. CASE ShellWrites \/ ShellResumes
      <4>1. made' = made + 1 /\ remote' \in {"open", "blocked"}
        BY <3>1 DEF ShellWrites, ShellResumes
      <4>2. UNCHANGED <<kind, eaten, readerVars, senderVars, mainVars, userVars, chan,
                        aborted, running, holder>>
        BY <3>1 DEF ShellWrites, ShellResumes
      <4>3. QED
        BY <4>1, <4>2
    <3>7. CASE ShellBlocks \/ ShellReads
      <4>1. eaten' \in 0..Len(written) /\ remote' \in {"open", "blocked"}
        BY <3>7 DEF ShellBlocks, ShellReads
      <4>2. UNCHANGED <<kind, made, readerVars, senderVars, mainVars, userVars, chan,
                        aborted, running, holder>>
        BY <3>7 DEF ShellBlocks, ShellReads
      <4>3. QED
        BY <4>1, <4>2
    <3>2. CASE ShellEnds  BY <3>2 DEF ShellEnds
    <3>3. CASE BrowserSends
      <4>1. \A k \in {"data", "resize", "ping"} : Message(k, typed + 1) \in Messages
        BY DEF Message, Messages, MsgKinds
      <4>2. inbox' \in Seq(Messages)
        BY <3>3, <4>1 DEF BrowserSends
      <4>3. QED
        BY <3>3, <4>2 DEF BrowserSends
    <3>4. CASE BrowserCloses
      BY <3>4 DEF BrowserCloses, Message, Messages, MsgKinds
    <3>5. CASE ConnectionLost
      <4>1. PICK n \in 0..Len(inbox) : inbox' = SubSeq(inbox, 1, n)
        BY <3>5 DEF ConnectionLost
      <4>2. inbox' \in Seq(Messages)
        <5>1. \A i \in 1..n : inbox[i] \in Messages
          OBVIOUS
        <5>2. QED
          BY <4>1, <5>1, SubSeqProperties
      <4>3. QED
        BY <3>5, <4>2 DEF ConnectionLost
    <3>6. CASE BrowserSeesEnd  BY <3>6 DEF BrowserSeesEnd
    <3>8. QED
      BY <2>6, <3>1, <3>2, <3>3, <3>4, <3>5, <3>6, <3>7 DEF Environment
  <2>7. CASE UNCHANGED vars
    BY <2>7 DEF vars, remoteVars, readerVars, senderVars, mainVars, userVars
  <2>8. QED
    BY <2>1, <2>2, <2>3, <2>4, <2>5, <2>6, <2>7 DEF Next
<1>3. QED
  BY <1>1, <1>2, PTL DEF Spec
-----------------------------------------------------------------------------
(* The stop flag.                                                           *)

Closing == {"kill", "abortSender", "abortReader"}

\* Where each task may be while the flag is set, and before the tasks exist.
StopInv == /\ EndsAfterStop
           /\ mn = "setup" => rd = "none" /\ snd = "none" /\ ~running /\ ~aborted
           /\ mn \in Closing => ~running
           /\ aborted => ~running

\* A task that has ended, or is about to drop its end of the queue, has been
\* preceded by the clearing of is_running: by itself or by the handler.
THEOREM StopFlag == Spec => []EndsAfterStop
<1>1. Init => StopInv
  BY DEF Init, StopInv, EndsAfterStop, Closing
<1>2. StopInv /\ [Next]_vars => StopInv'
  <2> SUFFICES ASSUME StopInv, [Next]_vars PROVE StopInv'
    OBVIOUS
  <2> USE DEF StopInv, EndsAfterStop, Closing
  <2>1. CASE Start
    BY <2>1 DEF Start
  <2>2. CASE SetupFails
    BY <2>2 DEF SetupFails
  <2>3. CASE Reader
    BY <2>3 DEF Reader, RdCheck, RdLock, RdData, RdEnd, RdSend, RdSendFails, RdStop,
                RdDrop, RdFrame, senderVars, mainVars
  <2>4. CASE Sender
    BY <2>4 DEF Sender, SndRecv, SndRecvEnd, SndSend, SndSendToNobody, SndStop,
                SndDrop, SndFrame, readerVars, mainVars
  <2>5. CASE Main
    <3> USE DEF MnFrame, readerVars, senderVars
    <3>1. CASE MnNext \/ MnStreamEnds \/ MnLock \/ MnWrite
      BY <3>1 DEF MnNext, MnStreamEnds, MnLock, MnWrite, AfterMessage
    <3>2. CASE MnStore \/ MnKill \/ MnAbortSender \/ MnAbortReader
      BY <3>2 DEF MnStore, MnKill, MnAbortSender, MnAbortReader
    <3>3. QED
      BY <2>5, <3>1, <3>2 DEF Main
  <2>6. CASE Environment
    BY <2>6 DEF Environment, ShellWrites, ShellBlocks, ShellResumes, ShellReads,
                ShellEnds, BrowserSends, BrowserCloses,
                ConnectionLost, BrowserSeesEnd, EnvFrame, readerVars, senderVars,
                mainVars
  <2>7. CASE UNCHANGED vars
    BY <2>7 DEF vars, readerVars, senderVars, mainVars
  <2>8. QED
    BY <2>1, <2>2, <2>3, <2>4, <2>5, <2>6, <2>7 DEF Next
<1>3. StopInv => EndsAfterStop
  BY DEF StopInv
<1>4. QED
  BY <1>1, <1>2, <1>3, PTL DEF Spec

-----------------------------------------------------------------------------
(* The channel mutex.                                                       *)

\* The mutex is held exactly while its holder uses the channel.
LockInv == /\ holder = "reader" <=> SharedChannel /\ rd = "read"
           /\ holder = "main" <=> SharedChannel /\ mn = "write"
           /\ rd = "lock" \/ mn = "lock" => SharedChannel
           /\ mn = "setup" => rd = "none"

\* Who holds the mutex is where it is used.
LEMMA LockInvariant == Spec => []LockInv
<1>1. Init => LockInv
  BY DEF Init, LockInv, SharedChannel
<1>2. LockInv /\ [Next]_vars => LockInv'
  <2> SUFFICES ASSUME LockInv, [Next]_vars PROVE LockInv'
    OBVIOUS
  <2> USE DEF LockInv, SharedChannel
  <2>1. CASE Start
    BY <2>1 DEF Start
  <2>2. CASE SetupFails
    BY <2>2 DEF SetupFails
  <2>3. CASE Reader
    BY <2>3 DEF Reader, RdCheck, RdLock, RdData, RdEnd, RdSend, RdSendFails, RdStop,
                RdDrop, RdFrame, ReaderUnlock, mainVars
  <2>4. CASE Sender
    BY <2>4 DEF Sender, SndRecv, SndRecvEnd, SndSend, SndSendToNobody, SndStop,
                SndDrop, SndFrame, readerVars, mainVars
  <2>5. CASE Main
    <3> USE DEF MnFrame, readerVars
    <3>1. CASE MnNext \/ MnStreamEnds \/ MnLock \/ MnWrite
      BY <3>1 DEF MnNext, MnStreamEnds, MnLock, MnWrite, AfterMessage
    <3>2. CASE MnStore \/ MnKill \/ MnAbortSender \/ MnAbortReader
      BY <3>2 DEF MnStore, MnKill, MnAbortSender, MnAbortReader
    <3>3. QED
      BY <2>5, <3>1, <3>2 DEF Main
  <2>6. CASE Environment
    BY <2>6 DEF Environment, ShellWrites, ShellBlocks, ShellResumes, ShellReads,
                ShellEnds, BrowserSends, BrowserCloses,
                ConnectionLost, BrowserSeesEnd, EnvFrame, readerVars, mainVars
  <2>7. CASE UNCHANGED vars
    BY <2>7 DEF vars, readerVars, mainVars
  <2>8. QED
    BY <2>1, <2>2, <2>3, <2>4, <2>5, <2>6, <2>7 DEF Next
<1>3. QED
  BY <1>1, <1>2, PTL DEF Spec

\* The blocking reader thread and the handler never use the libssh2 channel at
\* the same time.
THEOREM ChannelNeverShared == Spec => []ChannelExclusive
<1>1. LockInv => ChannelExclusive
  BY DEF LockInv, ChannelExclusive
<1>2. QED
  BY <1>1, LockInvariant, PTL

\* The mutex is never kept across the wait for the queue or by a task that
\* ended.
THEOREM LockOnlyInUse == Spec => []LockHeldOnlyInUse
<1>1. LockInv => LockHeldOnlyInUse
  BY DEF LockInv, LockHeldOnlyInUse
<1>2. QED
  BY <1>1, LockInvariant, PTL
-----------------------------------------------------------------------------
(* The flow of chunks from the shell to the browser.                        *)

Listening == browser = "open" /\ snd \in {"recv", "send"}
Held == IF snd = "send" THEN 1 ELSE 0

RdHeld == IF rd = "send" THEN 1 ELSE 0

\* Position by position: what the browser has is 1, 2, ...; the sender's chunk
\* and the queue continue the count, and the reader's chunk is the last read.
FlowPath == /\ snd = "send" => msg = Len(got) + 1
            /\ \A i \in 1..Len(chan) : chan[i] = Len(got) + Held + i
            /\ taken = Len(got) + Held + Len(chan) + RdHeld

FlowInv == /\ \A i \in 1..Len(got) : got[i] = i
           /\ rd = "send" => buf = taken
           /\ Listening => FlowPath
           /\ mn = "setup" => /\ got = <<>> /\ chan = <<>> /\ taken = 0
                              /\ rd = "none" /\ snd = "none"
                              /\ remote = "down"
           /\ mn \notin {"setup", "done"} => remote # "down"

\* Every step keeps the chunks on the path counted.
LEMMA FlowStep == TypeOK /\ FlowInv /\ [Next]_vars => FlowInv'
<1> SUFFICES ASSUME TypeOK, FlowInv, [Next]_vars PROVE FlowInv'
  OBVIOUS
<1> USE DEF FlowInv, FlowPath, Listening, Held, RdHeld
<1>t. /\ chan \in Seq(Nat) /\ got \in Seq(Nat) /\ taken \in Nat /\ made \in Nat
      /\ buf \in Nat /\ msg \in Nat /\ taken <= made
  BY DEF TypeOK
<1>1. CASE Start
  BY <1>1, <1>t DEF Start, userVars
<1>2. CASE SetupFails
  BY <1>2, <1>t DEF SetupFails, remoteVars, userVars
<1>3. CASE Reader
  <2> USE DEF RdFrame, remoteVars, senderVars, mainVars, userVars
  <2>1. CASE RdSend
    <3>1. /\ Len(chan') = Len(chan) + 1
          /\ chan'[Len(chan) + 1] = buf
          /\ \A i \in 1..Len(chan) : chan'[i] = chan[i]
      BY <2>1, <1>t DEF RdSend
    <3>3. Listening' => FlowPath'
      <4>1. RdHeld = 1 /\ RdHeld' = 0 /\ Held \in Nat /\ Held' = Held /\ (Listening' => Listening)
        BY <2>1 DEF RdSend
      <4>2. UNCHANGED <<got, msg, snd, taken>> /\ buf = taken
        BY <2>1 DEF RdSend, readerVars
      <4> HIDE DEF Held, RdHeld, Listening
      <4>3. ASSUME Listening', NEW i \in 1..Len(chan') PROVE chan'[i] = Len(got) + Held + i
        <5>1. CASE i = Len(chan) + 1
          BY <3>1, <4>1, <4>2, <4>3, <5>1, <1>t
        <5>2. CASE i \in 1..Len(chan)
          BY <3>1, <4>1, <4>2, <4>3, <5>2, <1>t
        <5>3. QED
          BY <3>1, <5>1, <5>2, <1>t
      <4>4. QED
        BY <3>1, <4>1, <4>2, <4>3, <1>t
    <3>4. QED
      BY <2>1, <3>3, <1>t DEF RdSend
  <2>2. CASE RdData
    <3>1. Listening' => FlowPath'
      <4>1. RdHeld = 0 /\ RdHeld' = 1 /\ Held \in Nat /\ Held' = Held /\ (Listening' => Listening)
        BY <2>2 DEF RdData
      <4>2. UNCHANGED <<got, msg, snd, chan>> /\ taken' = taken + 1
        BY <2>2 DEF RdData
      <4> HIDE DEF Held, RdHeld, Listening
      <4>3. QED
        BY <4>1, <4>2, <1>t
    <3>2. QED
      BY <2>2, <3>1, <1>t DEF RdData
  <2>3. CASE RdCheck \/ RdLock \/ RdEnd \/ RdSendFails \/ RdStop \/ RdDrop
    BY <2>3, <1>t DEF RdCheck, RdLock, RdEnd, RdSendFails, RdStop, RdDrop
  <2>4. QED
    BY <1>3, <2>1, <2>2, <2>3 DEF Reader
<1>4. CASE Sender
  <2> USE DEF SndFrame, remoteVars, readerVars, mainVars, userVars
  <2>1. CASE SndRecv
    <3>1. /\ Len(chan') = Len(chan) - 1
          /\ msg' = chan[1]
          /\ \A i \in 1..Len(chan') : chan'[i] = chan[i + 1]
      BY <2>1, <1>t DEF SndRecv
    <3>2. Listening' => FlowPath'
      <4>1. /\ Held = 0 /\ Held' = 1 /\ RdHeld' = RdHeld /\ (Listening' => Listening)
            /\ Len(chan) > 0
        BY <2>1, <1>t DEF SndRecv
      <4>2. UNCHANGED <<got, taken>>
        BY <2>1 DEF SndRecv
      <4> HIDE DEF Held, RdHeld, Listening
      <4>3. QED
        BY <3>1, <4>1, <4>2, <1>t
    <3>3. QED
      BY <2>1, <3>2, <1>t DEF SndRecv
  <2>2. CASE SndSend
    <3>1. /\ Len(got') = Len(got) + 1
          /\ got'[Len(got) + 1] = msg
          /\ \A i \in 1..Len(got) : got'[i] = got[i]
      BY <2>2, <1>t DEF SndSend
    <3>2. QED
      BY <2>2, <3>1, <1>t DEF SndSend
  <2>3. CASE SndRecvEnd \/ SndSendToNobody \/ SndStop \/ SndDrop
    BY <2>3, <1>t DEF SndRecvEnd, SndSendToNobody, SndStop, SndDrop
  <2>4. QED
    BY <1>4, <2>1, <2>2, <2>3 DEF Sender
<1>5. CASE Main
  <2> USE DEF MnFrame, remoteVars, readerVars, senderVars, userVars
  <2>1. CASE MnNext \/ MnStreamEnds \/ MnLock \/ MnWrite
    BY <2>1, <1>t DEF MnNext, MnStreamEnds, MnLock, MnWrite, AfterMessage
  <2>2. CASE MnStore \/ MnKill \/ MnAbortSender \/ MnAbortReader
    BY <2>2, <1>t DEF MnStore, MnKill, MnAbortSender, MnAbortReader
  <2>3. QED
    BY <1>5, <2>1, <2>2 DEF Main
<1>6. CASE Environment
  <2> USE DEF EnvFrame, remoteVars, readerVars, senderVars, mainVars, userVars
  <2>1. CASE ShellWrites \/ ShellBlocks \/ ShellResumes \/ ShellReads \/ ShellEnds
    BY <2>1, <1>t DEF ShellWrites, ShellBlocks, ShellResumes, ShellReads, ShellEnds, Alive
  <2>2. CASE BrowserSends \/ BrowserCloses \/ ConnectionLost \/ BrowserSeesEnd
    BY <2>2, <1>t DEF BrowserSends, BrowserCloses, ConnectionLost, BrowserSeesEnd
  <2>3. QED
    BY <1>6, <2>1, <2>2 DEF Environment
<1>7. CASE UNCHANGED vars
  BY <1>7 DEF vars, remoteVars, readerVars, senderVars, mainVars, userVars
<1>8. QED
  BY <1>1, <1>2, <1>3, <1>4, <1>5, <1>6, <1>7 DEF Next

\* The inductive invariant of the path from shell to browser.
LEMMA FlowInvariant == Spec => [](TypeOK /\ FlowInv)
<1>1. Init => FlowInv
  BY DEF Init, FlowInv, Listening
<1>2. QED
  BY <1>1, FlowStep, TypeCorrect, PTL DEF Spec

\* Appending to 1, 2, ..., m a sequence that goes on counting.
LEMMA CountOn ==
  ASSUME NEW u \in Seq(Nat), NEW v \in Seq(Nat),
         \A i \in 1..Len(u) : u[i] = i,
         \A i \in 1..Len(v) : v[i] = Len(u) + i
  PROVE  /\ u \o v \in Seq(Nat)
         /\ Len(u \o v) = Len(u) + Len(v)
         /\ \A i \in 1..Len(u \o v) : (u \o v)[i] = i
<1>1. u \o v \in Seq(Nat) /\ Len(u \o v) = Len(u) + Len(v)
  BY ConcatProperties
<1>2. ASSUME NEW i \in 1..Len(u) + Len(v) PROVE (u \o v)[i] = i
  <2>1. (u \o v)[i] = IF i <= Len(u) THEN u[i] ELSE v[i - Len(u)]
    BY ConcatProperties
  <2>2. QED
    BY <2>1
<1>3. QED
  BY <1>1, <1>2

\* No chunk is lost, repeated or overtaken between the shell and a browser that
\* listens.
THEOREM InOrderDelivery == Spec => []NothingLost
<1>1. TypeOK /\ FlowInv => NothingLost
  <2> SUFFICES ASSUME TypeOK, FlowInv, Listening
               PROVE  got \o InHand(snd = "send", msg) \o chan \o InHand(rd = "send", buf)
                        = [i \in 1..taken |-> i]
    BY DEF NothingLost, Listening
  <2> DEFINE a == InHand(snd = "send", msg)
             b == InHand(rd = "send", buf)
             s == ((got \o a) \o chan) \o b
  <2>1. /\ got \in Seq(Nat) /\ chan \in Seq(Nat) /\ taken \in Nat
        /\ buf \in Nat /\ msg \in Nat
    BY DEF TypeOK
  <2>2. /\ a \in Seq(Nat) /\ Len(a) = Held
        /\ \A i \in 1..Len(a) : a[i] = Len(got) + i
    BY <2>1 DEF InHand, Held, FlowInv, FlowPath
  <2>3. /\ b \in Seq(Nat) /\ Len(b) = IF rd = "send" THEN 1 ELSE 0
        /\ \A i \in 1..Len(b) : b[i] = taken
    BY <2>1 DEF InHand, FlowInv
  <2>4. /\ \A i \in 1..Len(got) : got[i] = i
        /\ \A i \in 1..Len(chan) : chan[i] = Len(got) + Len(a) + i
        /\ taken = Len(got) + Len(a) + Len(chan) + Len(b)
    BY <2>2, <2>3 DEF FlowInv, FlowPath, RdHeld
  <2> HIDE DEF a, b
  <2> DEFINE r == got \o a
             t == r \o chan
  <2>5. r \in Seq(Nat) /\ Len(r) = Len(got) + Len(a) /\ \A i \in 1..Len(r) : r[i] = i
    BY <2>1, <2>2, <2>4, CountOn
  <2> HIDE DEF r
  <2>6. t \in Seq(Nat) /\ Len(t) = Len(r) + Len(chan) /\ \A i \in 1..Len(t) : t[i] = i
    BY <2>1, <2>4, <2>5, CountOn
  <2> HIDE DEF t
  <2>7. \A i \in 1..Len(b) : b[i] = Len(t) + i
    BY <2>1, <2>2, <2>3, <2>4, <2>5, <2>6
  <2>8. t \o b \in Seq(Nat) /\ Len(t \o b) = taken /\ \A i \in 1..Len(t \o b) : (t \o b)[i] = i
    <3>1. Len(t \o b) = Len(t) + Len(b) /\ t \o b \in Seq(Nat)
          /\ \A i \in 1..Len(t \o b) : (t \o b)[i] = i
      BY <2>3, <2>6, <2>7, CountOn
    <3>2. QED
      BY <2>1, <2>2, <2>3, <2>4, <2>5, <2>6, <3>1
  <2>9. s = t \o b
    BY DEF t, r
  <2>10. s = [i \in 1..Len(s) |-> s[i]]
    <3> HIDE DEF s
    <3>1. s \in Seq(Nat)
      BY <2>8, <2>9
    <3>2. QED
      BY <3>1
  <2>11. s = [i \in 1..taken |-> i]
    <3> HIDE DEF s
    <3>1. QED
      BY <2>8, <2>9, <2>10
  <2>12. QED
    BY <2>11 DEF a, b
<1>2. QED
  BY <1>1, FlowInvariant, PTL

-----------------------------------------------------------------------------
(* Rest: who waits for whom when no task can go on.                         *)

\* A session that has begun has tasks, and a shell as long as its reader lives;
\* a browser that hangs up says so behind everything it sent; the handler ends
\* with its sender cancelled and its child killed.
RestInv == /\ mn = "setup" <=> rd = "none"
           /\ mn = "setup" <=> snd = "none"
           /\ mn = "setup" => remote = "down"
           /\ rd \notin {"none", "done"} => remote # "down"
           /\ browser = "closing" /\ mn \in {"setup", "next", "lock", "write"}
              => inbox # <<>> /\ inbox[Len(inbox)].kind = "close"
           /\ browser = "ended" => mn = "done"
           /\ mn \in {"abortReader", "done"} => snd = "done" \/ aborted
           /\ kind = "pty" /\ mn \in {"abortSender", "abortReader", "done"}
              => ~Alive

\* Taking a message from the inbox leaves the close behind it the last one.
LEMMA CloseStaysLast ==
  ASSUME NEW s \in Seq(Messages), s # <<>>, s[Len(s)].kind = "close",
         Head(s).kind # "close"
  PROVE  Tail(s) # <<>> /\ Tail(s)[Len(Tail(s))].kind = "close"
<1>1. Len(s) \in Nat /\ Len(s) > 0 /\ Head(s) = s[1]
  OBVIOUS
<1>2. Len(s) # 1
  BY <1>1
<1>3. Len(Tail(s)) = Len(s) - 1 /\ \A i \in 1..Len(s) - 1 : Tail(s)[i] = s[i + 1]
  BY <1>1
<1>4. Len(s) - 1 \in 1..Len(s) - 1
  BY <1>1, <1>2
<1>5. Tail(s)[Len(Tail(s))] = s[Len(s)]
  BY <1>1, <1>3, <1>4
<1>6. Len(Tail(s)) # 0 /\ Len(<<>>) = 0
  BY <1>1, <1>2, <1>3
<1>7. Tail(s) # <<>>
  BY <1>6, Zenon
<1> QED
  BY <1>5, <1>7

\* Every step keeps it.
LEMMA RestStep == TypeOK /\ RestInv /\ [Next]_vars => RestInv'
<1> SUFFICES ASSUME TypeOK, RestInv, [Next]_vars PROVE RestInv'
  OBVIOUS
<1> USE DEF RestInv, Alive
<1>1. CASE Start
  BY <1>1 DEF Start, userVars
<1>2. CASE SetupFails
  BY <1>2 DEF SetupFails, remoteVars, userVars
<1>3. CASE Reader
  BY <1>3 DEF Reader, RdCheck, RdLock, RdData, RdEnd, RdSend, RdSendFails, RdStop,
              RdDrop, RdFrame, remoteVars, senderVars, mainVars, userVars
<1>4. CASE Sender
  BY <1>4 DEF Sender, SndRecv, SndRecvEnd, SndSend, SndSendToNobody, SndStop,
              SndDrop, SndFrame, remoteVars, readerVars, mainVars, userVars
<1>5. CASE Main
  <2> USE DEF MnFrame, remoteVars, senderVars, readerVars, userVars
  <2>1. CASE MnNext
    <3>1. /\ mn = "next" /\ inbox # <<>> /\ inbox' = Tail(inbox) /\ inbox \in Seq(Messages)
          /\ mn' = AfterMessage(Head(inbox))
          /\ UNCHANGED <<kind, remote, rd, snd, browser, aborted>>
      BY <2>1 DEF MnNext, TypeOK
    <3>2. CASE Head(inbox).kind = "close"
      BY <3>1, <3>2 DEF AfterMessage
    <3>3. CASE Head(inbox).kind # "close"
      <4>1. mn' \in {"next", "lock", "write"}
        BY <3>1, <3>3 DEF AfterMessage
      <4>2. browser = "closing" => inbox' # <<>> /\ inbox'[Len(inbox')].kind = "close"
        BY <3>1, <3>3, CloseStaysLast
      <4> QED
        BY <3>1, <4>1, <4>2
    <3> QED
      BY <3>2, <3>3
  <2>2. CASE MnStreamEnds \/ MnLock \/ MnWrite
    BY <2>2 DEF MnStreamEnds, MnLock, MnWrite
  <2>3. CASE MnStore \/ MnKill \/ MnAbortSender \/ MnAbortReader
    BY <2>3 DEF MnStore, MnKill, MnAbortSender, MnAbortReader
  <2> QED
    BY <1>5, <2>1, <2>2, <2>3 DEF Main
<1>6. CASE Environment
  <2> USE DEF EnvFrame, remoteVars, readerVars, senderVars, mainVars, userVars
  <2>1. CASE BrowserCloses
    <3>1. PICK m : m = [kind |-> "close", id |-> 0] /\ inbox' = Append(inbox, m)
      BY <2>1 DEF BrowserCloses, Message
    <3>2. m \in Messages /\ inbox \in Seq(Messages)
      BY <3>1 DEF TypeOK, Messages, MsgKinds
    <3>3. inbox' # <<>> /\ inbox'[Len(inbox')].kind = "close"
      <4>1. Len(inbox') = Len(inbox) + 1 /\ Len(inbox) \in Nat /\ inbox'[Len(inbox) + 1] = m
        BY <3>1, <3>2
      <4>2. inbox' # <<>>
        BY <4>1
      <4> QED
        BY <3>1, <4>1, <4>2
    <3>4. browser' = "closing" /\ UNCHANGED <<kind, remote, rd, snd, mn, aborted>>
      BY <2>1 DEF BrowserCloses
    <3> QED
      BY <3>3, <3>4
  <2>2. CASE ShellWrites \/ ShellBlocks \/ ShellResumes \/ ShellReads \/ ShellEnds
    BY <2>2 DEF ShellWrites, ShellBlocks, ShellResumes, ShellReads, ShellEnds
  <2>3. CASE BrowserSends \/ ConnectionLost \/ BrowserSeesEnd
    BY <2>3 DEF BrowserSends, ConnectionLost, BrowserSeesEnd, SocketDropped
  <2> QED
    BY <1>6, <2>1, <2>2, <2>3 DEF Environment
<1>7. CASE UNCHANGED vars
  BY <1>7 DEF vars, remoteVars, readerVars, senderVars, mainVars, userVars
<1> QED
  BY <1>1, <1>2, <1>3, <1>4, <1>5, <1>6, <1>7 DEF Next

LEMMA RestInvariant == Spec => []RestInv
<1>1. Init => RestInv
  BY DEF Init, RestInv
<1> QED
  BY <1>1, RestStep, TypeCorrect, PTL DEF Spec

\* A task that takes a step was ready: at rest only the shell and the browser
\* move.
LEMMA StepsAreReady == /\ Start \/ SetupFails \/ Main => MainReady
                       /\ Sender => SenderReady
                       /\ TypeOK /\ Reader => ReaderReady
<1>1. Start \/ SetupFails \/ Main => MainReady
  BY DEF Start, SetupFails, Main, MnNext, MnStreamEnds, MnLock, MnWrite, MnStore, MnKill,
         MnAbortSender, MnAbortReader, MainReady
<1>2. Sender => SenderReady
  BY DEF Sender, SndRecv, SndRecvEnd, SndSend, SndSendToNobody, SndStop, SndDrop, SenderReady
<1>3. TypeOK /\ Reader => ReaderReady
  BY DEF TypeOK, Reader, RdCheck, RdLock, RdData, RdEnd, RdSend, RdSendFails, RdStop,
         RdDrop, ReaderReady
<1> QED
  BY <1>1, <1>2, <1>3

\* However the mutex, the queue and the flag are used, the tasks come to rest
\* only when each waits for the shell or the browser or has ended, and the shell
\* waits to be read only in the ways RestIsIdle names: for both kinds of
\* session, buffers and queues of every size, any number of chunks and messages.
THEOREM RestsIdle == Spec => []RestIsIdle
<1>1. TypeOK /\ FlowInv /\ LockInv /\ RestInv => RestIsIdle
  <2> SUFFICES ASSUME TypeOK, FlowInv, LockInv, RestInv, AtRest
               PROVE  /\ ReaderRests /\ SenderRests /\ MainRests
                      /\ ShellStuck => \/ rd = "done"
                                       \/ kind = "ssh" /\ rd = "lock" /\ AwaitsRoom
    BY DEF RestIsIdle
  <2>1. ~ReaderReady /\ ~SenderReady /\ ~MainReady
    BY DEF AtRest
  <2>2. /\ mn \in MnStates /\ rd \in RdStates /\ snd \in SndStates
        /\ remote \in {"down", "open", "blocked", "eof", "failed"}
        /\ browser \in {"open", "closing", "lost", "ended"}
        /\ taken \in Nat /\ made \in Nat /\ taken <= made
    BY DEF TypeOK
  <2>3. mn \in {"next", "lock", "write", "done"} /\ rd # "none" /\ snd # "none"
    BY <2>1, <2>2 DEF MainReady, RestInv
  <2>4. mn = "write" => AwaitsRoom
    BY <2>1 DEF MainReady, AwaitsRoom
  <2>5. snd \in {"recv", "done"} /\ (snd = "recv" => chan = <<>> /\ rd # "done" /\ ~aborted)
    BY <2>1, <2>2, <2>3 DEF SenderReady
  <2>6. rd # "send"
    BY <2>1, <2>5, TunnelAssumption DEF ReaderReady
  <2>7. rd = "lock" => kind = "ssh" /\ holder = "main" /\ mn = "write"
    BY <2>1, <2>2, <2>3 DEF ReaderReady, LockInv, SharedChannel, TypeOK
  <2>8. ReaderRests
    BY <2>1, <2>2, <2>3, <2>4, <2>6, <2>7
       DEF ReaderReady, ReaderRests, AwaitsOutput, RestInv, Alive
  <2>9. SenderRests
    <3> SUFFICES ASSUME snd = "recv", browser = "open" PROVE Len(got) = taken
      BY <2>5 DEF SenderRests
    <3>1. taken = Len(got) + Held + Len(chan) + RdHeld
      BY DEF FlowInv, FlowPath, Listening
    <3>2. Held = 0 /\ RdHeld = 0 /\ Len(chan) = 0 /\ Len(got) \in Nat
      BY <2>5, <2>6 DEF Held, RdHeld, TypeOK
    <3> QED
      BY <2>2, <3>1, <3>2
  <2>10. MainRests
    <3>1. CASE mn = "next"
      <4>1. inbox = <<>> /\ browser # "lost"
        BY <2>1, <3>1 DEF MainReady
      <4>2. browser = "open"
        BY <2>2, <3>1, <4>1 DEF RestInv
      <4> QED
        BY <3>1, <4>1, <4>2 DEF MainRests, AwaitsBrowser
    <3>2. CASE mn = "lock"
      <4>1. holder = "reader" /\ kind = "ssh" /\ rd = "read"
        BY <2>1, <3>2 DEF MainReady, LockInv, SharedChannel, TypeOK
      <4> QED
        BY <2>8, <3>2, <4>1 DEF MainRests, ReaderRests
    <3>3. CASE mn = "done"
      <4>1. snd = "done"
        BY <2>5, <3>3 DEF RestInv
      <4>2. kind = "pty" => rd = "done"
        BY <2>7, <2>8, <3>3 DEF RestInv, ReaderRests, AwaitsOutput
      <4> QED
        BY <3>3, <4>1, <4>2 DEF MainRests
    <3> QED
      BY <2>3, <2>4, <3>1, <3>2, <3>3 DEF MainRests
  <2>11. ASSUME ShellStuck PROVE rd = "done" \/ (kind = "ssh" /\ rd = "lock" /\ AwaitsRoom)
    <3>1. taken # made
      BY <2>2, <2>11, TunnelAssumption DEF ShellStuck, OutputFits
    <3> QED
      BY <2>8, <3>1 DEF ReaderRests, AwaitsOutput
  <2> QED
    BY <2>8, <2>9, <2>10, <2>11
<1> QED
  BY <1>1, FlowInvariant, LockInvariant, RestInvariant, PTL

-----------------------------------------------------------------------------
(* How much a session can still do by itself.                               *)

Tasks == Start \/ SetupFails \/ Reader \/ Sender \/ Main

\* What is left to do for a task where it is, and for each chunk and message.
RdLeft == CASE rd = "spawned" -> 6 [] rd = "check" -> 6 [] rd = "lock" -> 5
            [] rd = "read" -> 4 [] rd = "send" -> 9 [] rd = "stop" -> 2
            [] rd = "drop" -> 1 [] OTHER -> 0
SndLeft == CASE snd = "recv" -> 3 [] snd = "send" -> 4 [] snd = "stop" -> 2
             [] snd = "drop" -> 1 [] OTHER -> 0
MnLeft == CASE mn = "setup" -> 20 [] mn = "lock" -> 7 [] mn = "write" -> 6
            [] mn = "next" -> 5 [] mn = "store" -> 4 [] mn = "kill" -> 3
            [] mn = "abortSender" -> 2 [] mn = "abortReader" -> 1 [] OTHER -> 0

Rank == 6 * (made - taken) + RdLeft + 2 * Len(chan) + SndLeft + 3 * Len(inbox) + MnLeft

LEMMA RankIsNat == TypeOK => Rank \in Nat
<1> SUFFICES ASSUME TypeOK PROVE Rank \in Nat
  OBVIOUS
<1>1. RdLeft \in Nat /\ SndLeft \in Nat /\ MnLeft \in Nat
  BY DEF RdLeft, SndLeft, MnLeft
<1>2. /\ Len(chan) \in Nat /\ Len(inbox) \in Nat
      /\ made \in Nat /\ taken \in Nat /\ taken <= made
  BY DEF TypeOK
<1> QED
  BY <1>1, <1>2 DEF Rank

\* Each step of a task uses some of it up.
LEMMA TasksUseUp == TypeOK /\ Tasks => Rank' < Rank
<1> SUFFICES ASSUME TypeOK, Tasks PROVE Rank' < Rank
  OBVIOUS
<1>t. /\ chan \in Seq(Nat) /\ inbox \in Seq(Messages) /\ Len(chan) \in Nat /\ Len(inbox) \in Nat
      /\ taken \in Nat /\ made \in Nat
      /\ RdLeft \in Nat /\ SndLeft \in Nat /\ MnLeft \in Nat
  BY DEF TypeOK, RdLeft, SndLeft, MnLeft
<1>1. CASE Start
  <2>1. UNCHANGED <<made, taken, chan, inbox>>
    BY <1>1 DEF Start, userVars
  <2>2. RdLeft' = 6 /\ SndLeft' = 3 /\ MnLeft' = 5 /\ MnLeft = 20
    BY <1>1 DEF Start, RdLeft, SndLeft, MnLeft
  <2> QED
    BY <1>t, <2>1, <2>2 DEF Rank
<1>2. CASE SetupFails
  <2>1. UNCHANGED <<made, taken, chan, inbox>>
    BY <1>2 DEF SetupFails, remoteVars, userVars
  <2>2. RdLeft' = 0 /\ SndLeft' = 0 /\ MnLeft' = 0 /\ MnLeft = 20
    BY <1>2 DEF SetupFails, RdLeft, SndLeft, MnLeft
  <2> QED
    BY <1>t, <2>1, <2>2 DEF Rank
<1>3. CASE Reader
  <2>1. UNCHANGED <<made, inbox, SndLeft, MnLeft>>
    BY <1>3 DEF Reader, RdCheck, RdLock, RdData, RdEnd, RdSend, RdSendFails, RdStop, RdDrop,
                RdFrame, remoteVars, senderVars, mainVars, userVars, SndLeft, MnLeft
  <2>2. CASE RdData
    <3>1. RdLeft = 4 /\ RdLeft' = 9 /\ taken' = taken + 1 /\ UNCHANGED chan
      BY <2>2 DEF RdData, RdLeft
    <3> QED
      BY <1>t, <2>1, <3>1 DEF Rank
  <2>3. CASE RdSend
    <3>1. RdLeft = 9 /\ RdLeft' = 6 /\ UNCHANGED taken /\ Len(chan') = Len(chan) + 1
      BY <1>t, <2>3 DEF RdSend, RdLeft
    <3> QED
      BY <1>t, <2>1, <3>1 DEF Rank
  <2>4. CASE RdCheck \/ RdLock \/ RdEnd \/ RdSendFails \/ RdStop \/ RdDrop
    <3>1. UNCHANGED <<taken, chan>>
      BY <2>4 DEF RdCheck, RdLock, RdEnd, RdSendFails, RdStop, RdDrop
    <3>2. RdLeft' < RdLeft
      BY <2>4 DEF RdCheck, RdLock, RdEnd, RdSendFails, RdStop, RdDrop, RdLeft
    <3>3. RdLeft' \in Nat
      BY DEF RdLeft
    <3> QED
      BY <1>t, <2>1, <3>1, <3>2, <3>3 DEF Rank
  <2> QED
    BY <1>3, <2>2, <2>3, <2>4 DEF Reader
<1>4. CASE Sender
  <2>1. UNCHANGED <<made, taken, inbox, RdLeft, MnLeft>>
    BY <1>4 DEF Sender, SndRecv, SndRecvEnd, SndSend, SndSendToNobody, SndStop, SndDrop,
                SndFrame, remoteVars, readerVars, mainVars, userVars, RdLeft, MnLeft
  <2>2. CASE SndRecv
    <3>1. SndLeft = 3 /\ SndLeft' = 4 /\ Len(chan') = Len(chan) - 1
      BY <1>t, <2>2 DEF SndRecv, SndLeft
    <3> QED
      BY <1>t, <2>1, <3>1 DEF Rank
  <2>3. CASE SndRecvEnd \/ SndSend \/ SndSendToNobody \/ SndStop
    <3>1. UNCHANGED chan
      BY <2>3 DEF SndRecvEnd, SndSend, SndSendToNobody, SndStop
    <3>2. SndLeft' < SndLeft /\ SndLeft' \in Nat
      BY <2>3 DEF SndRecvEnd, SndSend, SndSendToNobody, SndStop, SndLeft
    <3> QED
      BY <1>t, <2>1, <3>1, <3>2 DEF Rank
  <2>4. CASE SndDrop
    <3>1. SndLeft' = 0 /\ SndLeft > 0 /\ Len(chan') = 0
      BY <2>4 DEF SndDrop, SndLeft
    <3> QED
      BY <1>t, <2>1, <3>1 DEF Rank
  <2> QED
    BY <1>4, <2>2, <2>3, <2>4 DEF Sender
<1>5. CASE Main
  <2>1. UNCHANGED <<made, taken, chan, SndLeft>>
    BY <1>5 DEF Main, MnNext, MnStreamEnds, MnLock, MnWrite, MnStore, MnKill, MnAbortSender,
                MnAbortReader, MnFrame, remoteVars, readerVars, senderVars, SndLeft
  <2>2. CASE MnNext
    <3>1. MnLeft = 5 /\ MnLeft' <= 7 /\ Len(inbox') = Len(inbox) - 1 /\ UNCHANGED RdLeft
      BY <1>t, <2>2 DEF MnNext, AfterMessage, MnLeft, RdLeft, readerVars
    <3>2. MnLeft' \in Nat
      BY DEF MnLeft
    <3> QED
      BY <1>t, <2>1, <3>1, <3>2 DEF Rank
  <2>3. CASE MnStreamEnds \/ MnLock \/ MnWrite \/ MnStore \/ MnKill \/ MnAbortSender
    <3>1. UNCHANGED <<inbox, RdLeft>>
      BY <2>3 DEF MnStreamEnds, MnLock, MnWrite, MnStore, MnKill, MnAbortSender, readerVars,
                  userVars, RdLeft
    <3>2. MnLeft' < MnLeft /\ MnLeft' \in Nat
      BY <2>3 DEF MnStreamEnds, MnLock, MnWrite, MnStore, MnKill, MnAbortSender, MnLeft
    <3> QED
      BY <1>t, <2>1, <3>1, <3>2 DEF Rank
  <2>4. CASE MnAbortReader
    <3>1. UNCHANGED inbox /\ MnLeft = 1 /\ MnLeft' = 0
      BY <2>4 DEF MnAbortReader, MnLeft, userVars
    <3>2. RdLeft' <= RdLeft /\ RdLeft' \in Nat
      BY <2>4 DEF MnAbortReader, RdLeft
    <3> QED
      BY <1>t, <2>1, <3>1, <3>2 DEF Rank
  <2> QED
    BY <1>5, <2>2, <2>3, <2>4 DEF Main
<1> QED
  BY <1>1, <1>2, <1>3, <1>4, <1>5 DEF Tasks

NewWork == ShellWrites \/ ShellResumes \/ BrowserSends \/ BrowserCloses

\* Only new output of the shell and new messages of the browser add to it.
LEMMA OutsideAdds ==
  TypeOK /\ (Environment \/ UNCHANGED vars) =>
    Rank' <= Rank \/ NewWork
<1> SUFFICES ASSUME TypeOK, Environment \/ UNCHANGED vars,
                    ~NewWork
             PROVE  Rank' <= Rank
  OBVIOUS
<1>t. /\ inbox \in Seq(Messages) /\ Len(chan) \in Nat /\ Len(inbox) \in Nat
      /\ taken \in Nat /\ made \in Nat
      /\ RdLeft \in Nat /\ SndLeft \in Nat /\ MnLeft \in Nat
  BY DEF TypeOK, RdLeft, SndLeft, MnLeft
<1>1. UNCHANGED <<made, taken, chan, RdLeft, SndLeft, MnLeft>>
  BY DEF NewWork, Environment, ShellBlocks, ShellReads, ShellEnds, ConnectionLost,
         BrowserSeesEnd, EnvFrame, remoteVars,
         readerVars, senderVars, mainVars, vars, RdLeft, SndLeft, MnLeft
<1>2. Len(inbox') \in Nat /\ Len(inbox') <= Len(inbox)
  <2>1. CASE ConnectionLost
    <3>1. PICK n \in 0..Len(inbox) : inbox' = SubSeq(inbox, 1, n)
      BY <2>1 DEF ConnectionLost
    <3>2. Len(inbox') = n
      BY <1>t, <3>1
    <3> QED
      BY <1>t, <3>2
  <2>2. CASE ~ConnectionLost
    BY <1>t, <2>2 DEF NewWork, Environment, ShellBlocks, ShellReads, ShellEnds,
                      BrowserSeesEnd, EnvFrame, userVars, vars
  <2> QED
    BY <2>1, <2>2
<1> QED
  BY <1>t, <1>1, <1>2 DEF Rank

\* A step of a task brings the session nearer to rest, and nothing but the shell
\* or the browser gives it more to do. Together with RestsIdle: after as many
\* steps as Rank says, every task has ended or waits for one of the two.
StepsCount == [][/\ Tasks => Rank' < Rank
                 /\ Rank' > Rank => NewWork]_vars

\* No task spins, whatever the others do: the loops of reader, sender and
\* handler turn only for a chunk or a message.
THEOREM EveryStepCounts == Spec => [](TypeOK /\ Rank \in Nat) /\ StepsCount
<1>1. TypeOK /\ Rank \in Nat /\ (Rank \in Nat)' /\ [Next]_vars =>
        [/\ Tasks => Rank' < Rank
         /\ Rank' > Rank => NewWork]_vars
  <2> SUFFICES ASSUME TypeOK, Rank \in Nat, (Rank \in Nat)', [Next]_vars
               PROVE  /\ Tasks => Rank' < Rank
                      /\ Rank' > Rank => NewWork
    OBVIOUS
  <2>1. Tasks \/ Environment \/ UNCHANGED vars
    BY DEF Next, Tasks
  <2> QED
    BY <2>1, TasksUseUp, OutsideAdds
<1> QED
  BY <1>1, RankIsNat, TypeCorrect, PTL DEF Spec, StepsCount

-----------------------------------------------------------------------------
(* Refinement.                                                              *)

\* Every step of the three tasks, the shell and the browser is a step of the
\* pipe or leaves it alone. (That the pipe's fairness is met is left to TLC.)
THEOREM TunnelIsAPipe == Spec => P!PipeSafe
<1>1. Init => P!PipeInit
  BY DEF Init, P!PipeInit
<1>2. TypeOK /\ FlowInv /\ [Next]_vars => [P!PipeNext]_P!pipeVars
  <2> SUFFICES ASSUME TypeOK, FlowInv, [Next]_vars
               PROVE  P!PipeNext \/ UNCHANGED P!pipeVars
    OBVIOUS
  <2> USE DEF P!PipeNext, P!Make, P!Receive, P!GoDown, P!pipeVars
  <2>1. CASE Start
    BY <2>1 DEF Start, userVars, FlowInv
  <2>2. CASE SetupFails
    BY <2>2 DEF SetupFails, remoteVars, userVars
  <2>3. CASE Reader
    BY <2>3 DEF Reader, RdCheck, RdLock, RdData, RdEnd, RdSend, RdSendFails, RdStop,
                RdDrop, RdFrame, remoteVars, senderVars, mainVars, userVars
  <2>4. CASE Sender
    <3> USE DEF SndFrame, remoteVars, mainVars, userVars
    <3>1. CASE SndSend
      <4>1. msg = Len(got) + 1 /\ Len(got) < made
        BY <3>1 DEF SndSend, TypeOK, FlowInv, FlowPath, Listening, Held, RdHeld
      <4>2. QED
        BY <3>1, <4>1 DEF SndSend
    <3>2. CASE SndRecv \/ SndRecvEnd \/ SndSendToNobody \/ SndStop \/ SndDrop
      BY <3>2 DEF SndRecv, SndRecvEnd, SndSendToNobody, SndStop, SndDrop
    <3>3. QED
      BY <2>4, <3>1, <3>2 DEF Sender
  <2>5. CASE Main
    <3> USE DEF FlowInv, MnFrame, remoteVars, senderVars, userVars
    <3>1. CASE MnNext \/ MnStreamEnds \/ MnLock \/ MnWrite
      BY <3>1 DEF MnNext, MnStreamEnds, MnLock, MnWrite, AfterMessage
    <3>2. CASE MnStore \/ MnKill \/ MnAbortSender \/ MnAbortReader
      BY <3>2 DEF MnStore, MnKill, MnAbortSender, MnAbortReader, Alive
    <3>3. QED
      BY <2>5, <3>1, <3>2 DEF Main
  <2>6. CASE Environment
    BY <2>6 DEF Environment, ShellWrites, ShellBlocks, ShellResumes, ShellReads,
                ShellEnds, BrowserSends, BrowserCloses,
                ConnectionLost, BrowserSeesEnd, EnvFrame, remoteVars, senderVars,
                mainVars, userVars, Alive
  <2>7. CASE UNCHANGED vars
    BY <2>7 DEF vars, remoteVars, senderVars, mainVars, userVars
  <2>8. QED
    BY <2>1, <2>2, <2>3, <2>4, <2>5, <2>6, <2>7 DEF Next
<1>3. QED
  BY <1>1, <1>2, FlowInvariant, PTL DEF Spec, P!PipeSafe
=============================================================================
