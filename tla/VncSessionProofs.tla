-------------------------- MODULE VncSessionProofs --------------------------
(* Proofs about VncSession, for a screen of any size, any colours and any   *)
(* capacity of the queue. That packets and canvas add up is shown with the  *)
(* pictures the canvas goes through (Film) and, update by update, with the  *)
(* pictures between updates (Runs).                                         *)
EXTENDS VncSession, TLAPS, FiniteSetTheorems, SequenceTheorems

-----------------------------------------------------------------------------
(* The stream of updates.                                                   *)

\* The stop flag is cleared before the sender or the handler gets further; what
\* an update left unread stays only where the queue is closed.
FlagInv ==
  /\ running \in BOOLEAN
  /\ snd \in {"drop", "done"} => running = FALSE
  /\ aborted = TRUE => running = FALSE
  /\ mn \in {"setup", "abortSender", "abortReader", "done"} => running = FALSE
  /\ mn = "setup" => rd = "none" /\ snd = "none" /\ rest = <<>> /\ aborted = FALSE
  /\ rd \in {"none", "spawned", "read"} => rest = <<>>
  /\ rd \in {"request", "check"} => rest = <<>> \/ snd = "done"

LEMMA FlagInit == Init => FlagInv
  BY DEF Init, FlagInv

\* An update that is cut off has no more rectangles than before.
LEMMA CutEmpty == ASSUME NEW s \in Cut(<<>>) PROVE s = <<>>
  BY DEF Cut

LEMMA FlagStep == FlagInv /\ [Next]_vars => FlagInv'
  <1> SUFFICES ASSUME FlagInv, [Next]_vars PROVE FlagInv'
    OBVIOUS
  <1> USE DEF FlagInv
  <1>1. CASE Start \/ SetupFails
    BY <1>1 DEF Start, SetupFails
  <1>2. CASE Reader
    BY <1>2 DEF Reader, RdFrame, senderVars, serverVars, browserVars, RdCheck, RdUpdate, RdEnd,
       RdRect, RdRectsEnd, RdSend, RdSendFails, RdRequest, RdStop, RdDrop
  <1>3. CASE Sender
    BY <1>3 DEF Sender, SndFrame, serverVars, readerVars, browserVars, SndRecv, SndRecvEnd, SndSend,
       SndSendToNobody, SndStop, SndDrop
  <1>4. CASE Main
    BY <1>4 DEF Main, MnFrame, serverVars, senderVars, browserVars, MnNext, MnStreamEnds, MnStore,
       MnAbortSender, MnAbortReader
  <1>5. CASE ScreenChanges \/ ServerAnswers
    BY <1>5 DEF ScreenChanges, ServerAnswers, ServerFrame, readerVars, senderVars, browserVars
  <1>6. CASE ServerEnds
    <2>1. rest = <<>> => rest' = <<>>
      BY <1>6, CutEmpty DEF ServerEnds
    <2> QED BY <1>6, <2>1 DEF ServerEnds, senderVars, browserVars
  <1>7. CASE BrowserCloses \/ ConnectionLost
    BY <1>7 DEF BrowserCloses, ConnectionLost, BrFrame, readerVars, senderVars
  <1>8. CASE UNCHANGED vars
    BY <1>8 DEF vars, readerVars, senderVars
  <1> QED BY <1>1, <1>2, <1>3, <1>4, <1>5, <1>6, <1>7, <1>8 DEF Next

LEMMA FlagInvariance == Spec => []FlagInv
  BY FlagInit, FlagStep, PTL DEF Spec

\* The reader never takes the rest of an update for the start of a message:
\* where it leaves one half read, the queue is closed, and whoever closed it
\* had cleared the flag that the reader tests before it reads on.
THEOREM InStep == Spec => []NeverOutOfStep
  <1>1. FlagInv => NeverOutOfStep
    BY DEF FlagInv, NeverOutOfStep
  <1> QED BY <1>1, FlagInvariance, PTL

-----------------------------------------------------------------------------
(* Types.                                                                   *)

Requests == {"full", "incremental"}
Strips == [Cells -> Colours]

\* TypeOK as it is inductive: reqs and stream are sequences, and the packets in
\* hand are packets.
Typed == /\ server \in {"down", "up", "eof"}
         /\ fb \in Strips /\ seen \in Strips /\ canvas \in Strips
         /\ reqs \in Seq(Requests) /\ stream \in Seq(Seq(Packets))
         /\ rest \in Seq(Packets) /\ queue \in Seq(Packets) /\ Len(queue) <= Cap
         /\ pkt \in Packets /\ msg \in Packets
         /\ rd \in {"none", "spawned", "check", "read", "rects", "send", "request", "stop",
                    "drop", "done"}
         /\ snd \in {"none", "recv", "send", "stop", "drop", "done"}
         /\ mn \in {"setup", "next", "store", "abortSender", "abortReader", "done"}
         /\ browser \in {"open", "closing", "lost"}
         /\ aborted \in BOOLEAN /\ running \in BOOLEAN
         /\ mn = "setup" => server = "down"

LEMMA TypedGives == Typed => TypeOK
  BY DEF Typed, TypeOK, Strips, Requests

\* A rectangle of colours is a packet, and so is a copy.
LEMMA RawType == ASSUME NEW s \in SUBSET Cells, NEW paint \in [s -> Colours] PROVE Raw(paint) \in Packets
  BY DEF Raw, Packets

LEMMA CopyType == ASSUME NEW i \in Cells, NEW j \in Cells PROVE CopyRect(i, j) \in Packets
  BY DEF CopyRect, Packets

LEMMA NothingType == Nothing \in Packets
  <1>1. <<>> \in [{} -> Colours]
    OBVIOUS
  <1> QED BY <1>1, RawType DEF Nothing

\* The canvas stays a picture.
LEMMA ShownType == ASSUME NEW cv \in Strips, NEW p \in Packets PROVE Shown(cv, p) \in Strips
  <1>1. CASE p \in [type : {"copy"}, from : Cells, to : Cells]
    BY <1>1 DEF Shown, Strips
  <1>2. CASE p \in [type : {"raw"}, paint : UNION {[s -> Colours] : s \in SUBSET Cells}]
    <2>1. PICK s \in SUBSET Cells : p.paint \in [s -> Colours]
      BY <1>2
    <2> QED BY <1>2, <2>1 DEF Shown, Strips
  <1> QED BY <1>1, <1>2 DEF Packets

\* What the server sends is made of packets.
LEMMA PartType == ASSUME NEW s \in SUBSET Cells, fb \in Strips PROVE Part(s) \in Packets
  BY RawType DEF Part, Strips

LEMMA UpdatesAre ==
  ASSUME NEW rects \in Updates
  PROVE  \/ rects = <<Part(Cells)>>
         \/ \E i \in Cells, j \in Cells :
              rects = <<CopyRect(i, j), Part(Differing(Shown(seen, CopyRect(i, j)), fb))>>
  <1> DEFINE F(i, j) == <<CopyRect(i, j), Part(Differing(Shown(seen, CopyRect(i, j)), fb))>>
  <1>1. Updates = {<<Part(Cells)>>} \cup {F(i, j) : i \in Cells, j \in Cells}
    BY DEF Updates
  <1> HIDE DEF F
  <1>2. rects = <<Part(Cells)>> \/ \E i \in Cells, j \in Cells : rects = F(i, j)
    BY <1>1
  <1> QED BY <1>2 DEF F

LEMMA UpdatesType ==
  ASSUME fb \in Strips, NEW rects, rects \in Updates \/ rects = <<Part(Cells)>>
  PROVE  rects \in Seq(Packets)
  <1>1. <<Part(Cells)>> \in Seq(Packets)
    BY PartType
  <1>2. ASSUME NEW i \in Cells, NEW j \in Cells
        PROVE  <<CopyRect(i, j), Part(Differing(Shown(seen, CopyRect(i, j)), fb))>> \in Seq(Packets)
    <2>1. Part(Differing(Shown(seen, CopyRect(i, j)), fb)) \in Packets
      BY PartType DEF Differing
    <2> QED BY <2>1, CopyType
  <1>3. CASE rects = <<Part(Cells)>>
    BY <1>1, <1>3
  <1>4. CASE \E i \in Cells, j \in Cells :
               rects = <<CopyRect(i, j), Part(Differing(Shown(seen, CopyRect(i, j)), fb))>>
    BY <1>2, <1>4
  <1>5. rects \in Updates => \/ rects = <<Part(Cells)>>
                            \/ \E i \in Cells, j \in Cells :
                                 rects = <<CopyRect(i, j),
                                           Part(Differing(Shown(seen, CopyRect(i, j)), fb))>>
    BY UpdatesAre
  <1> QED BY <1>3, <1>4, <1>5

LEMMA CutType == ASSUME NEW s \in Seq(Packets), NEW c \in Cut(s) PROVE c \in Seq(Packets)
  BY DEF Cut

LEMMA TypedInit == Init => Typed
  <1> SUFFICES ASSUME Init PROVE Typed
    OBVIOUS
  <1>1. Blank \in Strips
    BY VncAssumption DEF Blank, Strips
  <1>2. /\ <<>> \in Seq(Requests) /\ <<>> \in Seq(Packets) /\ <<>> \in Seq(Seq(Packets))
        /\ Len(<<>>) <= Cap
    BY VncAssumption
  <1> QED BY <1>1, <1>2, NothingType DEF Init, Typed, Strips

LEMMA TypedStep == Typed /\ [Next]_vars => Typed'
  <1> SUFFICES ASSUME Typed, [Next]_vars PROVE Typed'
    OBVIOUS
  <1> USE DEF Typed
  <1>1. CASE Start
    <2>1. reqs' \in Seq(Requests)
      BY <1>1 DEF Start, Requests
    <2> QED BY <1>1, <2>1 DEF Start, browserVars
  <1>2. CASE SetupFails
    BY <1>2 DEF SetupFails, serverVars, browserVars
  <1>3. CASE ScreenChanges
    BY <1>3 DEF ScreenChanges, ServerFrame, readerVars, senderVars, browserVars, Strips
  <1>4. CASE ServerAnswers
    <2>1. reqs' \in Seq(Requests)
      BY <1>4 DEF ServerAnswers
    <2>2. stream' \in Seq(Seq(Packets))
      <3>1. PICK rects : /\ rects \in Updates \/ rects = <<Part(Cells)>>
                         /\ stream' = Append(stream, rects)
        BY <1>4 DEF ServerAnswers
      <3>2. rects \in Seq(Packets)
        BY <3>1, UpdatesType
      <3> QED BY <3>1, <3>2
    <2> QED BY <1>4, <2>1, <2>2 DEF ServerAnswers, ServerFrame, readerVars, senderVars, browserVars
  <1>5. CASE ServerEnds
    <2>1. stream' \in Seq(Seq(Packets)) /\ rest' \in Seq(Packets)
      <3>1. CASE stream # <<>>
        <4>1. PICK rects \in Cut(stream[Len(stream)]) :
                stream' = [stream EXCEPT ![Len(stream)] = rects] /\ rest' = rest
          BY <1>5, <3>1 DEF ServerEnds
        <4>2. Len(stream) \in 1..Len(stream) /\ stream[Len(stream)] \in Seq(Packets)
          BY <3>1
        <4>3. rects \in Seq(Packets)
          BY <4>1, <4>2, CutType
        <4> QED BY <4>1, <4>2, <4>3
      <3>2. CASE stream = <<>>
        BY <1>5, <3>2, CutType DEF ServerEnds
      <3> QED BY <3>1, <3>2
    <2> QED BY <1>5, <2>1 DEF ServerEnds, senderVars, browserVars
  <1>6. CASE Reader
    <2> USE DEF RdFrame, serverVars, senderVars, browserVars
    <2>1. CASE RdUpdate
      BY <1>6, <2>1 DEF RdUpdate
    <2>2. CASE RdRect
      BY <1>6, <2>2 DEF RdRect
    <2>3. CASE RdSend
      BY <1>6, <2>3, VncAssumption DEF RdSend
    <2>4. CASE RdRequest
      BY <1>6, <2>4 DEF RdRequest, Requests
    <2>5. CASE RdCheck \/ RdEnd \/ RdRectsEnd \/ RdSendFails \/ RdStop \/ RdDrop
      <3>1. CASE RdCheck \/ RdEnd
        BY <1>6, <3>1 DEF RdCheck, RdEnd
      <3>2. CASE RdRectsEnd \/ RdSendFails
        BY <1>6, <3>2 DEF RdRectsEnd, RdSendFails
      <3>3. CASE RdStop \/ RdDrop
        BY <1>6, <3>3 DEF RdStop, RdDrop
      <3> QED BY <2>5, <3>1, <3>2, <3>3
    <2> QED BY <1>6, <2>1, <2>2, <2>3, <2>4, <2>5 DEF Reader
  <1>7. CASE Sender
    <2> USE DEF SndFrame, serverVars, readerVars, browserVars
    <2>1. CASE SndRecv
      BY <2>1, VncAssumption DEF SndRecv
    <2>2. CASE SndSend
      BY <2>2, ShownType DEF SndSend
    <2>3. CASE SndDrop
      BY <2>3, VncAssumption DEF SndDrop
    <2>4. CASE SndRecvEnd \/ SndSendToNobody \/ SndStop
      BY <2>4 DEF SndRecvEnd, SndSendToNobody, SndStop
    <2> QED BY <1>7, <2>1, <2>2, <2>3, <2>4 DEF Sender
  <1>8. CASE Main
    BY <1>8 DEF Main, MnFrame, serverVars, senderVars, browserVars, MnNext, MnStreamEnds, MnStore,
       MnAbortSender, MnAbortReader
  <1>9. CASE BrowserCloses \/ ConnectionLost
    BY <1>9 DEF BrowserCloses, ConnectionLost, BrFrame, serverVars, readerVars, senderVars
  <1>10. CASE UNCHANGED vars
    BY <1>10 DEF vars, serverVars, readerVars, senderVars, browserVars
  <1> QED
    BY <1>1, <1>2, <1>3, <1>4, <1>5, <1>6, <1>7, <1>8, <1>9, <1>10 DEF Next

LEMMA TypedInvariance == Spec => []Typed
  BY TypedInit, TypedStep, PTL DEF Spec

\* Types and the queue's bound, for every capacity.
THEOREM TypeCorrect == Spec => []TypeOK
  BY TypedInvariance, TypedGives, PTL

-----------------------------------------------------------------------------
(* Requests.                                                                *)

LEMMA AskedStep == Typed /\ AlwaysAsked /\ [Next]_vars => AlwaysAsked'
  <1> SUFFICES ASSUME Typed, AlwaysAsked, [Next]_vars, server' = "up", running', rd' # "done"
               PROVE  reqs' # <<>> \/ stream' # <<>> \/ rd' \in {"rects", "send", "request"}
    BY DEF AlwaysAsked
  <1> USE DEF Typed, AlwaysAsked
  <1>1. CASE Start \/ SetupFails
    <2>1. CASE Start
      <3>1. reqs' = <<"full">>
        BY <2>1 DEF Start
      <3> QED BY <3>1
    <2>2. CASE SetupFails
      BY <2>2 DEF SetupFails, serverVars
    <2> QED BY <1>1, <2>1, <2>2
  <1>2. CASE ScreenChanges
    BY <1>2 DEF ScreenChanges, ServerFrame, readerVars
  <1>3. CASE ServerAnswers
    BY <1>3 DEF ServerAnswers
  <1>4. CASE ServerEnds
    BY <1>4 DEF ServerEnds
  <1>5. CASE Reader
    <2>1. CASE RdRequest
      <3>1. Len(reqs') = Len(reqs) + 1
        BY <2>1 DEF RdRequest
      <3> QED BY <3>1
    <2>2. CASE RdCheck \/ RdEnd \/ RdStop \/ RdDrop
      BY <2>2 DEF RdFrame, serverVars, RdCheck, RdEnd, RdStop, RdDrop
    <2>3. CASE RdUpdate \/ RdRect \/ RdRectsEnd \/ RdSend \/ RdSendFails
      BY <2>3 DEF RdUpdate, RdRect, RdRectsEnd, RdSend, RdSendFails
    <2> QED BY <1>5, <2>1, <2>2, <2>3 DEF Reader
  <1>6. CASE Sender
    BY <1>6 DEF Sender, SndFrame, serverVars, readerVars, SndRecv, SndRecvEnd, SndSend,
       SndSendToNobody, SndStop, SndDrop
  <1>7. CASE Main
    BY <1>7 DEF Main, MnFrame, serverVars, MnNext, MnStreamEnds, MnStore, MnAbortSender,
       MnAbortReader
  <1>8. CASE BrowserCloses \/ ConnectionLost \/ UNCHANGED vars
    BY <1>8 DEF BrowserCloses, ConnectionLost, BrFrame, serverVars, readerVars, vars
  <1> QED BY <1>1, <1>2, <1>3, <1>4, <1>5, <1>6, <1>7, <1>8 DEF Next

\* A session that runs has asked for the next update or is about to: no path
\* through the reader lets the stream of updates dry up.
THEOREM UpdatesAsked == Spec => []AlwaysAsked
  <1>1. Init => AlwaysAsked
    BY DEF Init, AlwaysAsked
  <1> QED BY <1>1, AskedStep, TypedInvariance, PTL DEF Spec

-----------------------------------------------------------------------------
(* Packets drawn one after the other.                                       *)

\* A set of numbers that is not empty has a smallest member.
LEMMA Smallest == ASSUME NEW T \in SUBSET Nat, T # {} PROVE \E x \in T : \A y \in T : x <= y
  <1> DEFINE Upto(n) == 0..n
             R == StrictSubsetOrdering(Nat)
             F == {Upto(n) : n \in T}
  <1>1. F \subseteq FiniteSubsetsOf(Nat) /\ F # {}
    <2>1. ASSUME NEW n \in T PROVE Upto(n) \in SUBSET Nat /\ IsFiniteSet(Upto(n))
      BY FS_Interval
    <2> QED BY <2>1 DEF FiniteSubsetsOf
  <1>2. PICK a \in F : \A b \in F : <<b, a>> \notin R
    <2> HIDE DEF F, R
    <2>1. IsWellFoundedOn(R, FiniteSubsetsOf(Nat))
      BY FS_StrictSubsetOrderingWellFounded DEF R
    <2> QED BY <1>1, <2>1, WFMin, Zenon
  <1>3. PICK x \in T : a = Upto(x)
    OBVIOUS
  <1>4. ASSUME NEW y \in T, y < x PROVE FALSE
    <2>1. Upto(y) \in SUBSET Nat /\ Upto(x) \in SUBSET Nat
      OBVIOUS
    <2>2. Upto(y) \subseteq Upto(x) /\ Upto(y) # Upto(x)
      <3>1. x \in Upto(x) /\ x \notin Upto(y)
        BY <1>4
      <3> QED BY <1>4, <3>1
    <2>3. <<Upto(y), Upto(x)>> \in R
      BY <2>1, <2>2, Zenon DEF StrictSubsetOrdering
    <2> QED BY <1>2, <1>3, <2>3
  <1> QED BY <1>4

\* The pictures a canvas goes through, and the last of them.
Film(s, cv, ps) ==
  s = [i \in 0..Len(ps) |-> IF i = 0 THEN cv ELSE Shown(s[i - 1], ps[i])]
Leads(cv, ps, pic) == \E s : Film(s, cv, ps) /\ s[Len(ps)] = pic

LEMMA FilmAfter ==
  ASSUME NEW s, NEW cv, NEW ps, Len(ps) \in Nat, Film(s, cv, ps)
  PROVE  After(cv, ps) = s[Len(ps)]
  <1> DEFINE n == Len(ps)
             pic == CHOOSE pic : pic = [i \in 0..n |->
                      IF i = 0 THEN cv ELSE Shown(pic[i - 1], ps[i])]
             T == {i \in 0..n : pic[i] # s[i]}
  <1>1. pic = [i \in 0..n |-> IF i = 0 THEN cv ELSE Shown(pic[i - 1], ps[i])]
    <2>1. \E x : x = [i \in 0..n |-> IF i = 0 THEN cv ELSE Shown(x[i - 1], ps[i])]
      BY DEF Film
    <2> QED BY <2>1, Zenon
  <1>2. After(cv, ps) = pic[n]
    BY Zenon DEF After
  <1> HIDE DEF pic
  <1>3. ASSUME T # {} PROVE FALSE
    <2>1. PICK i \in T : \A j \in T : i <= j
      <3>1. T \in SUBSET Nat
        OBVIOUS
      <3> HIDE DEF T
      <3> QED BY <1>3, <3>1, Smallest
    <2>2. i # 0
      BY <1>1, <2>1 DEF Film
    <2>3. pic[i - 1] = s[i - 1]
      BY <2>1, <2>2
    <2> QED BY <1>1, <2>1, <2>2, <2>3 DEF Film
  <1> QED BY <1>2, <1>3

LEMMA LeadsAfter == ASSUME NEW cv, NEW ps, Len(ps) \in Nat, NEW pic, Leads(cv, ps, pic)
                    PROVE  After(cv, ps) = pic
  BY FilmAfter DEF Leads

LEMMA LeadsNow == ASSUME NEW cv, NEW pic PROVE Leads(cv, <<>>, pic) <=> pic = cv
  <1>1. ASSUME Leads(cv, <<>>, pic) PROVE pic = cv
    BY <1>1 DEF Leads, Film
  <1>2. Leads(cv, <<>>, cv)
    <2>1. PICK s : s = [i \in 0..0 |-> cv]
      OBVIOUS
    <2>2. Film(s, cv, <<>>) /\ s[Len(<<>>)] = cv
      BY <2>1 DEF Film
    <2> QED BY <2>2 DEF Leads
  <1> QED BY <1>1, <1>2

LEMMA LeadsOn ==
  ASSUME NEW M, NEW ps \in Seq(M), NEW m, NEW cv, NEW pic, Leads(cv, ps, pic)
  PROVE  Leads(cv, Append(ps, m), Shown(pic, m))
  <1>1. PICK s : Film(s, cv, ps) /\ s[Len(ps)] = pic
    BY DEF Leads
  <1>2. PICK n \in Nat : n = Len(ps)
    OBVIOUS
  <1>3. /\ Len(Append(ps, m)) = n + 1 /\ Append(ps, m)[n + 1] = m
        /\ \A i \in 1..n : Append(ps, m)[i] = ps[i]
    BY <1>2
  <1>4. PICK t : t = [i \in 0..n + 1 |-> IF i = n + 1 THEN Shown(pic, m) ELSE s[i]]
    OBVIOUS
  <1>5. \A i \in 0..n + 1 :
          t[i] = IF i = 0 THEN cv ELSE Shown(t[i - 1], Append(ps, m)[i])
    <2> SUFFICES ASSUME NEW i \in 0..n + 1
                 PROVE  t[i] = IF i = 0 THEN cv ELSE Shown(t[i - 1], Append(ps, m)[i])
      OBVIOUS
    <2>1. CASE i = n + 1
      <3>1. i # 0 /\ i - 1 = n /\ n \in 0..n + 1 /\ n # n + 1
        BY <2>1
      <3>2. t[n] = pic
        BY <1>1, <1>2, <1>4, <3>1
      <3>3. t[i] = Shown(pic, m)
        BY <1>4, <2>1
      <3>4. t[i - 1] = pic /\ Append(ps, m)[i] = m
        BY <1>3, <2>1, <3>1, <3>2, Zenon
      <3> QED BY <3>1, <3>3, <3>4, Zenon
    <2>2. CASE i \in 0..n
      <3>1. s[i] = IF i = 0 THEN cv ELSE Shown(s[i - 1], ps[i])
        BY <1>1, <1>2, <2>2 DEF Film
      <3>2. t[i] = s[i] /\ (i # 0 => t[i - 1] = s[i - 1])
        BY <1>4, <2>2
      <3> QED BY <1>3, <2>2, <3>1, <3>2
    <2>3. i = n + 1 \/ i \in 0..n
      OBVIOUS
    <2> QED BY <2>1, <2>2, <2>3, Zenon
  <1>6. Film(t, cv, Append(ps, m))
    <2>1. t = [i \in 0..n + 1 |-> IF i = 0 THEN cv ELSE Shown(t[i - 1], Append(ps, m)[i])]
      <3> DEFINE u == [i \in 0..n + 1 |-> IF i = 0 THEN cv ELSE Shown(t[i - 1], Append(ps, m)[i])]
      <3>1. \A i \in 0..n + 1 : t[i] = u[i]
        BY <1>5
      <3> HIDE DEF u
      <3>2. t = [i \in 0..n + 1 |-> t[i]]
        BY <1>4
      <3>3. u = [i \in 0..n + 1 |-> u[i]]
        BY DEF u
      <3>4. t = u
        BY <3>1, <3>2, <3>3
      <3> QED BY <3>4 DEF u
    <2> QED BY <1>3, <2>1 DEF Film
  <1> QED BY <1>3, <1>4, <1>6 DEF Leads

LEMMA LeadsFrom ==
  ASSUME NEW M, NEW ps \in Seq(M), ps # <<>>, NEW cv, NEW pic, Leads(cv, ps, pic)
  PROVE  Leads(Shown(cv, Head(ps)), Tail(ps), pic)
  <1>1. PICK s : Film(s, cv, ps) /\ s[Len(ps)] = pic
    BY DEF Leads
  <1>2. PICK n \in Nat : n = Len(Tail(ps)) /\ Len(ps) = n + 1
    OBVIOUS
  <1>3. \A i \in 1..n : Tail(ps)[i] = ps[i + 1]
    BY <1>2
  <1>4. PICK t : t = [i \in 0..n |-> s[i + 1]]
    OBVIOUS
  <1>5. \A i \in 0..n :
          t[i] = IF i = 0 THEN Shown(cv, Head(ps)) ELSE Shown(t[i - 1], Tail(ps)[i])
    <2> SUFFICES ASSUME NEW i \in 0..n
                 PROVE  t[i] = IF i = 0 THEN Shown(cv, Head(ps))
                               ELSE Shown(t[i - 1], Tail(ps)[i])
      OBVIOUS
    <2>1. s[i + 1] = Shown(s[i], ps[i + 1])
      BY <1>1, <1>2 DEF Film
    <2>2. CASE i = 0
      <3>1. s[0] = cv /\ Head(ps) = ps[1]
        BY <1>1, <1>2 DEF Film
      <3> QED BY <1>4, <2>1, <2>2, <3>1
    <2>3. CASE i \in 1..n
      <3>1. i # 0 /\ i - 1 \in 0..n /\ i - 1 + 1 = i
        BY <2>3
      <3>2. t[i - 1] = s[i] /\ t[i] = s[i + 1]
        BY <1>4, <3>1
      <3>3. Tail(ps)[i] = ps[i + 1]
        BY <1>3, <2>3
      <3> QED BY <2>1, <3>1, <3>2, <3>3, Zenon
    <2>4. i = 0 \/ i \in 1..n
      OBVIOUS
    <2> QED BY <2>2, <2>3, <2>4, Zenon
  <1>6. Film(t, Shown(cv, Head(ps)), Tail(ps))
    <2> DEFINE u == [i \in 0..n |-> IF i = 0 THEN Shown(cv, Head(ps))
                                    ELSE Shown(t[i - 1], Tail(ps)[i])]
    <2>1. \A i \in 0..n : t[i] = u[i]
      BY <1>5
    <2> HIDE DEF u
    <2>2. t = [i \in 0..n |-> t[i]]
      BY <1>4
    <2>3. u = [i \in 0..n |-> u[i]]
      BY DEF u
    <2>4. t = u
      BY <2>1, <2>2, <2>3
    <2> QED BY <1>2, <2>4 DEF Film, u
  <1>7. t[n] = pic
    BY <1>1, <1>2, <1>4
  <1> QED BY <1>2, <1>6, <1>7 DEF Leads

LEMMA FilmStep == ASSUME NEW s, NEW cv, NEW ps, Len(ps) \in Nat, Film(s, cv, ps)
                  PROVE  s[0] = cv /\ \A i \in 1..Len(ps) : s[i] = Shown(s[i - 1], ps[i])
  <1>1. s[0] = cv
    BY DEF Film
  <1>2. ASSUME NEW i \in 1..Len(ps) PROVE s[i] = Shown(s[i - 1], ps[i])
    <2>1. i \in 0..Len(ps) /\ i # 0
      OBVIOUS
    <2>2. s[i] = IF i = 0 THEN cv ELSE Shown(s[i - 1], ps[i])
      BY <2>1, Zenon DEF Film
    <2> QED BY <2>1, <2>2, Zenon
  <1> QED BY <1>1, <1>2

LEMMA LeadsTwo == ASSUME NEW cv, NEW a, NEW b, NEW p, p = Shown(Shown(cv, a), b)
                  PROVE  Leads(cv, <<a, b>>, p)
  <1>1. PICK ps : ps = <<a, b>>
    OBVIOUS
  <1>2. Len(ps) = 2 /\ ps[1] = a /\ ps[2] = b
    BY <1>1
  <1>3. PICK s : s = [i \in 0..2 |-> IF i = 0 THEN cv ELSE IF i = 1 THEN Shown(cv, a) ELSE p]
    OBVIOUS
  <1>4. s[0] = cv /\ s[1] = Shown(cv, a) /\ s[2] = p
    BY <1>3
  <1> DEFINE u == [i \in 0..2 |-> IF i = 0 THEN cv ELSE Shown(s[i - 1], ps[i])]
  <1>5. u[0] = cv /\ u[1] = Shown(s[0], ps[1]) /\ u[2] = Shown(s[1], ps[2])
    OBVIOUS
  <1>6. u[0] = s[0] /\ u[1] = s[1] /\ u[2] = s[2]
    BY <1>2, <1>4, <1>5, Zenon
  <1>7. \A i \in 0..2 : u[i] = s[i]
    <2>1. \A i \in 0..2 : i = 0 \/ i = 1 \/ i = 2
      OBVIOUS
    <2> QED BY <1>6, <2>1, Zenon
  <1>8. s = [i \in 0..2 |-> s[i]]
    BY <1>3
  <1>9. u = [i \in 0..2 |-> u[i]]
    OBVIOUS
  <1> HIDE DEF u
  <1>10. s = u
    BY <1>7, <1>8, <1>9
  <1>11. Film(s, cv, ps)
    BY <1>2, <1>10 DEF Film, u
  <1> QED BY <1>1, <1>2, <1>4, <1>11 DEF Leads

LEMMA LeadsOne == ASSUME NEW cv, NEW a PROVE Leads(cv, <<a>>, Shown(cv, a))
  <1>1. PICK S : S = {a}
    OBVIOUS
  <1>2. <<>> \in Seq(S) /\ Append(<<>>, a) = <<a>>
    OBVIOUS
  <1>3. Leads(cv, <<>>, cv)
    BY LeadsNow
  <1>4. Leads(cv, Append(<<>>, a), Shown(cv, a))
    BY <1>2, <1>3, LeadsOn, Zenon
  <1> QED BY <1>2, <1>4

LEMMA LeadsCat ==
  ASSUME NEW M, NEW ps \in Seq(M), NEW qs \in Seq(M), NEW cv, NEW mid, NEW pic,
         Leads(cv, ps, mid), Leads(mid, qs, pic)
  PROVE  Leads(cv, ps \o qs, pic)
  <1>1. PICK s : Film(s, cv, ps) /\ s[Len(ps)] = mid
    BY DEF Leads
  <1>2. PICK t : Film(t, mid, qs) /\ t[Len(qs)] = pic
    BY DEF Leads
  <1>3. PICK m \in Nat, n \in Nat : m = Len(ps) /\ n = Len(qs)
    OBVIOUS
  <1>4. PICK all : all = ps \o qs
    OBVIOUS
  <1>5. /\ Len(all) = m + n
        /\ \A i \in 1..m : all[i] = ps[i]
        /\ \A i \in m + 1..m + n : all[i] = qs[i - m]
    BY <1>3, <1>4
  <1>6. PICK u : u = [i \in 0..m + n |-> IF i <= m THEN s[i] ELSE t[i - m]]
    OBVIOUS
  <1>7. s[0] = cv /\ t[0] = mid
    BY <1>1, <1>2, <1>3 DEF Film
  <1>8. \A i \in 0..m + n : u[i] = IF i = 0 THEN cv ELSE Shown(u[i - 1], all[i])
    <2> SUFFICES ASSUME NEW i \in 0..m + n
                 PROVE  u[i] = IF i = 0 THEN cv ELSE Shown(u[i - 1], all[i])
      OBVIOUS
    <2>1. CASE i = 0
      BY <1>6, <1>7, <2>1
    <2>2. CASE i \in 1..m
      <3>1. i # 0 /\ u[i] = s[i] /\ u[i - 1] = s[i - 1]
        BY <1>6, <2>2
      <3>2. s[i] = Shown(s[i - 1], ps[i])
        BY <1>1, <1>3, <2>2, FilmStep
      <3>3. all[i] = ps[i]
        BY <1>5, <2>2
      <3> QED BY <3>1, <3>2, <3>3, Zenon
    <2>3. CASE i \in m + 1..m + n
      <3>1. PICK k \in 1..n : k = i - m
        BY <2>3
      <3>2. t[k] = Shown(t[k - 1], qs[k])
        BY <1>2, <1>3, <3>1, FilmStep
      <3>3. i # 0 /\ u[i] = t[k]
        BY <1>6, <2>3, <3>1
      <3>4. all[i] = qs[k]
        BY <1>5, <2>3, <3>1
      <3>5. u[i - 1] = t[k - 1]
        <4>1. CASE k = 1
          <5>1. i - 1 = m /\ m \in 0..m + n /\ k - 1 = 0
            BY <2>3, <3>1, <4>1
          <5>2. u[m] = s[m]
            BY <1>6, <5>1
          <5> QED BY <1>1, <1>3, <1>7, <5>1, <5>2
        <4>2. CASE k # 1
          <5>1. i - 1 \in 0..m + n /\ ~(i - 1 <= m) /\ i - 1 - m = k - 1
            BY <2>3, <3>1, <4>2
          <5> QED BY <1>6, <5>1
        <4> QED BY <4>1, <4>2
      <3> QED BY <3>2, <3>3, <3>4, <3>5, Zenon
    <2>4. i = 0 \/ i \in 1..m \/ i \in m + 1..m + n
      OBVIOUS
    <2> QED BY <2>1, <2>2, <2>3, <2>4, Zenon
  <1>9. Film(u, cv, all)
    <2> DEFINE v == [i \in 0..m + n |-> IF i = 0 THEN cv ELSE Shown(u[i - 1], all[i])]
    <2>1. \A i \in 0..m + n : u[i] = v[i]
      BY <1>8
    <2> HIDE DEF v
    <2>2. u = [i \in 0..m + n |-> u[i]]
      BY <1>6
    <2>3. v = [i \in 0..m + n |-> v[i]]
      BY DEF v
    <2>4. u = v
      BY <2>1, <2>2, <2>3
    <2> QED BY <1>5, <2>4 DEF Film, v
  <1>10. u[m + n] = pic
    <2>1. CASE n = 0
      <3>1. u[m] = s[m] /\ m + n = m
        BY <1>6, <2>1
      <3> QED BY <1>1, <1>2, <1>3, <1>7, <2>1, <3>1
    <2>2. CASE n # 0
      <3>1. m + n \in 0..m + n /\ ~(m + n <= m) /\ m + n - m = n
        BY <2>2
      <3> QED BY <1>2, <1>3, <1>6, <3>1
    <2> QED BY <2>1, <2>2
  <1> QED BY <1>4, <1>5, <1>9, <1>10 DEF Leads

-----------------------------------------------------------------------------
(* Updates drawn one after the other.                                       *)

Runs(cv, us, pic) ==
  \E s : /\ s[0] = cv /\ s[Len(us)] = pic
         /\ \A i \in 1..Len(us) : Leads(s[i - 1], us[i], s[i])

LEMMA RunsAfter ==
  ASSUME NEW us, Len(us) \in Nat, \A i \in 1..Len(us) : Len(us[i]) \in Nat,
         NEW cv, NEW p, Runs(cv, us, p)
  PROVE  AfterAll(cv, us) = p
  <1>1. PICK s : /\ s[0] = cv /\ s[Len(us)] = p
                 /\ \A i \in 1..Len(us) : Leads(s[i - 1], us[i], s[i])
    BY DEF Runs
  <1> DEFINE n == Len(us)
             t == [i \in 0..n |-> s[i]]
             pic == CHOOSE pic : pic = [i \in 0..n |->
                      IF i = 0 THEN cv ELSE After(pic[i - 1], us[i])]
             T == {i \in 0..n : pic[i] # s[i]}
  <1>2. \A i \in 1..n : After(s[i - 1], us[i]) = s[i]
    BY <1>1, LeadsAfter
  <1>3. pic = [i \in 0..n |-> IF i = 0 THEN cv ELSE After(pic[i - 1], us[i])]
    <2> DEFINE w == [i \in 0..n |-> IF i = 0 THEN cv ELSE After(t[i - 1], us[i])]
    <2>1. ASSUME NEW i \in 0..n PROVE t[i] = w[i]
      <3>1. CASE i = 0
        BY <1>1, <3>1
      <3>2. CASE i \in 1..n
        <4>1. i # 0 /\ i - 1 \in 0..n
          BY <3>2
        <4>2. t[i - 1] = s[i - 1] /\ t[i] = s[i]
          BY <4>1
        <4>3. w[i] = After(t[i - 1], us[i])
          BY <4>1
        <4> QED BY <1>2, <3>2, <4>2, <4>3, Zenon
      <3>3. i = 0 \/ i \in 1..n
        OBVIOUS
      <3> QED BY <3>1, <3>2, <3>3, Zenon
    <2>2. t = [i \in 0..n |-> t[i]]
      OBVIOUS
    <2>3. w = [i \in 0..n |-> w[i]]
      OBVIOUS
    <2> HIDE DEF t, w
    <2>4. t = w
      BY <2>1, <2>2, <2>3
    <2>5. t = [i \in 0..n |-> IF i = 0 THEN cv ELSE After(t[i - 1], us[i])]
      BY <2>4 DEF w
    <2>6. \E x : x = [i \in 0..n |-> IF i = 0 THEN cv ELSE After(x[i - 1], us[i])]
      BY <2>5
    <2> QED BY <2>6, Zenon
  <1>4. AfterAll(cv, us) = pic[n]
    BY Zenon DEF AfterAll
  <1> HIDE DEF pic
  <1>5. ASSUME T # {} PROVE FALSE
    <2>1. PICK i \in T : \A j \in T : i <= j
      <3>1. T \in SUBSET Nat
        OBVIOUS
      <3> HIDE DEF T
      <3> QED BY <1>5, <3>1, Smallest
    <2>2. i # 0
      BY <1>1, <1>3, <2>1
    <2>3. i \in 1..n /\ i - 1 \in 0..n /\ pic[i - 1] = s[i - 1]
      BY <2>1, <2>2
    <2>4. pic[i] = After(pic[i - 1], us[i])
      BY <1>3, <2>1, <2>2
    <2> QED BY <1>2, <2>1, <2>3, <2>4
  <1> QED BY <1>1, <1>4, <1>5

LEMMA RunsNow == ASSUME NEW cv, NEW p PROVE Runs(cv, <<>>, p) <=> p = cv
  <1>1. ASSUME Runs(cv, <<>>, p) PROVE p = cv
    BY <1>1 DEF Runs
  <1>2. Runs(cv, <<>>, cv)
    <2>1. PICK s : s = [i \in 0..0 |-> cv]
      OBVIOUS
    <2>2. s[0] = cv /\ Len(<<>>) = 0
      BY <2>1
    <2> QED BY <2>2 DEF Runs
  <1> QED BY <1>1, <1>2

LEMMA RunsOn ==
  ASSUME NEW M, NEW us \in Seq(M), NEW u, NEW cv, NEW p, NEW q, Runs(cv, us, p), Leads(p, u, q)
  PROVE  Runs(cv, Append(us, u), q)
  <1>1. PICK s : /\ s[0] = cv /\ s[Len(us)] = p
                 /\ \A i \in 1..Len(us) : Leads(s[i - 1], us[i], s[i])
    BY DEF Runs
  <1>2. PICK n \in Nat : n = Len(us)
    OBVIOUS
  <1>3. PICK all : all = Append(us, u)
    OBVIOUS
  <1>4. Len(all) = n + 1 /\ all[n + 1] = u /\ \A i \in 1..n : all[i] = us[i]
    BY <1>2, <1>3
  <1>5. PICK t : t = [i \in 0..n + 1 |-> IF i = n + 1 THEN q ELSE s[i]]
    OBVIOUS
  <1>6. t[0] = cv /\ t[n + 1] = q /\ t[n] = p
    BY <1>1, <1>2, <1>5
  <1>7. ASSUME NEW i \in 1..n + 1 PROVE Leads(t[i - 1], all[i], t[i])
    <2>1. CASE i = n + 1
      <3>1. i - 1 = n
        BY <2>1
      <3>2. t[i - 1] = p /\ t[i] = q /\ all[i] = u
        BY <1>4, <1>6, <2>1, <3>1
      <3> QED BY <3>2
    <2>2. CASE i \in 1..n
      <3>1. t[i - 1] = s[i - 1] /\ t[i] = s[i]
        BY <1>5, <2>2
      <3>2. all[i] = us[i] /\ Leads(s[i - 1], us[i], s[i])
        BY <1>1, <1>2, <1>4, <2>2
      <3> QED BY <3>1, <3>2
    <2>3. i = n + 1 \/ i \in 1..n
      OBVIOUS
    <2> QED BY <2>1, <2>2, <2>3
  <1> QED BY <1>3, <1>4, <1>6, <1>7 DEF Runs

LEMMA RunsFrom ==
  ASSUME NEW M, NEW us \in Seq(M), us # <<>>, NEW cv, NEW p, Runs(cv, us, p)
  PROVE  \E mid : Leads(cv, Head(us), mid) /\ Runs(mid, Tail(us), p)
  <1>1. PICK s : /\ s[0] = cv /\ s[Len(us)] = p
                 /\ \A i \in 1..Len(us) : Leads(s[i - 1], us[i], s[i])
    BY DEF Runs
  <1>2. PICK n \in Nat : n = Len(Tail(us)) /\ Len(us) = n + 1
    OBVIOUS
  <1>3. PICK rs : rs = Tail(us)
    OBVIOUS
  <1>4. (\A i \in 1..n : rs[i] = us[i + 1]) /\ Head(us) = us[1]
    BY <1>2, <1>3
  <1>5. Leads(cv, Head(us), s[1])
    <2>1. Leads(s[1 - 1], us[1], s[1])
      BY <1>1, <1>2
    <2> QED BY <1>1, <1>4, <2>1
  <1>6. PICK t : t = [i \in 0..n |-> s[i + 1]]
    OBVIOUS
  <1>7. t[0] = s[1] /\ t[n] = p
    BY <1>1, <1>2, <1>6
  <1>8. ASSUME NEW i \in 1..n PROVE Leads(t[i - 1], rs[i], t[i])
    <2>1. t[i - 1] = s[i] /\ t[i] = s[i + 1]
      BY <1>6
    <2>2. i + 1 \in 1..Len(us) /\ i + 1 - 1 = i
      BY <1>2
    <2>3. Leads(s[i], us[i + 1], s[i + 1])
      BY <1>1, <2>2
    <2> QED BY <1>4, <2>1, <2>3
  <1>9. Runs(s[1], rs, p)
    BY <1>2, <1>3, <1>7, <1>8 DEF Runs
  <1> QED BY <1>3, <1>5, <1>9

-----------------------------------------------------------------------------
(* The picture.                                                             *)

\* Sequences of packets, taken apart and put together.
LEMMA Joins == ASSUME NEW S, NEW q \in Seq(S), NEW c \in Seq(S), NEW d \in Seq(S), NEW m \in S
               PROVE  /\ <<m>> \in Seq(S) /\ q \o c \in Seq(S) /\ q \o c \o d \in Seq(S)
                      /\ q \o <<>> = q /\ <<>> \o q = q
                      /\ <<m>> \o q \in Seq(S) /\ <<m>> \o q # <<>>
                      /\ Head(<<m>> \o q) = m /\ Tail(<<m>> \o q) = q
                      /\ <<m>> \o q \o c \o d = <<m>> \o (q \o c \o d)
                      /\ c \o q \o <<m>> = c \o Append(q, m)
                      /\ q # <<>> => <<Head(q)>> \o Tail(q) = q
  <1>1. <<m>> \in Seq(S)
    OBVIOUS
  <1>2. q \o c \in Seq(S) /\ <<m>> \o q \in Seq(S) /\ <<m>> \o q # <<>>
    BY <1>1
  <1>3. q \o c \o d \in Seq(S)
    BY <1>2
  <1>4. q \o <<>> = q /\ <<>> \o q = q
    BY ConcatEmptySeq
  <1>5. Head(<<m>> \o q) = m
    OBVIOUS
  <1>6. Tail(<<m>> \o q) = q
    OBVIOUS
  <1>7. <<m>> \o q \o c \o d = <<m>> \o (q \o c \o d)
    <2>1. (<<m>> \o q) \o c = <<m>> \o (q \o c)
      BY <1>1, ConcatAssociative
    <2>2. (<<m>> \o (q \o c)) \o d = <<m>> \o ((q \o c) \o d)
      BY <1>1, <1>2, ConcatAssociative
    <2> QED BY <2>1, <2>2, Zenon
  <1>8. c \o q \o <<m>> = c \o Append(q, m)
    <2>1. (c \o q) \o <<m>> = c \o (q \o <<m>>)
      BY <1>1, ConcatAssociative
    <2>2. Append(q, m) = q \o <<m>>
      BY AppendIsConcat
    <2> QED BY <2>1, <2>2, Zenon
  <1>9. q # <<>> => <<Head(q)>> \o Tail(q) = q
    OBVIOUS
  <1> QED BY <1>1, <1>2, <1>3, <1>4, <1>5, <1>6, <1>7, <1>8, <1>9

LEMMA PacketsJoin == ASSUME NEW s \in Seq(Packets), NEW t \in Seq(Packets)
                     PROVE  /\ \A u \in Seq(Packets) : s \o t \o u = s \o (t \o u)
                            /\ \A m \in Packets : /\ s \o t \o <<m>> = s \o Append(t, m)
                                                  /\ s \o Append(t, m) \in Seq(Packets)
  <1>1. ASSUME NEW u \in Seq(Packets) PROVE s \o t \o u = s \o (t \o u)
    BY ConcatAssociative
  <1>2. ASSUME NEW m \in Packets
        PROVE  s \o t \o <<m>> = s \o Append(t, m) /\ s \o Append(t, m) \in Seq(Packets)
    <2>1. PICK one, v : one = <<m>> /\ v = Append(t, m)
      OBVIOUS
    <2>2. one \in Seq(Packets) /\ v \in Seq(Packets) /\ v = t \o one
      BY <2>1, AppendIsConcat
    <2>3. s \o t \o one = s \o v
      BY <1>1, <2>2
    <2>4. s \o v \in Seq(Packets)
      BY <2>2
    <2> QED BY <2>1, <2>3, <2>4
  <1> QED BY <1>1, <1>2

Active == server = "up" /\ browser = "open" /\ snd \in {"recv", "send"}

\* Upcoming, part by part.
InSender == IF snd = "send" THEN <<msg>> ELSE <<>>
InReader == IF rd = "send" THEN <<pkt>> ELSE <<>>

LEMMA UpcomingParts == Upcoming = InSender \o queue \o InReader \o rest
  BY DEF Upcoming, InSender, InReader

LEMMA PartsType == ASSUME Typed
                   PROVE  /\ InSender \in Seq(Packets) /\ InReader \in Seq(Packets)
                          /\ Upcoming \in Seq(Packets)
  <1>1. <<>> \in Seq(Packets) /\ <<msg>> \in Seq(Packets) /\ <<pkt>> \in Seq(Packets)
    BY DEF Typed
  <1>2. InSender \in Seq(Packets) /\ InReader \in Seq(Packets)
    BY <1>1 DEF InSender, InReader
  <1>3. InSender \o queue \in Seq(Packets)
    BY <1>2 DEF Typed
  <1>4. InSender \o queue \o InReader \in Seq(Packets)
    BY <1>2, <1>3
  <1>5. Upcoming \in Seq(Packets)
    BY <1>4, UpcomingParts DEF Typed
  <1> QED BY <1>2, <1>5

PictureInv ==
  /\ mn = "setup" => canvas = seen /\ queue = <<>> /\ stream = <<>>
  /\ Active => \E p : Leads(canvas, Upcoming, p) /\ Runs(p, stream, seen)

LEMMA PictureInit == Init => PictureInv
  BY DEF Init, PictureInv, Active

\* An update turns what the client has seen into the framebuffer.
LEMMA UpdateIs ==
  ASSUME Typed, NEW rects, rects \in Updates \/ rects = <<Part(Cells)>>
  PROVE  Leads(seen, rects, fb)
  <1> USE DEF Typed
  <1>1. ASSUME NEW cv \in Strips PROVE Shown(cv, Part(Differing(cv, fb))) = fb
    <2>1. PICK d : d = Differing(cv, fb)
      OBVIOUS
    <2>2. Shown(cv, Part(d)) = [c \in Cells |-> IF c \in d THEN fb[c] ELSE cv[c]]
      BY <2>1 DEF Shown, Part, Raw, Differing
    <2>3. \A c \in Cells : (IF c \in d THEN fb[c] ELSE cv[c]) = fb[c]
      BY <2>1 DEF Differing
    <2>4. [c \in Cells |-> IF c \in d THEN fb[c] ELSE cv[c]] = [c \in Cells |-> fb[c]]
      BY <2>3
    <2>5. fb = [c \in Cells |-> fb[c]]
      BY DEF Strips
    <2> QED BY <2>1, <2>2, <2>4, <2>5
  <1>2. Shown(seen, Part(Cells)) = fb
    <2>1. Shown(seen, Part(Cells)) = [c \in Cells |-> fb[c]]
      BY DEF Shown, Part, Raw
    <2> QED BY <2>1 DEF Strips
  <1>3. CASE rects = <<Part(Cells)>>
    BY <1>2, <1>3, LeadsOne
  <1>4. ASSUME NEW i \in Cells, NEW j \in Cells,
               rects = <<CopyRect(i, j), Part(Differing(Shown(seen, CopyRect(i, j)), fb))>>
        PROVE  Leads(seen, rects, fb)
    <2>1. PICK a, cv, b : a = CopyRect(i, j) /\ cv = Shown(seen, a) /\ b = Part(Differing(cv, fb))
      OBVIOUS
    <2>2. cv \in Strips
      BY <2>1, CopyType, ShownType
    <2>3. fb = Shown(Shown(seen, a), b)
      BY <1>1, <2>1, <2>2
    <2>4. rects = <<a, b>>
      BY <1>4, <2>1
    <2> QED BY <2>3, <2>4, LeadsTwo
  <1>5. rects \in Updates => \/ rects = <<Part(Cells)>>
                            \/ \E i \in Cells, j \in Cells :
                                 rects = <<CopyRect(i, j),
                                           Part(Differing(Shown(seen, CopyRect(i, j)), fb))>>
    BY UpdatesAre
  <1> QED BY <1>3, <1>4, <1>5

LEMMA PictureStep ==
  ASSUME Typed, FlagInv, PictureInv, [Next]_vars
  PROVE  PictureInv'
  <1> DEFINE Waits == canvas = seen /\ queue = <<>> /\ stream = <<>>
             Goal == \E p : Leads(canvas, Upcoming, p)' /\ Runs(p, stream, seen)'
  <1>1. mn' = "setup" => Waits'
    <2> SUFFICES ASSUME mn' = "setup" PROVE Waits'
      OBVIOUS
    <2>1. mn = "setup"
      BY DEF Next, Start, SetupFails, Reader, RdCheck, RdUpdate, RdEnd, RdRect, RdRectsEnd,
             RdSend, RdSendFails, RdRequest, RdStop, RdDrop, RdFrame, Sender, SndRecv,
             SndRecvEnd, SndSend, SndSendToNobody, SndStop, SndDrop, SndFrame, Main, MnNext,
             MnStreamEnds, MnStore, MnAbortSender, MnAbortReader, ScreenChanges, ServerAnswers,
             ServerFrame, ServerEnds, BrowserCloses, ConnectionLost, BrFrame, vars
    <2>2. Waits /\ server = "down" /\ rd = "none" /\ snd = "none" /\ aborted = FALSE
      BY <2>1 DEF PictureInv, Typed, FlagInv
    <2>3. CASE Start \/ SetupFails \/ Main
      BY <2>1, <2>3 DEF Start, SetupFails, Main, MnNext, MnStreamEnds, MnStore, MnAbortSender,
                        MnAbortReader
    <2>4. ~Reader /\ ~Sender /\ ~ServerAnswers /\ ~ServerEnds
      BY <2>2 DEF Reader, RdCheck, RdUpdate, RdEnd, RdRect, RdRectsEnd, RdSend, RdSendFails,
             RdRequest, RdStop, RdDrop, Sender, SndRecv, SndRecvEnd, SndSend, SndSendToNobody,
             SndStop, SndDrop, ServerAnswers, ServerEnds
    <2>5. CASE ScreenChanges \/ BrowserCloses \/ ConnectionLost \/ UNCHANGED vars
      BY <2>2, <2>5 DEF ScreenChanges, ServerFrame, BrowserCloses, ConnectionLost, BrFrame,
                        senderVars, serverVars, vars
    <2> QED BY <2>3, <2>4, <2>5 DEF Next
  <1>2. SUFFICES ASSUME Active' PROVE Goal
    BY <1>1 DEF PictureInv
  <1> HIDE DEF Waits
  <1>3. CASE Start
    <2>1. Upcoming' = <<>> /\ canvas' = seen /\ stream' = <<>> /\ seen' = seen
      <3>1. mn = "setup" /\ rd' = "spawned" /\ snd' = "recv"
            /\ UNCHANGED <<canvas, seen, queue, stream, rest>>
        BY <1>3 DEF Start
      <3>2. canvas = seen /\ queue = <<>> /\ stream = <<>> /\ rest = <<>>
        BY <3>1 DEF PictureInv, FlagInv
      <3>3. Upcoming' = <<>> \o <<>> \o <<>> \o <<>>
        BY <3>1, <3>2 DEF Upcoming
      <3>4. <<>> \o <<>> \o <<>> \o <<>> = <<>>
        OBVIOUS
      <3> QED BY <3>1, <3>2, <3>3, <3>4
    <2>2. Leads(canvas', <<>>, canvas') /\ Runs(canvas', <<>>, canvas')
      BY LeadsNow, RunsNow
    <2>3. PICK cv : cv = canvas'
      OBVIOUS
    <2>4. Leads(canvas, Upcoming, cv)' /\ Runs(cv, stream, seen)'
      BY <2>1, <2>2, <2>3
    <2> QED BY <2>4
  <1>4. ~Start => Active
    <2> SUFFICES ASSUME ~Start PROVE Active
      OBVIOUS
    <2>1. server = "up"
      BY <1>2 DEF Active, Next, SetupFails, Reader, RdCheck, RdUpdate, RdEnd, RdRect,
             RdRectsEnd, RdSend, RdSendFails, RdRequest, RdStop, RdDrop, RdFrame, Sender,
             SndRecv, SndRecvEnd, SndSend, SndSendToNobody, SndStop, SndDrop, SndFrame, Main,
             MnNext, MnStreamEnds, MnStore, MnAbortSender, MnAbortReader, MnFrame,
             ScreenChanges, ServerAnswers, ServerFrame, ServerEnds, BrowserCloses,
             ConnectionLost, BrFrame, serverVars, vars
    <2>2. browser = "open"
      BY <1>2 DEF Active, Next, SetupFails, Reader, RdCheck, RdUpdate, RdEnd, RdRect,
             RdRectsEnd, RdSend, RdSendFails, RdRequest, RdStop, RdDrop, RdFrame, Sender,
             SndRecv, SndRecvEnd, SndSend, SndSendToNobody, SndStop, SndDrop, SndFrame, Main,
             MnNext, MnStreamEnds, MnStore, MnAbortSender, MnAbortReader, MnFrame,
             ScreenChanges, ServerAnswers, ServerFrame, ServerEnds, BrowserCloses,
             ConnectionLost, BrFrame, browserVars, vars
    <2>3. snd \in {"recv", "send"}
      BY <1>2 DEF Active, Next, SetupFails, Reader, RdCheck, RdUpdate, RdEnd, RdRect,
             RdRectsEnd, RdSend, RdSendFails, RdRequest, RdStop, RdDrop, RdFrame, Sender,
             SndRecv, SndRecvEnd, SndSend, SndSendToNobody, SndStop, SndDrop, SndFrame, Main,
             MnNext, MnStreamEnds, MnStore, MnAbortSender, MnAbortReader, MnFrame,
             ScreenChanges, ServerAnswers, ServerFrame, ServerEnds, BrowserCloses,
             ConnectionLost, BrFrame, senderVars, vars
    <2> QED BY <2>1, <2>2, <2>3 DEF Active
  <1>5. SUFFICES ASSUME ~Start PROVE Goal
    BY <1>3
  <1>6. PICK p : Leads(canvas, Upcoming, p) /\ Runs(p, stream, seen)
    BY <1>4, <1>5 DEF PictureInv
  <1>7. PICK a, b : a = InSender /\ b = InReader
    OBVIOUS
  <1>8. /\ a \in Seq(Packets) /\ b \in Seq(Packets) /\ queue \in Seq(Packets)
        /\ rest \in Seq(Packets) /\ Upcoming \in Seq(Packets)
        /\ Upcoming = a \o queue \o b \o rest
        /\ Upcoming' = InSender' \o queue' \o InReader' \o rest'
    <2>1. Upcoming' = InSender' \o queue' \o InReader' \o rest'
      BY DEF Upcoming, InSender, InReader
    <2> QED BY <1>7, <2>1, PartsType, UpcomingParts DEF Typed
  \* Nothing moves, or a packet moves on without changing place.
  <1>9. ASSUME Upcoming' = Upcoming, UNCHANGED <<canvas, stream, seen>> PROVE Goal
    <2>1. Leads(canvas, Upcoming, p)' /\ Runs(p, stream, seen)'
      BY <1>6, <1>9
    <2> QED BY <2>1
  <1>10. ASSUME UNCHANGED <<canvas, stream, seen, snd, msg, queue, pkt, rest>>,
                rd = "send" <=> rd' = "send"
         PROVE  Goal
    BY <1>9, <1>10 DEF Upcoming
  <1>11. CASE ServerAnswers
    <2>1. PICK rects : /\ rects \in Updates \/ rects = <<Part(Cells)>>
                       /\ stream' = Append(stream, rects)
      BY <1>11 DEF ServerAnswers
    <2>2. seen' = fb /\ Upcoming' = Upcoming /\ canvas' = canvas
      BY <1>11 DEF ServerAnswers, ServerFrame, readerVars, senderVars, Upcoming
    <2>3. Leads(seen, rects, fb)
      BY <2>1, UpdateIs
    <2>4. Runs(p, Append(stream, rects), fb)
      BY <1>6, <2>3, RunsOn DEF Typed
    <2>5. Leads(canvas, Upcoming, p)' /\ Runs(p, stream, seen)'
      BY <1>6, <2>1, <2>2, <2>4
    <2> QED BY <2>5
  <1>12. CASE RdUpdate
    <2>1. /\ rd = "read" /\ rd' = "rects" /\ stream # <<>> /\ rest = <<>>
          /\ rest' = Head(stream) /\ stream' = Tail(stream)
          /\ UNCHANGED <<canvas, seen, snd, msg, queue>>
      BY <1>12 DEF RdUpdate, RdFrame, serverVars, senderVars, FlagInv
    <2>2. PICK q : Leads(p, Head(stream), q) /\ Runs(q, Tail(stream), seen)
      BY <1>6, <2>1, RunsFrom DEF Typed
    <2>3. b = <<>> /\ InReader' = <<>> /\ InSender' = a
      BY <1>7, <2>1 DEF InReader, InSender
    <2>4. PICK x : x = a \o queue \o <<>>
      OBVIOUS
    <2>5. x \in Seq(Packets) /\ Head(stream) \in Seq(Packets)
      BY <1>8, <2>1, <2>3, <2>4, Joins DEF Typed
    <2>6. Upcoming = x
      BY <1>8, <2>1, <2>3, <2>4, <2>5, ConcatEmptySeq
    <2>7. Upcoming' = x \o Head(stream)
      BY <2>1, <2>3, <2>4, <1>8
    <2>8. Leads(canvas, x \o Head(stream), q)
      BY <1>6, <2>2, <2>5, <2>6, LeadsCat
    <2>9. Leads(canvas, Upcoming, q)' /\ Runs(q, stream, seen)'
      BY <2>1, <2>2, <2>7, <2>8
    <2> QED BY <2>9
  <1>13. CASE RdRect
    <2>1. /\ rd = "rects" /\ rd' = "send" /\ rest # <<>> /\ pkt' = Head(rest) /\ rest' = Tail(rest)
          /\ UNCHANGED <<canvas, stream, seen, snd, msg, queue>>
      BY <1>13 DEF RdRect, RdFrame, serverVars, senderVars
    <2>2. b = <<>> /\ InReader' = <<Head(rest)>> /\ InSender' = a
      BY <1>7, <2>1 DEF InReader, InSender
    <2>3. PICK x, h, t : x = a \o queue /\ h = <<Head(rest)>> /\ t = Tail(rest)
      OBVIOUS
    <2>4. Head(rest) \in Packets /\ t \in Seq(Packets)
      BY <1>8, <2>1, <2>3
    <2>5. x \in Seq(Packets) /\ h \in Seq(Packets) /\ h \o t = rest /\ x \o <<>> = x
      <3>1. x \in Seq(Packets)
        BY <1>8, <2>3
      <3>2. h \o t = rest
        BY <1>8, <2>1, <2>3, <2>4, Joins
      <3> QED BY <2>3, <2>4, <3>1, <3>2, ConcatEmptySeq
    <2>6. Upcoming = x \o rest
      BY <1>8, <2>2, <2>3, <2>5
    <2>7. Upcoming' = x \o h \o t
      BY <2>1, <2>2, <2>3, <1>8
    <2>8. x \o h \o t = x \o (h \o t)
      BY <2>4, <2>5, PacketsJoin
    <2> QED BY <1>9, <2>1, <2>5, <2>6, <2>7, <2>8
  <1>14. CASE RdSend
    <2>1. /\ rd = "send" /\ rd' = "rects" /\ queue' = Append(queue, pkt)
          /\ UNCHANGED <<canvas, stream, seen, snd, msg, rest>>
      BY <1>14 DEF RdSend, RdFrame, serverVars, senderVars
    <2>2. b = <<pkt>> /\ InReader' = <<>> /\ InSender' = a /\ pkt \in Packets
      BY <1>7, <2>1 DEF InReader, InSender, Typed
    <2>3. /\ a \o queue \o <<pkt>> = a \o Append(queue, pkt)
          /\ a \o Append(queue, pkt) \in Seq(Packets)
      BY <1>8, <2>2, PacketsJoin
    <2>4. a \o Append(queue, pkt) \o <<>> = a \o Append(queue, pkt)
      BY <2>3, ConcatEmptySeq
    <2>5. Upcoming' = a \o Append(queue, pkt) \o <<>> \o rest
      BY <2>1, <2>2, <1>8
    <2>6. Upcoming' = Upcoming
      BY <1>8, <2>2, <2>3, <2>4, <2>5
    <2> QED BY <1>9, <2>1, <2>6
  <1>15. CASE RdCheck \/ RdEnd \/ RdRectsEnd \/ RdRequest \/ RdStop \/ RdDrop
    BY <1>10, <1>15 DEF RdCheck, RdEnd, RdRectsEnd, RdRequest, RdStop, RdDrop, RdFrame,
                        serverVars, senderVars
  <1>16. CASE SndRecv
    <2>1. /\ snd = "recv" /\ snd' = "send" /\ queue # <<>> /\ msg' = Head(queue)
          /\ queue' = Tail(queue) /\ UNCHANGED <<canvas, stream, seen, rd, pkt, rest>>
      BY <1>16 DEF SndRecv, SndFrame, serverVars, readerVars
    <2>2. a = <<>> /\ InSender' = <<Head(queue)>> /\ InReader' = b
      BY <1>7, <2>1 DEF InReader, InSender
    <2>3. <<Head(queue)>> \o Tail(queue) = queue /\ <<>> \o queue = queue
      <3>1. Head(queue) \in Packets
        BY <1>8, <2>1
      <3> QED BY <1>8, <2>1, <3>1, Joins
    <2>4. Upcoming' = <<Head(queue)>> \o Tail(queue) \o b \o rest
      BY <2>1, <2>2, <1>8
    <2>5. Upcoming' = Upcoming
      BY <1>8, <2>2, <2>3, <2>4
    <2> QED BY <1>9, <2>1, <2>5
  <1>17. CASE SndSend
    <2>1. /\ snd = "send" /\ snd' = "recv" /\ canvas' = Shown(canvas, msg)
          /\ UNCHANGED <<queue, stream, seen, rd, pkt, rest>>
      BY <1>17 DEF SndSend, SndFrame, serverVars, readerVars
    <2>2. a = <<msg>> /\ InSender' = <<>> /\ InReader' = b /\ msg \in Packets
      BY <1>7, <2>1 DEF InReader, InSender, Typed
    <2>3. PICK x : x = queue \o b \o rest
      OBVIOUS
    <2>4. x \in Seq(Packets) /\ Upcoming = <<msg>> \o x /\ <<>> \o queue = queue
      BY <1>8, <2>2, <2>3, Joins
    <2>5. Upcoming # <<>> /\ Head(Upcoming) = msg /\ Tail(Upcoming) = x
      BY <2>2, <2>4, Joins
    <2>6. Upcoming' = x
      BY <2>1, <2>2, <2>3, <2>4, <1>8
    <2>7. Leads(Shown(canvas, msg), x, p)
      BY <1>6, <1>8, <2>5, LeadsFrom
    <2>8. Leads(canvas, Upcoming, p)' /\ Runs(p, stream, seen)'
      BY <1>6, <2>1, <2>6, <2>7
    <2> QED BY <2>8
  <1>18. CASE SetupFails \/ ServerEnds \/ RdSendFails \/ SndRecvEnd \/ SndSendToNobody \/ SndStop
              \/ SndDrop
    BY <1>2, <1>4, <1>5, <1>18 DEF Active, SetupFails, ServerEnds, RdSendFails, SndRecvEnd,
       SndSendToNobody, SndStop, SndDrop
  <1>19. CASE Main
    BY <1>10, <1>19 DEF Main, MnNext, MnStreamEnds, MnStore, MnAbortSender, MnAbortReader,
       MnFrame, serverVars, senderVars
  <1>20. CASE ScreenChanges \/ BrowserCloses \/ ConnectionLost \/ UNCHANGED vars
    BY <1>10, <1>20 DEF ScreenChanges, ServerFrame, BrowserCloses, ConnectionLost, BrFrame,
       serverVars, readerVars, senderVars, vars
  <1> QED
    BY <1>3, <1>11, <1>12, <1>13, <1>14, <1>15, <1>16, <1>17, <1>18, <1>19, <1>20
    DEF Next, Reader, Sender

LEMMA PictureInvariance == Spec => []PictureInv
  <1>1. Typed /\ FlagInv /\ PictureInv /\ [Next]_vars => PictureInv'
    BY PictureStep
  <1> QED BY <1>1, PictureInit, TypedInvariance, FlagInvariance, PTL DEF Spec

\* While the session lasts, the canvas together with all that is on its way is
\* the picture the server believes its client to have.
THEOREM PictureShown == Spec => []PictureInStep
  <1>1. Typed /\ PictureInv => PictureInStep
    <2> SUFFICES ASSUME Typed, PictureInv, Active
                 PROVE  AfterAll(After(canvas, Upcoming), stream) = seen
      BY DEF PictureInStep, Active
    <2>1. PICK p : Leads(canvas, Upcoming, p) /\ Runs(p, stream, seen)
      BY DEF PictureInv
    <2>2. Len(Upcoming) \in Nat
      BY PartsType
    <2>3. Len(stream) \in Nat /\ \A i \in 1..Len(stream) : Len(stream[i]) \in Nat
      BY DEF Typed
    <2>4. After(canvas, Upcoming) = p
      BY <2>1, <2>2, LeadsAfter
    <2> QED BY <2>1, <2>3, <2>4, RunsAfter
  <1> QED BY <1>1, PictureInvariance, TypedInvariance, PTL

-----------------------------------------------------------------------------
(* Rest: who waits for whom when no task can go on.                         *)

\* A session that has begun has tasks, and a server as long as its reader lives;
\* a browser that closes says so; the handler ends with its sender cancelled; and
\* only a task on its way out clears the flag.
RestInv ==
  /\ inbox \in Seq({"close"})
  /\ mn = "setup" <=> rd = "none"
  /\ mn = "setup" <=> snd = "none"
  /\ rd \notin {"none", "done"} => server # "down"
  /\ browser = "closing" /\ mn \in {"setup", "next"} => inbox # <<>>
  /\ mn \in {"abortReader", "done"} => snd = "done" \/ aborted
  /\ ~running => \/ mn \in {"setup", "abortSender", "abortReader", "done"}
                 \/ rd \in {"drop", "done"} \/ snd \in {"drop", "done"}

LEMMA RestInit == Init => RestInv
  <1>1. <<>> \in Seq({"close"})
    OBVIOUS
  <1> QED BY <1>1 DEF Init, RestInv

\* Every step keeps it.
LEMMA RestStep == Typed /\ RestInv /\ [Next]_vars => RestInv'
  <1> SUFFICES ASSUME Typed, RestInv, [Next]_vars PROVE RestInv'
    OBVIOUS
  <1> USE DEF RestInv
  <1>t. running \in BOOLEAN /\ aborted \in BOOLEAN /\ (mn = "setup" => server = "down")
    BY DEF Typed
  <1>1. CASE Start \/ SetupFails
    BY <1>1 DEF Start, SetupFails, browserVars
  <1>2. CASE Reader
    BY <1>t, <1>2 DEF Reader, RdFrame, senderVars, serverVars, browserVars, RdCheck, RdUpdate,
       RdEnd, RdRect, RdRectsEnd, RdSend, RdSendFails, RdRequest, RdStop, RdDrop
  <1>3. CASE Sender
    BY <1>t, <1>3 DEF Sender, SndFrame, serverVars, readerVars, browserVars, SndRecv, SndRecvEnd,
       SndSend, SndSendToNobody, SndStop, SndDrop
  <1>4. CASE MnNext
    <2>1. /\ mn = "next" /\ mn' = "store" /\ inbox' = Tail(inbox) /\ inbox # <<>>
          /\ UNCHANGED <<server, rd, snd, aborted, running, browser>>
      <3>1. Head(inbox) = "close"
        BY <1>4 DEF MnNext
      <3> QED BY <1>4, <3>1 DEF MnNext, MnFrame, serverVars, senderVars
    <2>2. inbox' \in Seq({"close"})
      BY <2>1
    <2> QED BY <2>1, <2>2
  <1>5. CASE MnStreamEnds \/ MnStore \/ MnAbortSender \/ MnAbortReader
    BY <1>t, <1>5 DEF MnStreamEnds, MnStore, MnAbortSender, MnAbortReader, MnFrame, serverVars,
                      senderVars, browserVars
  <1>6. CASE ScreenChanges \/ ServerAnswers \/ ServerEnds
    <2>1. UNCHANGED <<rd, snd, aborted, running, mn, browser, inbox>>
      BY <1>6 DEF ScreenChanges, ServerAnswers, ServerEnds, ServerFrame, readerVars, senderVars,
                  browserVars
    <2>2. server = "up" /\ server' \in {"up", "eof"}
      BY <1>6 DEF ScreenChanges, ServerAnswers, ServerEnds
    <2> QED BY <2>1, <2>2
  <1>7. CASE BrowserCloses
    <2>1. /\ inbox' = Append(inbox, "close") /\ browser' = "closing"
          /\ UNCHANGED <<server, rd, snd, aborted, running, mn>>
      BY <1>7 DEF BrowserCloses, BrFrame, serverVars, readerVars, senderVars
    <2>2. inbox' \in Seq({"close"}) /\ Len(inbox') # 0 /\ Len(<<>>) = 0
      BY <2>1
    <2>3. inbox' # <<>>
      BY <2>2, Zenon
    <2> QED BY <2>1, <2>2, <2>3
  <1>8. CASE ConnectionLost
    <2>1. <<>> \in Seq({"close"})
      OBVIOUS
    <2> QED BY <1>8, <2>1 DEF ConnectionLost, BrFrame, serverVars, readerVars, senderVars
  <1>9. CASE UNCHANGED vars
    BY <1>9 DEF vars, serverVars, readerVars, senderVars, browserVars
  <1> QED BY <1>1, <1>2, <1>3, <1>4, <1>5, <1>6, <1>7, <1>8, <1>9 DEF Next, Main

LEMMA RestInvariance == Spec => []RestInv
  BY RestInit, RestStep, TypedInvariance, PTL DEF Spec

Tasks == Start \/ SetupFails \/ Reader \/ Sender \/ Main

\* A task that takes a step was ready, and so was a server that answers: at rest
\* only the screen and the browser move.
LEMMA StepsAreReady ==
  Typed => /\ Tasks => ReaderReady \/ SenderReady \/ MainReady
           /\ ServerAnswers => ServerReady
  <1> SUFFICES ASSUME Typed PROVE /\ Tasks => ReaderReady \/ SenderReady \/ MainReady
                                  /\ ServerAnswers => ServerReady
    OBVIOUS
  <1>1. Start \/ SetupFails \/ Main => MainReady
    BY DEF Start, SetupFails, Main, MnNext, MnStreamEnds, MnStore, MnAbortSender, MnAbortReader,
           MainReady
  <1>2. Sender => SenderReady
    BY DEF Sender, SndRecv, SndRecvEnd, SndSend, SndSendToNobody, SndStop, SndDrop, SenderReady
  <1>3. Reader => ReaderReady
    BY DEF Reader, RdCheck, RdUpdate, RdEnd, RdRect, RdRectsEnd, RdSend, RdSendFails, RdRequest,
           RdStop, RdDrop, ReaderReady
  <1>4. ServerAnswers => ServerReady
    <2> SUFFICES ASSUME ServerAnswers PROVE ServerReady
      OBVIOUS
    <2>1. PICK n \in 1..Len(reqs) : fb # seen \/ \E i \in 1..n : reqs[i] = "full"
      BY DEF ServerAnswers
    <2>2. \A i \in 1..n : i \in DOMAIN reqs
      BY <2>1 DEF Typed
    <2> QED BY <2>1, <2>2 DEF ServerAnswers, ServerReady
  <1> QED BY <1>1, <1>2, <1>3, <1>4 DEF Tasks

\* However requests, updates, queue and flag are used, the tasks never come to
\* wait for each other alone, and at rest a session that lasts shows the desktop:
\* for screens and queues of every size and any number of changes.
THEOREM RestsIdle == Spec => []RestIsIdle
  <1>1. Typed /\ FlagInv /\ AlwaysAsked /\ PictureInv /\ RestInv => RestIsIdle
    <2> SUFFICES ASSUME Typed, FlagInv, AlwaysAsked, PictureInv, RestInv, AtRest
                 PROVE  /\ AwaitsServer \/ rd = "done"
                        /\ \/ snd = "recv" /\ AwaitsServer /\ AwaitsBrowser /\ canvas = fb
                           \/ snd = "done"
                        /\ AwaitsBrowser \/ (mn = "done" /\ snd = "done")
      BY DEF RestIsIdle
    <2>1. ~ReaderReady /\ ~SenderReady /\ ~MainReady /\ ~ServerReady
      BY DEF AtRest
    <2>2. mn \in {"next", "done"} /\ rd # "none" /\ snd # "none"
      BY <2>1 DEF MainReady, RestInv, Typed
    <2>3. snd \in {"recv", "done"} /\ (snd = "recv" => queue = <<>> /\ rd # "done" /\ ~aborted)
      BY <2>1, <2>2 DEF SenderReady, Typed
    <2>4. rd # "send"
      <3>1. queue = <<>> => Len(queue) < Cap
        BY VncAssumption
      <3> QED BY <2>1, <2>3, <3>1 DEF ReaderReady
    <2>5. AwaitsServer \/ rd = "done"
      BY <2>1, <2>2, <2>4 DEF ReaderReady, AwaitsServer, RestInv, Typed
    <2>6. AwaitsBrowser \/ (mn = "done" /\ snd = "done")
      <3>1. mn = "next" => AwaitsBrowser
        BY <2>1 DEF MainReady, RestInv, Typed, AwaitsBrowser
      <3>2. mn = "done" => snd = "done"
        BY <2>3 DEF RestInv
      <3> QED BY <2>2, <3>1, <3>2
    <2>7. ASSUME snd = "recv" PROVE AwaitsServer /\ AwaitsBrowser /\ canvas = fb
      <3>1. AwaitsServer /\ AwaitsBrowser
        BY <2>3, <2>5, <2>6, <2>7
      <3>2. running /\ rest = <<>> /\ queue = <<>> /\ stream = <<>>
        BY <2>3, <2>7, <3>1 DEF RestInv, FlagInv, AwaitsServer, AwaitsBrowser
      <3>3. fb = seen
        <4>1. reqs # <<>>
          BY <3>1, <3>2 DEF AlwaysAsked, AwaitsServer
        <4> QED BY <2>1, <3>1, <4>1 DEF ServerReady, AwaitsServer
      <3>4. canvas = seen
        <4>1. PICK p : Leads(canvas, Upcoming, p) /\ Runs(p, stream, seen)
          BY <2>7, <3>1 DEF PictureInv, Active, AwaitsServer, AwaitsBrowser
        <4>2. Upcoming = <<>> \o <<>> \o <<>> \o <<>>
          BY <2>7, <3>1, <3>2 DEF Upcoming, AwaitsServer
        <4>3. <<>> \o <<>> \o <<>> \o <<>> = <<>>
          OBVIOUS
        <4>4. p = canvas /\ p = seen
          BY <3>2, <4>1, <4>2, <4>3, LeadsNow, RunsNow
        <4> QED BY <4>4
      <3> QED BY <3>1, <3>3, <3>4
    <2> QED BY <2>3, <2>5, <2>6, <2>7
  <1> QED BY <1>1, TypedInvariance, FlagInvariance, UpdatesAsked, PictureInvariance,
             RestInvariance, PTL

-----------------------------------------------------------------------------
(* How much a session can still do by itself: as many updates as it has been *)
(* sent, and between two of them as many steps as Left says. What an update   *)
(* holds is not counted before it is read.                                   *)

\* What is left to do for a task where it is.
RdLeft == CASE rd = "send" -> 9 [] rd = "rects" -> 6 [] rd = "request" -> 5
            [] rd \in {"spawned", "check"} -> 4 [] rd = "read" -> 3 [] rd = "stop" -> 2
            [] rd = "drop" -> 1 [] OTHER -> 0
SndLeft == CASE snd = "send" -> 4 [] snd = "recv" -> 3 [] snd = "stop" -> 2
             [] snd = "drop" -> 1 [] OTHER -> 0
MnLeft == CASE mn = "setup" -> 20 [] mn = "next" -> 4 [] mn = "store" -> 3
            [] mn = "abortSender" -> 2 [] mn = "abortReader" -> 1 [] OTHER -> 0

\* ... and with the rectangles, the packets and the messages that await it.
ReaderWork == 4 * Len(rest) + RdLeft
SenderWork == 2 * Len(queue) + SndLeft
MainWork == Len(inbox) + MnLeft

Left == ReaderWork + SenderWork + MainWork

LEMMA WorkIsNat == ASSUME Typed, RestInv
                   PROVE  /\ Len(rest) \in Nat /\ Len(queue) \in Nat /\ Len(inbox) \in Nat
                          /\ Len(stream) \in Nat
                          /\ RdLeft \in Nat /\ SndLeft \in Nat /\ MnLeft \in Nat
                          /\ ReaderWork \in Nat /\ SenderWork \in Nat /\ MainWork \in Nat
  <1>1. /\ Len(rest) \in Nat /\ Len(queue) \in Nat /\ Len(inbox) \in Nat /\ Len(stream) \in Nat
    BY DEF Typed, RestInv
  <1>2. RdLeft \in Nat /\ SndLeft \in Nat /\ MnLeft \in Nat
    BY DEF RdLeft, SndLeft, MnLeft
  <1>3. ReaderWork \in Nat /\ SenderWork \in Nat /\ MainWork \in Nat
    BY <1>1, <1>2 DEF ReaderWork, SenderWork, MainWork
  <1> QED BY <1>1, <1>2, <1>3

LEMMA LeftIsNat == Typed /\ RestInv => Left \in Nat /\ Len(stream) \in Nat
  BY WorkIsNat DEF Left

\* The reader's steps: one begins an update, and every other uses some of it up.
LEMMA ReaderUsesUp ==
  ASSUME Typed, RestInv, Reader
  PROVE  Len(stream') < Len(stream) \/ (stream' = stream /\ Left' < Left)
  <1>t. /\ Len(rest) \in Nat /\ Len(queue) \in Nat /\ Len(stream) \in Nat
        /\ RdLeft \in Nat /\ SndLeft \in Nat
        /\ ReaderWork \in Nat /\ SenderWork \in Nat /\ MainWork \in Nat
    BY WorkIsNat
  <1>1. UNCHANGED <<SndLeft, MainWork>>
    BY DEF Reader, RdCheck, RdUpdate, RdEnd, RdRect, RdRectsEnd, RdSend, RdSendFails, RdRequest,
           RdStop, RdDrop, RdFrame, senderVars, browserVars, SndLeft, MnLeft, MainWork
  <1>2. CASE RdUpdate
    BY <1>2 DEF RdUpdate, Typed
  <1>3. CASE RdSend
    <2>1. /\ stream' = stream /\ rest' = rest /\ RdLeft = 9 /\ RdLeft' = 6
          /\ Len(queue') = Len(queue) + 1
      BY <1>3 DEF RdSend, RdLeft, Typed
    <2>2. \E n \in Nat : ReaderWork' = n /\ n + 3 <= ReaderWork
      BY <1>t, <2>1 DEF ReaderWork
    <2>3. \E n \in Nat : SenderWork' = n /\ n <= SenderWork + 2
      BY <1>t, <1>1, <2>1 DEF SenderWork
    <2> QED BY <1>t, <1>1, <2>1, <2>2, <2>3 DEF Left
  <1>4. CASE RdRect
    <2>1. /\ stream' = stream /\ queue' = queue /\ RdLeft = 6 /\ RdLeft' = 9
          /\ Len(rest') = Len(rest) - 1 /\ Len(rest') \in Nat
      BY <1>4 DEF RdRect, RdLeft, Typed
    <2>2. \E n \in Nat : ReaderWork' = n /\ n < ReaderWork
      BY <1>t, <2>1 DEF ReaderWork
    <2>3. UNCHANGED SenderWork
      BY <1>1, <2>1 DEF SenderWork
    <2> QED BY <1>t, <1>1, <2>1, <2>2, <2>3 DEF Left
  <1>5. CASE \/ RdCheck \/ RdEnd \/ RdRectsEnd \/ RdSendFails \/ RdRequest \/ RdStop \/ RdDrop
    <2>1. UNCHANGED <<stream, rest, queue>>
      BY <1>5 DEF RdCheck, RdEnd, RdRectsEnd, RdSendFails, RdRequest, RdStop, RdDrop
    <2>2. RdLeft' < RdLeft /\ RdLeft' \in Nat
      BY <1>5 DEF RdCheck, RdEnd, RdRectsEnd, RdSendFails, RdRequest, RdStop, RdDrop, RdLeft
    <2>3. \E n \in Nat : ReaderWork' = n /\ n < ReaderWork
      BY <1>t, <2>1, <2>2 DEF ReaderWork
    <2>4. UNCHANGED SenderWork
      BY <1>1, <2>1 DEF SenderWork
    <2> QED BY <1>t, <1>1, <2>1, <2>3, <2>4 DEF Left
  <1> QED BY <1>2, <1>3, <1>4, <1>5 DEF Reader

\* The sender's steps: it takes a packet, or gets on with the one in hand.
LEMMA SenderUsesUp == ASSUME Typed, RestInv, Sender PROVE stream' = stream /\ Left' < Left
  <1>t. /\ Len(queue) \in Nat /\ SndLeft \in Nat
        /\ ReaderWork \in Nat /\ SenderWork \in Nat /\ MainWork \in Nat
    BY WorkIsNat
  <1>1. UNCHANGED <<stream, ReaderWork, MainWork>>
    BY DEF Sender, SndRecv, SndRecvEnd, SndSend, SndSendToNobody, SndStop, SndDrop, SndFrame,
           readerVars, browserVars, RdLeft, ReaderWork, MnLeft, MainWork
  <1>2. /\ Len(queue') \in Nat /\ SndLeft' \in Nat
        /\ SndLeft' + 2 * Len(queue') < SndLeft + 2 * Len(queue)
    <2>1. CASE SndRecv
      <3>1. SndLeft = 3 /\ SndLeft' = 4 /\ Len(queue') = Len(queue) - 1 /\ Len(queue') \in Nat
        BY <2>1 DEF SndRecv, SndLeft, Typed
      <3> QED BY <1>t, <3>1
    <2>2. CASE SndDrop
      <3>1. SndLeft \in {1, 3, 4} /\ SndLeft' = 0 /\ Len(queue') = 0
        BY <2>2 DEF SndDrop, SndLeft
      <3> QED BY <1>t, <3>1
    <2>3. CASE SndRecvEnd \/ SndSend \/ SndSendToNobody \/ SndStop
      <3>1. UNCHANGED queue /\ SndLeft' < SndLeft /\ SndLeft' \in Nat
        BY <2>3 DEF SndRecvEnd, SndSend, SndSendToNobody, SndStop, SndLeft
      <3> QED BY <1>t, <3>1
    <2> QED BY <2>1, <2>2, <2>3 DEF Sender
  <1>3. \E n \in Nat : SenderWork' = n /\ n < SenderWork
    BY <1>t, <1>2 DEF SenderWork
  <1> QED BY <1>t, <1>1, <1>3 DEF Left

\* The handler's steps, setup included.
LEMMA MainUsesUp ==
  ASSUME Typed, RestInv, Start \/ SetupFails \/ Main PROVE stream' = stream /\ Left' < Left
  <1>t. /\ Len(inbox) \in Nat /\ Len(rest) \in Nat /\ Len(queue) \in Nat
        /\ RdLeft \in Nat /\ SndLeft \in Nat /\ MnLeft \in Nat
        /\ ReaderWork \in Nat /\ SenderWork \in Nat /\ MainWork \in Nat
    BY WorkIsNat
  <1>1. stream' = stream /\ rest' = rest /\ queue' = queue
    BY DEF Start, SetupFails, Main, MnNext, MnStreamEnds, MnStore, MnAbortSender, MnAbortReader,
           MnFrame
  <1>2. CASE Start \/ SetupFails
    <2>1. /\ MnLeft = 20 /\ MnLeft' <= 4 /\ MnLeft' \in Nat /\ UNCHANGED inbox
          /\ RdLeft' \in 0..4 /\ SndLeft' \in 0..3
      BY <1>2 DEF Start, SetupFails, browserVars, MnLeft, RdLeft, SndLeft
    <2>2. \E n \in Nat : MainWork' = n /\ n + 16 <= MainWork
      BY <1>t, <2>1 DEF MainWork
    <2>3. \E n \in Nat : ReaderWork' = n /\ n <= ReaderWork + 4
      BY <1>t, <1>1, <2>1 DEF ReaderWork
    <2>4. \E n \in Nat : SenderWork' = n /\ n <= SenderWork + 3
      BY <1>t, <1>1, <2>1 DEF SenderWork
    <2>5. PICK i \in Nat, j \in Nat, k \in Nat :
            /\ ReaderWork' = i /\ SenderWork' = j /\ MainWork' = k
            /\ i <= ReaderWork + 4 /\ j <= SenderWork + 3 /\ k + 16 <= MainWork
      BY <2>2, <2>3, <2>4
    <2> QED BY <1>t, <1>1, <2>5 DEF Left
  <1>3. CASE Main
    <2>1. UNCHANGED SenderWork
      BY <1>1, <1>3 DEF Main, MnNext, MnStreamEnds, MnStore, MnAbortSender, MnAbortReader, MnFrame,
                        senderVars, SndLeft, SenderWork
    <2>2. RdLeft' <= RdLeft /\ RdLeft' \in Nat
      BY <1>3 DEF Main, MnNext, MnStreamEnds, MnStore, MnAbortSender, MnAbortReader, RdLeft
    <2>3. \E n \in Nat : ReaderWork' = n /\ n <= ReaderWork
      BY <1>t, <1>1, <2>2 DEF ReaderWork
    <2>4. \E n \in Nat : MainWork' = n /\ n < MainWork
      <3>1. CASE MnNext
        <4>1. Len(inbox') = Len(inbox) - 1 /\ Len(inbox') \in Nat
          BY <3>1 DEF MnNext, RestInv
        <4>2. MnLeft' <= MnLeft /\ MnLeft' \in Nat
          BY <3>1 DEF MnNext, MnLeft
        <4> QED BY <1>t, <4>1, <4>2 DEF MainWork
      <3>2. CASE MnStreamEnds \/ MnStore \/ MnAbortSender \/ MnAbortReader
        <4>1. UNCHANGED inbox /\ MnLeft' < MnLeft /\ MnLeft' \in Nat
          BY <3>2 DEF MnStreamEnds, MnStore, MnAbortSender, MnAbortReader, browserVars, MnLeft
        <4> QED BY <1>t, <4>1 DEF MainWork
      <3> QED BY <1>3, <3>1, <3>2 DEF Main
    <2>5. PICK i \in Nat, k \in Nat : /\ ReaderWork' = i /\ MainWork' = k
                                      /\ i <= ReaderWork /\ k < MainWork
      BY <2>3, <2>4
    <2> QED BY <1>t, <1>1, <2>1, <2>5 DEF Left
  <1> QED BY <1>2, <1>3

\* Of the others, a server that answers sends one more update, and a browser that
\* closes has one more message read; the end of either connection leaves less.
LEMMA OthersAdd ==
  ASSUME Typed, RestInv,
         ScreenChanges \/ ServerAnswers \/ ServerEnds \/ BrowserCloses \/ ConnectionLost
           \/ UNCHANGED vars
  PROVE  /\ Len(stream') > Len(stream) => ServerAnswers
         /\ Len(stream') = Len(stream) /\ Left' > Left => BrowserCloses
  <1>t. /\ Len(inbox) \in Nat /\ Len(rest) \in Nat /\ Len(stream) \in Nat /\ RdLeft \in Nat
        /\ MnLeft \in Nat /\ ReaderWork \in Nat /\ SenderWork \in Nat /\ MainWork \in Nat
    BY WorkIsNat
  <1>1. CASE ScreenChanges \/ UNCHANGED vars
    <2>1. stream' = stream /\ UNCHANGED <<ReaderWork, SenderWork, MainWork>>
      BY <1>1 DEF ScreenChanges, ServerFrame, vars, serverVars, readerVars, senderVars,
                  browserVars, RdLeft, SndLeft, MnLeft, ReaderWork, SenderWork, MainWork
    <2> QED BY <1>t, <2>1 DEF Left
  <1>2. CASE ServerAnswers
    <2>1. Len(stream') = Len(stream) + 1
      BY <1>2 DEF ServerAnswers, Typed
    <2> QED BY <1>t, <1>2, <2>1
  <1>3. CASE ServerEnds
    <2>1. UNCHANGED <<SenderWork, MainWork, RdLeft>>
      BY <1>3 DEF ServerEnds, senderVars, browserVars, RdLeft, SndLeft, MnLeft, SenderWork, MainWork
    <2>2. Len(stream') = Len(stream)
      BY <1>3 DEF ServerEnds, Typed
    <2>3. Len(rest') \in Nat /\ Len(rest') <= Len(rest)
      <3>1. ASSUME NEW r \in Cut(rest) PROVE Len(r) \in Nat /\ Len(r) <= Len(rest)
        <4>1. PICK n \in 0..Len(rest) : r = SubSeq(rest, 1, n)
          BY DEF Cut
        <4>2. Len(r) = n
          BY <1>t, <4>1 DEF Typed
        <4> QED BY <1>t, <4>2
      <3> QED BY <1>t, <1>3, <3>1 DEF ServerEnds
    <2>4. \E n \in Nat : ReaderWork' = n /\ n <= ReaderWork
      BY <1>t, <2>1, <2>3 DEF ReaderWork
    <2>5. ~(Left' > Left)
      BY <1>t, <2>1, <2>4 DEF Left
    <2> QED BY <1>t, <2>2, <2>5
  <1>4. CASE BrowserCloses
    BY <1>t, <1>4 DEF BrowserCloses, BrFrame
  <1>5. CASE ConnectionLost
    <2>1. stream' = stream /\ UNCHANGED <<ReaderWork, SenderWork, MnLeft>> /\ Len(inbox') = 0
      BY <1>5 DEF ConnectionLost, BrFrame, readerVars, senderVars, RdLeft, SndLeft, MnLeft,
                  ReaderWork, SenderWork
    <2>2. \E n \in Nat : MainWork' = n /\ n <= MainWork
      BY <1>t, <2>1 DEF MainWork
    <2> QED BY <1>t, <2>1, <2>2 DEF Left
  <1> QED BY <1>1, <1>2, <1>3, <1>4, <1>5

\* A step of a task begins one of the updates sent, or uses up what is left of
\* what has been begun; only an answer of the server adds an update, and nothing
\* else but the browser's message that it closes adds work.
StepCounts == /\ Tasks => Len(stream') < Len(stream) \/ (stream' = stream /\ Left' < Left)
              /\ Len(stream') > Len(stream) => ServerAnswers
              /\ Len(stream') = Len(stream) /\ Left' > Left => BrowserCloses
StepsCount == [][StepCounts]_vars

\* No task spins: between two answers of the server, and the browser's one
\* message, a session takes finitely many steps, whatever the updates hold.
THEOREM EveryStepCounts == Spec => [](Left \in Nat /\ Len(stream) \in Nat) /\ StepsCount
  <1>1. Typed /\ RestInv /\ Left \in Nat /\ Len(stream) \in Nat /\ (Left \in Nat)'
          /\ (Len(stream) \in Nat)' /\ [Next]_vars => [StepCounts]_vars
    <2> SUFFICES ASSUME Typed, RestInv, Left \in Nat, Len(stream) \in Nat,
                        (Left \in Nat)', (Len(stream) \in Nat)', [Next]_vars
                 PROVE  StepCounts
      OBVIOUS
    <2>1. CASE Tasks
      <3>1. Len(stream') < Len(stream) \/ (stream' = stream /\ Left' < Left)
        BY <2>1, ReaderUsesUp, SenderUsesUp, MainUsesUp DEF Tasks
      <3>2. Left' \in Nat /\ Len(stream') \in Nat
        OBVIOUS
      <3> QED BY <3>1, <3>2 DEF StepCounts
    <2>2. CASE ~Tasks
      BY <2>2, OthersAdd DEF Next, Tasks, StepCounts
    <2> QED BY <2>1, <2>2
  <1> QED BY <1>1, LeftIsNat, RestInvariance, TypedInvariance, PTL DEF Spec, StepsCount
=============================================================================
