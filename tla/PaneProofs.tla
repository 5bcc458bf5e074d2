----------------------------- MODULE PaneProofs -----------------------------
(* Proofs about Pane, for any connections and any number of sessions.       *)
EXTENDS Pane, TLAPS

Readiness == {"none", "connecting", "open", "closing", "closed"}

\* Sockets are opened in turn, each for a connection.
SocketsOK == /\ opened \in 0..MaxSockets /\ ready \in [Sockets -> Readiness]
             /\ target \in [Sockets -> Targets \cup {None}]
             /\ \A s \in Sockets : IF s <= opened THEN target[s] \in Targets
                                   ELSE target[s] = None /\ ready[s] = "none"
             /\ socket \in (1..opened) \cup {None} /\ conn \in Targets \cup {None}

\* What is shown as running is the pane's own socket, and runs.
ShownOK == \A s \in Sockets : body = Session(s) => Live(s)

BodyOK == \/ body = Empty \/ \E s \in 1..opened : body = Session(s)
          \/ \E c \in Targets : body = Card(c)

LabelsOK == /\ title \in Targets \cup {None}
            /\ stats \in {"connecting", "latency", "disconnected", None}

Inv == SocketsOK /\ BodyOK /\ LabelsOK /\ ShownOK /\ OneLiveSession

\* A session's body is no card, and names its socket.
LEMMA SessionsDiffer ==
  /\ \A s, t : Session(s) = Session(t) => s = t
  /\ \A s, c : Session(s) # Card(c) /\ Session(s) # Empty
  BY DEF Session, Card, Empty

\* Hanging up touches the pane's socket only, and leaves none running.
LEMMA HangupEndsAll ==
  ASSUME SocketsOK, OneLiveSession
  PROVE  /\ Hangup \in [Sockets -> Readiness]
         /\ \A s \in Sockets : Hangup[s] \notin {"connecting", "open"}
         /\ \A s \in Sockets : ready[s] = "none" => Hangup[s] = "none"
  <1>1. CASE socket = None
    BY <1>1, PaneAssumption DEF SocketsOK, OneLiveSession, Live, Hangup, Sockets
  <1>2. CASE socket # None
    <2>1. socket \in Sockets
      BY <1>2, PaneAssumption DEF SocketsOK, Sockets
    <2>2. Hangup = [ready EXCEPT ![socket] = Closing(ready[socket])]
      BY <1>2 DEF Hangup
    <2>3. /\ Hangup[socket] = Closing(ready[socket])
          /\ \A s \in Sockets : s # socket => Hangup[s] = ready[s]
          /\ Hangup \in [Sockets -> Readiness]
      BY <2>1, <2>2 DEF SocketsOK, Closing, Readiness
    <2>4. \A s \in Sockets : s # socket => ready[s] \notin {"connecting", "open"}
      BY DEF OneLiveSession, Live
    <2>5. /\ Closing(ready[socket]) \notin {"connecting", "open"}
          /\ ready[socket] = "none" => Closing(ready[socket]) = "none"
      BY DEF Closing
    <2> QED BY <2>1, <2>3, <2>4, <2>5
  <1> QED BY <1>1, <1>2

\* An empty pane satisfies the invariant.
LEMMA InitInv == Init => Inv
  BY PaneAssumption, SessionsDiffer
  DEF Init, Inv, SocketsOK, BodyOK, LabelsOK, ShownOK, OneLiveSession, Live, Readiness, Sockets

\* The new session is the only one, and the one shown.
LEMMA ConnectKeeps == ASSUME Inv, NEW c \in Targets, Connect(c) PROVE Inv'
  <1> USE DEF Inv
  <1> DEFINE s == opened + 1
  <1>1. /\ s \in Sockets /\ opened' = s /\ socket' = s /\ body' = Session(s) /\ conn' = c
        /\ ready' = [Hangup EXCEPT ![s] = "connecting"]
        /\ target' = [target EXCEPT ![s] = c]
    BY PaneAssumption DEF Connect, SocketsOK, Sockets
  <1>2. SocketsOK'
    BY <1>1, HangupEndsAll, PaneAssumption DEF SocketsOK, Sockets, Readiness
  <1>3. ShownOK' /\ OneLiveSession'
    BY <1>1, HangupEndsAll, SessionsDiffer DEF ShownOK, OneLiveSession, Live, SocketsOK
  <1>4. BodyOK' /\ LabelsOK'
    BY <1>1, PaneAssumption DEF Connect, BodyOK, LabelsOK, Sockets
  <1> QED BY <1>2, <1>3, <1>4

\* Clearing the pane leaves no session running.
LEMMA DisconnectKeeps == ASSUME Inv, Disconnect PROVE Inv'
  <1> USE DEF Inv
  <1>1. SocketsOK'
    BY HangupEndsAll DEF Disconnect, SocketsOK
  <1>2. ShownOK' /\ OneLiveSession'
    BY HangupEndsAll, SessionsDiffer DEF Disconnect, ShownOK, OneLiveSession, Live
  <1>3. BodyOK' /\ LabelsOK'
    BY DEF Disconnect, BodyOK, LabelsOK
  <1> QED BY <1>1, <1>2, <1>3

\* An opened socket changes labels only.
LEMMA OnOpenKeeps == ASSUME Inv, NEW s \in Sockets, OnOpen(s) PROVE Inv'
  <1> USE DEF Inv
  <1>1. SocketsOK'
    BY DEF OnOpen, SocketsOK, Readiness
  <1>2. ShownOK' /\ OneLiveSession'
    BY DEF OnOpen, ShownOK, OneLiveSession, Live, SocketsOK
  <1>3. BodyOK' /\ LabelsOK'
    BY DEF OnOpen, BodyOK, LabelsOK, Unhidden
  <1> QED BY <1>1, <1>2, <1>3

\* An onclose, late or not, leaves a card and no session of its own.
LEMMA OnCloseKeeps == ASSUME Inv, NEW s \in Sockets, OnClose(s) PROVE Inv'
  <1> USE DEF Inv
  <1>1. SocketsOK'
    BY DEF OnClose, SocketsOK, Readiness
  <1>2. ShownOK' /\ OneLiveSession'
    BY SessionsDiffer DEF OnClose, ShownOK, OneLiveSession, Live, SocketsOK
  <1>3. BodyOK' /\ LabelsOK'
    BY DEF OnClose, BodyOK, LabelsOK, Unhidden, SocketsOK
  <1> QED BY <1>1, <1>2, <1>3

\* Every step keeps the invariant.
LEMMA NextInv == Inv /\ [Next]_vars => Inv'
  <1> SUFFICES ASSUME Inv, [Next]_vars PROVE Inv'
    OBVIOUS
  <1>1. CASE UNCHANGED vars
    BY <1>1 DEF vars, Inv, SocketsOK, BodyOK, LabelsOK, ShownOK, OneLiveSession, Live
  <1> QED BY <1>1, ConnectKeeps, DisconnectKeeps, OnOpenKeeps, OnCloseKeeps DEF Next

\* The inductive invariant.
THEOREM Invariance == Spec => []Inv
  BY InitInv, NextInv, PTL DEF Spec

\* The pane's variables keep their types.
THEOREM TypeCorrect == Spec => []TypeOK
  <1>1. Inv => TypeOK
    BY PaneAssumption DEF Inv, SocketsOK, BodyOK, LabelsOK, TypeOK, Sockets, Readiness
  <1> QED BY <1>1, Invariance, PTL

\* The pane never leaves a session running that it has forgotten.
THEOREM OneSession == Spec => []OneLiveSession
  <1>1. Inv => OneLiveSession
    BY DEF Inv
  <1> QED BY <1>1, Invariance, PTL

\* A session that is over is never what the pane shows.
THEOREM EndedCleared == Spec => []EndedIsCleared
  <1>1. Inv => EndedIsCleared
    BY DEF Inv, ShownOK, EndedIsCleared
  <1> QED BY <1>1, Invariance, PTL

\* Only a predecessor that was still closing hides a running session.
THEOREM HiddenOnlyByLateClose == Spec => OnlyLateCloseHides
  <1>1. Inv /\ [Next]_vars =>
          [Live(socket) /\ body = Session(socket) /\ body' # body =>
             \/ socket' # socket
             \/ ready'[socket] = "closed"
             \/ \E s \in Sockets \ {socket} : ready[s] = "closing" /\ ready'[s] = "closed"]_vars
    <2> SUFFICES ASSUME Inv, Next, Live(socket), body' # body, socket' = socket
                 PROVE  \/ ready'[socket] = "closed"
                        \/ \E s \in Sockets \ {socket} :
                             ready[s] = "closing" /\ ready'[s] = "closed"
      OBVIOUS
    <2>1. ASSUME NEW s \in Sockets, OnClose(s)
          PROVE  \/ ready'[socket] = "closed"
                 \/ \E t \in Sockets \ {socket} : ready[t] = "closing" /\ ready'[t] = "closed"
      BY <2>1 DEF OnClose, Inv, OneLiveSession, Live, SocketsOK
    <2>2. ASSUME NEW s \in Sockets, OnOpen(s) PROVE FALSE
      BY <2>2 DEF OnOpen
    <2>3. ASSUME Disconnect PROVE FALSE
      BY <2>3, PaneAssumption DEF Disconnect, Live, Sockets
    <2>4. ASSUME NEW c \in Targets, Connect(c) PROVE FALSE
      <3>1. socket' = opened + 1
        BY <2>4 DEF Connect
      <3>2. socket \in 1..opened /\ opened \in Nat
        BY PaneAssumption DEF Inv, SocketsOK, Live, Sockets
      <3> QED BY <3>1, <3>2
    <2> QED BY <2>1, <2>2, <2>3, <2>4 DEF Next
  <1> QED BY <1>1, Invariance, PTL DEF Spec, OnlyLateCloseHides
=============================================================================
