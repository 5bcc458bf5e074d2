-------------------------------- MODULE Pane --------------------------------
(* One pane of the page (frontend/app.js): connectToTarget, disconnectPane  *)
(* and the handlers they give a WebSocket. A handler outlives the session it*)
(* was made for: close() only starts the closing handshake, and onclose runs*)
(* when it is over, whatever the pane shows by then. The body, title and    *)
(* latency elements belong to the pane and are shared by all its sessions.  *)
EXTENDS Naturals

CONSTANTS Targets,      \* connections of the directory
          MaxSockets,   \* bound: sessions opened in this pane
          None

ASSUME PaneAssumption ==
  /\ MaxSockets \in Nat
  /\ None \notin Targets \cup 1..MaxSockets

VARIABLES conn,     \* pane.conn
          socket,   \* pane.socket, by its number
          opened,   \* number of sockets opened so far
          ready,    \* readyState of each socket
          target,   \* the connection each socket was opened for
          body,     \* what the body of the pane shows
          title,    \* connection named in the title
          stats     \* text of the latency badge; None while it is hidden

vars == <<conn, socket, opened, ready, target, body, title, stats>>

Sockets == 1..MaxSockets

\* The body: the empty pane, a terminal or canvas of one socket, or the card
\* that says which session has ended.
Empty == [kind |-> "empty"]
Session(s) == [kind |-> "session", socket |-> s]
Card(c) == [kind |-> "card", conn |-> c]

Init == /\ conn = None /\ socket = None /\ opened = 0
        /\ ready = [s \in Sockets |-> "none"] /\ target = [s \in Sockets |-> None]
        /\ body = Empty /\ title = None /\ stats = None

\* WebSocket.close(): a socket that is closed already stays so, without event.
Closing(r) == IF r \in {"connecting", "open"} THEN "closing" ELSE r

KeepsSocket == ready  \* mutant: the old socket is left open

\* disconnectPane, as far as sockets go.
Hangup == IF socket = None THEN ready ELSE [ready EXCEPT ![socket] = Closing(@)]

\* connectToTarget: also what the Reconnect buttons call.
Connect(c) ==
  /\ opened < MaxSockets
  /\ LET s == opened + 1
     IN /\ opened' = s /\ socket' = s /\ body' = Session(s)
        /\ ready' = [Hangup EXCEPT ![s] = "connecting"]
        /\ target' = [target EXCEPT ![s] = c]
  /\ conn' = c /\ title' = c /\ stats' = "connecting"

\* disconnectPane by itself: the Clear button.
Disconnect == /\ ready' = Hangup /\ socket' = None /\ conn' = None
              /\ body' = Empty /\ title' = None /\ stats' = None
              /\ UNCHANGED <<opened, target>>

Unhidden(text) == IF stats = None THEN None ELSE text

OnOpen(s) == /\ ready[s] = "connecting"
             /\ ready' = [ready EXCEPT ![s] = "open"]
             /\ stats' = Unhidden("latency")
             /\ UNCHANGED <<conn, socket, opened, target, body, title>>

OnCloseSilent(s) ==  \* mutant: the body is left alone
  /\ ready[s] \in {"connecting", "open", "closing"}
  /\ ready' = [ready EXCEPT ![s] = "closed"]
  /\ stats' = Unhidden("disconnected")
  /\ UNCHANGED <<conn, socket, opened, target, body, title>>

\* onclose: the connection failed, or ended on either side. (onerror, which
\* comes just before for a failed connection, only sets the badge.)
OnClose(s) == /\ ready[s] \in {"connecting", "open", "closing"}
              /\ ready' = [ready EXCEPT ![s] = "closed"]
              /\ body' = Card(target[s]) /\ stats' = Unhidden("disconnected")
              /\ UNCHANGED <<conn, socket, opened, target, title>>

Next == \/ Disconnect
        \/ \E c \in Targets : Connect(c)
        \/ \E s \in Sockets : OnOpen(s) \/ OnClose(s)

Spec == Init /\ [][Next]_vars

-----------------------------------------------------------------------------
(* Properties.                                                              *)

Live(s) == s \in Sockets /\ ready[s] \in {"connecting", "open"}

\* Type invariant.
TypeOK == /\ conn \in Targets \cup {None} /\ socket \in Sockets \cup {None}
          /\ opened \in 0..MaxSockets
          /\ ready \in [Sockets -> {"none", "connecting", "open", "closing", "closed"}]
          /\ \A s \in Sockets : target[s] \in IF s <= opened THEN Targets ELSE {None}
          /\ \/ body = Empty \/ \E s \in 1..opened : body = Session(s)
             \/ \E c \in Targets : body = Card(c)
          /\ title \in Targets \cup {None}
          /\ stats \in {"connecting", "latency", "disconnected", None}

\* However often the user connects, reconnects and clears, the pane leaves no
\* session open behind its back: a live one is the one it can still close.
OneLiveSession == \A s \in Sockets : Live(s) => socket = s /\ conn = target[s]

\* A session that is over is not shown any more ("Freezes/clears canvas memory
\* on disconnect", CHANGELOG.md:67).
EndedIsCleared == \A s \in Sockets : body = Session(s) => Live(s)

\* The only thing that can take a running session off the screen, besides the
\* user, is the onclose of an earlier session that was still closing when this
\* one was opened.
OnlyLateCloseHides ==
  [][Live(socket) /\ body = Session(socket) /\ body' # body =>
       \/ socket' # socket
       \/ ready'[socket] = "closed"
       \/ \E s \in Sockets \ {socket} : ready[s] = "closing" /\ ready'[s] = "closed"]_vars

\* A running session is on the screen ("1-click immediate session resumption",
\* CHANGELOG.md:68).
LiveIsShown == \A s \in Sockets : ready[s] = "open" => body = Session(s)
=============================================================================
