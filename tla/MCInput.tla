------------------------------- MODULE MCInput -------------------------------
(* Small instances of RemoteInput: which keys the user has.                 *)
EXTENDS RemoteInput

\* The right control key has the scancode of the left one and is told from it
\* by the extended bit; KeyA is a key with a character.
ControlRight == [code |-> <<29, 1>>, uni |-> 0]
KeyA == [code |-> <<30, 0>>, uni |-> 97]

OnlyControl == {ControlRight}
OnlyA == {KeyA}
=============================================================================
