-------------------------------- MODULE Pipe --------------------------------
(* What a terminal tunnel promises its user: the remote program writes      *)
(* numbered chunks, the browser receives them in order, each once, and as   *)
(* long as the pipe is up everything written is eventually received.        *)
EXTENDS Naturals, Sequences

VARIABLES made,  \* how many chunks the remote program has written
          got,   \* the chunks the browser has received
          up     \* neither side has failed or hung up

pipeVars == <<made, got, up>>

PipeInit == made = 0 /\ got = <<>> /\ up \in BOOLEAN

Make == made' = made + 1 /\ UNCHANGED <<got, up>>

Receive == /\ Len(got) < made
           /\ got' = Append(got, Len(got) + 1)
           /\ UNCHANGED <<made, up>>

\* A pipe that goes down may lose what is under way, never reorder it.
GoDown == up /\ up' = FALSE /\ UNCHANGED <<made, got>>

PipeNext == Make \/ Receive \/ GoDown

PipeSafe == PipeInit /\ [][PipeNext]_pipeVars
PipeFair == WF_pipeVars(up /\ Receive)

PipeSpec == PipeSafe /\ PipeFair
=============================================================================
