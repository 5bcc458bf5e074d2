------------------------------- MODULE Display -------------------------------
(* What a remote desktop session promises its user: the browser shows       *)
(* frames of the desktop, in the order in which the desktop showed them.    *)
(* Frames may be skipped, and the canvas is blank when its size changes; but*)
(* it is never a mixture of two frames, and no frame comes after a newer    *)
(* one. One thing it does not promise: after the canvas was blanked, frames *)
(* may show with parts still blank, until one comes whole again.            *)
EXTENDS Naturals, Sequences

CONSTANTS Frames, Blanks,  \* pictures: of the desktop, and of an empty canvas
          Dark             \* the colour of an empty canvas

VARIABLES canvas,  \* what the browser shows
          due,     \* what is on its way, oldest first: {picture}, or {} for
                   \* something that shows nothing
          faded    \* frames may now arrive with blank parts

displayVars == <<canvas, due, faded>>

DisplayInit == canvas \in Blanks /\ due \in Seq({{b} : b \in Blanks}) /\ ~faded

\* A frame with parts of it blank.
Partial(f) == {h \in [DOMAIN f -> {f[c] : c \in DOMAIN f} \cup {Dark}] :
                 \A c \in DOMAIN f : h[c] \in {f[c], Dark}}

\* The desktop shows another frame.
Paint(f) == due' = Append(due, {f}) /\ UNCHANGED <<canvas, faded>>

\* The oldest of what is on its way arrives.
Show == /\ due # <<>> /\ due' = Tail(due)
        /\ canvas' \in IF Head(due) = {} THEN {canvas} ELSE Head(due)
        /\ UNCHANGED faded

\* t is s with new in the place of a part of it, or of nothing.
Replaces(s, t, new) ==
  \E i \in 0..Len(s) : \E j \in i..Len(s) : t = SubSeq(s, 1, i) \o new \o SubSeq(s, j + 1, Len(s))

\* Something is skipped, and perhaps an empty canvas or a message that shows
\* nothing sent in its place. Frames begin to fade with an empty canvas only.
Skip == /\ \/ \E new \in {<<>>, <<{}>>} : Replaces(due, due', new) /\ (faded' => faded)
           \/ \E b \in Blanks : Replaces(due, due', <<{b}>>)
        /\ faded' \in BOOLEAN
        /\ UNCHANGED canvas

Fade == /\ faded
        /\ \E i \in DOMAIN due, f \in Frames : \E h \in Partial(f) :
             due[i] = {f} /\ due' = [due EXCEPT ![i] = {h}]
        /\ UNCHANGED <<canvas, faded>>

DisplayNext == (\E f \in Frames : Paint(f)) \/ Show \/ Skip \/ Fade

DisplaySpec == DisplayInit /\ [][DisplayNext]_displayVars

\* No canvas is a mixture of frames; and while none fades it shows all of one.
Whole == canvas \in Blanks \/ \E f \in Frames : canvas \in Partial(f)
Sharp == canvas \in Frames \cup Blanks
=============================================================================
