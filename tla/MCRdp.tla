-------------------------------- MODULE MCRdp --------------------------------
(* Small desktops for RdpSession. With tiles of two pixels a 5 x 1 desktop  *)
(* has three tiles, the last one narrower: one dirty tile makes a batch, two*)
(* are over 40% and make a full frame.                                      *)
EXTENDS RdpSession

Frame(w, h, lit) == [w |-> w, h |-> h,
                     pix |-> [i \in 0..w * h - 1 |-> IF i \in lit THEN 1 ELSE Black]]

\* Two sizes with the same number of pixels, and a third.
Wide == {Frame(5, 1, {}), Frame(5, 1, {1})}
DesktopSizes == Wide \cup {Frame(1, 5, {1, 4}), Frame(3, 2, {0, 5})}

AskedSize == [w |-> 3, h |-> 1]

OneDesktop == {Frame(3, 1, {0})}
=============================================================================
