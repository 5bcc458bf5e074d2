------------------------------ MODULE RdpFrames ------------------------------
(* The frame path of the RDP gateway as operators: process_and_send_frame   *)
(* (protocols/rdp.rs), which compares a frame with the one sent before and  *)
(* sends only what changed, and the canvas of the browser (app.js), which   *)
(* applies what it receives. A frame's pixels are indexed 0, 1, ... row by  *)
(* row, as in the code; a canvas is indexed by <<x, y>>.                    *)
EXTENDS Integers, FiniteSets

CONSTANT Tile  \* TILE_SIZE, 64 in the code

ASSUME TileAssumption == Tile \in Nat \ {0}

\* The colour an erased canvas has.
Black == 0

Smaller(a, b) == IF a < b THEN a ELSE b

\* How many tiles it takes to span n pixels.
TilesAcross(n) == (n + Tile - 1) \div Tile

\* The grid of tiles; those at the right and lower edge may be narrower.
Tiles(w, h) ==
  {[x |-> i * Tile, y |-> j * Tile,
    w |-> Smaller(w - i * Tile, Tile), h |-> Smaller(h - j * Tile, Tile)] :
     i \in 0..TilesAcross(w) - 1, j \in 0..TilesAcross(h) - 1}

Cells(t) == (t.x .. t.x + t.w - 1) \X (t.y .. t.y + t.h - 1)

Screen(w, h) == [x |-> 0, y |-> 0, w |-> w, h |-> h]

\* Where the pixel of a cell is in a frame of width w.
Index(c, w) == c[2] * w + c[1]

DirtyTiles(prev, f) ==
  {t \in Tiles(f.w, f.h) :
     \E c \in Cells(t) : f.pix[Index(c, f.w)] # prev[Index(c, f.w)]}

\* The pixels of a packet: a full frame, or the tiles of one batch.
Paint(cells, f) == [c \in cells |-> f.pix[Index(c, f.w)]]

FullFrame(f) == [paint |-> {Paint(Cells(Screen(f.w, f.h)), f)},
                 prev  |-> [i \in 0..f.w * f.h - 1 |-> f.pix[i]]]

BatchKeepsPrev(dirty, prev, f) ==  \* mutant: the cache is not updated
  [paint |-> {Paint(UNION {Cells(t) : t \in dirty}, f)}, prev |-> prev]

Batch(dirty, prev, f) ==
  LET cells == UNION {Cells(t) : t \in dirty}
      sent == {Index(c, f.w) : c \in cells}
  IN [paint |-> {Paint(cells, f)},
      prev  |-> [i \in DOMAIN prev |-> IF i \in sent THEN f.pix[i] ELSE prev[i]]]

\* What the code does with a frame: the packet it sends, if any, and the frame
\* it remembers. A change of size shows only in the number of pixels.
Process(prev, f) ==
  LET size  == f.w * f.h
      dirty == DirtyTiles(prev, f)
      total == TilesAcross(f.w) * TilesAcross(f.h)
  IN IF Cardinality(DOMAIN f.pix) < size THEN [paint |-> {}, prev |-> prev]
     ELSE IF Cardinality(DOMAIN prev) # size THEN FullFrame(f)
     ELSE IF dirty = {} THEN [paint |-> {}, prev |-> prev]
     ELSE IF Cardinality(dirty) > (total * 2) \div 5 THEN FullFrame(f)
     ELSE Batch(dirty, prev, f)

-----------------------------------------------------------------------------
(* The canvas.                                                              *)

\* An init message sets the size, which erases the canvas.
Erased(w, h) == [c \in Cells(Screen(w, h)) |-> Black]

\* putImageData draws the part of the image that lies on the canvas.
Painted(canvas, paint) ==
  [c \in DOMAIN canvas |-> IF c \in DOMAIN paint THEN paint[c] ELSE canvas[c]]

\* The picture a frame shows.
Picture(f) == Paint(Cells(Screen(f.w, f.h)), f)

\* A canvas that shows a picture, but for parts still as they were erased.
Lacks(canvas, pic) == /\ DOMAIN canvas = DOMAIN pic
                      /\ \A c \in DOMAIN pic : canvas[c] \in {pic[c], Black}
=============================================================================
