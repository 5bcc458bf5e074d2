-------------------------- MODULE RdpSessionProofs --------------------------
(* Proofs about RdpSession, for tiles, desktops and queues of any size. The *)
(* first part is about RdpFrames alone: what process_and_send_frame sends   *)
(* turns a canvas that shows the cached frame into one that shows the new   *)
(* frame. The second follows the messages on their way with the pictures    *)
(* the canvas goes through (Film), and shows that they end in the cache.    *)
(* Then: what the session may rest at, what every step uses up, and that    *)
(* every step is a step of a Display.                                       *)
EXTENDS RdpSession, TLAPS, FiniteSetTheorems, SequenceTheorems

-----------------------------------------------------------------------------
(* Pixels and cells of a frame.                                             *)

Area(w, h) == (0..w - 1) \X (0..h - 1)
Pic(w, h, pix) == [c \in Area(w, h) |-> pix[Index(c, w)]]

\* A row lies wholly before the next.
LEMMA Rows == ASSUME NEW a \in Nat, NEW b \in Nat, NEW w \in Nat, a < b
              PROVE  a * w + w <= b * w
  <1>1. PICK k \in Nat : b = a + 1 + k
    <2>1. b - a - 1 \in Nat /\ b = a + 1 + (b - a - 1)
      OBVIOUS
    <2> QED BY <2>1
  <1>2. k * w \in Nat /\ b * w = a * w + w + k * w
    BY <1>1
  <1>3. a * w \in Nat
    OBVIOUS
  <1> QED BY <1>2, <1>3

LEMMA ScreenIs == ASSUME NEW w \in Nat, NEW h \in Nat PROVE Cells(Screen(w, h)) = Area(w, h)
  BY DEF Cells, Screen, Area

LEMMA PictureIs == ASSUME NEW f, f.w \in Nat, f.h \in Nat PROVE Picture(f) = Pic(f.w, f.h, f.pix)
  BY ScreenIs DEF Picture, Paint, Pic

\* Every cell has a pixel ...
LEMMA IndexIn == ASSUME NEW w \in Nat, NEW h \in Nat, NEW c \in Area(w, h)
                 PROVE  Index(c, w) \in 0..w * h - 1
  <1>1. PICK x \in 0..w - 1, y \in 0..h - 1 : c = <<x, y>>
    BY DEF Area
  <1>2. y * w + w <= h * w
    BY <1>1, Rows
  <1>3. y * w \in Nat /\ h * w \in Nat /\ h * w = w * h
    BY <1>1
  <1> QED BY <1>1, <1>2, <1>3 DEF Index

\* ... of its own.
LEMMA IndexOne == ASSUME NEW w \in Nat, NEW h \in Nat, NEW c \in Area(w, h), NEW d \in Area(w, h),
                         Index(c, w) = Index(d, w)
                  PROVE  c = d
  <1>1. PICK x1 \in 0..w - 1, y1 \in 0..h - 1 : c = <<x1, y1>>
    BY DEF Area
  <1>2. PICK x2 \in 0..w - 1, y2 \in 0..h - 1 : d = <<x2, y2>>
    BY DEF Area
  <1>3. y1 * w + x1 = y2 * w + x2 /\ y1 * w \in Nat /\ y2 * w \in Nat
    BY <1>1, <1>2 DEF Index
  <1>4. ~(y1 < y2)
    <2> SUFFICES ASSUME y1 < y2 PROVE FALSE
      OBVIOUS
    <2>1. y1 * w + w <= y2 * w
      BY <1>1, <1>2, Rows
    <2> QED BY <1>1, <1>2, <1>3, <2>1
  <1>5. ~(y2 < y1)
    <2> SUFFICES ASSUME y2 < y1 PROVE FALSE
      OBVIOUS
    <2>1. y2 * w + w <= y1 * w
      BY <1>1, <1>2, Rows
    <2> QED BY <1>1, <1>2, <1>3, <2>1
  <1>6. y1 = y2 /\ x1 = x2
    BY <1>1, <1>2, <1>3, <1>4, <1>5
  <1> QED BY <1>1, <1>2, <1>6

-----------------------------------------------------------------------------
(* Tiles.                                                                   *)

\* A position is in the tile that the division says, and there is such a tile.
LEMMA TileOf == ASSUME NEW n \in Nat, NEW x \in 0..n - 1
                PROVE  \E i \in 0..TilesAcross(n) - 1 :
                         i * Tile <= x /\ x < i * Tile + Tile /\ i * Tile \in Nat
  <1> USE TileAssumption
  <1> DEFINE i == x \div Tile
             m == n + Tile - 1
             q == m \div Tile
  <1>1. i \in Nat /\ i * Tile <= x /\ x < i * Tile + Tile /\ i * Tile \in Nat
    BY SMTT(60)
  <1>2. m \in Nat /\ q \in Nat /\ q * Tile <= m /\ m < q * Tile + Tile /\ q * Tile \in Nat
    BY SMTT(60)
  <1> HIDE DEF i, q
  <1>3. ~(q < i + 1)
    <2> SUFFICES ASSUME q < i + 1 PROVE FALSE
      OBVIOUS
    <2>1. CASE q = i
      BY <1>1, <1>2, <2>1
    <2>2. CASE q < i
      <3>1. q * Tile + Tile <= i * Tile
        BY <1>1, <1>2, <2>2, Rows
      <3> QED BY <1>1, <1>2, <3>1
    <2> QED BY <1>1, <1>2, <2>1, <2>2
  <1>4. i \in 0..q - 1
    BY <1>1, <1>2, <1>3
  <1> QED BY <1>1, <1>4 DEF TilesAcross, q

\* The tiles cover the screen ...
LEMMA TileCovers == ASSUME NEW w \in Nat, NEW h \in Nat, NEW c \in Area(w, h)
                    PROVE  \E t \in Tiles(w, h) : c \in Cells(t)
  <1>1. PICK x \in 0..w - 1, y \in 0..h - 1 : c = <<x, y>>
    BY DEF Area
  <1>2. PICK i \in 0..TilesAcross(w) - 1 :
          i * Tile <= x /\ x < i * Tile + Tile /\ i * Tile \in Nat
    BY <1>1, TileOf
  <1>3. PICK j \in 0..TilesAcross(h) - 1 :
          j * Tile <= y /\ y < j * Tile + Tile /\ j * Tile \in Nat
    BY <1>1, TileOf
  <1>4. PICK a, b : a = i * Tile /\ b = j * Tile
    OBVIOUS
  <1>5. PICK t : t = [x |-> a, y |-> b, w |-> Smaller(w - a, Tile), h |-> Smaller(h - b, Tile)]
    OBVIOUS
  <1>6. t \in Tiles(w, h)
    BY <1>4, <1>5 DEF Tiles
  <1>7. x \in a..a + t.w - 1 /\ y \in b..b + t.h - 1
    BY <1>1, <1>2, <1>3, <1>4, <1>5, TileAssumption DEF Smaller
  <1>8. c \in Cells(t)
    BY <1>1, <1>5, <1>7 DEF Cells
  <1> QED BY <1>6, <1>8

\* ... and nothing else.
LEMMA TileInside == ASSUME NEW w \in Nat, NEW h \in Nat, NEW t \in Tiles(w, h)
                    PROVE  Cells(t) \subseteq Area(w, h)
  <1>1. TilesAcross(w) \in Int /\ TilesAcross(h) \in Int
    BY TileAssumption DEF TilesAcross
  <1>2. PICK i \in 0..TilesAcross(w) - 1, j \in 0..TilesAcross(h) - 1 :
          t = [x |-> i * Tile, y |-> j * Tile,
               w |-> Smaller(w - i * Tile, Tile), h |-> Smaller(h - j * Tile, Tile)]
    BY DEF Tiles
  <1>3. PICK a, b : a = i * Tile /\ b = j * Tile
    OBVIOUS
  <1>4. a \in Nat /\ b \in Nat
    BY <1>1, <1>2, <1>3, TileAssumption
  <1>5. t.x = a /\ t.y = b /\ t.w = Smaller(w - a, Tile) /\ t.h = Smaller(h - b, Tile)
    BY <1>2, <1>3
  <1>6. a + t.w <= w /\ b + t.h <= h /\ t.w \in Int /\ t.h \in Int
    BY <1>4, <1>5, TileAssumption DEF Smaller
  <1> QED BY <1>4, <1>5, <1>6 DEF Cells, Area

-----------------------------------------------------------------------------
(* What is sent for a frame.                                                *)

\* A frame with as many pixels as its size asks for.
Exact(f) == f.w \in Nat \ {0} /\ f.h \in Nat \ {0} /\ DOMAIN f.pix = 0..f.w * f.h - 1

LEMMA AreaSize == ASSUME NEW w \in Nat, NEW h \in Nat
                  PROVE  w * h \in Nat /\ Cardinality(0..w * h - 1) = w * h
  <1>1. PICK n \in Nat : n = w * h
    OBVIOUS
  <1>2. Cardinality(0..n - 1) = n
    <2>1. 0 \in Int /\ n - 1 \in Int
      OBVIOUS
    <2>2. Cardinality(0..n - 1) = IF 0 > n - 1 THEN 0 ELSE n - 1 - 0 + 1
      BY <2>1, FS_Interval, Zenon
    <2> QED BY <2>2
  <1> QED BY <1>1, <1>2

\* A canvas lacks nothing of what it shows.
LEMMA LacksSame == ASSUME NEW pic PROVE Lacks(pic, pic)
  BY DEF Lacks

\* A full frame, on whatever canvas of its size.
LEMMA FullIsExact ==
  ASSUME NEW f, Exact(f), NEW cv, DOMAIN cv = Area(f.w, f.h),
         NEW r, r = FullFrame(f), NEW p \in r.paint
  PROVE  /\ Painted(cv, p) = Pic(f.w, f.h, r.prev)
         /\ Pic(f.w, f.h, r.prev) = Pic(f.w, f.h, f.pix)
         /\ DOMAIN r.prev = 0..f.w * f.h - 1
  <1>0. f.w \in Nat /\ f.h \in Nat
    BY DEF Exact
  <1>1. p = Pic(f.w, f.h, f.pix) /\ r.prev = [i \in 0..f.w * f.h - 1 |-> f.pix[i]]
    BY <1>0, ScreenIs DEF FullFrame, Paint, Pic
  <1>2. \A c \in Area(f.w, f.h) : r.prev[Index(c, f.w)] = f.pix[Index(c, f.w)]
    BY <1>0, <1>1, IndexIn
  <1>3. Pic(f.w, f.h, r.prev) = Pic(f.w, f.h, f.pix)
    BY <1>2 DEF Pic
  <1>4. Painted(cv, p) = Pic(f.w, f.h, f.pix)
    BY <1>1 DEF Painted, Pic
  <1> QED BY <1>1, <1>3, <1>4

\* The tiles that differ, on a canvas that shows the cache or parts of it.
LEMMA BatchIsExact ==
  ASSUME NEW f, Exact(f), NEW prev0, DOMAIN prev0 = 0..f.w * f.h - 1,
         NEW cv, Lacks(cv, Pic(f.w, f.h, prev0)),
         NEW r, r = Batch(DirtyTiles(prev0, f), prev0, f), NEW p \in r.paint
  PROVE  /\ Lacks(Painted(cv, p), Pic(f.w, f.h, r.prev))
         /\ cv = Pic(f.w, f.h, prev0) \/ Whole(p, f) => Painted(cv, p) = Pic(f.w, f.h, r.prev)
         /\ Pic(f.w, f.h, r.prev) = Pic(f.w, f.h, f.pix)
         /\ DOMAIN r.prev = 0..f.w * f.h - 1
  <1> DEFINE w == f.w
             h == f.h
             cells == UNION {Cells(t) : t \in DirtyTiles(prev0, f)}
             sent == {Index(c, w) : c \in cells}
  <1>0. w \in Nat /\ h \in Nat
    BY DEF Exact
  <1>1. cells \subseteq Area(w, h)
    BY <1>0, TileInside DEF DirtyTiles
  <1>2. p = [c \in cells |-> f.pix[Index(c, w)]]
    BY DEF Batch, Paint
  <1>3. r.prev = [i \in DOMAIN prev0 |-> IF i \in sent THEN f.pix[i] ELSE prev0[i]]
    BY DEF Batch
  <1>4. ASSUME NEW c \in Area(w, h), c \notin cells
        PROVE  Index(c, w) \notin sent /\ f.pix[Index(c, w)] = prev0[Index(c, w)]
    <2>1. Index(c, w) \notin sent
      BY <1>0, <1>1, <1>4, IndexOne
    <2>2. PICK t \in Tiles(w, h) : c \in Cells(t)
      BY <1>0, TileCovers
    <2>3. t \notin DirtyTiles(prev0, f)
      BY <1>4, <2>2
    <2> QED BY <2>1, <2>2, <2>3 DEF DirtyTiles
  <1>5. \A c \in cells : Index(c, w) \in sent
    OBVIOUS
  <1>6. \A c \in Area(w, h) : Index(c, w) \in DOMAIN prev0
    BY <1>0, IndexIn
  <1> HIDE DEF cells, sent
  <1>7. \A c \in Area(w, h) : r.prev[Index(c, w)] = f.pix[Index(c, w)]
    BY <1>3, <1>4, <1>5, <1>6
  <1>8. Pic(w, h, r.prev) = Pic(w, h, f.pix)
    BY <1>7 DEF Pic
  <1>9. /\ DOMAIN cv = Area(w, h)
        /\ \A c \in Area(w, h) : cv[c] \in {prev0[Index(c, w)], Black}
    BY DEF Lacks, Pic
  <1>10. Painted(cv, p) = [c \in Area(w, h) |-> IF c \in cells THEN f.pix[Index(c, w)] ELSE cv[c]]
    BY <1>1, <1>2, <1>9 DEF Painted
  <1>11. Lacks(Painted(cv, p), Pic(w, h, f.pix))
    BY <1>4, <1>9, <1>10 DEF Lacks, Pic
  <1>12. ASSUME cv = Pic(w, h, prev0) PROVE Painted(cv, p) = Pic(w, h, f.pix)
    <2>1. \A c \in Area(w, h) : cv[c] = prev0[Index(c, w)]
      BY <1>12 DEF Pic
    <2> QED BY <1>4, <1>10, <2>1 DEF Pic
  <1>13. ASSUME Whole(p, f) PROVE Painted(cv, p) = Pic(w, h, f.pix)
    <2>1. cells = Area(w, h)
      BY <1>0, <1>2, <1>13, ScreenIs DEF Whole
    <2> QED BY <1>10, <2>1 DEF Pic
  <1>14. DOMAIN r.prev = 0..w * h - 1
    BY <1>3
  <1> QED BY <1>8, <1>11, <1>12, <1>13, <1>14

\* If no tile differs, no pixel does.
LEMMA NoneDiffers ==
  ASSUME NEW f, Exact(f), NEW prev0, DirtyTiles(prev0, f) = {}
  PROVE  Pic(f.w, f.h, prev0) = Pic(f.w, f.h, f.pix)
  <1>1. ASSUME NEW c \in Area(f.w, f.h) PROVE f.pix[Index(c, f.w)] = prev0[Index(c, f.w)]
    <2>1. PICK t \in Tiles(f.w, f.h) : c \in Cells(t)
      BY TileCovers DEF Exact
    <2> QED BY <2>1 DEF DirtyTiles
  <1> QED BY <1>1 DEF Pic

\* A canvas that shows the cache shows the frame when what is sent has arrived;
\* one that shows parts of it shows parts of the frame.
LEMMA ProcessIsExact ==
  ASSUME NEW f, Exact(f), NEW prev0, DOMAIN prev0 = 0..f.w * f.h - 1,
         NEW r, r = Process(prev0, f)
  PROVE  /\ Pic(f.w, f.h, r.prev) = Pic(f.w, f.h, f.pix) /\ DOMAIN r.prev = 0..f.w * f.h - 1
         /\ r.paint = {} => r.prev = prev0
         /\ \A cv : Lacks(cv, Pic(f.w, f.h, prev0)) =>
              \A p \in r.paint :
                /\ Lacks(Painted(cv, p), Pic(f.w, f.h, r.prev))
                /\ cv = Pic(f.w, f.h, prev0) \/ Whole(p, f) =>
                     Painted(cv, p) = Pic(f.w, f.h, r.prev)
  <1>1. Cardinality(DOMAIN f.pix) = f.w * f.h /\ Cardinality(DOMAIN prev0) = f.w * f.h
        /\ f.w * f.h \in Nat
    BY AreaSize DEF Exact
  <1>2. CASE r = [paint |-> {}, prev |-> prev0] /\ DirtyTiles(prev0, f) = {}
    BY <1>2, NoneDiffers
  <1>3. CASE r = FullFrame(f)
    <2>1. ASSUME NEW cv, Lacks(cv, Pic(f.w, f.h, prev0)), NEW p \in r.paint
          PROVE  Painted(cv, p) = Pic(f.w, f.h, r.prev)
      <3>1. DOMAIN cv = Area(f.w, f.h)
        BY <2>1 DEF Lacks, Pic
      <3> QED BY <1>3, <2>1, <3>1, FullIsExact
    <2>2. PICK p \in r.paint : TRUE
      BY <1>3 DEF FullFrame
    <2>3. DOMAIN Pic(f.w, f.h, prev0) = Area(f.w, f.h)
      BY DEF Pic
    <2>4. /\ Pic(f.w, f.h, r.prev) = Pic(f.w, f.h, f.pix)
          /\ DOMAIN r.prev = 0..f.w * f.h - 1
      BY <1>3, <2>2, <2>3, FullIsExact
    <2> QED BY <2>1, <2>2, <2>4, LacksSame
  <1>4. CASE r = Batch(DirtyTiles(prev0, f), prev0, f)
    <2>1. PICK p \in r.paint : TRUE
      BY <1>4 DEF Batch
    <2>2. /\ Pic(f.w, f.h, r.prev) = Pic(f.w, f.h, f.pix)
          /\ DOMAIN r.prev = 0..f.w * f.h - 1
      BY <1>4, <2>1, BatchIsExact, LacksSame
    <2> QED BY <1>4, <2>1, <2>2, BatchIsExact
  <1> QED BY <1>1, <1>2, <1>3, <1>4 DEF Process

\* A frame of another number of pixels than the cache is sent whole.
LEMMA ResizeIsExact ==
  ASSUME NEW f, Exact(f), NEW prev0, Cardinality(DOMAIN prev0) # f.w * f.h,
         NEW r, r = Process(prev0, f)
  PROVE  /\ Pic(f.w, f.h, r.prev) = Pic(f.w, f.h, f.pix) /\ DOMAIN r.prev = 0..f.w * f.h - 1
         /\ r.paint # {}
         /\ \A cv : DOMAIN cv = Area(f.w, f.h) =>
              \A p \in r.paint : Painted(cv, p) = Pic(f.w, f.h, r.prev)
  <1>1. Cardinality(DOMAIN f.pix) = f.w * f.h /\ f.w * f.h \in Nat
    BY AreaSize DEF Exact
  <1>2. r = FullFrame(f)
    BY <1>1 DEF Process
  <1>3. PICK p \in r.paint : TRUE
    BY <1>2 DEF FullFrame
  <1>4. DOMAIN Pic(f.w, f.h, f.pix) = Area(f.w, f.h)
    BY DEF Pic
  <1>5. /\ Pic(f.w, f.h, r.prev) = Pic(f.w, f.h, f.pix) /\ DOMAIN r.prev = 0..f.w * f.h - 1
    BY <1>2, <1>3, <1>4, FullIsExact
  <1> QED BY <1>2, <1>3, <1>5, FullIsExact

-----------------------------------------------------------------------------
(* Messages that arrive one after the other.                                *)

\* A set of numbers that is not empty has a smallest member.
LEMMA Smallest == ASSUME NEW T \in SUBSET Nat, T # {} PROVE \E x \in T : \A y \in T : x <= y
  <1> DEFINE Upto(n) == 0..n
             R == StrictSubsetOrdering(Nat)
             F == {Upto(n) : n \in T}
  <1>1. F \subseteq FiniteSubsetsOf(Nat) /\ F # {}
    <2>1. ASSUME NEW n \in T PROVE Upto(n) \in SUBSET Nat /\ IsFiniteSet(Upto(n))
      BY FS_Interval
    <2> QED BY <2>1 DEF FiniteSubsetsOf
  <1>2. PICK a \in F : \A b \in F : <<b, a>> \notin R
    <2> HIDE DEF F, R
    <2>1. IsWellFoundedOn(R, FiniteSubsetsOf(Nat))
      BY FS_StrictSubsetOrderingWellFounded DEF R
    <2> QED BY <1>1, <2>1, WFMin, Zenon
  <1>3. PICK x \in T : a = Upto(x)
    OBVIOUS
  <1>4. ASSUME NEW y \in T, y < x PROVE FALSE
    <2>1. Upto(y) \in SUBSET Nat /\ Upto(x) \in SUBSET Nat
      OBVIOUS
    <2>2. Upto(y) \subseteq Upto(x) /\ Upto(y) # Upto(x)
      <3>1. x \in Upto(x) /\ x \notin Upto(y)
        BY <1>4
      <3> QED BY <1>4, <3>1
    <2>3. <<Upto(y), Upto(x)>> \in R
      BY <2>1, <2>2, Zenon DEF StrictSubsetOrdering
    <2> QED BY <1>2, <1>3, <2>3
  <1> QED BY <1>4

\* The pictures a canvas goes through, and the last of them.
Film(s, cv, msgs) ==
  s = [i \in 0..Len(msgs) |-> IF i = 0 THEN cv ELSE Shown(s[i - 1], msgs[i])]
Leads(cv, msgs, pic) == \E s : Film(s, cv, msgs) /\ s[Len(msgs)] = pic

\* There is only one such film.
LEMMA FilmIs ==
  ASSUME NEW s, NEW cv, NEW msgs, Len(msgs) \in Nat, Film(s, cv, msgs)
  PROVE  Stills(cv, msgs) = s
  <1> DEFINE n == Len(msgs)
             pic == CHOOSE pic : pic = [i \in 0..n |->
                      IF i = 0 THEN cv ELSE Shown(pic[i - 1], msgs[i])]
             T == {i \in 0..n : pic[i] # s[i]}
  <1>1. pic = [i \in 0..n |-> IF i = 0 THEN cv ELSE Shown(pic[i - 1], msgs[i])]
    <2>1. \E x : x = [i \in 0..n |-> IF i = 0 THEN cv ELSE Shown(x[i - 1], msgs[i])]
      BY DEF Film
    <2> QED BY <2>1, Zenon
  <1>2. Stills(cv, msgs) = pic
    BY Zenon DEF Stills
  <1> HIDE DEF pic
  <1>3. ASSUME T # {} PROVE FALSE
    <2>1. PICK i \in T : \A j \in T : i <= j
      <3>1. T \in SUBSET Nat
        OBVIOUS
      <3> HIDE DEF T
      <3> QED BY <1>3, <3>1, Smallest
    <2>2. i # 0
      BY <1>1, <2>1 DEF Film
    <2>3. pic[i - 1] = s[i - 1]
      BY <2>1, <2>2
    <2> QED BY <1>1, <2>1, <2>2, <2>3 DEF Film
  <1>4. pic = [i \in 0..n |-> pic[i]] /\ s = [i \in 0..n |-> s[i]]
    BY <1>1 DEF Film
  <1>5. \A i \in 0..n : pic[i] = s[i]
    BY <1>3
  <1>6. pic = s
    BY <1>4, <1>5
  <1> QED BY <1>2, <1>6

LEMMA LeadsAfter == ASSUME NEW cv, NEW msgs, Len(msgs) \in Nat, NEW pic, Leads(cv, msgs, pic)
                    PROVE  After(cv, msgs) = pic
  BY FilmIs DEF Leads, After

LEMMA LeadsNow == ASSUME NEW cv, NEW pic PROVE Leads(cv, <<>>, pic) <=> pic = cv
  <1>1. ASSUME Leads(cv, <<>>, pic) PROVE pic = cv
    BY <1>1 DEF Leads, Film
  <1>2. Leads(cv, <<>>, cv)
    <2>1. PICK s : s = [i \in 0..0 |-> cv]
      OBVIOUS
    <2>2. Film(s, cv, <<>>) /\ s[Len(<<>>)] = cv
      BY <2>1 DEF Film
    <2> QED BY <2>2 DEF Leads
  <1> QED BY <1>1, <1>2

\* One message more at the end.
LEMMA FilmOn ==
  ASSUME NEW M, NEW msgs \in Seq(M), NEW m, NEW cv, NEW s, Film(s, cv, msgs),
         NEW n \in Nat, n = Len(msgs),
         NEW t, t = [i \in 0..n + 1 |-> IF i = n + 1 THEN Shown(s[n], m) ELSE s[i]]
  PROVE  Film(t, cv, Append(msgs, m))
  <1>1. /\ Len(Append(msgs, m)) = n + 1 /\ Append(msgs, m)[n + 1] = m
        /\ \A i \in 1..n : Append(msgs, m)[i] = msgs[i]
    OBVIOUS
  <1>2. \A i \in 0..n + 1 :
          t[i] = IF i = 0 THEN cv ELSE Shown(t[i - 1], Append(msgs, m)[i])
    <2> SUFFICES ASSUME NEW i \in 0..n + 1
                 PROVE  t[i] = IF i = 0 THEN cv ELSE Shown(t[i - 1], Append(msgs, m)[i])
      OBVIOUS
    <2>1. CASE i = n + 1
      <3>1. i # 0 /\ i - 1 = n /\ n \in 0..n + 1 /\ n # n + 1
        BY <2>1
      <3>2. t[n] = s[n]
        BY <3>1
      <3>3. t[i] = Shown(s[n], m)
        BY <2>1
      <3>4. t[i - 1] = s[n] /\ Append(msgs, m)[i] = m
        BY <1>1, <2>1, <3>1, <3>2, Zenon
      <3> QED BY <3>1, <3>3, <3>4, Zenon
    <2>2. CASE i \in 0..n
      <3>1. s[i] = IF i = 0 THEN cv ELSE Shown(s[i - 1], msgs[i])
        BY <2>2 DEF Film
      <3>2. t[i] = s[i] /\ (i # 0 => t[i - 1] = s[i - 1])
        BY <2>2
      <3> QED BY <1>1, <2>2, <3>1, <3>2
    <2>3. i = n + 1 \/ i \in 0..n
      OBVIOUS
    <2> QED BY <2>1, <2>2, <2>3, Zenon
  <1> DEFINE u == [i \in 0..n + 1 |-> IF i = 0 THEN cv ELSE Shown(t[i - 1], Append(msgs, m)[i])]
  <1>3. \A i \in 0..n + 1 : t[i] = u[i]
    BY <1>2
  <1> HIDE DEF u
  <1>4. t = [i \in 0..n + 1 |-> t[i]]
    OBVIOUS
  <1>5. u = [i \in 0..n + 1 |-> u[i]]
    BY DEF u
  <1>6. t = u
    BY <1>3, <1>4, <1>5
  <1> QED BY <1>1, <1>6 DEF Film, u

LEMMA LeadsOn ==
  ASSUME NEW M, NEW msgs \in Seq(M), NEW m, NEW cv, NEW pic, Leads(cv, msgs, pic)
  PROVE  Leads(cv, Append(msgs, m), Shown(pic, m))
  <1>1. PICK s : Film(s, cv, msgs) /\ s[Len(msgs)] = pic
    BY DEF Leads
  <1>2. PICK n \in Nat : n = Len(msgs)
    OBVIOUS
  <1>3. PICK t : t = [i \in 0..n + 1 |-> IF i = n + 1 THEN Shown(s[n], m) ELSE s[i]]
    OBVIOUS
  <1>4. Film(t, cv, Append(msgs, m))
    BY <1>1, <1>2, <1>3, FilmOn
  <1>5. t[Len(Append(msgs, m))] = Shown(pic, m)
    BY <1>1, <1>2, <1>3
  <1> QED BY <1>4, <1>5 DEF Leads

\* The first message has arrived.
LEMMA FilmFrom ==
  ASSUME NEW M, NEW msgs \in Seq(M), msgs # <<>>, NEW cv, NEW s, Film(s, cv, msgs),
         NEW n \in Nat, n = Len(Tail(msgs)), NEW t, t = [i \in 0..n |-> s[i + 1]]
  PROVE  Film(t, Shown(cv, Head(msgs)), Tail(msgs))
  <1>1. Len(msgs) = n + 1
    OBVIOUS
  <1>2. \A i \in 1..n : Tail(msgs)[i] = msgs[i + 1]
    BY <1>1
  <1>3. \A i \in 0..n :
          t[i] = IF i = 0 THEN Shown(cv, Head(msgs)) ELSE Shown(t[i - 1], Tail(msgs)[i])
    <2> SUFFICES ASSUME NEW i \in 0..n
                 PROVE  t[i] = IF i = 0 THEN Shown(cv, Head(msgs))
                               ELSE Shown(t[i - 1], Tail(msgs)[i])
      OBVIOUS
    <2>1. s[i + 1] = Shown(s[i], msgs[i + 1])
      BY <1>1 DEF Film
    <2>2. CASE i = 0
      <3>1. s[0] = cv /\ Head(msgs) = msgs[1]
        BY <1>1 DEF Film
      <3> QED BY <2>1, <2>2, <3>1
    <2>3. CASE i \in 1..n
      <3>1. i # 0 /\ i - 1 \in 0..n /\ i - 1 + 1 = i
        BY <2>3
      <3>2. t[i - 1] = s[i] /\ t[i] = s[i + 1]
        BY <3>1
      <3>3. Tail(msgs)[i] = msgs[i + 1]
        BY <1>2, <2>3
      <3> QED BY <2>1, <3>1, <3>2, <3>3, Zenon
    <2>4. i = 0 \/ i \in 1..n
      OBVIOUS
    <2> QED BY <2>2, <2>3, <2>4, Zenon
  <1> DEFINE u == [i \in 0..n |-> IF i = 0 THEN Shown(cv, Head(msgs))
                                  ELSE Shown(t[i - 1], Tail(msgs)[i])]
  <1>4. \A i \in 0..n : t[i] = u[i]
    BY <1>3
  <1> HIDE DEF u
  <1>5. t = [i \in 0..n |-> t[i]]
    OBVIOUS
  <1>6. u = [i \in 0..n |-> u[i]]
    BY DEF u
  <1>7. t = u
    BY <1>4, <1>5, <1>6
  <1> QED BY <1>7 DEF Film, u

LEMMA LeadsFrom ==
  ASSUME NEW M, NEW msgs \in Seq(M), msgs # <<>>, NEW cv, NEW pic, Leads(cv, msgs, pic)
  PROVE  Leads(Shown(cv, Head(msgs)), Tail(msgs), pic)
  <1>1. PICK s : Film(s, cv, msgs) /\ s[Len(msgs)] = pic
    BY DEF Leads
  <1>2. PICK n \in Nat : n = Len(Tail(msgs)) /\ Len(msgs) = n + 1
    OBVIOUS
  <1>3. PICK t : t = [i \in 0..n |-> s[i + 1]]
    OBVIOUS
  <1>4. Film(t, Shown(cv, Head(msgs)), Tail(msgs))
    BY <1>1, <1>2, <1>3, FilmFrom
  <1>5. t[n] = pic
    BY <1>1, <1>2, <1>3
  <1> QED BY <1>2, <1>4, <1>5 DEF Leads

-----------------------------------------------------------------------------
(* Types.                                                                   *)

IsSeq(s) == \E S : s \in Seq(S)

LEMMA AppendIs == ASSUME NEW s, IsSeq(s), NEW m
                  PROVE  /\ IsSeq(Append(s, m)) /\ Len(s) \in Nat
                         /\ Len(Append(s, m)) = Len(s) + 1
  <1>1. PICK S : s \in Seq(S)
    BY DEF IsSeq
  <1>2. PICK T : T = S \cup {m}
    OBVIOUS
  <1>3. s \in Seq(T) /\ m \in T
    <2>1. \A i \in 1..Len(s) : s[i] \in T
      BY <1>1, <1>2
    <2> QED BY <1>1, <1>2, <2>1
  <1>4. Append(s, m) \in Seq(T)
    BY <1>3
  <1> QED BY <1>3, <1>4 DEF IsSeq

LEMMA TailIs == ASSUME NEW s, IsSeq(s), s # <<>>
                PROVE  IsSeq(Tail(s)) /\ Len(Tail(s)) = Len(s) - 1 /\ Len(s) \in Nat
  BY DEF IsSeq

Events == {Image(f) : f \in Screens} \cup {Event(k) : k \in {"other"} \cup EndKinds}
SizeOf(f) == [w |-> f.w, h |-> f.h]
Sizes == {SizeOf(f) : f \in Screens} \cup {NoSize}

QueueType == /\ out \in Seq(Events) /\ (Len(out) <= OutCap \/ LoopOver)
             /\ IsSeq(wsq) /\ Len(wsq) <= WsCap

FlagType == /\ client \in {"up", "gone"} /\ screen \in Screens \cup {NoScreen}
            /\ emitted \in [frames : 0..MaxFrames, others : 0..MaxOthers]
            /\ wr \in {"recv", "send", "done"} /\ rdr \in {"next", "leave", "done"}
            /\ {running, closeAsked, told, stale} \subseteq BOOLEAN
            /\ browser \in {"open", "closing", "lost"} /\ pings \in 0..MaxPings

\* The loop's program counter says what it has in hand.
LoopType == /\ lp \in {"recv", "drain", "init", "frame", "error", "over", "close",
                       "abortReader", "abortWriter", "done"}
            /\ latest \in Events /\ sized \in Sizes
            /\ lp \in {"init", "frame"} => latest.kind = "image"
            /\ lp = "init" => sized # SizeOf(latest.frame)
            /\ lp = "frame" => sized = SizeOf(latest.frame)

Typed == QueueType /\ FlagType /\ LoopType

LEMMA EventIs == ASSUME NEW e \in Events
                 PROVE  /\ e.kind \in {"image", "other"} \cup EndKinds
                        /\ e.kind = "image" => e.frame \in Screens /\ e = Image(e.frame)
  BY DEF Events, Image, Event, EndKinds

LEMMA PushIs == ASSUME QueueType, NEW m, Push(m)
                PROVE  IsSeq(wsq') /\ Len(wsq') <= WsCap
  <1>1. CASE wsq' = wsq
    BY <1>1 DEF QueueType
  <1>2. CASE wsq' = Append(wsq, m) /\ Len(wsq) < WsCap
    BY <1>2, AppendIs, SessionAssumption DEF QueueType
  <1> QED BY <1>1, <1>2 DEF Push

LEMMA EmitIs == ASSUME QueueType, NEW e \in Events, Emit(e)
                PROVE  out' \in Seq(Events) /\ (Len(out') <= OutCap \/ LoopOver)
  BY SessionAssumption DEF QueueType, Emit, Room

LEMMA TypedInit == Init => Typed
  <1> SUFFICES ASSUME Init PROVE Typed
    OBVIOUS
  <1>1. QueueType
    <2>1. PICK m : m = InitMessage(Asked.w, Asked.h)
      OBVIOUS
    <2>2. wsq \in Seq({m}) /\ Len(wsq) = 1
      BY <2>1 DEF Init
    <2>3. out \in Seq(Events) /\ Len(out) <= OutCap
      BY SessionAssumption DEF Init
    <2> QED BY <2>2, <2>3, SessionAssumption DEF QueueType, IsSeq
  <1>2. FlagType
    <2>1. emitted \in [frames : 0..MaxFrames, others : 0..MaxOthers] /\ pings \in 0..MaxPings
      BY SessionAssumption DEF Init
    <2>2. {running, closeAsked, told, stale} \subseteq BOOLEAN
      BY DEF Init
    <2> QED BY <2>1, <2>2 DEF Init, FlagType
  <1>3. LoopType
    BY DEF Init, LoopType, Events, NoEvent, Sizes
  <1> QED BY <1>1, <1>2, <1>3 DEF Typed

\* The tasks' flags.
LEMMA FlagsStep == ASSUME Typed, [Next]_vars PROVE FlagType'
  <1> USE DEF Typed, FlagType
  <1>1. ASSUME NEW f \in Screens, ClientShows(f) PROVE FlagType'
    <2>1. emitted' \in [frames : 0..MaxFrames, others : 0..MaxOthers]
      BY <1>1, SessionAssumption DEF ClientShows
    <2> QED BY <1>1, <2>1 DEF ClientShows, ClientFrame, browserVars, writerVars, loopVars
  <1>2. CASE ClientEmitsOther
    <2>1. emitted' \in [frames : 0..MaxFrames, others : 0..MaxOthers]
      BY <1>2, SessionAssumption DEF ClientEmitsOther
    <2> QED BY <1>2, <2>1 DEF ClientEmitsOther, ClientFrame, browserVars, writerVars, loopVars
  <1>3. ASSUME NEW k \in EndKinds, ClientEnds(k) PROVE FlagType'
    BY <1>3 DEF ClientEnds, ClientFrame, browserVars, writerVars, loopVars
  <1>4. CASE ClientDies
    BY <1>4 DEF ClientDies, ClientFrame, browserVars, writerVars, loopVars
  <1>5. CASE ClientCloses
    BY <1>5, <1>3 DEF ClientCloses, EndKinds
  <1>6. CASE LpRecv \/ LpRecvEnd \/ LpDrain \/ LpHandle \/ LpInit \/ LpSend \/ LpError
    <2>1. stale' \in BOOLEAN
      BY <1>6 DEF LpRecv, LpRecvEnd, LpDrain, LpHandle, LpInit, LpSend, LpError, LpStop
    <2> QED BY <1>6, <2>1 DEF LpRecv, LpRecvEnd, LpDrain, LpHandle, LpInit, LpSend, LpError,
                              LpFrame, clientVars, writerVars, browserVars
  <1>7. CASE LpOver \/ LpClose \/ LpAbortReader \/ LpAbortWriter
    BY <1>7 DEF LpOver, LpClose, LpAbortReader, LpAbortWriter, LpFrame, LpStop,
                clientVars, writerVars, browserVars
  <1>8. CASE Writer
    BY <1>8 DEF Writer, WrRecv, WrSend, WrSendToNobody, WrFrame, clientVars, browserVars, loopVars
  <1>9. CASE Reader
    BY <1>9 DEF Reader, RdrNext, RdrStreamEnds, RdrLeave, RdrFrame, clientVars, browserVars,
                writerVars, loopVars
  <1>10. CASE Browser
    BY <1>10, SessionAssumption DEF Browser, BrowserPings, BrowserCloses, ConnectionLost, BrFrame,
                clientVars, writerVars, loopVars
  <1>11. CASE UNCHANGED vars
    BY <1>11 DEF vars, clientVars, writerVars, browserVars, loopVars
  <1> QED BY <1>1, <1>2, <1>3, <1>4, <1>5, <1>6, <1>7, <1>8, <1>9, <1>10, <1>11
          DEF Next, Client, Loop

\* The queues.
LEMMA QueueStep == ASSUME Typed, [Next]_vars PROVE QueueType'
  <1> USE DEF Typed, QueueType
  <1>1. ASSUME NEW e \in Events, Emit(e), UNCHANGED <<lp, wsq>> PROVE QueueType'
    BY <1>1, EmitIs DEF LoopOver
  <1>2. \A k \in {"other"} \cup EndKinds : Event(k) \in Events
    BY DEF Events
  <1>3. ASSUME NEW f \in Screens, ClientShows(f) PROVE QueueType'
    BY <1>1, <1>3 DEF ClientShows, ClientFrame, loopVars, Events
  <1>4. CASE ClientEmitsOther
    BY <1>1, <1>2, <1>4 DEF ClientEmitsOther, ClientFrame, loopVars
  <1>5. ASSUME NEW k \in EndKinds, ClientEnds(k) PROVE QueueType'
    BY <1>1, <1>2, <1>5 DEF ClientEnds, ClientFrame, loopVars
  <1>6. CASE ClientCloses
    BY <1>6, <1>5 DEF ClientCloses, EndKinds
  <1>7. CASE LpRecv \/ LpDrain
    <2>1. out # <<>> /\ out' = Tail(out) /\ wsq' = wsq /\ ~LoopOver
      BY <1>7 DEF LpRecv, LpDrain, LoopOver
    <2>2. out' \in Seq(Events) /\ Len(out') <= OutCap
      BY <2>1, SessionAssumption
    <2> QED BY <2>1, <2>2
  <1>8. ASSUME NEW m, Push(m), UNCHANGED out, LoopOver => LoopOver' PROVE QueueType'
    BY <1>8, PushIs
  <1>9. CASE LpInit
    BY <1>8, <1>9 DEF LpInit, LoopOver
  <1>10. CASE LpSend
    <2>1. CASE UNCHANGED <<out, wsq>>
      BY <1>10, <2>1 DEF LpSend, LoopOver
    <2>2. ASSUME NEW p, Push(TilesMessage(p)), UNCHANGED out PROVE QueueType'
      BY <1>8, <1>10, <2>2 DEF LpSend, LoopOver
    <2> QED BY <1>10, <2>1, <2>2 DEF LpSend
  <1>11. CASE LpError
    BY <1>8, <1>11 DEF LpError, LpStop, LoopOver
  <1>12. ASSUME UNCHANGED <<out, wsq>>, LoopOver => LoopOver' PROVE QueueType'
    BY <1>12
  <1>13. CASE LpRecvEnd \/ LpHandle \/ LpOver \/ LpClose \/ LpAbortReader \/ LpAbortWriter
    <2>1. UNCHANGED <<out, wsq>>
      BY <1>13 DEF LpRecvEnd, LpHandle, LpOver, LpClose, LpAbortReader, LpAbortWriter
    <2>2. LoopOver => LoopOver'
      BY <1>13 DEF LpRecvEnd, LpHandle, LpOver, LpClose, LpAbortReader, LpAbortWriter, LpStop,
                   LoopOver
    <2> QED BY <1>12, <2>1, <2>2
  <1>14. CASE WrRecv
    <2>1. UNCHANGED <<out, lp>> /\ wsq # <<>> /\ wsq' = Tail(wsq)
      BY <1>14 DEF WrRecv, WrFrame, loopVars
    <2>2. IsSeq(wsq') /\ Len(wsq') <= WsCap
      BY <2>1, TailIs, SessionAssumption
    <2> QED BY <2>1, <2>2 DEF LoopOver
  <1>15. CASE RdrNext
    <2>1. UNCHANGED <<out, lp>> /\ (UNCHANGED wsq \/ Push(Plain("pong")))
      BY <1>15 DEF RdrNext, RdrFrame, loopVars
    <2> QED BY <1>8, <1>12, <2>1 DEF LoopOver
  <1>16. CASE ClientDies \/ WrSend \/ WrSendToNobody \/ RdrStreamEnds \/ RdrLeave \/ Browser
              \/ UNCHANGED vars
    <2>1. UNCHANGED <<out, lp, wsq>>
      BY <1>16 DEF ClientDies, ClientFrame, WrSend, WrSendToNobody, WrFrame, RdrStreamEnds,
                   RdrLeave, RdrFrame, Browser, BrowserPings, BrowserCloses, ConnectionLost, BrFrame,
                   loopVars, vars
    <2> QED BY <1>12, <2>1 DEF LoopOver
  <1> QED BY <1>3, <1>4, <1>5, <1>6, <1>7, <1>9, <1>10, <1>11, <1>13, <1>14, <1>15, <1>16
          DEF Next, Client, Loop, Writer, Reader

\* The output loop.
LEMMA LoopStep == ASSUME Typed, [Next]_vars PROVE LoopType'
  <1> USE DEF Typed, LoopType
  <1>1. CASE UNCHANGED loopVars
    BY <1>1 DEF loopVars
  <1>2. CASE LpRecv \/ LpDrain
    <2>1. Head(out) \in Events
      BY <1>2 DEF LpRecv, LpDrain, QueueType
    <2>2. sized' = sized /\ latest' = Head(out)
      BY <1>2 DEF LpRecv, LpDrain
    <2>3. lp' = "drain" \/ lp' = "over"
      BY <1>2 DEF LpRecv, LpDrain
    <2>4. latest' \in Events
      BY <2>1, <2>2, Zenon
    <2> QED BY <2>2, <2>3, <2>4
  <1>3. CASE LpHandle
    <2>1. UNCHANGED <<latest, sized>>
      BY <1>3 DEF LpHandle, LpStop
    <2>2. CASE NewSize /\ latest.kind = "image"
      BY <1>3, <2>1, <2>2 DEF LpHandle, LpStop, NewSize, SizeOf
    <2>3. CASE ~NewSize /\ latest.kind = "image"
      BY <1>3, <2>1, <2>3 DEF LpHandle, LpStop, NewSize, SizeOf
    <2>4. CASE latest.kind # "image"
      BY <1>3, <2>1, <2>4 DEF LpHandle, LpStop
    <2> QED BY <2>2, <2>3, <2>4
  <1>4. CASE LpInit
    <2>1. latest.frame \in Screens
      BY <1>4, EventIs DEF LpInit
    <2> QED BY <1>4, <2>1 DEF LpInit, Sizes, SizeOf
  <1>5. CASE LpSend
    BY <1>5 DEF LpSend
  <1>6. CASE LpRecvEnd \/ LpError \/ LpOver \/ LpClose \/ LpAbortReader \/ LpAbortWriter
    BY <1>6 DEF LpRecvEnd, LpError, LpOver, LpClose, LpAbortReader, LpAbortWriter, LpStop
  <1>7. CASE Client \/ ClientCloses \/ Writer \/ Reader \/ Browser \/ UNCHANGED vars
    BY <1>1, <1>7 DEF Client, ClientShows, ClientEmitsOther, ClientEnds, ClientDies, ClientCloses,
                      ClientFrame, Writer, WrRecv, WrSend, WrSendToNobody, WrFrame,
                      Reader, RdrNext, RdrStreamEnds, RdrLeave, RdrFrame,
                      Browser, BrowserPings, BrowserCloses, ConnectionLost, BrFrame, vars
  <1> QED BY <1>2, <1>3, <1>4, <1>5, <1>6, <1>7 DEF Next, Loop

LEMMA TypedAlways == Spec => []Typed
  <1>1. Typed /\ [Next]_vars => Typed'
    BY FlagsStep, QueueStep, LoopStep DEF Typed
  <1> QED BY <1>1, TypedInit, PTL DEF Spec

LEMMA TypedIsType == Typed => TypeOK
  <1> SUFFICES ASSUME Typed PROVE TypeOK
    OBVIOUS
  <1>1. \A i \in DOMAIN out : out[i].kind \in {"image", "other"} \cup EndKinds
    <2>1. \A i \in DOMAIN out : out[i] \in Events
      BY DEF Typed, QueueType
    <2> QED BY <2>1, EventIs
  <1> QED BY <1>1 DEF Typed, QueueType, FlagType, LoopType, TypeOK

\* Every variable has its type, and neither queue outgrows its capacity.
THEOREM TypeCorrect == Spec => []TypeOK
  BY TypedAlways, TypedIsType, PTL

-----------------------------------------------------------------------------
(* The cache.                                                               *)

\* The pixels of a frame are as many as its size says.
ExactScreens == \A f \in Screens : Exact(f)

\* How many pixels the browser was told to expect.
Expected == sized.w * sized.h

PrevInv == /\ lp # "frame" => DOMAIN prev = 0..Expected - 1
           /\ lp = "frame" => \/ DOMAIN prev = 0..Expected - 1
                              \/ Cardinality(DOMAIN prev) # Expected

LEMMA SizeIs == ASSUME NEW s \in Sizes
                PROVE  /\ s.w \in Nat /\ s.h \in Nat /\ s.w * s.h \in Nat
                       /\ s # NoSize => s.w # 0 /\ s.w * s.h # 0
                       /\ s = NoSize => s.w * s.h = 0
  <1>1. CASE s = NoSize
    BY <1>1 DEF NoSize
  <1>2. ASSUME NEW f \in Screens, s = SizeOf(f) PROVE s.w \in Nat \ {0} /\ s.h \in Nat \ {0}
    BY <1>2, SessionAssumption DEF SizeOf
  <1>3. CASE s # NoSize
    <2>1. PICK a \in Nat \ {0}, b \in Nat \ {0} : a = s.w /\ b = s.h
      BY <1>2, <1>3 DEF Sizes
    <2>2. a * b \in Nat /\ a * b # 0
      OBVIOUS
    <2> QED BY <1>3, <2>1, <2>2
  <1> QED BY <1>1, <1>3

\* What a frame leaves in the cache, and on a canvas.
LEMMA SentIs ==
  ASSUME ExactScreens, Typed, PrevInv, lp = "frame",
         NEW f, f = latest.frame, NEW r, r = Process(prev, f)
  PROVE  /\ f \in Screens /\ Exact(f) /\ sized = SizeOf(f)
         /\ DOMAIN r.prev = 0..Expected - 1 /\ Pic(f.w, f.h, r.prev) = Picture(f)
         /\ r.paint = {} => r.prev = prev
         /\ \A pic : /\ DOMAIN pic = Area(f.w, f.h)
                     /\ DOMAIN prev = 0..Expected - 1 => Lacks(pic, Pic(f.w, f.h, prev))
                     => \A p \in r.paint :
                          /\ Lacks(Painted(pic, p), Picture(f))
                          /\ \/ DOMAIN prev = 0..Expected - 1 => pic = Pic(f.w, f.h, prev)
                             \/ Whole(p, f)
                             => Painted(pic, p) = Picture(f)
  <1>1. f \in Screens /\ Exact(f) /\ sized = SizeOf(f)
    BY EventIs DEF Typed, LoopType, ExactScreens
  <1>2. Expected = f.w * f.h
    BY <1>1 DEF Expected, SizeOf
  <1>3. Picture(f) = Pic(f.w, f.h, f.pix)
    BY <1>1, PictureIs DEF Exact
  <1>4. CASE DOMAIN prev = 0..Expected - 1
    <2>1. /\ Pic(f.w, f.h, r.prev) = Picture(f) /\ DOMAIN r.prev = 0..Expected - 1
          /\ r.paint = {} => r.prev = prev
          /\ \A cv : Lacks(cv, Pic(f.w, f.h, prev)) =>
               \A p \in r.paint :
                 /\ Lacks(Painted(cv, p), Pic(f.w, f.h, r.prev))
                 /\ cv = Pic(f.w, f.h, prev) \/ Whole(p, f) =>
                      Painted(cv, p) = Pic(f.w, f.h, r.prev)
      BY <1>1, <1>2, <1>3, <1>4, ProcessIsExact
    <2> QED BY <1>1, <1>4, <2>1
  <1>5. CASE DOMAIN prev # 0..Expected - 1 /\ Cardinality(DOMAIN prev) # Expected
    <2>1. /\ DOMAIN r.prev = 0..Expected - 1 /\ Pic(f.w, f.h, r.prev) = Picture(f)
          /\ r.paint # {}
      BY <1>1, <1>2, <1>3, <1>5, ResizeIsExact
    <2>2. ASSUME NEW pic, DOMAIN pic = Area(f.w, f.h), NEW p \in r.paint
          PROVE  Painted(pic, p) = Picture(f)
      BY <1>1, <1>2, <1>5, <2>1, <2>2, ResizeIsExact
    <2> QED BY <1>1, <2>1, <2>2, LacksSame
  <1> QED BY <1>4, <1>5 DEF PrevInv

LEMMA PrevInit == Init => PrevInv
  BY DEF Init, PrevInv, Expected, NoSize

LEMMA PrevStep == ASSUME ExactScreens, Typed, PrevInv, [Next]_vars PROVE PrevInv'
  <1>1. ASSUME UNCHANGED <<sized, prev>>, lp' # "frame", lp # "frame" PROVE PrevInv'
    BY <1>1 DEF PrevInv, Expected
  <1>2. CASE UNCHANGED loopVars
    BY <1>2 DEF PrevInv, Expected, loopVars
  <1>3. CASE LpRecv \/ LpRecvEnd \/ LpDrain \/ LpError \/ LpOver \/ LpClose \/ LpAbortReader
             \/ LpAbortWriter
    BY <1>1, <1>3 DEF LpRecv, LpRecvEnd, LpDrain, LpError, LpOver, LpClose, LpAbortReader,
                      LpAbortWriter, LpStop
  <1>4. CASE LpHandle
    <2>1. UNCHANGED <<sized, prev>> /\ lp # "frame"
      BY <1>4 DEF LpHandle, LpStop
    <2> QED BY <2>1 DEF PrevInv, Expected
  <1>5. CASE LpInit
    <2>1. lp # "frame" /\ lp' = "frame" /\ prev' = prev
      BY <1>5 DEF LpInit
    <2>2. PICK a : a = Expected
      OBVIOUS
    <2>3. sized \in Sizes
      BY DEF Typed, LoopType
    <2>4. a \in Nat /\ DOMAIN prev = 0..a - 1 /\ Cardinality(DOMAIN prev) = a
      BY <2>1, <2>2, <2>3, SizeIs, AreaSize DEF PrevInv, Expected
    <2>5. Expected' = a \/ Expected' # a
      OBVIOUS
    <2> QED BY <2>1, <2>4, <2>5 DEF PrevInv
  <1>6. CASE LpSend
    <2>1. DOMAIN prev' = 0..Expected - 1
      BY <1>6, SentIs DEF LpSend
    <2>2. sized' = sized
      BY <1>6 DEF LpSend
    <2> QED BY <2>1, <2>2 DEF PrevInv, Expected
  <1>7. CASE Client \/ ClientCloses \/ Writer \/ Reader \/ Browser \/ UNCHANGED vars
    BY <1>2, <1>7 DEF Client, ClientShows, ClientEmitsOther, ClientEnds, ClientDies, ClientCloses,
                      ClientFrame, Writer, WrRecv, WrSend, WrSendToNobody, WrFrame,
                      Reader, RdrNext, RdrStreamEnds, RdrLeave, RdrFrame,
                      Browser, BrowserPings, BrowserCloses, ConnectionLost, BrFrame, vars
  <1> QED BY <1>3, <1>4, <1>5, <1>6, <1>7 DEF Next, Loop

-----------------------------------------------------------------------------
(* The cache and the canvas.                                                *)

\* One message before the others, one after them.
LEMMA Ends == ASSUME NEW S, NEW s \in Seq(S), NEW a \in S, NEW m \in S
              PROVE  /\ <<a>> \o s \in Seq(S) /\ <<a>> \o s # <<>>
                     /\ Head(<<a>> \o s) = a /\ Tail(<<a>> \o s) = s
                     /\ <<a>> \o Append(s, m) = Append(<<a>> \o s, m)
                     /\ <<>> \o s = s /\ Append(s, m) \in Seq(S)
                     /\ s # <<>> => <<Head(s)>> \o Tail(s) = s
  <1>1. <<a>> \o s \in Seq(S) /\ <<a>> \o s # <<>> /\ <<>> \o s = s /\ Append(s, m) \in Seq(S)
    OBVIOUS
  <1>2. Head(<<a>> \o s) = a
    OBVIOUS
  <1>3. Tail(<<a>> \o s) = s
    OBVIOUS
  <1>4. <<a>> \o Append(s, m) = Append(<<a>> \o s, m)
    OBVIOUS
  <1>5. s # <<>> => <<Head(s)>> \o Tail(s) = s
    OBVIOUS
  <1> QED BY <1>1, <1>2, <1>3, <1>4, <1>5

LEMMA WiderSeq == ASSUME NEW s, IsSeq(s), NEW a, NEW m
                  PROVE  \E S : s \in Seq(S) /\ a \in S /\ m \in S
  <1>1. PICK S : s \in Seq(S)
    BY DEF IsSeq
  <1>2. PICK T : T = S \cup {a, m}
    OBVIOUS
  <1>3. \A i \in 1..Len(s) : s[i] \in T
    BY <1>1, <1>2
  <1>4. s \in Seq(T)
    BY <1>1, <1>3
  <1> QED BY <1>2, <1>4

\* A picture of the size the browser was told of, equal to what is cached, or to
\* parts of it, unless the cache has another number of pixels.
Agrees(pic) ==
  sized # NoSize =>
    /\ DOMAIN pic = Area(sized.w, sized.h)
    /\ DOMAIN prev = 0..Expected - 1 =>
         LET cached == Pic(sized.w, sized.h, prev)
         IN Lacks(pic, cached) /\ (~stale => pic = cached)

\* The messages on their way lead to such a picture.
CacheInv == Live => \E pic : Leads(canvas, Upcoming, pic) /\ Agrees(pic)

LEMMA UpcomingIs == ASSUME Typed PROVE IsSeq(Upcoming)
  <1>1. PICK S : wsq \in Seq(S) /\ wmsg \in S
    BY WiderSeq DEF Typed, QueueType
  <1>2. <<wmsg>> \o wsq \in Seq(S) /\ <<>> \o wsq \in Seq(S)
    BY <1>1, Ends
  <1> QED BY <1>2 DEF Upcoming, IsSeq

\* The message in the writer's hand is the first of them.
LEMMA SendingIs == ASSUME Typed, wr = "send"
                   PROVE  \E S : /\ Upcoming \in Seq(S) /\ Upcoming # <<>>
                                 /\ Head(Upcoming) = wmsg /\ Tail(Upcoming) = wsq
                                 /\ <<>> \o wsq = wsq
  <1>1. PICK S : wsq \in Seq(S) /\ wmsg \in S
    BY WiderSeq DEF Typed, QueueType
  <1>2. Upcoming = <<wmsg>> \o wsq
    BY DEF Upcoming
  <1>3. /\ <<wmsg>> \o wsq \in Seq(S) /\ <<wmsg>> \o wsq # <<>>
        /\ Head(<<wmsg>> \o wsq) = wmsg /\ Tail(<<wmsg>> \o wsq) = wsq /\ <<>> \o wsq = wsq
    BY <1>1, Ends
  <1> QED BY <1>2, <1>3, Zenon

\* A message is queued.
LEMMA UpcomingGrows ==
  ASSUME Typed, wr # "done", UNCHANGED <<wr, wmsg>>, NEW m, Push(m)
  PROVE  \E S : m \in S /\ Upcoming \in Seq(S) /\ Upcoming' = Append(Upcoming, m)
  <1>1. PICK S : wsq \in Seq(S) /\ wmsg \in S /\ m \in S
    BY WiderSeq DEF Typed, QueueType
  <1>2. wsq' = Append(wsq, m)
    BY DEF Push, WriterGone
  <1>3. Upcoming \in Seq(S) /\ Upcoming' = Append(Upcoming, m)
    <2>1. CASE wr = "send"
      BY <1>1, <1>2, <2>1, Ends DEF Upcoming
    <2>2. CASE wr # "send"
      BY <1>1, <1>2, <2>2, Ends DEF Upcoming
    <2> QED BY <2>1, <2>2
  <1> QED BY <1>1, <1>3

LEMMA Queued == ASSUME Typed, wr # "done", UNCHANGED <<wr, wmsg, canvas>>, NEW m, Push(m),
                       NEW pic, Leads(canvas, Upcoming, pic)
                PROVE  \E new : new = Shown(pic, m) /\ Leads(canvas, Upcoming, new)'
  <1>1. PICK S : m \in S /\ Upcoming \in Seq(S) /\ Upcoming' = Append(Upcoming, m)
    BY UpcomingGrows
  <1>2. PICK new : new = Shown(pic, m)
    OBVIOUS
  <1>3. Leads(canvas, Append(Upcoming, m), new)
    BY <1>1, <1>2, LeadsOn
  <1>4. Leads(canvas, Upcoming, new)'
    BY <1>1, <1>3
  <1> QED BY <1>2, <1>4

LEMMA CacheInit == Init => CacheInv
  <1> SUFFICES ASSUME Init PROVE CacheInv
    OBVIOUS
  <1>2. PICK m : m = InitMessage(Asked.w, Asked.h)
    OBVIOUS
  <1>3. Upcoming = Append(<<>>, m)
    BY <1>2 DEF Init, Upcoming
  <1>4. Leads(canvas, <<>>, canvas)
    BY LeadsNow
  <1>5. <<>> \in Seq({m})
    OBVIOUS
  <1>6. Leads(canvas, Upcoming, Shown(canvas, m))
    BY <1>3, <1>4, <1>5, LeadsOn
  <1>7. Agrees(Shown(canvas, m))
    BY DEF Init, Agrees
  <1> QED BY <1>6, <1>7 DEF CacheInv

\* A session that is over stays over.
LEMMA StaysOver == ASSUME [Next]_vars PROVE Live' => Live
  <1>1. browser' = "open" => browser = "open"
    BY DEF Next, Client, ClientShows, ClientEmitsOther, ClientEnds, ClientDies, ClientCloses,
           ClientFrame, Loop, LpRecv, LpRecvEnd, LpDrain, LpHandle, LpInit, LpSend, LpError,
           LpOver, LpClose, LpAbortReader, LpAbortWriter, LpFrame, browserVars,
           Writer, WrRecv, WrSend, WrSendToNobody, WrFrame, Reader, RdrNext, RdrStreamEnds, RdrLeave,
           RdrFrame, Browser, BrowserPings, BrowserCloses, ConnectionLost, BrFrame, vars
  <1>2. wr = "done" => wr' = "done"
    BY DEF Next, Client, ClientShows, ClientEmitsOther, ClientEnds, ClientDies, ClientCloses,
           ClientFrame, Loop, LpRecv, LpRecvEnd, LpDrain, LpHandle, LpInit, LpSend, LpError,
           LpOver, LpClose, LpAbortReader, LpAbortWriter, LpFrame, writerVars,
           Writer, WrRecv, WrSend, WrSendToNobody, WrFrame, Reader, RdrNext, RdrStreamEnds, RdrLeave,
           RdrFrame, Browser, BrowserPings, BrowserCloses, ConnectionLost, BrFrame, vars
  <1> QED BY <1>1, <1>2, Zenon DEF Live

LEMMA CacheStep ==
  ASSUME ExactScreens, Typed, PrevInv, CacheInv, [Next]_vars
  PROVE  CacheInv'
  <1> SUFFICES ASSUME Live'
               PROVE  \E pic : Leads(canvas, Upcoming, pic)' /\ Agrees(pic)'
    BY DEF CacheInv
  <1> USE DEF Live
  <1>1. Live
    BY StaysOver
  <1>2. PICK pic : Leads(canvas, Upcoming, pic) /\ Agrees(pic)
    BY <1>1 DEF CacheInv
  <1> DEFINE Goal == \E p : Leads(canvas, Upcoming, p)' /\ Agrees(p)'
  <1>3. ASSUME UNCHANGED <<wsq, wr, wmsg, canvas, sized, prev, stale>> PROVE Goal
    <2>1. Upcoming' = Upcoming /\ Expected' = Expected
      BY <1>3 DEF Upcoming, Expected
    <2>2. Leads(canvas, Upcoming, pic)'
      BY <1>2, <1>3, <2>1
    <2>3. Agrees(pic)'
      BY <1>2, <1>3, <2>1 DEF Agrees
    <2> QED BY <2>2, <2>3
  \* A message that draws nothing.
  <1>4. ASSUME NEW m, Push(m), m.type \notin {"init", "tiles"},
               UNCHANGED <<wr, wmsg, canvas, sized, prev, stale>>
        PROVE  Goal
    <2>1. Shown(pic, m) = pic
      BY <1>4 DEF Shown
    <2>2. Leads(canvas, Upcoming, pic)'
      BY <1>1, <1>2, <1>4, <2>1, Queued
    <2>3. Agrees(pic)'
      BY <1>2, <1>4 DEF Agrees, Expected
    <2> QED BY <2>2, <2>3
  <1>5. CASE LpInit
    <2>1. PICK f : f = latest.frame
      OBVIOUS
    <2>2. PICK m : m = InitMessage(f.w, f.h)
      OBVIOUS
    <2>3. /\ Push(m) /\ UNCHANGED <<wr, wmsg, canvas, prev>> /\ sized' = SizeOf(f)
          /\ stale' = (Cardinality(DOMAIN prev) = f.w * f.h)
      BY <1>5, <2>1, <2>2 DEF LpInit, LpFrame, writerVars, SizeOf
    <2>4. PICK new : new = Shown(pic, m) /\ Leads(canvas, Upcoming, new)'
      BY <1>1, <1>2, <2>3, Queued
    <2>5. f \in Screens
      BY <1>5, <2>1, EventIs DEF LpInit, Typed, LoopType
    <2>6. new = Erased(f.w, f.h)
      BY <2>2, <2>4 DEF Shown, InitMessage
    <2>7. new = [c \in Area(f.w, f.h) |-> Black]
      BY <2>5, <2>6, ScreenIs, SessionAssumption DEF Erased
    <2>8. Expected' = f.w * f.h /\ sized'.w = f.w /\ sized'.h = f.h
      BY <2>3 DEF Expected, SizeOf
    <2>9. DOMAIN prev = 0..f.w * f.h - 1 => stale'
      BY <2>3, <2>5, AreaSize, SessionAssumption
    <2>10. Lacks(new, Pic(f.w, f.h, prev))
      BY <2>7 DEF Lacks, Pic
    <2>11. DOMAIN new = Area(f.w, f.h)
      BY <2>7
    <2>12. Agrees(new)'
      BY <2>3, <2>8, <2>9, <2>10, <2>11 DEF Agrees
    <2> QED BY <2>4, <2>12
  <1>6. CASE LpSend
    <2>1. PICK f, r : f = latest.frame /\ r = Process(prev, f)
      OBVIOUS
    <2>2. /\ f \in Screens /\ Exact(f) /\ sized = SizeOf(f)
          /\ DOMAIN r.prev = 0..Expected - 1 /\ Pic(f.w, f.h, r.prev) = Picture(f)
          /\ r.paint = {} => r.prev = prev
          /\ \A cv : /\ DOMAIN cv = Area(f.w, f.h)
                     /\ DOMAIN prev = 0..Expected - 1 => Lacks(cv, Pic(f.w, f.h, prev))
                     => \A p \in r.paint :
                          /\ Lacks(Painted(cv, p), Picture(f))
                          /\ \/ DOMAIN prev = 0..Expected - 1 => cv = Pic(f.w, f.h, prev)
                             \/ Whole(p, f)
                             => Painted(cv, p) = Picture(f)
      BY <1>6, <2>1, SentIs DEF LpSend
    <2>3. /\ prev' = r.prev /\ UNCHANGED <<wr, wmsg, canvas, sized>>
          /\ stale' = (stale /\ \A p \in r.paint : ~Whole(p, f))
      BY <1>6, <2>1 DEF LpSend, LpFrame, writerVars
    <2>4. CASE r.paint = {}
      <3>1. UNCHANGED <<prev, wsq>>
        BY <1>6, <2>1, <2>2, <2>3, <2>4 DEF LpSend
      <3>2. UNCHANGED stale
        BY <2>3, <2>4 DEF Typed, FlagType
      <3> QED BY <1>3, <2>3, <3>1, <3>2
    <2>5. ASSUME NEW p \in r.paint, Push(TilesMessage(p)) PROVE Goal
      <3>1. PICK m : m = TilesMessage(p)
        OBVIOUS
      <3>2. PICK new : new = Shown(pic, m) /\ Leads(canvas, Upcoming, new)'
        BY <1>1, <1>2, <2>3, <2>5, <3>1, Queued
      <3>3. new = Painted(pic, p)
        BY <3>1, <3>2 DEF Shown, TilesMessage
      <3>4. sized # NoSize /\ sized.w = f.w /\ sized.h = f.h
        BY <2>2, SessionAssumption DEF SizeOf, NoSize
      <3>5. /\ DOMAIN pic = Area(f.w, f.h)
            /\ DOMAIN prev = 0..Expected - 1 =>
                 /\ Lacks(pic, Pic(f.w, f.h, prev))
                 /\ ~stale => pic = Pic(f.w, f.h, prev)
        BY <1>2, <3>4 DEF Agrees
      <3>6. Lacks(new, Picture(f))
        BY <2>2, <3>3, <3>5
      <3>7. ~stale \/ Whole(p, f) => new = Picture(f)
        BY <2>2, <3>3, <3>5
      <3>8. ~stale' => new = Picture(f)
        <4>1. r.paint = {p}
          BY <2>1, <2>5 DEF Process, FullFrame, Batch
        <4> QED BY <2>3, <3>7, <4>1
      <3>9. DOMAIN new = Area(f.w, f.h)
        BY <2>2, <3>6 DEF Lacks, Pic
      <3>10. Picture(f) = Pic(sized.w, sized.h, prev)'
        BY <2>2, <2>3, <3>4
      <3>11. Agrees(new)'
        BY <2>3, <3>4, <3>6, <3>8, <3>9, <3>10 DEF Agrees
      <3> QED BY <3>2, <3>11
    <2> QED BY <1>6, <2>1, <2>4, <2>5 DEF LpSend
  <1>7. CASE LpError
    <2>1. Push(Plain("error")) /\ UNCHANGED <<wr, wmsg, canvas, sized, prev, stale>>
      BY <1>7 DEF LpError, LpStop, LpFrame, writerVars
    <2> QED BY <1>4, <2>1 DEF Plain
  <1>8. CASE RdrNext
    <2>1. UNCHANGED <<wr, wmsg, canvas, sized, prev, stale>>
      BY <1>8 DEF RdrNext, RdrFrame, writerVars, loopVars
    <2>2. UNCHANGED wsq \/ Push(Plain("pong"))
      BY <1>8 DEF RdrNext
    <2> QED BY <1>3, <1>4, <2>1, <2>2 DEF Plain
  <1>9. CASE WrRecv
    <2>1. /\ wr = "recv" /\ wsq # <<>> /\ wmsg' = Head(wsq) /\ wsq' = Tail(wsq)
          /\ wr' = "send" /\ UNCHANGED <<canvas, sized, prev, stale>>
      BY <1>1, <1>9 DEF WrRecv, WrFrame, loopVars
    <2>2. PICK S : wsq \in Seq(S) /\ wmsg \in S
      BY WiderSeq DEF Typed, QueueType
    <2>3. Upcoming' = Upcoming
      BY <2>1, <2>2, Ends DEF Upcoming
    <2>4. Leads(canvas, Upcoming, pic)'
      BY <1>2, <2>1, <2>3
    <2>5. Agrees(pic)'
      BY <1>2, <2>1 DEF Agrees, Expected
    <2> QED BY <2>4, <2>5
  <1>10. CASE WrSend
    <2>1. /\ wr = "send" /\ wr' = "recv" /\ canvas' = Shown(canvas, wmsg)
          /\ UNCHANGED <<wsq, wmsg, sized, prev, stale>>
      BY <1>10 DEF WrSend, WrFrame, loopVars
    <2>2. PICK S : /\ Upcoming \in Seq(S) /\ Upcoming # <<>> /\ Head(Upcoming) = wmsg
                   /\ Tail(Upcoming) = wsq /\ <<>> \o wsq = wsq
      BY <2>1, SendingIs
    <2>3. Upcoming' = wsq
      BY <2>1, <2>2 DEF Upcoming
    <2>4. Leads(Shown(canvas, wmsg), wsq, pic)
      BY <1>2, <2>2, LeadsFrom
    <2>5. Leads(canvas, Upcoming, pic)'
      BY <2>1, <2>3, <2>4
    <2>6. Agrees(pic)'
      BY <1>2, <2>1 DEF Agrees, Expected
    <2> QED BY <2>5, <2>6
  <1>11. CASE WrSendToNobody
    BY <1>1, <1>11 DEF WrSendToNobody
  <1>12. CASE LpAbortWriter
    BY <1>12 DEF LpAbortWriter
  <1>13. CASE LpRecv \/ LpRecvEnd \/ LpDrain \/ LpHandle \/ LpOver \/ LpClose \/ LpAbortReader
    BY <1>3, <1>13 DEF LpRecv, LpRecvEnd, LpDrain, LpHandle, LpOver, LpClose, LpAbortReader,
                       LpStop, LpFrame, writerVars
  <1>14. CASE Client \/ ClientCloses \/ RdrStreamEnds \/ RdrLeave \/ Browser \/ UNCHANGED vars
    BY <1>3, <1>14 DEF Client, ClientShows, ClientEmitsOther, ClientEnds, ClientDies,
                       ClientCloses, ClientFrame, RdrStreamEnds, RdrLeave, RdrFrame,
                       Browser, BrowserPings, BrowserCloses, ConnectionLost, BrFrame,
                       loopVars, writerVars, vars
  <1> QED BY <1>5, <1>6, <1>7, <1>8, <1>9, <1>10, <1>11, <1>12, <1>13, <1>14
          DEF Next, Loop, Writer, Reader

Inv == Typed /\ PrevInv /\ CacheInv

LEMMA Invariance == ASSUME ExactScreens PROVE Spec => []Inv
  <1>1. Init => Inv
    BY TypedInit, PrevInit, CacheInit DEF Inv
  <1>2. Inv /\ [Next]_vars => Inv'
    BY FlagsStep, QueueStep, LoopStep, PrevStep, CacheStep DEF Inv, Typed
  <1> QED BY <1>1, <1>2, PTL DEF Spec

LEMMA CacheNow == ASSUME Inv PROVE CacheIsShown
  <1> SUFFICES ASSUME running, wr # "done", browser = "open", lp = "recv", sized # NoSize,
                      NEW shown, shown = After(canvas, Upcoming),
                      NEW cached, cached = Picture([w |-> sized.w, h |-> sized.h, pix |-> prev])
               PROVE  Lacks(shown, cached) /\ (~stale => shown = cached)
    BY DEF CacheIsShown
  <1>1. PICK pic : Leads(canvas, Upcoming, pic) /\ Agrees(pic)
    BY DEF Inv, CacheInv, Live
  <1>2. sized.w \in Nat /\ sized.h \in Nat
    BY SizeIs DEF Inv, Typed, LoopType
  <1>3. cached = Pic(sized.w, sized.h, prev)
    BY <1>2, PictureIs
  <1>4. Lacks(pic, cached) /\ (~stale => pic = cached)
    BY <1>1, <1>3 DEF Inv, PrevInv, Agrees
  <1>5. Len(Upcoming) \in Nat
    BY UpcomingIs DEF Inv, IsSeq
  <1>6. pic = shown
    BY <1>1, <1>5, LeadsAfter
  <1> QED BY <1>4, <1>6

\* Whatever is dropped, batched or sent whole, a tile found unchanged is on the
\* canvas: for tiles, desktops and queues of every size. After a resize that kept
\* the number of pixels it may be missing there, and nothing is in its place.
THEOREM CacheShown == ASSUME ExactScreens PROVE Spec => []CacheIsShown
  BY Invariance, CacheNow, PTL

-----------------------------------------------------------------------------
(* The last frame.                                                          *)

\* The last frame is in the queue behind all others, in the loop's hand with
\* the queue empty, or cached.
LastInv ==
  /\ client = "up" /\ emitted.frames > 0 /\ emitted.others = 0
  /\ lp \in {"recv", "drain", "init", "frame"}
  => \/ out # <<>> /\ out[Len(out)] = Image(screen)
     \/ out = <<>> /\ lp # "recv" /\ latest = Image(screen)
     \/ /\ out = <<>> /\ lp = "recv" /\ sized = SizeOf(screen)
        /\ Pic(screen.w, screen.h, prev) = Picture(screen)

LEMMA LastInit == Init => LastInv
  BY DEF Init, LastInv

LEMMA LastStep ==
  ASSUME ExactScreens, Typed, PrevInv, LastInv, [Next]_vars
  PROVE  LastInv'
  <1> DEFINE Runs == lp \in {"recv", "drain", "init", "frame"}
  <1>1. ASSUME NEW f \in Screens, ClientShows(f) PROVE LastInv'
    <2>1. out' = Append(out, Image(f)) /\ screen' = f /\ out \in Seq(Events)
      BY <1>1 DEF ClientShows, Emit, Typed, QueueType
    <2>2. out' # <<>> /\ out'[Len(out')] = Image(screen)'
      BY <2>1
    <2> QED BY <2>2 DEF LastInv
  <1>2. CASE ClientEmitsOther
    <2>1. emitted'.others # 0
      BY <1>2 DEF ClientEmitsOther, Typed, FlagType
    <2> QED BY <2>1 DEF LastInv
  <1>3. CASE (\E k \in EndKinds : ClientEnds(k)) \/ ClientDies \/ ClientCloses
    <2>1. client' = "gone"
      BY <1>3 DEF ClientEnds, ClientDies, ClientCloses
    <2> QED BY <2>1 DEF LastInv
  <1>4. CASE LpRecv \/ LpDrain
    <2>1. /\ UNCHANGED <<client, emitted, screen>> /\ out # <<>> /\ out' = Tail(out)
          /\ latest' = Head(out) /\ Runs /\ (Runs' => lp' # "recv") /\ out \in Seq(Events)
      BY <1>4 DEF LpRecv, LpDrain, LpFrame, clientVars, Typed, QueueType
    <2>2. CASE out[Len(out)] = Image(screen)
      <3>1. CASE Tail(out) = <<>>
        <4>1. Len(Tail(out)) = Len(out) - 1 /\ Head(out) = out[1] /\ Len(out) \in Nat
          BY <2>1
        <4>2. Len(<<>>) = 0
          OBVIOUS
        <4>3. Len(Tail(out)) = 0
          BY <3>1, <4>2, Zenon
        <4>4. Len(out) = 1
          BY <4>1, <4>3
        <4>5. Head(out) = Image(screen)
          BY <2>2, <4>1, <4>4
        <4> QED BY <2>1, <3>1, <4>5 DEF LastInv
      <3>2. CASE Tail(out) # <<>>
        <4>1. out'[Len(out')] = out[Len(out)] /\ Image(screen)' = Image(screen)
          BY <2>1, <3>2
        <4> QED BY <2>1, <2>2, <3>2, <4>1 DEF LastInv
      <3> QED BY <3>1, <3>2
    <2> QED BY <2>1, <2>2 DEF LastInv
  <1>5. CASE LpHandle
    <2>1. UNCHANGED <<client, emitted, screen, out, latest>> /\ lp = "drain" /\ out = <<>>
      BY <1>5 DEF LpHandle, LpStop, LpFrame, clientVars
    <2>2. ASSUME latest.kind = "image" PROVE lp' # "recv"
      BY <1>5, <2>2 DEF LpHandle, LpStop
    <2>3. Image(screen).kind = "image"
      BY DEF Image
    <2> QED BY <2>1, <2>2, <2>3 DEF LastInv
  <1>6. CASE LpInit
    <2>1. UNCHANGED <<client, emitted, screen, out, latest>> /\ lp = "init" /\ lp' = "frame"
      BY <1>6 DEF LpInit, LpFrame, clientVars
    <2> QED BY <2>1 DEF LastInv
  <1>7. CASE LpSend
    <2>1. PICK f, r : f = latest.frame /\ r = Process(prev, f)
      OBVIOUS
    <2>2. sized = SizeOf(f) /\ Pic(f.w, f.h, r.prev) = Picture(f)
      BY <1>7, <2>1, SentIs DEF LpSend
    <2>3. /\ UNCHANGED <<client, emitted, screen, out, latest, sized>> /\ lp = "frame"
          /\ prev' = r.prev
      BY <1>7, <2>1 DEF LpSend, LpFrame, clientVars
    <2>4. lp' = "recv" \/ lp' = "over"
      BY <1>7 DEF LpSend
    <2>5. CASE out # <<>>
      BY <2>3, <2>5 DEF LastInv
    <2>6. CASE out = <<>> /\ latest = Image(screen)
      <3>1. f = screen
        BY <2>1, <2>6 DEF Image
      <3>2. sized' = SizeOf(screen)' /\ (Pic(screen.w, screen.h, prev) = Picture(screen))'
        BY <2>2, <2>3, <3>1
      <3> QED BY <2>3, <2>4, <2>6, <3>2 DEF LastInv
    <2>7. CASE out = <<>> /\ latest # Image(screen)
      BY <2>3, <2>7 DEF LastInv
    <2> QED BY <2>5, <2>6, <2>7
  <1>8. CASE LpRecvEnd \/ LpError \/ LpOver \/ LpClose \/ LpAbortReader \/ LpAbortWriter
    <2>1. ~Runs'
      BY <1>8 DEF LpRecvEnd, LpError, LpOver, LpClose, LpAbortReader, LpAbortWriter, LpStop
    <2> QED BY <2>1 DEF LastInv
  <1>9. CASE Writer \/ Reader \/ Browser \/ UNCHANGED vars
    <2>1. UNCHANGED <<client, emitted, screen, out, lp, latest, sized, prev>>
      BY <1>9 DEF Writer, WrRecv, WrSend, WrSendToNobody, WrFrame, Reader, RdrNext,
                   RdrStreamEnds, RdrLeave, RdrFrame, Browser, BrowserPings, BrowserCloses,
                   ConnectionLost, BrFrame, loopVars, clientVars, vars
    <2> QED BY <2>1 DEF LastInv
  <1> QED BY <1>1, <1>2, <1>3, <1>4, <1>5, <1>6, <1>7, <1>8, <1>9 DEF Next, Client, Loop

LEMMA LastInvariance == ASSUME ExactScreens PROVE Spec => [](Inv /\ LastInv)
  <1>1. Init => LastInv
    BY LastInit
  <1>2. Inv /\ LastInv /\ [Next]_vars => LastInv'
    BY LastStep DEF Inv
  <1> QED BY <1>1, <1>2, Invariance, PTL DEF Spec

LEMMA LastNow == ASSUME Inv, LastInv PROVE LatestFrameShown
  <1> SUFFICES ASSUME running, client = "up", browser = "open", wr = "recv", lp = "recv",
                      out = <<>>, wsq = <<>>, emitted.frames > 0, emitted.others = 0
               PROVE  Lacks(canvas, Picture(screen)) /\ (~stale => canvas = Picture(screen))
    BY DEF LatestFrameShown
  <1>1. sized = SizeOf(screen) /\ Pic(screen.w, screen.h, prev) = Picture(screen)
    BY DEF LastInv
  <1>2. PICK pic : Leads(canvas, <<>>, pic) /\ Agrees(pic)
    BY DEF Inv, CacheInv, Live, Upcoming
  <1>3. pic = canvas
    BY <1>2, LeadsNow
  <1>4. screen.w # 0
    BY SessionAssumption DEF Inv, Typed, FlagType, NoScreen
  <1>5. sized # NoSize /\ sized.w = screen.w /\ sized.h = screen.h
    BY <1>1, <1>4 DEF SizeOf, NoSize
  <1>6. PICK cached : cached = Pic(screen.w, screen.h, prev)
    OBVIOUS
  <1>7. Lacks(pic, cached) /\ (~stale => pic = cached)
    BY <1>2, <1>5, <1>6 DEF Inv, PrevInv, Agrees
  <1> QED BY <1>1, <1>3, <1>6, <1>7

\* Coalescing drops frames, never the last one: when all is at rest the browser
\* shows it, or after such a resize parts of it, for tiles, desktops and queues of
\* every size.
THEOREM LastShown == ASSUME ExactScreens PROVE Spec => []LatestFrameShown
  BY LastInvariance, LastNow, PTL

-----------------------------------------------------------------------------
(* Rest: who waits for whom when no task can go on.                         *)

\* A browser that closes says so behind everything it sent; the reader leaves its
\* loop with a close request, because the stream failed or as the handler ends;
\* the handler ends with every task told to; a writer that gave up did so for a browser that had left.
RestInv == /\ IsSeq(inbox)
           /\ browser = "closing" /\ rdr = "next" => inbox # <<>> /\ inbox[Len(inbox)] = "close"
           /\ ~running => rdr = "done" \/ (LoopOver /\ lp # "over")
           /\ rdr \in {"leave", "done"} => closeAsked \/ browser = "lost" \/ lp = "close"
           /\ lp \in {"abortReader", "abortWriter", "done"} => closeAsked
           /\ lp \in {"abortWriter", "done"} => rdr = "done"
           /\ lp = "done" => wr = "done"
           /\ wr = "done" /\ lp # "done" => browser # "open" \/ ~running

\* Taking a message from the inbox leaves the close behind it the last one.
LEMMA CloseStaysLast ==
  ASSUME NEW s, IsSeq(s), s # <<>>, s[Len(s)] = "close", Head(s) # "close"
  PROVE  Tail(s) # <<>> /\ Tail(s)[Len(Tail(s))] = "close"
  <1>1. PICK S : s \in Seq(S)
    BY DEF IsSeq
  <1>2. Len(s) \in Nat /\ Len(s) > 0 /\ Head(s) = s[1]
    BY <1>1
  <1>3. Len(s) # 1
    BY <1>2
  <1>4. Len(Tail(s)) = Len(s) - 1 /\ \A i \in 1..Len(s) - 1 : Tail(s)[i] = s[i + 1]
    BY <1>1, <1>2
  <1>5. Tail(s)[Len(Tail(s))] = s[Len(s)]
    <2>1. Len(s) - 1 \in 1..Len(s) - 1
      BY <1>2, <1>3
    <2> QED BY <1>2, <1>4, <2>1
  <1>6. Len(Tail(s)) # 0 /\ Len(<<>>) = 0
    BY <1>2, <1>3, <1>4
  <1>7. Tail(s) # <<>>
    BY <1>6, Zenon
  <1> QED BY <1>5, <1>7

LEMMA AppendEnds == ASSUME NEW s, IsSeq(s), NEW m
                    PROVE  Append(s, m) # <<>> /\ Append(s, m)[Len(Append(s, m))] = m
  <1>1. PICK S : s \in Seq(S) /\ m \in S
    BY WiderSeq
  <1>2. Len(Append(s, m)) = Len(s) + 1 /\ Len(s) \in Nat /\ Append(s, m)[Len(s) + 1] = m
    BY <1>1
  <1>3. Len(Append(s, m)) # 0 /\ Len(<<>>) = 0
    BY <1>2
  <1>4. Append(s, m) # <<>>
    BY <1>3, Zenon
  <1> QED BY <1>2, <1>4

LEMMA EmptyIs == IsSeq(<<>>)
  <1>1. <<>> \in Seq({})
    OBVIOUS
  <1> QED BY <1>1 DEF IsSeq

LEMMA RestInit == Init => RestInv
  BY EmptyIs DEF Init, RestInv

\* Every step keeps it.
LEMMA RestStep == ASSUME Typed, RestInv, [Next]_vars PROVE RestInv'
  <1> USE DEF RestInv, LoopOver
  <1>t. /\ browser \in {"open", "closing", "lost"} /\ rdr \in {"next", "leave", "done"}
        /\ wr \in {"recv", "send", "done"} /\ running \in BOOLEAN
    BY DEF Typed, FlagType
  <1>1. CASE Client \/ ClientCloses
    <2>1. UNCHANGED <<lp, wr, rdr, running, closeAsked, browser, inbox>>
      BY <1>1 DEF Client, ClientShows, ClientEmitsOther, ClientEnds, ClientDies, ClientCloses,
                  ClientFrame, loopVars, writerVars, browserVars
    <2> QED BY <2>1
  <1>2. CASE Loop
    <2>1. CASE LpRecv \/ LpRecvEnd \/ LpDrain \/ LpHandle \/ LpInit \/ LpSend \/ LpError
      <3>1. UNCHANGED <<wr, rdr, running, closeAsked, browser, inbox>>
        BY <2>1 DEF LpRecv, LpRecvEnd, LpDrain, LpHandle, LpInit, LpSend, LpError, LpFrame,
                    writerVars, browserVars
      <3>2. /\ lp \in {"recv", "drain", "init", "frame", "error"}
            /\ lp' \in {"recv", "drain", "init", "frame", "error", "over"}
        BY <2>1 DEF LpRecv, LpRecvEnd, LpDrain, LpHandle, LpInit, LpSend, LpError, LpStop
      <3> QED BY <3>1, <3>2
    <2>2. CASE LpOver
      BY <1>t, <2>2 DEF LpOver, LpStop, LpFrame, writerVars, browserVars
    <2>3. CASE LpClose
      BY <1>t, <2>3 DEF LpClose, LpStop, LpFrame, writerVars, browserVars
    <2>4. CASE LpAbortReader
      BY <1>t, <2>4 DEF LpAbortReader, LpStop, writerVars, browserVars
    <2>5. CASE LpAbortWriter
      BY <1>t, <2>5 DEF LpAbortWriter, LpStop, browserVars
    <2> QED BY <1>2, <2>1, <2>2, <2>3, <2>4, <2>5 DEF Loop
  <1>3. CASE Writer
    <2>1. UNCHANGED <<lp, rdr, running, closeAsked, browser, inbox>> /\ wr # "done"
      BY <1>3 DEF Writer, WrRecv, WrSend, WrSendToNobody, WrFrame, loopVars, browserVars
    <2>2. wr' = "done" => browser # "open" \/ ~running
      BY <1>3 DEF Writer, WrRecv, WrSend, WrSendToNobody
    <2> QED BY <2>1, <2>2
  <1>4. CASE RdrNext
    <2>1. /\ rdr = "next" /\ inbox # <<>> /\ inbox' = Tail(inbox)
          /\ UNCHANGED <<lp, wr, browser, running>>
      BY <1>4 DEF RdrNext, RdrFrame, loopVars, writerVars
    <2>2. IsSeq(inbox')
      BY <2>1, TailIs
    <2>3. CASE ~running
      <3>1. rdr' = "leave" /\ closeAsked' = closeAsked
        BY <1>4, <2>3 DEF RdrNext
      <3>2. LoopOver /\ lp # "over"
        BY <2>1, <2>3
      <3>3. lp \in {"close", "abortReader", "abortWriter", "done"}
        BY <3>2
      <3>4. closeAsked \/ lp = "close"
        BY <3>3
      <3> QED BY <2>1, <2>2, <2>3, <3>1, <3>3, <3>4
    <2>4. CASE running /\ Head(inbox) = "close"
      <3>1. rdr' = "leave" /\ closeAsked' = TRUE
        BY <1>4, <2>4 DEF RdrNext
      <3> QED BY <2>1, <2>2, <3>1
    <2>5. CASE running /\ Head(inbox) # "close"
      <3>1. UNCHANGED <<rdr, running, closeAsked>>
        BY <1>4, <2>5 DEF RdrNext
      <3>2. browser = "closing" => inbox' # <<>> /\ inbox'[Len(inbox')] = "close"
        BY <2>1, <2>5, CloseStaysLast
      <3> QED BY <2>1, <2>2, <3>1, <3>2
    <2> QED BY <2>3, <2>4, <2>5
  <1>5. CASE RdrStreamEnds \/ RdrLeave
    BY <1>t, <1>5 DEF RdrStreamEnds, RdrLeave, RdrFrame, loopVars, writerVars, browserVars
  <1>6. CASE BrowserPings
    <2>1. /\ browser = "open" /\ inbox' = Append(inbox, "ping")
          /\ UNCHANGED <<browser, lp, wr, rdr, running, closeAsked>>
      BY <1>6 DEF BrowserPings, BrFrame, loopVars, writerVars
    <2> QED BY <2>1, AppendIs
  <1>7. CASE BrowserCloses
    <2>1. /\ inbox' = Append(inbox, "close") /\ browser = "open" /\ browser' = "closing"
          /\ UNCHANGED <<lp, wr, rdr, running, closeAsked>>
      BY <1>7 DEF BrowserCloses, BrFrame, loopVars, writerVars
    <2> QED BY <2>1, AppendIs, AppendEnds
  <1>8. CASE ConnectionLost
    <2>1. browser' = "lost" /\ inbox' = <<>> /\ UNCHANGED <<lp, wr, rdr, running, closeAsked>>
      BY <1>8 DEF ConnectionLost, BrFrame, loopVars, writerVars
    <2> QED BY <2>1, EmptyIs
  <1>9. CASE UNCHANGED vars
    BY <1>9 DEF vars, loopVars, writerVars, browserVars
  <1> QED BY <1>1, <1>2, <1>3, <1>4, <1>5, <1>6, <1>7, <1>8, <1>9 DEF Next, Reader, Browser

LEMMA RestInvariant == Spec => [](Typed /\ RestInv)
  <1>1. Typed /\ RestInv /\ [Next]_vars => RestInv'
    BY RestStep
  <1> QED BY <1>1, RestInit, TypedAlways, PTL DEF Spec

Tasks == Loop \/ Writer \/ Reader \/ ClientCloses

\* A task that takes a step was ready: at rest only the desktop and the browser
\* move.
LEMMA StepsAreReady == Tasks => LoopReady \/ WriterReady \/ ReaderReady \/ ClientReady
  <1>1. Loop => LoopReady
    <2>1. LpSend => LoopReady
      <3> SUFFICES ASSUME LpSend PROVE LoopReady
        OBVIOUS
      <3>1. lp = "frame" /\ (Process(prev, latest.frame).paint = {} \/ WsRoom)
        BY DEF LpSend, Push, WsRoom
      <3> QED BY <3>1 DEF LoopReady
    <2> QED BY <2>1 DEF Loop, LpRecv, LpRecvEnd, LpDrain, LpHandle, LpInit, LpError, LpOver,
                        LpClose, LpAbortReader, LpAbortWriter, Push, LoopReady, WsRoom
  <1>2. Writer => WriterReady
    BY DEF Writer, WrRecv, WrSend, WrSendToNobody, WriterReady
  <1>3. Reader => ReaderReady
    BY DEF Reader, RdrNext, RdrStreamEnds, RdrLeave, Push, ReaderReady, WsRoom
  <1>4. ClientCloses => ClientReady
    BY DEF ClientCloses, ClientEnds, Emit, ClientReady
  <1> QED BY <1>1, <1>2, <1>3, <1>4 DEF Tasks

\* However the queues and the flag are used, the tasks never come to wait for
\* each other alone: for queues of every size and any number of frames.
THEOREM RestsIdle == Spec => []RestIsIdle
  <1>1. Typed /\ RestInv => RestIsIdle
    <2> SUFFICES ASSUME Typed, RestInv, AtRest
                 PROVE  \/ Over /\ client = "gone"
                        \/ AwaitsClient /\ AwaitsBrowser /\ running /\ wr = "recv" /\ wsq = <<>>
                        \/ AwaitsClient /\ browser = "lost" /\ rdr = "done"
      BY DEF RestIsIdle
    <2>1. ~LoopReady /\ ~WriterReady /\ ~ReaderReady /\ ~ClientReady
      BY DEF AtRest
    <2>2. /\ browser \in {"open", "closing", "lost"} /\ rdr \in {"next", "leave", "done"}
          /\ wr \in {"recv", "send", "done"} /\ running \in BOOLEAN /\ client \in {"up", "gone"}
      BY DEF Typed, FlagType
    <2>3. wr = "done" \/ (wr = "recv" /\ wsq = <<>>)
      BY <2>1, <2>2 DEF WriterReady
    <2>4. WsRoom
      BY <2>3, SessionAssumption DEF WsRoom, WriterGone
    <2>5. lp \in {"recv", "done"}
      BY <2>1, <2>4 DEF LoopReady, Typed, LoopType
    <2>6. CASE lp = "done"
      <3>1. wr = "done" /\ rdr = "done" /\ closeAsked
        BY <2>6 DEF RestInv
      <3>2. client = "gone"
        BY <2>1, <2>2, <2>6, <3>1 DEF ClientReady, Room, LoopOver
      <3> QED BY <2>6, <3>1, <3>2 DEF Over
    <2>7. CASE lp = "recv"
      <3>1. out = <<>> /\ client = "up"
        BY <2>1, <2>2, <2>7 DEF LoopReady
      <3>2. ~closeAsked
        BY <2>1, <3>1, SessionAssumption DEF ClientReady, Room
      <3>3. AwaitsClient
        BY <2>7, <3>1, <3>2 DEF AwaitsClient
      <3>4. CASE rdr = "next"
        <4>1. inbox = <<>> /\ browser # "lost"
          BY <2>1, <2>4, <3>4 DEF ReaderReady
        <4>2. browser = "open"
          BY <2>2, <3>4, <4>1 DEF RestInv
        <4>3. running /\ wr # "done"
          BY <2>7, <3>4, <4>2 DEF RestInv, LoopOver
        <4> QED BY <2>3, <3>3, <3>4, <4>1, <4>2, <4>3 DEF AwaitsBrowser
      <3>5. rdr # "leave"
        BY <2>1 DEF ReaderReady
      <3>6. CASE rdr = "done"
        BY <2>7, <3>2, <3>3, <3>6 DEF RestInv
      <3> QED BY <2>2, <3>4, <3>5, <3>6
    <2> QED BY <2>5, <2>6, <2>7
  <1> QED BY <1>1, RestInvariant, PTL

-----------------------------------------------------------------------------
(* How much a session can still do by itself.                               *)

\* What is left to do for a task where it is, and for each event and message.
LoopLeft == CASE lp = "drain" -> 12 [] lp = "init" -> 11 [] lp = "frame" -> 8
              [] lp = "error" -> 7 [] lp = "recv" -> 5 [] lp = "over" -> 4
              [] lp = "close" -> 3 [] lp = "abortReader" -> 2 [] lp = "abortWriter" -> 1
              [] OTHER -> 0
WriterLeft == CASE wr = "send" -> 2 [] wr = "recv" -> 1 [] OTHER -> 0
ReaderLeft == CASE rdr = "next" -> 2 [] rdr = "leave" -> 1 [] OTHER -> 0
ClientLeft == IF client = "up" THEN 9 ELSE 0

\* What is left to do at each place.
LoopWork == 8 * Len(out) + LoopLeft
WriterWork == 2 * Len(wsq) + WriterLeft
ReaderWork == 3 * Len(inbox) + ReaderLeft

Rank == LoopWork + WriterWork + ReaderWork + ClientLeft

LEMMA WorkIsNat == ASSUME Typed, RestInv
                   PROVE  /\ Len(out) \in Nat /\ Len(wsq) \in Nat /\ Len(inbox) \in Nat
                          /\ LoopLeft \in Nat /\ WriterLeft \in Nat /\ ReaderLeft \in Nat
                          /\ LoopWork \in Nat /\ WriterWork \in Nat /\ ReaderWork \in Nat
                          /\ ClientLeft \in Nat
  <1>1. Len(out) \in Nat /\ Len(wsq) \in Nat /\ Len(inbox) \in Nat
    BY DEF Typed, QueueType, RestInv, IsSeq
  <1>2. LoopLeft \in Nat /\ WriterLeft \in Nat /\ ReaderLeft \in Nat /\ ClientLeft \in Nat
    BY DEF LoopLeft, WriterLeft, ReaderLeft, ClientLeft
  <1>3. LoopWork \in Nat /\ WriterWork \in Nat /\ ReaderWork \in Nat
    BY <1>1, <1>2 DEF LoopWork, WriterWork, ReaderWork
  <1> QED BY <1>1, <1>2, <1>3

LEMMA RankIsNat == Typed /\ RestInv => Rank \in Nat
  BY WorkIsNat DEF Rank

\* Whatever is queued for the browser adds one message at the most.
LEMMA PushAdds == ASSUME Typed, RestInv, NEW m, Push(m), UNCHANGED WriterLeft
                  PROVE  \E n \in Nat : WriterWork' = n /\ n <= WriterWork + 2
  <1>1. Len(wsq) \in Nat /\ WriterLeft \in Nat /\ IsSeq(wsq)
    BY WorkIsNat DEF Typed, QueueType
  <1>2. CASE wsq' = wsq
    BY <1>1, <1>2 DEF WriterWork
  <1>3. CASE wsq' = Append(wsq, m)
    BY <1>1, <1>3, AppendIs DEF WriterWork
  <1> QED BY <1>2, <1>3 DEF Push

\* Each step of the loop uses some of it up ...
LEMMA LoopUsesUp == ASSUME Typed, RestInv, Loop PROVE Rank' < Rank
  <1>t. /\ Len(out) \in Nat /\ LoopLeft \in Nat
        /\ LoopWork \in Nat /\ WriterWork \in Nat /\ ReaderWork \in Nat /\ ClientLeft \in Nat
    BY WorkIsNat
  <1>s. \E n \in Nat : LoopLeft' = n
    BY DEF LoopLeft
  <1>1. UNCHANGED <<inbox, ClientLeft>>
    BY DEF Loop, LpRecv, LpRecvEnd, LpDrain, LpHandle, LpInit, LpSend, LpError, LpOver, LpClose,
           LpAbortReader, LpAbortWriter, LpFrame, clientVars, browserVars, ClientLeft
  <1>2. ASSUME LpFrame PROVE UNCHANGED <<WriterLeft, ReaderWork>>
    BY <1>1, <1>2 DEF LpFrame, writerVars, WriterLeft, ReaderLeft, ReaderWork
  \* Nothing is queued for the browser ...
  <1>3. ASSUME LpFrame, UNCHANGED wsq, \E n \in Nat : LoopWork' = n /\ n < LoopWork
        PROVE  Rank' < Rank
    <2>1. UNCHANGED WriterWork
      BY <1>2, <1>3 DEF WriterWork
    <2> QED BY <1>t, <1>1, <1>2, <1>3, <2>1 DEF Rank
  \* ... or a message is.
  <1>4. ASSUME NEW m, Push(m), LpFrame, UNCHANGED out, LoopLeft' + 3 <= LoopLeft
        PROVE  Rank' < Rank
    <2>1. \E n \in Nat : WriterWork' = n /\ n <= WriterWork + 2
      BY <1>2, <1>4, PushAdds
    <2>2. \E n \in Nat : LoopWork' = n /\ n + 3 <= LoopWork
      BY <1>t, <1>s, <1>4 DEF LoopWork
    <2> QED BY <1>t, <1>1, <1>2, <1>4, <2>1, <2>2 DEF Rank
  <1>5. ASSUME UNCHANGED out, LoopLeft' < LoopLeft
        PROVE  \E n \in Nat : LoopWork' = n /\ n < LoopWork
    BY <1>t, <1>s, <1>5 DEF LoopWork
  <1>6. CASE LpRecv \/ LpDrain
    <2>1. LpFrame /\ UNCHANGED wsq /\ LoopLeft' < LoopLeft + 8
      BY <1>6 DEF LpRecv, LpDrain, LoopLeft
    <2>2. Len(out') = Len(out) - 1 /\ Len(out') \in Nat
      BY <1>6 DEF LpRecv, LpDrain, Typed, QueueType
    <2>3. \E n \in Nat : LoopWork' = n /\ n < LoopWork
      BY <1>t, <1>s, <2>1, <2>2 DEF LoopWork
    <2> QED BY <1>3, <2>1, <2>3
  <1>7. CASE LpInit
    <2>1. /\ LpFrame /\ UNCHANGED out /\ LoopLeft = 11 /\ LoopLeft' = 8
          /\ Push(InitMessage(latest.frame.w, latest.frame.h))
      BY <1>7 DEF LpInit, LoopLeft
    <2> QED BY <1>4, <2>1
  <1>8. CASE LpSend
    <2>1. LpFrame /\ UNCHANGED out /\ LoopLeft = 8 /\ LoopLeft' <= 5
      BY <1>8 DEF LpSend, LoopLeft
    <2>2. LoopLeft' + 3 <= LoopLeft /\ LoopLeft' < LoopLeft
      BY <1>s, <2>1
    <2>3. UNCHANGED wsq \/ \E p : Push(TilesMessage(p))
      BY <1>8 DEF LpSend
    <2> QED BY <1>3, <1>4, <1>5, <2>1, <2>2, <2>3
  <1>9. CASE LpError
    <2>1. /\ LpFrame /\ UNCHANGED out /\ LoopLeft = 7 /\ LoopLeft' = 4
          /\ Push(Plain("error"))
      BY <1>9 DEF LpError, LpStop, LoopLeft
    <2> QED BY <1>4, <2>1
  <1>10. CASE LpRecvEnd \/ LpHandle \/ LpOver \/ LpClose
    <2>1. LpFrame /\ UNCHANGED <<out, wsq>>
      BY <1>10 DEF LpRecvEnd, LpHandle, LpOver, LpClose
    <2>2. LoopLeft' < LoopLeft
      <3>1. CASE LpHandle
        BY <3>1 DEF LpHandle, LpStop, LoopLeft
      <3> QED BY <1>10, <3>1 DEF LpRecvEnd, LpOver, LpClose, LpStop, LoopLeft
    <2> QED BY <1>3, <1>5, <2>1, <2>2
  <1>11. CASE LpAbortReader \/ LpAbortWriter
    <2>1. UNCHANGED <<out, wsq>> /\ LoopLeft' < LoopLeft
      BY <1>11 DEF LpAbortReader, LpAbortWriter, LpStop, LoopLeft
    <2>2. /\ ReaderLeft \in Nat /\ WriterLeft \in Nat /\ Len(inbox) \in Nat /\ Len(wsq) \in Nat
          /\ ReaderLeft' \in Nat /\ WriterLeft' \in Nat
      BY WorkIsNat DEF ReaderLeft, WriterLeft
    <2>3. ReaderLeft' <= ReaderLeft /\ WriterLeft' <= WriterLeft
      BY <1>11 DEF LpAbortReader, LpAbortWriter, ReaderLeft, WriterLeft, writerVars
    <2>4. \E n \in Nat : ReaderWork' = n /\ n <= ReaderWork
      BY <1>1, <2>2, <2>3 DEF ReaderWork
    <2>5. \E n \in Nat : WriterWork' = n /\ n <= WriterWork
      BY <2>1, <2>2, <2>3 DEF WriterWork
    <2>6. \E n \in Nat : LoopWork' = n /\ n < LoopWork
      BY <1>5, <2>1
    <2>7. PICK i \in Nat, j \in Nat, k \in Nat :
            /\ LoopWork' = i /\ WriterWork' = j /\ ReaderWork' = k
            /\ i < LoopWork /\ j <= WriterWork /\ k <= ReaderWork
      BY <2>4, <2>5, <2>6
    <2> QED BY <1>t, <1>1, <2>7 DEF Rank
  <1> QED BY <1>6, <1>7, <1>8, <1>9, <1>10, <1>11 DEF Loop

\* ... and of every other task.
LEMMA TasksUseUp == Typed /\ RestInv /\ Tasks => Rank' < Rank
  <1> SUFFICES ASSUME Typed, RestInv, Tasks PROVE Rank' < Rank
    OBVIOUS
  <1>t. /\ Len(out) \in Nat /\ Len(wsq) \in Nat /\ Len(inbox) \in Nat
        /\ LoopLeft \in Nat /\ WriterLeft \in Nat /\ ReaderLeft \in Nat
        /\ LoopWork \in Nat /\ WriterWork \in Nat /\ ReaderWork \in Nat /\ ClientLeft \in Nat
    BY WorkIsNat
  <1>s. WriterLeft' \in Nat /\ ReaderLeft' \in Nat
    BY DEF WriterLeft, ReaderLeft
  <1>1. CASE Writer
    <2>1. UNCHANGED <<LoopWork, ReaderWork, ClientLeft>>
      BY <1>1 DEF Writer, WrRecv, WrSend, WrSendToNobody, WrFrame, clientVars, loopVars,
                  browserVars, LoopLeft, ReaderLeft, ClientLeft, LoopWork, ReaderWork
    <2>2. \E n \in Nat : WriterWork' = n /\ n < WriterWork
      <3>1. CASE WrRecv
        <4>1. WriterLeft = 1 /\ WriterLeft' <= 2
          BY <3>1 DEF WrRecv, WriterLeft
        <4>2. Len(wsq') = Len(wsq) - 1 /\ Len(wsq') \in Nat
          BY <1>t, <3>1, TailIs DEF WrRecv, Typed, QueueType, IsSeq
        <4> QED BY <1>t, <1>s, <4>1, <4>2 DEF WriterWork
      <3>2. CASE WrSend \/ WrSendToNobody
        <4>1. UNCHANGED wsq /\ WriterLeft' < WriterLeft
          BY <3>2 DEF WrSend, WrSendToNobody, WriterLeft
        <4> QED BY <1>t, <1>s, <4>1 DEF WriterWork
      <3> QED BY <1>1, <3>1, <3>2 DEF Writer
    <2> QED BY <1>t, <2>1, <2>2 DEF Rank
  <1>2. CASE Reader
    <2>1. UNCHANGED <<LoopWork, WriterLeft, ClientLeft>>
      BY <1>2 DEF Reader, RdrNext, RdrStreamEnds, RdrLeave, RdrFrame, clientVars, loopVars, writerVars,
                  LoopLeft, WriterLeft, ClientLeft, LoopWork
    <2>2. CASE RdrNext
      <3>1. Len(inbox') = Len(inbox) - 1 /\ Len(inbox') \in Nat
        BY <1>t, <2>2, TailIs DEF RdrNext, RestInv, IsSeq
      <3>2. ReaderLeft' <= ReaderLeft
        BY <2>2 DEF RdrNext, ReaderLeft
      <3>3. \E n \in Nat : ReaderWork' = n /\ n + 3 <= ReaderWork
        BY <1>t, <1>s, <3>1, <3>2 DEF ReaderWork
      <3>4. UNCHANGED wsq \/ Push(Plain("pong"))
        BY <2>2 DEF RdrNext
      <3>5. \E n \in Nat : WriterWork' = n /\ n <= WriterWork + 2
        <4>1. CASE UNCHANGED wsq
          BY <1>t, <2>1, <4>1 DEF WriterWork
        <4> QED BY <2>1, <3>4, <4>1, PushAdds
      <3> QED BY <1>t, <2>1, <3>3, <3>5 DEF Rank
    <2>3. CASE RdrStreamEnds \/ RdrLeave
      <3>1. UNCHANGED <<wsq, inbox>> /\ ReaderLeft' < ReaderLeft
        BY <2>3 DEF RdrStreamEnds, RdrLeave, browserVars, ReaderLeft
      <3>2. UNCHANGED WriterWork
        BY <2>1, <3>1 DEF WriterWork
      <3>3. \E n \in Nat : ReaderWork' = n /\ n < ReaderWork
        BY <1>t, <1>s, <3>1 DEF ReaderWork
      <3> QED BY <1>t, <2>1, <3>2, <3>3 DEF Rank
    <2> QED BY <1>2, <2>2, <2>3 DEF Reader
  <1>3. CASE ClientCloses
    <2>1. UNCHANGED <<LoopLeft, WriterWork, ReaderWork>>
      BY <1>3 DEF ClientCloses, ClientEnds, ClientFrame, loopVars, writerVars, browserVars,
                  LoopLeft, WriterLeft, ReaderLeft, WriterWork, ReaderWork
    <2>2. ClientLeft = 9 /\ ClientLeft' = 0
      BY <1>3 DEF ClientCloses, ClientEnds, ClientLeft
    <2>3. Len(out') = Len(out) + 1
      BY <1>3, AppendIs DEF ClientCloses, ClientEnds, Emit, Typed, QueueType, IsSeq
    <2>4. LoopWork' = LoopWork + 8
      BY <1>t, <2>1, <2>3 DEF LoopWork
    <2> QED BY <1>t, <2>1, <2>2, <2>4 DEF Rank
  <1> QED BY <1>1, <1>2, <1>3, LoopUsesUp DEF Tasks

Outside == (\E f \in Screens : ClientShows(f)) \/ ClientEmitsOther \/ BrowserPings \/ BrowserCloses

\* Only new events of the desktop and new messages of the browser add to it: not
\* the desktop's last event, nor the loss of the connection.
LEMMA OutsideAdds == Typed /\ RestInv /\ (Client \/ Browser \/ UNCHANGED vars)
                     => Rank' <= Rank \/ Outside
  <1> SUFFICES ASSUME Typed, RestInv, Client \/ Browser \/ UNCHANGED vars, ~Outside
               PROVE  Rank' <= Rank
    OBVIOUS
  <1>t. /\ Len(out) \in Nat /\ Len(inbox) \in Nat /\ LoopLeft \in Nat /\ ReaderLeft \in Nat
        /\ LoopWork \in Nat /\ WriterWork \in Nat /\ ReaderWork \in Nat /\ ClientLeft \in Nat
    BY WorkIsNat
  <1>1. CASE Client
    <2>1. UNCHANGED <<LoopLeft, WriterWork, ReaderWork>>
      BY <1>1 DEF Client, ClientShows, ClientEmitsOther, ClientEnds, ClientDies, ClientFrame,
                  loopVars, writerVars, browserVars, LoopLeft, WriterLeft, ReaderLeft, WriterWork,
                  ReaderWork
    <2>2. ClientLeft = 9 /\ ClientLeft' = 0
      BY <1>1 DEF Client, Outside, ClientEnds, ClientDies, ClientLeft
    <2>3. Len(out') \in Nat /\ Len(out') <= Len(out) + 1
      <3>1. CASE ClientDies
        BY <1>t, <3>1 DEF ClientDies
      <3>2. ASSUME NEW k \in EndKinds, ClientEnds(k) PROVE Len(out') = Len(out) + 1
        BY <3>2, AppendIs DEF ClientEnds, Emit, Typed, QueueType, IsSeq
      <3> QED BY <1>t, <1>1, <3>1, <3>2 DEF Client, Outside
    <2>4. \E n \in Nat : LoopWork' = n /\ n <= LoopWork + 8
      BY <1>t, <2>1, <2>3 DEF LoopWork
    <2> QED BY <1>t, <2>1, <2>2, <2>4 DEF Rank
  <1>2. CASE ConnectionLost
    <2>1. UNCHANGED <<LoopWork, WriterWork, ReaderLeft, ClientLeft>>
      BY <1>2 DEF ConnectionLost, BrFrame, clientVars, loopVars, writerVars, LoopLeft, WriterLeft,
                  ReaderLeft, ClientLeft, LoopWork, WriterWork
    <2>2. Len(inbox') = 0
      BY <1>2 DEF ConnectionLost
    <2>3. \E n \in Nat : ReaderWork' = n /\ n <= ReaderWork
      BY <1>t, <2>1, <2>2 DEF ReaderWork
    <2> QED BY <1>t, <2>1, <2>3 DEF Rank
  <1>3. CASE UNCHANGED vars
    <2>1. UNCHANGED <<LoopWork, WriterWork, ReaderWork, ClientLeft>>
      BY <1>3 DEF vars, clientVars, loopVars, writerVars, browserVars, LoopLeft, WriterLeft,
                  ReaderLeft, ClientLeft, LoopWork, WriterWork, ReaderWork
    <2> QED BY <1>t, <2>1 DEF Rank
  <1> QED BY <1>1, <1>2, <1>3 DEF Browser, Outside

\* A step of a task brings the session nearer to rest, and nothing but the
\* desktop or the browser gives it more to do. Together with RestsIdle: after as
\* many steps as Rank says the session is over, or waits for one of the two.
StepsCount == [][/\ Tasks => Rank' < Rank
                 /\ Rank' > Rank => Outside]_vars

\* No task spins, whatever the others do: coalescing ends, and every message in
\* either queue is dealt with once.
THEOREM EveryStepCounts == Spec => [](Rank \in Nat) /\ StepsCount
  <1>1. Typed /\ RestInv /\ Rank \in Nat /\ (Rank \in Nat)' /\ [Next]_vars =>
          [/\ Tasks => Rank' < Rank
           /\ Rank' > Rank => Outside]_vars
    <2> SUFFICES ASSUME Typed, RestInv, Rank \in Nat, (Rank \in Nat)', [Next]_vars
                 PROVE  /\ Tasks => Rank' < Rank
                        /\ Rank' > Rank => Outside
      OBVIOUS
    <2>1. Tasks \/ Client \/ Browser \/ UNCHANGED vars
      BY DEF Next, Tasks
    <2> QED BY <2>1, TasksUseUp, OutsideAdds
  <1> QED BY <1>1, RankIsNat, RestInvariant, PTL DEF Spec, StepsCount

-----------------------------------------------------------------------------
(* What is on its way, as a sequence.                                       *)

LEMMA OneType == ASSUME NEW a, IsSeq(a), NEW b, IsSeq(b), NEW c, IsSeq(c), NEW x
                 PROVE  \E S : a \in Seq(S) /\ b \in Seq(S) /\ c \in Seq(S) /\ x \in S
  <1>1. PICK A, B, C : a \in Seq(A) /\ b \in Seq(B) /\ c \in Seq(C)
    BY DEF IsSeq
  <1>2. PICK S : S = A \cup B \cup C \cup {x}
    OBVIOUS
  <1>3. A \subseteq S /\ B \subseteq S /\ C \subseteq S /\ x \in S
    BY <1>2
  <1>4. a \in Seq(S)
    BY <1>1, <1>3, SeqMonotonic
  <1>5. b \in Seq(S)
    BY <1>1, <1>3, SeqMonotonic
  <1>6. c \in Seq(S)
    BY <1>1, <1>3, SeqMonotonic
  <1> QED BY <1>3, <1>4, <1>5, <1>6

LEMMA SameSeq == ASSUME NEW s, IsSeq(s), NEW t, IsSeq(t), Len(s) = Len(t),
                        \A i \in 1..Len(s) : s[i] = t[i]
                 PROVE  s = t
  <1>1. PICK S : s \in Seq(S) /\ t \in Seq(S)
    BY OneType
  <1> QED BY <1>1, SeqEqual

\* A sequence given element by element.
IsList(n, f) == f = [i \in 1..n |-> f[i]]

LEMMA ListIs == ASSUME NEW n \in Nat, NEW f, IsList(n, f)
                PROVE  IsSeq(f) /\ Len(f) = n /\ DOMAIN f = 1..n
  <1>1. PICK S : S = {f[i] : i \in 1..n}
    OBVIOUS
  <1>2. f \in [1..n -> S]
    BY <1>1 DEF IsList
  <1>3. f \in Seq(S)
    BY <1>2
  <1> QED BY <1>2, <1>3 DEF IsSeq

\* One more at the end, one less at the front.
LEMMA ListGrows == ASSUME NEW n \in Nat, NEW f, IsList(n, f), NEW k, k = n + 1, NEW g, IsList(k, g),
                          \A i \in 1..n : g[i] = f[i]
                   PROVE  g = Append(f, g[k])
  <1>1. IsSeq(f) /\ Len(f) = n /\ IsSeq(g) /\ Len(g) = n + 1
    <2>1. IsSeq(f) /\ Len(f) = n
      BY ListIs
    <2>2. k \in Nat
      OBVIOUS
    <2>3. IsSeq(g) /\ Len(g) = k
      BY <2>2, ListIs
    <2> QED BY <2>1, <2>3
  <1>2. PICK S : f \in Seq(S) /\ g[n + 1] \in S
    BY <1>1, OneType
  <1>3. /\ Append(f, g[n + 1]) \in Seq(S) /\ Len(Append(f, g[n + 1])) = n + 1
        /\ Append(f, g[n + 1])[n + 1] = g[n + 1]
        /\ \A i \in 1..n : Append(f, g[n + 1])[i] = f[i]
    BY <1>1, <1>2
  <1>4. \A i \in 1..n + 1 : i \in 1..n \/ i = n + 1
    OBVIOUS
  <1>5. \A i \in 1..n + 1 : g[i] = Append(f, g[n + 1])[i]
    BY <1>3, <1>4
  <1>6. g = Append(f, g[n + 1])
    BY <1>1, <1>3, <1>5, SameSeq DEF IsSeq
  <1> QED BY <1>6

LEMMA ListShrinks == ASSUME NEW n \in Nat, NEW f, IsList(n + 1, f),
                            NEW g, g = [i \in 1..n |-> f[i + 1]]
                     PROVE  f = <<f[1]>> \o g
  <1>1. IsSeq(f) /\ Len(f) = n + 1
    BY ListIs
  <1>2. \A i \in 1..n : g[i] = f[i + 1]
    OBVIOUS
  <1>3. IsList(n, g)
    BY DEF IsList
  <1>4. IsSeq(g) /\ Len(g) = n
    BY <1>3, ListIs
  <1>5. PICK S : g \in Seq(S) /\ f[1] \in S
    BY <1>4, OneType
  <1>6. <<f[1]>> \in Seq(S) /\ Len(<<f[1]>>) = 1 /\ <<f[1]>>[1] = f[1]
    BY <1>5
  <1>7. /\ <<f[1]>> \o g \in Seq(S) /\ Len(<<f[1]>> \o g) = n + 1
        /\ \A i \in 1..n + 1 :
             (<<f[1]>> \o g)[i] = IF i <= 1 THEN <<f[1]>>[i] ELSE g[i - 1]
    BY <1>4, <1>5, <1>6, ConcatProperties
  <1>8. ASSUME NEW i \in 1..n + 1 PROVE f[i] = (<<f[1]>> \o g)[i]
    <2>1. CASE i = 1
      BY <1>6, <1>7, <2>1
    <2>2. CASE i # 1
      <3>1. i - 1 \in 1..n /\ (i - 1) + 1 = i /\ ~(i <= 1)
        BY <2>2
      <3> QED BY <1>2, <1>7, <3>1
    <2> QED BY <2>1, <2>2
  <1> QED BY <1>1, <1>7, <1>8, SameSeq DEF IsSeq

\* Three parts in a row.
LEMMA Parts == ASSUME NEW a, IsSeq(a), NEW b, IsSeq(b), NEW c, IsSeq(c), NEW x
               PROVE  /\ IsSeq(a \o b \o c) /\ Len(a \o b \o c) = Len(a) + Len(b) + Len(c)
                      /\ Len(a) \in Nat /\ Len(b) \in Nat /\ Len(c) \in Nat
                      /\ a \o b \o c = a \o (b \o c) /\ IsSeq(b \o c)
                      /\ a \o <<>> \o c = a \o c /\ a \o b \o <<>> = a \o b /\ IsSeq(a \o b)
                      /\ a \o <<>> = a /\ <<>> \o a = a
                      /\ Append(a, x) = a \o <<x>> /\ IsSeq(<<x>>) /\ IsSeq(<<>>)
  <1>1. PICK S : a \in Seq(S) /\ b \in Seq(S) /\ c \in Seq(S) /\ x \in S
    BY OneType
  <1>2. <<>> \in Seq(S) /\ <<x>> \in Seq(S) /\ Append(a, x) = a \o <<x>>
    BY <1>1
  <1>3. /\ a \o b \in Seq(S) /\ b \o c \in Seq(S)
        /\ Len(a \o b) = Len(a) + Len(b)
    BY <1>1, ConcatProperties
  <1>4. a \o b \o c \in Seq(S) /\ Len(a \o b \o c) = Len(a) + Len(b) + Len(c)
    BY <1>1, <1>3, ConcatProperties
  <1>5. a \o b \o c = a \o (b \o c)
    BY <1>1, ConcatAssociative
  <1>6. /\ a \o <<>> = a /\ <<>> \o a = a
        /\ (a \o b) \o <<>> = a \o b
    BY <1>1, <1>3, ConcatEmptySeq
  <1>7. a \o <<>> \o c = a \o c
    BY <1>6
  <1> QED BY <1>1, <1>2, <1>3, <1>4, <1>5, <1>6, <1>7 DEF IsSeq

\* What a Display may send instead of what it skips: nothing, something that shows
\* nothing, or an empty canvas.
Empties == {Erased(f.w, f.h) : f \in Screens \cup {Asked, NoScreen}}
Nothing == {<<>>, <<{}>>}
Emptied == {<<{b}>> : b \in Empties}

Fades == Live /\ stale

LEMMA SkipIs ==
  ASSUME NEW a, IsSeq(a), NEW b, IsSeq(b), NEW c, IsSeq(c), NEW new,
         \/ new \in Nothing /\ (Fades' => Fades)
         \/ new \in Emptied,
         Due = a \o b \o c, Due' = a \o new \o c, UNCHANGED canvas
  PROVE  D!Skip
  <1>1. PICK d : d = Due
    OBVIOUS
  <1>2. PICK S : a \in Seq(S) /\ b \in Seq(S) /\ c \in Seq(S)
    BY OneType
  <1>3. PICK e, f : e = a \o b /\ f = b \o c
    OBVIOUS
  <1>4. e \in Seq(S) /\ f \in Seq(S) /\ Len(e) = Len(a) + Len(b)
    BY <1>2, <1>3, ConcatProperties
  <1>5. d = a \o f /\ d = e \o c
    BY <1>1, <1>3, Parts
  <1>6. PICK i, j : i = Len(a) /\ j = Len(e)
    OBVIOUS
  <1>7. i \in 0..Len(d) /\ j \in 0..Len(d) /\ i <= j
    <2>1. Len(e \o c) = Len(e) + Len(c)
      BY <1>2, <1>4, ConcatProperties
    <2>2. Len(a) \in Nat /\ Len(b) \in Nat /\ Len(c) \in Nat
      BY <1>2
    <2> QED BY <1>4, <1>5, <1>6, <2>1, <2>2
  <1>8. SubSeq(d, 1, i) = a
    <2>1. SubSeq(a \o f, 1, Len(a)) = a
      BY <1>2, <1>4
    <2> QED BY <1>5, <1>6, <2>1
  <1>9. SubSeq(d, j + 1, Len(d)) = c
    <2>1. SubSeq(e \o c, Len(e) + 1, Len(e \o c)) = c
      BY <1>2, <1>4
    <2> QED BY <1>5, <1>6, <2>1, Zenon
  <1>10. Due' = SubSeq(d, 1, i) \o new \o SubSeq(d, j + 1, Len(d))
    BY <1>8, <1>9, Zenon
  <1>11. D!Replaces(d, Due', new)
    <2>1. j \in i..Len(d)
      BY <1>2, <1>7
    <2> QED BY <1>7, <1>10, <2>1, Zenon DEF D!Replaces
  <1>12. CASE new \in Nothing /\ (Fades' => Fades)
    BY <1>1, <1>11, <1>12, Zenon DEF D!Skip, Nothing, Fades
  <1>13. CASE new \in Emptied
    <2>1. (Live /\ stale)' \in BOOLEAN
      BY Zenon
    <2> QED BY <1>1, <1>11, <1>13, <2>1, Zenon DEF D!Skip, Emptied, Empties
  <1> QED BY <1>12, <1>13

\* What is on its way when a message is added at the end, or the first arrives.
LEMMA PicturesOn ==
  ASSUME NEW M, NEW msgs \in Seq(M), NEW m \in M, NEW cv, NEW pic, Leads(cv, msgs, pic)
  PROVE  Pictures(cv, Append(msgs, m))
           = Append(Pictures(cv, msgs), IF Draws(m) THEN {Shown(pic, m)} ELSE {})
  <1>1. PICK s : Film(s, cv, msgs) /\ s[Len(msgs)] = pic
    BY DEF Leads
  <1>2. PICK n \in Nat : n = Len(msgs)
    OBVIOUS
  <1>3. PICK t : t = [i \in 0..n + 1 |-> IF i = n + 1 THEN Shown(s[n], m) ELSE s[i]]
    OBVIOUS
  <1>4. PICK all : all = Append(msgs, m)
    OBVIOUS
  <1>5. Film(t, cv, all)
    BY <1>1, <1>2, <1>3, <1>4, FilmOn
  <1>6. /\ Len(all) = n + 1 /\ DOMAIN all = 1..n + 1 /\ DOMAIN msgs = 1..n
        /\ all[n + 1] = m /\ \A i \in 1..n : all[i] = msgs[i]
    BY <1>2, <1>4
  <1>7. Stills(cv, msgs) = s /\ Stills(cv, all) = t
    BY <1>1, <1>2, <1>5, <1>6, FilmIs
  <1>8. PICK f : f = [i \in 1..n |-> IF Draws(msgs[i]) THEN {s[i]} ELSE {}]
    OBVIOUS
  <1>9. PICK g : g = [i \in 1..n + 1 |-> IF Draws(all[i]) THEN {t[i]} ELSE {}]
    OBVIOUS
  <1>10. f = Pictures(cv, msgs) /\ g = Pictures(cv, all)
    BY <1>6, <1>7, <1>8, <1>9, Zenon DEF Pictures
  <1>11. PICK k : k = n + 1
    OBVIOUS
  <1>12. \A i \in 1..n : g[i] = f[i]
    <2>1. \A i \in 1..n : t[i] = s[i] /\ i \in 1..n + 1
      BY <1>3
    <2> QED BY <1>6, <1>8, <1>9, <2>1
  <1>13. g[n + 1] = IF Draws(m) THEN {Shown(pic, m)} ELSE {}
    <2>1. t[n + 1] = Shown(pic, m)
      BY <1>1, <1>2, <1>3
    <2>2. n + 1 \in 1..n + 1
      OBVIOUS
    <2>3. g[n + 1] = IF Draws(all[n + 1]) THEN {t[n + 1]} ELSE {}
      BY <1>9, <2>2, Zenon
    <2> QED BY <1>6, <2>1, <2>3, Zenon
  <1>14. g = Append(f, g[n + 1])
    <2>1. IsList(n, f)
      BY <1>8 DEF IsList
    <2>2. IsList(k, g)
      BY <1>9, <1>11 DEF IsList
    <2>3. g = Append(f, g[k])
      BY <1>11, <1>12, <2>1, <2>2, ListGrows
    <2> QED BY <1>11, <2>3
  <1> QED BY <1>4, <1>10, <1>13, <1>14

LEMMA PicturesFrom ==
  ASSUME NEW M, NEW msgs \in Seq(M), msgs # <<>>, NEW cv, NEW pic, Leads(cv, msgs, pic),
         NEW m, m = Head(msgs)
  PROVE  Pictures(cv, msgs)
           = <<IF Draws(m) THEN {Shown(cv, m)} ELSE {}>> \o Pictures(Shown(cv, m), Tail(msgs))
  <1>1. PICK s : Film(s, cv, msgs) /\ s[Len(msgs)] = pic
    BY DEF Leads
  <1>2. PICK n \in Nat : n = Len(Tail(msgs)) /\ Len(msgs) = n + 1
    OBVIOUS
  <1>3. PICK t : t = [i \in 0..n |-> s[i + 1]]
    OBVIOUS
  <1>4. PICK rest : rest = Tail(msgs)
    OBVIOUS
  <1>5. Film(t, Shown(cv, m), rest)
    BY <1>1, <1>2, <1>3, <1>4, FilmFrom
  <1>6. /\ DOMAIN msgs = 1..n + 1 /\ DOMAIN rest = 1..n /\ Len(rest) = n
        /\ msgs[1] = m /\ \A i \in 1..n : rest[i] = msgs[i + 1]
    BY <1>2, <1>4
  <1>7. Stills(cv, msgs) = s /\ Stills(Shown(cv, m), rest) = t
    BY <1>1, <1>2, <1>5, <1>6, FilmIs
  <1>8. PICK f : f = [i \in 1..n + 1 |-> IF Draws(msgs[i]) THEN {s[i]} ELSE {}]
    OBVIOUS
  <1>9. PICK g : g = [i \in 1..n |-> IF Draws(rest[i]) THEN {t[i]} ELSE {}]
    OBVIOUS
  <1>10. f = Pictures(cv, msgs) /\ g = Pictures(Shown(cv, m), rest)
    BY <1>6, <1>7, <1>8, <1>9, Zenon DEF Pictures
  <1>11. IsList(n + 1, f)
    BY <1>8 DEF IsList
  <1>12. g = [i \in 1..n |-> f[i + 1]]
    <2>1. \A i \in 1..n : t[i] = s[i + 1] /\ i + 1 \in 1..n + 1
      BY <1>3
    <2> QED BY <1>6, <1>8, <1>9, <2>1
  <1>13. f[1] = IF Draws(m) THEN {Shown(cv, m)} ELSE {}
    <2>1. s[1] = Shown(cv, m)
      BY <1>1, <1>2, <1>6 DEF Film
    <2>2. 1 \in 1..n + 1
      OBVIOUS
    <2>3. f[1] = IF Draws(msgs[1]) THEN {s[1]} ELSE {}
      BY <1>8, <2>2, Zenon
    <2> QED BY <1>6, <2>1, <2>3, Zenon
  <1>14. f = <<f[1]>> \o g
    BY <1>11, <1>12, ListShrinks, Zenon
  <1> QED BY <1>4, <1>10, <1>13, <1>14

LEMMA PicturesAre == ASSUME NEW cv, NEW msgs, IsSeq(msgs) PROVE IsSeq(Pictures(cv, msgs))
  <1>1. PICK S : msgs \in Seq(S)
    BY DEF IsSeq
  <1>2. PICK n \in Nat : n = Len(msgs) /\ DOMAIN msgs = 1..n
    BY <1>1
  <1>3. PICK s : s = Stills(cv, msgs)
    OBVIOUS
  <1>4. PICK f : f = [i \in 1..n |-> IF Draws(msgs[i]) THEN {s[i]} ELSE {}]
    OBVIOUS
  <1>5. f = Pictures(cv, msgs)
    BY <1>2, <1>3, <1>4, Zenon DEF Pictures
  <1>6. IsList(n, f)
    BY <1>4 DEF IsList
  <1> QED BY <1>5, <1>6, ListIs
-----------------------------------------------------------------------------
(* Every step of the session is a step of a Display.                        *)

LEMMA WaitingIs ==
  ASSUME Typed
  PROVE  /\ IsSeq(OnTheWay) /\ IsSeq(InHand) /\ IsSeq(Waiting)
         /\ out = <<>> => Waiting = <<>>
  <1>1. IsSeq(OnTheWay)
    BY UpcomingIs, PicturesAre DEF OnTheWay
  <1>2. IsSeq(InHand)
    BY Parts, EmptyIs DEF InHand
  <1>3. PICK n \in Nat : n = Len(out) /\ DOMAIN out = 1..n
    BY DEF Typed, QueueType
  <1>4. PICK f : f = [i \in 1..n |-> Shows(out[i])]
    OBVIOUS
  <1>5. IsList(n, f) /\ IsSeq(f)
    <2>1. IsList(n, f)
      BY <1>4 DEF IsList
    <2> QED BY <2>1, ListIs
  <1>6. Waiting = IF LoopOver \/ lp = "error" THEN <<>> ELSE f
    BY <1>3, <1>4, Zenon DEF Waiting
  <1>7. out = <<>> => Waiting = <<>>
    <2>1. ASSUME n = 0 PROVE f = <<>>
      BY <1>5, <2>1, ListIs DEF IsSeq
    <2> QED BY <1>3, <1>6, <2>1
  <1> QED BY <1>1, <1>2, <1>5, <1>6, <1>7, EmptyIs

\* An event is queued.
LEMMA WaitingGrows ==
  ASSUME Typed, ~LoopOver, lp # "error", UNCHANGED lp, NEW e, out' = Append(out, e)
  PROVE  Waiting' = Append(Waiting, Shows(e))
  <1>1. PICK q : q = Append(out, e)
    OBVIOUS
  <1>2. PICK n \in Nat : n = Len(out) /\ DOMAIN out = 1..n
    BY DEF Typed, QueueType
  <1>3. PICK k : k = n + 1
    OBVIOUS
  <1>4. DOMAIN q = 1..k /\ q[k] = e /\ \A i \in 1..n : q[i] = out[i]
    <2>1. PICK S : out \in Seq(S) /\ e \in S
      BY WiderSeq DEF Typed, QueueType, IsSeq
    <2> QED BY <1>1, <1>2, <1>3, <2>1
  <1>5. PICK f : f = [i \in 1..n |-> Shows(out[i])]
    OBVIOUS
  <1>6. PICK g : g = [i \in 1..k |-> Shows(q[i])]
    OBVIOUS
  <1>7. Waiting = f
    BY <1>2, <1>5, Zenon DEF Waiting
  <1>8. Waiting' = g
    <2>1. ~LoopOver' /\ lp' # "error" /\ out' = q
      BY <1>1 DEF LoopOver
    <2> QED BY <1>4, <1>6, <2>1, Zenon DEF Waiting
  <1>9. \A i \in 1..n : g[i] = f[i]
    <2>1. \A i \in 1..n : i \in 1..k
      BY <1>3
    <2> QED BY <1>4, <1>5, <1>6, <2>1
  <1>10. g[k] = Shows(e)
    <2>1. k \in 1..k
      BY <1>3
    <2>2. g[k] = Shows(q[k])
      BY <1>6, <2>1, Zenon
    <2> QED BY <1>4, <2>2
  <1>11. g = Append(f, g[k])
    <2>1. IsList(n, f)
      BY <1>5 DEF IsList
    <2>2. IsList(k, g)
      BY <1>6 DEF IsList
    <2> QED BY <1>3, <1>9, <2>1, <2>2, ListGrows
  <1> QED BY <1>7, <1>8, <1>10, <1>11

\* The loop takes an event.
LEMMA WaitingShrinks ==
  ASSUME Typed, lp \in {"recv", "drain"}, lp' = "drain", out # <<>>, out' = Tail(out)
  PROVE  Waiting = <<Shows(Head(out))>> \o Waiting' /\ IsSeq(Waiting')
  <1>1. PICK q : q = Tail(out)
    OBVIOUS
  <1>2. PICK n \in Nat : n + 1 = Len(out)
    BY DEF Typed, QueueType
  <1>3. /\ DOMAIN out = 1..n + 1 /\ out[1] = Head(out)
        /\ DOMAIN q = 1..n /\ \A i \in 1..n : q[i] = out[i + 1]
    BY <1>1, <1>2 DEF Typed, QueueType
  <1>4. PICK f : f = [i \in 1..n + 1 |-> Shows(out[i])]
    OBVIOUS
  <1>5. PICK g : g = [i \in 1..n |-> Shows(q[i])]
    OBVIOUS
  <1>6. Waiting = f
    <2>1. ~LoopOver /\ lp # "error"
      BY DEF LoopOver
    <2> QED BY <1>3, <1>4, <2>1, Zenon DEF Waiting
  <1>7. Waiting' = g
    <2>1. ~LoopOver' /\ lp' # "error" /\ out' = q
      BY <1>1 DEF LoopOver
    <2> QED BY <1>3, <1>5, <2>1, Zenon DEF Waiting
  <1>8. g = [i \in 1..n |-> f[i + 1]]
    <2>1. \A i \in 1..n : i + 1 \in 1..n + 1
      OBVIOUS
    <2> QED BY <1>3, <1>4, <1>5, <2>1
  <1>9. f[1] = Shows(Head(out))
    <2>1. 1 \in 1..n + 1
      OBVIOUS
    <2>2. f[1] = Shows(out[1])
      BY <1>4, <2>1, Zenon
    <2> QED BY <1>3, <2>2
  <1>10. f = <<f[1]>> \o g
    <2>1. IsList(n + 1, f)
      BY <1>4 DEF IsList
    <2> QED BY <1>8, <2>1, ListShrinks
  <1>11. IsSeq(g)
    <2>1. IsList(n, g)
      BY <1>5 DEF IsList
    <2> QED BY <2>1, ListIs
  <1> QED BY <1>6, <1>7, <1>9, <1>10, <1>11

\* A message is queued for the browser.
LEMMA WayGrows ==
  ASSUME Typed, wr # "done", UNCHANGED <<wr, wmsg, canvas>>, NEW m, Push(m),
         NEW pic, Leads(canvas, Upcoming, pic)
  PROVE  OnTheWay' = Append(OnTheWay, IF Draws(m) THEN {Shown(pic, m)} ELSE {})
  <1>1. PICK S : m \in S /\ Upcoming \in Seq(S) /\ Upcoming' = Append(Upcoming, m)
    BY UpcomingGrows
  <1>2. Pictures(canvas, Append(Upcoming, m))
          = Append(Pictures(canvas, Upcoming), IF Draws(m) THEN {Shown(pic, m)} ELSE {})
    BY <1>1, PicturesOn
  <1>3. OnTheWay' = Pictures(canvas, Append(Upcoming, m))
    BY <1>1, Zenon DEF OnTheWay
  <1> QED BY <1>2, <1>3, Zenon DEF OnTheWay

DisplayStep == [D!DisplayNext]_(D!displayVars)

LEMMA CanvasIs == ASSUME [Next]_vars PROVE UNCHANGED canvas \/ WrSend
  BY DEF Next, Client, ClientShows, ClientEmitsOther, ClientEnds, ClientDies, ClientCloses,
         ClientFrame, Loop, LpRecv, LpRecvEnd, LpDrain, LpHandle, LpInit, LpSend, LpError,
         LpOver, LpClose, LpAbortReader, LpAbortWriter, LpFrame, writerVars,
         Writer, WrRecv, WrSendToNobody, WrFrame, Reader, RdrNext, RdrStreamEnds, RdrLeave,
         RdrFrame, Browser, BrowserPings, BrowserCloses, ConnectionLost, BrFrame, vars

LEMMA SkipStep ==
  ASSUME NEW a, IsSeq(a), NEW b, IsSeq(b), NEW c, IsSeq(c), NEW new,
         \/ new \in Nothing /\ (Fades' => Fades)
         \/ new \in Emptied,
         Due = a \o b \o c, Due' = a \o new \o c, UNCHANGED canvas
  PROVE  DisplayStep
  <1>1. D!Skip
    BY SkipIs
  <1> QED BY <1>1 DEF DisplayStep, D!DisplayNext

LEMMA DueIs == ASSUME Typed PROVE IsSeq(Due)
  BY WaitingIs, Parts, EmptyIs DEF Due

LEMMA SameStep == ASSUME Typed, UNCHANGED <<Due, canvas>>, Fades' => Fades PROVE DisplayStep
  <1>1. PICK d : d = Due
    OBVIOUS
  <1>2. IsSeq(d) /\ IsSeq(<<>>)
    BY <1>1, DueIs, EmptyIs
  <1>3. d = d \o <<>> \o <<>>
    BY <1>2, Parts
  <1> QED BY <1>1, <1>2, <1>3, SkipStep DEF Nothing

LEMMA Regroup == ASSUME NEW a, IsSeq(a), NEW b, IsSeq(b), NEW c, IsSeq(c), NEW f, f = b \o c
                 PROVE  IsSeq(f) /\ a \o b \o c = a \o f
  <1>1. PICK S : a \in Seq(S) /\ b \in Seq(S) /\ c \in Seq(S)
    BY OneType
  <1>2. b \o c \in Seq(S)
    BY <1>1, ConcatProperties
  <1>3. a \o b \o c = a \o (b \o c)
    BY <1>1, ConcatAssociative
  <1> QED BY <1>2, <1>3 DEF IsSeq

LEMMA OneMore == ASSUME NEW a, IsSeq(a), NEW x, NEW s, s = <<x>>
                 PROVE  IsSeq(s) /\ Append(a, x) = a \o s
  <1>1. PICK S : a \in Seq(S) /\ x \in S
    BY WiderSeq
  <1> QED BY <1>1 DEF IsSeq

\* u, of length n, is s, of length m, and then t.
Joint(u, n, s, m, t) ==
  Len(u) = n /\ \A i \in 1..n : u[i] = IF i <= m THEN s[i] ELSE t[i - m]

LEMMA Joins == ASSUME NEW S, NEW s \in Seq(S), NEW t \in Seq(S), NEW m \in Nat, m = Len(s),
                      NEW n \in Nat, n = m + Len(t), NEW u, u = s \o t
               PROVE  u \in Seq(S) /\ Joint(u, n, s, m, t)
  <1>1. PICK k : k = Len(s) + Len(t)
    OBVIOUS
  <1>2. /\ s \o t \in Seq(S) /\ Len(s \o t) = k
        /\ \A i \in 1..k : (s \o t)[i] = IF i <= Len(s) THEN s[i] ELSE t[i - Len(s)]
    BY <1>1, ConcatProperties
  <1> QED BY <1>1, <1>2 DEF Joint

\* A frame is sent with parts of it missing.
LEMMA FadeStep ==
  ASSUME Typed, Fades, Fades', UNCHANGED <<canvas, Waiting>>,
         NEW g \in {Picture(f) : f \in Screens}, NEW h \in D!Partial(g),
         InHand = <<{g}>>, InHand' = <<>>, OnTheWay' = Append(OnTheWay, {h})
  PROVE  DisplayStep
  <1>1. PICK a, c, x, y : a = OnTheWay /\ c = Waiting /\ x = <<{g}>> /\ y = <<{h}>>
    OBVIOUS
  <1>2. IsSeq(a) /\ IsSeq(c) /\ IsSeq(<<>>) /\ IsSeq(x) /\ IsSeq(y)
    BY <1>1, WaitingIs, EmptyIs, OneMore
  <1>3. Append(a, {h}) = a \o y
    BY <1>1, <1>2, OneMore
  <1>4. PICK d, e, k : d = a \o x \o c /\ e = a \o y \o c /\ k = Len(a)
    OBVIOUS
  <1>5. Due = d /\ Due' = e
    <2>1. Due = d
      BY <1>1, <1>4 DEF Due, Fades
    <2>2. Due' = a \o y \o <<>> \o c
      BY <1>1, <1>3 DEF Due, Fades, Live
    <2>3. IsSeq(a \o y)
      BY <1>2, Parts
    <2>4. (a \o y) \o <<>> \o c = (a \o y) \o c
      BY <1>2, <2>3, Parts
    <2> QED BY <1>4, <2>1, <2>2, <2>4
  <1>6. PICK S : a \in Seq(S) /\ c \in Seq(S) /\ {g} \in S
    BY <1>2, OneType
  <1>7. PICK T : T = S \cup {{h}}
    OBVIOUS
  <1>8. /\ a \in Seq(T) /\ c \in Seq(T) /\ x \in Seq(T) /\ y \in Seq(T) /\ Len(x) = 1 /\ Len(y) = 1
        /\ x[1] = {g} /\ y[1] = {h}
    <2>1. a \in Seq(T) /\ c \in Seq(T)
      BY <1>6, <1>7, SeqMonotonic
    <2> QED BY <1>1, <1>6, <1>7, <2>1
  <1>9. PICK ax, ay : ax = a \o x /\ ay = a \o y
    OBVIOUS
  <1>10. /\ k \in Nat /\ k + 1 \in Nat /\ ax \in Seq(T) /\ Len(ax) = k + 1
         /\ \A i \in 1..k + 1 : ax[i] = IF i <= k THEN a[i] ELSE x[i - k]
         /\ ay \in Seq(T) /\ Len(ay) = k + 1
         /\ \A i \in 1..k + 1 : ay[i] = IF i <= k THEN a[i] ELSE y[i - k]
    <2>1. /\ k \in Nat /\ k = Len(a) /\ k + 1 \in Nat
          /\ k + 1 = k + Len(x) /\ k + 1 = k + Len(y)
      BY <1>4, <1>8
    <2>2. ax \in Seq(T) /\ Joint(ax, k + 1, a, k, x)
      BY <1>8, <1>9, <2>1, Joins
    <2>3. ay \in Seq(T) /\ Joint(ay, k + 1, a, k, y)
      BY <1>8, <1>9, <2>1, Joins
    <2> QED BY <2>1, <2>2, <2>3 DEF Joint
  <1>11. PICK n \in Nat : n = k + 1 + Len(c)
    BY <1>8, <1>10
  <1>12. d = ax \o c /\ e = ay \o c
    BY <1>4, <1>9
  <1>13. /\ d \in Seq(T) /\ Len(d) = n
         /\ \A i \in 1..n : d[i] = IF i <= k + 1 THEN ax[i] ELSE c[i - (k + 1)]
    <2>1. d \in Seq(T) /\ Joint(d, n, ax, k + 1, c)
      BY <1>8, <1>10, <1>11, <1>12, Joins
    <2> QED BY <2>1 DEF Joint
  <1>14. /\ e \in Seq(T) /\ Len(e) = n
         /\ \A i \in 1..n : e[i] = IF i <= k + 1 THEN ay[i] ELSE c[i - (k + 1)]
    <2>1. e \in Seq(T) /\ Joint(e, n, ay, k + 1, c)
      BY <1>8, <1>10, <1>11, <1>12, Joins
    <2> QED BY <2>1 DEF Joint
  <1>15. k + 1 \in 1..n /\ k + 1 \in 1..k + 1 /\ ~(k + 1 <= k) /\ (k + 1) - k = 1
    BY <1>8, <1>10, <1>11
  <1>16. d[k + 1] = {g} /\ e[k + 1] = {h}
    <2>1. k + 1 <= k + 1
      BY <1>15
    <2>2. d[k + 1] = ax[k + 1] /\ e[k + 1] = ay[k + 1]
      BY <1>13, <1>14, <1>15, <2>1, Zenon
    <2>3. ax[k + 1] = x[1] /\ ay[k + 1] = y[1]
      BY <1>10, <1>15, Zenon
    <2> QED BY <1>8, <2>2, <2>3
  <1>17. ASSUME NEW i \in 1..n, i # k + 1 PROVE e[i] = d[i]
    <2>1. CASE i <= k
      <3>1. i \in 1..k + 1 /\ i <= k + 1
        BY <1>10, <2>1
      <3>2. d[i] = ax[i] /\ e[i] = ay[i]
        BY <1>13, <1>14, <3>1
      <3> QED BY <1>10, <2>1, <3>1, <3>2
    <2>2. CASE ~(i <= k)
      <3>1. ~(i <= k + 1)
        BY <1>10, <1>17, <2>2
      <3> QED BY <1>13, <1>14, <3>1
    <2> QED BY <2>1, <2>2
  <1>18. PICK j : j = k + 1 /\ j \in DOMAIN d
    BY <1>13, <1>15
  <1>19. e = [d EXCEPT ![j] = {h}]
    <2>1. d = [i \in 1..n |-> d[i]] /\ e = [i \in 1..n |-> e[i]]
      BY <1>13, <1>14
    <2> QED BY <1>15, <1>16, <1>17, <1>18, <2>1
  <1>20. D!Fade
    <2>1. d[j] = {g}
      BY <1>16, <1>18
    <2>2. (Live /\ stale) /\ (Live /\ stale)' = (Live /\ stale)
      BY DEF Fades
    <2> QED BY <1>5, <1>18, <1>19, <2>1, <2>2, Zenon DEF D!Fade
  <1> QED BY <1>20 DEF DisplayStep, D!DisplayNext

\* Nothing is on its way any more once the session is over.
LEMMA OverStep == ASSUME Typed, ~Live', [Next]_vars PROVE DisplayStep
  <1>1. UNCHANGED canvas
    <2>1. WrSend => Live'
      BY DEF WrSend, WrFrame, browserVars, Live
    <2> QED BY <2>1, CanvasIs
  <1>2. Due' = <<>> /\ ~Fades'
    BY DEF Due, Fades
  <1>3. PICK d : d = Due
    OBVIOUS
  <1>4. IsSeq(d) /\ IsSeq(<<>>)
    BY <1>3, DueIs, EmptyIs
  <1>5. d = <<>> \o d \o <<>> /\ <<>> = <<>> \o <<>> \o <<>>
    BY <1>4, Parts
  <1> QED BY <1>1, <1>2, <1>3, <1>4, <1>5, SkipStep DEF Nothing

\* The loop's steps: the event in its hand gives way to a newer one, or to
\* nothing; or what it shows is queued.
LEMMA HandStep ==
  ASSUME Typed, Live, Live', stale' => stale, UNCHANGED <<canvas, OnTheWay>>,
         \/ InHand' = InHand /\ Waiting' = Waiting
         \/ InHand' = <<>> /\ Waiting' = Waiting
         \/ InHand = <<>> /\ InHand' = <<>> /\ Waiting' = <<>>
         \/ \E e : InHand' = <<e>> /\ Waiting = <<e>> \o Waiting' /\ IsSeq(Waiting')
  PROVE  DisplayStep
  <1>1. PICK a, b, c : a = OnTheWay /\ b = InHand /\ c = Waiting
    OBVIOUS
  <1>2. IsSeq(a) /\ IsSeq(b) /\ IsSeq(c) /\ IsSeq(<<>>)
    BY <1>1, WaitingIs, EmptyIs
  <1>3. Due = a \o b \o c /\ Due' = a \o InHand' \o Waiting'
    BY <1>1 DEF Due, Live
  <1>4. <<>> \in Nothing /\ (Fades' => Fades)
    BY DEF Nothing, Fades
  <1>5. CASE InHand' = InHand /\ Waiting' = Waiting
    BY <1>1, <1>3, <1>4, <1>5, SameStep
  <1>6. CASE InHand' = <<>> /\ Waiting' = Waiting
    BY <1>1, <1>2, <1>3, <1>4, <1>6, SkipStep
  <1>7. CASE InHand = <<>> /\ InHand' = <<>> /\ Waiting' = <<>>
    <2>1. Due = a \o c \o <<>>
      <3>1. a \o <<>> \o c = a \o c /\ a \o c \o <<>> = a \o c
        BY <1>2, Parts
      <3> QED BY <1>1, <1>3, <1>7, <3>1
    <2> QED BY <1>2, <1>3, <1>4, <1>7, <2>1, SkipStep
  <1>8. ASSUME NEW e, InHand' = <<e>>, Waiting = <<e>> \o Waiting', IsSeq(Waiting')
        PROVE  DisplayStep
    <2>1. PICK r, s : r = Waiting' /\ s = <<e>>
      OBVIOUS
    <2>2. IsSeq(r) /\ IsSeq(s) /\ IsSeq(c) /\ c = s \o r
      BY <1>2, <1>1, <1>8, <2>1, Parts
    <2>3. Due' = a \o s \o r
      BY <1>3, <1>8, <2>1
    <2>4. Due' = a \o <<>> \o c
      <3>1. a \o s \o r = a \o (s \o r) /\ a \o <<>> \o c = a \o c
        BY <1>2, <2>2, Parts
      <3> QED BY <2>2, <2>3, <3>1
    <2> QED BY <1>2, <1>3, <1>4, <2>4, SkipStep
  <1> QED BY <1>5, <1>6, <1>7, <1>8

\* A message is queued, for the event in hand or beside it.
LEMMA QueueingStep ==
  ASSUME Typed, Live, Live', UNCHANGED <<canvas, Waiting>>,
         NEW e, OnTheWay' = Append(OnTheWay, e),
         \/ InHand' = InHand /\ <<e>> \in Nothing /\ (stale' => stale)
         \/ InHand' = InHand /\ <<e>> \in Emptied
         \/ InHand = <<e>> /\ InHand' = <<>> /\ (stale' => stale)
  PROVE  DisplayStep
  <1>1. PICK a, b, c, s : a = OnTheWay /\ b = InHand /\ c = Waiting /\ s = <<e>>
    OBVIOUS
  <1>2. IsSeq(a) /\ IsSeq(b) /\ IsSeq(c) /\ IsSeq(s) /\ IsSeq(<<>>)
    BY <1>1, WaitingIs, EmptyIs, Parts
  <1>3. Append(a, e) = a \o s
    <2>1. s = <<e>>
      BY <1>1
    <2> QED BY <1>2, <2>1, OneMore, Zenon
  <1>4. Due = a \o b \o c /\ Due' = a \o s \o InHand' \o c
    BY <1>1, <1>3 DEF Due, Live
  <1>5. ASSUME InHand' = InHand,
               \/ <<e>> \in Nothing /\ (stale' => stale)
               \/ <<e>> \in Emptied
        PROVE  DisplayStep
    <2>1. PICK f : f = b \o c
      OBVIOUS
    <2>2. IsSeq(f) /\ a \o b \o c = a \o f
      <3>1. IsSeq(f)
        BY <1>2, <2>1, Regroup
      <3>2. a \o b \o c = a \o f
        BY <1>2, <2>1, Regroup, SMTT(30)
      <3> QED BY <3>1, <3>2
    <2>3. IsSeq(a \o s) /\ a \o s \o b \o c = a \o s \o f
      <3>1. PICK t : t = a \o s
        OBVIOUS
      <3>2. IsSeq(t)
        BY <1>2, <3>1, Parts
      <3>3. t \o b \o c = t \o f
        BY <1>2, <2>1, <3>2, Regroup
      <3> QED BY <3>1, <3>2, <3>3
    <2>4. Due = a \o <<>> \o f
      BY <1>2, <1>4, <2>2, Parts
    <2>5. Due' = a \o s \o f
      BY <1>1, <1>4, <1>5, <2>3
    <2>6. \/ s \in Nothing /\ (Fades' => Fades)
          \/ s \in Emptied
      BY <1>1, <1>5 DEF Fades
    <2> QED BY <1>2, <2>2, <2>4, <2>5, <2>6, SkipStep
  <1>6. CASE InHand = <<e>> /\ InHand' = <<>> /\ (stale' => stale)
    <2>1. b = s
      BY <1>1, <1>6
    <2>2. PICK t : t = a \o s
      OBVIOUS
    <2>3. IsSeq(t) /\ t \o <<>> \o c = t \o c
      BY <1>2, <2>2, Parts
    <2>4. UNCHANGED Due /\ (Fades' => Fades)
      BY <1>4, <1>6, <2>1, <2>2, <2>3 DEF Fades
    <2> QED BY <2>4, SameStep
  <1> QED BY <1>5, <1>6

\* Nothing moves but what the client and the loop's own state are made of.
LEMMA SameDue == ASSUME UNCHANGED <<canvas, wsq, wr, wmsg>>
                 PROVE  OnTheWay' = OnTheWay
  BY DEF OnTheWay, Upcoming, Pictures, Stills

LEMMA ClientStep == ASSUME Typed, Live, Live', Client \/ ClientCloses PROVE DisplayStep
  <1>1. UNCHANGED <<canvas, wsq, wr, wmsg, lp, latest, stale>>
    BY DEF Client, ClientShows, ClientEmitsOther, ClientEnds, ClientDies, ClientCloses,
           ClientFrame, loopVars, writerVars
  <1>2. OnTheWay' = OnTheWay /\ InHand' = InHand
    BY <1>1, SameDue DEF InHand
  <1>3. CASE LoopOver \/ lp = "error" \/ UNCHANGED out
    <2>1. Waiting' = Waiting
      BY <1>1, <1>3 DEF Waiting, LoopOver
    <2> QED BY <1>1, <1>2, <2>1, HandStep
  <1>4. ASSUME NEW e, Emit(e), ~LoopOver, lp # "error"
        PROVE  Due' = Append(Due, Shows(e))
    <2>1. Waiting' = Append(Waiting, Shows(e))
      BY <1>1, <1>4, WaitingGrows DEF Emit
    <2>2. PICK a, b, c, x, s : /\ a = OnTheWay /\ b = InHand /\ c = Waiting
                               /\ x = Shows(e) /\ s = <<x>>
      OBVIOUS
    <2>3. IsSeq(a) /\ IsSeq(b) /\ IsSeq(c)
      BY <2>2, WaitingIs
    <2>4. PICK t : t = a \o b
      OBVIOUS
    <2>5. IsSeq(t) /\ IsSeq(t \o c)
      BY <2>3, <2>4, Parts
    <2>6. IsSeq(s) /\ Append(c, x) = c \o s /\ Append(t \o c, x) = t \o c \o s
      BY <2>2, <2>3, <2>5, OneMore
    <2>7. t \o c \o s = t \o (c \o s)
      BY <2>3, <2>5, <2>6, Regroup
    <2>8. Due = t \o c /\ Due' = t \o Append(c, x)
      BY <1>2, <2>1, <2>2, <2>4 DEF Due, Live
    <2> QED BY <2>2, <2>6, <2>7, <2>8
  <1>5. ASSUME NEW f \in Screens, ClientShows(f), ~LoopOver, lp # "error" PROVE DisplayStep
    <2>1. Due' = Append(Due, {Picture(f)})
      <3>1. Due' = Append(Due, Shows(Image(f)))
        BY <1>4, <1>5 DEF ClientShows
      <3>2. Shows(Image(f)) = {Picture(f)}
        BY DEF Shows, Image
      <3> QED BY <3>1, <3>2
    <2>2. D!Paint(Picture(f))
      BY <1>1, <2>1 DEF D!Paint, Live
    <2>3. D!DisplayNext
      BY <2>2 DEF D!DisplayNext
    <2> QED BY <2>3 DEF DisplayStep
  <1>6. ASSUME NEW k \in {"other"} \cup EndKinds, Emit(Event(k)), ~LoopOver, lp # "error"
        PROVE  DisplayStep
    <2>1. Shows(Event(k)) = {}
      BY DEF Shows, Event, EndKinds
    <2>2. PICK d : d = Due
      OBVIOUS
    <2>3. IsSeq(d) /\ Due' = Append(d, {})
      BY <1>4, <1>6, <2>1, <2>2, WaitingIs, Parts DEF Due, Live
    <2>4. d = d \o <<>> \o <<>> /\ Append(d, {}) = d \o <<{}>> \o <<>>
      <3>1. d \o <<>> = d /\ IsSeq(d \o <<>>)
        BY <2>3, Parts, EmptyIs
      <3>2. PICK s, t : s = <<{}>> /\ t = d \o s
        OBVIOUS
      <3>3. Append(d, {}) = t
        BY <2>3, <3>2, OneMore
      <3>4. IsSeq(t)
        BY <2>3, <3>3, AppendIs
      <3>5. t \o <<>> = t
        BY <3>4, Parts, EmptyIs
      <3> QED BY <3>1, <3>2, <3>3, <3>5
    <2>5. <<{}>> \in Nothing /\ (Fades' => Fades)
      BY <1>1 DEF Nothing, Fades
    <2> QED BY <1>1, <2>2, <2>3, <2>4, <2>5, EmptyIs, SkipStep
  <1>7. \/ UNCHANGED out
        \/ \E f \in Screens : ClientShows(f)
        \/ \E k \in {"other"} \cup EndKinds : Emit(Event(k))
    BY DEF Client, ClientEmitsOther, ClientEnds, ClientDies, ClientCloses, EndKinds
  <1> QED BY <1>3, <1>5, <1>6, <1>7

\* What a message adds to what is on its way.
LEMMA Adds == ASSUME Typed, CacheInv, Live, UNCHANGED <<wr, wmsg, canvas>>, NEW m, Push(m)
              PROVE  \E pic : /\ Agrees(pic)
                              /\ OnTheWay' = Append(OnTheWay,
                                               IF Draws(m) THEN {Shown(pic, m)} ELSE {})
  <1>1. PICK pic : Leads(canvas, Upcoming, pic) /\ Agrees(pic)
    BY DEF CacheInv
  <1> QED BY <1>1, WayGrows DEF Live

LEMMA LoopDisplays ==
  ASSUME ExactScreens, Inv, Live, Live', Loop PROVE DisplayStep
  <1>0. Typed /\ PrevInv /\ CacheInv
    BY DEF Inv
  <1>1. UNCHANGED <<canvas, wr, wmsg>>
    BY DEF Loop, LpRecv, LpRecvEnd, LpDrain, LpHandle, LpInit, LpSend, LpError, LpOver,
           LpClose, LpAbortReader, LpAbortWriter, LpFrame, writerVars, Live
  <1>2. UNCHANGED wsq => OnTheWay' = OnTheWay
    BY <1>1, SameDue
  <1>u. UNCHANGED stale \/ LpInit \/ LpSend
    BY DEF Loop, LpRecv, LpRecvEnd, LpDrain, LpHandle, LpError, LpOver, LpClose, LpAbortReader,
           LpAbortWriter, LpStop
  <1>3. CASE LpRecv
    <2>1. /\ lp = "recv" /\ InHand = <<>> /\ UNCHANGED <<wsq, stale>> /\ out # <<>> /\ out' = Tail(out)
          /\ latest' = Head(out) /\ lp' \in {"drain", "over"}
      BY <1>3 DEF LpRecv, InHand
    <2>2. CASE lp' = "drain"
      <3>1. Waiting = <<Shows(Head(out))>> \o Waiting' /\ IsSeq(Waiting')
        BY <1>0, <2>1, <2>2, WaitingShrinks
      <3>2. InHand' = <<Shows(Head(out))>>
        BY <2>1, <2>2 DEF InHand, Shows
      <3> QED BY <1>0, <1>1, <1>2, <2>1, <3>1, <3>2, HandStep
    <2>3. CASE lp' = "over"
      <3>1. InHand' = <<>> /\ Waiting' = <<>>
        BY <2>3 DEF InHand, Waiting, LoopOver
      <3> QED BY <1>0, <1>1, <1>2, <2>1, <3>1, HandStep
    <2> QED BY <2>1, <2>2, <2>3
  <1>4. CASE LpDrain
    <2>1. /\ lp = "drain" /\ lp' = "drain" /\ UNCHANGED <<wsq, stale>> /\ out # <<>> /\ out' = Tail(out)
          /\ latest' = Head(out)
      BY <1>4 DEF LpDrain
    <2>2. Waiting = <<Shows(Head(out))>> \o Waiting' /\ IsSeq(Waiting')
      BY <1>0, <2>1, WaitingShrinks
    <2>3. InHand' = <<Shows(Head(out))>>
      BY <2>1 DEF InHand, Shows
    <2> QED BY <1>0, <1>1, <1>2, <2>1, <2>2, <2>3, HandStep
  <1>5. CASE LpHandle
    <2>1. lp = "drain" /\ out = <<>> /\ UNCHANGED <<out, wsq, latest, stale>>
      BY <1>5 DEF LpHandle, LpStop
    <2>2. Waiting = <<>> /\ Waiting' = <<>>
      <3>1. Waiting = <<>>
        BY <1>0, <2>1, WaitingIs
      <3>2. ~LoopOver
        BY <2>1 DEF LoopOver
      <3> QED BY <2>1, <3>1, <3>2 DEF Waiting
    <2>3. InHand' = InHand \/ InHand' = <<>>
      BY <2>1 DEF InHand, Shows
    <2> QED BY <1>0, <1>1, <1>2, <2>1, <2>2, <2>3, HandStep
  <1>6. CASE LpInit
    <2>1. PICK f, m : f = latest.frame /\ m = InitMessage(f.w, f.h)
      OBVIOUS
    <2>2. /\ lp = "init" /\ Push(m) /\ lp' = "frame" /\ UNCHANGED <<out, latest>>
      BY <1>6, <2>1 DEF LpInit
    <2>3. f \in Screens
      BY <1>0, <2>1, <2>2, EventIs DEF Typed, LoopType
    <2>4. PICK pic : OnTheWay' = Append(OnTheWay, IF Draws(m) THEN {Shown(pic, m)} ELSE {})
      BY <1>0, <1>1, <2>2, Adds
    <2>5. OnTheWay' = Append(OnTheWay, {Erased(f.w, f.h)})
      BY <2>1, <2>4 DEF Draws, Shown, InitMessage
    <2>6. InHand' = InHand /\ Waiting' = Waiting
      BY <2>2 DEF InHand, Waiting, LoopOver, Shows
    <2>7. <<{Erased(f.w, f.h)}>> \in Emptied
      BY <2>3 DEF Emptied, Empties
    <2> QED BY <1>0, <1>1, <2>5, <2>6, <2>7, QueueingStep
  <1>7. CASE LpSend
    <2>1. PICK f, r : f = latest.frame /\ r = Process(prev, f)
      OBVIOUS
    <2>2. lp = "frame" /\ UNCHANGED <<out, latest>> /\ lp' = "recv"
      BY <1>7 DEF LpSend, WriterGone, Live
    <2>3. InHand' = <<>> /\ Waiting' = Waiting
      BY <2>2 DEF InHand, Waiting, LoopOver
    <2>4. /\ f \in Screens /\ Exact(f) /\ sized = SizeOf(f)
          /\ \A cv : /\ DOMAIN cv = Area(f.w, f.h)
                     /\ DOMAIN prev = 0..Expected - 1 => Lacks(cv, Pic(f.w, f.h, prev))
                     => \A p \in r.paint :
                          /\ Lacks(Painted(cv, p), Picture(f))
                          /\ \/ DOMAIN prev = 0..Expected - 1 => cv = Pic(f.w, f.h, prev)
                             \/ Whole(p, f)
                             => Painted(cv, p) = Picture(f)
      BY <1>0, <2>1, <2>2, SentIs
    <2>5. stale' = (stale /\ \A p \in r.paint : ~Whole(p, f))
      BY <1>7, <2>1 DEF LpSend
    <2>6. CASE UNCHANGED wsq
      BY <1>0, <1>1, <1>2, <2>3, <2>5, <2>6, HandStep
    <2>7. ASSUME NEW p \in r.paint, Push(TilesMessage(p)) PROVE DisplayStep
      <3>1. PICK m : m = TilesMessage(p)
        OBVIOUS
      <3>2. PICK pic : /\ Agrees(pic)
                       /\ OnTheWay' = Append(OnTheWay, IF Draws(m) THEN {Shown(pic, m)} ELSE {})
        BY <1>0, <1>1, <2>7, <3>1, Adds
      <3>3. sized # NoSize /\ sized.w = f.w /\ sized.h = f.h
        BY <2>4, SessionAssumption DEF SizeOf, NoSize
      <3>4. PICK new : new = Painted(pic, p)
        OBVIOUS
      <3>5. /\ DOMAIN pic = Area(f.w, f.h)
            /\ DOMAIN prev = 0..Expected - 1 =>
                 /\ Lacks(pic, Pic(f.w, f.h, prev))
                 /\ ~stale => pic = Pic(f.w, f.h, prev)
        BY <3>2, <3>3 DEF Agrees
      <3>6. Lacks(new, Picture(f)) /\ (~stale \/ Whole(p, f) => new = Picture(f))
        BY <2>4, <2>7, <3>4, <3>5
      <3>7. OnTheWay' = Append(OnTheWay, {new})
        BY <3>1, <3>2, <3>4 DEF Draws, Shown, TilesMessage
      <3>8. InHand = <<{Picture(f)}>>
        <4>1. latest.kind = "image"
          BY <1>0, <2>2 DEF Typed, LoopType
        <4> QED BY <2>1, <2>2, <4>1 DEF InHand, Shows
      <3>9. CASE new = Picture(f)
        BY <1>0, <1>1, <2>3, <2>5, <3>7, <3>8, <3>9, QueueingStep
      <3>10. CASE new # Picture(f)
        <4>1. stale /\ ~Whole(p, f)
          BY <3>6, <3>10
        <4>2. r.paint = {p}
          BY <2>1, <2>7 DEF Process, FullFrame, Batch
        <4>3. Fades /\ Fades'
          BY <2>5, <4>1, <4>2 DEF Fades
        <4>4. PICK g : g = Picture(f) /\ g \in {Picture(x) : x \in Screens}
          BY <2>4
        <4>5. new \in D!Partial(g)
          BY <3>4, <3>6, <4>4 DEF D!Partial, Lacks, Painted
        <4> QED BY <1>0, <1>1, <2>3, <3>7, <3>8, <4>3, <4>4, <4>5, FadeStep
      <3> QED BY <3>9, <3>10
    <2> QED BY <1>7, <2>1, <2>6, <2>7 DEF LpSend
  <1>8. CASE LpError
    <2>1. PICK m : m = Plain("error")
      OBVIOUS
    <2>2. lp = "error" /\ Push(m) /\ lp' = "over" /\ UNCHANGED stale
      BY <1>8, <2>1 DEF LpError, LpStop
    <2>3. PICK pic : OnTheWay' = Append(OnTheWay, IF Draws(m) THEN {Shown(pic, m)} ELSE {})
      BY <1>0, <1>1, <2>2, Adds
    <2>4. OnTheWay' = Append(OnTheWay, {})
      BY <2>1, <2>3 DEF Draws, Plain
    <2>5. InHand' = InHand /\ Waiting' = Waiting
      BY <2>2 DEF InHand, Waiting, LoopOver
    <2> QED BY <1>0, <1>1, <2>4, <2>5, <2>2, QueueingStep DEF Nothing
  <1>9. CASE LpRecvEnd
    <2>1. lp = "recv" /\ lp' = "over" /\ UNCHANGED <<wsq, stale>>
      BY <1>9 DEF LpRecvEnd, LpStop
    <2>2. InHand = <<>> /\ InHand' = <<>> /\ Waiting' = <<>>
      BY <2>1 DEF InHand, Waiting, LoopOver
    <2> QED BY <1>0, <1>1, <1>2, <2>1, <2>2, HandStep
  <1>10. CASE LpOver \/ LpClose \/ LpAbortReader
    <2>1. LoopOver /\ LoopOver' /\ UNCHANGED <<wsq, stale>>
      BY <1>10 DEF LpOver, LpClose, LpAbortReader, LpStop, LoopOver
    <2>2. InHand = <<>> /\ InHand' = <<>> /\ Waiting' = <<>>
      BY <2>1 DEF InHand, Waiting, LoopOver
    <2> QED BY <1>0, <1>1, <1>2, <2>1, <2>2, HandStep
  <1>11. CASE LpAbortWriter
    BY <1>11 DEF LpAbortWriter, Live
  <1> QED BY <1>3, <1>4, <1>5, <1>6, <1>7, <1>8, <1>9, <1>10, <1>11 DEF Loop

LEMMA OthersDisplay ==
  ASSUME Inv, Live, Live', Writer \/ Reader \/ Browser \/ UNCHANGED vars PROVE DisplayStep
  <1>0. Typed /\ CacheInv
    BY DEF Inv
  <1>1. UNCHANGED <<out, lp, latest, stale>>
    BY DEF Writer, WrRecv, WrSend, WrSendToNobody, WrFrame, Reader, RdrNext, RdrStreamEnds, RdrLeave,
           RdrFrame, Browser, BrowserPings, BrowserCloses, ConnectionLost, BrFrame,
           loopVars, vars
  <1>2. InHand' = InHand /\ Waiting' = Waiting
    BY <1>1 DEF InHand, Waiting, LoopOver, Shows
  <1>3. CASE WrRecv
    <2>1. /\ wr = "recv" /\ wsq # <<>> /\ wmsg' = Head(wsq) /\ wsq' = Tail(wsq)
          /\ wr' = "send" /\ UNCHANGED canvas
      BY <1>3 DEF WrRecv, Live
    <2>2. PICK S : wsq \in Seq(S) /\ wmsg \in S
      BY <1>0, WiderSeq DEF Typed, QueueType
    <2>3. Upcoming' = Upcoming
      BY <2>1, <2>2, Ends DEF Upcoming
    <2>4. OnTheWay' = OnTheWay
      BY <2>1, <2>3 DEF OnTheWay
    <2> QED BY <1>0, <1>1, <1>2, <2>1, <2>4, HandStep
  <1>4. CASE WrSend
    <2>1. /\ wr = "send" /\ wr' = "recv" /\ canvas' = Shown(canvas, wmsg)
          /\ UNCHANGED <<wsq, wmsg>>
      BY <1>4 DEF WrSend
    <2>2. PICK S : /\ Upcoming \in Seq(S) /\ Upcoming # <<>> /\ Head(Upcoming) = wmsg
                   /\ Tail(Upcoming) = wsq /\ <<>> \o wsq = wsq
      BY <1>0, <2>1, SendingIs
    <2>3. Upcoming' = wsq
      BY <2>1, <2>2 DEF Upcoming
    <2>4. PICK pic : Leads(canvas, Upcoming, pic)
      BY <1>0 DEF CacheInv
    <2>5. PICK e, cv : e = (IF Draws(wmsg) THEN {Shown(canvas, wmsg)} ELSE {})
                       /\ cv = Shown(canvas, wmsg)
      OBVIOUS
    <2>6. OnTheWay = <<e>> \o Pictures(cv, wsq)
      BY <2>2, <2>4, <2>5, PicturesFrom DEF OnTheWay
    <2>7. OnTheWay' = Pictures(cv, wsq)
      BY <2>1, <2>3, <2>5 DEF OnTheWay
    <2>8. PICK s, a, b, c : s = <<e>> /\ a = Pictures(cv, wsq) /\ b = InHand /\ c = Waiting
      OBVIOUS
    <2>9. IsSeq(s) /\ IsSeq(a) /\ IsSeq(b) /\ IsSeq(c)
      <3>1. IsSeq(s)
        BY <2>8, EmptyIs, OneMore
      <3>2. IsSeq(a)
        BY <1>0, <2>8, PicturesAre DEF Typed, QueueType
      <3> QED BY <1>0, <2>8, <3>1, <3>2, WaitingIs
    <2>10. PICK rest : rest = a \o b \o c
      OBVIOUS
    <2>11. IsSeq(rest) /\ s \o a \o b \o c = s \o rest
      <3>1. PICK f : f = b \o c
        OBVIOUS
      <3>2. IsSeq(f) /\ rest = a \o f
        <4>1. IsSeq(f)
          BY <2>9, <3>1, Regroup
        <4>2. a \o b \o c = a \o f
          BY <2>9, <3>1, Regroup
        <4> QED BY <2>10, <4>1, <4>2
      <3>3. PICK t : t = s \o a
        OBVIOUS
      <3>4. IsSeq(t)
        BY <2>9, <3>3, Parts
      <3>5. t \o b \o c = t \o f
        BY <2>9, <3>1, <3>4, Regroup
      <3>6. s \o a \o f = s \o (a \o f)
        BY <2>9, <3>2, Regroup
      <3>7. IsSeq(rest)
        BY <2>9, <2>10, Parts
      <3> QED BY <3>2, <3>3, <3>5, <3>6, <3>7
    <2>12. Due = <<e>> \o rest /\ Due' = rest
      BY <1>2, <2>6, <2>7, <2>8, <2>10, <2>11 DEF Due, Live
    <2>13. Due # <<>> /\ Head(Due) = e /\ Tail(Due) = rest
      <3>1. PICK T : rest \in Seq(T) /\ e \in T
        BY <2>11, WiderSeq
      <3> QED BY <2>12, <3>1, Ends
    <2>14. canvas' \in IF e = {} THEN {canvas} ELSE e
      BY <2>1, <2>5 DEF Shown, Draws
    <2>15. (Live /\ stale)' = (Live /\ stale)
      BY <1>1
    <2>16. D!Show
      BY <2>12, <2>13, <2>14, <2>15, Zenon DEF D!Show
    <2> QED BY <2>16 DEF DisplayStep, D!DisplayNext
  <1>5. ASSUME UNCHANGED <<canvas, wsq, wr, wmsg>> PROVE DisplayStep
    BY <1>0, <1>1, <1>2, <1>5, SameDue, HandStep
  <1>6. CASE RdrNext
    <2>1. UNCHANGED <<canvas, wr, wmsg>>
      BY <1>6 DEF RdrNext, RdrFrame, writerVars
    <2>2. PICK m : m = Plain("pong")
      OBVIOUS
    <2>3. UNCHANGED wsq \/ Push(m)
      BY <1>6, <2>2 DEF RdrNext
    <2>4. CASE Push(m)
      <3>1. PICK pic : OnTheWay' = Append(OnTheWay, IF Draws(m) THEN {Shown(pic, m)} ELSE {})
        BY <1>0, <2>1, <2>4, Adds
      <3>2. OnTheWay' = Append(OnTheWay, {})
        BY <2>2, <3>1 DEF Draws, Plain
      <3> QED BY <1>0, <1>1, <1>2, <2>1, <3>2, QueueingStep DEF Nothing
    <2> QED BY <1>5, <2>1, <2>3, <2>4
  <1>7. CASE WrSendToNobody
    BY <1>7 DEF WrSendToNobody, Live
  <1>8. CASE RdrStreamEnds \/ RdrLeave \/ Browser \/ UNCHANGED vars
    BY <1>5, <1>8 DEF RdrStreamEnds, RdrLeave, RdrFrame, Browser, BrowserPings, BrowserCloses,
                      ConnectionLost, BrFrame, writerVars, vars
  <1> QED BY <1>3, <1>4, <1>6, <1>7, <1>8 DEF Writer, Reader

LEMMA SessionDisplays == ASSUME ExactScreens, Inv, [Next]_vars PROVE DisplayStep
  <1>1. CASE ~Live'
    BY <1>1, OverStep DEF Inv
  <1>2. CASE Live'
    <2>1. Live
      BY <1>2, StaysOver
    <2>2. CASE Client \/ ClientCloses
      BY <1>2, <2>1, <2>2, ClientStep DEF Inv
    <2>3. CASE Loop
      BY <1>2, <2>1, <2>3, LoopDisplays
    <2>4. CASE Writer \/ Reader \/ Browser \/ UNCHANGED vars
      BY <1>2, <2>1, <2>4, OthersDisplay
    <2> QED BY <2>2, <2>3, <2>4 DEF Next
  <1> QED BY <1>1, <1>2

\* The first message, of the size asked for, empties the canvas.
LEMMA InitDisplays == Init => D!DisplayInit
  <1> SUFFICES ASSUME Init PROVE D!DisplayInit
    OBVIOUS
  <1>1. Live /\ ~stale
    BY DEF Init, Live
  <1>2. PICK m, b : m = InitMessage(Asked.w, Asked.h) /\ b = Erased(Asked.w, Asked.h)
    OBVIOUS
  <1>3. Typed
    BY TypedInit
  <1>4. Upcoming = Append(<<>>, m) /\ Upcoming = <<m>>
    BY <1>2 DEF Init, Upcoming
  <1>5. Leads(canvas, <<>>, canvas) /\ <<>> \in Seq({m})
    BY LeadsNow
  <1>6. Pictures(canvas, Upcoming)
          = Append(Pictures(canvas, <<>>), IF Draws(m) THEN {Shown(canvas, m)} ELSE {})
    <2>1. m \in {m}
      OBVIOUS
    <2>2. Pictures(canvas, Append(<<>>, m))
            = Append(Pictures(canvas, <<>>), IF Draws(m) THEN {Shown(canvas, m)} ELSE {})
      BY <1>5, <2>1, PicturesOn
    <2> QED BY <1>4, <2>2, Zenon
  <1>7. Pictures(canvas, <<>>) = <<>>
    <2>1. PICK s : s = Stills(canvas, <<>>)
      OBVIOUS
    <2>2. Pictures(canvas, <<>>) = [i \in DOMAIN <<>> |-> IF Draws(<<>>[i]) THEN {s[i]} ELSE {}]
      BY <2>1, Zenon DEF Pictures
    <2> QED BY <2>2
  <1>8. (IF Draws(m) THEN {Shown(canvas, m)} ELSE {}) = {b}
    BY <1>2 DEF Draws, Shown, InitMessage
  <1>9. OnTheWay = <<{b}>>
    <2>1. OnTheWay = Append(<<>>, {b})
      BY <1>6, <1>7, <1>8, Zenon DEF OnTheWay
    <2> QED BY <2>1
  <1>10. InHand = <<>> /\ Waiting = <<>>
    BY <1>3, WaitingIs DEF Init, InHand
  <1>11. Due = <<{b}>>
    BY <1>1, <1>9, <1>10 DEF Due
  <1>12. PICK B : B = {Erased(g.w, g.h) : g \in Screens \cup {Asked, NoScreen}}
    OBVIOUS
  <1>13. b \in B /\ canvas \in B
    BY <1>2, <1>12 DEF Init, NoScreen
  <1>14. Due \in Seq({{x} : x \in B})
    BY <1>11, <1>13
  <1> QED BY <1>1, <1>12, <1>13, <1>14, Zenon DEF D!DisplayInit

\* Full frames, batches of tiles, coalescing and resizes add up to a Display: the
\* browser is shown frames of the desktop, in the order in which it showed them,
\* and whole unless a resize kept the number of pixels.
THEOREM SessionIsADisplay == ASSUME ExactScreens PROVE Spec => DisplayRefined
  <1>1. Inv /\ [Next]_vars => DisplayStep
    BY SessionDisplays
  <1> QED BY <1>1, InitDisplays, Invariance, PTL
          DEF Spec, DisplayRefined, D!DisplaySpec, DisplayStep

\* What a Display shows, and has on its way, stays in any set that has its frames,
\* its empty canvases and, where frames fade, every part of a frame.
Frames == {Picture(f) : f \in Screens}
Within(P) == canvas \in P /\ Due \in Seq(SUBSET P)

LEMMA StartsWithin == ASSUME NEW P, Empties \subseteq P PROVE D!DisplayInit => Within(P)
  <1> SUFFICES ASSUME D!DisplayInit PROVE Within(P)
    OBVIOUS
  <1>1. canvas \in Empties /\ Due \in Seq({{b} : b \in Empties})
    BY Zenon DEF D!DisplayInit, Empties
  <1>2. {{b} : b \in Empties} \subseteq SUBSET P
    OBVIOUS
  <1>3. Due \in Seq(SUBSET P)
    BY <1>1, <1>2, SeqMonotonic
  <1> QED BY <1>1, <1>3 DEF Within

LEMMA StaysWithin ==
  ASSUME NEW P, Empties \subseteq P, Frames \subseteq P,
         Fades => \A f \in Frames : D!Partial(f) \subseteq P,
         Within(P), DisplayStep
  PROVE  Within(P)'
  <1>1. PICK d, e, S : d = Due /\ e = Due' /\ S = SUBSET P
    BY Zenon
  <1>2. d \in Seq(S) /\ canvas \in P
    BY <1>1 DEF Within
  <1> SUFFICES e \in Seq(S) /\ canvas' \in P
    BY <1>1 DEF Within
  <1>3. ASSUME NEW f \in {Picture(g) : g \in Screens}, D!Paint(f)
        PROVE  e \in Seq(S) /\ canvas' \in P
    <2>1. e = Append(d, {f}) /\ canvas' = canvas
      BY <1>1, <1>3 DEF D!Paint
    <2>2. {f} \in S
      BY <1>1 DEF Frames
    <2> QED BY <1>2, <2>1, <2>2
  <1>4. CASE D!Show
    <2>1. /\ d # <<>> /\ e = Tail(d)
          /\ canvas' \in IF Head(d) = {} THEN {canvas} ELSE Head(d)
      BY <1>1, <1>4, Zenon DEF D!Show
    <2>2. Head(d) \in S /\ Tail(d) \in Seq(S)
      BY <1>2, <2>1
    <2>3. canvas' \in P
      BY <1>1, <1>2, <2>1, <2>2
    <2> QED BY <2>1, <2>2, <2>3
  <1>5. CASE D!Skip
    <2>1. PICK i \in 0..Len(d), j \in 0..Len(d), new \in Nothing \cup Emptied :
            e = SubSeq(d, 1, i) \o new \o SubSeq(d, j + 1, Len(d))
      <3>1. PICK new \in Nothing \cup Emptied : D!Replaces(d, e, new)
        BY <1>1, <1>5, Zenon DEF D!Skip, Nothing, Emptied, Empties
      <3>2. PICK k \in 0..Len(d) : \E j \in k..Len(d) :
              e = SubSeq(d, 1, k) \o new \o SubSeq(d, j + 1, Len(d))
        BY <3>1, Zenon DEF D!Replaces
      <3>3. k..Len(d) \subseteq 0..Len(d)
        BY <1>2
      <3> QED BY <3>2, <3>3, Zenon
    <2>2. canvas' = canvas
      BY <1>5 DEF D!Skip
    <2>3. new \in Seq(S)
      <3>1. {} \in S /\ \A b \in Empties : {b} \in S
        BY <1>1
      <3>2. <<>> \in Seq(S)
        OBVIOUS
      <3>3. \A x \in S : <<x>> \in Seq(S)
        OBVIOUS
      <3>4. CASE new \in Nothing
        BY <3>1, <3>2, <3>3, <3>4, Zenon DEF Nothing
      <3>5. CASE new \in Emptied
        BY <3>1, <3>3, <3>5, Zenon DEF Emptied
      <3> QED BY <3>4, <3>5
    <2>4. PICK a, c : a = SubSeq(d, 1, i) /\ c = SubSeq(d, j + 1, Len(d))
      OBVIOUS
    <2>5. a \in Seq(S) /\ c \in Seq(S)
      BY <1>2, <2>4
    <2>6. a \o new \in Seq(S)
      BY <2>3, <2>5
    <2>7. a \o new \o c \in Seq(S)
      BY <2>5, <2>6
    <2>8. e = a \o new \o c
      BY <2>1, <2>4, Zenon
    <2> QED BY <1>2, <2>2, <2>7, <2>8
  <1>6. CASE D!Fade
    <2>1. PICK i \in DOMAIN d, f \in Frames :
            \E h \in D!Partial(f) : e = [d EXCEPT ![i] = {h}]
      BY <1>1, <1>6, Zenon DEF D!Fade, Frames
    <2>2. Fades /\ canvas' = canvas
      BY <1>6 DEF D!Fade, Fades
    <2>3. PICK h \in D!Partial(f) : e = [d EXCEPT ![i] = {h}]
      BY <2>1
    <2>4. {h} \in S
      BY <1>1, <2>2
    <2>5. e \in Seq(S)
      BY <1>2, <2>3, <2>4
    <2> QED BY <1>2, <2>2, <2>5
  <1>7. CASE UNCHANGED D!displayVars
    <2>1. canvas' = canvas /\ Due' = Due
      BY <1>7 DEF D!displayVars
    <2> QED BY <1>1, <1>2, <2>1
  <1> QED BY <1>3, <1>4, <1>5, <1>6, <1>7, Zenon DEF DisplayStep, D!DisplayNext

\* A frame is a part of itself.
LEMMA PartOfItself == ASSUME NEW f \in Frames PROVE f \in D!Partial(f)
  <1>1. f = [c \in DOMAIN f |-> f[c]]
    BY DEF Frames, Picture, Paint
  <1> QED BY <1>1 DEF D!Partial

\* The canvas is never a mixture of two frames, whatever part of them was sent and
\* whatever was resized: at the worst parts of one frame are missing.
THEOREM ShowsWholeFrames == ASSUME ExactScreens PROVE Spec => []D!Whole
  <1> DEFINE P == Empties \cup UNION {D!Partial(f) : f \in Frames}
  <1>1. Empties \subseteq P /\ Frames \subseteq P /\ \A f \in Frames : D!Partial(f) \subseteq P
    BY PartOfItself
  <1>2. Within(P) => D!Whole
    BY Zenon DEF Within, D!Whole, Empties, Frames
  <1> HIDE DEF P
  <1>3. D!DisplayInit => Within(P)
    BY <1>1, StartsWithin
  <1>4. Within(P) /\ DisplayStep => Within(P)'
    BY <1>1, StaysWithin
  <1> QED BY <1>2, <1>3, <1>4, SessionIsADisplay, PTL
          DEF DisplayRefined, D!DisplaySpec, DisplayStep

\* In a session in which no resize keeps the number of pixels of a frame sent
\* before, every frame on the canvas is whole.
THEOREM ShowsSharpFrames == ASSUME ExactScreens PROVE Spec /\ []~stale => []D!Sharp
  <1> DEFINE P == Empties \cup Frames
  <1>1. Empties \subseteq P /\ Frames \subseteq P
    OBVIOUS
  <1>2. Within(P) => D!Sharp
    BY Zenon DEF Within, D!Sharp, Empties, Frames
  <1> HIDE DEF P
  <1>3. D!DisplayInit => Within(P)
    BY <1>1, StartsWithin
  <1>4. ~stale /\ Within(P) /\ DisplayStep => Within(P)'
    BY <1>1, StaysWithin DEF Fades
  <1> QED BY <1>2, <1>3, <1>4, SessionIsADisplay, PTL
          DEF DisplayRefined, D!DisplaySpec, DisplayStep
=============================================================================
