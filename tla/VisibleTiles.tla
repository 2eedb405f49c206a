---------------------------- MODULE VisibleTiles ----------------------------
(***************************************************************************)
(* From a view of a page to the tiles that show it (model.rs,              *)
(* visible_tiles), and from a tile to the pixels the worker renders for it *)
(* (pdf_worker.rs).  A page is rendered at the levels 0, 1, ...: twice the *)
(* edge with every level, cut into square tiles.  The viewer asks for the  *)
(* tiles of one level that meet the window, of a coarser level when they   *)
(* would be more than the cache can hold.                                  *)
(*                                                                         *)
(* Screen and page are measured in whole units; fractions of the page are  *)
(* kept as a position on the screen over the page's extent there, so that  *)
(* everything is exact where the code rounds to 53 bits.                   *)
(***************************************************************************)
EXTENDS Integers, Sequences, SequencesExt, FiniteSetsExt

CONSTANTS
  Pages,     \* pages that can be opened
  Extent,    \* PageInfo.width and height of each page, as a pair
  Viewport,  \* the drawing area on the screen: <<left, top, right, bottom>>
  TILE, PREVIEW_EDGE, BASE_EDGE,  \* 512, 512 and the 1024 of level 0
  MAX_LEVEL, MAX_JOBS,            \* 9 and 32
  Density    \* pixels per unit of the screen

ASSUME TilesAssumption ==
  /\ Extent \in [Pages -> (Nat \ {0}) \X (Nat \ {0})]
  /\ Viewport \in Int \X Int \X Int \X Int
  /\ Viewport[1] < Viewport[3] /\ Viewport[2] < Viewport[4]
  /\ TILE \in Nat \ {0} /\ PREVIEW_EDGE \in 1..TILE /\ BASE_EDGE \in Nat \ {0}
  /\ MAX_LEVEL \in Nat /\ MAX_JOBS \in Nat \ {0} /\ Density \in Nat \ {0}

CeilDiv(a, b) == (a + b - 1) \div b
Axes == {1, 2}

-----------------------------------------------------------------------------
(* Rasters *)

Edge(level) == IF level < 0 THEN PREVIEW_EDGE ELSE BASE_EDGE * 2^level

\* The longer side gets the edge, the other one its share, at least a pixel.
RasterSize(page, edge) ==
  LET e == Extent[page]
      long == Max({e[1], e[2]})
  IN  [d \in Axes |-> Max({(2 * e[d] * edge + long) \div (2 * long), 1})]

\* The cache holds every page at level 0: four tiles at most, of 32.
ASSUME CoarsestFits ==
  \A p \in Pages : LET size == RasterSize(p, Edge(0))
                   IN  CeilDiv(size[1], TILE) * CeilDiv(size[2], TILE) < MAX_JOBS

Key(page, level, col, row) == [page |-> page, level |-> level, col |-> col, row |-> row]
Preview(page) == Key(page, -1, 0, 0)

-----------------------------------------------------------------------------
(* The view: a page's place on the screen and its scale *)

OnScreen(v, d) == Extent[v.page][d] * v.scale

\* View::normalized, times OnScreen: a coordinate of the screen within the page.
Clamped(v, d, at) == Min({Max({at - v.origin[d], 0}), OnScreen(v, d)})
From(v, d) == Clamped(v, d, Viewport[d])
To(v, d)   == Clamped(v, d, Viewport[d + 2])

Offscreen(v) ==
  \E d \in Axes : \/ v.origin[d] + OnScreen(v, d) <= Viewport[d]
                  \/ v.origin[d] >= Viewport[d + 2]

\* Tiles that meet the window along an axis: from First to before Beyond.
First(v, d, level) ==
  (From(v, d) * RasterSize(v.page, Edge(level))[d]) \div (OnScreen(v, d) * TILE)
Beyond(v, d, level) ==
  CeilDiv(To(v, d) * RasterSize(v.page, Edge(level))[d], OnScreen(v, d) * TILE)

\* The level whose edge has a pixel for each of the screen's.
Desired(v) ==
  LET long == Max({OnScreen(v, d) : d \in Axes})
  IN  Min({l \in 0..MAX_LEVEL : l = MAX_LEVEL \/ Edge(l) >= long * Density})

\* Mutant: a level with one tile too many is kept.
Level_OneMore(v) ==
  Max({l \in 0..Desired(v) :
         \/ l = 0
         \/ (Beyond(v, 1, l) - First(v, 1, l)) * (Beyond(v, 2, l) - First(v, 2, l)) <= MAX_JOBS})

\* It is lowered until the tiles in sight are fewer than the cache can hold.
Level(v) ==
  Max({l \in 0..Desired(v) :
         \/ l = 0
         \/ (Beyond(v, 1, l) - First(v, 1, l)) * (Beyond(v, 2, l) - First(v, 2, l)) < MAX_JOBS})

Square(n) == n * n

\* Mutant: the distance is taken from the tile's corner.
Distance_Corner(v, k) ==
  LET off(d, i) == 2 * i * TILE * OnScreen(v, d)
                     - (From(v, d) + To(v, d)) * RasterSize(k.page, Edge(k.level))[d]
      other(d)  == Extent[v.page][3 - d]
  IN  Square(off(1, k.col) * other(1)) + Square(off(2, k.row) * other(2))

\* Square of the distance from a tile's middle to the middle of what is visible,
\* in a unit common to both axes.
Distance(v, k) ==
  LET off(d, i) == (2 * i + 1) * TILE * OnScreen(v, d)
                     - (From(v, d) + To(v, d)) * RasterSize(k.page, Edge(k.level))[d]
      other(d)  == Extent[v.page][3 - d]
  IN  Square(off(1, k.col) * other(1)) + Square(off(2, k.row) * other(2))

\* The sort keeps the order by rows of tiles equally far.
Before(v, k, l) ==
  \/ Distance(v, k) < Distance(v, l)
  \/ /\ Distance(v, k) = Distance(v, l)
     /\ k.row < l.row \/ (k.row = l.row /\ k.col < l.col)

TilesAt(v, level) ==
  LET size    == RasterSize(v.page, Edge(level))
      end(d)  == Min({Beyond(v, d, level), CeilDiv(size[d], TILE)})
  IN  {Key(v.page, level, col, row) : col \in First(v, 1, level)..(end(1) - 1),
                                      row \in First(v, 2, level)..(end(2) - 1)}

\* The tiles of a level in their order: at i the one that i - 1 come before.
Nearest(v, level) ==
  LET tiles == TilesAt(v, level)
  IN  [i \in 1..Cardinality(tiles) |->
         CHOOSE k \in tiles : Cardinality({l \in tiles : Before(v, l, k)}) = i - 1]

\* visible_tiles: nearest to the centre first, at most MAX_JOBS - 1.
VisibleTiles(v) ==
  IF Offscreen(v) THEN <<>>
  ELSE LET s == Nearest(v, Level(v))
       IN  SubSeq(s, 1, Min({Len(s), MAX_JOBS - 1}))

-----------------------------------------------------------------------------
(* The worker: a tile's pixels and their place in the raster *)

TileInPage(k) ==
  LET size == RasterSize(k.page, Edge(k.level))
  IN  k.col * TILE < size[1] /\ k.row * TILE < size[2]

Render(k) ==
  LET size == RasterSize(k.page, Edge(k.level))
      at   == <<k.col * TILE, k.row * TILE>>
  IN  [full |-> size, origin |-> at, size |-> [d \in Axes |-> Min({size[d] - at[d], TILE})]]

\* read_pixels, the checks of a tile's header.
Accepted(h) ==
  \A d \in Axes : /\ h.size[d] \in 1..TILE
                  /\ h.full[d] \in 1..Edge(MAX_LEVEL)
                  /\ h.origin[d] + h.size[d] <= h.full[d]

\* Every key a view can need.
Keys ==
  {Preview(p) : p \in Pages} \cup
  UNION {{k \in {Key(p, l, c, r) : c \in 0..CeilDiv(Edge(l), TILE), r \in 0..CeilDiv(Edge(l), TILE)} :
            TileInPage(k)} : p \in Pages, l \in 0..MAX_LEVEL}

\* The pixels of each key.
Size == [k \in Keys |-> LET h == Render(k) IN h.size[1] * h.size[2]]

-----------------------------------------------------------------------------
(* What the list of tiles owes to the view *)

\* A point in the middle of a unit of the screen, x and y from the page's
\* origin there, lies where the texture of k is painted.
PaintedAt(v, k, at) ==
  LET h == Render(k)
  IN  \A d \in Axes :
        /\ h.origin[d] * 2 * OnScreen(v, d) <= (2 * at[d] + 1) * h.full[d]
        /\ (2 * at[d] + 1) * h.full[d] <= (h.origin[d] + h.size[d]) * 2 * OnScreen(v, d)

VisiblePoints(v) ==
  (From(v, 1)..(To(v, 1) - 1)) \X (From(v, 2)..(To(v, 2) - 1))

\* The tiles asked for leave no hole in what is visible of the page, and the
\* worker can render each of them and is believed.
Covers(v, list) ==
  LET tiles == ToSet(list)
  IN  /\ \A k \in tiles : TileInPage(k) /\ Accepted(Render(k))
      /\ ~Offscreen(v) =>
           \A at \in VisiblePoints(v) : \E k \in tiles : PaintedAt(v, k, at)

\* The first tile is where the user looks: it holds the middle of what is
\* visible.
CentreFirst(v, list) ==
  ~Offscreen(v) =>
    LET h == Render(list[1])
    IN  \A d \in Axes :
          LET c == (From(v, d) + To(v, d)) * h.full[d]
          IN  /\ h.origin[d] * 2 * OnScreen(v, d) <= c
              /\ c <= (h.origin[d] + h.size[d]) * 2 * OnScreen(v, d)
=============================================================================
