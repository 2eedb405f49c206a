--------------------------- MODULE MCRenderCache ---------------------------
(* A page of two by one tiles at level 0 and a narrow one, in a cache of three. *)
EXTENDS RenderCache, TLC
CONSTANTS p1, p2

MCPages == {p1, p2}
MCExtent == (p1 :> <<8, 3>>) @@ (p2 :> <<2, 5>>)
MCViewport == <<0, 0, 4, 2>>

View(page, x, y, scale) == [page |-> page, origin |-> <<x, y>>, scale |-> scale]

\* Two tiles abreast along the page, then three of which the cache would hold
\* two, a page whose last row is a pixel high, and views across its edges, in
\* both directions, at its finest level, and off it.
MCViews ==
  {View(p1, x, 0, 1) : x \in {-4, -3, -2, 4}} \cup
  {View(p1, -6, -1, 2), View(p1, 1, -5, 2), View(p1, -22, 1, 3)} \cup
  {View(p2, 1, -2, 3), View(p2, 3, -9, 2)}

=============================================================================
