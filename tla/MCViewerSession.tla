-------------------------- MODULE MCViewerSession --------------------------
(***************************************************************************)
(* ViewerSession for TLC: two documents of two pages, a preview and one    *)
(* tile, which pan and zoom bring into sight or not.                       *)
(***************************************************************************)
EXTENDS ViewerSession

CONSTANTS d1, d2

TwoPlaces == <<"preview", "tile">>
PreviewOrAll == {{1}, {1, 2}}
AllKeys == InfoKeys \cup TileKeys
=============================================================================
