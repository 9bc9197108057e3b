---------------------------- MODULE MCTileViewer ----------------------------
(* Two pages of two by two tiles and a column beyond the bitmap slots;        *)
(* viewers with a ceiling of two tiles and without one.                       *)
EXTENDS TileViewer

GridC == 1 .. 4
PlacesC == 1 .. 5
RegionsC == {<<1, 2>>, <<1, 2, 3, 4>>, <<2, 5>>}
=============================================================================
