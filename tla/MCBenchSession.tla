--------------------------- MODULE MCBenchSession ---------------------------
(* A document of two pages, strips of one tile and a grid of two.             *)
EXTENDS BenchSession

PlacesC == 1 .. 2
RegionsC == {<<1>>, <<1, 2>>}
StripC == <<1>>
FullC == <<1, 2>>
=============================================================================
