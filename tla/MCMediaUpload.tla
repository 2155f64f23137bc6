--------------------------- MODULE MCMediaUpload ---------------------------
(* Files of one full chunk, of a chunk and a half, and of half a chunk;    *)
(* the first is a chunk of the second.                                     *)
EXTENDS MediaUpload, TLC

CONSTANTS a, b

Short == <<b>>
Exact == <<a, b>>
Long == <<a, b, a>>

MCFile == {Exact, Long}
MCForeign == {Short, Exact}
MCAsked == {Exact, Long}
MCImage == {Short}
MCVideo == {Long}
Symmetry == Permutations(Goroutine)
=============================================================================
