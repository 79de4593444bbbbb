--------------------------- MODULE MCSliceDecoder ---------------------------
(***************************************************************************)
(* Instances of SliceDecoder for TLC.                                      *)
(***************************************************************************)
EXTENDS SliceDecoder

\* The free buffers being interchangeable, the behaviours in which the lowest
\* of them is taken stand for all.  (Symmetry would not do for liveness.)
LowestFirst == pc = "getbuf" /\ pc' = "fill" => \A b \in free_slice_buf : slice' <= b
=============================================================================
