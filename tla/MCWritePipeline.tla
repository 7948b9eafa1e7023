--------------------------- MODULE MCWritePipeline ---------------------------
(* Two users, more writes than the pipeline holds. *)
EXTENDS WritePipeline

CONSTANTS u1, u2

Users == {u1, u2}
=============================================================================
