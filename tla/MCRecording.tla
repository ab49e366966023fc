---------------------------- MODULE MCRecording ----------------------------
(* Model-checking instance of Recording: two addresses, two callers and two *)
(* threads, so that starts, failed starts and stops of the same and of      *)
(* different addresses overlap.  No symmetry: the run checks liveness too.  *)
EXTENDS Recording
=============================================================================
