--------------------------- MODULE MCRegisterStore ---------------------------
(* Two recorders and the web task push to two addresses, and two tabs ask:    *)
(* three pushes are enough for a deletion and a page between the halves of    *)
(* overlapping pushes, and for a page another tab's deletion has made old.    *)
EXTENDS RegisterStore, TLC

Symmetry == Permutations(Addr) \cup Permutations(Recorder) \cup Permutations(Tab)
=============================================================================
