----------------------------- MODULE MCSdFiles ------------------------------
(* SdFiles with the open modes of a sketch: FILE_READ, FILE_WRITE, and read   *)
(* and write anywhere in a file, cut first or not.                            *)
EXTENDS SdFiles

MCMode == {{"R", "W", "CREAT", "APPEND"}, {"R", "W", "CREAT", "TRUNC"}}
=============================================================================
