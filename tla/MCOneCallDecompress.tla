-------------------------- MODULE MCOneCallDecompress --------------------------
(* OneCallDecompress on the files and buffers of MCBzRead. *)
EXTENDS OneCallDecompress, MCBzRead
==============================================================================
