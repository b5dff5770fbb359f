------------------------------- MODULE MCPte -------------------------------
(***************************************************************************)
(* The numbers of the build: 32 pages and 256 slots.  Three pointers, one  *)
(* of them with all the bits that malloc() leaves.                         *)
(***************************************************************************)
EXTENDS PteBits

Pointers == {{3}, {4, 20, 46}, 3 .. 63}
=============================================================================
