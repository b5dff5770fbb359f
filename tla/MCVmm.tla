------------------------------- MODULE MCVmm -------------------------------
(***************************************************************************)
(* The addresses of the small instances: << leaf index, ..., root index >>.*)
(***************************************************************************)
EXTENDS VmmMemory

(* Three pages of one page table.                                          *)
ThreeLeaves == {<< 0, 0 >>, << 1, 0 >>, << 2, 0 >>}

(* Three levels: two subtrees of the root, one of them with two pages.     *)
DeepTables == {<< 0, 0, 0 >>, << 0, 0, 1 >>, << 1, 0, 1 >>}

(* Three levels, one page in each subtree.                                 *)
DeepLeaves == {<< 0, 0, 0 >>, << 0, 0, 1 >>}
=============================================================================
