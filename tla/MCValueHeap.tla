---------------------------- MODULE MCValueHeap ----------------------------
(***************************************************************************)
(* ValueHeap with one variable, up to three elements at a time, one key    *)
(* and one content of a String.  Which free cell operator new returns is   *)
(* nowhere looked at, so the cells are interchangeable.                    *)
(***************************************************************************)
EXTENDS ValueHeapStore

Symmetry == Permutations(Heap)
=============================================================================
