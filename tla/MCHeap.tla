------------------------------- MODULE MCHeap -------------------------------
(***************************************************************************)
(* A heap of a few pages of 6 units, with headers of 2.                    *)
(***************************************************************************)
EXTENDS Heap
=============================================================================
