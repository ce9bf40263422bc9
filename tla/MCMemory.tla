------------------------------ MODULE MCMemory ------------------------------
(***************************************************************************)
(* Two tasks and three programs: one of two segments, one that ends one    *)
(* unit into a page, and one whose second segment straddles two pages      *)
(* although it is short.                                                   *)
(***************************************************************************)
EXTENDS Memory

CONSTANTS t1, t2

MCTask == {t1, t2}

Segment(start, len) == [start |-> start, len |-> len]

MCPrograms ==
    {{Segment(16, 10), Segment(32, 6)}, {Segment(16, 17)},
     {Segment(16, 10), Segment(30, 4)}}
=============================================================================
