------------------------------ MODULE FileTree ------------------------------
(***************************************************************************)
(* What the file system promises of the tree of named files, by the calls  *)
(* that are under way: a name that is being created appears whole, in a    *)
(* directory that exists, and stays; a directory loses its names only when *)
(* an open truncates it, or when a power cut hits while its own table is   *)
(* being written.                                                          *)
(***************************************************************************)
EXTENDS SequencesExt

CONSTANT Path       \* sequences of names, with all their prefixes

VARIABLES
    tree,       \* what each path is: "none", "file" or "dir"
    damaged,    \* the directories a power cut left half written
    creating,   \* the paths that calls are creating,
    truncating, \* the paths that calls are truncating
    rewriting   \* and the directories whose tables calls are writing

Below(ds) == {p \in Path : \E d \in ds : IsStrictPrefix(d, p)}
Without(ds) == [p \in Path |-> IF p \in Below(ds) THEN "none" ELSE tree[p]]

Init ==
    /\ tree = [p \in Path |-> IF p = << >> THEN "dir" ELSE "none"]
    /\ damaged = {}

Make(p, kind) ==
    /\ p \in creating /\ tree[p] = "none"
    /\ tree[Front(p)] = "dir" /\ Front(p) \notin damaged
    /\ tree' = [tree EXCEPT ![p] = kind]
    /\ UNCHANGED damaged

Clear(d) ==
    /\ d \in truncating /\ tree[d] = "dir"
    /\ tree' = Without({d})
    /\ UNCHANGED damaged

Damage(ds) ==
    /\ ds # {} /\ ds \subseteq rewriting
    /\ tree' = Without(ds)
    /\ damaged' = damaged \cup ds

Next ==
    \/ \E p \in Path, kind \in {"file", "dir"} : Make(p, kind)
    \/ \E d \in Path : Clear(d)
    \/ \E ds \in SUBSET Path : Damage(ds)

Spec == Init /\ [][Next]_<< tree, damaged >>
=============================================================================
