------------------------------ MODULE Pathbuf -------------------------------
(***************************************************************************)
(* Paths (pathbuf.c) and how system calls resolve them.  A text is the     *)
(* sequence of what stands between its slashes: names, "..", "." and the   *)
(* empty component, which a slash at either end leaves.  A path buffer     *)
(* holds the names that are left, and how many directories to go back      *)
(* before them.                                                            *)
(*                                                                         *)
(* A definition headed "variant" has a fault that the code does not have.  *)
(***************************************************************************)
EXTENDS Integers, SequencesExt

CONSTANTS
    Up, Here, Empty,    \* "..", "." and ""
    Bin,                \* the name "bin"
    Name,
    Cwds,               \* the directories tasks may be in, as lists of names
    Texts               \* the texts they may give to system calls
ASSUME ComponentAssumption ==
    /\ Up # Here /\ Up # Empty /\ Here # Empty
    /\ (Name \cup {Bin}) \cap {Up, Here, Empty} = {}
    /\ Cwds \subseteq Seq(Name)
    /\ Texts \subseteq Seq(Name \cup {Up, Here, Empty})

pathbuf_root == [is_absolute |-> TRUE, back |-> 0, fields |-> << >>]

pathbuf_of(fields) == [pathbuf_root EXCEPT !.fields = fields]
pathbuf_child(buf, name) == [buf EXCEPT !.fields = Append(@, name)]
pathbuf_name(buf) == Last(buf.fields)
pathbuf_cmp(buf1, buf2) == buf1 = buf2

IsAbsolute(text) == Len(text) > 1 /\ text[1] = Empty

\* One step back: a name is dropped, if there is one; the root has no parent.
StepBack(buf) ==
    IF buf.fields # << >> THEN [buf EXCEPT !.fields = Front(@)]
    ELSE IF buf.is_absolute THEN buf
    ELSE [buf EXCEPT !.back = @ + 1]

\* The variant that forgets that names may follow "..".
ParsedNoPop(buf, part) ==
    IF part = Up THEN [buf EXCEPT !.back = @ + 1]
    ELSE IF part \in {Here, Empty} THEN buf
    ELSE pathbuf_child(buf, part)
Parsed(buf, part) ==
    IF part = Up THEN StepBack(buf)
    ELSE IF part \in {Here, Empty} THEN buf
    ELSE pathbuf_child(buf, part)

pathbuf_parse(text) ==
    LET Read[i \in 0 .. Len(text)] ==
            IF i = 0 THEN [pathbuf_root EXCEPT !.is_absolute = IsAbsolute(text)]
            ELSE Parsed(Read[i - 1], text[i])
    IN  Read[Len(text)]

\* An absolute path joined to another is the root; no system call joins one.
pathbuf_join(buf1, buf2) ==
    IF buf2.is_absolute THEN pathbuf_root
    ELSE LET Back[i \in 0 .. buf2.back] == IF i = 0 THEN buf1 ELSE StepBack(Back[i - 1])
         IN  [Back[buf2.back] EXCEPT !.fields = @ \o buf2.fields]

\* With a slash after every field.
pathbuf_stringify(buf) ==
    (IF buf.is_absolute THEN << Empty >> ELSE << >>)
        \o [i \in 1 .. buf.back |-> Up] \o buf.fields \o << Empty >>

resolve_path(cwd, path) == IF path.is_absolute THEN path ELSE pathbuf_join(cwd, path)

---------------------------------------------------------------------------
(* System calls. *)

\* Where a text leads from a directory.
PathOf(cwd, text) == resolve_path(cwd, pathbuf_parse(text)).fields

\* syscall_setcwd once the directory is found to exist, and syscall_getcwd.
syscall_setcwd(cwd, text) == resolve_path(cwd, pathbuf_parse(text))
syscall_getcwd(cwd) == pathbuf_stringify(cwd)

\* exec_open looks in the directory of the task and then in /bin.
exec_open(cwd, text) ==
    LET path == pathbuf_parse(text)
    IN  IF path.is_absolute THEN << path >>
        ELSE << pathbuf_join(cwd, path),
                pathbuf_join(pathbuf_parse(<< Empty, Bin, Empty >>), path) >>

---------------------------------------------------------------------------
\* The walk that a path describes, one component after the other.
WalkTo(at, part) ==
    IF part = Up THEN IF at = << >> THEN at ELSE Front(at)
    ELSE IF part \in {Here, Empty} THEN at
    ELSE Append(at, part)
Walk(at, text) ==
    LET After[i \in 0 .. Len(text)] ==
            IF i = 0 THEN IF IsAbsolute(text) THEN << >> ELSE at
            ELSE WalkTo(After[i - 1], text[i])
    IN  After[Len(text)]

\* The directories and texts for which resolving what is parsed leads elsewhere,
\* or getcwd afterwards gives a text that does not lead back.
Misread ==
    {s \in Cwds \X Texts :
        LET at == s[1]
            text == s[2]
            cwd == pathbuf_of(at)
            there == syscall_setcwd(cwd, text)
            places == exec_open(cwd, text)
        IN  ~ /\ there = pathbuf_of(Walk(at, text))
              /\ syscall_setcwd(cwd, syscall_getcwd(there)) = there
              /\ places[1] = there
              /\ ~ IsAbsolute(text) => places[2].fields = Walk(<< Bin >>, text)}

=============================================================================
