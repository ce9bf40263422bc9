------------------------------- MODULE Stdin -------------------------------
(***************************************************************************)
(* The keyboard and the reads of standard input (kb.c, syscall_read_stdin).*)
(* The keyboard interrupt edits a line in terminal_buffer and, at its end, *)
(* pushes it to input_list and wakes the reader; readers take turns under  *)
(* the semaphore stdin_lock.  The interrupt comes between any two steps of *)
(* the kernel.                                                             *)
(*                                                                         *)
(* Of a character only its being NUL is kept: a line of input_list is the  *)
(* number of characters strlen finds in it.                                *)
(***************************************************************************)
EXTENDS KernelTasks

CONSTANTS
    MaxLine,    \* bound: characters of the line being typed, and of a read
    MaxLines    \* bound: lines waiting in input_list

ASSUME BoundAssumption == MaxLine \in Nat \ {0} /\ MaxLines \in Nat

VARIABLES
    terminal_buffer,
    keyboard_input_size,    \* how many of its characters may be erased
    held,                   \* the modifiers that are down
    input_list,
    reader_task,
    stdin_lock,
    len                     \* the length each reader has asked for
\* pc[t] is "user", "queued" for stdin_lock, or "awaits" a line.
keyboard == << terminal_buffer, keyboard_input_size, held >>
stdinVars == << keyboard, input_list, reader_task, stdin_lock, pc, len, ready >>

StdinInit ==
    /\ terminal_buffer = << >>
    /\ keyboard_input_size = 0
    /\ held = {}
    /\ input_list = << >>
    /\ reader_task = NULL
    /\ stdin_lock = KSemaphoreInit(1)
    /\ pc = [t \in Task |-> "user"]
    /\ len = [t \in Task |-> 1]
    /\ ready = Task

---------------------------------------------------------------------------
(* The keyboard interrupt. *)

strlen(str) == Cardinality({i \in DOMAIN str : \A j \in 1 .. i : str[j] # "NUL"})

\* The variant that takes an empty line for nothing to wake up for.
ReaderWokenByText(str) == IF strlen(str) = 0 THEN NULL ELSE reader_task

ReaderWoken(str) == reader_task

\* The variant that leaves the count of the last line.
SizeAfterEofKept == keyboard_input_size

SizeAfterEof == 0

keyboard_eof(str) ==
    /\ Len(input_list) < MaxLines
    /\ keyboard_input_size' = SizeAfterEof
    /\ input_list' = Append(input_list, strlen(str))
    /\ terminal_buffer' = << >>
    /\ ready' = ready \cup ({ReaderWoken(str)} \ {NULL})
    /\ reader_task' = IF ReaderWoken(str) = NULL THEN reader_task ELSE NULL

Modifier(key) ==
    /\ held' = IF key \in held THEN held \ {key} ELSE held \cup {key}
    /\ UNCHANGED << terminal_buffer, keyboard_input_size, input_list, reader_task, ready >>

CtrlD ==
    /\ "ctrl" \in held
    /\ keyboard_eof(terminal_buffer)
    /\ UNCHANGED held

Backspace ==
    /\ keyboard_input_size > 0
    /\ keyboard_input_size' = keyboard_input_size - 1
    /\ terminal_buffer' = SubSeq(terminal_buffer, 1, Len(terminal_buffer) - 1)
    /\ UNCHANGED << held, input_list, reader_task, ready >>

\* With shift, 32 is subtracted from the character, whatever it is: from a
\* blank it leaves NUL, and from a newline something that ends no line.
CharOf(key) ==
    IF "shift" \in held
    THEN IF key = "space" THEN "NUL" ELSE "char"
    ELSE IF key = "enter" THEN "newline" ELSE "char"

Character(key) ==
    /\ "ctrl" \notin held
    /\ Len(terminal_buffer) < MaxLine
    /\ LET typed == Append(terminal_buffer, CharOf(key))
       IN  IF CharOf(key) = "newline" THEN keyboard_eof(typed)
           ELSE /\ keyboard_input_size' = keyboard_input_size + 1
                /\ terminal_buffer' = typed
                /\ UNCHANGED << input_list, reader_task, ready >>
    /\ UNCHANGED held

keyboard_handler ==
    /\ \/ \E key \in {"shift", "ctrl"} : Modifier(key)
       \/ CtrlD
       \/ Backspace
       \/ \E key \in {"letter", "space", "enter"} : Character(key)
    /\ UNCHANGED << stdin_lock, pc, len >>

---------------------------------------------------------------------------
(* System calls. *)

\* syscall_read_stdin when stdin_lock is taken: up to the sleep in
\* ksemaphore_wait.
ReadQueues(t, n) ==
    /\ pc[t] = "user"
    /\ KSemaphoreBlocks(stdin_lock)
    /\ stdin_lock' = KSemaphoreWait(stdin_lock, t)
    /\ pc' = [pc EXCEPT ![t] = "queued"]
    /\ len' = [len EXCEPT ![t] = n]
    /\ ready' = ready \ {t}
    /\ UNCHANGED << keyboard, input_list, reader_task >>

\* With lock the semaphore as the caller has it: it publishes itself as the
\* reader and sleeps.
Await(t, lock) ==
    /\ input_list = << >>
    /\ stdin_lock' = lock
    /\ reader_task' = t
    /\ pc' = [pc EXCEPT ![t] = "awaits"]
    /\ ready' = ready \ {t}
    /\ UNCHANGED << keyboard, input_list >>

\* The variant that does not compare the lengths.
LineLeftUnchecked(n) == << Head(input_list) - n >> \o Tail(input_list)

\* What does not fit the buffer is left for the next read.
LineLeft(n) ==
    IF n < Head(input_list) THEN << Head(input_list) - n >> \o Tail(input_list)
    ELSE Tail(input_list)

\* The rest of the call, once there is a line.
Take(t, n, lock) ==
    /\ input_list # << >>
    /\ input_list' = LineLeft(n)
    /\ stdin_lock' = KSemaphoreSignal(lock)
    /\ ready' = ready \cup KSemaphoreWakes(lock)
    /\ pc' = [pc EXCEPT ![t] = "user"]
    /\ UNCHANGED << keyboard, reader_task >>

ReadBegins(t, n) ==
    /\ pc[t] = "user"
    /\ ~ KSemaphoreBlocks(stdin_lock)
    /\ LET lock == KSemaphoreWait(stdin_lock, t)
       IN  Await(t, lock) \/ Take(t, n, lock)
    /\ len' = [len EXCEPT ![t] = n]

\* Back from the sleep in ksemaphore_wait ...
ReadUnqueued(t) ==
    /\ pc[t] = "queued" /\ t \in ready
    /\ Await(t, stdin_lock) \/ Take(t, len[t], stdin_lock)
    /\ UNCHANGED len

\* ... and from the wait for a line.
ReadAwoken(t) ==
    /\ pc[t] = "awaits" /\ t \in ready
    /\ Take(t, len[t], stdin_lock)
    /\ UNCHANGED len

syscall_write_stdout(t) ==
    /\ pc[t] = "user"
    /\ keyboard_input_size' = 0
    /\ UNCHANGED << terminal_buffer, held, input_list, reader_task, stdin_lock,
                    pc, len, ready >>

StdinNext ==
    \/ keyboard_handler
    \/ \E t \in Task : \/ \E n \in 1 .. MaxLine : ReadQueues(t, n) \/ ReadBegins(t, n)
                       \/ ReadUnqueued(t)
                       \/ ReadAwoken(t)
                       \/ syscall_write_stdout(t)

\* The round robin queue runs every woken task again.
StdinFairness == \A t \in Task : WF_stdinVars(ReadUnqueued(t) \/ ReadAwoken(t))

StdinSpec == StdinInit /\ [][StdinNext]_stdinVars /\ StdinFairness

---------------------------------------------------------------------------
\* The line being typed, the lines, the readers and the lock have their types.
StdinTypeOK ==
    /\ terminal_buffer \in Seq({"char", "NUL"})
    /\ keyboard_input_size \in Nat
    /\ held \subseteq {"shift", "ctrl"}
    /\ input_list \in Seq(0 .. MaxLine)
    /\ reader_task \in Task \cup {NULL}
    /\ stdin_lock \in [value : Int, sq : Seq(Task)]
    /\ pc \in [Task -> {"user", "queued", "awaits"}]
    /\ len \in [Task -> 1 .. MaxLine]
    /\ ready \subseteq Task

\* A reader that was woken for a line finds one when it runs, however late
\* that is and whoever came to read in between (kqueue_peek would follow the
\* NULL head of an empty list), and one reader at a time waits for a line.
ReaderFindsLine ==
    \A t \in Task : pc[t] = "awaits" =>
        /\ t \in ready => input_list # << >>
        /\ \A u \in Task \ {t} : pc[u] # "awaits"

\* Nobody sleeps beside a line: the task that sleeps for one is the one the
\* keyboard will wake, and there is no line; and a task sleeps for stdin_lock
\* only while another one is on its way to release it.
NoSleepBesideInput ==
    \A t \in Task \ ready :
        \/ pc[t] = "awaits" /\ reader_task = t /\ input_list = << >>
        \/ pc[t] = "queued" /\ \E u \in Task \ {t} :
              pc[u] = "awaits" \/ (pc[u] = "queued" /\ u \in ready)

\* A backspace erases a character of the line being typed: the count of what
\* may be erased is never more than what is in the buffer, whatever output and
\* ends of lines come in between (kstring_erase would start at -1).
BackspaceWithinLine == StdinTypeOK /\ keyboard_input_size <= Len(terminal_buffer)

\* As long as lines keep being typed, every reader gets one, in whatever order
\* readers come back for more.
EndOfLine == Len(input_list') > Len(input_list)
EventuallyRead ==
    []<><<EndOfLine>>_stdinVars => \A t \in Task : pc[t] # "user" ~> pc[t] = "user"
=============================================================================
