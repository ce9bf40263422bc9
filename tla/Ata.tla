-------------------------------- MODULE Ata --------------------------------
(***************************************************************************)
(* The ATA driver (ata.c): ata_read and ata_write sleep until the          *)
(* interrupt of the disk, one at a time under disk_sem.  The interrupt of  *)
(* a write makes the handler start a cache flush and wake the writer at    *)
(* once, so that the flush, and its interrupt, belong to nobody.           *)
(*                                                                         *)
(* The disk and the interrupt controller are external: the disk works on   *)
(* one command at a time, raises the interrupt line when it is done, and   *)
(* the controller delivers the interrupt when no kernel code runs.         *)
(***************************************************************************)
EXTENDS KernelTasks

CONSTANTS
    Sector,
    Data        \* what a sector may hold

JUNK == "JUNK"  \* what the data port gives while no sector is ready

VARIABLES
    disk,               \* the sectors
    dev,                \* the command the disk works on
    drq,                \* the sector data ready at the data port, or JUNK
    irq,                \* an interrupt is pending
    ata_current_op,
    ata_current_buffer, \* the task whose buffer it is
    ata_task,
    disk_sem,
    req,                \* the operation each task has called
    buffer,             \* the buffer each task has passed to it
    raced               \* the tasks that found the disk at work when they began
\* pc[t] is "user", "queued" for disk_sem, or "transfer".
device == << disk, dev, drq, irq >>
driver == << ata_current_op, ata_current_buffer, ata_task, disk_sem >>
ataVars == << device, driver, pc, req, buffer, raced, ready >>

Request == [op : {"READ", "WRITE"}, sector : Sector]

Idle == [op |-> "NONE"]
Command == {"READ", "WRITE", "FLUSH"}

AtaInit ==
    /\ disk \in [Sector -> Data]
    /\ dev = Idle /\ drq = JUNK /\ irq = FALSE
    /\ ata_current_op = "READ"
    /\ ata_current_buffer = NULL
    /\ ata_task = NULL
    /\ disk_sem = KSemaphoreInit(1)
    /\ pc = [t \in Task |-> "user"]
    /\ req = [t \in Task |-> Idle]
    /\ buffer = [t \in Task |-> JUNK]
    /\ raced = {}
    /\ ready = Task

---------------------------------------------------------------------------
(* The disk. *)

DiskAfter(d, command) ==
    IF command.op = "WRITE" THEN [d EXCEPT ![command.sector] = command.data] ELSE d

PortAfter(port, d, command) ==
    IF command.op = "READ" THEN d[command.sector] ELSE port

DeviceFinishes ==
    /\ dev # Idle
    /\ disk' = DiskAfter(disk, dev)
    /\ drq' = PortAfter(drq, disk, dev)
    /\ dev' = Idle
    /\ irq' = TRUE
    /\ UNCHANGED << driver, pc, req, buffer, raced, ready >>

---------------------------------------------------------------------------
(* ata_read and ata_write. *)

\* Called while disk_sem is taken.
Queue(t, r, data) ==
    /\ pc[t] = "user"
    /\ KSemaphoreBlocks(disk_sem)
    /\ disk_sem' = KSemaphoreWait(disk_sem, t)
    /\ pc' = [pc EXCEPT ![t] = "queued"]
    /\ req' = [req EXCEPT ![t] = r]
    /\ buffer' = [buffer EXCEPT ![t] = data]
    /\ ready' = ready \ {t}
    /\ UNCHANGED << device, ata_current_op, ata_current_buffer, ata_task, raced >>

(***************************************************************************)
(* With disk_sem taken: a disk still at work on the last command is waited *)
(* for, in a loop with interrupts off, and the new command is issued.  The *)
(* loop reads the status register, which takes the interrupt line back:    *)
(* the controller has latched the interrupt, or loses it.                  *)
(***************************************************************************)
Issue(t, r, data) ==
    /\ ata_current_buffer' = t
    /\ ata_current_op' = r.op
    /\ disk' = DiskAfter(disk, dev)
    /\ drq' = JUNK
    /\ irq' \in {FALSE, irq \/ dev # Idle}
    /\ dev' = [op |-> r.op, sector |-> r.sector, data |-> data]
    /\ ata_task' = t
    /\ pc' = [pc EXCEPT ![t] = "transfer"]
    /\ raced' = IF irq \/ dev # Idle THEN raced \cup {t} ELSE raced \ {t}
    /\ ready' = ready \ {t}

Start(t, r, data) ==
    /\ pc[t] = "user"
    /\ ~ KSemaphoreBlocks(disk_sem)
    /\ disk_sem' = KSemaphoreWait(disk_sem, t)
    /\ req' = [req EXCEPT ![t] = r]
    /\ buffer' = [buffer EXCEPT ![t] = data]
    /\ Issue(t, r, data)

\* Back from the sleep in ksemaphore_wait.
StartQueued(t) ==
    /\ pc[t] = "queued" /\ t \in ready
    /\ Issue(t, req[t], buffer[t])
    /\ UNCHANGED << disk_sem, req, buffer >>

\* Back from the sleep in ata_read or ata_write.
Finish(t) ==
    /\ pc[t] = "transfer" /\ t \in ready
    /\ disk_sem' = KSemaphoreSignal(disk_sem)
    /\ ready' = ready \cup KSemaphoreWakes(disk_sem)
    /\ pc' = [pc EXCEPT ![t] = "user"]
    /\ UNCHANGED << device, ata_current_op, ata_current_buffer, ata_task, req, buffer, raced >>

---------------------------------------------------------------------------
(* ata_ihandler. *)

\* The variants that wake readers only, and that leave the sector in the disk.
AwokenReader == IF ata_current_op = "READ" THEN {ata_task} \ {NULL} ELSE {}
InsNothing == buffer

Awoken == {ata_task} \ {NULL}

\* asm_insw into ata_current_buffer, whoever has that memory by now.
InsSector ==
    IF ata_current_buffer = NULL THEN buffer
    ELSE [buffer EXCEPT ![ata_current_buffer] = drq]

\* A flush commanded while the disk is still at work is ignored.
HandleWrite ==
    /\ ata_current_op = "WRITE"
    /\ ata_current_op' = "FLUSH"
    /\ dev' = IF dev = Idle THEN [op |-> "FLUSH"] ELSE dev
    /\ UNCHANGED << drq, buffer >>

HandleRead ==
    /\ ata_current_op = "READ"
    /\ buffer' = InsSector
    /\ drq' = JUNK
    /\ UNCHANGED << ata_current_op, dev >>

HandleFlush ==
    /\ ata_current_op = "FLUSH"
    /\ UNCHANGED << ata_current_op, dev, drq, buffer >>

ata_ihandler ==
    /\ irq
    /\ irq' = FALSE
    /\ HandleWrite \/ HandleRead \/ HandleFlush
    /\ ready' = ready \cup Awoken
    /\ ata_task' = IF Awoken = {} THEN ata_task ELSE NULL
    /\ UNCHANGED << disk, ata_current_buffer, disk_sem, pc, req, raced >>

AtaNext ==
    \/ DeviceFinishes
    \/ ata_ihandler
    \/ \E t \in Task :
          \/ \E s \in Sector, data \in Data :
                LET r == [op |-> "WRITE", sector |-> s]
                IN  Queue(t, r, data) \/ Start(t, r, data)
          \/ \E s \in Sector :
                LET r == [op |-> "READ", sector |-> s]
                IN  Queue(t, r, JUNK) \/ Start(t, r, JUNK)
          \/ StartQueued(t)
          \/ Finish(t)

\* The disk answers, the interrupt is delivered, and the round robin queue
\* runs every woken task.
AtaFairness ==
    /\ WF_ataVars(DeviceFinishes)
    /\ WF_ataVars(ata_ihandler)
    /\ \A t \in Task : WF_ataVars(StartQueued(t)) /\ WF_ataVars(Finish(t))

AtaSpec == AtaInit /\ [][AtaNext]_ataVars /\ AtaFairness

---------------------------------------------------------------------------
\* The disk, the registers of the driver and the calls have their types.
AtaTypeOK ==
    /\ disk \in [Sector -> Data]
    /\ dev = Idle \/ dev.op \in Command
    /\ drq \in Data \cup {JUNK}
    /\ irq \in BOOLEAN
    /\ ata_current_op \in Command
    /\ {ata_current_buffer, ata_task} \subseteq Task \cup {NULL}
    /\ disk_sem \in [value : Int, sq : Seq(Task)]
    /\ pc \in [Task -> {"user", "queued", "transfer"}]
    /\ req \in [Task -> Request \cup {Idle}]
    /\ buffer \in [Task -> Data \cup {JUNK}]
    /\ raced \subseteq Task /\ ready \subseteq Task

\* No lost interrupt: a task asleep in a transfer is the one the handler will
\* wake, and an interrupt is pending or the disk is at work, with the flush
\* of an earlier write coming in between and an interrupt lost or not.
SleeperHasInterrupt ==
    /\ AtaTypeOK
    /\ \A t \in Task : pc[t] = "transfer" /\ t \notin ready =>
          ata_task = t /\ (irq \/ dev # Idle)

\* A transfer that began with the disk at rest is done when its task is woken:
\* the buffer of a read holds the sector, the sector of a write the data.  The
\* others may be woken by the interrupt of a flush, before they are done.
QuietTransfersDone ==
    \A t \in Task \ raced : pc[t] = "transfer" /\ t \in ready =>
        buffer[t] = disk[req[t].sector]

\* Every call returns: woken by whatever interrupt, queued behind any others.
EventuallyReturns == \A t \in Task : pc[t] # "user" ~> pc[t] = "user"
=============================================================================
