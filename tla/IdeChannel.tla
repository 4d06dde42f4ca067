----------------------------- MODULE IdeChannel -----------------------------
(***************************************************************************)
(* The IDE PIO driver and a channel with its drives.  The status register  *)
(* is that of the drive selected last; a command written while a drive     *)
(* waits for data (DRQ) is either ignored or takes the place of the one    *)
(* before, as the ATA standard leaves it open.                             *)
(***************************************************************************)
EXTENDS Sectors

VARIABLES
    chosen,  \* the drive the device register selects
    drive    \* per disk: status bits, current command, data taken from the host

ide == <<chosen, drive>>

Drive == [st: {"ready", "busy", "drq"}, err: BOOLEAN,
          cmd: {"none", "read", "write", "flush"},
          lba: AllLbas \cup {NoBlock}, data: Values \cup {NoBlock}]

Ready == [st |-> "ready", err |-> FALSE, cmd |-> "none", lba |-> NoBlock,
          data |-> NoBlock]

IdeInit ==
    /\ chosen \in Disks
    /\ drive = [d \in Disks |-> Ready]

Ours == call.op # "idle" /\ kind[call.disk] = "ide"

-----------------------------------------------------------------------------
(* Faulty variant: the low byte of the address is one too high.            *)
SendNextSector(d, cmd, l) ==
    drive' = [drive EXCEPT ![d] =
                 [st |-> "busy", err |-> FALSE, cmd |-> cmd,
                  lba |-> IF l + 1 \in Lbas[d] THEN l + 1 ELSE l,
                  data |-> NoBlock]]

(* The task file and the command register.                                 *)
Send(d, cmd, l) ==
    LET taken == [st |-> "busy", err |-> FALSE, cmd |-> cmd, lba |-> l,
                  data |-> NoBlock]
    IN  \/ drive' = [drive EXCEPT ![d] = taken]
        \/ drive[d].st = "drq" /\ UNCHANGED drive

(* ata_wait_not_busy, on the drive selected before; then the selection and *)
(* the command.                                                            *)
IdeStart ==
    /\ Ours /\ call.pc = "start" /\ drive[chosen].st # "busy"
    /\ chosen' = call.disk
    /\ Send(call.disk, call.op, call.lba)
    /\ Goto("transfer")
    /\ UNCHANGED <<kind, passed, device, memory, ret, opened>>

(* ata_wait_data and the 256 words.                                        *)
IdeReadData ==
    /\ Ours /\ call.op = "read" /\ call.pc = "transfer"
    /\ LET dev == drive[call.disk]
       IN  /\ dev.st = "drq" /\ ~dev.err
           /\ IF dev.cmd = "read"
                 THEN /\ memory' = [memory EXCEPT ![Buffer(call.lba)]
                                       = View(call.disk, dev.lba)]
                      /\ drive' = [drive EXCEPT ![call.disk] = Ready]
                 ELSE /\ memory' = [memory EXCEPT ![Buffer(call.lba)] = Junk]
                      /\ UNCHANGED drive
    /\ Succeed
    /\ UNCHANGED <<kind, passed, device, chosen>>

IdeWriteData ==
    /\ Ours /\ call.op = "write" /\ call.pc = "transfer"
    /\ LET dev == drive[call.disk]
       IN  /\ dev.st = "drq" /\ ~dev.err
           /\ drive' = IF dev.cmd = "write"
                          THEN [drive EXCEPT ![call.disk].st = "busy",
                                             ![call.disk].data = memory[Buffer(call.lba)]]
                          ELSE drive
    /\ Goto("program")
    /\ UNCHANGED <<kind, passed, device, memory, ret, opened, chosen>>

(* The drive is no longer busy after the data: the flush, without a look   *)
(* at the error bits.                                                      *)
IdeFlush ==
    /\ Ours /\ call.pc = "program" /\ drive[call.disk].st # "busy"
    /\ Send(call.disk, "flush", call.lba)
    /\ Goto("flushed")
    /\ UNCHANGED <<kind, passed, device, memory, ret, opened, chosen>>

(* Faulty variant: a failed flush passes.                                  *)
IdeFlushedBlind ==
    /\ Ours /\ call.pc = "flushed" /\ drive[call.disk].st # "busy"
    /\ Succeed /\ UNCHANGED memory
    /\ UNCHANGED <<kind, passed, device, ide>>

IdeFlushed ==
    /\ Ours /\ call.pc = "flushed" /\ drive[call.disk].st # "busy"
    /\ IF drive[call.disk].err THEN Fail ELSE Succeed /\ UNCHANGED memory
    /\ UNCHANGED <<kind, passed, device, ide>>

(* ata_wait_data sees an error.                                            *)
IdeError ==
    /\ Ours /\ call.pc = "transfer" /\ drive[call.disk].err
    /\ Fail
    /\ UNCHANGED <<kind, passed, device, ide>>

(* A wait loop runs out: at the start for the drive selected before, later *)
(* for the drive of the call.                                              *)
IdeGiveUp ==
    /\ Ours
    /\ LET seen == drive[IF call.pc = "start" THEN chosen ELSE call.disk]
       IN  \/ seen.st = "busy"
           \/ call.pc = "transfer" /\ seen.st = "ready" /\ ~seen.err
    /\ GiveUp
    /\ UNCHANGED <<kind, passed, device, ide>>

IdeDriver ==
    \/ IdeStart \/ IdeReadData \/ IdeWriteData \/ IdeFlush \/ IdeFlushed
    \/ IdeError \/ IdeGiveUp

-----------------------------------------------------------------------------
(* The drive.                                                              *)
Ends(d, err) == drive' = [drive EXCEPT ![d] = [Ready EXCEPT !.err = err]]

Untouched == UNCHANGED <<kind, passed, memory, call, ret, opened, chosen>>

Working(d) == drive[d].st = "busy"

(* It asks for the data of a read or a write, or refuses the command.      *)
IdeRequest(d) ==
    /\ Working(d) /\ drive[d].cmd \in {"read", "write"} /\ drive[d].data = NoBlock
    /\ \/ drive' = [drive EXCEPT ![d].st = "drq"]
       \/ drive[d].cmd \in Faults /\ Ends(d, TRUE)
    /\ UNCHANGED device /\ Untouched

(* It has the data of a write: into the cache, or an error in the end.     *)
IdeProgram(d) ==
    /\ Working(d) /\ drive[d].cmd = "write" /\ drive[d].data # NoBlock
    /\ \/ Ends(d, FALSE) /\ Cached(d, drive[d].lba, drive[d].data)
       \/ "program" \in Faults /\ Ends(d, TRUE) /\ UNCHANGED cache
    /\ UNCHANGED medium /\ Untouched

IdeEmpty(d) ==
    /\ Working(d) /\ drive[d].cmd = "flush"
    /\ \/ Ends(d, FALSE) /\ Flushed(d)
       \/ "flush" \in Faults /\ Ends(d, TRUE) /\ UNCHANGED device
    /\ Untouched

IdeDevice == \E d \in Disks : IdeRequest(d) \/ IdeProgram(d) \/ IdeEmpty(d)
=============================================================================
