------------------------------ MODULE AhciPort ------------------------------
(***************************************************************************)
(* The AHCI driver: ahci_submit on command slot 0 of a port, and the host  *)
(* adapter that owns the slot while its bit in PxCI is set, reads or       *)
(* writes the buffer by DMA at a time of its own and clears the bit.       *)
(***************************************************************************)
EXTENDS Sectors

VARIABLES
    slot,   \* per disk: the command in slot 0 while PxCI bit 0 is set, or Free
    tfes    \* per disk: PxIS.TFES, a task file error

ahci == <<slot, tfes>>

Free == [cmd |-> "none"]
Command == [cmd: {"read", "write", "flush"}, lba: AllLbas]

AhciInit ==
    /\ slot = [d \in Disks |-> Free]
    /\ tfes = [d \in Disks |-> FALSE]

Mine == call.op # "idle" /\ kind[call.disk] = "ahci"

-----------------------------------------------------------------------------
Issue(cmd, next) ==
    /\ slot' = [slot EXCEPT ![call.disk] = [cmd |-> cmd, lba |-> call.lba]]
    /\ tfes' = [tfes EXCEPT ![call.disk] = FALSE]
    /\ Goto(next)
    /\ UNCHANGED <<kind, passed, device, memory, ret, opened>>

Refuse == Fail /\ UNCHANGED <<kind, passed, device, ahci>>

(* Faulty variant: the slot is not looked at.                              *)
SubmitAnyway(cmd, next) == Issue(cmd, next)

(* ahci_submit up to PxCI: a slot still issued makes it fail.              *)
Submit(cmd, next) ==
    \/ slot[call.disk] = Free /\ Issue(cmd, next)
    \/ slot[call.disk] # Free /\ Refuse

AhciStart == Mine /\ call.pc = "start" /\ Submit(call.op, "transfer")

(* Faulty variants: the slot is not waited for; a write is done without the *)
(* flush; a read is flushed.                                               *)
TransferredEarly ==
    /\ Mine /\ call.pc = "transfer"
    /\ IF call.op = "read"
          THEN Succeed /\ UNCHANGED memory
          ELSE Goto("flush") /\ UNCHANGED <<memory, ret, opened>>
    /\ UNCHANGED <<kind, passed, device, ahci>>

TransferredUnflushed ==
    /\ Mine /\ call.pc = "transfer" /\ slot[call.disk] = Free
    /\ Succeed /\ UNCHANGED memory
    /\ UNCHANGED <<kind, passed, device, ahci>>

TransferredFlushAll ==
    /\ Mine /\ call.pc = "transfer" /\ slot[call.disk] = Free
    /\ Goto("flush") /\ UNCHANGED <<memory, ret, opened>>
    /\ UNCHANGED <<kind, passed, device, ahci>>

(* The bit in PxCI is clear: a read is done, a write goes on to the flush. *)
AhciTransferred ==
    /\ Mine /\ call.pc = "transfer" /\ slot[call.disk] = Free
    /\ IF call.op = "read"
          THEN Succeed /\ UNCHANGED memory
          ELSE Goto("flush") /\ UNCHANGED <<memory, ret, opened>>
    /\ UNCHANGED <<kind, passed, device, ahci>>

AhciFlush == Mine /\ call.pc = "flush" /\ Submit("flush", "flushed")

AhciFlushed ==
    /\ Mine /\ call.pc = "flushed" /\ slot[call.disk] = Free
    /\ Succeed
    /\ UNCHANGED <<kind, passed, device, memory, ahci>>

Polling == Mine /\ call.pc \in {"transfer", "flushed"} /\ slot[call.disk] # Free

(* The error bit ends the polling; the slot stays issued and the port is   *)
(* not restarted.                                                          *)
AhciError == Polling /\ tfes[call.disk] /\ Refuse

(* Faulty variant: the polling has no bound.                               *)
AhciPollOn == Polling /\ ~tfes[call.disk] /\ UNCHANGED <<shared, ahci>>

AhciGiveUp ==
    /\ Polling /\ ~tfes[call.disk]
    /\ GiveUp
    /\ UNCHANGED <<kind, passed, device, ahci>>

AhciDriver ==
    \/ AhciStart \/ AhciTransferred \/ AhciFlush \/ AhciFlushed
    \/ AhciError \/ AhciGiveUp

-----------------------------------------------------------------------------
(* The host adapter and the drive behind it.                               *)
Owned(d) == slot[d] # Free /\ ~tfes[d]

AhciEffect(d) ==
    LET c == slot[d]
    IN  CASE c.cmd = "read" ->
               /\ memory' = [memory EXCEPT ![Buffer(c.lba)] = View(d, c.lba)]
               /\ UNCHANGED device
          [] c.cmd = "write" ->
               /\ Cached(d, c.lba, memory[Buffer(c.lba)])
               /\ UNCHANGED <<medium, memory>>
          [] c.cmd = "flush" -> Flushed(d) /\ UNCHANGED memory

AhciDone(d) ==
    /\ Owned(d)
    /\ AhciEffect(d)
    /\ slot' = [slot EXCEPT ![d] = Free]
    /\ UNCHANGED <<kind, passed, call, ret, opened, tfes>>

(* A failed command may have had its effect.                               *)
AhciFailed(d) ==
    /\ Owned(d) /\ slot[d].cmd \in Faults
    /\ AhciEffect(d) \/ UNCHANGED <<device, memory>>
    /\ tfes' = [tfes EXCEPT ![d] = TRUE]
    /\ UNCHANGED <<kind, passed, call, ret, opened, slot>>

AhciDevice == \E d \in Disks : AhciDone(d) \/ AhciFailed(d)
=============================================================================
