----------------------------- MODULE BlockLayer -----------------------------
(***************************************************************************)
(* The block device layer: disks behind the AHCI and the IDE driver, one   *)
(* sector call at a time, with the devices at work beside it.              *)
(***************************************************************************)
EXTENDS AhciPort, IdeChannel

vars == <<shared, ahci, ide>>

Init == SectorsInit /\ AhciInit /\ IdeInit

Caller ==
    \/ \E d \in Disks : \E l \in Lbas[d] :
          BeginRead(d, l) \/ \E v \in Contents : BeginWrite(d, l, v)
    \/ \E d \in Disks, l \in AllLbas : OutOfRange(d, l)

Driver ==
    \/ AhciDriver /\ UNCHANGED ide
    \/ IdeDriver /\ UNCHANGED ahci

Device ==
    \/ AhciDevice /\ UNCHANGED ide
    \/ IdeDevice /\ UNCHANGED ahci

Next ==
    \/ Caller /\ UNCHANGED <<ahci, ide>>
    \/ Driver
    \/ Device

(* The driver runs on; nothing is assumed of the devices.                  *)
Spec == Init /\ [][Next]_vars /\ WF_vars(Driver)

-----------------------------------------------------------------------------
PerSector(f, S) ==
    /\ f = [d \in Disks |-> f[d]]
    /\ \A d \in Disks : f[d] \in [Lbas[d] -> S]

TypeOK ==
    /\ kind \in Kinds
    /\ PerSector(medium, Values)
    /\ PerSector(cache, Values \cup {NoBlock})
    /\ memory \in [Buffers -> Values]
    /\ call \in {Idle} \cup ReadCall \cup WriteCall
    /\ ret \in {"none", "ok", "failed"}
    /\ opened \in Disks \cup {NoDisk}
    /\ PerSector(passed, Contents)
    /\ slot \in [Disks -> Command \cup {Free}]
    /\ tfes \in [Disks -> BOOLEAN]
    /\ chosen \in Disks
    /\ drive \in [Disks -> Drive]

(* What a sector reads as changes only while a write call to that sector   *)
(* runs, and to what the caller passed ("a uniform writable 512-byte       *)
(* sector API"), as long as no polling loop runs out.                      *)
SectorApi ==
    [][\A d \in Disks : \A l \in Lbas[d] :
          View(d, l)' # View(d, l) =>
             /\ call.op = "write" /\ call.disk = d /\ call.lba = l
             /\ View(d, l)' = call.value]_vars

(* The least a sector API may promise when a device answers late: a sector *)
(* takes no other content than the one last passed for it.                 *)
SectorContent ==
    [][\A d \in Disks : \A l \in Lbas[d] :
          View(d, l)' \in {View(d, l), passed[d][l]}]_vars

Answered(op) == call.op = op /\ call' = Idle /\ ret' = "ok"

(* A write that reports success is on the medium, behind the drive's cache.*)
WritesDurable ==
    [][Answered("write") => medium'[call.disk][call.lba] = call.value]_vars

(* A read that reports success has put the sector into the buffer.         *)
ReadsCurrent ==
    [][Answered("read")
          => memory'[Buffer(call.lba)] = View(call.disk, call.lba)]_vars

(* A command the host adapter still owns is never rewritten, also not by   *)
(* the calls that follow a timeout or an error.                            *)
SlotOwned == [][\A d \in Disks : slot[d] # Free => slot'[d] \in {slot[d], Free}]_vars

(* Every sector call returns, even if the device never answers.            *)
CallsReturn == call.op # "idle" ~> call.op = "idle"
=============================================================================
