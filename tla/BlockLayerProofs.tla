-------------------------- MODULE BlockLayerProofs --------------------------
(***************************************************************************)
(* The sector contract of the block layer, for any number of disks,        *)
(* sectors and contents.                                                   *)
(***************************************************************************)
EXTENDS BlockLayer, TLAPS

-----------------------------------------------------------------------------
(* Commands and calls name sectors of their disk.                          *)
Addresses ==
    /\ call.op # "idle" => call.lba \in Lbas[call.disk]
    /\ \A d \in Disks : slot[d] # Free => slot[d].lba \in Lbas[d]
    /\ \A d \in Disks : drive[d].st # "ready" => drive[d].lba \in Lbas[d]

TInv == TypeOK /\ Addresses

(* What the devices do is for the call in progress, and the call is where  *)
(* the device is (as long as no wait runs out).                            *)
Filled == call.op = "write" => memory[Buffer(call.lba)] = call.value

AhciServes ==
    \A d \in Disks : Owned(d) =>
        /\ Mine /\ call.disk = d /\ slot[d].lba = call.lba
        /\ \/ call.pc = "transfer" /\ slot[d].cmd = call.op
           \/ call.pc = "flushed" /\ slot[d].cmd = "flush"

IdeServes ==
    \A d \in Disks : drive[d].st # "ready" =>
        /\ Ours /\ call.disk = d /\ drive[d].lba = call.lba /\ ~drive[d].err
        /\ \/ /\ call.pc = "transfer" /\ drive[d].cmd = call.op
              /\ drive[d].data = NoBlock
           \/ /\ call.pc = "program" /\ drive[d].cmd = "write"
              /\ drive[d].st = "busy" /\ drive[d].data = call.value
           \/ /\ call.pc = "flushed" /\ drive[d].cmd = "flush"
              /\ drive[d].st = "busy"

Stored == View(call.disk, call.lba) = call.value
OnMedium == medium[call.disk][call.lba] = call.value

AhciProgress ==
    Mine =>
        /\ call.pc = "transfer" /\ slot[call.disk] = Free =>
              IF call.op = "read"
                 THEN memory[Buffer(call.lba)] = View(call.disk, call.lba)
                 ELSE Stored
        /\ call.pc \in {"flush", "flushed"} => Stored
        /\ call.pc = "flushed" /\ slot[call.disk] = Free => OnMedium

IdeProgress ==
    Ours =>
        /\ call.pc = "program" /\ drive[call.disk].st = "ready" => Stored
        /\ call.pc = "flushed" => Stored
        /\ /\ call.pc = "flushed" /\ drive[call.disk].st = "ready"
           /\ ~drive[call.disk].err
           => OnMedium

Contract == Filled /\ AhciServes /\ IdeServes /\ AhciProgress /\ IdeProgress

CInv == TInv /\ Contract

-----------------------------------------------------------------------------
LEMMA CallFields ==
    ASSUME TypeOK, call.op # "idle"
    PROVE  /\ call \in ReadCall \cup WriteCall
           /\ call.disk \in Disks
           /\ call.op \in {"read", "write"}
           /\ call.op = "read" <=> call \in ReadCall
           /\ call.op = "write" <=> call \in WriteCall
           /\ call.op = "write" => call.value \in Contents
BY DEF TypeOK, Idle, ReadCall, WriteCall

LEMMA GotoFields ==
    ASSUME TypeOK, call.op # "idle", NEW p, Goto(p),
           p # "transfer" => call.op = "write" /\ p \in {"program", "flush", "flushed"}
    PROVE  /\ call' \in ReadCall \cup WriteCall
           /\ call'.pc = p /\ call'.op = call.op /\ call'.disk = call.disk
           /\ call'.lba = call.lba /\ call'.value = call.value
BY CallFields DEF Goto, ReadCall, WriteCall

LEMMA Words ==
    /\ NoBlock \notin Values /\ Contents \subseteq Values /\ Junk \in Values
    /\ \A d \in Disks : Lbas[d] \subseteq AllLbas
BY SectorsAssumption DEF Values, AllLbas

(* What the media hold after a write to the cache and after a flush.       *)
LEMMA ViewType ==
    ASSUME TypeOK, NEW d \in Disks, NEW l \in Lbas[d] PROVE View(d, l) \in Values
<1>1. cache[d][l] \in Values \cup {NoBlock} /\ medium[d][l] \in Values
  BY DEF TypeOK, PerSector
<1> QED
  BY <1>1 DEF View

LEMMA CachedSector ==
    ASSUME TypeOK, NEW d \in Disks, NEW l \in Lbas[d], NEW v \in Values,
           Cached(d, l, v), UNCHANGED medium
    PROVE  /\ PerSector(cache, Values \cup {NoBlock})'
           /\ View(d, l)' = v
           /\ \A e \in Disks : \A m \in Lbas[e] :
                 e # d \/ m # l => View(e, m)' = View(e, m)
BY Words DEF TypeOK, PerSector, Cached, View

LEMMA FlushedSectors ==
    ASSUME TypeOK, NEW d \in Disks, Flushed(d)
    PROVE  /\ PerSector(medium, Values)' /\ PerSector(cache, Values \cup {NoBlock})'
           /\ \A l \in Lbas[d] : medium'[d][l] = View(d, l)
           /\ \A e \in Disks : \A m \in Lbas[e] : View(e, m)' = View(e, m)
BY ViewType, Words DEF TypeOK, PerSector, Flushed, View

LEMMA InitTInv == Init => TInv
<1> SUFFICES ASSUME Init PROVE TInv
  OBVIOUS
<1>1. /\ PerSector(medium, Values) /\ PerSector(cache, Values \cup {NoBlock})
      /\ PerSector(passed, Contents)
  BY SectorsAssumption, Words DEF Init, SectorsInit, PerSector
<1>2. drive \in [Disks -> Drive] /\ chosen \in Disks
  BY DEF Init, IdeInit, Drive, Ready
<1> QED
  BY <1>1, <1>2 DEF Init, SectorsInit, AhciInit, IdeInit, TInv, TypeOK, Addresses,
     Values, Ready, Idle

-----------------------------------------------------------------------------
(* Type correctness, one lemma per actor.                                  *)
LEMMA CallerType ==
    ASSUME TInv, Caller, UNCHANGED <<ahci, ide>>
    PROVE  TInv'
<1> USE DEF TInv, ahci, ide, device
<1>1. CASE \E d \in Disks : \E l \in Lbas[d] : BeginRead(d, l)
  <2>a. PICK d \in Disks : \E l \in Lbas[d] : BeginRead(d, l)
    BY <1>1
  <2>1. PICK l \in Lbas[d] : BeginRead(d, l)
    BY <2>a
  <2>2. call' \in ReadCall /\ call'.lba \in Lbas[call'.disk]
    BY <2>1, Words DEF BeginRead, ReadCall
  <2> QED
    BY <2>1, <2>2 DEF BeginRead, TypeOK, Addresses, PerSector
<1>2. CASE \E d \in Disks : \E l \in Lbas[d] : \E v \in Contents : BeginWrite(d, l, v)
  <2>a. PICK d \in Disks : \E l \in Lbas[d] : \E v \in Contents : BeginWrite(d, l, v)
    BY <1>2
  <2>b. PICK l \in Lbas[d] : \E v \in Contents : BeginWrite(d, l, v)
    BY <2>a
  <2>1. PICK v \in Contents : BeginWrite(d, l, v)
    BY <2>b
  <2>2. call' \in WriteCall /\ call'.lba \in Lbas[call'.disk]
    BY <2>1, Words DEF BeginWrite, WriteCall
  <2>3. memory' \in [Buffers -> Values]
    BY <2>1, Words DEF BeginWrite, TypeOK
  <2>4. PerSector(passed, Contents)'
    BY <2>1 DEF BeginWrite, TypeOK, PerSector
  <2> QED
    BY <2>1, <2>2, <2>3, <2>4 DEF BeginWrite, TypeOK, Addresses, PerSector
<1>3. CASE \E d \in Disks, l \in AllLbas : OutOfRange(d, l)
  BY <1>3 DEF OutOfRange, TypeOK, Addresses, PerSector
<1> QED
  BY <1>1, <1>2, <1>3 DEF Caller

(* The end of a call, and the next place in it.                            *)
LEMMA FailType ==
    ASSUME TInv, Fail
    PROVE  /\ call' = Idle /\ ret' \in {"none", "ok", "failed"}
           /\ opened' \in Disks \cup {NoDisk}
           /\ memory' \in [Buffers -> Values]
BY Words DEF TInv, TypeOK, Fail

LEMMA SucceedType ==
    ASSUME TInv, call.op # "idle", Succeed
    PROVE  /\ call' = Idle /\ ret' \in {"none", "ok", "failed"}
           /\ opened' \in Disks \cup {NoDisk}
BY CallFields DEF TInv, Succeed

LEMMA MediaType ==
    ASSUME TInv, UNCHANGED <<passed, device>>
    PROVE  /\ PerSector(medium, Values)' /\ PerSector(cache, Values \cup {NoBlock})'
           /\ PerSector(passed, Contents)'
BY DEF TInv, TypeOK, PerSector, device

LEMMA IssueType ==
    ASSUME TInv, Mine, NEW cmd \in {"read", "write", "flush"}, NEW p, Issue(cmd, p),
           p # "transfer" => call.op = "write" /\ p = "flushed",
           UNCHANGED ide
    PROVE  TInv'
<1>1. call.op # "idle" /\ call.lba \in Lbas[call.disk] /\ call.disk \in Disks
  BY CallFields DEF Mine, TInv, Addresses
<1>2. call' \in ReadCall \cup WriteCall /\ call'.disk = call.disk /\ call'.lba = call.lba
  BY <1>1, GotoFields DEF TInv, Issue
<1>3. [cmd |-> cmd, lba |-> call.lba] \in Command
  BY <1>1, Words DEF Command
<1>4. slot' \in [Disks -> Command \cup {Free}]
      /\ \A d \in Disks : slot'[d] # Free => slot'[d].lba \in Lbas[d]
  BY <1>1, <1>3 DEF Issue, TInv, TypeOK, Addresses
<1>5. tfes' \in [Disks -> BOOLEAN]
  BY <1>1 DEF Issue, TInv, TypeOK
<1> QED
  BY <1>1, <1>2, <1>4, <1>5, MediaType DEF Issue, TInv, TypeOK, Addresses, ide

LEMMA AhciDriverType ==
    ASSUME TInv, AhciDriver, UNCHANGED ide
    PROVE  TInv'
<1>0. call.op # "idle" /\ Mine
  BY DEF AhciDriver, AhciStart, AhciTransferred, AhciFlush, AhciFlushed, AhciError,
         AhciGiveUp, Polling, Mine
<1>a. ASSUME call' = Idle, ret' \in {"none", "ok", "failed"},
             opened' \in Disks \cup {NoDisk}, memory' \in [Buffers -> Values],
             UNCHANGED <<kind, passed, device, ahci>>
      PROVE  TInv'
  BY <1>a, MediaType DEF TInv, TypeOK, Addresses, ahci, ide, Idle
<1>b. ASSUME Refuse PROVE TInv'
  BY <1>a, <1>b, FailType DEF Refuse
<1>1. CASE AhciStart
  <2>1. call.op \in {"read", "write", "flush"}
    BY <1>0, CallFields DEF TInv
  <2>2. Issue(call.op, "transfer") => TInv'
    BY <1>0, <2>1, IssueType
  <2> QED
    BY <1>1, <1>b, <2>2 DEF AhciStart, Submit
<1>2. CASE AhciTransferred
  <2>1. CASE call.op = "read"
    BY <1>0, <1>2, <1>a, <2>1, SucceedType DEF AhciTransferred, TInv, TypeOK
  <2>2. CASE call.op # "read"
    BY <1>0, <1>2, <2>2, GotoFields, CallFields, MediaType
       DEF AhciTransferred, TInv, TypeOK, Addresses, ahci, ide
  <2> QED
    BY <2>1, <2>2
<1>3. CASE AhciFlush
  <2>1. call.op = "write"
    BY <1>3, CallFields DEF AhciFlush, Mine, TInv, ReadCall
  <2> QED
    BY <1>0, <1>3, <1>b, <2>1, IssueType DEF AhciFlush, Submit
<1>4. CASE AhciFlushed
  BY <1>0, <1>4, <1>a, SucceedType DEF AhciFlushed, TInv, TypeOK
<1>5. CASE AhciError
  BY <1>5, <1>b DEF AhciError
<1>6. CASE AhciGiveUp
  BY <1>6, <1>a, FailType DEF AhciGiveUp, GiveUp
<1> QED
  BY <1>1, <1>2, <1>3, <1>4, <1>5, <1>6 DEF AhciDriver

LEMMA SendType ==
    ASSUME TInv, call.op # "idle", NEW cmd \in {"read", "write", "flush"},
           Send(call.disk, cmd, call.lba)
    PROVE  /\ drive' \in [Disks -> Drive]
           /\ \A d \in Disks : drive'[d].st # "ready" => drive'[d].lba \in Lbas[d]
<1>1. call.disk \in Disks /\ call.lba \in Lbas[call.disk] /\ call.lba \in AllLbas
  BY CallFields, Words DEF TInv, Addresses
<1> DEFINE taken == [st |-> "busy", err |-> FALSE, cmd |-> cmd, lba |-> call.lba,
                     data |-> NoBlock]
<1>2. taken \in Drive /\ taken.lba = call.lba
  BY <1>1 DEF Drive
<1>3. drive' = [drive EXCEPT ![call.disk] = taken] \/ drive' = drive
  BY DEF Send
<1> HIDE DEF taken
<1> QED
  BY <1>1, <1>2, <1>3 DEF TInv, TypeOK, Addresses

LEMMA IdeDriverType ==
    ASSUME TInv, IdeDriver, UNCHANGED ahci
    PROVE  TInv'
<1>0. call.op # "idle" /\ Ours
  BY DEF IdeDriver, IdeStart, IdeReadData, IdeWriteData, IdeFlush, IdeFlushed, IdeError,
         IdeGiveUp, Ours
<1>d. call.disk \in Disks /\ call.lba \in Lbas[call.disk]
  BY <1>0, CallFields DEF TInv, Addresses
<1>a. ASSUME call' = Idle, ret' \in {"none", "ok", "failed"},
             opened' \in Disks \cup {NoDisk}, memory' \in [Buffers -> Values],
             UNCHANGED <<kind, passed, device>>, UNCHANGED chosen,
             drive' \in [Disks -> Drive],
             \A d \in Disks : drive'[d].st # "ready" => drive'[d].lba \in Lbas[d]
      PROVE  TInv'
  BY <1>a, MediaType DEF TInv, TypeOK, Addresses, ahci, Idle
<1>1. CASE IdeStart
  <2>1. /\ drive' \in [Disks -> Drive]
        /\ \A d \in Disks : drive'[d].st # "ready" => drive'[d].lba \in Lbas[d]
    BY <1>0, <1>1, CallFields, SendType DEF IdeStart, TInv
  <2> QED
    BY <1>0, <1>1, <1>d, <2>1, GotoFields, MediaType
       DEF IdeStart, TInv, TypeOK, Addresses, ahci
<1>2. CASE IdeReadData
  <2>1. memory' \in [Buffers -> Values] /\ drive' \in [Disks -> Drive]
        /\ \A d \in Disks : drive'[d].st # "ready" => drive'[d].lba \in Lbas[d]
    <3>1. drive[call.disk].lba \in Lbas[call.disk]
      BY <1>2, <1>d DEF IdeReadData, TInv, Addresses
    <3>2. View(call.disk, drive[call.disk].lba) \in Values
      BY <1>d, <3>1, ViewType DEF TInv
    <3>3. memory' \in [Buffers -> Values]
      BY <1>2, <3>2, Words DEF IdeReadData, TInv, TypeOK
    <3>4. Ready \in Drive
      BY DEF Ready, Drive
    <3> QED
      BY <1>2, <1>d, <3>3, <3>4 DEF IdeReadData, TInv, TypeOK, Addresses, Ready
  <2> QED
    BY <1>0, <1>2, <1>a, <2>1, SucceedType DEF IdeReadData
<1>3. CASE IdeWriteData
  <2>1. memory[Buffer(call.lba)] \in Values
    BY DEF TInv, TypeOK, Buffer, Buffers
  <2>2. /\ drive' \in [Disks -> Drive]
        /\ \A d \in Disks : drive'[d].st # "ready" => drive'[d].lba \in Lbas[d]
    BY <1>3, <1>d, <2>1 DEF IdeWriteData, TInv, TypeOK, Addresses, Drive
  <2> QED
    BY <1>0, <1>3, <1>d, <2>2, GotoFields, MediaType
       DEF IdeWriteData, TInv, TypeOK, Addresses, ahci
<1>4. CASE IdeFlush
  <2>1. /\ drive' \in [Disks -> Drive]
        /\ \A d \in Disks : drive'[d].st # "ready" => drive'[d].lba \in Lbas[d]
    BY <1>0, <1>4, SendType DEF IdeFlush
  <2>2. call.op = "write"
    BY <1>0, <1>4, CallFields DEF IdeFlush, TInv, ReadCall
  <2> QED
    BY <1>0, <1>4, <1>d, <2>1, <2>2, GotoFields, MediaType
       DEF IdeFlush, TInv, TypeOK, Addresses, ahci
<1>b. ASSUME UNCHANGED ide
      PROVE  /\ UNCHANGED chosen /\ drive' \in [Disks -> Drive]
             /\ \A d \in Disks : drive'[d].st # "ready" => drive'[d].lba \in Lbas[d]
  BY <1>b DEF TInv, TypeOK, Addresses, ide
<1>5. CASE IdeFlushed
  <2>1. CASE drive[call.disk].err
    BY <1>5, <1>a, <1>b, <2>1, FailType DEF IdeFlushed
  <2>2. CASE ~drive[call.disk].err
    BY <1>0, <1>5, <1>a, <1>b, <2>2, SucceedType DEF IdeFlushed, TInv, TypeOK
  <2> QED
    BY <2>1, <2>2
<1>6. CASE IdeError
  BY <1>6, <1>a, <1>b, FailType DEF IdeError
<1>7. CASE IdeGiveUp
  BY <1>7, <1>a, <1>b, FailType DEF IdeGiveUp, GiveUp
<1> QED
  BY <1>1, <1>2, <1>3, <1>4, <1>5, <1>6, <1>7 DEF IdeDriver

LEMMA DeviceType ==
    ASSUME TInv, Device
    PROVE  TInv'
<1>a. ASSUME UNCHANGED <<kind, call, ret, opened, passed, chosen>>,
             memory' \in [Buffers -> Values],
             PerSector(medium, Values)', PerSector(cache, Values \cup {NoBlock})',
             slot' \in [Disks -> Command \cup {Free}], tfes' \in [Disks -> BOOLEAN],
             \A d \in Disks : slot'[d] # Free => slot'[d].lba \in Lbas[d],
             drive' \in [Disks -> Drive],
             \A d \in Disks : drive'[d].st # "ready" => drive'[d].lba \in Lbas[d]
      PROVE  TInv'
  BY <1>a DEF TInv, TypeOK, Addresses, PerSector
<1>1. CASE AhciDevice /\ UNCHANGED ide
  <2>1. PICK d \in Disks : AhciDone(d) \/ AhciFailed(d)
    BY <1>1 DEF AhciDevice
  <2>2. slot[d] \in Command /\ slot[d].lba \in Lbas[d]
    BY <2>1 DEF AhciDone, AhciFailed, Owned, TInv, TypeOK, Addresses
  <2>3. View(d, slot[d].lba) \in Values /\ \A b \in Buffers : memory[b] \in Values
    BY <2>2, ViewType DEF TInv, TypeOK
  <2>4. /\ memory' \in [Buffers -> Values]
        /\ PerSector(medium, Values)' /\ PerSector(cache, Values \cup {NoBlock})'
    <3>1. CASE UNCHANGED <<device, memory>>
      BY <3>1 DEF device, TInv, TypeOK, PerSector
    <3>2. CASE AhciEffect(d)
      <4>1. CASE slot[d].cmd = "read"
        BY <2>3, <3>2, <4>1 DEF AhciEffect, device, TInv, TypeOK, PerSector
      <4>2. CASE slot[d].cmd = "write"
        <5>1. memory[Buffer(slot[d].lba)] \in Values
          BY <2>3 DEF Buffer, Buffers
        <5> QED
          BY <2>2, <3>2, <4>2, <5>1, CachedSector
             DEF AhciEffect, TInv, TypeOK, PerSector
      <4>3. CASE slot[d].cmd = "flush"
        BY <3>2, <4>3, FlushedSectors DEF AhciEffect, TInv, TypeOK
      <4> QED
        BY <2>2, <4>1, <4>2, <4>3 DEF Command
    <3> QED
      BY <2>1, <3>1, <3>2 DEF AhciDone, AhciFailed
  <2>5. /\ slot' \in [Disks -> Command \cup {Free}] /\ tfes' \in [Disks -> BOOLEAN]
        /\ \A e \in Disks : slot'[e] # Free => slot'[e].lba \in Lbas[e]
    BY <2>1 DEF AhciDone, AhciFailed, TInv, TypeOK, Addresses
  <2> QED
    BY <1>1, <1>a, <2>1, <2>4, <2>5 DEF AhciDone, AhciFailed, TInv, TypeOK, Addresses, ide
<1>2. CASE IdeDevice /\ UNCHANGED ahci
  <2>1. PICK d \in Disks : IdeRequest(d) \/ IdeProgram(d) \/ IdeEmpty(d)
    BY <1>2 DEF IdeDevice
  <2>2. drive[d] \in Drive /\ drive[d].lba \in Lbas[d]
    BY <2>1 DEF IdeRequest, IdeProgram, IdeEmpty, Working, TInv, TypeOK, Addresses
  <2>3. \A e \in BOOLEAN : [Ready EXCEPT !.err = e] \in Drive
                          /\ [Ready EXCEPT !.err = e].st = "ready"
    BY DEF Ready, Drive
  <2>4. /\ drive' \in [Disks -> Drive]
        /\ \A e \in Disks : drive'[e].st # "ready" => drive'[e].lba \in Lbas[e]
    <3>1. CASE Ends(d, TRUE) \/ Ends(d, FALSE)
      BY <2>3, <3>1 DEF Ends, TInv, TypeOK, Addresses
    <3>2. CASE drive' = [drive EXCEPT ![d].st = "drq"]
      BY <2>2, <3>2 DEF TInv, TypeOK, Addresses, Drive
    <3> QED
      BY <2>1, <3>1, <3>2 DEF IdeRequest, IdeProgram, IdeEmpty
  <2>5. PerSector(medium, Values)' /\ PerSector(cache, Values \cup {NoBlock})'
    <3>1. CASE UNCHANGED device
      BY <3>1 DEF device, TInv, TypeOK, PerSector
    <3>2. CASE IdeProgram(d) /\ cache' # cache
      <4>1. Cached(d, drive[d].lba, drive[d].data) /\ UNCHANGED medium
        BY <3>2 DEF IdeProgram
      <4>2. drive[d].data \in Values
        BY <2>2, <3>2 DEF IdeProgram, Drive
      <4> QED
        BY <2>2, <4>1, <4>2, CachedSector DEF TInv, TypeOK, PerSector
    <3>3. CASE Flushed(d)
      BY <3>3, FlushedSectors DEF TInv
    <3> QED
      BY <2>1, <3>1, <3>2, <3>3 DEF IdeRequest, IdeProgram, IdeEmpty, device
  <2>6. UNCHANGED <<kind, memory, call, ret, opened, passed, chosen, slot, tfes>>
    BY <1>2, <2>1 DEF IdeRequest, IdeProgram, IdeEmpty, Untouched, ahci
  <2> QED
    BY <1>a, <2>4, <2>5, <2>6 DEF TInv, TypeOK, Addresses
<1> QED
  BY <1>1, <1>2 DEF Device

LEMMA TypeNext == TInv /\ [Next]_vars => TInv'
<1>1. ASSUME TInv, UNCHANGED vars PROVE TInv'
  BY <1>1 DEF TInv, TypeOK, Addresses, PerSector, vars, shared, ahci, ide
<1> QED
  BY <1>1, CallerType, AhciDriverType, IdeDriverType, DeviceType DEF Next, Driver

(* Every quantity of the block layer keeps its type, whatever faults.      *)
THEOREM TypeCorrect == Spec => []TypeOK
<1>1. TInv => TypeOK
  BY DEF TInv
<1> QED
  BY <1>1, InitTInv, TypeNext, PTL DEF Spec
-----------------------------------------------------------------------------
(* A command the host adapter owns is left alone, whatever timed out.      *)
LEMMA SlotStep ==
    TInv /\ [Next]_vars => \A d \in Disks : slot[d] # Free => slot'[d] \in {slot[d], Free}
<1> SUFFICES ASSUME TInv, [Next]_vars, NEW d \in Disks, slot[d] # Free
             PROVE  slot'[d] \in {slot[d], Free}
  OBVIOUS
<1>1. slot \in [Disks -> Command \cup {Free}]
  BY DEF TInv, TypeOK
<1>2. CASE UNCHANGED slot
  BY <1>2
<1>3. ASSUME Mine, NEW c, NEW p, Submit(c, p) PROVE slot'[d] \in {slot[d], Free}
  BY <1>1, <1>3 DEF Submit, Issue, Refuse, ahci
<1>4. CASE AhciDriver
  BY <1>2, <1>3, <1>4 DEF AhciDriver, AhciStart, AhciTransferred, AhciFlush, AhciFlushed,
     AhciError, AhciGiveUp, Refuse, ahci
<1>5. CASE AhciDevice
  BY <1>1, <1>5 DEF AhciDevice, AhciDone, AhciFailed
<1> QED
  BY <1>2, <1>4, <1>5 DEF Next, Driver, Device, vars, ahci

(* ahci_submit never rewrites a command the device still owns, also after  *)
(* timeouts and errors.                                                    *)
THEOREM SlotsStayOwned == Spec => SlotOwned
<1>1. TInv /\ [Next]_vars
      => [\A d \in Disks : slot[d] # Free => slot'[d] \in {slot[d], Free}]_vars
  BY SlotStep
<1> QED
  BY <1>1, InitTInv, TypeNext, PTL DEF Spec, SlotOwned

-----------------------------------------------------------------------------
(* The contract, if no wait runs out.  First the callers.                  *)
LEMMA InitContract == Init => Contract
BY DEF Init, SectorsInit, AhciInit, IdeInit, Contract, Filled, AhciServes, IdeServes,
       AhciProgress, IdeProgress, Owned, Mine, Ours, Idle, Ready

(* Between calls the devices are at rest, and that is all there is to say. *)
AtRest ==
    /\ call.op = "idle"
    /\ \A d \in Disks : ~Owned(d) /\ drive[d].st = "ready"

LEMMA RestIsContract == AtRest' => Contract'
BY DEF AtRest, Contract, Filled, AhciServes, IdeServes, AhciProgress, IdeProgress,
       Mine, Ours

LEMMA IdleIsRest == ASSUME CInv, call.op = "idle" PROVE AtRest
BY DEF AtRest, CInv, Contract, AhciServes, IdeServes, Mine, Ours

LEMMA CallerContract ==
    ASSUME CInv, Caller, UNCHANGED <<ahci, ide>>
    PROVE  Contract'
<1>1. call = Idle /\ call.op = "idle"
  BY DEF Caller, BeginRead, BeginWrite, OutOfRange, Idle
<1>2. AtRest
  BY <1>1, IdleIsRest
<1>3. \A d \in Disks : ~Owned(d)' /\ drive'[d].st = "ready"
  BY <1>2 DEF AtRest, Owned, ahci, ide
<1>4. AhciServes' /\ IdeServes'
  BY <1>3 DEF AhciServes, IdeServes
<1>5. CASE call'.op = "idle"
  BY <1>3, <1>5, RestIsContract DEF AtRest
<1>6. CASE call'.pc = "start" /\ Filled'
  BY <1>4, <1>6 DEF Contract, AhciProgress, IdeProgress
<1>8. CASE \E d \in Disks : \E l \in Lbas[d] : BeginRead(d, l)
  BY <1>6, <1>8 DEF BeginRead, Filled
<1>9. CASE \E d \in Disks : \E l \in Lbas[d] : \E v \in Contents : BeginWrite(d, l, v)
  <2>1. memory \in [Buffers -> Values] /\ \A l : Buffer(l) \in Buffers
    BY DEF CInv, TInv, TypeOK, Buffer, Buffers
  <2> QED
    BY <1>6, <1>9, <2>1 DEF BeginWrite, Filled
<1>10. CASE \E d \in Disks, l \in AllLbas : OutOfRange(d, l)
  BY <1>1, <1>5, <1>10 DEF OutOfRange
<1> QED
  BY <1>8, <1>9, <1>10 DEF Caller
-----------------------------------------------------------------------------
(* The AHCI driver and its device.                                         *)
LEMMA AhciReturns ==
    ASSUME CInv, Mine, call' = Idle, UNCHANGED <<ahci, ide>>, ~Owned(call.disk)
    PROVE  Contract'
<1>1. \A d \in Disks : ~Owned(d) /\ drive[d].st = "ready"
  BY DEF CInv, Contract, AhciServes, IdeServes, Mine, Ours
<1>2. AtRest'
  BY <1>1 DEF AtRest, Owned, ahci, ide, Idle
<1> QED
  BY <1>2, RestIsContract

LEMMA IssueContract ==
    ASSUME CInv, Mine, NEW cmd, NEW p, Issue(cmd, p), ~Owned(call.disk), UNCHANGED ide,
           \/ p = "transfer" /\ cmd = call.op
           \/ p = "flushed" /\ cmd = "flush" /\ call.op = "write" /\ Stored
    PROVE  Contract'
<1>1. call.op # "idle" /\ call.disk \in Disks /\ call.op \in {"read", "write"}
  BY CallFields DEF CInv, TInv, Mine
<1>2. /\ call'.pc = p /\ call'.op = call.op /\ call'.disk = call.disk
      /\ call'.lba = call.lba /\ call'.value = call.value
  BY <1>1, GotoFields DEF CInv, TInv, Issue
<1>3. \A d \in Disks : ~Owned(d) /\ drive[d].st = "ready"
  BY DEF CInv, Contract, AhciServes, IdeServes, Mine, Ours
<1>4. /\ slot'[call.disk] = [cmd |-> cmd, lba |-> call.lba]
      /\ slot'[call.disk] # Free
      /\ \A d \in Disks : d # call.disk => slot'[d] = slot[d] /\ tfes'[d] = tfes[d]
  BY <1>1 DEF Issue, CInv, TInv, TypeOK, Free
<1>5. Mine' /\ ~Ours' /\ UNCHANGED <<medium, cache, memory>>
  BY <1>1, <1>2 DEF Mine, Ours, Issue, device
<1>6. AhciServes'
  BY <1>2, <1>3, <1>4, <1>5 DEF AhciServes, Owned
<1>7. IdeServes' /\ IdeProgress'
  BY <1>3, <1>5 DEF IdeServes, IdeProgress, ide
<1>8. Filled'
  BY <1>2, <1>5 DEF Filled, CInv, Contract
<1>9. Stored => Stored'
  BY <1>2, <1>5 DEF Stored, View
<1>10. AhciProgress'
  BY <1>2, <1>4, <1>9 DEF AhciProgress
<1> QED
  BY <1>6, <1>7, <1>8, <1>10 DEF Contract
LEMMA AhciDriverContract ==
    ASSUME CInv, AhciDriver, UNCHANGED ide, "timeout" \notin Faults
    PROVE  Contract'
<1>0. Mine
  BY DEF AhciDriver, AhciStart, AhciTransferred, AhciFlush, AhciFlushed, AhciError,
         AhciGiveUp, Polling
<1>1. call.op # "idle" /\ call.disk \in Disks /\ call.op \in {"read", "write"}
  BY <1>0, CallFields DEF CInv, TInv, Mine
<1>2. call.pc \in {"start", "flush"} => ~Owned(call.disk)
  BY <1>1 DEF CInv, Contract, AhciServes
<1>3. slot[call.disk] = Free \/ tfes[call.disk] => ~Owned(call.disk)
  BY DEF Owned
<1>4. ASSUME Refuse, ~Owned(call.disk) PROVE Contract'
  BY <1>0, <1>4, AhciReturns DEF Refuse, Fail
<1>5. CASE AhciStart
  <2>1. Issue(call.op, "transfer") => Contract'
    BY <1>0, <1>2, <1>5, IssueContract DEF AhciStart
  <2> QED
    BY <1>2, <1>4, <1>5, <2>1 DEF AhciStart, Submit
<1>6. CASE AhciTransferred
  <2>1. CASE call.op = "read"
    BY <1>0, <1>3, <1>6, <2>1, AhciReturns DEF AhciTransferred, Succeed, ahci
  <2>2. CASE call.op = "write"
    <3>1. Goto("flush") /\ UNCHANGED <<kind, medium, cache, memory, slot, tfes, chosen, drive>>
      BY <1>6, <2>2 DEF AhciTransferred, device, ahci, ide
    <3>2. /\ call'.pc = "flush" /\ call'.op = call.op /\ call'.disk = call.disk
          /\ call'.lba = call.lba /\ call'.value = call.value
      BY <1>1, <2>2, <3>1, GotoFields DEF CInv, TInv
    <3>3. \A d \in Disks : ~Owned(d) /\ drive[d].st = "ready"
      BY <1>0, <1>6 DEF CInv, Contract, AhciServes, IdeServes, Mine, Ours, AhciTransferred,
         Owned
    <3>4. AhciServes' /\ IdeServes'
      BY <3>1, <3>3 DEF AhciServes, IdeServes, Owned
    <3>5. Stored
      BY <1>0, <1>6, <2>2 DEF AhciTransferred, CInv, Contract, AhciProgress
    <3>6. Stored' /\ Filled'
      BY <3>1, <3>2, <3>5 DEF Stored, View, Filled, CInv, Contract
    <3>7. AhciProgress' /\ IdeProgress'
      BY <1>0, <3>1, <3>2, <3>6 DEF AhciProgress, IdeProgress, Mine, Ours
    <3> QED
      BY <3>4, <3>6, <3>7 DEF Contract
  <2> QED
    BY <1>1, <2>1, <2>2
<1>7. CASE AhciFlush
  <2>1. call.op = "write" /\ Stored
    BY <1>0, <1>7, CallFields
       DEF AhciFlush, CInv, TInv, Contract, AhciProgress, ReadCall, Mine
  <2>2. Issue("flush", "flushed") => Contract'
    BY <1>0, <1>2, <1>7, <2>1, IssueContract DEF AhciFlush
  <2> QED
    BY <1>2, <1>4, <1>7, <2>2 DEF AhciFlush, Submit
<1>8. CASE AhciFlushed
  BY <1>0, <1>3, <1>8, AhciReturns DEF AhciFlushed, Succeed
<1>9. CASE AhciError
  BY <1>3, <1>4, <1>9 DEF AhciError
<1>10. CASE AhciGiveUp
  BY <1>10 DEF AhciGiveUp, GiveUp
<1> QED
  BY <1>5, <1>6, <1>7, <1>8, <1>9, <1>10 DEF AhciDriver

(* What an effect of the device does to the sectors and the buffers.       *)
LEMMA AhciEffectContract ==
    ASSUME CInv, NEW d \in Disks, Owned(d), AhciEffect(d), UNCHANGED call
    PROVE  /\ \A e \in Disks : \A l \in Lbas[e] :
                 View(e, l)' # View(e, l) =>
                    /\ call.op = "write" /\ call.disk = e /\ call.lba = l
                    /\ View(e, l)' = call.value
           /\ call.op = "write" => UNCHANGED memory
           /\ call.op = "read" =>
                 memory'[Buffer(call.lba)] = View(call.disk, call.lba)
           /\ call.op = "write" /\ call.pc = "transfer"
                 => View(call.disk, call.lba)' = call.value
           /\ call.pc = "flushed" =>
                 medium'[call.disk][call.lba] = View(call.disk, call.lba)
<1>1. /\ Mine /\ call.disk = d /\ slot[d].lba = call.lba /\ d \in Disks
      /\ call.lba \in Lbas[d] /\ call.op \in {"read", "write"}
      /\ \/ call.pc = "transfer" /\ slot[d].cmd = call.op
         \/ call.pc = "flushed" /\ slot[d].cmd = "flush"
  BY CallFields DEF CInv, Contract, AhciServes, TInv, Addresses, Mine
<1>2. Buffer(call.lba) \in Buffers /\ memory \in [Buffers -> Values]
  BY DEF Buffer, Buffers, CInv, TInv, TypeOK
<1>3. call.op = "write" => memory[Buffer(call.lba)] = call.value /\ call.value \in Values
  BY <1>2 DEF CInv, Contract, Filled
<1>4. CASE slot[d].cmd = "read"
  BY <1>1, <1>2, <1>4 DEF AhciEffect, device, View
<1>5. CASE slot[d].cmd = "write"
  <2>1. call.op = "write" /\ call.pc = "transfer"
    BY <1>1, <1>5
  <2>2. Cached(d, call.lba, call.value) /\ UNCHANGED <<medium, memory>>
    BY <1>1, <1>3, <1>5, <2>1 DEF AhciEffect
  <2>3. PICK l \in Lbas[d], v \in Values : l = call.lba /\ v = call.value
    BY <1>1, <1>3, <2>1, Words
  <2>4. /\ View(d, l)' = v
        /\ \A e \in Disks : \A m \in Lbas[e] :
              e # d \/ m # l => View(e, m)' = View(e, m)
    BY <2>2, <2>3, CachedSector DEF CInv, TInv
  <2>5. View(call.disk, call.lba)' = call.value
    BY <1>1, <2>3, <2>4 DEF View
  <2> QED
    BY <1>1, <2>1, <2>2, <2>3, <2>4, <2>5
<1>6. CASE slot[d].cmd = "flush"
  <2>1. call.op = "write"
    BY <1>1, <1>6, CallFields DEF CInv, TInv, ReadCall
  <2> QED
    BY <1>1, <1>6, <2>1, FlushedSectors DEF AhciEffect, CInv, TInv
<1> QED
  BY <1>1, <1>4, <1>5, <1>6
LEMMA AhciDeviceContract ==
    ASSUME CInv, AhciDevice, UNCHANGED ide
    PROVE  Contract'
<1>1. PICK d \in Disks : AhciDone(d) \/ AhciFailed(d)
  BY DEF AhciDevice
<1>2. /\ Owned(d) /\ Mine /\ call.disk = d /\ call.lba \in Lbas[d]
      /\ call.op \in {"read", "write"}
      /\ \A e \in Disks : e # d => ~Owned(e)
      /\ \A e \in Disks : drive[e].st = "ready"
  BY <1>1, CallFields DEF AhciDone, AhciFailed, CInv, TInv, Contract, AhciServes,
     IdeServes, Addresses, Mine, Ours
<1>3. UNCHANGED <<kind, call, drive>> /\ Mine' /\ ~Ours'
  BY <1>1, <1>2 DEF AhciDone, AhciFailed, ide, Mine, Ours
<1>4. /\ call.op = "write" => UNCHANGED memory
      /\ Stored => Stored'
  <2>1. CASE AhciEffect(d)
    BY <1>2, <1>3, <2>1, AhciEffectContract DEF Stored, View
  <2>2. CASE UNCHANGED <<device, memory>>
    BY <1>3, <2>2 DEF Stored, View, device
  <2> QED
    BY <1>1, <2>1, <2>2 DEF AhciDone, AhciFailed
<1>5. \A e \in Disks : ~Owned(e)'
  BY <1>1, <1>2 DEF AhciDone, AhciFailed, Owned, CInv, TInv, TypeOK
<1>6. Filled' /\ AhciServes' /\ IdeServes' /\ IdeProgress'
  BY <1>2, <1>3, <1>4, <1>5
     DEF Filled, AhciServes, IdeServes, IdeProgress, CInv, Contract
<1>7. call.pc \in {"flush", "flushed"} => Stored'
  BY <1>2, <1>4 DEF CInv, Contract, AhciProgress
<1>8. CASE AhciFailed(d)
  <2>1. slot'[call.disk] # Free
    BY <1>2, <1>8 DEF AhciFailed, Owned
  <2> QED
    BY <1>3, <1>6, <1>7, <2>1 DEF AhciProgress, Contract
<1>9. CASE AhciDone(d)
  <2>1. AhciEffect(d)
    BY <1>9 DEF AhciDone
  <2>2. CASE call.op = "read" /\ call.pc = "transfer"
    <3>1. memory'[Buffer(call.lba)] = View(call.disk, call.lba)
      BY <1>2, <1>3, <2>1, <2>2, AhciEffectContract
    <3>2. View(call.disk, call.lba)' = View(call.disk, call.lba)
      <4>1. \A l \in Lbas[d] : View(d, l)' = View(d, l)
        BY <1>2, <1>3, <2>1, <2>2, AhciEffectContract
      <4> QED
        BY <1>2, <1>3, <4>1 DEF View
    <3> QED
      BY <1>3, <1>6, <2>2, <3>1, <3>2 DEF AhciProgress, Contract
  <2>3. CASE call.op = "write" /\ call.pc = "transfer"
    <3>1. Stored'
      BY <1>2, <1>3, <2>1, <2>3, AhciEffectContract DEF Stored, View
    <3> QED
      BY <1>3, <1>6, <2>3, <3>1 DEF AhciProgress, Contract
  <2>4. CASE call.pc = "flushed"
    <3>1. Stored
      BY <1>2, <2>4 DEF CInv, Contract, AhciProgress
    <3>2. OnMedium'
      BY <1>2, <1>3, <2>1, <2>4, <3>1, AhciEffectContract DEF OnMedium, Stored
    <3> QED
      BY <1>3, <1>6, <1>7, <2>4, <3>2 DEF AhciProgress, Contract
  <2> QED
    BY <1>2, <2>2, <2>3, <2>4 DEF CInv, Contract, AhciServes
<1> QED
  BY <1>1, <1>8, <1>9

-----------------------------------------------------------------------------
(* The IDE driver and its drives.                                          *)
LEMMA IdeReturns ==
    ASSUME CInv, Ours, call' = Idle, UNCHANGED ahci,
           \A d \in Disks : drive'[d].st = "ready"
    PROVE  Contract'
<1>1. \A d \in Disks : ~Owned(d)
  BY DEF CInv, Contract, AhciServes, Mine, Ours
<1>2. AtRest'
  BY <1>1 DEF AtRest, Owned, ahci, Idle
<1> QED
  BY <1>2, RestIsContract

(* A command sent to a drive that is ready, from a place in the call.      *)
LEMMA IdeSent ==
    ASSUME CInv, Ours, NEW cmd, NEW p, Send(call.disk, cmd, call.lba), Goto(p),
           UNCHANGED <<kind, device, memory>>, UNCHANGED ahci,
           drive[call.disk].st = "ready", call.pc \in {"start", "program"},
           p = "transfer" => cmd = call.op,
           p # "transfer" => p = "flushed" /\ cmd = "flush" /\ call.op = "write" /\ Stored
    PROVE  Contract'
<1>1. call.op # "idle" /\ call.disk \in Disks /\ call.op \in {"read", "write"}
  BY CallFields DEF CInv, TInv, Ours
<1>2. /\ call'.pc = p /\ call'.op = call.op /\ call'.disk = call.disk
      /\ call'.lba = call.lba /\ call'.value = call.value
  BY <1>1, GotoFields DEF CInv, TInv
<1>3. UNCHANGED <<kind, medium, cache, memory, slot, tfes>> /\ Ours' /\ ~Mine'
  BY <1>1, <1>2 DEF device, ahci, Ours, Mine
<1>4. \A d \in Disks : ~Owned(d) /\ (d # call.disk => drive[d].st = "ready")
  BY DEF CInv, Contract, AhciServes, IdeServes, Mine, Ours
<1>5. drive' = [drive EXCEPT ![call.disk] =
                  [st |-> "busy", err |-> FALSE, cmd |-> cmd, lba |-> call.lba,
                   data |-> NoBlock]]
  BY DEF Send
<1>6. IdeServes'
  BY <1>1, <1>2, <1>3, <1>4, <1>5 DEF IdeServes, CInv, TInv, TypeOK
<1>7. AhciServes' /\ AhciProgress' /\ Filled'
  BY <1>2, <1>3, <1>4 DEF AhciServes, AhciProgress, Owned, Filled, CInv, Contract
<1>8. drive'[call.disk].st = "busy"
  BY <1>1, <1>5 DEF CInv, TInv, TypeOK
<1>9. Stored => Stored'
  BY <1>2, <1>3 DEF Stored, View
<1>10. IdeProgress'
  BY <1>2, <1>8, <1>9 DEF IdeProgress
<1> QED
  BY <1>6, <1>7, <1>10 DEF Contract
LEMMA IdeDriverContract ==
    ASSUME CInv, IdeDriver, UNCHANGED ahci, "timeout" \notin Faults
    PROVE  Contract'
<1>0. Ours
  BY DEF IdeDriver, IdeStart, IdeReadData, IdeWriteData, IdeFlush, IdeFlushed, IdeError,
         IdeGiveUp
<1>1. call.op # "idle" /\ call.disk \in Disks /\ call.op \in {"read", "write"}
  BY <1>0, CallFields DEF CInv, TInv, Ours
<1>2. /\ \A d \in Disks : ~Owned(d) /\ (d # call.disk => drive[d].st = "ready")
      /\ drive \in [Disks -> Drive]
  BY <1>0 DEF CInv, TInv, TypeOK, Contract, AhciServes, IdeServes, Mine, Ours
<1>3. ASSUME call' = Idle, drive[call.disk].st = "ready", UNCHANGED ide PROVE Contract'
  BY <1>0, <1>2, <1>3, IdeReturns DEF ide
<1>4. CASE IdeStart
  <2>1. drive[call.disk].st = "ready"
    BY <1>1, <1>4 DEF IdeStart, CInv, Contract, IdeServes
  <2> QED
    BY <1>0, <1>4, <2>1, IdeSent DEF IdeStart
<1>5. CASE IdeReadData
  <2>1. drive[call.disk].st = "drq" /\ drive[call.disk].cmd = "read"
    BY <1>1, <1>5 DEF IdeReadData, CInv, Contract, IdeServes
  <2>2. \A d \in Disks : drive'[d].st = "ready"
    BY <1>1, <1>2, <1>5, <2>1 DEF IdeReadData, Ready
  <2> QED
    BY <1>0, <1>5, <2>2, IdeReturns DEF IdeReadData, Succeed
<1>6. CASE IdeWriteData
  <2>1. /\ drive[call.disk].cmd = "write" /\ drive[call.disk].lba = call.lba
        /\ ~drive[call.disk].err /\ call.op = "write"
        /\ memory[Buffer(call.lba)] = call.value
    BY <1>1, <1>6 DEF IdeWriteData, CInv, Contract, IdeServes, Filled
  <2>2. drive' = [drive EXCEPT ![call.disk].st = "busy", ![call.disk].data = call.value]
    BY <1>6, <2>1 DEF IdeWriteData
  <2>3. /\ call'.pc = "program" /\ call'.op = call.op /\ call'.disk = call.disk
        /\ call'.lba = call.lba /\ call'.value = call.value
    BY <1>1, <1>6, <2>1, GotoFields DEF IdeWriteData, CInv, TInv
  <2>4. UNCHANGED <<kind, medium, cache, memory, slot, tfes>> /\ Ours' /\ ~Mine'
    BY <1>0, <1>1, <1>6, <2>3 DEF IdeWriteData, device, ahci, Ours, Mine
  <2>5. drive'[call.disk].st = "busy" /\ IdeServes'
    BY <1>1, <1>2, <2>1, <2>2, <2>3, <2>4 DEF IdeServes, Drive
  <2>6. AhciServes' /\ AhciProgress' /\ Filled'
    BY <1>2, <2>3, <2>4 DEF AhciServes, AhciProgress, Owned, Filled, CInv, Contract
  <2>7. IdeProgress'
    BY <2>3, <2>5 DEF IdeProgress
  <2> QED
    BY <2>5, <2>6, <2>7 DEF Contract
<1>7. CASE IdeFlush
  <2>1. drive[call.disk].st = "ready" /\ call.op = "write"
    BY <1>1, <1>2, <1>7, CallFields
       DEF IdeFlush, CInv, TInv, Contract, IdeServes, ReadCall, Drive
  <2>2. Stored
    BY <1>0, <1>7, <2>1 DEF IdeFlush, CInv, Contract, IdeProgress
  <2> QED
    BY <1>0, <1>7, <2>1, <2>2, IdeSent DEF IdeFlush
<1>8. CASE IdeFlushed
  <2>1. drive[call.disk].st = "ready"
    BY <1>1, <1>2, <1>8 DEF IdeFlushed, CInv, Contract, IdeServes, Drive
  <2> QED
    BY <1>3, <1>8, <2>1 DEF IdeFlushed, Fail, Succeed
<1>9. CASE IdeError
  <2>1. drive[call.disk].st = "ready"
    BY <1>1, <1>9 DEF IdeError, CInv, Contract, IdeServes
  <2> QED
    BY <1>3, <1>9, <2>1 DEF IdeError, Fail
<1>10. CASE IdeGiveUp
  BY <1>10 DEF IdeGiveUp, GiveUp
<1> QED
  BY <1>4, <1>5, <1>6, <1>7, <1>8, <1>9, <1>10 DEF IdeDriver

(* A drive that ends a command is the drive of the call.                   *)
LEMMA IdeEnds ==
    ASSUME CInv, NEW d \in Disks, NEW e \in BOOLEAN, drive[d].st = "busy", Ends(d, e),
           UNCHANGED <<kind, memory, call>>, UNCHANGED ahci
    PROVE  /\ Filled' /\ AhciServes' /\ IdeServes' /\ AhciProgress'
           /\ drive'[d].st = "ready" /\ drive'[d].err = e
           /\ Ours /\ call.disk = d /\ UNCHANGED call
<1>1. /\ Ours /\ call.disk = d
      /\ \A b \in Disks : ~Owned(b) /\ (b # d => drive[b].st = "ready")
      /\ drive \in [Disks -> Drive]
  BY DEF CInv, TInv, TypeOK, Contract, AhciServes, IdeServes, Mine, Ours
<1>2. drive'[d].st = "ready" /\ drive'[d].err = e /\ \A b \in Disks : drive'[b].st = "ready"
  BY <1>1 DEF Ends, Ready
<1>3. AhciServes' /\ IdeServes'
  BY <1>1, <1>2 DEF AhciServes, IdeServes, Owned, ahci
<1>4. Filled' /\ AhciProgress'
  BY <1>1 DEF Filled, AhciProgress, Mine, Ours, CInv, Contract
<1> QED
  BY <1>1, <1>2, <1>3, <1>4

LEMMA IdeDeviceContract ==
    ASSUME CInv, IdeDevice, UNCHANGED ahci, "program" \notin Faults
    PROVE  Contract'
<1>1. PICK d \in Disks : IdeRequest(d) \/ IdeProgram(d) \/ IdeEmpty(d)
  BY DEF IdeDevice
<1>2. UNCHANGED <<kind, memory, call>> /\ drive[d].st = "busy" /\ drive[d] \in Drive
  BY <1>1 DEF IdeRequest, IdeProgram, IdeEmpty, Untouched, Working, CInv, TInv, TypeOK
<1>3. /\ Ours /\ call.disk = d /\ call.lba \in Lbas[d] /\ drive[d].lba = call.lba
      /\ \A b \in Disks : b # d => drive[b].st = "ready"
      /\ \A b \in Disks : ~Owned(b)
  BY <1>2 DEF CInv, TInv, Addresses, Contract, IdeServes, AhciServes, Ours, Mine
<1>c. /\ call.op \in {"read", "write"}
      /\ call.pc = "program" => call.value \in Contents
  BY <1>3, CallFields DEF Ours, CInv, TInv, ReadCall
<1>4. CASE IdeRequest(d)
  <2>1. call.pc = "transfer" /\ drive[d].cmd = call.op /\ drive[d].data = NoBlock
    BY <1>2, <1>4, <1>c, Words DEF IdeRequest, CInv, Contract, IdeServes
  <2>2. CASE drive' = [drive EXCEPT ![d].st = "drq"]
    <3>1. IdeServes'
      BY <1>2, <1>3, <2>1, <2>2 DEF IdeServes, Ours, CInv, TInv, TypeOK, Drive, Contract
    <3>2. AhciServes' /\ AhciProgress' /\ Filled' /\ IdeProgress'
      BY <1>2, <1>3, <2>1
         DEF AhciServes, AhciProgress, IdeProgress, Owned, Filled, Mine, Ours, CInv,
             Contract, ahci
    <3> QED
      BY <3>1, <3>2 DEF Contract
  <2>3. CASE Ends(d, TRUE)
    BY <1>2, <2>1, <2>3, IdeEnds DEF IdeProgress, Contract
  <2> QED
    BY <1>4, <2>2, <2>3 DEF IdeRequest
<1>5. CASE IdeProgram(d)
  <2>1. call.pc = "program" /\ drive[d].data = call.value /\ call.value \in Values
    BY <1>2, <1>3, <1>5 DEF IdeProgram, CInv, Contract, IdeServes, Drive
  <2>2. Ends(d, FALSE) /\ Cached(d, call.lba, call.value) /\ UNCHANGED medium
    BY <1>3, <1>5, <2>1 DEF IdeProgram
  <2>3. PICK l \in Lbas[d], v \in Values : l = call.lba /\ v = call.value
    BY <1>3, <2>1
  <2>4. View(d, l)' = v
    BY <2>2, <2>3, CachedSector DEF CInv, TInv
  <2>5. Stored'
    BY <1>2, <1>3, <2>3, <2>4 DEF Stored, View
  <2> QED
    BY <1>2, <2>1, <2>2, <2>5, IdeEnds DEF IdeProgress, Contract
<1>6. CASE IdeEmpty(d)
  <2>1. call.pc = "flushed" /\ Stored
    BY <1>2, <1>3, <1>6, <1>c DEF IdeEmpty, CInv, Contract, IdeServes, IdeProgress
  <2>2. CASE Ends(d, FALSE) /\ Flushed(d)
    <3>1. medium'[d][call.lba] = View(d, call.lba) /\ Stored'
      <4>1. PICK l \in Lbas[d] : l = call.lba
        BY <1>3
      <4>2. medium'[d][l] = View(d, l) /\ View(d, l)' = View(d, l)
        BY <2>2, <4>1, FlushedSectors DEF CInv, TInv
      <4> QED
        BY <1>2, <1>3, <2>1, <4>1, <4>2 DEF Stored, View
    <3>2. OnMedium'
      BY <1>2, <1>3, <2>1, <3>1 DEF OnMedium, Stored
    <3> QED
      BY <1>2, <2>1, <2>2, <3>1, <3>2, IdeEnds DEF IdeProgress, Contract
  <2>3. CASE Ends(d, TRUE) /\ UNCHANGED device
    <3>1. Stored'
      BY <1>2, <2>1, <2>3 DEF Stored, View, device
    <3> QED
      BY <1>2, <2>1, <2>3, <3>1, IdeEnds DEF IdeProgress, Contract
  <2> QED
    BY <1>6, <2>2, <2>3 DEF IdeEmpty
<1> QED
  BY <1>1, <1>4, <1>5, <1>6
-----------------------------------------------------------------------------
(* If no wait runs out and no drive reports an error after it took the     *)
(* data, the contract is an invariant.                                     *)
LEMMA ContractNext ==
    ASSUME "timeout" \notin Faults, "program" \notin Faults
    PROVE  CInv /\ [Next]_vars => CInv'
<1> SUFFICES ASSUME CInv, [Next]_vars PROVE CInv'
  OBVIOUS
<1>1. TInv'
  BY TypeNext DEF CInv
<1>2. CASE UNCHANGED vars
  BY <1>1, <1>2 DEF vars, shared, ahci, ide, CInv, Contract, Filled, AhciServes, IdeServes,
     AhciProgress, IdeProgress, Owned, Mine, Ours, Stored, OnMedium, View
<1>3. CASE Caller /\ UNCHANGED <<ahci, ide>>
  BY <1>1, <1>3, CallerContract DEF CInv
<1>4. CASE Driver
  BY <1>1, <1>4, AhciDriverContract, IdeDriverContract DEF Driver, CInv
<1>5. CASE Device
  BY <1>1, <1>5, AhciDeviceContract, IdeDeviceContract DEF Device, CInv
<1> QED
  BY <1>2, <1>3, <1>4, <1>5 DEF Next

(* Only the devices change what a sector reads as.                         *)
LEMMA SectorStep ==
    ASSUME CInv, [Next]_vars, NEW d \in Disks, NEW l \in Lbas[d], View(d, l)' # View(d, l)
    PROVE  /\ call.op = "write" /\ call.disk = d /\ call.lba = l
           /\ View(d, l)' = call.value
<1>1. ~UNCHANGED device
  BY DEF View, device
<1>2. Device
  BY <1>1 DEF Next, vars, shared, device, Caller, BeginRead, BeginWrite, OutOfRange, Driver,
     AhciDriver, AhciStart, AhciTransferred, AhciFlush, AhciFlushed, AhciError, AhciGiveUp,
     Submit, Issue, Refuse, IdeDriver, IdeStart, IdeReadData, IdeWriteData, IdeFlush,
     IdeFlushed, IdeError, IdeGiveUp
<1>3. CASE AhciDevice
  <2>1. PICK e \in Disks : Owned(e) /\ AhciEffect(e) /\ UNCHANGED call
    BY <1>1, <1>3 DEF AhciDevice, AhciDone, AhciFailed, device
  <2> QED
    BY <2>1, AhciEffectContract
<1>4. CASE IdeDevice
  <2>1. PICK e \in Disks : IdeRequest(e) \/ IdeProgram(e) \/ IdeEmpty(e)
    BY <1>4 DEF IdeDevice
  <2>2. CASE IdeEmpty(e) /\ Flushed(e)
    BY <2>2, FlushedSectors DEF CInv, TInv
  <2>3. CASE IdeProgram(e) /\ Cached(e, drive[e].lba, drive[e].data)
    <3>1. /\ drive[e].st = "busy" /\ drive[e].cmd = "write" /\ drive[e].data # NoBlock
          /\ drive[e] \in Drive /\ UNCHANGED medium /\ drive[e].lba \in Lbas[e]
      BY <2>3 DEF IdeProgram, Working, CInv, TInv, TypeOK, Addresses
    <3>2. /\ call.disk = e /\ call.lba = drive[e].lba /\ call.op = "write"
          /\ drive[e].data = call.value
      BY <3>1, CallFields
         DEF CInv, TInv, Contract, IdeServes, Ours, ReadCall
    <3>3. drive[e].data \in Values
      BY <3>1 DEF Drive
    <3> QED
      BY <2>3, <3>1, <3>2, <3>3, CachedSector DEF CInv, TInv
  <2> QED
    BY <1>1, <2>1, <2>2, <2>3 DEF IdeRequest, IdeProgram, IdeEmpty, device
<1> QED
  BY <1>2, <1>3, <1>4 DEF Device
(* A call that reports success ends in one of three places.                *)
LEMMA AnsweredStep ==
    ASSUME CInv, [Next]_vars, call.op # "idle", call' = Idle, ret' = "ok"
    PROVE  /\ call.op = "write" => OnMedium /\ UNCHANGED medium
           /\ call.op = "read" =>
                 memory'[Buffer(call.lba)] = View(call.disk, call.lba)
<1>0. /\ call # Idle /\ call.op \in {"read", "write"} /\ call.disk \in Disks
      /\ call.lba \in Lbas[call.disk]
      /\ call.op = "read" => call.pc \in {"start", "transfer"}
  BY CallFields DEF Idle, CInv, TInv, Addresses, ReadCall
<1>1. Driver
  BY <1>0 DEF Next, vars, shared, Caller, BeginRead, BeginWrite, OutOfRange, Device,
     AhciDevice, AhciDone, AhciFailed, IdeDevice, IdeRequest, IdeProgram, IdeEmpty, Untouched
<1>2. ~Fail
  BY DEF Fail
<1>3. \A p : ~Goto(p)
  BY <1>0 DEF Goto, Idle, CInv, TInv, TypeOK, ReadCall, WriteCall
<1>4. AhciTransferred \/ AhciFlushed \/ IdeReadData \/ IdeFlushed
  BY <1>1, <1>2, <1>3
     DEF Driver, AhciDriver, AhciStart, AhciFlush, AhciError, AhciGiveUp, Submit, Issue,
         Refuse, IdeDriver, IdeStart, IdeWriteData, IdeFlush, IdeError, IdeGiveUp, GiveUp
<1>5. CASE AhciTransferred
  <2>1. call.op = "read" /\ UNCHANGED memory
    BY <1>3, <1>5 DEF AhciTransferred
  <2> QED
    BY <1>5, <2>1 DEF AhciTransferred, CInv, Contract, AhciProgress
<1>6. CASE AhciFlushed
  BY <1>0, <1>6 DEF AhciFlushed, CInv, Contract, AhciProgress, device
<1>7. CASE IdeReadData
  <2>1. call.op = "read" /\ drive[call.disk].st = "drq"
    BY <1>7 DEF IdeReadData
  <2>2. drive[call.disk].cmd = "read" /\ drive[call.disk].lba = call.lba
    BY <1>0, <1>7, <2>1 DEF IdeReadData, CInv, Contract, IdeServes
  <2>3. Buffer(call.lba) \in Buffers /\ memory \in [Buffers -> Values]
    BY DEF Buffer, Buffers, CInv, TInv, TypeOK
  <2> QED
    BY <1>7, <2>1, <2>2, <2>3 DEF IdeReadData
<1>8. CASE IdeFlushed
  <2>1. drive[call.disk].st = "ready" /\ ~drive[call.disk].err
    BY <1>0, <1>2, <1>8 DEF IdeFlushed, CInv, TInv, TypeOK, Contract, IdeServes, Drive
  <2> QED
    BY <1>0, <1>8, <2>1 DEF IdeFlushed, CInv, Contract, IdeProgress, device
<1> QED
  BY <1>4, <1>5, <1>6, <1>7, <1>8
-----------------------------------------------------------------------------
(* A sector changes only while a write call to it runs and to what the     *)
(* caller passed, for any disks, if no polling loop runs out and no IDE    *)
(* drive reports an error after the data.                                  *)
THEOREM SectorsAreIsolated ==
    ASSUME "timeout" \notin Faults, "program" \notin Faults PROVE Spec => SectorApi
<1>1. CInv /\ [Next]_vars
      => [\A d \in Disks : \A l \in Lbas[d] :
            View(d, l)' # View(d, l) =>
               /\ call.op = "write" /\ call.disk = d /\ call.lba = l
               /\ View(d, l)' = call.value]_vars
  BY SectorStep
<1>2. Init => CInv
  BY InitTInv, InitContract DEF CInv
<1> QED
  BY <1>1, <1>2, ContractNext, PTL DEF Spec, SectorApi

(* A write that reports success is on the medium, under the same           *)
(* assumptions: whatever commands and flushes fail in between.             *)
THEOREM WritesStayDurable ==
    ASSUME "timeout" \notin Faults, "program" \notin Faults PROVE Spec => WritesDurable
<1>1. CInv /\ [Next]_vars
      => [Answered("write") => medium'[call.disk][call.lba] = call.value]_vars
  BY AnsweredStep DEF Answered, OnMedium
<1>2. Init => CInv
  BY InitTInv, InitContract DEF CInv
<1> QED
  BY <1>1, <1>2, ContractNext, PTL DEF Spec, WritesDurable

(* A read that reports success returns the sector, under the same          *)
(* assumptions.                                                            *)
THEOREM ReadsStayCurrent ==
    ASSUME "timeout" \notin Faults, "program" \notin Faults PROVE Spec => ReadsCurrent
<1>1. CInv /\ [Next]_vars
      => [Answered("read")
            => memory'[Buffer(call.lba)] = View(call.disk, call.lba)]_vars
  BY AnsweredStep DEF Answered
<1>2. Init => CInv
  BY InitTInv, InitContract DEF CInv
<1> QED
  BY <1>1, <1>2, ContractNext, PTL DEF Spec, ReadsCurrent
=============================================================================
