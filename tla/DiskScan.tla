------------------------------ MODULE DiskScan ------------------------------
(***************************************************************************)
(* The search for disks, runtime/i386-disk.c: the PCI slots and functions  *)
(* in order, the drives of the first IDE controller, the ports of every    *)
(* AHCI controller, one probe at a time, and the table disks[] they fill.  *)
(*                                                                         *)
(* A computer is what the probes find: PCI slots and the IDE drives behind *)
(* each pair of I/O ports.  A function is absent, of no interest, an IDE   *)
(* controller with the I/O ports of its two channels, or an AHCI           *)
(* controller with its register base and its ports.                        *)
(***************************************************************************)
EXTENDS Integers, Sequences, FiniteSetsExt

CONSTANTS
    Computers,      \* the computers to start on
    Channels,       \* I/O port bases; two of them are the legacy ones
    Primary, Secondary,
    NumFunctions,   \* functions of a multifunction device, 8
    MaxDisks,       \* BAF_MAX_DISKS
    MaxContexts,    \* BAF_MAX_AHCI_PORTS
    Word,           \* what a uint32_t can hold, 2^32
    Lba28Max        \* the most sectors words 60 and 61 report

ASSUME DiskScanAssumption ==
    /\ {Primary, Secondary} \subseteq Channels /\ Primary # Secondary
    /\ NumFunctions \in Nat \ {0} /\ MaxDisks \in Nat \ {0}
    /\ MaxContexts \in Nat \ {0}
    /\ Lba28Max \in Nat \ {0} /\ Word \in Nat /\ Lba28Max < Word

Absent == [is |-> "absent"]
Other == [is |-> "other"]
Ide(io) == [is |-> "ide", io |-> io]            \* io[1], io[2]: see Channel
Ahci(base, ports) == [is |-> "ahci", base |-> base, ports |-> ports]
NoChannel == "none"     \* compatibility mode, or a BAR that is no I/O port
Unusable == "unusable"  \* a BAR that is 0, an I/O port or beyond 4 GiB

(* What an IDE drive or an AHCI port answers: nothing of use, or the size  *)
(* of an ATA drive.  A port may be missing or without a drive, refuse to   *)
(* stop, or leave IDENTIFY unanswered.                                     *)
Drive(sectors, ext) == [is |-> "disk", sectors |-> sectors, ext |-> ext]
Nobody == [is |-> "nobody"]     \* status 0 or 0xFF, ATAPI, an error, no answer
PortEmpty == [is |-> "empty"]   \* not implemented, no link, no ATA drive
PortStuck == [is |-> "stuck"]
PortMute == [is |-> "mute"]

Channel(ide, i) ==          \* ide_probe_pci_controller
    IF ide.io[i] # NoChannel THEN ide.io[i] ELSE <<Primary, Secondary>>[i]
Reachable(fun) == fun.is = "ahci" /\ fun.base # Unusable

IsAnswer(answer) ==
    answer.is = "disk" =>
        /\ answer.sectors \in Nat /\ answer.ext \in BOOLEAN
        /\ ~answer.ext => answer.sectors <= Lba28Max
IsFunction(fun) ==
    /\ fun.is = "ide" /\ Channel(fun, 1) \in Channels => Channel(fun, 1) # Channel(fun, 2)
    /\ fun.is = "ahci" =>
           /\ Len(fun.ports) \in Nat \ {0}
           /\ \A n \in 1 .. Len(fun.ports) : IsAnswer(fun.ports[n])

(* A drive has a number of sectors, no more than 28 bits address if it has *)
(* no 48-bit addresses; a controller has ports; and the addresses that PCI *)
(* functions decode are apart: the two channels of an IDE controller, the  *)
(* registers of two AHCI controllers.                                      *)
ASSUME ComputerAssumption ==
    \A c \in Computers :
        /\ Len(c.slots) \in Nat
        /\ \A place \in Channels \X {0, 1} : IsAnswer(c.drives[place])
        /\ \A s \in 1 .. Len(c.slots) :
              /\ Len(c.slots[s].functions) \in Nat \ {0}
              /\ \A f \in 1 .. Len(c.slots[s].functions) : IsFunction(c.slots[s].functions[f])
        /\ \A s, t \in 1 .. Len(c.slots) :
              \A f \in 1 .. Len(c.slots[s].functions), g \in 1 .. Len(c.slots[t].functions) :
                 LET fun == c.slots[s].functions[f]
                     other == c.slots[t].functions[g]
                 IN  Reachable(fun) /\ Reachable(other) /\ fun.base = other.base
                         => s = t /\ f = g

VARIABLES
    computer,       \* the hardware, fixed
    scan,           \* "none", "running" or "done"; disk_scanned is scan # "none"
    slot, function, \* the loops' positions: the function to look at next,
    port,           \* the next port of the AHCI controller in hand, or 0,
    drives,         \* and the drives of the IDE controller in hand
    found_ide,
    disks,          \* disks[0 .. disk_count - 1]
    contexts,       \* ahci_context_count
    programmed,     \* the memory each AHCI port was given: <<port, context>>
    selected        \* selected_disk: an index into disks, or 0

position == <<slot, function, port, drives>>
scanVars == <<computer, scan, position, found_ide, disks, contexts, programmed, selected>>

-----------------------------------------------------------------------------
(* Words 60, 61, 83 and 100 to 103 of an identity, and ata_sector_count.   *)
(* Faulty: the upper half of the 48-bit count is ignored.                  *)
Lba28(drive) == Min({drive.sectors, Lba28Max})
TruncatedCount(drive) ==
    IF drive.ext /\ drive.sectors % Word # 0 THEN drive.sectors % Word ELSE Lba28(drive)
SectorCount(drive) ==
    IF drive.ext /\ drive.sectors \div Word # 0 THEN Word - 1
    ELSE IF drive.ext /\ drive.sectors % Word # 0 THEN drive.sectors % Word
    ELSE Lba28(drive)

(* register_ide_disk and register_ahci_disk: a disk too many is dropped.   *)
Register(kind, where, context, drive) ==
    disks' = IF Len(disks) >= MaxDisks THEN disks
             ELSE Append(disks, [kind |-> kind, at |-> where, context |-> context,
                                 sectors |-> SectorCount(drive)])

(* A device without the multifunction bit may decode no function number:   *)
(* it answers as function 0 at all of them.                                *)
Slot == computer.slots
FunctionOf(s, f) ==
    IF f < Len(Slot[s].functions) THEN Slot[s].functions[f + 1]
    ELSE IF Slot[s].multi THEN Absent ELSE Slot[s].functions[1]

(* Faulty: the multifunction bit is not looked at.                         *)
AllFunctions(s) == NumFunctions
FunctionCount(s) == IF Slot[s].multi THEN NumFunctions ELSE 1

DrivesOn(channel) ==        \* ide_probe_channel; base 0, 1 or 0xFFFF is skipped
    IF channel \in Channels THEN <<<<channel, 0>>, <<channel, 1>>>> ELSE <<>>

-----------------------------------------------------------------------------
ScanInit ==
    /\ computer \in Computers
    /\ scan = "none"
    /\ slot = 1 /\ function = 0 /\ port = 0 /\ drives = <<>>
    /\ found_ide = FALSE
    /\ disks = <<>> /\ contexts = 0 /\ programmed = {} /\ selected = 0

(* Every disk function begins with baf_core_disk_scan; only the first scans.*)
BeginScan ==
    /\ scan = "none"
    /\ scan' = "running"
    /\ slot' = 1 /\ function' = 0 /\ port' = 0 /\ drives' = <<>>
    /\ disks' = <<>> /\ contexts' = 0 /\ found_ide' = FALSE
    /\ UNCHANGED <<computer, programmed, selected>>

Searching == scan = "running" /\ port = 0 /\ drives = <<>>
OnBus == Searching /\ slot <= Len(Slot)
Answered == FunctionOf(slot, 0) # Absent
Here == FunctionOf(slot, function)
NextFunction == function' = function + 1 /\ UNCHANGED slot
NothingFound == UNCHANGED <<disks, contexts, programmed>>
Onward == UNCHANGED <<computer, scan, selected>>

NextSlot ==
    /\ OnBus /\ (~Answered \/ function >= FunctionCount(slot))
    /\ slot' = slot + 1 /\ function' = 0
    /\ UNCHANGED <<port, drives, found_ide>> /\ NothingFound /\ Onward

(* Only the first IDE controller is probed; every AHCI controller is, if   *)
(* its registers can be reached.                                           *)
ScanFunction ==
    /\ OnBus /\ Answered /\ function < FunctionCount(slot)
    /\ \/ /\ Here.is = "ide" /\ ~found_ide
          /\ found_ide' = TRUE
          /\ drives' = DrivesOn(Channel(Here, 1)) \o DrivesOn(Channel(Here, 2))
          /\ NextFunction /\ UNCHANGED port
       \/ /\ Reachable(Here)
          /\ port' = 1
          /\ UNCHANGED <<slot, function, drives, found_ide>>
       \/ /\ Here.is = "ide" => found_ide
          /\ ~Reachable(Here)
          /\ NextFunction /\ UNCHANGED <<port, drives, found_ide>>
    /\ NothingFound /\ Onward

ProbeDrive ==               \* ide_probe_drive
    /\ scan = "running" /\ drives # <<>>
    /\ LET place == Head(drives)
           drive == computer.drives[place]
       IN  IF drive.is = "disk" THEN Register("ide", place, -1, drive) ELSE UNCHANGED disks
    /\ drives' = Tail(drives)
    /\ UNCHANGED <<slot, function, port, found_ide, contexts, programmed>> /\ Onward

(* A port with an ATA drive takes a context before it is known to work.    *)
(* When none is left, the ports still to come of its controller are given  *)
(* up.  Faulty: a port without a drive ends the probing of its controller. *)
GiveUpPorts == port' = 0 /\ NextFunction
NextPort ==
    IF port < Len(Here.ports) THEN port' = port + 1 /\ UNCHANGED <<slot, function>>
    ELSE GiveUpPorts
EmptyPortEnds == GiveUpPorts
PassEmptyPort == NextPort

ProbePort ==
    /\ scan = "running" /\ port # 0
    /\ LET answer == Here.ports[port]
           place == <<Here.base, port>>
       IN  \/ answer = PortEmpty /\ PassEmptyPort /\ NothingFound
           \/ /\ answer # PortEmpty /\ contexts >= MaxContexts
              /\ GiveUpPorts /\ NothingFound
           \/ /\ answer # PortEmpty /\ contexts < MaxContexts
              /\ NextPort
              /\ contexts' = contexts + 1
              /\ programmed' = IF answer = PortStuck THEN programmed
                               ELSE programmed \cup {<<place, contexts>>}
              /\ IF answer.is = "disk" THEN Register("ahci", place, contexts, answer)
                 ELSE UNCHANGED disks
    /\ UNCHANGED <<drives, found_ide>> /\ Onward

(* Without an IDE controller on the bus, the legacy ports are tried.       *)
ScanEnd ==
    /\ Searching /\ slot = Len(Slot) + 1
    /\ slot' = slot + 1
    /\ drives' = IF found_ide THEN <<>> ELSE DrivesOn(Primary) \o DrivesOn(Secondary)
    /\ UNCHANGED <<function, port, found_ide>> /\ NothingFound /\ Onward

ScanDone ==
    /\ Searching /\ slot = Len(Slot) + 2
    /\ scan' = "done"
    /\ selected' = IF disks = <<>> THEN 0 ELSE 1
    /\ UNCHANGED <<computer, position, found_ide, disks, contexts, programmed>>

ScanNext ==
    \/ BeginScan \/ NextSlot \/ ScanFunction \/ ProbeDrive \/ ProbePort
    \/ ScanEnd \/ ScanDone

-----------------------------------------------------------------------------
ScanTypeOK ==
    /\ computer \in Computers
    /\ scan \in {"none", "running", "done"} /\ found_ide \in BOOLEAN
    /\ Len(disks) <= MaxDisks /\ selected \in 0 .. Len(disks)
    /\ \A i \in 1 .. Len(disks) : disks[i].sectors < Word /\ disks[i].context < contexts
    /\ contexts \in 0 .. MaxContexts

(* No drive is in the table twice, under two function numbers of its       *)
(* controller or on two channels; and no two AHCI ports were given the     *)
(* same memory for their commands, not even ports that failed after it was *)
(* handed to them and may still write to it.                               *)
DisksApart ==
    /\ \A i, j \in 1 .. Len(disks) :
           disks[i].kind = disks[j].kind /\ disks[i].at = disks[j].at => i = j
    /\ \A p, q \in programmed : p[1] = q[1] <=> p[2] = q[2]

(* The disks there are: those on the ports of every AHCI controller that   *)
(* can be reached, and those on the channels of the first IDE controller,  *)
(* or on the legacy ports if there is none.                                *)
Functions ==
    {p \in (1 .. Len(Slot)) \X (0 .. NumFunctions - 1) :
        LET unit == Slot[p[1]]
        IN  /\ p[2] < Len(unit.functions) /\ (p[2] > 0 => unit.multi)
            /\ unit.functions[1] # Absent}
Ides == {p \in Functions : FunctionOf(p[1], p[2]).is = "ide"}
Before(p, q) == p[1] < q[1] \/ (p[1] = q[1] /\ p[2] <= q[2])

IdeChannels ==
    IF Ides = {} THEN {Primary, Secondary}
    ELSE LET first == CHOOSE p \in Ides : \A q \in Ides : Before(p, q)
         IN  {Channel(FunctionOf(first[1], first[2]), i) : i \in {1, 2}} \cap Channels

AhciPorts ==
    UNION {LET fun == FunctionOf(p[1], p[2])
           IN  IF Reachable(fun)
               THEN {<<"ahci", <<fun.base, n>>, fun.ports[n]>> : n \in 1 .. Len(fun.ports)}
               ELSE {}
           : p \in Functions}
IdeDrives == {<<"ide", place, computer.drives[place]>> : place \in IdeChannels \X {0, 1}}

Listed(d) ==
    \E i \in 1 .. Len(disks) :
        /\ disks[i].kind = d[1] /\ disks[i].at = d[2]
        /\ disks[i].sectors = Min({d[3].sectors, Word - 1})

AllFound ==
    /\ \A d \in AhciPorts : d[3].is = "disk" =>
           Listed(d) \/ Len(disks) = MaxDisks \/ contexts = MaxContexts
    /\ \A d \in IdeDrives : d[3].is = "disk" => Listed(d) \/ Len(disks) = MaxDisks
    /\ \A i \in 1 .. Len(disks) :
           \E d \in AhciPorts \cup IdeDrives :
               d[3].is = "disk" /\ disks[i].kind = d[1] /\ disks[i].at = d[2]

(* A scan that has begun comes to an end, and from then on the table holds *)
(* every disk there is with the number of sectors that can be addressed,   *)
(* unless the table or the memory for ports is full, and nothing else.     *)
ScanComplete == scan = "running" ~> [](scan = "done" /\ AllFound)
=============================================================================
