----------------------------- MODULE MCRuntime ------------------------------
(***************************************************************************)
(* Computers with up to two PCI slots, a screen of two rows and an arena   *)
(* of a few bytes, for TLC.                                                *)
(***************************************************************************)
EXTENDS Runtime, TLC

Small == Drive(3, FALSE)
Large == Drive(5, TRUE)         \* more than words 60 and 61 can say
Huge == Drive(17, TRUE)         \* more than a uint32_t can say

(* Function layouts: an IDE controller in either mode, AHCI controllers.   *)
Compat == Ide(<<NoChannel, NoChannel>>)
Native == Ide(<<"n1", NoChannel>>)
Dead == Ide(<<"dead", "n1">>)
PortsA == {<<PortEmpty, Small>>, <<PortMute, Large>>, <<PortStuck, Huge, Small>>, <<Small, Small, Small>>}

Unit(fs, multi) == [functions |-> fs, multi |-> multi]
AnySlot(base, second) ==
    {Unit(<<Absent>>, FALSE), Unit(<<Other, Compat>>, TRUE), Unit(<<Absent, Compat>>, TRUE)}
    \cup {Unit(<<f>>, FALSE) : f \in {Compat, Native, Dead, Ahci(Unusable, <<Small>>)}
                                     \cup {Ahci(base, ports) : ports \in PortsA}}
    \cup {Unit(<<Ahci(base, ports), f>>, TRUE) : ports \in PortsA, f \in {Native, Ahci(second, <<Large>>)}}

Attach(p0, p1, s0, n0) ==
    <<"primary", 0>> :> p0 @@ <<"primary", 1>> :> p1 @@ <<"secondary", 0>> :> s0
    @@ <<"secondary", 1>> :> Nobody @@ <<"n1", 0>> :> n0 @@ <<"n1", 1>> :> Large

MCComputers ==
    [slots: {<<s, t>> : s \in AnySlot("hba1", "hba3"), t \in AnySlot("hba2", "hba4")},
     drives: {Attach(p, Huge, s, n) : p, s, n \in {Nobody, Small}}]
MCBare ==
    [slots |-> <<>>, drives |-> Attach(Nobody, Nobody, Nobody, Nobody)]

MCAllComputers == MCComputers \cup {MCBare}

CONSTANTS blank, a, b      \* letters

MCNormal == "ka" :> a
MCShifted == "ka" :> b
=============================================================================
