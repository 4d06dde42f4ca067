------------------------------ MODULE Runtime -------------------------------
(***************************************************************************)
(* The freestanding runtime under a program that uses one of its services: *)
(* the disks, the console or the strings built at run time.  They share no *)
(* state, so programs that mix them do nothing else.                       *)
(***************************************************************************)
EXTENDS DiskScan, Console, StringArena

CONSTANT Bare          \* one of Computers, for the services without disks

VARIABLE service
vars == <<service, scanVars, consoleVars, arenaVars>>

Init ==
    /\ service \in {"disks", "console", "strings"}
    /\ ScanInit /\ ConsoleInit /\ ArenaInit
    /\ service # "disks" => computer = Bare

Next ==
    /\ UNCHANGED service
    /\ \/ service = "disks" /\ ScanNext /\ UNCHANGED <<consoleVars, arenaVars>>
       \/ service = "console" /\ ConsoleNext /\ UNCHANGED <<scanVars, arenaVars>>
       \/ service = "strings" /\ ArenaNext /\ UNCHANGED <<scanVars, consoleVars>>

(* The scan is a loop of one processor; keys and calls come as they like.  *)
Spec == Init /\ [][Next]_vars /\ WF_scanVars(ScanNext)

TypeOK == ScanTypeOK /\ ConsoleTypeOK /\ ArenaTypeOK
=============================================================================
