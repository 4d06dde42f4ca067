------------------------------- MODULE MCBafFs -------------------------------
(***************************************************************************)
(* Small disks, names and contents for TLC's runs of the file store: with  *)
(* 4-byte sectors and an 8-byte read buffer, Short takes one sector, Long  *)
(* two, Huge two and is one byte too long to be read back, Empty none.     *)
(***************************************************************************)
EXTENDS BafFsStore, TLC

CONSTANTS a, b, bad, Empty, Short, Long, Huge

Lengths == Empty :> 0 @@ Short :> 3 @@ Long :> 7 @@ Huge :> 8
MCSizeOf == [c \in Contents |-> Lengths[c]]

TightDisk == 0 :> 6      \* LBA 4 and 5 hold data
TwoDisks == 0 :> 6 @@ 1 :> 5
UnevenDisks == 0 :> 6 @@ 1 :> 4            \* the second cannot be formatted
=============================================================================
