---------------------------- MODULE MCBlockLayer ----------------------------
(***************************************************************************)
(* Two disks: two sectors and one sector.                                  *)
(***************************************************************************)
EXTENDS BlockLayer, TLC

CONSTANTS x, y  \* contents

MCLbas == 0 :> {0, 1} @@ 1 :> {1}
MCKinds == [Disks -> DiskKind]
=============================================================================
