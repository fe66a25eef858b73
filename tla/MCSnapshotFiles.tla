------------------------- MODULE MCSnapshotFiles -------------------------
(* Instances of SnapshotFiles for TLC.                                     *)
EXTENDS SnapshotFiles
=============================================================================
