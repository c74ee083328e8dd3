------------------------ MODULE MCKeeperStateMachine ------------------------
(***************************************************************************)
(* Instance of KeeperStateMachine for TLC.  Every value has the size 1.    *)
(***************************************************************************)
EXTENDS KeeperStateMachine

UnitSize(value) == 1

ModifiedAt(value) == value.mzxid
=============================================================================
