----------------------- MODULE MCKeeperStorageSnapshot -----------------------
(***************************************************************************)
(* Instance of KeeperStorageSnapshot for TLC.  A value is its own size.    *)
(***************************************************************************)
EXTENDS KeeperStorageSnapshot

SizeOfValue(value) == value

NoLogIndex(value) == 0
=============================================================================
