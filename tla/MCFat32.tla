------------------------------ MODULE MCFat32 ------------------------------
(***************************************************************************)
(* Instances of Fat32 for TLC, and what header/filesystem/fat32.h says of  *)
(* the driver that the driver does not do.                                 *)
(***************************************************************************)
EXTENDS Find

(* fat32.h:249, of delete: "delete a file or empty directory (only 1       *)
(* DirectoryEntry) in file system".                                        *)
DeleteTakesOneEntry ==
  [][(\E r \in Targets : delete(r) \/ DeleteLost(r)) =>
       Cardinality(ChangedEntries(StoreOnDisk, StoreOnDisk')) <= 1]_vars
=============================================================================
