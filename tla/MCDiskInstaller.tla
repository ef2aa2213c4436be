-------------------------- MODULE MCDiskInstaller --------------------------
(* DiskInstaller for TLC: the configurations give its constants.           *)
EXTENDS DiskInstaller
=============================================================================
