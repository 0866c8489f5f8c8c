---------------------------- MODULE MCVaultCommitter ----------------------------
(* A small vault for VaultCommitter: two files, one of them a note or both. *)
EXTENDS VaultCommitter, TLC

CONSTANTS a, b, app, keys, v1, v2

BothThere == [p \in Files |-> v1]
Defaults == [p \in Settings |-> v1]
=============================================================================
