-------------------------- MODULE MCStorageBridge --------------------------
(***************************************************************************)
(* Small instances of StorageBridge for TLC: a daemon of version 1 and one *)
(* of version 2, which raises the minimum version to its own.              *)
(***************************************************************************)
EXTENDS StorageBridge

CONSTANTS d1, d2

MCVersion == [p \in Daemon |-> IF p = d1 THEN 1 ELSE 2]
MCMinimum == [p \in Daemon |-> IF p = d1 THEN 0 ELSE 2]
=============================================================================
