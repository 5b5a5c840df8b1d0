------------------------------ MODULE StoreKV -------------------------------
(***************************************************************************)
(* The engine as a client sees it: what the log says, as a map.            *)
(***************************************************************************)
EXTENDS Store

KV == INSTANCE KVStore WITH kv <- Contents

(* The store implements the map of KVStore: each write of an operation     *)
(* (Put, Delete, counterUpdate, removePkEntries) is one step of the map or *)
(* invisible, and reaping, compaction, hints, Close, a crash and load are  *)
(* invisible.                                                              *)
ImplementsKV == KV!Spec
=============================================================================
