---------------------------- MODULE MCKeyedMutex ----------------------------
(***************************************************************************)
(* KeyedMutex with three goroutines and two keys: enough for one to hold a *)
(* key, one to wait for it and one to come back for it while the entry is  *)
(* being dropped.  As many heap entries as goroutines can be live at once. *)
(***************************************************************************)
EXTENDS KeyedMutex
=============================================================================
