--------------------------- MODULE SessionStorage ---------------------------
(***************************************************************************)
(* session_storage.hpp and temporary_session.cpp of the worker: sessions   *)
(* are kept in a map and handed out as copies; a handler saves a part of   *)
(* its copy, which is put into a fresh copy of what is stored.             *)
(***************************************************************************)
EXTENDS Naturals, FiniteSets, TLC

CONSTANT Sessions   (* the sessions of the clients                         *)

ASSUME SessionAssumption == 0 \notin Sessions

VARIABLES
  stored,        (* stored[s]: sessions_[s]                                *)
  storageLock    (* who holds lock_, or None                               *)

storageVars == <<stored, storageLock>>

None == 0

(* The id of no stream, as Session::Session sets it.                       *)
NoStream == 0

EmptySession == [root |-> None, activeProject |-> None, toolbarStore |-> None,
                 dataId |-> NoStream, controlId |-> NoStream, debuggerInstances |-> {}]

Unlocked == storageLock = None

(* load_session and this_session: a copy of what is stored.                *)
Load(s) == stored[s]

(* A slip: the caller's copy is stored, with the change in it.             *)
SaveCopy(s, copy, field, v) ==
  /\ Unlocked
  /\ stored' = [stored EXCEPT ![s] = [copy EXCEPT ![field] = v]]
  /\ UNCHANGED storageLock

(* A slip: the other parts of what is stored are dropped.                  *)
SavePartOnly(s, copy, field, v) ==
  /\ Unlocked
  /\ stored' = [stored EXCEPT ![s] = [f \in {field} |-> v]]
  /\ UNCHANGED storageLock

(* partially_save_session: the extractor sets one field of what is stored. *)
PartiallySave(s, copy, field, v) ==
  /\ Unlocked
  /\ stored' = [stored EXCEPT ![s][field] = v]
  /\ UNCHANGED storageLock
=============================================================================
