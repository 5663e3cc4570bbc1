-------------------------- MODULE MCEngineLifecycle --------------------------
(* TLC instance of EngineLifecycle: more requests than slots, and an owner   *)
(* and a follower for every close.                                           *)
EXTENDS EngineLifecycle
=============================================================================
