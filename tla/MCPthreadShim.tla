----------------------------- MODULE MCPthreadShim -----------------------------
(* Two threads of the game race for a mutex and a condition variable. *)
EXTENDS PthreadShim
================================================================================
