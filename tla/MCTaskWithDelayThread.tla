------------------------ MODULE MCTaskWithDelayThread ------------------------
(* Two clients, an owner and two thread identities: one worker can be leaving
   while its successor is being started. *)
EXTENDS TaskWithDelayThread
===============================================================================
