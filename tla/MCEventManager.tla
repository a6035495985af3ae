---------------------------- MODULE MCEventManager ----------------------------
(* Four events, one of them critical, three of them realtime, and memory for two
   realtime events and two buffered ones: lists that leave an event behind,
   transfers of several events, a realtime event that goes to disk directly,
   flushes under lists from the files, from the buffer and from both. *)
EXTENDS EventManager

CONSTANTS client1, realtime1, realtime2, critical1, normal1

MCClients == {client1}
MCEvents == {realtime1, realtime2, critical1, normal1}
MCRealtime == {realtime1, realtime2, critical1}
MCCritical == {critical1}
MCOversized == {realtime1}
===============================================================================
