------------------------- MODULE MCBufferedEventBatch -------------------------
(* Four events, memory for two, lists of up to three: lists from the files,
   from memory and from both, and flushes of every length. *)
EXTENDS BufferedEventBatch

CONSTANTS e1, e2, e3, e4

MCEvents == {e1, e2, e3, e4}
MCRefused == {e1}
===============================================================================
