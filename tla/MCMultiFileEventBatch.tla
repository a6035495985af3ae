------------------------ MODULE MCMultiFileEventBatch ------------------------
(* A small event and a big one; a file takes two events or four bytes.  A
   configuration update can bring the size limit below the size of the big
   event, which then fits no file. *)
EXTENDS MultiFileEventBatch

CONSTANTS small, big

MCEvents == {small, big}
MCSize == [e \in MCEvents |-> IF e = big THEN 3 ELSE 1]
MCLimits == {<<2, 4>>, <<2, 2>>}
MCUploadArgs == {<<1, 4>>, <<2, 4>>, <<2, 2>>}
===============================================================================
