--------------------------- MODULE MCFileEventBatch ---------------------------
(* Events of different sizes, so that compaction moves lines by an amount that
   is not a line length; limits that are reached, and none. *)
EXTENDS FileEventBatch

CONSTANTS e1, e2, e3

MCEvents == {e1, e2, e3}
MCSize == [e \in MCEvents |-> IF e = e2 THEN 3 ELSE 2]
MCLimits == {<<2, 0>>, <<0, 7>>}
MCUploadArgs == {<<1, 8>>, <<3, 8>>, <<2, 4>>}
===============================================================================
