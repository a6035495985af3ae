------------------------------ MODULE MCWebSocket ------------------------------
(* A short message, one that is read in two pieces, and one in two fragments. *)
EXTENDS WebSocket

P(kind, left, cont) == [kind |-> kind, left |-> left, cont |-> cont]
MCShapes == {<<P("text", FALSE, FALSE)>>,
             <<P("binary", TRUE, FALSE), P("binary", FALSE, FALSE)>>,
             <<P("text", FALSE, TRUE), P("text", FALSE, FALSE)>>}
================================================================================
