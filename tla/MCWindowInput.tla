----------------------------- MODULE MCWindowInput -----------------------------
(* The environment variables unset, a forced mode with and without the     *)
(* emulated touch, and raw input with it.                                   *)
EXTENDS WindowInput

MCSetups == {<<"Unknown", FALSE, FALSE>>, <<"Unknown", TRUE, TRUE>>,
             <<"Touch", FALSE, FALSE>>, <<"Mouse", FALSE, TRUE>>}
================================================================================
