---------------------------- MODULE MCConfiguration ----------------------------
EXTENDS Configuration

(* One version sets the properties, the other does not; they are refreshed after
   different times. *)
MCDefault == [p \in Props |-> 500]
MCSettingsOf == [v \in Versions |-> [p \in Props |-> IF v = "v1" THEN 10 ELSE Unset]]
MCIntervalOf == [v \in Versions |-> IF v = "v1" THEN 2 ELSE 1]
===============================================================================
