------------------------------ MODULE EventBatch ------------------------------
(***************************************************************************)
(* The promise of the EventBatch interface of the telemetry library: a     *)
(* first-in first-out store of events.  getEventsForUpload hands out a     *)
(* list of the oldest events without removing them, onEventsUploaded       *)
(* removes exactly the events of that list, and events may be added at any *)
(* time in between.  A list that was not uploaded is simply dropped.       *)
(***************************************************************************)
EXTENDS Naturals, Sequences

CONSTANT Events

VARIABLES queue,   \* the events in the batch, oldest first
          handed   \* how many of them the list that is being uploaded holds

vars == <<queue, handed>>

TypeOK == queue \in Seq(Events) /\ handed \in 0..Len(queue)

Init == queue = <<>> /\ handed = 0

AddEvent(e) == queue' = Append(queue, e) /\ UNCHANGED handed

GetEventsForUpload(n) == handed' = n /\ UNCHANGED queue

OnEventsUploaded == /\ queue' = SubSeq(queue, handed + 1, Len(queue))
                    /\ handed' = 0

DropList == handed' = 0 /\ UNCHANGED queue

Next == \/ \E e \in Events : AddEvent(e)
        \/ \E n \in 0..Len(queue) : GetEventsForUpload(n)
        \/ OnEventsUploaded
        \/ DropList

Spec == Init /\ [][Next]_vars
===============================================================================
