---------------------------- MODULE AlertDelivery ----------------------------
(****************************************************************************)
(* What the alert outbox promises its subscribers, seen from outside: an    *)
(* event is queued once; working an open event off either fails it, having  *)
(* reached nobody, or sends it, having reached some of its channels; a sent *)
(* event is never worked again.  AlertOutbox implements it when dispatches  *)
(* do not overlap.                                                          *)
(****************************************************************************)
EXTENDS Naturals

CONSTANTS
    Events,       \* the delivery events
    Deliveries,   \* pairs <<event, channel>>
    None          \* an event that does not exist yet

VARIABLES
    status,   \* None, queued, failed or sent
    sends     \* how often each delivery has been accepted

vars == <<status, sends>>

Init ==
    /\ status = [e \in Events |-> None]
    /\ sends = [x \in Deliveries |-> 0]

Queue(batch) ==
    /\ \A e \in batch : status[e] = None
    /\ status' = [e \in Events |-> IF e \in batch THEN "queued" ELSE status[e]]
    /\ UNCHANGED sends

Work(batch, accepted) ==
    /\ \A e \in batch : status[e] \in {"queued", "failed"}
    /\ \A x \in accepted : x[1] \in batch /\ sends[x] = 0
    /\ sends' = [x \in Deliveries |-> IF x \in accepted THEN 1 ELSE sends[x]]
    /\ status' = [e \in Events |->
                    IF e \notin batch THEN status[e]
                    ELSE IF \E x \in accepted : x[1] = e THEN "sent" ELSE "failed"]

Next ==
    \E batch \in SUBSET Events :
        Queue(batch) \/ \E accepted \in SUBSET Deliveries : Work(batch, accepted)

Spec == Init /\ [][Next]_vars
=============================================================================
