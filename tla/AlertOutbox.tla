---------------------------- MODULE AlertOutbox ----------------------------
(***************************************************************************)
(* What the notification outbox promises, without workers, transactions or *)
(* pushes: an update is enqueued once, its verdict frozen, and processed   *)
(* once; at that moment, and never again, the devices it notifies get      *)
(* their notification.                                                     *)
(***************************************************************************)
CONSTANTS Updates, Devices

VARIABLES
    state,      \* update |-> absent, pending or processed
    eligible,   \* update |-> its frozen verdict
    delivered   \* <<device, update>> pairs with a notification

ovars == <<state, eligible, delivered>>

Init == /\ state = [u \in Updates |-> "absent"]
        /\ eligible = [u \in Updates |-> FALSE]
        /\ delivered = {}

Enqueue(u, e) == /\ state[u] = "absent"
                 /\ state' = [state EXCEPT ![u] = "pending"]
                 /\ eligible' = [eligible EXCEPT ![u] = e]
                 /\ UNCHANGED delivered

\* One committed dispatch: a batch of pending updates with all their notifications.
Process(batch, new) ==
    /\ batch # {}
    /\ \A u \in batch : state[u] = "pending"
    /\ \A n \in new : n[2] \in batch /\ eligible[n[2]]
    /\ state' = [u \in Updates |-> IF u \in batch THEN "processed" ELSE state[u]]
    /\ delivered' = delivered \cup new
    /\ UNCHANGED eligible

Next == \/ \E u \in Updates, e \in BOOLEAN : Enqueue(u, e)
        \/ \E batch \in SUBSET Updates : \E new \in SUBSET (Devices \X batch) : Process(batch, new)

Spec == Init /\ [][Next]_ovars
=============================================================================
