----------------------- MODULE MCNotificationDispatch -----------------------
(* Model-checking instance of NotificationDispatch. *)
EXTENDS NotificationDispatch, TLC

Symmetry == Permutations(Workers) \cup Permutations(Updates) \cup Permutations(Devices)
               \cup Permutations(Accounts) \cup Permutations(Tokens)

\* The start for the liveness run: two devices of one follower, their tokens
\* already dead, so that two workers can wait for each other's rows.
LiveInit ==
    /\ Init
    /\ dead = Tokens
    /\ \E a \in Accounts : /\ follows = {a}
                          /\ \A d \in Devices : device[d].user = a /\ device[d].token # None
LiveSpec == LiveInit /\ [][Next]_vars /\ Fairness
=============================================================================
