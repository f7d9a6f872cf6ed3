------------------------------ MODULE MCSignIn ------------------------------
(* Model-checking instance of SignIn. *)
EXTENDS SignIn, TLC

Symmetry == Permutations(Codes) \cup Permutations(Verifies) \cup Permutations(Phones)
               \cup Permutations(Devices) \cup Permutations(Cats)

Started == {v \in Verifies : ver[v].pc # "new"}

\* Three verifications of new phones meet on the codes and one device without follows,
\* at most one of them through the external provider or refused at once.
OnCodes == /\ guest = {} /\ owned = {}
           /\ \A p \in accounts : \E v \in Verifies : ver[v].phone = p /\ ver[v].answer = "session"
           /\ Cardinality({ver[v].dev : v \in Started}) <= 1
           /\ Cardinality({v \in Started : ver[v].code = None}) <= 1

\* Two verifications through the external provider meet on phones, devices and follows.
OnFollows == /\ \A c \in Codes : code[c].pc = "new"
             /\ Cardinality(Started) <= 2
             /\ Cardinality(owned) <= 2

\* The two halves of the instance, one after the other.
Bound == OnCodes \/ OnFollows
=============================================================================
