---------------------------- MODULE HelpUpdates ----------------------------
(***************************************************************************)
(* The write side of a cat's shared history: POST, PATCH and DELETE of     *)
(* /v1/cats/{cat_id}/updates, as CatsService and Store execute them.       *)
(*                                                                         *)
(* A request is named by the uuid it mints for its update row.  Postgres   *)
(* runs at READ COMMITTED: a statement sees the rows committed when it     *)
(* starts, an insert that meets an uncommitted row with the same unique    *)
(* key waits for it, and an UPDATE of a row another transaction has        *)
(* updated waits for that transaction.  So one creating transaction is     *)
(* four steps (insert the row, update the cat, freeze the notification     *)
(* verdict, commit), and other requests run between them.                  *)
(***************************************************************************)
EXTENDS Integers, FiniteSets

CONSTANTS
    Updates,            \* update uuids, one per create request
    Users,              \* accounts
    Cats,
    Keys,               \* Idempotency-Key header values
    None,               \* SQL null: no key, no result, no lock holder
    MaxNow,             \* bound on the clock
    NeedsHelpExpiry,    \* 72 h in the code
    CorrectionWindow    \* updateCorrectionWindow, 10 min in the code

ASSUME NoneAssumption == None \notin Updates \cup Users \cup Keys
ASSUME TimeAssumption == /\ MaxNow \in Nat \ {0}
                         /\ NeedsHelpExpiry \in Nat \ {0}
                         /\ CorrectionWindow \in Nat \ {0}

VARIABLES
    now,            \* the api server's clock, >= 1
    upd,            \* update id |-> its row, or the request that will insert it
    seqs,           \* last value drawn from updates.seq (bigserial)
    catLock,        \* cat |-> the update whose transaction holds the cat's row lock
    catStatus,      \* cats.status
    lastUpdateAt,   \* cats.last_update_at, 0 for null
    commits         \* history: number of creating transactions committed so far

vars == <<now, upd, seqs, catLock, catStatus, lastUpdateAt, commits>>

Stage == {"none", "accepted", "inserted", "locked", "enqueued", "live", "replayed", "failed"}
InTx == {"inserted", "locked", "enqueued"}     \* row written, not committed

\* One row of updates with its notification_outbox.needs_help_eligible, the
\* place of its commit (history) and the update id the request answered with.
Row == [stage: Stage, cat: Cats \cup {None}, author: Users \cup {None},
        key: Keys \cup {None}, help: BOOLEAN, statuses: BOOLEAN, created: Nat,
        seq: Nat, deleted: BOOLEAN, eligible: BOOLEAN, pos: Nat,
        result: Updates \cup {None}]

NoRow == [stage |-> "none", cat |-> None, author |-> None, key |-> None,
          help |-> FALSE, statuses |-> FALSE, created |-> 0, seq |-> 0,
          deleted |-> FALSE, eligible |-> FALSE, pos |-> 0, result |-> None]

TypeOK == /\ now \in Nat \ {0}
          /\ upd \in [Updates -> Row]
          /\ seqs \in Nat
          /\ catLock \in [Cats -> Updates \cup {None}]
          /\ catStatus \in [Cats -> {"active", "deleted"}]
          /\ lastUpdateAt \in [Cats -> Nat]
          /\ commits \in Nat

----------------------------------------------------------------------------
Live(u) == upd[u].stage = "live"

\* (created_at, seq) order of two rows of one cat.
Before(p, u) == \/ upd[p].created < upd[u].created
                \/ upd[p].created = upd[u].created /\ upd[p].seq < upd[u].seq

\* NeedsHelpExpiresAt
ExpiresAt(u) == upd[u].created + NeedsHelpExpiry

\* A committed, undeleted row that carries the help flag.
HelpMark(u) == Live(u) /\ upd[u].help /\ ~upd[u].deleted

\* Mutant: the idempotency lookup and index skip soft-deleted rows.
SameRequest_SkipsDeleted(a, k) ==
    {p \in Updates : Live(p) /\ upd[p].author = a /\ upd[p].key = k /\ ~upd[p].deleted}

\* The committed rows GetUpdateByIdempotencyKey finds; deleted rows too.
SameRequest(a, k) == {p \in Updates : Live(p) /\ upd[p].author = a /\ upd[p].key = k}

\* The verdict CreateNotificationOutbox computes for u's own inserted row.
EligibleVerdict(u) ==
    /\ upd[u].help
    /\ ~ \E p \in Updates : /\ HelpMark(p)
                            /\ upd[p].cat = upd[u].cat
                            /\ p # u
                            /\ Before(p, u)
                            /\ ExpiresAt(p) > upd[u].created

\* Mutant: last_update_at is assigned, not advanced.
Freshest_Assign(c, t) == t

\* greatest(last_update_at, created_at)
Freshest(c, t) == IF lastUpdateAt[c] < t THEN t ELSE lastUpdateAt[c]

\* Mutant: the lateral join takes the last inserted mark.
NewestMark_BySeq(c) ==
    {u \in Updates : /\ HelpMark(u) /\ upd[u].cat = c
                     /\ \A p \in Updates : HelpMark(p) /\ upd[p].cat = c => upd[p].seq <= upd[u].seq}

\* The lateral join every cat read uses: the newest undeleted help mark.
NewestMark(c) == {u \in Updates : /\ HelpMark(u)
                                  /\ upd[u].cat = c
                                  /\ \A p \in Updates : HelpMark(p) /\ upd[p].cat = c /\ p # u
                                                           => Before(p, u)}

\* deriveActiveAlert
ActiveAlert(c) == \E u \in NewestMark(c) : ExpiresAt(u) > now

----------------------------------------------------------------------------
Init == /\ now = 1
        /\ upd = [u \in Updates |-> NoRow]
        /\ seqs = 0
        /\ catLock = [c \in Cats |-> None]
        /\ catStatus = [c \in Cats |-> "active"]
        /\ lastUpdateAt = [c \in Cats |-> 0]
        /\ commits = 0

Tick == /\ now < MaxNow
        /\ now' = now + 1
        /\ UNCHANGED <<upd, seqs, catLock, catStatus, lastUpdateAt, commits>>

\* CreateOrdinaryUpdate up to its transaction: no row answers the key yet, the
\* status set is valid (non-empty unless the help flag is set), the cat exists,
\* and created_at is read from the server's clock.
AcceptOrdinaryUpdate(u, c, a, k, help, statuses) ==
    /\ upd[u].stage = "none"
    /\ k = None \/ SameRequest(a, k) = {}
    /\ help \/ statuses
    /\ catStatus[c] # "deleted"
    /\ upd' = [upd EXCEPT ![u] = [NoRow EXCEPT !.stage = "accepted", !.cat = c, !.author = a,
                                               !.key = k, !.help = help, !.statuses = statuses,
                                               !.created = now]]
    /\ UNCHANGED <<now, seqs, catLock, catStatus, lastUpdateAt, commits>>

\* CreateNeedsHelpUpdate, the 0.1 endpoint: always flagged, no statuses, no key.
AcceptNeedsHelpUpdate(u, c, a) ==
    /\ upd[u].stage = "none"
    /\ catStatus[c] # "deleted"
    /\ upd' = [upd EXCEPT ![u] = [NoRow EXCEPT !.stage = "accepted", !.cat = c, !.author = a,
                                               !.help = TRUE, !.created = now]]
    /\ UNCHANGED <<now, seqs, catLock, catStatus, lastUpdateAt, commits>>

\* fetchIdempotentOrdinaryUpdate before the write: the key already has a row.
ReplayExisting(u, a, k) ==
    /\ upd[u].stage = "none"
    /\ k # None
    /\ \E p \in SameRequest(a, k) :
          upd' = [upd EXCEPT ![u] = [NoRow EXCEPT !.stage = "replayed", !.author = a,
                                                  !.key = k, !.result = p]]
    /\ UNCHANGED <<now, seqs, catLock, catStatus, lastUpdateAt, commits>>

\* No other transaction holds an uncommitted row with u's (author, key).
KeyFree(u) == \A p \in Updates : ~ /\ p # u
                                   /\ upd[p].stage \in InTx
                                   /\ upd[p].key # None
                                   /\ upd[p].key = upd[u].key
                                   /\ upd[p].author = upd[u].author

\* CreateUpdate, first statement of the transaction: draws seq.
InsertUpdate(u) ==
    /\ upd[u].stage = "accepted"
    /\ KeyFree(u)
    /\ upd[u].key = None \/ SameRequest(upd[u].author, upd[u].key) = {}
    /\ seqs' = seqs + 1
    /\ upd' = [upd EXCEPT ![u] = [@ EXCEPT !.stage = "inserted", !.seq = seqs + 1]]
    /\ UNCHANGED <<now, catLock, catStatus, lastUpdateAt, commits>>

\* CreateUpdate fails with a unique violation: the transaction rolls back and
\* the request answers with the row that won.
InsertConflict(u) ==
    /\ upd[u].stage = "accepted"
    /\ KeyFree(u)
    /\ upd[u].key # None
    /\ \E p \in SameRequest(upd[u].author, upd[u].key) :
          upd' = [upd EXCEPT ![u] = [@ EXCEPT !.stage = "replayed", !.result = p]]
    /\ seqs' = seqs + 1
    /\ UNCHANGED <<now, catLock, catStatus, lastUpdateAt, commits>>

\* Mutant: the cat is read, not updated, before the verdict, so nothing waits.
UpdateCatLastUpdateAt_NoLock(u) ==
    /\ upd[u].stage = "inserted"
    /\ upd' = [upd EXCEPT ![u] = [@ EXCEPT !.stage = "locked"]]
    /\ UNCHANGED <<now, seqs, catLock, catStatus, lastUpdateAt, commits>>

\* UpdateCatLastUpdateAt takes the cat's row lock; its effect shows at commit.
UpdateCatLastUpdateAt(u) ==
    /\ upd[u].stage = "inserted"
    /\ catLock[upd[u].cat] = None
    /\ catLock' = [catLock EXCEPT ![upd[u].cat] = u]
    /\ upd' = [upd EXCEPT ![u] = [@ EXCEPT !.stage = "locked"]]
    /\ UNCHANGED <<now, seqs, catStatus, lastUpdateAt, commits>>

\* CreateNotificationOutbox freezes the verdict against the rows committed now.
CreateNotificationOutbox(u) ==
    /\ upd[u].stage = "locked"
    /\ upd' = [upd EXCEPT ![u] = [@ EXCEPT !.stage = "enqueued", !.eligible = EligibleVerdict(u)]]
    /\ UNCHANGED <<now, seqs, catLock, catStatus, lastUpdateAt, commits>>

\* Mutant: the connection goes back to the pool without ending its transaction.
CommitUpdate_KeepsLock(u) ==
    /\ upd[u].stage = "enqueued"
    /\ upd' = [upd EXCEPT ![u] = [@ EXCEPT !.stage = "live", !.pos = commits + 1, !.result = u]]
    /\ commits' = commits + 1
    /\ lastUpdateAt' = [lastUpdateAt EXCEPT ![upd[u].cat] = Freshest(upd[u].cat, upd[u].created)]
    /\ UNCHANGED <<now, seqs, catLock, catStatus>>

\* The commit makes the row, its verdict and the cat's new freshness visible
\* and releases the cat's row lock.
CommitUpdate(u) ==
    /\ upd[u].stage = "enqueued"
    /\ upd' = [upd EXCEPT ![u] = [@ EXCEPT !.stage = "live", !.pos = commits + 1, !.result = u]]
    /\ commits' = commits + 1
    /\ lastUpdateAt' = [lastUpdateAt EXCEPT ![upd[u].cat] = Freshest(upd[u].cat, upd[u].created)]
    /\ catLock' = [catLock EXCEPT ![upd[u].cat] = None]
    /\ UNCHANGED <<now, seqs, catStatus>>

\* withTx rolls back on any error, a cancelled request or a lost connection.
RollbackUpdate(u) ==
    /\ upd[u].stage \in {"accepted"} \cup InTx
    /\ upd' = [upd EXCEPT ![u] = [@ EXCEPT !.stage = "failed"]]
    /\ catLock' = [c \in Cats |-> IF catLock[c] = u THEN None ELSE catLock[c]]
    /\ UNCHANGED <<now, seqs, catStatus, lastUpdateAt, commits>>

\* The where clause CorrectOrdinaryUpdate and DeleteOwnUpdate share; the caller
\* is the row's author, anyone else matches no row.
Correctable(u) == Live(u) /\ ~upd[u].deleted /\ upd[u].created > now - CorrectionWindow

\* The statuses a correction leaves: replace is "keep" when the body has no
\* statuses field, else whether the replacement set is empty.
StatusesAfter(u, replace) == IF replace = "keep" THEN upd[u].statuses ELSE replace = "set"

\* CorrectOwnUpdate: an empty set with the flag cleared is refused by
\* validateStatusSet, a status-less and flag-less row by the statement itself.
CorrectOwnUpdate(u, clear, replace) ==
    /\ Correctable(u)
    /\ ~(replace = "empty" /\ clear)
    /\ StatusesAfter(u, replace) \/ (upd[u].help /\ ~clear)
    /\ upd' = [upd EXCEPT ![u] = [@ EXCEPT !.help = upd[u].help /\ ~clear,
                                           !.statuses = StatusesAfter(u, replace)]]
    /\ UNCHANGED <<now, seqs, catLock, catStatus, lastUpdateAt, commits>>

\* The updates here carry no photo, so the cover guard of the statement is
\* always satisfied (UpdateCorrection models it).
DeleteOwnUpdate(u) ==
    /\ Correctable(u)
    /\ upd' = [upd EXCEPT ![u] = [@ EXCEPT !.deleted = TRUE]]
    /\ UNCHANGED <<now, seqs, catLock, catStatus, lastUpdateAt, commits>>

\* Mutant: a status outside the check constraint of cats.status.
DeleteCat_Removed(c) ==
    /\ catStatus[c] # "deleted"
    /\ catLock[c] = None
    /\ catStatus' = [catStatus EXCEPT ![c] = "removed"]
    /\ UNCHANGED <<now, upd, seqs, catLock, lastUpdateAt, commits>>

\* DeleteCat's SoftDeleteCat waits for the cat's row lock.
DeleteCat(c) ==
    /\ catStatus[c] # "deleted"
    /\ catLock[c] = None
    /\ catStatus' = [catStatus EXCEPT ![c] = "deleted"]
    /\ UNCHANGED <<now, upd, seqs, catLock, lastUpdateAt, commits>>

TxStep(u) == \/ InsertUpdate(u)
             \/ InsertConflict(u)
             \/ UpdateCatLastUpdateAt(u)
             \/ CreateNotificationOutbox(u)
             \/ CommitUpdate(u)

Next ==
    \/ Tick
    \/ \E u \in Updates :
          \/ \E c \in Cats, a \in Users, k \in Keys \cup {None}, h, s \in BOOLEAN :
                AcceptOrdinaryUpdate(u, c, a, k, h, s)
          \/ \E c \in Cats, a \in Users : AcceptNeedsHelpUpdate(u, c, a)
          \/ \E a \in Users, k \in Keys : ReplayExisting(u, a, k)
          \/ InsertUpdate(u)
          \/ InsertConflict(u)
          \/ UpdateCatLastUpdateAt(u)
          \/ CreateNotificationOutbox(u)
          \/ CommitUpdate(u)
          \/ RollbackUpdate(u)
          \/ \E clear \in BOOLEAN, replace \in {"keep", "empty", "set"} :
                CorrectOwnUpdate(u, clear, replace)
          \/ DeleteOwnUpdate(u)
    \/ \E c \in Cats : DeleteCat(c)

Spec == Init /\ [][Next]_vars

\* A request whose transaction can go on goes on: the handler runs to its end
\* and Postgres grants a free lock.
FairSpec == Spec /\ \A u \in Updates : WF_vars(TxStep(u))

----------------------------------------------------------------------------
(* Properties *)

\* Two marks of one cat that overlap in time (p before u, p unexpired and not
\* retracted when u is made) both notify only if u's transaction committed
\* first: a clock read before the row lock may order created_at against the
\* commits, but a mark made when an earlier one is visible stays silent
\* (the frozen needs_help_eligible of CreateNotificationOutbox).
EligibleOnlyOnActivation ==
    \A p, u \in Updates :
        /\ HelpMark(p) /\ HelpMark(u) /\ upd[p].cat = upd[u].cat
        /\ upd[p].eligible /\ upd[u].eligible
        /\ p # u /\ Before(p, u) /\ ExpiresAt(p) > upd[u].created
        => upd[u].pos < upd[p].pos

\* Every answered request with one author and Idempotency-Key names one update,
\* whichever of the lookup, the insert and the unique-violation fallback
\* answered it, and however the retries overlap.
SameKeySameUpdate ==
    \A r, s \in Updates :
        /\ upd[r].result # None /\ upd[s].result # None
        /\ upd[r].key # None /\ upd[r].key = upd[s].key
        /\ upd[r].author = upd[s].author
        => upd[r].result = upd[s].result

\* cats.last_update_at is the newest created_at among the cat's committed
\* updates, although commits may come in another order than created_at.
FreshnessIsNewest ==
    \A c \in Cats :
        LET rows == {u \in Updates : Live(u) /\ upd[u].cat = c}
        IN  /\ \A u \in rows : upd[u].created <= lastUpdateAt[c]
            /\ lastUpdateAt[c] # 0 => \E u \in rows : upd[u].created = lastUpdateAt[c]

\* The alert a cat shows, read off its newest mark alone, is up exactly while
\* some undeleted mark of the cat is unexpired (deriveActiveAlert over the
\* lateral join of the cat reads).
AlertCoversEveryMark ==
    \A c \in Cats :
        ActiveAlert(c) <=> \E u \in Updates : /\ HelpMark(u) /\ upd[u].cat = c
                                              /\ ExpiresAt(u) > now

\* Every create request that reaches its transaction ends: the waits for the
\* unique key and for the cat's row lock form no cycle.
EveryRequestEnds ==
    \A u \in Updates : upd[u].stage = "accepted"
                          ~> upd[u].stage \in {"live", "replayed", "failed"}

=============================================================================
