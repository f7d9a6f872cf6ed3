------------------------ MODULE NotificationDispatch ------------------------
(***************************************************************************)
(* cmd/notifier: any number of workers drain notification_outbox while the *)
(* api goes on changing what they read.  One DispatchPending call is one   *)
(* transaction: claim a batch (for update skip locked), resolve the        *)
(* recipients of each help mark, insert one notifications row per device,  *)
(* push to the devices with a token, retire the tokens the provider        *)
(* rejects, mark the row processed, commit.  Its writes show at commit; a  *)
(* push leaves at once and no rollback recalls it.                         *)
(*                                                                         *)
(* All outbox rows here belong to one cat; its followers are accounts.     *)
(***************************************************************************)
EXTENDS Integers, FiniteSets

CONSTANTS
    Workers,        \* notifier processes
    Updates,        \* updates, each with one outbox row
    Devices,        \* devices rows
    Accounts,
    Tokens,         \* fcm registration tokens
    None,           \* SQL null
    BatchSize,      \* defaultDispatchBatchSize, 50 in the code
    MaxChurn,       \* bound on the changes the api makes
    MaxAborts       \* bound on rolled-back dispatch transactions

ASSUME NoneAssumption == None \notin Workers \cup Accounts \cup Tokens
ASSUME BatchAssumption == BatchSize \in Nat \ {0}

VARIABLES
    outbox,     \* update |-> its outbox row
    marked,     \* update |-> updates.needs_help and deleted_at is null
    device,     \* device |-> devices.user_id and devices.push_token
    follows,    \* accounts that follow the cat
    blocks,     \* accounts that block the cat's owner
    notifs,     \* committed notifications rows
    devLock,    \* device |-> worker whose transaction has updated the row
    worker,     \* worker |-> its transaction
    dead,       \* external: tokens the provider rejects
    pushed,     \* external: <<device, token, update>> |-> pushes the provider accepted
    aborts,     \* history: update |-> transactions rolled back while they held its row
    steady,     \* history: update |-> devices that qualify ever since it was enqueued
    cancelled,  \* history: updates retracted before any worker had claimed them
    churn       \* number of api changes so far

dispatch == <<outbox, notifs, devLock, worker, pushed, aborts>>
api == <<marked, device, follows, blocks, dead, steady, cancelled, churn>>
vars == <<dispatch, api>>

\* A row of the recipient list, a notifications row, a worker's transaction.
Rec == [device: Devices, token: Tokens \cup {None}]
Notif == [device: Devices, update: Updates]
Txn == [pc: {"idle", "row", "fanout", "send", "clear"}, rows: SUBSET Updates, help: SUBSET Updates,
        row: Updates \cup {None}, todo: SUBSET Rec, rec: Rec \cup {None},
        notified: SUBSET Notif, cleared: SUBSET Devices, done: SUBSET Updates]
Idle == [pc |-> "idle", rows |-> {}, help |-> {}, row |-> None, todo |-> {}, rec |-> None,
         notified |-> {}, cleared |-> {}, done |-> {}]

TypeOK ==
    /\ outbox \in [Updates -> [state: {"absent", "pending", "processed"}, eligible: BOOLEAN,
                               author: Accounts \cup {None}, at: Nat]]
    /\ marked \in [Updates -> BOOLEAN]
    /\ device \in [Devices -> [user: Accounts \cup {None}, token: Tokens \cup {None}]]
    /\ follows \subseteq Accounts /\ blocks \subseteq Accounts
    /\ notifs \subseteq Notif
    /\ devLock \in [Devices -> Workers \cup {None}]
    /\ worker \in [Workers -> Txn]
    /\ dead \subseteq Tokens
    /\ pushed \in [Devices \X Tokens \X Updates -> Nat]
    /\ aborts \in [Updates -> Nat]
    /\ steady \in [Updates -> SUBSET Devices]
    /\ cancelled \subseteq Updates /\ churn \in Nat

----------------------------------------------------------------------------
\* ListNeedsHelpRecipientDevices: the devices of the accounts that follow the
\* cat, other than the author's and those of accounts blocking the cat's owner.
\* A device whose revoked_at is set has lost its user_id by the same statement
\* (DetachAccountDevices) and cannot be linked again, so that filter removes no more.
Qualified(u) == {d \in Devices : /\ device[d].user \in follows \ blocks
                                 /\ device[d].user # outbox[u].author}

\* The same query as worker k's transaction sees it, its own clears included.
Recipients(k, u) ==
    {[device |-> d, token |-> IF d \in worker[k].cleared THEN None ELSE device[d].token]
        : d \in Qualified(u)}

\* Outbox rows locked by some worker's claim.
Claimed == UNION {worker[k].rows \cup worker[k].done : k \in Workers}

\* The oldest n of a set of outbox rows.
Oldest(S, n) == {u \in S : Cardinality({p \in S : outbox[p].at < outbox[u].at}) < n}

\* Mutant: a plain select, no row lock.
Claimable_NoSkip == {u \in Updates : outbox[u].state = "pending"}

\* for update of o skip locked: pending rows no other transaction has locked.
Claimable == {u \in Updates : outbox[u].state = "pending"} \ Claimed

----------------------------------------------------------------------------
\* Devices, follows and blocks as the api left them before any mark is made;
\* the api lets no two rows carry one token as long as it is set by PUT.
Init ==
    /\ outbox = [u \in Updates |-> [state |-> "absent", eligible |-> FALSE, author |-> None, at |-> 0]]
    /\ marked = [u \in Updates |-> FALSE]
    /\ device \in [Devices -> [user: Accounts \cup {None}, token: Tokens \cup {None}]]
    /\ \A d, e \in Devices : d # e /\ device[d].token # None => device[d].token # device[e].token
    /\ follows \in SUBSET Accounts
    /\ blocks = {}
    /\ notifs = {}
    /\ devLock = [d \in Devices |-> None]
    /\ worker = [k \in Workers |-> Idle]
    /\ dead \in SUBSET Tokens
    /\ pushed = [p \in Devices \X Tokens \X Updates |-> 0]
    /\ aborts = [u \in Updates |-> 0]
    /\ steady = [u \in Updates |-> {}]
    /\ cancelled = {}
    /\ churn = 0

\* Mutant: the claim takes help and eligibility from the outbox row alone.
ClaimedHelp_Frozen(S) == {u \in S : outbox[u].eligible}

\* The claimed rows DispatchPending fans out: live help flag, frozen verdict.
ClaimedHelp(S) == {u \in S : marked[u] /\ outbox[u].eligible}

\* ClaimNotificationOutboxBatch opens the transaction.
Claim(k) ==
    /\ worker[k].pc = "idle"
    /\ Claimable # {}
    /\ LET S == Oldest(Claimable, BatchSize)
       IN  worker' = [worker EXCEPT ![k] = [Idle EXCEPT !.pc = "row", !.rows = S,
                                                        !.help = ClaimedHelp(S)]]
    /\ UNCHANGED <<outbox, notifs, devLock, pushed, aborts, api>>

\* The loop takes the next claimed row; dispatchNeedsHelp resolves recipients.
StartRow(k) ==
    /\ worker[k].pc = "row"
    /\ \E u \in Oldest(worker[k].rows, 1) :
          worker' = [worker EXCEPT ![k] =
                        [@ EXCEPT !.pc = "fanout", !.row = u,
                                  !.todo = IF u \in worker[k].help THEN Recipients(k, u) ELSE {}]]
    /\ UNCHANGED <<outbox, notifs, devLock, pushed, aborts, api>>

NotifOf(k, r) == [device |-> r.device, update |-> worker[k].row]

\* The unique (device_id, update_id) of notifications.
Delivered(d, u) == \E n \in notifs : n.device = d /\ n.update = u

\* Mutant: a device without a token is skipped before its in-app row is written.
CreateNotification_TokenFirst(k) ==
    /\ worker[k].pc = "fanout"
    /\ \E r \in worker[k].todo :
          worker' = [worker EXCEPT ![k] =
                        [@ EXCEPT !.todo = worker[k].todo \ {r}, !.rec = r,
                                  !.notified = worker[k].notified \cup (IF r.token = None THEN {}
                                                       ELSE {NotifOf(k, r)}),
                                  !.pc = IF r.token # None THEN "send" ELSE "fanout"]]
    /\ UNCHANGED <<outbox, notifs, devLock, pushed, aborts, api>>

\* Mutant: the in-app row is inserted outside the dispatch transaction.
CreateNotification_AutoCommit(k) ==
    /\ worker[k].pc = "fanout"
    /\ \E r \in worker[k].todo :
          LET new == ~Delivered(r.device, worker[k].row)
          IN  /\ notifs' = IF new THEN notifs \cup {NotifOf(k, r)} ELSE notifs
              /\ worker' = [worker EXCEPT ![k] =
                               [@ EXCEPT !.todo = worker[k].todo \ {r}, !.rec = r,
                                         !.pc = IF new /\ r.token # None THEN "send" ELSE "fanout"]]
    /\ UNCHANGED <<outbox, devLock, pushed, aborts, api>>

\* CreateNotification (on conflict do nothing) for one recipient; a new row with
\* a token goes on to Send.
CreateNotification(k) ==
    /\ worker[k].pc = "fanout"
    /\ \E r \in worker[k].todo :
          LET new == ~Delivered(r.device, worker[k].row)
          IN  worker' = [worker EXCEPT ![k] =
                            [@ EXCEPT !.todo = worker[k].todo \ {r}, !.rec = r,
                                      !.notified = worker[k].notified \cup (IF new THEN {NotifOf(k, r)} ELSE {}),
                                      !.pc = IF new /\ r.token # None THEN "send" ELSE "fanout"]]
    /\ UNCHANGED <<outbox, notifs, devLock, pushed, aborts, api>>

\* Sender.Send: the provider takes the push.  An answer lost on the way back is
\* logged and the loop goes on just the same.
SendAccepted(k) ==
    /\ worker[k].pc = "send"
    /\ worker[k].rec.token \notin dead
    /\ pushed' = [pushed EXCEPT ![<<worker[k].rec.device, worker[k].rec.token, worker[k].row>>] = @ + 1]
    /\ worker' = [worker EXCEPT ![k] = [@ EXCEPT !.pc = "fanout"]]
    /\ UNCHANGED <<outbox, notifs, devLock, aborts, api>>

\* A transient failure, after post's one retry: logged, not retried.
SendFailed(k) ==
    /\ worker[k].pc = "send"
    /\ worker' = [worker EXCEPT ![k] = [@ EXCEPT !.pc = "fanout"]]
    /\ UNCHANGED <<outbox, notifs, devLock, pushed, aborts, api>>

\* Mutant: a rejected token is left for a retry stage the loop does not have.
SendRejected_Retry(k) ==
    /\ worker[k].pc = "send"
    /\ worker[k].rec.token \in dead
    /\ worker' = [worker EXCEPT ![k] = [@ EXCEPT !.pc = "retry"]]
    /\ UNCHANGED <<outbox, notifs, devLock, pushed, aborts, api>>

\* ErrPushTokenInvalid
SendRejected(k) ==
    /\ worker[k].pc = "send"
    /\ worker[k].rec.token \in dead
    /\ worker' = [worker EXCEPT ![k] = [@ EXCEPT !.pc = "clear"]]
    /\ UNCHANGED <<outbox, notifs, devLock, pushed, aborts, api>>

\* The row still carries the rejected token.
Retires(k) == device[worker[k].rec.device].token = worker[k].rec.token

\* ClearDevicePushToken waits for a row another transaction has updated, then
\* rechecks its condition; a match locks the row until this transaction ends.
ClearDevicePushToken(k) ==
    LET d == worker[k].rec.device
    IN  /\ worker[k].pc = "clear"
        /\ devLock[d] \in {None, k}
        /\ worker' = [worker EXCEPT ![k] = [@ EXCEPT
                         !.pc = "fanout",
                         !.cleared = worker[k].cleared \cup (IF Retires(k) THEN {d} ELSE {})]]
        /\ devLock' = [devLock EXCEPT ![d] = IF Retires(k) THEN k ELSE None]
        /\ UNCHANGED <<outbox, notifs, pushed, aborts, api>>

MarkNotificationOutboxProcessed(k) ==
    /\ worker[k].pc = "fanout"
    /\ worker[k].todo = {}
    /\ worker' = [worker EXCEPT ![k] = [@ EXCEPT !.pc = "row", !.rows = worker[k].rows \ {worker[k].row},
                                                 !.done = worker[k].done \cup {worker[k].row},
                                                 !.row = None, !.rec = None]]
    /\ UNCHANGED <<outbox, notifs, devLock, pushed, aborts, api>>

\* k waits in ClearDevicePushToken for the row j has updated.
WaitsFor(k, j) == worker[k].pc = "clear" /\ devLock[worker[k].rec.device] = j

\* The end of k's transaction hands each of its row locks to a waiting worker.
Unlocked(k) ==
    LET waiting(d) == {j \in Workers \ {k} : WaitsFor(j, k) /\ worker[j].rec.device = d}
    IN  [d \in Devices |-> IF devLock[d] # k THEN devLock[d]
                           ELSE IF waiting(d) = {} THEN None ELSE CHOOSE j \in waiting(d) : TRUE]

\* The transaction's writes become visible together.
CommitDispatch(k) ==
    /\ worker[k].pc = "row"
    /\ worker[k].rows = {}
    /\ outbox' = [u \in Updates |-> IF u \in worker[k].done
                                    THEN [outbox[u] EXCEPT !.state = "processed"] ELSE outbox[u]]
    /\ notifs' = notifs \cup worker[k].notified
    /\ device' = [d \in Devices |-> IF d \in worker[k].cleared
                                    THEN [device[d] EXCEPT !.token = None] ELSE device[d]]
    /\ devLock' = Unlocked(k)
    /\ worker' = [worker EXCEPT ![k] = Idle]
    /\ UNCHANGED <<pushed, aborts, marked, follows, blocks, dead, steady, cancelled, churn>>

\* Mutant: the claim is a column, which a dead worker leaves set.
Abort_KeepsClaim(k) ==
    /\ worker' = [worker EXCEPT ![k] = [Idle EXCEPT !.done = worker[k].rows \cup worker[k].done]]
    /\ devLock' = Unlocked(k)
    /\ aborts' = [u \in Updates |-> aborts[u] + (IF u \in worker[k].rows \cup worker[k].done THEN 1 ELSE 0)]
    /\ UNCHANGED <<outbox, notifs, pushed, api>>

\* WithinTx rolls back: the claim, the inserts and the clears are undone.
Abort(k) ==
    /\ worker' = [worker EXCEPT ![k] = Idle]
    /\ devLock' = Unlocked(k)
    /\ aborts' = [u \in Updates |-> aborts[u] + (IF u \in worker[k].rows \cup worker[k].done THEN 1 ELSE 0)]
    /\ UNCHANGED <<outbox, notifs, pushed, api>>

\* A query error, SIGTERM's cancelled context or the death of the process.
Interrupt(k) ==
    /\ worker[k].pc # "idle"
    /\ \A u \in Updates : aborts[u] < MaxAborts
    /\ Abort(k)

\* The workers of S wait for one another in circles: each for one of S, and one of S for each.
Circular(S) == \A i \in S : /\ \E j \in S \ {i} : WaitsFor(i, j)
                            /\ \E j \in S \ {i} : WaitsFor(j, i)

\* Postgres aborts one of the transactions that wait for one another.
DeadlockVictim(k) == /\ \E S \in SUBSET Workers : k \in S /\ Circular(S)
                     /\ Abort(k)

----------------------------------------------------------------------------
\* A change by the api: it counts against the bound and drops from steady the
\* devices that no longer qualify.
Churn ==
    /\ churn < MaxChurn
    /\ churn' = churn + 1
    /\ UNCHANGED dispatch

StillSteady == [u \in Updates |-> steady[u] \cap Qualified(u)']

\* Store.CreateOrdinaryUpdate commits: every update gets an outbox row, only a
\* help mark may be eligible (HelpUpdates computes the verdict).
Enqueue(u, a, help, eligible) ==
    /\ outbox[u].state = "absent"
    /\ eligible => help
    /\ outbox' = [outbox EXCEPT ![u] =
                     [state |-> "pending", eligible |-> eligible, author |-> a,
                      at |-> 1 + Cardinality({p \in Updates : outbox[p].state # "absent"})]]
    /\ marked' = [marked EXCEPT ![u] = help]
    /\ UNCHANGED <<notifs, devLock, worker, pushed, aborts, device, follows, blocks, dead,
                   cancelled, churn>>
    /\ steady' = [steady EXCEPT ![u] = Qualified(u)']

\* CorrectOwnUpdate clearing the flag, or DeleteOwnUpdate.
Retract(u) ==
    /\ Churn
    /\ marked[u]
    /\ marked' = [marked EXCEPT ![u] = FALSE]
    /\ cancelled' = IF outbox[u].state = "pending" /\ u \notin Claimed /\ aborts[u] = 0
                    THEN cancelled \cup {u} ELSE cancelled
    /\ UNCHANGED <<device, follows, blocks, dead, steady>>

SetFollow(a) ==
    /\ Churn
    /\ follows' = IF a \in follows THEN follows \ {a} ELSE follows \cup {a}
    /\ UNCHANGED <<marked, device, blocks, dead, cancelled>>
    /\ steady' = StillSteady

SetBlock(a) ==
    /\ Churn
    /\ blocks' = IF a \in blocks THEN blocks \ {a} ELSE blocks \cup {a}
    /\ UNCHANGED <<marked, device, follows, dead, cancelled>>
    /\ steady' = StillSteady

\* linkDevice at sign-in: a device linked to another account is refused.
LinkDevice(d, a) ==
    /\ Churn
    /\ device[d].user = None
    /\ devLock[d] = None
    /\ device' = [device EXCEPT ![d].user = a]
    /\ UNCHANGED <<marked, follows, blocks, dead, cancelled>>
    /\ steady' = StillSteady

\* UnlinkDevice at logout.
UnlinkDevice(d) ==
    /\ Churn
    /\ device[d].user # None
    /\ devLock[d] = None
    /\ device' = [device EXCEPT ![d].user = None]
    /\ UNCHANGED <<marked, follows, blocks, dead, cancelled>>
    /\ steady' = StillSteady

\* SetDevicePushToken: the token moves to d from whichever rows carry it, and
\* the statement waits for rows a worker has updated.
SetDevicePushToken(d, t) ==
    /\ Churn
    /\ device[d].token # t
    /\ \A e \in Devices : e = d \/ device[e].token = t => devLock[e] = None
    /\ device' = [e \in Devices |->
                     IF e = d THEN [device[e] EXCEPT !.token = t]
                     ELSE IF device[e].token = t THEN [device[e] EXCEPT !.token = None]
                     ELSE device[e]]
    /\ UNCHANGED <<marked, follows, blocks, dead, steady, cancelled>>

\* DevicesService.Register with a push_token in the body: a new row, here a row
\* no account has used, and no other row is touched.
Register(d, t) ==
    /\ Churn
    /\ device[d] = [user |-> None, token |-> None]
    /\ device' = [device EXCEPT ![d].token = t]
    /\ UNCHANGED <<marked, follows, blocks, dead, steady, cancelled>>

\* External: the installation behind a token goes away.
TokenDies(t) ==
    /\ Churn
    /\ t \notin dead
    /\ dead' = dead \cup {t}
    /\ UNCHANGED <<marked, device, follows, blocks, steady, cancelled>>

WorkerStep(k) == \/ Claim(k)
                 \/ StartRow(k)
                 \/ CreateNotification(k)
                 \/ SendAccepted(k)
                 \/ SendFailed(k)
                 \/ SendRejected(k)
                 \/ ClearDevicePushToken(k)
                 \/ MarkNotificationOutboxProcessed(k)
                 \/ CommitDispatch(k)
                 \/ DeadlockVictim(k)

ApiStep == \/ \E u \in Updates, a \in Accounts, h, e \in BOOLEAN : Enqueue(u, a, h, e)
           \/ \E u \in Updates : Retract(u)
           \/ \E a \in Accounts : SetFollow(a) \/ SetBlock(a)
           \/ \E d \in Devices, a \in Accounts : LinkDevice(d, a)
           \/ \E d \in Devices : UnlinkDevice(d)
           \/ \E d \in Devices, t \in Tokens : SetDevicePushToken(d, t) \/ Register(d, t)
           \/ \E t \in Tokens : TokenDies(t)

Next == ApiStep \/ \E k \in Workers : WorkerStep(k) \/ Interrupt(k)

Spec == Init /\ [][Next]_vars

\* Each notifier polls every two seconds and is restarted when it dies, and
\* Postgres resolves deadlocks; nothing is assumed of the api.
Fairness == \A k \in Workers : WF_vars(WorkerStep(k))
FairSpec == Spec /\ Fairness

----------------------------------------------------------------------------
(* Properties *)

\* Every device that qualified from the moment a notifying mark was enqueued has
\* its in-app notification once the outbox row is processed, whatever was sent,
\* rejected, rolled back or retried in between (dispatchNeedsHelp: the
\* notifications row is created unconditionally, push is additive).
StableFollowerNotified ==
    \A u \in Updates : outbox[u].state = "processed" /\ outbox[u].eligible /\ marked[u]
                          => \A d \in steady[u] : Delivered(d, u)

\* A mark its author retracted before any worker claimed it never reaches
\* anybody, in the app or by push (the live needs_help of the claim).
RetractedInTimeIsSilent ==
    \A u \in cancelled, d \in Devices :
        ~Delivered(d, u) /\ \A t \in Tokens : pushed[<<d, t, u>>] = 0

\* A second push of one update to one device takes a rolled-back dispatch in
\* between: concurrent workers and refreshed tokens alone never send twice (for
\* update skip locked, held to the end of the transaction).
DuplicateNeedsAbort ==
    \A d \in Devices, u \in Updates, s, t \in Tokens :
        pushed[<<d, s, u>>] + (IF s = t THEN 0 ELSE pushed[<<d, t, u>>]) <= 1 + aborts[u]

\* The dispatch as a client of the tables sees it.
Outbox == INSTANCE AlertOutbox
          WITH state <- [u \in Updates |-> outbox[u].state],
               eligible <- [u \in Updates |-> outbox[u].eligible],
               delivered <- {<<n.device, n.update>> : n \in notifs}

\* Claims, sends, crashes and rollbacks of any number of workers are invisible:
\* every outbox row is processed once and its notifications appear with it, in the
\* same commit, and for eligible rows only (Store.WithinTx around the batch).
ImplementsOutbox == Outbox!Spec

\* Every outbox row is processed in the end, through crashes of the workers and
\* deadlocks between them.
EveryRowProcessed ==
    \A u \in Updates : outbox[u].state = "pending" ~> outbox[u].state = "processed"

=============================================================================
