--------------------- MODULE NotificationDispatchProofs ---------------------
(***************************************************************************)
(* Proofs about NotificationDispatch, for any number of workers, updates,  *)
(* devices, accounts and tokens and every batch size.                      *)
(***************************************************************************)
EXTENDS NotificationDispatch, FiniteSetTheorems, TLAPS

----------------------------------------------------------------------------
(* What each step of a worker does to its transaction, field by field *)

\* Worker k's transaction becomes well-typed v and no other worker moves.
Becomes(k, v) == /\ v \in Txn
                 /\ worker' = [worker EXCEPT ![k] = v]
                 /\ worker' \in [Workers -> Txn]
                 /\ worker'[k] = v
                 /\ \A j \in Workers \ {k} : worker'[j] = worker[j]

\* The fields a step of the fan-out leaves alone.
SameBatch(k, v) == /\ v.rows = worker[k].rows /\ v.help = worker[k].help
                   /\ v.done = worker[k].done

\* The row and the recipient a worker has in hand.
InRow(k) == worker[k].pc \in {"fanout", "send", "clear"}
InHand == \A k \in Workers :
    /\ InRow(k) => worker[k].row \in worker[k].rows
    /\ worker[k].pc \in {"send", "clear"} => worker[k].rec \in Rec /\ worker[k].rec.token # None

\* An assignment to one worker's entry.
LEMMA Assigned ==
    ASSUME TypeOK, NEW k \in Workers, NEW v \in Txn, worker' = [worker EXCEPT ![k] = v]
    PROVE  Becomes(k, v)
BY DEF TypeOK, Becomes

\* The claim takes unclaimed pending rows (ClaimNotificationOutboxBatch).
LEMMA ClaimFields ==
    ASSUME TypeOK, NEW k \in Workers, Claim(k)
    PROVE  \E v : /\ Becomes(k, v)
                  /\ v.pc = "row" /\ v.rows \subseteq Claimable /\ v.help = ClaimedHelp(v.rows)
                  /\ v.todo = {} /\ v.notified = {} /\ v.cleared = {} /\ v.done = {}
<1> DEFINE S == Oldest(Claimable, BatchSize)
           v == [Idle EXCEPT !.pc = "row", !.rows = S, !.help = ClaimedHelp(S)]
<1>1. S \subseteq Claimable /\ Claimable \subseteq Updates /\ ClaimedHelp(S) \subseteq Updates
  BY DEF Oldest, Claimable, ClaimedHelp
<1>2. /\ v \in Txn
      /\ v.pc = "row" /\ v.rows = S /\ v.help = ClaimedHelp(v.rows)
      /\ v.todo = {} /\ v.notified = {} /\ v.cleared = {} /\ v.done = {}
  BY <1>1 DEF Txn, Idle
<1>3. worker' = [worker EXCEPT ![k] = v]
  BY DEF Claim
<1> HIDE DEF v
<1>4. Becomes(k, v)
  BY <1>2, <1>3, Assigned
<1> QED BY <1>1, <1>2, <1>4

\* The loop starts a claimed row with its recipients (dispatchNeedsHelp).
LEMMA StartRowFields ==
    ASSUME TypeOK, NEW k \in Workers, StartRow(k)
    PROVE  \E v : \E u \in worker[k].rows :
                  /\ Becomes(k, v) /\ SameBatch(k, v)
                  /\ worker[k].pc = "row"
                  /\ v.pc = "fanout" /\ v.row = u /\ v.notified = worker[k].notified
                  /\ v.cleared = worker[k].cleared
                  /\ v.todo = IF u \in worker[k].help THEN Recipients(k, u) ELSE {}
<1> DEFINE w == worker[k]
<1>1. w \in Txn
  BY DEF TypeOK
<1>2. PICK u \in Oldest(w.rows, 1) :
         worker' = [worker EXCEPT ![k] =
                      [w EXCEPT !.pc = "fanout", !.row = u,
                                !.todo = IF u \in w.help THEN Recipients(k, u) ELSE {}]]
  BY DEF StartRow, TypeOK
<1> DEFINE v == [w EXCEPT !.pc = "fanout", !.row = u,
                          !.todo = IF u \in w.help THEN Recipients(k, u) ELSE {}]
<1>3. u \in w.rows /\ u \in Updates
  BY <1>1 DEF Oldest, Txn
<1>4. Recipients(k, u) \subseteq Rec
  BY <1>3 DEF TypeOK, Recipients, Qualified, Rec
<1>5. /\ v \in Txn /\ SameBatch(k, v)
      /\ v.pc = "fanout" /\ v.row = u /\ v.notified = w.notified /\ v.cleared = w.cleared
      /\ v.todo = IF u \in w.help THEN Recipients(k, u) ELSE {}
  BY <1>1, <1>3, <1>4 DEF Txn, SameBatch
<1> HIDE DEF v
<1>6. Becomes(k, v) /\ w.pc = "row"
  BY <1>2, <1>5, Assigned DEF StartRow, v
<1> QED BY <1>3, <1>5, <1>6

\* One recipient gets its in-app row unless it has it (CreateNotification).
LEMMA CreateFields ==
    ASSUME TypeOK, InHand, NEW k \in Workers, CreateNotification(k)
    PROVE  \E v : \E r \in worker[k].todo :
                  /\ Becomes(k, v) /\ SameBatch(k, v)
                  /\ worker[k].pc = "fanout" /\ r \in Rec
                  /\ v.row = worker[k].row /\ v.todo = worker[k].todo \ {r} /\ v.rec = r
                  /\ v.cleared = worker[k].cleared
                  /\ v.notified = worker[k].notified
                                    \cup (IF Delivered(r.device, worker[k].row) THEN {} ELSE {NotifOf(k, r)})
                  /\ v.pc = IF ~Delivered(r.device, worker[k].row) /\ r.token # None
                            THEN "send" ELSE "fanout"
<1> DEFINE w == worker[k]
<1>1. w \in Txn /\ w.pc = "fanout" /\ w.row \in Updates
  BY DEF TypeOK, CreateNotification, InHand, InRow, Txn
<1>2. PICK r \in w.todo :
         worker' = [worker EXCEPT ![k] =
            [w EXCEPT !.todo = w.todo \ {r}, !.rec = r,
                      !.notified = w.notified \cup (IF ~Delivered(r.device, w.row) THEN {NotifOf(k, r)} ELSE {}),
                      !.pc = IF ~Delivered(r.device, w.row) /\ r.token # None THEN "send" ELSE "fanout"]]
  BY DEF CreateNotification, TypeOK
<1> DEFINE v == [w EXCEPT !.todo = w.todo \ {r}, !.rec = r,
                      !.notified = w.notified \cup (IF ~Delivered(r.device, w.row) THEN {NotifOf(k, r)} ELSE {}),
                      !.pc = IF ~Delivered(r.device, w.row) /\ r.token # None THEN "send" ELSE "fanout"]
<1>3. r \in Rec /\ NotifOf(k, r) \in Notif
  BY <1>1 DEF Txn, Rec, Notif, NotifOf
<1>4. /\ v \in Txn /\ SameBatch(k, v)
      /\ v.row = w.row /\ v.todo = w.todo \ {r} /\ v.rec = r /\ v.cleared = w.cleared
      /\ v.notified = w.notified \cup (IF Delivered(r.device, w.row) THEN {} ELSE {NotifOf(k, r)})
      /\ v.pc = IF ~Delivered(r.device, w.row) /\ r.token # None THEN "send" ELSE "fanout"
  BY <1>1, <1>3 DEF Txn, SameBatch
<1> HIDE DEF v
<1>5. Becomes(k, v)
  BY <1>2, <1>4, Assigned DEF v
<1> QED BY <1>1, <1>3, <1>4, <1>5

\* Send leaves all but its place in the loop alone, whatever the provider answers
\* (dispatchNeedsHelp's switch on the error).
LEMMA SendFields ==
    ASSUME TypeOK, NEW k \in Workers, SendAccepted(k) \/ SendFailed(k) \/ SendRejected(k)
    PROVE  \E v : /\ Becomes(k, v) /\ SameBatch(k, v)
                  /\ worker[k].pc = "send" /\ v.pc \in {"fanout", "clear"}
                  /\ v.row = worker[k].row /\ v.todo = worker[k].todo /\ v.rec = worker[k].rec
                  /\ v.notified = worker[k].notified /\ v.cleared = worker[k].cleared
                  /\ v.pc = "clear" => worker[k].rec.token \in dead
<1> DEFINE w == worker[k]
           v(pc) == [w EXCEPT !.pc = pc]
<1>1. w \in Txn /\ w.pc = "send"
  BY DEF TypeOK, SendAccepted, SendFailed, SendRejected
<1>2. PICK pc \in {"fanout", "clear"} : /\ worker' = [worker EXCEPT ![k] = v(pc)]
                                        /\ pc = "clear" => w.rec.token \in dead
  BY DEF SendAccepted, SendFailed, SendRejected, TypeOK
<1>3. /\ v(pc) \in Txn /\ SameBatch(k, v(pc)) /\ v(pc).pc = pc
      /\ v(pc).row = w.row /\ v(pc).todo = w.todo /\ v(pc).rec = w.rec
      /\ v(pc).notified = w.notified /\ v(pc).cleared = w.cleared
  BY <1>1, <1>2 DEF Txn, SameBatch
<1> HIDE DEF v
<1>4. Becomes(k, v(pc))
  BY <1>2, <1>3, Assigned
<1> QED BY <1>1, <1>2, <1>3, <1>4

\* Retiring a token changes the set of cleared devices and no more (ClearDevicePushToken).
LEMMA ClearFields ==
    ASSUME TypeOK, InHand, NEW k \in Workers, ClearDevicePushToken(k)
    PROVE  \E v : /\ Becomes(k, v) /\ SameBatch(k, v)
                  /\ worker[k].pc = "clear" /\ v.pc = "fanout"
                  /\ v.row = worker[k].row /\ v.todo = worker[k].todo
                  /\ v.notified = worker[k].notified
                  /\ v.cleared = worker[k].cleared \cup (IF Retires(k) THEN {worker[k].rec.device} ELSE {})
<1> DEFINE w == worker[k]
           c == w.cleared \cup (IF Retires(k) THEN {w.rec.device} ELSE {})
           v == [w EXCEPT !.pc = "fanout", !.cleared = c]
<1>1. w \in Txn /\ w.pc = "clear" /\ w.rec \in Rec
  BY DEF TypeOK, ClearDevicePushToken, InHand
<1>2. worker' = [worker EXCEPT ![k] = v]
  BY DEF ClearDevicePushToken, TypeOK
<1>3. c \subseteq Devices
  BY <1>1 DEF Txn, Rec
<1> HIDE DEF c
<1>4. /\ v \in Txn /\ SameBatch(k, v) /\ v.pc = "fanout"
      /\ v.row = w.row /\ v.todo = w.todo /\ v.notified = w.notified /\ v.cleared = c
  BY <1>1, <1>3 DEF Txn, SameBatch
<1> HIDE DEF v
<1>5. Becomes(k, v)
  BY <1>2, <1>4, Assigned
<1> QED BY <1>1, <1>4, <1>5 DEF c

\* A row whose recipients are exhausted moves from the batch to the processed rows.
LEMMA MarkFields ==
    ASSUME TypeOK, InHand, NEW k \in Workers, MarkNotificationOutboxProcessed(k)
    PROVE  \E v : /\ Becomes(k, v)
                  /\ worker[k].pc = "fanout" /\ worker[k].todo = {} /\ v.pc = "row"
                  /\ v.rows = worker[k].rows \ {worker[k].row}
                  /\ v.done = worker[k].done \cup {worker[k].row}
                  /\ v.help = worker[k].help /\ v.todo = {} /\ v.notified = worker[k].notified
                  /\ v.cleared = worker[k].cleared
<1> DEFINE w == worker[k]
           v == [w EXCEPT !.pc = "row", !.rows = w.rows \ {w.row}, !.done = w.done \cup {w.row},
                          !.row = None, !.rec = None]
<1>1. w \in Txn /\ w.pc = "fanout" /\ w.todo = {} /\ w.row \in Updates
  BY DEF TypeOK, MarkNotificationOutboxProcessed, InHand, InRow, Txn
<1>2. worker' = [worker EXCEPT ![k] = v]
  BY DEF MarkNotificationOutboxProcessed, TypeOK
<1>3. /\ v \in Txn /\ v.pc = "row" /\ v.rows = w.rows \ {w.row} /\ v.done = w.done \cup {w.row}
      /\ v.help = w.help /\ v.todo = {} /\ v.notified = w.notified /\ v.cleared = w.cleared
  BY <1>1 DEF Txn
<1> HIDE DEF v
<1>4. Becomes(k, v)
  BY <1>2, <1>3, Assigned
<1> QED BY <1>1, <1>3, <1>4

\* A transaction that commits or rolls back leaves an idle worker (WithinTx).
LEMMA EndFields ==
    ASSUME TypeOK, NEW k \in Workers, CommitDispatch(k) \/ Abort(k)
    PROVE  Becomes(k, Idle)
<1>1. Idle \in Txn
  BY DEF Idle, Txn
<1> QED BY <1>1, Assigned DEF CommitDispatch, Abort

----------------------------------------------------------------------------
(* The inductive invariant *)

\* The rows worker k's transaction has locked.
Held(k) == worker[k].rows \cup worker[k].done

\* Row locks: no row is in two batches, a locked row is still pending, and an idle
\* worker holds nothing (for update skip locked).
Locks ==
    /\ \A k \in Workers : /\ worker[k].pc = "idle" => worker[k] = Idle
                          /\ worker[k].rows \cap worker[k].done = {}
                          /\ \A u \in Held(k) : outbox[u].state = "pending"
    /\ \A j, k \in Workers : j # k => Held(j) \cap Held(k) = {}

\* Transaction w has begun the fan-out of row u.
Begun(w, u) == u \in w.done \/ (w.pc \in {"fanout", "send", "clear"} /\ u = w.row)

\* Fan-out: help marks of the batch only, each device of the current row once, and a
\* push only after its in-app row.
FanoutOf(w) ==
    /\ w.help \subseteq w.rows \cup w.done
    /\ w.pc \in {"idle", "row"} => w.todo = {}
    /\ w.todo # {} => w.row \in w.help
    /\ \A n \in w.notified : n.update \in w.help /\ Begun(w, n.update)
    /\ \A r \in w.todo : [device |-> r.device, update |-> w.row] \notin w.notified
    /\ \A r, s \in w.todo : r.device = s.device => r = s
    /\ w.pc \in {"send", "clear"} => [device |-> w.rec.device, update |-> w.row] \in w.notified
Fanout == /\ \A k \in Workers : FanoutOf(worker[k])
          /\ \A k \in Workers : \A u \in worker[k].help : outbox[u].eligible

\* A notification appears with the commit that processes its row (Store.WithinTx).
Visible == \A n \in notifs : outbox[n.update].state = "processed"

\* The push of u to d has been tried: its in-app row is committed, or is in a
\* transaction that is past sending it.
Tried(d, u) ==
    \/ Delivered(d, u)
    \/ \E k \in Workers : /\ [device |-> d, update |-> u] \in worker[k].notified
                          /\ ~(worker[k].pc = "send" /\ worker[k].rec.device = d /\ worker[k].row = u)

\* Pushes of u to d under the tokens s and t.
Pushes(d, u, s, t) == pushed[<<d, s, u>>] + (IF s = t THEN 0 ELSE pushed[<<d, t, u>>])

\* Until the push of the current attempt, every earlier one belongs to an abort.
Attempts == \A d \in Devices, u \in Updates, s, t \in Tokens :
    Pushes(d, u, s, t) <= aborts[u] + (IF Tried(d, u) THEN 1 ELSE 0)

\* A mark retracted in time is off, enqueued, and in no batch's list of help marks.
Withdrawn == \A u \in cancelled :
    /\ outbox[u].state # "absent" /\ ~marked[u]
    /\ \A k \in Workers : u \notin worker[k].help

\* Once a help mark is begun, a device that has qualified all along is notified or
\* about to be.
CoveredBy(w) == \A u \in w.help : Begun(w, u) =>
    \A d \in steady[u] : \/ [device |-> d, update |-> u] \in w.notified
                         \/ u = w.row /\ \E r \in w.todo : r.device = d
Steady ==
    /\ \A u \in Updates : steady[u] \subseteq Qualified(u)
    /\ \A k \in Workers : \A u \in Held(k) : outbox[u].eligible /\ marked[u] => u \in worker[k].help
    /\ \A k \in Workers : CoveredBy(worker[k])

----------------------------------------------------------------------------
(* Type correctness *)

\* The outbox at any moment is finite, whatever the updates still to come.
Enqueued == {p \in Updates : outbox[p].state # "absent"}

Row == [state: {"absent", "pending", "processed"}, eligible: BOOLEAN, author: Accounts \cup {None}, at: Nat]
Dev == [user: Accounts \cup {None}, token: Tokens \cup {None}]

\* What the type invariant needs to be inductive.
Typed == TypeOK /\ InHand /\ Locks /\ IsFiniteSet(Enqueued)

\* The initial states are well typed.
LEMMA InitTyped == Init => Typed
<1> SUFFICES ASSUME Init PROVE Typed
  OBVIOUS
<1>1. marked \in [Updates -> BOOLEAN]
  BY Zenon DEF Init
<1>2. worker \in [Workers -> Txn] /\ InHand
  BY DEF Init, Idle, Txn, InHand, InRow
<1>3. outbox \in [Updates -> Row] /\ Enqueued = {}
  <2>1. [state |-> "absent", eligible |-> FALSE, author |-> None, at |-> 0] \in Row
    BY DEF Row
  <2> QED BY <2>1 DEF Init, Enqueued
<1>4. IsFiniteSet(Enqueued)
  BY <1>3, FS_EmptySet
<1>5. TypeOK
  BY <1>1, <1>2, <1>3 DEF Init, TypeOK, Row
<1>6. Locks
  BY DEF Init, Locks, Held, Idle
<1> QED BY <1>2, <1>4, <1>5, <1>6 DEF Typed

\* A worker's step keeps a row of the batch, and a recipient with a token, in hand.
LEMMA WorkerTyped ==
    ASSUME Typed, NEW k \in Workers, WorkerStep(k) \/ Interrupt(k)
    PROVE  worker' \in [Workers -> Txn] /\ InHand'
<1> USE DEF Typed
<1>1. ASSUME NEW v, Becomes(k, v), 
             v.pc \in {"fanout", "send", "clear"} => v.row \in v.rows,
             v.pc \in {"send", "clear"} => v.rec \in Rec /\ v.rec.token # None
      PROVE  worker' \in [Workers -> Txn] /\ InHand'
  BY <1>1 DEF Becomes, InHand, InRow
<1>2. CASE Claim(k)
  BY <1>1, <1>2, ClaimFields
<1>3. CASE StartRow(k)
  BY <1>1, <1>3, StartRowFields DEF SameBatch
<1>4. CASE CreateNotification(k)
  <2>1. InHand /\ worker[k].pc = "fanout" => worker[k].row \in worker[k].rows
    BY DEF InHand, InRow
  <2> QED BY <1>1, <1>4, <2>1, CreateFields DEF SameBatch
<1>5. CASE SendAccepted(k) \/ SendFailed(k) \/ SendRejected(k)
  BY <1>1, <1>5, SendFields DEF SameBatch, InHand, InRow
<1>6. CASE ClearDevicePushToken(k)
  BY <1>1, <1>6, ClearFields DEF SameBatch, InHand, InRow
<1>7. CASE MarkNotificationOutboxProcessed(k)
  BY <1>1, <1>7, MarkFields
<1>8. CASE CommitDispatch(k) \/ DeadlockVictim(k) \/ Interrupt(k)
  <2>1. Becomes(k, Idle)
    BY <1>8, EndFields DEF DeadlockVictim, Interrupt
  <2> QED BY <1>1, <2>1 DEF Idle
<1> QED BY <1>2, <1>3, <1>4, <1>5, <1>6, <1>7, <1>8 DEF WorkerStep

\* The end of a transaction hands its locks to workers or frees them.
LEMMA UnlockedType ==
    ASSUME TypeOK, NEW k \in Workers
    PROVE  Unlocked(k) \in [Devices -> Workers \cup {None}]
BY DEF TypeOK, Unlocked

\* A worker's step leaves the tables, the locks and the provider well typed.
LEMMA WorkerTables ==
    ASSUME Typed, NEW k \in Workers, WorkerStep(k) \/ Interrupt(k)
    PROVE  TypeOK' /\ InHand' /\ IsFiniteSet(Enqueued')
<1> USE DEF Typed
<1>0. worker' \in [Workers -> Txn] /\ InHand'
  BY WorkerTyped
<1>1. CASE Claim(k) \/ StartRow(k) \/ CreateNotification(k) \/ SendFailed(k) \/ SendRejected(k)
              \/ MarkNotificationOutboxProcessed(k)
  <2>1. UNCHANGED <<outbox, notifs, devLock, pushed, aborts, api>>
    BY <1>1 DEF Claim, StartRow, CreateNotification, SendFailed, SendRejected,
                MarkNotificationOutboxProcessed
  <2> QED BY <1>0, <2>1 DEF TypeOK, api, Enqueued
<1>2. CASE SendAccepted(k)
  <2>1. worker[k] \in Txn /\ worker[k].rec \in Rec /\ worker[k].rec.token \in Tokens /\ worker[k].row \in Updates
    BY <1>2 DEF SendAccepted, TypeOK, InHand, InRow, Rec, Txn
  <2>2. pushed' \in [Devices \X Tokens \X Updates -> Nat]
    BY <1>2, <2>1 DEF SendAccepted, TypeOK, Rec
  <2>3. UNCHANGED <<outbox, notifs, devLock, aborts, api>>
    BY <1>2 DEF SendAccepted
  <2> QED BY <1>0, <2>2, <2>3 DEF TypeOK, api, Enqueued
<1>3. CASE ClearDevicePushToken(k)
  <2>1. devLock' \in [Devices -> Workers \cup {None}]
    BY <1>3 DEF ClearDevicePushToken, TypeOK
  <2>2. UNCHANGED <<outbox, notifs, pushed, aborts, api>>
    BY <1>3 DEF ClearDevicePushToken
  <2> QED BY <1>0, <2>1, <2>2 DEF TypeOK, api, Enqueued
<1>4. CASE CommitDispatch(k)
  <2>1. devLock' \in [Devices -> Workers \cup {None}]
    BY <1>4, UnlockedType DEF CommitDispatch
  <2>2. ASSUME NEW u \in Updates PROVE outbox'[u] \in Row /\ (outbox'[u].state # "absent" <=> u \in worker[k].done \/ outbox[u].state # "absent")
    BY <1>4 DEF CommitDispatch, TypeOK, Row
  <2>3. outbox' \in [Updates -> Row]
    BY <1>4, <2>2 DEF CommitDispatch
  <2>4. ASSUME NEW d \in Devices PROVE device'[d] \in Dev
    BY <1>4 DEF CommitDispatch, TypeOK, Dev
  <2>5. device' \in [Devices -> Dev]
    BY <1>4, <2>4 DEF CommitDispatch
  <2>6. worker[k] \in Txn
    BY DEF TypeOK
  <2>7. notifs' \subseteq Notif
    BY <1>4, <2>6 DEF CommitDispatch, TypeOK, Txn
  <2>8. TypeOK'
    BY <1>0, <1>4, <2>1, <2>3, <2>5, <2>7 DEF CommitDispatch, TypeOK, Row, Dev
  <2>9. Enqueued' = Enqueued
    BY <2>2 DEF Enqueued, Locks, Held
  <2> QED BY <1>0, <2>8, <2>9
<1>5. CASE DeadlockVictim(k) \/ Interrupt(k)
  <2>1. Abort(k)
    BY <1>5 DEF DeadlockVictim, Interrupt
  <2>2. devLock' \in [Devices -> Workers \cup {None}]
    BY <2>1, UnlockedType DEF Abort
  <2>3. aborts' \in [Updates -> Nat]
    BY <2>1 DEF Abort, TypeOK
  <2> QED BY <1>0, <2>1, <2>2, <2>3 DEF TypeOK, Abort, api, Enqueued
<1> QED BY <1>1, <1>2, <1>3, <1>4, <1>5 DEF WorkerStep

\* The api touches neither the batches nor the notifications, and the only outbox row
\* it writes is one that was not there (CreateOrdinaryUpdate).
LEMMA ApiFrame ==
    ASSUME TypeOK, ApiStep
    PROVE  /\ UNCHANGED <<notifs, devLock, worker, pushed, aborts>>
           /\ \A u \in Updates : \/ outbox'[u] = outbox[u]
                                 \/ outbox[u].state = "absent" /\ outbox'[u].state = "pending"
<1>1. ASSUME NEW u \in Updates, NEW a \in Accounts, NEW h \in BOOLEAN, NEW e \in BOOLEAN, Enqueue(u, a, h, e)
      PROVE  /\ UNCHANGED <<notifs, devLock, worker, pushed, aborts>>
             /\ \A x \in Updates : \/ outbox'[x] = outbox[x]
                                   \/ outbox[x].state = "absent" /\ outbox'[x].state = "pending"
  BY <1>1 DEF Enqueue, TypeOK
<1>2. CASE UNCHANGED dispatch
  BY <1>2 DEF dispatch
<1> QED BY <1>1, <1>2 DEF ApiStep, Retract, SetFollow, SetBlock, LinkDevice, UnlinkDevice,
                          SetDevicePushToken, Register, TokenDies, Churn

\* Enqueueing keeps the api's tables well typed.
LEMMA EnqueueTyped ==
    ASSUME Typed, NEW u \in Updates, NEW a \in Accounts, NEW h \in BOOLEAN, NEW e \in BOOLEAN,
           Enqueue(u, a, h, e)
    PROVE  TypeOK' /\ InHand' /\ IsFiniteSet(Enqueued')
<1> USE DEF Typed
<1> DEFINE at == 1 + Cardinality(Enqueued)
           row == [state |-> "pending", eligible |-> e, author |-> a, at |-> at]
<1>1. at \in Nat
  BY FS_CardinalityType
<1>2. row \in Row
  BY <1>1 DEF Row
<1>3. outbox' = [outbox EXCEPT ![u] = row]
  BY DEF Enqueue, Enqueued
<1>4. outbox' \in [Updates -> Row]
  BY <1>2, <1>3 DEF TypeOK, Row
<1>5. marked' \in [Updates -> BOOLEAN]
  BY Zenon DEF Enqueue, TypeOK
<1>6. steady' \in [Updates -> SUBSET Devices]
  <2>1. Qualified(u)' \subseteq Devices
    BY DEF Enqueue, Qualified
  <2> QED BY <2>1 DEF Enqueue, TypeOK
<1>7. Enqueued' = Enqueued \cup {u}
  BY <1>3 DEF Enqueued, TypeOK
<1>8. IsFiniteSet(Enqueued')
  BY <1>7, FS_AddElement
<1>9. TypeOK'
  BY <1>4, <1>5, <1>6 DEF Enqueue, TypeOK, Row
<1> QED BY <1>8, <1>9 DEF Enqueue, InHand, InRow

\* So does every other change the api makes.
LEMMA ApiTyped == ASSUME Typed, ApiStep PROVE TypeOK' /\ InHand' /\ IsFiniteSet(Enqueued')
<1> USE DEF Typed
<1>1. ASSUME UNCHANGED dispatch, churn' \in Nat, TypeOK' PROVE TypeOK' /\ InHand' /\ IsFiniteSet(Enqueued')
  BY <1>1 DEF dispatch, InHand, InRow, Enqueued
<1>2. ASSUME Churn PROVE churn' \in Nat /\ UNCHANGED dispatch
  BY <1>2 DEF Churn, TypeOK
<1>3. StillSteady \in [Updates -> SUBSET Devices]
  BY DEF StillSteady, TypeOK
<1>4. ASSUME NEW u \in Updates, Retract(u) PROVE TypeOK'
  <2>1. marked' \in [Updates -> BOOLEAN]
    BY <1>4, Zenon DEF Retract, TypeOK
  <2> QED BY <1>2, <1>4, <2>1 DEF Retract, TypeOK, dispatch
<1>5. ASSUME NEW a \in Accounts, SetFollow(a) \/ SetBlock(a) PROVE TypeOK'
  BY <1>2, <1>3, <1>5 DEF SetFollow, SetBlock, TypeOK, dispatch
<1>6. ASSUME UNCHANGED <<marked, follows, blocks, dead, cancelled>>, Churn, 
             device' \in [Devices -> Dev], steady' = StillSteady \/ UNCHANGED steady
      PROVE  TypeOK'
  BY <1>2, <1>3, <1>6 DEF TypeOK, dispatch, Dev
<1>7. ASSUME NEW d \in Devices, NEW a \in Accounts, LinkDevice(d, a) PROVE TypeOK'
  <2>1. [device[d] EXCEPT !.user = a] \in Dev /\ device' = [device EXCEPT ![d] = [device[d] EXCEPT !.user = a]]
    BY <1>7 DEF LinkDevice, TypeOK, Dev
  <2>2. device' \in [Devices -> Dev]
    BY <2>1 DEF TypeOK, Dev
  <2> QED BY <1>6, <1>7, <2>2 DEF LinkDevice
<1>8. ASSUME NEW d \in Devices, UnlinkDevice(d) PROVE TypeOK'
  <2>1. device' \in [Devices -> Dev]
    BY <1>8 DEF UnlinkDevice, TypeOK, Dev
  <2> QED BY <1>6, <1>8, <2>1 DEF UnlinkDevice
<1>9. ASSUME NEW d \in Devices, NEW t \in Tokens, SetDevicePushToken(d, t) PROVE TypeOK'
  <2>1. device' \in [Devices -> Dev]
    <3>1. ASSUME NEW e \in Devices PROVE device'[e] \in Dev
      BY <1>9 DEF SetDevicePushToken, TypeOK, Dev
    <3> QED BY <1>9, <3>1 DEF SetDevicePushToken
  <2> QED BY <1>6, <1>9, <2>1 DEF SetDevicePushToken
<1>10. ASSUME NEW d \in Devices, NEW t \in Tokens, Register(d, t) PROVE TypeOK'
  <2>1. device' \in [Devices -> Dev]
    BY <1>10 DEF Register, TypeOK, Dev
  <2> QED BY <1>6, <1>10, <2>1 DEF Register
<1>11. ASSUME NEW t \in Tokens, TokenDies(t) PROVE TypeOK'
  BY <1>2, <1>11 DEF TokenDies, TypeOK, dispatch
<1>12. CASE \E u \in Updates, a \in Accounts, h, e \in BOOLEAN : Enqueue(u, a, h, e)
  BY <1>12, EnqueueTyped
<1> QED BY <1>1, <1>2, <1>4, <1>5, <1>7, <1>8, <1>9, <1>10, <1>11, <1>12
        DEF ApiStep, Retract, SetFollow, SetBlock, LinkDevice, UnlinkDevice,
            SetDevicePushToken, Register, TokenDies

\* No row is ever locked twice, and what is locked is pending, through every claim,
\* commit and rollback (ClaimNotificationOutboxBatch).
LEMMA LocksStep == ASSUME Typed, [Next]_vars PROVE Locks'
<1> USE DEF Typed
<1>1. ASSUME UNCHANGED worker,
             \A u \in Updates : \/ outbox'[u] = outbox[u]
                                \/ outbox[u].state = "absent" /\ outbox'[u].state = "pending"
      PROVE  Locks'
  <2>1. \A k \in Workers : Held(k)' = Held(k) /\ Held(k) \subseteq Updates
    BY <1>1 DEF Held, TypeOK, Txn
  <2> QED BY <1>1, <2>1 DEF Locks
<1>2. CASE ApiStep
  BY <1>1, <1>2, ApiFrame
<1>3. CASE UNCHANGED vars
  BY <1>1, <1>3 DEF vars, dispatch
<1>4. ASSUME NEW k \in Workers, NEW v, Becomes(k, v),
             v.pc = "idle" => v = Idle,
             v.rows \cap v.done = {},
             \A u \in v.rows \cup v.done : u \in Held(k) \/ u \in Claimable,
             outbox' = outbox
      PROVE  Locks'
  <2>1. Held(k)' = v.rows \cup v.done /\ \A j \in Workers \ {k} : Held(j)' = Held(j)
    BY <1>4 DEF Becomes, Held
  <2>2. \A u \in Held(k)' : outbox[u].state = "pending" /\ \A j \in Workers \ {k} : u \notin Held(j)
    BY <1>4, <2>1 DEF Locks, Claimable, Claimed, Held
  <2>3. \A j \in Workers : /\ worker'[j].pc = "idle" => worker'[j] = Idle
                           /\ worker'[j].rows \cap worker'[j].done = {}
                           /\ \A u \in Held(j)' : outbox'[u].state = "pending"
    BY <1>4, <2>1, <2>2 DEF Becomes, Locks
  <2> QED BY <2>1, <2>2, <2>3 DEF Locks
<1>5. ASSUME NEW k \in Workers, WorkerStep(k) \/ Interrupt(k) PROVE Locks'
  <2>1. CASE Claim(k)
    BY <1>4, <2>1, ClaimFields DEF Claim
  <2>2. CASE StartRow(k) \/ CreateNotification(k) \/ SendAccepted(k) \/ SendFailed(k) \/ SendRejected(k)
                \/ ClearDevicePushToken(k)
    <3>1. PICK v : Becomes(k, v) /\ SameBatch(k, v) /\ v.pc # "idle"
      BY <2>2, StartRowFields, CreateFields, SendFields, ClearFields
    <3>2. v.rows \cap v.done = {} /\ v.rows \cup v.done = Held(k)
      BY <3>1 DEF SameBatch, Locks, Held
    <3>3. outbox' = outbox
      BY <2>2 DEF StartRow, CreateNotification, SendAccepted, SendFailed, SendRejected,
                  ClearDevicePushToken
    <3> QED BY <1>4, <3>1, <3>2, <3>3
  <2>6. CASE MarkNotificationOutboxProcessed(k)
    <3>1. worker[k].pc = "fanout" => worker[k].row \in worker[k].rows
      BY DEF InHand, InRow
    <3>2. PICK v : /\ Becomes(k, v) /\ worker[k].pc = "fanout" /\ v.pc = "row"
                   /\ v.rows = worker[k].rows \ {worker[k].row}
                   /\ v.done = worker[k].done \cup {worker[k].row}
      BY <2>6, MarkFields
    <3>3. v.rows \cap v.done = {} /\ v.rows \cup v.done = Held(k)
      BY <3>1, <3>2 DEF Locks, Held
    <3>4. outbox' = outbox
      BY <2>6 DEF MarkNotificationOutboxProcessed
    <3> QED BY <1>4, <3>2, <3>3, <3>4
  <2>7. CASE DeadlockVictim(k) \/ Interrupt(k)
    <3>1. Becomes(k, Idle) /\ outbox' = outbox
      BY <2>7, EndFields DEF DeadlockVictim, Interrupt, Abort
    <3> QED BY <1>4, <3>1 DEF Idle
  <2>8. CASE CommitDispatch(k)
    <3>1. Becomes(k, Idle)
      BY <2>8, EndFields
    <3>2. Held(k)' = {} /\ \A j \in Workers \ {k} : Held(j)' = Held(j)
      BY <3>1 DEF Becomes, Held, Idle
    <3>3. ASSUME NEW j \in Workers \ {k}, NEW u \in Held(j) PROVE outbox'[u].state = "pending"
      <4>1. u \in Updates /\ u \notin worker[k].done /\ outbox[u].state = "pending"
        BY DEF Locks, Held, TypeOK, Txn
      <4> QED BY <2>8, <4>1 DEF CommitDispatch
    <3> QED BY <3>1, <3>2, <3>3 DEF Locks, Becomes, Idle
  <2> QED BY <1>5, <2>1, <2>2, <2>6, <2>7, <2>8 DEF WorkerStep
<1> QED BY <1>2, <1>3, <1>5 DEF Next

\* Every step keeps the typed state.
LEMMA NextTyped == Typed /\ [Next]_vars => Typed'
<1> SUFFICES ASSUME Typed, [Next]_vars PROVE Typed'
  OBVIOUS
<1>1. CASE ApiStep
  BY <1>1, ApiTyped, LocksStep DEF Typed
<1>2. ASSUME NEW k \in Workers, WorkerStep(k) \/ Interrupt(k) PROVE Typed'
  BY <1>2, WorkerTables, LocksStep DEF Typed
<1>3. CASE UNCHANGED vars
  BY <1>3, LocksStep DEF Typed, TypeOK, InHand, InRow, Enqueued, vars, dispatch, api
<1> QED BY <1>1, <1>2, <1>3 DEF Next

\* The dispatch is well typed, for every set of workers, updates, devices and tokens.
THEOREM TypeCorrect == Spec => []TypeOK
<1>1. Typed => TypeOK
  BY DEF Typed
<1> QED BY <1>1, InitTyped, NextTyped, PTL DEF Spec

----------------------------------------------------------------------------
(* Fan-out and visibility *)

\* The steps of one transaction keep its fan-out in order (DispatchPending, dispatchNeedsHelp).
LEMMA FanoutKept ==
    ASSUME Typed, Fanout, NEW k \in Workers, WorkerStep(k) \/ Interrupt(k)
    PROVE  \A j \in Workers : FanoutOf(worker'[j])
<1> USE DEF Typed
<1> DEFINE w == worker[k]
<1>0. w \in Txn /\ FanoutOf(w)
  BY DEF TypeOK, Fanout
<1>1. ASSUME NEW v, Becomes(k, v), FanoutOf(v) PROVE \A j \in Workers : FanoutOf(worker'[j])
  BY <1>1 DEF Becomes, Fanout
<1>2. CASE Claim(k)
  <2>1. PICK v : /\ Becomes(k, v) /\ v.pc = "row" /\ v.help = ClaimedHelp(v.rows)
                 /\ v.todo = {} /\ v.notified = {}
    BY <1>2, ClaimFields
  <2>2. FanoutOf(v)
    BY <2>1 DEF FanoutOf, ClaimedHelp
  <2> QED BY <1>1, <2>1, <2>2
<1>3. CASE StartRow(k)
  <2>1. PICK v : \E u \in w.rows :
                  /\ Becomes(k, v) /\ SameBatch(k, v)
                  /\ w.pc = "row"
                  /\ v.pc = "fanout" /\ v.row = u /\ v.notified = w.notified
                  /\ v.todo = IF u \in w.help THEN Recipients(k, u) ELSE {}
    BY <1>3, StartRowFields
  <2>2. \A n \in w.notified : n.update \in w.help /\ n.update \in w.done
    BY <1>0, <2>1 DEF FanoutOf, Begun
  <2>3. v.row \in w.rows /\ v.row \notin w.done
    BY <2>1 DEF Locks
  <2>4. \A r, s \in v.todo : r.device = s.device => r = s
    BY <2>1 DEF Recipients
  <2>5. \A r \in v.todo : [device |-> r.device, update |-> v.row] \notin v.notified
    BY <2>1, <2>2, <2>3
  <2>6. FanoutOf(v)
    BY <1>0, <2>1, <2>2, <2>4, <2>5 DEF FanoutOf, SameBatch, Begun
  <2> QED BY <1>1, <2>1, <2>6
<1>4. CASE CreateNotification(k)
  <2>1. PICK v : \E r \in w.todo :
                  /\ Becomes(k, v) /\ SameBatch(k, v)
                  /\ w.pc = "fanout" /\ r \in Rec
                  /\ v.row = w.row /\ v.todo = w.todo \ {r} /\ v.rec = r
                  /\ v.notified = w.notified \cup (IF Delivered(r.device, w.row) THEN {} ELSE {NotifOf(k, r)})
                  /\ v.pc = IF ~Delivered(r.device, w.row) /\ r.token # None THEN "send" ELSE "fanout"
    BY <1>4, CreateFields
  <2>2. PICK r \in w.todo :
                  /\ w.pc = "fanout" /\ r \in Rec
                  /\ v.row = w.row /\ v.todo = w.todo \ {r} /\ v.rec = r
                  /\ \/ v.notified = w.notified /\ v.pc = "fanout"
                     \/ /\ v.notified = w.notified \cup {[device |-> r.device, update |-> w.row]}
                        /\ v.pc \in {"send", "fanout"}
    BY <2>1 DEF NotifOf
  <2>3. w.row \in w.help
    BY <1>0, <2>2 DEF FanoutOf
  <2>4. \A n \in v.notified : n.update \in v.help /\ Begun(v, n.update)
    BY <1>0, <2>1, <2>2, <2>3 DEF FanoutOf, SameBatch, Begun
  <2>5. \A q \in v.todo : [device |-> q.device, update |-> v.row] \notin v.notified
    BY <1>0, <2>2 DEF FanoutOf
  <2>6. v.pc \in {"send", "clear"} => [device |-> v.rec.device, update |-> v.row] \in v.notified
    BY <2>2
  <2>7. FanoutOf(v)
    BY <1>0, <2>1, <2>2, <2>3, <2>4, <2>5, <2>6 DEF FanoutOf, SameBatch
  <2> QED BY <1>1, <2>1, <2>7
<1>5. CASE SendAccepted(k) \/ SendFailed(k) \/ SendRejected(k)
  <2>1. PICK v : /\ Becomes(k, v) /\ SameBatch(k, v)
                 /\ w.pc = "send" /\ v.pc \in {"fanout", "clear"}
                 /\ v.row = w.row /\ v.todo = w.todo /\ v.rec = w.rec /\ v.notified = w.notified
    BY <1>5, SendFields
  <2>2. FanoutOf(v)
    BY <1>0, <2>1 DEF FanoutOf, SameBatch, Begun
  <2> QED BY <1>1, <2>1, <2>2
<1>6. CASE ClearDevicePushToken(k)
  <2>1. PICK v : /\ Becomes(k, v) /\ SameBatch(k, v) /\ w.pc = "clear" /\ v.pc = "fanout"
                 /\ v.row = w.row /\ v.todo = w.todo /\ v.notified = w.notified
    BY <1>6, ClearFields
  <2>2. FanoutOf(v)
    BY <1>0, <2>1 DEF FanoutOf, SameBatch, Begun
  <2> QED BY <1>1, <2>1, <2>2
<1>7. CASE MarkNotificationOutboxProcessed(k)
  <2>1. PICK v : /\ Becomes(k, v) /\ w.pc = "fanout" /\ w.todo = {} /\ v.pc = "row"
                 /\ v.rows = w.rows \ {w.row} /\ v.done = w.done \cup {w.row}
                 /\ v.help = w.help /\ v.todo = {} /\ v.notified = w.notified
    BY <1>7, MarkFields
  <2>2. FanoutOf(v)
    BY <1>0, <2>1 DEF FanoutOf, Begun
  <2> QED BY <1>1, <2>1, <2>2
<1>8. CASE CommitDispatch(k) \/ DeadlockVictim(k) \/ Interrupt(k)
  <2>1. Becomes(k, Idle)
    BY <1>8, EndFields DEF DeadlockVictim, Interrupt
  <2>2. FanoutOf(Idle)
    BY DEF Idle, FanoutOf
  <2> QED BY <1>1, <2>1, <2>2
<1> QED BY <1>2, <1>3, <1>4, <1>5, <1>6, <1>7, <1>8 DEF WorkerStep

\* What a worker's step does to the tables, other than its commit: nothing.
LEMMA WorkerFrame ==
    ASSUME NEW k \in Workers, WorkerStep(k) \/ Interrupt(k), ~CommitDispatch(k)
    PROVE  UNCHANGED <<outbox, notifs, api>>
BY DEF WorkerStep, Interrupt, DeadlockVictim, Abort, Claim, StartRow, CreateNotification, SendAccepted,
       SendFailed, SendRejected, ClearDevicePushToken, MarkNotificationOutboxProcessed

\* The frozen verdict of a row already enqueued never changes, and its state only moves on.
LEMMA OutboxFrame ==
    ASSUME Typed, [Next]_vars, NEW u \in Updates, outbox[u].state # "absent"
    PROVE  /\ outbox'[u].eligible = outbox[u].eligible /\ outbox'[u].author = outbox[u].author
           /\ outbox'[u].state = outbox[u].state \/ outbox'[u].state = "processed"
<1> USE DEF Typed
<1>1. CASE outbox' = outbox
  BY <1>1
<1>2. CASE ApiStep
  BY <1>2, ApiFrame
<1>3. ASSUME NEW k \in Workers, CommitDispatch(k)
      PROVE  /\ outbox'[u].eligible = outbox[u].eligible /\ outbox'[u].author = outbox[u].author
             /\ outbox'[u].state = outbox[u].state \/ outbox'[u].state = "processed"
  <2>1. outbox[u] \in Row
    BY DEF TypeOK, Row
  <2> QED BY <1>3, <2>1 DEF CommitDispatch, Row
<1> QED BY <1>1, <1>2, <1>3, WorkerFrame DEF Next, vars, dispatch

\* Every step of the system keeps the fan-out invariant.
LEMMA FanoutStep == ASSUME Typed, Fanout, [Next]_vars PROVE Fanout'
<1> USE DEF Typed
<1>0. \A k \in Workers : \A u \in worker[k].help : u \in Updates /\ outbox[u].state # "absent"
  BY DEF Fanout, FanoutOf, Locks, Held, TypeOK, Txn
<1>1. ASSUME UNCHANGED worker PROVE Fanout'
  BY <1>0, <1>1, OutboxFrame DEF Fanout
<1>2. CASE ApiStep \/ UNCHANGED vars
  BY <1>1, <1>2, ApiFrame DEF vars, dispatch
<1>3. ASSUME NEW k \in Workers, WorkerStep(k) \/ Interrupt(k) PROVE Fanout'
  <2>1. \A j \in Workers : FanoutOf(worker'[j])
    BY <1>3, FanoutKept
  <2>2. ASSUME NEW v, Becomes(k, v),
               \A u \in v.help : \/ u \in worker[k].help
                                 \/ u \in Updates /\ outbox[u].state # "absent" /\ outbox[u].eligible
        PROVE  Fanout'
    BY <1>0, <2>1, <2>2, OutboxFrame DEF Fanout, Becomes
  <2>3. CASE Claim(k)
    BY <2>2, <2>3, ClaimFields DEF ClaimedHelp, Claimable
  <2>4. CASE CommitDispatch(k) \/ DeadlockVictim(k) \/ Interrupt(k)
    <3>1. Becomes(k, Idle)
      BY <2>4, EndFields DEF DeadlockVictim, Interrupt
    <3> QED BY <2>2, <3>1 DEF Idle
  <2>5. CASE MarkNotificationOutboxProcessed(k)
    BY <2>2, <2>5, MarkFields
  <2>6. CASE StartRow(k) \/ CreateNotification(k) \/ SendAccepted(k) \/ SendFailed(k) \/ SendRejected(k)
                \/ ClearDevicePushToken(k)
    <3>1. PICK v : Becomes(k, v) /\ SameBatch(k, v)
      BY <2>6, StartRowFields, CreateFields, SendFields, ClearFields
    <3> QED BY <2>2, <3>1 DEF SameBatch
  <2> QED BY <1>3, <2>3, <2>4, <2>5, <2>6 DEF WorkerStep
<1> QED BY <1>2, <1>3 DEF Next

\* A row's notifications are committed with it (CommitDispatch).
LEMMA VisibleStep == ASSUME Typed, Fanout, Visible, [Next]_vars PROVE Visible'
<1> USE DEF Typed
<1>0. \A n \in notifs : n.update \in Updates
  BY DEF TypeOK, Notif
<1>1. ASSUME UNCHANGED notifs PROVE Visible'
  BY <1>0, <1>1, OutboxFrame DEF Visible
<1>2. ASSUME NEW k \in Workers, CommitDispatch(k) PROVE Visible'
  <2>1. worker[k] \in Txn /\ FanoutOf(worker[k])
    BY DEF TypeOK, Fanout
  <2>2. \A n \in worker[k].notified : n.update \in worker[k].done /\ n.update \in Updates
    BY <1>2, <2>1 DEF FanoutOf, Begun, CommitDispatch, Txn
  <2>3. \A n \in worker[k].notified : outbox'[n.update].state = "processed"
    <3>1. ASSUME NEW u \in worker[k].done, u \in Updates PROVE outbox'[u].state = "processed"
      BY <1>2, <3>1 DEF CommitDispatch, TypeOK
    <3> QED BY <2>2, <3>1
  <2>4. \A n \in notifs : outbox'[n.update].state = "processed"
    BY <1>0, OutboxFrame DEF Visible
  <2> QED BY <1>2, <2>3, <2>4 DEF Visible, CommitDispatch
<1> QED BY <1>1, <1>2, ApiFrame, WorkerFrame DEF Next, vars, dispatch

----------------------------------------------------------------------------
(* Pushes *)

\* The in-app rows k's transaction is past pushing.
Past(w, d, u) == /\ [device |-> d, update |-> u] \in w.notified
                 /\ ~(w.pc = "send" /\ w.rec.device = d /\ w.row = u)

\* A push is tried once and stays tried, until the transaction that tried it is rolled
\* back (CreateNotification's conflict clause, one Send per new row).
LEMMA TriedKept ==
    ASSUME Typed, Fanout, NEW k \in Workers, WorkerStep(k), ~DeadlockVictim(k),
           NEW d \in Devices, NEW u \in Updates, Tried(d, u)
    PROVE  Tried(d, u)'
<1> USE DEF Typed
<1> DEFINE w == worker[k]
<1>0. w \in Txn /\ FanoutOf(w)
  BY DEF TypeOK, Fanout
<1>1. ASSUME NEW v, Becomes(k, v), notifs \subseteq notifs',
             Past(w, d, u) => Past(v, d, u) \/ Delivered(d, u)'
      PROVE  Tried(d, u)'
  <2>1. CASE Delivered(d, u)
    BY <1>1, <2>1 DEF Tried, Delivered
  <2>2. ASSUME NEW j \in Workers \ {k}, Past(worker[j], d, u) PROVE Tried(d, u)'
    BY <1>1, <2>2 DEF Becomes, Past, Tried
  <2>3. CASE Past(w, d, u)
    BY <1>1, <2>3 DEF Becomes, Past, Tried
  <2> QED BY <2>1, <2>2, <2>3 DEF Tried, Past
<1>2. CASE Claim(k)
  <2>1. w.notified = {}
    BY <1>2 DEF Claim, Locks, Idle
  <2>2. PICK v : Becomes(k, v)
    BY <1>2, ClaimFields
  <2> QED BY <1>1, <1>2, <2>1, <2>2 DEF Past, Claim
<1>3. CASE StartRow(k)
  <2>1. PICK v : Becomes(k, v) /\ v.pc = "fanout" /\ v.notified = w.notified
    BY <1>3, StartRowFields
  <2> QED BY <1>1, <1>3, <2>1 DEF Past, StartRow
<1>4. CASE CreateNotification(k)
  <2>1. PICK v : \E r \in w.todo :
                  /\ Becomes(k, v) /\ v.row = w.row /\ v.rec = r
                  /\ v.notified = w.notified \cup (IF Delivered(r.device, w.row) THEN {} ELSE {NotifOf(k, r)})
    BY <1>4, CreateFields
  <2>2. w.notified \subseteq v.notified
    BY <2>1
  <2>3. [device |-> v.rec.device, update |-> v.row] \notin w.notified
    BY <1>0, <2>1 DEF FanoutOf
  <2>4. Past(w, d, u) => Past(v, d, u)
    BY <2>2, <2>3 DEF Past
  <2> QED BY <1>1, <1>4, <2>1, <2>4 DEF CreateNotification
<1>5. CASE SendAccepted(k) \/ SendFailed(k) \/ SendRejected(k)
  <2>1. PICK v : Becomes(k, v) /\ v.pc \in {"fanout", "clear"} /\ v.notified = w.notified
    BY <1>5, SendFields
  <2> QED BY <1>1, <1>5, <2>1 DEF Past, SendAccepted, SendFailed, SendRejected
<1>6. CASE ClearDevicePushToken(k)
  <2>1. PICK v : Becomes(k, v) /\ v.pc = "fanout" /\ v.notified = w.notified
    BY <1>6, ClearFields
  <2> QED BY <1>1, <1>6, <2>1 DEF Past, ClearDevicePushToken
<1>7. CASE MarkNotificationOutboxProcessed(k)
  <2>1. PICK v : Becomes(k, v) /\ v.pc = "row" /\ v.notified = w.notified
    BY <1>7, MarkFields
  <2> QED BY <1>1, <1>7, <2>1 DEF Past, MarkNotificationOutboxProcessed
<1>8. CASE CommitDispatch(k)
  <2>1. Becomes(k, Idle) /\ notifs' = notifs \cup w.notified
    BY <1>8, EndFields DEF CommitDispatch
  <2>2. Past(w, d, u) => Delivered(d, u)'
    BY <2>1 DEF Past, Delivered
  <2> QED BY <1>1, <2>1, <2>2
<1> QED BY <1>2, <1>3, <1>4, <1>5, <1>6, <1>7, <1>8 DEF WorkerStep

\* Pushes of one update to one device stay within its aborts and one more.
LEMMA AttemptsStep == ASSUME Typed, Fanout, Visible, Attempts, [Next]_vars PROVE Attempts'
<1> USE DEF Typed
<1>0. \A d \in Devices, u \in Updates, s, t \in Tokens : Pushes(d, u, s, t) \in Nat /\ aborts[u] \in Nat
  BY DEF TypeOK, Pushes
<1>1. ASSUME UNCHANGED <<pushed, aborts>>, 
             \A d \in Devices, u \in Updates : Tried(d, u) => Tried(d, u)'
      PROVE  Attempts'
  <2>1. \A d \in Devices, u \in Updates, s, t \in Tokens : Pushes(d, u, s, t)' = Pushes(d, u, s, t)
    BY <1>1 DEF Pushes
  <2> QED BY <1>0, <1>1, <2>1 DEF Attempts
<1>2. CASE ApiStep \/ UNCHANGED vars
  <2>1. UNCHANGED <<pushed, aborts, worker, notifs>>
    BY <1>2, ApiFrame DEF vars, dispatch
  <2> QED BY <1>1, <2>1 DEF Tried, Delivered
<1>3. ASSUME NEW k \in Workers, WorkerStep(k), ~SendAccepted(k), ~DeadlockVictim(k) PROVE Attempts'
  <2>1. UNCHANGED <<pushed, aborts>>
    BY <1>3 DEF WorkerStep, Claim, StartRow, CreateNotification, SendFailed, SendRejected,
                ClearDevicePushToken, MarkNotificationOutboxProcessed, CommitDispatch
  <2> QED BY <1>1, <1>3, <2>1, TriedKept
<1>4. ASSUME NEW k \in Workers, SendAccepted(k) PROVE Attempts'
  <2> DEFINE w == worker[k]
  <2>0. PICK e \in Devices, q \in Tokens, x \in Updates :
           e = w.rec.device /\ q = w.rec.token /\ x = w.row /\ x \in w.rows
    BY <1>4 DEF TypeOK, SendAccepted, InHand, InRow, Rec, Txn
  <2>1. w \in Txn /\ FanoutOf(w) /\ w.pc = "send"
    BY <1>4 DEF TypeOK, Fanout, SendAccepted
  <2> DEFINE n == [device |-> e, update |-> x]
  <2>2. n \in w.notified
    BY <2>0, <2>1 DEF FanoutOf
  <2>3. ~Delivered(e, x)
    BY <2>0 DEF Delivered, Visible, Locks, Held
  <2>4. \A j \in Workers \ {k} : n \notin worker[j].notified
    <3>1. ASSUME NEW j \in Workers \ {k}, n \in worker[j].notified PROVE FALSE
      <4>1. x \in Held(j)
        BY <3>1 DEF Fanout, FanoutOf, Held
      <4>2. x \in Held(k)
        BY <2>0 DEF Held
      <4> QED BY <4>1, <4>2 DEF Locks
    <3> QED BY <3>1
  <2>5. ~Tried(e, x)
    BY <2>0, <2>1, <2>3, <2>4 DEF Tried
  <2>6. PICK v : Becomes(k, v) /\ v.pc \in {"fanout", "clear"} /\ v.notified = w.notified
    BY <1>4, SendFields
  <2>7. Tried(e, x)'
    BY <2>2, <2>6 DEF Tried, Becomes
  <2>8. \A d \in Devices, u \in Updates : Tried(d, u) => Tried(d, u)'
    <3>1. WorkerStep(k) /\ ~DeadlockVictim(k)
      BY <1>4, <2>1 DEF WorkerStep, DeadlockVictim, Circular, WaitsFor
    <3> QED BY <3>1, TriedKept
  <2>9. aborts' = aborts /\ pushed' = [pushed EXCEPT ![<<e, q, x>>] = @ + 1]
    BY <1>4, <2>0 DEF SendAccepted
  <2>10. ASSUME NEW d \in Devices, NEW u \in Updates, NEW s \in Tokens, NEW t \in Tokens
         PROVE  Pushes(d, u, s, t)' <= aborts'[u] + (IF Tried(d, u)' THEN 1 ELSE 0)
    <3>1. Pushes(d, u, s, t) <= aborts[u] + (IF Tried(d, u) THEN 1 ELSE 0)
      BY DEF Attempts
    <3>2. Pushes(d, u, s, t)' = Pushes(d, u, s, t)
              \/ (d = e /\ u = x /\ Pushes(d, u, s, t)' = Pushes(d, u, s, t) + 1)
      <4>1. ASSUME NEW y \in Tokens
            PROVE  pushed'[<<d, y, u>>] = pushed[<<d, y, u>>] + (IF d = e /\ u = x /\ y = q THEN 1 ELSE 0)
        <5>1. <<d, y, u>> \in Devices \X Tokens \X Updates /\ pushed[<<d, y, u>>] \in Nat
          BY DEF TypeOK
        <5>2. CASE d = e /\ u = x /\ y = q
          BY <2>9, <5>1, <5>2 DEF TypeOK
        <5>3. CASE ~(d = e /\ u = x /\ y = q)
          <6>1. <<d, y, u>> # <<e, q, x>>
            BY <5>3
          <6> QED BY <2>9, <5>1, <5>3, <6>1 DEF TypeOK
        <5> QED BY <5>2, <5>3
      <4>2. pushed[<<d, s, u>>] \in Nat /\ pushed[<<d, t, u>>] \in Nat
        BY DEF TypeOK
      <4>3. CASE d = e /\ u = x
        BY <4>1, <4>2, <4>3 DEF Pushes
      <4>4. CASE ~(d = e /\ u = x)
        BY <4>1, <4>2, <4>4 DEF Pushes
      <4> QED BY <4>3, <4>4
    <3>3. CASE Pushes(d, u, s, t)' = Pushes(d, u, s, t)
      BY <1>0, <2>8, <2>9, <3>1, <3>3
    <3>4. CASE d = e /\ u = x /\ Pushes(d, u, s, t)' = Pushes(d, u, s, t) + 1
      BY <1>0, <2>5, <2>7, <2>9, <3>1, <3>4
    <3> QED BY <3>2, <3>3, <3>4
  <2> QED BY <2>10 DEF Attempts
<1>5. ASSUME NEW k \in Workers, DeadlockVictim(k) \/ Interrupt(k) PROVE Attempts'
  <2>1. Abort(k) /\ Becomes(k, Idle)
    BY <1>5, EndFields DEF DeadlockVictim, Interrupt
  <2>2. /\ UNCHANGED <<notifs, pushed>>
        /\ aborts' = [u \in Updates |-> aborts[u] + (IF u \in Held(k) THEN 1 ELSE 0)]
    BY <2>1 DEF Abort, Held
  <2>3. ASSUME NEW d \in Devices, NEW u \in Updates, u \notin Held(k), Tried(d, u) PROVE Tried(d, u)'
    <3>1. [device |-> d, update |-> u] \notin worker[k].notified
      BY <2>3 DEF Fanout, FanoutOf, Held
    <3> QED BY <2>1, <2>2, <2>3, <3>1 DEF Tried, Delivered, Becomes
  <2>4. ASSUME NEW d \in Devices, NEW u \in Updates, NEW s \in Tokens, NEW t \in Tokens
        PROVE  Pushes(d, u, s, t)' <= aborts'[u] + (IF Tried(d, u)' THEN 1 ELSE 0)
    <3>1. Pushes(d, u, s, t) <= aborts[u] + (IF Tried(d, u) THEN 1 ELSE 0)
      BY DEF Attempts
    <3>2. Pushes(d, u, s, t)' = Pushes(d, u, s, t)
      BY <2>2 DEF Pushes
    <3> QED BY <1>0, <2>2, <2>3, <3>1, <3>2
  <2> QED BY <2>4 DEF Attempts
<1> QED BY <1>2, <1>3, <1>4, <1>5 DEF Next, WorkerStep

\* The first part of the inductive invariant.
Orderly == Typed /\ Fanout /\ Visible /\ Attempts

\* It holds initially.
LEMMA InitOrderly == Init => Orderly
<1> SUFFICES ASSUME Init PROVE Orderly
  OBVIOUS
<1>1. Fanout
  BY DEF Init, Fanout, FanoutOf, Idle
<1>2. Visible
  BY DEF Init, Visible
<1>3. Attempts
  BY DEF Init, Attempts, Pushes
<1> QED BY <1>1, <1>2, <1>3, InitTyped DEF Orderly

\* Every step keeps it.
LEMMA NextOrderly == Orderly /\ [Next]_vars => Orderly'
BY NextTyped, FanoutStep, VisibleStep, AttemptsStep DEF Orderly

\* A second push of one update to one device takes a rolled-back dispatch in between,
\* for any number of workers, tokens and transactions (for update skip locked).
THEOREM DuplicatesNeedAborts == Spec => []DuplicateNeedsAbort
<1>1. Orderly => DuplicateNeedsAbort
  <2>1. ASSUME Orderly, NEW d \in Devices, NEW u \in Updates, NEW s \in Tokens, NEW t \in Tokens
        PROVE  Pushes(d, u, s, t) <= 1 + aborts[u]
    <3>1. Pushes(d, u, s, t) <= aborts[u] + (IF Tried(d, u) THEN 1 ELSE 0)
      BY <2>1 DEF Orderly, Attempts
    <3>2. Pushes(d, u, s, t) \in Nat /\ aborts[u] \in Nat
      BY <2>1 DEF Orderly, Typed, TypeOK, Pushes
    <3> QED BY <3>1, <3>2
  <2> QED BY <2>1 DEF DuplicateNeedsAbort, Pushes
<1> QED BY <1>1, InitOrderly, NextOrderly, PTL DEF Spec

----------------------------------------------------------------------------
(* Marks retracted in time *)

\* Retracting an unclaimed mark finds it unsent, and keeps it out of every batch.
LEMMA RetractSilent ==
    ASSUME Orderly, Withdrawn, RetractedInTimeIsSilent, NEW u \in Updates, Retract(u)
    PROVE  Withdrawn' /\ RetractedInTimeIsSilent'
<1> USE DEF Orderly, Typed
<1>1. UNCHANGED <<outbox, notifs, worker, pushed, aborts>>
  BY DEF Retract, Churn, dispatch
<1>2. \A x \in Updates : marked'[x] => marked[x]
  BY DEF Retract, TypeOK
<1>3. ASSUME u \in cancelled', u \notin cancelled
      PROVE  /\ outbox[u].state = "pending" /\ ~marked'[u] /\ aborts[u] = 0
             /\ \A k \in Workers : u \notin Held(k)
  BY <1>3 DEF Retract, Claimed, Held, TypeOK
<1>4. ASSUME u \in cancelled', u \notin cancelled, NEW k \in Workers PROVE u \notin worker[k].help
  BY <1>3, <1>4 DEF Fanout, FanoutOf, Held
<1>5. ASSUME u \in cancelled', u \notin cancelled, NEW d \in Devices
      PROVE  ~Delivered(d, u) /\ \A t \in Tokens : pushed[<<d, t, u>>] = 0
  <2>1. ~Delivered(d, u)
    BY <1>3, <1>5 DEF Delivered, Visible
  <2>2. ~Tried(d, u)
    BY <1>4, <1>5, <2>1 DEF Tried, Fanout, FanoutOf
  <2>3. ASSUME NEW t \in Tokens PROVE pushed[<<d, t, u>>] = 0
    <3>1. Pushes(d, u, t, t) <= 0
      BY <1>3, <1>5, <2>2 DEF Attempts
    <3>2. pushed[<<d, t, u>>] \in Nat
      BY DEF TypeOK
    <3> QED BY <3>1, <3>2 DEF Pushes
  <2> QED BY <2>1, <2>3
<1>6. cancelled' \subseteq cancelled \cup {u}
  BY DEF Retract
<1>7. Withdrawn'
  BY <1>1, <1>2, <1>3, <1>4, <1>6 DEF Withdrawn, TypeOK
<1>8. RetractedInTimeIsSilent'
  BY <1>1, <1>5, <1>6 DEF RetractedInTimeIsSilent, Delivered
<1> QED BY <1>7, <1>8

\* Every other change of the api leaves the retracted marks off.
LEMMA ApiSilent ==
    ASSUME Orderly, Withdrawn, RetractedInTimeIsSilent, ApiStep
    PROVE  Withdrawn' /\ RetractedInTimeIsSilent'
<1> USE DEF Orderly, Typed
<1>1. UNCHANGED <<notifs, worker, pushed>> /\ \A u \in Updates : outbox[u].state # "absent" => outbox'[u].state # "absent"
  BY ApiFrame
<1>2. ASSUME UNCHANGED cancelled, \A u \in cancelled : ~marked'[u]
      PROVE  Withdrawn' /\ RetractedInTimeIsSilent'
  BY <1>1, <1>2 DEF Withdrawn, RetractedInTimeIsSilent, Delivered, TypeOK
<1>3. ASSUME NEW u \in Updates, NEW a \in Accounts, NEW h \in BOOLEAN, NEW e \in BOOLEAN, Enqueue(u, a, h, e)
      PROVE  Withdrawn' /\ RetractedInTimeIsSilent'
  <2>1. u \notin cancelled
    BY <1>3 DEF Enqueue, Withdrawn
  <2>2. UNCHANGED cancelled /\ \A x \in cancelled : marked'[x] = marked[x]
    BY <1>3, <2>1 DEF Enqueue, TypeOK
  <2> QED BY <1>2, <2>2 DEF Withdrawn
<1>4. CASE UNCHANGED <<marked, cancelled>>
  BY <1>2, <1>4 DEF Withdrawn
<1> QED BY <1>3, <1>4, RetractSilent DEF ApiStep, SetFollow, SetBlock, LinkDevice, UnlinkDevice,
           SetDevicePushToken, Register, TokenDies

\* No worker takes up a retracted mark, however old its batch (ClaimNotificationOutboxBatch
\* reads the live flag; dispatchNeedsHelp runs for help marks only).
LEMMA WorkerSilent ==
    ASSUME Orderly, Withdrawn, RetractedInTimeIsSilent, NEW k \in Workers, WorkerStep(k) \/ Interrupt(k)
    PROVE  Withdrawn' /\ RetractedInTimeIsSilent'
<1> USE DEF Orderly, Typed
<1>0. UNCHANGED <<marked, cancelled>>
  BY WorkerFrame DEF CommitDispatch, api
<1>1. \A u \in cancelled : u \in Updates /\ outbox'[u].state # "absent"
  <2>1. [Next]_vars
    BY DEF Next
  <2> QED BY <2>1, OutboxFrame DEF Withdrawn, TypeOK
<1>2. ASSUME NEW v, Becomes(k, v), v.help \subseteq {u \in Updates : marked[u]} \cup worker[k].help
      PROVE  Withdrawn'
  <2>1. \A u \in cancelled : u \notin v.help
    BY <1>2 DEF Withdrawn
  <2> QED BY <1>0, <1>1, <1>2, <2>1 DEF Withdrawn, Becomes
<1>3. Withdrawn'
  <2>1. CASE Claim(k)
    BY <1>2, <2>1, ClaimFields DEF ClaimedHelp, Claimable
  <2>2. CASE CommitDispatch(k) \/ DeadlockVictim(k) \/ Interrupt(k)
    <3>1. Becomes(k, Idle)
      BY <2>2, EndFields DEF DeadlockVictim, Interrupt
    <3> QED BY <1>2, <3>1 DEF Idle
  <2>3. CASE MarkNotificationOutboxProcessed(k)
    BY <1>2, <2>3, MarkFields
  <2>4. CASE StartRow(k) \/ CreateNotification(k) \/ SendAccepted(k) \/ SendFailed(k) \/ SendRejected(k)
                \/ ClearDevicePushToken(k)
    <3>1. PICK v : Becomes(k, v) /\ SameBatch(k, v)
      BY <2>4, StartRowFields, CreateFields, SendFields, ClearFields
    <3> QED BY <1>2, <3>1 DEF SameBatch
  <2> QED BY <2>1, <2>2, <2>3, <2>4 DEF WorkerStep
<1>4. \A u \in cancelled : \A n \in worker[k].notified : n.update # u
  <2>1. FanoutOf(worker[k])
    BY DEF Fanout
  <2>2. \A n \in worker[k].notified : n.update \in worker[k].help
    BY <2>1 DEF FanoutOf
  <2> QED BY <2>2 DEF Withdrawn
<1>5. \A u \in cancelled, d \in Devices : ~Delivered(d, u)'
  <2>1. notifs' \subseteq notifs \cup worker[k].notified
    BY WorkerFrame DEF CommitDispatch
  <2> QED BY <1>4, <2>1 DEF RetractedInTimeIsSilent, Delivered
<1>6. \A u \in cancelled, d \in Devices, t \in Tokens : pushed'[<<d, t, u>>] = 0
  <2>1. CASE SendAccepted(k)
    <3>1. PICK e \in Devices, q \in Tokens, x \in Updates :
             e = worker[k].rec.device /\ q = worker[k].rec.token /\ x = worker[k].row
      BY <2>1 DEF TypeOK, SendAccepted, InHand, InRow, Rec, Txn
    <3>2. x \notin cancelled
      <4>1. [device |-> e, update |-> x] \in worker[k].notified
        BY <2>1, <3>1 DEF Fanout, FanoutOf, SendAccepted
      <4> QED BY <1>4, <4>1
    <3>3. pushed' = [pushed EXCEPT ![<<e, q, x>>] = @ + 1]
      BY <2>1, <3>1 DEF SendAccepted
    <3>4. ASSUME NEW u \in cancelled, NEW d \in Devices, NEW t \in Tokens
          PROVE  pushed'[<<d, t, u>>] = pushed[<<d, t, u>>]
      <4>1. <<d, t, u>> # <<e, q, x>> /\ <<d, t, u>> \in Devices \X Tokens \X Updates
        BY <1>1, <3>2
      <4> QED BY <3>3, <4>1 DEF TypeOK
    <3> QED BY <3>4 DEF RetractedInTimeIsSilent
  <2>2. CASE ~SendAccepted(k)
    <3>1. UNCHANGED pushed
      BY <2>2 DEF WorkerStep, Interrupt, DeadlockVictim, Abort, Claim, StartRow, CreateNotification,
                  SendFailed, SendRejected, ClearDevicePushToken, MarkNotificationOutboxProcessed,
                  CommitDispatch
    <3> QED BY <3>1 DEF RetractedInTimeIsSilent
  <2> QED BY <2>1, <2>2
<1> QED BY <1>0, <1>3, <1>5, <1>6 DEF RetractedInTimeIsSilent

\* A mark retracted before any worker claimed it never reaches anybody, in the app or
\* by push (the live needs_help of the claim).
THEOREM RetractedSilent == Spec => []RetractedInTimeIsSilent
<1> DEFINE IInv == Orderly /\ Withdrawn /\ RetractedInTimeIsSilent
<1>1. Init => IInv
  BY InitOrderly DEF Init, Withdrawn, RetractedInTimeIsSilent
<1>2. IInv /\ [Next]_vars => IInv'
  <2> SUFFICES ASSUME IInv, [Next]_vars PROVE IInv'
    OBVIOUS
  <2>1. Orderly'
    BY NextOrderly
  <2>2. CASE UNCHANGED vars
    BY <2>1, <2>2 DEF vars, dispatch, api, Withdrawn, RetractedInTimeIsSilent, Delivered
  <2>3. CASE Next
    BY <2>1, <2>3, ApiSilent, WorkerSilent DEF Next
  <2> QED BY <2>2, <2>3
<1>3. IInv => RetractedInTimeIsSilent
  OBVIOUS
<1> QED BY <1>1, <1>2, <1>3, PTL DEF Spec

----------------------------------------------------------------------------
(* Followers that stay *)

\* The devices a row notifies depend on links, follows, blocks and its author alone.
LEMMA QualifiedFrame ==
    ASSUME TypeOK, NEW u \in Updates, UNCHANGED <<follows, blocks>>,
           \A d \in Devices : device'[d].user = device[d].user, outbox'[u].author = outbox[u].author
    PROVE  Qualified(u)' = Qualified(u)
BY DEF Qualified

\* The set of steady devices of an enqueued row only shrinks, its flag only falls, and
\* every steady device qualifies (StillSteady).
LEMMA ApiSteady ==
    ASSUME Typed, Steady, ApiStep
    PROVE  /\ \A u \in Updates : steady'[u] \subseteq Qualified(u)'
           /\ \A u \in Updates : outbox[u].state # "absent" =>
                 /\ outbox'[u] = outbox[u]
                 /\ steady'[u] \subseteq steady[u]
                 /\ marked'[u] => marked[u]
<1> USE DEF Typed
<1> DEFINE Goal == /\ \A u \in Updates : steady'[u] \subseteq Qualified(u)'
                   /\ \A u \in Updates : outbox[u].state # "absent" =>
                         /\ outbox'[u] = outbox[u]
                         /\ steady'[u] \subseteq steady[u]
                         /\ marked'[u] => marked[u]
<1>1. ASSUME NEW u \in Updates, NEW a \in Accounts, NEW h \in BOOLEAN, NEW e \in BOOLEAN, Enqueue(u, a, h, e)
      PROVE  Goal
  <2>1. ASSUME NEW x \in Updates \ {u} PROVE Qualified(x)' = Qualified(x) /\ outbox'[x] = outbox[x]
    BY <1>1 DEF Qualified, Enqueue, TypeOK
  <2>2. steady'[u] = Qualified(u)'
    BY <1>1 DEF Enqueue, TypeOK
  <2>3. \A x \in Updates \ {u} : steady'[x] = steady[x] /\ marked'[x] = marked[x]
    BY <1>1 DEF Enqueue, TypeOK
  <2>4. outbox[u].state = "absent"
    BY <1>1 DEF Enqueue
  <2> QED BY <2>1, <2>2, <2>3, <2>4 DEF Steady
<1>2. ASSUME Churn, \A u \in Updates : marked'[u] => marked[u],
             steady' = StillSteady
      PROVE  Goal
  <2>1. outbox' = outbox
    BY <1>2 DEF Churn, dispatch
  <2> QED BY <1>2, <2>1 DEF StillSteady, TypeOK
<1>3. ASSUME Churn, \A u \in Updates : marked'[u] => marked[u], UNCHANGED <<follows, blocks, steady>>,
             \A d \in Devices : device'[d].user = device[d].user
      PROVE  Goal
  <2>1. outbox' = outbox
    BY <1>3 DEF Churn, dispatch
  <2>2. \A u \in Updates : Qualified(u)' = Qualified(u)
    BY <1>3, <2>1, QualifiedFrame
  <2> QED BY <1>3, <2>1, <2>2 DEF Steady
<1>4. ASSUME NEW u \in Updates, Retract(u) PROVE Goal
  <2>1. \A x \in Updates : marked'[x] => marked[x]
    BY <1>4 DEF Retract, TypeOK
  <2> QED BY <1>3, <1>4, <2>1 DEF Retract
<1>5. ASSUME NEW d \in Devices, NEW t \in Tokens, SetDevicePushToken(d, t) PROVE Goal
  <2>1. \A e \in Devices : device'[e].user = device[e].user
    BY <1>5 DEF SetDevicePushToken, TypeOK
  <2> QED BY <1>3, <1>5, <2>1 DEF SetDevicePushToken
<1>6. ASSUME NEW d \in Devices, NEW t \in Tokens, Register(d, t) PROVE Goal
  <2>1. \A e \in Devices : device'[e].user = device[e].user
    BY <1>6 DEF Register, TypeOK
  <2> QED BY <1>3, <1>6, <2>1 DEF Register
<1>7. ASSUME NEW t \in Tokens, TokenDies(t) PROVE Goal
  BY <1>3, <1>7 DEF TokenDies
<1>8. ASSUME NEW a \in Accounts, SetFollow(a) \/ SetBlock(a) PROVE Goal
  BY <1>2, <1>8 DEF SetFollow, SetBlock
<1>9. ASSUME NEW d \in Devices, NEW a \in Accounts, LinkDevice(d, a) \/ UnlinkDevice(d) PROVE Goal
  BY <1>2, <1>9 DEF LinkDevice, UnlinkDevice
<1>10. ASSUME NEW d \in Devices, UnlinkDevice(d) PROVE Goal
  BY <1>2, <1>10 DEF UnlinkDevice
<1> QED BY <1>1, <1>4, <1>5, <1>6, <1>7, <1>8, <1>9, <1>10 DEF ApiStep

\* The api cannot take a steady device's notification away.
LEMMA ApiKeepsSteady ==
    ASSUME Orderly, Steady, StableFollowerNotified, ApiStep
    PROVE  Steady' /\ StableFollowerNotified'
<1> USE DEF Orderly, Typed
<1>1. UNCHANGED <<notifs, worker>>
  BY ApiFrame
<1>2. \A k \in Workers : \A u \in Held(k) : u \in Updates /\ outbox[u].state # "absent"
  BY DEF Locks, Held, TypeOK, Txn
<1>3. \A k \in Workers : \A u \in worker[k].help : u \in Held(k)
  BY DEF Fanout, FanoutOf, Held
<1>4. \A k \in Workers : \A u \in Held(k)' : outbox'[u].eligible /\ marked'[u] => u \in worker'[k].help
  BY <1>1, <1>2, ApiSteady DEF Steady, Held
<1>5. \A k \in Workers : CoveredBy(worker[k])'
  BY <1>1, <1>2, <1>3, ApiSteady DEF Steady, CoveredBy
<1>6. StableFollowerNotified'
  <2>1. ASSUME NEW u \in Updates, outbox'[u].state = "processed" PROVE outbox[u].state # "absent"
    BY <2>1, ApiFrame
  <2> QED BY <1>1, <2>1, ApiSteady DEF StableFollowerNotified, Delivered
<1> QED BY <1>4, <1>5, <1>6, ApiSteady DEF Steady

\* A worker's step keeps every steady device of a begun row notified or next in line
\* (dispatchNeedsHelp: the in-app row is created whatever becomes of the push).
LEMMA CoveredKept ==
    ASSUME Orderly, Steady, NEW k \in Workers, WorkerStep(k) \/ Interrupt(k), NEW v, Becomes(k, v)
    PROVE  CoveredBy(v)
<1> USE DEF Orderly, Typed
<1> DEFINE w == worker[k]
<1>0. w \in Txn /\ FanoutOf(w) /\ CoveredBy(w) /\ v = worker'[k]
  BY DEF TypeOK, Fanout, Steady, Becomes
<1>2. CASE Claim(k)
  <2>1. v.pc = "row" /\ v.done = {}
    BY <1>0, <1>2, ClaimFields DEF Becomes
  <2> QED BY <2>1 DEF CoveredBy, Begun
<1>3. CASE StartRow(k)
  <2>1. PICK u \in w.rows :
                  /\ SameBatch(k, v)
                  /\ w.pc = "row"
                  /\ v.pc = "fanout" /\ v.row = u /\ v.notified = w.notified
                  /\ v.todo = IF u \in w.help THEN Recipients(k, u) ELSE {}
    BY <1>0, <1>3, StartRowFields DEF Becomes
  <2>2. ASSUME NEW x \in v.help, Begun(v, x), NEW d \in steady[x]
        PROVE  \/ [device |-> d, update |-> x] \in v.notified
               \/ x = v.row /\ \E r \in v.todo : r.device = d
    <3>1. CASE x \in w.done
      <4>1. x \in w.help /\ Begun(w, x)
        BY <2>1, <2>2, <3>1 DEF SameBatch, Begun
      <4>2. w.todo = {}
        BY <1>0, <2>1 DEF FanoutOf
      <4> QED BY <1>0, <2>1, <2>2, <4>1, <4>2 DEF CoveredBy
    <3>2. CASE x = v.row
      <4>1. x \in w.help /\ x = u /\ v.todo = Recipients(k, x) /\ x \in Updates
        BY <1>0, <2>1, <2>2, <3>2 DEF SameBatch, Txn
      <4>2. d \in Qualified(x)
        BY <2>2, <4>1 DEF Steady
      <4> DEFINE q == [device |-> d, token |-> IF d \in w.cleared THEN None ELSE device[d].token]
      <4>3. q \in Recipients(k, x) /\ q.device = d
        BY <4>2 DEF Recipients
      <4> HIDE DEF q
      <4> QED BY <3>2, <4>1, <4>3
    <3> QED BY <2>1, <2>2, <3>1, <3>2 DEF Begun, SameBatch
  <2> QED BY <2>2 DEF CoveredBy
<1>4. CASE CreateNotification(k)
  <2>1. PICK r \in w.todo :
                  /\ SameBatch(k, v)
                  /\ w.pc = "fanout"
                  /\ v.row = w.row /\ v.todo = w.todo \ {r}
                  /\ v.notified = w.notified \cup (IF Delivered(r.device, w.row) THEN {} ELSE {NotifOf(k, r)})
                  /\ v.pc \in {"send", "fanout"}
    BY <1>0, <1>4, CreateFields DEF Becomes
  <2>2. ~Delivered(r.device, w.row)
    <3>1. w.row \in w.rows
      BY <2>1 DEF InHand, InRow
    <3> QED BY <3>1 DEF Locks, Held, Visible, Delivered
  <2>3. v.notified = w.notified \cup {[device |-> r.device, update |-> w.row]}
    BY <2>1, <2>2 DEF NotifOf
  <2>4. ASSUME NEW x \in v.help, Begun(v, x), NEW d \in steady[x]
        PROVE  \/ [device |-> d, update |-> x] \in v.notified
               \/ x = v.row /\ \E q \in v.todo : q.device = d
    <3>1. x \in w.help /\ Begun(w, x)
      BY <2>1, <2>4 DEF SameBatch, Begun
    <3>2. \/ [device |-> d, update |-> x] \in w.notified
          \/ x = w.row /\ \E q \in w.todo : q.device = d
      BY <1>0, <2>4, <3>1 DEF CoveredBy
    <3> QED BY <2>1, <2>3, <3>2
  <2> QED BY <2>4 DEF CoveredBy
<1>5. CASE SendAccepted(k) \/ SendFailed(k) \/ SendRejected(k) \/ ClearDevicePushToken(k)
  <2>1. /\ SameBatch(k, v) /\ w.pc \in {"send", "clear"} /\ v.pc \in {"fanout", "clear"}
        /\ v.row = w.row /\ v.todo = w.todo /\ v.notified = w.notified
    <3>1. CASE ClearDevicePushToken(k)
      BY <1>0, <3>1, ClearFields DEF Becomes
    <3>2. CASE ~ClearDevicePushToken(k)
      BY <1>0, <1>5, <3>2, SendFields DEF Becomes
    <3> QED BY <3>1, <3>2
  <2> QED BY <1>0, <2>1 DEF CoveredBy, Begun, SameBatch
<1>6. CASE MarkNotificationOutboxProcessed(k)
  <2>1. /\ w.pc = "fanout" /\ w.todo = {} /\ v.pc = "row"
        /\ v.done = w.done \cup {w.row} /\ v.help = w.help /\ v.notified = w.notified
    BY <1>0, <1>6, MarkFields DEF Becomes
  <2> QED BY <1>0, <2>1 DEF CoveredBy, Begun
<1>7. CASE CommitDispatch(k) \/ DeadlockVictim(k) \/ Interrupt(k)
  <2>1. v = Idle
    BY <1>0, <1>7, EndFields DEF DeadlockVictim, Interrupt, Becomes
  <2> QED BY <2>1 DEF CoveredBy, Idle
<1> QED BY <1>2, <1>3, <1>4, <1>5, <1>6, <1>7 DEF WorkerStep

\* A worker's step keeps the live help marks of its batch in its list.
LEMMA LiveKept ==
    ASSUME Orderly, Steady, NEW k \in Workers, WorkerStep(k) \/ Interrupt(k),
           NEW u \in Held(k)', outbox[u].eligible, marked[u]
    PROVE  u \in worker'[k].help
<1> USE DEF Orderly, Typed
<1>1. ASSUME NEW v, Becomes(k, v), v.rows \cup v.done \subseteq Held(k), v.help = worker[k].help
      PROVE  u \in worker'[k].help
  BY <1>1 DEF Becomes, Held, Steady
<1>2. CASE Claim(k)
  BY <1>2, ClaimFields DEF Becomes, Held, ClaimedHelp
<1>3. CASE MarkNotificationOutboxProcessed(k)
  <2>1. PICK v : /\ Becomes(k, v) /\ worker[k].pc = "fanout"
                 /\ v.rows = worker[k].rows \ {worker[k].row}
                 /\ v.done = worker[k].done \cup {worker[k].row}
                 /\ v.help = worker[k].help
    BY <1>3, MarkFields
  <2>2. worker[k].row \in worker[k].rows
    BY <2>1 DEF InHand, InRow
  <2> QED BY <1>1, <2>1, <2>2 DEF Held
<1>4. CASE StartRow(k) \/ CreateNotification(k) \/ SendAccepted(k) \/ SendFailed(k) \/ SendRejected(k)
              \/ ClearDevicePushToken(k)
  <2>1. PICK v : Becomes(k, v) /\ SameBatch(k, v)
    BY <1>4, StartRowFields, CreateFields, SendFields, ClearFields
  <2> QED BY <1>1, <2>1 DEF SameBatch, Held
<1>5. CASE CommitDispatch(k) \/ DeadlockVictim(k) \/ Interrupt(k)
  <2>1. Becomes(k, Idle)
    BY <1>5, EndFields DEF DeadlockVictim, Interrupt
  <2> QED BY <2>1 DEF Becomes, Held, Idle
<1> QED BY <1>2, <1>3, <1>4, <1>5 DEF WorkerStep

\* Every worker's step leaves some transaction in its place.
LEMMA WorkerBecomes ==
    ASSUME Typed, NEW k \in Workers, WorkerStep(k) \/ Interrupt(k)
    PROVE  \E v : Becomes(k, v)
<1> USE DEF Typed
<1>1. CASE CommitDispatch(k) \/ DeadlockVictim(k) \/ Interrupt(k)
  BY <1>1, EndFields DEF DeadlockVictim, Interrupt
<1>2. CASE MarkNotificationOutboxProcessed(k) \/ Claim(k)
  BY <1>2, MarkFields, ClaimFields
<1> QED BY <1>1, <1>2, StartRowFields, CreateFields, SendFields, ClearFields DEF WorkerStep

\* The commit writes a notification for every steady device of a live help mark.
LEMMA WorkerKeepsSteady ==
    ASSUME Orderly, Steady, StableFollowerNotified, NEW k \in Workers, WorkerStep(k) \/ Interrupt(k)
    PROVE  Steady' /\ StableFollowerNotified'
<1> USE DEF Orderly, Typed
<1>0. PICK v : Becomes(k, v)
  BY WorkerBecomes
<1>1. UNCHANGED <<steady, marked, follows, blocks>> /\ \A d \in Devices : device'[d].user = device[d].user
  <2>1. CASE CommitDispatch(k)
    BY <2>1 DEF CommitDispatch, TypeOK
  <2>2. CASE ~CommitDispatch(k)
    BY <2>2, WorkerFrame DEF api
  <2> QED BY <2>1, <2>2
<1>2. \A u \in Updates : /\ outbox'[u].author = outbox[u].author /\ outbox'[u].eligible = outbox[u].eligible
  <2>1. CASE CommitDispatch(k)
    BY <2>1 DEF CommitDispatch, TypeOK
  <2>2. CASE ~CommitDispatch(k)
    BY <2>2, WorkerFrame
  <2> QED BY <2>1, <2>2
<1>3. \A u \in Updates : steady'[u] \subseteq Qualified(u)'
  BY <1>1, <1>2, QualifiedFrame DEF Steady
<1>4. ASSUME NEW j \in Workers, NEW u \in Held(j)', outbox'[u].eligible, marked'[u]
      PROVE  u \in worker'[j].help
  <2>1. u \in Updates
    BY <1>0 DEF Held, Becomes, Txn
  <2>2. CASE j = k
    BY <1>1, <1>2, <1>4, <2>1, <2>2, LiveKept
  <2>3. CASE j # k
    BY <1>0, <1>1, <1>2, <1>4, <2>1, <2>3 DEF Becomes, Held, Steady
  <2> QED BY <2>2, <2>3
<1>5. ASSUME NEW j \in Workers PROVE CoveredBy(worker[j])'
  <2>1. CoveredBy(v)
    BY <1>0, CoveredKept
  <2>2. CoveredBy(worker'[j])
    BY <1>0, <2>1 DEF Becomes, Steady
  <2> QED BY <1>1, <2>2 DEF CoveredBy
<1>6. StableFollowerNotified'
  <2>1. CASE ~CommitDispatch(k)
    BY <1>1, <2>1, WorkerFrame DEF StableFollowerNotified, Delivered
  <2>2. CASE CommitDispatch(k)
    <3>1. ASSUME NEW u \in Updates, outbox'[u].state = "processed", outbox[u].eligible, marked[u],
                 NEW d \in steady[u]
          PROVE  \E n \in notifs' : n.device = d /\ n.update = u
      <4>1. notifs' = notifs \cup worker[k].notified
        BY <2>2 DEF CommitDispatch
      <4>2. CASE u \in worker[k].done
        <5>1. u \in worker[k].help /\ Begun(worker[k], u)
          BY <3>1, <4>2 DEF Steady, Held, Begun
        <5>2. worker[k].todo = {}
          BY <2>2 DEF CommitDispatch, Fanout, FanoutOf
        <5>3. [device |-> d, update |-> u] \in worker[k].notified
          BY <3>1, <5>1, <5>2 DEF Steady, CoveredBy
        <5> QED BY <4>1, <5>3
      <4>3. CASE u \notin worker[k].done
        <5>1. outbox[u].state = "processed"
          BY <2>2, <3>1, <4>3 DEF CommitDispatch
        <5>2. Delivered(d, u)
          BY <3>1, <5>1 DEF StableFollowerNotified
        <5> QED BY <4>1, <5>2 DEF Delivered
      <4> QED BY <4>2, <4>3
    <3> QED BY <1>1, <1>2, <3>1 DEF StableFollowerNotified, Delivered
  <2> QED BY <2>1, <2>2
<1> QED BY <1>3, <1>4, <1>5, <1>6 DEF Steady

\* Every device that qualified since a notifying mark was enqueued has its in-app
\* notification once the row is processed, through any sends, rejections, rollbacks and
\* retries of any number of workers (dispatchNeedsHelp).
THEOREM SteadyFollowersNotified == Spec => []StableFollowerNotified
<1> DEFINE IInv == Orderly /\ Steady /\ StableFollowerNotified
<1>1. Init => IInv
  BY InitOrderly DEF Init, Steady, StableFollowerNotified, CoveredBy, Held, Idle, Begun
<1>2. IInv /\ [Next]_vars => IInv'
  <2> SUFFICES ASSUME IInv, [Next]_vars PROVE IInv'
    OBVIOUS
  <2>1. Orderly'
    BY NextOrderly
  <2>2. CASE UNCHANGED vars
    BY <2>1, <2>2 DEF vars, dispatch, api, Steady, StableFollowerNotified, Delivered, CoveredBy, Held, Qualified
  <2>3. CASE Next
    BY <2>1, <2>3, ApiKeepsSteady, WorkerKeepsSteady DEF Next
  <2> QED BY <2>2, <2>3
<1>3. IInv => StableFollowerNotified
  OBVIOUS
<1> QED BY <1>1, <1>2, <1>3, PTL DEF Spec

----------------------------------------------------------------------------
(* Refinement *)

\* Steps that touch neither the outbox nor the notifications are invisible.
LEMMA Invisible ==
    ASSUME UNCHANGED <<outbox, notifs>>
    PROVE  UNCHANGED Outbox!ovars
BY DEF Outbox!ovars

\* A commit is one dispatch of the whole batch, or of nothing (Store.WithinTx).
LEMMA CommitImplements ==
    ASSUME Orderly, NEW k \in Workers, CommitDispatch(k)
    PROVE  [Outbox!Next]_(Outbox!ovars)
<1> USE DEF Orderly, Typed
<1> DEFINE batch == worker[k].done
           new == {<<n.device, n.update>> : n \in worker[k].notified}
<1>1. worker[k] \in Txn /\ FanoutOf(worker[k]) /\ worker[k].pc = "row"
  BY DEF TypeOK, Fanout, CommitDispatch
<1>2. \A n \in worker[k].notified : /\ n.device \in Devices /\ n.update \in batch
                                    /\ n.update \in Updates /\ outbox[n.update].eligible
  BY <1>1 DEF FanoutOf, Begun, Txn, Notif, Fanout
<1>3. \A u \in batch : u \in Updates /\ outbox[u].state = "pending"
  BY <1>1 DEF Locks, Held, Txn
<1>4. notifs' = notifs \cup worker[k].notified
  BY DEF CommitDispatch
<1>5. ASSUME NEW u \in Updates
      PROVE  /\ outbox'[u].state = IF u \in batch THEN "processed" ELSE outbox[u].state
             /\ outbox'[u].eligible = outbox[u].eligible
  BY DEF CommitDispatch, TypeOK
<1>6. {<<n.device, n.update>> : n \in notifs'} = {<<n.device, n.update>> : n \in notifs} \cup new
  BY <1>4
<1>7. CASE batch = {}
  <2>1. notifs' = notifs
    BY <1>2, <1>4, <1>7
  <2>2. [u \in Updates |-> outbox'[u].state] = [u \in Updates |-> outbox[u].state]
        /\ [u \in Updates |-> outbox'[u].eligible] = [u \in Updates |-> outbox[u].eligible]
    BY <1>5, <1>7
  <2> QED BY <2>1, <2>2 DEF Outbox!ovars
<1>8. CASE batch # {}
  <2>1. batch \in SUBSET Updates /\ new \in SUBSET (Devices \X batch)
    BY <1>2, <1>3
  <2>2. PICK b, m : b = batch /\ m = new
    OBVIOUS
  <2>3. Outbox!Process(b, m)
    BY <1>2, <1>3, <1>5, <1>6, <1>8, <2>2 DEF Outbox!Process
  <2> QED BY <2>1, <2>2, <2>3 DEF Outbox!Next
<1> QED BY <1>7, <1>8

\* Claims, sends, rejected tokens, crashes and rollbacks of any number of workers are
\* invisible: the detailed dispatch implements the abstract outbox, in which every row is
\* processed once together with its notifications (Store.WithinTx around the batch).
THEOREM DispatchImplementsOutbox == Spec => ImplementsOutbox
<1>1. Init => Outbox!Init
  BY DEF Init, Outbox!Init
<1>2. Orderly /\ [Next]_vars => [Outbox!Next]_(Outbox!ovars)
  <2> SUFFICES ASSUME Orderly, [Next]_vars PROVE [Outbox!Next]_(Outbox!ovars)
    OBVIOUS
  <2>1. ASSUME NEW u \in Updates, NEW a \in Accounts, NEW h \in BOOLEAN, NEW e \in BOOLEAN, Enqueue(u, a, h, e)
        PROVE  Outbox!Next
    <3>1. /\ outbox[u].state = "absent" /\ notifs' = notifs
          /\ outbox'[u].state = "pending" /\ outbox'[u].eligible = e
          /\ \A x \in Updates \ {u} : outbox'[x] = outbox[x]
      BY <2>1 DEF Enqueue, Orderly, Typed, TypeOK
    <3>2. Outbox!Enqueue(u, e)
      BY <3>1 DEF Outbox!Enqueue
    <3> QED BY <3>2 DEF Outbox!Next
  <2>2. CASE UNCHANGED <<outbox, notifs>>
    BY <2>2, Invisible
  <2>3. CASE ApiStep
    BY <2>1, <2>2, <2>3 DEF ApiStep, Retract, SetFollow, SetBlock, LinkDevice, UnlinkDevice,
                            SetDevicePushToken, Register, TokenDies, Churn, dispatch
  <2>4. ASSUME NEW k \in Workers, WorkerStep(k) \/ Interrupt(k) PROVE [Outbox!Next]_(Outbox!ovars)
    BY <2>2, <2>4, WorkerFrame, CommitImplements
  <2> QED BY <2>2, <2>3, <2>4 DEF Next, vars, dispatch
<1> QED BY <1>1, <1>2, InitOrderly, NextOrderly, PTL DEF Spec, ImplementsOutbox, Outbox!Spec

----------------------------------------------------------------------------
(* Row locks and retired tokens *)

\* A locked devices row belongs to an open transaction that has retired its token, or that
\* has just been handed the lock it waited for: whoever waits for the row, a worker or the
\* api, waits for a commit or a rollback that is still to come (ClearDevicePushToken inside
\* WithinTx).
RowLocksLive == \A d \in Devices : \A k \in Workers : devLock[d] = k =>
    d \in worker[k].cleared \/ (worker[k].pc = "clear" /\ worker[k].rec.device = d)

\* What a transaction has retired: rows it still has locked, whose token the provider had
\* rejected; and it handles no device with a token twice.
RetiredBy(k) ==
    /\ \A d \in worker[k].cleared : devLock[d] = k /\ device[d].token \in dead
    /\ \A r \in worker[k].todo : r.token # None => r.device \notin worker[k].cleared
    /\ worker[k].pc \in {"send", "clear"} => worker[k].rec.device \notin worker[k].cleared
    /\ worker[k].pc = "clear" => worker[k].rec.token \in dead

Retired == RowLocksLive /\ \A k \in Workers : RetiredBy(k)

\* The dispatch takes a token off a device only if the provider had rejected that very
\* token: one that the device was given meanwhile, by another request or at another worker's
\* commit, is never lost (the token in ClearDevicePushToken's where clause).
RetiredTokenIsDead ==
    [][\A d \in Devices : churn' = churn /\ device'[d].token # device[d].token
                             => device[d].token \in dead /\ device'[d].token = None]_vars

\* The api waits for a locked row, so it leaves the token of one alone
\* (SetDevicePushToken; a row that Register writes had no token).
LEMMA ApiLeavesLocked ==
    ASSUME TypeOK, ApiStep, NEW d \in Devices, devLock[d] # None, device[d].token \in dead
    PROVE  device'[d].token = device[d].token /\ dead \subseteq dead'
<1>0. device[d] \in Dev /\ device[d].token # None
  BY NoneAssumption DEF TypeOK, Dev
<1>1. CASE UNCHANGED <<device, dead>>
  BY <1>1
<1>2. ASSUME NEW t \in Tokens, TokenDies(t) PROVE UNCHANGED device /\ dead \subseteq dead'
  BY <1>2 DEF TokenDies
<1>3. ASSUME NEW e \in Devices, NEW a \in Accounts \cup {None}, device' = [device EXCEPT ![e].user = a], UNCHANGED dead
      PROVE  device'[d].token = device[d].token /\ dead \subseteq dead'
  BY <1>0, <1>3 DEF TypeOK, Dev
<1>4. ASSUME NEW e \in Devices, NEW t \in Tokens, SetDevicePushToken(e, t)
      PROVE  device'[d].token = device[d].token /\ dead \subseteq dead'
  BY <1>4 DEF SetDevicePushToken
<1>5. ASSUME NEW e \in Devices, NEW t \in Tokens, Register(e, t)
      PROVE  device'[d].token = device[d].token /\ dead \subseteq dead'
  <2>1. e # d
    BY <1>0, <1>5 DEF Register
  <2> QED BY <1>5, <2>1 DEF Register, TypeOK
<1> QED BY <1>1, <1>2, <1>3, <1>4, <1>5
        DEF ApiStep, Enqueue, Retract, SetFollow, SetBlock, LinkDevice, UnlinkDevice

\* A worker's step respects the locks of the others, and keeps its own account of what it
\* has retired.
LEMMA RetiredKept ==
    ASSUME Typed, Retired, NEW k \in Workers, NEW v, Becomes(k, v), UNCHANGED dead,
           \A d \in Devices : devLock[d] \notin {None, k} => devLock'[d] = devLock[d] /\ device'[d] = device[d],
           \A d \in Devices : \A j \in Workers \ {k} : devLock'[d] = j
               => devLock[d] = j \/ (worker[j].pc = "clear" /\ worker[j].rec.device = d),
           \A d \in Devices : devLock'[d] = k => d \in v.cleared \/ (v.pc = "clear" /\ v.rec.device = d),
           \A d \in v.cleared : devLock'[d] = k /\ device'[d].token \in dead,
           \A r \in v.todo : r.token # None => r.device \notin v.cleared,
           v.pc \in {"send", "clear"} => v.rec.device \notin v.cleared,
           v.pc = "clear" => v.rec.token \in dead
    PROVE  Retired'
<1> USE DEF Typed
<1>1. ASSUME NEW j \in Workers PROVE RetiredBy(j)'
  <2>1. CASE j = k
    BY <2>1 DEF Becomes, RetiredBy
  <2>2. CASE j # k
    <3>1. worker'[j] = worker[j] /\ RetiredBy(j) /\ worker[j].cleared \subseteq Devices
      BY <2>2 DEF Becomes, Retired, TypeOK, Txn
    <3>2. \A d \in worker[j].cleared : devLock[d] \notin {None, k}
      BY <2>2, <3>1, NoneAssumption DEF RetiredBy
    <3> QED BY <3>1, <3>2 DEF RetiredBy
  <2> QED BY <2>1, <2>2
<1>2. ASSUME NEW d \in Devices, NEW j \in Workers, devLock'[d] = j
      PROVE  d \in worker'[j].cleared \/ (worker'[j].pc = "clear" /\ worker'[j].rec.device = d)
  BY <1>2 DEF Becomes, Retired, RowLocksLive
<1> QED BY <1>1, <1>2 DEF Retired, RowLocksLive

\* The end of a transaction gives its row locks to those who wait for them, and to nobody else.
LEMMA HandsOver ==
    ASSUME TypeOK, NEW k \in Workers, NEW d \in Devices
    PROVE  /\ devLock[d] # k => Unlocked(k)[d] = devLock[d]
           /\ devLock[d] = k => \/ Unlocked(k)[d] = None
                                \/ /\ Unlocked(k)[d] \in Workers \ {k}
                                   /\ worker[Unlocked(k)[d]].pc = "clear"
                                   /\ worker[Unlocked(k)[d]].rec.device = d
<1> DEFINE waiting == {j \in Workers \ {k} : WaitsFor(j, k) /\ worker[j].rec.device = d}
<1>1. Unlocked(k)[d] = IF devLock[d] # k THEN devLock[d]
                       ELSE IF waiting = {} THEN None ELSE CHOOSE j \in waiting : TRUE
  BY DEF Unlocked
<1>2. waiting # {} => (CHOOSE j \in waiting : TRUE) \in waiting
  OBVIOUS
<1>3. \A j \in waiting : j \in Workers \ {k} /\ worker[j].pc = "clear" /\ worker[j].rec.device = d
  BY DEF WaitsFor
<1> HIDE DEF waiting
<1> QED BY <1>1, <1>2, <1>3

\* Every step keeps the locks live and what is retired rejected.
LEMMA RetiredStep == ASSUME Typed, Fanout, Retired, [Next]_vars PROVE Retired'
<1> USE DEF Typed
<1>1. CASE ApiStep
  <2>1. UNCHANGED <<devLock, worker>>
    BY <1>1, ApiFrame
  <2>2. ASSUME NEW k \in Workers PROVE RetiredBy(k)'
    <3>1. RetiredBy(k) /\ worker[k] \in Txn
      BY DEF Retired, TypeOK
    <3>2. ASSUME NEW d \in worker[k].cleared PROVE device'[d].token \in dead'
      <4>1. d \in Devices /\ devLock[d] # None /\ device[d].token \in dead
        BY <3>1, NoneAssumption DEF RetiredBy, Txn
      <4> QED BY <1>1, <4>1, ApiLeavesLocked
    <3>3. dead \subseteq dead'
      BY <1>1 DEF ApiStep, Enqueue, Retract, SetFollow, SetBlock, LinkDevice, UnlinkDevice, SetDevicePushToken,
                  Register, TokenDies
    <3> QED BY <2>1, <3>1, <3>2, <3>3 DEF RetiredBy
  <2>3. RowLocksLive'
    BY <2>1 DEF Retired, RowLocksLive
  <2> QED BY <2>2, <2>3 DEF Retired
<1>2. CASE UNCHANGED vars
  BY <1>2 DEF vars, dispatch, api, Retired, RowLocksLive, RetiredBy
<1>3. ASSUME NEW k \in Workers, WorkerStep(k) \/ Interrupt(k) PROVE Retired'
  <2> DEFINE w == worker[k]
  <2>0. w \in Txn /\ RetiredBy(k) /\ FanoutOf(w) /\ w.cleared \subseteq Devices
    BY DEF TypeOK, Retired, Fanout, Txn
  <2>1. \A d \in Devices : devLock[d] = k => d \in w.cleared \/ (w.pc = "clear" /\ w.rec.device = d)
    BY DEF Retired, RowLocksLive
  <2>2. ASSUME NEW v, Becomes(k, v), UNCHANGED <<devLock, device, dead>>, w.pc # "clear",
               v.cleared = w.cleared,
               \A r \in v.todo : r.token # None => r.device \notin w.cleared,
               v.pc \in {"send", "clear"} => v.rec.device \notin w.cleared,
               v.pc = "clear" => v.rec.token \in dead
        PROVE  Retired'
    BY <2>0, <2>1, <2>2, RetiredKept DEF RetiredBy
  <2>3. ASSUME Becomes(k, Idle), UNCHANGED dead, devLock' = Unlocked(k),
               \A d \in Devices : devLock[d] # k => device'[d] = device[d]
        PROVE  Retired'
    <3>1. \A d \in Devices : devLock[d] \notin {None, k} => devLock'[d] = devLock[d] /\ device'[d] = device[d]
      BY <2>3, HandsOver
    <3>2. ASSUME NEW d \in Devices, NEW j \in Workers \ {k}, devLock'[d] = j
          PROVE  devLock[d] = j \/ (worker[j].pc = "clear" /\ worker[j].rec.device = d)
      BY <2>3, <3>2, HandsOver, NoneAssumption
    <3>3. \A d \in Devices : devLock'[d] # k
      BY <2>3, HandsOver, NoneAssumption
    <3>4. Idle.cleared = {} /\ Idle.todo = {} /\ Idle.pc = "idle"
      BY DEF Idle
    <3> HIDE DEF w
    <3> QED BY <2>3, <3>1, <3>2, <3>3, <3>4, RetiredKept
  <2>4. CASE Claim(k)
    <3>1. PICK v : Becomes(k, v) /\ v.pc = "row" /\ v.todo = {} /\ v.cleared = {}
      BY <2>4, ClaimFields
    <3>2. w.pc = "idle" /\ UNCHANGED <<devLock, device, dead>>
      BY <2>4 DEF Claim, api
    <3>3. w.cleared = {}
      BY <3>2 DEF Locks, Idle
    <3> QED BY <2>2, <3>1, <3>2, <3>3
  <2>5. CASE StartRow(k)
    <3>1. PICK v : \E u \in w.rows : /\ Becomes(k, v) /\ w.pc = "row" /\ v.pc = "fanout" /\ v.cleared = w.cleared
                                     /\ v.todo = IF u \in w.help THEN Recipients(k, u) ELSE {}
      BY <2>5, StartRowFields
    <3>2. \A r \in v.todo : r.token # None => r.device \notin w.cleared
      BY <3>1 DEF Recipients
    <3>3. UNCHANGED <<devLock, device, dead>>
      BY <2>5 DEF StartRow, api
    <3> QED BY <2>2, <3>1, <3>2, <3>3
  <2>6. CASE CreateNotification(k)
    <3>1. PICK v : \E r \in w.todo :
                     /\ Becomes(k, v) /\ w.pc = "fanout" /\ v.todo = w.todo \ {r} /\ v.rec = r
                     /\ v.cleared = w.cleared
                     /\ v.pc = IF ~Delivered(r.device, w.row) /\ r.token # None THEN "send" ELSE "fanout"
      BY <2>6, CreateFields
    <3>2. UNCHANGED <<devLock, device, dead>>
      BY <2>6 DEF CreateNotification, api
    <3> QED BY <2>0, <2>2, <3>1, <3>2 DEF RetiredBy
  <2>7. CASE SendAccepted(k) \/ SendFailed(k) \/ SendRejected(k)
    <3>1. PICK v : /\ Becomes(k, v) /\ w.pc = "send" /\ v.todo = w.todo /\ v.rec = w.rec /\ v.cleared = w.cleared
                   /\ v.pc = "clear" => w.rec.token \in dead
      BY <2>7, SendFields
    <3>2. UNCHANGED <<devLock, device, dead>>
      BY <2>7 DEF SendAccepted, SendFailed, SendRejected, api
    <3> QED BY <2>0, <2>2, <3>1, <3>2 DEF RetiredBy
  <2>8. CASE MarkNotificationOutboxProcessed(k)
    <3>1. PICK v : Becomes(k, v) /\ w.pc = "fanout" /\ v.pc = "row" /\ v.todo = {} /\ v.cleared = w.cleared
      BY <2>8, MarkFields
    <3>2. UNCHANGED <<devLock, device, dead>>
      BY <2>8 DEF MarkNotificationOutboxProcessed, api
    <3> QED BY <2>2, <3>1, <3>2
  <2>9. CASE ClearDevicePushToken(k)
    <3> DEFINE e == w.rec.device
    <3>1. PICK v : /\ Becomes(k, v) /\ w.pc = "clear" /\ v.pc = "fanout" /\ v.todo = w.todo
                   /\ v.cleared = w.cleared \cup (IF Retires(k) THEN {e} ELSE {})
      BY <2>9, ClearFields
    <3>2. UNCHANGED <<device, dead>>
      BY <2>9 DEF ClearDevicePushToken, api
    <3>3. /\ e \in Devices /\ e \notin w.cleared /\ w.rec.token \in dead
          /\ \A r \in w.todo : r.device # e
      BY <2>0, <3>1 DEF InHand, Rec, RetiredBy, FanoutOf
    <3>4. /\ devLock[e] \in {None, k}
          /\ devLock' = [devLock EXCEPT ![e] = IF Retires(k) THEN k ELSE None]
          /\ Retires(k) <=> device[e].token = w.rec.token
      BY <2>9 DEF ClearDevicePushToken, Retires
    <3>5. devLock'[e] = (IF Retires(k) THEN k ELSE None) /\ \A d \in Devices \ {e} : devLock'[d] = devLock[d]
      BY <3>3, <3>4 DEF TypeOK
    <3> HIDE DEF e
    <3>6. \A d \in v.cleared : devLock'[d] = k /\ device'[d].token \in dead
      BY <2>0, <3>1, <3>2, <3>3, <3>4, <3>5 DEF RetiredBy
    <3>7. \A d \in Devices : devLock'[d] = k => d \in v.cleared
      BY <2>1, <3>1, <3>5, NoneAssumption DEF e
    <3>8. \A r \in v.todo : r.token # None => r.device \notin v.cleared
      BY <2>0, <3>1, <3>3 DEF RetiredBy
    <3>9. /\ \A d \in Devices : devLock[d] \notin {None, k} => devLock'[d] = devLock[d] /\ device'[d] = device[d]
          /\ \A d \in Devices : \A j \in Workers \ {k} : devLock'[d] = j => devLock[d] = j
      BY <3>2, <3>4, <3>5, NoneAssumption
    <3> QED BY <3>1, <3>2, <3>6, <3>7, <3>8, <3>9, RetiredKept
  <2>10. CASE CommitDispatch(k)
    <3>1. Becomes(k, Idle) /\ UNCHANGED dead /\ devLock' = Unlocked(k)
      BY <2>10, EndFields DEF CommitDispatch
    <3>2. \A d \in Devices : devLock[d] # k => device'[d] = device[d]
      BY <2>0, <2>10 DEF CommitDispatch, RetiredBy
    <3> QED BY <2>3, <3>1, <3>2
  <2>11. CASE DeadlockVictim(k) \/ Interrupt(k)
    <3>1. Becomes(k, Idle) /\ UNCHANGED <<device, dead>> /\ devLock' = Unlocked(k)
      BY <2>11, EndFields DEF DeadlockVictim, Interrupt, Abort, api
    <3> QED BY <2>3, <3>1
  <2> QED BY <1>3, <2>4, <2>5, <2>6, <2>7, <2>8, <2>9, <2>10, <2>11 DEF WorkerStep
<1> QED BY <1>1, <1>2, <1>3 DEF Next

\* Retired holds initially.
LEMMA InitRetired == Init => Retired
BY NoneAssumption DEF Init, Retired, RowLocksLive, RetiredBy, Idle

\* Nobody waits for a devices row whose transaction has ended, for any number of workers
\* and however their commits, rollbacks and deadlocks fall (ClearDevicePushToken, WithinTx).
THEOREM LocksEndWithTransactions == Spec => []RowLocksLive
<1>1. Orderly => Typed /\ Fanout
  BY DEF Orderly
<1>2. Retired => RowLocksLive
  BY DEF Retired
<1>3. Orderly /\ Retired /\ [Next]_vars => Retired'
  BY <1>1, RetiredStep
<1> QED BY <1>2, <1>3, InitOrderly, NextOrderly, InitRetired, PTL DEF Spec

\* The dispatch never takes off a device a token the provider did not reject, however late
\* it learns of the rejection and whatever the device, the api and the other workers did in
\* between (ClearDevicePushToken).
THEOREM LiveTokensKept == Spec => RetiredTokenIsDead
<1>1. ASSUME Orderly, Retired, [Next]_vars
      PROVE  [\A d \in Devices : churn' = churn /\ device'[d].token # device[d].token
                                  => device[d].token \in dead /\ device'[d].token = None]_vars
  <2> USE DEF Orderly, Typed
  <2> SUFFICES ASSUME Next, NEW d \in Devices, churn' = churn, device'[d].token # device[d].token
               PROVE  device[d].token \in dead /\ device'[d].token = None
    BY <1>1
  <2>1. ~Churn
    BY <1>1 DEF Churn, TypeOK
  <2>2. ~ApiStep
    BY <2>1 DEF ApiStep, Enqueue, Retract, SetFollow, SetBlock, LinkDevice, UnlinkDevice, SetDevicePushToken,
                Register, TokenDies
  <2>3. PICK k \in Workers : CommitDispatch(k)
    BY <2>2, WorkerFrame DEF Next, api
  <2>4. d \in worker[k].cleared /\ device'[d] = [device[d] EXCEPT !.token = None]
    BY <2>3 DEF CommitDispatch
  <2>5. device'[d].token = None
    BY <2>4 DEF TypeOK
  <2> QED BY <1>1, <2>4, <2>5 DEF Retired, RetiredBy
<1>2. Orderly => Typed /\ Fanout
  BY DEF Orderly
<1>3. Orderly /\ Retired /\ [Next]_vars => Retired'
  BY <1>2, RetiredStep
<1> QED BY <1>1, <1>3, InitOrderly, NextOrderly, InitRetired, PTL DEF Spec, RetiredTokenIsDead

----------------------------------------------------------------------------
(* A processed row is over *)

\* The notifications of an update.
NotifsOf(u) == {n \in notifs : n.update = u}

\* A processed outbox row and the notifications it made are never touched again: nobody is
\* told of an update late, a second time, or by a worker that was slow
\* (ClaimNotificationOutboxBatch takes pending rows only and keeps them locked).
ProcessedIsFinal ==
    [][\A u \in Updates : outbox[u].state = "processed"
                              => outbox'[u] = outbox[u] /\ NotifsOf(u)' = NotifsOf(u)]_vars

\* Processing a row is final, for any number of workers (DispatchPending).
THEOREM ProcessedOnce == Spec => ProcessedIsFinal
<1>1. ASSUME Orderly, [Next]_vars
      PROVE  [\A u \in Updates : outbox[u].state = "processed"
                                   => outbox'[u] = outbox[u] /\ NotifsOf(u)' = NotifsOf(u)]_vars
  <2> USE DEF Orderly, Typed
  <2> SUFFICES ASSUME Next, NEW u \in Updates, outbox[u].state = "processed"
               PROVE  outbox'[u] = outbox[u] /\ NotifsOf(u)' = NotifsOf(u)
    BY <1>1
  <2>1. CASE ApiStep
    BY <1>1, <2>1, ApiFrame DEF NotifsOf
  <2>2. ASSUME NEW k \in Workers, CommitDispatch(k) PROVE outbox'[u] = outbox[u] /\ NotifsOf(u)' = NotifsOf(u)
    <3>1. u \notin worker[k].done /\ FanoutOf(worker[k]) /\ worker[k].pc = "row"
      BY <1>1, <2>2 DEF Locks, Held, Fanout, CommitDispatch
    <3>2. \A n \in worker[k].notified : n.update # u
      BY <3>1 DEF FanoutOf, Begun
    <3> QED BY <2>2, <3>1, <3>2 DEF CommitDispatch, NotifsOf
  <2> QED BY <2>1, <2>2, WorkerFrame DEF Next, NotifsOf
<1> QED BY <1>1, InitOrderly, NextOrderly, PTL DEF Spec, ProcessedIsFinal

=============================================================================
