------------------------- MODULE HelpUpdatesProofs -------------------------
(***************************************************************************)
(* Proofs about HelpUpdates for every set of updates, users, cats and keys *)
(* and every expiry: type correctness; a help mark which notifies was made *)
(* when no earlier unexpired mark of its cat was visible; freshness and    *)
(* the alert follow the newest row; retries of a key agree on one update.  *)
(***************************************************************************)
EXTENDS HelpUpdates, TLAPS

\* The row lock of a cat is held exactly by the transaction between its
\* UpdateCatLastUpdateAt and its end.
LockInv == \A u \in Updates :
              upd[u].stage \in {"locked", "enqueued"} =>
                 upd[u].cat \in Cats /\ catLock[upd[u].cat] = u

\* Rows of open transactions and requests have a cat; commits are numbered.
RowInv == \A u \in Updates :
             /\ upd[u].stage \in InTx \cup {"accepted", "live"} => upd[u].cat \in Cats
             /\ Live(u) => upd[u].pos <= commits

\* A visible mark of u's cat that would have silenced u.
Silences(p, u) == /\ HelpMark(p) /\ upd[p].eligible
                  /\ upd[p].cat = upd[u].cat
                  /\ p # u /\ Before(p, u) /\ ExpiresAt(p) > upd[u].created

\* A frozen verdict stays true to the marks committed before it: between the
\* verdict and the commit the row lock keeps every other transaction of the cat
\* from committing, and afterwards a silencing mark can only commit later.
VerdictInv == \A p, u \in Updates :
    /\ upd[u].stage = "enqueued" /\ upd[u].eligible => ~Silences(p, u)
    /\ Live(u) /\ upd[u].eligible /\ Silences(p, u) => upd[u].pos < upd[p].pos

IInv == TypeOK /\ LockInv /\ RowInv /\ VerdictInv

----------------------------------------------------------------------------
\* The row no request has touched is a row.
LEMMA NoRowType == NoRow \in Row
BY DEF NoRow, Row, Stage

\* Replacing one row by a row keeps the table a table.
LEMMA RowStep ==
    ASSUME TypeOK, NEW u \in Updates, NEW r \in Row, upd' = [upd EXCEPT ![u] = r]
    PROVE  upd' \in [Updates -> Row]
BY DEF TypeOK

\* Every action of the write side keeps the typing of the tables.
LEMMA TypeStep == TypeOK /\ [Next]_vars => TypeOK'
<1> SUFFICES ASSUME TypeOK, [Next]_vars PROVE TypeOK'
    OBVIOUS
<1>0. ASSUME NEW u \in Updates PROVE upd[u] \in Row
    BY DEF TypeOK
<1>n. seqs + 1 \in Nat /\ commits + 1 \in Nat
    BY DEF TypeOK
<1>1. CASE Tick
    BY <1>1 DEF Tick, TypeOK
<1>2. ASSUME NEW u \in Updates, NEW c \in Cats, NEW a \in Users, NEW k \in Keys \cup {None},
             NEW h \in BOOLEAN, NEW s \in BOOLEAN, AcceptOrdinaryUpdate(u, c, a, k, h, s)
      PROVE TypeOK'
  <2> DEFINE r == [NoRow EXCEPT !.stage = "accepted", !.cat = c, !.author = a, !.key = k,
                                !.help = h, !.statuses = s, !.created = now]
  <2>1. r \in Row
      BY NoRowType DEF TypeOK, Row, Stage
  <2> QED BY <1>2, <2>1, RowStep DEF AcceptOrdinaryUpdate, TypeOK
<1>3. ASSUME NEW u \in Updates, NEW c \in Cats, NEW a \in Users, AcceptNeedsHelpUpdate(u, c, a)
      PROVE TypeOK'
  <2> DEFINE r == [NoRow EXCEPT !.stage = "accepted", !.cat = c, !.author = a,
                                !.help = TRUE, !.created = now]
  <2>1. r \in Row
      BY NoRowType DEF TypeOK, Row, Stage
  <2> QED BY <1>3, <2>1, RowStep DEF AcceptNeedsHelpUpdate, TypeOK
<1>4. ASSUME NEW u \in Updates, NEW a \in Users, NEW k \in Keys, ReplayExisting(u, a, k)
      PROVE TypeOK'
  <2> PICK p \in SameRequest(a, k) :
          upd' = [upd EXCEPT ![u] = [NoRow EXCEPT !.stage = "replayed", !.author = a,
                                                  !.key = k, !.result = p]]
      BY <1>4 DEF ReplayExisting
  <2> DEFINE r == [NoRow EXCEPT !.stage = "replayed", !.author = a, !.key = k, !.result = p]
  <2>1. r \in Row
      BY NoRowType DEF SameRequest, Row, Stage
  <2> QED BY <1>4, <2>1, RowStep DEF ReplayExisting, TypeOK
<1>5. ASSUME NEW u \in Updates, InsertUpdate(u) PROVE TypeOK'
  <2>1. [upd[u] EXCEPT !.stage = "inserted", !.seq = seqs + 1] \in Row
      BY <1>0, <1>n DEF Row, Stage
  <2> QED BY <1>5, <2>1 DEF InsertUpdate, TypeOK
<1>6. ASSUME NEW u \in Updates, InsertConflict(u) PROVE TypeOK'
  <2> PICK p \in SameRequest(upd[u].author, upd[u].key) :
          upd' = [upd EXCEPT ![u] = [@ EXCEPT !.stage = "replayed", !.result = p]]
      BY <1>6 DEF InsertConflict
  <2> DEFINE r == [upd[u] EXCEPT !.stage = "replayed", !.result = p]
  <2>1. r \in Row
      BY <1>0, ZenonT(60) DEF SameRequest, Row, Stage
  <2>2. upd' = [upd EXCEPT ![u] = r]
      OBVIOUS
  <2> QED BY <1>6, <1>n, <2>1, <2>2, RowStep DEF InsertConflict, TypeOK
<1>7. ASSUME NEW u \in Updates, UpdateCatLastUpdateAt(u) PROVE TypeOK'
  <2>1. [upd[u] EXCEPT !.stage = "locked"] \in Row
      BY <1>0 DEF Row, Stage
  <2> QED BY <1>7, <2>1 DEF UpdateCatLastUpdateAt, TypeOK
<1>8. ASSUME NEW u \in Updates, CreateNotificationOutbox(u) PROVE TypeOK'
  <2> DEFINE e == EligibleVerdict(u)
  <2>1. e \in BOOLEAN
      BY DEF EligibleVerdict
  <2>2. [upd[u] EXCEPT !.stage = "enqueued", !.eligible = e] \in Row
      BY <1>0, <2>1, ZenonT(60) DEF Row, Stage
  <2> QED BY <1>8, <2>2 DEF CreateNotificationOutbox, TypeOK
<1>9. ASSUME NEW u \in Updates, CommitUpdate(u) PROVE TypeOK'
  <2>1. [upd[u] EXCEPT !.stage = "live", !.pos = commits + 1, !.result = u] \in Row
      BY <1>0, <1>n, ZenonT(60) DEF Row, Stage
  <2>2. upd[u].created \in Nat
      BY <1>0 DEF Row
  <2>3. lastUpdateAt' \in [Cats -> Nat]
      BY <1>9, <2>2 DEF CommitUpdate, Freshest, TypeOK
  <2>4. upd' \in [Updates -> Row]
      BY <1>9, <2>1 DEF CommitUpdate, TypeOK
  <2> QED BY <1>9, <1>n, <2>3, <2>4 DEF CommitUpdate, TypeOK
<1>10. ASSUME NEW u \in Updates, RollbackUpdate(u) PROVE TypeOK'
  <2>1. [upd[u] EXCEPT !.stage = "failed"] \in Row
      BY <1>0 DEF Row, Stage
  <2> QED BY <1>10, <2>1 DEF RollbackUpdate, TypeOK
<1>11. ASSUME NEW u \in Updates, NEW clear \in BOOLEAN, NEW replace \in {"keep", "empty", "set"},
              CorrectOwnUpdate(u, clear, replace)
       PROVE TypeOK'
  <2> DEFINE s == StatusesAfter(u, replace)
             h == upd[u].help /\ ~clear
  <2>1. s \in BOOLEAN /\ h \in BOOLEAN
      BY <1>0 DEF Row, StatusesAfter
  <2>2. [upd[u] EXCEPT !.help = h, !.statuses = s] \in Row
      BY <1>0, <2>1, ZenonT(60) DEF Row
  <2>3. upd' = [upd EXCEPT ![u] = [upd[u] EXCEPT !.help = h, !.statuses = s]]
      BY <1>11 DEF CorrectOwnUpdate
  <2> QED BY <1>11, <2>2, <2>3, RowStep DEF CorrectOwnUpdate, TypeOK
<1>12. ASSUME NEW u \in Updates, DeleteOwnUpdate(u) PROVE TypeOK'
  <2>1. [upd[u] EXCEPT !.deleted = TRUE] \in Row
      BY <1>0 DEF Row
  <2> QED BY <1>12, <2>1 DEF DeleteOwnUpdate, TypeOK
<1>13. ASSUME NEW c \in Cats, DeleteCat(c) PROVE TypeOK'
    BY <1>13 DEF DeleteCat, TypeOK
<1>14. CASE UNCHANGED vars
    BY <1>14 DEF vars, TypeOK
<1> QED
    BY <1>1, <1>2, <1>3, <1>4, <1>5, <1>6, <1>7, <1>8, <1>9, <1>10, <1>11, <1>12, <1>13, <1>14
    DEF Next

\* The tables of updates, cats and locks keep their types through every
\* interleaving of requests.
THEOREM TypeCorrect == Spec => []TypeOK
<1>1. Init => TypeOK
    BY TimeAssumption, NoRowType DEF Init, TypeOK
<1> QED
    BY <1>1, TypeStep, PTL DEF Spec

----------------------------------------------------------------------------
\* A step which neither freezes a verdict nor commits, and which leaves what
\* VerdictInv reads of the rows that have one, keeps VerdictInv.
LEMMA VerdictFrame ==
    ASSUME VerdictInv,
           \A v \in Updates : upd'[v].stage \in {"enqueued", "live"} =>
              /\ upd'[v].stage = upd[v].stage
              /\ upd'[v].cat = upd[v].cat
              /\ upd'[v].created = upd[v].created
              /\ upd'[v].seq = upd[v].seq
              /\ upd'[v].pos = upd[v].pos
              /\ upd'[v].eligible = upd[v].eligible
              /\ HelpMark(v)' => HelpMark(v)
    PROVE  VerdictInv'
<1> SUFFICES ASSUME NEW p \in Updates, NEW u \in Updates
             PROVE  /\ upd'[u].stage = "enqueued" /\ upd'[u].eligible => ~Silences(p, u)'
                    /\ Live(u)' /\ upd'[u].eligible /\ Silences(p, u)' => upd'[u].pos < upd'[p].pos
    BY DEF VerdictInv
<1>1. ASSUME upd'[u].stage \in {"enqueued", "live"}, Silences(p, u)' PROVE Silences(p, u)
  <2>1. upd'[p].stage = "live" /\ HelpMark(p)
      BY <1>1 DEF Silences, HelpMark, Live
  <2> QED BY <1>1, <2>1 DEF Silences, Before, ExpiresAt
<1>2. ASSUME Silences(p, u)' PROVE upd'[p].stage = "live"
    BY <1>2 DEF Silences, HelpMark, Live
<1> QED BY <1>1, <1>2 DEF VerdictInv, Live

\* Init establishes the inductive invariant: no request, no lock.
LEMMA IInvInit == Init => IInv
<1> SUFFICES ASSUME Init PROVE IInv
    OBVIOUS
<1>1. TypeOK
    BY TimeAssumption, NoRowType DEF Init, TypeOK
<1>2. \A u \in Updates : upd[u].stage = "none"
    BY DEF Init, NoRow
<1> QED BY <1>1, <1>2 DEF IInv, LockInv, RowInv, VerdictInv, Live, InTx

\* Every action keeps the inductive invariant.
LEMMA IInvStep == IInv /\ [Next]_vars => IInv'
<1> SUFFICES ASSUME IInv, [Next]_vars PROVE IInv'
    OBVIOUS
<1> USE DEF IInv
<1>t. TypeOK'
    BY TypeStep
<1>0. ASSUME NEW u \in Updates PROVE upd[u] \in Row
    BY DEF TypeOK
<1>c. commits \in Nat /\ DOMAIN upd = Updates /\ DOMAIN catLock = Cats
    BY DEF TypeOK
<1>1. CASE UNCHANGED <<upd, catLock, commits>>
    BY <1>t, <1>1 DEF LockInv, RowInv, VerdictInv, Silences, HelpMark, Live, Before, ExpiresAt
<1>2. ASSUME NEW u \in Updates, NEW c \in Cats, NEW a \in Users, NEW k \in Keys \cup {None},
             NEW h \in BOOLEAN, NEW s \in BOOLEAN,
             \/ AcceptOrdinaryUpdate(u, c, a, k, h, s)
             \/ AcceptNeedsHelpUpdate(u, c, a)
      PROVE IInv'
  <2>1. upd'[u].stage = "accepted" /\ upd'[u].cat = c /\ UNCHANGED <<catLock, commits>>
      BY <1>2, <1>c, ZenonT(60) DEF AcceptOrdinaryUpdate, AcceptNeedsHelpUpdate, NoRow
  <2>2. \A v \in Updates : v # u => upd'[v] = upd[v]
      BY <1>2, <1>c DEF AcceptOrdinaryUpdate, AcceptNeedsHelpUpdate
  <2>3. VerdictInv'
      BY <2>1, <2>2, VerdictFrame DEF HelpMark, Live
  <2> QED BY <1>t, <2>1, <2>2, <2>3 DEF LockInv, RowInv, Live, InTx
<1>3. ASSUME NEW u \in Updates,
             \/ \E a \in Users, k \in Keys : ReplayExisting(u, a, k)
             \/ InsertConflict(u)
      PROVE IInv'
  <2>a. ASSUME NEW a \in Users, NEW k \in Keys, ReplayExisting(u, a, k)
        PROVE  upd'[u].stage = "replayed" /\ UNCHANGED <<catLock, commits>>
      BY <2>a, <1>c DEF ReplayExisting, NoRow
  <2>b. ASSUME InsertConflict(u)
        PROVE  upd'[u].stage = "replayed" /\ UNCHANGED <<catLock, commits>>
      BY <2>b, <1>0, <1>c DEF InsertConflict, Row
  <2>1. upd'[u].stage = "replayed" /\ UNCHANGED <<catLock, commits>>
      BY <1>3, <2>a, <2>b
  <2>2. \A v \in Updates : v # u => upd'[v] = upd[v]
      BY <1>3, <1>c DEF ReplayExisting, InsertConflict
  <2>3. VerdictInv'
      BY <2>1, <2>2, VerdictFrame DEF HelpMark, Live
  <2> QED BY <1>t, <2>1, <2>2, <2>3 DEF LockInv, RowInv, Live, InTx
<1>4. ASSUME NEW u \in Updates, InsertUpdate(u) PROVE IInv'
  <2>1. /\ upd[u].stage = "accepted" /\ upd'[u].stage = "inserted"
        /\ upd'[u].cat = upd[u].cat /\ UNCHANGED <<catLock, commits>>
      BY <1>4, <1>0, <1>c DEF InsertUpdate, Row
  <2>2. \A v \in Updates : v # u => upd'[v] = upd[v]
      BY <1>4, <1>c DEF InsertUpdate
  <2>3. VerdictInv'
      BY <2>1, <2>2, VerdictFrame DEF HelpMark, Live
  <2> QED BY <1>t, <2>1, <2>2, <2>3 DEF LockInv, RowInv, Live, InTx
<1>5. ASSUME NEW u \in Updates, UpdateCatLastUpdateAt(u) PROVE IInv'
  <2>1. /\ upd[u].stage = "inserted" /\ upd'[u].stage = "locked"
        /\ upd'[u].cat = upd[u].cat /\ commits' = commits
        /\ catLock[upd[u].cat] = None /\ catLock' = [catLock EXCEPT ![upd[u].cat] = u]
      BY <1>5, <1>0, <1>c DEF UpdateCatLastUpdateAt, Row
  <2>2. \A v \in Updates : v # u => upd'[v] = upd[v]
      BY <1>5, <1>c DEF UpdateCatLastUpdateAt
  <2>3. VerdictInv'
      BY <2>1, <2>2, VerdictFrame DEF HelpMark, Live
  <2>4. LockInv'
      BY <2>1, <2>2, <1>c, NoneAssumption DEF LockInv, RowInv, InTx
  <2>5. RowInv'
      BY <2>1, <2>2 DEF RowInv, Live, InTx
  <2> QED BY <1>t, <2>3, <2>4, <2>5
<1>6. ASSUME NEW u \in Updates, CreateNotificationOutbox(u) PROVE IInv'
  <2>1. /\ upd[u].stage = "locked" /\ upd'[u].stage = "enqueued"
        /\ upd'[u].cat = upd[u].cat /\ upd'[u].created = upd[u].created
        /\ upd'[u].seq = upd[u].seq
        /\ upd'[u].eligible = EligibleVerdict(u)
        /\ UNCHANGED <<catLock, commits>>
      BY <1>6, <1>0, <1>c DEF CreateNotificationOutbox, Row
  <2>2. \A v \in Updates : v # u => upd'[v] = upd[v]
      BY <1>6, <1>c DEF CreateNotificationOutbox
  <2>3. VerdictInv'
    <3> SUFFICES ASSUME NEW p \in Updates, NEW x \in Updates
                 PROVE  /\ upd'[x].stage = "enqueued" /\ upd'[x].eligible => ~Silences(p, x)'
                        /\ Live(x)' /\ upd'[x].eligible /\ Silences(p, x)'
                              => upd'[x].pos < upd'[p].pos
        BY DEF VerdictInv
    <3>1. Silences(p, x)' => p # u /\ Silences(p, x)
        BY <2>1, <2>2 DEF Silences, HelpMark, Live, Before, ExpiresAt
    <3>2. CASE x = u
        BY <3>1, <3>2, <2>1 DEF Live, EligibleVerdict, Silences
    <3>3. CASE x # u
        BY <3>1, <3>3, <2>2 DEF Live, VerdictInv
    <3> QED BY <3>2, <3>3
  <2> QED BY <1>t, <2>1, <2>2, <2>3 DEF LockInv, RowInv, Live, InTx
<1>7. ASSUME NEW u \in Updates, CommitUpdate(u) PROVE IInv'
  <2>1. /\ upd[u].stage = "enqueued" /\ upd'[u].stage = "live"
        /\ upd'[u].cat = upd[u].cat /\ upd'[u].created = upd[u].created
        /\ upd'[u].seq = upd[u].seq /\ upd'[u].eligible = upd[u].eligible
        /\ upd'[u].pos = commits + 1 /\ commits' = commits + 1
        /\ catLock' = [catLock EXCEPT ![upd[u].cat] = None]
      BY <1>7, <1>0, <1>c DEF CommitUpdate, Row
  <2>2. \A v \in Updates : v # u => upd'[v] = upd[v]
      BY <1>7, <1>c DEF CommitUpdate
  <2>n. \A v \in Updates : upd[v].pos \in Nat
      BY <1>0 DEF Row
  <2>3. VerdictInv'
    <3> SUFFICES ASSUME NEW p \in Updates, NEW x \in Updates
                 PROVE  /\ upd'[x].stage = "enqueued" /\ upd'[x].eligible => ~Silences(p, x)'
                        /\ Live(x)' /\ upd'[x].eligible /\ Silences(p, x)'
                              => upd'[x].pos < upd'[p].pos
        BY DEF VerdictInv
    <3>1. p # u /\ Silences(p, x)' => Silences(p, x)
        BY <2>1, <2>2 DEF Silences, HelpMark, Live, Before, ExpiresAt
    <3>2. CASE x = u
        BY <3>1, <3>2, <2>1 DEF Live, VerdictInv, Silences
    <3>3. CASE x # u /\ p # u
        BY <3>1, <3>3, <2>2 DEF Live, VerdictInv
    <3>4. CASE x # u /\ p = u
      <4>1. upd'[x].stage # "enqueued" \/ upd'[x].cat # upd'[u].cat
          BY <3>4, <2>1, <2>2 DEF LockInv
      <4>2. Live(x)' => upd'[x].pos < upd'[u].pos
          BY <3>4, <2>1, <2>2, <2>n, <1>c DEF RowInv, Live
      <4> QED BY <3>4, <4>1, <4>2 DEF Silences
    <3> QED BY <3>2, <3>3, <3>4
  <2>4. LockInv'
      BY <2>1, <2>2, <1>c DEF LockInv
  <2>5. RowInv'
      BY <2>1, <2>2, <2>n, <1>c DEF RowInv, Live, InTx
  <2> QED BY <1>t, <2>3, <2>4, <2>5
<1>8. ASSUME NEW u \in Updates, RollbackUpdate(u) PROVE IInv'
  <2>1. /\ upd'[u].stage = "failed" /\ commits' = commits
        /\ catLock' = [c \in Cats |-> IF catLock[c] = u THEN None ELSE catLock[c]]
      BY <1>8, <1>0, <1>c DEF RollbackUpdate, Row
  <2>2. \A v \in Updates : v # u => upd'[v] = upd[v]
      BY <1>8, <1>c DEF RollbackUpdate
  <2>3. VerdictInv'
      BY <2>1, <2>2, VerdictFrame DEF HelpMark, Live
  <2>4. LockInv'
      BY <2>1, <2>2, <1>c DEF LockInv
  <2>5. RowInv'
      BY <2>1, <2>2 DEF RowInv, Live, InTx
  <2> QED BY <1>t, <2>3, <2>4, <2>5
<1>9. ASSUME NEW u \in Updates,
             \/ \E clear \in BOOLEAN, replace \in {"keep", "empty", "set"} :
                   CorrectOwnUpdate(u, clear, replace)
             \/ DeleteOwnUpdate(u)
      PROVE IInv'
  <2> DEFINE Kept == /\ upd[u].stage = "live" /\ upd'[u].stage = "live"
                     /\ upd'[u].cat = upd[u].cat /\ upd'[u].created = upd[u].created
                     /\ upd'[u].seq = upd[u].seq /\ upd'[u].pos = upd[u].pos
                     /\ upd'[u].eligible = upd[u].eligible
                     /\ UNCHANGED <<catLock, commits>>
                     /\ upd'[u].help => upd[u].help
                     /\ upd[u].deleted => upd'[u].deleted
  <2>a. ASSUME NEW clear \in BOOLEAN, NEW replace \in {"keep", "empty", "set"},
               CorrectOwnUpdate(u, clear, replace)
        PROVE  Kept
      BY <2>a, <1>0, <1>c DEF CorrectOwnUpdate, Correctable, Live, Row
  <2>b. ASSUME DeleteOwnUpdate(u) PROVE Kept
      BY <2>b, <1>0, <1>c DEF DeleteOwnUpdate, Correctable, Live, Row
  <2>1. Kept
      BY <1>9, <2>a, <2>b
  <2>3. \A v \in Updates : v # u => upd'[v] = upd[v]
      BY <1>9, <1>c DEF CorrectOwnUpdate, DeleteOwnUpdate
  <2>4. VerdictInv'
      BY <2>1, <2>3, VerdictFrame DEF HelpMark, Live
  <2> QED BY <1>t, <2>1, <2>3, <2>4 DEF LockInv, RowInv, Live, InTx
<1>10. CASE Tick \/ (\E c \in Cats : DeleteCat(c)) \/ UNCHANGED vars
    BY <1>1, <1>10 DEF Tick, DeleteCat, vars
<1> HIDE DEF IInv
<1> QED
    BY <1>2, <1>3, <1>4, <1>5, <1>6, <1>7, <1>8, <1>9, <1>10, ZenonT(60) DEF Next

\* A mark that notifies was created when every earlier, unexpired, unretracted
\* mark of its cat that also notifies was still uncommitted: for any number of
\* concurrent requests the row lock makes the frozen verdict exact with respect
\* to the commit order (CreateNotificationOutbox under UpdateCatLastUpdateAt).
THEOREM ActivationSafety == Spec => []EligibleOnlyOnActivation
<1>1. IInv => EligibleOnlyOnActivation
  <2> SUFFICES ASSUME IInv, NEW p \in Updates, NEW u \in Updates,
                      HelpMark(p), HelpMark(u), upd[p].cat = upd[u].cat,
                      upd[p].eligible, upd[u].eligible,
                      p # u, Before(p, u), ExpiresAt(p) > upd[u].created
               PROVE  upd[u].pos < upd[p].pos
      BY DEF EligibleOnlyOnActivation
  <2> QED BY DEF IInv, VerdictInv, Silences, HelpMark
<1> QED
    BY <1>1, IInvInit, IInvStep, PTL DEF Spec

----------------------------------------------------------------------------
(* Keys, freshness and the alert *)

Written == InTx \cup {"live"}

\* The unique index on (author, key), kept by the rows of open transactions too.
OneRowPerKey == \A p, q \in Updates :
    /\ upd[p].stage \in Written /\ upd[q].stage \in Written
    /\ upd[p].key # None /\ upd[p].key = upd[q].key /\ upd[p].author = upd[q].author
    => p = q

\* A request was answered with a committed row of its own author and key.
AnswerIsRow == \A r \in Updates : upd[r].result # None =>
    /\ upd[r].result \in Updates /\ Live(upd[r].result)
    /\ upd[upd[r].result].key = upd[r].key /\ upd[upd[r].result].author = upd[r].author

\* updates.seq is drawn once per row.
SeqDrawn == \A p, q \in Updates : upd[p].stage \in Written =>
    /\ upd[p].seq <= seqs
    /\ upd[q].stage \in Written /\ upd[p].seq = upd[q].seq => p = q

\* Any committed rows have a last one in the (created_at, seq) order.  It is stated of
\* every set of them, so that it survives deletions and cleared help flags.
HasNewest == \A S \in SUBSET Updates : S # {} /\ (\A p \in S : Live(p)) =>
    \E m \in S : \A p \in S : p # m => Before(p, m)

RowsInv == OneRowPerKey /\ AnswerIsRow /\ SeqDrawn /\ HasNewest /\ FreshnessIsNewest

\* What a request never changes of its row once it has accepted it.
Keeps(u) == /\ upd'[u].cat = upd[u].cat /\ upd'[u].author = upd[u].author
            /\ upd'[u].key = upd[u].key /\ upd'[u].created = upd[u].created

\* The five ways in which one request changes its row.
Answering(u) == /\ upd[u].stage \in {"none", "accepted"} /\ upd'[u].stage \in {"accepted", "replayed"}
                /\ upd'[u].result # None => upd'[u].result \in SameRequest(upd'[u].author, upd'[u].key)
                /\ seqs' \in {seqs, seqs + 1} /\ UNCHANGED lastUpdateAt
Inserting(u) == /\ upd[u].stage = "accepted" /\ upd'[u].stage = "inserted" /\ Keeps(u)
                /\ upd'[u].result = upd[u].result
                /\ KeyFree(u) /\ (upd[u].key = None \/ SameRequest(upd[u].author, upd[u].key) = {})
                /\ upd'[u].seq = seqs + 1 /\ seqs' = seqs + 1 /\ UNCHANGED lastUpdateAt
Moving(u) == /\ \/ upd[u].stage \in InTx /\ upd'[u].stage \in InTx
                \/ upd[u].stage = "live" /\ upd'[u].stage = "live"
             /\ Keeps(u) /\ upd'[u].seq = upd[u].seq /\ upd'[u].result = upd[u].result
             /\ UNCHANGED <<seqs, lastUpdateAt>>
Committing(u) == /\ upd[u].stage = "enqueued" /\ upd'[u].stage = "live" /\ Keeps(u)
                 /\ upd'[u].seq = upd[u].seq /\ upd'[u].result = u /\ UNCHANGED seqs
                 /\ lastUpdateAt' = [lastUpdateAt EXCEPT ![upd[u].cat] = Freshest(upd[u].cat, upd[u].created)]
Failing(u) == /\ upd[u].stage \in {"accepted"} \cup InTx /\ upd'[u].stage = "failed" /\ Keeps(u)
              /\ upd'[u].result = upd[u].result /\ UNCHANGED <<seqs, lastUpdateAt>>

\* Every action is one of them, or leaves the rows alone.
LEMMA StepShape ==
    ASSUME TypeOK, Next
    PROVE  \/ UNCHANGED <<upd, seqs, lastUpdateAt>>
           \/ \E u \in Updates :
                 /\ \A v \in Updates \ {u} : upd'[v] = upd[v]
                 /\ Answering(u) \/ Inserting(u) \/ Moving(u) \/ Committing(u) \/ Failing(u)
<1>0. ASSUME NEW u \in Updates PROVE upd[u] \in Row
  BY DEF TypeOK
<1>d. DOMAIN upd = Updates
  BY DEF TypeOK
<1> DEFINE Others(u) == \A v \in Updates \ {u} : upd'[v] = upd[v]
<1>1. CASE Tick \/ \E c \in Cats : DeleteCat(c)
  BY <1>1 DEF Tick, DeleteCat
<1>2. ASSUME NEW u \in Updates, NEW c \in Cats, NEW a \in Users, NEW k \in Keys \cup {None},
             NEW h \in BOOLEAN, NEW s \in BOOLEAN,
             AcceptOrdinaryUpdate(u, c, a, k, h, s) \/ AcceptNeedsHelpUpdate(u, c, a)
      PROVE  Others(u) /\ Answering(u)
  <2>1. upd'[u].stage = "accepted" /\ upd'[u].result = None
    BY <1>2, <1>d, ZenonT(60) DEF AcceptOrdinaryUpdate, AcceptNeedsHelpUpdate, NoRow
  <2>2. Others(u) /\ upd[u].stage = "none" /\ UNCHANGED <<seqs, lastUpdateAt>>
    BY <1>2, <1>d DEF AcceptOrdinaryUpdate, AcceptNeedsHelpUpdate
  <2> QED BY <2>1, <2>2 DEF Answering
<1>3. ASSUME NEW u \in Updates, NEW a \in Users, NEW k \in Keys, ReplayExisting(u, a, k)
      PROVE  Others(u) /\ Answering(u)
  <2>1. PICK p \in SameRequest(a, k) :
           upd' = [upd EXCEPT ![u] = [NoRow EXCEPT !.stage = "replayed", !.author = a, !.key = k, !.result = p]]
    BY <1>3 DEF ReplayExisting
  <2>2. upd'[u].stage = "replayed" /\ upd'[u].result = p /\ upd'[u].author = a /\ upd'[u].key = k
    BY <2>1, <1>d, ZenonT(60) DEF NoRow
  <2>3. Others(u) /\ upd[u].stage = "none" /\ UNCHANGED <<seqs, lastUpdateAt>>
    BY <1>3, <2>1, <1>d DEF ReplayExisting
  <2> QED BY <2>2, <2>3 DEF Answering
<1>4. ASSUME NEW u \in Updates, InsertConflict(u) PROVE Others(u) /\ Answering(u)
  <2>1. PICK p \in SameRequest(upd[u].author, upd[u].key) :
           upd' = [upd EXCEPT ![u] = [@ EXCEPT !.stage = "replayed", !.result = p]]
    BY <1>4 DEF InsertConflict
  <2>2. upd'[u].stage = "replayed" /\ upd'[u].result = p /\ upd'[u].author = upd[u].author /\ upd'[u].key = upd[u].key
    BY <2>1, <1>0, <1>d DEF Row
  <2>3. Others(u) /\ upd[u].stage = "accepted" /\ seqs' = seqs + 1 /\ UNCHANGED lastUpdateAt
    BY <1>4, <2>1, <1>d DEF InsertConflict
  <2> QED BY <2>2, <2>3 DEF Answering
<1>5. ASSUME NEW u \in Updates, InsertUpdate(u) PROVE Others(u) /\ Inserting(u)
  BY <1>5, <1>0, <1>d DEF InsertUpdate, Inserting, Keeps, Row
<1>6. ASSUME NEW u \in Updates, UpdateCatLastUpdateAt(u) \/ CreateNotificationOutbox(u)
      PROVE  Others(u) /\ Moving(u)
  <2>1. CASE UpdateCatLastUpdateAt(u)
    BY <2>1, <1>0, <1>d DEF UpdateCatLastUpdateAt, Moving, Keeps, InTx, Row
  <2>2. CASE CreateNotificationOutbox(u)
    <3> DEFINE e == EligibleVerdict(u)
    <3>1. /\ upd' = [upd EXCEPT ![u] = [@ EXCEPT !.stage = "enqueued", !.eligible = e]]
          /\ upd[u].stage = "locked" /\ UNCHANGED <<seqs, lastUpdateAt>>
      BY <2>2 DEF CreateNotificationOutbox
    <3> HIDE DEF e
    <3> QED BY <3>1, <1>0, <1>d DEF Moving, Keeps, InTx, Row
  <2> QED BY <1>6, <2>1, <2>2
<1>7. ASSUME NEW u \in Updates, CommitUpdate(u) PROVE Others(u) /\ Committing(u)
  BY <1>7, <1>0, <1>d DEF CommitUpdate, Committing, Keeps, Row
<1>8. ASSUME NEW u \in Updates, RollbackUpdate(u) PROVE Others(u) /\ Failing(u)
  BY <1>8, <1>0, <1>d DEF RollbackUpdate, Failing, Keeps, Row
<1>9. ASSUME NEW u \in Updates, NEW clear \in BOOLEAN, NEW replace \in {"keep", "empty", "set"},
             CorrectOwnUpdate(u, clear, replace)
      PROVE  Others(u) /\ Moving(u)
  BY <1>9, <1>0, <1>d DEF CorrectOwnUpdate, Correctable, Live, Moving, Keeps, Row
<1>10. ASSUME NEW u \in Updates, DeleteOwnUpdate(u) PROVE Others(u) /\ Moving(u)
  BY <1>10, <1>0, <1>d DEF DeleteOwnUpdate, Correctable, Live, Moving, Keeps, Row
<1> HIDE DEF Others
<1> DEFINE Shaped == \E u \in Updates :
                 /\ Others(u)
                 /\ Answering(u) \/ Inserting(u) \/ Moving(u) \/ Committing(u) \/ Failing(u)
<1>12. ASSUME ~Tick, ~ \E c \in Cats : DeleteCat(c) PROVE Shaped
  BY <1>2, <1>3, <1>4, <1>5, <1>6, <1>7, <1>8, <1>9, <1>10, <1>12, ZenonT(60) DEF Next
<1> QED BY <1>1, <1>12 DEF Others

\* (created_at, seq) orders the written rows totally.
LEMMA BeforeOrder ==
    ASSUME TypeOK, NEW p \in Updates, NEW q \in Updates, NEW u \in Updates
    PROVE  /\ Before(p, q) /\ Before(q, u) => Before(p, u)
           /\ SeqDrawn /\ upd[p].stage \in Written /\ upd[q].stage \in Written /\ p # q
                 => Before(p, q) \/ Before(q, p)
<1>1. /\ upd[p].created \in Nat /\ upd[q].created \in Nat /\ upd[u].created \in Nat
      /\ upd[p].seq \in Nat /\ upd[q].seq \in Nat /\ upd[u].seq \in Nat
  BY DEF TypeOK, Row
<1>2. Before(p, q) /\ Before(q, u) => Before(p, u)
  BY <1>1 DEF Before
<1>3. SeqDrawn /\ upd[p].stage \in Written /\ upd[q].stage \in Written /\ p # q
         => upd[p].seq # upd[q].seq
  BY DEF SeqDrawn
<1> QED BY <1>1, <1>2, <1>3 DEF Before

\* Rows that stay where they are in the order keep their last one.
LEMMA NewestKept ==
    ASSUME HasNewest,
           \A p \in Updates : Live(p)' => /\ Live(p) /\ upd'[p].created = upd[p].created
                                          /\ upd'[p].seq = upd[p].seq
    PROVE  HasNewest'
<1> SUFFICES ASSUME NEW S \in SUBSET Updates, S # {}, \A p \in S : Live(p)'
             PROVE  \E m \in S : \A p \in S : p # m => Before(p, m)'
  BY DEF HasNewest
<1>1. PICK m \in S : \A p \in S : p # m => Before(p, m)
  BY DEF HasNewest
<1>2. ASSUME NEW p \in S, p # m PROVE Before(p, m)'
  <2>1. Before(p, m) /\ Live(p)' /\ Live(m)' /\ p \in Updates /\ m \in Updates
    BY <1>1, <1>2
  <2> QED BY <2>1 DEF Before
<1> QED BY <1>2

\* A committed update takes its place among the committed rows, wherever its
\* created_at, read before the row lock, puts it.
LEMMA NewestCommitted ==
    ASSUME TypeOK, SeqDrawn, HasNewest, NEW u \in Updates, Committing(u),
           \A v \in Updates \ {u} : upd'[v] = upd[v]
    PROVE  HasNewest'
<1> SUFFICES ASSUME NEW S \in SUBSET Updates, S # {}, \A p \in S : Live(p)'
             PROVE  \E m \in S : \A p \in S : p # m => Before(p, m)'
  BY DEF HasNewest
<1> DEFINE T == S \ {u}
<1>1. ASSUME NEW p \in Updates, NEW q \in Updates PROVE Before(p, q)' <=> Before(p, q)
  <2>1. /\ upd'[p].created = upd[p].created /\ upd'[q].created = upd[q].created
        /\ upd'[p].seq = upd[p].seq /\ upd'[q].seq = upd[q].seq
    BY DEF Committing, Keeps
  <2> QED BY <2>1 DEF Before
<1>2. \A p \in T : Live(p) /\ upd[p].stage \in Written
  <2> SUFFICES ASSUME NEW p \in T PROVE Live(p) /\ upd[p].stage \in Written
    OBVIOUS
  <2>1. upd'[p] = upd[p] /\ Live(p)'
    OBVIOUS
  <2> QED BY <2>1 DEF Live, Written
<1>3. upd[u].stage \in Written
  BY DEF Committing, Written, InTx
<1>4. CASE T = {}
  BY <1>4
<1>5. CASE T # {}
  <2>1. PICK m \in T : \A p \in T : p # m => Before(p, m)
    BY <1>2, <1>5 DEF HasNewest
  <2>2. m \in Updates /\ m # u /\ upd[m].stage \in Written
    BY <1>2
  <2>3. Before(m, u) \/ Before(u, m)
    BY <2>2, <1>3, BeforeOrder
  <2>4. CASE u \in S /\ Before(m, u)
    <3>1. ASSUME NEW p \in S, p # u PROVE Before(p, u)
      BY <3>1, <2>1, <2>2, <2>4, BeforeOrder
    <3>2. \A p \in S : p # u => Before(p, u)'
      BY <3>1, <1>1
    <3> QED BY <2>4, <3>2
  <2>5. CASE u \notin S \/ Before(u, m)
    <3>1. ASSUME NEW p \in S, p # m PROVE Before(p, m)'
      BY <3>1, <2>1, <2>2, <2>5, <1>1
    <3> QED BY <3>1
  <2> QED BY <2>3, <2>4, <2>5
<1> QED BY <1>4, <1>5

\* The commit's greatest(last_update_at, created_at) keeps the freshness newest,
\* although the lock orders the commits and the clock orders created_at.
LEMMA FreshnessCommitted ==
    ASSUME TypeOK, RowInv, FreshnessIsNewest, NEW u \in Updates, Committing(u),
           \A v \in Updates \ {u} : upd'[v] = upd[v]
    PROVE  FreshnessIsNewest'
<1> DEFINE c == upd[u].cat
<1> DEFINE t == upd[u].created
<1>1. c \in Cats /\ t \in Nat /\ upd[u] \in Row /\ upd[u].stage = "enqueued"
  BY DEF TypeOK, Row, RowInv, Committing, InTx
<1>2. /\ lastUpdateAt' = [lastUpdateAt EXCEPT ![c] = IF lastUpdateAt[c] < t THEN t ELSE lastUpdateAt[c]]
      /\ lastUpdateAt \in [Cats -> Nat]
  BY DEF Committing, Freshest, TypeOK
<1>3. upd'[u].cat = c /\ upd'[u].created = t /\ Live(u)' /\ ~Live(u)
  BY <1>1 DEF Committing, Keeps, Live
<1>4. \A v \in Updates : v # u => upd'[v] = upd[v]
  OBVIOUS
<1>n. \A v \in Updates : upd[v].created \in Nat
  BY DEF TypeOK, Row
<1> HIDE DEF c, t
<1> SUFFICES ASSUME NEW d \in Cats
             PROVE  /\ \A v \in Updates : Live(v)' /\ upd'[v].cat = d => upd'[v].created <= lastUpdateAt'[d]
                    /\ lastUpdateAt'[d] # 0 =>
                          \E v \in Updates : Live(v)' /\ upd'[v].cat = d /\ upd'[v].created = lastUpdateAt'[d]
  BY DEF FreshnessIsNewest
<1>5. /\ \A v \in Updates : Live(v) /\ upd[v].cat = d => upd[v].created <= lastUpdateAt[d]
      /\ lastUpdateAt[d] # 0 =>
            \E v \in Updates : Live(v) /\ upd[v].cat = d /\ upd[v].created = lastUpdateAt[d]
  BY DEF FreshnessIsNewest
<1>6. ASSUME NEW v \in Updates, v # u
      PROVE  (Live(v)' <=> Live(v)) /\ upd'[v].cat = upd[v].cat /\ upd'[v].created = upd[v].created
  BY <1>4, <1>6 DEF Live
<1>7. CASE d # c
  <2>1. lastUpdateAt'[d] = lastUpdateAt[d]
    BY <1>2, <1>7
  <2> QED BY <2>1, <1>3, <1>5, <1>6, <1>7
<1>8. CASE d = c
  <2>1. /\ lastUpdateAt'[d] = IF lastUpdateAt[d] < t THEN t ELSE lastUpdateAt[d]
        /\ lastUpdateAt[d] \in Nat
    BY <1>1, <1>2, <1>8
  <2>2. ASSUME NEW v \in Updates, Live(v)', upd'[v].cat = d PROVE upd'[v].created <= lastUpdateAt'[d]
    BY <2>1, <2>2, <1>1, <1>3, <1>5, <1>6, <1>n
  <2>3. ASSUME lastUpdateAt'[d] # 0
        PROVE  \E v \in Updates : Live(v)' /\ upd'[v].cat = d /\ upd'[v].created = lastUpdateAt'[d]
    <3>1. CASE lastUpdateAt'[d] = t
      BY <3>1, <1>3, <1>8
    <3>2. CASE lastUpdateAt'[d] # t
      <4>1. lastUpdateAt'[d] = lastUpdateAt[d]
        BY <3>2, <2>1
      <4>2. PICK v \in Updates : Live(v) /\ upd[v].cat = d /\ upd[v].created = lastUpdateAt[d]
        BY <4>1, <2>3, <1>5
      <4> QED BY <4>1, <4>2, <1>3, <1>6
    <3> QED BY <3>1, <3>2
  <2> QED BY <2>2, <2>3
<1> QED BY <1>7, <1>8

\* A step in which the same rows are committed, with the same cats and times,
\* leaves the freshness as it is.
LEMMA FreshnessKept ==
    ASSUME FreshnessIsNewest, UNCHANGED lastUpdateAt,
           \A v \in Updates : /\ Live(v)' <=> Live(v)
                              /\ Live(v) => upd'[v].cat = upd[v].cat /\ upd'[v].created = upd[v].created
    PROVE  FreshnessIsNewest'
BY DEF FreshnessIsNewest

\* An answer stays an answer while the committed rows stay committed.
LEMMA AnswersKept ==
    ASSUME AnswerIsRow, NEW u \in Updates, NEW q,
           \A v \in Updates \ {u} : upd'[v] = upd[v],
           Live(u) => Live(u)' /\ upd'[u].key = upd[u].key /\ upd'[u].author = upd[u].author,
           q = upd'[u].result,
           q # None => /\ q \in Updates /\ upd'[q].stage = "live"
                       /\ upd'[q].key = upd'[u].key /\ upd'[q].author = upd'[u].author
    PROVE  AnswerIsRow'
<1> SUFFICES ASSUME NEW r \in Updates, NEW p, p = upd'[r].result, p # None
             PROVE  /\ p \in Updates /\ upd'[p].stage = "live"
                    /\ upd'[p].key = upd'[r].key /\ upd'[p].author = upd'[r].author
  BY DEF AnswerIsRow, Live
<1>1. CASE r = u
  BY <1>1
<1>2. CASE r # u
  <2>1. upd'[r] = upd[r] /\ p = upd[r].result
    BY <1>2
  <2>2. p \in Updates /\ Live(p) /\ upd[p].key = upd[r].key /\ upd[p].author = upd[r].author
    BY <2>1 DEF AnswerIsRow
  <2>3. upd'[p].stage = "live" /\ upd'[p].key = upd[p].key /\ upd'[p].author = upd[p].author
    BY <2>2 DEF Live
  <2> QED BY <2>1, <2>2, <2>3
<1> QED BY <1>1, <1>2

\* Nothing is written, answered or fresh before the first request.
LEMMA RowsInit == Init => RowsInv
<1> SUFFICES ASSUME Init PROVE RowsInv
  OBVIOUS
<1>1. \A u \in Updates : upd[u].stage = "none" /\ upd[u].result = None
  BY DEF Init, NoRow
<1>2. OneRowPerKey /\ AnswerIsRow /\ SeqDrawn
  BY <1>1 DEF OneRowPerKey, AnswerIsRow, SeqDrawn, Written, InTx
<1>3. HasNewest
  BY <1>1 DEF HasNewest, Live
<1>4. FreshnessIsNewest
  BY <1>1 DEF FreshnessIsNewest, Live, Init
<1> QED BY <1>2, <1>3, <1>4 DEF RowsInv

\* Every action keeps the key index, the answers, the order and the freshness.
LEMMA RowsStep == IInv /\ RowsInv /\ [Next]_vars => RowsInv'
<1> SUFFICES ASSUME IInv, RowsInv, [Next]_vars PROVE RowsInv'
  OBVIOUS
<1> USE DEF RowsInv, IInv
<1>1. CASE UNCHANGED <<upd, seqs, lastUpdateAt>>
  <2>1. OneRowPerKey' /\ AnswerIsRow' /\ SeqDrawn'
    BY <1>1 DEF OneRowPerKey, AnswerIsRow, SeqDrawn, Live
  <2>2. HasNewest'
    BY <1>1, NewestKept DEF Live
  <2>3. FreshnessIsNewest'
    BY <1>1, FreshnessKept DEF Live
  <2> QED BY <2>1, <2>2, <2>3
<1>2. ASSUME NEW u \in Updates, \A v \in Updates \ {u} : upd'[v] = upd[v],
             Answering(u) \/ Inserting(u) \/ Moving(u) \/ Failing(u)
      PROVE  HasNewest' /\ FreshnessIsNewest'
  <2>1. /\ Live(u) <=> Live(u)'
        /\ Live(u) => Keeps(u) /\ upd'[u].seq = upd[u].seq
        /\ UNCHANGED lastUpdateAt
    BY <1>2 DEF Answering, Inserting, Moving, Failing, Live, InTx
  <2>2. HasNewest'
    BY <1>2, <2>1, NewestKept DEF Live, Keeps
  <2>3. FreshnessIsNewest'
    BY <1>2, <2>1, FreshnessKept DEF Live, Keeps
  <2> QED BY <2>2, <2>3
<1>t. /\ seqs \in Nat /\ None \notin Updates
      /\ \A v \in Updates : upd[v].seq \in Nat
  BY NoneAssumption DEF TypeOK, Row
<1>3. ASSUME NEW u \in Updates, \A v \in Updates \ {u} : upd'[v] = upd[v], Answering(u)
      PROVE  OneRowPerKey' /\ AnswerIsRow' /\ SeqDrawn'
  <2>1. upd'[u].stage \notin Written /\ ~Live(u)
    BY <1>3 DEF Answering, Written, InTx, Live
  <2>2. OneRowPerKey'
    BY <1>3, <2>1 DEF OneRowPerKey
  <2>3. SeqDrawn'
    <3>1. ASSUME NEW p \in Updates, NEW q \in Updates, upd'[p].stage \in Written
          PROVE  /\ upd'[p].seq <= seqs'
                 /\ upd'[q].stage \in Written /\ upd'[p].seq = upd'[q].seq => p = q
      <4>1. p # u /\ upd'[p] = upd[p] /\ upd[p].seq <= seqs
        BY <1>3, <2>1, <3>1 DEF SeqDrawn
      <4>2. seqs' \in {seqs, seqs + 1}
        BY <1>3 DEF Answering
      <4>3. upd'[p].seq <= seqs'
        BY <4>1, <4>2, <1>t
      <4>4. upd'[q].stage \in Written => q # u /\ upd'[q] = upd[q]
        BY <1>3, <2>1
      <4> QED BY <3>1, <4>1, <4>3, <4>4 DEF SeqDrawn
    <3> QED BY <3>1 DEF SeqDrawn
  <2>4. AnswerIsRow'
    <3>1. PICK q : q = upd'[u].result
      OBVIOUS
    <3>2. ASSUME q # None
          PROVE  /\ q \in Updates /\ upd'[q].stage = "live"
                 /\ upd'[q].key = upd'[u].key /\ upd'[q].author = upd'[u].author
      <4>1. q \in SameRequest(upd'[u].author, upd'[u].key)
        BY <3>1, <3>2, <1>3 DEF Answering
      <4>2. q \in Updates /\ Live(q) /\ upd[q].key = upd'[u].key /\ upd[q].author = upd'[u].author
        BY <4>1 DEF SameRequest
      <4>3. q # u /\ upd'[q] = upd[q]
        BY <4>2, <2>1, <1>3
      <4> QED BY <4>2, <4>3 DEF Live
    <3> QED BY <1>3, <2>1, <3>1, <3>2, AnswersKept
  <2> QED BY <2>2, <2>3, <2>4
<1>4. ASSUME NEW u \in Updates, \A v \in Updates \ {u} : upd'[v] = upd[v], Inserting(u)
      PROVE  OneRowPerKey' /\ AnswerIsRow' /\ SeqDrawn'
  <2>1. /\ upd[u].stage = "accepted" /\ upd'[u].stage = "inserted" /\ Keeps(u) /\ ~Live(u)
        /\ upd'[u].result = upd[u].result /\ upd'[u].seq = seqs + 1 /\ seqs' = seqs + 1
    BY <1>4 DEF Inserting, Live
  <2>2. ASSUME NEW p \in Updates, p # u, upd[p].stage \in Written,
               upd[p].key # None, upd[p].key = upd[u].key, upd[p].author = upd[u].author
        PROVE  FALSE
    <3>1. upd[p].stage \notin InTx
      BY <2>2, <1>4 DEF Inserting, KeyFree
    <3>2. Live(p)
      BY <3>1, <2>2 DEF Written, Live
    <3>3. p \in SameRequest(upd[u].author, upd[u].key)
      BY <3>2, <2>2 DEF SameRequest
    <3> QED BY <3>3, <2>2, <1>4 DEF Inserting
  <2>3. OneRowPerKey'
    <3>1. ASSUME NEW p \in Updates, NEW q \in Updates, upd'[p].stage \in Written, upd'[q].stage \in Written,
                 upd'[p].key # None, upd'[p].key = upd'[q].key, upd'[p].author = upd'[q].author
          PROVE  p = q
      <4>1. CASE p # u /\ q # u
        BY <4>1, <3>1, <1>4 DEF OneRowPerKey
      <4>2. CASE p = u /\ q # u
        BY <4>2, <3>1, <2>1, <2>2, <1>4 DEF Keeps
      <4>3. CASE p # u /\ q = u
        BY <4>3, <3>1, <2>1, <2>2, <1>4 DEF Keeps
      <4> QED BY <4>1, <4>2, <4>3
    <3> QED BY <3>1 DEF OneRowPerKey
  <2>4. SeqDrawn'
    <3>1. ASSUME NEW p \in Updates, p # u, upd'[p].stage \in Written
          PROVE  upd'[p].seq <= seqs /\ upd'[p].seq \in Nat
      BY <3>1, <1>4, <1>t DEF SeqDrawn
    <3>2. ASSUME NEW p \in Updates, NEW q \in Updates, upd'[p].stage \in Written
          PROVE  /\ upd'[p].seq <= seqs'
                 /\ upd'[q].stage \in Written /\ upd'[p].seq = upd'[q].seq => p = q
      <4>1. upd'[p].seq <= seqs'
        BY <3>1, <3>2, <2>1, <1>t
      <4>2. ASSUME upd'[q].stage \in Written, upd'[p].seq = upd'[q].seq PROVE p = q
        <5>1. CASE p # u /\ q # u
          BY <5>1, <4>2, <3>2, <1>4 DEF SeqDrawn
        <5>2. CASE p = u /\ q # u
          BY <5>2, <4>2, <3>1, <2>1, <1>t
        <5>3. CASE p # u /\ q = u
          BY <5>3, <4>2, <3>1, <3>2, <2>1, <1>t
        <5> QED BY <5>1, <5>2, <5>3
      <4> QED BY <4>1, <4>2
    <3> QED BY <3>2 DEF SeqDrawn
  <2>5. AnswerIsRow'
    <3>1. PICK q : q = upd'[u].result
      OBVIOUS
    <3>2. ASSUME q # None
          PROVE  /\ q \in Updates /\ upd'[q].stage = "live"
                 /\ upd'[q].key = upd'[u].key /\ upd'[q].author = upd'[u].author
      <4>1. q \in Updates /\ Live(q) /\ upd[q].key = upd[u].key /\ upd[q].author = upd[u].author
        BY <3>1, <3>2, <2>1 DEF AnswerIsRow
      <4>2. q # u /\ upd'[q] = upd[q]
        BY <4>1, <2>1, <1>4
      <4> QED BY <4>1, <4>2, <2>1 DEF Live, Keeps
    <3> QED BY <1>4, <2>1, <3>1, <3>2, AnswersKept
  <2> QED BY <2>3, <2>4, <2>5
<1>5. ASSUME NEW u \in Updates, \A v \in Updates \ {u} : upd'[v] = upd[v],
             Moving(u) \/ Committing(u) \/ Failing(u)
      PROVE  OneRowPerKey' /\ AnswerIsRow' /\ SeqDrawn'
  <2>1. /\ Keeps(u) /\ UNCHANGED seqs /\ (Live(u) => Live(u)')
        /\ upd'[u].stage \in Written => upd[u].stage \in Written /\ upd'[u].seq = upd[u].seq
        /\ upd'[u].result = upd[u].result \/ (upd'[u].result = u /\ Live(u)')
    BY <1>5 DEF Moving, Committing, Failing, Written, InTx, Live
  <2>2. ASSUME NEW p \in Updates, upd'[p].stage \in Written
        PROVE  /\ upd[p].stage \in Written /\ upd'[p].seq = upd[p].seq
               /\ upd'[p].key = upd[p].key /\ upd'[p].author = upd[p].author
    BY <1>5, <2>1, <2>2 DEF Keeps
  <2>3. OneRowPerKey' /\ SeqDrawn'
    BY <2>1, <2>2 DEF OneRowPerKey, SeqDrawn
  <2>4. AnswerIsRow'
    <3>1. PICK q : q = upd'[u].result
      OBVIOUS
    <3>2. ASSUME q # None
          PROVE  /\ q \in Updates /\ upd'[q].stage = "live"
                 /\ upd'[q].key = upd'[u].key /\ upd'[q].author = upd'[u].author
      <4>1. CASE q = u /\ Live(u)'
        BY <4>1 DEF Live
      <4>2. CASE q = upd[u].result
        <5>1. q \in Updates /\ Live(q) /\ upd[q].key = upd[u].key /\ upd[q].author = upd[u].author
          BY <4>2, <3>2 DEF AnswerIsRow
        <5>2. CASE q = u
          BY <5>1, <5>2, <2>1 DEF Live
        <5>3. CASE q # u
          BY <5>1, <5>3, <2>1, <1>5 DEF Live, Keeps
        <5> QED BY <5>2, <5>3
      <4> QED BY <3>1, <2>1, <4>1, <4>2
    <3> QED BY <1>5, <2>1, <3>1, <3>2, AnswersKept DEF Keeps
  <2> QED BY <2>3, <2>4
<1>6. ASSUME NEW u \in Updates, \A v \in Updates \ {u} : upd'[v] = upd[v], Committing(u)
      PROVE  HasNewest' /\ FreshnessIsNewest'
  BY <1>6, NewestCommitted, FreshnessCommitted
<1>7. CASE Next
  <2>1. CASE UNCHANGED <<upd, seqs, lastUpdateAt>>
    BY <2>1, <1>1
  <2>2. ASSUME NEW u \in Updates, \A v \in Updates \ {u} : upd'[v] = upd[v],
               Answering(u) \/ Inserting(u) \/ Moving(u) \/ Committing(u) \/ Failing(u)
        PROVE  RowsInv'
    BY <2>2, <1>2, <1>3, <1>4, <1>5, <1>6
  <2> QED BY <1>7, <2>1, <2>2, StepShape
<1>8. CASE UNCHANGED vars
  BY <1>8, <1>1 DEF vars
<1> QED BY <1>7, <1>8

\* Whatever order the commits take, cats.last_update_at is the newest created_at
\* of the cat's committed updates (UpdateCatLastUpdateAt's greatest).
THEOREM FreshnessSafety == Spec => []FreshnessIsNewest
<1>1. RowsInv => FreshnessIsNewest
  BY DEF RowsInv
<1> QED BY <1>1, IInvInit, IInvStep, RowsInit, RowsStep, PTL DEF Spec

\* However many retries of one author and Idempotency-Key overlap, every one
\* answered, by the lookup, the insert or the unique-violation fallback, is
\* answered with the same update.
THEOREM RetriesAgree == Spec => []SameKeySameUpdate
<1>1. RowsInv => SameKeySameUpdate
  <2> SUFFICES ASSUME RowsInv, NEW r \in Updates, NEW s \in Updates,
                      upd[r].result # None, upd[s].result # None,
                      upd[r].key # None, upd[r].key = upd[s].key, upd[r].author = upd[s].author
               PROVE  upd[r].result = upd[s].result
    BY DEF SameKeySameUpdate
  <2>1. /\ upd[r].result \in Updates /\ Live(upd[r].result)
        /\ upd[upd[r].result].key = upd[r].key /\ upd[upd[r].result].author = upd[r].author
    BY DEF RowsInv, AnswerIsRow
  <2>2. /\ upd[s].result \in Updates /\ Live(upd[s].result)
        /\ upd[upd[s].result].key = upd[s].key /\ upd[upd[s].result].author = upd[s].author
    BY DEF RowsInv, AnswerIsRow
  <2> QED BY <2>1, <2>2 DEF RowsInv, OneRowPerKey, Live, Written
<1> QED BY <1>1, IInvInit, IInvStep, RowsInit, RowsStep, PTL DEF Spec

\* The newest undeleted mark decides the alert for all of them: a newest one
\* exists, and it expires last (deriveActiveAlert over the lateral join).
THEOREM AlertSafety == Spec => []AlertCoversEveryMark
<1>1. IInv /\ RowsInv => AlertCoversEveryMark
  <2> SUFFICES ASSUME IInv, RowsInv, NEW c \in Cats
               PROVE  ActiveAlert(c) <=> \E u \in Updates : /\ HelpMark(u) /\ upd[u].cat = c
                                                            /\ ExpiresAt(u) > now
    BY DEF AlertCoversEveryMark
  <2>1. ActiveAlert(c) => \E u \in Updates : /\ HelpMark(u) /\ upd[u].cat = c /\ ExpiresAt(u) > now
    BY DEF ActiveAlert, NewestMark
  <2>2. ASSUME NEW u \in Updates, HelpMark(u), upd[u].cat = c, ExpiresAt(u) > now
        PROVE  ActiveAlert(c)
    <3> DEFINE S == {p \in Updates : HelpMark(p) /\ upd[p].cat = c}
    <3>1. PICK m \in S : \A p \in S : p # m => Before(p, m)
      <4>1. S \in SUBSET Updates /\ u \in S /\ \A p \in S : Live(p)
        BY <2>2 DEF HelpMark
      <4> HIDE DEF S
      <4> QED BY <4>1 DEF RowsInv, HasNewest
    <3>2. m \in NewestMark(c)
      BY <3>1 DEF NewestMark
    <3>3. upd[u].created <= upd[m].created /\ upd[u].created \in Nat /\ upd[m].created \in Nat
      <4>1. upd[u].created \in Nat /\ upd[m].created \in Nat /\ m \in Updates
        BY DEF IInv, TypeOK, Row
      <4>2. u = m \/ Before(u, m)
        BY <2>2, <3>1
      <4> QED BY <4>1, <4>2 DEF Before
    <3>4. ExpiresAt(m) > now
      BY <2>2, <3>3, TimeAssumption DEF ExpiresAt, IInv, TypeOK
    <3> QED BY <3>2, <3>4 DEF ActiveAlert
  <2> QED BY <2>1, <2>2
<1> QED BY <1>1, IInvInit, IInvStep, RowsInit, RowsStep, PTL DEF Spec

----------------------------------------------------------------------------
(* Waits, and the outbox as the dispatcher finds it *)

\* A cat's row lock belongs to an open transaction of that cat: no commit, rollback or lost
\* connection leaves it behind (withTx, UpdateCatLastUpdateAt).
LocksLive == \A c \in Cats : catLock[c] # None =>
    /\ catLock[c] \in Updates /\ upd[catLock[c]].stage \in {"locked", "enqueued"}
    /\ upd[catLock[c]].cat = c

\* The guards of the steps a request takes by itself.
Unanswered(u) == upd[u].stage \in {"accepted"} \cup InTx
CanStep(u) == \/ upd[u].stage = "accepted" /\ KeyFree(u)
              \/ upd[u].stage = "inserted" /\ catLock[upd[u].cat] = None
              \/ upd[u].stage \in {"locked", "enqueued"}

\* v holds what u waits for: an uncommitted row with its key, or its cat's row lock.
Blocks(v, u) ==
    \/ /\ upd[u].stage = "accepted" /\ v # u /\ upd[v].stage \in InTx /\ upd[v].key # None
       /\ upd[v].key = upd[u].key /\ upd[v].author = upd[u].author
    \/ upd[u].stage = "inserted" /\ catLock[upd[u].cat] = v

\* Every create request that is not answered can go on, or waits for one that can, or waits for
\* one that waits for one that can: the unique key is taken before the cat's lock by everyone.
WaitsEnd == \A u \in Updates : Unanswered(u) =>
    \/ CanStep(u)
    \/ \E v \in Updates : Blocks(v, u) /\ (CanStep(v) \/ \E w \in Updates : Blocks(w, v) /\ CanStep(w))

\* The write side as a client of notification_outbox sees it: rows appear with the commit.
Outbox == INSTANCE AlertOutbox
          WITH state <- [u \in Updates |-> IF Live(u) THEN "pending" ELSE "absent"],
               eligible <- [u \in Updates |-> Live(u) /\ upd[u].eligible],
               delivered <- {}, Devices <- {}

\* How a step changes a request's stage, its verdict and the cats' locks.
LEMMA StageStep ==
    ASSUME IInv, Next
    PROVE  \/ UNCHANGED <<upd, catLock>>
           \/ \E u \in Updates :
                 /\ \A v \in Updates \ {u} : upd'[v] = upd[v]
                 /\ \/ /\ upd[u].stage \in {"none", "accepted"} /\ upd'[u].stage \in {"accepted", "replayed", "inserted"}
                       /\ UNCHANGED catLock
                    \/ /\ upd[u].stage = "inserted" /\ upd'[u].stage = "locked" /\ upd'[u].cat = upd[u].cat
                       /\ upd[u].cat \in Cats /\ catLock' = [catLock EXCEPT ![upd[u].cat] = u]
                    \/ /\ upd[u].stage = "locked" /\ upd'[u].stage = "enqueued" /\ upd'[u].cat = upd[u].cat
                       /\ UNCHANGED catLock
                    \/ /\ upd[u].stage = "enqueued" /\ upd'[u].stage = "live" /\ upd'[u].eligible = upd[u].eligible
                       /\ upd[u].cat \in Cats /\ catLock' = [catLock EXCEPT ![upd[u].cat] = None]
                    \/ /\ Unanswered(u) /\ upd'[u].stage = "failed"
                       /\ catLock' = [c \in Cats |-> IF catLock[c] = u THEN None ELSE catLock[c]]
                    \/ /\ Live(u) /\ upd'[u].stage = "live" /\ upd'[u].eligible = upd[u].eligible
                       /\ UNCHANGED catLock
<1>0. ASSUME NEW u \in Updates PROVE upd[u] \in Row
  BY DEF IInv, TypeOK
<1>d. DOMAIN upd = Updates
  BY DEF IInv, TypeOK
<1> DEFINE Others(u) == \A v \in Updates \ {u} : upd'[v] = upd[v]
           Opens(u) == /\ upd[u].stage \in {"none", "accepted"}
                       /\ upd'[u].stage \in {"accepted", "replayed", "inserted"} /\ UNCHANGED catLock
           Corrected(u) == /\ Live(u) /\ upd'[u].stage = "live" /\ upd'[u].eligible = upd[u].eligible
                        /\ UNCHANGED catLock
<1>1. CASE Tick \/ \E c \in Cats : DeleteCat(c)
  BY <1>1 DEF Tick, DeleteCat
<1>2. ASSUME NEW u \in Updates, NEW c \in Cats, NEW a \in Users, NEW k \in Keys \cup {None},
             NEW h \in BOOLEAN, NEW s \in BOOLEAN,
             AcceptOrdinaryUpdate(u, c, a, k, h, s) \/ AcceptNeedsHelpUpdate(u, c, a)
      PROVE  Others(u) /\ Opens(u)
  <2>1. upd'[u].stage = "accepted"
    BY <1>2, <1>d, ZenonT(60) DEF AcceptOrdinaryUpdate, AcceptNeedsHelpUpdate, NoRow
  <2>2. Others(u) /\ upd[u].stage = "none" /\ UNCHANGED catLock
    BY <1>2, <1>d DEF AcceptOrdinaryUpdate, AcceptNeedsHelpUpdate
  <2> QED BY <2>1, <2>2
<1>3. ASSUME NEW u \in Updates, NEW a \in Users, NEW k \in Keys, ReplayExisting(u, a, k) PROVE Others(u) /\ Opens(u)
  <2>1. PICK p \in SameRequest(a, k) :
           upd' = [upd EXCEPT ![u] = [NoRow EXCEPT !.stage = "replayed", !.author = a, !.key = k, !.result = p]]
    BY <1>3 DEF ReplayExisting
  <2>2. upd'[u].stage = "replayed"
    BY <2>1, <1>d, ZenonT(60) DEF NoRow
  <2>3. Others(u) /\ upd[u].stage = "none" /\ UNCHANGED catLock
    BY <1>3, <2>1, <1>d DEF ReplayExisting
  <2> QED BY <2>2, <2>3
<1>4. ASSUME NEW u \in Updates, InsertUpdate(u) \/ InsertConflict(u) PROVE Others(u) /\ Opens(u)
  BY <1>4, <1>0, <1>d DEF InsertUpdate, InsertConflict, Row
<1>5. ASSUME NEW u \in Updates, UpdateCatLastUpdateAt(u)
      PROVE  /\ Others(u) /\ upd[u].stage = "inserted" /\ upd'[u].stage = "locked" /\ upd'[u].cat = upd[u].cat
             /\ upd[u].cat \in Cats /\ catLock' = [catLock EXCEPT ![upd[u].cat] = u]
  BY <1>5, <1>0, <1>d DEF UpdateCatLastUpdateAt, IInv, RowInv, InTx, Row
<1>6. ASSUME NEW u \in Updates, CreateNotificationOutbox(u)
      PROVE  /\ Others(u) /\ upd[u].stage = "locked" /\ upd'[u].stage = "enqueued" /\ upd'[u].cat = upd[u].cat
             /\ UNCHANGED catLock
  <2> DEFINE e == EligibleVerdict(u)
  <2>1. /\ upd' = [upd EXCEPT ![u] = [@ EXCEPT !.stage = "enqueued", !.eligible = e]]
        /\ upd[u].stage = "locked" /\ UNCHANGED catLock
    BY <1>6 DEF CreateNotificationOutbox
  <2> HIDE DEF e
  <2> QED BY <2>1, <1>0, <1>d DEF Row
<1>7. ASSUME NEW u \in Updates, CommitUpdate(u)
      PROVE  /\ Others(u) /\ upd[u].stage = "enqueued" /\ upd'[u].stage = "live" /\ upd'[u].eligible = upd[u].eligible
             /\ upd[u].cat \in Cats /\ catLock' = [catLock EXCEPT ![upd[u].cat] = None]
  BY <1>7, <1>0, <1>d DEF CommitUpdate, IInv, RowInv, InTx, Row
<1>8. ASSUME NEW u \in Updates, RollbackUpdate(u)
      PROVE  /\ Others(u) /\ Unanswered(u) /\ upd'[u].stage = "failed"
             /\ catLock' = [c \in Cats |-> IF catLock[c] = u THEN None ELSE catLock[c]]
  BY <1>8, <1>0, <1>d DEF RollbackUpdate, Unanswered, Row
<1>9. ASSUME NEW u \in Updates, NEW clear \in BOOLEAN, NEW replace \in {"keep", "empty", "set"},
             CorrectOwnUpdate(u, clear, replace)
      PROVE  Others(u) /\ Corrected(u)
  BY <1>9, <1>0, <1>d DEF CorrectOwnUpdate, Correctable, Live, Row
<1>10. ASSUME NEW u \in Updates, DeleteOwnUpdate(u) PROVE Others(u) /\ Corrected(u)
  BY <1>10, <1>0, <1>d DEF DeleteOwnUpdate, Correctable, Live, Row
<1> HIDE DEF Others
<1>11. CASE \E u \in Updates : CommitUpdate(u)
  BY <1>7, <1>11 DEF Others
<1>12. CASE \E u \in Updates : RollbackUpdate(u)
  BY <1>8, <1>12 DEF Others
<1>13. CASE \E u \in Updates : UpdateCatLastUpdateAt(u) \/ CreateNotificationOutbox(u)
  BY <1>5, <1>6, <1>13 DEF Others
<1> HIDE DEF Opens, Corrected
<1>14. CASE \E u \in Updates : Others(u) /\ (Opens(u) \/ Corrected(u))
  BY <1>14 DEF Others, Opens, Corrected
<1>15. ASSUME ~Tick, ~ \E c \in Cats : DeleteCat(c), ~ \E u \in Updates : CommitUpdate(u),
              ~ \E u \in Updates : RollbackUpdate(u),
              ~ \E u \in Updates : UpdateCatLastUpdateAt(u) \/ CreateNotificationOutbox(u)
       PROVE  \E u \in Updates : Others(u) /\ (Opens(u) \/ Corrected(u))
  BY <1>2, <1>3, <1>4, <1>9, <1>10, <1>15, ZenonT(60) DEF Next
<1> QED BY <1>1, <1>11, <1>12, <1>13, <1>14, <1>15

LEMMA LocksStep == ASSUME IInv, LocksLive, [Next]_vars PROVE LocksLive'
<1>0. catLock \in [Cats -> Updates \cup {None}]
  BY DEF IInv, TypeOK
<1>1. CASE UNCHANGED <<upd, catLock>>
  BY <1>1 DEF LocksLive
<1>2. ASSUME NEW u \in Updates, \A v \in Updates \ {u} : upd'[v] = upd[v],
             \/ /\ upd[u].stage \notin {"locked", "enqueued"} /\ UNCHANGED catLock
             \/ /\ upd[u].stage = "locked" /\ upd'[u].stage = "enqueued" /\ upd'[u].cat = upd[u].cat
                /\ UNCHANGED catLock
      PROVE  LocksLive'
  BY <1>2 DEF LocksLive
<1>3. ASSUME NEW u \in Updates, \A v \in Updates \ {u} : upd'[v] = upd[v],
             upd[u].stage = "inserted", upd'[u].stage = "locked", upd'[u].cat = upd[u].cat,
             upd[u].cat \in Cats, catLock' = [catLock EXCEPT ![upd[u].cat] = u]
      PROVE  LocksLive'
  BY <1>0, <1>3 DEF LocksLive
<1>4. ASSUME NEW u \in Updates, \A v \in Updates \ {u} : upd'[v] = upd[v],
             upd[u].stage = "enqueued", upd[u].cat \in Cats, catLock' = [catLock EXCEPT ![upd[u].cat] = None]
      PROVE  LocksLive'
  BY <1>0, <1>4 DEF LocksLive
<1>5. ASSUME NEW u \in Updates, \A v \in Updates \ {u} : upd'[v] = upd[v],
             catLock' = [c \in Cats |-> IF catLock[c] = u THEN None ELSE catLock[c]]
      PROVE  LocksLive'
  BY <1>0, <1>5 DEF LocksLive
<1>6. Next => LocksLive'
  BY <1>1, <1>2, <1>3, <1>4, <1>5, StageStep DEF Live
<1> QED BY <1>1, <1>6 DEF vars

LEMMA LocksSafety == Spec => [](IInv /\ LocksLive)
<1>1. Init => LocksLive
  BY DEF Init, LocksLive
<1>2. IInv /\ LocksLive /\ [Next]_vars => (IInv /\ LocksLive)'
  BY IInvStep, LocksStep
<1> QED BY <1>1, <1>2, IInvInit, PTL DEF Spec

\* No chain of waits of creating requests is longer than two, and each ends in a request that
\* can go on: what holds EveryRequestEnds up in every state (CreateUpdate's unique key, then
\* UpdateCatLastUpdateAt's row lock; withTx releases both at the end).
THEOREM WaitChainsEnd == Spec => [](LocksLive /\ WaitsEnd)
<1>1. IInv /\ LocksLive => WaitsEnd
  <2> SUFFICES ASSUME IInv, LocksLive, NEW u \in Updates, Unanswered(u), ~CanStep(u)
               PROVE  \E v \in Updates : Blocks(v, u) /\ (CanStep(v) \/ \E w \in Updates : Blocks(w, v) /\ CanStep(w))
    BY DEF WaitsEnd
  <2>1. ASSUME NEW v \in Updates, upd[v].stage = "inserted", ~CanStep(v)
        PROVE  \E w \in Updates : Blocks(w, v) /\ CanStep(w)
    <3>1. upd[v].cat \in Cats /\ catLock[upd[v].cat] # None
      BY <2>1 DEF CanStep, IInv, RowInv, InTx
    <3>2. catLock[upd[v].cat] \in Updates /\ upd[catLock[upd[v].cat]].stage \in {"locked", "enqueued"}
      BY <3>1 DEF LocksLive
    <3> QED BY <2>1, <3>2 DEF Blocks, CanStep
  <2>2. CASE upd[u].stage = "inserted"
    BY <2>1, <2>2
  <2>3. CASE upd[u].stage = "accepted"
    <3>1. PICK v \in Updates : /\ v # u /\ upd[v].stage \in InTx /\ upd[v].key # None
                               /\ upd[v].key = upd[u].key /\ upd[v].author = upd[u].author
      BY <2>3 DEF CanStep, KeyFree
    <3>2. Blocks(v, u)
      BY <2>3, <3>1 DEF Blocks
    <3>3. CanStep(v) \/ upd[v].stage = "inserted"
      BY <3>1 DEF CanStep, InTx
    <3> QED BY <2>1, <3>2, <3>3
  <2> QED BY <2>2, <2>3 DEF Unanswered, CanStep, InTx
<1> QED BY <1>1, LocksSafety, PTL

\* The write side enqueues as AlertOutbox promises: an update enters the outbox once, in the
\* commit that makes its row visible, and its verdict never changes afterwards, not by a
\* correction or a deletion either (CreateNotificationOutbox inside the creating transaction).
THEOREM EnqueuesOnce == Spec => Outbox!Spec
<1>1. ASSUME Init PROVE Outbox!Init
  <2>1. \A u \in Updates : ~Live(u)
    BY <1>1 DEF Init, Live, NoRow
  <2>2. [u \in Updates |-> IF Live(u) THEN "pending" ELSE "absent"] = [u \in Updates |-> "absent"]
    BY <2>1
  <2>3. \A u \in Updates : (Live(u) /\ upd[u].eligible) = FALSE
    BY <2>1, Zenon
  <2>4. [u \in Updates |-> Live(u) /\ upd[u].eligible] = [u \in Updates |-> FALSE]
    BY <2>3, Zenon
  <2> QED BY <2>2, <2>4 DEF Outbox!Init
<1>2. ASSUME IInv, [Next]_vars PROVE [Outbox!Next]_(Outbox!ovars)
  <2> DEFINE st == [u \in Updates |-> IF Live(u) THEN "pending" ELSE "absent"]
             el == [u \in Updates |-> Live(u) /\ upd[u].eligible]
             st1 == [u \in Updates |-> IF Live(u)' THEN "pending" ELSE "absent"]
             el1 == [u \in Updates |-> Live(u)' /\ upd'[u].eligible]
  <2>1. ASSUME \A v \in Updates : (Live(v)' <=> Live(v)) /\ (Live(v) => upd'[v].eligible = upd[v].eligible)
        PROVE  st1 = st /\ el1 = el
    BY <2>1
  <2>2. st1 = st /\ el1 = el => UNCHANGED Outbox!ovars
    BY DEF Outbox!ovars
  <2>3. UNCHANGED upd => \A v \in Updates : (Live(v)' <=> Live(v)) /\ (Live(v) => upd'[v].eligible = upd[v].eligible)
    BY DEF Live
  <2>4. ASSUME NEW u \in Updates, \A v \in Updates \ {u} : upd'[v] = upd[v], ~Live(u), upd'[u].stage # "live"
        PROVE  \A v \in Updates : (Live(v)' <=> Live(v)) /\ (Live(v) => upd'[v].eligible = upd[v].eligible)
    BY <2>4 DEF Live
  <2>5. ASSUME NEW u \in Updates, \A v \in Updates \ {u} : upd'[v] = upd[v],
               Live(u), upd'[u].stage = "live", upd'[u].eligible = upd[u].eligible
        PROVE  \A v \in Updates : (Live(v)' <=> Live(v)) /\ (Live(v) => upd'[v].eligible = upd[v].eligible)
    BY <2>5 DEF Live
  <2>6. ASSUME NEW u \in Updates, \A v \in Updates \ {u} : upd'[v] = upd[v],
               upd[u].stage = "enqueued", upd'[u].stage = "live", upd'[u].eligible = upd[u].eligible
        PROVE  Outbox!Next
    <3>1. PICK e \in BOOLEAN : e = upd[u].eligible
      BY <1>2 DEF IInv, TypeOK, Row
    <3>2. /\ ~Live(u) /\ Live(u)' /\ \A v \in Updates \ {u} : (Live(v)' <=> Live(v)) /\ upd'[v].eligible = upd[v].eligible
      BY <2>6 DEF Live
    <3>3. st[u] = "absent" /\ st1 = [st EXCEPT ![u] = "pending"]
      BY <3>2
    <3>4. el1 = [el EXCEPT ![u] = e]
      <4>1. \A v \in Updates \ {u} : (Live(v)' /\ upd'[v].eligible) = (Live(v) /\ upd[v].eligible)
        BY <3>2, Zenon
      <4>2. (Live(u)' /\ upd'[u].eligible) = e
        BY <2>6, <3>1, <3>2, Zenon
      <4>3. \A v \in Updates : el1[v] = [el EXCEPT ![u] = e][v]
        BY <4>1, <4>2, Zenon
      <4> QED BY <4>3, Zenon
    <3>5. Outbox!Enqueue(u, e)
      BY <3>3, <3>4 DEF Outbox!Enqueue
    <3> QED BY <3>5, Zenon DEF Outbox!Next
  <2> HIDE DEF st, el, st1, el1
  <2>7. Next => Outbox!Next \/ UNCHANGED Outbox!ovars
    BY <1>2, <2>1, <2>2, <2>3, <2>4, <2>5, <2>6, StageStep DEF Live, Unanswered, InTx
  <2>8. UNCHANGED vars => UNCHANGED Outbox!ovars
    BY <2>1, <2>2, <2>3 DEF vars
  <2> QED BY <1>2, <2>7, <2>8
<1> QED BY <1>1, <1>2, IInvInit, IInvStep, PTL DEF Spec, Outbox!Spec

=============================================================================
