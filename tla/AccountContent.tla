--------------------------- MODULE AccountContent ---------------------------
(***************************************************************************)
(* What an account stores and how it is removed: POST /v1/media and POST   *)
(* /v1/cats with their object and their rows, updates that attach a photo, *)
(* cover changes and reports, and DELETE /v1/me over all of them.          *)
(*                                                                         *)
(* A database statement outside a transaction is one step.  The account    *)
(* deletion is one transaction under READ COMMITTED: every statement sees  *)
(* what others have committed, others see nothing of it until it commits,  *)
(* and a foreign key makes the later of two conflicting writers wait.      *)
(*                                                                         *)
(* A request's attempt mints an object key, a media id and a cat id; the   *)
(* request stands for all three.  Tables that hang on the account as       *)
(* leaves and are written here by nobody (notifications, follows, blocks,  *)
(* devices, refresh tokens, codes) are left out.                           *)
(***************************************************************************)
EXTENDS Integers, Sequences, FiniteSets

CONSTANTS
    Accounts,
    Leaver,         \* the account that is deleted
    Requests,       \* uploads and cat creations
    Settled,        \* those of Requests that succeeded long ago
    Posts,          \* updates being written
    Files,          \* reports being written
    Keys,           \* Idempotency-Key values
    None,
    MaxOps,         \* bound on the uploads, updates and reports begun beside the deletion
    MaxFaults       \* bound on lost answers, failed calls, cancelled and crashed requests

ASSUME LeaverAssumption == Leaver \in Accounts
ASSUME NoneAssumption == None \notin Requests
ASSUME SettledAssumption == Settled \subseteq Requests
ASSUME BoundAssumption == MaxOps \in Nat /\ MaxFaults \in Nat

VARIABLES
    req,            \* request |-> an upload or a cat creation
    object,         \* keys in the object store
    db,             \* table |-> its committed rows
    cover,          \* cats.primary_photo_id
    post,           \* update |-> the request that writes it
    file,           \* report |-> the request that writes it
    tx,             \* the account deletion
    dead,           \* table |-> rows the open deletion has deleted
    faults,
    excused,        \* history: objects a fault has kept from their cleanup
    lost,           \* history: rows whose committed insert was answered with an error
    late            \* history: media committed while the present deletion runs or the last one ran

rows == <<db, cover>>
history == <<excused, lost, late>>
vars == <<req, object, rows, post, file, tx, dead, faults, history>>

Tables == {"users", "cats", "media", "cat_media", "updates", "update_statuses",
           "notification_outbox", "reports"}
Nothing == [t \in Tables |-> {}]

Statements_CoversLate == <<"notification_outbox", "update_statuses", "updates", "reports",
                           "cat_media", "cats", "media", "covers", "users">>

\* Store.DeleteAccount's statements on these tables, in their order.
Statements == <<"notification_outbox", "update_statuses", "updates", "reports", "covers",
                "cat_media", "cats", "media", "users">>

Request == [pc: {"idle", "fresh", "stored", "waiting", "conflict", "cleanup", "done"}, kind: {"media", "cat"},
            by: Accounts, key: Keys \cup {None}, row: Requests \cup {None}]
Post == [pc: {"none", "checked", "open", "done"}, by: Accounts, cat: Requests \cup {None},
         media: Requests \cup {None}]
File == [pc: {"none", "checked", "done"}, by: Accounts, type: {"cat", "update", "media"},
         target: Requests \cup Posts \cup {None}, raced: BOOLEAN]
Tx == [pc: {"none", "running", "erasing", "over"}, next: 1..Len(Statements), keys: SUBSET Requests,
       cleared: SUBSET Requests, disturbed: BOOLEAN]

Row(t) == CASE t = "users" -> Accounts
            [] t \in {"cats", "media"} -> Requests
            [] t = "cat_media" -> Requests \X Requests
            [] t = "reports" -> Files
            [] OTHER -> Posts

TypeOK == /\ req \in [Requests -> Request]
          /\ object \subseteq Requests
          /\ DOMAIN db = Tables /\ \A t \in Tables : db[t] \subseteq Row(t)
          /\ DOMAIN dead = Tables /\ \A t \in Tables : dead[t] \subseteq db[t]
          /\ cover \in [Requests -> Requests \cup {None}]
          /\ post \in [Posts -> Post]
          /\ file \in [Files -> File]
          /\ tx \in Tx
          /\ faults \in 0..MaxFaults
          /\ excused \subseteq Requests /\ lost \subseteq Requests /\ late \subseteq Requests

By(x, a) == req[x].by = a
Running == tx.pc = "running"
Disturbed == tx' = [tx EXCEPT !.disturbed = @ \/ Running]
Fault == faults < MaxFaults /\ faults' = faults + 1

Begun == {r \in Requests \ Settled : req[r].pc # "idle"} \cup {u \in Posts : post[u].pc # "none"}
            \cup {f \in Files : file[f].pc # "none"}
MayBegin == Cardinality(Begun) < MaxOps

NoTx == [pc |-> "none", next |-> 1, keys |-> {}, cleared |-> {}, disturbed |-> FALSE]
Idle(a) == [pc |-> "idle", kind |-> "media", by |-> a, key |-> None, row |-> None]

\* Some uploads and cat creations have succeeded; everyone else is idle.
Init ==
    /\ \E kind \in [Settled -> {"media", "cat"}], by \in [Settled -> Accounts] :
          /\ req = [r \in Requests |->
                      IF r \in Settled
                      THEN [pc |-> "done", kind |-> kind[r], by |-> by[r], key |-> None, row |-> r]
                      ELSE Idle(Leaver)]
          /\ LET cats == {r \in Settled : kind[r] = "cat"} IN
             /\ db = [Nothing EXCEPT !["users"] = Accounts, !["media"] = Settled, !["cats"] = cats,
                                     !["cat_media"] = {<<c, c>> : c \in cats}]
             /\ cover = [r \in Requests |-> IF r \in cats THEN r ELSE None]
    /\ object = Settled
    /\ post = [u \in Posts |-> [pc |-> "none", by |-> Leaver, cat |-> None, media |-> None]]
    /\ file = [f \in Files |-> [pc |-> "none", by |-> Leaver, type |-> "cat", target |-> None, raced |-> FALSE]]
    /\ tx = NoTx /\ dead = Nothing
    /\ faults = 0 /\ excused = {} /\ lost = {} /\ late = {}

----------------------------------------------------------------------------
(* MediaService.Upload and CatsService.Create *)

\* The row an earlier request created under this request's key.
Holder(kind, by, key) ==
    {x \in db[IF kind = "cat" THEN "cats" ELSE "media"] :
        req[x].kind = kind /\ By(x, by) /\ key # None /\ req[x].key = key}

\* A rejected photo, a near duplicate and a failed read return here with no effect.
Lookup(r) ==
    /\ req[r].pc = "idle"
    /\ MayBegin
    /\ \E kind \in {"media", "cat"}, by \in Accounts, key \in Keys \cup {None} :
          LET found == Holder(kind, by, key) IN
          req' = [req EXCEPT ![r] =
                    [pc |-> IF found = {} THEN "fresh" ELSE "done", kind |-> kind, by |-> by, key |-> key,
                     row |-> IF found = {} THEN None ELSE CHOOSE x \in found : TRUE]]
    /\ UNCHANGED <<object, rows, post, file, tx, dead, faults, history>>

StoreObject(r) ==
    /\ req[r].pc = "fresh"
    /\ object' = object \cup {r}
    /\ req' = [req EXCEPT ![r].pc = "stored"]
    /\ UNCHANGED <<rows, post, file, tx, dead, faults, history>>

\* The store answers with an error although it has kept the object.
StoreObjectFails(r) ==
    /\ req[r].pc = "fresh"
    /\ Fault
    /\ object' = object \cup {r}
    /\ req' = [req EXCEPT ![r].pc = "done"]
    /\ excused' = excused \cup {r}
    /\ UNCHANGED <<rows, post, file, tx, dead, lost, late>>

Conflict(r) == Holder(req[r].kind, req[r].by, req[r].key)
\* An insert waits for a deletion that has deleted its account or the row it conflicts with.
InsertWaits(r) == \/ req[r].by \in dead["users"]
                  \/ Conflict(r) \cap (dead["media"] \cup dead["cats"]) # {}
Inserting(r) == req[r].pc \in {"stored", "waiting"}
MayInsert(r) == req[r].by \in db["users"] /\ Conflict(r) = {}

\* CreateMedia, or CreateCatWithMedia: media, cats and cat_media together.
InsertRows(r) ==
    /\ db' = [db EXCEPT !["media"] = @ \cup {r},
                        !["cats"] = @ \cup (IF req[r].kind = "cat" THEN {r} ELSE {}),
                        !["cat_media"] = @ \cup (IF req[r].kind = "cat" THEN {<<r, r>>} ELSE {})]
    /\ cover' = [cover EXCEPT ![r] = IF req[r].kind = "cat" THEN r ELSE None]
    /\ late' = IF Running THEN late \cup {r} ELSE late
    /\ Disturbed

\* The media row of CreateCatWithMedia is in, and keeps the account's row locked, while its cat
\* waits for the deletion to end.
CatWaits(r) ==
    /\ req[r].pc = "stored" /\ req[r].kind = "cat"
    /\ req[r].by \in db["users"]
    /\ InsertWaits(r)
    /\ req' = [req EXCEPT ![r].pc = "waiting"]
    /\ Disturbed
    /\ UNCHANGED <<object, rows, post, file, dead, faults, history>>

Insert_NoConflict(r) ==
    /\ Inserting(r)
    /\ req[r].by \notin dead["users"]
    /\ req[r].by \in db["users"]
    /\ InsertRows(r)
    /\ req' = [req EXCEPT ![r].pc = "done", ![r].row = r]
    /\ UNCHANGED <<object, post, file, dead, faults, excused, lost>>

Insert(r) ==
    /\ Inserting(r)
    /\ ~InsertWaits(r)
    /\ MayInsert(r)
    /\ InsertRows(r)
    /\ req' = [req EXCEPT ![r].pc = "done", ![r].row = r]
    /\ UNCHANGED <<object, post, file, dead, faults, excused, lost>>

\* The key's index or the account's foreign key turns the insert down.
InsertRefused(r) ==
    /\ Inserting(r)
    /\ ~InsertWaits(r)
    /\ ~MayInsert(r)
    /\ req' = [req EXCEPT ![r].pc = IF Conflict(r) # {} THEN "conflict" ELSE "cleanup"]
    /\ UNCHANGED <<object, rows, post, file, tx, dead, faults, history>>

\* The connection breaks during the insert; the rows may have been committed.
InsertLost(r) ==
    /\ Inserting(r)
    /\ Fault
    /\ req' = [req EXCEPT ![r].pc = "cleanup"]
    /\ \/ /\ ~InsertWaits(r) /\ MayInsert(r)
          /\ InsertRows(r)
          /\ lost' = lost \cup {r}
       \/ UNCHANGED <<rows, late, lost, tx>>
    /\ UNCHANGED <<object, post, file, dead, excused>>

\* recoverFromCreateFailure, recoverFromCreateCatFailure: the conflicting row is read again ...
Recover(r) ==
    /\ req[r].pc = "conflict"
    /\ req' = [req EXCEPT ![r].pc = "cleanup",
                          ![r].row = IF Conflict(r) = {} THEN None ELSE CHOOSE x \in Conflict(r) : TRUE]
    /\ UNCHANGED <<object, rows, post, file, tx, dead, faults, history>>

Cleanup_OnlyErrors(r) ==
    /\ req[r].pc = "cleanup"
    /\ req' = [req EXCEPT ![r].pc = "done"]
    /\ object' = IF req[r].row = None THEN object \ {r} ELSE object
    /\ UNCHANGED <<rows, post, file, tx, dead, faults, history>>

\* ... and the object of this attempt is deleted, whatever the read has found.
Cleanup(r) ==
    /\ req[r].pc = "cleanup"
    /\ req' = [req EXCEPT ![r].pc = "done"]
    /\ \/ object' = object \ {r} /\ UNCHANGED <<faults, excused>>
       \/ Fault /\ excused' = excused \cup {r} /\ UNCHANGED object
    /\ UNCHANGED <<rows, post, file, tx, dead, lost, late>>

\* The client hangs up, which cancels every later call of the request, or the process dies.
RequestDies(r) ==
    /\ req[r].pc \in {"fresh", "stored", "waiting", "conflict", "cleanup"}
    /\ Fault
    /\ req' = [req EXCEPT ![r].pc = "done", ![r].row = None]
    /\ excused' = excused \cup ({r} \cap object)
    /\ \/ /\ Inserting(r) /\ ~InsertWaits(r) /\ MayInsert(r)
          /\ InsertRows(r)
       \/ UNCHANGED <<rows, late, tx>>
    /\ UNCHANGED <<object, post, file, dead, lost>>

----------------------------------------------------------------------------
(* CatsService.CreateOrdinaryUpdate with a photo, SetCoverPhoto *)

\* The reads before the transaction: the cat exists and the photo is the author's own.
PostCheck(u) ==
    /\ post[u].pc = "none"
    /\ MayBegin
    /\ \E by \in Accounts, c \in db["cats"], m \in db["media"] \cup {None} :
          /\ m # None => By(m, by)
          /\ post' = [post EXCEPT ![u] = [pc |-> "checked", by |-> by, cat |-> c, media |-> m]]
    /\ UNCHANGED <<req, object, rows, file, tx, dead, faults, history>>

\* The rows an update refers to: the insert locks them, and waits for a deletion of one.
ParentsAmong(u, d) == \/ post[u].by \in d["users"]
                      \/ post[u].cat \in d["cats"]
                      \/ post[u].media \in d["media"]
ParentsExist(u) == /\ post[u].by \in db["users"]
                   /\ post[u].cat \in db["cats"]
                   /\ post[u].media \in db["media"] \cup {None}

PostInsert(u) ==
    /\ post[u].pc = "checked"
    /\ ~ParentsAmong(u, dead)
    /\ post' = [post EXCEPT ![u].pc = IF ParentsExist(u) THEN "open" ELSE "done"]
    /\ Disturbed
    /\ UNCHANGED <<req, object, rows, file, dead, faults, history>>

\* The transaction goes on to the cat's row and to the photo archive, where it may
\* find a row the deletion has changed.
PostWaits(u) == \/ post[u].cat \in tx.cleared
                \/ <<post[u].cat, post[u].media>> \in dead["cat_media"]

PostCommit(u) ==
    /\ post[u].pc = "open"
    /\ ~PostWaits(u)
    /\ post' = [post EXCEPT ![u].pc = "done"]
    /\ db' = [db EXCEPT !["updates"] = @ \cup {u}, !["update_statuses"] = @ \cup {u},
                        !["notification_outbox"] = @ \cup {u},
                        !["cat_media"] = @ \cup (IF post[u].media = None THEN {}
                                                 ELSE {<<post[u].cat, post[u].media>>})]
    /\ Disturbed
    /\ UNCHANGED <<req, object, cover, file, dead, faults, history>>

PostFails(u) ==
    /\ post[u].pc = "open"
    /\ Fault
    /\ post' = [post EXCEPT ![u].pc = "done"]
    /\ UNCHANGED <<req, object, rows, file, tx, dead, history>>

SetCoverPhoto(c, m) ==
    /\ c \in db["cats"] \ dead["cats"] /\ c \notin tx.cleared
    /\ <<c, m>> \in db["cat_media"] /\ m \notin dead["media"]
    /\ cover[c] # m
    /\ cover' = [cover EXCEPT ![c] = m]
    /\ Disturbed
    /\ UNCHANGED <<req, object, db, post, file, dead, faults, history>>

----------------------------------------------------------------------------
(* ReportsService.Create *)

targetExists(type, x) == CASE type = "cat" -> x \in db["cats"]
                           [] type = "media" -> x \in db["media"]
                           [] type = "update" -> x \in db["updates"]

ReportCheck(f) ==
    /\ file[f].pc = "none"
    /\ MayBegin
    /\ \E by \in Accounts, type \in {"cat", "update", "media"}, x \in Requests \cup Posts :
          /\ targetExists(type, x)
          /\ file' = [file EXCEPT ![f] = [pc |-> "checked", by |-> by, type |-> type, target |-> x, raced |-> FALSE]]
    /\ UNCHANGED <<req, object, rows, post, tx, dead, faults, history>>

\* The open report of this account on this target, to which a repeated one is resolved.
OpenReport(f) == {g \in db["reports"] : /\ file[g].by = file[f].by
                                        /\ file[g].type = file[f].type /\ file[g].target = file[f].target}

\* reports.target_id has no foreign key; reporter_user_id has one.
CreateReport(f) ==
    /\ file[f].pc = "checked"
    /\ file[f].by \notin dead["users"]
    /\ OpenReport(f) \cap dead["reports"] = {}
    /\ file' = [file EXCEPT ![f].pc = "done",
                            ![f].raced = Running \/ ~targetExists(file[f].type, file[f].target)]
    /\ db' = [db EXCEPT !["reports"] = @ \cup (IF file[f].by \in db["users"] /\ OpenReport(f) = {} THEN {f} ELSE {})]
    /\ Disturbed
    /\ UNCHANGED <<req, object, cover, post, dead, faults, history>>

----------------------------------------------------------------------------
(* AccountsService.Delete and Store.DeleteAccount *)

\* What a statement of the deletion sees.
Seen(t) == db[t] \ dead[t]
SeenCover(c) == IF c \in tx.cleared THEN None ELSE cover[c]
OwnCats == {c \in Seen("cats") : By(c, Leaver)}
OwnMedia == {m \in Seen("media") : By(m, Leaver)}
OwnUpdates == {u \in Seen("updates") : post[u].by = Leaver \/ post[u].cat \in OwnCats}

\* ListAccountObjectKeys.
ObjectKeys == OwnMedia \cup {m \in Seen("media") : \E c \in OwnCats : <<c, m>> \in Seen("cat_media")}

OwnReports_Filed == {f \in Seen("reports") : file[f].by = Leaver}

\* DeleteAccountReports.
OwnReports == {f \in Seen("reports") :
                  \/ file[f].by = Leaver
                  \/ file[f].type = "cat" /\ file[f].target \in OwnCats
                  \/ file[f].type = "update" /\ file[f].target \in OwnUpdates
                  \/ file[f].type = "media" /\ file[f].target \in OwnMedia}

\* The rows each statement deletes.
Doomed(t) == CASE t \in {"notification_outbox", "update_statuses"} -> Seen(t) \cap OwnUpdates
               [] t = "updates" -> OwnUpdates
               [] t = "reports" -> OwnReports
               [] t = "cat_media" -> {p \in Seen("cat_media") : p[1] \in OwnCats \/ p[2] \in OwnMedia}
               [] t = "cats" -> OwnCats
               [] t = "media" -> OwnMedia
               [] t = "users" -> {Leaver}

\* A row of another table refers to row x of table t.
Referenced(t, x) ==
    CASE t = "updates" -> x \in Seen("update_statuses") \cup Seen("notification_outbox")
      [] t = "cats" -> \/ \E p \in Seen("cat_media") : p[1] = x
                       \/ \E u \in Seen("updates") \cup Seen("notification_outbox") : post[u].cat = x
      [] t = "media" -> \/ \E p \in Seen("cat_media") : p[2] = x
                        \/ \E u \in Seen("updates") : post[u].media = x
                        \/ \E c \in Seen("cats") : SeenCover(c) = x
      [] t = "users" -> \/ \E y \in Seen("cats") \cup Seen("media") : By(y, x)
                        \/ \E u \in Seen("updates") : post[u].by = x
                        \/ \E f \in Seen("reports") : file[f].by = x
      [] OTHER -> FALSE

Statement == Statements[tx.next]
\* The next statement deletes a row that an open transaction has locked.
WaitsFor(u) == /\ Running /\ Statement \in {"cats", "media", "users"}
               /\ post[u].pc = "open"
               /\ ParentsAmong(u, [Nothing EXCEPT ![Statement] = Doomed(Statement)])
LocksAccount(r) == Running /\ Statement = "users" /\ req[r].pc = "waiting" /\ By(r, Leaver)

\* Another request has a transaction open.
OthersOpen == \/ \E u \in Posts : post[u].pc = "open"
              \/ \E r \in Requests : req[r].pc = "waiting"

\* An account that is already gone answers success and changes nothing.
BeginDelete ==
    /\ tx.pc = "none"
    /\ tx' = [NoTx EXCEPT !.pc = "running", !.keys = ObjectKeys, !.disturbed = OthersOpen]
    /\ UNCHANGED <<req, object, rows, post, file, dead, faults, history>>

\* Rows committed meanwhile are there for the next attempt to list.
Rollback == tx' = NoTx /\ dead' = Nothing /\ late' = {}

\* The last statement deletes the account; with it the transaction commits.
Committed ==
    /\ db' = [t \in Tables |-> db[t] \ (IF t = "users" THEN {Leaver} ELSE dead[t])]
    /\ cover' = [c \in Requests |-> IF c \in Seen("cats") THEN SeenCover(c) ELSE None]
    /\ tx' = [NoTx EXCEPT !.pc = "erasing", !.keys = tx.keys]

Commit_KeepsDead == Committed /\ UNCHANGED dead
Commit == Committed /\ dead' = Nothing

DeleteStatement ==
    /\ Running /\ Statement # "covers"
    /\ ~\E u \in Posts : WaitsFor(u)
    /\ ~\E r \in Requests : LocksAccount(r)
    /\ \/ /\ \E x \in Doomed(Statement) : Referenced(Statement, x)
          /\ Rollback
          /\ UNCHANGED rows
       \/ /\ ~\E x \in Doomed(Statement) : Referenced(Statement, x)
          /\ IF Statement = "users"
             THEN Commit
             ELSE /\ dead' = [dead EXCEPT ![Statement] = @ \cup Doomed(Statement)]
                  /\ tx' = [tx EXCEPT !.next = @ + 1]
                  /\ UNCHANGED rows
          /\ UNCHANGED late
    /\ UNCHANGED <<req, object, post, file, faults, excused, lost>>

ClearCovers ==
    /\ Running /\ Statement = "covers"
    /\ tx' = [tx EXCEPT !.next = @ + 1, !.cleared = {c \in Seen("cats") : cover[c] \in OwnMedia}]
    /\ UNCHANGED <<req, object, rows, post, file, dead, faults, history>>

\* Postgres aborts one of two transactions that wait for each other.
Deadlock(u) ==
    /\ WaitsFor(u) /\ PostWaits(u)
    /\ \/ Rollback /\ UNCHANGED post
       \/ post' = [post EXCEPT ![u].pc = "done"] /\ UNCHANGED <<tx, dead, late>>
    /\ UNCHANGED <<req, object, rows, file, faults, excused, lost>>

CatDeadlock(r) ==
    /\ LocksAccount(r) /\ InsertWaits(r)
    /\ \/ Rollback /\ UNCHANGED req
       \/ req' = [req EXCEPT ![r].pc = "cleanup"] /\ UNCHANGED <<tx, dead, late>>
    /\ UNCHANGED <<object, rows, post, file, faults, excused, lost>>

\* The objects are deleted after the commit, a failure is only logged.
EraseObject(k) ==
    /\ tx.pc = "erasing" /\ k \in tx.keys
    /\ tx' = [tx EXCEPT !.keys = @ \ {k}, !.pc = IF tx.keys = {k} THEN "over" ELSE @]
    /\ \/ object' = object \ {k} /\ UNCHANGED <<faults, excused>>
       \/ Fault /\ excused' = excused \cup {k} /\ UNCHANGED object
    /\ UNCHANGED <<req, rows, post, file, dead, lost, late>>

NothingToErase ==
    /\ tx.pc = "erasing" /\ tx.keys = {}
    /\ tx' = [tx EXCEPT !.pc = "over"]
    /\ UNCHANGED <<req, object, rows, post, file, dead, faults, history>>

\* The process dies or the connection breaks: before the commit nothing has happened, after it
\* (also when only its answer is lost) a retry finds no account and answers success.
DeleteDies ==
    /\ tx.pc \in {"running", "erasing"}
    /\ Fault
    /\ \/ Running /\ Rollback /\ UNCHANGED excused
       \/ /\ ~Running
          /\ tx' = [NoTx EXCEPT !.pc = "over"]
          /\ excused' = excused \cup tx.keys
          /\ UNCHANGED <<dead, late>>
    /\ UNCHANGED <<req, object, rows, post, file, lost>>

----------------------------------------------------------------------------
UploadStep(r) == \/ Lookup(r) \/ StoreObject(r) \/ StoreObjectFails(r) \/ Insert(r) \/ InsertRefused(r)
                 \/ InsertLost(r) \/ Recover(r) \/ Cleanup(r) \/ RequestDies(r)
WaitStep(r) == CatWaits(r) \/ CatDeadlock(r)
PostStep(u) == PostCheck(u) \/ PostInsert(u) \/ PostCommit(u) \/ PostFails(u) \/ Deadlock(u)
DeleteStep == BeginDelete \/ DeleteStatement \/ ClearCovers \/ NothingToErase \/ DeleteDies
                 \/ \E k \in Requests : EraseObject(k)

Next == \/ \E r \in Requests : UploadStep(r) \/ WaitStep(r)
        \/ \E u \in Posts : PostStep(u)
        \/ \E c, m \in Requests : SetCoverPhoto(c, m)
        \/ \E f \in Files : ReportCheck(f) \/ CreateReport(f)
        \/ DeleteStep

Spec == Init /\ [][Next]_vars

----------------------------------------------------------------------------
\* Requests that present one Idempotency-Key for one account are answered with one row, however
\* their lookups, uploads, inserts and recoveries overlap (MediaService.Upload, CatsService.Create).
SameKeySameRow ==
    \A r, s \in Requests :
       (/\ req[r].pc = "done" /\ req[s].pc = "done"
        /\ req[r].key # None /\ req[r].key = req[s].key
        /\ req[r].kind = req[s].kind /\ req[r].by = req[s].by
        /\ req[r].row # None /\ req[s].row # None) => req[r].row = req[s].row

\* An object without a row is still being worked on, or was kept by a fault, or its row was
\* committed after the account deletion had listed the keys (recoverFromCreateFailure,
\* recoverFromCreateCatFailure, Store.DeleteAccount, AccountsService.Delete).
LeakNeedsFaultOrRace ==
    \A o \in object \ db["media"] :
       \/ req[o].pc # "done"
       \/ tx.pc = "erasing" /\ o \in tx.keys
       \/ o \in excused \cup late

\* A media row has lost its object only if its committed insert was answered with an error, or its
\* photo was posted to a cat of the deleted account (recoverFromCreateFailure, ListAccountObjectKeys).
RowKeepsObject ==
    \A m \in db["media"] \ object :
       \/ m \in lost
       \/ \E u \in Posts : post[u].pc = "done" /\ post[u].media = m /\ By(post[u].cat, Leaver)

\* The object store and the media table agree but for these named causes, across uploads,
\* compensations, deletions and faults.
ObjectsMatchRows == LeakNeedsFaultOrRace /\ RowKeepsObject

\* The deletion runs into a foreign key or a deadlock only when another request wrote, or had a
\* transaction open, while it ran: its statements go from children to parents (Store.DeleteAccount).
AbortNeedsOverlap ==
    [][Running /\ tx'.pc = "none" => tx.disturbed \/ faults' # faults]_vars

\* A report on a cat or a photo outlives its target only if it was filed during the deletion or
\* its target went between the check and the insert (DeleteAccountReports, ReportsService.Create).
DanglingReportNeedsRace ==
    \A f \in db["reports"] :
       file[f].type # "update" /\ ~targetExists(file[f].type, file[f].target) => file[f].raced

\* No report outlives its target, unless it was filed while the target was being removed
\* (the comment of DeleteAccountReports).
NoDanglingReport ==
    \A f \in db["reports"] : targetExists(file[f].type, file[f].target) \/ file[f].raced
=============================================================================
