------------------------ MODULE AccountContentProofs ------------------------
(***************************************************************************)
(* Proofs about AccountContent, for any number of accounts, uploads,       *)
(* updates, reports and faults.                                            *)
(***************************************************************************)
EXTENDS AccountContent, TLAPS

----------------------------------------------------------------------------
(* The inductive invariant *)

\* A request that may have a row: its account, kind and key no longer change.
Fixed(x) == req[x].pc \in {"cleanup", "done"}
Table(kind) == IF kind = "cat" THEN "cats" ELSE "media"
SameKey(x, y) == req[x].kind = req[y].kind /\ req[x].by = req[y].by /\ req[x].key = req[y].key

\* The deletion has not committed.
Before == tx.pc \in {"none", "running"}

\* Rows belong to requests past their insert, and to an account that exists.
Rooted == /\ \A x \in db["media"] \cup db["cats"] : Fixed(x) /\ req[x].by \in db["users"]
          /\ ~Before => Leaver \notin db["users"]

\* One row per key; a request was answered with that row, and with no other while the
\* account is there.
KeyIndex == \A x, y \in Requests : SameKey(x, y) /\ req[x].key # None
    /\ x \in db[Table(req[x].kind)] /\ y \in db[Table(req[x].kind)] => x = y
Answered == \A r \in Requests : req[r].row # None =>
    /\ req[r].row \in Requests /\ Fixed(r) /\ Fixed(req[r].row) /\ SameKey(r, req[r].row)
    /\ req[r].row \in db[Table(req[r].kind)] \/ req[r].by \notin db["users"]
OneAnswer == \A r, s \in Requests :
    req[r].row # None /\ req[s].row # None /\ SameKey(r, s) /\ req[r].key # None => req[r].row = req[s].row

\* The rows the open deletion has deleted: of tables its statements have passed, and of
\* uploads and cats only the account's own.
Deleting == /\ ~Running => \A t \in Tables : dead[t] = {}
            /\ tx.next <= 3 => dead["updates"] = {}
            /\ tx.next <= 7 => dead["cats"] = {}
            /\ tx.next <= 8 => dead["media"] = {}
            /\ dead["users"] = {}
            /\ \A x \in dead["cats"] \cup dead["media"] : By(x, Leaver)

\* An update under way or written: its cat and its photo have been seen, the photo is its
\* author's; until the deletion commits the cat is there.
Written == \A u \in Posts : post[u].pc # "none" =>
    /\ post[u].cat \in Requests /\ Fixed(post[u].cat)
    /\ post[u].media # None => /\ post[u].media \in Requests /\ Fixed(post[u].media)
                               /\ By(post[u].media, post[u].by)
    /\ Before => post[u].cat \in db["cats"]
Hanging == /\ \A u \in db["updates"] \cup db["update_statuses"] \cup db["notification_outbox"] : post[u].pc = "done"
           /\ Before => db["update_statuses"] \cup db["notification_outbox"] \subseteq db["updates"]

\* Where an object stands before its row, and a row whose object is about to be deleted.
Stored == \A r \in Requests : /\ req[r].pc \in {"idle", "fresh"} => r \notin object
                              /\ Inserting(r) => r \in object
                              /\ req[r].pc = "cleanup" /\ r \in db["media"] => r \in lost

\* How a photo came to a cat's archive, and to the keys the deletion listed.
Posted(c, m) == \E u \in Posts : post[u].pc = "done" /\ post[u].cat = c /\ post[u].media = m
Archived == \A p \in db["cat_media"] : p[1] = p[2] \/ Posted(p[1], p[2])
Listed == /\ \A k \in tx.keys : Fixed(k) /\ (By(k, Leaver) \/ \E c \in Requests : By(c, Leaver) /\ Fixed(c) /\ Posted(c, k))
          /\ Running => \A m \in db["media"] : By(m, Leaver) => m \in tx.keys \cup late
          /\ Before => late \subseteq db["media"]

\* A report filed in time has its target, and the deletion takes it with an own target.
Filed == \A f \in db["reports"] :
    /\ file[f].pc = "done"
    /\ Running /\ tx.next > 4 /\ f \notin dead["reports"] /\ ~file[f].raced /\ file[f].type # "update"
          => ~By(file[f].target, Leaver)

\* An update of the deletion's account, or of one of its cats.
Own(u) == post[u].by = Leaver \/ By(post[u].cat, Leaver)

\* What a deletion that nobody has disturbed leaves behind it, statement by statement.
Swept ==
    /\ \A u \in Posts : post[u].pc # "open"
    /\ tx.next > 1 => \A u \in Seen("notification_outbox") : ~Own(u)
    /\ tx.next > 2 => \A u \in Seen("update_statuses") : ~Own(u)
    /\ tx.next > 3 => \A u \in Seen("updates") : ~Own(u)
    /\ tx.next > 4 => \A f \in Seen("reports") : file[f].by # Leaver
    /\ tx.next > 5 => \A c \in Seen("cats") : SeenCover(c) \notin OwnMedia
    /\ tx.next > 6 => \A p \in Seen("cat_media") : p[1] \notin OwnCats /\ p[2] \notin OwnMedia
    /\ tx.next > 7 => OwnCats = {}
    /\ tx.next > 8 => OwnMedia = {}
Undisturbed == Running /\ ~tx.disturbed => Swept

IInv == /\ TypeOK /\ Rooted /\ KeyIndex /\ Answered /\ OneAnswer /\ Deleting /\ Written /\ Hanging
        /\ Stored /\ Archived /\ Listed /\ Filed /\ Undisturbed
        /\ ObjectsMatchRows /\ DanglingReportNeedsRace

----------------------------------------------------------------------------
(* Facts about the operators *)

\* The nine statements of Store.DeleteAccount.
LEMMA TheStatements ==
    ASSUME NEW n \in 1..Len(Statements)
    PROVE  /\ Len(Statements) = 9 /\ n \in 1..9
           /\ n = 1 => Statements[n] = "notification_outbox"
           /\ n = 2 => Statements[n] = "update_statuses"
           /\ n = 3 => Statements[n] = "updates"
           /\ n = 4 => Statements[n] = "reports"
           /\ n = 5 => Statements[n] = "covers"
           /\ n = 6 => Statements[n] = "cat_media"
           /\ n = 7 => Statements[n] = "cats"
           /\ n = 8 => Statements[n] = "media"
           /\ n = 9 => Statements[n] = "users"
BY DEF Statements

\* Another request has written beside the deletion.
LEMMA DisturbedFields ==
    ASSUME tx \in Tx, Disturbed
    PROVE  /\ tx' \in Tx /\ tx'.pc = tx.pc /\ tx'.next = tx.next /\ tx'.keys = tx.keys
           /\ tx'.cleared = tx.cleared /\ (Running => tx'.disturbed)
<1>1. /\ tx'.pc = tx.pc /\ tx'.next = tx.next /\ tx'.keys = tx.keys
      /\ tx'.cleared = tx.cleared /\ tx'.disturbed = (tx.disturbed \/ Running)
      /\ tx' = [pc |-> tx.pc, next |-> tx.next, keys |-> tx.keys, cleared |-> tx.cleared,
                disturbed |-> (tx.disturbed \/ Running)]
  BY DEF Disturbed, Tx
<1>2. (tx.disturbed \/ Running) \in BOOLEAN
  BY Zenon
<1> QED BY <1>1, <1>2 DEF Tx

\* What every request keeps: with a row, its account, kind and key.
Kept == \A x \in Requests : Fixed(x) => /\ Fixed(x)' /\ req'[x].by = req[x].by
                                        /\ req'[x].kind = req[x].kind /\ req'[x].key = req[x].key

\* The deletion goes on as it was, if marked.
Marked == tx' = tx \/ Disturbed

LEMMA MarkedFields ==
    ASSUME TypeOK, Marked
    PROVE  /\ tx' \in Tx /\ tx'.pc = tx.pc /\ tx'.next = tx.next /\ tx'.keys = tx.keys
           /\ tx'.cleared = tx.cleared /\ (Running /\ ~tx'.disturbed => tx' = tx)
BY DisturbedFields DEF Marked, TypeOK

\* A step of one request that leaves the tables alone disturbs nothing else.
LEMMA RequestFrame ==
    ASSUME IInv, Kept, Marked, UNCHANGED <<db, cover, post, file, dead, late>>
    PROVE  /\ Rooted' /\ KeyIndex' /\ Deleting' /\ Written' /\ Hanging' /\ Archived'
           /\ Listed' /\ Filed' /\ Undisturbed' /\ DanglingReportNeedsRace'
<1> USE DEF IInv
<1>0. /\ tx'.pc = tx.pc /\ tx'.next = tx.next /\ tx'.keys = tx.keys /\ tx'.cleared = tx.cleared
      /\ Running /\ ~tx'.disturbed => tx' = tx
  BY MarkedFields
<1>1. /\ db["media"] \subseteq Requests /\ db["cats"] \subseteq Requests
      /\ dead["media"] \subseteq db["media"] /\ dead["cats"] \subseteq db["cats"]
      /\ db["updates"] \subseteq Posts /\ db["notification_outbox"] \subseteq Posts
      /\ db["update_statuses"] \subseteq Posts /\ tx.keys \subseteq Requests
  BY DEF TypeOK, Row, Tables, Tx
<1>2. Rooted' /\ Hanging' /\ Archived' /\ DanglingReportNeedsRace'
  BY <1>0, <1>1 DEF Rooted, Kept, Fixed, Before, Hanging, Archived, Posted, DanglingReportNeedsRace, targetExists
<1>3. KeyIndex'
  <2>1. \A x \in Requests : x \in db["media"] \cup db["cats"] => Fixed(x)
    BY DEF Rooted
  <2> QED BY <2>1 DEF KeyIndex, SameKey, Table, Kept
<1>4. Deleting'
  BY <1>0, <1>1 DEF Deleting, Rooted, Kept, By, Running
<1>5. Written'
  BY <1>0 DEF Written, Kept, By, Before
<1>6. Listed'
  <2>1. \A k \in tx.keys : (Fixed(k) /\ (By(k, Leaver) \/ \E c \in Requests : By(c, Leaver) /\ Fixed(c) /\ Posted(c, k)))'
    BY <1>0, <1>1 DEF Listed, Kept, By, Posted
  <2>2. \A m \in db["media"] : Fixed(m)
    BY DEF Rooted
  <2> QED BY <1>0, <1>1, <2>1, <2>2 DEF Listed, Kept, By, Running, Before
<1>7. Filed'
  <2>1. ASSUME NEW f \in db["reports"], ~file[f].raced, file[f].type # "update"
        PROVE  file[f].target \in db["media"] \cup db["cats"]
    <3>1. file[f].type \in {"cat", "media"}
      BY <2>1 DEF TypeOK, Row, Tables, File
    <3> QED BY <2>1, <3>1 DEF DanglingReportNeedsRace, targetExists
  <2> QED BY <1>0, <1>1, <2>1 DEF Filed, Rooted, Kept, By, Running
<1>8. Undisturbed'
  <2>1. \A x \in db["media"] \cup db["cats"] : By(x, Leaver)' <=> By(x, Leaver)
    BY <1>1 DEF Rooted, Kept, By
  <2>2. OwnCats' = OwnCats /\ OwnMedia' = OwnMedia
    BY <2>1 DEF OwnCats, OwnMedia, Seen
  <2>3. \A u \in Posts : post[u].pc # "none" => (Own(u)' <=> Own(u))
    BY DEF Written, Kept, Own, By
  <2>4. \A u \in db["updates"] \cup db["update_statuses"] \cup db["notification_outbox"] : Own(u)' <=> Own(u)
    BY <1>1, <2>3 DEF Hanging
  <2> QED BY <1>0, <2>2, <2>4 DEF Undisturbed, Swept, Running, Seen, SeenCover
<1> QED BY <1>2, <1>3, <1>4, <1>5, <1>6, <1>7, <1>8

----------------------------------------------------------------------------
(* MediaService.Upload and CatsService.Create *)

\* A request moves on.
LEMMA RequestMoves ==
    ASSUME TypeOK, NEW r \in Requests, NEW v \in Request, req' = [req EXCEPT ![r] = v]
    PROVE  req' \in [Requests -> Request] /\ req'[r] = v /\ \A x \in Requests \ {r} : req'[x] = req[x]
BY DEF TypeOK

\* The row found under a key is the one every earlier request with it was answered with.
LEMMA HolderUnique ==
    ASSUME IInv, NEW kind, NEW by, NEW key, NEW x \in Holder(kind, by, key),
           NEW s \in Requests, req[s].row # None, req[s].kind = kind, req[s].by = by, req[s].key = key
    PROVE  req[s].row = x
<1> USE DEF IInv
<1>1. /\ x \in db[Table(kind)] /\ x \in Requests /\ req[x].kind = kind /\ req[x].by = by
      /\ req[x].key = key /\ key # None
  BY DEF Holder, Table, By, TypeOK, Row, Tables
<1>2. by \in db["users"]
  BY <1>1 DEF Rooted, Table
<1>3. req[s].row \in Requests /\ SameKey(s, req[s].row) /\ req[s].row \in db[Table(kind)]
  BY <1>2 DEF Answered
<1> QED BY <1>1, <1>3 DEF KeyIndex, SameKey

\* A step of an upload or of a cat creation that leaves the tables alone.
LEMMA AttemptStep ==
    ASSUME IInv, NEW r \in Requests, NEW v \in Request, req' = [req EXCEPT ![r] = v],
           Marked, UNCHANGED <<db, cover, post, file, dead, late, lost>>,
           faults' \in 0..MaxFaults, object' \subseteq Requests, excused' \subseteq Requests,
           Fixed(r) => /\ v.pc \in {"cleanup", "done"}
                       /\ v.kind = req[r].kind /\ v.by = req[r].by /\ v.key = req[r].key,
           v.row # None => /\ v.pc \in {"cleanup", "done"}
                           /\ \/ Fixed(r) /\ v.row = req[r].row
                              \/ v.row \in Holder(v.kind, v.by, v.key),
           v.pc \in {"idle", "fresh"} => r \notin object',
           v.pc \in {"stored", "waiting"} => r \in object',
           v.pc = "cleanup" /\ r \in db["media"] => r \in lost,
           \A x \in Requests \ {r} : x \in object' <=> x \in object,
           excused \subseteq excused',
           v.pc = "done" /\ r \in object' \ db["media"] =>
               r \in excused' \/ (req[r].pc = "done" /\ r \in object),
           r \in db["media"] \ object' => r \in lost \/ r \notin object
    PROVE  IInv'
<1> USE DEF IInv
<1>1. req' \in [Requests -> Request] /\ req'[r] = v /\ \A x \in Requests \ {r} : req'[x] = req[x]
  BY RequestMoves
<1>2. Kept
  BY <1>1 DEF Kept, Fixed
<1>3. /\ Rooted' /\ KeyIndex' /\ Deleting' /\ Written' /\ Hanging' /\ Archived'
      /\ Listed' /\ Filed' /\ Undisturbed' /\ DanglingReportNeedsRace'
  BY <1>2, RequestFrame
<1>4. TypeOK' /\ tx'.pc = tx.pc /\ tx'.keys = tx.keys
  BY <1>1, MarkedFields DEF TypeOK
<1>5. ASSUME NEW x \in Holder(v.kind, v.by, v.key)
      PROVE  /\ x \in Requests /\ Fixed(x) /\ Fixed(x)' /\ x \in db[Table(v.kind)]
             /\ req'[x].kind = v.kind /\ req'[x].by = v.by /\ req'[x].key = v.key
  <2>1. /\ x \in db[Table(v.kind)] /\ x \in Requests /\ req[x].kind = v.kind /\ req[x].by = v.by
        /\ req[x].key = v.key
    BY DEF Holder, Table, By, TypeOK, Row, Tables
  <2>2. Fixed(x)
    BY <2>1 DEF Rooted, Table
  <2> QED BY <1>2, <2>1, <2>2 DEF Kept
<1>6. Answered'
  <2>1. ASSUME NEW s \in Requests, req'[s].row # None, s # r \/ (Fixed(r) /\ v.row = req[r].row)
        PROVE  /\ req'[s].row \in Requests /\ Fixed(s)' /\ Fixed(req[s].row)' /\ SameKey(s, req[s].row)'
               /\ req'[s].row = req[s].row
               /\ req[s].row \in db[Table(req[s].kind)] \/ req[s].by \notin db["users"]
               /\ req'[s].kind = req[s].kind /\ req'[s].by = req[s].by
    <3>1. req'[s].row = req[s].row
      BY <1>1, <2>1
    <3>2. /\ req[s].row \in Requests /\ Fixed(s) /\ Fixed(req[s].row) /\ SameKey(s, req[s].row)
          /\ req[s].row \in db[Table(req[s].kind)] \/ req[s].by \notin db["users"]
      BY <2>1, <3>1 DEF Answered
    <3> QED BY <1>2, <3>1, <3>2 DEF Kept, SameKey
  <2>2. ASSUME v.row # None, v.row \in Holder(v.kind, v.by, v.key)
        PROVE  /\ v.row \in Requests /\ Fixed(r)' /\ Fixed(v.row)' /\ SameKey(r, v.row)'
               /\ v.row \in db[Table(v.kind)]
    BY <1>1, <1>5, <2>2 DEF SameKey, Fixed
  <2> QED BY <1>1, <2>1, <2>2 DEF Answered, Fixed, SameKey
<1>7. OneAnswer'
  <2>1. ASSUME NEW s \in Requests, req'[s].row # None, s # r
        PROVE  /\ req'[s] = req[s]
               /\ v.row # None /\ v.key # None /\ v.kind = req[s].kind /\ v.by = req[s].by /\ v.key = req[s].key
                     => v.row = req[s].row
    <3>1. req'[s] = req[s]
      BY <1>1, <2>1
    <3>2. ASSUME v.row \in Holder(v.kind, v.by, v.key), v.kind = req[s].kind, v.by = req[s].by, v.key = req[s].key
          PROVE  v.row = req[s].row
      BY <2>1, <3>1, <3>2, HolderUnique
    <3>3. ASSUME Fixed(r), v.row = req[r].row, v.row # None, v.key # None,
                 v.kind = req[s].kind, v.by = req[s].by, v.key = req[s].key
          PROVE  v.row = req[s].row
      BY <2>1, <3>1, <3>3 DEF OneAnswer, SameKey
    <3> QED BY <3>1, <3>2, <3>3
  <2> QED BY <1>1, <2>1 DEF OneAnswer, SameKey
<1>8. Stored'
  BY <1>1 DEF Stored, Inserting
<1>9. ObjectsMatchRows'
  <2>1. LeakNeedsFaultOrRace'
    BY <1>1, <1>4 DEF ObjectsMatchRows, LeakNeedsFaultOrRace, TypeOK
  <2>2. RowKeepsObject'
    <3>1. db["media"] \subseteq Requests
      BY DEF TypeOK, Row, Tables
    <3>2. ASSUME NEW m \in db["media"] \ object' PROVE m \in lost \/ m \notin object
      BY <3>1
    <3>3. \A u \in Posts : post[u].pc # "none" /\ By(post[u].cat, Leaver) => By(post[u].cat, Leaver)'
      BY <1>2 DEF Written, Kept, By
    <3> QED BY <3>2, <3>3 DEF ObjectsMatchRows, RowKeepsObject
  <2> QED BY <2>1, <2>2 DEF ObjectsMatchRows
<1> QED BY <1>3, <1>4, <1>6, <1>7, <1>8, <1>9

\* Rows and the requests that own them: an idle, uploading or refused request has none.
LEMMA NoRowYet ==
    ASSUME IInv, NEW r \in Requests, ~Fixed(r)
    PROVE  r \notin db["media"] /\ r \notin db["cats"] /\ req[r].row = None
BY DEF IInv, Rooted, Answered

\* The lookup by key, the upload of the object, and an upload that fails.
LEMMA UploadSteps ==
    ASSUME IInv, NEW r \in Requests, Lookup(r) \/ StoreObject(r) \/ StoreObjectFails(r)
    PROVE  IInv'
<1> USE DEF IInv
<1>0. req[r] \in Request /\ req \in [Requests -> Request]
  BY DEF TypeOK
<1>1. CASE Lookup(r)
  <2>1. PICK kind \in {"media", "cat"}, by \in Accounts, key \in Keys \cup {None} :
           req' = [req EXCEPT ![r] =
                    [pc |-> IF Holder(kind, by, key) = {} THEN "fresh" ELSE "done", kind |-> kind,
                     by |-> by, key |-> key,
                     row |-> IF Holder(kind, by, key) = {} THEN None ELSE CHOOSE x \in Holder(kind, by, key) : TRUE]]
    BY <1>1 DEF Lookup
  <2> DEFINE found == Holder(kind, by, key)
             v == [pc |-> IF found = {} THEN "fresh" ELSE "done", kind |-> kind, by |-> by, key |-> key,
                   row |-> IF found = {} THEN None ELSE CHOOSE x \in found : TRUE]
  <2>2. found \subseteq Requests /\ (found # {} => (CHOOSE x \in found : TRUE) \in found)
    BY DEF Holder, TypeOK, Row, Tables
  <2>3. /\ v \in Request /\ v.kind = kind /\ v.by = by /\ v.key = key
        /\ v.pc \in {"fresh", "done"} /\ (v.row # None => v.row \in found /\ v.pc = "done")
    <3> HIDE DEF found
    <3> QED BY <2>2 DEF Request
  <2>4. req' = [req EXCEPT ![r] = v]
    BY <2>1
  <2> HIDE DEF v
  <2>5. req[r].pc = "idle" /\ r \notin object /\ ~Fixed(r)
    BY <1>1 DEF Lookup, Stored, Inserting, Fixed
  <2>6. UNCHANGED <<object, db, cover, post, file, tx, dead, faults, excused, lost, late>>
    BY <1>1 DEF Lookup, rows, history
  <2> QED BY <2>3, <2>4, <2>5, <2>6, NoRowYet, AttemptStep DEF TypeOK, Marked
<1>2. CASE StoreObject(r)
  <2> DEFINE v == [req[r] EXCEPT !.pc = "stored"]
  <2>1. v \in Request /\ v.pc = "stored" /\ v.row = req[r].row
    BY <1>0 DEF Request
  <2>2. req' = [req EXCEPT ![r] = v]
    BY <1>0, <1>2 DEF StoreObject
  <2> HIDE DEF v
  <2>3. ~Fixed(r) /\ object' = object \cup {r}
    BY <1>2 DEF StoreObject, Fixed
  <2>4. UNCHANGED <<db, cover, post, file, tx, dead, faults, excused, lost, late>>
    BY <1>2 DEF StoreObject, rows, history
  <2> QED BY <2>1, <2>2, <2>3, <2>4, NoRowYet, AttemptStep DEF TypeOK, Marked
<1>3. CASE StoreObjectFails(r)
  <2> DEFINE v == [req[r] EXCEPT !.pc = "done"]
  <2>1. v \in Request /\ v.pc = "done" /\ v.row = req[r].row
    BY <1>0 DEF Request
  <2>2. req' = [req EXCEPT ![r] = v]
    BY <1>0, <1>3 DEF StoreObjectFails
  <2> HIDE DEF v
  <2>3. ~Fixed(r) /\ object' = object \cup {r} /\ excused' = excused \cup {r}
    BY <1>3 DEF StoreObjectFails, Fixed
  <2>4. UNCHANGED <<db, cover, post, file, tx, dead, lost, late>> /\ faults' \in 0..MaxFaults
    BY <1>3, BoundAssumption DEF StoreObjectFails, Fault, rows, TypeOK
  <2> QED BY <2>1, <2>2, <2>3, <2>4, NoRowYet, AttemptStep DEF TypeOK, Marked
<1> QED BY <1>1, <1>2, <1>3

\* A refused insert, the read of the conflicting row and the cleanup of the object.
LEMMA RecoverySteps ==
    ASSUME IInv, NEW r \in Requests, InsertRefused(r) \/ Recover(r) \/ Cleanup(r)
    PROVE  IInv'
<1> USE DEF IInv
<1>0. req[r] \in Request /\ req \in [Requests -> Request]
  BY DEF TypeOK
<1>1. CASE InsertRefused(r)
  <2>1. PICK pc \in {"conflict", "cleanup"} : req' = [req EXCEPT ![r].pc = pc]
    BY <1>1 DEF InsertRefused
  <2> DEFINE v == [req[r] EXCEPT !.pc = pc]
  <2>2. v \in Request /\ v.pc = pc /\ v.row = req[r].row
    BY <1>0 DEF Request
  <2>3. req' = [req EXCEPT ![r] = v]
    BY <1>0, <2>1
  <2> HIDE DEF v
  <2>4. ~Fixed(r)
    BY <1>1 DEF InsertRefused, Inserting, Fixed
  <2>5. UNCHANGED <<object, db, cover, post, file, tx, dead, faults, excused, lost, late>>
    BY <1>1 DEF InsertRefused, rows, history
  <2> QED BY <2>2, <2>3, <2>4, <2>5, NoRowYet, AttemptStep DEF TypeOK, Marked
<1>2. CASE Recover(r)
  <2> DEFINE row == IF Conflict(r) = {} THEN None ELSE CHOOSE x \in Conflict(r) : TRUE
             v == [req[r] EXCEPT !.pc = "cleanup", !.row = row]
  <2>1. row \in Requests \cup {None} /\ (row # None => row \in Holder(req[r].kind, req[r].by, req[r].key))
    BY DEF Conflict, Holder, TypeOK, Row, Tables
  <2>2. req' = [req EXCEPT ![r] = v]
    BY <1>0, <1>2 DEF Recover
  <2> HIDE DEF row
  <2>3. /\ v \in Request /\ v.pc = "cleanup" /\ v.row = row
        /\ v.kind = req[r].kind /\ v.by = req[r].by /\ v.key = req[r].key
    BY <1>0, <2>1 DEF Request
  <2> HIDE DEF v
  <2>4. ~Fixed(r)
    BY <1>2 DEF Recover, Fixed
  <2>5. UNCHANGED <<object, db, cover, post, file, tx, dead, faults, excused, lost, late>>
    BY <1>2 DEF Recover, rows, history
  <2> QED BY <2>1, <2>2, <2>3, <2>4, <2>5, NoRowYet, AttemptStep DEF TypeOK, Marked
<1>3. CASE Cleanup(r)
  <2> DEFINE v == [req[r] EXCEPT !.pc = "done"]
  <2>1. /\ v \in Request /\ v.pc = "done" /\ v.row = req[r].row
        /\ v.kind = req[r].kind /\ v.by = req[r].by /\ v.key = req[r].key
    BY <1>0 DEF Request
  <2>2. req' = [req EXCEPT ![r] = v]
    BY <1>0, <1>3 DEF Cleanup
  <2> HIDE DEF v
  <2>3. req[r].pc = "cleanup" /\ Fixed(r) /\ (r \in db["media"] => r \in lost)
    BY <1>3 DEF Cleanup, Fixed, Stored
  <2>4. \/ object' = object \ {r} /\ excused' = excused
        \/ object' = object /\ excused' = excused \cup {r}
    BY <1>3 DEF Cleanup
  <2>5. UNCHANGED <<db, cover, post, file, tx, dead, lost, late>> /\ faults' \in 0..MaxFaults
    BY <1>3, BoundAssumption DEF Cleanup, Fault, rows, TypeOK
  <2> QED BY <2>1, <2>2, <2>3, <2>4, <2>5, AttemptStep DEF TypeOK, Marked
<1> QED BY <1>1, <1>2, <1>3

\* The rows of an insert that is committed.
LEMMA InsertedRows ==
    ASSUME TypeOK, NEW r \in Requests, InsertRows(r)
    PROVE  /\ DOMAIN db' = Tables
           /\ \A t \in Tables \ {"media", "cats", "cat_media"} : db'[t] = db[t]
           /\ db'["media"] = db["media"] \cup {r}
           /\ db'["cats"] = db["cats"] \cup (IF req[r].kind = "cat" THEN {r} ELSE {})
           /\ db'["cat_media"] = db["cat_media"] \cup (IF req[r].kind = "cat" THEN {<<r, r>>} ELSE {})
           /\ cover' \in [Requests -> Requests \cup {None}]
           /\ late' \in {late, late \cup {r}} /\ (Running => r \in late')
           /\ tx' \in Tx /\ tx'.pc = tx.pc /\ tx'.next = tx.next /\ tx'.keys = tx.keys
           /\ tx'.cleared = tx.cleared /\ (Running => tx'.disturbed)
<1>1. /\ DOMAIN db' = Tables
      /\ \A t \in Tables \ {"media", "cats", "cat_media"} : db'[t] = db[t]
      /\ db'["media"] = db["media"] \cup {r}
      /\ db'["cats"] = db["cats"] \cup (IF req[r].kind = "cat" THEN {r} ELSE {})
      /\ db'["cat_media"] = db["cat_media"] \cup (IF req[r].kind = "cat" THEN {<<r, r>>} ELSE {})
  BY DEF InsertRows, TypeOK, Tables
<1>2. cover' \in [Requests -> Requests \cup {None}] /\ late' \in {late, late \cup {r}} /\ (Running => r \in late')
  BY DEF InsertRows, TypeOK
<1>3. /\ tx' \in Tx /\ tx'.pc = tx.pc /\ tx'.next = tx.next /\ tx'.keys = tx.keys
      /\ tx'.cleared = tx.cleared /\ (Running => tx'.disturbed)
  BY DisturbedFields DEF InsertRows, TypeOK
<1> QED BY <1>1, <1>2, <1>3

\* An insert that is committed, whatever its request is told.
LEMMA InsertStep ==
    ASSUME IInv, NEW r \in Requests, NEW v \in Request, req' = [req EXCEPT ![r] = v],
           Inserting(r), MayInsert(r), InsertRows(r),
           UNCHANGED <<object, post, file, dead>>,
           faults' \in 0..MaxFaults, excused' \subseteq Requests, lost' \subseteq Requests,
           excused \subseteq excused', lost \subseteq lost',
           v.kind = req[r].kind, v.by = req[r].by, v.key = req[r].key,
           v.pc \in {"cleanup", "done"}, v.row \in {None, r}, v.pc = "cleanup" => r \in lost'
    PROVE  IInv'
<1> USE DEF IInv
<1>1. req' \in [Requests -> Request] /\ req'[r] = v /\ \A x \in Requests \ {r} : req'[x] = req[x]
  BY RequestMoves
<1>2. Kept /\ ~Fixed(r) /\ Fixed(r)'
  BY <1>1 DEF Kept, Fixed, Inserting
<1>3. r \notin db["media"] /\ r \notin db["cats"] /\ req[r].row = None /\ r \in object
  BY <1>2, NoRowYet DEF Stored, Inserting
<1>4. /\ DOMAIN db' = Tables
      /\ \A t \in Tables \ {"media", "cats", "cat_media"} : db'[t] = db[t]
      /\ db'["media"] = db["media"] \cup {r}
      /\ db'["cats"] = db["cats"] \cup (IF req[r].kind = "cat" THEN {r} ELSE {})
      /\ db'["cat_media"] = db["cat_media"] \cup (IF req[r].kind = "cat" THEN {<<r, r>>} ELSE {})
      /\ cover' \in [Requests -> Requests \cup {None}]
      /\ late' \in {late, late \cup {r}} /\ (Running => r \in late')
      /\ tx' \in Tx /\ tx'.pc = tx.pc /\ tx'.next = tx.next /\ tx'.keys = tx.keys
      /\ tx'.cleared = tx.cleared /\ (Running => tx'.disturbed)
  BY InsertedRows
<1>5. /\ db["media"] \subseteq Requests /\ db["cats"] \subseteq Requests
      /\ dead["media"] \subseteq db["media"] /\ dead["cats"] \subseteq db["cats"]
      /\ tx.keys \subseteq Requests /\ req[r].kind \in {"media", "cat"}
      /\ \A x \in Requests : req[x].kind \in {"media", "cat"}
  BY DEF TypeOK, Row, Tables, Tx, Request
<1>6. /\ db'["users"] = db["users"] /\ db'["updates"] = db["updates"] /\ db'["reports"] = db["reports"]
      /\ db'["update_statuses"] = db["update_statuses"]
      /\ db'["notification_outbox"] = db["notification_outbox"]
  BY <1>4 DEF Tables
<1>7. TypeOK'
  <2>1. \A t \in Tables : db'[t] \subseteq Row(t) /\ dead'[t] \subseteq db'[t]
    <3>1. ASSUME NEW t \in Tables PROVE db[t] \subseteq Row(t) /\ dead[t] \subseteq db[t]
      BY DEF TypeOK
    <3>2. Row("media") = Requests /\ Row("cats") = Requests /\ Row("cat_media") = Requests \X Requests
      BY DEF Row
    <3>3. ASSUME NEW t \in Tables \ {"media", "cats", "cat_media"} PROVE db'[t] \subseteq Row(t) /\ dead'[t] \subseteq db'[t]
      BY <1>4, <3>1
    <3>4. ASSUME NEW t \in {"media", "cats", "cat_media"} PROVE t \in Tables /\ db'[t] \subseteq Row(t) /\ dead'[t] \subseteq db'[t]
      <4>1. t \in Tables
        BY DEF Tables
      <4> QED BY <1>4, <3>1, <3>2, <4>1
    <3> QED BY <3>3, <3>4
  <2> QED BY <1>1, <1>4, <2>1 DEF TypeOK
<1>8. Rooted'
  BY <1>1, <1>2, <1>4, <1>5, <1>6 DEF Rooted, Kept, MayInsert, Before
<1>9. ASSUME NEW y \in Requests, y \in db[Table(req[r].kind)], req[y].kind = req[r].kind,
             req[y].by = req[r].by, req[y].key = req[r].key, req[r].key # None
      PROVE  FALSE
  BY <1>9 DEF MayInsert, Conflict, Holder, Table, By
<1>10. KeyIndex'
  <2>1. ASSUME NEW x \in Requests, NEW y \in Requests, x # y, SameKey(x, y)', req'[x].key # None,
               x \in db'[Table(req'[x].kind)], y \in db'[Table(req'[x].kind)]
        PROVE  FALSE
    <3>1. CASE x = r
      <4>1. req'[y] = req[y] /\ y \in db[Table(req[r].kind)]
        BY <1>1, <1>4, <2>1, <3>1 DEF Table
      <4> QED BY <1>1, <1>9, <2>1, <3>1, <4>1 DEF SameKey
    <3>2. CASE y = r
      <4>1. req'[x] = req[x] /\ x \in db[Table(req[r].kind)]
        BY <1>1, <1>4, <2>1, <3>2 DEF Table, SameKey
      <4> QED BY <1>1, <1>9, <2>1, <3>2, <4>1 DEF SameKey
    <3>3. CASE x # r /\ y # r
      <4>1. req'[x] = req[x] /\ req'[y] = req[y] /\ x \in db[Table(req[x].kind)] /\ y \in db[Table(req[x].kind)]
        BY <1>1, <1>4, <2>1, <3>3 DEF Table
      <4> QED BY <2>1, <4>1 DEF KeyIndex, SameKey
    <3> QED BY <3>1, <3>2, <3>3
  <2> QED BY <2>1 DEF KeyIndex
<1>11. Answered'
  <2>1. ASSUME NEW s \in Requests, s # r, req'[s].row # None
        PROVE  /\ req'[s].row \in Requests /\ Fixed(s)' /\ Fixed(req[s].row)' /\ SameKey(s, req[s].row)'
               /\ req'[s].row = req[s].row
               /\ req'[s].row \in db'[Table(req'[s].kind)] \/ req'[s].by \notin db'["users"]
    <3>1. req'[s] = req[s]
      BY <1>1, <2>1
    <3>2. /\ req[s].row \in Requests /\ Fixed(s) /\ Fixed(req[s].row) /\ SameKey(s, req[s].row)
          /\ req[s].row \in db[Table(req[s].kind)] \/ req[s].by \notin db["users"]
      BY <2>1, <3>1 DEF Answered
    <3> QED BY <1>2, <1>4, <1>6, <3>1, <3>2 DEF Kept, SameKey, Table
  <2>2. ASSUME v.row # None PROVE v.row = r /\ r \in db'[Table(v.kind)]
    BY <1>4, <2>2 DEF Table
  <2> QED BY <1>1, <1>2, <2>1, <2>2 DEF Answered, SameKey
<1>12. OneAnswer'
  <2>1. ASSUME NEW s \in Requests, s # r, req'[s].row # None, SameKey(r, s)', v.key # None PROVE FALSE
    <3>1. req'[s] = req[s] /\ req[s].kind = req[r].kind /\ req[s].by = req[r].by /\ req[s].key = req[r].key
      BY <1>1, <2>1 DEF SameKey
    <3>2. /\ req[s].row \in Requests /\ SameKey(s, req[s].row) /\ req[s].row \in db[Table(req[s].kind)]
      BY <2>1, <3>1 DEF Answered, MayInsert
    <3> QED BY <1>9, <2>1, <3>1, <3>2 DEF SameKey
  <2>2. ASSUME NEW s \in Requests, NEW q \in Requests, s # r, q # r, req'[s].row # None, req'[q].row # None,
               SameKey(q, s)', req'[q].key # None
        PROVE  req'[q].row = req'[s].row
    BY <1>1, <2>2 DEF OneAnswer, SameKey
  <2>3. \A s, q \in Requests : SameKey(q, s)' => SameKey(s, q)' /\ req'[q].key = req'[s].key
    BY DEF SameKey
  <2> QED BY <1>1, <2>1, <2>2, <2>3 DEF OneAnswer
<1>13. Deleting'
  BY <1>2, <1>4, <1>5 DEF Deleting, Rooted, Kept, By, Running
<1>14. Written'
  BY <1>2, <1>4 DEF Written, Kept, By, Before
<1>15. Hanging' /\ Archived'
  BY <1>4, <1>6 DEF Hanging, Archived, Posted, Before
<1>16. Stored'
  BY <1>1, <1>3, <1>4 DEF Stored, Inserting
<1>17. Listed'
  <2>1. \A k \in tx.keys : (Fixed(k) /\ (By(k, Leaver) \/ \E c \in Requests : By(c, Leaver) /\ Fixed(c) /\ Posted(c, k)))'
    BY <1>2, <1>5 DEF Listed, Kept, By, Posted
  <2>2. \A m \in db["media"] : By(m, Leaver)' => By(m, Leaver)
    BY <1>2, <1>5 DEF Rooted, Kept, By
  <2>3. late' \subseteq late \cup {r} /\ late \subseteq late'
    BY <1>4
  <2> QED BY <1>4, <2>1, <2>2, <2>3 DEF Listed, Running, Before
<1>18. DanglingReportNeedsRace'
  BY <1>4, <1>6 DEF DanglingReportNeedsRace, targetExists, TypeOK, Row, Tables, File
<1>19. Filed'
  <2>1. ASSUME NEW f \in db["reports"], ~file[f].raced, file[f].type # "update"
        PROVE  file[f].target \in db["media"] \cup db["cats"]
    <3>1. file[f].type \in {"cat", "media"}
      BY <2>1 DEF TypeOK, Row, Tables, File
    <3> QED BY <2>1, <3>1 DEF DanglingReportNeedsRace, targetExists
  <2> QED BY <1>2, <1>4, <1>5, <1>6, <2>1 DEF Filed, Rooted, Kept, By, Running
<1>20. Undisturbed'
  BY <1>4 DEF Undisturbed, Running
<1>21. ObjectsMatchRows'
  <2>1. LeakNeedsFaultOrRace'
    BY <1>1, <1>3, <1>4 DEF ObjectsMatchRows, LeakNeedsFaultOrRace, TypeOK
  <2>2. RowKeepsObject'
    <3>1. \A u \in Posts : post[u].pc # "none" /\ By(post[u].cat, Leaver) => By(post[u].cat, Leaver)'
      BY <1>2 DEF Written, Kept, By
    <3> QED BY <1>3, <1>4, <3>1 DEF ObjectsMatchRows, RowKeepsObject
  <2> QED BY <2>1, <2>2 DEF ObjectsMatchRows
<1> QED BY <1>7, <1>8, <1>10, <1>11, <1>12, <1>13, <1>14, <1>15, <1>16, <1>17, <1>18, <1>19, <1>20, <1>21

\* The insert, one whose answer is lost, and the death of a request at any point.
LEMMA InsertSteps ==
    ASSUME IInv, NEW r \in Requests, Insert(r) \/ InsertLost(r) \/ RequestDies(r)
    PROVE  IInv'
<1> USE DEF IInv
<1>0. req[r] \in Request /\ req \in [Requests -> Request]
  BY DEF TypeOK
<1>1. CASE Insert(r)
  <2> DEFINE v == [req[r] EXCEPT !.pc = "done", !.row = r]
  <2>1. /\ v \in Request /\ v.pc = "done" /\ v.row = r
        /\ v.kind = req[r].kind /\ v.by = req[r].by /\ v.key = req[r].key
    BY <1>0 DEF Request
  <2>2. req' = [req EXCEPT ![r] = v]
    BY <1>0, <1>1 DEF Insert
  <2> HIDE DEF v
  <2> QED BY <1>1, <2>1, <2>2, InsertStep DEF Insert, TypeOK
<1>2. CASE InsertLost(r)
  <2> DEFINE v == [req[r] EXCEPT !.pc = "cleanup"]
  <2>1. /\ v \in Request /\ v.pc = "cleanup" /\ v.row = req[r].row
        /\ v.kind = req[r].kind /\ v.by = req[r].by /\ v.key = req[r].key
    BY <1>0 DEF Request
  <2>2. req' = [req EXCEPT ![r] = v]
    BY <1>0, <1>2 DEF InsertLost
  <2> HIDE DEF v
  <2>3. ~Fixed(r) /\ Inserting(r) /\ faults' \in 0..MaxFaults /\ UNCHANGED <<object, post, file, dead, excused>>
    BY <1>2, BoundAssumption DEF InsertLost, Inserting, Fixed, Fault, TypeOK
  <2>4. r \notin db["media"] /\ req[r].row = None /\ object \subseteq Requests /\ excused \subseteq Requests
    BY <2>3, NoRowYet DEF TypeOK
  <2>5. CASE MayInsert(r) /\ InsertRows(r) /\ lost' = lost \cup {r}
    BY <2>1, <2>2, <2>3, <2>4, <2>5, InsertStep DEF TypeOK
  <2>6. CASE UNCHANGED <<rows, late, lost, tx>>
    BY <2>1, <2>2, <2>3, <2>4, <2>6, AttemptStep DEF rows, Marked
  <2> QED BY <1>2, <2>5, <2>6 DEF InsertLost
<1>3. CASE RequestDies(r)
  <2> DEFINE v == [req[r] EXCEPT !.pc = "done", !.row = None]
  <2>1. /\ v \in Request /\ v.pc = "done" /\ v.row = None
        /\ v.kind = req[r].kind /\ v.by = req[r].by /\ v.key = req[r].key
    BY <1>0 DEF Request
  <2>2. req' = [req EXCEPT ![r] = v]
    BY <1>0, <1>3 DEF RequestDies
  <2> HIDE DEF v
  <2>3. /\ faults' \in 0..MaxFaults /\ UNCHANGED <<object, post, file, dead, lost>>
        /\ excused' = excused \cup ({r} \cap object)
        /\ excused' \subseteq Requests /\ object \subseteq Requests
    BY <1>3, BoundAssumption DEF RequestDies, Fault, TypeOK
  <2>4. CASE Inserting(r) /\ MayInsert(r) /\ InsertRows(r)
    BY <2>1, <2>2, <2>3, <2>4, InsertStep DEF TypeOK
  <2>5. CASE UNCHANGED <<rows, late, tx>>
    BY <2>1, <2>2, <2>3, <2>5, AttemptStep DEF rows, Marked
  <2> QED BY <1>3, <2>4, <2>5 DEF RequestDies
<1> QED BY <1>1, <1>2, <1>3

\* A cat that waits beside its media row, and a deadlock on the account's row.
LEMMA WaitOutcomes ==
    ASSUME NEW r \in Requests, WaitStep(r)
    PROVE  /\ UNCHANGED <<object, db, cover, post, file, faults, excused, lost>>
           /\ \/ Running /\ Rollback /\ UNCHANGED req
              \/ /\ Inserting(r) /\ Marked /\ UNCHANGED <<dead, late>>
                 /\ \E pc \in {"waiting", "cleanup"} : req' = [req EXCEPT ![r].pc = pc]
BY DEF WaitStep, CatWaits, CatDeadlock, LocksAccount, Inserting, Marked, rows, history

LEMMA WaitSteps ==
    ASSUME IInv, NEW r \in Requests, WaitStep(r), Inserting(r), Marked, UNCHANGED <<dead, late>>,
           \E pc \in {"waiting", "cleanup"} : req' = [req EXCEPT ![r].pc = pc]
    PROVE  IInv'
<1> USE DEF IInv
<1>0. req[r] \in Request /\ req \in [Requests -> Request]
  BY DEF TypeOK
<1>1. PICK pc \in {"waiting", "cleanup"} : req' = [req EXCEPT ![r].pc = pc]
  OBVIOUS
<1> DEFINE v == [req[r] EXCEPT !.pc = pc]
<1>2. v \in Request /\ v.pc = pc /\ v.row = req[r].row
  BY <1>0 DEF Request
<1>3. req' = [req EXCEPT ![r] = v]
  BY <1>0, <1>1
<1> HIDE DEF v
<1>4. ~Fixed(r) /\ r \in object
  BY DEF Inserting, Fixed, Stored
<1>5. UNCHANGED <<object, db, cover, post, file, faults, excused, lost>>
  BY WaitOutcomes
<1> QED BY <1>2, <1>3, <1>4, <1>5, NoRowYet, AttemptStep DEF TypeOK

----------------------------------------------------------------------------
(* Updates, covers and reports *)

\* A step of one update's request that commits nothing.
LEMMA PostMove ==
    ASSUME IInv, NEW u \in Posts, NEW w \in Post, post' = [post EXCEPT ![u] = w],
           UNCHANGED <<req, object, db, cover, file, dead, excused, lost, late>>,
           faults' \in 0..MaxFaults, tx' \in Tx,
           tx'.pc = tx.pc, tx'.next = tx.next, tx'.keys = tx.keys, tx'.cleared = tx.cleared,
           Running => tx'.disturbed \/ (~tx.disturbed => w.pc # "open"),
           tx.disturbed => tx'.disturbed \/ ~Running,
           post[u].pc # "done", w.pc # "none",
           IF post[u].pc = "none"
           THEN w.cat \in db["cats"] /\ (w.media # None => w.media \in db["media"] /\ By(w.media, w.by))
           ELSE w.by = post[u].by /\ w.cat = post[u].cat /\ w.media = post[u].media
    PROVE  IInv'
<1> USE DEF IInv
<1>1. post' \in [Posts -> Post] /\ post'[u] = w /\ \A x \in Posts \ {u} : post'[x] = post[x]
  BY DEF TypeOK
<1>2. /\ db["media"] \subseteq Requests /\ db["cats"] \subseteq Requests
      /\ db["updates"] \subseteq Posts /\ db["notification_outbox"] \subseteq Posts
      /\ db["update_statuses"] \subseteq Posts
  BY DEF TypeOK, Row, Tables
<1>3. TypeOK'
  BY <1>1 DEF TypeOK
<1>4. Rooted' /\ KeyIndex' /\ Answered' /\ OneAnswer' /\ Deleting' /\ Stored'
  BY DEF Rooted, KeyIndex, Answered, OneAnswer, SameKey, Fixed, Deleting, Stored, Inserting, Before, By, Running
<1>5. Written'
  <2>1. \A x \in db["media"] \cup db["cats"] : Fixed(x)
    BY DEF Rooted
  <2> QED BY <1>1, <1>2, <2>1 DEF Written, Fixed, By, Before
<1>6. Hanging'
  BY <1>1, <1>2 DEF Hanging, Before
<1>7. \A x \in Posts : post[x].pc = "done" => post'[x] = post[x]
  BY <1>1
<1>8. \A c, k : Posted(c, k) => Posted(c, k)'
  BY <1>7 DEF Posted
<1>9. Archived' /\ Listed'
  BY <1>8 DEF Archived, Listed, Fixed, By, Running, Before
<1>10. Filed' /\ DanglingReportNeedsRace'
  BY DEF Filed, DanglingReportNeedsRace, targetExists, By, Running
<1>11. Undisturbed'
  <2> SUFFICES ASSUME Running, ~tx'.disturbed PROVE Swept'
    BY DEF Undisturbed, Running
  <2>1. Swept /\ \A x \in Posts : post'[x].pc # "open"
    BY <1>1 DEF Undisturbed, Swept
  <2>2. \A x \in db["updates"] \cup db["update_statuses"] \cup db["notification_outbox"] : Own(x)' <=> Own(x)
    BY <1>2, <1>7 DEF Hanging, Own, By
  <2>3. OwnCats' = OwnCats /\ OwnMedia' = OwnMedia
    BY DEF OwnCats, OwnMedia, Seen, By
  <2> QED BY <2>1, <2>2, <2>3 DEF Swept, Seen, SeenCover
<1>12. ObjectsMatchRows'
  BY <1>7 DEF ObjectsMatchRows, LeakNeedsFaultOrRace, RowKeepsObject, By
<1> QED BY <1>3, <1>4, <1>5, <1>6, <1>9, <1>10, <1>11, <1>12

\* The check, the insert, the failure and the deadlock of an update's transaction.
LEMMA PostSteps ==
    ASSUME IInv, NEW u \in Posts,
           \/ PostCheck(u) \/ PostInsert(u) \/ PostFails(u)
           \/ Deadlock(u) /\ post' = [post EXCEPT ![u].pc = "done"] /\ UNCHANGED <<tx, dead, late>>
    PROVE  IInv'
<1> USE DEF IInv
<1>0. post[u] \in Post /\ post \in [Posts -> Post] /\ tx \in Tx /\ faults \in 0..MaxFaults
  BY DEF TypeOK
<1>1. CASE PostCheck(u)
  <2>1. PICK by \in Accounts, c \in db["cats"], m \in db["media"] \cup {None} :
           /\ m # None => By(m, by)
           /\ post' = [post EXCEPT ![u] = [pc |-> "checked", by |-> by, cat |-> c, media |-> m]]
    BY <1>1 DEF PostCheck
  <2> DEFINE w == [pc |-> "checked", by |-> by, cat |-> c, media |-> m]
  <2>2. w \in Post /\ w.pc = "checked" /\ w.by = by /\ w.cat = c /\ w.media = m
    BY DEF Post, TypeOK, Row, Tables
  <2>3. post' = [post EXCEPT ![u] = w]
    BY <2>1
  <2> HIDE DEF w
  <2>4. UNCHANGED <<req, object, db, cover, file, tx, dead, faults, excused, lost, late>> /\ post[u].pc = "none"
    BY <1>1 DEF PostCheck, rows, history
  <2> QED BY <1>0, <2>1, <2>2, <2>3, <2>4, PostMove
<1>2. ASSUME NEW pc \in {"open", "done"}, post' = [post EXCEPT ![u].pc = pc], post[u].pc \in {"checked", "open"},
             UNCHANGED <<req, object, rows, file, dead, history>>, faults' \in 0..MaxFaults,
             Disturbed \/ (UNCHANGED tx /\ pc = "done")
      PROVE  IInv'
  <2> DEFINE w == [post[u] EXCEPT !.pc = pc]
  <2>1. w \in Post /\ w.pc = pc /\ w.by = post[u].by /\ w.cat = post[u].cat /\ w.media = post[u].media
    BY <1>0 DEF Post
  <2>2. post' = [post EXCEPT ![u] = w]
    BY <1>0, <1>2
  <2> HIDE DEF w
  <2>3. UNCHANGED <<req, object, db, cover, file, dead, excused, lost, late>>
    BY <1>2 DEF rows, history
  <2>4. CASE Disturbed
    BY <1>0, <1>2, <2>1, <2>2, <2>3, <2>4, DisturbedFields, PostMove
  <2>5. CASE UNCHANGED tx /\ pc = "done"
    BY <1>0, <1>2, <2>1, <2>2, <2>3, <2>5, PostMove
  <2> QED BY <1>2, <2>4, <2>5
<1>3. CASE PostInsert(u)
  <2>1. PICK pc \in {"open", "done"} : post' = [post EXCEPT ![u].pc = pc]
    BY <1>3 DEF PostInsert
  <2> QED BY <1>0, <1>2, <1>3, <2>1 DEF PostInsert, history
<1>4. CASE PostFails(u)
  <2>1. faults' \in 0..MaxFaults
    BY <1>4, BoundAssumption DEF PostFails, Fault, TypeOK
  <2> QED BY <1>2, <1>4, <2>1 DEF PostFails
<1>5. CASE Deadlock(u) /\ post' = [post EXCEPT ![u].pc = "done"] /\ UNCHANGED <<tx, dead, late>>
  <2>1. post[u].pc = "open" /\ faults' \in 0..MaxFaults /\ UNCHANGED <<req, object, rows, file, dead, history>>
    BY <1>0, <1>5 DEF Deadlock, WaitsFor, history
  <2> QED BY <1>2, <1>5, <2>1
<1> QED BY <1>1, <1>3, <1>4, <1>5

\* The commit of an update with its statuses, its outbox row and its photo.
LEMMA PostCommitStep == ASSUME IInv, NEW u \in Posts, PostCommit(u) PROVE IInv'
<1> USE DEF IInv
<1>0. post[u] \in Post /\ post \in [Posts -> Post] /\ tx \in Tx /\ post[u].pc = "open"
  BY DEF TypeOK, PostCommit
<1> DEFINE w == [post[u] EXCEPT !.pc = "done"]
           pair == IF post[u].media = None THEN {} ELSE {<<post[u].cat, post[u].media>>}
<1>1. w \in Post /\ w.pc = "done" /\ w.by = post[u].by /\ w.cat = post[u].cat /\ w.media = post[u].media
  BY <1>0 DEF Post
<1>2. post' = [post EXCEPT ![u] = w]
  BY <1>0 DEF PostCommit
<1> HIDE DEF w
<1>3. post' \in [Posts -> Post] /\ post'[u] = w /\ \A x \in Posts \ {u} : post'[x] = post[x]
  BY <1>0, <1>1, <1>2
<1>4. UNCHANGED <<req, object, cover, file, dead, faults, excused, lost, late>>
  BY DEF PostCommit, history
<1>5. /\ tx' \in Tx /\ tx'.pc = tx.pc /\ tx'.next = tx.next /\ tx'.keys = tx.keys
      /\ tx'.cleared = tx.cleared /\ (Running => tx'.disturbed)
  BY <1>0, DisturbedFields DEF PostCommit
<1>6. /\ DOMAIN db' = Tables
      /\ db'["users"] = db["users"] /\ db'["cats"] = db["cats"] /\ db'["media"] = db["media"]
      /\ db'["reports"] = db["reports"]
      /\ db'["updates"] = db["updates"] \cup {u}
      /\ db'["update_statuses"] = db["update_statuses"] \cup {u}
      /\ db'["notification_outbox"] = db["notification_outbox"] \cup {u}
      /\ db'["cat_media"] = db["cat_media"] \cup pair
  BY DEF PostCommit, TypeOK, Tables
<1>7. /\ post[u].cat \in Requests /\ (post[u].media # None => post[u].media \in Requests)
  BY <1>0 DEF Written
<1>8. pair \subseteq Requests \X Requests /\ \A p \in pair : p[1] = post[u].cat /\ p[2] = post[u].media
  BY <1>7
<1> HIDE DEF pair
<1>9. TypeOK'
  <2>1. ASSUME NEW t \in Tables PROVE db'[t] \subseteq Row(t) /\ dead'[t] \subseteq db'[t]
    <3>1. db[t] \subseteq Row(t) /\ dead[t] \subseteq db[t]
      BY DEF TypeOK
    <3>2. CASE t = "cat_media"
      BY <1>4, <1>6, <1>8, <3>1, <3>2 DEF Row
    <3>3. CASE t \in {"updates", "update_statuses", "notification_outbox"}
      BY <1>4, <1>6, <3>1, <3>3 DEF Row
    <3>4. CASE t \in {"users", "cats", "media", "reports"}
      BY <1>4, <1>6, <3>1, <3>4
    <3> QED BY <3>2, <3>3, <3>4 DEF Tables
  <2> QED BY <1>3, <1>4, <1>5, <1>6, <2>1 DEF TypeOK
<1>10. Rooted' /\ KeyIndex' /\ Answered' /\ OneAnswer' /\ Deleting' /\ Stored'
  BY <1>4, <1>5, <1>6 DEF Rooted, KeyIndex, Answered, OneAnswer, SameKey, Table, Fixed, Deleting, Stored, Inserting, Before, By, Running
<1>11. Written' /\ Hanging'
  BY <1>0, <1>1, <1>3, <1>4, <1>5, <1>6 DEF Written, Hanging, Fixed, By, Before, TypeOK, Row, Tables
<1>12. \A x \in Posts : post[x].pc = "done" => post'[x] = post[x]
  BY <1>0, <1>3
<1>13. \A c, k : Posted(c, k) => Posted(c, k)'
  BY <1>12 DEF Posted
<1>14. Archived'
  <2>1. \A p \in pair : Posted(p[1], p[2])'
    BY <1>1, <1>3, <1>8 DEF Posted
  <2> QED BY <1>6, <1>13, <2>1 DEF Archived
<1>15. Listed'
  BY <1>4, <1>5, <1>6, <1>13 DEF Listed, Fixed, By, Running, Before
<1>16. Filed' /\ DanglingReportNeedsRace'
  <2>1. \A f \in db["reports"] : file[f].type \in {"cat", "update", "media"}
    BY DEF TypeOK, Row, Tables, File
  <2>2. DanglingReportNeedsRace'
    BY <1>4, <1>6, <2>1 DEF DanglingReportNeedsRace, targetExists
  <2> QED BY <1>4, <1>5, <1>6, <2>2 DEF Filed, By, Running
<1>17. Undisturbed'
  BY <1>5 DEF Undisturbed, Running
<1>18. ObjectsMatchRows'
  BY <1>4, <1>5, <1>6, <1>12 DEF ObjectsMatchRows, LeakNeedsFaultOrRace, RowKeepsObject, By
<1> QED BY <1>9, <1>10, <1>11, <1>14, <1>15, <1>16, <1>17, <1>18

\* Another photo of the archive becomes the cover.
LEMMA CoverStep == ASSUME IInv, NEW c \in Requests, NEW m \in Requests, SetCoverPhoto(c, m) PROVE IInv'
<1> USE DEF IInv
<1>1. /\ tx' \in Tx /\ tx'.pc = tx.pc /\ tx'.next = tx.next /\ tx'.keys = tx.keys
      /\ tx'.cleared = tx.cleared /\ (Running => tx'.disturbed)
  BY DisturbedFields DEF SetCoverPhoto, TypeOK
<1>2. UNCHANGED <<req, object, db, post, file, dead, faults, excused, lost, late>>
  BY DEF SetCoverPhoto, history
<1>3. TypeOK'
  BY <1>1, <1>2 DEF TypeOK, SetCoverPhoto
<1>4. Rooted' /\ KeyIndex' /\ Answered' /\ OneAnswer' /\ Deleting' /\ Stored'
  BY <1>1, <1>2 DEF Rooted, KeyIndex, Answered, OneAnswer, SameKey, Fixed, Deleting, Stored, Inserting, Before, By, Running
<1>5. Written' /\ Hanging' /\ Archived' /\ Listed'
  BY <1>1, <1>2 DEF Written, Hanging, Archived, Listed, Posted, Fixed, By, Before, Running
<1>6. Filed' /\ DanglingReportNeedsRace' /\ Undisturbed'
  BY <1>1, <1>2 DEF Filed, DanglingReportNeedsRace, targetExists, By, Running, Undisturbed
<1>7. ObjectsMatchRows'
  BY <1>1, <1>2 DEF ObjectsMatchRows, LeakNeedsFaultOrRace, RowKeepsObject, By
<1> QED BY <1>3, <1>4, <1>5, <1>6, <1>7

\* What a step of a report leaves alone.
LEMMA ReportFrame ==
    ASSUME IInv, UNCHANGED <<req, object, cover, post, dead, faults, excused, lost, late>>,
           tx' \in Tx, tx'.pc = tx.pc, tx'.next = tx.next, tx'.keys = tx.keys, tx'.cleared = tx.cleared,
           \A t \in Tables \ {"reports"} : db'[t] = db[t]
    PROVE  /\ Rooted' /\ KeyIndex' /\ Answered' /\ OneAnswer' /\ Deleting' /\ Stored'
           /\ Written' /\ Hanging' /\ Archived' /\ Listed' /\ ObjectsMatchRows'
<1> USE DEF IInv
<1>1. /\ db'["users"] = db["users"] /\ db'["cats"] = db["cats"] /\ db'["media"] = db["media"]
      /\ db'["updates"] = db["updates"] /\ db'["cat_media"] = db["cat_media"]
      /\ db'["update_statuses"] = db["update_statuses"]
      /\ db'["notification_outbox"] = db["notification_outbox"]
  BY DEF Tables
<1>2. Rooted' /\ KeyIndex' /\ Answered' /\ OneAnswer' /\ Deleting' /\ Stored'
  BY <1>1 DEF Rooted, KeyIndex, Answered, OneAnswer, SameKey, Table, Fixed, Deleting, Stored, Inserting, Before, By, Running
<1>3. Written' /\ Hanging' /\ Archived' /\ Listed'
  BY <1>1 DEF Written, Hanging, Archived, Listed, Posted, Fixed, By, Before, Running
<1>4. ObjectsMatchRows'
  BY <1>1 DEF ObjectsMatchRows, LeakNeedsFaultOrRace, RowKeepsObject, By
<1> QED BY <1>2, <1>3, <1>4

\* The check of a report's target, and its insert (ReportsService.Create).
LEMMA ReportSteps == ASSUME IInv, NEW f \in Files, ReportCheck(f) \/ CreateReport(f) PROVE IInv'
<1> USE DEF IInv
<1>0. file[f] \in File /\ file \in [Files -> File] /\ db["reports"] \subseteq Files /\ tx \in Tx
  BY DEF TypeOK, Row, Tables
<1>1. CASE ReportCheck(f)
  <2>1. PICK by \in Accounts, type \in {"cat", "update", "media"}, x \in Requests \cup Posts :
           file' = [file EXCEPT ![f] = [pc |-> "checked", by |-> by, type |-> type, target |-> x, raced |-> FALSE]]
    BY <1>1 DEF ReportCheck
  <2>2. [pc |-> "checked", by |-> by, type |-> type, target |-> x, raced |-> FALSE] \in File
    BY DEF File
  <2>3. file' \in [Files -> File] /\ \A g \in Files \ {f} : file'[g] = file[g]
    BY <1>0, <2>1, <2>2
  <2>4. f \notin db["reports"]
    BY <1>1 DEF ReportCheck, Filed
  <2>5. UNCHANGED <<req, object, db, cover, post, tx, dead, faults, excused, lost, late>>
    BY <1>1 DEF ReportCheck, rows, history
  <2>6. TypeOK'
    BY <2>3, <2>5 DEF TypeOK
  <2>7. /\ Rooted' /\ KeyIndex' /\ Answered' /\ OneAnswer' /\ Deleting' /\ Stored'
        /\ Written' /\ Hanging' /\ Archived' /\ Listed' /\ ObjectsMatchRows'
    BY <1>0, <2>5, ReportFrame
  <2>8. \A g \in db["reports"] : file'[g] = file[g]
    BY <1>0, <2>3, <2>4
  <2>9. Filed' /\ DanglingReportNeedsRace'
    BY <2>5, <2>8 DEF Filed, DanglingReportNeedsRace, targetExists, By, Running
  <2>10. Undisturbed'
    <3>1. OwnCats' = OwnCats /\ OwnMedia' = OwnMedia
      BY <2>5 DEF OwnCats, OwnMedia, Seen, By
    <3>2. \A u : Own(u)' <=> Own(u)
      BY <2>5 DEF Own, By
    <3> QED BY <2>5, <2>8, <3>1, <3>2 DEF Undisturbed, Swept, Seen, SeenCover, Running
  <2> QED BY <2>6, <2>7, <2>9, <2>10
<1>2. CASE CreateReport(f)
  <2> DEFINE raced == Running \/ ~targetExists(file[f].type, file[f].target)
             w == [file[f] EXCEPT !.pc = "done", !.raced = raced]
  <2>1. raced \in BOOLEAN
    BY Zenon
  <2>2. file' = [file EXCEPT ![f] = w]
    BY <1>0, <1>2 DEF CreateReport
  <2>3. (~raced => ~Running /\ targetExists(file[f].type, file[f].target)) /\ file[f].pc = "checked"
    BY <1>2 DEF CreateReport
  <2> HIDE DEF raced
  <2>4. /\ w \in File /\ w.pc = "done" /\ w.raced = raced /\ w.type = file[f].type /\ w.target = file[f].target
    BY <1>0, <2>1 DEF File
  <2> HIDE DEF w
  <2>5. file' \in [Files -> File] /\ file'[f] = w /\ \A g \in Files \ {f} : file'[g] = file[g]
    BY <1>0, <2>2, <2>4
  <2>6. f \notin db["reports"]
    BY <2>3 DEF Filed
  <2>7. UNCHANGED <<req, object, cover, post, dead, faults, excused, lost, late>>
    BY <1>2 DEF CreateReport, history
  <2>8. /\ tx' \in Tx /\ tx'.pc = tx.pc /\ tx'.next = tx.next /\ tx'.keys = tx.keys
        /\ tx'.cleared = tx.cleared /\ (Running => tx'.disturbed)
    BY <1>0, <1>2, DisturbedFields DEF CreateReport
  <2>9. /\ DOMAIN db' = Tables /\ (\A t \in Tables \ {"reports"} : db'[t] = db[t])
        /\ db'["reports"] \in {db["reports"], db["reports"] \cup {f}}
    BY <1>2 DEF CreateReport, TypeOK, Tables
  <2>10. TypeOK'
    <3>1. ASSUME NEW t \in Tables PROVE db'[t] \subseteq Row(t) /\ dead'[t] \subseteq db'[t]
      <4>1. db[t] \subseteq Row(t) /\ dead[t] \subseteq db[t]
        BY DEF TypeOK
      <4>2. CASE t = "reports"
        BY <1>0, <2>7, <2>9, <4>1, <4>2 DEF Row
      <4>3. CASE t # "reports"
        BY <2>7, <2>9, <4>1, <4>3
      <4> QED BY <4>2, <4>3
    <3> QED BY <2>5, <2>7, <2>8, <2>9, <3>1 DEF TypeOK
  <2>11. /\ Rooted' /\ KeyIndex' /\ Answered' /\ OneAnswer' /\ Deleting' /\ Stored'
         /\ Written' /\ Hanging' /\ Archived' /\ Listed' /\ ObjectsMatchRows'
    BY <2>7, <2>8, <2>9, ReportFrame
  <2>12. /\ db'["cats"] = db["cats"] /\ db'["media"] = db["media"] /\ db'["updates"] = db["updates"]
         /\ \A g \in Files : file[g].type \in {"cat", "update", "media"}
    BY <1>0, <2>9 DEF Tables, File
  <2>13. \A g \in db["reports"] : file'[g] = file[g] /\ g \in Files
    BY <1>0, <2>5, <2>6
  <2>14. Filed'
    <3>1. ASSUME NEW g \in db["reports"]
          PROVE  /\ file'[g].pc = "done"
                 /\ (Running /\ tx.next > 4 /\ g \notin dead["reports"] /\ ~file[g].raced /\ file[g].type # "update"
                       => ~By(file[g].target, Leaver))'
      BY <2>7, <2>8, <2>13 DEF Filed, By, Running
    <3>2. /\ file'[f].pc = "done"
          /\ ~(Running' /\ ~file'[f].raced)
      BY <2>3, <2>4, <2>5, <2>8 DEF Running
    <3> QED BY <2>9, <3>1, <3>2 DEF Filed
  <2>15. DanglingReportNeedsRace'
    <3>1. ASSUME NEW g \in db'["reports"], file'[g].type # "update", ~file'[g].raced
          PROVE  targetExists(file[g].type, file[g].target)'
      <4>1. file'[g].type = file[g].type /\ file'[g].target = file[g].target /\ g \in Files
        BY <2>4, <2>5, <2>9, <2>13
      <4>2. targetExists(file[g].type, file[g].target)
        <5>1. CASE g = f
          BY <2>3, <2>4, <2>5, <3>1, <5>1
        <5>2. CASE g # f
          BY <2>9, <2>13, <3>1, <5>2 DEF DanglingReportNeedsRace
        <5> QED BY <5>1, <5>2
      <4> QED BY <2>12, <4>1, <4>2 DEF targetExists
    <3> QED BY <3>1 DEF DanglingReportNeedsRace
  <2>16. Undisturbed'
    BY <2>8 DEF Undisturbed, Running
  <2> QED BY <2>10, <2>11, <2>14, <2>15, <2>16
<1> QED BY <1>1, <1>2

----------------------------------------------------------------------------
(* AccountsService.Delete and Store.DeleteAccount *)

\* The deletion lists the keys of its objects and begins.
LEMMA BeginStep == ASSUME IInv, BeginDelete PROVE IInv'
<1> USE DEF IInv
<1>1. UNCHANGED <<req, object, db, cover, post, file, dead, faults, excused, lost, late>> /\ tx.pc = "none"
  BY DEF BeginDelete, rows, history
<1>2. OthersOpen \in BOOLEAN
  BY Zenon DEF OthersOpen
<1>3. ObjectKeys \subseteq Requests
  BY DEF ObjectKeys, OwnMedia, Seen, TypeOK, Row, Tables
<1>4. 1 \in 1..Len(Statements)
  BY DEF Statements
<1>5. /\ tx' \in Tx /\ tx'.pc = "running" /\ tx'.next = 1 /\ tx'.keys = ObjectKeys
      /\ tx'.disturbed = OthersOpen
  BY <1>2, <1>3, <1>4 DEF BeginDelete, NoTx, Tx
<1>6. \A t \in Tables : dead[t] = {}
  BY <1>1 DEF Deleting, Running
<1>7. dead["cats"] = {} /\ dead["media"] = {} /\ dead["cat_media"] = {} /\ dead["updates"] = {} /\ dead["users"] = {}
  BY <1>6 DEF Tables
<1>8. TypeOK'
  BY <1>1, <1>5 DEF TypeOK
<1>9. Rooted' /\ KeyIndex' /\ Answered' /\ OneAnswer' /\ Stored'
  BY <1>1, <1>5 DEF Rooted, KeyIndex, Answered, OneAnswer, SameKey, Fixed, Stored, Inserting, Before
<1>10. Deleting' /\ Filed' /\ DanglingReportNeedsRace'
  <2>1. Deleting'
    BY <1>1, <1>5, <1>7 DEF Deleting, Running
  <2>2. Filed'
    BY <1>1, <1>5 DEF Filed
  <2>3. DanglingReportNeedsRace'
    BY <1>1 DEF DanglingReportNeedsRace, targetExists
  <2> QED BY <2>1, <2>2, <2>3
<1>11. Written' /\ Hanging' /\ Archived'
  BY <1>1, <1>5 DEF Written, Hanging, Archived, Posted, Fixed, By, Before
<1>12. Listed'
  <2>1. ASSUME NEW k \in ObjectKeys
        PROVE  Fixed(k) /\ (By(k, Leaver) \/ \E c \in Requests : By(c, Leaver) /\ Fixed(c) /\ Posted(c, k))
    <3>1. k \in db["media"] /\ Fixed(k)
      BY DEF ObjectKeys, OwnMedia, Seen, Rooted
    <3>2. CASE k \in OwnMedia
      BY <3>1, <3>2 DEF OwnMedia
    <3>3. ASSUME NEW c \in OwnCats, <<c, k>> \in db["cat_media"]
          PROVE  By(k, Leaver) \/ \E d \in Requests : By(d, Leaver) /\ Fixed(d) /\ Posted(d, k)
      <4>1. c \in db["cats"] /\ c \in Requests /\ By(c, Leaver) /\ Fixed(c)
        BY DEF OwnCats, Seen, Rooted, TypeOK, Row, Tables
      <4>2. c = k \/ Posted(c, k)
        BY <3>3 DEF Archived
      <4> QED BY <4>1, <4>2
    <3> QED BY <3>1, <3>2, <3>3 DEF ObjectKeys, Seen
  <2>2. \A m \in db["media"] : By(m, Leaver) => m \in ObjectKeys
    BY <1>7 DEF ObjectKeys, OwnMedia, Seen
  <2> QED BY <1>1, <1>5, <2>1, <2>2 DEF Listed, Fixed, By, Posted, Before
<1>13. Undisturbed'
  BY <1>1, <1>5 DEF Undisturbed, Swept, OthersOpen
<1>14. ObjectsMatchRows'
  BY <1>1, <1>5 DEF ObjectsMatchRows, LeakNeedsFaultOrRace, RowKeepsObject, By
<1> QED BY <1>8, <1>9, <1>10, <1>11, <1>12, <1>13, <1>14

\* The deletion is rolled back: nothing of it has happened.
LEMMA RollbackStep ==
    ASSUME IInv, Running, Rollback, UNCHANGED <<req, object, db, cover, post, file, excused, lost>>,
           faults' \in 0..MaxFaults
    PROVE  IInv'
<1> USE DEF IInv
<1>1. 1 \in 1..Len(Statements)
  BY DEF Statements
<1>2. tx' \in Tx /\ tx'.pc = "none" /\ tx'.next = 1 /\ tx'.keys = {} /\ late' = {}
  BY <1>1 DEF Rollback, NoTx, Tx
<1>3. DOMAIN dead' = Tables /\ \A t \in Tables : dead'[t] = {}
  BY DEF Rollback, Nothing
<1>4. TypeOK'
  BY <1>2, <1>3 DEF TypeOK
<1>5. Rooted' /\ KeyIndex' /\ Answered' /\ OneAnswer' /\ Stored'
  BY <1>2 DEF Rooted, KeyIndex, Answered, OneAnswer, SameKey, Fixed, Stored, Inserting, Before, Running
<1>6. dead'["cats"] = {} /\ dead'["media"] = {} /\ dead'["updates"] = {} /\ dead'["users"] = {}
  BY <1>3 DEF Tables
<1>7. Deleting' /\ Filed' /\ DanglingReportNeedsRace' /\ Undisturbed'
  <2>1. Deleting'
    BY <1>3, <1>6 DEF Deleting
  <2>2. Filed' /\ Undisturbed'
    BY <1>2 DEF Filed, Undisturbed, Running
  <2>3. DanglingReportNeedsRace'
    BY DEF DanglingReportNeedsRace, targetExists
  <2> QED BY <2>1, <2>2, <2>3
<1>8. Written' /\ Hanging' /\ Archived' /\ Listed'
  BY <1>2 DEF Written, Hanging, Archived, Listed, Posted, Fixed, By, Before, Running
<1>9. ObjectsMatchRows'
  BY <1>2 DEF ObjectsMatchRows, LeakNeedsFaultOrRace, RowKeepsObject, By, Listed, Before, Running
<1> QED BY <1>4, <1>5, <1>7, <1>8, <1>9

\* The last statement commits: what the statements before it deleted is gone, and with
\* the account everything that could still refer to it.
LEMMA CommitStep ==
    ASSUME IInv, Running, Statement = "users", ~Referenced("users", Leaver), Commit,
           UNCHANGED <<req, object, post, file, faults, excused, lost, late>>
    PROVE  IInv'
<1> USE DEF IInv
<1>1. tx \in Tx /\ tx.next \in 1..Len(Statements) /\ tx.next = 9
  BY TheStatements DEF TypeOK, Tx, Statement
<1>2. 1 \in 1..Len(Statements)
  BY DEF Statements
<1>3. tx' \in Tx /\ tx'.pc = "erasing" /\ tx'.next = 1 /\ tx'.keys = tx.keys
  BY <1>1, <1>2 DEF Commit, Committed, NoTx, Tx
<1>4. DOMAIN dead' = Tables /\ \A t \in Tables : dead'[t] = {}
  BY DEF Commit, Nothing
<1>5. /\ DOMAIN db' = Tables /\ db'["users"] = db["users"] \ {Leaver}
      /\ db'["cats"] = db["cats"] \ dead["cats"] /\ db'["media"] = db["media"] \ dead["media"]
      /\ db'["reports"] = db["reports"] \ dead["reports"]
      /\ \A t \in Tables : db'[t] \subseteq db[t]
  BY DEF Commit, Committed, Tables
<1>6. cover' \in [Requests -> Requests \cup {None}]
  <2>1. \A c \in Requests : SeenCover(c) \in Requests \cup {None}
    BY DEF SeenCover, TypeOK
  <2> QED BY <2>1 DEF Commit, Committed
<1>7. TypeOK'
  BY <1>3, <1>4, <1>5, <1>6 DEF TypeOK
<1>8. \A y \in Seen("cats") \cup Seen("media") : ~By(y, Leaver)
  BY DEF Referenced
<1>9. Rooted'
  BY <1>3, <1>5, <1>8 DEF Rooted, Fixed, By, Seen, Before
<1>10. KeyIndex' /\ OneAnswer' /\ Stored'
  BY <1>5 DEF KeyIndex, OneAnswer, SameKey, Table, Stored, Inserting, Tables
<1>11. Answered'
  <2>1. \A x \in dead["cats"] \cup dead["media"] : req[x].by = Leaver
    BY DEF Deleting, By
  <2> QED BY <1>5, <2>1 DEF Answered, SameKey, Table, Fixed
<1>12. dead'["cats"] = {} /\ dead'["media"] = {} /\ dead'["updates"] = {} /\ dead'["users"] = {}
  BY <1>4 DEF Tables
<1>13. Deleting' /\ Undisturbed'
  BY <1>3, <1>4, <1>12 DEF Deleting, Undisturbed, Running
<1>14. Written' /\ Hanging'
  BY <1>3, <1>5 DEF Written, Hanging, Fixed, By, Before, Tables
<1>15. Archived' /\ Listed' /\ Filed'
  BY <1>3, <1>5 DEF Archived, Listed, Filed, Posted, Fixed, By, Before, Running, Tables
<1>16. DanglingReportNeedsRace'
  <2>1. ASSUME NEW f \in db'["reports"], file[f].type # "update", ~file[f].raced
        PROVE  targetExists(file[f].type, file[f].target)'
    <3>1. f \in db["reports"] /\ f \notin dead["reports"] /\ file[f].type \in {"cat", "media"}
      BY <1>5, <2>1 DEF TypeOK, Row, Tables, File
    <3>2. ~By(file[f].target, Leaver) /\ targetExists(file[f].type, file[f].target)
      BY <1>1, <2>1, <3>1 DEF Filed, DanglingReportNeedsRace
    <3>3. file[f].target \notin dead["cats"] /\ file[f].target \notin dead["media"]
      BY <3>2 DEF Deleting
    <3> QED BY <1>5, <3>1, <3>2, <3>3 DEF targetExists
  <2> QED BY <2>1 DEF DanglingReportNeedsRace
<1>17. ObjectsMatchRows'
  <2>1. \A o \in dead["media"] : o \in tx.keys \cup late
    BY DEF Deleting, Listed, TypeOK, Tables
  <2>2. LeakNeedsFaultOrRace'
    BY <1>3, <1>5, <2>1 DEF ObjectsMatchRows, LeakNeedsFaultOrRace, Running
  <2>3. RowKeepsObject'
    BY <1>5 DEF ObjectsMatchRows, RowKeepsObject, By
  <2> QED BY <2>2, <2>3 DEF ObjectsMatchRows
<1> QED BY <1>7, <1>9, <1>10, <1>11, <1>13, <1>14, <1>15, <1>16, <1>17

\* A statement that deletes rows inside the open transaction.
LEMMA StatementStep ==
    ASSUME IInv, Running, Statement \notin {"covers", "users"},
           dead' = [dead EXCEPT ![Statement] = @ \cup Doomed(Statement)], tx' = [tx EXCEPT !.next = @ + 1],
           UNCHANGED <<req, object, db, cover, post, file, faults, excused, lost, late>>
    PROVE  IInv'
<1> USE DEF IInv
<1> DEFINE n == tx.next
<1>1. /\ tx \in Tx /\ n \in 1..9 /\ n # 5 /\ n # 9 /\ Len(Statements) = 9
      /\ n = 1 => Statement = "notification_outbox"
      /\ n = 2 => Statement = "update_statuses"
      /\ n = 3 => Statement = "updates"
      /\ n = 4 => Statement = "reports"
      /\ n = 6 => Statement = "cat_media"
      /\ n = 7 => Statement = "cats"
      /\ n = 8 => Statement = "media"
  <2>1. tx \in Tx /\ n \in 1..Len(Statements) /\ Statement = Statements[n]
    BY DEF TypeOK, Tx, Statement
  <2> QED BY <2>1, TheStatements
<1>2. /\ tx' \in Tx /\ tx'.pc = tx.pc /\ tx'.keys = tx.keys /\ tx'.next = n + 1
      /\ tx'.cleared = tx.cleared /\ tx'.disturbed = tx.disturbed
  BY <1>1 DEF Tx
<1>3. Statement \in Tables
  BY <1>1 DEF Tables
<1>4. /\ DOMAIN dead' = Tables /\ dead'[Statement] = dead[Statement] \cup Doomed(Statement)
      /\ \A t \in Tables \ {Statement} : dead'[t] = dead[t]
  BY <1>3 DEF TypeOK
<1>5. Doomed(Statement) \subseteq Seen(Statement)
  <2>1. OwnCats \subseteq Seen("cats") /\ OwnMedia \subseteq Seen("media") /\ OwnUpdates \subseteq Seen("updates")
        /\ OwnReports \subseteq Seen("reports")
    BY DEF OwnCats, OwnMedia, OwnUpdates, OwnReports
  <2> QED BY <1>1, <2>1 DEF Doomed
<1>6. TypeOK'
  <2>1. \A t \in Tables : dead'[t] \subseteq db'[t]
    BY <1>4, <1>5 DEF TypeOK, Seen
  <2> QED BY <1>2, <1>4, <2>1 DEF TypeOK
<1>7. Rooted' /\ KeyIndex' /\ Answered' /\ OneAnswer' /\ Stored'
  BY <1>2 DEF Rooted, KeyIndex, Answered, OneAnswer, SameKey, Fixed, Stored, Inserting, Before
<1>8. Written' /\ Hanging' /\ Archived' /\ Listed'
  BY <1>2 DEF Written, Hanging, Archived, Listed, Posted, Fixed, By, Before, Running
<1>9. ObjectsMatchRows'
  BY <1>2 DEF ObjectsMatchRows, LeakNeedsFaultOrRace, RowKeepsObject, By
<1>10. DanglingReportNeedsRace'
  BY DEF DanglingReportNeedsRace, targetExists
<1>11. /\ n # 3 => dead'["updates"] = dead["updates"]
       /\ n # 7 => dead'["cats"] = dead["cats"]
       /\ n # 8 => dead'["media"] = dead["media"]
       /\ n # 4 => dead'["reports"] = dead["reports"]
       /\ dead'["users"] = dead["users"]
       /\ n = 7 => dead'["cats"] = dead["cats"] \cup OwnCats
       /\ n = 8 => dead'["media"] = dead["media"] \cup OwnMedia
       /\ n = 4 => dead'["reports"] = dead["reports"] \cup OwnReports
  BY <1>1, <1>4 DEF Tables, Doomed
<1>12. Deleting'
  <2>1. (\A x \in dead["cats"] \cup dead["media"] : By(x, Leaver)) /\ (\A x \in OwnCats \cup OwnMedia : By(x, Leaver))
    BY DEF Deleting, OwnCats, OwnMedia
  <2>2. \A x \in dead'["cats"] \cup dead'["media"] : By(x, Leaver)'
    BY <1>11, <2>1 DEF By
  <2> QED BY <1>1, <1>2, <1>11, <2>2 DEF Deleting, Running
<1>13. n <= 7 => Seen("cats") = db["cats"]
  BY DEF Deleting, Seen
<1>14. n <= 8 => Seen("media") = db["media"]
  BY DEF Deleting, Seen
<1>15. Filed'
  <2>1. ASSUME NEW f \in db["reports"], n = 4, f \notin dead'["reports"], ~file[f].raced, file[f].type # "update"
        PROVE  ~By(file[f].target, Leaver)
    <3>1. f \in Seen("reports") /\ f \notin OwnReports /\ file[f].type \in {"cat", "media"}
      BY <1>11, <2>1 DEF Seen, TypeOK, Row, Tables, File
    <3>2. targetExists(file[f].type, file[f].target)
      BY <2>1 DEF DanglingReportNeedsRace
    <3>3. CASE file[f].type = "cat"
      BY <1>13, <2>1, <3>1, <3>2, <3>3 DEF targetExists, OwnReports, OwnCats
    <3>4. CASE file[f].type = "media"
      BY <1>14, <2>1, <3>1, <3>2, <3>4 DEF targetExists, OwnReports, OwnMedia
    <3> QED BY <3>1, <3>3, <3>4
  <2> QED BY <1>1, <1>2, <1>11, <2>1 DEF Filed, By, Running
<1>16. ASSUME NEW t \in Tables PROVE Seen(t)' = IF t = Statement THEN Seen(t) \ Doomed(t) ELSE Seen(t)
  BY <1>4 DEF Seen
<1>17. Undisturbed'
  <2> SUFFICES ASSUME ~tx.disturbed PROVE Swept'
    BY <1>2 DEF Undisturbed
  <2>1. Swept
    BY DEF Undisturbed
  <2>2. \A t \in Tables : Seen(t)' \subseteq Seen(t)
    BY <1>16
  <2>3. OwnCats' \subseteq OwnCats /\ OwnMedia' \subseteq OwnMedia
    BY <2>2 DEF OwnCats, OwnMedia, By, Tables
  <2>4. \A c : SeenCover(c)' = SeenCover(c)
    BY <1>2 DEF SeenCover
  <2>5. \A u : Own(u)' <=> Own(u)
    BY DEF Own, By
  <2>6. ASSUME NEW u \in db["updates"], n <= 3, u \notin OwnUpdates PROVE ~Own(u)
    <3>1. u \in Seen("updates") /\ post[u].cat \in db["cats"]
      BY <2>6 DEF Deleting, Seen, Hanging, Written, Before, Running, TypeOK, Row, Tables
    <3>2. ~(post[u].by = Leaver \/ post[u].cat \in OwnCats)
      BY <2>6, <3>1 DEF OwnUpdates
    <3> QED BY <1>1, <1>13, <2>6, <3>1, <3>2 DEF Own, OwnCats
  <2>7. n = 1 => \A u \in Seen("notification_outbox")' : ~Own(u)
    <3>1. n = 1 => \A u \in Seen("notification_outbox")' : u \in db["updates"] /\ u \notin OwnUpdates
      BY <1>1, <1>16 DEF Doomed, Seen, Hanging, Before, Running, Tables
    <3> QED BY <2>6, <3>1
  <2>8. n = 2 => \A u \in Seen("update_statuses")' : ~Own(u)
    <3>1. n = 2 => \A u \in Seen("update_statuses")' : u \in db["updates"] /\ u \notin OwnUpdates
      BY <1>1, <1>16 DEF Doomed, Seen, Hanging, Before, Running, Tables
    <3> QED BY <2>6, <3>1
  <2>9. n = 3 => \A u \in Seen("updates")' : ~Own(u)
    <3>1. n = 3 => \A u \in Seen("updates")' : u \in db["updates"] /\ u \notin OwnUpdates
      BY <1>1, <1>16 DEF Doomed, Seen, Tables
    <3> QED BY <2>6, <3>1
  <2>10. n = 4 => \A f \in Seen("reports")' : file[f].by # Leaver
    BY <1>1, <1>16 DEF Doomed, OwnReports, Tables
  <2>11. n = 6 => \A p \in Seen("cat_media")' : p[1] \notin OwnCats /\ p[2] \notin OwnMedia
    BY <1>1, <1>16 DEF Doomed, Tables
  <2>12. n = 7 => OwnCats' = {}
    BY <1>1, <1>16 DEF Doomed, OwnCats, Tables, By
  <2>13. n = 8 => OwnMedia' = {}
    BY <1>1, <1>16 DEF Doomed, OwnMedia, Tables, By
  <2>14. /\ Seen("notification_outbox")' \subseteq Seen("notification_outbox")
         /\ Seen("update_statuses")' \subseteq Seen("update_statuses")
         /\ Seen("updates")' \subseteq Seen("updates") /\ Seen("reports")' \subseteq Seen("reports")
         /\ Seen("cats")' \subseteq Seen("cats") /\ Seen("cat_media")' \subseteq Seen("cat_media")
    BY <2>2 DEF Tables
  <2>15. /\ tx'.next > 1 => \A u \in Seen("notification_outbox")' : ~Own(u)'
         /\ tx'.next > 2 => \A u \in Seen("update_statuses")' : ~Own(u)'
         /\ tx'.next > 3 => \A u \in Seen("updates")' : ~Own(u)'
    BY <1>1, <1>2, <2>1, <2>5, <2>7, <2>8, <2>9, <2>14 DEF Swept
  <2>16. /\ tx'.next > 4 => \A f \in Seen("reports")' : file'[f].by # Leaver
         /\ tx'.next > 5 => \A c \in Seen("cats")' : SeenCover(c)' \notin OwnMedia'
    BY <1>1, <1>2, <2>1, <2>3, <2>4, <2>10, <2>14 DEF Swept
  <2>17. /\ tx'.next > 6 => \A p \in Seen("cat_media")' : p[1] \notin OwnCats' /\ p[2] \notin OwnMedia'
         /\ tx'.next > 7 => OwnCats' = {}
         /\ tx'.next > 8 => OwnMedia' = {}
    BY <1>1, <1>2, <2>1, <2>3, <2>11, <2>12, <2>13, <2>14 DEF Swept
  <2>18. \A u \in Posts : post'[u].pc # "open"
    BY <2>1 DEF Swept
  <2> QED BY <2>15, <2>16, <2>17, <2>18 DEF Swept
<1> QED BY <1>6, <1>7, <1>8, <1>9, <1>10, <1>12, <1>15, <1>17

\* The covers that show a photo of the account are cleared before the photos go.
LEMMA CoversStep == ASSUME IInv, ClearCovers PROVE IInv'
<1> USE DEF IInv
<1>1. tx \in Tx /\ tx.next = 5 /\ tx.next \in 1..Len(Statements) /\ Len(Statements) = 9 /\ Running
  BY TheStatements DEF TypeOK, Tx, Statement, ClearCovers
<1>2. UNCHANGED <<req, object, db, cover, post, file, dead, faults, excused, lost, late>>
  BY DEF ClearCovers, rows, history
<1> DEFINE cleared == {c \in Seen("cats") : cover[c] \in OwnMedia}
<1>3. cleared \subseteq Requests
  BY DEF Seen, TypeOK, Row, Tables
<1>4. /\ tx' \in Tx /\ tx'.pc = tx.pc /\ tx'.keys = tx.keys /\ tx'.next = 6
      /\ tx'.cleared = cleared /\ tx'.disturbed = tx.disturbed
  <2>1. tx' = [tx EXCEPT !.next = @ + 1, !.cleared = cleared]
    BY DEF ClearCovers
  <2> HIDE DEF cleared
  <2>2. PICK m : m = tx.next + 1
    OBVIOUS
  <2>3. tx' = [tx EXCEPT !.next = m, !.cleared = cleared]
    BY <2>1, <2>2
  <2>4. m = 6 /\ 6 \in 1..Len(Statements)
    BY <1>1, <2>2
  <2> QED BY <1>1, <1>3, <2>3, <2>4 DEF Tx
<1>5. TypeOK'
  BY <1>2, <1>4 DEF TypeOK
<1>6. Rooted' /\ KeyIndex' /\ Answered' /\ OneAnswer' /\ Stored'
  BY <1>2, <1>4 DEF Rooted, KeyIndex, Answered, OneAnswer, SameKey, Fixed, Stored, Inserting, Before
<1>7. Written' /\ Hanging' /\ Archived' /\ Listed'
  BY <1>2, <1>4 DEF Written, Hanging, Archived, Listed, Posted, Fixed, By, Before, Running
<1>8. ObjectsMatchRows'
  BY <1>2, <1>4 DEF ObjectsMatchRows, LeakNeedsFaultOrRace, RowKeepsObject, By
<1>9. DanglingReportNeedsRace'
  BY <1>2 DEF DanglingReportNeedsRace, targetExists
<1>10. Filed'
  BY <1>1, <1>2, <1>4 DEF Filed, By, Running
<1>11. Deleting'
  BY <1>1, <1>2, <1>4 DEF Deleting, By, Running
<1>12. Undisturbed'
  <2> SUFFICES ASSUME ~tx.disturbed PROVE Swept'
    BY <1>4 DEF Undisturbed
  <2>1. Swept
    BY <1>1 DEF Undisturbed
  <2>2. OwnCats' = OwnCats /\ OwnMedia' = OwnMedia
    BY <1>2 DEF OwnCats, OwnMedia, Seen, By
  <2>3. None \notin OwnMedia
    BY NoneAssumption DEF OwnMedia, Seen, TypeOK, Row, Tables
  <2>4. \A c \in Seen("cats") : SeenCover(c)' \notin OwnMedia
    BY <1>2, <1>4, <2>3 DEF SeenCover
  <2>5. \A u : Own(u)' <=> Own(u)
    BY <1>2 DEF Own, By
  <2> QED BY <1>1, <1>2, <1>4, <2>1, <2>2, <2>4, <2>5 DEF Swept, Seen
<1> QED BY <1>5, <1>6, <1>7, <1>8, <1>9, <1>10, <1>11, <1>12

\* After the commit: an object is deleted, is kept by a fault, or is still listed.
LEMMA ErasingStep ==
    ASSUME IInv, tx.pc = "erasing", tx' \in Tx, tx'.pc \in {"erasing", "over"}, tx'.keys \subseteq tx.keys,
           UNCHANGED <<req, db, cover, post, file, dead, lost, late>>,
           faults' \in 0..MaxFaults, excused' \subseteq Requests, excused \subseteq excused',
           object' \subseteq object, object \ object' \subseteq tx.keys,
           \A o \in object' \cap tx.keys : o \in excused' \/ (tx'.pc = "erasing" /\ o \in tx'.keys)
    PROVE  IInv'
<1> USE DEF IInv
<1>1. ~Running /\ ~Running' /\ ~Before /\ ~Before'
  BY DEF Running, Before
<1>2. TypeOK'
  BY DEF TypeOK
<1>3. Rooted' /\ KeyIndex' /\ Answered' /\ OneAnswer'
  BY <1>1 DEF Rooted, KeyIndex, Answered, OneAnswer, SameKey, Fixed
<1>4. \A t \in Tables : dead[t] = {}
  BY <1>1 DEF Deleting
<1>5. Deleting'
  BY <1>4 DEF Deleting, Tables
<1>6. Written' /\ Hanging' /\ Archived' /\ Listed'
  BY <1>1 DEF Written, Hanging, Archived, Listed, Posted, Fixed, By
<1>7. Stored'
  BY DEF Stored, Inserting, Listed, Fixed
<1>8. Filed' /\ Undisturbed' /\ DanglingReportNeedsRace'
  <2>1. Filed' /\ Undisturbed'
    BY <1>1 DEF Filed, Undisturbed
  <2>2. DanglingReportNeedsRace'
    BY DEF DanglingReportNeedsRace, targetExists
  <2> QED BY <2>1, <2>2
<1>9. LeakNeedsFaultOrRace'
  BY DEF ObjectsMatchRows, LeakNeedsFaultOrRace
<1>10. RowKeepsObject'
  <2>1. ASSUME NEW k \in tx.keys, k \in db["media"]
        PROVE  \E u \in Posts : post[u].pc = "done" /\ post[u].media = k /\ By(post[u].cat, Leaver)
    <3>1. ~By(k, Leaver)
      BY <1>1, <2>1 DEF Rooted, By
    <3> QED BY <3>1 DEF Listed, Posted
  <2> QED BY <2>1 DEF ObjectsMatchRows, RowKeepsObject, By
<1> QED BY <1>2, <1>3, <1>5, <1>6, <1>7, <1>8, <1>9, <1>10 DEF ObjectsMatchRows

\* The objects go one by one, a failure is only logged, and the process may die.
LEMMA EraseSteps ==
    ASSUME IInv, \/ NothingToErase
                 \/ \E k \in Requests : EraseObject(k)
                 \/ DeleteDies
    PROVE  IInv'
<1> USE DEF IInv
<1>0. tx \in Tx /\ faults \in 0..MaxFaults /\ object \subseteq Requests /\ excused \subseteq Requests
  BY DEF TypeOK
<1>1. CASE NothingToErase
  <2>1. tx' \in Tx /\ tx'.pc = "over" /\ tx'.keys = tx.keys /\ tx.keys = {} /\ tx.pc = "erasing"
    BY <1>0, <1>1 DEF NothingToErase, Tx
  <2>2. UNCHANGED <<req, object, db, cover, post, file, dead, faults, excused, lost, late>>
    BY <1>1 DEF NothingToErase, rows, history
  <2> QED BY <1>0, <2>1, <2>2, ErasingStep
<1>2. ASSUME NEW k \in Requests, EraseObject(k) PROVE IInv'
  <2>1. tx.pc = "erasing" /\ k \in tx.keys
    BY <1>2 DEF EraseObject
  <2>2. PICK pc \in {"erasing", "over"} : /\ tx' = [tx EXCEPT !.keys = tx.keys \ {k}, !.pc = pc]
                                          /\ tx.keys # {k} => pc = "erasing"
    BY <1>2, <2>1 DEF EraseObject
  <2>3. tx' \in Tx /\ tx'.pc = pc /\ tx'.keys = tx.keys \ {k}
    <3>1. tx.keys \ {k} \subseteq Requests
      BY <1>0 DEF Tx
    <3> QED BY <1>0, <2>2, <3>1 DEF Tx
  <2>4. \/ object' = object \ {k} /\ excused' = excused
        \/ object' = object /\ excused' = excused \cup {k}
    BY <1>2 DEF EraseObject
  <2>5. UNCHANGED <<req, db, cover, post, file, dead, lost, late>> /\ faults' \in 0..MaxFaults
    <3>1. faults' = faults \/ (faults < MaxFaults /\ faults' = faults + 1)
      BY <1>2 DEF EraseObject, Fault
    <3>2. faults' \in 0..MaxFaults
      BY <1>0, <3>1, BoundAssumption
    <3>3. UNCHANGED <<req, db, cover, post, file, dead, lost, late>>
      BY <1>2 DEF EraseObject, rows
    <3> QED BY <3>2, <3>3
  <2>6. \A o \in object' \cap tx.keys : o \in excused' \/ (tx'.pc = "erasing" /\ o \in tx'.keys)
    BY <2>2, <2>3, <2>4
  <2> QED BY <1>0, <2>1, <2>3, <2>4, <2>5, <2>6, ErasingStep
<1>3. CASE DeleteDies
  <2>1. faults' \in 0..MaxFaults /\ UNCHANGED <<req, object, db, cover, post, file, lost>>
    BY <1>0, <1>3, BoundAssumption DEF DeleteDies, Fault, rows
  <2>2. CASE Running /\ Rollback /\ UNCHANGED excused
    BY <2>1, <2>2, RollbackStep
  <2>3. CASE /\ ~Running /\ tx' = [NoTx EXCEPT !.pc = "over"]
             /\ excused' = excused \cup tx.keys /\ UNCHANGED <<dead, late>>
    <3>1. tx.pc = "erasing" /\ tx.keys \subseteq Requests
      BY <1>0, <1>3, <2>3 DEF DeleteDies, Running, Tx
    <3>2. 1 \in 1..Len(Statements)
      BY DEF Statements
    <3>3. tx' \in Tx /\ tx'.pc = "over" /\ tx'.keys = {}
      BY <2>3, <3>2 DEF NoTx, Tx
    <3> QED BY <1>0, <2>1, <2>3, <3>1, <3>3, ErasingStep
  <2> QED BY <1>3, <2>2, <2>3 DEF DeleteDies
<1> QED BY <1>1, <1>2, <1>3

\* A statement of the deletion: rolled back by a foreign key, carried out, or the last.
LEMMA StatementSteps == ASSUME IInv, DeleteStatement PROVE IInv'
<1>1. /\ Running /\ Statement # "covers" /\ UNCHANGED <<req, object, post, file, faults, excused, lost>>
      /\ faults' \in 0..MaxFaults
  BY DEF DeleteStatement, IInv, TypeOK
<1>2. CASE Rollback /\ UNCHANGED rows
  BY <1>1, <1>2, RollbackStep DEF rows
<1>3. CASE /\ ~\E x \in Doomed(Statement) : Referenced(Statement, x)
           /\ Statement = "users" /\ Commit /\ UNCHANGED late
  <2>1. ~Referenced("users", Leaver)
    BY <1>3 DEF Doomed
  <2> QED BY <1>1, <1>3, <2>1, CommitStep
<1>4. CASE /\ Statement # "users" /\ UNCHANGED <<rows, late>>
           /\ dead' = [dead EXCEPT ![Statement] = @ \cup Doomed(Statement)]
           /\ tx' = [tx EXCEPT !.next = @ + 1]
  BY <1>1, <1>4, StatementStep DEF rows
<1> QED BY <1>2, <1>3, <1>4 DEF DeleteStatement

----------------------------------------------------------------------------
(* The theorems *)

\* The invariant holds with some uploads and cats settled and everybody else idle.
LEMMA InitInv == Init => IInv
<1> SUFFICES ASSUME Init PROVE IInv
  OBVIOUS
<1>1. PICK kind \in [Settled -> {"media", "cat"}], by \in [Settled -> Accounts] :
         /\ req = [r \in Requests |->
                      IF r \in Settled
                      THEN [pc |-> "done", kind |-> kind[r], by |-> by[r], key |-> None, row |-> r]
                      ELSE Idle(Leaver)]
         /\ LET cats == {r \in Settled : kind[r] = "cat"} IN
            /\ db = [Nothing EXCEPT !["users"] = Accounts, !["media"] = Settled, !["cats"] = cats,
                                    !["cat_media"] = {<<c, c>> : c \in cats}]
            /\ cover = [r \in Requests |-> IF r \in cats THEN r ELSE None]
  BY DEF Init
<1> DEFINE cats == {r \in Settled : kind[r] = "cat"}
<1>2. cats \subseteq Settled /\ Settled \subseteq Requests
  BY SettledAssumption
<1>3. /\ DOMAIN db = Tables /\ db["users"] = Accounts /\ db["media"] = Settled /\ db["cats"] = cats
      /\ db["cat_media"] = {<<c, c>> : c \in cats}
      /\ db["updates"] = {} /\ db["update_statuses"] = {} /\ db["notification_outbox"] = {}
      /\ db["reports"] = {}
  BY <1>1 DEF Nothing, Tables
<1>4. cover \in [Requests -> Requests \cup {None}]
  BY <1>1, <1>2
<1>5. ASSUME NEW r \in Requests
      PROVE  /\ req[r] \in Request
             /\ IF r \in Settled
                THEN /\ req[r].pc = "done" /\ req[r].kind = kind[r] /\ req[r].by \in Accounts
                     /\ req[r].key = None /\ req[r].row = r
                ELSE req[r].pc = "idle" /\ req[r].row = None
  <2>1. CASE r \in Settled
    <3>1. req[r] = [pc |-> "done", kind |-> kind[r], by |-> by[r], key |-> None, row |-> r]
      BY <1>1, <2>1
    <3>2. kind[r] \in {"media", "cat"} /\ by[r] \in Accounts
      BY <2>1
    <3> QED BY <2>1, <3>1, <3>2 DEF Request
  <2>2. CASE r \notin Settled
    <3>1. req[r] = Idle(Leaver)
      BY <1>1, <2>2
    <3> QED BY <2>2, <3>1, LeaverAssumption DEF Idle, Request
  <2> QED BY <2>1, <2>2
<1> HIDE DEF cats
<1>6. req \in [Requests -> Request]
  <2>1. req = [r \in Requests |-> req[r]]
    BY <1>1
  <2> QED BY <1>5, <2>1
<1>7. /\ post \in [Posts -> Post] /\ \A u \in Posts : post[u].pc = "none"
  BY LeaverAssumption DEF Init, Post
<1>8. file \in [Files -> File]
  BY LeaverAssumption DEF Init, File
<1>9. 1 \in 1..Len(Statements)
  BY DEF Statements
<1>10. tx \in Tx /\ tx.pc = "none" /\ tx.keys = {}
  BY <1>9 DEF Init, NoTx, Tx
<1>11. DOMAIN dead = Tables /\ \A t \in Tables : dead[t] = {}
  BY DEF Init, Nothing
<1>12. TypeOK
  <2>1. \A t \in Tables : db[t] \subseteq Row(t)
    BY <1>2, <1>3 DEF Tables, Row
  <2>2. faults \in 0..MaxFaults
    BY BoundAssumption DEF Init
  <2> QED BY <1>2, <1>3, <1>4, <1>6, <1>7, <1>8, <1>10, <1>11, <2>1, <2>2 DEF Init, TypeOK
<1>13. Rooted
  BY <1>2, <1>3, <1>5, <1>10 DEF Rooted, Fixed, Before
<1>14. KeyIndex /\ OneAnswer
  <2>1. \A r \in Requests : r \in Settled \/ req[r].row # None => req[r].key = None
    BY <1>5
  <2> QED BY <1>2, <1>3, <2>1 DEF KeyIndex, OneAnswer, SameKey, Table
<1>15. Answered
  BY <1>1, <1>2, <1>3, <1>5 DEF Answered, SameKey, Table, Fixed, cats
<1>16. Deleting
  BY <1>11 DEF Deleting, Tables
<1>17. Written /\ Hanging
  BY <1>3, <1>7 DEF Written, Hanging
<1>18. Stored
  BY <1>2, <1>5 DEF Stored, Inserting, Init
<1>19. Archived
  BY <1>3 DEF Archived
<1>20. Listed
  BY <1>10 DEF Listed, Init, Running
<1>21. Filed /\ DanglingReportNeedsRace /\ Undisturbed
  BY <1>3, <1>10 DEF Filed, DanglingReportNeedsRace, Undisturbed, Running
<1>22. ObjectsMatchRows
  BY <1>3 DEF Init, ObjectsMatchRows, LeakNeedsFaultOrRace, RowKeepsObject
<1> QED BY <1>12, <1>13, <1>14, <1>15, <1>16, <1>17, <1>18, <1>19, <1>20, <1>21, <1>22 DEF IInv

\* Every step of every request and of the deletion keeps it.
LEMMA NextInv == IInv /\ [Next]_vars => IInv'
<1> SUFFICES ASSUME IInv, [Next]_vars PROVE IInv'
  OBVIOUS
<1>1. ASSUME NEW r \in Requests, UploadStep(r) PROVE IInv'
  BY <1>1, UploadSteps, RecoverySteps, InsertSteps DEF UploadStep
<1>7. ASSUME NEW r \in Requests, WaitStep(r) PROVE IInv'
  <2>1. CASE Running /\ Rollback /\ UNCHANGED req
    BY <1>7, <2>1, WaitOutcomes, RollbackStep DEF IInv, TypeOK
  <2> QED BY <1>7, <2>1, WaitOutcomes, WaitSteps
<1>2. ASSUME NEW u \in Posts, PostStep(u) PROVE IInv'
  <2>1. ASSUME Deadlock(u), Rollback, UNCHANGED post PROVE IInv'
    <3>1. Running /\ UNCHANGED <<req, object, db, cover, file, excused, lost>> /\ faults' \in 0..MaxFaults
      BY <2>1 DEF Deadlock, WaitsFor, rows, IInv, TypeOK
    <3> QED BY <2>1, <3>1, RollbackStep
  <2>2. CASE Deadlock(u)
    BY <2>1, <2>2, PostSteps DEF Deadlock
  <2> QED BY <1>2, <2>2, PostSteps, PostCommitStep DEF PostStep
<1>3. ASSUME NEW c \in Requests, NEW m \in Requests, SetCoverPhoto(c, m) PROVE IInv'
  BY <1>3, CoverStep
<1>4. ASSUME NEW f \in Files, ReportCheck(f) \/ CreateReport(f) PROVE IInv'
  BY <1>4, ReportSteps
<1>5. CASE DeleteStep
  BY <1>5, BeginStep, StatementSteps, CoversStep, EraseSteps DEF DeleteStep
<1>6. CASE UNCHANGED vars
  <2>1. UNCHANGED <<req, object, db, cover, post, file, tx, dead, faults, excused, lost, late>>
    BY <1>6 DEF vars, rows, history
  <2>2. Kept
    BY <2>1 DEF Kept, Fixed
  <2>3. /\ Rooted' /\ KeyIndex' /\ Deleting' /\ Written' /\ Hanging' /\ Archived'
        /\ Listed' /\ Filed' /\ Undisturbed' /\ DanglingReportNeedsRace'
    BY <2>1, <2>2, RequestFrame DEF Marked
  <2>4. TypeOK' /\ Stored'
    BY <2>1 DEF IInv, TypeOK, Stored, Inserting
  <2>5. Answered' /\ OneAnswer'
    BY <2>1 DEF IInv, Answered, OneAnswer, SameKey, Fixed
  <2>6. ObjectsMatchRows'
    BY <2>1 DEF IInv, ObjectsMatchRows, LeakNeedsFaultOrRace, RowKeepsObject, By
  <2> QED BY <2>3, <2>4, <2>5, <2>6 DEF IInv
<1> QED BY <1>1, <1>2, <1>3, <1>4, <1>5, <1>6, <1>7 DEF Next

\* The inductive invariant holds in every reachable state of the requests, the tables,
\* the object store and the account deletion.
THEOREM Safety == Spec => []IInv
BY InitInv, NextInv, PTL DEF Spec

\* Requests, updates, reports, tables, the deletion and the object store stay within
\* their types: no table has a row of another, the deletion deletes only rows that are there.
THEOREM TypeCorrect == Spec => []TypeOK
<1>1. IInv => TypeOK
  BY DEF IInv
<1> QED BY <1>1, Safety, PTL

\* One Idempotency-Key, one row, however the lookups, uploads, inserts, recoveries and an
\* account deletion overlap (MediaService.Upload, CatsService.Create).
THEOREM IdempotentCreation == Spec => []SameKeySameRow
<1>1. IInv => SameKeySameRow
  BY DEF IInv, OneAnswer, SameKey, SameKeySameRow
<1> QED BY <1>1, Safety, PTL

\* An object and its media row part only by a fault, by an insert the deletion has not
\* listed, by an answer that was lost, or through a photo on a deleted account's cat
\* (recoverFromCreateFailure, recoverFromCreateCatFailure, Store.DeleteAccount).
THEOREM ObjectsAndRows == Spec => []ObjectsMatchRows
<1>1. IInv => ObjectsMatchRows
  BY DEF IInv
<1> QED BY <1>1, Safety, PTL

\* A report on a cat or a photo outlives its target only if it raced with the deletion
\* (DeleteAccountReports, ReportsService.Create).
THEOREM ReportsGoWithTargets == Spec => []DanglingReportNeedsRace
<1>1. IInv => DanglingReportNeedsRace
  BY DEF IInv
<1> QED BY <1>1, Safety, PTL

\* An undisturbed deletion meets no foreign key: each statement's rows have lost their
\* children to the statements before it.
LEMMA ChildrenFirst ==
    ASSUME IInv, Running, ~tx.disturbed, Statement # "covers", NEW x \in Doomed(Statement)
    PROVE  ~Referenced(Statement, x)
<1> USE DEF IInv
<1> DEFINE n == tx.next
<1>1. /\ n \in 1..9 /\ n # 5
      /\ n = 1 => Statement = "notification_outbox"
      /\ n = 2 => Statement = "update_statuses"
      /\ n = 3 => Statement = "updates"
      /\ n = 4 => Statement = "reports"
      /\ n = 6 => Statement = "cat_media"
      /\ n = 7 => Statement = "cats"
      /\ n = 8 => Statement = "media"
      /\ n = 9 => Statement = "users"
  <2>1. tx \in Tx /\ n \in 1..Len(Statements) /\ Statement = Statements[n]
    BY DEF TypeOK, Tx, Statement
  <2> QED BY <2>1, TheStatements
<1>2. Swept
  BY DEF Undisturbed
<1>3. CASE n \in {1, 2, 4, 6}
  BY <1>1, <1>3 DEF Referenced
<1>4. CASE n = 3
  <2>1. x \in OwnUpdates /\ Own(x)
    BY <1>1, <1>4 DEF Doomed, OwnUpdates, OwnCats, Own
  <2> QED BY <1>1, <1>2, <1>4, <2>1 DEF Referenced, Swept
<1>5. CASE n = 7
  <2>1. x \in OwnCats /\ By(x, Leaver)
    BY <1>1, <1>5 DEF Doomed, OwnCats
  <2>2. \A p \in Seen("cat_media") : p[1] # x
    BY <1>2, <1>5, <2>1 DEF Swept
  <2>3. \A u \in Seen("updates") \cup Seen("notification_outbox") : post[u].cat # x
    BY <1>2, <1>5, <2>1 DEF Swept, Own
  <2> QED BY <1>1, <1>5, <2>2, <2>3 DEF Referenced
<1>6. CASE n = 8
  <2>1. x \in OwnMedia /\ By(x, Leaver) /\ x # None
    BY <1>1, <1>6, NoneAssumption DEF Doomed, OwnMedia, Seen, TypeOK, Row, Tables
  <2>2. \A p \in Seen("cat_media") : p[2] # x
    BY <1>2, <1>6, <2>1 DEF Swept
  <2>3. \A u \in Seen("updates") : post[u].media # x
    <3>1. \A u \in Seen("updates") : u \in Posts /\ post[u].pc = "done" /\ post[u].by # Leaver
      BY <1>2, <1>6 DEF Swept, Own, Seen, Hanging, TypeOK, Row, Tables
    <3> QED BY <2>1, <3>1 DEF Written, By
  <2>4. \A c \in Seen("cats") : SeenCover(c) # x
    BY <1>2, <1>6, <2>1 DEF Swept
  <2> QED BY <1>1, <1>6, <2>2, <2>3, <2>4 DEF Referenced
<1>7. CASE n = 9
  <2>1. x = Leaver
    BY <1>1, <1>7 DEF Doomed
  <2>2. \A y \in Seen("cats") \cup Seen("media") : ~By(y, Leaver)
    BY <1>2, <1>7 DEF Swept, OwnCats, OwnMedia
  <2>3. \A u \in Seen("updates") : post[u].by # Leaver
    BY <1>2, <1>7 DEF Swept, Own
  <2>4. \A f \in Seen("reports") : file[f].by # Leaver
    BY <1>2, <1>7 DEF Swept
  <2> QED BY <1>1, <1>7, <2>1, <2>2, <2>3, <2>4 DEF Referenced
<1> QED BY <1>1, <1>3, <1>4, <1>5, <1>6, <1>7

\* The outcomes of a statement of the deletion.
LEMMA StatementOutcomes ==
    ASSUME IInv, DeleteStatement
    PROVE  /\ Running /\ Statement # "covers" /\ UNCHANGED <<req, post, file>>
           /\ \A u \in Posts : ~WaitsFor(u)
           /\ \/ Rollback /\ UNCHANGED <<db, cover>>
              \/ /\ Statement = "users" /\ ~Referenced("users", Leaver) /\ Commit
              \/ /\ Statement \notin {"covers", "users"} /\ UNCHANGED <<db, cover>>
                 /\ ~\E x \in Doomed(Statement) : Referenced(Statement, x)
                 /\ dead' = [dead EXCEPT ![Statement] = @ \cup Doomed(Statement)]
                 /\ tx' = [tx EXCEPT !.next = @ + 1]
<1>1. /\ Running /\ Statement # "covers" /\ UNCHANGED <<req, post, file>> /\ \A u \in Posts : ~WaitsFor(u)
  BY Zenon DEF DeleteStatement
<1>2. \/ Rollback /\ UNCHANGED rows
      \/ /\ ~\E x \in Doomed(Statement) : Referenced(Statement, x)
         /\ Statement = "users" /\ Commit
      \/ /\ ~\E x \in Doomed(Statement) : Referenced(Statement, x)
         /\ Statement # "users" /\ UNCHANGED rows
         /\ dead' = [dead EXCEPT ![Statement] = @ \cup Doomed(Statement)]
         /\ tx' = [tx EXCEPT !.next = @ + 1]
  BY Zenon DEF DeleteStatement
<1>3. Statement = "users" => Doomed(Statement) = {Leaver}
  BY DEF Doomed
<1> QED BY <1>1, <1>2, <1>3 DEF rows

\* A cat that waits for the deletion, or that the deletion found waiting, marks it.
WaitsMarked == Running /\ (\E r \in Requests : req[r].pc = "waiting") => tx.disturbed

LEMMA WaitsStep == ASSUME IInv, WaitsMarked, [Next]_vars PROVE WaitsMarked'
<1>0. TypeOK /\ tx \in Tx /\ req \in [Requests -> Request]
  BY DEF IInv, TypeOK
<1>1. ASSUME Marked, \A r \in Requests : req'[r].pc = "waiting" => req[r].pc = "waiting" PROVE WaitsMarked'
  BY <1>0, <1>1, MarkedFields DEF WaitsMarked, Running
<1>2. ASSUME Rollback PROVE WaitsMarked'
  BY <1>2 DEF Rollback, NoTx, WaitsMarked, Running
<1>3. ASSUME NEW r \in Requests, UploadStep(r) PROVE WaitsMarked'
  <2>1. Marked
    BY <1>3 DEF UploadStep, Lookup, StoreObject, StoreObjectFails, Insert, InsertRefused, InsertLost,
       Recover, Cleanup, RequestDies, InsertRows, Marked
  <2>2. \A x \in Requests : req'[x].pc = "waiting" => req[x].pc = "waiting"
    BY <1>0, <1>3 DEF UploadStep, Lookup, StoreObject, StoreObjectFails, Insert, InsertRefused, InsertLost,
       Recover, Cleanup, RequestDies, Request
  <2> QED BY <1>1, <2>1, <2>2
<1>4. ASSUME NEW r \in Requests, WaitStep(r) PROVE WaitsMarked'
  <2>1. CatWaits(r) => WaitsMarked'
    BY <1>0, DisturbedFields DEF CatWaits, WaitsMarked, Running
  <2>2. CatDeadlock(r) => WaitsMarked'
    <3>1. CASE Rollback
      BY <1>2, <3>1
    <3>2. ASSUME req' = [req EXCEPT ![r].pc = "cleanup"], UNCHANGED tx PROVE WaitsMarked'
      BY <1>0, <1>1, <3>2 DEF Marked, Request
    <3> QED BY <3>1, <3>2 DEF CatDeadlock
  <2> QED BY <1>4, <2>1, <2>2 DEF WaitStep
<1>5. ASSUME UNCHANGED req, Marked \/ Rollback PROVE WaitsMarked'
  BY <1>1, <1>2, <1>5
<1>6. ASSUME NEW u \in Posts, PostStep(u) PROVE WaitsMarked'
  BY <1>5, <1>6 DEF PostStep, PostCheck, PostInsert, PostCommit, PostFails, Deadlock, Marked
<1>7. ASSUME NEW c \in Requests, NEW m \in Requests, SetCoverPhoto(c, m) PROVE WaitsMarked'
  BY <1>5, <1>7 DEF SetCoverPhoto, Marked
<1>8. ASSUME NEW f \in Files, ReportCheck(f) \/ CreateReport(f) PROVE WaitsMarked'
  BY <1>5, <1>8 DEF ReportCheck, CreateReport, Marked
<1>9. ASSUME DeleteStep PROVE WaitsMarked'
  <2>1. CASE BeginDelete
    <3>1. UNCHANGED req /\ tx'.disturbed = OthersOpen
      BY <2>1 DEF BeginDelete, NoTx
    <3>2. (\E r \in Requests : req[r].pc = "waiting") => OthersOpen
      BY DEF OthersOpen
    <3> QED BY <3>1, <3>2 DEF WaitsMarked
  <2>2. CASE DeleteStatement
    BY <1>0, <1>2, <2>2, StatementOutcomes DEF Commit, Committed, NoTx, WaitsMarked, Running, Tx
  <2>3. CASE ClearCovers \/ NothingToErase \/ \E k \in Requests : EraseObject(k)
    BY <1>0, <2>3 DEF ClearCovers, NothingToErase, EraseObject, WaitsMarked, Running, Tx
  <2>4. CASE DeleteDies
    <3>1. Rollback \/ tx' = [NoTx EXCEPT !.pc = "over"]
      BY <2>4 DEF DeleteDies
    <3> QED BY <1>2, <3>1 DEF NoTx, WaitsMarked, Running
  <2> QED BY <1>9, <2>1, <2>2, <2>3, <2>4 DEF DeleteStep
<1>10. CASE UNCHANGED vars
  BY <1>5, <1>10 DEF vars, Marked
<1> QED BY <1>3, <1>4, <1>6, <1>7, <1>8, <1>9, <1>10 DEF Next

\* The deletion runs into a foreign key or a deadlock only when another request wrote, or
\* had a transaction open, while it ran (Store.DeleteAccount's order of statements).
THEOREM CleanDeletion == Spec => AbortNeedsOverlap
<1>1. ASSUME IInv, WaitsMarked, [Next]_vars, Running, tx'.pc = "none" PROVE tx.disturbed \/ faults' # faults
  <2> SUFFICES ASSUME ~tx.disturbed PROVE faults' # faults
    OBVIOUS
  <2>1. tx \in Tx /\ tx.pc = "running" /\ faults \in 0..MaxFaults
    BY <1>1 DEF IInv, TypeOK, Running
  <2>2. ASSUME Disturbed PROVE FALSE
    BY <1>1, <2>1, <2>2, DisturbedFields
  <2>3. ASSUME NEW r \in Requests, UploadStep(r) PROVE FALSE
    BY <1>1, <2>1, <2>2, <2>3 DEF UploadStep, Lookup, StoreObject, StoreObjectFails, Insert, InsertRefused,
       InsertLost, Recover, Cleanup, RequestDies, InsertRows
  <2>9. ASSUME NEW r \in Requests, WaitStep(r) PROVE FALSE
    BY <1>1, <2>1, <2>2, <2>9 DEF WaitStep, CatWaits, CatDeadlock, LocksAccount, WaitsMarked
  <2>4. ASSUME NEW u \in Posts, PostStep(u) PROVE FALSE
    <3>1. post[u].pc # "open"
      BY <1>1 DEF IInv, Undisturbed, Swept
    <3> QED BY <1>1, <2>1, <2>2, <2>4, <3>1 DEF PostStep, PostCheck, PostInsert, PostCommit, PostFails, Deadlock, WaitsFor
  <2>5. ASSUME NEW c \in Requests, NEW m \in Requests, SetCoverPhoto(c, m) PROVE FALSE
    BY <2>2, <2>5 DEF SetCoverPhoto
  <2>6. ASSUME NEW f \in Files, ReportCheck(f) \/ CreateReport(f) PROVE FALSE
    BY <1>1, <2>1, <2>2, <2>6 DEF ReportCheck, CreateReport
  <2>7. CASE DeleteStep
    <3>1. ASSUME DeleteStatement PROVE FALSE
      <4>1. ~\E x \in Doomed(Statement) : Referenced(Statement, x)
        BY <1>1, <3>1, ChildrenFirst DEF DeleteStatement
      <4>2. \/ tx' = [NoTx EXCEPT !.pc = "erasing", !.keys = tx.keys]
            \/ tx' = [tx EXCEPT !.next = @ + 1]
        BY <3>1, <4>1 DEF DeleteStatement, Commit, Committed
      <4>3. CASE tx' = [NoTx EXCEPT !.pc = "erasing", !.keys = tx.keys]
        BY <1>1, <4>3 DEF NoTx
      <4>4. CASE tx' = [tx EXCEPT !.next = @ + 1]
        BY <1>1, <2>1, <4>4 DEF Tx
      <4> QED BY <4>2, <4>3, <4>4
    <3>2. ASSUME ClearCovers PROVE FALSE
      BY <1>1, <2>1, <3>2 DEF ClearCovers, Tx
    <3>3. ASSUME DeleteDies PROVE faults' # faults
      BY <2>1, <3>3, BoundAssumption DEF DeleteDies, Fault
    <3> QED BY <2>1, <2>7, <3>1, <3>2, <3>3 DEF DeleteStep, BeginDelete, NothingToErase, EraseObject
  <2>8. CASE UNCHANGED vars
    BY <1>1, <2>1, <2>8 DEF vars
  <2> QED BY <1>1, <2>3, <2>4, <2>5, <2>6, <2>7, <2>8, <2>9 DEF Next
<1>2. IInv /\ WaitsMarked /\ [Next]_vars => [Running /\ tx'.pc = "none" => tx.disturbed \/ faults' # faults]_vars
  BY <1>1
<1>3. Init => WaitsMarked
  BY DEF Init, NoTx, WaitsMarked, Running
<1>4. IInv /\ WaitsMarked /\ [Next]_vars => WaitsMarked'
  BY WaitsStep
<1> QED BY <1>2, <1>3, <1>4, Safety, PTL DEF Spec, AbortNeedsOverlap

----------------------------------------------------------------------------
(* Foreign keys, and what a deletion leaves behind *)

\* The foreign keys between the tables, for rows d and covers c.
KeysHold(d, c) ==
    /\ \A x \in d["cats"] \cup d["media"] : req[x].by \in d["users"]
    /\ \A u \in d["updates"] : /\ post[u].by \in d["users"] /\ post[u].cat \in d["cats"]
                               /\ post[u].media \in d["media"] \cup {None}
    /\ d["update_statuses"] \cup d["notification_outbox"] \subseteq d["updates"]
    /\ \A p \in d["cat_media"] : p[1] \in d["cats"] /\ p[2] \in d["media"]
    /\ \A x \in d["cats"] : c[x] \in d["media"] \cup {None}
    /\ \A f \in d["reports"] : file[f].by \in d["users"]

\* No committed row refers to a row that is gone, whatever commits beside the deletion
\* (the schema's foreign keys; Store.DeleteAccount checks each statement by itself only).
ForeignKeysHold == KeysHold(db, cover)

\* The deletion's own view has no such row either, and the parents of an open transaction's
\* update are there and not deleted.
SeenRows == [t \in Tables |-> Seen(t)]
SeenCovers == [c \in Requests |-> SeenCover(c)]
SeenHold == KeysHold(SeenRows, SeenCovers)
OpenHolds == \A u \in Posts : post[u].pc = "open" => ParentsExist(u) /\ ~ParentsAmong(u, dead)

\* A checked report names a row that was there.
Targeted == \A f \in Files : file[f].pc # "none" =>
    IF file[f].type = "update" THEN file[f].target \in Posts /\ post[file[f].target].pc = "done"
                               ELSE file[f].target \in Requests /\ Fixed(file[f].target)

\* What a row is to the account that is deleted: the account, its uploads and cats, its updates
\* and those on its cats with what hangs on them, and the reports it filed or that name one of these.
Belongs(t, x) ==
    CASE t = "users" -> x = Leaver
      [] t \in {"cats", "media"} -> By(x, Leaver)
      [] t = "cat_media" -> By(x[1], Leaver) \/ By(x[2], Leaver)
      [] t = "reports" -> \/ file[x].by = Leaver
                          \/ IF file[x].type = "update" THEN Own(file[x].target) ELSE By(file[x].target, Leaver)
      [] OTHER -> Own(x)
OnlyOwn == \A t \in Tables : \A x \in dead[t] : Belongs(t, x)

\* Once the deletion has committed, no table holds a row of the account, its cats or its photos; of
\* the reports, none that it filed (Store.DeleteAccount; requests in flight may commit at any time).
NothingRemains == tx.pc \in {"erasing", "over"} =>
    /\ \A t \in Tables \ {"reports"} : \A x \in db[t] : ~Belongs(t, x)
    /\ \A f \in db["reports"] : file[f].by # Leaver

\* No step takes a committed row of anybody else (Store.DeleteAccount's WHERE clauses; no other
\* operation here deletes a row).
NothingElseGoes == [][\A t \in Tables : \A x \in db[t] \ db'[t] : Belongs(t, x)]_vars

KeyInv == ForeignKeysHold /\ SeenHold /\ OpenHolds /\ Targeted /\ OnlyOwn

\* What an update under way and a checked report keep.
PostsKept == \A u \in Posts : post[u].pc # "none" =>
    /\ post'[u].pc # "none" /\ (post[u].pc = "done" => post'[u].pc = "done")
    /\ post'[u].by = post[u].by /\ post'[u].cat = post[u].cat /\ post'[u].media = post[u].media
FilesKept == \A f \in Files : file[f].pc # "none" =>
    /\ file'[f].pc # "none" /\ file'[f].by = file[f].by
    /\ file'[f].type = file[f].type /\ file'[f].target = file[f].target

\* No step changes whose row it is, what an update is about or what a report names.
LEMMA FieldsKept == ASSUME IInv, [Next]_vars PROVE Kept /\ PostsKept /\ FilesKept
<1> USE DEF IInv
<1>0. req \in [Requests -> Request] /\ post \in [Posts -> Post] /\ file \in [Files -> File]
  BY DEF TypeOK
<1>1. CASE UNCHANGED <<req, post, file>>
  BY <1>1 DEF Kept, PostsKept, FilesKept, Fixed
<1>2. ASSUME NEW r \in Requests, UploadStep(r) PROVE Kept /\ PostsKept /\ FilesKept
  <2>1. UNCHANGED <<post, file>>
    BY <1>2 DEF UploadStep, Lookup, StoreObject, StoreObjectFails, Insert, InsertRefused, InsertLost,
       Recover, Cleanup, RequestDies
  <2>2. Lookup(r) => Kept
    BY <1>0 DEF Lookup, Kept, Fixed
  <2>3. StoreObject(r) \/ StoreObjectFails(r) => Kept
    BY <1>0 DEF StoreObject, StoreObjectFails, Kept, Fixed, Request
  <2>4. InsertRefused(r) => Kept
    BY <1>0 DEF InsertRefused, Inserting, Kept, Fixed, Request
  <2>5. Recover(r) \/ Cleanup(r) => Kept
    BY <1>0 DEF Recover, Cleanup, Kept, Fixed, Request
  <2>6. Insert(r) \/ InsertLost(r) \/ RequestDies(r) => Kept
    BY <1>0 DEF Insert, InsertLost, RequestDies, Inserting, Kept, Fixed, Request
  <2> QED BY <1>2, <2>1, <2>2, <2>3, <2>4, <2>5, <2>6 DEF UploadStep, PostsKept, FilesKept
<1>3. ASSUME NEW u \in Posts, PostStep(u) PROVE Kept /\ PostsKept /\ FilesKept
  <2>1. UNCHANGED <<req, file>>
    BY <1>3 DEF PostStep, PostCheck, PostInsert, PostCommit, PostFails, Deadlock
  <2>2. PostsKept
    BY <1>0, <1>3 DEF PostStep, PostCheck, PostInsert, PostCommit, PostFails, Deadlock, PostsKept, Post, WaitsFor
  <2> QED BY <2>1, <2>2 DEF Kept, Fixed, FilesKept
<1>4. ASSUME NEW f \in Files, ReportCheck(f) \/ CreateReport(f) PROVE Kept /\ PostsKept /\ FilesKept
  <2>1. UNCHANGED <<req, post>>
    BY <1>4 DEF ReportCheck, CreateReport
  <2>2. FilesKept
    BY <1>0, <1>4 DEF ReportCheck, CreateReport, FilesKept, File
  <2> QED BY <2>1, <2>2 DEF Kept, Fixed, PostsKept
<1>5. ASSUME NEW c \in Requests, NEW m \in Requests, SetCoverPhoto(c, m) PROVE UNCHANGED <<req, post, file>>
  BY <1>5 DEF SetCoverPhoto
<1>6. DeleteStep => UNCHANGED <<req, post, file>>
  <2>1. BeginDelete => UNCHANGED <<req, post, file>>
    BY Zenon DEF BeginDelete
  <2> QED BY <2>1 DEF DeleteStep, DeleteStatement, ClearCovers, NothingToErase, DeleteDies, EraseObject
<1>7. UNCHANGED vars => UNCHANGED <<req, post, file>>
  BY DEF vars
<1>8. ASSUME NEW r \in Requests, WaitStep(r) PROVE Kept /\ PostsKept /\ FilesKept
  <2>1. UNCHANGED req \/ (~Fixed(r) /\ \E pc \in {"waiting", "cleanup"} : req' = [req EXCEPT ![r].pc = pc])
    BY <1>8, WaitOutcomes DEF Inserting, Fixed
  <2>2. Kept
    BY <1>0, <2>1 DEF Kept, Fixed
  <2> QED BY <1>8, <2>2, WaitOutcomes DEF PostsKept, FilesKept
<1> QED BY <1>8, <1>1, <1>2, <1>3, <1>4, <1>5, <1>6, <1>7 DEF Next

\* Rows keep their parents' names.
LEMMA RowsKept ==
    ASSUME IInv, Kept, PostsKept, FilesKept
    PROVE  /\ \A x \in db["cats"] \cup db["media"] : x \in Requests /\ Fixed(x) /\ req'[x].by = req[x].by
           /\ \A u \in db["updates"] \cup db["update_statuses"] \cup db["notification_outbox"] :
                 /\ u \in Posts /\ post[u].pc = "done" /\ post'[u].by = post[u].by
                 /\ post'[u].cat = post[u].cat /\ post'[u].media = post[u].media
           /\ \A f \in db["reports"] :
                 /\ f \in Files /\ file[f].pc # "none" /\ file'[f].by = file[f].by
                 /\ file'[f].type = file[f].type /\ file'[f].target = file[f].target
<1> USE DEF IInv
<1>1. /\ db["media"] \subseteq Requests /\ db["cats"] \subseteq Requests /\ db["reports"] \subseteq Files
      /\ db["updates"] \cup db["update_statuses"] \cup db["notification_outbox"] \subseteq Posts
  BY DEF TypeOK, Row, Tables
<1>2. \A x \in db["cats"] \cup db["media"] : Fixed(x)
  BY DEF Rooted
<1>3. \A u \in db["updates"] \cup db["update_statuses"] \cup db["notification_outbox"] : post[u].pc = "done"
  BY DEF Hanging
<1>4. \A f \in db["reports"] : file[f].pc # "none"
  BY DEF Filed
<1> QED BY <1>1, <1>2, <1>3, <1>4 DEF Kept, PostsKept, FilesKept

\* With nothing deleted the deletion sees what is committed.
LEMMA NothingDead ==
    ASSUME TypeOK', ForeignKeysHold', \A t \in Tables : dead'[t] = {}
    PROVE  SeenHold'
<1>1. \A t \in Tables : SeenRows'[t] = db'[t]
  BY DEF SeenRows, Seen
<1>2. db'["cats"] \subseteq Requests
  BY DEF TypeOK, Row, Tables
<1>3. \A c \in Requests : SeenCovers'[c] \in {cover'[c], None}
  BY DEF SeenCovers, SeenCover
<1> QED BY <1>1, <1>2, <1>3 DEF SeenHold, ForeignKeysHold, KeysHold, Tables

\* A step that changes no row.
LEMMA KeysFrame ==
    ASSUME IInv, IInv', KeyInv, Kept, PostsKept, FilesKept, UNCHANGED <<db, cover, dead>>,
           tx'.cleared = tx.cleared \/ ~Running
    PROVE  ForeignKeysHold' /\ SeenHold'
<1> USE DEF IInv, KeyInv
<1>1. ForeignKeysHold'
  <2> HIDE DEF IInv
  <2> QED BY RowsKept DEF ForeignKeysHold, KeysHold
<1>2. CASE ~Running
  BY <1>1, <1>2, NothingDead DEF Deleting
<1>3. CASE tx'.cleared = tx.cleared
  <2>1. SeenRows' = SeenRows /\ SeenCovers' = SeenCovers
    BY <1>3 DEF SeenRows, SeenCovers, Seen, SeenCover
  <2>2. \A t \in Tables : SeenRows[t] \subseteq db[t]
    BY DEF SeenRows, Seen
  <2>3. /\ SeenRows["cats"] \subseteq db["cats"] /\ SeenRows["media"] \subseteq db["media"]
        /\ SeenRows["updates"] \subseteq db["updates"] /\ SeenRows["reports"] \subseteq db["reports"]
    BY <2>2 DEF Tables
  <2>4. KeysHold(SeenRows, SeenCovers)
    BY DEF SeenHold
  <2> HIDE DEF IInv, KeyInv
  <2>5. /\ \A x \in SeenRows["cats"] \cup SeenRows["media"] : req'[x].by = req[x].by
        /\ \A u \in SeenRows["updates"] : /\ post'[u].by = post[u].by
                                         /\ post'[u].cat = post[u].cat /\ post'[u].media = post[u].media
        /\ \A f \in SeenRows["reports"] : file'[f].by = file[f].by
    BY <2>3, RowsKept
  <2> QED BY <1>1, <2>1, <2>4, <2>5 DEF SeenHold, KeysHold
<1> QED BY <1>1, <1>2, <1>3

\* The rows of an upload or a cat creation: all of them new, with the account there.
LEMMA KeysInsert ==
    ASSUME IInv, IInv', KeyInv, Kept, PostsKept, FilesKept, NEW r \in Requests, Inserting(r),
           req'[r].by = req[r].by, MayInsert(r), InsertRows(r), UNCHANGED <<post, file, dead>>
    PROVE  ForeignKeysHold' /\ SeenHold'
<1>1. /\ \A t \in Tables \ {"media", "cats", "cat_media"} : db'[t] = db[t]
      /\ db'["media"] = db["media"] \cup {r}
      /\ db'["cats"] = db["cats"] \cup (IF req[r].kind = "cat" THEN {r} ELSE {})
      /\ db'["cat_media"] = db["cat_media"] \cup (IF req[r].kind = "cat" THEN {<<r, r>>} ELSE {})
      /\ tx'.cleared = tx.cleared
  BY InsertedRows DEF IInv
<1>2. /\ db'["users"] = db["users"] /\ db'["updates"] = db["updates"] /\ db'["reports"] = db["reports"]
      /\ db'["update_statuses"] = db["update_statuses"]
      /\ db'["notification_outbox"] = db["notification_outbox"]
  BY <1>1 DEF Tables
<1>3. cover' = [cover EXCEPT ![r] = IF req[r].kind = "cat" THEN r ELSE None] /\ cover \in [Requests -> Requests \cup {None}]
  BY DEF InsertRows, IInv, TypeOK
<1>4. cover'[r] \in {r, None} /\ \A c \in Requests \ {r} : cover'[c] = cover[c]
  BY <1>3
<1>5. req'[r].by \in db["users"] /\ r \notin db["media"] /\ r \notin db["cats"]
  BY NoRowYet DEF MayInsert, Inserting, Fixed
<1>6. /\ dead["users"] = {} /\ r \notin dead["media"] /\ r \notin dead["cats"] /\ <<r, r>> \notin dead["cat_media"]
      /\ db["cats"] \subseteq Requests
  <2>1. dead["cat_media"] \subseteq db["cat_media"] /\ dead["media"] \subseteq db["media"] /\ dead["cats"] \subseteq db["cats"]
        /\ db["cats"] \subseteq Requests
    BY DEF IInv, TypeOK, Tables, Row
  <2>2. <<r, r>> \notin db["cat_media"]
    BY <1>5 DEF KeyInv, ForeignKeysHold, KeysHold
  <2> QED BY <1>5, <2>1, <2>2 DEF IInv, Deleting
<1>7. ForeignKeysHold'
  <2>1. KeysHold(db, cover)
    BY DEF KeyInv, ForeignKeysHold
  <2>2. /\ \A x \in db["cats"] \cup db["media"] : req'[x].by \in db["users"]
        /\ \A u \in db["updates"] : /\ post'[u].by \in db["users"] /\ post'[u].cat \in db["cats"]
                                   /\ post'[u].media \in db["media"] \cup {None}
        /\ \A f \in db["reports"] : file'[f].by \in db["users"]
    BY <2>1, RowsKept DEF KeysHold
  <2>3. \A x \in db'["cats"] : cover'[x] \in db'["media"] \cup {None}
    BY <1>1, <1>4, <1>6, <2>1 DEF KeysHold
  <2>4. \A p \in db'["cat_media"] : p[1] \in db'["cats"] /\ p[2] \in db'["media"]
    BY <1>1, <2>1 DEF KeysHold
  <2> QED BY <1>1, <1>2, <1>5, <2>1, <2>2, <2>3, <2>4 DEF ForeignKeysHold, KeysHold
<1>8. SeenHold'
  <2> DEFINE s == SeenRows
             s1 == SeenRows'
  <2>1. /\ \A t \in Tables : s[t] = db[t] \ dead[t] /\ s1[t] = db'[t] \ dead[t]
        /\ \A c \in Requests : SeenCovers[c] = (IF c \in tx.cleared THEN None ELSE cover[c])
        /\ \A c \in Requests : SeenCovers'[c] = (IF c \in tx.cleared THEN None ELSE cover'[c])
    BY <1>1 DEF SeenRows, SeenCovers, Seen, SeenCover
  <2>2. /\ s1["users"] = s["users"] /\ s1["updates"] = s["updates"] /\ s1["reports"] = s["reports"]
        /\ s1["update_statuses"] = s["update_statuses"] /\ s1["notification_outbox"] = s["notification_outbox"]
        /\ s1["media"] = s["media"] \cup {r}
        /\ s1["cats"] = s["cats"] \cup (IF req[r].kind = "cat" THEN {r} ELSE {})
        /\ s1["cat_media"] = s["cat_media"] \cup (IF req[r].kind = "cat" THEN {<<r, r>>} ELSE {})
        /\ s["users"] = db["users"] /\ s["cats"] \subseteq db["cats"] /\ s["media"] \subseteq db["media"]
        /\ s["updates"] \subseteq db["updates"] /\ s["reports"] \subseteq db["reports"]
    <3> HIDE DEF s, s1
    <3>1. /\ s["users"] = db["users"] \ dead["users"] /\ s1["users"] = db'["users"] \ dead["users"]
          /\ s["cats"] = db["cats"] \ dead["cats"] /\ s1["cats"] = db'["cats"] \ dead["cats"]
          /\ s["media"] = db["media"] \ dead["media"] /\ s1["media"] = db'["media"] \ dead["media"]
          /\ s["cat_media"] = db["cat_media"] \ dead["cat_media"]
          /\ s1["cat_media"] = db'["cat_media"] \ dead["cat_media"]
      BY <2>1 DEF Tables
    <3>2. /\ s1["updates"] = s["updates"] /\ s1["reports"] = s["reports"]
          /\ s1["update_statuses"] = s["update_statuses"] /\ s1["notification_outbox"] = s["notification_outbox"]
          /\ s["updates"] \subseteq db["updates"] /\ s["reports"] \subseteq db["reports"]
      BY <1>2, <2>1 DEF Tables
    <3>3. s1["cat_media"] = s["cat_media"] \cup (IF req[r].kind = "cat" THEN {<<r, r>>} ELSE {})
      BY <1>1, <1>6, <3>1
    <3>4. /\ s1["media"] = s["media"] \cup {r}
          /\ s1["cats"] = s["cats"] \cup (IF req[r].kind = "cat" THEN {r} ELSE {})
      BY <1>1, <1>6, <3>1
    <3> QED BY <1>2, <1>6, <3>1, <3>2, <3>3, <3>4
  <2>3. KeysHold(s, SeenCovers)
    BY DEF KeyInv, SeenHold
  <2>4. /\ SeenCovers'[r] \in {r, None}
        /\ \A c \in Requests \ {r} : SeenCovers'[c] = SeenCovers[c]
    BY <1>4, <2>1
  <2> HIDE DEF s, s1
  <2>5. /\ \A x \in s["cats"] \cup s["media"] : req'[x].by \in s["users"]
        /\ \A u \in s["updates"] : /\ post'[u].by \in s["users"] /\ post'[u].cat \in s["cats"]
                                  /\ post'[u].media \in s["media"] \cup {None}
        /\ \A f \in s["reports"] : file'[f].by \in s["users"]
    <3>1. \A x \in s["cats"] \cup s["media"] : req'[x].by = req[x].by
      BY <2>2, RowsKept
    <3> QED BY <2>3, <3>1 DEF KeysHold
  <2>6. \A x \in s1["cats"] : SeenCovers'[x] \in s1["media"] \cup {None}
    BY <1>6, <2>2, <2>3, <2>4 DEF KeysHold
  <2>7. \A p \in s1["cat_media"] : p[1] \in s1["cats"] /\ p[2] \in s1["media"]
    BY <2>2, <2>3 DEF KeysHold
  <2>8. /\ \A x \in s1["cats"] \cup s1["media"] : req'[x].by \in s1["users"]
        /\ s1["update_statuses"] \cup s1["notification_outbox"] \subseteq s1["updates"]
    BY <1>5, <2>2, <2>3, <2>5 DEF KeysHold
  <2>9. KeysHold(SeenRows, SeenCovers)'
    BY <2>2, <2>5, <2>6, <2>7, <2>8 DEF KeysHold, s1
  <2> QED BY <2>9 DEF SeenHold
<1> QED BY <1>7, <1>8

\* The deletion's view before and after a step.
LEMMA Views ==
    /\ \A t \in Tables : SeenRows[t] = db[t] \ dead[t] /\ SeenRows'[t] = db'[t] \ dead'[t]
    /\ \A c \in Requests : /\ SeenCovers[c] = (IF c \in tx.cleared THEN None ELSE cover[c])
                           /\ SeenCovers'[c] = (IF c \in tx'.cleared THEN None ELSE cover'[c])
BY DEF SeenRows, SeenCovers, Seen, SeenCover

\* An update commits with its parents there, and none of them deleted.
LEMMA KeysPostCommit ==
    ASSUME IInv, IInv', KeyInv, Kept, PostsKept, FilesKept, NEW u \in Posts, PostCommit(u)
    PROVE  ForeignKeysHold' /\ SeenHold'
<1>1. /\ post[u].by \in db["users"] \ dead["users"] /\ post[u].cat \in db["cats"] \ dead["cats"]
      /\ post[u].media = None \/ post[u].media \in db["media"] \ dead["media"]
      /\ post'[u].by = post[u].by /\ post'[u].cat = post[u].cat /\ post'[u].media = post[u].media
  BY DEF KeyInv, OpenHolds, ParentsExist, ParentsAmong, PostCommit, PostsKept
<1>2. DOMAIN db = Tables /\ tx \in Tx /\ db["cats"] \subseteq Requests
  BY DEF IInv, TypeOK, Row, Tables
<1>3. tx'.cleared = tx.cleared /\ UNCHANGED <<cover, dead>>
  BY <1>2, DisturbedFields DEF PostCommit
<1> DEFINE new == IF post[u].media = None THEN {} ELSE {<<post[u].cat, post[u].media>>}
<1>4. db' = [db EXCEPT !["updates"] = @ \cup {u}, !["update_statuses"] = @ \cup {u},
                       !["notification_outbox"] = @ \cup {u}, !["cat_media"] = @ \cup new]
  BY DEF PostCommit
<1>5. \A p \in new : p[1] \in db["cats"] \ dead["cats"] /\ p[2] \in db["media"] \ dead["media"]
  BY <1>1
<1> HIDE DEF new
<1>6. /\ db'["users"] = db["users"] /\ db'["cats"] = db["cats"] /\ db'["media"] = db["media"]
      /\ db'["reports"] = db["reports"] /\ db'["updates"] = db["updates"] \cup {u}
      /\ db'["update_statuses"] = db["update_statuses"] \cup {u}
      /\ db'["notification_outbox"] = db["notification_outbox"] \cup {u}
      /\ db'["cat_media"] = db["cat_media"] \cup new
  BY <1>2, <1>4 DEF Tables
<1>7. ForeignKeysHold'
  <2>1. KeysHold(db, cover)
    BY DEF KeyInv, ForeignKeysHold
  <2>2. /\ \A x \in db["cats"] \cup db["media"] : req'[x].by \in db["users"]
        /\ \A v \in db["updates"] : /\ post'[v].by \in db["users"] /\ post'[v].cat \in db["cats"]
                                   /\ post'[v].media \in db["media"] \cup {None}
        /\ \A f \in db["reports"] : file'[f].by \in db["users"]
    BY <2>1, RowsKept DEF KeysHold
  <2> QED BY <1>1, <1>3, <1>5, <1>6, <2>1, <2>2 DEF ForeignKeysHold, KeysHold
<1>8. SeenHold'
  <2> DEFINE s == SeenRows
             s1 == SeenRows'
  <2>1. /\ s1["users"] = s["users"] /\ s1["cats"] = s["cats"] /\ s1["media"] = s["media"]
        /\ s1["reports"] = s["reports"]
        /\ s["cats"] = db["cats"] \ dead["cats"] /\ s["media"] = db["media"] \ dead["media"]
        /\ s["users"] = db["users"] \ dead["users"]
        /\ s["updates"] \subseteq db["updates"] /\ s["reports"] \subseteq db["reports"]
    BY <1>3, <1>6, Views DEF Tables
  <2>2. /\ s1["updates"] \subseteq s["updates"] \cup {u}
        /\ s1["update_statuses"] \subseteq s["update_statuses"] \cup {u}
        /\ s1["notification_outbox"] \subseteq s["notification_outbox"] \cup {u}
        /\ s1["cat_media"] \subseteq s["cat_media"] \cup new
    BY <1>3, <1>6, Views DEF Tables
  <2>3. s["updates"] \subseteq s1["updates"] /\ u \in s1["updates"]
    <3>1. u \notin dead["updates"]
      <4>1. u \notin db["updates"] /\ dead["updates"] \subseteq db["updates"]
        BY DEF PostCommit, IInv, Hanging, TypeOK, Tables
      <4> QED BY <4>1
    <3> QED BY <1>3, <1>6, <3>1, Views DEF Tables
  <2>4. \A c \in s["cats"] : SeenCovers'[c] = SeenCovers[c]
    BY <1>2, <1>3, <2>1, Views
  <2>5. KeysHold(s, SeenCovers)
    BY DEF KeyInv, SeenHold
  <2> HIDE DEF s, s1
  <2>6. /\ \A x \in s["cats"] \cup s["media"] : req'[x].by \in s["users"]
        /\ \A v \in s["updates"] : /\ post'[v].by \in s["users"] /\ post'[v].cat \in s["cats"]
                                  /\ post'[v].media \in s["media"] \cup {None}
        /\ \A f \in s["reports"] : file'[f].by \in s["users"]
    <3>1. /\ \A x \in s["cats"] \cup s["media"] : req'[x].by = req[x].by
          /\ \A v \in s["updates"] : /\ post'[v].by = post[v].by
                                    /\ post'[v].cat = post[v].cat /\ post'[v].media = post[v].media
          /\ \A f \in s["reports"] : file'[f].by = file[f].by
      BY <2>1, RowsKept
    <3> QED BY <2>5, <3>1 DEF KeysHold
  <2>7. \A v \in s1["updates"] : /\ post'[v].by \in s1["users"] /\ post'[v].cat \in s1["cats"]
                                 /\ post'[v].media \in s1["media"] \cup {None}
    BY <1>1, <2>1, <2>2, <2>6
  <2>8. \A p \in s1["cat_media"] : p[1] \in s1["cats"] /\ p[2] \in s1["media"]
    BY <1>5, <2>1, <2>2, <2>5 DEF KeysHold
  <2>9. /\ s1["update_statuses"] \cup s1["notification_outbox"] \subseteq s1["updates"]
        /\ \A c \in s1["cats"] : SeenCovers'[c] \in s1["media"] \cup {None}
    BY <2>1, <2>2, <2>3, <2>4, <2>5 DEF KeysHold
  <2>10. KeysHold(SeenRows, SeenCovers)'
    BY <2>1, <2>6, <2>7, <2>8, <2>9 DEF KeysHold, s1
  <2> QED BY <2>10 DEF SeenHold
<1> QED BY <1>7, <1>8

\* A cover is chosen from the cat's archive, and a photo the deletion has deleted is not.
LEMMA KeysCover ==
    ASSUME IInv, IInv', KeyInv, NEW c \in Requests, NEW m \in Requests, SetCoverPhoto(c, m)
    PROVE  ForeignKeysHold' /\ SeenHold'
<1>1. /\ m \in db["media"] \ dead["media"] /\ UNCHANGED <<req, db, post, file, dead>>
      /\ cover' = [cover EXCEPT ![c] = m] /\ cover \in [Requests -> Requests \cup {None}]
  BY DEF SetCoverPhoto, KeyInv, ForeignKeysHold, KeysHold, IInv, TypeOK
<1>2. tx'.cleared = tx.cleared /\ db["cats"] \subseteq Requests
  BY DisturbedFields DEF SetCoverPhoto, IInv, TypeOK, Row, Tables
<1>3. cover'[c] = m /\ \A x \in Requests \ {c} : cover'[x] = cover[x]
  BY <1>1
<1>4. ForeignKeysHold'
  BY <1>1, <1>2, <1>3 DEF KeyInv, ForeignKeysHold, KeysHold
<1>5. SeenRows' = SeenRows /\ SeenRows["cats"] \subseteq Requests /\ m \in SeenRows["media"]
  BY <1>1, <1>2 DEF SeenRows, Seen, Tables
<1>6. SeenCovers'[c] \in {m, None} /\ \A x \in Requests \ {c} : SeenCovers'[x] = SeenCovers[x]
  BY <1>2, <1>3, Views
<1>7. KeysHold(SeenRows, SeenCovers)
  BY DEF KeyInv, SeenHold
<1>8. \A x \in SeenRows["cats"] : SeenCovers'[x] \in SeenRows["media"] \cup {None}
  BY <1>5, <1>6, <1>7 DEF KeysHold
<1>9. KeysHold(SeenRows, SeenCovers)'
  BY <1>1, <1>5, <1>7, <1>8 DEF KeysHold
<1> QED BY <1>4, <1>9 DEF SeenHold

\* A report is written with its reporter there.
LEMMA KeysReport ==
    ASSUME IInv, IInv', KeyInv, FilesKept, NEW g \in Files, CreateReport(g)
    PROVE  ForeignKeysHold' /\ SeenHold'
<1>1. /\ UNCHANGED <<req, cover, post, dead>> /\ file'[g].by = file[g].by
      /\ db' = [db EXCEPT !["reports"] = @ \cup (IF file[g].by \in db["users"] /\ OpenReport(g) = {} THEN {g} ELSE {})]
  BY DEF CreateReport, FilesKept
<1>2. DOMAIN db = Tables /\ tx'.cleared = tx.cleared
  BY DisturbedFields DEF CreateReport, IInv, TypeOK
<1>3. /\ \A t \in Tables \ {"reports"} : db'[t] = db[t]
      /\ db'["reports"] = db["reports"] \/ (db'["reports"] = db["reports"] \cup {g} /\ file[g].by \in db["users"])
  BY <1>1, <1>2 DEF Tables
<1>4. \A f \in db["reports"] : file'[f].by = file[f].by
  BY DEF IInv, TypeOK, Row, Tables, Filed, FilesKept
<1>5. ForeignKeysHold'
  <2>1. \A f \in db'["reports"] : file'[f].by \in db'["users"]
    BY <1>1, <1>3, <1>4 DEF KeyInv, ForeignKeysHold, KeysHold, Tables
  <2> QED BY <1>1, <1>3, <2>1 DEF KeyInv, ForeignKeysHold, KeysHold, Tables
<1>6. ASSUME NEW t \in Tables \ {"reports"} PROVE SeenRows'[t] = SeenRows[t]
  <2>1. t \in Tables /\ dead' = dead /\ db'[t] = db[t]
    BY <1>1, <1>3
  <2> QED BY <2>1 DEF SeenRows, Seen
<1>7. SeenCovers' = SeenCovers
  BY <1>1, <1>2 DEF SeenCovers, SeenCover
<1>8. /\ SeenRows'["reports"] \subseteq db'["reports"] /\ SeenRows["users"] = db["users"] /\ db'["users"] = db["users"]
  BY <1>3, Views DEF Tables, IInv, Deleting
<1>9. \A f \in SeenRows'["reports"] : file'[f].by \in SeenRows["users"]
  BY <1>5, <1>8 DEF ForeignKeysHold, KeysHold
<1>10. KeysHold(SeenRows, SeenCovers)'
  <2> DEFINE s1 == SeenRows'
  <2>1. /\ s1["users"] = SeenRows["users"] /\ s1["cats"] = SeenRows["cats"] /\ s1["media"] = SeenRows["media"]
        /\ s1["updates"] = SeenRows["updates"] /\ s1["update_statuses"] = SeenRows["update_statuses"]
        /\ s1["notification_outbox"] = SeenRows["notification_outbox"] /\ s1["cat_media"] = SeenRows["cat_media"]
    BY <1>6 DEF Tables
  <2> HIDE DEF s1
  <2>2. KeysHold(SeenRows, SeenCovers)
    BY DEF KeyInv, SeenHold
  <2>3. \A f \in s1["reports"] : file'[f].by \in s1["users"]
    BY <1>9, <2>1 DEF s1
  <2> QED BY <1>1, <1>7, <2>1, <2>2, <2>3 DEF KeysHold, s1
<1> QED BY <1>5, <1>10 DEF SeenHold

\* A statement of the deletion takes rows that nothing it sees refers to.
LEMMA KeysStatement ==
    ASSUME IInv, IInv', KeyInv, Running, Statement \notin {"covers", "users"},
           ~\E x \in Doomed(Statement) : Referenced(Statement, x),
           dead' = [dead EXCEPT ![Statement] = @ \cup Doomed(Statement)], tx' = [tx EXCEPT !.next = @ + 1],
           UNCHANGED <<req, db, cover, post, file>>
    PROVE  ForeignKeysHold' /\ SeenHold'
<1>1. ForeignKeysHold'
  BY DEF KeyInv, ForeignKeysHold, KeysHold
<1>2. tx'.cleared = tx.cleared /\ DOMAIN dead = Tables /\ Statement \in Tables
  <2>1. tx \in Tx /\ tx.next \in 1..Len(Statements) /\ DOMAIN dead = Tables
    BY DEF IInv, TypeOK, Tx
  <2>2. Statement \in Tables
    BY <2>1, TheStatements DEF Statement, Tables
  <2> QED BY <2>1, <2>2 DEF Tx
<1>3. SeenCovers' = SeenCovers
  BY <1>2 DEF SeenCovers, SeenCover
<1> DEFINE s == SeenRows
           s1 == SeenRows'
           st == Statement
           d == Doomed(st)
<1>4. ASSUME NEW t \in Tables PROVE s1[t] = IF t = st THEN s[t] \ d ELSE s[t]
  <2>1. dead'[t] = IF t = st THEN dead[t] \cup d ELSE dead[t]
    BY <1>2
  <2>2. s[t] = db[t] \ dead[t] /\ s1[t] = db[t] \ dead'[t]
    BY Views
  <2> HIDE DEF s, s1, st, d
  <2> QED BY <2>1, <2>2
<1>5. KeysHold(s, SeenCovers)
  BY DEF KeyInv, SeenHold
<1>6. ASSUME NEW x \in d
      PROVE  /\ st = "updates" => x \notin s["update_statuses"] \cup s["notification_outbox"]
             /\ st = "cats" => /\ \A p \in s["cat_media"] : p[1] # x
                               /\ \A u \in s["updates"] : post[u].cat # x
             /\ st = "media" => /\ \A p \in s["cat_media"] : p[2] # x
                                /\ \A u \in s["updates"] : post[u].media # x
                                /\ \A c \in s["cats"] : SeenCovers[c] # x
  <2>1. ~Referenced(st, x)
    OBVIOUS
  <2>2. \A t \in Tables : s[t] = Seen(t)
    BY DEF SeenRows
  <2>3. \A c \in s["cats"] : SeenCovers[c] = SeenCover(c)
    BY <2>2 DEF SeenCovers, Seen, IInv, TypeOK, Row, Tables
  <2>4. /\ s["update_statuses"] = Seen("update_statuses") /\ s["notification_outbox"] = Seen("notification_outbox")
        /\ s["updates"] = Seen("updates") /\ s["cat_media"] = Seen("cat_media") /\ s["cats"] = Seen("cats")
    BY <2>2 DEF Tables
  <2> HIDE DEF s, st, d
  <2> QED BY <2>1, <2>3, <2>4 DEF Referenced
<1> HIDE DEF s, s1, st, d
<1>7. /\ s1["users"] = s["users"]
      /\ s1["cats"] = IF st = "cats" THEN s["cats"] \ d ELSE s["cats"]
      /\ s1["media"] = IF st = "media" THEN s["media"] \ d ELSE s["media"]
      /\ s1["updates"] = IF st = "updates" THEN s["updates"] \ d ELSE s["updates"]
      /\ s1["update_statuses"] \subseteq s["update_statuses"]
      /\ s1["notification_outbox"] \subseteq s["notification_outbox"]
      /\ s1["cat_media"] \subseteq s["cat_media"] /\ s1["reports"] \subseteq s["reports"]
  BY <1>4 DEF Tables, st
<1>8. /\ \A u \in s1["updates"] : /\ post[u].by \in s1["users"] /\ post[u].cat \in s1["cats"]
                                  /\ post[u].media \in s1["media"] \cup {None}
      /\ s1["update_statuses"] \cup s1["notification_outbox"] \subseteq s1["updates"]
  BY <1>5, <1>6, <1>7 DEF KeysHold
<1>9. /\ \A p \in s1["cat_media"] : p[1] \in s1["cats"] /\ p[2] \in s1["media"]
      /\ \A c \in s1["cats"] : SeenCovers[c] \in s1["media"] \cup {None}
  BY <1>5, <1>6, <1>7 DEF KeysHold
<1>10. /\ \A x \in s1["cats"] \cup s1["media"] : req[x].by \in s1["users"]
       /\ \A f \in s1["reports"] : file[f].by \in s1["users"]
  BY <1>5, <1>7 DEF KeysHold
<1>11. KeysHold(SeenRows, SeenCovers)'
  BY <1>3, <1>8, <1>9, <1>10 DEF KeysHold, s1
<1> QED BY <1>1, <1>11 DEF SeenHold

\* The commit: the deletion's view without the account, to which nothing refers any more.
LEMMA KeysCommit ==
    ASSUME IInv, IInv', KeyInv, Running, ~Referenced("users", Leaver), Commit, UNCHANGED <<req, post, file>>
    PROVE  ForeignKeysHold' /\ SeenHold'
<1>1. /\ \A t \in Tables : db'[t] = db[t] \ (IF t = "users" THEN {Leaver} ELSE dead[t])
      /\ cover' = [c \in Requests |-> IF c \in Seen("cats") THEN SeenCover(c) ELSE None]
      /\ \A t \in Tables : dead'[t] = {}
  BY DEF Commit, Committed, Nothing
<1> DEFINE s == SeenRows
<1>2. \A t \in Tables : s[t] = Seen(t) /\ s[t] = db[t] \ dead[t]
  BY DEF SeenRows, Seen
<1>3. KeysHold(s, SeenCovers)
  BY DEF KeyInv, SeenHold
<1>4. dead["users"] = {} /\ Seen("cats") \subseteq Requests
  BY DEF IInv, Deleting, TypeOK, Row, Tables, Seen
<1>5. /\ \A y \in s["cats"] \cup s["media"] : req[y].by # Leaver
      /\ \A u \in s["updates"] : post[u].by # Leaver
      /\ \A f \in s["reports"] : file[f].by # Leaver
  BY <1>2 DEF Referenced, By, Tables
<1>6. \A c \in s["cats"] : cover'[c] = SeenCovers[c]
  BY <1>1, <1>2, <1>4 DEF SeenCovers, Tables
<1> HIDE DEF s
<1>7. /\ db'["cats"] = s["cats"] /\ db'["media"] = s["media"] /\ db'["cat_media"] = s["cat_media"]
      /\ db'["updates"] = s["updates"] /\ db'["update_statuses"] = s["update_statuses"]
      /\ db'["notification_outbox"] = s["notification_outbox"] /\ db'["reports"] = s["reports"]
      /\ db'["users"] = s["users"] \ {Leaver}
  BY <1>1, <1>2, <1>4 DEF Tables
<1>8. ForeignKeysHold'
  <2>1. /\ \A x \in s["cats"] \cup s["media"] : req[x].by \in s["users"] \ {Leaver}
        /\ \A u \in s["updates"] : post[u].by \in s["users"] \ {Leaver}
        /\ \A f \in s["reports"] : file[f].by \in s["users"] \ {Leaver}
    BY <1>3, <1>5 DEF KeysHold
  <2>2. \A c \in s["cats"] : cover'[c] \in s["media"] \cup {None}
    BY <1>3, <1>6 DEF KeysHold
  <2> QED BY <1>3, <1>7, <2>1, <2>2 DEF ForeignKeysHold, KeysHold
<1> QED BY <1>1, <1>8, NothingDead DEF IInv

\* The covers statement: until the media statement the photos are all there.
LEMMA KeysCovers ==
    ASSUME IInv, IInv', KeyInv, ClearCovers
    PROVE  ForeignKeysHold' /\ SeenHold'
<1>1. UNCHANGED <<req, db, cover, post, file, dead>>
  BY DEF ClearCovers, rows
<1>2. dead["media"] = {}
  <2>1. tx.next \in 1..9 /\ (tx.next = 9 => Statement = "users")
    BY TheStatements DEF IInv, TypeOK, Tx, Statement
  <2> QED BY <2>1 DEF ClearCovers, IInv, Deleting
<1>3. SeenRows' = SeenRows
  BY <1>1 DEF SeenRows, Seen
<1>4. SeenRows["media"] = db["media"] /\ SeenRows["cats"] \subseteq db["cats"] /\ db["cats"] \subseteq Requests
  BY <1>2 DEF SeenRows, Seen, Tables, IInv, TypeOK, Row
<1>5. ForeignKeysHold'
  BY <1>1 DEF KeyInv, ForeignKeysHold, KeysHold
<1>6. \A c \in SeenRows["cats"] : SeenCovers'[c] \in {cover[c], None}
  BY <1>1, <1>4, Views
<1>7. \A c \in SeenRows["cats"] : SeenCovers'[c] \in SeenRows["media"] \cup {None}
  BY <1>4, <1>6 DEF KeyInv, ForeignKeysHold, KeysHold
<1>8. KeysHold(SeenRows, SeenCovers)'
  BY <1>1, <1>3, <1>7 DEF KeyInv, SeenHold, KeysHold
<1> QED BY <1>5, <1>8 DEF SeenHold

\* Only a statement of the deletion deletes, and only the last one for others to see.
LEMMA TablesGrow ==
    ASSUME IInv, [Next]_vars, ~DeleteStatement
    PROVE  /\ \A t \in Tables : db[t] \subseteq db'[t]
           /\ UNCHANGED dead \/ \A t \in Tables : dead'[t] = {}
<1>0. DOMAIN db = Tables
  BY DEF IInv, TypeOK
<1>1. CASE UNCHANGED <<db, dead>>
  BY <1>1
<1>2. ASSUME Rollback, UNCHANGED db
      PROVE  (\A t \in Tables : db[t] \subseteq db'[t]) /\ \A t \in Tables : dead'[t] = {}
  BY <1>2 DEF Rollback, Nothing
<1>3. ASSUME NEW r \in Requests, UploadStep(r) PROVE (\A t \in Tables : db[t] \subseteq db'[t]) /\ UNCHANGED dead
  <2>1. UNCHANGED dead /\ (UNCHANGED db \/ InsertRows(r))
    BY <1>3 DEF UploadStep, Lookup, StoreObject, StoreObjectFails, Insert, InsertRefused, InsertLost,
       Recover, Cleanup, RequestDies, rows
  <2>2. InsertRows(r) => \A t \in Tables : db[t] \subseteq db'[t]
    BY <1>0 DEF InsertRows
  <2> QED BY <2>1, <2>2
<1>4. ASSUME NEW u \in Posts, PostStep(u), ~PostCommit(u)
      PROVE  UNCHANGED <<db, dead>> \/ (Rollback /\ UNCHANGED db)
  BY <1>4 DEF PostStep, PostCheck, PostInsert, PostFails, Deadlock, rows
<1>5. ASSUME NEW u \in Posts, PostCommit(u) PROVE (\A t \in Tables : db[t] \subseteq db'[t]) /\ UNCHANGED dead
  BY <1>0, <1>5 DEF PostCommit
<1>6. ASSUME NEW c \in Requests, NEW m \in Requests, SetCoverPhoto(c, m) PROVE UNCHANGED <<db, dead>>
  BY <1>6 DEF SetCoverPhoto
<1>7. ASSUME NEW f \in Files, ReportCheck(f) \/ CreateReport(f)
      PROVE  (\A t \in Tables : db[t] \subseteq db'[t]) /\ UNCHANGED dead
  BY <1>0, <1>7 DEF ReportCheck, CreateReport, rows
<1>8. DeleteStep => UNCHANGED <<db, dead>> \/ (Rollback /\ UNCHANGED db)
  <2>1. BeginDelete => UNCHANGED <<db, dead>>
    BY Zenon DEF BeginDelete, rows
  <2>2. ClearCovers \/ NothingToErase \/ (\E k \in Requests : EraseObject(k)) => UNCHANGED <<db, dead>>
    BY Zenon DEF ClearCovers, NothingToErase, EraseObject, rows
  <2>3. DeleteDies => UNCHANGED <<db, dead>> \/ (Rollback /\ UNCHANGED db)
    BY Zenon DEF DeleteDies, rows
  <2> QED BY <2>1, <2>2, <2>3 DEF DeleteStep
<1>10. ASSUME NEW r \in Requests, WaitStep(r) PROVE UNCHANGED <<db, dead>> \/ (Rollback /\ UNCHANGED db)
  BY <1>10, WaitOutcomes
<1>9. UNCHANGED vars => UNCHANGED <<db, dead>>
  BY DEF vars, rows
<1> QED BY <1>1, <1>2, <1>3, <1>4, <1>5, <1>6, <1>7, <1>8, <1>9, <1>10 DEF Next, PostStep

\* An open update's parents outlive every step: the deletion waits for it.
LEMMA OpenStep == ASSUME IInv, KeyInv, PostsKept, [Next]_vars PROVE OpenHolds'
<1> SUFFICES ASSUME NEW u \in Posts, post'[u].pc = "open"
             PROVE  (ParentsExist(u) /\ ~ParentsAmong(u, dead))'
  BY DEF OpenHolds
<1>1. CASE post[u].pc # "open"
  <2>1. PostInsert(u) /\ ParentsExist(u)
    <3>1. post \in [Posts -> Post]
      BY DEF IInv, TypeOK
    <3>2. post' # post
      BY <1>1
    <3>3. PICK v \in Posts : PostStep(v)
      <4>1. ASSUME NEW r \in Requests, UploadStep(r) PROVE FALSE
        BY <3>2, <4>1 DEF UploadStep, Lookup, StoreObject, StoreObjectFails, Insert, InsertRefused, InsertLost,
           Recover, Cleanup, RequestDies
      <4>2. ASSUME NEW f \in Files, ReportCheck(f) \/ CreateReport(f) PROVE FALSE
        BY <3>2, <4>2 DEF ReportCheck, CreateReport
      <4>3. ASSUME NEW c \in Requests, NEW m \in Requests, SetCoverPhoto(c, m) PROVE FALSE
        BY <3>2, <4>3 DEF SetCoverPhoto
      <4>4. DeleteStep => UNCHANGED post
        BY Zenon DEF DeleteStep, BeginDelete, DeleteStatement, ClearCovers, NothingToErase, DeleteDies, EraseObject
      <4>5. ASSUME NEW r \in Requests, WaitStep(r) PROVE FALSE
        BY <3>2, <4>5, WaitOutcomes
      <4> QED BY <3>2, <4>1, <4>2, <4>3, <4>4, <4>5 DEF Next, vars
    <3>4. v = u
      BY <1>1, <3>1, <3>3 DEF PostStep, PostCheck, PostInsert, PostCommit, PostFails, Deadlock
    <3>5. ~PostCheck(u)
      BY <3>1 DEF PostCheck
    <3>6. ~PostCommit(u) /\ ~PostFails(u) /\ ~Deadlock(u)
      BY <1>1 DEF PostCommit, PostFails, Deadlock, WaitsFor
    <3>7. PostInsert(u)
      BY <3>3, <3>4, <3>5, <3>6 DEF PostStep
    <3> QED BY <3>1, <3>7 DEF PostInsert, Post
  <2>2. UNCHANGED <<db, dead>> /\ ~ParentsAmong(u, dead)
    BY <2>1 DEF PostInsert, rows
  <2>3. post'[u].by = post[u].by /\ post'[u].cat = post[u].cat /\ post'[u].media = post[u].media
    BY <2>1 DEF PostInsert, PostsKept
  <2> QED BY <2>1, <2>2, <2>3 DEF ParentsExist, ParentsAmong
<1>2. CASE post[u].pc = "open"
  <2>1. /\ post[u].by \in db["users"] /\ post[u].cat \in db["cats"] \ dead["cats"]
        /\ post[u].media = None \/ post[u].media \in db["media"] \ dead["media"]
        /\ dead["users"] = {} /\ post[u].media \notin dead["media"]
    BY <1>2 DEF KeyInv, OpenHolds, ParentsExist, ParentsAmong, IInv, Deleting
  <2>2. post'[u].by = post[u].by /\ post'[u].cat = post[u].cat /\ post'[u].media = post[u].media
    BY <1>2 DEF PostsKept
  <2>3. CASE ~DeleteStatement
    <3>1. /\ db["users"] \subseteq db'["users"] /\ db["cats"] \subseteq db'["cats"] /\ db["media"] \subseteq db'["media"]
          /\ dead'["users"] = {} /\ dead'["cats"] \subseteq dead["cats"] /\ dead'["media"] \subseteq dead["media"]
      BY <2>1, <2>3, TablesGrow DEF Tables
    <3> QED BY <2>1, <2>2, <3>1 DEF ParentsExist, ParentsAmong
  <2>4. CASE DeleteStatement
    <3>1. CASE Rollback /\ UNCHANGED <<db, cover>>
      BY <2>1, <2>2, <3>1 DEF Rollback, Nothing, Tables, ParentsExist, ParentsAmong
    <3>2. ASSUME Running, Statement \in {"cats", "media", "users"}, ~WaitsFor(u)
          PROVE  /\ Statement = "users" => post[u].by \notin Doomed("users")
                 /\ Statement = "cats" => post[u].cat \notin Doomed("cats")
                 /\ Statement = "media" => post[u].media \notin Doomed("media")
      BY <1>2, <3>2 DEF WaitsFor, ParentsAmong, Nothing, Tables
    <3>3. CASE Running /\ Statement = "users" /\ ~WaitsFor(u) /\ Commit
      <4>1. post[u].by # Leaver
        BY <3>2, <3>3 DEF Doomed
      <4>2. /\ db'["users"] = db["users"] \ {Leaver} /\ db'["cats"] = db["cats"] \ dead["cats"]
            /\ db'["media"] = db["media"] \ dead["media"]
            /\ dead'["users"] = {} /\ dead'["cats"] = {} /\ dead'["media"] = {}
        BY <3>3 DEF Commit, Committed, Nothing, Tables
      <4> QED BY <2>1, <2>2, <4>1, <4>2 DEF ParentsExist, ParentsAmong
    <3>4. CASE /\ Running /\ Statement \notin {"covers", "users"} /\ ~WaitsFor(u) /\ UNCHANGED db
               /\ dead' = [dead EXCEPT ![Statement] = @ \cup Doomed(Statement)]
      <4>1. DOMAIN dead = Tables
        BY DEF IInv, TypeOK
      <4>2. /\ dead'["users"] = {}
            /\ dead'["cats"] = IF Statement = "cats" THEN dead["cats"] \cup Doomed("cats") ELSE dead["cats"]
            /\ dead'["media"] = IF Statement = "media" THEN dead["media"] \cup Doomed("media") ELSE dead["media"]
        BY <2>1, <3>4, <4>1 DEF Tables
      <4>3. /\ Statement = "cats" => post[u].cat \notin Doomed("cats")
            /\ Statement = "media" => post[u].media \notin Doomed("media")
        BY <3>2, <3>4
      <4> QED BY <2>1, <2>2, <3>4, <4>2, <4>3 DEF ParentsExist, ParentsAmong
    <3> QED BY <2>4, <3>1, <3>3, <3>4, StatementOutcomes
  <2> QED BY <2>3, <2>4
<1> QED BY <1>1, <1>2

\* What a report names was there when it was checked, and keeps its owner.
LEMMA TargetedStep == ASSUME IInv, KeyInv, Kept, PostsKept, FilesKept, [Next]_vars PROVE Targeted'
<1> SUFFICES ASSUME NEW f \in Files, file'[f].pc # "none"
             PROVE  IF file'[f].type = "update" THEN file'[f].target \in Posts /\ post'[file'[f].target].pc = "done"
                                                ELSE file'[f].target \in Requests /\ req'[file'[f].target].pc \in {"cleanup", "done"}
  BY DEF Targeted, Fixed
<1>1. CASE file[f].pc # "none"
  <2>1. file'[f].type = file[f].type /\ file'[f].target = file[f].target
    BY <1>1 DEF FilesKept
  <2>2. IF file[f].type = "update" THEN file[f].target \in Posts /\ post[file[f].target].pc = "done"
                                   ELSE file[f].target \in Requests /\ Fixed(file[f].target)
    BY <1>1 DEF KeyInv, Targeted
  <2> QED BY <2>1, <2>2 DEF Kept, PostsKept, Fixed
<1>2. CASE file[f].pc = "none"
  <2>1. file \in [Files -> File] /\ file' # file
    BY <1>2 DEF IInv, TypeOK
  <2>2. PICK g \in Files : ReportCheck(g) \/ CreateReport(g)
    <3>1. ASSUME NEW r \in Requests, UploadStep(r) PROVE FALSE
      BY <2>1, <3>1 DEF UploadStep, Lookup, StoreObject, StoreObjectFails, Insert, InsertRefused, InsertLost,
         Recover, Cleanup, RequestDies
    <3>2. ASSUME NEW u \in Posts, PostStep(u) PROVE FALSE
      BY <2>1, <3>2 DEF PostStep, PostCheck, PostInsert, PostCommit, PostFails, Deadlock
    <3>3. ASSUME NEW c \in Requests, NEW m \in Requests, SetCoverPhoto(c, m) PROVE FALSE
      BY <2>1, <3>3 DEF SetCoverPhoto
    <3>4. DeleteStep => UNCHANGED file
      BY Zenon DEF DeleteStep, BeginDelete, DeleteStatement, ClearCovers, NothingToErase, DeleteDies, EraseObject
    <3>5. ASSUME NEW r \in Requests, WaitStep(r) PROVE FALSE
      BY <2>1, <3>5, WaitOutcomes
    <3> QED BY <2>1, <3>1, <3>2, <3>3, <3>4, <3>5 DEF Next, vars
  <2>3. g = f /\ ReportCheck(f)
    BY <1>2, <2>1, <2>2 DEF ReportCheck, CreateReport
  <2>4. PICK by \in Accounts, type \in {"cat", "update", "media"}, x \in Requests \cup Posts :
           /\ targetExists(type, x)
           /\ file' = [file EXCEPT ![f] = [pc |-> "checked", by |-> by, type |-> type, target |-> x, raced |-> FALSE]]
    BY <2>3 DEF ReportCheck
  <2>5. file'[f].type = type /\ file'[f].target = x /\ UNCHANGED <<req, post>>
    BY <2>1, <2>3, <2>4 DEF ReportCheck
  <2>6. CASE type = "update"
    <3>1. x \in db["updates"]
      BY <2>4, <2>6 DEF targetExists
    <3> QED BY <2>5, <2>6, <3>1 DEF IInv, Hanging, TypeOK, Row, Tables
  <2>7. CASE type # "update"
    <3>1. x \in db["cats"] \cup db["media"]
      BY <2>4, <2>7 DEF targetExists
    <3>2. x \in Requests /\ Fixed(x)
      BY <3>1 DEF IInv, Rooted, TypeOK, Row, Tables
    <3> QED BY <2>5, <2>7, <3>2 DEF Fixed
  <2> QED BY <2>6, <2>7
<1> QED BY <1>1, <1>2

\* A row that belongs to the account does so after every step, and no other row comes to.
LEMMA BelongsKept ==
    ASSUME IInv, KeyInv, Kept, PostsKept, FilesKept, NEW t \in Tables, NEW x \in db[t]
    PROVE  Belongs(t, x)' <=> Belongs(t, x)
<1>1. \A y \in Requests : Fixed(y) => (By(y, Leaver)' <=> By(y, Leaver))
  BY DEF Kept, By
<1>2. \A u \in Posts : post[u].pc # "none" => (Own(u)' <=> Own(u))
  <2>1. \A u \in Posts : post[u].pc # "none" => post[u].cat \in Requests /\ Fixed(post[u].cat)
    BY DEF IInv, Written
  <2> QED BY <1>1, <2>1 DEF Own, PostsKept, By
<1>3. CASE t = "users"
  BY <1>3 DEF Belongs
<1>4. CASE t \in {"cats", "media"}
  <2>1. x \in Requests /\ Fixed(x)
    BY <1>4, RowsKept
  <2> QED BY <1>1, <1>4, <2>1 DEF Belongs
<1>5. CASE t = "cat_media"
  <2>1. x[1] \in db["cats"] /\ x[2] \in db["media"]
    BY <1>5 DEF KeyInv, ForeignKeysHold, KeysHold
  <2>2. x[1] \in Requests /\ Fixed(x[1]) /\ x[2] \in Requests /\ Fixed(x[2])
    BY <2>1, RowsKept
  <2> QED BY <1>1, <1>5, <2>2 DEF Belongs
<1>6. CASE t = "reports"
  <2>1. /\ x \in Files /\ file[x].pc # "none" /\ file'[x].by = file[x].by
        /\ file'[x].type = file[x].type /\ file'[x].target = file[x].target
    BY <1>6, RowsKept
  <2>2. IF file[x].type = "update" THEN file[x].target \in Posts /\ post[file[x].target].pc = "done"
                                   ELSE file[x].target \in Requests /\ Fixed(file[x].target)
    BY <2>1 DEF KeyInv, Targeted
  <2>3. file[x].type = "update" => (Own(file[x].target)' <=> Own(file[x].target))
    BY <1>2, <2>1, <2>2 DEF Own, By
  <2>4. file[x].type # "update" => (By(file[x].target, Leaver)' <=> By(file[x].target, Leaver))
    BY <1>1, <2>1, <2>2 DEF By
  <2> QED BY <1>6, <2>1, <2>3, <2>4 DEF Belongs
<1>7. CASE t \in {"updates", "update_statuses", "notification_outbox"}
  <2>1. x \in Posts /\ post[x].pc = "done"
    BY <1>7, RowsKept
  <2> QED BY <1>2, <1>7, <2>1 DEF Belongs
<1> QED BY <1>3, <1>4, <1>5, <1>6, <1>7 DEF Tables

\* Each statement names only rows of the account.
LEMMA DoomedBelongs ==
    ASSUME IInv, NEW t \in Tables, t # "users", NEW x \in Doomed(t)
    PROVE  Belongs(t, x)
<1>1. /\ \A c \in OwnCats : By(c, Leaver)
      /\ \A m \in OwnMedia : By(m, Leaver)
  BY DEF OwnCats, OwnMedia
<1>2. \A u \in OwnUpdates : Own(u)
  BY <1>1 DEF OwnUpdates, Own
<1>3. CASE t \in {"notification_outbox", "update_statuses", "updates"}
  BY <1>2, <1>3 DEF Doomed, Belongs
<1>4. CASE t = "reports"
  BY <1>1, <1>2, <1>4 DEF Doomed, Belongs, OwnReports
<1>5. CASE t \in {"cat_media", "cats", "media"}
  BY <1>1, <1>5 DEF Doomed, Belongs
<1> QED BY <1>3, <1>4, <1>5 DEF Tables

LEMMA OwnStep == ASSUME IInv, KeyInv, Kept, PostsKept, FilesKept, [Next]_vars PROVE OnlyOwn'
<1>1. \A t \in Tables : \A x \in dead[t] : x \in db[t] /\ Belongs(t, x) /\ Belongs(t, x)'
  BY BelongsKept DEF KeyInv, OnlyOwn, IInv, TypeOK
<1>2. CASE \A t \in Tables : dead'[t] = {}
  BY <1>2 DEF OnlyOwn
<1>3. CASE UNCHANGED dead
  BY <1>1, <1>3 DEF OnlyOwn
<1>4. CASE /\ Statement # "users" /\ dead' = [dead EXCEPT ![Statement] = @ \cup Doomed(Statement)]
           /\ UNCHANGED <<req, post, file>>
  <2>1. ASSUME NEW t \in Tables, NEW x \in dead'[t] PROVE x \in dead[t] \/ (t # "users" /\ x \in Doomed(t))
    BY <1>4, <2>1 DEF IInv, TypeOK
  <2>2. ASSUME NEW t \in Tables, t # "users", NEW x \in Doomed(t) PROVE Belongs(t, x)'
    <3>1. Belongs(t, x)
      BY <2>2, DoomedBelongs
    <3> QED BY <1>4, <3>1 DEF Belongs, By, Own
  <2> QED BY <1>1, <2>1, <2>2 DEF OnlyOwn
<1>5. Rollback \/ Commit => \A t \in Tables : dead'[t] = {}
  BY DEF Rollback, Commit, Nothing
<1> QED BY <1>2, <1>3, <1>4, <1>5, TablesGrow, StatementOutcomes

LEMMA KeysStep == ASSUME IInv, KeyInv, [Next]_vars PROVE KeyInv'
<1>1. Kept /\ PostsKept /\ FilesKept
  BY FieldsKept
<1>2. IInv'
  BY NextInv
<1>3. OpenHolds' /\ Targeted' /\ OnlyOwn'
  BY <1>1, OpenStep, TargetedStep, OwnStep
<1>4. tx \in Tx
  BY DEF IInv, TypeOK
<1>5. ASSUME UNCHANGED <<db, cover, dead>>, tx'.cleared = tx.cleared \/ ~Running PROVE ForeignKeysHold' /\ SeenHold'
  BY <1>1, <1>2, <1>5, KeysFrame
<1>6. ASSUME Rollback, UNCHANGED <<db, cover>> PROVE ForeignKeysHold' /\ SeenHold'
  <2>1. ForeignKeysHold'
    BY <1>1, <1>6, RowsKept DEF KeyInv, ForeignKeysHold, KeysHold
  <2>2. \A t \in Tables : dead'[t] = {}
    BY <1>6 DEF Rollback, Nothing
  <2> QED BY <1>2, <2>1, <2>2, NothingDead DEF IInv
<1>7. ASSUME NEW r \in Requests, UploadStep(r) PROVE ForeignKeysHold' /\ SeenHold'
  <2>1. UNCHANGED <<post, file, dead>> /\ \/ UNCHANGED <<db, cover, tx>>
                                          \/ Inserting(r) /\ MayInsert(r) /\ InsertRows(r)
    BY <1>7 DEF UploadStep, Lookup, StoreObject, StoreObjectFails, Insert, InsertRefused, InsertLost,
       Recover, Cleanup, RequestDies, rows
  <2>2. CASE UNCHANGED <<db, cover, tx>>
    BY <1>5, <2>1, <2>2
  <2>3. CASE Inserting(r) /\ MayInsert(r) /\ InsertRows(r)
    <3>1. req'[r].by = req[r].by
      <4>1. req \in [Requests -> Request]
        BY DEF IInv, TypeOK
      <4> QED BY <1>7, <2>3, <4>1 DEF UploadStep, Lookup, StoreObject, StoreObjectFails, Insert, InsertRefused,
                 InsertLost, Recover, Cleanup, RequestDies, Inserting, Request
    <3> QED BY <1>1, <1>2, <2>1, <2>3, <3>1, KeysInsert
  <2> QED BY <2>1, <2>2, <2>3
<1>8. ASSUME NEW u \in Posts, PostStep(u) PROVE ForeignKeysHold' /\ SeenHold'
  <2>1. CASE PostCommit(u)
    BY <1>1, <1>2, <2>1, KeysPostCommit
  <2>2. CASE PostInsert(u)
    <3>1. tx'.cleared = tx.cleared /\ UNCHANGED <<db, cover, dead>>
      BY <1>4, <2>2, DisturbedFields DEF PostInsert, rows
    <3> QED BY <1>5, <3>1
  <2>3. CASE PostCheck(u) \/ PostFails(u) \/ Deadlock(u)
    <3>1. UNCHANGED <<db, cover, dead, tx>> \/ (Rollback /\ UNCHANGED <<db, cover>>)
      BY <2>3 DEF PostCheck, PostFails, Deadlock, rows
    <3> QED BY <1>5, <1>6, <3>1
  <2> QED BY <1>8, <2>1, <2>2, <2>3 DEF PostStep
<1>9. ASSUME NEW c \in Requests, NEW m \in Requests, SetCoverPhoto(c, m) PROVE ForeignKeysHold' /\ SeenHold'
  BY <1>2, <1>9, KeysCover
<1>10. ASSUME NEW f \in Files, ReportCheck(f) \/ CreateReport(f) PROVE ForeignKeysHold' /\ SeenHold'
  <2>1. ReportCheck(f) => UNCHANGED <<db, cover, dead, tx>>
    BY DEF ReportCheck, rows
  <2> QED BY <1>1, <1>2, <1>5, <1>10, <2>1, KeysReport
<1>11. ASSUME DeleteStep PROVE ForeignKeysHold' /\ SeenHold'
  <2>1. CASE DeleteStatement
    BY <1>2, <1>6, <2>1, StatementOutcomes, KeysStatement, KeysCommit
  <2>2. CASE ClearCovers
    BY <1>2, <2>2, KeysCovers
  <2>3. CASE BeginDelete
    <3>1. UNCHANGED <<db, cover, dead>> /\ ~Running
      BY <2>3, Zenon DEF BeginDelete, rows, Running
    <3> QED BY <1>5, <3>1
  <2>4. CASE NothingToErase \/ \E k \in Requests : EraseObject(k)
    <3>1. UNCHANGED <<db, cover, dead>> /\ ~Running
      BY <2>4 DEF NothingToErase, EraseObject, rows, Running
    <3> QED BY <1>5, <3>1
  <2>5. CASE DeleteDies
    <3>1. (Rollback /\ UNCHANGED <<db, cover>>) \/ (UNCHANGED <<db, cover, dead>> /\ ~Running)
      BY <2>5, Zenon DEF DeleteDies, rows
    <3> QED BY <1>5, <1>6, <3>1
  <2> QED BY <1>11, <2>1, <2>2, <2>3, <2>4, <2>5 DEF DeleteStep
<1>12. ASSUME UNCHANGED vars PROVE ForeignKeysHold' /\ SeenHold'
  BY <1>5, <1>12 DEF vars, rows
<1>14. ASSUME NEW r \in Requests, WaitStep(r) PROVE ForeignKeysHold' /\ SeenHold'
  <2>1. CASE Rollback
    BY <1>6, <1>14, <2>1, WaitOutcomes
  <2>2. CASE Marked /\ UNCHANGED dead
    <3>1. tx'.cleared = tx.cleared
      BY <2>2, MarkedFields DEF IInv
    <3> QED BY <1>5, <1>14, <2>2, <3>1, WaitOutcomes
  <2> QED BY <1>14, <2>1, <2>2, WaitOutcomes
<1>13. ForeignKeysHold' /\ SeenHold'
  BY <1>14, <1>7, <1>8, <1>9, <1>10, <1>11, <1>12 DEF Next
<1> QED BY <1>3, <1>13 DEF KeyInv

LEMMA InitKeys == Init => KeyInv
<1> SUFFICES ASSUME Init PROVE KeyInv
  OBVIOUS
<1>1. IInv
  BY InitInv
<1>2. PICK kind \in [Settled -> {"media", "cat"}], by \in [Settled -> Accounts] :
         /\ req = [r \in Requests |->
                      IF r \in Settled
                      THEN [pc |-> "done", kind |-> kind[r], by |-> by[r], key |-> None, row |-> r]
                      ELSE Idle(Leaver)]
         /\ LET cats == {r \in Settled : kind[r] = "cat"} IN
            /\ db = [Nothing EXCEPT !["users"] = Accounts, !["media"] = Settled, !["cats"] = cats,
                                    !["cat_media"] = {<<c, c>> : c \in cats}]
            /\ cover = [r \in Requests |-> IF r \in cats THEN r ELSE None]
  BY DEF Init
<1> DEFINE cats == {r \in Settled : kind[r] = "cat"}
<1>3. /\ db["users"] = Accounts /\ db["media"] = Settled /\ db["cats"] = cats
      /\ db["cat_media"] = {<<c, c>> : c \in cats}
      /\ db["updates"] = {} /\ db["update_statuses"] = {} /\ db["notification_outbox"] = {} /\ db["reports"] = {}
  BY <1>2 DEF Nothing, Tables
<1>4. cats \subseteq Settled /\ Settled \subseteq Requests
  BY SettledAssumption
<1>5. \A r \in Settled : req[r].by \in Accounts
  BY <1>2, <1>4
<1>6. \A c \in cats : cover[c] = c
  BY <1>2, <1>4
<1> HIDE DEF cats
<1>7. \A p \in db["cat_media"] : p[1] \in cats /\ p[2] \in cats
  BY <1>3
<1>8. ForeignKeysHold
  BY <1>3, <1>4, <1>5, <1>6, <1>7 DEF ForeignKeysHold, KeysHold
<1>9. \A t \in Tables : dead[t] = {}
  BY DEF Init, Nothing
<1>10. SeenHold
  <2>1. \A t \in Tables : SeenRows[t] = db[t]
    BY <1>9 DEF SeenRows, Seen
  <2>2. \A c \in db["cats"] : SeenCovers[c] \in {cover[c], None}
    BY <1>3, <1>4 DEF SeenCovers, SeenCover
  <2> QED BY <1>8, <2>1, <2>2 DEF SeenHold, ForeignKeysHold, KeysHold, Tables
<1>11. (\A u \in Posts : post[u].pc = "none") /\ (\A f \in Files : file[f].pc = "none")
  BY DEF Init
<1> QED BY <1>8, <1>9, <1>10, <1>11 DEF KeyInv, OpenHolds, Targeted, OnlyOwn

LEMMA KeySafety == Spec => [](IInv /\ KeyInv)
<1>1. IInv /\ KeyInv /\ [Next]_vars => (IInv /\ KeyInv)'
  BY NextInv, KeysStep
<1> QED BY <1>1, InitInv, InitKeys, PTL DEF Spec

\* Whatever commits beside the deletion of an account, no committed row refers to a row that
\* is gone: each statement checks what it sees and waits for the transactions that hold a
\* parent, and that is enough for the whole (Store.DeleteAccount, the schema's foreign keys).
THEOREM KeysAlwaysHold == Spec => []ForeignKeysHold
<1>1. KeyInv => ForeignKeysHold
  BY DEF KeyInv
<1> QED BY <1>1, KeySafety, PTL

\* A committed deletion leaves nothing of the account, its cats and its photos in any table,
\* and nothing of it comes back by a request that was in flight (Store.DeleteAccount).
THEOREM DeletionIsComplete == Spec => []NothingRemains
<1>1. IInv /\ KeyInv => NothingRemains
  <2> SUFFICES ASSUME IInv, KeyInv, tx.pc \in {"erasing", "over"}
               PROVE  /\ \A t \in Tables \ {"reports"} : \A x \in db[t] : ~Belongs(t, x)
                      /\ \A f \in db["reports"] : file[f].by # Leaver
    BY DEF NothingRemains
  <2>1. Leaver \notin db["users"]
    BY DEF IInv, Rooted, Before
  <2>2. KeysHold(db, cover)
    BY DEF KeyInv, ForeignKeysHold
  <2>3. \A x \in db["cats"] \cup db["media"] : ~By(x, Leaver)
    BY <2>1, <2>2 DEF KeysHold, By
  <2>4. \A u \in db["updates"] \cup db["update_statuses"] \cup db["notification_outbox"] : ~Own(u)
    BY <2>1, <2>2, <2>3 DEF KeysHold, Own
  <2>5. \A p \in db["cat_media"] : ~By(p[1], Leaver) /\ ~By(p[2], Leaver)
    BY <2>2, <2>3 DEF KeysHold
  <2>6. \A f \in db["reports"] : file[f].by # Leaver
    BY <2>1, <2>2 DEF KeysHold
  <2> QED BY <2>1, <2>3, <2>4, <2>5, <2>6 DEF Belongs, Tables
<1> QED BY <1>1, KeySafety, PTL

\* A deletion takes no row of another account, and no other operation here takes any: the rows
\* that go at its commit are the account, its uploads, cats and updates, the updates on its
\* cats, what hangs on these, and the reports it filed or that name one of these.
THEOREM DeletionIsConfined == Spec => NothingElseGoes
<1>1. ASSUME IInv, KeyInv, [Next]_vars, NEW t \in Tables, NEW x \in db[t] \ db'[t] PROVE Belongs(t, x)
  <2>1. DeleteStatement
    BY <1>1, TablesGrow
  <2>2. Commit
    BY <1>1, <2>1, StatementOutcomes
  <2>3. IF t = "users" THEN x = Leaver ELSE x \in dead[t]
    BY <1>1, <2>2 DEF Commit, Committed
  <2>4. t = "users" => Belongs(t, x)
    BY <2>3 DEF Belongs
  <2> QED BY <1>1, <2>3, <2>4 DEF KeyInv, OnlyOwn
<1>2. IInv /\ KeyInv /\ [Next]_vars => [\A t \in Tables : \A x \in db[t] \ db'[t] : Belongs(t, x)]_vars
  BY <1>1
<1> QED BY <1>2, KeySafety, PTL DEF Spec, NothingElseGoes

=============================================================================
