-------------------------- MODULE UpdateCorrection --------------------------
(***************************************************************************)
(* PATCH and DELETE of an author's own update inside the correction        *)
(* window, and the owner's choice of a cover photo, statement by statement.*)
(*                                                                         *)
(* Each request is one conditional UPDATE.  At READ COMMITTED Postgres     *)
(* evaluates its where clause on the statement's snapshot, waits if        *)
(* another transaction has updated the row, and then evaluates the clause  *)
(* again: the row itself is read in its newest version, the tables of the  *)
(* subqueries still in the snapshot.  So update_statuses (in a correction) *)
(* and cats.primary_photo_id (in a delete) may be stale when they decide.  *)
(*                                                                         *)
(* All updates here are of one cat.                                        *)
(***************************************************************************)
EXTENDS Integers, FiniteSets

CONSTANTS
    Updates,
    Requests,
    Statuses,       \* the closed status vocabulary
    Media,          \* photos, each uploaded by the author of what attaches it
    CreationPhoto,  \* the photo the cat was created with
    None            \* no update, no photo, no request

ASSUME SentinelAssumption == /\ None \notin Media \cup Requests \cup Updates
                             /\ CreationPhoto \in Media

VARIABLES
    row,        \* update |-> its committed row
    statuses,   \* update |-> its committed update_statuses
    rowLock,    \* update |-> the request whose transaction has updated the row
    archive,    \* cat_media of the cat
    cover,      \* cats.primary_photo_id
    open,       \* the updates are younger than updateCorrectionWindow
    req,        \* request |-> what it asks and how far it is
    overlapped  \* history: updates a correction locked with stale statuses in hand

vars == <<row, statuses, rowLock, archive, cover, open, req, overlapped>>

Row == [help: BOOLEAN, deleted: BOOLEAN, media: Media \cup {None}]
Request == [op: {"none", "correct", "delete", "cover"}, u: Updates \cup {None},
            mine: BOOLEAN, inWindow: BOOLEAN, clear: BOOLEAN,
            replaces: BOOLEAN, set: SUBSET Statuses, media: Media \cup {None},
            sawStatuses: SUBSET Statuses, sawCover: Media \cup {None},
            pc: {"new", "issued", "locked", "noRows", "done"},
            answer: {"none", "ok", "400", "403", "404", "409", "410", "500"}]
NoRequest == [op |-> "none", u |-> None, mine |-> FALSE, inWindow |-> FALSE, clear |-> FALSE,
              replaces |-> FALSE, set |-> {}, media |-> None, sawStatuses |-> {}, sawCover |-> None,
              pc |-> "new", answer |-> "none"]
Answered(a) == [NoRequest EXCEPT !.pc = "done", !.answer = a]

TypeOK == /\ row \in [Updates -> Row]
          /\ statuses \in [Updates -> SUBSET Statuses]
          /\ rowLock \in [Updates -> Requests \cup {None}]
          /\ archive \subseteq Media
          /\ cover \in Media
          /\ open \in BOOLEAN
          /\ req \in [Requests -> Request]
          /\ overlapped \subseteq Updates

----------------------------------------------------------------------------
\* q is a request with the snapshot its statement took; the row is read as it is now.

\* The post-state condition of CorrectOrdinaryUpdate: a status, from the replacement
\* or from the snapshot's update_statuses, or the flag survives.
LeavesContent(q) == \/ (IF q.replaces THEN q.set ELSE q.sawStatuses) # {}
                    \/ row[q.u].help /\ ~q.clear

\* Mutant: the statement does not look at deleted_at.
Mutable_AnyRow(q) == q.mine /\ q.inWindow

\* The conditions both statements share: the author's, undeleted, in the window.
Mutable(q) == q.mine /\ q.inWindow /\ ~row[q.u].deleted

\* Mutant: the post-state condition does not count the flag being cleared.
CorrectMatches_KeepsHelp(q) == Mutable(q) /\ (LeavesContent(q) \/ row[q.u].help)

CorrectMatches(q) == Mutable(q) /\ LeavesContent(q)

\* Mutant: a delete that ignores the cover.
DeleteMatches_AnyCover(q) == Mutable(q)

\* The where clause of DeleteOwnUpdate: not the source of the cover it saw.
DeleteMatches(q) == Mutable(q) /\ row[q.u].media # q.sawCover

----------------------------------------------------------------------------
\* Updates as CreateOrdinaryUpdate leaves them: some content, the photo, if any,
\* in the archive; the cover is the creation photo.
Init ==
    /\ row \in [Updates -> {x \in Row : ~x.deleted}]
    /\ statuses \in [Updates -> SUBSET Statuses]
    /\ \A u \in Updates : row[u].help \/ statuses[u] # {}
    /\ rowLock = [u \in Updates |-> None]
    /\ archive = {CreationPhoto} \cup ({row[u].media : u \in Updates} \ {None})
    /\ cover = CreationPhoto
    /\ open = TRUE
    /\ req = [r \in Requests |-> NoRequest]
    /\ overlapped = {}

CloseWindow == /\ open
               /\ open' = FALSE
               /\ UNCHANGED <<row, statuses, rowLock, archive, cover, req, overlapped>>

\* CorrectOwnUpdate up to its statement: validateStatusSet refuses an empty
\* replacement that also clears the flag; then the window's start is computed, the
\* snapshot taken and the where clause evaluated in it.
IssueCorrection(r, u, mine, clear, replaces, set) ==
    LET asked == [NoRequest EXCEPT !.op = "correct", !.u = u, !.mine = mine, !.inWindow = open,
                                   !.clear = clear, !.replaces = replaces, !.set = set,
                                   !.sawStatuses = statuses[u]]
        hollow == replaces /\ set = {} /\ clear
    IN  /\ req[r].pc = "new"
        /\ ~replaces => set = {}
        /\ req' = [req EXCEPT ![r] =
                      IF hollow THEN Answered("400")
                      ELSE [asked EXCEPT !.pc = IF CorrectMatches(asked) THEN "issued" ELSE "noRows"]]
        /\ UNCHANGED <<row, statuses, rowLock, archive, cover, open, overlapped>>

\* The row is free: the newest version is checked again, with the statuses of
\* the snapshot, and locked by the write.
LockCorrection(r) ==
    LET u == req[r].u
    IN  /\ req[r].op = "correct" /\ req[r].pc = "issued"
        /\ rowLock[u] = None
        /\ IF CorrectMatches(req[r])
           THEN /\ rowLock' = [rowLock EXCEPT ![u] = r]
                /\ req' = [req EXCEPT ![r].pc = "locked"]
                /\ overlapped' = IF statuses[u] = req[r].sawStatuses THEN overlapped
                                 ELSE overlapped \cup {u}
           ELSE /\ req' = [req EXCEPT ![r].pc = "noRows"]
                /\ UNCHANGED <<rowLock, overlapped>>
        /\ UNCHANGED <<row, statuses, archive, cover, open>>

\* The statuses are replaced, or read back, and the transaction commits.
CommitCorrection(r) ==
    LET u == req[r].u
    IN  /\ req[r].pc = "locked"
        /\ row' = [row EXCEPT ![u].help = @ /\ ~req[r].clear]
        /\ statuses' = [statuses EXCEPT ![u] = IF req[r].replaces THEN req[r].set ELSE @]
        /\ rowLock' = [rowLock EXCEPT ![u] = None]
        /\ req' = [req EXCEPT ![r] = Answered("ok")]
        /\ UNCHANGED <<archive, cover, open, overlapped>>

\* withTx rolls back on an error or a cancelled request.
RollbackCorrection(r) ==
    /\ req[r].pc = "locked"
    /\ rowLock' = [rowLock EXCEPT ![req[r].u] = None]
    /\ req' = [req EXCEPT ![r] = Answered("500")]
    /\ UNCHANGED <<row, statuses, archive, cover, open, overlapped>>

\* DeleteOwnUpdate: the same shape, one statement, its subquery reads the cover.
IssueDelete(r, u, mine) ==
    /\ req[r].pc = "new"
    /\ LET asked == [NoRequest EXCEPT !.op = "delete", !.u = u, !.mine = mine, !.inWindow = open,
                                      !.sawCover = cover]
       IN  req' = [req EXCEPT ![r] =
                      [asked EXCEPT !.pc = IF DeleteMatches(asked) THEN "issued" ELSE "noRows"]]
    /\ UNCHANGED <<row, statuses, rowLock, archive, cover, open, overlapped>>

ApplyDelete(r) ==
    LET u == req[r].u
    IN  /\ req[r].op = "delete" /\ req[r].pc = "issued"
        /\ rowLock[u] = None
        /\ IF DeleteMatches(req[r])
           THEN /\ row' = [row EXCEPT ![u].deleted = TRUE]
                /\ req' = [req EXCEPT ![r] = Answered("ok")]
           ELSE /\ req' = [req EXCEPT ![r].pc = "noRows"]
                /\ UNCHANGED row
        /\ UNCHANGED <<statuses, rowLock, archive, cover, open, overlapped>>

\* Mutant: the disambiguation forgets holds_cover.
FailureAnswer_NoCover(r) ==
    LET x == row[req[r].u]
        correction == req[r].op = "correct"
    IN  IF ~req[r].mine THEN "403"
        ELSE IF x.deleted THEN (IF correction THEN "404" ELSE "ok")
        ELSE IF ~req[r].inWindow THEN "410"
        ELSE IF correction THEN "400" ELSE "404"

\* resolveCorrectionFailure over GetUpdateForCorrectionCheck's new snapshot; an
\* already deleted row is success for a delete and not found for a correction.
FailureAnswer(r) ==
    LET x == row[req[r].u]
        correction == req[r].op = "correct"
    IN  IF ~req[r].mine THEN "403"
        ELSE IF x.deleted THEN (IF correction THEN "404" ELSE "ok")
        ELSE IF ~req[r].inWindow THEN "410"
        ELSE IF correction THEN "400"
        ELSE IF x.media = cover THEN "409" ELSE "404"

ResolveCorrectionFailure(r) ==
    /\ req[r].pc = "noRows"
    /\ req' = [req EXCEPT ![r] = Answered(FailureAnswer(r))]
    /\ UNCHANGED <<row, statuses, rowLock, archive, cover, open, overlapped>>

\* SetCoverPhoto by the cat's owner: the photo is looked up in cat_media ...
IssueCover(r, m) ==
    /\ req[r].pc = "new"
    /\ req' = [req EXCEPT ![r] =
                  IF m \in archive THEN [NoRequest EXCEPT !.op = "cover", !.media = m, !.pc = "issued"]
                  ELSE Answered("404")]
    /\ UNCHANGED <<row, statuses, rowLock, archive, cover, open, overlapped>>

\* Mutant: the photo is not looked up, its id written as the body gives it.
SetCatCoverPhoto_Nullable(r) ==
    /\ req[r].op = "cover" /\ req[r].pc = "issued"
    /\ cover' = None
    /\ req' = [req EXCEPT ![r] = Answered("ok")]
    /\ UNCHANGED <<row, statuses, rowLock, archive, open, overlapped>>

\* ... and the cat is updated by a second statement.
SetCatCoverPhoto(r) ==
    /\ req[r].op = "cover" /\ req[r].pc = "issued"
    /\ cover' = req[r].media
    /\ req' = [req EXCEPT ![r] = Answered("ok")]
    /\ UNCHANGED <<row, statuses, rowLock, archive, open, overlapped>>

Step(r) == \/ LockCorrection(r) \/ CommitCorrection(r) \/ RollbackCorrection(r)
           \/ ApplyDelete(r) \/ ResolveCorrectionFailure(r) \/ SetCatCoverPhoto(r)

Issue(r) == \/ \E u \in Updates, mine, clear, replaces \in BOOLEAN, set \in SUBSET Statuses :
                  IssueCorrection(r, u, mine, clear, replaces, set)
            \/ \E u \in Updates, mine \in BOOLEAN : IssueDelete(r, u, mine)
            \/ \E m \in Media : IssueCover(r, m)

Next == CloseWindow \/ \E r \in Requests : Issue(r) \/ Step(r)

Spec == Init /\ [][Next]_vars

----------------------------------------------------------------------------
(* Properties *)

Husk(u) == ~row[u].deleted /\ ~row[u].help /\ statuses[u] = {}

\* An update is left with neither a status nor the help flag only after a
\* correction decided on statuses that a concurrent one had meanwhile replaced:
\* corrections that do not overlap keep the create invariant.
HuskOnlyByOverlap == \A u \in Updates : Husk(u) => u \in overlapped

\* Nothing changes a deleted update any more, neither a correction that waited
\* for the delete nor a retry ("never resurrects it").
TombstoneIsFinal ==
    [][\A u \in Updates : row[u].deleted => row'[u] = row[u] /\ statuses'[u] = statuses[u]]_vars

\* A delete that removes the update behind the current cover decided on an older
\* cover: the guard is exact for a delete no cover change overlaps.
CoverSourceKept ==
    [][\A u \in Updates : row'[u].deleted /\ ~row[u].deleted /\ row[u].media = cover
          => \E r \in Requests : /\ req[r].op = "delete" /\ req[r].u = u
                                 /\ req'[r] = Answered("ok")
                                 /\ req[r].sawCover # cover]_vars

\* The refusal resolved from a second, later snapshot names the true cause: "400"
\* only if the correction would still leave a husk by the statuses it saw, "404" for
\* a live update only if its cover moved between the two statements, and a delete
\* reports success only if the row is gone.
RefusalIsExplained ==
    [][\A r \in Requests :
          LET q == req[r]
              a == req'[r].answer
          IN  q.pc = "noRows" /\ req'[r].pc = "done" =>
                 /\ a = "400" => ~LeavesContent(q)
                 /\ a = "404" => row[q.u].deleted \/ (row[q.u].media = q.sawCover /\ q.sawCover # cover)
                 /\ a = "ok" => row[q.u].deleted]_vars

=============================================================================
