----------------------- MODULE UpdateCorrectionProofs -----------------------
(***************************************************************************)
(* Proofs about UpdateCorrection for every set of updates, requests,       *)
(* statuses and photos: corrections that do not overlap never leave a      *)
(* husk, a tombstone is final, a refusal names its true cause, and only a  *)
(* stale guard lets the update behind the cover go.                        *)
(***************************************************************************)
EXTENDS UpdateCorrection, TLAPS

\* What the conditions of a statement that matched no row still imply now: the
\* flag and the tombstone only move one way, the photo not at all.
RefusedFor(q) == \/ ~Mutable(q)
                 \/ IF q.op = "correct" THEN ~LeavesContent(q) ELSE row[q.u].media = q.sawCover

\* A request between its statement and its answer: what it names exists; a
\* transaction that has written its row holds the row's lock, and its conditions,
\* with statuses that are current unless the update was overlapped, still hold.
ReqInv == \A r \in Requests :
    LET q == req[r]
    IN  /\ q.op \in {"correct", "delete"} => q.u \in Updates
        /\ q.op = "cover" => q.pc = "issued" /\ q.media \in Media
        /\ q.pc = "noRows" => q.op \in {"correct", "delete"} /\ RefusedFor(q)
        /\ q.pc = "locked" => /\ q.op = "correct"
                              /\ rowLock[q.u] = r
                              /\ CorrectMatches(q)
                              /\ q.u \notin overlapped => q.sawStatuses = statuses[q.u]

IInv == TypeOK /\ ReqInv /\ HuskOnlyByOverlap

----------------------------------------------------------------------------
\* An answered request and a fresh one are requests.
LEMMA RequestTypes ==
    /\ NoRequest \in Request
    /\ \A a \in {"ok", "400", "403", "404", "409", "410", "500"} : Answered(a) \in Request
BY DEF NoRequest, Request, Answered

\* resolveCorrectionFailure answers with one of the statuses of the API.
LEMMA FailureAnswers ==
    ASSUME NEW r \in Requests, req[r].mine \in BOOLEAN, req[r].inWindow \in BOOLEAN,
           row[req[r].u].deleted \in BOOLEAN
    PROVE  FailureAnswer(r) \in {"ok", "400", "403", "404", "409", "410"}
BY DEF FailureAnswer

LEMMA IInvInit == Init => IInv
<1> SUFFICES ASSUME Init PROVE IInv
    OBVIOUS
<1>1. TypeOK
    BY RequestTypes, SentinelAssumption DEF Init, TypeOK, Row
<1>2. ReqInv
    BY DEF Init, ReqInv, NoRequest
<1>3. HuskOnlyByOverlap
    BY DEF Init, HuskOnlyByOverlap, Husk
<1> QED BY <1>1, <1>2, <1>3 DEF IInv

\* A request moves, the tables and the locks stay: the others are not disturbed.
LEMMA RequestStep ==
    ASSUME IInv, NEW r \in Requests, NEW q \in Request,
           req' = [req EXCEPT ![r] = q],
           UNCHANGED <<row, statuses, rowLock, archive, cover, open, overlapped>>,
           q.op \in {"correct", "delete"} => q.u \in Updates,
           q.op = "cover" => q.pc = "issued" /\ q.media \in Media,
           q.pc = "noRows" => q.op \in {"correct", "delete"} /\ RefusedFor(q),
           q.pc # "locked"
    PROVE  IInv'
<1>1. TypeOK'
    BY DEF IInv, TypeOK
<1>2. ReqInv'
    BY DEF IInv, TypeOK, ReqInv, RefusedFor, Mutable, LeavesContent, CorrectMatches
<1>3. HuskOnlyByOverlap'
    BY DEF IInv, HuskOnlyByOverlap, Husk
<1> QED BY <1>1, <1>2, <1>3 DEF IInv

\* One step per action; only the three that write a row disturb more than the
\* request itself.
LEMMA IInvStep == IInv /\ [Next]_vars => IInv'
<1> SUFFICES ASSUME IInv, [Next]_vars PROVE IInv'
    OBVIOUS
<1>r. ASSUME NEW r \in Requests PROVE req[r] \in Request
    BY DEF IInv, TypeOK
<1>u. ASSUME NEW u \in Updates PROVE row[u] \in Row
    BY DEF IInv, TypeOK
<1>1. CASE CloseWindow
  <2>1. TypeOK'
      BY <1>1 DEF CloseWindow, IInv, TypeOK
  <2>2. ReqInv'
      BY <1>1 DEF CloseWindow, IInv, ReqInv, RefusedFor, Mutable, LeavesContent, CorrectMatches
  <2>3. HuskOnlyByOverlap'
      BY <1>1 DEF CloseWindow, IInv, HuskOnlyByOverlap, Husk
  <2> QED BY <2>1, <2>2, <2>3 DEF IInv
<1>2. ASSUME NEW r \in Requests, NEW u \in Updates, NEW mine \in BOOLEAN, NEW clear \in BOOLEAN,
             NEW replaces \in BOOLEAN, NEW set \in SUBSET Statuses,
             IssueCorrection(r, u, mine, clear, replaces, set)
      PROVE IInv'
  <2> DEFINE asked == [NoRequest EXCEPT !.op = "correct", !.u = u, !.mine = mine, !.inWindow = open,
                                        !.clear = clear, !.replaces = replaces, !.set = set,
                                        !.sawStatuses = statuses[u]]
             sent == [asked EXCEPT !.pc = IF CorrectMatches(asked) THEN "issued" ELSE "noRows"]
             q == IF replaces /\ set = {} /\ clear THEN Answered("400") ELSE sent
  <2>1. req' = [req EXCEPT ![r] = q]
      BY <1>2 DEF IssueCorrection
  <2>a. asked \in Request
    <3>1. open \in BOOLEAN /\ statuses[u] \in SUBSET Statuses
        BY DEF IInv, TypeOK
    <3> QED BY <3>1 DEF NoRequest, Request
  <2>2. sent \in Request
    <3> HIDE DEF asked
    <3> QED BY <2>a DEF Request
  <2>3. sent.op = "correct" /\ sent.u = u /\ sent.pc \in {"issued", "noRows"}
      BY DEF NoRequest
  <2>4. sent.pc = "noRows" => RefusedFor(sent)
      BY DEF NoRequest, RefusedFor, Mutable, LeavesContent, CorrectMatches
  <2>5. Answered("400") \in Request /\ Answered("400").op = "none" /\ Answered("400").pc = "done"
      BY RequestTypes DEF Answered, NoRequest
  <2>6. UNCHANGED <<row, statuses, rowLock, archive, cover, open, overlapped>>
      BY <1>2 DEF IssueCorrection
  <2> HIDE DEF sent, asked
  <2>7. CASE replaces /\ set = {} /\ clear
      BY <2>1, <2>5, <2>6, <2>7, RequestStep
  <2>8. CASE ~(replaces /\ set = {} /\ clear)
      BY <2>1, <2>2, <2>3, <2>4, <2>6, <2>8, RequestStep
  <2> QED BY <2>7, <2>8
<1>3. ASSUME NEW r \in Requests, NEW u \in Updates, NEW mine \in BOOLEAN, IssueDelete(r, u, mine)
      PROVE IInv'
  <2> DEFINE asked == [NoRequest EXCEPT !.op = "delete", !.u = u, !.mine = mine, !.inWindow = open,
                                        !.sawCover = cover]
             sent == [asked EXCEPT !.pc = IF DeleteMatches(asked) THEN "issued" ELSE "noRows"]
  <2>1. req' = [req EXCEPT ![r] = sent]
      BY <1>3 DEF IssueDelete
  <2>2. sent \in Request
      BY ZenonT(60) DEF NoRequest, Request, IInv, TypeOK
  <2>3. sent.op = "delete" /\ sent.u = u /\ sent.pc \in {"issued", "noRows"}
      BY DEF NoRequest
  <2>4. sent.pc = "noRows" => RefusedFor(sent)
      BY DEF NoRequest, RefusedFor, Mutable, DeleteMatches
  <2>5. UNCHANGED <<row, statuses, rowLock, archive, cover, open, overlapped>>
      BY <1>3 DEF IssueDelete
  <2> HIDE DEF sent, asked
  <2> QED BY <2>1, <2>2, <2>3, <2>4, <2>5, RequestStep
<1>4. ASSUME NEW r \in Requests, NEW m \in Media, IssueCover(r, m) PROVE IInv'
  <2> DEFINE sent == [NoRequest EXCEPT !.op = "cover", !.media = m, !.pc = "issued"]
  <2>1. req' = [req EXCEPT ![r] = IF m \in archive THEN sent ELSE Answered("404")]
      BY <1>4 DEF IssueCover
  <2>2. sent \in Request /\ sent.op = "cover" /\ sent.pc = "issued" /\ sent.media = m
      BY DEF NoRequest, Request
  <2>3. Answered("404") \in Request /\ Answered("404").op = "none" /\ Answered("404").pc = "done"
      BY RequestTypes DEF Answered, NoRequest
  <2>4. UNCHANGED <<row, statuses, rowLock, archive, cover, open, overlapped>>
      BY <1>4 DEF IssueCover
  <2> HIDE DEF sent
  <2>5. CASE m \in archive
      BY <2>1, <2>2, <2>4, <2>5, RequestStep
  <2>6. CASE m \notin archive
      BY <2>1, <2>3, <2>4, <2>6, RequestStep
  <2> QED BY <2>5, <2>6
<1>5. ASSUME NEW r \in Requests, LockCorrection(r) PROVE IInv'
  <2> DEFINE u == req[r].u
  <2>1. u \in Updates /\ rowLock[u] = None /\ req[r].op = "correct" /\ req[r].pc = "issued"
      BY <1>5 DEF LockCorrection, IInv, ReqInv
  <2>2. CASE CorrectMatches(req[r])
    <3>1. /\ rowLock' = [rowLock EXCEPT ![u] = r]
          /\ req' = [req EXCEPT ![r].pc = "locked"]
          /\ overlapped' = IF statuses[u] = req[r].sawStatuses THEN overlapped
                           ELSE overlapped \cup {u}
          /\ UNCHANGED <<row, statuses, archive, cover, open>>
        BY <1>5, <2>2 DEF LockCorrection
    <3>2. TypeOK'
        BY <1>r, <2>1, <3>1 DEF IInv, TypeOK, Request
    <3>3. \A x \in Requests : x # r => req'[x] = req[x]
        BY <3>1 DEF IInv, TypeOK
    <3>4. req'[r] = [req[r] EXCEPT !.pc = "locked"]
        BY <3>1 DEF IInv, TypeOK
    <3>5. ASSUME NEW x \in Requests, x # r, req[x].pc = "locked" PROVE req[x].u # u
        BY <2>1, <3>5, SentinelAssumption DEF IInv, ReqInv
    <3>6. ReqInv'
        BY <1>r, <2>1, <2>2, <3>1, <3>3, <3>4, <3>5
        DEF IInv, TypeOK, ReqInv, RefusedFor, Mutable, LeavesContent, CorrectMatches, Request
    <3>7. HuskOnlyByOverlap'
        BY <3>1 DEF IInv, HuskOnlyByOverlap, Husk
    <3> QED BY <3>2, <3>6, <3>7 DEF IInv
  <2>3. CASE ~CorrectMatches(req[r])
    <3> DEFINE q == [req[r] EXCEPT !.pc = "noRows"]
    <3>1. q \in Request /\ q.op = "correct" /\ q.u = u /\ q.pc = "noRows"
        BY <1>r, <2>1 DEF Request
    <3>2. RefusedFor(q)
        BY <1>r, <2>1, <2>3 DEF RefusedFor, CorrectMatches, Mutable, LeavesContent, Request
    <3>3. req' = [req EXCEPT ![r] = q]
        BY <1>5, <2>3 DEF LockCorrection, IInv, TypeOK
    <3>4. UNCHANGED <<row, statuses, rowLock, archive, cover, open, overlapped>>
        BY <1>5, <2>3 DEF LockCorrection
    <3> HIDE DEF q
    <3> QED BY <2>1, <3>1, <3>2, <3>3, <3>4, RequestStep
  <2> QED BY <2>2, <2>3
<1>6. ASSUME NEW r \in Requests, CommitCorrection(r) PROVE IInv'
  <2> DEFINE u == req[r].u
  <2>1. /\ u \in Updates /\ rowLock[u] = r /\ req[r].op = "correct" /\ CorrectMatches(req[r])
        /\ u \notin overlapped => req[r].sawStatuses = statuses[u]
      BY <1>6 DEF CommitCorrection, IInv, ReqInv
  <2>2. /\ row' = [row EXCEPT ![u].help = @ /\ ~req[r].clear]
        /\ statuses' = [statuses EXCEPT ![u] = IF req[r].replaces THEN req[r].set ELSE @]
        /\ rowLock' = [rowLock EXCEPT ![u] = None]
        /\ req' = [req EXCEPT ![r] = Answered("ok")]
        /\ UNCHANGED <<archive, cover, open, overlapped>>
      BY <1>6 DEF CommitCorrection
  <2>3. row'[u] = [row[u] EXCEPT !.help = row[u].help /\ ~req[r].clear]
      BY <2>1, <2>2 DEF IInv, TypeOK
  <2>4. \A v \in Updates : v # u => row'[v] = row[v] /\ statuses'[v] = statuses[v]
                                                   /\ rowLock'[v] = rowLock[v]
      BY <2>2 DEF IInv, TypeOK
  <2>5. statuses'[u] = IF req[r].replaces THEN req[r].set ELSE statuses[u]
      BY <2>1, <2>2 DEF IInv, TypeOK
  <2>6. row'[u].deleted = row[u].deleted /\ row'[u].media = row[u].media /\ row'[u] \in Row
        /\ row'[u].help = (row[u].help /\ ~req[r].clear)
      BY <1>r, <1>u, <2>1, <2>3 DEF Row, Request
  <2>7. TypeOK'
    <3>1. row' \in [Updates -> Row]
        BY <2>2, <2>4, <2>6 DEF IInv, TypeOK
    <3>2. statuses' \in [Updates -> SUBSET Statuses]
        BY <1>r, <2>2 DEF IInv, TypeOK, Request
    <3>3. rowLock' \in [Updates -> Requests \cup {None}] /\ req' \in [Requests -> Request]
        BY <2>2, RequestTypes DEF IInv, TypeOK
    <3> QED BY <2>2, <3>1, <3>2, <3>3 DEF IInv, TypeOK
  <2>8. /\ \A x \in Requests : x # r => req'[x] = req[x]
        /\ req'[r].op = "none" /\ req'[r].pc = "done"
      BY <2>2 DEF IInv, TypeOK, Answered, NoRequest
  <2>9. ASSUME NEW x \in Requests, x # r, req[x].pc = "locked" PROVE req[x].u # u
      BY <2>1, <2>9 DEF IInv, ReqInv
  <2>10. ReqInv'
    <3> SUFFICES ASSUME NEW x \in Requests, x # r
                 PROVE /\ req[x].op \in {"correct", "delete"} => req[x].u \in Updates
                       /\ req[x].op = "cover" => req[x].pc = "issued" /\ req[x].media \in Media
                       /\ req[x].pc = "noRows" => /\ req[x].op \in {"correct", "delete"}
                                                  /\ RefusedFor(req[x])'
                       /\ req[x].pc = "locked" => /\ req[x].op = "correct"
                                                  /\ rowLock'[req[x].u] = x
                                                  /\ CorrectMatches(req[x])'
                                                  /\ req[x].u \notin overlapped
                                                        => req[x].sawStatuses = statuses'[req[x].u]
        BY <2>2, <2>8 DEF ReqInv, RefusedFor, Mutable, LeavesContent, CorrectMatches
    <3>1. ASSUME req[x].pc = "noRows" PROVE RefusedFor(req[x])'
      <4> DEFINE v == req[x].u
      <4>1. v \in Updates /\ RefusedFor(req[x]) /\ req'[x] = req[x]
          BY <2>8, <3>1 DEF IInv, ReqInv
      <4>2. /\ row'[v].deleted = row[v].deleted /\ row'[v].media = row[v].media
            /\ row'[v].help => row[v].help
          BY <2>4, <2>6, <4>1
      <4> QED BY <4>1, <4>2 DEF RefusedFor, Mutable, LeavesContent
    <3>2. ASSUME req[x].pc = "locked" PROVE CorrectMatches(req[x])'
      <4>1. req[x].u \in Updates /\ CorrectMatches(req[x])
          BY <3>2 DEF IInv, ReqInv
      <4>2. row'[req[x].u] = row[req[x].u] /\ req'[x] = req[x]
          BY <2>4, <2>8, <2>9, <3>2, <4>1
      <4> QED BY <4>1, <4>2 DEF CorrectMatches, Mutable, LeavesContent
    <3> QED BY <2>2, <2>4, <2>9, <3>1, <3>2 DEF IInv, ReqInv
  <2>11. HuskOnlyByOverlap'
    <3>1. u \notin overlapped => row'[u].deleted \/ row'[u].help \/ statuses'[u] # {}
        BY <1>r, <1>u, <2>1, <2>5, <2>6 DEF Husk, CorrectMatches, LeavesContent, Request, Row
    <3> QED BY <2>2, <2>4, <3>1 DEF IInv, HuskOnlyByOverlap, Husk
  <2> QED BY <2>7, <2>10, <2>11 DEF IInv
<1>7. ASSUME NEW r \in Requests, RollbackCorrection(r) PROVE IInv'
  <2> DEFINE u == req[r].u
  <2>1. u \in Updates /\ rowLock[u] = r
      BY <1>7 DEF RollbackCorrection, IInv, ReqInv
  <2>2. /\ rowLock' = [rowLock EXCEPT ![u] = None]
        /\ req' = [req EXCEPT ![r] = Answered("500")]
        /\ UNCHANGED <<row, statuses, archive, cover, open, overlapped>>
      BY <1>7 DEF RollbackCorrection
  <2>3. TypeOK'
      BY <2>2, RequestTypes DEF IInv, TypeOK
  <2>4. /\ \A x \in Requests : x # r => req'[x] = req[x]
        /\ req'[r].op = "none" /\ req'[r].pc = "done"
      BY <2>2 DEF IInv, TypeOK, Answered, NoRequest
  <2>5. ASSUME NEW x \in Requests, x # r, req[x].pc = "locked"
        PROVE  rowLock'[req[x].u] = rowLock[req[x].u]
      BY <2>1, <2>2, <2>5 DEF IInv, TypeOK, ReqInv
  <2>6. ReqInv'
      BY <2>2, <2>4, <2>5 DEF IInv, ReqInv, RefusedFor, Mutable, LeavesContent, CorrectMatches
  <2>7. HuskOnlyByOverlap'
      BY <2>2 DEF IInv, HuskOnlyByOverlap, Husk
  <2> QED BY <2>3, <2>6, <2>7 DEF IInv
<1>8. ASSUME NEW r \in Requests, ApplyDelete(r) PROVE IInv'
  <2> DEFINE u == req[r].u
  <2>1. u \in Updates /\ rowLock[u] = None /\ req[r].op = "delete" /\ req[r].pc = "issued"
      BY <1>8 DEF ApplyDelete, IInv, ReqInv
  <2>2. CASE DeleteMatches(req[r])
    <3>1. /\ row' = [row EXCEPT ![u].deleted = TRUE]
          /\ req' = [req EXCEPT ![r] = Answered("ok")]
          /\ UNCHANGED <<statuses, rowLock, archive, cover, open, overlapped>>
        BY <1>8, <2>2 DEF ApplyDelete
    <3>2. /\ row'[u] = [row[u] EXCEPT !.deleted = TRUE]
          /\ \A v \in Updates : v # u => row'[v] = row[v]
        BY <2>1, <3>1 DEF IInv, TypeOK
    <3>3. row'[u] \in Row /\ row'[u].deleted
        BY <1>u, <2>1, <3>2 DEF Row
    <3>4. TypeOK'
        BY <3>1, <3>2, <3>3, RequestTypes DEF IInv, TypeOK
    <3>5. /\ \A x \in Requests : x # r => req'[x] = req[x]
          /\ req'[r].op = "none" /\ req'[r].pc = "done"
        BY <3>1 DEF IInv, TypeOK, Answered, NoRequest
    <3>6. ASSUME NEW x \in Requests, req[x].pc = "locked" PROVE req[x].u # u
        BY <2>1, <3>6, SentinelAssumption DEF IInv, ReqInv
    <3>7. ReqInv'
        BY <3>1, <3>2, <3>3, <3>5, <3>6
        DEF IInv, ReqInv, RefusedFor, Mutable, LeavesContent, CorrectMatches
    <3>8. HuskOnlyByOverlap'
        BY <3>1, <3>2, <3>3 DEF IInv, HuskOnlyByOverlap, Husk
    <3> QED BY <3>4, <3>7, <3>8 DEF IInv
  <2>3. CASE ~DeleteMatches(req[r])
    <3> DEFINE q == [req[r] EXCEPT !.pc = "noRows"]
    <3>1. q \in Request /\ q.op = "delete" /\ q.u = u /\ q.pc = "noRows"
        BY <1>r, <2>1 DEF Request
    <3>2. RefusedFor(q)
        BY <1>r, <2>1, <2>3 DEF RefusedFor, DeleteMatches, Mutable, Request
    <3>3. req' = [req EXCEPT ![r] = q]
        BY <1>8, <2>3 DEF ApplyDelete, IInv, TypeOK
    <3>4. UNCHANGED <<row, statuses, rowLock, archive, cover, open, overlapped>>
        BY <1>8, <2>3 DEF ApplyDelete
    <3> HIDE DEF q
    <3> QED BY <2>1, <3>1, <3>2, <3>3, <3>4, RequestStep
  <2> QED BY <2>2, <2>3
<1>9. ASSUME NEW r \in Requests, ResolveCorrectionFailure(r) PROVE IInv'
  <2>1. req[r].u \in Updates
      BY <1>9 DEF ResolveCorrectionFailure, IInv, ReqInv
  <2>2. FailureAnswer(r) \in {"ok", "400", "403", "404", "409", "410"}
      BY <1>r, <1>u, <2>1, FailureAnswers DEF Request, Row
  <2> DEFINE q == Answered(FailureAnswer(r))
  <2>3. q \in Request /\ q.op = "none" /\ q.pc = "done"
      BY <2>2, RequestTypes DEF Answered, NoRequest
  <2>4. req' = [req EXCEPT ![r] = q]
      BY <1>9 DEF ResolveCorrectionFailure
  <2>5. UNCHANGED <<row, statuses, rowLock, archive, cover, open, overlapped>>
      BY <1>9 DEF ResolveCorrectionFailure
  <2> HIDE DEF q
  <2> QED BY <2>3, <2>4, <2>5, RequestStep
<1>10. ASSUME NEW r \in Requests, SetCatCoverPhoto(r) PROVE IInv'
  <2>1. req[r].media \in Media
      BY <1>10 DEF SetCatCoverPhoto, IInv, ReqInv
  <2>2. TypeOK'
      BY <1>10, <2>1, RequestTypes DEF SetCatCoverPhoto, IInv, TypeOK
  <2>3. /\ \A x \in Requests : x # r => req'[x] = req[x]
        /\ req'[r].op = "none" /\ req'[r].pc = "done"
      BY <1>10 DEF SetCatCoverPhoto, IInv, TypeOK, Answered, NoRequest
  <2>4. ReqInv'
      BY <1>10, <2>3
      DEF SetCatCoverPhoto, IInv, ReqInv, RefusedFor, Mutable, LeavesContent, CorrectMatches
  <2>5. HuskOnlyByOverlap'
      BY <1>10 DEF SetCatCoverPhoto, IInv, HuskOnlyByOverlap, Husk
  <2> QED BY <2>2, <2>4, <2>5 DEF IInv
<1>11. CASE UNCHANGED vars
  <2>1. TypeOK'
      BY <1>11 DEF vars, IInv, TypeOK
  <2>2. ReqInv'
      BY <1>11 DEF vars, IInv, ReqInv, RefusedFor, Mutable, LeavesContent, CorrectMatches
  <2>3. HuskOnlyByOverlap'
      BY <1>11 DEF vars, IInv, HuskOnlyByOverlap, Husk
  <2> QED BY <2>1, <2>2, <2>3 DEF IInv
<1> QED BY <1>1, <1>2, <1>3, <1>4, <1>5, <1>6, <1>7, <1>8, <1>9, <1>10, <1>11 DEF Next, Issue, Step

----------------------------------------------------------------------------
\* The inductive invariant holds throughout.
LEMMA Inductive == Spec => []IInv
BY IInvInit, IInvStep, PTL DEF Spec

\* Rows, locks, the cover and the requests keep their types; in particular the
\* cover is always one of the photos.
THEOREM CorrectionTypes == Spec => []TypeOK
<1>1. IInv => TypeOK
    BY DEF IInv
<1> QED BY <1>1, Inductive, PTL

\* CorrectOrdinaryUpdate's post-state condition is enough for corrections that do
\* not overlap: a husk appears only where one decided on replaced statuses.
THEOREM HuskSafety == Spec => []HuskOnlyByOverlap
<1>1. IInv => HuskOnlyByOverlap
    BY DEF IInv
<1> QED BY <1>1, Inductive, PTL

\* A deleted update is never written again: a correction that holds the row's lock
\* found it undeleted, and the lock kept every delete out since.
THEOREM Tombstones == Spec => TombstoneIsFinal
<1>1. IInv /\ [Next]_vars
         => [\A u \in Updates : row[u].deleted => row'[u] = row[u] /\ statuses'[u] = statuses[u]]_vars
  <2> SUFFICES ASSUME IInv, Next, NEW u \in Updates, row[u].deleted
               PROVE  row'[u] = row[u] /\ statuses'[u] = statuses[u]
      OBVIOUS
  <2>1. ASSUME NEW r \in Requests, CommitCorrection(r) PROVE req[r].u # u
      BY <2>1 DEF CommitCorrection, IInv, ReqInv, CorrectMatches, Mutable
  <2>2. ASSUME NEW r \in Requests, CommitCorrection(r)
        PROVE  row'[u] = row[u] /\ statuses'[u] = statuses[u]
      BY <2>1, <2>2 DEF CommitCorrection, IInv, TypeOK
  <2>3. ASSUME NEW r \in Requests, ApplyDelete(r)
        PROVE  row'[u] = row[u] /\ statuses'[u] = statuses[u]
      BY <2>3 DEF ApplyDelete, IInv, TypeOK, DeleteMatches, Mutable
  <2>4. ASSUME NEW r \in Requests, Issue(r) PROVE UNCHANGED <<row, statuses>>
      BY <2>4, ZenonT(60) DEF Issue, IssueCorrection, IssueDelete, IssueCover
  <2>5. ASSUME NEW r \in Requests, LockCorrection(r) \/ RollbackCorrection(r)
                                    \/ ResolveCorrectionFailure(r) \/ SetCatCoverPhoto(r)
        PROVE  UNCHANGED <<row, statuses>>
      BY <2>5 DEF LockCorrection, RollbackCorrection, ResolveCorrectionFailure, SetCatCoverPhoto
  <2>6. CASE CloseWindow
      BY <2>6 DEF CloseWindow
  <2> QED BY <2>2, <2>3, <2>4, <2>5, <2>6 DEF Next, Step
<1> QED BY <1>1, Inductive, PTL DEF Spec, TombstoneIsFinal

\* resolveCorrectionFailure reads a later snapshot than the statement that matched
\* no row, and still names the cause.
THEOREM Refusals == Spec => RefusalIsExplained
<1> DEFINE Explained == \A r \in Requests :
          LET q == req[r]
              a == req'[r].answer
          IN  q.pc = "noRows" /\ req'[r].pc = "done" =>
                 /\ a = "400" => ~LeavesContent(q)
                 /\ a = "404" => row[q.u].deleted \/ (row[q.u].media = q.sawCover /\ q.sawCover # cover)
                 /\ a = "ok" => row[q.u].deleted
<1>1. IInv /\ [Next]_vars => [Explained]_vars
  <2> SUFFICES ASSUME IInv, Next, NEW r \in Requests, req[r].pc = "noRows", req'[r].pc = "done"
               PROVE  LET q == req[r]
                          a == req'[r].answer
                      IN  /\ a = "400" => ~LeavesContent(q)
                          /\ a = "404" => row[q.u].deleted
                                           \/ (row[q.u].media = q.sawCover /\ q.sawCover # cover)
                          /\ a = "ok" => row[q.u].deleted
      OBVIOUS
  <2>1. req[r] \in Request /\ RefusedFor(req[r])
      BY DEF IInv, TypeOK, ReqInv
  <2>2. ResolveCorrectionFailure(r)
    <3>1. ASSUME NEW x \in Requests, x # r, Issue(x) \/ Step(x) PROVE req'[r] = req[r]
      <4>1. ASSUME NEW q, req' = [req EXCEPT ![x] = q] PROVE req'[r] = req[r]
          BY <3>1, <4>1 DEF IInv, TypeOK
      <4>2. CASE Issue(x)
          BY <4>1, <4>2, ZenonT(60) DEF Issue, IssueCorrection, IssueDelete, IssueCover
      <4>3. CASE LockCorrection(x) \/ ApplyDelete(x)
          BY <4>1, <4>3 DEF LockCorrection, ApplyDelete
      <4>4. CASE CommitCorrection(x) \/ RollbackCorrection(x) \/ ResolveCorrectionFailure(x)
                 \/ SetCatCoverPhoto(x)
          BY <4>1, <4>4 DEF CommitCorrection, RollbackCorrection, ResolveCorrectionFailure,
                            SetCatCoverPhoto
      <4> QED BY <3>1, <4>2, <4>3, <4>4 DEF Step
    <3>2. CASE CloseWindow
        BY <3>2 DEF CloseWindow
    <3>3. CASE Issue(r)
        BY <3>3 DEF Issue, IssueCorrection, IssueDelete, IssueCover
    <3>4. CASE Step(r)
        BY <3>4 DEF Step, LockCorrection, CommitCorrection, RollbackCorrection, ApplyDelete,
              SetCatCoverPhoto
    <3> QED BY <3>1, <3>2, <3>3, <3>4 DEF Next
  <2>3. req'[r].answer = FailureAnswer(r)
      BY <2>2 DEF ResolveCorrectionFailure, Answered, NoRequest, IInv, TypeOK
  <2> QED BY <2>1, <2>3 DEF FailureAnswer, RefusedFor, Mutable, Request
<1> QED BY <1>1, Inductive, PTL DEF Spec, RefusalIsExplained

\* DeleteOwnUpdate removes the update behind the current cover only if the cover
\* its statement saw is an older one: the guard misses nothing but a cover
\* change between its snapshot and its write.
THEOREM CoverGuard == Spec => CoverSourceKept
<1> DEFINE Guarded == \A u \in Updates : row'[u].deleted /\ ~row[u].deleted /\ row[u].media = cover
          => \E r \in Requests : /\ req[r].op = "delete" /\ req[r].u = u
                                 /\ req'[r] = Answered("ok")
                                 /\ req[r].sawCover # cover
<1>1. IInv /\ [Next]_vars => [Guarded]_vars
  <2> SUFFICES ASSUME IInv, Next, NEW u \in Updates,
                      row'[u].deleted, ~row[u].deleted, row[u].media = cover
               PROVE  \E r \in Requests : /\ req[r].op = "delete" /\ req[r].u = u
                                          /\ req'[r] = Answered("ok")
                                          /\ req[r].sawCover # cover
      OBVIOUS
  <2>1. ASSUME NEW r \in Requests, ApplyDelete(r)
        PROVE  /\ req[r].op = "delete" /\ req[r].u = u
               /\ req'[r] = Answered("ok") /\ req[r].sawCover # cover
    <3>1. DeleteMatches(req[r]) /\ req[r].u = u
        BY <2>1 DEF ApplyDelete, IInv, TypeOK
    <3>2. req[r].op = "delete" /\ req' = [req EXCEPT ![r] = Answered("ok")]
        BY <2>1, <3>1 DEF ApplyDelete
    <3>3. req'[r] = Answered("ok")
        BY <3>2 DEF IInv, TypeOK
    <3> QED BY <3>1, <3>2, <3>3 DEF DeleteMatches
  <2>2. ASSUME NEW r \in Requests, CommitCorrection(r) PROVE row'[u].deleted = row[u].deleted
    <3>1. row[u] \in Row
        BY DEF IInv, TypeOK
    <3> QED BY <2>2, <3>1 DEF CommitCorrection, IInv, TypeOK, Row
  <2>3. ASSUME NEW r \in Requests, Issue(r) PROVE UNCHANGED row
      BY <2>3, ZenonT(60) DEF Issue, IssueCorrection, IssueDelete, IssueCover
  <2>4. ASSUME NEW r \in Requests, LockCorrection(r) \/ RollbackCorrection(r)
                                    \/ ResolveCorrectionFailure(r) \/ SetCatCoverPhoto(r)
        PROVE  UNCHANGED row
      BY <2>4 DEF LockCorrection, RollbackCorrection, ResolveCorrectionFailure, SetCatCoverPhoto
  <2>5. ~CloseWindow
      BY DEF CloseWindow
  <2>6. PICK r \in Requests : ApplyDelete(r)
      BY <2>2, <2>3, <2>4, <2>5 DEF Next, Step
  <2> QED BY <2>1, <2>6
<1> QED BY <1>1, Inductive, PTL DEF Spec, CoverSourceKept

----------------------------------------------------------------------------
(* Locks and waits *)

\* A row lock belongs to a correction that has written the row and not ended: neither commit nor
\* rollback leaves it behind (withTx around CorrectOrdinaryUpdate).
RowLocksLive == \A u \in Updates : rowLock[u] # None =>
    rowLock[u] \in Requests /\ req[rowLock[u]].pc = "locked" /\ req[rowLock[u]].u = u
Issued == \A r \in Requests : req[r].pc = "issued" => req[r].op # "none"

\* The guards of the steps a request takes by itself.
CanStep(r) == \/ req[r].pc \in {"locked", "noRows"}
              \/ req[r].pc = "issued" /\ req[r].op = "cover"
              \/ req[r].pc = "issued" /\ req[r].op \in {"correct", "delete"} /\ rowLock[req[r].u] = None

\* A request under way can go on, or waits for the row lock of a correction that can: one wait,
\* never a chain (a correction takes one lock, a delete and a cover change none they keep).
WaitsEnd == \A r \in Requests : req[r].pc \in {"issued", "locked", "noRows"} =>
    CanStep(r) \/ (rowLock[req[r].u] \in Requests /\ CanStep(rowLock[req[r].u]))

LEMMA LocksStep == ASSUME IInv, RowLocksLive, Issued, [Next]_vars PROVE RowLocksLive' /\ Issued'
<1>0. req \in [Requests -> Request] /\ rowLock \in [Updates -> Requests \cup {None}]
  BY DEF IInv, TypeOK
<1>1. CASE UNCHANGED <<req, rowLock>>
  BY <1>1 DEF RowLocksLive, Issued
<1>2. ASSUME NEW r \in Requests, NEW q, req' = [req EXCEPT ![r] = q], req[r].pc # "locked",
             q.pc = "issued" => q.op # "none", UNCHANGED rowLock
      PROVE  RowLocksLive' /\ Issued'
  BY <1>0, <1>2 DEF RowLocksLive, Issued
<1>3. ASSUME NEW r \in Requests, Issue(r) PROVE RowLocksLive' /\ Issued'
  <2>0. req[r].pc = "new" /\ UNCHANGED rowLock
    BY <1>3, ZenonT(60) DEF Issue, IssueCorrection, IssueDelete, IssueCover
  <2>1. \A a : Answered(a).pc = "done"
    BY DEF Answered, NoRequest
  <2>2. ASSUME NEW u \in Updates, NEW mine \in BOOLEAN, NEW clear \in BOOLEAN,
               NEW replaces \in BOOLEAN, NEW set \in SUBSET Statuses,
               IssueCorrection(r, u, mine, clear, replaces, set)
        PROVE  RowLocksLive' /\ Issued'
    <3> DEFINE asked == [NoRequest EXCEPT !.op = "correct", !.u = u, !.mine = mine, !.inWindow = open,
                                          !.clear = clear, !.replaces = replaces, !.set = set,
                                          !.sawStatuses = statuses[u]]
               sent == [asked EXCEPT !.pc = IF CorrectMatches(asked) THEN "issued" ELSE "noRows"]
               q == IF replaces /\ set = {} /\ clear THEN Answered("400") ELSE sent
    <3>1. req' = [req EXCEPT ![r] = q]
      BY <2>2 DEF IssueCorrection
    <3>2. sent.op = "correct"
      BY DEF NoRequest
    <3>3. q.pc = "issued" => q.op # "none"
      <4> HIDE DEF sent
      <4> QED BY <2>1, <3>2
    <3> HIDE DEF q
    <3> QED BY <1>2, <2>0, <3>1, <3>3
  <2>3. ASSUME NEW u \in Updates, NEW mine \in BOOLEAN, IssueDelete(r, u, mine) PROVE RowLocksLive' /\ Issued'
    <3> DEFINE asked == [NoRequest EXCEPT !.op = "delete", !.u = u, !.mine = mine, !.inWindow = open,
                                          !.sawCover = cover]
               q == [asked EXCEPT !.pc = IF DeleteMatches(asked) THEN "issued" ELSE "noRows"]
    <3>1. req' = [req EXCEPT ![r] = q]
      BY <2>3 DEF IssueDelete
    <3>2. q.op = "delete"
      BY DEF NoRequest
    <3> HIDE DEF q
    <3> QED BY <1>2, <2>0, <3>1, <3>2
  <2>4. ASSUME NEW m \in Media, IssueCover(r, m) PROVE RowLocksLive' /\ Issued'
    <3> DEFINE q == IF m \in archive THEN [NoRequest EXCEPT !.op = "cover", !.media = m, !.pc = "issued"]
                    ELSE Answered("404")
    <3>1. req' = [req EXCEPT ![r] = q]
      BY <2>4 DEF IssueCover
    <3>2. q.pc = "issued" => q.op # "none"
      BY <2>1 DEF NoRequest
    <3> HIDE DEF q
    <3> QED BY <1>2, <2>0, <3>1, <3>2
  <2> QED BY <1>3, <2>2, <2>3, <2>4 DEF Issue
<1>4. ASSUME NEW r \in Requests, LockCorrection(r) PROVE RowLocksLive' /\ Issued'
  <2>1. req[r] \in Request /\ req[r].op = "correct" /\ req[r].pc = "issued" /\ req[r].u \in Updates
    BY <1>0, <1>4 DEF LockCorrection, IInv, ReqInv
  <2>2. CASE CorrectMatches(req[r])
    <3>1. rowLock' = [rowLock EXCEPT ![req[r].u] = r] /\ req' = [req EXCEPT ![r].pc = "locked"] /\ rowLock[req[r].u] = None
      BY <1>4, <2>2 DEF LockCorrection
    <3>2. req'[r].pc = "locked" /\ req'[r].u = req[r].u /\ \A s \in Requests \ {r} : req'[s] = req[s]
      BY <1>0, <2>1, <3>1 DEF Request
    <3> QED BY <1>0, <2>1, <3>1, <3>2 DEF RowLocksLive, Issued
  <2>3. CASE ~CorrectMatches(req[r])
    <3>1. UNCHANGED rowLock /\ req' = [req EXCEPT ![r].pc = "noRows"]
      BY <1>4, <2>3 DEF LockCorrection
    <3>2. req'[r].pc = "noRows" /\ \A s \in Requests \ {r} : req'[s] = req[s]
      BY <1>0, <2>1, <3>1 DEF Request
    <3> QED BY <1>0, <2>1, <3>1, <3>2 DEF RowLocksLive, Issued
  <2> QED BY <2>2, <2>3
<1>5. ASSUME NEW r \in Requests, CommitCorrection(r) \/ RollbackCorrection(r) PROVE RowLocksLive' /\ Issued'
  <2>1. req[r].pc = "locked" /\ req[r].u \in Updates /\ rowLock' = [rowLock EXCEPT ![req[r].u] = None]
    BY <1>5 DEF CommitCorrection, RollbackCorrection, IInv, ReqInv
  <2>2. \E a : req' = [req EXCEPT ![r] = Answered(a)]
    BY <1>5 DEF CommitCorrection, RollbackCorrection
  <2>3. \A a : Answered(a).pc = "done"
    BY DEF Answered, NoRequest
  <2>4. req'[r].pc = "done" /\ \A s \in Requests \ {r} : req'[s] = req[s]
    BY <1>0, <2>2, <2>3
  <2> QED BY <1>0, <2>1, <2>4 DEF RowLocksLive, Issued
<1>6. ASSUME NEW r \in Requests, ApplyDelete(r) \/ ResolveCorrectionFailure(r) \/ SetCatCoverPhoto(r)
      PROVE  RowLocksLive' /\ Issued'
  <2>1. UNCHANGED rowLock /\ req[r].pc # "locked"
    BY <1>6 DEF ApplyDelete, ResolveCorrectionFailure, SetCatCoverPhoto
  <2>2. (\E a : req' = [req EXCEPT ![r] = Answered(a)]) \/ req' = [req EXCEPT ![r].pc = "noRows"]
    BY <1>6 DEF ApplyDelete, ResolveCorrectionFailure, SetCatCoverPhoto
  <2>3. \A a : Answered(a).pc = "done"
    BY DEF Answered, NoRequest
  <2>4. req'[r].pc \in {"done", "noRows"} /\ \A s \in Requests \ {r} : req'[s] = req[s]
    BY <1>0, <2>2, <2>3 DEF Request
  <2> QED BY <1>0, <2>1, <2>4 DEF RowLocksLive, Issued
<1>7. CloseWindow => UNCHANGED <<req, rowLock>>
  BY DEF CloseWindow
<1> QED BY <1>1, <1>3, <1>4, <1>5, <1>6, <1>7 DEF Next, Step, vars

\* Corrections, deletes and cover changes never wait in a circle: whoever waits, waits for a
\* correction that has its lock and needs no other, and no lock outlives its transaction.
THEOREM CorrectionWaitsEnd == Spec => [](RowLocksLive /\ WaitsEnd)
<1>1. Init => RowLocksLive /\ Issued
  BY DEF Init, RowLocksLive, Issued, NoRequest
<1>2. IInv /\ RowLocksLive /\ Issued /\ [Next]_vars => (IInv /\ RowLocksLive /\ Issued)'
  BY IInvStep, LocksStep
<1>3. IInv /\ RowLocksLive /\ Issued => WaitsEnd
  <2> SUFFICES ASSUME IInv, RowLocksLive, Issued, NEW r \in Requests, req[r].pc = "issued", ~CanStep(r)
               PROVE  rowLock[req[r].u] \in Requests /\ CanStep(rowLock[req[r].u])
    BY DEF WaitsEnd, CanStep
  <2>1. req[r].op \in {"correct", "delete"} /\ req[r].u \in Updates /\ rowLock[req[r].u] # None
    BY DEF CanStep, Issued, IInv, TypeOK, Request, ReqInv
  <2> QED BY <2>1 DEF RowLocksLive, CanStep
<1> QED BY <1>1, <1>2, <1>3, IInvInit, PTL DEF Spec

=============================================================================
