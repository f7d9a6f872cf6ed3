---------------------------- MODULE SignInProofs ----------------------------
(***************************************************************************)
(* Proofs about SignIn, for any number of codes, verifications, phones,    *)
(* devices and cats and every limit on attempts.                           *)
(***************************************************************************)
EXTENDS SignIn, FiniteSetTheorems, TLAPS

----------------------------------------------------------------------------
(* The inductive invariant *)

\* The codes sent so far; at any moment finitely many.
LiveCodes == {c \in Codes : code[c].pc = "live"}

\* Where a verification stands: the code it names was sent, and only a finished one
\* has an answer.
Progress == \A v \in Verifies :
    /\ ver[v].pc \in {"wrong", "right", "consuming"} => ver[v].code # None
    /\ ver[v].code # None => code[ver[v].code].pc = "live"
    /\ ver[v].pc # "done" => ver[v].answer = "none"

\* The row lock of ConsumeOtpCodeIfValid: a transaction past it holds its code, the
\* code is unspent until it commits, and only such a transaction holds one.
HoldsCode ==
    /\ \A v \in Verifies : ver[v].pc \in InTx /\ ver[v].code # None
          => codeLock[ver[v].code] = v /\ ~code[ver[v].code].consumed
    /\ \A c \in Codes : codeLock[c] # None
          => ver[codeLock[c]].code = c /\ ver[codeLock[c]].pc \in InTx
    /\ \A c \in Codes : code[c].pc # "live" => ~code[c].consumed

\* The sessions a code was spent for.
Won(c) == {v \in Verifies : ver[v].code = c /\ ver[v].answer = "session"}
OneWinner == \A c \in Codes : IF code[c].consumed THEN \E v \in Verifies : Won(c) = {v} ELSE Won(c) = {}

\* A backfill only locks rows nobody owns.
UnownedLocked == \A d \in Devices : contentLock[d] # None => content[d] = None

Typed == TypeOK /\ Progress /\ IsFiniteSet(LiveCodes)

----------------------------------------------------------------------------
(* Type correctness *)

\* One verification moves on, within its type.
Moves(v, w) == /\ w \in Verify
               /\ ver' = [ver EXCEPT ![v] = w]
               /\ ver' \in [Verifies -> Verify]
               /\ ver'[v] = w
               /\ \A u \in Verifies \ {v} : ver'[u] = ver[u]

\* Moving on keeps the phone, the device and the code.
Same(v, w) == w.phone = ver[v].phone /\ w.dev = ver[v].dev /\ w.code = ver[v].code

\* An assignment to one verification.
LEMMA Assigned ==
    ASSUME TypeOK, NEW v \in Verifies, NEW w \in Verify, ver' = [ver EXCEPT ![v] = w]
    PROVE  Moves(v, w)
BY DEF TypeOK, Moves

\* The verification goes on to its next statement.
LEMMA GoesFields ==
    ASSUME TypeOK, NEW v \in Verifies, NEW pc \in InTx \cup {"consuming"}, ver' = Goes(v, pc)
    PROVE  \E w : Moves(v, w) /\ Same(v, w) /\ w.pc = pc /\ w.answer = ver[v].answer
<1> DEFINE w == [ver[v] EXCEPT !.pc = pc]
<1>1. ver[v] \in Verify /\ ver' = [ver EXCEPT ![v] = w]
  BY DEF TypeOK, Goes
<1>2. w \in Verify /\ Same(v, w) /\ w.pc = pc /\ w.answer = ver[v].answer
  BY <1>1 DEF Verify, Same
<1> HIDE DEF w
<1>3. Moves(v, w)
  BY <1>1, <1>2, Assigned
<1> QED BY <1>2, <1>3

\* The verification is answered.
LEMMA AnsweredFields ==
    ASSUME TypeOK, NEW v \in Verifies, NEW a \in {"session", "401", "410", "409", "500", "lost"},
           ver' = Answered(v, a)
    PROVE  \E w : Moves(v, w) /\ Same(v, w) /\ w.pc = "done" /\ w.answer = a
<1> DEFINE w == [ver[v] EXCEPT !.pc = "done", !.answer = a]
<1>1. ver[v] \in Verify /\ ver' = [ver EXCEPT ![v] = w]
  BY DEF TypeOK, Answered
<1>2. w \in Verify /\ Same(v, w) /\ w.pc = "done" /\ w.answer = a
  BY <1>1 DEF Verify, Same
<1> HIDE DEF w
<1>3. Moves(v, w)
  BY <1>1, <1>2, Assigned
<1> QED BY <1>2, <1>3

\* A new verification names the newest code of its phone, or fails (VerifyOTP's pre-checks).
LEMMA ReadFields ==
    ASSUME TypeOK, NEW v \in Verifies, NEW p \in Phones, NEW d \in Devices, NEW b \in BOOLEAN,
           ReadLatest(v, p, d, b)
    PROVE  \E w : /\ Moves(v, w) /\ ver[v].pc = "new" /\ w.phone = p /\ w.dev = d
                  /\ \/ /\ w.code = None /\ w.pc = "done"
                        /\ w.answer \in {"401", "410", "429"}
                     \/ /\ w.code \in Codes /\ code[w.code].pc = "live"
                        /\ w.pc \in {"right", "wrong"} /\ w.answer = "none"
<1> DEFINE asked == [NoVerify EXCEPT !.phone = p, !.dev = d]
           failed(a) == [asked EXCEPT !.pc = "done", !.answer = a]
           c == CHOOSE x \in Latest(p) : TRUE
           going == [asked EXCEPT !.code = c, !.pc = IF b THEN "right" ELSE "wrong"]
<1>0. ver[v].pc = "new"
  BY DEF ReadLatest
<1>1. ASSUME NEW a \in {"401", "410", "429"}
      PROVE  /\ failed(a) \in Verify /\ failed(a).phone = p /\ failed(a).dev = d
             /\ failed(a).code = None /\ failed(a).pc = "done" /\ failed(a).answer = a
  BY DEF NoVerify, Verify
<1>2. ASSUME Latest(p) # {}
      PROVE  /\ c \in Codes /\ code[c].pc = "live"
             /\ going \in Verify /\ going.phone = p /\ going.dev = d
             /\ going.code = c /\ going.answer = "none"
             /\ going.pc \in {"right", "wrong"}
  <2>1. c \in Latest(p)
    BY <1>2
  <2>2. c \in Codes /\ code[c].pc = "live"
    BY <2>1 DEF Latest
  <2> HIDE DEF c
  <2> QED BY <2>2 DEF NoVerify, Verify
<1>3. \/ \E a \in {"401", "410", "429"} : ver' = [ver EXCEPT ![v] = failed(a)]
      \/ Latest(p) # {} /\ ver' = [ver EXCEPT ![v] = going]
  BY DEF ReadLatest
<1> HIDE DEF failed, going, c
<1>4. CASE \E a \in {"401", "410", "429"} : ver' = [ver EXCEPT ![v] = failed(a)]
  <2>1. PICK a \in {"401", "410", "429"} : ver' = [ver EXCEPT ![v] = failed(a)]
    BY <1>4
  <2>2. Moves(v, failed(a))
    BY <1>1, <2>1, Assigned
  <2> QED BY <1>0, <1>1, <2>2
<1>5. CASE Latest(p) # {} /\ ver' = [ver EXCEPT ![v] = going]
  <2>1. Moves(v, going)
    BY <1>2, <1>5, Assigned
  <2> QED BY <1>0, <1>2, <1>5, <2>1
<1> QED BY <1>3, <1>4, <1>5

\* A verification the provider decided names no code (CheckVerification).
LEMMA CheckFields ==
    ASSUME TypeOK, NEW v \in Verifies, NEW p \in Phones, NEW d \in Devices, NEW b \in BOOLEAN,
           CheckVerification(v, p, d, b)
    PROVE  \E w : /\ Moves(v, w) /\ ver[v].pc = "new" /\ w.phone = p /\ w.dev = d /\ w.code = None
                  /\ \/ w.pc = "done" /\ w.answer = "401"
                     \/ w.pc = "resolve" /\ w.answer = "none"
<1> DEFINE w == [NoVerify EXCEPT !.phone = p, !.dev = d, !.pc = IF b THEN "resolve" ELSE "done",
                                 !.answer = IF b THEN "none" ELSE "401"]
<1>1. /\ w \in Verify /\ w.phone = p /\ w.dev = d /\ w.code = None
      /\ \/ w.pc = "done" /\ w.answer = "401"
         \/ w.pc = "resolve" /\ w.answer = "none"
  BY DEF NoVerify, Verify, InTx
<1>2. ver' = [ver EXCEPT ![v] = w] /\ ver[v].pc = "new"
  BY DEF CheckVerification
<1> HIDE DEF w
<1>3. Moves(v, w)
  BY <1>1, <1>2, Assigned
<1> QED BY <1>1, <1>2, <1>3

\* The end of a transaction leaves well-typed locks, none of them its own.
LEMMA ReleaseType ==
    ASSUME TypeOK, NEW v \in Verifies, Release(v)
    PROVE  /\ codeLock' \in [Codes -> Verifies \cup {None}]
           /\ userLock' \in [Phones -> Verifies \cup {None}]
           /\ linkLock' \in [Devices -> Verifies \cup {None}]
           /\ contentLock' \in [Devices -> Verifies \cup {None}]
           /\ \A c \in Codes : codeLock'[c] = IF codeLock[c] = v THEN None ELSE codeLock[c]
           /\ \A d \in Devices : contentLock'[d] = IF contentLock[d] = v THEN None ELSE contentLock[d]
BY DEF TypeOK, Release, Released

\* The same of the follows' rows and keys, and the scan is over.
LEMMA ReleaseFollows ==
    ASSUME TypeOK, NEW v \in Verifies, Release(v)
    PROVE  /\ rowLock' \in [Devices \X Cats -> Verifies \cup {None}]
           /\ keyLock' \in [Phones \X Cats -> Verifies \cup {None}]
           /\ scan' = [scan EXCEPT ![v] = NoScan]
           /\ \A r \in Devices \X Cats : rowLock'[r] = IF rowLock[r] = v THEN None ELSE rowLock[r]
           /\ \A e \in Phones \X Cats : keyLock'[e] = IF keyLock[e] = v THEN None ELSE keyLock[e]
<1>1. rowLock' = [r \in Devices \X Cats |-> IF rowLock[r] = v THEN None ELSE rowLock[r]]
  BY DEF TypeOK, Release, Released
<1>2. keyLock' = [e \in Phones \X Cats |-> IF keyLock[e] = v THEN None ELSE keyLock[e]]
  BY DEF TypeOK, Release, Released
<1>3. scan' = [scan EXCEPT ![v] = NoScan]
  BY DEF Release
<1> QED BY <1>1, <1>2, <1>3 DEF TypeOK

\* The row and the key under a scan.
LEMMA RowAndKey ==
    ASSUME TypeOK, NEW v \in Verifies, scan[v].at # None, ver[v].dev \in Devices, ver[v].phone \in Phones
    PROVE  /\ scan[v].at \in Cats /\ Row(v) = <<ver[v].dev, scan[v].at>> /\ Row(v) \in Devices \X Cats
           /\ Key(v) = <<ver[v].phone, scan[v].at>> /\ Key(v) \in Phones \X Cats
BY DEF TypeOK, Scan, Row, Key

\* The scan of v is s, at one of the rows left or through.
ScansTo(v, s, cats, seen) ==
    /\ scan' = [scan EXCEPT ![v] = s] /\ s.todo = cats /\ s.seen = seen
    /\ IF cats = {} THEN s.at = None ELSE s.at \in cats

\* A scan names the row it comes to next, or none when it is through.
LEMMA VisitsScan ==
    ASSUME TypeOK, NEW v \in Verifies, NEW cats \in SUBSET Cats, NEW seen \in SUBSET Cats,
           Visits(v, cats, seen)
    PROVE  \E s \in Scan : ScansTo(v, s, cats, seen)
<1>1. PICK k \in IF cats = {} THEN {None} ELSE cats :
             scan' = [scan EXCEPT ![v] = [todo |-> cats, at |-> k, seen |-> seen]]
  BY DEF Visits
<1> DEFINE s == [todo |-> cats, at |-> k, seen |-> seen]
<1>2. k \in Cats \cup {None}
  OBVIOUS
<1>3. s \in Scan /\ s.todo = cats /\ s.seen = seen /\ s.at = k
  BY <1>2 DEF Scan
<1>4. ScansTo(v, s, cats, seen)
  BY <1>1, <1>3 DEF ScansTo
<1> QED BY <1>3, <1>4

\* What a step may do to the codes short of spending one: a code that was sent stays sent and keeps whether it is spent.
CodeFrame ==
    /\ code' \in [Codes -> Code] /\ IsFiniteSet(LiveCodes')
    /\ \A x \in Codes : /\ code[x].pc = "live" => code'[x].pc = "live"
                        /\ code'[x].consumed = code[x].consumed
                        /\ code'[x].pc = "new" => code[x].pc = "new"

\* RequestOTP and the passing of time (RequestOTP, CreateOtpCode).
LEMMA CodeStep ==
    ASSUME Typed, HoldsCode, NEW c \in Codes,
           CreateOtpCode(c) \/ Age(c) \/ \E p \in Phones : RequestOTP(c, p)
    PROVE  CodeFrame /\ UNCHANGED <<locks, tables, ver>>
<1> USE DEF Typed
<1> DEFINE k == code[c]
<1>0. k \in Code
  BY DEF TypeOK
<1>1. ASSUME NEW n \in Code, code' = [code EXCEPT ![c] = n], n.consumed = k.consumed, n.pc # "new",
             k.pc = "live" => n.pc = "live"
      PROVE  CodeFrame
  <2>1. code' \in [Codes -> Code] /\ code'[c] = n /\ \A x \in Codes \ {c} : code'[x] = code[x]
    BY <1>1 DEF TypeOK
  <2>2. LiveCodes' = LiveCodes \/ LiveCodes' = LiveCodes \cup {c}
    BY <1>1, <2>1 DEF LiveCodes
  <2>3. IsFiniteSet(LiveCodes')
    BY <2>2, FS_AddElement
  <2> QED BY <1>1, <2>1, <2>3 DEF CodeFrame
<1>2. CASE CreateOtpCode(c)
  <2> DEFINE at == 1 + Cardinality(LiveCodes)
             n == [k EXCEPT !.pc = "live", !.fresh = TRUE, !.at = at]
  <2>1. at \in Nat
    BY FS_CardinalityType
  <2>2. code' = [code EXCEPT ![c] = n]
    BY <1>2 DEF CreateOtpCode, LiveCodes, TypeOK
  <2> HIDE DEF at
  <2>3. n \in Code /\ n.consumed = k.consumed /\ n.pc = "live"
    BY <1>0, <2>1 DEF Code
  <2> QED BY <1>1, <1>2, <2>2, <2>3 DEF CreateOtpCode
<1>3. CASE Age(c)
  <2> DEFINE n == [k EXCEPT !.fresh = FALSE, !.expired = ~k.fresh]
  <2>1. code' = [code EXCEPT ![c] = n]
    BY <1>3 DEF Age, TypeOK
  <2>2. n \in Code /\ n.consumed = k.consumed /\ n.pc = k.pc
    BY <1>0 DEF Code
  <2> QED BY <1>1, <1>3, <2>1, <2>2 DEF Age
<1>4. ASSUME NEW p \in Phones, RequestOTP(c, p) PROVE CodeFrame
  <2> DEFINE n(pc) == [NoCode EXCEPT !.phone = p, !.pc = pc]
  <2>1. PICK pc \in {"refused", "checked"} : code' = [code EXCEPT ![c] = n(pc)]
    BY <1>4 DEF RequestOTP
  <2>2. n(pc) \in Code /\ n(pc).consumed = FALSE /\ n(pc).pc = pc
    BY DEF Code, NoCode
  <2>3. k.consumed = FALSE /\ k.pc = "new"
    BY <1>0, <1>4 DEF RequestOTP, HoldsCode, Code
  <2> QED BY <1>1, <1>4, <2>1, <2>2, <2>3 DEF RequestOTP
<1> QED BY <1>2, <1>3, <1>4 DEF CreateOtpCode, Age, RequestOTP

\* A wrong guess counts against the code and changes nothing else of it (IncrementOtpAttempts).
LEMMA IncrementStep ==
    ASSUME Typed, NEW v \in Verifies, IncrementOtpAttempts(v)
    PROVE  CodeFrame
<1> USE DEF Typed
<1> DEFINE c == ver[v].code
           n == [code[c] EXCEPT !.attempts = code[c].attempts + 1]
<1>0. c \in Codes /\ code[c] \in Code
  BY DEF IncrementOtpAttempts, Progress, TypeOK, Verify
<1>1. code' = [code EXCEPT ![c] = n]
  BY <1>0 DEF IncrementOtpAttempts, TypeOK
<1>2. n \in Code /\ n.consumed = code[c].consumed /\ n.pc = code[c].pc
  BY <1>0 DEF Code
<1> HIDE DEF n
<1>3. code' \in [Codes -> Code] /\ code'[c] = n /\ \A x \in Codes \ {c} : code'[x] = code[x]
  BY <1>0, <1>1, <1>2 DEF TypeOK
<1>4. LiveCodes' = LiveCodes
  BY <1>2, <1>3 DEF LiveCodes
<1> QED BY <1>2, <1>3, <1>4 DEF CodeFrame

\* A commit spends the code it holds and no other (CommitSession).
LEMMA ConsumedStep ==
    ASSUME Typed, NEW v \in Verifies, CommitSession(v)
    PROVE  /\ code' \in [Codes -> Code] /\ IsFiniteSet(LiveCodes')
           /\ \A x \in Codes : /\ code'[x].pc = code[x].pc
                               /\ codeLock[x] = v => code'[x].consumed
                               /\ codeLock[x] # v => code'[x] = code[x]
<1> USE DEF Typed
<1>1. ASSUME NEW x \in Codes
      PROVE  /\ code'[x] \in Code /\ code'[x].pc = code[x].pc
             /\ codeLock[x] = v => code'[x].consumed
             /\ codeLock[x] # v => code'[x] = code[x]
  <2>1. code[x] \in Code
    BY DEF TypeOK
  <2>2. code'[x] = IF codeLock[x] = v THEN [code[x] EXCEPT !.consumed = TRUE] ELSE code[x]
    BY DEF CommitSession, Consumed
  <2>3. [code[x] EXCEPT !.consumed = TRUE] \in Code /\ [code[x] EXCEPT !.consumed = TRUE].pc = code[x].pc
        /\ [code[x] EXCEPT !.consumed = TRUE].consumed = TRUE
    BY <2>1 DEF Code
  <2> QED BY <2>1, <2>2, <2>3
<1>2. code' \in [Codes -> Code]
  BY <1>1 DEF CommitSession, Consumed
<1>3. LiveCodes' = LiveCodes
  BY <1>1 DEF LiveCodes
<1> QED BY <1>1, <1>2, <1>3

\* The step of one verification, from the code's row lock to its release.
Turn(v, w) ==
    /\ Moves(v, w)
    /\ \A c \in Codes : codeLock[c] \notin {None, v} => codeLock'[c] = codeLock[c]
    /\ \A c \in Codes : codeLock'[c] \notin {None, v} => codeLock'[c] = codeLock[c]
    /\ w.pc \in InTx /\ w.code # None => codeLock'[w.code] = v
    /\ \A c \in Codes : codeLock'[c] = v => w.code = c /\ w.pc \in InTx
    /\ w.pc \in {"wrong", "right", "consuming"} => w.code # None
    /\ w.code # None => code[w.code].pc = "live"
    /\ w.pc # "done" => w.answer = "none"

\* A step that spends no code and wins no session keeps the three parts.
LEMMA TurnKeeps ==
    ASSUME Typed, HoldsCode, OneWinner, NEW v \in Verifies, NEW w, Turn(v, w),
           CodeFrame \/ UNCHANGED code,
           ver[v].pc # "done", w.answer # "session",
           w.pc \in InTx /\ w.code # None => ~code[w.code].consumed
    PROVE  Progress' /\ HoldsCode' /\ OneWinner'
<1> USE DEF Typed
<1>0. /\ ver[v].answer = "none" /\ w.code \in Codes \cup {None} /\ ver' \in [Verifies -> Verify]
      /\ \A u \in Verifies : ver[u].code \in Codes \cup {None}
  BY DEF Progress, Turn, Moves, TypeOK, Verify
<1>1. \A x \in Codes : /\ code[x].pc = "live" => code'[x].pc = "live"
                       /\ code'[x].consumed = code[x].consumed
  BY DEF CodeFrame
<1>2. Progress'
  BY <1>0, <1>1 DEF Progress, Turn, Moves
<1>3. ASSUME NEW u \in Verifies, ver'[u].pc \in InTx, ver'[u].code # None
      PROVE  codeLock'[ver'[u].code] = u /\ ~code'[ver'[u].code].consumed
  <2>1. CASE u = v
    BY <1>0, <1>1, <1>3, <2>1 DEF Turn, Moves
  <2>2. CASE u # v
    BY <1>0, <1>1, <1>3, <2>2, NoneAssumption DEF Turn, Moves, HoldsCode
  <2> QED BY <2>1, <2>2
<1>4. ASSUME NEW c \in Codes, codeLock'[c] # None
      PROVE  ver'[codeLock'[c]].code = c /\ ver'[codeLock'[c]].pc \in InTx
  <2>1. CASE codeLock'[c] = v
    BY <2>1 DEF Turn, Moves
  <2>2. CASE codeLock'[c] # v
    BY <1>4, <2>2 DEF Turn, Moves, HoldsCode, TypeOK
  <2> QED BY <2>1, <2>2
<1>5. \A c \in Codes : code'[c].pc # "live" => ~code'[c].consumed
  BY <1>1 DEF HoldsCode
<1>6. \A c \in Codes : Won(c)' = Won(c)
  BY <1>0 DEF Won, Turn, Moves
<1>7. OneWinner'
  BY <1>1, <1>6 DEF OneWinner
<1> QED BY <1>2, <1>3, <1>4, <1>5, <1>7 DEF HoldsCode

\* What a verification outside its transaction holds: nothing.
LEMMA HoldsNothing ==
    ASSUME Typed, HoldsCode, NEW v \in Verifies, ver[v].pc \notin InTx, NEW c \in Codes
    PROVE  codeLock[c] # v
BY NoneAssumption DEF HoldsCode

\* The statements that touch no code row (VerifyOTP's transaction after the consume).
LEMMA GoesOn ==
    ASSUME Typed, HoldsCode, NEW v \in Verifies, UNCHANGED codeLock,
           NEW pc \in InTx, ver[v].pc \in InTx, ver' = Goes(v, pc)
    PROVE  \E w : /\ Turn(v, w) /\ w.answer = "none"
                  /\ w.pc \in InTx /\ w.code # None => ~code[w.code].consumed
<1> USE DEF Typed
<1>1. PICK w : Moves(v, w) /\ Same(v, w) /\ w.pc = pc /\ w.answer = ver[v].answer
  BY GoesFields
<1>2. ver[v].answer = "none" /\ ver[v].code \in Codes \cup {None}
  BY DEF Progress, InTx, TypeOK, Verify
<1>3. w.code # None => codeLock[w.code] = v /\ ~code[w.code].consumed /\ code[w.code].pc = "live"
  BY <1>1 DEF HoldsCode, Same, Progress
<1>4. \A c \in Codes : codeLock[c] = v => w.code = c
  BY <1>1, NoneAssumption DEF HoldsCode, Same
<1>5. pc \notin {"wrong", "right", "consuming"}
  BY DEF InTx
<1> QED BY <1>1, <1>2, <1>3, <1>4, <1>5 DEF Turn

\* Any end of a verification: its locks are gone, or it never had one.
LEMMA Ends ==
    ASSUME Typed, HoldsCode, NEW v \in Verifies,
           NEW a \in {"session", "401", "410", "409", "500", "lost"},
           ver' = Answered(v, a), Release(v) \/ (ver[v].pc \notin InTx /\ UNCHANGED codeLock)
    PROVE  \E w : Turn(v, w) /\ w.answer = a /\ w.pc \notin InTx
<1> USE DEF Typed
<1>1. PICK w : Moves(v, w) /\ Same(v, w) /\ w.pc = "done" /\ w.answer = a
  BY AnsweredFields
<1>2. \A c \in Codes : /\ codeLock'[c] # v
                       /\ codeLock[c] # v => codeLock'[c] = codeLock[c]
                       /\ codeLock'[c] # None => codeLock'[c] = codeLock[c]
  BY ReleaseType, HoldsNothing, NoneAssumption
<1>3. w.pc \notin InTx /\ w.pc \notin {"wrong", "right", "consuming"}
  BY <1>1 DEF InTx
<1>4. w.code # None => code[w.code].pc = "live"
  BY <1>1 DEF Same, Progress
<1> QED BY <1>1, <1>2, <1>3, <1>4 DEF Turn

----------------------------------------------------------------------------
(* One code, one session *)

IInv == Typed /\ HoldsCode /\ OneWinner

\* The initial states satisfy it.
LEMMA InitInv == Init => IInv
<1> SUFFICES ASSUME Init PROVE IInv
  OBVIOUS
<1>1. NoCode \in Code /\ NoVerify \in Verify
  BY DEF NoCode, Code, NoVerify, Verify
<1>2. TypeOK
  <2>1. NoScan \in Scan
    BY DEF NoScan, Scan
  <2> QED BY <1>1, <2>1 DEF Init, TypeOK
<1>3. LiveCodes = {}
  BY DEF Init, LiveCodes, NoCode
<1>4. IsFiniteSet(LiveCodes)
  BY <1>3, FS_EmptySet
<1>5. Progress
  BY DEF Init, Progress, NoVerify
<1>6. HoldsCode
  BY DEF Init, HoldsCode, NoVerify, NoCode
<1>7. OneWinner
  BY DEF Init, OneWinner, Won, NoVerify, NoCode
<1> QED BY <1>2, <1>4, <1>5, <1>6, <1>7 DEF IInv, Typed

\* A verification that begins.
LEMMA BeginStep ==
    ASSUME IInv, NEW v \in Verifies, NEW p \in Phones, NEW d \in Devices, NEW b \in BOOLEAN,
           ReadLatest(v, p, d, b) \/ CheckVerification(v, p, d, b)
    PROVE  Progress' /\ HoldsCode' /\ OneWinner' /\ ver' \in [Verifies -> Verify]
<1> USE DEF IInv, Typed
<1>1. UNCHANGED <<code, codeLock>>
  BY DEF ReadLatest, CheckVerification, locks
<1>2. PICK w : /\ Moves(v, w) /\ ver[v].pc = "new"
               /\ \/ w.code = None /\ w.pc = "done" /\ w.answer \in {"401", "410", "429"}
                  \/ w.code = None /\ w.pc = "resolve" /\ w.answer = "none"
                  \/ /\ w.code \in Codes /\ code[w.code].pc = "live"
                     /\ w.pc \in {"right", "wrong"} /\ w.answer = "none"
  <2>1. CASE ReadLatest(v, p, d, b)
    BY <2>1, ReadFields
  <2>2. CASE CheckVerification(v, p, d, b)
    BY <2>2, CheckFields
  <2> QED BY <2>1, <2>2
<1>3. \A c \in Codes : codeLock[c] # v
  BY <1>2, HoldsNothing DEF InTx
<1>4. ~(w.pc \in InTx /\ w.code # None) /\ w.answer # "session"
  BY <1>2, NoneAssumption DEF InTx
<1>5. Turn(v, w)
  <2>1. \A c \in Codes : codeLock'[c] # v
    BY <1>1, <1>3
  <2>2. /\ w.pc \in {"wrong", "right", "consuming"} => w.code # None
        /\ w.code # None => code[w.code].pc = "live"
        /\ w.pc # "done" => w.answer = "none"
    BY <1>2, NoneAssumption
  <2> QED BY <1>1, <1>2, <1>4, <2>1, <2>2 DEF Turn
<1> QED BY <1>1, <1>2, <1>4, <1>5, TurnKeeps DEF Moves

\* The statements before the transaction owns the code (IncrementOtpAttempts,
\* ConsumeOtpCodeIfValid).
LEMMA CodeTurn ==
    ASSUME IInv, NEW v \in Verifies, IncrementOtpAttempts(v) \/ SnapshotCode(v) \/ ConsumeOtpCode(v)
    PROVE  Progress' /\ HoldsCode' /\ OneWinner' /\ ver' \in [Verifies -> Verify]
<1> USE DEF IInv, Typed
<1>0. ver[v].code \in Codes /\ code[ver[v].code].pc = "live" /\ ver[v].pc \in {"wrong", "right", "consuming"}
  BY DEF IncrementOtpAttempts, SnapshotCode, ConsumeOtpCode, Progress, TypeOK, Verify
<1>1. ver[v].answer = "none" /\ ver[v].pc \notin InTx
  BY <1>0 DEF Progress, InTx
<1>2. \A c \in Codes : codeLock[c] # v
  BY <1>1, HoldsNothing
<1>3. CASE IncrementOtpAttempts(v)
  <2>1. ver' = Answered(v, "401") /\ UNCHANGED codeLock
    BY <1>3 DEF IncrementOtpAttempts, locks
  <2>2. PICK w : Turn(v, w) /\ w.answer = "401" /\ w.pc \notin InTx
    BY <1>1, <2>1, Ends
  <2> QED BY <1>0, <1>3, <2>2, IncrementStep, TurnKeeps DEF Turn, Moves
<1>4. ASSUME ver' = Answered(v, "410"), UNCHANGED <<code, codeLock>>
      PROVE  Progress' /\ HoldsCode' /\ OneWinner' /\ ver' \in [Verifies -> Verify]
  <2>1. PICK w : Turn(v, w) /\ w.answer = "410" /\ w.pc \notin InTx
    BY <1>1, <1>4, Ends
  <2> QED BY <1>0, <1>4, <2>1, TurnKeeps DEF Turn, Moves
<1>5. CASE SnapshotCode(v)
  <2>1. UNCHANGED <<code, codeLock>>
    BY <1>5 DEF SnapshotCode, locks
  <2>2. CASE ver' = Goes(v, "consuming")
    <3>1. PICK w : Moves(v, w) /\ Same(v, w) /\ w.pc = "consuming" /\ w.answer = ver[v].answer
      BY <2>2, GoesFields
    <3>2. Turn(v, w) /\ w.pc \notin InTx /\ w.answer # "session"
      BY <1>0, <1>1, <1>2, <2>1, <3>1, NoneAssumption DEF Turn, Same, InTx
    <3> QED BY <1>0, <2>1, <3>2, TurnKeeps DEF Turn, Moves
  <2> QED BY <1>4, <1>5, <2>1, <2>2 DEF SnapshotCode
<1>6. CASE ConsumeOtpCode(v)
  <2>1. UNCHANGED code
    BY <1>6 DEF ConsumeOtpCode
  <2>2. CASE Spendable(ver[v].code)
    <3>1. ver' = Goes(v, "resolve") /\ codeLock' = [codeLock EXCEPT ![ver[v].code] = v] /\ codeLock[ver[v].code] = None
      BY <1>6, <2>2 DEF ConsumeOtpCode
    <3>2. PICK w : Moves(v, w) /\ Same(v, w) /\ w.pc = "resolve" /\ w.answer = ver[v].answer
      BY <3>1, GoesFields DEF InTx
    <3>3. \A c \in Codes : codeLock'[c] = IF c = ver[v].code THEN v ELSE codeLock[c]
      BY <3>1 DEF TypeOK
    <3>4. Turn(v, w) /\ ~code[w.code].consumed /\ w.answer # "session"
      BY <1>0, <1>1, <1>2, <2>2, <3>1, <3>2, <3>3 DEF Turn, Same, InTx, Spendable
    <3> QED BY <1>0, <2>1, <3>4, TurnKeeps DEF Turn, Moves
  <2>3. CASE ~Spendable(ver[v].code)
    BY <1>4, <1>6, <2>1, <2>3 DEF ConsumeOtpCode
  <2> QED BY <2>2, <2>3
<1> QED BY <1>3, <1>5, <1>6

\* The statements on the follows go from one to the next within the transaction and touch
\* no other row (DeleteRedundantDeviceFollows, BackfillFollowsUserID).
LEMMA FollowsFrame ==
    ASSUME TypeOK, NEW v \in Verifies, FollowsStep(v)
    PROVE  /\ ver[v].pc \in {"backfill", "delete", "follows", "key"}
           /\ UNCHANGED ver \/ \E pc \in AtFollows : ver' = Goes(v, pc)
           /\ UNCHANGED <<code, codeLock, userLock, linkLock, contentLock, tables>>
           /\ rowLock' \in [Devices \X Cats -> Verifies \cup {None}]
           /\ keyLock' \in [Phones \X Cats -> Verifies \cup {None}]
           /\ scan' \in [Verifies -> Scan]
<1>1. scan[v] \in Scan
  BY DEF TypeOK
<1>2. /\ Redundant(v) \subseteq Cats /\ FollowedBy(ver[v].phone) \subseteq Cats
      /\ scan[v].todo \ {scan[v].at} \subseteq Cats /\ scan[v].seen \subseteq Cats
  BY <1>1 DEF Redundant, FollowedBy, Scan
<1>3. ASSUME NEW cats \in SUBSET Cats, NEW seen \in SUBSET Cats, Visits(v, cats, seen)
      PROVE  scan' \in [Verifies -> Scan]
  <2>1. PICK s \in Scan : ScansTo(v, s, cats, seen)
    BY <1>3, VisitsScan
  <2> QED BY <2>1 DEF ScansTo, TypeOK
<1>4. ASSUME Passes(v) PROVE scan' \in [Verifies -> Scan]
  BY <1>2, <1>3, <1>4 DEF Passes
<1>5. CASE DeleteRedundantDeviceFollows(v)
  BY <1>2, <1>3, <1>5 DEF DeleteRedundantDeviceFollows, AtFollows, TypeOK
<1>6. CASE DeleteRow(v)
  BY <1>4, <1>6 DEF DeleteRow, TypeOK
<1>7. CASE BackfillFollowsUserID(v)
  BY <1>2, <1>3, <1>7 DEF BackfillFollowsUserID, AtFollows, TypeOK
<1>8. CASE OwnRow(v)
  BY <1>4, <1>8 DEF OwnRow, AtFollows, TypeOK
<1>9. CASE EnterKey(v)
  BY <1>4, <1>9 DEF EnterKey, AtFollows, TypeOK
<1> QED BY <1>5, <1>6, <1>7, <1>8, <1>9 DEF FollowsStep

\* The statements in the transaction, short of its commit: account, link and backfill,
\* and every way it can fail (resolveOrCreateUser, linkDevice, WithinTx).
LEMMA TxTurn ==
    ASSUME IInv, NEW v \in Verifies,
           \/ GetUserByPhone(v) \/ CreateUser(v) \/ CreateUserConflict(v) \/ GetDeviceByID(v)
           \/ LinkDeviceToUser(v) \/ FollowsStep(v) \/ KeyConflict(v)
           \/ BackfillUpdatesAuthorUserID(v) \/ Rollback(v)
    PROVE  Progress' /\ HoldsCode' /\ OneWinner' /\ ver' \in [Verifies -> Verify]
<1> USE DEF IInv, Typed
<1>0. ver[v].pc \in InTx /\ ver[v].pc # "done" /\ UNCHANGED code
  BY FollowsFrame DEF GetUserByPhone, CreateUser, CreateUserConflict, GetDeviceByID, LinkDeviceToUser,
         KeyConflict, BackfillUpdatesAuthorUserID, Rollback, InTx
<1>1. ASSUME NEW pc \in InTx, ver' = Goes(v, pc), UNCHANGED codeLock
      PROVE  Progress' /\ HoldsCode' /\ OneWinner' /\ ver' \in [Verifies -> Verify]
  BY <1>0, <1>1, GoesOn, TurnKeeps DEF Turn, Moves
<1>2. ASSUME NEW a \in {"409", "500", "lost"}, ver' = Answered(v, a), Release(v)
      PROVE  Progress' /\ HoldsCode' /\ OneWinner' /\ ver' \in [Verifies -> Verify]
  <2>1. PICK w : Turn(v, w) /\ w.answer = a /\ w.pc \notin InTx
    BY <1>2, Ends
  <2> QED BY <1>0, <2>1, TurnKeeps DEF Turn, Moves
<1>3. CASE GetUserByPhone(v) \/ CreateUser(v) \/ LinkDeviceToUser(v) \/ BackfillUpdatesAuthorUserID(v)
  <2>1. UNCHANGED codeLock /\ \E pc \in InTx : ver' = Goes(v, pc)
    BY <1>3 DEF GetUserByPhone, CreateUser, LinkDeviceToUser, BackfillUpdatesAuthorUserID, InTx, locks
  <2> QED BY <1>1, <2>1
<1>4. CASE CreateUserConflict(v) \/ KeyConflict(v) \/ Rollback(v)
  BY <1>2, <1>4 DEF CreateUserConflict, KeyConflict, Rollback
<1>6. CASE FollowsStep(v)
  <2>1. UNCHANGED <<code, codeLock>>
    BY <1>6, FollowsFrame
  <2>2. CASE UNCHANGED ver
    <3>1. UNCHANGED <<code, codeLock, ver>>
      BY <2>1, <2>2
    <3> QED BY <3>1 DEF Progress, HoldsCode, OneWinner, Won, TypeOK
  <2>3. CASE \E pc \in AtFollows : ver' = Goes(v, pc)
    BY <1>1, <2>1, <2>3 DEF AtFollows, InTx
  <2> QED BY <1>6, <2>2, <2>3, FollowsFrame
<1>5. CASE GetDeviceByID(v)
  BY <1>1, <1>2, <1>5 DEF GetDeviceByID, InTx, locks
<1> QED BY <1>3, <1>4, <1>5, <1>6

\* The victim of a circle ends as if it had failed by itself (Postgres, WithinTx).
LEMMA VictimTurn ==
    ASSUME IInv, NEW v \in Verifies, DeadlockVictim(v)
    PROVE  Progress' /\ HoldsCode' /\ OneWinner' /\ ver' \in [Verifies -> Verify]
<1> USE DEF IInv, Typed
<1>1. ver[v].pc # "done" /\ UNCHANGED code /\ ver' = Answered(v, "500") /\ Release(v)
  BY DEF DeadlockVictim, Circular, WaitsFor
<1>2. PICK w : Turn(v, w) /\ w.answer = "500" /\ w.pc \notin InTx
  BY <1>1, Ends
<1> QED BY <1>1, <1>2, TurnKeeps DEF Turn, Moves

\* The commit: the session and the spent code appear together (IssueTx, WithinTx).
LEMMA CommitTurn ==
    ASSUME IInv, NEW v \in Verifies, CommitSession(v)
    PROVE  Progress' /\ HoldsCode' /\ OneWinner' /\ ver' \in [Verifies -> Verify]
<1> USE DEF IInv, Typed
<1>0. ver[v].pc \in InTx /\ ver[v].answer = "none" /\ ver[v].code \in Codes \cup {None}
  BY DEF CommitSession, InTx, Progress, TypeOK, Verify
<1>1. PICK w : Moves(v, w) /\ Same(v, w) /\ w.pc = "done" /\ w.answer = "session"
  BY AnsweredFields DEF CommitSession
<1>2. \A c \in Codes : codeLock'[c] = IF codeLock[c] = v THEN None ELSE codeLock[c]
  BY ReleaseType DEF CommitSession
<1>3. \A x \in Codes : /\ code'[x].pc = code[x].pc
                       /\ codeLock[x] = v => code'[x].consumed
                       /\ codeLock[x] # v => code'[x] = code[x]
  BY ConsumedStep
<1>4. \A c \in Codes : codeLock[c] = v <=> ver[v].code = c
  BY <1>0, NoneAssumption DEF HoldsCode
<1>5. Progress'
  BY <1>0, <1>1, <1>3 DEF Progress, Moves, Same, TypeOK, Verify
<1>6. HoldsCode'
  <2>1. ASSUME NEW u \in Verifies, ver'[u].pc \in InTx, ver'[u].code # None
        PROVE  codeLock'[ver'[u].code] = u /\ ~code'[ver'[u].code].consumed
    <3>1. u # v /\ ver'[u] = ver[u] /\ ver[u].code \in Codes
      BY <1>1, <2>1 DEF Moves, InTx, TypeOK, Verify
    <3>2. codeLock[ver[u].code] = u /\ ~code[ver[u].code].consumed
      BY <2>1, <3>1 DEF HoldsCode
    <3> QED BY <1>2, <1>3, <3>1, <3>2
  <2>2. ASSUME NEW c \in Codes, codeLock'[c] # None
        PROVE  ver'[codeLock'[c]].code = c /\ ver'[codeLock'[c]].pc \in InTx
    BY <1>1, <1>2, <2>2 DEF HoldsCode, Moves, TypeOK
  <2>3. \A c \in Codes : code'[c].pc # "live" => ~code'[c].consumed
    BY <1>0, <1>3, <1>4, NoneAssumption DEF HoldsCode, Progress
  <2> QED BY <2>1, <2>2, <2>3 DEF HoldsCode
<1>7. OneWinner'
  <2>1. ASSUME NEW c \in Codes, c # ver[v].code PROVE Won(c)' = Won(c) /\ code'[c] = code[c]
    BY <1>0, <1>1, <1>3, <1>4, <2>1 DEF Won, Moves, Same
  <2>2. ASSUME NEW c \in Codes, c = ver[v].code PROVE Won(c)' = {v} /\ code'[c].consumed
    <3>1. ~code[c].consumed
      BY <1>0, <2>2, NoneAssumption DEF HoldsCode
    <3>2. Won(c) = {}
      BY <3>1 DEF OneWinner
    <3>3. Won(c)' = {v}
      BY <1>1, <2>2, <3>2 DEF Won, Moves, Same
    <3> QED BY <1>3, <1>4, <2>2, <3>3
  <2> QED BY <2>1, <2>2 DEF OneWinner
<1> QED BY <1>1, <1>5, <1>6, <1>7 DEF Moves

\* A step of a verification leaves the other tables well typed.
LEMMA TablesTyped ==
    ASSUME IInv, NEW v \in Verifies, ver' \in [Verifies -> Verify], Step(v) \/ Rollback(v) \/ DeadlockVictim(v)
    PROVE  TypeOK' /\ IsFiniteSet(LiveCodes')
<1> USE DEF IInv, Typed
<1>0. ver[v] \in Verify
  BY DEF TypeOK
<1>r. ASSUME Release(v)
      PROVE  /\ rowLock' \in [Devices \X Cats -> Verifies \cup {None}]
             /\ keyLock' \in [Phones \X Cats -> Verifies \cup {None}]
             /\ scan' \in [Verifies -> Scan]
  <2>1. NoScan \in Scan
    BY DEF NoScan, Scan
  <2> QED BY <1>r, <2>1, ReleaseFollows DEF TypeOK
<1>1. CASE UNCHANGED <<code, tables>>
  <2>1. /\ codeLock' \in [Codes -> Verifies \cup {None}]
        /\ userLock' \in [Phones -> Verifies \cup {None}]
        /\ linkLock' \in [Devices -> Verifies \cup {None}]
        /\ contentLock' \in [Devices -> Verifies \cup {None}]
        /\ rowLock' \in [Devices \X Cats -> Verifies \cup {None}]
        /\ keyLock' \in [Phones \X Cats -> Verifies \cup {None}]
        /\ scan' \in [Verifies -> Scan]
    <3>1. CASE Release(v)
      BY <3>1, <1>r, ReleaseType
    <3>2. CASE UNCHANGED locks
      BY <3>2 DEF locks, backfill, TypeOK
    <3>3. CASE ConsumeOtpCode(v) \/ CreateUser(v) \/ LinkDeviceToUser(v) \/ BackfillUpdatesAuthorUserID(v)
      BY <3>3 DEF ConsumeOtpCode, CreateUser, LinkDeviceToUser, BackfillUpdatesAuthorUserID, backfill, TypeOK
    <3>4. CASE FollowsStep(v)
      BY <3>4, FollowsFrame DEF TypeOK
    <3> QED BY <3>1, <3>2, <3>3, <3>4 DEF Step, Rollback, IncrementOtpAttempts, SnapshotCode, GetUserByPhone,
               CreateUserConflict, GetDeviceByID, KeyConflict, CommitSession, DeadlockVictim
  <2> QED BY <1>1, <2>1 DEF TypeOK, tables, LiveCodes
<1>2. CASE IncrementOtpAttempts(v)
  BY <1>2, IncrementStep DEF IncrementOtpAttempts, TypeOK, CodeFrame, locks, backfill, tables
<1>3. CASE CommitSession(v)
  <2>1. accounts' \subseteq Phones /\ link' \in [Devices -> Phones \cup {None}]
        /\ content' \in [Devices -> Phones \cup {None}]
    BY <1>0, <1>3 DEF CommitSession, Writes, TypeOK, Verify
  <2>2. guest' \subseteq Devices \X Cats /\ owned' \subseteq Phones \X Cats
    BY <1>3 DEF CommitSession, Writes, TypeOK
  <2>3. Release(v)
    BY <1>3 DEF CommitSession
  <2> QED BY <1>r, <2>1, <2>2, <2>3, <1>3, ConsumedStep, ReleaseType DEF TypeOK
<1> QED BY <1>1, <1>2, <1>3, FollowsFrame DEF Step, Rollback, SnapshotCode, ConsumeOtpCode, GetUserByPhone,
           CreateUser, CreateUserConflict, GetDeviceByID, LinkDeviceToUser, KeyConflict,
           BackfillUpdatesAuthorUserID, DeadlockVictim

\* Every step keeps the inductive invariant.
LEMMA NextInv == IInv /\ [Next]_vars => IInv'
<1> SUFFICES ASSUME IInv, [Next]_vars PROVE IInv'
  OBVIOUS
<1> USE DEF IInv, Typed
<1>1. ASSUME NEW c \in Codes, CreateOtpCode(c) \/ Age(c) \/ \E p \in Phones : RequestOTP(c, p)
      PROVE  IInv'
  <2>1. CodeFrame /\ UNCHANGED <<locks, tables, ver>>
    BY <1>1, CodeStep
  <2>2. TypeOK' /\ IsFiniteSet(LiveCodes')
    BY <2>1 DEF CodeFrame, TypeOK, locks, backfill, tables
  <2>3. \A x \in Codes : /\ code[x].pc = "live" => code'[x].pc = "live"
                         /\ code'[x].consumed = code[x].consumed
    BY <2>1 DEF CodeFrame
  <2>4. \A v \in Verifies : ver[v].code \in Codes \cup {None}
    BY DEF TypeOK, Verify
  <2>5. UNCHANGED <<ver, codeLock>>
    BY <2>1 DEF locks
  <2>6. Progress'
    BY <2>3, <2>4, <2>5 DEF Progress
  <2>7. HoldsCode'
    BY <2>3, <2>4, <2>5 DEF HoldsCode
  <2>8. OneWinner'
    BY <2>3, <2>5 DEF OneWinner, Won
  <2> QED BY <2>2, <2>6, <2>7, <2>8
<1>2. ASSUME NEW v \in Verifies, Step(v) \/ Rollback(v) \/ DeadlockVictim(v) PROVE IInv'
  <2>1. Progress' /\ HoldsCode' /\ OneWinner' /\ ver' \in [Verifies -> Verify]
    BY <1>2, CodeTurn, TxTurn, CommitTurn, VictimTurn DEF Step
  <2> QED BY <1>2, <2>1, TablesTyped
<1>3. ASSUME NEW v \in Verifies, NEW p \in Phones, NEW d \in Devices, NEW b \in BOOLEAN,
             ReadLatest(v, p, d, b) \/ CheckVerification(v, p, d, b)
      PROVE  IInv'
  <2>1. UNCHANGED <<code, locks, tables>>
    BY <1>3 DEF ReadLatest, CheckVerification
  <2> QED BY <1>3, <2>1, BeginStep DEF TypeOK, locks, backfill, tables, LiveCodes
<1>4. ASSUME UNCHANGED <<code, codeLock, ver>> PROVE Progress' /\ HoldsCode' /\ OneWinner' /\ LiveCodes' = LiveCodes
  BY <1>4 DEF Progress, HoldsCode, OneWinner, Won, LiveCodes
<1>5. ASSUME NEW d \in Devices, UnlinkDevice(d) PROVE IInv'
  BY <1>4, <1>5 DEF UnlinkDevice, TypeOK, locks, backfill
<1>7. ASSUME NEW p \in Phones, NEW k \in Cats, CreateFollow(p, k) \/ DeleteFollow(p, k) PROVE IInv'
  <2>1. owned' \subseteq Phones \X Cats /\ UNCHANGED <<code, locks, accounts, link, content, guest, ver>>
    BY <1>7 DEF CreateFollow, DeleteFollow, TypeOK
  <2> QED BY <1>4, <2>1 DEF TypeOK, locks, backfill
<1>6. CASE UNCHANGED vars
  BY <1>4, <1>6 DEF vars, locks, backfill, tables, TypeOK
<1> QED BY <1>1, <1>2, <1>3, <1>5, <1>6, <1>7 DEF Next

\* Sign-in is well typed, for every set of codes, verifications, phones and devices.
THEOREM TypeCorrect == Spec => []TypeOK
<1>1. IInv => TypeOK
  BY DEF IInv, Typed
<1> QED BY <1>1, InitInv, NextInv, PTL DEF Spec

\* A code is spent exactly when one session came of it, for any number of concurrent
\* verifications and rollbacks (ConsumeOtpCodeIfValid inside WithinTx).
THEOREM OneSessionPerCode == Spec => []SessionPerCode
<1>1. IInv => SessionPerCode
  <2> SUFFICES ASSUME IInv, NEW c \in Codes
               PROVE  IF code[c].consumed THEN Cardinality(Won(c)) = 1 ELSE Won(c) = {}
    BY DEF SessionPerCode, Won
  <2>1. \A v : IsFiniteSet({v}) /\ Cardinality({v}) = 1
    BY FS_Singleton
  <2> QED BY <2>1 DEF IInv, OneWinner
<1> QED BY <1>1, InitInv, NextInv, PTL DEF Spec

----------------------------------------------------------------------------
(* The follows of the guest era *)

\* A verification that was read names a phone and a device.
Asked == \A v \in Verifies : ver[v].pc # "new" => ver[v].phone \in Phones /\ ver[v].dev \in Devices

\* How the step of a verification moves it.
LEMMA StepMoves ==
    ASSUME TypeOK, NEW v \in Verifies, Step(v) \/ Rollback(v) \/ DeadlockVictim(v)
    PROVE  /\ ver[v].pc \notin {"new", "done"}
           /\ \/ UNCHANGED ver
              \/ \E pc \in InTx \cup {"consuming"} : ver' = Goes(v, pc)
              \/ \E a \in {"session", "401", "410", "409", "500", "lost"} : ver' = Answered(v, a)
<1>1. CASE FollowsStep(v)
  BY <1>1, FollowsFrame DEF AtFollows, InTx
<1>2. CASE DeadlockVictim(v)
  BY <1>2 DEF DeadlockVictim, Circular, WaitsFor
<1>3. CASE KeyConflict(v) \/ Rollback(v) \/ BackfillUpdatesAuthorUserID(v) \/ CommitSession(v)
  BY <1>3 DEF KeyConflict, Rollback, BackfillUpdatesAuthorUserID, CommitSession, InTx
<1>4. CASE IncrementOtpAttempts(v) \/ SnapshotCode(v) \/ ConsumeOtpCode(v)
  BY <1>4 DEF IncrementOtpAttempts, SnapshotCode, ConsumeOtpCode, InTx
<1>5. CASE GetUserByPhone(v) \/ CreateUser(v) \/ CreateUserConflict(v) \/ GetDeviceByID(v) \/ LinkDeviceToUser(v)
  BY <1>5 DEF GetUserByPhone, CreateUser, CreateUserConflict, GetDeviceByID, LinkDeviceToUser, InTx
<1> QED BY <1>1, <1>2, <1>3, <1>4, <1>5 DEF Step

\* A verification keeps the phone and the device it was read with.
LEMMA AskedStep == TypeOK /\ Asked /\ [Next]_vars => Asked'
<1> SUFFICES ASSUME TypeOK, Asked, [Next]_vars PROVE Asked'
  OBVIOUS
<1>1. ASSUME NEW v \in Verifies, NEW w, Moves(v, w), w.phone \in Phones, w.dev \in Devices PROVE Asked'
  BY <1>1 DEF Asked, Moves
<1>2. ASSUME NEW v \in Verifies, NEW w, Moves(v, w), Same(v, w), ver[v].pc # "new" PROVE Asked'
  BY <1>1, <1>2 DEF Asked, Same
<1>5. CASE UNCHANGED ver
  BY <1>5 DEF Asked
<1>3. ASSUME NEW v \in Verifies, Step(v) \/ Rollback(v) \/ DeadlockVictim(v) PROVE Asked'
  BY <1>2, <1>3, <1>5, StepMoves, GoesFields, AnsweredFields
<1>4. ASSUME NEW v \in Verifies, NEW p \in Phones, NEW d \in Devices, NEW b \in BOOLEAN,
             ReadLatest(v, p, d, b) \/ CheckVerification(v, p, d, b)
      PROVE  Asked'
  <2>1. PICK w : Moves(v, w) /\ w.phone = p /\ w.dev = d
    BY <1>4, ReadFields, CheckFields
  <2> QED BY <1>1, <2>1
<1> QED BY <1>3, <1>4, <1>5 DEF Next, vars, CreateOtpCode, Age, RequestOTP, UnlinkDevice, CreateFollow, DeleteFollow

\* A row that w has written is one of its device, still without an account for everybody
\* else, and not ahead of its scan; the account followed its cat when the duplicates were
\* read, or w has entered its key, or is about to.
RowOf(w, d, k) ==
    /\ ver[w].dev = d /\ ver[w].pc \in AtFollows \cup {"issue"}
    /\ <<d, k>> \in guest
    /\ k \in scan[w].todo => ver[w].pc = "key" /\ scan[w].at = k
    /\ \/ k \in scan[w].seen
       \/ keyLock[<<ver[w].phone, k>>] = w
       \/ ver[w].pc = "key" /\ scan[w].at = k

\* A key that w has entered is one of its account, and behind its scan.
KeyOf(w, p, k) == /\ ver[w].phone = p /\ ver[w].pc \in {"follows", "key", "issue"}
                  /\ k \notin scan[w].todo

\* Where a scan is: at one of the rows left, if any.  DeleteRedundantDeviceFollows has
\* still to come to every duplicate it has not deleted, so BackfillFollowsUserID meets
\* none of them.
ScanOf(v) ==
    /\ IF scan[v].todo = {} THEN scan[v].at = None ELSE scan[v].at \in scan[v].todo
    /\ ver[v].pc = "key" => scan[v].at # None
    /\ ver[v].pc = "delete" => scan[v].todo \subseteq scan[v].seen
    /\ ver[v].pc = "delete" => \A k \in scan[v].seen :
          <<ver[v].dev, k>> \in guest => k \in scan[v].todo \/ rowLock[<<ver[v].dev, k>>] = v
    /\ ver[v].pc \in {"follows", "key"} => scan[v].todo \cap scan[v].seen = {}

FollowsInv ==
    /\ \A w \in Verifies, d \in Devices, k \in Cats : rowLock[<<d, k>>] = w => RowOf(w, d, k)
    /\ \A w \in Verifies, p \in Phones, k \in Cats : keyLock[<<p, k>>] = w => KeyOf(w, p, k)
    /\ \A v \in Verifies : ScanOf(v)

\* What a step of v leaves alone of the others' rows and keys.
OthersKept(v) ==
    /\ \A u \in Verifies \ {v} : ver'[u] = ver[u] /\ scan'[u] = scan[u]
    /\ \A d \in Devices, k \in Cats : /\ rowLock[<<d, k>>] \notin {None, v} => rowLock'[<<d, k>>] = rowLock[<<d, k>>]
                                      /\ rowLock'[<<d, k>>] \notin {None, v} => rowLock'[<<d, k>>] = rowLock[<<d, k>>]
    /\ \A p \in Phones, k \in Cats : /\ keyLock[<<p, k>>] \notin {None, v} => keyLock'[<<p, k>>] = keyLock[<<p, k>>]
                                     /\ keyLock'[<<p, k>>] \notin {None, v} => keyLock'[<<p, k>>] = keyLock[<<p, k>>]
    /\ guest' \subseteq guest
    /\ \A d \in Devices, k \in Cats : <<d, k>> \in guest /\ rowLock[<<d, k>>] # v => <<d, k>> \in guest'

\* Such a step keeps the invariant if it keeps v's part.
LEMMA FollowsKept ==
    ASSUME TypeOK, TypeOK', Asked, FollowsInv, NEW v \in Verifies, OthersKept(v),
           \A d \in Devices, k \in Cats : rowLock'[<<d, k>>] = v => RowOf(v, d, k)',
           \A p \in Phones, k \in Cats : keyLock'[<<p, k>>] = v => KeyOf(v, p, k)',
           ScanOf(v)'
    PROVE  FollowsInv'
<1>0. \A u \in Verifies \ {v} : u \notin {None, v} /\ ver'[u] = ver[u] /\ scan'[u] = scan[u]
  BY NoneAssumption DEF OthersKept
<1>1. ASSUME NEW u \in Verifies, u # v, NEW d \in Devices, NEW k \in Cats, rowLock'[<<d, k>>] = u
      PROVE  RowOf(u, d, k)'
  <2>1. rowLock[<<d, k>>] = u
    BY <1>0, <1>1 DEF OthersKept
  <2>2. RowOf(u, d, k)
    BY <2>1 DEF FollowsInv
  <2>3. <<d, k>> \in guest'
    BY <1>1, <2>1, <2>2 DEF OthersKept, RowOf
  <2>4. keyLock[<<ver[u].phone, k>>] = u => keyLock'[<<ver[u].phone, k>>] = u
    <3>1. ver[u].phone \in Phones
      BY <2>2 DEF Asked, RowOf, AtFollows
    <3> QED BY <1>0, <1>1, <3>1 DEF OthersKept
  <2> QED BY <1>0, <1>1, <2>2, <2>3, <2>4 DEF RowOf
<1>2. ASSUME NEW u \in Verifies, u # v, NEW p \in Phones, NEW k \in Cats, keyLock'[<<p, k>>] = u
      PROVE  KeyOf(u, p, k)'
  <2>1. keyLock[<<p, k>>] = u
    BY <1>0, <1>2 DEF OthersKept
  <2>2. KeyOf(u, p, k)
    BY <2>1 DEF FollowsInv
  <2> QED BY <1>0, <1>2, <2>2 DEF KeyOf
<1>3. ASSUME NEW u \in Verifies, u # v PROVE ScanOf(u)'
  <2>1. ver'[u] = ver[u] /\ scan'[u] = scan[u] /\ ScanOf(u)
    BY <1>3 DEF OthersKept, FollowsInv
  <2>2. ASSUME NEW k \in scan[u].seen, <<ver[u].dev, k>> \in guest', rowLock[<<ver[u].dev, k>>] = u
        PROVE  rowLock'[<<ver[u].dev, k>>] = u
    <3>1. <<ver[u].dev, k>> \in Devices \X Cats
      BY <2>2 DEF OthersKept, TypeOK
    <3>2. ver[u].dev \in Devices /\ k \in Cats
      BY <3>1
    <3>3. u # None
      BY NoneAssumption
    <3> QED BY <1>3, <2>2, <3>2, <3>3 DEF OthersKept
  <2>3. guest' \subseteq guest
    BY DEF OthersKept
  <2> QED BY <2>1, <2>2, <2>3 DEF ScanOf
<1> QED BY <1>1, <1>2, <1>3 DEF FollowsInv

\* A verification before its backfill holds no row and no key.
LEMMA HoldsNoFollow ==
    ASSUME FollowsInv, NEW v \in Verifies, ver[v].pc \notin AtFollows \cup {"issue"}
    PROVE  /\ \A d \in Devices, k \in Cats : rowLock[<<d, k>>] # v
           /\ \A p \in Phones, k \in Cats : keyLock[<<p, k>>] # v
<1>1. \A d \in Devices, k \in Cats : rowLock[<<d, k>>] = v => RowOf(v, d, k)
  BY DEF FollowsInv
<1>2. \A p \in Phones, k \in Cats : keyLock[<<p, k>>] = v => KeyOf(v, p, k)
  BY DEF FollowsInv
<1> QED BY <1>1, <1>2 DEF RowOf, KeyOf, AtFollows

\* A step of v outside the follows keeps their invariant.
LEMMA FollowsOutside ==
    ASSUME TypeOK, TypeOK', Asked, FollowsInv, NEW v \in Verifies, NEW w, Moves(v, w),
           UNCHANGED <<rowLock, keyLock, scan, guest>>,
           ver[v].pc \notin AtFollows \cup {"issue"}, w.pc \notin AtFollows \cup {"issue"}
    PROVE  FollowsInv'
<1>1. OthersKept(v)
  BY DEF OthersKept, Moves
<1>2. ver'[v] = w /\ ScanOf(v)
  BY DEF Moves, FollowsInv
<1>3. ScanOf(v)'
  BY <1>2 DEF ScanOf, AtFollows
<1> QED BY <1>1, <1>3, HoldsNoFollow, FollowsKept

\* The end of a transaction: its rows and keys are free again, and the rows it wrote are
\* gone from the guest era or as they were (WithinTx).
LEMMA FollowsEnd ==
    ASSUME TypeOK, TypeOK', Asked, FollowsInv, NEW v \in Verifies, NEW w, Moves(v, w), w.pc = "done",
           Release(v), UNCHANGED guest \/ guest' = {r \in guest : rowLock[r] # v}
    PROVE  FollowsInv'
<1>1. /\ \A r \in Devices \X Cats : rowLock'[r] = IF rowLock[r] = v THEN None ELSE rowLock[r]
      /\ \A e \in Phones \X Cats : keyLock'[e] = IF keyLock[e] = v THEN None ELSE keyLock[e]
      /\ scan' = [scan EXCEPT ![v] = NoScan]
  BY ReleaseFollows
<1>2. v # None
  BY NoneAssumption
<1>3. /\ \A d \in Devices, k \in Cats : rowLock'[<<d, k>>] # v /\ rowLock'[<<d, k>>] \in {None, rowLock[<<d, k>>]}
      /\ \A d \in Devices, k \in Cats : rowLock[<<d, k>>] # v => rowLock'[<<d, k>>] = rowLock[<<d, k>>]
      /\ \A p \in Phones, k \in Cats : keyLock'[<<p, k>>] # v /\ keyLock'[<<p, k>>] \in {None, keyLock[<<p, k>>]}
      /\ \A p \in Phones, k \in Cats : keyLock[<<p, k>>] # v => keyLock'[<<p, k>>] = keyLock[<<p, k>>]
  BY <1>1, <1>2
<1>4. \A u \in Verifies \ {v} : ver'[u] = ver[u] /\ scan'[u] = scan[u]
  BY <1>1 DEF Moves, TypeOK
<1>5. /\ guest' \subseteq guest
      /\ \A d \in Devices, k \in Cats : <<d, k>> \in guest /\ rowLock[<<d, k>>] # v => <<d, k>> \in guest'
  OBVIOUS
<1>6. OthersKept(v)
  BY <1>3, <1>4, <1>5 DEF OthersKept
<1>7. scan'[v] = NoScan /\ ver'[v].pc = "done"
  BY <1>1 DEF TypeOK, Moves
<1>8. ScanOf(v)'
  BY <1>7 DEF ScanOf, NoScan
<1> QED BY <1>3, <1>6, <1>8, FollowsKept

\* The scan of v goes on, with a row or a key more.
LEMMA FollowsOn ==
    ASSUME TypeOK, TypeOK', Asked, FollowsInv, NEW v \in Verifies, FollowsStep(v)
    PROVE  FollowsInv'
<1>v. v # None /\ ver[v].dev \in Devices /\ ver[v].phone \in Phones
  BY FollowsFrame, NoneAssumption DEF Asked
<1>g. UNCHANGED guest
  BY FollowsFrame DEF tables
<1>s. scan[v] \in Scan /\ ScanOf(v)
  BY DEF TypeOK, FollowsInv
<1>p. ASSUME Passes(v)
      PROVE  \E s \in Scan : ScansTo(v, s, scan[v].todo \ {scan[v].at}, scan[v].seen)
  <2>1. scan[v].todo \ {scan[v].at} \in SUBSET Cats /\ scan[v].seen \in SUBSET Cats
    BY <1>s DEF Scan
  <2> QED BY <1>p, <2>1, VisitsScan DEF Passes
<1>q. ASSUME UNCHANGED scan \/ \E s \in Scan : scan' = [scan EXCEPT ![v] = s],
             UNCHANGED ver \/ \E pc \in AtFollows : ver' = Goes(v, pc)
      PROVE  \A u \in Verifies \ {v} : ver'[u] = ver[u] /\ scan'[u] = scan[u]
  <2>1. \A u \in Verifies \ {v} : ver'[u] = ver[u]
    <3>1. CASE \E pc \in AtFollows : ver' = Goes(v, pc)
      BY <3>1, GoesFields DEF AtFollows, InTx, Moves
    <3> QED BY <1>q, <3>1
  <2> QED BY <1>q, <2>1 DEF TypeOK
<1>w. \A pc \in AtFollows : ver' = Goes(v, pc)
          => ver'[v].pc = pc /\ ver'[v].dev = ver[v].dev /\ ver'[v].phone = ver[v].phone
  BY GoesFields DEF AtFollows, InTx, Moves, Same
<1>m. \A u \in Verifies \ {v} : ver'[u] = ver[u] /\ scan'[u] = scan[u]
  <2>1. UNCHANGED ver \/ \E pc \in AtFollows : ver' = Goes(v, pc)
    BY FollowsFrame
  <2>2. UNCHANGED scan \/ \E s \in Scan : scan' = [scan EXCEPT ![v] = s]
    <3>0. \A s, cats, seen : ScansTo(v, s, cats, seen) => scan' = [scan EXCEPT ![v] = s]
      BY DEF ScansTo
    <3>1. Redundant(v) \in SUBSET Cats /\ FollowedBy(ver[v].phone) \in SUBSET Cats /\ scan[v].seen \in SUBSET Cats
      BY <1>s DEF Redundant, FollowedBy, Scan
    <3>2. CASE DeleteRedundantDeviceFollows(v)
      <4>1. Visits(v, Redundant(v), FollowedBy(ver[v].phone))
        BY <3>2 DEF DeleteRedundantDeviceFollows
      <4> QED BY <3>0, <3>1, <4>1, VisitsScan
    <3>3. CASE BackfillFollowsUserID(v)
      <4> DEFINE left == {k \in Cats : <<ver[v].dev, k>> \in guest /\ rowLock[<<ver[v].dev, k>>] # v}
      <4>1. Visits(v, left, scan[v].seen) /\ left \in SUBSET Cats
        BY <3>3 DEF BackfillFollowsUserID
      <4> HIDE DEF left
      <4> QED BY <3>0, <3>1, <4>1, VisitsScan
    <3>4. CASE DeleteRow(v) \/ OwnRow(v) \/ EnterKey(v)
      BY <3>0, <3>4, <1>p DEF DeleteRow, OwnRow, EnterKey
    <3> QED BY <3>2, <3>3, <3>4 DEF FollowsStep
  <2> QED BY <1>q, <2>1, <2>2
<1>1. CASE DeleteRedundantDeviceFollows(v)
  <2>1. Redundant(v) \in SUBSET Cats /\ FollowedBy(ver[v].phone) \in SUBSET Cats
    BY DEF Redundant, FollowedBy
  <2>2. PICK s \in Scan : ScansTo(v, s, Redundant(v), FollowedBy(ver[v].phone))
    <3>1. Visits(v, Redundant(v), FollowedBy(ver[v].phone))
      BY <1>1 DEF DeleteRedundantDeviceFollows
    <3> QED BY <2>1, <3>1, VisitsScan
  <2> USE DEF ScansTo
  <2>3. scan'[v] = s /\ ver'[v].pc = "delete" /\ ver'[v].dev = ver[v].dev
    BY <1>1, <1>w, <2>2 DEF TypeOK, DeleteRedundantDeviceFollows, AtFollows
  <2>4. UNCHANGED <<rowLock, keyLock>> /\ ver[v].pc = "backfill"
    BY <1>1 DEF DeleteRedundantDeviceFollows
  <2>5. OthersKept(v)
    BY <1>g, <1>m, <2>4 DEF OthersKept
  <2>6. ScanOf(v)'
    BY <1>g, <2>2, <2>3 DEF ScanOf, Redundant, FollowedBy
  <2> QED BY <2>4, <2>5, <2>6, HoldsNoFollow, FollowsKept DEF AtFollows
<1>2. CASE DeleteRow(v)
  <2> DEFINE k0 == scan[v].at
             d0 == ver[v].dev
  <2>1. /\ ver[v].pc = "delete" /\ UNCHANGED <<keyLock, ver>> /\ Passes(v) /\ k0 # None
        /\ rowLock[Row(v)] = None
        /\ rowLock' = IF Row(v) \in guest THEN [rowLock EXCEPT ![Row(v)] = v] ELSE rowLock
    BY <1>2 DEF DeleteRow
  <2>2. PICK s \in Scan : ScansTo(v, s, scan[v].todo \ {scan[v].at}, scan[v].seen)
    BY <1>p, <2>1
  <2> USE DEF ScansTo
  <2>3. Row(v) = <<d0, k0>> /\ k0 \in Cats /\ k0 \in scan[v].todo /\ scan'[v] = s
    BY <1>v, <1>s, <2>1, <2>2, RowAndKey DEF ScanOf, TypeOK
  <2>4. \A d \in Devices, k \in Cats :
           rowLock'[<<d, k>>] = IF d = d0 /\ k = k0 /\ <<d0, k0>> \in guest THEN v ELSE rowLock[<<d, k>>]
    BY <1>v, <2>1, <2>3 DEF TypeOK
  <2>5. OthersKept(v)
    BY <1>g, <1>m, <2>1, <2>3, <2>4 DEF OthersKept
  <2>6. ASSUME NEW d \in Devices, NEW k \in Cats, rowLock'[<<d, k>>] = v PROVE RowOf(v, d, k)'
    <3>1. CASE d = d0 /\ k = k0 /\ <<d0, k0>> \in guest
      <4>1. k0 \in scan[v].seen
        BY <1>s, <2>1, <2>3 DEF ScanOf
      <4> QED BY <1>g, <2>1, <2>2, <2>3, <3>1, <4>1 DEF RowOf, AtFollows
    <3>2. CASE rowLock[<<d, k>>] = v
      BY <1>g, <2>1, <2>2, <2>3, <3>2 DEF FollowsInv, RowOf, AtFollows
    <3> QED BY <2>4, <2>6, <3>1, <3>2
  <2>7. ASSUME NEW p \in Phones, NEW k \in Cats, keyLock'[<<p, k>>] = v PROVE KeyOf(v, p, k)'
    BY <2>1, <2>7 DEF FollowsInv, KeyOf
  <2>8. ScanOf(v)'
    BY <1>g, <1>s, <1>v, <2>1, <2>2, <2>3, <2>4 DEF ScanOf, Scan
  <2> QED BY <2>5, <2>6, <2>7, <2>8, FollowsKept
<1>3. CASE BackfillFollowsUserID(v)
  <2> DEFINE left == {k \in Cats : <<ver[v].dev, k>> \in guest /\ rowLock[<<ver[v].dev, k>>] # v}
  <2>1. /\ Visits(v, left, scan[v].seen) /\ left \in SUBSET Cats /\ scan[v].seen \in SUBSET Cats
        /\ ver[v].pc = "delete" /\ scan[v].at = None /\ ver' = Goes(v, "follows")
        /\ UNCHANGED <<rowLock, keyLock>>
    BY <1>3, <1>s DEF BackfillFollowsUserID, Scan
  <2>2. \A k \in Cats : k \in left <=> <<ver[v].dev, k>> \in guest /\ rowLock[<<ver[v].dev, k>>] # v
    OBVIOUS
  <2> HIDE DEF left
  <2>3. PICK s \in Scan : ScansTo(v, s, left, scan[v].seen)
    BY <2>1, VisitsScan
  <2> USE DEF ScansTo
  <2>4. scan'[v] = s /\ ver'[v].pc = "follows" /\ ver'[v].dev = ver[v].dev /\ ver'[v].phone = ver[v].phone
    BY <1>w, <2>1, <2>3 DEF TypeOK, AtFollows
  <2>5. scan[v].todo = {}
    BY <1>s, <2>1, NoneAssumption DEF ScanOf, Scan
  <2>6. left \cap scan[v].seen = {}
    BY <1>s, <2>1, <2>2, <2>5 DEF ScanOf
  <2>7. OthersKept(v)
    BY <1>g, <1>m, <2>1 DEF OthersKept
  <2>8. ASSUME NEW d \in Devices, NEW k \in Cats, rowLock'[<<d, k>>] = v PROVE RowOf(v, d, k)'
    <3>1. RowOf(v, d, k) /\ rowLock[<<d, k>>] = v
      BY <2>1, <2>8 DEF FollowsInv
    <3> QED BY <1>g, <2>1, <2>2, <2>3, <2>4, <3>1 DEF RowOf, AtFollows
  <2>9. ASSUME NEW p \in Phones, NEW k \in Cats, keyLock'[<<p, k>>] = v PROVE KeyOf(v, p, k)'
    BY <2>1, <2>9 DEF FollowsInv, KeyOf
  <2>10. ScanOf(v)'
    BY <2>3, <2>4, <2>6 DEF ScanOf
  <2> QED BY <2>7, <2>8, <2>9, <2>10, FollowsKept
<1>4. CASE OwnRow(v)
  <2> DEFINE k0 == scan[v].at
             d0 == ver[v].dev
  <2>1. /\ ver[v].pc = "follows" /\ k0 # None /\ rowLock[Row(v)] = None /\ UNCHANGED keyLock
        /\ IF Row(v) \in guest
           THEN rowLock' = [rowLock EXCEPT ![Row(v)] = v] /\ ver' = Goes(v, "key") /\ UNCHANGED scan
           ELSE Passes(v) /\ UNCHANGED <<rowLock, ver>>
    BY <1>4 DEF OwnRow
  <2>2. Row(v) = <<d0, k0>> /\ k0 \in Cats /\ k0 \in scan[v].todo
    BY <1>v, <1>s, <2>1, RowAndKey DEF ScanOf
  <2>3. CASE Row(v) \in guest
    <3>0. ver'[v].pc = "key" /\ ver'[v].dev = d0 /\ ver'[v].phone = ver[v].phone /\ UNCHANGED scan
      BY <1>w, <2>1, <2>3 DEF AtFollows
    <3>1. /\ ver'[v].pc = "key" /\ ver'[v].dev = d0 /\ ver'[v].phone = ver[v].phone /\ UNCHANGED scan
          /\ \A d \in Devices, k \in Cats : rowLock'[<<d, k>>] = IF d = d0 /\ k = k0 THEN v ELSE rowLock[<<d, k>>]
      <4>1. rowLock' = [rowLock EXCEPT ![<<d0, k0>>] = v]
        BY <2>1, <2>2, <2>3
      <4>2. \A d \in Devices, k \in Cats : rowLock'[<<d, k>>] = IF d = d0 /\ k = k0 THEN v ELSE rowLock[<<d, k>>]
        BY <1>v, <2>2, <4>1 DEF TypeOK
      <4> QED BY <3>0, <4>2
    <3>2. OthersKept(v)
      BY <1>g, <1>m, <2>1, <2>2, <3>1 DEF OthersKept
    <3>3. ASSUME NEW d \in Devices, NEW k \in Cats, rowLock'[<<d, k>>] = v PROVE RowOf(v, d, k)'
      <4>1. CASE d = d0 /\ k = k0
        BY <1>g, <2>2, <2>3, <3>1, <4>1 DEF RowOf, AtFollows
      <4>2. CASE ~(d = d0 /\ k = k0)
        <5>1. RowOf(v, d, k)
          BY <3>1, <3>3, <4>2 DEF FollowsInv
        <5> QED BY <1>g, <2>1, <3>1, <5>1 DEF RowOf, AtFollows
      <4> QED BY <4>1, <4>2
    <3>4. ASSUME NEW p \in Phones, NEW k \in Cats, keyLock'[<<p, k>>] = v PROVE KeyOf(v, p, k)'
      BY <2>1, <3>1, <3>4 DEF FollowsInv, KeyOf
    <3>5. ScanOf(v)'
      BY <1>s, <2>1, <3>1 DEF ScanOf
    <3> QED BY <3>2, <3>3, <3>4, <3>5, FollowsKept
  <2>4. CASE Row(v) \notin guest
    <3>1. PICK s \in Scan : ScansTo(v, s, scan[v].todo \ {scan[v].at}, scan[v].seen)
      BY <1>p, <2>1, <2>4
    <3> USE DEF ScansTo
    <3>2. scan'[v] = s /\ UNCHANGED <<rowLock, ver>>
      BY <2>1, <2>4, <3>1 DEF TypeOK
    <3>3. OthersKept(v)
      BY <1>g, <1>m, <2>1, <3>2 DEF OthersKept
    <3>4. ASSUME NEW d \in Devices, NEW k \in Cats, rowLock'[<<d, k>>] = v PROVE RowOf(v, d, k)'
      <4>1. RowOf(v, d, k)
        BY <3>2, <3>4 DEF FollowsInv
      <4> QED BY <1>g, <2>1, <3>1, <3>2, <4>1 DEF RowOf, AtFollows
    <3>5. ASSUME NEW p \in Phones, NEW k \in Cats, keyLock'[<<p, k>>] = v PROVE KeyOf(v, p, k)'
      BY <2>1, <3>1, <3>2, <3>5 DEF FollowsInv, KeyOf
    <3>6. ScanOf(v)'
      BY <1>s, <2>1, <3>1, <3>2 DEF ScanOf
    <3> QED BY <3>3, <3>4, <3>5, <3>6, FollowsKept
  <2> QED BY <2>3, <2>4
<1>5. CASE EnterKey(v)
  <2> DEFINE k0 == scan[v].at
             p0 == ver[v].phone
  <2>1. /\ ver[v].pc = "key" /\ keyLock[Key(v)] = None /\ UNCHANGED rowLock
        /\ keyLock' = [keyLock EXCEPT ![Key(v)] = v] /\ Passes(v) /\ ver' = Goes(v, "follows")
    BY <1>5 DEF EnterKey
  <2>2. k0 # None
    BY <1>s, <2>1 DEF ScanOf
  <2>3. Key(v) = <<p0, k0>> /\ k0 \in Cats /\ k0 \in scan[v].todo
    BY <1>v, <1>s, <2>2, RowAndKey DEF ScanOf
  <2>4. PICK s \in Scan : ScansTo(v, s, scan[v].todo \ {scan[v].at}, scan[v].seen)
    BY <1>p, <2>1
  <2> USE DEF ScansTo
  <2>5. /\ scan'[v] = s /\ ver'[v].pc = "follows" /\ ver'[v].dev = ver[v].dev /\ ver'[v].phone = p0
        /\ \A p \in Phones, k \in Cats : keyLock'[<<p, k>>] = IF p = p0 /\ k = k0 THEN v ELSE keyLock[<<p, k>>]
    BY <1>v, <1>w, <2>1, <2>3, <2>4 DEF TypeOK, AtFollows
  <2>6. OthersKept(v)
    BY <1>g, <1>m, <2>1, <2>3, <2>5 DEF OthersKept
  <2>7. ASSUME NEW d \in Devices, NEW k \in Cats, rowLock'[<<d, k>>] = v PROVE RowOf(v, d, k)'
    <3>1. RowOf(v, d, k)
      BY <2>1, <2>7 DEF FollowsInv
    <3> QED BY <1>g, <1>v, <2>1, <2>3, <2>4, <2>5, <3>1 DEF RowOf, AtFollows
  <2>8. ASSUME NEW p \in Phones, NEW k \in Cats, keyLock'[<<p, k>>] = v PROVE KeyOf(v, p, k)'
    <3>1. CASE p = p0 /\ k = k0
      BY <2>4, <2>5, <3>1 DEF KeyOf
    <3>2. CASE ~(p = p0 /\ k = k0)
      <4>1. KeyOf(v, p, k)
        BY <2>5, <2>8, <3>2 DEF FollowsInv
      <4> QED BY <2>4, <2>5, <4>1 DEF KeyOf
    <3> QED BY <3>1, <3>2
  <2>9. ScanOf(v)'
    BY <1>s, <2>1, <2>4, <2>5 DEF ScanOf
  <2> QED BY <2>6, <2>7, <2>8, <2>9, FollowsKept
<1> QED BY <1>1, <1>2, <1>3, <1>4, <1>5 DEF FollowsStep

\* The last statement finds the follows done (BackfillUpdatesAuthorUserID).
LEMMA FollowsDone ==
    ASSUME TypeOK, TypeOK', Asked, FollowsInv, NEW v \in Verifies, BackfillUpdatesAuthorUserID(v)
    PROVE  FollowsInv'
<1>1. /\ ver[v].pc = "follows" /\ scan[v].at = None /\ ver' = Goes(v, "issue")
      /\ UNCHANGED <<rowLock, keyLock, scan, guest>>
  BY DEF BackfillUpdatesAuthorUserID, backfill, tables
<1>2. PICK w : Moves(v, w) /\ Same(v, w) /\ w.pc = "issue"
  BY <1>1, GoesFields DEF InTx
<1>3. scan[v] \in Scan /\ ScanOf(v)
  BY DEF TypeOK, FollowsInv
<1>4. scan[v].todo = {}
  BY <1>1, <1>3, NoneAssumption DEF ScanOf, Scan
<1>5. OthersKept(v)
  BY <1>1, <1>2 DEF OthersKept, Moves
<1>6. /\ \A d \in Devices, k \in Cats : rowLock[<<d, k>>] = v => RowOf(v, d, k)
      /\ \A p \in Phones, k \in Cats : keyLock[<<p, k>>] = v => KeyOf(v, p, k)
  BY DEF FollowsInv
<1>7. \A d \in Devices, k \in Cats : rowLock'[<<d, k>>] = v => RowOf(v, d, k)'
  BY <1>1, <1>2, <1>4, <1>6 DEF RowOf, Moves, Same
<1>8. \A p \in Phones, k \in Cats : keyLock'[<<p, k>>] = v => KeyOf(v, p, k)'
  BY <1>1, <1>2, <1>6 DEF KeyOf, Moves, Same
<1>9. ScanOf(v)'
  BY <1>1, <1>2, <1>3 DEF ScanOf, Moves
<1> QED BY <1>5, <1>7, <1>8, <1>9, FollowsKept

\* Every step keeps the invariant of the follows.
LEMMA FollowsInvStep == IInv /\ Asked /\ FollowsInv /\ [Next]_vars => FollowsInv'
<1> SUFFICES ASSUME IInv, Asked, FollowsInv, [Next]_vars PROVE FollowsInv'
  OBVIOUS
<1>t. TypeOK /\ TypeOK'
  BY NextInv DEF IInv, Typed
<1>u. ASSUME UNCHANGED <<ver, rowLock, keyLock, scan, guest>> PROVE FollowsInv'
  BY <1>u DEF FollowsInv, RowOf, KeyOf, ScanOf
<1>o. ASSUME NEW v \in Verifies, UNCHANGED <<locks, guest>> \/ UNCHANGED <<backfill, guest>>,
             ver[v].pc \notin AtFollows \cup {"issue"},
             \E w : Moves(v, w) /\ w.pc \notin AtFollows \cup {"issue"}
      PROVE  FollowsInv'
  BY <1>t, <1>o, FollowsOutside DEF locks, backfill
<1>e. ASSUME NEW v \in Verifies, NEW a \in {"session", "401", "410", "409", "500", "lost"},
             ver' = Answered(v, a), Release(v), UNCHANGED guest \/ guest' = {r \in guest : rowLock[r] # v}
      PROVE  FollowsInv'
  <2>1. PICK w : Moves(v, w) /\ w.pc = "done"
    BY <1>t, <1>e, AnsweredFields
  <2> QED BY <1>t, <1>e, <2>1, FollowsEnd
<1>a. ASSUME NEW v \in Verifies, NEW a \in {"session", "401", "410", "409", "500", "lost"}, ver' = Answered(v, a)
      PROVE  \E w : Moves(v, w) /\ w.pc \notin AtFollows \cup {"issue"}
  <2>1. PICK w : Moves(v, w) /\ w.pc = "done"
    BY <1>t, <1>a, AnsweredFields
  <2> QED BY <2>1 DEF AtFollows
<1>g. ASSUME NEW v \in Verifies, NEW pc \in {"consuming", "resolve", "device", "insert", "link", "backfill"},
             ver' = Goes(v, pc)
      PROVE  \E w : Moves(v, w) /\ w.pc \notin AtFollows \cup {"issue"}
  <2>1. PICK w : Moves(v, w) /\ w.pc = pc
    BY <1>t, <1>g, GoesFields DEF InTx
  <2> QED BY <2>1 DEF AtFollows
<1>1. ASSUME NEW v \in Verifies, IncrementOtpAttempts(v) \/ SnapshotCode(v) PROVE FollowsInv'
  <2>1. /\ UNCHANGED <<locks, guest>> /\ ver[v].pc \notin AtFollows \cup {"issue"}
        /\ \/ ver' = Goes(v, "consuming")
           \/ \E a \in {"401", "410"} : ver' = Answered(v, a)
    BY <1>1 DEF IncrementOtpAttempts, SnapshotCode, AtFollows, tables
  <2> QED BY <1>a, <1>g, <1>o, <2>1
<1>2. ASSUME NEW v \in Verifies, ConsumeOtpCode(v) \/ CreateUser(v) \/ LinkDeviceToUser(v) PROVE FollowsInv'
  <2>1. /\ UNCHANGED <<backfill, guest>> /\ ver[v].pc \notin AtFollows \cup {"issue"}
        /\ \/ \E pc \in {"resolve", "device", "backfill"} : ver' = Goes(v, pc)
           \/ ver' = Answered(v, "410")
    BY <1>2 DEF ConsumeOtpCode, CreateUser, LinkDeviceToUser, AtFollows, tables
  <2> QED BY <1>a, <1>g, <1>o, <2>1
<1>3. ASSUME NEW v \in Verifies, GetUserByPhone(v) PROVE FollowsInv'
  <2>1. /\ UNCHANGED <<locks, guest>> /\ ver[v].pc \notin AtFollows \cup {"issue"}
        /\ \E pc \in {"device", "insert"} : ver' = Goes(v, pc)
    BY <1>3 DEF GetUserByPhone, AtFollows, tables
  <2> QED BY <1>g, <1>o, <2>1
<1>4. ASSUME NEW v \in Verifies, GetDeviceByID(v) PROVE FollowsInv'
  <2>1. CASE UNCHANGED <<locks, guest>> /\ \E pc \in {"link", "backfill"} : ver' = Goes(v, pc)
    <3>1. ver[v].pc \notin AtFollows \cup {"issue"}
      BY <1>4 DEF GetDeviceByID, AtFollows
    <3> QED BY <1>g, <1>o, <2>1, <3>1
  <2>2. CASE ver' = Answered(v, "409") /\ Release(v) /\ UNCHANGED guest
    BY <1>e, <2>2
  <2> QED BY <1>4, <2>1, <2>2 DEF GetDeviceByID, tables
<1>5. ASSUME NEW v \in Verifies, CreateUserConflict(v) \/ KeyConflict(v) \/ Rollback(v) \/ DeadlockVictim(v)
      PROVE  FollowsInv'
  BY <1>e, <1>5 DEF CreateUserConflict, KeyConflict, Rollback, DeadlockVictim, tables
<1>6. ASSUME NEW v \in Verifies, CommitSession(v) PROVE FollowsInv'
  BY <1>e, <1>6 DEF CommitSession, Writes
<1>7. ASSUME NEW v \in Verifies, FollowsStep(v) \/ BackfillUpdatesAuthorUserID(v) PROVE FollowsInv'
  BY <1>t, <1>7, FollowsOn, FollowsDone
<1>8. ASSUME NEW v \in Verifies, NEW p \in Phones, NEW d \in Devices, NEW b \in BOOLEAN,
             ReadLatest(v, p, d, b) \/ CheckVerification(v, p, d, b)
      PROVE  FollowsInv'
  <2>1. PICK w : Moves(v, w) /\ ver[v].pc = "new" /\ w.pc \in {"done", "right", "wrong", "resolve"}
    BY <1>t, <1>8, ReadFields, CheckFields
  <2>2. UNCHANGED <<locks, guest>>
    BY <1>8 DEF ReadLatest, CheckVerification, tables
  <2> QED BY <1>o, <2>1, <2>2 DEF AtFollows
<1>9. CASE UNCHANGED <<locks, guest, ver>>
  BY <1>u, <1>9 DEF locks, backfill
<1> QED BY <1>1, <1>2, <1>3, <1>4, <1>5, <1>6, <1>7, <1>8, <1>9
        DEF Next, Step, vars, tables, CreateOtpCode, Age, RequestOTP, UnlinkDevice, CreateFollow, DeleteFollow

\* At the start no row, no key and no scan is anybody's.
LEMMA FollowsStart == Init => Asked /\ FollowsInv
BY NoneAssumption DEF Init, Asked, FollowsInv, ScanOf, NoScan, NoVerify

\* A unique violation in follows_user_cat_uq is always the work of another request of the
\* account since its duplicates were read, for any number of verifications, devices and
\* cats (DeleteRedundantDeviceFollows before BackfillFollowsUserID).
THEOREM ClashIsARace == Spec => []ClashNeedsRace
<1>1. FollowsInv => ClashNeedsRace
  <2> SUFFICES ASSUME FollowsInv, NEW v \in Verifies, ver[v].pc = "key" PROVE scan[v].at \notin scan[v].seen
    BY DEF ClashNeedsRace
  <2>1. ScanOf(v)
    BY DEF FollowsInv
  <2>2. scan[v].at \in scan[v].todo /\ scan[v].todo \cap scan[v].seen = {}
    BY <2>1 DEF ScanOf
  <2> QED BY <2>2
<1>2. IInv => TypeOK
  BY DEF IInv, Typed
<1> QED BY <1>1, <1>2, InitInv, NextInv, FollowsStart, AskedStep, FollowsInvStep, PTL DEF Spec

----------------------------------------------------------------------------
(* Content keeps its owner *)

\* The backfill's locks stay on unowned rows (BackfillFollowsUserID, BackfillUpdatesAuthorUserID).
LEMMA UnownedStep == TypeOK /\ UnownedLocked /\ [Next]_vars => UnownedLocked'
<1> SUFFICES ASSUME TypeOK, UnownedLocked, [Next]_vars PROVE UnownedLocked'
  OBVIOUS
<1>1. CASE UNCHANGED <<content, contentLock>>
  BY <1>1 DEF UnownedLocked
<1>2. ASSUME NEW v \in Verifies, Release(v), UNCHANGED content PROVE UnownedLocked'
  BY <1>2, ReleaseType DEF UnownedLocked
<1>3. ASSUME NEW v \in Verifies, CommitSession(v) PROVE UnownedLocked'
  <2>1. \A d \in Devices : contentLock'[d] = IF contentLock[d] = v THEN None ELSE contentLock[d]
    BY <1>3, ReleaseType DEF CommitSession
  <2>2. \A d \in Devices : contentLock[d] # v => content'[d] = content[d]
    BY <1>3 DEF CommitSession, Writes
  <2> QED BY <2>1, <2>2 DEF UnownedLocked
<1>4. ASSUME NEW v \in Verifies, BackfillUpdatesAuthorUserID(v) PROVE UnownedLocked'
  BY <1>4 DEF BackfillUpdatesAuthorUserID, Unowned, UnownedLocked, TypeOK, tables
<1>5. ASSUME NEW v \in Verifies, GetDeviceByID(v) PROVE UnownedLocked'
  BY <1>1, <1>2, <1>5 DEF GetDeviceByID, locks, tables
<1>6. ASSUME NEW v \in Verifies, CreateUserConflict(v) \/ KeyConflict(v) \/ Rollback(v) \/ DeadlockVictim(v)
      PROVE  UnownedLocked'
  BY <1>2, <1>6 DEF CreateUserConflict, KeyConflict, Rollback, DeadlockVictim, tables
<1>7. ASSUME NEW v \in Verifies, FollowsStep(v) PROVE UnownedLocked'
  BY <1>1, <1>7, FollowsFrame DEF tables
<1>8. ASSUME NEW v \in Verifies,
             \/ IncrementOtpAttempts(v) \/ SnapshotCode(v) \/ ConsumeOtpCode(v)
             \/ GetUserByPhone(v) \/ CreateUser(v) \/ LinkDeviceToUser(v)
      PROVE  UnownedLocked'
  BY <1>1, <1>8 DEF IncrementOtpAttempts, SnapshotCode, ConsumeOtpCode, GetUserByPhone, CreateUser,
                    LinkDeviceToUser, locks, tables
<1>9. ASSUME NEW v \in Verifies, Step(v) \/ Rollback(v) \/ DeadlockVictim(v) PROVE UnownedLocked'
  BY <1>3, <1>4, <1>5, <1>6, <1>7, <1>8, <1>9 DEF Step
<1> QED BY <1>1, <1>9 DEF Next, vars, locks, tables, CreateOtpCode, Age, RequestOTP, ReadLatest,
           CheckVerification, UnlinkDevice, CreateFollow, DeleteFollow

\* Only a commit changes whose the content of a device is and ends follows of the guest era.
LEMMA ContentFrame ==
    ASSUME TypeOK, [Next]_vars, \A v \in Verifies : ~CommitSession(v)
    PROVE  UNCHANGED <<content, guest>>
<1>1. ASSUME NEW v \in Verifies, FollowsStep(v) PROVE UNCHANGED <<content, guest>>
  BY <1>1, FollowsFrame DEF tables
<1>2. ASSUME NEW v \in Verifies,
             \/ IncrementOtpAttempts(v) \/ SnapshotCode(v) \/ ConsumeOtpCode(v)
             \/ GetUserByPhone(v) \/ CreateUser(v) \/ LinkDeviceToUser(v)
             \/ CreateUserConflict(v) \/ GetDeviceByID(v) \/ KeyConflict(v) \/ BackfillUpdatesAuthorUserID(v)
      PROVE  UNCHANGED <<content, guest>>
  BY <1>2 DEF IncrementOtpAttempts, SnapshotCode, ConsumeOtpCode, GetUserByPhone, CreateUser, LinkDeviceToUser,
              CreateUserConflict, GetDeviceByID, KeyConflict, BackfillUpdatesAuthorUserID, tables
<1>3. ASSUME NEW v \in Verifies, Step(v) \/ Rollback(v) \/ DeadlockVictim(v) PROVE UNCHANGED <<content, guest>>
  BY <1>1, <1>2, <1>3 DEF Step, Rollback, DeadlockVictim, tables
<1> QED BY <1>3 DEF Next, vars, tables, CreateOtpCode, Age, RequestOTP, ReadLatest, CheckVerification,
           UnlinkDevice, CreateFollow, DeleteFollow

\* Content attributed to an account stays with it, whoever signs in on the device later
\* ("never retroactively re-attributed to a second account"), and a sign-in that ends a
\* follow of the guest era leaves its account following the cat, unless the account
\* unfollowed it meanwhile.
THEOREM OwnerKept == Spec => ContentKeepsOwner
<1>1. Init => UnownedLocked
  BY DEF Init, UnownedLocked
<1>2. IInv /\ Asked /\ FollowsInv /\ UnownedLocked /\ [Next]_vars
         => [/\ \A d \in Devices : content[d] # None => content'[d] = content[d]
             /\ \A r \in guest \ guest' : \E v \in Verifies :
                   /\ ver[v].dev = r[1] /\ ver'[v].answer = "session" /\ ver[v].answer = "none"
                   /\ <<ver[v].phone, r[2]>> \in owned' \/ r[2] \in scan[v].seen]_vars
  <2> SUFFICES ASSUME IInv, Asked, FollowsInv, UnownedLocked, [Next]_vars,
                      NEW v \in Verifies, CommitSession(v)
               PROVE  /\ \A d \in Devices : content[d] # None => content'[d] = content[d]
                      /\ \A r \in guest \ guest' :
                            /\ ver[v].dev = r[1] /\ ver'[v].answer = "session" /\ ver[v].answer = "none"
                            /\ <<ver[v].phone, r[2]>> \in owned' \/ r[2] \in scan[v].seen
    BY ContentFrame DEF IInv, Typed
  <2>1. \A d \in Devices : content[d] # None => content'[d] = content[d]
    BY NoneAssumption DEF CommitSession, Writes, UnownedLocked
  <2>2. TypeOK /\ ver[v].pc = "issue" /\ ver[v].answer = "none" /\ ver'[v].answer = "session" /\ ver[v].phone \in Phones
    <3>1. TypeOK /\ ver[v].pc = "issue" /\ ver[v].answer = "none" /\ ver' = Answered(v, "session")
      BY DEF CommitSession, IInv, Typed, Progress
    <3> QED BY <3>1, AnsweredFields DEF Moves, Asked
  <2>3. ASSUME NEW r \in guest \ guest'
        PROVE  ver[v].dev = r[1] /\ (<<ver[v].phone, r[2]>> \in owned' \/ r[2] \in scan[v].seen)
    <3>1. PICK d \in Devices, k \in Cats : r = <<d, k>>
      BY <2>2 DEF TypeOK
    <3>2. rowLock[<<d, k>>] = v
      BY <3>1 DEF CommitSession, Writes
    <3>3. RowOf(v, d, k)
      BY <3>2 DEF FollowsInv
    <3>4. keyLock[<<ver[v].phone, k>>] = v => <<ver[v].phone, k>> \in owned'
      BY <2>2 DEF CommitSession, Writes
    <3> QED BY <2>2, <3>1, <3>3, <3>4 DEF RowOf
  <2> QED BY <2>1, <2>2, <2>3
<1>3. IInv => TypeOK
  BY DEF IInv, Typed
<1> QED BY <1>1, <1>2, <1>3, InitInv, NextInv, FollowsStart, AskedStep, FollowsInvStep, UnownedStep, PTL
        DEF Spec, ContentKeepsOwner

----------------------------------------------------------------------------
(* The order of the locks *)

\* The places after LinkDeviceToUser.
Linked == {"backfill", "delete", "follows", "key", "issue"}

\* A verification holds a row only after the statement that takes it, so code, phone,
\* device and update rows are taken in one order.
TakenInOrder == \A v \in Verifies :
    /\ \A c \in Codes : codeLock[c] = v => ver[v].pc \in InTx
    /\ \A p \in Phones : userLock[p] = v => ver[v].pc \in {"device", "link"} \cup Linked
    /\ \A d \in Devices : linkLock[d] = v => ver[v].pc \in Linked
    /\ \A d \in Devices : contentLock[d] = v => ver[v].pc = "issue"

\* A verification goes on, or ends, and takes at most the rows that its new place allows.
LEMMA OrderKept ==
    ASSUME TypeOK, TakenInOrder, NEW v \in Verifies, NEW w, Moves(v, w),
           \A c \in Codes : codeLock'[c] \in {codeLock[c], None, v}
                            /\ (codeLock'[c] = v => w.pc \in InTx),
           \A p \in Phones : userLock'[p] \in {userLock[p], None, v}
                            /\ (userLock'[p] = v => w.pc \in {"device", "link"} \cup Linked),
           \A d \in Devices : linkLock'[d] \in {linkLock[d], None, v}
                            /\ (linkLock'[d] = v => w.pc \in Linked),
           \A d \in Devices : contentLock'[d] \in {contentLock[d], None, v}
                            /\ (contentLock'[d] = v => w.pc = "issue")
    PROVE  TakenInOrder'
<1> SUFFICES ASSUME NEW u \in Verifies
             PROVE  /\ \A c \in Codes : codeLock'[c] = u => ver'[u].pc \in InTx
                    /\ \A p \in Phones : userLock'[p] = u => ver'[u].pc \in {"device", "link"} \cup Linked
                    /\ \A d \in Devices : linkLock'[d] = u => ver'[u].pc \in Linked
                    /\ \A d \in Devices : contentLock'[d] = u => ver'[u].pc = "issue"
  BY DEF TakenInOrder
<1>1. CASE u = v
  BY <1>1 DEF Moves
<1>2. CASE u # v
  BY <1>2, NoneAssumption DEF Moves, TakenInOrder
<1> QED BY <1>1, <1>2

\* A verification that ends holds nothing: WithinTx released it, or it held nothing before.
LEMMA OrderEnds ==
    ASSUME TypeOK, TakenInOrder, NEW v \in Verifies,
           NEW a \in {"session", "401", "410", "409", "500", "lost"}, ver' = Answered(v, a),
           Release(v) \/ (UNCHANGED locks /\ ver[v].pc \notin InTx)
    PROVE  TakenInOrder'
<1>1. PICK w : Moves(v, w) /\ w.pc = "done"
  BY AnsweredFields
<1>2. CASE Release(v)
  <2>1. /\ \A c \in Codes : codeLock'[c] = IF codeLock[c] = v THEN None ELSE codeLock[c]
        /\ \A p \in Phones : userLock'[p] = IF userLock[p] = v THEN None ELSE userLock[p]
        /\ \A d \in Devices : linkLock'[d] = IF linkLock[d] = v THEN None ELSE linkLock[d]
        /\ \A d \in Devices : contentLock'[d] = IF contentLock[d] = v THEN None ELSE contentLock[d]
    BY <1>2 DEF Release, Released, TypeOK
  <2>2. None # v
    BY NoneAssumption
  <2> QED BY <1>1, <2>1, <2>2, OrderKept
<1>3. CASE UNCHANGED locks /\ ver[v].pc \notin InTx
  <2>1. /\ \A c \in Codes : codeLock'[c] = codeLock[c] /\ codeLock[c] # v
        /\ \A p \in Phones : userLock'[p] = userLock[p] /\ userLock[p] # v
        /\ \A d \in Devices : linkLock'[d] = linkLock[d] /\ linkLock[d] # v
        /\ \A d \in Devices : contentLock'[d] = contentLock[d] /\ contentLock[d] # v
    BY <1>3 DEF TakenInOrder, locks, InTx, Linked
  <2> QED BY <1>1, <2>1, OrderKept
<1> QED BY <1>2, <1>3

\* A statement that takes no row.
LEMMA OrderGoes ==
    ASSUME TypeOK, TakenInOrder, NEW v \in Verifies, NEW w, Moves(v, w),
           UNCHANGED <<codeLock, userLock, linkLock, contentLock>>,
           \/ ver[v].pc \notin InTx
           \/ ver[v].pc = "resolve" /\ w.pc \in InTx
           \/ ver[v].pc = "device" /\ w.pc \in {"link", "backfill"}
           \/ ver[v].pc \in Linked \ {"issue"} /\ w.pc \in Linked
    PROVE  TakenInOrder'
<1>1. /\ \A c \in Codes : codeLock'[c] = codeLock[c] /\ (codeLock[c] = v => ver[v].pc \in InTx)
      /\ \A p \in Phones : userLock'[p] = userLock[p]
                           /\ (userLock[p] = v => ver[v].pc \in {"device", "link"} \cup Linked)
      /\ \A d \in Devices : linkLock'[d] = linkLock[d] /\ (linkLock[d] = v => ver[v].pc \in Linked)
      /\ \A d \in Devices : contentLock'[d] = contentLock[d] /\ (contentLock[d] = v => ver[v].pc = "issue")
  BY DEF TakenInOrder
<1>2. CASE ver[v].pc \notin InTx
  BY <1>1, <1>2, OrderKept DEF InTx, Linked
<1>3. CASE ver[v].pc = "resolve" /\ w.pc \in InTx
  BY <1>1, <1>3, OrderKept DEF Linked
<1>4. CASE ver[v].pc = "device" /\ w.pc \in {"link", "backfill"}
  BY <1>1, <1>4, OrderKept DEF InTx, Linked
<1>5. CASE ver[v].pc \in Linked \ {"issue"} /\ w.pc \in Linked
  BY <1>1, <1>5, OrderKept DEF InTx, Linked
<1> QED BY <1>2, <1>3, <1>4, <1>5

\* Every step keeps the order (ConsumeOtpCodeIfValid, CreateUser, LinkDeviceToUser, the backfills).
LEMMA OrderStep == IInv /\ TakenInOrder /\ [Next]_vars => TakenInOrder'
<1> SUFFICES ASSUME IInv, TakenInOrder, [Next]_vars PROVE TakenInOrder'
  OBVIOUS
<1>t. TypeOK /\ (\A v \in Verifies : v # None)
  BY NoneAssumption DEF IInv, Typed
<1>u. ASSUME UNCHANGED <<codeLock, userLock, linkLock, contentLock, ver>> PROVE TakenInOrder'
  BY <1>u DEF TakenInOrder
<1>1. ASSUME NEW v \in Verifies, IncrementOtpAttempts(v) PROVE TakenInOrder'
  BY <1>1, <1>t, OrderEnds DEF IncrementOtpAttempts, InTx
<1>2. ASSUME NEW v \in Verifies, SnapshotCode(v) PROVE TakenInOrder'
  <2>1. UNCHANGED locks /\ ver[v].pc \notin InTx /\ (ver' = Goes(v, "consuming") \/ ver' = Answered(v, "410"))
    BY <1>2 DEF SnapshotCode, InTx
  <2>2. CASE ver' = Goes(v, "consuming")
    BY <2>1, <2>2, <1>t, GoesFields, OrderGoes DEF locks
  <2>3. CASE ver' = Answered(v, "410")
    BY <2>1, <2>3, <1>t, OrderEnds
  <2> QED BY <2>1, <2>2, <2>3
<1>3. ASSUME NEW v \in Verifies, ConsumeOtpCode(v) PROVE TakenInOrder'
  <2>1. ver[v].pc \notin InTx /\ UNCHANGED <<userLock, linkLock, contentLock>>
    BY <1>3 DEF ConsumeOtpCode, InTx
  <2>2. CASE ver' = Answered(v, "410") /\ UNCHANGED codeLock
    <3>1. UNCHANGED locks
      BY <1>3, <2>2 DEF ConsumeOtpCode, locks
    <3> QED BY <2>1, <2>2, <3>1, <1>t, OrderEnds
  <2>3. CASE ver' = Goes(v, "resolve") /\ codeLock' = [codeLock EXCEPT ![ver[v].code] = v]
    <3>1. PICK w : Moves(v, w) /\ w.pc = "resolve"
      BY <2>3, <1>t, GoesFields DEF InTx
    <3>2. \A c \in Codes : codeLock'[c] \in {codeLock[c], v}
      BY <2>3, <1>t DEF TypeOK
    <3>3. /\ \A p \in Phones : userLock'[p] = userLock[p] /\ userLock[p] # v
          /\ \A d \in Devices : linkLock'[d] = linkLock[d] /\ linkLock[d] # v
          /\ \A d \in Devices : contentLock'[d] = contentLock[d] /\ contentLock[d] # v
      BY <2>1 DEF TakenInOrder, InTx, Linked
    <3> QED BY <3>1, <3>2, <3>3, <1>t, OrderKept DEF InTx
  <2> QED BY <1>3, <2>2, <2>3 DEF ConsumeOtpCode
<1>4. ASSUME NEW v \in Verifies, GetUserByPhone(v) PROVE TakenInOrder'
  <2>1. UNCHANGED locks /\ ver[v].pc = "resolve" /\ (\E pc \in InTx : ver' = Goes(v, pc))
    BY <1>4 DEF GetUserByPhone, InTx
  <2> QED BY <2>1, <1>t, GoesFields, OrderGoes DEF locks
<1>5. ASSUME NEW v \in Verifies, CreateUser(v) PROVE TakenInOrder'
  <2>1. /\ ver[v].pc = "insert" /\ ver' = Goes(v, "device")
        /\ userLock' = [userLock EXCEPT ![ver[v].phone] = v]
        /\ UNCHANGED <<codeLock, linkLock, contentLock>>
    BY <1>5 DEF CreateUser
  <2>2. PICK w : Moves(v, w) /\ w.pc = "device"
    BY <2>1, <1>t, GoesFields DEF InTx
  <2>3. \A p \in Phones : userLock'[p] \in {userLock[p], v}
    BY <2>1, <1>t DEF TypeOK
  <2>4. /\ \A d \in Devices : linkLock'[d] = linkLock[d] /\ linkLock[d] # v
        /\ \A d \in Devices : contentLock'[d] = contentLock[d] /\ contentLock[d] # v
    BY <2>1 DEF TakenInOrder, Linked
  <2> QED BY <2>1, <2>2, <2>3, <2>4, <1>t, OrderKept DEF InTx, Linked
<1>6. ASSUME NEW v \in Verifies, CreateUserConflict(v) \/ KeyConflict(v) \/ Rollback(v) \/ DeadlockVictim(v) \/ CommitSession(v)
      PROVE  TakenInOrder'
  BY <1>6, <1>t, OrderEnds DEF CreateUserConflict, KeyConflict, Rollback, DeadlockVictim, CommitSession
<1>7. ASSUME NEW v \in Verifies, GetDeviceByID(v) PROVE TakenInOrder'
  <2>1. CASE Release(v) /\ ver' = Answered(v, "409")
    BY <2>1, <1>t, OrderEnds
  <2>2. CASE UNCHANGED locks /\ \E pc \in {"link", "backfill"} : ver' = Goes(v, pc)
    <3>1. PICK pc \in {"link", "backfill"} : ver' = Goes(v, pc)
      BY <2>2
    <3>2. PICK w : Moves(v, w) /\ w.pc = pc
      BY <3>1, <1>t, GoesFields DEF InTx
    <3> QED BY <1>7, <2>2, <3>2, <1>t, OrderGoes DEF GetDeviceByID, locks
  <2> QED BY <1>7, <2>1, <2>2 DEF GetDeviceByID
<1>8. ASSUME NEW v \in Verifies, LinkDeviceToUser(v) PROVE TakenInOrder'
  <2>1. /\ ver[v].pc = "link" /\ ver' = Goes(v, "backfill")
        /\ linkLock' = [linkLock EXCEPT ![ver[v].dev] = v]
        /\ UNCHANGED <<codeLock, userLock, contentLock>>
    BY <1>8 DEF LinkDeviceToUser
  <2>2. PICK w : Moves(v, w) /\ w.pc = "backfill"
    BY <2>1, <1>t, GoesFields DEF InTx
  <2>3. \A d \in Devices : linkLock'[d] \in {linkLock[d], v}
    BY <2>1, <1>t DEF TypeOK
  <2>4. \A d \in Devices : contentLock'[d] = contentLock[d] /\ contentLock[d] # v
    BY <2>1 DEF TakenInOrder, Linked
  <2> QED BY <2>1, <2>2, <2>3, <2>4, <1>t, OrderKept DEF InTx, Linked
<1>9. ASSUME NEW v \in Verifies, BackfillUpdatesAuthorUserID(v) PROVE TakenInOrder'
  <2>1. /\ ver' = Goes(v, "issue")
        /\ contentLock' = [contentLock EXCEPT ![ver[v].dev] = v] \/ UNCHANGED contentLock
        /\ UNCHANGED <<codeLock, userLock, linkLock>>
    BY <1>9 DEF BackfillUpdatesAuthorUserID, Unowned
  <2>2. PICK w : Moves(v, w) /\ w.pc = "issue"
    BY <2>1, <1>t, GoesFields DEF InTx
  <2>3. \A d \in Devices : contentLock'[d] \in {contentLock[d], v}
    BY <2>1, <1>t DEF TypeOK
  <2> QED BY <2>1, <2>2, <2>3, <1>t, OrderKept DEF InTx, Linked
<1>10. ASSUME NEW v \in Verifies, NEW p \in Phones, NEW d \in Devices, NEW b \in BOOLEAN,
              ReadLatest(v, p, d, b) \/ CheckVerification(v, p, d, b)
       PROVE  TakenInOrder'
  <2>1. PICK w : Moves(v, w) /\ ver[v].pc = "new"
    BY <1>10, <1>t, ReadFields, CheckFields
  <2>2. UNCHANGED locks
    BY <1>10 DEF ReadLatest, CheckVerification
  <2> QED BY <2>1, <2>2, <1>t, OrderGoes DEF InTx, locks
<1>11. ASSUME NEW c \in Codes, CreateOtpCode(c) \/ Age(c) \/ \E p \in Phones : RequestOTP(c, p)
       PROVE  TakenInOrder'
  BY <1>11, <1>u DEF CreateOtpCode, Age, RequestOTP, locks
<1>12. ASSUME NEW d \in Devices, UnlinkDevice(d) PROVE TakenInOrder'
  BY <1>12, <1>u DEF UnlinkDevice, locks
<1>13. CASE UNCHANGED vars
  BY <1>13, <1>u DEF vars, locks
<1>14. ASSUME NEW v \in Verifies, FollowsStep(v) PROVE TakenInOrder'
  <2>1. UNCHANGED <<codeLock, userLock, linkLock, contentLock>> /\ ver[v].pc \in Linked \ {"issue"}
    BY <1>14, <1>t, FollowsFrame DEF Linked
  <2>2. ASSUME NEW pc \in AtFollows, ver' = Goes(v, pc) PROVE TakenInOrder'
    <3>1. PICK w : Moves(v, w) /\ w.pc = pc
      BY <2>2, <1>t, GoesFields DEF AtFollows, InTx
    <3> QED BY <2>1, <3>1, <1>t, OrderGoes DEF AtFollows, Linked
  <2> QED BY <1>14, <1>t, <1>u, <2>1, <2>2, FollowsFrame
<1>15. ASSUME NEW p \in Phones, NEW k \in Cats, CreateFollow(p, k) \/ DeleteFollow(p, k) PROVE TakenInOrder'
  BY <1>15, <1>u DEF CreateFollow, DeleteFollow, locks
<1>16. ASSUME NEW v \in Verifies, Step(v) \/ Rollback(v) \/ DeadlockVictim(v) PROVE TakenInOrder'
  BY <1>1, <1>2, <1>3, <1>4, <1>5, <1>6, <1>7, <1>8, <1>9, <1>14, <1>16 DEF Step
<1> QED BY <1>10, <1>11, <1>12, <1>13, <1>15, <1>16 DEF Next

\* Whoever holds a row of these is past every statement that could wait for one of its
\* kind; whoever holds a guest follow or its key has come to another one, or is done.
LEMMA OrderForward == Typed /\ Asked /\ FollowsInv /\ TakenInOrder => WaitsForward
<1> SUFFICES ASSUME Typed, Asked, FollowsInv, TakenInOrder, NEW v \in Verifies, NEW w \in Verifies, WaitsFor(v, w)
             PROVE  /\ w # v /\ ver[w].pc \in InTx
                    /\ \/ Rank(ver[v].pc) < Rank(ver[w].pc)
                       \/ /\ ver[v].pc \in AtFollows /\ ver[w].pc \in AtFollows
                          /\ ver[v].phone = ver[w].phone \/ ver[v].dev = ver[w].dev
  BY DEF WaitsForward
<1>0. /\ ver[v].pc # "new" /\ ver[v].phone \in Phones /\ ver[v].dev \in Devices
      /\ ver[v].pc \in {"wrong", "consuming"} => ver[v].code \in Codes
  <2>1. ver[v].pc # "new"
    BY DEF WaitsFor
  <2> QED BY <2>1 DEF Asked, Typed, TypeOK, Progress, Verify
<1>1. CASE ver[v].pc \in {"wrong", "consuming"}
  BY <1>0, <1>1 DEF WaitsFor, TakenInOrder, Rank, InTx, AtFollows
<1>2. CASE ver[v].pc = "insert"
  BY <1>0, <1>2 DEF WaitsFor, TakenInOrder, Rank, InTx, Linked, AtFollows
<1>3. CASE ver[v].pc = "link"
  BY <1>0, <1>3 DEF WaitsFor, TakenInOrder, Rank, InTx, Linked, AtFollows
<1>4. CASE ver[v].pc = "follows" /\ contentLock[ver[v].dev] = w
  BY <1>0, <1>4 DEF TakenInOrder, Rank, InTx, AtFollows
<1>5. ScanOf(v)
  BY DEF FollowsInv
<1>6. ASSUME ver[w].pc \in AtFollows \cup {"issue"}, ver[v].pc \in AtFollows
      PROVE  ver[w].pc \in InTx /\ (Rank(ver[v].pc) < Rank(ver[w].pc) \/ ver[w].pc \in AtFollows)
  BY <1>6 DEF Rank, InTx, AtFollows
<1>7. CASE ver[v].pc \in {"delete", "follows"} /\ scan[v].at # None /\ rowLock[Row(v)] = w
  <2>1. Row(v) = <<ver[v].dev, scan[v].at>> /\ scan[v].at \in Cats /\ scan[v].at \in scan[v].todo
    BY <1>0, <1>5, <1>7, RowAndKey DEF Typed, ScanOf
  <2>2. RowOf(w, ver[v].dev, scan[v].at)
    BY <1>0, <1>7, <2>1 DEF FollowsInv
  <2> QED BY <1>6, <1>7, <2>1, <2>2 DEF RowOf, AtFollows
<1>8. CASE ver[v].pc = "key" /\ keyLock[Key(v)] = w
  <2>1. scan[v].at # None
    BY <1>5, <1>8 DEF ScanOf
  <2>2. Key(v) = <<ver[v].phone, scan[v].at>> /\ scan[v].at \in Cats /\ scan[v].at \in scan[v].todo
    BY <1>0, <1>5, <2>1, RowAndKey DEF Typed, ScanOf
  <2>3. KeyOf(w, ver[v].phone, scan[v].at)
    BY <1>0, <1>8, <2>2 DEF FollowsInv
  <2> QED BY <1>6, <1>8, <2>2, <2>3 DEF KeyOf, AtFollows
<1> QED BY <1>1, <1>2, <1>3, <1>4, <1>7, <1>8 DEF WaitsFor

\* Waits lead forward through code, phone, device and update rows (ConsumeOtpCodeIfValid,
\* resolveOrCreateUser, linkDevice, BackfillUpdatesAuthorUserID), for any number of
\* verifications of any phones on any devices: a circle of waits lies within the guest
\* follows and the index keys of one account or one device.
THEOREM CirclesOnlyAtFollows == Spec => []WaitsForward
<1>1. Init => TakenInOrder
  BY NoneAssumption DEF Init, TakenInOrder
<1>2. IInv => Typed
  BY DEF IInv
<1>3. Typed => TypeOK
  BY DEF Typed
<1> QED BY <1>1, <1>2, <1>3, OrderForward, InitInv, NextInv, FollowsStart, AskedStep, FollowsInvStep, OrderStep, PTL
        DEF Spec

----------------------------------------------------------------------------
(* Who can go on *)

Unanswered(v) == ver[v].pc \notin {"new", "done"}

\* The guards of Step(v): the verification stands at a statement, and nobody holds the row
\* or the key that statement writes.
CanStep(v) == Unanswered(v) /\ \A w \in Verifies : ~WaitsFor(v, w)

\* While a verification is unanswered, some verification can execute its next statement
\* without any of them being rolled back, or there are some at their guest follows that
\* all wait, each for another one of them of the same account or the same device.
GoesOnOrCircle == (\E v \in Verifies : Unanswered(v)) =>
    \/ \E v \in Verifies : CanStep(v)
    \/ \E S \in SUBSET Verifies :
          /\ S # {}
          /\ \A v \in S : /\ ver[v].pc \in AtFollows
                          /\ \E w \in S \ {v} : /\ WaitsFor(v, w)
                                                /\ ver[v].phone = ver[w].phone \/ ver[v].dev = ver[w].dev

\* CanStep asks for no more than Step does.
LEMMA StepNeedsCanStep ==
    ASSUME NEW v \in Verifies, Step(v)
    PROVE  CanStep(v)
<1>1. \A w \in Verifies : w # None
  BY NoneAssumption
<1>2. CASE FollowsStep(v)
  BY <1>1, <1>2 DEF FollowsStep, CanStep, Unanswered, WaitsFor, DeleteRedundantDeviceFollows, DeleteRow,
                    BackfillFollowsUserID, OwnRow, EnterKey
<1>3. CASE KeyConflict(v) \/ BackfillUpdatesAuthorUserID(v) \/ CommitSession(v)
  BY <1>1, <1>3 DEF CanStep, Unanswered, WaitsFor, KeyConflict, BackfillUpdatesAuthorUserID, CommitSession
<1>4. CASE \/ IncrementOtpAttempts(v) \/ SnapshotCode(v) \/ ConsumeOtpCode(v) \/ GetUserByPhone(v)
           \/ CreateUser(v) \/ CreateUserConflict(v) \/ GetDeviceByID(v) \/ LinkDeviceToUser(v)
  BY <1>1, <1>4 DEF CanStep, Unanswered, WaitsFor, IncrementOtpAttempts, SnapshotCode, ConsumeOtpCode,
                    GetUserByPhone, CreateUser, CreateUserConflict, GetDeviceByID, LinkDeviceToUser
<1> QED BY <1>2, <1>3, <1>4 DEF Step

\* The waits lead upwards through the ranks, so they end at a verification that can go on
\* or among those at their guest follows.
LEMMA WaitsEnd == WaitsForward => GoesOnOrCircle
<1> SUFFICES ASSUME WaitsForward, \A v \in Verifies : ~CanStep(v), NEW u \in Verifies, Unanswered(u)
             PROVE  \E S \in SUBSET Verifies :
                      /\ S # {}
                      /\ \A v \in S : /\ ver[v].pc \in AtFollows
                                      /\ \E w \in S \ {v} : /\ WaitsFor(v, w)
                                                            /\ ver[v].phone = ver[w].phone \/ ver[v].dev = ver[w].dev
  BY DEF GoesOnOrCircle
<1> DEFINE R(v) == Rank(ver[v].pc)
           S == {v \in Verifies : Unanswered(v) /\ ver[v].pc \in AtFollows}
<1>1. \A v \in Verifies : Unanswered(v) => \E w \in Verifies :
          /\ WaitsFor(v, w) /\ w # v /\ Unanswered(w)
          /\ \/ R(v) < R(w)
             \/ w \in S /\ v \in S /\ (ver[v].phone = ver[w].phone \/ ver[v].dev = ver[w].dev)
  BY DEF CanStep, WaitsForward, Unanswered, InTx
<1>2. \A v \in Verifies : Unanswered(v) => ver[v].pc \notin {"issue", "backfill"}
  BY DEF CanStep, WaitsFor
<1>3. \A v \in Verifies : R(v) \in 0..4 /\ (R(v) = 4 => ver[v].pc = "issue")
                          /\ (R(v) = 3 => ver[v].pc \in {"backfill"} \cup AtFollows)
                          /\ (ver[v].pc \in AtFollows => R(v) = 3)
  BY DEF Rank, AtFollows
<1>4. \A v \in Verifies : Unanswered(v) => R(v) \in 0..3 /\ (R(v) = 3 <=> v \in S)
  BY <1>2, <1>3
<1> HIDE DEF R
<1>5. \A v \in S : \E w \in S \ {v} : WaitsFor(v, w) /\ (ver[v].phone = ver[w].phone \/ ver[v].dev = ver[w].dev)
  BY <1>1, <1>4
<1>6. S # {}
  <2> SUFFICES ASSUME S = {} PROVE FALSE
    OBVIOUS
  <2> HIDE DEF S
  <2>1. \A v \in Verifies : Unanswered(v) => R(v) \in 0..2 /\ \E w \in Verifies : Unanswered(w) /\ R(v) < R(w)
    BY <1>1, <1>4
  <2>2. \A v \in Verifies : Unanswered(v) => R(v) \in 0..1
    BY <2>1
  <2>3. \A v \in Verifies : Unanswered(v) => R(v) = 0
    BY <2>1, <2>2
  <2>4. PICK w \in Verifies : Unanswered(w) /\ R(u) < R(w)
    BY <2>1
  <2>5. R(u) = 0 /\ R(w) = 0
    BY <2>3, <2>4
  <2> QED BY <2>4, <2>5
<1> QED BY <1>5, <1>6

\* Verifications block one another only at the guest follows of one account or one device,
\* for any number of them: while one is unanswered, some verification finds the row of its
\* next statement free, or such verifications all wait for one another, and then Postgres
\* aborts one of them (VerifyOTP's transaction, follows_user_cat_uq).
THEOREM BlockedOnlyAtFollows == Spec => []GoesOnOrCircle
BY CirclesOnlyAtFollows, WaitsEnd, PTL
=============================================================================
