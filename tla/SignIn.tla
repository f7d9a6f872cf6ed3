------------------------------- MODULE SignIn -------------------------------
(***************************************************************************)
(* Phone sign-in: AuthService.RequestOTP and VerifyOTP, statement by       *)
(* statement, with logout's UnlinkDevice beside them.                      *)
(*                                                                         *)
(* One verification is one transaction: consume the code, resolve or       *)
(* create the account, link the device, attribute the device's older       *)
(* content to the account, issue a session, commit.  Its writes show at    *)
(* the commit; until then another transaction that writes the same row, or *)
(* enters the same key in a unique index, waits.  The follows of the guest *)
(* era are modelled row by row: two statements visit them, and the second  *)
(* enters each in the index of the account, where the account's other      *)
(* devices and its own follow requests come too.                           *)
(*                                                                         *)
(* users.phone is unique, so an account is named by its phone.             *)
(***************************************************************************)
EXTENDS Integers, FiniteSets

CONSTANTS
    Codes,          \* otp_codes rows, each minted by one RequestOTP call
    Verifies,       \* VerifyOTP calls
    Phones,
    Devices,
    Cats,           \* the cats that are followed
    MaxAttempts,    \* otp_codes.max_attempts
    Providers,      \* OTP_PROVIDER of the running api processes: "own", "external", or
                    \* both while a deployment that switches it is under way
    None

ASSUME NoneAssumption == None \notin Verifies \cup Phones \cup Codes \cup Cats
ASSUME OtpAssumption == MaxAttempts \in Nat \ {0} /\ Providers \subseteq {"own", "external"}

VARIABLES
    code,           \* code |-> its row, or the request that will insert it
    codeLock,       \* code |-> verification whose transaction has consumed it
    accounts,       \* phones with a committed users row
    userLock,       \* phone |-> verification with an uncommitted users row
    link,           \* device |-> devices.user_id
    linkLock,       \* device |-> verification that has updated the row
    content,        \* device |-> account its pre-account updates belong to
    contentLock,    \* device |-> verification that has updated those rows
    guest,          \* <<device, cat>> of the follows rows without a user_id
    rowLock,        \* <<device, cat>> |-> verification that has deleted or updated the row
    owned,          \* <<phone, cat>> in follows_user_cat_uq
    keyLock,        \* <<phone, cat>> |-> verification that has entered it uncommitted
    scan,           \* verification |-> the rows its follows statement is visiting
    ver             \* verification |-> where it is

backfill == <<rowLock, keyLock, scan>>
locks == <<codeLock, userLock, linkLock, contentLock, backfill>>
tables == <<accounts, link, content, guest, owned>>
vars == <<code, locks, tables, ver>>

Code == [pc: {"new", "checked", "live", "refused"}, phone: Phones \cup {None}, at: Nat,
         attempts: Nat, consumed: BOOLEAN, expired: BOOLEAN, fresh: BOOLEAN]
NoCode == [pc |-> "new", phone |-> None, at |-> 0, attempts |-> 0, consumed |-> FALSE,
           expired |-> FALSE, fresh |-> FALSE]

InTx == {"resolve", "insert", "device", "link", "backfill", "delete", "follows", "key", "issue"}
AtFollows == {"delete", "follows", "key"}       \* between the rows of the guest follows
Verify == [pc: {"new", "wrong", "right", "consuming", "done"} \cup InTx,
           phone: Phones \cup {None}, dev: Devices \cup {None}, code: Codes \cup {None},
           answer: {"none", "session", "401", "409", "410", "429", "500", "lost"}]
NoVerify == [pc |-> "new", phone |-> None, dev |-> None, code |-> None, answer |-> "none"]

\* The cats of the rows left to visit, the one it is at, and those the account
\* followed when DeleteRedundantDeviceFollows read.
Scan == [todo: SUBSET Cats, at: Cats \cup {None}, seen: SUBSET Cats]
NoScan == [todo |-> {}, at |-> None, seen |-> {}]

TypeOK == /\ code \in [Codes -> Code]
          /\ codeLock \in [Codes -> Verifies \cup {None}]
          /\ accounts \subseteq Phones
          /\ userLock \in [Phones -> Verifies \cup {None}]
          /\ link \in [Devices -> Phones \cup {None}]
          /\ linkLock \in [Devices -> Verifies \cup {None}]
          /\ content \in [Devices -> Phones \cup {None}]
          /\ contentLock \in [Devices -> Verifies \cup {None}]
          /\ guest \subseteq Devices \X Cats
          /\ rowLock \in [Devices \X Cats -> Verifies \cup {None}]
          /\ owned \subseteq Phones \X Cats
          /\ keyLock \in [Phones \X Cats -> Verifies \cup {None}]
          /\ scan \in [Verifies -> Scan]
          /\ ver \in [Verifies -> Verify]

----------------------------------------------------------------------------
\* GetLatestOtpCode: the newest code of p, spent and expired ones too.
Latest(p) == {c \in Codes : /\ code[c].pc = "live" /\ code[c].phone = p
                            /\ \A d \in Codes : code[d].pc = "live" /\ code[d].phone = p
                                                   => code[d].at <= code[c].at}

\* The conditions of ConsumeOtpCodeIfValid on the row itself.  Its expiry is
\* measured against the clock read before, so the pre-check has decided it.
Spendable(c) == ~code[c].consumed /\ code[c].attempts < MaxAttempts

----------------------------------------------------------------------------
\* Devices nobody signed in on yet, with updates and follows of the guest era, and
\* accounts from other devices.
Init == /\ code = [c \in Codes |-> NoCode]
        /\ codeLock = [c \in Codes |-> None]
        /\ accounts \in SUBSET Phones
        /\ userLock = [p \in Phones |-> None]
        /\ link = [d \in Devices |-> None]
        /\ linkLock = [d \in Devices |-> None]
        /\ content = [d \in Devices |-> None]
        /\ contentLock = [d \in Devices |-> None]
        /\ guest \in SUBSET (Devices \X Cats)
        /\ rowLock = [r \in Devices \X Cats |-> None]
        /\ owned = {}
        /\ keyLock = [e \in Phones \X Cats |-> None]
        /\ scan = [v \in Verifies |-> NoScan]
        /\ ver = [v \in Verifies |-> NoVerify]

\* RequestOTP reads the latest code and enforces the resend cooldown ...
RequestOTP(c, p) ==
    /\ "own" \in Providers
    /\ code[c].pc = "new"
    /\ code' = [code EXCEPT ![c] =
                   [NoCode EXCEPT !.phone = p,
                                  !.pc = IF \E d \in Latest(p) : code[d].fresh THEN "refused"
                                         ELSE "checked"]]
    /\ UNCHANGED <<locks, tables, ver>>

\* ... and stores a new one; a failed SmsSender.Send leaves it stored.
CreateOtpCode(c) ==
    /\ code[c].pc = "checked"
    /\ code' = [code EXCEPT ![c] =
                   [@ EXCEPT !.pc = "live", !.fresh = TRUE,
                             !.at = 1 + Cardinality({d \in Codes : code[d].pc = "live"})]]
    /\ UNCHANGED <<locks, tables, ver>>

\* Time passes: the cooldown, then the life of a code ends, older codes first.
Age(c) ==
    /\ code[c].pc = "live"
    /\ \A d \in Codes : code[d].pc = "live" /\ code[d].phone = code[c].phone /\ code[d].at < code[c].at
          => IF code[c].fresh THEN ~code[d].fresh ELSE code[d].expired
    /\ code[c].fresh \/ ~code[c].expired
    /\ code' = [code EXCEPT ![c] = [@ EXCEPT !.fresh = FALSE, !.expired = ~code[c].fresh]]
    /\ UNCHANGED <<locks, tables, ver>>

\* The end of v's transaction frees its rows.
Released(lock, v) == [x \in DOMAIN lock |-> IF lock[x] = v THEN None ELSE lock[x]]

Release(v) == /\ codeLock' = Released(codeLock, v)
              /\ userLock' = Released(userLock, v)
              /\ linkLock' = Released(linkLock, v)
              /\ contentLock' = Released(contentLock, v)
              /\ rowLock' = Released(rowLock, v)
              /\ keyLock' = Released(keyLock, v)
              /\ scan' = [scan EXCEPT ![v] = NoScan]

Answered(v, a) == [ver EXCEPT ![v] = [@ EXCEPT !.pc = "done", !.answer = a]]
Goes(v, pc) == [ver EXCEPT ![v] = [@ EXCEPT !.pc = pc]]

\* VerifyOTP reads the latest code and answers the plain failures; right says
\* whether the presented digits match it.
ReadLatest(v, p, d, right) ==
    /\ "own" \in Providers
    /\ ver[v].pc = "new"
    /\ LET asked == [NoVerify EXCEPT !.phone = p, !.dev = d]
           failed(a) == [asked EXCEPT !.pc = "done", !.answer = a]
       IN  ver' = [ver EXCEPT ![v] =
              IF Latest(p) = {} THEN failed("401")
              ELSE LET c == CHOOSE x \in Latest(p) : TRUE
                   IN  IF code[c].consumed \/ code[c].expired THEN failed("410")
                       ELSE IF code[c].attempts >= MaxAttempts THEN failed("429")
                       ELSE [asked EXCEPT !.code = c, !.pc = IF right THEN "right" ELSE "wrong"]]
    /\ UNCHANGED <<code, locks, tables>>

IncrementOtpAttempts(v) ==
    LET c == ver[v].code
    IN  /\ ver[v].pc = "wrong"
        /\ codeLock[c] = None
        /\ code' = [code EXCEPT ![c] = [@ EXCEPT !.attempts = code[c].attempts + 1]]
        /\ ver' = Answered(v, "401")
        /\ UNCHANGED <<locks, tables>>

\* ConsumeOtpCodeIfValid takes its snapshot: still the latest, still spendable.
SnapshotCode(v) ==
    LET c == ver[v].code
    IN  /\ ver[v].pc = "right"
        /\ ver' = IF c \in Latest(ver[v].phone) /\ Spendable(c) THEN Goes(v, "consuming")
                  ELSE Answered(v, "410")
        /\ UNCHANGED <<code, locks, tables>>

\* The row is free: its newest version is checked again, the subquery for the
\* latest code is not.
ConsumeOtpCode(v) ==
    LET c == ver[v].code
    IN  /\ ver[v].pc = "consuming"
        /\ codeLock[c] = None
        /\ IF Spendable(c)
           THEN ver' = Goes(v, "resolve") /\ codeLock' = [codeLock EXCEPT ![c] = v]
           ELSE ver' = Answered(v, "410") /\ UNCHANGED codeLock
        /\ UNCHANGED <<code, userLock, linkLock, contentLock, backfill, tables>>

\* CheckVerification: the provider approves or refuses the code on its side.
CheckVerification(v, p, d, approved) ==
    /\ "external" \in Providers
    /\ ver[v].pc = "new"
    /\ ver' = [ver EXCEPT ![v] = [NoVerify EXCEPT !.phone = p, !.dev = d,
                                                  !.pc = IF approved THEN "resolve" ELSE "done",
                                                  !.answer = IF approved THEN "none" ELSE "401"]]
    /\ UNCHANGED <<code, locks, tables>>

\* resolveOrCreateUser
GetUserByPhone(v) ==
    /\ ver[v].pc = "resolve"
    /\ ver' = Goes(v, IF ver[v].phone \in accounts THEN "device" ELSE "insert")
    /\ UNCHANGED <<code, locks, tables>>

CreateUser(v) ==
    LET p == ver[v].phone
    IN  /\ ver[v].pc = "insert"
        /\ userLock[p] = None
        /\ p \notin accounts
        /\ userLock' = [userLock EXCEPT ![p] = v]
        /\ ver' = Goes(v, "device")
        /\ UNCHANGED <<code, codeLock, linkLock, contentLock, backfill, tables>>

\* The insert loses the race for users.phone: Postgres has aborted the
\* transaction, so the fallback lookup fails too and everything rolls back.
CreateUserConflict(v) ==
    /\ ver[v].pc = "insert"
    /\ userLock[ver[v].phone] = None
    /\ ver[v].phone \in accounts
    /\ ver' = Answered(v, "500")
    /\ Release(v)
    /\ UNCHANGED <<code, tables>>

\* linkDevice reads the link ...
GetDeviceByID(v) ==
    LET owner == link[ver[v].dev]
    IN  /\ ver[v].pc = "device"
        /\ IF owner \in {None, ver[v].phone}
           THEN ver' = Goes(v, IF owner = None THEN "link" ELSE "backfill") /\ UNCHANGED locks
           ELSE ver' = Answered(v, "409") /\ Release(v)
        /\ UNCHANGED <<code, tables>>

\* ... and writes it by device id alone.
LinkDeviceToUser(v) ==
    LET d == ver[v].dev
    IN  /\ ver[v].pc = "link"
        /\ linkLock[d] = None
        /\ linkLock' = [linkLock EXCEPT ![d] = v]
        /\ ver' = Goes(v, "backfill")
        /\ UNCHANGED <<code, codeLock, userLock, contentLock, backfill, tables>>

\* A follows statement of v goes through the rows of these cats, in the order of the
\* plan Postgres has chosen; it names the one it comes to next.
Visits(v, cats, seen) ==
    \E k \in IF cats = {} THEN {None} ELSE cats :
        scan' = [scan EXCEPT ![v] = [todo |-> cats, at |-> k, seen |-> seen]]

\* The row under the scan, and the index key of the account for its cat.
Row(v) == <<ver[v].dev, scan[v].at>>
Key(v) == <<ver[v].phone, scan[v].at>>
Passes(v) == Visits(v, scan[v].todo \ {scan[v].at}, scan[v].seen)

\* The cats the account follows.
FollowedBy(p) == {k \in Cats : <<p, k>> \in owned}

\* Mutant: the duplicates are not looked for.
Redundant_None(v) == {}

\* The guest follows of the device that duplicate one of the account.
Redundant(v) == {k \in FollowedBy(ver[v].phone) : <<ver[v].dev, k>> \in guest}

\* DeleteRedundantDeviceFollows takes its snapshot ...
DeleteRedundantDeviceFollows(v) ==
    /\ ver[v].pc = "backfill"
    /\ Visits(v, Redundant(v), FollowedBy(ver[v].phone))
    /\ ver' = Goes(v, "delete")
    /\ UNCHANGED <<code, codeLock, userLock, linkLock, contentLock, rowLock, keyLock, tables>>

\* ... and deletes row after row, leaving those that have got an account meanwhile.
DeleteRow(v) ==
    /\ ver[v].pc = "delete" /\ scan[v].at # None
    /\ rowLock[Row(v)] = None
    /\ rowLock' = IF Row(v) \in guest THEN [rowLock EXCEPT ![Row(v)] = v] ELSE rowLock
    /\ Passes(v)
    /\ UNCHANGED <<code, codeLock, userLock, linkLock, contentLock, keyLock, tables, ver>>

\* BackfillFollowsUserID takes its snapshot: the rows still without an account.
BackfillFollowsUserID(v) ==
    /\ ver[v].pc = "delete" /\ scan[v].at = None
    /\ LET d == ver[v].dev
       IN  Visits(v, {k \in Cats : <<d, k>> \in guest /\ rowLock[<<d, k>>] # v}, scan[v].seen)
    /\ ver' = Goes(v, "follows")
    /\ UNCHANGED <<code, codeLock, userLock, linkLock, contentLock, rowLock, keyLock, tables>>

\* It writes the account to the row ...
OwnRow(v) ==
    /\ ver[v].pc = "follows" /\ scan[v].at # None
    /\ rowLock[Row(v)] = None
    /\ IF Row(v) \in guest
       THEN rowLock' = [rowLock EXCEPT ![Row(v)] = v] /\ ver' = Goes(v, "key") /\ UNCHANGED scan
       ELSE Passes(v) /\ UNCHANGED <<rowLock, ver>>
    /\ UNCHANGED <<code, codeLock, userLock, linkLock, contentLock, keyLock, tables>>

\* ... and enters the row in follows_user_cat_uq.
EnterKey(v) ==
    /\ ver[v].pc = "key"
    /\ keyLock[Key(v)] = None
    /\ Key(v) \notin owned
    /\ keyLock' = [keyLock EXCEPT ![Key(v)] = v]
    /\ Passes(v)
    /\ ver' = Goes(v, "follows")
    /\ UNCHANGED <<code, codeLock, userLock, linkLock, contentLock, rowLock, tables>>

\* The key is there: a unique violation ends the transaction.
KeyConflict(v) ==
    /\ ver[v].pc = "key"
    /\ keyLock[Key(v)] = None
    /\ Key(v) \in owned
    /\ ver' = Answered(v, "500")
    /\ Release(v)
    /\ UNCHANGED <<code, tables>>

\* Mutant: the backfill takes every update of the device, owned ones too.
Unowned_Any(d) == TRUE

\* The rows BackfillUpdatesAuthorUserID matches.
Unowned(d) == content[d] = None

BackfillUpdatesAuthorUserID(v) ==
    LET d == ver[v].dev
    IN  /\ ver[v].pc = "follows" /\ scan[v].at = None
        /\ contentLock[d] = None
        /\ contentLock' = IF Unowned(d) THEN [contentLock EXCEPT ![d] = v] ELSE contentLock
        /\ ver' = Goes(v, "issue")
        /\ UNCHANGED <<code, codeLock, userLock, linkLock, backfill, tables>>

\* What the commit of v writes to the tables.
Writes(v) ==
    LET p == ver[v].phone
    IN  /\ accounts' = accounts \cup {q \in Phones : userLock[q] = v}
        /\ link' = [d \in Devices |-> IF linkLock[d] = v THEN p ELSE link[d]]
        /\ content' = [d \in Devices |-> IF contentLock[d] = v THEN p ELSE content[d]]
        /\ guest' = {r \in guest : rowLock[r] # v}
        /\ owned' = owned \cup {e \in Phones \X Cats : keyLock[e] = v}

Consumed(v) == [c \in Codes |-> IF codeLock[c] = v THEN [code[c] EXCEPT !.consumed = TRUE] ELSE code[c]]

\* Mutant: the session is issued after a commit that does not hold the code.
CommitSession_KeepsCode(v) == /\ ver[v].pc = "issue"
                              /\ Writes(v)
                              /\ UNCHANGED code
                              /\ Release(v)
                              /\ ver' = Answered(v, "session")

\* IssueTx stores the refresh token and the transaction commits.
CommitSession(v) == /\ ver[v].pc = "issue"
                    /\ Writes(v)
                    /\ code' = Consumed(v)
                    /\ Release(v)
                    /\ ver' = Answered(v, "session")

\* Mutant: a transaction that ends without giving back its rows.
Rollback_KeepsLocks(v) == /\ ver[v].pc \in InTx
                          /\ ver' = Answered(v, "lost")
                          /\ UNCHANGED <<code, locks, tables>>

\* WithinTx rolls back on an error, a cancelled request or a lost connection.
Rollback(v) == /\ ver[v].pc \in InTx
               /\ ver' = Answered(v, "lost")
               /\ Release(v)
               /\ UNCHANGED <<code, tables>>

\* Logout of the account the device is linked to.
UnlinkDevice(d) == /\ link[d] # None
                   /\ linkLock[d] = None
                   /\ link' = [link EXCEPT ![d] = None]
                   /\ UNCHANGED <<code, locks, accounts, content, guest, owned, ver>>

\* The account follows a cat from any of its devices, waiting for a key that is being
\* entered; a repeat changes nothing ...
CreateFollow(p, k) == /\ p \in accounts /\ <<p, k>> \notin owned
                      /\ keyLock[<<p, k>>] = None
                      /\ owned' = owned \cup {<<p, k>>}
                      /\ UNCHANGED <<code, locks, accounts, link, content, guest, ver>>

\* ... and unfollows it.
DeleteFollow(p, k) == /\ <<p, k>> \in owned
                      /\ owned' = owned \ {<<p, k>>}
                      /\ UNCHANGED <<code, locks, accounts, link, content, guest, ver>>

\* The next statement of v needs a row, or an index key, that w holds.
WaitsFor(v, w) ==
    \/ ver[v].pc \in {"wrong", "consuming"} /\ codeLock[ver[v].code] = w
    \/ ver[v].pc = "insert" /\ userLock[ver[v].phone] = w
    \/ ver[v].pc = "link" /\ linkLock[ver[v].dev] = w
    \/ ver[v].pc \in {"delete", "follows"} /\ scan[v].at # None /\ rowLock[Row(v)] = w
    \/ ver[v].pc = "key" /\ keyLock[Key(v)] = w
    \/ ver[v].pc = "follows" /\ scan[v].at = None /\ contentLock[ver[v].dev] = w

\* The verifications of S wait for one another in circles.
Circular(S) == \A v \in S : /\ \E w \in S \ {v} : WaitsFor(v, w)
                            /\ \E w \in S \ {v} : WaitsFor(w, v)

\* Postgres aborts one of the transactions that wait for one another.
DeadlockVictim(v) == /\ \E S \in SUBSET Verifies : v \in S /\ Circular(S)
                     /\ ver' = Answered(v, "500")
                     /\ Release(v)
                     /\ UNCHANGED <<code, tables>>

FollowsStep(v) == \/ DeleteRedundantDeviceFollows(v) \/ DeleteRow(v)
                  \/ BackfillFollowsUserID(v) \/ OwnRow(v) \/ EnterKey(v)

Step(v) == \/ IncrementOtpAttempts(v) \/ SnapshotCode(v) \/ ConsumeOtpCode(v)
           \/ GetUserByPhone(v) \/ CreateUser(v) \/ CreateUserConflict(v)
           \/ GetDeviceByID(v) \/ LinkDeviceToUser(v)
           \/ FollowsStep(v) \/ KeyConflict(v)
           \/ BackfillUpdatesAuthorUserID(v) \/ CommitSession(v)

Next == \/ \E c \in Codes : CreateOtpCode(c) \/ Age(c) \/ \E p \in Phones : RequestOTP(c, p)
        \/ \E v \in Verifies :
              \/ Step(v) \/ Rollback(v) \/ DeadlockVictim(v)
              \/ \E p \in Phones, d \in Devices, b \in BOOLEAN :
                    ReadLatest(v, p, d, b) \/ CheckVerification(v, p, d, b)
        \/ \E d \in Devices : UnlinkDevice(d)
        \/ \E p \in Phones, k \in Cats : CreateFollow(p, k) \/ DeleteFollow(p, k)

Spec == Init /\ [][Next]_vars

----------------------------------------------------------------------------
(* Properties *)

\* A code is spent exactly when one session came of it: two verifications with
\* the right digits never both win, and one that fails or dies half-way leaves
\* the code as it was (ConsumeOtpCodeIfValid inside WithinTx).
SessionPerCode ==
    \A c \in Codes :
        LET won == {v \in Verifies : ver[v].code = c /\ ver[v].answer = "session"}
        IN  IF code[c].consumed THEN Cardinality(won) = 1 ELSE won = {}

\* Updates attributed to an account stay with it, whoever signs in on the device later
\* ("never retroactively re-attributed to a second account"), and a follow of the guest
\* era goes only in a sign-in on its device that leaves the account following the cat;
\* the one exception is an account that followed it when the duplicates were read and
\* has unfollowed it since.
ContentKeepsOwner ==
    [][/\ \A d \in Devices : content[d] # None => content'[d] = content[d]
       /\ \A r \in guest \ guest' : \E v \in Verifies :
             /\ ver[v].dev = r[1] /\ ver'[v].answer = "session" /\ ver[v].answer = "none"
             /\ <<ver[v].phone, r[2]>> \in owned' \/ r[2] \in scan[v].seen]_vars

\* How far a transaction is.
Rank(pc) == CASE pc \in {"resolve", "insert"} -> 1
              [] pc \in {"device", "link"} -> 2
              [] pc \in {"backfill"} \cup AtFollows -> 3
              [] pc = "issue" -> 4
              [] OTHER -> 0

\* Where verifications can wait in a circle: code, phone, device and update rows are
\* taken in one order, so whoever is waited for is in its transaction and further along
\* than the one that waits, except that two verifications of one account or one device
\* can each wait for a guest follow, or its index key, that the other has written.
WaitsForward ==
    \A v, w \in Verifies : WaitsFor(v, w) =>
        /\ w # v /\ ver[w].pc \in InTx
        /\ \/ Rank(ver[v].pc) < Rank(ver[w].pc)
           \/ /\ ver[v].pc \in AtFollows /\ ver[w].pc \in AtFollows
              /\ ver[v].phone = ver[w].phone \/ ver[v].dev = ver[w].dev

\* "so the plain assignment below can never violate follows_user_cat_uq" holds for what
\* the account followed when the duplicates were read: BackfillFollowsUserID enters only
\* keys that were not there, so a violation is always the work of another request of the
\* account (a sign-in on another device, CreateFollow) since then.
ClashNeedsRace == \A v \in Verifies : ver[v].pc = "key" => scan[v].at \notin scan[v].seen

\* "the losing insert hits the constraint and this falls back to a lookup (isNew
\* false) rather than erroring": no verification that nothing interrupted fails.
LosingInsertFallsBack == \A v \in Verifies : ver[v].answer # "500"
=============================================================================
