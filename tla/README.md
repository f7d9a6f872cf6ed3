# Tekir: a verification project

Tekir is a shared history of Istanbul's street cats: people follow cats, post
what they saw or did, mark a cat as needing help, and followers are notified.
The program is a Go api over Postgres (`src/backend`), a notifier process that
drains an outbox table, and a Flutter app (`src/app`). This directory holds TLA+
modules of its stateful parts, TLC configurations that check them on small
instances, and TLAPS proofs that hold for every instance.

To check a run: `tlc -config <cfg> <MC module>`; to check the proofs:
`tlapm <Component>Proofs.tla`. `PROJECT.json` maps every definition to the lines
it translates and lists runs, mutants, findings, hazards and theorems.

## 1. Inventory

Everything that can go wrong in this system in a way a test hardly reaches comes
from three places: statements of concurrent Postgres transactions at READ
COMMITTED, effects that no transaction can recall (a push, an object in the
store, an answer the client lost), and the app's `await`s, between which the
account, the session or the screen may have changed.

| component | state | operations | interacts with | what makes it correct |
|---|---|---|---|---|
| updates (`CatsService`, `Store`) | `updates`, `update_statuses`, `cats.last_update_at`, `notification_outbox` | create (ordinary, needs-help), replay by key, correct, delete, delete cat | outbox; media; feeds | one row per idempotency key; freshness is the newest committed update; a help mark notifies only when it activates the alert; the alert derived from one row covers all |
| correction and cover | the same rows, `cat_media`, `cats.primary_photo_id` | correct, delete, set cover | updates | no update without content; a tombstone is final; the cover stays visible; refusals name their cause |
| outbox and notifier (`DispatchPending`, `cmd/notifier`) | outbox rows, `notifications`, push tokens | claim, resolve recipients, insert, push, retire token, commit | api writes; FCM | every eligible mark reaches its steady followers once in the app; a retracted mark is silent; a refreshed token survives |
| sign-in (`AuthService`) | `otp_codes`, `users`, `devices.user_id`, ownership of follows and updates | request code, verify, link, backfill, unlink | sessions, devices | a code gives one session; the guess limit; no link and no content moves between accounts; sign-ins wait for one another in circles only at the follows of the guest era |
| sessions (`SessionService`; `SessionIdentityService` and interceptors in the app) | `refresh_tokens`; cached and stored session, refresh in flight | refresh, revoke, bearer check; restore, refresh, save, logout, retry on 401 | sign-in, every api call | one replacement per token; nobody is signed out by an overlap; every request ends; logout is final |
| devices, follows, blocks | `devices`, `follows`, `user_blocks` | register, set token, follow, unfollow, block, unblock | dispatcher, sign-in | unique per account and cat; a token belongs to one installation |
| device identity (`DeviceIdentityService`, the login flow) | cached credential, initialization in flight, two storage cells | init, register, invalidate, retry a sign-in | devices, sign-in, push | first uses share one registration; a refused credential is replaced without the user noticing; what is in memory is what the next start finds; a sign-in always ends |
| push registration (`PushNotificationsService`, `firebase-messaging-sw.js`, `PUT /v1/devices/me`) | permission, token, service worker, `devices.push_token` | start, opt in, token refresh, set and retire the token, show a push | device identity, dispatcher, FCM, browser | an accepted push is shown; one token on one row; an undisturbed installation's row holds its current token |
| media, cat creation, reports | `media`, object store, `cats`, `cat_media`, `reports` | upload, insert, compensate, report | moderation, object store | no row without object, no object without row, no second row or cat for one key |
| account deletion | all tables of an account, objects | one transaction of fifteen statements, then object deletes | everything | nothing of the account remains; nothing of others goes that should stay |
| feeds, inbox, profile, badges | reads; `notifications.read_at` | list with cursors, mark read | app notifiers | a page walk neither repeats nor skips; badges equal their definition |
| app screens (composer, follows, discover, inbox, profile) | notifier state per account or cat | load, load more, submit, toggle, reset on account change | session, api | nothing of one account shows under another; a retry is the same attempt |
| adapters (Twilio, FCM, S3, moderation), router, config, seed, website | none of their own | calls | services | not modelled beyond their outcomes |

Hard behaviours, by kind: interleaved transactions whose subqueries are not read
again after a lock wait; unique indexes as waiting points; deadlocks between two
notifiers, or between two sign-ins of one account; rolled-back transactions whose pushes have left; clock readings taken
before a transaction; lost answers and retries under an idempotency key; crashes
of notifier and app; several waiters on one refresh or one registration; a script
that fails half way; timeouts that are treated as verdicts. `PROJECT.json` lists
each with its line under `hazards`; the one without a property is a place where the
code does not keep what a comment says (end of section 3).

## 2. Modules

| module | models | state and actions |
|---|---|---|
| `HelpUpdates` | creation of updates, idempotency, freshness, the help alert | one record per request/row; one action per statement of the creating transaction (`InsertUpdate`, `UpdateCatLastUpdateAt`, `CreateNotificationOutbox`, `CommitUpdate`), the key lookup and its conflict, rollback, correction, deletion, clock |
| `UpdateCorrection` | PATCH/DELETE of an own update, cover choice | a request holds the snapshot its statement took; the statement runs on the newest row with the old snapshot of its subqueries, as Postgres does |
| `NotificationDispatch` | notifiers against the api | per worker a transaction (claimed rows, recipients to do, rows written); api actions follow, block, link, token, retract; rollbacks (errors, crashes, deadlock victims) |
| `AlertOutbox` | what the outbox promises | three variables, two actions; `NotificationDispatch!ImplementsOutbox` is the refinement by the dispatcher, `HelpUpdatesProofs!EnqueuesOnce` the one by the write side |
| `SignIn` | OTP request and verification, linking, backfill, unlink | per verification its place in the transaction, with row locks on codes, phones, devices and updates; the two statements on the guest follows row by row, with a lock per `follows` row and per key of `follows_user_cat_uq`; Postgres' deadlock victims; the account's own follows and unfollows between them |
| `SessionRotation` | refresh tokens and the app's session | server and client end of every rotation, requests with the token they carry, logout (of the cached session, or of the stored one when nothing is cached), process crashes; app steps are the code between two awaits |
| `DeviceIdentity` | the device credential of one installation and the sign-in that replaces it | runs of `_loadOrRegister` and of `verifyCode`, split at every await; the two storage cells are separate; the server's view is the set of rows it accepts |
| `PushRegistration` | push tokens from the browser or system to the row and back | platform, worker, permission, token, rows, PUTs under way (with the snapshot their statement took), pushes under way |
| `AccountContent` | uploads, cat creation, photo updates, covers, reports and `DELETE /v1/me` | a request per upload or creation, a request per update and report, and the deletion's transaction: its next statement, the rows it has deleted so far, the keys it has listed |
| `MC*` | instances | model values and symmetry sets |
| `*Proofs` | TLAPS proofs of the module of that name | |

How Postgres is modelled (external, from how the code uses it): a statement sees
what was committed when it starts; a row updated by an open transaction makes
another writer wait and then re-evaluate its `where` clause on the new row while
subqueries keep their snapshot; an insert that meets an uncommitted row with the
same unique key waits for it; an error inside a transaction aborts it; a deadlock
aborts one of its members. Writes of a transaction appear at its commit, except
where a lock must be seen before it.

Abstractions worth knowing:

- payloads, comments, categories, phone formats and hashes are left out or are
  model values; validation and moderation run before any state changes.
- time in `HelpUpdates` is a small clock with 72 h as two ticks and the ten-minute
  window as one; in `SignIn` a code is inside the cooldown or not, expired or
  not; in `SessionRotation` an access token is fresh, inside the client's 30 s
  leeway, or refused, and client and server agree on it (no clock skew). A
  refresh token that has expired is not distinguished from a revoked one.
- `SessionRotation` has one account, and its three secure-storage cells are one
  value; a crash between two of the writes is thereby a crash before or after all.
  Access tokens age only while a replacement can still be minted: a bound, like
  the number of sessions.
- In `SessionRotation` a run has one logout (`MaxLogouts`; the theorems hold for any
  number), and its reads of storage are one step. A logout that finds a session neither
  in memory nor in storage has nothing to present or to clear, and is left out.
- `SignIn`: the guest follows of a device are visited in any order, because no query
  asks for one and it is the plan's choice. The guest era's updates are rows of one
  statement that nobody else enters anywhere, so one lock per device stands for them.
  A follow by a signed-in account is stored under its account; that it can also be
  turned down by its device's own row (`follows_device_cat_uq`) is left out.
- `SignIn` lets api processes with the built-in and with the external OTP provider
  run side by side (`Providers`), as they do while a deployment switches
  `OTP_PROVIDER`; a deployment with one of them is a special case.
- `NotificationDispatch` has one cat, and rows of several updates of it.
- `DeviceIdentity`: a row whose credential nobody holds any more is reused for the
  next registration, which is what makes three rows enough for any number of them.
  Calls of secure storage take effect in the order in which they are made and answer
  later; the token of a push is not seen here.
- `PushRegistration`: of the credential only the cached and the stored row are seen,
  and loading it is one step (`DeviceIdentity` has the steps). Messages in flight are
  a few slots. Once it has answered a permission question the system keeps the answer.
  A worker is absent, listening, or present and deaf; the script as written never
  gives the third, which is what `NoPushUnheard` is about.
- `AccountContent`: one attempt of a request mints an object key, a media id and
  perhaps a cat id, so the request stands for all three. The transaction that creates
  a cat is one step unless its cat has to wait for the deletion: then its media row is
  in and holds the account's row (`CatWaits`), for which the deletion's last statement
  waits in turn, and Postgres aborts one of the two (`CatDeadlock`). The update's
  transaction is two steps, because it holds its parents' rows between them. The account may be deleted again after a rollback, not after a commit.
- In `NotificationDispatch` a deadlock is any set of workers that wait for one another
  in circles (`Circular`), however many they are; Postgres may abort any of its members.

## 3. Runs

Passing runs, with the reason for their bounds:

| run | shows | bounds |
|---|---|---|
| `help` | `EligibleOnlyOnActivation`, `FreshnessIsNewest`, `AlertCoversEveryMark`, `SameKeySameUpdate`, `EveryRequestEnds` | two requests on one cat with at most one key, clock to 3 with expiry 2: two marks overlap or lie an expiry apart; original, loser of the unique index, and replay of a corrected or deleted row |
| `correction` | `HuskOnlyByOverlap`, `TombstoneIsFinal`, `CoverSourceKept`, `RefusalIsExplained` | three requests on one update: two that conflict and one that comes between the statement and its refusal |
| `dispatch` | `StableFollowerNotified`, `RetractedInTimeIsSilent`, `DuplicateNeedsAbort`, `ImplementsOutbox` | two workers, two rows, two accounts and tokens, one device, one api change, one abort; that a failed push leaves the other devices of a fan-out alone is not seen here, but is part of the theorem `SteadyFollowersNotified` |
| `dispatch_live` | `EveryRowProcessed` | two devices, so that two workers can deadlock |
| `signin` | `SessionPerCode`, `ContentKeepsOwner`, `WaitsForward`, `ClashNeedsRace` | two halves, either of which `Bound` admits. `OnCodes`: two codes, three verifications of two phones on one device, one allowed guess, both providers at once: every pair of sign-ins meets on a code, a phone or the device, and a third comes between. `OnFollows`: two verifications of two phones on two devices with any guest follows of two cats, and follow requests of the accounts: two devices of one account, and two accounts on one device, meet on the rows and on the index, two keys being what a circle needs |
| `session` | `OneReplacementPerToken`, `RevokedHasSuccessor`, `NoSpuriousSignOut`, `EveryRequestEnds` | a session, its replacement and one more; three rotations, one request (its retry is a second token), one logout, one fault |
| `push` | `NoPushUnheard`, `SharedTokenNeedsOverlap`, `RegisteredOrExcused` | two rows (before and after a reinstall or a revocation), two tokens (before and after a refresh), two PUTs and one push under way, one fault, native and web |
| `identity` | `OneRegistration`, `RestartKeepsDevice`, `StaleOnlyIfDisturbed`, `EveryFlowEnds` | two sign-ins and the app's own start, two registrations under way, three rows, one fault (the theorems are for any number); starts with a good, a refused or no credential |
| `content` | `SameKeySameRow`, `ObjectsMatchRows` (`LeakNeedsFaultOrRace` and `RowKeepsObject`), `DanglingReportNeedsRace`, `AbortNeedsOverlap` | two accounts, two uploads or cats that exist (of either account), and any two of two uploads or creations, an update and two reports beside the deletion (`MaxOps`), one fault: a pair of retries, a photo on the leaver's cat, a report on each kind of target, a writer between any two statements |

`CHECK_DEADLOCK FALSE` in all runs but `push`, whose app can always be closed and
started again: elsewhere the bounded numbers of requests, codes or
rotations run out, and the system may then rest. That nothing is stuck before its
end is what the liveness properties show, and for sign-in the theorem
`BlockedOnlyAtFollows`.

Every property has a mutant in `PROJECT.json`: a plausible slip in one definition
(a dropped condition, a lock kept or not taken, an assignment instead of
`greatest`) under which TLC finds the property violated.

Violation runs: each checks one sentence of the repository's comments or docs and
shows how the code departs from it. The counterexamples are short.

| run | the sentence fails because |
|---|---|
| `signin_conflict` | the fallback lookup runs in a transaction the conflict has aborted |
| `session_logout_guest` | a rotation in flight writes cache and storage after the logout |
| `content_reports` | the reports on the account's updates are looked up through rows the statement before has deleted; no overlap is needed. `DanglingReportNeedsRace` shows that reports on cats and photos do go |

### Where code and documents differ

Met while modelling, reachable in the modules, and stated here without a violation run.
The first six have a passing property that says exactly when it happens:

- `docs/architecture/db.md:358` promises at-most-once pushes ("no device is ever pushed
  twice"), but they are sent inside the transaction (`service/notifications.go:150`); a
  rollback after them sends them again. `DuplicateNeedsAbort`: only then.
- `queries/updates.sql:183` says that a correction never leaves an update with neither
  status nor flag; the statuses it decides on are not read again after a lock wait.
  `HuskOnlyByOverlap`: only then.
- `service/notifications.go:84` says that "inactive → active enqueues exactly one push",
  but the clock is read before the row lock, so of two overlapping marks the
  older-stamped one may commit second and notify too. `EligibleOnlyOnActivation`: only
  then.
- `service/auth.go:504` and `queries/follows.sql:89` say that the backfill of the follows
  "can never violate follows_user_cat_uq", because the duplicates are deleted just before.
  A request of the account that commits between the two statements (a sign-in on another
  device with a guest follow of the same cat, or a follow) makes it do so, and the sign-in
  answers 500. `ClashNeedsRace`: only then. With two cats the two sign-ins can also wait
  for each other, and Postgres ends one of them in a 500. `WaitsForward`: deadlocks lie
  nowhere else.
- `service/media.go:649` accepts a leaked object, "never an orphan database row". When
  the insert commits and its answer is lost, the compensation deletes the object of a
  row that stays. `RowKeepsObject`: this way, and the next one, only.
- `service/accounts.go:50` says of an object to be deleted that "the rows naming that
  object are already gone". The listing also takes other accounts' photos on the
  leaver's cats, whose media rows survive without their object.
- The comment at `push_notifications.dart:100` says that the app "re-registers on every
  start once permission exists". The PUT leaves with the credential cached by then; when
  it is not loaded yet, the 401 is swallowed until the next start. `RegisteredOrExcused`
  lists this among the excuses.
- `device_identity.dart:141` says that a partial write never leaves an id without a
  token; the id is written first, so a crash between the two writes does. The next start
  registers anew, and after any number of crashes the token in storage is the one in use
  (`RestartKeepsDevice`).
- `queries/account_deletion.sql:112` says that a detached device "can go on being used as
  a guest, and a future account can link it again"; its credential is revoked by the same
  statement, so it first has to register as a new row.
- `POST /v1/devices` stores a push token without taking it off other rows
  (`service/devices.go:105`); `docs/architecture/api.md:22` says that an
  installation "is never pushed twice", which holds of `PUT /v1/devices/me`.
- The inbox follows the device's present owner (`queries/notifications.sql:29`),
  and logout allows a new one; the comment at line 19 rules that out.
- A photo whose update was deleted can become the cover (`service/cats.go:1122`);
  `queries/cat_media.sql:37` says the cover never is a hidden photo.
- The resend cooldown is a read followed by an unconditional insert
  (`service/auth.go:185`), so two overlapping requests both send a code.
- The still-the-latest subquery of the code's consumption keeps its snapshot over
  a lock wait (`queries/otp_codes.sql:33`), so a superseded code can be consumed.
- `linkDevice` reads the link and then writes it by id (`service/auth.go:495`);
  `docs/architecture/api.md:41` says that a link is never silently reassigned.
- A late 401 of a request sent with the old token finds the refreshed session and
  surfaces without a retry (`session_refresh_interceptor.dart:35`).
- Any failed exchange, timeouts too, clears the session
  (`session_identity.dart:153`); its comment names dead tokens only.
- Logout authenticates with a possibly expired access token and swallows the
  refusal, so that nothing is revoked (`session_identity.dart:215`).

### Fairness

Weak fairness only, and only of steps the program takes by itself: the next
statement of a handler that has started (Go's scheduler runs it, Postgres grants
a lock that is free), the polling loop of a notifier (every two seconds, under a
supervisor that restarts it), the server's answer and the app's event loop. Nothing
is assumed of users, of time, of retries or of the network delivering anything:
faults, timeouts and crashes are always possible, up to their bound. In
`dispatch_live` the number of aborts is bounded: with endless crashes nothing could
be promised. In `session` and `identity` a request that is never answered at all would
be a client timeout, which is an answer to its caller; in `identity` nobody has to sign
in and nothing has to fail.

## 4. Proofs

TLAPS proves, for all values of the constants under the named assumptions of the
modules (sentinels outside the sets they mark, positive bounds, at least one device
row), every invariant and action property of the passing runs and the refinement.
`TypeOK` of `SignIn` is proved and not among the invariants of its run. Further theorems
state what no run checks: that waits end, that locks die with their transactions, and what
an account deletion takes and leaves. No theorem bounds the number of requests, workers, rows, tokens,
faults or crashes. Almost none of the properties is inductive as it stands; the
strengthenings were checked by TLC as invariants of the instances of section 3 (some of
them with more faults or requests) before they were proved.

- `HelpUpdatesProofs`: `TypeCorrect`; `ActivationSafety`
  (`EligibleOnlyOnActivation`). When a mark commits one must know that its verdict,
  frozen some steps before, is still true. `VerdictInv` says so, `LockInv` says why: the
  transaction holds the cat's row from `UpdateCatLastUpdateAt` to its end, so no other
  mark of the cat commits in between; `RowInv` numbers the commits.
  `FreshnessSafety` (`FreshnessIsNewest`), `RetriesAgree` (`SameKeySameUpdate`) and
  `AlertSafety` (`AlertCoversEveryMark`) rest on `RowsInv`: one row per key
  (`OneRowPerKey`), an answer names a written row of the same author and key
  (`AnswerIsRow`), and every set of committed rows has a last one in the order
  (`created_at`, `seq`) the queries sort by (`HasNewest`). The last is stated for all
  sets, because a correction or deletion takes rows out of the middle. All steps are
  instances of five shapes (`StepShape`).
  `WaitChainsEnd`: a cat's lock belongs to an open transaction (`LocksLive`), which needs
  nothing more to end, so a request that waits for a key waits for one that can go on or
  that itself waits for such a lock holder (`WaitsEnd`). `EnqueuesOnce`: with rows
  mapped to `pending` at their commit, the write side implements `AlertOutbox`, of which
  `CommitUpdate` is the `Enqueue` and everything else a stutter. The dispatcher
  implements the same specification, so the two agree on what passes between them.
- `UpdateCorrectionProofs`: `CorrectionTypes`, `HuskSafety` (`HuskOnlyByOverlap`),
  `Tombstones` (`TombstoneIsFinal`), `Refusals` (`RefusalIsExplained`) and `CoverGuard`
  (`CoverSourceKept`). `ReqInv` carries what a statement has established to the step
  that uses it: a transaction past its statement holds the row, its conditions still
  hold there, and a refused one is still refused for the same reason, because flags and
  tombstones only move one way. `CorrectionWaitsEnd`: whoever waits for a row waits for
  a correction that holds its only lock, and can go on.
- `NotificationDispatchProofs`: `TypeCorrect`, `SteadyFollowersNotified`
  (`StableFollowerNotified`), `RetractedSilent` (`RetractedInTimeIsSilent`),
  `DuplicatesNeedAborts` (`DuplicateNeedsAbort`) and `DispatchImplementsOutbox`
  (`ImplementsOutbox`). `Locks`: no row is in two batches and a row in a batch is
  pending; `FanoutOf`: each device of the current row is served once and its in-app row
  precedes its push. From these, `Attempts` bounds the pushes of an update to a device
  by its aborts plus the current attempt, `Withdrawn` keeps a retracted mark out of every
  batch's help marks, and `Steady` follows a device that qualified all along from the
  recipient list into the transaction and out of its commit. In the refinement only
  `Enqueue` and `CommitDispatch` are steps of `AlertOutbox`; everything else stutters.
  `LocksEndWithTransactions`: a lock on a devices row belongs to an open transaction that
  has cleared it. `LiveTokensKept`: a token goes only if the provider rejected that
  token, because the rejected one travels with the worker (`Retired`) and the statement
  compares it again. `ProcessedOnce`: a processed row and its notifications stay.
- `SignInProofs`: `TypeCorrect`, `OneSessionPerCode` (`SessionPerCode`), `OwnerKept`
  (`ContentKeepsOwner`), `ClashIsARace` (`ClashNeedsRace`), `CirclesOnlyAtFollows`
  (`WaitsForward`) and `BlockedOnlyAtFollows`. `HoldsCode`: a transaction past
  `ConsumeOtpCodeIfValid` holds the code's row and the code is unspent until it commits;
  `OneWinner` follows at the commit. `UnownedLocked`: a backfill locks only updates
  nobody owns. `FollowsInv` is about the guest follows: a row a transaction has locked is
  of its device and is deleted, or written with a key of its account, or the one it is
  writing (`RowOf`); a key it has entered is of its account and behind its scan (`KeyOf`);
  and the second statement has no duplicate left to visit, because the first one deletes
  all it has seen (`ScanOf`). `ClashIsARace` and the follows' half
  of `OwnerKept` rest on it. `TakenInOrder` says how far a transaction is that holds a
  code, a phone, a device or the updates, so that whoever waits for one waits for a
  transaction that is strictly further. At the follows there is no order, and two
  transactions of one account or device can wait for each other; `CirclesOnlyAtFollows`
  says that circles lie there and nowhere else. `BlockedOnlyAtFollows`
  (`GoesOnOrCircle`) completes the argument: four places are all there are, so a chain of
  waits ends (`WaitsEnd`) at a verification whose next statement's guard holds
  (`CanStep`), or among verifications at their follows that all wait for one another, of
  which Postgres aborts one (`DeadlockVictim`).
- `SessionRotationProofs`: `SessionTypes`, `OneReplacement` (`OneReplacementPerToken`)
  and `NoOrphanedRevoke` (`RevokedHasSuccessor`). `LockInv`: a transaction that has
  revoked a token holds its row and the token is still active for everybody else;
  `FamilyInv`: a replacement exists only of a dead token. A commit therefore finds its
  token without a child, and adds one. Steps of the client are all instances of one
  lemma, `ClientFrame`. `NobodySignedOut` (`NoSpuriousSignOut`) is about both ends at
  once: while nothing has failed (`Calm`) every token is presented once, a replacement is
  known to nobody but its rotation until it is cached, the cached session is presented
  only by the shared refresh, and the stored one is replaced before its rotation ends
  (`PresentedOnce`, `Unknown`, `Held`, `Kept`). `EveryWaitHasARotation`: a request that
  awaits the shared refresh awaits a rotation that is alive (`NoDeadFuture`), and a row
  lock belongs to an open transaction (`RowLocksLive`), also after crashes of either end.
- `PushRegistrationProofs`: `PushTypes`, `PushIsHeard` (`NoPushUnheard`), `SharedTokens`
  (`SharedTokenNeedsOverlap`) and `AppStaysRegistered` (`RegisteredOrExcused`).
  `HearInv` ties the token and the queued pushes to a listening worker, along every path
  that can give a web installation a token. `RunInv` says what the statement of
  `SetDevicePushToken` knows while it runs: another one with its token has marked the
  token, or every other row with the token is still in its snapshot, because only such a
  statement gives a row a token. `RegistrationInv`: a running app without an excuse has a
  reason to wait, one PUT under way with the current token for the current row, or its
  registration.
- `DeviceIdentityProofs`: `TypeCorrect`, `SharedRegistration` (`OneRegistration`),
  `RestartKeeps` (`RestartKeepsDevice`) and `RetryRecovers` (`StaleOnlyIfDisturbed`).
  `Shared`: until something is invalidated the run under way is the one `_initFuture`
  names. `Apart` and `InStep`: while nothing has crossed there is one run, it sees the
  cells as they are, and what is cached is stored. `Recovers`: the retry of an
  undisturbed sign-in rests on a registration of its own. The proof holds for any number
  of faults, and showed that the property once claimed more than the code gives: two
  crashes, one between the deletions of an invalidate and one between the writes of the
  next registration, leave the old token beside a new id. Only the token is the
  credential, and it is what the property now speaks of. `EveryWaitHasARun`: whoever
  awaits `_initFuture` awaits a run that will complete it; an invalidate
  drops the future and not its run, and the end of the process takes run and waiters.
- `AccountContentProofs`: `TypeCorrect`, `IdempotentCreation` (`SameKeySameRow`),
  `ObjectsAndRows` (`ObjectsMatchRows`), `ReportsGoWithTargets`
  (`DanglingReportNeedsRace`) and `CleanDeletion` (`AbortNeedsOverlap`). Rows have
  accounts (`Rooted`), keys one row (`KeyIndex`), and an answer names that row as long as
  the account is there (`Answered`, `OneAnswer`). `Deleting`, `Listed` and `Filed` say
  what the open deletion has taken from each table at each of its statements, `Stored`
  and `Archived` where an object comes from, and `Swept` what a deletion nobody disturbed
  leaves behind: nothing that refers to what its next statement deletes. A cat that
  waits for the deletion has marked it as disturbed (`WaitsMarked`).
  `KeysAlwaysHold` (`ForeignKeysHold`) is about the deletions that are disturbed. Each
  statement is checked by itself, on what it sees; that the whole leaves no dangling
  reference needs the same fact of the deletion's own view (`SeenHold`), and that an open
  update transaction keeps its parents, because the deletion waits for it (`OpenHolds`).
  `DeletionIsComplete` (`NothingRemains`) follows: when the account is gone, nothing
  that refers to it can be left. `DeletionIsConfined` (`NothingElseGoes`) is the other
  direction, from `OnlyOwn`: what a statement deletes belongs to the account, and keeps
  doing so until the commit, since no step changes an owner, an update's cat or a report's
  target (`FieldsKept`).

Only model-checked, on the instances of section 3: the liveness properties
(`EveryRequestEnds` of `HelpUpdates` and of `SessionRotation`, `EveryRowProcessed`,
`EveryFlowEnds`), because fairness is out of the prover's reach. What they need of
every state is proved: `WaitChainsEnd`, `EveryWaitHasARotation`,
`LocksEndWithTransactions` and `EveryWaitHasARun`. That a statement's guard is all it
needs (`CanStep` is `ENABLED` of `Step`) is proved in one direction (`StepNeedsCanStep`);
the other speaks of `ENABLED`, which is out of reach too.

## 5. Not modelled

Image and video decoding, JWT and hashing, HTTP clients of the providers, layout,
the map, analytics, configuration and the generated query layer: byte-level
computation or no state of their own. Of the account deletion, the statements on
tables that hang on the account as leaves (notifications, follows, blocks, refresh
tokens, codes); a row that somebody writes there meanwhile makes the last statement
fail just as the modelled ones do. Of the service worker, the values of its
configuration: with wrong ones no token is ever given out. What a tap on a push opens.

The app's screens, feeds with cursors, the inbox and badges have state worth checking
and are not modelled yet. Three places a model of the screens would start from: the
inbox appends a page that was requested before an account change
(`notifications_notifier.dart`), two follow toggles in flight both start from the set
read before their awaits (`follow_state_notifier.dart`), and a draft edited after a
lost answer is submitted under the key of the first attempt
(`cat_update_composer_notifier.dart`).

## 6. Plan

In this order, the first being the most valuable:

1. Proofs: the lemmas shared by several modules (lock order, one row per key) in one
   place; the deletion's theorems extended to the leaf tables once they are modelled.
2. `AccountScreens` (app): loads, further pages and toggles in flight across an
   account change; `Composer`: keys across retry and edit, media generations.
3. `FeedPaging`: keyset cursors against concurrent writes, with the client's list.
4. `Badges`: `badgeProgress` as an operator against a reference definition.
5. Composition of `HelpUpdates` with `NotificationDispatch` in one state space, from the
   accepted request to the notification; so far they meet in `AlertOutbox`.
