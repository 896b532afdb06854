# Medaris: TLA+ models and proofs

Medaris is an online madrasah: two NestJS APIs (`apps/tedrisat`, which holds
nearly all of the program's logic over PostgreSQL, and `apps/teskilat`, a
skeleton), the web applications `tedris`, `nizam`, `nazar` and `landing`, and
shared libraries, of which `libs/auth` (sessions) and `libs/common` (permission
rules) carry logic of their own. This directory holds the models of the parts
where requests, timers, several instances of a service and outside services
interleave, the TLC runs that check them and the TLAPS proofs about them.

## Inventory

Every part is listed in `PROJECT.json` with its files. In short:

| Part | State it keeps | Operations | What is hard |
|---|---|---|---|
| Lesson recordings, Bunny Stream (`course/recording*`, `bunny-stream`) | `lesson_recordings`, `bunny_video_removals`, Bunny's library | start and re-sign an upload, add and change a link, purge, encoding poll | HTTP calls between transactions, locks of different rows, several instances polling, a delete that races a paste |
| Recording announcements | `notified_at`, release times, notifications | announce, release poll | claim then notify, crashes in between |
| Sessions of the web apps (`libs/auth`) | Valkey: sessions, two index sets, refresh locks, used logout tokens; cookies | sign in, load, renew, sign out, back-channel logout, migration of old cookies | replicas, a lock with a lifetime, non-atomic multi-key writes |
| Stored files (`storage`) | `storage_deletions`, object storage | reserve, claim, enqueue, sweep | upload against sweep, rows queued again during a pass |
| Lesson invitations | `lesson_invitations` with a sequence number | reconcile, claim, send, restore | claim before send, ambiguous failures |
| The programme of a course | courses (with a version), weeks, sessions | save, create, move, batch | optimistic versions, writes that do not take the course's lock |
| Archive | `archived_at`, level of each item | hide, restore, delete | hidden parents, restores that race a hide |
| Enrolments and partner integration | enrollments, `partner_enrollment_links`, bans | enrol, approve, leave, complete, remove, partner PUT and DELETE | reads and writes apart, several registrations for one seat |
| Lesson submissions, deck review | submissions, review requests | hand in, return, approve | files (see stored files); the rest is one locked row |
| Roles, grants, permissions | grants, role tables | grant, revoke, effective permissions | the last administrator, precedence of rules |
| Bans, passivation, hosting, köşk, madrasah | their tables | row-locked CRUD | membership and tier rules |
| Notes, questions, dashboards, feeds, audit, web UI | - | CRUD, read models, rendering | nothing a model checker adds to |

How they interact: services call repositories, a repository method is one
PostgreSQL transaction (READ COMMITTED, explicit `FOR UPDATE` locks); timers in
every instance (encoding poll, release poll, storage sweep, invitation sweep)
work on queue tables that other transactions fill; the web applications reach
the APIs with the tokens of a session in Valkey, which the identity provider
may end at any time.

What makes each part correct: a recording holds the video its talebe are shown
and no other is deleted under it; a logout leaves no session; an announcement is
made at most once, and is made at all; a recorded file is not deleted and an
unrecorded one is; a recipient's calendar ends up with the last state of the
session; a stale save of a course is refused and a week comes back as it was
hidden; a seat changes by the rules of those who share it, one request at a time.
Each is stated below, next to the module that states it, with what the code does
not keep of what its comments say.

## Modules

| Module | Models |
|---|---|
| `Recordings` | recordings, Bunny's library, staff requests, the encoding poll |
| `MCRecordings` | its instances for TLC |
| `RecordingsProofs` | its invariants and action properties, for all constants |
| `SessionLife` | what the session store promises of one session id |
| `SessionStore` | the store, the replicas' requests and refreshes, logouts |
| `MCSessionStore` | its instances for TLC |
| `SessionStoreProofs` | its invariants and the refinement, for all constants |
| `StoredFiles` | uploads, the object store, the deletion queue, its passes, purges |
| `StoredFilesProofs` | its invariants, for all constants |
| `Announcement` | what the news of a recording promises |
| `RecordingAnnouncements` | the claim, the notification, the release poll |
| `AnnouncementsProofs` | that the second implements the first |
| `LessonInvitations` | the sweep that mails calendar messages |
| `InvitationsProofs` | its invariants and action properties, for all constants |
| `SharedSeat` | what one person's seat promises to talebe, team and partners: each request in one step |
| `PartnerEnrollments` | one seat of a course, its requests and partners' registrations |
| `PartnerEnrollmentsProofs` | its invariants and action properties, and that it implements `SharedSeat`, for all constants |
| `Syllabus` | weeks and sessions of a course, hidden, restored, deleted, saved |
| `SyllabusProofs` | its invariants and action properties, for all constants |
| `MCTedrisat` | instances of these five services for TLC |
| `ServicesProofs` | that what is proved of each service holds of the five together |

### Recordings

A *session* of a course is a "lesson" in the code and in the model. State:

* `archived`, `cancelled`, `purged`: columns of `lessons`, and the deletion of
  a lesson with its course.
* `recording[l]`: the row of `lesson_recordings`, with provider (LINK stands
  for every host but Bunny), status, Bunny video and `upload`: whether
  `upload_expires_at` is set. Titles, visibility, durations are left out.
* `removals[v]`: the row of `bunny_video_removals`: `on` is `recording_id`
  (named by its lesson; the row of a lesson is reused, never replaced, until it
  is purged), `by` is `replaced_by_video_id`.
* `library[v]`: what Bunny knows of a video, from `none` over `created`,
  `signed` (a browser has the signature of its upload), `encoding` to
  `finished` or `error`; `late` is a created video whose upload's lifetime
  passed without a file; `lost` and `voided` are deleted in Bunny's own panel,
  `deleted` by a poll.
* `request[s]`: a staff request between two of its steps; `poll[p]`: the pass
  of one instance.

A step is one call that takes effect atomically: an HTTP call to Bunny or a
transaction. `startBunnyUpload` and `create` are two steps, `UploadRead` and
`UploadWrite`, `AddRead` and `AddWrite`: they lock the lesson row, read the
recording row *without* a lock and write it later, and `update`, which locks
the recording row only (`Update`, one step), may commit in between.
`UploadWrite` signs the upload in the same step or not at all (the instance
died after the commit); `Resign` is `resign`. The two statements of
`claimVideoRemovals` are one step. The audit entry `recording.video_delete` is
the step in which `FinishVideoRemoval` takes the row off the queue.
`RequestFails` and `PollCrashes` are a call that throws, a refused statement or
a restart: the transaction's work is undone, calls to Bunny are not.
`PanelUpload`, `PanelDelete`, `FileArrives`, `EncodingEnds`, `LifetimePasses`
are Bunny, the browser and the clock. Every `PollRead` may instead be a
`PollSkip` (no answer) and every `DeleteVideo` a `DeleteVideoFails` (refused,
or done and the answer lost).

Not modelled: the limits of a poll's batch (50 and 20; the instances have fewer
videos), the order within a batch, times other than an upload's lifetime,
`setLiveStreamUrl`, announcements.

| Run | Instance | Checks |
|---|---|---|
| `recordings_races` | 1 lesson, 2 videos, 2 requests, 1 poll (230 000 states) | types; `SettledByItsOwnVideo`; `RunningUploadKept`; `UploadsAreSerialised`; `ReplacedUploadIsQueued`; `DeletedOnlyAfterReplacement`; `RemovalIsNeverForgotten` |
| `recordings_live` | 1 lesson, 2 videos, 1 request, 1 poll | `UploadsAreSettled`, `RemovalsAreFinished` |
| `recordings_kept`, `recordings_waits`, `recordings_two_polls` | smallest that show it | the three findings |

The bounds: two requests and two videos are what a race for one lesson needs
(an old video and a new one). Races between two lessons for one video, and between
two polls, multiply the states beyond what a run of five minutes takes; the proofs
below hold for any number of each, so those are theirs: `AtMostOneHolder` is
in no run, being decided by a unique index at the commit. Symmetry is used in the
safety run only.

Fairness (`Fairness`): an instance starts passes for ever (`setInterval`) and a
pass goes on; strong fairness on Bunny's answers, on the deletion and on the
database statements, because a pass may be cut short any number of times, but
not always at the same place; encodings end and time passes. Nothing is assumed
of staff or of Bunny's panel. The liveness run leaves the lessons' own columns
alone (`LiveSpec`), which no poll reads.

What the runs found:

* **A kept video is overwritten** (`recordings_kept`). `update` does not take
  the lesson's lock, so a Bunny link pasted while an upload without
  `replaceVideo` is between its read and its write is overwritten, against
  `uploadReplaces`; its video is not queued. `ReplacedUploadIsQueued` is
  therefore about *uploads*, which cannot be lost this way, and that is proved.
* **A stale queue row** (`recordings_waits`). `onConflictDoNothing` keeps the
  row of an earlier replacement, so the poll waits for the wrong upload.
* **Two polls** (`recordings_two_polls`). With one instance a video is deleted
  only after the upload that replaced it (checked in `recordings_races`); with
  two it is not. `RunningUploadKept` holds for any number.

### Proofs about Recordings

`RecordingsProofs` assumes `NoVideoAssumption` (the null id is no video) and
`NoLessonAssumption` (the null lesson is no lesson), nothing else. It proves,
for every `Lessons`, `Videos`, `Staff` and `Pollers`:

* `TypeCorrect`: `Spec => []TypeOK`.
* `SettlingCorrect`, and from it `SettledCorrect`: by `SettlingInv` what a poll knows of a video
  (`PollsKnow`) stays true because the library never goes back
  (`LibraryMoves`); rows change only in the four ways of `RowMoves`. It is
  needed because `SettledByItsOwnVideo` says nothing of an outcome that a poll
  has read and not yet written.
* `RemovalKept` from the same invariant and `QueueMoves`.
* `OneHolder`, `RunningUploadSafe`, `UploadsSerialised`, `ReplacedQueued` from
  `UploadsInv`, the conjunction of `LocksHold` (lesson locks exclude one
  another, and what a transaction read of an upload is still so),
  `NewVideosAreUnknown` (a video created for an upload is in no row, no queue
  row, no other request and no poll until its commit), `AtMostOneHolder` and
  `RunningUploadsAreKept`. Neither of the last two is inductive alone: a commit
  must know that its video is new, and that the video it takes off is not
  running on another lesson.

* `DeletedAfterReplacement` (`OneInstance => (Spec => DeletedOnlyAfterReplacement)`)
  from `RemovalsInv` (`RemovalsCorrect`). That a video is not due while the upload
  which replaced it runs is checked when the queue is read and used a call of Bunny
  later, so `DueStaysDue` carries it over whatever staff do in between. What could
  undo it is the upload that the row waits for starting again, and it does not: its
  video was recorded when the row was written (`ReplacementsAreRecorded`), and a
  commit starts an upload with a new video only (`UploadsInv`). The row itself stays
  as it was read: rows are taken off by the poll and by it alone, which is where the one
  instance is needed. A second may take a row off between the two, and
  `recordings_two_polls` shows what follows.

`UploadsInv`, `SettlingInv` and `RemovalsInv` were checked by TLC on the instance of
`recordings_races` before they were proved, and are not in that run any more: what
they are for is what the run states. Model-checked only: `UploadsAreSettled`,
`RemovalsAreFinished` (liveness).

### SessionStore

`libs/auth/src/server` keeps the sessions of a web app in Valkey, shared by the
app's replicas. A *session* is the key `sha256(id)` of the id in a cookie. State:

* `entry[s]`, `gen[s]`: the key `s:<hash>` and which tokens it holds, counted:
  1 for the sign-in's, one more for each refresh. `"gone"` is an entry deleted
  or expired; ids are random, so a key is used once.
* `index[k]`: the sets `sid:<sid>` and `sub:<sub>`; `lock[s]`: the refresh lock,
  holding its owner; `used`: the `jti` of logout tokens seen.
* `granted[s]`, `over`: the identity provider's side, the newest tokens it gave
  out and the SSO sessions that ended; `lost`: sessions whose newest tokens
  never reached the store.
* `signedIn`: sessions whose cookie a browser was given.
* `request[q]`: a request under the proxy (`settle`), a sign-in (`callback`) or
  a sign-out between two of its steps, with the generation it read.
* `flight[<<r, s, g>>]`: replica `r`'s refresh of generation `g` of session `s`:
  its entry in the single-flight table (`settled` within the grace) and where
  `refreshExclusively` has got to.
* `logout[x]`: the back-channel logout of SSO session `x`. `before` is a history
  variable, the sessions signed in when its token arrived; `found` is what
  `members` answered.

A step is one command of Valkey, one call of the provider, or what a replica
does between two. Commands sent together (`Promise.all`) go over one connection
in order and are one step. When the store fails (`RequestFails`, `FlightFails`,
`LogoutFails`), any first part of them may have been carried out, all of them
included, for a command that timed out may have been. `Unanswered` is a call
of the provider without an answer, in which the token may have been used up;
`Crash` a replica that dies. `Faults` says which of these an instance has;
`"slow"` lets the lock expire while its owner still works: `LOCK_TTL_MS` is
10 s and so is the default `httpTimeout` (`config.ts:271`).

`SessionLife` says of one id that it is stored at most once, that its tokens
are replaced one generation after the other, and that nothing stores it again
once it ended. `LifeSpec` is that specification of `entry` and `gen`: `Create`
is its `SignIn`, `Write` its `Refresh`, whatever deletes entries its `End`.

Abstractions: the provider rotates refresh tokens (each is accepted once, the
stricter of its settings), and refuses one only for that or because the SSO
session ended, not for its configuration; a logout token names the account, as
Keycloak's do; whether tokens are fresh is a choice of the step that asks.
Not modelled: cookie mode, the migration of its sessions, the TTLs of the index
sets (`addToSet` keeps a set at least as long as its members), the checks of a
logout token, cookies as such.

| Run | Instance | Checks |
|---|---|---|
| `sessions_races` | 2 sessions of one SSO session, 2 replicas, 2 requests, 2 generations, slow refreshes (2.6 million states) | types, `LogoutComplete`, `LifeSpec` |
| `sessions_faults` | 1 session, 2 replicas, 2 requests, 2 polls; store, provider and replicas fail (330 000 states) | `TokenSpentOnce`, `RequestsEnd` |
| `sessions_newer`, `sessions_accounts` | smallest that show it | the two findings |

The bounds: two replicas and two requests are what a race for a lock, or of a
logout with a refresh, needs; two sessions of one SSO session are what a logout
that ends several, or a sign-in that replaces one, needs; `MaxGen` 2 lets a
session be refreshed once and read with either tokens; `Polls` 2 (30 in the code) lets
a waiter poll, poll again and give up. The theorems hold for any number of each.

Fairness (`Fairness`): a request and a refresh that can go on do, every await in
them being a timer or a call with a timeout. Nothing is assumed of locks
expiring, of logouts, browsers or the provider's users: `RequestsEnd` rests on
`LOCK_WAIT_MS` alone.

What the runs found:

* **A newer session is deleted** (`sessions_newer`). `settle` reads the session
  again before it removes it, against the comment above it, but the removal is a
  command of its own that deletes whatever is stored by then.
* **An index deleted whole** (`sessions_accounts`). `endIdpSession` deletes the
  set it read, with what a sign-in added in between; with tokens that name only
  the account, the next logout misses that session. The deployed clients' tokens
  name the SSO session, whose index only its own logout deletes: there
  `LogoutComplete` holds, and is proved.
* **A lock that expires** under a slow refresh lets two replicas spend one
  refresh token; `TokenSpentOnce` is checked, and proved, without `"slow"`. The
  loser is refused and drops the session (`DropRefused`).
* A logout whose store fails after its `jti` was recorded is answered 503 and
  the provider's retry is refused: `LogoutComplete` speaks of success only.

### Proofs about SessionStore

`SessionStoreProofs` assumes `ConstantsAssumption` (the shape of the constants)
and `NoFlightAssumption` (the free lock names no owner). It proves, for every
value of the constants:

* `SessionTypeCorrect`: `Spec => []TypeOK`. Types are not inductive alone: that
  a generation stays within `MaxGen` needs `Bounded` (only a generation below
  the bound is refreshed) and `GenInv`: the provider is at most one generation
  ahead of the store, nobody holds tokens newer than the stored ones, and of one
  session at most one refresh waits to be written.
* `StoreImplementsLife`: `Spec => LifeSpec`, from the same invariant: a `Write`
  stores exactly the next generation, a `Create` an id never stored.
* `LogoutEndsSessions`: `SidInToken => (Spec => []LogoutComplete)`, from
  `LogoutInv`: a stored session a browser may hold is in the index of its SSO
  session until the logout token of that is recorded, and from then on in what
  the logout will find.
* `TokensSpentOnce`: without `"slow"`, from `SpendInv`: a working refresh owns
  its session's lock (`Exclusive`), and the provider is ahead of the store only
  while a refresh waits to be written or after tokens were lost (`Ahead`), so
  that what is read under the lock is the newest.

A step that stores or grants nothing preserves these invariants for one reason,
stated once (`Quiet`, `LogoutUntouched`, `SpendQuiet`); the four steps that do
(`Callback`, `Create`, `Grant` or `Unanswered`, `Write`) have lemmas of their own.

Model-checked only: `RequestsEnd` (liveness).

### The services: StoredFiles, RecordingAnnouncements, LessonInvitations, PartnerEnrollments, Syllabus

Five modules about five services of tedrisat. Each has tables of its own: what
one reads of another's is in its own state, as the seats and times in
`LessonInvitations` and the places in `StoredFiles`. `MCTedrisat` therefore lets
a behaviour be one of one service (`service`), the others at rest: the two runs
check each module as it stands, and pay for the sum of their states, not the
product. A step is one transaction, one statement where the code is not in a
transaction, or one call of an outside service.

**StoredFiles** (`apps/tedrisat/src/storage`, and every place where a file's row
is written or dropped). `upload[k]` is where `UploadStore.store` has got to with
key `k` (keys are random, so a key is put once); `object[k]` the store;
`file[k]` the row that points at it; `deletion[k]` the row of
`storage_deletions` by what `due_at` was set to last: `reserved` an hour ahead,
`due` now, `taken` 15 minutes ahead by the pass that claimed it, `retry` after a
backoff; `place[p]` what files hang off (the lists of a session), live, hidden
or purged; `purge[p]` the keys a purge selected; `cleaner[c]` the pass of an
instance: what it still has to delete and what it has. `Reserve`, `PutObject`,
`CheckLive`, `Record`, `GiveUp` are `store` and the transaction of its caller;
`DropFile` everything that drops one file; `PurgeLocked` the purges that hold
the lock records take, `PurgeSelects` and `PurgeDeletes` the purge of a week or a
köşk, which does not; `ClaimRows`, `DeleteObject`, `DeleteFails`, `FinishPass`
the pass. Time is `FallsDue`, and `InTime` what the margins give: a reservation
outlives its upload, unless `"slow"` (an hour against a put's two minutes). A claim
need not outlive its pass, since fifty deletions of 30 s may take longer than the 15
minutes of the lease: a second pass may then hold the same row, and a key may be queued
again before the first one takes its row off. Late puts and purges without the lock are
in every instance; `StorageHazards` adds `"crash"` and `"lostCommit"` (a commit without
an answer, after which `GiveUp` deletes the recorded object).

**RecordingAnnouncements** (`recording-release.poller.ts`) and **Announcement**.
`recording`, `available`, `start`, `notified`, `hidden` are the columns that
decide whether a recording is open and told of; `caller[c]` is `announce`, with
the clock it was given (the encoding poll hands on the time its pass began);
`poller[i]` what `releaseDue` has claimed and not told of. The
writes are those of `Recordings` reduced to what concerns the news.
`Announcement` says that the news of a recording is taken up once, by one teller,
while it can be watched, and then told once or dropped; `Promise` maps `notified`
and what tellers hold to it, and `KeepsPromise` is that specification.

**LessonInvitations** (`lesson-invitation.service.ts`, its repository). `row[p]` is
`lesson_invitations` for a session and a talebe: sequence, what it says, cancelled
or not; `seat`, `live`, `when`, `mailable` the tables a round reads;
`sweep[i]` a round with the list its query returned; `sent`, `refused` what the
mail server answered. `FindCancellations`, `FindRequests`, `PruneOrphans` are the
queries of `round`; `FindPrevious`, `Claim`, `Send`, `Refuse`, `SendFails`,
`Restore` are `deliver`; `RoundEnds` a round that throws or an instance that dies.
What a session's time, length and titles are is one value, a version.

**PartnerEnrollments** (`partner-enrollment.service.ts`, `bulk-enrollment.service.ts`
and the status changes of `course.service.ts`). One person, one course: `held`
is the row of `enrollments`, with the numbers of the writes that made and last
changed it for `created_at` and `updated_at`; `link[l]` a row of
`partner_enrollment_links`; `request[r]` a request between two statements. `by` is
history: who gave the seat its status. A step is one statement, as none of these
requests holds a transaction over two: every request overlaps every other, may die
after any of them, and `BanChanges` makes or lifts a ban at any time. A request of the
talebe or the team is `AsksFirst` or `ReadsFirst` to `WriteStatus`; the approval
(`ApproveReads`, `AskBan`, `WriteStatus`, `LostRace`) is the one a PUT calls too. A PUT
is `PutBegins` to `MarkLink`, a DELETE `DeleteBegins` to `CloseLink`. The id of a link
that `deleteLink` took is nobody's (`Forgets`): the statements of a request that still
holds it change no row.

`SharedSeat` says what those who share a seat may rely on: a request changes it at one
instant between its call and its end, if at all; the talebe and the team make of it only
what `Moves` allows; nobody who was barred from before the request to its end takes
a seat, leaves one or is given one; a PUT that answers seated seated the person, or found
them so, at some instant since it was called, and a DELETE that answers removed took an
ENROLLED seat away or found none. `SeatIsShared` is that specification under
`TaskNow`. It says nothing of which registration owns a seat, because the code keeps
nothing of that under overlaps (below).

**Syllabus** (`course.repository.ts`, `archive.repository.ts`). `week`, `lesson`
with `weekAt`, `lessonAt` (`archived_at`) and `weekOf`; `version` the course's;
`editor[e]` the version and programme a page was last given; `restore[t]` a
restore between what it reads and its commit; `hidWith` is history. Writes that
take the course row first (`bumpVersion`) exclude one another and are one step:
`Replace` and `SaveCourse`, `MoveLesson`, `CreateLesson`, `CreateBatch`,
`EditDetails`, `ArchiveLesson`, `ArchiveWeek`. `restoreSession` and `restoreWeek`
come to the course row last and are two steps, between which any other write may commit
but one of the row they lock. `PurgeSession`, `PurgeWeek` lock what they delete.

| Run | Instance | Checks |
|---|---|---|
| `services` | 1 session and talebe with 2 versions, 3 changes, sends that fail; 2 files of one session, 2 passes that may die; 2 recordings in batches of 1, a caller, a poll, crashes and failed statements | `RowIsNewestTold`, `CancelsRepeat`, `ShownIsRemembered`, `CalendarsSettle`; `RecordedIsStored`, `OthersAreQueued`, `StoreCatchesUp`; `ReleasedIsAnnounced` |
| `services_races` | the sweep with crashes and failed statements; 2 recordings, a caller, 2 polls; 2 registrations, 2 requests, 3 writes of the seat, a ban; 2 weeks, 2 sessions, an editor, 2 restores, 2 hides, 3 writes | the types of the five modules; `SequencesRise`; `KeepsPromise`; `RecordsStand`, `SeatIsShared`; `SavesWhatWasShown`, `RestoredAsHidden`, `ShownByOlderReadOnly` |
| `partner_takes_own` | 1 registration, 2 requests, 3 writes | the finding, `OnlyAddedIsTaken` |

The first run has fairness and states what comes of everything in the end; the second has
no fairness and every overlap, and takes requests, and registrations, for alike
(`SeatSymmetry`: none of its properties names one, and none is a liveness property).

The bounds: two of whatever races (files, passes, recordings against a batch of
one, registrations, requests, weeks, sessions); a pair of a session and a talebe
is independent of every other, for every statement of the sweep names one.
`MaxChanges` 3 lets a session move, be deleted and its time come within a round;
`MaxStamps` 3 lets a seat be taken by the talebe, removed and given back;
`MaxHides` 2 lets a session be hidden alone and then its week, over a restore of the
session; `MaxVersion` 3 follows from the writes that these need; `LastTime` 2 is a release
before and after the clock. The theorems hold for any number of each.

Fairness: `InvitationFairness` (the timer and `kick` start rounds for ever, a round
goes on, and no message is put off for ever: strong fairness on its delivery, since
it may be put off any number of times); `StorageFairness` (a request that began
ends, since its calls have timeouts; time passes; the timer starts passes; the store
does not refuse one deletion for ever; instances do not die for ever, which they
must not, for a pass that dies before it ends leaves its rows);
`AnnouncementFairness` (a call goes on or fails; the timer starts passes). Nothing is
assumed of people, of the world or of seats and programmes, and nothing is asked of
those in the end. `CalendarsSettle` is about a world that comes to rest, since its
changes are bounded.

What the code does against its comments, which the models therefore show. The first
has a run, `partner_takes_own`; of the others each has the property that remains true
checked, and the exception named in it:

* **A seat taken that was not given.** The talebe's own `enroll` lands between `place`'s
  read and its insert; the ENROLLED row handed back is answered as one the partner made
  (`bulk-enrollment.service.ts:198-202`), so the link owns it and the DELETE revokes it,
  against `partner-enrollment.schema.ts:54-55` ("removes only what the integration added").
* **Whose the seat is** cannot be relied on. A PUT that dies before `markCreated`
  (`partner-enrollment.service.ts:177`) leaves a seat no link owns, and a repeated PUT
  answers ALREADY_ENROLLED and does not mend it. Two PUTs that overlap may both mark
  one seat; a DELETE may hand it to a link that was closed meanwhile; a refused PUT deletes
  the link another one marks. A team's removal between the read of `updated_at` and
  the approval is given back as if the integration's. What stands is `SeatIsShared`
  and `RecordsStand`.
* **A session shown in a hidden week.** `restoreSession` reads the week without locking
  it (`archive.repository.ts:583-601`), so a week hidden before it commits ends with a
  session shown in it, where the comment of `weekRestoresSessions`
  (`archive.repository.ts:240-244`) says that a session under a hidden week is not
  restored on its own; deleting the week then deletes a session that was shown.
  `ShownByOlderReadOnly`: nothing else leads there. `RestoredAsHidden`: the week still
  brings back exactly what it took.
* **A recording nobody hears of.** Clearing a session's start opens a READY recording at
  no time: no write announces it, and the poll looks at recordings with a time,
  against its own comment (`recording-release.poller.ts:24-27`). So does a request that
  dies before it announces a recording without a release time. With a time it is
  announced though the request that opened it died: `ReleasedIsAnnounced`. An
  instance that dies after the claim tells nobody, by design.
* **An object nobody points at.** A delete that commits "is never forgotten"
  (`storage.schema.ts:11-15`), but the purge of a week or a köşk selects keys and then
  deletes rows without the lock (`course-purge.ts:184-206`), so that the object of a
  file recorded in between stays for good; and so does one whose put lands after its key
  was deleted. `Unseen` names the two; `OthersAreQueued` and `StoreCatchesUp` say that
  no other object is lost, and that no recorded file is touched.

What is assumed, with what happens without it:

* **A recorded file deleted** needs an upload slower than its hour (`"slow"`) or a commit
  whose answer was lost (`"lostCommit"`): `RecordedIsStored` fails with either.
* **Sequence numbers used twice** need an answer lost after the message went out
  (`"lostAnswer"`), or two instances whose sweeps meet: `deliver` puts the row back.
  The calendars' properties are checked for one sweeping instance, `SequencesRise` with
  crashes and failed statements, the others without.

### Proofs about StoredFiles

`StoredFilesProofs` assumes `StorageAssumption` (every upload has a place).

* `StorageTypeCorrect`, under any hazards.
* `RecordedStaysStored`: `Punctual => (StorageSpec => []RecordedIsStored)`, where
  `Punctual` is without `"slow"` and `"lostCommit"`; crashes, late puts, passes that meet
  and unlocked purges are in it. The property is not inductive: a pass that holds
  the key of a recorded file would delete its object. `RecordInv` adds that what is
  due, taken or held is of an upload that has ended and that no row points at, and
  that a purge selects only such uploads.
* `QueueKnowsOthers` (`[]OthersAreQueued`), under the same assumption, from `QueueInv`:
  an upload in progress has its reservation (`RecordInv` lets it be anything), and what a
  pass removed is not in the store again, unless it landed late, when the pass takes its
  row off, whatever became of that row in between.

Model-checked only: `StoreCatchesUp` (liveness).

### Proofs about RecordingAnnouncements

`AnnouncementsProofs` assumes `NewsAssumption` (the shape of the bounds). All
three theorems hold under any faults.

* `NewsTypeCorrect`.
* `TellersTakeTurns`: `AnnouncementSpec => []ToldOnce`: what a teller holds is marked,
  untold and held by no other. It is inductive with the types: a claim marks in the
  statement that checks.
* `AnnouncementsKeepPromise`: `AnnouncementSpec => KeepsPromise`. A claim is a `Take`,
  because a recording found released at the time a pass began still is; a telling is a
  `Tell` by `ToldOnce`; a crash is a `Drop`; every write is an `OpenOrClose`.

Model-checked only: `ReleasedIsAnnounced` (liveness).

### Proofs about Syllabus

`SyllabusProofs` assumes `SyllabusAssumption` (the bounds are numbers).

* `SyllabusTypeCorrect` and `SaveIsCurrent` (`SyllabusSpec => SavesWhatWasShown`).
  `VersionInv` says that a page's version is never ahead and that a page
  at the current version shows the current programme: each write that changes
  what is shown bumps the version in the step that changes it.
* `WeekComesBackAsHidden` (`RestoredAsHidden`) and `AstrayByOlderRead`
  (`ShownByOlderReadOnly`), with every overlap, from `SyllabusInv`. `TakenInv`: the
  sessions that carry a hidden week's instant are those hidden with it. A restore of a
  session on its own could break it, so `PendingInv` says what still stands of what
  a restore read when it commits: its row is hidden and no other restore's, and its week is
  shown or was hidden later than the read, hence at another instant than the
  session's (`SessionPends`). `HiddenStays` is what every other write keeps of it.

### Proofs about PartnerEnrollments

`PartnerEnrollmentsProofs` assumes `SeatAssumption` (the bounds are numbers; "no
registration", "no seat" and "no link" are not among the values they stand beside).

All three theorems hold with every overlap and with requests that die anywhere.

* `SeatTypeCorrect` and `RecordsAreKept` (`EnrollmentSpec => RecordsStand`), from
  `SeatInv`. `AsRead` says what a request may expect to find, given the action it is
  about; every write asks that status again, so an older read writes nothing.
  `LinkedIn`: an id a request holds is that of a row, or forgotten.
* `SeatImplementsShared` (`EnrollmentSpec => SeatIsShared`): one lemma for each action
  says that it is the instant of a request (`Decides`, `Registers`, `IsRefused`,
  `Cancels`), a call, an end, a ban, or nothing to be seen. It needs `AskedIn` of
  `SeatInv`: a request past its question about the ban was free of one at some
  instant since it began, for the ban was lifted when it asked or has been made or lifted
  since.

### Proofs about LessonInvitations

`InvitationsProofs` assumes `InvitationAssumption` (a number; "no row" is no row).

* `InvitationTypeCorrect`, for any instances and faults. With the types goes
  `DueOK`: a CANCEL is due only of a row, so `claimCancel`, which keeps the row's
  words, has a row.
* `MessagesRise` (`SequencesRise`), with one instance (`OneSweep`) whose answers are
  heard (`Heard`): it may die, and the database refuse, between any two statements.
  `RiseInv`: the number a pair's row leads to is above every number told (`Fresh`),
  except of a deleted session to which nothing more is sent; a claim holds a previous
  row that leads to the number claimed (`Rising`).
* `RowIsNewest`, `RowOutlivesSession`, `CancelsFollow` with one instance and no fault
  but refused and failed sends (`Sure`), from `TellInv`: what is still to be sent is
  still due and once for a pair; a claim's previous row is what was told; a pair
  without a row was told nothing, or last of a CANCEL or of a session that is past.

`CalendarsSettle` is liveness and model-checked only.

### Proofs about the composition

`ServicesProofs` is about `ServicesSpec`, which `services_races` checks and `services`
adds fairness to. A step of it is a step of the service at work
and a stuttering step of every other (`ServiceSteps`), and its initial states are initial
in each module, those in which a service rests included; so `ServicesCompose`: a
behaviour of the composition is a behaviour of each of the five. From it and the theorems above:

* `ServicesTypeCorrect` (`[]ServicesTypeOK`), under any faults.
* `ServicesSafe`: every safety property of the two runs but three of the calendars', under
  `OneSweep`, `Heard` and `Punctual`.
* `CalendarsSafe`: those three, `RowIsNewestTold`, `ShownIsRemembered` and
  `CancelsRepeat`, under `OneSweep` and `Sure`.

The constants of each run satisfy the assumptions of the properties it checks.

## Not modelled

* Everything read-only, rendered or formatted: lists, dashboards, feeds, audit
  rows, mails' and calendars' text, the web applications, the generated clients
  (`libs/services`). This is most of the repository's lines; nothing in it has steps.
* Deck review, flashcards, notes, questions, hosting, the administration of köşks and
  madrasahs: one transaction per operation on rows it locks, with no state
  that several steps share.
* Roles and permissions: decisions over tables, a matter of cases and not of
  behaviour over time.
* Of the components modelled partly: the levels of a restore and hidden courses,
  köşks and decks; make-up sessions and course requests; bulk enrolment as such (a
  person at a time is `place`); what a ban's scope covers; the batch
  limits of the queues other than the release poll's; cookie mode in `libs/auth`.
  `PROJECT.json` says it for each component.
* Out of the provers' reach: liveness under fairness. `UploadsAreSettled`,
  `RemovalsAreFinished`, `RequestsEnd`, `CalendarsSettle`, `StoreCatchesUp` and
  `ReleasedIsAnnounced` are checked by TLC only. Every safety
  invariant and every step property of a passing run is a theorem.

## What is left

1. Levels in the archive, and köşks and courses as hidden parents.
2. Batch limits: fairness among queued rows rests on the order they are read in.
