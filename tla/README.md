# Tutor Booking: a TLA+ verification development

The platform in `src/` lets students book lessons with one independent tutor. It is a Django
application on PostgreSQL (READ COMMITTED, the default), with Celery workers and beat on Redis
for mail and periodic work, and Channels consumers for live notifications and chat. Several web
workers, several Celery workers and the clock all act on the same rows, mostly without locks.
This directory models that system in TLA+, checks the models with TLC on small instances, and
proves theorems about them with TLAPS for every value of their constants.

Contents: the [inventory](#1-inventory) of the system, the [modules](#2-modules) and what they
correspond to, the [runs](#3-runs) with their bounds and fairness, what is
[proved](#4-proofs), what the development [found](#5-findings), what is
[left out](#6-not-modelled), and the [plan](#7-plan).

## 1. Inventory

| Component | Source | State it keeps | Operations |
| --- | --- | --- | --- |
| Booking lifecycle | `booking/views.py`, `booking/models.py` | `Booking` rows: status, `cancellation_requested`, times, type, note, reminder flags | `book_slot`, `respond_to_booking`, `cancel_lesson`, `complete_lesson`, `mark_lesson_not_held`, `request_cancellation`, `update_lesson_note` |
| Request expiry | `booking/services.py`, `booking/tasks.py` | the same rows | `expire_stale_bookings` from beat, from the pages and from the trial check |
| Slot availability | `booking/services.py`, `booking/models.py` | weekly windows, dated overrides, instant-tutoring settings | `get_available_start_times`, add/edit/delete window and override |
| Reviews | `booking/views.py`, `booking/models.py` | `Review` rows with `is_approved` | submit, approve, reject |
| Lesson reminders | `booking/tasks.py` | `reminder_24h_sent`, `reminder_1h_sent` | `send_lesson_reminders`, every five minutes |
| Transactional email tasks | `booking/tasks.py`, `booking/emails.py` | the Celery queue | one task per kind of mail, up to three retries |
| Daily digest | `booking/tasks.py` | `TeacherDailyDigestRecord` rows | hourly dispatch, one mail task per teacher and day |
| In-platform notifications | `notifications/services.py`, `booking/notifications.py` | `Notification` rows, unread count | create and broadcast, mark one or all read |
| Notification socket and client | `notifications/consumers.py`, `static/js/notifications.js` | group membership; the page's badge and list | connect, push, reconnect, refresh |
| Chat | `chat/services.py`, `chat/consumers.py` | conversations, messages, read watermarks | get or create, send, mark read, load older |
| Rate limits | `chat/utils.py`, `accounts/rate_limiting.py` | timestamps in a shared cache | check, record, reset |
| Email verification and change | `accounts/views.py`, `accounts/tokens.py` | `email`, `pending_email`, verified flag, revision | request, confirm, revoke, cancel |
| Calendars and week view | `booking/services.py`, `booking/views.py` | none | grids and navigation |
| Teacher settings, public pages | `portfolio/` | `TeacherProfile` | forms |
| Backup and restore | `scripts/backup.sh`, `scripts/restore.sh` | dump files, the database | dump, retention; restore and swap |
| Integrity verification | `accounts/management/commands/` | none | read-only report |
| Configuration, monitoring, storage | `tutor_booking/` | none | settings; the beat periods are used below |
| Templates, styles, page scripts | `templates/`, `static/` | none | rendering |

**How they interact.** A booking view changes a booking row and, in the same transaction,
inserts notifications; `transaction.on_commit` then enqueues mail tasks and broadcasts the
unread count. The expiry and reminder sweeps update the same booking rows from Celery, with
conditional `UPDATE`s that bypass `Booking.save`. Reviews and the digest read booking statuses.
Availability reads the active bookings. Chat and notifications share the broadcast layer.

**What is hard.**

- *Stale whole-row writes.* The handlers read a booking without a lock, decide, and call
  `Booking.save`, which runs `full_clean` and then writes **every** column. Whatever another
  request, the sweep or the reminder task committed in between is undone.
- *A lock that only one operation takes.* `book_slot` serialises bookings with
  `SELECT ... FOR UPDATE` on the teacher; the handlers that bring rows back do not take it. The
  unique index covers equal starts only.
- *The clock.* Statuses must fit it, and it moves between a check and the write it guards.
- *At-most-once work in sweeps.* Flags are claimed by conditional update, then a mail is
  enqueued; sweeps overlap, workers die in between, and stale writes reset the flags.
- *Order of broadcasts and of tokens.* Counts computed in one transaction and sent after
  another; an address that changes between a token's check and its use.

**What makes each component correct.** Lifecycle: active bookings never overlap; trials come
first; a status fits the clock; a booking is confirmed only ahead of its start; a cancellation
request is answered, not lost. Expiry: a request nobody answers does not stay pending.
Availability: what is offered can be booked, and windows do not overlap. Reminders: each goes
out, once. Digest: one per day, on the bookings of the day. Mail tasks: at most one mail, none
about a cancelled lesson. Reviews: one per completed lesson, published only when approved.
Notifications: the badge converges to the number of unread rows, and an answered request leaves
nothing unread. Chat: watermarks only advance,
no message is skipped by paging. Rate limits: no more than the limit in a window. Email change:
only an address that was proved is ever promoted, and one account holds it. Backup: the newest
good dump survives retention; a failed restore leaves the old database in place.

`PROJECT.json` lists each hazard at its line with the properties that cover it; where the code does
what the hazard fears, or a property holds only with handlers one at a time, the note says so.

## 2. Modules

### Bookings, LessonBook

`Bookings.tla` is the booking table of the one teacher with everything that writes it.

| In the model | In the code |
| --- | --- |
| `lesson`, `status`, `asked` | the columns of `Booking`; `lesson` holds those no handler changes, `asked` is `cancellation_requested` |
| `clock` | `timezone.now()` in ticks of the 30-minute slot grid |
| `lock` | the teacher's row under `FOR UPDATE` |
| `req` | per web worker: where its request is and the row it has read |
| `withdrawn` | history only: rows that were ever cancelled or expired |
| `LockTeacher`, `ResolveOption`, `CheckOffer`, `CreateClean`, `Insert`, `Abort` | the statements of `book_slot`'s transaction, in order |
| `AnswerRequest`, `AnswerCancellation`, `CancelLesson`, `CompleteLesson`, `MarkLessonNotHeld`, `RequestCancellation` | each handler up to its decision: read, check, the value to write |
| `FullClean`, `Save` | `Booking.save`: `full_clean` against the table as it is now, then the update of every column |
| `ExpireStale` by `Sweep`, `StudentPage`, `AnswerTooLate` and inside `ResolveOption` | `expire_stale_bookings` and its callers |

A handler's read and decision are one step, since only the row it read enters into it;
`full_clean` and the write are a step each, because each is a statement that sees what others
committed. An early return is a guard: the request is simply not started. `Abort` is every way
`book_slot` ends without a row. Lock waits are guards: another `book_slot` waits for `lock`, and
so do `request_cancellation`'s save and the sweep, whose notification rows need a key-share
lock on the user row `book_slot` has joined into its `FOR UPDATE`. A 25-minute lesson occupies
one tick and a 50-minute one two: with windows that open on the half hour, which the model assumes,
no candidate starts in the five minutes that are left.

`LessonBook.tla` is the contract: one atomic step per operation on the book of lessons, with the
precondition the handlers check. It knows no request, snapshot or lock.

### Reminders

`Reminders.tla` is `send_lesson_reminders` against the handlers, now with the two flags.

| In the model | In the code |
| --- | --- |
| `status`, `start`, `created`, `sent` | columns of `Booking`; `sent` the flags `reminder_24h_sent` ("day") and `reminder_1h_sent` ("hour") |
| `sweep` | per Celery worker: the statement the sweep is at, its `now`, its list of ids, the booking claimed |
| `hold` | per web worker: the row as it was read, with the status the handler decided on |
| `enqueued` | how often `.delay` was called for a mail: 0, 1, 2 (for more) |
| `Begin`, `Mark`, `Select`, `Claim`, `Enqueue`, `Finish` | the statements of the task, once for each reminder |
| `Crash` | `.delay` raises, or the worker dies; nothing is rolled back since every statement commits on its own |
| `Read`, `Save`, `Abandon` | any handler that ends in `Booking.save`; `Outcome` is what they may write over a status |
| `Book`, `Expire` | `book_slot`'s insert and the expiry's conditional update |
| `lost`, `since`, `overwritten` | history: mails whose sweep died after the claim, when a row became confirmed, flags a save reset |

The handlers are coarser here than in `Bookings`: what decides between them does not matter to
the flags, only what they may write, so their guards are the union over handlers and the
overlap check is left out. This admits more behaviours, never fewer.

### Accounts, AddressBook

`Accounts.tla` is every way an account's address is set, asked for, proved and promoted.

| In the model | In the code |
| --- | --- |
| `user` | the rows of `CustomUser`: `email`, `pending_email`, `is_email_verified`, the password (its hash, counted) |
| `req` | per web worker: where its request is, with the row as `request.user` or the form loaded it |
| `queue`, `inbox` | Celery's mail tasks; the links that were mailed |
| `SignUp`, `Create` | the student form and its insert |
| `OpenSettings`, `CleanEmail`, `SaveSettings` | the settings forms: load, `clean_email`, `user.save()` of every column |
| `OpenLink`, `Verify`, `Promote` | `verify_email`, `confirm_email_change`: the check of the token, then the locked update |
| `Cancel`, `Clear` | `cancel_email_change` and, by its link, `revoke_email_change` |
| `OpenReset`, `SetPassword` | Django's password reset, whose form saves the row it loaded |
| `ResendVerification`, `ResendChange`, `Deliver`, `Abort` | the resend views, the mail tasks (which may fail and start again), a request that dies |
| `proved`, `superseded` | history: whose mail was read where; accounts whose pending address changed under a checked link |

A link holds nothing on the server. It is good while the password hash and the address in it are
the row's, which is how `Valid` has it; a day-old link is one that is never opened.
`AddressBook.tla` is the contract: an address is reserved while pending, becomes the account's
when it was answered there, and counts as verified only then, each in one atomic step.

### RateLimit

`RateLimit.tla` is the three limiters: logins (`accounts/rate_limiting.py`), mail resends
(same file, with a cooldown) and chat messages (`chat/utils.py`). They differ in their keys, in
what the refused client is told and in what resets them; `Ask` gives the keys of each.

| In the model | In the code |
| --- | --- |
| `stamps`, `cool` | the lists of time stamps and the cooldown entries in the shared cache |
| `Kept`, `InWindow` | the comprehension that drops the stamps outside the window |
| `Arrive`, `Check`, `Act`, `Drop`, `LogIn` | one key looked up per step, then the attempt: recorded, or not counted, or a login that deletes the list of its IP and name |
| `ReadList`, `WriteList` | recording is two cache operations, with anything in between |
| the third disjunct of `Check`, the second of `ReadList`, `GiveUp`, that of `LogIn` | the cache fails: the request passes (a login, this key only), the record or the reset is lost, or a login's record starts from an empty list |
| `made`, `counted` | history: attempts let through; those of them that no cache failure touched |

Every request has at least one key; one without (no IP address can be told, nobody is logged in)
is not limited, and not in the model.

### Chat

`Chat.tla` is one conversation with both pages, both sockets and both unread counts.

| In the model | In the code |
| --- | --- |
| `author`, `drawn` | committed messages; ids drawn at the insert, which may commit in another order |
| `watermark` | `ChatParticipant.last_read_message_id` |
| `page` | what `conversation_detail` rendered and the script added, whether "load older" is offered, the socket (`deaf`: accepted, not yet in its group) |
| `down`, `up` | channel layer to page, page to consumer, each in order |
| `Send`, `Commit`, `Tell`, `Count`, `Push`, `Answer` | `send_message`: insert, commit with the sender's own watermark, then the `on_commit` broadcasts, then the answer |
| `Load`, `Render`, `LoadOlder` | the page and its history, one message more than asked for telling `has_more` |
| `Connect`, `Join`, `Disconnect`, `Receive`, `Hear`, `Mark`, `Advance` | the socket on both ends; a receipt reads the mark, then raises it |

### Notifications

`Notifications.tla` is the teacher's notifications with the tabs that show them.

| In the model | In the code |
| --- | --- |
| `booking` | status and `cancellation_requested`, as far as the requests modal and the notifications tell them apart |
| `note`, `drawn` | `Notification` rows; ids drawn |
| `tab` | per tab: dropdown, dots, bell, request count, socket |
| `down`, `missed`, `blurred` | frames on their way; history: something changed that the tab was not told; the tab was told of two requests of one lesson, which are one entry of the list |
| `Request`, `Ask`, `Respond`, `CancelLesson`, `Expire` with `Lock`, `Commit` | the handlers' transactions: the booking row locked by its update, rows inserted or marked, the rest counted |
| `Count`, `Push`, `Tell` | the two `on_commit` broadcasts: one counts when it runs, one sends what the transaction counted |
| `MarkOne`, `MarkAll`, `Write`, `OpenRequests`, `Receive`, `Read`, `Render`, `Answer` | the clicks, `notifications.js`, the views and `notification_context` |

A student may ask to cancel a pending lesson as well as a confirmed one (`request_cancellation`):
the pending lesson is then "withdrawing", the confirmed one "asked". An answer is about the request
to cancel as long as there is one, whatever the status. Cancelling, completing and expiring leave
that request open ("overtaken"): it is still listed, and still can be answered.

### Outbox

`Outbox.tla` is what becomes of a mail that was asked for, and the digest.

| In the model | In the code |
| --- | --- |
| `Book`, `Respond`, `CancelLesson`, `Ask`, `Remind` | the `.delay` calls after each handler and in the reminder sweep, one step each |
| `Sweep`, `Tick` | `send_daily_schedule_digests` (each hour, all teachers whose clock shows the digest's hour) and the clock |
| `queue`, `job`, `Take`, `Send`, `Error`, `Reject`, `Finish`, `Crash` | a task: acknowledged when taken, its reading of the status (`ToSend`), the provider, `self.retry`, other exceptions, loss of the worker |
| `record`, `Locked` | `TeacherDailyDigestRecord`, and the teacher's row held while a digest is composed and sent |
| `enqueued`, `accepted`, `doubted`, `dropped`, `skipped`, `listed`, `since` | history of each mail and of what a digest listed |

### Clock, Desk

`Clock.tla` is wall clocks with one change of offset as Python has them: a wall time with
`fold = 0` names the first of two repeated hours and, in a skipped one, an instant that shows
another hour; times of different zones are equal if their instants are, except that a time whose
offset depends on `fold` is equal to no time of another zone (`Doubtful`, PEP 495).
`Desk.tla` is the schedule, its week view and the reviews.

| In the model | In the code |
| --- | --- |
| `windows` | rows of `RegularAvailability` ("rule") and `WeeklyOverride` ("slot", "off") |
| `Windows`, `Fetched`, `Starts`, `Shown`, `Bookable` | `get_availability_windows`, `get_available_start_times`, `get_week_data`, the look-up in `book_slot` |
| `Add`, `SaveAdded`, `Delete`, `SetZone` | the schedule views and the teacher's time zone |
| `Edit`, `SaveProfile` | `teacher_settings_booking` and every other settings form: the profile is saved as it was read |
| `Book`, `Release`, `Tick` | bookings come and go, the clock runs |
| `held`, `asked` | status and `cancellation_requested` of bookings whose lesson is over |
| `Resolve`, `Ask`, `Answer`, `SaveResolved` | the handlers that save such a booking: a lookup of confirmed ones (`Unresolved`), one of confirmed ones with nothing asked, and the answer to a request to cancel, which looks at no status; then the save of the whole row from what was read |
| `undone`, `rejected`, `late` | history: completed lessons saved otherwise by a request that read them before, or cancelled by accepting a request left open; reviews rejected, and rejected while an approval had read them |
| `Submit`, `Insert`, `Approve`, `CleanReview`, `SaveApproved`, `Reject` | the review views; `full_clean` and `save` are a step each |

### Sites

`Accounts` to `Desk` take their instances from the constant `Site`, a set of records, of which
`Init` chooses one: how many objects, which faults, whether handlers run one at a time, and the
bounds. One run then checks a property on instances that differ in what they make possible. A
property that holds only when handlers run one at a time begins with `site.serial =>`; the
interleaved sites show what is left of it when they do not.

### Properties, runs and proofs

For each module `X`, `XProperties` states the properties and, after them, the inductive invariant
`IInv` with its named parts; `MCX` instantiates both for TLC; `XProofs` holds the lemmas and
theorems. The operators marked *Mutant* are plausible bugs of the
definition that follows them; putting one in its place makes the run named in `PROJECT.json`
fail, which shows that the property depends on the code being as it is. Two modules are
composed where one is the other's environment: the handlers' interleavings are `Bookings`' (and,
for flags, `Reminders`'), and `Notifications`, `Outbox` and `Desk` take a handler as what it
leaves behind.

## 3. Runs

| Run | Result | What it shows |
| --- | --- | --- |
| `bookings_interleaved` | passes | with every interleaving of two workers, the sweep and the clock: overlap only with a row that was once cancelled or expired, trials are first lessons, statuses fit the clock |
| `bookings_serial` | passes | one request at a time, the system implements `LessonBook` |
| `bookings_expiry` | passes | a request that is stale leaves "pending" |
| `bookings_lost_ask` | violated | `ConfirmingKeepsTheAsk` |
| `reminders_overlap` | passes | two sweeps, a handler with a stale row: a reminder is enqueued twice only after a save reset its flag; none that is due is left out |
| `reminders_batch` | passes | two sweeps over two lessons, both may die: what was on a dead sweep's list and not claimed still goes out |
| `accounts` | passes | no address is verified that was not answered from, but for a pending address replaced under a checked link; one at a time the handlers implement `AddressBook` and a pending address is reserved |
| `ratelimit` | passes | nobody is refused without that many real attempts, whatever races and fails; one at a time, limits and cooldown are kept, the wait told to a login is exact, and a login clears its counter |
| `chat` | passes | no message twice on a page; "no more history" is true; watermarks never move back; nothing shown stays unacknowledged; one at a time, a message arrives unread and no count is too low |
| `notifications` | passes | no item twice; what looks read is read; an answered request leaves nothing unread; the bell of a page that was told of everything is right, and so is its count of requests unless a pending lesson was asked to be cancelled |
| `outbox` | passes | a mail goes out once for each time it was asked for, but for answers of the provider that were lost, and goes out in the end; once an evening is over the digest is settled and complete |
| `desk` | passes | the week view shows, on each day of the student's clock, exactly the lessons that can be had, and those can be booked; reviews are of lessons held, which stay completed but for stale saves and the answer to a request to cancel left open |

**Bounds.** Every counter that grows has a bound in a guard, named in its module.
*Bookings:* two rows are what an overlap or a trial race needs, and two workers what a
stale write needs. Starts 3 and 4 with lessons of one and two ticks give equal, overlapping and
touching lessons; the clock runs over the start and the end of the shorter lessons, and, in the
serial runs, of all. `Buffer = 2` puts the instant-tutoring threshold between bookable and
too late. The serial runs have two students, so that both sides of the trial rule occur.
*Reminders:* the windows keep the order of the code's (1h5m < 23h < 24h < 25h becomes
1 < 2 < 3 = 3) with the boundaries on consecutive ticks, so that a lesson enters and leaves each
window during the run; `reminders_overlap` books and confirms its lesson (short notice
included), `reminders_batch` starts with two standing lessons, which is what a list of more than
one needs. *Accounts:* two accounts that compete for three addresses one at a time; one account
with two interleaved requests, where a stale write or a superseded link shows. *RateLimit:* limits of
one to three with windows of two to five ticks, so that lists fill and empty during the run;
two workers race for the read and the write of one list. *Chat:* pages of one message and up
to three messages make history necessary; two handlers can commit out of order. *Notifications:*
a dropdown of two items with three notifications drops one, and three are what a lesson can cause
that is asked for, asked to be cancelled and expires; two tabs tell apart what the acting tab knows
and what others are told; the six sites differ from "one booking, one tab, all handlers, one at a
time" in one respect each, and the field `handlers` says which handlers a site uses, since two tabs
or two interleaved handlers need no others than those that ask and answer. *Outbox:* days of four hours with the digest at the third
(a day has hours before and after it), lessons at hours 4 and 7 (the first and the last of a day
at UTC, two days an hour further east), the code's three retries with up to as many errors.
*Desk:* days of eight steps, weeks of two days (so that a weekly rule recurs), students whose
clocks are up to more than a day from the teacher's, teachers whose clocks skip or repeat an
hour; three rows of schedule are what an overlap with an override needs. Seven requests about a
lesson are enough to ask for its cancellation, complete it, review and approve it, accept what was
asked, and have a stale save besides.
`SYMMETRY` is over interchangeable workers, students, bookings or addresses, in runs of safety
properties only.

**Fairness.** There are two liveness properties. `StalePendingExpires`: `LiveSpec` assumes that a
running request goes on (`WF` of its steps: a worker finishes or aborts) and `SF` of the sweep:
beat sends it every 15 minutes (`settings.py`), and when it has to wait for `book_slot`'s lock,
PostgreSQL's lock queue grants it in order, so it is not enough that the lock is free again
and again for others. `MailGoesOut`: `WF` of the workers' steps taken together, that is, Celery
keeps taking tasks and the provider answers or fails; errors and crashes stay possible up to
their bound, and a lost task counts as lost. Nothing is assumed of users, of the broker's
reliability or of the clock.
`Reminders` has no fairness but a punctuality assumption, without which no deadline can be met:
`Tick` needs a sweep that began at this tick and has ended, that is, beat and one worker keep up
with the five-minute schedule. Other sweeps may be as slow as they like. `Outbox` likewise needs
at least one digest sweep an hour before its clock moves on.

**Deadlock.** The runs stop at the bounds, hence `CHECK_DEADLOCK FALSE`. Whether the database can
deadlock is a matter of lock order and is planned as `RowLocks`.

**Further configurations.** `bookings_double`, `bookings_late_accept`, `bookings_badge`,
`bookings_ask_pending` (with `MCBookings`) and `reminders_duplicate` (with `MCReminders`) each
check one property that the code does *not* have; TLC prints the trace that the finding below
tells. They are kept for reading, not as part of the regular runs.

## 4. Proofs

Every safety property that a passing run checks, its action properties and both refinements are
also theorems: they hold for any number of students, workers, rows, keys, messages, sweeps and
crashes, any windows, limits and times. Nothing is assumed but what the modules assume of their
constants. Each `XProofs` begins with the operators the model is built from, proves that each
action keeps `IInv`, in the order of the module (a step often in two: what one at a time adds has
lemmas of its own), concludes **Invariance** (`Spec => []IInv`) and draws the properties from it.
None of the properties below is inductive by itself; what `IInv` adds, and why, is the argument.

`BookingsProofs`: **TypeCorrect**, **LockingPreventsOverlap** (`OverlapOnlyAfterWithdrawal`),
**TrialsAreFirst** (`TrialIsFirstLesson`), **StatusesFit** (`StatusFitsTheClock`). That an insert
is safe depends on checks made steps earlier. `IInv` adds that only the holder of `lock` is inside
`book_slot`; that its candidate is, from the check on, free of every row that was never withdrawn
(`CandidateOK`), which other steps cannot disturb because rows are inserted only under the lock and
a row that leaves the active statuses is withdrawn or completed; and that what a handler is about to
write already fits the clock (`RequestOK`), which stays true as the clock only moves forward.
**SerialInvariance** and **Implementation** (`ImplementsLessonBook`) are about one request at a time
(`ASSUME Serial`): what the code promises when nothing races, which is what `LessonBook` is for. `SerialOK` adds that what a running request has
read is still so: `WriteIsCurrent` lists, for each handler, what the row it is going to write
looks like, and `CandidateIsCurrent` that the candidate is free of all active rows. Every step
then maps to a step of `LessonBook` or to a stutter: a save to the operation whose
precondition `WriteIsCurrent` still holds, an insert to the booking, with the rows it expired.

`RemindersProofs`: **TypeCorrect**, **ClaimsAreExclusive** (`DuplicateOnlyAfterOverwrite`),
**NothingDueIsForgotten** (`DueRemindersGoOut`). `Once` says that until a flag is overwritten the
mail is enqueued or owed by one sweep, never both, and not before the flag is set. `FlagsOK` gives
a flag its meaning, in the row *and in every copy a handler holds*: the mails are accounted for or
the window has passed. That is why a stale save can cause a duplicate but never lose a reminder: a
copy's True is true forever. `SweepOK` and `SweptOK` carry the obligation through a sweep of the
current tick: what is due is on its list or accounted for, and at its end it is accounted for;
`Tick` turns that into the deadline.

`AccountsProofs`: **TypeCorrect**, **VerifiedMeansProved** (`VerifiedIsProved`), **PendingReserved**
(`PendingIsReserved`), **Implementation** (`ImplementsAddressBook`). A row that is loaded now may be
written back at any later time, so the invariant is about all `Copies` of a row: each that is
verified shows a proved address, and the addresses that are neither verified nor proved are one,
that of the sign-up (`ProofOK`), so that a link to verify, which makes no copy verified but the
table's, cannot make an old copy's address count. `superseded` is the exception the code has.
`SerialOK` says that, one at a time, the row a request has read is the row, which makes each
handler's last step an atomic step of `AddressBook`.

`RateLimitProofs`: **TypeCorrect**, **RefusalsAreEarned** (`RefusalIsEarned`), **LoginsClear**
(`LoginClears`), **LimitHolds** (`WithinLimit`), **CooldownHolds** (`CooldownKept`), **WaitIsTold**
(`LoginTellsTheWait`). First what filtering does to a list: it keeps the order, and every window
that reaches back no further has as many stamps in the result as in the list (`Filtered`). For each
window, present and future, the stamps in the list (or in the copy that a worker is about to write
back) and the attempts still to be recorded (`Owed`) do not exceed the attempts made (`EarnedOK`).
So no race can count an attempt twice: what is read is what there is, and one's own attempt is owed
until it is written. One at a time, lists are in the order of time and hold, of every window that
has not ended, all that was counted (`ListOK`); a request that has passed a key knows that it has
room (`Room`), and still has when it records (`RunOK`). In an ordered list the stamp that is the
limit-th from the end decides for how long the list stays full (`DecidingStamp`), which is the wait
that is told; over several keys it is the greatest.

`ChatProofs`: **TypeCorrect**, **NoneShownTwice** (`ShownOnce`), **NothingOlderIsMissed**
(`HistoryIsComplete`), **BadgeIsEnough** (`BadgeHidesNothing`), **ShownMeansRead** (`ShownIsRead`),
**NeverBack** (`WatermarkNeverBack`), **VisibleMeansUnread** (`ArrivesUnread`). A page lists the
messages that were there when it was rendered without a gap from its first on (`Reaches`), and what
lies before its first is still offered as long as there is any (`PageOK`); this needs what asking
for one message more tells (`OneMoreTells`). What is shown is read by its receipt, wherever on the
way that is (`Acknowledged`), and a count too low is made up for by one that is on its way
(`Corrected`); one at a time, ids are committed and travel in their order (`SerialOK`).

`NotificationsProofs`: **TypeCorrect**, **NoTwins** (`ListHasNoTwins`), **AnsweredMeansRead**
(`AnsweredIsRead`), **DimmedMeansRead** (`DimmedIsRead`), **CountsCurrent** (`CountsAreCurrent`). A
transaction that has locked its booking has it alone, and has marked what it is to mark (`CommitOK`);
since an answer marks both kinds of request, whichever of the two it was about, nothing is left unread
of a booking that then waits for nothing. What looks read is read or its click is
on the way (`DimmedOK`). For the counts, one at a time, `Lacks` says what each page still lacks at
each point of a request: the change a frame will bring (`Coming`) and what the acting tab will learn
from its answer. For the request count this is kept up until the page is `blurred`.

`OutboxProofs`: **TypeCorrect**, **OnceEach** (`MailedOnce`), **EveningSettled** (`EveningIsSettled`).
The mails the provider accepted and the times still `Pending` do not exceed the times asked for
and the answers in doubt (`SentOnce`), where a task and its retry are one (`TasksOK`). Of a digest
there is one at a time, because the teacher's row is held (`DigestOnce`). From the first sweep of
its hour on a digest is queued, running, recorded or given up, and the list it was composed
from has every lesson confirmed before (`DayOK`).

`DeskProofs`: **TypeCorrect**, **ReviewsAreOfLessons** (`ReviewsStandUp`), **WeekShowsTheOffer**
(`WeekIsTheOffer`). Ids of reviews are given in order, so one that was rejected never comes back
under its id; who is about to insert or approve has read a lesson that was held or was undone since, and who has read
a lesson as completed saves it so, or is an answer that cancels it (`ReqOK`): that no handler but the
answer reads completed lessons in order to save them is what keeps reviews right. The week view needs no invariant but types: it follows from lemmas on `Clock`, for any
zones and any length of day: away from a change of offset an instant and its wall time determine
each other, in the order of both (`Away`), days follow each other as their times do (`InDay`,
`DayOrder`), and a day that has windows has a first and a last one (`Extremes`).

Given `INVARIANT IInv` instead of the properties of its run, TLC confirms each module's `IInv` on that
run's instances (up to three million distinct states).

**Only model-checked:** the liveness properties `StalePendingExpires` and `MailGoesOut`, which are
beyond the prover. The properties the code violates are refuted by TLC's traces.

## 5. Findings

Bookings and reminders:

- **Lost cancellation request** (`bookings_lost_ask`, a regular run). The accept's save writes
  back `cancellation_requested = False` over a request the teacher has been notified of.
- **Double booking** (`bookings_double`). The teacher accepts request A in one tab (read,
  `full_clean`) while another tab declines it; A is cancelled, `book_slot` books B over an
  overlapping time, then the first tab's save makes A confirmed. Lock, `clean` and unique
  index (equal starts only) all pass. The README promises "never a double-booked slot".
- **Late accept** (`bookings_late_accept`). The start is compared with the clock before the
  transaction; the save is unconditional, so a lesson can be confirmed after its start.
- **Duplicate reminder** (`reminders_duplicate`). A handler's save writes back the flag the
  sweep has claimed in the meantime; the next sweep sends the reminder again.
- **Badge** (`bookings_badge`). `cancel_lesson`, `complete_lesson` and `mark_lesson_not_held`
  leave `cancellation_requested` set; the badge counts it in any status, and accepting what was left
  open cancels a lesson that was completed (`views.py:457` asks for no status).
- **Cancelling what is not confirmed** (`bookings_ask_pending`). `request_cancellation` accepts
  pending bookings, the glossary says confirmed ones.

Reading the booking with `select_for_update` and repeating the checks on what was read under the
lock, or an `UPDATE` of the changed columns alone with a condition on the old status, would
address the first four. The other modules state their properties with the exceptions the code
has; dropping an exception makes TLC print the trace. They are:

- **Accounts.** A pending address that is replaced between a link's check and its promotion is
  promoted unproved (`superseded` in `VerifiedIsProved`). Two forms can reserve one address, as no
  index covers `pending_email` (`PendingIsReserved` is serial). A settings form or a password reset
  undoes a confirmation or cancellation committed since it loaded the row.
- **RateLimit.** Parallel requests exceed the limit by what is in flight (`WithinLimit` is serial),
  and a record in flight can outlive a login's reset (`LoginClears` is serial). Chat and resends
  tell the wait of the first key that refuses, which can be shorter than that of the next. A
  read of the cache that fails while a login is recorded counts as an empty list
  (`rate_limiting.py:128`, `152`), which then replaces the one in the cache: a short failure forgets
  all attempts before it.
- **Chat.** A message whose smaller id commits after the recipient's watermark has passed it is
  never unread (`ArrivesUnread` is serial). An own message marks the other's as read and pushes no
  new count. What is sent between rendering the page and joining the group, or while the socket is
  down, appears only on the next load.
- **Notifications.** A request to cancel a lesson that is still pending raises the request count of
  an open page by one more although the list has one entry for both, and declining it, or the
  lesson's expiry, lowers the count although the entry stays (`blurred` in `CountsAreCurrent`). When
  such a lesson expires, the sweep marks only `BOOKING_REQUESTED` as read
  (`booking/notifications.py:177`): the notification of the request to cancel stays unread on an
  expired lesson (`AnsweredIsRead` leaves it out). ADR 7 (line 45) describes a synchronisation on
  reconnect; the script's `onopen` asks nothing, so a frame missed stays missed until the next page.
  Other tabs are not told of "mark read". The request count is set from the modal's list and then
  changed by frames already counted in it. `cancel_lesson` marks no notification of the lesson as
  read.
- **Outbox.** An evening on which nothing was confirmed at the first sweep is settled as
  `SKIPPED_EMPTY`: what is confirmed later is in no digest. A digest is recorded as sent when the
  teacher has no address. The mails of one lesson can arrive in either order. The message digest
  described in ADR 8 is not in the code. The digest holds the rows of teacher and user locked
  while it mails (`tasks.py:445`), and a sweep that falls late can skip an hour (`settings.py:265`).
- **Desk.** In the hour that the end of daylight saving repeats, slots are offered that `book_slot`
  never finds (`AtTheChange`; `views.py:309` compares times of different zones); in the hour that is
  skipped one instant is offered twice and a lesson can end after its window. `get_week_data` looks
  at the teacher's days next to the student's, which is not enough for zones more than a day apart
  (`Near`). A completed, reviewed lesson is cancelled, with nothing racing, when the teacher accepts a
  request to cancel that was open when the lesson was completed, or by a save of what was read before
  (`undone` in `ReviewsStandUp`); its review can then never be approved. One rejected
  while its approval is running is inserted again; one tab's settings undo another's.

Met on the way and not modelled: `notify_*` catch every exception inside the handler's transaction
(`booking/notifications.py:105`), so that an insert that fails in the database rolls the transaction back
while the user is told it succeeded.

## 6. Not modelled

`update_lesson_note` writes `completion_note` alone, which nothing else reads. The Django admin
can set any column and would make every property false (a day off, which only the admin can
create, is modelled). SQLite, the development fallback, has no row locks. Row locks are modelled
where two handlers meet on the row a property is about, not the key-share locks of the foreign keys
to users (planned as `RowLocks`). Backup and restore are shell scripts around `pg_dump`; their
retention and swap are planned. The integrity command is a read-only report. Month grids and
dashboards are queries without a rule of their own. The student's notifications take the teacher's
path. Typing and delivery ticks, prices, certificates, wording, mail bodies and invitations,
templates, logging and monitoring change nothing a property is about. `PROJECT.json` gives the
status and the reason for each component.

## 7. Plan

Modelled and checked: Bookings with LessonBook, Reminders, Accounts with AddressBook, RateLimit,
Chat, Notifications, Outbox (mail tasks and digest), Clock and Desk (availability, settings, reviews).

All their safety properties are proved (section 4).

Next, in this order:

1. **RowLocks** — lock acquisition of `book_slot`, the sweep and the notification inserts, with the
   insert that fails: is there a cycle, and what does its victim leave behind.
2. **Backup** — dump, retention, restore and swap under failure.
