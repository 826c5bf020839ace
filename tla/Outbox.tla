------------------------------- MODULE Outbox -------------------------------
(***************************************************************************)
(* The mails of lessons: the tasks that the handlers and the sweeps        *)
(* enqueue, the Celery workers that run and retry them, and the daily      *)
(* digest of one teacher, which is kept to one a day by a record written   *)
(* in the transaction that sends the mail.                                 *)
(*                                                                         *)
(* A handler is one step here: Bookings has its interleavings and what it  *)
(* refuses once a lesson began, Reminders the steps of the sweep that      *)
(* enqueues reminders.  Time is counted in hours.                          *)
(* Left out: subjects, bodies and invitations.                             *)
(***************************************************************************)
EXTENDS Integers, Sequences, SequencesExt, FiniteSets

CONSTANTS
  Lesson,      \* the teacher's bookings
  LessonHour,  \* lesson -> the hour it starts at
  Worker,      \* Celery workers
  Retries,     \* max_retries
  HoursPerDay, DigestHour,
  MaxDay,      \* bound: days
  Site         \* instances: the hours between UTC and the teacher's clock, whether the
               \* teacher has an address, the lessons confirmed before the model begins,
               \* and the bounds of handlers' calls, hours, sweeps an hour and failures

ASSUME LessonAssumption == LessonHour \in [Lesson -> Nat]
ASSUME NumberAssumption ==
  /\ Retries \in Nat /\ MaxDay \in Nat
  /\ HoursPerDay \in Nat \ {0} /\ DigestHour \in 0 .. HoursPerDay - 1
ASSUME SiteAssumption ==
  \A s \in Site :
    /\ s.address \in BOOLEAN /\ s.standing \subseteq Lesson
    /\ {s.offset, s.calls, s.hours, s.sweeps, s.faults} \subseteq Nat

VARIABLES
  site,     \* the instance this behaviour runs in
  status,   \* lesson -> status; "withdrawn" is pending and "asked" is confirmed, both
            \* with a request to cancel
  since,    \* history: lesson -> the hour it was last confirmed at
  hour,     \* the hour of timezone.now()
  swept,    \* digest sweeps in this hour
  queue,    \* tasks waiting
  job,      \* worker -> the task it runs
  record,   \* day -> the state of TeacherDailyDigestRecord, or "none"
  enqueued, \* history: mail -> how often it was enqueued for the first time
  accepted, \* mail -> how often the provider took it
  doubted,  \* history: mail -> how often it was taken and its task did not get to know
  dropped,  \* history: mails that were rejected for good, or whose task was lost
  skipped,  \* history: mails whose task found that none is to be sent
  listed,   \* history: day -> the lessons its digest listed
  calls, faults \* bounds: handlers' calls and failures so far

vars == <<site, status, since, hour, swept, queue, job, record, enqueued, accepted, doubted,
          dropped, skipped, listed, calls, faults>>
web == <<site, status, since, hour, swept, calls, enqueued>>

Day == 0 .. MaxDay
Status == {"none", "pending", "withdrawn", "confirmed", "asked", "cancelled"}
Letter(kind, to, of) == [kind |-> kind, to |-> to, of |-> of]

\* Who is written to, and about what.
Requested(l) == {Letter("requested", to, l) : to \in {"student", "teacher"}}
Confirmed(l) == {Letter("confirmed", "student", l)}
Declined(l) == {Letter("declined", "student", l)}
Cancelled(l) == {Letter("cancelled", "student", l)}
CancellationAsked(l) == {Letter("asked", "teacher", l)}
DayAhead(l) == {Letter("day", "student", l)}
HourAhead(l) == {Letter("hour", to, l) : to \in {"student", "teacher"}}
Digest(d) == Letter("digest", "teacher", d)

Mail ==
  {Digest(d) : d \in Day}
  \cup UNION {Requested(l) \cup Confirmed(l) \cup Declined(l) \cup Cancelled(l)
                \cup CancellationAsked(l) \cup DayAhead(l) \cup HourAhead(l) : l \in Lesson}

\* A task sends a mail, asked for the nth time, and has been retried so often.
Task == [mail : Mail, nth : Nat, tries : 0 .. Retries]
NoJob == [pc |-> "idle"]

\* Mutant: the day is the server's.
DayOfUTC(h) == h \div HoursPerDay

\* localtime: the teacher's calendar day of an hour.
DayOf(h) == (h + site.offset) \div HoursPerDay
HourOf(h) == (h + site.offset) % HoursPerDay

\* What a digest lists: the confirmed lessons from midnight to midnight of the teacher.
Schedule(d) ==
  {l \in Lesson : status[l] \in {"confirmed", "asked"} /\ DayOf(LessonHour[l]) = d}

Fail == faults < site.faults /\ faults' = faults + 1

-----------------------------------------------------------------------------
(* Handlers and sweeps.                                                    *)

\* What the broker does not take is gone: the handlers' calls catch and log it, a sweep's
\* call raises, so that the second mail of an hour's reminder is not even tried.
Enqueue(mails) ==
  /\ enqueued' = [m \in Mail |-> IF m \in mails THEN enqueued[m] + 1 ELSE enqueued[m]]
  /\ \E lost \in SUBSET mails :
       /\ \A m \in lost : m.kind = "hour" /\ m.to = "student" => lost = mails
       /\ queue' = queue \cup {[mail |-> m, nth |-> enqueued'[m], tries |-> 0] : m \in mails \ lost}
       /\ dropped' = dropped \cup lost
       /\ IF lost = {} THEN UNCHANGED faults ELSE Fail

\* A handler takes a lesson from one status to another and enqueues mails on commit.
Handle(l, from, to, mails) ==
  /\ calls < site.calls /\ calls' = calls + 1
  /\ status[l] \in from
  /\ status' = [status EXCEPT ![l] = to]
  /\ since' = IF to = "confirmed" /\ status[l] = "pending" THEN [since EXCEPT ![l] = hour]
              ELSE since
  /\ Enqueue(mails)
  /\ UNCHANGED <<site, hour, swept, job, record, accepted, doubted, skipped, listed>>

\* book_slot, respond_to_booking, cancel_lesson, request_cancellation
Book(l) == Handle(l, {"none"}, "pending", Requested(l))
Respond(l) ==
  \/ Handle(l, {"pending"}, "confirmed", Confirmed(l))
  \/ Handle(l, {"pending"}, "cancelled", Declined(l))
  \/ Handle(l, {"asked"}, "cancelled", Cancelled(l))
  \/ Handle(l, {"asked"}, "confirmed", {})
  \/ \E to \in {"cancelled", "pending"} : Handle(l, {"withdrawn"}, to, {})
CancelLesson(l) ==
  \/ Handle(l, {"pending", "withdrawn"}, "cancelled", {})
  \/ Handle(l, {"confirmed", "asked"}, "cancelled", Cancelled(l))
Ask(l) ==
  \/ Handle(l, {"pending"}, "withdrawn", CancellationAsked(l))
  \/ Handle(l, {"confirmed"}, "asked", CancellationAsked(l))

\* send_lesson_reminders enqueues the reminders of a confirmed lesson, each once.
Remind(l) ==
  \E mails \in {DayAhead(l), HourAhead(l)} :
    /\ \A m \in mails : enqueued[m] = 0
    /\ \E s \in {"confirmed", "asked"} : Handle(l, {s}, s, mails)

\* send_daily_schedule_digests: at the digest's hour, for tomorrow, unless it is recorded.
\* (Bound: one sweep in the other hours.)
Sweep ==
  LET d == DayOf(hour) + 1
  IN /\ d \in Day /\ swept < (IF HourOf(hour) = DigestHour THEN site.sweeps ELSE 1)
     /\ swept' = swept + 1
     /\ IF HourOf(hour) = DigestHour /\ record[d] = "none"
          THEN Enqueue({Digest(d)})
          ELSE UNCHANGED <<queue, enqueued, faults, dropped>>
     /\ UNCHANGED <<site, status, since, hour, job, record, accepted, doubted, skipped,
                    listed, calls>>

\* Beat starts a sweep every hour.
Tick ==
  /\ hour < site.hours /\ swept > 0
  /\ hour' = hour + 1
  /\ swept' = 0
  /\ UNCHANGED <<site, status, since, queue, job, record, enqueued, accepted, doubted,
                 dropped, skipped, listed, calls, faults>>

-----------------------------------------------------------------------------
(* Workers.                                                                *)

\* Mutant: the teacher's row is read without a lock.
NotLocked == FALSE

\* The transaction of a digest holds the teacher's row.
Locked == \E w \in Worker : job[w].pc # "idle" /\ job[w].mail.kind = "digest"

\* Mutant: the worker trusts the sweep, which looked before it enqueued.
ToSendUnchecked(m) ==
  IF m.kind \in {"day", "hour"} THEN status[m.of] \in {"confirmed", "asked"}
  ELSE m.kind = "digest" => Schedule(m.of) # {}

\* Whether a task goes on to send: what it reads says so.
ToSend(m) ==
  CASE m.kind \in {"day", "hour"} -> status[m.of] \in {"confirmed", "asked"}
    [] m.kind = "digest" -> record[m.of] = "none" /\ Schedule(m.of) # {}
    [] OTHER -> TRUE

HasAddress(m) == m.to = "teacher" => site.address

\* The task is acknowledged when a worker takes it.  An empty day is recorded.
Take(w, t) ==
  LET m == t.mail
  IN /\ job[w].pc = "idle"
     /\ m.kind = "digest" => ~Locked
     /\ queue' = queue \ {t}
     /\ listed' = IF m.kind = "digest" /\ record[m.of] = "none"
                    THEN [listed EXCEPT ![m.of] = Schedule(m.of)] ELSE listed
     /\ IF ToSend(m)
          THEN /\ job' = [job EXCEPT ![w] =
                    [pc |-> IF HasAddress(m) THEN "send" ELSE "record", mail |-> m,
                     task |-> t, taken |-> FALSE]]
               /\ UNCHANGED <<record, skipped>>
          ELSE /\ record' = IF m.kind = "digest" /\ record[m.of] = "none"
                              THEN [record EXCEPT ![m.of] = "skipped_empty"] ELSE record
               /\ skipped' = skipped \cup {m}
               /\ UNCHANGED job
     /\ UNCHANGED <<web, accepted, doubted, dropped, faults>>

\* The provider takes the mail.
Send(w) ==
  /\ job[w].pc = "send"
  /\ accepted' = [accepted EXCEPT ![job[w].mail] = @ + 1]
  /\ job' = [job EXCEPT ![w].pc = "record", ![w].taken = TRUE]
  /\ UNCHANGED <<web, queue, record, doubted, dropped, skipped, listed, faults>>

\* Mutant: one retry less.
AgainLess(t) == IF t.tries + 1 < Retries THEN {[t EXCEPT !.tries = @ + 1]} ELSE {}

\* self.retry
Again(t) == IF t.tries < Retries THEN {[t EXCEPT !.tries = @ + 1]} ELSE {}

\* A transient error: the provider took the mail and its answer was lost, or it did not.
\* The transaction of a digest is rolled back.
Error(w) ==
  LET m == job[w].mail
  IN /\ job[w].pc = "send" /\ Fail
     /\ \E taken \in {0, 1} :
          /\ accepted' = [accepted EXCEPT ![m] = @ + taken]
          /\ doubted' = [doubted EXCEPT ![m] = @ + taken]
     /\ queue' = queue \cup Again(job[w].task)
     /\ job' = [job EXCEPT ![w] = NoJob]
     /\ UNCHANGED <<web, record, dropped, skipped, listed>>

\* An error that is not transient is raised: the task has failed.
Reject(w) ==
  /\ job[w].pc = "send" /\ Fail
  /\ dropped' = dropped \cup {job[w].mail}
  /\ job' = [job EXCEPT ![w] = NoJob]
  /\ UNCHANGED <<web, queue, record, accepted, doubted, skipped, listed>>

\* The task ends; a digest's record commits.  Without an address nothing was sent, and the
\* digest is recorded all the same.
Finish(w) ==
  LET m == job[w].mail
  IN /\ job[w].pc = "record"
     /\ record' = IF m.kind = "digest" THEN [record EXCEPT ![m.of] = "sent"] ELSE record
     /\ skipped' = IF job[w].taken THEN skipped ELSE skipped \cup {m}
     /\ job' = [job EXCEPT ![w] = NoJob]
     /\ UNCHANGED <<web, queue, accepted, doubted, dropped, listed, faults>>

\* The worker is lost, and with it the task and its transaction.
Crash(w) ==
  LET m == job[w].mail
  IN /\ job[w].pc # "idle" /\ Fail
     /\ dropped' = dropped \cup {m}
     /\ doubted' = IF job[w].taken THEN [doubted EXCEPT ![m] = @ + 1] ELSE doubted
     /\ job' = [job EXCEPT ![w] = NoJob]
     /\ UNCHANGED <<web, queue, record, accepted, skipped, listed>>

-----------------------------------------------------------------------------
Init ==
  /\ site \in Site
  /\ status = [l \in Lesson |-> IF l \in site.standing THEN "confirmed" ELSE "none"]
  /\ since = [l \in Lesson |-> 0]
  /\ hour = 0
  /\ swept = 0
  /\ queue = {}
  /\ job = [w \in Worker |-> NoJob]
  /\ record = [d \in Day |-> "none"]
  /\ enqueued = [m \in Mail |-> 0]
  /\ accepted = [m \in Mail |-> 0]
  /\ doubted = [m \in Mail |-> 0]
  /\ dropped = {}
  /\ skipped = {}
  /\ listed = [d \in Day |-> {}]
  /\ calls = 0
  /\ faults = 0

Work(w) == (\E t \in queue : Take(w, t)) \/ Send(w) \/ Finish(w)

Next ==
  \/ \E l \in Lesson : Book(l) \/ Respond(l) \/ CancelLesson(l) \/ Ask(l) \/ Remind(l)
  \/ Sweep \/ Tick
  \/ \E w \in Worker : Work(w) \/ Error(w) \/ Reject(w) \/ Crash(w)

\* Workers keep taking tasks, and the provider answers.
Spec == Init /\ [][Next]_vars /\ WF_vars(\E w \in Worker : Work(w))
=============================================================================
