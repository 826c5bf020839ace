-------------------------- MODULE OutboxProperties --------------------------
(* What Outbox is checked for. *)
EXTENDS Outbox

Digesting == {w \in Worker : job[w] # NoJob /\ job[w].mail.kind = "digest"}

\* The lessons of the teacher's day d that are to take place.
Tomorrow(d) ==
  {l \in Lesson : /\ status[l] \in {"confirmed", "asked"}
                  /\ (LessonHour[l] + site.offset) \div HoursPerDay = d}

\* The hour at which the digest of day d is due.
Evening(d) == (d - 1) * HoursPerDay + DigestHour - site.offset

\* Every variable stays in its type, and one worker at a time composes a digest.
TypeOK ==
  /\ site \in Site
  /\ status \in [Lesson -> Status] /\ since \in [Lesson -> 0 .. site.hours]
  /\ hour \in 0 .. site.hours /\ swept \in 0 .. site.sweeps + 1
  /\ queue \subseteq Task
  /\ \A w \in Worker : job[w] = NoJob \/ job[w].mail \in Mail
  /\ record \in [Day -> {"none", "sent", "skipped_empty"}]
  /\ {enqueued, accepted, doubted} \subseteq [Mail -> Nat]
  /\ dropped \cup skipped \subseteq Mail
  /\ listed \in [Day -> SUBSET Lesson]
  /\ Cardinality(Digesting) <= 1

\* A mail goes out once for each time it was asked for, and a digest once a day however
\* often it was (specs/celery-redis-email-notifications.md:82: "to prevent duplicate
\* deliveries across retries or repeated periodic ticks"), but for the attempts that the
\* provider took without the task getting to know.
MailedOnce ==
  \A m \in Mail :
    accepted[m] <= doubted[m] + (IF m.kind = "digest" THEN 1 ELSE enqueued[m])

\* Once the digest's hour is over, no task is left and no digest was dropped, tomorrow is
\* recorded, after no more failures than there are retries; as sent only if it was, or if
\* there is no address; as empty only if it listed nothing; and no lesson of the teacher's
\* tomorrow confirmed before that hour is missing.
EveningIsSettled ==
  /\ queue = {} /\ site.faults <= Retries
  /\ \A w \in Worker : job[w] = NoJob
  => \A d \in Day \ {0} :
       LET m == Digest(d)
       IN 0 <= Evening(d) /\ Evening(d) < hour /\ m \notin dropped =>
            /\ record[d] # "none"
            /\ record[d] = "sent" => accepted[m] > 0 \/ ~site.address
            /\ record[d] = "skipped_empty" => listed[d] = {}
            /\ \A l \in Tomorrow(d) : since[l] < Evening(d) => l \in listed[d]

\* In the end every mail that was enqueued has been taken by the provider, after no more
\* transient errors than there are retries, unless its task was lost or rejected or found
\* nothing to send.
MailGoesOut ==
  <>[](\A m \in Mail : enqueued[m] > 0 => accepted[m] > 0 \/ m \in dropped \cup skipped)

-----------------------------------------------------------------------------
(* The inductive invariant.                                                *)

Running(w, m) == job[w] # NoJob /\ job[w].mail = m

Job == [pc : {"send", "record"}, mail : Mail, task : Task, taken : BOOLEAN]

\* What a worker has in hand.
JobOK(w) ==
  LET j == job[w]
  IN j # NoJob =>
       /\ j.task.mail = j.mail
       /\ j.pc = "send" => ~j.taken
       /\ j.taken => accepted[j.mail] > 0
       /\ j.pc = "record" /\ ~j.taken => ~HasAddress(j.mail)
       /\ j.mail.kind = "digest" => record[j.mail.of] = "none"

\* A task was enqueued, and is not the same as another that waits or runs.
TaskOK(t) ==
  /\ t.nth \in 1 .. enqueued[t.mail] /\ t.tries <= faults
  /\ t.mail.kind = "digest" => Evening(t.mail.of) <= hour

Same(s, t) == s.mail = t.mail /\ s.nth = t.nth

TasksOK ==
  /\ \A t \in queue : TaskOK(t) /\ \A s \in queue : Same(s, t) => s = t
  /\ \A w \in Worker :
       job[w] # NoJob =>
         /\ TaskOK(job[w].task) /\ \A t \in queue : ~Same(t, job[w].task)
         /\ \A v \in Worker : job[v] # NoJob /\ Same(job[v].task, job[w].task) => v = w

\* The times m was asked for that are still to be sent.
Pending(m) ==
  {n \in 1 .. enqueued[m] :
     \/ \E t \in queue : t.mail = m /\ t.nth = n
     \/ \E w \in Worker : Running(w, m) /\ job[w].task.nth = n /\ ~job[w].taken}

\* What is sent and what is to be sent do not exceed what was asked for.
SentOnce ==
  \A m \in Mail :
    m.kind # "digest" => accepted[m] + Cardinality(Pending(m)) <= enqueued[m] + doubted[m]

\* One digest at a time, sent with its record.
DigestOnce ==
  /\ \A v, w \in Digesting : v = w
  /\ \A d \in Day :
       LET done == record[d] # "none" \/ \E w \in Worker : Running(w, Digest(d)) /\ job[w].taken
       IN accepted[Digest(d)] <= doubted[Digest(d)] + (IF done THEN 1 ELSE 0)

\* A sweep has met the digest's hour of d.
Due(d) == 0 <= Evening(d) /\ (Evening(d) < hour \/ (Evening(d) = hour /\ swept > 0))

DayOK(d) ==
  LET m == Digest(d)
  IN /\ d # 0 /\ Due(d) /\ site.faults <= Retries /\ record[d] = "none" /\ m \notin dropped =>
          (\E t \in queue : t.mail = m) \/ \E w \in Worker : Running(w, m)
     /\ record[d] = "sent" => accepted[m] > 0 \/ ~site.address
     /\ record[d] = "skipped_empty" => listed[d] = {}
     /\ record[d] # "none" => Evening(d) <= hour
     /\ record[d] # "none" \/ (\E w \in Worker : Running(w, m)) =>
          \A l \in Tomorrow(d) : since[l] < Evening(d) => l \in listed[d]

IInv ==
  /\ TypeOK /\ (\A w \in Worker : JobOK(w)) /\ TasksOK
  /\ job \in [Worker -> {NoJob} \cup Job]
  /\ faults \in 0 .. site.faults /\ \A l \in Lesson : since[l] <= hour
  /\ SentOnce /\ DigestOnce /\ \A d \in Day : DayOK(d)
=============================================================================
