---------------------------- MODULE OutboxProofs ----------------------------
(***************************************************************************)
(* The properties of Outbox, proved for any number of lessons, workers,    *)
(* days, retries and failures.  All follow from IInv of OutboxProperties,  *)
(* which each action preserves.                                            *)
(***************************************************************************)
EXTENDS OutboxProperties, FiniteSetTheorems, TLAPS

\* The typing assumptions on the constants, as facts the proofs cite.
LEMMA Constants ==
  /\ LessonHour \in [Lesson -> Nat] /\ Retries \in Nat /\ MaxDay \in Nat
  /\ HoursPerDay \in Nat /\ HoursPerDay > 0
  /\ DigestHour \in Nat /\ DigestHour < HoursPerDay
  /\ \A s \in Site : /\ s.address \in BOOLEAN /\ s.offset \in Nat /\ s.calls \in Nat
                     /\ s.hours \in Nat /\ s.sweeps \in Nat /\ s.faults \in Nat
BY LessonAssumption, NumberAssumption, SiteAssumption

\* The mails of the handlers are no digests, and a digest is of one day.
LEMMA Mails ==
  /\ \A d \in Day : /\ Digest(d) \in Mail /\ Digest(d).kind = "digest" /\ Digest(d).of = d
                    /\ Digest(d).to = "teacher"
  /\ \A m \in Mail : m.kind = "digest" => m.of \in Day /\ m = Digest(m.of)
  /\ \A l \in Lesson :
       \A m \in Requested(l) \cup Confirmed(l) \cup Declined(l) \cup Cancelled(l)
                 \cup CancellationAsked(l) \cup DayAhead(l) \cup HourAhead(l) :
         m \in Mail /\ m.kind # "digest"
<1> DEFINE letters(l) == Requested(l) \cup Confirmed(l) \cup Declined(l) \cup Cancelled(l)
                           \cup CancellationAsked(l) \cup DayAhead(l) \cup HourAhead(l)
<1>1. \A d \in Day : Digest(d).kind = "digest" /\ Digest(d).of = d /\ Digest(d).to = "teacher"
  BY DEF Digest, Letter
<1>2. \A l \in Lesson : \A m \in letters(l) : m.kind # "digest"
  BY DEF Requested, Confirmed, Declined, Cancelled, CancellationAsked, DayAhead, HourAhead, Letter
<1>3. Mail = {Digest(d) : d \in Day} \cup UNION {letters(l) : l \in Lesson}
  BY DEF Mail
<1> HIDE DEF letters
<1>4. (\A d \in Day : Digest(d) \in Mail) /\ \A l \in Lesson : \A m \in letters(l) : m \in Mail
  BY <1>3
<1>5. \A m \in Mail : m.kind = "digest" => m.of \in Day /\ m = Digest(m.of)
  <2> SUFFICES ASSUME NEW m \in Mail, m.kind = "digest"
               PROVE  m.of \in Day /\ m = Digest(m.of)
    OBVIOUS
  <2>1. m \in {Digest(d) : d \in Day}
    BY <1>2, <1>3
  <2>2. PICK d \in Day : m = Digest(d)
    BY <2>1
  <2> QED BY <1>1, <2>2
<1>6. \A l \in Lesson : \A m \in letters(l) : m \in Mail /\ m.kind # "digest"
  BY <1>2, <1>4
<1> USE DEF letters
<1> QED BY <1>1, <1>4, <1>5, <1>6

\* The facts about the types that the steps use.
LEMMA Types ==
  ASSUME IInv
  PROVE  /\ site \in Site /\ site.hours \in Nat /\ site.sweeps \in Nat /\ site.faults \in Nat
         /\ site.offset \in Nat /\ site.address \in BOOLEAN
         /\ hour \in Nat /\ hour <= site.hours /\ swept \in Nat /\ swept <= site.sweeps + 1
         /\ faults \in Nat /\ faults <= site.faults
         /\ queue \subseteq Task /\ \A t \in Task : t.mail \in Mail /\ t.nth \in Nat /\ t.tries \in Nat
         /\ job \in [Worker -> {NoJob} \cup Job]
         /\ \A m \in Mail : enqueued[m] \in Nat /\ accepted[m] \in Nat /\ doubted[m] \in Nat
         /\ \A d \in Day : Evening(d) \in Int
         /\ \A l \in Lesson : since[l] \in Nat /\ since[l] <= hour
<1>1. /\ site \in Site /\ site.hours \in Nat /\ site.sweeps \in Nat /\ site.faults \in Nat
      /\ site.offset \in Nat /\ site.address \in BOOLEAN
  BY Constants DEF IInv, TypeOK
<1>2. /\ hour \in Nat /\ hour <= site.hours /\ swept \in Nat /\ swept <= site.sweeps + 1
      /\ faults \in Nat /\ faults <= site.faults
  BY <1>1 DEF IInv, TypeOK
<1>3. queue \subseteq Task /\ \A t \in Task : t.mail \in Mail /\ t.nth \in Nat /\ t.tries \in Nat
  BY Constants DEF IInv, TypeOK, Task
<1>4. \A m \in Mail : enqueued[m] \in Nat /\ accepted[m] \in Nat /\ doubted[m] \in Nat
  BY DEF IInv, TypeOK
<1>5. ASSUME NEW d \in Day PROVE Evening(d) \in Int
  <2>1. d \in Int /\ (d - 1) * HoursPerDay \in Int
    BY Constants DEF Day
  <2> QED BY <1>1, <2>1, Constants DEF Evening
<1>6. \A l \in Lesson : since[l] \in Nat /\ since[l] <= hour
  BY <1>1 DEF IInv, TypeOK
<1> QED BY <1>1, <1>2, <1>3, <1>4, <1>5, <1>6 DEF IInv

\* The teacher's hour and day are those of the digest of d exactly in the evening before d.
LEMMA EveningIs ==
  ASSUME IInv, NEW d \in Day
  PROVE  Evening(d) = hour <=> HourOf(hour) = DigestHour /\ DayOf(hour) + 1 = d
<1> DEFINE x == hour + site.offset
<1>1. x \in Int /\ d \in Int /\ HoursPerDay \in Nat /\ HoursPerDay > 0 /\ DigestHour \in Nat
      /\ DigestHour < HoursPerDay /\ hour \in Int /\ site.offset \in Int
  BY Types, Constants DEF Day
<1> HIDE DEF x
<1>2. /\ x \div HoursPerDay \in Int /\ x % HoursPerDay \in 0 .. HoursPerDay - 1
      /\ x = HoursPerDay * (x \div HoursPerDay) + (x % HoursPerDay)
  BY <1>1
<1>3. ASSUME NEW q \in Int, NEW r \in 0 .. HoursPerDay - 1,
             HoursPerDay * (x \div HoursPerDay) + (x % HoursPerDay) = HoursPerDay * q + r
      PROVE  x \div HoursPerDay = q /\ x % HoursPerDay = r
  BY <1>1, <1>2, <1>3
<1>4. hour = Evening(d) <=> x = HoursPerDay * (d - 1) + DigestHour
  <2>1. (d - 1) * HoursPerDay = HoursPerDay * (d - 1) /\ HoursPerDay * (d - 1) \in Int
    BY <1>1
  <2> QED BY <1>1, <2>1 DEF Evening, x
<1>5. DayOf(hour) = x \div HoursPerDay /\ HourOf(hour) = x % HoursPerDay
  BY DEF DayOf, HourOf, x
<1>6. ASSUME Evening(d) = hour PROVE x % HoursPerDay = DigestHour /\ x \div HoursPerDay = d - 1
  BY <1>1, <1>2, <1>3, <1>4, <1>6
<1>7. ASSUME x % HoursPerDay = DigestHour, x \div HoursPerDay + 1 = d PROVE Evening(d) = hour
  <2>1. x \div HoursPerDay = d - 1
    BY <1>1, <1>2, <1>7
  <2> QED BY <1>2, <1>4, <1>7, <2>1
<1> QED BY <1>1, <1>2, <1>5, <1>6, <1>7

-----------------------------------------------------------------------------
(* Counting what is sent and what is to be sent.                           *)

LEMMA PendingCount ==
  ASSUME IInv, NEW m \in Mail
  PROVE  /\ IsFiniteSet(Pending(m)) /\ Cardinality(Pending(m)) \in Nat
         /\ \A n \in Pending(m) : n \in 1 .. enqueued[m]
<1>1. Pending(m) \subseteq 1 .. enqueued[m] /\ enqueued[m] \in Nat
  BY Types DEF Pending
<1>2. IsFiniteSet(1 .. enqueued[m])
  BY <1>1, FS_Interval
<1> QED BY <1>1, <1>2, FS_Subset, FS_CardinalityType

\* A step that sends nothing more than it doubts, and asks for nothing.
LEMMA SentKept ==
  ASSUME IInv, NEW m \in Mail, m.kind # "digest", (enqueued[m])' = enqueued[m],
         Pending(m)' \subseteq Pending(m),
         (accepted[m])' \in Nat, (doubted[m])' \in Nat,
         (accepted[m])' - (doubted[m])' <= accepted[m] - doubted[m]
  PROVE  (accepted[m] + Cardinality(Pending(m)) <= enqueued[m] + doubted[m])'
<1>1. /\ enqueued[m] \in Nat /\ accepted[m] \in Nat /\ doubted[m] \in Nat
      /\ accepted[m] + Cardinality(Pending(m)) <= enqueued[m] + doubted[m]
  BY Types DEF IInv, SentOnce
<1>2. IsFiniteSet(Pending(m)) /\ Cardinality(Pending(m)) \in Nat
  BY PendingCount
<1>3. Cardinality(Pending(m)') \in Nat /\ Cardinality(Pending(m)') <= Cardinality(Pending(m))
  BY <1>2, FS_Subset, FS_CardinalityType
<1>4. Cardinality(Pending(m))' = Cardinality(Pending(m)')
  OBVIOUS
<1> QED BY <1>1, <1>2, <1>3, <1>4

\* What enqueueing does, whoever does it.
LEMMA Enqueued ==
  ASSUME IInv, NEW mails \in SUBSET Mail, Enqueue(mails),
         UNCHANGED <<site, hour, job, accepted, doubted>>,
         \A m \in mails : m.kind = "digest" => Evening(m.of) <= hour
  PROVE  /\ queue \subseteq queue' /\ queue' \subseteq Task /\ enqueued' \in [Mail -> Nat]
         /\ dropped \subseteq dropped' /\ dropped' \subseteq dropped \cup mails
         /\ faults' \in 0 .. site.faults
         /\ \A m \in mails : m \in dropped' \/ \E t \in queue' : t.mail = m
         /\ TasksOK' /\ SentOnce'
<1>1. PICK lost \in SUBSET mails :
        /\ queue' = queue \cup {[mail |-> m, nth |-> enqueued'[m], tries |-> 0] : m \in mails \ lost}
        /\ dropped' = dropped \cup lost
        /\ IF lost = {} THEN UNCHANGED faults ELSE Fail
  BY DEF Enqueue
<1> DEFINE new == {[mail |-> m, nth |-> enqueued'[m], tries |-> 0] : m \in mails \ lost}
<1>2. enqueued' = [m \in Mail |-> IF m \in mails THEN enqueued[m] + 1 ELSE enqueued[m]]
  BY DEF Enqueue
<1>3. /\ enqueued' \in [Mail -> Nat]
      /\ \A m \in Mail : /\ enqueued[m] \in Nat /\ enqueued'[m] \in Nat
                         /\ enqueued'[m] = IF m \in mails THEN enqueued[m] + 1 ELSE enqueued[m]
  BY <1>2, Types
<1>4. faults' \in 0 .. site.faults /\ faults <= faults' /\ faults' \in Nat
  BY <1>1, Types DEF Fail
<1>5. \A t \in new : /\ t \in Task /\ t.mail \in mails \ lost /\ t.nth = enqueued[t.mail] + 1
                     /\ t.tries = 0 /\ t.nth = enqueued'[t.mail]
  <2>1. ASSUME NEW m \in mails \ lost, NEW t, t = [mail |-> m, nth |-> enqueued'[m], tries |-> 0]
        PROVE  /\ t \in Task /\ t.mail \in mails \ lost /\ t.nth = enqueued[t.mail] + 1
               /\ t.tries = 0 /\ t.nth = enqueued'[t.mail]
    BY <1>3, <2>1, Constants DEF Task
  <2> QED BY <2>1
<1>6. queue' = queue \cup new
  BY <1>1
<1>7. ASSUME NEW s \in new, NEW t \in new, s.mail = t.mail PROVE s = t
  <2>1. PICK m \in mails \ lost : s = [mail |-> m, nth |-> enqueued'[m], tries |-> 0]
    OBVIOUS
  <2>2. PICK n \in mails \ lost : t = [mail |-> n, nth |-> enqueued'[n], tries |-> 0]
    OBVIOUS
  <2>3. m = n
    BY <1>7, <2>1, <2>2
  <2> QED BY <2>1, <2>2, <2>3
<1>8. ASSUME NEW m \in mails \ lost PROVE \E t \in new : t.mail = m
  <2>1. [mail |-> m, nth |-> enqueued'[m], tries |-> 0] \in new
    OBVIOUS
  <2> QED BY <2>1
<1> HIDE DEF new
<1>9. \A t \in queue : t \in Task /\ t.mail \in Mail /\ t.nth \in 1 .. enqueued[t.mail]
  BY Types DEF IInv, TasksOK, TaskOK
<1>10. ASSUME NEW w \in Worker, job[w] # NoJob
       PROVE  job[w].task \in Task /\ job[w].task.mail \in Mail
              /\ job[w].task.nth \in 1 .. enqueued[job[w].task.mail]
  BY <1>10, Types DEF IInv, TasksOK, TaskOK, Job
<1>11. /\ \A s \in queue, t \in new : ~Same(s, t)
       /\ \A w \in Worker, t \in new : job[w] # NoJob => ~Same(t, job[w].task)
  BY <1>3, <1>5, <1>9, <1>10 DEF Same
<1>12. ASSUME NEW t \in Task, TaskOK(t) PROVE TaskOK(t)'
  BY <1>3, <1>4, <1>12, Types DEF TaskOK, Evening
<1>13. ASSUME NEW t \in new PROVE TaskOK(t)'
  <2>1. t.nth \in 1 .. enqueued'[t.mail]
    BY <1>3, <1>5
  <2>2. t.tries <= faults'
    BY <1>4, <1>5
  <2>3. t.mail.kind = "digest" => Evening(t.mail.of) <= hour
    BY <1>5
  <2> QED BY <2>1, <2>2, <2>3 DEF TaskOK, Evening
<1>14. TasksOK'
  <2>1. TasksOK
    BY DEF IInv
  <2>2. ASSUME NEW t \in queue' PROVE TaskOK(t)' /\ \A s \in queue' : Same(s, t) => s = t
    <3>1. TaskOK(t)'
      BY <1>6, <1>9, <1>12, <1>13, <2>1 DEF TasksOK
    <3>2. ASSUME NEW s \in queue', Same(s, t) PROVE s = t
      BY <1>6, <1>7, <1>11, <2>1, <3>2 DEF TasksOK, Same
    <3> QED BY <3>1, <3>2
  <2>3. ASSUME NEW w \in Worker, job[w] # NoJob
        PROVE  TaskOK(job[w].task)' /\ \A t \in queue' : ~Same(t, job[w].task)
    BY <1>6, <1>10, <1>11, <1>12, <2>1, <2>3 DEF TasksOK
  <2> QED BY <2>1, <2>2, <2>3 DEF TasksOK, Same
<1>15. SentOnce'
  <2> SUFFICES ASSUME NEW m \in Mail, m.kind # "digest"
               PROVE  accepted[m] + Cardinality(Pending(m)') <= enqueued'[m] + doubted[m]
    BY DEF SentOnce
  <2> DEFINE P == Pending(m)
             Q == Pending(m)'
  <2>1. IsFiniteSet(P) /\ Cardinality(P) \in Nat
    BY PendingCount
  <2>2. /\ enqueued[m] \in Nat /\ accepted[m] \in Nat /\ doubted[m] \in Nat
        /\ accepted[m] + Cardinality(P) <= enqueued[m] + doubted[m]
    BY Types DEF IInv, SentOnce
  <2>3. CASE m \in mails
    <3>1. Q \subseteq P \cup {enqueued[m] + 1}
      BY <1>3, <1>5, <1>6, <1>9, <1>10, <2>3 DEF Pending, Running, IInv, JobOK
    <3>2. IsFiniteSet(P \cup {enqueued[m] + 1})
          /\ Cardinality(P \cup {enqueued[m] + 1}) <= Cardinality(P) + 1
          /\ Cardinality(P \cup {enqueued[m] + 1}) \in Nat
      <4> HIDE DEF P
      <4>1. IsFiniteSet(P \cup {enqueued[m] + 1})
            /\ Cardinality(P \cup {enqueued[m] + 1}) \in {Cardinality(P), Cardinality(P) + 1}
        BY <2>1, FS_AddElement
      <4> QED BY <2>1, <4>1
    <3> HIDE DEF P, Q
    <3>3. Cardinality(Q) <= Cardinality(P) + 1 /\ Cardinality(Q) \in Nat
      BY <2>1, <3>1, <3>2, FS_Subset, FS_CardinalityType
    <3> QED BY <1>3, <2>1, <2>2, <2>3, <3>3 DEF Q
  <2>4. CASE m \notin mails
    <3>1. Q \subseteq P
      BY <1>3, <1>5, <1>6, <1>9, <1>10, <2>4 DEF Pending, Running, IInv, JobOK
    <3> HIDE DEF P, Q
    <3>2. Cardinality(Q) <= Cardinality(P) /\ Cardinality(Q) \in Nat
      BY <2>1, <3>1, FS_Subset, FS_CardinalityType
    <3> QED BY <1>3, <2>1, <2>2, <2>4, <3>2 DEF Q
  <2> QED BY <2>3, <2>4
<1>16. \A m \in mails : m \in dropped' \/ \E t \in queue' : t.mail = m
  BY <1>1, <1>6, <1>8
<1>17. queue' \subseteq Task
  BY <1>5, <1>6, <1>9
<1> QED BY <1>1, <1>3, <1>4, <1>6, <1>14, <1>15, <1>16, <1>17

-----------------------------------------------------------------------------
(* Handlers and sweeps.                                                    *)

LEMMA InitIInv == Init => IInv
<1> SUFFICES ASSUME Init PROVE IInv
  OBVIOUS
<1>1. /\ site \in Site /\ site.hours \in Nat /\ site.sweeps \in Nat /\ site.faults \in Nat
      /\ site.offset \in Nat /\ site.standing \subseteq Lesson
  BY Constants, SiteAssumption DEF Init
<1>2. /\ queue = {} /\ \A w \in Worker : job[w] = NoJob
      /\ \A d \in Day : record[d] = "none"
      /\ \A m \in Mail : enqueued[m] = 0 /\ accepted[m] = 0 /\ doubted[m] = 0
      /\ \A l \in Lesson : since[l] = 0
      /\ hour = 0 /\ swept = 0 /\ faults = 0 /\ dropped = {} /\ skipped = {}
  BY DEF Init
<1>3. Digesting = {}
  BY <1>2 DEF Digesting
<1>4. TypeOK
  <2>1. /\ status \in [Lesson -> Status] /\ since \in [Lesson -> 0 .. site.hours]
        /\ hour \in 0 .. site.hours /\ swept \in 0 .. site.sweeps + 1
    BY <1>1 DEF Init, Status
  <2>2. /\ record \in [Day -> {"none", "sent", "skipped_empty"}]
        /\ {enqueued, accepted, doubted} \subseteq [Mail -> Nat]
        /\ listed \in [Day -> SUBSET Lesson]
    BY DEF Init
  <2>3. Cardinality(Digesting) <= 1
    BY <1>3, FS_EmptySet
  <2> QED BY <1>1, <1>2, <2>1, <2>2, <2>3 DEF TypeOK
<1>5. (\A w \in Worker : JobOK(w)) /\ TasksOK /\ job \in [Worker -> {NoJob} \cup Job]
  BY <1>2 DEF JobOK, TasksOK, Init
<1>6. SentOnce
  <2>1. \A m \in Mail : Pending(m) = {}
    BY <1>2 DEF Pending
  <2> QED BY <1>2, <2>1, FS_EmptySet DEF SentOnce
<1>7. DigestOnce
  <2>1. \A d \in Day : Digest(d) \in Mail
    BY Mails
  <2> QED BY <1>2, <1>3, <2>1 DEF DigestOnce, Running
<1>8. ASSUME NEW d \in Day PROVE DayOK(d)
  <2>1. ~Due(d)
    <3>1. Evening(d) \in Int
      <4>1. d \in Int /\ (d - 1) * HoursPerDay \in Int
        BY Constants DEF Day
      <4> QED BY <1>1, <4>1, Constants DEF Evening
    <3> QED BY <1>2, <3>1 DEF Due
  <2> QED BY <1>2, <2>1 DEF DayOK, Running
<1> QED BY <1>1, <1>2, <1>4, <1>5, <1>6, <1>7, <1>8 DEF IInv

\* A handler or a sweep runs no task.
LEMMA JobsKept ==
  ASSUME IInv, UNCHANGED <<site, job, accepted, doubted, record>>
  PROVE  /\ (\A w \in Worker : JobOK(w))' /\ DigestOnce' /\ Digesting' = Digesting
         /\ (job \in [Worker -> {NoJob} \cup Job])'
<1>1. (\A w \in Worker : JobOK(w))'
  BY DEF IInv, JobOK, HasAddress
<1>2. Digesting' = Digesting
  BY DEF Digesting
<1>3. DigestOnce'
  BY <1>2 DEF IInv, DigestOnce, Running
<1> QED BY <1>1, <1>2, <1>3 DEF IInv

\* A lesson that a handler takes into the teacher's day was there already, or is confirmed now.
LEMMA HandleStep ==
  ASSUME IInv, NEW l \in Lesson, NEW from, NEW to \in Status, NEW mails \in SUBSET Mail,
         \A m \in mails : m.kind # "digest",
         to \in {"confirmed", "asked"} =>
           from \subseteq {"confirmed", "asked"} \/ (from = {"pending"} /\ to = "confirmed"),
         Handle(l, from, to, mails)
  PROVE  IInv'
<1>1. /\ status[l] \in from /\ status' = [status EXCEPT ![l] = to] /\ Enqueue(mails)
      /\ since' = IF to = "confirmed" /\ status[l] = "pending" THEN [since EXCEPT ![l] = hour]
                  ELSE since
      /\ UNCHANGED <<site, hour, swept, job, record, accepted, doubted, skipped, listed>>
  BY DEF Handle
<1>2. /\ queue \subseteq queue' /\ queue' \subseteq Task /\ enqueued' \in [Mail -> Nat]
      /\ dropped \subseteq dropped' /\ dropped' \subseteq dropped \cup mails
      /\ faults' \in 0 .. site.faults
      /\ TasksOK' /\ SentOnce'
  BY <1>1, Enqueued
<1>3. /\ since' \in [Lesson -> 0 .. site.hours]
      /\ \A k \in Lesson : since'[k] <= hour /\ (since'[k] = since[k] \/ since'[k] = hour)
  <2>1. since \in [Lesson -> 0 .. site.hours] /\ hour \in 0 .. site.hours
        /\ \A k \in Lesson : since[k] \in Nat /\ since[k] <= hour
    BY Types DEF IInv, TypeOK
  <2>2. hour <= hour
    BY <2>1, Types
  <2> QED BY <1>1, <2>1, <2>2
<1>4. /\ (\A w \in Worker : JobOK(w))' /\ DigestOnce' /\ Digesting' = Digesting
      /\ (job \in [Worker -> {NoJob} \cup Job])'
  BY <1>1, JobsKept
<1>5. TypeOK'
  BY <1>1, <1>2, <1>3, <1>4 DEF IInv, TypeOK
<1>6. ASSUME NEW d \in Day PROVE DayOK(d)'
  <2>1. DayOK(d) /\ Evening(d) \in Int /\ Evening(d)' = Evening(d) /\ hour \in Nat
    BY <1>1, Types DEF IInv, Evening
  <2>2. Due(d)' = Due(d)
    BY <1>1, <2>1 DEF Due
  <2>3. ASSUME record[d] # "none" \/ \E w \in Worker : Running(w, Digest(d)) PROVE Evening(d) <= hour
    <3>1. CASE record[d] # "none"
      BY <2>1, <3>1 DEF DayOK
    <3>2. CASE \E w \in Worker : Running(w, Digest(d))
      <4>1. PICK w \in Worker : job[w] # NoJob /\ job[w].mail = Digest(d)
        BY <3>2 DEF Running
      <4>2. job[w].task.mail = Digest(d) /\ TaskOK(job[w].task)
        BY <4>1 DEF IInv, TasksOK, JobOK
      <4> QED BY <4>2, Mails DEF TaskOK
    <3> QED BY <2>3, <3>1, <3>2
  <2>4. ASSUME Evening(d) <= hour, NEW k \in Lesson, k \in Tomorrow(d)', since'[k] < Evening(d)
        PROVE  k \in Tomorrow(d) /\ since[k] < Evening(d)
    <3>1. since[k] < Evening(d) /\ since'[k] = since[k]
      BY <1>3, <2>1, <2>4, Types
    <3>2. CASE k # l
      BY <1>1, <2>4, <3>1, <3>2 DEF Tomorrow, IInv, TypeOK
    <3>3. CASE k = l
      <4>1. to \in {"confirmed", "asked"} /\ status \in [Lesson -> Status]
        BY <1>1, <2>4, <3>3 DEF Tomorrow, IInv, TypeOK
      <4>2. ~(status[l] = "pending" /\ to = "confirmed")
        BY <1>1, <2>1, <2>4, <3>1, <3>3, Types DEF IInv, TypeOK
      <4>3. status[l] \in {"confirmed", "asked"}
        BY <1>1, <4>1, <4>2
      <4> QED BY <1>1, <2>4, <3>1, <3>3, <4>3 DEF Tomorrow
    <3> QED BY <3>2, <3>3
  <2>5. /\ d # 0 /\ Due(d) /\ site.faults <= Retries /\ record[d] = "none"
           /\ Digest(d) \notin dropped' =>
             (\E t \in queue' : t.mail = Digest(d)) \/ \E w \in Worker : Running(w, Digest(d))
    BY <1>2, <2>1 DEF DayOK
  <2>6. record[d] # "none" \/ (\E w \in Worker : Running(w, Digest(d))) =>
          \A k \in Tomorrow(d)' : since'[k] < Evening(d) => k \in listed[d]
    BY <2>1, <2>3, <2>4 DEF DayOK, Tomorrow
  <2> QED BY <1>1, <2>1, <2>2, <2>5, <2>6 DEF DayOK, Running
<1> QED BY <1>1, <1>2, <1>3, <1>4, <1>5, <1>6 DEF IInv

\* What each handler does to a lesson.
LEMMA HandlerSteps ==
  ASSUME IInv, NEW l \in Lesson, Book(l) \/ Respond(l) \/ CancelLesson(l) \/ Ask(l) \/ Remind(l)
  PROVE  IInv'
<1> DEFINE letters == Requested(l) \cup Confirmed(l) \cup Declined(l) \cup Cancelled(l)
                        \cup CancellationAsked(l) \cup DayAhead(l) \cup HourAhead(l)
<1>1. \A m \in letters : m \in Mail /\ m.kind # "digest"
  BY Mails
<1>2. ASSUME NEW from, NEW to \in Status, NEW mails \in SUBSET letters,
             to \in {"confirmed", "asked"} =>
               from \subseteq {"confirmed", "asked"} \/ (from = {"pending"} /\ to = "confirmed"),
             Handle(l, from, to, mails)
      PROVE  IInv'
  BY <1>1, <1>2, HandleStep
<1>3. /\ Requested(l) \subseteq letters /\ Confirmed(l) \subseteq letters
      /\ Declined(l) \subseteq letters /\ Cancelled(l) \subseteq letters
      /\ CancellationAsked(l) \subseteq letters /\ DayAhead(l) \subseteq letters
      /\ HourAhead(l) \subseteq letters /\ {} \subseteq letters
  OBVIOUS
<1> HIDE DEF letters
<1>4. CASE Book(l)
  BY <1>2, <1>3, <1>4 DEF Book, Status
<1>5. CASE Respond(l)
  <2>1. CASE Handle(l, {"pending"}, "confirmed", Confirmed(l))
    BY <1>2, <1>3, <2>1 DEF Status
  <2>2. CASE Handle(l, {"pending"}, "cancelled", Declined(l))
    BY <1>2, <1>3, <2>2 DEF Status
  <2>3. CASE Handle(l, {"asked"}, "cancelled", Cancelled(l))
    BY <1>2, <1>3, <2>3 DEF Status
  <2>4. CASE Handle(l, {"asked"}, "confirmed", {})
    BY <1>2, <1>3, <2>4 DEF Status
  <2>5. ASSUME NEW to \in {"cancelled", "pending"}, Handle(l, {"withdrawn"}, to, {}) PROVE IInv'
    <3>1. to \in Status /\ to \notin {"confirmed", "asked"}
      BY DEF Status
    <3> QED BY <1>2, <1>3, <2>5, <3>1
  <2> QED BY <1>5, <2>1, <2>2, <2>3, <2>4, <2>5 DEF Respond
<1>6. CASE CancelLesson(l)
  <2>1. CASE Handle(l, {"pending", "withdrawn"}, "cancelled", {})
    BY <1>2, <1>3, <2>1 DEF Status
  <2>2. CASE Handle(l, {"confirmed", "asked"}, "cancelled", Cancelled(l))
    BY <1>2, <1>3, <2>2 DEF Status
  <2> QED BY <1>6, <2>1, <2>2 DEF CancelLesson
<1>7. CASE Ask(l)
  <2>1. CASE Handle(l, {"pending"}, "withdrawn", CancellationAsked(l))
    BY <1>2, <1>3, <2>1 DEF Status
  <2>2. CASE Handle(l, {"confirmed"}, "asked", CancellationAsked(l))
    BY <1>2, <1>3, <2>2 DEF Status
  <2> QED BY <1>7, <2>1, <2>2 DEF Ask
<1>8. CASE Remind(l)
  <2>1. PICK mails \in {DayAhead(l), HourAhead(l)}, s \in {"confirmed", "asked"} :
          Handle(l, {s}, s, mails)
    BY <1>8 DEF Remind
  <2>2. mails \in SUBSET letters
    BY <1>3
  <2> QED BY <1>2, <2>1, <2>2 DEF Status
<1> QED BY <1>4, <1>5, <1>6, <1>7, <1>8

\* A sweep meets the digest's hour at most once for each day, and enqueues the digest.
LEMMA SweepStep == ASSUME IInv, Sweep PROVE IInv'
<1> DEFINE e == DayOf(hour) + 1
           due == HourOf(hour) = DigestHour /\ record[e] = "none"
<1>1. /\ e \in Day /\ swept < (IF HourOf(hour) = DigestHour THEN site.sweeps ELSE 1)
      /\ swept' = swept + 1
      /\ IF due THEN Enqueue({Digest(e)}) ELSE UNCHANGED <<queue, enqueued, faults, dropped>>
      /\ UNCHANGED <<site, status, since, hour, job, record, accepted, doubted, skipped, listed>>
  BY DEF Sweep
<1> HIDE DEF e
<1>2. swept' \in 0 .. site.sweeps + 1
  BY <1>1, Types
<1>3. /\ (\A w \in Worker : JobOK(w))' /\ DigestOnce' /\ Digesting' = Digesting
      /\ (job \in [Worker -> {NoJob} \cup Job])'
  BY <1>1, JobsKept
<1>4. Digest(e) \in Mail /\ Digest(e).kind = "digest" /\ Digest(e).of = e
  BY <1>1, Mails
<1>5. /\ queue \subseteq queue' /\ queue' \subseteq Task /\ enqueued' \in [Mail -> Nat]
      /\ dropped \subseteq dropped' /\ dropped' \subseteq Mail
      /\ faults' \in 0 .. site.faults /\ TasksOK' /\ SentOnce'
      /\ due => Digest(e) \in dropped' \/ \E t \in queue' : t.mail = Digest(e)
  <2>1. CASE due
    <3>1. HourOf(hour) = DigestHour /\ DayOf(hour) + 1 = e
      BY <2>1 DEF e
    <3>2. Evening(e) = hour
      BY <1>1, <3>1, EveningIs
    <3>3. {Digest(e)} \in SUBSET Mail /\ \A m \in {Digest(e)} : Evening(m.of) <= hour
      BY <1>4, <3>2, Types
    <3>4. Enqueue({Digest(e)})
      BY <1>1, <2>1
    <3>5. /\ queue \subseteq queue' /\ queue' \subseteq Task /\ enqueued' \in [Mail -> Nat]
          /\ dropped \subseteq dropped' /\ dropped' \subseteq dropped \cup {Digest(e)}
          /\ faults' \in 0 .. site.faults
          /\ \A m \in {Digest(e)} : m \in dropped' \/ \E t \in queue' : t.mail = m
          /\ TasksOK' /\ SentOnce'
      BY <1>1, <3>3, <3>4, Enqueued
    <3> QED BY <1>4, <3>5 DEF IInv, TypeOK
  <2>2. CASE ~due
    <3>1. UNCHANGED <<queue, enqueued, faults, dropped, site, hour, job, accepted, doubted>>
      BY <1>1, <2>2
    <3>2. TasksOK' /\ SentOnce'
      BY <3>1 DEF IInv, TasksOK, TaskOK, SentOnce, Pending, Evening, Running
    <3> QED BY <2>2, <3>1, <3>2 DEF IInv, TypeOK
  <2> QED BY <2>1, <2>2
<1>6. TypeOK'
  BY <1>1, <1>2, <1>3, <1>5 DEF IInv, TypeOK
<1>7. ASSUME NEW d \in Day PROVE DayOK(d)'
  <2>1. DayOK(d) /\ Evening(d) \in Int /\ Evening(d)' = Evening(d) /\ hour' = hour /\ hour \in Nat
    BY <1>1, Types DEF IInv, Evening
  <2>2. ASSUME d # 0, Due(d)', site.faults <= Retries, record[d] = "none",
               Digest(d) \notin dropped'
        PROVE  (\E t \in queue' : t.mail = Digest(d)) \/ \E w \in Worker : Running(w, Digest(d))
    <3>1. CASE Due(d)
      BY <1>5, <2>1, <2>2, <3>1 DEF DayOK
    <3>2. CASE ~Due(d)
      <4>1. Evening(d) = hour
        BY <2>1, <2>2, <3>2 DEF Due
      <4>2. HourOf(hour) = DigestHour /\ d = e
        BY <4>1, EveningIs DEF e
      <4>3. due
        BY <2>2, <4>2
      <4> QED BY <1>5, <2>2, <4>2, <4>3
    <3> QED BY <3>1, <3>2
  <2>3. Tomorrow(d)' = Tomorrow(d)
    BY <1>1 DEF Tomorrow
  <2> QED BY <1>1, <2>1, <2>2, <2>3 DEF DayOK, Running
<1> QED BY <1>1, <1>3, <1>5, <1>6, <1>7, Types DEF IInv

\* An hour passes only once it was swept.
LEMMA TickStep == ASSUME IInv, Tick PROVE IInv'
<1>1. /\ hour < site.hours /\ swept > 0 /\ hour' = hour + 1 /\ swept' = 0
      /\ UNCHANGED <<site, status, since, queue, job, record, enqueued, accepted, doubted,
                     dropped, skipped, listed, faults>>
  BY DEF Tick
<1>2. hour \in Nat /\ hour' \in 0 .. site.hours /\ swept' \in 0 .. site.sweeps + 1 /\ hour <= hour'
  BY <1>1, Types
<1>3. /\ (\A w \in Worker : JobOK(w))' /\ DigestOnce' /\ Digesting' = Digesting
      /\ (job \in [Worker -> {NoJob} \cup Job])'
  BY <1>1, JobsKept
<1>4. TypeOK'
  BY <1>1, <1>2, <1>3 DEF IInv, TypeOK
<1>5. ASSUME NEW t \in Task, TaskOK(t) PROVE TaskOK(t)'
  <2>1. t.mail.kind = "digest" => Evening(t.mail.of) \in Int
    BY <1>5, Types, Mails
  <2> QED BY <1>1, <1>2, <1>5, <2>1 DEF TaskOK, Evening
<1>6. TasksOK'
  <2>1. \A w \in Worker : job[w] # NoJob => job[w].task \in Task
    BY Types DEF Job
  <2> QED BY <1>1, <1>5, <2>1, Types DEF IInv, TasksOK
<1>7. SentOnce'
  BY <1>1 DEF IInv, SentOnce, Pending, Running
<1>8. ASSUME NEW d \in Day PROVE DayOK(d)'
  <2>1. DayOK(d) /\ Evening(d) \in Int /\ Evening(d)' = Evening(d)
    BY <1>1, Types DEF IInv, Evening
  <2>2. Due(d)' => Due(d)
    BY <1>1, <1>2, <2>1 DEF Due
  <2>3. Tomorrow(d)' = Tomorrow(d)
    BY <1>1 DEF Tomorrow
  <2>4. record[d] # "none" => Evening(d) <= hour'
    BY <1>2, <2>1 DEF DayOK
  <2> QED BY <1>1, <2>1, <2>2, <2>3, <2>4 DEF DayOK, Running
<1>9. \A l \in Lesson : since'[l] <= hour'
  BY <1>1, <1>2, Types
<1> QED BY <1>1, <1>3, <1>4, <1>6, <1>7, <1>8, <1>9, Types DEF IInv

-----------------------------------------------------------------------------
(* Workers.                                                                *)

LEMMA AtMostOne == ASSUME NEW S, \A v, w \in S : v = w PROVE Cardinality(S) \in {0, 1}
<1>1. CASE S = {}
  BY <1>1, FS_EmptySet
<1>2. CASE S # {}
  <2>1. PICK v \in S : S = {v}
    BY <1>2
  <2> QED BY <2>1, FS_Singleton
<1> QED BY <1>1, <1>2

\* What a job is: its task was enqueued, and its mail is no digest but its worker's.
LEMMA Jobs ==
  ASSUME IInv, NEW w \in Worker, job[w] # NoJob
  PROVE  /\ job[w] \in Job /\ job[w].task \in Task /\ job[w].mail \in Mail
         /\ job[w].task.mail = job[w].mail /\ TaskOK(job[w].task)
         /\ job[w].taken \in BOOLEAN /\ job[w].pc \in {"send", "record"}
         /\ job[w].mail.kind = "digest" =>
              /\ w \in Digesting /\ \A v \in Digesting : v = w
              /\ job[w].mail.of \in Day /\ job[w].mail = Digest(job[w].mail.of)
<1>1. job[w] \in Job /\ job[w].task \in Task /\ job[w].mail \in Mail
      /\ job[w].taken \in BOOLEAN /\ job[w].pc \in {"send", "record"}
  BY DEF IInv, Job
<1>2. job[w].task.mail = job[w].mail /\ TaskOK(job[w].task)
  BY DEF IInv, JobOK, TasksOK
<1>3. job[w].mail.kind = "digest" => w \in Digesting /\ \A v \in Digesting : v = w
  BY DEF IInv, DigestOnce, Digesting
<1> QED BY <1>1, <1>2, <1>3, Mails

\* The digest of a day runs on one worker, and only when the day is not recorded.
LEMMA DigestJob ==
  ASSUME IInv, NEW d \in Day, NEW w \in Worker, Running(w, Digest(d))
  PROVE  /\ w \in Digesting /\ record[d] = "none" /\ Evening(d) <= hour
         /\ \A v \in Worker : Running(v, Digest(d)) => v = w
<1>1. job[w] # NoJob /\ job[w].mail = Digest(d) /\ Digest(d).kind = "digest" /\ Digest(d).of = d
  BY Mails DEF Running
<1>2. w \in Digesting /\ \A v \in Digesting : v = w
  BY <1>1, Jobs
<1>3. record[d] = "none"
  BY <1>1 DEF IInv, JobOK
<1>4. Evening(d) <= hour
  BY <1>1, Jobs DEF TaskOK
<1>5. \A v \in Worker : Running(v, Digest(d)) => v \in Digesting
  BY <1>1 DEF Running, Digesting
<1> QED BY <1>2, <1>3, <1>4, <1>5

\* A worker that lets its task go.
LEMMA Released ==
  ASSUME IInv, NEW w \in Worker, job[w] # NoJob, job' = [job EXCEPT ![w] = NoJob]
  PROVE  /\ (job \in [Worker -> {NoJob} \cup Job])'
         /\ \A v \in Worker : job'[v] # NoJob => v # w /\ job'[v] = job[v]
         /\ \A v \in Worker : v # w => job'[v] = job[v]
         /\ job'[w] = NoJob
         /\ Digesting' \subseteq Digesting /\ w \notin Digesting'
         /\ (Cardinality(Digesting) <= 1)'
<1>1. job \in [Worker -> {NoJob} \cup Job]
  BY DEF IInv
<1>2. Digesting' \subseteq Digesting /\ w \notin Digesting'
  BY <1>1 DEF Digesting
<1>3. \A v, u \in Digesting' : v = u
  BY <1>2 DEF IInv, DigestOnce
<1>4. Cardinality(Digesting') \in {0, 1}
  BY <1>3, AtMostOne
<1>5. Cardinality(Digesting)' = Cardinality(Digesting')
  OBVIOUS
<1> QED BY <1>1, <1>2, <1>4, <1>5

\* Tasks stay what they are when failures happen and nothing is asked for.
LEMMA TaskKept ==
  ASSUME IInv, UNCHANGED web, faults' \in Nat, faults <= faults', NEW t \in Task, TaskOK(t)
  PROVE  TaskOK(t)'
<1>1. UNCHANGED <<site, hour, enqueued>>
  BY DEF web
<1> QED BY <1>1, Types DEF TaskOK, Evening

\* A worker that lets its task go leaves the other tasks as they were.
LEMMA Dropped ==
  ASSUME IInv, NEW w \in Worker, job[w] # NoJob, job' = [job EXCEPT ![w] = NoJob],
         UNCHANGED <<web, queue>>, faults' \in Nat, faults <= faults'
  PROVE  TasksOK' /\ \A m \in Mail : Pending(m)' \subseteq Pending(m)
<1>1. \A v \in Worker : job'[v] # NoJob => v # w /\ job'[v] = job[v]
  BY Released
<1>2. UNCHANGED enqueued
  BY DEF web
<1>3. \A m \in Mail : Pending(m)' \subseteq Pending(m)
  BY <1>1, <1>2 DEF Pending, Running
<1>4. \A t \in Task : TaskOK(t) => TaskOK(t)'
  BY TaskKept
<1>5. TasksOK
  BY DEF IInv
<1>6. \A t \in queue : TaskOK(t)'
  BY <1>4, <1>5, Types DEF TasksOK
<1>7. \A v \in Worker, t \in Task : job[v] # NoJob /\ t = job[v].task => TaskOK(t)'
  BY <1>4, Jobs
<1>8. TasksOK'
  <2>1. ASSUME NEW v \in Worker, job'[v] # NoJob
        PROVE  /\ TaskOK(job[v].task)' /\ \A t \in queue : ~Same(t, job'[v].task)
               /\ \A u \in Worker : job'[u] # NoJob /\ Same(job'[u].task, job'[v].task) => u = v
    <3>1. job'[v] = job[v] /\ job[v] # NoJob /\ job[v].task \in Task
      BY <1>1, <2>1, Jobs
    <3>2. PICK t \in Task : t = job[v].task /\ t = job'[v].task
      BY <3>1
    <3>3. TaskOK(t)'
      BY <1>7, <3>1, <3>2
    <3>4. TaskOK(job[v].task)'
      BY <3>2, <3>3
    <3> QED BY <1>1, <1>5, <3>1, <3>4 DEF TasksOK
  <2> QED BY <1>5, <1>6, <2>1 DEF TasksOK, Same
<1> QED BY <1>3, <1>8

\* What the steps of workers leave alone.
LEMMA WebKept ==
  ASSUME IInv, UNCHANGED web
  PROVE  /\ UNCHANGED <<site, status, since, hour, swept, enqueued>>
         /\ \A d \in Day : /\ Evening(d)' = Evening(d) /\ Due(d)' = Due(d)
                           /\ Tomorrow(d)' = Tomorrow(d)
         /\ (\A l \in Lesson : since[l] <= hour)'
BY DEF web, Evening, Due, Tomorrow, IInv

\* A worker takes a task: it runs it, or finds that nothing is to be sent.
LEMMA TakeStep == ASSUME IInv, NEW w \in Worker, NEW t \in queue, Take(w, t) PROVE IInv'
<1> DEFINE m == t.mail
<1>1. /\ job[w].pc = "idle" /\ (m.kind = "digest" => ~Locked) /\ queue' = queue \ {t}
      /\ listed' = IF m.kind = "digest" /\ record[m.of] = "none"
                     THEN [listed EXCEPT ![m.of] = Schedule(m.of)] ELSE listed
      /\ UNCHANGED <<web, accepted, doubted, dropped, faults>>
  BY DEF Take
<1>2. /\ t \in Task /\ m \in Mail /\ TaskOK(t)
      /\ \A s \in queue : Same(s, t) => s = t
      /\ m.kind = "digest" => m.of \in Day /\ m = Digest(m.of)
  BY Types, Mails DEF IInv, TasksOK
<1>3. job[w] = NoJob /\ job \in [Worker -> {NoJob} \cup Job]
  BY <1>1 DEF IInv, Job
<1>4. m.kind = "digest" => Digesting = {}
  <2>1. \A v \in Digesting : job[v].pc # "idle" /\ job[v].mail.kind = "digest" /\ v \in Worker
    BY Jobs DEF Digesting
  <2> QED BY <1>1, <2>1 DEF Locked
<1>5. /\ UNCHANGED <<site, status, since, hour, swept, enqueued>>
      /\ \A d \in Day : /\ Evening(d)' = Evening(d) /\ Due(d)' = Due(d)
                        /\ Tomorrow(d)' = Tomorrow(d)
      /\ (\A l \in Lesson : since[l] <= hour)'
  BY <1>1, WebKept
<1> DEFINE empty == m.kind = "digest" /\ record[m.of] = "none" /\ ~ToSend(m)
           new == [pc |-> IF HasAddress(m) THEN "send" ELSE "record", mail |-> m,
                   task |-> t, taken |-> FALSE]
<1>6. \/ /\ ToSend(m) /\ job' = [job EXCEPT ![w] = new] /\ UNCHANGED <<record, skipped>>
      \/ /\ ~ToSend(m) /\ UNCHANGED job /\ skipped' = skipped \cup {m}
         /\ record' = IF empty THEN [record EXCEPT ![m.of] = "skipped_empty"] ELSE record
  BY DEF Take
<1>7. new \in Job /\ new # NoJob
  BY <1>2 DEF Job, NoJob
<1>8. \A d \in Day : Schedule(d) = Tomorrow(d)
  BY DEF Schedule, Tomorrow, DayOf
<1>9. job' \in [Worker -> {NoJob} \cup Job] /\ (\A v \in Worker : v # w => job'[v] = job[v])
      /\ job'[w] \in {NoJob, new} /\ (job'[w] = new => ToSend(m) /\ UNCHANGED record)
  BY <1>3, <1>6, <1>7
<1>10. \A v \in Worker : job[v] # NoJob => v # w /\ job'[v] = job[v]
  BY <1>3, <1>9
<1>11. /\ record' \in [Day -> {"none", "sent", "skipped_empty"}]
       /\ \A d \in Day : record'[d] = IF empty /\ d = m.of THEN "skipped_empty" ELSE record[d]
  BY <1>2, <1>6 DEF IInv, TypeOK
<1>12. /\ listed' \in [Day -> SUBSET Lesson]
       /\ \A d \in Day : listed'[d] = IF m.kind = "digest" /\ record[d] = "none" /\ d = m.of
                                        THEN Tomorrow(d) ELSE listed[d]
  <2>1. \A d \in Day : Schedule(d) \subseteq Lesson
    BY DEF Schedule
  <2> QED BY <1>1, <1>2, <1>8, <2>1 DEF IInv, TypeOK
<1> HIDE DEF new
<1>13. new.mail = m /\ new.task = t /\ new.taken = FALSE /\ (new.pc = "record" => ~HasAddress(m))
  BY DEF new
<1>14. /\ \A v \in Worker : v # w => (v \in Digesting' <=> v \in Digesting)
       /\ w \in Digesting' => m.kind = "digest"
  BY <1>9, <1>13 DEF Digesting
<1>15. \A u, v \in Digesting' : u = v
  BY <1>4, <1>14 DEF IInv, DigestOnce, Digesting
<1>16. TypeOK'
  <2>1. Cardinality(Digesting') \in {0, 1} /\ Cardinality(Digesting)' = Cardinality(Digesting')
    BY <1>15, AtMostOne
  <2>2. \A v \in Worker : job'[v] = NoJob \/ job'[v].mail \in Mail
    BY <1>9 DEF Job
  <2>3. skipped' \subseteq skipped \cup {m}
    BY <1>6
  <2> QED BY <1>1, <1>2, <1>5, <1>11, <1>12, <2>1, <2>2, <2>3 DEF IInv, TypeOK
<1>17. ASSUME NEW v \in Worker PROVE JobOK(v)'
  <2>1. CASE job'[v] = NoJob
    BY <2>1 DEF JobOK
  <2>2. CASE v = w /\ job'[v] = new
    <3>1. m.kind = "digest" => record'[m.of] = "none"
      BY <1>9, <2>2 DEF ToSend
    <3>2. ~HasAddress(m) => ~HasAddress(m)'
      BY <1>5 DEF HasAddress
    <3> QED BY <1>13, <2>2, <3>1, <3>2 DEF JobOK, HasAddress
  <2>3. CASE v # w /\ job[v] # NoJob
    <3>1. job'[v] = job[v] /\ JobOK(v)
      BY <1>9, <2>3 DEF IInv
    <3>2. job[v].mail.kind = "digest" => ~empty /\ record' = record
      <4>1. job[v].mail.kind = "digest" => v \in Digesting
        BY <2>3 DEF Digesting
      <4> QED BY <1>4, <1>6, <4>1
    <3> QED BY <1>1, <1>5, <2>3, <3>1, <3>2 DEF JobOK, HasAddress
  <2> QED BY <1>9, <2>1, <2>2, <2>3
<1>18. TasksOK'
  <2>1. UNCHANGED faults
    BY <1>1
  <2>2. \A s \in Task : TaskOK(s) => TaskOK(s)'
    BY <1>1, TaskKept, Types
  <2>3. TasksOK
    BY DEF IInv
  <2>4. \A s \in queue' : s \in queue /\ s # t /\ TaskOK(s)'
    BY <1>1, <2>2, <2>3, Types DEF TasksOK
  <2>5. \A s \in queue', r \in queue' : Same(r, s) => r = s
    BY <2>3, <2>4 DEF TasksOK
  <2>6. ASSUME NEW v \in Worker, job'[v] # NoJob
        PROVE  /\ TaskOK(job[v].task)' /\ \A s \in queue' : ~Same(s, job'[v].task)
               /\ \A u \in Worker : job'[u] # NoJob /\ Same(job'[u].task, job'[v].task) => u = v
    <3>1. \A u \in Worker : /\ u # w => job'[u] = job[u]
                            /\ job'[u] # NoJob /\ u = w => job'[u].task = t
      BY <1>9, <1>13
    <3>2. CASE v = w
      <4>1. TaskOK(t)' /\ job'[v].task = t
        BY <1>2, <2>2, <2>6, <3>1, <3>2
      <4>2. TaskOK(job[v].task)'
        BY <4>1
      <4>3. \A u \in Worker : job[u] # NoJob => ~Same(job[u].task, t)
        BY <2>3 DEF TasksOK, Same
      <4>4. \A s \in queue' : ~Same(s, t)
        BY <1>2, <2>4
      <4> QED BY <3>1, <3>2, <4>1, <4>2, <4>3, <4>4
    <3>3. CASE v # w
      <4>1. job'[v] = job[v] /\ job[v] # NoJob /\ job[v].task \in Task /\ TaskOK(job[v].task)
        BY <2>6, <3>1, <3>3, Jobs
      <4>2. PICK s \in Task : s = job[v].task /\ s = job'[v].task
        BY <4>1
      <4>3. TaskOK(s)'
        BY <2>2, <4>1, <4>2
      <4>4. TaskOK(job[v].task)'
        BY <4>2, <4>3
      <4>5. \A r \in queue : ~Same(r, job[v].task)
        BY <2>3, <4>1 DEF TasksOK
      <4>6. ~Same(t, job[v].task)
        BY <4>5
      <4>7. \A u \in Worker : job[u] # NoJob /\ Same(job[u].task, job[v].task) => u = v
        BY <2>3, <4>1 DEF TasksOK
      <4> QED BY <2>4, <3>1, <4>1, <4>4, <4>5, <4>6, <4>7
    <3> QED BY <3>2, <3>3
  <2> QED BY <2>4, <2>5, <2>6 DEF TasksOK, Same
<1>19. SentOnce'
  <2>1. \A n \in Mail : Pending(n)' \subseteq Pending(n)
    BY <1>1, <1>5, <1>9, <1>13 DEF Pending, Running
  <2> QED BY <1>1, <1>5, <2>1, SentKept, Types DEF SentOnce
<1>20. DigestOnce'
  <2>1. ASSUME NEW d \in Day, record[d] # "none" \/ \E v \in Worker : Running(v, Digest(d)) /\ job[v].taken
        PROVE  record'[d] # "none" \/ \E v \in Worker : Running(v, Digest(d))' /\ job'[v].taken
    BY <1>10, <1>11, <2>1 DEF Running
  <2>2. \A d \in Day : accepted[Digest(d)] \in Nat /\ doubted[Digest(d)] \in Nat
    BY Mails, Types
  <2> QED BY <1>1, <1>15, <2>1, <2>2 DEF IInv, DigestOnce
<1>21. ASSUME NEW d \in Day PROVE DayOK(d)'
  <2>1. DayOK(d) /\ Digest(d).kind = "digest" /\ Digest(d).of = d
    BY Mails DEF IInv
  <2>2. \A v \in Worker : Running(v, Digest(d)) => Running(v, Digest(d))'
    BY <1>10 DEF Running
  <2>3. ASSUME record'[d] = "none", NEW s \in queue, s.mail = Digest(d)
        PROVE  (\E r \in queue' : r.mail = Digest(d)) \/ \E v \in Worker : Running(v, Digest(d))'
    <3>1. CASE s # t
      BY <1>1, <2>3, <3>1
    <3>2. CASE s = t
      <4>1. m.kind = "digest" /\ m.of = d /\ ~empty /\ record[d] = "none"
        BY <1>11, <2>1, <2>3, <3>2
      <4>2. job'[w] = new
        BY <1>3, <1>6, <4>1
      <4> QED BY <1>7, <1>13, <2>3, <3>2, <4>2 DEF Running
    <3> QED BY <3>1, <3>2
  <2>4. record'[d] = "sent" => record[d] = "sent"
    BY <1>11
  <2>5. record'[d] = "skipped_empty" => listed'[d] = {}
    <3>1. CASE empty /\ d = m.of
      <4>1. Schedule(d) = {}
        BY <3>1 DEF ToSend
      <4> QED BY <1>8, <1>12, <3>1, <4>1
    <3>2. CASE ~(empty /\ d = m.of)
      BY <1>11, <1>12, <2>1, <3>2 DEF DayOK
    <3> QED BY <3>1, <3>2
  <2>6. record'[d] # "none" => Evening(d) <= hour
    BY <1>2, <1>11, <2>1 DEF DayOK, TaskOK
  <2>7. ASSUME record'[d] # "none" \/ \E v \in Worker : Running(v, Digest(d))', NEW l \in Tomorrow(d),
               since[l] < Evening(d)
        PROVE  l \in listed'[d]
    <3>1. CASE m.kind = "digest" /\ record[d] = "none" /\ d = m.of
      BY <1>12, <2>7, <3>1
    <3>2. CASE ~(m.kind = "digest" /\ record[d] = "none" /\ d = m.of)
      <4>1. listed'[d] = listed[d] /\ record'[d] = record[d]
        BY <1>11, <1>12, <3>2
      <4>2. \A v \in Worker : Running(v, Digest(d))' => v # w \/ record[d] # "none"
        BY <1>9, <1>13, <2>1, <3>2 DEF Running, ToSend
      <4>3. record[d] # "none" \/ \E v \in Worker : Running(v, Digest(d))
        BY <1>9, <2>7, <4>1, <4>2 DEF Running
      <4> QED BY <2>1, <2>7, <4>1, <4>3 DEF DayOK
    <3> QED BY <3>1, <3>2
  <2>8. d # 0 /\ Due(d) /\ site.faults <= Retries /\ record'[d] = "none" /\ Digest(d) \notin dropped
          => (\E r \in queue' : r.mail = Digest(d)) \/ \E v \in Worker : Running(v, Digest(d))'
    BY <1>11, <2>1, <2>2, <2>3 DEF DayOK
  <2> QED BY <1>1, <1>5, <2>1, <2>4, <2>5, <2>6, <2>7, <2>8 DEF DayOK
<1>22. faults' \in 0 .. site.faults'
  BY <1>1, <1>5, Types
<1> QED BY <1>5, <1>9, <1>16, <1>17, <1>18, <1>19, <1>20, <1>21, <1>22 DEF IInv

LEMMA Recorded ==
  ASSUME NEW j \in Job
  PROVE  [j EXCEPT !.pc = "record", !.taken = TRUE]
           = [pc |-> "record", mail |-> j.mail, task |-> j.task, taken |-> TRUE]
<1>1. PICK g : g = [j EXCEPT !.pc = "record", !.taken = TRUE]
  OBVIOUS
<1>2. g \in Job
  BY <1>1 DEF Job
<1>3. g.pc = "record" /\ g.mail = j.mail /\ g.task = j.task /\ g.taken = TRUE
  BY <1>1 DEF Job
<1>4. g = [pc |-> "record", mail |-> j.mail, task |-> j.task, taken |-> TRUE]
  BY <1>2, <1>3 DEF Job
<1> QED BY <1>1, <1>4

\* What is to be sent is one less when the provider takes it.
LEMMA SendStep == ASSUME IInv, NEW w \in Worker, Send(w) PROVE IInv'
<1> DEFINE m == job[w].mail
<1>1. /\ job[w].pc = "send" /\ accepted' = [accepted EXCEPT ![m] = @ + 1]
      /\ job' = [job EXCEPT ![w].pc = "record", ![w].taken = TRUE]
      /\ UNCHANGED <<web, queue, record, doubted, dropped, skipped, listed, faults>>
  BY DEF Send
<1>2. job[w] # NoJob
  BY <1>1 DEF NoJob
<1>3. /\ job[w] \in Job /\ job[w].task \in Task /\ m \in Mail /\ job[w].task.mail = m
      /\ ~job[w].taken /\ JobOK(w)
      /\ m.kind = "digest" =>
           w \in Digesting /\ (\A v \in Digesting : v = w) /\ m.of \in Day /\ m = Digest(m.of)
  BY <1>1, <1>2, Jobs DEF IInv, JobOK
<1>4. /\ UNCHANGED <<site, status, since, hour, swept, enqueued>>
      /\ \A d \in Day : /\ Evening(d)' = Evening(d) /\ Due(d)' = Due(d)
                        /\ Tomorrow(d)' = Tomorrow(d)
      /\ (\A l \in Lesson : since[l] <= hour)'
  BY <1>1, WebKept
<1>5. /\ job' \in [Worker -> {NoJob} \cup Job] /\ (\A v \in Worker : v # w => job'[v] = job[v])
      /\ job'[w] # NoJob /\ job'[w].mail = m /\ job'[w].task = job[w].task /\ job'[w].taken
      /\ job'[w].pc = "record"
  <2>1. job \in [Worker -> {NoJob} \cup Job]
    BY DEF IInv
  <2>2. job' = [job EXCEPT ![w] = [job[w] EXCEPT !.pc = "record", !.taken = TRUE]]
    BY <1>1
  <2>3. [job[w] EXCEPT !.pc = "record", !.taken = TRUE]
          = [pc |-> "record", mail |-> m, task |-> job[w].task, taken |-> TRUE]
    BY <1>3, Recorded
  <2>4. [pc |-> "record", mail |-> m, task |-> job[w].task, taken |-> TRUE] \in Job
    BY <1>3 DEF Job
  <2>5. job'[w] = [pc |-> "record", mail |-> m, task |-> job[w].task, taken |-> TRUE]
    BY <2>1, <2>2, <2>3
  <2> QED BY <2>1, <2>2, <2>3, <2>4, <2>5 DEF NoJob
<1>6. /\ accepted' \in [Mail -> Nat]
      /\ \A n \in Mail : /\ accepted[n] \in Nat /\ doubted[n] \in Nat /\ accepted'[n] \in Nat
                         /\ accepted'[n] = IF n = m THEN accepted[n] + 1 ELSE accepted[n]
  <2>1. accepted \in [Mail -> Nat] /\ \A n \in Mail : doubted[n] \in Nat
    BY Types DEF IInv, TypeOK
  <2> QED BY <1>1, <1>3, <2>1
<1>7. Digesting' = Digesting
  BY <1>2, <1>5 DEF Digesting
<1>8. TypeOK'
  <2>1. \A v \in Worker : job'[v] = NoJob \/ job'[v].mail \in Mail
    BY <1>5 DEF Job
  <2> QED BY <1>1, <1>4, <1>6, <1>7, <2>1 DEF IInv, TypeOK
<1>9. ASSUME NEW v \in Worker PROVE JobOK(v)'
  <2>1. CASE v = w
    <3>1. accepted'[m] > 0
      BY <1>3, <1>6
    <3>2. m.kind = "digest" => record'[m.of] = "none"
      BY <1>1, <1>2, <1>3 DEF JobOK
    <3> QED BY <1>3, <1>5, <2>1, <3>1, <3>2 DEF JobOK
  <2>2. CASE v # w
    <3>1. JobOK(v) /\ job'[v] = job[v] /\ (job[v] # NoJob => job[v].mail \in Mail)
      BY <1>5, <2>2, Jobs DEF IInv
    <3> QED BY <1>1, <1>4, <1>6, <3>1 DEF JobOK, HasAddress
  <2> QED BY <2>1, <2>2
<1>10. TasksOK'
  <2>1. TasksOK /\ \A t \in Task : TaskOK(t) => TaskOK(t)'
    BY <1>1, TaskKept, Types DEF IInv
  <2>2. \A t \in queue : TaskOK(t)'
    BY <2>1, Types DEF TasksOK
  <2>3. \A v \in Worker : (job'[v] # NoJob <=> job[v] # NoJob) /\ job'[v].task = job[v].task
    BY <1>2, <1>5
  <2>4. ASSUME NEW v \in Worker, job'[v] # NoJob
        PROVE  /\ TaskOK(job[v].task)' /\ \A r \in queue' : ~Same(r, job'[v].task)
               /\ \A u \in Worker : job'[u] # NoJob /\ Same(job'[u].task, job'[v].task) => u = v
    <3>1. job[v].task \in Task /\ TaskOK(job[v].task) /\ job[v] # NoJob
      BY <2>3, <2>4, Jobs
    <3>2. PICK t \in Task : t = job[v].task /\ t = job'[v].task
      BY <2>3, <3>1
    <3>3. TaskOK(t)'
      BY <2>1, <3>1, <3>2
    <3>4. TaskOK(job[v].task)'
      BY <3>2, <3>3
    <3>5. \A r \in queue : ~Same(r, job[v].task)
      BY <2>1, <3>1 DEF TasksOK
    <3>6. \A u \in Worker : job[u] # NoJob /\ Same(job[u].task, job[v].task) => u = v
      BY <2>1, <3>1 DEF TasksOK
    <3> QED BY <1>1, <2>3, <3>4, <3>5, <3>6
  <2> QED BY <1>1, <2>1, <2>2, <2>4 DEF TasksOK, Same
<1>11. SentOnce'
  <2> SUFFICES ASSUME NEW n \in Mail, n.kind # "digest"
               PROVE  accepted'[n] + Cardinality(Pending(n)') <= enqueued'[n] + doubted'[n]
    BY DEF SentOnce
  <2>1. Pending(n)' \subseteq Pending(n)
    BY <1>1, <1>2, <1>4, <1>5 DEF Pending, Running
  <2>2. CASE n # m
    <3>1. (accepted[n] + Cardinality(Pending(n)) <= enqueued[n] + doubted[n])'
      BY <1>1, <1>4, <1>6, <2>1, <2>2, SentKept
    <3> QED BY <3>1
  <2>3. CASE n = m
    <3> DEFINE k == job[w].task.nth
    <3>1. k \in Pending(n)
      <4>1. k \in 1 .. enqueued[n]
        BY <1>2, <1>3, <2>3, Jobs DEF TaskOK
      <4> QED BY <1>2, <1>3, <2>3, <4>1 DEF Pending, Running
    <3>2. k \notin Pending(n)'
      <4>1. \A t \in queue : ~(t.mail = n /\ t.nth = k)
        BY <1>2, <1>3, <2>3 DEF IInv, TasksOK, Same
      <4>2. ASSUME NEW v \in Worker, Running(v, n)', job'[v].task.nth = k, ~job'[v].taken
            PROVE  FALSE
        <5>1. v # w /\ job'[v] = job[v] /\ job[v] # NoJob /\ job[v].mail = n
          BY <1>5, <4>2 DEF Running
        <5>2. job[v].task.mail = n /\ job[v].task.nth = k
          BY <4>2, <5>1, Jobs
        <5>3. Same(job[v].task, job[w].task)
          BY <1>3, <2>3, <5>2 DEF Same
        <5> QED BY <1>2, <5>1, <5>3 DEF IInv, TasksOK
      <4> QED BY <1>1, <4>1, <4>2 DEF Pending
    <3>3. IsFiniteSet(Pending(n)) /\ Cardinality(Pending(n)) \in Nat
      BY PendingCount
    <3>4. Cardinality(Pending(n) \ {k}) = Cardinality(Pending(n)) - 1 /\ IsFiniteSet(Pending(n) \ {k})
      BY <3>1, <3>3, FS_RemoveElement
    <3>5. Pending(n)' \subseteq Pending(n) \ {k}
      BY <2>1, <3>2
    <3>6. Cardinality(Pending(n)') \in Nat /\ Cardinality(Pending(n)') <= Cardinality(Pending(n)) - 1
      <4>1. Cardinality(Pending(n)') \in Nat
        BY <3>4, <3>5, FS_Subset, FS_CardinalityType
      <4> QED BY <3>4, <3>5, <4>1, FS_Subset
    <3>7. accepted[n] + Cardinality(Pending(n)) <= enqueued[n] + doubted[n] /\ enqueued[n] \in Nat
      BY Types DEF IInv, SentOnce
    <3>8. accepted'[n] = accepted[n] + 1 /\ enqueued'[n] = enqueued[n] /\ doubted'[n] = doubted[n]
      BY <1>1, <1>4, <1>6, <2>3
    <3> QED BY <1>6, <3>3, <3>6, <3>7, <3>8
  <2> QED BY <2>2, <2>3
<1>12. DigestOnce'
  <2> SUFFICES ASSUME NEW d \in Day
               PROVE  accepted'[Digest(d)] <= doubted'[Digest(d)]
                        + (IF record'[d] # "none"
                                \/ \E v \in Worker : Running(v, Digest(d))' /\ job'[v].taken
                             THEN 1 ELSE 0)
    BY <1>7 DEF DigestOnce, IInv
  <2>1. /\ Digest(d) \in Mail /\ Digest(d).kind = "digest"
        /\ accepted[Digest(d)] <= doubted[Digest(d)]
             + (IF record[d] # "none" \/ \E v \in Worker : Running(v, Digest(d)) /\ job[v].taken
                  THEN 1 ELSE 0)
    BY Mails DEF IInv, DigestOnce
  <2>2. CASE Digest(d) = m
    <3>1. Running(w, Digest(d)) /\ Running(w, Digest(d))'
      BY <1>2, <1>5, <2>2 DEF Running
    <3>2. record[d] = "none" /\ \A v \in Worker : Running(v, Digest(d)) => v = w
      BY <3>1, DigestJob
    <3>3. accepted[Digest(d)] <= doubted[Digest(d)]
      BY <1>3, <1>6, <2>1, <3>2
    <3> QED BY <1>1, <1>5, <1>6, <2>1, <2>2, <3>1, <3>3
  <2>3. CASE Digest(d) # m
    <3>1. \A v \in Worker : Running(v, Digest(d)) => Running(v, Digest(d))' /\ job'[v] = job[v]
      BY <1>5, <2>3 DEF Running
    <3>2. accepted'[Digest(d)] = accepted[Digest(d)] /\ doubted'[Digest(d)] = doubted[Digest(d)]
      BY <1>1, <1>6, <2>1, <2>3
    <3>3. record[d] # "none" \/ (\E v \in Worker : Running(v, Digest(d)) /\ job[v].taken) =>
            record'[d] # "none" \/ \E v \in Worker : Running(v, Digest(d))' /\ job'[v].taken
      BY <1>1, <3>1
    <3> QED BY <1>6, <2>1, <3>2, <3>3
  <2> QED BY <2>2, <2>3
<1>13. ASSUME NEW d \in Day PROVE DayOK(d)'
  <2>1. DayOK(d) /\ Digest(d) \in Mail
    BY Mails DEF IInv
  <2>2. \A v \in Worker : Running(v, Digest(d))' <=> Running(v, Digest(d))
    BY <1>2, <1>5 DEF Running
  <2>3. accepted[Digest(d)] > 0 => accepted'[Digest(d)] > 0
    BY <1>6, <2>1
  <2> QED BY <1>1, <1>4, <2>1, <2>2, <2>3 DEF DayOK
<1>14. faults' \in 0 .. site.faults'
  BY <1>1, <1>4, Types
<1> QED BY <1>4, <1>5, <1>8, <1>9, <1>10, <1>11, <1>12, <1>13, <1>14 DEF IInv

\* Jobs stay what they are when the sending of others goes on.
LEMMA JobKept ==
  ASSUME IInv, NEW v \in Worker, job'[v] = job[v], UNCHANGED web,
         \A m \in Mail : accepted[m] \in Nat /\ accepted'[m] \in Nat /\ accepted[m] <= accepted'[m],
         job[v] # NoJob /\ job[v].mail.kind = "digest" =>
           record'[job[v].mail.of] = record[job[v].mail.of]
  PROVE  JobOK(v)'
<1>1. site' = site
  BY DEF web
<1>2. CASE job[v] = NoJob
  BY <1>2 DEF JobOK
<1>3. CASE job[v] # NoJob
  <2>1. JobOK(v) /\ job[v].mail \in Mail
    BY <1>3, Jobs DEF IInv
  <2>2. accepted[job[v].mail] > 0 => accepted'[job[v].mail] > 0
    BY <2>1
  <2>3. job[v].mail.kind = "digest" => record'[job[v].mail.of] = record[job[v].mail.of]
    BY <1>3
  <2>4. job'[v] = job[v]
    OBVIOUS
  <2>5. /\ job[v].task.mail = job[v].mail
        /\ job[v].pc = "send" => ~job[v].taken
        /\ job[v].taken => accepted[job[v].mail] > 0
        /\ job[v].pc = "record" /\ ~job[v].taken => ~HasAddress(job[v].mail)
        /\ job[v].mail.kind = "digest" => record[job[v].mail.of] = "none"
    BY <1>3, <2>1 DEF JobOK
  <2> QED BY <1>1, <2>2, <2>3, <2>4, <2>5 DEF JobOK, HasAddress
<1> QED BY <1>2, <1>3

\* A digest that is let go counts as sent only if it was taken.
LEMMA DigestLetGo ==
  ASSUME IInv, NEW w \in Worker, job[w] # NoJob, job' = [job EXCEPT ![w] = NoJob],
         NEW d \in Day, record'[d] = record[d],
         accepted'[Digest(d)] \in Nat, doubted'[Digest(d)] \in Nat,
         accepted'[Digest(d)] - doubted'[Digest(d)] <=
           accepted[Digest(d)] - doubted[Digest(d)]
             - (IF Running(w, Digest(d)) /\ job[w].taken THEN 1 ELSE 0)
  PROVE  accepted'[Digest(d)] <= doubted'[Digest(d)]
           + (IF record'[d] # "none" \/ \E v \in Worker : Running(v, Digest(d))' /\ job'[v].taken
                THEN 1 ELSE 0)
<1>1. /\ accepted[Digest(d)] \in Nat /\ doubted[Digest(d)] \in Nat
      /\ accepted[Digest(d)] <= doubted[Digest(d)]
           + (IF record[d] # "none" \/ \E v \in Worker : Running(v, Digest(d)) /\ job[v].taken
                THEN 1 ELSE 0)
  BY Mails, Types DEF IInv, DigestOnce
<1>2. \A v \in Worker : v # w => job'[v] = job[v]
  BY Released
<1>3. CASE Running(w, Digest(d)) /\ job[w].taken
  <2>1. record[d] = "none" /\ accepted[Digest(d)] <= doubted[Digest(d)] + 1
    BY <1>1, <1>3, DigestJob
  <2> QED BY <1>1, <1>3, <2>1
<1>4. CASE ~(Running(w, Digest(d)) /\ job[w].taken)
  <2>1. record[d] # "none" \/ (\E v \in Worker : Running(v, Digest(d)) /\ job[v].taken) =>
          record'[d] # "none" \/ \E v \in Worker : Running(v, Digest(d))' /\ job'[v].taken
    <3>1. \A v \in Worker : Running(v, Digest(d)) /\ job[v].taken =>
                              Running(v, Digest(d))' /\ job'[v].taken
      BY <1>2, <1>4 DEF Running
    <3> QED BY <3>1
  <2> QED BY <1>1, <1>4, <2>1
<1> QED BY <1>3, <1>4

\* An error sends the task back to the queue, and leaves in doubt what was taken.
LEMMA ErrorStep == ASSUME IInv, NEW w \in Worker, Error(w) PROVE IInv'
<1> DEFINE m == job[w].mail
           t == job[w].task
<1>1. /\ job[w].pc = "send" /\ faults < site.faults /\ faults' = faults + 1
      /\ queue' = queue \cup Again(t) /\ job' = [job EXCEPT ![w] = NoJob]
      /\ UNCHANGED <<web, record, dropped, skipped, listed>>
  BY DEF Error, Fail
<1>2. PICK taken \in {0, 1} :
        /\ accepted' = [accepted EXCEPT ![m] = @ + taken]
        /\ doubted' = [doubted EXCEPT ![m] = @ + taken]
  BY DEF Error
<1>3. job[w] # NoJob
  BY <1>1 DEF NoJob
<1>4. /\ t \in Task /\ m \in Mail /\ t.mail = m /\ TaskOK(t) /\ ~job[w].taken
  BY <1>1, <1>3, Jobs DEF IInv, JobOK
<1>5. /\ UNCHANGED <<site, status, since, hour, swept, enqueued>>
      /\ \A d \in Day : /\ Evening(d)' = Evening(d) /\ Due(d)' = Due(d)
                        /\ Tomorrow(d)' = Tomorrow(d)
      /\ (\A l \in Lesson : since[l] <= hour)'
  BY <1>1, WebKept
<1>6. /\ (job \in [Worker -> {NoJob} \cup Job])'
      /\ \A v \in Worker : job'[v] # NoJob => v # w /\ job'[v] = job[v]
      /\ \A v \in Worker : v # w => job'[v] = job[v]
      /\ job'[w] = NoJob /\ Digesting' \subseteq Digesting /\ (Cardinality(Digesting) <= 1)'
  BY <1>1, <1>3, Released
<1>7. /\ accepted' \in [Mail -> Nat] /\ doubted' \in [Mail -> Nat]
      /\ \A n \in Mail : /\ accepted[n] \in Nat /\ doubted[n] \in Nat
                         /\ accepted'[n] \in Nat /\ doubted'[n] \in Nat /\ accepted[n] <= accepted'[n]
                         /\ accepted'[n] - doubted'[n] = accepted[n] - doubted[n]
  <2>1. accepted \in [Mail -> Nat] /\ doubted \in [Mail -> Nat]
    BY DEF IInv, TypeOK
  <2> QED BY <1>2, <1>4, <2>1
<1>8. faults \in Nat /\ faults' \in Nat /\ faults <= faults' /\ faults' \in 0 .. site.faults'
  BY <1>1, <1>5, Types
<1>9. PICK s : s = [t EXCEPT !.tries = @ + 1]
  OBVIOUS
<1>10. /\ Again(t) = (IF t.tries < Retries THEN {s} ELSE {}) /\ t.tries \in Nat
       /\ s.mail = m /\ s.nth = t.nth /\ s.tries = t.tries + 1
       /\ t.tries < Retries => s \in Task
  BY <1>4, <1>9, Types, Constants DEF Again, Task
<1>11. TaskOK(s)' /\ Same(s, t)
  <2>1. t.nth \in 1 .. enqueued[m] /\ t.tries <= faults
        /\ (m.kind = "digest" => Evening(m.of) <= hour)
    BY <1>4 DEF TaskOK
  <2>2. s.tries <= faults'
    BY <1>1, <1>8, <1>10, <2>1
  <2> QED BY <1>4, <1>5, <1>10, <2>1, <2>2 DEF TaskOK, Same, Evening
<1>12. queue' \subseteq queue \cup {s} /\ queue' \subseteq Task /\ queue \subseteq queue'
  BY <1>1, <1>10, Types
<1>13. TypeOK'
  <2>1. \A v \in Worker : job'[v] = NoJob \/ job'[v].mail \in Mail
    BY <1>6 DEF Job
  <2> QED BY <1>1, <1>5, <1>6, <1>7, <1>12, <2>1 DEF IInv, TypeOK
<1>14. ASSUME NEW v \in Worker PROVE JobOK(v)'
  <2>1. CASE v = w
    BY <1>6, <2>1 DEF JobOK
  <2>2. CASE v # w
    BY <1>1, <1>6, <1>7, <2>2, JobKept
  <2> QED BY <2>1, <2>2
<1>15. TasksOK'
  <2>1. TasksOK /\ \A r \in Task : TaskOK(r) => TaskOK(r)'
    BY <1>1, <1>8, TaskKept DEF IInv
  <2>2. \A r \in queue' : TaskOK(r)'
    BY <1>11, <1>12, <2>1, Types DEF TasksOK
  <2>3. \A r \in queue : ~Same(r, t)
    BY <1>3, <2>1 DEF TasksOK
  <2>4. ASSUME NEW r \in queue', NEW q \in queue', Same(q, r) PROVE q = r
    <3>1. r \in queue /\ q \in queue => q = r
      BY <2>1, <2>4 DEF TasksOK
    <3>2. r = s /\ q \in queue => FALSE
      BY <1>11, <2>3, <2>4 DEF Same
    <3>3. q = s /\ r \in queue => FALSE
      BY <1>11, <2>3, <2>4 DEF Same
    <3> QED BY <1>12, <3>1, <3>2, <3>3
  <2>5. ASSUME NEW v \in Worker, job'[v] # NoJob
        PROVE  /\ TaskOK(job[v].task)' /\ \A r \in queue' : ~Same(r, job'[v].task)
               /\ \A u \in Worker : job'[u] # NoJob /\ Same(job'[u].task, job'[v].task) => u = v
    <3>1. /\ v # w /\ job'[v] = job[v] /\ job[v] # NoJob /\ job[v].task \in Task
          /\ TaskOK(job[v].task)
      BY <1>6, <2>5, Jobs
    <3>2. PICK r \in Task : r = job[v].task /\ r = job'[v].task
      BY <3>1
    <3>3. TaskOK(r)'
      BY <2>1, <3>1, <3>2
    <3>4. TaskOK(job[v].task)'
      BY <3>2, <3>3
    <3>5. \A q \in queue : ~Same(q, job[v].task)
      BY <2>1, <3>1 DEF TasksOK
    <3>6. \A u \in Worker : job[u] # NoJob /\ Same(job[u].task, job[v].task) => u = v
      BY <2>1, <3>1 DEF TasksOK
    <3>7. ~Same(s, job[v].task)
      BY <1>3, <1>11, <3>1, <3>6 DEF Same
    <3> QED BY <1>6, <1>12, <3>1, <3>4, <3>5, <3>6, <3>7
  <2> QED BY <2>2, <2>4, <2>5 DEF TasksOK
<1>16. SentOnce'
  <2>1. ASSUME NEW n \in Mail, NEW k \in Pending(n)' PROVE k \in Pending(n)
    <3>1. k \in 1 .. enqueued[n]
      BY <1>5 DEF Pending
    <3>2. CASE \E v \in Worker : Running(v, n)' /\ job'[v].task.nth = k /\ ~job'[v].taken
      BY <1>6, <3>1, <3>2 DEF Pending, Running
    <3>3. CASE \E r \in queue' : r.mail = n /\ r.nth = k
      <4>1. PICK r \in queue' : r.mail = n /\ r.nth = k
        BY <3>3
      <4>2. CASE r \in queue
        BY <3>1, <4>1, <4>2 DEF Pending
      <4>3. CASE r = s
        <5>1. Running(w, n) /\ t.nth = k /\ ~job[w].taken
          BY <1>3, <1>4, <1>10, <4>1, <4>3 DEF Running
        <5> QED BY <3>1, <5>1 DEF Pending
      <4> QED BY <1>12, <4>2, <4>3
    <3> QED BY <3>2, <3>3 DEF Pending
  <2>2. \A n \in Mail : Pending(n)' \subseteq Pending(n)
    BY <2>1
  <2>3. \A n \in Mail : accepted'[n] - doubted'[n] <= accepted[n] - doubted[n]
    BY <1>7
  <2> QED BY <1>5, <1>7, <2>2, <2>3, SentKept DEF SentOnce
<1>17. DigestOnce'
  <2>1. \A u, v \in Digesting' : u = v
    BY <1>6 DEF IInv, DigestOnce
  <2>2. ASSUME NEW d \in Day
        PROVE  accepted'[Digest(d)] <= doubted'[Digest(d)]
                 + (IF record'[d] # "none"
                         \/ \E v \in Worker : Running(v, Digest(d))' /\ job'[v].taken
                      THEN 1 ELSE 0)
    <3>1. /\ accepted'[Digest(d)] \in Nat /\ doubted'[Digest(d)] \in Nat
          /\ accepted[Digest(d)] \in Nat /\ doubted[Digest(d)] \in Nat
          /\ accepted'[Digest(d)] - doubted'[Digest(d)] = accepted[Digest(d)] - doubted[Digest(d)]
      BY <1>7, Mails
    <3>2. accepted'[Digest(d)] - doubted'[Digest(d)] <=
            accepted[Digest(d)] - doubted[Digest(d)]
              - (IF Running(w, Digest(d)) /\ job[w].taken THEN 1 ELSE 0)
      BY <1>4, <3>1
    <3>3. record'[d] = record[d] /\ job' = [job EXCEPT ![w] = NoJob]
      BY <1>1
    <3> QED BY <1>3, <3>1, <3>2, <3>3, DigestLetGo
  <2> QED BY <2>1, <2>2 DEF DigestOnce
<1>18. ASSUME NEW d \in Day PROVE DayOK(d)'
  <2>1. DayOK(d) /\ Digest(d) \in Mail
    BY Mails DEF IInv
  <2>2. \A v \in Worker : Running(v, Digest(d))' => Running(v, Digest(d))
    BY <1>6 DEF Running
  <2>3. ASSUME site.faults <= Retries,
               (\E r \in queue : r.mail = Digest(d)) \/ \E v \in Worker : Running(v, Digest(d))
        PROVE  (\E r \in queue' : r.mail = Digest(d)) \/ \E v \in Worker : Running(v, Digest(d))'
    <3>1. CASE \E r \in queue : r.mail = Digest(d)
      BY <1>12, <3>1
    <3>2. CASE \E v \in Worker : v # w /\ Running(v, Digest(d))
      BY <1>6, <3>2 DEF Running
    <3>3. CASE Running(w, Digest(d))
      <4>1. t.tries < Retries
        BY <1>1, <1>4, <1>8, <1>10, <2>3, Types, Constants DEF TaskOK
      <4>2. s \in queue' /\ s.mail = Digest(d)
        BY <1>1, <1>10, <3>3, <4>1 DEF Running
      <4> QED BY <4>2
    <3> QED BY <2>3, <3>1, <3>2, <3>3
  <2>4. accepted[Digest(d)] > 0 => accepted'[Digest(d)] > 0
    BY <1>7, <2>1
  <2>5. d # 0 /\ Due(d) /\ site.faults <= Retries /\ record[d] = "none" /\ Digest(d) \notin dropped
          => (\E r \in queue' : r.mail = Digest(d)) \/ \E v \in Worker : Running(v, Digest(d))'
    BY <2>1, <2>3 DEF DayOK
  <2> QED BY <1>1, <1>5, <2>1, <2>2, <2>4, <2>5 DEF DayOK
<1> QED BY <1>5, <1>6, <1>8, <1>13, <1>14, <1>15, <1>16, <1>17, <1>18 DEF IInv

\* A task that is let go for good, without the provider being asked: what is the same for
\* one that fails, one that ends and one that is lost.
LEMMA LetGo ==
  ASSUME IInv, NEW w \in Worker, job[w] # NoJob, job' = [job EXCEPT ![w] = NoJob],
         UNCHANGED <<web, queue, accepted, listed>>,
         faults' \in 0 .. site.faults, faults <= faults',
         dropped' \subseteq dropped \cup {job[w].mail}, skipped' \subseteq skipped \cup {job[w].mail},
         record' \in [Day -> {"none", "sent", "skipped_empty"}],
         \A d \in Day : Digest(d) # job[w].mail => record'[d] = record[d],
         doubted' \in [Mail -> Nat], \A m \in Mail : doubted[m] <= doubted'[m],
         \A d \in Day : accepted[Digest(d)] <= doubted'[Digest(d)]
           + (IF record'[d] # "none" \/ \E v \in Worker : Running(v, Digest(d))' /\ job'[v].taken
                THEN 1 ELSE 0),
         \A d \in Day : DayOK(d)'
  PROVE  IInv'
<1>1. /\ UNCHANGED <<site, status, since, hour, swept, enqueued>>
      /\ (\A l \in Lesson : since[l] <= hour)'
  BY WebKept
<1>2. /\ (job \in [Worker -> {NoJob} \cup Job])'
      /\ \A v \in Worker : v # w => job'[v] = job[v]
      /\ job'[w] = NoJob /\ Digesting' \subseteq Digesting /\ (Cardinality(Digesting) <= 1)'
  BY Released
<1>3. faults' \in Nat
  BY Types
<1>4. TasksOK' /\ \A m \in Mail : Pending(m)' \subseteq Pending(m)
  BY <1>3, Dropped
<1>5. /\ job[w].mail \in Mail
      /\ job[w].mail.kind = "digest" => job[w].mail = Digest(job[w].mail.of) /\ job[w].mail.of \in Day
                                          /\ \A v \in Digesting : v = w
  BY Jobs
<1>6. TypeOK'
  <2>1. \A v \in Worker : job'[v] = NoJob \/ job'[v].mail \in Mail
    BY <1>2 DEF Job
  <2> QED BY <1>1, <1>2, <1>5, <2>1 DEF IInv, TypeOK
<1>7. ASSUME NEW v \in Worker PROVE JobOK(v)'
  <2>1. CASE v = w
    BY <1>2, <2>1 DEF JobOK
  <2>2. CASE v # w
    <3>1. ASSUME job[v] # NoJob, job[v].mail.kind = "digest"
          PROVE  record'[job[v].mail.of] = record[job[v].mail.of]
      <4>1. v \in Digesting /\ job[v].mail.of \in Day /\ job[v].mail = Digest(job[v].mail.of)
        BY <3>1, Jobs
      <4>2. job[v].mail # job[w].mail
        BY <1>5, <2>2, <3>1, <4>1
      <4> QED BY <4>1, <4>2
    <3>2. \A m \in Mail : accepted[m] \in Nat /\ accepted'[m] \in Nat /\ accepted[m] <= accepted'[m]
      BY Types
    <3>3. job'[v] = job[v] /\ UNCHANGED web
      BY <1>2, <2>2
    <3> QED BY <3>1, <3>2, <3>3, JobKept
  <2> QED BY <2>1, <2>2
<1>8. SentOnce'
  <2>1. \A m \in Mail : /\ accepted'[m] \in Nat /\ doubted'[m] \in Nat
                        /\ accepted'[m] - doubted'[m] <= accepted[m] - doubted[m]
    BY Types
  <2> QED BY <1>1, <1>4, <2>1, SentKept DEF SentOnce
<1>9. DigestOnce'
  BY <1>2 DEF IInv, DigestOnce
<1>10. faults' \in 0 .. site.faults'
  BY <1>1
<1> QED BY <1>1, <1>2, <1>4, <1>6, <1>7, <1>8, <1>9, <1>10 DEF IInv

\* The steps of the workers that let a task go, and what they have in common.
LEMMA LetGoFacts ==
  ASSUME IInv, NEW w \in Worker, job[w] # NoJob, job' = [job EXCEPT ![w] = NoJob],
         UNCHANGED web
  PROVE  /\ UNCHANGED <<site, status, since, hour, swept, enqueued>>
         /\ job[w].mail \in Mail
         /\ job[w].mail.kind = "digest" => job[w].mail.of \in Day /\ job[w].mail = Digest(job[w].mail.of)
         /\ record \in [Day -> {"none", "sent", "skipped_empty"}] /\ doubted \in [Mail -> Nat]
         /\ \A m \in Mail : accepted[m] \in Nat /\ doubted[m] \in Nat
         /\ faults \in Nat /\ faults <= site.faults
         /\ \A d \in Day :
              /\ DayOK(d) /\ Digest(d) \in Mail /\ Digest(d).kind = "digest"
              /\ Evening(d)' = Evening(d) /\ Due(d)' = Due(d) /\ Tomorrow(d)' = Tomorrow(d)
              /\ Running(w, Digest(d)) <=> Digest(d) = job[w].mail
              /\ \A v \in Worker : Running(v, Digest(d))' <=> v # w /\ Running(v, Digest(d))
<1>1. /\ \A v \in Worker : v # w => job'[v] = job[v]
      /\ job'[w] = NoJob
  BY Released
<1>2. \A d \in Day : /\ Running(w, Digest(d)) <=> Digest(d) = job[w].mail
                     /\ \A v \in Worker : Running(v, Digest(d))' <=> v # w /\ Running(v, Digest(d))
  BY <1>1 DEF Running
<1>3. record \in [Day -> {"none", "sent", "skipped_empty"}] /\ doubted \in [Mail -> Nat]
  BY DEF IInv, TypeOK
<1>4. \A d \in Day : DayOK(d)
  BY DEF IInv
<1> QED BY <1>2, <1>3, <1>4, WebKept, Jobs, Mails, Types

LEMMA RejectStep == ASSUME IInv, NEW w \in Worker, Reject(w) PROVE IInv'
<1>1. /\ job[w].pc = "send" /\ faults < site.faults /\ faults' = faults + 1
      /\ dropped' = dropped \cup {job[w].mail} /\ job' = [job EXCEPT ![w] = NoJob]
      /\ UNCHANGED <<web, queue, record, accepted, doubted, skipped, listed>>
  BY DEF Reject, Fail
<1>2. job[w] # NoJob /\ ~job[w].taken
  BY <1>1 DEF NoJob, IInv, JobOK
<1> DEFINE Facts(d) ==
      /\ DayOK(d) /\ Digest(d) \in Mail /\ Digest(d).kind = "digest"
      /\ Evening(d)' = Evening(d) /\ Due(d)' = Due(d) /\ Tomorrow(d)' = Tomorrow(d)
      /\ Running(w, Digest(d)) <=> Digest(d) = job[w].mail
      /\ \A v \in Worker : Running(v, Digest(d))' <=> v # w /\ Running(v, Digest(d))
<1>3. /\ UNCHANGED <<site, status, since, hour, swept, enqueued>>
      /\ record \in [Day -> {"none", "sent", "skipped_empty"}] /\ doubted \in [Mail -> Nat]
      /\ \A m \in Mail : accepted[m] \in Nat /\ doubted[m] \in Nat
      /\ faults \in Nat /\ faults <= site.faults
      /\ \A d \in Day : Facts(d)
  BY <1>1, <1>2, LetGoFacts
<1>4. ASSUME NEW d \in Day
      PROVE  accepted[Digest(d)] <= doubted'[Digest(d)]
               + (IF record'[d] # "none" \/ \E v \in Worker : Running(v, Digest(d))' /\ job'[v].taken
                    THEN 1 ELSE 0)
  <2>1. /\ accepted'[Digest(d)] \in Nat /\ doubted'[Digest(d)] \in Nat
        /\ record'[d] = record[d] /\ accepted'[Digest(d)] = accepted[Digest(d)]
        /\ accepted'[Digest(d)] - doubted'[Digest(d)] <=
             accepted[Digest(d)] - doubted[Digest(d)]
               - (IF Running(w, Digest(d)) /\ job[w].taken THEN 1 ELSE 0)
    BY <1>1, <1>2, <1>3
  <2>2. job' = [job EXCEPT ![w] = NoJob]
    BY <1>1
  <2>3. accepted'[Digest(d)] <= doubted'[Digest(d)]
          + (IF record'[d] # "none" \/ \E v \in Worker : Running(v, Digest(d))' /\ job'[v].taken
               THEN 1 ELSE 0)
    BY <1>2, <2>1, <2>2, DigestLetGo
  <2> QED BY <2>1, <2>3
<1>5. ASSUME NEW d \in Day PROVE DayOK(d)'
  <2>1. Facts(d)
    BY <1>3
  <2>2. Digest(d) \notin dropped' => ~Running(w, Digest(d))
    BY <1>1, <2>1
  <2> QED BY <1>1, <1>3, <2>1, <2>2 DEF DayOK
<1>6. faults' \in 0 .. site.faults /\ faults <= faults'
  BY <1>1, <1>3, Types
<1>7. /\ UNCHANGED <<web, queue, accepted, listed>> /\ job' = [job EXCEPT ![w] = NoJob]
      /\ dropped' \subseteq dropped \cup {job[w].mail}
      /\ skipped' \subseteq skipped \cup {job[w].mail}
      /\ record' \in [Day -> {"none", "sent", "skipped_empty"}]
      /\ \A d \in Day : Digest(d) # job[w].mail => record'[d] = record[d]
      /\ doubted' \in [Mail -> Nat] /\ \A m \in Mail : doubted[m] <= doubted'[m]
  <2>1. record' = record /\ doubted' = doubted
    BY <1>1
  <2>2. \A m \in Mail : doubted[m] <= doubted'[m]
    BY <1>3, <2>1
  <2> QED BY <1>1, <1>3, <2>1, <2>2
<1> HIDE DEF Facts
<1> QED BY <1>2, <1>4, <1>5, <1>6, <1>7, LetGo

\* A digest that ends is recorded as sent: it was, or there is no address.
LEMMA FinishStep == ASSUME IInv, NEW w \in Worker, Finish(w) PROVE IInv'
<1> DEFINE m == job[w].mail
<1>1. /\ job[w].pc = "record" /\ job' = [job EXCEPT ![w] = NoJob]
      /\ record' = IF m.kind = "digest" THEN [record EXCEPT ![m.of] = "sent"] ELSE record
      /\ skipped' = IF job[w].taken THEN skipped ELSE skipped \cup {m}
      /\ UNCHANGED <<web, queue, accepted, doubted, dropped, listed, faults>>
  BY DEF Finish
<1>2. job[w] # NoJob /\ JobOK(w)
  BY <1>1 DEF NoJob, IInv
<1> DEFINE Facts(d) ==
      /\ DayOK(d) /\ Digest(d) \in Mail /\ Digest(d).kind = "digest"
      /\ Evening(d)' = Evening(d) /\ Due(d)' = Due(d) /\ Tomorrow(d)' = Tomorrow(d)
      /\ Running(w, Digest(d)) <=> Digest(d) = m
      /\ \A v \in Worker : Running(v, Digest(d))' <=> v # w /\ Running(v, Digest(d))
<1>3. /\ UNCHANGED <<site, status, since, hour, swept, enqueued>>
      /\ m \in Mail /\ (m.kind = "digest" => m.of \in Day /\ m = Digest(m.of))
      /\ record \in [Day -> {"none", "sent", "skipped_empty"}] /\ doubted \in [Mail -> Nat]
      /\ \A n \in Mail : accepted[n] \in Nat /\ doubted[n] \in Nat
      /\ faults \in Nat /\ faults <= site.faults
      /\ \A d \in Day : Facts(d)
  BY <1>1, <1>2, LetGoFacts
<1>4. /\ record' \in [Day -> {"none", "sent", "skipped_empty"}]
      /\ \A d \in Day : record'[d] = IF Digest(d) = m THEN "sent" ELSE record[d]
  <2>1. \A d \in Day : Digest(d) = m <=> m.kind = "digest" /\ m.of = d
    BY <1>3, Mails
  <2> QED BY <1>1, <1>3, <2>1
<1>5. ASSUME NEW d \in Day
      PROVE  accepted[Digest(d)] <= doubted'[Digest(d)]
               + (IF record'[d] # "none" \/ \E v \in Worker : Running(v, Digest(d))' /\ job'[v].taken
                    THEN 1 ELSE 0)
  <2>1. Facts(d) /\ accepted[Digest(d)] \in Nat /\ doubted[Digest(d)] \in Nat
    BY <1>3
  <2>2. CASE Digest(d) = m
    <3>1. accepted[Digest(d)] <= doubted[Digest(d)] + 1
      BY <2>1 DEF IInv, DigestOnce
    <3>2. record'[d] # "none" /\ doubted' = doubted
      BY <1>1, <1>4, <2>2
    <3> QED BY <3>1, <3>2
  <2>3. CASE Digest(d) # m
    <3>1. /\ accepted'[Digest(d)] \in Nat /\ doubted'[Digest(d)] \in Nat
          /\ record'[d] = record[d] /\ accepted'[Digest(d)] = accepted[Digest(d)]
          /\ accepted'[Digest(d)] - doubted'[Digest(d)] <=
               accepted[Digest(d)] - doubted[Digest(d)]
                 - (IF Running(w, Digest(d)) /\ job[w].taken THEN 1 ELSE 0)
      BY <1>1, <1>4, <2>1, <2>3
    <3>2. job' = [job EXCEPT ![w] = NoJob]
      BY <1>1
    <3>3. accepted'[Digest(d)] <= doubted'[Digest(d)]
            + (IF record'[d] # "none" \/ \E v \in Worker : Running(v, Digest(d))' /\ job'[v].taken
                 THEN 1 ELSE 0)
      BY <1>2, <3>1, <3>2, DigestLetGo
    <3> QED BY <3>1, <3>3
  <2> QED BY <2>2, <2>3
<1>6. ASSUME NEW d \in Day PROVE DayOK(d)'
  <2>1. Facts(d)
    BY <1>3
  <2>2. CASE Digest(d) = m
    <3>1. record'[d] = "sent" /\ Running(w, Digest(d))
      BY <1>4, <2>1, <2>2
    <3>2. Evening(d) <= hour
      BY <3>1, DigestJob
    <3>3. accepted[Digest(d)] > 0 \/ ~site.address
      BY <1>1, <1>2, <2>2, Mails DEF JobOK, HasAddress
    <3> QED BY <1>1, <1>3, <2>1, <3>1, <3>2, <3>3 DEF DayOK
  <2>3. CASE Digest(d) # m
    <3>1. record'[d] = record[d]
      BY <1>4, <2>3
    <3> QED BY <1>1, <1>3, <2>1, <2>3, <3>1 DEF DayOK
  <2> QED BY <2>2, <2>3
<1>7. /\ UNCHANGED <<web, queue, accepted, listed>> /\ job' = [job EXCEPT ![w] = NoJob]
      /\ dropped' \subseteq dropped \cup {m} /\ skipped' \subseteq skipped \cup {m}
      /\ \A d \in Day : Digest(d) # m => record'[d] = record[d]
      /\ doubted' \in [Mail -> Nat] /\ \A n \in Mail : doubted[n] <= doubted'[n]
      /\ faults' \in 0 .. site.faults /\ faults <= faults'
  <2>1. doubted' = doubted /\ faults' = faults
    BY <1>1
  <2>2. (\A n \in Mail : doubted[n] <= doubted'[n]) /\ faults' \in 0 .. site.faults /\ faults <= faults'
    BY <1>3, <2>1, Types
  <2>3. \A d \in Day : Digest(d) # m => record'[d] = record[d]
    BY <1>4
  <2> QED BY <1>1, <1>3, <2>1, <2>2, <2>3
<1> HIDE DEF Facts
<1> QED BY <1>2, <1>4, <1>5, <1>6, <1>7, LetGo

\* A task that is lost leaves in doubt what it had sent.
LEMMA CrashStep == ASSUME IInv, NEW w \in Worker, Crash(w) PROVE IInv'
<1> DEFINE m == job[w].mail
<1>1. /\ job[w].pc # "idle" /\ faults < site.faults /\ faults' = faults + 1
      /\ dropped' = dropped \cup {m} /\ job' = [job EXCEPT ![w] = NoJob]
      /\ doubted' = IF job[w].taken THEN [doubted EXCEPT ![m] = @ + 1] ELSE doubted
      /\ UNCHANGED <<web, queue, record, accepted, skipped, listed>>
  BY DEF Crash, Fail
<1>2. job[w] # NoJob
  BY <1>1 DEF NoJob
<1> DEFINE Facts(d) ==
      /\ DayOK(d) /\ Digest(d) \in Mail /\ Digest(d).kind = "digest"
      /\ Evening(d)' = Evening(d) /\ Due(d)' = Due(d) /\ Tomorrow(d)' = Tomorrow(d)
      /\ Running(w, Digest(d)) <=> Digest(d) = m
      /\ \A v \in Worker : Running(v, Digest(d))' <=> v # w /\ Running(v, Digest(d))
<1>3. /\ UNCHANGED <<site, status, since, hour, swept, enqueued>>
      /\ m \in Mail /\ (m.kind = "digest" => m.of \in Day /\ m = Digest(m.of))
      /\ record \in [Day -> {"none", "sent", "skipped_empty"}] /\ doubted \in [Mail -> Nat]
      /\ \A n \in Mail : accepted[n] \in Nat /\ doubted[n] \in Nat
      /\ faults \in Nat /\ faults <= site.faults
      /\ \A d \in Day : Facts(d)
  BY <1>1, <1>2, LetGoFacts
<1>4. /\ doubted' \in [Mail -> Nat]
      /\ \A n \in Mail : /\ doubted'[n] \in Nat /\ doubted[n] <= doubted'[n]
                         /\ n = m /\ job[w].taken => doubted'[n] = doubted[n] + 1
  BY <1>1, <1>3
<1>5. ASSUME NEW d \in Day
      PROVE  accepted[Digest(d)] <= doubted'[Digest(d)]
               + (IF record'[d] # "none" \/ \E v \in Worker : Running(v, Digest(d))' /\ job'[v].taken
                    THEN 1 ELSE 0)
  <2>1. Facts(d) /\ accepted[Digest(d)] \in Nat /\ doubted[Digest(d)] \in Nat
    BY <1>3
  <2>2. /\ accepted'[Digest(d)] \in Nat /\ doubted'[Digest(d)] \in Nat
        /\ record'[d] = record[d] /\ accepted'[Digest(d)] = accepted[Digest(d)]
        /\ accepted'[Digest(d)] - doubted'[Digest(d)] <=
             accepted[Digest(d)] - doubted[Digest(d)]
               - (IF Running(w, Digest(d)) /\ job[w].taken THEN 1 ELSE 0)
    BY <1>1, <1>4, <2>1
  <2>3. job' = [job EXCEPT ![w] = NoJob]
    BY <1>1
  <2>4. accepted'[Digest(d)] <= doubted'[Digest(d)]
          + (IF record'[d] # "none" \/ \E v \in Worker : Running(v, Digest(d))' /\ job'[v].taken
               THEN 1 ELSE 0)
    BY <1>2, <2>2, <2>3, DigestLetGo
  <2> QED BY <2>2, <2>4
<1>6. ASSUME NEW d \in Day PROVE DayOK(d)'
  <2>1. Facts(d)
    BY <1>3
  <2>2. Digest(d) \notin dropped' => ~Running(w, Digest(d))
    BY <1>1, <2>1
  <2> QED BY <1>1, <1>3, <2>1, <2>2 DEF DayOK
<1>7. /\ UNCHANGED <<web, queue, accepted, listed>> /\ job' = [job EXCEPT ![w] = NoJob]
      /\ dropped' \subseteq dropped \cup {m} /\ skipped' \subseteq skipped \cup {m}
      /\ record' \in [Day -> {"none", "sent", "skipped_empty"}]
      /\ \A d \in Day : Digest(d) # m => record'[d] = record[d]
      /\ faults' \in 0 .. site.faults /\ faults <= faults'
  <2>1. faults' \in 0 .. site.faults /\ faults <= faults'
    BY <1>1, <1>3, Types
  <2> QED BY <1>1, <1>3, <2>1
<1> HIDE DEF Facts
<1> QED BY <1>2, <1>4, <1>5, <1>6, <1>7, LetGo

-----------------------------------------------------------------------------
LEMMA NextIInv == IInv /\ [Next]_vars => IInv'
<1> SUFFICES ASSUME IInv, [Next]_vars PROVE IInv'
  OBVIOUS
<1>1. CASE \E l \in Lesson : Book(l) \/ Respond(l) \/ CancelLesson(l) \/ Ask(l) \/ Remind(l)
  BY <1>1, HandlerSteps
<1>2. CASE Sweep
  BY <1>2, SweepStep
<1>3. CASE Tick
  BY <1>3, TickStep
<1>4. ASSUME NEW w \in Worker, Work(w) \/ Error(w) \/ Reject(w) \/ Crash(w) PROVE IInv'
  BY <1>4, TakeStep, SendStep, FinishStep, ErrorStep, RejectStep, CrashStep DEF Work
<1>5. CASE UNCHANGED vars
  BY <1>5 DEF vars, IInv, TypeOK, Digesting, JobOK, HasAddress, TasksOK, TaskOK, Evening, SentOnce,
     Pending, Running, DigestOnce, DayOK, Due, Tomorrow
<1> QED BY <1>1, <1>2, <1>3, <1>4, <1>5 DEF Next

\* The inductive invariant holds in every reachable state.
THEOREM Invariance == Spec => []IInv
BY InitIInv, NextIInv, PTL DEF Spec

\* Every variable keeps to its type, and one worker at a time composes a digest (the lock on
\* the teacher's row in send_daily_schedule_digest_task).
THEOREM TypeCorrect == Spec => []TypeOK
<1>1. IInv => TypeOK
  BY DEF IInv
<1> QED BY <1>1, Invariance, PTL

\* However tasks are retried, swept again, lost or run at once, a mail goes out once for each
\* time it was asked for and a digest once a day, but for what the provider took unnoticed.
THEOREM OnceEach == Spec => []MailedOnce
<1>1. ASSUME IInv, NEW m \in Mail
      PROVE  accepted[m] <= doubted[m] + (IF m.kind = "digest" THEN 1 ELSE enqueued[m])
  <2>1. accepted[m] \in Nat /\ doubted[m] \in Nat /\ enqueued[m] \in Nat
    BY <1>1, Types
  <2>2. CASE m.kind # "digest"
    <3>1. Cardinality(Pending(m)) \in Nat
      BY <1>1, PendingCount
    <3>2. accepted[m] + Cardinality(Pending(m)) <= enqueued[m] + doubted[m]
      BY <1>1, <2>2 DEF IInv, SentOnce
    <3> QED BY <2>1, <2>2, <3>1, <3>2
  <2>3. CASE m.kind = "digest"
    <3>1. PICK d \in Day : m = Digest(d)
      BY <2>3, Mails
    <3> QED BY <1>1, <2>1, <2>3, <3>1 DEF IInv, DigestOnce
  <2> QED BY <2>2, <2>3
<1>2. IInv => MailedOnce
  BY <1>1 DEF MailedOnce
<1> QED BY <1>2, Invariance, PTL

\* When an evening is over and no task is left, the teacher's tomorrow is recorded as what
\* became of its digest, and every lesson confirmed before that hour was listed.
THEOREM EveningSettled == Spec => []EveningIsSettled
<1>1. ASSUME IInv, queue = {}, site.faults <= Retries, \A w \in Worker : job[w] = NoJob,
             NEW d \in Day \ {0}, 0 <= Evening(d), Evening(d) < hour, Digest(d) \notin dropped
      PROVE  /\ record[d] # "none"
             /\ record[d] = "sent" => accepted[Digest(d)] > 0 \/ ~site.address
             /\ record[d] = "skipped_empty" => listed[d] = {}
             /\ \A l \in Tomorrow(d) : since[l] < Evening(d) => l \in listed[d]
  <2>1. DayOK(d) /\ Due(d)
    BY <1>1 DEF IInv, Due
  <2>2. ~\E w \in Worker : Running(w, Digest(d))
    BY <1>1 DEF Running
  <2> QED BY <1>1, <2>1, <2>2 DEF DayOK
<1>2. IInv => EveningIsSettled
  BY <1>1 DEF EveningIsSettled
<1> QED BY <1>2, Invariance, PTL

=============================================================================
