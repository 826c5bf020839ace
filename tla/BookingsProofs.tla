--------------------------- MODULE BookingsProofs ---------------------------
(***************************************************************************)
(* The safety properties of Bookings, proved for any number of students,   *)
(* workers and rows, any availability and any start times.  Every property *)
(* follows from IInv of BookingsProperties, which each action preserves;   *)
(* with requests one at a time, from SerialOK besides, and then the        *)
(* handlers implement LessonBook.                                          *)
(***************************************************************************)
EXTENDS BookingsProperties, TLAPS

\* The typing assumptions on the constants, as facts the proofs cite.
LEMMA Constants ==
  /\ MaxBookings \in Nat /\ Buffer \in Nat /\ Start \subseteq Nat
  /\ Nobody \notin Request /\ Nobody \notin Student
  /\ Booking \subseteq Nat \ {0}
BY NobodyAssumption, BoundAssumption, StartAssumption DEF Booking

\* Overlap, as the code computes it, is sharing a tick of the grid.
LEMMA OverlapIsSharedTick ==
  ASSUME NEW l \in Lesson, NEW m \in Lesson
  PROVE  Overlap(l, m) <=> Ticks(l) \cap Ticks(m) # {}
<1>1. /\ l.start \in Nat /\ l.len \in {1, 2}
      /\ m.start \in Nat /\ m.len \in {1, 2}
  BY DEF Lesson
<1>2. ASSUME Overlap(l, m) PROVE Ticks(l) \cap Ticks(m) # {}
  <2>1. CASE l.start <= m.start
    <3>1. m.start \in Ticks(l) /\ m.start \in Ticks(m)
      BY <1>1, <1>2, <2>1 DEF Overlap, Ticks
    <3> QED BY <3>1
  <2>2. CASE m.start < l.start
    <3>1. l.start \in Ticks(l) /\ l.start \in Ticks(m)
      BY <1>1, <1>2, <2>2 DEF Overlap, Ticks
    <3> QED BY <3>1
  <2> QED BY <1>1, <2>1, <2>2
<1>3. ASSUME NEW t \in Ticks(l) \cap Ticks(m) PROVE Overlap(l, m)
  BY <1>1 DEF Overlap, Ticks
<1> QED BY <1>2, <1>3

-----------------------------------------------------------------------------
(* Initial states.                                                         *)

LEMMA InitIInv == Init => IInv
<1> SUFFICES ASSUME Init PROVE IInv
  OBVIOUS
<1>1. NoLesson \in Lesson
  BY DEF NoLesson, Lesson
<1>2. Idle \in Work
  BY <1>1, Constants DEF Idle, Work
<1>3. TypeOK
  BY <1>1, <1>2 DEF Init, TypeOK
<1>4. TableOK /\ \A r \in Request : RequestOK(r) /\ CandidateOK(r)
  BY Constants DEF Init, TableOK, RequestOK, CandidateOK, Idle
<1>5. NoOverlap /\ TrialIsFirstLesson /\ StatusFitsTheClock
  BY DEF Init, NoOverlap, TrialIsFirstLesson, StatusFitsTheClock
<1> QED BY <1>3, <1>4, <1>5 DEF IInv

-----------------------------------------------------------------------------
(* What a step does to the table, whoever takes it: existing rows keep     *)
(* existing, what is cancelled or expired is remembered, and the new       *)
(* statuses fit the clock.                                                 *)

TableStep ==
  /\ lesson' = lesson /\ clock' \in Nat /\ clock <= clock'
  /\ status' \in [Booking -> Status \cup {"none"}]
  /\ \A b \in Booking : status'[b] = "none" <=> status[b] = "none"
  /\ withdrawn' = withdrawn \cup {b \in Booking : status'[b] \in {"cancelled", "expired"}}
  /\ \A b \in Booking :
       /\ status'[b] = "completed" => lesson[b].start + lesson[b].len <= clock'
       /\ status'[b] = "expired" => lesson[b].start <= clock'

LEMMA TablePreserved ==
  ASSUME IInv, TableStep
  PROVE  /\ TableOK' /\ NoOverlap' /\ TrialIsFirstLesson' /\ StatusFitsTheClock'
         /\ withdrawn' \in SUBSET Booking
<1>1. TableOK'
  BY DEF IInv, TableOK, TableStep
<1>2. NoOverlap'
  BY DEF IInv, NoOverlap, TableStep, Overlap
<1>3. TrialIsFirstLesson'
  BY DEF IInv, TrialIsFirstLesson, TableStep
<1>4. StatusFitsTheClock'
  BY DEF TableStep, StatusFitsTheClock, Ended
<1>5. withdrawn' \in SUBSET Booking
  BY DEF IInv, TypeOK, TableStep
<1> QED BY <1>1, <1>2, <1>3, <1>4, <1>5

\* A step that leaves the table and the history alone is such a step.
LEMMA UnchangedTable ==
  ASSUME IInv, UNCHANGED <<lesson, status, clock, withdrawn>>
  PROVE  TableStep
BY DEF IInv, TypeOK, TableOK, StatusFitsTheClock, TableStep, Ended

\* Expiring rows that exist and have started is such a step.
LEMMA ExpireTable ==
  ASSUME IInv, NEW E \in SUBSET Booking,
         \A b \in E : status[b] # "none" /\ lesson[b].start <= clock,
         Write(WithExpired(E)), UNCHANGED <<lesson, clock>>
  PROVE  TableStep /\ E \subseteq withdrawn'
<1>1. \A b \in Booking : status'[b] = IF b \in E THEN "expired" ELSE status[b]
  BY DEF Write, WithExpired
<1>2. status' \in [Booking -> Status \cup {"none"}]
  BY DEF IInv, TypeOK, Write, WithExpired, Status
<1> QED BY <1>1, <1>2 DEF IInv, TypeOK, StatusFitsTheClock, TableStep, Ended, Write

-----------------------------------------------------------------------------
(* What a step does to the requests that take no part in it.               *)

LEMMA BystanderPreserved ==
  ASSUME IInv, TableStep, NEW q \in Request,
         req'[q] = req[q], lock' = q <=> lock = q
  PROVE  RequestOK(q)' /\ CandidateOK(q)'
<1>1. req[q] \in Work /\ \A b \in Booking : lesson[b] \in Lesson
  BY DEF IInv, TypeOK
<1>2. RequestOK(q) /\ CandidateOK(q)
  BY DEF IInv
<1>3. CandidateOK(q)'
  BY <1>2 DEF CandidateOK, TableStep
<1>4. \A b \in Booking : Ended(lesson[b]) => Ended(lesson[b])'
  BY <1>1 DEF IInv, TypeOK, TableStep, Ended, Lesson
<1>5. \A b \in Booking : lesson[b].start <= clock => lesson'[b].start <= clock'
  BY <1>1 DEF IInv, TypeOK, TableStep, Lesson
<1>6. req[q].expired \subseteq Booking
  BY <1>1 DEF Work
<1>7. RequestOK(q)'
  BY <1>2, <1>4, <1>5, <1>6 DEF RequestOK, TableStep
<1> QED BY <1>3, <1>7

\* The lemmas above put together: a table step in which at most request r moves,
\* to a state that is consistent for r, preserves the invariant.
LEMMA StepPreserved ==
  ASSUME IInv, TableStep, NEW r \in Request,
         req' \in [Request -> Work], asked' \in [Booking -> BOOLEAN],
         lock' \in Request \cup {Nobody},
         \A q \in Request \ {r} : req'[q] = req[q] /\ (lock' = q <=> lock = q),
         RequestOK(r)', CandidateOK(r)'
  PROVE  IInv'
<1>1. /\ TableOK' /\ NoOverlap' /\ TrialIsFirstLesson' /\ StatusFitsTheClock'
      /\ withdrawn' \in SUBSET Booking
  BY TablePreserved
<1>2. \A q \in Request : RequestOK(q)' /\ CandidateOK(q)'
  <2> TAKE q \in Request
  <2>1. CASE q = r
    BY <2>1
  <2>2. CASE q # r
    <3>1. req'[q] = req[q] /\ (lock' = q <=> lock = q)
      BY <2>2
    <3> QED BY <3>1, BystanderPreserved
  <2> QED BY <2>1, <2>2
<1>3. TypeOK'
  BY <1>1 DEF IInv, TypeOK, TableStep
<1> QED BY <1>1, <1>2, <1>3 DEF IInv

LEMMA IdleOK == Idle \in Work
<1>1. NoLesson \in Lesson
  BY DEF NoLesson, Lesson
<1> QED BY <1>1, Constants DEF Idle, Work

-----------------------------------------------------------------------------
(* The handlers.                                                           *)

LEMMA WriteBackStep ==
  ASSUME IInv, NEW r \in Request, NEW b \in Booking, NEW st \in Status,
         NEW flag \in BOOLEAN, NEW op \in {"save", "ask"},
         status[b] # "none",
         st = "completed" => Ended(lesson[b]),
         st = "expired" => lesson[b].start <= clock,
         WriteBack(r, b, st, flag, op)
  PROVE  IInv'
<1> DEFINE w == [pc |-> "clean", op |-> op, id |-> b, status |-> st, asked |-> flag,
                 lesson |-> NoLesson, expired |-> {}]
<1>1. w \in Work
  <2>1. b \in 0 .. MaxBookings
    BY Constants DEF Booking
  <2>2. NoLesson \in Lesson
    BY DEF NoLesson, Lesson
  <2> QED BY <2>1, <2>2 DEF Work
<1>2. req' = [req EXCEPT ![r] = w]
  BY DEF WriteBack
<1>3. req' \in [Request -> Work] /\ req'[r] = w /\ \A q \in Request \ {r} : req'[q] = req[q]
  BY <1>1, <1>2 DEF IInv, TypeOK
<1>4. TableStep
  BY UnchangedTable DEF WriteBack
<1>5. /\ w.op = op /\ w.pc = "clean" /\ w.id = b /\ w.status = st /\ w.expired = {}
  OBVIOUS
<1>6. lock # r
  BY DEF IInv, RequestOK, WriteBack
<1>7. RequestOK(r)' /\ CandidateOK(r)'
  <2> HIDE DEF w
  <2>1. RequestOK(r)'
    BY <1>3, <1>5, <1>6 DEF RequestOK, WriteBack, Ended, Status
  <2>2. CandidateOK(r)'
    BY <1>3, <1>5 DEF CandidateOK
  <2> QED BY <2>1, <2>2
<1>8. asked' \in [Booking -> BOOLEAN] /\ lock' = lock /\ lock' \in Request \cup {Nobody}
  BY DEF IInv, TypeOK, WriteBack
<1> QED
  <2> HIDE DEF w
  <2> QED BY <1>3, <1>4, <1>7, <1>8, StepPreserved

\* What each handler writes back fits the clock at which it read the row.
LEMMA HandleStep ==
  ASSUME IInv, NEW r \in Request, NEW b \in Booking, Handle(r, b)
  PROVE  IInv'
<1>0. /\ status[b] \in Status \cup {"none"} /\ asked[b] \in BOOLEAN
      /\ status[b] = "completed" => Ended(lesson[b])
      /\ status[b] = "expired" => lesson[b].start <= clock
  BY DEF IInv, TypeOK, StatusFitsTheClock
<1>1. ASSUME NEW granted \in BOOLEAN, AnswerCancellation(r, b, granted) PROVE IInv'
  <2>1. status[b] # "none"
    BY <1>1 DEF AnswerCancellation
  <2> QED BY <1>0, <1>1, <2>1, WriteBackStep DEF AnswerCancellation, Status
<1>2. ASSUME NEW st \in {"confirmed", "cancelled"}, AnswerRequest(r, b, st) PROVE IInv'
  BY <1>2, WriteBackStep DEF AnswerRequest, Status
<1>3. ASSUME CancelLesson(r, b) PROVE IInv'
  BY <1>0, <1>3, WriteBackStep DEF CancelLesson, Status, Active
<1>4. ASSUME CompleteLesson(r, b) PROVE IInv'
  BY <1>0, <1>4, WriteBackStep DEF CompleteLesson, AwaitingResolution, Status
<1>5. ASSUME MarkLessonNotHeld(r, b) PROVE IInv'
  BY <1>0, <1>5, WriteBackStep DEF MarkLessonNotHeld, AwaitingResolution, Status
<1>6. ASSUME RequestCancellation(r, b) PROVE IInv'
  BY <1>0, <1>6, WriteBackStep DEF RequestCancellation, Status, Active
<1> QED BY <1>1, <1>2, <1>3, <1>4, <1>5, <1>6 DEF Handle

\* A request that ends is idle, and what is left to show is about the table.
LEMMA ReturnStep ==
  ASSUME IInv, TableStep, NEW r \in Request,
         req' = [req EXCEPT ![r] = Idle],
         asked' \in [Booking -> BOOLEAN],
         lock' = IF lock = r THEN Nobody ELSE lock
  PROVE  IInv'
<1>1. req' \in [Request -> Work] /\ req'[r] = Idle /\ \A q \in Request \ {r} : req'[q] = req[q]
  BY IdleOK DEF IInv, TypeOK
<1>2. lock' # r /\ lock' \in Request \cup {Nobody}
  BY Constants DEF IInv, TypeOK
<1>3. \A q \in Request \ {r} : lock' = q <=> lock = q
  BY Constants
<1>4. RequestOK(r)' /\ CandidateOK(r)'
  BY <1>1, <1>2 DEF RequestOK, CandidateOK, Idle
<1> QED BY <1>1, <1>2, <1>3, <1>4, StepPreserved

LEMMA AbortStep ==
  ASSUME IInv, NEW r \in Request, Abort(r)
  PROVE  IInv'
<1>1. TableStep
  BY UnchangedTable DEF Abort
<1>2. asked' \in [Booking -> BOOLEAN]
  BY DEF IInv, TypeOK, Abort
<1> QED BY <1>1, <1>2, ReturnStep DEF Abort

LEMMA FullCleanStep ==
  ASSUME IInv, NEW r \in Request, FullClean(r)
  PROVE  IInv'
<1>1. TableStep /\ asked' \in [Booking -> BOOLEAN] /\ lock' = lock
  BY UnchangedTable DEF IInv, TypeOK, FullClean
<1>2. lock # r /\ lock \in Request \cup {Nobody} /\ req[r].op \in {"save", "ask"}
  BY DEF IInv, TypeOK, RequestOK, FullClean, At
<1>3. CASE req' = [req EXCEPT ![r] = Idle]
  BY <1>1, <1>2, <1>3, ReturnStep
<1>4. CASE req' = [req EXCEPT ![r].pc = "save"]
  <2>1. /\ req' \in [Request -> Work] /\ req'[r] = [req[r] EXCEPT !.pc = "save"]
        /\ \A q \in Request \ {r} : req'[q] = req[q]
    BY <1>4 DEF IInv, TypeOK, Work
  <2>2. /\ req'[r].op = req[r].op /\ req'[r].pc = "save" /\ req'[r].id = req[r].id
        /\ req'[r].status = req[r].status /\ req'[r].expired = req[r].expired
    BY <2>1 DEF IInv, TypeOK, Work
  <2>3. CandidateOK(r)'
    BY <2>2 DEF CandidateOK
  <2>4. RequestOK(r) /\ UNCHANGED <<lesson, status, clock, lock>>
    BY DEF IInv, FullClean
  <2>5. RequestOK(r)'
    BY <1>2, <2>2, <2>4 DEF RequestOK, Ended
  <2> QED BY <1>1, <1>2, <2>1, <2>3, <2>5, StepPreserved
<1> QED BY <1>3, <1>4 DEF FullClean

LEMMA SaveStep ==
  ASSUME IInv, NEW r \in Request, Save(r)
  PROVE  IInv'
<1> DEFINE id == req[r].id
           st == [status EXCEPT ![id] = req[r].status]
<1>1. /\ id \in Booking /\ status[id] # "none" /\ req[r].status # "none"
      /\ req[r].status \in Status \cup {"none"} /\ req[r].asked \in BOOLEAN
      /\ req[r].status = "completed" => Ended(lesson[id])
      /\ req[r].status = "expired" => lesson[id].start <= clock
      /\ lock # r
  BY DEF IInv, TypeOK, RequestOK, Save, At, Work
<1>2. req' = [req EXCEPT ![r] = Idle] /\ lock' = lock /\ UNCHANGED <<lesson, clock>>
  BY DEF Save
<1>3. CASE Write(st) /\ asked' = [asked EXCEPT ![id] = req[r].asked]
  <2>1. status' \in [Booking -> Status \cup {"none"}]
    BY <1>1, <1>3 DEF IInv, TypeOK, Write
  <2>2. \A b \in Booking : status'[b] = IF b = id THEN req[r].status ELSE status[b]
    BY <1>1, <1>3 DEF IInv, TypeOK, Write
  <2>3. TableStep
    BY <1>1, <1>2, <1>3, <2>1, <2>2
       DEF IInv, TypeOK, TableStep, StatusFitsTheClock, Ended, Write
  <2>4. asked' \in [Booking -> BOOLEAN]
    BY <1>1, <1>3 DEF IInv, TypeOK
  <2> QED BY <1>1, <1>2, <2>3, <2>4, ReturnStep
<1>4. CASE UNCHANGED <<status, asked, withdrawn>>
  <2>1. TableStep /\ asked' \in [Booking -> BOOLEAN]
    BY <1>2, <1>4, UnchangedTable DEF IInv, TypeOK
  <2> QED BY <1>1, <1>2, <2>1, ReturnStep
<1> QED BY <1>3, <1>4 DEF Save

-----------------------------------------------------------------------------
(* book_slot.                                                              *)

LEMMA LockTeacherStep ==
  ASSUME IInv, NEW r \in Request, NEW s \in Student, NEW t \in Start, NEW o \in Option,
         LockTeacher(r, s, t, o)
  PROVE  IInv'
<1> DEFINE w == [pc |-> "resolve", op |-> "book", id |-> 0, status |-> "none", asked |-> FALSE,
                 lesson |-> [student |-> s, start |-> t, len |-> o.len, type |-> o.type],
                 expired |-> {}]
<1>1. [student |-> s, start |-> t, len |-> o.len, type |-> o.type] \in Lesson
  BY Constants DEF Lesson, Option
<1>2. w \in Work
  BY <1>1, Constants DEF Work
<1>3. req' = [req EXCEPT ![r] = w] /\ lock = Nobody /\ lock' = r
  BY DEF LockTeacher
<1>4. req' \in [Request -> Work] /\ req'[r] = w /\ \A q \in Request \ {r} : req'[q] = req[q]
  BY <1>2, <1>3 DEF IInv, TypeOK
<1>5. w.op = "book" /\ w.pc = "resolve" /\ w.expired = {}
  OBVIOUS
<1> HIDE DEF w
<1>6. RequestOK(r)' /\ CandidateOK(r)'
  BY <1>3, <1>4, <1>5 DEF RequestOK, CandidateOK
<1>7. TableStep /\ asked' \in [Booking -> BOOLEAN]
  BY UnchangedTable DEF LockTeacher, IInv, TypeOK
<1>8. \A q \in Request \ {r} : lock' = q <=> lock = q
  BY <1>3, Constants
<1> QED BY <1>3, <1>4, <1>6, <1>7, <1>8, StepPreserved

LEMMA BookRefusedStep ==
  ASSUME IInv, NEW r \in Request, req[r].op = "book", NEW E \in SUBSET Booking,
         \A b \in E : status[b] # "none" /\ lesson[b].start <= clock,
         BookRefused(r, E)
  PROVE  IInv'
<1>1. TableStep
  BY ExpireTable DEF BookRefused
<1>2. lock = r
  BY DEF IInv, RequestOK
<1>3. asked' \in [Booking -> BOOLEAN] /\ lock' = Nobody /\ req' = [req EXCEPT ![r] = Idle]
  BY DEF IInv, TypeOK, BookRefused
<1> QED BY <1>1, <1>2, <1>3, ReturnStep

\* Stale rows exist and have started.
LEMMA StaleRows ==
  ASSUME NEW S
  PROVE  /\ Stale(S) \in SUBSET Booking
         /\ \A b \in Stale(S) : status[b] # "none" /\ lesson[b].start <= clock
BY DEF Stale

\* book_slot goes on to its next step, remembering the rows E it has expired.
LEMMA AdvanceStep ==
  ASSUME IInv, NEW r \in Request, req[r].op = "book",
         NEW pc \in {"offer", "create", "insert"}, NEW E \in SUBSET Booking,
         \A b \in E : status[b] # "none" /\ lesson[b].start <= clock,
         req' = [req EXCEPT ![r].pc = pc, ![r].expired = E],
         UNCHANGED <<lesson, status, asked, clock, lock, withdrawn>>,
         \A b \in Booking :
           status[b] # "none" /\ b \notin withdrawn \cup E =>
             /\ pc \in {"create", "insert"} => ~Overlap(req[r].lesson, lesson[b])
             /\ req[r].lesson.type = "trial" => lesson[b].student # req[r].lesson.student
  PROVE  IInv'
<1>1. req[r] \in Work
  BY DEF IInv, TypeOK
<1>2. /\ req' \in [Request -> Work] /\ \A q \in Request \ {r} : req'[q] = req[q]
      /\ req'[r] = [req[r] EXCEPT !.pc = pc, !.expired = E]
  BY <1>1 DEF IInv, TypeOK, Work
<1>3. /\ req'[r].op = "book" /\ req'[r].pc = pc /\ req'[r].expired = E
      /\ req'[r].lesson = req[r].lesson
  BY <1>1, <1>2 DEF Work
<1>4. CandidateOK(r)'
  BY <1>3 DEF CandidateOK, Overlap
<1>5. lock = r
  BY DEF IInv, RequestOK
<1>6. RequestOK(r)'
  BY <1>3, <1>5 DEF RequestOK
<1>7. TableStep
  BY UnchangedTable
<1> QED BY <1>2, <1>4, <1>6, <1>7, StepPreserved DEF IInv, TypeOK

LEMMA ResolveOptionStep ==
  ASSUME IInv, NEW r \in Request, ResolveOption(r)
  PROVE  IInv'
<1> DEFINE l == req[r].lesson
           E == IF l.type = "trial" THEN Stale({l.student}) ELSE {}
<1>1. /\ E \in SUBSET Booking
      /\ \A b \in E : status[b] # "none" /\ lesson[b].start <= clock
  BY StaleRows
<1>2. req[r].op = "book"
  BY DEF ResolveOption, At
<1>3. CASE BookRefused(r, E)
  BY <1>1, <1>2, <1>3, BookRefusedStep
<1>4. CASE /\ ~(l.type = "trial" /\ ~TrialEligible(l.student, WithExpired(E)))
           /\ req' = [req EXCEPT ![r].pc = "offer", ![r].expired = E]
           /\ UNCHANGED <<lesson, status, asked, clock, lock, withdrawn>>
  <2>1. ASSUME NEW b \in Booking, status[b] # "none", b \notin withdrawn \cup E,
               l.type = "trial"
        PROVE  lesson[b].student # l.student
    <3>1. status[b] \in Active \cup {"completed"}
      BY <2>1 DEF IInv, TypeOK, TableOK, Status, Active
    <3>2. WithExpired(E)[b] = status[b]
      BY <2>1 DEF WithExpired
    <3> QED BY <1>4, <2>1, <3>1, <3>2 DEF TrialEligible
  <2> HIDE DEF E, l
  <2>2. \A b \in Booking :
          status[b] # "none" /\ b \notin withdrawn \cup E =>
            /\ "offer" \in {"create", "insert"} => ~Overlap(req[r].lesson, lesson[b])
            /\ req[r].lesson.type = "trial" => lesson[b].student # req[r].lesson.student
    BY <2>1 DEF l
  <2> QED BY <1>1, <1>2, <1>4, <2>2, AdvanceStep
<1> QED BY <1>3, <1>4 DEF ResolveOption

\* What r has expired so far exists and has started.
LEMMA ExpiredRows ==
  ASSUME IInv, NEW r \in Request
  PROVE  /\ req[r].expired \in SUBSET Booking
         /\ \A b \in req[r].expired : status[b] # "none" /\ lesson[b].start <= clock
BY DEF IInv, TypeOK, RequestOK, Work

LEMMA CheckOfferStep ==
  ASSUME IInv, NEW r \in Request, CheckOffer(r)
  PROVE  IInv'
<1>1. req[r].op = "book" /\ req[r].pc = "offer"
  BY DEF CheckOffer, At
<1>2. CASE BookRefused(r, req[r].expired)
  BY <1>1, <1>2, BookRefusedStep, ExpiredRows
<1>3. CASE /\ Offered(req[r].lesson, View(r))
           /\ req' = [req EXCEPT ![r].pc = "create"]
           /\ UNCHANGED <<lesson, status, asked, clock, lock, withdrawn>>
  <2>1. req[r].lesson \in Lesson /\ clock \in Nat /\ Buffer \in Nat
    BY Constants DEF IInv, TypeOK, Work
  <2>2. req[r].lesson.start > clock
    BY <1>3, <2>1 DEF Offered, Lesson
  <2>3. ASSUME NEW b \in Booking, status[b] # "none", b \notin withdrawn \cup req[r].expired
        PROVE  ~Overlap(req[r].lesson, lesson[b])
    <3>1. status[b] \in Active \cup {"completed"}
      BY <2>3 DEF IInv, TypeOK, TableOK, Status, Active
    <3>2. CASE status[b] \in Active
      BY <1>3, <2>3, <3>2 DEF Offered, View, WithExpired
    <3>3. CASE status[b] = "completed"
      <4>1. Ended(lesson[b]) /\ lesson[b] \in Lesson
        BY <3>3 DEF IInv, TypeOK, StatusFitsTheClock
      <4> QED BY <2>1, <2>2, <4>1 DEF Overlap, Ended, Lesson
    <3> QED BY <3>1, <3>2, <3>3
  <2> DEFINE E == req[r].expired
  <2>4. \A b \in Booking :
          status[b] # "none" /\ b \notin withdrawn \cup E =>
            /\ "create" \in {"create", "insert"} => ~Overlap(req[r].lesson, lesson[b])
            /\ req[r].lesson.type = "trial" => lesson[b].student # req[r].lesson.student
    BY <1>1, <2>3 DEF IInv, CandidateOK
  <2>5. req' = [req EXCEPT ![r].pc = "create", ![r].expired = E]
    BY <1>3 DEF IInv, TypeOK, Work
  <2>6. E \in SUBSET Booking /\ \A b \in E : status[b] # "none" /\ lesson[b].start <= clock
    BY ExpiredRows
  <2> HIDE DEF E
  <2> QED BY <1>1, <1>3, <2>4, <2>5, <2>6, AdvanceStep
<1> QED BY <1>2, <1>3 DEF CheckOffer

LEMMA CreateCleanStep ==
  ASSUME IInv, NEW r \in Request, CreateClean(r)
  PROVE  IInv'
<1>1. req[r].op = "book" /\ req[r].pc = "create"
  BY DEF CreateClean, At
<1>2. CASE BookRefused(r, {})
  BY <1>1, <1>2, BookRefusedStep
<1>3. CASE /\ req' = [req EXCEPT ![r].pc = "insert"]
           /\ UNCHANGED <<lesson, status, asked, clock, lock, withdrawn>>
  <2> DEFINE E == req[r].expired
  <2>1. \A b \in Booking :
          status[b] # "none" /\ b \notin withdrawn \cup E =>
            /\ "insert" \in {"create", "insert"} => ~Overlap(req[r].lesson, lesson[b])
            /\ req[r].lesson.type = "trial" => lesson[b].student # req[r].lesson.student
    BY <1>1 DEF IInv, CandidateOK
  <2>2. req' = [req EXCEPT ![r].pc = "insert", ![r].expired = E]
    BY <1>3 DEF IInv, TypeOK, Work
  <2>6. E \in SUBSET Booking /\ \A b \in E : status[b] # "none" /\ lesson[b].start <= clock
    BY ExpiredRows
  <2> HIDE DEF E
  <2> QED BY <1>1, <1>3, <2>1, <2>2, <2>6, AdvanceStep
<1> QED BY <1>2, <1>3 DEF CreateClean

\* The row that appears carries a candidate no other transaction could have
\* inserted next to: r holds the teacher's row.
LEMMA InsertStep ==
  ASSUME IInv, NEW r \in Request, Insert(r)
  PROVE  IInv'
<1>1. req[r].op = "book" /\ req[r].pc = "insert" /\ lock = r
  BY DEF Insert, At, IInv, RequestOK
<1>2. PICK n \in Booking :
        /\ NextId(n)
        /\ \/ /\ Write([View(r) EXCEPT ![n] = "pending"])
              /\ lesson' = [lesson EXCEPT ![n] = req[r].lesson]
              /\ lock' = Nobody
              /\ req' = [req EXCEPT ![r] = Idle]
              /\ UNCHANGED <<asked, clock>>
           \/ BookRefused(r, {})
  BY DEF Insert
<1>3. CASE BookRefused(r, {})
  BY <1>1, <1>3, BookRefusedStep
<1>4. CASE /\ Write([View(r) EXCEPT ![n] = "pending"])
           /\ lesson' = [lesson EXCEPT ![n] = req[r].lesson]
           /\ lock' = Nobody
           /\ req' = [req EXCEPT ![r] = Idle]
           /\ UNCHANGED <<asked, clock>>
  <2> DEFINE E == req[r].expired
             l == req[r].lesson
  <2>1. l \in Lesson /\ E \in SUBSET Booking
    BY DEF IInv, TypeOK, Work
  <2>2. status[n] = "none" /\ n \notin E
    BY <1>2, ExpiredRows DEF NextId
  <2>3. \A b \in Booking : status'[b] = IF b = n THEN "pending"
                                        ELSE IF b \in E THEN "expired" ELSE status[b]
    BY <1>4 DEF Write, View, WithExpired
  <2>4. status' \in [Booking -> Status \cup {"none"}]
    BY <1>4 DEF Write, View, WithExpired, IInv, TypeOK, Status
  <2>5. lesson' \in [Booking -> Lesson] /\ lesson'[n] = l
        /\ \A b \in Booking \ {n} : lesson'[b] = lesson[b]
    BY <1>4, <2>1 DEF IInv, TypeOK
  <2>6. /\ withdrawn' \in SUBSET Booking /\ withdrawn \subseteq withdrawn'
        /\ E \subseteq withdrawn'
    BY <1>4, <2>1, <2>2, <2>3 DEF Write, IInv, TypeOK
  <2>7. /\ req' \in [Request -> Work] /\ req'[r] = Idle
        /\ \A q \in Request \ {r} : req'[q] = req[q] /\ req[q].op # "book"
    BY <1>1, <1>4, IdleOK DEF IInv, TypeOK, RequestOK
  <2>8. \A b \in Booking : status[b] # "none" /\ b \notin withdrawn \cup E =>
          /\ ~Overlap(l, lesson[b])
          /\ l.type = "trial" => lesson[b].student # l.student
    BY <1>1 DEF IInv, CandidateOK
  <2> HIDE DEF E, l
  <2>9. TypeOK'
    BY <1>4, <2>4, <2>5, <2>6, <2>7 DEF IInv, TypeOK
  <2>10. TableOK'
    <3>1. \A a, b \in Booking : a < b /\ status'[b] # "none" => status'[a] # "none"
      <4>1. \A b \in Booking \ {n} : status'[b] # "none" <=> status[b] # "none"
        BY <2>3, ExpiredRows DEF E
      <4>2. \A b \in Booking : b < n => b \in Booking \ {n} /\ status[b] # "none"
        BY <1>2, Constants DEF NextId
      <4>3. status'[n] # "none"
        BY <2>3
      <4> QED BY <4>1, <4>2, <4>3 DEF IInv, TableOK
    <3>2. \A b \in Booking : status'[b] \in {"cancelled", "expired"} => b \in withdrawn'
      BY <1>4, <2>4 DEF Write
    <3> QED BY <3>1, <3>2 DEF TableOK
  <2>11. ASSUME NEW q \in Request PROVE RequestOK(q)' /\ CandidateOK(q)'
    <3>1. CASE q = r
      BY <1>4, <2>7, <3>1, Constants DEF RequestOK, CandidateOK, Idle
    <3>2. CASE q # r
      <4>1. req'[q] = req[q] /\ req[q].op # "book" /\ lock # q /\ lock' # q
        BY <1>1, <1>4, <2>7, <3>2, Constants
      <4>2. RequestOK(q)
        BY DEF IInv
      <4>3. req[q].op \in {"save", "ask"} =>
              /\ lesson'[req[q].id] = lesson[req[q].id]
              /\ status'[req[q].id] # "none"
        BY <2>2, <2>3, <2>5, <4>2 DEF RequestOK
      <4>4. RequestOK(q)'
        BY <1>4, <4>1, <4>2, <4>3 DEF RequestOK, Ended
      <4>5. CandidateOK(q)'
        BY <4>1, <4>2 DEF RequestOK, CandidateOK
      <4> QED BY <4>4, <4>5
    <3> QED BY <3>1, <3>2
  <2>12. NoOverlap'
    <3>1. \A b \in Booking \ {n} : status'[b] # "none" => status[b] # "none"
      BY <2>3, ExpiredRows DEF E
    <3>2. \A b \in Booking \ {n} :
            status'[b] # "none" /\ b \notin withdrawn' =>
              ~Overlap(l, lesson[b]) /\ ~Overlap(lesson[b], l)
      BY <2>6, <2>8, <3>1 DEF Overlap
    <3>3. \A a, b \in Booking \ {n} :
            a # b /\ status'[a] # "none" /\ status'[b] # "none" /\ Overlap(lesson[a], lesson[b])
              => a \in withdrawn' \/ b \in withdrawn'
      BY <2>6, <3>1 DEF IInv, NoOverlap
    <3> QED BY <2>5, <3>2, <3>3 DEF NoOverlap, Overlap
  <2>13. TrialIsFirstLesson'
    <3>1. \A b \in Booking \ {n} : status'[b] # "none" => status[b] # "none"
      BY <2>3, ExpiredRows DEF E
    <3>2. \A a \in Booking : a < n => status[a] # "none"
      BY <1>2 DEF NextId
    <3>3. \A b \in Booking : n < b => status[b] = "none"
      BY <2>2 DEF IInv, TableOK
    <3>4. \A a \in Booking : a < n => a # n
      BY Constants
    <3>5. ASSUME NEW a \in Booking, NEW b \in Booking, a < b, status'[b] # "none",
                 lesson'[a].student = lesson'[b].student, lesson'[b].type = "trial"
          PROVE  a \in withdrawn'
      <4>1. CASE b = n
        BY <2>5, <2>6, <2>8, <3>2, <3>4, <3>5, <4>1
      <4>2. CASE b # n
        <5>1. a # n
          BY <3>1, <3>3, <3>5, <4>2
        <5> QED BY <2>5, <2>6, <3>1, <3>5, <4>2, <5>1 DEF IInv, TrialIsFirstLesson
      <4> QED BY <4>1, <4>2
    <3> QED BY <3>5 DEF TrialIsFirstLesson
  <2>14. StatusFitsTheClock'
    <3>1. \A b \in E : lesson[b].start <= clock
      BY ExpiredRows DEF E
    <3> QED BY <1>4, <2>1, <2>2, <2>3, <2>5, <3>1 DEF IInv, StatusFitsTheClock, Ended
  <2> QED BY <2>9, <2>10, <2>11, <2>12, <2>13, <2>14 DEF IInv
<1> QED BY <1>2, <1>3, <1>4

-----------------------------------------------------------------------------
(* Expiry and time.                                                        *)

\* A step that moves no request: table and clock alone.
LEMMA NoRequestStep ==
  ASSUME IInv, TableStep, UNCHANGED <<asked, lock, req>>
  PROVE  IInv'
<1>1. \A q \in Request : RequestOK(q)' /\ CandidateOK(q)'
  BY BystanderPreserved
<1>2. /\ TableOK' /\ NoOverlap' /\ TrialIsFirstLesson' /\ StatusFitsTheClock'
      /\ withdrawn' \in SUBSET Booking
  BY TablePreserved
<1>3. TypeOK'
  BY <1>2 DEF IInv, TypeOK, TableStep
<1> QED BY <1>1, <1>2, <1>3 DEF IInv

LEMMA ExpireStaleStep ==
  ASSUME IInv, NEW S, ExpireStale(S)
  PROVE  IInv'
<1>1. TableStep
  BY StaleRows, ExpireTable DEF ExpireStale
<1> QED BY <1>1, NoRequestStep DEF ExpireStale

LEMMA TickStep ==
  ASSUME IInv, Tick
  PROVE  IInv'
<1>1. TableStep
  BY DEF Tick, IInv, TypeOK, TableOK, StatusFitsTheClock, TableStep, Ended, Lesson
<1> QED BY <1>1, NoRequestStep DEF Tick

LEMMA NextIInv == IInv /\ [Next]_vars => IInv'
<1> SUFFICES ASSUME IInv, [Next]_vars PROVE IInv'
  OBVIOUS
<1>1. ASSUME NEW r \in Request, Step(r) PROVE IInv'
  BY <1>1, FullCleanStep, SaveStep, ResolveOptionStep, CheckOfferStep, CreateCleanStep, InsertStep
     DEF Step
<1>2. ASSUME NEW r \in Request, Abort(r) PROVE IInv'
  BY <1>2, AbortStep
<1>3. ASSUME NEW r \in Request, NEW b \in Booking, Handle(r, b) PROVE IInv'
  BY <1>3, HandleStep
<1>4. ASSUME NEW r \in Request, NEW s \in Student, NEW t \in Start, NEW o \in Option,
             LockTeacher(r, s, t, o)
      PROVE  IInv'
  BY <1>4, LockTeacherStep
<1>5. ASSUME NEW b \in Booking, AnswerTooLate(b) PROVE IInv'
  BY <1>5, ExpireStaleStep DEF AnswerTooLate
<1>6. ASSUME NEW s \in Student, StudentPage(s) PROVE IInv'
  BY <1>6, ExpireStaleStep DEF StudentPage
<1>7. CASE Sweep
  BY <1>7, ExpireStaleStep DEF Sweep
<1>8. CASE Tick
  BY <1>8, TickStep
<1>9. CASE UNCHANGED vars
  <2>1. TableStep /\ UNCHANGED <<asked, lock, req>>
    BY <1>9, UnchangedTable DEF vars
  <2> QED BY <2>1, NoRequestStep
<1> QED BY <1>1, <1>2, <1>3, <1>4, <1>5, <1>6, <1>7, <1>8, <1>9 DEF Next

-----------------------------------------------------------------------------
(* The theorems.                                                           *)

\* The inductive invariant holds of every reachable state.
THEOREM Invariance == Spec => []IInv
BY InitIInv, NextIInv, PTL DEF Spec

\* Every variable stays in its type, for any size of the system.
THEOREM TypeCorrect == Spec => []TypeOK
<1>1. IInv => TypeOK
  BY DEF IInv
<1> QED BY <1>1, Invariance, PTL

\* book_slot's lock: overlapping bookings need one that was cancelled or expired.
THEOREM LockingPreventsOverlap == Spec => []OverlapOnlyAfterWithdrawal
<1>1. ASSUME IInv, NEW a \in Booking, NEW b \in Booking, Overlapping(a, b)
      PROVE  a \in withdrawn \/ b \in withdrawn
  <2>1. lesson[a] \in Lesson /\ lesson[b] \in Lesson
    BY <1>1 DEF IInv, TypeOK
  <2>2. Overlap(lesson[a], lesson[b])
    BY <1>1, <2>1, OverlapIsSharedTick DEF Overlapping
  <2> QED BY <1>1, <2>2 DEF IInv, NoOverlap, Overlapping
<1>2. IInv => OverlapOnlyAfterWithdrawal
  BY <1>1 DEF OverlapOnlyAfterWithdrawal
<1> QED BY <1>2, Invariance, PTL

\* A trial lesson is the student's first, under any race of requests.
THEOREM TrialsAreFirst == Spec => []TrialIsFirstLesson
<1>1. IInv => TrialIsFirstLesson
  BY DEF IInv
<1> QED BY <1>1, Invariance, PTL

\* No booking is completed before its end or expired before its start.
THEOREM StatusesFit == Spec => []StatusFitsTheClock
<1>1. IInv => StatusFitsTheClock
  BY DEF IInv
<1> QED BY <1>1, Invariance, PTL

-----------------------------------------------------------------------------
(* Requests one at a time.                                                 *)

LEMMA InitSerial == Init => SerialOK
BY DEF Init, SerialOK, OneAtATime, ActiveApart, Idle, Active

\* No request is running: nothing is left to show but that active rows are apart.
LEMMA NoneRuns ==
  ASSUME IInv', \A q \in Request : req'[q].pc = "idle", ActiveApart'
  PROVE  SerialOK'
<1>1. ASSUME NEW q \in Request PROVE req'[q].op \notin {"save", "ask", "book"}
  <2>1. RequestOK(q)' /\ req'[q].pc = "idle"
    BY DEF IInv
  <2> QED BY <2>1 DEF RequestOK
<1> QED BY <1>1 DEF SerialOK, OneAtATime

\* One request runs.
LEMMA OneRuns ==
  ASSUME IInv', NEW r \in Request, \A q \in Request \ {r} : req'[q].pc = "idle", ActiveApart',
         req'[r].op \in {"save", "ask"} => WriteIsCurrent(r)',
         req'[r].op = "book" => CandidateIsCurrent(r)'
  PROVE  SerialOK'
<1>1. ASSUME NEW q \in Request \ {r} PROVE req'[q].op \notin {"save", "ask", "book"}
  <2>1. RequestOK(q)' /\ req'[q].pc = "idle"
    BY DEF IInv
  <2> QED BY <2>1 DEF RequestOK
<1> QED BY <1>1 DEF SerialOK, OneAtATime

\* Rows stay apart when no other becomes active.
LEMMA StayApart ==
  ASSUME SerialOK, lesson' = lesson,
         \A b \in Booking : status'[b] \in Active => status[b] \in Active
  PROVE  ActiveApart'
BY DEF SerialOK, ActiveApart, Overlap

\* A request runs alone.
LEMMA Alone ==
  ASSUME SerialOK, NEW r \in Request, req[r].pc # "idle"
  PROVE  \A q \in Request \ {r} : req[q].pc = "idle"
BY DEF SerialOK, OneAtATime

\* A request that ends.
LEMMA SerialReturn ==
  ASSUME IInv, IInv', SerialOK, NEW r \in Request, req[r].pc # "idle",
         req' = [req EXCEPT ![r] = Idle], ActiveApart'
  PROVE  SerialOK'
<1>1. \A q \in Request : req'[q].pc = "idle"
  BY Alone DEF IInv, TypeOK, Idle
<1> QED BY <1>1, NoneRuns

LEMMA HandleSerial ==
  ASSUME Serial, IInv, IInv', SerialOK, NEW r \in Request, NEW b \in Booking, Handle(r, b)
  PROVE  SerialOK' /\ UNCHANGED <<lesson, status, asked, clock>>
<1>1. PICK st, flag, op :
        /\ WriteBack(r, b, st, flag, op)
        /\ op \in {"save", "ask"}
        /\ \/ /\ asked[b] /\ ~flag
              /\ st \in {status[b], "cancelled"}
           \/ /\ ~asked[b] /\ ~flag
              /\ status[b] = "pending" /\ lesson[b].start > clock
              /\ st \in {"confirmed", "cancelled"}
           \/ /\ flag = asked[b]
              /\ status[b] \in Active /\ ~AwaitingResolution(b)
              /\ st = "cancelled"
           \/ /\ flag = asked[b]
              /\ AwaitingResolution(b)
              /\ st \in {"completed", "cancelled"}
           \/ /\ ~asked[b] /\ flag
              /\ status[b] \in Active
              /\ st = status[b]
  <2>1. ASSUME NEW granted \in BOOLEAN, AnswerCancellation(r, b, granted)
        PROVE  /\ asked[b]
               /\ WriteBack(r, b, IF granted THEN "cancelled" ELSE status[b], FALSE, "save")
    BY <2>1 DEF AnswerCancellation
  <2>2. ASSUME NEW st \in {"confirmed", "cancelled"}, AnswerRequest(r, b, st)
        PROVE  /\ ~asked[b] /\ status[b] = "pending" /\ lesson[b].start > clock
               /\ WriteBack(r, b, st, FALSE, "save")
    BY <2>2 DEF AnswerRequest
  <2> QED BY <2>1, <2>2 DEF Handle, CancelLesson, CompleteLesson, MarkLessonNotHeld,
                             RequestCancellation
<1>2. /\ UNCHANGED <<lesson, status, asked, clock>>
      /\ \A q \in Request : req[q].pc = "idle"
      /\ req'[r] = [pc |-> "clean", op |-> op, id |-> b, status |-> st, asked |-> flag,
                    lesson |-> NoLesson, expired |-> {}]
      /\ \A q \in Request \ {r} : req'[q] = req[q]
  BY <1>1 DEF WriteBack, Quiet, IInv, TypeOK
<1>3. /\ req'[r].id = b /\ req'[r].status = st /\ req'[r].asked = flag /\ req'[r].op = op
      /\ op # "book"
  BY <1>1, <1>2
<1>4. WriteIsCurrent(r)'
  BY <1>1, <1>2, <1>3 DEF WriteIsCurrent, AwaitingResolution, Ended
<1>5. ActiveApart'
  BY <1>2, StayApart
<1> QED BY <1>2, <1>3, <1>4, <1>5, OneRuns

LEMMA FullCleanSerial ==
  ASSUME IInv, IInv', SerialOK, NEW r \in Request, FullClean(r)
  PROVE  SerialOK' /\ UNCHANGED <<lesson, status, asked, clock>>
<1>1. /\ UNCHANGED <<lesson, status, asked, clock>>
      /\ req[r].pc # "idle" /\ req[r].op \in {"save", "ask"} /\ WriteIsCurrent(r)
  BY DEF FullClean, At, SerialOK
<1>2. ActiveApart'
  BY <1>1, StayApart
<1>3. CASE req' = [req EXCEPT ![r] = Idle]
  BY <1>1, <1>2, <1>3, SerialReturn
<1>4. CASE req' = [req EXCEPT ![r].pc = "save"]
  <2>1. /\ req'[r].id = req[r].id /\ req'[r].status = req[r].status /\ req'[r].op = req[r].op
        /\ req'[r].asked = req[r].asked /\ \A q \in Request \ {r} : req'[q] = req[q]
    BY <1>4 DEF IInv, TypeOK, Work
  <2>2. WriteIsCurrent(r)'
    BY <1>1, <2>1 DEF WriteIsCurrent, AwaitingResolution, Ended
  <2> QED BY <1>1, <1>2, <2>1, <2>2, Alone, OneRuns
<1> QED BY <1>1, <1>3, <1>4 DEF FullClean

\* The write is a step of the book: the row is as the handler has read it.
LEMMA SaveSerial ==
  ASSUME IInv, IInv', SerialOK, NEW r \in Request, Save(r)
  PROVE  SerialOK' /\ (Contract!Next \/ UNCHANGED <<lesson, status, asked, clock>>)
<1>1. /\ UNCHANGED <<lesson, clock>> /\ req' = [req EXCEPT ![r] = Idle]
      /\ req[r].pc # "idle" /\ req[r].op \in {"save", "ask"} /\ WriteIsCurrent(r)
      /\ req[r].id \in Booking
  BY DEF Save, At, SerialOK, IInv, RequestOK
<1>0. PICK b \in Booking : b = req[r].id
  BY <1>1
<1>2. PICK st, flag : b = req[r].id /\ st = req[r].status /\ flag = req[r].asked
  BY <1>0
<1>3. CASE UNCHANGED <<status, asked, withdrawn>>
  <2>1. ActiveApart'
    BY <1>1, <1>3, StayApart
  <2> QED BY <1>1, <1>3, <2>1, SerialReturn
<1>4. CASE status' = [status EXCEPT ![b] = st] /\ asked' = [asked EXCEPT ![b] = flag]
  <2>1. /\ status[b] \in Status \cup {"none"} /\ asked[b] \in BOOLEAN /\ flag \in BOOLEAN
        /\ status \in [Booking -> Status \cup {"none"}] /\ asked \in [Booking -> BOOLEAN]
    BY <1>2 DEF IInv, TypeOK, Work
  <2>2. /\ status'[b] = st
        /\ \A c \in Booking \ {b} : status'[c] = status[c]
    BY <1>4, <2>1
  <2>3. st \in Active => status[b] \in Active
    BY <1>1, <1>2 DEF WriteIsCurrent, Active
  <2>4. ActiveApart'
    BY <1>1, <2>2, <2>3, StayApart
  <2>5. st = status[b] => status' = status
    BY <1>4, <2>1
  <2>6. flag = asked[b] => asked' = asked
    BY <1>4, <2>1
  <2>7. \/ /\ asked[b] /\ flag = FALSE
           /\ st \in {status[b], "cancelled"}
        \/ /\ ~asked[b] /\ flag = asked[b]
           /\ status[b] = "pending" /\ lesson[b].start > clock
           /\ st \in {"confirmed", "cancelled"}
        \/ /\ flag = asked[b]
           /\ status[b] \in Active /\ ~AwaitingResolution(b)
           /\ st = "cancelled"
        \/ /\ flag = asked[b]
           /\ AwaitingResolution(b)
           /\ st \in {"completed", "cancelled"}
        \/ /\ ~asked[b] /\ flag = TRUE
           /\ status[b] \in Active
           /\ st = status[b]
    BY <1>1, <1>2, <2>1 DEF WriteIsCurrent
  <2>8. ASSUME asked[b], flag = FALSE, st \in {status[b], "cancelled"}
        PROVE  Contract!Next
    <3>1. \E granted \in BOOLEAN : st = IF granted THEN "cancelled" ELSE status[b]
      BY <2>8
    <3>2. \E granted \in BOOLEAN : Contract!AnswerCancellation(b, granted)
      BY <1>1, <1>4, <2>8, <3>1 DEF Contract!AnswerCancellation, Contract!Become
    <3> QED BY <3>2 DEF Contract!Next
  <2>9. ASSUME ~asked[b], flag = asked[b], status[b] = "pending", lesson[b].start > clock,
               st \in {"confirmed", "cancelled"}
        PROVE  Contract!Next
    <3>1. Contract!Confirm(b) \/ Contract!Decline(b)
      BY <1>1, <1>4, <2>6, <2>9 DEF Contract!Confirm, Contract!Decline, Contract!Become
    <3> QED BY <3>1 DEF Contract!Next
  <2>10. ASSUME flag = asked[b], status[b] \in Active, ~AwaitingResolution(b),
                st = "cancelled"
         PROVE  Contract!Next
    <3>1. Contract!Cancel(b)
      BY <1>1, <1>4, <2>6, <2>10
         DEF Contract!Cancel, Contract!Become, Contract!Active, Active, Contract!Past,
             AwaitingResolution, Ended
    <3> QED BY <3>1 DEF Contract!Next
  <2>11. ASSUME flag = asked[b], AwaitingResolution(b), st \in {"completed", "cancelled"}
         PROVE  Contract!Next
    <3>1. Contract!Resolve(b, st)
      BY <1>1, <1>4, <2>6, <2>11
         DEF Contract!Resolve, Contract!Become, Contract!Past, AwaitingResolution, Ended
    <3> QED BY <2>11, <3>1 DEF Contract!Next
  <2>12. ASSUME ~asked[b], flag = TRUE, status[b] \in Active, st = status[b]
         PROVE  Contract!Next
    <3>1. Contract!AskCancellation(b)
      BY <1>1, <1>4, <2>5, <2>12 DEF Contract!AskCancellation, Contract!Active, Active
    <3> QED BY <3>1 DEF Contract!Next
  <2>13. Contract!Next
    BY <2>7, <2>8, <2>9, <2>10, <2>11, <2>12
  <2> QED BY <1>1, <2>4, <2>13, SerialReturn
<1> QED BY <1>2, <1>3, <1>4 DEF Save, Write

LEMMA LockTeacherSerial ==
  ASSUME Serial, IInv, IInv', SerialOK, NEW r \in Request, NEW s \in Student, NEW t \in Start,
         NEW o \in Option, LockTeacher(r, s, t, o)
  PROVE  SerialOK' /\ UNCHANGED <<lesson, status, asked, clock>>
<1>1. /\ UNCHANGED <<lesson, status, asked, clock>>
      /\ \A q \in Request : req[q].pc = "idle"
      /\ req'[r] = [pc |-> "resolve", op |-> "book", id |-> 0, status |-> "none",
                    asked |-> FALSE,
                    lesson |-> [student |-> s, start |-> t, len |-> o.len, type |-> o.type],
                    expired |-> {}]
      /\ \A q \in Request \ {r} : req'[q] = req[q]
  BY DEF LockTeacher, Quiet, IInv, TypeOK
<1>2. /\ req'[r].op = "book" /\ req'[r].pc = "resolve" /\ req'[r].expired = {}
      /\ req'[r].lesson.student = s
  BY <1>1
<1>3. CandidateIsCurrent(r)'
  BY <1>2 DEF CandidateIsCurrent
<1>4. ActiveApart'
  BY <1>1, StayApart
<1> QED BY <1>1, <1>2, <1>3, <1>4, OneRuns

\* A refusal commits the expiries E, which is a step of the book.
LEMMA BookRefusedSerial ==
  ASSUME IInv, IInv', SerialOK, NEW r \in Request, req[r].pc # "idle",
         NEW S, NEW E \in SUBSET Stale(S), BookRefused(r, E)
  PROVE  SerialOK' /\ Contract!Next
<1>1. /\ status' = [b \in Booking |-> IF b \in E THEN "expired" ELSE status[b]]
      /\ UNCHANGED <<lesson, asked, clock>> /\ req' = [req EXCEPT ![r] = Idle]
  BY DEF BookRefused, Write, WithExpired
<1>2. ActiveApart'
  BY <1>1, StayApart DEF Active
<1>3. Contract!Expire(E) /\ E \in SUBSET Booking
  BY <1>1 DEF Contract!Expire, Stale
<1> QED BY <1>1, <1>2, <1>3, SerialReturn DEF Contract!Next

\* book_slot goes on to its next step.
LEMMA AdvanceSerial ==
  ASSUME IInv, IInv', SerialOK, NEW r \in Request, req[r].pc # "idle",
         \A q \in Request \ {r} : req'[q] = req[q], req'[r].op = "book",
         UNCHANGED <<lesson, status, asked, clock>>, CandidateIsCurrent(r)'
  PROVE  SerialOK'
<1>1. ActiveApart'
  BY StayApart
<1>2. \A q \in Request \ {r} : req'[q].pc = "idle"
  BY Alone
<1> QED BY <1>1, <1>2, OneRuns

LEMMA ResolveOptionSerial ==
  ASSUME IInv, IInv', SerialOK, NEW r \in Request, ResolveOption(r)
  PROVE  SerialOK' /\ (Contract!Next \/ UNCHANGED <<lesson, status, asked, clock>>)
<1>1. PICK l, E : l = req[r].lesson /\ E = IF l.type = "trial" THEN Stale({l.student}) ELSE {}
  OBVIOUS
<1>2. /\ E \in SUBSET Stale({l.student}) /\ req[r].op = "book" /\ req[r].pc = "resolve"
      /\ l.student \in Student
  BY <1>1 DEF ResolveOption, At, SerialOK, CandidateIsCurrent
<1>3. CASE BookRefused(r, E)
  BY <1>2, <1>3, BookRefusedSerial
<1>4. CASE /\ ~(l.type = "trial" /\ ~TrialEligible(l.student, WithExpired(E)))
           /\ req' = [req EXCEPT ![r].pc = "offer", ![r].expired = E]
           /\ UNCHANGED <<lesson, status, asked, clock, lock, withdrawn>>
  <2>1. /\ req'[r].pc = "offer" /\ req'[r].expired = E /\ req'[r].op = "book"
        /\ req'[r].lesson = l /\ \A q \in Request \ {r} : req'[q] = req[q]
    BY <1>1, <1>2, <1>4 DEF IInv, TypeOK, Work
  <2>2. PICK st : st = WithExpired(E)
    OBVIOUS
  <2>3. View(r)' = st /\ Stale({l.student})' = Stale({l.student})
    BY <1>4, <2>1, <2>2 DEF View, WithExpired, Stale
  <2>4. l.type = "trial" => TrialEligible(l.student, st)
    BY <1>4, <2>2
  <2>5. CandidateIsCurrent(r)'
    BY <1>2, <1>4, <2>1, <2>3, <2>4 DEF CandidateIsCurrent, TrialEligible
  <2> QED BY <1>2, <1>4, <2>1, <2>5, AdvanceSerial
<1> QED BY <1>1, <1>3, <1>4 DEF ResolveOption

LEMMA CheckOfferSerial ==
  ASSUME IInv, IInv', SerialOK, NEW r \in Request, CheckOffer(r)
  PROVE  SerialOK' /\ (Contract!Next \/ UNCHANGED <<lesson, status, asked, clock>>)
<1>1. PICK l : l = req[r].lesson
  OBVIOUS
<1>2. /\ req[r].op = "book" /\ req[r].pc = "offer" /\ CandidateIsCurrent(r)
      /\ req[r].expired \in SUBSET Stale({l.student})
  BY <1>1 DEF CheckOffer, At, SerialOK, CandidateIsCurrent
<1>3. CASE BookRefused(r, req[r].expired)
  BY <1>2, <1>3, BookRefusedSerial
<1>4. CASE /\ Offered(l, View(r))
           /\ req' = [req EXCEPT ![r].pc = "create"]
           /\ UNCHANGED <<lesson, status, asked, clock, lock, withdrawn>>
  <2>1. /\ req'[r].pc = "create" /\ req'[r].expired = req[r].expired /\ req'[r].op = "book"
        /\ req'[r].lesson = l /\ \A q \in Request \ {r} : req'[q] = req[q]
    BY <1>1, <1>2, <1>4 DEF IInv, TypeOK, Work
  <2>2. View(r)' = View(r) /\ Stale({l.student})' = Stale({l.student})
    BY <1>4, <2>1 DEF View, WithExpired, Stale
  <2>3. l.start \in Nat /\ clock \in Nat /\ Buffer \in Nat
    BY <1>1, Constants DEF IInv, TypeOK, Work, Lesson
  <2>4. l.start > clock /\ \A b \in Booking : View(r)[b] \in Active => ~Overlap(l, lesson[b])
    BY <1>4, <2>3 DEF Offered
  <2>5. l.type = "trial" => TrialEligible(l.student, View(r))
    BY <1>1, <1>2 DEF CandidateIsCurrent
  <2>6. CandidateIsCurrent(r)'
    BY <1>1, <1>2, <1>4, <2>1, <2>2, <2>4, <2>5 DEF CandidateIsCurrent, TrialEligible, Overlap
  <2> QED BY <1>2, <1>4, <2>1, <2>6, AdvanceSerial
<1> QED BY <1>1, <1>3, <1>4 DEF CheckOffer

LEMMA CreateCleanSerial ==
  ASSUME IInv, IInv', SerialOK, NEW r \in Request, CreateClean(r)
  PROVE  SerialOK' /\ (Contract!Next \/ UNCHANGED <<lesson, status, asked, clock>>)
<1>1. PICK l : l = req[r].lesson
  OBVIOUS
<1>2. /\ req[r].op = "book" /\ req[r].pc = "create" /\ CandidateIsCurrent(r)
      /\ {} \in SUBSET Stale({l.student})
  BY <1>1 DEF CreateClean, At, SerialOK
<1>3. CASE BookRefused(r, {})
  BY <1>2, <1>3, BookRefusedSerial
<1>4. CASE /\ req' = [req EXCEPT ![r].pc = "insert"]
           /\ UNCHANGED <<lesson, status, asked, clock, lock, withdrawn>>
  <2>1. /\ req'[r].pc = "insert" /\ req'[r].expired = req[r].expired /\ req'[r].op = "book"
        /\ req'[r].lesson = l /\ \A q \in Request \ {r} : req'[q] = req[q]
    BY <1>1, <1>2, <1>4 DEF IInv, TypeOK, Work
  <2>2. View(r)' = View(r) /\ Stale({l.student})' = Stale({l.student})
    BY <1>4, <2>1 DEF View, WithExpired, Stale
  <2>3. CandidateIsCurrent(r)'
    BY <1>1, <1>2, <1>4, <2>1, <2>2 DEF CandidateIsCurrent, TrialEligible, Overlap
  <2> QED BY <1>2, <1>4, <2>1, <2>3, AdvanceSerial
<1> QED BY <1>1, <1>3, <1>4 DEF CreateClean

\* The row that is inserted is apart from every active row, as the book demands.
LEMMA InsertSerial ==
  ASSUME IInv, IInv', SerialOK, NEW r \in Request, Insert(r)
  PROVE  SerialOK' /\ Contract!Next
<1>1. PICK l, E : l = req[r].lesson /\ E = req[r].expired
  OBVIOUS
<1>2. /\ req[r].op = "book" /\ req[r].pc = "insert" /\ CandidateIsCurrent(r)
      /\ E \in SUBSET Stale({l.student})
  BY <1>1 DEF Insert, At, SerialOK, CandidateIsCurrent
<1>3. PICK n \in Booking :
        /\ status[n] = "none"
        /\ \/ /\ Write([View(r) EXCEPT ![n] = "pending"])
              /\ lesson' = [lesson EXCEPT ![n] = l]
              /\ req' = [req EXCEPT ![r] = Idle]
              /\ UNCHANGED <<asked, clock>>
           \/ BookRefused(r, {})
  BY <1>1 DEF Insert, NextId
<1>4. CASE BookRefused(r, {})
  <2>1. {} \in SUBSET Stale({l.student})
    OBVIOUS
  <2> QED BY <1>2, <1>4, <2>1, BookRefusedSerial
<1>5. CASE /\ Write([View(r) EXCEPT ![n] = "pending"])
           /\ lesson' = [lesson EXCEPT ![n] = l]
           /\ req' = [req EXCEPT ![r] = Idle]
           /\ UNCHANGED <<asked, clock>>
  <2>1. PICK st : st = [c \in Booking |-> IF c \in E THEN "expired" ELSE status[c]]
    OBVIOUS
  <2>2. View(r) = st /\ status' = [st EXCEPT ![n] = "pending"]
    BY <1>1, <1>5, <2>1 DEF View, WithExpired, Write
  <2>3. /\ \A c \in Booking : st[c] = IF c \in E THEN "expired" ELSE status[c]
        /\ status'[n] = "pending" /\ \A c \in Booking \ {n} : status'[c] = st[c]
    BY <2>1, <2>2
  <2>4. /\ lesson'[n] = l /\ \A c \in Booking \ {n} : lesson'[c] = lesson[c]
    BY <1>5 DEF IInv, TypeOK
  <2>5. /\ l.student \in Student /\ l.start > clock
        /\ l.type = "trial" => TrialEligible(l.student, st)
        /\ \A b \in Booking : st[b] \in Active => ~Overlap(l, lesson[b])
    BY <1>1, <1>2, <2>2 DEF CandidateIsCurrent
  <2>6. ActiveApart'
    <3>1. \A b \in Booking \ {n} :
            status'[b] \in Active => status[b] \in Active /\ st[b] \in Active
      BY <2>3 DEF Active
    <3> QED BY <2>4, <2>5, <3>1 DEF SerialOK, ActiveApart, Overlap
  <2>7. \A c \in E : status[c] = "pending" /\ lesson[c].start <= clock
    BY <1>2 DEF Stale
  <2>8. \A c \in Booking \ {n} :
          /\ st[c] \in Contract!Active => ~Contract!Overlap(lesson'[n], lesson[c])
          /\ lesson'[n].type = "trial" /\ st[c] \in Contract!Active \cup {"completed"}
               => lesson[c].student # lesson'[n].student
    BY <2>4, <2>5 DEF Contract!Active, Active, Contract!Overlap, Overlap, TrialEligible
  <2>9. Contract!Place(n, E)
    BY <1>3, <1>5, <2>1, <2>2, <2>4, <2>5, <2>7, <2>8 DEF Contract!Place
  <2>10. E \in SUBSET Booking
    BY <1>2 DEF Stale
  <2>11. Contract!Next
    BY <2>9, <2>10 DEF Contract!Next
  <2> QED BY <1>2, <1>5, <2>6, <2>11, SerialReturn
<1> QED BY <1>3, <1>4, <1>5

LEMMA AbortSerial ==
  ASSUME IInv, IInv', SerialOK, NEW r \in Request, Abort(r)
  PROVE  SerialOK' /\ UNCHANGED <<lesson, status, asked, clock>>
<1>1. ActiveApart'
  BY StayApart DEF Abort
<1> QED BY <1>1, SerialReturn DEF Abort

LEMMA ExpireStaleSerial ==
  ASSUME Serial, IInv, IInv', SerialOK, Quiet, NEW S, ExpireStale(S)
  PROVE  SerialOK' /\ Contract!Next
<1>1. /\ status' = [b \in Booking |-> IF b \in Stale(S) THEN "expired" ELSE status[b]]
      /\ UNCHANGED <<lesson, asked, clock, req>> /\ \A q \in Request : req[q].pc = "idle"
  BY DEF ExpireStale, Write, WithExpired, Quiet
<1>2. ActiveApart'
  BY <1>1, StayApart DEF Active
<1>3. Contract!Expire(Stale(S)) /\ Stale(S) \in SUBSET Booking
  BY <1>1 DEF Contract!Expire, Stale
<1> QED BY <1>1, <1>2, <1>3, NoneRuns DEF Contract!Next

LEMMA TickSerial ==
  ASSUME Serial, IInv, IInv', SerialOK, Tick
  PROVE  SerialOK' /\ Contract!Next
<1>1. UNCHANGED <<lesson, status, req>> /\ \A q \in Request : req[q].pc = "idle"
  BY DEF Tick, Quiet
<1>2. ActiveApart'
  BY <1>1, StayApart
<1>3. Contract!Tick
  BY DEF Tick, Contract!Tick
<1> QED BY <1>1, <1>2, <1>3, NoneRuns DEF Contract!Next

LEMMA StutterSerial ==
  ASSUME SerialOK, UNCHANGED vars
  PROVE  SerialOK'
<1>1. \A r \in Request : WriteIsCurrent(r)' = WriteIsCurrent(r)
  BY DEF vars, WriteIsCurrent, AwaitingResolution, Ended
<1>2. \A r \in Request : CandidateIsCurrent(r)' = CandidateIsCurrent(r)
  BY DEF vars, CandidateIsCurrent, TrialEligible, Stale, View, WithExpired, Overlap
<1>3. OneAtATime' /\ ActiveApart'
  BY DEF vars, SerialOK, OneAtATime, ActiveApart, Overlap
<1> QED BY <1>1, <1>2, <1>3 DEF vars, SerialOK

LEMMA NextSerial ==
  ASSUME Serial, IInv, IInv', SerialOK, [Next]_vars
  PROVE  SerialOK' /\ [Contract!Next]_(Contract!book)
<1>1. SerialOK' /\ (Contract!Next \/ UNCHANGED <<lesson, status, asked, clock>>)
  <2>1. ASSUME NEW r \in Request, Step(r)
        PROVE  SerialOK' /\ (Contract!Next \/ UNCHANGED <<lesson, status, asked, clock>>)
    BY <2>1, FullCleanSerial, SaveSerial, ResolveOptionSerial, CheckOfferSerial,
       CreateCleanSerial, InsertSerial DEF Step
  <2>2. ASSUME NEW r \in Request, Abort(r)
        PROVE  SerialOK' /\ UNCHANGED <<lesson, status, asked, clock>>
    BY <2>2, AbortSerial
  <2>3. ASSUME NEW r \in Request, NEW b \in Booking, Handle(r, b)
        PROVE  SerialOK' /\ UNCHANGED <<lesson, status, asked, clock>>
    BY <2>3, HandleSerial
  <2>4. ASSUME NEW r \in Request, NEW s \in Student, NEW t \in Start, NEW o \in Option,
               LockTeacher(r, s, t, o)
        PROVE  SerialOK' /\ UNCHANGED <<lesson, status, asked, clock>>
    BY <2>4, LockTeacherSerial
  <2>5. ASSUME \/ \E b \in Booking : AnswerTooLate(b)
               \/ \E s \in Student : StudentPage(s)
               \/ Sweep
        PROVE  SerialOK' /\ Contract!Next
    BY <2>5, ExpireStaleSerial DEF AnswerTooLate, StudentPage, Sweep
  <2>6. CASE Tick
    BY <2>6, TickSerial
  <2>7. CASE UNCHANGED vars
    BY <2>7, StutterSerial DEF vars
  <2> QED BY <2>1, <2>2, <2>3, <2>4, <2>5, <2>6, <2>7 DEF Next
<1> QED BY <1>1 DEF Contract!book

\* With requests one at a time, what they have read stays so until they write.
THEOREM SerialInvariance == ASSUME Serial PROVE Spec => []SerialOK
<1>1. ASSUME IInv, IInv', SerialOK, [Next]_vars PROVE SerialOK'
  BY <1>1, NextSerial
<1> QED BY <1>1, InitSerial, Invariance, PTL DEF Spec

\* With requests one at a time, the handlers implement the book of lessons: what a handler
\* checks holds when it writes, so that each write is one of the book's steps.
THEOREM Implementation == ASSUME Serial PROVE Spec => ImplementsLessonBook
<1>1. Init => Contract!Init
  BY DEF Init, Contract!Init
<1>2. ASSUME IInv, IInv', SerialOK, [Next]_vars PROVE [Contract!Next]_(Contract!book)
  BY <1>2, NextSerial
<1> QED BY <1>1, <1>2, Invariance, SerialInvariance, PTL
        DEF Spec, ImplementsLessonBook, Contract!Spec
=============================================================================
