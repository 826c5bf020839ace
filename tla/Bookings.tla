------------------------------ MODULE Bookings ------------------------------
(***************************************************************************)
(* The booking table of the one teacher, the web requests that write it    *)
(* (book_slot, respond_to_booking, cancel_lesson, complete_lesson,         *)
(* mark_lesson_not_held, request_cancellation) and the expiry sweep.       *)
(*                                                                         *)
(* PostgreSQL runs at READ COMMITTED and the handlers that change a        *)
(* booking read its row without a lock, decide, run Booking.full_clean and *)
(* then write the WHOLE row back: each is a request with a snapshot and    *)
(* three steps (read, clean, save) between which any other request, the    *)
(* sweep and the clock may move.  book_slot alone takes the teacher's row  *)
(* with SELECT ... FOR UPDATE and keeps it to the end of its transaction.  *)
(* A tick of the clock is the 30-minute step of the slot grid; a 25-minute *)
(* lesson occupies one tick and a 50-minute lesson two.                    *)
(***************************************************************************)
EXTENDS Integers

CONSTANTS
  Student,        \* the students
  Request,        \* the workers a web request can be running in
  Nobody,         \* neither a student nor a request
  MaxBookings,    \* bound: rows ever inserted
  MaxTime,        \* bound: the last tick of the clock
  DayLength,      \* ticks in a day of the teacher's calendar
  Buffer,         \* INSTANT_TUTORING_BUFFER, in ticks
  InstantTutoring,\* teacher.instant_tutoring_enabled
  Start,          \* the start times students ask for
  Windows,        \* the teacher's availability, pairs <<from, to>>
  Serial          \* TRUE: nothing else moves while a request is running

ASSUME NobodyAssumption == Nobody \notin Student /\ Nobody \notin Request
ASSUME BoundAssumption ==
  /\ MaxBookings \in Nat
  /\ MaxTime \in Nat
  /\ DayLength \in Nat \ {0}
  /\ Buffer \in Nat
  /\ InstantTutoring \in BOOLEAN
  /\ Serial \in BOOLEAN
ASSUME WindowAssumption == \A w \in Windows : w[1] \in Nat /\ w[2] \in Nat
ASSUME StartAssumption == Start \subseteq Nat

VARIABLES
  lesson,     \* row id -> the columns no handler ever changes
  status,     \* row id -> status, "none" while the id is unused
  asked,      \* row id -> cancellation_requested
  clock,      \* timezone.now()
  lock,       \* the request holding the teacher's row, or Nobody
  req,        \* request -> what it is doing, with its snapshot of the row
  withdrawn   \* history: rows that were ever cancelled or expired

vars == <<lesson, status, asked, clock, lock, req, withdrawn>>

Booking == 1 .. MaxBookings
Status  == {"pending", "confirmed", "completed", "cancelled", "expired"}
Active  == {"pending", "confirmed"}

Lesson == [student : Student \cup {Nobody}, start : Nat, len : 1 .. 2,
           type : {"trial", "regular"}]
NoLesson == [student |-> Nobody, start |-> 0, len |-> 1, type |-> "regular"]

\* Mutant: a 75-minute option the rest of the code does not know of.
OptionLonger == {[type |-> "trial", len |-> 1], [type |-> "regular", len |-> 3]}

\* The lesson options of resolve_lesson_option: trial, regular_25, regular_50.
Option == {[type |-> "trial", len |-> 1], [type |-> "regular", len |-> 1],
           [type |-> "regular", len |-> 2]}

\* A request: a handler with the row, status and flag it is about to write ("ask"
\* also notifies the teacher), or book_slot with its candidate lesson and the rows
\* it expired on the way.
Work == [pc : {"idle", "clean", "save", "resolve", "offer", "create", "insert"},
         op : {"none", "save", "ask", "book"}, id : 0 .. MaxBookings,
         status : Status \cup {"none"}, asked : BOOLEAN,
         lesson : Lesson, expired : SUBSET Booking]
Idle == [pc |-> "idle", op |-> "none", id |-> 0, status |-> "none", asked |-> FALSE,
         lesson |-> NoLesson, expired |-> {}]

-----------------------------------------------------------------------------
(* The clock and the grid.                                                 *)

\* end_at < now.  A 25-minute lesson is five minutes shorter than its tick and a
\* 50-minute one ten minutes shorter than its two, so at a tick this reads <=.
Ended(l) == l.start + l.len <= clock

Overlap(l, m) == l.start < m.start + m.len /\ m.start < l.start + l.len
Day(t) == t \div DayLength

\* The rows another active booking would collide with l, id excluded.
Clash(id, l, st) ==
  \E b \in Booking \ {id} : st[b] \in Active /\ Overlap(l, lesson[b])

\* get_available_start_times offers l.start for l.len, given the statuses st.
Offered(l, st) ==
  /\ \E w \in Windows : w[1] <= l.start /\ l.start + l.len <= w[2]
  /\ IF Day(l.start) = Day(clock)
       THEN InstantTutoring /\ l.start > clock + Buffer
       ELSE l.start > clock
  /\ \A b \in Booking : st[b] \in Active => ~Overlap(l, lesson[b])

\* Mutant: start_at__lt in place of start_at__lte.
StaleStrict(S) == {b \in Booking : /\ status[b] = "pending"
                                   /\ lesson[b].start < clock
                                   /\ lesson[b].student \in S}

Stale(S) == {b \in Booking : /\ status[b] = "pending"
                             /\ lesson[b].start <= clock
                             /\ lesson[b].student \in S}
WithExpired(E) == [b \in Booking |-> IF b \in E THEN "expired" ELSE status[b]]

\* Commit the statuses st, and what the history remembers of them.
Write(st) ==
  /\ status' = st
  /\ withdrawn' = withdrawn \cup {b \in Booking : st[b] \in {"cancelled", "expired"}}

\* An idle worker picks up work; a serial system lets nothing else move.
Quiet == Serial => \A q \in Request : req[q].pc = "idle"
At(r, op, pc) == req[r].op \in op /\ req[r].pc = pc

-----------------------------------------------------------------------------
(* The handlers that change a booking.  Each reads the row with its         *)
(* get_object_or_404 filter and the clock, and either answers without      *)
(* writing (404, 400: no action here) or goes on to booking.save().  The   *)
(* clock is read right after the row, so the two are one step.             *)

\* r has read row b and will write it back with these two columns changed.
WriteBack(r, b, st, flag, op) ==
  /\ req[r].pc = "idle" /\ Quiet
  /\ req' = [req EXCEPT ![r] =
       [pc |-> "clean", op |-> op, id |-> b, status |-> st, asked |-> flag,
        lesson |-> NoLesson, expired |-> {}]]
  /\ UNCHANGED <<lesson, status, asked, clock, lock, withdrawn>>

\* respond_to_booking, cancellation branch: taken whatever the status is.
AnswerCancellation(r, b, granted) ==
  /\ status[b] # "none" /\ asked[b]
  /\ WriteBack(r, b, IF granted THEN "cancelled" ELSE status[b], FALSE, "save")

\* Mutant: respond_to_booking without the check that the start is ahead.
AnswerRequestAnyTime(r, b, st) ==
  /\ ~asked[b]
  /\ status[b] = "pending"
  /\ WriteBack(r, b, st, FALSE, "save")

\* respond_to_booking, a pending request whose start is still ahead.
AnswerRequest(r, b, st) ==
  /\ ~asked[b]
  /\ status[b] = "pending" /\ lesson[b].start > clock
  /\ WriteBack(r, b, st, FALSE, "save")

AwaitingResolution(b) == status[b] = "confirmed" /\ Ended(lesson[b])

CancelLesson(r, b) ==
  /\ status[b] \in Active /\ ~AwaitingResolution(b)
  /\ WriteBack(r, b, "cancelled", asked[b], "save")

\* Mutant: complete_lesson without the is_awaiting_resolution check.
CompleteLessonEarly(r, b) ==
  /\ status[b] = "confirmed"
  /\ WriteBack(r, b, "completed", asked[b], "save")

CompleteLesson(r, b) ==
  /\ AwaitingResolution(b)
  /\ WriteBack(r, b, "completed", asked[b], "save")

MarkLessonNotHeld(r, b) ==
  /\ AwaitingResolution(b)
  /\ WriteBack(r, b, "cancelled", asked[b], "save")

RequestCancellation(r, b) ==
  /\ status[b] \in Active /\ ~asked[b]
  /\ WriteBack(r, b, status[b], TRUE, "ask")

\* Booking.clean, run by every save(): another active booking in the way is a
\* ValidationError, whatever status is being written.
FullClean(r) ==
  /\ At(r, {"save", "ask"}, "clean")
  /\ req' = IF Clash(req[r].id, lesson[req[r].id], status)
              THEN [req EXCEPT ![r] = Idle]
              ELSE [req EXCEPT ![r].pc = "save"]
  /\ UNCHANGED <<lesson, status, asked, clock, lock, withdrawn>>

\* The partial unique index on (teacher, start_at).
UniqueStart(id, l, st) ==
  st[id] \in Active =>
    \A b \in Booking \ {id} : st[b] \in Active => lesson[b].start # l.start

\* UPDATE of every column and commit.  It waits for the row if a book_slot has
\* expired it, and request_cancellation's notification waits for book_slot.
Save(r) ==
  LET id == req[r].id
      st == [status EXCEPT ![id] = req[r].status]
  IN /\ At(r, {"save", "ask"}, "save")
     /\ \A q \in Request : id \notin req[q].expired
     /\ req[r].op = "ask" => lock = Nobody
     /\ IF UniqueStart(id, lesson[id], st)
          THEN Write(st) /\ asked' = [asked EXCEPT ![id] = req[r].asked]
          ELSE UNCHANGED <<status, asked, withdrawn>>
     /\ req' = [req EXCEPT ![r] = Idle]
     /\ UNCHANGED <<lesson, clock, lock>>

-----------------------------------------------------------------------------
(* book_slot.                                                              *)

\* Mutant: the teacher's row read without select_for_update.
LockTeacherUnlocked(r, s, t, o) ==
  /\ req[r].pc = "idle" /\ Quiet
  /\ \E b \in Booking : status[b] = "none"
  /\ req' = [req EXCEPT ![r] =
       [pc |-> "resolve", op |-> "book", id |-> 0, status |-> "none", asked |-> FALSE,
        lesson |-> [student |-> s, start |-> t, len |-> o.len, type |-> o.type],
        expired |-> {}]]
  /\ UNCHANGED <<lesson, status, asked, clock, lock, withdrawn>>

\* SELECT ... FOR UPDATE on the teacher's row and, by select_related, user.
LockTeacher(r, s, t, o) ==
  /\ req[r].pc = "idle" /\ Quiet
  /\ lock = Nobody
  /\ \E b \in Booking : status[b] = "none"
  /\ lock' = r
  /\ req' = [req EXCEPT ![r] =
       [pc |-> "resolve", op |-> "book", id |-> 0, status |-> "none", asked |-> FALSE,
        lesson |-> [student |-> s, start |-> t, len |-> o.len, type |-> o.type],
        expired |-> {}]]
  /\ UNCHANGED <<lesson, status, asked, clock, withdrawn>>

\* What the transaction of r sees: committed rows and its own expiries.
View(r) == WithExpired(req[r].expired)

\* The transaction of book_slot ends without a booking: an early return leaves
\* the atomic block normally and COMMITS the expiries, an exception undoes them.
BookRefused(r, E) ==
  /\ Write(WithExpired(E))
  /\ lock' = Nobody
  /\ req' = [req EXCEPT ![r] = Idle]
  /\ UNCHANGED <<lesson, asked, clock>>

\* Mutant: eligibility that forgets the requests still pending.
TrialEligibleAnswered(s, st) ==
  \A b \in Booking : st[b] \in {"confirmed", "completed"} => lesson[b].student # s

\* is_trial_eligible, over the statuses st its own expiry has left.
TrialEligible(s, st) ==
  \A b \in Booking :
    st[b] \in Active \cup {"completed"} => lesson[b].student # s

\* resolve_lesson_option: a trial first expires the student's stale requests.
ResolveOption(r) ==
  LET l == req[r].lesson
      E == IF l.type = "trial" THEN Stale({l.student}) ELSE {}
  IN /\ At(r, {"book"}, "resolve")
     /\ IF l.type = "trial" /\ ~TrialEligible(l.student, WithExpired(E))
          THEN BookRefused(r, E)
          ELSE /\ req' = [req EXCEPT ![r].pc = "offer", ![r].expired = E]
               /\ UNCHANGED <<lesson, status, asked, clock, lock, withdrawn>>

\* start_at must be among get_available_start_times, or 409.
CheckOffer(r) ==
  /\ At(r, {"book"}, "offer")
  /\ IF Offered(req[r].lesson, View(r))
       THEN /\ req' = [req EXCEPT ![r].pc = "create"]
            /\ UNCHANGED <<lesson, status, asked, clock, lock, withdrawn>>
       ELSE BookRefused(r, req[r].expired)

\* Booking.objects.create: full_clean ...
CreateClean(r) ==
  /\ At(r, {"book"}, "create")
  /\ IF Clash(0, req[r].lesson, View(r))
       THEN BookRefused(r, {})
       ELSE /\ req' = [req EXCEPT ![r].pc = "insert"]
            /\ UNCHANGED <<lesson, status, asked, clock, lock, withdrawn>>

\* ... then INSERT with the next id, and the commit.
NextId(b) == status[b] = "none" /\ \A c \in Booking : c < b => status[c] # "none"
Insert(r) ==
  \E b \in Booking :
    /\ At(r, {"book"}, "insert") /\ NextId(b)
    /\ LET st == [View(r) EXCEPT ![b] = "pending"]
       IN IF UniqueStart(b, req[r].lesson, st)
            THEN /\ Write(st)
                 /\ lesson' = [lesson EXCEPT ![b] = req[r].lesson]
                 /\ lock' = Nobody
                 /\ req' = [req EXCEPT ![r] = Idle]
                 /\ UNCHANGED <<asked, clock>>
            ELSE BookRefused(r, {})

\* Any other exception, or the worker dying: the transaction is rolled back.
Abort(r) ==
  /\ req[r].pc # "idle"
  /\ req' = [req EXCEPT ![r] = Idle]
  /\ lock' = IF lock = r THEN Nobody ELSE lock
  /\ UNCHANGED <<lesson, status, asked, clock, withdrawn>>

-----------------------------------------------------------------------------
(* Expiry outside a booking handler, and time.                             *)

\* expire_stale_bookings over the requests of the students S.  Its notifications
\* refer to the teacher's user row, so it waits for a running book_slot.
ExpireStale(S) ==
  /\ Stale(S) # {} /\ lock = Nobody
  /\ Write(WithExpired(Stale(S)))
  /\ UNCHANGED <<lesson, asked, clock, lock, req>>

\* The beat task and the teacher's pages expire every stale request, a student's
\* pages that student's; so does respond_to_booking on a request that is too late.
Sweep == Quiet /\ ExpireStale(Student)
StudentPage(s) == Quiet /\ ExpireStale({s})
AnswerTooLate(b) ==
  /\ Quiet
  /\ status[b] = "pending" /\ ~asked[b] /\ lesson[b].start <= clock
  /\ ExpireStale(Student)

Tick ==
  /\ Quiet
  /\ clock < MaxTime
  /\ clock' = clock + 1
  /\ UNCHANGED <<lesson, status, asked, lock, req, withdrawn>>

-----------------------------------------------------------------------------
Init ==
  /\ lesson = [b \in Booking |-> NoLesson]
  /\ status = [b \in Booking |-> "none"]
  /\ asked = [b \in Booking |-> FALSE]
  /\ clock = 0
  /\ lock = Nobody
  /\ req = [r \in Request |-> Idle]
  /\ withdrawn = {}

\* Everything a request that is under way does next.
Step(r) ==
  FullClean(r) \/ Save(r) \/ ResolveOption(r) \/ CheckOffer(r) \/ CreateClean(r) \/ Insert(r)

\* A request that starts on row b.
Handle(r, b) ==
  \/ \E granted \in BOOLEAN : AnswerCancellation(r, b, granted)
  \/ \E st \in {"confirmed", "cancelled"} : AnswerRequest(r, b, st)
  \/ CancelLesson(r, b) \/ CompleteLesson(r, b) \/ MarkLessonNotHeld(r, b)
  \/ RequestCancellation(r, b)

Next ==
  \/ \E r \in Request : Step(r) \/ Abort(r)
  \/ \E r \in Request, b \in Booking : Handle(r, b)
  \/ \E r \in Request, s \in Student, t \in Start, o \in Option : LockTeacher(r, s, t, o)
  \/ \E b \in Booking : AnswerTooLate(b)
  \/ \E s \in Student : StudentPage(s)
  \/ Sweep
  \/ Tick

Spec == Init /\ [][Next]_vars

\* A running request goes on to its end; the sweep, which beat starts every 15
\* minutes, queues for the teacher's row and gets it in turn.
Fairness == SF_vars(Sweep) /\ \A r \in Request : WF_vars(Step(r))
LiveSpec == Spec /\ Fairness
=============================================================================
