------------------------- MODULE BookingsProperties -------------------------
(***************************************************************************)
(* What Bookings is checked for, and the bugs each check would catch.      *)
(***************************************************************************)
EXTENDS Bookings

\* Every variable stays in its type.
TypeOK ==
  /\ lesson \in [Booking -> Lesson]
  /\ status \in [Booking -> Status \cup {"none"}]
  /\ asked \in [Booking -> BOOLEAN]
  /\ clock \in Nat
  /\ lock \in Request \cup {Nobody}
  /\ req \in [Request -> Work]
  /\ withdrawn \in SUBSET Booking

\* The ticks a lesson takes; two bookings overlap if they share one.
Ticks(l) == l.start .. (l.start + l.len - 1)
Overlapping(a, b) == /\ a # b
                     /\ status[a] # "none" /\ status[b] # "none"
                     /\ Ticks(lesson[a]) \cap Ticks(lesson[b]) # {}

\* README.md:58: the race between two requests for a slot never ends in a
\* double-booked slot: two active bookings of the teacher never overlap.  The
\* code does not keep this: a stale answer brings back a row whose slot has been
\* booked since (bookings_double.cfg has the trace).
NoDoubleBooking ==
  \A a, b \in Booking :
    Overlapping(a, b) => status[a] \notin Active \/ status[b] \notin Active

\* What book_slot's lock does give under every interleaving: of two bookings
\* that overlap, one was cancelled or expired at some time.  (A double booking
\* needs a handler that writes a stale snapshot over such a row.)
OverlapOnlyAfterWithdrawal ==
  \A a, b \in Booking : Overlapping(a, b) => a \in withdrawn \/ b \in withdrawn

\* A trial lesson (is_trial_eligible) is for a student with no earlier lesson:
\* every earlier booking of the student was cancelled or expired at some time,
\* however many requests raced for it.
TrialIsFirstLesson ==
  \A a, b \in Booking :
    /\ a < b /\ status[b] # "none"
    /\ lesson[a].student = lesson[b].student /\ lesson[b].type = "trial"
    => a \in withdrawn

\* complete_lesson and expire_stale_bookings: a completed booking has ended and
\* an expired one has started, even when a stale snapshot brought the status back.
StatusFitsTheClock ==
  \A b \in Booking :
    /\ status[b] = "completed" => Ended(lesson[b])
    /\ status[b] = "expired" => lesson[b].start <= clock

\* auto-expire-pending-bookings.md: a request nobody answered does not stay
\* pending once its start has passed.
StalePendingExpires ==
  \A b \in Booking :
    (status[b] = "pending" /\ lesson[b].start <= clock) ~> (status[b] # "pending")

\* The detailed system, one request at a time, implements the book of lessons.
Contract == INSTANCE LessonBook
ImplementsLessonBook == Contract!Spec

\* auto-expire-pending-bookings.md:25: the teacher is "not able to confirm
\* lessons in the past": a booking becomes confirmed only ahead of its start.
ConfirmedAhead ==
  [][\A b \in Booking :
       status[b] = "pending" /\ status'[b] = "confirmed" => lesson[b].start > clock]_vars

\* auto-expire-pending-bookings.md:23: the requests badge (pending or
\* cancellation_requested) shows only requests that can still be acted on.
RequestsAreActionable ==
  \A b \in Booking : asked[b] => status[b] \in Active

\* CONTEXT.md:16: a cancellation request is made for a confirmed booking.
AskedWhenConfirmed ==
  [][\A b \in Booking : ~asked[b] /\ asked'[b] => status[b] = "confirmed"]_vars

\* celery-redis-email-notifications.md:32: the teacher told of a cancellation
\* request can review it: accepting the booking never drops it unanswered.
ConfirmingKeepsTheAsk ==
  [][\A b \in Booking :
       asked[b] /\ status[b] = "pending" /\ status'[b] = "confirmed" => asked'[b]]_vars

-----------------------------------------------------------------------------
(* The inductive invariant behind the safety properties.                   *)

\* Ids are used in order, and a row that is cancelled or expired is remembered.
TableOK ==
  /\ \A a, b \in Booking : a < b /\ status[b] # "none" => status[a] # "none"
  /\ \A b \in Booking : status[b] \in {"cancelled", "expired"} => b \in withdrawn

\* Only the holder of the teacher's row is inside book_slot; a handler that
\* saves has a row; what book_slot expired has started.
RequestOK(r) ==
  /\ req[r].op = "book" <=> lock = r
  /\ req[r].op = "book" <=> req[r].pc \in {"resolve", "offer", "create", "insert"}
  /\ req[r].op \in {"save", "ask"} <=> req[r].pc \in {"clean", "save"}
  /\ req[r].op \in {"save", "ask"} =>
       /\ req[r].id \in Booking /\ status[req[r].id] # "none"
       /\ req[r].status # "none"
       /\ req[r].status = "completed" => Ended(lesson[req[r].id])
       /\ req[r].status = "expired" => lesson[req[r].id].start <= clock
  /\ req[r].op # "book" => req[r].expired = {}
  /\ \A b \in req[r].expired : status[b] # "none" /\ lesson[b].start <= clock

\* What book_slot has checked stays true until it inserts: rows that are not and
\* never were cancelled or expired leave its candidate free, and a trial is for a
\* student who has none of them.
CandidateOK(r) ==
  \A b \in Booking :
    status[b] # "none" /\ b \notin withdrawn \cup req[r].expired =>
      /\ req[r].pc \in {"create", "insert"} => ~Overlap(req[r].lesson, lesson[b])
      /\ req[r].pc \in {"offer", "create", "insert"} /\ req[r].lesson.type = "trial"
           => lesson[b].student # req[r].lesson.student

NoOverlap ==
  \A a, b \in Booking :
    a # b /\ status[a] # "none" /\ status[b] # "none" /\ Overlap(lesson[a], lesson[b])
      => a \in withdrawn \/ b \in withdrawn

IInv == /\ TypeOK /\ TableOK
        /\ \A r \in Request : RequestOK(r) /\ CandidateOK(r)
        /\ NoOverlap /\ TrialIsFirstLesson /\ StatusFitsTheClock

-----------------------------------------------------------------------------
(* What is invariant besides if requests run one at a time (Serial).       *)

\* What the handler that is about to write row b has read there is still so.
WriteIsCurrent(r) ==
  LET b == req[r].id
      st == req[r].status
  IN \/ /\ asked[b] /\ ~req[r].asked
        /\ st \in {status[b], "cancelled"}
     \/ /\ ~asked[b] /\ ~req[r].asked
        /\ status[b] = "pending" /\ lesson[b].start > clock
        /\ st \in {"confirmed", "cancelled"}
     \/ /\ req[r].asked = asked[b]
        /\ status[b] \in Active /\ ~AwaitingResolution(b)
        /\ st = "cancelled"
     \/ /\ req[r].asked = asked[b]
        /\ AwaitingResolution(b)
        /\ st \in {"completed", "cancelled"}
     \/ /\ ~asked[b] /\ req[r].asked
        /\ status[b] \in Active
        /\ st = status[b]

\* What book_slot has established of its candidate so far still holds.
CandidateIsCurrent(r) ==
  LET l == req[r].lesson
  IN /\ l.student \in Student
     /\ req[r].expired \subseteq Stale({l.student})
     /\ req[r].pc \in {"offer", "create", "insert"} /\ l.type = "trial" =>
          TrialEligible(l.student, View(r))
     /\ req[r].pc \in {"create", "insert"} =>
          l.start > clock /\ \A b \in Booking : View(r)[b] \in Active => ~Overlap(l, lesson[b])

OneAtATime == \A r, q \in Request : req[r].pc # "idle" /\ req[q].pc # "idle" => r = q

ActiveApart ==
  \A a, b \in Booking :
    a # b /\ status[a] \in Active /\ status[b] \in Active => ~Overlap(lesson[a], lesson[b])

SerialOK ==
  /\ OneAtATime /\ ActiveApart
  /\ \A r \in Request :
       /\ req[r].op \in {"save", "ask"} => WriteIsCurrent(r)
       /\ req[r].op = "book" => CandidateIsCurrent(r)
=============================================================================
