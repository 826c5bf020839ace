----------------------------- MODULE LessonBook -----------------------------
(***************************************************************************)
(* What the booking system promises: one atomic step per operation on the  *)
(* book of lessons, each with the precondition the handlers of             *)
(* booking/views.py check before they write.  Requests, snapshots, locks   *)
(* and transactions do not appear.                                         *)
(***************************************************************************)
EXTENDS Integers

CONSTANTS Booking, Student, Nobody

VARIABLES lesson, status, asked, clock

book == <<lesson, status, asked, clock>>

Active == {"pending", "confirmed"}
Past(b) == lesson[b].start + lesson[b].len <= clock
Overlap(l, m) == l.start < m.start + m.len /\ m.start < l.start + l.len

Init ==
  /\ \A b \in Booking : status[b] = "none" /\ ~asked[b]
  /\ clock = 0

Become(b, st) ==
  /\ status' = [status EXCEPT ![b] = st]
  /\ UNCHANGED <<lesson, clock>>

\* A request for a lesson that lies ahead and overlaps no active one; a trial
\* is only for a student with nothing pending, confirmed or completed.  What is
\* stale of that student's may expire in the same step.
Place(b, E) ==
  LET st == [c \in Booking |-> IF c \in E THEN "expired" ELSE status[c]]
  IN /\ status[b] = "none"
     /\ \A c \in E : status[c] = "pending" /\ lesson[c].start <= clock
     /\ status' = [st EXCEPT ![b] = "pending"]
     /\ \A c \in Booking \ {b} : lesson'[c] = lesson[c]
     /\ lesson'[b].student \in Student
     /\ lesson'[b].start > clock
     /\ \A c \in Booking \ {b} :
          /\ st[c] \in Active => ~Overlap(lesson'[b], lesson[c])
          /\ lesson'[b].type = "trial" /\ st[c] \in Active \cup {"completed"}
               => lesson[c].student # lesson'[b].student
     /\ UNCHANGED <<asked, clock>>

Confirm(b) ==
  /\ status[b] = "pending" /\ ~asked[b] /\ lesson[b].start > clock
  /\ Become(b, "confirmed") /\ UNCHANGED asked

Decline(b) ==
  /\ status[b] = "pending" /\ ~asked[b] /\ lesson[b].start > clock
  /\ Become(b, "cancelled") /\ UNCHANGED asked

\* The teacher cancels a lesson that is not over.
Cancel(b) ==
  /\ status[b] \in Active
  /\ status[b] = "confirmed" => ~Past(b)
  /\ Become(b, "cancelled") /\ UNCHANGED asked

\* The teacher resolves a confirmed lesson that is over.
Resolve(b, outcome) ==
  /\ status[b] = "confirmed" /\ Past(b)
  /\ Become(b, outcome) /\ UNCHANGED asked

AskCancellation(b) ==
  /\ status[b] \in Active /\ ~asked[b]
  /\ asked' = [asked EXCEPT ![b] = TRUE]
  /\ UNCHANGED <<lesson, status, clock>>

\* The teacher grants or refuses what the student asked, in any status.
AnswerCancellation(b, granted) ==
  /\ asked[b]
  /\ asked' = [asked EXCEPT ![b] = FALSE]
  /\ Become(b, IF granted THEN "cancelled" ELSE status[b])

Expire(E) ==
  /\ \A c \in E : status[c] = "pending" /\ lesson[c].start <= clock
  /\ status' = [c \in Booking |-> IF c \in E THEN "expired" ELSE status[c]]
  /\ UNCHANGED <<lesson, asked, clock>>

Tick == clock' = clock + 1 /\ UNCHANGED <<lesson, status, asked>>

Next ==
  \/ \E b \in Booking, E \in SUBSET Booking : Place(b, E)
  \/ \E b \in Booking : \/ Confirm(b) \/ Decline(b) \/ Cancel(b) \/ AskCancellation(b)
                        \/ \E o \in {"completed", "cancelled"} : Resolve(b, o)
                        \/ \E g \in BOOLEAN : AnswerCancellation(b, g)
  \/ \E E \in SUBSET Booking : Expire(E)
  \/ Tick

Spec == Init /\ [][Next]_book
=============================================================================
