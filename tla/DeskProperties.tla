--------------------------- MODULE DeskProperties ---------------------------
(* What Desk is checked for. *)
EXTENDS Desk

CONSTANT Viewer  \* the students' zones

ASSUME ViewerAssumption == Viewer \subseteq Zone

\* The statuses of a booking whose lesson is over and was accepted.
Status == {"confirmed", "completed", "cancelled"}

\* What a request has read and is about to do.
Doing ==
  {Idle} \cup [pc : {"add"}, row : Hours] \cup [pc : {"profile"}, instant : BOOLEAN]
    \cup [pc : {"resolve", "ask", "answer"}, lesson : 1 .. site.lessons, read : Status,
          status : Status, asked : BOOLEAN]
    \cup [pc : {"insert"}, lesson : 1 .. site.lessons]
    \cup [pc : {"clean", "approve"}, id : Id, lesson : 1 .. site.lessons]

\* Every variable stays in its type, windows end after they begin, and bookings lie apart.
TypeOK ==
  /\ site \in Site /\ zone \in site.zones /\ instant \in BOOLEAN
  /\ now \in site.now .. site.now + site.ticks
  /\ windows \subseteq Window /\ rows \in 0 .. MaxRow
  /\ \A v \in windows : v.id <= rows /\ (v.kind # "off" => v.from < v.to)
  /\ booked \subseteq Nat \X Nat
  /\ \A b, c \in booked : b = c \/ b[2] <= c[1] \/ c[2] <= b[1]
  /\ held \in [1 .. site.lessons -> Status] /\ asked \subseteq 1 .. site.lessons
  /\ review \in [Id -> [lesson : 0 .. site.lessons, approved : BOOLEAN]]
  /\ req \in [Request -> Doing]
  /\ undone \subseteq 1 .. site.lessons /\ late \subseteq rejected /\ rejected \subseteq Id

-----------------------------------------------------------------------------
(* The week view.                                                          *)

\* A lesson that begins at t and takes len steps can be had, by the clock that runs.
ToBeHad(t, len) ==
  LET d == DateOf(zone, t)
  IN /\ \E v \in Windows(d) :
          /\ Instant(zone, Wall(d, v.from)) <= t
          /\ t + len <= Instant(zone, Wall(d, v.to))
     /\ IF d = DateOf(zone, now) THEN instant /\ t > now + Buffer ELSE t > now
     /\ \A b \in booked : t + len <= b[1] \/ b[2] <= t

\* The lesson touches the hours in which the teacher's clock is changed: a skipped hour is
\* offered as if it existed, a repeated one is offered once and book_slot never finds it.
AtTheChange(t, len) ==
  LET hour == IF zone.change < 0 THEN -zone.change ELSE zone.change
  IN t < zone.at + hour /\ t + len > zone.at - hour

\* get_week_data asks for the teacher's days around the student's.
Near(y, t) == Offset(y, t) - Offset(zone, t) \in -DayLength .. DayLength

\* A student whose clock is within a day of the teacher's sees, on each day of that clock,
\* exactly the lessons of the day that can be had, each once, however often overlapping
\* windows contain it, and can book them (README.md:38: "there's no separate slot table
\* that can drift out of sync with reality"; README.md:44: "the site must show each of them
\* the correct local time").
WeekIsTheOffer ==
  \A y \in Viewer, len \in Length, d \in Day :
    LET shown == Shown(y, d, len)
    IN \A t \in 0 .. (MaxDay + 1) * DayLength :
         DateOf(y, t) = d /\ Near(y, t) /\ ~AtTheChange(t, len) =>
           /\ Cardinality({w \in shown : Instant(zone, w) = t}) =
                (IF ToBeHad(t, len) THEN 1 ELSE 0)
           /\ ToBeHad(t, len) => Bookable(t, len)

-----------------------------------------------------------------------------
(* Reviews.                                                                *)

\* A review is of a lesson that was held (models.py:308: "You can only review completed
\* bookings."), and the lesson stays completed but for two things: a request that had read
\* the booking before it was completed saves what it read, or the teacher accepts a request
\* to cancel that was open when the lesson was completed (views.py:457: no status is asked
\* for).  A lesson has one review.  A review that the teacher rejected is back only if an
\* approval that had read it was still running, and then approved.
ReviewsStandUp ==
  \A i \in Id : Present(i) =>
    /\ held[review[i].lesson] = "completed" \/ review[i].lesson \in undone
    /\ \A j \in Id \ {i} : Present(j) => review[j].lesson # review[i].lesson
    /\ i \in rejected => i \in late /\ review[i].approved

-----------------------------------------------------------------------------
(* The inductive invariant.                                                *)

\* A lesson that was held, or was until it was undone.
WasHeld(l) == held[l] = "completed" \/ l \in undone

\* What a request has read still holds as far as what it saves depends on it: what was read
\* as completed is saved so or cancelled by an answer; a review that is about to be approved
\* is there, or was rejected meanwhile.
ReqOK(r) ==
  /\ req[r].pc = "add" /\ req[r].row.kind # "off" => req[r].row.from < req[r].row.to
  /\ req[r].pc \in {"resolve", "ask", "answer"} /\ req[r].read = "completed" =>
       req[r].status = "completed" \/ Withdraws(r)
  /\ req[r].pc \in {"insert", "approve"} => WasHeld(req[r].lesson)
  /\ req[r].pc \in {"clean", "approve"} => Present(req[r].id) \/ req[r].id \in late

\* Ids that were given to reviews.
Known == {i \in Id : Present(i)} \cup rejected

IInv ==
  /\ TypeOK /\ (\A r \in Request : ReqOK(r))
  /\ used \in [{"ticks", "edits", "books", "calls"} -> Nat]
  /\ now <= site.now + used["ticks"] /\ used["ticks"] <= site.ticks
  /\ \A i \in Id : Present(i) => review[i].lesson \in 1 .. site.lessons
  /\ Known = 1 .. Cardinality(Known)  \* ids are given in order
  /\ ReviewsStandUp
=============================================================================
