-------------------------------- MODULE Desk --------------------------------
(***************************************************************************)
(* What the one teacher keeps on the site besides bookings: the weekly     *)
(* schedule with its overrides, from which the week view offers lessons,   *)
(* and the reviews of lessons held.                                        *)
(*                                                                         *)
(* Two tabs may be at work.  Adding a window and saving a review run       *)
(* full_clean and then save, outside a transaction; whatever is saved is   *)
(* the whole row as it was read.  Bookings has the interleavings of        *)
(* booking, which is one step here.  A 25-minute lesson takes one step of  *)
(* the grid and a 50-minute lesson two; windows begin and end on the grid. *)
(***************************************************************************)
EXTENDS Clock, FiniteSets

CONSTANTS
  Request,    \* the workers a web request can be running in
  WeekLength, \* days in a week
  Buffer,     \* INSTANT_TUTORING_BUFFER, in steps
  MaxRow,     \* bound: ids of schedule rows, and of reviews
  MaxDay,     \* bound: days
  Site        \* instances: the teacher's zones, the schedule and the hour to begin with,
              \* whether the address is verified and lessons of the day may be booked, the
              \* windows that are added, and the bounds of ticks, edits, bookings, lessons
              \* to be resolved and requests about them

\* Rows of RegularAvailability ("rule", on a day of the week), and of WeeklyOverride with
\* hours ("slot") or for a day off ("off").
Hours == [kind : {"rule", "slot", "off"}, day : Nat, from : 0 .. DayLength, to : 0 .. DayLength]
Window == [id : Nat, kind : {"rule", "slot", "off"}, day : Nat, from : 0 .. DayLength,
           to : 0 .. DayLength]

ASSUME SizeAssumption == WeekLength \in Nat \ {0} /\ {Buffer, MaxRow, MaxDay} \subseteq Nat
ASSUME SiteAssumption ==
  \A s \in Site :
    /\ s.zones \subseteq Zone /\ {s.verified, s.instant} \subseteq BOOLEAN
    /\ {s.now, s.ticks, s.edits, s.books, s.lessons, s.calls} \subseteq Nat
    /\ s.windows \subseteq Window /\ IsFiniteSet(s.windows) /\ Cardinality(s.windows) <= MaxRow
    /\ \A v \in s.windows : v.id <= Cardinality(s.windows) /\ (v.kind # "off" => v.from < v.to)
    /\ s.added \subseteq Hours

VARIABLES
  site,     \* the instance this behaviour runs in
  zone,     \* the teacher's timezone
  now,      \* timezone.now()
  instant,  \* instant_tutoring_enabled
  windows,  \* rows of RegularAvailability and WeeklyOverride
  booked,   \* pending and confirmed bookings: <<start_at, end_at>>
  held,     \* lesson -> status of a booking whose lesson is over
  asked,    \* lessons whose booking has cancellation_requested set
  review,   \* id -> the review's row
  req,      \* request -> what it has read and is about to do
  rows,     \* ids of schedule rows given so far
  used,     \* bounds: how many ticks, edits, bookings and calls so far
  undone,   \* history: completed lessons that a request saved as it had read them before,
            \* or that were cancelled by accepting a request to cancel left open
  rejected, \* history: reviews that were rejected
  late      \* history: reviews rejected while an approval that had read them was running

vars == <<site, zone, now, instant, windows, booked, held, asked, review, req, rows, used,
          undone, rejected, late>>
schedule == <<zone, now, instant, windows, booked, rows>>
lessons == <<held, asked, review, undone, rejected, late>>

Day == 0 .. MaxDay
Length == {1, 2}
Id == 1 .. MaxRow
Idle == [pc |-> "idle"]
NoReview == [lesson |-> 0, approved |-> FALSE]

\* A bound is spent.
Spend(what) ==
  /\ used[what] < site[what]
  /\ used' = [used EXCEPT ![what] = @ + 1]

\* A request reads what it will save; and it is over, saved or failed.
Read(r, bound, what) == req[r] = Idle /\ Spend(bound) /\ req' = [req EXCEPT ![r] = what]
Done(r) == req' = [req EXCEPT ![r] = Idle]

-----------------------------------------------------------------------------
(* The week view.                                                          *)

Overrides(d) == {v \in windows : v.kind \in {"slot", "off"} /\ v.day = d}
Rules(d) == {v \in windows : v.kind = "rule" /\ v.day = d % WeekLength}

\* get_availability_windows: overrides, if there are any, replace the rules of that day.
Windows(d) ==
  IF ~site.verified THEN {}
  ELSE IF Overrides(d) = {} THEN Rules(d)
  ELSE IF \E v \in Overrides(d) : v.kind = "off" THEN {}
  ELSE Overrides(d)

\* The wall time of a window's hour.
Wall(d, h) == d * DayLength + h

\* The bookings that get_available_start_times fetches: those that overlap the day's span.
Fetched(d) ==
  LET From(v) == Wall(d, v.from)
      To(v) == Wall(d, v.to)
      first == CHOOSE v \in Windows(d) : \A u \in Windows(d) : From(v) <= From(u)
      last == CHOOSE v \in Windows(d) : \A u \in Windows(d) : To(u) <= To(v)
  IN {b \in booked : /\ b[1] < Instant(zone, To(last))
                     /\ b[2] > Instant(zone, From(first))}

\* get_available_start_times: wall times of the teacher's, each once.
Starts(d, len) ==
  LET today == d = DateOf(zone, now)
  IN IF Windows(d) = {} \/ (today /\ ~instant) THEN {}
     ELSE {w \in Wall(d, 0) .. Wall(d, DayLength) :
             /\ \E v \in Windows(d) : Wall(d, v.from) <= w /\ w + len <= Wall(d, v.to)
             /\ Instant(zone, w) > (IF today THEN now + Buffer ELSE now)
             /\ \A b \in Fetched(d) :
                  ~(Instant(zone, w) < b[2] /\ Instant(zone, w + len) > b[1])}

\* Mutant: the day before the student's is not asked for.
ShownFromToday(y, d, len) ==
  {w \in UNION {Starts(e, len) : e \in d .. d + 1} : DateOf(y, Instant(zone, w)) = d}

\* get_week_data: what a student whose zone is y sees on the day d of that zone.
Shown(y, d, len) ==
  {w \in UNION {Starts(e, len) : e \in d - 1 .. d + 1} : DateOf(y, Instant(zone, w)) = d}

\* book_slot looks for the instant, in the student's notation, among the starts of its day.
Bookable(t, len) ==
  \E w \in Starts(DateOf(zone, t), len) : Instant(zone, w) = t /\ ~Doubtful(zone, w)

\* book_slot.  (Bound: instants of the days.)
Book(t, len) ==
  /\ Spend("books")
  /\ Bookable(t, len)
  /\ \A b \in booked : ~(t < b[2] /\ t + len > b[1])
  /\ booked' = booked \cup {<<t, t + len>>}
  /\ UNCHANGED <<site, zone, now, instant, windows, rows, req, lessons>>

\* A booking is cancelled or expires.
Release(b) ==
  /\ Spend("books")
  /\ booked' = booked \ {b}
  /\ UNCHANGED <<site, zone, now, instant, windows, rows, req, lessons>>

Tick ==
  /\ Spend("ticks")
  /\ now' = now + 1
  /\ UNCHANGED <<site, zone, instant, windows, booked, rows, req, lessons>>

-----------------------------------------------------------------------------
(* The schedule and its settings.                                          *)

\* Rows of the same table and the same day or weekday.
Beside(v) == {u \in windows : u.day = v.day /\ (u.kind = "rule") = (v.kind = "rule")}

\* Mutant: the order of start and end is not looked at.
CleanAnyOrder(v) ==
  /\ site.verified
  /\ v.kind = "off" => Beside(v) = {}
  /\ v.kind # "off" => \A u \in Beside(v) : u.kind # "off" /\ ~(u.from < v.to /\ u.to > v.from)

\* RegularAvailability.clean and WeeklyOverride.clean
Clean(v) ==
  /\ site.verified
  /\ v.kind = "off" => Beside(v) = {}
  /\ v.kind # "off" =>
       /\ v.from < v.to
       /\ \A u \in Beside(v) : u.kind # "off" /\ ~(u.from < v.to /\ u.to > v.from)

\* teacher_regular_schedule_add, teacher_weekly_override_add; a day off in the admin site.
Add(r, v) ==
  /\ Clean(v)
  /\ Read(r, "edits", [pc |-> "add", row |-> v])
  /\ UNCHANGED <<site, schedule, lessons>>

SaveAdded(r) ==
  /\ req[r].pc = "add" /\ rows < MaxRow
  /\ rows' = rows + 1
  /\ windows' = windows \cup
       {[id |-> rows', kind |-> req[r].row.kind, day |-> req[r].row.day,
         from |-> req[r].row.from, to |-> req[r].row.to]}
  /\ Done(r)
  /\ UNCHANGED <<site, zone, now, instant, booked, used, lessons>>

\* teacher_regular_schedule_delete, teacher_weekly_override_delete
Delete(v) ==
  /\ Spend("edits")
  /\ windows' = windows \ {v}
  /\ UNCHANGED <<site, zone, now, instant, booked, rows, req, lessons>>

\* teacher_settings_booking sets what it read or the opposite; the forms of the other
\* settings save the whole profile too, as they read it.
Edit(r) ==
  /\ \E value \in {instant, ~instant} :
       Read(r, "edits", [pc |-> "profile", instant |-> value])
  /\ UNCHANGED <<site, schedule, lessons>>

SaveProfile(r) ==
  /\ req[r].pc = "profile"
  /\ instant' = req[r].instant
  /\ Done(r)
  /\ UNCHANGED <<site, zone, now, windows, booked, rows, used, lessons>>

\* teacher_settings_account: the schedule keeps its wall times, bookings their instants.
SetZone(z) ==
  /\ z # zone /\ Spend("edits")
  /\ zone' = z
  /\ UNCHANGED <<site, now, instant, windows, booked, rows, req, lessons>>

-----------------------------------------------------------------------------
(* Lessons that are over, and their reviews.                               *)

Present(i) == review[i] # NoReview
Reviewed(l) == \E i \in Id : Present(i) /\ review[i].lesson = l

\* A request reads the booking of lesson l and is about to save it whole: the status and the
\* flag as it makes them, or as it read them.
Overwrite(r, l, what, status, flag) ==
  /\ Read(r, "calls", [pc |-> what, lesson |-> l, read |-> held[l], status |-> status,
                       asked |-> flag])
  /\ UNCHANGED <<site, schedule, lessons>>

\* Mutant: the status is not part of the lookup.
NotCancelled(l) == held[l] # "cancelled"

\* The lookup of the bookings that a view accepts: confirmed ones.
Unresolved(l) == held[l] = "confirmed"

\* complete_lesson, mark_lesson_not_held; cancel_lesson, when its check of the clock came
\* before the lesson's end.  A request to cancel is left as it is.
Resolve(r, l, status) ==
  /\ Unresolved(l) /\ status \in {"completed", "cancelled"}
  /\ Overwrite(r, l, "resolve", status, l \in asked)

\* request_cancellation looks at no clock.
Ask(r, l) == Unresolved(l) /\ l \notin asked /\ Overwrite(r, l, "ask", held[l], TRUE)

\* respond_to_booking asks for no status when the flag is set.
Answer(r, l, accept) ==
  /\ l \in asked
  /\ Overwrite(r, l, "answer", IF accept THEN "cancelled" ELSE held[l], FALSE)

\* The teacher accepts the request to cancel.
Withdraws(r) == req[r].pc = "answer" /\ req[r].status = "cancelled"

SaveResolved(r) ==
  LET l == req[r].lesson
  IN /\ req[r].pc \in {"resolve", "ask", "answer"}
     /\ held' = [held EXCEPT ![l] = req[r].status]
     /\ asked' = IF req[r].asked THEN asked \cup {l} ELSE asked \ {l}
     /\ undone' = IF held[l] = "completed" /\ (req[r].read # held[l] \/ Withdraws(r))
                    THEN undone \cup {l} ELSE undone
     /\ Done(r)
     /\ UNCHANGED <<site, schedule, review, rejected, late, used>>

\* submit_review looks at the booking; full_clean looks for another review, and believes
\* the booking that was read.
Submit(r, l) ==
  /\ held[l] = "completed" /\ ~Reviewed(l)
  /\ Read(r, "calls", [pc |-> "insert", lesson |-> l])
  /\ UNCHANGED <<site, schedule, lessons>>

\* OneToOneField: no other review of the lesson.
Unique(l, i) == \A j \in Id \ {i} : Present(j) => review[j].lesson # l

\* The insert, under the next id, or an error.
Insert(r) ==
  LET l == req[r].lesson
      i == Cardinality({j \in Id : Present(j)} \cup rejected) + 1
  IN /\ req[r].pc = "insert" /\ i \in Id
     /\ review' = IF Unique(l, i) THEN [review EXCEPT ![i] = [lesson |-> l, approved |-> FALSE]]
                  ELSE review
     /\ Done(r)
     /\ UNCHANGED <<site, schedule, held, asked, undone, rejected, late, used>>

\* approve_review reads the review.
Approve(r, i) ==
  /\ Present(i)
  /\ Read(r, "calls", [pc |-> "clean", id |-> i, lesson |-> review[i].lesson])
  /\ UNCHANGED <<site, schedule, lessons>>

\* Review.clean fetches the booking; what is not completed any more is an error.
CleanReview(r) ==
  /\ req[r].pc = "clean"
  /\ req' = [req EXCEPT ![r] =
       IF held[req[r].lesson] = "completed" /\ Unique(req[r].lesson, req[r].id)
         THEN [req[r] EXCEPT !.pc = "approve"] ELSE Idle]
  /\ UNCHANGED <<site, schedule, lessons, used>>

\* Model.save: the row is updated or, when it is gone, inserted again under its id.
SaveApproved(r) ==
  LET i == req[r].id
  IN /\ req[r].pc = "approve"
     /\ review' = IF Unique(req[r].lesson, i)
                    THEN [review EXCEPT ![i] = [lesson |-> req[r].lesson, approved |-> TRUE]]
                    ELSE review
     /\ Done(r)
     /\ UNCHANGED <<site, schedule, held, asked, undone, rejected, late, used>>

\* reject_review
Reject(i) ==
  /\ Present(i) /\ Spend("calls")
  /\ review' = [review EXCEPT ![i] = NoReview]
  /\ rejected' = rejected \cup {i}
  /\ late' = IF \E r \in Request : req[r].pc \in {"clean", "approve"} /\ req[r].id = i
               THEN late \cup {i} ELSE late
  /\ UNCHANGED <<site, schedule, req, held, asked, undone>>

-----------------------------------------------------------------------------
Init ==
  /\ site \in Site
  /\ zone \in site.zones
  /\ now = site.now
  /\ instant = site.instant
  /\ windows = site.windows
  /\ booked = {}
  /\ held = [l \in 1 .. site.lessons |-> "confirmed"]
  /\ asked = {}
  /\ review = [i \in Id |-> NoReview]
  /\ req = [r \in Request |-> Idle]
  /\ rows = Cardinality(site.windows)
  /\ used = [what \in {"ticks", "edits", "books", "calls"} |-> 0]
  /\ undone = {}
  /\ rejected = {}
  /\ late = {}

Next ==
  \/ \E t \in 0 .. (MaxDay + 1) * DayLength, len \in Length : Book(t, len)
  \/ \E b \in booked : Release(b)
  \/ Tick
  \/ \E v \in windows : Delete(v)
  \/ \E z \in site.zones : SetZone(z)
  \/ \E i \in Id : Reject(i)
  \/ \E r \in Request :
       \/ \E v \in site.added : Add(r, v)
       \/ \E l \in DOMAIN held :
            \/ \E status \in {"completed", "cancelled"} : Resolve(r, l, status)
            \/ Ask(r, l)
            \/ \E accept \in BOOLEAN : Answer(r, l, accept)
            \/ Submit(r, l)
       \/ \E i \in Id : Approve(r, i)
       \/ Edit(r) \/ SaveProfile(r)
       \/ SaveAdded(r) \/ SaveResolved(r) \/ Insert(r) \/ CleanReview(r) \/ SaveApproved(r)

Spec == Init /\ [][Next]_vars
=============================================================================
