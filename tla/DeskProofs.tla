----------------------------- MODULE DeskProofs -----------------------------
(***************************************************************************)
(* The properties of Desk, proved for any schedule, any zones, any number  *)
(* of requests, lessons and reviews, and days of any length.  All follow   *)
(* from IInv of DeskProperties, which each action preserves.               *)
(***************************************************************************)
EXTENDS DeskProperties, FiniteSetTheorems, WellFoundedInduction, TLAPS

\* The typing assumptions on the constants, as facts the proofs cite.
LEMMA Constants ==
  /\ DayLength \in Nat /\ DayLength > 0 /\ Buffer \in Nat /\ MaxRow \in Nat /\ MaxDay \in Nat
  /\ \A s \in Site :
       /\ s.zones \subseteq Zone /\ s.verified \in BOOLEAN /\ s.instant \in BOOLEAN
       /\ s.now \in Nat /\ s.ticks \in Nat /\ s.edits \in Nat /\ s.books \in Nat
       /\ s.lessons \in Nat /\ s.calls \in Nat
       /\ s.windows \subseteq Window /\ Cardinality(s.windows) <= MaxRow
       /\ Cardinality(s.windows) \in Nat
       /\ \A v \in s.windows :
            v.id <= Cardinality(s.windows) /\ (v.kind # "off" => v.from < v.to)
       /\ s.added \subseteq Hours
BY DayAssumption, SizeAssumption, SiteAssumption, FS_CardinalityType

-----------------------------------------------------------------------------
(* The parts of the invariant, by the variables that they are about.       *)

ClockOK ==
  /\ used \in [{"ticks", "edits", "books", "calls"} -> Nat]
  /\ now \in site.now .. site.now + site.ticks
  /\ now <= site.now + used["ticks"] /\ used["ticks"] <= site.ticks

ScheduleOK ==
  /\ zone \in site.zones /\ instant \in BOOLEAN
  /\ windows \subseteq Window /\ rows \in 0 .. MaxRow
  /\ \A v \in windows : v.id <= rows /\ (v.kind # "off" => v.from < v.to)
  /\ booked \subseteq Nat \X Nat
  /\ \A b, c \in booked : b = c \/ b[2] <= c[1] \/ c[2] <= b[1]

LessonsOK ==
  /\ held \in [1 .. site.lessons -> Status] /\ asked \subseteq 1 .. site.lessons
  /\ review \in [Id -> [lesson : 0 .. site.lessons, approved : BOOLEAN]]
  /\ undone \subseteq 1 .. site.lessons /\ late \subseteq rejected /\ rejected \subseteq Id
  /\ \A i \in Id : Present(i) => review[i].lesson \in 1 .. site.lessons
  /\ Known = 1 .. Cardinality(Known)
  /\ ReviewsStandUp

RequestsOK == req \in [Request -> Doing] /\ \A r \in Request : ReqOK(r)

LEMMA Parts == IInv <=> site \in Site /\ ClockOK /\ ScheduleOK /\ LessonsOK /\ RequestsOK
<1>1. IInv => ClockOK
  BY DEF IInv, TypeOK, ClockOK
<1>2. IInv => ScheduleOK
  BY DEF IInv, TypeOK, ScheduleOK
<1>3. IInv => LessonsOK
  BY DEF IInv, TypeOK, LessonsOK
<1>4. IInv => site \in Site /\ RequestsOK
  BY DEF IInv, TypeOK, RequestsOK
<1>5. site \in Site /\ ClockOK /\ ScheduleOK /\ LessonsOK /\ RequestsOK => TypeOK
  BY DEF TypeOK, ClockOK, ScheduleOK, LessonsOK, RequestsOK
<1>6. site \in Site /\ ClockOK /\ ScheduleOK /\ LessonsOK /\ RequestsOK => IInv
  BY <1>5 DEF IInv, ClockOK, ScheduleOK, LessonsOK, RequestsOK
<1> QED BY <1>1, <1>2, <1>3, <1>4, <1>6

LEMMA PartsNext ==
  IInv' <=> (site \in Site)' /\ ClockOK' /\ ScheduleOK' /\ LessonsOK' /\ RequestsOK'
BY Parts, PTL

\* The clock is let alone by all but a tick.
LEMMA ClockKept ==
  ASSUME IInv, UNCHANGED <<site, now>>,
         UNCHANGED used \/ \E what \in {"edits", "books", "calls"} : Spend(what)
  PROVE  ClockOK'
<1>1. ClockOK
  BY Parts
<1>2. ASSUME NEW what \in {"edits", "books", "calls"}, Spend(what) PROVE ClockOK'
  <2>1. used' = [used EXCEPT ![what] = @ + 1] /\ what # "ticks"
    BY <1>2 DEF Spend
  <2> QED BY <1>1, <2>1 DEF ClockOK
<1> QED BY <1>1, <1>2 DEF ClockOK

LEMMA ScheduleKept ==
  ASSUME IInv, UNCHANGED <<site, zone, instant, windows, booked, rows>>
  PROVE  ScheduleOK'
BY Parts DEF ScheduleOK

LEMMA LessonsKept ==
  ASSUME IInv, UNCHANGED <<site, lessons>>
  PROVE  LessonsOK' /\ \A l : WasHeld(l)' <=> WasHeld(l)
BY Parts DEF LessonsOK, lessons, Known, Present, ReviewsStandUp, WasHeld

\* A request reads something that is so now, or is over, and the others go on.
LEMMA RequestsKept ==
  ASSUME IInv, UNCHANGED site,
         \A l \in 1 .. site.lessons : WasHeld(l) => WasHeld(l)',
         \A i \in Id : Present(i) \/ i \in late => Present(i)' \/ i \in late',
         \/ UNCHANGED req
         \/ \E r \in Request, x \in Doing : req' = [req EXCEPT ![r] = x] /\ ReqOK(r)'
  PROVE  RequestsOK'
<1>1. req \in [Request -> Doing] /\ \A r \in Request : ReqOK(r)
  BY Parts DEF RequestsOK
<1>2. ASSUME NEW r \in Request, req'[r] = req[r] PROVE ReqOK(r)'
  <2>1. req[r] \in Doing
    BY <1>1
  <2>2. req[r].pc \in {"insert", "approve"} => req[r].lesson \in 1 .. site.lessons
    BY <2>1 DEF Doing, Idle
  <2>3. req[r].pc \in {"clean", "approve"} => req[r].id \in Id
    BY <2>1 DEF Doing, Idle
  <2>4. ReqOK(r)
    BY <1>1
  <2>5. req[r].pc \in {"insert", "approve"} => WasHeld(req[r].lesson)'
    <3>1. ASSUME NEW l, l = req[r].lesson, req[r].pc \in {"insert", "approve"} PROVE WasHeld(l)'
      BY <2>2, <2>4, <3>1 DEF ReqOK
    <3> QED BY <1>2, <3>1
  <2>6. req[r].pc \in {"clean", "approve"} => Present(req[r].id)' \/ req[r].id \in late'
    <3>1. ASSUME NEW i, i = req[r].id, req[r].pc \in {"clean", "approve"}
          PROVE  Present(i)' \/ i \in late'
      BY <2>3, <2>4, <3>1 DEF ReqOK
    <3> QED BY <1>2, <3>1
  <2> QED BY <1>2, <2>4, <2>5, <2>6 DEF ReqOK, Withdraws
<1>3. Doing' = Doing
  BY DEF Doing
<1>4. CASE UNCHANGED req
  BY <1>1, <1>2, <1>3, <1>4 DEF RequestsOK
<1>5. ASSUME NEW r \in Request, NEW x \in Doing, req' = [req EXCEPT ![r] = x], ReqOK(r)'
      PROVE  RequestsOK'
  <2>1. req' \in [Request -> Doing] /\ \A q \in Request \ {r} : req'[q] = req[q]
    BY <1>1, <1>5
  <2> QED BY <1>2, <1>3, <1>5, <2>1 DEF RequestsOK
<1> QED BY <1>4, <1>5

-----------------------------------------------------------------------------
LEMMA InitIInv == Init => IInv
<1> SUFFICES ASSUME Init PROVE IInv
  OBVIOUS
<1>1. /\ site \in Site /\ site.lessons \in Nat /\ site.now \in Nat /\ site.ticks \in Nat
      /\ site.instant \in BOOLEAN /\ site.windows \subseteq Window
      /\ Cardinality(site.windows) \in 0 .. MaxRow
      /\ \A v \in site.windows :
           v.id <= Cardinality(site.windows) /\ (v.kind # "off" => v.from < v.to)
  BY Constants DEF Init
<1>2. ClockOK
  BY <1>1 DEF Init, ClockOK
<1>3. ScheduleOK
  BY <1>1 DEF Init, ScheduleOK
<1>4. \A i \in Id : ~Present(i)
  BY DEF Init, Present
<1>5. LessonsOK
  <2>1. Known = {}
    BY <1>4 DEF Known, Init
  <2>2. Known = 1 .. Cardinality(Known)
    BY <2>1, FS_EmptySet
  <2> QED BY <1>1, <1>4, <2>2 DEF Init, LessonsOK, NoReview, ReviewsStandUp, Status
<1>6. RequestsOK
  BY DEF Init, RequestsOK, Doing, Idle, ReqOK
<1> QED BY <1>1, <1>2, <1>3, <1>5, <1>6, Parts

\* A step of the schedule leaves lessons and reviews alone, and what requests are about.
LEMMA ScheduleStep ==
  ASSUME IInv, ClockOK', ScheduleOK', UNCHANGED <<site, lessons>>,
         \/ UNCHANGED req
         \/ \E r \in Request, x \in Doing : req' = [req EXCEPT ![r] = x] /\ ReqOK(r)'
  PROVE  IInv'
<1>1. LessonsOK' /\ \A l : WasHeld(l)' <=> WasHeld(l)
  BY LessonsKept
<1>2. \A i \in Id : Present(i) \/ i \in late => Present(i)' \/ i \in late'
  BY DEF lessons, Present
<1>3. RequestsOK'
  BY <1>1, <1>2, RequestsKept
<1>4. (site \in Site)'
  BY Parts
<1> QED BY <1>1, <1>3, <1>4, PartsNext

LEMMA Nothing == ASSUME IInv, NEW r \in Request, Done(r) PROVE
  \E x \in Doing : req' = [req EXCEPT ![r] = x] /\ ReqOK(r)'
<1>1. req \in [Request -> Doing] /\ Idle \in Doing /\ req' = [req EXCEPT ![r] = Idle]
  BY Parts DEF RequestsOK, Done, Doing
<1>2. req'[r] = Idle
  BY <1>1
<1>3. ReqOK(r)'
  BY <1>2 DEF ReqOK, Idle
<1> QED BY <1>1, <1>3

LEMMA BookStep == ASSUME IInv, NEW t \in 0 .. (MaxDay + 1) * DayLength, NEW len \in Length, Book(t, len)
                  PROVE  IInv'
<1>1. /\ Spend("books") /\ \A b \in booked : ~(t < b[2] /\ t + len > b[1])
      /\ booked' = booked \cup {<<t, t + len>>}
      /\ UNCHANGED <<site, zone, now, instant, windows, rows, req, lessons>>
  BY DEF Book
<1>2. t \in Nat /\ t + len \in Nat /\ len \in Nat
  <2>1. (MaxDay + 1) * DayLength \in Nat
    BY Constants
  <2> QED BY <2>1 DEF Length
<1>3. ScheduleOK'
  <2>1. ScheduleOK
    BY Parts
  <2>2. booked' \subseteq Nat \X Nat
    BY <1>1, <1>2, <2>1 DEF ScheduleOK
  <2>3. \A b \in booked : b[1] \in Nat /\ b[2] \in Nat
    BY <2>1 DEF ScheduleOK
  <2>4. \A b, c \in booked' : b = c \/ b[2] <= c[1] \/ c[2] <= b[1]
    <3>1. \A b \in booked : t + len <= b[1] \/ b[2] <= t
      BY <1>1, <1>2, <2>3
    <3> QED BY <1>1, <2>1, <3>1 DEF ScheduleOK
  <2> QED BY <1>1, <2>1, <2>2, <2>4 DEF ScheduleOK
<1>4. ClockOK'
  BY <1>1, ClockKept
<1> QED BY <1>1, <1>3, <1>4, ScheduleStep

LEMMA ReleaseStep == ASSUME IInv, NEW b \in booked, Release(b) PROVE IInv'
<1>1. Spend("books") /\ booked' = booked \ {b}
      /\ UNCHANGED <<site, zone, now, instant, windows, rows, req, lessons>>
  BY DEF Release
<1>2. ScheduleOK'
  BY <1>1, Parts DEF ScheduleOK
<1>3. ClockOK'
  BY <1>1, ClockKept
<1> QED BY <1>1, <1>2, <1>3, ScheduleStep

LEMMA TickStep == ASSUME IInv, Tick PROVE IInv'
<1>1. /\ used["ticks"] < site["ticks"] /\ used' = [used EXCEPT !["ticks"] = @ + 1]
      /\ now' = now + 1
      /\ UNCHANGED <<site, zone, instant, windows, booked, rows, req, lessons>>
  BY DEF Tick, Spend
<1>2. site.ticks \in Nat /\ site.now \in Nat /\ ClockOK
  BY Constants, Parts
<1>3. used' \in [{"ticks", "edits", "books", "calls"} -> Nat]
      /\ used'["ticks"] = used["ticks"] + 1 /\ used["ticks"] < site.ticks
  BY <1>1, <1>2 DEF ClockOK
<1>4. ClockOK'
  BY <1>1, <1>2, <1>3 DEF ClockOK
<1>5. ScheduleOK'
  BY <1>1, ScheduleKept
<1> QED BY <1>1, <1>4, <1>5, ScheduleStep

LEMMA DeleteStep == ASSUME IInv, NEW v \in windows, Delete(v) PROVE IInv'
<1>1. Spend("edits") /\ windows' = windows \ {v}
      /\ UNCHANGED <<site, zone, now, instant, booked, rows, req, lessons>>
  BY DEF Delete
<1>2. ScheduleOK'
  BY <1>1, Parts DEF ScheduleOK
<1>3. ClockOK'
  BY <1>1, ClockKept
<1> QED BY <1>1, <1>2, <1>3, ScheduleStep

LEMMA ZoneStep == ASSUME IInv, NEW z \in site.zones, SetZone(z) PROVE IInv'
<1>1. Spend("edits") /\ zone' = z
      /\ UNCHANGED <<site, now, instant, windows, booked, rows, req, lessons>>
  BY DEF SetZone
<1>2. ScheduleOK'
  BY <1>1, Parts DEF ScheduleOK
<1>3. ClockOK'
  BY <1>1, ClockKept
<1> QED BY <1>1, <1>2, <1>3, ScheduleStep

\* A window that was looked over ends after it begins.
LEMMA AddStep == ASSUME IInv, NEW r \in Request, NEW v \in site.added, Add(r, v) PROVE IInv'
<1>1. /\ Clean(v) /\ Spend("edits") /\ req' = [req EXCEPT ![r] = [pc |-> "add", row |-> v]]
      /\ UNCHANGED <<site, zone, now, instant, windows, booked, rows, lessons>>
  BY DEF Add, Read, schedule
<1>2. v \in Hours /\ (v.kind # "off" => v.from < v.to)
  BY <1>1, Constants, Parts DEF Clean
<1>3. [pc |-> "add", row |-> v] \in Doing
  BY <1>2 DEF Doing
<1>4. ReqOK(r)'
  <2>1. req'[r] = [pc |-> "add", row |-> v]
    BY <1>1, Parts DEF RequestsOK
  <2> QED BY <1>2, <2>1 DEF ReqOK
<1>5. ClockOK' /\ ScheduleOK'
  BY <1>1, ClockKept, ScheduleKept
<1> QED BY <1>1, <1>3, <1>4, <1>5, ScheduleStep

LEMMA SaveAddedStep == ASSUME IInv, NEW r \in Request, SaveAdded(r) PROVE IInv'
<1> DEFINE v == req[r].row
           new == [id |-> rows', kind |-> v.kind, day |-> v.day, from |-> v.from, to |-> v.to]
<1>1. /\ req[r].pc = "add" /\ rows < MaxRow /\ rows' = rows + 1 /\ windows' = windows \cup {new}
      /\ Done(r) /\ UNCHANGED <<site, zone, now, instant, booked, used, lessons>>
  BY DEF SaveAdded
<1>2. ScheduleOK /\ req[r] \in Doing /\ ReqOK(r)
  BY Parts DEF RequestsOK
<1>3. v \in Hours /\ (v.kind # "off" => v.from < v.to)
  BY <1>1, <1>2 DEF Doing, Idle, ReqOK
<1>4. rows \in Nat /\ rows' \in 0 .. MaxRow /\ rows' \in Nat /\ rows <= rows'
  BY <1>1, <1>2, Constants DEF ScheduleOK
<1>5. new \in Window /\ new.id <= rows' /\ (new.kind # "off" => new.from < new.to)
  BY <1>3, <1>4 DEF Hours, Window
<1>6. ScheduleOK'
  <2>1. \A u \in windows : u.id \in Nat /\ u.id <= rows'
    BY <1>2, <1>4 DEF ScheduleOK, Window
  <2> HIDE DEF new
  <2> QED BY <1>1, <1>2, <1>4, <1>5, <2>1 DEF ScheduleOK
<1>7. ClockOK'
  BY <1>1, ClockKept
<1>8. \E q \in Request, x \in Doing : req' = [req EXCEPT ![q] = x] /\ ReqOK(q)'
  BY <1>1, Nothing
<1> QED BY <1>1, <1>6, <1>7, <1>8, ScheduleStep

LEMMA EditStep == ASSUME IInv, NEW r \in Request, Edit(r) PROVE IInv'
<1>1. PICK value \in {instant, ~instant} :
        Spend("edits") /\ req' = [req EXCEPT ![r] = [pc |-> "profile", instant |-> value]]
  BY DEF Edit, Read
<1>2. UNCHANGED <<site, zone, now, instant, windows, booked, rows, lessons>>
  BY DEF Edit, schedule
<1>3. value \in BOOLEAN
  BY Parts DEF ScheduleOK
<1>4. [pc |-> "profile", instant |-> value] \in Doing
  BY <1>3 DEF Doing
<1>5. ReqOK(r)'
  <2>1. req'[r] = [pc |-> "profile", instant |-> value]
    BY <1>1, Parts DEF RequestsOK
  <2> QED BY <2>1 DEF ReqOK
<1>6. ClockOK' /\ ScheduleOK'
  BY <1>1, <1>2, ClockKept, ScheduleKept
<1> QED BY <1>1, <1>2, <1>4, <1>5, <1>6, ScheduleStep

LEMMA SaveProfileStep == ASSUME IInv, NEW r \in Request, SaveProfile(r) PROVE IInv'
<1>1. /\ req[r].pc = "profile" /\ instant' = req[r].instant /\ Done(r)
      /\ UNCHANGED <<site, zone, now, windows, booked, rows, used, lessons>>
  BY DEF SaveProfile
<1>2. req[r].instant \in BOOLEAN
  <2>1. req[r] \in Doing
    BY Parts DEF RequestsOK
  <2> QED BY <1>1, <2>1 DEF Doing, Idle
<1>3. ScheduleOK'
  BY <1>1, <1>2, Parts DEF ScheduleOK
<1>4. ClockOK'
  BY <1>1, ClockKept
<1>5. \E q \in Request, x \in Doing : req' = [req EXCEPT ![q] = x] /\ ReqOK(q)'
  BY <1>1, Nothing
<1> QED BY <1>1, <1>3, <1>4, <1>5, ScheduleStep

-----------------------------------------------------------------------------
(* Lessons and reviews.                                                    *)

\* A step that changes lessons or reviews leaves the schedule alone.
LEMMA LessonStep ==
  ASSUME IInv, UNCHANGED <<site, schedule>>, LessonsOK',
         UNCHANGED used \/ Spend("calls"),
         \A l \in 1 .. site.lessons : WasHeld(l) => WasHeld(l)',
         \A i \in Id : Present(i) \/ i \in late => Present(i)' \/ i \in late',
         \/ UNCHANGED req
         \/ \E r \in Request, x \in Doing : req' = [req EXCEPT ![r] = x] /\ ReqOK(r)'
  PROVE  IInv'
<1>1. UNCHANGED <<zone, now, instant, windows, booked, rows>>
  BY DEF schedule
<1>2. ClockOK' /\ ScheduleOK'
  BY <1>1, ClockKept, ScheduleKept
<1>3. RequestsOK'
  BY RequestsKept
<1>4. (site \in Site)'
  BY Parts
<1> QED BY <1>2, <1>3, <1>4, PartsNext

\* A step in which a request only reads, or fails.
LEMMA ReadStep ==
  ASSUME IInv, UNCHANGED <<site, schedule, lessons>>, UNCHANGED used \/ Spend("calls"),
         NEW r \in Request, NEW x \in Doing, req' = [req EXCEPT ![r] = x], ReqOK(r)'
  PROVE  IInv'
<1>1. LessonsOK' /\ \A l : WasHeld(l)' <=> WasHeld(l)
  BY LessonsKept
<1>2. \A i \in Id : Present(i) \/ i \in late => Present(i)' \/ i \in late'
  BY DEF lessons, Present
<1> QED BY <1>1, <1>2, LessonStep

\* A lesson that is read as completed is saved so, or cancelled by an answer.
LEMMA OverwriteStep ==
  ASSUME IInv, NEW r \in Request, NEW l \in DOMAIN held,
         NEW what \in {"resolve", "ask", "answer"}, NEW st \in Status, NEW flag \in BOOLEAN,
         Overwrite(r, l, what, st, flag),
         held[l] = "completed" => st = "completed" \/ (what = "answer" /\ st = "cancelled")
  PROVE  IInv'
<1> DEFINE x == [pc |-> what, lesson |-> l, read |-> held[l], status |-> st, asked |-> flag]
<1>1. req' = [req EXCEPT ![r] = x] /\ Spend("calls") /\ UNCHANGED <<site, schedule, lessons>>
  BY DEF Overwrite, Read
<1>2. l \in 1 .. site.lessons /\ held[l] \in Status
  BY Parts DEF LessonsOK
<1>3. x \in Doing
  BY <1>2 DEF Doing
<1>4. ReqOK(r)'
  <2>1. req'[r] = x
    BY <1>1, Parts DEF RequestsOK
  <2>2. req'[r].pc = what /\ req'[r].read = held[l] /\ req'[r].status = st
    BY <2>1
  <2>3. held[l] = "completed" => st = "completed" \/ Withdraws(r)'
    BY <2>2 DEF Withdraws
  <2> QED BY <2>2, <2>3 DEF ReqOK
<1> HIDE DEF x
<1> QED BY <1>1, <1>3, <1>4, ReadStep

LEMMA ResolveStep ==
  ASSUME IInv, NEW r \in Request, NEW l \in DOMAIN held, NEW st \in {"completed", "cancelled"},
         Resolve(r, l, st)
  PROVE  IInv'
<1>1. held[l] = "confirmed" /\ Overwrite(r, l, "resolve", st, l \in asked)
  BY DEF Resolve, Unresolved
<1>2. st \in Status /\ (l \in asked) \in BOOLEAN
  BY DEF Status
<1> QED BY <1>1, <1>2, OverwriteStep

LEMMA AskStep ==
  ASSUME IInv, NEW r \in Request, NEW l \in DOMAIN held, Ask(r, l)
  PROVE  IInv'
<1>1. held[l] = "confirmed" /\ Overwrite(r, l, "ask", held[l], TRUE)
  BY DEF Ask, Unresolved
<1>2. held[l] \in Status
  BY <1>1 DEF Status
<1> QED BY <1>1, <1>2, OverwriteStep

LEMMA AnswerStep ==
  ASSUME IInv, NEW r \in Request, NEW l \in DOMAIN held, NEW accept \in BOOLEAN,
         Answer(r, l, accept)
  PROVE  IInv'
<1>1. held[l] \in Status
  BY Parts DEF LessonsOK
<1>2. PICK st : st = IF accept THEN "cancelled" ELSE held[l]
  OBVIOUS
<1>3. Overwrite(r, l, "answer", st, FALSE)
  BY <1>2 DEF Answer
<1>4. st \in Status /\ (st = held[l] \/ st = "cancelled")
  BY <1>1, <1>2 DEF Status
<1> QED BY <1>3, <1>4, OverwriteStep

\* A completed lesson that is saved otherwise was read before, or is cancelled by an answer.
LEMMA SaveResolvedStep == ASSUME IInv, NEW r \in Request, SaveResolved(r) PROVE IInv'
<1> DEFINE l == req[r].lesson
<1>1. /\ req[r].pc \in {"resolve", "ask", "answer"}
      /\ held' = [held EXCEPT ![l] = req[r].status]
      /\ asked' = IF req[r].asked THEN asked \cup {l} ELSE asked \ {l}
      /\ undone' = IF held[l] = "completed" /\ (req[r].read # held[l] \/ Withdraws(r))
                     THEN undone \cup {l} ELSE undone
      /\ Done(r) /\ UNCHANGED <<site, schedule, review, rejected, late, used>>
  BY DEF SaveResolved
<1>2. l \in 1 .. site.lessons /\ req[r].status \in Status
  <2>1. req[r] \in Doing
    BY Parts DEF RequestsOK
  <2> QED BY <1>1, <2>1 DEF Doing, Idle
<1>3. LessonsOK
  BY Parts
<1>4. ASSUME NEW k \in 1 .. site.lessons, WasHeld(k) PROVE WasHeld(k)'
  <2>1. held'[l] = req[r].status /\ \A m \in 1 .. site.lessons : m # l => held'[m] = held[m]
    BY <1>1, <1>2, <1>3 DEF LessonsOK
  <2>2. undone \subseteq undone'
    BY <1>1
  <2>3. CASE k = l /\ held[l] = "completed" /\ req[r].read = held[l]
    <3>1. req[r].status = "completed" \/ Withdraws(r)
      BY <1>1, <2>3, Parts DEF RequestsOK, ReqOK
    <3>2. held'[l] = "completed" \/ l \in undone'
      BY <1>1, <2>1, <2>3, <3>1
    <3> QED BY <2>3, <3>2 DEF WasHeld
  <2>4. CASE k = l /\ held[l] = "completed" /\ req[r].read # held[l]
    <3>1. l \in undone'
      BY <1>1, <2>4
    <3> QED BY <2>4, <3>1 DEF WasHeld
  <2>5. CASE k # l \/ held[l] # "completed"
    BY <1>4, <2>1, <2>2, <2>5 DEF WasHeld
  <2> QED BY <2>3, <2>4, <2>5
<1>5. \A i \in Id : (Present(i)' <=> Present(i)) /\ review'[i] = review[i]
  BY <1>1 DEF Present
<1>6. Known' = Known
  BY <1>1, <1>5 DEF Known
<1>7. ReviewsStandUp'
  <2>1. ASSUME NEW i \in Id, Present(i) PROVE WasHeld(review[i].lesson)'
    <3>1. PICK k \in 1 .. site.lessons : k = review[i].lesson
      BY <1>3, <2>1 DEF LessonsOK
    <3>2. WasHeld(k)
      BY <1>3, <2>1, <3>1 DEF LessonsOK, ReviewsStandUp, WasHeld
    <3>3. WasHeld(k)'
      BY <1>4, <3>2
    <3> QED BY <1>1, <3>1, <3>3
  <2>2. \A i \in Id : Present(i) => /\ \A j \in Id \ {i} : Present(j) => review[j].lesson # review[i].lesson
                                    /\ i \in rejected => i \in late /\ review[i].approved
    BY <1>3 DEF LessonsOK, ReviewsStandUp
  <2> QED BY <1>1, <1>5, <2>1, <2>2 DEF ReviewsStandUp, WasHeld
<1>8. LessonsOK'
  <2>1. Known' = 1 .. Cardinality(Known')
    BY <1>3, <1>6 DEF LessonsOK
  <2> QED BY <1>1, <1>2, <1>3, <1>5, <1>7, <2>1 DEF LessonsOK
<1>9. \E q \in Request, x \in Doing : req' = [req EXCEPT ![q] = x] /\ ReqOK(q)'
  BY <1>1, Nothing
<1>10. \A i \in Id : Present(i) \/ i \in late => Present(i)' \/ i \in late'
  BY <1>1, <1>5
<1> QED BY <1>1, <1>4, <1>8, <1>9, <1>10, LessonStep

LEMMA SubmitStep ==
  ASSUME IInv, NEW r \in Request, NEW l \in DOMAIN held, Submit(r, l)
  PROVE  IInv'
<1> DEFINE x == [pc |-> "insert", lesson |-> l]
<1>1. /\ held[l] = "completed" /\ req' = [req EXCEPT ![r] = x] /\ Spend("calls")
      /\ UNCHANGED <<site, schedule, lessons>>
  BY DEF Submit, Read
<1>2. x \in Doing
  BY Parts DEF LessonsOK, Doing
<1>3. ReqOK(r)'
  <2>1. req'[r] = x
    BY <1>1, Parts DEF RequestsOK
  <2>2. WasHeld(l)'
    BY <1>1 DEF WasHeld, lessons
  <2>3. WasHeld(req[r].lesson)'
    BY <2>1, <2>2
  <2> QED BY <2>1, <2>3 DEF ReqOK
<1> HIDE DEF x
<1> QED BY <1>1, <1>2, <1>3, ReadStep

\* A lesson's review is inserted under an id that was never given before.
LEMMA InsertStep == ASSUME IInv, NEW r \in Request, Insert(r) PROVE IInv'
<1>1. PICK l, i : /\ l = req[r].lesson /\ i = Cardinality(Known) + 1
  OBVIOUS
<1>2. /\ req[r].pc = "insert" /\ i \in Id
      /\ review' = IF Unique(l, i) THEN [review EXCEPT ![i] = [lesson |-> l, approved |-> FALSE]]
                   ELSE review
      /\ Done(r) /\ UNCHANGED <<site, schedule, held, asked, undone, rejected, late, used>>
  BY <1>1 DEF Insert, Known
<1>3. LessonsOK /\ req[r] \in Doing /\ ReqOK(r)
  BY Parts DEF RequestsOK
<1>4. l \in 1 .. site.lessons /\ WasHeld(l)
  BY <1>1, <1>2, <1>3 DEF Doing, Idle, ReqOK
<1>5. Known = 1 .. Cardinality(Known) /\ Cardinality(Known) \in Nat
  <2>1. IsFiniteSet(Id)
    BY Constants, FS_Interval DEF Id
  <2>2. Known \subseteq Id
    BY <1>3 DEF Known, LessonsOK
  <2> QED BY <1>3, <2>1, <2>2, FS_Subset, FS_CardinalityType DEF LessonsOK
<1>6. i \notin Known
  BY <1>1, <1>5
<1>7. \E q \in Request, x \in Doing : req' = [req EXCEPT ![q] = x] /\ ReqOK(q)'
  BY <1>2, Nothing
<1>8. \A k : WasHeld(k)' <=> WasHeld(k)
  BY <1>2 DEF WasHeld
<1>9. CASE ~Unique(l, i)
  <2>1. UNCHANGED <<site, lessons>>
    BY <1>2, <1>9 DEF lessons
  <2>2. LessonsOK' /\ \A j \in Id : Present(j)' <=> Present(j)
    BY <2>1, LessonsKept DEF Present, lessons
  <2> QED BY <1>2, <1>7, <1>8, <2>2, LessonStep
<1>10. CASE Unique(l, i)
  <2> DEFINE new == [lesson |-> l, approved |-> FALSE]
  <2>1. /\ review' \in [Id -> [lesson : 0 .. site.lessons, approved : BOOLEAN]]
        /\ review'[i] = new /\ \A j \in Id \ {i} : review'[j] = review[j]
    <3>1. new \in [lesson : 0 .. site.lessons, approved : BOOLEAN]
      BY <1>4
    <3> QED BY <1>2, <1>3, <1>10, <3>1 DEF LessonsOK
  <2>2. new # NoReview
    BY <1>4 DEF NoReview
  <2>3. Present(i)' /\ \A j \in Id \ {i} : Present(j)' <=> Present(j)
    BY <2>1, <2>2 DEF Present
  <2>4. Known' = Known \cup {i}
    BY <1>2, <2>3 DEF Known
  <2>5. Known' = 1 .. Cardinality(Known')
    <3>1. PICK k \in Nat : k = Cardinality(Known)
      BY <1>5
    <3>2. Known = 1 .. k /\ i = k + 1
      BY <1>1, <1>5, <3>1
    <3>3. Known' = 1 .. k + 1
      BY <2>4, <3>2
    <3>4. Cardinality(1 .. k + 1) = k + 1
      BY FS_Interval
    <3> QED BY <3>3, <3>4
  <2>6. ReviewsStandUp'
    <3>1. ASSUME NEW j \in Id, Present(j)'
          PROVE  /\ held[review'[j].lesson] = "completed" \/ review'[j].lesson \in undone
                 /\ \A m \in Id \ {j} : Present(m)' => review'[m].lesson # review'[j].lesson
                 /\ j \in rejected => j \in late /\ review'[j].approved
      <4>1. CASE j = i
        <5>1. review'[j].lesson = l /\ i \notin rejected
          BY <1>6, <2>1, <4>1 DEF Known
        <5>2. \A m \in Id \ {i} : Present(m)' => review'[m].lesson # l
          BY <1>10, <2>1, <2>3 DEF Unique
        <5> QED BY <1>4, <4>1, <5>1, <5>2 DEF WasHeld
      <4>2. CASE j # i
        <5>1. Present(j) /\ review'[j] = review[j]
          BY <2>1, <2>3, <3>1, <4>2
        <5>2. /\ held[review[j].lesson] = "completed" \/ review[j].lesson \in undone
              /\ \A m \in Id \ {j} : Present(m) => review[m].lesson # review[j].lesson
              /\ j \in rejected => j \in late /\ review[j].approved
          BY <1>3, <5>1 DEF LessonsOK, ReviewsStandUp
        <5>3. review[j].lesson # l /\ review'[i].lesson = l
          BY <1>10, <2>1, <4>2, <5>1 DEF Unique
        <5>4. \A m \in Id \ {j, i} : Present(m)' => review'[m].lesson # review[j].lesson
          BY <2>1, <2>3, <5>2
        <5> QED BY <5>1, <5>2, <5>3, <5>4
      <4> QED BY <4>1, <4>2
    <3> QED BY <1>2, <3>1 DEF ReviewsStandUp
  <2>7. LessonsOK'
    <3>1. \A j \in Id : Present(j)' => review'[j].lesson \in 1 .. site.lessons
      BY <1>3, <1>4, <2>1, <2>3 DEF LessonsOK
    <3> QED BY <1>2, <1>3, <2>1, <2>5, <2>6, <3>1 DEF LessonsOK
  <2>8. \A j \in Id : Present(j) \/ j \in late => Present(j)' \/ j \in late'
    BY <1>2, <2>3
  <2> QED BY <1>2, <1>7, <1>8, <2>7, <2>8, LessonStep
<1> QED BY <1>9, <1>10

LEMMA ApproveStep == ASSUME IInv, NEW r \in Request, NEW i \in Id, Approve(r, i) PROVE IInv'
<1> DEFINE x == [pc |-> "clean", id |-> i, lesson |-> review[i].lesson]
<1>1. /\ Present(i) /\ req' = [req EXCEPT ![r] = x] /\ Spend("calls")
      /\ UNCHANGED <<site, schedule, lessons>>
  BY DEF Approve, Read
<1>2. x \in Doing
  BY <1>1, Parts DEF LessonsOK, Doing
<1>3. ReqOK(r)'
  <2>1. req'[r] = x
    BY <1>1, Parts DEF RequestsOK
  <2>2. req'[r].pc = "clean" /\ req'[r].id = i
    BY <2>1
  <2>3. Present(i)'
    BY <1>1 DEF Present, lessons
  <2>4. Present(req[r].id)'
    BY <2>2, <2>3
  <2> QED BY <2>2, <2>4 DEF ReqOK
<1> HIDE DEF x
<1> QED BY <1>1, <1>2, <1>3, ReadStep

\* What is approved was found to be of a lesson that is completed.
LEMMA CleanStep == ASSUME IInv, NEW r \in Request, CleanReview(r) PROVE IInv'
<1>1. PICK l, i : l = req[r].lesson /\ i = req[r].id
  OBVIOUS
<1>2. /\ req[r].pc = "clean" /\ UNCHANGED <<site, schedule, lessons, used>>
      /\ req' = [req EXCEPT ![r] =
           IF held[l] = "completed" /\ Unique(l, i) THEN [req[r] EXCEPT !.pc = "approve"] ELSE Idle]
  BY <1>1 DEF CleanReview
<1>3. req[r] \in Doing /\ ReqOK(r) /\ req \in [Request -> Doing]
  BY Parts DEF RequestsOK
<1>4. PICK x : x = IF held[l] = "completed" /\ Unique(l, i) THEN [req[r] EXCEPT !.pc = "approve"]
                   ELSE Idle
  OBVIOUS
<1>5. req[r] \in [pc : {"clean", "approve"}, id : Id, lesson : 1 .. site.lessons]
  BY <1>2, <1>3 DEF Doing, Idle
<1>6. x \in Doing /\ req'[r] = x /\ req' = [req EXCEPT ![r] = x]
  BY <1>2, <1>3, <1>4, <1>5 DEF Doing
<1>7. ReqOK(r)'
  <2>1. CASE held[l] = "completed" /\ Unique(l, i)
    <3>1. req'[r].pc = "approve" /\ req'[r].lesson = l /\ req'[r].id = i
      BY <1>1, <1>4, <1>5, <1>6, <2>1
    <3>2. WasHeld(l)'
      BY <1>2, <2>1 DEF WasHeld, lessons
    <3>3. WasHeld(req[r].lesson)'
      BY <3>1, <3>2
    <3>4. Present(i)' \/ i \in late'
      BY <1>1, <1>2, <1>3 DEF ReqOK, Present, lessons
    <3>5. Present(req[r].id)' \/ req'[r].id \in late'
      <4>1. Present(i)' => Present(req[r].id)'
        BY <3>1
      <4> QED BY <3>1, <3>4, <4>1
    <3> QED BY <3>1, <3>3, <3>5 DEF ReqOK
  <2>2. CASE ~(held[l] = "completed" /\ Unique(l, i))
    <3>1. req'[r] = Idle
      BY <1>4, <1>6, <2>2
    <3> QED BY <3>1 DEF ReqOK, Idle
  <2> QED BY <2>1, <2>2
<1> QED BY <1>2, <1>6, <1>7, ReadStep

\* An approval writes the review that it read, back again if it was rejected meanwhile.
LEMMA SaveApprovedStep == ASSUME IInv, NEW r \in Request, SaveApproved(r) PROVE IInv'
<1>1. PICK l, i : l = req[r].lesson /\ i = req[r].id
  OBVIOUS
<1>2. /\ req[r].pc = "approve"
      /\ review' = IF Unique(l, i) THEN [review EXCEPT ![i] = [lesson |-> l, approved |-> TRUE]]
                   ELSE review
      /\ Done(r) /\ UNCHANGED <<site, schedule, held, asked, undone, rejected, late, used>>
  BY <1>1 DEF SaveApproved
<1>3. LessonsOK /\ req[r] \in Doing /\ ReqOK(r)
  BY Parts DEF RequestsOK
<1>4. l \in 1 .. site.lessons /\ i \in Id /\ WasHeld(l) /\ (Present(i) \/ i \in late)
  BY <1>1, <1>2, <1>3 DEF Doing, Idle, ReqOK
<1>5. \E q \in Request, x \in Doing : req' = [req EXCEPT ![q] = x] /\ ReqOK(q)'
  BY <1>2, Nothing
<1>6. \A k : WasHeld(k)' <=> WasHeld(k)
  BY <1>2 DEF WasHeld
<1>7. CASE ~Unique(l, i)
  <2>1. UNCHANGED <<site, lessons>>
    BY <1>2, <1>7 DEF lessons
  <2>2. LessonsOK' /\ \A j \in Id : Present(j)' <=> Present(j)
    BY <2>1, LessonsKept DEF Present, lessons
  <2> QED BY <1>2, <1>5, <1>6, <2>2, LessonStep
<1>8. CASE Unique(l, i)
  <2> DEFINE new == [lesson |-> l, approved |-> TRUE]
  <2>1. /\ review' \in [Id -> [lesson : 0 .. site.lessons, approved : BOOLEAN]]
        /\ review'[i] = new /\ \A j \in Id \ {i} : review'[j] = review[j]
    <3>1. new \in [lesson : 0 .. site.lessons, approved : BOOLEAN]
      BY <1>4
    <3> QED BY <1>2, <1>3, <1>4, <1>8, <3>1 DEF LessonsOK
  <2>2. new # NoReview
    BY <1>4 DEF NoReview
  <2>3. Present(i)' /\ \A j \in Id \ {i} : Present(j)' <=> Present(j)
    BY <2>1, <2>2 DEF Present
  <2>4. Known' = Known
    BY <1>2, <1>3, <1>4, <2>3 DEF Known, LessonsOK
  <2>5. ReviewsStandUp'
    <3>1. ASSUME NEW j \in Id, Present(j)'
          PROVE  /\ held[review'[j].lesson] = "completed" \/ review'[j].lesson \in undone
                 /\ \A m \in Id \ {j} : Present(m)' => review'[m].lesson # review'[j].lesson
                 /\ j \in rejected => j \in late /\ review'[j].approved
      <4>1. CASE j = i
        <5>1. review'[j].lesson = l /\ review'[j].approved
          BY <2>1, <4>1
        <5>2. \A m \in Id \ {i} : Present(m)' => review'[m].lesson # l
          BY <1>8, <2>1, <2>3 DEF Unique
        <5>3. i \in rejected => i \in late
          BY <1>3, <1>4 DEF LessonsOK, ReviewsStandUp
        <5> QED BY <1>4, <4>1, <5>1, <5>2, <5>3 DEF WasHeld
      <4>2. CASE j # i
        <5>1. Present(j) /\ review'[j] = review[j]
          BY <2>1, <2>3, <3>1, <4>2
        <5>2. /\ held[review[j].lesson] = "completed" \/ review[j].lesson \in undone
              /\ \A m \in Id \ {j} : Present(m) => review[m].lesson # review[j].lesson
              /\ j \in rejected => j \in late /\ review[j].approved
          BY <1>3, <5>1 DEF LessonsOK, ReviewsStandUp
        <5>3. review[j].lesson # l /\ review'[i].lesson = l
          BY <1>8, <2>1, <4>2, <5>1 DEF Unique
        <5>4. \A m \in Id \ {j, i} : Present(m)' => review'[m].lesson # review[j].lesson
          BY <2>1, <2>3, <5>2
        <5> QED BY <5>1, <5>2, <5>3, <5>4
      <4> QED BY <4>1, <4>2
    <3> QED BY <1>2, <3>1 DEF ReviewsStandUp
  <2>6. LessonsOK'
    <3>1. \A j \in Id : Present(j)' => review'[j].lesson \in 1 .. site.lessons
      BY <1>3, <1>4, <2>1, <2>3 DEF LessonsOK
    <3>2. Known' = 1 .. Cardinality(Known')
      BY <1>3, <2>4 DEF LessonsOK
    <3> QED BY <1>2, <1>3, <2>1, <2>5, <3>1, <3>2 DEF LessonsOK
  <2>7. \A j \in Id : Present(j) \/ j \in late => Present(j)' \/ j \in late'
    BY <1>2, <2>3
  <2> QED BY <1>2, <1>5, <1>6, <2>6, <2>7, LessonStep
<1> QED BY <1>7, <1>8

\* A review that is rejected while an approval has it in hand is late.
LEMMA RejectStep == ASSUME IInv, NEW i \in Id, Reject(i) PROVE IInv'
<1>1. /\ Present(i) /\ Spend("calls") /\ review' = [review EXCEPT ![i] = NoReview]
      /\ rejected' = rejected \cup {i}
      /\ late' = IF \E r \in Request : req[r].pc \in {"clean", "approve"} /\ req[r].id = i
                   THEN late \cup {i} ELSE late
      /\ UNCHANGED <<site, schedule, req, held, asked, undone>>
  BY DEF Reject
<1>2. LessonsOK /\ RequestsOK /\ site.lessons \in Nat
  BY Parts, Constants
<1>3. /\ review' \in [Id -> [lesson : 0 .. site.lessons, approved : BOOLEAN]]
      /\ review'[i] = NoReview /\ \A j \in Id \ {i} : review'[j] = review[j]
  <2>1. NoReview \in [lesson : 0 .. site.lessons, approved : BOOLEAN]
    BY <1>2 DEF NoReview
  <2> QED BY <1>1, <1>2, <2>1 DEF LessonsOK
<1>4. ~Present(i)' /\ \A j \in Id \ {i} : Present(j)' <=> Present(j)
  BY <1>3 DEF Present
<1>5. Known' = Known
  BY <1>1, <1>4 DEF Known
<1>6. LessonsOK'
  <2>1. Known' = 1 .. Cardinality(Known')
    BY <1>2, <1>5 DEF LessonsOK
  <2>2. \A j \in Id : Present(j)' => Present(j) /\ j # i /\ review'[j] = review[j]
    BY <1>3, <1>4
  <2>3. ReviewsStandUp'
    <3>1. \A j \in Id : j \in rejected /\ Present(j) => j \in late'
      BY <1>1, <1>2 DEF LessonsOK, ReviewsStandUp
    <3> QED BY <1>1, <1>2, <2>2, <3>1 DEF LessonsOK, ReviewsStandUp
  <2> QED BY <1>1, <1>2, <1>3, <2>1, <2>2, <2>3 DEF LessonsOK
<1>7. RequestsOK'
  <2>1. ASSUME NEW r \in Request, req[r].pc \in {"clean", "approve"}
        PROVE  Present(req[r].id)' \/ req[r].id \in late'
    <3>1. PICK j : j = req[r].id /\ j = req'[r].id
      BY <1>1
    <3>2. j \in Id /\ (Present(j) \/ j \in late)
      <4>1. req[r] \in Doing /\ ReqOK(r)
        BY <1>2 DEF RequestsOK
      <4>2. req[r].id \in Id
        BY <2>1, <4>1 DEF Doing, Idle
      <4>3. Present(req[r].id) \/ req[r].id \in late
        BY <2>1, <4>1 DEF ReqOK
      <4> QED BY <3>1, <4>2, <4>3
    <3>3. Present(j)' \/ j \in late'
      BY <1>1, <1>4, <2>1, <3>1, <3>2
    <3>4. Present(j)' => Present(req[r].id)'
      BY <3>1
    <3> QED BY <3>1, <3>3, <3>4
  <2>2. \A l : WasHeld(l)' <=> WasHeld(l)
    BY <1>1 DEF WasHeld
  <2>3. ASSUME NEW r \in Request, req[r].pc \in {"insert", "approve"} PROVE WasHeld(req[r].lesson)'
    <3>1. PICK l : l = req[r].lesson /\ l = req'[r].lesson
      BY <1>1
    <3>2. WasHeld(l)'
      BY <1>2, <2>2, <2>3, <3>1 DEF RequestsOK, ReqOK
    <3> QED BY <3>1, <3>2
  <2>4. \A r \in Request : ReqOK(r)'
    BY <1>1, <1>2, <2>1, <2>3 DEF RequestsOK, ReqOK, Withdraws
  <2>5. Doing' = Doing
    BY <1>1 DEF Doing
  <2> QED BY <1>1, <1>2, <2>4, <2>5 DEF RequestsOK
<1>8. ClockOK' /\ ScheduleOK'
  BY <1>1, ClockKept, ScheduleKept DEF schedule
<1>9. (site \in Site)'
  BY <1>1, Parts
<1> QED BY <1>6, <1>7, <1>8, <1>9, PartsNext

-----------------------------------------------------------------------------
LEMMA NextIInv == IInv /\ [Next]_vars => IInv'
<1> SUFFICES ASSUME IInv, [Next]_vars PROVE IInv'
  OBVIOUS
<1>1. ASSUME NEW t \in 0 .. (MaxDay + 1) * DayLength, NEW len \in Length, Book(t, len) PROVE IInv'
  BY <1>1, BookStep
<1>2. ASSUME NEW b \in booked, Release(b) PROVE IInv'
  BY <1>2, ReleaseStep
<1>3. CASE Tick
  BY <1>3, TickStep
<1>4. ASSUME NEW v \in windows, Delete(v) PROVE IInv'
  BY <1>4, DeleteStep
<1>5. ASSUME NEW z \in site.zones, SetZone(z) PROVE IInv'
  BY <1>5, ZoneStep
<1>6. ASSUME NEW i \in Id, Reject(i) PROVE IInv'
  BY <1>6, RejectStep
<1>7. ASSUME NEW r \in Request, NEW v \in site.added, Add(r, v) PROVE IInv'
  BY <1>7, AddStep
<1>8. ASSUME NEW r \in Request, NEW l \in DOMAIN held,
             \/ \E st \in {"completed", "cancelled"} : Resolve(r, l, st)
             \/ Ask(r, l) \/ Submit(r, l)
             \/ \E accept \in BOOLEAN : Answer(r, l, accept)
      PROVE  IInv'
  BY <1>8, ResolveStep, AskStep, SubmitStep, AnswerStep
<1>9. ASSUME NEW r \in Request, NEW i \in Id, Approve(r, i) PROVE IInv'
  BY <1>9, ApproveStep
<1>10. ASSUME NEW r \in Request, Edit(r) \/ SaveProfile(r) PROVE IInv'
  BY <1>10, EditStep, SaveProfileStep
<1>11. ASSUME NEW r \in Request,
              SaveAdded(r) \/ SaveResolved(r) \/ Insert(r) \/ CleanReview(r) \/ SaveApproved(r)
       PROVE  IInv'
  BY <1>11, SaveAddedStep, SaveResolvedStep, InsertStep, CleanStep, SaveApprovedStep
<1>12. CASE UNCHANGED vars
  BY <1>12, ScheduleStep, ClockKept, ScheduleKept DEF vars, lessons
<1> QED BY <1>1, <1>2, <1>3, <1>4, <1>5, <1>6, <1>7, <1>8, <1>9, <1>10, <1>11, <1>12 DEF Next

\* The inductive invariant holds in every reachable state.
THEOREM Invariance == Spec => []IInv
BY InitIInv, NextIInv, PTL DEF Spec

\* Every variable keeps to its type, windows end after they begin (the clean methods of the
\* schedule's models), and bookings lie apart.
THEOREM TypeCorrect == Spec => []TypeOK
<1>1. IInv => TypeOK
  BY DEF IInv
<1> QED BY <1>1, Invariance, PTL

\* However tabs interleave, a lesson has one review; its lesson was held, and is completed
\* unless a request saved what it had read before that or the teacher accepted a request to
\* cancel that was left open; and what was rejected is back only by an approval that had read
\* it.
THEOREM ReviewsAreOfLessons == Spec => []ReviewsStandUp
<1>1. IInv => ReviewsStandUp
  BY DEF IInv
<1> QED BY <1>1, Invariance, PTL

-----------------------------------------------------------------------------
(* The week view.                                                          *)

\* A lesson that does not touch a change of the clock has one wall time, in the order of
\* all wall times.
LEMMA Away ==
  ASSUME NEW z \in Zone, NEW t \in Int, NEW len \in Nat \ {0},
         LET h == IF z.change < 0 THEN -z.change ELSE z.change
         IN ~(t < z.at + h /\ t + len > z.at - h)
  PROVE  /\ WallOf(z, t) \in Int /\ ~Doubtful(z, WallOf(z, t))
         /\ \A w \in Int : /\ Instant(z, w) \in Int
                           /\ Instant(z, w) = t <=> w = WallOf(z, t)
                           /\ Instant(z, w) <= t <=> w <= WallOf(z, t)
                           /\ t + len <= Instant(z, w) <=> WallOf(z, t) + len <= w
         /\ Instant(z, WallOf(z, t) + len) = t + len
<1>1. z.base \in Int /\ z.at \in Int /\ z.change \in Int
  BY DEF Zone
<1>2. CASE t + len <= z.at /\ t + len <= z.at + z.change /\ t + len <= z.at - z.change
  <2>1. WallOf(z, t) = t + z.base
    BY <1>1, <1>2 DEF WallOf, Offset
  <2> QED BY <1>1, <1>2, <2>1 DEF Doubtful, Instant
<1>3. CASE t >= z.at /\ t >= z.at + z.change /\ t >= z.at - z.change
  <2>1. WallOf(z, t) = t + z.base + z.change
    BY <1>1, <1>3 DEF WallOf, Offset
  <2> QED BY <1>1, <1>3, <2>1 DEF Doubtful, Instant
<1> QED BY <1>1, <1>2, <1>3

\* The wall times of a day.
LEMMA InDay ==
  ASSUME NEW w \in Int
  PROVE  /\ w \div DayLength \in Int
         /\ \A e \in Int : w \div DayLength = e <=> e * DayLength <= w /\ w < e * DayLength + DayLength
<1>1. DayLength \in Nat /\ DayLength > 0
  BY Constants
<1>2. /\ w \div DayLength \in Int /\ w % DayLength \in 0 .. DayLength - 1
      /\ w = DayLength * (w \div DayLength) + (w % DayLength)
  BY <1>1
<1>3. ASSUME NEW q \in Int, NEW r \in 0 .. DayLength - 1,
             DayLength * (w \div DayLength) + (w % DayLength) = DayLength * q + r
      PROVE  w \div DayLength = q
  BY <1>1, <1>2, <1>3
<1>4. ASSUME NEW e \in Int, e * DayLength <= w, w < e * DayLength + DayLength
      PROVE  w \div DayLength = e
  <2>1. e * DayLength \in Int /\ e * DayLength = DayLength * e
    BY <1>1
  <2>2. PICK r \in Int : r = w - e * DayLength
    BY <2>1
  <2>3. r \in 0 .. DayLength - 1 /\ w = DayLength * e + r
    BY <1>1, <1>4, <2>1, <2>2
  <2> QED BY <1>2, <1>3, <2>3
<1>5. ASSUME NEW e \in Int, w \div DayLength = e
      PROVE  e * DayLength <= w /\ w < e * DayLength + DayLength
  <2>1. e * DayLength \in Int /\ e * DayLength = DayLength * e
    BY <1>1
  <2> QED BY <1>1, <1>2, <1>5, <2>1
<1> QED BY <1>2, <1>4, <1>5

\* Days follow each other.
LEMMA DayOrder ==
  ASSUME NEW a \in Int, NEW b \in Int
  PROVE  a * DayLength < b * DayLength <=> a < b
<1>1. DayLength \in Nat /\ DayLength > 0
  BY Constants
<1>2. PICK n \in Int : n = b - a
  OBVIOUS
<1>3. b * DayLength = a * DayLength + n * DayLength
  BY <1>1, <1>2
<1>4. n > 0 <=> n * DayLength > 0
  BY <1>1
<1>5. a * DayLength \in Int /\ n * DayLength \in Int
  BY <1>1
<1> QED BY <1>2, <1>3, <1>4, <1>5

\* A day that has windows has a first and a last one.
LEMMA Extremes ==
  ASSUME NEW W \in SUBSET Window, W # {}
  PROVE  /\ \E v \in W : \A u \in W : v.from <= u.from
         /\ \E v \in W : \A u \in W : u.to <= v.to
<1> DEFINE R == OpToRel(<, Nat)
<1>1. IsWellFoundedOn(R, Nat)
  BY NatLessThanWellFounded
<1>2. \A x, y \in Nat : <<x, y>> \in R <=> x < y
  BY DEF OpToRel
<1> HIDE DEF R
<1>3. ASSUME NEW T \in SUBSET Nat, T # {} PROVE \E x \in T : \A y \in T : x <= y
  <2>1. PICK x \in T : \A y \in T : ~(<<y, x>> \in R)
    BY <1>1, <1>3, WFMin
  <2>2. \A y \in T : ~(y < x)
    BY <1>2, <2>1, Zenon
  <2> QED BY <2>2
<1>4. \A v \in W : v.from \in Nat /\ v.to \in Nat /\ v.to <= DayLength /\ DayLength \in Nat
  BY Constants DEF Window
<1>5. \E v \in W : \A u \in W : v.from <= u.from
  <2> DEFINE T == {v.from : v \in W}
  <2>1. T \in SUBSET Nat /\ T # {}
    BY <1>4
  <2>2. PICK x \in T : \A y \in T : x <= y
    BY <1>3, <2>1
  <2> QED BY <2>2
<1>6. \E v \in W : \A u \in W : u.to <= v.to
  <2> DEFINE T == {DayLength - v.to : v \in W}
  <2>1. T \in SUBSET Nat /\ T # {}
    BY <1>4
  <2>2. PICK x \in T : \A y \in T : x <= y
    BY <1>3, <2>1
  <2>3. PICK v \in W : x = DayLength - v.to
    BY <2>2
  <2>4. \A u \in W : DayLength - v.to <= DayLength - u.to
    BY <2>2, <2>3
  <2> QED BY <1>4, <2>4
<1> QED BY <1>5, <1>6

LEMMA ScheduleTypes ==
  ASSUME IInv
  PROVE  /\ zone \in Zone /\ now \in Int /\ instant \in BOOLEAN /\ Buffer \in Nat
         /\ \A v \in windows : v.from \in Nat /\ v.to \in Nat /\ v.to <= DayLength
         /\ \A b \in booked : b[1] \in Nat /\ b[2] \in Nat
         /\ \A d : Windows(d) \subseteq windows /\ windows \subseteq Window
<1>1. site \in Site /\ ScheduleOK /\ ClockOK
  BY Parts
<1>2. zone \in Zone /\ now \in Int
  BY <1>1, Constants DEF ScheduleOK, ClockOK
<1>3. \A d : Windows(d) \subseteq windows
  BY DEF Windows, Overrides, Rules
<1> QED BY <1>1, <1>2, <1>3, Constants DEF ScheduleOK, Window

\* A lesson that can be had starts on the day of the teacher's that its window is of; and
\* what starts on a day, and is the lesson's instant, is its wall time.
LEMMA Offered ==
  ASSUME IInv, NEW t \in Nat, NEW len \in Length, ~AtTheChange(t, len)
  PROVE  /\ ToBeHad(t, len) <=> WallOf(zone, t) \in Starts(DateOf(zone, t), len)
         /\ \A e \in Int : \A w \in Starts(e, len) :
              Instant(zone, w) = t => w = WallOf(zone, t) /\ e = DateOf(zone, t)
<1> DEFINE w0 == WallOf(zone, t)
           d == DateOf(zone, t)
<1>1. /\ zone \in Zone /\ now \in Int /\ Buffer \in Nat /\ len \in Nat \ {0} /\ DayLength \in Nat
      /\ DayLength > 0
      /\ \A v \in windows : v.from \in Nat /\ v.to \in Nat /\ v.to <= DayLength
      /\ \A b \in booked : b[1] \in Nat /\ b[2] \in Nat
      /\ \A e : Windows(e) \subseteq windows /\ windows \subseteq Window
  BY ScheduleTypes, Constants DEF Length
<1>2. /\ w0 \in Int /\ Instant(zone, w0) = t
      /\ \A w \in Int : /\ Instant(zone, w) \in Int
                        /\ Instant(zone, w) = t <=> w = w0
                        /\ Instant(zone, w) <= t <=> w <= w0
                        /\ t + len <= Instant(zone, w) <=> w0 + len <= w
      /\ Instant(zone, w0 + len) = t + len
  BY <1>1, Away DEF AtTheChange
<1>3. d \in Int /\ \A e \in Int : d = e <=> e * DayLength <= w0 /\ w0 < e * DayLength + DayLength
  BY <1>2, InDay DEF DateOf
<1> HIDE DEF w0, d
<1>4. \A e \in Int, h \in Nat : Wall(e, h) = e * DayLength + h /\ Wall(e, h) \in Int /\ e * DayLength \in Int
  BY <1>1 DEF Wall
<1>5. ASSUME NEW e \in Int, NEW w \in Starts(e, len), Instant(zone, w) = t
      PROVE  w = w0 /\ e = d
  <2>1. /\ w \in Wall(e, 0) .. Wall(e, DayLength)
        /\ \E v \in Windows(e) : Wall(e, v.from) <= w /\ w + len <= Wall(e, v.to)
    BY <1>5 DEF Starts
  <2>2. PICK v \in Windows(e) : Wall(e, v.from) <= w /\ w + len <= Wall(e, v.to)
    BY <2>1
  <2>3. w \in Int
    BY <1>1, <1>4, <2>1
  <2>4. w = w0
    BY <1>2, <1>5, <2>3
  <2>5. v.from \in Nat /\ v.to \in Nat /\ v.to <= DayLength
    BY <1>1
  <2>6. e * DayLength <= w0 /\ w0 < e * DayLength + DayLength
    <3>1. /\ Wall(e, v.from) = e * DayLength + v.from /\ Wall(e, v.to) = e * DayLength + v.to
          /\ e * DayLength \in Int
      BY <1>4, <2>5
    <3>2. PICK n \in Int : n = e * DayLength
      BY <3>1
    <3>3. n + v.from <= w /\ w + len <= n + v.to
      BY <2>2, <3>1, <3>2
    <3>4. n <= w0 /\ w0 < n + DayLength
      BY <1>1, <2>3, <2>4, <2>5, <3>2, <3>3
    <3> QED BY <3>2, <3>4
  <2> QED BY <1>3, <2>4, <2>6
<1>6. w0 \in Wall(d, 0) .. Wall(d, DayLength)
  <2>1. Wall(d, 0) = d * DayLength + 0 /\ Wall(d, DayLength) = d * DayLength + DayLength
    BY <1>1, <1>3, <1>4
  <2>2. d * DayLength <= w0 /\ w0 < d * DayLength + DayLength /\ d * DayLength \in Int
    BY <1>3, <1>4
  <2>3. Wall(d, 0) \in Int /\ Wall(d, DayLength) \in Int
    BY <1>1, <1>3, <1>4
  <2>4. Wall(d, 0) <= w0 /\ w0 <= Wall(d, DayLength)
    <3>1. PICK n \in Int : n = d * DayLength
      BY <2>2
    <3> QED BY <1>1, <1>2, <2>1, <2>2, <3>1
  <2> QED BY <1>2, <2>3, <2>4
<1>7. \A v \in Windows(d) :
        /\ Wall(d, v.from) \in Int /\ Wall(d, v.to) \in Int
        /\ Instant(zone, Wall(d, v.from)) <= t <=> Wall(d, v.from) <= w0
        /\ t + len <= Instant(zone, Wall(d, v.to)) <=> w0 + len <= Wall(d, v.to)
  BY <1>1, <1>2, <1>3, <1>4
<1>8. ASSUME NEW v \in Windows(d), Wall(d, v.from) <= w0, w0 + len <= Wall(d, v.to),
             NEW b \in booked, t < b[2], t + len > b[1]
      PROVE  b \in Fetched(d)
  <2> DEFINE W == Windows(d)
             first == CHOOSE x \in W : \A u \in W : Wall(d, x.from) <= Wall(d, u.from)
             last == CHOOSE x \in W : \A u \in W : Wall(d, u.to) <= Wall(d, x.to)
  <2>1. W \in SUBSET Window /\ W # {}
    BY <1>1
  <2>2. /\ \E x \in W : \A u \in W : x.from <= u.from
        /\ \E x \in W : \A u \in W : u.to <= x.to
    <3> HIDE DEF W
    <3> QED BY <2>1, Extremes
  <2>3. \A x, u \in W : /\ x.from \in Nat /\ x.to \in Nat
                        /\ Wall(d, x.from) = d * DayLength + x.from
                        /\ Wall(d, x.to) = d * DayLength + x.to
                        /\ d * DayLength \in Int
    BY <1>1, <1>3, <1>4
  <2>4. first \in W /\ \A u \in W : Wall(d, first.from) <= Wall(d, u.from)
    <3>1. \E x \in W : \A u \in W : Wall(d, x.from) <= Wall(d, u.from)
      BY <2>2, <2>3
    <3> HIDE DEF W
    <3> QED BY <3>1
  <2>5. last \in W /\ \A u \in W : Wall(d, u.to) <= Wall(d, last.to)
    <3>1. \E x \in W : \A u \in W : Wall(d, u.to) <= Wall(d, x.to)
      BY <2>2, <2>3
    <3> HIDE DEF W
    <3> QED BY <3>1
  <2> HIDE DEF first, last
  <2>6. Wall(d, first.from) <= w0 /\ w0 + len <= Wall(d, last.to)
    BY <1>1, <1>2, <1>7, <1>8, <2>4, <2>5
  <2>7. Instant(zone, Wall(d, first.from)) <= t /\ t + len <= Instant(zone, Wall(d, last.to))
    BY <1>7, <2>4, <2>5, <2>6
  <2>8. Instant(zone, Wall(d, first.from)) \in Int /\ Instant(zone, Wall(d, last.to)) \in Int
    BY <1>2, <1>7, <2>4, <2>5
  <2>9. b[1] < Instant(zone, Wall(d, last.to)) /\ b[2] > Instant(zone, Wall(d, first.from))
    BY <1>1, <1>8, <2>7, <2>8
  <2> USE DEF first, last
  <2> QED BY <2>9 DEF Fetched
<1>9. Fetched(d) \subseteq booked
  BY DEF Fetched
<1>10. w0 \in Starts(d, len) <=>
         /\ ~(d = DateOf(zone, now) /\ ~instant)
         /\ \E v \in Windows(d) : Wall(d, v.from) <= w0 /\ w0 + len <= Wall(d, v.to)
         /\ t > (IF d = DateOf(zone, now) THEN now + Buffer ELSE now)
         /\ \A b \in Fetched(d) : ~(t < b[2] /\ t + len > b[1])
  BY <1>2, <1>6 DEF Starts
<1>11. ToBeHad(t, len) <=>
         /\ \E v \in Windows(d) : /\ Instant(zone, Wall(d, v.from)) <= t
                                  /\ t + len <= Instant(zone, Wall(d, v.to))
         /\ IF d = DateOf(zone, now) THEN instant /\ t > now + Buffer ELSE t > now
         /\ \A b \in booked : t + len <= b[1] \/ b[2] <= t
  BY DEF ToBeHad, d
<1>12. \A b \in booked : (t + len <= b[1] \/ b[2] <= t) <=> ~(t < b[2] /\ t + len > b[1])
  BY <1>1
<1>13. ToBeHad(t, len) => w0 \in Starts(d, len)
  BY <1>7, <1>9, <1>10, <1>11, <1>12
<1>14. w0 \in Starts(d, len) => ToBeHad(t, len)
  BY <1>7, <1>8, <1>10, <1>11, <1>12
<1> USE DEF w0, d
<1> QED BY <1>5, <1>13, <1>14

\* What a student sees is what can be had, and can be booked.
THEOREM WeekShowsTheOffer == Spec => []WeekIsTheOffer
<1>1. ASSUME IInv, NEW y \in Viewer, NEW len \in Length, NEW d \in Day,
             NEW t \in 0 .. (MaxDay + 1) * DayLength,
             DateOf(y, t) = d, Near(y, t), ~AtTheChange(t, len)
      PROVE  /\ Cardinality({w \in Shown(y, d, len) : Instant(zone, w) = t}) =
                  (IF ToBeHad(t, len) THEN 1 ELSE 0)
             /\ ToBeHad(t, len) => Bookable(t, len)
  <2> DEFINE w0 == WallOf(zone, t)
             e == DateOf(zone, t)
             seen == {w \in Shown(y, d, len) : Instant(zone, w) = t}
  <2>1. /\ t \in Nat /\ zone \in Zone /\ y \in Zone /\ len \in Nat \ {0} /\ DayLength \in Nat
        /\ DayLength > 0 /\ d \in Nat
    <3>1. (MaxDay + 1) * DayLength \in Nat
      BY Constants
    <3> QED BY <1>1, <3>1, ScheduleTypes, Constants, ViewerAssumption DEF Length, Day
  <2>2. w0 \in Int /\ Instant(zone, w0) = t /\ ~Doubtful(zone, w0)
    BY <1>1, <2>1, Away DEF AtTheChange
  <2>3. /\ ToBeHad(t, len) <=> w0 \in Starts(e, len)
        /\ \A n \in Int : \A w \in Starts(n, len) : Instant(zone, w) = t => w = w0 /\ n = e
    BY <1>1, <2>1, Offered
  <2>4. e \in d - 1 .. d + 1
    <3>1. WallOf(y, t) \in Int /\ Offset(y, t) \in Int /\ Offset(zone, t) \in Int
      BY <2>1 DEF WallOf, Offset, Zone
    <3>2. d * DayLength <= WallOf(y, t) /\ WallOf(y, t) < d * DayLength + DayLength
      BY <1>1, <2>1, <3>1, InDay DEF DateOf
    <3>3. e \in Int /\ e * DayLength <= w0 /\ w0 < e * DayLength + DayLength
      BY <2>2, InDay DEF DateOf
    <3>4. w0 <= WallOf(y, t) + DayLength /\ WallOf(y, t) <= w0 + DayLength
      BY <1>1, <2>1, <3>1 DEF WallOf, Near
    <3> HIDE DEF e, w0
    <3>5. /\ d * DayLength \in Int /\ e * DayLength \in Int
          /\ (d + 2) * DayLength = d * DayLength + DayLength + DayLength
          /\ (e + 2) * DayLength = e * DayLength + DayLength + DayLength
      BY <2>1, <3>3
    <3>6. e * DayLength < (d + 2) * DayLength /\ d * DayLength < (e + 2) * DayLength
      BY <2>1, <2>2, <3>1, <3>2, <3>3, <3>4, <3>5
    <3>7. e < d + 2 /\ d < e + 2
      BY <2>1, <3>3, <3>6, DayOrder
    <3> QED BY <2>1, <3>3, <3>7
  <2>5. seen = IF ToBeHad(t, len) THEN {w0} ELSE {}
    <3>1. \A w \in seen : w = w0 /\ ToBeHad(t, len)
      <4>1. \A w \in seen : Instant(zone, w) = t /\ \E n \in d - 1 .. d + 1 : w \in Starts(n, len)
        BY DEF Shown
      <4> QED BY <2>1, <2>3, <4>1
    <3>2. ToBeHad(t, len) => w0 \in seen
      BY <1>1, <2>2, <2>3, <2>4 DEF Shown
    <3> HIDE DEF seen
    <3> QED BY <3>1, <3>2
  <2>6. ToBeHad(t, len) => Bookable(t, len)
    BY <2>2, <2>3 DEF Bookable
  <2>7. Cardinality(seen) = IF ToBeHad(t, len) THEN 1 ELSE 0
    <3> HIDE DEF seen
    <3> QED BY <2>5, FS_Singleton, FS_EmptySet
  <2> QED BY <2>6, <2>7
<1>2. IInv => WeekIsTheOffer
  BY <1>1 DEF WeekIsTheOffer
<1> QED BY <1>2, Invariance, PTL

=============================================================================
