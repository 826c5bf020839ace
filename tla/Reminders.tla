------------------------------ MODULE Reminders ------------------------------
(***************************************************************************)
(* The lesson reminders: send_lesson_reminders, which beat starts every    *)
(* five minutes on any Celery worker, against the web handlers that save   *)
(* the same booking rows.                                                  *)
(*                                                                         *)
(* A sweep is a series of autocommitted statements, first for the 24-hour  *)
(* reminder ("day"), then for the one-hour reminder ("hour"): mark what    *)
(* missed its window, select what is due, then for each booking claim its  *)
(* flag with a conditional UPDATE and enqueue its mails.  Nothing keeps    *)
(* two sweeps from overlapping, and a handler writes back every column of  *)
(* a row it read earlier, the two flags included.                          *)
(***************************************************************************)
EXTENDS Integers

CONSTANTS
  Booking,     \* ids of rows
  NoBooking,   \* no id
  Sweeper,     \* the Celery workers a sweep can be running on
  Handler,     \* the web workers that save bookings
  Start,       \* the start times of lessons
  Standing,    \* rows confirmed before the model begins
  HourAhead,   \* now + 1h5m
  DayLow, DayMid, DayHigh, \* now + 23h, 24h, 25h
  MaxTime,     \* bound: the last tick of the clock
  MaxCrashes   \* bound: how many sweeps die

ASSUME NoBookingAssumption == NoBooking \notin Booking
ASSUME StandingAssumption == Standing \subseteq Booking
ASSUME TimeAssumption ==
  /\ Start \subseteq Nat /\ MaxTime \in Nat /\ MaxCrashes \in Nat
  /\ HourAhead \in Nat /\ DayLow \in Nat /\ DayMid \in Nat /\ DayHigh \in Nat
  /\ 0 < HourAhead /\ HourAhead < DayLow /\ DayLow <= DayMid /\ DayMid <= DayHigh

VARIABLES
  status,      \* row -> status, "none" while the row is not there
  start,       \* row -> start_at
  created,     \* row -> created_at
  sent,        \* kind -> row -> reminder_24h_sent, reminder_1h_sent
  clock,       \* timezone.now()
  sweep,       \* worker -> its sweep
  hold,        \* handler -> the row it has read and is about to save
  enqueued,    \* <<kind, row, recipient>> -> 0, 1 or 2 (more than once) mails
  swept,       \* a sweep that began at this tick has run to its end
  crashes,     \* sweeps that died so far
  lost,        \* history: mails whose sweep died after the claim
  since,       \* history: row -> when it became confirmed
  overwritten  \* history: <<kind, row>> whose flag a save reset

vars == <<status, start, created, sent, clock, sweep, hold, enqueued, swept, crashes,
          lost, since, overwritten>>

Kind   == {"day", "hour"}
Status == {"none", "pending", "confirmed", "completed", "cancelled", "expired"}
Person == {"student", "teacher"}
Mail   == Kind \X Booking \X Person

Sweep == [pc : {"idle", "mark", "select", "claim", "student", "teacher"}, kind : Kind,
          now : Nat, ids : SUBSET Booking, id : Booking \cup {NoBooking}]
NoSweep == [pc |-> "idle", kind |-> "day", now |-> 0, ids |-> {}, id |-> NoBooking]

\* A row as a handler will write it back.
Row == [id : Booking \cup {NoBooking}, status : Status, day : BOOLEAN, hour : BOOLEAN]
NoRow == [id |-> NoBooking, status |-> "none", day |-> FALSE, hour |-> FALSE]

-----------------------------------------------------------------------------
(* The web requests.                                                       *)

\* book_slot: a lesson that lies ahead; the flags start False.
Book(b, t) ==
  /\ status[b] = "none" /\ t > clock
  /\ status' = [status EXCEPT ![b] = "pending"]
  /\ start' = [start EXCEPT ![b] = t]
  /\ created' = [created EXCEPT ![b] = clock]
  /\ UNCHANGED <<sent, clock, sweep, hold, enqueued, swept, crashes, lost, since,
                 overwritten>>

\* Mutant: the handlers write a status the model does not have.
OutcomeMisspelt(st) ==
  IF st \in {"pending", "confirmed"} THEN {st, "confirmed", "canceled"} ELSE {}

\* What respond_to_booking, cancel_lesson, complete_lesson, mark_lesson_not_held
\* and request_cancellation may write over a row they read with status st: the
\* first answers a cancellation request in any status.
Outcome(st) ==
  {x \in Status \ {"none"} :
     /\ st # "none"
     /\ \/ x \in {st, "cancelled"}
        \/ st = "pending" /\ x = "confirmed"
        \/ st = "confirmed" /\ x = "completed"}

\* The handler reads the row and decides; past clean() it will save what it holds.
Read(h, b) ==
  \E st \in Outcome(status[b]) :
    /\ hold[h].id = NoBooking
    /\ hold' = [hold EXCEPT ![h] =
         [id |-> b, status |-> st, day |-> sent["day"][b], hour |-> sent["hour"][b]]]
    /\ UNCHANGED <<status, start, created, sent, clock, sweep, enqueued, swept, crashes,
                   lost, since, overwritten>>

\* UPDATE of every column from the handler's copy.
Save(h) ==
  LET b == hold[h].id
      flag == [k \in Kind |-> IF k = "day" THEN hold[h].day ELSE hold[h].hour]
  IN /\ b # NoBooking
     /\ status' = [status EXCEPT ![b] = hold[h].status]
     /\ sent' = [k \in Kind |-> [sent[k] EXCEPT ![b] = flag[k]]]
     /\ overwritten' = overwritten \cup {kb \in Kind \X {b} : sent[kb[1]][b] /\ ~flag[kb[1]]}
     /\ since' = IF hold[h].status = "confirmed" /\ status[b] # "confirmed"
                   THEN [since EXCEPT ![b] = clock] ELSE since
     /\ hold' = [hold EXCEPT ![h] = NoRow]
     /\ UNCHANGED <<start, created, clock, sweep, enqueued, swept, crashes, lost>>

\* clean() rejects the row, or the request dies.
Abandon(h) ==
  /\ hold[h].id # NoBooking
  /\ hold' = [hold EXCEPT ![h] = NoRow]
  /\ UNCHANGED <<status, start, created, sent, clock, sweep, enqueued, swept, crashes,
                 lost, since, overwritten>>

\* expire_stale_bookings writes the status column only.
Expire(b) ==
  /\ status[b] = "pending" /\ start[b] <= clock
  /\ status' = [status EXCEPT ![b] = "expired"]
  /\ UNCHANGED <<start, created, sent, clock, sweep, hold, enqueued, swept, crashes, lost,
                 since, overwritten>>

-----------------------------------------------------------------------------
(* The sweep.                                                              *)

\* The sweep goes on at pc with reminder k, its list ids and the booking id.
Go(w, pc, k, ids, id) ==
  sweep' = [sweep EXCEPT ![w] =
    [pc |-> pc, kind |-> k, now |-> sweep[w].now, ids |-> ids, id |-> id]]

Begin(w) ==
  /\ sweep[w].pc = "idle"
  /\ sweep' = [sweep EXCEPT ![w] =
       [pc |-> "mark", kind |-> "day", now |-> clock, ids |-> {}, id |-> NoBooking]]
  /\ UNCHANGED <<status, start, created, sent, clock, hold, enqueued, swept, crashes,
                 lost, since, overwritten>>

\* Mutant: the 24-hour window closed an hour early.
MissedEarly(k, b, now) ==
  IF k = "day" THEN start[b] < now + DayHigh ELSE start[b] <= now

\* The window of reminder k of b has passed.
Missed(k, b, now) ==
  IF k = "day" THEN start[b] < now + DayLow ELSE start[b] <= now

Due(k, b, now) ==
  IF k = "day"
    THEN /\ start[b] >= now + DayLow /\ start[b] <= now + DayHigh
         /\ created[b] <= start[b] - DayMid
    ELSE /\ start[b] > now /\ start[b] <= now + HourAhead

Unsent(k, b) == status[b] = "confirmed" /\ ~sent[k][b]

Mark(w) ==
  LET k == sweep[w].kind
  IN /\ sweep[w].pc = "mark"
     /\ sent' = [sent EXCEPT ![k] = [b \in Booking |->
          sent[k][b] \/ (Unsent(k, b) /\ Missed(k, b, sweep[w].now))]]
     /\ Go(w, "select", k, {}, NoBooking)
     /\ UNCHANGED <<status, start, created, clock, hold, enqueued, swept, crashes, lost,
                    since, overwritten>>

Select(w) ==
  LET k == sweep[w].kind
  IN /\ sweep[w].pc = "select"
     /\ Go(w, "claim", k, {b \in Booking : Unsent(k, b) /\ Due(k, b, sweep[w].now)}, NoBooking)
     /\ UNCHANGED <<status, start, created, sent, clock, hold, enqueued, swept, crashes,
                    lost, since, overwritten>>

\* Mutant: the claim does not look at the flag.
ClaimAnyway(w) ==
  \E b \in sweep[w].ids :
    /\ sweep[w].pc = "claim"
    /\ sent' = [sent EXCEPT ![sweep[w].kind][b] = TRUE]
    /\ Go(w, "student", sweep[w].kind, sweep[w].ids \ {b}, b)
    /\ UNCHANGED <<status, start, created, clock, hold, enqueued, swept, crashes, lost,
                   since, overwritten>>

\* Mutant: the flags of the whole list set at once, before any mail.
ClaimAll(w) ==
  \E b \in sweep[w].ids :
    /\ sweep[w].pc = "claim"
    /\ sent' = [sent EXCEPT ![sweep[w].kind] =
         [c \in Booking |-> c \in sweep[w].ids \/ sent[sweep[w].kind][c]]]
    /\ Go(w, "student", sweep[w].kind, sweep[w].ids \ {b}, b)
    /\ UNCHANGED <<status, start, created, clock, hold, enqueued, swept, crashes, lost,
                   since, overwritten>>

\* UPDATE ... WHERE the flag is still False; if it was, the mails follow.
Claim(w) ==
  \E b \in sweep[w].ids :
    /\ sweep[w].pc = "claim"
    /\ sent' = [sent EXCEPT ![sweep[w].kind][b] = TRUE]
    /\ IF sent[sweep[w].kind][b]
         THEN Go(w, "claim", sweep[w].kind, sweep[w].ids \ {b}, NoBooking)
         ELSE Go(w, "student", sweep[w].kind, sweep[w].ids \ {b}, b)
    /\ UNCHANGED <<status, start, created, clock, hold, enqueued, swept, crashes, lost,
                   since, overwritten>>

\* The mails still to be enqueued for the booking the sweep has claimed: .delay
\* for the student and then, one hour ahead, for the teacher.
Owes(w, k, b, p) ==
  /\ sweep[w].kind = k /\ sweep[w].id = b
  /\ sweep[w].pc = p \/ (sweep[w].pc = "student" /\ k = "hour")
Owed(w) == {m \in Mail : Owes(w, m[1], m[2], m[3])}

Enqueue(w) ==
  LET m == <<sweep[w].kind, sweep[w].id, sweep[w].pc>>
  IN /\ sweep[w].pc \in Person
     /\ enqueued' = [enqueued EXCEPT ![m] = IF @ = 0 THEN 1 ELSE 2]
     /\ IF sweep[w].kind = "hour" /\ sweep[w].pc = "student"
          THEN Go(w, "teacher", "hour", sweep[w].ids, sweep[w].id)
          ELSE Go(w, "claim", sweep[w].kind, sweep[w].ids, NoBooking)
     /\ UNCHANGED <<status, start, created, sent, clock, hold, swept, crashes, lost,
                    since, overwritten>>

\* The list is done: on to the one-hour reminder, or the end of the sweep.
Finish(w) ==
  /\ sweep[w].pc = "claim" /\ sweep[w].ids = {}
  /\ IF sweep[w].kind = "day"
       THEN /\ Go(w, "mark", "hour", {}, NoBooking)
            /\ UNCHANGED swept
       ELSE /\ sweep' = [sweep EXCEPT ![w] = NoSweep]
            /\ swept' = (swept \/ sweep[w].now = clock)
  /\ UNCHANGED <<status, start, created, sent, clock, hold, enqueued, crashes, lost,
                 since, overwritten>>

\* .delay raises because the broker is away, or the worker dies: the sweep ends
\* where it is, and nothing undoes a claim.
Crash(w) ==
  /\ sweep[w].pc # "idle" /\ crashes < MaxCrashes
  /\ crashes' = crashes + 1
  /\ lost' = lost \cup Owed(w)
  /\ sweep' = [sweep EXCEPT ![w] = NoSweep]
  /\ UNCHANGED <<status, start, created, sent, clock, hold, enqueued, swept, since,
                 overwritten>>

\* Beat is punctual: in every tick some sweep begins and runs to its end.
Tick ==
  /\ swept /\ clock < MaxTime
  /\ clock' = clock + 1
  /\ swept' = FALSE
  /\ UNCHANGED <<status, start, created, sent, sweep, hold, enqueued, crashes, lost,
                 since, overwritten>>

-----------------------------------------------------------------------------
Init ==
  /\ status = [b \in Booking |-> IF b \in Standing THEN "confirmed" ELSE "none"]
  /\ start \in [Booking -> Start]
  /\ created = [b \in Booking |-> 0]
  /\ sent = [k \in Kind |-> [b \in Booking |-> FALSE]]
  /\ clock = 0
  /\ sweep = [w \in Sweeper |-> NoSweep]
  /\ hold = [h \in Handler |-> NoRow]
  /\ enqueued = [m \in Mail |-> 0]
  /\ swept = FALSE
  /\ crashes = 0
  /\ lost = {}
  /\ since = [b \in Booking |-> 0]
  /\ overwritten = {}

Next ==
  \/ \E b \in Booking, t \in Start : Book(b, t)
  \/ \E h \in Handler, b \in Booking : Read(h, b)
  \/ \E h \in Handler : Save(h) \/ Abandon(h)
  \/ \E b \in Booking : Expire(b)
  \/ \E w \in Sweeper : \/ Begin(w) \/ Mark(w) \/ Select(w) \/ Claim(w)
                        \/ Enqueue(w) \/ Finish(w) \/ Crash(w)
  \/ Tick

Spec == Init /\ [][Next]_vars

=============================================================================
