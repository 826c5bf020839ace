------------------------- MODULE RemindersProperties -------------------------
(***************************************************************************)
(* What Reminders is checked for, and the inductive invariant behind it.   *)
(***************************************************************************)
EXTENDS Reminders

\* Every variable stays in its type.
TypeOK ==
  /\ status \in [Booking -> Status]
  /\ start \in [Booking -> Nat] /\ created \in [Booking -> Nat]
  /\ sent \in [Kind -> [Booking -> BOOLEAN]]
  /\ clock \in Nat
  /\ sweep \in [Sweeper -> Sweep]
  /\ hold \in [Handler -> Row]
  /\ enqueued \in [Mail -> 0 .. 2]
  /\ swept \in BOOLEAN
  /\ crashes \in Nat
  /\ lost \subseteq Mail
  /\ since \in [Booking -> Nat]
  /\ overwritten \subseteq Kind \X Booking

\* send_lesson_reminders, tasks.py:348: the flags are updated "to prevent
\* duplicate dispatch": no mail is enqueued twice.
NoDuplicateReminder == \A m \in Mail : enqueued[m] <= 1

\* What the conditional claim gives under overlapping and dying sweeps: a mail
\* is enqueued twice only if a handler's save reset the flag in between.
DuplicateOnlyAfterOverwrite ==
  \A k \in Kind, b \in Booking, p \in Person :
    enqueued[<<k, b, p>>] > 1 => <<k, b>> \in overwritten

\* Who reminder k goes to, and the last tick at which a sweep selects it for b.
Recipient(k) == IF k = "day" THEN {"student"} ELSE Person
LastChance(k, b) == IF k = "day" THEN start[b] - DayLow ELSE start[b] - 1

\* The mail is in the queue, or a sweep is about to put it there, or the sweep
\* that had claimed it died.
Accounted(k, b, p) ==
  \/ enqueued[<<k, b, p>>] > 0
  \/ <<k, b, p>> \in lost
  \/ \E w \in Sweeper : Owes(w, k, b, p)

\* A booking confirmed before the window of a reminder closed (and, for the
\* 24-hour one, requested a day ahead) is reminded of, unless the very sweep
\* that had claimed it died: no crash, overlap or stale save loses any other.
DueRemindersGoOut ==
  \A k \in Kind, b \in Booking :
    /\ status[b] = "confirmed"
    /\ k = "day" => created[b] <= start[b] - DayMid
    /\ since[b] < LastChance(k, b) /\ LastChance(k, b) < clock
    => \A p \in Recipient(k) : Accounted(k, b, p)

-----------------------------------------------------------------------------
(* The inductive invariant.                                                *)

AllAccounted(k, b) == \A p \in Recipient(k) : Accounted(k, b, p)

\* The flag of a handler's copy.
Flag(h, k) == IF k = "day" THEN hold[h].day ELSE hold[h].hour

\* Only rows that are there are read, selected or flagged, and no sweep is ahead
\* of the clock.
RowsExist ==
  /\ \A h \in Handler : hold[h].id # NoBooking =>
       status[hold[h].id] # "none" /\ hold[h].status # "none"
  /\ \A w \in Sweeper : /\ \A b \in sweep[w].ids : status[b] # "none"
                        /\ sweep[w].now <= clock
                        /\ sweep[w].pc \in Person => sweep[w].id # NoBooking
  /\ \A k \in Kind, b \in Booking : sent[k][b] => status[b] # "none"

\* Until a save resets the flag, a mail is enqueued, or owed by one sweep, at
\* most once, and neither before its flag is set.
Once(k, b, p) ==
  <<k, b>> \in overwritten \/
  /\ enqueued[<<k, b, p>>] <= 1
  /\ \A w \in Sweeper : Owes(w, k, b, p) =>
       /\ sent[k][b] /\ enqueued[<<k, b, p>>] = 0
       /\ \A v \in Sweeper : Owes(v, k, b, p) => v = w
  /\ enqueued[<<k, b, p>>] = 1 => sent[k][b]

\* A flag, in the row or in a handler's copy, means claimed or too late.
Settled(k, b) == AllAccounted(k, b) \/ Missed(k, b, clock)
FlagsOK ==
  /\ \A k \in Kind, b \in Booking : sent[k][b] => Settled(k, b)
  /\ \A h \in Handler, k \in Kind :
       hold[h].id # NoBooking /\ Flag(h, k) => Settled(k, hold[h].id)

\* What a sweep of the current tick has to do for reminder k of b.
Pressing(k, b) == status[b] = "confirmed" /\ since[b] < clock /\ Due(k, b, clock)

\* A sweep of the current tick has dealt with the first reminder when it is at
\* the second, and with all but its list once it has selected.
SweepOK(w) ==
  sweep[w].pc # "idle" /\ sweep[w].now = clock => \A b \in Booking :
    /\ sweep[w].kind = "hour" /\ Pressing("day", b) => AllAccounted("day", b)
    /\ sweep[w].pc \in {"claim", "student", "teacher"} /\ Pressing(sweep[w].kind, b)
         => b \in sweep[w].ids \/ AllAccounted(sweep[w].kind, b)

SweptOK ==
  swept => \A k \in Kind, b \in Booking : Pressing(k, b) => AllAccounted(k, b)

IInv == /\ TypeOK /\ RowsExist
        /\ \A k \in Kind, b \in Booking, p \in Person : Once(k, b, p)
        /\ FlagsOK
        /\ \A w \in Sweeper : SweepOK(w)
        /\ SweptOK /\ DueRemindersGoOut
=============================================================================
