--------------------------- MODULE RemindersProofs ---------------------------
(***************************************************************************)
(* The safety properties of Reminders, proved for any bookings, workers,   *)
(* windows and numbers of crashes.  They follow from IInv of               *)
(* RemindersProperties, which each action preserves.                       *)
(***************************************************************************)
EXTENDS RemindersProperties, TLAPS

\* The typing assumptions on the constants, as facts the proofs cite.
LEMMA Constants ==
  /\ HourAhead \in Nat /\ DayLow \in Nat /\ DayMid \in Nat /\ DayHigh \in Nat
  /\ 0 < HourAhead /\ DayLow <= DayHigh /\ 0 < DayLow
  /\ Start \subseteq Nat /\ MaxTime \in Nat /\ MaxCrashes \in Nat
  /\ NoBooking \notin Booking
BY NoBookingAssumption, TimeAssumption

-----------------------------------------------------------------------------
(* Types.                                                                  *)

LEMMA InitType == Init => TypeOK
<1> SUFFICES ASSUME Init PROVE TypeOK
  OBVIOUS
<1>1. NoSweep \in Sweep /\ NoRow \in Row
  BY DEF NoSweep, Sweep, NoRow, Row, Kind, Status
<1>2. start \in [Booking -> Nat]
  BY Constants DEF Init
<1>3. enqueued \in [Mail -> 0 .. 2] /\ sent \in [Kind -> [Booking -> BOOLEAN]]
  BY DEF Init
<1>4. sweep \in [Sweeper -> Sweep] /\ hold \in [Handler -> Row]
  BY <1>1 DEF Init
<1>5. /\ status \in [Booking -> Status] /\ created \in [Booking -> Nat]
      /\ since \in [Booking -> Nat]
  BY DEF Init, Status
<1>6. /\ clock \in Nat /\ swept \in BOOLEAN /\ crashes \in Nat
      /\ lost \subseteq Mail /\ overwritten \subseteq Kind \X Booking
  BY DEF Init
<1> QED BY <1>2, <1>3, <1>4, <1>5, <1>6 DEF TypeOK

\* A field-wise view of a sweep and of a row that a handler holds.
LEMMA SweepFields ==
  \A s \in Sweep : /\ s.pc \in {"idle", "mark", "select", "claim", "student", "teacher"}
                   /\ s.kind \in Kind /\ s.now \in Nat /\ s.ids \in SUBSET Booking
                   /\ s.id \in Booking \cup {NoBooking}
BY DEF Sweep

LEMMA SweepRecord ==
  ASSUME NEW pc \in {"idle", "mark", "select", "claim", "student", "teacher"},
         NEW kind \in Kind, NEW now \in Nat, NEW ids \in SUBSET Booking,
         NEW id \in Booking \cup {NoBooking}
  PROVE  [pc |-> pc, kind |-> kind, now |-> now, ids |-> ids, id |-> id] \in Sweep
BY DEF Sweep

LEMMA RowFields ==
  \A r \in Row : /\ r.id \in Booking \cup {NoBooking} /\ r.status \in Status
                 /\ r.day \in BOOLEAN /\ r.hour \in BOOLEAN
BY DEF Row

\* What Go does to the sweeps.
LEMMA GoStep ==
  ASSUME TypeOK, NEW w \in Sweeper, NEW k \in Kind, NEW ids \in SUBSET Booking,
         NEW id \in Booking \cup {NoBooking},
         NEW pc \in {"mark", "select", "claim", "student", "teacher"}, Go(w, pc, k, ids, id)
  PROVE  /\ sweep' \in [Sweeper -> Sweep]
         /\ \A v \in Sweeper \ {w} : sweep'[v] = sweep[v]
         /\ sweep'[w].pc = pc /\ sweep'[w].kind = k /\ sweep'[w].now = sweep[w].now
         /\ sweep'[w].ids = ids /\ sweep'[w].id = id
<1> DEFINE s == [pc |-> pc, kind |-> k, now |-> sweep[w].now, ids |-> ids, id |-> id]
<1>1. sweep[w].now \in Nat
  BY SweepFields DEF TypeOK
<1>2. s \in Sweep
  BY <1>1, SweepRecord
<1>3. s.pc = pc /\ s.kind = k /\ s.now = sweep[w].now /\ s.ids = ids /\ s.id = id
  OBVIOUS
<1>4. sweep' = [sweep EXCEPT ![w] = s]
  BY DEF Go
<1> HIDE DEF s
<1>5. sweep'[w] = s /\ \A v \in Sweeper \ {w} : sweep'[v] = sweep[v]
  BY <1>4 DEF TypeOK
<1> QED BY <1>2, <1>3, <1>4, <1>5 DEF TypeOK

\* Setting one flag.
LEMMA SetFlag ==
  ASSUME TypeOK, NEW k \in Kind, NEW b \in Booking, sent' = [sent EXCEPT ![k][b] = TRUE]
  PROVE  /\ sent' \in [Kind -> [Booking -> BOOLEAN]]
         /\ \A j \in Kind, c \in Booking :
              sent'[j][c] = IF j = k /\ c = b THEN TRUE ELSE sent[j][c]
<1>1. sent'[k] = [sent[k] EXCEPT ![b] = TRUE] /\ \A j \in Kind \ {k} : sent'[j] = sent[j]
  BY DEF TypeOK
<1>2. sent[k] \in [Booking -> BOOLEAN]
  BY DEF TypeOK
<1> QED BY <1>1, <1>2 DEF TypeOK

-----------------------------------------------------------------------------
(* The actions of a sweep.                                                 *)

\* What every action of the sweep w leaves alone, and how it may move.
Frame(w) ==
  /\ UNCHANGED <<status, start, created, clock, hold, since, overwritten>>
  /\ sweep' \in [Sweeper -> Sweep] /\ \A v \in Sweeper \ {w} : sweep'[v] = sweep[v]
  /\ sent' \in [Kind -> [Booking -> BOOLEAN]]
  /\ \A k \in Kind, b \in Booking : sent[k][b] => sent'[k][b]
  /\ enqueued' \in [Mail -> 0 .. 2]
  /\ \A m \in Mail : enqueued[m] > 0 => enqueued'[m] > 0
  /\ lost \subseteq lost' /\ lost' \subseteq Mail
  /\ crashes' \in Nat /\ swept' \in BOOLEAN

\* What is accounted for stays so, if that is so of what w owes.
LEMMA AccountedStable ==
  ASSUME TypeOK, NEW w \in Sweeper, Frame(w),
         \A k \in Kind, b \in Booking, p \in Person : Owes(w, k, b, p) => Accounted(k, b, p)',
         NEW k \in Kind, NEW b \in Booking
  PROVE  /\ \A p \in Person : Accounted(k, b, p) => Accounted(k, b, p)'
         /\ AllAccounted(k, b) => AllAccounted(k, b)'
         /\ Settled(k, b) => Settled(k, b)'
         /\ Pressing(k, b)' <=> Pressing(k, b)
<1>1. ASSUME NEW p \in Person, Accounted(k, b, p) PROVE Accounted(k, b, p)'
  <2>1. CASE enqueued[<<k, b, p>>] > 0
    <3>1. <<k, b, p>> \in Mail
      BY DEF Mail
    <3> QED BY <2>1, <3>1 DEF Frame, Accounted
  <2>2. CASE <<k, b, p>> \in lost
    BY <2>2 DEF Frame, Accounted
  <2>3. CASE \E v \in Sweeper : Owes(v, k, b, p)
    <3>1. PICK v \in Sweeper : Owes(v, k, b, p)
      BY <2>3
    <3>2. CASE v = w
      BY <3>1, <3>2
    <3>3. CASE v # w
      <4>1. Owes(v, k, b, p)'
        BY <3>1, <3>3 DEF Frame, Owes
      <4> QED BY <4>1 DEF Accounted
    <3> QED BY <3>2, <3>3
  <2> QED BY <1>1, <2>1, <2>2, <2>3 DEF Accounted
<1>2. AllAccounted(k, b) => AllAccounted(k, b)'
  <2>1. Recipient(k) \subseteq Person
    BY DEF Recipient, Person
  <2> QED BY <1>1, <2>1 DEF AllAccounted
<1>3. Missed(k, b, clock)' <=> Missed(k, b, clock)
  BY DEF Frame, Missed
<1>4. Pressing(k, b)' <=> Pressing(k, b)
  BY DEF Frame, Pressing, Due
<1> QED BY <1>1, <1>2, <1>3, <1>4 DEF Settled

\* A sweep's step preserves the invariant if it does so of its own part.
LEMMA FramePreserved ==
  ASSUME IInv, NEW w \in Sweeper, Frame(w),
         \A k \in Kind, b \in Booking, p \in Person : Owes(w, k, b, p) => Accounted(k, b, p)',
         \A k \in Kind, b \in Booking :
           sent'[k][b] /\ ~sent[k][b] => status[b] # "none" /\ Settled(k, b)',
         \A b \in sweep'[w].ids : status[b] # "none",
         sweep'[w].now <= clock, sweep'[w].pc \in Person => sweep'[w].id # NoBooking,
         SweepOK(w)',
         swept' /\ ~swept =>
           \A k \in Kind, b \in Booking : Pressing(k, b) => AllAccounted(k, b)',
         \A k \in Kind, b \in Booking, p \in Person : Once(k, b, p)'
  PROVE  IInv'
<1>1. TypeOK
  BY DEF IInv
<1>2. \A k \in Kind, b \in Booking :
        /\ AllAccounted(k, b) => AllAccounted(k, b)'
        /\ Settled(k, b) => Settled(k, b)'
        /\ Pressing(k, b)' <=> Pressing(k, b)
  BY <1>1, AccountedStable
<1>3. TypeOK'
  BY <1>1 DEF Frame, TypeOK
<1>4. RowsExist'
  BY DEF IInv, RowsExist, Frame
<1>5. FlagsOK'
  <2>1. \A k \in Kind, b \in Booking : sent'[k][b] => Settled(k, b)'
    BY <1>2 DEF IInv, FlagsOK
  <2>2. ASSUME NEW h \in Handler, NEW k \in Kind, hold[h].id # NoBooking, Flag(h, k)
        PROVE  Settled(k, hold[h].id)'
    <3>1. hold[h].id \in Booking
      BY <1>1, <2>2, RowFields DEF TypeOK
    <3>2. hold' = hold /\ Settled(k, hold[h].id)
      BY <2>2 DEF Frame, IInv, FlagsOK
    <3> QED BY <1>2, <3>1, <3>2
  <2>3. hold' = hold
    BY DEF Frame
  <2> QED BY <2>1, <2>2, <2>3 DEF FlagsOK, Flag
<1>6. \A v \in Sweeper : SweepOK(v)'
  <2> SUFFICES ASSUME NEW v \in Sweeper, v # w PROVE SweepOK(v)'
    OBVIOUS
  <2>1. SweepOK(v) /\ sweep'[v] = sweep[v] /\ clock' = clock
    BY DEF IInv, Frame
  <2>2. sweep[v].kind \in Kind
    BY <1>1, SweepFields DEF TypeOK
  <2> QED BY <1>2, <2>1, <2>2 DEF SweepOK, Kind
<1>7. SweptOK'
  BY <1>2 DEF IInv, SweptOK, Frame
<1>8. DueRemindersGoOut'
  <2> SUFFICES ASSUME NEW k \in Kind, NEW b \in Booking,
                      status[b] = "confirmed", k = "day" => created[b] <= start[b] - DayMid,
                      since[b] < LastChance(k, b), LastChance(k, b) < clock
               PROVE  AllAccounted(k, b)'
    BY DEF DueRemindersGoOut, AllAccounted, LastChance, Frame
  <2>1. AllAccounted(k, b)
    BY DEF IInv, DueRemindersGoOut, AllAccounted
  <2> QED BY <1>2, <2>1
<1> QED BY <1>3, <1>4, <1>5, <1>6, <1>7, <1>8 DEF IInv

\* A sweep owes nothing unless it is about to enqueue.
LEMMA NothingOwed ==
  ASSUME NEW w, sweep[w].pc \notin Person, NEW k, NEW b, NEW p \in Person
  PROVE  ~Owes(w, k, b, p)
BY DEF Owes, Person

\* A step that enqueues nothing and claims nothing keeps mails single.
LEMMA OnceStable ==
  ASSUME IInv, NEW w \in Sweeper, Frame(w), enqueued' = enqueued, sweep'[w].pc \notin Person
  PROVE  \A k \in Kind, b \in Booking, p \in Person : Once(k, b, p)'
<1> SUFFICES ASSUME NEW k \in Kind, NEW b \in Booking, NEW p \in Person,
                    <<k, b>> \notin overwritten'
             PROVE  Once(k, b, p)'
  BY DEF Once
<1>1. Once(k, b, p) /\ <<k, b>> \notin overwritten
  BY DEF IInv, Frame
<1>2. ~Owes(w, k, b, p)'
  BY DEF Owes, Person
<1>3. \A v \in Sweeper \ {w} : Owes(v, k, b, p)' <=> Owes(v, k, b, p)
  BY DEF Owes, Frame
<1> QED BY <1>1, <1>2, <1>3 DEF Once, Frame

LEMMA BeginStep ==
  ASSUME IInv, NEW w \in Sweeper, Begin(w)
  PROVE  IInv'
<1> DEFINE s == [pc |-> "mark", kind |-> "day", now |-> clock, ids |-> {}, id |-> NoBooking]
<1>1. s \in Sweep
  BY SweepRecord DEF IInv, TypeOK, Kind
<1>2. s.pc = "mark" /\ s.kind = "day" /\ s.now = clock /\ s.ids = {}
  OBVIOUS
<1>3. sweep' = [sweep EXCEPT ![w] = s]
  BY DEF Begin
<1> HIDE DEF s
<1>4. sweep' \in [Sweeper -> Sweep] /\ sweep'[w] = s /\ \A v \in Sweeper \ {w} : sweep'[v] = sweep[v]
  BY <1>1, <1>3 DEF IInv, TypeOK
<1>5. Frame(w)
  BY <1>4 DEF Begin, Frame, IInv, TypeOK
<1>6. \A k \in Kind, b \in Booking, p \in Person : ~Owes(w, k, b, p)
  BY NothingOwed DEF Begin, Person
<1>7. SweepOK(w)'
  BY <1>2, <1>4 DEF SweepOK
<1>8. \A k \in Kind, b \in Booking, p \in Person : Once(k, b, p)'
  BY <1>2, <1>4, <1>5, OnceStable DEF Begin, Person
<1>9. clock \in Nat
  BY DEF IInv, TypeOK
<1> QED BY <1>2, <1>4, <1>5, <1>6, <1>7, <1>8, <1>9, FramePreserved DEF Begin, Person

LEMMA MarkStep ==
  ASSUME IInv, NEW w \in Sweeper, Mark(w)
  PROVE  IInv'
<1> DEFINE kind == sweep[w].kind
<1>1. TypeOK /\ kind \in Kind /\ sweep[w].now \in Nat /\ clock \in Nat
  BY SweepFields DEF IInv, TypeOK
<1>2. /\ sweep' \in [Sweeper -> Sweep] /\ \A v \in Sweeper \ {w} : sweep'[v] = sweep[v]
      /\ sweep'[w].pc = "select" /\ sweep'[w].kind = kind /\ sweep'[w].now = sweep[w].now
      /\ sweep'[w].ids = {}
  BY <1>1, GoStep DEF Mark
<1>3. /\ sent' \in [Kind -> [Booking -> BOOLEAN]]
      /\ \A k \in Kind, b \in Booking :
           sent'[k][b] <=> sent[k][b] \/ (k = kind /\ Unsent(k, b) /\ Missed(k, b, sweep[w].now))
  BY <1>1 DEF Mark, TypeOK
<1>4. Frame(w)
  BY <1>1, <1>2, <1>3 DEF Mark, Frame, TypeOK
<1>5. \A k \in Kind, b \in Booking, p \in Person : ~Owes(w, k, b, p)
  BY NothingOwed DEF Mark, Person
<1>6. ASSUME NEW k \in Kind, NEW b \in Booking, sent'[k][b], ~sent[k][b]
      PROVE  status[b] # "none" /\ Settled(k, b)'
  <2>1. status[b] = "confirmed" /\ Missed(k, b, sweep[w].now)
    BY <1>3, <1>6 DEF Unsent
  <2>2. sweep[w].now <= clock /\ start[b] \in Nat
    BY DEF IInv, RowsExist, TypeOK
  <2>3. Missed(k, b, clock)
    BY <1>1, <2>1, <2>2, Constants DEF Missed
  <2>4. Missed(k, b, clock)'
    BY <2>3 DEF Mark, Missed
  <2> QED BY <2>1, <2>4 DEF Settled
<1>7. SweepOK(w)'
  <2>1. SweepOK(w) /\ sweep[w].pc # "idle"
    BY DEF IInv, Mark
  <2>2. \A b \in Booking : /\ AllAccounted("day", b) => AllAccounted("day", b)'
                           /\ Pressing("day", b)' <=> Pressing("day", b)
    BY <1>1, <1>4, <1>5, AccountedStable DEF Kind
  <2> QED BY <1>2, <2>1, <2>2 DEF SweepOK, Mark
<1>8. \A k \in Kind, b \in Booking, p \in Person : Once(k, b, p)'
  BY <1>2, <1>4, OnceStable DEF Mark, Person
<1>9. sweep'[w].now <= clock
  BY <1>2 DEF IInv, RowsExist
<1> QED BY <1>2, <1>4, <1>5, <1>6, <1>7, <1>8, <1>9, FramePreserved DEF Mark, Person

\* A reminder that is due now has not missed its window.
LEMMA DueNotMissed ==
  ASSUME TypeOK, NEW k \in Kind, NEW b \in Booking, Due(k, b, clock)
  PROVE  ~Missed(k, b, clock)
<1>1. start[b] \in Nat /\ clock \in Nat
  BY DEF TypeOK
<1> QED BY <1>1, Constants DEF Due, Missed

\* So what presses and has its flag set is accounted for.
LEMMA PressingFlagged ==
  ASSUME IInv, NEW k \in Kind, NEW b \in Booking, Pressing(k, b), sent[k][b]
  PROVE  AllAccounted(k, b)
BY DueNotMissed DEF IInv, FlagsOK, Settled, Pressing

LEMMA SelectStep ==
  ASSUME IInv, NEW w \in Sweeper, Select(w)
  PROVE  IInv'
<1> DEFINE kind == sweep[w].kind
           found == {b \in Booking : Unsent(kind, b) /\ Due(kind, b, sweep[w].now)}
<1>1. TypeOK /\ kind \in Kind /\ clock \in Nat
  BY SweepFields DEF IInv, TypeOK
<1>2. found \in SUBSET Booking
  OBVIOUS
<1>3. Go(w, "claim", kind, found, NoBooking)
  BY DEF Select
<1>4. \A b \in found : status[b] # "none"
  BY DEF Unsent
<1>5. \A b \in Booking : b \in found <=> Unsent(kind, b) /\ Due(kind, b, sweep[w].now)
  OBVIOUS
<1> HIDE DEF found
<1>6. /\ sweep' \in [Sweeper -> Sweep] /\ \A v \in Sweeper \ {w} : sweep'[v] = sweep[v]
      /\ sweep'[w].pc = "claim" /\ sweep'[w].kind = kind /\ sweep'[w].now = sweep[w].now
      /\ sweep'[w].ids = found
  BY <1>1, <1>2, <1>3, GoStep
<1>7. Frame(w)
  BY <1>1, <1>6 DEF Select, Frame, TypeOK
<1>8. \A k \in Kind, b \in Booking, p \in Person : ~Owes(w, k, b, p)
  BY NothingOwed DEF Select, Person
<1>9. \A k \in Kind, b \in Booking :
        /\ AllAccounted(k, b) => AllAccounted(k, b)'
        /\ Pressing(k, b)' <=> Pressing(k, b)
  BY <1>1, <1>7, <1>8, AccountedStable
<1>10. SweepOK(w)'
  <2>1. SweepOK(w) /\ sweep[w].pc # "idle" /\ clock' = clock
    BY DEF IInv, Select
  <2>2. ASSUME sweep[w].now = clock, NEW b \in Booking, Pressing(kind, b)
        PROVE  b \in found \/ AllAccounted(kind, b)
    BY <1>1, <1>5, <2>2, PressingFlagged DEF Pressing, Unsent
  <2> QED BY <1>1, <1>6, <1>9, <2>1, <2>2 DEF SweepOK, Kind
<1>11. \A k \in Kind, b \in Booking, p \in Person : Once(k, b, p)'
  BY <1>6, <1>7, OnceStable DEF Select, Person
<1>12. sweep'[w].now <= clock
  BY <1>6 DEF IInv, RowsExist
<1> QED BY <1>4, <1>6, <1>7, <1>8, <1>10, <1>11, <1>12, FramePreserved DEF Select, Person

\* The claimed booking leaves the list; if its flag was unset, w now owes its mails.
LEMMA ClaimStep ==
  ASSUME IInv, NEW w \in Sweeper, Claim(w)
  PROVE  IInv'
<1>0. PICK kind \in Kind : kind = sweep[w].kind
  BY SweepFields DEF IInv, TypeOK
<1>1. /\ TypeOK /\ kind \in Kind /\ clock \in Nat /\ sweep[w].ids \in SUBSET Booking
      /\ sweep[w].pc = "claim"
  BY <1>0, SweepFields DEF IInv, TypeOK, Claim
<1>2. PICK b \in sweep[w].ids :
        /\ sent' = [sent EXCEPT ![kind][b] = TRUE]
        /\ IF sent[kind][b] THEN Go(w, "claim", kind, sweep[w].ids \ {b}, NoBooking)
                            ELSE Go(w, "student", kind, sweep[w].ids \ {b}, b)
  BY <1>0 DEF Claim
<1>3. b \in Booking /\ status[b] # "none" /\ b # NoBooking
  BY <1>1, Constants DEF IInv, RowsExist
<1>4. /\ sent' \in [Kind -> [Booking -> BOOLEAN]]
      /\ \A j \in Kind, c \in Booking :
           sent'[j][c] = IF j = kind /\ c = b THEN TRUE ELSE sent[j][c]
  <2>1. sent' = [sent EXCEPT ![kind][b] = TRUE]
    BY <1>2
  <2> QED BY <1>1, <1>3, <2>1, SetFlag
<1>5. /\ sweep' \in [Sweeper -> Sweep] /\ \A v \in Sweeper \ {w} : sweep'[v] = sweep[v]
      /\ sweep'[w].kind = kind /\ sweep'[w].now = sweep[w].now
      /\ sweep'[w].ids = sweep[w].ids \ {b}
      /\ sweep'[w].pc = IF sent[kind][b] THEN "claim" ELSE "student"
      /\ ~sent[kind][b] => sweep'[w].id = b
  <2>1. PICK ids \in SUBSET Booking : ids = sweep[w].ids \ {b}
    BY <1>1
  <2>2. CASE sent[kind][b]
    <3>1. Go(w, "claim", kind, ids, NoBooking)
      BY <1>2, <2>1, <2>2
    <3> QED BY <1>0, <1>1, <2>1, <2>2, <3>1, GoStep
  <2>3. CASE ~sent[kind][b]
    <3>1. Go(w, "student", kind, ids, b)
      BY <1>2, <2>1, <2>3
    <3>2. b \in Booking \cup {NoBooking}
      BY <1>3
    <3>3. /\ sweep' \in [Sweeper -> Sweep] /\ \A v \in Sweeper \ {w} : sweep'[v] = sweep[v]
          /\ sweep'[w].pc = "student" /\ sweep'[w].kind = kind
          /\ sweep'[w].now = sweep[w].now /\ sweep'[w].ids = ids /\ sweep'[w].id = b
      BY <1>1, <3>1, <3>2, GoStep
    <3> QED BY <1>0, <2>1, <2>3, <3>3
  <2> QED BY <2>2, <2>3
<1>6. Frame(w)
  BY <1>1, <1>4, <1>5 DEF Claim, Frame, TypeOK
<1>7. \A k \in Kind, c \in Booking, p \in Person : ~Owes(w, k, c, p)
  BY <1>1, NothingOwed DEF Person
<1>8. \A k \in Kind, c \in Booking :
        /\ AllAccounted(k, c) => AllAccounted(k, c)'
        /\ Pressing(k, c)' <=> Pressing(k, c)
  BY <1>1, <1>6, <1>7, AccountedStable
<1>9. ~sent[kind][b] => AllAccounted(kind, b)'
  <2>1. ~sent[kind][b] => \A p \in Recipient(kind) : Owes(w, kind, b, p)'
    BY <1>1, <1>5 DEF Owes, Recipient, Person, Kind
  <2> QED BY <2>1 DEF AllAccounted, Accounted, Recipient
<1>10. SweepOK(w)'
  <2>1. SweepOK(w) /\ clock' = clock
    BY DEF IInv, Claim
  <2>2. Pressing(kind, b) => AllAccounted(kind, b)'
    BY <1>1, <1>3, <1>8, <1>9, PressingFlagged
  <2>3. "day" \in Kind
    BY DEF Kind
  <2> QED BY <1>0, <1>1, <1>5, <1>8, <2>1, <2>2, <2>3 DEF SweepOK
<1>11. ASSUME NEW k \in Kind, NEW c \in Booking, NEW p \in Person PROVE Once(k, c, p)'
  <2>1. CASE sent[kind][b]
    BY <1>5, <1>6, <2>1, OnceStable DEF Claim, Person
  <2>2. CASE ~sent[kind][b]
    <3> SUFFICES ASSUME <<k, c>> \notin overwritten PROVE Once(k, c, p)'
      BY <1>6 DEF Once, Frame
    <3>1. Once(k, c, p) /\ enqueued' = enqueued
      BY DEF IInv, Claim
    <3>2. \A v \in Sweeper \ {w} : Owes(v, k, c, p)' <=> Owes(v, k, c, p)
      BY <1>5 DEF Owes
    <3>3. Owes(w, k, c, p)' => k = kind /\ c = b
      BY <1>5, <2>2 DEF Owes
    <3>4. k = kind /\ c = b => enqueued[<<k, c, p>>] = 0 /\ \A v \in Sweeper : ~Owes(v, k, c, p)
      <4>1. <<k, c, p>> \in Mail
        BY DEF Mail
      <4>2. enqueued[<<k, c, p>>] \in 0 .. 2
        BY <1>1, <4>1 DEF TypeOK
      <4> QED BY <2>2, <3>1, <4>2 DEF Once
    <3>5. sent[k][c] => sent'[k][c]
      BY <1>4
    <3>6. k = kind /\ c = b => sent'[k][c]
      BY <1>4
    <3> QED BY <3>1, <3>2, <3>3, <3>4, <3>5, <3>6 DEF Once
  <2> QED BY <2>1, <2>2
<1>12. ASSUME NEW k \in Kind, NEW c \in Booking, sent'[k][c], ~sent[k][c]
       PROVE  status[c] # "none" /\ Settled(k, c)'
  <2>1. k = kind /\ c = b
    BY <1>4, <1>12
  <2> QED BY <1>3, <1>9, <1>12, <2>1 DEF Settled
<1>13. /\ sweep'[w].now <= clock /\ \A c \in sweep'[w].ids : status[c] # "none"
       /\ sweep'[w].pc \in Person => sweep'[w].id # NoBooking
  BY <1>3, <1>5 DEF IInv, RowsExist, Person
<1> QED BY <1>6, <1>7, <1>10, <1>11, <1>12, <1>13, FramePreserved DEF Claim

LEMMA EnqueueStep ==
  ASSUME IInv, NEW w \in Sweeper, Enqueue(w)
  PROVE  IInv'
<1>0. PICK kind \in Kind, id \in Booking, pc \in Person :
        kind = sweep[w].kind /\ id = sweep[w].id /\ pc = sweep[w].pc
  BY SweepFields DEF IInv, TypeOK, Enqueue, RowsExist
<1>1. TypeOK /\ sweep[w].ids \in SUBSET Booking
  BY SweepFields DEF IInv, TypeOK
<1> DEFINE m == <<kind, id, pc>>
<1>2. m \in Mail
  BY DEF Mail
<1>3. enqueued' = [enqueued EXCEPT ![m] = IF enqueued[m] = 0 THEN 1 ELSE 2]
  BY <1>0 DEF Enqueue
<1>4. /\ enqueued' \in [Mail -> 0 .. 2] /\ enqueued'[m] = IF enqueued[m] = 0 THEN 1 ELSE 2
      /\ \A n \in Mail \ {m} : enqueued'[n] = enqueued[n]
  <2> HIDE DEF m
  <2> QED BY <1>1, <1>2, <1>3 DEF TypeOK
<1>5. /\ sweep' \in [Sweeper -> Sweep] /\ \A v \in Sweeper \ {w} : sweep'[v] = sweep[v]
      /\ sweep'[w].kind = kind /\ sweep'[w].now = sweep[w].now
      /\ sweep'[w].ids = sweep[w].ids
      /\ sweep'[w].pc = IF kind = "hour" /\ pc = "student" THEN "teacher" ELSE "claim"
      /\ kind = "hour" /\ pc = "student" => sweep'[w].id = id
  <2>0. PICK ids \in SUBSET Booking : ids = sweep[w].ids
    BY <1>1
  <2>1. CASE kind = "hour" /\ pc = "student"
    <3>1. Go(w, "teacher", "hour", ids, id)
      BY <1>0, <2>0, <2>1 DEF Enqueue
    <3> QED BY <1>0, <1>1, <2>0, <2>1, <3>1, GoStep, ZenonT(40) DEF Kind
  <2>2. CASE ~(kind = "hour" /\ pc = "student")
    <3>1. Go(w, "claim", kind, ids, NoBooking)
      BY <1>0, <2>0, <2>2 DEF Enqueue
    <3> QED BY <1>0, <1>1, <2>0, <2>2, <3>1, GoStep, ZenonT(40)
  <2> QED BY <2>1, <2>2
<1>6. Frame(w)
  <2>1. \A n \in Mail : enqueued[n] > 0 => enqueued'[n] > 0
    BY <1>4
  <2> HIDE DEF m
  <2> QED BY <1>1, <1>4, <1>5, <2>1 DEF Enqueue, Frame, TypeOK
<1>7. ASSUME NEW k \in Kind, NEW b \in Booking, NEW p \in Person, Owes(w, k, b, p)
      PROVE  Accounted(k, b, p)'
  <2>1. CASE p = pc
    BY <1>0, <1>4, <1>7, <2>1 DEF Owes, Accounted
  <2>2. CASE p # pc
    <3>1. Owes(w, k, b, p)'
      BY <1>0, <1>5, <1>7, <2>2 DEF Owes, Person
    <3> QED BY <3>1 DEF Accounted
  <2> QED BY <2>1, <2>2
<1>8. \A k \in Kind, c \in Booking :
        /\ AllAccounted(k, c) => AllAccounted(k, c)'
        /\ Pressing(k, c)' <=> Pressing(k, c)
  BY <1>1, <1>6, <1>7, AccountedStable
<1>9. SweepOK(w)'
  <2>1. SweepOK(w) /\ clock' = clock /\ "day" \in Kind
    BY DEF IInv, Enqueue, Kind
  <2> QED BY <1>0, <1>1, <1>5, <1>8, <2>1 DEF SweepOK, Person
<1>10. ASSUME NEW k \in Kind, NEW b \in Booking, NEW p \in Person PROVE Once(k, b, p)'
  <2> SUFFICES ASSUME <<k, b>> \notin overwritten PROVE Once(k, b, p)'
    BY <1>6 DEF Once, Frame
  <2>1. Once(k, b, p) /\ sent' = sent
    BY DEF IInv, Enqueue
  <2>2. \A v \in Sweeper \ {w} : Owes(v, k, b, p)' <=> Owes(v, k, b, p)
    BY <1>5 DEF Owes
  <2>3. <<k, b, p>> \in Mail
    BY DEF Mail
  <2>4. CASE <<k, b, p>> = m
    <3>1. Owes(w, k, b, p) /\ k = kind /\ b = id /\ p = pc
      BY <1>0, <2>4 DEF Owes
    <3>2. ~Owes(w, k, b, p)'
      BY <1>0, <1>5, <3>1 DEF Owes, Person
    <3>3. enqueued[m] = 0 /\ sent[k][b] /\ \A v \in Sweeper \ {w} : ~Owes(v, k, b, p)
      BY <2>1, <2>4, <3>1 DEF Once
    <3> QED BY <1>4, <2>1, <2>2, <2>4, <3>2, <3>3 DEF Once
  <2>5. CASE <<k, b, p>> # m
    <3>1. enqueued'[<<k, b, p>>] = enqueued[<<k, b, p>>]
      BY <1>4, <2>3, <2>5
    <3>2. Owes(w, k, b, p)' => Owes(w, k, b, p)
      BY <1>0, <1>5 DEF Owes, Person
    <3> QED BY <2>1, <2>2, <3>1, <3>2 DEF Once
  <2> QED BY <2>4, <2>5
<1>11. /\ sweep'[w].now <= clock /\ \A c \in sweep'[w].ids : status[c] # "none"
       /\ sweep'[w].pc \in Person => sweep'[w].id # NoBooking
  BY <1>0, <1>5, Constants DEF IInv, RowsExist, Person
<1> HIDE DEF m
<1> QED BY <1>6, <1>7, <1>9, <1>10, <1>11, FramePreserved DEF Enqueue

LEMMA FinishStep ==
  ASSUME IInv, NEW w \in Sweeper, Finish(w)
  PROVE  IInv'
<1>0. PICK kind \in Kind : kind = sweep[w].kind
  BY SweepFields DEF IInv, TypeOK
<1>1. TypeOK /\ sweep[w].pc = "claim" /\ sweep[w].ids = {} /\ clock \in Nat
  BY DEF IInv, TypeOK, Finish
<1>2. NoSweep \in Sweep /\ NoSweep.pc = "idle" /\ NoSweep.now = 0 /\ NoSweep.ids = {}
  BY DEF NoSweep, Sweep, Kind
<1>3. /\ sweep' \in [Sweeper -> Sweep] /\ \A v \in Sweeper \ {w} : sweep'[v] = sweep[v]
      /\ sweep'[w].ids = {} /\ sweep'[w].now <= clock
      /\ kind = "day" => /\ sweep'[w].pc = "mark" /\ sweep'[w].kind = "hour"
                         /\ sweep'[w].now = sweep[w].now /\ swept' = swept
      /\ kind = "hour" => /\ sweep'[w].pc = "idle"
                          /\ swept' = (swept \/ sweep[w].now = clock)
  <2>1. CASE kind = "day"
    <3>1. Go(w, "mark", "hour", {}, NoBooking) /\ swept' = swept
      BY <1>0, <2>1 DEF Finish
    <3>2. sweep[w].now <= clock
      BY DEF IInv, RowsExist
    <3> QED BY <1>1, <2>1, <3>1, <3>2, GoStep DEF Kind
  <2>2. CASE kind = "hour"
    <3>1. /\ sweep' = [sweep EXCEPT ![w] = NoSweep]
          /\ swept' = (swept \/ sweep[w].now = clock)
      BY <1>0, <2>2 DEF Finish
    <3> QED BY <1>1, <1>2, <2>2, <3>1 DEF TypeOK
  <2> QED BY <2>1, <2>2 DEF Kind
<1>4. swept' \in BOOLEAN
  BY <1>1, <1>3 DEF TypeOK, Kind
<1>5. Frame(w)
  BY <1>1, <1>3, <1>4 DEF Finish, Frame, TypeOK
<1>6. \A k \in Kind, b \in Booking, p \in Person : ~Owes(w, k, b, p)
  BY <1>1, NothingOwed DEF Person
<1>7. \A k \in Kind, c \in Booking :
        /\ AllAccounted(k, c) => AllAccounted(k, c)'
        /\ Pressing(k, c)' <=> Pressing(k, c)
  BY <1>1, <1>5, <1>6, AccountedStable
<1>8. ASSUME sweep[w].now = clock, NEW b \in Booking
      PROVE  /\ Pressing(kind, b) => AllAccounted(kind, b)'
             /\ kind = "hour" /\ Pressing("day", b) => AllAccounted("day", b)'
  <2>1. SweepOK(w) /\ "day" \in Kind
    BY DEF IInv, Kind
  <2> QED BY <1>0, <1>1, <1>7, <1>8, <2>1 DEF SweepOK
<1>9. SweepOK(w)'
  <2>1. clock' = clock /\ "day" \in Kind
    BY DEF Finish, Kind
  <2>2. CASE kind = "day"
    BY <1>3, <1>7, <1>8, <2>1, <2>2 DEF SweepOK
  <2>3. CASE kind = "hour"
    BY <1>3, <2>3 DEF SweepOK
  <2> QED BY <2>2, <2>3 DEF Kind
<1>10. ASSUME swept', ~swept, NEW k \in Kind, NEW b \in Booking, Pressing(k, b)
       PROVE  AllAccounted(k, b)'
  <2>1. kind = "hour" /\ sweep[w].now = clock
    BY <1>3, <1>10 DEF Kind
  <2> QED BY <1>8, <1>10, <2>1 DEF Kind
<1>11. \A k \in Kind, b \in Booking, p \in Person : Once(k, b, p)'
  BY <1>3, <1>5, OnceStable DEF Finish, Person, Kind
<1>12. sweep'[w].pc \notin Person
  BY <1>3 DEF Kind, Person
<1> QED BY <1>3, <1>5, <1>6, <1>9, <1>10, <1>11, <1>12, FramePreserved DEF Finish

LEMMA CrashStep ==
  ASSUME IInv, NEW w \in Sweeper, Crash(w)
  PROVE  IInv'
<1>1. TypeOK /\ clock \in Nat
  BY DEF IInv, TypeOK
<1>2. NoSweep \in Sweep /\ NoSweep.pc = "idle" /\ NoSweep.now = 0 /\ NoSweep.ids = {}
  BY DEF NoSweep, Sweep, Kind
<1>3. /\ sweep' \in [Sweeper -> Sweep] /\ \A v \in Sweeper \ {w} : sweep'[v] = sweep[v]
      /\ sweep'[w] = NoSweep
  BY <1>1, <1>2 DEF Crash, TypeOK
<1>4. lost' = lost \cup Owed(w) /\ lost' \subseteq Mail /\ crashes' \in Nat
  BY <1>1 DEF Crash, Owed, TypeOK
<1>5. Frame(w)
  BY <1>1, <1>3, <1>4 DEF Crash, Frame, TypeOK
<1>6. ASSUME NEW k \in Kind, NEW b \in Booking, NEW p \in Person, Owes(w, k, b, p)
      PROVE  Accounted(k, b, p)'
  <2>1. <<k, b, p>> \in Owed(w)
    BY <1>6 DEF Owed, Mail
  <2> QED BY <1>4, <2>1 DEF Accounted
<1>7. SweepOK(w)'
  BY <1>2, <1>3 DEF SweepOK
<1>8. \A k \in Kind, b \in Booking, p \in Person : Once(k, b, p)'
  BY <1>2, <1>3, <1>5, OnceStable DEF Crash, Person
<1> QED BY <1>1, <1>2, <1>3, <1>5, <1>6, <1>7, <1>8, FramePreserved DEF Crash, Person

-----------------------------------------------------------------------------
(* The handlers and the clock.                                             *)

\* They do not touch what the accounts of the mails are made of.
LEMMA AccountedUnchanged ==
  ASSUME UNCHANGED <<sweep, enqueued, lost>>, NEW k, NEW b
  PROVE  AllAccounted(k, b)' <=> AllAccounted(k, b)
<1>1. \A p : Accounted(k, b, p)' <=> Accounted(k, b, p)
  BY DEF Accounted, Owes
<1> QED BY <1>1 DEF AllAccounted, Recipient

\* A step of a handler: a row that is confirmed after it was so before, or is
\* newly confirmed and nothing presses for it yet.
LEMMA RowStep ==
  ASSUME IInv, TypeOK', RowsExist', FlagsOK',
         \A k \in Kind, b \in Booking, p \in Person : Once(k, b, p)',
         UNCHANGED <<sweep, enqueued, lost, clock, swept>>,
         \A b \in Booking : status'[b] = "confirmed" =>
           /\ start'[b] = start[b] /\ created'[b] = created[b]
           /\ (status[b] = "confirmed" /\ since'[b] = since[b]) \/ since'[b] = clock
  PROVE  IInv'
<1>1. clock \in Nat /\ start \in [Booking -> Nat] /\ TypeOK
  BY DEF IInv, TypeOK
<1>2. \A k \in Kind, b \in Booking :
        /\ AllAccounted(k, b)' <=> AllAccounted(k, b)
        /\ Pressing(k, b)' => Pressing(k, b)
  <2> TAKE k \in Kind, b \in Booking
  <2>1. Pressing(k, b)' => Pressing(k, b)
    BY <1>1 DEF Pressing, Due
  <2> QED BY <2>1, AccountedUnchanged
<1>3. ASSUME NEW w \in Sweeper PROVE SweepOK(w)'
  <2>1. SweepOK(w) /\ sweep[w].kind \in Kind /\ "day" \in Kind
    BY <1>1, SweepFields DEF IInv, TypeOK, Kind
  <2> QED BY <1>2, <2>1 DEF SweepOK
<1>4. SweptOK'
  BY <1>2 DEF IInv, SweptOK
<1>5. DueRemindersGoOut'
  <2> SUFFICES ASSUME NEW k \in Kind, NEW b \in Booking, status'[b] = "confirmed",
                      k = "day" => created'[b] <= start'[b] - DayMid,
                      since'[b] < LastChance(k, b)', LastChance(k, b)' < clock'
               PROVE  AllAccounted(k, b)'
    BY DEF DueRemindersGoOut, AllAccounted
  <2>1. start'[b] = start[b] /\ LastChance(k, b)' = LastChance(k, b)
    BY DEF LastChance
  <2>2. LastChance(k, b) \in Int
    BY <1>1, Constants DEF LastChance
  <2>3. since'[b] # clock
    BY <1>1, <2>1, <2>2
  <2>4. AllAccounted(k, b)
    BY <2>1, <2>3 DEF IInv, DueRemindersGoOut, AllAccounted
  <2> QED BY <1>2, <2>4
<1> QED BY <1>3, <1>4, <1>5 DEF IInv

\* The flags stay sound when no row with a flag is moved to another time, and
\* the copies are either old or taken from the flags.
LEMMA FlagsStable ==
  ASSUME IInv, UNCHANGED <<sweep, enqueued, lost, clock>>, RowsExist',
         hold' \in [Handler -> Row], \A b \in Booking : status[b] # "none" => start'[b] = start[b],
         \A k \in Kind, b \in Booking : sent'[k][b] =>
           \/ sent[k][b]
           \/ \E h \in Handler : hold[h].id = b /\ b # NoBooking /\ Flag(h, k),
         \A h \in Handler, k \in Kind : hold'[h].id # NoBooking /\ Flag(h, k)' =>
           \/ hold'[h] = hold[h]
           \/ sent[k][hold'[h].id]
  PROVE  FlagsOK'
<1>1. /\ FlagsOK /\ RowsExist
      /\ \A h \in Handler : hold[h].id \in Booking \cup {NoBooking}
  BY RowFields DEF IInv, TypeOK
<1>2. ASSUME NEW k \in Kind, NEW b \in Booking, status[b] # "none", Settled(k, b)
      PROVE  Settled(k, b)'
  <2>1. AllAccounted(k, b)' <=> AllAccounted(k, b)
    BY AccountedUnchanged
  <2>2. Missed(k, b, clock)' <=> Missed(k, b, clock)
    BY <1>2 DEF Missed
  <2> QED BY <1>2, <2>1, <2>2 DEF Settled
<1>3. ASSUME NEW k \in Kind, NEW b \in Booking, sent[k][b] PROVE Settled(k, b)'
  BY <1>1, <1>2, <1>3 DEF FlagsOK, RowsExist
<1>4. ASSUME NEW h \in Handler, NEW k \in Kind, hold[h].id # NoBooking, Flag(h, k),
             NEW b \in Booking, b = hold[h].id
      PROVE  Settled(k, b)'
  BY <1>1, <1>2, <1>4 DEF FlagsOK, RowsExist
<1>5. ASSUME NEW k \in Kind, NEW b \in Booking, sent'[k][b] PROVE Settled(k, b)'
  BY <1>3, <1>4, <1>5
<1>6. ASSUME NEW h \in Handler, NEW k \in Kind, hold'[h].id # NoBooking, Flag(h, k)'
      PROVE  Settled(k, hold[h].id)'
  <2>1. PICK b \in Booking : b = hold'[h].id
    BY <1>6, RowFields
  <2>2. Settled(k, b)'
    <3>1. CASE hold'[h] = hold[h]
      BY <1>4, <1>6, <2>1, <3>1 DEF Flag
    <3>2. CASE sent[k][b]
      BY <1>3, <3>2
    <3> QED BY <1>6, <2>1, <3>1, <3>2
  <2> QED BY <2>1, <2>2 DEF Settled, AllAccounted, Accounted, Owes, Missed
<1> QED BY <1>5, <1>6 DEF FlagsOK

\* Mails stay single when a flag that falls is recorded.
LEMMA OnceUnderWrites ==
  ASSUME IInv, UNCHANGED <<sweep, enqueued>>, overwritten \subseteq overwritten',
         \A k \in Kind, b \in Booking :
           sent[k][b] => sent'[k][b] \/ <<k, b>> \in overwritten'
  PROVE  \A k \in Kind, b \in Booking, p \in Person : Once(k, b, p)'
<1> SUFFICES ASSUME NEW k \in Kind, NEW b \in Booking, NEW p \in Person,
                    <<k, b>> \notin overwritten'
             PROVE  Once(k, b, p)'
  BY DEF Once
<1>1. Once(k, b, p) /\ <<k, b>> \notin overwritten
  BY DEF IInv
<1>2. \A v \in Sweeper : Owes(v, k, b, p)' <=> Owes(v, k, b, p)
  BY DEF Owes
<1> QED BY <1>1, <1>2 DEF Once

LEMMA BookStep ==
  ASSUME IInv, NEW b \in Booking, NEW t \in Start, Book(b, t)
  PROVE  IInv'
<1>1. t \in Nat /\ TypeOK
  BY Constants DEF IInv
<1>2. TypeOK'
  BY <1>1 DEF Book, TypeOK, Status
<1>3. RowsExist'
  BY <1>1 DEF IInv, Book, RowsExist, TypeOK
<1>4. FlagsOK'
  BY <1>1, <1>3, FlagsStable DEF Book, TypeOK
<1>5. \A k \in Kind, c \in Booking, p \in Person : Once(k, c, p)'
  BY OnceUnderWrites DEF Book
<1>6. \A c \in Booking : status'[c] = "confirmed" =>
        /\ start'[c] = start[c] /\ created'[c] = created[c]
        /\ status[c] = "confirmed" /\ since'[c] = since[c]
  BY <1>1 DEF Book, TypeOK
<1> QED BY <1>2, <1>3, <1>4, <1>5, <1>6, RowStep DEF Book

LEMMA ReadStep ==
  ASSUME IInv, NEW h \in Handler, NEW b \in Booking, Read(h, b)
  PROVE  IInv'
<1>1. TypeOK /\ b # NoBooking
  BY Constants DEF IInv
<1>2. PICK st \in Outcome(status[b]) : hold' = [hold EXCEPT ![h] =
        [id |-> b, status |-> st, day |-> sent["day"][b], hour |-> sent["hour"][b]]]
  BY DEF Read
<1>3. st \in Status \ {"none"} /\ status[b] # "none"
  BY <1>2 DEF Outcome
<1> DEFINE r == [id |-> b, status |-> st, day |-> sent["day"][b], hour |-> sent["hour"][b]]
<1>4. sent["day"][b] \in BOOLEAN /\ sent["hour"][b] \in BOOLEAN
  BY <1>1 DEF TypeOK, Kind
<1>5. /\ r \in Row /\ r.id = b /\ r.status = st
      /\ r.day = sent["day"][b] /\ r.hour = sent["hour"][b]
  BY <1>3, <1>4 DEF Row
<1>6. hold' = [hold EXCEPT ![h] = r]
  BY <1>2
<1> HIDE DEF r
<1>7. /\ hold' \in [Handler -> Row] /\ hold'[h] = r
      /\ \A g \in Handler \ {h} : hold'[g] = hold[g]
  BY <1>1, <1>5, <1>6 DEF TypeOK
<1>8. TypeOK'
  BY <1>1, <1>7 DEF Read, TypeOK
<1>9. RowsExist'
  BY <1>3, <1>5, <1>7 DEF IInv, Read, RowsExist
<1>10. \A g \in Handler, k \in Kind : hold'[g].id # NoBooking /\ Flag(g, k)' =>
         hold'[g] = hold[g] \/ sent[k][hold'[g].id]
  BY <1>5, <1>7 DEF Flag, Kind
<1>11. FlagsOK'
  BY <1>7, <1>9, <1>10, FlagsStable DEF Read
<1>12. \A k \in Kind, c \in Booking, p \in Person : Once(k, c, p)'
  BY OnceUnderWrites DEF Read
<1> QED BY <1>8, <1>9, <1>11, <1>12, RowStep DEF Read

LEMMA SaveStep ==
  ASSUME IInv, NEW h \in Handler, Save(h)
  PROVE  IInv'
<1>1. PICK b \in Booking : b = hold[h].id /\ b # NoBooking
  BY RowFields, Constants DEF IInv, TypeOK, Save
<1>2. /\ TypeOK /\ hold[h].status \in Status \ {"none"} /\ status[b] # "none"
      /\ hold[h].day \in BOOLEAN /\ hold[h].hour \in BOOLEAN
  BY <1>1, RowFields DEF IInv, TypeOK, RowsExist
<1>3. /\ sent' \in [Kind -> [Booking -> BOOLEAN]]
      /\ \A k \in Kind, c \in Booking :
           sent'[k][c] = IF c = b THEN Flag(h, k) ELSE sent[k][c]
  BY <1>1, <1>2 DEF Save, TypeOK, Flag
<1>4. overwritten' = overwritten \cup {kb \in Kind \X {b} : sent[kb[1]][b] /\ ~Flag(h, kb[1])}
  BY <1>1 DEF Save, Flag
<1>5. overwritten' \subseteq Kind \X Booking
  BY <1>2, <1>4 DEF TypeOK
<1>6. NoRow \in Row /\ NoRow.id = NoBooking
  BY DEF NoRow, Row, Status
<1>7. /\ hold' \in [Handler -> Row] /\ hold'[h] = NoRow
      /\ \A g \in Handler \ {h} : hold'[g] = hold[g]
  BY <1>2, <1>6 DEF Save, TypeOK
<1>8. /\ status' \in [Booking -> Status]
      /\ \A c \in Booking : status'[c] = IF c = b THEN hold[h].status ELSE status[c]
  BY <1>1, <1>2 DEF Save, TypeOK
<1>9. /\ since' \in [Booking -> Nat]
      /\ \A c \in Booking : since'[c] =
           IF c = b /\ hold[h].status = "confirmed" /\ status[b] # "confirmed"
             THEN clock ELSE since[c]
  BY <1>1, <1>2 DEF Save, TypeOK
<1>10. TypeOK'
  BY <1>2, <1>3, <1>5, <1>7, <1>8, <1>9 DEF Save, TypeOK
<1>11. RowsExist'
  BY <1>2, <1>3, <1>6, <1>7, <1>8 DEF IInv, Save, RowsExist
<1>12. FlagsOK'
  BY <1>1, <1>3, <1>6, <1>7, <1>11, FlagsStable DEF Save
<1>13. \A k \in Kind, c \in Booking : sent[k][c] => sent'[k][c] \/ <<k, c>> \in overwritten'
  BY <1>3, <1>4
<1>14. \A k \in Kind, c \in Booking, p \in Person : Once(k, c, p)'
  BY <1>4, <1>13, OnceUnderWrites DEF Save
<1>15. \A c \in Booking : status'[c] = "confirmed" =>
         (status[c] = "confirmed" /\ since'[c] = since[c]) \/ since'[c] = clock
  BY <1>8, <1>9
<1> QED BY <1>10, <1>11, <1>12, <1>14, <1>15, RowStep DEF Save

LEMMA AbandonStep ==
  ASSUME IInv, NEW h \in Handler, Abandon(h)
  PROVE  IInv'
<1>1. TypeOK /\ NoRow \in Row /\ NoRow.id = NoBooking
  BY DEF IInv, NoRow, Row, Status
<1>2. /\ hold' \in [Handler -> Row] /\ hold'[h] = NoRow
      /\ \A g \in Handler \ {h} : hold'[g] = hold[g]
  BY <1>1 DEF Abandon, TypeOK
<1>3. TypeOK'
  BY <1>1, <1>2 DEF Abandon, TypeOK
<1>4. RowsExist'
  BY <1>1, <1>2 DEF IInv, Abandon, RowsExist
<1>5. FlagsOK'
  BY <1>1, <1>2, <1>4, FlagsStable DEF Abandon
<1>6. \A k \in Kind, c \in Booking, p \in Person : Once(k, c, p)'
  BY OnceUnderWrites DEF Abandon
<1> QED BY <1>3, <1>4, <1>5, <1>6, RowStep DEF Abandon

LEMMA ExpireStep ==
  ASSUME IInv, NEW b \in Booking, Expire(b)
  PROVE  IInv'
<1>1. TypeOK
  BY DEF IInv
<1>2. TypeOK'
  BY <1>1 DEF Expire, TypeOK, Status
<1>3. \A c \in Booking : status'[c] = IF c = b THEN "expired" ELSE status[c]
  BY <1>1 DEF Expire, TypeOK
<1>4. RowsExist'
  BY <1>3 DEF IInv, Expire, RowsExist
<1>5. FlagsOK'
  BY <1>1, <1>4, FlagsStable DEF Expire, TypeOK
<1>6. \A k \in Kind, c \in Booking, p \in Person : Once(k, c, p)'
  BY OnceUnderWrites DEF Expire
<1> QED BY <1>2, <1>3, <1>4, <1>5, <1>6, RowStep DEF Expire

\* The clock moves on only when a sweep of this tick has done all that pressed.
LEMMA TickStep ==
  ASSUME IInv, Tick
  PROVE  IInv'
<1>1. /\ TypeOK /\ clock \in Nat /\ clock' = clock + 1 /\ swept /\ ~swept'
      /\ \A w \in Sweeper : sweep[w].now \in Nat /\ sweep[w].now <= clock
  BY SweepFields DEF IInv, TypeOK, Tick, RowsExist
<1>2. TypeOK'
  <2>1. clock' \in Nat
    BY <1>1
  <2>4. swept' \in BOOLEAN
    BY DEF Tick
  <2>2. UNCHANGED <<status, start, created, sent, sweep, hold, enqueued, crashes, lost, since,
                    overwritten>>
    BY DEF Tick
  <2>3. TypeOK
    BY <1>1
  <2> QED BY <2>1, <2>2, <2>3, <2>4 DEF TypeOK
<1>3. RowsExist'
  BY <1>1 DEF IInv, Tick, RowsExist
<1>4. \A k \in Kind, b \in Booking : AllAccounted(k, b)' <=> AllAccounted(k, b)
  BY AccountedUnchanged DEF Tick
<1>5. \A k \in Kind, b \in Booking : Settled(k, b) => Settled(k, b)'
  <2> TAKE k \in Kind, b \in Booking
  <2>1. start[b] \in Nat /\ start' = start
    BY <1>1 DEF TypeOK, Tick
  <2>2. Missed(k, b, clock) => Missed(k, b, clock)'
    BY <1>1, <2>1, Constants DEF Missed
  <2> QED BY <1>4, <2>2 DEF Settled
<1>6. FlagsOK'
  <2>1. \A h \in Handler : hold[h].id # NoBooking => hold[h].id \in Booking
    BY <1>1, RowFields DEF TypeOK
  <2>2. hold' = hold /\ sent' = sent
    BY DEF Tick
  <2>3. ASSUME NEW h \in Handler, NEW k \in Kind, hold[h].id # NoBooking, Flag(h, k)
        PROVE  Settled(k, hold[h].id)'
    <3>1. Settled(k, hold[h].id)
      BY <2>3 DEF IInv, FlagsOK
    <3> QED BY <1>5, <2>1, <2>2, <2>3, <3>1
  <2> QED BY <1>5, <2>2, <2>3 DEF IInv, FlagsOK, Flag
<1>7. \A k \in Kind, b \in Booking, p \in Person : Once(k, b, p)'
  BY OnceUnderWrites DEF Tick
<1>8. \A w \in Sweeper : SweepOK(w)'
  <2>1. \A w \in Sweeper : sweep'[w].now # clock'
    BY <1>1 DEF Tick
  <2> QED BY <2>1 DEF SweepOK
<1>9. SweptOK'
  BY <1>1 DEF SweptOK
<1>10. DueRemindersGoOut'
  <2> SUFFICES ASSUME NEW k \in Kind, NEW b \in Booking, status[b] = "confirmed",
                      k = "day" => created[b] <= start[b] - DayMid,
                      since[b] < LastChance(k, b), LastChance(k, b) < clock + 1
               PROVE  AllAccounted(k, b)
    BY <1>1, <1>4 DEF Tick, DueRemindersGoOut, AllAccounted, LastChance
  <2>1. start[b] \in Nat /\ created[b] \in Nat /\ since[b] \in Nat
    BY <1>1 DEF TypeOK
  <2>2. LastChance(k, b) \in Int
    BY <2>1, Constants DEF LastChance
  <2>3. CASE LastChance(k, b) < clock
    BY <2>3 DEF IInv, DueRemindersGoOut, AllAccounted
  <2>4. CASE LastChance(k, b) = clock
    <3>1. Due(k, b, clock)
      BY <1>1, <2>1, <2>4, Constants DEF LastChance, Due
    <3> QED BY <1>1, <2>4, <3>1 DEF IInv, SweptOK, Pressing
  <2> QED BY <1>1, <2>2, <2>3, <2>4
<1> QED BY <1>2, <1>3, <1>6, <1>7, <1>8, <1>9, <1>10 DEF IInv

-----------------------------------------------------------------------------
(* The theorems.                                                           *)

LEMMA InitIInv == Init => IInv
<1> SUFFICES ASSUME Init PROVE IInv
  OBVIOUS
<1>1. TypeOK
  BY InitType
<1>2. /\ \A w \in Sweeper : /\ sweep[w].pc = "idle" /\ sweep[w].now = 0
                            /\ sweep[w].ids = {}
      /\ \A h \in Handler : hold[h].id = NoBooking
  BY DEF Init, NoSweep, NoRow
<1>3. RowsExist
  <2>1. /\ \A h \in Handler : hold[h].id # NoBooking =>
             status[hold[h].id] # "none" /\ hold[h].status # "none"
        /\ \A w \in Sweeper : sweep[w].pc \in Person => sweep[w].id # NoBooking
        /\ \A w \in Sweeper : \A b \in sweep[w].ids : status[b] # "none"
    BY <1>2 DEF Person
  <2>2. \A w \in Sweeper : sweep[w].now <= clock
    BY <1>2 DEF Init
  <2>3. \A k \in Kind, b \in Booking : sent[k][b] => status[b] # "none"
    BY DEF Init
  <2> QED BY <2>1, <2>2, <2>3 DEF RowsExist
<1>4. \A k \in Kind, b \in Booking, p \in Person : Once(k, b, p)
  <2> TAKE k \in Kind, b \in Booking, p \in Person
  <2>1. <<k, b, p>> \in Mail
    BY DEF Mail
  <2>2. enqueued[<<k, b, p>>] = 0
    BY <2>1 DEF Init
  <2>3. \A w \in Sweeper : ~Owes(w, k, b, p)
    BY <1>2, NothingOwed DEF Person
  <2> QED BY <2>2, <2>3 DEF Once
<1>5. FlagsOK
  BY <1>2 DEF Init, FlagsOK
<1>6. (\A w \in Sweeper : SweepOK(w)) /\ SweptOK
  BY <1>2 DEF Init, SweepOK, SweptOK
<1>7. DueRemindersGoOut
  <2> SUFFICES ASSUME NEW k \in Kind, NEW b \in Booking,
                      since[b] < LastChance(k, b), LastChance(k, b) < clock
               PROVE  FALSE
    BY DEF DueRemindersGoOut
  <2>1. since[b] = 0 /\ clock = 0 /\ start[b] \in Nat
    BY <1>1 DEF Init, TypeOK
  <2> QED BY <2>1, Constants DEF LastChance
<1> QED BY <1>1, <1>3, <1>4, <1>5, <1>6, <1>7 DEF IInv

LEMMA NextIInv == IInv /\ [Next]_vars => IInv'
<1> SUFFICES ASSUME IInv, [Next]_vars PROVE IInv'
  OBVIOUS
<1>1. ASSUME NEW b \in Booking, NEW t \in Start, Book(b, t) PROVE IInv'
  BY <1>1, BookStep
<1>2. ASSUME NEW h \in Handler, NEW b \in Booking, Read(h, b) PROVE IInv'
  BY <1>2, ReadStep
<1>3. ASSUME NEW h \in Handler, Save(h) \/ Abandon(h) PROVE IInv'
  BY <1>3, SaveStep, AbandonStep
<1>4. ASSUME NEW b \in Booking, Expire(b) PROVE IInv'
  BY <1>4, ExpireStep
<1>5. ASSUME NEW w \in Sweeper,
             Begin(w) \/ Mark(w) \/ Select(w) \/ Claim(w) \/ Enqueue(w) \/ Finish(w) \/ Crash(w)
      PROVE  IInv'
  BY <1>5, BeginStep, MarkStep, SelectStep, ClaimStep, EnqueueStep, FinishStep, CrashStep
<1>6. CASE Tick
  BY <1>6, TickStep
<1>7. CASE UNCHANGED vars
  BY <1>7 DEF vars, IInv, TypeOK, RowsExist, Once, FlagsOK, SweepOK, SweptOK, DueRemindersGoOut,
              Settled, AllAccounted, Accounted, Owes, Pressing, Due, Missed, Flag, LastChance
<1> QED BY <1>1, <1>2, <1>3, <1>4, <1>5, <1>6, <1>7 DEF Next

\* The inductive invariant holds of every reachable state.
THEOREM Invariance == Spec => []IInv
BY InitIInv, NextIInv, PTL DEF Spec

\* Every variable stays in its type, for any number of rows, workers and crashes.
THEOREM TypeCorrect == Spec => []TypeOK
<1>1. IInv => TypeOK
  BY DEF IInv
<1> QED BY <1>1, Invariance, PTL

\* The conditional claim: however sweeps overlap and die, a reminder is enqueued
\* twice only if a handler's whole-row save reset its flag.
THEOREM ClaimsAreExclusive == Spec => []DuplicateOnlyAfterOverwrite
<1>1. IInv => DuplicateOnlyAfterOverwrite
  <2> SUFFICES ASSUME IInv, NEW k \in Kind, NEW b \in Booking, NEW p \in Person,
                      enqueued[<<k, b, p>>] > 1
               PROVE  <<k, b>> \in overwritten
    BY DEF DuplicateOnlyAfterOverwrite
  <2>1. <<k, b, p>> \in Mail
    BY DEF Mail
  <2>2. enqueued[<<k, b, p>>] \in 0 .. 2
    BY <2>1 DEF IInv, TypeOK
  <2> QED BY <2>2 DEF IInv, Once
<1> QED BY <1>1, Invariance, PTL

\* With punctual sweeps, no reminder that is due is forgotten except by the
\* sweep that died holding it.
THEOREM NothingDueIsForgotten == Spec => []DueRemindersGoOut
<1>1. IInv => DueRemindersGoOut
  BY DEF IInv
<1> QED BY <1>1, Invariance, PTL
=============================================================================
