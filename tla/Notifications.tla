---------------------------- MODULE Notifications ----------------------------
(***************************************************************************)
(* The notifications of one teacher: what the handlers of a booking insert *)
(* and mark as read inside their transactions, what they push to the       *)
(* teacher's sockets after the commit, and what each open tab shows: the   *)
(* dropdown, the bell's count and the count of lesson requests.            *)
(*                                                                         *)
(* A booking is its status together with cancellation_requested.  A lesson *)
(* whose student has asked to cancel is "withdrawing" while it is pending  *)
(* and "asked" once confirmed; "overtaken" is one that was cancelled, held *)
(* or expired with that request still open; "cancelled" one the teacher    *)
(* closed without answering anything; "settled" one that waits for nothing.*)
(* Left out: the student's notifications, which take the same path, toasts *)
(* and wording, and the chat count, which Chat has.                        *)
(***************************************************************************)
EXTENDS Integers, Sequences, SequencesExt, FiniteSets

CONSTANTS
  Booking,  \* bookings of the teacher
  NoBooking,
  Tab,      \* browser tabs of the teacher
  NoTab,    \* a page of the teacher elsewhere
  Worker,   \* what runs a request, or the sweep
  Cap,      \* items the dropdown shows
  MaxNotes, \* bound: ids
  Site      \* instances: whether handlers run one at a time, whether transactions,
            \* sockets, answers and broadcasts can be lost, the bound of the ids drawn, and
            \* the bookings, tabs and handlers of a booking that are used

\* What a notification says of a booking, and what handles one: the first three tell of it.
Kind == {"requested", "cancellation", "expired"}
Handled == Kind \cup {"cancel", "accept", "decline"}

ASSUME NobodyAssumption == NoBooking \notin Booking /\ NoTab \notin Tab
ASSUME BookingAssumption == IsFiniteSet(Booking)
ASSUME BoundAssumption ==
  /\ Cap \in Nat \ {0} /\ MaxNotes \in Nat
  /\ Site \subseteq [serial : BOOLEAN, faults : BOOLEAN, notes : 0 .. MaxNotes,
               bookings : SUBSET Booking, tabs : SUBSET Tab, handlers : SUBSET Handled]

VARIABLES
  site,    \* the instance this behaviour runs in
  booking, \* booking -> its state
  note,    \* id -> the committed notification
  drawn,   \* ids drawn so far
  tab,     \* tab -> the page in it
  down,    \* tab -> frames on their way to the page's socket
  missed,  \* tab -> whether something changed since it was served that it was not told
  blurred, \* tab -> whether, since its count of requests was fetched, it was told of a lesson
           \* that is pending and asked to be cancelled: two requests, and one in the list
           \* (both kept only where handlers run one at a time, as nothing else depends on them)
  req      \* worker -> where its request is

vars == <<site, booking, note, drawn, tab, down, missed, blurred, req>>

Id == 1 .. MaxNotes
State == {"none", "pending", "withdrawing", "confirmed", "asked", "overtaken", "cancelled", "settled"}

\* What the requests modal lists: pending, or with a cancellation request.
Open == {"pending", "withdrawing", "asked", "overtaken"}
Awaiting(b) == booking[b] \in Open
Requests == Cardinality({b \in Booking : Awaiting(b)})

NoNote == [state |-> "none", kind |-> "requested", of |-> NoBooking]
Stored == {n \in Id : note[n].state # "none"}
Unread == {n \in Id : note[n].state = "unread"}

NoPage == [open |-> FALSE, items |-> <<>>, fresh |-> {}, badge |-> 0, requests |-> 0,
           link |-> "closed"]
Idle == [pc |-> "idle", kind |-> "load", of |-> NoBooking, state |-> "none", by |-> NoTab,
         id |-> 0, ids |-> {}, items |-> <<>>, count |-> 0, requests |-> 0]

Start(w, r) ==
  /\ req[w].pc = "idle"
  /\ site.serial => /\ \A v \in Worker : req[v].pc = "idle"
                    /\ \A t \in Tab : down[t] = <<>>
  /\ req' = [req EXCEPT ![w] = r]

Goto(w, pc) == req' = [req EXCEPT ![w].pc = pc]
Done(w) == req' = [req EXCEPT ![w] = Idle]

\* The row lock of a booking: held from the write to the commit.
Unlocked(w) == \A v \in Worker \ {w} : ~(req[v].pc = "commit" /\ req[v].of = req[w].of)

-----------------------------------------------------------------------------
(* The page.                                                               *)

\* Mutant: an item that is there already is prepended again.
PrependTwice(items, n) ==
  SubSeq(<<n>> \o items, 1, IF Len(items) < Cap THEN Len(items) + 1 ELSE Cap)

\* Mutant: the list grows.
PrependUncapped(items, n) == IF n \in Range(items) THEN items ELSE <<n>> \o items

\* prependNotificationItem: first, once, and no more than Cap items.
Prepend(items, n) ==
  IF n \in Range(items) THEN items
  ELSE SubSeq(<<n>> \o items, 1, IF Len(items) < Cap THEN Len(items) + 1 ELSE Cap)

\* updateUnreadCount
ShowCount(p, count) == [p EXCEPT !.badge = count]

\* Mutant: a read event clears the whole list.
ShowAllRead(p, ids, count) == [ShowCount(p, count) EXCEPT !.fresh = {}]

\* handleNotificationReadEvent: the count is taken over, the items lose their dot.
ShowRead(p, ids, count) == [ShowCount(p, count) EXCEPT !.fresh = @ \ ids]

AtLeastZero(n) == IF n < 0 THEN 0 ELSE n

\* handleLessonRequestNotification
CountRequest(p, kind) ==
  [p EXCEPT !.requests = AtLeastZero(IF kind = "expired" THEN @ - 1 ELSE @ + 1)]

\* A frame of kind notification_message.
ShowNew(p, n, count) ==
  LET items == Prepend(p.items, n)
      fresh == IF n \in Range(p.items) THEN p.fresh ELSE p.fresh \cup {n}
  IN CountRequest([ShowCount(p, count) EXCEPT !.items = items,
                                             !.fresh = fresh \cap Range(items)],
                  note[n].kind)

Receive(t) ==
  /\ down[t] # <<>> /\ tab[t].link = "joined"
  /\ tab' = [tab EXCEPT ![t] =
       LET f == Head(down[t])
       IN IF f.id # 0 THEN ShowNew(@, f.id, f.count) ELSE ShowRead(@, f.ids, f.count)]
  /\ down' = [down EXCEPT ![t] = Tail(@)]
  /\ UNCHANGED <<site, booking, note, drawn, missed, blurred, req>>

\* The socket opens; nothing is asked on it.
Connect(t) ==
  /\ tab[t].open /\ tab[t].link = "closed"
  /\ tab' = [tab EXCEPT ![t].link = "open"]
  /\ UNCHANGED <<site, booking, note, drawn, down, missed, blurred, req>>

\* The consumer has accepted; group_add succeeds, or fails and is logged.
Join(t) ==
  /\ tab[t].link = "open"
  /\ \E joined \in IF site.faults THEN BOOLEAN ELSE {TRUE} :
       tab' = [tab EXCEPT ![t].link = IF joined THEN "joined" ELSE "deaf"]
  /\ UNCHANGED <<site, booking, note, drawn, down, missed, blurred, req>>

\* The socket is lost with what was on its way; the page connects again.
Disconnect(t) ==
  /\ site.faults /\ tab[t].link # "closed"
  /\ tab' = [tab EXCEPT ![t].link = "closed"]
  /\ missed' = [missed EXCEPT ![t] = @ \/ down[t] # <<>>]
  /\ down' = [down EXCEPT ![t] = <<>>]
  /\ UNCHANGED <<site, booking, note, drawn, blurred, req>>

\* The modal's list is fetched, and its length is the count of requests.  (Bound: only where
\* handlers run one at a time, as nothing else depends on the count.)
OpenRequests(t) ==
  /\ tab[t].open /\ site.serial
  /\ down[t] = <<>> /\ \A w \in Worker : req[w].pc = "idle"
  /\ tab' = [tab EXCEPT ![t].requests = Requests]
  /\ blurred' = [blurred EXCEPT ![t] = FALSE]
  /\ UNCHANGED <<site, booking, note, drawn, down, missed, req>>

-----------------------------------------------------------------------------
(* Requests: the read they decide on.                                      *)

Load(w, t) ==
  /\ Start(w, [Idle EXCEPT !.pc = "read", !.by = t])
  /\ UNCHANGED <<site, booking, note, drawn, tab, down, missed, blurred>>

\* A click on an item with a dot takes the dot away and posts.
MarkOne(w, t, n) ==
  /\ tab[t].open /\ n \in tab[t].fresh
  /\ Start(w, [Idle EXCEPT !.pc = "write", !.kind = "one", !.by = t, !.id = n])
  /\ tab' = [tab EXCEPT ![t].fresh = @ \ {n}]
  /\ UNCHANGED <<site, booking, note, drawn, down, missed, blurred>>

\* "Mark all as read" clears the dots and the count and posts.
MarkAll(w, t) ==
  /\ t # NoTab => tab[t].open
  /\ Start(w, [Idle EXCEPT !.pc = "write", !.kind = "all", !.by = t])
  /\ tab' = IF t = NoTab THEN tab ELSE [tab EXCEPT ![t].fresh = {}, ![t].badge = 0]
  /\ UNCHANGED <<site, booking, note, drawn, down, missed, blurred>>

\* A handler of a booking in one of the states reads it.
Handle(w, kind, b, t, states) ==
  /\ kind \in site.handlers /\ booking[b] \in states
  /\ Start(w, [Idle EXCEPT !.pc = "lock", !.kind = kind, !.of = b, !.state = booking[b], !.by = t])
  /\ UNCHANGED <<site, booking, note, drawn, tab, down, missed, blurred>>

\* book_slot, request_cancellation, respond_to_booking (which looks at the status only where
\* nothing is asked), cancel_lesson, and the sweep that expires requests.  complete_lesson
\* and mark_lesson_not_held, too, close a confirmed lesson and leave what was asked.
Request(w, b) == drawn < site.notes /\ Handle(w, "requested", b, NoTab, {"none"})
Ask(w, b) == drawn < site.notes /\ Handle(w, "cancellation", b, NoTab, {"pending", "confirmed"})
Respond(w, t, b) ==
  /\ t # NoTab => tab[t].open
  /\ \E kind \in {"accept", "decline"} : Handle(w, kind, b, t, Open)
CancelLesson(w, b) ==
  Handle(w, "cancel", b, NoTab, {"pending", "withdrawing", "confirmed", "asked"})
Expire(w, b) == drawn < site.notes /\ Handle(w, "expired", b, NoTab, {"pending", "withdrawing"})

-----------------------------------------------------------------------------
(* Requests: the transaction.                                              *)

\* Mutant: an answer marks what announced the booking, not what asked to cancel it.
MarkedKindsFirst(kind) == IF kind \in {"accept", "decline", "expired"} THEN {"requested"} ELSE {}

\* mark_booking_requests_read, and the same call at an expiry.
MarkedKinds(kind) ==
  CASE kind \in {"accept", "decline"} -> {"requested", "cancellation"}
    [] kind = "expired" -> {"requested"}
    [] OTHER -> {}

\* What is written over the booking read in state s.
Outcome(kind, s) ==
  CASE kind = "requested" -> "pending"
    [] kind = "cancellation" -> IF s = "pending" THEN "withdrawing" ELSE "asked"
    [] kind = "expired" -> IF s = "pending" THEN "settled" ELSE "overtaken"
    [] kind = "cancel" -> IF s \in {"withdrawing", "asked"} THEN "overtaken" ELSE "cancelled"
    [] kind = "accept" -> IF s = "pending" THEN "confirmed" ELSE "settled"
    [] kind = "decline" ->
         CASE s = "withdrawing" -> "pending" [] s = "asked" -> "confirmed" [] OTHER -> "settled"

\* Where one of a lesson's two requests comes or goes, and the list keeps its one entry.
OneOfTwo(kind, s) ==
  \/ kind = "cancellation" /\ s = "pending"
  \/ kind \in {"expired", "decline"} /\ s = "withdrawing"

Inserts(kind) == kind \in Kind

\* Mutant: the count is taken before the update.
LeftTooMany(ids, new) == Cardinality(Unread) + new

\* What is unread to the transaction once it has marked ids and inserted new rows.
Left(ids, new) == Cardinality(Unread \ ids) + new

\* The booking's row is locked by its update, a notification inserted, others marked and
\* the rest counted; the sweep takes only what is still pending (and what was asked to be
\* cancelled since it began, as if it had begun later).
Lock(w) ==
  LET r == req[w]
      new == IF Inserts(r.kind) THEN 1 ELSE 0
      ids == {n \in Unread : note[n].of = r.of /\ note[n].kind \in MarkedKinds(r.kind)}
  IN /\ r.pc = "lock" /\ Unlocked(w)
     /\ IF \/ r.kind \in {"requested", "expired"} /\ booking[r.of] # r.state
           \/ drawn + new > site.notes
          THEN Done(w) /\ UNCHANGED drawn
          ELSE /\ req' = [req EXCEPT ![w].pc = "commit", ![w].ids = ids,
                            ![w].id = IF new = 1 THEN drawn + 1 ELSE 0,
                            ![w].count = Left(ids, new)]
               /\ drawn' = drawn + new
     /\ UNCHANGED <<site, booking, note, tab, down, missed, blurred>>

Commit(w) ==
  LET r == req[w]
  IN /\ r.pc = "commit"
     /\ booking' = [booking EXCEPT ![r.of] = Outcome(r.kind, r.state)]
     /\ note' = [n \in Id |->
          IF n = r.id THEN [state |-> "unread", kind |-> r.kind, of |-> r.of]
          ELSE IF n \in r.ids THEN [note[n] EXCEPT !.state = "read"] ELSE note[n]]
     /\ missed' = [t \in Tab |->
          missed[t] \/ (r.kind \in {"cancel", "accept", "decline"} /\ r.by # t)]
     /\ blurred' = [t \in Tab |->
          blurred[t] \/ (site.serial /\ tab[t].open /\ OneOfTwo(r.kind, r.state))]
     /\ req' = [req EXCEPT ![w].pc = IF Inserts(r.kind) THEN "count" ELSE "tell",
                          ![w].of = NoBooking, ![w].state = "none"]
     /\ UNCHANGED <<site, drawn, tab, down>>

\* The transaction is rolled back, or its worker lost.
RollBack(w) ==
  /\ site.faults /\ req[w].pc = "commit"
  /\ Done(w)
  /\ UNCHANGED <<site, booking, note, drawn, tab, down, missed, blurred>>

-----------------------------------------------------------------------------
(* Requests: after the commit, or without a transaction.                   *)

\* group_send: to the sockets in the group, or, failing, to none.
Broadcast(frame) ==
  \E lost \in IF site.faults THEN BOOLEAN ELSE {FALSE} :
    LET told == {t \in Tab : ~lost /\ tab[t].link = "joined"}
    IN /\ down' = [t \in Tab |-> IF t \in told THEN Append(down[t], frame) ELSE down[t]]
       /\ missed' = [t \in Tab |-> missed[t] \/ t \notin told]

\* create_and_send_notification's on_commit counts ...
Count(w) ==
  /\ req[w].pc = "count"
  /\ req' = [req EXCEPT ![w].pc = "push", ![w].items = <<Cardinality(Unread)>>]
  /\ UNCHANGED <<site, booking, note, drawn, tab, down, missed, blurred>>

\* ... and sends.
Push(w) ==
  /\ req[w].pc = "push"
  /\ Broadcast([id |-> req[w].id, ids |-> {}, count |-> Head(req[w].items)])
  /\ Goto(w, "tell")
  /\ UNCHANGED <<site, booking, note, drawn, tab, blurred>>

\* mark_booking_notifications_as_read's on_commit sends the count of the transaction.
Tell(w) ==
  /\ req[w].pc = "tell"
  /\ IF req[w].ids = {} THEN UNCHANGED <<down, missed>>
     ELSE Broadcast([id |-> 0, ids |-> req[w].ids, count |-> req[w].count])
  /\ IF req[w].by = NoTab THEN Done(w) ELSE Goto(w, "answer")
  /\ UNCHANGED <<site, booking, note, drawn, tab, blurred>>

\* mark_notification_read and mark_all_notifications_read: other tabs are not told.  A click
\* leads to another page, whatever count it was answered.
Write(w) ==
  LET r == req[w]
      ids == IF r.kind = "one" THEN {r.id} ELSE Unread
  IN /\ r.pc = "write"
     /\ note' = [n \in Id |-> IF n \in ids THEN [note[n] EXCEPT !.state = "read"] ELSE note[n]]
     /\ missed' = [t \in Tab |-> missed[t] \/ t # r.by]
     /\ req' = [req EXCEPT ![w] = IF r.by = NoTab THEN Idle
          ELSE IF r.kind = "one" THEN [Idle EXCEPT !.pc = "read", !.by = r.by]
          ELSE [r EXCEPT !.pc = "answer"]]
     /\ UNCHANGED <<site, booking, drawn, tab, down, blurred>>

\* The answer is handled by the page: an answered request leaves the modal.
Answer(w) ==
  LET r == req[w]
      p == ShowRead(tab[r.by], r.ids, r.count)
  IN /\ r.pc = "answer"
     /\ tab' = [tab EXCEPT ![r.by] =
          IF r.kind = "all" THEN p ELSE [p EXCEPT !.requests = AtLeastZero(@ - 1)]]
     /\ Done(w)
     /\ UNCHANGED <<site, booking, note, drawn, down, missed, blurred>>

\* The answer, or the page, does not arrive.
Lose(w) ==
  /\ site.faults /\ req[w].pc \in {"write", "answer", "read"} /\ req[w].by # NoTab
  /\ missed' = [missed EXCEPT ![req[w].by] = TRUE]
  /\ Done(w)
  /\ UNCHANGED <<site, booking, note, drawn, tab, down, blurred>>

\* The notifications in ids as the dropdown lists them: the newest first, no more than Cap.
NewestFirst(ids) ==
  [i \in 1 .. (IF Cardinality(ids) < Cap THEN Cardinality(ids) ELSE Cap) |->
     CHOOSE n \in ids : Cardinality({m \in ids : m > n}) = i - 1]

\* notification_context and the dashboard read what a page shows ...
Read(w) ==
  /\ req[w].pc = "read"
  /\ req' = [req EXCEPT ![w].pc = "render", ![w].count = Cardinality(Unread),
               ![w].items = NewestFirst(Stored), ![w].ids = Unread, ![w].requests = Requests]
  /\ missed' = [missed EXCEPT ![req[w].by] = ~site.serial]
  /\ blurred' = [blurred EXCEPT ![req[w].by] = FALSE]
  /\ UNCHANGED <<site, booking, note, drawn, tab, down>>

\* ... which opens with its socket not yet connected.
Render(w) ==
  LET r == req[w]
  IN /\ r.pc = "render"
     /\ tab' = [tab EXCEPT ![r.by] = [open |-> TRUE, items |-> r.items, badge |-> r.count,
          fresh |-> r.ids \cap Range(r.items), requests |-> r.requests, link |-> "closed"]]
     /\ down' = [down EXCEPT ![r.by] = <<>>]
     /\ Done(w)
     /\ UNCHANGED <<site, booking, note, drawn, missed, blurred>>

-----------------------------------------------------------------------------
Init ==
  /\ site \in Site
  /\ booking = [b \in Booking |-> "none"]
  /\ note = [n \in Id |-> NoNote]
  /\ drawn = 0
  /\ tab = [t \in Tab |-> NoPage]
  /\ down = [t \in Tab |-> <<>>]
  /\ missed = [t \in Tab |-> TRUE]
  /\ blurred = [t \in Tab |-> FALSE]
  /\ req = [w \in Worker |-> Idle]

Step(w) ==
  \/ Lock(w) \/ Commit(w) \/ Count(w) \/ Push(w) \/ Tell(w)
  \/ Write(w) \/ Answer(w) \/ Read(w) \/ Render(w)

Next ==
  \/ \E w \in Worker : Step(w) \/ RollBack(w) \/ Lose(w)
  \/ \E w \in Worker, b \in site.bookings :
       \/ Request(w, b) \/ Ask(w, b) \/ CancelLesson(w, b) \/ Expire(w, b)
       \/ \E t \in Tab \cup {NoTab} : Respond(w, t, b)
  \/ \E w \in Worker, t \in Tab \cup {NoTab} : MarkAll(w, t)
  \/ \E w \in Worker, t \in site.tabs : Load(w, t) \/ \E n \in Id : MarkOne(w, t, n)
  \/ \E t \in Tab : Receive(t) \/ Connect(t) \/ Join(t) \/ Disconnect(t) \/ OpenRequests(t)

Spec == Init /\ [][Next]_vars
=============================================================================
