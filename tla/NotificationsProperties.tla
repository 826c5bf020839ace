----------------------- MODULE NotificationsProperties -----------------------
(* What Notifications is checked for. *)
EXTENDS Notifications

Quiet == \A w \in Worker : req[w].pc = "idle"

\* Every variable stays in its type; no page and no frame shows a notification whose
\* transaction has not committed (ADR 7: "to prevent phantom notifications if a transaction
\* rolls back"), and no dropdown has more than Cap items.
TypeOK ==
  /\ site \in Site
  /\ booking \in [Booking -> State]
  /\ note \in [Id -> [state : {"none", "unread", "read"}, kind : Kind,
                      of : Booking \cup {NoBooking}]]
  /\ \A t \in Tab :
       /\ Range(tab[t].items) \subseteq Stored /\ Len(tab[t].items) <= Cap
       /\ tab[t].fresh \subseteq Range(tab[t].items)
       /\ tab[t].badge \in 0 .. drawn
       /\ tab[t].link \in {"closed", "open", "deaf", "joined"}
       /\ \A i \in DOMAIN down[t] : {down[t][i].id} \cup down[t][i].ids \subseteq Stored \cup {0}

\* The dropdown lists no notification twice, although one that is committed before the page
\* is read may be broadcast when its socket has already joined.
ListHasNoTwins == \A t \in Tab : IsInjective(tab[t].items)

\* When nothing is under way and no request was lost, an item shown as read is read:
\* clearing the dots before the answer, a commit in between, and frames that overlap them
\* never hide a notification the teacher has not read.
DimmedIsRead ==
  ~site.faults /\ Quiet =>
    \A t \in Tab : \A n \in Range(tab[t].items) \ tab[t].fresh : note[n].state = "read"

\* A notification that asks for an answer is unread only while its booking waits for one,
\* whatever was asked and answered twice meanwhile: once the last request of a booking is
\* answered, or it has expired with nothing else asked, none is left, and a cancellation
\* request turned down leaves none of its own on a lesson that is still pending.  Two
\* bookings are left out: what cancel_lesson closes keeps its notifications unread
\* ("cancelled", "overtaken"), and so does a request to cancel a pending lesson that then
\* expires: the sweep marks only what announced the lesson, and the request is still listed
\* and can still be answered ("overtaken").
AnsweredIsRead ==
  \A b \in Booking :
    /\ booking[b] \in {"confirmed", "settled"} =>
         \A n \in Unread : note[n].of = b => note[n].kind = "expired"
    /\ booking[b] \in {"none", "pending"} =>
         \A n \in Unread : note[n].of = b => note[n].kind # "cancellation"

\* CONTEXT.md:136: the bell shows the tally of unread notifications, and :140 the request
\* count what awaits the teacher: with handlers one at a time, when nothing is under way, on
\* every page that was told of every change since it was served.  The request count is held
\* to this only until the page is told of a request to cancel a lesson that is still pending,
\* or of such a lesson's expiry, or answers such a request with a no: the page then counts a
\* frame, or an answer, for a lesson that is and stays one entry of the list, and its count
\* is one off until it fetches the list.
CountsAreCurrent ==
  site.serial /\ Quiet =>
    \A t \in Tab :
      tab[t].open /\ ~missed[t] /\ down[t] = <<>> =>
        /\ tab[t].badge = Cardinality(Unread)
        /\ ~blurred[t] => tab[t].requests = Requests

-----------------------------------------------------------------------------
(* The inductive invariant.                                                *)

Frame == [id : 0 .. MaxNotes, ids : SUBSET Id, count : Nat]
Page == [open : BOOLEAN, items : Seq(Id), fresh : SUBSET Id, badge : Nat, requests : Nat,
         link : {"closed", "open", "deaf", "joined"}]
Work == [pc : {"idle", "lock", "commit", "count", "push", "tell", "write", "answer", "read", "render"},
         kind : Handled \cup {"load", "one", "all"}, of : Booking \cup {NoBooking}, state : State,
         by : Tab \cup {NoTab}, id : 0 .. MaxNotes, ids : SUBSET Id, items : Seq(Nat),
         count : Nat, requests : Nat]

Shape ==
  /\ drawn \in 0 .. MaxNotes /\ \A n \in Stored : n <= drawn
  /\ tab \in [Tab -> Page] /\ down \in [Tab -> Seq(Frame)]
  /\ missed \in [Tab -> BOOLEAN] /\ req \in [Worker -> Work]

\* The states a handler of a kind finds its booking in.
Found(kind) ==
  CASE kind = "requested" -> {"none"}
    [] kind = "cancellation" -> {"pending", "confirmed"}
    [] kind = "expired" -> {"pending", "withdrawing"}
    [] kind = "cancel" -> {"pending", "withdrawing", "confirmed", "asked"}
    [] OTHER -> Open

IsRead(n) == note[n].state = "read"

\* A transaction holds its booking alone, its new id is nobody else's, and it has marked what
\* it is to mark.
CommitOK(w) ==
  LET q == req[w]
  IN /\ IF Inserts(q.kind) THEN q.id \in 1 .. drawn /\ q.id \notin Stored ELSE q.id = 0
     /\ \A v \in Worker \ {w} :
          req[v].pc = "commit" => req[v].of # q.of /\ (q.id # 0 => req[v].id # q.id)
     /\ \A n \in Unread : note[n].of = q.of /\ note[n].kind \in MarkedKinds(q.kind) => n \in q.ids
     /\ q.kind \in {"requested", "expired"} => booking[q.of] = q.state

\* What the steps of a request before the present one have established.
RequestOK(w) ==
  LET q == req[w]
  IN /\ q.ids \subseteq Stored /\ q.count <= drawn
     /\ q.pc \in {"lock", "commit"} =>
          q.of \in Booking /\ q.kind \in Handled /\ q.state \in Found(q.kind)
     /\ q.pc \in {"lock", "commit", "count", "push", "tell"} /\ q.by # NoTab =>
          q.kind \in {"accept", "decline"}
     /\ q.pc = "commit" => CommitOK(w)
     /\ q.pc \in {"count", "push"} =>
          q.kind \in Kind /\ q.id \in Stored /\ note[q.id].kind = q.kind
     /\ q.pc = "push" => Len(q.items) = 1 /\ Head(q.items) <= drawn
     /\ q.pc \in {"count", "push", "tell", "answer"} => \A n \in q.ids : IsRead(n)
     /\ q.pc = "write" =>
          q.kind \in {"one", "all"} /\ q.ids = {} /\ q.count = 0
            /\ (q.kind = "one" => q.id \in Stored /\ q.by \in Tab)
     /\ q.pc = "answer" => q.kind \in {"accept", "decline", "all"}
     /\ q.pc \in {"answer", "read", "render"} => q.by \in Tab
     /\ q.pc = "render" =>
          /\ Range(q.items) \subseteq Stored /\ Len(q.items) <= Cap /\ IsInjective(q.items)
          /\ \A n \in Range(q.items) \ q.ids : IsRead(n)

\* A frame that takes a dot away is of a notification that has been read.
FramesOK(t) ==
  \A i \in DOMAIN down[t] : down[t][i].count <= drawn /\ \A n \in down[t][i].ids : IsRead(n)

\* What looks read is read, or the click on it is on its way.
DimmedOK ==
  \A t \in Tab : \A n \in Range(tab[t].items) \ tab[t].fresh :
    \/ IsRead(n)
    \/ \E w \in Worker : req[w].pc = "write" /\ (req[w].kind = "all" \/ req[w].id = n)

\* What a new notification changes in the page's count of requests, what the frames on
\* their way will change in it, and that with this, and d more, it will be right if the page
\* has not been told of one of two requests of a lesson.
Change(kind) == IF kind = "expired" THEN -1 ELSE 1
Coming(t) ==
  IF down[t] # <<>> /\ Head(down[t]).id # 0 THEN Change(note[Head(down[t]).id].kind) ELSE 0
RequestsOK(t, d) == ~blurred[t] => tab[t].requests + Coming(t) + d = Requests

\* The badge is right, or a frame will make it so.
BadgeOK(t) == down[t] # <<>> \/ tab[t].badge = Cardinality(Unread)

Told(t) == tab[t].open /\ ~missed[t]

\* What a page shows is right, or will be with the frames on their way.
Right(t) == BadgeOK(t) /\ RequestsOK(t, 0)

\* What a page lacks while the request of w is under way.
Lacks(w, t) ==
  LET q == req[w]
      own == q.by = t /\ q.pc \in {"tell", "answer", "write", "read", "render"}
  IN /\ q.pc \in {"count", "push"} => RequestsOK(t, Change(q.kind))
     /\ own /\ q.kind \in {"accept", "decline"} => RequestsOK(t, -1)
     /\ own /\ q.kind \in {"one", "all"} => RequestsOK(t, 0)
     /\ ~own /\ q.pc \notin {"count", "push"} => Right(t)

\* One at a time, what a request has counted is still so.
CountedOK(w) ==
  LET q == req[w]
  IN /\ q.pc \notin {"idle", "tell", "answer"} => \A t \in Tab : down[t] = <<>>
     /\ q.pc \in {"tell", "answer"} /\ q.by # NoTab =>
          \A t \in Tab : \A i \in DOMAIN down[t] : down[t][i].id = 0
     /\ q.pc \in {"lock", "commit"} => booking[q.of] = q.state
     /\ q.pc = "commit" => q.count = Left(q.ids, IF Inserts(q.kind) THEN 1 ELSE 0)
     /\ q.pc \in {"count", "push", "tell", "answer", "render"} => q.count = Cardinality(Unread)
     /\ q.pc = "push" => Head(q.items) = Cardinality(Unread)
     /\ q.pc = "render" => q.requests = Requests
     /\ q.pc \in {"read", "render"} => q.kind = "load"

\* The first frame may be of a new notification, and all tell the present count.
TellingOK(t) ==
  \A i \in DOMAIN down[t] :
    down[t][i].count = Cardinality(Unread) /\ (i # 1 => down[t][i].id = 0)

SerialOK ==
  /\ blurred \in [Tab -> BOOLEAN]
  /\ \A v, w \in Worker : req[v].pc # "idle" /\ req[w].pc # "idle" => v = w
  /\ \A w \in Worker : CountedOK(w)
  /\ \A t \in Tab : TellingOK(t)
  /\ \A t \in Tab : Told(t) =>
       /\ Quiet => Right(t)
       /\ \A w \in Worker : req[w].pc # "idle" => Lacks(w, t)

IInv ==
  /\ TypeOK /\ Shape /\ ListHasNoTwins /\ AnsweredIsRead
  /\ \A w \in Worker : RequestOK(w)
  /\ \A t \in Tab : FramesOK(t)
  /\ ~site.faults => DimmedOK
  /\ site.serial => SerialOK

=============================================================================
