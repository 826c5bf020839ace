-------------------------------- MODULE Chat --------------------------------
(***************************************************************************)
(* One conversation between a student and a teacher: messages posted over  *)
(* HTTP, the watermark up to which each side has read, the page each has   *)
(* open with its socket, and the unread count in each side's top bar.      *)
(*                                                                         *)
(* A message's id is drawn when its row is inserted and seen by others     *)
(* when its transaction commits; what is broadcast after the commit goes   *)
(* through the channel layer to the sockets that are in the group then.    *)
(* Left out: the ticks and the typing indicator, which change nothing that *)
(* is stored, and who may post (the participants with a verified address). *)
(***************************************************************************)
EXTENDS Integers, Sequences, SequencesExt, FiniteSets

CONSTANTS
  Person,      \* the two participants
  NoOne,       \* no person
  Worker,      \* what runs a request or a consumer's handler
  PageSize,    \* messages on a page as it is served, and in a chunk of history
  MaxMessages, \* bound: ids
  Site         \* instances: whether handlers run one at a time, whether transactions,
               \* sockets and broadcasts can be lost, and the bound of the ids drawn

ASSUME PersonAssumption == IsFiniteSet(Person) /\ Cardinality(Person) = 2 /\ NoOne \notin Person
ASSUME BoundAssumption ==
  /\ PageSize \in Nat \ {0} /\ MaxMessages \in Nat
  /\ Site \subseteq [serial : BOOLEAN, faults : BOOLEAN, messages : 0 .. MaxMessages]

VARIABLES
  site,      \* the instance this behaviour runs in
  author,    \* id -> who wrote the committed message, or NoOne
  drawn,     \* ids drawn so far
  watermark, \* person -> last_read_message_id
  badge,     \* person -> the unread count their top bar shows
  page,      \* person -> the open conversation page
  down,      \* person -> messages on their way to the page's socket
  up,        \* person -> advance_watermark frames on their way to its consumer
  req        \* worker -> where its request is

vars == <<site, author, drawn, watermark, badge, page, down, up, req>>

Id == 1 .. MaxMessages
Other(u) == CHOOSE v \in Person \ {u} : TRUE
Stored == {m \in Id : author[m] # NoOne}

Unread(u) == Cardinality({m \in Stored : m > watermark[u] /\ author[m] # u})

NoPage == [open |-> FALSE, shown |-> <<>>, more |-> FALSE, before |-> {}, link |-> "closed"]
Idle == [pc |-> "idle", kind |-> "load", by |-> NoOne, id |-> 0, seen |-> <<>>, before |-> {},
         count |-> 0]

\* The newest n of the messages in ids.
Newest(ids, n) == {m \in ids : Cardinality({o \in ids : o > m}) < n}

\* The messages in ids as the page lists them.
OldestFirst(ids) ==
  [i \in 1 .. Cardinality(ids) |->
     CHOOSE m \in ids : Cardinality({o \in ids : o < m}) = i - 1]

Start(w, r) ==
  /\ req[w].pc = "idle"
  /\ site.serial => \A v \in Worker : req[v].pc = "idle"
  /\ req' = [req EXCEPT ![w] = r]

Goto(w, pc) == req' = [req EXCEPT ![w].pc = pc]

\* What a broadcast does to x, when it does y: a channel layer that fails is logged.
Broadcast(x, y) == IF site.faults THEN {x, y} ELSE {y}

-----------------------------------------------------------------------------
(* The page.                                                               *)

\* Mutant: a message that is there already is appended again.
NewMessageTwice(u, m) ==
  /\ page' = [page EXCEPT ![u].shown = Append(@, m)]
  /\ up' = IF author[m] = u THEN up ELSE [up EXCEPT ![u] = Append(@, m)]

\* Mutant: a message that arrives is shown and not acknowledged.
NewMessageSilent(u, m) ==
  /\ page' = IF m \in Range(page[u].shown) THEN page
             ELSE [page EXCEPT ![u].shown = Append(@, m)]
  /\ UNCHANGED up

\* handleNewMessage: shown once; the other's messages are acknowledged.
NewMessage(u, m) ==
  IF ~page[u].open \/ m \in Range(page[u].shown)
    THEN UNCHANGED <<page, up>>
    ELSE /\ page' = [page EXCEPT ![u].shown = Append(@, m)]
         /\ up' = IF author[m] = u \/ page[u].link = "closed" THEN up
                  ELSE [up EXCEPT ![u] = Append(@, m)]

\* onopen acknowledges the last message on the page.
Connect(u) ==
  /\ page[u].open /\ page[u].link = "closed"
  /\ page' = [page EXCEPT ![u].link = "open"]
  /\ up' = IF page[u].shown = <<>> THEN up
           ELSE [up EXCEPT ![u] = <<Last(page[u].shown)>>]
  /\ UNCHANGED <<site, author, drawn, watermark, badge, down, req>>

\* The consumer has accepted; group_add succeeds, or fails and is logged.
Join(u) ==
  /\ page[u].link = "open"
  /\ page' \in Broadcast([page EXCEPT ![u].link = "deaf"], [page EXCEPT ![u].link = "joined"])
  /\ UNCHANGED <<site, author, drawn, watermark, badge, down, up, req>>

\* The socket is lost with what was on its way; the page connects again.
Disconnect(u) ==
  /\ site.faults /\ page[u].link # "closed"
  /\ page' = [page EXCEPT ![u].link = "closed"]
  /\ down' = [down EXCEPT ![u] = <<>>]
  /\ up' = [up EXCEPT ![u] = <<>>]
  /\ UNCHANGED <<site, author, drawn, watermark, badge, req>>

Receive(u) ==
  /\ down[u] # <<>> /\ page[u].link = "joined"
  /\ NewMessage(u, Head(down[u]))
  /\ down' = [down EXCEPT ![u] = Tail(@)]
  /\ UNCHANGED <<site, author, drawn, watermark, badge, req>>

\* Mutant: has_more is asked of the list that has been cut already.
HistoryCut(oldest) ==
  LET older == {m \in Stored : m < oldest}
  IN [chunk |-> Newest(older, PageSize), more |-> Cardinality(Newest(older, PageSize)) > PageSize]

\* conversation_history: one message more than the chunk tells whether there are more.
History(oldest) ==
  LET older == {m \in Stored : m < oldest}
  IN [chunk |-> Newest(older, PageSize),
      more |-> Cardinality(Newest(older, PageSize + 1)) > PageSize]

\* Scrolled to the top, the page asks for what is older than its first message.
LoadOlder(u) ==
  LET shown == page[u].shown
      got == History(Head(shown))
  IN /\ page[u].more /\ shown # <<>>
     /\ page' = [page EXCEPT ![u].more = got.more,
                   ![u].shown = OldestFirst(got.chunk \ Range(@)) \o @]
     /\ UNCHANGED <<site, author, drawn, watermark, badge, down, up, req>>

-----------------------------------------------------------------------------
(* Requests and the consumer's handler.                                    *)

\* conversation_detail reads the newest messages.
Load(w, u) ==
  LET seen == OldestFirst(Newest(Stored, PageSize))
  IN /\ Start(w, [Idle EXCEPT !.pc = IF seen = <<>> THEN "render" ELSE "mark", !.by = u,
                    !.seen = seen, !.before = Stored,
                    !.id = IF seen = <<>> THEN 0 ELSE Last(seen)])
     /\ UNCHANGED <<site, author, drawn, watermark, badge, page, down, up>>

\* The consumer takes a frame: one at a time, and only when connect() is through.
Hear(w, u) ==
  /\ up[u] # <<>> /\ page[u].link \in {"joined", "deaf"}
  /\ \A v \in Worker : ~(req[v].pc # "idle" /\ req[v].kind = "ws" /\ req[v].by = u)
  /\ Start(w, [Idle EXCEPT !.pc = "mark", !.kind = "ws", !.by = u, !.id = Head(up[u])])
  /\ up' = [up EXCEPT ![u] = Tail(@)]
  /\ UNCHANGED <<site, author, drawn, watermark, badge, page, down>>

\* advance_watermark reads the old mark ...
Mark(w) ==
  LET new == req[w].id > watermark[req[w].by]
  IN /\ req[w].pc = "mark"
     /\ req' = IF ~new /\ req[w].kind = "ws" THEN [req EXCEPT ![w] = Idle]
               ELSE [req EXCEPT ![w].pc = IF new THEN "advance" ELSE "render"]
     /\ UNCHANGED <<site, author, drawn, watermark, badge, page, down, up>>

\* Mutant: the mark is overwritten.
GreatestNew(old, new) == new

Greatest(old, new) == IF new > old THEN new ELSE old

\* ... and raises it, whatever it is by now; the reader's unread count is broadcast.
Advance(w) ==
  /\ req[w].pc = "advance"
  /\ watermark' = [watermark EXCEPT ![req[w].by] = Greatest(@, req[w].id)]
  /\ Goto(w, "count")
  /\ UNCHANGED <<site, author, drawn, badge, page, down, up>>

\* The page is there, with the socket it comes with not yet open.
Render(w) ==
  LET u == req[w].by
  IN /\ req[w].pc = "render"
     /\ page' = [page EXCEPT ![u] = [open |-> TRUE, shown |-> req[w].seen, link |-> "closed",
          before |-> req[w].before,
          more |-> req[w].seen # <<>> /\ \E m \in Stored : m < Head(req[w].seen)]]
     /\ down' = [down EXCEPT ![u] = <<>>]
     /\ up' = [up EXCEPT ![u] = <<>>]
     /\ badge' = [badge EXCEPT ![u] = Unread(u)]
     /\ req' = [req EXCEPT ![w] = Idle]
     /\ UNCHANGED <<site, author, drawn, watermark>>

\* Mutant: the message is broadcast before its transaction commits.
SendEarly(w, u) ==
  /\ page[u].open /\ drawn < site.messages
  /\ Start(w, [Idle EXCEPT !.pc = "commit", !.kind = "send", !.by = u, !.id = drawn + 1])
  /\ drawn' = drawn + 1
  /\ down' = [v \in Person |->
                IF page[v].link = "joined" THEN Append(down[v], drawn + 1) ELSE down[v]]
  /\ UNCHANGED <<site, author, watermark, badge, page, up>>

\* send_message: the row is inserted under the next id ...
Send(w, u) ==
  /\ page[u].open /\ drawn < site.messages
  /\ Start(w, [Idle EXCEPT !.pc = "commit", !.kind = "send", !.by = u, !.id = drawn + 1])
  /\ drawn' = drawn + 1
  /\ UNCHANGED <<site, author, watermark, badge, page, down, up>>

\* Mutant: the watermark that is raised is the other's.
SenderSwapped(u) == Other(u)

Sender(u) == u

\* ... and committed with the sender's watermark raised to it.
Commit(w) ==
  /\ req[w].pc = "commit"
  /\ author' = [author EXCEPT ![req[w].id] = req[w].by]
  /\ watermark' = [watermark EXCEPT ![Sender(req[w].by)] = Greatest(@, req[w].id)]
  /\ Goto(w, "tell")
  /\ UNCHANGED <<site, drawn, badge, page, down, up>>

\* on_commit: the message goes to every socket in the group, both sides' ...
Tell(w) ==
  /\ req[w].pc = "tell"
  /\ down' \in Broadcast(down,
       [u \in Person |-> IF page[u].link = "joined" THEN Append(down[u], req[w].id) ELSE down[u]])
  /\ Goto(w, "count")
  /\ UNCHANGED <<site, author, drawn, watermark, badge, page, up>>

\* Mutant: the sender is told their own count.
CountedOwn(w) == req[w].by

\* Whose unread count is broadcast: the recipient's of a message, or the reader's.
Counted(w) == IF req[w].kind = "send" THEN Other(req[w].by) ELSE req[w].by

\* ... and broadcast_unread_chat_count counts ...
Count(w) ==
  /\ req[w].pc = "count"
  /\ req' = [req EXCEPT ![w].pc = "push", ![w].count = Unread(Counted(w))]
  /\ UNCHANGED <<site, author, drawn, watermark, badge, page, down, up>>

\* ... and then sends what it counted.
Push(w) ==
  /\ req[w].pc = "push"
  /\ badge' \in Broadcast(badge, [badge EXCEPT ![Counted(w)] = req[w].count])
  /\ req' = CASE req[w].kind = "load" -> [req EXCEPT ![w].pc = "render"]
              [] req[w].kind = "send" -> [req EXCEPT ![w].pc = "answer"]
              [] req[w].kind = "ws" -> [req EXCEPT ![w] = Idle]
  /\ UNCHANGED <<site, author, drawn, watermark, page, down, up>>

\* The sender's page shows the message when the answer arrives.
Answer(w) ==
  /\ req[w].pc = "answer"
  /\ NewMessage(req[w].by, req[w].id)
  /\ req' = [req EXCEPT ![w] = Idle]
  /\ UNCHANGED <<site, author, drawn, watermark, badge, down>>

\* The transaction is rolled back, or its worker lost: the id drawn is not used again.  (A
\* worker lost later is a broadcast, an answer or a page lost.)
RollBack(w) ==
  /\ site.faults /\ req[w].pc = "commit"
  /\ req' = [req EXCEPT ![w] = Idle]
  /\ UNCHANGED <<site, author, drawn, watermark, badge, page, down, up>>

-----------------------------------------------------------------------------
Init ==
  /\ site \in Site
  /\ author = [m \in Id |-> NoOne]
  /\ drawn = 0
  /\ watermark = [u \in Person |-> 0]
  /\ badge = [u \in Person |-> 0]
  /\ page = [u \in Person |-> NoPage]
  /\ down = [u \in Person |-> <<>>]
  /\ up = [u \in Person |-> <<>>]
  /\ req = [w \in Worker |-> Idle]

Step(w) ==
  \/ Mark(w) \/ Advance(w) \/ Render(w) \/ Commit(w) \/ Tell(w) \/ Count(w) \/ Push(w)
  \/ Answer(w)

Next ==
  \/ \E w \in Worker : Step(w) \/ RollBack(w)
  \/ \E w \in Worker, u \in Person : Load(w, u) \/ Hear(w, u) \/ Send(w, u)
  \/ \E u \in Person : Connect(u) \/ Join(u) \/ Disconnect(u) \/ Receive(u) \/ LoadOlder(u)

Spec == Init /\ [][Next]_vars
=============================================================================
