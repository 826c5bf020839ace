--------------------------- MODULE ChatProperties ---------------------------
(* What Chat is checked for. *)
EXTENDS Chat

\* Every variable stays in its type; no page, frame or acknowledgement carries a message
\* whose transaction has not committed.
TypeOK ==
  /\ site \in Site
  /\ author \in [Id -> Person \cup {NoOne}]
  /\ drawn \in 0 .. MaxMessages
  /\ \A u \in Person :
       /\ watermark[u] \in 0 .. drawn
       /\ badge[u] \in 0 .. drawn
       /\ page[u].link \in {"closed", "open", "deaf", "joined"}
       /\ Range(page[u].shown) \cup Range(down[u]) \cup Range(up[u]) \subseteq Stored

\* The page shows no message twice, although the sender gets it by the answer and by the
\* socket, in either order, and history may overlap what is there.
ShownOnce == \A u \in Person : IsInjective(page[u].shown)

\* When the page says there is no more history, every message stored when it was served is
\* on it, however messages commit, arrive and are loaded meanwhile.
HistoryIsComplete ==
  \A u \in Person :
    page[u].open /\ ~page[u].more => page[u].before \subseteq Range(page[u].shown)

\* CONTEXT.md:168: the watermark is "strictly monotonic": of two receipts, or a receipt and
\* an own message, that overlap, the later write does not bring back the smaller id.
WatermarkNeverBack == [][\A u \in Person : watermark'[u] >= watermark[u]]_watermark

\* ADR 8: "When a new message is committed" the recipient's count is evaluated and pushed:
\* with handlers one at a time and nothing lost, no top bar shows less than is unread.
\* (It can show more: an own message marks the others read and pushes nothing.)
BadgeHidesNothing ==
  site.serial /\ ~site.faults /\ (\A w \in Worker : req[w].pc = "idle") =>
    \A u \in Person : badge[u] >= Unread(u)

\* A message is unread by its recipient when it becomes visible, with handlers one at a
\* time.  (Overlapping, a smaller id can commit after the recipient's watermark passed it.)
ArrivesUnread ==
  [][site.serial =>
       \A m \in Stored' \ Stored : m > watermark'[Other(author'[m])]]_author

\* When nothing is under way, what a connected page shows of the other's messages is read:
\* no acknowledgement is forgotten, not even by a socket that was lost.  (If messages also
\* commit out of order, the last on the page, acknowledged on reconnecting, need not be the
\* newest.)
ShownIsRead ==
  /\ site.serial \/ ~site.faults
  /\ \A w \in Worker : req[w].pc = "idle"
  => \A u \in Person :
       page[u].link = "joined" /\ up[u] = <<>> =>
         \A m \in Range(page[u].shown) : author[m] # u => m <= watermark[u]

-----------------------------------------------------------------------------
(* The inductive invariant.                                                *)

Page == [open : BOOLEAN, shown : Seq(Id), more : BOOLEAN, before : SUBSET Id,
         link : {"closed", "open", "deaf", "joined"}]
Work == [pc : {"idle", "mark", "advance", "render", "commit", "tell", "count", "push", "answer"},
         kind : {"load", "ws", "send"}, by : Person \cup {NoOne}, id : 0 .. MaxMessages,
         seen : Seq(Id), before : SUBSET Id, count : Nat]

Shape ==
  /\ watermark \in [Person -> Nat] /\ badge \in [Person -> Nat]
  /\ page \in [Person -> Page] /\ req \in [Worker -> Work]
  /\ down \in [Person -> Seq(Id)] /\ up \in [Person -> Seq(Id)]
  /\ \A m \in Stored : m <= drawn

\* What a page lists of the messages in "before": all of them, or all from its first on.
Reaches(list, before) ==
  /\ IsInjective(list)
  /\ list = <<>> => before = {}
  /\ \A m \in before \ Range(list) : m < Head(list)

\* What the steps of a request before the present one have established.
RequestOK(w) ==
  LET q == req[w]
  IN /\ q.pc # "idle" => q.by \in Person
     /\ q.pc \in {"commit", "tell", "answer"} => q.kind = "send"
     /\ q.pc \in {"mark", "advance"} => q.kind # "send" /\ q.id \in Stored
     /\ q.pc = "render" => q.kind = "load"
     /\ q.pc = "commit" => q.id \in 1 .. drawn /\ q.id \notin Stored
     /\ q.pc \notin {"idle", "commit"} /\ q.kind = "send" => q.id \in Stored /\ author[q.id] = q.by
     /\ q.pc = "commit" =>
          \A v \in Worker \ {w} : req[v].pc = "commit" => req[v].id # q.id
     /\ q.pc # "idle" /\ q.kind = "load" =>
          /\ Range(q.seen) \cup q.before \subseteq Stored /\ Reaches(q.seen, q.before)
          /\ \A m \in Range(q.seen) :
               m <= q.id /\ (q.pc \notin {"mark", "advance"} => m <= watermark[q.by])
     /\ q.count <= drawn

\* A page, and the socket that comes with it.
PageOK(u) ==
  LET p == page[u]
  IN /\ ~p.open => p.shown = <<>> /\ p.link = "closed"
     /\ p.link = "closed" => up[u] = <<>>
     /\ p.before \subseteq Stored
     /\ p.open => IsInjective(p.shown)
     /\ p.open /\ p.shown = <<>> => p.before = {}
     /\ p.open => \A m \in p.before \ Range(p.shown) : p.more /\ m < Head(p.shown)
     /\ p.more => p.shown # <<>> /\ Head(p.shown) <= watermark[u]

\* One at a time, a message is the newest when it commits, and travels as such.
SerialOK ==
  /\ \A v, w \in Worker : req[v].pc # "idle" /\ req[w].pc # "idle" => v = w
  /\ \A w \in Worker :
       /\ req[w].pc # "idle" /\ req[w].kind = "send" => req[w].id = drawn
       /\ req[w].pc = "commit" => \A u \in Person : watermark[u] < drawn
  /\ \A u \in Person :
       /\ \A i, j \in 1 .. Len(down[u]) : i < j => down[u][i] <= down[u][j]
       /\ \A m \in Range(page[u].shown) :
            author[m] # u /\ m > watermark[u] =>
              /\ m <= Last(page[u].shown)
              /\ \A x \in Range(down[u]) : m <= x

\* A count is on its way to u that makes up for what its top bar lacks.
Corrected(u) == \E w \in Worker : req[w].pc \in {"tell", "count", "push"} /\ Counted(w) = u

BadgeOK ==
  /\ \A u \in Person : badge[u] >= Unread(u) \/ Corrected(u)
  /\ \A w \in Worker : req[w].pc = "push" => req[w].count >= Unread(Counted(w))

\* The receipt of m by u has been stored, or is on its way, or will be given.
Acknowledged(u, m) ==
  \/ m <= watermark[u]
  \/ \E a \in Range(up[u]) : m <= a
  \/ \E w \in Worker : /\ req[w].pc \in {"mark", "advance"} /\ req[w].kind = "ws"
                       /\ req[w].by = u /\ m <= req[w].id
  \/ site.serial /\ page[u].link = "closed"

ReadOK == \A u \in Person : \A m \in Range(page[u].shown) : author[m] # u => Acknowledged(u, m)

IInv ==
  /\ TypeOK /\ Shape
  /\ \A w \in Worker : RequestOK(w)
  /\ \A u \in Person : PageOK(u)
  /\ site.serial => SerialOK
  /\ site.serial /\ ~site.faults => BadgeOK
  /\ site.serial \/ ~site.faults => ReadOK
=============================================================================
