------------------------ MODULE RateLimitProperties ------------------------
(* What RateLimit is checked for. *)
EXTENDS RateLimit

Times == Seq(0 .. site.maxTime)

\* Every variable stays in its type.
TypeOK ==
  /\ site \in Site /\ now \in 0 .. site.maxTime
  /\ \A k \in Key : {stamps[k], made[k], counted[k]} \subseteq Times /\ cool[k] \in Nat
  /\ \A w \in Worker :
       /\ req[w].pc \in {"idle", "check", "act", "read", "write"}
       /\ req[w].seen \in Times
       /\ req[w].pc \in {"check", "read", "write"} => req[w].left # <<>>

Earned(k) == Full(k, now) => Len(InWindow(k, made[k], now)) >= Limit[k]

Pair(k) == \E a \in Ask : a.kind = "login" /\ k = Last(a.keys)

\* A key is full only if that many attempts were really let through in its window: no
\* race, lost record or cache failure locks out a client that kept to the limit.
RefusalIsEarned == \A k \in Key : ~Pair(k) => Earned(k)

\* A client that waits as long as it is told, while nothing else is counted, is let
\* through, and not a second earlier.
TellsTheWait(kind) ==
  \A a \in Ask :
    a.kind = kind /\ Refused(kind, a.keys, now) # {} =>
      LET r == RetryAfter(kind, a.keys, now)
      IN /\ r >= 1
         /\ Refused(kind, a.keys, now + r) = {}
         /\ Refused(kind, a.keys, now + r - 1) # {}

\* rate_limiting.py:195: a login waits for the longest of its two keys, also when a cache
\* that failed has let a list grow past its limit (racing records can disorder the list).
LoginTellsTheWait == site.serial => TellsTheWait("login")

\* Any Limit + 1 attempts in a row are a window apart, if requests run one at a time.
WithinLimit ==
  site.serial =>
  \A k \in Key : \A i \in DOMAIN counted[k] :
    i + Limit[k] \in DOMAIN counted[k] =>
      counted[k][i + Limit[k]] - counted[k][i] >= Window[k]

\* Two resends for the same user, address or IP are a cooldown apart, if requests run
\* one at a time.
CooldownKept ==
  site.serial =>
  \A a \in Ask : a.kind = "resend" =>
    \A k \in Range(a.keys) : \A i \in DOMAIN counted[k] :
      i + 1 \in DOMAIN counted[k] => counted[k][i + 1] - counted[k][i] >= Cooldown

\* test_rate_limiting.py: "test_login_rate_limit_reset_on_success": attempts recorded
\* before a login do not lock out its IP and name after it, if requests run one at a time.
LoginClears == site.serial => \A k \in Key : Pair(k) => Earned(k)

-----------------------------------------------------------------------------
(* The inductive invariant.                                                *)

Work == [pc : {"idle", "check", "act", "read", "write"}, kind : {"login", "resend", "chat"},
         keys : Seq(Key), left : Seq(Key), at : 0 .. site.maxTime, seen : Times,
         failed : BOOLEAN]

Shape ==
  /\ stamps \in [Key -> Times] /\ made \in [Key -> Times] /\ counted \in [Key -> Times]
  /\ cool \in [Key -> Nat] /\ req \in [Worker -> Work]

\* A request is one of Ask's, and goes through its keys in order.
RequestOK(w) ==
  LET q == req[w]
  IN q.pc # "idle" =>
       /\ \E a \in Ask : a.kind = site.kind /\ q.kind = a.kind /\ q.keys = a.keys
       /\ Range(q.left) \subseteq Range(q.keys) /\ IsInjective(q.left)
       /\ q.at <= now
       /\ q.pc = "act" /\ ~q.failed => q.left = <<>>

Count(k, list, t) == Cardinality(Kept(k, list, t))

\* The attempts in k's window that are still to be recorded.
Owed(k, t) ==
  {w \in Worker : /\ req[w].pc \in {"read", "write"} /\ k \in Range(req[w].left)
                  /\ t - req[w].at < Window[k]}

\* The list of k in the cache, and one that a worker has read and is about to replace it by,
\* hold no more of a window than was made and is not still to be recorded.
EarnedOK(k) ==
  \A t \in 0 .. site.maxTime :
    /\ Count(k, stamps[k], t) + Cardinality(Owed(k, t)) <= Count(k, made[k], t)
    /\ \A w \in Worker :
         req[w].pc = "write" /\ Head(req[w].left) = k =>
           Count(k, req[w].seen, t) + Cardinality(Owed(k, t)) <= Count(k, made[k], t)

Sorted(list) == \A i, j \in DOMAIN list : i <= j => list[i] <= list[j]

\* Any n + 1 attempts in a row are d apart.
Apart(list, n, d) == \A i \in DOMAIN list : i + n \in DOMAIN list => list[i + n] - list[i] >= d

\* One at a time, stamps are recorded in the order of time; what was counted is in the list, as
\* far as a window that has not ended yet reaches back; and the cooldown covers it.
ListOK(k) ==
  /\ Sorted(stamps[k]) /\ Sorted(counted[k])
  /\ \A x \in Range(stamps[k]) \cup Range(counted[k]) : x <= now
  /\ \A t \in now .. site.maxTime : Count(k, counted[k], t) <= Count(k, stamps[k], t)
  /\ Apart(counted[k], Limit[k], Window[k])
  /\ site.kind = "resend" =>
       Apart(counted[k], 1, Cooldown) /\ \A x \in Range(counted[k]) : x + Cooldown <= cool[k]

\* The keys that the present loop of a request, that of the check or of the record, has done.
Passed(q) == Range(q.keys) \ Range(q.left)

\* At time t there is room for one more at k, and its cooldown is over.
Room(k, t) ==
  /\ Count(k, counted[k], t) < Limit[k]
  /\ site.kind = "resend" => \A x \in Range(counted[k]) : x + Cooldown <= t

\* A request alone: no stamp is later than the one it records; what it has read, and what it
\* has written, covers what was counted; where it has passed there is room for it.
RunOK(w) ==
  LET q == req[w]
      recording == q.pc \in {"read", "write"}
  IN /\ recording => \A k \in Key : \A x \in Range(stamps[k]) \cup Range(counted[k]) : x <= q.at
     /\ q.pc = "write" =>
          /\ Sorted(q.seen) /\ \A x \in Range(q.seen) : x <= q.at
          /\ \A t \in now .. site.maxTime :
               Count(Head(q.left), counted[Head(q.left)], t) <= Count(Head(q.left), q.seen, t)
          /\ site.kind = "resend" => q.at + Cooldown <= cool[Head(q.left)]
     /\ recording => \A k \in Passed(q) :
          /\ \A t \in now .. site.maxTime :
               Count(k, Append(counted[k], q.at), t) <= Count(k, stamps[k], t)
          /\ site.kind = "resend" => q.at + Cooldown <= cool[k]
     /\ q.pc \in {"check", "act"} /\ ~q.failed => \A k \in Passed(q) : Room(k, now)
     /\ recording /\ ~q.failed => \A k \in Range(q.keys) : Room(k, q.at)

SerialOK ==
  /\ \A v, w \in Worker : req[v].pc # "idle" /\ req[w].pc # "idle" => v = w
  /\ \A k \in Key : ListOK(k)
  /\ \A w \in Worker : RunOK(w)

IInv ==
  /\ TypeOK /\ Shape
  /\ \A w \in Worker : RequestOK(w)
  /\ \A k \in Key : counted[k] # <<>> => \E a \in Ask : a.kind = site.kind /\ k \in Range(a.keys)
  /\ \A k \in Key : site.serial \/ ~Pair(k) => EarnedOK(k)
  /\ site.serial => SerialOK
=============================================================================
