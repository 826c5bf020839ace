----------------------------- MODULE RateLimit -----------------------------
(***************************************************************************)
(* The limits on logins, on asking for a mail again and on chat messages:  *)
(* for every key (a user, an address, an IP, an IP and a name) the shared   *)
(* cache holds a list of time stamps, and for resends a cooldown.           *)
(*                                                                         *)
(* Checking, acting and recording are separate; so are, in recording, the   *)
(* read of the list and the write of the longer one.  A cache that fails    *)
(* lets the request through (check) or loses the record.  An entry that     *)
(* times out holds stamps outside the window only, so it needs no step.     *)
(***************************************************************************)
EXTENDS Integers, Sequences, SequencesExt, FiniteSets

CONSTANTS
  Key,
  Limit,       \* key -> how many in a window
  Window,      \* key -> its length
  Cooldown,    \* between two resends
  Ask,         \* requests made: a kind and the keys it is counted under, in order
  Worker,
  Site         \* instances: the kind of request made, whether they run one at a time,
               \* and the bounds of the clock and of the attempts let through

ASSUME LimitAssumption == Limit \in [Key -> Nat \ {0}] /\ Window \in [Key -> Nat \ {0}]
\* A request is counted under at least one key, and never twice under the same: each key has
\* the prefix of its form ("rl:login:", "rl:verify_hr:", "rl:chat:") and of what it names.
ASSUME AskAssumption ==
  /\ Ask \subseteq [kind : {"login", "resend", "chat"}, keys : Seq(Key)]
  /\ \A a \in Ask : a.keys # <<>> /\ IsInjective(a.keys)
  /\ \A a, b \in Ask : Range(a.keys) \cap Range(b.keys) # {} => a.kind = b.kind
ASSUME BoundAssumption ==
  /\ Cooldown \in Nat /\ IsFiniteSet(Worker)
  /\ Site \subseteq [kind : {"login", "resend", "chat"}, serial : BOOLEAN, maxTime : Nat,
                     maxAttempts : Nat]

VARIABLES
  site,      \* the instance this behaviour runs in
  now,
  stamps,    \* key -> the list in the cache
  cool,      \* key -> when its cooldown ends
  req,       \* worker -> where its request is
  made,      \* history: key -> times of attempts let through (since a login)
  counted    \* history: key -> times of those no cache failure touched (since a login or
             \* the failed read of a login's list)

vars == <<site, now, stamps, cool, req, made, counted>>

Idle == [pc |-> "idle", kind |-> "chat", keys |-> <<>>, left |-> <<>>, at |-> 0,
         seen |-> <<>>, failed |-> FALSE]

\* Mutant: a stamp leaves the window a second early.
KeptShort(k, list, t) == {i \in DOMAIN list : t - list[i] < Window[k] - 1}

\* The places of a list whose stamps are in the window that ends at t.
Kept(k, list, t) == {i \in DOMAIN list : t - list[i] < Window[k]}

\* The stamps of a list that are in the window, in their order.
InWindow(k, list, t) ==
  LET in == Kept(k, list, t)
  IN [i \in 1 .. Cardinality(in) |->
        list[CHOOSE j \in in : Cardinality({h \in in : h < j}) = i - 1]]

\* Mutant: the cooldown ends a second early.
CoolingShort(kind, k, t) == kind = "resend" /\ cool[k] > t + 1

Cooling(kind, k, t) == kind = "resend" /\ cool[k] > t

Full(k, t) == Len(InWindow(k, stamps[k], t)) >= Limit[k]

\* Mutant: the wait is that of the oldest stamp, as if the list could not be too long.
WaitOldest(kind, k, t) ==
  LET list == InWindow(k, stamps[k], t) IN list[1] + Window[k] - t

\* Seconds until k lets a request through: until the stamp that fills it leaves, or,
\* for resends, until the cooldown ends or the oldest stamp leaves.
Wait(kind, k, t) ==
  LET list == InWindow(k, stamps[k], t)
  IN CASE Cooling(kind, k, t) -> cool[k] - t
       [] ~Cooling(kind, k, t) /\ kind = "resend" -> list[1] + Window[k] - t
       [] kind # "resend" -> list[Len(list) - Limit[k] + 1] + Window[k] - t

Refused(kind, keys, t) == {i \in DOMAIN keys : Cooling(kind, keys[i], t) \/ Full(keys[i], t)}

\* What the refused client is told: the longest wait of a login's keys, the wait of the
\* first key that refuses otherwise.
RetryAfter(kind, keys, t) ==
  LET waits == [i \in Refused(kind, keys, t) |-> Wait(kind, keys[i], t)]
  IN IF kind = "login"
       THEN CHOOSE w \in Range(waits) : \A v \in Range(waits) : v <= w
       ELSE waits[CHOOSE i \in DOMAIN waits : \A j \in DOMAIN waits : i <= j]

-----------------------------------------------------------------------------
(* A request.                                                              *)

Arrive(w, a) ==
  /\ req[w].pc = "idle"
  /\ a.kind = site.kind
  /\ site.serial => \A v \in Worker : req[v].pc = "idle"
  /\ req' = [req EXCEPT ![w] = [Idle EXCEPT !.pc = "check", !.kind = a.kind,
               !.keys = a.keys, !.left = a.keys, !.at = now]]
  /\ UNCHANGED <<site, now, stamps, cool, made, counted>>

\* Mutant: what is refused is recorded too.
RefuseAndRecord(w) == [req[w] EXCEPT !.pc = "read", !.at = now, !.left = req[w].keys]

\* Mutant: the refusal does not end the request.
RefuseAndGoOn(w) == [req[w] EXCEPT !.left = <<>>]

Refuse(w) == Idle

\* The request has passed the next key.
Passing(q) == [q EXCEPT !.left = Tail(@), !.pc = IF Len(q.left) = 1 THEN "act" ELSE "check"]

\* The next key is looked up; a cache that fails lets the request through, a login only as
\* far as this key goes.
Check(w) ==
  LET q == req[w]
      k == Head(q.left)
  IN /\ q.pc = "check"
     /\ \/ /\ Cooling(q.kind, k, q.at) \/ Full(k, q.at)
           /\ req' = [req EXCEPT ![w] = Refuse(w)]
        \/ /\ ~Cooling(q.kind, k, q.at) /\ ~Full(k, q.at)
           /\ req' = [req EXCEPT ![w] = Passing(q)]
        \/ req' = [req EXCEPT ![w] = IF q.kind = "login" THEN [Passing(q) EXCEPT !.failed = TRUE]
                                    ELSE [q EXCEPT !.pc = "act", !.failed = TRUE]]
     /\ UNCHANGED <<site, now, stamps, cool, made, counted>>

\* The message is stored, the password is wrong, or the resend goes on: it is recorded.
Act(w) ==
  LET q == req[w]
  IN /\ q.pc = "act"
     /\ \A k \in Range(q.keys) : Len(made[k]) < site.maxAttempts
     /\ req' = [req EXCEPT ![w].pc = "read", ![w].at = now, ![w].left = q.keys]
     /\ made' = [k \in Key |-> IF k \in Range(q.keys) THEN Append(made[k], now) ELSE made[k]]
     /\ UNCHANGED <<site, now, stamps, cool, counted>>

\* A chat message that is empty or too long, and an address verified already, are neither
\* acted on nor recorded.
Drop(w) ==
  /\ req[w].pc = "act" /\ req[w].kind # "login"
  /\ req' = [req EXCEPT ![w] = Idle]
  /\ UNCHANGED <<site, now, stamps, cool, made, counted>>

\* The attempts at k that are being recorded.
Recording(k) ==
  LET busy == SetToSeq({w \in Worker : req[w].pc \in {"read", "write"} /\ k \in Range(req[w].keys)})
  IN [i \in DOMAIN busy |-> req[busy[i]].at]

\* Mutant: a login leaves the failures before it in the list.
ClearedNot(list) == list

\* What a login leaves of the list of its IP and name.
Cleared(list) == <<>>

\* The password is right: the list of IP and name is deleted, the IP's is kept.
LogIn(w) ==
  LET pair == Last(req[w].keys)
  IN /\ req[w].pc = "act" /\ req[w].kind = "login"
     /\ \/ /\ stamps' = [stamps EXCEPT ![pair] = Cleared(@)]
           /\ counted' = [counted EXCEPT ![pair] = <<>>]
           /\ made' = [made EXCEPT ![pair] = Recording(pair)]
        \/ UNCHANGED <<stamps, counted, made>>       \* the cache fails
     /\ req' = [req EXCEPT ![w] = Idle]
     /\ UNCHANGED <<site, now, cool>>

\* The cooldown is set and the list read, filtered by the time recording began.  A read that
\* fails counts as an empty list for a login, and may go on to replace the one in the cache.
ReadList(w) ==
  LET q == req[w]
      k == Head(q.left)
  IN /\ q.pc = "read"
     /\ \/ /\ cool' = IF q.kind = "resend" THEN [cool EXCEPT ![k] = q.at + Cooldown] ELSE cool
           /\ req' = [req EXCEPT ![w].pc = "write", ![w].seen = InWindow(k, stamps[k], q.at)]
           /\ UNCHANGED counted
        \/ /\ q.kind = "login"
           /\ req' = [req EXCEPT ![w].pc = "write", ![w].seen = <<>>, ![w].failed = TRUE]
           /\ counted' = [counted EXCEPT ![k] = <<>>]
           /\ UNCHANGED cool
     /\ UNCHANGED <<site, now, stamps, made>>

\* The list is replaced by the one read and the new stamp.
WriteList(w) ==
  LET q == req[w]
      k == Head(q.left)
  IN /\ q.pc = "write"
     /\ stamps' = [stamps EXCEPT ![k] = Append(q.seen, q.at)]
     /\ counted' = IF Len(q.left) > 1 \/ q.failed THEN counted
                   ELSE [j \in Key |-> IF j \in Range(q.keys) THEN Append(counted[j], q.at)
                                       ELSE counted[j]]
     /\ req' = [req EXCEPT ![w] =
          IF Len(q.left) > 1 THEN [q EXCEPT !.pc = "read", !.left = Tail(@), !.seen = <<>>]
                             ELSE Idle]
     /\ UNCHANGED <<site, now, cool, made>>

\* The cache fails while recording: the remaining keys are not recorded.
GiveUp(w) ==
  /\ req[w].pc \in {"read", "write"}
  /\ req' = [req EXCEPT ![w] = Idle]
  /\ UNCHANGED <<site, now, stamps, cool, made, counted>>

Tick ==
  /\ now < site.maxTime
  /\ now' = now + 1
  /\ UNCHANGED <<site, stamps, cool, req, made, counted>>

-----------------------------------------------------------------------------
Init ==
  /\ site \in Site
  /\ now = 0
  /\ stamps = [k \in Key |-> <<>>]
  /\ cool = [k \in Key |-> 0]
  /\ req = [w \in Worker |-> Idle]
  /\ made = [k \in Key |-> <<>>]
  /\ counted = [k \in Key |-> <<>>]

Next ==
  \/ \E w \in Worker, a \in Ask : Arrive(w, a)
  \/ \E w \in Worker :
       \/ Check(w) \/ Act(w) \/ Drop(w) \/ LogIn(w)
       \/ ReadList(w) \/ WriteList(w) \/ GiveUp(w)
  \/ Tick

Spec == Init /\ [][Next]_vars
=============================================================================
