-------------------------- MODULE RateLimitProofs --------------------------
(***************************************************************************)
(* The properties of RateLimit, proved for any limits, windows and keys    *)
(* and any number of workers.  All follow from IInv of                     *)
(* RateLimitProperties, which each action preserves; first, what filtering *)
(* a list and adding a stamp do to the number of stamps in a window.       *)
(***************************************************************************)
EXTENDS RateLimitProperties, FiniteSetTheorems, SequenceTheorems, TLAPS

\* The typing assumptions on the constants, as facts the proofs cite.
LEMMA Constants ==
  /\ \A k \in Key : Limit[k] \in Nat /\ Limit[k] > 0 /\ Window[k] \in Nat /\ Window[k] > 0
  /\ \A a \in Ask : /\ a.kind \in {"login", "resend", "chat"} /\ a.keys \in Seq(Key)
                    /\ a.keys # <<>> /\ IsInjective(a.keys)
  /\ Cooldown \in Nat /\ IsFiniteSet(Worker)
  /\ \A s \in Site : /\ s.serial \in BOOLEAN /\ s.maxTime \in Nat /\ s.maxAttempts \in Nat
                     /\ s.kind \in {"login", "resend", "chat"}
BY LimitAssumption, AskAssumption, BoundAssumption

-----------------------------------------------------------------------------
(* What is in a window.                                                    *)

\* How many of S come before j.
Before(S, j) == Cardinality({h \in S : h < j})

LEMMA FinitePlaces ==
  ASSUME NEW n \in Nat, NEW S \in SUBSET (1 .. n)
  PROVE  IsFiniteSet(S) /\ Cardinality(S) \in Nat /\ \A j \in S : j \in Int
<1>1. IsFiniteSet(1 .. n)
  BY FS_Interval
<1>2. IsFiniteSet(S)
  BY <1>1, FS_Subset
<1> QED BY <1>2, FS_CardinalityType

LEMMA BeforeBounds ==
  ASSUME NEW S, IsFiniteSet(S), \A h \in S : h \in Int, NEW j \in S
  PROVE  Before(S, j) \in Nat /\ Before(S, j) < Cardinality(S)
<1> DEFINE Earlier == {h \in S : h < j}
<1>1. Cardinality(S) \in Nat
  BY FS_CardinalityType
<1>2. IsFiniteSet(S \ {j}) /\ Cardinality(S \ {j}) = Cardinality(S) - 1
  BY <1>1, FS_RemoveElement
<1>3. Earlier \in SUBSET (S \ {j})
  BY <1>1
<1>4. Cardinality(Earlier) \in Nat /\ Cardinality(Earlier) <= Cardinality(S \ {j})
  BY <1>2, <1>3, FS_Subset, FS_CardinalityType
<1>5. Before(S, j) = Cardinality(Earlier)
  BY DEF Before
<1> HIDE DEF Earlier
<1> QED BY <1>1, <1>2, <1>4, <1>5

LEMMA BeforeRises ==
  ASSUME NEW S, IsFiniteSet(S), \A h \in S : h \in Int, NEW i \in S, NEW j \in S, i < j
  PROVE  Before(S, i) < Before(S, j)
<1> DEFINE Earlier(k) == {h \in S : h < k}
<1>1. IsFiniteSet(S) /\ (\A h \in S : h \in Int) /\ i \in Int /\ j \in Int
  OBVIOUS
<1>2. IsFiniteSet(Earlier(j)) /\ i \in Earlier(j)
  BY <1>1, FS_Subset
<1>3. IsFiniteSet(Earlier(j) \ {i}) /\ Cardinality(Earlier(j) \ {i}) = Cardinality(Earlier(j)) - 1
  BY <1>2, FS_RemoveElement
<1>4. ASSUME NEW h \in Earlier(i) PROVE h \in Earlier(j) \ {i}
  <2>1. h \in Int /\ h \in S /\ h < i
    BY <1>1
  <2> QED BY <1>1, <2>1
<1>5. Cardinality(Earlier(i)) <= Cardinality(Earlier(j)) - 1
  <2>1. Earlier(i) \in SUBSET (Earlier(j) \ {i})
    BY <1>4
  <2> QED BY <1>3, <2>1, FS_Subset
<1>6. Cardinality(Earlier(i)) \in Nat /\ Cardinality(Earlier(j)) \in Nat
  BY <1>1, FS_Subset, FS_CardinalityType
<1>7. Before(S, i) = Cardinality(Earlier(i)) /\ Before(S, j) = Cardinality(Earlier(j))
  BY DEF Before
<1> HIDE DEF Earlier
<1> QED BY <1>5, <1>6, <1>7

\* Every rank is that of some place.
LEMMA RankTaken ==
  ASSUME NEW S, IsFiniteSet(S), \A h \in S : h \in Int,
         NEW i \in 1 .. Cardinality(S)
  PROVE  \E j \in S : Before(S, j) = i - 1
<1> DEFINE c == Cardinality(S)
           f == [j \in S |-> Before(S, j) + 1]
<1>1. IsFiniteSet(S) /\ c \in Nat /\ \A j \in S : j \in Int
  BY FS_CardinalityType
<1>2. \A j \in S : Before(S, j) \in Nat /\ Before(S, j) < c
  BY BeforeBounds
<1>3. f \in [S -> 1 .. c]
  BY <1>1, <1>2
<1>4. ASSUME NEW a \in S, NEW b \in S, f[a] = f[b] PROVE a = b
  <2>1. a \in Int /\ b \in Int /\ Before(S, a) = Before(S, b)
    BY <1>1, <1>2, <1>4
  <2>2. (a < b => Before(S, a) < Before(S, b)) /\ (b < a => Before(S, b) < Before(S, a))
    BY BeforeRises
  <2>3. Before(S, a) \in Nat /\ Before(S, b) \in Nat
    BY <1>2
  <2> QED BY <2>1, <2>2, <2>3
<1>5. f \in Injection(S, 1 .. c)
  BY <1>3, <1>4 DEF Injection, IsInjective
<1>6. IsFiniteSet(1 .. c) /\ Cardinality(1 .. c) = c
  BY <1>1, FS_Interval
<1>7. f \in Surjection(S, 1 .. c)
  BY <1>5, <1>6, FS_Injection
<1>8. \E j \in S : f[j] = i
  BY <1>7 DEF Surjection
<1> QED BY <1>2, <1>8

\* A finite set of numbers has a greatest one: that with the highest rank.
LEMMA Greatest ==
  ASSUME NEW S, IsFiniteSet(S), \A h \in S : h \in Int, S # {}
  PROVE  \E m \in S : \A h \in S : h <= m
<1>1. PICK c \in Nat : c = Cardinality(S)
  BY FS_CardinalityType
<1>2. c # 0
  BY <1>1, FS_EmptySet
<1>3. PICK m \in S : Before(S, m) = c - 1
  <2>1. c \in 1 .. Cardinality(S)
    BY <1>1, <1>2
  <2> QED BY <2>1, RankTaken
<1>4. ASSUME NEW h \in S PROVE h <= m
  <2>1. Before(S, h) \in Nat /\ Before(S, h) < c
    BY <1>1, BeforeBounds
  <2>2. m < h => Before(S, m) < Before(S, h)
    BY BeforeRises
  <2> QED BY <1>1, <1>3, <2>1, <2>2
<1> QED BY <1>4

LEMMA KeptPlaces ==
  ASSUME NEW k \in Key, NEW s \in Seq(Nat), NEW t \in Int
  PROVE  /\ Kept(k, s, t) \in SUBSET (1 .. Len(s)) /\ Len(s) \in Nat
         /\ IsFiniteSet(Kept(k, s, t)) /\ Cardinality(Kept(k, s, t)) \in Nat
         /\ \A i \in Kept(k, s, t) : i \in Int /\ s[i] \in Nat /\ i \in DOMAIN s
<1>1. DOMAIN s = 1 .. Len(s) /\ Len(s) \in Nat /\ \A i \in 1 .. Len(s) : s[i] \in Nat
  OBVIOUS
<1>2. Kept(k, s, t) \in SUBSET (1 .. Len(s))
  BY <1>1 DEF Kept
<1>3. \A i \in Kept(k, s, t) : i \in 1 .. Len(s)
  BY <1>2
<1> QED BY <1>1, <1>2, <1>3, FinitePlaces

\* Filtering takes the places that are kept in their order.
LEMMA Places ==
  ASSUME NEW k \in Key, NEW s \in Seq(Nat), NEW u \in Int
  PROVE  LET K == Kept(k, s, u)
             c == Cardinality(K)
         IN \E p \in [1 .. c -> K] :
              /\ InWindow(k, s, u) = [i \in 1 .. c |-> s[p[i]]]
              /\ \A i \in 1 .. c : Before(K, p[i]) = i - 1
              /\ \A i, j \in 1 .. c : i < j => p[i] < p[j]
              /\ \A j \in K : \E i \in 1 .. c : p[i] = j
<1>1. PICK K : K = Kept(k, s, u)
  OBVIOUS
<1>2. PICK c : c = Cardinality(K)
  OBVIOUS
<1>3. IsFiniteSet(K) /\ \A h \in K : h \in Int
  BY <1>1, KeptPlaces
<1>4. c \in Nat /\ \A j \in K : j \in Int
  BY <1>2, <1>3, FS_CardinalityType
<1>5. PICK p : p = [i \in 1 .. c |-> CHOOSE j \in K : Before(K, j) = i - 1]
  OBVIOUS
<1>6. ASSUME NEW i \in 1 .. c PROVE p[i] \in K /\ Before(K, p[i]) = i - 1
  <2>1. p[i] = CHOOSE j \in K : Before(K, j) = i - 1
    BY <1>5
  <2>2. \E j \in K : Before(K, j) = i - 1
    BY <1>2, <1>3, RankTaken
  <2> QED BY <2>1, <2>2
<1>7. p \in [1 .. c -> K]
  BY <1>5, <1>6
<1>8. \A j \in K : Before(K, j) \in Nat /\ Before(K, j) < c
  BY <1>2, <1>3, BeforeBounds
<1>9. \A i, j \in K : i < j => Before(K, i) < Before(K, j)
  BY <1>3, BeforeRises
<1>10. ASSUME NEW i \in 1 .. c, NEW j \in 1 .. c, i < j PROVE p[i] < p[j]
  <2>1. p[i] \in K /\ p[j] \in K /\ Before(K, p[i]) = i - 1 /\ Before(K, p[j]) = j - 1
    BY <1>6
  <2>2. p[i] \in Int /\ p[j] \in Int
    BY <1>4, <2>1
  <2>3. p[i] # p[j]
    BY <1>4, <1>10, <2>1
  <2>4. ~(p[j] < p[i])
    BY <1>4, <1>9, <1>10, <2>1
  <2> QED BY <2>2, <2>3, <2>4
<1>11. ASSUME NEW j \in K PROVE \E i \in 1 .. c : p[i] = j
  <2>1. PICK i \in 1 .. c : i = Before(K, j) + 1
    BY <1>4, <1>8
  <2>2. p[i] \in K /\ Before(K, p[i]) = Before(K, j)
    BY <1>6, <1>8, <2>1
  <2>3. p[i] \in Int /\ j \in Int
    BY <1>4, <2>2
  <2>4. ~(p[i] < j) /\ ~(j < p[i])
    BY <1>8, <1>9, <2>2
  <2> QED BY <2>3, <2>4
<1>12. InWindow(k, s, u) = [i \in 1 .. c |-> s[p[i]]]
  BY <1>1, <1>2, <1>5 DEF InWindow, Before
<1> QED BY <1>1, <1>2, <1>6, <1>7, <1>10, <1>11, <1>12

\* What filtering a list leaves: its stamps, in their order, and all those of every window
\* that does not reach back further.
LEMMA Filtered ==
  ASSUME NEW k \in Key, NEW s \in Seq(Nat), NEW u \in Int
  PROVE  LET f == InWindow(k, s, u)
         IN /\ f \in Seq(Nat) /\ Len(f) = Count(k, s, u)
            /\ Range(f) \subseteq Range(s)
            /\ Sorted(s) => Sorted(f)
            /\ \A t \in Int : /\ Count(k, f, t) <= Count(k, s, t)
                              /\ t >= u => Count(k, f, t) = Count(k, s, t)
<1>1. PICK K : K = Kept(k, s, u)
  OBVIOUS
<1>2. PICK c : c = Cardinality(K)
  OBVIOUS
<1>3. PICK f : f = InWindow(k, s, u)
  OBVIOUS
<1>4. PICK p \in [1 .. c -> K] :
        /\ f = [i \in 1 .. c |-> s[p[i]]]
        /\ \A i, j \in 1 .. c : i < j => p[i] < p[j]
        /\ \A j \in K : \E i \in 1 .. c : p[i] = j
  <2>1. \E p \in [1 .. Cardinality(Kept(k, s, u)) -> Kept(k, s, u)] :
          /\ InWindow(k, s, u) = [i \in 1 .. Cardinality(Kept(k, s, u)) |-> s[p[i]]]
          /\ \A i \in 1 .. Cardinality(Kept(k, s, u)) : Before(Kept(k, s, u), p[i]) = i - 1
          /\ \A i, j \in 1 .. Cardinality(Kept(k, s, u)) : i < j => p[i] < p[j]
          /\ \A j \in Kept(k, s, u) : \E i \in 1 .. Cardinality(Kept(k, s, u)) : p[i] = j
    BY Places, ZenonT(40)
  <2>2. \E p \in [1 .. c -> K] :
          /\ f = [i \in 1 .. c |-> s[p[i]]]
          /\ \A i \in 1 .. c : Before(K, p[i]) = i - 1
          /\ \A i, j \in 1 .. c : i < j => p[i] < p[j]
          /\ \A j \in K : \E i \in 1 .. c : p[i] = j
    BY <2>1, <1>1, <1>2, <1>3, Zenon
  <2> QED BY <2>2, Zenon
<1>5. c \in Nat /\ \A j \in K : j \in Int /\ s[j] \in Nat /\ j \in DOMAIN s
  BY <1>1, <1>2, KeptPlaces
<1>6. f \in [1 .. c -> Nat] /\ f \in Seq(Nat) /\ DOMAIN f = 1 .. c /\ Len(f) = c
  BY <1>4, <1>5
<1>7. \A i \in 1 .. c : f[i] = s[p[i]] /\ p[i] \in K /\ p[i] \in Int
  BY <1>4, <1>5
<1>8. Len(f) = Count(k, s, u)
  BY <1>1, <1>2, <1>6 DEF Count
<1>9. Range(f) \subseteq Range(s)
  BY <1>5, <1>6, <1>7 DEF Range
<1>10. ASSUME Sorted(s) PROVE Sorted(f)
  <2> SUFFICES ASSUME NEW i \in 1 .. c, NEW j \in 1 .. c, i <= j PROVE f[i] <= f[j]
    BY <1>6 DEF Sorted
  <2>1. p[i] \in DOMAIN s /\ p[j] \in DOMAIN s /\ p[i] \in Int /\ p[j] \in Int
    BY <1>5, <1>7
  <2>2. i < j \/ i = j
    BY <1>5
  <2>3. p[i] <= p[j]
    BY <1>4, <2>1, <2>2
  <2> QED BY <1>7, <1>10, <2>1, <2>3 DEF Sorted
<1>11. ASSUME NEW t \in Int
       PROVE  Count(k, f, t) <= Count(k, s, t) /\ (t >= u => Count(k, f, t) = Count(k, s, t))
  <2>1. PICK F : F = Kept(k, f, t)
    OBVIOUS
  <2>2. PICK T : T = Kept(k, s, t)
    OBVIOUS
  <2>3. IsFiniteSet(T) /\ \A i \in F : i \in 1 .. c
    BY <1>6, <2>1, <2>2, KeptPlaces DEF Kept
  <2>4. PICK g : g = [i \in F |-> p[i]]
    OBVIOUS
  <2>5. ASSUME NEW i \in F PROVE g[i] \in T
    <3>1. i \in 1 .. c /\ t - f[i] < Window[k] /\ p[i] \in DOMAIN s /\ f[i] = s[p[i]]
      BY <1>5, <1>7, <2>1, <2>3 DEF Kept
    <3> QED BY <2>2, <2>4, <3>1 DEF Kept
  <2>6. ASSUME NEW i \in F, NEW j \in F, g[i] = g[j] PROVE i = j
    <3>1. i \in 1 .. c /\ j \in 1 .. c /\ p[i] = p[j]
      BY <2>3, <2>4, <2>6
    <3>2. p[i] \in Int /\ p[j] \in Int
      BY <1>7, <3>1
    <3>3. ~(i < j) /\ ~(j < i)
      BY <1>4, <3>1, <3>2
    <3> QED BY <1>5, <3>1, <3>3
  <2>7. g \in Injection(F, T)
    BY <2>4, <2>5, <2>6 DEF Injection, IsInjective
  <2>8. Cardinality(F) <= Cardinality(T) /\ (Cardinality(F) = Cardinality(T) <=> g \in Surjection(F, T))
    BY <2>3, <2>7, FS_Injection
  <2>9. ASSUME t >= u PROVE g \in Surjection(F, T)
    <3>1. ASSUME NEW j \in T PROVE \E i \in F : g[i] = j
      <4>1. j \in DOMAIN s /\ t - s[j] < Window[k] /\ s[j] \in Nat
        BY <2>2, KeptPlaces DEF Kept
      <4>2. u - s[j] < Window[k]
        BY <2>9, <4>1, Constants
      <4>3. j \in K
        BY <1>1, <4>1, <4>2 DEF Kept
      <4>4. PICK i \in 1 .. c : p[i] = j
        BY <1>4, <4>3
      <4>5. i \in F
        BY <1>6, <1>7, <2>1, <4>1, <4>4 DEF Kept
      <4> QED BY <2>4, <4>4, <4>5
    <3> QED BY <2>4, <2>5, <3>1 DEF Surjection
  <2> QED BY <2>1, <2>2, <2>8, <2>9 DEF Count
<1> QED BY <1>3, <1>6, <1>8, <1>9, <1>10, <1>11

\* One more stamp counts in the windows it is in.
LEMMA Appended ==
  ASSUME NEW k \in Key, NEW s \in Seq(Nat), NEW x \in Nat, NEW t \in Int
  PROVE  /\ Append(s, x) \in Seq(Nat)
         /\ Count(k, s, t) \in Nat /\ Count(k, Append(s, x), t) \in Nat
         /\ t - x < Window[k] => Count(k, Append(s, x), t) = Count(k, s, t) + 1
         /\ ~(t - x < Window[k]) => Count(k, Append(s, x), t) = Count(k, s, t)
<1>1. PICK a : a = Append(s, x)
  OBVIOUS
<1>2. PICK n : n = Len(s)
  OBVIOUS
<1>3. n \in Nat /\ DOMAIN s = 1 .. n /\ a \in Seq(Nat) /\ DOMAIN a = 1 .. n + 1
  BY <1>1, <1>2
<1>4. a[n + 1] = x /\ \A i \in 1 .. n : a[i] = s[i]
  BY <1>1, <1>2
<1>5. PICK K : K = Kept(k, s, t)
  OBVIOUS
<1>6. PICK A : A = Kept(k, a, t)
  OBVIOUS
<1>7. IsFiniteSet(K) /\ Cardinality(K) \in Nat /\ Cardinality(A) \in Nat
  BY <1>3, <1>5, <1>6, KeptPlaces
<1>8. n + 1 \notin K /\ \A i \in 1 .. n : i \in A <=> i \in K
  BY <1>3, <1>4, <1>5, <1>6 DEF Kept
<1>9. n + 1 \in A <=> t - x < Window[k]
  BY <1>3, <1>4, <1>6 DEF Kept
<1>10. K \subseteq 1 .. n /\ A \subseteq 1 .. n + 1
  BY <1>3, <1>5, <1>6 DEF Kept
<1>13. \A i : i \in A <=> i \in K \/ (i = n + 1 /\ n + 1 \in A)
  <2>1. \A i \in 1 .. n + 1 : i \in 1 .. n \/ i = n + 1
    BY <1>3
  <2>2. \A i \in 1 .. n : i \in 1 .. n + 1 /\ i # n + 1
    BY <1>3
  <2> QED BY <1>8, <1>10, <2>1, <2>2
<1>11. CASE t - x < Window[k]
  <2>1. A = K \cup {n + 1}
    BY <1>9, <1>11, <1>13
  <2>2. Cardinality(A) = Cardinality(K) + 1
    BY <1>7, <1>8, <2>1, FS_AddElement
  <2> QED BY <1>1, <1>3, <1>5, <1>6, <1>7, <1>11, <2>2 DEF Count
<1>12. CASE ~(t - x < Window[k])
  <2>1. A = K
    BY <1>9, <1>12, <1>13
  <2> QED BY <1>1, <1>3, <1>5, <1>6, <1>7, <1>12, <2>1 DEF Count
<1> QED BY <1>11, <1>12

\* A later window has fewer.
LEMMA CountFalls ==
  ASSUME NEW k \in Key, NEW s \in Seq(Nat), NEW t \in Int, NEW u \in Int, t <= u
  PROVE  /\ Count(k, s, t) \in Nat /\ Count(k, s, u) \in Nat /\ Count(k, s, u) <= Count(k, s, t)
<1>1. \A i \in DOMAIN s : s[i] \in Nat
  OBVIOUS
<1>2. IsFiniteSet(Kept(k, s, t))
  BY KeptPlaces
<1>3. Kept(k, s, u) \in SUBSET Kept(k, s, t)
  BY <1>1, Constants DEF Kept
<1> QED BY <1>2, <1>3, FS_Subset, KeptPlaces DEF Count

LEMMA CountEmpty ==
  ASSUME NEW k \in Key, NEW t \in Int
  PROVE  Count(k, <<>>, t) = 0
<1>1. Kept(k, <<>>, t) = {}
  BY DEF Kept
<1> QED BY <1>1, FS_EmptySet DEF Count

\* A key that is full is one whose list has that many stamps in the window.
LEMMA FullCounts ==
  ASSUME NEW k \in Key, stamps[k] \in Seq(Nat), NEW t \in Int
  PROVE  Full(k, t) <=> Count(k, stamps[k], t) >= Limit[k]
<1>1. Len(InWindow(k, stamps[k], t)) = Count(k, stamps[k], t)
  BY Filtered
<1> QED BY <1>1 DEF Full

\* The keys of a request after the next.
LEMMA NextKey ==
  ASSUME NEW s \in Seq(Key), s # <<>>, IsInjective(s)
  PROVE  /\ Head(s) \in Range(s) /\ Head(s) \in Key /\ Tail(s) \in Seq(Key) /\ IsInjective(Tail(s))
         /\ Range(Tail(s)) = Range(s) \ {Head(s)}
         /\ Len(s) = 1 <=> Tail(s) = <<>>
         /\ Len(s) \in Nat /\ Len(s) >= 1 /\ Range(s) \subseteq Key
<1>1. PICK n \in Nat : n = Len(s) /\ n >= 1 /\ DOMAIN s = 1 .. n /\ \A i \in 1 .. n : s[i] \in Key
  OBVIOUS
<1>2. Head(s) = s[1] /\ 1 \in 1 .. n
  BY <1>1
<1>3. PICK r : r = Tail(s)
  OBVIOUS
<1>4. r \in Seq(Key) /\ Len(r) = n - 1 /\ DOMAIN r = 1 .. n - 1 /\ \A i \in 1 .. n - 1 : r[i] = s[i + 1]
  BY <1>1, <1>3
<1>5. \A i, j \in 1 .. n : s[i] = s[j] => i = j
  BY <1>1 DEF IsInjective
<1>6. IsInjective(r)
  <2> SUFFICES ASSUME NEW i \in 1 .. n - 1, NEW j \in 1 .. n - 1, r[i] = r[j] PROVE i = j
    BY <1>4 DEF IsInjective
  <2>1. i + 1 \in 1 .. n /\ j + 1 \in 1 .. n /\ s[i + 1] = s[j + 1]
    BY <1>4
  <2>2. i + 1 = j + 1
    BY <1>5, <2>1
  <2> QED BY <2>2
<1>7. ASSUME NEW x \in Range(r) PROVE x \in Range(s) \ {s[1]}
  <2>1. PICK i \in 1 .. n - 1 : x = r[i]
    BY <1>4, <1>7 DEF Range
  <2>2. i + 1 \in 1 .. n /\ i + 1 # 1 /\ x = s[i + 1]
    BY <1>4, <2>1
  <2> QED BY <1>1, <1>2, <1>5, <2>2 DEF Range
<1>8. ASSUME NEW x \in Range(s) \ {s[1]} PROVE x \in Range(r)
  <2>1. PICK i \in 1 .. n : x = s[i]
    BY <1>1, <1>8 DEF Range
  <2>2. i # 1
    BY <1>8, <2>1
  <2>3. i - 1 \in 1 .. n - 1 /\ r[i - 1] = x
    BY <1>4, <2>1, <2>2
  <2> QED BY <1>4, <2>3 DEF Range
<1>9. Range(r) = Range(s) \ {s[1]}
  BY <1>7, <1>8
<1>10. s[1] \in Range(s) /\ s[1] \in Key /\ Range(s) \subseteq Key
  BY <1>1, <1>2 DEF Range
<1>11. n = 1 <=> r = <<>>
  BY <1>1, <1>4
<1> QED BY <1>1, <1>2, <1>3, <1>4, <1>6, <1>9, <1>10, <1>11

-----------------------------------------------------------------------------
(* Lists in the order of time.                                             *)

LEMMA AppendedRange ==
  ASSUME NEW s \in Seq(Nat), NEW x \in Nat
  PROVE  /\ Range(Append(s, x)) = Range(s) \cup {x} /\ Append(s, x) \in Seq(Nat)
         /\ \A y \in Range(s) : y \in Nat
<1>1. PICK a : a = Append(s, x)
  OBVIOUS
<1>2. PICK n : n = Len(s)
  OBVIOUS
<1>3. n \in Nat /\ DOMAIN s = 1 .. n /\ a \in Seq(Nat) /\ DOMAIN a = 1 .. n + 1
  BY <1>1, <1>2
<1>4. a[n + 1] = x /\ (\A i \in 1 .. n : a[i] = s[i]) /\ \A i \in 1 .. n : s[i] \in Nat
  BY <1>1, <1>2
<1>5. ASSUME NEW y \in Range(a) PROVE y \in Range(s) \cup {x}
  <2>1. PICK i \in 1 .. n + 1 : y = a[i]
    BY <1>3, <1>5 DEF Range
  <2>2. i \in 1 .. n \/ i = n + 1
    BY <1>3
  <2> QED BY <1>3, <1>4, <2>1, <2>2 DEF Range
<1>6. ASSUME NEW y \in Range(s) PROVE y \in Range(a) /\ y \in Nat
  <2>1. PICK i \in 1 .. n : y = s[i]
    BY <1>3, <1>6 DEF Range
  <2>2. i \in 1 .. n + 1 /\ a[i] = y
    BY <1>3, <1>4, <2>1
  <2> QED BY <1>3, <1>4, <2>1, <2>2 DEF Range
<1>7. x \in Range(a)
  <2>1. n + 1 \in 1 .. n + 1
    BY <1>3
  <2> QED BY <1>3, <1>4, <2>1 DEF Range
<1> QED BY <1>1, <1>3, <1>5, <1>6, <1>7

LEMMA SortedAppended ==
  ASSUME NEW s \in Seq(Nat), NEW x \in Nat, Sorted(s), \A y \in Range(s) : y <= x
  PROVE  Sorted(Append(s, x))
<1>1. PICK a : a = Append(s, x)
  OBVIOUS
<1>2. PICK n : n = Len(s)
  OBVIOUS
<1>3. n \in Nat /\ DOMAIN s = 1 .. n /\ DOMAIN a = 1 .. n + 1
  BY <1>1, <1>2
<1>4. a[n + 1] = x /\ (\A i \in 1 .. n : a[i] = s[i]) /\ \A i \in 1 .. n : s[i] \in Nat
  BY <1>1, <1>2
<1>5. ASSUME NEW i \in 1 .. n + 1, NEW j \in 1 .. n + 1, i <= j PROVE a[i] <= a[j]
  <2>1. CASE j \in 1 .. n
    <3>1. i \in 1 .. n
      BY <1>3, <1>5, <2>1
    <3> QED BY <1>3, <1>4, <1>5, <2>1, <3>1 DEF Sorted
  <2>2. CASE j = n + 1 /\ i \in 1 .. n
    <3>1. s[i] \in Range(s)
      BY <1>3, <2>2 DEF Range
    <3> QED BY <1>4, <2>2, <3>1
  <2>3. CASE j = n + 1 /\ i = n + 1
    BY <1>4, <2>3
  <2>4. (j \in 1 .. n \/ j = n + 1) /\ (i \in 1 .. n \/ i = n + 1)
    BY <1>3
  <2> QED BY <2>1, <2>2, <2>3, <2>4
<1> QED BY <1>1, <1>3, <1>5 DEF Sorted

\* An attempt that is made while a window has room is a window apart from the one Limit before.
LEMMA ApartByRoom ==
  ASSUME NEW k \in Key, NEW s \in Seq(Nat), NEW x \in Nat, Sorted(s), \A y \in Range(s) : y <= x,
         Apart(s, Limit[k], Window[k]), Count(k, s, x) < Limit[k]
  PROVE  Apart(Append(s, x), Limit[k], Window[k])
<1>1. PICK a : a = Append(s, x)
  OBVIOUS
<1>2. PICK n : n = Len(s)
  OBVIOUS
<1>3. PICK m : m = Limit[k]
  OBVIOUS
<1>4. n \in Nat /\ DOMAIN s = 1 .. n /\ DOMAIN a = 1 .. n + 1 /\ m \in Nat /\ m > 0
  BY <1>1, <1>2, <1>3, Constants
<1>5. a[n + 1] = x /\ (\A i \in 1 .. n : a[i] = s[i]) /\ \A i \in 1 .. n : s[i] \in Nat
  BY <1>1, <1>2
<1>6. ASSUME NEW i \in 1 .. n + 1, i + m \in 1 .. n + 1 PROVE a[i + m] - a[i] >= Window[k]
  <2>1. i \in 1 .. n
    BY <1>4, <1>6
  <2>2. CASE i + m \in 1 .. n
    <3>1. s[i + m] - s[i] >= Window[k]
      BY <1>3, <1>4, <2>1, <2>2 DEF Apart
    <3> QED BY <1>5, <2>1, <2>2, <3>1
  <2>3. CASE i + m = n + 1 /\ x - s[i] < Window[k]
    <3>1. ASSUME NEW j \in i .. n PROVE j \in Kept(k, s, x)
      <4>1. j \in 1 .. n /\ i <= j
        BY <1>4, <2>1
      <4>2. s[i] <= s[j] /\ s[i] \in Nat /\ s[j] \in Nat
        BY <1>4, <1>5, <2>1, <4>1 DEF Sorted
      <4>3. x - s[j] < Window[k]
        BY <2>3, <4>2, Constants
      <4> QED BY <1>4, <4>1, <4>3 DEF Kept
    <3>2. IsFiniteSet(Kept(k, s, x)) /\ Cardinality(Kept(k, s, x)) \in Nat
      BY KeptPlaces
    <3>3. (i .. n) \in SUBSET Kept(k, s, x)
      BY <3>1
    <3>4. Cardinality(i .. n) <= Cardinality(Kept(k, s, x))
      BY <3>2, <3>3, FS_Subset
    <3>5. Cardinality(i .. n) = m
      <4>1. Cardinality(i .. n) = IF i > n THEN 0 ELSE n - i + 1
        BY <1>4, <2>1, FS_Interval
      <4> QED BY <1>4, <2>1, <2>3, <4>1
    <3> QED BY <1>3, <1>4, <3>2, <3>4, <3>5 DEF Count
  <2>4. CASE i + m = n + 1 /\ ~(x - s[i] < Window[k])
    <3>1. a[i + m] = x /\ a[i] = s[i] /\ s[i] \in Nat /\ Window[k] \in Nat
      BY <1>5, <2>1, <2>4, Constants
    <3> QED BY <2>4, <3>1
  <2>5. i + m \in 1 .. n \/ i + m = n + 1
    BY <1>4, <1>6
  <2> QED BY <2>2, <2>3, <2>4, <2>5
<1> QED BY <1>1, <1>3, <1>4, <1>6 DEF Apart

LEMMA ApartByCooldown ==
  ASSUME NEW s \in Seq(Nat), NEW x \in Nat, Apart(s, 1, Cooldown),
         \A y \in Range(s) : y + Cooldown <= x
  PROVE  Apart(Append(s, x), 1, Cooldown)
<1>1. PICK a : a = Append(s, x)
  OBVIOUS
<1>2. PICK n : n = Len(s)
  OBVIOUS
<1>3. n \in Nat /\ DOMAIN s = 1 .. n /\ DOMAIN a = 1 .. n + 1 /\ Cooldown \in Nat
  BY <1>1, <1>2, Constants
<1>4. a[n + 1] = x /\ (\A i \in 1 .. n : a[i] = s[i]) /\ \A i \in 1 .. n : s[i] \in Nat
  BY <1>1, <1>2
<1>5. ASSUME NEW i \in 1 .. n + 1, i + 1 \in 1 .. n + 1 PROVE a[i + 1] - a[i] >= Cooldown
  <2>1. i \in 1 .. n
    BY <1>3, <1>5
  <2>2. CASE i + 1 \in 1 .. n
    BY <1>3, <1>4, <2>1, <2>2 DEF Apart
  <2>3. CASE i = n
    <3>1. s[i] \in Range(s)
      BY <1>3, <2>1 DEF Range
    <3> QED BY <1>3, <1>4, <2>1, <2>3, <3>1
  <2> QED BY <1>3, <2>1, <2>2, <2>3
<1> QED BY <1>1, <1>3, <1>5 DEF Apart

-----------------------------------------------------------------------------
(* Types, and what a step of one worker leaves as it is.                    *)

Base ==
  /\ TypeOK /\ Shape
  /\ \A w \in Worker : RequestOK(w)
  /\ \A k \in Key : counted[k] # <<>> => \E a \in Ask : a.kind = site.kind /\ k \in Range(a.keys)

AllEarned == \A k \in Key : site.serial \/ ~Pair(k) => EarnedOK(k)

LEMMA Parts == IInv <=> Base /\ AllEarned /\ (site.serial => SerialOK)
BY DEF IInv, Base, AllEarned

\* A stamp in a list is a natural number.
LEMMA TimesAreNat ==
  ASSUME site \in Site, NEW s \in Times
  PROVE  s \in Seq(Nat) /\ Len(s) \in Nat /\ \A i \in DOMAIN s : s[i] \in Nat /\ s[i] <= site.maxTime
<1>1. PICK m \in Nat : m = site.maxTime
  BY Constants
<1>2. s \in Seq(0 .. m)
  BY <1>1 DEF Times
<1>3. PICK n \in Nat : n = Len(s)
  BY <1>2
<1>4. DOMAIN s = 1 .. n /\ s = [i \in 1 .. n |-> s[i]] /\ \A i \in 1 .. n : s[i] \in 0 .. m
  BY <1>2, <1>3
<1>5. \A i \in 1 .. n : s[i] \in Nat /\ s[i] <= m
  BY <1>1, <1>4
<1>6. s \in [1 .. n -> Nat]
  BY <1>4, <1>5
<1>7. s \in Seq(Nat)
  BY <1>6
<1> QED BY <1>1, <1>3, <1>4, <1>5, <1>7

\* A filtered list, and one with a stamp that is not in the future, are lists of times.
LEMMA FilteredTimes ==
  ASSUME site \in Site, NEW k \in Key, NEW s \in Times, NEW u \in Int
  PROVE  InWindow(k, s, u) \in Times
<1>1. PICK m \in Nat : m = site.maxTime
  BY Constants
<1>2. PICK f : f = InWindow(k, s, u)
  OBVIOUS
<1>3. s \in Seq(Nat) /\ \A i \in DOMAIN s : s[i] \in Nat /\ s[i] <= m
  BY <1>1, TimesAreNat
<1>4. f \in Seq(Nat) /\ Range(f) \subseteq Range(s)
  BY <1>2, <1>3, Filtered
<1>5. \A x \in Range(s) : x \in 0 .. m
  BY <1>1, <1>3 DEF Range
<1>6. PICK n \in Nat : n = Len(f)
  BY <1>4
<1>7. DOMAIN f = 1 .. n /\ f = [i \in 1 .. n |-> f[i]]
  BY <1>4, <1>6
<1>8. \A i \in 1 .. n : f[i] \in 0 .. m
  BY <1>4, <1>5, <1>7 DEF Range
<1>9. f \in [1 .. n -> 0 .. m]
  BY <1>7, <1>8
<1>10. f \in Seq(0 .. m)
  BY <1>9
<1> QED BY <1>1, <1>2, <1>10 DEF Times

LEMMA AppendedTimes ==
  ASSUME site \in Site, NEW s \in Times, NEW x \in 0 .. site.maxTime
  PROVE  Append(s, x) \in Times
<1>1. s \in Seq(0 .. site.maxTime)
  BY DEF Times
<1>2. Append(s, x) \in Seq(0 .. site.maxTime)
  BY <1>1
<1> QED BY <1>2 DEF Times

LEMMA NoTimes == <<>> \in Times
BY DEF Times

LEMMA Typed ==
  ASSUME Base
  PROVE  /\ site \in Site /\ now \in Nat /\ now <= site.maxTime /\ site.maxTime \in Nat
         /\ site.serial \in BOOLEAN
         /\ \A k \in Key : /\ stamps[k] \in Seq(Nat) /\ made[k] \in Seq(Nat) /\ counted[k] \in Seq(Nat)
                           /\ stamps[k] \in Times /\ made[k] \in Times /\ counted[k] \in Times
                           /\ cool[k] \in Nat
         /\ \A w \in Worker :
              /\ req[w] \in Work
              /\ req[w].pc \in {"idle", "check", "act", "read", "write"}
              /\ req[w].kind \in {"login", "resend", "chat"}
              /\ req[w].keys \in Seq(Key) /\ req[w].left \in Seq(Key)
              /\ req[w].at \in 0 .. site.maxTime /\ req[w].at \in Nat
              /\ req[w].seen \in Times /\ req[w].seen \in Seq(Nat) /\ req[w].failed \in BOOLEAN
              /\ req[w].pc \in {"check", "read", "write"} => req[w].left # <<>>
<1>1. /\ site \in Site /\ now \in 0 .. site.maxTime
      /\ \A w \in Worker : req[w].pc \in {"check", "read", "write"} => req[w].left # <<>>
  BY DEF Base, TypeOK
<1>2. site.maxTime \in Nat /\ site.serial \in BOOLEAN
  BY <1>1, Constants
<1>3. ASSUME NEW k \in Key
      PROVE  /\ stamps[k] \in Seq(Nat) /\ made[k] \in Seq(Nat) /\ counted[k] \in Seq(Nat)
             /\ stamps[k] \in Times /\ made[k] \in Times /\ counted[k] \in Times /\ cool[k] \in Nat
  <2>1. stamps[k] \in Times /\ made[k] \in Times /\ counted[k] \in Times /\ cool[k] \in Nat
    BY DEF Base, Shape
  <2> QED BY <1>1, <2>1, TimesAreNat
<1>4. ASSUME NEW w \in Worker
      PROVE  /\ req[w] \in Work
             /\ req[w].pc \in {"idle", "check", "act", "read", "write"}
             /\ req[w].kind \in {"login", "resend", "chat"}
             /\ req[w].keys \in Seq(Key) /\ req[w].left \in Seq(Key)
             /\ req[w].at \in 0 .. site.maxTime /\ req[w].at \in Nat
             /\ req[w].seen \in Times /\ req[w].seen \in Seq(Nat) /\ req[w].failed \in BOOLEAN
  <2>1. req[w] \in Work
    BY DEF Base, Shape
  <2>2. /\ req[w].pc \in {"idle", "check", "act", "read", "write"}
        /\ req[w].kind \in {"login", "resend", "chat"}
        /\ req[w].keys \in Seq(Key) /\ req[w].left \in Seq(Key)
        /\ req[w].at \in 0 .. site.maxTime /\ req[w].seen \in Times /\ req[w].failed \in BOOLEAN
    BY <2>1 DEF Work
  <2>3. req[w].at \in Nat
    BY <1>2, <2>2
  <2> QED BY <1>1, <2>1, <2>2, <2>3, TimesAreNat
<1> QED BY <1>1, <1>2, <1>3, <1>4

\* The types after a step that writes lists of times and one worker's record.
LEMMA Retyped ==
  ASSUME Base, NEW w \in Worker, NEW r \in Work, site' = site, now' \in 0 .. site.maxTime,
         req' = [req EXCEPT ![w] = r],
         r.pc \in {"check", "read", "write"} => r.left # <<>>,
         stamps' \in [Key -> Times], made' \in [Key -> Times], counted' \in [Key -> Times],
         cool' \in [Key -> Nat]
  PROVE  /\ TypeOK' /\ Shape'
         /\ req'[w] = r /\ \A v \in Worker \ {w} : req'[v] = req[v]
<1>1. Times' = Times /\ Work' = Work
  BY DEF Times, Work
<1>2. req \in [Worker -> Work] /\ site \in Site
  BY DEF Base, Shape, TypeOK
<1>3. req' \in [Worker -> Work]
  BY <1>2
<1>4. Shape'
  BY <1>1, <1>3 DEF Shape
<1>5. req'[w] = r /\ \A v \in Worker \ {w} : req'[v] = req[v]
  BY <1>2
<1>6. ASSUME NEW v \in Worker
      PROVE  /\ req'[v].pc \in {"idle", "check", "act", "read", "write"} /\ req'[v].seen \in Times
             /\ req'[v].pc \in {"check", "read", "write"} => req'[v].left # <<>>
  <2>1. req'[v] \in Work
    BY <1>3
  <2>2. CASE v = w
    BY <1>5, <2>1, <2>2 DEF Work
  <2>3. CASE v # w
    BY <1>5, <2>1, <2>3, Typed DEF Work
  <2> QED BY <2>2, <2>3
<1>7. \A k \in Key : /\ stamps'[k] \in Times /\ made'[k] \in Times /\ counted'[k] \in Times
                     /\ cool'[k] \in Nat
  OBVIOUS
<1>8. TypeOK'
  BY <1>1, <1>2, <1>6, <1>7 DEF TypeOK
<1> QED BY <1>4, <1>5, <1>8

\* The requests after such a step.
LEMMA RequestsKept ==
  ASSUME Base, NEW w \in Worker, NEW r, site' = site, now' \in Nat, now <= now',
         req'[w] = r, \A v \in Worker \ {w} : req'[v] = req[v],
         r.pc # "idle" =>
           /\ \E a \in Ask : a.kind = site.kind /\ r.kind = a.kind /\ r.keys = a.keys
           /\ Range(r.left) \subseteq Range(r.keys) /\ IsInjective(r.left)
           /\ r.at <= now'
           /\ r.pc = "act" /\ ~r.failed => r.left = <<>>
  PROVE  \A v \in Worker : RequestOK(v)'
<1> SUFFICES ASSUME NEW v \in Worker PROVE RequestOK(v)'
  OBVIOUS
<1>1. CASE v = w
  BY <1>1 DEF RequestOK
<1>2. CASE v # w
  <2>1. RequestOK(v) /\ req'[v] = req[v] /\ req[v].at \in Nat /\ now \in Nat
    BY <1>2, Typed DEF Base
  <2>2. req[v].pc # "idle" => req[v].at <= now'
    BY <2>1 DEF RequestOK
  <2> QED BY <2>1, <2>2 DEF RequestOK
<1> QED BY <1>1, <1>2

-----------------------------------------------------------------------------
(* A refusal is earned.                                                    *)

\* A step of w changes nothing in what the others owe.
LEMMA OwedSplit ==
  ASSUME NEW w \in Worker, \A v \in Worker \ {w} : req'[v] = req[v], NEW k \in Key, NEW t \in Int
  PROVE  \E n \in Nat :
           /\ w \in Owed(k, t) => Cardinality(Owed(k, t)) = n + 1
           /\ w \notin Owed(k, t) => Cardinality(Owed(k, t)) = n
           /\ w \in Owed(k, t)' => Cardinality(Owed(k, t)') = n + 1
           /\ w \notin Owed(k, t)' => Cardinality(Owed(k, t)') = n
<1>1. PICK A : A = Owed(k, t)
  OBVIOUS
<1>2. PICK B : B = Owed(k, t)'
  OBVIOUS
<1>3. A \subseteq Worker /\ B \subseteq Worker /\ A \ {w} = B \ {w}
  BY <1>1, <1>2 DEF Owed
<1>4. IsFiniteSet(A) /\ IsFiniteSet(B)
  BY <1>3, Constants, FS_Subset
<1>5. IsFiniteSet(A \ {w}) /\ Cardinality(A \ {w}) = IF w \in A THEN Cardinality(A) - 1 ELSE Cardinality(A)
  BY <1>4, FS_RemoveElement
<1>6. Cardinality(B \ {w}) = IF w \in B THEN Cardinality(B) - 1 ELSE Cardinality(B)
  BY <1>4, FS_RemoveElement
<1>7. Cardinality(A) \in Nat /\ Cardinality(B) \in Nat /\ Cardinality(A \ {w}) \in Nat
  BY <1>4, <1>5, FS_CardinalityType
<1>8. PICK n \in Nat : n = Cardinality(A \ {w}) /\ n = Cardinality(B \ {w})
  BY <1>3, <1>7
<1>9. /\ w \in A => Cardinality(A) = n + 1
      /\ w \notin A => Cardinality(A) = n
      /\ w \in B => Cardinality(B) = n + 1
      /\ w \notin B => Cardinality(B) = n
  BY <1>5, <1>6, <1>7, <1>8
<1> QED BY <1>1, <1>2, <1>9

LEMMA Counted ==
  ASSUME Base, NEW k \in Key, NEW t \in Int
  PROVE  /\ Count(k, stamps[k], t) \in Nat /\ Count(k, made[k], t) \in Nat
         /\ Count(k, counted[k], t) \in Nat
         /\ \A w \in Worker : Count(k, req[w].seen, t) \in Nat
<1>1. \A s \in Seq(Nat) : Count(k, s, t) \in Nat
  BY KeptPlaces DEF Count
<1> QED BY <1>1, Typed

\* A request that begins no recording and leaves the list alone may only take a smaller one to
\* replace it.
LEMMA EarnedKept ==
  ASSUME Base, NEW w \in Worker, NEW r, site' = site, site.maxTime \in Nat,
         req'[w] = r, \A v \in Worker \ {w} : req'[v] = req[v],
         NEW k \in Key, EarnedOK(k), stamps'[k] = stamps[k], made'[k] = made[k],
         r.pc \in {"read", "write"} /\ k \in Range(r.left) =>
           req[w].pc \in {"read", "write"} /\ k \in Range(req[w].left) /\ r.at = req[w].at,
         r.pc = "write" /\ Head(r.left) = k =>
           \A t \in Int : /\ Count(k, r.seen, t) \in Nat
                          /\ Count(k, r.seen, t) <= Count(k, stamps[k], t)
  PROVE  EarnedOK(k)'
<1> SUFFICES ASSUME NEW t \in 0 .. site.maxTime
             PROVE  /\ Count(k, stamps[k], t) + Cardinality(Owed(k, t)') <= Count(k, made[k], t)
                    /\ \A v \in Worker :
                         req'[v].pc = "write" /\ Head(req'[v].left) = k =>
                           Count(k, req'[v].seen, t) + Cardinality(Owed(k, t)') <= Count(k, made[k], t)
  BY DEF EarnedOK
<1>1. t \in Int
  OBVIOUS
<1>2. w \in Owed(k, t)' => w \in Owed(k, t)
  BY DEF Owed
<1>3. PICK n \in Nat :
           /\ w \in Owed(k, t) => Cardinality(Owed(k, t)) = n + 1
           /\ w \notin Owed(k, t) => Cardinality(Owed(k, t)) = n
           /\ w \in Owed(k, t)' => Cardinality(Owed(k, t)') = n + 1
           /\ w \notin Owed(k, t)' => Cardinality(Owed(k, t)') = n
  BY <1>1, OwedSplit
<1>4. PICK a : a = Cardinality(Owed(k, t))
  OBVIOUS
<1>5. PICK b : b = Cardinality(Owed(k, t)')
  OBVIOUS
<1>6. a \in Nat /\ b \in Nat /\ b <= a
  BY <1>2, <1>3, <1>4, <1>5
<1>7. /\ Count(k, stamps[k], t) \in Nat /\ Count(k, made[k], t) \in Nat
      /\ \A v \in Worker : Count(k, req[v].seen, t) \in Nat
  BY <1>1, Counted
<1>8. Count(k, stamps[k], t) + a <= Count(k, made[k], t)
  BY <1>4 DEF EarnedOK
<1>9. Count(k, stamps[k], t) + b <= Count(k, made[k], t)
  BY <1>6, <1>7, <1>8
<1>10. ASSUME NEW v \in Worker, req'[v].pc = "write", Head(req'[v].left) = k
       PROVE  Count(k, req'[v].seen, t) + b <= Count(k, made[k], t)
  <2>1. CASE v = w
    <3>1. Count(k, r.seen, t) \in Nat /\ Count(k, r.seen, t) <= Count(k, stamps[k], t)
      BY <1>1, <1>10, <2>1
    <3>2. Count(k, r.seen, t) + b <= Count(k, made[k], t)
      BY <1>6, <1>7, <1>9, <3>1
    <3> QED BY <2>1, <3>2
  <2>2. CASE v # w
    <3>1. req'[v] = req[v]
      BY <2>2
    <3>2. Count(k, req[v].seen, t) + a <= Count(k, made[k], t)
      BY <1>4, <1>10, <3>1 DEF EarnedOK
    <3>3. Count(k, req[v].seen, t) + b <= Count(k, made[k], t)
      BY <1>6, <1>7, <3>2
    <3> QED BY <3>1, <3>3
  <2> QED BY <2>1, <2>2
<1> QED BY <1>5, <1>9, <1>10

\* An attempt is made before it is owed to the list.
LEMMA EarnedMore ==
  ASSUME Base, NEW w \in Worker, NEW r, site' = site, site.maxTime \in Nat,
         req'[w] = r, \A v \in Worker \ {w} : req'[v] = req[v], req[w].pc = "act",
         NEW k \in Key, EarnedOK(k), stamps'[k] = stamps[k], made'[k] = Append(made[k], r.at),
         r.pc = "read", r.at \in Nat
  PROVE  EarnedOK(k)'
<1> SUFFICES ASSUME NEW t \in 0 .. site.maxTime
             PROVE  /\ Count(k, stamps[k], t) + Cardinality(Owed(k, t)')
                         <= Count(k, Append(made[k], r.at), t)
                    /\ \A v \in Worker :
                         req'[v].pc = "write" /\ Head(req'[v].left) = k =>
                           Count(k, req'[v].seen, t) + Cardinality(Owed(k, t)')
                             <= Count(k, Append(made[k], r.at), t)
  BY DEF EarnedOK
<1>1. t \in Int
  OBVIOUS
<1>2. w \notin Owed(k, t) /\ (w \in Owed(k, t)' => t - r.at < Window[k])
  BY DEF Owed
<1>3. PICK n \in Nat :
           /\ w \in Owed(k, t) => Cardinality(Owed(k, t)) = n + 1
           /\ w \notin Owed(k, t) => Cardinality(Owed(k, t)) = n
           /\ w \in Owed(k, t)' => Cardinality(Owed(k, t)') = n + 1
           /\ w \notin Owed(k, t)' => Cardinality(Owed(k, t)') = n
  BY <1>1, OwedSplit
<1>4. PICK m : m = Count(k, made[k], t)
  OBVIOUS
<1>5. PICK b : b = Cardinality(Owed(k, t)')
  OBVIOUS
<1>6. PICK h : h = Count(k, Append(made[k], r.at), t)
  OBVIOUS
<1>7. /\ Count(k, stamps[k], t) \in Nat /\ m \in Nat
      /\ \A v \in Worker : Count(k, req[v].seen, t) \in Nat
  BY <1>1, <1>4, Counted
<1>8. h \in Nat /\ (t - r.at < Window[k] => h = m + 1) /\ (~(t - r.at < Window[k]) => h = m)
  BY <1>1, <1>4, <1>6, Typed, Appended
<1>9. Cardinality(Owed(k, t)) = n /\ b \in Nat /\ b - n <= h - m
  BY <1>2, <1>3, <1>5, <1>7, <1>8
<1>10. Count(k, stamps[k], t) + n <= m
  BY <1>4, <1>9 DEF EarnedOK
<1>11. Count(k, stamps[k], t) + b <= h
  BY <1>7, <1>8, <1>9, <1>10
<1>12. ASSUME NEW v \in Worker, req'[v].pc = "write", Head(req'[v].left) = k
       PROVE  Count(k, req'[v].seen, t) + b <= h
  <2>1. v # w /\ req'[v] = req[v]
    BY <1>12
  <2>2. Count(k, req[v].seen, t) + n <= m
    BY <1>4, <1>9, <1>12, <2>1 DEF EarnedOK
  <2>3. Count(k, req[v].seen, t) + b <= h
    BY <1>7, <1>8, <1>9, <2>2
  <2> QED BY <2>1, <2>3
<1> QED BY <1>5, <1>6, <1>11, <1>12

\* What is written is no longer owed.
LEMMA EarnedWritten ==
  ASSUME Base, NEW w \in Worker, NEW r, site' = site, site.maxTime \in Nat,
         req'[w] = r, \A v \in Worker \ {w} : req'[v] = req[v],
         req[w].pc = "write", req[w].left # <<>>,
         NEW k \in Key, EarnedOK(k), k = Head(req[w].left), made'[k] = made[k],
         stamps'[k] = Append(req[w].seen, req[w].at),
         r.pc # "write", k \notin Range(r.left)
  PROVE  EarnedOK(k)'
<1>0. PICK x \in Nat : x = req[w].at
  BY Typed
<1> SUFFICES ASSUME NEW t \in 0 .. site.maxTime
             PROVE  /\ Count(k, Append(req[w].seen, x), t) + Cardinality(Owed(k, t)')
                         <= Count(k, made[k], t)
                    /\ \A v \in Worker :
                         req'[v].pc = "write" /\ Head(req'[v].left) = k =>
                           Count(k, req'[v].seen, t) + Cardinality(Owed(k, t)') <= Count(k, made[k], t)
  BY <1>0 DEF EarnedOK
<1>1. t \in Int /\ req[w].left \in Seq(Key) /\ req[w].seen \in Seq(Nat)
  BY Typed
<1>2. k \in Range(req[w].left)
  <2>1. 1 \in DOMAIN req[w].left /\ k = req[w].left[1]
    BY <1>1
  <2> QED BY <2>1 DEF Range
<1>3. w \notin Owed(k, t)' /\ (w \in Owed(k, t) <=> t - x < Window[k])
  BY <1>0, <1>2 DEF Owed
<1>4. PICK n \in Nat :
           /\ w \in Owed(k, t) => Cardinality(Owed(k, t)) = n + 1
           /\ w \notin Owed(k, t) => Cardinality(Owed(k, t)) = n
           /\ w \in Owed(k, t)' => Cardinality(Owed(k, t)') = n + 1
           /\ w \notin Owed(k, t)' => Cardinality(Owed(k, t)') = n
  BY <1>1, OwedSplit
<1>5. PICK a : a = Cardinality(Owed(k, t))
  OBVIOUS
<1>6. PICK m : m = Count(k, made[k], t)
  OBVIOUS
<1>7. PICK g : g = Count(k, req[w].seen, t)
  OBVIOUS
<1>8. PICK h : h = Count(k, Append(req[w].seen, x), t)
  OBVIOUS
<1>9. m \in Nat /\ \A v \in Worker : Count(k, req[v].seen, t) \in Nat
  BY <1>1, <1>6, Counted
<1>10. /\ g \in Nat /\ h \in Nat
       /\ (t - x < Window[k] => h = g + 1) /\ (~(t - x < Window[k]) => h = g)
  BY <1>1, <1>7, <1>8, Appended
<1>11. Cardinality(Owed(k, t)') = n /\ a \in Nat /\ a - n = h - g /\ n <= a
  BY <1>3, <1>4, <1>5, <1>10
<1>12. g + a <= m
  BY <1>5, <1>6, <1>7 DEF EarnedOK
<1>13. h + n <= m
  BY <1>9, <1>10, <1>11, <1>12
<1>14. ASSUME NEW v \in Worker, req'[v].pc = "write", Head(req'[v].left) = k
       PROVE  Count(k, req'[v].seen, t) + n <= m
  <2>1. v # w /\ req'[v] = req[v]
    BY <1>14
  <2>2. Count(k, req[v].seen, t) + a <= m
    BY <1>5, <1>6, <1>14, <2>1 DEF EarnedOK
  <2>3. Count(k, req[v].seen, t) + n <= m
    BY <1>9, <1>11, <2>2
  <2> QED BY <2>1, <2>3
<1> QED BY <1>6, <1>8, <1>11, <1>13, <1>14

\* A list that a login deletes while nobody records.
LEMMA EarnedCleared ==
  ASSUME NEW k \in Key, site' = site, site.maxTime \in Nat,
         \A v \in Worker : req'[v].pc \notin {"read", "write"},
         stamps'[k] = <<>>, made'[k] = <<>>
  PROVE  EarnedOK(k)'
<1> SUFFICES ASSUME NEW t \in 0 .. site.maxTime
             PROVE  Count(k, <<>>, t) + Cardinality(Owed(k, t)') <= Count(k, <<>>, t)
  BY DEF EarnedOK
<1>1. Owed(k, t)' = {}
  BY DEF Owed
<1>2. Cardinality(Owed(k, t)') = 0
  BY <1>1, FS_EmptySet
<1>3. Count(k, <<>>, t) = 0
  BY CountEmpty
<1> QED BY <1>2, <1>3

-----------------------------------------------------------------------------
(* Requests one at a time.                                                 *)

LEMMA Alone ==
  ASSUME SerialOK, NEW w \in Worker, req[w].pc # "idle"
  PROVE  \A v \in Worker \ {w} : req[v].pc = "idle"
BY DEF SerialOK

LEMMA SerialStep ==
  ASSUME NEW w \in Worker, \A v \in Worker \ {w} : req'[v] = req[v] /\ req[v].pc = "idle",
         \A k \in Key : ListOK(k)', RunOK(w)'
  PROVE  SerialOK'
<1>1. ASSUME NEW v \in Worker \ {w} PROVE req'[v].pc = "idle"
  OBVIOUS
<1>2. ASSUME NEW v \in Worker PROVE RunOK(v)'
  <2>1. CASE v = w
    BY <2>1
  <2>2. CASE v # w
    <3>1. req'[v].pc = "idle"
      BY <1>1, <2>2
    <3> QED BY <3>1 DEF RunOK
  <2> QED BY <2>1, <2>2
<1>3. \A u, v \in Worker : req'[u].pc # "idle" /\ req'[v].pc # "idle" => u = v
  BY <1>1
<1> QED BY <1>2, <1>3 DEF SerialOK

\* A step that leaves the lists as they are.
LEMMA ListKept ==
  ASSUME NEW k \in Key, ListOK(k), site' = site, now' = now, stamps'[k] = stamps[k],
         counted'[k] = counted[k], cool'[k] = cool[k]
  PROVE  ListOK(k)'
BY DEF ListOK

LEMMA CountedKept ==
  ASSUME Base, site' = site, counted' = counted
  PROVE  \A k \in Key : counted'[k] # <<>> => \E a \in Ask : a.kind = site'.kind /\ k \in Range(a.keys)
BY DEF Base

LEMMA BaseStep ==
  ASSUME TypeOK', Shape', \A w \in Worker : RequestOK(w)',
         \A k \in Key : counted'[k] # <<>> => \E a \in Ask : a.kind = site'.kind /\ k \in Range(a.keys)
  PROVE  Base'
BY DEF Base

\* A step of a request that does not record, nor change a list.
LEMMA QuietStep ==
  ASSUME IInv, NEW w \in Worker, NEW r \in Work, site' = site, now' = now,
         UNCHANGED <<stamps, made, counted, cool>>, req' = [req EXCEPT ![w] = r],
         r.pc \in {"idle", "check", "act"}, r.pc = "check" => r.left # <<>>,
         r.pc # "idle" =>
           /\ \E a \in Ask : a.kind = site.kind /\ r.kind = a.kind /\ r.keys = a.keys
           /\ Range(r.left) \subseteq Range(r.keys) /\ IsInjective(r.left)
           /\ r.at <= now
           /\ r.pc = "act" /\ ~r.failed => r.left = <<>>,
         site.serial => \A v \in Worker \ {w} : req[v].pc = "idle",
         site.serial /\ r.pc # "idle" /\ ~r.failed => \A k \in Passed(r) : Room(k, now)
  PROVE  IInv'
<1>1. Base /\ AllEarned /\ (site.serial => SerialOK)
  BY Parts
<1>2. /\ stamps \in [Key -> Times] /\ made \in [Key -> Times] /\ counted \in [Key -> Times]
      /\ cool \in [Key -> Nat]
  BY <1>1 DEF Base, Shape
<1>3. now \in Nat /\ now' \in 0 .. site.maxTime /\ site.maxTime \in Nat
  BY <1>1, Typed
<1>4. TypeOK' /\ Shape' /\ req'[w] = r /\ \A v \in Worker \ {w} : req'[v] = req[v]
  BY <1>1, <1>2, <1>3, Retyped
<1>5. \A v \in Worker : RequestOK(v)'
  BY <1>1, <1>3, <1>4, RequestsKept
<1>6. Base'
  BY <1>1, <1>4, <1>5, BaseStep, CountedKept
<1>7. AllEarned'
  <2> SUFFICES ASSUME NEW k \in Key, site.serial \/ ~Pair(k) PROVE EarnedOK(k)'
    BY DEF AllEarned, Pair
  <2>1. EarnedOK(k)
    BY <1>1 DEF AllEarned
  <2> QED BY <1>1, <1>3, <1>4, <2>1, EarnedKept
<1>8. ASSUME site.serial PROVE SerialOK'
  <2>1. \A k \in Key : ListOK(k)'
    <3> TAKE k \in Key
    <3>1. ListOK(k)
      BY <1>1, <1>8 DEF SerialOK
    <3> QED BY <3>1, ListKept
  <2>2. \A k \in Key, t \in Int : Room(k, t)' <=> Room(k, t)
    BY DEF Room
  <2>3. r.pc # "idle" /\ ~r.failed => \A k \in Passed(r) : Room(k, now)'
    <3> SUFFICES ASSUME r.pc # "idle", ~r.failed, NEW k \in Passed(r) PROVE Room(k, now)'
      OBVIOUS
    <3>1. Room(k, now)
      BY <1>8
    <3> QED BY <3>1 DEF Room
  <2>4. RunOK(w)'
    BY <1>4, <2>3 DEF RunOK
  <2>5. \A v \in Worker \ {w} : req'[v] = req[v] /\ req[v].pc = "idle"
    BY <1>4, <1>8
  <2> QED BY <2>1, <2>4, <2>5, SerialStep
<1> QED
  <2>1. Base' /\ AllEarned' /\ (site'.serial => SerialOK')
    BY <1>6, <1>7, <1>8
  <2> QED BY <2>1 DEF IInv, Base, AllEarned

LEMMA IdleWork == site \in Site => Idle \in Work
<1> SUFFICES ASSUME site \in Site PROVE Idle \in Work
  OBVIOUS
<1>1. <<>> \in Seq(Key) /\ <<>> \in Times /\ 0 \in 0 .. site.maxTime
  BY NoTimes, Constants
<1> QED BY <1>1 DEF Idle, Work

LEMMA EmptyList ==
  /\ Sorted(<<>>) /\ Range(<<>>) = {}
  /\ \A n \in Nat, d \in Int : Apart(<<>>, n, d)
BY DEF Sorted, Range, Apart

LEMMA InitOK == Init => IInv
<1> SUFFICES ASSUME Init PROVE IInv
  OBVIOUS
<1> USE DEF Init
<1>1. site \in Site /\ site.maxTime \in Nat /\ now = 0
  BY Constants
<1>2. Shape
  BY <1>1, IdleWork, NoTimes DEF Shape
<1>3. TypeOK
  BY <1>1, <1>2, NoTimes DEF TypeOK, Idle
<1>4. \A w \in Worker : req[w].pc = "idle"
  BY DEF Idle
<1>5. \A w \in Worker : RequestOK(w)
  BY <1>4 DEF RequestOK
<1>6. ASSUME NEW k \in Key PROVE EarnedOK(k)
  <2> SUFFICES ASSUME NEW t \in 0 .. site.maxTime
               PROVE  Count(k, <<>>, t) + Cardinality(Owed(k, t)) <= Count(k, <<>>, t)
    BY <1>4 DEF EarnedOK
  <2>1. Owed(k, t) = {}
    BY <1>4 DEF Owed
  <2>2. Cardinality(Owed(k, t)) = 0 /\ Count(k, <<>>, t) = 0
    BY <2>1, FS_EmptySet, CountEmpty
  <2> QED BY <2>2
<1>7. ASSUME NEW k \in Key PROVE ListOK(k)
  <2>1. stamps[k] = <<>> /\ counted[k] = <<>>
    OBVIOUS
  <2>2. Apart(<<>>, Limit[k], Window[k]) /\ Apart(<<>>, 1, Cooldown)
    BY EmptyList, Constants
  <2>3. \A t \in now .. site.maxTime : Count(k, counted[k], t) <= Count(k, stamps[k], t)
    BY <1>1, <2>1, CountEmpty
  <2> QED BY <2>1, <2>2, <2>3, EmptyList DEF ListOK
<1>8. SerialOK
  BY <1>4, <1>7 DEF SerialOK, RunOK
<1> QED BY <1>2, <1>3, <1>5, <1>6, <1>8 DEF IInv

-----------------------------------------------------------------------------
(* The steps, in the order of the module.                                  *)

LEMMA ArriveStep ==
  ASSUME IInv, NEW w \in Worker, NEW a \in Ask, Arrive(w, a)
  PROVE  IInv'
<1>1. Base
  BY Parts
<1>2. PICK r : r = [Idle EXCEPT !.pc = "check", !.kind = a.kind, !.keys = a.keys,
                                !.left = a.keys, !.at = now]
  OBVIOUS
<1>3. /\ req' = [req EXCEPT ![w] = r] /\ site' = site /\ now' = now
      /\ UNCHANGED <<stamps, made, counted, cool>> /\ a.kind = site.kind
      /\ site.serial => \A v \in Worker : req[v].pc = "idle"
  BY <1>2 DEF Arrive
<1>4. /\ r.pc = "check" /\ r.kind = a.kind /\ r.keys = a.keys /\ r.left = a.keys /\ r.at = now
      /\ r.seen = <<>> /\ r.failed = FALSE
      /\ r = [pc |-> "check", kind |-> a.kind, keys |-> a.keys, left |-> a.keys, at |-> now,
              seen |-> <<>>, failed |-> FALSE]
  BY <1>2 DEF Idle
<1>5. now \in 0 .. site.maxTime /\ now \in Nat
  BY <1>1, Typed
<1>6. r \in Work
  BY <1>4, <1>5, Constants, NoTimes DEF Work
<1>7. Passed(r) = {}
  BY <1>4 DEF Passed
<1>8. r.left # <<>> /\ IsInjective(r.left)
  BY <1>4, Constants
<1>9. /\ \E b \in Ask : b.kind = site.kind /\ r.kind = b.kind /\ r.keys = b.keys
      /\ Range(r.left) \subseteq Range(r.keys) /\ IsInjective(r.left)
      /\ r.at <= now
      /\ r.pc = "act" /\ ~r.failed => r.left = <<>>
  BY <1>3, <1>4, <1>5, <1>8
<1>10. r.pc \in {"idle", "check", "act"} /\ (r.pc = "check" => r.left # <<>>)
  BY <1>4, <1>8
<1>11. site.serial => \A v \in Worker \ {w} : req[v].pc = "idle"
  BY <1>3
<1>12. site.serial /\ r.pc # "idle" /\ ~r.failed => \A k \in Passed(r) : Room(k, now)
  BY <1>7
<1> QED BY <1>3, <1>6, <1>9, <1>10, <1>11, <1>12, QuietStep

\* What a request knows of its keys while it has some left.
LEMMA Left ==
  ASSUME IInv, NEW w \in Worker, req[w].pc \in {"check", "read", "write"}
  PROVE  LET q == req[w] IN
         /\ q.left \in Seq(Key) /\ q.left # <<>> /\ IsInjective(q.left)
         /\ Head(q.left) \in Range(q.left) /\ Head(q.left) \in Key /\ Head(q.left) \in Range(q.keys)
         /\ Tail(q.left) \in Seq(Key) /\ IsInjective(Tail(q.left))
         /\ Range(Tail(q.left)) = Range(q.left) \ {Head(q.left)}
         /\ Range(q.left) \subseteq Range(q.keys) /\ Range(q.keys) \subseteq Key
         /\ Len(q.left) \in Nat /\ Len(q.left) >= 1 /\ (Len(q.left) = 1 <=> Tail(q.left) = <<>>)
         /\ q.at <= now /\ q.kind = site.kind
         /\ \E a \in Ask : a.kind = site.kind /\ q.kind = a.kind /\ q.keys = a.keys
<1>1. Base
  BY Parts
<1>2. RequestOK(w) /\ req[w].pc # "idle"
  BY <1>1 DEF Base
<1>3. /\ \E a \in Ask : a.kind = site.kind /\ req[w].kind = a.kind /\ req[w].keys = a.keys
      /\ Range(req[w].left) \subseteq Range(req[w].keys) /\ IsInjective(req[w].left)
      /\ req[w].at <= now
  BY <1>2 DEF RequestOK
<1>4. req[w].left \in Seq(Key) /\ req[w].left # <<>> /\ req[w].keys \in Seq(Key)
  BY <1>1, Typed
<1>5. Range(req[w].keys) \subseteq Key
  <2>1. \A i \in DOMAIN req[w].keys : req[w].keys[i] \in Key
    BY <1>4
  <2> QED BY <2>1 DEF Range
<1>6. PICK s : s = req[w].left
  OBVIOUS
<1>7. /\ Head(s) \in Range(s) /\ Head(s) \in Key /\ Tail(s) \in Seq(Key) /\ IsInjective(Tail(s))
      /\ Range(Tail(s)) = Range(s) \ {Head(s)}
      /\ Len(s) = 1 <=> Tail(s) = <<>>
      /\ Len(s) \in Nat /\ Len(s) >= 1
  BY <1>3, <1>4, <1>6, NextKey
<1> QED BY <1>3, <1>4, <1>5, <1>6, <1>7

\* A request ends without a trace.
LEMMA IdleStep ==
  ASSUME IInv, NEW w \in Worker, req[w].pc # "idle", site' = site, now' = now,
         UNCHANGED <<stamps, made, counted, cool>>, req' = [req EXCEPT ![w] = Idle]
  PROVE  IInv'
<1>1. Base /\ (site.serial => SerialOK)
  BY Parts
<1>2. PICK r : r = Idle
  OBVIOUS
<1>3. r \in Work /\ r.pc = "idle"
  BY <1>1, <1>2, IdleWork, Typed DEF Idle
<1>4. site.serial => \A v \in Worker \ {w} : req[v].pc = "idle"
  BY <1>1, Alone
<1>5. req' = [req EXCEPT ![w] = r]
  BY <1>2
<1>6. /\ r.pc \in {"idle", "check", "act"} /\ (r.pc = "check" => r.left # <<>>)
      /\ r.pc # "idle" =>
           /\ \E a \in Ask : a.kind = site.kind /\ r.kind = a.kind /\ r.keys = a.keys
           /\ Range(r.left) \subseteq Range(r.keys) /\ IsInjective(r.left)
           /\ r.at <= now
           /\ r.pc = "act" /\ ~r.failed => r.left = <<>>
      /\ site.serial /\ r.pc # "idle" /\ ~r.failed => \A k \in Passed(r) : Room(k, now)
  BY <1>3
<1> QED BY <1>3, <1>4, <1>5, <1>6, QuietStep

\* A key that is not full, and whose cooldown is over, has room.
LEMMA RoomIfNotRefused ==
  ASSUME Base, NEW k \in Key, ListOK(k), NEW t \in Nat, t <= now,
         ~Full(k, t), ~Cooling(site.kind, k, t)
  PROVE  Room(k, now)
<1>1. stamps[k] \in Seq(Nat) /\ counted[k] \in Seq(Nat) /\ now \in Nat /\ now \in now .. site.maxTime
  BY Typed
<1>2. Count(k, stamps[k], t) \in Nat /\ Count(k, stamps[k], now) \in Nat
      /\ Count(k, stamps[k], now) <= Count(k, stamps[k], t)
  BY <1>1, CountFalls
<1>3. ~(Count(k, stamps[k], t) >= Limit[k])
  BY <1>1, FullCounts
<1>4. Count(k, counted[k], now) \in Nat /\ Count(k, counted[k], now) <= Count(k, stamps[k], now)
  <2>1. \A u \in now .. site.maxTime : Count(k, counted[k], u) <= Count(k, stamps[k], u)
    BY DEF ListOK
  <2>2. Count(k, counted[k], now) \in Nat
    BY <1>1, Counted
  <2> QED BY <1>1, <2>1, <2>2
<1>5. Count(k, counted[k], now) < Limit[k]
  BY <1>2, <1>3, <1>4, Constants
<1>6. ASSUME site.kind = "resend", NEW x \in Range(counted[k]) PROVE x + Cooldown <= now
  <2>1. x + Cooldown <= cool[k] /\ ~(cool[k] > t)
    BY <1>6 DEF ListOK, Cooling
  <2>2. x \in Nat /\ cool[k] \in Nat /\ Cooldown \in Nat
    BY <1>1, <1>6, AppendedRange, Typed, Constants
  <2> QED BY <1>1, <2>1, <2>2
<1> QED BY <1>5, <1>6 DEF Room

LEMMA CheckStep ==
  ASSUME IInv, NEW w \in Worker, Check(w)
  PROVE  IInv'
<1>1. Base /\ (site.serial => SerialOK)
  BY Parts
<1>2. PICK q : q = req[w]
  OBVIOUS
<1>3. PICK k : k = Head(q.left)
  OBVIOUS
<1>4. /\ q.pc = "check" /\ site' = site /\ now' = now /\ UNCHANGED <<stamps, made, counted, cool>>
      /\ \/ req' = [req EXCEPT ![w] = Idle]
         \/ /\ ~Cooling(q.kind, k, q.at) /\ ~Full(k, q.at)
            /\ req' = [req EXCEPT ![w] = Passing(q)]
         \/ req' = [req EXCEPT ![w] = [Passing(q) EXCEPT !.failed = TRUE]]
         \/ req' = [req EXCEPT ![w] = [q EXCEPT !.pc = "act", !.failed = TRUE]]
  BY <1>2, <1>3 DEF Check, Refuse
<1>5. /\ q.left \in Seq(Key) /\ q.left # <<>> /\ IsInjective(q.left)
      /\ k \in Range(q.left) /\ k \in Key /\ k \in Range(q.keys)
      /\ Tail(q.left) \in Seq(Key) /\ IsInjective(Tail(q.left))
      /\ Range(Tail(q.left)) = Range(q.left) \ {k}
      /\ Range(q.left) \subseteq Range(q.keys) /\ Range(q.keys) \subseteq Key
      /\ (Len(q.left) = 1 <=> Tail(q.left) = <<>>)
      /\ q.at <= now /\ q.kind = site.kind
      /\ \E a \in Ask : a.kind = site.kind /\ q.kind = a.kind /\ q.keys = a.keys
  BY <1>2, <1>3, <1>4, Left
<1>6. q \in Work /\ q.at \in Nat /\ now \in Nat
  BY <1>1, <1>2, Typed
<1>7. site.serial => \A v \in Worker \ {w} : req[v].pc = "idle"
  BY <1>1, <1>2, <1>4, Alone
<1>8. CASE req' = [req EXCEPT ![w] = Idle]
  BY <1>2, <1>4, <1>8, IdleStep
<1>9. CASE ~Cooling(q.kind, k, q.at) /\ ~Full(k, q.at) /\ req' = [req EXCEPT ![w] = Passing(q)]
  <2>1. PICK r : r = Passing(q)
    OBVIOUS
  <2>2. /\ r \in Work /\ r.left = Tail(q.left) /\ r.keys = q.keys /\ r.kind = q.kind /\ r.at = q.at
        /\ r.failed = q.failed /\ r.pc = IF Len(q.left) = 1 THEN "act" ELSE "check"
    BY <1>5, <1>6, <2>1 DEF Passing, Work
  <2>3. r.pc \in {"idle", "check", "act"} /\ (r.pc = "check" => r.left # <<>>)
        /\ (r.pc = "act" => r.left = <<>>)
    BY <1>5, <2>2
  <2>4. /\ \E a \in Ask : a.kind = site.kind /\ r.kind = a.kind /\ r.keys = a.keys
        /\ Range(r.left) \subseteq Range(r.keys) /\ IsInjective(r.left)
        /\ r.at <= now
        /\ r.pc = "act" /\ ~r.failed => r.left = <<>>
    BY <1>5, <2>2, <2>3
  <2>5. ASSUME site.serial, ~r.failed, NEW j \in Passed(r) PROVE Room(j, now)
    <3>1. CASE j = k
      <4>1. ListOK(k)
        BY <1>1, <1>5, <2>5 DEF SerialOK
      <4> QED BY <1>1, <1>5, <1>6, <1>9, <3>1, <4>1, RoomIfNotRefused
    <3>2. CASE j # k
      <4>1. j \in Passed(q)
        BY <1>5, <2>2, <2>5, <3>2 DEF Passed
      <4>2. RunOK(w)
        BY <1>1, <2>5 DEF SerialOK
      <4> QED BY <1>2, <1>4, <2>2, <2>5, <4>1, <4>2 DEF RunOK
    <3> QED BY <3>1, <3>2
  <2>6. site.serial /\ r.pc # "idle" /\ ~r.failed => \A j \in Passed(r) : Room(j, now)
    BY <2>5
  <2>7. req' = [req EXCEPT ![w] = r]
    BY <1>9, <2>1
  <2> QED BY <1>4, <1>7, <2>2, <2>3, <2>4, <2>6, <2>7, QuietStep
<1>10. CASE req' = [req EXCEPT ![w] = [Passing(q) EXCEPT !.failed = TRUE]]
  <2>1. PICK r : r = [Passing(q) EXCEPT !.failed = TRUE]
    OBVIOUS
  <2>2. /\ r \in Work /\ r.left = Tail(q.left) /\ r.keys = q.keys /\ r.kind = q.kind /\ r.at = q.at
        /\ r.failed = TRUE /\ r.pc = IF Len(q.left) = 1 THEN "act" ELSE "check"
    BY <1>5, <1>6, <2>1 DEF Passing, Work
  <2>3. r.pc \in {"idle", "check", "act"} /\ (r.pc = "check" => r.left # <<>>)
    BY <1>5, <2>2
  <2>4. /\ \E a \in Ask : a.kind = site.kind /\ r.kind = a.kind /\ r.keys = a.keys
        /\ Range(r.left) \subseteq Range(r.keys) /\ IsInjective(r.left)
        /\ r.at <= now
        /\ r.pc = "act" /\ ~r.failed => r.left = <<>>
    BY <1>5, <2>2
  <2>5. site.serial /\ r.pc # "idle" /\ ~r.failed => \A j \in Passed(r) : Room(j, now)
    BY <2>2
  <2>6. req' = [req EXCEPT ![w] = r]
    BY <1>10, <2>1
  <2> QED BY <1>4, <1>7, <2>2, <2>3, <2>4, <2>5, <2>6, QuietStep
<1>11. CASE req' = [req EXCEPT ![w] = [q EXCEPT !.pc = "act", !.failed = TRUE]]
  <2>1. PICK r : r = [q EXCEPT !.pc = "act", !.failed = TRUE]
    OBVIOUS
  <2>2. /\ r \in Work /\ r.left = q.left /\ r.keys = q.keys /\ r.kind = q.kind /\ r.at = q.at
        /\ r.failed = TRUE /\ r.pc = "act"
    BY <1>6, <2>1 DEF Work
  <2>3. r.pc \in {"idle", "check", "act"} /\ (r.pc = "check" => r.left # <<>>)
    BY <2>2
  <2>4. /\ \E a \in Ask : a.kind = site.kind /\ r.kind = a.kind /\ r.keys = a.keys
        /\ Range(r.left) \subseteq Range(r.keys) /\ IsInjective(r.left)
        /\ r.at <= now
        /\ r.pc = "act" /\ ~r.failed => r.left = <<>>
    BY <1>5, <2>2
  <2>5. site.serial /\ r.pc # "idle" /\ ~r.failed => \A j \in Passed(r) : Room(j, now)
    BY <2>2
  <2>6. req' = [req EXCEPT ![w] = r]
    BY <1>11, <2>1
  <2> QED BY <1>4, <1>7, <2>2, <2>3, <2>4, <2>5, <2>6, QuietStep
<1> QED BY <1>4, <1>8, <1>9, <1>10, <1>11

LEMMA DropStep ==
  ASSUME IInv, NEW w \in Worker, Drop(w)
  PROVE  IInv'
BY IdleStep DEF Drop

LEMMA GiveUpStep ==
  ASSUME IInv, NEW w \in Worker, GiveUp(w)
  PROVE  IInv'
BY IdleStep DEF GiveUp

\* The attempt is made: it is owed to the lists of its keys, which have room for it.
LEMMA ActStep ==
  ASSUME IInv, NEW w \in Worker, Act(w)
  PROVE  IInv'
<1>1. Base /\ AllEarned /\ (site.serial => SerialOK)
  BY Parts
<1>2. PICK q : q = req[w]
  OBVIOUS
<1>3. PICK r : r = [q EXCEPT !.pc = "read", !.at = now, !.left = q.keys]
  OBVIOUS
<1>4. /\ now \in Nat /\ now \in 0 .. site.maxTime /\ site \in Site /\ q \in Work
      /\ q.keys \in Seq(Key) /\ site.maxTime \in Nat
  BY <1>1, <1>2, Typed
<1>5. /\ q.pc = "act" /\ site' = site /\ now' = now /\ UNCHANGED <<stamps, counted, cool>>
      /\ made' = [k \in Key |-> IF k \in Range(q.keys) THEN Append(made[k], now) ELSE made[k]]
  BY <1>2 DEF Act
<1>6. req' = [req EXCEPT ![w] = r]
  <2>1. req' = [req EXCEPT ![w].pc = "read", ![w].at = now, ![w].left = q.keys]
    BY <1>2 DEF Act
  <2>2. req \in [Worker -> Work]
    BY <1>1 DEF Base, Shape
  <2> QED BY <1>2, <1>3, <2>1, <2>2
<1>7. /\ r \in Work /\ r.pc = "read" /\ r.at = now /\ r.left = q.keys /\ r.keys = q.keys
      /\ r.kind = q.kind /\ r.failed = q.failed
  BY <1>3, <1>4 DEF Work
<1>8. RequestOK(w) /\ q.pc # "idle"
  BY <1>1, <1>5 DEF Base
<1>9. PICK a \in Ask : a.kind = site.kind /\ q.kind = a.kind /\ q.keys = a.keys
  BY <1>2, <1>8 DEF RequestOK
<1>10. q.keys # <<>> /\ IsInjective(q.keys)
  BY <1>9, Constants
<1>11. /\ \E b \in Ask : b.kind = site.kind /\ r.kind = b.kind /\ r.keys = b.keys
       /\ Range(r.left) \subseteq Range(r.keys) /\ IsInjective(r.left)
       /\ r.at <= now'
       /\ r.pc = "act" /\ ~r.failed => r.left = <<>>
  BY <1>4, <1>5, <1>7, <1>9, <1>10
<1>12. /\ stamps' \in [Key -> Times] /\ counted' \in [Key -> Times] /\ cool' \in [Key -> Nat]
       /\ made \in [Key -> Times]
  BY <1>1, <1>5 DEF Base, Shape
<1>13. made' \in [Key -> Times]
  <2>1. \A k \in Key : made[k] \in Times /\ Append(made[k], now) \in Times
    BY <1>4, <1>12, AppendedTimes
  <2> QED BY <1>5, <2>1
<1>14. TypeOK' /\ Shape' /\ req'[w] = r /\ \A v \in Worker \ {w} : req'[v] = req[v]
  <2>1. r.pc \in {"check", "read", "write"} => r.left # <<>>
    BY <1>7, <1>10
  <2> QED BY <1>1, <1>4, <1>5, <1>6, <1>7, <1>12, <1>13, <2>1, Retyped
<1>15. \A v \in Worker : RequestOK(v)'
  <2>1. now' \in Nat /\ now <= now'
    BY <1>4, <1>5
  <2> QED BY <1>1, <1>5, <1>11, <1>14, <2>1, RequestsKept
<1>16. Base'
  BY <1>1, <1>5, <1>14, <1>15, BaseStep, CountedKept
<1>17. AllEarned'
  <2> SUFFICES ASSUME NEW k \in Key, site.serial \/ ~Pair(k) PROVE EarnedOK(k)'
    BY <1>5 DEF AllEarned, Pair
  <2>1. EarnedOK(k)
    BY <1>1 DEF AllEarned
  <2>2. CASE k \in Range(q.keys)
    <3>1. made'[k] = Append(made[k], r.at)
      BY <1>5, <1>7, <2>2
    <3> QED BY <1>1, <1>2, <1>4, <1>5, <1>7, <1>14, <2>1, <3>1, EarnedMore
  <2>3. CASE k \notin Range(q.keys)
    <3>1. made'[k] = made[k] /\ stamps'[k] = stamps[k]
      BY <1>5, <2>3
    <3>2. k \notin Range(r.left) /\ r.pc # "write"
      BY <1>7, <2>3
    <3> QED BY <1>1, <1>4, <1>5, <1>14, <2>1, <3>1, <3>2, EarnedKept
  <2> QED BY <2>2, <2>3
<1>18. ASSUME site.serial PROVE SerialOK'
  <2>1. \A k \in Key : ListOK(k)'
    <3> TAKE k \in Key
    <3>1. ListOK(k)
      BY <1>1, <1>18 DEF SerialOK
    <3> QED BY <1>5, <3>1, ListKept
  <2>2. \A v \in Worker \ {w} : req'[v] = req[v] /\ req[v].pc = "idle"
    BY <1>1, <1>2, <1>5, <1>14, <1>18, Alone
  <2>3. \A k \in Key : \A x \in Range(stamps[k]) \cup Range(counted[k]) : x <= now
    BY <1>1, <1>18 DEF SerialOK, ListOK
  <2>4. Passed(r) = {}
    BY <1>7 DEF Passed
  <2>5. ~r.failed => \A k \in Range(r.keys) : Room(k, now)
    <3> SUFFICES ASSUME ~r.failed, NEW k \in Range(q.keys) PROVE Room(k, now)
      BY <1>7
    <3>1. RunOK(w)
      BY <1>1, <1>18 DEF SerialOK
    <3>2. q.left = <<>>
      BY <1>2, <1>5, <1>7, <1>8 DEF RequestOK
    <3>3. k \in Passed(q)
      BY <3>2 DEF Passed, Range
    <3> QED BY <1>2, <1>5, <1>7, <3>1, <3>3 DEF RunOK
  <2>6. RunOK(w)'
    BY <1>5, <1>7, <1>14, <2>3, <2>4, <2>5 DEF RunOK, Room
  <2> QED BY <2>1, <2>2, <2>6, SerialStep
<1> QED
  <2>1. Base' /\ AllEarned' /\ (site'.serial => SerialOK')
    BY <1>5, <1>16, <1>17, <1>18
  <2> QED BY <2>1 DEF IInv, Base, AllEarned

\* The attempts being recorded, as a list of times; none if nobody records.
LEMMA RecordingTimes ==
  ASSUME Base, NEW k \in Key
  PROVE  /\ Recording(k) \in Times
         /\ (\A v \in Worker : req[v].pc \notin {"read", "write"}) => Recording(k) = <<>>
<1>1. PICK S : S = {w \in Worker : req[w].pc \in {"read", "write"} /\ k \in Range(req[w].keys)}
  OBVIOUS
<1>2. IsFiniteSet(S) /\ S \subseteq Worker
  BY <1>1, Constants, FS_Subset
<1>3. PICK n \in Nat : n = Cardinality(S) /\ ExistsBijection(1 .. n, S)
  BY <1>2, FS_CardinalityType
<1>4. \E f \in [1 .. n -> S] : IsInjective(f)
  BY <1>3 DEF ExistsBijection, Bijection, Injection, IsInjective
<1>5. PICK b : b = SetToSeq(S)
  OBVIOUS
<1>6. b \in [1 .. n -> S]
  <2>1. b = CHOOSE f \in [1 .. n -> S] : IsInjective(f)
    BY <1>3, <1>5 DEF SetToSeq
  <2> QED BY <1>4, <2>1
<1>7. DOMAIN b = 1 .. n /\ Recording(k) = [i \in 1 .. n |-> req[b[i]].at]
  BY <1>1, <1>5, <1>6 DEF Recording
<1>8. \A i \in 1 .. n : req[b[i]].at \in 0 .. site.maxTime
  BY <1>1, <1>2, <1>6, Typed
<1>9. Recording(k) \in [1 .. n -> 0 .. site.maxTime]
  BY <1>7, <1>8
<1>10. Recording(k) \in Times
  <2>1. PICK T : T = 0 .. site.maxTime
    OBVIOUS
  <2>2. PICK c : c = Recording(k)
    OBVIOUS
  <2>3. c \in [1 .. n -> T]
    BY <1>9, <2>1, <2>2
  <2>4. c \in Seq(T)
    BY <2>3
  <2> QED BY <2>1, <2>2, <2>4 DEF Times
<1>11. ASSUME \A v \in Worker : req[v].pc \notin {"read", "write"} PROVE Recording(k) = <<>>
  <2>1. S = {}
    BY <1>1, <1>11
  <2>2. n = 0
    BY <1>3, <2>1, FS_EmptySet
  <2>3. Len(Recording(k)) = 0 /\ Recording(k) \in Seq(0 .. site.maxTime)
    BY <1>9, <2>2
  <2> QED BY <2>3, EmptySeq
<1> QED BY <1>10, <1>11

LEMMA LogInStep ==
  ASSUME IInv, NEW w \in Worker, LogIn(w)
  PROVE  IInv'
<1>1. Base /\ AllEarned /\ (site.serial => SerialOK)
  BY Parts
<1>2. PICK q : q = req[w]
  OBVIOUS
<1>3. PICK p : p = Last(q.keys)
  OBVIOUS
<1>4. /\ q.pc = "act" /\ q.kind = "login" /\ req' = [req EXCEPT ![w] = Idle]
      /\ site' = site /\ now' = now /\ cool' = cool
  BY <1>2 DEF LogIn
<1>5. CASE UNCHANGED <<stamps, counted, made>>
  BY <1>2, <1>4, <1>5, IdleStep
<1>6. CASE /\ stamps' = [stamps EXCEPT ![p] = <<>>] /\ counted' = [counted EXCEPT ![p] = <<>>]
           /\ made' = [made EXCEPT ![p] = Recording(p)]
  <2>1. RequestOK(w) /\ q.pc # "idle" /\ q.keys \in Seq(Key)
    BY <1>1, <1>2, <1>4, Typed DEF Base
  <2>2. PICK a \in Ask : a.kind = site.kind /\ q.kind = a.kind /\ q.keys = a.keys
    BY <1>2, <2>1 DEF RequestOK
  <2>3. q.keys # <<>> /\ a.kind = "login"
    BY <1>4, <2>2, Constants
  <2>4. p \in Key /\ Pair(p)
    <3>1. p = q.keys[Len(q.keys)] /\ Len(q.keys) \in 1 .. Len(q.keys)
      BY <1>3, <2>1, <2>3 DEF Last
    <3>2. p \in Key
      BY <2>1, <3>1
    <3> QED BY <1>3, <2>2, <2>3, <3>2 DEF Pair
  <2>5. /\ stamps \in [Key -> Times] /\ counted \in [Key -> Times] /\ made \in [Key -> Times]
        /\ cool \in [Key -> Nat] /\ now \in 0 .. site.maxTime /\ site \in Site /\ now \in Nat
        /\ site.maxTime \in Nat
    BY <1>1, Typed DEF Base, Shape, TypeOK
  <2>6. Recording(p) \in Times /\ <<>> \in Times
    BY <1>1, <2>4, RecordingTimes, NoTimes
  <2>7. stamps' \in [Key -> Times] /\ counted' \in [Key -> Times] /\ made' \in [Key -> Times]
    BY <1>6, <2>5, <2>6
  <2>8. PICK r : r = Idle
    OBVIOUS
  <2>9. r \in Work /\ r.pc = "idle" /\ req' = [req EXCEPT ![w] = r]
    BY <1>4, <2>5, <2>8, IdleWork DEF Idle
  <2>10. TypeOK' /\ Shape' /\ req'[w] = r /\ \A v \in Worker \ {w} : req'[v] = req[v]
    BY <1>1, <1>4, <2>5, <2>7, <2>9, Retyped
  <2>11. \A v \in Worker : RequestOK(v)'
    BY <1>1, <1>4, <2>5, <2>9, <2>10, RequestsKept
  <2>12. \A k \in Key : counted'[k] # <<>> => \E b \in Ask : b.kind = site'.kind /\ k \in Range(b.keys)
    <3> SUFFICES ASSUME NEW k \in Key, counted'[k] # <<>>
                 PROVE  \E b \in Ask : b.kind = site.kind /\ k \in Range(b.keys)
      BY <1>4
    <3>1. counted[k] # <<>>
      BY <1>6, <2>5
    <3> QED BY <1>1, <3>1 DEF Base
  <2>13. Base'
    BY <2>10, <2>11, <2>12, BaseStep
  <2>14. stamps'[p] = <<>> /\ counted'[p] = <<>> /\ made'[p] = Recording(p)
         /\ \A k \in Key \ {p} :
              stamps'[k] = stamps[k] /\ counted'[k] = counted[k] /\ made'[k] = made[k]
    BY <1>6, <2>4, <2>5
  <2>15. site.serial => \A v \in Worker : req'[v].pc = "idle" /\ req[v].pc \notin {"read", "write"}
    <3> SUFFICES ASSUME site.serial, NEW v \in Worker
                 PROVE  req'[v].pc = "idle" /\ req[v].pc \notin {"read", "write"}
      OBVIOUS
    <3>1. CASE v = w
      BY <1>2, <1>4, <2>9, <2>10, <3>1
    <3>2. CASE v # w
      <4>1. req[v].pc = "idle" /\ req'[v] = req[v]
        BY <1>1, <1>2, <1>4, <2>10, <3>2, Alone
      <4> QED BY <4>1
    <3> QED BY <3>1, <3>2
  <2>16. AllEarned'
    <3> SUFFICES ASSUME NEW k \in Key, site.serial \/ ~Pair(k) PROVE EarnedOK(k)'
      BY <1>4 DEF AllEarned, Pair
    <3>1. CASE k = p
      <4>1. made'[k] = <<>> /\ \A v \in Worker : req'[v].pc \notin {"read", "write"}
        BY <1>1, <2>4, <2>14, <2>15, <3>1, RecordingTimes
      <4> QED BY <1>4, <2>5, <2>14, <3>1, <4>1, EarnedCleared
    <3>2. CASE k # p
      <4>1. EarnedOK(k) /\ stamps'[k] = stamps[k] /\ made'[k] = made[k]
        BY <1>1, <2>14, <3>2 DEF AllEarned
      <4> QED BY <1>1, <1>4, <2>5, <2>9, <2>10, <4>1, EarnedKept
    <3> QED BY <3>1, <3>2
  <2>17. ASSUME site.serial PROVE SerialOK'
    <3>1. ASSUME NEW k \in Key PROVE ListOK(k)'
      <4>1. ListOK(k)
        BY <1>1, <2>17 DEF SerialOK
      <4>2. CASE k = p
        <5>1. Apart(<<>>, Limit[k], Window[k]) /\ Apart(<<>>, 1, Cooldown)
          BY EmptyList, Constants
        <5>2. stamps'[k] = <<>> /\ counted'[k] = <<>>
          BY <2>14, <4>2
        <5>3. \A t \in now' .. site'.maxTime : Count(k, counted'[k], t) <= Count(k, stamps'[k], t)
          BY <1>4, <2>5, <5>2, CountEmpty
        <5> QED BY <5>1, <5>2, <5>3, EmptyList DEF ListOK
      <4>3. CASE k # p
        BY <1>4, <2>14, <4>1, <4>3, ListKept
      <4> QED BY <4>2, <4>3
    <3>2. RunOK(w)'
      BY <2>15, <2>17 DEF RunOK
    <3>3. \A v \in Worker \ {w} : req'[v] = req[v] /\ req[v].pc = "idle"
      BY <1>1, <1>2, <1>4, <2>10, <2>17, Alone
    <3> QED BY <3>1, <3>2, <3>3, SerialStep
  <2> QED
    <3>1. Base' /\ AllEarned' /\ (site'.serial => SerialOK')
      BY <1>4, <2>13, <2>16, <2>17
    <3> QED BY <3>1 DEF IInv, Base, AllEarned
<1> QED BY <1>2, <1>3, <1>5, <1>6 DEF LogIn, Cleared

LEMMA TickStep ==
  ASSUME IInv, Tick
  PROVE  IInv'
<1>1. Base /\ AllEarned /\ (site.serial => SerialOK)
  BY Parts
<1>2. /\ now < site.maxTime /\ now' = now + 1 /\ site' = site /\ req' = req
      /\ UNCHANGED <<stamps, cool, made, counted>>
  BY DEF Tick
<1>3. now \in Nat /\ site.maxTime \in Nat /\ now' \in 0 .. site.maxTime /\ now' \in Nat /\ now <= now'
  BY <1>1, <1>2, Typed
<1>4. TypeOK' /\ Shape'
  BY <1>1, <1>2, <1>3 DEF Base, TypeOK, Shape, Times, Work
<1>5. ASSUME NEW w \in Worker PROVE RequestOK(w)'
  <2>1. RequestOK(w) /\ req[w].at \in Nat
    BY <1>1, Typed DEF Base
  <2> QED BY <1>2, <1>3, <2>1 DEF RequestOK
<1>6. Base'
  BY <1>1, <1>2, <1>4, <1>5, BaseStep, CountedKept
<1>7. AllEarned'
  BY <1>1, <1>2 DEF AllEarned, EarnedOK, Owed
<1>8. ASSUME site.serial PROVE SerialOK'
  <2>1. ASSUME NEW k \in Key PROVE ListOK(k)'
    <3>1. ListOK(k)
      BY <1>1, <1>8 DEF SerialOK
    <3>2. \A x \in Range(stamps[k]) \cup Range(counted[k]) : x \in Nat /\ x <= now
      BY <1>1, <3>1, Typed, AppendedRange DEF ListOK
    <3>3. \A t \in now' .. site.maxTime : t \in now .. site.maxTime
      BY <1>3
    <3>4. \A x \in Range(stamps[k]) \cup Range(counted[k]) : x <= now'
      BY <1>3, <3>2
    <3>5. \A t \in now' .. site.maxTime : Count(k, counted[k], t) <= Count(k, stamps[k], t)
      BY <3>1, <3>3 DEF ListOK
    <3> QED BY <1>2, <3>1, <3>4, <3>5 DEF ListOK
  <2>2. ASSUME NEW k \in Key, Room(k, now)
        PROVE  /\ Count(k, counted[k], now + 1) < Limit[k]
               /\ site.kind = "resend" => \A x \in Range(counted[k]) : x + Cooldown <= now + 1
    <3>1. PICK m \in Nat : m = now + 1 /\ now <= m
      BY <1>3
    <3>2. /\ Count(k, counted[k], now) \in Nat /\ Count(k, counted[k], m) \in Nat
          /\ Count(k, counted[k], m) <= Count(k, counted[k], now)
      BY <1>1, <1>3, <3>1, Typed, CountFalls
    <3>3. Count(k, counted[k], m) < Limit[k]
      BY <2>2, <3>2, Constants DEF Room
    <3>4. \A x \in Range(counted[k]) : x \in Nat
      BY <1>1, Typed, AppendedRange
    <3>5. site.kind = "resend" => \A x \in Range(counted[k]) : x + Cooldown <= m
      BY <1>3, <2>2, <3>1, <3>4, Constants DEF Room
    <3> QED BY <3>1, <3>3, <3>5
  <2>3. ASSUME NEW w \in Worker PROVE RunOK(w)'
    <3>1. RunOK(w)
      BY <1>1, <1>8 DEF SerialOK
    <3>2. \A t \in now' .. site.maxTime : t \in now .. site.maxTime
      BY <1>3
    <3>3. PICK q : q = req[w]
      OBVIOUS
    <3>4. /\ q.pc \in {"read", "write"} =>
               \A k \in Key : \A x \in Range(stamps[k]) \cup Range(counted[k]) : x <= q.at
          /\ q.pc = "write" =>
               /\ Sorted(q.seen) /\ \A x \in Range(q.seen) : x <= q.at
               /\ \A t \in now' .. site.maxTime :
                    Count(Head(q.left), counted[Head(q.left)], t) <= Count(Head(q.left), q.seen, t)
               /\ site.kind = "resend" => q.at + Cooldown <= cool[Head(q.left)]
          /\ q.pc \in {"read", "write"} => \A k \in Passed(q) :
               /\ \A t \in now' .. site.maxTime :
                    Count(k, Append(counted[k], q.at), t) <= Count(k, stamps[k], t)
               /\ site.kind = "resend" => q.at + Cooldown <= cool[k]
      BY <3>1, <3>2, <3>3 DEF RunOK
    <3>5. Passed(q) \subseteq Key /\ Range(q.keys) \subseteq Key
      <4>1. q.keys \in Seq(Key)
        BY <1>1, <3>3, Typed
      <4>2. \A i \in DOMAIN q.keys : q.keys[i] \in Key
        BY <4>1
      <4> QED BY <4>2 DEF Passed, Range
    <3>6. q.pc \in {"check", "act"} /\ ~q.failed =>
            \A k \in Passed(q) :
              /\ Count(k, counted[k], now + 1) < Limit[k]
              /\ site.kind = "resend" => \A x \in Range(counted[k]) : x + Cooldown <= now + 1
      BY <2>2, <3>1, <3>3, <3>5 DEF RunOK
    <3>7. q.pc \in {"read", "write"} /\ ~q.failed =>
            \A k \in Range(q.keys) :
              /\ Count(k, counted[k], q.at) < Limit[k]
              /\ site.kind = "resend" => \A x \in Range(counted[k]) : x + Cooldown <= q.at
      BY <3>1, <3>3 DEF RunOK, Room
    <3>8. req'[w] = q
      BY <1>2, <3>3
    <3> QED BY <1>2, <3>4, <3>6, <3>7, <3>8 DEF RunOK, Room
  <2> QED BY <1>1, <1>2, <1>8, <2>1, <2>3 DEF SerialOK
<1> QED
  <2>1. Base' /\ AllEarned' /\ (site'.serial => SerialOK')
    BY <1>2, <1>6, <1>7, <1>8
  <2> QED BY <2>1 DEF IInv, Base, AllEarned

\* The list has been read: what is in its window is what the request will write again.
LEMMA ReadListStep ==
  ASSUME IInv, NEW w \in Worker, ReadList(w)
  PROVE  IInv'
<1>0. \A n \in Nat : n \in Int
  OBVIOUS
<1>1. Base /\ AllEarned /\ (site.serial => SerialOK)
  BY Parts
<1>2. PICK q : q = req[w]
  OBVIOUS
<1>3. PICK k : k = Head(q.left)
  OBVIOUS
<1>4. q.pc = "read" /\ site' = site /\ now' = now /\ stamps' = stamps /\ made' = made
  BY <1>2 DEF ReadList
<1>5. /\ q.left \in Seq(Key) /\ q.left # <<>> /\ IsInjective(q.left)
      /\ k \in Range(q.left) /\ k \in Key /\ k \in Range(q.keys)
      /\ Range(q.left) \subseteq Range(q.keys) /\ Range(q.keys) \subseteq Key
      /\ q.at <= now /\ q.kind = site.kind
      /\ \E a \in Ask : a.kind = site.kind /\ q.kind = a.kind /\ q.keys = a.keys
  BY <1>2, <1>3, <1>4, Left
<1>6. /\ q \in Work /\ q.at \in Nat /\ now \in Nat /\ now \in 0 .. site.maxTime /\ site \in Site
      /\ site.maxTime \in Nat /\ stamps[k] \in Seq(Nat) /\ stamps[k] \in Times
      /\ q.at \in 0 .. site.maxTime
  BY <1>1, <1>2, <1>5, Typed
<1>7. /\ stamps \in [Key -> Times] /\ counted \in [Key -> Times] /\ made \in [Key -> Times]
      /\ cool \in [Key -> Nat] /\ req \in [Worker -> Work]
  BY <1>1 DEF Base, Shape
<1>8. PICK f : f \in Times /\ (f = InWindow(k, stamps[k], q.at) \/ f = <<>>)
        /\ \E b \in BOOLEAN :
             /\ req' = [req EXCEPT ![w] = [q EXCEPT !.pc = "write", !.seen = f, !.failed = b]]
             /\ \/ /\ f = InWindow(k, stamps[k], q.at) /\ b = q.failed /\ counted' = counted
                   /\ cool' = IF q.kind = "resend" THEN [cool EXCEPT ![k] = q.at + Cooldown] ELSE cool
                \/ /\ f = <<>> /\ b = TRUE /\ counted' = [counted EXCEPT ![k] = <<>>]
                   /\ cool' = cool /\ q.kind = "login"
  <2>1. PICK g : g = InWindow(k, stamps[k], q.at)
    OBVIOUS
  <2>2. g \in Times /\ <<>> \in Times /\ q.failed \in BOOLEAN
    BY <1>1, <1>2, <1>5, <1>6, <2>1, FilteredTimes, NoTimes, Typed
  <2>3. CASE /\ cool' = IF q.kind = "resend" THEN [cool EXCEPT ![k] = q.at + Cooldown] ELSE cool
             /\ req' = [req EXCEPT ![w].pc = "write", ![w].seen = g]
             /\ UNCHANGED counted
    <3>1. req' = [req EXCEPT ![w] = [q EXCEPT !.pc = "write", !.seen = g, !.failed = q.failed]]
      <4>1. PICK r : r = [q EXCEPT !.pc = "write", !.seen = g]
        OBVIOUS
      <4>2. r = [q EXCEPT !.pc = "write", !.seen = g, !.failed = q.failed]
        BY <1>6, <4>1 DEF Work
      <4>3. req' = [req EXCEPT ![w] = r]
        BY <1>2, <1>7, <2>3, <4>1
      <4> QED BY <4>2, <4>3
    <3> QED BY <2>1, <2>2, <2>3, <3>1
  <2>4. CASE /\ q.kind = "login"
             /\ req' = [req EXCEPT ![w].pc = "write", ![w].seen = <<>>, ![w].failed = TRUE]
             /\ counted' = [counted EXCEPT ![k] = <<>>]
             /\ UNCHANGED cool
    <3>1. req' = [req EXCEPT ![w] = [q EXCEPT !.pc = "write", !.seen = <<>>, !.failed = TRUE]]
      BY <1>2, <1>7, <2>4
    <3> QED BY <2>2, <2>4, <3>1
  <2> QED BY <1>2, <1>3, <2>1, <2>3, <2>4 DEF ReadList
<1>9. PICK b \in BOOLEAN :
        /\ req' = [req EXCEPT ![w] = [q EXCEPT !.pc = "write", !.seen = f, !.failed = b]]
        /\ \/ /\ f = InWindow(k, stamps[k], q.at) /\ b = q.failed /\ counted' = counted
              /\ cool' = IF q.kind = "resend" THEN [cool EXCEPT ![k] = q.at + Cooldown] ELSE cool
           \/ /\ f = <<>> /\ b = TRUE /\ counted' = [counted EXCEPT ![k] = <<>>]
              /\ cool' = cool /\ q.kind = "login"
  BY <1>8
<1>10. PICK r : r = [q EXCEPT !.pc = "write", !.seen = f, !.failed = b]
  OBVIOUS
<1>11. /\ r \in Work /\ r.pc = "write" /\ r.seen = f /\ r.failed = b /\ r.left = q.left
       /\ r.keys = q.keys /\ r.kind = q.kind /\ r.at = q.at
  BY <1>6, <1>8, <1>10 DEF Work
<1>12. req' = [req EXCEPT ![w] = r]
  BY <1>9, <1>10
<1>13. counted' \in [Key -> Times] /\ cool' \in [Key -> Nat]
  <2>1. q.at + Cooldown \in Nat /\ <<>> \in Times
    BY <1>6, Constants, NoTimes
  <2> QED BY <1>7, <1>9, <2>1
<1>14. TypeOK' /\ Shape' /\ req'[w] = r /\ \A v \in Worker \ {w} : req'[v] = req[v]
  <2>1. r.pc \in {"check", "read", "write"} => r.left # <<>>
    BY <1>5, <1>11
  <2> QED BY <1>1, <1>4, <1>6, <1>7, <1>11, <1>12, <1>13, <2>1, Retyped
<1>15. \A v \in Worker : RequestOK(v)'
  <2>1. /\ \E a \in Ask : a.kind = site.kind /\ r.kind = a.kind /\ r.keys = a.keys
        /\ Range(r.left) \subseteq Range(r.keys) /\ IsInjective(r.left)
        /\ r.at <= now'
        /\ r.pc = "act" /\ ~r.failed => r.left = <<>>
    BY <1>4, <1>5, <1>11
  <2>2. now' \in Nat /\ now <= now'
    BY <1>4, <1>6
  <2> QED BY <1>1, <1>4, <1>14, <2>1, <2>2, RequestsKept
<1>16. \A j \in Key : counted'[j] # <<>> => \E a \in Ask : a.kind = site'.kind /\ j \in Range(a.keys)
  <2> SUFFICES ASSUME NEW j \in Key, counted'[j] # <<>>
               PROVE  \E a \in Ask : a.kind = site.kind /\ j \in Range(a.keys)
    BY <1>4
  <2>1. counted[j] # <<>>
    BY <1>7, <1>9
  <2> QED BY <1>1, <2>1 DEF Base
<1>17. Base'
  BY <1>14, <1>15, <1>16, BaseStep
<1>21. ASSUME f = InWindow(k, stamps[k], q.at)
       PROVE  /\ f \in Seq(Nat) /\ Range(f) \subseteq Range(stamps[k])
              /\ Sorted(stamps[k]) => Sorted(f)
              /\ \A t \in Int : Count(k, f, t) <= Count(k, stamps[k], t)
              /\ \A t \in Int : t >= q.at => Count(k, f, t) = Count(k, stamps[k], t)
  <2>1. PICK s \in Seq(Nat) : s = stamps[k]
    BY <1>6
  <2>2. PICK u \in Int : u = q.at
    BY <1>0, <1>6
  <2>3. f = InWindow(k, s, u)
    BY <1>21, <2>1, <2>2
  <2>5. LET g == InWindow(k, s, u)
        IN /\ g \in Seq(Nat) /\ Len(g) = Count(k, s, u)
           /\ Range(g) \subseteq Range(s)
           /\ Sorted(s) => Sorted(g)
           /\ \A t \in Int : /\ Count(k, g, t) <= Count(k, s, t)
                             /\ t >= u => Count(k, g, t) = Count(k, s, t)
    BY <1>5, Filtered
  <2>4. /\ f \in Seq(Nat) /\ Range(f) \subseteq Range(s)
        /\ Sorted(s) => Sorted(f)
        /\ \A t \in Int : Count(k, f, t) <= Count(k, s, t)
        /\ \A t \in Int : t >= u => Count(k, f, t) = Count(k, s, t)
    BY <2>3, <2>5, Zenon
  <2> QED BY <2>1, <2>2, <2>4, Zenon
<1>18. \A t \in Int : Count(k, f, t) \in Nat /\ Count(k, f, t) <= Count(k, stamps[k], t)
  <2> TAKE t \in Int
  <2>1. Count(k, stamps[k], t) \in Nat
    BY <1>1, <1>5, Counted
  <2>2. CASE f = <<>>
    BY <2>1, <2>2, <1>5, CountEmpty
  <2>3. CASE f = InWindow(k, stamps[k], q.at)
    <3>1. f \in Seq(Nat) /\ \A u \in Int : Count(k, f, u) <= Count(k, stamps[k], u)
      BY <2>3, <1>21
    <3>2. Count(k, f, t) \in Nat
      BY <1>5, <3>1, KeptPlaces DEF Count
    <3> QED BY <3>1, <3>2
  <2> QED BY <1>8, <2>2, <2>3
<1>19. AllEarned'
  <2> SUFFICES ASSUME NEW j \in Key, site.serial \/ ~Pair(j) PROVE EarnedOK(j)'
    BY <1>4 DEF AllEarned, Pair
  <2>1. EarnedOK(j)
    BY <1>1 DEF AllEarned
  <2>2. stamps'[j] = stamps[j] /\ made'[j] = made[j]
    BY <1>4
  <2>3. r.pc \in {"read", "write"} /\ j \in Range(r.left) =>
          req[w].pc \in {"read", "write"} /\ j \in Range(req[w].left) /\ r.at = req[w].at
    BY <1>2, <1>4, <1>11
  <2>4. r.pc = "write" /\ Head(r.left) = j =>
          \A t \in Int : Count(j, r.seen, t) \in Nat /\ Count(j, r.seen, t) <= Count(j, stamps[j], t)
    BY <1>3, <1>11, <1>18
  <2> QED BY <1>1, <1>4, <1>6, <1>14, <2>1, <2>2, <2>3, <2>4, EarnedKept
<1>20. ASSUME site.serial PROVE SerialOK'
  <2>1. RunOK(w) /\ (\A j \in Key : ListOK(j))
        /\ \A v \in Worker \ {w} : req'[v] = req[v] /\ req[v].pc = "idle"
    BY <1>1, <1>2, <1>4, <1>14, <1>20, Alone DEF SerialOK
  <2>2. \A j \in Key : \A x \in Range(stamps[j]) \cup Range(counted[j]) : x <= q.at
    BY <1>2, <1>4, <2>1 DEF RunOK
  <2>3. \A j \in Key : counted'[j] = counted[j] \/ (j = k /\ b = TRUE /\ counted'[j] = <<>>)
    BY <1>7, <1>9
  <2>4. ASSUME NEW j \in Key, site.kind = "resend", NEW x \in Range(counted'[j])
        PROVE  x + Cooldown <= cool'[j]
    <3>1. counted' = counted
      BY <1>5, <1>9, <2>4
    <3>2. x + Cooldown <= cool[j] /\ x <= q.at
      BY <2>1, <2>2, <2>4, <3>1 DEF ListOK
    <3>3. x \in Nat /\ counted[j] \in Seq(Nat)
      BY <1>1, <2>4, <3>1, Typed, AppendedRange
    <3>4. cool'[j] = cool[j] \/ cool'[j] = q.at + Cooldown
      BY <1>7, <1>9
    <3> QED BY <1>6, <3>2, <3>3, <3>4, Constants
  <2>5. \A j \in Key : ListOK(j)'
    <3> TAKE j \in Key
    <3>1. ListOK(j)
      BY <2>1
    <3>2. CASE counted'[j] = counted[j]
      <4>1. site.kind = "resend" => \A x \in Range(counted[j]) : x + Cooldown <= cool'[j]
        BY <2>4, <3>2
      <4> QED BY <1>4, <3>1, <3>2, <4>1 DEF ListOK
    <3>3. CASE counted'[j] = <<>>
      <4>1. /\ Sorted(<<>>) /\ Range(<<>>) = {} /\ Apart(<<>>, Limit[j], Window[j])
            /\ Apart(<<>>, 1, Cooldown)
        BY EmptyList, Constants
      <4>2. \A t \in now .. site.maxTime : Count(j, <<>>, t) <= Count(j, stamps[j], t)
        <5> TAKE t \in now .. site.maxTime
        <5>1. t \in Int
          BY <1>6
        <5> QED BY <1>1, <5>1, Counted, CountEmpty
      <4> QED BY <1>4, <3>1, <3>3, <4>1, <4>2 DEF ListOK
    <3> QED BY <2>3, <3>2, <3>3
  <2>6. \A j \in Key : \A x \in Range(stamps'[j]) \cup Range(counted'[j]) : x <= q.at
    <3> TAKE j \in Key
    <3>1. Range(<<>>) = {}
      BY EmptyList
    <3> QED BY <1>4, <2>2, <2>3, <3>1
  <2>7. Sorted(f) /\ \A x \in Range(f) : x <= q.at
    <3>1. CASE f = <<>>
      BY <3>1, EmptyList
    <3>2. CASE f = InWindow(k, stamps[k], q.at)
      <4>1. Range(f) \subseteq Range(stamps[k]) /\ (Sorted(stamps[k]) => Sorted(f))
        BY <3>2, <1>21
      <4> QED BY <1>5, <2>1, <2>2, <4>1 DEF ListOK
    <3> QED BY <1>8, <3>1, <3>2
  <2>8. \A t \in now .. site.maxTime : Count(k, counted'[k], t) <= Count(k, f, t)
    <3> TAKE t \in now .. site.maxTime
    <3>1. t \in Int /\ t >= q.at
      BY <1>5, <1>6
    <3>2. CASE counted'[k] = <<>>
      BY <1>5, <1>18, <3>1, <3>2, CountEmpty
    <3>3. CASE counted'[k] = counted[k] /\ f = InWindow(k, stamps[k], q.at)
      <4>1. Count(k, f, t) = Count(k, stamps[k], t)
        BY <3>1, <3>3, <1>21
      <4>2. Count(k, counted[k], t) <= Count(k, stamps[k], t)
        BY <1>5, <2>1 DEF ListOK
      <4> QED BY <3>3, <4>1, <4>2
    <3> QED BY <1>5, <1>7, <1>9, <3>2, <3>3
  <2>9. site.kind = "resend" => q.at + Cooldown <= cool'[k]
    <3>1. ASSUME site.kind = "resend" PROVE cool'[k] = q.at + Cooldown
      BY <1>5, <1>7, <1>9, <3>1
    <3>2. q.at + Cooldown \in Nat
      BY <1>6, Constants
    <3> QED BY <3>1, <3>2
  <2>10. Passed(r) = Passed(q) /\ Passed(q) \subseteq Key /\ k \notin Passed(q)
    BY <1>5, <1>11 DEF Passed
  <2>11. \A j \in Passed(q) :
           /\ \A t \in now .. site.maxTime :
                Count(j, Append(counted'[j], q.at), t) <= Count(j, stamps'[j], t)
           /\ site.kind = "resend" => q.at + Cooldown <= cool'[j]
    <3> TAKE j \in Passed(q)
    <3>1. j \in Key /\ j # k
      BY <2>10
    <3>2. counted'[j] = counted[j] /\ cool'[j] = cool[j]
      BY <1>7, <1>9, <2>3, <3>1
    <3> QED BY <1>2, <1>4, <2>1, <3>2 DEF RunOK
  <2>12. ~r.failed => \A j \in Range(r.keys) : Room(j, q.at) /\ counted' = counted
    <3>1. ASSUME ~r.failed PROVE ~q.failed /\ counted' = counted
      BY <1>9, <1>11, <3>1
    <3> QED BY <1>2, <1>4, <1>11, <2>1, <3>1 DEF RunOK
  <2>13. RunOK(w)'
    <3>1. /\ r.pc = "write" /\ r.at = q.at /\ r.seen = f /\ Head(r.left) = k
      BY <1>3, <1>11
    <3>2. ~r.failed => \A j \in Range(r.keys) :
            /\ Count(j, counted'[j], r.at) < Limit[j]
            /\ site.kind = "resend" => \A x \in Range(counted'[j]) : x + Cooldown <= r.at
      BY <2>12, <3>1 DEF Room
    <3> QED BY <1>4, <1>14, <2>6, <2>7, <2>8, <2>9, <2>10, <2>11, <3>1, <3>2 DEF RunOK, Room
  <2> QED BY <2>1, <2>5, <2>13, SerialStep
<1> QED
  <2>1. Base' /\ AllEarned' /\ (site'.serial => SerialOK')
    BY <1>4, <1>17, <1>19, <1>20
  <2> QED BY <2>1 DEF IInv, Base, AllEarned

\* One at a time, the list that is written holds what was counted, and the stamp of this attempt.
LEMMA WriteLists ==
  ASSUME IInv, site.serial, NEW w \in Worker, WriteList(w)
  PROVE  LET q == req[w] IN
         /\ \A j \in Key : Sorted(stamps'[j]) /\ \A y \in Range(stamps'[j]) : y <= q.at
         /\ \A j \in Key : \A t \in now .. site.maxTime :
              Count(j, counted[j], t) <= Count(j, stamps'[j], t)
         /\ \A j \in Passed(q) \cup {Head(q.left)} :
              /\ \A t \in now .. site.maxTime :
                   Count(j, Append(counted[j], q.at), t) <= Count(j, stamps'[j], t)
              /\ site.kind = "resend" => q.at + Cooldown <= cool[j]
<1>1. Base /\ SerialOK
  BY Parts
<1>2. PICK q : q = req[w]
  OBVIOUS
<1>3. PICK k : k = Head(q.left)
  OBVIOUS
<1>4. q.pc = "write" /\ stamps' = [stamps EXCEPT ![k] = Append(q.seen, q.at)]
  BY <1>2, <1>3 DEF WriteList
<1>5. k \in Key /\ k \in Range(q.left) /\ Range(q.keys) \subseteq Key
  BY <1>2, <1>3, <1>4, Left
<1>6. /\ q.at \in Nat /\ now \in Nat /\ site.maxTime \in Nat /\ q.seen \in Seq(Nat)
      /\ \A j \in Key : stamps[j] \in Seq(Nat) /\ counted[j] \in Seq(Nat)
  BY <1>1, <1>2, Typed
<1>7. stamps \in [Key -> Times]
  BY <1>1 DEF Base, Shape
<1>8. PICK x \in Nat : x = q.at
  BY <1>6
<1>9. stamps'[k] = Append(q.seen, x) /\ \A j \in Key \ {k} : stamps'[j] = stamps[j]
  BY <1>4, <1>5, <1>7, <1>8
<1>10. RunOK(w) /\ \A j \in Key : ListOK(j)
  BY <1>1 DEF SerialOK
<1>11. /\ \A j \in Key : \A y \in Range(stamps[j]) \cup Range(counted[j]) : y <= x
       /\ Sorted(q.seen) /\ \A y \in Range(q.seen) : y <= x
       /\ \A t \in now .. site.maxTime : Count(k, counted[k], t) <= Count(k, q.seen, t)
       /\ site.kind = "resend" => x + Cooldown <= cool[k]
       /\ \A j \in Passed(q) :
            /\ \A t \in now .. site.maxTime :
                 Count(j, Append(counted[j], x), t) <= Count(j, stamps[j], t)
            /\ site.kind = "resend" => x + Cooldown <= cool[j]
  BY <1>2, <1>3, <1>4, <1>8, <1>10 DEF RunOK
<1>12. ASSUME NEW j \in Key PROVE Sorted(stamps'[j]) /\ \A y \in Range(stamps'[j]) : y <= x
  <2>1. CASE j = k
    <3>1. Sorted(Append(q.seen, x))
      BY <1>6, <1>11, SortedAppended
    <3>2. Range(Append(q.seen, x)) = Range(q.seen) \cup {x}
      BY <1>6, AppendedRange
    <3>3. \A y \in Range(Append(q.seen, x)) : y <= x
      BY <1>11, <3>2
    <3> QED BY <1>9, <2>1, <3>1, <3>3
  <2>2. CASE j # k
    BY <1>9, <1>10, <1>11, <2>2 DEF ListOK
  <2> QED BY <2>1, <2>2
<1>13. ASSUME NEW t \in now .. site.maxTime
       PROVE  /\ Count(k, counted[k], t) <= Count(k, stamps'[k], t)
              /\ Count(k, Append(counted[k], x), t) <= Count(k, stamps'[k], t)
  <2>0. t \in Int
    BY <1>6
  <2>1. PICK a : a = Count(k, counted[k], t)
    OBVIOUS
  <2>2. PICK b : b = Count(k, q.seen, t)
    OBVIOUS
  <2>3. PICK c : c = Count(k, Append(counted[k], x), t)
    OBVIOUS
  <2>4. PICK d : d = Count(k, Append(q.seen, x), t)
    OBVIOUS
  <2>5. PICK late : late = (t - x < Window[k])
    OBVIOUS
  <2>6. a \in Nat /\ c \in Nat /\ (late => c = a + 1) /\ (~late => c = a)
    BY <1>5, <1>6, <2>0, <2>1, <2>3, <2>5, Appended
  <2>7. b \in Nat /\ d \in Nat /\ (late => d = b + 1) /\ (~late => d = b)
    BY <1>5, <1>6, <2>0, <2>2, <2>4, <2>5, Appended
  <2>8. a <= b
    BY <1>11, <2>1, <2>2
  <2>9. a <= d /\ c <= d
    BY <2>5, <2>6, <2>7, <2>8
  <2> QED BY <1>9, <2>1, <2>3, <2>4, <2>9
<1>14. ASSUME NEW j \in Key, NEW t \in now .. site.maxTime
       PROVE  Count(j, counted[j], t) <= Count(j, stamps'[j], t)
  <2>1. CASE j = k
    BY <1>13, <2>1
  <2>2. CASE j # k
    BY <1>9, <1>10, <2>2 DEF ListOK
  <2> QED BY <2>1, <2>2
<1>15. ASSUME NEW j \in Passed(q) \cup {k}
       PROVE  /\ \A t \in now .. site.maxTime :
                   Count(j, Append(counted[j], x), t) <= Count(j, stamps'[j], t)
              /\ site.kind = "resend" => x + Cooldown <= cool[j]
  <2>1. CASE j = k
    BY <1>11, <1>13, <2>1
  <2>2. CASE j # k
    <3>1. j \in Passed(q) /\ j \in Key
      BY <1>5, <2>2 DEF Passed
    <3>2. stamps'[j] = stamps[j]
      BY <1>9, <2>2, <3>1
    <3> QED BY <1>11, <3>1, <3>2
  <2> QED BY <2>1, <2>2
<1> QED BY <1>2, <1>3, <1>8, <1>12, <1>14, <1>15

LEMMA WriteListStep ==
  ASSUME IInv, NEW w \in Worker, WriteList(w)
  PROVE  IInv'
<1>1. Base /\ AllEarned /\ (site.serial => SerialOK)
  BY Parts
<1>2. PICK q : q = req[w]
  OBVIOUS
<1>3. PICK k : k = Head(q.left)
  OBVIOUS
<1>4. PICK r : r = IF Len(q.left) > 1 THEN [q EXCEPT !.pc = "read", !.left = Tail(q.left), !.seen = <<>>]
                                      ELSE Idle
  OBVIOUS
<1>5. /\ q.pc = "write" /\ site' = site /\ now' = now /\ made' = made /\ cool' = cool
      /\ stamps' = [stamps EXCEPT ![k] = Append(q.seen, q.at)]
      /\ counted' = IF Len(q.left) > 1 \/ q.failed THEN counted
                    ELSE [j \in Key |-> IF j \in Range(q.keys) THEN Append(counted[j], q.at)
                                        ELSE counted[j]]
      /\ req' = [req EXCEPT ![w] = r]
  BY <1>2, <1>3, <1>4 DEF WriteList
<1>6. /\ q.left \in Seq(Key) /\ q.left # <<>> /\ IsInjective(q.left)
      /\ k \in Range(q.left) /\ k \in Key /\ k \in Range(q.keys)
      /\ Tail(q.left) \in Seq(Key) /\ IsInjective(Tail(q.left))
      /\ Range(Tail(q.left)) = Range(q.left) \ {k}
      /\ Range(q.left) \subseteq Range(q.keys) /\ Range(q.keys) \subseteq Key
      /\ Len(q.left) \in Nat /\ Len(q.left) >= 1 /\ (Len(q.left) = 1 <=> Tail(q.left) = <<>>)
      /\ q.at <= now /\ q.kind = site.kind
  BY <1>2, <1>3, <1>5, Left
<1>7. PICK a \in Ask : a.kind = site.kind /\ q.kind = a.kind /\ q.keys = a.keys
  BY <1>2, <1>5, Left
<1>8. /\ q \in Work /\ q.at \in Nat /\ now \in Nat /\ now \in 0 .. site.maxTime /\ site \in Site
      /\ site.maxTime \in Nat /\ q.seen \in Times /\ q.at \in 0 .. site.maxTime
  BY <1>1, <1>2, Typed
<1>9. /\ stamps \in [Key -> Times] /\ counted \in [Key -> Times] /\ made \in [Key -> Times]
      /\ cool \in [Key -> Nat]
  BY <1>1 DEF Base, Shape
<1>10. \/ /\ Tail(q.left) # <<>> /\ r \in Work /\ r.pc = "read" /\ r.left = Tail(q.left)
          /\ r.keys = q.keys /\ r.kind = q.kind /\ r.at = q.at /\ r.failed = q.failed
          /\ Len(q.left) > 1
       \/ r \in Work /\ r.pc = "idle" /\ r.left = <<>> /\ ~(Len(q.left) > 1) /\ Tail(q.left) = <<>>
  <2>1. CASE Len(q.left) > 1
    <3>1. Len(q.left) # 1
      <4>1. PICK n : n = Len(q.left)
        OBVIOUS
      <4>2. n > 1 /\ n \in Nat
        BY <1>6, <2>1, <4>1
      <4>3. n # 1
        BY <4>2
      <4> QED BY <4>1, <4>3
    <3>2. r = [q EXCEPT !.pc = "read", !.left = Tail(q.left), !.seen = <<>>]
      BY <1>4, <2>1
    <3>3. /\ r \in Work /\ r.pc = "read" /\ r.left = Tail(q.left)
          /\ r.keys = q.keys /\ r.kind = q.kind /\ r.at = q.at /\ r.failed = q.failed
      <4>1. PICK u \in Seq(Key) : u = Tail(q.left)
        BY <1>6
      <4>2. PICK e \in Times : e = <<>>
        BY NoTimes
      <4>3. r = [q EXCEPT !.pc = "read", !.left = u, !.seen = e]
        BY <3>2, <4>1, <4>2
      <4>4. /\ r \in Work /\ r.pc = "read" /\ r.left = u
            /\ r.keys = q.keys /\ r.kind = q.kind /\ r.at = q.at /\ r.failed = q.failed
        BY <1>8, <4>3 DEF Work
      <4> QED BY <4>1, <4>4
    <3> QED BY <1>6, <2>1, <3>1, <3>3
  <2>2. CASE ~(Len(q.left) > 1)
    <3>1. Len(q.left) = 1
      BY <1>6, <2>2
    <3>2. r = Idle
      BY <1>4, <2>2
    <3>3. r.pc = "idle" /\ r.left = <<>>
      BY <3>2 DEF Idle
    <3> QED BY <1>6, <1>8, <2>2, <3>1, <3>2, <3>3, IdleWork
  <2> QED BY <2>1, <2>2
<1>11. stamps' \in [Key -> Times] /\ made' \in [Key -> Times] /\ cool' \in [Key -> Nat]
  <2>1. Append(q.seen, q.at) \in Times
    BY <1>8, AppendedTimes
  <2> QED BY <1>5, <1>9, <2>1
<1>12. counted' \in [Key -> Times]
  <2>1. \A j \in Key : counted[j] \in Times /\ Append(counted[j], q.at) \in Times
    BY <1>8, <1>9, AppendedTimes
  <2> QED BY <1>5, <1>9, <2>1
<1>13. TypeOK' /\ Shape' /\ req'[w] = r /\ \A v \in Worker \ {w} : req'[v] = req[v]
  <2>1. r \in Work /\ (r.pc \in {"check", "read", "write"} => r.left # <<>>)
    BY <1>10
  <2> QED BY <1>1, <1>5, <1>8, <1>11, <1>12, <2>1, Retyped
<1>14. \A v \in Worker : RequestOK(v)'
  <2>1. r.pc # "idle" =>
          /\ \E b \in Ask : b.kind = site.kind /\ r.kind = b.kind /\ r.keys = b.keys
          /\ Range(r.left) \subseteq Range(r.keys) /\ IsInjective(r.left)
          /\ r.at <= now'
          /\ r.pc = "act" /\ ~r.failed => r.left = <<>>
    BY <1>5, <1>6, <1>7, <1>10
  <2>2. now' \in Nat /\ now <= now'
    BY <1>5, <1>8
  <2> QED BY <1>1, <1>5, <1>13, <2>1, <2>2, RequestsKept
<1>15. \A j \in Key : counted'[j] # <<>> => \E b \in Ask : b.kind = site'.kind /\ j \in Range(b.keys)
  <2> SUFFICES ASSUME NEW j \in Key, counted'[j] # <<>>
               PROVE  \E b \in Ask : b.kind = site.kind /\ j \in Range(b.keys)
    BY <1>5
  <2>1. CASE j \in Range(q.keys)
    BY <1>7, <2>1
  <2>2. CASE j \notin Range(q.keys)
    <3>1. counted'[j] = counted[j]
      BY <1>5, <2>2
    <3> QED BY <1>1, <3>1 DEF Base
  <2> QED BY <2>1, <2>2
<1>16. Base'
  BY <1>13, <1>14, <1>15, BaseStep
<1>17. AllEarned'
  <2> SUFFICES ASSUME NEW j \in Key, site.serial \/ ~Pair(j) PROVE EarnedOK(j)'
    BY <1>5 DEF AllEarned, Pair
  <2>1. EarnedOK(j) /\ made'[j] = made[j]
    BY <1>1, <1>5 DEF AllEarned
  <2>2. CASE j = k
    <3>1. stamps'[j] = Append(req[w].seen, req[w].at)
      BY <1>2, <1>5, <1>9, <2>2
    <3>2. r.pc # "write" /\ j \notin Range(r.left)
      <4>1. Range(<<>>) = {}
        BY EmptyList
      <4> QED BY <1>6, <1>10, <2>2, <4>1
    <3>3. req[w].pc = "write" /\ req[w].left # <<>> /\ j = Head(req[w].left)
      BY <1>2, <1>3, <1>5, <1>6, <2>2
    <3> QED BY <1>1, <1>5, <1>8, <1>13, <2>1, <3>1, <3>2, <3>3, EarnedWritten
  <2>3. CASE j # k
    <3>1. stamps'[j] = stamps[j]
      BY <1>5, <1>9, <2>3
    <3>2. r.pc \in {"read", "write"} /\ j \in Range(r.left) =>
            req[w].pc \in {"read", "write"} /\ j \in Range(req[w].left) /\ r.at = req[w].at
      BY <1>2, <1>5, <1>6, <1>10
    <3>3. r.pc # "write"
      BY <1>10
    <3> QED BY <1>1, <1>5, <1>8, <1>13, <2>1, <3>1, <3>2, <3>3, EarnedKept
  <2> QED BY <2>2, <2>3
<1>18. ASSUME site.serial PROVE SerialOK'
  <2>1. RunOK(w) /\ (\A j \in Key : ListOK(j))
        /\ \A v \in Worker \ {w} : req'[v] = req[v] /\ req[v].pc = "idle"
    BY <1>1, <1>2, <1>5, <1>13, <1>18, Alone DEF SerialOK
  <2>2. PICK x \in Nat : x = q.at
    BY <1>8
  <2>3. /\ \A j \in Key : Sorted(stamps'[j]) /\ \A y \in Range(stamps'[j]) : y <= x
        /\ \A j \in Key : \A t \in now .. site.maxTime :
             Count(j, counted[j], t) <= Count(j, stamps'[j], t)
        /\ \A j \in Passed(q) \cup {k} :
             /\ \A t \in now .. site.maxTime :
                  Count(j, Append(counted[j], x), t) <= Count(j, stamps'[j], t)
             /\ site.kind = "resend" => x + Cooldown <= cool[j]
    BY <1>2, <1>3, <1>18, <2>2, WriteLists
  <2>4. /\ \A j \in Key : \A y \in Range(counted[j]) : y <= x
        /\ ~q.failed => \A j \in Range(q.keys) : Room(j, x)
    BY <1>2, <1>5, <2>1, <2>2 DEF RunOK
  <2>5. ASSUME NEW j \in Key PROVE ListOK(j)'
    <3>1. /\ Sorted(stamps'[j]) /\ Sorted(counted[j])
          /\ Apart(counted[j], Limit[j], Window[j])
          /\ site.kind = "resend" =>
               Apart(counted[j], 1, Cooldown) /\ \A y \in Range(counted[j]) : y + Cooldown <= cool[j]
      BY <2>1, <2>3 DEF ListOK
    <3>2. counted[j] \in Seq(Nat) /\ counted[j] \in Times /\ stamps'[j] \in Seq(Nat)
      BY <1>1, <1>8, <1>11, Typed, TimesAreNat
    <3>3. (\A y \in Range(stamps'[j]) : y \in Nat /\ y <= x) /\ \A y \in Range(counted[j]) : y \in Nat
      BY <2>3, <3>2, AppendedRange
    <3>4. \A y \in Range(stamps'[j]) : y <= now
      BY <1>6, <1>8, <2>2, <3>3
    <3>7. x <= now /\ \A y \in Range(counted[j]) : y <= now
      <4>1. x <= now
        BY <1>6, <2>2
      <4>2. ASSUME NEW y \in Range(counted[j]) PROVE y <= now
        <5>1. y <= x /\ y \in Nat
          BY <2>4, <3>3
        <5> QED BY <1>8, <4>1, <5>1
      <4> QED BY <4>1, <4>2
    <3>5. CASE counted'[j] = counted[j]
      <4>1. \A y \in Range(counted[j]) : y <= now
        BY <3>7
      <4> QED BY <1>5, <2>3, <3>1, <3>4, <3>5, <4>1 DEF ListOK
    <3>6. CASE /\ counted'[j] = Append(counted[j], x) /\ ~q.failed /\ j \in Range(q.keys)
               /\ ~(Len(q.left) > 1)
      <4>1. j \in Passed(q) \cup {k}
        <5>1. Range(q.left) \ {k} = {}
          <6>1. Range(<<>>) = {}
            BY EmptyList
          <6> QED BY <1>6, <1>10, <3>6, <6>1
        <5> QED BY <3>6, <5>1 DEF Passed
      <4>2. Room(j, x)
        BY <2>4, <3>6
      <4>3. Sorted(Append(counted[j], x))
        BY <2>4, <3>1, <3>2, SortedAppended
      <4>4. Range(Append(counted[j], x)) = Range(counted[j]) \cup {x}
        BY <3>2, AppendedRange
      <4>5. \A y \in Range(Append(counted[j], x)) : y <= now
        BY <3>7, <4>4
      <4>6. Apart(Append(counted[j], x), Limit[j], Window[j])
        BY <2>4, <3>1, <3>2, <4>2, ApartByRoom DEF Room
      <4>7. ASSUME site.kind = "resend"
            PROVE  /\ Apart(Append(counted[j], x), 1, Cooldown)
                   /\ \A y \in Range(Append(counted[j], x)) : y + Cooldown <= cool[j]
        <5>1. \A y \in Range(counted[j]) : y + Cooldown <= x
          BY <4>2, <4>7 DEF Room
        <5>2. Apart(Append(counted[j], x), 1, Cooldown)
          BY <3>1, <3>2, <4>7, <5>1, ApartByCooldown
        <5>3. x + Cooldown <= cool[j]
          BY <2>3, <4>1, <4>7
        <5> QED BY <3>1, <4>4, <4>7, <5>2, <5>3
      <4> QED BY <1>5, <2>3, <3>1, <3>4, <3>6, <4>1, <4>3, <4>5, <4>6, <4>7 DEF ListOK
    <3> QED BY <1>5, <2>2, <3>5, <3>6
  <2>6. RunOK(w)'
    <3>1. CASE r.pc = "idle"
      BY <1>13, <3>1 DEF RunOK
    <3>2. CASE r.pc # "idle"
      <4>1. r.pc = "read" /\ r.left = Tail(q.left) /\ r.keys = q.keys /\ r.at = x /\ r.failed = q.failed
            /\ Len(q.left) > 1
        BY <1>10, <2>2, <3>2
      <4>2. Passed(r) = Passed(q) \cup {k}
        BY <1>6, <4>1 DEF Passed
      <4>3. counted' = counted
        BY <1>5, <4>1
      <4>4. ~r.failed => \A j \in Range(r.keys) :
              /\ Count(j, counted[j], x) < Limit[j]
              /\ site.kind = "resend" => \A y \in Range(counted[j]) : y + Cooldown <= x
        BY <2>4, <4>1 DEF Room
      <4> QED BY <1>5, <1>13, <2>3, <2>4, <4>1, <4>2, <4>3, <4>4 DEF RunOK, Room
    <3> QED BY <3>1, <3>2
  <2> QED BY <2>1, <2>5, <2>6, SerialStep
<1> QED
  <2>1. Base' /\ AllEarned' /\ (site'.serial => SerialOK')
    BY <1>5, <1>16, <1>17, <1>18
  <2> QED BY <2>1 DEF IInv, Base, AllEarned

LEMMA NextStep == IInv /\ [Next]_vars => IInv'
<1> SUFFICES ASSUME IInv, [Next]_vars PROVE IInv'
  OBVIOUS
<1>1. CASE \E w \in Worker, a \in Ask : Arrive(w, a)
  BY <1>1, ArriveStep
<1>2. ASSUME NEW w \in Worker,
             \/ Check(w) \/ Act(w) \/ Drop(w) \/ LogIn(w)
             \/ ReadList(w) \/ WriteList(w) \/ GiveUp(w)
      PROVE  IInv'
  BY <1>2, CheckStep, ActStep, DropStep, LogInStep, ReadListStep, WriteListStep, GiveUpStep
<1>3. CASE Tick
  BY <1>3, TickStep
<1>4. CASE UNCHANGED vars
  <2>1. /\ site' = site /\ now' = now /\ stamps' = stamps /\ cool' = cool /\ req' = req
        /\ made' = made /\ counted' = counted
    BY <1>4 DEF vars
  <2>2. TypeOK' /\ Shape'
    BY <2>1 DEF IInv, TypeOK, Shape, Times, Work
  <2>3. \A w \in Worker : RequestOK(w)'
    BY <2>1 DEF IInv, RequestOK
  <2>4. \A k \in Key : site'.serial \/ ~Pair(k) => EarnedOK(k)'
    BY <2>1 DEF IInv, EarnedOK, Owed
  <2>5. ASSUME site.serial PROVE SerialOK'
    <3>1. \A k \in Key : ListOK(k)'
      BY <2>1, <2>5 DEF IInv, SerialOK, ListOK
    <3>2. \A w \in Worker : RunOK(w)'
      BY <2>1, <2>5 DEF IInv, SerialOK, RunOK, Room
    <3> QED BY <2>1, <2>5, <3>1, <3>2 DEF IInv, SerialOK
  <2> QED BY <2>1, <2>2, <2>3, <2>4, <2>5 DEF IInv, Pair
<1> QED BY <1>1, <1>2, <1>3, <1>4 DEF Next

\* The invariant holds in every state of every instance.
THEOREM Invariance == Spec => []IInv
<1>1. Init => IInv
  BY InitOK
<1>2. IInv /\ [Next]_vars => IInv'
  BY NextStep
<1> QED BY <1>1, <1>2, PTL DEF Spec

\* Every variable stays in its type.
THEOREM TypeCorrect == Spec => []TypeOK
<1>1. IInv => TypeOK
  BY DEF IInv
<1> QED BY <1>1, Invariance, PTL

\* What is recorded of a key never exceeds what was made.
LEMMA EarnedBy ==
  ASSUME IInv, NEW k \in Key, EarnedOK(k)
  PROVE  Earned(k)
<1>1. Base
  BY Parts
<1>2. /\ now \in 0 .. site.maxTime /\ now \in Int
      /\ stamps[k] \in Seq(Nat) /\ made[k] \in Seq(Nat)
  BY <1>1, Typed
<1>3. PICK a \in Nat : a = Count(k, stamps[k], now)
  BY <1>1, <1>2, Counted
<1>4. PICK b \in Nat : b = Count(k, made[k], now)
  BY <1>1, <1>2, Counted
<1>5. PICK c \in Nat : c = Cardinality(Owed(k, now))
  <2>1. Owed(k, now) \in SUBSET Worker
    BY DEF Owed
  <2> QED BY <2>1, Constants, FS_Subset, FS_CardinalityType
<1>6. a + c <= b
  BY <1>2, <1>3, <1>4, <1>5 DEF EarnedOK
<1>7. Full(k, now) => a >= Limit[k]
  BY <1>2, <1>3, FullCounts
<1>8. Len(InWindow(k, made[k], now)) = b
  BY <1>2, <1>4, Filtered
<1> QED BY <1>6, <1>7, <1>8, Constants DEF Earned

\* No race, lost record or cache failure fills a key of its own accord: a key that refuses has
\* let through as many attempts in its window as it allows.
THEOREM RefusalsAreEarned == Spec => []RefusalIsEarned
<1>1. IInv => RefusalIsEarned
  BY EarnedBy DEF IInv, RefusalIsEarned
<1> QED BY <1>1, Invariance, PTL

\* One request at a time, the attempts before a login lock nobody out after it.
THEOREM LoginsClear == Spec => []LoginClears
<1>1. IInv => LoginClears
  BY EarnedBy DEF IInv, LoginClears
<1> QED BY <1>1, Invariance, PTL

\* One request at a time, no window holds more counted attempts than its key allows.
THEOREM LimitHolds == Spec => []WithinLimit
<1>1. IInv => WithinLimit
  BY DEF IInv, WithinLimit, SerialOK, ListOK, Apart
<1> QED BY <1>1, Invariance, PTL

\* One request at a time, two counted resends under a key are a cooldown apart.
THEOREM CooldownHolds == Spec => []CooldownKept
<1>1. ASSUME IInv PROVE CooldownKept
  <2> SUFFICES ASSUME site.serial, NEW a \in Ask, a.kind = "resend", NEW k \in Range(a.keys),
                      NEW i \in DOMAIN counted[k], i + 1 \in DOMAIN counted[k]
               PROVE  counted[k][i + 1] - counted[k][i] >= Cooldown
    BY DEF CooldownKept
  <2>1. k \in Key
    <3>1. \A j \in DOMAIN a.keys : a.keys[j] \in Key
      BY Constants
    <3> QED BY <3>1 DEF Range
  <2>2. counted[k] # <<>>
    OBVIOUS
  <2>3. PICK b \in Ask : b.kind = site.kind /\ k \in Range(b.keys)
    BY <1>1, <2>1, <2>2 DEF IInv
  <2>4. a.kind = b.kind
    <3>1. Range(a.keys) \cap Range(b.keys) # {}
      BY <2>3
    <3> QED BY <3>1, AskAssumption
  <2>5. Apart(counted[k], 1, Cooldown)
    BY <1>1, <2>1, <2>3, <2>4 DEF IInv, SerialOK, ListOK
  <2> QED BY <2>5 DEF Apart
<1> QED BY <1>1, Invariance, PTL

\* In an ordered list that is full, the stamp that is the limit-th from the end decides: the list
\* stays full for as long as this one is in the window.
LEMMA DecidingStamp ==
  ASSUME NEW k \in Key, NEW s \in Seq(Nat), Sorted(s), Limit[k] <= Len(s)
  PROVE  LET x == s[Len(s) - Limit[k] + 1]
         IN x \in Range(s) /\ \A t \in Int : Count(k, s, t) >= Limit[k] <=> t - x < Window[k]
<1>1. PICK n \in Nat : n = Len(s) /\ DOMAIN s = 1 .. n
  OBVIOUS
<1>2. PICK m \in Nat : m = Limit[k] /\ m > 0 /\ m <= n
  BY <1>1, Constants
<1>3. PICK d \in Nat : d = n - m + 1 /\ d \in 1 .. n
  BY <1>1, <1>2
<1>4. PICK x \in Nat : x = s[d] /\ x \in Range(s)
  BY <1>1, <1>3, SMTT(30) DEF Range
<1>5. \A i \in 1 .. n : s[i] \in Nat
  BY <1>1
<1>6. ASSUME NEW t \in Int PROVE Count(k, s, t) >= m <=> t - x < Window[k]
  <2>1. PICK K : K = Kept(k, s, t) /\ IsFiniteSet(K) /\ K \in SUBSET (1 .. n)
    BY <1>1, KeptPlaces
  <2>2. PICK c \in Nat : c = Count(k, s, t) /\ c = Cardinality(K)
    BY <2>1, FS_CardinalityType DEF Count
  <2>3. Window[k] \in Nat
    BY Constants
  <2>4. ASSUME t - x < Window[k] PROVE c >= m
    <3>1. ASSUME NEW i \in d .. n PROVE i \in K
      <4>1. i \in 1 .. n /\ d <= i
        BY <1>1, <1>3
      <4>2. s[i] \in Nat /\ x <= s[i]
        BY <1>1, <1>3, <1>4, <1>5, <4>1 DEF Sorted
      <4>3. t - s[i] < Window[k]
        BY <1>4, <2>3, <2>4, <4>2, SMTT(30)
      <4> QED BY <1>1, <2>1, <4>1, <4>3 DEF Kept
    <3>2. Cardinality(d .. n) = m
      <4>1. Cardinality(d .. n) = IF d > n THEN 0 ELSE n - d + 1
        BY <1>1, <1>3, FS_Interval
      <4> QED BY <1>1, <1>2, <1>3, <4>1
    <3>3. d .. n \in SUBSET K
      BY <3>1
    <3> QED BY <2>1, <2>2, <3>2, <3>3, FS_Subset
  <2>5. ASSUME ~(t - x < Window[k]) PROVE ~(c >= m)
    <3>1. ASSUME NEW i \in K PROVE i \in d + 1 .. n
      <4>1. i \in 1 .. n /\ t - s[i] < Window[k]
        BY <1>1, <2>1, <3>1 DEF Kept
      <4>2. s[i] \in Nat /\ (i <= d => s[i] <= x)
        BY <1>1, <1>3, <1>4, <1>5, <4>1 DEF Sorted
      <4>3. ~(i <= d)
        BY <1>4, <2>3, <2>5, <4>1, <4>2, SMTT(30)
      <4> QED BY <1>1, <1>3, <4>1, <4>3
    <3>2. IsFiniteSet(d + 1 .. n) /\ Cardinality(d + 1 .. n) = m - 1
      <4>1. PICK e \in Int : e = d + 1
        BY <1>3
      <4>2. IsFiniteSet(e .. n) /\ Cardinality(e .. n) = IF e > n THEN 0 ELSE n - e + 1
        <5>1. n \in Int /\ e \in Int
          BY <4>1, <1>1
        <5> QED BY <5>1, FS_Interval
      <4>3. (IF e > n THEN 0 ELSE n - e + 1) = m - 1
        <5>1. e = n - m + 2 /\ e \in Int /\ n \in Int /\ m \in Int /\ m > 0
          BY <1>1, <1>2, <1>3, <4>1
        <5> QED BY <5>1
      <4> QED BY <4>1, <4>2, <4>3
    <3>3. K \in SUBSET (d + 1 .. n)
      BY <3>1
    <3>4. c <= m - 1
      BY <2>2, <3>2, <3>3, FS_Subset
    <3> QED BY <1>2, <2>2, <3>4
  <2> QED BY <2>2, <2>4, <2>5
<1>7. s[Len(s) - Limit[k] + 1] = x
  BY <1>1, <1>2, <1>3, <1>4
<1>8. x \in Range(s) /\ \A t \in Int : Count(k, s, t) >= Limit[k] <=> t - x < Window[k]
  BY <1>2, <1>4, <1>6
<1> QED BY <1>7, <1>8, Zenon

\* One request at a time, a login's wait for a key is the time until the key lets it through.
LEMMA WaitIsExact ==
  ASSUME IInv, site.serial, NEW k \in Key, Full(k, now)
  PROVE  /\ Wait("login", k, now) \in Nat /\ Wait("login", k, now) >= 1
         /\ \A t \in Nat : t >= now => (Full(k, t) <=> t - now < Wait("login", k, now))
<1>1. Base /\ SerialOK
  BY Parts
<1>2. now \in Nat /\ stamps[k] \in Seq(Nat) /\ Limit[k] \in Nat /\ Window[k] \in Nat /\ Limit[k] > 0
  BY <1>1, Typed, Constants
<1>3. Sorted(stamps[k]) /\ \A x \in Range(stamps[k]) : x <= now
  BY <1>1 DEF SerialOK, ListOK
<1>4. PICK f : f = InWindow(k, stamps[k], now)
  OBVIOUS
<1>5. /\ f \in Seq(Nat) /\ Len(f) = Count(k, stamps[k], now)
      /\ Range(f) \subseteq Range(stamps[k]) /\ Sorted(f)
      /\ \A t \in Int : t >= now => Count(k, f, t) = Count(k, stamps[k], t)
  <2>1. PICK s \in Seq(Nat) : s = stamps[k]
    BY <1>2
  <2>2. PICK u \in Int : u = now
    BY <1>2
  <2>3. f = InWindow(k, s, u) /\ Sorted(s)
    BY <1>3, <1>4, <2>1, <2>2
  <2>4. LET g == InWindow(k, s, u)
        IN /\ g \in Seq(Nat) /\ Len(g) = Count(k, s, u)
           /\ Range(g) \subseteq Range(s)
           /\ Sorted(s) => Sorted(g)
           /\ \A t \in Int : /\ Count(k, g, t) <= Count(k, s, t)
                             /\ t >= u => Count(k, g, t) = Count(k, s, t)
    BY Filtered
  <2> QED BY <2>1, <2>2, <2>3, <2>4, Zenon
<1>6. Limit[k] <= Len(f)
  <2>1. Len(f) >= Limit[k]
    BY <1>4 DEF Full
  <2>2. Len(f) \in Nat
    BY <1>5
  <2> QED BY <1>2, <2>1, <2>2
<1>7. PICK x : x = f[Len(f) - Limit[k] + 1]
  OBVIOUS
<1>8. x \in Range(f) /\ \A t \in Int : Count(k, f, t) >= Limit[k] <=> t - x < Window[k]
  <2>1. LET y == f[Len(f) - Limit[k] + 1]
        IN y \in Range(f) /\ \A t \in Int : Count(k, f, t) >= Limit[k] <=> t - y < Window[k]
    BY <1>5, <1>6, DecidingStamp
  <2> QED BY <1>7, <2>1, Zenon
<1>9. x \in Nat /\ x <= now
  BY <1>2, <1>3, <1>5, <1>8, AppendedRange
<1>10. Wait("login", k, now) = x + Window[k] - now
  <2>1. ~Cooling("login", k, now)
    BY DEF Cooling
  <2>2. Wait("login", k, now) = f[Len(f) - Limit[k] + 1] + Window[k] - now
    BY <1>4, <2>1 DEF Wait
  <2> QED BY <1>7, <2>2
<1>11. ASSUME NEW t \in Nat, t >= now
       PROVE  Full(k, t) <=> t - now < x + Window[k] - now
  <2>1. Full(k, t) <=> Count(k, stamps[k], t) >= Limit[k]
    BY <1>2, FullCounts
  <2>2. t \in Int /\ Count(k, f, t) = Count(k, stamps[k], t)
    BY <1>5, <1>11
  <2>3. Full(k, t) <=> t - x < Window[k]
    BY <1>8, <2>1, <2>2
  <2> QED BY <1>2, <1>9, <2>3
<1>12. now - now < x + Window[k] - now
  BY <1>2, <1>11
<1> QED
  <2>1. x + Window[k] - now \in Nat /\ x + Window[k] - now >= 1
    BY <1>2, <1>9, <1>12
  <2> QED BY <1>10, <1>11, <2>1

\* One request at a time, a login that is refused and waits as long as it was told is let through,
\* and not a second earlier.
THEOREM WaitIsTold == Spec => []LoginTellsTheWait
<1>1. ASSUME IInv PROVE LoginTellsTheWait
  <2> SUFFICES ASSUME site.serial, NEW a \in Ask, a.kind = "login",
                      Refused("login", a.keys, now) # {}
               PROVE  LET r == RetryAfter("login", a.keys, now)
                      IN /\ r >= 1
                         /\ Refused("login", a.keys, now + r) = {}
                         /\ Refused("login", a.keys, now + r - 1) # {}
    BY DEF LoginTellsTheWait, TellsTheWait
  <2>1. Base /\ now \in Nat
    BY <1>1, Parts, Typed
  <2>2. PICK n \in Nat : DOMAIN a.keys = 1 .. n /\ \A i \in 1 .. n : a.keys[i] \in Key
    BY Constants
  <2>3. \A t : Refused("login", a.keys, t) = {i \in 1 .. n : Full(a.keys[i], t)}
    BY <2>2 DEF Refused, Cooling
  <2>4. PICK R : R = Refused("login", a.keys, now)
    OBVIOUS
  <2>5. R \subseteq 1 .. n /\ R # {} /\ \A i \in 1 .. n : i \in R <=> Full(a.keys[i], now)
    BY <2>3, <2>4
  <2>6. PICK waits : waits = [i \in R |-> Wait("login", a.keys[i], now)]
    OBVIOUS
  <2>7. ASSUME NEW i \in R
        PROVE  /\ waits[i] \in Nat /\ waits[i] >= 1
               /\ \A t \in Nat : t >= now => (Full(a.keys[i], t) <=> t - now < waits[i])
    <3>1. a.keys[i] \in Key /\ Full(a.keys[i], now) /\ waits[i] = Wait("login", a.keys[i], now)
      BY <2>2, <2>5, <2>6
    <3> QED BY <1>1, <3>1, WaitIsExact
  <2>8. PICK W : W = Range(waits)
    OBVIOUS
  <2>9. W = {waits[i] : i \in R} /\ waits \in Surjection(R, W)
    BY <2>6, <2>8 DEF Range, Surjection
  <2>10. IsFiniteSet(R)
    <3>1. IsFiniteSet(1 .. n)
      BY FS_Interval
    <3> QED BY <2>5, <3>1, FS_Subset
  <2>11. IsFiniteSet(W)
    BY <2>9, <2>10, FS_Surjection
  <2>12. PICK r : r = CHOOSE m \in W : \A v \in W : v <= m
    OBVIOUS
  <2>13. r \in W /\ \A v \in W : v <= r
    <3>1. W # {} /\ \A v \in W : v \in Int
      BY <2>5, <2>7, <2>9
    <3>2. \E m \in W : \A v \in W : v <= m
      BY <2>11, <3>1, Greatest
    <3> QED BY <2>12, <3>2
  <2>14. RetryAfter("login", a.keys, now) = r
    BY <2>4, <2>6, <2>8, <2>12 DEF RetryAfter
  <2>15. PICK i \in R : r = waits[i]
    BY <2>9, <2>13
  <2>16. r \in Nat /\ r >= 1 /\ now + r \in Nat /\ now + r - 1 \in Nat
    BY <2>1, <2>7, <2>15
  <2>17. ASSUME NEW j \in 1 .. n, Full(a.keys[j], now + r) PROVE FALSE
    <3>1. Full(a.keys[j], now)
      <4>1. PICK k \in Key : k = a.keys[j]
        BY <2>2
      <4>2. stamps[k] \in Seq(Nat) /\ Limit[k] \in Nat
        BY <2>1, Typed, Constants
      <4>3. PICK t \in Nat : t = now + r /\ now <= t
        BY <2>1, <2>16
      <4>4. Count(k, stamps[k], t) >= Limit[k]
        BY <2>17, <4>1, <4>2, <4>3, FullCounts
      <4>5. /\ Count(k, stamps[k], now) \in Nat /\ Count(k, stamps[k], t) \in Nat
            /\ Count(k, stamps[k], t) <= Count(k, stamps[k], now)
        BY <2>1, <4>2, <4>3, CountFalls
      <4>6. Count(k, stamps[k], now) >= Limit[k]
        BY <4>2, <4>4, <4>5
      <4> QED BY <2>1, <4>1, <4>2, <4>6, FullCounts
    <3>2. j \in R
      BY <2>5, <3>1
    <3>3. waits[j] \in Nat /\ waits[j] <= r
      BY <2>7, <2>9, <2>13, <3>2
    <3>4. r < waits[j]
      <4>1. PICK t \in Nat : t = now + r /\ t >= now
        BY <2>1, <2>16
      <4>2. Full(a.keys[j], t)
        BY <2>17, <4>1
      <4>3. t - now < waits[j]
        BY <2>7, <3>2, <4>1, <4>2
      <4>4. t - now = r
        BY <2>1, <2>16, <4>1
      <4> QED BY <4>3, <4>4
    <3> QED BY <2>16, <3>3, <3>4
  <2>18. Full(a.keys[i], now + r - 1)
    <3>1. PICK t \in Nat : t = now + r - 1 /\ t >= now /\ t - now < r
      BY <2>1, <2>16
    <3>2. Full(a.keys[i], t)
      BY <2>7, <2>15, <3>1
    <3> QED BY <3>1, <3>2
  <2>19. /\ r >= 1
         /\ Refused("login", a.keys, now + r) = {}
         /\ Refused("login", a.keys, now + r - 1) # {}
    BY <2>3, <2>5, <2>16, <2>17, <2>18
  <2> QED BY <2>14, <2>19, Zenon
<1> QED BY <1>1, Invariance, PTL

=============================================================================
