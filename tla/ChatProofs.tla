----------------------------- MODULE ChatProofs -----------------------------
(***************************************************************************)
(* The properties of Chat, proved for pages of any size and any number of  *)
(* messages and workers.  All follow from IInv of ChatProperties, which    *)
(* each action preserves; first, what a page lists is worked out.          *)
(***************************************************************************)
EXTENDS ChatProperties, FiniteSetTheorems, SequenceTheorems, TLAPS

\* The typing assumptions on the constants, as facts the proofs cite.
LEMMA Constants ==
  /\ PageSize \in Nat /\ PageSize > 0 /\ MaxMessages \in Nat
  /\ \A s \in Site : s.serial \in BOOLEAN /\ s.faults \in BOOLEAN /\ s.messages \in 0 .. MaxMessages
BY BoundAssumption

LEMMA FiniteIds ==
  ASSUME NEW S \in SUBSET Id
  PROVE  IsFiniteSet(S) /\ Cardinality(S) \in Nat /\ \A m \in S : m \in Int
<1>1. IsFiniteSet(Id)
  BY Constants, FS_Interval DEF Id
<1>2. IsFiniteSet(S)
  BY <1>1, FS_Subset
<1> QED BY <1>2, FS_CardinalityType DEF Id

-----------------------------------------------------------------------------
(* Lists of messages.                                                      *)

\* How many of S are older than m.
Rank(S, m) == Cardinality({o \in S : o < m})

LEMMA RankBounds ==
  ASSUME NEW S \in SUBSET Id, NEW m \in S
  PROVE  /\ Rank(S, m) \in Nat /\ Rank(S, m) < Cardinality(S)
         /\ Cardinality({o \in S : o > m}) = Cardinality(S) - Rank(S, m) - 1
<1> DEFINE Older == {o \in S : o < m}
<1>1. IsFiniteSet(S) /\ Cardinality(S) \in Nat /\ \A o \in S : o \in Int
  BY FiniteIds
<1>2. IsFiniteSet(S \ {m}) /\ Cardinality(S \ {m}) = Cardinality(S) - 1
  BY <1>1, FS_RemoveElement
<1>3. Older \subseteq S \ {m} /\ {o \in S : o > m} = (S \ {m}) \ Older
      /\ (S \ {m}) \cap Older = Older
  BY <1>1
<1>4. Cardinality(Older) \in Nat /\ Cardinality(Older) <= Cardinality(S \ {m})
  BY <1>2, <1>3, FS_Subset, FS_CardinalityType
<1>5. Cardinality((S \ {m}) \ Older) = Cardinality(S \ {m}) - Cardinality(Older)
  <2>1. Cardinality((S \ {m}) \ Older)
          = Cardinality(S \ {m}) - Cardinality((S \ {m}) \cap Older)
    BY <1>2, FS_Difference
  <2> QED BY <1>3, <2>1
<1>6. Rank(S, m) = Cardinality(Older)
  BY DEF Rank
<1>7. Cardinality({o \in S : o > m}) = Cardinality((S \ {m}) \ Older)
  BY <1>3
<1> HIDE DEF Older
<1> QED BY <1>1, <1>2, <1>4, <1>5, <1>6, <1>7

LEMMA RankGrows ==
  ASSUME NEW S \in SUBSET Id, NEW m \in S, NEW n \in S, m < n
  PROVE  Rank(S, m) < Rank(S, n)
<1> DEFINE Before(k) == {o \in S : o < k}
<1>1. IsFiniteSet(S) /\ \A o \in S : o \in Int
  BY FiniteIds
<1>2. IsFiniteSet(Before(n)) /\ m \in Before(n)
  BY <1>1, FS_Subset
<1>3. IsFiniteSet(Before(n) \ {m}) /\ Cardinality(Before(n) \ {m}) = Cardinality(Before(n)) - 1
  BY <1>2, FS_RemoveElement
<1>4. Before(m) \in SUBSET (Before(n) \ {m})
  BY <1>1
<1>5. Cardinality(Before(m)) <= Cardinality(Before(n)) - 1
  BY <1>3, <1>4, FS_Subset
<1>6. Cardinality(Before(m)) \in Nat /\ Cardinality(Before(n)) \in Nat
  BY <1>1, FS_Subset, FS_CardinalityType
<1>7. Rank(S, m) = Cardinality(Before(m)) /\ Rank(S, n) = Cardinality(Before(n))
  BY DEF Rank
<1> HIDE DEF Before
<1> QED BY <1>5, <1>6, <1>7

\* Every rank below the size is some message's.
LEMMA RankTaken ==
  ASSUME NEW S \in SUBSET Id, NEW i \in 1 .. Cardinality(S)
  PROVE  \E m \in S : Rank(S, m) = i - 1
<1> DEFINE c == Cardinality(S)
           f == [m \in S |-> Rank(S, m) + 1]
<1>1. IsFiniteSet(S) /\ c \in Nat /\ \A o \in S : o \in Int
  BY FiniteIds
<1>2. \A m \in S : Rank(S, m) \in Nat /\ Rank(S, m) < c
  BY RankBounds
<1>3. f \in [S -> 1 .. c]
  BY <1>1, <1>2
<1>4. ASSUME NEW m \in S, NEW n \in S, f[m] = f[n] PROVE m = n
  BY <1>1, <1>2, <1>4, RankGrows
<1>5. f \in Injection(S, 1 .. c)
  BY <1>3, <1>4 DEF Injection, IsInjective
<1>6. IsFiniteSet(1 .. c) /\ Cardinality(1 .. c) = c
  BY <1>1, FS_Interval
<1>7. f \in Surjection(S, 1 .. c)
  BY <1>5, <1>6, FS_Injection
<1>8. \E m \in S : f[m] = i
  BY <1>7 DEF Surjection
<1> QED BY <1>2, <1>8

\* The list has every message of S once, each before those that are newer.
LEMMA Listed ==
  ASSUME NEW S \in SUBSET Id
  PROVE  /\ OldestFirst(S) \in Seq(S) /\ Len(OldestFirst(S)) = Cardinality(S)
         /\ Range(OldestFirst(S)) = S /\ IsInjective(OldestFirst(S))
         /\ \A i, j \in 1 .. Cardinality(S) : i < j => OldestFirst(S)[i] < OldestFirst(S)[j]
         /\ \A i \in 1 .. Cardinality(S) : Rank(S, OldestFirst(S)[i]) = i - 1
<1> DEFINE c == Cardinality(S)
           f == OldestFirst(S)
<1>1. c \in Nat /\ \A o \in S : o \in Int
  BY FiniteIds
<1>2. ASSUME NEW i \in 1 .. c PROVE f[i] \in S /\ Rank(S, f[i]) = i - 1
  <2>1. f[i] = CHOOSE m \in S : Rank(S, m) = i - 1
    BY <1>2 DEF OldestFirst, Rank
  <2> QED BY <2>1, <1>2, RankTaken
<1>3. f \in [1 .. c -> S]
  BY <1>2 DEF OldestFirst
<1>4. f \in Seq(S) /\ Len(f) = c
  BY <1>1, <1>3
<1>5. ASSUME NEW i \in 1 .. c, NEW j \in 1 .. c, i < j PROVE f[i] < f[j]
  <2>1. /\ f[i] \in Int /\ f[j] \in Int /\ f[i] \in S /\ f[j] \in S
        /\ Rank(S, f[i]) = i - 1 /\ Rank(S, f[j]) = j - 1
    BY <1>1, <1>2
  <2>2. CASE f[j] < f[i]
    BY <1>5, <2>1, <2>2, RankGrows
  <2>3. CASE f[j] = f[i]
    BY <1>5, <2>1, <2>3
  <2> QED BY <2>1, <2>2, <2>3
<1>6. ASSUME NEW m \in S PROVE \E i \in 1 .. c : f[i] = m
  <2>1. Rank(S, m) + 1 \in 1 .. c
    <3>1. Rank(S, m) \in Nat /\ Rank(S, m) < Cardinality(S)
      BY RankBounds
    <3> QED BY <1>1, <3>1
  <2>2. PICK i \in 1 .. c : i = Rank(S, m) + 1
    BY <2>1
  <2>3. f[i] \in S /\ Rank(S, f[i]) = Rank(S, m) /\ Rank(S, m) \in Nat
    <3>1. Rank(S, m) \in Nat
      BY RankBounds
    <3> QED BY <1>2, <2>2, <3>1
  <2>4. f[i] = m
    <3>1. f[i] \in Int /\ m \in Int
      BY <1>1, <2>3
    <3> QED BY <2>3, <3>1, RankGrows
  <2> QED BY <2>4
<1>7. Range(f) = S
  BY <1>3, <1>6 DEF Range
<1>8. IsInjective(f)
  BY <1>1, <1>2, <1>3 DEF IsInjective
<1> QED BY <1>2, <1>4, <1>5, <1>7, <1>8

\* The first of the list is the oldest and the last the newest.
LEMMA ListedEnds ==
  ASSUME NEW S \in SUBSET Id, S # {}
  PROVE  /\ OldestFirst(S) # <<>>
         /\ Head(OldestFirst(S)) \in S /\ \A m \in S : Head(OldestFirst(S)) <= m
         /\ Last(OldestFirst(S)) \in S /\ \A m \in S : m <= Last(OldestFirst(S))
<1> DEFINE c == Cardinality(S)
           f == OldestFirst(S)
<1>1. /\ f \in Seq(S) /\ Len(f) = c /\ Range(f) = S
      /\ \A i, j \in 1 .. c : i < j => f[i] < f[j]
  BY Listed
<1>2. c \in Nat /\ \A o \in S : o \in Int /\ c # 0
  BY FiniteIds, FS_EmptySet
<1>3. ASSUME NEW m \in S PROVE f[1] <= m /\ m <= f[c]
  <2>1. PICK i \in 1 .. c : m = f[i]
    BY <1>1, <1>3 DEF Range
  <2> QED BY <1>1, <1>2, <2>1
<1>4. f # <<>> /\ Head(f) = f[1] /\ Last(f) = f[c] /\ f[1] \in S /\ f[c] \in S
  BY <1>1, <1>2 DEF Last
<1> QED BY <1>3, <1>4

LEMMA ListedNone == OldestFirst({}) = <<>>
<1>1. Len(OldestFirst({})) = 0 /\ OldestFirst({}) \in Seq({})
  BY Listed, FS_EmptySet
<1> QED BY <1>1, EmptySeq

-----------------------------------------------------------------------------
(* The newest messages.                                                    *)

\* What is left out is older than what is taken, and something is taken.
LEMMA NewestTaken ==
  ASSUME NEW S \in SUBSET Id, NEW n \in Nat, n > 0
  PROVE  /\ Newest(S, n) \subseteq S
         /\ \A m \in S \ Newest(S, n), k \in Newest(S, n) : m < k
         /\ S # {} => Newest(S, n) # {}
<1>1. \A o \in S : o \in Int
  BY FiniteIds
<1>2. \A m \in S : m \in Newest(S, n) <=> Cardinality(S) - Rank(S, m) - 1 < n
  BY RankBounds DEF Newest
<1>3. ASSUME NEW m \in S \ Newest(S, n), NEW k \in Newest(S, n) PROVE m < k
  <2>1. k \in S /\ m # k /\ k \in Int /\ m \in Int
    BY <1>1, <1>3 DEF Newest
  <2>2. CASE k < m
    <3>1. /\ Rank(S, k) < Rank(S, m) /\ Rank(S, k) \in Nat /\ Rank(S, m) \in Nat
          /\ Cardinality(S) \in Nat
      BY <1>3, <2>1, <2>2, RankGrows, RankBounds, FiniteIds
    <3> QED BY <1>2, <1>3, <2>1, <3>1
  <2> QED BY <2>1, <2>2
<1>4. ASSUME S # {} PROVE Newest(S, n) # {}
  <2>1. Last(OldestFirst(S)) \in S /\ \A m \in S : m <= Last(OldestFirst(S))
    BY <1>4, ListedEnds
  <2>2. {o \in S : o > Last(OldestFirst(S))} = {}
    BY <1>1, <2>1
  <2> QED BY <2>1, <2>2, FS_EmptySet DEF Newest
<1> QED BY <1>3, <1>4 DEF Newest

\* One more than a chunk tells whether the chunk is all.
LEMMA OneMoreTells ==
  ASSUME NEW S \in SUBSET Id, NEW n \in Nat, n > 0, ~(Cardinality(Newest(S, n + 1)) > n)
  PROVE  Newest(S, n) = S
<1> DEFINE c == Cardinality(S)
           f == OldestFirst(S)
           more == Newest(S, n + 1)
<1>1. c \in Nat /\ IsFiniteSet(S) /\ \A o \in S : o \in Int
  BY FiniteIds
<1>2. \A m \in S, k \in Nat : m \in Newest(S, k) <=> c - Rank(S, m) - 1 < k
  BY RankBounds DEF Newest
<1>3. CASE c <= n
  <2>1. \A m \in S : Rank(S, m) \in Nat
    BY RankBounds
  <2>2. S \subseteq Newest(S, n)
    BY <1>1, <1>2, <1>3, <2>1
  <2> QED BY <2>2 DEF Newest
<1>4. CASE c > n
  <2>1. PICK i \in 1 .. c : i = c - n
    BY <1>1, <1>4
  <2>2. f[i] \in S /\ Rank(S, f[i]) = i - 1
    <3>1. f \in Seq(S) /\ Len(f) = c /\ Rank(S, f[i]) = i - 1
      BY Listed
    <3> QED BY <3>1
  <2>3. S \ more = {o \in S : o < f[i]}
    <3>1. ASSUME NEW m \in S PROVE m \notin more <=> m < f[i]
      <4>1. m \in Int /\ f[i] \in Int /\ Rank(S, m) \in Nat
        BY <1>1, <2>2, RankBounds
      <4>2. m < f[i] => Rank(S, m) < i - 1
        BY <2>2, RankGrows
      <4>3. f[i] < m => i - 1 < Rank(S, m)
        BY <2>2, RankGrows
      <4>4. m \in more <=> c - Rank(S, m) - 1 < n + 1
        BY <1>2
      <4> QED BY <1>1, <2>1, <2>2, <4>1, <4>2, <4>3, <4>4
    <3> QED BY <3>1
  <2>4. Cardinality(S \ more) = i - 1
    BY <2>2, <2>3 DEF Rank
  <2>5. S \cap more = more /\ Cardinality(S \ more) = c - Cardinality(S \cap more)
    BY <1>1, FS_Difference DEF Newest
  <2>6. Cardinality(more) \in Nat
    BY FiniteIds DEF Newest
  <2> QED BY <1>1, <2>1, <2>4, <2>5, <2>6
<1> QED BY <1>1, <1>3, <1>4

-----------------------------------------------------------------------------
(* Pages and frames: sequences of messages.                                *)

LEMMA InRange ==
  ASSUME NEW S, NEW s \in Seq(S)
  PROVE  /\ Len(s) \in Nat /\ DOMAIN s = 1 .. Len(s) /\ Range(s) \subseteq S
         /\ \A i \in 1 .. Len(s) : s[i] \in Range(s)
         /\ \A x \in Range(s) : \E i \in 1 .. Len(s) : s[i] = x
BY DEF Range

LEMMA Appended ==
  ASSUME NEW s \in Seq(Id), NEW m \in Id
  PROVE  /\ Append(s, m) \in Seq(Id) /\ Append(s, m) # <<>> /\ Last(Append(s, m)) = m
         /\ Range(Append(s, m)) = Range(s) \cup {m}
         /\ s # <<>> => Head(Append(s, m)) = Head(s)
         /\ IsInjective(s) /\ m \notin Range(s) => IsInjective(Append(s, m))
<1> DEFINE t == Append(s, m)
<1>1. /\ t \in Seq(Id) /\ Len(t) = Len(s) + 1 /\ t[Len(s) + 1] = m
      /\ \A i \in 1 .. Len(s) : t[i] = s[i]
      /\ s # <<>> => Len(s) > 0 /\ Head(s) = s[1] /\ Head(t) = t[1]
  OBVIOUS
<1>2. Range(t) = Range(s) \cup {m}
  BY <1>1 DEF Range
<1>3. IsInjective(s) /\ m \notin Range(s) => IsInjective(t)
  BY <1>1 DEF Range, IsInjective
<1>4. t # <<>> /\ Last(t) = m /\ (s # <<>> => Head(t) = Head(s))
  <2>1. Len(s) \in Nat
    OBVIOUS
  <2> HIDE DEF t
  <2> QED BY <1>1, <2>1 DEF Last
<1> QED BY <1>1, <1>2, <1>3, <1>4

LEMMA Joined ==
  ASSUME NEW s \in Seq(Id), NEW t \in Seq(Id), t # <<>>
  PROVE  /\ s \o t \in Seq(Id) /\ s \o t # <<>> /\ Last(s \o t) = Last(t)
         /\ Range(s \o t) = Range(s) \cup Range(t)
         /\ Head(s \o t) = IF s = <<>> THEN Head(t) ELSE Head(s)
         /\ IsInjective(s) /\ IsInjective(t) /\ Range(s) \cap Range(t) = {}
              => IsInjective(s \o t)
<1> DEFINE r == s \o t
<1>1. /\ r \in Seq(Id) /\ Len(r) = Len(s) + Len(t) /\ Len(t) > 0
      /\ \A i \in 1 .. Len(s) : r[i] = s[i]
      /\ \A i \in 1 .. Len(t) : Len(s) + i \in 1 .. Len(r) /\ r[Len(s) + i] = t[i]
      /\ Len(s) \in Nat /\ Len(t) \in Nat
  <2>1. /\ r \in Seq(Id) /\ Len(r) = Len(s) + Len(t) /\ Len(t) > 0
        /\ \A i \in 1 .. Len(s) : r[i] = s[i]
        /\ Len(s) \in Nat /\ Len(t) \in Nat
    OBVIOUS
  <2>2. ASSUME NEW i \in 1 .. Len(t)
        PROVE  Len(s) + i \in 1 .. Len(r) /\ r[Len(s) + i] = t[i]
    BY <2>1
  <2> QED BY <2>1, <2>2
<1>5. ASSUME NEW i \in 1 .. Len(r), ~(i <= Len(s))
      PROVE  i - Len(s) \in 1 .. Len(t) /\ r[i] = t[i - Len(s)]
  <2>1. PICK k \in 1 .. Len(t) : k = i - Len(s)
    <3>1. Len(r) \in Int /\ Len(s) \in Int /\ Len(t) \in Int /\ i \in Int
      BY <1>1
    <3>2. i - Len(s) \in 1 .. Len(t)
      <4> HIDE DEF r
      <4> QED BY <1>1, <1>5, <3>1
    <3> QED BY <3>2
  <2>2. r[Len(s) + k] = t[k] /\ Len(s) + k = i
    BY <1>1, <2>1
  <2> QED BY <2>1, <2>2
<1>2. Range(r) = Range(s) \cup Range(t)
  <2> HIDE DEF r
  <2>1. ASSUME NEW i \in 1 .. Len(r) PROVE r[i] \in Range(s) \cup Range(t)
    <3>1. CASE i <= Len(s)
      BY <1>1, <3>1, InRange
    <3>2. CASE ~(i <= Len(s))
      BY <1>1, <1>5, <3>2, InRange
    <3> QED BY <3>1, <3>2
  <2>2. ASSUME NEW x \in Range(s) PROVE x \in Range(r)
    <3>1. PICK i \in 1 .. Len(s) : s[i] = x
      BY InRange
    <3>2. i \in 1 .. Len(r) /\ r[i] = x
      BY <1>1, <3>1
    <3> QED BY <1>1, <3>2, InRange
  <2>3. ASSUME NEW x \in Range(t) PROVE x \in Range(r)
    <3>1. PICK i \in 1 .. Len(t) : t[i] = x
      BY InRange
    <3>2. Len(s) + i \in 1 .. Len(r) /\ r[Len(s) + i] = x
      BY <1>1, <3>1
    <3> QED BY <1>1, <3>2, InRange
  <2> QED BY <1>1, <2>1, <2>2, <2>3, InRange
<1>3. Head(r) = IF s = <<>> THEN Head(t) ELSE Head(s)
  BY <1>1
<1>4. IsInjective(s) /\ IsInjective(t) /\ Range(s) \cap Range(t) = {} => IsInjective(r)
  <2> SUFFICES ASSUME IsInjective(s), IsInjective(t), Range(s) \cap Range(t) = {},
                      NEW i \in 1 .. Len(r), NEW j \in 1 .. Len(r), r[i] = r[j], i # j
               PROVE  FALSE
    BY <1>1 DEF IsInjective
  <2>1. \A k \in 1 .. Len(s) : s[k] \in Range(s)
    BY InRange
  <2>2. \A k \in 1 .. Len(t) : t[k] \in Range(t)
    BY InRange
  <2>3. CASE i <= Len(s) /\ j <= Len(s)
    BY <1>1, <2>3 DEF IsInjective
  <2>4. CASE ~(i <= Len(s)) /\ ~(j <= Len(s))
    BY <1>1, <1>5, <2>4 DEF IsInjective
  <2>5. CASE i <= Len(s) /\ ~(j <= Len(s))
    BY <1>1, <1>5, <2>1, <2>2, <2>5
  <2>6. CASE ~(i <= Len(s)) /\ j <= Len(s)
    BY <1>1, <1>5, <2>1, <2>2, <2>6
  <2> QED BY <2>3, <2>4, <2>5, <2>6
<1> QED BY <1>1, <1>2, <1>3, <1>4 DEF Last

LEMMA Taken ==
  ASSUME NEW s \in Seq(Id), s # <<>>
  PROVE  /\ Head(s) \in Id /\ Tail(s) \in Seq(Id) /\ Range(s) = {Head(s)} \cup Range(Tail(s))
         /\ Last(s) \in Range(s)
<1>1. /\ Len(s) > 0 /\ Head(s) = s[1] /\ Head(s) \in Id
      /\ Tail(s) \in Seq(Id) /\ Len(Tail(s)) = Len(s) - 1
      /\ \A i \in 1 .. Len(s) - 1 : Tail(s)[i] = s[i + 1]
  OBVIOUS
<1>2. ASSUME NEW i \in 1 .. Len(s), i # 1
      PROVE  s[i] = Tail(s)[i - 1] /\ i - 1 \in 1 .. Len(s) - 1
  <2>1. PICK k \in 1 .. Len(s) - 1 : k = i - 1
    BY <1>1, <1>2
  <2>2. Tail(s)[k] = s[k + 1] /\ k + 1 = i
    BY <1>1, <2>1
  <2> QED BY <2>1, <2>2
<1>3. Range(s) = {Head(s)} \cup Range(Tail(s))
  <2>1. ASSUME NEW x \in Range(s) PROVE x = Head(s) \/ x \in Range(Tail(s))
    <3>1. PICK i \in 1 .. Len(s) : s[i] = x
      BY InRange
    <3>2. CASE i # 1
      <4>1. i - 1 \in 1 .. Len(Tail(s)) /\ Tail(s)[i - 1] = x
        BY <1>1, <1>2, <3>1, <3>2
      <4> QED BY <1>1, <4>1, InRange
    <3> QED BY <1>1, <3>1, <3>2
  <2>2. ASSUME NEW x \in Range(Tail(s)) PROVE x \in Range(s)
    <3>1. PICK i \in 1 .. Len(Tail(s)) : Tail(s)[i] = x
      BY <1>1, InRange
    <3>2. i + 1 \in 1 .. Len(s) /\ s[i + 1] = x
      BY <1>1, <3>1
    <3> QED BY <3>2, InRange
  <2>3. Head(s) \in Range(s)
    BY <1>1, InRange
  <2> QED BY <2>1, <2>2, <2>3
<1>4. Last(s) \in Range(s)
  BY <1>1, InRange DEF Last
<1> QED BY <1>1, <1>3, <1>4

LEMMA NoneAndOne ==
  /\ Range(<<>>) = {} /\ IsInjective(<<>>)
  /\ \A m \in Id : Range(<<m>>) = {m} /\ <<m>> \in Seq(Id)
BY DEF Range, IsInjective

-----------------------------------------------------------------------------
(* What the invariant says, in the form the steps use.                     *)

LEMMA TwoPersons ==
  ASSUME NEW u \in Person
  PROVE  /\ Other(u) \in Person /\ Other(u) # u
         /\ \A v \in Person : v = u \/ v = Other(u)
<1>1. IsFiniteSet(Person \ {u}) /\ Cardinality(Person \ {u}) = 1
  BY PersonAssumption, FS_RemoveElement
<1>2. PICK x : Person \ {u} = {x}
  BY <1>1, FS_Singleton
<1>3. Other(u) = x
  BY <1>2 DEF Other
<1> QED BY <1>2, <1>3

\* The types that the steps use.
Typed ==
  /\ drawn \in Nat /\ drawn <= MaxMessages /\ MaxMessages \in Nat
  /\ Stored \in SUBSET Id
  /\ \A m \in Id : m \in Int /\ m > 0
  /\ \A m \in Stored : m <= drawn /\ author[m] \in Person
  /\ \A u \in Person :
       /\ watermark[u] \in Nat /\ watermark[u] <= drawn
       /\ badge[u] \in Nat /\ badge[u] <= drawn
       /\ page[u] \in Page /\ page[u].shown \in Seq(Id)
       /\ down[u] \in Seq(Id) /\ up[u] \in Seq(Id)
       /\ Range(page[u].shown) \subseteq Stored /\ Range(down[u]) \subseteq Stored
       /\ Range(up[u]) \subseteq Stored
  /\ \A w \in Worker :
       /\ req[w] \in Work /\ req[w].id \in Nat /\ req[w].id <= MaxMessages
       /\ req[w].seen \in Seq(Id) /\ req[w].before \in SUBSET Id /\ req[w].count \in Nat

LEMMA Ids == TypeOK /\ Shape => Typed
<1> SUFFICES ASSUME TypeOK, Shape PROVE Typed
  OBVIOUS
<1>1. MaxMessages \in Nat
  BY Constants
<1>2. drawn \in Nat /\ drawn <= MaxMessages /\ \A m \in Id : m \in Int /\ m > 0
  BY <1>1 DEF TypeOK, Id
<1>3. Stored \in SUBSET Id /\ \A m \in Stored : m <= drawn /\ author[m] \in Person
  BY DEF TypeOK, Shape, Stored
<1>4. ASSUME NEW u \in Person
      PROVE  /\ watermark[u] \in Nat /\ watermark[u] <= drawn
             /\ badge[u] \in Nat /\ badge[u] <= drawn
             /\ page[u] \in Page /\ page[u].shown \in Seq(Id)
             /\ down[u] \in Seq(Id) /\ up[u] \in Seq(Id)
             /\ Range(page[u].shown) \subseteq Stored /\ Range(down[u]) \subseteq Stored
             /\ Range(up[u]) \subseteq Stored
  BY <1>2 DEF TypeOK, Shape, Page
<1>5. ASSUME NEW w \in Worker
      PROVE  /\ req[w] \in Work /\ req[w].id \in Nat /\ req[w].id <= MaxMessages
             /\ req[w].seen \in Seq(Id) /\ req[w].before \in SUBSET Id /\ req[w].count \in Nat
  BY <1>1 DEF Shape, Work
<1> QED BY <1>1, <1>2, <1>3, <1>4, <1>5 DEF Typed

LEMMA IdsNext == TypeOK' /\ Shape' => Typed'
BY Ids, PTL

LEMMA UnreadBound ==
  ASSUME Typed, NEW u \in Person
  PROVE  Unread(u) \in 0 .. drawn
<1> DEFINE S == {m \in Stored : m > watermark[u] /\ author[m] # u}
<1>1. S \in SUBSET (1 .. drawn) /\ drawn \in Nat
  <2>1. drawn \in Nat /\ \A m \in Stored : m \in Int /\ m > 0 /\ m <= drawn
    BY DEF Typed
  <2> QED BY <2>1
<1>2. IsFiniteSet(1 .. drawn) /\ Cardinality(1 .. drawn) = drawn
  BY <1>1, FS_Interval
<1>3. IsFiniteSet(S) /\ Cardinality(S) <= drawn
  BY <1>1, <1>2, FS_Subset
<1>4. Cardinality(S) \in Nat
  BY <1>3, FS_CardinalityType
<1>5. Unread(u) = Cardinality(S)
  BY DEF Unread
<1> HIDE DEF S
<1> QED BY <1>1, <1>3, <1>4, <1>5

\* Raising u's watermark makes none unread, nor does a message of u's own.
LEMMA UnreadFalls ==
  ASSUME Typed, NEW u \in Person, (watermark[u])' \in Nat, (watermark[u])' >= watermark[u],
         \A m \in Stored' : (author[m])' # u => m \in Stored /\ author[m] = (author[m])'
  PROVE  (Unread(u))' <= Unread(u) /\ (Unread(u))' \in Nat
<1> DEFINE S == {m \in Stored : m > watermark[u] /\ author[m] # u}
           T == {m \in Stored' : m > (watermark[u])' /\ (author[m])' # u}
<1>1. IsFiniteSet(S)
  <2>1. S \in SUBSET Id
    BY DEF Typed
  <2> QED BY <2>1, FiniteIds
<1>2. T \in SUBSET S
  <2>1. watermark[u] \in Int /\ \A m \in Stored : m \in Int
    BY DEF Typed
  <2> QED BY <2>1
<1>3. Cardinality(T) <= Cardinality(S) /\ IsFiniteSet(T)
  BY <1>1, <1>2, FS_Subset
<1>4. Cardinality(T) \in Nat
  BY <1>3, FS_CardinalityType
<1>5. Unread(u) = Cardinality(S) /\ (Unread(u))' = Cardinality(T)
  BY DEF Unread
<1> HIDE DEF S, T
<1> QED BY <1>3, <1>4, <1>5

-----------------------------------------------------------------------------
(* What holds of a worker or a page that a step leaves alone.              *)

\* Nothing that was stored or read is taken back.
Grows ==
  /\ site' = site /\ drawn' >= drawn
  /\ \A m \in Stored : m \in Stored' /\ author'[m] = author[m]
  /\ \A u \in Person : watermark'[u] >= watermark[u]

LEMMA Still ==
  ASSUME Typed, UNCHANGED <<site, author, drawn, watermark>>
  PROVE  Grows /\ Stored' = Stored
<1>1. Stored' = Stored
  BY DEF Stored
<1> QED BY <1>1 DEF Typed, Grows

LEMMA RequestKept ==
  ASSUME Typed, Typed', Grows, NEW w \in Worker, RequestOK(w), req'[w] = req[w],
         req[w].pc = "commit" =>
           /\ req[w].id \notin Stored'
           /\ \A v \in Worker \ {w} : req'[v].pc = "commit" => req'[v].id # req[w].id
  PROVE  RequestOK(w)'
<1>1. drawn \in Nat /\ drawn' \in Nat /\ drawn <= drawn' /\ req[w].count \in Nat
      /\ req[w].id \in Nat
  BY DEF Typed, Grows
<1> QED BY <1>1 DEF RequestOK, Typed, Grows

LEMMA PageKept ==
  ASSUME Typed, Typed', Grows, NEW u \in Person, PageOK(u), page'[u] = page[u],
         page[u].link = "closed" => up'[u] = <<>>
  PROVE  PageOK(u)'
BY SMTT(30) DEF PageOK, Typed, Grows

LEMMA InitIInv == Init => IInv
<1> SUFFICES ASSUME Init PROVE IInv
  OBVIOUS
<1>1. /\ \A u \in Person : page[u] = NoPage /\ down[u] = <<>> /\ up[u] = <<>> /\ badge[u] = 0
                           /\ watermark[u] = 0
      /\ \A w \in Worker : req[w] = Idle
      /\ Stored = {} /\ drawn = 0 /\ MaxMessages \in Nat /\ site \in Site
      /\ author \in [Id -> Person \cup {NoOne}]
  BY Constants DEF Init, Stored
<1>2. TypeOK
  BY <1>1, NoneAndOne DEF TypeOK, NoPage
<1>3. Shape
  <2>1. NoPage \in Page
    BY EmptySeq DEF NoPage, Page
  <2>2. Idle \in Work
    BY <1>1, EmptySeq DEF Idle, Work
  <2>3. watermark \in [Person -> Nat] /\ badge \in [Person -> Nat] /\ page \in [Person -> Page]
        /\ req \in [Worker -> Work]
    BY <2>1, <2>2 DEF Init
  <2>4. down \in [Person -> Seq(Id)] /\ up \in [Person -> Seq(Id)]
    BY EmptySeq DEF Init
  <2> QED BY <1>1, <2>3, <2>4 DEF Shape
<1>4. \A w \in Worker : RequestOK(w)
  BY <1>1 DEF RequestOK, Idle
<1>5. \A u \in Person : PageOK(u)
  BY <1>1 DEF PageOK, NoPage
<1>6. SerialOK
  BY <1>1, NoneAndOne DEF SerialOK, Idle, NoPage
<1>7. BadgeOK
  <2>1. \A u \in Person : Unread(u) = 0
    BY <1>1, FS_EmptySet DEF Unread
  <2> QED BY <1>1, <2>1 DEF BadgeOK, Idle
<1>8. ReadOK
  BY <1>1, NoneAndOne DEF ReadOK, NoPage
<1> QED BY <1>2, <1>3, <1>4, <1>5, <1>6, <1>7, <1>8 DEF IInv

-----------------------------------------------------------------------------
(* The steps of a page.                                                    *)

\* What a step of a page alone leaves as it is.
LEMMA PageStep ==
  ASSUME IInv, TypeOK', Shape', UNCHANGED <<site, author, drawn, watermark, badge, req>>
  PROVE  /\ Typed /\ Typed' /\ Grows /\ Stored' = Stored
         /\ (\A w \in Worker : RequestOK(w))'
         /\ (site.serial /\ ~site.faults => BadgeOK)'
<1>1. Typed /\ Typed'
  BY Ids, IdsNext DEF IInv
<1>2. Grows /\ Stored' = Stored
  BY <1>1, Still DEF IInv
<1>3. ASSUME NEW w \in Worker PROVE RequestOK(w)'
  <2>1. RequestOK(w) /\ req'[w] = req[w]
    BY DEF IInv
  <2>2. req[w].pc = "commit" =>
          /\ req[w].id \notin Stored'
          /\ \A v \in Worker \ {w} : req'[v].pc = "commit" => req'[v].id # req[w].id
    BY <1>2, <2>1 DEF RequestOK
  <2> QED BY <1>1, <1>2, <2>1, <2>2, RequestKept
<1>4. \A u \in Person : Unread(u)' = Unread(u) /\ Corrected(u)' = Corrected(u)
  BY <1>2 DEF Unread, Corrected, Counted
<1>5. \A w \in Worker : Unread(Counted(w))' = Unread(Counted(w))
  BY <1>2 DEF Unread, Counted
<1>6. (site.serial /\ ~site.faults => BadgeOK)'
  BY <1>4, <1>5 DEF IInv, BadgeOK
<1> QED BY <1>1, <1>2, <1>3, <1>6

LEMMA JoinStep == ASSUME IInv, NEW u \in Person, Join(u) PROVE IInv'
<1>0. Typed
  BY Ids DEF IInv
<1>1. PICK l \in {"deaf", "joined"} : page' = [page EXCEPT ![u].link = l]
  BY DEF Join, Broadcast
<1>2. /\ page[u].link = "open" /\ UNCHANGED <<down, up>>
      /\ UNCHANGED <<site, author, drawn, watermark, badge, req>>
  BY DEF Join
<1>3. \A v \in Person : /\ page'[v].shown = page[v].shown /\ page'[v].open = page[v].open
                        /\ page'[v].more = page[v].more /\ page'[v].before = page[v].before
                        /\ page'[v].link = IF v = u THEN l ELSE page[v].link
  BY <1>0, <1>1 DEF Typed, Page, IInv, Shape
<1>4. TypeOK'
  BY <1>2, <1>3 DEF IInv, TypeOK, Stored
<1>5. Shape'
  BY <1>0, <1>1, <1>2, <1>3 DEF IInv, Shape, Page, Stored
<1>6. /\ Typed' /\ Grows /\ Stored' = Stored
      /\ (\A w \in Worker : RequestOK(w))'
      /\ (site.serial /\ ~site.faults => BadgeOK)'
  BY <1>2, <1>4, <1>5, PageStep
<1>7. (\A v \in Person : PageOK(v))'
  BY <1>2, <1>3, <1>6 DEF IInv, PageOK
<1>8. (site.serial => SerialOK)'
  BY <1>2, <1>3 DEF IInv, SerialOK
<1>9. (site.serial \/ ~site.faults => ReadOK)'
  BY <1>2, <1>3 DEF IInv, ReadOK, Acknowledged
<1> QED BY <1>4, <1>5, <1>6, <1>7, <1>8, <1>9 DEF IInv

LEMMA ConnectStep == ASSUME IInv, NEW u \in Person, Connect(u) PROVE IInv'
<1>0. Typed
  BY Ids DEF IInv
<1>1. /\ page[u].open /\ page[u].link = "closed" /\ up[u] = <<>>
      /\ UNCHANGED <<site, author, drawn, watermark, badge, down, req>>
  BY DEF Connect, IInv, PageOK
<1>2. \A v \in Person : /\ page'[v].shown = page[v].shown /\ page'[v].open = page[v].open
                        /\ page'[v].more = page[v].more /\ page'[v].before = page[v].before
                        /\ page'[v].link = IF v = u THEN "open" ELSE page[v].link
  BY <1>0 DEF Connect, Typed, Page, IInv, Shape
<1>3. /\ up' \in [Person -> Seq(Id)] /\ \A v \in Person \ {u} : up'[v] = up[v]
      /\ Range(up'[u]) = IF page[u].shown = <<>> THEN {} ELSE {Last(page[u].shown)}
  <2>1. page[u].shown # <<>> => Last(page[u].shown) \in Id
    BY <1>0, Taken DEF Typed
  <2>2. up \in [Person -> Seq(Id)]
    BY DEF IInv, Shape
  <2> QED BY <1>1, <2>1, <2>2, NoneAndOne DEF Connect
<1>4. TypeOK'
  <2>1. page[u].shown # <<>> => Last(page[u].shown) \in Stored
    BY <1>0, Taken DEF Typed
  <2> QED BY <1>1, <1>2, <1>3, <2>1 DEF IInv, TypeOK, Stored
<1>5. Shape'
  <2>1. page' \in [Person -> Page]
    BY <1>0 DEF Connect, Typed, Page, IInv, Shape
  <2> QED BY <1>1, <1>3, <2>1 DEF IInv, Shape, Stored
<1>6. /\ Typed' /\ Grows /\ Stored' = Stored
      /\ (\A w \in Worker : RequestOK(w))'
      /\ (site.serial /\ ~site.faults => BadgeOK)'
  BY <1>1, <1>4, <1>5, PageStep
<1>7. (\A v \in Person : PageOK(v))'
  BY <1>1, <1>2, <1>3, <1>6 DEF IInv, PageOK
<1>8. (site.serial => SerialOK)'
  BY <1>1, <1>2 DEF IInv, SerialOK
<1>9. (site.serial \/ ~site.faults => ReadOK)'
  <2> SUFFICES ASSUME site.serial \/ ~site.faults, NEW v \in Person,
                      NEW m \in Range(page[v].shown), author[m] # v
               PROVE  Acknowledged(v, m)'
    BY <1>1, <1>2 DEF ReadOK
  <2>1. Acknowledged(v, m)
    BY DEF IInv, ReadOK
  <2>2. CASE v # u
    BY <1>1, <1>2, <1>3, <2>1, <2>2 DEF Acknowledged
  <2>3. CASE v = u /\ ~site.serial
    BY <1>1, <2>1, <2>3, NoneAndOne DEF Acknowledged
  <2>4. CASE v = u /\ site.serial
    <3>1. m <= watermark[u] \/ m <= Last(page[u].shown)
      BY <1>0, <2>4 DEF IInv, SerialOK, Typed
    <3>2. page[u].shown # <<>>
      BY <2>4, NoneAndOne
    <3> QED BY <1>1, <1>3, <2>4, <3>1, <3>2 DEF Acknowledged
  <2> QED BY <2>2, <2>3, <2>4
<1> QED BY <1>4, <1>5, <1>6, <1>7, <1>8, <1>9 DEF IInv

LEMMA DisconnectStep == ASSUME IInv, NEW u \in Person, Disconnect(u) PROVE IInv'
<1>0. Typed
  BY Ids DEF IInv
<1>1. /\ site.faults /\ UNCHANGED <<site, author, drawn, watermark, badge, req>>
      /\ \A v \in Person : /\ down'[v] = IF v = u THEN <<>> ELSE down[v]
                           /\ up'[v] = IF v = u THEN <<>> ELSE up[v]
  BY DEF Disconnect, IInv, Shape
<1>2. \A v \in Person : /\ page'[v].shown = page[v].shown /\ page'[v].open = page[v].open
                        /\ page'[v].more = page[v].more /\ page'[v].before = page[v].before
                        /\ page'[v].link = IF v = u THEN "closed" ELSE page[v].link
  BY <1>0 DEF Disconnect, Typed, Page, IInv, Shape
<1>4. TypeOK'
  BY <1>1, <1>2, NoneAndOne DEF IInv, TypeOK, Stored
<1>5. Shape'
  <2>1. page' \in [Person -> Page]
    BY <1>0 DEF Disconnect, Typed, Page, IInv, Shape
  <2>2. down' \in [Person -> Seq(Id)] /\ up' \in [Person -> Seq(Id)]
    BY EmptySeq DEF Disconnect, IInv, Shape
  <2> QED BY <1>1, <2>1, <2>2 DEF IInv, Shape, Stored
<1>6. /\ Typed' /\ Grows /\ Stored' = Stored
      /\ (\A w \in Worker : RequestOK(w))'
      /\ (site.serial /\ ~site.faults => BadgeOK)'
  BY <1>1, <1>4, <1>5, PageStep
<1>7. (\A v \in Person : PageOK(v))'
  BY <1>1, <1>2, <1>6 DEF IInv, PageOK
<1>8. (site.serial => SerialOK)'
  BY <1>1, <1>2, NoneAndOne DEF IInv, SerialOK
<1>9. (site.serial \/ ~site.faults => ReadOK)'
  BY <1>1, <1>2 DEF IInv, ReadOK, Acknowledged
<1> QED BY <1>4, <1>5, <1>6, <1>7, <1>8, <1>9 DEF IInv

\* What handleNewMessage does to the page and to the frames it sends.
LEMMA Shows ==
  ASSUME Shape, Typed, NEW u \in Person, NEW m \in Stored, NewMessage(u, m)
  PROVE  /\ page' \in [Person -> Page] /\ up' \in [Person -> Seq(Id)]
         /\ \A v \in Person : /\ v # u => page'[v] = page[v] /\ up'[v] = up[v]
                              /\ page'[v].open = page[v].open /\ page'[v].link = page[v].link
                              /\ page'[v].more = page[v].more /\ page'[v].before = page[v].before
         /\ Range(page[u].shown) \subseteq Range(page'[u].shown)
         /\ Range(page'[u].shown) \subseteq Range(page[u].shown) \cup {m}
         /\ page[u].shown # <<>> =>
              page'[u].shown # <<>> /\ Head(page'[u].shown) = Head(page[u].shown)
         /\ IsInjective(page[u].shown) => IsInjective(page'[u].shown)
         /\ page'[u].shown # page[u].shown => page[u].open /\ Last(page'[u].shown) = m
         /\ Range(up[u]) \subseteq Range(up'[u]) /\ Range(up'[u]) \subseteq Range(up[u]) \cup {m}
         /\ page[u].link = "closed" => up'[u] = up[u]
         /\ m \in Range(page'[u].shown) =>
              \/ m \in Range(page[u].shown) \/ author[m] = u \/ page[u].link = "closed"
              \/ m \in Range(up'[u])
<1>1. /\ page \in [Person -> Page] /\ up \in [Person -> Seq(Id)] /\ m \in Id
      /\ page[u].shown \in Seq(Id) /\ up[u] \in Seq(Id)
  BY DEF Shape, Typed
<1>2. CASE ~page[u].open \/ m \in Range(page[u].shown)
  <2>1. page' = page /\ up' = up
    BY <1>2 DEF NewMessage
  <2>2. /\ page' \in [Person -> Page] /\ up' \in [Person -> Seq(Id)]
        /\ \A v \in Person : page'[v] = page[v] /\ up'[v] = up[v]
    BY <1>1, <2>1
  <2>3. page'[u] = page[u] /\ page'[u].shown = page[u].shown /\ up'[u] = up[u]
    BY <2>2
  <2>4. /\ Range(page'[u].shown) = Range(page[u].shown) /\ Range(up'[u]) = Range(up[u])
        /\ page[u].shown # <<>> =>
             page'[u].shown # <<>> /\ Head(page'[u].shown) = Head(page[u].shown)
        /\ IsInjective(page[u].shown) => IsInjective(page'[u].shown)
    BY <2>3
  <2>5. m \in Range(page'[u].shown) => m \in Range(page[u].shown)
    BY <2>4
  <2> QED BY <2>2, <2>3, <2>4, <2>5
<1>3. CASE page[u].open /\ m \notin Range(page[u].shown)
  <2> DEFINE t == Append(page[u].shown, m)
             f == Append(up[u], m)
  <2>1. /\ page' = [page EXCEPT ![u].shown = t]
        /\ up' = IF author[m] = u \/ page[u].link = "closed" THEN up ELSE [up EXCEPT ![u] = f]
    BY <1>3 DEF NewMessage
  <2>2. /\ t \in Seq(Id) /\ t # <<>> /\ Last(t) = m /\ Range(t) = Range(page[u].shown) \cup {m}
        /\ page[u].shown # <<>> => Head(t) = Head(page[u].shown)
        /\ IsInjective(page[u].shown) => IsInjective(t)
        /\ f \in Seq(Id) /\ Range(f) = Range(up[u]) \cup {m}
    BY <1>1, <1>3, Appended
  <2> HIDE DEF t, f
  <2>3. /\ page' \in [Person -> Page] /\ page'[u].shown = t
        /\ \A v \in Person : /\ v # u => page'[v] = page[v]
                             /\ page'[v].open = page[v].open /\ page'[v].link = page[v].link
                             /\ page'[v].more = page[v].more /\ page'[v].before = page[v].before
    BY <1>1, <2>1, <2>2 DEF Page
  <2>4. /\ up' \in [Person -> Seq(Id)] /\ \A v \in Person : v # u => up'[v] = up[v]
        /\ up'[u] = IF author[m] = u \/ page[u].link = "closed" THEN up[u] ELSE f
    BY <1>1, <2>1, <2>2
  <2> QED BY <1>3, <2>2, <2>3, <2>4
<1> QED BY <1>2, <1>3

LEMMA ReceiveStep == ASSUME IInv, NEW u \in Person, Receive(u) PROVE IInv'
<1>0. Typed
  BY Ids DEF IInv
<1>1. PICK m \in Id : m = Head(down[u])
  BY <1>0, Taken DEF Receive, Typed
<1>2. /\ down[u] # <<>> /\ page[u].link = "joined" /\ NewMessage(u, m)
      /\ UNCHANGED <<site, author, drawn, watermark, badge, req>>
      /\ \A v \in Person : down'[v] = IF v = u THEN Tail(down[u]) ELSE down[v]
      /\ down' \in [Person -> Seq(Id)]
  <2>1. Tail(down[u]) \in Seq(Id) /\ down \in [Person -> Seq(Id)]
    BY <1>0, Taken DEF Receive, Typed, IInv, Shape
  <2> QED BY <1>1, <2>1 DEF Receive
<1>3. /\ m \in Stored /\ Range(down[u]) = {m} \cup Range(Tail(down[u])) /\ page[u].open
  BY <1>0, <1>1, <1>2, Taken DEF Typed, IInv, PageOK
<1>4. Stored' = Stored
  BY <1>2 DEF Stored
<1> DEFINE old == page[u].shown
           new == page'[u].shown
<1>5. /\ page' \in [Person -> Page] /\ up' \in [Person -> Seq(Id)]
      /\ \A v \in Person : /\ v # u => page'[v] = page[v] /\ up'[v] = up[v]
                           /\ page'[v].open = page[v].open /\ page'[v].link = page[v].link
                           /\ page'[v].more = page[v].more /\ page'[v].before = page[v].before
  BY <1>0, <1>2, <1>3, Shows DEF IInv
<1>6. /\ Range(old) \subseteq Range(new) /\ Range(new) \subseteq Range(old) \cup {m}
      /\ old # <<>> => new # <<>> /\ Head(new) = Head(old)
      /\ IsInjective(old) => IsInjective(new)
      /\ new = old \/ Last(new) = m
      /\ Range(up[u]) \subseteq Range(up'[u]) /\ Range(up'[u]) \subseteq Range(up[u]) \cup {m}
      /\ m \in Range(new) => m \in Range(old) \/ author[m] = u \/ m \in Range(up'[u])
  BY <1>0, <1>2, <1>3, Shows DEF IInv
<1> HIDE DEF old, new
<1>7. TypeOK'
  BY <1>2, <1>3, <1>4, <1>5, <1>6 DEF IInv, TypeOK, old, new
<1>8. Shape'
  BY <1>2, <1>4, <1>5 DEF IInv, Shape
<1>9. /\ Typed' /\ Grows
      /\ (\A w \in Worker : RequestOK(w))'
      /\ (site.serial /\ ~site.faults => BadgeOK)'
  BY <1>2, <1>7, <1>8, PageStep
<1>10. (\A v \in Person : PageOK(v))'
  <2>1. ASSUME NEW v \in Person, v # u PROVE PageOK(v)'
    BY <1>0, <1>5, <1>9, <2>1, PageKept DEF IInv, PageOK
  <2>2. PageOK(u)'
    <3>1. PageOK(u)
      BY DEF IInv
    <3>2. old = <<>> => Range(old) = {}
      BY NoneAndOne
    <3> QED BY <1>2, <1>3, <1>4, <1>5, <1>6, <3>1, <3>2, NoneAndOne DEF PageOK, old, new
  <2> QED BY <2>1, <2>2
<1>11. (site.serial => SerialOK)'
  <2> SUFFICES ASSUME site.serial PROVE SerialOK'
    BY <1>2
  <2>1. SerialOK
    BY DEF IInv
  <2>2. \A i, j \in 1 .. Len(down'[u]) : i < j => down'[u][i] <= down'[u][j]
    <3>1. ASSUME NEW i \in 1 .. Len(Tail(down[u]))
          PROVE  i + 1 \in 1 .. Len(down[u]) /\ Tail(down[u])[i] = down[u][i + 1]
      BY <1>0, <1>2 DEF Typed
    <3>2. ASSUME NEW i \in 1 .. Len(Tail(down[u])), NEW j \in 1 .. Len(Tail(down[u])), i < j
          PROVE  Tail(down[u])[i] <= Tail(down[u])[j]
      BY <2>1, <3>1, <3>2 DEF SerialOK
    <3> QED BY <1>2, <3>2
  <2>3. \A x \in Range(Tail(down[u])) : m <= x
    <3>1. ASSUME NEW x \in Range(Tail(down[u])) PROVE m <= x
      <4>1. PICK i \in 1 .. Len(Tail(down[u])) : Tail(down[u])[i] = x
        <5>1. Tail(down[u]) \in Seq(Id)
          BY <1>0, <1>2, Taken DEF Typed
        <5> QED BY <5>1, InRange
      <4>2. i + 1 \in 1 .. Len(down[u]) /\ 1 \in 1 .. Len(down[u]) /\ x = down[u][i + 1]
            /\ 1 < i + 1 /\ m = down[u][1]
        BY <1>0, <1>1, <1>2, <4>1 DEF Typed
      <4> QED BY <2>1, <4>2 DEF SerialOK
    <3> QED BY <3>1
  <2>4. ASSUME NEW n \in Range(new), author[n] # u, n > watermark[u]
        PROVE  n <= Last(new) /\ \A x \in Range(Tail(down[u])) : n <= x
    <3>1. CASE n \in Range(old)
      <4>1. n <= Last(old) /\ n <= m /\ \A x \in Range(Tail(down[u])) : n <= x
        BY <1>3, <2>1, <2>4, <3>1 DEF SerialOK, old
      <4> QED BY <1>6, <4>1
    <3>2. CASE n \notin Range(old)
      <4>1. n = m /\ Last(new) = m
        BY <1>6, <2>4, <3>2
      <4>2. m \in Int
        BY <1>0, <1>3 DEF Typed
      <4> QED BY <2>3, <4>1, <4>2
    <3> QED BY <3>1, <3>2
  <2> QED BY <1>2, <1>5, <2>1, <2>2, <2>4 DEF SerialOK, new
<1>12. (site.serial \/ ~site.faults => ReadOK)'
  <2> SUFFICES ASSUME site.serial \/ ~site.faults, NEW v \in Person,
                      NEW n \in Range(page'[v].shown), author[n] # v
               PROVE  Acknowledged(v, n)'
    BY <1>2 DEF ReadOK
  <2>1. CASE n \in Range(page[v].shown)
    <3>1. Acknowledged(v, n)
      BY <2>1 DEF IInv, ReadOK
    <3>2. Range(up[v]) \subseteq Range(up'[v])
      BY <1>5, <1>6
    <3> QED BY <1>2, <1>5, <3>1, <3>2 DEF Acknowledged
  <2>2. CASE n \notin Range(page[v].shown)
    <3>1. v = u /\ n = m /\ n \in Range(up'[v])
      BY <1>5, <1>6, <2>2 DEF old, new
    <3>2. n <= n
      BY <1>0, <3>1 DEF Typed
    <3> QED BY <3>1, <3>2 DEF Acknowledged
  <2> QED BY <2>1, <2>2
<1> QED BY <1>7, <1>8, <1>9, <1>10, <1>11, <1>12 DEF IInv

\* The chunk that LoadOlder puts before the page: all older, and all there are if no more.
LEMMA Chunk ==
  ASSUME Typed, NEW u \in Person, NEW s \in Seq(Id), s = page[u].shown, s # <<>>,
         NEW l, l = OldestFirst(History(Head(s)).chunk \ Range(s))
  PROVE  /\ l \in Seq(Id) /\ Range(l) \subseteq Stored /\ IsInjective(l)
         /\ Range(l) \cap Range(s) = {}
         /\ \A m \in Range(l) : m < Head(s)
         /\ l # <<>> => Head(l) \in Range(l)
         /\ \A m \in Stored : m < Head(s) /\ m \notin Range(l) \cup Range(s) =>
              History(Head(s)).more /\ (l # <<>> => m < Head(l))
<1> DEFINE S == {m \in Stored : m < Head(s)}
           C == Newest(S, PageSize)
           D == C \ Range(s)
<1>1. S \in SUBSET Id /\ S \subseteq Stored /\ PageSize \in Nat /\ PageSize > 0
  BY Constants DEF Typed
<1>2. C \subseteq S /\ \A m \in S \ C, k \in C : m < k
  BY <1>1, NewestTaken
<1>3. History(Head(s)).chunk = C
      /\ History(Head(s)).more = (Cardinality(Newest(S, PageSize + 1)) > PageSize)
  BY DEF History
<1>4. ~History(Head(s)).more => C = S
  BY <1>1, <1>3, OneMoreTells
<1>5. D \in SUBSET Id /\ D \subseteq C /\ D \cap Range(s) = {}
  BY <1>1, <1>2
<1>6. l = OldestFirst(D)
  BY <1>3
<1> HIDE DEF C, D
<1>7. l \in Seq(D) /\ Range(l) = D /\ IsInjective(l)
  BY <1>5, <1>6, Listed
<1>8. l \in Seq(Id)
  BY <1>5, <1>7
<1>9. l # <<>> => Head(l) \in D
  BY <1>7
<1>10. \A m \in D : m \in Stored /\ m < Head(s)
  BY <1>1, <1>2, <1>5
<1>11. ASSUME NEW m \in Stored, m < Head(s), m \notin Range(l) \cup Range(s)
       PROVE  History(Head(s)).more /\ (l # <<>> => m < Head(l))
  <2>1. m \in S /\ m \notin C
    BY <1>7, <1>11 DEF D
  <2> QED BY <1>2, <1>4, <1>5, <1>9, <2>1
<1> QED BY <1>5, <1>7, <1>8, <1>9, <1>10, <1>11

LEMMA LoadOlderStep == ASSUME IInv, NEW u \in Person, LoadOlder(u) PROVE IInv'
<1>0. Typed
  BY Ids DEF IInv
<1>1. PICK s \in Seq(Id), h \in Id : s = page[u].shown /\ h = Head(s)
  BY <1>0, Taken DEF Typed, LoadOlder
<1> DEFINE l == OldestFirst(History(h).chunk \ Range(s))
           t == l \o s
<1>2. /\ s # <<>> /\ page[u].more
      /\ page' = [page EXCEPT ![u].more = History(h).more, ![u].shown = t]
      /\ UNCHANGED <<site, author, drawn, watermark, badge, down, up, req>>
  BY <1>1 DEF LoadOlder
<1>3. /\ l \in Seq(Id) /\ Range(l) \subseteq Stored /\ IsInjective(l)
      /\ Range(l) \cap Range(s) = {}
      /\ \A m \in Range(l) : m < h
      /\ l # <<>> => Head(l) \in Range(l)
      /\ \A m \in Stored : m < h /\ m \notin Range(l) \cup Range(s) =>
           History(h).more /\ (l # <<>> => m < Head(l))
  BY <1>0, <1>1, <1>2, Chunk
<1> HIDE DEF l
<1>4. /\ t \in Seq(Id) /\ t # <<>> /\ Last(t) = Last(s) /\ Range(t) = Range(s) \cup Range(l)
      /\ Head(t) = IF l = <<>> THEN h ELSE Head(l)
      /\ IsInjective(s) => IsInjective(t)
  <2>1. /\ t \in Seq(Id) /\ t # <<>> /\ Last(t) = Last(s) /\ Range(t) = Range(l) \cup Range(s)
        /\ Head(t) = IF l = <<>> THEN Head(s) ELSE Head(l)
        /\ IsInjective(l) /\ IsInjective(s) /\ Range(l) \cap Range(s) = {} => IsInjective(t)
    BY <1>2, <1>3, Joined
  <2> HIDE DEF t
  <2> QED BY <1>1, <1>3, <2>1
<1> HIDE DEF t
<1>5. Stored' = Stored /\ History(h).more \in BOOLEAN /\ page[u].open
  <2>1. PageOK(u) /\ page[u].open \in BOOLEAN
    BY <1>0 DEF IInv, Typed, Page
  <2> QED BY <1>1, <1>2, <2>1 DEF Stored, History, PageOK
<1>6. /\ page' \in [Person -> Page] /\ page'[u].shown = t /\ page'[u].more = History(h).more
      /\ \A v \in Person : /\ v # u => page'[v] = page[v]
                           /\ page'[v].open = page[v].open /\ page'[v].link = page[v].link
                           /\ page'[v].before = page[v].before
  <2>1. page \in [Person -> Page]
    BY DEF IInv, Shape
  <2> QED BY <1>2, <1>4, <1>5, <2>1 DEF Page
<1>7. \A m \in Range(l) : m <= watermark[u]
  <2>1. h <= watermark[u]
    BY <1>1, <1>2 DEF IInv, PageOK
  <2>2. h \in Int /\ watermark[u] \in Int /\ \A m \in Range(l) : m \in Int
    BY <1>0, <1>3 DEF Typed
  <2> QED BY <1>3, <2>1, <2>2
<1>8. TypeOK'
  BY <1>1, <1>2, <1>3, <1>4, <1>5, <1>6, SMTT(30) DEF IInv, TypeOK
<1>9. Shape'
  BY <1>2, <1>5, <1>6 DEF IInv, Shape
<1>10. /\ Typed' /\ Grows
       /\ (\A w \in Worker : RequestOK(w))'
       /\ (site.serial /\ ~site.faults => BadgeOK)'
  BY <1>2, <1>8, <1>9, PageStep
<1>11. (\A v \in Person : PageOK(v))'
  <2>1. ASSUME NEW v \in Person, v # u PROVE PageOK(v)'
    BY <1>0, <1>2, <1>6, <1>10, <2>1, PageKept DEF IInv, PageOK
  <2>2. PageOK(u)'
    <3>1. PageOK(u)
      BY DEF IInv
    <3>2. Head(t) <= watermark[u]
      BY <1>1, <1>2, <1>3, <1>4, <1>7, <3>1 DEF PageOK
    <3>3. ASSUME NEW m \in page[u].before \ Range(t) PROVE History(h).more /\ m < Head(t)
      <4>1. m \in Stored /\ m < h /\ m \notin Range(l) \cup Range(s)
        BY <1>1, <1>4, <1>5, <3>1, <3>3 DEF PageOK
      <4> QED BY <1>3, <1>4, <4>1
    <3> QED BY <1>1, <1>2, <1>4, <1>5, <1>6, <3>1, <3>2, <3>3, SMTT(30) DEF PageOK
  <2> QED BY <2>1, <2>2
<1>12. (site.serial => SerialOK)'
  <2> SUFFICES ASSUME site.serial PROVE SerialOK'
    BY <1>2
  <2>1. SerialOK
    BY DEF IInv
  <2>2. ASSUME NEW m \in Range(t), author[m] # u, m > watermark[u]
        PROVE  m <= Last(t) /\ \A x \in Range(down[u]) : m <= x
    <3>1. m \in Range(s)
      <4>1. m \in Int /\ watermark[u] \in Int
        BY <1>0, <1>1, <1>3, <1>4, <2>2 DEF Typed
      <4> QED BY <1>4, <1>7, <2>2, <4>1
    <3> QED BY <1>1, <1>4, <2>1, <2>2, <3>1 DEF SerialOK
  <2> QED BY <1>2, <1>6, <2>1, <2>2 DEF SerialOK
<1>13. (site.serial \/ ~site.faults => ReadOK)'
  BY <1>1, <1>2, <1>4, <1>6, <1>7, SMTT(30) DEF IInv, ReadOK, Acknowledged
<1> QED BY <1>8, <1>9, <1>10, <1>11, <1>12, <1>13 DEF IInv

-----------------------------------------------------------------------------
(* The steps of a worker: what they leave as it is.                        *)

LEMMA RequestsKept ==
  ASSUME IInv, Typed, Typed', Grows, NEW w \in Worker, RequestOK(w)',
         \A v \in Worker \ {w} : req'[v] = req[v],
         \A v \in Worker \ {w} : req[v].pc = "commit" =>
           req[v].id \notin Stored' /\ (req'[w].pc = "commit" => req'[w].id # req[v].id)
  PROVE  (\A v \in Worker : RequestOK(v))'
<1>1. ASSUME NEW v \in Worker, v # w PROVE RequestOK(v)'
  <2>1. RequestOK(v) /\ req'[v] = req[v]
    BY <1>1 DEF IInv
  <2>2. ASSUME req[v].pc = "commit"
        PROVE  /\ req[v].id \notin Stored'
               /\ \A x \in Worker \ {v} : req'[x].pc = "commit" => req'[x].id # req[v].id
    BY <1>1, <2>1, <2>2 DEF RequestOK
  <2> QED BY <2>1, <2>2, RequestKept
<1> QED BY <1>1

LEMMA PagesKept ==
  ASSUME IInv, Typed, Typed', Grows, page' = page,
         \A u \in Person : page[u].link = "closed" => up'[u] = up[u]
  PROVE  (\A u \in Person : PageOK(u))'
<1>1. ASSUME NEW u \in Person PROVE PageOK(u)'
  <2>1. PageOK(u)
    BY DEF IInv
  <2>2. page[u].link = "closed" => up'[u] = <<>>
    BY <2>1 DEF PageOK
  <2> QED BY <2>1, <2>2, PageKept
<1> QED BY <1>1

\* One at a time, the others are idle when w is not.
LEMMA Alone ==
  ASSUME IInv, site.serial, NEW w \in Worker, req[w].pc # "idle"
  PROVE  \A v \in Worker \ {w} : req[v].pc = "idle"
BY DEF IInv, SerialOK

LEMMA SerialKept ==
  ASSUME IInv, site.serial, Typed, Typed', Grows, UNCHANGED <<page, down>>, NEW w \in Worker,
         \A v \in Worker \ {w} : req[v].pc = "idle" /\ req'[v] = req[v],
         req'[w].pc # "idle" /\ req'[w].kind = "send" => req'[w].id = drawn',
         req'[w].pc = "commit" => \A u \in Person : watermark'[u] < drawn'
  PROVE  SerialOK'
<1>1. SerialOK
  BY DEF IInv
<1>2. ASSUME NEW u \in Person, NEW m \in Range(page'[u].shown), author'[m] # u,
             m > watermark'[u]
      PROVE  m <= Last(page'[u].shown) /\ \A x \in Range(down'[u]) : m <= x
  <2>1. author[m] # u /\ m > watermark[u]
    <3>1. m \in Stored /\ m \in Int /\ watermark[u] \in Int /\ watermark'[u] \in Int
      BY DEF Typed
    <3> QED BY <1>2, <3>1 DEF Grows
  <2> QED BY <1>1, <1>2, <2>1 DEF SerialOK
<1> QED BY <1>1, <1>2 DEF SerialOK

LEMMA BadgeKept ==
  ASSUME IInv, Typed, Typed', site.serial /\ ~site.faults, badge' = badge,
         \A u \in Person : Unread(u)' <= Unread(u) /\ Unread(u)' \in Nat /\ Unread(u) \in Nat,
         \A w \in Worker : req[w].pc \notin {"tell", "count", "push"} /\ req'[w].pc # "push"
  PROVE  BadgeOK'
<1>1. \A u \in Person : badge[u] >= Unread(u) /\ badge[u] \in Nat
  BY DEF IInv, BadgeOK, Corrected, Typed
<1>2. \A u \in Person : badge'[u] >= Unread(u)'
  BY <1>1
<1> QED BY <1>2 DEF BadgeOK

LEMMA ReadKept ==
  ASSUME IInv, Typed, Typed', Grows, UNCHANGED <<page, up>>,
         \A w \in Worker : req[w].pc \in {"mark", "advance"} /\ req[w].kind = "ws" =>
           \/ /\ req'[w].pc \in {"mark", "advance"} /\ req'[w].kind = "ws"
              /\ req'[w].by = req[w].by /\ req'[w].id = req[w].id
           \/ req[w].by \in Person /\ req[w].id <= watermark'[req[w].by]
  PROVE  (site.serial \/ ~site.faults => ReadOK)'
<1> SUFFICES ASSUME site.serial \/ ~site.faults, NEW u \in Person,
                    NEW m \in Range(page[u].shown), author'[m] # u
             PROVE  Acknowledged(u, m)'
  BY DEF ReadOK, Grows
<1>1. m \in Stored /\ m \in Int /\ watermark[u] \in Int /\ watermark'[u] \in Int
      /\ watermark[u] <= watermark'[u]
  BY DEF Typed, Grows
<1>2. Acknowledged(u, m)
  BY <1>1 DEF IInv, ReadOK, Grows
<1>3. ASSUME NEW w \in Worker, req[w].pc \in {"mark", "advance"}, req[w].kind = "ws",
             req[w].by = u, m <= req[w].id
      PROVE  Acknowledged(u, m)'
  <2>1. req[w].id \in Int
    BY DEF Typed
  <2> QED BY <1>1, <1>3, <2>1 DEF Acknowledged
<1> QED BY <1>1, <1>2, <1>3 DEF Acknowledged, Grows

-----------------------------------------------------------------------------
(* The steps of a worker.                                                  *)

\* A request that starts, or an end without effect, changes no count.
LEMMA UnreadStill ==
  ASSUME Typed, UNCHANGED <<author, watermark>>
  PROVE  \A u \in Person : Unread(u)' <= Unread(u) /\ Unread(u)' \in Nat /\ Unread(u) \in Nat
<1>1. \A u \in Person : Unread(u)' = Unread(u)
  BY DEF Unread, Stored
<1>2. \A u \in Person : Unread(u) \in 0 .. drawn /\ drawn \in Nat
  BY UnreadBound DEF Typed
<1> QED BY <1>1, <1>2

LEMMA LoadStep == ASSUME IInv, NEW w \in Worker, NEW u \in Person, Load(w, u) PROVE IInv'
<1>0. Typed
  BY Ids DEF IInv
<1> DEFINE new == Newest(Stored, PageSize)
           s == OldestFirst(new)
           r == [Idle EXCEPT !.pc = IF s = <<>> THEN "render" ELSE "mark", !.by = u,
                   !.seen = s, !.before = Stored, !.id = IF s = <<>> THEN 0 ELSE Last(s)]
<1>1. /\ new \subseteq Stored /\ \A m \in Stored \ new, k \in new : m < k
      /\ Stored # {} => new # {}
      /\ new \in SUBSET Id
  BY <1>0, NewestTaken, Constants DEF Typed
<1> HIDE DEF new
<1>2. /\ s \in Seq(new) /\ Range(s) = new /\ IsInjective(s) /\ (new = {} => s = <<>>)
      /\ s # <<>> => Last(s) \in new /\ \A m \in new : m <= Last(s)
  BY <1>1, Listed, ListedEnds, ListedNone, NoneAndOne
<1>3. /\ s \in Seq(Id) /\ Reaches(s, Stored) /\ (s = <<>> => Range(s) = {})
      /\ s # <<>> => Head(s) \in new
  BY <1>1, <1>2, NoneAndOne DEF Reaches
<1>4. /\ req[w].pc = "idle" /\ (site.serial => \A v \in Worker : req[v].pc = "idle")
      /\ req' = [req EXCEPT ![w] = r]
      /\ UNCHANGED <<site, author, drawn, watermark, badge, page, down, up>>
  BY DEF Load, Start, new
<1> HIDE DEF s
<1>5. /\ r \in Work /\ r.pc = (IF s = <<>> THEN "render" ELSE "mark") /\ r.kind = "load"
      /\ r.by = u /\ r.id = (IF s = <<>> THEN 0 ELSE Last(s)) /\ r.seen = s /\ r.before = Stored
      /\ r.count = 0
  <2>1. r.id \in 0 .. MaxMessages
    <3>1. s # <<>> => Last(s) \in 1 .. MaxMessages
      BY <1>1, <1>2 DEF Id
    <3>2. 0 \in 0 .. MaxMessages /\ 1 .. MaxMessages \subseteq 0 .. MaxMessages
      BY Constants
    <3> QED BY <3>1, <3>2 DEF Idle
  <2>2. Stored \in SUBSET Id
    BY <1>0 DEF Typed
  <2> QED BY <1>3, <2>1, <2>2 DEF Idle, Work
<1> HIDE DEF r
<1>6. /\ req' \in [Worker -> Work] /\ req'[w] = r /\ \A v \in Worker \ {w} : req'[v] = req[v]
  BY <1>4, <1>5 DEF IInv, Shape
<1>7. Grows /\ Stored' = Stored
  BY <1>0, <1>4, Still
<1>8. TypeOK' /\ Shape'
  BY <1>4, <1>6, <1>7 DEF IInv, TypeOK, Shape
<1>9. Typed'
  BY <1>8, IdsNext
<1>10. RequestOK(w)'
  BY <1>0, <1>1, <1>2, <1>3, <1>4, <1>5, <1>6, <1>7 DEF RequestOK, Typed
<1>11. (\A v \in Worker : RequestOK(v))'
  BY <1>0, <1>5, <1>6, <1>7, <1>9, <1>10, RequestsKept DEF IInv, RequestOK
<1>12. (\A v \in Person : PageOK(v))'
  BY <1>0, <1>4, <1>7, <1>9, PagesKept
<1>13. (site.serial => SerialOK)'
  BY <1>0, <1>4, <1>5, <1>6, <1>7, <1>9, SerialKept
<1>14. (site.serial /\ ~site.faults => BadgeOK)'
  BY <1>0, <1>4, <1>5, <1>6, <1>9, BadgeKept, UnreadStill
<1>15. (site.serial \/ ~site.faults => ReadOK)'
  BY <1>0, <1>4, <1>6, <1>7, <1>9, ReadKept
<1> QED BY <1>8, <1>11, <1>12, <1>13, <1>14, <1>15 DEF IInv

LEMMA HearStep == ASSUME IInv, NEW w \in Worker, NEW u \in Person, Hear(w, u) PROVE IInv'
<1>0. Typed
  BY Ids DEF IInv
<1>1. PICK a \in Id : a = Head(up[u])
  BY <1>0, Taken DEF Typed, Hear
<1> DEFINE r == [Idle EXCEPT !.pc = "mark", !.kind = "ws", !.by = u, !.id = a]
<1>2. /\ req[w].pc = "idle" /\ (site.serial => \A v \in Worker : req[v].pc = "idle")
      /\ req' = [req EXCEPT ![w] = r] /\ up[u] # <<>> /\ page[u].link \in {"joined", "deaf"}
      /\ UNCHANGED <<site, author, drawn, watermark, badge, page, down>>
  BY <1>1 DEF Hear, Start
<1>3. /\ up' \in [Person -> Seq(Id)] /\ Range(up[u]) = {a} \cup Range(up'[u])
      /\ \A v \in Person \ {u} : up'[v] = up[v]
  <2>1. Tail(up[u]) \in Seq(Id) /\ Range(up[u]) = {Head(up[u])} \cup Range(Tail(up[u]))
    BY <1>0, <1>2, Taken DEF Typed
  <2> QED BY <1>1, <2>1 DEF Hear, IInv, Shape
<1>4. r \in Work /\ r.pc = "mark" /\ r.kind = "ws" /\ r.by = u /\ r.id = a /\ r.count = 0
  <2>1. a \in 0 .. MaxMessages
    BY Constants DEF Id
  <2> QED BY <2>1, EmptySeq DEF Idle, Work
<1> HIDE DEF r
<1>5. /\ req' \in [Worker -> Work] /\ req'[w] = r /\ \A v \in Worker \ {w} : req'[v] = req[v]
  BY <1>2, <1>4 DEF IInv, Shape
<1>6. Grows /\ Stored' = Stored /\ a \in Stored
  BY <1>0, <1>2, <1>3, Still DEF Typed
<1>7. TypeOK'
  BY <1>2, <1>3, <1>6 DEF IInv, TypeOK
<1>8. Shape'
  BY <1>2, <1>3, <1>5, <1>6 DEF IInv, Shape
<1>9. Typed'
  BY <1>7, <1>8, IdsNext
<1>10. RequestOK(w)'
  BY <1>0, <1>2, <1>4, <1>5, <1>6 DEF RequestOK, Typed
<1>11. (\A v \in Worker : RequestOK(v))'
  BY <1>0, <1>4, <1>5, <1>6, <1>9, <1>10, RequestsKept DEF IInv, RequestOK
<1>12. (\A v \in Person : PageOK(v))'
  BY <1>0, <1>2, <1>3, <1>6, <1>9, PagesKept
<1>13. (site.serial => SerialOK)'
  BY <1>0, <1>2, <1>4, <1>5, <1>6, <1>9, SerialKept
<1>14. (site.serial /\ ~site.faults => BadgeOK)'
  BY <1>0, <1>2, <1>4, <1>5, <1>9, BadgeKept, UnreadStill
<1>15. (site.serial \/ ~site.faults => ReadOK)'
  <2> SUFFICES ASSUME site.serial \/ ~site.faults, NEW v \in Person,
                      NEW m \in Range(page[v].shown), author[m] # v
               PROVE  Acknowledged(v, m)'
    BY <1>2 DEF ReadOK
  <2>1. Acknowledged(v, m)
    BY DEF IInv, ReadOK
  <2>2. CASE v = u /\ m <= a
    BY <1>4, <1>5, <2>2 DEF Acknowledged
  <2>3. CASE ~(v = u /\ m <= a)
    BY <1>2, <1>3, <1>5, <2>1, <2>3 DEF Acknowledged
  <2> QED BY <2>2, <2>3
<1> QED BY <1>7, <1>8, <1>11, <1>12, <1>13, <1>14, <1>15 DEF IInv

LEMMA MarkStep == ASSUME IInv, NEW w \in Worker, Mark(w) PROVE IInv'
<1>0. Typed
  BY Ids DEF IInv
<1>1. PICK u \in Person : u = req[w].by
  BY DEF IInv, RequestOK, Mark
<1> DEFINE new == req[w].id > watermark[u]
           pc == IF new THEN "advance" ELSE "render"
           quiet == ~new /\ req[w].kind = "ws"
<1>2. /\ req[w].pc = "mark" /\ req[w].kind # "send"
      /\ req' = IF quiet THEN [req EXCEPT ![w] = Idle] ELSE [req EXCEPT ![w].pc = pc]
      /\ UNCHANGED <<site, author, drawn, watermark, badge, page, down, up>>
  BY <1>1 DEF Mark, IInv, RequestOK
<1>3. Idle \in Work
  BY Constants, EmptySeq DEF Idle, Work
<1>4. /\ req' \in [Worker -> Work] /\ \A v \in Worker \ {w} : req'[v] = req[v]
      /\ req'[w] = IF quiet THEN Idle ELSE [req[w] EXCEPT !.pc = pc]
  <2>1. req \in [Worker -> Work]
    BY DEF IInv, Shape
  <2> QED BY <1>2, <1>3, <2>1, ZenonT(40) DEF Work
<1>5. ~quiet => /\ req'[w].pc = pc /\ req'[w].kind = req[w].kind /\ req'[w].by = u
                /\ req'[w].id = req[w].id /\ req'[w].seen = req[w].seen
                /\ req'[w].before = req[w].before /\ req'[w].count = req[w].count
  BY <1>0, <1>1, <1>4 DEF Typed, Work
<1>6. quiet => req'[w].pc = "idle" /\ req'[w].count = 0
  BY <1>4 DEF Idle
<1>7. /\ req[w].id \in Int /\ watermark[u] \in Int /\ (~new => req[w].id <= watermark[u])
      /\ (quiet => req[w].kind = "ws") /\ (req[w].kind = "ws" => quiet \/ pc = "advance")
      /\ pc \in {"advance", "render"} /\ (pc = "render" => ~new)
      /\ (req[w].kind # "ws" => req[w].kind = "load")
  BY <1>0, <1>2 DEF Typed, Work
<1> HIDE DEF new, pc, quiet
<1>8. Grows /\ Stored' = Stored
  BY <1>0, <1>2, Still
<1>9. TypeOK' /\ Shape'
  BY <1>2, <1>4, <1>8 DEF IInv, TypeOK, Shape
<1>10. Typed'
  BY <1>9, IdsNext
<1>11. RequestOK(w)'
  <2>1. RequestOK(w) /\ \A m \in Id : m \in Int
    BY <1>0 DEF IInv, Typed
  <2>2. CASE quiet
    BY <1>0, <1>2, <1>6, <2>2 DEF RequestOK, Typed
  <2>3. CASE ~quiet
    <3>1. /\ req'[w].by \in Person /\ req'[w].pc \notin {"commit", "tell", "answer"}
          /\ req'[w].pc \in {"mark", "advance"} => req'[w].kind # "send" /\ req'[w].id \in Stored
          /\ req'[w].pc = "render" => req'[w].kind = "load"
          /\ req'[w].kind # "send" /\ req'[w].count <= drawn
      BY <1>1, <1>2, <1>5, <1>7, <2>1, <2>3 DEF RequestOK
    <3>2. ASSUME req[w].kind = "load"
          PROVE  /\ Range(req[w].seen) \cup req[w].before \subseteq Stored
                 /\ Reaches(req[w].seen, req[w].before)
                 /\ \A m \in Range(req[w].seen) : m <= req[w].id
                 /\ pc = "render" => \A m \in Range(req[w].seen) : m <= watermark[u]
      BY <1>0, <1>2, <1>7, <2>1, <3>2 DEF RequestOK, Typed
    <3> QED BY <1>1, <1>2, <1>5, <1>7, <1>8, <2>3, <3>1, <3>2 DEF RequestOK
  <2> QED BY <2>2, <2>3
<1>12. (\A v \in Worker : RequestOK(v))'
  BY <1>0, <1>5, <1>6, <1>7, <1>8, <1>10, <1>4, <1>11, RequestsKept DEF IInv, RequestOK
<1>13. (\A v \in Person : PageOK(v))'
  BY <1>0, <1>2, <1>8, <1>10, PagesKept
<1>14. (site.serial => SerialOK)'
  BY <1>0, <1>2, <1>4, <1>5, <1>6, <1>7, <1>8, <1>10, SerialKept, Alone
<1>15. (site.serial /\ ~site.faults => BadgeOK)'
  <2> SUFFICES ASSUME site.serial, ~site.faults PROVE BadgeOK'
    BY <1>2
  <2>1. \A v \in Worker : req[v].pc \notin {"tell", "count", "push"} /\ req'[v].pc # "push"
    BY <1>2, <1>4, <1>5, <1>6, <1>7, Alone
  <2> QED BY <1>0, <1>2, <1>10, <2>1, BadgeKept, UnreadStill
<1>16. (site.serial \/ ~site.faults => ReadOK)'
  <2>1. req[w].kind = "ws" =>
          \/ /\ req'[w].pc \in {"mark", "advance"} /\ req'[w].kind = "ws"
             /\ req'[w].by = req[w].by /\ req'[w].id = req[w].id
          \/ req[w].by \in Person /\ req[w].id <= watermark'[req[w].by]
    <3>1. CASE quiet
      <4>1. ~new
        BY <3>1 DEF quiet
      <4> QED BY <1>1, <1>2, <1>7, <4>1
    <3>2. CASE ~quiet
      BY <1>1, <1>5, <1>7, <3>2
    <3> QED BY <3>1, <3>2
  <2> QED BY <1>0, <1>2, <1>4, <1>8, <1>10, <2>1, ReadKept
<1> QED BY <1>9, <1>12, <1>13, <1>14, <1>15, <1>16 DEF IInv

\* A request that goes on to pc.
LEMMA Moved ==
  ASSUME Shape, NEW w \in Worker,
         NEW pc \in {"idle", "mark", "advance", "render", "commit", "tell", "count", "push", "answer"},
         NEW c \in Nat,
         \/ req' = [req EXCEPT ![w].pc = pc, ![w].count = c]
         \/ /\ req' = [req EXCEPT ![w].pc = pc]
            /\ c = req[w].count
  PROVE  /\ req' \in [Worker -> Work] /\ \A v \in Worker \ {w} : req'[v] = req[v]
         /\ req'[w].pc = pc /\ req'[w].kind = req[w].kind /\ req'[w].by = req[w].by
         /\ req'[w].id = req[w].id /\ req'[w].seen = req[w].seen
         /\ req'[w].before = req[w].before /\ req'[w].count = c
<1>1. req \in [Worker -> Work] /\ req[w] \in Work
  BY DEF Shape
<1>2. /\ req'[w].pc = pc /\ req'[w].kind = req[w].kind /\ req'[w].by = req[w].by
      /\ req'[w].id = req[w].id /\ req'[w].seen = req[w].seen
      /\ req'[w].before = req[w].before /\ req'[w].count = c
      /\ \A v \in Worker \ {w} : req'[v] = req[v]
  BY <1>1 DEF Work
<1>3. [req[w] EXCEPT !.pc = pc, !.count = c] \in Work /\ [req[w] EXCEPT !.pc = pc] \in Work
  BY <1>1 DEF Work
<1>4. req' \in [Worker -> Work]
  BY <1>1, <1>3
<1> QED BY <1>2, <1>4

LEMMA AdvanceStep == ASSUME IInv, NEW w \in Worker, Advance(w) PROVE IInv'
<1>0. Typed
  BY Ids DEF IInv
<1>1. PICK u \in Person : u = req[w].by
  BY DEF IInv, RequestOK, Advance
<1>2. /\ req[w].pc = "advance" /\ req[w].kind # "send" /\ req[w].id \in Stored
      /\ watermark' = [watermark EXCEPT ![u] = Greatest(@, req[w].id)]
      /\ req' = [req EXCEPT ![w].pc = "count"]
      /\ UNCHANGED <<site, author, drawn, badge, page, down, up>>
  BY <1>1 DEF Advance, Goto, IInv, RequestOK
<1>3. /\ req' \in [Worker -> Work] /\ \A v \in Worker \ {w} : req'[v] = req[v]
      /\ req'[w].pc = "count" /\ req'[w].kind = req[w].kind /\ req'[w].by = req[w].by
      /\ req'[w].id = req[w].id /\ req'[w].seen = req[w].seen
      /\ req'[w].before = req[w].before /\ req'[w].count = req[w].count
  BY <1>0, <1>2, Moved DEF IInv, Typed
<1>4. req'[w].by = u
  BY <1>1, <1>3
<1>5. /\ req[w].id \in Nat /\ req[w].id <= drawn /\ watermark[u] \in Nat
      /\ watermark[u] <= drawn /\ drawn \in Nat
  BY <1>0, <1>2 DEF Typed
<1>6. /\ watermark' \in [Person -> Nat] /\ \A v \in Person \ {u} : watermark'[v] = watermark[v]
      /\ watermark'[u] >= watermark[u] /\ watermark'[u] >= req[w].id /\ watermark'[u] <= drawn
      /\ watermark'[u] \in Nat
  <2>1. watermark \in [Person -> Nat]
    BY DEF IInv, Shape
  <2> QED BY <1>2, <1>5, <2>1 DEF Greatest
<1>7. Grows /\ Stored' = Stored
  <2>1. Stored' = Stored
    BY <1>2 DEF Stored
  <2>2. \A v \in Person : watermark'[v] >= watermark[v]
    BY <1>0, <1>6 DEF Typed
  <2> QED BY <1>2, <1>5, <2>1, <2>2 DEF Grows
<1>8. TypeOK'
  <2>1. \A v \in Person : watermark'[v] \in 0 .. drawn
    BY <1>0, <1>5, <1>6 DEF Typed
  <2> QED BY <1>2, <1>7, <2>1 DEF IInv, TypeOK
<1>9. Shape'
  BY <1>2, <1>3, <1>6, <1>7 DEF IInv, Shape
<1>10. Typed'
  BY <1>8, <1>9, IdsNext
<1>11. RequestOK(w)'
  <2>1. RequestOK(w) /\ \A m \in Id : m \in Int
    BY <1>0 DEF IInv, Typed
  <2>2. ASSUME req[w].kind = "load", NEW m \in Range(req[w].seen) PROVE m <= watermark'[u]
    <3>1. m \in Stored /\ m <= req[w].id
      BY <1>2, <2>1, <2>2 DEF RequestOK
    <3> QED BY <1>0, <1>5, <1>6, <3>1 DEF Typed
  <2> QED BY <1>1, <1>2, <1>3, <1>7, <2>1, <2>2 DEF RequestOK
<1>12. (\A v \in Worker : RequestOK(v))'
  BY <1>0, <1>3, <1>4, <1>7, <1>10, <1>11, RequestsKept DEF IInv, RequestOK
<1>13. (\A v \in Person : PageOK(v))'
  BY <1>0, <1>2, <1>7, <1>10, PagesKept
<1>14. (site.serial => SerialOK)'
  BY <1>0, <1>2, <1>3, <1>4, <1>7, <1>10, SerialKept, Alone
<1>15. (site.serial /\ ~site.faults => BadgeOK)'
  <2> SUFFICES ASSUME site.serial, ~site.faults PROVE BadgeOK'
    BY <1>2
  <2>1. \A v \in Worker : req[v].pc \notin {"tell", "count", "push"} /\ req'[v].pc # "push"
    BY <1>2, <1>3, <1>4, Alone
  <2>2. \A v \in Person : Unread(v)' <= Unread(v) /\ Unread(v)' \in Nat
    BY <1>0, <1>2, <1>7, <1>10, UnreadFalls DEF Typed, Grows
  <2>3. \A v \in Person : Unread(v) \in Nat
    BY <1>0, UnreadBound DEF Typed
  <2> QED BY <1>0, <1>2, <1>10, <2>1, <2>2, <2>3, BadgeKept
<1>16. (site.serial \/ ~site.faults => ReadOK)'
  BY <1>0, <1>1, <1>2, <1>3, <1>6, <1>7, <1>10, ReadKept
<1> QED BY <1>8, <1>9, <1>12, <1>13, <1>14, <1>15, <1>16 DEF IInv

LEMMA SendStep == ASSUME IInv, NEW w \in Worker, NEW u \in Person, Send(w, u) PROVE IInv'
<1>0. Typed
  BY Ids DEF IInv
<1> DEFINE r == [Idle EXCEPT !.pc = "commit", !.kind = "send", !.by = u, !.id = drawn + 1]
<1>1. /\ req[w].pc = "idle" /\ (site.serial => \A v \in Worker : req[v].pc = "idle")
      /\ req' = [req EXCEPT ![w] = r] /\ drawn' = drawn + 1 /\ drawn < site.messages
      /\ UNCHANGED <<site, author, watermark, badge, page, down, up>>
  BY DEF Send, Start
<1>2. drawn \in Nat /\ drawn + 1 \in 0 .. MaxMessages
  <2>1. site.messages \in 0 .. MaxMessages /\ MaxMessages \in Nat
    BY Constants DEF IInv, TypeOK
  <2> QED BY <1>0, <1>1, <2>1 DEF Typed
<1>3. /\ r \in Work /\ r.pc = "commit" /\ r.kind = "send" /\ r.by = u /\ r.id = drawn'
      /\ r.count = 0
  BY <1>1, <1>2, EmptySeq DEF Idle, Work
<1> HIDE DEF r
<1>4. /\ req' \in [Worker -> Work] /\ req'[w] = r /\ \A v \in Worker \ {w} : req'[v] = req[v]
  BY <1>1, <1>3 DEF IInv, Shape
<1>5. Stored' = Stored
  BY <1>1 DEF Stored
<1>6. Grows
  BY <1>0, <1>1, <1>2, <1>5 DEF Grows, Typed
<1>7. TypeOK'
  <2>1. \A v \in Person : watermark[v] \in 0 .. drawn' /\ badge[v] \in 0 .. drawn'
    BY <1>0, <1>1, <1>2 DEF Typed
  <2> QED BY <1>1, <1>2, <1>5, <2>1 DEF IInv, TypeOK
<1>8. Shape'
  <2>1. \A m \in Stored : m <= drawn'
    BY <1>0, <1>1, <1>2 DEF Typed
  <2> QED BY <1>1, <1>4, <1>5, <2>1 DEF IInv, Shape
<1>9. Typed'
  BY <1>7, <1>8, IdsNext
<1>10. drawn' \notin Stored /\ \A v \in Worker : req[v].pc = "commit" => req[v].id # drawn'
  BY <1>0, <1>1, <1>2 DEF Typed, IInv, RequestOK
<1>11. RequestOK(w)'
  BY <1>1, <1>2, <1>3, <1>4, <1>5, <1>10 DEF RequestOK
<1>12. (\A v \in Worker : RequestOK(v))'
  BY <1>0, <1>3, <1>4, <1>5, <1>6, <1>9, <1>10, <1>11, RequestsKept DEF IInv, RequestOK
<1>13. (\A v \in Person : PageOK(v))'
  BY <1>0, <1>1, <1>6, <1>9, PagesKept
<1>14. (site.serial => SerialOK)'
  <2>1. \A v \in Person : watermark'[v] < drawn'
    BY <1>0, <1>1 DEF Typed
  <2> QED BY <1>0, <1>1, <1>3, <1>4, <1>6, <1>9, <2>1, SerialKept
<1>15. (site.serial /\ ~site.faults => BadgeOK)'
  BY <1>0, <1>1, <1>3, <1>4, <1>9, BadgeKept, UnreadStill
<1>16. (site.serial \/ ~site.faults => ReadOK)'
  BY <1>0, <1>1, <1>4, <1>6, <1>9, ReadKept
<1> QED BY <1>7, <1>8, <1>12, <1>13, <1>14, <1>15, <1>16 DEF IInv

LEMMA RollBackStep == ASSUME IInv, NEW w \in Worker, RollBack(w) PROVE IInv'
<1>0. Typed
  BY Ids DEF IInv
<1>1. /\ site.faults /\ req[w].pc = "commit" /\ req' = [req EXCEPT ![w] = Idle]
      /\ UNCHANGED <<site, author, drawn, watermark, badge, page, down, up>>
  BY DEF RollBack
<1>2. Idle \in Work /\ Idle.pc = "idle" /\ Idle.count = 0
  BY Constants, EmptySeq DEF Idle, Work
<1>3. /\ req' \in [Worker -> Work] /\ req'[w] = Idle /\ \A v \in Worker \ {w} : req'[v] = req[v]
  BY <1>1, <1>2 DEF IInv, Shape
<1>4. Grows /\ Stored' = Stored
  BY <1>0, <1>1, Still
<1>5. TypeOK' /\ Shape'
  BY <1>1, <1>3, <1>4 DEF IInv, TypeOK, Shape
<1>6. Typed'
  BY <1>5, IdsNext
<1>7. RequestOK(w)'
  BY <1>0, <1>1, <1>2, <1>3 DEF RequestOK, Typed
<1>8. (\A v \in Worker : RequestOK(v))'
  BY <1>0, <1>2, <1>3, <1>4, <1>6, <1>7, RequestsKept DEF IInv, RequestOK
<1>9. (\A v \in Person : PageOK(v))'
  BY <1>0, <1>1, <1>4, <1>6, PagesKept
<1>10. (site.serial => SerialOK)'
  BY <1>0, <1>1, <1>2, <1>3, <1>4, <1>6, SerialKept, Alone
<1>11. (site.serial \/ ~site.faults => ReadOK)'
  BY <1>0, <1>1, <1>3, <1>4, <1>6, ReadKept
<1> QED BY <1>1, <1>5, <1>8, <1>9, <1>10, <1>11 DEF IInv

LEMMA CountStep == ASSUME IInv, NEW w \in Worker, Count(w) PROVE IInv'
<1>0. Typed
  BY Ids DEF IInv
<1>1. PICK c \in Person : c = Counted(w)
  BY TwoPersons DEF Counted, IInv, RequestOK, Count
<1>2. /\ req[w].pc = "count" /\ Unread(c) \in 0 .. drawn /\ drawn \in Nat /\ Unread(c) \in Nat
      /\ req' = [req EXCEPT ![w].pc = "push", ![w].count = Unread(c)]
      /\ UNCHANGED <<site, author, drawn, watermark, badge, page, down, up>>
  BY <1>0, <1>1, UnreadBound DEF Count, Typed
<1>3. /\ req' \in [Worker -> Work] /\ \A v \in Worker \ {w} : req'[v] = req[v]
      /\ req'[w].pc = "push" /\ req'[w].kind = req[w].kind /\ req'[w].by = req[w].by
      /\ req'[w].id = req[w].id /\ req'[w].seen = req[w].seen
      /\ req'[w].before = req[w].before /\ req'[w].count = Unread(c)
  BY <1>2, Moved DEF IInv
<1>4. Unread(c) <= drawn
  BY <1>2
<1>5. Grows /\ Stored' = Stored
  BY <1>0, <1>2, Still
<1>6. TypeOK' /\ Shape'
  BY <1>2, <1>3, <1>5 DEF IInv, TypeOK, Shape
<1>7. Typed'
  BY <1>6, IdsNext
<1>8. RequestOK(w)'
  <2>1. RequestOK(w)
    BY DEF IInv
  <2> QED BY <1>2, <1>3, <1>4, <1>5, <2>1 DEF RequestOK
<1>9. (\A v \in Worker : RequestOK(v))'
  BY <1>0, <1>3, <1>5, <1>7, <1>8, RequestsKept DEF IInv, RequestOK
<1>10. (\A v \in Person : PageOK(v))'
  BY <1>0, <1>2, <1>5, <1>7, PagesKept
<1>11. (site.serial => SerialOK)'
  <2> SUFFICES ASSUME site.serial PROVE SerialOK'
    BY <1>2
  <2>1. req[w].kind = "send" => req[w].id = drawn
    BY <1>2 DEF IInv, SerialOK
  <2> QED BY <1>0, <1>2, <1>3, <1>5, <1>7, <2>1, SerialKept, Alone
<1>12. (site.serial /\ ~site.faults => BadgeOK)'
  <2> SUFFICES ASSUME site.serial, ~site.faults PROVE BadgeOK'
    BY <1>2
  <2>1. BadgeOK /\ \A v \in Worker \ {w} : req[v].pc = "idle"
    BY <1>2, Alone DEF IInv
  <2>2. /\ \A u \in Person : Unread(u)' = Unread(u)
        /\ Counted(w)' = c /\ \A v \in Worker \ {w} : Counted(v)' = Counted(v)
    BY <1>1, <1>2, <1>3, SMTT(30) DEF Unread, Stored, Counted
  <2>3. \A u \in Person : Corrected(u) => Corrected(u)'
    BY <1>1, <1>2, <1>3, <2>2 DEF Corrected
  <2>4. ASSUME NEW v \in Worker, req'[v].pc = "push" PROVE req'[v].count >= Unread(Counted(v))'
    <3>1. v = w
      BY <1>3, <2>1, <2>4
    <3>2. Unread(Counted(w))' = Unread(c)
      BY <1>1, <1>2, <1>3, SMTT(30) DEF Unread, Stored, Counted
    <3> QED BY <1>2, <1>3, <3>1, <3>2
  <2> QED BY <1>2, <2>1, <2>2, <2>3, <2>4 DEF BadgeOK
<1>13. (site.serial \/ ~site.faults => ReadOK)'
  BY <1>0, <1>2, <1>3, <1>5, <1>7, ReadKept
<1> QED BY <1>6, <1>9, <1>10, <1>11, <1>12, <1>13 DEF IInv

\* The message becomes visible: unread by the other, read by its sender.
LEMMA CommitStep == ASSUME IInv, NEW w \in Worker, Commit(w) PROVE IInv'
<1>0. Typed
  BY Ids DEF IInv
<1>1. PICK u \in Person, d \in Id : u = req[w].by /\ d = req[w].id
  BY <1>0 DEF IInv, RequestOK, Commit, Typed, Id
<1>2. /\ req[w].pc = "commit" /\ req[w].kind = "send" /\ d \notin Stored /\ d \in 1 .. drawn
      /\ author' = [author EXCEPT ![d] = u]
      /\ watermark' = [watermark EXCEPT ![u] = Greatest(@, d)]
      /\ req' = [req EXCEPT ![w].pc = "tell"]
      /\ UNCHANGED <<site, drawn, badge, page, down, up>>
  BY <1>1 DEF Commit, Sender, Goto, IInv, RequestOK
<1>3. /\ req' \in [Worker -> Work] /\ \A v \in Worker \ {w} : req'[v] = req[v]
      /\ req'[w].pc = "tell" /\ req'[w].kind = req[w].kind /\ req'[w].by = req[w].by
      /\ req'[w].id = req[w].id /\ req'[w].seen = req[w].seen
      /\ req'[w].before = req[w].before /\ req'[w].count = req[w].count
  BY <1>0, <1>2, Moved DEF IInv, Typed
<1>4. /\ Stored' = Stored \cup {d} /\ author'[d] = u /\ \A m \in Stored : author'[m] = author[m]
      /\ author' \in [Id -> Person \cup {NoOne}]
  <2>1. author \in [Id -> Person \cup {NoOne}] /\ u # NoOne
    BY PersonAssumption DEF IInv, TypeOK
  <2> QED BY <1>2, <2>1 DEF Stored
<1>5. d \in Nat /\ d <= drawn /\ drawn \in Nat /\ watermark[u] \in Nat /\ watermark[u] <= drawn
  BY <1>0, <1>2 DEF Typed
<1>6. /\ watermark' \in [Person -> Nat] /\ \A v \in Person \ {u} : watermark'[v] = watermark[v]
      /\ watermark'[u] >= watermark[u] /\ watermark'[u] <= drawn /\ watermark'[u] \in Nat
  <2>1. watermark \in [Person -> Nat]
    BY DEF IInv, Shape
  <2> QED BY <1>2, <1>5, <2>1 DEF Greatest
<1>7. Grows
  <2>1. \A v \in Person : watermark'[v] >= watermark[v]
    BY <1>0, <1>6 DEF Typed
  <2> QED BY <1>2, <1>4, <1>5, <2>1 DEF Grows
<1>8. TypeOK'
  <2>1. \A v \in Person : watermark'[v] \in 0 .. drawn
    BY <1>0, <1>5, <1>6 DEF Typed
  <2> QED BY <1>2, <1>4, <2>1 DEF IInv, TypeOK
<1>9. Shape'
  BY <1>2, <1>3, <1>4, <1>5, <1>6 DEF IInv, Shape
<1>10. Typed'
  BY <1>8, <1>9, IdsNext
<1>11. RequestOK(w) /\ RequestOK(w)'
  <2>1. RequestOK(w)
    BY DEF IInv
  <2> QED BY <1>1, <1>2, <1>3, <1>4, <2>1 DEF RequestOK
<1>12. (\A v \in Worker : RequestOK(v))'
  <2>1. \A v \in Worker \ {w} : req[v].pc = "commit" =>
          req[v].id \notin Stored' /\ (req'[w].pc = "commit" => req'[w].id # req[v].id)
    <3>1. \A v \in Worker \ {w} : req[v].pc = "commit" => req[v].id \notin Stored
      BY DEF IInv, RequestOK
    <3> QED BY <1>1, <1>2, <1>3, <1>4, <1>11, <3>1 DEF RequestOK
  <2> QED BY <1>0, <1>3, <1>7, <1>10, <1>11, <2>1, RequestsKept
<1>13. (\A v \in Person : PageOK(v))'
  BY <1>0, <1>2, <1>7, <1>10, PagesKept
<1>14. (site.serial => SerialOK)'
  <2> SUFFICES ASSUME site.serial PROVE SerialOK'
    BY <1>2
  <2>1. req[w].id = drawn
    BY <1>2 DEF IInv, SerialOK
  <2> QED BY <1>0, <1>2, <1>3, <1>7, <1>10, <2>1, SerialKept, Alone
<1>15. (site.serial /\ ~site.faults => BadgeOK)'
  <2> SUFFICES ASSUME site.serial, ~site.faults PROVE BadgeOK'
    BY <1>2
  <2>1. \A v \in Worker \ {w} : req[v].pc = "idle"
    BY <1>2, Alone
  <2>2. \A v \in Worker : req[v].pc \notin {"tell", "count", "push"} /\ req'[v].pc # "push"
    BY <1>2, <1>3, <2>1
  <2>3. ASSUME NEW v \in Person PROVE badge'[v] >= Unread(v)' \/ Corrected(v)'
    <3>1. CASE v = u
      <4>1. Unread(u)' <= Unread(u) /\ Unread(u)' \in Nat
        BY <1>0, <1>4, <1>6, UnreadFalls
      <4>2. badge[u] >= Unread(u) /\ badge[u] \in Nat /\ Unread(u) \in Nat
        BY <1>0, <2>2, UnreadBound DEF IInv, BadgeOK, Corrected, Typed
      <4> QED BY <1>2, <3>1, <4>1, <4>2
    <3>2. CASE v = Other(u)
      BY <1>1, <1>2, <1>3, <3>2 DEF Corrected, Counted
    <3> QED BY <3>1, <3>2, TwoPersons
  <2> QED BY <2>2, <2>3 DEF BadgeOK
<1>16. (site.serial \/ ~site.faults => ReadOK)'
  BY <1>0, <1>2, <1>3, <1>7, <1>10, ReadKept
<1> QED BY <1>8, <1>9, <1>12, <1>13, <1>14, <1>15, <1>16 DEF IInv

LEMMA TellStep == ASSUME IInv, NEW w \in Worker, Tell(w) PROVE IInv'
<1>0. Typed
  BY Ids DEF IInv
<1>1. PICK d \in Id : d = req[w].id
  BY <1>0 DEF IInv, RequestOK, Tell, Typed
<1>2. /\ req[w].pc = "tell" /\ req[w].kind = "send" /\ d \in Stored
      /\ req' = [req EXCEPT ![w].pc = "count"]
      /\ UNCHANGED <<site, author, drawn, watermark, badge, page, up>>
  BY <1>1 DEF Tell, Goto, IInv, RequestOK
<1>3. /\ req' \in [Worker -> Work] /\ \A v \in Worker \ {w} : req'[v] = req[v]
      /\ req'[w].pc = "count" /\ req'[w].kind = req[w].kind /\ req'[w].by = req[w].by
      /\ req'[w].id = req[w].id /\ req'[w].seen = req[w].seen
      /\ req'[w].before = req[w].before /\ req'[w].count = req[w].count
  BY <1>0, <1>2, Moved DEF IInv, Typed
<1>4. Grows /\ Stored' = Stored
  BY <1>0, <1>2, Still
<1>5. /\ down' \in [Person -> Seq(Id)]
      /\ \A u \in Person : down'[u] = down[u] \/ down'[u] = Append(down[u], d)
  <2>1. down \in [Person -> Seq(Id)]
    BY DEF IInv, Shape
  <2>2. \A u \in Person : down[u] \in Seq(Id) /\ Append(down[u], d) \in Seq(Id)
    BY <2>1
  <2> QED BY <1>1, <2>1, <2>2 DEF Tell, Broadcast
<1>6. \A u \in Person : Range(down'[u]) \subseteq Range(down[u]) \cup {d}
  BY <1>0, <1>5, Appended DEF Typed
<1>7. TypeOK'
  BY <1>2, <1>4, <1>6 DEF IInv, TypeOK
<1>8. Shape'
  BY <1>2, <1>3, <1>4, <1>5 DEF IInv, Shape
<1>9. Typed'
  BY <1>7, <1>8, IdsNext
<1>10. RequestOK(w)'
  <2>1. RequestOK(w)
    BY DEF IInv
  <2> QED BY <1>2, <1>3, <1>4, <2>1 DEF RequestOK
<1>11. (\A v \in Worker : RequestOK(v))'
  BY <1>0, <1>3, <1>4, <1>9, <1>10, RequestsKept DEF IInv, RequestOK
<1>12. (\A v \in Person : PageOK(v))'
  BY <1>0, <1>2, <1>4, <1>9, PagesKept
<1>13. (site.serial => SerialOK)'
  <2> SUFFICES ASSUME site.serial PROVE SerialOK'
    BY <1>2
  <2>1. SerialOK /\ d = drawn /\ \A v \in Worker \ {w} : req[v].pc = "idle"
    BY <1>1, <1>2, Alone DEF IInv, SerialOK
  <2>2. \A m \in Stored : m <= d
    BY <1>0, <2>1 DEF Typed
  <2>3. ASSUME NEW u \in Person
        PROVE  \A i, j \in 1 .. Len(down'[u]) : i < j => down'[u][i] <= down'[u][j]
    <3>1. CASE down'[u] = down[u]
      BY <2>1, <3>1 DEF SerialOK
    <3>2. CASE down'[u] = Append(down[u], d)
      <4>1. /\ Len(down[u]) \in Nat /\ Len(down'[u]) = Len(down[u]) + 1
            /\ down'[u][Len(down[u]) + 1] = d
            /\ \A i \in 1 .. Len(down[u]) : down'[u][i] = down[u][i]
        BY <1>0, <3>2 DEF Typed
      <4>2. \A i \in 1 .. Len(down[u]) : down[u][i] \in Stored
        BY <1>0, InRange DEF Typed
      <4>3. ASSUME NEW i \in 1 .. Len(down'[u]), NEW j \in 1 .. Len(down'[u]), i < j
            PROVE  down'[u][i] <= down'[u][j]
        <5>1. CASE j \in 1 .. Len(down[u])
          <6>1. i \in 1 .. Len(down[u])
            BY <4>3, <5>1
          <6> QED BY <2>1, <4>1, <4>3, <5>1, <6>1 DEF SerialOK
        <5>2. CASE j = Len(down[u]) + 1
          <6>1. i \in 1 .. Len(down[u])
            BY <4>1, <4>3, <5>2
          <6> QED BY <2>2, <4>1, <4>2, <5>2, <6>1
        <5> QED BY <4>1, <5>1, <5>2
      <4> QED BY <4>3
    <3> QED BY <1>5, <3>1, <3>2
  <2>4. ASSUME NEW u \in Person, NEW m \in Range(page[u].shown), author[m] # u, m > watermark[u]
        PROVE  m <= Last(page[u].shown) /\ \A x \in Range(down'[u]) : m <= x
    <3>1. m \in Stored
      BY <1>0 DEF Typed
    <3> QED BY <1>6, <2>1, <2>2, <2>4, <3>1 DEF SerialOK
  <2>5. /\ \A v, x \in Worker : req'[v].pc # "idle" /\ req'[x].pc # "idle" => v = x
        /\ \A v \in Worker :
             /\ req'[v].pc # "idle" /\ req'[v].kind = "send" => req'[v].id = drawn
             /\ req'[v].pc # "commit"
    BY <1>1, <1>3, <2>1
  <2> QED BY <1>2, <2>3, <2>4, <2>5 DEF SerialOK
<1>14. (site.serial /\ ~site.faults => BadgeOK)'
  <2> SUFFICES ASSUME site.serial, ~site.faults PROVE BadgeOK'
    BY <1>2
  <2>1. BadgeOK /\ \A v \in Worker \ {w} : req[v].pc = "idle"
    BY <1>2, Alone DEF IInv
  <2>2. \A u \in Person : Unread(u)' = Unread(u) /\ (Corrected(u) => Corrected(u)')
    BY <1>2, <1>3 DEF Unread, Stored, Corrected, Counted
  <2> QED BY <1>2, <1>3, <2>1, <2>2 DEF BadgeOK
<1>15. (site.serial \/ ~site.faults => ReadOK)'
  BY <1>0, <1>2, <1>3, <1>4, <1>9, ReadKept
<1> QED BY <1>7, <1>8, <1>11, <1>12, <1>13, <1>14, <1>15 DEF IInv

\* A request that has ended.
LEMMA Ended ==
  ASSUME Shape, NEW w \in Worker, req' = [req EXCEPT ![w] = Idle]
  PROVE  /\ req' \in [Worker -> Work] /\ \A v \in Worker \ {w} : req'[v] = req[v]
         /\ req'[w] = Idle /\ req'[w].pc = "idle" /\ req'[w].count = 0
<1>1. Idle \in Work /\ Idle.pc = "idle" /\ Idle.count = 0
  BY Constants, EmptySeq DEF Idle, Work
<1> QED BY <1>1 DEF Shape

LEMMA PushStep == ASSUME IInv, NEW w \in Worker, Push(w) PROVE IInv'
<1>0. Typed /\ RequestOK(w)
  BY Ids DEF IInv
<1>1. PICK c \in Person : c = Counted(w)
  BY <1>0, TwoPersons DEF Counted, RequestOK, Push
<1>2. /\ req[w].pc = "push" /\ req[w].count \in 0 .. drawn /\ req[w].count \in Nat
      /\ badge' \in Broadcast(badge, [badge EXCEPT ![c] = req[w].count])
      /\ UNCHANGED <<site, author, drawn, watermark, page, down, up>>
  BY <1>0, <1>1 DEF Push, RequestOK, Typed
<1>3. /\ req' \in [Worker -> Work] /\ \A v \in Worker \ {w} : req'[v] = req[v]
      /\ \/ req'[w].pc = "idle"
         \/ req'[w].pc = "render" /\ req[w].kind = "load"
         \/ req'[w].pc = "answer" /\ req[w].kind = "send"
      /\ req'[w].pc # "idle" => /\ req'[w].kind = req[w].kind /\ req'[w].by = req[w].by
                                /\ req'[w].id = req[w].id /\ req'[w].seen = req[w].seen
                                /\ req'[w].before = req[w].before
      /\ req'[w].count <= drawn
  <2>1. req[w].count \in Nat /\ req[w].count <= drawn
    BY <1>2, <1>0 DEF Typed
  <2>2. req[w].kind \in {"load", "send", "ws"} /\ drawn \in Nat
    BY <1>0 DEF Typed, Work
  <2>3. CASE req[w].kind = "load"
    <3>1. req' = [req EXCEPT ![w].pc = "render"]
      BY <2>3 DEF Push
    <3>2. /\ req' \in [Worker -> Work] /\ \A v \in Worker \ {w} : req'[v] = req[v]
          /\ req'[w].pc = "render" /\ req'[w].kind = req[w].kind /\ req'[w].by = req[w].by
          /\ req'[w].id = req[w].id /\ req'[w].seen = req[w].seen
          /\ req'[w].before = req[w].before /\ req'[w].count = req[w].count
      BY <2>1, <3>1, Moved DEF IInv
    <3> QED BY <2>1, <2>3, <3>2
  <2>4. CASE req[w].kind = "send"
    <3>1. req' = [req EXCEPT ![w].pc = "answer"]
      BY <2>4 DEF Push
    <3>2. /\ req' \in [Worker -> Work] /\ \A v \in Worker \ {w} : req'[v] = req[v]
          /\ req'[w].pc = "answer" /\ req'[w].kind = req[w].kind /\ req'[w].by = req[w].by
          /\ req'[w].id = req[w].id /\ req'[w].seen = req[w].seen
          /\ req'[w].before = req[w].before /\ req'[w].count = req[w].count
      BY <2>1, <3>1, Moved DEF IInv
    <3> QED BY <2>1, <2>4, <3>2
  <2>5. CASE req[w].kind = "ws"
    <3>1. req' = [req EXCEPT ![w] = Idle]
      BY <2>5 DEF Push
    <3>2. /\ req' \in [Worker -> Work] /\ \A v \in Worker \ {w} : req'[v] = req[v]
          /\ req'[w].pc = "idle" /\ req'[w].count = 0
      BY <3>1, Ended DEF IInv
    <3> QED BY <2>2, <3>2
  <2> QED BY <2>2, <2>3, <2>4, <2>5
<1>4. Grows /\ Stored' = Stored
  <2>1. Stored' = Stored
    BY <1>2 DEF Stored
  <2> QED BY <1>0, <1>2, <2>1 DEF Typed, Grows
<1>5. badge' \in [Person -> Nat] /\ \A u \in Person : badge'[u] \in 0 .. drawn
  <2>1. badge \in [Person -> 0 .. drawn] /\ badge \in [Person -> Nat]
    BY DEF IInv, Shape, TypeOK
  <2> QED BY <1>2, <2>1 DEF Broadcast
<1>6. TypeOK'
  BY <1>2, <1>4, <1>5 DEF IInv, TypeOK
<1>7. Shape'
  BY <1>2, <1>3, <1>4, <1>5 DEF IInv, Shape
<1>8. Typed'
  BY <1>6, <1>7, IdsNext
<1>9. RequestOK(w)'
  BY <1>0, <1>2, <1>3, <1>4 DEF RequestOK
<1>10. (\A v \in Worker : RequestOK(v))'
  BY <1>0, <1>3, <1>4, <1>8, <1>9, RequestsKept DEF IInv, RequestOK
<1>11. (\A v \in Person : PageOK(v))'
  BY <1>0, <1>2, <1>4, <1>8, PagesKept
<1>12. (site.serial => SerialOK)'
  <2> SUFFICES ASSUME site.serial PROVE SerialOK'
    BY <1>2
  <2>1. req[w].kind = "send" => req[w].id = drawn
    BY <1>2 DEF IInv, SerialOK
  <2> QED BY <1>0, <1>2, <1>3, <1>4, <1>8, <2>1, SerialKept, Alone
<1>13. (site.serial /\ ~site.faults => BadgeOK)'
  <2> SUFFICES ASSUME site.serial, ~site.faults PROVE BadgeOK'
    BY <1>2
  <2>1. BadgeOK /\ \A v \in Worker \ {w} : req[v].pc = "idle"
    BY <1>2, Alone DEF IInv
  <2>2. badge' = [badge EXCEPT ![c] = req[w].count] /\ badge \in [Person -> Nat]
    BY <1>2 DEF Broadcast, IInv, Shape
  <2>3. \A u \in Person : Unread(u)' = Unread(u)
    BY <1>2 DEF Unread, Stored
  <2>4. ASSUME NEW u \in Person PROVE badge'[u] >= Unread(u)
    <3>1. CASE u = c
      BY <1>1, <1>2, <2>1, <2>2, <3>1 DEF BadgeOK
    <3>2. CASE u # c
      <4>1. ~Corrected(u)
        BY <1>1, <2>1, <3>2 DEF Corrected
      <4> QED BY <2>1, <2>2, <3>2, <4>1 DEF BadgeOK
    <3> QED BY <3>1, <3>2
  <2>5. \A v \in Worker : req'[v].pc # "push"
    BY <1>3, <2>1
  <2> QED BY <2>3, <2>4, <2>5 DEF BadgeOK
<1>14. (site.serial \/ ~site.faults => ReadOK)'
  BY <1>0, <1>2, <1>3, <1>4, <1>8, ReadKept
<1> QED BY <1>6, <1>7, <1>10, <1>11, <1>12, <1>13, <1>14 DEF IInv

LEMMA RenderStep == ASSUME IInv, NEW w \in Worker, Render(w) PROVE IInv'
<1>0. Typed /\ RequestOK(w)
  BY Ids DEF IInv
<1>1. PICK u \in Person, s \in Seq(Id), b \in SUBSET Id :
        u = req[w].by /\ s = req[w].seen /\ b = req[w].before
  BY <1>0 DEF RequestOK, Render, Typed
<1> DEFINE more == s # <<>> /\ \E m \in Stored : m < Head(s)
           p == [open |-> TRUE, shown |-> s, link |-> "closed", before |-> b, more |-> more]
<1>2. /\ req[w].pc = "render" /\ req[w].kind = "load"
      /\ page' = [page EXCEPT ![u] = p]
      /\ down' = [down EXCEPT ![u] = <<>>] /\ up' = [up EXCEPT ![u] = <<>>]
      /\ badge' = [badge EXCEPT ![u] = Unread(u)]
      /\ req' = [req EXCEPT ![w] = Idle]
      /\ UNCHANGED <<site, author, drawn, watermark>>
  BY <1>0, <1>1 DEF Render, RequestOK
<1>3. /\ Range(s) \cup b \subseteq Stored /\ Reaches(s, b)
      /\ \A m \in Range(s) : m <= watermark[u]
  BY <1>0, <1>1, <1>2 DEF RequestOK
<1>4. /\ req' \in [Worker -> Work] /\ \A v \in Worker \ {w} : req'[v] = req[v]
      /\ req'[w] = Idle /\ req'[w].pc = "idle" /\ req'[w].count = 0
  BY <1>2, Ended DEF IInv
<1>5. /\ p \in Page /\ p.open /\ p.shown = s /\ p.link = "closed" /\ p.before = b /\ p.more = more
      /\ more \in BOOLEAN
  BY DEF Page
<1>6. Unread(u) \in 0 .. drawn /\ Unread(u) \in Nat /\ drawn \in Nat
  BY <1>0, UnreadBound DEF Typed
<1>7. s # <<>> => Head(s) \in Range(s) /\ Head(s) \in Stored
  BY <1>3, Taken
<1>8. \A m \in b \ Range(s) : more /\ m < Head(s)
  <2>1. ASSUME NEW m \in b \ Range(s) PROVE s # <<>> /\ m < Head(s) /\ m \in Stored
    BY <1>3, <2>1 DEF Reaches
  <2> QED BY <2>1
<1>9. more => s # <<>>
  OBVIOUS
<1> HIDE DEF p, more
<1>10. /\ page' \in [Person -> Page] /\ page'[u] = p
       /\ down' \in [Person -> Seq(Id)] /\ down'[u] = <<>>
       /\ up' \in [Person -> Seq(Id)] /\ up'[u] = <<>>
       /\ badge' \in [Person -> Nat] /\ badge'[u] = Unread(u)
       /\ \A v \in Person \ {u} : /\ page'[v] = page[v] /\ down'[v] = down[v]
                                  /\ up'[v] = up[v] /\ badge'[v] = badge[v]
  <2>1. /\ page \in [Person -> Page] /\ down \in [Person -> Seq(Id)] /\ up \in [Person -> Seq(Id)]
        /\ badge \in [Person -> Nat]
    BY DEF IInv, Shape
  <2> QED BY <1>2, <1>5, <1>6, <2>1, EmptySeq
<1>11. Stored' = Stored /\ Grows
  <2>1. Stored' = Stored
    BY <1>2 DEF Stored
  <2> QED BY <1>0, <1>2, <2>1 DEF Typed, Grows
<1>12. TypeOK'
  <2>1. \A v \in Person :
          /\ watermark'[v] \in 0 .. drawn' /\ badge'[v] \in 0 .. drawn'
          /\ page'[v].link \in {"closed", "open", "deaf", "joined"}
          /\ Range(page'[v].shown) \cup Range(down'[v]) \cup Range(up'[v]) \subseteq Stored'
    BY <1>2, <1>3, <1>5, <1>6, <1>10, <1>11, NoneAndOne DEF IInv, TypeOK
  <2> QED BY <1>2, <2>1 DEF IInv, TypeOK
<1>13. Shape'
  BY <1>2, <1>4, <1>10, <1>11 DEF IInv, Shape
<1>14. Typed'
  BY <1>12, <1>13, IdsNext
<1>15. RequestOK(w)'
  BY <1>2, <1>4, <1>6 DEF RequestOK
<1>16. (\A v \in Worker : RequestOK(v))'
  BY <1>0, <1>4, <1>11, <1>14, <1>15, RequestsKept DEF IInv, RequestOK
<1>17. (\A v \in Person : PageOK(v))'
  <2>1. ASSUME NEW v \in Person, v # u PROVE PageOK(v)'
    BY <1>0, <1>10, <1>11, <1>14, <2>1, PageKept DEF IInv, PageOK
  <2>2. PageOK(u)'
    BY <1>2, <1>3, <1>5, <1>7, <1>8, <1>9, <1>10, <1>11 DEF PageOK, Reaches
  <2> QED BY <2>1, <2>2
<1>18. (site.serial => SerialOK)'
  <2> SUFFICES ASSUME site.serial PROVE SerialOK'
    BY <1>2
  <2>1. SerialOK /\ \A v \in Worker : req'[v].pc = "idle"
    BY <1>2, <1>4, Alone DEF IInv
  <2>2. ASSUME NEW v \in Person, v # u
        PROVE  /\ \A i, j \in 1 .. Len(down'[v]) : i < j => down'[v][i] <= down'[v][j]
               /\ \A m \in Range(page'[v].shown) :
                    author[m] # v /\ m > watermark[v] =>
                      m <= Last(page'[v].shown) /\ \A x \in Range(down'[v]) : m <= x
    BY <1>10, <2>1, <2>2 DEF SerialOK
  <2>3. \A m \in Range(s) : ~(m > watermark[u])
    BY <1>0, <1>3 DEF Typed
  <2> QED BY <1>2, <1>5, <1>10, <2>1, <2>2, <2>3 DEF SerialOK
<1>19. (site.serial /\ ~site.faults => BadgeOK)'
  <2> SUFFICES ASSUME site.serial, ~site.faults PROVE BadgeOK'
    BY <1>2
  <2>1. BadgeOK /\ \A v \in Worker \ {w} : req[v].pc = "idle"
    BY <1>2, Alone DEF IInv
  <2>2. \A v \in Person : Unread(v)' = Unread(v) /\ ~Corrected(v)
    BY <1>2, <2>1 DEF Unread, Stored, Corrected
  <2>3. ASSUME NEW v \in Person PROVE badge'[v] >= Unread(v)'
    <3>1. CASE v = u
      BY <1>6, <1>10, <2>2, <3>1
    <3>2. CASE v # u
      <4>1. badge[v] >= Unread(v)
        BY <2>1, <2>2 DEF BadgeOK
      <4> QED BY <1>10, <2>2, <3>2, <4>1
    <3> QED BY <3>1, <3>2
  <2> QED BY <1>4, <2>1, <2>3 DEF BadgeOK
<1>20. (site.serial \/ ~site.faults => ReadOK)'
  <2> SUFFICES ASSUME site.serial \/ ~site.faults, NEW v \in Person,
                      NEW m \in Range(page'[v].shown), author[m] # v
               PROVE  Acknowledged(v, m)'
    BY <1>2 DEF ReadOK
  <2>1. CASE v = u
    BY <1>2, <1>3, <1>5, <1>10, <2>1 DEF Acknowledged
  <2>2. CASE v # u
    <3>1. Acknowledged(v, m)
      BY <1>10, <2>2 DEF IInv, ReadOK
    <3> QED BY <1>2, <1>4, <1>10, <2>2, <3>1 DEF Acknowledged
  <2> QED BY <2>1, <2>2
<1> QED BY <1>12, <1>13, <1>16, <1>17, <1>18, <1>19, <1>20 DEF IInv

LEMMA AnswerStep == ASSUME IInv, NEW w \in Worker, Answer(w) PROVE IInv'
<1>0. Typed /\ RequestOK(w)
  BY Ids DEF IInv
<1>1. PICK u \in Person, d \in Stored : u = req[w].by /\ d = req[w].id
  BY <1>0 DEF RequestOK, Answer
<1>2. /\ req[w].pc = "answer" /\ req[w].kind = "send" /\ author[d] = u /\ NewMessage(u, d)
      /\ req' = [req EXCEPT ![w] = Idle]
      /\ UNCHANGED <<site, author, drawn, watermark, badge, down>>
  BY <1>0, <1>1 DEF Answer, RequestOK
<1>3. /\ req' \in [Worker -> Work] /\ \A v \in Worker \ {w} : req'[v] = req[v]
      /\ req'[w].pc = "idle" /\ req'[w].count = 0
  BY <1>2, Ended DEF IInv
<1> DEFINE old == page[u].shown
           new == page'[u].shown
<1>4. /\ page' \in [Person -> Page] /\ up' \in [Person -> Seq(Id)]
      /\ \A v \in Person : /\ v # u => page'[v] = page[v] /\ up'[v] = up[v]
                           /\ page'[v].open = page[v].open /\ page'[v].link = page[v].link
                           /\ page'[v].more = page[v].more /\ page'[v].before = page[v].before
  BY <1>0, <1>2, Shows DEF IInv
<1>5. /\ Range(old) \subseteq Range(new) /\ Range(new) \subseteq Range(old) \cup {d}
      /\ old # <<>> => new # <<>> /\ Head(new) = Head(old)
      /\ IsInjective(old) => IsInjective(new)
      /\ new # old => page[u].open /\ Last(new) = d
      /\ Range(up[u]) \subseteq Range(up'[u]) /\ Range(up'[u]) \subseteq Range(up[u]) \cup {d}
      /\ page[u].link = "closed" => up'[u] = up[u]
  <2>1. /\ Range(old) \subseteq Range(new) /\ Range(new) \subseteq Range(old) \cup {d}
        /\ old # <<>> => new # <<>> /\ Head(new) = Head(old)
        /\ IsInjective(old) => IsInjective(new)
    BY <1>0, <1>2, Shows DEF IInv
  <2>2. new # old => page[u].open /\ Last(new) = d
    BY <1>0, <1>2, Shows DEF IInv
  <2>3. /\ Range(up[u]) \subseteq Range(up'[u]) /\ Range(up'[u]) \subseteq Range(up[u]) \cup {d}
        /\ page[u].link = "closed" => up'[u] = up[u]
    BY <1>0, <1>2, Shows DEF IInv
  <2> QED BY <2>1, <2>2, <2>3
<1> HIDE DEF old, new
<1>6. Grows /\ Stored' = Stored
  <2>1. UNCHANGED <<site, author, drawn, watermark>>
    BY <1>2
  <2> QED BY <1>0, <2>1, Still
<1>7. TypeOK'
  <2>1. \A v \in Person :
          /\ page'[v].link \in {"closed", "open", "deaf", "joined"}
          /\ Range(page'[v].shown) \cup Range(up'[v]) \subseteq Stored
    <3>1. \A v \in Person : v # u => page'[v] = page[v] /\ up'[v] = up[v]
      BY <1>4
    <3>2. Range(new) \cup Range(up'[u]) \subseteq Stored
      BY <1>0, <1>5 DEF Typed, old
    <3> QED BY <1>0, <1>4, <3>1, <3>2 DEF Typed, Page, new
  <2> QED BY <1>2, <1>6, <2>1 DEF IInv, TypeOK
<1>8. Shape'
  BY <1>2, <1>3, <1>4, <1>6 DEF IInv, Shape
<1>9. Typed'
  BY <1>7, <1>8, IdsNext
<1>10. RequestOK(w)'
  BY <1>0, <1>2, <1>3 DEF RequestOK, Typed
<1>11. (\A v \in Worker : RequestOK(v))'
  BY <1>0, <1>3, <1>6, <1>9, <1>10, RequestsKept DEF IInv, RequestOK
<1>12. (\A v \in Person : PageOK(v))'
  <2>1. ASSUME NEW v \in Person, v # u PROVE PageOK(v)'
    BY <1>0, <1>4, <1>6, <1>9, <2>1, PageKept DEF IInv, PageOK
  <2>2. PageOK(u)'
    <3>1. PageOK(u)
      BY DEF IInv
    <3>2. old = <<>> => Range(old) = {}
      BY NoneAndOne
    <3>3. page[u] \in Page
      BY <1>0 DEF Typed
    <3>4. ASSUME ~page[u].open PROVE new = old
      BY <1>5, <3>4
    <3>5. page[u].open \/ ~page[u].open
      OBVIOUS
    <3> QED BY <1>2, <1>4, <1>5, <1>6, <3>1, <3>2, <3>4, NoneAndOne DEF PageOK, old, new
  <2> QED BY <2>1, <2>2
<1>13. (site.serial => SerialOK)'
  <2> SUFFICES ASSUME site.serial PROVE SerialOK'
    BY <1>2
  <2>1. SerialOK /\ d = drawn /\ \A v \in Worker : req'[v].pc = "idle"
    BY <1>1, <1>2, <1>3, Alone DEF IInv, SerialOK
  <2>2. \A m \in Stored : m <= d
    BY <1>0, <2>1 DEF Typed
  <2>3. ASSUME NEW m \in Range(new), author[m] # u, m > watermark[u]
        PROVE  m <= Last(new) /\ \A x \in Range(down[u]) : m <= x
    <3>1. m \in Range(old) /\ m \in Stored
      BY <1>0, <1>2, <1>5, <2>3 DEF Typed, old
    <3> QED BY <1>5, <2>1, <2>2, <2>3, <3>1 DEF SerialOK, old
  <2> QED BY <1>2, <1>4, <2>1, <2>3 DEF SerialOK, new
<1>14. (site.serial /\ ~site.faults => BadgeOK)'
  <2> SUFFICES ASSUME site.serial, ~site.faults PROVE BadgeOK'
    BY <1>2
  <2>1. \A v \in Worker : req[v].pc \notin {"tell", "count", "push"} /\ req'[v].pc # "push"
    BY <1>2, <1>3, Alone
  <2> QED BY <1>0, <1>2, <1>9, <2>1, BadgeKept, UnreadStill
<1>15. (site.serial \/ ~site.faults => ReadOK)'
  <2> SUFFICES ASSUME site.serial \/ ~site.faults, NEW v \in Person,
                      NEW m \in Range(page'[v].shown), author[m] # v
               PROVE  Acknowledged(v, m)'
    BY <1>2 DEF ReadOK
  <2>1. m \in Range(page[v].shown)
    BY <1>2, <1>4, <1>5 DEF old, new
  <2>2. Acknowledged(v, m)
    BY <2>1 DEF IInv, ReadOK
  <2>3. Range(up[v]) \subseteq Range(up'[v])
    BY <1>4, <1>5
  <2> QED BY <1>2, <1>3, <1>4, <2>2, <2>3 DEF Acknowledged
<1> QED BY <1>7, <1>8, <1>11, <1>12, <1>13, <1>14, <1>15 DEF IInv

LEMMA StutterStep == ASSUME IInv, UNCHANGED vars PROVE IInv'
<1>1. /\ TypeOK' /\ Shape' /\ Stored' = Stored
      /\ \A u \in Person : Unread(u)' = Unread(u) /\ Corrected(u)' = Corrected(u)
      /\ \A w \in Worker : Unread(Counted(w))' = Unread(Counted(w))
  BY DEF vars, IInv, TypeOK, Shape, Stored, Unread, Corrected, Counted
<1>2. (\A w \in Worker : RequestOK(w))' /\ (\A u \in Person : PageOK(u))'
  BY <1>1 DEF vars, IInv, RequestOK, PageOK
<1>3. (site.serial => SerialOK)' /\ (site.serial /\ ~site.faults => BadgeOK)'
  BY <1>1 DEF vars, IInv, SerialOK, BadgeOK
<1>4. (site.serial \/ ~site.faults => ReadOK)'
  BY <1>1 DEF vars, IInv, ReadOK, Acknowledged
<1> QED BY <1>1, <1>2, <1>3, <1>4 DEF IInv

-----------------------------------------------------------------------------
LEMMA NextIInv == IInv /\ [Next]_vars => IInv'
<1> SUFFICES ASSUME IInv, [Next]_vars PROVE IInv'
  OBVIOUS
<1>1. ASSUME NEW w \in Worker, Step(w) \/ RollBack(w) PROVE IInv'
  BY <1>1, MarkStep, AdvanceStep, RenderStep, CommitStep, TellStep, CountStep, PushStep, AnswerStep,
     RollBackStep DEF Step
<1>2. ASSUME NEW w \in Worker, NEW u \in Person, Load(w, u) \/ Hear(w, u) \/ Send(w, u)
      PROVE  IInv'
  BY <1>2, LoadStep, HearStep, SendStep
<1>3. ASSUME NEW u \in Person,
             Connect(u) \/ Join(u) \/ Disconnect(u) \/ Receive(u) \/ LoadOlder(u)
      PROVE  IInv'
  BY <1>3, ConnectStep, JoinStep, DisconnectStep, ReceiveStep, LoadOlderStep
<1>4. CASE UNCHANGED vars
  BY <1>4, StutterStep
<1> QED BY <1>1, <1>2, <1>3, <1>4 DEF Next

\* IInv holds in every state of every behaviour.
THEOREM Invariance == Spec => []IInv
<1> QED BY InitIInv, NextIInv, PTL DEF Spec

\* TypeOK of ChatProperties: in particular, no page, frame or acknowledgement carries a message
\* that is not committed.
THEOREM TypeCorrect == Spec => []TypeOK
<1>1. IInv => TypeOK
  BY DEF IInv
<1> QED BY <1>1, Invariance, PTL

\* No message is twice on a page, whatever order the answer, the socket and history come in.
THEOREM NoneShownTwice == Spec => []ShownOnce
<1>1. IInv => ShownOnce
  <2> SUFFICES ASSUME IInv, NEW u \in Person PROVE IsInjective(page[u].shown)
    BY DEF ShownOnce
  <2>1. PageOK(u) /\ page[u] \in Page
    BY DEF IInv, Shape
  <2> QED BY <2>1, NoneAndOne DEF PageOK, Page
<1> QED BY <1>1, Invariance, PTL

\* A page that says there is no more has every message there was when it was served.
THEOREM NothingOlderIsMissed == Spec => []HistoryIsComplete
<1>1. IInv => HistoryIsComplete
  BY DEF IInv, PageOK, HistoryIsComplete
<1> QED BY <1>1, Invariance, PTL

\* With handlers one at a time and nothing lost, no top bar shows less than is unread.
THEOREM BadgeIsEnough == Spec => []BadgeHidesNothing
<1>1. IInv => BadgeHidesNothing
  BY DEF IInv, BadgeOK, BadgeHidesNothing, Corrected
<1> QED BY <1>1, Invariance, PTL

\* When nothing is under way, what a connected page shows of the other's messages is read.
THEOREM ShownMeansRead == Spec => []ShownIsRead
<1>1. IInv => ShownIsRead
  <2> SUFFICES ASSUME IInv, site.serial \/ ~site.faults, \A w \in Worker : req[w].pc = "idle",
                      NEW u \in Person, page[u].link = "joined", up[u] = <<>>,
                      NEW m \in Range(page[u].shown), author[m] # u
               PROVE  m <= watermark[u]
    BY DEF ShownIsRead
  <2>1. Acknowledged(u, m)
    BY DEF IInv, ReadOK
  <2> QED BY <2>1, NoneAndOne DEF Acknowledged
<1> QED BY <1>1, Invariance, PTL

\* The steps that write messages or watermarks.
LEMMA Writers ==
  ASSUME Next
  PROVE  \/ UNCHANGED <<author, watermark>>
         \/ \E w \in Worker : Advance(w)
         \/ \E w \in Worker : Commit(w)
<1>1. ASSUME NEW w \in Worker, Step(w) \/ RollBack(w), ~Advance(w), ~Commit(w)
      PROVE  UNCHANGED <<author, watermark>>
  BY <1>1 DEF Step, RollBack, Mark, Render, Tell, Count, Push, Answer
<1>2. ASSUME NEW w \in Worker, NEW u \in Person, Load(w, u) \/ Hear(w, u) \/ Send(w, u)
      PROVE  UNCHANGED <<author, watermark>>
  BY <1>2 DEF Load, Hear, Send
<1>3. ASSUME NEW u \in Person,
             Connect(u) \/ Join(u) \/ Disconnect(u) \/ Receive(u) \/ LoadOlder(u)
      PROVE  UNCHANGED <<author, watermark>>
  BY <1>3 DEF Connect, Join, Disconnect, Receive, LoadOlder
<1> QED BY <1>1, <1>2, <1>3 DEF Next

\* No receipt and no own message brings a watermark back, however they overlap.
THEOREM NeverBack == Spec => WatermarkNeverBack
<1>1. IInv /\ [Next]_vars => [\A u \in Person : watermark'[u] >= watermark[u]]_watermark
  <2> SUFFICES ASSUME IInv, Next, NEW u \in Person PROVE watermark'[u] >= watermark[u]
    BY DEF vars
  <2>1. Typed
    BY Ids DEF IInv
  <2>2. watermark[u] \in Nat /\ watermark \in [Person -> Nat]
    BY <2>1 DEF Typed, IInv, Shape
  <2>3. ASSUME NEW w \in Worker, Advance(w) \/ Commit(w) PROVE watermark'[u] >= watermark[u]
    <3>1. req[w].id \in Nat
      BY <2>1 DEF Typed
    <3>2. watermark' = [watermark EXCEPT ![req[w].by] = Greatest(@, req[w].id)]
      BY <2>3 DEF Advance, Commit, Sender
    <3> QED BY <2>2, <3>1, <3>2 DEF Greatest
  <2> QED BY <2>2, <2>3, Writers
<1> QED BY <1>1, Invariance, PTL DEF Spec, WatermarkNeverBack

\* With handlers one at a time, a message is unread by its recipient when it becomes visible.
THEOREM VisibleMeansUnread == Spec => ArrivesUnread
<1>1. IInv /\ [Next]_vars =>
        [site.serial => \A m \in Stored' \ Stored : m > watermark'[Other(author'[m])]]_author
  <2> SUFFICES ASSUME IInv, Next, site.serial, NEW m \in Stored' \ Stored
               PROVE  m > watermark'[Other(author'[m])]
    BY DEF vars
  <2>1. PICK w \in Worker : Commit(w)
    <3>1. author' # author
      BY DEF Stored
    <3>2. \A w \in Worker : Advance(w) => author' = author
      BY DEF Advance
    <3> QED BY <3>1, <3>2, Writers
  <2>2. Typed /\ RequestOK(w)
    BY Ids DEF IInv
  <2>3. PICK u \in Person, d \in Id : u = req[w].by /\ d = req[w].id
    BY <2>1, <2>2 DEF RequestOK, Commit, Typed, Id
  <2>4. /\ author' = [author EXCEPT ![d] = u] /\ author \in [Id -> Person \cup {NoOne}]
        /\ watermark' = [watermark EXCEPT ![u] = Greatest(@, d)] /\ watermark \in [Person -> Nat]
    BY <2>1, <2>3 DEF Commit, Sender, IInv, TypeOK, Shape
  <2>5. m = d /\ author'[m] = u
    BY <2>3, <2>4 DEF Stored
  <2>6. Other(u) \in Person /\ Other(u) # u
    BY TwoPersons
  <2>7. watermark[Other(u)] < d
    <3>1. req[w].pc = "commit" /\ req[w].kind = "send"
      BY <2>1, <2>2 DEF Commit, RequestOK
    <3>2. SerialOK
      BY DEF IInv
    <3> QED BY <2>3, <2>6, <3>1, <3>2 DEF SerialOK
  <2>8. watermark'[Other(u)] = watermark[Other(u)] /\ watermark[Other(u)] \in Nat /\ d \in Int
    BY <2>2, <2>4, <2>6 DEF Typed
  <2> QED BY <2>5, <2>7, <2>8
<1> QED BY <1>1, Invariance, PTL DEF Spec, ArrivesUnread

=============================================================================
