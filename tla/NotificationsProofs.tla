-------------------------- MODULE NotificationsProofs --------------------------
(***************************************************************************)
(* The properties of Notifications, proved for any number of bookings,     *)
(* tabs, workers and notifications and dropdowns of any length.  All       *)
(* follow from IInv of NotificationsProperties, which each action          *)
(* preserves; first, what a dropdown lists is worked out.                  *)
(***************************************************************************)
EXTENDS NotificationsProperties, FiniteSetTheorems, SequenceTheorems, TLAPS

\* The typing assumptions on the constants, as facts the proofs cite.
LEMMA Constants ==
  /\ Cap \in Nat /\ Cap > 0 /\ MaxNotes \in Nat
  /\ NoBooking \notin Booking /\ NoTab \notin Tab /\ IsFiniteSet(Booking)
  /\ \A s \in Site : /\ s.serial \in BOOLEAN /\ s.faults \in BOOLEAN /\ s.notes \in 0 .. MaxNotes
                     /\ s.bookings \in SUBSET Booking /\ s.tabs \in SUBSET Tab
BY NobodyAssumption, BookingAssumption, BoundAssumption

LEMMA FiniteIds ==
  ASSUME NEW S \in SUBSET Id
  PROVE  IsFiniteSet(S) /\ Cardinality(S) \in Nat /\ \A m \in S : m \in Int
<1>1. IsFiniteSet(Id)
  BY Constants, FS_Interval DEF Id
<1>2. IsFiniteSet(S)
  BY <1>1, FS_Subset
<1> QED BY <1>2, FS_CardinalityType DEF Id

-----------------------------------------------------------------------------
(* What the dropdown lists.                                                *)

\* How many of S are newer than n.
Newer(S, n) == Cardinality({m \in S : m > n})

LEMMA NewerBounds ==
  ASSUME NEW S \in SUBSET Id, NEW n \in S
  PROVE  Newer(S, n) \in Nat /\ Newer(S, n) < Cardinality(S)
<1> DEFINE After == {m \in S : m > n}
<1>1. IsFiniteSet(S) /\ Cardinality(S) \in Nat /\ \A o \in S : o \in Int
  BY FiniteIds
<1>2. IsFiniteSet(S \ {n}) /\ Cardinality(S \ {n}) = Cardinality(S) - 1
  BY <1>1, FS_RemoveElement
<1>3. After \subseteq S \ {n}
  BY <1>1
<1>4. Cardinality(After) \in Nat /\ Cardinality(After) <= Cardinality(S \ {n})
  BY <1>2, <1>3, FS_Subset, FS_CardinalityType
<1>5. Newer(S, n) = Cardinality(After)
  BY DEF Newer
<1> HIDE DEF After
<1> QED BY <1>1, <1>2, <1>4, <1>5

LEMMA NewerFalls ==
  ASSUME NEW S \in SUBSET Id, NEW m \in S, NEW n \in S, m < n
  PROVE  Newer(S, n) < Newer(S, m)
<1> DEFINE After(k) == {o \in S : o > k}
<1>1. IsFiniteSet(S) /\ \A o \in S : o \in Int
  BY FiniteIds
<1>2. IsFiniteSet(After(m)) /\ n \in After(m)
  BY <1>1, FS_Subset
<1>3. IsFiniteSet(After(m) \ {n}) /\ Cardinality(After(m) \ {n}) = Cardinality(After(m)) - 1
  BY <1>2, FS_RemoveElement
<1>4. After(n) \in SUBSET (After(m) \ {n})
  BY <1>1
<1>5. Cardinality(After(n)) <= Cardinality(After(m)) - 1
  BY <1>3, <1>4, FS_Subset
<1>6. Cardinality(After(m)) \in Nat /\ Cardinality(After(n)) \in Nat
  BY <1>1, FS_Subset, FS_CardinalityType
<1>7. Newer(S, m) = Cardinality(After(m)) /\ Newer(S, n) = Cardinality(After(n))
  BY DEF Newer
<1> HIDE DEF After
<1> QED BY <1>5, <1>6, <1>7

\* Every place in the order is some notification's.
LEMMA PlaceTaken ==
  ASSUME NEW S \in SUBSET Id, NEW i \in 1 .. Cardinality(S)
  PROVE  \E n \in S : Newer(S, n) = i - 1
<1> DEFINE c == Cardinality(S)
           f == [n \in S |-> Newer(S, n) + 1]
<1>1. IsFiniteSet(S) /\ c \in Nat /\ \A o \in S : o \in Int
  BY FiniteIds
<1>2. \A n \in S : Newer(S, n) \in Nat /\ Newer(S, n) < c
  BY NewerBounds
<1>3. f \in [S -> 1 .. c]
  BY <1>1, <1>2
<1>4. ASSUME NEW m \in S, NEW n \in S, f[m] = f[n] PROVE m = n
  BY <1>1, <1>2, <1>4, NewerFalls
<1>5. f \in Injection(S, 1 .. c)
  BY <1>3, <1>4 DEF Injection, IsInjective
<1>6. IsFiniteSet(1 .. c) /\ Cardinality(1 .. c) = c
  BY <1>1, FS_Interval
<1>7. f \in Surjection(S, 1 .. c)
  BY <1>5, <1>6, FS_Injection
<1>8. \E n \in S : f[n] = i
  BY <1>7 DEF Surjection
<1> QED BY <1>2, <1>8

\* A page that is served lists stored notifications, each once, and no more than Cap.
LEMMA Listed ==
  ASSUME NEW S \in SUBSET Id
  PROVE  /\ NewestFirst(S) \in Seq(Id) /\ Len(NewestFirst(S)) <= Cap
         /\ Range(NewestFirst(S)) \subseteq S /\ IsInjective(NewestFirst(S))
<1> DEFINE c == Cardinality(S)
           f == NewestFirst(S)
<1>0. PICK k : k = IF c < Cap THEN c ELSE Cap
  OBVIOUS
<1>1. c \in Nat /\ k \in Nat /\ k <= Cap /\ k <= c /\ \A o \in S : o \in Int
  BY <1>0, FiniteIds, Constants
<1>2. ASSUME NEW i \in 1 .. k PROVE f[i] \in S /\ Newer(S, f[i]) = i - 1
  <2>1. f[i] = CHOOSE n \in S : Newer(S, n) = i - 1
    BY <1>0, <1>2 DEF NewestFirst, Newer
  <2>2. i \in 1 .. c
    BY <1>1
  <2> QED BY <2>1, <2>2, PlaceTaken
<1>3. f \in [1 .. k -> S]
  BY <1>0, <1>2 DEF NewestFirst
<1>4. f \in Seq(S) /\ Len(f) = k /\ f \in Seq(Id)
  BY <1>1, <1>3
<1>5. Range(f) \subseteq S
  BY <1>3 DEF Range
<1>6. IsInjective(f)
  BY <1>1, <1>2, <1>3 DEF IsInjective
<1> QED BY <1>1, <1>4, <1>5, <1>6

\* An item that arrives is put first, once, and pushes out no more than it must.
LEMMA Prepended ==
  ASSUME NEW s \in Seq(Id), NEW n \in Id, Len(s) <= Cap
  PROVE  /\ Prepend(s, n) \in Seq(Id) /\ Len(Prepend(s, n)) <= Cap
         /\ Range(Prepend(s, n)) \subseteq Range(s) \cup {n}
         /\ IsInjective(s) => IsInjective(Prepend(s, n))
<1> DEFINE full == <<n>> \o s
           r == Prepend(s, n)
<1>1. CASE n \in Range(s)
  BY <1>1 DEF Prepend
<1>2. CASE n \notin Range(s)
  <2>0. PICK k : k = IF Len(s) < Cap THEN Len(s) + 1 ELSE Cap
    OBVIOUS
  <2>1. Cap \in Nat /\ Cap > 0 /\ Len(s) \in Nat
    BY Constants
  <2>2. k \in Nat /\ k >= 1 /\ k <= Len(s) + 1 /\ k <= Cap
    BY <2>0, <2>1
  <2>3. /\ full \in Seq(Id) /\ Len(full) = Len(s) + 1 /\ full[1] = n
        /\ \A i \in 2 .. Len(s) + 1 : full[i] = s[i - 1]
    OBVIOUS
  <2>4. r = SubSeq(full, 1, k)
    BY <1>2, <2>0 DEF Prepend
  <2>5. r \in Seq(Id) /\ Len(r) = k /\ \A i \in 1 .. k : r[i] = full[i]
    <3> HIDE DEF full, r
    <3> QED BY <2>1, <2>2, <2>3, <2>4
  <2>6. DOMAIN r = 1 .. k /\ r[1] = n
    BY <2>2, <2>3, <2>5
  <2>7. ASSUME NEW i \in 1 .. k, i # 1
        PROVE  i - 1 \in 1 .. Len(s) /\ r[i] = s[i - 1] /\ r[i] \in Range(s)
    <3>1. i \in 2 .. Len(s) + 1 /\ i - 1 \in 1 .. Len(s)
      BY <2>1, <2>2, <2>7
    <3>2. r[i] = s[i - 1]
      <4> HIDE DEF full, r
      <4> QED BY <2>3, <2>5, <3>1
    <3> QED BY <3>1, <3>2 DEF Range
  <2>8. Range(r) \subseteq Range(s) \cup {n}
    <3> HIDE DEF r
    <3> QED BY <2>6, <2>7 DEF Range
  <2>9. ASSUME IsInjective(s) PROVE IsInjective(r)
    <3> HIDE DEF r, full
    <3>1. ASSUME NEW i \in 1 .. k, NEW j \in 1 .. k, r[i] = r[j] PROVE i = j
      <4>1. CASE i = 1 \/ j = 1
        BY <1>2, <2>6, <2>7, <3>1, <4>1
      <4>2. CASE i # 1 /\ j # 1
        <5>1. i - 1 \in DOMAIN s /\ j - 1 \in DOMAIN s /\ s[i - 1] = s[j - 1]
          BY <2>7, <3>1, <4>2
        <5>2. i - 1 = j - 1
          BY <2>9, <5>1 DEF IsInjective
        <5> QED BY <5>2
      <4> QED BY <4>1, <4>2
    <3> QED BY <2>6, <3>1 DEF IsInjective
  <2> QED BY <2>2, <2>5, <2>8, <2>9
<1> QED BY <1>1, <1>2

-----------------------------------------------------------------------------
(* Frames on their way.                                                    *)

LEMMA Sent ==
  ASSUME NEW s \in Seq(Frame), NEW f \in Frame
  PROVE  /\ Append(s, f) \in Seq(Frame) /\ Append(s, f) # <<>>
         /\ Head(Append(s, f)) = IF s = <<>> THEN f ELSE Head(s)
         /\ \A i \in DOMAIN Append(s, f) :
              \/ i \in DOMAIN s /\ Append(s, f)[i] = s[i]
              \/ i = Len(s) + 1 /\ Append(s, f)[i] = f
<1> DEFINE t == Append(s, f)
<1>1. /\ t \in Seq(Frame) /\ Len(t) = Len(s) + 1 /\ t[Len(s) + 1] = f
      /\ \A i \in 1 .. Len(s) : t[i] = s[i]
      /\ Len(s) \in Nat /\ DOMAIN s = 1 .. Len(s) /\ DOMAIN t = 1 .. Len(s) + 1
      /\ s # <<>> => Len(s) > 0 /\ Head(s) = s[1]
  OBVIOUS
<1>2. t # <<>> /\ Head(t) = t[1]
  BY <1>1
<1>3. s = <<>> => Len(s) = 0
  OBVIOUS
<1>4. Head(t) = IF s = <<>> THEN f ELSE Head(s)
  <2> HIDE DEF t
  <2> QED BY <1>1, <1>2, <1>3
<1>5. \A i \in DOMAIN t : \/ i \in DOMAIN s /\ t[i] = s[i]
                          \/ i = Len(s) + 1 /\ t[i] = f
  <2> HIDE DEF t
  <2> QED BY <1>1
<1> QED BY <1>1, <1>2, <1>4, <1>5

LEMMA Taken ==
  ASSUME NEW s \in Seq(Frame), s # <<>>
  PROVE  /\ Head(s) \in Frame /\ Head(s) = s[1] /\ 1 \in DOMAIN s
         /\ Tail(s) \in Seq(Frame)
         /\ Tail(s) # <<>> => 2 \in DOMAIN s /\ Head(Tail(s)) = s[2]
         /\ \A i \in DOMAIN Tail(s) : i + 1 \in DOMAIN s /\ i + 1 # 1 /\ Tail(s)[i] = s[i + 1]
<1>1. /\ Len(s) \in Nat /\ Len(s) > 0 /\ Head(s) = s[1] /\ Head(s) \in Frame
      /\ DOMAIN s = 1 .. Len(s) /\ DOMAIN Tail(s) = 1 .. Len(s) - 1
      /\ Tail(s) \in Seq(Frame) /\ Len(Tail(s)) = Len(s) - 1
      /\ \A i \in 1 .. Len(s) - 1 : Tail(s)[i] = s[i + 1]
  OBVIOUS
<1>2. ASSUME Tail(s) # <<>> PROVE 2 \in DOMAIN s /\ Head(Tail(s)) = s[2]
  <2>1. PICK t \in Seq(Frame) : t = Tail(s)
    BY <1>1
  <2>2. t # <<>> /\ Len(t) > 0 /\ Head(t) = t[1]
    BY <1>2, <2>1
  <2>3. Len(s) - 1 >= 1
    BY <1>1, <2>1, <2>2
  <2> QED BY <1>1, <2>1, <2>2, <2>3
<1> QED BY <1>1, <1>2

-----------------------------------------------------------------------------
(* The invariant in parts, by the variables they are about.                *)

World ==
  /\ site \in Site /\ booking \in [Booking -> State]
  /\ note \in [Id -> [state : {"none", "unread", "read"}, kind : Kind,
                      of : Booking \cup {NoBooking}]]
  /\ drawn \in 0 .. MaxNotes /\ \A n \in Stored : n <= drawn
  /\ AnsweredIsRead

TabOK(t) ==
  /\ Range(tab[t].items) \subseteq Stored /\ Len(tab[t].items) <= Cap
  /\ tab[t].fresh \subseteq Range(tab[t].items)
  /\ tab[t].badge \in 0 .. drawn
  /\ IsInjective(tab[t].items)
  /\ \A i \in DOMAIN down[t] :
       /\ {down[t][i].id} \cup down[t][i].ids \subseteq Stored \cup {0}
       /\ down[t][i].count <= drawn /\ \A n \in down[t][i].ids : IsRead(n)

PageTypes == tab \in [Tab -> Page] /\ down \in [Tab -> Seq(Frame)] /\ missed \in [Tab -> BOOLEAN]

Pages == PageTypes /\ \A t \in Tab : TabOK(t)

Jobs == req \in [Worker -> Work] /\ \A w \in Worker : RequestOK(w)

Dots == ~site.faults => DimmedOK

Safe == World /\ Pages /\ Jobs /\ Dots

Counts == site.serial => SerialOK

LEMMA Parts == IInv <=> Safe /\ Counts
<1>1. ASSUME PageTypes, NEW t \in Tab PROVE tab[t].link \in {"closed", "open", "deaf", "joined"}
  BY <1>1 DEF PageTypes, Page
<1>2. Safe => TypeOK
  BY <1>1 DEF Safe, World, Pages, TabOK, TypeOK
<1>3. Safe => Shape /\ ListHasNoTwins /\ \A t \in Tab : FramesOK(t)
  BY DEF Safe, World, Pages, PageTypes, TabOK, Jobs, Shape, ListHasNoTwins, FramesOK
<1>4. TypeOK /\ Shape /\ AnsweredIsRead => World
  BY DEF TypeOK, Shape, World
<1>5. TypeOK /\ Shape /\ ListHasNoTwins /\ (\A t \in Tab : FramesOK(t)) => Pages
  BY DEF TypeOK, Shape, Pages, PageTypes, TabOK, ListHasNoTwins, FramesOK
<1>6. Safe => AnsweredIsRead /\ (\A w \in Worker : RequestOK(w)) /\ Dots
  BY DEF Safe, World, Jobs
<1>7. Shape /\ (\A w \in Worker : RequestOK(w)) => Jobs
  BY DEF Shape, Jobs
<1> QED BY <1>2, <1>3, <1>4, <1>5, <1>6, <1>7 DEF IInv, Safe, Dots, Counts

LEMMA PartsNext == IInv' <=> Safe' /\ Counts'
BY Parts, PTL

\* The types that the steps use.
Typed ==
  /\ site \in Site /\ drawn \in Nat /\ drawn <= MaxNotes /\ MaxNotes \in Nat
  /\ 0 \notin Id /\ Unread \subseteq Stored /\ Stored \in SUBSET Id
  /\ \A n \in Id : n \in Int /\ n > 0 /\ n <= MaxNotes
  /\ \A n \in Stored : n <= drawn
  /\ \A n \in Id :
       /\ note[n].state \in {"none", "unread", "read"}
       /\ note[n].kind \in Kind /\ note[n].of \in Booking \cup {NoBooking}
  /\ \A b \in Booking : booking[b] \in State
  /\ \A t \in Tab :
       /\ tab[t] \in Page /\ down[t] \in Seq(Frame) /\ missed[t] \in BOOLEAN
       /\ tab[t].items \in Seq(Id) /\ tab[t].fresh \in SUBSET Id
       /\ tab[t].badge \in Nat /\ tab[t].requests \in Nat
       /\ \A i \in DOMAIN down[t] :
            /\ down[t][i] \in Frame /\ down[t][i].id \in Nat
            /\ down[t][i].ids \in SUBSET Id /\ down[t][i].count \in Nat
  /\ \A w \in Worker :
       /\ req[w] \in Work /\ req[w].of \in Booking \cup {NoBooking} /\ req[w].state \in State
       /\ req[w].by \in Tab \cup {NoTab}
       /\ req[w].id \in Nat /\ req[w].id <= MaxNotes /\ req[w].ids \in SUBSET Id
       /\ req[w].items \in Seq(Nat) /\ req[w].count \in Nat /\ req[w].requests \in Nat

LEMMA TypesOf == World /\ PageTypes /\ req \in [Worker -> Work] => Typed
<1> SUFFICES ASSUME World, PageTypes, req \in [Worker -> Work] PROVE Typed
  OBVIOUS
<1>1. MaxNotes \in Nat
  BY Constants
<1>2. /\ site \in Site /\ drawn \in Nat /\ drawn <= MaxNotes
      /\ 0 \notin Id /\ \A n \in Id : n \in Int /\ n > 0 /\ n <= MaxNotes
  BY <1>1 DEF World, Id
<1>3. Unread \subseteq Stored /\ Stored \in SUBSET Id /\ \A n \in Stored : n <= drawn
  BY DEF World, Stored, Unread
<1>4. \A b \in Booking : booking[b] \in State
  BY DEF World
<1>5. ASSUME NEW t \in Tab
      PROVE  /\ tab[t] \in Page /\ down[t] \in Seq(Frame) /\ missed[t] \in BOOLEAN
             /\ tab[t].items \in Seq(Id) /\ tab[t].fresh \in SUBSET Id
             /\ tab[t].badge \in Nat /\ tab[t].requests \in Nat
  BY DEF PageTypes, Page
<1>6. ASSUME NEW t \in Tab, NEW i \in DOMAIN down[t]
      PROVE  /\ down[t][i] \in Frame /\ down[t][i].id \in Nat
             /\ down[t][i].ids \in SUBSET Id /\ down[t][i].count \in Nat
  <2>1. down[t][i] \in Frame
    BY <1>5
  <2> QED BY <1>1, <2>1 DEF Frame
<1>7. ASSUME NEW w \in Worker
      PROVE  /\ req[w] \in Work /\ req[w].of \in Booking \cup {NoBooking} /\ req[w].state \in State
             /\ req[w].by \in Tab \cup {NoTab}
             /\ req[w].id \in Nat /\ req[w].id <= MaxNotes /\ req[w].ids \in SUBSET Id
             /\ req[w].items \in Seq(Nat) /\ req[w].count \in Nat /\ req[w].requests \in Nat
  BY <1>1 DEF Work
<1>8. ASSUME NEW n \in Id
      PROVE  /\ note[n].state \in {"none", "unread", "read"}
             /\ note[n].kind \in Kind /\ note[n].of \in Booking \cup {NoBooking}
  BY DEF World
<1> QED BY <1>1, <1>2, <1>3, <1>4, <1>5, <1>6, <1>7, <1>8 DEF Typed

LEMMA SafeTypes == Safe => Typed
BY TypesOf DEF Safe, Pages, Jobs

LEMMA TypesNext == World' /\ PageTypes' /\ (req \in [Worker -> Work])' => Typed'
BY TypesOf, PTL

LEMMA UnreadBound ==
  ASSUME Typed, NEW S \in SUBSET Stored
  PROVE  Cardinality(S) \in Nat /\ Cardinality(S) <= drawn /\ IsFiniteSet(S)
<1>1. S \in SUBSET (1 .. drawn) /\ drawn \in Nat
  BY DEF Typed
<1>2. IsFiniteSet(1 .. drawn) /\ Cardinality(1 .. drawn) = drawn
  BY <1>1, FS_Interval
<1>3. IsFiniteSet(S) /\ Cardinality(S) <= drawn
  BY <1>1, <1>2, FS_Subset
<1> QED BY <1>3, FS_CardinalityType

LEMMA RequestsType == Requests \in Nat
<1>1. IsFiniteSet({b \in Booking : Awaiting(b)})
  BY Constants, FS_Subset
<1> QED BY <1>1, FS_CardinalityType DEF Requests

-----------------------------------------------------------------------------
(* What holds of a worker or a page that a step leaves alone.              *)

\* Nothing that was stored or read is taken back.
Grows ==
  /\ site' = site /\ drawn' >= drawn /\ Stored \subseteq Stored'
  /\ \A n \in Stored : note'[n].kind = note[n].kind /\ note'[n].of = note[n].of
  /\ \A n \in Stored : IsRead(n) => (IsRead(n))'

LEMMA Still ==
  ASSUME Typed, UNCHANGED <<site, note>>, drawn' \in Nat, drawn' >= drawn
  PROVE  Grows /\ Stored' = Stored /\ Unread' = Unread
BY DEF Typed, Grows, Stored, Unread, IsRead

LEMMA WorldKept == ASSUME World, UNCHANGED <<site, booking, note, drawn>> PROVE World'
BY DEF World, AnsweredIsRead, Stored, Unread

LEMMA TabKept ==
  ASSUME Typed, Grows, drawn' \in Nat, NEW t \in Tab, TabOK(t), tab'[t] = tab[t], down'[t] = down[t]
  PROVE  (TabOK(t))'
<1>1. /\ Range(tab'[t].items) \subseteq Stored' /\ Len(tab'[t].items) <= Cap
      /\ tab'[t].fresh \subseteq Range(tab'[t].items) /\ IsInjective(tab'[t].items)
  BY DEF TabOK, Grows
<1>2. tab'[t].badge \in 0 .. drawn'
  BY DEF TabOK, Grows, Typed
<1>3. ASSUME NEW i \in DOMAIN down[t]
      PROVE  /\ {down[t][i].id} \cup down[t][i].ids \subseteq Stored' \cup {0}
             /\ down[t][i].count <= drawn' /\ \A n \in down[t][i].ids : (IsRead(n))'
  <2>1. {down[t][i].id} \cup down[t][i].ids \subseteq Stored \cup {0} /\ 0 \notin down[t][i].ids
    BY DEF TabOK, Typed
  <2>2. down[t][i].count <= drawn /\ \A n \in down[t][i].ids : IsRead(n)
    BY DEF TabOK
  <2>3. down[t][i].count <= drawn'
    BY <2>2 DEF Grows, Typed
  <2> QED BY <2>1, <2>2, <2>3 DEF Grows
<1> QED BY <1>1, <1>2, <1>3 DEF TabOK

LEMMA PagesKept ==
  ASSUME Typed, Grows, drawn' \in Nat, Pages, UNCHANGED <<tab, down>>, missed' \in [Tab -> BOOLEAN]
  PROVE  Pages'
<1>1. \A t \in Tab : (TabOK(t))'
  BY TabKept DEF Pages
<1> QED BY <1>1 DEF Pages, PageTypes

LEMMA RequestKept ==
  ASSUME Typed, Grows, drawn' \in Nat, NEW w \in Worker, RequestOK(w), req'[w] = req[w],
         req[w].pc = "commit" => (CommitOK(w))'
  PROVE  (RequestOK(w))'
<1>1. req[w].ids \subseteq Stored' /\ req[w].count <= drawn'
  BY DEF RequestOK, Grows, Typed
<1>2. req[w].pc \in {"count", "push"} =>
        req[w].kind \in Kind /\ req[w].id \in Stored' /\ note'[req[w].id].kind = req[w].kind
  BY DEF RequestOK, Grows
<1>3. req[w].pc = "push" => Len(req[w].items) = 1 /\ Head(req[w].items) <= drawn'
  <2>1. ASSUME req[w].pc = "push" PROVE Len(req[w].items) = 1 /\ Head(req[w].items) <= drawn
    BY <2>1 DEF RequestOK
  <2>2. ASSUME req[w].pc = "push" PROVE Head(req[w].items) \in Nat
    BY <2>1, <2>2 DEF Typed
  <2> QED BY <2>1, <2>2 DEF Grows, Typed
<1>4. /\ req[w].pc \in {"count", "push", "tell", "answer"} => \A n \in req[w].ids : (IsRead(n))'
      /\ req[w].pc = "write" => (req[w].kind = "one" => req[w].id \in Stored')
      /\ req[w].pc = "render" =>
          /\ Range(req[w].items) \subseteq Stored'
          /\ \A n \in Range(req[w].items) \ req[w].ids : (IsRead(n))'
  BY DEF RequestOK, Grows
<1> QED BY <1>1, <1>2, <1>3, <1>4 DEF RequestOK

\* A transaction is undisturbed by what happens to no booking and adds no transaction.
LEMMA CommitKept ==
  ASSUME Typed, NEW w \in Worker, CommitOK(w), req'[w] = req[w], UNCHANGED <<booking, note>>,
         drawn' \in Nat, drawn' >= drawn,
         \A v \in Worker \ {w} : req'[v].pc = "commit" => req'[v] = req[v]
  PROVE  (CommitOK(w))'
<1>1. Stored' = Stored /\ Unread' = Unread
  BY DEF Stored, Unread
<1> QED BY <1>1 DEF CommitOK, Typed

\* Only w's request goes on, and not into its transaction.
LEMMA JobsStep ==
  ASSUME Typed, Jobs, UNCHANGED <<site, booking, note, drawn>>, NEW w \in Worker,
         NEW r \in Work, req' = [req EXCEPT ![w] = r], r.pc # "commit", (RequestOK(w))'
  PROVE  Jobs'
<1>1. Grows /\ drawn' \in Nat
  BY Still DEF Typed
<1>2. req' \in [Worker -> Work] /\ req'[w] = r /\ \A v \in Worker \ {w} : req'[v] = req[v]
  BY DEF Jobs
<1>3. ASSUME NEW v \in Worker \ {w} PROVE (RequestOK(v))'
  <2>1. RequestOK(v) /\ req'[v] = req[v]
    BY <1>2 DEF Jobs
  <2>2. ASSUME req[v].pc = "commit" PROVE (CommitOK(v))'
    <3>1. CommitOK(v)
      BY <2>1, <2>2 DEF RequestOK
    <3>2. \A u \in Worker \ {v} : req'[u].pc = "commit" => req'[u] = req[u]
      BY <1>2
    <3>3. drawn' >= drawn
      BY DEF Typed
    <3> QED BY <1>1, <2>1, <3>1, <3>2, <3>3, CommitKept
  <2> QED BY <1>1, <2>1, <2>2, RequestKept
<1> QED BY <1>2, <1>3 DEF Jobs

LEMMA DotsKept ==
  ASSUME Typed, Grows, Pages, Dots,
         \A w \in Worker : req[w].pc = "write" => req'[w] = req[w],
         \A t \in Tab : \A n \in Range(tab'[t].items) \ tab'[t].fresh :
           n \in Range(tab[t].items) \ tab[t].fresh \/ (n \in Stored /\ IsRead(n))
  PROVE  Dots'
<1> SUFFICES ASSUME ~site.faults, NEW t \in Tab, NEW n \in Range(tab'[t].items) \ tab'[t].fresh
             PROVE  \/ (IsRead(n))'
                    \/ \E w \in Worker :
                         req'[w].pc = "write" /\ (req'[w].kind = "all" \/ req'[w].id = n)
  BY DEF Dots, DimmedOK, Grows
<1>1. \/ n \in Range(tab[t].items) \ tab[t].fresh /\ n \in Stored
      \/ (n \in Stored /\ IsRead(n))
  BY DEF Pages, TabOK
<1>2. CASE n \in Stored /\ IsRead(n)
  BY <1>2 DEF Grows
<1>3. CASE \E w \in Worker : req[w].pc = "write" /\ (req[w].kind = "all" \/ req[w].id = n)
  <2>1. PICK w \in Worker : req[w].pc = "write" /\ (req[w].kind = "all" \/ req[w].id = n)
    BY <1>3
  <2> QED BY <2>1
<1> QED BY <1>1, <1>2, <1>3 DEF Dots, DimmedOK

-----------------------------------------------------------------------------
(* The steps of a page, but for what it counts.                            *)

LEMMA InitSafe == Init => Safe
<1> SUFFICES ASSUME Init PROVE Safe
  OBVIOUS
<1>0. MaxNotes \in Nat
  BY Constants
<1>1. Stored = {} /\ Unread = {}
  BY DEF Init, Stored, Unread, NoNote
<1>2. World
  BY <1>0, <1>1 DEF Init, World, State, Kind, NoNote, Id, AnsweredIsRead
<1>3. Idle \in Work
  BY <1>0 DEF Idle, Work, Handled, State, Kind
<1>4. NoPage \in Page
  BY DEF NoPage, Page
<1>5. PageTypes
  BY <1>4 DEF Init, PageTypes
<1>6. \A t \in Tab : TabOK(t)
  BY <1>1, Constants DEF Init, NoPage, TabOK, Range, IsInjective
<1>7. \A w \in Worker : RequestOK(w)
  BY <1>1 DEF Init, RequestOK, Idle
<1>8. Dots
  BY <1>1, Constants DEF Init, Dots, DimmedOK, NoPage, Range, Idle
<1>9. req \in [Worker -> Work]
  BY <1>3 DEF Init
<1> QED BY <1>2, <1>5, <1>6, <1>7, <1>8, <1>9 DEF Safe, Pages, Jobs

\* A step of t's page alone.
LEMMA PageStep ==
  ASSUME Safe, UNCHANGED <<site, booking, note, drawn, req>>, NEW t \in Tab,
         NEW p \in Page, tab' = [tab EXCEPT ![t] = p], NEW f \in Seq(Frame),
         down' = [down EXCEPT ![t] = f], missed' \in [Tab -> BOOLEAN], (TabOK(t))',
         \A n \in Range(p.items) \ p.fresh :
           n \in Range(tab[t].items) \ tab[t].fresh \/ (n \in Stored /\ IsRead(n))
  PROVE  Safe'
<1>1. Typed /\ Pages /\ World /\ Jobs /\ Dots
  BY SafeTypes DEF Safe
<1>2. Grows /\ drawn' \in Nat /\ Stored' = Stored /\ Unread' = Unread
  BY <1>1, Still DEF Typed
<1>3. World' /\ Jobs'
  <2>1. World'
    BY <1>1, WorldKept
  <2>3. ASSUME NEW w \in Worker PROVE (RequestOK(w))'
    <3>1. RequestOK(w) /\ req'[w] = req[w]
      BY <1>1 DEF Jobs
    <3>2. ASSUME req[w].pc = "commit" PROVE (CommitOK(w))'
      <4>1. CommitOK(w) /\ drawn' >= drawn
        BY <1>1, <3>1, <3>2 DEF RequestOK, Typed
      <4> QED BY <1>1, <1>2, <4>1, CommitKept
    <3> QED BY <1>1, <1>2, <3>1, <3>2, RequestKept
  <2> QED BY <1>1, <2>1, <2>3 DEF Jobs
<1>4. /\ tab' \in [Tab -> Page] /\ down' \in [Tab -> Seq(Frame)] /\ tab'[t] = p
      /\ \A u \in Tab \ {t} : tab'[u] = tab[u] /\ down'[u] = down[u]
  BY <1>1 DEF Pages, PageTypes
<1>5. Pages'
  <2>1. \A u \in Tab \ {t} : (TabOK(u))'
    BY <1>1, <1>2, <1>4, TabKept DEF Pages
  <2> QED BY <1>4, <2>1 DEF Pages, PageTypes
<1>6. Dots'
  <2>1. \A u \in Tab : \A n \in Range(tab'[u].items) \ tab'[u].fresh :
          n \in Range(tab[u].items) \ tab[u].fresh \/ (n \in Stored /\ IsRead(n))
    BY <1>4
  <2> QED BY <1>1, <1>2, <2>1, DotsKept
<1> QED BY <1>3, <1>5, <1>6 DEF Safe

\* A step that changes no more of the page than its socket or its count of requests.
LEMMA SocketStep ==
  ASSUME Safe, UNCHANGED <<site, booking, note, drawn, req>>, NEW t \in Tab,
         NEW p \in Page, tab' = [tab EXCEPT ![t] = p], p.items = tab[t].items,
         p.fresh = tab[t].fresh, p.badge = tab[t].badge, missed' \in [Tab -> BOOLEAN],
         NEW f \in {down[t], <<>>}, down' = [down EXCEPT ![t] = f]
  PROVE  Safe'
<1>1. Typed /\ Pages
  BY SafeTypes DEF Safe
<1>2. f \in Seq(Frame) /\ \A i \in DOMAIN f : i \in DOMAIN down[t] /\ f[i] = down[t][i]
  <2>1. down[t] \in Seq(Frame)
    BY <1>1 DEF Typed
  <2>2. CASE f = down[t]
    BY <2>1, <2>2
  <2>3. CASE f = <<>>
    BY <2>3
  <2> QED BY <2>2, <2>3
<1>3. tab'[t] = p /\ down'[t] = f /\ Stored' = Stored /\ drawn' = drawn
      /\ \A n \in Id : IsRead(n) <=> (IsRead(n))'
  BY <1>1 DEF Pages, PageTypes, Stored, IsRead
<1>4. (TabOK(t))'
  <2>1. TabOK(t)
    BY <1>1 DEF Pages
  <2>2. ASSUME NEW i \in DOMAIN f
        PROVE  /\ {f[i].id} \cup f[i].ids \subseteq Stored' \cup {0}
               /\ f[i].count <= drawn' /\ \A n \in f[i].ids : (IsRead(n))'
    <3>1. i \in DOMAIN down[t] /\ f[i] = down[t][i] /\ f[i].ids \in SUBSET Id
      BY <1>1, <1>2 DEF Typed
    <3>2. /\ {f[i].id} \cup f[i].ids \subseteq Stored \cup {0}
          /\ f[i].count <= drawn /\ \A n \in f[i].ids : IsRead(n)
      BY <2>1, <3>1 DEF TabOK
    <3> QED BY <1>3, <3>1, <3>2
  <2> QED BY <1>3, <2>1, <2>2 DEF TabOK
<1> QED BY <1>2, <1>4, PageStep

LEMMA ConnectSafe == ASSUME Safe, NEW t \in Tab, Connect(t) PROVE Safe'
<1>1. Typed /\ PageTypes
  BY SafeTypes DEF Safe, Pages
<1>2. PICK p : p = [tab[t] EXCEPT !.link = "open"]
  OBVIOUS
<1>3. p \in Page /\ p.items = tab[t].items /\ p.fresh = tab[t].fresh /\ p.badge = tab[t].badge
  BY <1>1, <1>2 DEF Typed, Page
<1>4. tab' = [tab EXCEPT ![t] = p] /\ down' = [down EXCEPT ![t] = down[t]]
  BY <1>1, <1>2 DEF Connect, PageTypes
<1> QED BY <1>1, <1>3, <1>4, SocketStep DEF Connect, PageTypes

LEMMA JoinSafe == ASSUME Safe, NEW t \in Tab, Join(t) PROVE Safe'
<1>1. Typed /\ PageTypes
  BY SafeTypes DEF Safe, Pages
<1>2. PICK joined : tab' = [tab EXCEPT ![t].link = IF joined THEN "joined" ELSE "deaf"]
  BY DEF Join
<1>3. PICK p : p = [tab[t] EXCEPT !.link = IF joined THEN "joined" ELSE "deaf"]
  OBVIOUS
<1>4. p \in Page /\ p.items = tab[t].items /\ p.fresh = tab[t].fresh /\ p.badge = tab[t].badge
  BY <1>1, <1>3 DEF Typed, Page
<1>5. tab' = [tab EXCEPT ![t] = p] /\ down' = [down EXCEPT ![t] = down[t]]
  BY <1>1, <1>2, <1>3 DEF Join, PageTypes
<1> QED BY <1>1, <1>4, <1>5, SocketStep DEF Join, PageTypes

LEMMA DisconnectSafe == ASSUME Safe, NEW t \in Tab, Disconnect(t) PROVE Safe'
<1>1. Typed /\ PageTypes
  BY SafeTypes DEF Safe, Pages
<1>2. PICK p : p = [tab[t] EXCEPT !.link = "closed"]
  OBVIOUS
<1>3. p \in Page /\ p.items = tab[t].items /\ p.fresh = tab[t].fresh /\ p.badge = tab[t].badge
  BY <1>1, <1>2 DEF Typed, Page
<1>4. tab' = [tab EXCEPT ![t] = p] /\ missed' \in [Tab -> BOOLEAN]
  BY <1>1, <1>2 DEF Disconnect, PageTypes
<1> QED BY <1>1, <1>3, <1>4, SocketStep DEF Disconnect

LEMMA OpenRequestsSafe == ASSUME Safe, NEW t \in Tab, OpenRequests(t) PROVE Safe'
<1>1. Typed /\ PageTypes
  BY SafeTypes DEF Safe, Pages
<1>2. PICK p : p = [tab[t] EXCEPT !.requests = Requests]
  OBVIOUS
<1>3. p \in Page /\ p.items = tab[t].items /\ p.fresh = tab[t].fresh /\ p.badge = tab[t].badge
  BY <1>1, <1>2, RequestsType DEF Typed, Page
<1>4. tab' = [tab EXCEPT ![t] = p] /\ down' = [down EXCEPT ![t] = down[t]]
  BY <1>1, <1>2 DEF OpenRequests, PageTypes
<1> QED BY <1>1, <1>3, <1>4, SocketStep DEF OpenRequests, PageTypes

\* What a frame does to a page.
LEMMA ShownRead ==
  ASSUME NEW p \in Page, NEW ids, NEW count \in Nat
  PROVE  /\ ShowRead(p, ids, count) \in Page
         /\ ShowRead(p, ids, count).items = p.items
         /\ ShowRead(p, ids, count).fresh = p.fresh \ ids
         /\ ShowRead(p, ids, count).badge = count
         /\ ShowRead(p, ids, count).requests = p.requests
         /\ ShowRead(p, ids, count).open = p.open
BY DEF ShowRead, ShowCount, Page

LEMMA ShownNew ==
  ASSUME NEW p \in Page, NEW n \in Id, NEW count \in Nat, Len(p.items) <= Cap
  PROVE  LET q == ShowNew(p, n, count)
         IN /\ q \in Page /\ q.items = Prepend(p.items, n)
            /\ q.fresh \subseteq Range(q.items)
            /\ Range(q.items) \ q.fresh \subseteq Range(p.items) \ p.fresh
            /\ q.badge = count /\ q.open = p.open
            /\ q.requests = AtLeastZero(p.requests + Change(note[n].kind))
<1> DEFINE items == Prepend(p.items, n)
           fresh == IF n \in Range(p.items) THEN p.fresh ELSE p.fresh \cup {n}
           q == ShowNew(p, n, count)
<1>1. p.items \in Seq(Id) /\ p.fresh \in SUBSET Id /\ p.requests \in Nat
  BY DEF Page
<1>2. items \in Seq(Id) /\ Range(items) \subseteq Range(p.items) \cup {n}
  BY <1>1, Prepended
<1>3. PICK a : a = [p EXCEPT !.badge = count, !.items = items, !.fresh = fresh \cap Range(items)]
  OBVIOUS
<1>4. /\ a \in Page /\ a.items = items /\ a.fresh = fresh \cap Range(items)
      /\ a.badge = count /\ a.open = p.open /\ a.requests = p.requests
  <2>1. fresh \cap Range(items) \in SUBSET Id
    BY <1>1
  <2> HIDE DEF items, fresh
  <2> QED BY <1>2, <1>3, <2>1 DEF Page
<1>5. [ShowCount(p, count) EXCEPT !.items = items, !.fresh = fresh \cap Range(items)] = a
  BY <1>3 DEF ShowCount
<1>6. q = CountRequest(a, note[n].kind)
  BY <1>5 DEF ShowNew
<1>7. PICK d : d = AtLeastZero(p.requests + Change(note[n].kind))
  OBVIOUS
<1>8. d \in Nat /\ q = [a EXCEPT !.requests = d]
  <2>1. d \in Nat
    BY <1>1, <1>7 DEF AtLeastZero, Change
  <2>2. AtLeastZero(IF note[n].kind = "expired" THEN a.requests - 1 ELSE a.requests + 1) = d
    BY <1>1, <1>4, <1>7 DEF Change
  <2>3. CountRequest(a, note[n].kind) = [a EXCEPT !.requests = d]
    BY <2>2 DEF CountRequest
  <2> QED BY <1>6, <2>1, <2>3
<1>9. /\ q \in Page /\ q.items = items /\ q.fresh = fresh \cap Range(items)
      /\ q.badge = count /\ q.open = p.open /\ q.requests = d
  <2> HIDE DEF q, items, fresh
  <2> QED BY <1>4, <1>8 DEF Page
<1>10. Range(items) \ (fresh \cap Range(items)) \subseteq Range(p.items) \ p.fresh
  BY <1>2
<1> QED BY <1>7, <1>9, <1>10

LEMMA ReceiveSafe == ASSUME Safe, NEW t \in Tab, Receive(t) PROVE Safe'
<1>1. Typed /\ PageTypes /\ TabOK(t)
  BY SafeTypes DEF Safe, Pages
<1> DEFINE f == Head(down[t])
           p == IF f.id # 0 THEN ShowNew(tab[t], f.id, f.count) ELSE ShowRead(tab[t], f.ids, f.count)
<1>2. /\ down[t] \in Seq(Frame) /\ down[t] # <<>> /\ tab[t] \in Page
      /\ tab' = [tab EXCEPT ![t] = p] /\ down' = [down EXCEPT ![t] = Tail(down[t])]
      /\ UNCHANGED <<site, booking, note, drawn, missed, req>>
  BY <1>1 DEF Receive, Typed
<1>3. /\ f = down[t][1] /\ 1 \in DOMAIN down[t] /\ Tail(down[t]) \in Seq(Frame)
      /\ \A i \in DOMAIN Tail(down[t]) : i + 1 \in DOMAIN down[t] /\ Tail(down[t])[i] = down[t][i + 1]
  BY <1>2, Taken
<1>4. /\ {f.id} \cup f.ids \subseteq Stored \cup {0} /\ f.count \in Nat /\ f.count <= drawn
      /\ f.ids \in SUBSET Id /\ \A n \in f.ids : IsRead(n)
  BY <1>1, <1>3 DEF TabOK, Typed
<1>5. /\ p \in Page /\ Range(p.items) \subseteq Stored /\ Len(p.items) <= Cap
      /\ p.fresh \subseteq Range(p.items) /\ p.badge \in 0 .. drawn /\ IsInjective(p.items)
  <2>1. CASE f.id = 0
    <3>1. p = ShowRead(tab[t], f.ids, f.count)
      BY <2>1
    <3>2. /\ p \in Page /\ p.items = tab[t].items /\ p.fresh = tab[t].fresh \ f.ids
          /\ p.badge = f.count
      <4> HIDE DEF p, f
      <4> QED BY <1>2, <1>4, <3>1, ShownRead
    <3> HIDE DEF p, f
    <3> QED BY <1>1, <1>4, <3>2 DEF TabOK, Typed
  <2>2. CASE f.id # 0
    <3>1. f.id \in Stored /\ f.id \in Id /\ p = ShowNew(tab[t], f.id, f.count)
      BY <1>1, <1>4, <2>2 DEF Typed
    <3>2. /\ p \in Page /\ p.items = Prepend(tab[t].items, f.id) /\ p.badge = f.count
          /\ p.fresh \subseteq Range(p.items)
      BY <1>1, <1>2, <1>4, <3>1, ShownNew DEF TabOK
    <3>3. /\ Len(p.items) <= Cap /\ Range(p.items) \subseteq Range(tab[t].items) \cup {f.id}
          /\ IsInjective(p.items)
      <4>1. PICK n \in Id : n = f.id
        BY <3>1
      <4>2. PICK s : s = tab[t].items
        OBVIOUS
      <4>3. s \in Seq(Id) /\ Len(s) <= Cap /\ IsInjective(s)
        BY <1>1, <4>2 DEF TabOK, Typed
      <4>4. /\ Len(Prepend(s, n)) <= Cap /\ Range(Prepend(s, n)) \subseteq Range(s) \cup {n}
            /\ IsInjective(Prepend(s, n))
        BY <4>3, Prepended
      <4>5. p.items = Prepend(s, n)
        BY <3>2, <4>1, <4>2
      <4> HIDE DEF p, f
      <4> QED BY <4>1, <4>2, <4>4, <4>5
    <3> HIDE DEF p, f
    <3> QED BY <1>1, <1>4, <3>1, <3>2, <3>3 DEF TabOK, Typed
  <2> QED BY <2>1, <2>2
<1>6. PICK q : q = p
  OBVIOUS
<1>7. (TabOK(t))'
  <2>1. /\ tab'[t] = q /\ down'[t] = Tail(down[t]) /\ Stored' = Stored /\ drawn' = drawn
        /\ \A n \in Id : IsRead(n) <=> (IsRead(n))'
    BY <1>1, <1>2, <1>6 DEF PageTypes, Stored, IsRead
  <2>2. ASSUME NEW i \in DOMAIN Tail(down[t])
        PROVE  /\ {down'[t][i].id} \cup down'[t][i].ids \subseteq Stored' \cup {0}
               /\ down'[t][i].count <= drawn' /\ \A n \in down'[t][i].ids : (IsRead(n))'
    <3>1. i + 1 \in DOMAIN down[t] /\ down'[t][i] = down[t][i + 1]
      BY <1>3, <2>1
    <3>2. /\ {down[t][i + 1].id} \cup down[t][i + 1].ids \subseteq Stored \cup {0}
          /\ down[t][i + 1].count <= drawn /\ down[t][i + 1].ids \in SUBSET Id
          /\ \A n \in down[t][i + 1].ids : IsRead(n)
      BY <1>1, <3>1 DEF TabOK, Typed
    <3> QED BY <2>1, <3>1, <3>2
  <2> QED BY <1>5, <1>6, <2>1, <2>2 DEF TabOK
<1>8. ASSUME NEW n \in Range(q.items) \ q.fresh
      PROVE  n \in Range(tab[t].items) \ tab[t].fresh \/ (n \in Stored /\ IsRead(n))
  <2>1. CASE f.id = 0
    <3>1. p = ShowRead(tab[t], f.ids, f.count)
      BY <2>1
    <3>2. p.items = tab[t].items /\ p.fresh = tab[t].fresh \ f.ids
      <4> HIDE DEF p, f
      <4> QED BY <1>2, <1>4, <3>1, ShownRead
    <3>3. f.ids \subseteq Stored
      BY <1>1, <1>4 DEF Typed
    <3> HIDE DEF p, f
    <3> QED BY <1>4, <1>6, <1>8, <3>2, <3>3
  <2>2. CASE f.id # 0
    <3>1. f.id \in Id /\ p = ShowNew(tab[t], f.id, f.count)
      BY <1>1, <1>4, <2>2 DEF Typed
    <3>2. Range(p.items) \ p.fresh \subseteq Range(tab[t].items) \ tab[t].fresh
      BY <1>1, <1>2, <1>4, <3>1, ShownNew DEF TabOK
    <3> HIDE DEF p, f
    <3> QED BY <1>6, <1>8, <3>2
  <2> QED BY <2>1, <2>2
<1>9. missed' \in [Tab -> BOOLEAN] /\ tab' = [tab EXCEPT ![t] = q] /\ q \in Page
  <2> HIDE DEF p
  <2> QED BY <1>1, <1>2, <1>5, <1>6 DEF PageTypes
<1> HIDE DEF p, f
<1> QED BY <1>2, <1>3, <1>7, <1>8, <1>9, PageStep

-----------------------------------------------------------------------------
(* The steps of a request, but for what they count.                        *)

LEMMA IdleIs ==
  /\ Idle \in Work /\ Idle.pc = "idle" /\ Idle.kind = "load" /\ Idle.of = NoBooking
  /\ Idle.state = "none" /\ Idle.by = NoTab /\ Idle.id = 0 /\ Idle.ids = {} /\ Idle.count = 0
BY Constants DEF Idle, Work, Handled, State, Kind

LEMMA IdleOK ==
  ASSUME Typed, drawn' = drawn, NEW w \in Worker, req'[w] = Idle
  PROVE  (RequestOK(w))'
BY IdleIs DEF RequestOK, Typed

\* Only w's request and the pages change.
LEMMA RequestStep ==
  ASSUME Safe, UNCHANGED <<site, booking, note, drawn>>, NEW w \in Worker, NEW r \in Work,
         req' = [req EXCEPT ![w] = r], r.pc # "commit", (RequestOK(w))', Pages', Dots'
  PROVE  Safe'
<1>1. Typed /\ World /\ Jobs
  BY SafeTypes DEF Safe
<1>2. req'[w] = r /\ \A v \in Worker \ {w} : req'[v] = req[v]
  BY <1>1 DEF Jobs
<1>3. World' /\ Jobs'
  BY <1>1, <1>2, WorldKept, JobsStep
<1> QED BY <1>3 DEF Safe

\* Only w's request changes.
LEMMA OwnStep ==
  ASSUME Safe, UNCHANGED <<site, booking, note, drawn, tab, down>>, NEW w \in Worker,
         NEW r \in Work, req' = [req EXCEPT ![w] = r], r.pc # "commit", (RequestOK(w))',
         missed' \in [Tab -> BOOLEAN], req[w].pc # "write" \/ site.faults
  PROVE  Safe'
<1>1. Typed /\ Pages /\ Jobs /\ Dots
  BY SafeTypes DEF Safe
<1>2. Grows /\ drawn' \in Nat /\ Stored' = Stored
  BY <1>1, Still DEF Typed
<1>3. Pages'
  BY <1>1, <1>2, PagesKept
<1>4. Dots'
  <2>1. CASE site.faults
    BY <2>1 DEF Dots
  <2>2. CASE req[w].pc # "write"
    <3>1. \A v \in Worker : req[v].pc = "write" => req'[v] = req[v]
      BY <1>1, <2>2 DEF Jobs
    <3>2. \A t \in Tab : \A n \in Range(tab'[t].items) \ tab'[t].fresh :
            n \in Range(tab[t].items) \ tab[t].fresh \/ (n \in Stored /\ IsRead(n))
      OBVIOUS
    <3> QED BY <1>1, <1>2, <3>1, <3>2, DotsKept
  <2> QED BY <2>1, <2>2
<1> QED BY <1>3, <1>4, RequestStep

\* The request ends.
LEMMA DoneStep ==
  ASSUME Safe, UNCHANGED <<site, booking, note, drawn, tab, down>>, NEW w \in Worker,
         req' = [req EXCEPT ![w] = Idle], missed' \in [Tab -> BOOLEAN],
         req[w].pc # "write" \/ site.faults
  PROVE  Safe'
<1>1. Typed /\ Jobs
  BY SafeTypes DEF Safe
<1>2. req'[w] = Idle /\ Idle \in Work /\ Idle.pc # "commit" /\ Idle.of = NoBooking
  BY <1>1, IdleIs DEF Jobs
<1>3. (RequestOK(w))'
  BY <1>1, <1>2, IdleOK
<1> QED BY <1>2, <1>3, OwnStep

LEMMA LoadSafe == ASSUME Safe, NEW w \in Worker, NEW t \in Tab, Load(w, t) PROVE Safe'
<1>1. Typed /\ Jobs /\ PageTypes
  BY SafeTypes DEF Safe, Pages
<1>2. PICK r : r = [Idle EXCEPT !.pc = "read", !.by = t]
  OBVIOUS
<1>3. /\ r \in Work /\ r.pc = "read" /\ r.by = t /\ r.of = NoBooking /\ r.ids = {} /\ r.count = 0
  BY <1>2, IdleIs DEF Work
<1>4. /\ req' = [req EXCEPT ![w] = r] /\ req[w].pc = "idle"
      /\ UNCHANGED <<site, booking, note, drawn, tab, down, missed>>
  BY <1>2 DEF Load, Start
<1>5. req'[w] = r
  BY <1>1, <1>4 DEF Jobs
<1>6. (RequestOK(w))'
  BY <1>1, <1>3, <1>4, <1>5 DEF RequestOK, Typed
<1>7. missed' \in [Tab -> BOOLEAN]
  BY <1>1, <1>4 DEF PageTypes
<1> QED BY <1>3, <1>4, <1>6, <1>7, OwnStep

\* A click takes away dots that the request will see to.
LEMMA ClickStep ==
  ASSUME Safe, UNCHANGED <<site, booking, note, drawn, down, missed>>, NEW w \in Worker,
         NEW r \in Work, req' = [req EXCEPT ![w] = r], req[w].pc = "idle",
         r.pc = "write", r.of = NoBooking, r.ids = {}, r.count = 0, r.kind \in {"one", "all"},
         r.kind = "one" => r.id \in Stored /\ r.by \in Tab,
         NEW t \in Tab, NEW p \in Page, tab' = [tab EXCEPT ![t] = p],
         p.items = tab[t].items, p.fresh \subseteq tab[t].fresh, p.badge <= tab[t].badge,
         \A n \in tab[t].fresh \ p.fresh : r.kind = "all" \/ r.id = n
  PROVE  Safe'
<1>1. Typed /\ Pages /\ Jobs /\ Dots
  BY SafeTypes DEF Safe
<1>2. Grows /\ drawn' \in Nat /\ Stored' = Stored /\ Unread' = Unread
  BY <1>1, Still DEF Typed
<1>3. req'[w] = r /\ \A v \in Worker \ {w} : req'[v] = req[v]
  BY <1>1 DEF Jobs
<1>4. tab'[t] = p /\ tab' \in [Tab -> Page] /\ \A u \in Tab \ {t} : tab'[u] = tab[u]
  BY <1>1 DEF Pages, PageTypes
<1>5. (RequestOK(w))'
  BY <1>1, <1>2, <1>3 DEF RequestOK, Typed
<1>6. Pages'
  <2>1. TabOK(t) /\ \A n \in Id : IsRead(n) <=> (IsRead(n))'
    BY <1>1 DEF Pages, IsRead
  <2>2. p.badge \in 0 .. drawn'
    BY <1>1, <2>1 DEF TabOK, Typed, Page
  <2>3. \A i \in DOMAIN down[t] : down[t][i].ids \in SUBSET Id
    BY <1>1 DEF Typed
  <2>4. (TabOK(t))'
    BY <1>2, <1>4, <2>1, <2>2, <2>3 DEF TabOK
  <2>5. \A u \in Tab \ {t} : (TabOK(u))'
    BY <1>1, <1>2, <1>4, TabKept DEF Pages
  <2> QED BY <1>1, <1>4, <2>4, <2>5 DEF Pages, PageTypes
<1>7. Dots'
  <2> SUFFICES ASSUME ~site.faults, NEW u \in Tab, NEW n \in Range(tab'[u].items) \ tab'[u].fresh
               PROVE  \/ (IsRead(n))'
                      \/ \E v \in Worker :
                           req'[v].pc = "write" /\ (req'[v].kind = "all" \/ req'[v].id = n)
    BY DEF Dots, DimmedOK
  <2>1. CASE n \in Range(tab[u].items) \ tab[u].fresh
    <3>1. \/ IsRead(n)
          \/ \E v \in Worker : req[v].pc = "write" /\ (req[v].kind = "all" \/ req[v].id = n)
      BY <1>1, <2>1 DEF Dots, DimmedOK
    <3>2. CASE IsRead(n)
      BY <3>2 DEF IsRead
    <3>3. CASE \E v \in Worker : req[v].pc = "write" /\ (req[v].kind = "all" \/ req[v].id = n)
      <4>1. PICK v \in Worker : req[v].pc = "write" /\ (req[v].kind = "all" \/ req[v].id = n)
        BY <3>3
      <4> QED BY <1>3, <4>1
    <3> QED BY <3>1, <3>2, <3>3
  <2>2. CASE n \notin Range(tab[u].items) \ tab[u].fresh
    <3>1. u = t /\ n \in tab[t].fresh \ p.fresh
      BY <1>4, <2>2
    <3> QED BY <1>3, <3>1
  <2> QED BY <2>1, <2>2
<1> QED BY <1>5, <1>6, <1>7, RequestStep

LEMMA MarkOneSafe ==
  ASSUME Safe, NEW w \in Worker, NEW t \in Tab, NEW n \in Id, MarkOne(w, t, n)
  PROVE  Safe'
<1>1. Typed /\ Pages
  BY SafeTypes DEF Safe
<1>2. PICK r : r = [Idle EXCEPT !.pc = "write", !.kind = "one", !.by = t, !.id = n]
  OBVIOUS
<1>3. /\ r \in Work /\ r.pc = "write" /\ r.kind = "one" /\ r.by = t /\ r.id = n
      /\ r.of = NoBooking /\ r.ids = {} /\ r.count = 0
  <2>1. n \in 0 .. MaxNotes
    BY Constants DEF Id
  <2> QED BY <1>2, <2>1, IdleIs DEF Work
<1>4. PICK p : p = [tab[t] EXCEPT !.fresh = @ \ {n}]
  OBVIOUS
<1>5. /\ p \in Page /\ p.items = tab[t].items /\ p.fresh = tab[t].fresh \ {n}
      /\ p.badge = tab[t].badge
  BY <1>1, <1>4 DEF Typed, Page
<1>6. /\ req' = [req EXCEPT ![w] = r] /\ req[w].pc = "idle" /\ tab' = [tab EXCEPT ![t] = p]
      /\ UNCHANGED <<site, booking, note, drawn, down, missed>> /\ n \in tab[t].fresh
  BY <1>1, <1>2, <1>4 DEF MarkOne, Start
<1>7. n \in Stored /\ p.badge <= tab[t].badge
  BY <1>1, <1>5, <1>6 DEF Pages, TabOK, Typed
<1> QED BY <1>3, <1>5, <1>6, <1>7, ClickStep

LEMMA MarkAllSafe ==
  ASSUME Safe, NEW w \in Worker, NEW t \in Tab \cup {NoTab}, MarkAll(w, t)
  PROVE  Safe'
<1>1. Typed /\ Pages /\ Jobs
  BY SafeTypes DEF Safe
<1>2. PICK r : r = [Idle EXCEPT !.pc = "write", !.kind = "all", !.by = t]
  OBVIOUS
<1>3. /\ r \in Work /\ r.pc = "write" /\ r.kind = "all" /\ r.by = t
      /\ r.of = NoBooking /\ r.ids = {} /\ r.count = 0
  BY <1>2, IdleIs DEF Work
<1>4. /\ req' = [req EXCEPT ![w] = r] /\ req[w].pc = "idle"
      /\ UNCHANGED <<site, booking, note, drawn, down, missed>>
  BY <1>2 DEF MarkAll, Start
<1>5. CASE t = NoTab
  <2>1. tab' = tab /\ req'[w] = r
    BY <1>1, <1>4, <1>5 DEF MarkAll, Jobs
  <2>2. (RequestOK(w))' /\ missed' \in [Tab -> BOOLEAN]
    BY <1>1, <1>3, <1>4, <2>1 DEF RequestOK, Typed, Pages, PageTypes
  <2> QED BY <1>3, <1>4, <2>1, <2>2, OwnStep
<1>6. CASE t # NoTab
  <2>1. t \in Tab
    BY <1>6
  <2>2. PICK p : p = [tab[t] EXCEPT !.fresh = {}, !.badge = 0]
    OBVIOUS
  <2>3. p \in Page /\ p.items = tab[t].items /\ p.fresh = {} /\ p.badge = 0
    BY <1>1, <2>1, <2>2 DEF Typed, Page
  <2>4. tab' = [tab EXCEPT ![t] = p]
    <3>1. tab' = [tab EXCEPT ![t].fresh = {}, ![t].badge = 0]
      BY <1>6 DEF MarkAll
    <3>2. tab \in [Tab -> Page]
      BY <1>1 DEF Pages, PageTypes
    <3> QED BY <2>1, <2>2, <3>1, <3>2
  <2>5. p.badge <= tab[t].badge
    BY <1>1, <2>1, <2>3 DEF Typed
  <2> QED BY <1>3, <1>4, <2>1, <2>3, <2>4, <2>5, ClickStep
<1> QED BY <1>5, <1>6

\* A handler starts in a state that its kind allows.
LEMMA HandleSafe ==
  ASSUME Safe, NEW w \in Worker, NEW kind \in Handled, NEW b \in Booking,
         NEW t \in Tab \cup {NoTab}, NEW states, Handle(w, kind, b, t, states),
         states = Found(kind), t # NoTab => kind \in {"accept", "decline"}
  PROVE  Safe'
<1>1. Typed /\ Pages /\ Jobs /\ World /\ Dots
  BY SafeTypes DEF Safe
<1>2. PICK s \in State : s = booking[b]
  BY <1>1 DEF Typed
<1>3. PICK r : r = [Idle EXCEPT !.pc = "lock", !.kind = kind, !.of = b, !.state = s, !.by = t]
  OBVIOUS
<1>4. /\ r \in Work /\ r.pc = "lock" /\ r.kind = kind /\ r.of = b /\ r.state = s /\ r.by = t
      /\ r.ids = {} /\ r.count = 0
  BY <1>3, IdleIs DEF Work
<1>5. /\ req' = [req EXCEPT ![w] = r] /\ req[w].pc = "idle" /\ s \in Found(kind)
      /\ UNCHANGED <<site, booking, note, drawn, tab, down, missed>>
  BY <1>2, <1>3 DEF Handle, Start
<1>6. req'[w] = r /\ \A v \in Worker \ {w} : req'[v] = req[v]
  BY <1>1, <1>5 DEF Jobs
<1>7. (RequestOK(w))'
  BY <1>1, <1>4, <1>5, <1>6 DEF RequestOK, Typed
<1>8. World' /\ Jobs' /\ Pages' /\ Dots'
  <2>1. Grows /\ drawn' \in Nat /\ missed' \in [Tab -> BOOLEAN]
    BY <1>1, <1>5, Still DEF Typed, Pages, PageTypes
  <2>2. \A t2 \in Tab : \A n \in Range(tab'[t2].items) \ tab'[t2].fresh :
            n \in Range(tab[t2].items) \ tab[t2].fresh \/ (n \in Stored /\ IsRead(n))
    BY <1>5
  <2>3. \A v \in Worker : req[v].pc = "write" => req'[v] = req[v]
    BY <1>5, <1>6
  <2>4. World'
    BY <1>1, <1>5, WorldKept
  <2>5. Jobs'
    BY <1>1, <1>4, <1>5, <1>7, JobsStep
  <2>6. Pages'
    BY <1>1, <1>5, <2>1, PagesKept
  <2>7. Dots'
    BY <1>1, <2>1, <2>2, <2>3, DotsKept
  <2> QED BY <2>4, <2>5, <2>6, <2>7
<1> QED BY <1>8 DEF Safe

LEMMA HandlersSafe ==
  ASSUME Safe, NEW w \in Worker, NEW b \in Booking,
         \/ Request(w, b) \/ Ask(w, b) \/ CancelLesson(w, b) \/ Expire(w, b)
         \/ \E t \in Tab \cup {NoTab} : Respond(w, t, b)
  PROVE  Safe'
<1>1. CASE Request(w, b)
  <2>1. Handle(w, "requested", b, NoTab, {"none"}) /\ Found("requested") = {"none"}
    BY <1>1 DEF Request, Found
  <2> QED BY <2>1, HandleSafe DEF Handled, Kind
<1>2. CASE Ask(w, b)
  <2>1. /\ Handle(w, "cancellation", b, NoTab, {"pending", "confirmed"})
        /\ Found("cancellation") = {"pending", "confirmed"}
    BY <1>2 DEF Ask, Found
  <2> QED BY <2>1, HandleSafe DEF Handled, Kind
<1>3. CASE CancelLesson(w, b)
  <2>1. /\ Handle(w, "cancel", b, NoTab, {"pending", "withdrawing", "confirmed", "asked"})
        /\ Found("cancel") = {"pending", "withdrawing", "confirmed", "asked"}
    BY <1>3 DEF CancelLesson, Found
  <2> QED BY <2>1, HandleSafe DEF Handled
<1>4. CASE Expire(w, b)
  <2>1. /\ Handle(w, "expired", b, NoTab, {"pending", "withdrawing"})
        /\ Found("expired") = {"pending", "withdrawing"}
    BY <1>4 DEF Expire, Found
  <2> QED BY <2>1, HandleSafe DEF Handled, Kind
<1>5. CASE \E t \in Tab \cup {NoTab} : Respond(w, t, b)
  <2>1. PICK t \in Tab \cup {NoTab}, kind \in {"accept", "decline"} :
          Handle(w, kind, b, t, Open)
    BY <1>5 DEF Respond
  <2>2. Found(kind) = Open /\ kind \in Handled
    BY DEF Found, Handled
  <2> QED BY <2>1, <2>2, HandleSafe
<1> QED BY <1>1, <1>2, <1>3, <1>4, <1>5

LEMMA LockSafe == ASSUME Safe, NEW w \in Worker, Lock(w) PROVE Safe'
<1>1. Typed /\ World /\ Pages /\ Jobs /\ Dots /\ RequestOK(w)
  BY SafeTypes DEF Safe, Jobs
<1> DEFINE q == req[w]
           new == IF Inserts(q.kind) THEN 1 ELSE 0
           ids == {n \in Unread : note[n].of = q.of /\ note[n].kind \in MarkedKinds(q.kind)}
           stops == \/ q.kind \in {"requested", "expired"} /\ booking[q.of] # q.state
                    \/ drawn + new > site.notes
<1>2. /\ q.pc = "lock" /\ Unlocked(w) /\ UNCHANGED <<site, booking, note, tab, down, missed>>
      /\ IF stops THEN Done(w) /\ UNCHANGED drawn
         ELSE /\ req' = [req EXCEPT ![w].pc = "commit", ![w].ids = ids,
                           ![w].id = IF new = 1 THEN drawn + 1 ELSE 0,
                           ![w].count = Left(ids, new)]
              /\ drawn' = drawn + new
  BY DEF Lock
<1>3. missed' \in [Tab -> BOOLEAN]
  BY <1>1, <1>2 DEF Pages, PageTypes
<1>4. CASE stops
  <2> HIDE DEF stops
  <2>1. req' = [req EXCEPT ![w] = Idle] /\ UNCHANGED drawn
    BY <1>2, <1>4 DEF Done
  <2> QED BY <1>2, <1>3, <2>1, DoneStep
<1>5. CASE ~stops
  <2>1. /\ new \in {0, 1} /\ drawn + new <= site.notes /\ site.notes \in Nat /\ site.notes <= MaxNotes
        /\ new = 1 <=> Inserts(q.kind)
        /\ q.kind \in {"requested", "expired"} => booking[q.of] = q.state
    BY <1>1, <1>5, Constants DEF Typed
  <2>2. drawn' = drawn + new /\ drawn' \in Nat /\ drawn' <= MaxNotes /\ drawn' >= drawn
    <3> HIDE DEF new, stops
    <3>1. drawn' = drawn + new
      <4> HIDE DEF ids
      <4> QED BY <1>2, <1>5
    <3>2. drawn \in Nat /\ MaxNotes \in Nat
      BY <1>1 DEF Typed
    <3>3. drawn + new \in Nat /\ drawn + new >= drawn /\ drawn + new <= MaxNotes
      BY <2>1, <3>2
    <3> QED BY <3>1, <3>3
  <2>3. ids \subseteq Unread /\ ids \subseteq Stored /\ ids \in SUBSET Id
    BY <1>1 DEF Typed
  <2>4. PICK c : c = Left(ids, new)
    OBVIOUS
  <2>5. c \in Nat /\ c <= drawn'
    <3>1. Unread \ ids \in SUBSET Stored
      BY <1>1 DEF Typed
    <3>2. Cardinality(Unread \ ids) \in Nat /\ Cardinality(Unread \ ids) <= drawn
      BY <1>1, <3>1, UnreadBound
    <3> HIDE DEF new, ids
    <3> QED BY <1>1, <2>1, <2>2, <2>4, <3>2 DEF Left, Typed
  <2>6. PICK id : id = IF new = 1 THEN drawn + 1 ELSE 0
    OBVIOUS
  <2>7. /\ id \in 0 .. MaxNotes /\ id <= drawn'
        /\ IF Inserts(q.kind) THEN id = drawn + 1 /\ id \in 1 .. drawn' ELSE id = 0
    <3> HIDE DEF new
    <3> QED BY <1>1, <2>1, <2>2, <2>6 DEF Typed
  <2>8. PICK r : r = [req[w] EXCEPT !.pc = "commit", !.ids = ids, !.id = id, !.count = c]
    OBVIOUS
  <2>9. /\ r \in Work /\ r.pc = "commit" /\ r.ids = ids /\ r.id = id /\ r.count = c
        /\ r.of = q.of /\ r.kind = q.kind /\ r.by = q.by /\ r.state = q.state
    <3>1. req[w] \in Work
      BY <1>1 DEF Typed
    <3> HIDE DEF ids
    <3> QED BY <2>3, <2>5, <2>7, <2>8, <3>1 DEF Work
  <2>10. req' = [req EXCEPT ![w] = r]
    <3>1. req' = [req EXCEPT ![w].pc = "commit", ![w].ids = ids, ![w].id = id, ![w].count = c]
      <4> HIDE DEF ids, stops, new
      <4> QED BY <1>2, <1>5, <2>4, <2>6
    <3> HIDE DEF ids
    <3> QED BY <1>1, <2>8, <3>1 DEF Jobs
  <2>11. req'[w] = r /\ req' \in [Worker -> Work] /\ \A v \in Worker \ {w} : req'[v] = req[v]
    BY <1>1, <2>9, <2>10 DEF Jobs
  <2>12. Grows /\ Stored' = Stored /\ Unread' = Unread
    BY <1>1, <1>2, <2>2, Still
  <2>13. ASSUME NEW v \in Worker \ {w}, req[v].pc = "commit"
         PROVE  /\ CommitOK(v) /\ req[v].of # q.of
                /\ req[v].id # 0 => req[v].id <= drawn /\ req[v].id \in Nat
    <3>1. CommitOK(v)
      BY <1>1, <2>13 DEF Jobs, RequestOK
    <3>2. req[v].of # q.of
      BY <1>2, <2>13 DEF Unlocked
    <3>3. req[v].id # 0 => req[v].id <= drawn /\ req[v].id \in Nat
      BY <1>1, <3>1 DEF CommitOK, Typed
    <3> QED BY <3>1, <3>2, <3>3
  <2>14. (CommitOK(w))'
    <3>1. Inserts(q.kind) => id \notin Stored
      BY <1>1, <2>7 DEF Typed
    <3>2. ASSUME NEW v \in Worker \ {w}, req[v].pc = "commit"
          PROVE  req[v].of # q.of /\ (id # 0 => req[v].id # id)
      <4>1. /\ req[v].of # q.of /\ req[v].id # 0 => req[v].id <= drawn /\ req[v].id \in Nat
        BY <2>13, <3>2
      <4>2. req[v].of # q.of
        BY <2>13, <3>2
      <4> HIDE DEF q
      <4> QED BY <1>1, <2>7, <4>1, <4>2 DEF Typed
    <3>3. \A n \in Unread : note[n].of = q.of /\ note[n].kind \in MarkedKinds(q.kind) => n \in ids
      OBVIOUS
    <3> HIDE DEF ids, q
    <3> QED BY <1>2, <2>1, <2>7, <2>9, <2>11, <2>12, <3>1, <3>2, <3>3 DEF CommitOK
  <2>15. (RequestOK(w))'
    <3>1. q.of \in Booking /\ q.kind \in Handled /\ q.state \in Found(q.kind)
          /\ (q.by # NoTab => q.kind \in {"accept", "decline"})
      BY <1>1, <1>2 DEF RequestOK
    <3> HIDE DEF ids, q
    <3> QED BY <2>3, <2>5, <2>9, <2>11, <2>12, <2>14, <3>1 DEF RequestOK
  <2>16. ASSUME NEW v \in Worker \ {w} PROVE (RequestOK(v))'
    <3>1. RequestOK(v) /\ req'[v] = req[v]
      BY <1>1, <2>11 DEF Jobs
    <3>2. ASSUME req[v].pc = "commit" PROVE (CommitOK(v))'
      <4>1. CommitOK(v) /\ req[v].of # q.of /\ (req[v].id # 0 => req[v].id <= drawn /\ req[v].id \in Nat)
        BY <2>13, <3>2
      <4>2. req[v].id # 0 => r.id # req[v].id
        <5> HIDE DEF q
        <5> QED BY <1>1, <2>7, <2>9, <4>1 DEF Typed
      <4>3. Inserts(req[v].kind) => req[v].id \in 1 .. drawn'
        BY <1>1, <2>2, <4>1 DEF CommitOK, Typed
      <4>4. \A u \in Worker \ {v} : req'[u].pc = "commit" =>
              req'[u].of # req[v].of /\ (req[v].id # 0 => req'[u].id # req[v].id)
        <5> HIDE DEF q
        <5> QED BY <2>9, <2>11, <4>1, <4>2 DEF CommitOK
      <4> HIDE DEF q
      <4> QED BY <1>2, <2>12, <3>1, <4>1, <4>3, <4>4 DEF CommitOK
    <3> QED BY <1>1, <2>2, <2>12, <3>1, <3>2, RequestKept
  <2>17. World'
    <3>1. drawn' \in 0 .. MaxNotes /\ \A n \in Stored' : n <= drawn'
      BY <1>1, <2>2, <2>12 DEF Typed
    <3> QED BY <1>1, <1>2, <2>12, <3>1 DEF World, AnsweredIsRead
  <2>18. Pages'
    BY <1>1, <1>2, <1>3, <2>2, <2>12, PagesKept
  <2>20. Dots'
    <3>1. \A v \in Worker : req[v].pc = "write" => req'[v] = req[v]
      BY <1>2, <2>11
    <3>2. \A t \in Tab : \A n \in Range(tab'[t].items) \ tab'[t].fresh :
            n \in Range(tab[t].items) \ tab[t].fresh \/ (n \in Stored /\ IsRead(n))
      BY <1>2
    <3> QED BY <1>1, <2>12, <3>1, <3>2, DotsKept
  <2>21. Jobs'
    BY <2>11, <2>15, <2>16 DEF Jobs
  <2> QED BY <2>17, <2>18, <2>20, <2>21 DEF Safe
<1> QED BY <1>4, <1>5

\* What a commit does to the notifications.
LEMMA Committed ==
  ASSUME Safe, NEW w \in Worker, Commit(w)
  PROVE  LET q == req[w]
         IN /\ Stored' = Stored \cup (IF Inserts(q.kind) THEN {q.id} ELSE {})
            /\ Unread' = (Unread \ q.ids) \cup (IF Inserts(q.kind) THEN {q.id} ELSE {})
            /\ \A n \in Stored : /\ n # q.id /\ note'[n].kind = note[n].kind
                                 /\ note'[n].of = note[n].of
                                 /\ (IsRead(n))' <=> (IsRead(n) \/ n \in q.ids)
            /\ Inserts(q.kind) => /\ q.id \in Id /\ q.id \notin Stored
                                  /\ note'[q.id] = [state |-> "unread", kind |-> q.kind, of |-> q.of]
            /\ \A n \in Id : n = q.id \/ (n \notin Stored => note'[n] = note[n])
            /\ Grows /\ q.ids \subseteq Stored
            /\ note' \in [Id -> [state : {"none", "unread", "read"}, kind : Kind,
                                 of : Booking \cup {NoBooking}]]
<1> DEFINE q == req[w]
<1>1. Typed /\ World /\ RequestOK(w)
  BY SafeTypes DEF Safe, Jobs
<1>2. /\ q.pc = "commit" /\ site' = site /\ drawn' = drawn
      /\ note' = [n \in Id |->
           IF n = q.id THEN [state |-> "unread", kind |-> q.kind, of |-> q.of]
           ELSE IF n \in q.ids THEN [note[n] EXCEPT !.state = "read"] ELSE note[n]]
  BY DEF Commit
<1>3. CommitOK(w) /\ q.of \in Booking /\ q.ids \subseteq Stored
  BY <1>1, <1>2 DEF RequestOK
<1>4. /\ IF Inserts(q.kind) THEN q.id \in Id /\ q.id \notin Stored ELSE q.id = 0
      /\ 0 \notin Id
  <2>1. IF Inserts(q.kind) THEN q.id \in 1 .. drawn /\ q.id \notin Stored ELSE q.id = 0
    BY <1>3 DEF CommitOK
  <2>2. drawn \in Nat /\ drawn <= MaxNotes /\ MaxNotes \in Nat /\ 0 \notin Id
    BY <1>1 DEF Typed
  <2> QED BY <2>1, <2>2 DEF Id
<1>5. Inserts(q.kind) => q.kind \in Kind
  BY DEF Inserts
<1> HIDE DEF q
<1>6. ASSUME NEW n \in Id
      PROVE  /\ n = q.id => /\ note'[n] = [state |-> "unread", kind |-> q.kind, of |-> q.of]
                            /\ Inserts(q.kind) /\ n \notin Stored
             /\ n # q.id /\ n \in q.ids => /\ note'[n].state = "read" /\ note'[n].kind = note[n].kind
                                           /\ note'[n].of = note[n].of
             /\ n # q.id /\ n \notin q.ids => note'[n] = note[n]
  <2>1. note[n] \in [state : {"none", "unread", "read"}, kind : Kind, of : Booking \cup {NoBooking}]
    BY <1>1 DEF World
  <2> QED BY <1>2, <1>4, <2>1
<1>7. note' \in [Id -> [state : {"none", "unread", "read"}, kind : Kind, of : Booking \cup {NoBooking}]]
  <2>1. ASSUME NEW n \in Id
        PROVE  note'[n] \in [state : {"none", "unread", "read"}, kind : Kind, of : Booking \cup {NoBooking}]
    <3>1. note[n] \in [state : {"none", "unread", "read"}, kind : Kind, of : Booking \cup {NoBooking}]
      BY <1>1 DEF World
    <3>2. CASE n = q.id
      BY <1>3, <1>5, <1>6, <3>2
    <3>3. CASE n # q.id /\ n \in q.ids
      BY <1>2, <3>1, <3>3
    <3>4. CASE n # q.id /\ n \notin q.ids
      BY <1>2, <3>1, <3>4
    <3> QED BY <3>2, <3>3, <3>4
  <2> HIDE <1>2
  <2>2. note' = [n \in Id |-> note'[n]]
    BY <1>2
  <2> QED BY <2>1, <2>2
<1>8. \A n \in Stored : n \in Id /\ n # q.id
  BY <1>1, <1>4 DEF Typed
<1>9. Stored' = Stored \cup (IF Inserts(q.kind) THEN {q.id} ELSE {})
  BY <1>3, <1>4, <1>6, <1>8 DEF Stored
<1>10. Unread' = (Unread \ q.ids) \cup (IF Inserts(q.kind) THEN {q.id} ELSE {})
  <2>1. Unread \subseteq Stored
    BY <1>1 DEF Typed
  <2> QED BY <1>3, <1>4, <1>6, <1>8, <2>1 DEF Unread
<1>11. \A n \in Stored : /\ n # q.id /\ note'[n].kind = note[n].kind /\ note'[n].of = note[n].of
                         /\ (IsRead(n))' <=> (IsRead(n) \/ n \in q.ids)
  BY <1>6, <1>8 DEF IsRead
<1>12. Grows
  <2>1. drawn' >= drawn
    BY <1>1, <1>2 DEF Typed
  <2> QED BY <1>2, <1>9, <1>11, <2>1 DEF Grows
<1>13. \A n \in Id : n = q.id \/ (n \notin Stored => note'[n] = note[n])
  BY <1>3, <1>6
<1> QED BY <1>3, <1>4, <1>6, <1>7, <1>9, <1>10, <1>11, <1>12, <1>13 DEF q

\* Where a booking is then.
LEMMA Outcomes ==
  ASSUME NEW kind \in Handled, NEW s \in Found(kind)
  PROVE  /\ Outcome(kind, s) \in State /\ Outcome(kind, s) # "none"
         /\ Outcome(kind, s) = "pending" => kind = "decline" \/ (kind = "requested" /\ s = "none")
         /\ Outcome(kind, s) \in {"confirmed", "settled"} =>
              kind \in {"accept", "decline"} \/ (kind = "expired" /\ s = "pending")
         /\ kind \in {"accept", "decline"} =>
              MarkedKinds(kind) = {"requested", "cancellation"} /\ ~Inserts(kind)
         /\ kind = "expired" => MarkedKinds(kind) = {"requested"}
BY DEF Handled, Found, Outcome, State, Open, Kind, MarkedKinds, Inserts

LEMMA CommitSafe == ASSUME Safe, NEW w \in Worker, Commit(w) PROVE Safe'
<1> DEFINE q == req[w]
<1>1. Typed /\ World /\ Pages /\ Jobs /\ Dots /\ RequestOK(w)
  BY SafeTypes DEF Safe, Jobs
<1>2. /\ q.pc = "commit" /\ UNCHANGED <<site, drawn, tab, down>>
      /\ booking' = [booking EXCEPT ![q.of] = Outcome(q.kind, q.state)]
      /\ missed' = [t \in Tab |-> missed[t] \/ (q.kind \in {"cancel", "accept", "decline"} /\ q.by # t)]
      /\ req' = [req EXCEPT ![w].pc = IF Inserts(q.kind) THEN "count" ELSE "tell",
                           ![w].of = NoBooking, ![w].state = "none"]
  BY DEF Commit
<1>3. /\ CommitOK(w) /\ q.of \in Booking /\ q.kind \in Handled /\ q.state \in Found(q.kind)
      /\ q.by # NoTab => q.kind \in {"accept", "decline"}
  BY <1>1, <1>2 DEF RequestOK
<1>4. PICK o : o = Outcome(q.kind, q.state)
  OBVIOUS
<1>5. /\ o \in State /\ o # "none"
      /\ o = "pending" => q.kind = "decline" \/ (q.kind = "requested" /\ q.state = "none")
      /\ o \in {"confirmed", "settled"} =>
           q.kind \in {"accept", "decline"} \/ (q.kind = "expired" /\ q.state = "pending")
      /\ q.kind \in {"accept", "decline"} =>
           MarkedKinds(q.kind) = {"requested", "cancellation"} /\ ~Inserts(q.kind)
      /\ q.kind = "expired" => MarkedKinds(q.kind) = {"requested"}
  BY <1>3, <1>4, Outcomes
<1>6. /\ booking' \in [Booking -> State] /\ booking'[q.of] = o
      /\ \A b \in Booking \ {q.of} : booking'[b] = booking[b]
  BY <1>1, <1>2, <1>3, <1>4, <1>5 DEF World
<1>7. /\ Stored' = Stored \cup (IF Inserts(q.kind) THEN {q.id} ELSE {})
      /\ Unread' = (Unread \ q.ids) \cup (IF Inserts(q.kind) THEN {q.id} ELSE {})
      /\ \A n \in Stored : /\ n # q.id /\ note'[n].kind = note[n].kind
                           /\ note'[n].of = note[n].of
                           /\ (IsRead(n))' <=> (IsRead(n) \/ n \in q.ids)
      /\ Inserts(q.kind) => /\ q.id \in Id /\ q.id \notin Stored
                            /\ note'[q.id] = [state |-> "unread", kind |-> q.kind, of |-> q.of]
      /\ Grows /\ q.ids \subseteq Stored
      /\ note' \in [Id -> [state : {"none", "unread", "read"}, kind : Kind,
                           of : Booking \cup {NoBooking}]]
  BY Committed
<1>8. PICK r : r = [req[w] EXCEPT !.pc = IF Inserts(q.kind) THEN "count" ELSE "tell",
                                  !.of = NoBooking, !.state = "none"]
  OBVIOUS
<1>9. /\ r \in Work /\ r.pc = (IF Inserts(q.kind) THEN "count" ELSE "tell") /\ r.of = NoBooking
      /\ r.kind = q.kind /\ r.by = q.by /\ r.id = q.id /\ r.ids = q.ids /\ r.count = q.count
  <2>1. req[w] \in Work /\ "none" \in State
    BY <1>1 DEF Typed, State
  <2> QED BY <1>8, <2>1 DEF Work
<1>10. /\ req' = [req EXCEPT ![w] = r] /\ req'[w] = r /\ req' \in [Worker -> Work]
       /\ \A v \in Worker \ {w} : req'[v] = req[v]
  <2>1. req' = [req EXCEPT ![w] = r]
    BY <1>1, <1>2, <1>8 DEF Jobs
  <2> QED BY <1>1, <1>9, <2>1 DEF Jobs
<1>11. missed' \in [Tab -> BOOLEAN]
  BY <1>2
<1> HIDE DEF q
<1>12. AnsweredIsRead'
  <2> SUFFICES ASSUME NEW b \in Booking, NEW n \in Unread', note'[n].of = b
               PROVE  /\ booking'[b] \in {"confirmed", "settled"} => note'[n].kind = "expired"
                      /\ booking'[b] \in {"none", "pending"} => note'[n].kind # "cancellation"
    BY DEF AnsweredIsRead
  <2>1. CASE n \in Unread \ q.ids
    <3>1. /\ n \in Stored /\ note[n].of = b /\ note[n].kind = note'[n].kind
          /\ note[n].kind \in Kind
      BY <1>1, <1>7, <2>1 DEF Typed
    <3>2. CASE b # q.of
      BY <1>1, <1>6, <2>1, <3>1, <3>2 DEF World, AnsweredIsRead
    <3>3. CASE b = q.of
      <4>1. note[n].kind \notin MarkedKinds(q.kind)
        BY <1>3, <2>1, <3>1, <3>3 DEF CommitOK, q
      <4>2. CASE q.kind \in {"accept", "decline"}
        BY <1>5, <3>1, <4>1, <4>2 DEF Kind
      <4>3. CASE q.kind \in {"requested", "expired"} /\ q.state \in {"none", "pending"}
        <5>1. booking[b] \in {"none", "pending"}
          BY <1>3, <3>3, <4>3 DEF CommitOK, q
        <5>2. note[n].kind # "cancellation"
          BY <1>1, <2>1, <3>1, <5>1 DEF World, AnsweredIsRead
        <5>3. q.kind = "expired" => note[n].kind = "expired"
          BY <1>5, <3>1, <4>1, <5>2 DEF Kind
        <5> QED BY <1>5, <1>6, <3>1, <3>3, <4>3, <5>2, <5>3
      <4>4. CASE o \notin {"none", "pending", "confirmed", "settled"}
        BY <1>6, <3>3, <4>4
      <4> QED BY <1>5, <4>2, <4>3, <4>4
    <3> QED BY <3>2, <3>3
  <2>2. CASE n \notin Unread \ q.ids
    <3>1. Inserts(q.kind) /\ n = q.id /\ note'[n].kind = q.kind /\ note'[n].of = q.of
      BY <1>7, <2>2
    <3>2. b = q.of /\ booking'[b] = o
      BY <1>6, <3>1
    <3> QED BY <1>5, <3>1, <3>2 DEF Inserts
  <2> QED BY <2>1, <2>2
<1>13. World'
  <2>1. Inserts(q.kind) => q.id <= drawn
    <3>1. Inserts(q.kind) => q.id \in 1 .. drawn
      BY <1>3 DEF CommitOK, q
    <3> QED BY <1>1, <3>1 DEF Typed
  <2>2. \A n \in Stored' : n <= drawn'
    BY <1>1, <1>2, <1>7, <2>1 DEF Typed
  <2> QED BY <1>1, <1>2, <1>6, <1>7, <1>12, <2>2 DEF World
<1>15. (RequestOK(w))'
  <2>1. r.ids \subseteq Stored' /\ \A n \in r.ids : (IsRead(n))'
    BY <1>7, <1>9
  <2>2. r.count <= drawn'
    BY <1>1, <1>2, <1>9 DEF RequestOK, q
  <2>3. r.pc \in {"count", "push"} =>
          r.kind \in Kind /\ r.id \in Stored' /\ note'[r.id].kind = r.kind
    BY <1>7, <1>9 DEF Inserts
  <2>4. r.pc \in {"count", "tell"}
    BY <1>9
  <2> QED BY <1>3, <1>9, <1>10, <2>1, <2>2, <2>3, <2>4 DEF RequestOK
<1>16. ASSUME NEW v \in Worker \ {w} PROVE (RequestOK(v))'
  <2>1. RequestOK(v) /\ req'[v] = req[v] /\ drawn' \in Nat
    BY <1>1, <1>2, <1>10 DEF Jobs, Typed
  <2>2. ASSUME req[v].pc = "commit" PROVE (CommitOK(v))'
    <3>1. CommitOK(v) /\ req[v].of \in Booking
      BY <2>1, <2>2 DEF RequestOK
    <3>2. /\ req[v].of # q.of /\ (req[v].id # 0 => req[v].id # q.id)
      BY <1>2, <3>1 DEF CommitOK, q
    <3>3. booking'[req[v].of] = booking[req[v].of]
      BY <1>6, <3>1, <3>2
    <3>4. IF Inserts(req[v].kind) THEN req[v].id \in 1 .. drawn' /\ req[v].id \notin Stored'
          ELSE req[v].id = 0
      <4>1. IF Inserts(req[v].kind) THEN req[v].id \in 1 .. drawn /\ req[v].id \notin Stored
            ELSE req[v].id = 0
        BY <3>1 DEF CommitOK
      <4>2. Inserts(req[v].kind) => req[v].id # 0
        BY <1>1, <4>1 DEF Typed
      <4> QED BY <1>2, <1>7, <3>2, <4>1, <4>2
    <3>5. \A u \in Worker \ {v} :
            req'[u].pc = "commit" => req'[u].of # req[v].of /\ (req[v].id # 0 => req'[u].id # req[v].id)
      BY <1>9, <1>10, <3>1 DEF CommitOK
    <3>6. ASSUME NEW n \in Unread', note'[n].of = req[v].of, note'[n].kind \in MarkedKinds(req[v].kind)
          PROVE  n \in req[v].ids
      <4>1. n \in Unread /\ n \in Stored
        BY <1>1, <1>7, <3>2, <3>6 DEF Typed
      <4> QED BY <1>7, <3>1, <3>6, <4>1 DEF CommitOK
    <3> QED BY <2>1, <3>1, <3>3, <3>4, <3>5, <3>6 DEF CommitOK
  <2> QED BY <1>1, <1>7, <2>1, <2>2, RequestKept
<1>17. Pages' /\ Jobs'
  <2>1. drawn' \in Nat
    BY <1>1, <1>2 DEF Typed
  <2> QED BY <1>1, <1>2, <1>7, <1>10, <1>11, <1>15, <1>16, <2>1, PagesKept DEF Jobs
<1>18. Dots'
  <2>1. \A v \in Worker : req[v].pc = "write" => req'[v] = req[v]
    BY <1>2, <1>10 DEF q
  <2>2. \A t \in Tab : \A n \in Range(tab'[t].items) \ tab'[t].fresh :
          n \in Range(tab[t].items) \ tab[t].fresh \/ (n \in Stored /\ IsRead(n))
    BY <1>2
  <2> QED BY <1>1, <1>7, <2>1, <2>2, DotsKept
<1> QED BY <1>13, <1>17, <1>18 DEF Safe

LEMMA RollBackSafe == ASSUME Safe, NEW w \in Worker, RollBack(w) PROVE Safe'
<1>1. PageTypes
  BY DEF Safe, Pages
<1> QED BY <1>1, DoneStep DEF RollBack, Done, PageTypes

LEMMA LoseSafe == ASSUME Safe, NEW w \in Worker, Lose(w) PROVE Safe'
<1>1. PageTypes
  BY DEF Safe, Pages
<1>2. missed' \in [Tab -> BOOLEAN]
  BY <1>1 DEF Lose, PageTypes
<1> QED BY <1>2, DoneStep DEF Lose, Done

LEMMA CountSafe == ASSUME Safe, NEW w \in Worker, Count(w) PROVE Safe'
<1>1. Typed /\ Jobs /\ RequestOK(w) /\ PageTypes
  BY SafeTypes DEF Safe, Jobs, Pages
<1>2. PICK c : c = Cardinality(Unread)
  OBVIOUS
<1>3. c \in Nat /\ c <= drawn
  BY <1>1, <1>2, UnreadBound DEF Typed
<1>4. PICK s : s = <<c>>
  OBVIOUS
<1>5. s \in Seq(Nat) /\ Len(s) = 1 /\ Head(s) = c
  BY <1>3, <1>4
<1>6. PICK r : r = [req[w] EXCEPT !.pc = "push", !.items = s]
  OBVIOUS
<1>7. /\ r \in Work /\ r.pc = "push" /\ r.items = s /\ r.of = req[w].of /\ r.kind = req[w].kind
      /\ r.by = req[w].by /\ r.id = req[w].id /\ r.ids = req[w].ids /\ r.count = req[w].count
  BY <1>1, <1>5, <1>6 DEF Typed, Work
<1>8. /\ req' = [req EXCEPT ![w] = r] /\ req[w].pc = "count"
      /\ UNCHANGED <<site, booking, note, drawn, tab, down, missed>>
  <2>1. req' = [req EXCEPT ![w].pc = "push", ![w].items = s]
    BY <1>2, <1>4 DEF Count
  <2> QED BY <1>1, <1>6, <2>1 DEF Count, Jobs
<1>9. req'[w] = r /\ Stored' = Stored /\ \A n \in Id : IsRead(n) <=> (IsRead(n))'
  BY <1>1, <1>7, <1>8 DEF Jobs, Stored, IsRead
<1>10. (RequestOK(w))'
  <2>1. /\ r.ids \subseteq Stored /\ r.count <= drawn /\ \A n \in r.ids : n \in Id /\ IsRead(n)
        /\ r.by # NoTab => r.kind \in {"accept", "decline"}
        /\ r.kind \in Kind /\ r.id \in Stored /\ note[r.id].kind = r.kind
    BY <1>1, <1>7, <1>8 DEF RequestOK, Typed
  <2> QED BY <1>3, <1>5, <1>7, <1>8, <1>9, <2>1 DEF RequestOK
<1> QED BY <1>1, <1>7, <1>8, <1>10, OwnStep DEF PageTypes

\* A broadcast appends a frame where it arrives.
LEMMA BroadcastAdds ==
  ASSUME Typed, PageTypes, NEW f \in Frame, Broadcast(f)
  PROVE  /\ down' \in [Tab -> Seq(Frame)] /\ missed' \in [Tab -> BOOLEAN]
         /\ \A t \in Tab : \/ down'[t] = down[t] /\ missed'[t]
                           \/ down'[t] = Append(down[t], f) /\ (missed'[t] <=> missed[t])
<1>1. PICK lost :
        LET told == {t \in Tab : ~lost /\ tab[t].link = "joined"}
        IN /\ down' = [t \in Tab |-> IF t \in told THEN Append(down[t], f) ELSE down[t]]
           /\ missed' = [t \in Tab |-> missed[t] \/ t \notin told]
  BY DEF Broadcast
<1> DEFINE told == {t \in Tab : ~lost /\ tab[t].link = "joined"}
<1>2. /\ down' = [t \in Tab |-> IF t \in told THEN Append(down[t], f) ELSE down[t]]
      /\ missed' = [t \in Tab |-> missed[t] \/ t \notin told]
  BY <1>1
<1> HIDE DEF told
<1>3. missed' \in [Tab -> BOOLEAN] /\ \A t \in Tab : missed'[t] <=> (missed[t] \/ t \notin told)
  BY <1>2
<1>4. \A t \in Tab : down[t] \in Seq(Frame)
  BY DEF Typed
<1>5. down' \in [Tab -> Seq(Frame)]
  BY <1>2, <1>4
<1>6. \A t \in Tab : down'[t] = IF t \in told THEN Append(down[t], f) ELSE down[t]
  BY <1>2
<1> QED BY <1>3, <1>5, <1>6

LEMMA BroadcastPages ==
  ASSUME Typed, Pages, NEW f \in Frame, Broadcast(f), UNCHANGED <<site, note, drawn, tab>>,
         {f.id} \cup f.ids \subseteq Stored \cup {0}, f.count <= drawn, \A n \in f.ids : IsRead(n)
  PROVE  Pages'
<1>1. /\ down' \in [Tab -> Seq(Frame)] /\ missed' \in [Tab -> BOOLEAN]
      /\ \A t \in Tab : down'[t] = down[t] \/ down'[t] = Append(down[t], f)
  BY BroadcastAdds DEF Pages
<1>2. Grows /\ drawn' \in Nat /\ Stored' = Stored
  BY Still DEF Typed
<1>3. ASSUME NEW t \in Tab PROVE (TabOK(t))'
  <2>1. CASE down'[t] = down[t]
    BY <1>2, <2>1, TabKept DEF Pages
  <2>2. CASE down'[t] = Append(down[t], f)
    <3>1. TabOK(t) /\ down[t] \in Seq(Frame)
      BY DEF Pages, Typed
    <3>2. \A n \in f.ids : (IsRead(n))'
      BY DEF IsRead
    <3>3. ASSUME NEW i \in DOMAIN down'[t]
          PROVE  /\ {down'[t][i].id} \cup down'[t][i].ids \subseteq Stored' \cup {0}
                 /\ down'[t][i].count <= drawn' /\ \A n \in down'[t][i].ids : (IsRead(n))'
      <4>1. (i \in DOMAIN down[t] /\ down'[t][i] = down[t][i]) \/ down'[t][i] = f
        BY <2>2, <3>1, <3>3, Sent
      <4>2. CASE i \in DOMAIN down[t] /\ down'[t][i] = down[t][i]
        <5>1. /\ {down[t][i].id} \cup down[t][i].ids \subseteq Stored \cup {0}
              /\ down[t][i].count <= drawn /\ \A n \in down[t][i].ids : IsRead(n)
          BY <3>1, <4>2 DEF TabOK
        <5>2. \A n \in down[t][i].ids : (IsRead(n))'
          BY <5>1 DEF IsRead
        <5> QED BY <1>2, <4>2, <5>1, <5>2
      <4>3. CASE down'[t][i] = f
        BY <1>2, <3>2, <4>3
      <4> QED BY <4>1, <4>2, <4>3
    <3> QED BY <1>2, <3>1, <3>3 DEF TabOK
  <2> QED BY <1>1, <2>1, <2>2
<1> QED BY <1>1, <1>3 DEF Pages, PageTypes

\* A request goes on to another step after its commit, having told the pages or not.
LEMMA TellStep ==
  ASSUME Safe, UNCHANGED <<site, booking, note, drawn, tab>>, NEW w \in Worker,
         NEW r \in Work, req' = [req EXCEPT ![w] = r], r.pc # "commit", (RequestOK(w))', Pages',
         req[w].pc # "write", r.of = NoBooking \/ (r.of = req[w].of /\ r.kind = req[w].kind)
  PROVE  Safe'
<1>1. Typed /\ Pages /\ Jobs /\ Dots
  BY SafeTypes DEF Safe
<1>2. Grows
  BY <1>1, Still DEF Typed
<1>3. \A v \in Worker : req[v].pc = "write" => req'[v] = req[v]
  BY <1>1 DEF Jobs
<1>4. \A t \in Tab : \A n \in Range(tab'[t].items) \ tab'[t].fresh :
        n \in Range(tab[t].items) \ tab[t].fresh \/ (n \in Stored /\ IsRead(n))
  OBVIOUS
<1>5. Dots'
  BY <1>1, <1>2, <1>3, <1>4, DotsKept
<1> QED BY <1>5, RequestStep

LEMMA PushSafe == ASSUME Safe, NEW w \in Worker, Push(w) PROVE Safe'
<1>1. Typed /\ Jobs /\ RequestOK(w) /\ Pages
  BY SafeTypes DEF Safe, Jobs
<1>2. PICK f : f = [id |-> req[w].id, ids |-> {}, count |-> Head(req[w].items)]
  OBVIOUS
<1>3. /\ req[w].pc = "push" /\ Broadcast(f) /\ UNCHANGED <<site, booking, note, drawn, tab>>
      /\ req' = [req EXCEPT ![w].pc = "tell"]
  BY <1>2 DEF Push, Goto
<1>4. /\ req[w].id \in Stored /\ Len(req[w].items) = 1 /\ Head(req[w].items) <= drawn
      /\ req[w].items \in Seq(Nat)
  BY <1>1, <1>3 DEF RequestOK, Typed
<1>5. Head(req[w].items) \in Nat
  BY <1>4
<1>6. f \in Frame /\ f.id = req[w].id /\ f.ids = {} /\ f.count = Head(req[w].items)
  BY <1>1, <1>2, <1>4, <1>5 DEF Frame, Typed
<1>7. Pages'
  BY <1>1, <1>3, <1>4, <1>6, BroadcastPages
<1>8. PICK r : r = [req[w] EXCEPT !.pc = "tell"]
  OBVIOUS
<1>9. /\ r \in Work /\ r.pc = "tell" /\ r.of = req[w].of /\ r.kind = req[w].kind
      /\ r.by = req[w].by /\ r.id = req[w].id /\ r.ids = req[w].ids /\ r.count = req[w].count
  BY <1>1, <1>8 DEF Typed, Work
<1>10. req' = [req EXCEPT ![w] = r] /\ req'[w] = r
  BY <1>1, <1>3, <1>8 DEF Jobs
<1>11. (RequestOK(w))'
  <2>1. /\ r.ids \subseteq Stored /\ r.count <= drawn /\ \A n \in r.ids : IsRead(n)
        /\ r.by # NoTab => r.kind \in {"accept", "decline"}
    BY <1>1, <1>3, <1>9 DEF RequestOK
  <2>2. Stored' = Stored /\ \A n \in r.ids : (IsRead(n))'
    BY <1>3, <2>1 DEF Stored, IsRead
  <2> QED BY <1>3, <1>9, <1>10, <2>1, <2>2 DEF RequestOK
<1> QED BY <1>3, <1>7, <1>9, <1>10, <1>11, TellStep

LEMMA TellSafe == ASSUME Safe, NEW w \in Worker, Tell(w) PROVE Safe'
<1>1. Typed /\ Jobs /\ RequestOK(w) /\ Pages
  BY SafeTypes DEF Safe, Jobs
<1>2. PICK f : f = [id |-> 0, ids |-> req[w].ids, count |-> req[w].count]
  OBVIOUS
<1>3. /\ req[w].pc = "tell" /\ UNCHANGED <<site, booking, note, drawn, tab>>
      /\ UNCHANGED <<down, missed>> \/ Broadcast(f)
      /\ IF req[w].by = NoTab THEN req' = [req EXCEPT ![w] = Idle]
         ELSE req' = [req EXCEPT ![w].pc = "answer"]
  BY <1>2 DEF Tell, Goto, Done
<1>4. /\ req[w].ids \subseteq Stored /\ req[w].count <= drawn /\ \A n \in req[w].ids : IsRead(n)
      /\ req[w].by # NoTab => req[w].kind \in {"accept", "decline"}
  BY <1>1, <1>3 DEF RequestOK
<1>5. f \in Frame /\ f.id = 0 /\ f.ids = req[w].ids /\ f.count = req[w].count
  BY <1>1, <1>2, Constants DEF Frame, Typed
<1>6. Pages'
  <2>1. CASE UNCHANGED <<down, missed>>
    <3>1. Grows /\ drawn' \in Nat /\ missed' \in [Tab -> BOOLEAN]
      BY <1>1, <1>3, <2>1, Still DEF Typed, Pages, PageTypes
    <3> QED BY <1>1, <1>3, <2>1, <3>1, PagesKept
  <2>2. CASE Broadcast(f)
    BY <1>1, <1>3, <1>4, <1>5, <2>2, BroadcastPages
  <2> QED BY <1>3, <2>1, <2>2
<1>7. CASE req[w].by = NoTab
  <2>1. req' = [req EXCEPT ![w] = Idle] /\ req'[w] = Idle
    BY <1>1, <1>3, <1>7 DEF Jobs
  <2>2. (RequestOK(w))'
    BY <1>1, <1>3, <2>1, IdleOK
  <2> QED BY <1>3, <1>6, <2>1, <2>2, IdleIs, TellStep
<1>8. CASE req[w].by # NoTab
  <2>1. PICK r : r = [req[w] EXCEPT !.pc = "answer"]
    OBVIOUS
  <2>2. /\ r \in Work /\ r.pc = "answer" /\ r.of = req[w].of /\ r.kind = req[w].kind
        /\ r.by = req[w].by /\ r.id = req[w].id /\ r.ids = req[w].ids /\ r.count = req[w].count
    BY <1>1, <2>1 DEF Typed, Work
  <2>3. req' = [req EXCEPT ![w] = r] /\ req'[w] = r
    BY <1>1, <1>3, <1>8, <2>1 DEF Jobs
  <2>4. (RequestOK(w))'
    <3>1. Stored' = Stored /\ \A n \in r.ids : (IsRead(n))'
      BY <1>3, <1>4, <2>2 DEF Stored, IsRead
    <3>2. r.by \in Tab
      BY <1>1, <1>8, <2>2 DEF Typed
    <3> QED BY <1>3, <1>4, <1>8, <2>2, <2>3, <3>1, <3>2 DEF RequestOK
  <2> QED BY <1>3, <1>6, <2>2, <2>3, <2>4, TellStep
<1> QED BY <1>7, <1>8

LEMMA ReadSafe == ASSUME Safe, NEW w \in Worker, Read(w) PROVE Safe'
<1>1. Typed /\ Jobs /\ RequestOK(w) /\ PageTypes
  BY SafeTypes DEF Safe, Jobs, Pages
<1>2. PICK c : c = Cardinality(Unread)
  OBVIOUS
<1>3. PICK s : s = NewestFirst(Stored)
  OBVIOUS
<1>4. PICK k : k = Requests
  OBVIOUS
<1>5. /\ c \in Nat /\ c <= drawn /\ k \in Nat
      /\ s \in Seq(Id) /\ Len(s) <= Cap /\ Range(s) \subseteq Stored /\ IsInjective(s)
  BY <1>1, <1>2, <1>3, <1>4, UnreadBound, Listed, RequestsType DEF Typed
<1>6. s \in Seq(Nat)
  <2>1. Id \subseteq Nat
    BY Constants DEF Id
  <2>2. Len(s) \in Nat /\ s \in [1 .. Len(s) -> Id]
    BY <1>5
  <2>3. s \in [1 .. Len(s) -> Nat]
    BY <2>1, <2>2
  <2> QED BY <2>2, <2>3
<1>7. PICK r : r = [req[w] EXCEPT !.pc = "render", !.count = c, !.items = s, !.ids = Unread,
                                  !.requests = k]
  OBVIOUS
<1>8. /\ r \in Work /\ r.pc = "render" /\ r.items = s /\ r.of = req[w].of /\ r.kind = req[w].kind
      /\ r.by = req[w].by /\ r.ids = Unread /\ r.count = c
  <2>1. Unread \in SUBSET Id
    BY <1>1 DEF Typed
  <2> QED BY <1>1, <1>5, <1>6, <1>7, <2>1, ZenonT(40) DEF Typed, Work
<1>9. /\ req' = [req EXCEPT ![w] = r] /\ req[w].pc = "read"
      /\ UNCHANGED <<site, booking, note, drawn, tab, down>>
      /\ missed' \in [Tab -> BOOLEAN]
  <2>1. req' = [req EXCEPT ![w].pc = "render", ![w].count = c, ![w].items = s,
                           ![w].ids = Unread, ![w].requests = k]
    BY <1>2, <1>3, <1>4 DEF Read
  <2>2. missed' \in [Tab -> BOOLEAN]
    BY <1>1 DEF Read, PageTypes
  <2> QED BY <1>1, <1>7, <2>1, <2>2 DEF Read, Jobs
<1>10. req'[w] = r /\ Stored' = Stored /\ Unread' = Unread
  BY <1>1, <1>8, <1>9 DEF Jobs, Stored, Unread
<1>11. (RequestOK(w))'
  <2>1. \A n \in Range(s) \ Unread : (IsRead(n))'
    BY <1>1, <1>5, <1>9 DEF Typed, Stored, Unread, IsRead
  <2>2. r.by \in Tab
    BY <1>1, <1>8, <1>9 DEF RequestOK
  <2>3. Unread \subseteq Stored
    BY <1>1 DEF Typed
  <2> QED BY <1>5, <1>8, <1>9, <1>10, <2>1, <2>2, <2>3 DEF RequestOK
<1> QED BY <1>8, <1>9, <1>11, OwnStep

\* What marking does to the notifications.
LEMMA Marked ==
  ASSUME Safe, NEW w \in Worker, Write(w)
  PROVE  LET ids == IF req[w].kind = "one" THEN {req[w].id} ELSE Unread
         IN /\ ids \subseteq Stored /\ Stored' = Stored /\ Unread' = Unread \ ids /\ Grows
            /\ \A n \in Id : note'[n].kind = note[n].kind /\ note'[n].of = note[n].of
            /\ \A n \in ids : (IsRead(n))'
            /\ note' \in [Id -> [state : {"none", "unread", "read"}, kind : Kind,
                                 of : Booking \cup {NoBooking}]]
<1> DEFINE ids == IF req[w].kind = "one" THEN {req[w].id} ELSE Unread
<1>1. Typed /\ World /\ RequestOK(w)
  BY SafeTypes DEF Safe, Jobs
<1>2. /\ req[w].pc = "write" /\ site' = site /\ drawn' = drawn
      /\ note' = [n \in Id |-> IF n \in ids THEN [note[n] EXCEPT !.state = "read"] ELSE note[n]]
  BY DEF Write
<1>3. ids \subseteq Stored
  BY <1>1, <1>2 DEF RequestOK, Typed
<1> HIDE DEF ids
<1>4. ASSUME NEW n \in Id
      PROVE  /\ note'[n] \in [state : {"none", "unread", "read"}, kind : Kind,
                              of : Booking \cup {NoBooking}]
             /\ note'[n].kind = note[n].kind /\ note'[n].of = note[n].of
             /\ note'[n].state = IF n \in ids THEN "read" ELSE note[n].state
  <2>1. note[n] \in [state : {"none", "unread", "read"}, kind : Kind, of : Booking \cup {NoBooking}]
    BY <1>1 DEF World
  <2> QED BY <1>2, <2>1
<1>5. note' \in [Id -> [state : {"none", "unread", "read"}, kind : Kind, of : Booking \cup {NoBooking}]]
  <2>1. note' = [n \in Id |-> note'[n]]
    BY <1>2
  <2> QED BY <1>4, <2>1
<1>6. Stored' = Stored
  BY <1>3, <1>4 DEF Stored
<1>7. Unread' = Unread \ ids
  BY <1>4 DEF Unread
<1>8. \A n \in ids : (IsRead(n))'
  BY <1>1, <1>3, <1>4 DEF IsRead, Typed
<1>9. Grows
  <2>1. drawn' >= drawn
    BY <1>1, <1>2 DEF Typed
  <2>2. \A n \in Stored : n \in Id
    BY <1>1 DEF Typed
  <2> QED BY <1>2, <1>4, <1>6, <2>1, <2>2 DEF Grows, IsRead
<1> QED BY <1>3, <1>4, <1>5, <1>6, <1>7, <1>8, <1>9 DEF ids

LEMMA WriteSafe == ASSUME Safe, NEW w \in Worker, Write(w) PROVE Safe'
<1> DEFINE q == req[w]
           ids == IF q.kind = "one" THEN {q.id} ELSE Unread
<1>1. Typed /\ World /\ Pages /\ Jobs /\ Dots /\ RequestOK(w)
  BY SafeTypes DEF Safe, Jobs
<1>2. PICK r : r = IF q.by = NoTab THEN Idle
                   ELSE IF q.kind = "one" THEN [Idle EXCEPT !.pc = "read", !.by = q.by]
                   ELSE [q EXCEPT !.pc = "answer"]
  OBVIOUS
<1>3. /\ q.pc = "write" /\ UNCHANGED <<site, booking, drawn, tab, down>>
      /\ req' = [req EXCEPT ![w] = r] /\ missed' = [t \in Tab |-> missed[t] \/ t # q.by]
  BY <1>2 DEF Write
<1>4. /\ ids \subseteq Stored /\ Stored' = Stored /\ Unread' = Unread \ ids /\ Grows
      /\ \A n \in Id : note'[n].kind = note[n].kind /\ note'[n].of = note[n].of
      /\ \A n \in ids : (IsRead(n))'
      /\ note' \in [Id -> [state : {"none", "unread", "read"}, kind : Kind,
                           of : Booking \cup {NoBooking}]]
  BY Marked
<1>5. q.kind \in {"one", "all"} /\ q.ids = {} /\ q.count = 0 /\ (q.by # NoTab => q.by \in Tab)
  BY <1>1, <1>3 DEF RequestOK, Typed
<1>6. /\ r \in Work
      /\ r.of = NoBooking \/ (r.of = q.of /\ r.kind = q.kind)
      /\ r.ids = {} /\ r.count = 0
      /\ \/ r = Idle
         \/ r.pc = "read" /\ r.by \in Tab
         \/ r.pc = "answer" /\ r.by \in Tab /\ r.kind = "all"
  <2>1. req[w] \in Work
    BY <1>1 DEF Typed
  <2>2. CASE q.by = NoTab
    BY <1>2, <2>2, IdleIs
  <2>3. CASE q.by # NoTab /\ q.kind = "one"
    BY <1>2, <1>5, <2>3, IdleIs DEF Work
  <2>4. CASE q.by # NoTab /\ q.kind # "one"
    BY <1>2, <1>5, <2>1, <2>4 DEF Work
  <2> QED BY <2>2, <2>3, <2>4
<1>7. req'[w] = r /\ req' \in [Worker -> Work] /\ \A v \in Worker \ {w} : req'[v] = req[v]
  BY <1>1, <1>3, <1>6 DEF Jobs
<1>8. missed' \in [Tab -> BOOLEAN] /\ drawn' \in Nat
  BY <1>1, <1>3 DEF Typed
<1> HIDE DEF q, ids
<1>9. World'
  <2>1. AnsweredIsRead'
    BY <1>1, <1>3, <1>4 DEF World, AnsweredIsRead, Typed
  <2> QED BY <1>1, <1>3, <1>4, <2>1 DEF World
<1>10. (RequestOK(w))'
  <2>1. CASE r = Idle
    BY <1>1, <1>3, <1>7, <2>1, IdleOK
  <2>2. CASE r # Idle
    BY <1>1, <1>3, <1>6, <1>7, <2>2 DEF RequestOK, Typed
  <2> QED BY <2>1, <2>2
<1>11. ASSUME NEW v \in Worker \ {w} PROVE (RequestOK(v))'
  <2>1. RequestOK(v) /\ req'[v] = req[v]
    BY <1>1, <1>7 DEF Jobs
  <2>2. ASSUME req[v].pc = "commit" PROVE (CommitOK(v))'
    <3>1. CommitOK(v)
      BY <2>1, <2>2 DEF RequestOK
    <3>2. r.pc # "commit"
      BY <1>6, IdleIs
    <3>3. \A u \in Worker \ {v} : req'[u].pc = "commit" => req'[u] = req[u]
      BY <1>7, <3>2
    <3>4. \A n \in Unread' : n \in Unread /\ n \in Id
      BY <1>1, <1>4 DEF Typed
    <3> QED BY <1>3, <1>4, <2>1, <3>1, <3>3, <3>4 DEF CommitOK
  <2> QED BY <1>1, <1>4, <1>8, <2>1, <2>2, RequestKept
<1>13. Pages' /\ Jobs'
  BY <1>1, <1>3, <1>4, <1>7, <1>8, <1>10, <1>11, PagesKept DEF Jobs
<1>14. Dots'
  <2> SUFFICES ASSUME ~site.faults, NEW t \in Tab, NEW n \in Range(tab'[t].items) \ tab'[t].fresh
               PROVE  \/ (IsRead(n))'
                      \/ \E v \in Worker :
                           req'[v].pc = "write" /\ (req'[v].kind = "all" \/ req'[v].id = n)
    BY <1>3 DEF Dots, DimmedOK
  <2>1. n \in Stored /\ n \in Range(tab[t].items) \ tab[t].fresh
    BY <1>1, <1>3 DEF Pages, TabOK
  <2>2. CASE IsRead(n)
    BY <1>4, <2>1, <2>2 DEF Grows
  <2>3. CASE n \in ids
    BY <1>4, <2>3
  <2>4. CASE ~IsRead(n) /\ n \notin ids
    <3>1. PICK v \in Worker : req[v].pc = "write" /\ (req[v].kind = "all" \/ req[v].id = n)
      BY <1>1, <2>1, <2>4 DEF Dots, DimmedOK
    <3>2. v # w
      <4>1. n \in Unread
        BY <1>1, <2>1, <2>4 DEF Typed, Stored, Unread, IsRead
      <4>2. q.kind # "one" /\ q.kind # "all"  => FALSE
        BY <1>5
      <4>3. CASE q.kind = "one"
        BY <2>4, <3>1, <4>3 DEF ids, q
      <4>4. CASE q.kind = "all"
        BY <2>4, <4>1, <4>4 DEF ids
      <4> QED BY <4>2, <4>3, <4>4
    <3> QED BY <1>7, <3>1, <3>2
  <2> QED BY <2>2, <2>3, <2>4
<1> QED BY <1>9, <1>13, <1>14 DEF Safe

\* A request ends with its answer, or its page, in the tab it came from.
LEMMA ServeStep ==
  ASSUME Safe, UNCHANGED <<site, booking, note, drawn, missed>>, NEW w \in Worker,
         req' = [req EXCEPT ![w] = Idle], req[w].pc # "write",
         NEW t \in Tab, NEW p \in Page, tab' = [tab EXCEPT ![t] = p],
         NEW f \in {down[t], <<>>}, down' = [down EXCEPT ![t] = f],
         Range(p.items) \subseteq Stored, Len(p.items) <= Cap, p.fresh \subseteq Range(p.items),
         p.badge <= drawn, IsInjective(p.items),
         \A n \in Range(p.items) \ p.fresh :
           n \in Range(tab[t].items) \ tab[t].fresh \/ (n \in Stored /\ IsRead(n))
  PROVE  Safe'
<1>1. Typed /\ Pages /\ Jobs /\ Dots
  BY SafeTypes DEF Safe
<1>2. Grows /\ drawn' \in Nat /\ Stored' = Stored
  BY <1>1, Still DEF Typed
<1>3. req'[w] = Idle /\ \A v \in Worker \ {w} : req'[v] = req[v]
  BY <1>1, IdleIs DEF Jobs
<1>4. f \in Seq(Frame) /\ \A i \in DOMAIN f : i \in DOMAIN down[t] /\ f[i] = down[t][i]
  <2>1. down[t] \in Seq(Frame)
    BY <1>1 DEF Typed
  <2>2. CASE f = down[t]
    BY <2>1, <2>2
  <2>3. CASE f = <<>>
    BY <2>3
  <2> QED BY <2>2, <2>3
<1>5. /\ tab'[t] = p /\ down'[t] = f /\ tab' \in [Tab -> Page] /\ down' \in [Tab -> Seq(Frame)]
      /\ \A u \in Tab \ {t} : tab'[u] = tab[u] /\ down'[u] = down[u]
  BY <1>1, <1>4 DEF Pages, PageTypes
<1>6. (TabOK(t))'
  <2>1. TabOK(t) /\ p.badge \in Nat
    BY <1>1 DEF Pages, Page
  <2>2. ASSUME NEW i \in DOMAIN f
        PROVE  /\ {f[i].id} \cup f[i].ids \subseteq Stored' \cup {0}
               /\ f[i].count <= drawn' /\ \A n \in f[i].ids : (IsRead(n))'
    <3>1. i \in DOMAIN down[t] /\ f[i] = down[t][i] /\ f[i].ids \in SUBSET Id
      BY <1>1, <1>4 DEF Typed
    <3>2. /\ {f[i].id} \cup f[i].ids \subseteq Stored \cup {0}
          /\ f[i].count <= drawn /\ \A n \in f[i].ids : IsRead(n)
      BY <2>1, <3>1 DEF TabOK
    <3>3. \A n \in f[i].ids : (IsRead(n))'
      BY <3>2 DEF IsRead
    <3> QED BY <1>2, <3>1, <3>2, <3>3
  <2>3. p.badge \in 0 .. drawn'
    BY <1>1, <2>1 DEF Typed
  <2> QED BY <1>2, <1>5, <2>2, <2>3 DEF TabOK
<1>7. Pages'
  <2>1. \A u \in Tab \ {t} : (TabOK(u))'
    BY <1>1, <1>2, <1>5, TabKept DEF Pages
  <2> QED BY <1>1, <1>5, <1>6, <2>1 DEF Pages, PageTypes
<1>8. Dots'
  <2>1. \A u \in Tab : \A n \in Range(tab'[u].items) \ tab'[u].fresh :
          n \in Range(tab[u].items) \ tab[u].fresh \/ (n \in Stored /\ IsRead(n))
    BY <1>5
  <2>2. \A v \in Worker : req[v].pc = "write" => req'[v] = req[v]
    BY <1>3
  <2> QED BY <1>1, <1>2, <2>1, <2>2, DotsKept
<1>9. (RequestOK(w))'
  BY <1>1, <1>3, IdleOK
<1> QED BY <1>7, <1>8, <1>9, IdleIs, RequestStep

\* What the answer leaves of a page.
LEMMA Answered ==
  ASSUME Safe, NEW w \in Worker, Answer(w)
  PROVE  LET r == req[w]
         IN \E p \in Page :
              /\ tab' = [tab EXCEPT ![r.by] = p] /\ r.by \in Tab /\ tab'[r.by] = p
              /\ p.items = tab[r.by].items /\ p.fresh = tab[r.by].fresh \ r.ids
              /\ p.badge = r.count /\ p.open = tab[r.by].open
              /\ p.requests = IF r.kind = "all" THEN tab[r.by].requests
                              ELSE AtLeastZero(tab[r.by].requests - 1)
<1> DEFINE r == req[w]
<1>1. Typed /\ RequestOK(w) /\ Pages
  BY SafeTypes DEF Safe, Jobs
<1>2. /\ r.pc = "answer"
      /\ tab' = [tab EXCEPT ![r.by] =
           IF r.kind = "all" THEN ShowRead(tab[r.by], r.ids, r.count)
           ELSE [ShowRead(tab[r.by], r.ids, r.count) EXCEPT !.requests = AtLeastZero(@ - 1)]]
  BY DEF Answer
<1>3. r.by \in Tab /\ r.count \in Nat /\ tab[r.by] \in Page /\ tab[r.by].requests \in Nat
  BY <1>1, <1>2 DEF RequestOK, Typed
<1>4. PICK a : a = ShowRead(tab[r.by], r.ids, r.count)
  OBVIOUS
<1>5. /\ a \in Page /\ a.items = tab[r.by].items /\ a.fresh = tab[r.by].fresh \ r.ids
      /\ a.badge = r.count /\ a.requests = tab[r.by].requests /\ a.open = tab[r.by].open
  <2> HIDE DEF r
  <2> QED BY <1>3, <1>4, ShownRead
<1>6. PICK d : d = AtLeastZero(tab[r.by].requests - 1)
  OBVIOUS
<1>7. d \in Nat
  BY <1>3, <1>6 DEF AtLeastZero
<1>8. PICK p : p = IF r.kind = "all" THEN a ELSE [a EXCEPT !.requests = d]
  OBVIOUS
<1>9. /\ p \in Page /\ p.items = tab[r.by].items /\ p.fresh = tab[r.by].fresh \ r.ids
      /\ p.badge = r.count /\ p.open = tab[r.by].open
      /\ p.requests = IF r.kind = "all" THEN tab[r.by].requests ELSE d
  BY <1>5, <1>7, <1>8 DEF Page
<1>10. tab' = [tab EXCEPT ![r.by] = p]
  <2>1. [a EXCEPT !.requests = AtLeastZero(@ - 1)] = [a EXCEPT !.requests = d]
    BY <1>5, <1>6
  <2> HIDE DEF r
  <2> QED BY <1>2, <1>4, <1>8, <2>1
<1>11. tab'[r.by] = p
  BY <1>1, <1>3, <1>10 DEF Pages, PageTypes
<1> QED BY <1>3, <1>6, <1>9, <1>10, <1>11

LEMMA AnswerSafe == ASSUME Safe, NEW w \in Worker, Answer(w) PROVE Safe'
<1>1. Typed /\ RequestOK(w) /\ Pages
  BY SafeTypes DEF Safe, Jobs
<1>2. PICK p \in Page :
              /\ tab' = [tab EXCEPT ![req[w].by] = p] /\ req[w].by \in Tab
              /\ p.items = tab[req[w].by].items /\ p.fresh = tab[req[w].by].fresh \ req[w].ids
              /\ p.badge = req[w].count
  BY Answered
<1>3. PICK t \in Tab : t = req[w].by
  BY <1>2
<1>4. TabOK(t) /\ req[w].pc = "answer"
  BY <1>1 DEF Pages, Answer
<1>5. req[w].count <= drawn /\ req[w].ids \subseteq Stored /\ \A n \in req[w].ids : IsRead(n)
  BY <1>1, <1>4 DEF RequestOK
<1>6. /\ Range(p.items) \subseteq Stored /\ Len(p.items) <= Cap /\ p.fresh \subseteq Range(p.items)
      /\ p.badge <= drawn /\ IsInjective(p.items)
      /\ \A n \in Range(p.items) \ p.fresh :
           n \in Range(tab[t].items) \ tab[t].fresh \/ (n \in Stored /\ IsRead(n))
  BY <1>2, <1>3, <1>4, <1>5 DEF TabOK
<1>7. down' = [down EXCEPT ![t] = down[t]] /\ tab' = [tab EXCEPT ![t] = p]
      /\ UNCHANGED <<site, booking, note, drawn, missed>> /\ req' = [req EXCEPT ![w] = Idle]
  BY <1>1, <1>2, <1>3 DEF Answer, Done, Pages, PageTypes
<1> QED BY <1>4, <1>6, <1>7, ServeStep

LEMMA RenderSafe == ASSUME Safe, NEW w \in Worker, Render(w) PROVE Safe'
<1> DEFINE r == req[w]
<1>1. Typed /\ RequestOK(w) /\ Pages
  BY SafeTypes DEF Safe, Jobs
<1>2. PICK p : p = [open |-> TRUE, items |-> r.items, badge |-> r.count,
                    fresh |-> r.ids \cap Range(r.items), requests |-> r.requests, link |-> "closed"]
  OBVIOUS
<1>3. /\ r.pc = "render" /\ tab' = [tab EXCEPT ![r.by] = p] /\ down' = [down EXCEPT ![r.by] = <<>>]
      /\ UNCHANGED <<site, booking, note, drawn, missed>> /\ req' = [req EXCEPT ![w] = Idle]
  BY <1>2 DEF Render, Done
<1>4. /\ r.by \in Tab /\ Range(r.items) \subseteq Stored /\ Len(r.items) <= Cap
      /\ IsInjective(r.items) /\ (\A n \in Range(r.items) \ r.ids : IsRead(n)) /\ r.count <= drawn
  BY <1>1, <1>3 DEF RequestOK
<1>5. r.items \in Seq(Id)
  <2>1. r.items \in Seq(Nat) /\ Stored \subseteq Id
    BY <1>1 DEF Typed
  <2>2. Len(r.items) \in Nat /\ r.items = [i \in 1 .. Len(r.items) |-> r.items[i]]
    BY <2>1, SMTT(30)
  <2>3. \A i \in 1 .. Len(r.items) : r.items[i] \in Id
    BY <1>4, <2>1, <2>2 DEF Range
  <2>4. r.items \in [1 .. Len(r.items) -> Id]
    BY <2>2, <2>3
  <2> QED BY <2>2, <2>4
<1>6. p \in Page /\ p.items = r.items /\ p.fresh = r.ids \cap Range(r.items) /\ p.badge = r.count
  <2>1. r.count \in Nat /\ r.requests \in Nat /\ r.ids \cap Range(r.items) \in SUBSET Id
    BY <1>1, <1>4 DEF Typed
  <2> HIDE DEF r
  <2> QED BY <1>2, <1>5, <2>1 DEF Page
<1>7. PICK t \in Tab : t = r.by
  BY <1>4
<1> QED BY <1>3, <1>4, <1>6, <1>7, ServeStep

-----------------------------------------------------------------------------
(* What the pages count, with handlers one at a time.                      *)

\* What the invariant says of a worker that has something to do.
LEMMA Busy ==
  ASSUME SerialOK, NEW w \in Worker, req[w].pc # "idle"
  PROVE  /\ CountedOK(w) /\ \A v \in Worker \ {w} : req[v].pc = "idle"
         /\ \A t \in Tab : TellingOK(t) /\ (Told(t) => Lacks(w, t))
BY DEF SerialOK

\* A worker that starts finds everything as it is to be.
LEMMA Starting ==
  ASSUME SerialOK, site.serial, NEW w \in Worker, NEW r, Start(w, r)
  PROVE  /\ Quiet /\ req' = [req EXCEPT ![w] = r]
         /\ \A t \in Tab : down[t] = <<>> /\ (Told(t) => Right(t))
BY DEF SerialOK, Start, Quiet

\* After a step of w, only w's request is under way, or none.
LEMMA Assembled ==
  ASSUME SerialOK, blurred' = blurred \/ blurred' \in [Tab -> BOOLEAN],
         NEW w \in Worker, \A v \in Worker \ {w} : req'[v].pc = "idle", (CountedOK(w))',
         \A t \in Tab : (TellingOK(t))',
         \A t \in Tab : (Told(t))' => IF req'[w].pc = "idle" THEN (Right(t))' ELSE (Lacks(w, t))'
  PROVE  SerialOK'
<1>1. \A v \in Worker : (CountedOK(v))'
  BY DEF CountedOK
<1>2. \A u, v \in Worker : req'[u].pc # "idle" /\ req'[v].pc # "idle" => u = v
  OBVIOUS
<1>3. ASSUME NEW t \in Tab, (Told(t))'
      PROVE  /\ Quiet' => (Right(t))'
             /\ \A v \in Worker : req'[v].pc # "idle" => (Lacks(v, t))'
  BY <1>3 DEF Quiet
<1>4. blurred' \in [Tab -> BOOLEAN]
  BY DEF SerialOK
<1> QED BY <1>1, <1>2, <1>3, <1>4 DEF SerialOK

LEMMA IdleCounted == ASSUME NEW w \in Worker, req'[w].pc = "idle" PROVE (CountedOK(w))'
BY DEF CountedOK

\* What a page shows depends on its count, its badge and its frames.
LEMMA RightKept ==
  ASSUME NEW t \in Tab, UNCHANGED <<booking, note>>, down'[t] = down[t], blurred'[t] = blurred[t],
         tab'[t].badge = tab[t].badge, tab'[t].requests = tab[t].requests
  PROVE  /\ Right(t) <=> (Right(t))'
         /\ \A d \in Int : RequestsOK(t, d) <=> (RequestsOK(t, d))'
<1>1. Unread' = Unread /\ Requests' = Requests
  BY DEF Unread, Requests, Awaiting
<1>2. (Coming(t))' = Coming(t)
  BY DEF Coming, Change
<1>3. ASSUME NEW d \in Int PROVE RequestsOK(t, d) <=> (RequestsOK(t, d))'
  BY <1>1, <1>2 DEF RequestsOK
<1>4. BadgeOK(t) <=> (BadgeOK(t))'
  BY <1>1 DEF BadgeOK
<1> QED BY <1>3, <1>4 DEF Right

LEMMA TellingKept ==
  ASSUME NEW t \in Tab, note' = note, down'[t] = down[t], TellingOK(t)
  PROVE  (TellingOK(t))'
<1>1. Unread' = Unread
  BY DEF Unread
<1> QED BY <1>1 DEF TellingOK

LEMMA NothingTold == ASSUME NEW t \in Tab, down'[t] = <<>> PROVE (TellingOK(t))'
BY DEF TellingOK

\* Typing of the counts.
LEMMA CountTypes ==
  ASSUME Typed, NEW t \in Tab
  PROVE  /\ tab[t].requests \in Nat /\ Requests \in Nat /\ Coming(t) \in {-1, 0, 1}
         /\ Cardinality(Unread) \in Nat
         /\ down[t] = <<>> => Coming(t) = 0
BY RequestsType, UnreadBound DEF Typed, Coming, Change

\* How the count of requests moves with one booking.
LEMMA RequestsMove ==
  ASSUME Typed, NEW b \in Booking, NEW s \in State, booking'[b] = s,
         \A o \in Booking \ {b} : booking'[o] = booking[o]
  PROVE  /\ (booking[b] \in Open <=> s \in Open) => Requests' = Requests
         /\ booking[b] \notin Open /\ s \in Open => Requests' = Requests + 1
         /\ booking[b] \in Open /\ s \notin Open => Requests' = Requests - 1
<1> DEFINE A == {o \in Booking : Awaiting(o)}
           B == {o \in Booking : (Awaiting(o))'}
<1>1. IsFiniteSet(A) /\ Cardinality(A) \in Nat
  BY Constants, FS_Subset, FS_CardinalityType
<1>2. Requests = Cardinality(A) /\ Requests' = Cardinality(B)
  BY DEF Requests
<1>3. \A o \in Booking : (o \in A <=> booking[o] \in Open) /\ (o \in B <=> booking'[o] \in Open)
  BY DEF Awaiting
<1> HIDE DEF A, B
<1>4. A \subseteq Booking /\ B \subseteq Booking
  BY DEF A, B
<1>5. ASSUME booking[b] \in Open <=> s \in Open PROVE A = B
  BY <1>3, <1>4, <1>5
<1>6. ASSUME booking[b] \notin Open, s \in Open PROVE Cardinality(B) = Cardinality(A) + 1
  <2>1. B = A \cup {b} /\ b \notin A
    BY <1>3, <1>4, <1>6
  <2> QED BY <1>1, <2>1, FS_AddElement
<1>7. ASSUME booking[b] \in Open, s \notin Open PROVE Cardinality(B) = Cardinality(A) - 1
  <2>1. B = A \ {b} /\ b \in A
    BY <1>3, <1>4, <1>7
  <2> QED BY <1>1, <2>1, FS_RemoveElement
<1> QED BY <1>2, <1>5, <1>6, <1>7

-----------------------------------------------------------------------------
(* The steps of a page.                                                    *)

LEMMA InitSerial == Init => SerialOK
<1> SUFFICES ASSUME Init PROVE SerialOK
  OBVIOUS
<1>1. \A w \in Worker : req[w].pc = "idle"
  BY IdleIs DEF Init
<1>2. \A w \in Worker : CountedOK(w)
  BY <1>1 DEF CountedOK
<1>3. \A t \in Tab : TellingOK(t) /\ ~Told(t)
  BY DEF Init, TellingOK, Told, NoPage
<1>4. blurred \in [Tab -> BOOLEAN]
  BY DEF Init
<1> QED BY <1>1, <1>2, <1>3, <1>4 DEF SerialOK

\* The step of a page changes nothing that another page or a request depends on.
LEMMA PageCounts ==
  ASSUME Safe, SerialOK, UNCHANGED <<site, booking, note, drawn, req>>, NEW t \in Tab,
         \A u \in Tab \ {t} : tab'[u] = tab[u] /\ down'[u] = down[u] /\ missed'[u] = missed[u],
         blurred' \in [Tab -> BOOLEAN], \A u \in Tab \ {t} : blurred'[u] = blurred[u],
         \A i \in DOMAIN down'[t] :
           \E k \in DOMAIN down[t] : down'[t][i].id # 0 => down[t][k].id # 0,
         down[t] = <<>> => down'[t] = <<>>, (TellingOK(t))',
         (Told(t))' => /\ Quiet => (Right(t))'
                       /\ \A w \in Worker : req[w].pc # "idle" => (Lacks(w, t))'
  PROVE  SerialOK'
<1>1. Unread' = Unread /\ Requests' = Requests /\ (Quiet' <=> Quiet)
  BY DEF Unread, Requests, Awaiting, Quiet
<1>2. ASSUME NEW w \in Worker PROVE (CountedOK(w))'
  <2>1. CountedOK(w) /\ req'[w] = req[w]
    BY DEF SerialOK
  <2>2. ASSUME req[w].pc \in {"tell", "answer"}, req[w].by # NoTab
        PROVE  \A u \in Tab : \A i \in DOMAIN down'[u] : down'[u][i].id = 0
    BY <2>1, <2>2 DEF CountedOK
  <2>3. ASSUME req[w].pc \notin {"idle", "tell", "answer"} PROVE \A u \in Tab : down'[u] = <<>>
    BY <2>1, <2>3 DEF CountedOK
  <2>4. req[w].pc = "commit" =>
          req[w].count = (Left(req[w].ids, IF Inserts(req[w].kind) THEN 1 ELSE 0))'
    BY <1>1, <2>1 DEF CountedOK, Left
  <2> QED BY <1>1, <2>1, <2>2, <2>3, <2>4 DEF CountedOK
<1>3. ASSUME NEW u \in Tab \ {t}
      PROVE  /\ (TellingOK(u))'
             /\ (Told(u))' => /\ Quiet => (Right(u))'
                              /\ \A w \in Worker : req[w].pc # "idle" => (Lacks(w, u))'
  <2>1. (TellingOK(u))' /\ ((Told(u))' => Told(u))
    BY TellingKept DEF SerialOK, Told
  <2>2. (Right(u) <=> (Right(u))') /\ \A d \in Int : RequestsOK(u, d) <=> (RequestsOK(u, d))'
    BY RightKept
  <2>3. ASSUME Told(u) PROVE /\ Quiet => Right(u)
                             /\ \A w \in Worker : req[w].pc # "idle" => Lacks(w, u)
    BY <2>3 DEF SerialOK
  <2>4. ASSUME NEW w \in Worker, Lacks(w, u) PROVE (Lacks(w, u))'
    <3>1. Change(req[w].kind) \in Int
      BY DEF Change
    <3> QED BY <2>2, <2>4, <3>1 DEF Lacks
  <2> QED BY <2>1, <2>2, <2>3, <2>4
<1>4. \A v, w \in Worker : req'[v].pc # "idle" /\ req'[w].pc # "idle" => v = w
  BY DEF SerialOK
<1> QED BY <1>1, <1>2, <1>3, <1>4 DEF SerialOK

\* Nor does what is only about the socket.
LEMMA SocketCounts ==
  ASSUME Safe, SerialOK, UNCHANGED <<site, booking, note, drawn, blurred, req>>, NEW t \in Tab,
         NEW p, tab' = [tab EXCEPT ![t] = p], p.open = tab[t].open, p.badge = tab[t].badge,
         p.requests = tab[t].requests, down'[t] = down[t],
         \A u \in Tab \ {t} : down'[u] = down[u] /\ missed'[u] = missed[u],
         missed[t] => missed'[t]
  PROVE  SerialOK'
<1>1. tab'[t] = p /\ \A u \in Tab \ {t} : tab'[u] = tab[u]
  BY DEF Safe, Pages, PageTypes
<1>2. (TellingOK(t))' /\ ((Told(t))' => Told(t))
  BY <1>1, TellingKept DEF SerialOK, Told
<1>3. (Right(t) <=> (Right(t))') /\ \A d \in Int : RequestsOK(t, d) <=> (RequestsOK(t, d))'
  BY <1>1, RightKept
<1>4. ASSUME Told(t) PROVE /\ Quiet => Right(t)
                           /\ \A w \in Worker : req[w].pc # "idle" => Lacks(w, t)
  BY <1>4 DEF SerialOK
<1>5. ASSUME NEW w \in Worker, Lacks(w, t) PROVE (Lacks(w, t))'
  <2>1. Change(req[w].kind) \in Int
    BY DEF Change
  <2> QED BY <1>3, <1>5, <2>1 DEF Lacks
<1>6. blurred' \in [Tab -> BOOLEAN]
  BY DEF SerialOK
<1> QED BY <1>1, <1>2, <1>3, <1>4, <1>5, <1>6, PageCounts

LEMMA ConnectCounts == ASSUME Safe, SerialOK, NEW t \in Tab, Connect(t) PROVE SerialOK'
<1>1. PICK p : p = [tab[t] EXCEPT !.link = "open"]
  OBVIOUS
<1>2. p.open = tab[t].open /\ p.badge = tab[t].badge /\ p.requests = tab[t].requests
  BY <1>1, SafeTypes DEF Typed, Page
<1>3. tab' = [tab EXCEPT ![t] = p]
  BY <1>1 DEF Connect, Safe, Pages, PageTypes
<1> QED BY <1>2, <1>3, SocketCounts DEF Connect

LEMMA JoinCounts == ASSUME Safe, SerialOK, NEW t \in Tab, Join(t) PROVE SerialOK'
<1>1. PICK joined : tab' = [tab EXCEPT ![t].link = IF joined THEN "joined" ELSE "deaf"]
  BY DEF Join
<1>2. PICK p : p = [tab[t] EXCEPT !.link = IF joined THEN "joined" ELSE "deaf"]
  OBVIOUS
<1>3. p.open = tab[t].open /\ p.badge = tab[t].badge /\ p.requests = tab[t].requests
  BY <1>2, SafeTypes DEF Typed, Page
<1>4. tab' = [tab EXCEPT ![t] = p]
  BY <1>1, <1>2 DEF Safe, Pages, PageTypes
<1> QED BY <1>3, <1>4, SocketCounts DEF Join

LEMMA DisconnectCounts == ASSUME Safe, SerialOK, NEW t \in Tab, Disconnect(t) PROVE SerialOK'
<1>1. PICK p : p = [tab[t] EXCEPT !.link = "closed"]
  OBVIOUS
<1>2. p.open = tab[t].open /\ p.badge = tab[t].badge /\ p.requests = tab[t].requests
  BY <1>1, SafeTypes DEF Typed, Page
<1>3. /\ tab' = [tab EXCEPT ![t] = p] /\ down' = [down EXCEPT ![t] = <<>>]
      /\ missed' = [missed EXCEPT ![t] = missed[t] \/ down[t] # <<>>]
      /\ UNCHANGED <<site, booking, note, drawn, blurred, req>>
      /\ PageTypes
  BY <1>1 DEF Disconnect, Safe, Pages, PageTypes
<1>4. /\ tab'[t] = p /\ down'[t] = <<>> /\ (missed'[t] <=> missed[t] \/ down[t] # <<>>)
      /\ \A u \in Tab \ {t} : tab'[u] = tab[u] /\ down'[u] = down[u] /\ missed'[u] = missed[u]
  BY <1>3 DEF PageTypes
<1>5. CASE down[t] = <<>>
  BY <1>2, <1>3, <1>4, <1>5, SocketCounts, ZenonT(40)
<1>6. CASE down[t] # <<>>
  <2>1. ~(Told(t))'
    BY <1>4, <1>6 DEF Told
  <2>2. \A i \in DOMAIN down'[t] :
           \E k \in DOMAIN down[t] : down'[t][i].id # 0 => down[t][k].id # 0
    BY <1>4
  <2>3. blurred' \in [Tab -> BOOLEAN]
    BY <1>3 DEF SerialOK
  <2> QED BY <1>3, <1>4, <2>1, <2>2, <2>3, NothingTold, PageCounts
<1> QED BY <1>5, <1>6

LEMMA OpenRequestsCounts == ASSUME Safe, SerialOK, NEW t \in Tab, OpenRequests(t) PROVE SerialOK'
<1>1. PICK p : p = [tab[t] EXCEPT !.requests = Requests]
  OBVIOUS
<1>2. p.open = tab[t].open /\ p.badge = tab[t].badge /\ p.requests = Requests
  BY <1>1, SafeTypes DEF Typed, Page
<1>3. /\ tab' = [tab EXCEPT ![t] = p] /\ down[t] = <<>> /\ Quiet
      /\ UNCHANGED <<site, booking, note, drawn, down, missed, req>>
      /\ PageTypes /\ Typed
  BY <1>1, SafeTypes DEF OpenRequests, Quiet, Safe, Pages
<1>4. tab'[t] = p /\ \A u \in Tab \ {t} : tab'[u] = tab[u]
  BY <1>3 DEF PageTypes
<1>5. ASSUME (Told(t))' PROVE (Right(t))'
  <2>1. Told(t)
    BY <1>2, <1>3, <1>4, <1>5 DEF Told
  <2>2. BadgeOK(t)
    BY <1>3, <2>1 DEF SerialOK, Right
  <2>3. (BadgeOK(t))'
    BY <1>2, <1>3, <1>4, <2>2 DEF BadgeOK, Unread
  <2>4. (Coming(t))' = 0 /\ Requests' = Requests /\ Requests \in Nat
    BY <1>3, RequestsType DEF Coming, Requests, Awaiting
  <2> QED BY <1>2, <1>4, <2>3, <2>4 DEF Right, RequestsOK
<1>6. \A w \in Worker : req[w].pc = "idle"
  BY <1>3 DEF Quiet
<1>7. (TellingOK(t))'
  BY <1>3, NothingTold
<1>8. blurred' \in [Tab -> BOOLEAN] /\ \A u \in Tab \ {t} : blurred'[u] = blurred[u]
  BY DEF OpenRequests, SerialOK
<1> QED BY <1>3, <1>4, <1>5, <1>6, <1>7, <1>8, PageCounts

\* What a frame leaves of the counts: the badge as the frame says, the requests as foreseen.
LEMMA Received ==
  ASSUME Safe, SerialOK, NEW t \in Tab, Receive(t)
  PROVE  /\ tab'[t].badge = Cardinality(Unread) /\ ((Told(t))' => Told(t))
         /\ (Coming(t))' = 0
         /\ tab'[t].requests = AtLeastZero(tab[t].requests + Coming(t))
         /\ \A u \in Tab \ {t} : tab'[u] = tab[u] /\ down'[u] = down[u]
<1>1. Typed /\ PageTypes /\ TabOK(t) /\ TellingOK(t)
  BY SafeTypes DEF Safe, Pages, SerialOK
<1> DEFINE f == Head(down[t])
           p == IF f.id # 0 THEN ShowNew(tab[t], f.id, f.count) ELSE ShowRead(tab[t], f.ids, f.count)
<1>2. /\ down[t] \in Seq(Frame) /\ down[t] # <<>> /\ tab[t] \in Page
      /\ tab' = [tab EXCEPT ![t] = p] /\ down' = [down EXCEPT ![t] = Tail(down[t])]
      /\ UNCHANGED <<site, booking, note, drawn, missed, req>>
  BY <1>1 DEF Receive, Typed
<1>3. /\ f = down[t][1] /\ 1 \in DOMAIN down[t]
      /\ Tail(down[t]) # <<>> => 2 \in DOMAIN down[t] /\ Head(Tail(down[t])) = down[t][2]
  BY <1>2, Taken
<1>4. f.count = Cardinality(Unread)
  BY <1>1, <1>3 DEF TellingOK
<1>5. f.id \in Stored \cup {0} /\ f.count \in Nat /\ f.ids \in SUBSET Id
  BY <1>1, <1>3 DEF TabOK, Typed
<1>6. PICK q : q = p
  OBVIOUS
<1>7. tab'[t] = q /\ down'[t] = Tail(down[t])
      /\ \A u \in Tab \ {t} : tab'[u] = tab[u] /\ down'[u] = down[u]
  BY <1>1, <1>2, <1>6 DEF PageTypes
<1>8. /\ q.badge = f.count /\ q.open = tab[t].open
      /\ q.requests = AtLeastZero(tab[t].requests + Coming(t))
  <2>1. CASE f.id = 0
    <3>1. p = ShowRead(tab[t], f.ids, f.count)
      BY <2>1
    <3>2. p.badge = f.count /\ p.open = tab[t].open /\ p.requests = tab[t].requests
      <4> HIDE DEF p, f
      <4> QED BY <1>2, <1>5, <3>1, ShownRead
    <3>3. Coming(t) = 0
      BY <2>1 DEF Coming
    <3>4. tab[t].requests \in Nat
      BY <1>1 DEF Typed
    <3>5. AtLeastZero(tab[t].requests + Coming(t)) = tab[t].requests
      BY <3>3, <3>4 DEF AtLeastZero
    <3> HIDE DEF p, f
    <3> QED BY <1>6, <3>2, <3>5
  <2>2. CASE f.id # 0
    <3>1. f.id \in Id /\ p = ShowNew(tab[t], f.id, f.count)
      BY <1>1, <1>5, <2>2 DEF Typed
    <3>2. /\ p.badge = f.count /\ p.open = tab[t].open
          /\ p.requests = AtLeastZero(tab[t].requests + Change(note[f.id].kind))
      <4> HIDE DEF p, f
      <4> QED BY <1>1, <1>2, <1>5, <3>1, ShownNew DEF TabOK
    <3>3. Coming(t) = Change(note[f.id].kind)
      BY <1>2, <2>2 DEF Coming
    <3> HIDE DEF p, f
    <3> QED BY <1>6, <3>2, <3>3
  <2> QED BY <2>1, <2>2
<1>9. (Coming(t))' = 0
  <2>1. ASSUME down'[t] # <<>> PROVE Head(down'[t]).id = 0
    <3>1. 2 \in DOMAIN down[t] /\ Head(down'[t]) = down[t][2]
      BY <1>3, <1>7, <2>1
    <3> QED BY <1>1, <3>1 DEF TellingOK
  <2> QED BY <2>1 DEF Coming
<1>10. (Told(t))' => Told(t)
  BY <1>2, <1>7, <1>8 DEF Told
<1> HIDE DEF p, f
<1> QED BY <1>4, <1>7, <1>8, <1>9, <1>10

LEMMA ReceiveCounts == ASSUME Safe, SerialOK, NEW t \in Tab, Receive(t) PROVE SerialOK'
<1>1. Typed /\ PageTypes /\ TellingOK(t)
  BY SafeTypes DEF Safe, Pages, SerialOK
<1>2. /\ tab'[t].badge = Cardinality(Unread) /\ ((Told(t))' => Told(t))
      /\ (Coming(t))' = 0
      /\ tab'[t].requests = AtLeastZero(tab[t].requests + Coming(t))
      /\ \A u \in Tab \ {t} : tab'[u] = tab[u] /\ down'[u] = down[u]
  BY Received
<1>3. /\ down[t] \in Seq(Frame) /\ down[t] # <<>> /\ down'[t] = Tail(down[t])
      /\ UNCHANGED <<site, booking, note, drawn, missed, blurred, req>>
  BY <1>1 DEF Receive, Typed, PageTypes
<1>4. \A i \in DOMAIN down'[t] : i + 1 \in DOMAIN down[t] /\ i + 1 # 1 /\ down'[t][i] = down[t][i + 1]
  BY <1>3, Taken
<1>5. \A i \in DOMAIN down'[t] :
        \E k \in DOMAIN down[t] : down'[t][i].id # 0 => down[t][k].id # 0
  BY <1>4
<1>6. Unread' = Unread /\ Requests' = Requests /\ Requests \in Nat
  BY <1>3, RequestsType DEF Unread, Requests, Awaiting
<1>7. (TellingOK(t))'
  BY <1>1, <1>4, <1>6 DEF TellingOK
<1>8. ASSUME NEW d \in {0, -1}, RequestsOK(t, d) PROVE (RequestsOK(t, d))'
  <2> SUFFICES ASSUME ~blurred'[t] PROVE tab'[t].requests + (Coming(t))' + d = Requests'
    BY DEF RequestsOK
  <2>1. tab[t].requests \in Nat /\ Coming(t) \in {-1, 0, 1}
    BY <1>1, CountTypes
  <2>2. tab[t].requests + Coming(t) + d = Requests
    BY <1>3, <1>8 DEF RequestsOK
  <2>3. tab[t].requests + Coming(t) >= 0
    BY <1>6, <2>1, <2>2
  <2>4. tab'[t].requests = tab[t].requests + Coming(t)
    BY <1>2, <2>1, <2>3 DEF AtLeastZero
  <2> QED BY <1>2, <1>6, <2>1, <2>2, <2>4
<1>9. (BadgeOK(t))'
  BY <1>2, <1>6 DEF BadgeOK
<1>10. Right(t) => (Right(t))'
  BY <1>8, <1>9 DEF Right
<1>11. ASSUME (Told(t))', Quiet PROVE (Right(t))'
  BY <1>2, <1>10, <1>11 DEF SerialOK
<1>12. ASSUME (Told(t))', NEW w \in Worker, req[w].pc # "idle" PROVE (Lacks(w, t))'
  <2>1. Lacks(w, t) /\ CountedOK(w) /\ req'[w] = req[w]
    BY <1>2, <1>3, <1>12 DEF SerialOK
  <2>2. req[w].pc \in {"tell", "answer"}
    BY <1>3, <1>12, <2>1 DEF CountedOK
  <2> QED BY <1>8, <1>10, <2>1, <2>2 DEF Lacks
<1>13. blurred' \in [Tab -> BOOLEAN]
  BY <1>3 DEF SerialOK
<1> QED BY <1>2, <1>3, <1>5, <1>7, <1>11, <1>12, <1>13, PageCounts

-----------------------------------------------------------------------------
(* The start of a request.                                                 *)

LEMMA StartCounts ==
  ASSUME Safe, SerialOK, site.serial, NEW w \in Worker, NEW r, Start(w, r),
         UNCHANGED <<site, booking, note, drawn, down, missed, blurred>>,
         r.pc \in {"lock", "read", "write"}, r.pc = "lock" => booking[r.of] = r.state,
         r.pc = "read" => r.kind = "load", r.pc = "write" => r.kind \in {"one", "all"},
         \A t \in Tab : /\ tab'[t].open = tab[t].open /\ tab'[t].requests = tab[t].requests
                        /\ \/ tab'[t].badge = tab[t].badge
                           \/ r.by = t /\ r.pc = "write"
  PROVE  SerialOK'
<1>1. /\ Quiet /\ req' = [req EXCEPT ![w] = r]
      /\ \A t \in Tab : down[t] = <<>> /\ (Told(t) => Right(t))
  BY Starting
<1>2. req'[w] = r /\ \A v \in Worker \ {w} : req'[v].pc = "idle"
  BY <1>1 DEF Quiet, Safe, Jobs
<1>3. (CountedOK(w))'
  BY <1>1, <1>2 DEF CountedOK
<1>4. \A t \in Tab : (TellingOK(t))'
  BY <1>1, NothingTold
<1>5. ASSUME NEW t \in Tab, (Told(t))' PROVE (Lacks(w, t))'
  <2>1. Told(t) /\ Right(t)
    BY <1>1, <1>5 DEF Told
  <2>2. (RequestsOK(t, 0))'
    BY <2>1 DEF Right, RequestsOK, Requests, Awaiting, Coming, Change
  <2>3. CASE tab'[t].badge = tab[t].badge
    <3>1. (Right(t))'
      BY <2>1, <2>3, RightKept
    <3> QED BY <1>2, <2>2, <3>1 DEF Lacks
  <2>4. CASE r.by = t /\ r.pc = "write"
    BY <1>2, <2>2, <2>4 DEF Lacks
  <2> QED BY <2>3, <2>4
<1> QED BY <1>2, <1>3, <1>4, <1>5, Assembled

LEMMA LoadCounts ==
  ASSUME Safe, SerialOK, site.serial, NEW w \in Worker, NEW t \in Tab, Load(w, t)
  PROVE  SerialOK'
<1>1. PICK r : r = [Idle EXCEPT !.pc = "read", !.by = t]
  OBVIOUS
<1>2. r.pc = "read" /\ r.kind = "load"
  BY <1>1 DEF Idle
<1>3. Start(w, r) /\ UNCHANGED <<site, booking, note, drawn, tab, down, missed, blurred>>
  BY <1>1 DEF Load
<1> QED BY <1>2, <1>3, StartCounts

LEMMA MarkOneCounts ==
  ASSUME Safe, SerialOK, site.serial, NEW w \in Worker, NEW t \in Tab, NEW n \in Id,
         MarkOne(w, t, n)
  PROVE  SerialOK'
<1>1. PICK r : r = [Idle EXCEPT !.pc = "write", !.kind = "one", !.by = t, !.id = n]
  OBVIOUS
<1>2. r.pc = "write" /\ r.kind = "one"
  BY <1>1 DEF Idle
<1>3. Start(w, r) /\ UNCHANGED <<site, booking, note, drawn, down, missed, blurred>>
  BY <1>1 DEF MarkOne
<1>4. \A u \in Tab : /\ tab'[u].open = tab[u].open /\ tab'[u].requests = tab[u].requests
                     /\ tab'[u].badge = tab[u].badge
  BY SafeTypes DEF MarkOne, Safe, Pages, PageTypes, Page
<1> QED BY <1>2, <1>3, <1>4, StartCounts

LEMMA MarkAllCounts ==
  ASSUME Safe, SerialOK, site.serial, NEW w \in Worker, NEW t \in Tab \cup {NoTab}, MarkAll(w, t)
  PROVE  SerialOK'
<1>1. PICK r : r = [Idle EXCEPT !.pc = "write", !.kind = "all", !.by = t]
  OBVIOUS
<1>2. r.pc = "write" /\ r.kind = "all" /\ r.by = t
  BY <1>1 DEF Idle
<1>3. Start(w, r) /\ UNCHANGED <<site, booking, note, drawn, down, missed, blurred>>
  BY <1>1 DEF MarkAll
<1>4. \A u \in Tab : /\ tab'[u].open = tab[u].open /\ tab'[u].requests = tab[u].requests
                     /\ tab'[u].badge = tab[u].badge \/ u = t
  BY DEF MarkAll, Safe, Pages, PageTypes, Page
<1> QED BY <1>2, <1>3, <1>4, StartCounts

LEMMA HandlersCounts ==
  ASSUME Safe, SerialOK, site.serial, NEW w \in Worker, NEW b \in Booking,
         \/ Request(w, b) \/ Ask(w, b) \/ CancelLesson(w, b) \/ Expire(w, b)
         \/ \E t \in Tab \cup {NoTab} : Respond(w, t, b)
  PROVE  SerialOK'
<1>1. PICK kind, t, states : Handle(w, kind, b, t, states)
  BY DEF Request, Ask, CancelLesson, Expire, Respond
<1>2. PICK r : r = [Idle EXCEPT !.pc = "lock", !.kind = kind, !.of = b, !.state = booking[b],
                               !.by = t]
  OBVIOUS
<1>3. r.pc = "lock" /\ r.of = b /\ r.state = booking[b]
  BY <1>2 DEF Idle
<1>4. Start(w, r) /\ UNCHANGED <<site, booking, note, drawn, tab, down, missed, blurred>>
  BY <1>1, <1>2 DEF Handle
<1> QED BY <1>3, <1>4, StartCounts

-----------------------------------------------------------------------------
(* The steps of a request that change no notification and tell nobody.     *)

\* Only w's request goes on: what its pages lacked before it they may lack still.
LEMMA GoesOn ==
  ASSUME Safe, SerialOK, NEW w \in Worker, req[w].pc # "idle", NEW r, req' = [req EXCEPT ![w] = r],
         UNCHANGED <<site, booking, note, tab, down, blurred>>, (CountedOK(w))',
         \A t \in Tab : missed[t] => missed'[t],
         \A t \in Tab : (Told(t))' =>
           IF r.pc = "idle" THEN (Right(t))' ELSE (Lacks(w, t))'
  PROVE  SerialOK'
<1>1. req'[w] = r /\ \A v \in Worker \ {w} : req'[v].pc = "idle"
  BY Busy DEF Safe, Jobs
<1>2. \A t \in Tab : (TellingOK(t))'
  BY TellingKept DEF SerialOK
<1> QED BY <1>1, <1>2, Assembled

\* The request ends before anything was written.
LEMMA GivenUp ==
  ASSUME Safe, SerialOK, NEW w \in Worker, req[w].pc \in {"lock", "commit"},
         req' = [req EXCEPT ![w] = Idle],
         UNCHANGED <<site, booking, note, drawn, tab, down, missed, blurred>>
  PROVE  SerialOK'
<1>1. req'[w] = Idle
  BY DEF Safe, Jobs
<1>2. (CountedOK(w))'
  BY <1>1, IdleIs, IdleCounted
<1>3. ASSUME NEW t \in Tab, (Told(t))' PROVE (Right(t))'
  <2>1. Told(t) /\ Lacks(w, t)
    BY <1>3, Busy DEF Told
  <2>2. Right(t)
    BY <2>1 DEF Lacks
  <2> QED BY <2>2, RightKept
<1> QED BY <1>2, <1>3, IdleIs, GoesOn

LEMMA LockCounts == ASSUME Safe, SerialOK, NEW w \in Worker, Lock(w) PROVE SerialOK'
<1> DEFINE q == req[w]
           new == IF Inserts(q.kind) THEN 1 ELSE 0
           ids == {n \in Unread : note[n].of = q.of /\ note[n].kind \in MarkedKinds(q.kind)}
           stops == \/ q.kind \in {"requested", "expired"} /\ booking[q.of] # q.state
                    \/ drawn + new > site.notes
<1>1. /\ q.pc = "lock" /\ UNCHANGED <<site, booking, note, tab, down, missed, blurred>>
      /\ IF stops THEN Done(w) /\ UNCHANGED drawn
         ELSE req' = [req EXCEPT ![w].pc = "commit", ![w].ids = ids,
                           ![w].id = IF new = 1 THEN drawn + 1 ELSE 0,
                           ![w].count = Left(ids, new)]
  BY DEF Lock
<1>2. Typed /\ Jobs
  BY SafeTypes DEF Safe
<1>3. CASE stops
  <2> HIDE DEF stops
  <2>1. req' = [req EXCEPT ![w] = Idle] /\ UNCHANGED drawn
    BY <1>1, <1>3 DEF Done
  <2> QED BY <1>1, <2>1, GivenUp
<1>4. CASE ~stops
  <2>1. PICK c : c = Left(ids, new)
    OBVIOUS
  <2>2. PICK id : id = IF new = 1 THEN drawn + 1 ELSE 0
    OBVIOUS
  <2>3. PICK m : m = ids
    OBVIOUS
  <2>4. PICK r : r = [req[w] EXCEPT !.pc = "commit", !.ids = m, !.id = id, !.count = c]
    OBVIOUS
  <2>5. /\ r.pc = "commit" /\ r.ids = m /\ r.count = c /\ r.kind = q.kind /\ r.of = q.of
        /\ r.state = q.state
    BY <1>2, <2>4 DEF Typed, Work
  <2>6. req' = [req EXCEPT ![w] = r]
    <3>1. req' = [req EXCEPT ![w].pc = "commit", ![w].ids = m, ![w].id = id, ![w].count = c]
      <4> HIDE DEF ids, stops, new
      <4> QED BY <1>1, <1>4, <2>1, <2>2, <2>3
    <3> QED BY <1>2, <2>4, <3>1 DEF Jobs
  <2>7. req'[w] = r
    BY <1>2, <2>6 DEF Jobs
  <2>8. CountedOK(w) /\ \A t \in Tab : Told(t) => Lacks(w, t)
    BY <1>1, Busy
  <2>9. (CountedOK(w))'
    <3>1. (\A t \in Tab : down[t] = <<>>) /\ booking[q.of] = q.state
      BY <1>1, <2>8 DEF CountedOK
    <3>2. r.count = (Left(r.ids, IF Inserts(r.kind) THEN 1 ELSE 0))'
      BY <1>1, <2>1, <2>3, <2>5 DEF Left, Unread
    <3> HIDE DEF q, new, ids
    <3> QED BY <1>1, <2>5, <2>7, <3>1, <3>2 DEF CountedOK
  <2>10. ASSUME NEW t \in Tab, (Told(t))' PROVE (Lacks(w, t))'
    <3>1. Told(t) /\ Lacks(w, t)
      BY <1>1, <2>8, <2>10 DEF Told
    <3>2. Right(t)
      BY <1>1, <3>1 DEF Lacks
    <3>3. (Right(t))'
      BY <1>1, <3>2, RightKept
    <3> QED BY <2>5, <2>7, <3>3 DEF Lacks
  <2> QED BY <1>1, <2>5, <2>6, <2>9, <2>10, GoesOn
<1> QED BY <1>3, <1>4

LEMMA RollBackCounts == ASSUME Safe, SerialOK, NEW w \in Worker, RollBack(w) PROVE SerialOK'
BY GivenUp DEF RollBack, Done

LEMMA LoseCounts == ASSUME Safe, SerialOK, NEW w \in Worker, Lose(w) PROVE SerialOK'
<1>1. /\ req' = [req EXCEPT ![w] = Idle] /\ req[w].pc \in {"write", "answer", "read"}
      /\ missed' = [missed EXCEPT ![req[w].by] = TRUE] /\ req[w].by # NoTab
      /\ UNCHANGED <<site, booking, note, drawn, tab, down, blurred>>
  BY DEF Lose, Done
<1>2. Typed /\ PageTypes /\ req'[w] = Idle /\ req[w].by \in Tab
  BY <1>1, SafeTypes DEF Safe, Pages, Jobs, Typed
<1>3. (CountedOK(w))'
  BY <1>2, IdleIs, IdleCounted
<1>4. \A t \in Tab : missed'[t] <=> (missed[t] \/ t = req[w].by)
  BY <1>1, <1>2 DEF PageTypes
<1>5. ASSUME NEW t \in Tab, (Told(t))' PROVE (Right(t))'
  <2>1. Told(t) /\ t # req[w].by
    BY <1>1, <1>4, <1>5 DEF Told
  <2>2. Lacks(w, t)
    BY <1>1, <2>1, Busy
  <2>3. Right(t)
    BY <1>1, <2>1, <2>2 DEF Lacks
  <2> QED BY <1>1, <2>3, RightKept
<1> QED BY <1>1, <1>3, <1>4, <1>5, IdleIs, GoesOn

LEMMA CountCounts == ASSUME Safe, SerialOK, NEW w \in Worker, Count(w) PROVE SerialOK'
<1>1. PICK c : c = Cardinality(Unread)
  OBVIOUS
<1>2. PICK s : s = <<c>>
  OBVIOUS
<1>3. PICK r : r = [req[w] EXCEPT !.pc = "push", !.items = s]
  OBVIOUS
<1>4. /\ req[w].pc = "count" /\ UNCHANGED <<site, booking, note, drawn, tab, down, missed, blurred>>
      /\ req' = [req EXCEPT ![w].pc = "push", ![w].items = s]
  BY <1>1, <1>2 DEF Count
<1>5. Typed /\ Jobs
  BY SafeTypes DEF Safe
<1>6. /\ r.pc = "push" /\ r.items = s /\ r.kind = req[w].kind /\ r.count = req[w].count
  BY <1>3, <1>5 DEF Typed, Work
<1>7. req' = [req EXCEPT ![w] = r] /\ req'[w] = r
  BY <1>3, <1>4, <1>5 DEF Jobs
<1>8. CountedOK(w) /\ \A t \in Tab : Told(t) => Lacks(w, t)
  BY <1>4, Busy
<1>9. (CountedOK(w))'
  <2>1. Head(s) = c /\ Unread' = Unread
    BY <1>2, <1>4 DEF Unread
  <2>2. (\A t \in Tab : down[t] = <<>>) /\ req[w].count = Cardinality(Unread)
    BY <1>4, <1>8 DEF CountedOK
  <2> QED BY <1>1, <1>4, <1>6, <1>7, <2>1, <2>2 DEF CountedOK
<1>10. ASSUME NEW t \in Tab, (Told(t))' PROVE (Lacks(w, t))'
  <2>1. Told(t) /\ Lacks(w, t)
    BY <1>4, <1>8, <1>10 DEF Told
  <2>2. RequestsOK(t, Change(req[w].kind)) /\ Change(req[w].kind) \in Int
    BY <1>4, <2>1 DEF Lacks, Change
  <2>3. (RequestsOK(t, Change(r.kind)))'
    BY <1>4, <1>6, <2>2 DEF RequestsOK, Requests, Awaiting, Coming, Change
  <2> QED BY <1>6, <1>7, <2>3 DEF Lacks
<1> QED BY <1>4, <1>6, <1>7, <1>9, <1>10, GoesOn

LEMMA ReadCounts == ASSUME Safe, SerialOK, site.serial, NEW w \in Worker, Read(w) PROVE SerialOK'
<1>1. Typed /\ Jobs /\ RequestOK(w) /\ PageTypes
  BY SafeTypes DEF Safe, Jobs, Pages
<1>2. PICK c : c = Cardinality(Unread)
  OBVIOUS
<1>3. PICK s : s = NewestFirst(Stored)
  OBVIOUS
<1>4. PICK k : k = Requests
  OBVIOUS
<1>5. PICK m : m = Unread
  OBVIOUS
<1>6. PICK r : r = [req[w] EXCEPT !.pc = "render", !.count = c, !.items = s, !.ids = m,
                                  !.requests = k]
  OBVIOUS
<1>7. /\ req[w].pc = "read" /\ UNCHANGED <<site, booking, note, drawn, tab, down>>
      /\ missed' = [missed EXCEPT ![req[w].by] = FALSE]
      /\ blurred' = [blurred EXCEPT ![req[w].by] = FALSE]
      /\ req' = [req EXCEPT ![w].pc = "render", ![w].count = c, ![w].items = s,
                            ![w].ids = m, ![w].requests = k]
  BY <1>2, <1>3, <1>4, <1>5 DEF Read
<1>8. /\ r.pc = "render" /\ r.kind = req[w].kind /\ r.by = req[w].by /\ r.count = c
      /\ r.requests = k
  BY <1>1, <1>6 DEF Typed, Work
<1>9. req' = [req EXCEPT ![w] = r] /\ req'[w] = r /\ \A v \in Worker \ {w} : req'[v] = req[v]
  BY <1>1, <1>6, <1>7 DEF Jobs
<1>10. CountedOK(w) /\ \A v \in Worker \ {w} : req'[v].pc = "idle"
  BY <1>7, <1>9, Busy
<1>11. req[w].kind = "load" /\ \A t \in Tab : down[t] = <<>>
  BY <1>7, <1>10 DEF CountedOK
<1>12. (CountedOK(w))'
  <2>1. Unread' = Unread /\ Requests' = Requests
    BY <1>7 DEF Unread, Requests, Awaiting
  <2> QED BY <1>2, <1>4, <1>7, <1>8, <1>9, <1>11, <2>1 DEF CountedOK
<1>13. /\ \A t \in Tab : t # req[w].by => missed'[t] = missed[t] /\ blurred'[t] = blurred[t]
       /\ blurred' \in [Tab -> BOOLEAN]
  BY <1>1, <1>7 DEF PageTypes, SerialOK
<1>14. ASSUME NEW t \in Tab, (Told(t))' PROVE (Lacks(w, t))'
  <2>1. CASE t = req[w].by
    BY <1>8, <1>9, <1>11, <2>1 DEF Lacks
  <2>2. CASE t # req[w].by
    <3>1. Told(t)
      BY <1>7, <1>13, <1>14, <2>2 DEF Told
    <3>2. Lacks(w, t)
      BY <1>7, <3>1, Busy
    <3>3. Right(t)
      BY <1>7, <2>2, <3>2 DEF Lacks
    <3>4. (Right(t))'
      BY <1>7, <1>13, <2>2, <3>3, RightKept
    <3> QED BY <1>8, <1>9, <2>2, <3>4 DEF Lacks
  <2> QED BY <2>1, <2>2
<1>15. \A t \in Tab : (TellingOK(t))'
  BY <1>7, <1>11, NothingTold
<1> QED BY <1>8, <1>9, <1>10, <1>12, <1>13, <1>14, <1>15, Assembled

\* The page opens with what was read for it.
LEMMA RenderCounts == ASSUME Safe, SerialOK, NEW w \in Worker, Render(w) PROVE SerialOK'
<1> DEFINE q == req[w]
<1>1. Typed /\ Jobs /\ RequestOK(w) /\ PageTypes
  BY SafeTypes DEF Safe, Jobs, Pages
<1>2. PICK p : p = [open |-> TRUE, items |-> q.items, badge |-> q.count,
                    fresh |-> q.ids \cap Range(q.items), requests |-> q.requests, link |-> "closed"]
  OBVIOUS
<1>3. /\ q.pc = "render" /\ tab' = [tab EXCEPT ![q.by] = p] /\ down' = [down EXCEPT ![q.by] = <<>>]
      /\ UNCHANGED <<site, booking, note, drawn, missed, blurred>> /\ req' = [req EXCEPT ![w] = Idle]
  BY <1>2 DEF Render, Done
<1>4. p.badge = q.count /\ p.requests = q.requests /\ q.by \in Tab
  BY <1>1, <1>2, <1>3 DEF RequestOK
<1>5. CountedOK(w) /\ \A v \in Worker \ {w} : req[v].pc = "idle"
  BY <1>3, Busy
<1>6. /\ q.count = Cardinality(Unread) /\ q.requests = Requests
      /\ \A t \in Tab : down[t] = <<>>
  BY <1>3, <1>5 DEF CountedOK
<1>7. req'[w] = Idle /\ \A v \in Worker \ {w} : req'[v].pc = "idle"
  BY <1>1, <1>3, <1>5 DEF Jobs
<1>8. /\ tab'[q.by] = p /\ \A t \in Tab : down'[t] = <<>>
      /\ \A t \in Tab : t # q.by => tab'[t] = tab[t]
  BY <1>1, <1>3, <1>4, <1>6 DEF PageTypes
<1> HIDE DEF q
<1>9. Unread' = Unread /\ Requests' = Requests /\ Requests \in Nat
  BY <1>3, RequestsType DEF Unread, Requests, Awaiting
<1>10. ASSUME NEW t \in Tab, (Told(t))' PROVE (Right(t))'
  <2>1. CASE t = q.by
    <3>1. tab'[t].badge = Cardinality(Unread') /\ tab'[t].requests = Requests'
      BY <1>4, <1>6, <1>8, <1>9, <2>1
    <3>2. (Coming(t))' = 0
      BY <1>8 DEF Coming
    <3> QED BY <1>9, <3>1, <3>2 DEF Right, BadgeOK, RequestsOK
  <2>2. CASE t # q.by
    <3>1. Told(t)
      BY <1>3, <1>8, <1>10, <2>2 DEF Told
    <3>2. Lacks(w, t)
      BY <1>3, <3>1, Busy DEF q
    <3>3. Right(t)
      BY <1>3, <2>2, <3>2 DEF Lacks, q
    <3>4. down'[t] = down[t]
      BY <1>6, <1>8
    <3> QED BY <1>3, <1>8, <2>2, <3>3, <3>4, RightKept
  <2> QED BY <2>1, <2>2
<1>11. \A t \in Tab : (TellingOK(t))'
  BY <1>8, NothingTold
<1>12. (CountedOK(w))'
  BY <1>7, IdleIs, IdleCounted
<1> QED BY <1>3, <1>7, <1>10, <1>11, <1>12, IdleIs, Assembled

LEMMA WriteCounts == ASSUME Safe, SerialOK, NEW w \in Worker, Write(w) PROVE SerialOK'
<1> DEFINE q == req[w]
           ids == IF q.kind = "one" THEN {q.id} ELSE Unread
<1>1. Typed /\ Jobs /\ RequestOK(w) /\ PageTypes
  BY SafeTypes DEF Safe, Jobs, Pages
<1>2. PICK r : r = IF q.by = NoTab THEN Idle
                   ELSE IF q.kind = "one" THEN [Idle EXCEPT !.pc = "read", !.by = q.by]
                   ELSE [q EXCEPT !.pc = "answer"]
  OBVIOUS
<1>3. /\ q.pc = "write" /\ UNCHANGED <<site, booking, drawn, tab, down, blurred>>
      /\ req' = [req EXCEPT ![w] = r] /\ missed' = [t \in Tab |-> missed[t] \/ t # q.by]
  BY <1>2 DEF Write
<1>4. Unread' = Unread \ ids
  BY Marked
<1>5. q.kind \in {"one", "all"} /\ q.count = 0
  BY <1>1, <1>3 DEF RequestOK
<1>6. /\ q.by = NoTab => r.pc = "idle"
      /\ q.by # NoTab /\ q.kind = "one" => r.pc = "read" /\ r.kind = "load" /\ r.by = q.by
      /\ q.by # NoTab /\ q.kind = "all" =>
           r.pc = "answer" /\ r.kind = "all" /\ r.by = q.by /\ r.count = 0
  <2>1. q \in Work
    BY <1>1 DEF Typed
  <2> HIDE DEF q
  <2> QED BY <1>2, <1>5, <2>1, IdleIs DEF Work, Idle
<1>7. /\ CountedOK(w) /\ \A v \in Worker \ {w} : req[v].pc = "idle"
      /\ \A t \in Tab : Told(t) => Lacks(w, t)
  BY <1>3, Busy
<1>8. \A t \in Tab : down[t] = <<>> /\ down'[t] = <<>>
  BY <1>3, <1>7 DEF CountedOK
<1>9. req'[w] = r /\ \A v \in Worker \ {w} : req'[v].pc = "idle"
  BY <1>1, <1>3, <1>7 DEF Jobs
<1>10. (CountedOK(w))'
  <2>1. CASE q.by = NoTab
    BY <1>6, <1>9, <2>1, IdleCounted
  <2>2. CASE q.by # NoTab /\ q.kind = "one"
    BY <1>6, <1>8, <1>9, <2>2 DEF CountedOK
  <2>3. CASE q.by # NoTab /\ q.kind = "all"
    <3>1. Unread' = {}
      BY <1>4, <2>3
    <3>2. Cardinality(Unread') = 0
      BY <3>1, FS_EmptySet
    <3> HIDE DEF q
    <3> QED BY <1>6, <1>8, <1>9, <2>3, <3>2 DEF CountedOK
  <2> QED BY <1>5, <2>1, <2>2, <2>3
<1>11. ASSUME NEW t \in Tab, (Told(t))'
       PROVE  IF r.pc = "idle" THEN (Right(t))' ELSE (Lacks(w, t))'
  <2>1. t = q.by /\ Told(t) /\ q.by # NoTab
    BY <1>3, <1>11, Constants DEF Told
  <2>2. CASE q.kind = "one"
    BY <1>6, <1>9, <2>1, <2>2 DEF Lacks
  <2>3. CASE q.kind = "all"
    <3>1. RequestsOK(t, 0)
      BY <1>3, <1>7, <2>1, <2>3 DEF Lacks
    <3>2. (Coming(t))' = Coming(t) /\ Requests' = Requests
      BY <1>3, <1>8 DEF Coming, Requests, Awaiting
    <3>3. (RequestsOK(t, 0))'
      BY <1>3, <3>1, <3>2 DEF RequestsOK
    <3> HIDE DEF q
    <3> QED BY <1>6, <1>9, <2>1, <2>3, <3>3 DEF Lacks
  <2> QED BY <1>5, <2>2, <2>3
<1>12. \A t \in Tab : (TellingOK(t))'
  BY <1>8, NothingTold
<1> QED BY <1>3, <1>9, <1>10, <1>11, <1>12, Assembled

LEMMA AnswerCounts == ASSUME Safe, SerialOK, NEW w \in Worker, Answer(w) PROVE SerialOK'
<1> DEFINE q == req[w]
<1>1. Typed /\ Jobs /\ RequestOK(w) /\ PageTypes
  BY SafeTypes DEF Safe, Jobs, Pages
<1>2. PICK p \in Page :
              /\ tab' = [tab EXCEPT ![q.by] = p] /\ q.by \in Tab /\ tab'[q.by] = p
              /\ p.badge = q.count /\ p.open = tab[q.by].open
              /\ p.requests = IF q.kind = "all" THEN tab[q.by].requests
                              ELSE AtLeastZero(tab[q.by].requests - 1)
  BY Answered
<1>3. q.pc = "answer" /\ UNCHANGED <<site, booking, note, drawn, down, missed, blurred>>
      /\ req' = [req EXCEPT ![w] = Idle]
  BY DEF Answer, Done
<1>4. req'[w] = Idle /\ \A t \in Tab : t # q.by => tab'[t] = tab[t]
  BY <1>1, <1>2, <1>3 DEF Jobs, PageTypes
<1>5. /\ CountedOK(w) /\ \A v \in Worker \ {w} : req[v].pc = "idle"
      /\ \A t \in Tab : TellingOK(t) /\ (Told(t) => Lacks(w, t))
  BY <1>3, Busy
<1>6. q.kind \in {"accept", "decline", "all"} /\ q.by # NoTab
  BY <1>1, <1>2, <1>3, Constants DEF RequestOK
<1>7. q.count = Cardinality(Unread) /\ \A t \in Tab : \A i \in DOMAIN down[t] : down[t][i].id = 0
  BY <1>3, <1>5, <1>6 DEF CountedOK
<1>8. Unread' = Unread /\ Requests' = Requests /\ Requests \in Nat
  BY <1>3, RequestsType DEF Unread, Requests, Awaiting
<1>9. ASSUME NEW t \in Tab PROVE Coming(t) = 0 /\ (Coming(t))' = 0
  <2>1. CASE down[t] = <<>>
    BY <1>3, <2>1 DEF Coming
  <2>2. CASE down[t] # <<>>
    <3>1. down[t] \in Seq(Frame)
      BY <1>1 DEF Typed
    <3>2. Head(down[t]).id = 0
      BY <1>7, <2>2, <3>1, Taken
    <3> QED BY <1>3, <3>2 DEF Coming
  <2> QED BY <2>1, <2>2
<1> HIDE DEF q
<1>10. ASSUME NEW t \in Tab, (Told(t))' PROVE (Right(t))'
  <2>1. CASE t = q.by
    <3>1. Told(t) /\ tab[t].requests \in Nat
      BY <1>1, <1>2, <1>3, <1>10, <2>1 DEF Told, Typed
    <3>2. Lacks(w, t)
      BY <1>5, <3>1
    <3>3. ASSUME ~blurred[t] PROVE tab'[t].requests = Requests
      <4>1. CASE q.kind = "all"
        <5>1. RequestsOK(t, 0)
          BY <1>3, <2>1, <3>2, <4>1 DEF Lacks, q
        <5>2. tab[t].requests = Requests
          BY <1>9, <3>1, <3>3, <5>1 DEF RequestsOK
        <5> QED BY <1>2, <2>1, <4>1, <5>2
      <4>2. CASE q.kind \in {"accept", "decline"}
        <5>1. RequestsOK(t, -1)
          BY <1>3, <2>1, <3>2, <4>2 DEF Lacks, q
        <5>2. tab[t].requests - 1 = Requests
          BY <1>9, <3>1, <3>3, <5>1 DEF RequestsOK
        <5>3. AtLeastZero(tab[t].requests - 1) = Requests
          BY <1>8, <5>2 DEF AtLeastZero
        <5> QED BY <1>2, <2>1, <4>2, <5>3
      <4> QED BY <1>6, <4>1, <4>2
    <3>4. (RequestsOK(t, 0))'
      BY <1>3, <1>8, <1>9, <3>3 DEF RequestsOK
    <3>5. (BadgeOK(t))'
      BY <1>2, <1>7, <1>8, <2>1 DEF BadgeOK
    <3> QED BY <3>4, <3>5 DEF Right
  <2>2. CASE t # q.by
    <3>1. Told(t)
      BY <1>3, <1>4, <1>10, <2>2 DEF Told
    <3>2. Right(t)
      BY <1>3, <1>5, <2>2, <3>1 DEF Lacks, q
    <3> QED BY <1>3, <1>4, <2>2, <3>2, RightKept
  <2> QED BY <2>1, <2>2
<1>11. \A t \in Tab : (TellingOK(t))'
  BY <1>3, <1>5, TellingKept
<1>12. \A v \in Worker \ {w} : req'[v].pc = "idle"
  BY <1>1, <1>3, <1>5 DEF Jobs
<1>13. (CountedOK(w))'
  BY <1>4, IdleIs, IdleCounted
<1> QED BY <1>3, <1>4, <1>10, <1>11, <1>12, <1>13, IdleIs, Assembled

-----------------------------------------------------------------------------
(* The steps of a request that tell, and its commit.                       *)

\* A frame with the present count keeps the frames in order.
LEMMA ToldMore ==
  ASSUME Typed, NEW t \in Tab, NEW f \in Frame, TellingOK(t), note' = note,
         f.count = Cardinality(Unread), f.id = 0 \/ down[t] = <<>>,
         down'[t] = down[t] \/ down'[t] = Append(down[t], f)
  PROVE  (TellingOK(t))'
<1>1. Unread' = Unread /\ down[t] \in Seq(Frame)
  BY DEF Unread, Typed
<1>2. CASE down'[t] = down[t]
  BY <1>2, TellingKept
<1>3. CASE down'[t] = Append(down[t], f)
  <2>1. ASSUME NEW i \in DOMAIN down'[t]
        PROVE  down'[t][i].count = Cardinality(Unread) /\ (i # 1 => down'[t][i].id = 0)
    <3>1. \/ i \in DOMAIN down[t] /\ down'[t][i] = down[t][i]
          \/ i = Len(down[t]) + 1 /\ down'[t][i] = f
      BY <1>1, <1>3, <2>1, Sent
    <3>2. CASE i \in DOMAIN down[t] /\ down'[t][i] = down[t][i]
      BY <3>2 DEF TellingOK
    <3>3. CASE i = Len(down[t]) + 1 /\ down'[t][i] = f
      <4>1. i # 1 => down[t] # <<>>
        BY <1>1, <3>3
      <4> QED BY <3>3, <4>1
    <3> QED BY <3>1, <3>2, <3>3
  <2> QED BY <1>1, <2>1 DEF TellingOK
<1> QED BY <1>2, <1>3

LEMMA PushCounts == ASSUME Safe, SerialOK, NEW w \in Worker, Push(w) PROVE SerialOK'
<1>1. Typed /\ Jobs /\ RequestOK(w) /\ PageTypes
  BY SafeTypes DEF Safe, Jobs, Pages
<1>2. PICK f : f = [id |-> req[w].id, ids |-> {}, count |-> Head(req[w].items)]
  OBVIOUS
<1>3. /\ req[w].pc = "push" /\ Broadcast(f) /\ UNCHANGED <<site, booking, note, drawn, tab, blurred>>
      /\ req' = [req EXCEPT ![w].pc = "tell"]
  BY <1>2 DEF Push, Goto
<1>4. /\ CountedOK(w) /\ \A v \in Worker \ {w} : req[v].pc = "idle"
      /\ \A t \in Tab : TellingOK(t) /\ (Told(t) => Lacks(w, t))
  BY <1>3, Busy
<1>5. /\ req[w].id \in Stored /\ req[w].items \in Seq(Nat) /\ Len(req[w].items) = 1
      /\ req[w].kind \in Kind /\ note[req[w].id].kind = req[w].kind /\ req[w].by = NoTab
  BY <1>1, <1>3 DEF RequestOK, Typed, Kind
<1>6. /\ Head(req[w].items) = Cardinality(Unread) /\ req[w].count = Cardinality(Unread)
      /\ \A t \in Tab : down[t] = <<>>
  BY <1>3, <1>4 DEF CountedOK
<1>7. f \in Frame /\ f.id = req[w].id /\ f.id # 0 /\ f.count = Cardinality(Unread)
  <2>1. Head(req[w].items) \in Nat
    BY <1>5
  <2>2. req[w].id \in 0 .. MaxNotes /\ req[w].id # 0
    BY <1>1, <1>5 DEF Typed
  <2> QED BY <1>2, <1>6, <2>1, <2>2 DEF Frame
<1>8. PICK r : r = [req[w] EXCEPT !.pc = "tell"]
  OBVIOUS
<1>9. r.pc = "tell" /\ r.kind = req[w].kind /\ r.by = NoTab /\ r.count = Cardinality(Unread)
  BY <1>1, <1>5, <1>6, <1>8 DEF Typed, Work
<1>10. req'[w] = r /\ \A v \in Worker \ {w} : req'[v].pc = "idle"
  BY <1>1, <1>3, <1>4, <1>8 DEF Jobs
<1>11. \A t \in Tab : \/ down'[t] = down[t] /\ missed'[t]
                      \/ down'[t] = Append(down[t], f) /\ (missed'[t] <=> missed[t])
  BY <1>1, <1>3, <1>7, BroadcastAdds
<1>12. \A t \in Tab : (TellingOK(t))'
  BY <1>1, <1>3, <1>4, <1>6, <1>7, <1>11, ToldMore
<1>13. (CountedOK(w))'
  <2>1. Unread' = Unread
    BY <1>3 DEF Unread
  <2> QED BY <1>9, <1>10, <2>1 DEF CountedOK
<1>14. ASSUME NEW t \in Tab, (Told(t))' PROVE (Lacks(w, t))'
  <2>1. down'[t] = Append(down[t], f) /\ Told(t)
    BY <1>3, <1>11, <1>14 DEF Told
  <2>2. RequestsOK(t, Change(req[w].kind))
    BY <1>3, <1>4, <2>1 DEF Lacks
  <2>3. down[t] \in Seq(Frame) /\ down[t] = <<>>
    BY <1>1, <1>6 DEF Typed
  <2>4. down'[t] # <<>> /\ Head(down'[t]) = f
    BY <1>7, <2>1, <2>3, Sent
  <2>5. (Coming(t))' = Change(req[w].kind) /\ Coming(t) = 0
    BY <1>3, <1>5, <1>7, <2>3, <2>4 DEF Coming, Change
  <2>6. Requests' = Requests /\ tab[t].requests \in Nat /\ Change(req[w].kind) \in Int
    BY <1>1, <1>3 DEF Requests, Awaiting, Typed, Change
  <2>7. (RequestsOK(t, 0))'
    BY <1>3, <2>2, <2>5, <2>6 DEF RequestsOK
  <2>8. (Right(t))'
    BY <2>4, <2>7 DEF Right, BadgeOK
  <2> QED BY <1>9, <1>10, <2>8, Constants DEF Lacks
<1> QED BY <1>3, <1>9, <1>10, <1>12, <1>13, <1>14, Assembled

LEMMA TellCounts == ASSUME Safe, SerialOK, NEW w \in Worker, Tell(w) PROVE SerialOK'
<1>1. Typed /\ Jobs /\ RequestOK(w) /\ PageTypes
  BY SafeTypes DEF Safe, Jobs, Pages
<1>2. PICK f : f = [id |-> 0, ids |-> req[w].ids, count |-> req[w].count]
  OBVIOUS
<1>3. PICK r : r = IF req[w].by = NoTab THEN Idle ELSE [req[w] EXCEPT !.pc = "answer"]
  OBVIOUS
<1>4. /\ req[w].pc = "tell" /\ UNCHANGED <<site, booking, note, drawn, tab, blurred>>
      /\ UNCHANGED <<down, missed>> \/ Broadcast(f)
      /\ IF req[w].by = NoTab THEN req' = [req EXCEPT ![w] = Idle]
         ELSE req' = [req EXCEPT ![w].pc = "answer"]
  BY <1>2 DEF Tell, Goto, Done
<1>5. /\ CountedOK(w) /\ \A v \in Worker \ {w} : req[v].pc = "idle"
      /\ \A t \in Tab : TellingOK(t) /\ (Told(t) => Lacks(w, t))
  BY <1>4, Busy
<1>6. /\ req[w].count = Cardinality(Unread)
      /\ req[w].by # NoTab => \A t \in Tab : \A i \in DOMAIN down[t] : down[t][i].id = 0
  BY <1>4, <1>5 DEF CountedOK
<1>7. f \in Frame /\ f.id = 0 /\ f.count = Cardinality(Unread)
  BY <1>1, <1>2, <1>6, Constants DEF Frame, Typed
<1>8. /\ req[w].by = NoTab => r.pc = "idle"
      /\ req[w].by # NoTab => /\ r.pc = "answer" /\ r.kind = req[w].kind /\ r.by = req[w].by
                              /\ r.count = req[w].count
  BY <1>1, <1>3, IdleIs DEF Typed, Work
<1>9. req'[w] = r /\ \A v \in Worker \ {w} : req'[v].pc = "idle"
  BY <1>1, <1>3, <1>4, <1>5 DEF Jobs
<1>10. ASSUME NEW t \in Tab
       PROVE  /\ down'[t] = down[t] \/ down'[t] = Append(down[t], f)
              /\ (Told(t))' => Told(t)
              /\ ~missed'[t] => \/ down'[t] = down[t] /\ UNCHANGED <<down, missed>>
                                \/ down'[t] = Append(down[t], f)
  <2>1. CASE UNCHANGED <<down, missed>>
    BY <1>4, <2>1 DEF Told
  <2>2. CASE Broadcast(f)
    <3>1. \/ down'[t] = down[t] /\ missed'[t]
          \/ down'[t] = Append(down[t], f) /\ (missed'[t] <=> missed[t])
      BY <1>1, <1>7, <2>2, BroadcastAdds
    <3> QED BY <1>4, <3>1 DEF Told
  <2> QED BY <1>4, <2>1, <2>2
<1>11. \A t \in Tab : (TellingOK(t))'
  BY <1>1, <1>4, <1>5, <1>7, <1>10, ToldMore
<1>12. (CountedOK(w))'
  <2>1. CASE req[w].by = NoTab
    BY <1>8, <1>9, <2>1, IdleCounted
  <2>2. CASE req[w].by # NoTab
    <3>1. ASSUME NEW t \in Tab, NEW i \in DOMAIN down'[t] PROVE down'[t][i].id = 0
      <4>1. down[t] \in Seq(Frame)
        BY <1>1 DEF Typed
      <4>2. down'[t] = down[t] \/ down'[t] = Append(down[t], f)
        BY <1>10
      <4>3. (i \in DOMAIN down[t] /\ down'[t][i] = down[t][i]) \/ down'[t][i] = f
        <5>1. CASE down'[t] = down[t]
          BY <3>1, <5>1
        <5>2. CASE down'[t] = Append(down[t], f)
          BY <1>7, <3>1, <4>1, <5>2, Sent
        <5> QED BY <4>2, <5>1, <5>2
      <4> QED BY <1>6, <1>7, <2>2, <4>3
    <3>2. Unread' = Unread
      BY <1>4 DEF Unread
    <3> QED BY <1>6, <1>8, <1>9, <2>2, <3>1, <3>2 DEF CountedOK
  <2> QED BY <2>1, <2>2
<1>13. ASSUME NEW t \in Tab, (Told(t))'
       PROVE  IF r.pc = "idle" THEN (Right(t))' ELSE (Lacks(w, t))'
  <2>1. Told(t) /\ Lacks(w, t) /\ down[t] \in Seq(Frame)
    BY <1>1, <1>5, <1>10, <1>13 DEF Typed
  <2>2. down'[t] = down[t] \/ down'[t] = Append(down[t], f)
    BY <1>10
  <2>3. (Coming(t))' = Coming(t) /\ (down[t] # <<>> => down'[t] # <<>>)
    <3>1. CASE down'[t] = down[t]
      BY <1>4, <3>1 DEF Coming, Change
    <3>2. CASE down'[t] = Append(down[t], f)
      <4>1. down'[t] # <<>> /\ Head(down'[t]) = IF down[t] = <<>> THEN f ELSE Head(down[t])
        BY <1>7, <2>1, <3>2, Sent
      <4> QED BY <1>4, <1>7, <4>1 DEF Coming, Change
    <3> QED BY <2>2, <3>1, <3>2
  <2>4. \A d \in Int : RequestsOK(t, d) => (RequestsOK(t, d))'
    BY <1>4, <2>3 DEF RequestsOK, Requests, Awaiting
  <2>5. BadgeOK(t) => (BadgeOK(t))'
    BY <1>4, <2>3 DEF BadgeOK, Unread
  <2>6. Right(t) => (Right(t))'
    BY <2>4, <2>5 DEF Right
  <2>7. CASE req[w].by = NoTab
    <3>1. Right(t)
      BY <1>4, <2>1, <2>7, Constants DEF Lacks
    <3> QED BY <1>8, <2>6, <2>7, <3>1
  <2>8. CASE req[w].by # NoTab
    <3>1. (Lacks(w, t))'
      BY <1>4, <1>8, <1>9, <2>1, <2>4, <2>6, <2>8 DEF Lacks
    <3> QED BY <1>8, <2>8, <3>1
  <2> QED BY <2>7, <2>8
<1> QED BY <1>4, <1>9, <1>11, <1>12, <1>13, Assembled

\* How a commit changes the count of requests.
LEMMA CommitMoves ==
  ASSUME Safe, SerialOK, NEW w \in Worker, Commit(w)
  PROVE  ~OneOfTwo(req[w].kind, req[w].state) =>
           /\ req[w].kind \in Kind => Requests' = Requests + Change(req[w].kind)
           /\ req[w].kind \in {"accept", "decline"} => Requests' = Requests - 1
<1> DEFINE q == req[w]
<1>1. Typed /\ World /\ RequestOK(w)
  BY SafeTypes DEF Safe, Jobs
<1>2. q.pc = "commit" /\ booking' = [booking EXCEPT ![q.of] = Outcome(q.kind, q.state)]
  BY DEF Commit
<1>3. CountedOK(w)
  BY <1>2, Busy
<1>4. q.of \in Booking /\ q.kind \in Handled /\ q.state \in Found(q.kind) /\ booking[q.of] = q.state
  BY <1>1, <1>2, <1>3 DEF RequestOK, CountedOK
<1>5. PICK s : s = Outcome(q.kind, q.state)
  OBVIOUS
<1>6. s \in State /\ booking'[q.of] = s /\ \A o \in Booking \ {q.of} : booking'[o] = booking[o]
  BY <1>1, <1>2, <1>4, <1>5, Outcomes DEF World
<1> HIDE DEF q
<1> SUFFICES ASSUME ~OneOfTwo(q.kind, q.state)
             PROVE  /\ q.kind \in Kind => Requests' = Requests + Change(q.kind)
                    /\ q.kind \in {"accept", "decline"} => Requests' = Requests - 1
  BY DEF q
<1>7. /\ (booking[q.of] \in Open <=> s \in Open) => Requests' = Requests
      /\ booking[q.of] \notin Open /\ s \in Open => Requests' = Requests + 1
      /\ booking[q.of] \in Open /\ s \notin Open => Requests' = Requests - 1
  BY <1>1, <1>4, <1>6, RequestsMove
<1>8. CASE q.kind = "requested"
  BY <1>4, <1>5, <1>7, <1>8 DEF Found, Outcome, Change, Kind, Open
<1>9. CASE q.kind = "cancellation"
  BY <1>4, <1>5, <1>7, <1>9 DEF Found, Outcome, Change, Kind, Open, OneOfTwo
<1>10. CASE q.kind = "expired"
  <2>1. Requests' = Requests - 1
    BY <1>4, <1>5, <1>7, <1>10 DEF Found, Outcome, Open, OneOfTwo
  <2> QED BY <1>10, <2>1, RequestsType DEF Change
<1>11. CASE q.kind \in {"accept", "decline"}
  <2>1. q.state \in Open
    BY <1>4, <1>11 DEF Found
  <2>2. s \notin Open
    BY <1>5, <1>11, <2>1 DEF Outcome, Open, OneOfTwo
  <2> QED BY <1>4, <1>7, <1>11, <2>1, <2>2 DEF Kind
<1>12. CASE q.kind = "cancel"
  BY <1>12 DEF Kind
<1> QED BY <1>4, <1>8, <1>9, <1>10, <1>11, <1>12 DEF Handled, Kind

LEMMA CommitCounts == ASSUME Safe, SerialOK, site.serial, NEW w \in Worker, Commit(w) PROVE SerialOK'
<1> DEFINE q == req[w]
<1>1. Typed /\ Jobs /\ RequestOK(w) /\ PageTypes
  BY SafeTypes DEF Safe, Jobs, Pages
<1>2. /\ q.pc = "commit" /\ UNCHANGED <<site, drawn, tab, down>>
      /\ missed' = [t \in Tab |-> missed[t] \/ (q.kind \in {"cancel", "accept", "decline"} /\ q.by # t)]
      /\ blurred' = [t \in Tab |->
           blurred[t] \/ (site.serial /\ tab[t].open /\ OneOfTwo(q.kind, q.state))]
      /\ req' = [req EXCEPT ![w].pc = IF Inserts(q.kind) THEN "count" ELSE "tell",
                           ![w].of = NoBooking, ![w].state = "none"]
  BY DEF Commit
<1>3. PICK pc : pc = IF Inserts(q.kind) THEN "count" ELSE "tell"
  OBVIOUS
<1>4. PICK r : r = [req[w] EXCEPT !.pc = pc, !.of = NoBooking, !.state = "none"]
  OBVIOUS
<1>5. r.pc = pc /\ r.kind = q.kind /\ r.by = q.by /\ r.count = q.count
  BY <1>1, <1>4 DEF Typed, Work
<1>6. /\ CountedOK(w) /\ \A v \in Worker \ {w} : req[v].pc = "idle"
      /\ \A t \in Tab : Told(t) => Lacks(w, t)
  BY <1>2, Busy
<1>7. req'[w] = r /\ \A v \in Worker \ {w} : req'[v].pc = "idle"
  <2>1. req' = [req EXCEPT ![w].pc = pc, ![w].of = NoBooking, ![w].state = "none"]
    BY <1>2, <1>3
  <2> QED BY <1>1, <1>4, <1>6, <2>1 DEF Jobs
<1>8. /\ q.count = Left(q.ids, IF Inserts(q.kind) THEN 1 ELSE 0)
      /\ \A t \in Tab : down[t] = <<>> /\ down'[t] = <<>>
  BY <1>2, <1>6 DEF CountedOK
<1>9. q.count = Cardinality(Unread')
  <2>1. /\ Unread' = (Unread \ q.ids) \cup (IF Inserts(q.kind) THEN {q.id} ELSE {})
        /\ Inserts(q.kind) => q.id \notin Stored
    BY Committed
  <2>2. Unread \ q.ids \in SUBSET Stored
    BY <1>1 DEF Typed
  <2>3. IsFiniteSet(Unread \ q.ids) /\ Cardinality(Unread \ q.ids) \in Nat
    BY <1>1, <2>2, UnreadBound
  <2>4. CASE Inserts(q.kind)
    <3>1. Unread' = (Unread \ q.ids) \cup {q.id} /\ q.id \notin Unread \ q.ids
      BY <2>1, <2>2, <2>4
    <3>2. Cardinality(Unread') = Cardinality(Unread \ q.ids) + 1
      BY <2>3, <3>1, FS_AddElement
    <3> QED BY <1>8, <2>4, <3>2 DEF Left
  <2>5. CASE ~Inserts(q.kind)
    <3>1. Unread' = Unread \ q.ids
      BY <2>1, <2>5
    <3>2. q.count = Cardinality(Unread \ q.ids) + 0
      BY <1>8, <2>5 DEF Left
    <3> QED BY <2>3, <3>1, <3>2
  <2> QED BY <2>4, <2>5
<1>10. ~OneOfTwo(q.kind, q.state) =>
         /\ q.kind \in Kind => Requests' = Requests + Change(q.kind)
         /\ q.kind \in {"accept", "decline"} => Requests' = Requests - 1
  BY CommitMoves
<1>11. q.kind \in Handled /\ (q.by # NoTab => q.kind \in {"accept", "decline"})
  BY <1>1, <1>2 DEF RequestOK
<1> HIDE DEF q
<1>12. (CountedOK(w))'
  BY <1>3, <1>5, <1>7, <1>8, <1>9 DEF CountedOK
<1>13. \A t \in Tab : (TellingOK(t))'
  BY <1>8, NothingTold
<1>14. ASSUME NEW t \in Tab, (Told(t))' PROVE (Lacks(w, t))'
  <2>1. Told(t) /\ ~(q.kind \in {"cancel", "accept", "decline"} /\ q.by # t)
    BY <1>2, <1>14 DEF Told
  <2>2. Right(t)
    BY <1>2, <1>6, <2>1 DEF Lacks, q
  <2>3. Coming(t) = 0 /\ (Coming(t))' = 0 /\ tab[t].requests \in Nat /\ Requests \in Nat
    BY <1>1, <1>8, RequestsType DEF Coming, Typed
  <2>4. ASSUME ~blurred'[t]
        PROVE  ~OneOfTwo(q.kind, q.state) /\ tab'[t].requests = Requests
    <3>1. ~blurred[t] /\ ~OneOfTwo(q.kind, q.state)
      BY <1>2, <2>1, <2>4 DEF Told
    <3> QED BY <1>2, <2>2, <2>3, <3>1 DEF Right, RequestsOK
  <2>5. CASE q.kind \in Kind
    <3>1. Change(q.kind) \in Int
      BY DEF Change
    <3>2. ASSUME ~blurred'[t] PROVE tab'[t].requests + (Coming(t))' + Change(r.kind) = Requests'
      BY <1>5, <1>10, <2>3, <2>4, <2>5, <3>1, <3>2
    <3>3. (RequestsOK(t, Change(r.kind)))'
      BY <3>2 DEF RequestsOK, Change
    <3>4. r.pc = "count"
      BY <1>3, <1>5, <2>5 DEF Inserts
    <3> QED BY <1>7, <3>3, <3>4 DEF Lacks
  <2>6. CASE q.kind \in {"accept", "decline"}
    <3>1. q.by = t /\ ~Inserts(q.kind)
      BY <2>1, <2>6 DEF Inserts, Kind
    <3>2. (RequestsOK(t, -1))'
      BY <1>10, <2>3, <2>4, <2>6 DEF RequestsOK
    <3> QED BY <1>3, <1>5, <1>7, <2>6, <3>1, <3>2 DEF Lacks
  <2>7. CASE q.kind = "cancel"
    BY <1>11, <2>1, <2>7, Constants
  <2> QED BY <1>11, <2>5, <2>6, <2>7 DEF Handled
<1>15. r.pc # "idle"
  BY <1>3, <1>5
<1>16. blurred' \in [Tab -> BOOLEAN]
  <2>1. \A t \in Tab : blurred[t] \in BOOLEAN
    BY DEF SerialOK
  <2> QED BY <1>2, <2>1
<1> QED BY <1>7, <1>12, <1>13, <1>14, <1>15, <1>16, Assembled

-----------------------------------------------------------------------------
(* The invariant and what follows from it.                                 *)

LEMMA StutterStep == ASSUME IInv, UNCHANGED vars PROVE IInv'
<1>1. UNCHANGED <<site, booking, note, drawn, tab, down, missed, blurred, req>>
  BY DEF vars
<1>2. Stored' = Stored /\ Unread' = Unread /\ Requests' = Requests
  BY <1>1 DEF Stored, Unread, Requests, Awaiting
<1>3. (TypeOK /\ Shape)'
  BY <1>1, <1>2 DEF IInv, TypeOK, Shape
<1>4. (ListHasNoTwins /\ AnsweredIsRead)'
  BY <1>1, <1>2 DEF IInv, ListHasNoTwins, AnsweredIsRead
<1>5. \A w \in Worker : (RequestOK(w))'
  BY <1>1, <1>2 DEF IInv, RequestOK, CommitOK, IsRead
<1>6. (\A t \in Tab : (FramesOK(t))') /\ (~site.faults => DimmedOK)'
  BY <1>1 DEF IInv, FramesOK, DimmedOK, IsRead
<1>7. ASSUME SerialOK PROVE SerialOK'
  <2>1. \A w \in Worker : (CountedOK(w))'
    BY <1>1, <1>2, <1>7 DEF SerialOK, CountedOK, Left
  <2>2. \A t \in Tab : (TellingOK(t))'
    BY <1>1, <1>2, <1>7 DEF SerialOK, TellingOK
  <2>3. Quiet' <=> Quiet
    BY <1>1 DEF Quiet
  <2>4. ASSUME NEW t \in Tab, (Told(t))'
        PROVE  /\ Quiet' => (Right(t))'
               /\ \A w \in Worker : req'[w].pc # "idle" => (Lacks(w, t))'
    <3>1. Told(t)
      BY <1>1, <2>4 DEF Told
    <3>2. /\ Quiet => Right(t)
          /\ \A w \in Worker : req[w].pc # "idle" => Lacks(w, t)
      BY <1>7, <3>1 DEF SerialOK
    <3>3. (Right(t) <=> (Right(t))') /\ \A d \in Int : RequestsOK(t, d) <=> (RequestsOK(t, d))'
      BY <1>1, RightKept
    <3>4. ASSUME NEW w \in Worker, Lacks(w, t) PROVE (Lacks(w, t))'
      <4>1. Change(req[w].kind) \in Int
        BY DEF Change
      <4> QED BY <1>1, <3>3, <3>4, <4>1 DEF Lacks
    <3> QED BY <1>1, <2>3, <3>2, <3>3, <3>4
  <2> QED BY <1>1, <1>7, <2>1, <2>2, <2>4 DEF SerialOK
<1> QED BY <1>1, <1>3, <1>4, <1>5, <1>6, <1>7 DEF IInv

LEMMA NextSafe == ASSUME Safe, Next PROVE Safe'
<1>1. Typed /\ site.bookings \subseteq Booking /\ site.tabs \subseteq Tab
  BY SafeTypes, Constants DEF Safe, World
<1>2. ASSUME NEW w \in Worker, Step(w) \/ RollBack(w) \/ Lose(w) PROVE Safe'
  BY <1>2, LockSafe, CommitSafe, CountSafe, PushSafe, TellSafe, WriteSafe, AnswerSafe, ReadSafe,
     RenderSafe, RollBackSafe, LoseSafe DEF Step
<1>3. ASSUME NEW w \in Worker, NEW b \in site.bookings,
             \/ Request(w, b) \/ Ask(w, b) \/ CancelLesson(w, b) \/ Expire(w, b)
             \/ \E t \in Tab \cup {NoTab} : Respond(w, t, b)
      PROVE  Safe'
  <2>1. b \in Booking
    BY <1>1
  <2> QED BY <1>3, <2>1, HandlersSafe
<1>4. ASSUME NEW w \in Worker, NEW t \in Tab \cup {NoTab}, MarkAll(w, t) PROVE Safe'
  BY <1>4, MarkAllSafe
<1>5. ASSUME NEW w \in Worker, NEW t \in site.tabs, Load(w, t) \/ \E n \in Id : MarkOne(w, t, n)
      PROVE  Safe'
  BY <1>1, <1>5, LoadSafe, MarkOneSafe
<1>6. ASSUME NEW t \in Tab,
             Receive(t) \/ Connect(t) \/ Join(t) \/ Disconnect(t) \/ OpenRequests(t)
      PROVE  Safe'
  BY <1>6, ReceiveSafe, ConnectSafe, JoinSafe, DisconnectSafe, OpenRequestsSafe
<1> QED BY <1>2, <1>3, <1>4, <1>5, <1>6 DEF Next

LEMMA NextCounts == ASSUME Safe, SerialOK, site.serial, Next PROVE SerialOK'
<1>1. Typed /\ site.bookings \subseteq Booking /\ site.tabs \subseteq Tab
  BY SafeTypes, Constants DEF Safe, World
<1>2. ASSUME NEW w \in Worker, Step(w) \/ RollBack(w) \/ Lose(w) PROVE SerialOK'
  BY <1>2, LockCounts, CommitCounts, CountCounts, PushCounts, TellCounts, WriteCounts,
     AnswerCounts, ReadCounts, RenderCounts, RollBackCounts, LoseCounts DEF Step
<1>3. ASSUME NEW w \in Worker, NEW b \in site.bookings,
             \/ Request(w, b) \/ Ask(w, b) \/ CancelLesson(w, b) \/ Expire(w, b)
             \/ \E t \in Tab \cup {NoTab} : Respond(w, t, b)
      PROVE  SerialOK'
  <2>1. b \in Booking
    BY <1>1
  <2> QED BY <1>3, <2>1, HandlersCounts
<1>4. ASSUME NEW w \in Worker, NEW t \in Tab \cup {NoTab}, MarkAll(w, t) PROVE SerialOK'
  BY <1>4, MarkAllCounts
<1>5. ASSUME NEW w \in Worker, NEW t \in site.tabs, Load(w, t) \/ \E n \in Id : MarkOne(w, t, n)
      PROVE  SerialOK'
  BY <1>1, <1>5, LoadCounts, MarkOneCounts
<1>6. ASSUME NEW t \in Tab,
             Receive(t) \/ Connect(t) \/ Join(t) \/ Disconnect(t) \/ OpenRequests(t)
      PROVE  SerialOK'
  BY <1>6, ReceiveCounts, ConnectCounts, JoinCounts, DisconnectCounts, OpenRequestsCounts
<1> QED BY <1>2, <1>3, <1>4, <1>5, <1>6 DEF Next

LEMMA SiteFixed == ASSUME Next PROVE site' = site
BY ZenonT(40) DEF Next, Step, Lock, Commit, Count, Push, Tell, Write, Answer, Read, Render, RollBack, Lose,
       Request, Ask, CancelLesson, Expire, Respond, Handle, MarkAll, Load, MarkOne,
       Receive, Connect, Join, Disconnect, OpenRequests

LEMMA InitIInv == Init => IInv
BY InitSafe, InitSerial, Parts DEF Counts

LEMMA NextIInv == IInv /\ [Next]_vars => IInv'
<1> SUFFICES ASSUME IInv, [Next]_vars PROVE IInv'
  OBVIOUS
<1>1. CASE UNCHANGED vars
  BY <1>1, StutterStep
<1>2. CASE Next
  <2>1. Safe /\ Counts
    BY Parts
  <2>2. Safe'
    BY <1>2, <2>1, NextSafe
  <2>3. Counts'
    BY <1>2, <2>1, NextCounts, SiteFixed DEF Counts
  <2> QED BY <2>2, <2>3, PartsNext
<1> QED BY <1>1, <1>2

\* The inductive invariant of Notifications: every notification a page or a frame shows is
\* stored, a transaction holds its booking alone and has marked what it is to mark, and, with
\* handlers one at a time, every page that is told of all is right but for what is on its way.
THEOREM Invariance == Spec => []IInv
<1>1. Init => IInv
  BY InitIInv
<1>2. IInv /\ [Next]_vars => IInv'
  BY NextIInv
<1> QED BY <1>1, <1>2, PTL DEF Spec

\* The variables keep their types, nothing uncommitted is shown, and no dropdown has more
\* than Cap items.
THEOREM TypeCorrect == Spec => []TypeOK
<1>1. IInv => TypeOK
  BY DEF IInv
<1> QED BY <1>1, Invariance, PTL

\* prependNotificationItem never lists a notification twice, though a page may be served
\* with what is broadcast to it afterwards.
THEOREM NoTwins == Spec => []ListHasNoTwins
<1>1. IInv => ListHasNoTwins
  BY DEF IInv
<1> QED BY <1>1, Invariance, PTL

\* mark_booking_requests_read: a booking that is answered, or has expired with nothing else
\* asked, leaves no unread notification that asks for an answer, and a cancellation request
\* turned down none of its own, however its transactions interleave.  (A request to cancel a
\* pending lesson that then expires stays unread, and open.)
THEOREM AnsweredMeansRead == Spec => []AnsweredIsRead
<1>1. IInv => AnsweredIsRead
  BY DEF IInv
<1> QED BY <1>1, Invariance, PTL

\* Where no request is lost, what a page shows as read is read once all requests are done.
THEOREM DimmedMeansRead == Spec => []DimmedIsRead
<1>1. IInv => DimmedIsRead
  BY DEF IInv, DimmedOK, DimmedIsRead, Quiet, IsRead
<1> QED BY <1>1, Invariance, PTL

\* With handlers one at a time, the bell and the count of requests are right, when nothing is
\* under way, on every page that was told of every change; the count of requests unless the
\* page was told of a lesson that is pending and asked to be cancelled, which it counts twice.
THEOREM CountsCurrent == Spec => []CountsAreCurrent
<1>1. ASSUME IInv PROVE CountsAreCurrent
  <2> SUFFICES ASSUME site.serial, Quiet, NEW t \in Tab, tab[t].open, ~missed[t], down[t] = <<>>
               PROVE  /\ tab[t].badge = Cardinality(Unread)
                      /\ ~blurred[t] => tab[t].requests = Requests
    BY DEF CountsAreCurrent
  <2>1. Right(t) /\ Typed
    BY <1>1, Parts, SafeTypes DEF Counts, SerialOK, Told
  <2>2. Coming(t) = 0 /\ tab[t].requests \in Nat /\ Requests \in Nat
    BY <2>1, CountTypes
  <2> QED BY <2>1, <2>2 DEF Right, BadgeOK, RequestsOK
<1> QED BY <1>1, Invariance, PTL

=============================================================================
