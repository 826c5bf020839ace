--------------------------- MODULE AccountsProofs ---------------------------
(***************************************************************************)
(* The properties of Accounts, proved for any number of accounts,          *)
(* addresses and requests: no address is verified that was not proved, and *)
(* with requests one at a time the handlers implement AddressBook.  All    *)
(* follow from IInv of AccountsProperties, which each action preserves.    *)
(***************************************************************************)
EXTENDS AccountsProperties, TLAPS

\* The typing assumptions on the constants, as facts the proofs cite.
LEMMA Constants ==
  /\ NoAccount \notin Account /\ NoAddress \notin Address
  /\ \A s \in Site : s.serial \in BOOLEAN /\ s.resets \in Nat
BY NobodyAssumption, BoundAssumption

LEMMA NoRowIsRow == NoRow \in Row /\ Idle \in Work
BY DEF NoRow, Row, Idle, Work

-----------------------------------------------------------------------------
(* Initial states.                                                         *)

LEMMA InitIInv == Init => IInv
<1> SUFFICES ASSUME Init PROVE IInv
  OBVIOUS
<1>1. TypeOK
  BY NoRowIsRow, Constants DEF Init, TypeOK
<1>2. \A a \in Account : Copies(a) = {NoRow} /\ ~Exists(a)
  BY DEF Init, Copies, Holds, Idle, NoRow, Exists
<1>3. \A a \in Account : RowOK(a) /\ ProofOK(a)
  BY <1>2 DEF Init, RowOK, ProofOK, NoRow, Idle
<1>4. LinksOK /\ \A r \in Request : RequestOK(r)
  BY DEF Init, LinksOK, RequestOK, Idle
<1>5. SerialOK
  BY DEF Init, SerialOK, Idle, NoRow
<1> QED BY <1>1, <1>3, <1>4, <1>5 DEF IInv

-----------------------------------------------------------------------------
(* What a step does to the copies of an account's row.                     *)

\* A copy after the step has the address and the flag of a copy before it, or is
\* verified and its address proved.
Descends(a, row) ==
  \/ \E old \in Copies(a) : old.email = row.email /\ old.verified = row.verified
  \/ row.verified /\ <<a, row.email>> \in proved'

LEMMA ProofPreserved ==
  ASSUME NEW a \in Account, ProofOK(a), proved \subseteq proved',
         \A row \in Copies(a)' : Descends(a, row),
         \A r \in Request : req'[r].account = a /\ req'[r].pc = "verify" =>
           req[r].account = a /\ req[r].pc = "verify"
  PROVE  ProofOK(a)'
<1>1. ASSUME NEW row \in Copies(a)', row.verified PROVE <<a, row.email>> \in proved'
  BY <1>1 DEF ProofOK, Descends
<1>2. ASSUME NEW row \in Copies(a)', NEW other \in Copies(a)',
             ~row.verified, <<a, other.email>> \notin proved'
      PROVE  row.email = other.email
  <2>1. PICK old \in Copies(a) : old.email = row.email /\ old.verified = row.verified
    BY <1>2 DEF Descends
  <2>2. PICK elder \in Copies(a) : elder.email = other.email
    BY <1>2 DEF Descends
  <2> QED BY <1>2, <2>1, <2>2 DEF ProofOK
<1>3. ASSUME NEW r \in Request, req'[r].account = a, req'[r].pc = "verify",
             NEW row \in Copies(a)'
      PROVE  <<a, row.email>> \in proved'
  BY <1>3 DEF ProofOK, Descends
<1> QED BY <1>1, <1>2, <1>3 DEF ProofOK

\* Copies are those of the table and of the requests.
LEMMA CopiesAre ==
  \A a \in Account : \A row :
    row \in Copies(a) <=> row = user[a] \/ \E r \in Request : Holds(r, a) /\ row = req[r].row
BY DEF Copies

LEMMA CopiesWillBe ==
  \A a \in Account : \A row :
    row \in Copies(a)' <=>
      row = user'[a] \/ \E r \in Request : Holds(r, a)' /\ row = req'[r].row
BY DEF Copies

-----------------------------------------------------------------------------
(* Requests that load a row.                                               *)

LEMMA StartTyped ==
  ASSUME TypeOK, NEW r \in Request, NEW a \in Account, NEW pc, NEW e \in Address \cup {NoAddress},
         pc \in {"create", "reserve", "verify", "promote", "clear", "reset"}, Start(r, pc, a, e)
  PROVE  /\ req' \in [Request -> Work] /\ req[r].pc = "idle"
         /\ req'[r] = [pc |-> pc, account |-> a, address |-> e, row |-> user[a]]
         /\ \A q \in Request \ {r} : req'[q] = req[q]
<1>1. [pc |-> pc, account |-> a, address |-> e, row |-> user[a]] \in Work
  BY DEF TypeOK, Work
<1> QED BY <1>1 DEF TypeOK, Start

LEMMA StartStep ==
  ASSUME IInv, NEW r \in Request, NEW a \in Account, NEW pc, NEW e \in Address \cup {NoAddress},
         pc \in {"create", "reserve", "verify", "promote", "clear", "reset"},
         Start(r, pc, a, e), UNCHANGED <<site, user, queue, inbox, resets, superseded>>,
         proved \subseteq proved', proved' \subseteq Account \X Address,
         pc # "create" => Exists(a), RequestOK(r)',
         pc = "verify" => ~user[a].verified /\ <<a, user[a].email>> \in proved',
         site.serial /\ pc = "create" => ~Exists(a) /\ ~Reserved(a, e)
  PROVE  IInv'
<1>1. TypeOK
  BY DEF IInv
<1>2. /\ req' \in [Request -> Work] /\ req[r].pc = "idle"
      /\ req'[r] = [pc |-> pc, account |-> a, address |-> e, row |-> user[a]]
      /\ \A q \in Request \ {r} : req'[q] = req[q]
  BY <1>1, StartTyped
<1>3. TypeOK'
  BY <1>1, <1>2 DEF TypeOK
<1>4. \A b \in Account : Exists(b)' = Exists(b)
  BY DEF Exists
<1>5. ASSUME NEW b \in Account PROVE Copies(b)' \subseteq Copies(b)
  BY <1>2, CopiesAre, CopiesWillBe DEF Holds
<1>6. ASSUME NEW b \in Account PROVE RowOK(b)'
  BY <1>4, <1>5 DEF IInv, RowOK
<1>7. LinksOK'
  BY <1>4 DEF IInv, LinksOK, Exists
<1>8. ASSUME NEW q \in Request PROVE RequestOK(q)'
  <2>1. CASE q # r
    <3>1. RequestOK(q) /\ req[q] \in Work
      BY <1>1 DEF IInv, TypeOK
    <3> QED BY <1>2, <1>4, <2>1, <3>1 DEF RequestOK, Work, Exists
  <2> QED BY <2>1
<1>9. ASSUME NEW b \in Account, b \notin superseded' PROVE ProofOK(b)'
  <2>1. ProofOK(b)
    BY <1>9 DEF IInv
  <2>2. \A row \in Copies(b)' : Descends(b, row)
    BY <1>5 DEF Descends
  <2>3. CASE pc = "verify" /\ b = a
    <3>1. \A row \in Copies(a) : <<a, row.email>> \in proved'
      BY <2>1, <2>3, CopiesAre DEF ProofOK
    <3> QED BY <1>5, <2>3, <3>1 DEF ProofOK
  <2>4. CASE ~(pc = "verify" /\ b = a)
    <3>1. \A q \in Request : req'[q].account = b /\ req'[q].pc = "verify" =>
             req[q].account = b /\ req[q].pc = "verify"
      BY <1>2, <2>4
    <3> QED BY <2>1, <2>2, <3>1, ProofPreserved
  <2> QED BY <2>3, <2>4
<1>10. ASSUME site'.serial PROVE SerialOK'
  <2>1. SerialOK /\ \A q \in Request : req[q].pc = "idle"
    BY <1>10 DEF IInv, Start
  <2>2. \A b \in Account : \A f : Reserved(b, f)' = Reserved(b, f)
    BY DEF Reserved
  <2> QED BY <1>2, <1>4, <1>10, <2>1, <2>2 DEF SerialOK, Exists, Reserved
<1> QED BY <1>3, <1>6, <1>7, <1>8, <1>9, <1>10 DEF IInv

LEMMA SignUpStep ==
  ASSUME IInv, NEW r \in Request, NEW a \in Account, NEW e \in Address, SignUp(r, a, e)
  PROVE  IInv'
<1>1. TypeOK
  BY DEF IInv
<1>2. Start(r, "create", a, e) /\ ~Exists(a) /\ ~Reserved(a, e)
  BY DEF SignUp
<1>3. req'[r] = [pc |-> "create", account |-> a, address |-> e, row |-> user[a]]
  BY <1>1, <1>2, StartTyped
<1>4. RequestOK(r)'
  BY <1>3 DEF RequestOK
<1>5. proved \subseteq proved' /\ proved' \subseteq Account \X Address
  BY <1>1 DEF SignUp, TypeOK
<1> QED BY <1>2, <1>4, <1>5, StartStep DEF SignUp

LEMMA OpenSettingsStep ==
  ASSUME IInv, NEW r \in Request, NEW a \in Account, NEW e \in Address, OpenSettings(r, a, e)
  PROVE  IInv'
<1>1. TypeOK
  BY DEF IInv
<1>2. Start(r, "reserve", a, e) /\ Exists(a)
  BY DEF OpenSettings
<1>3. req'[r] = [pc |-> "reserve", account |-> a, address |-> e, row |-> user[a]]
  BY <1>1, <1>2, StartTyped
<1>4. RequestOK(r)'
  BY <1>2, <1>3 DEF RequestOK, OpenSettings, Exists
<1>5. proved \subseteq proved' /\ proved' \subseteq Account \X Address
  BY <1>1 DEF OpenSettings, TypeOK
<1> QED BY <1>2, <1>4, <1>5, StartStep DEF OpenSettings

\* An account with a pending address exists.
LEMMA PendingExists ==
  ASSUME IInv, NEW a \in Account, user[a].pending # NoAddress
  PROVE  Exists(a)
<1>1. RowOK(a)
  BY DEF IInv
<1> QED BY <1>1 DEF RowOK, NoRow

LEMMA CancelStep ==
  ASSUME IInv, NEW r \in Request, NEW a \in Account, Cancel(r, a)
  PROVE  IInv'
<1>1. TypeOK
  BY DEF IInv
<1>2. Start(r, "clear", a, NoAddress) /\ Exists(a)
  BY PendingExists DEF Cancel
<1>3. req'[r] = [pc |-> "clear", account |-> a, address |-> NoAddress, row |-> user[a]]
  BY <1>1, <1>2, StartTyped
<1>4. RequestOK(r)'
  BY <1>2, <1>3 DEF RequestOK, Cancel, Exists
<1>5. proved \subseteq proved' /\ proved' \subseteq Account \X Address
  BY <1>1 DEF Cancel, TypeOK
<1> QED BY <1>2, <1>4, <1>5, StartStep DEF Cancel

LEMMA OpenResetStep ==
  ASSUME IInv, NEW r \in Request, NEW a \in Account, OpenReset(r, a)
  PROVE  IInv'
<1>1. TypeOK
  BY DEF IInv
<1>2. Start(r, "reset", a, user[a].email) /\ Exists(a)
  BY DEF OpenReset
<1>3. user[a].email \in Address
  BY <1>1, <1>2 DEF TypeOK, Row, Exists
<1>6. req'[r] = [pc |-> "reset", account |-> a, address |-> user[a].email, row |-> user[a]]
  BY <1>1, <1>2, <1>3, StartTyped
<1>4. RequestOK(r)'
  BY <1>2, <1>6 DEF RequestOK, OpenReset, Exists
<1>5. proved \subseteq proved' /\ proved' \subseteq Account \X Address
  BY <1>1, <1>3 DEF OpenReset, TypeOK
<1> QED BY <1>2, <1>3, <1>4, <1>5, StartStep DEF OpenReset

LEMMA OpenLinkStep ==
  ASSUME IInv, NEW r \in Request, NEW l \in inbox, OpenLink(r, l)
  PROVE  IInv'
<1>1. TypeOK
  BY DEF IInv
<1>2. l \in Link
  BY <1>1 DEF TypeOK
<1> DEFINE pc == CASE l.kind = "verify" -> "verify"
                   [] l.kind = "confirm" -> "promote"
                   [] l.kind = "revoke" -> "clear"
           a == l.account
<1>3. /\ a \in Account /\ l.address \in Address /\ pc \in {"verify", "promote", "clear"}
      /\ pc = "verify" => l.kind = "verify" /\ l.address = user[a].email /\ ~user[a].verified
      /\ pc = "promote" => l.kind = "confirm" /\ l.address = user[a].pending
  BY <1>2 DEF Link, OpenLink, Valid, Expected
<1>4. Start(r, pc, a, l.address) /\ Exists(a)
  BY DEF OpenLink, IInv, LinksOK
<1>5. /\ proved \subseteq proved' /\ proved' \subseteq Account \X Address
      /\ pc # "clear" => <<a, l.address>> \in proved'
  BY <1>1, <1>2, <1>3 DEF OpenLink, TypeOK
<1>6. /\ req'[r] = [pc |-> pc, account |-> a, address |-> l.address, row |-> user[a]]
      /\ Exists(a)'
  <2> HIDE DEF pc, a
  <2> QED BY <1>1, <1>3, <1>4, StartTyped DEF OpenLink, Exists
<1> HIDE DEF pc, a
<1>7. RequestOK(r)'
  BY <1>3, <1>5, <1>6 DEF RequestOK
<1>8. UNCHANGED <<site, user, queue, inbox, resets, superseded>>
  BY DEF OpenLink
<1> QED BY <1>3, <1>4, <1>5, <1>7, <1>8, StartStep

-----------------------------------------------------------------------------
(* Requests that end.                                                      *)

LEMMA DoneTyped ==
  ASSUME TypeOK, NEW r \in Request, Done(r)
  PROVE  /\ req' \in [Request -> Work] /\ req'[r] = Idle
         /\ \A q \in Request \ {r} : req'[q] = req[q]
BY NoRowIsRow DEF TypeOK, Done

\* Request r ends and leaves the row of its account as "row".
LEMMA WriteStep ==
  ASSUME IInv, NEW r \in Request, req[r].pc \notin {"idle", "create"}, Done(r),
         NEW row \in Row, user' = [user EXCEPT ![req[r].account] = row],
         UNCHANGED <<site, inbox, proved>>, resets' \in [Account -> 0 .. site.resets],
         queue \subseteq queue', queue' \subseteq queue \cup {<<"change", req[r].account>>},
         superseded' \in {superseded, superseded \cup {req[r].account}},
         row.email # NoAddress, row.pending # row.email,
         req[r].account \in superseded' \/ Descends(req[r].account, row),
         site.serial /\ row.pending # NoAddress => ~Reserved(req[r].account, row.pending),
         site.serial =>
           \A b \in Account \ {req[r].account} :
             user[b].pending # NoAddress => user[b].pending \notin {row.email, row.pending}
  PROVE  IInv'
<1> DEFINE a == req[r].account
<1>1. TypeOK /\ RequestOK(r)
  BY DEF IInv
<1>2. /\ req' \in [Request -> Work] /\ req'[r] = Idle
      /\ \A q \in Request \ {r} : req'[q] = req[q]
  BY <1>1, DoneTyped
<1>3. a \in Account /\ Exists(a)
  BY <1>1 DEF RequestOK
<1>4. /\ user' \in [Account -> Row] /\ user'[a] = row
      /\ \A b \in Account \ {a} : user'[b] = user[b]
  BY <1>1, <1>3 DEF TypeOK
<1> HIDE DEF a
<1>5. TypeOK'
  <2>1. queue' \subseteq Task
    BY <1>1, <1>3 DEF TypeOK, Task, a
  <2>2. superseded' \subseteq Account
    BY <1>1, <1>3 DEF TypeOK, a
  <2> QED BY <1>1, <1>2, <1>4, <2>1, <2>2 DEF TypeOK
<1>6. \A b \in Account : Exists(b)' = Exists(b)
  BY <1>3, <1>4 DEF Exists
<1>7. ASSUME NEW b \in Account, NEW copy \in Copies(b)', ~(b = a /\ copy = row)
      PROVE  copy \in Copies(b)
  <2>1. CASE copy = user'[b]
    BY <1>4, <1>7, <2>1, CopiesAre
  <2>2. ASSUME NEW q \in Request, Holds(q, b)', copy = req'[q].row PROVE copy \in Copies(b)
    <3>1. q # r
      BY <1>2, <2>2 DEF Holds, Idle
    <3> QED BY <1>2, <2>2, <3>1, CopiesAre DEF Holds
  <2> QED BY <1>7, <2>1, <2>2, CopiesWillBe
<1>8. ASSUME NEW b \in Account PROVE RowOK(b)'
  <2>1. RowOK(b)
    BY DEF IInv
  <2>2. <<"verification", b>> \in queue' => <<"verification", b>> \in queue
    BY <1>3
  <2>3. Exists(b)' => \A copy \in Copies(b)' : copy.email # NoAddress /\ copy.pending # copy.email
    BY <1>6, <1>7, <2>1 DEF RowOK
  <2>4. ~Exists(b)' => user'[b] = NoRow
    BY <1>3, <1>4, <1>6, <2>1 DEF RowOK
  <2> QED BY <1>6, <2>1, <2>2, <2>3, <2>4 DEF RowOK
<1>9. LinksOK'
  BY <1>1, <1>6 DEF IInv, LinksOK, TypeOK, Link, Exists
<1>10. ASSUME NEW q \in Request PROVE RequestOK(q)'
  <2>1. CASE q # r
    <3>1. RequestOK(q) /\ req'[q] = req[q]
      BY <1>2, <2>1 DEF IInv
    <3>2. req[q].pc \notin {"idle", "create"} => Exists(req[q].account)'
      BY <1>6, <3>1 DEF RequestOK
    <3> QED BY <3>1, <3>2 DEF RequestOK, Exists
  <2>2. CASE q = r
    BY <1>2, <2>2 DEF RequestOK, Idle
  <2> QED BY <2>1, <2>2
<1>11. ASSUME NEW b \in Account, b \notin superseded' PROVE ProofOK(b)'
  <2>1. ProofOK(b)
    BY <1>11 DEF IInv
  <2>2. \A copy \in Copies(b)' : Descends(b, copy)
    <3> SUFFICES ASSUME NEW copy \in Copies(b)' PROVE Descends(b, copy)
      OBVIOUS
    <3>1. CASE b = a /\ copy = row
      BY <1>11, <3>1 DEF a
    <3>2. CASE ~(b = a /\ copy = row)
      BY <1>7, <3>2 DEF Descends
    <3> QED BY <3>1, <3>2
  <2>3. \A q \in Request : req'[q].account = b /\ req'[q].pc = "verify" =>
           req[q].account = b /\ req[q].pc = "verify"
    BY <1>2 DEF Idle
  <2> QED BY <2>1, <2>2, <2>3, ProofPreserved
<1>12. ASSUME site'.serial PROVE SerialOK'
  <2>1. SerialOK /\ site.serial
    BY <1>12 DEF IInv
  <2>2. \A q \in Request : req'[q].pc = "idle"
    BY <1>2, <2>1 DEF SerialOK, Idle
  <2>3. ASSUME NEW b \in Account, user'[b].pending # NoAddress
        PROVE  ~Reserved(b, user[b].pending)'
    <3>1. CASE b = a
      BY <1>3, <1>4, <2>1, <2>3, <3>1 DEF Reserved, a
    <3>2. CASE b # a
      BY <1>3, <1>4, <2>1, <2>3, <3>2 DEF SerialOK, Reserved, a
    <3> QED BY <3>1, <3>2
  <2> QED BY <2>2, <2>3 DEF SerialOK
<1> QED BY <1>5, <1>8, <1>9, <1>10, <1>11, <1>12 DEF IInv

\* The steps that leave the rows alone: a request ends, or has found its address free, and
\* mail is enqueued or sent.
Goes(q) ==
  \/ req'[q] = req[q]
  \/ req'[q] = Idle
  \/ /\ req[q].pc = "reserve" /\ ~Reserved(req[q].account, req[q].address)
     /\ req'[q] = [req[q] EXCEPT !.pc = "save"]

LEMMA QuietStep ==
  ASSUME IInv, UNCHANGED <<site, user, resets, proved, superseded>>,
         req' \in [Request -> Work], \A q \in Request : Goes(q),
         queue' \subseteq Task, inbox' \subseteq Link,
         \A a \in Account : <<"verification", a>> \in queue' => Exists(a),
         \A l \in inbox' : Exists(l.account)
  PROVE  IInv'
<1>1. TypeOK'
  BY DEF IInv, TypeOK
<1>2. \A b \in Account : Exists(b)' = Exists(b)
  BY DEF Exists
<1>3. ASSUME NEW q \in Request
      PROVE  /\ req'[q].pc \in {"idle", "save", req[q].pc}
             /\ req'[q].pc = "save" => req[q].pc = "save" \/
                  (req[q].pc = "reserve" /\ ~Reserved(req[q].account, req[q].address))
             /\ req'[q].pc # "idle" =>
                  /\ req[q].pc # "idle" /\ req'[q].account = req[q].account
                  /\ req'[q].address = req[q].address /\ req'[q].row = req[q].row
                  /\ req[q].pc = "create" <=> req'[q].pc = "create"
  <2>1. req[q] \in Work /\ Goes(q)
    BY DEF IInv, TypeOK
  <2> QED BY <2>1 DEF Goes, Work, Idle
<1>4. ASSUME NEW b \in Account PROVE Copies(b)' \subseteq Copies(b)
  BY <1>3, CopiesAre, CopiesWillBe DEF Holds
<1>5. ASSUME NEW b \in Account PROVE RowOK(b)'
  <2>1. RowOK(b)
    BY DEF IInv
  <2> QED BY <1>2, <1>4, <2>1 DEF RowOK
<1>6. LinksOK'
  BY DEF LinksOK, Exists
<1>7. ASSUME NEW q \in Request PROVE RequestOK(q)'
  <2>1. RequestOK(q)
    BY DEF IInv
  <2> QED BY <1>3, <2>1 DEF RequestOK, Exists
<1>8. ASSUME NEW b \in Account, b \notin superseded' PROVE ProofOK(b)'
  <2>1. ProofOK(b)
    BY <1>8 DEF IInv
  <2>2. \A row \in Copies(b)' : Descends(b, row)
    BY <1>4 DEF Descends
  <2> QED BY <1>3, <2>1, <2>2, ProofPreserved
<1>9. ASSUME site'.serial PROVE SerialOK'
  <2>1. SerialOK
    BY <1>9 DEF IInv
  <2>2. \A b \in Account : \A f : Reserved(b, f)' = Reserved(b, f)
    BY DEF Reserved
  <2>3. \A q \in Request : req'[q].pc \in {"create", "save"} =>
          ~Reserved(req'[q].account, req'[q].address)
    BY <1>3, <2>1 DEF SerialOK
  <2> QED BY <1>2, <1>3, <2>1, <2>2, <2>3 DEF SerialOK, Exists, Reserved
<1> QED BY <1>1, <1>5, <1>6, <1>7, <1>8, <1>9 DEF IInv

\* A request that ends without a trace.
LEMMA EndStep ==
  ASSUME IInv, NEW r \in Request, Done(r),
         UNCHANGED <<site, user, queue, inbox, resets, proved, superseded>>
  PROVE  IInv'
<1>1. TypeOK
  BY DEF IInv
<1>2. req' \in [Request -> Work] /\ \A q \in Request : Goes(q)
  BY <1>1, DoneTyped DEF Goes
<1>3. \A a \in Account : <<"verification", a>> \in queue' => Exists(a)
  BY DEF IInv, RowOK
<1> QED BY <1>1, <1>2, <1>3, QuietStep DEF IInv, TypeOK, LinksOK

LEMMA AbortStep ==
  ASSUME IInv, NEW r \in Request, Abort(r)
  PROVE  IInv'
BY EndStep DEF Abort

LEMMA CleanEmailStep ==
  ASSUME IInv, NEW r \in Request, CleanEmail(r)
  PROVE  IInv'
<1>1. TypeOK /\ req[r] \in Work
  BY DEF IInv, TypeOK
<1>2. CASE Reserved(req[r].account, req[r].address)
  BY <1>2, EndStep DEF CleanEmail, Done
<1>3. CASE ~Reserved(req[r].account, req[r].address)
  <2>1. req' = [req EXCEPT ![r].pc = "save"]
    BY <1>3 DEF CleanEmail
  <2>2. [req[r] EXCEPT !.pc = "save"] \in Work
    BY <1>1 DEF Work
  <2>3. req' \in [Request -> Work] /\ \A q \in Request : Goes(q)
    BY <1>1, <1>3, <2>1, <2>2 DEF CleanEmail, TypeOK, Goes
  <2>4. \A a \in Account : <<"verification", a>> \in queue' => Exists(a)
    BY DEF IInv, RowOK, CleanEmail
  <2> QED BY <1>1, <2>3, <2>4, QuietStep DEF IInv, TypeOK, LinksOK, CleanEmail
<1> QED BY <1>2, <1>3

LEMMA ResendStep ==
  ASSUME IInv, NEW a \in Account, ResendVerification(a) \/ ResendChange(a)
  PROVE  IInv'
<1>1. TypeOK /\ UNCHANGED <<site, user, req, inbox, resets, proved, superseded>>
  BY DEF IInv, ResendVerification, ResendChange
<1>2. Exists(a) /\ queue' \subseteq queue \cup {<<"verification", a>>, <<"confirmation", a>>}
  BY PendingExists DEF ResendVerification, ResendChange, Enqueue
<1>3. queue' \subseteq Task
  BY <1>1, <1>2 DEF TypeOK, Task
<1>4. \A b \in Account : <<"verification", b>> \in queue' => Exists(b)
  BY <1>2 DEF IInv, RowOK
<1>5. \A q \in Request : Goes(q)
  BY <1>1 DEF Goes
<1> QED BY <1>1, <1>3, <1>4, <1>5, QuietStep DEF IInv, TypeOK, LinksOK

\* The links that are mailed carry the address they are sent to.
LEMMA DeliverStep ==
  ASSUME IInv, NEW t \in Task, Deliver(t[1], t[2])
  PROVE  IInv'
<1> DEFINE a == t[2]
<1>1. TypeOK /\ a \in Account /\ user[a] \in Row
  BY DEF IInv, TypeOK, Task
<1>2. PICK sent \in SUBSET Kinds(t[1], user[a]) :
        /\ <<t[1], a>> \in queue
        /\ inbox' = inbox \cup {LinkFor(k, a) : k \in sent}
        /\ queue' \in {queue, queue \ {<<t[1], a>>}}
        /\ UNCHANGED <<site, user, req, resets, proved, superseded>>
  BY DEF Deliver
<1>3. ASSUME NEW k \in sent PROVE LinkFor(k, a) \in Link /\ Exists(a)
  <2>1. t[1] \in {"verification", "change", "confirmation"}
    BY DEF Task
  <2>2. CASE t[1] = "verification"
    <3>1. k = "verify" /\ Exists(a)
      BY <1>1, <1>2, <2>2 DEF IInv, RowOK, Kinds
    <3>2. Expected(k, user[a]) \in Address
      BY <1>1, <3>1 DEF Expected, Exists, Row
    <3> QED BY <1>1, <3>1, <3>2 DEF LinkFor, Link, Row
  <2>3. CASE t[1] \in {"change", "confirmation"}
    <3>1. k \in {"confirm", "revoke"} /\ user[a].pending # NoAddress
      BY <1>2, <2>3 DEF Kinds
    <3>2. Expected(k, user[a]) \in Address
      BY <1>1, <3>1 DEF Expected, Row
    <3> QED BY <1>1, <3>1, <3>2, PendingExists DEF LinkFor, Link, Row
  <2> QED BY <2>1, <2>2, <2>3
<1>4. inbox' \subseteq Link /\ \A l \in inbox' : Exists(l.account)
  <2>1. \A k : LinkFor(k, a).account = a
    BY DEF LinkFor
  <2> HIDE DEF a
  <2> QED BY <1>1, <1>2, <1>3, <2>1 DEF IInv, TypeOK, LinksOK
<1>5. \A b \in Account : <<"verification", b>> \in queue' => Exists(b)
  BY <1>2 DEF IInv, RowOK
<1>6. \A q \in Request : Goes(q)
  BY <1>2 DEF Goes
<1> QED BY <1>1, <1>2, <1>4, <1>5, <1>6, QuietStep DEF TypeOK

-----------------------------------------------------------------------------
(* The handlers that write a row.                                          *)

\* The row of an account that did not exist has no copies but the new one.
LEMMA CreateStep ==
  ASSUME IInv, NEW r \in Request, Create(r)
  PROVE  IInv'
<1>1. TypeOK /\ RequestOK(r) /\ Done(r) /\ req[r].pc = "create"
  BY DEF IInv, Create
<1>2. PICK a \in Account, e \in Address : a = req[r].account /\ e = req[r].address
  BY <1>1 DEF RequestOK
<1> DEFINE row == [NoRow EXCEPT !.email = e]
<1>3. CASE Exists(a) \/ ~Unique(a, e)
  BY <1>1, <1>2, <1>3, EndStep DEF Create
<1>4. CASE ~Exists(a) /\ Unique(a, e)
  <2>1. /\ user' = [user EXCEPT ![a] = row]
        /\ queue' \in {queue, queue \cup {<<"verification", a>>}}
        /\ UNCHANGED <<site, inbox, resets, proved, superseded>>
    BY <1>2, <1>4 DEF Create, Enqueue
  <2>2. row \in Row /\ row.email \in Address /\ row.pending = NoAddress /\ row.verified = FALSE
    BY <1>2 DEF NoRow, Row
  <2>3. /\ req' \in [Request -> Work] /\ req'[r] = Idle
        /\ \A q \in Request \ {r} : req'[q] = req[q]
    BY <1>1, DoneTyped
  <2>4. /\ user' \in [Account -> Row] /\ user'[a] = row
        /\ \A b \in Account \ {a} : user'[b] = user[b]
    BY <1>1, <1>2, <2>1, <2>2 DEF TypeOK
  <2>5. row.email # NoAddress
    BY <2>2, Constants
  <2>6. \A q \in Request : ~Holds(q, a)
    BY <1>4 DEF IInv, RequestOK, Holds
  <2> HIDE DEF row
  <2>7. TypeOK'
    BY <1>1, <1>2, <2>1, <2>3, <2>4 DEF TypeOK, Task
  <2>8. Exists(a)' /\ \A b \in Account \ {a} : Exists(b)' = Exists(b)
    BY <1>2, <2>4, <2>5 DEF Exists
  <2>9. Copies(a)' = {row} /\ \A b \in Account \ {a} : Copies(b)' \subseteq Copies(b)
    <3>1. \A q \in Request, b \in Account :
             Holds(q, b)' => Holds(q, b) /\ req'[q] = req[q]
      BY <2>3 DEF Holds, Idle
    <3>2. Copies(a)' = {user'[a]}
      BY <1>2, <2>6, <3>1, CopiesWillBe
    <3> QED BY <2>4, <3>1, <3>2, CopiesAre, CopiesWillBe
  <2>10. ASSUME NEW b \in Account PROVE RowOK(b)'
    <3>1. RowOK(b)
      BY DEF IInv
    <3>2. CASE b = a
      BY <2>2, <2>5, <2>8, <2>9, <3>2 DEF RowOK
    <3>3. CASE b # a
      <4>1. <<"verification", b>> \in queue' => <<"verification", b>> \in queue
        BY <2>1, <3>3
      <4> QED BY <2>4, <2>8, <2>9, <3>1, <3>3, <4>1 DEF RowOK
    <3> QED BY <3>2, <3>3
  <2>11. LinksOK'
    BY <1>1, <2>1, <2>8 DEF IInv, LinksOK, TypeOK, Link
  <2>12. ASSUME NEW q \in Request PROVE RequestOK(q)'
    <3>1. CASE q # r
      <4>1. RequestOK(q) /\ req'[q] = req[q]
        BY <2>3, <3>1 DEF IInv
      <4>2. req[q].pc \notin {"idle", "create"} => Exists(req[q].account)'
        BY <2>8, <4>1 DEF RequestOK
      <4> QED BY <2>1, <4>1, <4>2 DEF RequestOK, Exists
    <3>2. CASE q = r
      BY <2>3, <3>2 DEF RequestOK, Idle
    <3> QED BY <3>1, <3>2
  <2>13. ASSUME NEW b \in Account, b \notin superseded' PROVE ProofOK(b)'
    <3>1. ProofOK(b)
      BY <2>1, <2>13 DEF IInv
    <3>2. CASE b = a
      <4>1. \A q \in Request : ~(req'[q].account = a /\ req'[q].pc = "verify")
        BY <2>3, <2>6 DEF Holds, Idle
      <4> QED BY <2>2, <2>9, <3>2, <4>1 DEF ProofOK
    <3>3. CASE b # a
      <4>1. \A q \in Request : req'[q].account = b /\ req'[q].pc = "verify" =>
               req[q].account = b /\ req[q].pc = "verify"
        BY <2>3 DEF Idle
      <4>2. \A copy \in Copies(b)' : Descends(b, copy)
        BY <2>9, <3>3 DEF Descends
      <4> QED BY <2>1, <3>1, <4>1, <4>2, ProofPreserved
    <3> QED BY <3>2, <3>3
  <2>14. ASSUME site'.serial PROVE SerialOK'
    <3>1. SerialOK
      BY <2>1, <2>14 DEF IInv
    <3>2. \A q \in Request : req'[q].pc = "idle"
      BY <1>1, <2>3, <3>1 DEF SerialOK, Idle
    <3>3. ASSUME NEW b \in Account, user'[b].pending # NoAddress
          PROVE  ~Reserved(b, user[b].pending)'
      <4>1. b # a
        BY <2>2, <2>4, <3>3
      <4>2. ~Reserved(b, user[b].pending) /\ user'[b] = user[b]
        BY <2>4, <3>1, <3>3, <4>1 DEF SerialOK
      <4>3. ~Reserved(a, e)
        BY <1>1, <1>2, <3>1 DEF SerialOK
      <4>4. user[b].pending \notin {row.email, row.pending}
        BY <2>2, <3>3, <4>1, <4>2, <4>3 DEF Reserved, row, NoRow
      <4> QED BY <2>4, <4>1, <4>2, <4>4 DEF Reserved
    <3> QED BY <3>2, <3>3 DEF SerialOK
  <2> QED BY <2>7, <2>10, <2>11, <2>12, <2>13, <2>14 DEF IInv
<1> QED BY <1>3, <1>4

\* What a request that has loaded a row knows of it.
LEMMA Held ==
  ASSUME IInv, NEW r \in Request, req[r].pc \notin {"idle", "create"}
  PROVE  LET a == req[r].account
             row == req[r].row
         IN /\ a \in Account /\ row \in Row /\ row \in Copies(a) /\ user[a] \in Row
            /\ user[a] \in Copies(a)
            /\ row.email # NoAddress /\ row.pending # row.email
            /\ user[a].email # NoAddress /\ user[a].pending # user[a].email
            /\ site.serial => row = user[a]
<1>1. TypeOK /\ RequestOK(r)
  BY DEF IInv
<1>2. req[r].account \in Account /\ Exists(req[r].account)
  BY <1>1 DEF RequestOK
<1>3. req[r].row \in Copies(req[r].account) /\ user[req[r].account] \in Copies(req[r].account)
  BY <1>2, CopiesAre DEF Holds
<1>4. RowOK(req[r].account)
  BY <1>2 DEF IInv
<1>5. site.serial => req[r].row = user[req[r].account]
  BY DEF IInv, SerialOK
<1>6. req[r].row \in Row /\ user[req[r].account] \in Row
  BY <1>1, <1>2 DEF TypeOK, Work
<1> QED BY <1>2, <1>3, <1>4, <1>5, <1>6 DEF RowOK

\* With requests one at a time, the pending addresses are apart from all others.
LEMMA Apart ==
  ASSUME IInv, site.serial, NEW a \in Account, NEW b \in Account \ {a},
         user[b].pending # NoAddress
  PROVE  user[b].pending \notin {user[a].email, user[a].pending}
BY DEF IInv, SerialOK, Reserved

LEMMA SaveSettingsStep ==
  ASSUME IInv, NEW r \in Request, SaveSettings(r)
  PROVE  IInv'
<1> DEFINE a == req[r].account
           old == req[r].row
           e == req[r].address
           row == IF Asks(old, e) THEN [old EXCEPT !.pending = e] ELSE old
<1>1. TypeOK /\ RequestOK(r) /\ Done(r) /\ req[r].pc = "save"
  BY DEF IInv, SaveSettings
<1>2. /\ a \in Account /\ old \in Row /\ old \in Copies(a) /\ e \in Address
      /\ old.email # NoAddress /\ old.pending # old.email /\ (site.serial => old = user[a])
  BY <1>1, Held DEF RequestOK
<1>3. CASE ~Unique(a, old.email)
  BY <1>1, <1>3, EndStep DEF SaveSettings
<1>4. CASE Unique(a, old.email)
  <2>1. /\ user' = [user EXCEPT ![a] = row]
        /\ queue' \in {queue, queue \cup {<<"change", a>>}}
        /\ UNCHANGED <<site, inbox, resets, proved, superseded>>
    BY <1>4 DEF SaveSettings, Enqueue
  <2>2. row \in Row /\ row.email = old.email /\ row.verified = old.verified
        /\ row.pending \in {old.pending, e} /\ row.pending # row.email
    BY <1>2 DEF Row, Asks
  <2> HIDE DEF row
  <2>3. Descends(a, row)
    BY <1>2, <2>2 DEF Descends
  <2>4. site.serial => ~Reserved(a, e) /\ (old.pending # NoAddress => ~Reserved(a, old.pending))
    BY <1>1, <1>2 DEF IInv, SerialOK
  <2>5. site.serial => \A b \in Account \ {a} :
           user[b].pending # NoAddress => user[b].pending \notin {row.email, row.pending}
    BY <1>2, <2>2, <2>4, Apart DEF Reserved
  <2> HIDE DEF a, old, e
  <2>6. site.serial /\ row.pending # NoAddress => ~Reserved(a, row.pending)
    BY <2>2, <2>4
  <2>7. resets' \in [Account -> 0 .. site.resets]
    BY <1>1, <2>1 DEF TypeOK
  <2>8. row.email # NoAddress
    BY <1>2, <2>2
  <2> QED BY <1>1, <2>1, <2>2, <2>3, <2>5, <2>6, <2>7, <2>8, WriteStep DEF a
<1> QED BY <1>3, <1>4

LEMMA VerifyStep ==
  ASSUME IInv, NEW r \in Request, Verify(r)
  PROVE  IInv'
<1>1. TypeOK /\ RequestOK(r) /\ Done(r) /\ req[r].pc = "verify"
  BY DEF IInv, Verify
<1>2. PICK a \in Account : a = req[r].account
  BY <1>1 DEF RequestOK
<1> DEFINE row == [user[a] EXCEPT !.verified = TRUE]
<1>3. /\ user[a] \in Row /\ user[a] \in Copies(a)
      /\ user[a].email # NoAddress /\ user[a].pending # user[a].email
  BY <1>1, <1>2, Held
<1>4. /\ row \in Row /\ row.verified /\ row.email = user[a].email
      /\ row.pending = user[a].pending
  BY <1>3 DEF Row
<1>5. /\ user' = [user EXCEPT ![a] = row]
      /\ UNCHANGED <<site, queue, inbox, resets, proved, superseded>>
  BY <1>1, <1>2 DEF Verify, TypeOK
<1> HIDE DEF row
<1>6. a \in superseded' \/ Descends(a, row)
  <2>1. a \in superseded \/ <<a, user[a].email>> \in proved
    BY <1>1, <1>2, <1>3 DEF IInv, ProofOK
  <2> QED BY <1>4, <1>5, <2>1 DEF Descends
<1>7. site.serial /\ row.pending # NoAddress => ~Reserved(a, row.pending)
  BY <1>4 DEF IInv, SerialOK
<1>8. site.serial => \A b \in Account \ {a} :
         user[b].pending # NoAddress => user[b].pending \notin {row.email, row.pending}
  BY <1>4, Apart
<1>9. resets' \in [Account -> 0 .. site.resets]
  BY <1>1, <1>5 DEF TypeOK
<1>10. row.email # NoAddress /\ row.pending # row.email
  BY <1>3, <1>4
<1> QED BY <1>1, <1>2, <1>4, <1>5, <1>6, <1>7, <1>8, <1>9, <1>10, WriteStep

LEMMA ClearStep ==
  ASSUME IInv, NEW r \in Request, Clear(r)
  PROVE  IInv'
<1>1. TypeOK /\ RequestOK(r) /\ Done(r) /\ req[r].pc = "clear"
  BY DEF IInv, Clear
<1>2. PICK a \in Account : a = req[r].account
  BY <1>1 DEF RequestOK
<1> DEFINE row == [user[a] EXCEPT !.pending = NoAddress]
<1>3. /\ user[a] \in Row /\ user[a] \in Copies(a) /\ user[a].email # NoAddress
  BY <1>1, <1>2, Held
<1>4. /\ row \in Row /\ row.verified = user[a].verified /\ row.email = user[a].email
      /\ row.pending = NoAddress
  BY <1>3 DEF Row
<1>5. /\ user' = [user EXCEPT ![a] = row]
      /\ UNCHANGED <<site, queue, inbox, resets, proved, superseded>>
  BY <1>1, <1>2 DEF Clear, TypeOK
<1> HIDE DEF row
<1>6. Descends(a, row)
  BY <1>3, <1>4 DEF Descends
<1>7. site.serial => \A b \in Account \ {a} :
         user[b].pending # NoAddress => user[b].pending \notin {row.email, row.pending}
  BY <1>4, Apart
<1>8. resets' \in [Account -> 0 .. site.resets]
  BY <1>1, <1>5 DEF TypeOK
<1>9. row.email # NoAddress /\ row.pending # row.email
  BY <1>3, <1>4
<1> QED BY <1>1, <1>2, <1>4, <1>5, <1>6, <1>7, <1>8, <1>9, WriteStep

\* An address promoted is one whose link was followed, or the account is superseded.
LEMMA PromoteStep ==
  ASSUME IInv, NEW r \in Request, Promote(r)
  PROVE  IInv'
<1>1. TypeOK /\ RequestOK(r) /\ Done(r) /\ req[r].pc = "promote"
  BY DEF IInv, Promote
<1>0. PICK a \in Account : a = req[r].account
  BY <1>1 DEF RequestOK
<1>2. PICK e : a = req[r].account /\ e = user[a].pending
  BY <1>0
<1>3. /\ user[a] \in Row /\ user[a] \in Copies(a)
      /\ user[a].email # NoAddress /\ user[a].pending # user[a].email
  BY <1>1, <1>2, Held
<1>4. UNCHANGED <<site, queue, inbox, resets, proved>>
  BY DEF Promote
<1>5. superseded' = IF user'[a].email # user[a].email /\ e # req[r].row.pending
                      THEN superseded \cup {a} ELSE superseded
  BY <1>2 DEF Promote
<1>6. resets' \in [Account -> 0 .. site.resets]
  BY <1>1, <1>4 DEF TypeOK
<1>7. CASE e = NoAddress
  <2>1. user' = user
    BY <1>2, <1>7 DEF Promote
  <2>2. superseded' = superseded
    BY <1>5, <2>1
  <2> QED BY <1>1, <1>4, <2>1, <2>2, EndStep
<1>8. CASE e # NoAddress /\ ~Unique(a, e)
  <2> DEFINE row == [user[a] EXCEPT !.pending = NoAddress]
  <2>1. user' = [user EXCEPT ![a] = row]
    BY <1>1, <1>2, <1>8 DEF Promote, TypeOK
  <2>2. /\ row \in Row /\ row.verified = user[a].verified /\ row.email = user[a].email
        /\ row.pending = NoAddress
    BY <1>3 DEF Row
  <2> HIDE DEF row
  <2>3. Descends(a, row)
    BY <1>3, <2>2 DEF Descends
  <2>4. site.serial => \A b \in Account \ {a} :
           user[b].pending # NoAddress => user[b].pending \notin {row.email, row.pending}
    BY <2>2, Apart
  <2>5. superseded' = superseded
    BY <1>1, <1>2, <1>5, <2>1, <2>2 DEF TypeOK
  <2>6. row.email # NoAddress /\ row.pending # row.email
    BY <1>3, <2>2
  <2> QED BY <1>1, <1>2, <1>4, <1>6, <2>1, <2>2, <2>3, <2>4, <2>5, <2>6, WriteStep
<1>9. CASE e # NoAddress /\ Unique(a, e)
  <2> DEFINE row == [user[a] EXCEPT !.email = e, !.pending = NoAddress, !.verified = TRUE]
  <2>1. user' = [user EXCEPT ![a] = row]
    BY <1>1, <1>2, <1>9 DEF Promote, TypeOK
  <2>2. row \in Row /\ row.verified /\ row.email = e /\ row.pending = NoAddress
    BY <1>2, <1>3 DEF Row
  <2> HIDE DEF row
  <2>3. user'[a].email = e /\ user[a].email # e
    BY <1>1, <1>2, <1>3, <2>1, <2>2 DEF TypeOK
  <2>4. a \in superseded' \/ Descends(a, row)
    <3>1. CASE e # req[r].row.pending
      BY <1>5, <2>3, <3>1
    <3>2. CASE e = req[r].row.pending
      BY <1>1, <1>2, <1>4, <2>2, <3>2 DEF RequestOK, Descends
    <3> QED BY <3>1, <3>2
  <2>5. site.serial => \A b \in Account \ {a} :
           user[b].pending # NoAddress => user[b].pending \notin {row.email, row.pending}
    BY <1>2, <2>2, Apart
  <2>6. superseded' \in {superseded, superseded \cup {a}}
    BY <1>5
  <2>7. row.email # NoAddress /\ row.pending # row.email
    BY <1>9, <2>2
  <2> QED BY <1>1, <1>2, <1>4, <1>6, <2>1, <2>2, <2>4, <2>5, <2>6, <2>7, WriteStep
<1> QED BY <1>7, <1>8, <1>9

LEMMA SetPasswordStep ==
  ASSUME IInv, NEW r \in Request, SetPassword(r)
  PROVE  IInv'
<1>1. TypeOK /\ RequestOK(r) /\ Done(r) /\ req[r].pc = "reset"
  BY DEF IInv, SetPassword
<1>0. PICK a \in Account : a = req[r].account
  BY <1>1 DEF RequestOK
<1>2. PICK old : a = req[r].account /\ old = req[r].row
  BY <1>0
<1>3. /\ old \in Row /\ old \in Copies(a) /\ (site.serial => old = user[a])
      /\ old.email # NoAddress /\ old.pending # old.email
  BY <1>1, <1>2, Held
<1>4. CASE ~Unique(a, old.email)
  BY <1>1, <1>2, <1>4, EndStep DEF SetPassword
<1>5. CASE Unique(a, old.email)
  <2> DEFINE row == [old EXCEPT !.password = resets[a] + 1, !.verified = TRUE]
  <2>1. /\ user' = [user EXCEPT ![a] = row]
        /\ resets' = [resets EXCEPT ![a] = @ + 1] /\ resets[a] < site.resets
        /\ UNCHANGED <<site, queue, inbox, proved, superseded>>
    BY <1>2, <1>5 DEF SetPassword
  <2>2. site.resets \in Nat /\ resets \in [Account -> 0 .. site.resets]
    BY <1>1, Constants DEF TypeOK
  <2>3. resets' \in [Account -> 0 .. site.resets] /\ resets[a] + 1 \in Nat
    BY <2>1, <2>2
  <2>4. row \in Row /\ row.verified /\ row.email = old.email /\ row.pending = old.pending
    BY <1>3, <2>3 DEF Row
  <2> HIDE DEF row
  <2>5. Descends(a, row)
    BY <1>1, <1>2, <2>1, <2>4 DEF RequestOK, Descends
  <2>6. site.serial /\ row.pending # NoAddress => ~Reserved(a, row.pending)
    BY <1>3, <2>4 DEF IInv, SerialOK
  <2>7. site.serial => \A b \in Account \ {a} :
           user[b].pending # NoAddress => user[b].pending \notin {row.email, row.pending}
    BY <1>3, <2>4, Apart
  <2>8. row.email # NoAddress /\ row.pending # row.email
    BY <1>3, <2>4
  <2> QED BY <1>1, <1>2, <2>1, <2>3, <2>4, <2>5, <2>6, <2>7, <2>8, WriteStep
<1> QED BY <1>4, <1>5

-----------------------------------------------------------------------------
(* Every step.                                                             *)

LEMMA NextIInv ==
  ASSUME IInv, [Next]_vars
  PROVE  IInv'
<1>1. ASSUME NEW r \in Request, Step(r) PROVE IInv'
  BY <1>1, CreateStep, CleanEmailStep, SaveSettingsStep, VerifyStep, PromoteStep, ClearStep,
     SetPasswordStep DEF Step
<1>2. ASSUME NEW r \in Request, Abort(r) PROVE IInv'
  BY <1>2, AbortStep
<1>3. ASSUME NEW r \in Request, NEW a \in Account, NEW e \in Address,
             SignUp(r, a, e) \/ OpenSettings(r, a, e)
      PROVE  IInv'
  BY <1>3, SignUpStep, OpenSettingsStep
<1>4. ASSUME NEW r \in Request, NEW a \in Account, Cancel(r, a) \/ OpenReset(r, a) PROVE IInv'
  BY <1>4, CancelStep, OpenResetStep
<1>5. ASSUME NEW r \in Request, NEW l \in inbox, OpenLink(r, l) PROVE IInv'
  BY <1>5, OpenLinkStep
<1>6. ASSUME NEW a \in Account, ResendVerification(a) \/ ResendChange(a) PROVE IInv'
  BY <1>6, ResendStep
<1>7. ASSUME NEW t \in Task, Deliver(t[1], t[2]) PROVE IInv'
  BY <1>7, DeliverStep
<1>8. CASE UNCHANGED vars
  <2>1. \A q \in Request : Goes(q)
    BY <1>8 DEF vars, Goes
  <2>2. \A a \in Account : <<"verification", a>> \in queue' => Exists(a)
    BY <1>8 DEF vars, IInv, RowOK
  <2> QED BY <1>8, <2>1, <2>2, QuietStep DEF vars, IInv, TypeOK, LinksOK
<1> QED BY <1>1, <1>2, <1>3, <1>4, <1>5, <1>6, <1>7, <1>8 DEF Next

-----------------------------------------------------------------------------
(* The theorems.                                                           *)

\* The inductive invariant holds of every reachable state.
THEOREM Invariance == Spec => []IInv
BY InitIInv, NextIInv, PTL DEF Spec

\* Every variable stays in its type, for any number of accounts and requests.
THEOREM TypeCorrect == Spec => []TypeOK
<1>1. IInv => TypeOK
  BY DEF IInv
<1> QED BY <1>1, Invariance, PTL

\* Verified means that a link was followed at that address, however the forms' stale rows,
\* the links and the resets interleave, but for accounts superseded under a checked link.
THEOREM VerifiedMeansProved == Spec => []VerifiedIsProved
<1>1. ASSUME IInv, NEW a \in Account, user[a].verified
      PROVE  <<a, user[a].email>> \in proved \/ a \in superseded
  BY <1>1, CopiesAre DEF IInv, ProofOK
<1>2. IInv => VerifiedIsProved
  BY <1>1 DEF VerifiedIsProved
<1> QED BY <1>2, Invariance, PTL

\* With requests one at a time, nobody else has or awaits a pending address.
THEOREM PendingReserved == Spec => []PendingIsReserved
<1>1. IInv => PendingIsReserved
  BY DEF IInv, SerialOK, PendingIsReserved
<1> QED BY <1>1, Invariance, PTL

-----------------------------------------------------------------------------
(* Requests one at a time implement the book of addresses.                 *)

\* What the book does not see: the steps of a site whose requests interleave, and those
\* that leave rows and proofs alone.
LEMMA BookStutters ==
  ASSUME site' = site, ~site.serial \/ UNCHANGED <<user, proved>>
  PROVE  UNCHANGED Contract!book
BY DEF Contract!book, Printed

\* Functions that agree but at a.
LEMMA Updated ==
  ASSUME NEW T, NEW f \in [Account -> T], NEW g \in [Account -> T], NEW a \in Account,
         \A b \in Account \ {a} : g[b] = f[b]
  PROVE  g = [f EXCEPT ![a] = g[a]]
OBVIOUS

\* A write of one row, as the book sees it.
LEMMA BookWrites ==
  ASSUME site.serial, TypeOK, UNCHANGED <<site, proved>>, NEW a \in Account, NEW row \in Row,
         user' = [user EXCEPT ![a] = row]
  PROVE  /\ user[a].email = NoAddress /\ row.pending = user[a].pending
            /\ row.verified = user[a].verified /\ ~Reserved(a, row.email)
            => Contract!Register(a)
         /\ user[a].email # NoAddress /\ row.email = user[a].email
            /\ row.verified = user[a].verified
            /\ (row.pending # NoAddress => ~Reserved(a, row.pending))
            => Contract!Ask(a)
         /\ <<a, user[a].email>> \in proved /\ row.email = user[a].email
            /\ row.pending = user[a].pending /\ row.verified
            => Contract!Verify(a)
         /\ user[a].pending # NoAddress /\ <<a, user[a].pending>> \in proved
            /\ row.email = user[a].pending /\ row.pending = NoAddress /\ row.verified
            => Contract!Promote(a)
<1>1. user'[a] = row /\ \A b \in Account \ {a} : user'[b] = user[b]
  BY DEF TypeOK
<1> DEFINE Email == [b \in Account |-> user[b].email]
           Pending == [b \in Account |-> user[b].pending]
           Verified == [b \in Account |-> user[b].verified]
<1>2. /\ Email' = [Email EXCEPT ![a] = Email'[a]]
      /\ Pending' = [Pending EXCEPT ![a] = Pending'[a]]
      /\ Verified' = [Verified EXCEPT ![a] = Verified'[a]]
  <2>1. user \in [Account -> Row] /\ user' \in [Account -> Row]
    BY DEF TypeOK
  <2>2. /\ Email \in [Account -> Address \cup {NoAddress}]
        /\ Email' \in [Account -> Address \cup {NoAddress}]
        /\ Pending \in [Account -> Address \cup {NoAddress}]
        /\ Pending' \in [Account -> Address \cup {NoAddress}]
        /\ Verified \in [Account -> BOOLEAN] /\ Verified' \in [Account -> BOOLEAN]
    BY <2>1 DEF Row
  <2>3. \A b \in Account \ {a} :
          Email'[b] = Email[b] /\ Pending'[b] = Pending[b] /\ Verified'[b] = Verified[b]
    BY <1>1
  <2> HIDE DEF Email, Pending, Verified
  <2> QED BY <2>2, <2>3, Updated
<1>3. /\ row.email = user[a].email => Email' = Email
      /\ row.pending = user[a].pending => Pending' = Pending
      /\ row.verified = user[a].verified => Verified' = Verified
  BY <1>1
<1>4. \A b \in Account : /\ Email[b] = user[b].email /\ Pending[b] = user[b].pending
                         /\ Email'[b] = user'[b].email /\ Pending'[b] = user'[b].pending
  OBVIOUS
<1>5. /\ Printed(Email, [b \in Account |-> NoAddress]) = Email
      /\ Printed(Pending, [b \in Account |-> NoAddress]) = Pending
      /\ Printed(Verified, [b \in Account |-> FALSE]) = Verified
      /\ Printed(proved, {}) = proved
      /\ Printed(Email, [b \in Account |-> NoAddress])' = Email'
      /\ Printed(Pending, [b \in Account |-> NoAddress])' = Pending'
      /\ Printed(Verified, [b \in Account |-> FALSE])' = Verified'
      /\ Printed(proved, {})' = proved
  BY DEF Printed
<1>6. \A e : ~Reserved(a, e) => Contract!Free(a, e)
  BY <1>4, <1>5 DEF Reserved, Contract!Free
<1>7. Email'[a] = row.email /\ Pending'[a] = row.pending /\ Verified'[a] = row.verified
  BY <1>1
<1>8. Email[a] = user[a].email /\ Pending[a] = user[a].pending
  OBVIOUS
<1> HIDE DEF Email, Pending, Verified
<1>9. Contract!Register(a) <=>
        /\ Email[a] = NoAddress
        /\ Email' = [Email EXCEPT ![a] = Email'[a]]
        /\ Contract!Free(a, Email'[a])
        /\ Pending' = Pending /\ Verified' = Verified
  BY <1>5 DEF Contract!Register, Email, Pending, Verified
<1>10. Contract!Ask(a) <=>
        /\ Email[a] # NoAddress
        /\ Pending' = [Pending EXCEPT ![a] = Pending'[a]]
        /\ Pending'[a] = NoAddress \/ Contract!Free(a, Pending'[a])
        /\ Email' = Email /\ Verified' = Verified
  BY <1>5 DEF Contract!Ask, Email, Pending, Verified
<1>11. Contract!Verify(a) <=>
        /\ <<a, Email[a]>> \in proved
        /\ Verified' = [Verified EXCEPT ![a] = TRUE]
        /\ Email' = Email /\ Pending' = Pending
  BY <1>5 DEF Contract!Verify, Email, Pending, Verified
<1>12. Contract!Promote(a) <=>
        /\ Pending[a] # NoAddress /\ <<a, Pending[a]>> \in proved
        /\ Email' = [Email EXCEPT ![a] = Pending[a]]
        /\ Pending' = [Pending EXCEPT ![a] = NoAddress]
        /\ Verified' = [Verified EXCEPT ![a] = TRUE]
  BY <1>5 DEF Contract!Promote, Email, Pending, Verified
<1>13. row.verified \in BOOLEAN
  BY DEF Row
<1> QED BY <1>2, <1>3, <1>6, <1>7, <1>8, <1>9, <1>10, <1>11, <1>12, <1>13

\* Each handler's write is one step of the book, or none.
LEMMA StepImplements ==
  ASSUME IInv, site.serial, NEW r \in Request, Step(r)
  PROVE  Contract!Next \/ UNCHANGED Contract!book
<1> DEFINE Here == Contract!Next \/ UNCHANGED Contract!book
<1>1. /\ TypeOK /\ RequestOK(r) /\ SerialOK /\ site' = site /\ proved' = proved
      /\ req[r].pc # "idle"
  BY DEF IInv, Step, Create, CleanEmail, SaveSettings, Verify, Promote, Clear, SetPassword
<1>0. PICK a \in Account : a = req[r].account
  BY <1>1 DEF RequestOK
<1>2. PICK e, old : a = req[r].account /\ e = req[r].address /\ old = req[r].row
  BY <1>0
<1>3. user[a] \in Row
  BY <1>1 DEF TypeOK
<1>4. CASE UNCHANGED user
  BY <1>1, <1>4, BookStutters
<1>5. ASSUME Create(r), user' # user PROVE Here
  <2> DEFINE row == [NoRow EXCEPT !.email = e]
  <2>1. ~Exists(a) /\ user' = [user EXCEPT ![a] = row] /\ req[r].pc = "create"
    BY <1>2, <1>5 DEF Create
  <2>2. e \in Address /\ ~Reserved(a, e) /\ user[a] = NoRow
    BY <1>1, <1>2, <2>1 DEF RequestOK, SerialOK, IInv, RowOK
  <2>3. /\ row \in Row /\ row.email = e /\ row.pending = NoRow.pending
        /\ row.verified = NoRow.verified
    BY <2>2 DEF NoRow, Row
  <2> HIDE DEF row
  <2>4. Contract!Register(a)
    BY <1>1, <2>1, <2>2, <2>3, BookWrites DEF Exists
  <2> QED BY <2>4 DEF Contract!Next
<1>6. ASSUME req[r].pc \notin {"idle", "create"}
      PROVE  old = user[a] /\ user[a].email # NoAddress
  BY <1>2, <1>6, Held
<1>7. ASSUME SaveSettings(r), user' # user PROVE Here
  <2> DEFINE row == IF Asks(old, e) THEN [old EXCEPT !.pending = e] ELSE old
  <2>1. user' = [user EXCEPT ![a] = row] /\ req[r].pc = "save"
    BY <1>2, <1>7 DEF SaveSettings
  <2>2. /\ e \in Address /\ ~Reserved(a, e) /\ old = user[a] /\ user[a].email # NoAddress
        /\ user[a].pending # NoAddress => ~Reserved(a, user[a].pending)
    BY <1>1, <1>2, <1>6, <2>1 DEF RequestOK, SerialOK
  <2>3. /\ row \in Row /\ row.email = user[a].email /\ row.verified = user[a].verified
        /\ row.pending \in {e, user[a].pending}
    BY <1>3, <2>2 DEF Row
  <2> HIDE DEF row
  <2>4. Contract!Ask(a)
    BY <1>1, <2>1, <2>2, <2>3, BookWrites
  <2> QED BY <2>4 DEF Contract!Next
<1>8. ASSUME Verify(r) PROVE Here
  <2> DEFINE row == [user[a] EXCEPT !.verified = TRUE]
  <2>1. user' = [user EXCEPT ![a] = row] /\ req[r].pc = "verify"
    BY <1>1, <1>2, <1>8 DEF Verify, TypeOK
  <2>2. <<a, user[a].email>> \in proved
    BY <1>1, <1>2, <1>6, <2>1 DEF RequestOK
  <2>3. /\ row \in Row /\ row.email = user[a].email /\ row.verified
        /\ row.pending = user[a].pending
    BY <1>3 DEF Row
  <2> HIDE DEF row
  <2>4. Contract!Verify(a)
    BY <1>1, <2>1, <2>2, <2>3, BookWrites
  <2> QED BY <2>4 DEF Contract!Next
<1>9. ASSUME Promote(r) PROVE Here
  <2> DEFINE row == [user[a] EXCEPT !.email = user[a].pending, !.pending = NoAddress,
                                    !.verified = TRUE]
  <2>1. req[r].pc = "promote"
    BY <1>9 DEF Promote
  <2>2. user[a].pending \in Address /\ <<a, user[a].pending>> \in proved
    BY <1>1, <1>2, <1>6, <2>1 DEF RequestOK
  <2>3. user[a].pending # NoAddress
    BY <2>2, Constants
  <2>4. Unique(a, user[a].pending)
    BY <1>1, <2>3 DEF SerialOK, Reserved, Unique
  <2>5. user' = [user EXCEPT ![a] = row]
    BY <1>1, <1>2, <1>9, <2>3, <2>4 DEF Promote, TypeOK
  <2>6. /\ row \in Row /\ row.email = user[a].pending /\ row.verified
        /\ row.pending = NoAddress
    BY <1>3 DEF Row
  <2> HIDE DEF row
  <2>7. Contract!Promote(a)
    BY <1>1, <2>2, <2>3, <2>5, <2>6, BookWrites
  <2> QED BY <2>7 DEF Contract!Next
<1>10. ASSUME Clear(r) PROVE Here
  <2> DEFINE row == [user[a] EXCEPT !.pending = NoAddress]
  <2>1. user' = [user EXCEPT ![a] = row] /\ req[r].pc = "clear"
    BY <1>1, <1>2, <1>10 DEF Clear, TypeOK
  <2>2. /\ row \in Row /\ row.email = user[a].email /\ row.verified = user[a].verified
        /\ row.pending = NoAddress
    BY <1>3 DEF Row
  <2> HIDE DEF row
  <2>3. Contract!Ask(a)
    BY <1>1, <1>6, <2>1, <2>2, BookWrites
  <2> QED BY <2>3 DEF Contract!Next
<1>11. ASSUME SetPassword(r), user' # user PROVE Here
  <2> DEFINE row == [old EXCEPT !.password = resets[a] + 1, !.verified = TRUE]
  <2>1. user' = [user EXCEPT ![a] = row] /\ req[r].pc = "reset"
    BY <1>2, <1>11 DEF SetPassword
  <2>2. <<a, user[a].email>> \in proved /\ old = user[a]
    BY <1>1, <1>2, <1>6, <2>1 DEF RequestOK
  <2>3. resets[a] + 1 \in Nat
    BY <1>1, Constants DEF TypeOK
  <2>4. /\ row \in Row /\ row.email = user[a].email /\ row.verified
        /\ row.pending = user[a].pending
    BY <1>3, <2>2, <2>3 DEF Row
  <2> HIDE DEF row
  <2>5. Contract!Verify(a)
    BY <1>1, <2>1, <2>2, <2>4, BookWrites
  <2> QED BY <2>5 DEF Contract!Next
<1>12. ASSUME CleanEmail(r) PROVE UNCHANGED user
  BY <1>12 DEF CleanEmail
<1> HIDE DEF Here
<1>13. Here
  BY <1>4, <1>5, <1>7, <1>8, <1>9, <1>10, <1>11, <1>12 DEF Step, Here
<1> QED BY <1>13 DEF Here

\* To follow a link at an address of one's own is to answer there.
LEMMA AnswerImplements ==
  ASSUME IInv, site.serial, UNCHANGED <<site, user>>, NEW a \in Account,
         NEW e \in {user[a].email, user[a].pending}, e # NoAddress,
         proved' = proved \cup {<<a, e>>}
  PROVE  Contract!Next
<1>1. Contract!Answer(a)
  BY DEF Contract!Answer, Printed
<1> QED BY <1>1 DEF Contract!Next

LEMMA OpenLinkImplements ==
  ASSUME IInv, site.serial, NEW r \in Request, NEW l \in inbox, OpenLink(r, l)
  PROVE  Contract!Next \/ UNCHANGED Contract!book
<1>1. l \in Link /\ site' = site /\ user' = user
  BY DEF IInv, TypeOK, OpenLink
<1>2. CASE l.kind = "revoke"
  BY <1>1, <1>2, BookStutters DEF OpenLink
<1>3. CASE l.kind # "revoke"
  <2>1. /\ l.account \in Account /\ l.address \in {user[l.account].email, user[l.account].pending}
        /\ l.address # NoAddress
    BY <1>1, Constants DEF OpenLink, Valid, Expected, Link
  <2>2. proved' = proved \cup {<<l.account, l.address>>}
    BY <1>3 DEF OpenLink
  <2> QED BY <1>1, <2>1, <2>2, AnswerImplements
<1> QED BY <1>2, <1>3

\* The handlers implement the book: the initial states are its own, and every step is one
\* of its steps or leaves it as it is.
THEOREM Implementation == Spec => ImplementsAddressBook
<1>1. ASSUME Init PROVE Contract!Init
  <2>1. /\ [a \in Account |-> user[a].email] = [a \in Account |-> NoAddress]
        /\ [a \in Account |-> user[a].pending] = [a \in Account |-> NoAddress]
        /\ [a \in Account |-> user[a].verified] = [a \in Account |-> FALSE]
        /\ proved = {}
    BY <1>1 DEF Init, NoRow
  <2> QED BY <2>1 DEF Contract!Init, Printed
<1>2. ASSUME IInv, [Next]_vars PROVE [Contract!Next]_(Contract!book)
  <2> SUFFICES Contract!Next \/ UNCHANGED Contract!book
    OBVIOUS
  <2>1. site' = site
    BY <1>2 DEF Next, vars, Step, Create, CleanEmail, SaveSettings, Verify, Promote, Clear,
                SetPassword, Abort, SignUp, OpenSettings, Cancel, OpenReset, OpenLink,
                ResendVerification, ResendChange, Deliver
  <2>2. CASE ~site.serial
    BY <2>1, <2>2, BookStutters
  <2>3. ASSUME site.serial, NEW r \in Request, Step(r)
        PROVE  Contract!Next \/ UNCHANGED Contract!book
    BY <1>2, <2>3, StepImplements
  <2>4. ASSUME NEW r \in Request,
               Abort(r) \/ \E a \in Account : Cancel(r, a) \/
                 \E e \in Address : SignUp(r, a, e) \/ OpenSettings(r, a, e)
        PROVE  UNCHANGED Contract!book
    BY <2>1, <2>4, BookStutters DEF Abort, Cancel, SignUp, OpenSettings
  <2>5. ASSUME site.serial, NEW r \in Request, NEW a \in Account, OpenReset(r, a)
        PROVE  Contract!Next
    BY <1>2, <2>1, <2>5, AnswerImplements DEF OpenReset, Exists
  <2>6. ASSUME site.serial, NEW r \in Request, NEW l \in inbox, OpenLink(r, l)
        PROVE  Contract!Next \/ UNCHANGED Contract!book
    BY <1>2, <2>6, OpenLinkImplements
  <2>7. ASSUME \/ \E a \in Account : ResendVerification(a) \/ ResendChange(a)
               \/ \E t \in Task : Deliver(t[1], t[2])
               \/ UNCHANGED vars
        PROVE  UNCHANGED Contract!book
    BY <2>1, <2>7, BookStutters DEF ResendVerification, ResendChange, Deliver, vars
  <2> QED BY <1>2, <2>1, <2>2, <2>3, <2>4, <2>5, <2>6, <2>7 DEF Next
<1> QED BY <1>1, <1>2, Invariance, PTL DEF Spec, ImplementsAddressBook, Contract!Spec

=============================================================================
