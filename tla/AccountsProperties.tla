------------------------- MODULE AccountsProperties -------------------------
(* What Accounts is checked for. *)
EXTENDS Accounts

\* Every variable stays in its type.
TypeOK ==
  /\ site \in Site
  /\ user \in [Account -> Row]
  /\ req \in [Request -> Work]
  /\ queue \subseteq Task
  /\ inbox \subseteq Link
  /\ resets \in [Account -> 0 .. site.resets]
  /\ proved \subseteq Account \X Address
  /\ superseded \subseteq Account

\* ADR 2: nobody's address counts as verified "without proving ownership" of it,
\* whatever forms, links, mails and resets interleave, but for an account whose
\* pending address was replaced between a link's check and its promotion.
VerifiedIsProved ==
  \A a \in Account :
    user[a].verified => <<a, user[a].email>> \in proved \/ a \in superseded

\* Requests one at a time: the handlers implement the book of addresses, in which
\* reservation, proof and promotion are atomic.  (The book of a site whose requests
\* interleave stays as it was printed: it promises nothing.)
Printed(x, blank) == IF site.serial THEN x ELSE blank
Contract == INSTANCE AddressBook WITH
  email <- Printed([a \in Account |-> user[a].email], [a \in Account |-> NoAddress]),
  pending <- Printed([a \in Account |-> user[a].pending], [a \in Account |-> NoAddress]),
  verified <- Printed([a \in Account |-> user[a].verified], [a \in Account |-> FALSE]),
  proved <- Printed(proved, {})
ImplementsAddressBook == Contract!Spec

\* ADR 2: "pending_email ... is strictly reserved across all accounts": it is, if requests
\* run one at a time.
PendingIsReserved ==
  site.serial =>
    \A a \in Account : user[a].pending # NoAddress => ~Reserved(a, user[a].pending)

-----------------------------------------------------------------------------
(* The inductive invariant.                                                *)

\* The request has loaded the row of a, and will write some or all of it back.
Holds(r, a) == req[r].account = a /\ req[r].pc \notin {"idle", "create"}

\* Every copy of the row of a: the table's and those in requests.
Copies(a) == {user[a]} \cup {req[r].row : r \in {q \in Request : Holds(q, a)}}

\* Accounts that were never created have no trace of one; an address is never pending
\* and the account's own.
RowOK(a) ==
  /\ ~Exists(a) => user[a] = NoRow
  /\ Exists(a) => \A row \in Copies(a) : row.email # NoAddress /\ row.pending # row.email
  /\ <<"verification", a>> \in queue => Exists(a)

LinksOK == \A l \in inbox : Exists(l.account)

\* What the steps before the present one have established.
RequestOK(r) ==
  LET q == req[r]
  IN /\ q.pc # "idle" => q.account \in Account
     /\ q.pc \notin {"idle", "create"} => Exists(q.account)
     /\ q.pc \in {"create", "reserve", "save", "verify", "promote"} => q.address \in Address
     /\ q.pc = "promote" => q.address = q.row.pending /\ <<q.account, q.address>> \in proved
     /\ q.pc = "verify" => q.address = q.row.email /\ <<q.account, q.address>> \in proved
     /\ q.pc = "reset" => <<q.account, q.row.email>> \in proved

\* No copy is verified but of a proved address; there is one address at most, that of the
\* sign-up, that is in unverified copies and not proved; and there is none such once a
\* link has been followed to verify.
ProofOK(a) ==
  /\ \A row \in Copies(a) : row.verified => <<a, row.email>> \in proved
  /\ \A row, other \in Copies(a) :
       ~row.verified /\ <<a, other.email>> \notin proved => row.email = other.email
  /\ (\E r \in Request : req[r].account = a /\ req[r].pc = "verify") =>
       \A row \in Copies(a) : <<a, row.email>> \in proved

\* One at a time, what a request has read is how it is.
SerialOK ==
  /\ \A r, q \in Request : req[r].pc # "idle" /\ req[q].pc # "idle" => r = q
  /\ \A r \in Request :
       /\ req[r].pc \notin {"idle", "create"} => req[r].row = user[req[r].account]
       /\ req[r].pc = "create" => ~Exists(req[r].account)
       /\ req[r].pc \in {"create", "save"} => ~Reserved(req[r].account, req[r].address)
  /\ \A a \in Account : user[a].pending # NoAddress => ~Reserved(a, user[a].pending)

IInv ==
  /\ TypeOK
  /\ \A a \in Account : RowOK(a)
  /\ LinksOK
  /\ \A r \in Request : RequestOK(r)
  /\ \A a \in Account : a \in superseded \/ ProofOK(a)
  /\ site.serial => SerialOK

=============================================================================
