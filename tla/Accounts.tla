------------------------------ MODULE Accounts ------------------------------
(***************************************************************************)
(* Accounts and their addresses: sign-up, the settings forms, the links    *)
(* that verify, confirm or revoke an address, password reset, and the      *)
(* Celery tasks that mail the links.                                       *)
(*                                                                         *)
(* A request loads the user's row, checks, and writes in a later step: the *)
(* forms and the password reset write back the WHOLE row they loaded, the  *)
(* link handlers only the columns they change.  A link carries no state on *)
(* the server: it is good while its password hash and address are the      *)
(* row's (and for 24 hours: a link that is never opened has expired).      *)
(***************************************************************************)
EXTENDS Integers, FiniteSets

CONSTANTS
  Account, Address,
  NoAccount,   \* no account: what an idle worker serves
  NoAddress,   \* no address: a free pending_email, or an account not created yet
  Request,     \* the workers a web request can be running in
  Site         \* instances: whether requests run one at a time, and the bounds of the
               \* accounts and addresses in use of an account's password
               \* resets and of the different links ever mailed

ASSUME NobodyAssumption == NoAccount \notin Account /\ NoAddress \notin Address
ASSUME BoundAssumption ==
  Site \subseteq [serial : BOOLEAN, accounts : SUBSET Account, addresses : Nat,
                                      resets : Nat, links : Nat]

VARIABLES
  site,        \* the instance this behaviour runs in
  user,        \* account -> its row
  req,         \* request -> where it is, with the row as it loaded it
  queue,       \* mail tasks enqueued
  inbox,       \* links that were mailed
  resets,      \* history: account -> password resets so far
  proved,      \* history: <<account, address>> whose mail was read there
  superseded   \* history: accounts whose pending address changed under a checked link

vars == <<site, user, req, queue, inbox, resets, proved, superseded>>

Row == [email : Address \cup {NoAddress}, pending : Address \cup {NoAddress},
        verified : BOOLEAN, password : Nat]
NoRow == [email |-> NoAddress, pending |-> NoAddress, verified |-> FALSE, password |-> 0]

Task == {"verification", "change", "confirmation"} \X Account
Link == [kind : {"verify", "confirm", "revoke"}, account : Account, address : Address,
         password : Nat]

Work == [pc : {"idle", "create", "reserve", "save", "verify", "promote", "clear", "reset"},
         account : Account \cup {NoAccount}, address : Address \cup {NoAddress}, row : Row]
Idle == [pc |-> "idle", account |-> NoAccount, address |-> NoAddress,
         row |-> NoRow]

Exists(a) == user[a].email # NoAddress

\* Mutant: pending addresses are not looked at.
ReservedByEmail(a, e) == \E b \in Account \ {a} : user[b].email = e

\* clean_email: the address is on no other account, pending ones included.
Reserved(a, e) == \E b \in Account \ {a} : e \in {user[b].email, user[b].pending}

\* The unique index on Lower(email).
Unique(a, e) == \A b \in Account \ {a} : user[b].email # e

\* A worker takes up a request that has loaded the row of a.
Start(r, pc, a, e) ==
  /\ req[r].pc = "idle"
  /\ site.serial => \A q \in Request : req[q].pc = "idle"
  /\ req' = [req EXCEPT ![r] = [pc |-> pc, account |-> a, address |-> e, row |-> user[a]]]

Done(r) == req' = [req EXCEPT ![r] = Idle]

\* A broker that does not answer is logged and the task is lost.
Enqueue(task, a) == queue' \in {queue, queue \cup {<<task, a>>}}

-----------------------------------------------------------------------------
(* Sign-up and the settings forms.                                         *)

Addresses ==
  UNION {{user[a].email, user[a].pending} : a \in Account}
    \cup {req[q].address : q \in Request} \cup {p[2] : p \in proved}

\* The bounds of the site.
Room(a, e) ==
  /\ a \in site.accounts
  /\ Cardinality((Addresses \cup {e}) \ {NoAddress}) <= site.addresses

SignUp(r, a, e) ==
  /\ ~Exists(a) /\ ~Reserved(a, e)
  /\ Room(a, e)
  /\ Start(r, "create", a, e)
  /\ UNCHANGED <<site, user, queue, inbox, resets, proved, superseded>>

Create(r) ==
  LET a == req[r].account
  IN /\ req[r].pc = "create"
     /\ IF Exists(a) \/ ~Unique(a, req[r].address)
          THEN UNCHANGED <<user, queue>>
          ELSE /\ user' = [user EXCEPT ![a] = [NoRow EXCEPT !.email = req[r].address]]
               /\ Enqueue("verification", a)
     /\ Done(r)
     /\ UNCHANGED <<site, inbox, resets, proved, superseded>>

OpenSettings(r, a, e) ==
  /\ Exists(a) /\ Room(a, e)
  /\ Start(r, "reserve", a, e)
  /\ UNCHANGED <<site, user, queue, inbox, resets, proved, superseded>>

CleanEmail(r) ==
  /\ req[r].pc = "reserve"
  /\ req' = IF Reserved(req[r].account, req[r].address)
              THEN [req EXCEPT ![r] = Idle]
              ELSE [req EXCEPT ![r].pc = "save"]
  /\ UNCHANGED <<site, user, queue, inbox, resets, proved, superseded>>

\* The form's address becomes the pending one unless it is the account's already.
Asks(row, e) == e \notin {row.email, row.pending}

\* user.save(): every column as it was loaded, but for the pending address.
SaveSettings(r) ==
  LET a == req[r].account
      row == req[r].row
      new == Asks(row, req[r].address)
  IN /\ req[r].pc = "save"
     /\ IF Unique(a, row.email)
          THEN /\ user' = [user EXCEPT ![a] =
                    IF new THEN [row EXCEPT !.pending = req[r].address] ELSE row]
               /\ IF new THEN Enqueue("change", a) ELSE UNCHANGED queue
          ELSE UNCHANGED <<user, queue>>
     /\ Done(r)
     /\ UNCHANGED <<site, inbox, resets, proved, superseded>>

-----------------------------------------------------------------------------
(* Links.                                                                  *)

Expected(kind, row) == IF kind = "verify" THEN row.email ELSE row.pending

\* Mutant: the address in the link is not compared with the row's.
ValidAnyAddress(l) ==
  /\ l.password = user[l.account].password
  /\ Expected(l.kind, user[l.account]) # NoAddress

\* check_token, for a link that is not older than a day.
Valid(l) ==
  /\ l.password = user[l.account].password
  /\ Expected(l.kind, user[l.account]) = l.address

\* The owner of the mailbox follows a link; what it is for comes next.
OpenLink(r, l) ==
  /\ l \in inbox /\ Valid(l)
  /\ l.kind = "verify" => ~user[l.account].verified
  /\ Start(r, CASE l.kind = "verify" -> "verify"
                [] l.kind = "confirm" -> "promote"
                [] l.kind = "revoke" -> "clear", l.account, l.address)
  /\ proved' = IF l.kind = "revoke" THEN proved ELSE proved \cup {<<l.account, l.address>>}
  /\ UNCHANGED <<site, user, queue, inbox, resets, superseded>>

Verify(r) ==
  /\ req[r].pc = "verify"
  /\ user' = [user EXCEPT ![req[r].account].verified = TRUE]
  /\ Done(r)
  /\ UNCHANGED <<site, queue, inbox, resets, proved, superseded>>

\* Under a lock on the row the address that is pending NOW becomes the account's.
Promote(r) ==
  LET a == req[r].account
      e == user[a].pending
  IN /\ req[r].pc = "promote"
     /\ user' = CASE e = NoAddress -> user
                  [] e # NoAddress /\ ~Unique(a, e) -> [user EXCEPT ![a].pending = NoAddress]
                  [] e # NoAddress /\ Unique(a, e) ->
                       [user EXCEPT ![a] = [@ EXCEPT !.email = e, !.pending = NoAddress,
                                                     !.verified = TRUE]]
     /\ superseded' = IF user'[a].email # user[a].email /\ e # req[r].row.pending
                        THEN superseded \cup {a} ELSE superseded
     /\ Done(r)
     /\ UNCHANGED <<site, queue, inbox, resets, proved>>

\* The settings page's Cancel; revoke_email_change arrives by its link.
Cancel(r, a) ==
  /\ user[a].pending # NoAddress
  /\ Start(r, "clear", a, NoAddress)
  /\ UNCHANGED <<site, user, queue, inbox, resets, proved, superseded>>

Clear(r) ==
  /\ req[r].pc = "clear"
  /\ user' = [user EXCEPT ![req[r].account].pending = NoAddress]
  /\ Done(r)
  /\ UNCHANGED <<site, queue, inbox, resets, proved, superseded>>

-----------------------------------------------------------------------------
(* Password reset: Django mails a link to the account's address and loads  *)
(* the row when it is followed; the form's save marks it verified.         *)

OpenReset(r, a) ==
  /\ Exists(a) /\ resets[a] < site.resets
  /\ Start(r, "reset", a, user[a].email)
  /\ proved' = proved \cup {<<a, user[a].email>>}
  /\ UNCHANGED <<site, user, queue, inbox, resets, superseded>>

SetPassword(r) ==
  LET a == req[r].account
      row == req[r].row
  IN /\ req[r].pc = "reset" /\ resets[a] < site.resets
     /\ IF Unique(a, row.email)
          THEN /\ resets' = [resets EXCEPT ![a] = @ + 1]
               /\ user' = [user EXCEPT ![a] =
                    [row EXCEPT !.password = resets[a] + 1, !.verified = TRUE]]
          ELSE UNCHANGED <<user, resets>>
     /\ Done(r)
     /\ UNCHANGED <<site, queue, inbox, proved, superseded>>

-----------------------------------------------------------------------------
(* The mail.                                                               *)

ResendVerification(a) ==
  /\ Exists(a) /\ ~user[a].verified
  /\ Enqueue("verification", a)
  /\ UNCHANGED <<site, user, req, inbox, resets, proved, superseded>>

ResendChange(a) ==
  /\ user[a].pending # NoAddress
  /\ Enqueue("confirmation", a)
  /\ UNCHANGED <<site, user, req, inbox, resets, proved, superseded>>

LinkFor(kind, a) ==
  [kind |-> kind, account |-> a, address |-> Expected(kind, user[a]),
   password |-> user[a].password]

\* Mutant: the task does not look whether the change is still pending.
KindsUnchecked(task, row) ==
  CASE task = "verification" -> IF row.verified THEN {} ELSE {"verify"}
    [] task = "confirmation" -> {"confirm"}
    [] task = "change" -> {"confirm", "revoke"}

\* The links a task mails for the row as it is when the task runs.
Kinds(task, row) ==
  CASE task = "verification" -> IF row.verified THEN {} ELSE {"verify"}
    [] task # "verification" /\ row.pending = NoAddress -> {}
    [] task = "confirmation" /\ row.pending # NoAddress -> {"confirm"}
    [] task = "change" /\ row.pending # NoAddress -> {"confirm", "revoke"}

\* The advisory with the revocation link goes last.  A task that fails, or that
\* does not hear that its mail was accepted, starts again or is given up.
Deliver(task, a) ==
  \E sent \in SUBSET Kinds(task, user[a]) :
    /\ <<task, a>> \in queue
    /\ "revoke" \in sent => "confirm" \in sent
    /\ inbox' = inbox \cup {LinkFor(k, a) : k \in sent}
    /\ Cardinality(inbox') <= site.links
    /\ queue' \in {queue, queue \ {<<task, a>>}}
    /\ UNCHANGED <<site, user, req, resets, proved, superseded>>

\* The request dies before it has written.
Abort(r) ==
  /\ req[r].pc # "idle"
  /\ Done(r)
  /\ UNCHANGED <<site, user, queue, inbox, resets, proved, superseded>>

-----------------------------------------------------------------------------
Init ==
  /\ site \in Site
  /\ user = [a \in Account |-> NoRow]
  /\ req = [r \in Request |-> Idle]
  /\ queue = {}
  /\ inbox = {}
  /\ resets = [a \in Account |-> 0]
  /\ proved = {}
  /\ superseded = {}

Step(r) ==
  \/ Create(r) \/ CleanEmail(r) \/ SaveSettings(r) \/ Verify(r) \/ Promote(r) \/ Clear(r)
  \/ SetPassword(r)

Next ==
  \/ \E r \in Request : Step(r) \/ Abort(r)
  \/ \E r \in Request, a \in Account :
       \/ \E e \in Address : SignUp(r, a, e) \/ OpenSettings(r, a, e)
       \/ Cancel(r, a) \/ OpenReset(r, a)
  \/ \E r \in Request, l \in inbox : OpenLink(r, l)
  \/ \E a \in Account : ResendVerification(a) \/ ResendChange(a)
  \/ \E t \in Task : Deliver(t[1], t[2])

Spec == Init /\ [][Next]_vars
=============================================================================
