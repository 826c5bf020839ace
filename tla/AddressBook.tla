---------------------------- MODULE AddressBook ----------------------------
(***************************************************************************)
(* What accounts promise about addresses, one atomic step per change: an   *)
(* address is reserved while it is pending, becomes the account's only     *)
(* when its owner has answered there, and is verified only if so.          *)
(***************************************************************************)
CONSTANTS Account, NoAddress

VARIABLES email, pending, verified, proved

book == <<email, pending, verified, proved>>

Free(a, e) == \A b \in Account \ {a} : e \notin {email[b], pending[b]}

Init ==
  /\ email = [a \in Account |-> NoAddress] /\ pending = email
  /\ verified = [a \in Account |-> FALSE]
  /\ proved = {}

Register(a) ==
  /\ email[a] = NoAddress
  /\ email' = [email EXCEPT ![a] = email'[a]]
  /\ Free(a, email'[a])
  /\ UNCHANGED <<pending, verified, proved>>

Ask(a) ==
  /\ email[a] # NoAddress
  /\ pending' = [pending EXCEPT ![a] = pending'[a]]
  /\ pending'[a] = NoAddress \/ Free(a, pending'[a])
  /\ UNCHANGED <<email, verified, proved>>

\* The owner of the account's present or pending address follows a link there.
Answer(a) ==
  /\ \E e \in {email[a], pending[a]} : e # NoAddress /\ proved' = proved \cup {<<a, e>>}
  /\ UNCHANGED <<email, pending, verified>>

Verify(a) ==
  /\ <<a, email[a]>> \in proved
  /\ verified' = [verified EXCEPT ![a] = TRUE]
  /\ UNCHANGED <<email, pending, proved>>

Promote(a) ==
  /\ pending[a] # NoAddress /\ <<a, pending[a]>> \in proved
  /\ email' = [email EXCEPT ![a] = pending[a]]
  /\ pending' = [pending EXCEPT ![a] = NoAddress]
  /\ verified' = [verified EXCEPT ![a] = TRUE]
  /\ UNCHANGED proved

Next == \E a \in Account : Register(a) \/ Ask(a) \/ Answer(a) \/ Verify(a) \/ Promote(a)

Spec == Init /\ [][Next]_book
=============================================================================
