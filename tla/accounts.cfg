SPECIFICATION Spec
CONSTANTS
  a1 = a1
  a2 = a2
  Account = {a1, a2}
  Address = {e1, e2, e3}
  NoAccount = NoAccount
  NoAddress = NoAddress
  Request = {r1, r2}
  Site <- MCSite
CHECK_DEADLOCK FALSE
SYMMETRY MCSymmetry
INVARIANTS TypeOK VerifiedIsProved PendingIsReserved
PROPERTY ImplementsAddressBook
