\* A ring at its capacity, accounts that come back, and a version that runs out.
CONSTANTS
  Users = {u1, u2}
  Accounts = {a1, a2, a3}
  Messages = {m1, m2}
  limit = 2
  max_members = 2
  MaxVersion = 7
  MaxSigned = 3
  Unset = Unset
SPECIFICATION ClearSpec
SYMMETRY Symmetry
INVARIANTS
  VerifiesWithItsRing
  RevokedForGood
