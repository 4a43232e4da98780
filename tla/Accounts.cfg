SPECIFICATION AccountsSpec
CONSTANTS
  Conns = {c1, c2}
  Users = {u1, u2}
  Rights = {r1}
  Plans <- MCPlans
  MaxIds = 3
  MaxRows = 2
  NoAccount = NoAccount
  NoSession = NoSession
  Nobody = Nobody
SYMMETRY MCSymmetry
INVARIANTS
  MemoryMatchesRows
  OneFounder
  GrantsOwned
PROPERTY
  EntitledOnly
