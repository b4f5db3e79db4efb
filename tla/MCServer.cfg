CONSTANTS
  Accounts = {x, y}
  Rosters <- MCRosters
  Payloads <- MCPayloads
  Saves = {r1, r2}
  Lifespan = Lifespan
  Links <- MCLinks
  Nobody = Nobody
  CloudAccounts = {u, v}
  Scans = {q1, q2}
  NoAccount = NoAccount

SPECIFICATION ServerSpec

SYMMETRY MCSymmetry

INVARIANTS
  RosterHasItsAccount
  SessionsAgree
  LiveIsSaved

PROPERTY HeldUntilSaved

CHECK_DEADLOCK FALSE
