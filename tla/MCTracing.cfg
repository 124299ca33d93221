CONSTANTS
  P = 13
  Q = 11
  Width = 2
  Capacity = 2
  WrongCapacity = 3
  u1 = u1
  u2 = u2
  a1 = a1
  a2 = a2
  b1 = b1
  m1 = m1
  m2 = m2
  Users = {u1, u2}
  Accounts = {a1, a2, b1}
  UserOf <- MCUserOf
  X <- MCX
  D <- MCD
  MemberHash <- MCMemberHash
  ChallengeHash <- MCChallengeHash
  Participants = {q1, q2}
  maxQSDHContributions = 3
  maxQSDHTranscriptBytes = 1500
  Beacon = beacon
  NoBeacon = nobeacon
  Issues = {i1}
  Messages = {m1, m2}
  Quotas = {1, 2}
  SeedChoices <- MCSeedChoices
  MaxUpdates = 3
  MaxSigned = 2
SPECIFICATION Spec
SYMMETRY Symmetry
INVARIANTS
  EveryFactorCounts
  StatementsProve
  WitnessIsCurrent
  TraceTellsTruth
  AtMostQuotaSerials
