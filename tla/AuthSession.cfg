SPECIFICATION FairSpec
CONSTANTS
  c1 = c1
  c2 = c2
  u1 = u1
  u2 = u2
  Callers <- TwoCallers
  Users <- TwoUsers
  Nobody = Nobody
  NoSession = NoSession
  MaxTokens = 3
  MaxServers = 1
CHECK_DEADLOCK FALSE
INVARIANTS TypeOK IdentityMatchesToken
PROPERTIES SessionMovesWithUser ExpiringIsSettled
