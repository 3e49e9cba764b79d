SPECIFICATION FeedSpec
CONSTANTS
  u1 = u1
  u2 = u2
  Clients <- TwoClients
  Opens <- OneReconnects
  MaxEvents = 2
INVARIANTS InOrderOnce NobodyLeftOut
PROPERTIES ViewsConverge
CHECK_DEADLOCK FALSE
