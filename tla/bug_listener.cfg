SPECIFICATION Spec
CONSTANTS
  n1 = n1
  n2 = n2
  Node <- MCNode
  Backlog = {0, 1, 2}
  MaxSessions = 4
INVARIANT ActiveConnectionsAreOpen
