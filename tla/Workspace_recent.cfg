SPECIFICATION WorkspaceSpec
CONSTANTS
  t = t
  n1 = n1
  n2 = n2
  s1 = s1
  s2 = s2
  g1 = g1
  e1 = e1
  e2 = e2
  Tasks <- OneTask
  Fleets = {"none"}
  LastPhase = 1
  MaxCheckpoints = 1
  Names <- TwoNames
  MaxMade = 4
  Sessions <- TwoSessions
  Gateways <- OneGateway
  Emitters <- TwoEmitters
  Window = 1
  RunningFresh = 0
  HeartbeatFresh = 0
  StatusFresh = 1
  MaxRead = 2
  MaxWall = 2
  MaxLines = 3
CONSTRAINT OneKind
SYMMETRY Interchangeable
INVARIANT MostRecentWins
CHECK_DEADLOCK FALSE
