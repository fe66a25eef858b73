SPECIFICATION GatewaySpec
CONSTANTS
  b1 = b1
  b2 = b2
  t1 = t1
  t2 = t2
  a1 = a1
  s1 = s1
  h1 = h1
  h2 = h2
  Threads <- TwoThreads
  Observers <- Bridges
  Tickets <- OneTicket
  Retention = 2
  MaxEvents = 3
  MaxPending = 2
  TTL = 1
  MaxSeq = 3
  MaxNow = 1
  MaxEpochs = 2
  Activations <- TwoTickets
  Associations <- OneAssociation
  ActivationTTL = 1
  IdleTTL = 1
  Grace = 1
  Lag = 1
  MaxClock = 3
  Subscribers <- OneSubscriber
  IdleLimit = 1
  GraceLimit = 1
  CursorLimit = 2
  Delay = 1
  MaxIngested = 3
  MaxBeats = 2
  MaxTime = 3
CONSTRAINT ShortSecondStream
SYMMETRY Interchangeable
PROPERTY AssociationFollowsTable
CHECK_DEADLOCK FALSE
