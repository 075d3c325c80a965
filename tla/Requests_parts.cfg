SPECIFICATION Spec
CONSTANTS
  ordinary = ordinary
  secret = secret
  unmarked = unmarked
  given = given
  None = None
  Genesis = Genesis
  t1 = t1
  t2 = t2
  t3 = t3
  Creators <- ThreeCreators
  CanFault = TRUE
  CanCrash = TRUE
  c1 = c1
  c2 = c2
  c3 = c3
  s1 = s1
  s2 = s2
  PerceptionEnabled = TRUE
  PerceptionRetries = 1
  MaxAdded = 1
  Controls <- AllControls
  DefaultControls = ordinary
  Unclassified <- NoMarking
  OwnIds <- OneId
  Absent = Absent
  Requests <- SampleRequests
  Estimates <- SampleEstimates
  ModelEnabled = TRUE
  MaxRetries = 1
  Reports <- SampleReports
  Bundles <- SampleBundles
  Settings <- SampleSettings
  Candidates <- ThreeCandidates
  Pools <- SamplePools
  RoleSlots <- TwoSlots
  Costs <- SampleCosts
  Disqualified = Disqualified
  here = here
  elsewhere = elsewhere
  Soldiers <- TwoSoldiers
  Slots <- TwoSlots
  Missions <- TwoMissions
  Here = here
  DefaultSlots <- OneDefault
  Lowest = 0
  Highest = 100
  Profiles <- SampleProfiles
  Projections <- SampleProjections
  IdLists <- SampleIdLists
  Stores <- SampleStores
  Asks <- SampleAsks
  CandidateCounts <- SampleCounts
  MaxLoads = 2
  Unusable = Unusable
  Invalid = Invalid
  NoRow = NoRow
  NotGiven = NotGiven
  Batches <- SampleBatches
  NoChunk = NoChunk
CHECK_DEADLOCK FALSE
INVARIANTS
  MarkingsDecide
  ObservationsAreFit
  PassIsEarned
  LinksAreEarlier
  OrderlyChainIsLinear
  RosterIsBest
  DeployIsEarned
  RelianceIsEarned
  AnswerIsTraced
  EventsAreBacked
  FailuresArePrefixes
PROPERTIES
  NoVerdictSoftens
