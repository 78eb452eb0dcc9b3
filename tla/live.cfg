\* What the parts must eventually do.
CONSTANTS
  Active = {"waits", "pause", "verify", "slots", "approvals", "jobs", "dispatches"}
  p = p
  k = k
  q = q
  Task = {p, k}
  NoTask = NoTask
  Parent <- OnePiece
  Cap = 1
  MaxDepends = 1
  Handled = {}
  a = a
  b = b
  PauseTask = {a, b}
  PauseCap = 1
  Asked = {}
  Hurried = FALSE
  Forced = TRUE
  c1 = c1
  c2 = c2
  Content = {c1}
  NoChange = NoChange
  Nothing = Nothing
  Detours = {"pause"}
  w1 = w1
  w2 = w2
  l1 = l1
  l2 = l2
  x1 = x1
  x2 = x2
  Slots = {1, 2}
  r1 = r1
  r2 = r2
  d0 = d0
  d1 = d1
  d2 = d2
  e1 = e1
  Row = {r1}
  Commit = {d0, d1, d2, e1}
  Surface = {"spa", "telegram"}
  Polled = {r1}
  j1 = j1
  j2 = j2
  MaxRuns = 0
  Ahead = 1
  p1 = p1
  p2 = p2
  Patch = {}
  NewFile = {}
  Foreign = {}
  Tries = 1
  MaxCuts = 0
  LandDetours = {}
  s1 = s1
  s2 = s2
  m1 = m1
  m2 = m2
  Msg = {m1}
  MaxMoves = 1
SPECIFICATION PartsSpec
INVARIANTS
  RoundAlive
  NoSlotIdle
  PollsAnswered
  LeaseOfLiveRun
PROPERTIES
  WaitsEnd
  OwedGiven
  VerifySettles
  GrantsInOrder
  CheckGetsSlot
  ApprovalEnds
  OncePerSlot
  DueJobsRun
  RequestsSettle
