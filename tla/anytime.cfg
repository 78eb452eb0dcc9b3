\* Two repositories, one worker slot, a human who acts at any time.
CONSTANTS
  a = a
  b = b
  c = c
  g1 = g1
  g2 = g2
  Task = {a, b, c}
  Repo = {g1, g2}
  RepoOf <- TwoRepos
  ClaimRank <- Rank
  Run = {r1, r2}
  Human = {h1}
  Sched = sched
  NoTask = NoTask
  NoRun = NoRun
  Cap = 1
  MaxLive = 2
  Switch = {TRUE}
  Patient = FALSE
  HumanActions = 1
  Restarts = 0
SPECIFICATION QueuedSpec
INVARIANTS
  AutoWithinCap
PROPERTIES
  ClaimsInOrder
SYMMETRY Symmetry
VIEW Seen
