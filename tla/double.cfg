\* Two starts of one task.
CONSTANTS
  a = a
  b = b
  c = c
  g1 = g1
  g2 = g2
  Task = {a, b}
  Repo = {g1}
  RepoOf <- OneRepo
  ClaimRank <- Rank
  Run = {r1, r2}
  Human = {h1}
  Sched = sched
  NoTask = NoTask
  NoRun = NoRun
  Cap = 2
  MaxLive = 2
  Switch = {TRUE}
  Patient = FALSE
  HumanActions = 2
  Restarts = 0
SPECIFICATION Spec
INVARIANTS
  OneAgentPerTask
SYMMETRY Symmetry
VIEW Seen
