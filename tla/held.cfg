\* A hold taken while a pass is under way in another repository.
CONSTANTS
  a = a
  b = b
  c = c
  g1 = g1
  g2 = g2
  Task = {a, b, c}
  Repo = {g1, g2}
  RepoOf <- TwoRepos
  ClaimRank <- Rank
  Run = {r1, r2}
  Human = {h1}
  Sched = sched
  NoTask = NoTask
  NoRun = NoRun
  Cap = 2
  MaxLive = 2
  Switch = {FALSE}
  Patient = TRUE
  HumanActions = 1
  Restarts = 0
SPECIFICATION Spec
PROPERTIES
  HeldRepoWaits
SYMMETRY Symmetry
VIEW Seen
