\* No TTL sweep: an idle terminal fills the pool.
CONSTANTS
  a = a
  b = b
  c = c
  g1 = g1
  g2 = g2
  Task = {a, b}
  Repo = {g1}
  RepoOf <- OneRepo
  ClaimRank <- Rank
  Run = {r1, r2}
  Human = {h1}
  Sched = sched
  NoTask = NoTask
  NoRun = NoRun
  Cap = 1
  MaxLive = 1
  Switch = {TRUE}
  Patient = TRUE
  HumanActions = 0
  Restarts = 0
SPECIFICATION WedgeSpec
PROPERTIES
  QueueDrains
