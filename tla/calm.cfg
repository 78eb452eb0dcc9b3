\* Nobody acts on a task between two states of its turn; the server restarts at any await.
CONSTANTS
  a = a
  b = b
  c = c
  g1 = g1
  g2 = g2
  Task = {a, b}
  Repo = {g1}
  RepoOf <- OneRepo
  ClaimRank <- Rank
  Run = {r1, r2}
  Human = {h1}
  Sched = sched
  NoTask = NoTask
  NoRun = NoRun
  Cap = 2
  MaxLive = 2
  Switch = {TRUE, FALSE}
  Patient = TRUE
  HumanActions = 2
  Restarts = 2
SPECIFICATION Spec
INVARIANTS
  TypeOK
  Driven
  NoStrayAgent
  OneAgentPerTask
  OneAutoAgentPerRepo
PROPERTIES
  StartNotUndone
  TurnsImplemented
CONSTRAINT Total
SYMMETRY Symmetry
VIEW Seen
