\* Safety of the parts around the scheduler, side by side.
CONSTANTS
  Active = {"waits", "pause", "verify", "approvals", "jobs", "worktrees",
            "dispatches"}
  p = p
  k = k
  q = q
  Task = {p, k, q}
  NoTask = NoTask
  Parent <- OnePiece
  Cap = 1
  MaxDepends = 1
  Handled = {q}
  a = a
  b = b
  PauseTask = {a, b}
  PauseCap = 2
  Asked = {"message"}
  Hurried = FALSE
  Forced = FALSE
  c1 = c1
  c2 = c2
  Content = {c1, c2}
  NoChange = NoChange
  Nothing = Nothing
  Detours = {"red"}
  w1 = w1
  w2 = w2
  l1 = l1
  l2 = l2
  x1 = x1
  x2 = x2
  Slots = {1, 2}
  r1 = r1
  r2 = r2
  d0 = d0
  d1 = d1
  d2 = d2
  e1 = e1
  Row = {r1, r2}
  Commit = {d0, d1, d2}
  Surface = {"spa"}
  Polled = {r1}
  j1 = j1
  j2 = j2
  MaxRuns = 1
  Ahead = 1
  p1 = p1
  p2 = p2
  Patch = {p1, p2}
  NewFile = {p2}
  Foreign = {o1}
  Tries = 2
  MaxCuts = 1
  LandDetours = {}
  s1 = s1
  s2 = s2
  m1 = m1
  m2 = m2
  Msg = {m1, m2}
  MaxMoves = 2
SPECIFICATION PartsSpec
INVARIANTS
  PartsTyped
  NoWaitCycle
  ParentLands
  TurnKept
  RoundKept
  PollsHear
  RunningIsLive
  WorkKept
PROPERTIES
  WaitKept
  ResumesWithinCap
  CutWorkUndisturbed
  LandsReviewed
  LandsChecked
  PushedAsApproved
  LandsJudged
  PublishedIsLanded
  HandedOver
