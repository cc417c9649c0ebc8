\* Two requests against the starts of two API processes.
SPECIFICATION ReleasesSpec
CONSTANTS
  auto = auto
  c1 = c1
  c2 = c2
  Automations = {auto}
  Processes = {p1, p2}
  Manifests <- SomeManifests
  Checkouts <- SomeCheckouts
  Null = Null
  Ids = {r1, r2}
  Versions = {v}
  Environments = {"demo", "production"}
  Proposers = {alice, bob}
  Approvers = {alice}
  Requests = {q1, q2}
SYMMETRY Symmetry
INVARIANTS
  HistoryMatchesRelease
  ReleasedArtifactWasObserved
  SelfApprovalWasAllowed
\* Every start failed before anything was registered: there is nothing to release.
CHECK_DEADLOCK FALSE
