\* A rolling update, an edited migration, and three starts of the API.
SPECIFICATION StartupSpec
CONSTANTS
  a1 = a1
  a2 = a2
  c1 = c1
  c2 = c2
  r1 = r1
  r2 = r2
  edited = edited
  m1 = m1
  m2 = m2
  m3 = m3
  m4 = m4
  f1 = f1
  f2 = f2
  Automations = {a1, a2}
  Processes = {p1, p2, p3}
  Runners = {m1, m2, m3, m4}
  Releases = {r1, r2, edited}
  ReleaseOf <- MCReleaseOf
  Files <- MCFiles
  Checksum <- MCChecksum
  CatalogOf <- MCCatalogOf
  Manifests <- SomeManifests
  Checkouts <- SomeCheckouts
  Null = Null
SYMMETRY Symmetry
INVARIANTS
  ScriptsTakeEffectOnce
  RunnersDoNotCollide
  ApiRunsOnItsSchema
  AuditTracksCatalog
  ChangesFollowOn
\* Every job and every start ends.
CHECK_DEADLOCK FALSE
