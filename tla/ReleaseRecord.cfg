SPECIFICATION MCSpec
CONSTANTS
  m1 = m1
  m2 = m2
  m3 = m3
  x = x
  y = y
  c1 = c1
  c2 = c2
  Creators = {c1, c2}
  Paths <- mcPaths
  Contents = {x, y}
  Manifests <- mcManifests
  Digest <- mcDigest
  Omitted <- mcOmitted
  Required <- mcRequired
  Complete = {m1, m2}
  MaxEdits = 1
  MaxFaults = 2
  a1 = a1
  a2 = a2
  Attesters = {a1, a2}
  Attestable <- mcManifests
  Audited = {a1}
  s1 = s1
  k1 = k1
  k2 = k2
  Signers = {s1}
  Packagers = {k1, k2}
INVARIANTS
  UploadedOnce
  BindingHasBundle
  OutcomeHonest
  PackageVerifies
PROPERTIES
  PublishedOnce
CHECK_DEADLOCK FALSE
