SPECIFICATION Spec
CONSTANTS
  p1 = p1
  p2 = p2
  b1 = b1
  b2 = b2
  ana = ana
  rev = rev
  adm = adm
  t1 = t1
  t2 = t2
  NoPackage = NoPackage
  NoBlob = NoBlob
  NoActor = NoActor
  Package = {p1, p2}
  Blob = {b1, b2}
  Actor = {adm}
  Thread = {t1, t2}
  GatePass = {b1, b2}
  GateBeforeReview = TRUE
  AllowSelfReview = FALSE
  MayFail = TRUE
  Roles <- MCRoles
  Uploads <- MCLifecycleUploads
SYMMETRY MCSymmetry
CONSTRAINT MCFailuresApart
INVARIANTS
  BlobsAreExactlyLive
  SupersedeLinksSound
PROPERTIES
  TrailConnected
  PublishedImmutable
  ImplementsStatusMachine
  PurgeSparesProtected
