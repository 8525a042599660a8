SPECIFICATION Spec
CONSTANTS
  p1 = p1
  p2 = p2
  b1 = b1
  b2 = b2
  ana = ana
  rev = rev
  adm = adm
  t1 = t1
  t2 = t2
  NoPackage = NoPackage
  NoBlob = NoBlob
  NoActor = NoActor
  Package = {p1}
  Blob = {b1, b2}
  Actor = {ana, rev, adm}
  Thread = {t1, t2}
  GatePass = {b1}
  GateBeforeReview = TRUE
  AllowSelfReview = FALSE
  MayFail = TRUE
  Roles <- MCRoles
  Uploads <- MCReviewUploads
INVARIANTS
  TypeOK
  HistoryAuthorised
  IndependentReview
  ReviewedContentPassedGate
PROPERTIES
  ImplementsStore
