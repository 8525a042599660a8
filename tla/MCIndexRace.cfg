SPECIFICATION IndexSpec
CONSTANTS
  p1 = p1
  p2 = p2
  clean = clean
  secret = secret
  adm = adm
  t1 = t1
  t2 = t2
  NoPackage = NoPackage
  NoBlob = NoBlob
  NoActor = NoActor
  Blob = {clean, secret}
  SecretBlob = {secret}
  Actor = {adm}
  Package = {p1}
  Thread = {t1, t2}
  MayRestart = FALSE
  MayFail = FALSE
  Uploads <- MCOneUpload
INVARIANTS
  OnlyApprovedIndexed
