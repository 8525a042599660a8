SPECIFICATION Spec
CONSTANTS
  adm = adm
  u1 = u1
  u2 = u2
  k1 = k1
  k2 = k2
  a1 = a1
  a2 = a2
  cli = cli
  g1 = g1
  NoUser = NoUser
  NoToken = NoToken
  NoTelegram = NoTelegram
  NoThread = NoThread
  User = {adm, u1, u2}
  Token = {k1, k2}
  Telegram = {g1}
  Api = {a1, a2}
  Cli = {cli}
  Founders = {adm}
SYMMETRY MCSymmetry
CONSTRAINT MCNoMishap
INVARIANTS
  AnAdminRemains
  DisabledHoldsNothing
  NoUnreachableAccount
  RevokedIsRefused
