SPECIFICATION FilesSpec
CONSTANTS
  p1 = p1
  p2 = p2
  b1 = b1
  b2 = b2
  api = api
  agent = agent
  NoPackage = NoPackage
  NoBlob = NoBlob
  Package = {p1, p2}
  Blob = {b1, b2}
  Api = api
  Uploads <- MCUploads
  Process = {api, agent}
  MayBreak = TRUE
INVARIANTS
  BytesSurviveAlone
  NoStrayFiles
PROPERTIES
  CommittedContentStays
