SPECIFICATION RegistrySpecification
CONSTANTS
  c1 = c1
  c2 = c2
  x = x
  y = y
  t1 = t1
  t2 = t2
  Code = {c1, c2}
  Text = {x, y}
  NoContent = NoContent
  SeedContent <- MCSeed
  SeedsFiles = FALSE
  Thread = {t1, t2}
  MaxVersion = 4
  MayBreak = FALSE
PROPERTIES
  SeedingIsIdempotent
