SPECIFICATION RegistrySpecification
CONSTANTS
  c1 = c1
  c2 = c2
  x = x
  y = y
  t1 = t1
  t2 = t2
  Code = {c1, c2}
  Text = {x, y}
  NoContent = NoContent
  SeedContent <- MCSeed
  SeedsFiles = TRUE
  Thread = {t1, t2}
  MaxVersion = 5
  MayBreak = TRUE
INVARIANTS
  OneReleaserAtATime
  ChangelogTruthful
PROPERTIES
  VersionsImmutable
  ReleasesAreAtomic
  ApplyEnds
CHECK_DEADLOCK FALSE
