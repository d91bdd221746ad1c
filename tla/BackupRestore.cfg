\* Two files, one restore, nothing fails and nobody stops the daemon.
CONSTANTS
  home = home
  other = other
  nested = nested
  a = a
  b = b
  c = c
  f = f
  g = g
  Top <- OneTop
  Sub <- NoSub
  Parent <- NoParent
  Paths <- TwoPaths
  Dir <- TwoDir
  Rel <- TwoRel
  Present <- TwoStart
  Home = home
  Modes <- Daemon
  Commands <- Restore
  Stops <- NoStops
  MaxEdits = 2
  MaxSamples = 2
  MaxIncidents = 1
SPECIFICATION Spec
CHECK_DEADLOCK FALSE
INVARIANT RestoreIsVersion
