\* Both modes, three files in three directories, set_pid, a restore, a kill and
\* a second life.  A stopped program that is not started again ends the system.
CONSTANTS
  home = home
  other = other
  nested = nested
  a = a
  b = b
  c = c
  f = f
  g = g
  Top <- BothTop
  Sub <- OneSub
  Parent <- SubOfD
  Paths <- AllPaths
  Dir <- AllDir
  Rel <- AllRel
  Present <- AllStart
  Home = home
  Modes <- BothModes
  Commands <- SomeCommands
  Stops <- AllStops
  MaxEdits = 2
  MaxSamples = 2
  MaxIncidents = 1
SPECIFICATION FairSpec
CHECK_DEADLOCK FALSE
INVARIANTS TypeOK DiffsFit NothingForgotten KnownIsSaved
PROPERTIES KeepsVersions ChangesRecorded
