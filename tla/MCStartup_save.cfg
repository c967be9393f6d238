SPECIFICATION Spec
CONSTANTS
  Home = TRUE
  HomePath = "home"
  CwdPath = "cwd"
  Paths = {"home", "cwd", "other"}
  Text <- McString
  CommandLines <- McCommandLines
  FirstFiles <- McFiles
  Typed <- McTyped
  Rest <- McRest
  Cidr <- McCidr
  Dotted <- McDotted
  Networks <- McNetworks
  MaxStarts = 2
INVARIANTS SavesDiscovered
CHECK_DEADLOCK FALSE
