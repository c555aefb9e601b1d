SPECIFICATION NavigationSpec
CONSTANTS
  home = home
  sub = sub
  DiskFiles <- MCFiles
  Hidden = {4}
  Bad = {3}
  Dirs = {home, sub}
  Home = home
  Parent <- MCParent
  None = None
  MaxDirs = 4
INVARIANTS BrowsingIsSafe BackAndForth
PROPERTY StepsToNeighbour
CHECK_DEADLOCK FALSE
