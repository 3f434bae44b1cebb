SPECIFICATION PagesSpec
CONSTANTS
  NoJob = NoJob
  Limit = 2
  MaxSkips = 2
  Edits <- MCEdits
  Tours <- MCTours
INVARIANT StopsWhenLeft
INVARIANT ShownIsHeld
INVARIANT NotchPlanAccepted
INVARIANT PollerResumes
PROPERTY StartStillWanted
 
CHECK_DEADLOCK FALSE
