SPECIFICATION ClockSpec
CONSTANTS
  Seconds <- MCSeconds
  UpdatesPerCall = 2
INVARIANTS ClockTypeOK ShownTimeWasReal
PROPERTIES EveryReadEnds
