\* Positions and hold times around the thresholds of the number and time formats.
CONSTANTS
  Services <- SomeServices
  Starts <- SomeStarts
  Span = 260
SPECIFICATION Spec
INVARIANTS SaidAsMeant TimeRounded LimitsTrue
PROPERTIES LongerIsNotShorter
\* The numbers asked for are bounded.
CHECK_DEADLOCK FALSE
