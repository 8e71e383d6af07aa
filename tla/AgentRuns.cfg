SPECIFICATION Spec
CONSTANTS
  Callers = {c1, c2}
  Runs = {r1, r2}
  Nobody = nobody
  Slots = 2
  MaxCalls = 3
SYMMETRY Symmetry
INVARIANTS
  OneWantedRun
  DrainedAtEnd
  CompletionIsSeen
  NothingSurvives
PROPERTIES
  FinalIsFinal
