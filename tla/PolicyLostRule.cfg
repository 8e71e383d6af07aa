SPECIFICATION Spec
CONSTANTS
  Dirs = {d1, d2}
  Changes = {c1, c2}
  Reloaders = {r1}
  Owner = Owner
  Nobody = Nobody
  MaxPending = 1
  MaxAttempts = 1
  MaxEdits = 1
SYMMETRY PolicySymmetry
INVARIANTS
  SavedRuleSurvives
