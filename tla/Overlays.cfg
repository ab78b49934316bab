SPECIFICATION OverlaysSpec
CONSTANTS
  Nil = Nil
  Fields = {"price"}
  Layouts = {1, 2}
  Similarity <- Alike
  MaxOverlays = 3
  c1 = c1
  c2 = c2
  Callers <- TwoCallers
  Pages <- Site
  Givens <- Jobs
  MaxShifts = 1
  Targets = {"SHADOW", "ACTIVE"}
SYMMETRY CallersAlike
INVARIANTS
  OverlaysTypeOK
  ActiveWasApproved
  TwoActiveHaveACause
  MissHidesNothing
CHECK_DEADLOCK FALSE
