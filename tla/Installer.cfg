SPECIFICATION Spec
CONSTANTS
  old = old
  new = new
  Versions = {old, new}
  Vmids = {1, 2, 3}
  MaxRuns = 2
  None = None
  Abort = Abort
  OtherCt = OtherCt
  OtherVm = OtherVm
SYMMETRY Symmetry
INVARIANTS SummaryLogsIn CanRecover
PROPERTIES ForeignOnlyAsPlanned DestroysWhatWasShown YesNeverParallel
CHECK_DEADLOCK FALSE
