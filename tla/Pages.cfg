SPECIFICATION Spec
CONSTANTS
  Alike = {a, b}
  Few = 1
  More = 2
  none = none
  Parts = {"thread", "gap", "overlap", "badges", "reloads", "dialogs", "traces", "signal", "saved", "bots", "preview", "published", "terminal", "sheet", "packets", "filter", "web", "folds", "radio"}
INVARIANTS TypeOK ChatAgrees ShowsOwn StoredAgrees 
SYMMETRY Symmetry
CHECK_DEADLOCK FALSE
