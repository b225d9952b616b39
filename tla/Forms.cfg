SPECIFICATION Spec
CONSTANTS
  Alike = {a, b}
  Others = {}
  TooLong = {2}
  GivenNames = {"r"}
  Few = 1
  More = 2
  none = none
  Parts = {"composer", "path", "grants", "companions", "links", "access", "again", "session", "tabs", "settings", "left", "regions", "outlive", "watch", "live", "node", "peers", "mqtt", "view", "sensor", "wizard"}
INVARIANTS TypeOK WrittenIsKept ShowsOwn AgreesAtRest StoredIsSound SaysWhatIsSo NothingHangs
PROPERTIES StoredKept EditsKept
SYMMETRY Symmetry
CHECK_DEADLOCK FALSE
