SPECIFICATION Spec
CONSTANTS
  Keys <- MCKeys
  LongerName <- MCLonger
  Workers = {w1}
  Members = {m1, m2, m3}
  Diverged = {m3}
  DivergedAt = 2
  MaxLog = 3
  NoHash = NoHash
  KeyTabs = {t1, t2}
  MaxKeys = 3
  PanelsOf <- MCPanels
  Submitted <- MCSubmitted
  Handlers = {h1, h2}
  NoFile = NoFile
  Corrupt = Corrupt
  NoLock = NoLock
  Bounds = {3, 4}
  Counts = {0, 2, 5, 10}
  MaxSeries = 2
  NotYet = NotYet
INVARIANTS TypeOK  OkMeansDone VerdictRight KeyOnDisk LoadShowsSave PercentilesRight
PROPERTY DeletesOnlyBelow
