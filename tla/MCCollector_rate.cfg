SPECIFICATION Spec
CONSTANTS
  Members = {"m1"}
  Clusters = {{"m1"}}
  Reactions = {"ok", "refused", "down"}
  Fails = {"MemberList", "Status", "Leases"}
  Local = "m1"
  Fallback = "default"
  MaxCount = 2
  MaxGap = 2
  MaxRestarts = 0
  None = None
PROPERTY RateIsGrowth
