SPECIFICATION Spec
CONSTANTS
  OpIds = {o1, o2}
  Presets = {"daily_summary", "custom"}
  Times = {t1, t2}
  Zones = {z1,z2}
  Customs <- OneCustom
  None = None
  Lifetime = 2
  MaxTime = 2
  MaxTokens = 2
  MaxVersion = 1
  MaxDevices = 2
INVARIANTS TypeOK ActiveGrantIsBacked PresetIsWhatRuns
PROPERTIES ResumeStartsAnew NothingUnseenReplaced CutoffMovesToNow
SYMMETRY Symmetry
