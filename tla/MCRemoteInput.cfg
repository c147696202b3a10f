SPECIFICATION InputSpec
CONSTANTS
  Key = {"shift left", "arrow left", "caps lock"}
  Special = {"shift left", "arrow left", "caps lock"}
  Managed = {"arrow left"}
  Modifier = {"shift left", "caps lock"}
  Generic = {"shift"}
  CapsLock = "caps lock"
  None = None
  Button = {"left", "right"}
  Left = "left"
  Sessions = {{"pause"}, {"right"}, {"focus", "reboot", "policy", "end", "loss"}}
  MaxGestures = 4
  MaxLosses = 1
  LinkCap = 2
INVARIANTS InputTypeOK InStep RepeatsAreHeld ButtonWatched
CHECK_DEADLOCK FALSE
