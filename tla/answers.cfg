\* Every operation, every answer, boxes of every age.
CONSTANTS
  Ops = {"command", "since", "usb_devices", "dfu", "lock", "limits", "state", "sessions", "nets", "debug", "flash", "ranged", "admin", "file"}
SPECIFICATION AnswersSpec
INVARIANTS OkIsDone NewBoxIsNotBlamed OldBoxIsTold NeverMisled
CHECK_DEADLOCK FALSE
