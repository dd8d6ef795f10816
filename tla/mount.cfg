SPECIFICATION MountSpec
CONSTANTS
  Flag = {"-t", "-x"}
  Types = {"proc", "sysfs"}
  Targets = {"/proc", "/sys"}
  Null = "null"
  CommandLines <- Lines
INVARIANT StatusTells
CHECK_DEADLOCK FALSE
