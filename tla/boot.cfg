SPECIFICATION BootSpec
CONSTANTS
  Flag = {"-t"}
  Types = {"proc", "sysfs", "devtmpfs"}
  Targets = {"/proc", "/sys", "/dev"}
  Null = "null"
  CommandLines = {}
  MaxFd = 4
INVARIANT ShellDescriptors
INVARIANT ShellTerminal
INVARIANT BootsUnlessRefused
PROPERTY BootEnds
CHECK_DEADLOCK FALSE
