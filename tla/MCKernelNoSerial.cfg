CONSTANTS
  Cpus = {c1}
  NoOne = NoOne
  Entries = {"fault_handler", "drm_switch"}
  SerialAvailable = FALSE
  HeapBroken = FALSE
SPECIFICATION Spec
PROPERTY
  PanicHalts
\* Nobody goes on when the serial port stays locked.
CHECK_DEADLOCK FALSE
