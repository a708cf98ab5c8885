CONSTANTS
  Cpus = {c1, c2}
  NoOne = NoOne
  Entries = {"cpu_init", "devman_register_driver"}
  SerialAvailable = TRUE
  HeapBroken = TRUE
SPECIFICATION Spec
PROPERTY
  PanicHalts
\* Nobody goes on when the heap stays locked.
CHECK_DEADLOCK FALSE
