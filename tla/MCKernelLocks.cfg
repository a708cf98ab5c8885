CONSTANTS
  Cpus = {c1, c2}
  NoOne = NoOne
  Entries = {"cpu_init", "fault_handler", "cpu_get_random_cpu", "vt_redraw", "drm_switch", "panic_handle", "devman_register_driver", "devman_handle_pcie_device"}
  SerialAvailable = TRUE
  HeapBroken = FALSE
SPECIFICATION Spec
INVARIANTS
  LocksMatch
  NoWaitCycle
PROPERTIES
  LineInOwnColour
  PanicHalts
  CallReturns
\* A CPU that panicked does nothing any more.
CHECK_DEADLOCK FALSE
