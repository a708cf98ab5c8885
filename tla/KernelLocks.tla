---------------------------- MODULE KernelLocks -----------------------------
(***************************************************************************)
(* The spin locks of the kernel and the functions that nest them: the log  *)
(* over the heap, the serial port and the terminal, the terminal over the  *)
(* framebuffer, the CPU list and the device manager over all of these, and *)
(* the panic path, which uses the log again.                               *)
(*                                                                         *)
(* A CPU is given by what it has still to do: a sequence of steps, each    *)
(* the taking or dropping of a lock, a print or a call.  A call is         *)
(* replaced by the steps of one of the paths through the function.  What   *)
(* the functions compute is left out; a loop whose passes take the same    *)
(* locks stands as one or two passes.  The machine is past vt_init, with   *)
(* DRM_WRITETHROUGH defined and the single drm of MAX_DRMS.                *)
(***************************************************************************)
EXTENDS Naturals, Sequences

CONSTANTS Cpus,            \* the CPUs that run kernel code
          NoOne,           \* the owner of a lock that is not taken
          Entries,         \* the functions a CPU may begin with
          SerialAvailable, \* what serial_early_init found at COM1
          HeapBroken       \* may a canary of the heap be wrong?

Locks == {"driver", "storage", "panic", "cpu_list", "log", "heap", "serial",
          "vt", "drm", "drm_sys"}

Take(l) == [op |-> "take", arg |-> l]
Drop(l) == [op |-> "drop", arg |-> l]
Put(what) == [op |-> "print", arg |-> what]
Call(f) == [op |-> "call", arg |-> f]
Halt == [op |-> "halt", arg |-> "hcf"]

Under(l, body) == <<Take(l)>> \o body \o <<Drop(l)>>

-----------------------------------------------------------------------------
(***************************************************************************)
(* The functions: each the set of its paths.                               *)
(***************************************************************************)

\* Mutant: the lock is kept, as it is when there is no port.
SerialWritesKeeps == {<<Take("serial")>>}

\* Without a port serial_writes returns with the lock taken.
SerialWrites == IF SerialAvailable THEN {Under("serial", <<>>)}
                                   ELSE {<<Take("serial")>>}

\* A pass over the list, or two with an expansion between them (Heap shows
\* that the passes end, unless the pages do); or the panic of a wrong canary,
\* with the lock taken.
Kmalloc == {Under("heap", <<>>), Under("heap", <<>>) \o Under("heap", <<>>)}
             \cup IF HeapBroken THEN {<<Take("heap"), Call("kernel_panic_error")>>} ELSE {}

\* Mutant: freeing logs, with the heap locked.
KfreeLogs == {Under("heap", <<Call("log")>>)}

Kfree == {Under("heap", <<>>)}

Krealloc == {<<>>, <<Call("kmalloc"), Call("kfree")>>}

Kvfprintf == {<<Call("kmalloc"), Call("krealloc")>>}

\* Of a pixel inside the drm.
DrmPlot == {Under("drm", Under("drm_sys", <<>>))}

DrmSync == {Under("drm_sys", <<>>)}

DrmClear == {Under("drm_sys", <<>>) \o <<Call("drm_sync")>>}

DrmSwitch == {Under("drm_sys", <<>>)}

\* All cells, the dirty ones, or none are drawn.
VtFlush == {<<Call("drm_clear"), Call("drm_plot"), Call("drm_sync")>>,
            <<Call("drm_plot"), Call("drm_sync")>>,
            <<Call("drm_sync")>>}

VtRedraw == {<<Call("vt_flush")>>}

\* kprintc flushes at each line feed, and kprint flushes once more at the end.
Kprint(what) == Under("vt", IF what = "colour" THEN <<Put(what)>>
                                               ELSE <<Put(what), Call("vt_flush")>>)
                  \o <<Call("vt_flush")>>

KprintColour == {Kprint("colour")}  \* the colour in front of a line of the log
KprintLine == {Kprint("line")}      \* the line, which ends with TC_RESET
KprintPlain == {Kprint("plain")}    \* anything else

Kvprintf == {<<Call("kvfprintf"), Call("kprint_plain"), Call("kfree")>>}

\* Mutant: the log is not locked while the terminal is written.
LogUnlocked == {Under("log", <<Call("serial_writes")>>)
                  \o <<Call("kprint_colour"), Call("kprint_line")>>}

\* The log level decides whether a line goes to the port and to the terminal.
Log == {Under("log", <<Call("serial_writes"), Call("kprint_colour"), Call("kprint_line")>>),
        Under("log", <<Call("serial_writes")>>),
        Under("log", <<>>)}

Logf == {Under("log", <<Call("kvfprintf"), Call("serial_writes"), Call("kprint_colour"),
                        Call("kprint_line"), Call("kfree")>>),
         Under("log", <<Call("kvfprintf"), Call("serial_writes"), Call("kfree")>>),
         Under("log", <<Call("kvfprintf"), Call("kfree")>>)}

StackTrace == {<<Call("logf"), Call("log")>>}

KernelPanic == {<<Call("serial_writes"), Call("log"), Call("stack_trace"), Halt>>}

\* Mutant: the message is kept in one piece by locking the log.
KernelPanicErrorLocksLog == {Under("log", <<Call("serial_writes"), Call("logf")>>)
                               \o <<Call("kernel_panic")>>}

KernelPanicError == {<<Call("serial_writes"), Call("serial_writes"), Call("serial_writes"),
                       Call("logf"), Call("kernel_panic")>>}

FaultHandler == {<<Call("serial_writes"), Call("kernel_panic_error")>>}

PanicHandle == {Under("panic", <<Call("logf"), Call("log")>>)}

CpuInit == {Under("cpu_list", <<Call("kmalloc")>>) \o <<Call("logf")>>}

CpuGetRandomCpu == {Under("cpu_list", <<>>) \o <<Call("logf")>>}

DevmanRegisterDriver == {<<Call("kmalloc")>> \o Under("driver", <<>>)}

\* A driver's init may log and add a storage device; without one it is logged.
DevmanHandlePcieDevice == {Under("driver", <<Call("logf")>>),
                           Under("driver", <<Call("logf"), Call("devman_add_storage")>>)}

\* Mutant: the partitions are looked for before the storage is unlocked.
DevmanAddStorageScansLocked ==
  {Under("storage", <<Call("kmalloc"), Call("krealloc"), Call("log"), Call("gpt_init")>>)}

DevmanAddStorage ==
  {Under("storage", <<Call("kmalloc"), Call("krealloc"), Call("log")>>) \o <<Call("gpt_init")>>}

GptInit == {<<Call("kernel_panic_error")>>,
            <<Call("kprint_plain"), Call("kvprintf"), Call("logf"),
              Call("devman_add_partition")>>}

DevmanAddPartition == {Under("storage", <<Call("kmalloc"), Call("krealloc"), Call("log")>>)}

Paths == [serial_writes |-> SerialWrites, kmalloc |-> Kmalloc, kfree |-> Kfree,
          krealloc |-> Krealloc, kvfprintf |-> Kvfprintf, kvprintf |-> Kvprintf,
          drm_plot |-> DrmPlot, drm_sync |-> DrmSync, drm_clear |-> DrmClear,
          drm_switch |-> DrmSwitch, vt_flush |-> VtFlush, vt_redraw |-> VtRedraw,
          kprint_colour |-> KprintColour, kprint_line |-> KprintLine,
          kprint_plain |-> KprintPlain,
          log |-> Log, logf |-> Logf, stack_trace |-> StackTrace,
          kernel_panic |-> KernelPanic, kernel_panic_error |-> KernelPanicError,
          fault_handler |-> FaultHandler, panic_handle |-> PanicHandle,
          cpu_init |-> CpuInit, cpu_get_random_cpu |-> CpuGetRandomCpu,
          devman_register_driver |-> DevmanRegisterDriver,
          devman_handle_pcie_device |-> DevmanHandlePcieDevice,
          devman_add_storage |-> DevmanAddStorage, gpt_init |-> GptInit,
          devman_add_partition |-> DevmanAddPartition]

\* The two prints of a line belong to the log, and nobody else begins one.
ASSUME EntriesAssumption == Entries \subseteq DOMAIN Paths \ {"kprint_colour", "kprint_line"}
ASSUME CpusAssumption == NoOne \notin Cpus
ASSUME SwitchesAssumption == SerialAvailable \in BOOLEAN /\ HeapBroken \in BOOLEAN

-----------------------------------------------------------------------------
(***************************************************************************)
(* The CPUs.                                                               *)
(***************************************************************************)
VARIABLES todo,    \* CPU -> the steps before it
          owner,   \* lock -> the CPU that set its bit, or NoOne
          colour   \* the CPU whose log call has set the terminal's colour

vars == <<todo, owner, colour>>

Init == /\ todo = [c \in Cpus |-> <<>>]
        /\ owner = [l \in Locks |-> NoOne]
        /\ colour = NoOne

At(c, op) == todo[c] # <<>> /\ Head(todo[c]).op = op

Begin(c) == /\ todo[c] = <<>>
            /\ \E f \in Entries : todo' = [todo EXCEPT ![c] = <<Call(f)>>]
            /\ UNCHANGED <<owner, colour>>

Enter(c) == /\ At(c, "call")
            /\ \E path \in Paths[Head(todo[c]).arg] :
                 todo' = [todo EXCEPT ![c] = path \o Tail(@)]
            /\ UNCHANGED <<owner, colour>>

\* lock bts: only the CPU that finds the bit clear goes on.
Spinlock(c) == /\ At(c, "take")
               /\ owner[Head(todo[c]).arg] = NoOne
               /\ owner' = [owner EXCEPT ![Head(todo[c]).arg] = c]
               /\ todo' = [todo EXCEPT ![c] = Tail(@)]
               /\ UNCHANGED colour

\* The bit is cleared, whoever set it.
Spinunlock(c) == /\ At(c, "drop")
                 /\ owner' = [owner EXCEPT ![Head(todo[c]).arg] = NoOne]
                 /\ todo' = [todo EXCEPT ![c] = Tail(@)]
                 /\ UNCHANGED colour

PrintOut(c) == /\ At(c, "print")
               /\ colour' = CASE Head(todo[c]).arg = "colour" -> c
                              [] Head(todo[c]).arg = "line"   -> NoOne
                              [] Head(todo[c]).arg = "plain"  -> colour
               /\ todo' = [todo EXCEPT ![c] = Tail(@)]
               /\ UNCHANGED owner

Step(c) == Enter(c) \/ Spinlock(c) \/ Spinunlock(c) \/ PrintOut(c)

Next == \E c \in Cpus : Begin(c) \/ Step(c)

\* A CPU that runs goes on, and one that spins takes the lock at last if it is
\* free again and again: the lock itself keeps no order, so this assumes that
\* no CPU loses the race for ever.
Spec == Init /\ [][Next]_vars /\ \A c \in Cpus : SF_vars(Step(c))

-----------------------------------------------------------------------------
(***************************************************************************)
(* Properties.                                                             *)
(***************************************************************************)

\* c has taken lock l and still has to drop it.
Inside(c, l) == \E i \in DOMAIN todo[c] :
                  /\ todo[c][i] = Drop(l)
                  /\ \A j \in 1 .. i - 1 : todo[c][j] # Take(l)

\* The locks exclude, and none is forgotten: a CPU between the taking and the
\* dropping of a lock owns it, and nobody else owns any.  No path of spinlock
\* and spinunlock calls through the nested functions drops a lock of another
\* CPU or returns with one.  A panic never drops the locks it came with.
LocksMatch == \A c \in Cpus, l \in Locks : owner[l] = c <=> Inside(c, l)

\* What c spins on is owned by d.
WaitsFor(c, d) == At(c, "take") /\ owner[Head(todo[c]).arg] = d

\* No CPUs wait for each other in a circle, and none for itself, over all the
\* nestings of the log, heap, serial, terminal, framebuffer, CPU list and
\* device manager locks.
NoWaitCycle == \A S \in (SUBSET Cpus) \ {{}} : \E c \in S : \A d \in S : ~WaitsFor(c, d)

\* A line that _log or _logf prints appears in the colour that the same call
\* has set by a kprint of its own before: no other CPU's line comes between.
LineInOwnColour == [][\A c \in Cpus : PrintOut(c) /\ Head(todo[c]).arg = "line"
                                         => colour = c]_vars

Panics(c) == At(c, "call") /\ Head(todo[c]).arg = "kernel_panic_error"

\* kernel_panic_error tells what happened and halts the CPU.
PanicHalts == \A c \in Cpus : Panics(c) ~> At(c, "halt")

\* What a CPU begins comes to its end, unless a CPU has been halted.
CallReturns == \A c \in Cpus : todo[c] # <<>> ~> \/ todo[c] = <<>>
                                                  \/ \E d \in Cpus : At(d, "halt")
=============================================================================
