------------------------------- MODULE DevFs -------------------------------
(***************************************************************************)
(* The device files, kernel/src/fs/devfs.c: a list of devices, and the     *)
(* directory of files that devfs_reload makes of it in the mount that      *)
(* devfs_bind named.  The drms register a device each (drm_register_vfs)   *)
(* and serve its reads and writes.  A program finds files by path in this  *)
(* mount and in that of a file system with directories, reads and writes   *)
(* them, and draws figures on a drm.                                       *)
(***************************************************************************)
EXTENDS Vfs, Drm

CONSTANTS Trees,     \* what a file system driver may mount
          Directories, \* all directories of these trees
          Paths,     \* the paths that are looked up
          Figures,   \* the figures that are drawn: a kind and two points
          Transfers, \* offsets and sizes of reads and writes of a drm
          MaxOps     \* bound: calls

NamesDiffer(entries) ==
  \A i, j \in DOMAIN entries : entries[i].name = entries[j].name => i = j

\* A driver fills its directories with entries of different names.
ASSUME TreesAssumption ==
  /\ \A tree \in Trees : tree.root \in Directories
  /\ \A d \in Directories :
       /\ d \notin Stale /\ d.dirs # Wild
       /\ \A s \in {d.dirs, d.files} : DOMAIN s = 1 .. Len(s) /\ Len(s) \in Nat /\ NamesDiffer(s)
       /\ \A i \in DOMAIN d.dirs : d.dirs[i].dir \in Directories

\* Paths have names, there are names for two drms, and rectangles are where
\* drm_plot lets them be.
ASSUME CallsAssumption ==
  /\ Paths \subseteq Seq(STRING) \ {<<>>} /\ MaxDrms <= 2 /\ MaxOps \in Nat \ {0}
  /\ \A t \in Transfers : t.at \in Nat /\ t.size \in Nat
  /\ \A f \in Figures :
       /\ f.kind = "line" => {f.p, f.q} \subseteq Int \X Int
       /\ f.kind = "rect" => {f.p, f.q} \subseteq (0 .. Width) \X (0 .. Height)
       /\ f.kind = "circle" => f.p \in Int \X Int /\ f.q[1] \in Nat

VARIABLES devices, \* _devices, in order, with what became of their memory
          devfs,   \* the mount that is bound, or 0
          last,    \* the last call and its result
          ops      \* calls so far; of devfs_reload

devVars == <<devices, devfs, last, ops>>
vars == <<vfsVars, display, devVars>>

Call(name, arg, result) == last' = [op |-> name, arg |-> arg, result |-> result]
Count == ops' = [ops EXCEPT !.calls = @ + 1]
May == ~wild /\ ops.calls < MaxOps

-----------------------------------------------------------------------------
(***************************************************************************)
(* The devices and their files.                                            *)
(***************************************************************************)
Device(name, handler, n) == [name |-> name, handler |-> handler, n |-> n, live |-> TRUE]

DrmName(n, junk) == IF junk THEN <<"drmaJunk", "drmbJunk">>[n + 1] ELSE <<"drma", "drmb">>[n + 1]

\* Mutant: a file gets the device before its own.
FilesOfShifted(list) ==
  [i \in DOMAIN list |-> [name |-> list[i].name, dev |-> IF i = 1 THEN 1 ELSE i - 1]]

FilesOf(list) == [i \in DOMAIN list |-> [name |-> list[i].name, dev |-> i]]

Root == mounts[devfs].root

\* _devfs_clear_files frees the device behind each file: the list's own nodes.
Cleared(list) ==
  [i \in DOMAIN list |->
     [list[i] EXCEPT !.live = @ /\ \A j \in DOMAIN Root.files : Root.files[j].dev # i]]

\* Of a root that nobody set: a new directory that is not cleared, whose
\* `files` may then look as if there were some to free.  Of one that exists:
\* the list is read again from the nodes that were just freed, which may hold
\* something else by now.
Build(list, dirs) ==
  /\ mounts' = [mounts EXCEPT ![devfs].root = Dir(dirs, FilesOf(list))]
  /\ devices' = list
  /\ UNCHANGED wild

Undefined(list) == wild' = TRUE /\ devices' = list /\ UNCHANGED mounts

Reload(list) ==
  \/ devfs = 0 /\ devices' = list /\ UNCHANGED vfsVars
  \/ devfs # 0 /\ Root = NULL /\ \E dirs \in {<<>>, Wild} : Build(list, dirs)
  \/ devfs # 0 /\ Root \in Stale /\ Undefined(list)
  \/ devfs # 0 /\ Root \notin Stale /\ Build(Cleared(list), Root.dirs)
  \/ /\ devfs # 0 /\ Root \notin Stale /\ \E i \in DOMAIN list : ~Cleared(list)[i].live
     /\ Undefined(list)

-----------------------------------------------------------------------------
(***************************************************************************)
(* Calls that set the file systems up.                                     *)
(***************************************************************************)
\* The mount of the devices; its root is as memory was.
MakeDevfs == /\ May /\ devfs = 0
             /\ \E root \in Stale : VfsMake("dev", root)
             /\ devfs' = IF wild' THEN 0 ELSE Len(mounts')  \* devfs_bind
             /\ devices' = devices \o <<Device("null", "zero", 0), Device("zero", "zero", 0)>>
             /\ Call("devfs_init", NULL, NULL) /\ Count
             /\ UNCHANGED display

\* A file system driver mounts a tree of its own.
MountTree == /\ May
             /\ \E tree \in Trees : VfsMake(tree.name, tree.root)
             /\ Call("vfs_make", NULL, NULL) /\ Count
             /\ UNCHANGED <<display, devices, devfs>>

DevfsReload == /\ May
               /\ Reload(devices)
               /\ Call("devfs_reload", NULL, NULL)
               /\ ops' = [ops EXCEPT !.calls = @ + 1, !.reloads = @ + 1]
               /\ UNCHANGED <<display, devfs>>

\* The name is not terminated: what follows it in its block may be part of it.
\* Bound: once.
DrmRegisterVfs ==
  /\ May /\ \A i \in DOMAIN devices : devices[i].handler # "drm"
  /\ \E junk \in SUBSET Drms :
       Reload(devices \o [i \in 1 .. MaxDrms |-> Device(DrmName(i - 1, i - 1 \in junk), "drm", i - 1)])
  /\ Call("drm_register_vfs", NULL, NULL)
  /\ ops' = [ops EXCEPT !.calls = @ + 1, !.reloads = @ + 1]
  /\ UNCHANGED <<display, devfs>>

-----------------------------------------------------------------------------
(***************************************************************************)
(* Calls that use them.                                                    *)
(***************************************************************************)
Lookup == /\ May
          /\ \E path \in Paths : \/ Call("vfs_type", path, VfsType(path))
                                 \/ Call("vfs_find_file", path, VfsFindFile(path))
                                 \/ Call("vfs_find_directory", path, VfsFindDirectory(path))
          /\ wild' = (last'.result.code = Wild)
          /\ Count
          /\ UNCHANGED <<mounts, display, devices, devfs>>

\* The file's own read or write, through the device that it refers to.
OpenDevice(path) ==
  /\ May /\ devfs # 0 /\ path[1] = "dev" /\ VfsFs("dev") = devfs
  /\ VfsFindFile(path).code = "E_SUCCESS"

DevOf(path) == VfsFindFile(path).what.dev

ReadResult(i, t) ==
  LET dev == devices[i]
  IN  IF dev.handler = "zero"
        THEN [code |-> "E_SUCCESS", dev |-> i, data |-> [j \in 1 .. t.size |-> Black]]
      ELSE IF ~DrmInRange(t.at, t.size) THEN [code |-> "E_OUTOFBOUNDS", dev |-> i, data |-> <<>>]
      ELSE [code |-> "E_SUCCESS", dev |-> i, at |-> t.at,
            data |-> DrmRead(display, dev.n, t.at, t.size)]

DevfsRead == /\ \E path \in Paths, t \in Transfers :
                  /\ OpenDevice(path) /\ devices[DevOf(path)].live
                  /\ Call("read", path, ReadResult(DevOf(path), t))
             /\ Count
             /\ UNCHANGED <<vfsVars, display, devices, devfs>>

\* A program writes colors that differ from pixel to pixel.
Colors(size) == [j \in 1 .. size |-> j]

DevfsWrite ==
  /\ \E path \in Paths, t \in Transfers :
       /\ OpenDevice(path) /\ devices[DevOf(path)].live
       /\ LET dev == devices[DevOf(path)]
              fits == dev.handler = "zero" \/ DrmInRange(t.at, t.size)
          IN  /\ display' = IF dev.handler = "drm" /\ fits
                              THEN DrmWrite(display, dev.n, t.at, Colors(t.size)) ELSE display
              /\ Call("write", path, [code |-> IF fits THEN "E_SUCCESS" ELSE "E_OUTOFBOUNDS",
                                      dev |-> DevOf(path), at |-> t.at, size |-> t.size])
  /\ Count
  /\ UNCHANGED <<vfsVars, devices, devfs>>

\* Of a file that was built from a freed node: its functions may be anything.
UseFreed == /\ \E path \in Paths : OpenDevice(path) /\ ~devices[DevOf(path)].live
            /\ wild' = TRUE
            /\ Count
            /\ UNCHANGED <<mounts, display, devices, devfs, last>>

PointsOf(f) == CASE f.kind = "line"   -> DrmPlotLine(f.p, f.q)
                 [] f.kind = "rect"   -> DrmPlotRect(f.p, f.q)
                 [] f.kind = "circle" -> DrmPlotCircle(f.p, f.q[1])
                 [] f.kind = "fill"   -> DrmFillRect(f.p, f.q)
                 [] f.kind = "char"   -> DrmPlotChar(f.q[1] = 0, f.p, f.q[2])

\* Drawing has nothing to do with files: it is checked as the first call.
Draw == /\ ops.calls = 0
        /\ \E f \in Figures, n \in Drms :
             /\ display' = Paint(display, n, InColor(PointsOf(f), 1))
             /\ Call("draw", f, PointsOf(f))
        /\ ops' = [ops EXCEPT !.calls = MaxOps]
        /\ UNCHANGED <<vfsVars, devices, devfs>>

Init == /\ VfsInit /\ DrmInit
        /\ devices = <<>> /\ devfs = 0
        /\ last = [op |-> "none", arg |-> NULL, result |-> NULL]
        /\ ops = [calls |-> 0, reloads |-> 0]

Next == \/ MakeDevfs \/ MountTree \/ DevfsReload \/ DrmRegisterVfs
        \/ Lookup \/ DevfsRead \/ DevfsWrite \/ UseFreed \/ Draw

Spec == Init /\ [][Next]_vars

-----------------------------------------------------------------------------
\* The entries that a path leads to, by what a path means: a name is looked up
\* in the directories that the names before it lead to.
Reached(root, names) ==
  LET reached[i \in 0 .. Len(names)] ==
        IF i = 0 THEN {root}
        ELSE {e.dir : e \in {e \in UNION {ToSet(d.dirs) : d \in reached[i - 1]} :
                              e.name = names[i]}}
  IN  reached

Leads(root, names) ==
  LET n == Len(names)
  IN  UNION {{f \in ToSet(d.files) : /\ f.name = names[n]
                                     /\ \A e \in ToSet(d.dirs) : e.name # names[n]} :
             d \in Reached(root, names)[n - 1]}

\* vfs_find_file succeeds for a path exactly when the path leads to a file,
\* and finds that file (vfs.c, vfs_find_file and vfs_type).
FilesFound ==
  last.op = "vfs_find_file" /\ ~wild =>
    LET path == last.arg
        fs == VfsFs(path[1])
        there == IF path = <<"">> \/ fs = NULL \/ Len(path) = 1 THEN {}
                 ELSE Leads(mounts[fs].root, Tail(path))
    IN  IF last.result.code = "E_SUCCESS" THEN there = {last.result.what} ELSE there = {}

\* A read or write of a device file is served by the device of the file's
\* name.  Nothing but a field that nobody sets, and the second making of the
\* device files, leads to a wild pointer (devfs_reload, _devfs_read).
ReadsReach ==
  /\ last.op \in {"read", "write"} =>
       devices[last.result.dev].name = last.arg[Len(last.arg)]
  /\ wild => \/ ops.reloads > 1 \/ NextOfLast = Wild
             \/ \E i \in DOMAIN mounts :
                  mounts[i].root \in Stale \/ mounts[i].root.dirs = Wild

\* What a program writes to a drm that is not on the screen it reads back, if
\* the rows have no padding (_drm_write, _drm_read).
DrmReadsBack ==
  [][LET dev == devices[last.result.dev]
     IN  /\ last.op = "write" /\ last'.op = "read" /\ last' # last
         /\ last'.result.dev = last.result.dev
         /\ dev.handler = "drm" /\ dev.n # display.active /\ Pitch = Width
         /\ last.result.code = "E_SUCCESS" /\ last'.result.code = "E_SUCCESS"
         => \A j \in DOMAIN last'.result.data :
              LET at == last'.result.at + j - 1 - last.result.at
              IN  at \in 0 .. last.result.size - 1 => last'.result.data[j] = at + 1]_vars

Longer(f) == Max({Abs(f.q[1] - f.p[1]), Abs(f.q[2] - f.p[2])})

\* A line has both ends, one point for each step of its longer side, none of
\* them more than half a pixel off; a rectangle has its border and nothing
\* else; a circle is within half a pixel of its radius; and whatever lies on
\* the screen is drawn inside of the screen's memory (drm_plot_line,
\* drm_plot_rect, drm_plot_circle).
FiguresWhole ==
  last.op = "draw" =>
    LET f == last.arg
        points == last.result
        Within(a, b, c) == Min({a, c}) <= b /\ b <= Max({a, c})
    IN  /\ f.kind = "line" =>
             /\ {f.p, f.q} \subseteq points /\ Cardinality(points) = Longer(f) + 1
             /\ \A p \in points :
                  2 * Abs((p[1] - f.p[1]) * (f.q[2] - f.p[2]) - (p[2] - f.p[2]) * (f.q[1] - f.p[1]))
                    <= Longer(f)
        /\ f.kind = "rect" =>
             points = {p \in (0 .. Width) \X (0 .. Height) :
                         /\ Within(f.p[1], p[1], f.q[1]) /\ Within(f.p[2], p[2], f.q[2])
                         /\ p[1] \in {f.p[1], f.q[1]} \/ p[2] \in {f.p[2], f.q[2]}}
        /\ f.kind = "circle" =>
             \A p \in points :
               LET x == p[1] - f.p[1]
                   y == p[2] - f.p[2]
               IN  Abs(x * x + y * y - f.q[1] * f.q[1]) <= f.q[1]
        /\ points \subseteq (0 .. Width - 1) \X (0 .. Height - 1) => display.outside = {}
=============================================================================
