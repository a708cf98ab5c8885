-------------------------------- MODULE Vfs --------------------------------
(***************************************************************************)
(* The virtual file system, kernel/src/fs/vfs.c: the list of mounts and    *)
(* the search for directories and files by path.  What kmalloc leaves in   *)
(* the fields that nobody sets is either 0 or Wild: to follow a wild       *)
(* pointer is undefined, and the machine of this model stops there.        *)
(*                                                                         *)
(* A path is the sequence of the names between its separators, which are   *)
(* members of a small set; names have fewer than 16 characters, for clone  *)
(* does not terminate the copy of a name of 16.                            *)
(***************************************************************************)
EXTENDS Integers, Sequences, FiniteSetsExt, SequencesExt

CONSTANTS NULL, Wild

ASSUME VfsAssumption == /\ NULL # Wild
                        /\ Wild \notin Nat \cup {"E_SUCCESS", "E_NOENT", "E_INVOP", "E_INVOPT"}

VARIABLES mounts,  \* the mounts in the order of the list _filesystems
          wild     \* history: a wild pointer was followed

vfsVars == <<mounts, wild>>

\* What memory holds that was not cleared.
Stale == {NULL, Wild}

\* A directory: its entries, each with a name, in the order of their arrays.
\* The counters of one that nobody filled may be wild, too.
Dir(dirs, files) == [dirs |-> dirs, files |-> files]

VfsInit == mounts = <<>> /\ wild = FALSE

\* The last mount's `next` is not set by vfs_make: it is as memory was.
NextOfLast == IF mounts = <<>> THEN NULL ELSE mounts[Len(mounts)].next

VfsMake(name, root) ==
  IF NextOfLast = Wild
    THEN wild' = TRUE /\ UNCHANGED mounts
    ELSE /\ \E next \in Stale :
              mounts' = Append(mounts, [name |-> name, root |-> root, next |-> next])
         /\ UNCHANGED wild

\* vfs_fs: the first mount of that name; a search that fails runs into what
\* the last `next` is.
VfsFs(name) ==
  LET hits == {i \in DOMAIN mounts : mounts[i].name = name}
  IN  IF hits # {} THEN Min(hits) ELSE IF NextOfLast = Wild THEN Wild ELSE NULL

-----------------------------------------------------------------------------
(***************************************************************************)
(* The walk that vfs_type and vfs_find_file share: where the path leads    *)
(* after each of its names.                                                *)
(***************************************************************************)
Named(entries, name) == {i \in DOMAIN entries : entries[i].name = name}

Spot(kind, what) == [kind |-> kind, what |-> what]

\* Mutant: a name after a file's is passed over.
EnterPastFile(place, name) ==
  IF place.kind # "dir" THEN place
  ELSE IF place.what \in Stale \/ place.what.dirs = Wild THEN Spot("wild", NULL)
  ELSE IF Named(place.what.dirs, name) # {}
    THEN Spot("dir", place.what.dirs[Min(Named(place.what.dirs, name))].dir)
  ELSE IF Named(place.what.files, name) # {}
    THEN Spot("file", place.what.files[Min(Named(place.what.files, name))])
  ELSE Spot("none", NULL)

Enter(place, name) ==
  IF place.kind # "dir" THEN IF place.kind = "file" THEN Spot("none", NULL) ELSE place
  ELSE IF place.what \in Stale \/ place.what.dirs = Wild THEN Spot("wild", NULL)
  ELSE IF Named(place.what.dirs, name) # {}
    THEN Spot("dir", place.what.dirs[Min(Named(place.what.dirs, name))].dir)
  ELSE IF Named(place.what.files, name) # {}
    THEN Spot("file", place.what.files[Min(Named(place.what.files, name))])
  ELSE Spot("none", NULL)

Places(root, names) ==
  LET place[i \in 0 .. Len(names)] ==
        IF i = 0 THEN Spot("dir", root) ELSE Enter(place[i - 1], names[i])
  IN  place

Walk(path) ==
  LET fs == VfsFs(path[1])
  IN  IF fs = Wild THEN Spot("wild", NULL)
      ELSE IF fs = NULL THEN Spot("none", NULL)
      ELSE Places(mounts[fs].root, Tail(path))[Len(path) - 1]

Found(code, what) == [code |-> code, what |-> what]

\* An empty path is one empty name.
VfsType(path) ==
  LET place == Walk(path)
  IN  IF path = <<"">> THEN Found("E_INVOPT", NULL)
      ELSE IF place.kind = "none" THEN Found("E_NOENT", NULL)
      ELSE IF place.kind = "wild" THEN Found(Wild, NULL)
      ELSE Found("E_SUCCESS", place.kind)

VfsFindFile(path) ==
  LET type == VfsType(path)
  IN  IF type.code # "E_SUCCESS" THEN type
      ELSE IF type.what # "file" THEN Found("E_NOENT", NULL)
      ELSE Found("E_SUCCESS", Walk(path).what)

\* The search of vfs_find_directory ends at the first name after the mount's,
\* and goes one step too far: d is already the directory when its entry of
\* the same number is returned.
FirstStep(root, name) ==
  LET i == Min(Named(root.dirs, name))
      d == root.dirs[i].dir
  IN  IF i \in DOMAIN d.dirs THEN d.dirs[i].dir ELSE Wild

VfsFindDirectory(path) ==
  LET type == VfsType(path)
  IN  IF type.code # "E_SUCCESS" THEN type
      ELSE IF type.what # "dir" THEN Found("E_NOENT", NULL)
      ELSE IF Len(path) = 1 THEN Found("E_INVOP", NULL)
      ELSE Found("E_SUCCESS", FirstStep(mounts[VfsFs(path[1])].root, path[2]))
=============================================================================
