-------------------------------- MODULE Pmm --------------------------------
(***************************************************************************)
(* The physical memory manager, kernel/src/mm/pmm.c: a fixed list of tags, *)
(* each one a run of free page frames.  free_pages appends a tag,          *)
(* request_page(s) takes frames off the front of one through mark_pages,   *)
(* and after every change _fix_memtags drops the empty tags and merges the *)
(* touching ones.  Boot (pmm_init, vmm_init) seeds the list from the       *)
(* firmware's memory map.                                                  *)
(*                                                                         *)
(* Addresses are page numbers (the code's `>> 12`).  The list has no lock: *)
(* one caller at a time is inside, so a call runs to its end before the    *)
(* next begins; the loops of _fix_memtags are stepped because their        *)
(* termination is itself in question.                                      *)
(***************************************************************************)
EXTENDS Integers, Sequences

CONSTANTS Frames,     \* the page frames of the machine
          MaxTags,    \* MAX_TAGS, the capacity of the tag list
          Counts,     \* the block sizes callers ask for
          MemoryMaps  \* the memory maps the boot loader may pass

Entry == [base : Nat, length : Nat, usable : BOOLEAN]

Block(start, count) == start .. start + count - 1

ASSUME FramesAssumption == Frames \subseteq Nat
ASSUME MaxTagsAssumption == MaxTags \in Nat \ {0}
\* request_page asks for one frame.
ASSUME CountsAssumption == Counts \subseteq Nat /\ 1 \in Counts

\* Limine sorts the map, and no usable entry overlaps another entry.
ASSUME MemoryMapsAssumption ==
  \A map \in MemoryMaps :
    /\ map \in Seq(Entry)
    /\ \A a, b \in 1 .. Len(map) :
         a < b => map[a].base + map[a].length <= map[b].base
    /\ \A a \in 1 .. Len(map) : Block(map[a].base, map[a].length) \subseteq Frames

VARIABLES
  memory_tags,       \* slot -> tag; a slot from memory_tag_count on is never read
  memory_tag_count,
  op,                \* what the call in progress is doing
  i, j, changes,     \* the locals of _fix_memtags
  boot,              \* the next step of pmm_init and vmm_init
  entries,           \* the memory map
  e,                 \* the loop index of pmm_init, from 1
  end_last,          \* the page after the previous entry
  list_at,           \* the page that memory_tags occupies
  held               \* history: the frames the callers hold

tagVars == <<memory_tags, memory_tag_count>>
fixVars == <<op, i, j, changes>>
bootVars == <<boot, entries, e, end_last, list_at>>
vars == <<tagVars, fixVars, bootVars, held>>

Tag == [start_index : Nat, length : Nat]
Unplaced == -1
NoTag == [start_index |-> 0, length |-> 0]
Slots == 0 .. MaxTags - 1
Used == 0 .. memory_tag_count - 1

TagFrames(k) == Block(memory_tags[k].start_index, memory_tags[k].length)
TagEnd(k) == memory_tags[k].start_index + memory_tags[k].length

FreeFrames == {p \in Frames : \E k \in Used : p \in TagFrames(k)}

\* The frames of the usable entries, without the page of the tag list.
UsableFrames ==
  {p \in Frames : /\ p # list_at
                  /\ \E a \in 1 .. Len(entries) :
                       entries[a].usable /\ p \in Block(entries[a].base, entries[a].length)}

Larger(a, b) == IF a > b THEN a ELSE b

Init == /\ memory_tags = [k \in Slots |-> NoTag]
        /\ memory_tag_count = 0
        /\ op = "idle" /\ i = 0 /\ j = 0 /\ changes = FALSE
        /\ boot = "fit"
        /\ entries \in MemoryMaps
        /\ e = 1
        /\ end_last = 0
        /\ list_at = Unplaced
        /\ held = {}

Panic == op' = "panic" /\ UNCHANGED <<i, j, changes>>

-----------------------------------------------------------------------------
(***************************************************************************)
(* _fix_memtags.  It is entered at the end of every call that changed the  *)
(* list, and enters itself again when a pass changed anything.             *)
(***************************************************************************)
\* Mutant: the local `changes` keeps its value when the function enters itself.
BeginFixKeepsChanges == op' = "drop" /\ i' = 0 /\ j' = 0 /\ UNCHANGED changes

BeginFix == op' = "drop" /\ i' = 0 /\ j' = 0 /\ changes' = FALSE

\* Mutant: the move is one slot too short.
RemoveOneShort(k) == [s \in Slots |-> IF s < k \/ s >= memory_tag_count - 2
                                        THEN memory_tags[s] ELSE memory_tags[s + 1]]

\* kmemmove of the slots after k down by one.  (The merge loop moves
\* memory_tag_count - i - 1 slots, more than there are behind j; a long list
\* also moves memory behind its page, which is not modelled.)
Remove(k) == [s \in Slots |-> IF s < k THEN memory_tags[s]
                              ELSE IF s + 1 \in Slots THEN memory_tags[s + 1]
                              ELSE NoTag]

DropEmpty == /\ op = "drop" /\ i < memory_tag_count
             /\ memory_tags[i].length = 0
             /\ memory_tags' = Remove(i)
             /\ memory_tag_count' = memory_tag_count - 1
             /\ changes' = TRUE
             /\ UNCHANGED <<op, i, j, bootVars, held>>

KeepTag == /\ op = "drop" /\ i < memory_tag_count
           /\ memory_tags[i].length # 0
           /\ i' = i + 1
           /\ UNCHANGED <<tagVars, op, j, changes, bootVars, held>>

\* The u64 bound memory_tag_count - 1 of the second loop wraps on an empty
\* list, and 2^64 - 1 empty iterations are taken as never ending.
BeginMerge == /\ op = "drop" /\ i >= memory_tag_count
              /\ IF memory_tag_count = 0
                   THEN op' = "endless" /\ UNCHANGED <<i, j, changes>>
                   ELSE op' = "merge" /\ i' = 0 /\ j' = 1 /\ UNCHANGED changes
              /\ UNCHANGED <<tagVars, bootVars, held>>

\* Tag b begins inside tag a or where it ends; a tag b that begins before a
\* is passed over (`sb < sa`).
Mergeable(a, b) == /\ memory_tags[a].start_index <= memory_tags[b].start_index
                   /\ memory_tags[b].start_index <= TagEnd(a)

\* Mutant: `if (ea < eb) ea = eb` is missing.
MergedKeepsEnd(a, b) == memory_tags[a]

Merged(a, b) ==
  [start_index |-> memory_tags[a].start_index,
   length |-> Larger(TagEnd(a), TagEnd(b)) - memory_tags[a].start_index]

Merge == /\ op = "merge" /\ j < memory_tag_count
         /\ Mergeable(i, j)
         /\ memory_tags' = [Remove(j) EXCEPT ![i] = Merged(i, j)]
         /\ memory_tag_count' = memory_tag_count - 1
         /\ changes' = TRUE
         /\ UNCHANGED <<op, i, j, bootVars, held>>

SkipPair == /\ op = "merge" /\ j < memory_tag_count
            /\ ~Mergeable(i, j)
            /\ j' = j + 1
            /\ UNCHANGED <<tagVars, op, i, changes, bootVars, held>>

NextRow == /\ op = "merge" /\ j >= memory_tag_count
           /\ i + 1 < memory_tag_count - 1
           /\ i' = i + 1
           /\ j' = i + 2
           /\ UNCHANGED <<tagVars, op, changes, bootVars, held>>

\* Mutant: one pass is taken to be enough.
EndPassForGood == /\ op = "merge" /\ j >= memory_tag_count
                  /\ i + 1 >= memory_tag_count - 1
                  /\ op' = "idle" /\ i' = 0 /\ j' = 0
                  /\ UNCHANGED <<changes, tagVars, bootVars, held>>

EndPass == /\ op = "merge" /\ j >= memory_tag_count
           /\ i + 1 >= memory_tag_count - 1
           /\ IF changes
                THEN BeginFix
                ELSE op' = "idle" /\ i' = 0 /\ j' = 0 /\ UNCHANGED changes
           /\ UNCHANGED <<tagVars, bootVars, held>>

FixMemtags == \/ DropEmpty \/ KeepTag \/ BeginMerge
              \/ Merge \/ SkipPair \/ NextRow \/ EndPass

-----------------------------------------------------------------------------
(***************************************************************************)
(* mark_pages and free_pages, which end in _fix_memtags.                   *)
(***************************************************************************)
Touches(k, idx) == memory_tags[k].start_index <= idx /\ idx <= TagEnd(k)

FirstTouching(k, idx) == /\ k \in Used
                         /\ Touches(k, idx)
                         /\ \A h \in Used : h < k => ~Touches(h, idx)

\* Mutant: the length is not kept above zero (max(..., 0)).
ShrunkBelowZero(tag, idx, count) ==
  IF idx = tag.start_index
    THEN [start_index |-> tag.start_index + count, length |-> tag.length - count]
    ELSE [tag EXCEPT !.length = IF idx = tag.start_index + tag.length
                                  THEN tag.length - count
                                  ELSE idx - tag.start_index]

\* Mutant: taking frames off the front does not move the start.
ShrunkKeepsStart(tag, idx, count) ==
  [tag EXCEPT !.length = Larger(tag.length - count, 0)]

\* What is left of a tag that is not split; at its end (the second case) the
\* frames come off the tag's own tail.
Shrunk(tag, idx, count) ==
  IF idx = tag.start_index
    THEN [start_index |-> tag.start_index + count,
          length |-> Larger(tag.length - count, 0)]
  ELSE IF idx = tag.start_index + tag.length
    THEN [tag EXCEPT !.length = Larger(tag.length - count, 0)]
  ELSE [tag EXCEPT !.length = idx - tag.start_index]

NeedsSplit(tag, idx, count) ==
  /\ idx > tag.start_index /\ idx < tag.start_index + tag.length
  /\ idx + count <= tag.start_index + tag.length

MarkPages(idx, count) ==
  /\ UNCHANGED memory_tag_count
  /\ \/ /\ \A k \in Used : ~Touches(k, idx)
        /\ UNCHANGED <<memory_tags, fixVars>>
     \/ \E k \in Used :
          /\ FirstTouching(k, idx)
          /\ IF NeedsSplit(memory_tags[k], idx, count)
               THEN Panic /\ UNCHANGED memory_tags
               ELSE /\ memory_tags' =
                         [memory_tags EXCEPT ![k] = Shrunk(memory_tags[k], idx, count)]
                    /\ BeginFix

\* Mutant: the block is taken to be one frame longer.
NewTagTooLong(idx, count) == [start_index |-> idx, length |-> count + 1]

NewTag(idx, count) == [start_index |-> idx, length |-> count]

FreePages(idx, count) ==
  IF memory_tag_count >= MaxTags
    THEN Panic /\ UNCHANGED tagVars
    ELSE /\ memory_tags' = [memory_tags EXCEPT ![memory_tag_count] = NewTag(idx, count)]
         /\ memory_tag_count' = memory_tag_count + 1
         /\ BeginFix

-----------------------------------------------------------------------------
(***************************************************************************)
(* Boot: pmm_init, then vmm_init.  The tag list takes one page (256 tags   *)
(* of 16 bytes) off the end of the first usable entry.                     *)
(***************************************************************************)
ListPages == 1

FirstFit(a) == /\ entries[a].usable /\ entries[a].length >= ListPages
               /\ \A b \in 1 .. a - 1 :
                    ~(entries[b].usable /\ entries[b].length >= ListPages)

PlaceList == /\ op = "idle" /\ boot = "fit"
             /\ \/ \E a \in 1 .. Len(entries) :
                     /\ FirstFit(a)
                     /\ entries' = [entries EXCEPT ![a].length = @ - ListPages]
                     /\ list_at' = entries[a].base + entries[a].length - ListPages
                     /\ boot' = "gap"
                     /\ UNCHANGED fixVars
                \/ /\ \A a \in 1 .. Len(entries) : ~FirstFit(a)
                   /\ Panic
                   /\ UNCHANGED <<boot, entries, list_at>>
             /\ UNCHANGED <<tagVars, e, end_last, held>>

\* The hole between the previous entry and this one is marked as used.
MarkGap == /\ op = "idle" /\ boot = "gap" /\ e <= Len(entries)
           /\ IF entries[e].base # end_last
                THEN MarkPages(end_last, entries[e].base - end_last)
                ELSE UNCHANGED <<tagVars, fixVars>>
           /\ end_last' = entries[e].base + entries[e].length
           /\ boot' = "entry"
           /\ UNCHANGED <<entries, e, list_at, held>>

AddEntry == /\ op = "idle" /\ boot = "entry"
            /\ IF entries[e].usable
                 THEN FreePages(entries[e].base, entries[e].length)
                 ELSE MarkPages(entries[e].base, entries[e].length)
            /\ e' = e + 1
            /\ boot' = "gap"
            /\ UNCHANGED <<entries, end_last, list_at, held>>

EndOfMap == /\ op = "idle" /\ boot = "gap" /\ e > Len(entries)
            /\ boot' = "vmm"
            /\ UNCHANGED <<tagVars, fixVars, entries, e, end_last, list_at, held>>

\* vmm_init marks the page of the boot loader's top page table, which lies
\* in an entry that is not usable.
VmmInit == /\ op = "idle" /\ boot = "vmm"
           /\ \E a \in 1 .. Len(entries) :
                /\ ~entries[a].usable
                /\ \E cr3 \in Block(entries[a].base, entries[a].length) : MarkPages(cr3, 1)
           /\ boot' = "done"
           /\ UNCHANGED <<entries, e, end_last, list_at, held>>

-----------------------------------------------------------------------------
(***************************************************************************)
(* The calls of the running kernel.  A caller frees only what it holds.    *)
(***************************************************************************)
RequestPage == /\ op = "idle" /\ boot = "done"
               /\ IF memory_tag_count > 0
                    THEN LET a == memory_tags[0].start_index
                         IN  MarkPages(a, 1) /\ held' = held \cup {a}
                    ELSE Panic /\ UNCHANGED <<tagVars, held>>
               /\ UNCHANGED bootVars

FirstOfLength(k, count) == /\ k \in Used
                           /\ memory_tags[k].length >= count
                           /\ \A h \in Used : h < k => memory_tags[h].length < count

RequestPages(count) ==
  /\ op = "idle" /\ boot = "done"
  /\ \/ \E k \in Used :
          /\ FirstOfLength(k, count)
          /\ LET a == memory_tags[k].start_index
             IN  MarkPages(a, count) /\ held' = held \cup Block(a, count)
     \/ /\ \A k \in Used : ~FirstOfLength(k, count)
        /\ Panic
        /\ UNCHANGED <<tagVars, held>>
  /\ UNCHANGED bootVars

ReleasePages(start, count) ==
  /\ op = "idle" /\ boot = "done"
  /\ count > 0
  /\ Block(start, count) \subseteq held
  /\ FreePages(start, count)
  /\ held' = IF memory_tag_count >= MaxTags THEN held ELSE held \ Block(start, count)
  /\ UNCHANGED bootVars

Boot == PlaceList \/ MarkGap \/ AddEntry \/ EndOfMap \/ VmmInit

Next == \/ FixMemtags
        \/ Boot
        \/ RequestPage
        \/ \E count \in Counts : RequestPages(count)
        \/ \E start \in Frames, count \in Counts : ReleasePages(start, count)

\* A call in progress runs on: nothing in the kernel can stop it.
Spec == Init /\ [][Next]_vars /\ WF_vars(FixMemtags)

-----------------------------------------------------------------------------
(***************************************************************************)
(* Properties.                                                             *)
(***************************************************************************)

\* The list, the loop variables and the boot variables keep their types: no
\* length goes below zero (the max(..., 0) of mark_pages) and the list never
\* holds more than MAX_TAGS tags.
TypeOK == /\ memory_tags \in [Slots -> Tag]
          /\ memory_tag_count \in 0 .. MaxTags
          /\ op \in {"idle", "drop", "merge", "endless", "panic"}
          /\ i \in Nat /\ j \in Nat /\ changes \in BOOLEAN
          /\ boot \in {"fit", "gap", "entry", "vmm", "done"}
          /\ entries \in Seq(Entry)
          /\ e \in Nat /\ end_last \in Nat
          /\ list_at \in Nat \cup {Unplaced}
          /\ held \subseteq Frames

\* No frame is in two tags, also while _fix_memtags rearranges the list: two
\* tags with one frame would hand it out twice.
TagsDisjoint == \A k, l \in Used : k # l => TagFrames(k) \cap TagFrames(l) = {}

\* No frame that a caller holds is in a tag, from the moment request_page(s)
\* chose it until free_page(s): the allocator never hands out a frame twice.
HeldNotFree == \A k \in Used : TagFrames(k) \cap held = {}

\* Whatever mark_pages does to the list at boot, only frames of usable
\* memory, and never the page of the list itself, are free or handed out.
FreeIsUsable == FreeFrames \cup held \subseteq UsableFrames

\* When a call has returned, no tag is empty and no tag begins in or at the
\* end of an earlier one.  request_pages relies on it: mark_pages looks the
\* address up again and takes the first tag that touches it.
IdleIsNormal ==
  op = "idle" => \A k \in Used : /\ memory_tags[k].length > 0
                                  /\ \A l \in Used : k < l => ~Mergeable(k, l)

Allocator == INSTANCE PageAllocator WITH free <- FreeFrames, booted <- boot = "done"

\* The tag list implements the abstract allocator: after boot a request takes
\* exactly its block out of the free frames, a release puts exactly its block
\* back, and dropping and merging tags neither loses nor invents a frame.
AllocatorSpec == Allocator!Spec

\* _fix_memtags, which runs again whenever a pass changed something, comes to
\* an end as long as a frame is free.
FixEnds == (op \in {"drop", "merge"} /\ FreeFrames # {}) ~> op = "idle"

\* pmm.h says of mark_pages "Marks a block of pages as used": at boot a call
\* that marks a hole or an entry takes no frame outside of that block away.
MarksOnlyTheBlock ==
  [][ /\ MarkGap => FreeFrames \ FreeFrames' \subseteq
                       Block(end_last, entries[e].base - end_last)
      /\ AddEntry => FreeFrames \ FreeFrames' \subseteq
                        Block(entries[e].base, entries[e].length)]_vars

\* request_pages panics with "Out of memory (physical)" only if there is no
\* run of free frames of the size asked for.
OutOfMemoryIsReal ==
  [][\A count \in Counts :
       RequestPages(count) /\ op' = "panic" =>
         ~ \E start \in FreeFrames : Block(start, count) \subseteq FreeFrames]_vars
=============================================================================
