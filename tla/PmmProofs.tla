----------------------------- MODULE PmmProofs -----------------------------
(***************************************************************************)
(* Proofs about the page allocator, for every memory map, capacity and     *)
(* block size.                                                             *)
(***************************************************************************)
EXTENDS Pmm, SequenceTheorems, TLAPS

-----------------------------------------------------------------------------
(***************************************************************************)
(* Facts about the operators of Pmm.                                       *)
(***************************************************************************)

\* Removing a slot from the list leaves a list of tags.
LEMMA RemoveType ==
  ASSUME memory_tags \in [Slots -> Tag], NEW k \in Slots
  PROVE  Remove(k) \in [Slots -> Tag]
BY DEF Remove, Tag, NoTag

\* Tag s of the shortened list is a tag of the list, at s or one further.
LEMMA RemoveSlot ==
  ASSUME TypeOK, NEW k \in Used, NEW s \in 0 .. memory_tag_count - 2
  PROVE  Remove(k)[s] = memory_tags[IF s < k THEN s ELSE s + 1]
BY MaxTagsAssumption DEF Remove, TypeOK, Used, Slots

\* What mark_pages leaves of a tag is a tag, and a part of it.
LEMMA ShrunkTag ==
  ASSUME NEW tag \in Tag, NEW idx \in Nat, NEW count \in Nat,
         tag.start_index <= idx, idx <= tag.start_index + tag.length
  PROVE  /\ Shrunk(tag, idx, count) \in Tag
         /\ Shrunk(tag, idx, count).start_index >= tag.start_index
         /\ Shrunk(tag, idx, count).length > 0 =>
              Shrunk(tag, idx, count).start_index + Shrunk(tag, idx, count).length
                <= tag.start_index + tag.length
<1>1. CASE idx = tag.start_index
  BY <1>1 DEF Shrunk, Larger, Tag
<1>2. CASE idx # tag.start_index /\ idx = tag.start_index + tag.length
  BY <1>2 DEF Shrunk, Larger, Tag
<1>3. CASE idx # tag.start_index /\ idx # tag.start_index + tag.length
  BY <1>3 DEF Shrunk, Larger, Tag
<1> QED BY <1>1, <1>2, <1>3

-----------------------------------------------------------------------------
(***************************************************************************)
(* Type correctness.  The memory map keeps its order because PlaceList     *)
(* only makes an entry shorter, which the type of end_last relies on.      *)
(***************************************************************************)
MapSorted == \A a, b \in 1 .. Len(entries) :
               a < b => entries[a].base + entries[a].length <= entries[b].base

\* Where pmm_init is in the map: the entry after the previous one.
BootPosition == /\ e > 0
                /\ boot = "fit" => e = 1 /\ end_last = 0
                /\ boot = "gap" /\ e <= Len(entries) => end_last <= entries[e].base
                /\ boot = "entry" => /\ e <= Len(entries)
                                     /\ end_last = entries[e].base + entries[e].length

\* _fix_memtags is inside the list.
FixPosition == /\ op = "drop" => i <= memory_tag_count
               /\ op = "merge" => i < j /\ j <= memory_tag_count

TInv == TypeOK /\ MapSorted /\ BootPosition /\ FixPosition

\* An entry of the map has numbers for its base and length.
LEMMA EntryType ==
  ASSUME TypeOK, NEW a \in 1 .. Len(entries)
  PROVE  /\ entries[a] \in Entry
         /\ entries[a].base \in Nat /\ entries[a].length \in Nat
         /\ entries[a].usable \in BOOLEAN
<1>1. entries[a] \in Entry
  BY ElementOfSeq DEF TypeOK
<1> QED BY <1>1 DEF Entry

\* mark_pages keeps the list a list, and either runs _fix_memtags from the
\* start, leaves it alone, or panics.
LEMMA MarkPagesType ==
  ASSUME TypeOK, NEW idx \in Nat, NEW count \in Nat, MarkPages(idx, count)
  PROVE  /\ memory_tags' \in [Slots -> Tag]
         /\ memory_tag_count' = memory_tag_count
         /\ \/ UNCHANGED fixVars
            \/ BeginFix
            \/ Panic
<1>1. CASE /\ \A k \in Used : ~Touches(k, idx)
           /\ UNCHANGED <<memory_tags, fixVars>>
  BY <1>1 DEF MarkPages, TypeOK
<1>2. ASSUME NEW k \in Used, FirstTouching(k, idx),
             IF NeedsSplit(memory_tags[k], idx, count)
               THEN Panic /\ UNCHANGED memory_tags
               ELSE /\ memory_tags' =
                         [memory_tags EXCEPT ![k] = Shrunk(memory_tags[k], idx, count)]
                    /\ BeginFix
      PROVE  memory_tags' \in [Slots -> Tag] /\ (BeginFix \/ Panic)
  <2>1. k \in Slots /\ memory_tags[k] \in Tag
    BY MaxTagsAssumption DEF TypeOK, Used, Slots
  <2>2. Shrunk(memory_tags[k], idx, count) \in Tag
    BY <1>2, <2>1, ShrunkTag DEF FirstTouching, Touches, TagEnd
  <2> QED BY <1>2, <2>1, <2>2 DEF TypeOK
<1> QED BY <1>1, <1>2 DEF MarkPages

\* free_pages keeps the list a list of at most MAX_TAGS tags.
LEMMA FreePagesType ==
  ASSUME TypeOK, NEW idx \in Nat, NEW count \in Nat, FreePages(idx, count)
  PROVE  /\ memory_tags' \in [Slots -> Tag]
         /\ memory_tag_count' \in 0 .. MaxTags
         /\ \/ Panic /\ UNCHANGED tagVars
            \/ BeginFix
<1>1. CASE memory_tag_count >= MaxTags
  BY <1>1 DEF FreePages, TypeOK, tagVars
<1>2. CASE memory_tag_count < MaxTags
  <2>1. [start_index |-> idx, length |-> count] \in Tag
    BY DEF Tag
  <2>2. memory_tag_count \in Slots
    BY <1>2, MaxTagsAssumption DEF TypeOK, Slots
  <2> QED BY <1>2, <2>1, <2>2, MaxTagsAssumption DEF FreePages, NewTag, TypeOK
<1> QED BY <1>1, <1>2, MaxTagsAssumption DEF TypeOK

\* After a call the locals of _fix_memtags have their types and positions.
LEMMA CallType ==
  ASSUME TypeOK, FixPosition, memory_tag_count' \in Nat,
         \/ UNCHANGED <<fixVars, memory_tag_count>>
         \/ BeginFix
         \/ Panic
  PROVE  /\ op' \in {"idle", "drop", "merge", "endless", "panic"}
         /\ i' \in Nat /\ j' \in Nat /\ changes' \in BOOLEAN
         /\ FixPosition'
<1>1. CASE UNCHANGED <<fixVars, memory_tag_count>>
  BY <1>1 DEF TypeOK, FixPosition, fixVars
<1>2. CASE BeginFix
  <2>1. changes' \in BOOLEAN
    BY <1>2, Zenon DEF BeginFix
  <2> QED BY <1>2, <2>1 DEF BeginFix, FixPosition
<1>3. CASE Panic
  BY <1>3 DEF Panic, TypeOK, FixPosition
<1> QED BY <1>1, <1>2, <1>3

\* The list is empty at first, and the memory map is sorted.
THEOREM InitTInv == Init => TInv
<1> SUFFICES ASSUME Init PROVE TInv
  OBVIOUS
<1>1. entries \in Seq(Entry) /\ MapSorted
  BY MemoryMapsAssumption DEF Init, MapSorted
<1>2. memory_tags \in [Slots -> Tag]
  BY DEF Init, Tag, NoTag
<1>3. TypeOK
  <2>1. changes \in BOOLEAN
    BY Zenon DEF Init
  <2>2. list_at \in Nat \cup {Unplaced} /\ held \subseteq Frames
    BY Zenon DEF Init
  <2> QED BY <1>1, <1>2, <2>1, <2>2, MaxTagsAssumption DEF Init, TypeOK
<1>4. BootPosition /\ FixPosition
  BY DEF Init, BootPosition, FixPosition
<1> QED BY <1>1, <1>3, <1>4 DEF TInv

\* The steps of _fix_memtags.
LEMMA FixTInv == TInv /\ FixMemtags => TInv'
<1> SUFFICES ASSUME TInv, FixMemtags PROVE TInv'
  OBVIOUS
<1> USE DEF TInv
<1>0. UNCHANGED <<bootVars, held>>
  BY DEF FixMemtags, DropEmpty, KeepTag, BeginMerge, Merge, SkipPair, NextRow, EndPass
<1>1. MapSorted' /\ BootPosition'
  BY <1>0 DEF MapSorted, BootPosition, bootVars
<1>2. TypeOK' /\ FixPosition'
  <2>1. CASE DropEmpty
    <3>1. i \in Slots
      BY <2>1, MaxTagsAssumption DEF DropEmpty, TypeOK, Slots
    <3>2. memory_tags' \in [Slots -> Tag]
      BY <2>1, <3>1, RemoveType DEF DropEmpty, TypeOK
    <3> QED BY <2>1, <3>2, <1>0, MaxTagsAssumption
            DEF DropEmpty, TypeOK, FixPosition, bootVars
  <2>2. CASE KeepTag
    BY <2>2, <1>0, MaxTagsAssumption DEF KeepTag, TypeOK, FixPosition, tagVars, bootVars
  <2>3. CASE BeginMerge
    BY <2>3, <1>0, MaxTagsAssumption DEF BeginMerge, TypeOK, FixPosition, tagVars, bootVars
  <2>4. CASE Merge
    <3>1. i \in Slots /\ j \in Slots /\ i < j
      BY <2>4, MaxTagsAssumption DEF Merge, TypeOK, FixPosition, Slots
    <3>2. Remove(j) \in [Slots -> Tag]
      BY <3>1, RemoveType DEF TypeOK
    <3>3. memory_tags[i] \in Tag /\ memory_tags[j] \in Tag
      BY <3>1 DEF TypeOK
    <3>4. Merged(i, j) \in Tag
      BY <3>3 DEF Tag, Larger, TagEnd, Merged
    <3>5. memory_tags' \in [Slots -> Tag]
      BY <2>4, <3>2, <3>4 DEF Merge
    <3> QED BY <2>4, <3>1, <3>5, <1>0, MaxTagsAssumption
            DEF Merge, TypeOK, FixPosition, bootVars
  <2>5. CASE SkipPair
    BY <2>5, <1>0, MaxTagsAssumption DEF SkipPair, TypeOK, FixPosition, tagVars, bootVars
  <2>6. CASE NextRow
    BY <2>6, <1>0, MaxTagsAssumption DEF NextRow, TypeOK, FixPosition, tagVars, bootVars
  <2>7. CASE EndPass
    <3>1. /\ op' \in {"drop", "idle"} /\ i' = 0 /\ j' = 0
          /\ changes' \in BOOLEAN
          /\ UNCHANGED <<memory_tags, memory_tag_count>>
      BY <2>7 DEF EndPass, BeginFix, TypeOK, tagVars
    <3> QED BY <3>1, <1>0, MaxTagsAssumption DEF TypeOK, FixPosition, bootVars
  <2> QED BY <2>1, <2>2, <2>3, <2>4, <2>5, <2>6, <2>7 DEF FixMemtags
<1> QED BY <1>1, <1>2

\* The steps of pmm_init and vmm_init.
LEMMA BootTInv == TInv /\ Boot => TInv'
<1> SUFFICES ASSUME TInv, Boot PROVE TInv'
  OBVIOUS
<1> USE DEF TInv
<1>0. \A a \in 1 .. Len(entries) : entries[a].base \in Nat /\ entries[a].length \in Nat
  BY EntryType
<1>1. CASE PlaceList
  <2>1. ASSUME NEW a \in 1 .. Len(entries), FirstFit(a),
               entries' = [entries EXCEPT ![a].length = @ - ListPages],
               list_at' = entries[a].base + entries[a].length - ListPages,
               boot' = "gap", UNCHANGED fixVars, UNCHANGED <<tagVars, e, end_last, held>>
        PROVE  TInv'
    <3>1. entries[a] \in Entry /\ entries[a].length >= ListPages
      BY <2>1, EntryType DEF FirstFit
    <3>2. [entries[a] EXCEPT !.length = @ - ListPages] \in Entry
      BY <3>1 DEF Entry, ListPages
    <3>3. /\ entries' \in Seq(Entry)
          /\ Len(entries') = Len(entries)
          /\ \A b \in 1 .. Len(entries) :
               entries'[b] = IF b = a THEN [entries[a] EXCEPT !.length = @ - ListPages]
                                      ELSE entries[b]
      BY <2>1, <3>2, ExceptSeq DEF TypeOK
    <3>4. \A b \in 1 .. Len(entries) : /\ entries'[b].base = entries[b].base
                                       /\ entries'[b].length \in Nat
                                       /\ entries'[b].length <= entries[b].length
      <4> SUFFICES ASSUME NEW b \in 1 .. Len(entries)
                   PROVE  /\ entries'[b].base = entries[b].base
                          /\ entries'[b].length \in Nat
                          /\ entries'[b].length <= entries[b].length
        OBVIOUS
      <4>1. CASE b = a
        <5>1. entries'[b] = [entries[a] EXCEPT !.length = @ - ListPages]
          BY <4>1, <3>3
        <5> QED BY <4>1, <5>1, <3>1 DEF Entry, ListPages
      <4>2. CASE b # a
        BY <4>2, <1>0, <3>3
      <4> QED BY <4>1, <4>2
    <3>5. MapSorted'
      <4> SUFFICES ASSUME NEW b \in 1 .. Len(entries), NEW d \in 1 .. Len(entries), b < d
                   PROVE  entries'[b].base + entries'[b].length <= entries'[d].base
        BY <3>3 DEF MapSorted
      <4>1. entries[b].base + entries[b].length <= entries[d].base
        BY DEF MapSorted
      <4> QED BY <1>0, <3>4, <4>1
    <3>6. list_at' \in Nat
      BY <2>1, <3>1 DEF Entry, ListPages
    <3>7. TypeOK' /\ FixPosition'
      BY <2>1, <3>3, <3>6 DEF TypeOK, FixPosition, fixVars, tagVars
    <3>8. BootPosition'
      BY <1>1, <2>1, <1>0, <3>3, <3>4 DEF BootPosition, PlaceList, TypeOK
    <3> QED BY <3>5, <3>7, <3>8
  <2>2. CASE Panic /\ UNCHANGED <<boot, entries, list_at>>
    BY <1>1, <2>2 DEF PlaceList, Panic, TypeOK, MapSorted, BootPosition, FixPosition, tagVars
  <2> QED BY <1>1, <2>1, <2>2 DEF PlaceList
<1>2. CASE MarkGap
  <2>1. e \in 1 .. Len(entries)
    BY <1>2 DEF MarkGap, BootPosition, TypeOK
  <2>2. end_last \in Nat /\ entries[e].base - end_last \in Nat
    BY <1>2, <1>0, <2>1 DEF MarkGap, BootPosition, TypeOK
  <2>3. /\ memory_tags' \in [Slots -> Tag] /\ memory_tag_count' = memory_tag_count
        /\ UNCHANGED fixVars \/ BeginFix \/ Panic
    BY <1>2, <2>2, MarkPagesType DEF MarkGap, tagVars, TypeOK
  <2>4. MapSorted' /\ BootPosition'
    BY <1>2, <2>1 DEF MarkGap, MapSorted, BootPosition
  <2>5. TypeOK' /\ FixPosition'
    BY <1>2, <1>0, <2>1, <2>3, CallType DEF MarkGap, TypeOK
  <2> QED BY <2>4, <2>5
<1>3. CASE AddEntry
  <2>1. e \in 1 .. Len(entries)
    BY <1>3 DEF AddEntry, BootPosition, TypeOK
  <2>2. entries[e].base \in Nat /\ entries[e].length \in Nat
    BY <1>0, <2>1
  <2>3. /\ memory_tags' \in [Slots -> Tag] /\ memory_tag_count' \in 0 .. MaxTags
        /\ UNCHANGED <<fixVars, memory_tag_count>> \/ BeginFix \/ Panic
    BY <1>3, <2>2, MarkPagesType, FreePagesType DEF AddEntry, tagVars, TypeOK
  <2>4. MapSorted' /\ BootPosition'
    BY <1>3, <1>0, <2>1 DEF AddEntry, MapSorted, BootPosition, TypeOK
  <2>5. TypeOK' /\ FixPosition'
    BY <1>3, <1>0, <2>1, <2>3, MaxTagsAssumption, CallType DEF AddEntry, TypeOK
  <2> QED BY <2>4, <2>5
<1>4. CASE EndOfMap
  BY <1>4 DEF EndOfMap, TypeOK, MapSorted, BootPosition, FixPosition, tagVars, fixVars
<1>5. CASE VmmInit
  <2>1. PICK a \in 1 .. Len(entries) :
          \E cr3 \in Block(entries[a].base, entries[a].length) : MarkPages(cr3, 1)
    BY <1>5 DEF VmmInit
  <2>2. PICK cr3 \in Nat : MarkPages(cr3, 1)
    BY <2>1, <1>0 DEF Block
  <2>3. /\ memory_tags' \in [Slots -> Tag] /\ memory_tag_count' = memory_tag_count
        /\ UNCHANGED fixVars \/ BeginFix \/ Panic
    BY <2>2, MarkPagesType
  <2>4. MapSorted' /\ BootPosition'
    BY <1>5 DEF VmmInit, MapSorted, BootPosition
  <2>5. TypeOK' /\ FixPosition'
    BY <1>5, <2>3, CallType DEF VmmInit, TypeOK
  <2> QED BY <2>4, <2>5
<1> QED BY <1>1, <1>2, <1>3, <1>4, <1>5 DEF Boot

-----------------------------------------------------------------------------
(***************************************************************************)
(* What the steps do to the frames of the list.                            *)
(***************************************************************************)

\* Tags in use have numbers for their start and length.
LEMMA UsedTag ==
  ASSUME TypeOK, NEW k \in Used
  PROVE  /\ k \in Slots /\ memory_tags[k] \in Tag
         /\ memory_tags[k].start_index \in Nat /\ memory_tags[k].length \in Nat
         /\ \A p : p \in TagFrames(k) <=> /\ p \in Int
                                          /\ memory_tags[k].start_index <= p
                                          /\ p < memory_tags[k].start_index + memory_tags[k].length
<1>1. k \in Slots /\ memory_tags[k] \in Tag
  BY MaxTagsAssumption DEF TypeOK, Used, Slots
<1>2. memory_tags[k].start_index \in Nat /\ memory_tags[k].length \in Nat
  BY <1>1 DEF Tag
<1> QED BY <1>1, <1>2 DEF TagFrames, Block

Listed(p) == \E k \in Used : p \in TagFrames(k)

\* Where tag s of the shortened list comes from, and how many tags it has.
LEMMA Shifted ==
  ASSUME TypeOK, NEW k \in Used, memory_tag_count' = memory_tag_count - 1,
         NEW s \in Used'
  PROVE  LET t == IF s < k THEN s ELSE s + 1
         IN  t \in Used /\ t # k /\ s \in 0 .. memory_tag_count - 2 /\ Remove(k)[s] = memory_tags[t]
BY RemoveSlot, MaxTagsAssumption DEF Used, TypeOK

\* Dropping a tag without frames keeps the other tags as they are.
LEMMA DropFrames ==
  ASSUME TInv, DropEmpty
  PROVE  /\ \A p : Listed(p) <=> Listed(p)'
         /\ TagsDisjoint => TagsDisjoint'
<1> USE DEF TInv
<1> DEFINE From(s) == IF s < i THEN s ELSE s + 1
<1>1. i \in Used /\ memory_tags[i].length = 0 /\ memory_tags' = Remove(i)
      /\ memory_tag_count' = memory_tag_count - 1
  BY DEF DropEmpty, TypeOK, Used
<1>2. \A s \in Used' : From(s) \in Used /\ From(s) # i /\ TagFrames(s)' = TagFrames(From(s))
  <2> TAKE s \in Used'
  <2>1. From(s) \in Used /\ From(s) # i /\ memory_tags'[s] = memory_tags[From(s)]
    BY <1>1, Shifted
  <2> QED BY <2>1 DEF TagFrames
<1>3. \A k \in Used : k # i => \E s \in Used' : From(s) = k
  <2> SUFFICES ASSUME NEW k \in Used, k # i PROVE \E s \in Used' : From(s) = k
    OBVIOUS
  <2>1. CASE k < i
    BY <1>1, <2>1 DEF Used, TypeOK
  <2>2. CASE k > i
    <3>1. k - 1 \in Used'
      BY <1>1, <2>2 DEF Used, TypeOK
    <3> WITNESS k - 1 \in Used'
    <3> QED BY <2>2, <1>1 DEF Used, TypeOK
  <2> QED BY <2>1, <2>2, <1>1 DEF Used, TypeOK
<1>4. TagFrames(i) = {}
  BY <1>1, UsedTag
<1>5. ASSUME NEW p PROVE Listed(p) <=> Listed(p)'
  BY <1>2, <1>3, <1>4 DEF Listed
<1>6. ASSUME TagsDisjoint PROVE TagsDisjoint'
  <2>1. \A k, l \in Used' : k # l => From(k) # From(l)
    BY <1>1 DEF Used, TypeOK
  <2> HIDE DEF From
  <2> QED BY <1>2, <1>6, <2>1 DEF TagsDisjoint
<1> QED BY <1>5, <1>6

\* Merging gives tag i the frames of tag j and keeps the other tags.
LEMMA MergeFrames ==
  ASSUME TInv, Merge
  PROVE  /\ \A p : Listed(p) <=> Listed(p)'
         /\ TagsDisjoint => TagsDisjoint'
<1> USE DEF TInv
<1> DEFINE From(s) == IF s < j THEN s ELSE s + 1
           start == memory_tags[i].start_index
           end == Larger(TagEnd(i), TagEnd(j))
<1>1. /\ i \in Used /\ j \in Used /\ i < j
      /\ memory_tag_count' = memory_tag_count - 1
      /\ memory_tags' = [Remove(j) EXCEPT ![i] = [start_index |-> start,
                                                  length |-> end - start]]
      /\ i \in Used' /\ i' = i
  BY DEF Merge, Merged, TypeOK, FixPosition, Used
<1>2. Remove(j) \in [Slots -> Tag]
  BY <1>1, UsedTag, RemoveType DEF TypeOK
<1>3. \A s \in Used' : s \in Slots /\ From(s) \in Used /\ From(s) # j
                       /\ (s # i => TagFrames(s)' = TagFrames(From(s)))
  <2> TAKE s \in Used'
  <2>1. From(s) \in Used /\ From(s) # j /\ Remove(j)[s] = memory_tags[From(s)]
    BY <1>1, Shifted
  <2>2. s \in Slots
    BY <1>1, MaxTagsAssumption DEF Used, Slots, TypeOK
  <2>3. s # i => memory_tags'[s] = memory_tags[From(s)]
    BY <1>1, <1>2, <2>1, <2>2
  <2> HIDE DEF From
  <2> QED BY <2>1, <2>2, <2>3 DEF TagFrames
<1>4. TagFrames(i)' = TagFrames(i) \cup TagFrames(j)
  <2>1. memory_tags'[i] = [start_index |-> start, length |-> end - start]
    BY <1>1, <1>2, UsedTag
  <2>2. TagFrames(i)' = start .. start + (end - start) - 1
    BY <1>1, <2>1 DEF TagFrames, Block
  <2>3. start <= memory_tags[j].start_index /\ memory_tags[j].start_index <= TagEnd(i)
    BY DEF Merge, Mergeable
  <2>4. /\ start \in Nat /\ memory_tags[i].length \in Nat
        /\ memory_tags[j].start_index \in Nat /\ memory_tags[j].length \in Nat
    BY <1>1, UsedTag
  <2>5. end \in Nat /\ end = IF TagEnd(i) > TagEnd(j) THEN TagEnd(i) ELSE TagEnd(j)
    BY <2>4 DEF Larger, TagEnd
  <2>6. ASSUME NEW p PROVE p \in TagFrames(i)' <=> p \in TagFrames(i) \cup TagFrames(j)
    <3>1. p \in TagFrames(i)' <=> p \in Int /\ start <= p /\ p < end
      BY <2>2, <2>4, <2>5
    <3>2. p \in TagFrames(i) <=> p \in Int /\ start <= p /\ p < TagEnd(i)
      BY <1>1, UsedTag DEF TagEnd
    <3>3. p \in TagFrames(j) <=> p \in Int /\ memory_tags[j].start_index <= p /\ p < TagEnd(j)
      BY <1>1, UsedTag DEF TagEnd
    <3>4. TagEnd(i) \in Nat /\ TagEnd(j) \in Nat
      BY <2>4 DEF TagEnd
    <3> HIDE DEF start, end
    <3> QED BY <3>1, <3>2, <3>3, <3>4, <2>3, <2>4, <2>5
  <2> QED BY <2>6
<1>5. \A k \in Used : k # i /\ k # j => \E s \in Used' : s # i /\ From(s) = k
  <2> SUFFICES ASSUME NEW k \in Used, k # i, k # j
               PROVE  \E s \in Used' : s # i /\ From(s) = k
    OBVIOUS
  <2>1. CASE k < j
    BY <1>1, <2>1 DEF Used, TypeOK
  <2>2. CASE k > j
    <3>1. k - 1 \in Used'
      BY <1>1, <2>2 DEF Used, TypeOK
    <3> WITNESS k - 1 \in Used'
    <3> QED BY <2>2, <1>1 DEF Used, TypeOK
  <2> QED BY <2>1, <2>2, <1>1 DEF Used, TypeOK
<1>6. From(i) = i
  BY <1>1
<1>7. \A k, l \in Used' : k # l => From(k) # From(l)
  BY <1>1 DEF Used, TypeOK
<1> HIDE DEF From
<1>8. ASSUME NEW p PROVE Listed(p) <=> Listed(p)'
  BY <1>1, <1>3, <1>4, <1>5 DEF Listed
<1>9. ASSUME TagsDisjoint PROVE TagsDisjoint'
  BY <1>1, <1>3, <1>4, <1>6, <1>7, <1>9 DEF TagsDisjoint
<1> QED BY <1>8, <1>9

\* No step of _fix_memtags loses or invents a frame, or puts one in two tags.
LEMMA FixFrames ==
  ASSUME TInv, FixMemtags
  PROVE  /\ \A p : Listed(p) <=> Listed(p)'
         /\ TagsDisjoint => TagsDisjoint'
<1>1. CASE DropEmpty
  BY <1>1, DropFrames
<1>2. CASE Merge
  BY <1>2, MergeFrames
<1>3. CASE UNCHANGED tagVars
  BY <1>3 DEF Listed, TagsDisjoint, Used, TagFrames, tagVars
<1> QED BY <1>1, <1>2, <1>3
        DEF FixMemtags, KeepTag, BeginMerge, SkipPair, NextRow, EndPass

\* A block within the bounds of another one is part of it.
LEMMA InnerBlock ==
  ASSUME NEW start \in Nat, NEW length \in Nat,
         NEW inner \in Nat, NEW count \in Nat,
         inner >= start, count > 0 => inner + count <= start + length
  PROVE  Block(inner, count) \subseteq Block(start, length)
  BY DEF Block

\* A page of a block is not the last page of one that lies before or behind it.
LEMMA ApartBlocks ==
  ASSUME NEW start \in Nat, NEW length \in Nat, NEW other \in Nat, NEW count \in Nat,
         NEW p \in Int, start <= p, p < start + length, count >= 1,
         start + length <= other \/ other + count <= start
  PROVE  p # other + count - 1
  OBVIOUS

\* mark_pages only takes frames away.
LEMMA MarkShrinks ==
  ASSUME TypeOK, NEW idx \in Nat, NEW count \in Nat, MarkPages(idx, count)
  PROVE  Used' = Used /\ \A k \in Used : TagFrames(k)' \subseteq TagFrames(k)
<1>1. Used' = Used
  BY DEF MarkPages, Used
<1>2. CASE UNCHANGED memory_tags
  BY <1>1, <1>2 DEF TagFrames
<1>3. ASSUME NEW h \in Used, FirstTouching(h, idx),
             memory_tags' = [memory_tags EXCEPT ![h] = Shrunk(memory_tags[h], idx, count)],
             NEW k \in Used
      PROVE  TagFrames(k)' \subseteq TagFrames(k)
  <2>1. h \in Slots /\ k \in Slots /\ memory_tags[h] \in Tag
    BY UsedTag
  <2>2. CASE k # h
    BY <1>3, <2>1, <2>2 DEF TagFrames, TypeOK
  <2>3. CASE k = h
    <3> DEFINE new == Shrunk(memory_tags[h], idx, count)
    <3>1. /\ new \in Tag
          /\ new.start_index >= memory_tags[h].start_index
          /\ new.length > 0 => new.start_index + new.length
                                 <= memory_tags[h].start_index + memory_tags[h].length
      BY <1>3, <2>1, ShrunkTag DEF FirstTouching, Touches, TagEnd
    <3>2. memory_tags'[k] = new
      BY <1>3, <2>1, <2>3 DEF TypeOK
    <3>3. TagFrames(k)' = Block(new.start_index, new.length)
      BY <3>2 DEF TagFrames
    <3>4. TagFrames(k) = Block(memory_tags[h].start_index, memory_tags[h].length)
      BY <2>3 DEF TagFrames
    <3> HIDE DEF new
    <3>5. /\ new.start_index \in Nat /\ new.length \in Nat
          /\ memory_tags[h].start_index \in Nat /\ memory_tags[h].length \in Nat
      BY <2>1, <3>1 DEF Tag
    <3>6. Block(new.start_index, new.length)
            \subseteq Block(memory_tags[h].start_index, memory_tags[h].length)
      BY <3>1, <3>5, InnerBlock
    <3> QED BY <3>3, <3>4, <3>6
  <2> QED BY <2>2, <2>3
<1> QED BY <1>1, <1>2, <1>3 DEF MarkPages

-----------------------------------------------------------------------------
(***************************************************************************)
(* The inductive invariant.                                                *)
(***************************************************************************)
Covers(a, p) == p \in Block(entries[a].base, entries[a].length)

MapInFrames == \A a \in 1 .. Len(entries) : \A p : Covers(a, p) => p \in Frames

\* The page of the list lies behind its shortened entry.
ListReserved == boot # "fit" => \A a \in 1 .. Len(entries) : ~Covers(a, list_at)

TagsUsable == \A p : Listed(p) => p \in UsableFrames

\* pmm_init adds entries in the order of their addresses, so that the frames
\* of an entry are new to the list.
BootFrames == /\ boot # "done" => held = {}
              /\ boot = "fit" => memory_tag_count = 0
              /\ boot = "gap" => \A p : Listed(p) => p < end_last
              /\ boot = "entry" => \A p : Listed(p) => p < entries[e].base

FrameInv == /\ MapInFrames /\ ListReserved
            /\ TagsUsable /\ held \subseteq UsableFrames
            /\ BootFrames
            /\ TagsDisjoint
            /\ \A p : Listed(p) => p \notin held

\* How far _fix_memtags has made the list normal: tags before i are not empty
\* in its first loop, none is in the second, and a pass of the second loop
\* that has changed nothing found no mergeable pair before (i, j).
NormalSoFar ==
  /\ op = "drop" => \A k \in Used : k < i => memory_tags[k].length > 0
  /\ op = "merge" =>
       /\ \A k \in Used : memory_tags[k].length > 0
       /\ changes \/ \A k, l \in Used : k < l /\ (k < i \/ (k = i /\ l < j)) => ~Mergeable(k, l)
  /\ IdleIsNormal

IInv == TInv /\ FrameInv /\ NormalSoFar

\* The invariant holds before pmm_init.
THEOREM InitIInv == Init => IInv
<1> SUFFICES ASSUME Init PROVE IInv
  OBVIOUS
<1>1. TInv
  BY InitTInv
<1>2. Used = {}
  BY DEF Init, Used
<1>3. MapInFrames
  BY MemoryMapsAssumption DEF Init, MapInFrames, Covers
<1>4. FrameInv
  BY <1>2, <1>3 DEF Init, FrameInv, ListReserved, TagsUsable, BootFrames, TagsDisjoint, Listed
<1>5. NormalSoFar
  BY <1>2 DEF Init, NormalSoFar, IdleIsNormal
<1> QED BY <1>1, <1>4, <1>5 DEF IInv

\* A step that leaves the map and the held frames alone and adds no frame to
\* the list keeps the frames in order.
LEMMA SameFrames ==
  ASSUME FrameInv, UNCHANGED <<bootVars, held>>,
         \A p : Listed(p)' => Listed(p),
         TagsDisjoint',
         boot = "fit" => memory_tag_count' = 0
  PROVE  FrameInv'
<1>1. MapInFrames' /\ ListReserved' /\ UsableFrames' = UsableFrames
  BY DEF FrameInv, bootVars, MapInFrames, ListReserved, Covers, UsableFrames
<1>2. TagsUsable' /\ (held \subseteq UsableFrames)'
  BY <1>1 DEF FrameInv, TagsUsable
<1>3. BootFrames'
  BY DEF FrameInv, BootFrames, bootVars
<1> QED BY <1>1, <1>2, <1>3 DEF FrameInv

\* fix_memtags never makes two tags overlap, and lists no frame that was not listed.
LEMMA FixFrameInv == TInv /\ FrameInv /\ FixMemtags => FrameInv'
<1> SUFFICES ASSUME TInv, FrameInv, FixMemtags PROVE FrameInv'
  OBVIOUS
<1>1. UNCHANGED <<bootVars, held>>
  BY DEF FixMemtags, DropEmpty, KeepTag, BeginMerge, Merge, SkipPair, NextRow, EndPass
<1>2. (\A p : Listed(p)' => Listed(p)) /\ TagsDisjoint'
  BY FixFrames DEF FrameInv
<1>3. boot = "fit" => memory_tag_count' = 0
  BY DEF FrameInv, BootFrames, TInv, TypeOK, FixPosition, tagVars, FixMemtags, DropEmpty,
         KeepTag, BeginMerge, Merge, SkipPair, NextRow, EndPass
<1> QED BY <1>1, <1>2, <1>3, SameFrames

\* What fix_memtags has passed is sorted and merged.
LEMMA FixNormal == TInv /\ NormalSoFar /\ FixMemtags => NormalSoFar'
<1> SUFFICES ASSUME TInv, NormalSoFar, FixMemtags PROVE NormalSoFar'
  OBVIOUS
<1> USE DEF TInv
<1>1. CASE DropEmpty
  <2>1. i \in Used /\ memory_tag_count' = memory_tag_count - 1 /\ memory_tags' = Remove(i)
        /\ op = "drop" /\ UNCHANGED <<op, i>>
    BY <1>1 DEF DropEmpty, TypeOK, Used
  <2>2. ASSUME NEW k \in Used', k < i PROVE memory_tags'[k].length > 0
    <3>1. k \in Used /\ memory_tags'[k] = memory_tags[k]
      BY <2>1, <2>2, Shifted
    <3> QED BY <2>1, <2>2, <3>1 DEF NormalSoFar
  <2> QED BY <2>1, <2>2 DEF NormalSoFar, IdleIsNormal
<1>2. CASE KeepTag
  <2>1. /\ op = "drop" /\ op' = op /\ i' = i + 1 /\ i \in Nat
        /\ memory_tags[i].length # 0 /\ UNCHANGED tagVars
    BY <1>2 DEF KeepTag, TypeOK
  <2>2. ASSUME NEW k \in Used, k < i + 1 PROVE memory_tags[k].length > 0
    BY <2>1, <2>2, UsedTag DEF NormalSoFar, Used
  <2> QED BY <2>1, <2>2 DEF NormalSoFar, IdleIsNormal, Used, tagVars
<1>3. CASE BeginMerge
  <2>1. \A k \in Used : memory_tags[k].length > 0
    BY <1>3 DEF BeginMerge, NormalSoFar, Used, TypeOK
  <2>2. CASE memory_tag_count = 0
    BY <1>3, <2>2 DEF BeginMerge, NormalSoFar, IdleIsNormal
  <2>3. CASE memory_tag_count # 0
    <3>1. op' = "merge" /\ i' = 0 /\ j' = 1 /\ UNCHANGED tagVars
      BY <1>3, <2>3 DEF BeginMerge
    <3>2. \A k, l \in Used' : ~(k < l /\ (k < i' \/ (k = i' /\ l < j')))
      BY <3>1 DEF Used
    <3> QED BY <2>1, <3>1, <3>2 DEF NormalSoFar, IdleIsNormal, Used, tagVars
  <2> QED BY <2>2, <2>3
<1>4. CASE Merge
  <2> DEFINE start == memory_tags[i].start_index
             end == Larger(TagEnd(i), TagEnd(j))
  <2>1. /\ i \in Used /\ j \in Used /\ i < j /\ op = "merge" /\ UNCHANGED <<op, i, j>>
        /\ memory_tag_count' = memory_tag_count - 1
        /\ memory_tags' = [Remove(j) EXCEPT ![i] = [start_index |-> start,
                                                    length |-> end - start]]
        /\ changes' = TRUE
    BY <1>4 DEF Merge, Merged, TypeOK, FixPosition, Used
  <2>2. Remove(j) \in [Slots -> Tag]
    BY <2>1, UsedTag, RemoveType DEF TypeOK
  <2>3. ASSUME NEW k \in Used' PROVE memory_tags'[k].length > 0
    <3>1. PICK t \in Used : Remove(j)[k] = memory_tags[t]
      BY <2>1, Shifted
    <3>2. k \in Slots
      BY <2>1, MaxTagsAssumption DEF Used, Slots, TypeOK
    <3>3. CASE k # i
      <4>1. memory_tags'[k] = memory_tags[t]
        BY <2>1, <2>2, <3>1, <3>2, <3>3
      <4> QED BY <2>1, <4>1 DEF NormalSoFar
    <3>4. CASE k = i
      <4>1. memory_tags'[k] = [start_index |-> start, length |-> end - start]
        BY <2>1, <2>2, <3>2, <3>4
      <4>2. memory_tags[i].length > 0
        BY <2>1 DEF NormalSoFar
      <4>3. end - start > 0
        BY <2>1, <4>2, UsedTag DEF Larger, TagEnd
      <4> QED BY <4>1, <4>3
    <3> QED BY <3>3, <3>4
  <2> QED BY <2>1, <2>3 DEF NormalSoFar, IdleIsNormal
<1>5. CASE SkipPair
  <2>1. /\ op = "merge" /\ op' = op /\ i' = i /\ j' = j + 1 /\ i \in Nat /\ j \in Nat
        /\ ~Mergeable(i, j) /\ UNCHANGED <<tagVars, changes>>
    BY <1>5 DEF SkipPair, TypeOK
  <2>2. Used' = Used /\ \A k, l : Mergeable(k, l)' <=> Mergeable(k, l)
    BY <2>1 DEF Used, Mergeable, TagEnd, tagVars
  <2>3. ASSUME NEW k \in Used, NEW l \in Used, ~changes,
               k < l /\ (k < i \/ (k = i /\ l < j + 1))
        PROVE  ~Mergeable(k, l)
    BY <2>1, <2>3 DEF NormalSoFar, Used
  <2>4. changes \/ \A k, l \in Used : k < l /\ (k < i \/ (k = i /\ l < j + 1)) => ~Mergeable(k, l)
    BY <2>3
  <2> QED BY <2>1, <2>2, <2>4 DEF NormalSoFar, IdleIsNormal, tagVars
<1>6. CASE NextRow
  <2>1. /\ op = "merge" /\ op' = op /\ i' = i + 1 /\ j' = i + 2 /\ i \in Nat /\ j \in Nat
        /\ j >= memory_tag_count /\ UNCHANGED <<tagVars, changes>>
    BY <1>6 DEF NextRow, TypeOK
  <2>2. Used' = Used /\ \A k, l : Mergeable(k, l)' <=> Mergeable(k, l)
    BY <2>1 DEF Used, Mergeable, TagEnd, tagVars
  <2>3. ASSUME NEW k \in Used, NEW l \in Used, ~changes,
               k < l /\ (k < i + 1 \/ (k = i + 1 /\ l < i + 2))
        PROVE  ~Mergeable(k, l)
    BY <2>1, <2>3 DEF NormalSoFar, Used, TypeOK
  <2>4. changes \/ \A k, l \in Used :
                     k < l /\ (k < i + 1 \/ (k = i + 1 /\ l < i + 2)) => ~Mergeable(k, l)
    BY <2>3
  <2> QED BY <2>1, <2>2, <2>4 DEF NormalSoFar, IdleIsNormal, tagVars
<1>7. CASE EndPass
  <2>1. /\ op = "merge" /\ i \in Nat /\ j >= memory_tag_count
        /\ i + 1 >= memory_tag_count - 1 /\ UNCHANGED tagVars
    BY <1>7 DEF EndPass, TypeOK
  <2>2. CASE changes
    <3>1. op' = "drop" /\ i' = 0
      BY <1>7, <2>2 DEF EndPass, BeginFix
    <3> QED BY <3>1 DEF NormalSoFar, IdleIsNormal, Used
  <2>3. CASE ~changes
    <3>1. op' = "idle"
      BY <1>7, <2>3 DEF EndPass
    <3>2. \A k, l \in Used : k < l => ~Mergeable(k, l)
      BY <2>1, <2>3 DEF NormalSoFar, Used, TypeOK
    <3>3. \A k \in Used : memory_tags[k].length > 0
      BY <2>1 DEF NormalSoFar
    <3> QED BY <2>1, <3>1, <3>2, <3>3
            DEF NormalSoFar, IdleIsNormal, Used, Mergeable, TagEnd, tagVars
  <2> QED BY <2>2, <2>3
<1> QED BY <1>1, <1>2, <1>3, <1>4, <1>5, <1>6, <1>7 DEF FixMemtags

-----------------------------------------------------------------------------
\* A call that starts from an idle allocator leaves the list to _fix_memtags,
\* leaves it alone, or panics: the list is as normal as before.
LEMMA CallNormal ==
  ASSUME NormalSoFar, op = "idle",
         UNCHANGED <<tagVars, fixVars>> \/ BeginFix \/ Panic
  PROVE  NormalSoFar'
<1>1. CASE UNCHANGED <<tagVars, fixVars>>
  BY <1>1 DEF NormalSoFar, IdleIsNormal, Used, Mergeable, TagEnd, tagVars, fixVars
<1>2. CASE BeginFix
  BY <1>2 DEF BeginFix, NormalSoFar, IdleIsNormal, Used
<1>3. CASE Panic
  BY <1>3 DEF Panic, NormalSoFar, IdleIsNormal
<1> QED BY <1>1, <1>2, <1>3

\* mark_pages only takes frames away from the list.
LEMMA MarkPagesEffect ==
  ASSUME TypeOK, NEW idx \in Nat, NEW count \in Nat, MarkPages(idx, count)
  PROVE  /\ UNCHANGED <<tagVars, fixVars>> \/ BeginFix \/ Panic
         /\ \A p : Listed(p)' => Listed(p)
         /\ TagsDisjoint => TagsDisjoint'
<1>1. Used' = Used /\ \A k \in Used : TagFrames(k)' \subseteq TagFrames(k)
  BY MarkShrinks
<1>2. (\A p : Listed(p)' => Listed(p)) /\ (TagsDisjoint => TagsDisjoint')
  BY <1>1 DEF Listed, TagsDisjoint
<1>3. UNCHANGED <<tagVars, fixVars>> \/ BeginFix \/ Panic
  BY DEF MarkPages, tagVars
<1> QED BY <1>2, <1>3

\* free_pages adds the frames of its block, which must be new to the list.
LEMMA FreePagesEffect ==
  ASSUME TypeOK, NEW idx \in Nat, NEW count \in Nat, FreePages(idx, count),
         \A p \in Block(idx, count) : ~Listed(p)
  PROVE  /\ UNCHANGED <<tagVars, fixVars>> \/ BeginFix \/ Panic
         /\ \A p : Listed(p)' <=>
              Listed(p) \/ (memory_tag_count < MaxTags /\ p \in Block(idx, count))
         /\ TagsDisjoint => TagsDisjoint'
<1>1. CASE memory_tag_count >= MaxTags
  <2>1. Panic /\ UNCHANGED tagVars /\ ~(memory_tag_count < MaxTags)
    BY <1>1, MaxTagsAssumption DEF FreePages, TypeOK
  <2>2. Used' = Used /\ \A k : TagFrames(k)' = TagFrames(k)
    BY <2>1 DEF Used, TagFrames, Block, tagVars
  <2> QED BY <2>1, <2>2 DEF Listed, TagsDisjoint
<1>2. CASE memory_tag_count < MaxTags
  <2> DEFINE n == memory_tag_count
  <2>1. /\ memory_tags' = [memory_tags EXCEPT ![n] = [start_index |-> idx, length |-> count]]
        /\ memory_tag_count' = n + 1 /\ n \in Nat /\ BeginFix
    BY <1>2, MaxTagsAssumption DEF FreePages, NewTag, TypeOK
  <2>2. n \in Slots
    BY <1>2, <2>1, MaxTagsAssumption DEF Slots
  <2>3. Used' = Used \cup {n} /\ n \notin Used
    BY <2>1 DEF Used
  <2>4. \A k \in Used : memory_tags'[k] = memory_tags[k]
    BY <2>1, <2>3 DEF TypeOK
  <2>5. memory_tags'[n] = [start_index |-> idx, length |-> count]
    BY <2>1, <2>2 DEF TypeOK
  <2> DEFINE Now(k) == Block(memory_tags'[k].start_index, memory_tags'[k].length)
  <2>6. Now(n) = Block(idx, count) /\ \A k \in Used : Now(k) = TagFrames(k)
    BY <2>4, <2>5 DEF TagFrames
  <2>7. \A k : TagFrames(k)' = Now(k)
    BY DEF TagFrames, Block
  <2> HIDE DEF n, Now
  <2>8. \A p : Listed(p)' <=> Listed(p) \/ p \in Block(idx, count)
    BY <2>3, <2>6, <2>7 DEF Listed
  <2>9. TagsDisjoint => TagsDisjoint'
    BY <2>3, <2>6, <2>7 DEF TagsDisjoint, Listed
  <2> QED BY <1>2, <2>1, <2>8, <2>9
<1> QED BY <1>1, <1>2, MaxTagsAssumption DEF TypeOK

\* The steps of pmm_init and vmm_init.
LEMMA BootFrameInv == TInv /\ FrameInv /\ NormalSoFar /\ Boot => FrameInv' /\ NormalSoFar'
<1> SUFFICES ASSUME TInv, FrameInv, NormalSoFar, Boot PROVE FrameInv' /\ NormalSoFar'
  OBVIOUS
<1> USE DEF TInv
<1>0. op = "idle" /\ \A a \in 1 .. Len(entries) : /\ entries[a].base \in Nat
                                                  /\ entries[a].length \in Nat
  BY EntryType DEF Boot, PlaceList, MarkGap, AddEntry, EndOfMap, VmmInit
<1>1. CASE PlaceList
  <2>0. memory_tag_count = 0 /\ Used' = {} /\ held = {} /\ held' = {}
        /\ memory_tag_count' = 0
    BY <1>1 DEF PlaceList, FrameInv, BootFrames, Used, tagVars
  <2>1. \A p : ~Listed(p)'
    BY <2>0 DEF Listed
  <2>2. NormalSoFar'
    BY <1>0, <1>1, CallNormal DEF PlaceList, tagVars
  <2>3. MapInFrames' /\ ListReserved' /\ boot' \in {"fit", "gap"}
    <3>1. ASSUME NEW a \in 1 .. Len(entries), FirstFit(a),
                 entries' = [entries EXCEPT ![a].length = @ - ListPages],
                 list_at' = entries[a].base + entries[a].length - ListPages,
                 boot' = "gap"
          PROVE  MapInFrames' /\ ListReserved'
      <4>1. entries[a] \in Entry /\ entries[a].length >= 1
        BY <3>1, EntryType DEF FirstFit, ListPages
      <4>2. [entries[a] EXCEPT !.length = @ - ListPages] \in Entry
        BY <4>1 DEF Entry, ListPages
      <4>3. /\ Len(entries') = Len(entries)
            /\ \A b \in 1 .. Len(entries) :
                 entries'[b] = IF b = a THEN [entries[a] EXCEPT !.length = @ - ListPages]
                                        ELSE entries[b]
        BY <3>1, <4>2, ExceptSeq DEF TypeOK
      <4>4. entries'[a].base = entries[a].base /\ entries'[a].length = entries[a].length - 1
        <5>1. entries'[a] = [entries[a] EXCEPT !.length = @ - ListPages]
          BY <4>3
        <5> QED BY <5>1, <4>1 DEF Entry, ListPages
      <4>5. ASSUME NEW b \in 1 .. Len(entries), NEW p, Covers(b, p)'
            PROVE  Covers(b, p) /\ p # list_at'
        <5>1. CASE b = a
          BY <1>0, <3>1, <4>4, <4>5, <5>1 DEF Covers, Block, ListPages
        <5>2. CASE b # a
          <6>1. entries'[b] = entries[b]
            BY <4>3, <5>2
          <6>2. Covers(b, p) /\ entries[b].base <= p /\ p < entries[b].base + entries[b].length
                /\ p \in Int
            BY <1>0, <4>5, <6>1 DEF Covers, Block
          <6>3. /\ list_at' = entries[a].base + entries[a].length - 1
                /\ entries[a].base \in Nat /\ entries[a].length \in Nat
                /\ entries[a].length >= 1
                /\ entries[b].base \in Nat /\ entries[b].length \in Nat
            BY <1>0, <3>1, <4>1 DEF ListPages
          <6>4. \/ entries[b].base + entries[b].length <= entries[a].base
                \/ entries[a].base + entries[a].length <= entries[b].base
            BY <5>2 DEF MapSorted
          <6>5. p # list_at'
            BY <6>2, <6>3, <6>4, ApartBlocks
          <6> QED BY <6>2, <6>5
        <5> QED BY <5>1, <5>2
      <4>6. MapInFrames
        BY DEF FrameInv
      <4>7. MapInFrames'
        BY <4>3, <4>5, <4>6 DEF MapInFrames
      <4>8. ListReserved'
        BY <4>3, <4>5 DEF ListReserved
      <4> QED BY <4>7, <4>8
    <3>2. CASE UNCHANGED <<boot, entries, list_at>>
      BY <1>1, <3>2 DEF PlaceList, FrameInv, MapInFrames, ListReserved, Covers
    <3> QED BY <1>1, <3>1, <3>2 DEF PlaceList
  <2>4. FrameInv'
    BY <2>0, <2>1, <2>3 DEF FrameInv, BootFrames, TagsUsable, TagsDisjoint
  <2> QED BY <2>2, <2>4
<1>2. CASE MarkGap
  <2>1. e \in 1 .. Len(entries) /\ end_last \in Nat /\ entries[e].base - end_last \in Nat
    BY <1>2, <1>0 DEF MarkGap, BootPosition, TypeOK
  <2>2. /\ UNCHANGED <<tagVars, fixVars>> \/ BeginFix \/ Panic
        /\ \A p : Listed(p)' => Listed(p)
        /\ TagsDisjoint => TagsDisjoint'
    <3>1. CASE UNCHANGED <<tagVars, fixVars>>
      BY <3>1 DEF Listed, TagsDisjoint, Used, TagFrames, tagVars
    <3>2. CASE MarkPages(end_last, entries[e].base - end_last)
      BY <2>1, <3>2, MarkPagesEffect
    <3> QED BY <1>2, <3>1, <3>2 DEF MarkGap
  <2>3. NormalSoFar'
    BY <1>0, <2>2, CallNormal
  <2>4. MapInFrames' /\ ListReserved' /\ UsableFrames' = UsableFrames /\ held' = held
    BY <1>2 DEF MarkGap, FrameInv, MapInFrames, ListReserved, Covers, UsableFrames
  <2>5. ASSUME NEW p, Listed(p)' PROVE p \in UsableFrames /\ p < entries[e].base /\ p \notin held
    <3>1. Listed(p) /\ p \in UsableFrames
      BY <2>2, <2>5 DEF FrameInv, TagsUsable
    <3>2. p < end_last /\ p \in Nat
      BY <1>2, <3>1, FramesAssumption DEF MarkGap, FrameInv, BootFrames, UsableFrames
    <3> QED BY <1>0, <2>1, <3>1, <3>2 DEF FrameInv
  <2>6. FrameInv'
    BY <1>2, <2>2, <2>4, <2>5 DEF MarkGap, FrameInv, BootFrames, TagsUsable
  <2> QED BY <2>3, <2>6
<1>3. CASE AddEntry
  <2>1. /\ e \in 1 .. Len(entries) /\ boot = "entry"
        /\ end_last = entries[e].base + entries[e].length
        /\ entries[e].base \in Nat /\ entries[e].length \in Nat
        /\ held = {} /\ held' = {} /\ boot' = "gap"
        /\ UNCHANGED <<entries, end_last, list_at>>
    BY <1>3, <1>0 DEF AddEntry, BootPosition, TypeOK, FrameInv, BootFrames
  <2>2. ASSUME NEW p, Listed(p) PROVE p \in Nat /\ p < entries[e].base
    BY <2>1, <2>2, FramesAssumption DEF FrameInv, TagsUsable, UsableFrames, BootFrames
  <2>3. /\ UNCHANGED <<tagVars, fixVars>> \/ BeginFix \/ Panic
        /\ \A p : Listed(p)' => \/ Listed(p)
                                \/ entries[e].usable /\ Covers(e, p)
        /\ TagsDisjoint => TagsDisjoint'
    <3>1. CASE entries[e].usable
      <4>1. \A p \in Block(entries[e].base, entries[e].length) : ~Listed(p)
        BY <2>1, <2>2 DEF Block
      <4>2. FreePages(entries[e].base, entries[e].length)
        BY <1>3, <3>1 DEF AddEntry
      <4> QED BY <2>1, <3>1, <4>1, <4>2, FreePagesEffect DEF Covers
    <3>2. CASE ~entries[e].usable
      <4>1. MarkPages(entries[e].base, entries[e].length)
        BY <1>3, <3>2 DEF AddEntry
      <4> QED BY <2>1, <4>1, MarkPagesEffect
    <3> QED BY <3>1, <3>2
  <2>4. NormalSoFar'
    BY <1>0, <2>3, CallNormal
  <2>5. MapInFrames' /\ ListReserved' /\ UsableFrames' = UsableFrames
    BY <2>1 DEF FrameInv, MapInFrames, ListReserved, Covers, UsableFrames
  <2>6. ASSUME NEW p, Listed(p)' PROVE p \in UsableFrames /\ p < end_last
    <3>1. CASE Listed(p)
      BY <2>1, <2>2, <3>1 DEF FrameInv, TagsUsable
    <3>2. CASE entries[e].usable /\ Covers(e, p)
      <4>1. p \in Frames /\ p # list_at
        BY <2>1, <3>2 DEF FrameInv, MapInFrames, ListReserved
      <4>2. p < end_last
        BY <2>1, <3>2 DEF Covers, Block
      <4> QED BY <2>1, <3>2, <4>1, <4>2 DEF UsableFrames, Covers
    <3> QED BY <2>3, <2>6, <3>1, <3>2
  <2>7. FrameInv'
    BY <2>1, <2>3, <2>5, <2>6 DEF FrameInv, BootFrames, TagsUsable
  <2> QED BY <2>4, <2>7
<1>4. CASE EndOfMap
  <2>1. NormalSoFar'
    BY <1>0, <1>4, CallNormal DEF EndOfMap
  <2>2. /\ \A p : Listed(p)' <=> Listed(p)
        /\ TagsDisjoint => TagsDisjoint'
    BY <1>4 DEF EndOfMap, Listed, TagsDisjoint, Used, TagFrames, tagVars
  <2>3. MapInFrames' /\ ListReserved' /\ UsableFrames' = UsableFrames /\ held' = held
    BY <1>4 DEF EndOfMap, FrameInv, MapInFrames, ListReserved, Covers, UsableFrames
  <2>4. FrameInv'
    BY <1>4, <2>2, <2>3 DEF EndOfMap, FrameInv, BootFrames, TagsUsable
  <2> QED BY <2>1, <2>4
<1>5. CASE VmmInit
  <2>1. PICK cr3 \in Nat : MarkPages(cr3, 1)
    BY <1>5, <1>0 DEF VmmInit, Block
  <2>2. /\ UNCHANGED <<tagVars, fixVars>> \/ BeginFix \/ Panic
        /\ \A p : Listed(p)' => Listed(p)
        /\ TagsDisjoint => TagsDisjoint'
    BY <2>1, MarkPagesEffect
  <2>3. NormalSoFar'
    BY <1>0, <2>2, CallNormal
  <2>4. MapInFrames' /\ ListReserved' /\ UsableFrames' = UsableFrames /\ held' = held
    BY <1>5 DEF VmmInit, FrameInv, MapInFrames, ListReserved, Covers, UsableFrames
  <2>5. FrameInv'
    BY <1>5, <2>2, <2>4 DEF VmmInit, FrameInv, BootFrames, TagsUsable
  <2> QED BY <2>3, <2>5
<1> QED BY <1>1, <1>2, <1>3, <1>4, <1>5 DEF Boot

-----------------------------------------------------------------------------
(***************************************************************************)
(* The calls of the running kernel.                                        *)
(***************************************************************************)

\* Taking count frames off the front of tag k of a normal list: mark_pages
\* finds tag k and no other, and exactly the block leaves the list.
LEMMA TakeFront ==
  ASSUME IInv, op = "idle", NEW k \in Used, NEW count \in Nat,
         count <= memory_tags[k].length,
         MarkPages(memory_tags[k].start_index, count)
  PROVE  /\ BeginFix
         /\ \A p : Listed(p)' <=> /\ Listed(p)
                                  /\ p \notin Block(memory_tags[k].start_index, count)
         /\ \A p \in Block(memory_tags[k].start_index, count) : Listed(p)
         /\ TagsDisjoint'
<1> DEFINE a == memory_tags[k].start_index
           len == memory_tags[k].length
<1> USE DEF IInv, TInv
<1>1. k \in Slots /\ a \in Nat /\ len \in Nat /\ memory_tags[k] \in Tag
  BY UsedTag
<1>2. ASSUME NEW h \in Used PROVE FirstTouching(h, a) => h = k
  <2>1. Touches(k, a)
    BY <1>1 DEF Touches, TagEnd
  <2>2. CASE h < k
    <3>1. ~Mergeable(h, k)
      BY <2>2 DEF NormalSoFar, IdleIsNormal
    <3> QED BY <3>1 DEF FirstTouching, Touches, Mergeable
  <2>3. CASE h > k
    BY <2>1, <2>3 DEF FirstTouching
  <2> QED BY <2>2, <2>3 DEF Used
<1>3. Touches(k, a)
  BY <1>1 DEF Touches, TagEnd
<1>4. /\ memory_tags' = [memory_tags EXCEPT ![k] = Shrunk(memory_tags[k], a, count)]
      /\ BeginFix
  <2>1. ~NeedsSplit(memory_tags[k], a, count)
    BY <1>1 DEF NeedsSplit
  <2> QED BY <1>2, <1>3, <2>1 DEF MarkPages
<1>5. Shrunk(memory_tags[k], a, count) = [start_index |-> a + count, length |-> len - count]
  BY <1>1 DEF Shrunk, Larger
<1>6. Used' = Used
  BY DEF MarkPages, Used
<1>7. TagFrames(k)' = TagFrames(k) \ Block(a, count)
  <2>1. memory_tags'[k] = [start_index |-> a + count, length |-> len - count]
    BY <1>1, <1>4, <1>5 DEF TypeOK
  <2>2. TagFrames(k)' = a + count .. a + count + (len - count) - 1
    BY <2>1 DEF TagFrames, Block
  <2>3. TagFrames(k) = a .. a + len - 1
    BY DEF TagFrames, Block
  <2> HIDE DEF a, len
  <2> QED BY <1>1, <2>2, <2>3 DEF Block
<1>8. \A h \in Used : h # k => TagFrames(h)' = TagFrames(h)
  BY <1>4, UsedTag DEF TagFrames, TypeOK
<1>9. Block(a, count) \subseteq TagFrames(k)
  <2> HIDE DEF a, len
  <2>1. TagFrames(k) = a .. a + len - 1
    BY DEF TagFrames, Block, a, len
  <2> QED BY <1>1, <2>1 DEF Block, len
<1> HIDE DEF a, len
<1>10. \A h \in Used : h # k => TagFrames(h) \cap TagFrames(k) = {}
  BY DEF FrameInv, TagsDisjoint
<1>11. \A p : Listed(p)' <=> Listed(p) /\ p \notin Block(a, count)
  BY <1>6, <1>7, <1>8, <1>9, <1>10 DEF Listed
<1>12. TagsDisjoint'
  BY <1>6, <1>7, <1>8 DEF FrameInv, TagsDisjoint
<1>13. \A p \in Block(a, count) : Listed(p)
  BY <1>9 DEF Listed
<1> QED BY <1>4, <1>11, <1>12, <1>13 DEF a

\* A request that takes a block out of the list keeps the invariant.
LEMMA TakeIInv ==
  ASSUME IInv, op = "idle", boot = "done", NEW k \in Used, NEW count \in Nat,
         count <= memory_tags[k].length,
         MarkPages(memory_tags[k].start_index, count),
         held' = held \cup Block(memory_tags[k].start_index, count),
         UNCHANGED bootVars
  PROVE  IInv'
<1> DEFINE B == Block(memory_tags[k].start_index, count)
<1> USE DEF IInv
<1>1. /\ BeginFix
      /\ \A p : Listed(p)' <=> Listed(p) /\ p \notin B
      /\ \A p \in B : Listed(p)
      /\ TagsDisjoint'
  BY TakeFront
<1>2. memory_tags' \in [Slots -> Tag] /\ memory_tag_count' = memory_tag_count
  BY MarkPagesType, UsedTag DEF TInv
<1> HIDE DEF B
<1>3. NormalSoFar'
  BY <1>1, CallNormal
<1>4. B \subseteq UsableFrames
  BY <1>1 DEF FrameInv, TagsUsable
<1>5. held' = held \cup B
  BY DEF B
<1>6. MapInFrames' /\ ListReserved' /\ UsableFrames' = UsableFrames
  BY DEF FrameInv, bootVars, MapInFrames, ListReserved, Covers, UsableFrames
<1>7. FrameInv'
  BY <1>1, <1>4, <1>5, <1>6 DEF FrameInv, BootFrames, TagsUsable, bootVars
<1>8. MapSorted' /\ BootPosition'
  BY DEF TInv, MapSorted, BootPosition, bootVars
<1>9. held' \subseteq Frames
  BY <1>4, <1>5 DEF FrameInv, UsableFrames
<1>10. TypeOK' /\ FixPosition'
  BY <1>1, <1>2, <1>9, CallType DEF TInv, TypeOK, bootVars
<1> QED BY <1>3, <1>7, <1>8, <1>10 DEF TInv

\* A call that panics changes nothing else.
LEMMA PanicIInv ==
  ASSUME IInv, Panic, UNCHANGED <<tagVars, bootVars, held>>
  PROVE  IInv'
<1> USE DEF IInv
<1>1. Used' = Used /\ \A k : TagFrames(k)' = TagFrames(k)
  BY DEF Used, TagFrames, Block, tagVars
<1>2. (\A p : Listed(p)' <=> Listed(p)) /\ TagsDisjoint'
  BY <1>1 DEF Listed, TagsDisjoint, FrameInv
<1>3. boot = "fit" => memory_tag_count' = 0
  BY DEF FrameInv, BootFrames, tagVars
<1>4. FrameInv'
  BY <1>2, <1>3, SameFrames
<1>5. NormalSoFar'
  BY DEF Panic, NormalSoFar, IdleIsNormal
<1>6. TInv'
  BY DEF Panic, TInv, TypeOK, MapSorted, BootPosition, FixPosition, tagVars, bootVars
<1> QED BY <1>4, <1>5, <1>6

\* A page that request_page gives out leaves the list.
LEMMA RequestPageIInv == IInv /\ RequestPage => IInv'
<1> SUFFICES ASSUME IInv, RequestPage PROVE IInv'
  OBVIOUS
<1>1. CASE memory_tag_count > 0
  <2>1. 0 \in Used /\ memory_tags[0].start_index \in Nat /\ memory_tags[0].length \in Nat
    BY <1>1, UsedTag DEF IInv, TInv, TypeOK, Used
  <2>2. memory_tags[0].length >= 1
    BY <2>1 DEF RequestPage, IInv, NormalSoFar, IdleIsNormal
  <2>3. Block(memory_tags[0].start_index, 1) = {memory_tags[0].start_index}
    BY <2>1 DEF Block
  <2> QED BY <1>1, <2>1, <2>2, <2>3, TakeIInv DEF RequestPage
<1>2. CASE ~(memory_tag_count > 0)
  BY <1>2, PanicIInv DEF RequestPage
<1> QED BY <1>1, <1>2

\* The pages that request_pages gives out leave the list.
LEMMA RequestPagesIInv ==
  ASSUME IInv, NEW count \in Counts, RequestPages(count)
  PROVE  IInv'
<1>0. count \in Nat
  BY CountsAssumption
<1>1. ASSUME NEW k \in Used, FirstOfLength(k, count),
             MarkPages(memory_tags[k].start_index, count),
             held' = held \cup Block(memory_tags[k].start_index, count)
      PROVE  IInv'
  <2>1. count <= memory_tags[k].length
    BY <1>0, <1>1, UsedTag DEF FirstOfLength, IInv, TInv
  <2> QED BY <1>0, <1>1, <2>1, TakeIInv DEF RequestPages
<1>2. CASE Panic /\ UNCHANGED <<tagVars, held>>
  BY <1>2, PanicIInv DEF RequestPages
<1> QED BY <1>1, <1>2 DEF RequestPages

\* The pages that come back are listed once.
LEMMA ReleasePagesIInv ==
  ASSUME IInv, NEW start \in Frames, NEW count \in Counts, ReleasePages(start, count)
  PROVE  IInv'
<1> DEFINE B == Block(start, count)
<1> USE DEF IInv
<1>0. count \in Nat /\ start \in Nat /\ B \subseteq held /\ boot = "done" /\ op = "idle"
  BY CountsAssumption, FramesAssumption DEF ReleasePages
<1>1. CASE memory_tag_count >= MaxTags
  BY <1>1, PanicIInv DEF ReleasePages, FreePages
<1>2. CASE memory_tag_count < MaxTags
  <2>1. \A p \in B : ~Listed(p)
    BY <1>0 DEF FrameInv
  <2>2. FreePages(start, count)
    BY DEF ReleasePages
  <2>3. /\ UNCHANGED <<tagVars, fixVars>> \/ BeginFix \/ Panic
        /\ \A p : Listed(p)' <=> Listed(p) \/ p \in B
        /\ TagsDisjoint'
    BY <1>0, <1>2, <2>1, <2>2, FreePagesEffect DEF FrameInv, TInv
  <2>4. /\ memory_tags' \in [Slots -> Tag] /\ memory_tag_count' \in 0 .. MaxTags
        /\ (Panic /\ UNCHANGED tagVars) \/ BeginFix
    BY <1>0, <2>2, FreePagesType DEF TInv
  <2>5. held' = held \ B /\ UNCHANGED bootVars
    BY <1>2, MaxTagsAssumption DEF ReleasePages, TInv, TypeOK
  <2> HIDE DEF B
  <2>6. NormalSoFar'
    BY <1>0, <2>3, CallNormal
  <2>7. MapInFrames' /\ ListReserved' /\ UsableFrames' = UsableFrames
    BY <2>5 DEF FrameInv, bootVars, MapInFrames, ListReserved, Covers, UsableFrames
  <2>8. FrameInv'
    BY <1>0, <2>3, <2>5, <2>7 DEF FrameInv, BootFrames, TagsUsable, bootVars
  <2>9. MapSorted' /\ BootPosition'
    BY <2>5 DEF TInv, MapSorted, BootPosition, bootVars
  <2>10. TypeOK' /\ FixPosition'
    BY <2>4, <2>5, MaxTagsAssumption, CallType DEF TInv, TypeOK, bootVars
  <2> QED BY <2>6, <2>8, <2>9, <2>10 DEF TInv
<1> QED BY <1>1, <1>2, MaxTagsAssumption DEF TInv, TypeOK

\* Every step keeps the invariant.
THEOREM NextIInv == IInv /\ [Next]_vars => IInv'
<1> SUFFICES ASSUME IInv, [Next]_vars PROVE IInv'
  OBVIOUS
<1>1. CASE FixMemtags
  BY <1>1, FixTInv, FixFrameInv, FixNormal DEF IInv
<1>2. CASE Boot
  BY <1>2, BootTInv, BootFrameInv DEF IInv
<1>3. CASE RequestPage
  BY <1>3, RequestPageIInv
<1>4. CASE \E count \in Counts : RequestPages(count)
  BY <1>4, RequestPagesIInv
<1>5. CASE \E start \in Frames, count \in Counts : ReleasePages(start, count)
  BY <1>5, ReleasePagesIInv
<1>6. CASE UNCHANGED vars
  <2>1. UNCHANGED <<tagVars, fixVars, bootVars, held>>
    BY <1>6 DEF vars
  <2>2. TInv'
    BY <2>1 DEF IInv, TInv, TypeOK, MapSorted, BootPosition, FixPosition,
                tagVars, fixVars, bootVars
  <2>3. Used' = Used /\ \A k : TagFrames(k)' = TagFrames(k)
    BY <2>1 DEF Used, TagFrames, Block, tagVars
  <2>4. (\A p : Listed(p)' <=> Listed(p)) /\ TagsDisjoint'
    BY <2>3 DEF Listed, TagsDisjoint, FrameInv, IInv
  <2>5. FrameInv'
    BY <2>1, <2>4, SameFrames DEF IInv, FrameInv, BootFrames, tagVars
  <2>6. NormalSoFar'
    BY <2>1 DEF IInv, NormalSoFar, IdleIsNormal, Used, Mergeable, TagEnd, tagVars, fixVars
  <2> QED BY <2>2, <2>5, <2>6 DEF IInv
<1> QED BY <1>1, <1>2, <1>3, <1>4, <1>5, <1>6 DEF Next

-----------------------------------------------------------------------------
(***************************************************************************)
(* The theorems.                                                           *)
(***************************************************************************)
LEMMA InvariantHolds == Spec => []IInv
<1>1. Init => IInv
  BY InitIInv
<1>2. IInv /\ [Next]_vars => IInv'
  BY NextIInv
<1> QED BY <1>1, <1>2, PTL DEF Spec

\* The free frames of the specification are those the list names.
LEMMA FreeIsListed == IInv => \A p : p \in FreeFrames <=> Listed(p)
BY DEF IInv, FrameInv, TagsUsable, UsableFrames, FreeFrames, Listed

\* The allocator's variables keep their types: no length goes below zero and
\* the list never exceeds MAX_TAGS (pmm.c mark_pages, free_pages).
THEOREM TypeCorrect == Spec => []TypeOK
<1>1. IInv => TypeOK
  BY DEF IInv, TInv
<1> QED BY <1>1, InvariantHolds, PTL

\* No frame is ever in two tags of the list (pmm.c _fix_memtags, free_pages).
THEOREM DisjointTags == Spec => []TagsDisjoint
<1>1. IInv => TagsDisjoint
  BY DEF IInv, FrameInv
<1> QED BY <1>1, InvariantHolds, PTL

\* A frame handed out by request_page(s) is not free until it is given back:
\* the allocator never hands out a frame that somebody holds.
THEOREM NoDoubleAllocation == Spec => []HeldNotFree
<1>1. IInv => HeldNotFree
  BY DEF IInv, FrameInv, Listed, HeldNotFree
<1> QED BY <1>1, InvariantHolds, PTL

\* Only usable memory, and never the page of the list, is handed out, for
\* every memory map the boot loader may pass to pmm_init.
THEOREM OnlyUsableMemory == Spec => []FreeIsUsable
<1>1. IInv => FreeIsUsable
  BY FreeIsListed DEF IInv, FrameInv, TagsUsable, FreeIsUsable
<1> QED BY <1>1, InvariantHolds, PTL

\* Between calls the list has no empty tag and no tag that begins in or at
\* the end of an earlier one, however often _fix_memtags had to run again.
THEOREM IdleListIsNormal == Spec => []IdleIsNormal
<1>1. IInv => IdleIsNormal
  BY DEF IInv, NormalSoFar
<1> QED BY <1>1, InvariantHolds, PTL

-----------------------------------------------------------------------------
\* A request takes a block of free frames, as the abstract allocator does.
LEMMA TakeImplements ==
  ASSUME IInv, op = "idle", boot = "done", NEW k \in Used, NEW count \in Counts,
         count <= memory_tags[k].length,
         MarkPages(memory_tags[k].start_index, count),
         held' = held \cup Block(memory_tags[k].start_index, count),
         UNCHANGED bootVars
  PROVE  Allocator!Alloc
<1> DEFINE start == memory_tags[k].start_index
<1>0. count \in Nat
  BY CountsAssumption
<1>1. /\ \A p : Listed(p)' <=> Listed(p) /\ p \notin Block(start, count)
      /\ \A p \in Block(start, count) : Listed(p)
  BY <1>0, TakeFront
<1>2. IInv'
  BY <1>0, TakeIInv
<1>3. FreeFrames' = {p \in Frames : Listed(p)'} /\ FreeFrames = {p \in Frames : Listed(p)}
  BY DEF FreeFrames, Listed
<1>4. start \in Frames
  <2>1. start \in Nat /\ memory_tags[k].length > 0
    BY UsedTag DEF IInv, TInv, NormalSoFar, IdleIsNormal
  <2>2. start \in TagFrames(k)
    BY <2>1, UsedTag DEF IInv, TInv
  <2> QED BY <2>2 DEF IInv, FrameInv, TagsUsable, UsableFrames, Listed
<1> HIDE DEF start
<1>5. Block(start, count) \subseteq FreeFrames
  BY <1>1, FreeIsListed
<1>6. FreeFrames' = FreeFrames \ Block(start, count)
  BY <1>1, <1>3
<1>7. held' = held \cup Block(start, count) /\ boot' = boot
  BY DEF start, bootVars
<1>8. Allocator!Block(start, count) = Block(start, count)
  BY DEF Allocator!Block, Block
<1> QED BY <1>4, <1>5, <1>6, <1>7, <1>8 DEF Allocator!Alloc

\* A panic changes nothing that the specification sees.
LEMMA PanicImplements ==
  ASSUME UNCHANGED <<tagVars, bootVars, held>>
  PROVE  UNCHANGED Allocator!Vars
<1>1. FreeFrames' = FreeFrames
  BY DEF FreeFrames, Used, TagFrames, Block, tagVars
<1> QED BY <1>1 DEF Allocator!Vars, bootVars

\* Every step of the code is a step of the abstract allocator or none.
LEMMA NextImplements == IInv /\ [Next]_vars => [Allocator!Next]_(Allocator!Vars)
<1> SUFFICES ASSUME IInv, [Next]_vars PROVE [Allocator!Next]_(Allocator!Vars)
  OBVIOUS
<1>0. FreeFrames' = {p \in Frames : Listed(p)'} /\ FreeFrames = {p \in Frames : Listed(p)}
  BY DEF FreeFrames, Listed
<1>1. CASE FixMemtags
  <2>1. FreeFrames' = FreeFrames
    BY <1>0, <1>1, FixFrames DEF IInv
  <2>2. UNCHANGED <<bootVars, held>>
    BY <1>1 DEF FixMemtags, DropEmpty, KeepTag, BeginMerge, Merge, SkipPair, NextRow, EndPass
  <2> QED BY <2>1, <2>2 DEF Allocator!Vars, bootVars
<1>2. CASE Boot
  <2>1. boot # "done" /\ held' = held
    BY <1>2 DEF Boot, PlaceList, MarkGap, AddEntry, EndOfMap, VmmInit
  <2>2. FreeFrames' \subseteq Frames
    BY <1>0
  <2> QED BY <2>1, <2>2 DEF Allocator!Next, Allocator!Seed
<1>3. CASE RequestPage
  <2>1. CASE memory_tag_count > 0
    <3>1. 0 \in Used /\ memory_tags[0].start_index \in Nat /\ memory_tags[0].length \in Nat
      BY <2>1, UsedTag DEF IInv, TInv, TypeOK, Used
    <3>2. memory_tags[0].length >= 1
      BY <1>3, <3>1 DEF RequestPage, IInv, NormalSoFar, IdleIsNormal
    <3>3. Block(memory_tags[0].start_index, 1) = {memory_tags[0].start_index}
      BY <3>1 DEF Block
    <3>4. Allocator!Alloc
      BY <1>3, <2>1, <3>1, <3>2, <3>3, TakeImplements, CountsAssumption DEF RequestPage
    <3> QED BY <3>4 DEF Allocator!Next
  <2>2. CASE ~(memory_tag_count > 0)
    BY <1>3, <2>2, PanicImplements DEF RequestPage
  <2> QED BY <2>1, <2>2
<1>4. ASSUME NEW count \in Counts, RequestPages(count)
      PROVE  [Allocator!Next]_(Allocator!Vars)
  <2>1. ASSUME NEW k \in Used, FirstOfLength(k, count),
               MarkPages(memory_tags[k].start_index, count),
               held' = held \cup Block(memory_tags[k].start_index, count)
        PROVE  [Allocator!Next]_(Allocator!Vars)
    <3>1. count <= memory_tags[k].length
      BY <2>1, CountsAssumption, UsedTag DEF FirstOfLength, IInv, TInv
    <3>2. Allocator!Alloc
      BY <1>4, <2>1, <3>1, TakeImplements DEF RequestPages
    <3> QED BY <3>2 DEF Allocator!Next
  <2>2. CASE Panic /\ UNCHANGED <<tagVars, held>>
    BY <1>4, <2>2, PanicImplements DEF RequestPages
  <2> QED BY <1>4, <2>1, <2>2 DEF RequestPages
<1>5. ASSUME NEW start \in Frames, NEW count \in Counts, ReleasePages(start, count)
      PROVE  [Allocator!Next]_(Allocator!Vars)
  <2>0. /\ count \in Nat /\ start \in Nat /\ Block(start, count) \subseteq held
        /\ boot = "done" /\ boot' = boot /\ FreePages(start, count)
    BY <1>5, CountsAssumption, FramesAssumption DEF ReleasePages, bootVars
  <2>1. CASE memory_tag_count >= MaxTags
    BY <1>5, <2>1, PanicImplements DEF ReleasePages, FreePages
  <2>2. CASE memory_tag_count < MaxTags
    <3>1. \A p \in Block(start, count) : ~Listed(p)
      BY <2>0 DEF IInv, FrameInv
    <3>2. \A p : Listed(p)' <=> Listed(p) \/ p \in Block(start, count)
      BY <2>0, <2>2, <3>1, FreePagesEffect DEF IInv, TInv
    <3>3. Block(start, count) \subseteq Frames
      BY <2>0 DEF IInv, FrameInv, UsableFrames
    <3>4. FreeFrames' = FreeFrames \cup Block(start, count)
      BY <1>0, <3>2, <3>3
    <3>5. held' = held \ Block(start, count)
      BY <1>5, <2>2, MaxTagsAssumption DEF ReleasePages, IInv, TInv, TypeOK
    <3>6. Allocator!Block(start, count) = Block(start, count)
      BY DEF Allocator!Block, Block
    <3>7. Allocator!Free
      BY <2>0, <3>4, <3>5, <3>6 DEF Allocator!Free
    <3> QED BY <3>7 DEF Allocator!Next
  <2> QED BY <2>1, <2>2, MaxTagsAssumption DEF IInv, TInv, TypeOK
<1>6. CASE UNCHANGED vars
  BY <1>6, PanicImplements DEF vars
<1> QED BY <1>1, <1>2, <1>3, <1>4, <1>5, <1>6 DEF Next

\* The tag list of pmm.c implements a set of free frames: after boot each
\* request takes exactly one block of free frames, each release gives exactly
\* its block back, and _fix_memtags changes nothing a caller can see.
THEOREM ImplementsAllocator == Spec => AllocatorSpec
<1>1. Init => Allocator!Init
  BY DEF Init, Allocator!Init, FreeFrames, Used
<1>2. IInv /\ [Next]_vars => [Allocator!Next]_(Allocator!Vars)
  BY NextImplements
<1> QED BY <1>1, <1>2, InvariantHolds, PTL DEF Spec, Allocator!Spec, AllocatorSpec
=============================================================================
