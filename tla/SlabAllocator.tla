--------------------------- MODULE SlabAllocator ----------------------------
(***************************************************************************)
(* The memory of the hot tier's bodies: mapped regions of equal slots, one *)
(* family of regions for each size class, with the heap for what no slot   *)
(* takes.                                                                  *)
(*                                                                         *)
(* Source: internal/storage/slab_linux.go.                                 *)
(*                                                                         *)
(* A slot is known by its class, its region and its index there.  The      *)
(* bytes in it are those of one object, whose version stands for them.     *)
(* Sizes, capacities and classes are the code's numbers.                   *)
(***************************************************************************)
EXTENDS Integers, SequencesExt, FiniteSetsExt

CONSTANTS
  SlotsPerRegion,
  MaxRegions       \* regions of a class

ASSUME SlabAssumption == {SlotsPerRegion, MaxRegions} \subseteq Nat \ {0}

VARIABLE slab      \* per class: its regions, and the one last allocated from

NumSlabClasses == 7
SlabClasses == 0..(NumSlabClasses - 1)
SlabHeaderSize == 8
SlotSize(class) == 2^(8 + 2 * class)

Heap == <<>>
Slots == SlabClasses \X (1..MaxRegions) \X (1..SlotsPerRegion)
Offsets == 1..SlotsPerRegion

\* bump counts the slots handed out so far, free has those given back, magic
\* is where the header of a slot in use stands, bytes what is in each.
Regions ==
  [bump : 0..SlotsPerRegion, free : Seq(Offsets), magic : SUBSET Offsets, bytes : [Offsets -> Nat]]
NewRegion == [bump |-> 0, free |-> <<>>, magic |-> {}, bytes |-> [o \in Offsets |-> 0]]

SlabTypeOK ==
  \A class \in SlabClasses :
    /\ slab[class].regions \in Seq(Regions)
    /\ slab[class].hint \in 1..MaxRegions

SlabInit == slab = [class \in SlabClasses |-> [regions |-> <<>>, hint |-> 1]]

-----------------------------------------------------------------------------
(* Size classes.                                                           *)

\* bits.Len64.
BitLen(n) == Cardinality({b \in 0..20 : 2^b <= n})
ClassOfTotal(total) == (BitLen(total - 1) + 1) \div 2 - 4

\* slabClass: the class for a body of that size, or -1.
SlabClass(size) ==
  LET total == size + SlabHeaderSize
  IN IF total > SlotSize(NumSlabClasses - 1) THEN -1 ELSE Max({0, ClassOfTotal(total)})

\* classFromCap: the class of a buffer, told by its capacity, or -1.
ClassFromCap(cap) ==
  LET total == cap + SlabHeaderSize
      class == ClassOfTotal(total)
  IN IF cap > 0 /\ class \in SlabClasses /\ SlotSize(class) = total THEN class ELSE -1

-----------------------------------------------------------------------------
(* Allocation and release.                                                 *)

HasSlot(region) == region.bump < SlotsPerRegion \/ region.free # <<>>

\* The regions of a class in the order they are tried, from the hint on.
Tried(cs) ==
  LET n == Len(cs.regions) IN [j \in 1..n |-> 1 + ((cs.hint + j - 2) % n)]

\* allocFromRegion: a slot never handed out, or the one last given back.
OffsetIn(region) == IF region.bump < SlotsPerRegion THEN region.bump + 1 ELSE Last(region.free)
TakeSlot(region, ver) ==
  LET off == OffsetIn(region)
  IN [bump  |-> IF region.bump < SlotsPerRegion THEN off ELSE region.bump,
      free  |-> IF region.bump < SlotsPerRegion THEN region.free ELSE Front(region.free),
      magic |-> region.magic \union {off},
      bytes |-> [region.bytes EXCEPT ![off] = ver]]

\* Alloc, and the copy of the object's bytes into what it returned: the first
\* region with a slot, or one more region if there may be one and it can be
\* mapped, or the heap.
Alloc(size, ver, mapped) ==
  LET class == SlabClass(size)
      cs == IF class = -1 THEN [regions |-> <<>>, hint |-> 1] ELSE slab[class]
      open == SelectSeq(Tried(cs), LAMBDA i : HasSlot(cs.regions[i]))
      grown == IF open = <<>> /\ mapped THEN Append(cs.regions, NewRegion) ELSE cs.regions
      i == IF open = <<>> THEN Len(grown) ELSE Head(open)
  IN IF class = -1 \/ (open = <<>> /\ (~mapped \/ Len(cs.regions) >= MaxRegions))
     THEN [slab |-> slab, body |-> [at |-> Heap, cap |-> size]]
     ELSE [slab |-> [slab EXCEPT ![class] =
                       [regions |-> [grown EXCEPT ![i] = TakeSlot(@, ver)], hint |-> i]],
           body |-> [at |-> <<class, i, OffsetIn(grown[i])>>,
                     cap |-> SlotSize(class) - SlabHeaderSize]]

\* freeSlot: a slot whose header is gone was freed already.
FreeSlot(region, off) ==
  IF off \notin region.magic THEN region
  ELSE [region EXCEPT !.magic = @ \ {off}, !.free = Append(@, off)]

\* classifyBodies and sortFreeEntries: what FreeBatch takes for slab buffers,
\* by the class it takes them to be of.
Classified(bodies) ==
  [class \in SlabClasses |-> SelectSeq(bodies, LAMBDA b : ClassFromCap(b.cap) = class)]

\* freeGroupedEntries, of one class: a buffer in none of the class's regions
\* is none of its slots.
FreeGroup(class, bodies) ==
  LET Give(cs, b) ==
        IF b.at = Heap \/ b.at[1] # class THEN cs
        ELSE [cs EXCEPT !.regions[b.at[2]] = FreeSlot(@, b.at[3])]
  IN FoldLeft(Give, slab[class], Classified(bodies)[class])

\* The bytes at a slot.
BytesAt(slot) == slab[slot[1]].regions[slot[2]].bytes[slot[3]]
=============================================================================
