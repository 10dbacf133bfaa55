----------------------------- MODULE DmaLayout -----------------------------
(***************************************************************************)
(* Where a virtqueue's three areas lie.  VirtIoQueue computes the offsets  *)
(* and the size of the memory it asks for; the HAL of the test kernel      *)
(* hands out pages from DMA_PADDR upwards; a modern device is told three   *)
(* addresses, a legacy device only a page number, from which it works out  *)
(* the areas by itself.                                                    *)
(***************************************************************************)
EXTENDS Integers, FiniteSets

CONSTANTS
  BASE,       \* the linker's `end`, where DMA memory begins
  Sizes,      \* SIZE of the queues that are made
  BufLens,    \* lengths passed to dma_alloc_buf
  MaxRegions  \* bound on the number of allocations

PAGE_SIZE == 4096

ASSUME BaseAssumption == BASE \in Nat /\ BASE % PAGE_SIZE = 0
\* VirtIoQueue::new refuses a SIZE that is not a power of two; no driver has a
\* queue of one descriptor.
ASSUME SizesAssumption == Sizes \subseteq {n \in Nat : n > 0 /\ n % 2 = 0}
ASSUME BufLensAssumption == BufLens \subseteq Nat \ {0}
ASSUME MaxRegionsAssumption == MaxRegions \in Nat

VARIABLES
  DMA_PADDR,  \* the next free address
  regions     \* what has been handed out; `queue` is SIZE, or 0 for a buffer

layout == <<DMA_PADDR, regions>>

-----------------------------------------------------------------------------
(* lib.rs and queue.rs *)

pages(size) == (size + PAGE_SIZE - 1) \div PAGE_SIZE

\* Mutant of align_up: rounds down.
align_down(size) == (size \div PAGE_SIZE) * PAGE_SIZE

\* (size + PAGE_SIZE) & !(PAGE_SIZE - 1), which makes 8192 of 4096
align_up(size) == ((size + PAGE_SIZE) \div PAGE_SIZE) * PAGE_SIZE

\* size_of::<Descriptor>() * SIZE
TableSize(n) == 16 * n

\* size_of::<AvailRing<SIZE>>(): flags, idx, ring and used_event
AvailSize(n) == 2 + 2 + 2 * n + 2

\* size_of::<UsedRing<SIZE>>(): flags, idx, ring and avail_event, and the
\* padding that its alignment of 4 asks for
UsedSize(n) == 2 + 2 + 8 * n + 2 + 2

AVAIL_RING_OFFSET(n) == TableSize(n)

\* Mutant of USED_RING_OFFSET: the used ring follows the table's page.
USED_RING_OFFSET_table(n) == align_up(TableSize(n))

USED_RING_OFFSET(n) == align_up(TableSize(n) + AvailSize(n))

total_size(n) == align_up(TableSize(n) + AvailSize(n)) + align_up(UsedSize(n))

-----------------------------------------------------------------------------
(* The HAL of the test kernel *)

LayoutInit == DMA_PADDR = BASE /\ regions = {}

\* Mutant of DmaAlloc: one page is handed out whatever was asked for.
DmaAllocPage(n, count) ==
  /\ Cardinality(regions) < MaxRegions
  /\ regions' = regions \cup
       {[base |-> DMA_PADDR, size |-> PAGE_SIZE * count, queue |-> n]}
  /\ DMA_PADDR' = DMA_PADDR + PAGE_SIZE

\* DMA_PADDR.fetch_add(PAGE_SIZE * pages); a Page is never given back.
DmaAlloc(n, count) ==
  /\ Cardinality(regions) < MaxRegions
  /\ regions' = regions \cup
       {[base |-> DMA_PADDR, size |-> PAGE_SIZE * count, queue |-> n]}
  /\ DMA_PADDR' = DMA_PADDR + PAGE_SIZE * count

dma_alloc(n) == DmaAlloc(n, pages(total_size(n)))

dma_alloc_buf(len) == DmaAlloc(0, pages(len))

LayoutNext ==
  \/ \E n \in Sizes : dma_alloc(n)
  \/ \E len \in BufLens : dma_alloc_buf(len)

LayoutSpec == LayoutInit /\ [][LayoutNext]_layout

-----------------------------------------------------------------------------
(* A legacy device (external): it is given pfn = descriptors / PAGE_SIZE and *)
(* queue_align = PAGE_SIZE, and rounds up to the next multiple.             *)

RoundUp(x) == ((x + PAGE_SIZE - 1) \div PAGE_SIZE) * PAGE_SIZE
LegacyTable(r) == (r.base \div PAGE_SIZE) * PAGE_SIZE
LegacyAvail(r) == LegacyTable(r) + 16 * r.queue
LegacyUsed(r) == RoundUp(LegacyAvail(r) + 2 * (3 + r.queue))

-----------------------------------------------------------------------------
(* Properties *)

QueueRegions == {r \in regions : r.queue # 0}

TypeOK ==
  /\ DMA_PADDR \in Nat
  /\ \A r \in regions : r.base \in Nat /\ r.size \in Nat /\ r.queue \in Sizes \cup {0}

\* No two allocations overlap, and none is empty.
RegionsDisjoint ==
  /\ \A r \in regions : r.size > 0 /\ r.base + r.size <= DMA_PADDR
  /\ \A r, s \in regions :
       r # s => (r.base + r.size <= s.base \/ s.base + s.size <= r.base)

\* The descriptor table, the available ring and the used ring of a queue do not
\* overlap and end within the memory that VirtIoQueue::new asked for.
AreasFit ==
  \A r \in QueueRegions :
    /\ AVAIL_RING_OFFSET(r.queue) >= TableSize(r.queue)
    /\ USED_RING_OFFSET(r.queue) >= AVAIL_RING_OFFSET(r.queue) + AvailSize(r.queue)
    /\ USED_RING_OFFSET(r.queue) + UsedSize(r.queue) <= r.size

\* A legacy device finds the areas where the driver put them, although align_up
\* rounds a multiple of the page size up: no queue's rings end on a page
\* boundary.
LegacyDeviceAgrees ==
  \A r \in QueueRegions :
    /\ LegacyTable(r) = r.base
    /\ LegacyAvail(r) = r.base + AVAIL_RING_OFFSET(r.queue)
    /\ LegacyUsed(r) = r.base + USED_RING_OFFSET(r.queue)

=============================================================================
