-------------------------------- MODULE Heap --------------------------------
(***************************************************************************)
(* The kernel heap of 22-os/heap/heap.cpp: kmalloc and kfree over segments *)
(* of one page each, with first fit, splitting and coalescing.             *)
(*                                                                         *)
(* A segment is the list of its blocks in the order of their next links,   *)
(* each with the offset of its header in the page; prev is the neighbour   *)
(* on the other side.  Addresses are (page, offset).  Request sizes are    *)
(* words of width 2^w = WordSize, as uint32_t in the code.                 *)
(***************************************************************************)
EXTENDS Integers, Sequences, FiniteSets, FiniteSetsExt

CONSTANTS
    PageSize,       \* PAGE_SIZE_BYTES
    HeaderSize,     \* sizeof(BlockHeader)
    SegmentSize,    \* sizeof(Segment)
    Alignment,      \* ALIGNMENT
    MinSplit,       \* MIN_SPLIT_PAYLOAD
    WordSize,       \* 2^32
    PageBudget,     \* pages memory_alloc_page still has
    Sizes           \* the sizes callers ask for

ASSUME LayoutAssumption ==
    /\ {PageSize, HeaderSize, SegmentSize, Alignment, MinSplit, WordSize} \subseteq Nat \ {0}
    /\ \A n \in {PageSize, HeaderSize, SegmentSize, MinSplit, WordSize} : n % Alignment = 0
    /\ SegmentSize + HeaderSize < PageSize
    /\ PageSize < WordSize
ASSUME RequestAssumption == Sizes \subseteq 1..(WordSize - 1) /\ PageBudget \in Nat

VARIABLES
    segments,           \* newest first
    bytesAllocated,
    live                \* history: what callers hold, with the size they asked for

heapVars == <<segments, bytesAllocated, live>>

HeapInit ==
    /\ segments = <<>>
    /\ bytesAllocated = 0
    /\ live = {}

Block(at, size) == [at |-> at, size |-> size, used |-> FALSE]

alignUp(value) == LET v == (value + Alignment - 1) % WordSize IN v - (v % Alignment)

MaxPayload == PageSize - SegmentSize - HeaderSize

growHeap(h) ==
    <<[page |-> Len(h) + 1, blocks |-> <<Block(SegmentSize, MaxPayload)>>]>> \o h

\* Seeded bug: the size of a free block is not compared.
fitsAnyFree(h, n) ==
    {b \in UNION {{i} \X DOMAIN h[i].blocks : i \in DOMAIN h} : ~h[b[1]].blocks[b[2]].used}

\* First fit: the free blocks that are large enough, in list order.
fits(h, n) ==
    {b \in UNION {{i} \X DOMAIN h[i].blocks : i \in DOMAIN h} :
        ~h[b[1]].blocks[b[2]].used /\ h[b[1]].blocks[b[2]].size >= n}

findFreeBlock(h, n) ==
    CHOOSE b \in fits(h, n) :
        \A c \in fits(h, n) : b[1] < c[1] \/ (b[1] = c[1] /\ b[2] <= c[2])

splitIfWorthwhile(blocks, k, n) ==
    LET b == blocks[k]
        remaining == b.size - n
    IN IF remaining < HeaderSize + MinSplit THEN blocks
       ELSE SubSeq(blocks, 1, k - 1)
            \o <<[b EXCEPT !.size = n],
                 Block(b.at + HeaderSize + n, remaining - HeaderSize)>>
            \o SubSeq(blocks, k + 1, Len(blocks))

payload(seg, k) == [page |-> seg.page, at |-> seg.blocks[k].at + HeaderSize]

\* The end of kmalloc: the block found is split, marked and counted.
take(h, size) ==
    LET n == alignUp(size)
        b == findFreeBlock(h, n)
        split == splitIfWorthwhile(h[b[1]].blocks, b[2], n)
    IN /\ segments' = [h EXCEPT ![b[1]].blocks = [split EXCEPT ![b[2]].used = TRUE]]
       /\ bytesAllocated' = bytesAllocated + split[b[2]].size
       /\ live' = live \cup {[ptr |-> payload(h[b[1]], b[2]), size |-> size]}

kmalloc(size) ==
    /\ fits(segments, alignUp(size)) # {}
    /\ take(segments, size)

kmallocGrows(size) ==
    /\ fits(segments, alignUp(size)) = {}
    /\ Len(segments) < PageBudget
    /\ fits(growHeap(segments), alignUp(size)) # {}
    /\ take(growHeap(segments), size)

\* More than a page holds: null, and the heap has one page more.
kmallocTooLarge(size) ==
    /\ fits(segments, alignUp(size)) = {}
    /\ Len(segments) < PageBudget
    /\ fits(growHeap(segments), alignUp(size)) = {}
    /\ segments' = growHeap(segments)
    /\ UNCHANGED <<bytesAllocated, live>>

(***************************************************************************)
(* kfree: coalescing with the next block first, then with the previous     *)
(* one.                                                                    *)
(***************************************************************************)
merge(blocks, k) ==
    SubSeq(blocks, 1, k - 1)
    \o <<[blocks[k] EXCEPT !.size = @ + HeaderSize + blocks[k + 1].size]>>
    \o SubSeq(blocks, k + 2, Len(blocks))

\* Seeded bug: the previous block is not looked at.
coalesceForwardOnly(blocks, k) ==
    IF k < Len(blocks) /\ ~blocks[k + 1].used THEN merge(blocks, k) ELSE blocks

coalesce(blocks, k) ==
    LET onward == IF k < Len(blocks) /\ ~blocks[k + 1].used THEN merge(blocks, k) ELSE blocks
    IN IF k > 1 /\ ~onward[k - 1].used THEN merge(onward, k - 1) ELSE onward

\* Seeded bug: the counter is reduced after coalescing.
kfreeCountsLate(a) ==
    \E i \in DOMAIN segments : \E k \in DOMAIN segments[i].blocks :
        LET freed == coalesce([segments[i].blocks EXCEPT ![k].used = FALSE], k)
        IN /\ payload(segments[i], k) = a.ptr
           /\ segments' = [segments EXCEPT ![i].blocks = freed]
           /\ bytesAllocated' =
                 bytesAllocated - (IF k \in DOMAIN freed THEN freed[k].size ELSE 0)
           /\ live' = live \ {a}

kfree(a) ==
    \E i \in DOMAIN segments : \E k \in DOMAIN segments[i].blocks :
        LET blocks == segments[i].blocks
        IN /\ payload(segments[i], k) = a.ptr
           /\ blocks[k].used
           /\ segments' = [segments EXCEPT ![i].blocks =
                              coalesce([blocks EXCEPT ![k].used = FALSE], k)]
           /\ bytesAllocated' = bytesAllocated - blocks[k].size
           /\ live' = live \ {a}

HeapNext ==
    \/ \E size \in Sizes : kmalloc(size)
    \/ \E size \in Sizes : kmallocGrows(size)
    \/ \E size \in Sizes : kmallocTooLarge(size)
    \/ \E a \in live : kfree(a)

HeapSpec == HeapInit /\ [][HeapNext]_heapVars

-----------------------------------------------------------------------------
(***************************************************************************)
(* Properties.                                                             *)
(***************************************************************************)

\* The counters stay in range and a block never has a negative size.
HeapTypeOK ==
    /\ Len(segments) \in 0..PageBudget
    /\ bytesAllocated \in 0..(PageBudget * PageSize)
    /\ \A i \in DOMAIN segments : \A k \in DOMAIN segments[i].blocks :
          segments[i].blocks[k].size \in 0..MaxPayload

\* After any sequence of splits and merges the blocks of a segment tile its
\* page: no two overlap, no byte is lost, the last one ends at the page's end.
Tiled ==
    \A i \in DOMAIN segments :
        LET blocks == segments[i].blocks
        IN /\ blocks[1].at = SegmentSize
           /\ \A k \in DOMAIN blocks :
                 blocks[k].at + HeaderSize + blocks[k].size =
                    IF k = Len(blocks) THEN PageSize ELSE blocks[k + 1].at

\* kfree merges in both directions, so that no two neighbours are both free:
\* a request fails to fit only if no run of free bytes could hold it.
Coalesced ==
    \A i \in DOMAIN segments : \A k \in 1..(Len(segments[i].blocks) - 1) :
        segments[i].blocks[k].used \/ segments[i].blocks[k + 1].used

\* The block lists after any sequence of kmalloc and kfree: they tile their pages
\* and no free run is in two pieces.
BlocksSound == Tiled /\ Coalesced

\* The blocks of all segments, each with its page.
onPage(page, b) == [page |-> page, at |-> b.at, size |-> b.size, used |-> b.used]
blocksOf(page, blocks) == {onPage(page, blocks[k]) : k \in DOMAIN blocks}
allBlocks(h) == UNION {blocksOf(h[i].page, h[i].blocks) : i \in DOMAIN h}
usedBlocks(h) == {b \in allBlocks(h) : b.used}
blockPayload(b) == [page |-> b.page, at |-> b.at + HeaderSize]
bytesOf(S) == MapThenSumSet(LAMBDA b : b.size, S)

\* Every allocation a caller holds is a used block of its own, at least as
\* large as what was asked for, whatever is allocated and freed around it; no
\* used block is without a holder; and heap_bytes_allocated is the sum of those
\* blocks.
LiveIntact ==
    /\ \A a \in live : \E b \in usedBlocks(segments) :
          blockPayload(b) = a.ptr /\ b.size >= a.size
    /\ \A b \in usedBlocks(segments) : \E a \in live : a.ptr = blockPayload(b)
    /\ \A a, c \in live : a.ptr = c.ptr => a = c
    /\ bytesAllocated = bytesOf(usedBlocks(segments))
=============================================================================
