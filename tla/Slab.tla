-------------------------------- MODULE Slab --------------------------------
(***************************************************************************)
(* The memory pool that holds the configuration, the table infos and every *)
(* row on its way (core/ms_slab.c).                                        *)
(*                                                                         *)
(* Free pages are kept in blocks, on a doubly linked list that starts at   *)
(* pool->free.  A request for less than half a page is served with a chunk *)
(* of a page cut into chunks of one size; the pages of a size that have a  *)
(* free chunk are on the list of its slot.  All other requests get whole   *)
(* pages.  What is modelled is the page table with its links, exactly as   *)
(* the code relinks them; bitmaps are sets of chunks.                      *)
(***************************************************************************)
EXTENDS Integers, FiniteSets

CONSTANTS
  Pages,       \* pages in the pool
  Slot,        \* the chunk sizes
  Chunks,      \* how many chunks of a size a page has
  Reserved,    \* how many of them hold the page's own bitmap
  CellsPerPage,\* a multiple of every number of chunks
  Free,        \* the head of the free list (&pool->free)
  Null         \* no link

ASSUME PagesAssumption == Pages \in Nat \ {0} /\ CellsPerPage \in Nat \ {0}
ASSUME SlotAssumption ==
  /\ Free \notin Slot /\ Null \notin Slot \cup {Free}
  /\ Slot \cap {"free", "start", "busy", "pages"} = {}
  /\ \A q \in Slot \cup {Free, Null} : q \notin Nat
  /\ Chunks \in [Slot -> Nat \ {0}] /\ Reserved \in [Slot -> Nat]
  /\ \A s \in Slot : Reserved[s] + 1 < Chunks[s] /\ CellsPerPage % Chunks[s] = 0

Page == 0 .. Pages - 1

(* What a link can name: a page or the head of a list.                     *)
Node == Page \cup {Free} \cup Slot

VARIABLES
  page,   \* slab and type: of a free block (its length at its first page, 0
          \* at the others), of pages handed out ("start", then "busy"), or
          \* of a page cut into chunks, with the set of its busy chunks
  next, prev,
  live    \* ghost: what the callers hold

vars == <<page, next, prev, live>>

FreePage(n)  == [is |-> "free", n |-> n, used |-> {}]
StartPage(n) == [is |-> "start", n |-> n, used |-> {}]
BusyPage     == [is |-> "busy", n |-> 0, used |-> {}]
CutPage(s, used) == [is |-> s, n |-> 1, used |-> used]

WholePages(p, n) == [is |-> "pages", first |-> p, n |-> n]
Chunk(p, s, i)   == [is |-> s, first |-> p, n |-> i]

(* ms_slab_init: one block. *)
Init ==
  /\ page = [p \in Page |-> FreePage(IF p = 0 THEN Pages ELSE 0)]
  /\ next = [q \in Node |-> IF q = Free THEN 0 ELSE IF q = 0 THEN Free
                            ELSE IF q \in Slot THEN q ELSE Null]
  /\ prev = [q \in Node |-> IF q = 0 THEN Free ELSE Null]
  /\ live = {}

-----------------------------------------------------------------------------
(* Links as a record, so that an operation can relink more than once.      *)
Links == [next |-> next, prev |-> prev]

(* prev->next = page->next; page->next->prev = page->prev.                 *)
Unlinked(l, p) ==
  [next |-> [l.next EXCEPT ![l.prev[p]] = l.next[p]],
   prev |-> [l.prev EXCEPT ![l.next[p]] = l.prev[p]]]

WithoutLinks(l, ps) ==
  [next |-> [q \in Node |-> IF q \in ps THEN Null ELSE l.next[q]],
   prev |-> [q \in Node |-> IF q \in ps THEN Null ELSE l.prev[q]]]

(* q becomes the first of the list of head h, as a page that is freed does *)
(* on the free list and a page with room again on the list of its slot.    *)
Pushed(l, h, q) ==
  LET linked == [next |-> [l.next EXCEPT ![q] = l.next[h], ![h] = q],
                 prev |-> [l.prev EXCEPT ![q] = h]]
  IN [linked EXCEPT !.prev[l.next[h]] = q]

(* The first block is taken, whatever its length.                          *)
FirstFitAnySize(n) == next[Free]

(* The first block of the free list that has n pages, or the list's head:  *)
(* the loop, which ends when it has seen every page at the latest.         *)
FirstFit(n) ==
  LET at[k \in 0 .. Pages] ==
        IF k = 0 THEN next[Free]
        ELSE LET q == at[k - 1]
             IN IF q = Free \/ page[q].n >= n THEN q ELSE next[q]
  IN at[Pages]

(* ms_slab_alloc_pages: p starts a block of at least n pages, of which the *)
(* rest takes the place on the free list.                                  *)
BlockTaken(l, p, n) ==
  LET rest == p + n
      split == [next |-> [l.next EXCEPT ![rest] = l.next[p], ![l.prev[p]] = rest],
                prev |-> [l.prev EXCEPT ![rest] = l.prev[p], ![l.next[p]] = rest]]
  IN WithoutLinks(IF page[p].n > n THEN split ELSE Unlinked(l, p), p .. p + n - 1)

(* One page too many is marked: --pages is forgotten.                      *)
PagesTakenBeyond(p, n) ==
  [q \in Page |-> IF q = p THEN StartPage(n)
                  ELSE IF q \in p + 1 .. p + n THEN BusyPage ELSE page[q]]

(* The rest of a split block keeps the length of the whole.                *)
PagesTakenLongRest(p, n) ==
  [q \in Page |-> IF q = p THEN StartPage(n)
                  ELSE IF q \in p + 1 .. p + n - 1 THEN BusyPage
                  ELSE IF q = p + n /\ page[p].n > n THEN FreePage(page[p].n)
                  ELSE page[q]]

(* The page table after it.                                                *)
PagesTaken(p, n) ==
  [q \in Page |-> IF q = p THEN StartPage(n)
                  ELSE IF q \in p + 1 .. p + n - 1 THEN BusyPage
                  ELSE IF q = p + n /\ page[p].n > n THEN FreePage(page[p].n - n)
                  ELSE page[q]]

(* ms_slab_free_pages: the pages become one block, first on the free list. *)
(* A page of a slot leaves the slot's list.  Blocks are never merged.      *)
BlockFreed(l, p, n) ==
  LET out == IF l.next[p] = Null THEN l ELSE Unlinked(l, p)
  IN Pushed(WithoutLinks(out, p + 1 .. p + n - 1), Free, p)
PagesFreed(p, n) ==
  [q \in Page |-> IF q = p THEN FreePage(n)
                  ELSE IF q \in p + 1 .. p + n - 1 THEN FreePage(0)
                  ELSE page[q]]

SetLinks(l) == next' = l.next /\ prev' = l.prev

-----------------------------------------------------------------------------
(* ms_slab_alloc of half a page or more.                                   *)
AllocPages(n) ==
  /\ FirstFit(n) # Free
  /\ LET p == FirstFit(n) IN
       /\ page' = PagesTaken(p, n)
       /\ SetLinks(BlockTaken(Links, p, n))
       /\ live' = live \cup {WholePages(p, n)}

FirstFree(p) ==
  CHOOSE i \in 0 .. Chunks[page[p].is] - 1 :
    /\ i \notin page[p].used
    /\ \A k \in 0 .. i - 1 : k \in page[p].used

(* ms_slab_alloc of a chunk, with a page on the slot's list: the first     *)
(* free chunk of the first page.  A page that is full now leaves the list. *)
AllocChunk(s) ==
  /\ next[s] # s
  /\ LET p == next[s]
         i == FirstFree(p)
         used == page[p].used \cup {i}
     IN /\ page' = [page EXCEPT ![p].used = used]
        /\ SetLinks(IF used = 0 .. Chunks[s] - 1
                    THEN WithoutLinks(Unlinked(Links, p), {p})
                    ELSE Links)
        /\ live' = live \cup {Chunk(p, s, i)}

(* With none: a page is taken from the free list and cut.                  *)
AllocFirstChunk(s) ==
  /\ next[s] = s
  /\ FirstFit(1) # Free
  /\ LET p == FirstFit(1)
         l == BlockTaken(Links, p, 1)
     IN /\ page' = [PagesTaken(p, 1) EXCEPT ![p] = CutPage(s, 0 .. Reserved[s])]
        /\ next' = [l.next EXCEPT ![p] = s, ![s] = p]
        /\ prev' = [l.prev EXCEPT ![p] = s]
        /\ live' = live \cup {Chunk(p, s, Reserved[s])}

(* ms_slab_free of whole pages.                                            *)
FreePages(a) ==
  /\ a.is = "pages" /\ page[a.first].is = "start"
  /\ page' = PagesFreed(a.first, page[a.first].n)
  /\ SetLinks(BlockFreed(Links, a.first, page[a.first].n))
  /\ live' = live \ {a}

(* A page that was full is not put back on the list of its slot.           *)
FreeChunkForgetsPage(a) ==
  /\ a.is \in Slot /\ page[a.first].is = a.is /\ a.n \in page[a.first].used
  /\ LET p == a.first
         used == page[p].used \ {a.n}
     IN IF used = 0 .. Reserved[a.is] - 1
        THEN page' = PagesFreed(p, 1) /\ SetLinks(BlockFreed(Links, p, 1))
        ELSE page' = [page EXCEPT ![p].used = used] /\ SetLinks(Links)
  /\ live' = live \ {a}

(* ms_slab_free of a chunk: a page that was full goes back to its slot's   *)
(* list; a page that has nothing left but its bitmap is freed.             *)
FreeChunk(a) ==
  /\ a.is \in Slot /\ page[a.first].is = a.is /\ a.n \in page[a.first].used
  /\ LET p == a.first
         used == page[p].used \ {a.n}
         back == IF next[p] = Null THEN Pushed(Links, a.is, p) ELSE Links
     IN IF used = 0 .. Reserved[a.is] - 1
        THEN page' = PagesFreed(p, 1) /\ SetLinks(BlockFreed(back, p, 1))
        ELSE page' = [page EXCEPT ![p].used = used] /\ SetLinks(back)
  /\ live' = live \ {a}

Next ==
  \/ \E n \in 1 .. Pages : AllocPages(n)
  \/ \E s \in Slot : AllocChunk(s) \/ AllocFirstChunk(s)
  \/ \E a \in live : FreePages(a) \/ FreeChunk(a)

Spec == Init /\ [][Next]_vars

-----------------------------------------------------------------------------
(* The page table has its type.                                            *)
TypeOK ==
  /\ \A p \in Page : page[p].is \in {"free", "start", "busy"} \cup Slot
  /\ \A p \in Page : page[p].n \in 0 .. Pages - p
  /\ \A p \in Page : page[p].is \in Slot => page[p].used \subseteq 0 .. Chunks[page[p].is] - 1
  /\ next \in [Node -> Node \cup {Null}]
  /\ prev \in [Node -> Node \cup {Null}]

(* The first pages of blocks; every page is in the block of one of them.   *)
First == {p \in Page : page[p].n > 0}
BlocksTile ==
  \A q \in Page : \E p \in First :
    /\ q \in p .. p + page[p].n - 1
    /\ \A o \in First \ {p} : q \notin o .. o + page[o].n - 1

(* The nodes on the list of head h.                                        *)
Listed(h) ==
  LET reach[n \in 0 .. Pages] ==
        IF n = 0 THEN {next[h]} \ {h}
        ELSE reach[n - 1] \cup ({next[q] : q \in reach[n - 1]} \ {h})
  IN reach[Pages]

HasRoom(p, s) == page[p].is = s /\ page[p].used # 0 .. Chunks[s] - 1

(* Whatever order memory is taken and given back in, the blocks tile the   *)
(* pool, the free list holds every free block and a slot's list every page *)
(* of the size that has room, so that the loops of ms_slab_alloc_locked    *)
(* find it at the first page and never run on into a list head; the links  *)
(* back agree; and a page has exactly the chunks in use marked busy, at    *)
(* least one of them: nothing leaks.                                       *)
PoolSound ==
  /\ BlocksTile
  /\ Listed(Free) = {p \in First : page[p].is = "free"}
  /\ \A s \in Slot : Listed(s) = {p \in Page : HasRoom(p, s)}
  /\ \A h \in {Free} \cup Slot : \A q \in Listed(h) : next[prev[q]] = q
  /\ {a \in live : a.is = "pages"} =
       {WholePages(p, page[p].n) : p \in {q \in Page : page[q].is = "start"}}
  /\ \A p \in Page : page[p].is \in Slot =>
       LET held == {a.n : a \in {b \in live : b.first = p /\ b.is = page[p].is}}
       IN /\ held # {}
          /\ held \cap 0 .. Reserved[page[p].is] - 1 = {}
          /\ page[p].used = held \cup 0 .. Reserved[page[p].is] - 1

(* Memory that is handed out overlaps nothing in use.                      *)
Size(s) == CellsPerPage \div Chunks[s]
CellsOf(a) ==
  IF a.is = "pages"
  THEN a.first * CellsPerPage .. (a.first + a.n) * CellsPerPage - 1
  ELSE LET start == a.first * CellsPerPage + a.n * Size(a.is)
       IN start .. start + Size(a.is) - 1
Regions == INSTANCE Heap WITH
  Cell <- 0 .. Pages * CellsPerPage - 1,
  held <- {CellsOf(a) : a \in live}
ImplementsHeap == Regions!Spec

-----------------------------------------------------------------------------
(* ms_slab_stat's walk over the page table: where it is, and what it has   *)
(* counted as free pages and as used memory, bitmaps included.  It looks   *)
(* at the first pages of blocks only.                                      *)
Counted(s) ==
  IF s.i >= Pages THEN s
  ELSE LET p == page[s.i]
       IN [i |-> s.i + p.n,
           free |-> s.free + (IF p.is = "free" THEN p.n ELSE 0),
           used |-> s.used + (IF p.is = "start" THEN p.n * CellsPerPage
                              ELSE IF p.is \in Slot THEN Cardinality(p.used) * Size(p.is)
                              ELSE 0)]
Stat ==
  LET after[k \in 0 .. Pages] ==
        IF k = 0 THEN [i |-> 0, free |-> 0, used |-> 0] ELSE Counted(after[k - 1])
  IN after[Pages]

(* The cells of the chunks of page p that are in C.                        *)
ChunkCells(p, C) == UNION {CellsOf(Chunk(p, page[p].is, i)) : i \in C}

(* The figures of ms_slab_stat are right however the pool is cut up: what  *)
(* it says is used is what callers hold and the bitmaps of the pages cut,  *)
(* and what it says is free is all the rest but the free chunks.           *)
StatIsRight ==
  LET cut == {p \in Page : page[p].is \in Slot}
      held == UNION {CellsOf(a) : a \in live}
      bitmaps == UNION {ChunkCells(p, 0 .. Reserved[page[p].is] - 1) : p \in cut}
      spare == UNION {ChunkCells(p, (0 .. Chunks[page[p].is] - 1) \ page[p].used) : p \in cut}
  IN /\ Stat.used = Cardinality(held \cup bitmaps)
     /\ Stat.free * CellsPerPage =
          Cardinality((0 .. Pages * CellsPerPage - 1) \ (held \cup bitmaps \cup spare))

=============================================================================
