-------------------------------- MODULE Kheap --------------------------------
(***************************************************************************)
(* The kernel heap, src/kheap.c: a list of blocks in address order, each a *)
(* header of H bytes and a user area, allocated first-fit with splitting,  *)
(* merged with both neighbours when freed, and grown by mapping pages at   *)
(* its end up to a limit.                                                  *)
(*                                                                         *)
(* blk maps the address of each header to its contents.  The loops over    *)
(* the list visit the blocks in address order, so a search finds the       *)
(* lowest address that qualifies: HeapSound shows that the order holds.    *)
(***************************************************************************)
EXTENDS Integers, FiniteSets

CONSTANTS
    BASE,           \* where the heap starts; 0 is the null pointer
    H,              \* HEADER_SIZE
    PAGE,
    INITIAL,        \* initial_pages of kheap_init
    MAXPAGES,       \* max_pages of kheap_init
    MIN_GROW_PAGES,
    Sizes           \* sizes asked of kmalloc

ASSUME KheapAssumption ==
    /\ BASE \in Nat /\ BASE > 0 /\ BASE % 8 = 0
    /\ H \in Nat /\ H > 0 /\ H % 8 = 0
    /\ PAGE \in Nat /\ PAGE > H + 8 /\ PAGE % 8 = 0
    /\ INITIAL \in Nat /\ INITIAL > 0
    /\ MAXPAGES \in Nat /\ MAXPAGES >= INITIAL
    /\ MIN_GROW_PAGES \in Nat /\ MIN_GROW_PAGES > 0
    /\ Sizes \subseteq Nat \ {0}

VARIABLES
    blk,        \* the headers: address -> [size, used, next]
    pages,      \* pages mapped: heap_end is at their end
    live        \* history: pointer -> the size asked for, until it is freed

vars == <<blk, pages, live>>

heap_end   == BASE + pages * PAGE
heap_limit == BASE + MAXPAGES * PAGE
hdr        == DOMAIN blk
ALIGN8(x)  == ((x + 7) \div 8) * 8

Block(size, used, next) == [size |-> size, used |-> used, next |-> next]
Put(f, a, x) == [y \in (DOMAIN f) \cup {a} |-> IF y = a THEN x ELSE f[y]]
Drop(f, a) == [y \in (DOMAIN f) \ {a} |-> f[y]]

-----------------------------------------------------------------------------
(* Fits(f, s): the free blocks of a heap f that hold s bytes. *)

Fits(f, s) == {b \in DOMAIN f : f[b].used = 0 /\ f[b].size >= s}

(* Mutant: the rest need not hold a header. *)
Take_Early(f, b, s) ==
    LET rest == b + H + s
    IN  IF f[b].size >= s + 8
        THEN Put(Put(f, rest, Block(f[b].size - s - H, 0, f[b].next)), b, Block(s, 1, rest))
        ELSE Put(f, b, Block(f[b].size, 1, f[b].next))

(* Takes s bytes of block b: the rest becomes a free block if it can hold a
   header and 8 bytes. *)
Take(f, b, s) ==
    LET rest == b + H + s
    IN  IF f[b].size >= s + H + 8
        THEN Put(Put(f, rest, Block(f[b].size - s - H, 0, f[b].next)), b, Block(s, 1, rest))
        ELSE Put(f, b, Block(f[b].size, 1, f[b].next))

(* find_fit: block b of f is the first that fits; blk and live become what the
   kmalloc of n bytes leaves. *)
find_fit(f, b, n) ==
    /\ b \in Fits(f, ALIGN8(n))
    /\ \A c \in Fits(f, ALIGN8(n)) : b <= c
    /\ blk' = Take(f, b, ALIGN8(n))
    /\ live' = Put(live, b + H, n)

(* Pages to map for min_bytes: at least the minimum, at most the room left. *)
needed_pages(min_bytes) ==
    LET p == (min_bytes + PAGE - 1) \div PAGE
        q == IF p < MIN_GROW_PAGES THEN MIN_GROW_PAGES ELSE p
    IN  IF q > MAXPAGES - pages THEN MAXPAGES - pages ELSE q

(* Mutant: the new region always becomes a block of its own. *)
Stitched_Apart(tail, n) ==
    Put(Put(blk, heap_end, Block(n * PAGE - H, 0, 0)),
        tail, Block(blk[tail].size, blk[tail].used, heap_end))

(* The list after n pages at the end: a free last block absorbs them. *)
Stitched(tail, n) ==
    IF blk[tail].used = 1
    THEN Put(Put(blk, heap_end, Block(n * PAGE - H, 0, 0)),
             tail, Block(blk[tail].size, 1, heap_end))
    ELSE Put(blk, tail, Block(blk[tail].size + n * PAGE, 0, 0))

(* kmalloc finds a block as the heap stands. *)
kmalloc(n) ==
    /\ \E b \in hdr : find_fit(blk, b, n)
    /\ UNCHANGED pages

(* kmalloc finds none and kheap_grow maps pages; it looks again, once. *)
kmalloc_grow(n) ==
    LET np == needed_pages(ALIGN8(n) + H)
    IN  /\ Fits(blk, ALIGN8(n)) = {}
        /\ np > 0
        /\ \E tail \in hdr :
            /\ blk[tail].next = 0
            /\ \/ \E b \in DOMAIN Stitched(tail, np) : find_fit(Stitched(tail, np), b, n)
               \/ /\ Fits(Stitched(tail, np), ALIGN8(n)) = {}
                  /\ blk' = Stitched(tail, np)
                  /\ UNCHANGED live
        /\ pages' = pages + np

(* kmalloc finds none and kheap_grow fails: at the limit, or because
   map_region ran out of frames and unmapped what it had mapped. *)
kmalloc_fail(n) ==
    /\ Fits(blk, ALIGN8(n)) = {}
    /\ UNCHANGED vars

(* Mutant: the block after it is absorbed even if it is in use. *)
Forward_Always(b) ==
    LET nx == blk[b].next
    IN  IF nx # 0
        THEN Put(Drop(blk, nx), b, Block(blk[b].size + H + blk[nx].size, 0, blk[nx].next))
        ELSE Put(blk, b, Block(blk[b].size, 0, nx))

(* A freed block absorbs a free block after it. *)
Forward(b) ==
    LET nx == blk[b].next
    IN  IF nx # 0 /\ blk[nx].used = 0
        THEN Put(Drop(blk, nx), b, Block(blk[b].size + H + blk[nx].size, 0, blk[nx].next))
        ELSE Put(blk, b, Block(blk[b].size, 0, nx))

(* A free block p before b absorbs it. *)
Backward(f, p, b) ==
    Put(Drop(f, b), p, Block(f[p].size + H + f[b].size, 0, f[b].next))

(* Mutant: only the block after it is absorbed. *)
kfree_Forward(ptr) ==
    /\ blk' = Forward(ptr - H)
    /\ live' = Drop(live, ptr)
    /\ UNCHANGED pages

kfree(ptr) ==
    LET b == ptr - H
    IN  /\ \/ \E p \in hdr : blk[p].next = b /\ blk[p].used = 0 /\ blk' = Backward(Forward(b), p, b)
           \/ (\A p \in hdr : blk[p].next = b => blk[p].used = 1) /\ blk' = Forward(b)
        /\ live' = Drop(live, ptr)
        /\ UNCHANGED pages

(* kheap_init: one free block covers the initial pages. *)
Init ==
    /\ pages = INITIAL
    /\ blk = [a \in {BASE} |-> Block(INITIAL * PAGE - H, 0, 0)]
    /\ live = [a \in {} |-> 0]

Next ==
    \/ \E n \in Sizes : kmalloc(n) \/ kmalloc_grow(n) \/ kmalloc_fail(n)
    \/ \E ptr \in DOMAIN live : kfree(ptr)

Spec == Init /\ [][Next]_vars

-----------------------------------------------------------------------------
(* Properties. *)

(* The headers of a heap f have the fields of block_t. *)
Headers(f) ==
    /\ DOMAIN f \subseteq Nat
    /\ \A b \in DOMAIN f : f[b].size \in Nat /\ f[b].used \in {0, 1} /\ f[b].next \in Nat

TypeOK ==
    /\ Headers(blk)
    /\ DOMAIN live \subseteq Nat /\ \A p \in DOMAIN live : live[p] \in Sizes
    /\ pages \in INITIAL..MAXPAGES

End(f, b) == b + H + f[b].size

(* The blocks of f tile the addresses from BASE to e, in the order of the
   list. *)
Tiles(f, e) ==
    /\ BASE \in DOMAIN f
    /\ \A b \in DOMAIN f :
        /\ BASE <= b /\ f[b].size > 0 /\ End(f, b) <= e
        /\ IF f[b].next = 0 THEN End(f, b) = e ELSE f[b].next = End(f, b) /\ End(f, b) \in DOMAIN f
    /\ \A b, c \in DOMAIN f : b < c => End(f, b) <= c

NoTwoFree(f) == \A b \in DOMAIN f : f[b].next # 0 => f[b].used = 1 \/ f[f[b].next].used = 1

(* The blocks tile the heap: each ends where the next one starts, or at the
   end of the heap if it is the last, none overlaps another, the list is in
   address order, and no two neighbours are both free. *)
HeapSound == Tiles(blk, heap_end) /\ NoTwoFree(blk)

(* What kmalloc handed out, and only that, is a used block, at least as large
   as was asked for, until it is freed: with HeapSound, areas in use never
   overlap whatever was allocated, freed, merged or grown in between. *)
LiveKept ==
    /\ \A p \in DOMAIN live : p - H \in hdr /\ blk[p - H].used = 1 /\ blk[p - H].size >= live[p]
    /\ \A b \in hdr : blk[b].used = 1 => b + H \in DOMAIN live

(* Once everything is freed the heap is one free block again, however it was
   fragmented. *)
Reclaimed == DOMAIN live = {} => hdr = {BASE} /\ blk[BASE].size = pages * PAGE - H
=============================================================================
