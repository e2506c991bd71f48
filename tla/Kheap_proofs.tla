---------------------------- MODULE Kheap_proofs ----------------------------
(***************************************************************************)
(* Proofs about the kernel heap, for every base, header size, page size,   *)
(* limit and set of sizes.  The inductive invariant is the conjunction of  *)
(* TypeOK, HeapSound and LiveKept.  Allocation is a split of a block,      *)
(* growth an extension of the list, and a free at most two merges of a     *)
(* block with its successor: one lemma for each says that the blocks still *)
(* tile the heap.                                                          *)
(***************************************************************************)
EXTENDS Kheap, TLAPS

(* A step is proved by Zenon within 20 seconds, or names another prover. *)
USE ZenonT(20)

(* kmalloc rounds a size up: the result is positive and no smaller. *)
LEMMA Align ==
    ASSUME NEW n \in Nat \ {0}
    PROVE  ALIGN8(n) \in Nat /\ ALIGN8(n) >= n
BY SMT DEF ALIGN8

(* Splitting a block, as find_fit does, keeps the tiling. *)
LEMMA SplitTiles ==
    ASSUME NEW f, NEW e \in Nat, Headers(f), Tiles(f, e),
           NEW b \in DOMAIN f, NEW s \in Nat \ {0}, f[b].size >= s
    PROVE  /\ Headers(Take(f, b, s)) /\ Tiles(Take(f, b, s), e)
           /\ f[b].used = 0 /\ NoTwoFree(f) => NoTwoFree(Take(f, b, s))
           /\ DOMAIN f \subseteq DOMAIN Take(f, b, s)
           /\ Take(f, b, s)[b].used = 1 /\ Take(f, b, s)[b].size >= s
           /\ \A c \in DOMAIN f : c # b => Take(f, b, s)[c] = f[c]
           /\ \A c \in DOMAIN Take(f, b, s) : Take(f, b, s)[c].used = 1 => c \in DOMAIN f
<1> DEFINE rest == b + H + s
<1> DEFINE g == Put(f, rest, Block(f[b].size - s - H, 0, f[b].next))
<1>0. b \in Nat /\ BASE \in Nat /\ H \in Nat /\ H > 0
      /\ \A c \in DOMAIN f : c \in Nat /\ f[c].size \in Nat /\ f[c].next \in Nat /\ f[c].used \in {0, 1}
  BY KheapAssumption DEF Headers
<1>1. CASE f[b].size >= s + H + 8
  <2> DEFINE h == Put(g, b, Block(s, 1, rest))
  <2>1. Take(f, b, s) = h
    BY <1>1 DEF Take
  <2>2. rest # b /\ rest \in Nat /\ rest > 0
    BY <1>0, SMT
  <2>3. rest \notin DOMAIN f
    <3>1. SUFFICES ASSUME rest \in DOMAIN f PROVE FALSE
      OBVIOUS
    <3>2. End(f, b) <= rest
      BY <3>1, <1>0, SMT DEF Tiles
    <3> QED BY <3>2, <1>0, <1>1, SMT DEF End
  <2>4. /\ DOMAIN h = (DOMAIN f) \cup {rest}
        /\ h[b] = Block(s, 1, rest)
        /\ h[rest] = Block(f[b].size - s - H, 0, f[b].next)
        /\ \A c \in DOMAIN f : c # b => h[c] = f[c]
    <3>1. /\ DOMAIN g = (DOMAIN f) \cup {rest}
          /\ g[rest] = Block(f[b].size - s - H, 0, f[b].next)
          /\ \A c \in DOMAIN f : g[c] = f[c]
      BY <2>3 DEF Put
    <3> HIDE DEF g
    <3>2. /\ DOMAIN h = (DOMAIN g) \cup {b}
          /\ h[b] = Block(s, 1, rest)
          /\ \A c \in DOMAIN g : c # b => h[c] = g[c]
      BY DEF Put
    <3> QED BY <3>1, <3>2, <2>2
  <2> HIDE DEF h
  <2>5. Headers(h)
    BY <2>4, <2>2, <1>0, <1>1, SMT DEF Headers, Block
  <2>6. End(h, b) = rest /\ End(h, rest) = End(f, b)
        /\ \A c \in DOMAIN f : c # b => End(h, c) = End(f, c)
    BY <2>4, <1>0, <1>1, SMT DEF End, Block
  <2>7. Tiles(h, e)
    <3>1. BASE \in DOMAIN h
      BY <2>4 DEF Tiles
    <3>2. ASSUME NEW c \in DOMAIN h
          PROVE  /\ BASE <= c /\ h[c].size > 0 /\ End(h, c) <= e
                 /\ IF h[c].next = 0 THEN End(h, c) = e ELSE h[c].next = End(h, c) /\ End(h, c) \in DOMAIN h
      <4>1. CASE c = b
        BY <4>1, <2>4, <2>6, <2>2, <1>0, <1>1, SMT DEF Tiles, Block, End
      <4>2. CASE c = rest
        BY <4>2, <2>4, <2>6, <2>2, <1>0, <1>1, SMT DEF Tiles, Block
      <4>3. CASE c # b /\ c # rest
        BY <4>3, <2>4, <2>6, <1>0 DEF Tiles
      <4> QED BY <4>1, <4>2, <4>3
    <3>3. ASSUME NEW c \in DOMAIN h, NEW d \in DOMAIN h, c < d
          PROVE  End(h, c) <= d
      <4>0. End(f, b) \in Nat /\ b < rest /\ rest <= End(f, b)
        BY <1>0, <1>1, SMT DEF End
      <4>1. CASE c \in DOMAIN f /\ d \in DOMAIN f
        <5>1. End(f, c) <= d
          BY <4>1, <3>3 DEF Tiles
        <5> QED BY <5>1, <4>1, <4>0, <2>6, <2>2, <1>0, SMT DEF End
      <4>2. CASE c = rest
        <5>1. d \in DOMAIN f /\ b < d
          BY <4>2, <3>3, <2>4, <2>2, <1>0, SMT
        <5>2. End(f, b) <= d
          BY <5>1 DEF Tiles
        <5> QED BY <5>2, <4>2, <2>6
      <4>3. CASE c \in DOMAIN f /\ d = rest
        <5>1. CASE c = b
          BY <5>1, <4>3, <2>6, <2>2, SMT
        <5>2. CASE c < b
          <6>1. End(f, c) <= b
            BY <5>2, <4>3 DEF Tiles
          <6> QED BY <6>1, <5>2, <4>3, <4>0, <2>6, <1>0, SMT DEF End
        <5>3. CASE c > b
          <6>1. End(f, b) <= c
            BY <5>3, <4>3 DEF Tiles
          <6> QED BY <6>1, <4>3, <4>0, <3>3, <1>0, <1>1, SMT DEF End
        <5> QED BY <5>1, <5>2, <5>3, <1>0, <4>3, SMT
      <4> QED BY <4>1, <4>2, <4>3, <2>4, <3>3, <2>2
    <3> QED BY <3>1, <3>2, <3>3 DEF Tiles
  <2>8. ASSUME f[b].used = 0, NoTwoFree(f)
        PROVE  NoTwoFree(h)
    <3> SUFFICES ASSUME NEW c \in DOMAIN h, h[c].next # 0, h[c].used # 1
                 PROVE  h[h[c].next].used = 1
      BY DEF NoTwoFree
    <3>1. c # b
      BY <2>4, SMT DEF Block
    <3>2. CASE c = rest
      <4>1. h[c].next = f[b].next /\ f[b].next # 0
        BY <3>2, <2>4, SMT DEF Block
      <4>2. f[b].next \in DOMAIN f /\ f[b].next # b /\ f[f[b].next].used = 1
        BY <4>1, <2>8, <1>0, SMT DEF NoTwoFree, Tiles, End
      <4> QED BY <4>1, <4>2, <2>4
    <3>3. CASE c # rest
      <4>1. c \in DOMAIN f /\ h[c] = f[c]
        BY <3>1, <3>3, <2>4
      <4>2. f[c].next \in DOMAIN f /\ f[f[c].next].used = 1
        BY <4>1, <2>8 DEF NoTwoFree, Tiles
      <4>3. f[c].next # b
        BY <4>2, <2>8, SMT
      <4> QED BY <4>1, <4>2, <4>3, <2>4
    <3> QED BY <3>2, <3>3
  <2>9. /\ DOMAIN f \subseteq DOMAIN h
        /\ h[b].used = 1 /\ h[b].size >= s
        /\ \A c \in DOMAIN f : c # b => h[c] = f[c]
        /\ \A c \in DOMAIN h : h[c].used = 1 => c \in DOMAIN f
    BY <2>4, SMT DEF Block
  <2> QED BY <2>1, <2>5, <2>7, <2>8, <2>9
<1>2. CASE ~(f[b].size >= s + H + 8)
  <2> DEFINE h == Put(f, b, Block(f[b].size, 1, f[b].next))
  <2>1. Take(f, b, s) = h
    BY <1>2 DEF Take
  <2>2. /\ DOMAIN h = DOMAIN f
        /\ h[b] = Block(f[b].size, 1, f[b].next)
        /\ \A c \in DOMAIN f : c # b => h[c] = f[c]
    BY DEF Put
  <2> HIDE DEF h
  <2>3. \A c \in DOMAIN f : h[c].size = f[c].size /\ h[c].next = f[c].next /\ End(h, c) = End(f, c)
    BY <2>2, SMT DEF End, Block
  <2>4. Headers(h)
    BY <2>2, <1>0, SMT DEF Headers, Block
  <2>5. Tiles(h, e)
    BY <2>2, <2>3 DEF Tiles
  <2>6. NoTwoFree(f) => NoTwoFree(h)
    <3> SUFFICES ASSUME NoTwoFree(f), NEW c \in DOMAIN h, h[c].next # 0, h[c].used # 1
                 PROVE  h[h[c].next].used = 1
      BY DEF NoTwoFree
    <3>1. c \in DOMAIN f /\ h[c] = f[c]
      BY <2>2, SMT DEF Block
    <3>2. f[c].next \in DOMAIN f /\ f[f[c].next].used = 1
      BY <3>1 DEF NoTwoFree, Tiles
    <3> QED BY <3>1, <3>2, <2>2, SMT DEF Block
  <2>7. h[b].used = 1 /\ h[b].size >= s
    BY <2>2, SMT DEF Block
  <2> QED BY <2>1, <2>2, <2>4, <2>5, <2>6, <2>7
<1> QED BY <1>1, <1>2

(* Merging a block with its successor, as both halves of kfree do, keeps the
   tiling. *)
LEMMA MergeTiles ==
    ASSUME NEW f, NEW e \in Nat, Headers(f), Tiles(f, e),
           NEW b \in DOMAIN f, NEW nx, nx = f[b].next, nx # 0, NEW h,
           h = Put(Drop(f, nx), b, Block(f[b].size + H + f[nx].size, 0, f[nx].next))
    PROVE  /\ Headers(h) /\ Tiles(h, e)
           /\ nx \in DOMAIN f /\ nx # b
           /\ DOMAIN h = (DOMAIN f) \ {nx}
           /\ h[b] = Block(f[b].size + H + f[nx].size, 0, f[nx].next)
           /\ \A c \in DOMAIN h : c # b => h[c] = f[c]
<1>0. b \in Nat /\ BASE \in Nat /\ H \in Nat /\ H > 0
      /\ \A c \in DOMAIN f : c \in Nat /\ f[c].size \in Nat /\ f[c].next \in Nat /\ f[c].used \in {0, 1}
  BY KheapAssumption DEF Headers
<1>1. nx = End(f, b) /\ nx \in DOMAIN f /\ nx > b
  BY <1>0, SMT DEF Tiles, End
<1>2. /\ DOMAIN h = (DOMAIN f) \ {nx}
      /\ h[b] = Block(f[b].size + H + f[nx].size, 0, f[nx].next)
      /\ \A c \in DOMAIN h : c # b => h[c] = f[c]
  BY <1>1, <1>0, SMT DEF Put, Drop
<1>3. Headers(h)
  BY <1>2, <1>1, <1>0, SMT DEF Headers, Block
<1>4. End(h, b) = End(f, nx) /\ \A c \in DOMAIN h : c # b => End(h, c) = End(f, c)
  BY <1>2, <1>1, <1>0, SMT DEF End, Block
<1>5. \A c, d \in DOMAIN f : c < d => End(f, c) <= d
  BY DEF Tiles
<1>6. BASE \in DOMAIN h
  BY <1>0, <1>1, <1>2, SMT DEF Tiles
<1>7. ASSUME NEW c \in DOMAIN h
      PROVE  /\ BASE <= c /\ h[c].size > 0 /\ End(h, c) <= e
             /\ IF h[c].next = 0 THEN End(h, c) = e ELSE h[c].next = End(h, c) /\ End(h, c) \in DOMAIN h
  <2>1. CASE c = b
    <3>1. BASE <= b /\ f[b].size > 0 /\ f[nx].size > 0 /\ End(f, nx) <= e
      BY <1>1 DEF Tiles
    <3>2. IF f[nx].next = 0 THEN End(f, nx) = e ELSE f[nx].next = End(f, nx) /\ End(f, nx) \in DOMAIN f
      BY <1>1 DEF Tiles
    <3>3. End(f, nx) # nx
      BY <1>0, <1>1, SMT DEF End
    <3> QED BY <3>1, <3>2, <3>3, <2>1, <1>0, <1>1, <1>2, <1>4, SMT DEF Block
  <2>2. CASE c # b
    <3>1. c \in DOMAIN f /\ c # nx
      BY <1>2
    <3>2. BASE <= c /\ f[c].size > 0 /\ End(f, c) <= e
          /\ IF f[c].next = 0 THEN End(f, c) = e ELSE f[c].next = End(f, c) /\ End(f, c) \in DOMAIN f
      BY <3>1 DEF Tiles
    <3>3. End(f, c) # nx
      <4>1. CASE c < b
        <5>1. End(f, c) <= b
          BY <4>1, <3>1, <1>5
        <5> QED BY <5>1, <1>0, <1>1, <3>1, SMT DEF End
      <4>2. CASE b < c
        <5>1. nx <= c
          BY <4>2, <3>1, <1>5, <1>1
        <5> QED BY <5>1, <1>0, <1>1, <3>1, SMT DEF End
      <4> QED BY <4>1, <4>2, <2>2, <3>1, <1>0, SMT
    <3> QED BY <3>1, <3>2, <3>3, <2>2, <1>2, <1>4
  <2> QED BY <2>1, <2>2
<1>8. ASSUME NEW c \in DOMAIN h, NEW d \in DOMAIN h, c < d
      PROVE  End(h, c) <= d
  <2>1. c \in DOMAIN f /\ d \in DOMAIN f /\ d # nx
    BY <1>2
  <2>2. CASE c = b
    <3>1. nx <= d
      BY <2>2, <2>1, <1>8, <1>5, <1>1
    <3>2. nx < d
      BY <3>1, <2>1, <1>0, <1>1, SMT
    <3> QED BY <3>2, <2>1, <2>2, <1>1, <1>4, <1>5
  <2>3. CASE c # b
    BY <2>3, <2>1, <1>4, <1>5, <1>8
  <2> QED BY <2>2, <2>3
<1>9. Tiles(h, e)
  BY <1>6, <1>7, <1>8 DEF Tiles
<1> QED BY <1>1, <1>2, <1>3, <1>9, <1>0, SMT

(* Adding pages at the end, as kheap_grow does, keeps the tiling. *)
LEMMA GrowTiles ==
    ASSUME Headers(blk), Tiles(blk, heap_end), pages \in Nat,
           NEW tail \in hdr, blk[tail].next = 0, NEW n \in Nat \ {0}
    PROVE  /\ Headers(Stitched(tail, n)) /\ Tiles(Stitched(tail, n), heap_end + n * PAGE)
           /\ NoTwoFree(blk) => NoTwoFree(Stitched(tail, n))
           /\ \A c \in hdr : blk[c].used = 1 => /\ c \in DOMAIN Stitched(tail, n)
                                              /\ Stitched(tail, n)[c].used = 1
                                              /\ Stitched(tail, n)[c].size = blk[c].size
           /\ \A c \in DOMAIN Stitched(tail, n) :
                Stitched(tail, n)[c].used = 1 => c \in hdr /\ blk[c].used = 1
<1> DEFINE h == Stitched(tail, n)
<1> DEFINE top == heap_end
<1> DEFINE add == n * PAGE
<1>0. /\ tail \in Nat /\ BASE \in Nat /\ H \in Nat /\ H > 0 /\ top \in Nat /\ top > 0
      /\ add \in Nat /\ add > H
      /\ \A c \in hdr : c \in Nat /\ blk[c].size \in Nat /\ blk[c].next \in Nat /\ blk[c].used \in {0, 1}
  <2>1. add \in Nat /\ add >= PAGE
    BY KheapAssumption, SMT
  <2>2. pages * PAGE \in Nat
    BY KheapAssumption, SMT
  <2> QED BY <2>1, <2>2, KheapAssumption, SMT DEF Headers, hdr, heap_end
<1>1. End(blk, tail) = top
  BY DEF Tiles, hdr
<1>T. Tiles(blk, top)
  OBVIOUS
<1> HIDE DEF top
<1>2. \A c \in hdr : c < top
  BY <1>0, <1>T, SMT DEF Tiles, hdr, End
<1>3. CASE blk[tail].used = 1
  <2> DEFINE g == Put(blk, top, Block(add - H, 0, 0))
  <2>1. h = Put(g, tail, Block(blk[tail].size, 1, top))
    BY <1>3 DEF Stitched, top
  <2>2. /\ DOMAIN h = hdr \cup {top}
        /\ h[tail] = Block(blk[tail].size, 1, top)
        /\ h[top] = Block(add - H, 0, 0)
        /\ \A c \in hdr : c # tail => h[c] = blk[c]
    <3>1. /\ DOMAIN g = hdr \cup {top}
          /\ g[top] = Block(add - H, 0, 0)
          /\ \A c \in hdr : g[c] = blk[c]
      BY <1>0, <1>2, SMT DEF Put, hdr
    <3> HIDE DEF g
    <3>2. tail # top
      BY <1>0, <1>2, SMT
    <3> QED BY <2>1, <3>1, <3>2 DEF Put
  <2> HIDE DEF h, top, add
  <2>3. Headers(h)
    <3>1. DOMAIN h \subseteq Nat
      BY <2>2, <1>0
    <3>2. ASSUME NEW c \in DOMAIN h
          PROVE  h[c].size \in Nat /\ h[c].used \in {0, 1} /\ h[c].next \in Nat
      <4>1. CASE c = top
        BY <4>1, <2>2, <1>0, SMT DEF Block
      <4>2. CASE c = tail
        BY <4>2, <2>2, <1>0, SMT DEF Block
      <4>3. CASE c # top /\ c # tail
        BY <4>3, <2>2, <1>0
      <4> QED BY <4>1, <4>2, <4>3
    <3> QED BY <3>1, <3>2 DEF Headers
  <2>4. End(h, top) = top + add /\ \A c \in hdr : End(h, c) = End(blk, c)
    BY <2>2, <1>0, <1>2, SMT DEF End, Block
  <2>5. ASSUME NEW c \in DOMAIN h
        PROVE  /\ BASE <= c /\ h[c].size > 0 /\ End(h, c) <= top + add
               /\ IF h[c].next = 0 THEN End(h, c) = top + add
                  ELSE h[c].next = End(h, c) /\ End(h, c) \in DOMAIN h
    <3>1. CASE c = top
      <4>1. BASE <= top
        BY <1>0, <1>2, <1>T, SMT DEF Tiles, hdr
      <4> QED BY <4>1, <3>1, <2>2, <2>4, <1>0, SMT DEF Block
    <3>2. CASE c = tail
      BY <3>2, <2>2, <2>4, <1>0, <1>1, <1>T, SMT DEF Tiles, Block, hdr
    <3>3. CASE c # top /\ c # tail
      <4>1. c \in hdr /\ h[c] = blk[c]
        BY <3>3, <2>2
      <4>2. blk[c].next # 0
        <5>1. SUFFICES ASSUME blk[c].next = 0 PROVE FALSE
          OBVIOUS
        <5>2. End(blk, c) = top
          BY <5>1, <4>1, <1>T DEF Tiles, hdr
        <5>3. c < tail => End(blk, c) <= tail
          BY <4>1, <1>T DEF Tiles, hdr
        <5>4. tail < c => End(blk, tail) <= c
          BY <4>1, <1>T DEF Tiles, hdr
        <5>5. c \in Nat /\ c < top /\ tail \in Nat /\ tail < top /\ top \in Nat /\ c # tail
          BY <4>1, <3>3, <1>0, <1>2
        <5> QED BY <5>2, <5>3, <5>4, <5>5, <1>1, SMT
      <4>3. /\ BASE <= c /\ blk[c].size > 0 /\ End(blk, c) <= top
            /\ blk[c].next = End(blk, c) /\ End(blk, c) \in hdr
        BY <4>1, <4>2, <1>T DEF Tiles, hdr
      <4>4. End(blk, c) \in Nat
        BY <4>3, <1>0
      <4>5. End(h, c) = End(blk, c)
        BY <4>1, <2>4
      <4>6. End(blk, c) <= top + add
        BY <4>3, <4>4, <1>0, SMT
      <4>7. End(blk, c) \in DOMAIN h
        BY <4>3, <2>2
      <4> QED BY <4>1, <4>2, <4>3, <4>5, <4>6, <4>7
    <3> QED BY <3>1, <3>2, <3>3
  <2>6. ASSUME NEW c \in DOMAIN h, NEW d \in DOMAIN h, c < d
        PROVE  End(h, c) <= d
    <3>1. CASE c = top
      <4>1. d \in Nat /\ top \in Nat /\ (d = top \/ d < top)
        BY <2>2, <1>0, <1>2
      <4> QED BY <4>1, <3>1, <2>6, SMT
    <3>2. CASE c # top /\ d = top
      BY <3>2, <2>2, <2>4, <1>T DEF Tiles, hdr
    <3>3. CASE c # top /\ d # top
      BY <3>3, <2>6, <2>2, <2>4, <1>T DEF Tiles, hdr
    <3> QED BY <3>1, <3>2, <3>3
  <2>7. BASE \in DOMAIN h
    BY <2>2, <1>T DEF Tiles, hdr
  <2>8. Tiles(h, top + add)
    BY <2>5, <2>6, <2>7 DEF Tiles
  <2>9. NoTwoFree(blk) => NoTwoFree(h)
    <3> SUFFICES ASSUME NoTwoFree(blk), NEW c \in DOMAIN h, h[c].next # 0, h[c].used # 1
                 PROVE  h[h[c].next].used = 1
      BY DEF NoTwoFree
    <3>1. c \in hdr /\ c # tail /\ h[c] = blk[c]
      BY <2>2, SMT DEF Block
    <3>2. blk[c].next \in hdr /\ blk[blk[c].next].used = 1
      BY <3>1, <1>T DEF NoTwoFree, Tiles, hdr
    <3> QED BY <3>1, <3>2, <2>2, SMT DEF Block
  <2>10. /\ \A c \in hdr : blk[c].used = 1 => c \in DOMAIN h /\ h[c].used = 1 /\ h[c].size = blk[c].size
         /\ \A c \in DOMAIN h : h[c].used = 1 => c \in hdr /\ blk[c].used = 1
    BY <2>2, <1>3, SMT DEF Block
  <2> QED BY <2>3, <2>8, <2>9, <2>10 DEF h, top, add
<1>4. CASE blk[tail].used = 0
  <2>1. h = Put(blk, tail, Block(blk[tail].size + add, 0, 0))
    BY <1>4, SMT DEF Stitched, top
  <2>2. /\ DOMAIN h = hdr
        /\ h[tail] = Block(blk[tail].size + add, 0, 0)
        /\ \A c \in hdr : c # tail => h[c] = blk[c]
    BY <2>1 DEF Put, hdr
  <2> HIDE DEF h, top, add
  <2>3. Headers(h)
    <3>1. ASSUME NEW c \in DOMAIN h
          PROVE  h[c].size \in Nat /\ h[c].used \in {0, 1} /\ h[c].next \in Nat
      <4>1. CASE c = tail
        BY <4>1, <2>2, <1>0, SMT DEF Block
      <4>2. CASE c # tail
        BY <4>2, <2>2, <1>0
      <4> QED BY <4>1, <4>2
    <3> QED BY <3>1, <2>2, <1>0 DEF Headers
  <2>4. End(h, tail) = top + add /\ \A c \in hdr : c # tail => End(h, c) = End(blk, c)
    BY <2>2, <1>0, <1>1, SMT DEF End, Block
  <2>5. ASSUME NEW c \in hdr, c # tail
        PROVE  /\ c < tail /\ End(blk, c) <= tail /\ blk[c].next # 0
               /\ BASE <= c /\ blk[c].size > 0 /\ blk[c].next = End(blk, c) /\ End(blk, c) \in hdr
    <3>1. tail < c => End(blk, tail) <= c
      BY <1>T DEF Tiles, hdr
    <3>2. c < tail
      BY <3>1, <2>5, <1>0, <1>1, <1>2, SMT
    <3>3. End(blk, c) <= tail
      BY <3>2, <1>T DEF Tiles, hdr
    <3>4. blk[c].next # 0
      BY <3>3, <1>0, <1>2, <1>T, SMT DEF Tiles, hdr
    <3> QED BY <3>2, <3>3, <3>4, <1>T DEF Tiles, hdr
  <2>6. ASSUME NEW c \in DOMAIN h
        PROVE  /\ BASE <= c /\ h[c].size > 0 /\ End(h, c) <= top + add
               /\ IF h[c].next = 0 THEN End(h, c) = top + add
                  ELSE h[c].next = End(h, c) /\ End(h, c) \in DOMAIN h
    <3>1. CASE c = tail
      <4>1. BASE <= tail /\ blk[tail].size > 0
        BY <1>T DEF Tiles, hdr
      <4> QED BY <4>1, <3>1, <2>2, <2>4, <1>0, SMT DEF Block
    <3>2. CASE c # tail
      <4>1. End(blk, c) \in Nat
        BY <3>2, <2>2, <2>5, <1>0
      <4> QED BY <4>1, <3>2, <2>2, <2>4, <2>5, <1>0, <1>2, SMT
    <3> QED BY <3>1, <3>2
  <2>7. ASSUME NEW c \in DOMAIN h, NEW d \in DOMAIN h, c < d
        PROVE  End(h, c) <= d
    <3>1. CASE c = tail
      <4>1. c \in Nat /\ d \in Nat /\ d \in hdr
        BY <2>2, <1>0
      <4>2. d # tail
        BY <4>1, <3>1, <2>7, SMT
      <4>3. d < tail
        BY <4>1, <4>2, <2>5
      <4> QED BY <4>1, <4>3, <3>1, <2>7, SMT
    <3>2. CASE c # tail
      BY <3>2, <2>7, <2>2, <2>4, <1>T DEF Tiles, hdr
    <3> QED BY <3>1, <3>2
  <2>8. BASE \in DOMAIN h
    BY <2>2, <1>T DEF Tiles, hdr
  <2>9. Tiles(h, top + add)
    BY <2>6, <2>7, <2>8 DEF Tiles
  <2>10. NoTwoFree(blk) => NoTwoFree(h)
    <3> SUFFICES ASSUME NoTwoFree(blk), NEW c \in DOMAIN h, h[c].next # 0, h[c].used # 1
                 PROVE  h[h[c].next].used = 1
      BY DEF NoTwoFree
    <3>1. c \in hdr /\ c # tail /\ h[c] = blk[c]
      BY <2>2, SMT DEF Block
    <3>2. blk[c].next \in hdr /\ blk[blk[c].next].used = 1
      BY <3>1, <1>T DEF NoTwoFree, Tiles, hdr
    <3>3. blk[c].next # tail
      BY <3>2, <1>4, SMT
    <3> QED BY <3>1, <3>2, <3>3, <2>2
  <2>11. /\ \A c \in hdr : blk[c].used = 1 => c \in DOMAIN h /\ h[c].used = 1 /\ h[c].size = blk[c].size
         /\ \A c \in DOMAIN h : h[c].used = 1 => c \in hdr /\ blk[c].used = 1
    BY <2>2, <1>4, SMT DEF Block
  <2> QED BY <2>3, <2>9, <2>10, <2>11 DEF h, top, add
<1> QED BY <1>3, <1>4, <1>0 DEF hdr

-----------------------------------------------------------------------------
IInv == TypeOK /\ HeapSound /\ LiveKept

(* What an allocation of n bytes from block b of a heap f leaves, when f holds
   what is live: find_fit on the heap as it stands or as it has grown. *)
LEMMA FitKeeps ==
    ASSUME NEW f, NEW e \in Nat, Headers(f), Tiles(f, e), NoTwoFree(f),
           NEW b, NEW n \in Sizes, find_fit(f, b, n),
           DOMAIN live \subseteq Nat, \A p \in DOMAIN live : live[p] \in Sizes,
           \A p \in DOMAIN live : p - H \in DOMAIN f /\ f[p - H].used = 1 /\ f[p - H].size >= live[p],
           \A c \in DOMAIN f : f[c].used = 1 => c + H \in DOMAIN live
    PROVE  /\ Headers(blk') /\ Tiles(blk', e) /\ NoTwoFree(blk') /\ LiveKept'
           /\ DOMAIN live' \subseteq Nat /\ \A p \in DOMAIN live' : live'[p] \in Sizes
<1> DEFINE s == ALIGN8(n)
<1> DEFINE h == Take(f, b, s)
<1>0. H \in Nat /\ n \in Nat \ {0}
  BY KheapAssumption
<1>1. s \in Nat \ {0} /\ s >= n
  BY <1>0, Align, SMT
<1>2. b \in DOMAIN f /\ f[b].used = 0 /\ f[b].size >= s /\ blk' = h /\ live' = Put(live, b + H, n)
  BY DEF find_fit, Fits
<1> HIDE DEF s
<1>3. /\ Headers(h) /\ Tiles(h, e) /\ NoTwoFree(h)
      /\ DOMAIN f \subseteq DOMAIN h
      /\ h[b].used = 1 /\ h[b].size >= s
      /\ \A c \in DOMAIN f : c # b => h[c] = f[c]
      /\ \A c \in DOMAIN h : h[c].used = 1 => c \in DOMAIN f
  BY <1>1, <1>2, SplitTiles, SMT
<1> HIDE DEF h
<1>4. b \in Nat /\ f[b].size \in Nat /\ h[b].size \in Nat
  BY <1>2, <1>3 DEF Headers
<1>5. /\ DOMAIN live' = DOMAIN live \cup {b + H} /\ live'[b + H] = n
      /\ \A p \in DOMAIN live : p # b + H => live'[p] = live[p]
  BY <1>2 DEF Put
<1>6. ASSUME NEW p \in DOMAIN live'
      PROVE  p - H \in DOMAIN h /\ h[p - H].used = 1 /\ h[p - H].size >= live'[p]
  <2>1. CASE p = b + H
    <3>1. p - H = b
      BY <2>1, <1>0, <1>4, SMT
    <3> QED BY <3>1, <2>1, <1>0, <1>1, <1>2, <1>3, <1>4, <1>5, SMT
  <2>2. CASE p # b + H
    <3>1. p \in DOMAIN live /\ p \in Nat /\ p - H # b
      BY <2>2, <1>5, <1>0, <1>4, SMT
    <3> QED BY <3>1, <2>2, <1>3, <1>5
  <2> QED BY <2>1, <2>2
<1>7. ASSUME NEW c \in DOMAIN h, h[c].used = 1
      PROVE  c + H \in DOMAIN live'
  <2>1. CASE c = b
    BY <2>1, <1>5
  <2>2. CASE c # b
    BY <2>2, <1>7, <1>3, <1>5
  <2> QED BY <2>1, <2>2
<1>8. LiveKept'
  BY <1>2, <1>6, <1>7 DEF LiveKept, hdr
<1> QED BY <1>0, <1>2, <1>3, <1>4, <1>5, <1>8, SMT

(* A freed block that has absorbed a free successor: the tiling holds, and
   only the block before it can be a free neighbour. *)
LEMMA ForwardKeeps ==
    ASSUME NEW e \in Nat, Headers(blk), Tiles(blk, e), NoTwoFree(blk),
           NEW b \in hdr, blk[b].used = 1
    PROVE  LET f == Forward(b)
           IN  /\ Headers(f) /\ Tiles(f, e)
               /\ b \in DOMAIN f /\ DOMAIN f \subseteq hdr /\ f[b].used = 0
               /\ \A c \in hdr : blk[c].used = 1 => c \in DOMAIN f
               /\ \A c \in DOMAIN f : c # b => f[c] = blk[c]
               /\ f[b].next # 0 => f[f[b].next].used = 1 /\ f[b].next # b
<1> DEFINE f == Forward(b)
<1> DEFINE nx == blk[b].next
<1>0. b \in Nat /\ H \in Nat /\ H > 0
      /\ \A c \in hdr : c \in Nat /\ blk[c].size \in Nat /\ blk[c].next \in Nat /\ blk[c].used \in {0, 1}
  BY KheapAssumption DEF Headers, hdr
<1>1. CASE nx # 0 /\ blk[nx].used = 0
  <2>1. f = Put(Drop(blk, nx), b, Block(blk[b].size + H + blk[nx].size, 0, blk[nx].next))
    BY <1>1 DEF Forward
  <2>2. /\ Headers(f) /\ Tiles(f, e)
        /\ nx \in hdr /\ nx # b
        /\ DOMAIN f = hdr \ {nx}
        /\ f[b] = Block(blk[b].size + H + blk[nx].size, 0, blk[nx].next)
        /\ \A c \in DOMAIN f : c # b => f[c] = blk[c]
    <3>1. b \in DOMAIN blk /\ nx # 0 /\ nx = blk[b].next
      BY <1>1 DEF hdr
    <3> HIDE DEF f, nx
    <3> QED BY <2>1, <3>1, MergeTiles, SMTT(60) DEF hdr
  <2> HIDE DEF f
  <2>3. ASSUME f[b].next # 0
        PROVE  f[f[b].next].used = 1 /\ f[b].next # b
    <3>1. f[b].next = blk[nx].next
      BY <2>2, SMT DEF Block
    <3>2. blk[blk[nx].next].used = 1 /\ blk[nx].next \in hdr
      BY <3>1, <2>3, <2>2, <1>1, SMT DEF NoTwoFree, Tiles, hdr
    <3>3. blk[nx].next > nx /\ nx > b
      BY <3>1, <2>3, <2>2, <1>0, SMTT(60) DEF Tiles, End, hdr
    <3> QED BY <3>1, <3>2, <3>3, <2>2, <1>0, SMT
  <2> QED BY <2>2, <2>3, <1>1, SMT DEF Block, f
<1>2. CASE ~(nx # 0 /\ blk[nx].used = 0)
  <2>1. f = Put(blk, b, Block(blk[b].size, 0, nx))
    BY <1>2 DEF Forward
  <2>2. /\ DOMAIN f = hdr /\ f[b] = Block(blk[b].size, 0, nx)
        /\ \A c \in DOMAIN f : c # b => f[c] = blk[c]
    BY <2>1 DEF Put, hdr
  <2> HIDE DEF f
  <2>3. \A c \in hdr : f[c].size = blk[c].size /\ f[c].next = blk[c].next /\ End(f, c) = End(blk, c)
    BY <2>2, SMT DEF End, Block
  <2>4. Headers(f)
    <3>1. f[b].used = 0
      BY <2>2, SMT DEF Block
    <3> QED BY <3>1, <2>2, <2>3, <1>0 DEF Headers
  <2>5. Tiles(f, e)
    BY <2>2, <2>3 DEF Tiles, hdr
  <2>6. ASSUME f[b].next # 0
        PROVE  f[f[b].next].used = 1 /\ f[b].next # b
    <3>1. nx \in hdr /\ nx > b /\ f[b].next = nx
      BY <2>6, <2>3, <1>0, SMT DEF Tiles, End, hdr
    <3> QED BY <3>1, <2>6, <2>2, <2>3, <1>0, <1>2, SMT
  <2> QED BY <2>2, <2>4, <2>5, <2>6, SMT DEF Block, f
<1> QED BY <1>1, <1>2

(* kfree keeps the invariant: the block's predecessor absorbs it if it is
   free. *)
LEMMA FreeKeeps ==
    ASSUME IInv, NEW ptr \in DOMAIN live, kfree(ptr)
    PROVE  IInv'
<1> DEFINE b == ptr - H
<1> DEFINE f == Forward(b)
<1> DEFINE e == heap_end
<1>0. /\ e \in Nat /\ Headers(blk) /\ Tiles(blk, e) /\ NoTwoFree(blk) /\ H \in Nat /\ H > 0
      /\ DOMAIN live \subseteq Nat /\ pages' = pages /\ heap_end' = e
  <2>1. pages * PAGE \in Nat
    BY KheapAssumption, SMT DEF IInv, TypeOK
  <2> QED BY <2>1, KheapAssumption, SMT DEF IInv, TypeOK, HeapSound, heap_end, kfree
<1>1. b \in hdr /\ blk[b].used = 1 /\ ptr \in Nat
  BY <1>0 DEF IInv, LiveKept
<1>2. /\ Headers(f) /\ Tiles(f, e)
      /\ b \in DOMAIN f /\ DOMAIN f \subseteq hdr /\ f[b].used = 0
      /\ \A c \in hdr : blk[c].used = 1 => c \in DOMAIN f
      /\ \A c \in DOMAIN f : c # b => f[c] = blk[c]
      /\ f[b].next # 0 => f[f[b].next].used = 1 /\ f[b].next # b
  <2> HIDE DEF b, e
  <2> QED BY <1>0, <1>1, ForwardKeeps
<1>3. live' = Drop(live, ptr) /\ DOMAIN live' = DOMAIN live \ {ptr} /\ \A p \in DOMAIN live' : live'[p] = live[p]
  BY DEF kfree, Drop
<1> HIDE DEF f, e
<1>4. /\ Headers(blk') /\ Tiles(blk', e) /\ NoTwoFree(blk')
      /\ \A c \in hdr : blk[c].used = 1 /\ c # b => c \in hdr' /\ blk'[c] = blk[c]
      /\ \A c \in hdr' : blk'[c].used = 1 => c \in hdr /\ c # b /\ blk[c].used = 1
  <2>1. CASE \E p \in hdr : blk[p].next = b /\ blk[p].used = 0 /\ blk' = Backward(f, p, b)
    <3>1. PICK p \in hdr : blk[p].next = b /\ blk[p].used = 0 /\ blk' = Backward(f, p, b)
      BY <2>1
    <3>2. p # b /\ p < b /\ b # 0
      <4>1. b \in Nat /\ p \in Nat /\ blk[p].size \in Nat /\ b >= BASE
        BY <3>1, <1>0, <1>1 DEF Headers, Tiles, hdr
      <4>2. b # 0
        BY <4>1, KheapAssumption, SMT
      <4>3. b = p + H + blk[p].size
        BY <4>2, <3>1, <1>0 DEF Tiles, End, hdr
      <4> HIDE DEF b
      <4> QED BY <4>1, <4>2, <4>3, <1>0, SMT
    <3>3. p \in DOMAIN f /\ f[p] = blk[p]
      <4>1. CASE blk[b].next = 0 \/ blk[blk[b].next].used = 1
        BY <4>1, <3>1, <3>2, <1>2 DEF f, Forward, Put, hdr
      <4>2. CASE ~(blk[b].next = 0 \/ blk[blk[b].next].used = 1)
        <5>1. blk[b].next > b
          <6>1. b \in DOMAIN blk /\ blk[b].next # 0
            BY <4>2, <1>1 DEF hdr
          <6>2. b \in Nat /\ blk[b].size \in Nat /\ blk[b].next \in Nat
            BY <6>1, <1>0 DEF Headers
          <6>3. blk[b].next = b + H + blk[b].size
            BY <6>1, <1>0 DEF Tiles, End
          <6>4. H \in Nat /\ H > 0
            BY <1>0
          <6> DEFINE x == blk[b].next
          <6> DEFINE y == blk[b].size
          <6>5. x \in Nat /\ y \in Nat /\ x = b + H + y
            BY <6>2, <6>3
          <6> HIDE DEF b, x, y
          <6>6. x > b
            BY <6>2, <6>4, <6>5, SMT
          <6> QED BY <6>6 DEF x
        <5>2. p # blk[b].next
          <6>1. p \in Nat /\ b \in Nat /\ blk[b].next \in Nat
            BY <1>0, <1>1, <3>1 DEF Headers, hdr
          <6> HIDE DEF b
          <6> QED BY <6>1, <5>1, <3>2, SMT
        <5>3. p \in DOMAIN f
          BY <5>2, <4>2, <3>1, <3>2 DEF f, Forward, Put, Drop, hdr
        <5> QED BY <5>3, <3>2, <1>2
      <4> QED BY <4>1, <4>2
    <3>4. blk' = Put(Drop(f, b), p, Block(f[p].size + H + f[b].size, 0, f[b].next))
      BY <3>1 DEF Backward
    <3>5. /\ Headers(blk') /\ Tiles(blk', e)
          /\ DOMAIN blk' = (DOMAIN f) \ {b}
          /\ blk'[p] = Block(f[p].size + H + f[b].size, 0, f[b].next)
          /\ \A c \in DOMAIN blk' : c # p => blk'[c] = f[c]
      <4>1. f[p].next = b /\ b # 0
        BY <3>1, <3>2, <3>3
      <4> HIDE DEF b
      <4> DEFINE g == blk'
      <4>2. g = Put(Drop(f, b), p, Block(f[p].size + H + f[b].size, 0, f[b].next))
        BY <3>4
      <4> HIDE DEF g
      <4>0. e \in Nat /\ Headers(f) /\ Tiles(f, e) /\ p \in DOMAIN f
        BY <3>3, <1>0, <1>2
      <4>3. /\ Headers(g) /\ Tiles(g, e)
            /\ DOMAIN g = (DOMAIN f) \ {b}
            /\ g[p] = Block(f[p].size + H + f[b].size, 0, f[b].next)
            /\ \A c \in DOMAIN g : c # p => g[c] = f[c]
        BY <4>0, <4>1, <4>2, MergeTiles, SMTT(60)
      <4> QED BY <4>3 DEF g
    <3>6. NoTwoFree(blk')
      <4> SUFFICES ASSUME NEW c \in DOMAIN blk', blk'[c].next # 0, blk'[c].used # 1
                   PROVE  blk'[blk'[c].next].used = 1
        BY DEF NoTwoFree
      <4>1. CASE c = p
        <5>1. blk'[c].next = f[b].next /\ f[b].next # 0
          BY <4>1, <3>5, SMT DEF Block
        <5>2. f[b].next \in DOMAIN f /\ f[b].next # b /\ f[f[b].next].used = 1
          BY <5>1, <1>2 DEF Tiles
        <5>3. f[b].next # p
          BY <5>2, <3>3, <3>1, SMT
        <5> QED BY <5>1, <5>2, <5>3, <3>5
      <4>2. CASE c # p
        <5>1. c \in DOMAIN f /\ c # b /\ c \in hdr /\ blk'[c] = blk[c] /\ f[c] = blk[c]
          BY <4>2, <3>5, <1>2
        <5>2. blk[c].next \in hdr /\ blk[blk[c].next].used = 1
          BY <5>1, <1>0 DEF NoTwoFree, Tiles, hdr
        <5>3. blk[c].next # b
          <6>1. SUFFICES ASSUME blk[c].next = b PROVE FALSE
            OBVIOUS
          <6>2. End(blk, c) = b /\ End(blk, p) = b
            BY <6>1, <5>1, <3>1, <3>2, <1>0 DEF Tiles, hdr
          <6>3. (c < p => End(blk, c) <= p) /\ (p < c => End(blk, p) <= c)
            BY <5>1, <3>1, <1>0 DEF Tiles, hdr
          <6> QED BY <6>2, <6>3, <5>1, <4>2, <3>1, <3>2, <1>0, SMT DEF Headers, End, hdr
        <5>4. blk[c].next \in DOMAIN f /\ f[blk[c].next] = blk[blk[c].next] /\ blk[c].next # p
          BY <5>2, <5>3, <3>1, <1>2, SMT
        <5> QED BY <5>1, <5>2, <5>3, <5>4, <3>5
      <4> QED BY <4>1, <4>2
    <3>7. /\ \A c \in hdr : blk[c].used = 1 /\ c # b => c \in hdr' /\ blk'[c] = blk[c]
          /\ \A c \in hdr' : blk'[c].used = 1 => c \in hdr /\ c # b /\ blk[c].used = 1
      BY <3>1, <3>5, <1>2, SMT DEF hdr, Block
    <3> QED BY <3>5, <3>6, <3>7
  <2>2. CASE (\A p \in hdr : blk[p].next = b => blk[p].used = 1) /\ blk' = f
    <3>1. NoTwoFree(f)
      <4> SUFFICES ASSUME NEW c \in DOMAIN f, f[c].next # 0, f[c].used # 1
                   PROVE  f[f[c].next].used = 1
        BY DEF NoTwoFree
      <4>1. CASE c = b
        BY <4>1, <1>2
      <4>2. CASE c # b
        <5>1. c \in hdr /\ f[c] = blk[c] /\ blk[c].next # b
          BY <4>2, <2>2, <1>2
        <5>2. blk[c].next \in hdr /\ blk[blk[c].next].used = 1
          BY <5>1, <1>0 DEF NoTwoFree, Tiles, hdr
        <5> QED BY <5>1, <5>2, <1>2
      <4> QED BY <4>1, <4>2
    <3> QED BY <3>1, <2>2, <1>2, SMT DEF hdr
  <2> QED BY <2>1, <2>2 DEF kfree, f
<1>5. LiveKept'
  <2>1. ASSUME NEW p \in DOMAIN live'
        PROVE  p - H \in hdr' /\ blk'[p - H].used = 1 /\ blk'[p - H].size >= live'[p]
    <3>1. p \in DOMAIN live /\ p # ptr /\ p \in Nat
      BY <1>3, <1>0
    <3>2. p - H \in hdr /\ blk[p - H].used = 1 /\ blk[p - H].size >= live[p]
      BY <3>1 DEF IInv, LiveKept
    <3>3. p - H # b
      BY <3>1, <1>0, <1>1, SMT
    <3> QED BY <3>2, <3>3, <1>3, <1>4
  <2>2. ASSUME NEW c \in hdr', blk'[c].used = 1
        PROVE  c + H \in DOMAIN live'
    <3>1. c \in hdr /\ c # b /\ blk[c].used = 1 /\ c \in Nat
      BY <2>2, <1>0, <1>4 DEF Headers, hdr
    <3>2. c + H \in DOMAIN live /\ c + H # ptr
      BY <3>1, <1>0, <1>1, SMT DEF IInv, LiveKept
    <3> QED BY <3>2, <1>3
  <2> QED BY <2>1, <2>2 DEF LiveKept
<1>6. TypeOK'
  BY <1>0, <1>3, <1>4 DEF IInv, TypeOK
<1> QED BY <1>0, <1>4, <1>5, <1>6 DEF IInv, HeapSound

(* kmalloc keeps the invariant, whether or not the heap has to grow. *)
LEMMA AllocKeeps ==
    ASSUME IInv, NEW n \in Sizes, kmalloc(n) \/ kmalloc_grow(n)
    PROVE  IInv'
<1> DEFINE np == needed_pages(ALIGN8(n) + H)
<1>0. /\ heap_end \in Nat /\ pages \in Nat /\ pages >= INITIAL /\ PAGE \in Nat /\ MAXPAGES \in Nat
      /\ MIN_GROW_PAGES \in Nat /\ PAGE > 0 /\ H \in Nat /\ n \in Nat \ {0} /\ pages <= MAXPAGES
      /\ INITIAL \in Nat
  <2>1. pages * PAGE \in Nat
    BY KheapAssumption, SMT DEF IInv, TypeOK
  <2> QED BY <2>1, KheapAssumption, SMT DEF IInv, TypeOK, heap_end
<1>1. /\ Headers(blk) /\ Tiles(blk, heap_end) /\ NoTwoFree(blk)
      /\ DOMAIN live \subseteq Nat /\ \A p \in DOMAIN live : live[p] \in Sizes
      /\ \A p \in DOMAIN live : p - H \in DOMAIN blk /\ blk[p - H].used = 1 /\ blk[p - H].size >= live[p]
      /\ \A c \in DOMAIN blk : blk[c].used = 1 => c + H \in DOMAIN live
  BY DEF IInv, TypeOK, HeapSound, LiveKept, hdr
<1>2. CASE kmalloc(n)
  <2>1. PICK b \in hdr : find_fit(blk, b, n)
    BY <1>2 DEF kmalloc
  <2>2. /\ Headers(blk') /\ Tiles(blk', heap_end) /\ NoTwoFree(blk') /\ LiveKept'
        /\ DOMAIN live' \subseteq Nat /\ \A p \in DOMAIN live' : live'[p] \in Sizes
    BY <2>1, <1>0, <1>1, FitKeeps
  <2>3. pages' = pages /\ heap_end' = heap_end
    BY <1>2 DEF kmalloc, heap_end
  <2> QED BY <2>2, <2>3 DEF IInv, TypeOK, HeapSound
<1>3. CASE kmalloc_grow(n)
  <2>1. np \in Nat \ {0} /\ pages + np <= MAXPAGES
    <3>1. ALIGN8(n) + H \in Nat
      BY <1>0, Align, SMT
    <3> DEFINE x == ALIGN8(n) + H
    <3> DEFINE q == (x + PAGE - 1) \div PAGE
    <3>2. q \in Nat
      <4> HIDE DEF x
      <4> QED BY <3>1, <1>0, SMT DEF x
    <3>3. np > 0
      BY <1>3 DEF kmalloc_grow
    <3>4. np = LET w == IF q < MIN_GROW_PAGES THEN MIN_GROW_PAGES ELSE q
               IN  IF w > MAXPAGES - pages THEN MAXPAGES - pages ELSE w
      BY DEF needed_pages
    <3> HIDE DEF q, np
    <3> QED BY <3>2, <3>3, <3>4, <1>0, SMT
  <2>2. pages' = pages + np
    BY <1>3 DEF kmalloc_grow
  <2> HIDE DEF np
  <2>3. heap_end' = heap_end + np * PAGE /\ heap_end' \in Nat
    <3>1. (pages + np) * PAGE = pages * PAGE + np * PAGE /\ np * PAGE \in Nat
      BY <2>1, <1>0, SMT
    <3> QED BY <3>1, <2>2, <1>0, KheapAssumption, SMT DEF heap_end
  <2>4. PICK tail \in hdr : /\ blk[tail].next = 0
                            /\ \/ \E b \in DOMAIN Stitched(tail, np) : find_fit(Stitched(tail, np), b, n)
                               \/ blk' = Stitched(tail, np) /\ UNCHANGED live
    BY <1>3 DEF kmalloc_grow, np
  <2> DEFINE h == Stitched(tail, np)
  <2>5. /\ Headers(h) /\ Tiles(h, heap_end + np * PAGE) /\ NoTwoFree(h)
        /\ \A c \in hdr : blk[c].used = 1 => c \in DOMAIN h /\ h[c].used = 1 /\ h[c].size = blk[c].size
        /\ \A c \in DOMAIN h : h[c].used = 1 => c \in hdr /\ blk[c].used = 1
    BY <2>1, <2>4, <1>0, <1>1, GrowTiles
  <2> HIDE DEF h
  <2>6. /\ \A p \in DOMAIN live : p - H \in DOMAIN h /\ h[p - H].used = 1 /\ h[p - H].size >= live[p]
        /\ \A c \in DOMAIN h : h[c].used = 1 => c + H \in DOMAIN live
    BY <2>5, <1>1 DEF hdr
  <2>7. /\ Headers(blk') /\ Tiles(blk', heap_end') /\ NoTwoFree(blk') /\ LiveKept'
        /\ DOMAIN live' \subseteq Nat /\ \A p \in DOMAIN live' : live'[p] \in Sizes
    <3>1. CASE \E b \in DOMAIN h : find_fit(h, b, n)
      BY <3>1, <2>3, <2>5, <2>6, <1>1, FitKeeps
    <3>2. CASE blk' = h /\ UNCHANGED live
      BY <3>2, <2>3, <2>5, <2>6, <1>1 DEF LiveKept, hdr
    <3> QED BY <3>1, <3>2, <2>4 DEF h
  <2>8. pages' \in INITIAL..MAXPAGES
    BY <2>1, <2>2, <1>0, SMT
  <2> QED BY <2>7, <2>8 DEF IInv, TypeOK, HeapSound
<1> QED BY <1>2, <1>3

(* kheap_init makes one free block of the initial pages. *)
LEMMA InitKeeps ==
    ASSUME Init
    PROVE  IInv
<1> DEFINE room == INITIAL * PAGE
<1>1. room \in Nat /\ room > H /\ BASE \in Nat /\ H \in Nat /\ BASE > 0
  <2>1. INITIAL * PAGE >= PAGE
    BY KheapAssumption, SMT
  <2> QED BY <2>1, KheapAssumption, SMT
<1>2. /\ hdr = {BASE} /\ blk[BASE] = Block(room - H, 0, 0) /\ heap_end = BASE + room
      /\ DOMAIN live = {} /\ pages = INITIAL
  BY DEF Init, hdr, heap_end
<1> HIDE DEF room
<1>3. blk[BASE].size = room - H /\ blk[BASE].used = 0 /\ blk[BASE].next = 0
  BY <1>2, SMT DEF Block
<1>4. TypeOK
  BY <1>1, <1>2, <1>3, KheapAssumption, SMT DEF TypeOK, Headers, hdr
<1>5. HeapSound
  BY <1>1, <1>2, <1>3, SMT DEF HeapSound, Tiles, NoTwoFree, End, hdr
<1>6. LiveKept
  BY <1>2, <1>3, SMT DEF LiveKept
<1> QED BY <1>4, <1>5, <1>6 DEF IInv

(* Every step of the heap keeps the invariant. *)
LEMMA StepKeeps == IInv /\ [Next]_vars => IInv'
<1> SUFFICES ASSUME IInv, [Next]_vars
             PROVE  IInv'
  OBVIOUS
<1>1. CASE \E n \in Sizes : kmalloc(n) \/ kmalloc_grow(n)
  BY <1>1, AllocKeeps
<1>2. CASE \E ptr \in DOMAIN live : kfree(ptr)
  BY <1>2, FreeKeeps
<1>3. CASE UNCHANGED vars
  BY <1>3 DEF vars, IInv, TypeOK, HeapSound, LiveKept, Headers, Tiles, NoTwoFree, End, hdr, heap_end
<1> QED BY <1>1, <1>2, <1>3 DEF Next, kmalloc_fail

(* Whatever sequence of kmalloc and kfree calls is made, for every header
   size, page size and limit, the blocks tile the heap and no two neighbours
   are free. *)
THEOREM HeapAlwaysSound == Spec => []HeapSound
<1>1. IInv => HeapSound
  BY DEF IInv
<1> QED BY <1>1, InitKeeps, StepKeeps, PTL DEF Spec

(* Whatever sequence of kmalloc and kfree calls is made, the areas handed out
   stay in use, and at least as large as was asked for, until they are
   freed. *)
THEOREM LiveAlwaysKept == Spec => []LiveKept
<1>1. IInv => LiveKept
  BY DEF IInv
<1> QED BY <1>1, InitKeeps, StepKeeps, PTL DEF Spec

(* The state of the heap always has the types of kheap.c. *)
THEOREM TypeCorrect == Spec => []TypeOK
<1>1. IInv => TypeOK
  BY DEF IInv
<1> QED BY <1>1, InitKeeps, StepKeeps, PTL DEF Spec

(* When everything allocated has been freed the heap is one free block of
   all its pages: merging with both neighbours leaves no fragmentation. *)
THEOREM AlwaysReclaimed == Spec => []Reclaimed
<1>1. IInv => Reclaimed
  <2> SUFFICES ASSUME IInv, DOMAIN live = {}
               PROVE  hdr = {BASE} /\ blk[BASE].size = pages * PAGE - H
    BY DEF Reclaimed
  <2>0. pages * PAGE \in Nat /\ BASE \in Nat /\ H \in Nat /\ BASE > 0
    BY KheapAssumption, SMT DEF IInv, TypeOK
  <2>1. \A b \in hdr : b \in Nat /\ blk[b].used = 0 /\ blk[b].size \in Nat /\ BASE <= b
    BY DEF IInv, LiveKept, HeapSound, Tiles, TypeOK, Headers, hdr
  <2>2. BASE \in hdr /\ \A b \in hdr : blk[b].next = 0
    BY <2>1, SMT DEF IInv, HeapSound, NoTwoFree, Tiles, hdr
  <2>3. \A b \in hdr : b + H + blk[b].size = BASE + pages * PAGE
    BY <2>2 DEF IInv, HeapSound, Tiles, End, heap_end, hdr
  <2>4. \A b \in hdr : BASE < b => BASE + H + blk[BASE].size <= b
    BY <2>2 DEF IInv, HeapSound, Tiles, End, hdr
  <2>5. \A b \in hdr : b < BASE + pages * PAGE
    BY <2>3, <2>1, <2>0, KheapAssumption, SMTT(60)
  <2>6. hdr = {BASE}
    <3>1. SUFFICES ASSUME NEW b \in hdr, b # BASE PROVE FALSE
      BY <2>2
    <3>2. BASE < b
      BY <3>1, <2>0, <2>1, SMT
    <3> DEFINE top == BASE + pages * PAGE
    <3>3. top <= b /\ b < top /\ top \in Nat /\ b \in Nat
      BY <3>2, <2>0, <2>1, <2>2, <2>3, <2>4, <2>5, SMT
    <3> HIDE DEF top
    <3> QED BY <3>3, SMT
  <2> QED BY <2>6, <2>3, <2>0, <2>1, SMT
<1> QED BY <1>1, InitKeeps, StepKeeps, PTL DEF Spec

=============================================================================
