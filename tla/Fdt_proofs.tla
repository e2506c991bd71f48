----------------------------- MODULE Fdt_proofs ------------------------------
(***************************************************************************)
(* The counts and the contents of the pipes of Fdt, for any number of      *)
(* processes, descriptors and pipes and any size of the ring.              *)
(***************************************************************************)
EXTENDS Fdt, TLAPS, FiniteSetTheorems

(* A step is proved by Zenon within 20 seconds, or names another prover. *)
USE ZenonT(20)

B == PIPE_BUF_SIZE

EntryType == [kind : Kinds, offset : Pipes, cloexec : {0, 1}]
PipeType == [read_open : Nat, write_open : Nat, head : 0..B-1, tail : 0..B-1, used : 0..B,
             buf : [0..B-1 -> Nat]]
OpType == [call : {"idle", "read", "write"}, pipe : Pipes, left : Nat, count : Nat]

-----------------------------------------------------------------------------
(* The indices of a ring, and the least of a set. *)
LEMMA Mod ==
    ASSUME NEW a \in 0..(2 * B - 1)
    PROVE  a % B = IF a < B THEN a ELSE a - B
<1> DEFINE n == B
<1>1. n \in Nat \ {0} /\ a \in 0..(2 * n - 1)
  BY FdtAssumption DEF B
<1> HIDE DEF n
<1>2. CASE a < n
  BY <1>1, <1>2, SMT DEF n
<1>3. CASE a >= n
  <2>1. a = n * 1 + (a - n) /\ a - n \in 0..(n - 1)
    BY <1>1, <1>3, SMT
  <2>2. a % n = a - n
    BY <1>1, <2>1, SMT
  <2> QED BY <1>1, <1>3, <2>2, SMT DEF n
<1> QED BY <1>1, <1>2, <1>3, SMT

LEMMA ModSum ==
    ASSUME NEW x, NEW y, x + y \in 0..(2 * B - 1)
    PROVE  (x + y) % B = IF x + y < B THEN x + y ELSE (x + y) - B
<1> DEFINE a == x + y
<1>1. a \in 0..(2 * B - 1)
  OBVIOUS
<1> HIDE DEF a
<1>2. a % B = IF a < B THEN a ELSE a - B
  BY <1>1, Mod
<1> QED BY <1>2 DEF a

LEMMA MinOf ==
    ASSUME NEW T, T \subseteq Nat, T # {}
    PROVE  Min(T) \in T /\ \A y \in T : Min(T) <= y
<1>1. \E x \in T : \A y \in T : ~ (<<y, x>> \in OpToRel(<, Nat))
  BY WFMin, NatLessThanWellFounded
<1>2. PICK x \in T : \A y \in T : ~ (<<y, x>> \in OpToRel(<, Nat))
  BY <1>1
<1>3. \A y \in T : ~ (y < x)
  BY <1>2 DEF OpToRel
<1>4. \A y \in T : x =< y
  BY <1>3, SMT
<1> QED BY <1>4 DEF Min

LEMMA MinPair ==
    ASSUME NEW a \in Nat, NEW b \in Nat
    PROVE  Min({a, b}) \in Nat /\ Min({a, b}) <= a /\ Min({a, b}) <= b
<1>1. Min({a, b}) \in {a, b} /\ \A y \in {a, b} : Min({a, b}) <= y
  BY MinOf
<1> QED BY <1>1

-----------------------------------------------------------------------------
(* The ring of a pipe, g bytes of which were read. *)
Holds(q, g) ==
    /\ q.tail = (q.head + q.used) % B
    /\ \A k \in 0..q.used-1 : q.buf[(q.head + k) % B] = g + k

LEMMA TakenIs ==
    ASSUME NEW q \in PipeType, NEW g \in Nat, NEW n \in 0..q.used, Holds(q, g)
    PROVE  /\ Taken(q, n) \in PipeType /\ Taken(q, n).used = q.used - n
           /\ Taken(q, n).read_open = q.read_open /\ Taken(q, n).write_open = q.write_open
           /\ Holds(Taken(q, n), g + n)
<1> DEFINE r == Taken(q, n)
           h == q.head
           u == q.used
<1>1. B \in Nat \ {0} /\ h \in 0..B-1 /\ u \in 0..B
  BY FdtAssumption DEF B, PipeType
<1>2. h + n \in 0..(2 * B - 1) /\ h + u \in 0..(2 * B - 1)
  BY <1>1, SMT
<1>3. /\ (h + n) % B = IF h + n < B THEN h + n ELSE h + n - B
      /\ (h + u) % B = IF h + u < B THEN h + u ELSE h + u - B
  BY <1>1, <1>2, ModSum, SMT
<1>4. (h + n) % B \in 0..B-1 /\ u - n \in 0..B
  BY <1>1, <1>2, <1>3, SMT
<1>5. r = [q EXCEPT !.head = (h + n) % B, !.used = u - n]
  BY DEF Taken, B
<1>6. r \in PipeType /\ r.head = (h + n) % B /\ r.used = u - n /\ r.tail = q.tail /\ r.buf = q.buf
      /\ r.read_open = q.read_open /\ r.write_open = q.write_open
  BY <1>4, <1>5 DEF PipeType
<1> HIDE DEF r
<1>7. r.tail = (r.head + r.used) % B
  <2> DEFINE a == r.head + r.used
  <2>1. a \in 0..(2 * B - 1) /\ (a = h + u \/ a = h + u - B)
    BY <1>1, <1>2, <1>3, <1>6, SMT
  <2> HIDE DEF a
  <2>2. a % B = IF a < B THEN a ELSE a - B
    BY <2>1, Mod
  <2>3. a % B = (h + u) % B
    BY <1>1, <1>2, <1>3, <2>1, <2>2, SMT
  <2> QED BY <1>6, <2>3 DEF a, Holds
<1>8. ASSUME NEW k \in 0..r.used-1 PROVE r.buf[(r.head + k) % B] = g + n + k
  <2> DEFINE a == r.head + k
             m == n + k
             b == h + m
  <2>1. /\ m \in 0..u-1 /\ a \in 0..(2 * B - 1) /\ b \in 0..(2 * B - 1)
        /\ a = b \/ a = b - B
    BY <1>1, <1>2, <1>3, <1>6, SMT
  <2> HIDE DEF a, b
  <2>2. (a % B = IF a < B THEN a ELSE a - B) /\ (b % B = IF b < B THEN b ELSE b - B)
    BY <2>1, Mod
  <2>3. a % B = b % B
    BY <1>1, <2>1, <2>2, SMT
  <2>4. q.buf[(h + m) % B] = g + m
    BY <2>1 DEF Holds
  <2> QED BY <1>1, <1>6, <2>1, <2>3, <2>4, SMT DEF a, b
<1> QED BY <1>6, <1>7, <1>8 DEF r, Holds

LEMMA PutIs ==
    ASSUME NEW q \in PipeType, NEW g \in Nat, NEW n \in 0..B - q.used, Holds(q, g)
    PROVE  LET r == Put(q, g + q.used, n) IN
           /\ r \in PipeType /\ r.used = q.used + n
           /\ r.read_open = q.read_open /\ r.write_open = q.write_open
           /\ Holds(r, g)
<1> DEFINE h == q.head
           u == q.used
           t == q.tail
           r == Put(q, g + u, n)
           dist(k) == (k + B - t) % B
<1>1. B \in Nat \ {0} /\ h \in 0..B-1 /\ u \in 0..B /\ t \in 0..B-1 /\ n \in Nat /\ u + n <= B
  BY FdtAssumption, SMT DEF B, PipeType
<1>2. h + u \in 0..(2 * B - 1) /\ t + n \in 0..(2 * B - 1)
  BY <1>1, SMT
<1>3. t = IF h + u < B THEN h + u ELSE h + u - B
  BY <1>1, <1>2, ModSum, SMT DEF Holds
<1>4. (t + n) % B = IF t + n < B THEN t + n ELSE t + n - B
  BY <1>1, <1>2, ModSum, SMT
<1>5. \A k \in 0..B-1 : dist(k) = (IF k < t THEN k + B - t ELSE k - t) /\ dist(k) \in Nat
  <2> SUFFICES ASSUME NEW k \in 0..B-1
               PROVE  dist(k) = (IF k < t THEN k + B - t ELSE k - t) /\ dist(k) \in Nat
    OBVIOUS
  <2> DEFINE a == k + B - t
  <2>1. a \in 0..(2 * B - 1)
    BY <1>1, SMT
  <2> HIDE DEF a
  <2>2. a % B = IF a < B THEN a ELSE a - B
    BY <2>1, Mod
  <2> QED BY <1>1, <2>1, <2>2, SMT DEF a
<1> DEFINE nb == [k \in 0..B-1 |-> IF dist(k) < n THEN g + u + dist(k) ELSE q.buf[k]]
<1>6. q.buf \in [0..B-1 -> Nat] /\ DOMAIN q.buf = 0..B-1
  BY DEF PipeType
<1>7. r = [q EXCEPT !.buf = nb, !.tail = (t + n) % B, !.used = u + n]
  BY <1>6 DEF Put, B
<1> HIDE DEF dist
<1>8. nb \in [0..B-1 -> Nat]
  <2>1. ASSUME NEW k \in 0..B-1
        PROVE  (IF dist(k) < n THEN g + u + dist(k) ELSE q.buf[k]) \in Nat
    <3>1. dist(k) \in Nat
      BY <1>5
    <3>2. q.buf[k] \in Nat
      BY <1>6
    <3>3. u \in Nat
      BY <1>1, SMT
    <3> QED BY <3>1, <3>2, <3>3, SMT
  <2> QED BY <2>1
<1>9. (t + n) % B \in 0..B-1 /\ u + n \in 0..B
  BY <1>1, <1>2, <1>4, SMT
<1>10. \A k \in 0..B-1 : nb[k] = IF dist(k) < n THEN g + u + dist(k) ELSE q.buf[k]
  OBVIOUS
<1> HIDE DEF nb
<1>11. /\ r \in PipeType /\ r.head = h /\ r.used = u + n /\ r.tail = (t + n) % B /\ r.buf = nb
       /\ r.read_open = q.read_open /\ r.write_open = q.write_open
  BY <1>7, <1>8, <1>9 DEF PipeType
<1> HIDE DEF r
<1>12. r.tail = (r.head + r.used) % B
  <2> DEFINE a == r.head + r.used
  <2>1. a \in 0..(2 * B - 1) /\ a = h + u + n
    BY <1>1, <1>11, SMT
  <2> HIDE DEF a
  <2>2. a % B = IF a < B THEN a ELSE a - B
    BY <2>1, Mod
  <2>3. a % B = (t + n) % B
    BY <1>1, <1>2, <1>3, <1>4, <2>1, <2>2, SMT
  <2> QED BY <1>11, <2>3 DEF a
<1>13. ASSUME NEW k \in 0..r.used-1 PROVE r.buf[(r.head + k) % B] = g + k
  <2> DEFINE a == h + k
             x == a % B
  <2>1. a \in 0..(2 * B - 1) /\ k \in 0..(u + n - 1) /\ k \in 0..B-1
    BY <1>1, <1>11, SMT
  <2> HIDE DEF a
  <2>2. x = IF a < B THEN a ELSE a - B
    BY <2>1, Mod
  <2> HIDE DEF x
  <2>3. x \in 0..B-1 /\ (x = h + k \/ x = h + k - B)
    BY <1>1, <2>1, <2>2, SMT DEF a
  <2>4. dist(x) = IF x < t THEN x + B - t ELSE x - t
    BY <1>5, <2>3
  <2>5. CASE k < u
    <3>1. ~(dist(x) < n)
      BY <1>1, <1>3, <2>1, <2>3, <2>4, <2>5, SMT
    <3>2. q.buf[(h + k) % B] = g + k
      BY <1>1, <2>1, <2>5, SMT DEF Holds
    <3> QED BY <1>10, <1>11, <2>3, <3>1, <3>2 DEF x, a
  <2>6. CASE k >= u
    <3>1. dist(x) = k - u
      BY <1>1, <1>3, <2>1, <2>3, <2>4, <2>6, SMT
    <3>2. nb[x] = g + k
      BY <1>1, <1>10, <2>1, <2>3, <2>6, <3>1, SMT
    <3> QED BY <1>11, <3>2 DEF x, a
  <2> QED BY <1>1, <2>1, <2>5, <2>6, SMT
<1> QED BY <1>11, <1>12, <1>13 DEF r, Holds

-----------------------------------------------------------------------------
(* How many descriptors are an end of pipe i. *)
RefsOf(L, f, i, kinds) ==
    {d \in L \X Fds : f[d[1]][d[2]].kind \in kinds /\ f[d[1]][d[2]].offset = i}
Has(e, i, kinds) == IF e.kind \in kinds /\ e.offset = i THEN 1 ELSE 0

LEMMA FdsFinite == IsFiniteSet(Fds)
<1>1. FD_MAX - 1 \in Int
  BY FdtAssumption, SMT
<1> QED BY <1>1, FS_Interval, SMT DEF Fds

LEMMA NumberType ==
    ASSUME NEW t, NEW S, S \subseteq Fds, NEW i, NEW kinds
    PROVE  /\ IsFiniteSet(Ends(t, S, i, kinds))
           /\ Number(t, S, i, kinds) \in Nat
           /\ Number(t, S, i, kinds) <= Number(t, Fds, i, kinds)
<1>1. /\ Ends(t, S, i, kinds) \subseteq Ends(t, Fds, i, kinds)
      /\ Ends(t, Fds, i, kinds) \subseteq Fds
  BY DEF Ends
<1>2. IsFiniteSet(Ends(t, Fds, i, kinds))
  BY <1>1, FdsFinite, FS_Subset
<1>3. /\ IsFiniteSet(Ends(t, S, i, kinds))
      /\ Cardinality(Ends(t, S, i, kinds)) <= Cardinality(Ends(t, Fds, i, kinds))
  BY <1>1, <1>2, FS_Subset
<1> QED BY <1>3, FS_CardinalityType DEF Number

(* One descriptor is set. *)
OneFd(t, u, fd) == fd \in Fds /\ \A x \in Fds \ {fd} : u[x] = t[x]
FdCounting(t, u, fd) ==
    \A i, kinds :
        /\ Number(u, Fds, i, kinds)
             = Number(t, Fds, i, kinds) - Has(t[fd], i, kinds) + Has(u[fd], i, kinds)
        /\ Has(t[fd], i, kinds) <= Number(t, Fds, i, kinds)

LEMMA SetEntry ==
    ASSUME NEW t, NEW u, NEW fd, OneFd(t, u, fd)
    PROVE  FdCounting(t, u, fd)
<1> SUFFICES ASSUME NEW i, NEW kinds
             PROVE  /\ Number(u, Fds, i, kinds)
                         = Number(t, Fds, i, kinds) - Has(t[fd], i, kinds) + Has(u[fd], i, kinds)
                    /\ Has(t[fd], i, kinds) <= Number(t, Fds, i, kinds)
  BY DEF FdCounting
<1> USE DEF OneFd
<1> DEFINE T == Ends(t, Fds, i, kinds)
           U == Ends(u, Fds, i, kinds)
           Z == T \ {fd}
<1>1. IsFiniteSet(T) /\ IsFiniteSet(U) /\ Cardinality(T) \in Nat
  BY NumberType, FS_CardinalityType
<1>2. IsFiniteSet(Z) /\ Cardinality(Z) \in Nat
  BY <1>1, FS_Subset, FS_CardinalityType
<1>3. Cardinality(Z \cup {fd}) = Cardinality(Z) + 1
  BY <1>2, FS_AddElement
<1>4. T = IF Has(t[fd], i, kinds) = 1 THEN Z \cup {fd} ELSE Z
  BY SMT DEF Has, Ends
<1>5. U = IF Has(u[fd], i, kinds) = 1 THEN Z \cup {fd} ELSE Z
  BY SMT DEF Has, Ends
<1>6. Has(t[fd], i, kinds) \in {0, 1} /\ Has(u[fd], i, kinds) \in {0, 1}
  BY DEF Has
<1> HIDE DEF T, U, Z
<1>7. Cardinality(T) = Cardinality(Z) + Has(t[fd], i, kinds)
  BY <1>2, <1>3, <1>4, <1>6, SMT
<1>8. Cardinality(U) = Cardinality(Z) + Has(u[fd], i, kinds)
  BY <1>2, <1>3, <1>5, <1>6, SMT
<1> QED BY <1>2, <1>6, <1>7, <1>8, SMT DEF T, U, Number

(* Descriptors S are released. *)
LEMMA DropEntries ==
    ASSUME NEW t, NEW u, NEW S, S \subseteq Fds, NEW i, NEW kinds,
           \A x \in Fds \ S : u[x] = t[x],
           \A x \in S : u[x].kind \notin kinds
    PROVE  /\ Number(t, S, i, kinds) <= Number(t, Fds, i, kinds)
           /\ Number(u, Fds, i, kinds) = Number(t, Fds, i, kinds) - Number(t, S, i, kinds)
<1> DEFINE T == Ends(t, Fds, i, kinds)
           D == Ends(t, S, i, kinds)
           U == Ends(u, Fds, i, kinds)
<1>1. IsFiniteSet(T) /\ IsFiniteSet(D) /\ IsFiniteSet(U)
  BY NumberType
<1>2. T = U \cup D /\ U \cap D = {}
  BY DEF Ends
<1> HIDE DEF T, D, U
<1>3. Cardinality(U \cup D) = Cardinality(U) + Cardinality(D) - Cardinality(U \cap D)
  BY <1>1, FS_Union
<1>4. Cardinality(U \cap D) = 0
  BY <1>2, FS_EmptySet
<1>5. Cardinality(U) \in Nat /\ Cardinality(D) \in Nat
  BY <1>1, FS_CardinalityType
<1> QED BY <1>2, <1>3, <1>4, <1>5, SMT DEF T, D, U, Number

LEMMA RefsFinite ==
    ASSUME NEW L, L \subseteq Procs, NEW f, NEW i, NEW kinds
    PROVE  /\ IsFiniteSet(RefsOf(L, f, i, kinds))
           /\ Cardinality(RefsOf(L, f, i, kinds)) \in Nat
<1>1. IsFiniteSet(L)
  BY FdtAssumption, FS_Subset
<1>2. IsFiniteSet(L \X Fds)
  BY <1>1, FdsFinite, FS_Product
<1>3. RefsOf(L, f, i, kinds) \subseteq L \X Fds
  BY DEF RefsOf
<1> QED BY <1>2, <1>3, FS_Subset, FS_CardinalityType

(* A table more. *)
MoreTable(L, c, f, g) == L \subseteq Procs /\ c \in Procs \ L /\ \A p \in L : g[p] = f[p]
MoreCounting(L, c, f, g) ==
    \A i, kinds : Cardinality(RefsOf(L \cup {c}, g, i, kinds))
                    = Cardinality(RefsOf(L, f, i, kinds)) + Number(g[c], Fds, i, kinds)

LEMMA AddTable ==
    ASSUME NEW L, NEW c, NEW f, NEW g, MoreTable(L, c, f, g)
    PROVE  MoreCounting(L, c, f, g)
<1> SUFFICES ASSUME NEW i, NEW kinds
             PROVE  Cardinality(RefsOf(L \cup {c}, g, i, kinds))
                      = Cardinality(RefsOf(L, f, i, kinds)) + Number(g[c], Fds, i, kinds)
  BY DEF MoreCounting
<1> USE DEF MoreTable
<1> DEFINE R == RefsOf(L, f, i, kinds)
           E == Ends(g[c], Fds, i, kinds)
           P == {<<c, fd>> : fd \in E}
           b == [fd \in E |-> <<c, fd>>]
<1>1. IsFiniteSet(E)
  BY NumberType
<1>2. b \in Bijection(E, P)
  BY DEF Bijection, Injection, Surjection, IsInjective
<1>3. IsFiniteSet(P) /\ Cardinality(P) = Cardinality(E)
  <2>1. ExistsBijection(E, P)
    BY <1>2 DEF ExistsBijection
  <2> HIDE DEF E, P
  <2> QED BY <1>1, <2>1, FS_Bijection
<1>4. IsFiniteSet(R) /\ Cardinality(R) \in Nat
  BY RefsFinite
<1>5. RefsOf(L \cup {c}, g, i, kinds) = R \cup P
  <2>1. ASSUME NEW d \in RefsOf(L \cup {c}, g, i, kinds) PROVE d \in R \cup P
    <3>1. PICK p \in L \cup {c}, fd \in Fds : d = <<p, fd>>
      BY <2>1, SMT DEF RefsOf
    <3>2. g[p][fd].kind \in kinds /\ g[p][fd].offset = i
      BY <2>1, <3>1 DEF RefsOf
    <3>3. CASE p = c
      BY <3>1, <3>2, <3>3 DEF Ends
    <3>4. CASE p \in L
      BY <3>1, <3>2, <3>4 DEF RefsOf
    <3> QED BY <3>1, <3>3, <3>4
  <2>2. ASSUME NEW d \in R PROVE d \in RefsOf(L \cup {c}, g, i, kinds)
    BY DEF RefsOf
  <2>3. ASSUME NEW d \in P PROVE d \in RefsOf(L \cup {c}, g, i, kinds)
    BY SMT DEF RefsOf, Ends
  <2> QED BY <2>1, <2>2, <2>3
<1>6. R \cap P = {}
  BY SMT DEF RefsOf
<1> HIDE DEF R, P, E
<1>7. Cardinality(R \cup P) = Cardinality(R) + Cardinality(P) - Cardinality(R \cap P)
  BY <1>1, <1>3, <1>4, FS_Union
<1>8. Cardinality(R \cap P) = 0
  BY <1>6, FS_EmptySet
<1>9. Cardinality(E) \in Nat
  BY <1>1, FS_CardinalityType
<1>10. Cardinality(R \cup P) = Cardinality(R) + Cardinality(E)
  BY <1>3, <1>4, <1>7, <1>8, <1>9, SMT
<1> QED BY <1>5, <1>10 DEF R, E, Number

(* A table is replaced, or goes. *)
OneTable(L, p, f, g) == L \subseteq Procs /\ p \in L /\ \A q \in L \ {p} : g[q] = f[q]

Counting(L, p, f, g) ==
    \A i, kinds :
        /\ Number(f[p], Fds, i, kinds) <= Cardinality(RefsOf(L, f, i, kinds))
        /\ Cardinality(RefsOf(L, g, i, kinds))
             = Cardinality(RefsOf(L, f, i, kinds)) - Number(f[p], Fds, i, kinds)
                 + Number(g[p], Fds, i, kinds)
        /\ Cardinality(RefsOf(L \ {p}, g, i, kinds))
             = Cardinality(RefsOf(L, f, i, kinds)) - Number(f[p], Fds, i, kinds)

LEMMA ReplaceTable ==
    ASSUME NEW L, NEW p, NEW f, NEW g, OneTable(L, p, f, g)
    PROVE  Counting(L, p, f, g)
<1> SUFFICES ASSUME NEW i, NEW kinds
             PROVE  /\ Number(f[p], Fds, i, kinds) <= Cardinality(RefsOf(L, f, i, kinds))
                    /\ Cardinality(RefsOf(L, g, i, kinds))
                         = Cardinality(RefsOf(L, f, i, kinds)) - Number(f[p], Fds, i, kinds)
                             + Number(g[p], Fds, i, kinds)
                    /\ Cardinality(RefsOf(L \ {p}, g, i, kinds))
                         = Cardinality(RefsOf(L, f, i, kinds)) - Number(f[p], Fds, i, kinds)
  BY DEF Counting
<1> DEFINE M == L \ {p}
<1>1. M \subseteq Procs /\ p \in Procs \ M /\ M \cup {p} = L /\ \A q \in M : g[q] = f[q] /\ f[q] = f[q]
  BY DEF OneTable
<1> HIDE DEF M
<1>2. Cardinality(RefsOf(L, f, i, kinds))
        = Cardinality(RefsOf(M, f, i, kinds)) + Number(f[p], Fds, i, kinds)
  <2>1. MoreTable(M, p, f, f)
    BY <1>1 DEF MoreTable
  <2>2. MoreCounting(M, p, f, f)
    BY <2>1, AddTable
  <2> QED BY <1>1, <2>2 DEF MoreCounting
<1>3. Cardinality(RefsOf(L, g, i, kinds))
        = Cardinality(RefsOf(M, f, i, kinds)) + Number(g[p], Fds, i, kinds)
  <2>1. MoreTable(M, p, f, g)
    BY <1>1 DEF MoreTable
  <2>2. MoreCounting(M, p, f, g)
    BY <2>1, AddTable
  <2> QED BY <1>1, <2>2 DEF MoreCounting
<1>4. RefsOf(M, g, i, kinds) = RefsOf(M, f, i, kinds)
  BY <1>1 DEF RefsOf
<1>5. Cardinality(RefsOf(M, f, i, kinds)) \in Nat
  BY <1>1, RefsFinite
<1>6. Number(f[p], Fds, i, kinds) \in Nat /\ Number(g[p], Fds, i, kinds) \in Nat
  BY NumberType
<1> QED BY <1>2, <1>3, <1>4, <1>5, <1>6, SMT DEF M

-----------------------------------------------------------------------------
(* The calls change counts and leave the rings alone. *)
Same(r, q) == r.head = q.head /\ r.tail = q.tail /\ r.used = q.used /\ r.buf = q.buf

LEMMA SameHolds ==
    ASSUME NEW r, NEW q, NEW g, Same(r, q), Holds(q, g)
    PROVE  Holds(r, g)
BY DEF Same, Holds

LEMMA SetRead ==
    ASSUME NEW q \in [Pipes -> PipeType], NEW o \in Pipes, NEW n \in Nat
    PROVE  LET r == [q EXCEPT ![o].read_open = n] IN
           /\ r \in [Pipes -> PipeType]
           /\ \A i \in Pipes : /\ Same(r[i], q[i]) /\ r[i].write_open = q[i].write_open
                               /\ r[i].read_open = IF i = o THEN n ELSE q[i].read_open
<1> DEFINE m == [q[o] EXCEPT !.read_open = n]
           r == [q EXCEPT ![o].read_open = n]
<1>1. q[o] \in PipeType
  OBVIOUS
<1>2. m \in PipeType /\ Same(m, q[o]) /\ m.write_open = q[o].write_open /\ m.read_open = n
  BY <1>1 DEF PipeType, Same
<1>3. r = [q EXCEPT ![o] = m]
  OBVIOUS
<1> HIDE DEF m, r
<1>4. \A i \in Pipes : r[i] = IF i = o THEN m ELSE q[i]
  BY <1>3
<1>5. r \in [Pipes -> PipeType]
  BY <1>2, <1>3
<1> QED BY <1>2, <1>4, <1>5, SMT DEF r, Same

LEMMA SetWrite ==
    ASSUME NEW q \in [Pipes -> PipeType], NEW o \in Pipes, NEW n \in Nat
    PROVE  LET r == [q EXCEPT ![o].write_open = n] IN
           /\ r \in [Pipes -> PipeType]
           /\ \A i \in Pipes : /\ Same(r[i], q[i]) /\ r[i].read_open = q[i].read_open
                               /\ r[i].write_open = IF i = o THEN n ELSE q[i].write_open
<1> DEFINE m == [q[o] EXCEPT !.write_open = n]
           r == [q EXCEPT ![o].write_open = n]
<1>1. q[o] \in PipeType
  OBVIOUS
<1>2. m \in PipeType /\ Same(m, q[o]) /\ m.read_open = q[o].read_open /\ m.write_open = n
  BY <1>1 DEF PipeType, Same
<1>3. r = [q EXCEPT ![o] = m]
  OBVIOUS
<1> HIDE DEF m, r
<1>4. \A i \in Pipes : r[i] = IF i = o THEN m ELSE q[i]
  BY <1>3
<1>5. r \in [Pipes -> PipeType]
  BY <1>2, <1>3
<1> QED BY <1>2, <1>4, <1>5, SMT DEF r, Same

LEMMA DropRefIs ==
    ASSUME NEW q \in [Pipes -> PipeType], NEW e \in EntryType
    PROVE  /\ DropRef(q, e) \in [Pipes -> PipeType]
           /\ \A i \in Pipes :
                /\ Same(DropRef(q, e)[i], q[i])
                /\ DropRef(q, e)[i].read_open
                      = IF Has(e, i, REnds) = 1 THEN Less(q[i].read_open) ELSE q[i].read_open
                /\ DropRef(q, e)[i].write_open
                      = IF Has(e, i, {"w"}) = 1 THEN Less(q[i].write_open) ELSE q[i].write_open
<1> DEFINE o == e.offset
           x == Less(q[o].read_open)
           y == Less(q[o].write_open)
<1>1. o \in Pipes
  BY DEF EntryType
<1>2. x \in Nat /\ y \in Nat
  BY <1>1, SMTT(60) DEF PipeType, Less
<1>3. CASE IsR(e)
  <2>1. DropRef(q, e) = [q EXCEPT ![o].read_open = x] /\ e.kind # "w"
    BY <1>3 DEF DropRef, IsR, REnds
  <2> HIDE DEF x
  <2>2. /\ DropRef(q, e) \in [Pipes -> PipeType]
        /\ \A i \in Pipes : /\ Same(DropRef(q, e)[i], q[i])
                            /\ DropRef(q, e)[i].write_open = q[i].write_open
                            /\ DropRef(q, e)[i].read_open = IF i = o THEN x ELSE q[i].read_open
    BY <1>1, <1>2, <2>1, SetRead, SMT
  <2> QED BY <1>3, <2>1, <2>2, SMT DEF x, Has, IsR
<1>4. CASE e.kind = "w"
  <2>1. DropRef(q, e) = [q EXCEPT ![o].write_open = y] /\ ~IsR(e)
    BY <1>4 DEF DropRef, IsR, REnds
  <2> HIDE DEF y
  <2>2. /\ DropRef(q, e) \in [Pipes -> PipeType]
        /\ \A i \in Pipes : /\ Same(DropRef(q, e)[i], q[i])
                            /\ DropRef(q, e)[i].read_open = q[i].read_open
                            /\ DropRef(q, e)[i].write_open = IF i = o THEN y ELSE q[i].write_open
    BY <1>1, <1>2, <2>1, SetWrite, SMT
  <2> QED BY <1>4, <2>1, <2>2, SMT DEF y, Has, IsR
<1>5. CASE ~IsR(e) /\ e.kind # "w"
  <2>1. DropRef(q, e) = q
    BY <1>5 DEF DropRef
  <2> QED BY <1>5, <2>1, SMT DEF Same, Has, IsR
<1> QED BY <1>3, <1>4, <1>5

LEMMA AddRefIs ==
    ASSUME NEW q \in [Pipes -> PipeType], NEW e \in EntryType
    PROVE  /\ AddRef(q, e) \in [Pipes -> PipeType]
           /\ \A i \in Pipes :
                /\ Same(AddRef(q, e)[i], q[i])
                /\ AddRef(q, e)[i].read_open = q[i].read_open + Has(e, i, REnds)
                /\ AddRef(q, e)[i].write_open = q[i].write_open + Has(e, i, {"w"})
<1> DEFINE o == e.offset
           x == q[o].read_open + 1
           y == q[o].write_open + 1
<1>1. o \in Pipes
  BY DEF EntryType
<1>2. \A i \in Pipes : q[i].read_open \in Nat /\ q[i].write_open \in Nat
  BY DEF PipeType
<1>3. x \in Nat /\ y \in Nat
  BY <1>1, <1>2, SMT
<1>4. CASE IsR(e)
  <2>1. AddRef(q, e) = [q EXCEPT ![o].read_open = x] /\ e.kind # "w"
    BY <1>4 DEF AddRef, IsR, REnds
  <2> HIDE DEF x
  <2>2. /\ AddRef(q, e) \in [Pipes -> PipeType]
        /\ \A i \in Pipes : /\ Same(AddRef(q, e)[i], q[i])
                            /\ AddRef(q, e)[i].write_open = q[i].write_open
                            /\ AddRef(q, e)[i].read_open = IF i = o THEN x ELSE q[i].read_open
    BY <1>1, <1>3, <2>1, SetRead, SMT
  <2> QED BY <1>2, <1>4, <2>1, <2>2, SMT DEF x, Has, IsR
<1>5. CASE e.kind = "w"
  <2>1. AddRef(q, e) = [q EXCEPT ![o].write_open = y] /\ ~IsR(e)
    BY <1>5 DEF AddRef, IsR, REnds
  <2> HIDE DEF y
  <2>2. /\ AddRef(q, e) \in [Pipes -> PipeType]
        /\ \A i \in Pipes : /\ Same(AddRef(q, e)[i], q[i])
                            /\ AddRef(q, e)[i].read_open = q[i].read_open
                            /\ AddRef(q, e)[i].write_open = IF i = o THEN y ELSE q[i].write_open
    BY <1>1, <1>3, <2>1, SetWrite, SMT
  <2> QED BY <1>2, <1>5, <2>1, <2>2, SMT DEF y, Has, IsR
<1>6. CASE ~IsR(e) /\ e.kind # "w"
  <2>1. AddRef(q, e) = q
    BY <1>6 DEF AddRef
  <2> QED BY <1>2, <1>6, <2>1, SMT DEF Same, Has, IsR
<1> QED BY <1>4, <1>5, <1>6

LEMMA AddBothRefsIs ==
    ASSUME NEW q \in [Pipes -> PipeType], NEW e \in EntryType
    PROVE  /\ AddBothRefs(q, e) \in [Pipes -> PipeType]
           /\ \A i \in Pipes :
                /\ Same(AddBothRefs(q, e)[i], q[i])
                /\ AddBothRefs(q, e)[i].read_open = q[i].read_open + Has(e, i, REnds)
                /\ AddBothRefs(q, e)[i].write_open = q[i].write_open + Has(e, i, WEnds)
<1> DEFINE o == e.offset
           a == IF IsR(e) THEN 1 ELSE 0
           b == IF IsW(e) THEN 1 ELSE 0
           x == q[o].read_open + a
           y == q[o].write_open + b
<1>1. o \in Pipes /\ a \in Nat /\ b \in Nat
  BY DEF EntryType
<1>2. \A i \in Pipes : q[i].read_open \in Nat /\ q[i].write_open \in Nat
  BY DEF PipeType
<1>3. \A i \in Pipes : /\ Has(e, i, REnds) = IF i = o THEN a ELSE 0
                       /\ Has(e, i, WEnds) = IF i = o THEN b ELSE 0
  BY DEF Has, IsR, IsW
<1>4. CASE ~IsPipe(e)
  <2>1. AddBothRefs(q, e) = q
    BY <1>4 DEF AddBothRefs
  <2> QED BY <1>2, <1>3, <1>4, <2>1, SMT DEF Same, IsPipe
<1>5. CASE IsPipe(e)
  <2> DEFINE r == [q EXCEPT ![o].read_open = x]
  <2>1. x \in Nat /\ y \in Nat
    BY <1>1, <1>2, SMT
  <2>2. AddBothRefs(q, e) = [r EXCEPT ![o].write_open = y]
    BY <1>1, <1>5 DEF AddBothRefs
  <2> HIDE DEF x, y
  <2>3. /\ r \in [Pipes -> PipeType]
        /\ \A i \in Pipes : /\ Same(r[i], q[i]) /\ r[i].write_open = q[i].write_open
                            /\ r[i].read_open = IF i = o THEN x ELSE q[i].read_open
    BY <1>1, <2>1, SetRead, SMT
  <2> HIDE DEF r
  <2>4. /\ AddBothRefs(q, e) \in [Pipes -> PipeType]
        /\ \A i \in Pipes :
             /\ Same(AddBothRefs(q, e)[i], r[i])
             /\ AddBothRefs(q, e)[i].read_open = r[i].read_open
             /\ AddBothRefs(q, e)[i].write_open = IF i = o THEN y ELSE r[i].write_open
    BY <1>1, <2>1, <2>2, <2>3, SetWrite, SMT
  <2> HIDE DEF a, b
  <2> QED BY <1>2, <1>3, <2>3, <2>4, SMT DEF x, y, Same
<1> QED BY <1>4, <1>5

LEMMA DropRefsIs ==
    ASSUME NEW q \in [Pipes -> PipeType], NEW t, NEW S, S \subseteq Fds
    PROVE  /\ DropRefs(q, t, S) \in [Pipes -> PipeType]
           /\ \A i \in Pipes :
                /\ Same(DropRefs(q, t, S)[i], q[i])
                /\ DropRefs(q, t, S)[i].read_open = Minus(q[i].read_open, Number(t, S, i, REnds))
                /\ DropRefs(q, t, S)[i].write_open = Minus(q[i].write_open, Number(t, S, i, {"w"}))
<1> DEFINE n(i) == [q[i] EXCEPT !.read_open = Minus(@, Number(t, S, i, REnds)),
                                !.write_open = Minus(@, Number(t, S, i, {"w"}))]
<1>1. ASSUME NEW i \in Pipes
      PROVE  /\ n(i) \in PipeType /\ Same(n(i), q[i])
             /\ n(i).read_open = Minus(q[i].read_open, Number(t, S, i, REnds))
             /\ n(i).write_open = Minus(q[i].write_open, Number(t, S, i, {"w"}))
  <2>1. Number(t, S, i, REnds) \in Nat /\ Number(t, S, i, {"w"}) \in Nat
    BY NumberType
  <2>2. q[i] \in PipeType /\ q[i].read_open \in Nat /\ q[i].write_open \in Nat
    BY DEF PipeType
  <2>3. /\ Minus(q[i].read_open, Number(t, S, i, REnds)) \in Nat
        /\ Minus(q[i].write_open, Number(t, S, i, {"w"})) \in Nat
    BY <2>1, <2>2, SMT DEF Minus
  <2> QED BY <2>2, <2>3 DEF PipeType, Same
<1>2. DropRefs(q, t, S) = [i \in Pipes |-> n(i)]
  BY DEF DropRefs
<1> HIDE DEF n
<1> QED BY <1>1, <1>2

-----------------------------------------------------------------------------
(* The inductive invariant.  An eventfd is the only descriptor that is both
   ends of a pipe, and its pipe is in stray. *)
Types ==
    /\ fdt \in [Procs -> [Fds -> EntryType]]
    /\ pipe \in [Pipes -> PipeType]
    /\ live \subseteq Procs
    /\ op \in [Procs -> OpType] /\ \A p \in Procs : op[p].left <= op[p].count
    /\ sent \in [Pipes -> Nat] /\ got \in [Pipes -> Nat]
    /\ stray \subseteq Pipes

Fifo == \A i \in Pipes : sent[i] = got[i] + pipe[i].used /\ Holds(pipe[i], got[i])

EventsStray == \A p \in Procs, fd \in Fds : fdt[p][fd].kind = "rw" => fdt[p][fd].offset \in stray

CountsRight ==
    \A i \in Pipes \ stray :
        /\ pipe[i].read_open = Cardinality(RefsOf(live, fdt, i, REnds))
        /\ pipe[i].write_open = Cardinality(RefsOf(live, fdt, i, WEnds))

IInv == Types /\ Fifo /\ EventsStray /\ CountsRight

LEMMA ZeroPipe == 0 \in Pipes
BY FdtAssumption, SMT DEF Pipes

LEMMA NewTableIs ==
    /\ fdt_new \in [Fds -> EntryType]
    /\ \A fd \in Fds : fdt_new[fd].kind \in {"tty", "free"}
BY ZeroPipe DEF fdt_new, Entry, Free, EntryType, Kinds

LEMMA NewPipeIs ==
    /\ pipe_new \in PipeType /\ pipe_new.used = 0 /\ Holds(pipe_new, 0)
    /\ pipe_new.read_open = 1 /\ pipe_new.write_open = 1
    /\ pipe_unused \in PipeType /\ pipe_unused.used = 0 /\ Holds(pipe_unused, 0)
    /\ pipe_unused.read_open = 0 /\ pipe_unused.write_open = 0
<1>1. B \in Nat \ {0} /\ 0 \in 0..B-1
  BY FdtAssumption, SMT DEF B
<1>2. 0 % B = 0
  BY <1>1, SMT
<1>3. [k \in 0..B-1 |-> 0] \in [0..B-1 -> Nat]
  OBVIOUS
<1>4. pipe_new \in PipeType /\ pipe_new.used = 0 /\ pipe_new.head = 0 /\ pipe_new.tail = 0
      /\ pipe_new.read_open = 1 /\ pipe_new.write_open = 1
  BY <1>1, <1>3, SMT DEF pipe_new, PipeType, B
<1>5. pipe_unused \in PipeType /\ pipe_unused.used = 0 /\ pipe_unused.head = 0 /\ pipe_unused.tail = 0
      /\ pipe_unused.read_open = 0 /\ pipe_unused.write_open = 0
  BY <1>4 DEF pipe_unused, PipeType
<1> QED BY <1>2, <1>4, <1>5, SMT DEF Holds

LEMMA NoEnds ==
    ASSUME NEW t, NEW i, NEW kinds, kinds \subseteq {"r", "w", "rw"},
           \A fd \in Fds : t[fd].kind \in {"tty", "free"}
    PROVE  Number(t, Fds, i, kinds) = 0
<1>1. Ends(t, Fds, i, kinds) = {}
  BY DEF Ends
<1> QED BY <1>1, FS_EmptySet DEF Number

LEMMA IInvInit == Init => IInv
<1> SUFFICES ASSUME Init PROVE IInv
  OBVIOUS
<1>1. Types
  <2>1. Idle \in OpType /\ Idle.left <= Idle.count
    BY ZeroPipe, SMT DEF Idle, OpType
  <2>2. op \in [Procs -> OpType] /\ \A p \in Procs : op[p].left <= op[p].count
    BY <2>1 DEF Init
  <2> QED BY <2>2, NewTableIs, NewPipeIs, FdtAssumption DEF Init, Types
<1>2. Fifo
  BY NewPipeIs, SMT DEF Init, Fifo
<1>3. \A p \in Procs, fd \in Fds : fdt[p][fd].kind \in {"tty", "free"}
  BY NewTableIs DEF Init
<1>4. EventsStray
  BY <1>3 DEF EventsStray
<1>5. \A i \in Pipes : RefsOf(live, fdt, i, REnds) = {} /\ RefsOf(live, fdt, i, WEnds) = {}
  <2>1. ASSUME NEW d \in live \X Fds PROVE fdt[d[1]][d[2]].kind \in {"tty", "free"}
    <3>1. d[1] \in Procs /\ d[2] \in Fds
      BY <1>1 DEF Types
    <3> QED BY <1>3, <3>1
  <2> QED BY <2>1 DEF RefsOf, REnds, WEnds
<1>6. CountsRight
  BY <1>5, NewPipeIs, FS_EmptySet DEF CountsRight, Init
<1> QED BY <1>1, <1>2, <1>4, <1>6 DEF IInv

(* A call of p makes its table u, and changes the counts by what that makes of
   the ends of each pipe. *)
MovesCounts(p, u) ==
    /\ p \in live /\ u \in [Fds -> EntryType]
    /\ fdt' = [fdt EXCEPT ![p] = u]
    /\ live' = live /\ stray \subseteq stray'
    /\ \A fd \in Fds : u[fd].kind = "rw" => u[fd].offset \in stray'
    /\ \A i \in Pipes \ stray' :
          /\ pipe'[i].read_open = pipe[i].read_open - Number(fdt[p], Fds, i, REnds)
                                    + Number(u, Fds, i, REnds)
          /\ pipe'[i].write_open = pipe[i].write_open - Number(fdt[p], Fds, i, WEnds)
                                    + Number(u, Fds, i, WEnds)

LEMMA TableCounts ==
    ASSUME IInv, NEW p, NEW u, MovesCounts(p, u)
    PROVE  fdt' \in [Procs -> [Fds -> EntryType]] /\ EventsStray' /\ CountsRight'
<1> USE DEF IInv, MovesCounts
<1>1. p \in Procs /\ live \subseteq Procs /\ fdt \in [Procs -> [Fds -> EntryType]]
  BY DEF Types
<1>2. fdt' \in [Procs -> [Fds -> EntryType]] /\ fdt'[p] = u /\ \A q \in Procs \ {p} : fdt'[q] = fdt[q]
  BY <1>1
<1>3. EventsStray'
  BY <1>2 DEF EventsStray
<1>4. CountsRight'
  <2> SUFFICES ASSUME NEW i \in Pipes \ stray'
               PROVE  /\ pipe'[i].read_open = Cardinality(RefsOf(live, fdt', i, REnds))
                      /\ pipe'[i].write_open = Cardinality(RefsOf(live, fdt', i, WEnds))
    BY DEF CountsRight
  <2>1. /\ pipe[i].read_open = Cardinality(RefsOf(live, fdt, i, REnds))
        /\ pipe[i].write_open = Cardinality(RefsOf(live, fdt, i, WEnds))
    BY DEF CountsRight
  <2>2. OneTable(live, p, fdt, fdt')
    BY <1>1, <1>2 DEF OneTable
  <2>3. Counting(live, p, fdt, fdt')
    BY <2>2, ReplaceTable
  <2>4. Cardinality(RefsOf(live, fdt', i, REnds))
          = Cardinality(RefsOf(live, fdt, i, REnds)) - Number(fdt[p], Fds, i, REnds)
              + Number(fdt'[p], Fds, i, REnds)
    BY <2>3 DEF Counting
  <2>5. Cardinality(RefsOf(live, fdt', i, WEnds))
          = Cardinality(RefsOf(live, fdt, i, WEnds)) - Number(fdt[p], Fds, i, WEnds)
              + Number(fdt'[p], Fds, i, WEnds)
    BY <2>3 DEF Counting
  <2> QED BY <1>2, <2>1, <2>4, <2>5
<1> QED BY <1>2, <1>3, <1>4

(* The call leaves the rings alone. *)
LEMMA TableKeeps ==
    ASSUME IInv, NEW p, NEW u, MovesCounts(p, u),
           pipe' \in [Pipes -> PipeType], \A i \in Pipes : Same(pipe'[i], pipe[i]),
           stray' \subseteq Pipes, UNCHANGED <<op, sent, got>>
    PROVE  IInv'
<1> USE DEF IInv
<1>1. fdt' \in [Procs -> [Fds -> EntryType]] /\ EventsStray' /\ CountsRight'
  BY TableCounts
<1>2. Types'
  BY <1>1 DEF Types, MovesCounts
<1>3. Fifo'
  <2> SUFFICES ASSUME NEW i \in Pipes PROVE sent[i] = got[i] + pipe'[i].used /\ Holds(pipe'[i], got[i])
    BY DEF Fifo
  <2>1. sent[i] = got[i] + pipe[i].used /\ Holds(pipe[i], got[i]) /\ Same(pipe'[i], pipe[i])
    BY DEF Fifo
  <2> QED BY <2>1, SameHolds DEF Same
<1> QED BY <1>1, <1>2, <1>3

(* The call takes slot i. *)
LEMMA SlotKeeps ==
    ASSUME IInv, NEW p, NEW u, MovesCounts(p, u), NEW i \in Pipes, NEW n \in {pipe_new, pipe_unused},
           pipe' = [pipe EXCEPT ![i] = n], sent' = [sent EXCEPT ![i] = 0], got' = [got EXCEPT ![i] = 0],
           stray' \subseteq Pipes, op' = op
    PROVE  IInv'
<1> USE DEF IInv
<1>1. fdt' \in [Procs -> [Fds -> EntryType]] /\ EventsStray' /\ CountsRight'
  BY TableCounts
<1>2. n \in PipeType /\ n.used = 0 /\ Holds(n, 0)
  BY NewPipeIs
<1>3. /\ pipe' \in [Pipes -> PipeType] /\ sent' \in [Pipes -> Nat] /\ got' \in [Pipes -> Nat]
      /\ \A j \in Pipes : /\ pipe'[j] = IF j = i THEN n ELSE pipe[j]
                          /\ sent'[j] = IF j = i THEN 0 ELSE sent[j]
                          /\ got'[j] = IF j = i THEN 0 ELSE got[j]
  BY <1>2 DEF Types
<1>4. Types'
  BY <1>1, <1>3 DEF Types, MovesCounts
<1>5. Fifo'
  <2> SUFFICES ASSUME NEW j \in Pipes
               PROVE  sent'[j] = got'[j] + pipe'[j].used /\ Holds(pipe'[j], got'[j])
    BY DEF Fifo
  <2>1. CASE j = i
    BY <1>2, <1>3, <2>1, SMT
  <2>2. CASE j # i
    BY <1>3, <2>2 DEF Fifo
  <2> QED BY <2>1, <2>2
<1> QED BY <1>1, <1>4, <1>5

-----------------------------------------------------------------------------
(* What a call may use of its own table: its ends are counted, and away from
   the stray pipes a descriptor that writes only writes. *)
LEMMA OwnRefs ==
    ASSUME IInv, NEW p \in live, NEW i \in Pipes \ stray
    PROVE  /\ pipe[i].read_open \in Nat /\ pipe[i].write_open \in Nat
           /\ Number(fdt[p], Fds, i, REnds) <= pipe[i].read_open
           /\ Number(fdt[p], Fds, i, WEnds) <= pipe[i].write_open
<1>1. OneTable(live, p, fdt, fdt)
  BY DEF OneTable, IInv, Types
<1>2. Counting(live, p, fdt, fdt)
  BY <1>1, ReplaceTable
<1>3. /\ Number(fdt[p], Fds, i, REnds) <= Cardinality(RefsOf(live, fdt, i, REnds))
      /\ Number(fdt[p], Fds, i, WEnds) <= Cardinality(RefsOf(live, fdt, i, WEnds))
  BY <1>2 DEF Counting
<1>4. /\ pipe[i].read_open = Cardinality(RefsOf(live, fdt, i, REnds))
      /\ pipe[i].write_open = Cardinality(RefsOf(live, fdt, i, WEnds))
  BY DEF IInv, CountsRight
<1>5. pipe[i].read_open \in Nat /\ pipe[i].write_open \in Nat
  BY DEF IInv, Types, PipeType
<1> QED BY <1>3, <1>4, <1>5

LEMMA OneEnd ==
    ASSUME IInv, NEW p \in Procs, NEW i \in Pipes \ stray
    PROVE  /\ \A fd \in Fds : Has(fdt[p][fd], i, {"w"}) = Has(fdt[p][fd], i, WEnds)
           /\ \A S \in SUBSET Fds : Number(fdt[p], S, i, {"w"}) = Number(fdt[p], S, i, WEnds)
<1>1. \A fd \in Fds : fdt[p][fd].kind = "rw" => fdt[p][fd].offset # i
  BY DEF IInv, EventsStray
<1>2. \A fd \in Fds : Has(fdt[p][fd], i, {"w"}) = Has(fdt[p][fd], i, WEnds)
  BY <1>1 DEF Has, WEnds
<1>3. ASSUME NEW S \in SUBSET Fds
      PROVE  Ends(fdt[p], S, i, {"w"}) = Ends(fdt[p], S, i, WEnds)
  BY <1>1 DEF Ends, WEnds
<1> QED BY <1>2, <1>3 DEF Number

(* A call of p that sets one descriptor, and counts what it was and what it is. *)
SetsEntry(p, fd, e) ==
    /\ p \in live /\ fd \in Fds /\ e \in EntryType
    /\ fdt' = [fdt EXCEPT ![p][fd] = e]
    /\ pipe' \in [Pipes -> PipeType] /\ \A i \in Pipes : Same(pipe'[i], pipe[i])
    /\ stray \subseteq stray' /\ stray' \subseteq Pipes
    /\ e.kind = "rw" => e.offset \in stray'
    /\ \A i \in Pipes \ stray' :
          /\ pipe'[i].read_open = pipe[i].read_open - Has(fdt[p][fd], i, REnds) + Has(e, i, REnds)
          /\ pipe'[i].write_open = pipe[i].write_open - Has(fdt[p][fd], i, WEnds) + Has(e, i, WEnds)
    /\ UNCHANGED <<live, op, sent, got>>

LEMMA EntryKeeps ==
    ASSUME IInv, NEW p, NEW fd, NEW e, SetsEntry(p, fd, e)
    PROVE  IInv'
<1> USE DEF SetsEntry
<1> DEFINE t == fdt[p]
           u == [t EXCEPT ![fd] = e]
<1>1. p \in Procs /\ t \in [Fds -> EntryType] /\ fdt \in [Procs -> [Fds -> EntryType]]
  BY DEF IInv, Types
<1>2. fdt' = [fdt EXCEPT ![p] = u] /\ u \in [Fds -> EntryType]
      /\ u[fd] = e /\ \A x \in Fds \ {fd} : u[x] = t[x]
  BY <1>1
<1> HIDE DEF u
<1>3. \A x \in Fds : u[x].kind = "rw" => u[x].offset \in stray'
  BY <1>1, <1>2 DEF IInv, EventsStray
<1>4. ASSUME NEW i \in Pipes \ stray'
      PROVE  /\ pipe'[i].read_open = pipe[i].read_open - Number(t, Fds, i, REnds)
                                        + Number(u, Fds, i, REnds)
             /\ pipe'[i].write_open = pipe[i].write_open - Number(t, Fds, i, WEnds)
                                        + Number(u, Fds, i, WEnds)
  <2>1. /\ Number(u, Fds, i, REnds) = Number(t, Fds, i, REnds) - Has(t[fd], i, REnds) + Has(u[fd], i, REnds)
        /\ Number(u, Fds, i, WEnds) = Number(t, Fds, i, WEnds) - Has(t[fd], i, WEnds) + Has(u[fd], i, WEnds)
    <3>1. OneFd(t, u, fd)
      BY <1>2 DEF OneFd
    <3>2. FdCounting(t, u, fd)
      BY <3>1, SetEntry
    <3> QED BY <3>2 DEF FdCounting
  <2>2. /\ Number(t, Fds, i, REnds) \in Nat /\ Number(t, Fds, i, WEnds) \in Nat
        /\ Number(u, Fds, i, REnds) \in Nat /\ Number(u, Fds, i, WEnds) \in Nat
    BY NumberType
  <2>3. /\ Has(t[fd], i, REnds) \in {0, 1} /\ Has(t[fd], i, WEnds) \in {0, 1}
        /\ Has(e, i, REnds) \in {0, 1} /\ Has(e, i, WEnds) \in {0, 1}
    BY DEF Has
  <2>4. pipe[i].read_open \in Nat /\ pipe[i].write_open \in Nat
    BY DEF IInv, Types, PipeType
  <2>5. /\ pipe'[i].read_open = pipe[i].read_open - Has(t[fd], i, REnds) + Has(e, i, REnds)
        /\ pipe'[i].write_open = pipe[i].write_open - Has(t[fd], i, WEnds) + Has(e, i, WEnds)
    OBVIOUS
  <2> HIDE DEF t
  <2>6. pipe'[i].read_open = pipe[i].read_open - Number(t, Fds, i, REnds) + Number(u, Fds, i, REnds)
    BY <1>2, <2>1, <2>2, <2>3, <2>4, <2>5, SMTT(60)
  <2>7. pipe'[i].write_open = pipe[i].write_open - Number(t, Fds, i, WEnds) + Number(u, Fds, i, WEnds)
    BY <1>2, <2>1, <2>2, <2>3, <2>4, <2>5, SMTT(60)
  <2> QED BY <2>6, <2>7
<1>5. MovesCounts(p, u)
  BY <1>2, <1>3, <1>4 DEF MovesCounts
<1> QED BY <1>5, TableKeeps

-----------------------------------------------------------------------------
(* One lemma per call. *)
LEMMA FreshFd ==
    ASSUME NEW t \in [Fds -> EntryType], NEW low, Unused(t, low) # {}
    PROVE  /\ Min(Unused(t, low)) \in Unused(t, low) /\ Min(Unused(t, low)) \in Fds
           /\ \A i : Has(t[Min(Unused(t, low))], i, REnds) = 0 /\ Has(t[Min(Unused(t, low))], i, WEnds) = 0
<1>1. Unused(t, low) \subseteq Fds /\ Fds \subseteq Nat
  BY SMT DEF Unused, Fds
<1>2. Min(Unused(t, low)) \in Unused(t, low)
  BY <1>1, MinOf
<1> QED BY <1>1, <1>2 DEF Unused, Has, REnds, WEnds

LEMMA CopyIs ==
    ASSUME NEW e \in EntryType, NEW cx \in {0, 1}
    PROVE  LET d == [e EXCEPT !.cloexec = cx] IN
           /\ d \in EntryType /\ d.kind = e.kind /\ d.offset = e.offset
           /\ \A i, kinds : Has(d, i, kinds) = Has(e, i, kinds)
<1> DEFINE d == [e EXCEPT !.cloexec = cx]
<1>1. d \in EntryType /\ d.kind = e.kind /\ d.offset = e.offset
  BY DEF EntryType
<1> HIDE DEF d
<1>2. \A i, kinds : Has(d, i, kinds) = Has(e, i, kinds)
  BY <1>1 DEF Has
<1> QED BY <1>1, <1>2 DEF d

LEMMA HasType == \A e, i, kinds : Has(e, i, kinds) \in {0, 1}
BY DEF Has

LEMMA DupKeeps ==
    ASSUME IInv, NEW p \in live, NEW old \in Fds, sys_linux_dup(p, old)
    PROVE  IInv'
<1> DEFINE t == fdt[p]
           fd == Min(Unused(t, FirstFd))
           e == [t[old] EXCEPT !.cloexec = 0]
<1>1. p \in Procs /\ t \in [Fds -> EntryType] /\ t[old] \in EntryType /\ pipe \in [Pipes -> PipeType]
  BY DEF IInv, Types
<1>2. fd \in Fds /\ \A i : Has(t[fd], i, REnds) = 0 /\ Has(t[fd], i, WEnds) = 0
  BY <1>1, FreshFd DEF sys_linux_dup
<1>3. e \in EntryType /\ e.kind = t[old].kind /\ e.offset = t[old].offset
      /\ \A i, kinds : Has(e, i, kinds) = Has(t[old], i, kinds)
  BY <1>1, CopyIs
<1>4. /\ fdt' = [fdt EXCEPT ![p][fd] = e] /\ pipe' = AddRef(pipe, t[old])
      /\ UNCHANGED <<live, op, sent, got>> /\ stray' = stray
  BY DEF sys_linux_dup
<1>5. /\ pipe' \in [Pipes -> PipeType]
      /\ \A i \in Pipes : /\ Same(pipe'[i], pipe[i])
                          /\ pipe'[i].read_open = pipe[i].read_open + Has(t[old], i, REnds)
                          /\ pipe'[i].write_open = pipe[i].write_open + Has(t[old], i, {"w"})
  BY <1>1, <1>4, AddRefIs
<1> HIDE DEF e, fd
<1>6. e.kind = "rw" => e.offset \in stray'
  BY <1>1, <1>3, <1>4 DEF IInv, EventsStray
<1>7. ASSUME NEW i \in Pipes \ stray'
      PROVE  /\ pipe'[i].read_open = pipe[i].read_open - Has(t[fd], i, REnds) + Has(e, i, REnds)
             /\ pipe'[i].write_open = pipe[i].write_open - Has(t[fd], i, WEnds) + Has(e, i, WEnds)
  <2>1. Has(t[old], i, {"w"}) = Has(t[old], i, WEnds)
    BY <1>1, <1>4, OneEnd
  <2>2. pipe[i].read_open \in Nat /\ pipe[i].write_open \in Nat
    BY DEF IInv, Types, PipeType
  <2> HIDE DEF t
  <2> QED BY <1>2, <1>3, <1>5, <2>1, <2>2, HasType, SMTT(60)
<1>8. stray \subseteq stray' /\ stray' \subseteq Pipes
  BY <1>4 DEF IInv, Types
<1>9. SetsEntry(p, fd, e)
  BY <1>2, <1>3, <1>4, <1>5, <1>6, <1>7, <1>8 DEF SetsEntry
<1> QED BY <1>9, EntryKeeps

LEMMA Dup2Keeps ==
    ASSUME IInv, NEW p \in live, NEW old \in Fds, NEW new \in Fds, NEW cx \in {0, 1},
           sys_linux_dup2(p, old, new, cx)
    PROVE  IInv'
<1> DEFINE t == fdt[p]
           e == [t[old] EXCEPT !.cloexec = cx]
           q == DropRef(pipe, t[new])
<1>1. /\ p \in Procs /\ t \in [Fds -> EntryType] /\ t[old] \in EntryType /\ t[new] \in EntryType
      /\ pipe \in [Pipes -> PipeType]
  BY DEF IInv, Types
<1>2. e \in EntryType /\ e.kind = t[old].kind /\ e.offset = t[old].offset
      /\ \A i, kinds : Has(e, i, kinds) = Has(t[old], i, kinds)
  BY <1>1, CopyIs
<1>3. /\ fdt' = [fdt EXCEPT ![p][new] = e] /\ pipe' = AddRef(q, t[old])
      /\ UNCHANGED <<live, op, sent, got>> /\ stray' = stray
  BY DEF sys_linux_dup2
<1>4. /\ q \in [Pipes -> PipeType]
      /\ \A i \in Pipes :
           /\ Same(q[i], pipe[i])
           /\ q[i].read_open = IF Has(t[new], i, REnds) = 1 THEN Less(pipe[i].read_open) ELSE pipe[i].read_open
           /\ q[i].write_open = IF Has(t[new], i, {"w"}) = 1 THEN Less(pipe[i].write_open) ELSE pipe[i].write_open
  BY <1>1, DropRefIs
<1> HIDE DEF e, q
<1>5. /\ pipe' \in [Pipes -> PipeType]
      /\ \A i \in Pipes : /\ Same(pipe'[i], q[i])
                          /\ pipe'[i].read_open = q[i].read_open + Has(t[old], i, REnds)
                          /\ pipe'[i].write_open = q[i].write_open + Has(t[old], i, {"w"})
  BY <1>1, <1>3, <1>4, AddRefIs, SMTT(60)
<1>6. e.kind = "rw" => e.offset \in stray'
  BY <1>1, <1>2, <1>3 DEF IInv, EventsStray
<1>7. ASSUME NEW i \in Pipes \ stray'
      PROVE  /\ pipe'[i].read_open = pipe[i].read_open - Has(t[new], i, REnds) + Has(e, i, REnds)
             /\ pipe'[i].write_open = pipe[i].write_open - Has(t[new], i, WEnds) + Has(e, i, WEnds)
  <2>1. Has(t[old], i, {"w"}) = Has(t[old], i, WEnds) /\ Has(t[new], i, {"w"}) = Has(t[new], i, WEnds)
    BY <1>1, <1>3, OneEnd
  <2>2. /\ pipe[i].read_open \in Nat /\ pipe[i].write_open \in Nat
        /\ Number(t, Fds, i, REnds) <= pipe[i].read_open
        /\ Number(t, Fds, i, WEnds) <= pipe[i].write_open
    BY <1>3, OwnRefs
  <2>3. OneFd(t, t, new)
    BY DEF OneFd
  <2>4. FdCounting(t, t, new)
    BY <2>3, SetEntry
  <2> HIDE DEF t
  <2>5. Has(t[new], i, REnds) <= Number(t, Fds, i, REnds) /\ Has(t[new], i, WEnds) <= Number(t, Fds, i, WEnds)
    BY <2>4 DEF FdCounting
  <2>6. /\ Number(t, Fds, i, REnds) \in Nat /\ Number(t, Fds, i, WEnds) \in Nat
    BY NumberType
  <2>7. /\ Has(t[new], i, REnds) \in {0, 1} /\ Has(t[new], i, WEnds) \in {0, 1}
        /\ Has(t[old], i, REnds) \in {0, 1} /\ Has(t[old], i, WEnds) \in {0, 1}
    BY HasType
  <2>8. q[i].read_open = pipe[i].read_open - Has(t[new], i, REnds)
    BY <1>4, <2>2, <2>5, <2>6, <2>7, SMTT(60) DEF Less
  <2>9. q[i].write_open = pipe[i].write_open - Has(t[new], i, WEnds)
    BY <1>4, <2>1, <2>2, <2>5, <2>6, <2>7, SMTT(60) DEF Less
  <2> QED BY <1>2, <1>5, <2>1, <2>2, <2>7, <2>8, <2>9, SMTT(60)
<1>8. stray \subseteq stray' /\ stray' \subseteq Pipes
  BY <1>3 DEF IInv, Types
<1>9. \A i \in Pipes : Same(pipe'[i], pipe[i])
  BY <1>4, <1>5, SMTT(60) DEF Same
<1>10. SetsEntry(p, new, e)
  BY <1>2, <1>3, <1>5, <1>6, <1>7, <1>8, <1>9 DEF SetsEntry
<1> QED BY <1>10, EntryKeeps

LEMMA DupfdKeeps ==
    ASSUME IInv, NEW p \in live, NEW old \in Fds, NEW low \in Fds, NEW cx \in {0, 1},
           fcntl_dupfd(p, old, low, cx)
    PROVE  IInv'
<1> DEFINE t == fdt[p]
           fd == Min(Unused(t, low))
           e == [t[old] EXCEPT !.cloexec = cx]
<1>1. p \in Procs /\ t \in [Fds -> EntryType] /\ t[old] \in EntryType /\ pipe \in [Pipes -> PipeType]
  BY DEF IInv, Types
<1>2. fd \in Fds /\ \A i : Has(t[fd], i, REnds) = 0 /\ Has(t[fd], i, WEnds) = 0
  BY <1>1, FreshFd DEF fcntl_dupfd
<1>3. e \in EntryType /\ e.kind = t[old].kind /\ e.offset = t[old].offset
      /\ \A i, kinds : Has(e, i, kinds) = Has(t[old], i, kinds)
  BY <1>1, CopyIs
<1>4. /\ fdt' = [fdt EXCEPT ![p][fd] = e] /\ pipe' = AddBothRefs(pipe, t[old])
      /\ UNCHANGED <<live, op, sent, got>> /\ stray' = stray
  BY DEF fcntl_dupfd
<1>5. /\ pipe' \in [Pipes -> PipeType]
      /\ \A i \in Pipes : /\ Same(pipe'[i], pipe[i])
                          /\ pipe'[i].read_open = pipe[i].read_open + Has(t[old], i, REnds)
                          /\ pipe'[i].write_open = pipe[i].write_open + Has(t[old], i, WEnds)
  BY <1>1, <1>4, AddBothRefsIs
<1> HIDE DEF e, fd
<1>6. e.kind = "rw" => e.offset \in stray'
  BY <1>1, <1>3, <1>4 DEF IInv, EventsStray
<1>7. ASSUME NEW i \in Pipes \ stray'
      PROVE  /\ pipe'[i].read_open = pipe[i].read_open - Has(t[fd], i, REnds) + Has(e, i, REnds)
             /\ pipe'[i].write_open = pipe[i].write_open - Has(t[fd], i, WEnds) + Has(e, i, WEnds)
  <2>1. pipe[i].read_open \in Nat /\ pipe[i].write_open \in Nat
    BY DEF IInv, Types, PipeType
  <2> HIDE DEF t
  <2> QED BY <1>2, <1>3, <1>5, <2>1, HasType, SMTT(60)
<1>8. stray \subseteq stray' /\ stray' \subseteq Pipes
  BY <1>4 DEF IInv, Types
<1>9. SetsEntry(p, fd, e)
  BY <1>2, <1>3, <1>4, <1>5, <1>6, <1>7, <1>8 DEF SetsEntry
<1> QED BY <1>9, EntryKeeps

LEMMA SetfdKeeps ==
    ASSUME IInv, NEW p \in live, NEW fd \in Fds, NEW cx \in {0, 1}, fcntl_setfd(p, fd, cx)
    PROVE  IInv'
<1> DEFINE t == fdt[p]
           e == [t[fd] EXCEPT !.cloexec = cx]
<1>1. p \in Procs /\ t \in [Fds -> EntryType] /\ t[fd] \in EntryType /\ pipe \in [Pipes -> PipeType]
      /\ fdt \in [Procs -> [Fds -> EntryType]]
  BY DEF IInv, Types
<1>2. e \in EntryType /\ e.kind = t[fd].kind /\ e.offset = t[fd].offset
      /\ \A i, kinds : Has(e, i, kinds) = Has(t[fd], i, kinds)
  BY <1>1, CopyIs
<1>3. /\ fdt' = [fdt EXCEPT ![p][fd] = e] /\ pipe' = pipe
      /\ UNCHANGED <<live, op, sent, got>> /\ stray' = stray
  BY <1>1 DEF fcntl_setfd
<1> HIDE DEF e
<1>4. e.kind = "rw" => e.offset \in stray'
  BY <1>1, <1>2, <1>3 DEF IInv, EventsStray
<1>5. ASSUME NEW i \in Pipes \ stray'
      PROVE  /\ pipe'[i].read_open = pipe[i].read_open - Has(t[fd], i, REnds) + Has(e, i, REnds)
             /\ pipe'[i].write_open = pipe[i].write_open - Has(t[fd], i, WEnds) + Has(e, i, WEnds)
  <2>1. pipe[i].read_open \in Nat /\ pipe[i].write_open \in Nat
    BY DEF IInv, Types, PipeType
  <2> HIDE DEF t
  <2> QED BY <1>2, <1>3, <2>1, HasType, SMT
<1>6. stray \subseteq stray' /\ stray' \subseteq Pipes
  BY <1>3 DEF IInv, Types
<1>7. pipe' \in [Pipes -> PipeType] /\ \A i \in Pipes : Same(pipe'[i], pipe[i])
  BY <1>1, <1>3 DEF Same
<1>8. SetsEntry(p, fd, e)
  BY <1>2, <1>3, <1>4, <1>5, <1>6, <1>7 DEF SetsEntry
<1> QED BY <1>8, EntryKeeps

LEMMA LseekKeeps ==
    ASSUME IInv, NEW p \in live, NEW fd \in Fds, NEW off \in Pipes, sys_linux_lseek(p, fd, off)
    PROVE  IInv'
<1> DEFINE t == fdt[p]
           e == [t[fd] EXCEPT !.offset = off]
<1>1. p \in Procs /\ t \in [Fds -> EntryType] /\ t[fd] \in EntryType /\ pipe \in [Pipes -> PipeType]
      /\ fdt \in [Procs -> [Fds -> EntryType]]
  BY DEF IInv, Types
<1>2. e \in EntryType /\ e.offset = off /\ t[fd].offset \in Pipes
  BY <1>1 DEF EntryType
<1>3. /\ fdt' = [fdt EXCEPT ![p][fd] = e] /\ pipe' = pipe
      /\ UNCHANGED <<live, op, sent, got>> /\ stray' = stray \cup {off, t[fd].offset}
  BY <1>1 DEF sys_linux_lseek
<1> HIDE DEF e
<1>4. e.kind = "rw" => e.offset \in stray'
  BY <1>2, <1>3
<1>5. ASSUME NEW i \in Pipes \ stray'
      PROVE  /\ pipe'[i].read_open = pipe[i].read_open - Has(t[fd], i, REnds) + Has(e, i, REnds)
             /\ pipe'[i].write_open = pipe[i].write_open - Has(t[fd], i, WEnds) + Has(e, i, WEnds)
  <2>1. pipe[i].read_open \in Nat /\ pipe[i].write_open \in Nat
    BY DEF IInv, Types, PipeType
  <2>2. i # off /\ i # t[fd].offset
    BY <1>3
  <2>3. /\ Has(t[fd], i, REnds) = 0 /\ Has(e, i, REnds) = 0
        /\ Has(t[fd], i, WEnds) = 0 /\ Has(e, i, WEnds) = 0
    BY <1>2, <2>2 DEF Has
  <2> HIDE DEF t
  <2> QED BY <1>3, <2>1, <2>3, SMT
<1>6. stray \subseteq stray' /\ stray' \subseteq Pipes
  BY <1>2, <1>3 DEF IInv, Types
<1>7. pipe' \in [Pipes -> PipeType] /\ \A i \in Pipes : Same(pipe'[i], pipe[i])
  BY <1>1, <1>3 DEF Same
<1>8. SetsEntry(p, fd, e)
  BY <1>2, <1>3, <1>4, <1>5, <1>6, <1>7 DEF SetsEntry
<1> QED BY <1>8, EntryKeeps

(* The descriptors S of p's table are released: the counts never fall short. *)
LEMMA Released ==
    ASSUME IInv, NEW p \in live, NEW S \in SUBSET Fds, NEW i \in Pipes \ stray,
           pipe' = DropRefs(pipe, fdt[p], S)
    PROVE  /\ pipe'[i].read_open = pipe[i].read_open - Number(fdt[p], S, i, REnds)
           /\ pipe'[i].write_open = pipe[i].write_open - Number(fdt[p], S, i, WEnds)
<1> DEFINE t == fdt[p]
<1>1. p \in Procs /\ pipe \in [Pipes -> PipeType]
  BY DEF IInv, Types
<1>2. /\ pipe'[i].read_open = Minus(pipe[i].read_open, Number(t, S, i, REnds))
      /\ pipe'[i].write_open = Minus(pipe[i].write_open, Number(t, S, i, {"w"}))
  BY <1>1, DropRefsIs, SMT
<1>3. Number(t, S, i, {"w"}) = Number(t, S, i, WEnds)
  BY <1>1, OneEnd
<1>4. /\ pipe[i].read_open \in Nat /\ pipe[i].write_open \in Nat
      /\ Number(t, Fds, i, REnds) <= pipe[i].read_open
      /\ Number(t, Fds, i, WEnds) <= pipe[i].write_open
  BY OwnRefs
<1>5. /\ Number(t, S, i, REnds) \in Nat /\ Number(t, S, i, REnds) <= Number(t, Fds, i, REnds)
      /\ Number(t, S, i, WEnds) \in Nat /\ Number(t, S, i, WEnds) <= Number(t, Fds, i, WEnds)
      /\ Number(t, Fds, i, REnds) \in Nat /\ Number(t, Fds, i, WEnds) \in Nat
  BY NumberType
<1> HIDE DEF t
<1> QED BY <1>2, <1>3, <1>4, <1>5, SMTT(60) DEF Minus, t

Releases(p, S, u) ==
    /\ p \in live /\ S \in SUBSET Fds /\ u \in [Fds -> EntryType]
    /\ \A x \in Fds \ S : u[x] = fdt[p][x]
    /\ \A x \in S : u[x].kind = "free"
    /\ fdt' = [fdt EXCEPT ![p] = u]
    /\ pipe' = DropRefs(pipe, fdt[p], S)
    /\ UNCHANGED <<live, op, sent, got, stray>>

LEMMA ReleaseKeeps ==
    ASSUME IInv, NEW p, NEW S, NEW u, Releases(p, S, u)
    PROVE  IInv'
<1> USE DEF Releases
<1> DEFINE t == fdt[p]
<1>1. pipe \in [Pipes -> PipeType] /\ t \in [Fds -> EntryType] /\ p \in Procs
  BY DEF IInv, Types
<1>2. pipe' \in [Pipes -> PipeType] /\ \A i \in Pipes : Same(pipe'[i], pipe[i])
  BY <1>1, DropRefsIs
<1>3. \A fd \in Fds : u[fd].kind = "rw" => u[fd].offset \in stray'
  BY <1>1 DEF IInv, EventsStray
<1>4. ASSUME NEW i \in Pipes \ stray'
      PROVE  /\ pipe'[i].read_open = pipe[i].read_open - Number(t, Fds, i, REnds) + Number(u, Fds, i, REnds)
             /\ pipe'[i].write_open = pipe[i].write_open - Number(t, Fds, i, WEnds) + Number(u, Fds, i, WEnds)
  <2>1. /\ pipe'[i].read_open = pipe[i].read_open - Number(t, S, i, REnds)
        /\ pipe'[i].write_open = pipe[i].write_open - Number(t, S, i, WEnds)
    BY Released
  <2>2. /\ \A x \in Fds \ S : u[x] = t[x]
        /\ \A x \in S : u[x].kind \notin REnds /\ u[x].kind \notin WEnds
    BY DEF REnds, WEnds
  <2>3. /\ pipe[i].read_open \in Nat /\ pipe[i].write_open \in Nat
    BY DEF IInv, Types, PipeType
  <2>4. /\ Number(t, S, i, REnds) \in Nat /\ Number(t, S, i, WEnds) \in Nat
        /\ Number(t, Fds, i, REnds) \in Nat /\ Number(t, Fds, i, WEnds) \in Nat
    BY NumberType
  <2> HIDE DEF t
  <2>5. Number(u, Fds, i, REnds) = Number(t, Fds, i, REnds) - Number(t, S, i, REnds)
    BY <2>2, DropEntries, SMTT(60)
  <2>6. Number(u, Fds, i, WEnds) = Number(t, Fds, i, WEnds) - Number(t, S, i, WEnds)
    BY <2>2, DropEntries, SMT
  <2> QED BY <2>1, <2>3, <2>4, <2>5, <2>6, SMTT(60)
<1>5. stray \subseteq stray' /\ stray' \subseteq Pipes
  BY DEF IInv, Types
<1>6. MovesCounts(p, u)
  BY <1>3, <1>4, <1>5 DEF MovesCounts
<1> QED BY <1>2, <1>5, <1>6, TableKeeps

LEMMA FreeType == Free \in EntryType /\ Free.kind = "free"
BY ZeroPipe DEF Free, Entry, EntryType, Kinds

LEMMA CloseKeeps ==
    ASSUME IInv, NEW p \in live, NEW fd \in Fds, sys_linux_close(p, fd)
    PROVE  IInv'
<1> DEFINE u == [fdt[p] EXCEPT ![fd] = Free]
<1>1. fdt[p] \in [Fds -> EntryType]
  BY DEF IInv, Types
<1>2. u \in [Fds -> EntryType] /\ u[fd] = Free /\ \A x \in Fds \ {fd} : u[x] = fdt[p][x]
  BY <1>1, FreeType
<1>3. Releases(p, {fd}, u)
  BY <1>2, FreeType DEF Releases, sys_linux_close, fd_close_entries
<1> QED BY <1>3, ReleaseKeeps

LEMMA ExecKeeps ==
    ASSUME IInv, NEW p \in live, sys_linux_execve(p)
    PROVE  IInv'
<1> DEFINE S == OnExec(fdt[p])
           u == [fd \in Fds |-> IF fd \in S THEN Free ELSE fdt[p][fd]]
<1>1. fdt[p] \in [Fds -> EntryType] /\ S \in SUBSET Fds
  BY DEF IInv, Types, OnExec
<1> HIDE DEF S
<1>2. u \in [Fds -> EntryType] /\ \A x \in Fds : u[x] = IF x \in S THEN Free ELSE fdt[p][x]
  BY <1>1, FreeType
<1>3. fdt' = [fdt EXCEPT ![p] = u] /\ pipe' = DropRefs(pipe, fdt[p], S)
      /\ UNCHANGED <<live, op, sent, got, stray>>
  BY DEF sys_linux_execve, fdt_close_on_exec, fd_close_entries, S
<1> HIDE DEF u
<1>4. Releases(p, S, u)
  BY <1>1, <1>2, <1>3, FreeType DEF Releases
<1> QED BY <1>4, ReleaseKeeps

(* Exit: p's table goes. *)
LEMMA ExitKeeps ==
    ASSUME IInv, NEW p \in Procs, linux_fdt_release(p)
    PROVE  IInv'
<1> USE DEF IInv
<1> DEFINE t == fdt[p]
<1>1. /\ p \in live /\ p \in Procs /\ live \subseteq Procs /\ fdt \in [Procs -> [Fds -> EntryType]]
      /\ pipe \in [Pipes -> PipeType]
  BY DEF Types, linux_fdt_release, Runs
<1>2. /\ pipe' = DropRefs(pipe, t, Fds) /\ fdt' = [fdt EXCEPT ![p] = fdt_new]
      /\ live' = live \ {p} /\ UNCHANGED <<op, sent, got, stray>>
  BY DEF linux_fdt_release, fd_close_entries
<1>3. /\ fdt' \in [Procs -> [Fds -> EntryType]] /\ fdt'[p] = fdt_new
      /\ \A q \in Procs \ {p} : fdt'[q] = fdt[q]
  BY <1>1, <1>2, NewTableIs
<1>4. pipe' \in [Pipes -> PipeType] /\ \A i \in Pipes : Same(pipe'[i], pipe[i])
  BY <1>1, <1>2, DropRefsIs
<1>5. Types'
  BY <1>1, <1>2, <1>3, <1>4 DEF Types
<1>6. Fifo'
  <2> SUFFICES ASSUME NEW i \in Pipes PROVE sent[i] = got[i] + pipe'[i].used /\ Holds(pipe'[i], got[i])
    BY <1>2 DEF Fifo
  <2>1. sent[i] = got[i] + pipe[i].used /\ Holds(pipe[i], got[i]) /\ Same(pipe'[i], pipe[i])
    BY <1>4 DEF Fifo
  <2> QED BY <2>1, SameHolds DEF Same
<1>7. EventsStray'
  <2>1. \A fd \in Fds : fdt_new[fd].kind # "rw"
    BY NewTableIs
  <2> QED BY <1>2, <1>3, <2>1 DEF EventsStray
<1>8. CountsRight'
  <2> SUFFICES ASSUME NEW i \in Pipes \ stray
               PROVE  /\ pipe'[i].read_open = Cardinality(RefsOf(live \ {p}, fdt', i, REnds))
                      /\ pipe'[i].write_open = Cardinality(RefsOf(live \ {p}, fdt', i, WEnds))
    BY <1>2 DEF CountsRight
  <2>1. /\ pipe[i].read_open = Cardinality(RefsOf(live, fdt, i, REnds))
        /\ pipe[i].write_open = Cardinality(RefsOf(live, fdt, i, WEnds))
    BY DEF CountsRight
  <2>2. OneTable(live, p, fdt, fdt')
    BY <1>1, <1>3 DEF OneTable
  <2>3. Counting(live, p, fdt, fdt')
    BY <2>2, ReplaceTable
  <2>4. /\ Cardinality(RefsOf(live \ {p}, fdt', i, REnds))
             = Cardinality(RefsOf(live, fdt, i, REnds)) - Number(t, Fds, i, REnds)
        /\ Cardinality(RefsOf(live \ {p}, fdt', i, WEnds))
             = Cardinality(RefsOf(live, fdt, i, WEnds)) - Number(t, Fds, i, WEnds)
    BY <2>3 DEF Counting
  <2>5. /\ pipe'[i].read_open = pipe[i].read_open - Number(t, Fds, i, REnds)
        /\ pipe'[i].write_open = pipe[i].write_open - Number(t, Fds, i, WEnds)
    BY <1>1, <1>2, Released
  <2> QED BY <2>1, <2>4, <2>5
<1> QED BY <1>5, <1>6, <1>7, <1>8

(* fork: c has a table more, a copy of p's or a new one. *)
LEMMA ForkKeeps ==
    ASSUME IInv, NEW p \in live, NEW c \in Procs, sys_linux_fork(p, c)
    PROVE  IInv'
<1> USE DEF IInv
<1> DEFINE u == fdt'[c]
<1>1. /\ p \in Procs /\ live \subseteq Procs /\ fdt \in [Procs -> [Fds -> EntryType]]
      /\ pipe \in [Pipes -> PipeType] /\ fdt[p] \in [Fds -> EntryType]
  BY DEF Types
<1>2. c \notin live /\ live' = live \cup {c} /\ UNCHANGED <<op, sent, got, stray>>
  BY DEF sys_linux_fork
<1>3. /\ fdt' \in [Procs -> [Fds -> EntryType]] /\ (u = fdt[p] \/ u = fdt_new)
      /\ \A q \in Procs \ {c} : fdt'[q] = fdt[q]
  BY <1>1, NewTableIs DEF sys_linux_fork, linux_fdt_clone
<1>4. /\ pipe' \in [Pipes -> PipeType]
      /\ \A i \in Pipes : /\ Same(pipe'[i], pipe[i])
                          /\ pipe'[i].read_open = pipe[i].read_open + Number(u, Fds, i, REnds)
                          /\ pipe'[i].write_open = pipe[i].write_open + Number(u, Fds, i, WEnds)
  <2>1. CASE fdt' = [fdt EXCEPT ![c] = fdt_new] /\ UNCHANGED pipe
    <3>1. u = fdt_new
      BY <1>1, <2>1
    <3>2. \A i \in Pipes : Number(fdt_new, Fds, i, REnds) = 0 /\ Number(fdt_new, Fds, i, WEnds) = 0
      BY NewTableIs, NoEnds DEF REnds, WEnds
    <3>3. \A i \in Pipes : pipe[i].read_open \in Nat /\ pipe[i].write_open \in Nat
      BY <1>1 DEF PipeType
    <3> QED BY <1>1, <2>1, <3>1, <3>2, <3>3, SMTT(60) DEF Same
  <2>2. CASE /\ fdt' = [fdt EXCEPT ![c] = fdt[p]]
             /\ pipe' = [i \in Pipes |->
                    [pipe[i] EXCEPT !.read_open = @ + Number(fdt[p], Fds, i, REnds),
                                    !.write_open = @ + Number(fdt[p], Fds, i, WEnds)]]
    <3> DEFINE t == fdt[p]
               n(i) == [pipe[i] EXCEPT !.read_open = @ + Number(t, Fds, i, REnds),
                                       !.write_open = @ + Number(t, Fds, i, WEnds)]
    <3>1. u = t
      BY <1>1, <2>2
    <3>2. pipe' = [i \in Pipes |-> n(i)]
      BY <2>2
    <3> HIDE DEF t
    <3>3. ASSUME NEW i \in Pipes
          PROVE  /\ n(i) \in PipeType /\ Same(n(i), pipe[i])
                 /\ n(i).read_open = pipe[i].read_open + Number(t, Fds, i, REnds)
                 /\ n(i).write_open = pipe[i].write_open + Number(t, Fds, i, WEnds)
      <4>1. Number(t, Fds, i, REnds) \in Nat /\ Number(t, Fds, i, WEnds) \in Nat
        BY NumberType
      <4>2. pipe[i] \in PipeType /\ pipe[i].read_open \in Nat /\ pipe[i].write_open \in Nat
        BY <1>1 DEF PipeType
      <4>3. /\ pipe[i].read_open + Number(t, Fds, i, REnds) \in Nat
            /\ pipe[i].write_open + Number(t, Fds, i, WEnds) \in Nat
        BY <4>1, <4>2, SMT
      <4> QED BY <4>2, <4>3 DEF PipeType, Same
    <3> HIDE DEF n
    <3> QED BY <3>1, <3>2, <3>3
  <2> QED BY <2>1, <2>2 DEF sys_linux_fork, linux_fdt_clone
<1>5. Types'
  BY <1>1, <1>2, <1>3, <1>4 DEF Types
<1>6. Fifo'
  <2> SUFFICES ASSUME NEW i \in Pipes PROVE sent[i] = got[i] + pipe'[i].used /\ Holds(pipe'[i], got[i])
    BY <1>2 DEF Fifo
  <2>1. sent[i] = got[i] + pipe[i].used /\ Holds(pipe[i], got[i]) /\ Same(pipe'[i], pipe[i])
    BY <1>4 DEF Fifo
  <2> QED BY <2>1, SameHolds DEF Same
<1>7. EventsStray'
  <2>1. \A fd \in Fds : fdt_new[fd].kind # "rw"
    BY NewTableIs
  <2> QED BY <1>1, <1>2, <1>3, <2>1 DEF EventsStray
<1>8. CountsRight'
  <2> SUFFICES ASSUME NEW i \in Pipes \ stray
               PROVE  /\ pipe'[i].read_open = Cardinality(RefsOf(live \cup {c}, fdt', i, REnds))
                      /\ pipe'[i].write_open = Cardinality(RefsOf(live \cup {c}, fdt', i, WEnds))
    BY <1>2 DEF CountsRight
  <2>1. /\ pipe[i].read_open = Cardinality(RefsOf(live, fdt, i, REnds))
        /\ pipe[i].write_open = Cardinality(RefsOf(live, fdt, i, WEnds))
    BY DEF CountsRight
  <2>2. MoreTable(live, c, fdt, fdt')
    BY <1>1, <1>2, <1>3 DEF MoreTable
  <2>3. MoreCounting(live, c, fdt, fdt')
    BY <2>2, AddTable
  <2> QED BY <1>4, <2>1, <2>3 DEF MoreCounting
<1> QED BY <1>5, <1>6, <1>7, <1>8

LEMMA SlotIs ==
    ASSUME ClosedPipes # {}
    PROVE  /\ pipe_alloc \in Pipes
           /\ pipe[pipe_alloc].read_open = 0 /\ pipe[pipe_alloc].write_open = 0
<1>1. ClosedPipes \subseteq Nat
  BY SMT DEF ClosedPipes, Pipes
<1>2. pipe_alloc \in ClosedPipes
  BY <1>1, MinOf DEF pipe_alloc
<1> QED BY <1>2 DEF ClosedPipes

LEMMA PipeKeeps ==
    ASSUME IInv, NEW p \in live, NEW cx \in {0, 1}, sys_linux_pipe(p, cx)
    PROVE  IInv'
<1> DEFINE t == fdt[p]
           i == pipe_alloc
           free == Unused(t, FirstFd)
           rfd == Min(free)
           wfd == Min(free \ {rfd})
<1>1. /\ fdt \in [Procs -> [Fds -> EntryType]] /\ pipe \in [Pipes -> PipeType] /\ p \in Procs
      /\ t \in [Fds -> EntryType] /\ stray \subseteq Pipes
  BY DEF IInv, Types
<1>2. i \in Pipes /\ pipe[i].read_open = 0 /\ pipe[i].write_open = 0
  BY SlotIs DEF sys_linux_pipe
<1>3. /\ sent' = [sent EXCEPT ![i] = 0] /\ got' = [got EXCEPT ![i] = 0]
      /\ live' = live /\ op' = op /\ stray' = stray
  BY DEF sys_linux_pipe
<1>4. \A fd \in Fds : t[fd].kind = "rw" => t[fd].offset \in stray
  BY <1>1 DEF IInv, EventsStray
<1>5. CASE pipe' = [pipe EXCEPT ![i] = pipe_unused] /\ UNCHANGED fdt
  <2>1. fdt' = [fdt EXCEPT ![p] = t]
    BY <1>1, <1>5
  <2>2. ASSUME NEW j \in Pipes \ stray'
        PROVE  /\ pipe'[j].read_open = pipe[j].read_open - Number(t, Fds, j, REnds) + Number(t, Fds, j, REnds)
               /\ pipe'[j].write_open = pipe[j].write_open - Number(t, Fds, j, WEnds) + Number(t, Fds, j, WEnds)
    <3>1. pipe'[j].read_open = pipe[j].read_open /\ pipe'[j].write_open = pipe[j].write_open
      BY <1>1, <1>2, <1>5, NewPipeIs
    <3>2. pipe[j].read_open \in Nat /\ pipe[j].write_open \in Nat
      BY <1>1 DEF PipeType
    <3>3. Number(t, Fds, j, REnds) \in Nat /\ Number(t, Fds, j, WEnds) \in Nat
      BY NumberType
    <3> HIDE DEF t
    <3> QED BY <3>1, <3>2, <3>3, SMT
  <2>3. MovesCounts(p, t)
    BY <1>1, <1>3, <1>4, <2>1, <2>2 DEF MovesCounts
  <2> QED BY <1>1, <1>2, <1>3, <1>5, <2>3, SlotKeeps
<1>6. CASE /\ Cardinality(free) >= 2
           /\ pipe' = [pipe EXCEPT ![i] = pipe_new]
           /\ fdt' = [fdt EXCEPT ![p][rfd] = Entry("r", i, cx), ![p][wfd] = Entry("w", i, cx)]
  <2> DEFINE r == Entry("r", i, cx)
             w == Entry("w", i, cx)
             m == [t EXCEPT ![rfd] = r]
             u == [m EXCEPT ![wfd] = w]
  <2>1. free \subseteq Fds /\ free \subseteq Nat /\ \A x \in free : t[x].kind = "free"
    BY SMT DEF Unused, Fds
  <2>2. free # {} /\ free \ {rfd} # {}
    <3>1. Cardinality(free) # 0 /\ Cardinality(free) # 1
      BY <1>6, SMT
    <3> HIDE DEF free
    <3>2. free # {}
      BY <3>1, FS_EmptySet
    <3>3. rfd \in free
      BY <2>1, <3>2, MinOf
    <3>4. free # {rfd}
      BY <3>1, FS_Singleton
    <3> QED BY <3>2, <3>3, <3>4
  <2>3. rfd \in free /\ wfd \in free \ {rfd}
    <3> HIDE DEF free
    <3>1. rfd \in free
      BY <2>1, <2>2, MinOf
    <3> DEFINE rest == free \ {rfd}
    <3>2. rest \subseteq Nat /\ rest # {}
      BY <2>1, <2>2
    <3> HIDE DEF rest
    <3>3. Min(rest) \in rest
      BY <3>2, MinOf
    <3> QED BY <3>1, <3>3 DEF rest
  <2> HIDE DEF free, rfd, wfd, i
  <2>4. /\ r \in EntryType /\ r.kind = "r" /\ r.offset = i
        /\ w \in EntryType /\ w.kind = "w" /\ w.offset = i
    BY <1>2 DEF Entry, EntryType, Kinds
  <2> HIDE DEF r, w
  <2>5. /\ rfd \in Fds /\ wfd \in Fds /\ wfd # rfd
        /\ t[rfd].kind = "free" /\ t[wfd].kind = "free"
    BY <2>1, <2>3
  <2>6. /\ fdt' = [fdt EXCEPT ![p] = u]
    BY <1>1, <1>6, <2>5 DEF r, w
  <2> HIDE DEF t
  <2>7. /\ m \in [Fds -> EntryType] /\ m[rfd] = r /\ \A x \in Fds \ {rfd} : m[x] = t[x]
        /\ m[wfd] = t[wfd]
    BY <1>1, <2>4, <2>5
  <2> HIDE DEF m
  <2>8. u \in [Fds -> EntryType] /\ u[wfd] = w /\ \A x \in Fds \ {wfd} : u[x] = m[x]
    BY <2>4, <2>5, <2>7
  <2> HIDE DEF u
  <2>9. FdCounting(t, m, rfd) /\ FdCounting(m, u, wfd)
    <3>1. OneFd(t, m, rfd) /\ OneFd(m, u, wfd)
      BY <2>5, <2>7, <2>8 DEF OneFd
    <3> QED BY <3>1, SetEntry
  <2>10. ASSUME NEW j \in Pipes \ stray'
         PROVE  /\ pipe'[j].read_open = pipe[j].read_open - Number(t, Fds, j, REnds) + Number(u, Fds, j, REnds)
                /\ pipe'[j].write_open = pipe[j].write_open - Number(t, Fds, j, WEnds) + Number(u, Fds, j, WEnds)
    <3>1. /\ Number(m, Fds, j, REnds) = Number(t, Fds, j, REnds) - Has(t[rfd], j, REnds) + Has(m[rfd], j, REnds)
          /\ Number(m, Fds, j, WEnds) = Number(t, Fds, j, WEnds) - Has(t[rfd], j, WEnds) + Has(m[rfd], j, WEnds)
      BY <2>9 DEF FdCounting
    <3>2. /\ Number(u, Fds, j, REnds) = Number(m, Fds, j, REnds) - Has(m[wfd], j, REnds) + Has(u[wfd], j, REnds)
          /\ Number(u, Fds, j, WEnds) = Number(m, Fds, j, WEnds) - Has(m[wfd], j, WEnds) + Has(u[wfd], j, WEnds)
      BY <2>9 DEF FdCounting
    <3>3. /\ Has(t[rfd], j, REnds) = 0 /\ Has(t[rfd], j, WEnds) = 0
          /\ Has(m[wfd], j, REnds) = 0 /\ Has(m[wfd], j, WEnds) = 0
      BY <2>5, <2>7 DEF Has, REnds, WEnds
    <3>4. /\ Has(m[rfd], j, REnds) = (IF j = i THEN 1 ELSE 0) /\ Has(m[rfd], j, WEnds) = 0
          /\ Has(u[wfd], j, WEnds) = (IF j = i THEN 1 ELSE 0) /\ Has(u[wfd], j, REnds) = 0
      BY <2>4, <2>7, <2>8 DEF Has, REnds, WEnds
    <3>5. /\ Number(t, Fds, j, REnds) \in Nat /\ Number(t, Fds, j, WEnds) \in Nat
      BY NumberType
    <3>6. pipe[j].read_open \in Nat /\ pipe[j].write_open \in Nat
      BY <1>1 DEF PipeType
    <3>7. /\ pipe'[j].read_open = IF j = i THEN 1 ELSE pipe[j].read_open
          /\ pipe'[j].write_open = IF j = i THEN 1 ELSE pipe[j].write_open
      BY <1>1, <1>2, <1>6, NewPipeIs DEF i
    <3>8. pipe[i].read_open = 0 /\ pipe[i].write_open = 0
      BY <1>2
    <3> QED BY <3>1, <3>2, <3>3, <3>4, <3>5, <3>6, <3>7, <3>8, SMTT(60)
  <2>11. \A x \in Fds : u[x].kind = "rw" => u[x].offset \in stray'
    BY <1>3, <1>4, <2>4, <2>7, <2>8
  <2>12. MovesCounts(p, u)
    BY <1>3, <2>6, <2>8, <2>10, <2>11 DEF MovesCounts, t
  <2>13. pipe' = [pipe EXCEPT ![i] = pipe_new]
    BY <1>6 DEF i
  <2> QED BY <1>1, <1>2, <1>3, <2>12, <2>13, SlotKeeps
<1> QED BY <1>5, <1>6 DEF sys_linux_pipe

LEMMA EventfdKeeps ==
    ASSUME IInv, NEW p \in live, sys_linux_eventfd(p)
    PROVE  IInv'
<1> DEFINE t == fdt[p]
           i == pipe_alloc
           free == Unused(t, FirstFd)
           fd == Min(free)
           e == Entry("rw", i, 0)
           u == IF free = {} THEN t ELSE [t EXCEPT ![fd] = e]
           n == IF free = {} THEN pipe_unused ELSE pipe_new
<1>1. /\ fdt \in [Procs -> [Fds -> EntryType]] /\ pipe \in [Pipes -> PipeType] /\ p \in Procs
      /\ t \in [Fds -> EntryType] /\ stray \subseteq Pipes
  BY DEF IInv, Types
<1>2. i \in Pipes /\ pipe[i].read_open = 0 /\ pipe[i].write_open = 0
  BY SlotIs DEF sys_linux_eventfd
<1>3. /\ sent' = [sent EXCEPT ![i] = 0] /\ got' = [got EXCEPT ![i] = 0]
      /\ live' = live /\ op' = op /\ stray' = IF free = {} THEN stray ELSE stray \cup {i}
      /\ pipe' = [pipe EXCEPT ![i] = n]
  BY DEF sys_linux_eventfd
<1>4. fdt' = [fdt EXCEPT ![p] = u]
  BY <1>1 DEF sys_linux_eventfd
<1>5. free # {} => fd \in Fds /\ t[fd].kind = "free"
  BY <1>1, FreshFd DEF Unused
<1> HIDE DEF free, fd, i, t
<1>6. e \in EntryType /\ e.kind = "rw" /\ e.offset = i
  BY <1>2 DEF Entry, EntryType, Kinds
<1> HIDE DEF e
<1>7. /\ u \in [Fds -> EntryType]
      /\ \A x \in Fds : u[x] = IF free # {} /\ x = fd THEN e ELSE t[x]
  BY <1>1, <1>5, <1>6
<1>8. stray \subseteq stray' /\ stray' \subseteq Pipes /\ (free # {} => i \in stray')
  BY <1>1, <1>2, <1>3
<1>9. n \in {pipe_new, pipe_unused}
  OBVIOUS
<1> HIDE DEF u, n
<1>10. \A x \in Fds : u[x].kind = "rw" => u[x].offset \in stray'
  <2>1. \A x \in Fds : t[x].kind = "rw" => t[x].offset \in stray
    BY <1>1 DEF IInv, EventsStray, t
  <2> QED BY <1>6, <1>7, <1>8, <2>1
<1>11. ASSUME NEW j \in Pipes \ stray'
       PROVE  /\ pipe'[j].read_open = pipe[j].read_open - Number(t, Fds, j, REnds) + Number(u, Fds, j, REnds)
              /\ pipe'[j].write_open = pipe[j].write_open - Number(t, Fds, j, WEnds) + Number(u, Fds, j, WEnds)
  <2>1. Ends(u, Fds, j, REnds) = Ends(t, Fds, j, REnds) /\ Ends(u, Fds, j, WEnds) = Ends(t, Fds, j, WEnds)
    BY <1>5, <1>6, <1>7, <1>8 DEF Ends, REnds, WEnds
  <2>2. Number(t, Fds, j, REnds) \in Nat /\ Number(t, Fds, j, WEnds) \in Nat
    BY NumberType
  <2>3. pipe[j].read_open \in Nat /\ pipe[j].write_open \in Nat
    BY <1>1 DEF PipeType
  <2>4. pipe'[j].read_open = pipe[j].read_open /\ pipe'[j].write_open = pipe[j].write_open
    <3>1. CASE j # i
      BY <1>1, <1>3, <3>1
    <3>2. CASE j = i
      <4>1. n = pipe_unused
        BY <1>8, <3>2 DEF n
      <4> QED BY <1>1, <1>2, <1>3, <3>2, <4>1, NewPipeIs
    <3> QED BY <3>1, <3>2
  <2> QED BY <2>1, <2>2, <2>3, <2>4, SMTT(60) DEF Number
<1>12. MovesCounts(p, u)
  BY <1>3, <1>4, <1>7, <1>8, <1>10, <1>11 DEF MovesCounts, t
<1> QED BY <1>2, <1>3, <1>8, <1>9, <1>12, SlotKeeps

-----------------------------------------------------------------------------
(* Reading and writing. *)
LEMMA EnterKeeps ==
    ASSUME IInv, NEW p \in live, NEW fd \in Fds, NEW n \in Counts,
           fd_read_any(p, fd, n) \/ fd_write_any(p, fd, n)
    PROVE  IInv'
<1>1. p \in Procs /\ fdt[p][fd].offset \in Pipes /\ op \in [Procs -> OpType]
  BY SMT DEF IInv, Types, EntryType
<1>2. n \in Nat
  BY FdtAssumption
<1>3. PICK c \in {"read", "write"} :
        op' = [op EXCEPT ![p] = [call |-> c, pipe |-> fdt[p][fd].offset, left |-> n, count |-> n]]
  BY DEF fd_read_any, fd_write_any
<1> DEFINE o == [call |-> c, pipe |-> fdt[p][fd].offset, left |-> n, count |-> n]
<1>4. o \in OpType /\ o.left <= o.count
  BY <1>1, <1>2, SMT DEF OpType
<1>5. op' = [op EXCEPT ![p] = o]
  BY <1>3
<1> HIDE DEF o
<1>6. op' \in [Procs -> OpType] /\ \A q \in Procs : op'[q].left <= op'[q].count
  BY <1>1, <1>4, <1>5 DEF IInv, Types
<1>7. UNCHANGED <<fdt, pipe, live, sent, got, stray>>
  BY DEF fd_read_any, fd_write_any
<1>8. Types'
  BY <1>6, <1>7 DEF IInv, Types
<1>9. Fifo' /\ EventsStray' /\ CountsRight'
  BY <1>7 DEF IInv, Fifo, EventsStray, CountsRight
<1> QED BY <1>8, <1>9 DEF IInv

(* A turn that moves n bytes through pipe i, and leaves the counts alone. *)
Moves(i, q, s, g) ==
    /\ i \in Pipes /\ q \in PipeType /\ s \in Nat /\ g \in Nat
    /\ s = g + q.used /\ Holds(q, g)
    /\ q.read_open = pipe[i].read_open /\ q.write_open = pipe[i].write_open
    /\ pipe' = [pipe EXCEPT ![i] = q]
    /\ sent' = [sent EXCEPT ![i] = s] /\ got' = [got EXCEPT ![i] = g]
    /\ op' \in [Procs -> OpType] /\ \A p \in Procs : op'[p].left <= op'[p].count
    /\ UNCHANGED <<fdt, live, stray>>

LEMMA MoveKeeps ==
    ASSUME IInv, NEW i, NEW q, NEW s, NEW g, Moves(i, q, s, g)
    PROVE  IInv'
<1> USE DEF IInv, Moves
<1>1. /\ pipe' \in [Pipes -> PipeType] /\ sent' \in [Pipes -> Nat] /\ got' \in [Pipes -> Nat]
      /\ \A j \in Pipes : /\ pipe'[j] = IF j = i THEN q ELSE pipe[j]
                          /\ sent'[j] = IF j = i THEN s ELSE sent[j]
                          /\ got'[j] = IF j = i THEN g ELSE got[j]
  BY DEF Types
<1>2. Types'
  BY <1>1 DEF Types
<1>3. Fifo'
  <2> SUFFICES ASSUME NEW j \in Pipes
               PROVE  sent'[j] = got'[j] + pipe'[j].used /\ Holds(pipe'[j], got'[j])
    BY DEF Fifo
  <2>1. CASE j = i
    BY <1>1, <2>1
  <2>2. CASE j # i
    BY <1>1, <2>2 DEF Fifo
  <2> QED BY <2>1, <2>2
<1>4. EventsStray'
  BY DEF EventsStray
<1>5. CountsRight'
  BY <1>1 DEF CountsRight
<1> QED BY <1>2, <1>3, <1>4, <1>5

LEMMA IdleType == Idle \in OpType /\ Idle.left <= Idle.count
BY ZeroPipe, SMT DEF Idle, OpType

LEMMA ReadKeeps ==
    ASSUME IInv, NEW p \in Procs, pipe_read(p)
    PROVE  IInv'
<1> DEFINE i == op[p].pipe
           n == Min({op[p].left, pipe[i].used})
           q == Taken(pipe[i], n)
           g == got[i] + n
<1>1. /\ op \in [Procs -> OpType] /\ i \in Pipes /\ op[p].left \in Nat
      /\ pipe \in [Pipes -> PipeType] /\ pipe[i] \in PipeType
      /\ sent \in [Pipes -> Nat] /\ got \in [Pipes -> Nat]
  BY DEF IInv, Types, OpType
<1>2. pipe[i].used \in Nat /\ got[i] \in Nat /\ sent[i] \in Nat
  BY <1>1, SMT DEF PipeType
<1>3. n \in 0..pipe[i].used
  BY <1>1, <1>2, MinPair, SMT
<1>4. /\ pipe' = [pipe EXCEPT ![i] = q] /\ got' = [got EXCEPT ![i] = g]
      /\ op' = [op EXCEPT ![p] = Idle] /\ UNCHANGED <<fdt, live, sent, stray>>
  BY <1>1 DEF pipe_read
<1> HIDE DEF n, i
<1>5. sent[i] = got[i] + pipe[i].used /\ Holds(pipe[i], got[i])
  BY <1>1 DEF IInv, Fifo
<1>6. /\ q \in PipeType /\ q.used = pipe[i].used - n /\ Holds(q, g)
      /\ q.read_open = pipe[i].read_open /\ q.write_open = pipe[i].write_open
  BY <1>1, <1>2, <1>3, <1>5, TakenIs
<1> HIDE DEF q
<1>7. g \in Nat /\ sent[i] = g + q.used
  BY <1>2, <1>3, <1>5, <1>6, SMT
<1> HIDE DEF g
<1>8. op' \in [Procs -> OpType] /\ \A x \in Procs : op'[x].left <= op'[x].count
  BY <1>1, <1>4, IdleType DEF IInv, Types
<1>9. sent' = [sent EXCEPT ![i] = sent[i]]
  BY <1>1, <1>4
<1>10. Moves(i, q, sent[i], g)
  BY <1>1, <1>2, <1>4, <1>6, <1>7, <1>8, <1>9 DEF Moves
<1> QED BY <1>10, MoveKeeps

LEMMA WriteKeeps ==
    ASSUME IInv, NEW p \in Procs, pipe_write(p)
    PROVE  IInv'
<1> DEFINE i == op[p].pipe
           n == IF pipe[i].read_open = 0 THEN 0 ELSE Min({op[p].left, Room(i)})
           end == pipe[i].read_open = 0 \/ n = op[p].left
           q == Put(pipe[i], sent[i], n)
           s == sent[i] + n
           o == IF end THEN Idle ELSE [op[p] EXCEPT !.left = @ - n]
<1>1. /\ op \in [Procs -> OpType] /\ i \in Pipes /\ op[p].left \in Nat /\ op[p].count \in Nat
      /\ pipe \in [Pipes -> PipeType] /\ pipe[i] \in PipeType /\ op[p] \in OpType
      /\ sent \in [Pipes -> Nat] /\ got \in [Pipes -> Nat] /\ op[p].left <= op[p].count
  BY DEF IInv, Types, OpType
<1>2. /\ pipe[i].used \in 0..B /\ B \in Nat /\ got[i] \in Nat /\ sent[i] \in Nat
      /\ Room(i) = B - pipe[i].used
  BY <1>1, FdtAssumption DEF PipeType, B, Room
<1>3. Room(i) \in Nat
  BY <1>2, SMTT(60)
<1>4. n \in 0..B - pipe[i].used /\ n <= op[p].left /\ n \in Nat
  BY <1>1, <1>2, <1>3, MinPair, SMT
<1>5. /\ pipe' = [pipe EXCEPT ![i] = q] /\ sent' = [sent EXCEPT ![i] = s]
      /\ op' = [op EXCEPT ![p] = o] /\ UNCHANGED <<fdt, live, got, stray>>
  BY <1>1 DEF pipe_write
<1> HIDE DEF n, i, end
<1>6. sent[i] = got[i] + pipe[i].used /\ Holds(pipe[i], got[i])
  BY <1>1 DEF IInv, Fifo
<1>7. /\ q \in PipeType /\ q.used = pipe[i].used + n /\ Holds(q, got[i])
      /\ q.read_open = pipe[i].read_open /\ q.write_open = pipe[i].write_open
  BY <1>1, <1>2, <1>4, <1>6, PutIs, SMTT(60)
<1> HIDE DEF q
<1>8. s \in Nat /\ s = got[i] + q.used
  BY <1>2, <1>4, <1>6, <1>7, SMTT(60)
<1> HIDE DEF s
<1>9. o \in OpType /\ o.left <= o.count
  <2>1. op[p].left - n \in Nat /\ op[p].left - n <= op[p].count
    BY <1>1, <1>4, SMTT(60)
  <2>2. [op[p] EXCEPT !.left = @ - n] \in OpType
        /\ [op[p] EXCEPT !.left = @ - n].left <= [op[p] EXCEPT !.left = @ - n].count
    BY <1>1, <2>1 DEF OpType
  <2> QED BY <2>2, IdleType
<1> HIDE DEF o
<1>10. op' \in [Procs -> OpType] /\ \A x \in Procs : op'[x].left <= op'[x].count
  BY <1>1, <1>5, <1>9 DEF IInv, Types
<1>11. got' = [got EXCEPT ![i] = got[i]]
  BY <1>1, <1>5
<1>12. Moves(i, q, s, got[i])
  BY <1>1, <1>2, <1>5, <1>7, <1>8, <1>10, <1>11 DEF Moves
<1> QED BY <1>12, MoveKeeps

-----------------------------------------------------------------------------
LEMMA CallKeeps ==
    ASSUME IInv, NEW p \in Procs, Call(p)
    PROVE  IInv'
<1>1. p \in live
  BY DEF Call, Runs
<1>2. ASSUME NEW cx \in {0, 1}, sys_linux_pipe(p, cx) PROVE IInv'
  BY <1>1, <1>2, PipeKeeps
<1>3. CASE sys_linux_eventfd(p)
  BY <1>1, <1>3, EventfdKeeps
<1>4. ASSUME NEW fd \in Fds, sys_linux_dup(p, fd) PROVE IInv'
  BY <1>1, <1>4, DupKeeps
<1>5. ASSUME NEW fd \in Fds, sys_linux_close(p, fd) PROVE IInv'
  BY <1>1, <1>5, CloseKeeps
<1>6. ASSUME NEW old \in Fds, NEW new \in Fds, NEW cx \in {0, 1}, sys_linux_dup2(p, old, new, cx) PROVE IInv'
  BY <1>1, <1>6, Dup2Keeps
<1>7. ASSUME NEW fd \in Fds, NEW low \in Fds, NEW cx \in {0, 1}, fcntl_dupfd(p, fd, low, cx) PROVE IInv'
  BY <1>1, <1>7, DupfdKeeps
<1>8. ASSUME NEW fd \in Fds, NEW cx \in {0, 1}, fcntl_setfd(p, fd, cx) PROVE IInv'
  BY <1>1, <1>8, SetfdKeeps
<1>9. ASSUME NEW fd \in Fds, NEW off \in Pipes, sys_linux_lseek(p, fd, off) PROVE IInv'
  BY <1>1, <1>9, LseekKeeps
<1>10. ASSUME NEW c \in Procs, sys_linux_fork(p, c) PROVE IInv'
  BY <1>1, <1>10, ForkKeeps
<1>11. CASE sys_linux_execve(p)
  BY <1>1, <1>11, ExecKeeps
<1>12. ASSUME NEW fd \in Fds, NEW n \in Counts, fd_read_any(p, fd, n) \/ fd_write_any(p, fd, n) PROVE IInv'
  BY <1>1, <1>12, EnterKeeps
<1> QED BY <1>2, <1>3, <1>4, <1>5, <1>6, <1>7, <1>8, <1>9, <1>10, <1>11, <1>12 DEF Call

LEMMA StepKeeps == IInv /\ [Next]_vars => IInv'
<1> SUFFICES ASSUME IInv, [Next]_vars PROVE IInv'
  OBVIOUS
<1>1. CASE UNCHANGED vars
  BY <1>1 DEF vars, IInv, Types, Fifo, EventsStray, CountsRight
<1>2. CASE Next
  <2>1. PICK p \in Procs : Call(p) \/ linux_fdt_release(p) \/ Resume(p)
    BY <1>2 DEF Next
  <2>2. CASE Call(p)
    BY <2>2, CallKeeps
  <2>3. CASE linux_fdt_release(p)
    BY <2>3, ExitKeeps
  <2>4. CASE Resume(p)
    BY <2>4, ReadKeeps, WriteKeeps DEF Resume
  <2> QED BY <2>1, <2>2, <2>3, <2>4
<1> QED BY <1>1, <1>2

LEMMA Invariance == Spec => []IInv
BY IInvInit, StepKeeps, PTL DEF Spec

(* The tables, the pool and the calls in progress have their types: a
   descriptor of a pipe always holds an index of the pool, and head, tail and
   used stay inside the ring. *)
THEOREM TypeCorrect == Spec => []TypeOK
<1>1. IInv => TypeOK
  <2> SUFFICES ASSUME IInv PROVE TypeOK
    OBVIOUS
  <2>1. Pipes \subseteq Nat
    BY SMT DEF Pipes
  <2>2. EntryType \subseteq [kind : Kinds, offset : Nat, cloexec : {0, 1}]
    BY <2>1 DEF EntryType
  <2>3. fdt \in [Procs -> [Fds -> [kind : Kinds, offset : Nat, cloexec : {0, 1}]]]
    BY <2>2, SMT DEF IInv, Types
  <2>4. \A i \in Pipes : /\ pipe[i].read_open \in Nat /\ pipe[i].write_open \in Nat
                         /\ pipe[i].head \in 0..PIPE_BUF_SIZE-1 /\ pipe[i].tail \in 0..PIPE_BUF_SIZE-1
                         /\ pipe[i].used \in 0..PIPE_BUF_SIZE
    BY DEF IInv, Types, PipeType, B
  <2>5. \A p \in Procs : op[p].call \in {"idle", "read", "write"} /\ op[p].left <= op[p].count
    BY DEF IInv, Types, OpType
  <2>6. live \subseteq Procs
    BY DEF IInv, Types
  <2> QED BY <2>3, <2>4, <2>5, <2>6 DEF TypeOK
<1> QED BY <1>1, Invariance, PTL

(* A pipe delivers the bytes written to it once each and in order, for any
   size of the ring, any number of readers and writers on either end, and any
   order in which they are stopped half way: what pipe_write stored and
   pipe_read has not taken is what lies between head and tail. *)
THEOREM PipeAlwaysFifo == Spec => []PipeFifo
<1>1. IInv => PipeFifo
  BY DEF IInv, Fifo, Holds, PipeFifo, B
<1> QED BY <1>1, Invariance, PTL

LEMMA CountsAre == IInv => PipeCounts
<1>1. \A i, kinds : Refs(i, kinds) = RefsOf(live, fdt, i, kinds)
  BY DEF Refs, RefsOf
<1> QED BY <1>1 DEF IInv, CountsRight, PipeCounts, Counted

(* The counts of a pipe are the numbers of its descriptors after any sequence
   of fork, dup, dup2, fcntl, close, execve and exit by any number of
   processes, as long as no eventfd and no lseek reached the pipe. *)
THEOREM PipeCountsExact == Spec => []PipeCounts
BY CountsAre, Invariance, PTL

(* A slot that pipe_alloc may hand out is named by no descriptor of a process
   that runs, so that a new pipe is never shared with the users of an old one. *)
SlotsFree == \A i \in ClosedPipes : Counted(i) => Refs(i, REnds \cup WEnds) = {}

(* The exact counts make SlotsFree hold for every pipe no eventfd and no lseek
   reached: pipe_alloc tests nothing but the two counts. *)
THEOREM NoSlotShared == Spec => []SlotsFree
<1>1. IInv => SlotsFree
  <2> SUFFICES ASSUME IInv, NEW i \in ClosedPipes, Counted(i)
               PROVE  Refs(i, REnds \cup WEnds) = {}
    BY DEF SlotsFree
  <2>1. i \in Pipes /\ pipe[i].read_open = 0 /\ pipe[i].write_open = 0
    BY DEF ClosedPipes
  <2>2. Cardinality(Refs(i, REnds)) = 0 /\ Cardinality(Refs(i, WEnds)) = 0
    BY <2>1, CountsAre DEF PipeCounts
  <2>3. \A kinds : Refs(i, kinds) = RefsOf(live, fdt, i, kinds)
    BY DEF Refs, RefsOf
  <2>4. IsFiniteSet(Refs(i, REnds)) /\ IsFiniteSet(Refs(i, WEnds))
    BY <2>3, RefsFinite DEF IInv, Types
  <2>5. Refs(i, REnds) = {} /\ Refs(i, WEnds) = {}
    BY <2>2, <2>4, FS_EmptySet
  <2> QED BY <2>5 DEF Refs
<1> QED BY <1>1, Invariance, PTL
=============================================================================
