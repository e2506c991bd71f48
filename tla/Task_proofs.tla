----------------------------- MODULE Task_proofs -----------------------------
(***************************************************************************)
(* The safety properties of Task, for any number of tasks and addresses,   *)
(* with and without preemption.                                            *)
(***************************************************************************)
EXTENDS Task, TLAPS, FiniteSetTheorems

(* A step is proved by Zenon within 20 seconds, or names another prover. *)
USE ZenonT(20)

Injective(s) == \A i, j \in 1..Len(s) : s[i] = s[j] => i = j

-----------------------------------------------------------------------------
(* Lists. *)

LEMMA LeastNat ==
    ASSUME NEW T, T \subseteq Nat, T # {}
    PROVE  \E x \in T : \A y \in T : x <= y
<1>1. \E x \in T : \A y \in T : ~ (<<y, x>> \in OpToRel(<, Nat))
  BY WFMin, NatLessThanWellFounded
<1>2. PICK x \in T : \A y \in T : ~ (<<y, x>> \in OpToRel(<, Nat))
  BY <1>1
<1>3. \A y \in T : ~ (y < x)
  BY <1>2 DEF OpToRel
<1> QED BY <1>3, SMT

LEMMA AtIs ==
    ASSUME NEW r \in Seq(Addr), NEW t \in Elems(r)
    PROVE  At(r, t) \in 1..Len(r) /\ r[At(r, t)] = t
<1>1. \E k \in 1..Len(r) : r[k] = t
  BY DEF Elems
<1> QED BY <1>1 DEF At

LEMMA ElemsType ==
    ASSUME NEW r \in Seq(Addr) PROVE Elems(r) \subseteq Addr
BY SMT DEF Elems

LEMMA FirstInIs ==
    ASSUME NEW s \in Seq(Addr), NEW S, Elems(s) \cap S # {}
    PROVE  FirstIn(s, S) \in Elems(s) \cap S
<1> DEFINE K == {k \in 1..Len(s) : s[k] \in S}
<1>1. K \subseteq Nat /\ K # {}
  BY SMT DEF Elems
<1>2. PICK k \in K : \A j \in K : k <= j
  BY <1>1, LeastNat
<1>3. k \in 1..Len(s) /\ s[k] \in S /\ \A j \in 1..k-1 : s[j] \notin S
  BY <1>2, SMT
<1> DEFINE c == CHOOSE i \in 1..Len(s) : s[i] \in S /\ \A j \in 1..i-1 : s[j] \notin S
<1>4. c \in 1..Len(s) /\ s[c] \in S
  BY <1>3
<1>5. FirstIn(s, S) = s[c]
  BY DEF FirstIn
<1> QED BY <1>4, <1>5 DEF Elems

LEMMA InsertIs ==
    ASSUME NEW r \in Seq(Addr), r # <<>>, Injective(r), NEW t \in Addr \ Elems(r)
    PROVE  /\ ready_insert(r, t) \in Seq(Addr) /\ Injective(ready_insert(r, t))
           /\ Elems(ready_insert(r, t)) = Elems(r) \cup {t}
<1> DEFINE q == ready_insert(r, t)
<1>1. q \in Seq(Addr) /\ Len(q) = Len(r) + 1
  BY SMT DEF ready_insert
<1>2. \A k \in 1..Len(q) : q[k] = IF k = 1 THEN r[1] ELSE IF k = 2 THEN t ELSE r[k - 1]
  BY SMT DEF ready_insert
<1> HIDE DEF q
<1>3. Len(r) \in Nat \ {0}
  BY SMT
<1>4. ASSUME NEW i \in 1..Len(q), NEW j \in 1..Len(q), q[i] = q[j]
      PROVE  i = j
  <2>1. \A k \in 1..Len(r) : r[k] # t
    BY DEF Elems
  <2>2. CASE i = 2 \/ j = 2
    BY <1>1, <1>2, <1>3, <1>4, <2>1, <2>2, SMTT(60)
  <2>3. CASE i # 2 /\ j # 2
    <3> DEFINE a == IF i = 1 THEN 1 ELSE i - 1
               b == IF j = 1 THEN 1 ELSE j - 1
    <3>1. a \in 1..Len(r) /\ b \in 1..Len(r) /\ q[i] = r[a] /\ q[j] = r[b]
      BY <1>1, <1>2, <1>3, <2>3, SMT
    <3>2. a = b
      BY <1>4, <3>1 DEF Injective
    <3> QED BY <2>3, <3>2, SMT
  <2> QED BY <2>2, <2>3
<1>5. Elems(q) \subseteq Elems(r) \cup {t}
  BY <1>1, <1>2, <1>3, SMT DEF Elems
<1>6. t \in Elems(q)
  <2>1. 2 \in 1..Len(q) /\ q[2] = t
    BY <1>1, <1>2, <1>3, SMT
  <2> QED BY <2>1 DEF Elems
<1>7. ASSUME NEW k \in 1..Len(r) PROVE r[k] \in Elems(q)
  <2>1. CASE k = 1
    <3>1. 1 \in 1..Len(q) /\ q[1] = r[1]
      BY <1>1, <1>2, <1>3, SMT
    <3> QED BY <2>1, <3>1 DEF Elems
  <2>2. CASE k # 1
    <3>1. k + 1 \in 1..Len(q) /\ q[k + 1] = r[k]
      BY <1>1, <1>2, <1>3, <2>2, SMT
    <3> QED BY <3>1 DEF Elems
  <2> QED BY <2>1, <2>2
<1>8. Elems(r) \subseteq Elems(q)
  BY <1>7 DEF Elems
<1>9. Elems(q) = Elems(r) \cup {t}
  BY <1>5, <1>6, <1>8
<1> QED BY <1>1, <1>4, <1>9 DEF q, Injective

LEMMA RemoveIs ==
    ASSUME NEW r \in Seq(Addr), Injective(r), NEW t \in Elems(r)
    PROVE  /\ ready_remove(r, t) \in Seq(Addr) /\ Injective(ready_remove(r, t))
           /\ Elems(ready_remove(r, t)) = Elems(r) \ {t}
<1> DEFINE q == ready_remove(r, t)
           p == At(r, t)
<1>1. p \in 1..Len(r) /\ r[p] = t
  BY AtIs
<1>2. Len(r) \in Nat /\ Len(r) - 1 \in Nat
  BY <1>1, SMT
<1>3. q \in [1..Len(r) - 1 -> Addr]
  BY <1>1, <1>2, SMT DEF ready_remove
<1>4. q \in Seq(Addr) /\ Len(q) = Len(r) - 1
  BY <1>2, <1>3, SMT
<1>5. \A k \in 1..Len(q) : q[k] = IF k < p THEN r[k] ELSE r[k + 1]
  BY <1>4 DEF ready_remove
<1> HIDE DEF q, p
<1>6. ASSUME NEW i \in 1..Len(q), NEW j \in 1..Len(q), q[i] = q[j]
      PROVE  i = j
  <2> DEFINE a == IF i < p THEN i ELSE i + 1
             b == IF j < p THEN j ELSE j + 1
  <2>1. a \in 1..Len(r) /\ b \in 1..Len(r) /\ q[i] = r[a] /\ q[j] = r[b]
    BY <1>1, <1>2, <1>4, <1>5, SMT
  <2>2. a = b
    BY <1>6, <2>1 DEF Injective
  <2> QED BY <1>1, <2>2, SMT
<1>7. ASSUME NEW k \in 1..Len(q) PROVE q[k] \in Elems(r) \ {t}
  <2> DEFINE a == IF k < p THEN k ELSE k + 1
  <2>1. a \in 1..Len(r) /\ a # p /\ q[k] = r[a]
    BY <1>1, <1>2, <1>4, <1>5, SMTT(60)
  <2> HIDE DEF a
  <2>2. r[a] # r[p]
    BY <1>1, <2>1 DEF Injective
  <2> QED BY <1>1, <2>1, <2>2 DEF Elems
<1>8. ASSUME NEW k \in 1..Len(r), r[k] # t PROVE r[k] \in Elems(q)
  <2>1. CASE k < p
    <3>1. k \in 1..Len(q) /\ q[k] = r[k]
      BY <1>1, <1>4, <1>5, <2>1, SMTT(60)
    <3> QED BY <3>1 DEF Elems
  <2>2. CASE k > p
    <3>1. k - 1 \in 1..Len(q) /\ q[k - 1] = r[k]
      BY <1>1, <1>4, <1>5, <2>2, SMT
    <3> QED BY <3>1 DEF Elems
  <2> QED BY <1>1, <1>8, <2>1, <2>2, SMT
<1>9. Elems(q) = Elems(r) \ {t}
  BY <1>7, <1>8 DEF Elems
<1> QED BY <1>4, <1>6, <1>9 DEF q, Injective

LEMMA ConsIs ==
    ASSUME NEW z \in Seq(Addr), Injective(z), NEW t \in Addr \ Elems(z)
    PROVE  /\ <<t>> \o z \in Seq(Addr) /\ Injective(<<t>> \o z)
           /\ Elems(<<t>> \o z) = Elems(z) \cup {t}
<1> DEFINE q == <<t>> \o z
<1>1. q \in Seq(Addr) /\ Len(q) = Len(z) + 1
  BY SMT
<1>2. \A k \in 1..Len(q) : q[k] = IF k = 1 THEN t ELSE z[k - 1]
  BY SMT
<1> HIDE DEF q
<1>3. Len(z) \in Nat
  BY SMT
<1>4. Injective(q)
  BY <1>1, <1>2, <1>3, SMTT(60) DEF Injective, Elems
<1>5. Elems(q) \subseteq Elems(z) \cup {t}
  BY <1>1, <1>2, <1>3, SMT DEF Elems
<1>6. t \in Elems(q)
  BY <1>1, <1>2, <1>3, SMT DEF Elems
<1>7. ASSUME NEW k \in 1..Len(z) PROVE z[k] \in Elems(q)
  <2>1. k + 1 \in 1..Len(q) /\ q[k + 1] = z[k]
    BY <1>1, <1>2, <1>3, SMT
  <2> QED BY <2>1 DEF Elems
<1>8. Elems(q) = Elems(z) \cup {t}
  BY <1>5, <1>6, <1>7 DEF Elems
<1> QED BY <1>1, <1>4, <1>8 DEF q

LEMMA Mod ==
    ASSUME NEW n \in Nat \ {0}, NEW a \in 0..(2 * n - 1)
    PROVE  a % n = IF a < n THEN a ELSE a - n
<1>1. CASE a < n
  BY <1>1, SMT
<1>2. CASE a >= n
  <2>1. a = n * 1 + (a - n) /\ a - n \in 0..(n - 1)
    BY <1>2, SMT
  <2> QED BY <1>2, <2>1, SMT
<1> QED BY <1>1, <1>2, SMT

LEMMA OthersIs ==
    ASSUME NEW r \in Seq(Addr), Injective(r), NEW t \in Elems(r)
    PROVE  LET q == Tail(Around(r, At(r, t)))
           IN  q \in Seq(Addr) /\ Elems(q) = Elems(r) \ {t}
<1> DEFINE n == Len(r)
           p == At(r, t)
           w == Around(r, p)
           q == Tail(w)
           f(k) == IF p + k - 2 < n THEN p + k - 1 ELSE p + k - 1 - n
<1>1. p \in 1..n /\ r[p] = t /\ n \in Nat \ {0}
  BY AtIs, SMT
<1> HIDE DEF p, n
<1>2. ASSUME NEW k \in 1..n
      PROVE  f(k) \in 1..n /\ r[((p + k - 2) % n) + 1] = r[f(k)] /\ r[f(k)] \in Addr
  <2>1. p + k - 2 \in 0..(2 * n - 1)
    BY <1>1, SMT
  <2>2. (p + k - 2) % n = IF p + k - 2 < n THEN p + k - 2 ELSE (p + k - 2) - n
    <3> DEFINE a == p + k - 2
    <3>1. a \in 0..(2 * n - 1)
      BY <2>1
    <3> HIDE DEF a
    <3>2. a % n = IF a < n THEN a ELSE a - n
      BY <1>1, <3>1, Mod
    <3> QED BY <3>2 DEF a
  <2>3. f(k) \in 1..n /\ ((p + k - 2) % n) + 1 = f(k)
    BY <1>1, <2>1, <2>2, SMT
  <2> QED BY <2>3, SMT DEF n
<1>3. w = [k \in 1..n |-> r[((p + k - 2) % n) + 1]]
  BY DEF Around, n
<1>4. w \in [1..n -> Addr] /\ \A k \in 1..n : w[k] = r[f(k)]
  BY <1>2, <1>3, SMT
<1>5. w \in Seq(Addr) /\ Len(w) = n
  BY <1>1, <1>4, SMT
<1> HIDE DEF w
<1>6. q \in Seq(Addr) /\ Len(q) = n - 1 /\ \A k \in 1..Len(q) : q[k] = w[k + 1]
  BY <1>1, <1>5, SMT
<1> HIDE DEF q
<1>7. ASSUME NEW k \in 1..Len(q) PROVE q[k] \in Elems(r) \ {t}
  <2>1. k + 1 \in 1..n /\ q[k] = r[f(k + 1)]
    <3>1. k + 1 \in 1..n
      BY <1>1, <1>6, SMT
    <3>2. q[k] = w[k + 1]
      BY <1>6
    <3>3. w[k + 1] = r[f(k + 1)]
      BY <1>4, <3>1
    <3> QED BY <3>1, <3>2, <3>3
  <2>2. f(k + 1) \in 1..n /\ f(k + 1) # p
    BY <1>1, <2>1, SMT
  <2> QED BY <1>1, <2>1, <2>2 DEF Elems, Injective, n
<1>8. ASSUME NEW j \in 1..n, r[j] # t PROVE r[j] \in Elems(q)
  <2> DEFINE k == IF j > p THEN j - p ELSE j - p + n
  <2>1. k \in 1..n - 1 /\ f(k + 1) = j /\ k + 1 \in 1..n
    BY <1>1, <1>8, SMT
  <2>2. q[k] = r[j]
    BY <1>4, <1>6, <2>1
  <2> HIDE DEF k
  <2> QED BY <1>6, <2>1, <2>2 DEF Elems
<1>9. Elems(q) = Elems(r) \ {t}
  BY <1>7, <1>8 DEF Elems, n
<1> QED BY <1>6, <1>9 DEF q, w, p

LEMMA PickIs ==
    ASSUME ready \in Seq(Addr), Injective(ready), current \in Elems(ready)
    PROVE  /\ pick_next(current) \in Elems(ready)
           /\ pick_next(current) # current => pick_next(current) \in Runnable
           /\ pick_next(current) = current => Elems(ready) \cap Runnable \subseteq {current}
<1> DEFINE q == Tail(Around(ready, At(ready, current)))
<1>1. q \in Seq(Addr) /\ Elems(q) = Elems(ready) \ {current}
  BY OthersIs
<1>2. pick_next(current) = IF Elems(q) \cap Runnable = {} THEN current ELSE FirstIn(q, Runnable)
  BY DEF pick_next
<1> HIDE DEF q
<1>3. Elems(q) \cap Runnable # {} => FirstIn(q, Runnable) \in Elems(q) \cap Runnable
  BY <1>1, FirstInIs
<1> QED BY <1>1, <1>2, <1>3

LEMMA IncreasingIsOnto ==
    ASSUME NEW m \in Nat, NEW keep, keep \subseteq 1..m,
           NEW f \in [1..Cardinality(keep) -> keep],
           \A i, j \in DOMAIN f : i < j => f[i] < f[j]
    PROVE  /\ Cardinality(keep) \in Nat
           /\ \A i, j \in 1..Cardinality(keep) : f[i] = f[j] => i = j
           /\ \A k \in keep : \E i \in 1..Cardinality(keep) : f[i] = k
<1> DEFINE c == Cardinality(keep)
<1>1. IsFiniteSet(keep) /\ c \in Nat
  <2>1. IsFiniteSet(1..m)
    BY FS_Interval, SMT
  <2>2. IsFiniteSet(keep)
    BY <2>1, FS_Subset
  <2> QED BY <2>2, FS_CardinalityType
<1> HIDE DEF c
<1>2. f \in [1..c -> keep] /\ \A i, j \in 1..c : i < j => f[i] < f[j]
  BY DEF c
<1>3. \A i, j \in 1..c : f[i] = f[j] => i = j
  <2> SUFFICES ASSUME NEW i \in 1..c, NEW j \in 1..c, f[i] = f[j] PROVE i = j
    OBVIOUS
  <2>1. f[i] \in keep /\ f[j] \in keep
    BY <1>2
  <2>2. \A x \in keep : x \in Nat
    BY SMT
  <2>3. f[i] \in Nat /\ f[j] \in Nat
    BY <2>1, <2>2
  <2> QED BY <1>1, <1>2, <2>3, SMT
<1>4. f \in Injection(1..c, keep)
  BY <1>2, <1>3 DEF Injection, IsInjective
<1>5. IsFiniteSet(1..c) /\ Cardinality(1..c) = c
  BY <1>1, FS_Interval, SMT
<1>6. f \in Surjection(1..c, keep)
  BY <1>1, <1>4, <1>5, FS_Injection DEF c
<1>7. \A k \in keep : \E i \in 1..c : f[i] = k
  BY <1>6 DEF Surjection
<1> QED BY <1>1, <1>3, <1>7 DEF c

LEMMA ReapIs ==
    ASSUME zombie \in Seq(Addr), Injective(zombie), reap_zombies
    PROVE  /\ zombie' \in Seq(Addr) /\ Injective(zombie)'
           /\ Elems(zombie)' = Elems(zombie) \ reaped_by_parent
           /\ heap' = heap \ (Elems(zombie) \cap reaped_by_parent)
<1> DEFINE keep == {k \in 1..Len(zombie) : zombie[k] \notin reaped_by_parent}
           c == Cardinality(keep)
<1>1. PICK f \in [1..c -> keep] :
          /\ \A i, j \in DOMAIN f : i < j => f[i] < f[j]
          /\ zombie' = [k \in DOMAIN f |-> zombie[f[k]]]
  BY DEF reap_zombies
<1>2. Len(zombie) \in Nat /\ keep \subseteq 1..Len(zombie)
  BY SMT
<1>3. /\ c \in Nat
      /\ \A i, j \in 1..c : f[i] = f[j] => i = j
      /\ \A k \in keep : \E i \in 1..c : f[i] = k
  <2> HIDE DEF keep
  <2> QED BY <1>1, <1>2, IncreasingIsOnto
<1> HIDE DEF c
<1>4. \A k \in 1..c : f[k] \in 1..Len(zombie) /\ zombie[f[k]] \notin reaped_by_parent
  BY <1>1
<1>5. zombie' = [k \in 1..c |-> zombie[f[k]]]
  BY <1>1
<1>6. zombie' \in [1..c -> Addr] /\ \A k \in 1..c : zombie'[k] = zombie[f[k]]
  BY <1>4, <1>5, SMT
<1>7. zombie' \in Seq(Addr) /\ Len(zombie') = c
  BY <1>3, <1>6, SMT
<1>8. Injective(zombie')
  <2> SUFFICES ASSUME NEW i \in 1..c, NEW j \in 1..c, zombie'[i] = zombie'[j] PROVE i = j
    BY <1>7 DEF Injective
  <2>1. f[i] = f[j]
    BY <1>4, <1>6, SMT DEF Injective
  <2> QED BY <1>3, <2>1
<1>9. \A k \in 1..c : zombie'[k] \in Elems(zombie) \ reaped_by_parent
  BY <1>4, <1>6 DEF Elems
<1>10. ASSUME NEW k \in 1..Len(zombie), zombie[k] \notin reaped_by_parent
       PROVE  zombie[k] \in Elems(zombie')
  <2>1. PICK i \in 1..c : f[i] = k
    BY <1>3, <1>10
  <2> QED BY <1>6, <1>7, <2>1 DEF Elems
<1>11. Elems(zombie') = Elems(zombie) \ reaped_by_parent
  BY <1>7, <1>9, <1>10 DEF Elems
<1>12. heap' = heap \ (Elems(zombie) \cap reaped_by_parent)
  BY DEF reap_zombies
<1> QED BY <1>7, <1>8, <1>11, <1>12 DEF Injective, Elems

-----------------------------------------------------------------------------
(* The inductive invariant. *)

(* The two lists hold every allocated task_t, each once. *)
Lists ==
    /\ ready \in Seq(Addr) /\ Injective(ready)
    /\ zombie \in Seq(Addr) /\ Injective(zombie)
    /\ Elems(ready) \cap Elems(zombie) = {}
    /\ Elems(ready) \cup Elems(zombie) = heap
    /\ current \in Elems(ready) /\ kmain \in Elems(ready)

(* The states of the tasks.  The shell never blocks, so that there is always
   a task to switch to, and a task that blocks is switched away from before
   it does anything else. *)
States ==
    /\ \A a \in Addr : a \in Elems(ready) <=> state[a] # "DEAD"
    /\ \A a \in Addr : state[a] = "RUNNING" => a = current
    /\ state[kmain] \in {"READY", "RUNNING"}
    /\ kmain \notin is_user /\ pc[kmain] \in {"run", "adopt", "poll"}
    /\ state[current] = "BLOCKED" => pc[current] = "sleep"

(* Where a blocked task is, and that it has nothing to collect. *)
Blocked ==
    \A a \in Addr : state[a] = "BLOCKED" =>
        a \in wait_any /\ pc[a] \in {"sleep", "woken"} /\ DeadChildren(a, arg[a]) = {}

(* The ids of the allocated tasks differ, although addresses are used again;
   what waitpid has returned is marked. *)
Ids ==
    /\ \A a \in heap : id[a] < next_id
    /\ \A a, b \in heap : id[a] = id[b] => a = b
    /\ id[kmain] = 0
    /\ reaped_by_parent \cap Elems(ready) = {}
    /\ collected \subseteq 1..next_id - 1
    /\ \A a \in heap : id[a] \in collected => a \in reaped_by_parent

(* A child has one creator, which is older; and a child that was told its
   parent and is not collected is still there, and still has that parent. *)
Kids ==
    /\ kids \in [0..MAXID -> SUBSET Nat]
    /\ \A i \in 0..MAXID : \A n \in kids[i] : i < n /\ n < next_id
    /\ \A i, j \in 0..MAXID : kids[i] \cap kids[j] # {} => i = j
    /\ adopted \subseteq 1..next_id - 1
    /\ \A a \in Elems(ready) : pc[a] = "adopt" => arg[a] \in kids[id[a]]
    /\ \A c \in heap : \A n \in (kids[id[c]] \cap adopted) \ collected :
          \E t \in heap : id[t] = n /\ parent[t] = c /\ t \notin reaped_by_parent

Results == "twice" \notin result /\ "lost" \notin result

IInv == TypeOK /\ Lists /\ States /\ Blocked /\ Ids /\ Kids /\ Results

LEMMA IInvInit == Init => IInv
<1> SUFFICES ASSUME Init PROVE IInv
  OBVIOUS
<1> USE TaskAssumption DEF Init
<1>1. Elems(ready) = {kmain} /\ Elems(zombie) = {}
  BY SMT DEF Elems
<1>2. TypeOK
  BY <1>1, SMT DEF TypeOK
<1>3. Lists
  BY <1>1, SMT DEF Lists, Injective
<1>4. States
  BY <1>1 DEF States
<1>5. Blocked
  BY DEF Blocked
<1>6. Ids
  BY <1>1, SMT DEF Ids
<1>7. Kids
  BY <1>1 DEF Kids
<1>8. Results
  BY DEF Results
<1> QED BY <1>2, <1>3, <1>4, <1>5, <1>6, <1>7, <1>8 DEF IInv

LEMMA SwitchIs ==
    ASSUME TypeOK, Lists, States, SwitchTo(pick_next(current))
    PROVE  /\ current' \in Elems(ready)
           /\ state' \in [Addr -> {"READY", "RUNNING", "BLOCKED", "DEAD"}]
           /\ \A a \in Addr : state'[a] = "DEAD" <=> state[a] = "DEAD"
           /\ \A a \in Addr : state'[a] = "BLOCKED" <=> state[a] = "BLOCKED"
           /\ \A a \in Addr : state'[a] = "RUNNING" => a = current'
           /\ state'[kmain] \in {"READY", "RUNNING"}
           /\ state'[current'] # "BLOCKED"
<1> DEFINE next == pick_next(current)
<1>1. /\ next \in Elems(ready)
      /\ next # current => next \in Runnable
      /\ next = current => Elems(ready) \cap Runnable \subseteq {current}
  BY PickIs DEF Lists
<1>2. current' = next /\ state' = [a \in Addr |->
            IF next = current THEN state[a]
            ELSE IF a = next THEN "RUNNING"
            ELSE IF a = current /\ state[a] = "RUNNING" THEN "READY"
            ELSE state[a]]
  BY DEF SwitchTo
<1> HIDE DEF next
<1>3. kmain \in Addr /\ next \in Addr /\ current \in Addr /\ kmain \in Elems(ready)
  BY <1>1, ElemsType, TaskAssumption DEF Lists, TypeOK
<1>4. CASE next = current
  <2>1. state' = state
    BY <1>2, <1>4 DEF TypeOK
  <2>2. kmain \in Runnable
    BY <1>3 DEF States, Runnable
  <2>3. current = kmain
    BY <1>1, <1>3, <1>4, <2>2
  <2> QED BY <1>1, <1>2, <1>3, <1>4, <2>1, <2>3 DEF States, TypeOK
<1>5. CASE next # current
  <2>1. state' = [a \in Addr |-> IF a = next THEN "RUNNING"
            ELSE IF a = current /\ state[a] = "RUNNING" THEN "READY"
            ELSE state[a]]
    BY <1>2, <1>5
  <2>2. state[next] \in {"READY", "RUNNING"}
    BY <1>1, <1>5 DEF Runnable
  <2> QED BY <1>1, <1>2, <1>3, <2>1, <2>2, SMT DEF States, TypeOK
<1> QED BY <1>4, <1>5

LEMMA FoundIs ==
    ASSUME NEW n, task_find_by_id(n) # NULL
    PROVE  task_find_by_id(n) \in Elems(ready) /\ id[task_find_by_id(n)] = n
BY DEF task_find_by_id

(* What a yield leaves, whatever the task does before and after. *)
LEMMA YieldKeeps ==
    ASSUME IInv, yield, NEW l,
           pc' = [pc EXCEPT ![current] = l], l # "adopt",
           pc[current] \in {"sleep", "run", "poll"},
           pc[current] = "sleep" => l = "woken" /\ current # kmain,
           pc[current] # "sleep" => l \in {"run", "return", "poll"},
           current = kmain => l \in {"run", "poll"},
           UNCHANGED <<ready, next_id, id, parent, is_user, wait_any, reaped_by_parent,
                       arg, pending, hist>>
    PROVE  IInv'
<1> USE DEF IInv
<1>1. /\ zombie' \in Seq(Addr) /\ Injective(zombie)'
      /\ Elems(zombie)' = Elems(zombie) \ reaped_by_parent
      /\ heap' = heap \ (Elems(zombie) \cap reaped_by_parent)
  BY ReapIs DEF yield, Lists
<1>2. /\ current' \in Elems(ready)
      /\ state' \in [Addr -> {"READY", "RUNNING", "BLOCKED", "DEAD"}]
      /\ \A a \in Addr : state'[a] = "DEAD" <=> state[a] = "DEAD"
      /\ \A a \in Addr : state'[a] = "BLOCKED" <=> state[a] = "BLOCKED"
      /\ \A a \in Addr : state'[a] = "RUNNING" => a = current'
      /\ state'[kmain] \in {"READY", "RUNNING"}
      /\ state'[current'] # "BLOCKED"
  BY SwitchIs DEF yield
<1>3. Elems(ready)' = Elems(ready) /\ ready' = ready
  OBVIOUS
<1>4. current \in Addr /\ kmain \in Addr /\ pc' \in [Addr -> {"run", "adopt", "poll", "wait",
          "wait_nohang", "sleep", "woken", "return", "gone", "halt"}]
  BY TaskAssumption DEF TypeOK
<1>5. TypeOK'
  BY <1>1, <1>2, <1>3, <1>4 DEF TypeOK, hist
<1>6. Lists'
  <2>1. reaped_by_parent \cap Elems(ready) = {}
    BY DEF Ids
  <2> QED BY <1>1, <1>2, <1>3, <2>1, SMT DEF Lists, Injective
<1>7. States'
  BY <1>2, <1>3, <1>4, SMT DEF States, TypeOK
<1>8. Blocked'
  <2> SUFFICES ASSUME NEW a \in Addr, state'[a] = "BLOCKED"
               PROVE  /\ a \in wait_any' /\ pc'[a] \in {"sleep", "woken"}
                      /\ DeadChildren(a, arg[a])' = {}
    BY DEF Blocked
  <2>1. a \in wait_any /\ pc[a] \in {"sleep", "woken"} /\ DeadChildren(a, arg[a]) = {}
    BY <1>2 DEF Blocked
  <2>2. DeadChildren(a, arg[a])' \subseteq DeadChildren(a, arg[a])
    BY <1>1 DEF DeadChildren, wait_match
  <2> QED BY <1>4, <2>1, <2>2 DEF TypeOK
<1>9. Ids'
  BY <1>1, <1>3 DEF Ids, hist
<1>10. Kids'
  <2>1. kids' = kids /\ adopted' = adopted /\ collected' = collected
    BY DEF hist
  <2>2. \A a \in Elems(ready) : pc'[a] = "adopt" => pc[a] = "adopt"
    BY <1>4, ElemsType DEF TypeOK, Lists
  <2>3. ASSUME NEW c \in heap, NEW n \in (kids[id[c]] \cap adopted) \ collected
        PROVE  \E t \in heap' : id[t] = n /\ parent[t] = c /\ t \notin reaped_by_parent
    BY <1>1 DEF Kids
  <2> QED BY <1>1, <1>3, <2>1, <2>2, <2>3, SMT DEF Kids
<1>11. Results'
  BY DEF Results, hist
<1> QED BY <1>5, <1>6, <1>7, <1>8, <1>9, <1>10, <1>11

(* Kids speaks of no other state than this. *)
LEMMA KidsFrame ==
    ASSUME Kids,
           UNCHANGED <<ready, next_id, heap, id, parent, reaped_by_parent, kids, adopted, collected>>,
           \A a \in Elems(ready) : pc'[a] = "adopt" => pc[a] = "adopt" /\ arg'[a] = arg[a]
    PROVE  Kids'
<1>1. Elems(ready)' = Elems(ready)
  OBVIOUS
<1> QED BY <1>1, SMT DEF Kids

(* The shell's look at its child: a task that has exited is in no ring, so
   that the poll ends only when the child is not found. *)
LEMMA PollDoneKeeps == IInv /\ PollDone => IInv'
<1> SUFFICES ASSUME IInv, PollDone PROVE IInv'
  OBVIOUS
<1> USE DEF IInv
<1> DEFINE t == task_find_by_id(arg[current])
<1>1. t = NULL
  <2> SUFFICES ASSUME t # NULL PROVE FALSE
    OBVIOUS
  <2>1. t \in Elems(ready) /\ t \in Addr
    BY FoundIs, ElemsType DEF Lists
  <2>2. state[t] # "DEAD"
    BY <2>1 DEF States
  <2> QED BY <2>2 DEF PollDone
<1>2. /\ pc[current] = "poll"
      /\ pc' = [pc EXCEPT ![current] = "run"]
      /\ UNCHANGED <<ready, zombie, current, next_id, heap, id, state, parent, is_user,
                     wait_any, reaped_by_parent, arg, pending, hist>>
  BY <1>1 DEF PollDone, Goto
<1> HIDE DEF t
<1>3. current \in Addr /\ kmain \in Addr
  BY TaskAssumption DEF TypeOK
<1>4. Elems(ready)' = Elems(ready) /\ Elems(zombie)' = Elems(zombie)
  BY <1>2
<1>5. TypeOK'
  BY <1>2, <1>3, <1>4 DEF TypeOK
<1>6. Lists'
  BY <1>2, <1>4 DEF Lists, Injective
<1>7. States'
  BY <1>2, <1>3, <1>4 DEF States, TypeOK
<1>8. Blocked'
  BY <1>2, <1>3, <1>4 DEF Blocked, DeadChildren, wait_match, TypeOK
<1>9. Ids'
  BY <1>2, <1>4 DEF Ids, hist
<1>10. Kids'
  <2>1. \A a \in Elems(ready) : pc'[a] = "adopt" => pc[a] = "adopt"
    BY <1>2, ElemsType DEF TypeOK, Lists
  <2> QED BY <1>2, <2>1, KidsFrame DEF hist
<1>11. Results'
  BY <1>2 DEF Results, hist
<1> QED BY <1>5, <1>6, <1>7, <1>8, <1>9, <1>10, <1>11

(* The steps of a task that neither blocks nor runs an exit: they move its
   pc and may change its argument and what it waits for. *)
LEMMA MoveKeeps ==
    ASSUME IInv, NEW l, current # kmain, state[current] # "BLOCKED",
           l \in {"run", "return", "wait", "wait_nohang"},
           pc' = [pc EXCEPT ![current] = l],
           arg' \in [Addr -> 0..MAXID], \A a \in Addr \ {current} : arg'[a] = arg[a],
           wait_any' \in {wait_any, wait_any \ {current}},
           pending' \subseteq Addr,
           UNCHANGED <<ready, zombie, current, next_id, heap, id, state, parent, is_user,
                       reaped_by_parent, hist>>
    PROVE  IInv'
<1> USE DEF IInv
<1>1. current \in Addr /\ kmain \in Addr
  BY TaskAssumption DEF TypeOK
<1>2. Elems(ready)' = Elems(ready) /\ Elems(zombie)' = Elems(zombie)
  OBVIOUS
<1>3. TypeOK'
  BY <1>1, <1>2 DEF TypeOK
<1>4. Lists'
  BY <1>2 DEF Lists, Injective
<1>5. States'
  BY <1>1, <1>2 DEF States, TypeOK
<1>6. Blocked'
  <2> SUFFICES ASSUME NEW a \in Addr, state[a] = "BLOCKED"
               PROVE  /\ a \in wait_any' /\ pc'[a] \in {"sleep", "woken"}
                      /\ DeadChildren(a, arg[a])' = {}
    BY DEF Blocked
  <2>1. a \in wait_any /\ pc[a] \in {"sleep", "woken"} /\ DeadChildren(a, arg[a]) = {}
    BY DEF Blocked
  <2>2. a # current
    OBVIOUS
  <2>3. DeadChildren(a, arg[a])' = DeadChildren(a, arg[a])
    BY <1>2, <2>2 DEF DeadChildren, wait_match
  <2> QED BY <1>1, <2>1, <2>2, <2>3 DEF TypeOK
<1>7. Ids'
  BY <1>2 DEF Ids, hist
<1>8. Kids'
  <2>1. \A a \in Elems(ready) : pc'[a] = "adopt" => pc[a] = "adopt" /\ arg'[a] = arg[a]
    BY <1>1, ElemsType DEF TypeOK, Lists
  <2> QED BY <2>1, KidsFrame DEF hist
<1>9. Results'
  BY DEF Results, hist
<1> QED BY <1>3, <1>4, <1>5, <1>6, <1>7, <1>8, <1>9

(* waitpid collects a zombie that is not marked, so that its id was not
   returned before. *)
LEMMA CollectKeeps == IInv /\ WaitCollect => IInv'
<1> SUFFICES ASSUME IInv, WaitCollect PROVE IInv'
  OBVIOUS
<1> USE DEF IInv
<1> DEFINE n == arg[current]
           z == find_dead_child(current, n)
<1>1. z \in Elems(zombie) /\ z \in DeadChildren(current, n)
  <2>1. Elems(zombie) \cap DeadChildren(current, n) # {}
    BY DEF WaitCollect, DeadChildren
  <2> QED BY <2>1, FirstInIs DEF find_dead_child, Lists
<1>2. z \in Addr /\ z \in heap /\ z \notin Elems(ready) /\ z \notin reaped_by_parent
  BY <1>1, ElemsType DEF Lists, DeadChildren
<1>3. /\ pc[current] \in {"wait", "wait_nohang"}
      /\ reaped_by_parent' = reaped_by_parent \cup {z}
      /\ Return(id[z])
      /\ collected' = collected \cup {id[z]}
      /\ pc' = [pc EXCEPT ![current] = Back]
      /\ UNCHANGED <<ready, zombie, current, next_id, heap, id, state, parent, is_user,
                     wait_any, arg, pending, kids, adopted>>
  BY DEF WaitCollect, Waiting, Goto
<1> HIDE DEF z
<1>4. current \in Addr /\ kmain \in Addr /\ kmain \in heap /\ current # kmain
  BY <1>3, TaskAssumption DEF TypeOK, States, Lists
<1>5. Elems(ready)' = Elems(ready) /\ Elems(zombie)' = Elems(zombie)
  BY <1>3
<1>6. Back \in {"run", "return"}
  BY DEF Back
<1>7. TypeOK'
  BY <1>2, <1>3, <1>5, <1>6 DEF TypeOK
<1>8. Lists'
  BY <1>3, <1>5 DEF Lists, Injective
<1>9. state[current] # "BLOCKED"
  BY <1>3, <1>4 DEF States
<1>10. States'
  BY <1>3, <1>4, <1>5, <1>6, <1>9 DEF States, TypeOK
<1>11. Blocked'
  <2> SUFFICES ASSUME NEW a \in Addr, state[a] = "BLOCKED"
               PROVE  /\ a \in wait_any' /\ pc'[a] \in {"sleep", "woken"}
                      /\ DeadChildren(a, arg[a])' = {}
    BY <1>3 DEF Blocked
  <2>1. a \in wait_any /\ pc[a] \in {"sleep", "woken"} /\ DeadChildren(a, arg[a]) = {}
    BY DEF Blocked
  <2>2. a # current
    BY <1>9
  <2>3. DeadChildren(a, arg[a])' \subseteq DeadChildren(a, arg[a])
    BY <1>3, <1>5 DEF DeadChildren, wait_match
  <2> QED BY <1>3, <1>4, <2>1, <2>2, <2>3 DEF TypeOK
<1>12. id[z] \in 1..next_id - 1 /\ id[z] \notin collected
  <2>1. id[z] # 0
    BY <1>2, <1>4 DEF Ids, Lists
  <2>2. id[z] \in Nat /\ next_id \in Nat
    BY <1>2, TaskAssumption, SMT DEF TypeOK
  <2> QED BY <1>2, <2>1, <2>2, SMT DEF Ids
<1>13. Ids'
  BY <1>2, <1>3, <1>5, <1>12 DEF Ids
<1>14. Kids'
  <2>1. \A a \in Elems(ready) : pc'[a] = "adopt" => pc[a] = "adopt"
    BY <1>3, <1>6, ElemsType DEF TypeOK, Lists
  <2>2. ASSUME NEW c \in heap, NEW m \in (kids[id[c]] \cap adopted) \ collected'
        PROVE  \E t \in heap : id[t] = m /\ parent[t] = c /\ t \notin reaped_by_parent'
    <3>1. m \in (kids[id[c]] \cap adopted) \ collected /\ m # id[z]
      BY <1>3
    <3>2. PICK t \in heap : id[t] = m /\ parent[t] = c /\ t \notin reaped_by_parent
      BY <3>1 DEF Kids
    <3> QED BY <1>3, <3>1, <3>2
  <2> QED BY <1>3, <1>5, <2>1, <2>2, SMT DEF Kids
<1>15. Results'
  BY <1>2, <1>3, <1>4, <1>12, SMT DEF Results, Return, Wrong
<1> QED BY <1>7, <1>8, <1>10, <1>11, <1>13, <1>14, <1>15

(* waitpid says that there is no such child: then no child that was told its
   parent is left, since it would be in the ring or on the zombie list. *)
LEMMA NothingKeeps == IInv /\ WaitNothing => IInv'
<1> SUFFICES ASSUME IInv, WaitNothing PROVE IInv'
  OBVIOUS
<1>1. /\ pc[current] \in {"wait", "wait_nohang"}
      /\ DeadChildren(current, arg[current]) = {}
      /\ \/ ~has_any_child(current, arg[current]) /\ Return(0)
         \/ result' = result
      /\ pc' = [pc EXCEPT ![current] = Back]
      /\ UNCHANGED <<ready, zombie, current, next_id, heap, id, state, parent, is_user,
                     wait_any, reaped_by_parent, arg, pending, kids, adopted, collected>>
  BY DEF WaitNothing, Waiting, Goto
<1> USE DEF IInv
<1>2. current \in Addr /\ kmain \in Addr /\ current \in heap /\ current # kmain
  BY <1>1, TaskAssumption DEF TypeOK, States, Lists
<1>3. Elems(ready)' = Elems(ready) /\ Elems(zombie)' = Elems(zombie)
  BY <1>1
<1>4. Back \in {"run", "return"}
  BY DEF Back
<1>5. TypeOK'
  BY <1>1, <1>3, <1>4 DEF TypeOK
<1>6. Lists'
  BY <1>1, <1>3 DEF Lists, Injective
<1>7. state[current] # "BLOCKED"
  BY <1>1 DEF States
<1>8. States'
  BY <1>1, <1>2, <1>3, <1>4, <1>7 DEF States, TypeOK
<1>9. Blocked'
  BY <1>1, <1>2, <1>3, <1>7 DEF Blocked, DeadChildren, wait_match, TypeOK
<1>10. Ids'
  BY <1>1, <1>3 DEF Ids
<1>11. Kids'
  <2>1. \A a \in Elems(ready) : pc'[a] = "adopt" => pc[a] = "adopt"
    BY <1>1, <1>4, ElemsType DEF TypeOK, Lists
  <2> QED BY <1>1, <2>1, KidsFrame
<1>12. CASE ~has_any_child(current, arg[current]) /\ Return(0)
  <2>1. 0 \notin collected
    BY SMT DEF Ids
  <2>2. ASSUME NEW n \in (kids[id[current]] \cap adopted) \ collected, arg[current] \in {0, n}
        PROVE  FALSE
    <3>1. PICK t \in heap : id[t] = n /\ parent[t] = current /\ t \notin reaped_by_parent
      BY <1>2 DEF Kids
    <3>2. wait_match(t, arg[current])
      BY <2>2, <3>1 DEF wait_match
    <3>3. t \in Addr
      BY <3>1 DEF TypeOK
    <3>4. CASE t \in Elems(zombie)
      BY <1>1, <3>1, <3>2, <3>4 DEF DeadChildren
    <3>5. CASE t \in Elems(ready)
      <4>1. id[current] \in 0..MAXID
        BY <1>2 DEF TypeOK
      <4>2. n \in kids[id[current]] /\ n \in Nat
        BY <4>1 DEF Kids
      <4>3. id[current] < n
        BY <4>1, <4>2 DEF Kids
      <4>4. t # current
        BY <3>1, <4>1, <4>2, <4>3, SMT
      <4>5. state[t] # "DEAD"
        BY <3>3, <3>5 DEF States
      <4> QED BY <1>12, <3>1, <3>2, <3>5, <4>4, <4>5 DEF has_any_child
    <3> QED BY <3>1, <3>4, <3>5 DEF Lists
  <2>3. Results'
    BY <1>12, <2>1, <2>2 DEF Results, Return, Wrong
  <2> QED BY <1>5, <1>6, <1>8, <1>9, <1>10, <1>11, <2>3
<1>13. CASE result' = result
  BY <1>5, <1>6, <1>8, <1>9, <1>10, <1>11, <1>13 DEF Results
<1> QED BY <1>1, <1>12, <1>13

(* The parent blocks: it has just seen that nothing is there to collect. *)
LEMMA BlockKeeps == IInv /\ WaitBlock => IInv'
<1> SUFFICES ASSUME IInv, WaitBlock PROVE IInv'
  OBVIOUS
<1>1. /\ pc[current] = "wait"
      /\ DeadChildren(current, arg[current]) = {}
      /\ wait_any' = wait_any \cup {current}
      /\ state' = [state EXCEPT ![current] = "BLOCKED"]
      /\ pc' = [pc EXCEPT ![current] = "sleep"]
      /\ UNCHANGED <<ready, zombie, current, next_id, heap, id, parent, is_user,
                     reaped_by_parent, arg, pending, hist>>
  BY DEF WaitBlock, Goto
<1> USE DEF IInv
<1>2. current \in Addr /\ kmain \in Addr /\ current # kmain
  BY <1>1, TaskAssumption DEF TypeOK, States
<1>3. Elems(ready)' = Elems(ready) /\ Elems(zombie)' = Elems(zombie)
  BY <1>1
<1>4. TypeOK'
  BY <1>1, <1>2, <1>3 DEF TypeOK
<1>5. Lists'
  BY <1>1, <1>3 DEF Lists, Injective
<1>6. States'
  BY <1>1, <1>2, <1>3 DEF States, TypeOK, Lists
<1>7. Blocked'
  <2> SUFFICES ASSUME NEW a \in Addr, state'[a] = "BLOCKED"
               PROVE  /\ a \in wait_any' /\ pc'[a] \in {"sleep", "woken"}
                      /\ DeadChildren(a, arg[a])' = {}
    BY DEF Blocked
  <2>1. DeadChildren(a, arg[a])' = DeadChildren(a, arg[a])
    BY <1>1, <1>3 DEF DeadChildren, wait_match
  <2>2. CASE a = current
    BY <1>1, <1>2, <2>1, <2>2 DEF TypeOK
  <2>3. CASE a # current
    BY <1>1, <1>2, <2>1, <2>3 DEF TypeOK, Blocked
  <2> QED BY <2>2, <2>3
<1>8. Ids'
  BY <1>1, <1>3 DEF Ids, hist
<1>9. Kids'
  <2>1. \A a \in Elems(ready) : pc'[a] = "adopt" => pc[a] = "adopt"
    BY <1>1, ElemsType DEF TypeOK, Lists
  <2> QED BY <1>1, <2>1, KidsFrame DEF hist
<1>10. Results'
  BY <1>1 DEF Results, hist
<1> QED BY <1>4, <1>5, <1>6, <1>7, <1>8, <1>9, <1>10

(* The child is told its parent: it is the task its creator looked for, since
   ids are not used again. *)
LEMMA AdoptKeeps == IInv /\ Adopt => IInv'
<1> SUFFICES ASSUME IInv, Adopt PROVE IInv'
  OBVIOUS
<1> DEFINE t == task_find_by_id(arg[current])
           l == IF current = kmain THEN "poll" ELSE Back
<1>1. /\ pc[current] = "adopt"
      /\ parent' = IF t = NULL THEN parent ELSE [parent EXCEPT ![t] = current]
      /\ pc' = [pc EXCEPT ![current] = l]
      /\ adopted' = IF t = NULL THEN adopted ELSE adopted \cup {id[t]}
      /\ UNCHANGED <<ready, zombie, current, next_id, heap, id, state, is_user, wait_any,
                     reaped_by_parent, arg, pending, kids, collected, result>>
  BY DEF Adopt, Goto
<1>2. t # NULL => t \in Elems(ready) /\ id[t] = arg[current]
  BY FoundIs
<1>3. l \in {"poll", "run", "return"} /\ (current = kmain => l = "poll")
  BY DEF Back
<1> HIDE DEF t, l
<1> USE DEF IInv
<1>4. current \in Addr /\ kmain \in Addr /\ current \in Elems(ready) /\ current \in heap
  BY TaskAssumption DEF TypeOK, Lists
<1>5. Elems(ready)' = Elems(ready) /\ Elems(zombie)' = Elems(zombie)
  BY <1>1
<1>6. t # NULL => t \in Addr /\ t \in heap /\ t \notin Elems(zombie) /\ t \notin reaped_by_parent
  BY <1>2, ElemsType DEF Lists, Ids
<1>7. TypeOK'
  BY <1>1, <1>3, <1>4, <1>5, <1>6 DEF TypeOK
<1>8. Lists'
  BY <1>1, <1>5 DEF Lists, Injective
<1>9. state[current] # "BLOCKED"
  BY <1>1 DEF States
<1>10. States'
  BY <1>1, <1>3, <1>4, <1>5, <1>9 DEF States, TypeOK
<1>11. Blocked'
  <2> SUFFICES ASSUME NEW a \in Addr, state[a] = "BLOCKED"
               PROVE  /\ a \in wait_any' /\ pc'[a] \in {"sleep", "woken"}
                      /\ DeadChildren(a, arg[a])' = {}
    BY <1>1 DEF Blocked
  <2>1. a \in wait_any /\ pc[a] \in {"sleep", "woken"} /\ DeadChildren(a, arg[a]) = {}
    BY DEF Blocked
  <2>2. a # current
    BY <1>9
  <2>3. \A z \in Elems(zombie) : parent'[z] = parent[z]
    BY <1>1, <1>6, ElemsType DEF TypeOK, Lists
  <2>4. DeadChildren(a, arg[a])' = DeadChildren(a, arg[a])
    BY <1>1, <1>5, <2>3 DEF DeadChildren, wait_match
  <2> QED BY <1>1, <1>4, <2>1, <2>2, <2>4 DEF TypeOK
<1>12. Ids'
  BY <1>1, <1>5 DEF Ids
<1>13. Kids'
  <2>1. \A a \in Elems(ready) : pc'[a] = "adopt" => pc[a] = "adopt"
    BY <1>1, <1>3, ElemsType DEF TypeOK, Lists
  <2>2. ASSUME NEW c \in heap, NEW n \in (kids[id[c]] \cap adopted') \ collected
        PROVE  \E u \in heap : id[u] = n /\ parent'[u] = c /\ u \notin reaped_by_parent
    <3>1. CASE t # NULL /\ n = id[t]
      <4>1. id[current] \in 0..MAXID /\ id[c] \in 0..MAXID
        BY <1>4 DEF TypeOK
      <4>2. n \in kids[id[current]]
        BY <1>1, <1>2, <1>4, <3>1 DEF Kids
      <4>3. id[current] = id[c]
        BY <4>1, <4>2 DEF Kids
      <4>4. c = current
        BY <1>4, <4>3 DEF Ids
      <4> QED BY <1>1, <1>6, <3>1, <4>4 DEF TypeOK
    <3>2. CASE ~(t # NULL /\ n = id[t])
      <4>1. n \in (kids[id[c]] \cap adopted) \ collected
        BY <1>1, <3>2
      <4>2. PICK u \in heap : id[u] = n /\ parent[u] = c /\ u \notin reaped_by_parent
        BY <4>1 DEF Kids
      <4>3. parent'[u] = parent[u]
        BY <1>1, <3>2, <4>2 DEF TypeOK
      <4> QED BY <4>2, <4>3
    <3> QED BY <3>1, <3>2
  <2>3. adopted' \subseteq 1..next_id - 1
    <3>1. t # NULL => id[t] \in 1..next_id - 1
      <4> SUFFICES ASSUME t # NULL PROVE id[t] \in 1..next_id - 1
        OBVIOUS
      <4>1. id[current] \in 0..MAXID /\ id[t] \in kids[id[current]]
        BY <1>1, <1>2, <1>4 DEF Kids, TypeOK
      <4>2. id[current] < id[t] /\ id[t] < next_id /\ id[t] \in Nat
        BY <4>1 DEF Kids
      <4> QED BY <4>1, <4>2, SMT DEF TypeOK
    <3> QED BY <1>1, <3>1 DEF Kids
  <2> QED BY <1>1, <1>5, <2>1, <2>2, <2>3, SMTT(60) DEF Kids
<1>14. Results'
  BY <1>1 DEF Results
<1> QED BY <1>7, <1>8, <1>10, <1>11, <1>12, <1>13, <1>14

(* A new task, made by a task that goes on as before or goes on to adopt it. *)
LEMMA NewTaskKeeps ==
    ASSUME IInv, NEW t \in Addr, NEW user, NewTask(t, user),
           pc[current] = "run",
           pc' \in [Addr -> {"run", "adopt", "poll", "wait", "wait_nohang", "sleep", "woken",
                             "return", "gone", "halt"}],
           arg' \in [Addr -> 0..MAXID],
           \A a \in Addr \ {t, current} : pc'[a] = pc[a] /\ arg'[a] = arg[a],
           pc'[t] = "run",
           \/ pc'[current] = "run" /\ kids' = kids
           \/ /\ pc'[current] = "adopt" /\ arg'[current] = next_id
              /\ kids' = [kids EXCEPT ![id[current]] = @ \cup {next_id}],
           UNCHANGED <<zombie, current, adopted, collected, result>>
    PROVE  IInv'
<1>1. /\ t \notin heap
      /\ next_id <= MAXID
      /\ heap' = heap \cup {t}
      /\ id' = [id EXCEPT ![t] = next_id]
      /\ state' = [state EXCEPT ![t] = "READY"]
      /\ parent' = [parent EXCEPT ![t] = NULL]
      /\ is_user' \in {is_user \cup {t}, is_user \ {t}}
      /\ wait_any' = wait_any \ {t}
      /\ reaped_by_parent' = reaped_by_parent \ {t}
      /\ pending' = pending \ {t}
      /\ next_id' = next_id + 1
      /\ ready' = ready_insert(ready, t)
  BY DEF NewTask
<1> USE DEF IInv
<1>2. /\ current \in Addr /\ kmain \in Addr /\ current \in heap /\ kmain \in heap
      /\ t # current /\ t # kmain /\ t \notin Elems(ready) /\ t \notin Elems(zombie)
  BY <1>1, TaskAssumption DEF TypeOK, Lists
<1>3. /\ ready' \in Seq(Addr) /\ Injective(ready') /\ Elems(ready') = Elems(ready) \cup {t}
      /\ Elems(zombie') = Elems(zombie)
  <2>1. ready # <<>>
    BY SMTT(60) DEF Lists, Elems
  <2> QED BY <1>1, <1>2, <2>1, InsertIs DEF Lists
<1>4. next_id \in 1..MAXID /\ MAXID \in Nat /\ next_id' \in 1..MAXID + 1
  BY <1>1, TaskAssumption, SMTT(60) DEF TypeOK
<1>5. TypeOK'
  BY <1>1, <1>2, <1>3, <1>4, ElemsType, TaskAssumption, SMTT(60) DEF TypeOK, Lists
<1>6. Lists'
  <2>1. Injective(zombie')
    BY DEF Lists
  <2> QED BY <1>1, <1>2, <1>3, <2>1, SMTT(60) DEF Lists
<1>7. state[current] # "BLOCKED"
  BY DEF States
<1>8. \A a \in Addr : state'[a] = IF a = t THEN "READY" ELSE state[a]
  BY <1>1 DEF TypeOK
<1>9. States'
  <2>1. state[t] = "DEAD"
    BY <1>2 DEF States
  <2>2. pc'[kmain] \in {"run", "adopt", "poll"}
    BY <1>2 DEF States
  <2> QED BY <1>1, <1>2, <1>3, <1>7, <1>8, <2>1, <2>2, SMTT(60) DEF States
<1>10. \A a \in Addr : id'[a] = IF a = t THEN next_id ELSE id[a]
  BY <1>1 DEF TypeOK
<1>11. Blocked'
  <2> SUFFICES ASSUME NEW a \in Addr, state'[a] = "BLOCKED"
               PROVE  /\ a \in wait_any' /\ pc'[a] \in {"sleep", "woken"}
                      /\ DeadChildren(a, arg[a])' = {}
    BY DEF Blocked
  <2>1. a # t /\ state[a] = "BLOCKED" /\ a # current
    BY <1>7, <1>8
  <2>2. a \in wait_any /\ pc[a] \in {"sleep", "woken"} /\ DeadChildren(a, arg[a]) = {}
    BY <2>1 DEF Blocked
  <2>3. pc'[a] = pc[a] /\ arg'[a] = arg[a]
    BY <2>1
  <2>4. \A z \in Elems(zombie) : z # t /\ parent'[z] = parent[z] /\ id'[z] = id[z]
    BY <1>1, <1>2, <1>10, ElemsType, SMTT(60) DEF TypeOK, Lists
  <2>5. DeadChildren(a, arg[a])' \subseteq DeadChildren(a, arg[a])
    BY <1>1, <1>3, <2>3, <2>4 DEF DeadChildren, wait_match
  <2> QED BY <1>1, <2>1, <2>2, <2>3, <2>5
<1>12. \A a \in heap : a \in Addr /\ a # t /\ id[a] \in Nat /\ id[a] < next_id
  BY <1>1, SMTT(60) DEF TypeOK, Ids
<1>13. Ids'
  <2>1. \A a, b \in heap' : id'[a] = id'[b] => a = b
    BY <1>1, <1>4, <1>10, <1>12, SMTT(60) DEF Ids
  <2>2. \A a \in heap' : id'[a] < next_id'
    BY <1>1, <1>4, <1>10, <1>12, SMTT(60)
  <2>3. collected' \subseteq 1..next_id' - 1 /\ next_id \notin collected
    BY <1>1, <1>4, SMTT(60) DEF Ids
  <2>4. \A a \in heap' : id'[a] \in collected' => a \in reaped_by_parent'
    BY <1>1, <1>10, <1>12, <2>3, SMTT(60) DEF Ids
  <2> QED BY <1>1, <1>2, <1>3, <1>10, <2>1, <2>2, <2>3, <2>4 DEF Ids
<1>14. id[current] \in 0..MAXID /\ id[current] < next_id
  BY <1>2, <1>12 DEF TypeOK
<1>15. /\ kids' \in [0..MAXID -> SUBSET Nat]
       /\ \A i \in 0..MAXID : kids[i] \subseteq kids'[i] /\ kids'[i] \subseteq kids[i] \cup {next_id}
       /\ \A i \in 0..MAXID : next_id \in kids'[i] => i = id[current]
       /\ pc'[current] = "adopt" => arg'[current] \in kids'[id[current]]
  <2>1. \A i \in 0..MAXID : next_id \notin kids[i]
    BY <1>4, SMTT(60) DEF Kids
  <2>2. CASE pc'[current] = "run" /\ kids' = kids
    BY <2>1, <2>2 DEF Kids
  <2>3. CASE /\ pc'[current] = "adopt" /\ arg'[current] = next_id
             /\ kids' = [kids EXCEPT ![id[current]] = @ \cup {next_id}]
    <3>1. kids \in [0..MAXID -> SUBSET Nat] /\ next_id \in Nat
      BY <1>4, SMT DEF Kids
    <3>2. kids' \in [0..MAXID -> SUBSET Nat]
      BY <1>14, <2>3, <3>1
    <3>3. \A i \in 0..MAXID : kids'[i] = IF i = id[current] THEN kids[i] \cup {next_id} ELSE kids[i]
      BY <1>14, <2>3, <3>1
    <3> QED BY <1>14, <2>1, <2>3, <3>2, <3>3
  <2> QED BY <2>2, <2>3
<1>16. Kids'
  <2>1. \A i \in 0..MAXID : \A n \in kids'[i] : i < n /\ n < next_id'
    BY <1>1, <1>4, <1>14, <1>15, SMTT(60) DEF Kids
  <2>2. \A i, j \in 0..MAXID : kids'[i] \cap kids'[j] # {} => i = j
    <3> SUFFICES ASSUME NEW i \in 0..MAXID, NEW j \in 0..MAXID, NEW n,
                        n \in kids'[i], n \in kids'[j]
                 PROVE  i = j
      OBVIOUS
    <3>1. CASE n = next_id
      BY <1>15, <3>1
    <3>2. CASE n # next_id
      BY <1>15, <3>2, SMT DEF Kids
    <3> QED BY <3>1, <3>2
  <2>3. \A a \in Elems(ready') : pc'[a] = "adopt" => arg'[a] \in kids'[id'[a]]
    <3> SUFFICES ASSUME NEW a \in Elems(ready), a # t, pc'[a] = "adopt"
                 PROVE  arg'[a] \in kids'[id[a]]
      BY <1>3, <1>10, ElemsType DEF Lists
    <3>1. a \in Addr /\ id[a] \in 0..MAXID
      BY ElemsType DEF Lists, TypeOK
    <3>2. CASE a = current
      BY <1>15, <3>2
    <3>3. CASE a # current
      BY <1>15, <3>1, <3>3 DEF Kids
    <3> QED BY <3>2, <3>3
  <2>4. ASSUME NEW c \in heap', NEW n \in (kids'[id'[c]] \cap adopted) \ collected
        PROVE  \E u \in heap' : id'[u] = n /\ parent'[u] = c /\ u \notin reaped_by_parent'
    <3>1. CASE c = t
      <4>1. n \in kids'[next_id] /\ next_id \in 0..MAXID
        BY <1>4, <1>10, <3>1, SMTT(60)
      <4>2. next_id < n /\ n < next_id'
        BY <2>1, <4>1
      <4>3. n \in Nat
        BY <1>15, <4>1
      <4> QED BY <1>1, <1>4, <4>2, <4>3, SMTT(60)
    <3>2. CASE c # t
      <4>1. c \in heap /\ id'[c] = id[c] /\ id[c] \in 0..MAXID
        BY <1>1, <1>10, <1>12, <3>2 DEF TypeOK
      <4>2. n # next_id
        BY <1>4, SMTT(60) DEF Kids
      <4>3. n \in (kids[id[c]] \cap adopted) \ collected
        BY <1>15, <4>1, <4>2
      <4>4. PICK u \in heap : id[u] = n /\ parent[u] = c /\ u \notin reaped_by_parent
        BY <4>1, <4>3, SMTT(60) DEF Kids
      <4>5. u # t /\ u \in Addr /\ id'[u] = n /\ parent'[u] = c
        BY <1>1, <1>10, <1>12, <4>4 DEF TypeOK
      <4> QED BY <1>1, <4>4, <4>5
    <3> QED BY <3>1, <3>2
  <2>5. adopted \subseteq 1..next_id' - 1
    BY <1>1, <1>4, SMTT(60) DEF Kids
  <2> QED BY <1>1, <1>15, <2>1, <2>2, <2>3, <2>4, <2>5, SMTT(60) DEF Kids
<1>17. Results'
  BY DEF Results
<1> QED BY <1>5, <1>6, <1>9, <1>11, <1>13, <1>16, <1>17

(* A task exits.  A parent that is blocked is woken, and the shell can always
   run next. *)
LEMMA ExitKeeps == IInv /\ task_exit_code => IInv'
<1> SUFFICES ASSUME IInv, task_exit_code PROVE IInv'
  OBVIOUS
<1> DEFINE p == parent[current]
           rest == ready_remove(ready, current)
           wakes == p # NULL /\ state[p] = "BLOCKED" /\ p \in wait_any
           awake == Runnable \cup (IF wakes THEN {p} ELSE {})
           next == IF Elems(rest) \cap awake # {} THEN FirstIn(rest, awake) ELSE current
           l == IF Elems(rest) \cap awake # {} THEN "gone" ELSE "halt"
<1>1. /\ current # kmain
      /\ pc[current] = "run" \/ pc[current] = "return"
      /\ ready' = rest
      /\ zombie' = <<current>> \o zombie
      /\ reaped_by_parent' = reaped_by_parent \cup (IF p = NULL THEN {current} ELSE {})
      /\ state' = [a \in Addr |-> IF a = current THEN "DEAD"
                                  ELSE IF a = next THEN "RUNNING"
                                  ELSE IF a = p /\ wakes THEN "READY"
                                  ELSE state[a]]
      /\ current' = next
      /\ pc' = [pc EXCEPT ![current] = l]
      /\ UNCHANGED <<next_id, heap, id, parent, is_user, wait_any, arg, pending, hist>>
  BY DEF task_exit_code, Goto
<1> USE DEF IInv
<1>2. current \in Addr /\ kmain \in Addr /\ current \in Elems(ready) /\ current \notin Elems(zombie)
  BY TaskAssumption DEF TypeOK, Lists
<1>3. rest \in Seq(Addr) /\ Injective(rest) /\ Elems(rest) = Elems(ready) \ {current}
  BY RemoveIs DEF Lists
<1>4. /\ zombie' \in Seq(Addr) /\ Injective(zombie')
      /\ Elems(zombie') = Elems(zombie) \cup {current}
  BY <1>1, <1>2, ConsIs DEF Lists
<1> HIDE DEF rest
<1>5. kmain \in Elems(rest) \cap awake
  BY <1>1, <1>2, <1>3 DEF Runnable, States, Lists
<1>6. FirstIn(rest, awake) \in Elems(rest) \cap awake
  BY <1>3, <1>5, FirstInIs
<1>7. next \in Elems(rest) /\ next \in Addr /\ next # current /\ next \in awake
  BY <1>3, <1>5, <1>6, ElemsType
<1>8. l \in {"gone", "halt"}
  OBVIOUS
<1> HIDE DEF next, l
<1>9. Elems(ready') = Elems(ready) \ {current}
  BY <1>1, <1>3
<1>10. TypeOK'
  <2>1. state' \in [Addr -> {"READY", "RUNNING", "BLOCKED", "DEAD"}]
    BY <1>1 DEF TypeOK
  <2>2. pc' \in [Addr -> {"run", "adopt", "poll", "wait", "wait_nohang", "sleep", "woken",
                          "return", "gone", "halt"}]
    BY <1>1, <1>8 DEF TypeOK
  <2>3. reaped_by_parent' \subseteq Addr
    BY <1>1, <1>2 DEF TypeOK
  <2> QED BY <1>1, <1>2, <1>4, <1>7, <1>9, <2>1, <2>2, <2>3, ZenonT(60) DEF TypeOK
<1>11. Lists'
  <2>1. kmain \in Elems(ready')
    BY <1>1, <1>9 DEF Lists
  <2> QED BY <1>1, <1>2, <1>3, <1>4, <1>7, <1>9, <2>1 DEF Lists
<1>12. \A a \in Addr : state'[a] = IF a = current THEN "DEAD"
                                   ELSE IF a = next THEN "RUNNING"
                                   ELSE IF a = p /\ wakes THEN "READY"
                                   ELSE state[a]
  BY <1>1
<1>13. state[current] # "BLOCKED"
  BY <1>1 DEF States
<1>14. States'
  <2>1. \A a \in Addr : a \in Elems(ready') <=> state'[a] # "DEAD"
    <3>1. state[next] # "DEAD"
      BY <1>3, <1>7 DEF States
    <3>2. \A a \in Addr : a \in Elems(ready) <=> state[a] # "DEAD"
      BY DEF States
    <3> QED BY <1>2, <1>7, <1>9, <1>12, <3>1, <3>2
  <2>2. \A a \in Addr : state'[a] = "RUNNING" => a = current'
    BY <1>1, <1>12 DEF States
  <2>3. state'[kmain] \in {"READY", "RUNNING"}
    BY <1>1, <1>2, <1>12 DEF States
  <2>4. pc'[kmain] \in {"run", "adopt", "poll"}
    BY <1>1, <1>2 DEF States, TypeOK
  <2>5. state'[current'] # "BLOCKED"
    BY <1>1, <1>7, <1>12
  <2> QED BY <1>1, <2>1, <2>2, <2>3, <2>4, <2>5 DEF States
<1>15. Blocked'
  <2> SUFFICES ASSUME NEW a \in Addr, state'[a] = "BLOCKED"
               PROVE  /\ a \in wait_any' /\ pc'[a] \in {"sleep", "woken"}
                      /\ DeadChildren(a, arg[a])' = {}
    BY DEF Blocked
  <2>1. a # current /\ state[a] = "BLOCKED" /\ ~(a = p /\ wakes)
    BY <1>12
  <2>2. a \in wait_any /\ pc[a] \in {"sleep", "woken"} /\ DeadChildren(a, arg[a]) = {}
    BY <2>1 DEF Blocked
  <2>3. parent[current] # a
    BY <2>1, <2>2, TaskAssumption
  <2>4. DeadChildren(a, arg[a])' \subseteq DeadChildren(a, arg[a])
    BY <1>1, <1>4, <2>3 DEF DeadChildren, wait_match
  <2> QED BY <1>1, <1>2, <2>1, <2>2, <2>4 DEF TypeOK
<1>16. Ids'
  <2>1. reaped_by_parent' \cap Elems(ready') = {}
    BY <1>1, <1>9 DEF Ids
  <2> QED BY <1>1, <2>1 DEF Ids, hist
<1>17. Kids'
  <2>1. kids' = kids /\ adopted' = adopted /\ collected' = collected
    BY <1>1 DEF hist
  <2>2. \A a \in Elems(ready') : pc'[a] = "adopt" => arg[a] \in kids[id[a]]
    BY <1>1, <1>9, ElemsType, SMT DEF Kids, TypeOK, Lists
  <2>3. ASSUME NEW c \in heap, NEW n \in (kids[id[c]] \cap adopted) \ collected
        PROVE  \E t \in heap : id[t] = n /\ parent[t] = c /\ t \notin reaped_by_parent'
    <3>1. PICK t \in heap : id[t] = n /\ parent[t] = c /\ t \notin reaped_by_parent
      BY DEF Kids
    <3>2. c # NULL
      BY TaskAssumption DEF TypeOK
    <3> QED BY <1>1, <3>1, <3>2
  <2> QED BY <1>1, <2>1, <2>2, <2>3, SMTT(60) DEF Kids
<1>18. Results'
  BY <1>1 DEF Results, hist
<1> QED BY <1>10, <1>11, <1>14, <1>15, <1>16, <1>17, <1>18

(* kill wakes a blocked task; the caller itself is not blocked. *)
LEMMA RaiseKeeps ==
    ASSUME IInv, NEW t \in Addr, signal_raise(t)
    PROVE  IInv'
<1>1. /\ pc[current] = "run"
      /\ current \in is_user
      /\ t \in Elems(ready) \ {kmain}
      /\ pending' = pending \cup {t}
      /\ state' = IF state[t] = "BLOCKED" THEN [state EXCEPT ![t] = "READY"] ELSE state
      /\ pc' = [pc EXCEPT ![current] = Back]
      /\ UNCHANGED <<ready, zombie, current, next_id, heap, id, parent, is_user, wait_any,
                     reaped_by_parent, arg, hist>>
  BY DEF signal_raise, Goto
<1> USE DEF IInv
<1>2. current \in Addr /\ kmain \in Addr /\ current # kmain
  BY <1>1, TaskAssumption DEF TypeOK, States
<1>3. Elems(ready)' = Elems(ready) /\ Elems(zombie)' = Elems(zombie)
  BY <1>1
<1>4. Back \in {"run", "return"}
  BY DEF Back
<1>5. /\ state' \in [Addr -> {"READY", "RUNNING", "BLOCKED", "DEAD"}]
      /\ \A a \in Addr : state'[a] = "DEAD" <=> state[a] = "DEAD"
      /\ \A a \in Addr : state'[a] = "BLOCKED" => state[a] = "BLOCKED"
      /\ \A a \in Addr : state'[a] = "RUNNING" => state[a] = "RUNNING"
      /\ state'[kmain] = state[kmain]
  BY <1>1, <1>2 DEF TypeOK
<1>6. TypeOK'
  BY <1>1, <1>3, <1>4, <1>5 DEF TypeOK
<1>7. Lists'
  BY <1>1, <1>3 DEF Lists, Injective
<1>8. state[current] # "BLOCKED"
  BY <1>1 DEF States
<1>9. States'
  <2>1. pc'[kmain] = pc[kmain]
    BY <1>1, <1>2 DEF TypeOK
  <2> QED BY <1>1, <1>2, <1>3, <1>5, <1>8, <2>1, SMTT(60) DEF States
<1>10. Blocked'
  <2> SUFFICES ASSUME NEW a \in Addr, state[a] = "BLOCKED"
               PROVE  /\ a \in wait_any' /\ pc'[a] \in {"sleep", "woken"}
                      /\ DeadChildren(a, arg[a])' = {}
    BY <1>5 DEF Blocked
  <2>1. a \in wait_any /\ pc[a] \in {"sleep", "woken"} /\ DeadChildren(a, arg[a]) = {}
    BY DEF Blocked
  <2>2. DeadChildren(a, arg[a])' = DeadChildren(a, arg[a])
    BY <1>1, <1>3 DEF DeadChildren, wait_match
  <2> QED BY <1>1, <1>2, <1>8, <2>1, <2>2 DEF TypeOK
<1>11. Ids'
  BY <1>1, <1>3 DEF Ids, hist
<1>12. Kids'
  <2>1. \A a \in Elems(ready) : pc'[a] = "adopt" => pc[a] = "adopt"
    BY <1>1, <1>4, ElemsType DEF TypeOK, Lists
  <2> QED BY <1>1, <2>1, KidsFrame DEF hist
<1>13. Results'
  BY <1>1 DEF Results, hist
<1> QED BY <1>6, <1>7, <1>9, <1>10, <1>11, <1>12, <1>13

(* The timer's switch. *)
LEMMA TickKeeps == IInv /\ scheduler_tick => IInv'
<1> SUFFICES ASSUME IInv, scheduler_tick PROVE IInv'
  OBVIOUS
<1> USE DEF IInv
<1>1. UNCHANGED <<ready, zombie, next_id, heap, id, parent, is_user, wait_any,
                  reaped_by_parent, pc, arg, pending, hist>>
  BY DEF scheduler_tick
<1>2. /\ current' \in Elems(ready)
      /\ state' \in [Addr -> {"READY", "RUNNING", "BLOCKED", "DEAD"}]
      /\ \A a \in Addr : state'[a] = "DEAD" <=> state[a] = "DEAD"
      /\ \A a \in Addr : state'[a] = "BLOCKED" <=> state[a] = "BLOCKED"
      /\ \A a \in Addr : state'[a] = "RUNNING" => a = current'
      /\ state'[kmain] \in {"READY", "RUNNING"}
      /\ state'[current'] # "BLOCKED"
  BY SwitchIs DEF scheduler_tick
<1>3. Elems(ready)' = Elems(ready) /\ Elems(zombie)' = Elems(zombie)
  BY <1>1
<1>4. TypeOK'
  BY <1>1, <1>2, <1>3 DEF TypeOK
<1>5. Lists'
  BY <1>1, <1>2, <1>3 DEF Lists, Injective
<1>6. States'
  BY <1>1, <1>2, <1>3 DEF States
<1>7. Blocked'
  BY <1>1, <1>2, <1>3 DEF Blocked, DeadChildren, wait_match
<1>8. Ids'
  BY <1>1, <1>3 DEF Ids, hist
<1>9. Kids'
  BY <1>1, KidsFrame DEF hist
<1>10. Results'
  BY <1>1 DEF Results, hist
<1> QED BY <1>4, <1>5, <1>6, <1>7, <1>8, <1>9, <1>10

LEMMA IInvStep == IInv /\ [Next]_vars => IInv'
<1> SUFFICES ASSUME IInv, [Next]_vars PROVE IInv'
  OBVIOUS
<1> DEFINE PC == {"run", "adopt", "poll", "wait", "wait_nohang", "sleep", "woken",
                  "return", "gone", "halt"}
<1>1. /\ current \in Addr /\ pc \in [Addr -> PC] /\ arg \in [Addr -> 0..MAXID]
      /\ pending \subseteq Addr /\ MAXID \in Nat /\ next_id \in Nat \ {0}
  BY TaskAssumption, SMT DEF IInv, TypeOK
<1>2. /\ current = kmain => pc[current] \in {"run", "adopt", "poll"}
      /\ kmain \notin is_user
      /\ state[current] = "BLOCKED" => pc[current] = "sleep"
  BY DEF IInv, States
<1>3. Back \in {"run", "return"} /\ (current = kmain => Back = "run")
  BY <1>2 DEF Back
<1>4. ASSUME NEW t \in Addr, task_spawn(t) PROVE IInv'
  <2>1. t # current
    BY <1>4 DEF task_spawn, NewTask, IInv, Lists
  <2>2. /\ pc' \in [Addr -> PC] /\ pc'[t] = "run" /\ pc'[current] = "run"
        /\ \A a \in Addr \ {t, current} : pc'[a] = pc[a]
    BY <1>1, <1>4, <2>1 DEF task_spawn
  <2>3. arg' \in [Addr -> 0..MAXID] /\ \A a \in Addr \ {t, current} : arg'[a] = arg[a]
    BY <1>1, <1>4, SMT DEF task_spawn
  <2>4. /\ NewTask(t, FALSE) /\ pc[current] = "run" /\ kids' = kids
        /\ UNCHANGED <<zombie, current, adopted, collected, result>>
    BY <1>4 DEF task_spawn, hist
  <2> QED BY <2>2, <2>3, <2>4, NewTaskKeeps
<1>5. ASSUME NEW t \in Addr, Create(t) PROVE IInv'
  <2>1. t # current /\ next_id \in 0..MAXID
    BY <1>1, <1>5, SMTT(60) DEF Create, NewTask, IInv, Lists
  <2>2. /\ pc' \in [Addr -> PC] /\ pc'[t] = "run" /\ pc'[current] = "adopt"
        /\ \A a \in Addr \ {t, current} : pc'[a] = pc[a]
    BY <1>1, <1>5, <2>1 DEF Create
  <2>3. /\ arg' \in [Addr -> 0..MAXID] /\ arg'[current] = next_id
        /\ \A a \in Addr \ {t, current} : arg'[a] = arg[a]
    BY <1>1, <1>5, <2>1, SMT DEF Create
  <2>4. /\ NewTask(t, TRUE) /\ pc[current] = "run"
        /\ kids' = [kids EXCEPT ![id[current]] = @ \cup {next_id}]
        /\ UNCHANGED <<zombie, current, adopted, collected, result>>
    BY <1>5 DEF Create
  <2> QED BY <2>2, <2>3, <2>4, NewTaskKeeps
<1>6. ASSUME NEW t \in Addr, signal_raise(t) PROVE IInv'
  BY <1>6, RaiseKeeps
<1>7. ASSUME NEW n \in 0..MAXID, NEW l \in {"wait", "wait_nohang"}, WaitCall(n, l) PROVE IInv'
  <2>1. /\ current # kmain /\ state[current] # "BLOCKED"
        /\ pc' = [pc EXCEPT ![current] = l]
        /\ arg' \in [Addr -> 0..MAXID]
        /\ \A a \in Addr \ {current} : arg'[a] = arg[a]
        /\ wait_any' = wait_any /\ pending' \subseteq Addr
        /\ UNCHANGED <<ready, zombie, current, next_id, heap, id, state, parent, is_user,
                       reaped_by_parent, hist>>
    BY <1>1, <1>2, <1>7 DEF WaitCall, Goto
  <2> QED BY <2>1, MoveKeeps
<1>8. CASE PollYield
  <2>1. pc' = [pc EXCEPT ![current] = "poll"]
    BY <1>1, <1>8 DEF PollYield
  <2> QED BY <1>8, <2>1, YieldKeeps DEF PollYield
<1>9. CASE YieldRun
  <2>1. pc' = [pc EXCEPT ![current] = Back]
    BY <1>9 DEF YieldRun, Goto
  <2> QED BY <1>3, <1>9, <2>1, YieldKeeps DEF YieldRun
<1>10. CASE WaitSleep
  <2>1. pc' = [pc EXCEPT ![current] = "woken"]
    BY <1>10 DEF WaitSleep, Goto
  <2> QED BY <1>2, <1>10, <2>1, YieldKeeps DEF WaitSleep
<1>11. CASE WaitWoken
  <2>1. /\ current # kmain /\ state[current] # "BLOCKED"
        /\ pc' = [pc EXCEPT ![current] = "wait"]
        /\ arg' \in [Addr -> 0..MAXID]
        /\ \A a \in Addr \ {current} : arg'[a] = arg[a]
        /\ wait_any' = wait_any \ {current} /\ pending' \subseteq Addr
        /\ UNCHANGED <<ready, zombie, current, next_id, heap, id, state, parent, is_user,
                       reaped_by_parent, hist>>
    BY <1>1, <1>2, <1>11 DEF WaitWoken, Goto
  <2> QED BY <2>1, MoveKeeps
<1>12. CASE deliver_signals
  <2>1. /\ current # kmain /\ state[current] # "BLOCKED"
        /\ pc' = [pc EXCEPT ![current] = "run"]
        /\ arg' \in [Addr -> 0..MAXID]
        /\ \A a \in Addr \ {current} : arg'[a] = arg[a]
        /\ wait_any' = wait_any /\ pending' \subseteq Addr
        /\ UNCHANGED <<ready, zombie, current, next_id, heap, id, state, parent, is_user,
                       reaped_by_parent, hist>>
    BY <1>1, <1>2, <1>12 DEF deliver_signals, Goto
  <2> QED BY <2>1, MoveKeeps
<1>13. CASE UNCHANGED vars
  <2>1. UNCHANGED <<ready, zombie, current, next_id, heap, id, state, parent, is_user, wait_any,
                    reaped_by_parent, pc, arg, pending, kids, adopted, collected, result>>
    BY <1>13 DEF vars, hist
  <2>2. TypeOK' /\ Lists' /\ States' /\ Blocked' /\ Ids' /\ Kids' /\ Results'
    <3>1. TypeOK'
      BY <2>1 DEF IInv, TypeOK
    <3>2. Lists'
      BY <2>1 DEF IInv, Lists, Injective
    <3>3. States'
      BY <2>1 DEF IInv, States
    <3>4. Blocked'
      BY <2>1 DEF IInv, Blocked, DeadChildren, wait_match
    <3>5. Ids'
      BY <2>1 DEF IInv, Ids
    <3>6. Kids'
      BY <2>1, KidsFrame DEF IInv
    <3> QED BY <2>1, <3>1, <3>2, <3>3, <3>4, <3>5, <3>6 DEF IInv, Results
  <2> QED BY <2>2 DEF IInv
<1> QED
  BY <1>4, <1>5, <1>6, <1>7, <1>8, <1>9, <1>10, <1>11, <1>12, <1>13, AdoptKeeps, PollDoneKeeps,
     CollectKeeps, NothingKeeps, BlockKeeps, ExitKeeps, TickKeeps
  DEF Next, Kernel

LEMMA Inductive == Spec => []IInv
<1> QED BY IInvInit, IInvStep, PTL DEF Spec

(* A list without repetitions is as long as the set of its elements. *)
LEMMA LengthIs ==
    ASSUME NEW s \in Seq(Addr), Injective(s)
    PROVE  Len(s) = Cardinality(Elems(s))
<1>1. Len(s) \in Nat /\ s \in [1..Len(s) -> Elems(s)]
  BY SMT DEF Elems
<1>2. s \in Bijection(1..Len(s), Elems(s))
  BY <1>1 DEF Bijection, Injection, Surjection, IsInjective, Injective, Elems
<1>3. ExistsBijection(1..Len(s), Elems(s))
  BY <1>2 DEF ExistsBijection
<1> QED BY <1>1, <1>3, FS_CountingElements

-----------------------------------------------------------------------------
(* The fields of the tasks and the scheduler's variables keep their types. *)
THEOREM TypeCorrect == Spec => []TypeOK
<1>1. IInv => TypeOK
  BY DEF IInv
<1> QED BY <1>1, Inductive, PTL

(* ready_insert, ready_remove, task_exit_code and reap_zombies never leave a
   task_t on two lists, twice on one, or freed while it is on one; and the
   current task is always in the ring. *)
THEOREM ListsAlwaysSound == Spec => []ListsSound
<1>1. IInv => ListsSound
  <2> SUFFICES ASSUME IInv PROVE ListsSound
    OBVIOUS
  <2>1. Len(ready) = Cardinality(Elems(ready)) /\ Len(zombie) = Cardinality(Elems(zombie))
    BY LengthIs DEF IInv, Lists
  <2>2. \A a \in heap : a \in Elems(zombie) <=> state[a] = "DEAD"
    BY DEF IInv, TypeOK, Lists, States
  <2> QED BY <2>1, <2>2 DEF IInv, Lists, ListsSound
<1> QED BY <1>1, Inductive, PTL

(* yield, scheduler_tick and task_exit_code leave no task marked running but
   the current one, and there is always a task to run: the shell. *)
THEOREM CpuAlwaysSound == Spec => []CpuSound
<1>1. IInv => CpuSound
  BY TaskAssumption DEF IInv, Lists, States, CpuSound, Runnable
<1> QED BY <1>1, Inductive, PTL

(* task_wait_child_ex and task_exit_code lose no wakeup: a task that is
   blocked has no child to collect, whatever the timer interrupts. *)
THEOREM WakeupNeverLost == Spec => []NoLostWakeup
<1>1. IInv => NoLostWakeup
  <2> SUFFICES ASSUME IInv PROVE NoLostWakeup
    OBVIOUS
  <2>1. Elems(ready) \subseteq Addr
    BY ElemsType DEF IInv, Lists
  <2> QED BY <2>1 DEF IInv, Blocked, NoLostWakeup
<1> QED BY <1>1, Inductive, PTL

(* waitpid reports each exit once, although addresses are used again. *)
THEOREM AlwaysCollectedOnce == Spec => []CollectedOnce
<1>1. IInv => CollectedOnce
  BY DEF IInv, Results, CollectedOnce
<1> QED BY <1>1, Inductive, PTL

(* waitpid never says that there is no such child while one that was told its
   parent is left: reap_zombies frees only what was collected, and a creator's
   lookup by id finds its own child or nothing. *)
THEOREM AdoptedAlwaysKept == Spec => []AdoptedKept
<1>1. IInv => AdoptedKept
  BY DEF IInv, Results, AdoptedKept
<1> QED BY <1>1, Inductive, PTL
=============================================================================
