------------------------------- MODULE Fat32 -------------------------------
(***************************************************************************)
(* The FAT32 driver, src/fat32.c: the cached FAT, directories with long    *)
(* names, and the calls the VFS makes (read, read at an offset, write,     *)
(* delete, mkdir, rmdir, cp, mv).                                          *)
(*                                                                         *)
(* A volume v is a record: fat is the table in memory, dfat the first copy *)
(* of it on disk, disk the clusters.  A call works on a copy of the volume *)
(* that also has: left, which counts down to the disk write that fails (0: *)
(* none does); io, whether it failed; ok, whether the call is still going. *)
(* Reads and kmalloc succeed.  The VFS only passes absolute paths, so the  *)
(* working directory of the driver stays at the root.                      *)
(*                                                                         *)
(* Names are abstract.  A name in Short fits 8.3; a name in Long does not, *)
(* and all of them have the same 8.3 truncation and the same stem for a    *)
(* numeric tail.  No name in Short is that truncation.  The short name of  *)
(* a name in Long begins with a dot if it does, which only rmdir looks at. *)
(***************************************************************************)
EXTENDS Naturals, Sequences, FiniteSets, SequencesExt, FiniteSetsExt

CONSTANTS
    LAST,       \* the last cluster; the first is 2
    BPC,        \* bytes_per_cluster
    EPC,        \* dir_entries_per_cluster
    NUM_FATS,   \* bpb.num_fats
    TAILS,      \* the numeric tails tried for a short alias (999)
    Short, Long,
    Segs,       \* lfn_entry_count of the names in Long, less than EPC
    Dotted,     \* the names in Long that begin with a dot
    FilePaths,  \* the paths of the calls on files, sequences of names, never empty
    DirPaths,   \* the paths of mkdir and rmdir
    Data,       \* the contents written
    Faults,     \* which disk write of a call fails; 0, always among them, for none
    MAXCALLS    \* bound on the calls that change something

Clusters == 2..LAST
root_cluster == 2
FREE == 0
EOC  == LAST + 1
Paths == FilePaths \cup DirPaths

VARIABLES
    vol,        \* the volume
    store,      \* history: what each path should hold, by the calls that returned success
    leaky,      \* history: a write has run out of space, so clusters may be lost
    outside,    \* history: a disk write failed, or mv was given an occupied or a long name
    calls       \* the calls so far, for the bound

vars == <<vol, store, leaky, outside, calls>>

-----------------------------------------------------------------------------
(* A directory slot is free with or without more slots behind it ("gone",
   0xE5, or "end", 0x00), part of a long name, or a short entry.  A raw short
   name is a stem and a tail, 0 for none. *)

End  == [t |-> "end"]
Gone == [t |-> "gone"]
Lfn(n, seg, sum) == [t |-> "lfn", name |-> n, seg |-> seg, sum |-> sum]
Ent(raw, dir, first, size) == [t |-> "ent", raw |-> raw, dir |-> dir, first |-> first, size |-> size]

DirChunk(s) == [dir |-> TRUE, s |-> s]
DataChunk(b) == [dir |-> FALSE, s |-> b]
IsFree(slot) == slot.t \in {"end", "gone"}

needs_lfn(n) == n \in Long
build_83(n) == IF needs_lfn(n) THEN <<"trunc", 0>> ELSE <<n, 0>>
build_83_tail(n, t) == <<IF n \in Dotted THEN ".trunc" ELSE "trunc", t>>
Dot    == <<".", 0>>
DotDot == <<"..", 0>>

-----------------------------------------------------------------------------
(* The disk.  A failed write ends the call, unless its caller ignores it. *)

Written(v) ==
    CASE ~v.ok -> v
      [] v.ok /\ v.left = 1 -> [v EXCEPT !.ok = FALSE, !.io = TRUE, !.left = 0]
      [] OTHER -> [v EXCEPT !.left = IF @ = 0 THEN 0 ELSE @ - 1]

fat_write(v, c, chunk) ==
    LET w == Written(v) IN IF w.ok THEN [w EXCEPT !.disk[c] = chunk] ELSE w

(* Mutant: an operation that trusts the next one to write the table. *)
fat32_flush_fat_Late(v) == v

fat32_flush_fat(v) ==
    LET Copy(w, i) == LET x == Written(w) IN IF x.ok /\ i = 1 THEN [x EXCEPT !.dfat = x.fat] ELSE x
    IN  FoldLeft(Copy, v, [i \in 1..NUM_FATS |-> i])

Ignoring(v, w) == IF v.ok THEN [w EXCEPT !.ok = TRUE] ELSE v

-----------------------------------------------------------------------------
(* The table. *)

FreeClusters(v) == {c \in Clusters : v.fat[c] = FREE}
fat32_alloc_cluster(v) == IF FreeClusters(v) = {} THEN 0 ELSE Min(FreeClusters(v))
fat32_set_entry(v, c, x) == [v EXCEPT !.fat[c] = x]

(* The clusters of a chain, in order; a free entry ends it too. *)
RECURSIVE ChainFrom(_, _, _)
ChainFrom(f, c, left) ==
    IF c \notin Clusters \/ left = 0 THEN <<>> ELSE <<c>> \o ChainFrom(f, f[c], left - 1)
Chain(f, c) == ChainFrom(f, c, LAST)

RECURSIVE Freed(_, _)
Freed(f, c) == IF c \notin Clusters THEN f ELSE Freed([f EXCEPT ![c] = FREE], f[c])
(* Mutant: only the first cluster of a file is given back. *)
fat32_free_chain_First(v, c) == [v EXCEPT !.fat = [@ EXCEPT ![c] = FREE]]

fat32_free_chain(v, c) == [v EXCEPT !.fat = Freed(v.fat, c)]

(* c is the cluster that fat32_alloc_cluster found. *)
fat32_extend_chain(v, last, c) ==
    IF c = 0 THEN [v EXCEPT !.ok = FALSE] ELSE fat32_set_entry(fat32_set_entry(v, last, c), c, EOC)

-----------------------------------------------------------------------------
(* Directories.  A position is a cluster and a slot of it; the k-th slot of a
   directory is at Pos(v, d, k). *)

ChunkSlots(v, c) == IF v.disk[c].dir THEN v.disk[c].s ELSE [i \in 1..EPC |-> End]
SlotsOf(v, ch) == FlattenSeq([k \in DOMAIN ch |-> ChunkSlots(v, ch[k])])
AllSlots(v, d) == SlotsOf(v, Chain(v.fat, d))
Pos(v, d, k) == <<Chain(v.fat, d)[(k - 1) \div EPC + 1], ((k - 1) % EPC) + 1>>

(* What a reader sees: it stops at the first 0x00. *)
BeforeEnd(s) ==
    LET e == SelectInSeq(s, LAMBDA x : x = End) IN IF e = 0 THEN s ELSE SubSeq(s, 1, e - 1)
dir_each(v, d) == BeforeEnd(AllSlots(v, d))

(* The segments of a long name, last one first, and whether the slots before
   slot k of a scan s spell it. *)
lfn_write_entries(n, sum) == [i \in 1..Segs[n] |-> Lfn(n, Segs[n] + 1 - i, sum)]

lfn_reconstruct(s, k, n) ==
    /\ n \in Long
    /\ k > Segs[n]
    /\ \A i \in 1..Segs[n] : s[k-i].t = "lfn" /\ s[k-i].name = n /\ s[k-i].seg = i
    /\ k > Segs[n] + 1 => s[k-Segs[n]-1].t # "lfn"

(* Where the first entry is that has this raw name or follows this long name;
   <<>> if there is none, or no directory (0) to look in. *)
Hits(s, raw, n) == {k \in DOMAIN s : s[k].t = "ent" /\ (s[k].raw = raw \/ lfn_reconstruct(s, k, n))}
FirstOf(v, d, hits) == IF hits = {} THEN <<>> ELSE Pos(v, d, Min(hits))
Lookup(v, d, raw, n) == IF d = 0 THEN <<>> ELSE FirstOf(v, d, Hits(dir_each(v, d), raw, n))

dir_find(v, d, raw) == Lookup(v, d, raw, "")
dir_find_lfn(v, d, n) == Lookup(v, d, build_83(n), n)

dir_put_entry(v, pos, e) ==
    fat_write(v, pos[1], DirChunk([v.disk[pos[1]].s EXCEPT ![pos[2]] = e]))

(* Deletes a short entry and the long-name slots right before it. *)
dir_delete_slot(v, pos) ==
    LET s == v.disk[pos[1]].s
        stop == Max({j \in 0..pos[2]-1 : j = 0 \/ s[j].t # "lfn"})
    IN  fat_write(v, pos[1], DirChunk([i \in 1..EPC |-> IF i > stop /\ i <= pos[2] THEN Gone ELSE s[i]]))

(* The allocators return the volume and, if it is still ok, a position. *)
Cleared(w, c) ==
    [v |-> IF w.ok THEN fat_write(w, c, DirChunk([i \in 1..EPC |-> End])) ELSE w, pos |-> <<c, 1>>]
ExtendedBy(v, d, c) == Cleared(fat32_extend_chain(v, Last(Chain(v.fat, d)), c), c)
Extended(v, d) == ExtendedBy(v, d, fat32_alloc_cluster(v))

SlotAt(v, d, k) == IF k # 0 THEN [v |-> v, pos |-> Pos(v, d, k)] ELSE Extended(v, d)
dir_alloc_slot(v, d) == SlotAt(v, d, SelectInSeq(AllSlots(v, d), IsFree))

(* A run of free slots within one cluster.  In the clusters that have none the
   0x00 marks become 0xE5, so that readers go on past them. *)
Runs(s, count) == {i \in 1..EPC-count+1 : \A j \in i..i+count-1 : IsFree(s[j])}
NoEnd(s) == [i \in 1..EPC |-> IF s[i] = End THEN Gone ELSE s[i]]

FirstRun(v, ch, count) == SelectInSeq(ch, LAMBDA c : Runs(v.disk[c].s, count) # {})

(* w is v with the clusters before the k-th of the chain gone through. *)
RunAt(v, w, d, ch, k, count) ==
    IF ~w.ok THEN [v |-> w, pos |-> <<2, 1>>]
    ELSE IF k = 0 THEN Extended(w, d) ELSE [v |-> w, pos |-> <<ch[k], Min(Runs(v.disk[ch[k]].s, count))>>]

Skip(w, c) ==
    IF NoEnd(w.disk[c].s) = w.disk[c].s THEN w ELSE fat_write(w, c, DirChunk(NoEnd(w.disk[c].s)))

SlotsFrom(v, d, ch, k, count) ==
    RunAt(v, FoldLeft(Skip, v, IF k = 0 THEN ch ELSE SubSeq(ch, 1, k - 1)), d, ch, k, count)

dir_alloc_slots(v, d, count) ==
    SlotsFrom(v, d, Chain(v.fat, d), FirstRun(v, Chain(v.fat, d), count), count)

(* a is what an allocator returned. *)
PutShort(a, n, e) == IF a.v.ok THEN dir_put_entry(a.v, a.pos, [e EXCEPT !.raw = build_83(n)]) ELSE a.v

Spliced(s, k, new) ==
    DirChunk([i \in 1..EPC |-> IF i >= k /\ i < k + Len(new) THEN new[i + 1 - k] ELSE s[i]])
PutLong(a, n, e, raw) ==
    IF a.v.ok THEN fat_write(a.v, a.pos[1], Spliced(a.v.disk[a.pos[1]].s, a.pos[2],
                                Append(lfn_write_entries(n, raw), [e EXCEPT !.raw = raw])))
    ELSE a.v

InsertLong(v, d, n, e, tails) ==
    IF tails = {} THEN [v EXCEPT !.ok = FALSE]
    ELSE PutLong(dir_alloc_slots(v, d, Segs[n] + 1), n, e, build_83_tail(n, Min(tails)))

dir_insert_named(v, d, n, e) ==
    IF ~needs_lfn(n) THEN PutShort(dir_alloc_slot(v, d), n, e)
    ELSE InsertLong(v, d, n, e, {t \in 1..TAILS : dir_find(v, d, build_83_tail(n, t)) = <<>>})

-----------------------------------------------------------------------------
(* Paths.  0 is "no such directory". *)

SlotOf(v, pos) == v.disk[pos[1]].s[pos[2]]

DirAt(v, pos) ==
    IF pos = <<>> THEN 0 ELSE IF SlotOf(v, pos).dir THEN SlotOf(v, pos).first ELSE 0
resolve_component(v, d, n) == DirAt(v, dir_find_lfn(v, d, n))

fat32_resolve_dir(v, p) == FoldLeft(LAMBDA d, n : resolve_component(v, d, n), root_cluster, p)
fat32_resolve_parent(v, p) == fat32_resolve_dir(v, Front(p))

(* Where a path's entry is; <<>> if it has none. *)
EntryOf(v, p) == dir_find_lfn(v, fat32_resolve_parent(v, p), Last(p))

-----------------------------------------------------------------------------
(* Reading. *)

Bytes(v, e) == FlattenSeq([k \in DOMAIN Chain(v.fat, e.first) |-> v.disk[Chain(v.fat, e.first)[k]].s])
Lesser(m, n) == IF m < n THEN m ELSE n

fat32_read_file(v, e, max) == SubSeq(Bytes(v, e), 1, Lesser(Lesser(e.size, max), Len(Bytes(v, e))))

fat32_read_file_at(v, e, offset, n) ==
    LET len == IF offset + n > e.size THEN e.size - offset ELSE n
        Step(a, c) ==
            LET next  == a.pos + BPC
                start == IF offset > a.pos THEN offset - a.pos ELSE 0
                stop  == IF a.pos + BPC > offset + len THEN offset + len - a.pos ELSE BPC
            IN  CASE Len(a.out) >= len -> a
                  [] Len(a.out) < len /\ next <= offset -> [a EXCEPT !.pos = next]
                  [] OTHER -> [pos |-> next, out |-> a.out \o SubSeq(v.disk[c].s, start + 1, stop)]
    IN  IF offset >= e.size THEN <<>>
        ELSE FoldLeft(Step, [pos |-> 0, out |-> <<>>], Chain(v.fat, e.first)).out

Absent == [kind |-> "absent"]
IsDir  == [kind |-> "dir"]
File(b) == [kind |-> "file", bytes |-> b]
Unsure == [kind |-> "unknown"]

(* What a program finds at a path. *)
FoundAt(v, pos) ==
    LET e == SlotOf(v, pos)
    IN  IF pos = <<>> THEN Absent ELSE IF e.dir THEN IsDir ELSE File(fat32_read_file(v, e, e.size))
Found(v, p) == FoundAt(v, EntryOf(v, p))

-----------------------------------------------------------------------------
(* Writing.  Each operator takes the volume of the call and returns it. *)

Failed(v) == [v EXCEPT !.ok = FALSE]

ChunkOf(data, k) == DataChunk([i \in 1..BPC |->
    IF (k - 1) * BPC + i <= Len(data) THEN data[(k - 1) * BPC + i] ELSE 0])

(* The loop of fat32_write_file that fills new clusters: the k-th goes to c. *)
FillOne(a, w, c, chunk) ==
    IF c = 0 THEN [a EXCEPT !.v = Failed(a.v)]
    ELSE [v |-> fat_write(fat32_set_entry(w, c, EOC), c, chunk),
          first |-> IF a.first = 0 THEN c ELSE a.first, last |-> c]
Filled(v, data) ==
    LET Step(a, k) ==
            LET c == fat32_alloc_cluster(a.v)
            IN  IF a.v.ok THEN FillOne(a, IF a.first = 0 THEN a.v ELSE fat32_set_entry(a.v, a.last, c),
                                       c, ChunkOf(data, k))
                ELSE a
    IN  FoldLeft(Step, [v |-> v, first |-> 0, last |-> 0], [k \in 1..(Len(data) + BPC - 1) \div BPC |-> k])

(* The entry of a written file: at pos, or a new one in d. *)
Entered(a, p, d, pos, size) ==
    LET e == Ent(build_83(Last(p)), FALSE, a.first, size)
    IN  IF ~a.v.ok THEN a.v
        ELSE fat32_flush_fat(IF pos # <<>> THEN dir_put_entry(a.v, pos, [e EXCEPT !.raw = SlotOf(a.v, pos).raw])
                             ELSE dir_insert_named(a.v, d, Last(p), e))

WriteAt(v, p, data, d, pos) ==
    IF d = 0 \/ (pos # <<>> /\ SlotOf(v, pos).dir) THEN Failed(v)
    ELSE Entered(Filled(IF pos # <<>> THEN fat32_free_chain(v, SlotOf(v, pos).first) ELSE v, data),
                 p, d, pos, Len(data))

write_file(v, p, data) == WriteAt(v, p, data, fat32_resolve_parent(v, p), EntryOf(v, p))

(* w has the chain of the entry at pos freed. *)
Removed(w, pos) == fat32_flush_fat(Ignoring(w, dir_delete_slot(w, pos)))

DeleteAt(v, pos) ==
    IF pos = <<>> THEN Failed(v)
    ELSE IF SlotOf(v, pos).dir THEN Failed(v)
    ELSE Removed(fat32_free_chain(v, SlotOf(v, pos).first), pos)

delete_file(v, p) == DeleteAt(v, EntryOf(v, p))

(* When the new directory cannot be entered in its parent, its cluster is free
   again. *)
Made(w, p, d, c) ==
    LET x == IF w.ok THEN dir_insert_named(w, d, Last(p), Ent(Dot, TRUE, c, 0)) ELSE w
    IN  IF ~x.ok THEN fat32_set_entry(x, c, FREE) ELSE fat32_flush_fat(x)

MkdirAt(v, p, d, c) ==
    LET s == [i \in 1..EPC |-> IF i = 1 THEN Ent(Dot, TRUE, c, 0)
                               ELSE IF i = 2 THEN Ent(DotDot, TRUE, d, 0) ELSE End]
    IN  IF d = 0 \/ EntryOf(v, p) # <<>> \/ c = 0 THEN Failed(v)
        ELSE Made(fat_write(fat32_set_entry(v, c, EOC), c, DirChunk(s)), p, d, c)

mkdir(v, p) == MkdirAt(v, p, fat32_resolve_parent(v, p), fat32_alloc_cluster(v))

Dotty(raw) == raw[1] \in {".", "..", ".trunc"}

(* rmdir, cp and mv find the entry by its 8.3 name only. *)
Source(v, p) == dir_find(v, fat32_resolve_parent(v, p), build_83(Last(p)))

RmdirAt(v, pos) ==
    LET e == SlotOf(v, pos)
    IN  IF pos = <<>> THEN Failed(v)
        ELSE IF ~e.dir \/ (\E x \in ToSet(dir_each(v, e.first)) : x.t = "ent" /\ ~Dotty(x.raw)) THEN Failed(v)
        ELSE Removed(fat32_free_chain(v, e.first), pos)

rmdir(v, p) == RmdirAt(v, Source(v, p))

(* A destination that is a directory stands for the source's name in it. *)
Target(v, src, dst) == IF fat32_resolve_dir(v, dst) # 0 THEN Append(dst, Last(src)) ELSE dst

(* The call reads the file again by its path. *)
CpAt(v, pos, src, dst) ==
    IF pos = <<>> THEN Failed(v)
    ELSE IF SlotOf(v, pos).dir THEN Failed(v)
    ELSE write_file(v, Target(v, src, dst),
                    fat32_read_file(v, SlotOf(v, EntryOf(v, src)), SlotOf(v, pos).size))

cp(v, src, dst) == CpAt(v, Source(v, src), src, dst)

(* a has the slot for the moved entry e; pos is the old one. *)
MvInto(a, e, pos) ==
    IF ~a.v.ok THEN a.v
    ELSE LET w == dir_put_entry(a.v, a.pos, e)
         IN  fat32_flush_fat(IF w.ok THEN dir_delete_slot(w, pos) ELSE w)

MvAt(v, pos, to, d) ==
    IF pos = <<>> THEN Failed(v)
    ELSE IF SlotOf(v, pos).dir \/ d = 0 THEN Failed(v)
    ELSE MvInto(dir_alloc_slot(v, d), [SlotOf(v, pos) EXCEPT !.raw = build_83(Last(to))], pos)

MvTo(v, src, to) == MvAt(v, Source(v, src), to, fat32_resolve_parent(v, to))

mv(v, src, dst) == MvTo(v, src, Target(v, src, dst))

-----------------------------------------------------------------------------
(* The calls.  Once a disk write has failed, or mv was given a name it does not
   handle, only a reboot follows: what the next call would work on is no longer
   a sound volume. *)

Begin(k) == [fat |-> vol.fat, dfat |-> vol.dfat, disk |-> vol.disk, left |-> k, io |-> FALSE, ok |-> TRUE]

(* What a failed call leaves of its promise about path p. *)
Doubt(v, p) ==
    IF v.io \/ (v.fat # vol.fat /\ store[p] # Absent) THEN [store EXCEPT ![p] = Unsure] ELSE store

(* Whether the program goes on: it has met no failed disk write. *)
Ready == ~outside /\ calls < MAXCALLS

Finish(v, st) ==
    /\ calls' = IF v.fat = vol.fat /\ v.disk = vol.disk THEN calls ELSE calls + 1
    /\ vol' = [fat |-> v.fat, dfat |-> v.dfat, disk |-> v.disk]
    /\ store' = st
    /\ leaky' = (leaky \/ (~v.ok /\ v.fat # vol.fat))

fat32_write_file(p, data, k) ==
    \E v \in {write_file(Begin(k), p, data)} :
        /\ Finish(v, IF v.ok THEN [store EXCEPT ![p] = File(data)] ELSE Doubt(v, p))
        /\ outside' = v.io

fat32_delete_file(p, k) ==
    \E v \in {delete_file(Begin(k), p)} :
        /\ Finish(v, IF v.ok /\ ~v.io THEN [store EXCEPT ![p] = Absent] ELSE Doubt(v, p))
        /\ outside' = v.io

fat32_mkdir(p, k) ==
    \E v \in {mkdir(Begin(k), p)} :
        /\ Finish(v, IF v.ok THEN [store EXCEPT ![p] = IsDir] ELSE Doubt(v, p))
        /\ outside' = v.io

fat32_rmdir(p, k) ==
    \E v \in {rmdir(Begin(k), p)} :
        /\ Finish(v, IF v.ok /\ ~v.io THEN [store EXCEPT ![p] = Absent] ELSE Doubt(v, p))
        /\ outside' = v.io

Goal(src, dst) == IF store[dst] = IsDir THEN Append(dst, Last(src)) ELSE dst

fat32_cp(src, dst, k) ==
    \E v \in {cp(Begin(k), src, dst)}, to \in {Goal(src, dst)} :
        /\ to \in FilePaths
        /\ Finish(v, IF v.ok THEN [store EXCEPT ![to] = store[src]] ELSE Doubt(v, to))
        /\ outside' = v.io

(* mv neither looks for an entry that has the new name nor writes a long name:
   with such a destination, what is found under the names that share its 8.3
   form depends on the order of the slots. *)
Unhandled(src, to) == needs_lfn(Last(to)) \/ (to # src /\ store[to] # Absent)
SameRaw(p, q) == Front(p) = Front(q) /\ build_83(Last(p)) = build_83(Last(q))

fat32_mv(src, dst, k) ==
    \E v \in {mv(Begin(k), src, dst)}, to \in {Goal(src, dst)} :
    LET lost == {q \in Paths : /\ v.io \/ (v.ok /\ Unhandled(src, to))
                               /\ SameRaw(q, to) \/ (v.io /\ q = src)}
    IN  /\ to \in FilePaths
        /\ Finish(v, [q \in Paths |-> CASE q \in lost -> Unsure
                                        [] q \notin lost /\ v.ok /\ q = to -> store[src]
                                        [] q \notin lost /\ v.ok /\ q = src /\ q # to -> Absent
                                        [] OTHER -> store[q]])
        /\ outside' = (lost # {})

(* A reboot: fat32_mount reads the table again. *)
fat32_mount == vol' = [vol EXCEPT !.fat = vol.dfat] /\ UNCHANGED <<store, leaky, outside, calls>>

(* An empty volume. *)
Init ==
    /\ vol = LET f == [c \in Clusters |-> IF c = root_cluster THEN EOC ELSE FREE]
             IN  [fat |-> f, dfat |-> f,
                  disk |-> [c \in Clusters |-> IF c = root_cluster THEN DirChunk([i \in 1..EPC |-> End])
                                               ELSE DataChunk([i \in 1..BPC |-> 0])]]
    /\ store = [p \in Paths |-> Absent]
    /\ leaky = FALSE
    /\ outside = FALSE
    /\ calls = 0

Next ==
    \/ fat32_mount
    \/ Ready /\ \E k \in Faults :
        \/ \E p \in FilePaths, data \in Data : fat32_write_file(p, data, k)
        \/ \E p \in FilePaths : fat32_delete_file(p, k)
        \/ \E p \in DirPaths : fat32_mkdir(p, k) \/ fat32_rmdir(p, k)
        \/ \E src \in FilePaths, dst \in Paths : fat32_cp(src, dst, k) \/ fat32_mv(src, dst, k)

Spec == Init /\ [][Next]_vars

-----------------------------------------------------------------------------
(* Properties. *)

(* The volume a call or a reader works on next: after a failure, that is the
   one the next mount finds. *)
Seen == IF outside THEN [vol EXCEPT !.fat = vol.dfat] ELSE vol

EntriesIn(v, d) == {e \in ToSet(AllSlots(v, d)) : e.t = "ent" /\ e.raw \notin {Dot, DotDot}}
SubDirs(v, S) == S \cup {e.first : e \in {x \in UNION {EntriesIn(v, d) : d \in S} : x.dir}}
Dirs(v) == SubDirs(v, SubDirs(v, {root_cluster}))

(* The values of the FAT and of the directory slots are in range. *)
TypeOK ==
    /\ vol.fat \in [Clusters -> Clusters \cup {FREE, EOC}]
    /\ vol.dfat \in [Clusters -> Clusters \cup {FREE, EOC}]
    /\ \A c \in Clusters : Len(vol.disk[c].s) = IF vol.disk[c].dir THEN EPC ELSE BPC
    /\ \A c \in Clusters : vol.disk[c].dir => \A i \in 1..EPC :
          vol.disk[c].s[i].t \in {"end", "gone", "lfn", "ent"}
    /\ DOMAIN store = Paths
    /\ leaky \in BOOLEAN /\ outside \in BOOLEAN /\ calls \in 0..MAXCALLS

(* Directories stay readable, also after a failed disk write: no entry lies
   past the 0x00 at which the readers stop, and the slots of a long name are
   complete, lie in one cluster and are followed by the short entry their
   checksum belongs to. *)
DirsSound ==
    LET v == Seen
        Reads(s) == \A k \in DOMAIN s :
            /\ s[k] = End => \A j \in k..Len(s) : s[j] = End
            /\ s[k].t = "lfn" =>
                 LET last == k + s[k].seg
                 IN  /\ last <= Len(s) /\ (last - 1) \div EPC = (k - 1) \div EPC
                     /\ s[last].t = "ent" /\ s[last].raw = s[k].sum
                     /\ s[k].seg > 1 => s[k+1] = Lfn(s[k].name, s[k].seg - 1, s[k].sum)
    IN  \A d \in Dirs(v) : Reads(AllSlots(v, d))

(* No cluster belongs to two files or directories, none in use is marked free,
   and every cluster marked used is in use, as long as no write has run out of
   space in the middle (then what it had taken stays marked). *)
ClustersOwned ==
    LET owners == [d \in Dirs(vol) |-> EntriesIn(vol, d)]
        heads  == {<<root_cluster, root_cluster, <<"/", 0>>>>} \cup
                  UNION {{<<e.first, d, e.raw>> : e \in {x \in owners[d] : x.first # 0}} : d \in Dirs(vol)}
        own(h) == ToSet(Chain(vol.fat, h[1]))
    IN  ~outside =>
          /\ \A h \in heads : \A c \in own(h) : vol.fat[c] # FREE
          /\ \A g, h \in heads : g # h => own(g) \cap own(h) = {}
          /\ leaky \/ {c \in Clusters : vol.fat[c] # FREE} = UNION {own(h) : h \in heads}

(* What a call reported is what programs find, whether or not the machine is
   rebooted first: the last contents written, moved or copied to a path,
   whole or from any offset.  A call that fails, on a full disk or at a failed
   disk write, spoils no path but its own. *)
ReadBack ==
    \A v \in {Seen, [vol EXCEPT !.fat = vol.dfat]} : \A p \in Paths : store[p] # Unsure =>
        /\ Found(v, p) = store[p]
        /\ store[p].kind = "file" => \A o, n \in 0..Len(store[p].bytes)+1 :
              fat32_read_file_at(v, SlotOf(v, EntryOf(v, p)), o, n)
                  = SubSeq(store[p].bytes, o + 1, Lesser(o + n, Len(store[p].bytes)))
=============================================================================
