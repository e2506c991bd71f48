---- MODULE Vfs ----
(* The virtual file system: paths made absolute and normal (vfs_resolve), routed to
   the mount with the longest prefix (src/src/vfs.c), and the operations handed to
   it: the RAM file system at /tmp in full (src/src/ramfs.c) and, for the disk at /,
   what the operations of src/src/cfs.c promise (modules Cfs and CfsJournal).

   A file system is a record: disk, the disk's entries in the order a listing gives
   them; ram, the slots of ramfs; cwd, the VFS's working directory.  A path is a
   sequence of names; what the program gives is [abs, c], c with "." and "..".
   A file's content is [l, d]: its bytes d and, when the bytes are the symbolic link
   marker, the target l.  All names differ also when case is ignored.             *)
EXTENDS Integers, Sequences, SequencesExt

CONSTANTS
    MAXDEPTH,           \* components of a path (64)
    RAMFS_MAX_FILES,    \* slots of ramfs (64)
    LISTMAX,            \* entries of a listing that get_file_size looks at (64)
    XBUF,               \* size of the buffers of cp and mv (65536)
    LINKDEPTH           \* links followed (8)

Tmp == <<"tmp">>
Mounts == {<<>>, Tmp}

NoLink == [abs |-> FALSE, c |-> <<>>]
Plain(d) == [l |-> NoLink, d |-> d]
SYMLINK_MAGIC == 9
Marker(target) == [l |-> target, d |-> <<SYMLINK_MAGIC>>]

Entry(p, t, x) == [p |-> p, t |-> t, x |-> x]
Unused == Entry(<<>>, "unused", Plain(<<>>))

Ok(fs) == [ok |-> TRUE, fs |-> fs]
Fail(fs) == [ok |-> FALSE, fs |-> fs]
NoData == [ok |-> FALSE, x |-> Plain(<<>>)]

(****************************** paths *****************************************)
(* Mutant: the component array takes one too many. *)
Component_Deep(acc, c) ==
    IF ~acc.ok \/ c = "." THEN acc
    ELSE IF c = ".." THEN [acc EXCEPT !.p = IF @ = <<>> THEN @ ELSE Front(@)]
    ELSE IF Len(acc.p) > MAXDEPTH THEN [acc EXCEPT !.ok = FALSE]
    ELSE [acc EXCEPT !.p = Append(@, c)]

(* One component: a name is pushed, ".." pops. *)
Component(acc, c) ==
    IF ~acc.ok \/ c = "." THEN acc
    ELSE IF c = ".." THEN [acc EXCEPT !.p = IF @ = <<>> THEN @ ELSE Front(@)]
    ELSE IF Len(acc.p) >= MAXDEPTH THEN [acc EXCEPT !.ok = FALSE]
    ELSE [acc EXCEPT !.p = Append(@, c)]

Walk(names) == FoldLeft(Component, [ok |-> TRUE, p |-> <<>>], names)

vfs_resolve(cwd, path) == Walk(IF path.abs THEN path.c ELSE cwd \o path.c)

under(prefix, p) == IsPrefix(prefix, p)

Routed(best, p) == [mount |-> best, sub |-> SubSeq(p, Len(best) + 1, Len(p))]
route(p) == Routed(CHOOSE m \in Mounts : under(m, p) /\ \A n \in Mounts : under(n, p) => Len(n) <= Len(m), p)

(****************************** entries ***************************************)
(* The place of a name among entries, 0 when it is not there. *)
Find(es, p) ==
    LET at == {i \in DOMAIN es : es[i].t # "unused" /\ es[i].p = p}
    IN  IF at = {} THEN 0 ELSE CHOOSE i \in at : TRUE

FirstFree(es) ==
    LET at == {i \in DOMAIN es : es[i].t = "unused"}
    IN  IF at = {} THEN 0 ELSE CHOOSE i \in at : \A j \in at : i <= j

DiskIsDir(disk, p) == p = <<>> \/ \E i \in DOMAIN disk : disk[i].p = p /\ disk[i].t = "dir"

(****************************** ramfs *****************************************)
ramfs_read_file(ram, p) ==
    LET i == Find(ram, p) IN IF p = <<>> \/ i = 0 THEN NoData ELSE [ok |-> TRUE, x |-> ram[i].x]

(* A new file takes the first free slot. *)
ramfs_write_file(fs, p, x) ==
    LET i == IF Find(fs.ram, p) # 0 THEN Find(fs.ram, p) ELSE FirstFree(fs.ram)
    IN  IF p = <<>> \/ i = 0 THEN Fail(fs) ELSE Ok([fs EXCEPT !.ram[i] = Entry(p, "file", x)])

ramfs_delete_file(fs, p) ==
    LET i == Find(fs.ram, p)
    IN  IF p = <<>> \/ i = 0 THEN Fail(fs) ELSE Ok([fs EXCEPT !.ram[i] = Unused])

Put(fs, p, r) == IF r.ok THEN ramfs_write_file(fs, p, r.x) ELSE Fail(fs)
ramfs_cp(fs, s, d) == Put(fs, d, ramfs_read_file(fs.ram, s))

ramfs_drop(r, s) == IF r.ok THEN ramfs_delete_file(r.fs, s) ELSE r
ramfs_mv(fs, s, d) == ramfs_drop(ramfs_cp(fs, s, d), s)

(****************************** the disk **************************************)
disk_read_file(disk, p) ==
    LET i == Find(disk, p)
    IN  IF i = 0 \/ DiskIsDir(disk, p) THEN NoData ELSE [ok |-> TRUE, x |-> disk[i].x]

disk_write_file(fs, p, x) ==
    LET i == Find(fs.disk, p)
    IN  IF DiskIsDir(fs.disk, p) \/ ~DiskIsDir(fs.disk, Front(p)) THEN Fail(fs)
        ELSE IF i # 0 THEN Ok([fs EXCEPT !.disk[i].x = x])
        ELSE Ok([fs EXCEPT !.disk = Append(@, Entry(p, "file", x))])

disk_remove(fs, p, kind) ==
    LET i == Find(fs.disk, p)
    IN  IF i = 0 \/ fs.disk[i].t # kind \/ (\E j \in DOMAIN fs.disk : IsStrictPrefix(p, fs.disk[j].p))
        THEN Fail(fs) ELSE Ok([fs EXCEPT !.disk = RemoveAt(@, i)])

disk_mkdir(fs, p) ==
    IF p = <<>> \/ Find(fs.disk, p) # 0 \/ ~DiskIsDir(fs.disk, Front(p)) THEN Fail(fs)
    ELSE Ok([fs EXCEPT !.disk = Append(@, Entry(p, "dir", Plain(<<>>)))])

(* read_file into a buffer of n bytes *)
Upto(x, n) == IF Len(x.d) <= n THEN x ELSE Plain(SubSeq(x.d, 1, n))

vop_cp(fs, s, d) ==
    LET r == disk_read_file(fs.disk, s)
    IN  IF r.ok THEN disk_write_file(fs, d, Upto(r.x, XBUF)) ELSE Fail(fs)

vop_drop(r, s) == IF r.ok THEN disk_remove(r.fs, s, "file") ELSE r
vop_mv(fs, s, d) == vop_drop(vop_cp(fs, s, d), s)

(****************************** dispatch **************************************)
(* The operations on an absolute path p. *)
IsDirOf(fs, r) == IF r.mount = Tmp THEN r.sub = <<>> ELSE DiskIsDir(fs.disk, r.sub)
IsDir(fs, p) == IsDirOf(fs, route(p))

vfs_list(fs, p) ==
    LET r == route(p)
    IN  IF r.mount = Tmp THEN SelectSeq(fs.ram, LAMBDA e : e.t # "unused")
        ELSE SelectSeq(fs.disk, LAMBDA e : Front(e.p) = r.sub)

ReadOf(fs, r) == IF r.mount = Tmp THEN ramfs_read_file(fs.ram, r.sub) ELSE disk_read_file(fs.disk, r.sub)
vfs_read_file(fs, p) == ReadOf(fs, route(p))

WriteOf(fs, r, x) == IF r.mount = Tmp THEN ramfs_write_file(fs, r.sub, x) ELSE disk_write_file(fs, r.sub, x)
vfs_write_file(fs, p, x) == WriteOf(fs, route(p), x)

vfs_delete_file(fs, p) ==
    LET r == route(p)
    IN  IF r.mount = Tmp THEN ramfs_delete_file(fs, r.sub) ELSE disk_remove(fs, r.sub, "file")

vfs_mkdir(fs, p) ==
    LET r == route(p) IN IF r.mount = Tmp THEN Fail(fs) ELSE disk_mkdir(fs, r.sub)

vfs_rmdir(fs, p) ==
    LET r == route(p) IN IF r.mount = Tmp THEN Fail(fs) ELSE disk_remove(fs, r.sub, "dir")

(* Within a mount its own cp; between mounts through a buffer. *)
Across(fs, d, r) == IF r.ok THEN vfs_write_file(fs, d, Upto(r.x, XBUF)) ELSE Fail(fs)
Within(fs, rs, rd) == IF rs.mount = Tmp THEN ramfs_cp(fs, rs.sub, rd.sub) ELSE vop_cp(fs, rs.sub, rd.sub)
vfs_cp(fs, s, d) ==
    IF route(s).mount = route(d).mount THEN Within(fs, route(s), route(d)) ELSE Across(fs, d, vfs_read_file(fs, s))

(* Mutant: the source goes although the copy failed. *)
vfs_mv_Blind(fs, s, d) == vfs_delete_file(vfs_cp(fs, s, d).fs, s)

vfs_drop(r, s) == IF r.ok THEN vfs_delete_file(r.fs, s) ELSE r
MvWithin(fs, rs, rd) == IF rs.mount = Tmp THEN ramfs_mv(fs, rs.sub, rd.sub) ELSE vop_mv(fs, rs.sub, rd.sub)
vfs_mv(fs, s, d) ==
    IF route(s).mount = route(d).mount THEN MvWithin(fs, route(s), route(d)) ELSE vfs_drop(vfs_cp(fs, s, d), s)

vfs_chdir(fs, p) == IF IsDir(fs, p) THEN Ok([fs EXCEPT !.cwd = p]) ELSE Fail(fs)

====
