---- MODULE Files ----
(* Regular files of Linux programs (src/src/linux_syscall.c).  The file systems only
   read and write whole files by name, so a descriptor keeps the file's path, a size
   and, once the program has written, a buffer with the whole content; fsync and
   close write it out.  Symbolic links are marker files that open follows.

   Here one process works with files that are not open twice and are not renamed,
   removed or written by name while open; module Fdt has what fork and dup do.
   `content` is what the calls put in each file, with no buffers and no mounts; a
   byte that comes from memory nobody has written is Junk.                       *)
EXTENDS Vfs, FiniteSets

CONSTANTS
    FDs,        \* descriptors
    Paths,      \* paths programs give
    Chunks,     \* byte sequences they write
    Offsets,    \* positions and lengths they give
    MINCAP,     \* least size of a write buffer (4096)
    MAXCALLS    \* bound: system calls

VARIABLES
    fs,         \* the file systems (module Vfs)
    fd,         \* the descriptors
    content,    \* history: contents of the files by absolute path
    unsure,     \* history: files whose buffer got bytes nobody wrote
    dirty,      \* history: files written since they were last fsynced or closed
    calls

vars == <<fs, fd, content, unsure, dirty, calls>>

Junk == 0 - 1
NUL == 0

NoBuf == <<>>
Closed == [path |-> <<>>, off |-> 0, size |-> 0, wbuf |-> NoBuf, t |-> "closed"]

Resolved(p) == vfs_resolve(fs.cwd, p)
IsOpen(p) == \E f \in FDs : fd[f].t # "closed" /\ fd[f].path = p

Least(m, n) == IF m < n THEN m ELSE n

(* The first n bytes of memory that holds b. *)
Bytes(b, n) == [i \in 1..n |-> IF i <= Len(b) THEN b[i] ELSE Junk]

(* b with the bytes of c from offset o *)
Over(b, o, c) == [i \in 1..Len(b) |-> IF i \in o + 1 .. o + Len(c) THEN c[i - o] ELSE b[i]]

(****************************** names *****************************************)
(* Size from the parent's listing, of which only the first LISTMAX entries are
   seen; -1 when it is not among them.                                           *)
SizeOf(es, sub) ==
    LET at == {i \in 1..Least(LISTMAX, Len(es)) : es[i].p = sub}
    IN  IF at = {} THEN 0 - 1 ELSE Len(es[CHOOSE i \in at : TRUE].x.d)
get_file_size(s, p) ==
    IF p = <<>> \/ ~IsDir(s, Front(p)) THEN 0 - 1 ELSE SizeOf(vfs_list(s, Front(p)), route(p).sub)

TargetOf(r) == IF r.ok THEN r.x.l ELSE NoLink
symlink_read_target(s, p) == TargetOf(vfs_read_file(s, p))

RECURSIVE follow(_, _, _)
RECURSIVE Onto(_, _, _)
Onto(s, next, depth) == IF next.ok THEN follow(s, next.p, depth + 1) ELSE next.p
follow(s, p, depth) ==
    LET target == symlink_read_target(s, p)
    IN  IF depth = LINKDEPTH \/ target = NoLink THEN p
        ELSE Onto(s, vfs_resolve(IF target.abs THEN <<>> ELSE Front(p), target), depth)

follow_symlinks(s, p) == follow(s, p, 0)

(****************************** descriptors ***********************************)
(* What the program would read from the start to the end of its file. *)
OnDisk(r, n) == IF r.ok THEN SubSeq(r.x.d, 1, Least(n, Len(r.x.d))) ELSE <<>>
View(f) == IF f.wbuf # NoBuf THEN Bytes(f.wbuf, f.size) ELSE OnDisk(vfs_read_file(fs, f.path), f.size)

(* Mutant: the file's old content is not loaded into the new buffer. *)
Grown_Blank(f, need) ==
    IF need <= Len(f.wbuf) THEN f
    ELSE [f EXCEPT !.wbuf = Bytes(Bytes(@, Least(f.size, Len(@))), need * 2)]

(* The write buffer, grown to hold `need` bytes: the old content is kept or, at the
   first write, loaded; the rest is memory from kmalloc.  Old bytes that do not fit
   go to the memory behind the buffer.                                            *)
Grown(f, need) ==
    IF need <= Len(f.wbuf) THEN f
    ELSE LET cap == IF need * 2 < MINCAP THEN MINCAP ELSE need * 2
             old == IF f.wbuf # NoBuf THEN Bytes(f.wbuf, f.size)
                    ELSE IF f.size > 0 THEN vfs_read_file(fs, f.path).x.d ELSE <<>>
         IN  [f EXCEPT !.wbuf = Bytes(Bytes(old, Least(f.size, cap)), cap)]

Written(f, o, c) ==
    LET g == Grown(f, o + Len(c))
    IN  [g EXCEPT !.wbuf = Over(@, o, c), !.off = o + Len(c),
                  !.size = IF o + Len(c) > @ THEN o + Len(c) ELSE @]

(* What closing or fsync writes out: nothing of an empty file. *)
fd_flush(s, f) ==
    IF f.wbuf # NoBuf /\ f.size > 0 THEN vfs_write_file(s, f.path, Plain(Bytes(f.wbuf, f.size))).fs ELSE s

(****************************** the program's view ****************************)
Without(m, p) == [q \in DOMAIN m \ {p} |-> m[q]]
With(m, p, x) == [q \in DOMAIN m \cup {p} |-> IF q = p THEN x ELSE m[q]]

(* c at offset o; a hole is zeros. *)
Poke(d, o, c) ==
    [i \in 1..(IF o + Len(c) > Len(d) THEN o + Len(c) ELSE Len(d)) |->
        IF i \in o + 1 .. o + Len(c) THEN c[i - o] ELSE IF i <= Len(d) THEN d[i] ELSE NUL]

Cut(d, n) == [i \in 1..n |-> IF i <= Len(d) THEN d[i] ELSE NUL]

(****************************** system calls **********************************)
Calling == calls < MAXCALLS /\ calls' = calls + 1

Opened(path, dir, size) ==
    [path |-> path, off |-> 0, size |-> size, wbuf |-> NoBuf, t |-> IF dir THEN "dir" ELSE "file"]

(* A file that open() creates has one NUL byte until something is written out. *)
Create(path, new) == IF new THEN vfs_write_file(fs, path, Plain(<<NUL>>)) ELSE Ok(fs)
Trunc(s, path, trunc) == IF trunc THEN vfs_write_file(s, path, Plain(<<>>)).fs ELSE s

OpenAs(f, path, dir, size) == fd' = [fd EXCEPT ![f] = Opened(path, dir, size)]

OpenWrite(f, path, sz, made, new, trunc) ==
    /\ made.ok
    /\ fs' = Trunc(made.fs, path, trunc)
    /\ OpenAs(f, path, FALSE, IF trunc \/ new THEN 0 ELSE sz)
    /\ content' = IF trunc \/ path \notin DOMAIN content THEN With(content, path, Plain(<<>>)) ELSE content
    /\ unsure' = IF trunc THEN unsure \ {path} ELSE unsure
    /\ dirty' = IF trunc THEN dirty \ {path} ELSE IF new THEN dirty \cup {path} ELSE dirty

OpenFile(f, path, sz, write, creat, trunc) ==
    \/ /\ ~write /\ ~creat /\ sz >= 0
       /\ OpenAs(f, path, FALSE, sz)
       /\ UNCHANGED <<fs, content, unsure, dirty>>
    \/ /\ write \/ creat
       /\ sz >= 0 \/ creat
       /\ OpenWrite(f, path, sz, Create(path, sz < 0), sz < 0, trunc)

sys_linux_open(f, p, write, creat, trunc) ==
    /\ Calling /\ fd[f].t = "closed"
    /\ Resolved(p).ok
    /\ \E path \in {follow_symlinks(fs, Resolved(p).p)} :
        /\ ~IsOpen(path)
        /\ symlink_read_target(fs, path) = NoLink    \* not a chain longer than LINKDEPTH
        /\ \/ IsDir(fs, path) /\ OpenAs(f, path, TRUE, 0) /\ UNCHANGED <<fs, content, unsure, dirty>>
           \/ ~IsDir(fs, path) /\ \E sz \in {get_file_size(fs, path)} : OpenFile(f, path, sz, write, creat, trunc)

(* The call reads and moves the position; what it returns is part of View. *)
sys_linux_read(f, n) ==
    /\ Calling /\ fd[f].t = "file" /\ fd[f].off < Len(View(fd[f]))
    /\ fd' = [fd EXCEPT ![f].off = @ + Least(n, Len(View(fd[f])) - @)]
    /\ UNCHANGED <<fs, content, unsure, dirty>>

(* sys_linux_write at the position and sys_linux_pwrite at another, which puts the
   position back.                                                                *)
Write(f, o, c, off) ==
    /\ fd[f].t = "file"
    /\ fd' = [fd EXCEPT ![f] = [Written(@, o, c) EXCEPT !.off = off]]
    /\ content' = [content EXCEPT ![fd[f].path] = Plain(Poke(@.d, o, c))]
    /\ unsure' = IF o > fd[f].size \/ fd'[f].size > Len(fd'[f].wbuf) THEN unsure \cup {fd[f].path} ELSE unsure
    /\ dirty' = dirty \cup {fd[f].path}
    /\ UNCHANGED fs

sys_linux_write(f, c) == Calling /\ Write(f, fd[f].off, c, fd[f].off + Len(c))

sys_linux_pwrite(f, c, o) == Calling /\ Write(f, o, c, fd[f].off)

(* From the start, the position or the end of the file *)
sys_linux_lseek(f, o) ==
    /\ Calling /\ fd[f].t # "closed"
    /\ \E base \in {0, fd[f].off, fd[f].size} :
        /\ base + o >= 0
        /\ fd' = [fd EXCEPT ![f].off = base + o]
    /\ UNCHANGED <<fs, content, unsure, dirty>>

(* The file on disk is cut or extended at once; a write buffer keeps its bytes and
   only the size changes.  fallocate is this when it makes the file longer.       *)
sys_linux_ftruncate(f, n) ==
    /\ Calling /\ fd[f].t = "file"
    /\ LET old == vfs_read_file(fs, fd[f].path).x.d
       IN  fs' = vfs_write_file(fs, fd[f].path, Plain(Cut(Bytes(old, fd[f].size), n))).fs
    /\ fd' = [fd EXCEPT ![f].size = n]
    /\ content' = [content EXCEPT ![fd[f].path] = Plain(Cut(@.d, n))]
    /\ unsure' = IF fd[f].wbuf # NoBuf /\ n > fd[f].size THEN unsure \cup {fd[f].path} ELSE unsure
    /\ dirty' = IF fd[f].wbuf = NoBuf \/ n = 0 THEN dirty \ {fd[f].path} ELSE dirty

sys_linux_fsync(f) ==
    /\ Calling /\ fd[f].t = "file"
    /\ fs' = fd_flush(fs, fd[f])
    /\ dirty' = IF fd[f].size > 0 THEN dirty \ {fd[f].path} ELSE dirty
    /\ UNCHANGED <<fd, content, unsure>>

(* A created file that stayed empty keeps its NUL byte. *)
sys_linux_close(f) ==
    /\ fd[f].t # "closed"
    /\ fs' = fd_flush(fs, fd[f])
    /\ fd' = [fd EXCEPT ![f] = Closed]
    /\ content' = IF fd[f].t = "file" /\ fd[f].size = 0 /\ vfs_read_file(fs, fd[f].path).x = Plain(<<NUL>>)
                THEN With(content, fd[f].path, Plain(<<NUL>>)) ELSE content
    /\ dirty' = dirty \ {fd[f].path}
    /\ UNCHANGED <<unsure, calls>>

(* A call that names files: none of them is open. *)
ByName(ps, r, after) ==
    /\ Calling
    /\ \A p \in ps : Resolved(p).ok /\ ~IsOpen(Resolved(p).p)
    /\ fs' = r.fs
    /\ content' = IF r.ok THEN after ELSE content
    /\ UNCHANGED <<fd, unsure, dirty>>

(* A call that makes one file of another. *)
CopiedTo(from, to) == With(content, to, content[from])
MovedTo(from, to) == With(Without(content, from), to, content[from])
TwoNames(p, q, Do(_, _, _), After(_, _)) ==
    /\ calls < MAXCALLS
    /\ \E from \in {Resolved(p).p}, to \in {Resolved(q).p} :
        /\ from # to /\ from \notin unsure
        /\ ByName({p, q}, Do(fs, from, to), After(from, to))

(* rename copies the file and removes the old name; link only copies. *)
Copied(s, from, to) ==
    LET r == vfs_read_file(s, from) IN IF get_file_size(s, from) >= 0 /\ r.ok THEN vfs_write_file(s, to, r.x) ELSE Fail(s)
Dropped(r, from) == IF r.ok THEN Ok(vfs_delete_file(r.fs, from).fs) ELSE r
Renamed(s, from, to) == Dropped(Copied(s, from, to), from)

sys_linux_rename(p, q) == TwoNames(p, q, Renamed, MovedTo)
sys_linux_link(p, q) == TwoNames(p, q, Copied, CopiedTo)

sys_linux_unlink(p) ==
    ByName({p}, vfs_delete_file(fs, Resolved(p).p), Without(content, Resolved(p).p))

(* truncate(path, 0); another length does nothing. *)
sys_linux_truncate(p) ==
    ByName({p}, vfs_write_file(fs, Resolved(p).p, Plain(<<>>)), With(content, Resolved(p).p, Plain(<<>>)))

symlink_create(target, p) ==
    ByName({p}, vfs_write_file(fs, Resolved(p).p, Marker(target)), With(content, Resolved(p).p, Marker(target)))

sys_linux_mkdir(p) == ByName({p}, vfs_mkdir(fs, Resolved(p).p), content)

sys_linux_rmdir(p) == ByName({p}, vfs_rmdir(fs, Resolved(p).p), content)

sys_linux_chdir(p) == ByName({}, vfs_chdir(fs, Resolved(p).p), content) /\ Resolved(p).ok

(* The shell's cp and mv *)
cmd_cp(p, q) == TwoNames(p, q, vfs_cp, CopiedTo)

cmd_mv(p, q) == TwoNames(p, q, vfs_mv, MovedTo)

(* The file systems after vfs_init and ramfs_init *)
Booted(disk) == [disk |-> disk, ram |-> [i \in 1..RAMFS_MAX_FILES |-> Unused], cwd |-> <<>>]

FilesOf(s) ==
    {s.disk[i].p : i \in {j \in DOMAIN s.disk : s.disk[j].t = "file"}}
    \cup {Tmp \o s.ram[i].p : i \in {j \in DOMAIN s.ram : s.ram[j] # Unused}}

(* Power off at any moment: buffers, descriptors and /tmp are gone. *)
reboot ==
    /\ fs' = Booted(fs.disk)
    /\ fd' = [f \in FDs |-> Closed]
    /\ content' = [p \in FilesOf(fs') |-> vfs_read_file(fs', p).x]
    /\ dirty' = {}
    /\ UNCHANGED <<unsure, calls>>

Init ==
    /\ fs = Booted(<<>>)
    /\ fd = [f \in FDs |-> Closed]
    /\ content = [p \in {} |-> Plain(<<>>)] /\ unsure = {} /\ dirty = {} /\ calls = 0

Next ==
    \/ \E f \in FDs :
        \/ \E p \in Paths, w, c, t \in BOOLEAN : sys_linux_open(f, p, w, c, t)
        \/ \E n \in Offsets \ {0} : sys_linux_read(f, n)
        \/ \E c \in Chunks : sys_linux_write(f, c)
        \/ \E c \in Chunks, o \in Offsets : sys_linux_pwrite(f, c, o)
        \/ \E o \in Offsets : sys_linux_ftruncate(f, o)
        \/ \E o \in {0 - 1} \cup Offsets : sys_linux_lseek(f, o)
        \/ sys_linux_fsync(f)
        \/ sys_linux_close(f)
    \/ \E p \in Paths :
        \/ \E q \in Paths : \/ sys_linux_rename(p, q) \/ sys_linux_link(p, q) \/ symlink_create(p, q)
                            \/ cmd_cp(p, q) \/ cmd_mv(p, q)
        \/ sys_linux_unlink(p) \/ sys_linux_truncate(p)
        \/ sys_linux_mkdir(p) \/ sys_linux_rmdir(p) \/ sys_linux_chdir(p)
    \/ reboot

Spec == Init /\ [][Next]_vars

(****************************** properties ************************************)
(* Type correctness. *)
TypeOK ==
    /\ \A f \in FDs : fd[f].t \in {"closed", "dir", "file"} /\ fd[f].off \in Nat /\ fd[f].size \in Nat
    /\ Len(fs.ram) = RAMFS_MAX_FILES /\ Len(fs.cwd) <= MAXDEPTH
    /\ \A i, j \in DOMAIN fs.disk : fs.disk[i].p = fs.disk[j].p => i = j
    /\ \A i, j \in DOMAIN fs.ram : fs.ram[i] # Unused /\ fs.ram[i].p = fs.ram[j].p => i = j

(* A program reads through its descriptor what the calls put in the file, with its
   writes still in the buffer ("the on-disk copy is stale until close/fsync flushes
   it", sys_linux_read) and after truncations, seeks and flushes in any order.    *)
ReadsBack ==
    \A f \in FDs : fd[f].t = "file" /\ fd[f].path \notin unsure => View(fd[f]) = content[fd[f].path].d

(* What was closed or fsynced, and not written since, is in the file system under its
   name; no file is lost and none appears that no call made, whatever links, renames
   and copies within and between mounts did.                                     *)
Durable ==
    /\ FilesOf(fs) = DOMAIN content
    /\ \A p \in DOMAIN content \ (unsure \cup dirty) : vfs_read_file(fs, p).x = content[p]

(* The components of s that no later ".." takes back. *)
Reference(s) ==
    LET dots(i, j)  == Cardinality({k \in i..j : s[k] = ".."})
        names(i, j) == Cardinality({k \in i..j : s[k] \notin {".", ".."}})
        kept == {i \in DOMAIN s : /\ s[i] \notin {".", ".."}
                                  /\ \A j \in i + 1 .. Len(s) : dots(i + 1, j) <= names(i + 1, j)}
    IN  [k \in 1..Cardinality(kept) |-> s[SetToSortSeq(kept, <)[k]]]

(* vfs_resolve, which goes through the components once with a stack of 64 starts,
   gives from every working directory the path that "." and ".." mean, and refuses
   exactly the names that go deeper on their way.                                *)
ResolveRight ==
    \A p \in Paths :
        LET s    == IF p.abs THEN p.c ELSE fs.cwd \o p.c
            fits == \A n \in 0..Len(s) : Len(Reference(SubSeq(s, 1, n))) <= MAXDEPTH
            r    == vfs_resolve(fs.cwd, p)
        IN  r.ok = fits /\ (fits => r.p = Reference(s))

====
