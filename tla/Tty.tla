---- MODULE Tty ----
(* The console terminal as Linux programs see it: the keyboard's interrupt and its
   ring (src/src/keyboard.c), the line discipline (tty_read and its buffers, the
   terminal half of ioctl and poll in src/src/linux_syscall.c) and the signals that
   keys, kill() and the terminal's blocking calls exchange.

   A task runs until it calls yield() in a blocking call, so the part of a call
   between two yields is one step; the interrupt comes between any two steps, when
   some task, or the kernel's own (NoTask), is current.  A key stroke is a kind and
   a serial number; the bytes a program reads are <<serial, i, n>>, the i-th of the n
   bytes that the key expands to.  Scan codes and modifier keys are abstracted to the key
   strokes they make, echo and scrollback are left out.                          *)
EXTENDS Signal

CONSTANTS
    NoTask,     \* a kernel task is current
    Readers,    \* the tasks that read the terminal
    Waiters,    \* the tasks that wait for a child
    Counts,     \* sizes of a read
    Masks,      \* sets of signals given to rt_sigprocmask
    BUF_SIZE,   \* slots of the keyboard's ring, one of which stays empty
    LINE,       \* size of tty_line, one byte of which stays unused
    PUSH,       \* size of tty_push
    INJECT,     \* size of tty_inject_buf
    REPLY,      \* bytes of the answer to a cursor position request
    Limits      \* bounds of a behaviour: the kinds of keys and the modes it uses, the
                \* numbers of key strokes, terminal calls and signal calls,
                \* and the tasks that make the latter

VARIABLES
    tty,    \* the ring, c_lflag and the three byte buffers
    sig,    \* per task: its signals (module Signal)
    op,     \* per task: the call it is in
    got,    \* history: keyboard bytes handed out since the last change of mode
    ended,  \* history: serial of the last key that ended a line
    own,    \* history, per task: the mask it last asked for outside its handlers
    serial, \* keys buffered so far, those that send nothing apart
    limit,  \* one of Limits, what this behaviour is about
    keys, terms, sigs

vars == <<tty, sig, op, got, ended, own, serial, limit, keys, terms, sigs>>

NoByte == <<0, 0, 0>>

Blank == [kbd |-> <<>>, icanon |-> TRUE, isig |-> TRUE,
          line |-> [i \in 1..LINE |-> NoByte], len |-> 0, pos |-> 0,
          push |-> <<>>, ppos |-> 0, inject |-> <<>>, ipos |-> 0]

In(c, n) == [t |-> c, n |-> n]
User == In("user", 0)
Dead == In("dead", 0)

(* signal_raise makes a blocked task ready. *)
Woken(o, t) == IF o[t].t = "wait" THEN [o EXCEPT ![t] = In("woken", 0)] ELSE o

(****************************** the keyboard **********************************)
(* Mutant: a full ring takes the key. *)
push_char_Over(y, k) == [y EXCEPT !.kbd = Append(@, k)]

(* A full ring drops the key. *)
push_char(y, k) == IF Len(y.kbd) + 1 = BUF_SIZE THEN y ELSE [y EXCEPT !.kbd = Append(@, k)]

(* Ctrl-C raises SIGINT on the task that happens to be current, if that is a user
   task, and is not buffered.                                                    *)
keyboard_irq(kind, current) ==
    /\ keys < limit.keys
    /\ keys' = keys + 1
    /\ \/ /\ kind = "intr" /\ tty.isig
          /\ IF current = NoTask THEN UNCHANGED <<sig, op>>
             ELSE /\ sig' = [sig EXCEPT ![current] = signal_raise(@, LX_SIGINT)]
                  /\ op' = Woken(op, current)
          /\ UNCHANGED <<tty, serial>>
       \/ /\ kind = "intr" => ~tty.isig
          /\ tty' = push_char(tty, [kind |-> kind, id |-> serial + 1])
          /\ serial' = IF tty' = tty \/ kind = "scroll" THEN serial ELSE serial + 1
          /\ UNCHANGED <<sig, op>>
    /\ UNCHANGED <<got, ended, own, limit, terms, sigs>>

(****************************** reading ***************************************)
(* What a key sends in raw mode: an arrow an escape sequence, a scroll key nothing. *)
Expand(k) == CASE k.kind = "arrow"  -> [i \in 1..3 |-> <<k.id, i, 3>>]
               [] k.kind = "scroll" -> <<>>
               [] OTHER             -> <<<<k.id, 1, 1>>>>

Least(m, n) == IF m < n THEN m ELSE n

(* What a step of tty_read comes to: the terminal, the bytes copied to the program,
   and whether the call returned or waits for a key, and in which loop.           *)
Result(y, out, then) == [y |-> y, out |-> out, then |-> then]

Took(y) == [y EXCEPT !.kbd = Tail(@)]

Drained(y) == IF y.ppos >= Len(y.push) THEN [y EXCEPT !.push = <<>>, !.ppos = 0] ELSE y

(* Mutant: the left-over bytes wait for the next key. *)
raw_drain_Late(y, n) == Result(y, <<>>, "none")

(* Raw mode, 1: what a longer key left over. *)
raw_drain(y, n) ==
    LET m == Least(n, Len(y.push) - y.ppos)
    IN  Result(Drained([y EXCEPT !.ppos = @ + m]), SubSeq(y.push, y.ppos + 1, y.ppos + m),
               IF m > 0 THEN "return" ELSE "none")

(* A key's bytes: those that fit go to the program, the rest to tty_push. *)
Stash(y, rest) ==
    IF rest = <<>> /\ y.push = <<>> THEN y
    ELSE [y EXCEPT !.push = @ \o SubSeq(rest, 1, Least(Len(rest), PUSH - Len(@))), !.ppos = 0]

RECURSIVE raw_keys(_, _, _)
(* Raw mode, 2: the keys in the ring, until the read is full or the ring empty. *)
raw_keys(y, n, out) ==
    LET bytes == Expand(Head(y.kbd))
        fit   == Least(Len(bytes), n - Len(out))
        y1    == IF bytes = <<>> THEN Took(y)
                 ELSE Stash(Took(y), SubSeq(bytes, fit + 1, Len(bytes)))
        out1  == out \o SubSeq(bytes, 1, fit)
    IN  IF (bytes = <<>> \/ y1.push = <<>>) /\ Len(out1) < n /\ y1.kbd # <<>>
        THEN raw_keys(y1, n, out1)
        ELSE Result(y1, out1, IF out1 = <<>> THEN "again" ELSE "return")

(* Handing out tty_line: len - pos is unsigned. *)
hand_out(y, n) ==
    LET m == IF y.len >= y.pos THEN Least(n, y.len - y.pos) ELSE n
    IN  Result([y EXCEPT !.pos = @ + m],
               [i \in 1..m |-> IF y.pos + i <= LINE THEN y.line[y.pos + i] ELSE NoByte],
               "return")

RECURSIVE collect(_, _)
(* Canonical mode: keys are added to the line, edited, until it ends. *)
collect(y, n) ==
    IF y.kbd = <<>> THEN Result(y, <<>>, "canon")
    ELSE LET k  == Head(y.kbd)
             y1 == Took(y)
             y2 == IF y.len < LINE - 1
                   THEN [y1 EXCEPT !.line[y.len + 1] = <<k.id, 1, 1>>, !.len = @ + 1] ELSE y1
         IN  CASE k.kind = "erase" -> collect([y1 EXCEPT !.len = IF @ > 0 THEN @ - 1 ELSE 0], n)
               [] k.kind = "eof"   -> IF y.len = 0 THEN Result(y1, <<>>, "return")
                                                   ELSE hand_out(y1, n)
               [] k.kind \in {"arrow", "scroll"} -> collect(y1, n)
               [] k.kind = "newline" -> hand_out(y2, n)
               [] OTHER -> collect(y2, n)

RECURSIVE raw(_, _), tty_read(_, _)
(* Raw mode from the point where it blocks for a key. *)
raw(y, n) ==
    IF y.kbd = <<>> THEN Result(y, <<>>, "raw")
    ELSE LET r == raw_keys(y, n, <<>>) IN IF r.then = "again" THEN tty_read(r.y, n) ELSE r

(* A read from the start: the kernel's own answers first. *)
tty_read(y, n) ==
    IF y.ipos < Len(y.inject)
    THEN LET m == Least(n, Len(y.inject) - y.ipos)
             p == y.ipos + m
         IN  Result([y EXCEPT !.ipos = IF p = Len(y.inject) THEN 0 ELSE p,
                              !.inject = IF p = Len(y.inject) THEN <<>> ELSE @],
                    SubSeq(y.inject, y.ipos + 1, p), "return")
    ELSE IF ~y.icanon
    THEN LET r == raw_drain(y, n) IN IF r.then = "return" THEN r ELSE raw(r.y, n)
    ELSE IF y.pos >= y.len THEN collect([y EXCEPT !.len = 0, !.pos = 0], n)
    ELSE hand_out(y, n)

(* tty_getc_blocking found no key: a signal ends the read with EINTR, and a line
   half typed is dropped.                                                        *)
interrupted(y, loop) == IF loop = "canon" THEN [y EXCEPT !.len = 0, !.pos = 0] ELSE y

Keyboard(bytes) == SelectSeq(bytes, LAMBDA b : b[1] > 0)

(* The end of a system call: frame->rax is set and deliver_signals runs. *)
Finish(t, s) ==
    \E d \in {deliver_signals(s)} :
        /\ sig' = [sig EXCEPT ![t] = d]
        /\ op' = [op EXCEPT ![t] = IF d.alive = 1 THEN User ELSE Dead]

(* Mutant: waiting for a key, the task does not look for signals. *)
Block_Deaf(t, r, n) ==
    /\ tty' = r.y
    /\ op' = [op EXCEPT ![t] = In(r.then, n)]
    /\ UNCHANGED sig

(* No key: tty_getc_blocking gives up for a signal, or yields. *)
Block(t, r, n) ==
    IF signal_ready(sig[t]) THEN tty' = interrupted(r.y, r.then) /\ Finish(t, sig[t])
    ELSE /\ tty' = r.y
         /\ op' = [op EXCEPT ![t] = In(r.then, n)]
         /\ UNCHANGED sig

Consumed(y1) == IF Len(y1.kbd) < Len(tty.kbd) THEN tty.kbd[Len(tty.kbd) - Len(y1.kbd)].id ELSE ended

Apply(t, r, n) ==
    /\ \/ r.then \in {"raw", "canon"} /\ Block(t, r, n) /\ UNCHANGED <<got, ended>>
       \/ /\ r.then = "return"
          /\ tty' = r.y
          /\ got' = got \o Keyboard(r.out)
          /\ ended' = Consumed(r.y)
          /\ Finish(t, sig[t])
    /\ UNCHANGED <<own, serial, keys>>

sys_linux_read(t, n) == \E r \in {tty_read(tty, n)} : Apply(t, r, n)

(* The reader is scheduled again, inside the loop it blocked in. *)
getc_resumes(t) ==
    /\ op[t].t \in {"raw", "canon"}
    /\ \E r \in {IF op[t].t = "raw" THEN raw(tty, op[t].n) ELSE collect(tty, op[t].n)} :
           Apply(t, r, op[t].n)
    /\ UNCHANGED <<limit, terms, sigs>>

(****************************** other calls ***********************************)
tty_input_ready == \/ tty.ipos < Len(tty.inject) \/ tty.ppos < Len(tty.push)
                   \/ tty.pos < tty.len          \/ tty.kbd # <<>>

(* One round of poll() on the terminal; timeout 0, 1 (some time) or 2 (for ever). *)
PollRound(t, timeout) ==
    IF tty_input_ready \/ timeout = 0 \/ signal_ready(sig[t]) THEN Finish(t, sig[t])
    ELSE op' = [op EXCEPT ![t] = In("poll", timeout)] /\ UNCHANGED sig

poll(t, timeout) ==
    /\ PollRound(t, timeout)
    /\ UNCHANGED <<tty, got, ended, own, serial, keys>>

poll_resumes(t) ==
    /\ op[t].t = "poll"
    /\ PollRound(t, op[t].n) \/ (op[t].n = 1 /\ Finish(t, sig[t]))
    /\ UNCHANGED <<tty, got, ended, own, serial, keys, limit, terms, sigs>>

(* TCSETS, TCSETSW and, with flush, TCSETSF *)
sys_linux_ioctl(t, icanon, isig, flush) ==
    /\ LET y == [tty EXCEPT !.icanon = icanon, !.isig = isig]
       IN  tty' = IF flush THEN [y EXCEPT !.len = 0, !.pos = 0] ELSE y
    /\ got' = IF icanon = tty.icanon THEN got ELSE <<>>
    /\ Finish(t, sig[t])
    /\ UNCHANGED <<ended, own, serial, keys>>

(* Writing ESC[6n: the position goes to tty_inject_buf as far as it fits. *)
tty_inject(t) ==
    /\ LET room == INJECT - Len(tty.inject)
       IN  tty' = [tty EXCEPT !.inject = @ \o [i \in 1..Least(room, REPLY) |-> <<0, i, REPLY>>]]
    /\ Finish(t, sig[t])
    /\ UNCHANGED <<got, ended, own, serial, keys>>

sys_linux_kill(t, u, s) ==
    /\ op[u] # Dead
    /\ IF u = t THEN Finish(t, signal_raise(sig[t], s))
       ELSE \E d \in {deliver_signals(sig[t])} :
              /\ sig' = [sig EXCEPT ![t] = d, ![u] = signal_raise(@, s)]
              /\ op' = Woken([op EXCEPT ![t] = IF d.alive = 1 THEN User ELSE Dead], u)
    /\ UNCHANGED <<tty, got, ended, own, serial, keys>>

sys_linux_rt_sigaction(t, s, act) ==
    /\ Finish(t, rt_sigaction(sig[t], s, act))
    /\ UNCHANGED <<tty, got, ended, own, serial, keys>>

sys_linux_rt_sigprocmask(t, how, m) ==
    /\ \E s \in {rt_sigprocmask(sig[t], how, m)} :
          /\ Finish(t, s)
          /\ own' = IF sig[t].frames = <<>> THEN [own EXCEPT ![t] = s.blocked] ELSE own
    /\ UNCHANGED <<tty, got, ended, serial, keys>>

(* Any other call of the program: it ends by taking a signal.  The return from a
   handler is one.                                                               *)
other_call(t) ==
    /\ op[t] = User
    /\ \/ Finish(t, sig[t])
       \/ sig[t].frames # <<>> /\ Finish(t, rt_sigreturn(sig[t]))
    /\ UNCHANGED <<tty, got, ended, own, serial, keys, limit, terms, sigs>>

(* wait4 with a child that runs: the task blocks; woken by a signal, it finds no
   dead child and blocks again.                                                  *)
sys_linux_wait4(t) ==
    /\ t \in Waiters
    /\ op' = [op EXCEPT ![t] = In("wait", 0)]
    /\ UNCHANGED <<tty, sig, got, ended, own, serial, keys>>

wait_resumes(t) ==
    /\ op[t].t = "woken"
    /\ op' = [op EXCEPT ![t] = In("wait", 0)]
    /\ UNCHANGED <<tty, sig, got, ended, own, serial, keys, limit, terms, sigs>>

(* The child exits and wait4 returns it. *)
child_exits(t) ==
    /\ op[t].t \in {"wait", "woken"}
    /\ Finish(t, sig[t])
    /\ UNCHANGED <<tty, got, ended, own, serial, keys, limit, terms, sigs>>

(* A new program in the place of a dead one: task_create clears its signals. *)
task_create(t) ==
    /\ op[t] = Dead
    /\ sig' = [sig EXCEPT ![t] = NoSignals]
    /\ op' = [op EXCEPT ![t] = User]
    /\ own' = [own EXCEPT ![t] = {}]
    /\ UNCHANGED <<tty, got, ended, serial, keys, limit, terms, sigs>>

Init ==
    /\ tty = Blank
    /\ sig = [t \in Tasks |-> NoSignals]
    /\ op = [t \in Tasks |-> User]
    /\ got = <<>> /\ ended = 0 /\ own = [t \in Tasks |-> {}]
    /\ limit \in Limits
    /\ serial = 0 /\ keys = 0 /\ terms = 0 /\ sigs = 0

(* A program in user mode makes a call: one about the terminal, or one about signals. *)
TermCall(t) ==
    /\ t \in Readers /\ op[t] = User /\ terms < limit.terms
    /\ terms' = terms + 1 /\ UNCHANGED <<limit, sigs>>
    /\ \/ \E n \in Counts : sys_linux_read(t, n)
       \/ \E n \in 0..2 : poll(t, n)
       \/ \E m \in limit.modes, f \in BOOLEAN : sys_linux_ioctl(t, m[1], m[2], f)
       \/ tty_inject(t)

SigCall(t) ==
    /\ t \in limit.who /\ op[t] = User /\ sigs < limit.sigs
    /\ sigs' = sigs + 1 /\ UNCHANGED <<limit, terms>>
    /\ \/ \E u \in Tasks, s \in Signals : sys_linux_kill(t, u, s)
       \/ \E s \in Signals, a \in {"fn", "ign", "dfl"} : sys_linux_rt_sigaction(t, s, a)
       \/ \E h \in {"block", "unblock", "set"}, m \in Masks : sys_linux_rt_sigprocmask(t, h, m)
       \/ sys_linux_wait4(t)

Next ==
    \/ \E k \in limit.kinds, c \in {t \in Tasks : op[t] # Dead} \cup {NoTask} : keyboard_irq(k, c)
    \/ \E t \in Tasks :
        \/ TermCall(t)
        \/ SigCall(t)
        \/ getc_resumes(t)
        \/ poll_resumes(t)
        \/ other_call(t)
        \/ wait_resumes(t)
        \/ child_exits(t)
        \/ task_create(t)

(* The round-robin scheduler comes back to every task, and a program in user mode
   goes on to make system calls.                                                 *)
Fairness == \A t \in Tasks : /\ WF_vars(getc_resumes(t)) /\ WF_vars(poll_resumes(t))
                             /\ WF_vars(other_call(t))   /\ WF_vars(wait_resumes(t))

Spec == Init /\ [][Next]_vars /\ Fairness

(****************************** properties ************************************)
Bytes == (0..limit.keys) \X (0..3) \X (0..3)

(* The state has its type: the ring and the three buffers stay within their arrays,
   and no position in a buffer runs past its end.                                *)
TypeOK ==
    /\ Len(tty.kbd) < BUF_SIZE
    /\ tty.line \in [1..LINE -> Bytes] /\ tty.len \in 0..LINE - 1 /\ tty.pos \in 0..tty.len
    /\ Len(tty.push) <= PUSH /\ tty.ppos \in 0..Len(tty.push)
    /\ Len(tty.inject) <= INJECT /\ tty.ipos \in 0..Len(tty.inject)
    /\ \A t \in Tasks : /\ sig[t].pending \subseteq Signals /\ sig[t].blocked \subseteq Signals
                        /\ sig[t].fn \subseteq Signals \ sig[t].ign
                        /\ op[t].t \in {"user", "raw", "canon", "poll", "wait", "woken", "dead"}

(* What programs read is what was typed: in the order of the keys, no byte twice,
   each escape sequence whole and unbroken however small the reads are and, in raw
   mode, no buffered key left out, whatever signals interrupt (tty_read's three
   loops over tty_push, tty_line and the keyboard's ring).  In canonical mode these
   are bytes of a finished line only: "a whole line is collected (with echo and
   backspace) before read() returns".                                            *)
KeysInOrder ==
    /\ \A i \in 2..Len(got) :
          LET b == got[i - 1]
              c == got[i]
          IN  \/ c[1] = b[1] /\ c[2] = b[2] + 1
              \/ /\ b[2] = b[3] /\ c[2] = 1
                 /\ IF tty.icanon THEN c[1] > b[1] ELSE c[1] = b[1] + 1
    /\ tty.icanon => \A i \in DOMAIN got : got[i][1] <= ended

(* Outside its handlers a task has the signal mask that it last asked for, however
   handlers were nested and whatever they did to the mask (deliver_signals saves
   it, rt_sigreturn restores it); the two uncatchable signals are never in it.    *)
MaskKept ==
    \A t \in Tasks : /\ sig[t].frames = <<>> => sig[t].blocked = own[t]
                    /\ sig[t].blocked \cap Uncatchable = {}

(* Signals that a task does not block are taken, also while the task is in a call that
   waits for the terminal (tty_getc_blocking and poll end with EINTR); it is set
   apart while it waits for a child.                                             *)
SignalTaken ==
    \A t \in Tasks :
        (signal_ready(sig[t]) /\ op[t].t \notin {"wait", "woken"})
            ~> (~signal_ready(sig[t]) \/ op[t].t \in {"wait", "dead"})
====
