-------------------------------- MODULE Task --------------------------------
(***************************************************************************)
(* The scheduler, process exit and waitpid of src/task.c, with the code    *)
(* that creates tasks (src/loader.c) and the shell command that runs a     *)
(* program and waits for it (src/shell.c).                                 *)
(*                                                                         *)
(* A task is known by the address of its task_t.  Only the current task    *)
(* executes; a step is the code between two points at which interrupts are *)
(* on, so that the timer can switch tasks between any two steps once       *)
(* preemption is on.  An address is free again after reap_zombies, and     *)
(* kmalloc may hand it out again.  A freed task_t keeps its contents until *)
(* then.                                                                   *)
(***************************************************************************)
EXTENDS Naturals, Sequences, FiniteSets

CONSTANTS
    Addr,       \* addresses of task_t structures
    kmain,      \* the task of tasking_init, which runs the shell
    NULL,
    MAXID,      \* bound on task ids
    Preempt     \* whether `preempt on` was typed

ASSUME TaskAssumption ==
    /\ kmain \in Addr
    /\ NULL \notin Addr
    /\ MAXID \in Nat
    /\ Preempt \in BOOLEAN

VARIABLES
    ready,              \* the ring, from the task that `ready` points to
    zombie,             \* the list of exited tasks
    current,
    next_id,
    heap,               \* the allocated task_t structures
    id, state, parent,  \* fields of task_t
    is_user, wait_any, reaped_by_parent,    \* flags of task_t: the tasks that have them set
    pc,                 \* per task: where its kernel code is
    arg,                \* per task: the child's id or waitpid's argument there
    pending,            \* tasks with a signal pending
    kids,               \* history: per task id, the ids of the children it made
    adopted,            \* history: the ids of children that were told their parent
    collected,          \* history: the ids that waitpid has returned
    result              \* history: what was wrong with the last result of waitpid

hist == <<kids, adopted, collected, result>>
vars == <<ready, zombie, current, next_id, heap, id, state, parent, is_user, wait_any,
          reaped_by_parent, pc, arg, pending, hist>>

Elems(s) == {s[k] : k \in 1..Len(s)}
Runnable == {a \in Addr : state[a] \in {"READY", "RUNNING"}}

-----------------------------------------------------------------------------
(* The ring, and the position of t in it. *)

At(r, t) == CHOOSE k \in 1..Len(r) : r[k] = t

ready_insert(r, t) == IF r = <<>> THEN <<t>> ELSE <<Head(r), t>> \o Tail(r)
(* Mutant: the task stays in the ring. *)
ready_remove_Nothing(r, t) == r

ready_remove(r, t) == [k \in 1..Len(r) - 1 |-> IF k < At(r, t) THEN r[k] ELSE r[k + 1]]

(* The tasks from position p on, once around. *)
Around(r, p) == [k \in 1..Len(r) |-> r[((p + k - 2) % Len(r)) + 1]]

FirstIn(s, S) == s[CHOOSE k \in 1..Len(s) : s[k] \in S /\ \A j \in 1..k-1 : s[j] \notin S]

(* The next task that can run; the task itself when there is no other. *)
pick_next(from) ==
    LET others == Tail(Around(ready, At(ready, from))) IN
    IF Elems(others) \cap Runnable = {} THEN from ELSE FirstIn(others, Runnable)

task_find_by_id(n) ==
    IF \E a \in Elems(ready) : id[a] = n THEN CHOOSE a \in Elems(ready) : id[a] = n ELSE NULL

(* Mutant: the task that is left keeps its state. *)
SwitchTo_KeepsRunning(next) ==
    /\ current' = next
    /\ state' = [state EXCEPT ![next] = IF next = current THEN @ ELSE "RUNNING"]

(* The switch from the current task, shared by yield and scheduler_tick. *)
SwitchTo(next) ==
    /\ current' = next
    /\ state' = [a \in Addr |->
            IF next = current THEN state[a]
            ELSE IF a = next THEN "RUNNING"
            ELSE IF a = current /\ state[a] = "RUNNING" THEN "READY"
            ELSE state[a]]

(* Collected tasks are freed; the others stay on the list, in their order. *)
reap_zombies ==
    LET keep == {k \in 1..Len(zombie) : zombie[k] \notin reaped_by_parent} IN
    /\ \E f \in [1..Cardinality(keep) -> keep] :
          /\ \A i, j \in DOMAIN f : i < j => f[i] < f[j]
          /\ zombie' = [k \in DOMAIN f |-> zombie[f[k]]]
    /\ heap' = heap \ (Elems(zombie) \cap reaped_by_parent)

yield == reap_zombies /\ SwitchTo(pick_next(current))

Goto(l) == pc' = [pc EXCEPT ![current] = l]

(* Where the current task is after a call: a user task has its signals
   delivered on the way out of the kernel. *)
Back == IF current \in is_user THEN "return" ELSE "run"

-----------------------------------------------------------------------------
Init ==
    /\ ready = <<kmain>>
    /\ zombie = <<>>
    /\ current = kmain
    /\ next_id = 1
    /\ heap = {kmain}
    /\ id = [a \in Addr |-> 0]
    /\ state = [a \in Addr |-> IF a = kmain THEN "RUNNING" ELSE "DEAD"]
    /\ parent = [a \in Addr |-> NULL]
    /\ is_user = {}
    /\ wait_any = {}
    /\ reaped_by_parent = {}
    /\ pc = [a \in Addr |-> "run"]
    /\ arg = [a \in Addr |-> 0]
    /\ pending = {}
    /\ kids = [n \in 0..MAXID |-> {}]
    /\ adopted = {}
    /\ collected = {}
    /\ result = {}

(* kmalloc, the new task_t and its place in the ring: the common part of
   task_spawn, task_spawn_user and task_clone_user. *)
NewTask(t, user) ==
    /\ t \notin heap
    /\ next_id <= MAXID
    /\ heap' = heap \cup {t}
    /\ id' = [id EXCEPT ![t] = next_id]
    /\ state' = [state EXCEPT ![t] = "READY"]
    /\ parent' = [parent EXCEPT ![t] = NULL]
    /\ is_user' = IF user THEN is_user \cup {t} ELSE is_user \ {t}
    /\ wait_any' = wait_any \ {t}
    /\ reaped_by_parent' = reaped_by_parent \ {t}
    /\ pending' = pending \ {t}
    /\ next_id' = next_id + 1
    /\ ready' = ready_insert(ready, t)

(* The shell starts a task that has no parent: the kernel's demo tasks. *)
task_spawn(t) ==
    /\ current = kmain /\ pc[kmain] = "run"
    /\ NewTask(t, FALSE)
    /\ pc' = [pc EXCEPT ![t] = "run"]
    /\ arg' = [arg EXCEPT ![t] = 0]
    /\ UNCHANGED <<zombie, current, hist>>

(* loader_run_args by the shell, or loader_fork by a user task, up to the
   point at which the new task is in the ring and interrupts are on again. *)
Create(t) ==
    /\ current \in {kmain} \cup is_user
    /\ pc[current] = "run"
    /\ NewTask(t, TRUE)
    /\ pc' = [pc EXCEPT ![t] = "run", ![current] = "adopt"]
    /\ arg' = [arg EXCEPT ![t] = 0, ![current] = next_id]
    /\ kids' = [kids EXCEPT ![id[current]] = @ \cup {next_id}]
    /\ UNCHANGED <<zombie, current, adopted, collected, result>>

(* The rest of both: the child is looked up by its id and told its parent.
   The shell goes on to wait for it. *)
Adopt ==
    LET t == task_find_by_id(arg[current]) IN
    /\ pc[current] = "adopt"
    /\ parent' = IF t = NULL THEN parent ELSE [parent EXCEPT ![t] = current]
    /\ Goto(IF current = kmain THEN "poll" ELSE Back)
    /\ adopted' = IF t = NULL THEN adopted ELSE adopted \cup {id[t]}
    /\ UNCHANGED <<ready, zombie, current, next_id, heap, id, state, is_user, wait_any,
                   reaped_by_parent, arg, pending, kids, collected, result>>

(* cmd_run: poll for the child and yield while it has not exited ... *)
PollYield ==
    LET t == task_find_by_id(arg[current]) IN
    /\ pc[current] = "poll"
    /\ t # NULL
    /\ state[t] # "DEAD"
    /\ yield
    /\ UNCHANGED <<ready, next_id, id, parent, is_user, wait_any, reaped_by_parent,
                   pc, arg, pending, hist>>

(* ... then collect it, if it is still found. *)
PollDone ==
    LET t == task_find_by_id(arg[current]) IN
    /\ pc[current] = "poll"
    /\ t # NULL => state[t] = "DEAD"
    /\ reaped_by_parent' = IF t = NULL THEN reaped_by_parent
                                       ELSE reaped_by_parent \cup {t}
    /\ Goto("run")
    /\ UNCHANGED <<ready, zombie, current, next_id, heap, id, state, parent, is_user,
                   wait_any, arg, pending, hist>>

(* sched_yield, the shell's yield command, and every loop that waits for
   something by yielding. *)
YieldRun ==
    /\ pc[current] = "run"
    /\ yield
    /\ Goto(Back)
    /\ UNCHANGED <<ready, next_id, id, parent, is_user, wait_any, reaped_by_parent,
                   arg, pending, hist>>

-----------------------------------------------------------------------------
(* waitpid, called by a user task for the child with id n, or any if n = 0. *)

(* Mutant: "any child" is not recognised. *)
wait_match_ExactOnly(t, n) == id[t] = n

wait_match(t, n) == n = 0 \/ id[t] = n

DeadChildren(c, n) ==
    {z \in Elems(zombie) : parent[z] = c /\ z \notin reaped_by_parent /\ wait_match(z, n)}
has_any_child(c, n) ==
    \/ \E t \in Elems(ready) \ {c} : parent[t] = c /\ wait_match(t, n) /\ state[t] # "DEAD"
    \/ DeadChildren(c, n) # {}
find_dead_child(c, n) == FirstIn(zombie, DeadChildren(c, n))

WaitCall(n, l) ==
    /\ current \in is_user
    /\ pc[current] = "run"
    /\ Goto(l)
    /\ arg' = [arg EXCEPT ![current] = n]
    /\ UNCHANGED <<ready, zombie, current, next_id, heap, id, state, parent, is_user,
                   wait_any, reaped_by_parent, pending, hist>>

Waiting == pc[current] \in {"wait", "wait_nohang"}

(* waitpid returns a child, or 0 for none.  What can be wrong with that: the
   child is not the caller's; it was returned before; none is returned although
   the caller has one left, or one that was told its parent. *)
Wrong == {"foreign", "twice", "missed", "lost"}
Return(child) ==
    LET mine == kids[id[current]]
        Left(S) == child = 0 /\ \E n \in S \ collected : arg[current] \in {0, n}
    IN  result' = {w \in Wrong : \/ w = "foreign" /\ child \notin mine \cup {0}
                                 \/ w = "twice" /\ child \in collected
                                 \/ w = "missed" /\ Left(mine)
                                 \/ w = "lost" /\ Left(mine \cap adopted)}

(* Mutant: the zombie is not marked as collected. *)
WaitCollect_NoMark ==
    LET z == find_dead_child(current, arg[current]) IN
    /\ Waiting
    /\ DeadChildren(current, arg[current]) # {}
    /\ Return(id[z])
    /\ collected' = collected \cup {id[z]}
    /\ Goto(Back)
    /\ UNCHANGED <<ready, zombie, current, next_id, heap, id, state, parent, is_user,
                   wait_any, reaped_by_parent, arg, pending, kids, adopted>>

WaitCollect ==
    LET z == find_dead_child(current, arg[current]) IN
    /\ Waiting
    /\ DeadChildren(current, arg[current]) # {}
    /\ reaped_by_parent' = reaped_by_parent \cup {z}
    /\ Return(id[z])
    /\ collected' = collected \cup {id[z]}
    /\ Goto(Back)
    /\ UNCHANGED <<ready, zombie, current, next_id, heap, id, state, parent, is_user,
                   wait_any, arg, pending, kids, adopted>>

(* No such child (-1, here 0), or none that has exited yet (0). *)
WaitNothing ==
    /\ Waiting
    /\ DeadChildren(current, arg[current]) = {}
    /\ \/ ~has_any_child(current, arg[current]) /\ Return(0)
       \/ /\ has_any_child(current, arg[current])
          /\ pc[current] = "wait_nohang"
          /\ UNCHANGED result
    /\ Goto(Back)
    /\ UNCHANGED <<ready, zombie, current, next_id, heap, id, state, parent, is_user,
                   wait_any, reaped_by_parent, arg, pending, kids, adopted, collected>>

(* Mutants: the parent blocks before it looks for a child that has exited;
   it does not say that it waits. *)
WaitBlock_NoLook ==
    /\ pc[current] = "wait"
    /\ has_any_child(current, arg[current])
    /\ wait_any' = wait_any \cup {current}
    /\ state' = [state EXCEPT ![current] = "BLOCKED"]
    /\ Goto("sleep")
    /\ UNCHANGED <<ready, zombie, current, next_id, heap, id, parent, is_user,
                   reaped_by_parent, arg, pending, hist>>
WaitBlock_NoFlag ==
    /\ pc[current] = "wait"
    /\ DeadChildren(current, arg[current]) = {}
    /\ has_any_child(current, arg[current])
    /\ state' = [state EXCEPT ![current] = "BLOCKED"]
    /\ Goto("sleep")
    /\ UNCHANGED <<ready, zombie, current, next_id, heap, id, parent, is_user, wait_any,
                   reaped_by_parent, arg, pending, hist>>

WaitBlock ==
    /\ pc[current] = "wait"
    /\ DeadChildren(current, arg[current]) = {}
    /\ has_any_child(current, arg[current])
    /\ wait_any' = wait_any \cup {current}
    /\ state' = [state EXCEPT ![current] = "BLOCKED"]
    /\ Goto("sleep")
    /\ UNCHANGED <<ready, zombie, current, next_id, heap, id, parent, is_user,
                   reaped_by_parent, arg, pending, hist>>

WaitSleep ==
    /\ pc[current] = "sleep"
    /\ yield
    /\ Goto("woken")
    /\ UNCHANGED <<ready, next_id, id, parent, is_user, wait_any, reaped_by_parent,
                   arg, pending, hist>>

WaitWoken ==
    /\ pc[current] = "woken"
    /\ wait_any' = wait_any \ {current}
    /\ Goto("wait")
    /\ UNCHANGED <<ready, zombie, current, next_id, heap, id, state, parent, is_user,
                   reaped_by_parent, arg, pending, hist>>

-----------------------------------------------------------------------------
(* The current task exits: by exit, by a signal, or by returning. *)
task_exit_code ==
    LET p == parent[current]
        rest == ready_remove(ready, current)
        wakes == p # NULL /\ state[p] = "BLOCKED" /\ p \in wait_any
        awake == Runnable \cup (IF wakes THEN {p} ELSE {})
        found == Elems(rest) \cap awake # {}
        next == IF found THEN FirstIn(rest, awake) ELSE current
    IN  /\ current # kmain
        /\ pc[current] = "run" \/ (pc[current] = "return" /\ current \in pending)
        /\ ready' = rest
        /\ zombie' = <<current>> \o zombie
        /\ reaped_by_parent' = reaped_by_parent \cup (IF p = NULL THEN {current} ELSE {})
        /\ state' = [a \in Addr |-> IF a = current THEN "DEAD"
                                    ELSE IF a = next THEN "RUNNING"
                                    ELSE IF a = p /\ wakes THEN "READY"
                                    ELSE state[a]]
        /\ current' = next
        /\ Goto(IF found THEN "gone" ELSE "halt")
        /\ UNCHANGED <<next_id, heap, id, parent, is_user, wait_any, arg, pending, hist>>

(* kill, by a user task: signal_raise on a task of the ring. *)
signal_raise(t) ==
    /\ current \in is_user
    /\ pc[current] = "run"
    /\ t \in Elems(ready) \ {kmain}
    /\ pending' = pending \cup {t}
    /\ state' = IF state[t] = "BLOCKED" THEN [state EXCEPT ![t] = "READY"] ELSE state
    /\ Goto(Back)
    /\ UNCHANGED <<ready, zombie, current, next_id, heap, id, parent, is_user, wait_any,
                   reaped_by_parent, arg, hist>>

(* At the end of a system call: nothing is pending, or the signal is ignored
   or handled.  The signal that terminates is task_exit_code. *)
deliver_signals ==
    /\ pc[current] = "return"
    /\ pending' = pending \ {current}
    /\ Goto("run")
    /\ UNCHANGED <<ready, zombie, current, next_id, heap, id, state, parent, is_user,
                   wait_any, reaped_by_parent, arg, hist>>

(* The timer interrupt. *)
scheduler_tick ==
    /\ Preempt
    /\ current \in Elems(ready)
    /\ pick_next(current) # current
    /\ SwitchTo(pick_next(current))
    /\ UNCHANGED <<ready, zombie, next_id, heap, id, parent, is_user, wait_any,
                   reaped_by_parent, pc, arg, pending, hist>>

Kernel ==
    \/ Adopt \/ PollYield \/ PollDone \/ deliver_signals
    \/ WaitCollect \/ WaitNothing \/ WaitBlock \/ WaitSleep \/ WaitWoken

Next ==
    \/ \E t \in Addr : task_spawn(t) \/ Create(t) \/ signal_raise(t)
    \/ \E n \in 0..MAXID, l \in {"wait", "wait_nohang"} : WaitCall(n, l)
    \/ Kernel
    \/ YieldRun
    \/ task_exit_code
    \/ scheduler_tick

Spec == Init /\ [][Next]_vars

(* The timer keeps ticking, and a task inside the kernel that gets the CPU
   again and again gets on: a tick is far longer than a step. *)
Fairness == WF_vars(scheduler_tick) /\ \A a \in Addr : SF_vars(current = a /\ Kernel)
FairSpec == Spec /\ Fairness

-----------------------------------------------------------------------------
(* Type invariant. *)
TypeOK ==
    /\ Elems(ready) \cup Elems(zombie) \subseteq Addr
    /\ current \in Addr /\ heap \subseteq Addr /\ pending \subseteq Addr
    /\ next_id \in 1..MAXID + 1
    /\ id \in [Addr -> 0..MAXID]
    /\ state \in [Addr -> {"READY", "RUNNING", "BLOCKED", "DEAD"}]
    /\ parent \in [Addr -> Addr \cup {NULL}]
    /\ is_user \cup wait_any \cup reaped_by_parent \subseteq Addr
    /\ pc \in [Addr -> {"run", "adopt", "poll", "wait", "wait_nohang", "sleep", "woken",
                       "return", "gone", "halt"}]
    /\ arg \in [Addr -> 0..MAXID]

(* No task_t is ever on both lists or twice on one; what runs or can run is
   in the ring, what has exited is on the zombie list, and only what is on
   neither list has been freed. *)
ListsSound ==
    /\ Len(ready) = Cardinality(Elems(ready)) /\ Len(zombie) = Cardinality(Elems(zombie))
    /\ Elems(ready) \cap Elems(zombie) = {}
    /\ Elems(ready) \cup Elems(zombie) = heap
    /\ \A a \in heap : a \in Elems(zombie) <=> state[a] = "DEAD"
    /\ current \in Elems(ready)

(* A task other than the current one is never marked running; and there is
   always a task that can run, so that task_exit_code never halts the CPU. *)
CpuSound ==
    /\ \A a \in Addr : state[a] = "RUNNING" => a = current
    /\ Elems(ready) \cap Runnable # {}

(* No wakeup is lost: a task blocked in waitpid has no child it could
   collect. *)
NoLostWakeup ==
    \A a \in Elems(ready) : state[a] = "BLOCKED" => a \in wait_any /\ DeadChildren(a, arg[a]) = {}

(* The exit of a child is reported once, to whichever task. *)
CollectedOnce == "twice" \notin result

(* A child that was told its parent stays known until waitpid reports it,
   whatever exits, is freed and is allocated again in between: waitpid never
   says "no such child" while the caller has one that it asks for. *)
AdoptedKept == "lost" \notin result

(* "... or -1 if there is no such child" (task_wait_child_ex): when waitpid
   says so, every child of the caller that it asks for was collected. *)
WaitComplete == "missed" \notin result

(* "Returns child pid" (task_wait_child_ex): waitpid returns only tasks that
   its caller created. *)
WaitOwn == "foreign" \notin result

(* "Once the task has exited we collect it" (cmd_run): when the shell has its
   prompt back, no child of it is left uncollected. *)
RunCollects ==
    pc[kmain] = "run" => \A z \in Elems(zombie) : parent[z] = kmain => z \in reaped_by_parent

(* A parent that waits for a child that has exited gets it. *)
WaitReturns ==
    \A a \in Addr :
        a \in Elems(ready) /\ pc[a] \in {"wait", "sleep", "woken"} /\ DeadChildren(a, arg[a]) # {}
            ~> pc[a] \notin {"wait", "sleep", "woken"}
=============================================================================
