---- MODULE Signal ----
(* POSIX signals of Linux programs (src/src/linux_syscall.c).  A signal is raised
   by kill() or by the keyboard's interrupt, stays pending in the task, and is
   taken at the end of a system call of that task: the dispatcher's last act is
   deliver_signals.  A blocking call ends early with EINTR when signal_ready says
   so.  Here is what happens to one task's signal state; module Tty has the calls
   that block and the keyboard that raises.                                      *)
EXTENDS Integers, Sequences, FiniteSets, FiniteSetsExt

CONSTANTS
    Tasks,      \* the user tasks
    Signals     \* the signal numbers used, a subset of 1 .. 31

LX_SIGKILL == 9
LX_SIGSTOP == 19
LX_SIGINT == 2

Uncatchable == {LX_SIGKILL, LX_SIGSTOP} \cap Signals

(* The default action of these is to do nothing. *)
sig_default_ignored(s) == s \in 17..23 \cup {28}

(* A task's signals: the two bit masks; the signals with a handler of the
   program's and those set to SIG_IGN, the others are SIG_DFL; the frames pushed
   on the user stack, the innermost last.  `alive` is 0 after task_exit_code.    *)
NoSignals == [pending |-> {}, blocked |-> {}, fn |-> {}, ign |-> {},
              frames |-> <<>>, alive |-> 1]

(* t->sig_pending |= 1 << signo *)
signal_raise(s, signo) == [s EXCEPT !.pending = @ \cup {signo}]

Deliverable(s) == (s.pending \ s.blocked) \cup (s.pending \cap Uncatchable)

signal_ready(s) == Deliverable(s) # {}

(* Mutant: the frame saves the mask of the handler, not that of the program. *)
deliver_signals_After(s) ==
    IF ~signal_ready(s) THEN s
    ELSE LET sig   == Min(Deliverable(s))
             taken == [s EXCEPT !.pending = @ \ {sig}]
         IN  IF sig \in s.ign \/ (sig \notin s.fn /\ sig_default_ignored(sig)) THEN taken
             ELSE IF sig \notin s.fn \/ sig = LX_SIGKILL THEN [taken EXCEPT !.alive = 0]
             ELSE [taken EXCEPT !.frames = Append(@, [signo |-> sig, blocked |-> s.blocked \cup {sig}]),
                                !.blocked = @ \cup {sig}]

(* The end of every system call: the lowest deliverable signal is taken.  It is
   dropped, kills the task, or its handler is entered with the signal blocked,
   the mask to restore being in the frame.                                       *)
deliver_signals(s) ==
    IF ~signal_ready(s) THEN s
    ELSE LET sig   == Min(Deliverable(s))
             taken == [s EXCEPT !.pending = @ \ {sig}]
         IN  IF sig \in s.ign \/ (sig \notin s.fn /\ sig_default_ignored(sig)) THEN taken
             ELSE IF sig \notin s.fn \/ sig = LX_SIGKILL THEN [taken EXCEPT !.alive = 0]
             ELSE [taken EXCEPT !.frames = Append(@, [signo |-> sig, blocked |-> s.blocked]),
                                !.blocked = @ \cup {sig}]

(* act is "fn", "ign" or "dfl" *)
rt_sigaction(s, sig, act) ==
    IF sig \in Uncatchable THEN s
    ELSE [s EXCEPT !.fn  = IF act = "fn"  THEN @ \cup {sig} ELSE @ \ {sig},
                   !.ign = IF act = "ign" THEN @ \cup {sig} ELSE @ \ {sig}]

rt_sigprocmask(s, how, m) ==
    LET set == CASE how = "block"   -> s.blocked \cup m
                 [] how = "unblock" -> s.blocked \ m
                 [] OTHER           -> m
    IN  [s EXCEPT !.blocked = set \ Uncatchable]

(* The handler's return, through the restorer: the mask comes from the frame. *)
rt_sigreturn(s) ==
    [s EXCEPT !.blocked = s.frames[Len(s.frames)].blocked,
              !.frames  = SubSeq(@, 1, Len(@) - 1)]

====
