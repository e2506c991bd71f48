------------------------------- MODULE MCCalls --------------------------------
(* System calls that wait, as two parts that do not interact: descriptor tables and
   pipes ("pipes"), and the terminal, with the signals that interrupt it ("terminal").

   One task reads the terminal and one waits for a child; a behaviour is about
   lines, about raw input and changes of mode, about signals that interrupt a read,
   or about signals alone.  Of two processes with pipes the first runs at the
   start; they may all exit, or wait for ever in a pipe that nobody closes, so the
   system may stop. *)
EXTENDS Fdt, Sequences

CONSTANTS Tasks, NoTask, Readers, Waiters       \* of "terminal"

VARIABLES
    part,
    tty, sig, doing, handed, ended, own, serial, limit, keys, terms, sigs       \* of "terminal"

terminal == <<tty, sig, doing, handed, ended, own, serial, limit, keys, terms, sigs>>

MCMasks == {{2}, {9, 17}}
MCLimits ==
    {[kinds |-> {"char", "newline", "erase", "eof", "scroll"}, modes |-> {},
      keys |-> 4, terms |-> 3, sigs |-> 0, who |-> {}],
     [kinds |-> {"char", "arrow", "scroll", "intr"}, modes |-> {<<FALSE, FALSE>>, <<TRUE, TRUE>>},
      keys |-> 3, terms |-> 4, sigs |-> 0, who |-> {}],
     [kinds |-> {"char", "intr"}, modes |-> {}, keys |-> 2, terms |-> 2, sigs |-> 2, who |-> Tasks],
     [kinds |-> {}, modes |-> {}, keys |-> 0, terms |-> 0, sigs |-> 4, who |-> Readers]}

MCReads == {1, 2}

T == INSTANCE Tty WITH
        Signals <- {2, 9, 17}, Counts <- MCReads, Masks <- MCMasks, BUF_SIZE <- 3, LINE <- 3, PUSH <- 8,
        INJECT <- 3, REPLY <- 2, Limits <- MCLimits, op <- doing, got <- handed

MCInit ==
    /\ part \in {"pipes", "terminal"}
    /\ Init /\ T!Init
    /\ part # "terminal" => limit.keys = 0

MCNext ==
    /\ \/ part = "pipes" /\ Next /\ UNCHANGED terminal
       \/ part = "terminal" /\ T!Next /\ UNCHANGED vars
    /\ part' = part

(* What one fairness asks for is never enabled in the other's part. *)
MCSpec == MCInit /\ [][MCNext]_<<vars, terminal, part>> /\ Fairness /\ T!Fairness

(* The state is well-formed (TypeOK of Fdt and of Tty). *)
TypesOK == IF part = "pipes" THEN TypeOK ELSE T!TypeOK

(* Tty!KeysInOrder: what programs read is what was typed, in order and whole, and in
   canonical mode only once the line is finished. *)
KeysInOrder == part = "terminal" => T!KeysInOrder

(* Tty!MaskKept: outside its handlers a task has the signal mask that it last asked
   for. *)
MaskKept == part = "terminal" => T!MaskKept

(* Tty!SignalTaken: signals that a task does not block are taken, also while it waits
   for the terminal. *)
SignalTaken == T!SignalTaken
=============================================================================
