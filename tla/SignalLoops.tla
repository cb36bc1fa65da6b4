----------------------------- MODULE SignalLoops -----------------------------
(***************************************************************************)
(* The programs of S5_IPC_Signal.  Each has a loop that sleeps until a     *)
(* signal wakes it and then looks at what the handler noted:               *)
(*   "sigint"   ex1_creat_run_signal.c, ends at exactly MAX_TIME signals   *)
(*   "sigalrm"  ex2_sigalrm_timer.c, which sets its own alarm              *)
(*   "sigusr1"  ex3_ipc_sigusr1.c, a child that its parent signals         *)
(*   "select"   ex4_select.c, which also waits for a line                  *)
(* A signal may come at any point.  One that is handled while the loop is  *)
(* awake interrupts no pause() and no select().                            *)
(***************************************************************************)
EXTENDS Naturals

CONSTANTS
    MaxTime,      \* MAX_TIME
    MaxRaised,    \* bound: signals sent from outside
    MaxTyped      \* bound: lines typed

VARIABLES
    sprog,        \* which program runs
    loop,         \* place of the loop
    pending,      \* signals raised and not handled; a second one of a kind is lost
    g_count,      \* signals counted by the handler
    g_term,       \* g_sigterm of ex4
    armed,        \* the alarm is running
    parent,       \* ex3: place of the parent
    kills,        \* ex3: signals the parent has sent
    raised,       \* signals sent from outside so far
    input,        \* standard input of ex4: "empty", "line" or "eof"
    typed,        \* lines typed so far
    missed        \* history: a signal was handled where the loop does not look before it sleeps

sigVars == <<sprog, loop, pending, g_count, g_term, armed, parent, kills, raised, input, typed, missed>>

SigInit ==
    /\ sprog \in {"sigint", "sigalrm", "sigusr1", "select"}
    /\ loop = "off" /\ pending = {}
    /\ g_count = 0 /\ g_term = FALSE /\ armed = FALSE
    /\ parent = "off" /\ kills = 0
    /\ raised = 0 /\ input = "empty" /\ typed = 0 /\ missed = FALSE

Alive == loop \notin {"off", "ended"}

-----------------------------------------------------------------------------
(* Signals.                                                                *)

(* SIGINT to ex1, SIGINT and SIGTERM to ex4, from outside.                 *)
Raise(sig) ==
    /\ Alive /\ raised < MaxRaised
    /\ \/ sprog = "sigint" /\ sig = "INT"
       \/ sprog = "select" /\ sig \in {"INT", "TERM"}
    /\ raised' = raised + 1
    /\ pending' = pending \cup {sig}
    /\ UNCHANGED <<sprog, loop, g_count, g_term, armed, parent, kills, input, typed, missed>>

AlarmFires ==
    /\ armed /\ Alive
    /\ armed' = FALSE /\ pending' = pending \cup {"ALRM"}
    /\ UNCHANGED <<sprog, loop, g_count, g_term, parent, kills, raised, input, typed, missed>>

(* Without a handler the signal ends the process: before signal() was      *)
(* called, and SIGTERM in ex3.                                             *)
Fatal(sig) == loop = "setup" \/ (sig = "TERM" /\ sprog = "sigusr1")

Killed(sig) ==
    /\ Alive /\ sig \in pending /\ Fatal(sig)
    /\ loop' = "ended" /\ pending' = {}
    /\ UNCHANGED <<sprog, g_count, g_term, armed, parent, kills, raised, input, typed, missed>>

(* The handler runs; a sleeping loop wakes up behind it.  What comes       *)
(* between waking up and the test is still seen by the test; but in ex1 it *)
(* may take the count past MAX_TIME.                                       *)
Handle(sig) ==
    /\ Alive /\ sig \in pending /\ ~Fatal(sig)
    /\ pending' = pending \ {sig}
    /\ g_count' = (IF sprog = "select" THEN g_count ELSE g_count + 1)
    /\ g_term' = (g_term \/ sig = "TERM")
    /\ loop' = (IF loop = "asleep" THEN "check" ELSE loop)
    /\ missed' = (missed \/ loop \in {"awake", "read"} \/ (loop = "check" /\ sprog = "sigint"))
    /\ UNCHANGED <<sprog, armed, parent, kills, raised, input, typed>>

-----------------------------------------------------------------------------
(* The loops.                                                              *)

SigRun ==
    /\ loop = "off" /\ parent = "off"
    /\ IF sprog = "sigusr1"
       THEN /\ parent' \in {"send", "ended"}        \* fork() may fail
            /\ loop' = (IF parent' = "send" THEN "setup" ELSE loop)
       ELSE loop' = "setup" /\ UNCHANGED parent
    /\ UNCHANGED <<sprog, pending, g_count, g_term, armed, kills, raised, input, typed, missed>>

(* signal(), and alarm(1) in ex2.                                          *)
Setup ==
    /\ loop = "setup" /\ loop' = "awake"
    /\ armed' = (sprog = "sigalrm")
    /\ UNCHANGED <<sprog, pending, g_count, g_term, parent, kills, raised, input, typed, missed>>

(* pause(); select() returns at once when there is input.                  *)
Sleep ==
    /\ loop = "awake"
    /\ loop' = (IF sprog = "select" /\ input # "empty" THEN "read" ELSE "asleep")
    /\ UNCHANGED <<sprog, pending, g_count, g_term, armed, parent, kills, raised, input, typed, missed>>

(* Seeded fault: more signals than MAX_TIME are needed.                    *)
Enough_More == g_count > MaxTime

(* == in ex1, >= in ex2 and ex3, the flag in ex4.                          *)
Enough ==
    CASE sprog = "sigint" -> g_count = MaxTime
      [] sprog = "select" -> g_term
      [] OTHER            -> g_count >= MaxTime

(* Seeded fault: the alarm is not set again.                               *)
Check_AlarmOnce ==
    /\ loop = "check" /\ loop' = (IF Enough THEN "ended" ELSE "awake")
    /\ UNCHANGED <<sprog, pending, g_count, g_term, armed, parent, kills, raised, input, typed, missed>>

(* What pause() woke up to, or EINTR; ex2 sets the alarm again.            *)
Check ==
    /\ loop = "check" /\ loop' = (IF Enough THEN "ended" ELSE "awake")
    /\ armed' = (armed \/ (sprog = "sigalrm" /\ ~Enough))
    /\ UNCHANGED <<sprog, pending, g_count, g_term, parent, kills, raised, input, typed, missed>>

(* A line, or the end of the input, wakes select(); the flags are not      *)
(* looked at.                                                              *)
InputComes(what) ==
    /\ sprog = "select" /\ Alive /\ input = "empty" /\ typed < MaxTyped
    /\ input' = what /\ typed' = typed + 1
    /\ loop' = (IF loop = "asleep" THEN "read" ELSE loop)
    /\ UNCHANGED <<sprog, pending, g_count, g_term, armed, parent, kills, raised, missed>>

(* fgets(): the end of the input is found again each time.                 *)
ReadInput ==
    /\ loop = "read" /\ loop' = "awake"
    /\ input' = (IF input = "eof" THEN "eof" ELSE "empty")
    /\ UNCHANGED <<sprog, pending, g_count, g_term, armed, parent, kills, raised, typed, missed>>

-----------------------------------------------------------------------------
(* The parent of ex3: MAX_TIME times SIGUSR1, then SIGTERM, then wait().   *)
(* To a child that has ended, and is not waited for, kill() does nothing.  *)

ParentKills ==
    /\ parent = "send"
    /\ pending' = (IF Alive THEN pending \cup {IF kills < MaxTime THEN "USR1" ELSE "TERM"} ELSE pending)
    /\ kills' = kills + 1
    /\ parent' = (IF kills < MaxTime THEN "send" ELSE "wait")
    /\ UNCHANGED <<sprog, loop, g_count, g_term, armed, raised, input, typed, missed>>

ParentWaits ==
    /\ parent = "wait" /\ loop = "ended" /\ parent' = "ended"
    /\ UNCHANGED <<sprog, loop, pending, g_count, g_term, armed, kills, raised, input, typed, missed>>

-----------------------------------------------------------------------------
Signals == {"INT", "TERM", "ALRM", "USR1"}

LoopStep == Setup \/ Sleep \/ Check \/ ReadInput

Delivery == \E sig \in Signals : Killed(sig) \/ Handle(sig)

ParentStep == ParentKills \/ ParentWaits

SigNext ==
    \/ SigRun \/ LoopStep \/ Delivery \/ AlarmFires \/ ParentStep
    \/ \E sig \in Signals : Raise(sig)
    \/ \E what \in {"line", "eof"} : InputComes(what)

(* Time passes, signals are delivered, processes go on.                    *)
SigGoes == LoopStep \/ Delivery \/ AlarmFires \/ ParentStep

-----------------------------------------------------------------------------
(* The loop sleeps although it has got what it waits for, or nothing will  *)
(* wake it again, only when a signal met it awake: between the test and    *)
(* pause(), or, for the == of ex1, two in one round.                       *)
StuckOnlyAfterMiss ==
    loop = "asleep" /\ ~missed =>
        CASE sprog = "select"  -> ~g_term
          [] sprog = "sigalrm" -> armed \/ "ALRM" \in pending
          [] OTHER             -> g_count < MaxTime

(* As long as none did, the timer of ex2 ends by itself and ex4 obeys      *)
(* SIGTERM.  The parent of ex3 ends in any case, and its child with it,    *)
(* also when the first signal came before the child called signal().       *)
SignalsObeyed ==
    []<>(/\ sprog = "sigalrm" /\ Alive => missed
         /\ sprog = "select" /\ g_term /\ Alive => missed
         /\ parent \in {"off", "ended"}
         /\ parent = "ended" => ~Alive)
=============================================================================
