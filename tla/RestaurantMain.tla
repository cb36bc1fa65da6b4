--------------------------- MODULE RestaurantMain ---------------------------
(***************************************************************************)
(* The life of the processes of S10_IPC_Semafore/app/main.c: the parent    *)
(* creates the shared segment, forks the chefs and customers, and ends     *)
(* them again after 60 seconds or at Ctrl+C.  What chefs and customers do  *)
(* with the trays is module Restaurant; here a child boots, works and is   *)
(* killed.                                                                 *)
(*                                                                         *)
(* children[child_count++] = fork() is three steps: the build increments   *)
(* child_count, calls fork(), and stores the result.  The handler of       *)
(* SIGINT never returns, so entering it forgets the place of the parent.   *)
(***************************************************************************)
EXTENDS Naturals

CONSTANTS
    N,          \* number of children
    EarlyCtrlC, \* TRUE: Ctrl+C may come before every child ignores SIGINT
    ForkMayFail \* TRUE: fork() may return -1

ASSUME MainAssumption == N \in Nat \ {0} /\ EarlyCtrlC \in BOOLEAN /\ ForkMayFail \in BOOLEAN

Kids   == 1..N
Failed == N + 1     \* the pid -1 of a failed fork(); 0 is the initial value of children[]

VARIABLES
    shm,          \* the segment /restaurant_shm exists
    parent,       \* "run", "exited", "killed" by a signal of these processes or the
                  \* terminal, "shot" by one from elsewhere
    ppc,          \* place of the parent
    handling,     \* the parent is in handle_sigint
    child_count,
    children,     \* children[]: 0, the number of a child, or Failed
    k,            \* index of the loops of cleanup_all
    kid,          \* each child: "none", "boot", "work", "zombie", "reaped"
    pint, pterm,  \* pending SIGINT and SIGTERM, of the parent (0) and the children
    hit           \* processes that are not children were signalled: "everyone", "reaped"

vars == <<shm, parent, ppc, handling, child_count, children, k, kid, pint, pterm, hit>>

Init ==
    /\ shm = FALSE /\ parent = "run" /\ ppc = "init" /\ handling = FALSE
    /\ child_count = 0 /\ children = [i \in Kids |-> 0] /\ k = 1
    /\ kid = [i \in Kids |-> "none"]
    /\ pint = {} /\ pterm = {} /\ hit = {}

Alive(i) == kid[i] \in {"boot", "work"}
Group == {i \in Kids : Alive(i)}

-----------------------------------------------------------------------------
(* main().                                                                 *)

InitSharedMemory ==
    /\ ppc = "init"
    /\ shm' = TRUE /\ ppc' = "arm"
    /\ UNCHANGED <<parent, handling, child_count, children, k, kid, pint, pterm, hit>>

(* signal(SIGINT, handle_sigint).                                          *)
Arm ==
    /\ ppc = "arm" /\ ppc' = "count"
    /\ UNCHANGED <<shm, parent, handling, child_count, children, k, kid, pint, pterm, hit>>

CountChild ==
    /\ ppc = "count" /\ child_count < N
    /\ child_count' = child_count + 1 /\ ppc' = "fork"
    /\ UNCHANGED <<shm, parent, handling, children, k, kid, pint, pterm, hit>>

(* fork() is restarted while a signal is pending.                          *)
Fork ==
    /\ ppc = "fork" /\ 0 \notin pint \cup pterm
    /\ kid' = [kid EXCEPT ![child_count] = "boot"]
    /\ ppc' = "store"
    /\ UNCHANGED <<shm, parent, handling, child_count, children, k, pint, pterm, hit>>

ForkFails ==
    /\ ForkMayFail /\ ppc = "fork"
    /\ children' = [children EXCEPT ![child_count] = Failed]
    /\ ppc' = "count"
    /\ UNCHANGED <<shm, parent, handling, child_count, k, kid, pint, pterm, hit>>

StorePid ==
    /\ ppc = "store"
    /\ children' = [children EXCEPT ![child_count] = child_count]
    /\ ppc' = "count"
    /\ UNCHANGED <<shm, parent, handling, child_count, k, kid, pint, pterm, hit>>

(* The loop of sleep(10) and print_tray_status ends after 60 seconds.      *)
SixtySeconds ==
    /\ ppc = "count" /\ child_count = N
    /\ ppc' = "kill" /\ k' = 1
    /\ UNCHANGED <<shm, parent, handling, child_count, children, kid, pint, pterm, hit>>

-----------------------------------------------------------------------------
(* cleanup_all() in the parent.                                            *)

(* kill(children[i], SIGTERM): pid 0 is the process group, whose members   *)
(* include the caller, which dies of it; pid -1 is every process there is  *)
(* but the caller; the pid of a reaped child may belong to somebody else.  *)
Kill ==
    /\ ppc = "kill" /\ k <= child_count
    /\ k' = k + 1
    /\ \/ /\ children[k] = 0
          /\ parent' = "killed" /\ pterm' = pterm \cup Group /\ UNCHANGED hit
       \/ /\ children[k] = Failed
          /\ pterm' = pterm \cup Group /\ hit' = hit \cup {"everyone"} /\ UNCHANGED parent
       \/ /\ children[k] \in Kids
          /\ pterm' = pterm \cup ({children[k]} \cap Group)
          /\ hit' = IF kid[children[k]] = "reaped" THEN hit \cup {"reaped"} ELSE hit
          /\ UNCHANGED parent
    /\ UNCHANGED <<shm, ppc, handling, child_count, children, kid, pint>>

(* Seeded fault: the index is not reset before the second loop.            *)
KillEnd_NoReset ==
    /\ ppc = "kill" /\ k > child_count
    /\ ppc' = "wait"
    /\ UNCHANGED <<shm, parent, handling, child_count, children, k, kid, pint, pterm, hit>>

(* Seeded fault: the loop ends one child early.                            *)
KillEnd_Early ==
    /\ ppc = "kill" /\ k >= child_count
    /\ ppc' = "wait" /\ k' = 1
    /\ UNCHANGED <<shm, parent, handling, child_count, children, kid, pint, pterm, hit>>

KillEnd ==
    /\ ppc = "kill" /\ k > child_count
    /\ ppc' = "wait" /\ k' = 1
    /\ UNCHANGED <<shm, parent, handling, child_count, children, kid, pint, pterm, hit>>

(* The children that waitpid(children[i]) is about.                        *)
Awaited == IF children[k] = Failed THEN {i \in Kids : Alive(i) \/ kid[i] = "zombie"}
           ELSE {children[k]} \cap {i \in Kids : Alive(i) \/ kid[i] = "zombie"}

WaitPid ==
    /\ ppc = "wait" /\ k <= child_count
    /\ k' = k + 1
    /\ \/ \E i \in Awaited : kid[i] = "zombie" /\ kid' = [kid EXCEPT ![i] = "reaped"]
       \/ Awaited = {} /\ UNCHANGED kid
    /\ UNCHANGED <<shm, parent, ppc, handling, child_count, children, pint, pterm, hit>>

(* cleanup_shared_memory(), then main() returns or the handler exits.      *)
Unlink ==
    /\ ppc = "wait" /\ k > child_count
    /\ shm' = FALSE /\ ppc' = "exit"
    /\ UNCHANGED <<parent, handling, child_count, children, k, kid, pint, pterm, hit>>

(* Seeded fault: no break, the loop goes on and cleans up again.           *)
Exit_NoBreak ==
    /\ ppc = "exit"
    /\ IF handling THEN parent' = "exited" /\ UNCHANGED <<ppc, k>>
                   ELSE ppc' = "kill" /\ k' = 1 /\ UNCHANGED parent
    /\ UNCHANGED <<shm, handling, child_count, children, kid, pint, pterm, hit>>

Exit ==
    /\ ppc = "exit" /\ parent' = "exited"
    /\ UNCHANGED <<shm, ppc, handling, child_count, children, k, kid, pint, pterm, hit>>

-----------------------------------------------------------------------------
(* Signals.                                                                *)

Settled == child_count = N /\ ppc # "fork" /\ ppc # "store"
           /\ \A i \in Kids : kid[i] # "boot"

(* The terminal signals the parent and the children that do not ignore it. *)
CtrlC ==
    /\ EarlyCtrlC \/ Settled
    /\ pint' = pint \cup {0} \cup {i \in Kids : kid[i] = "boot"}
    /\ UNCHANGED <<shm, parent, ppc, handling, child_count, children, k, kid, pterm, hit>>

(* Seeded fault: the handler exits without cleanup_all.                    *)
ParentInt_NoCleanup ==
    /\ 0 \in pint /\ ~handling
    /\ pint' = pint \ {0} /\ parent' = "exited" /\ handling' = TRUE
    /\ UNCHANGED <<shm, ppc, child_count, children, k, kid, pterm, hit>>

(* SIGINT reaches the parent: before signal() it is fatal, afterwards      *)
(* handle_sigint starts cleanup_all; it is blocked inside the handler.     *)
ParentInt ==
    /\ 0 \in pint /\ ~handling
    /\ pint' = pint \ {0}
    /\ IF ppc \in {"init", "arm"}
       THEN parent' = "killed" /\ UNCHANGED <<ppc, handling, k>>
       ELSE ppc' = "kill" /\ k' = 1 /\ handling' = TRUE /\ UNCHANGED parent
    /\ UNCHANGED <<shm, child_count, children, kid, pterm, hit>>

ParentTerm ==
    /\ 0 \in pterm /\ parent' = "killed"
    /\ UNCHANGED <<shm, ppc, handling, child_count, children, k, kid, pint, pterm, hit>>

(* main() installs a handler for SIGINT only: SIGTERM, SIGHUP or SIGKILL   *)
(* from elsewhere ends the parent, or a child, wherever it is.             *)
ParentShot ==
    /\ parent = "run" /\ parent' = "shot"
    /\ UNCHANGED <<shm, ppc, handling, child_count, children, k, kid, pint, pterm, hit>>

ChildShot(i) ==
    /\ Alive(i)
    /\ kid' = [kid EXCEPT ![i] = "zombie"]
    /\ UNCHANGED <<shm, parent, ppc, handling, child_count, children, k, pint, pterm, hit>>

(* A child: signal(SIGINT, SIG_IGN), which also drops a pending SIGINT.    *)
ChildIgnore(i) ==
    /\ kid[i] = "boot"
    /\ kid' = [kid EXCEPT ![i] = "work"]
    /\ pint' = pint \ {i}
    /\ UNCHANGED <<shm, parent, ppc, handling, child_count, children, k, pterm, hit>>

(* Before that it has the handler of the parent, and a children[] whose    *)
(* own entry is 0: cleanup_all signals the whole group and kills itself.   *)
ChildInt(i) ==
    /\ kid[i] = "boot" /\ i \in pint
    /\ kid' = [kid EXCEPT ![i] = "zombie"]
    /\ pterm' = pterm \cup (Group \ {i}) \cup {0}
    /\ pint' = pint \ {i}
    /\ hit' = IF \E j \in 1..(i - 1) : children[j] = Failed THEN hit \cup {"everyone"} ELSE hit
    /\ UNCHANGED <<shm, parent, ppc, handling, child_count, children, k>>

ChildTerm(i) ==
    /\ Alive(i) /\ i \in pterm
    /\ kid' = [kid EXCEPT ![i] = "zombie"]
    /\ UNCHANGED <<shm, parent, ppc, handling, child_count, children, k, pint, pterm, hit>>

-----------------------------------------------------------------------------
ParentStep ==
    /\ parent = "run"
    /\ \/ InitSharedMemory \/ Arm \/ CountChild \/ Fork \/ ForkFails \/ StorePid
       \/ SixtySeconds \/ Kill \/ KillEnd \/ WaitPid \/ Unlink \/ Exit
       \/ ParentInt \/ ParentTerm

ChildStep(i) == ChildIgnore(i) \/ ChildInt(i) \/ ChildTerm(i)

Outside == ParentShot \/ (parent = "run" /\ CtrlC) \/ \E i \in Kids : ChildShot(i)

Next == ParentStep \/ Outside \/ \E i \in Kids : ChildStep(i)

Spec == Init /\ [][Next]_vars

FairSpec ==
    /\ Spec
    /\ WF_vars(ParentStep)
    /\ \A i \in Kids : WF_vars(ChildStep(i))

-----------------------------------------------------------------------------
(* Properties.                                                             *)

(* When the parent leaves by itself, after 60 seconds or in handle_sigint, *)
(* even if Ctrl+C interrupts a cleanup that had begun, the segment is gone *)
(* and there is neither a running child nor a zombie.                      *)
CleanShutdown ==
    parent = "exited" => ~shm /\ \A i \in Kids : kid[i] \in {"none", "reaped"}

(* Whom cleanup_all signals besides its children: everybody, but only when *)
(* a fork() has failed, and a pid that was waited for, but only when       *)
(* Ctrl+C interrupted the cleanup that main() had begun.                   *)
StraySignals ==
    /\ "everyone" \in hit => \E i \in Kids : children[i] = Failed
    /\ "reaped" \in hit => handling

(* When the parent has left by itself, or died of a signal that cleanup_all *)
(* or Ctrl+C gave, every chef and customer ends too, those included that   *)
(* were not in children[] yet.  A parent that a signal from elsewhere      *)
(* killed has no such effect: its children go on for ever.                 *)
NoSurvivors == (parent \in {"exited", "killed"}) ~> (Group = {})

(* cleanup_all never waits for ever: waitpid() is only ever about children *)
(* that kill() reached, although fork() may have failed, Ctrl+C may have   *)
(* interrupted main() between any two of its steps, cleanup_all included,  *)
(* and a child may have died before.                                       *)
CleanupEnds == (ppc = "kill") ~> (parent # "run")
====
