----------------------------- MODULE Increments -----------------------------
(***************************************************************************)
(* S4_Thread/ex2_race_condition_mutx.c (locked FALSE): NUM_THREADS threads *)
(* increment g_counter, the calls of the mutex are commented out; and      *)
(* S4_Thread/ex4_rw_lock.c (locked TRUE): writers increment g_shared_data  *)
(* under a read-write lock, readers print it.                              *)
(*                                                                         *)
(* An increment is a load and a store.  Without the lock that is a data    *)
(* race; the build loads and stores once per increment, or once for the    *)
(* whole loop when the optimiser takes the variable out of it.             *)
(***************************************************************************)
EXTENDS Naturals, FiniteSets

CONSTANTS
    Writers, Readers,
    Increment,      \* INCREMENTS, NUM_ITERATIONS
    Initial         \* the value g_counter or g_shared_data starts from

VARIABLES
    locked,         \* which of the two programs runs
    shared,         \* g_counter or g_shared_data
    inside,         \* the threads that hold the read-write lock
    ipc,            \* place of each thread
    turns,          \* i of each for loop
    register,       \* what a thread has loaded
    imain           \* main: "off", "join", "printed"

incVars == <<locked, shared, inside, ipc, turns, register, imain>>

Everyone == Writers \cup (IF locked THEN Readers ELSE {})

IncInit ==
    /\ locked \in BOOLEAN
    /\ shared = Initial /\ inside = {}
    /\ ipc = [t \in Writers \cup Readers |-> "off"]
    /\ turns = [t \in Writers \cup Readers |-> 0]
    /\ register = [t \in Writers \cup Readers |-> Initial]
    /\ imain = "off"

(* The program is run and main creates its threads; what they do before    *)
(* the last is created is the same as what they do after.                  *)
IncRun ==
    /\ imain = "off" /\ imain' = "join"
    /\ ipc' = [t \in Writers \cup Readers |-> IF t \in Everyone THEN "lock" ELSE "done"]
    /\ UNCHANGED <<locked, shared, inside, turns, register>>

IncJoin ==
    /\ imain = "join" /\ \A t \in Everyone : ipc[t] = "done"
    /\ imain' = "printed"
    /\ UNCHANGED <<locked, shared, inside, ipc, turns, register>>

(* Seeded fault: writers take the lock for reading.                        *)
MayEnter_ForReading(t) == locked => inside \cap Writers = {} \/ t \in Writers

(* pthread_rwlock_rdlock, pthread_rwlock_wrlock; nothing in ex2.           *)
MayEnter(t) == locked => inside = {} \/ (t \in Readers /\ inside \subseteq Readers)

(* The threads of ex2 do not take the mutex.                               *)
Enter(t) ==
    /\ ipc[t] = "lock" /\ MayEnter(t)
    /\ inside' = (IF locked THEN inside \cup {t} ELSE inside)
    /\ ipc' = [ipc EXCEPT ![t] = "load"]
    /\ UNCHANGED <<locked, shared, turns, register, imain>>

Load(t) ==
    /\ ipc[t] = "load"
    /\ register' = [register EXCEPT ![t] = shared]
    /\ ipc' = [ipc EXCEPT ![t] = IF t \in Writers THEN "store" ELSE "leave"]
    /\ UNCHANGED <<locked, shared, inside, turns, imain>>

(* One increment, or all that are left of the loop of ex2.                 *)
Store(t) ==
    /\ ipc[t] = "store"
    /\ \E n \in {1} \cup (IF locked \/ turns[t] > 0 THEN {} ELSE {Increment}) :
         /\ shared' = register[t] + n
         /\ turns' = [turns EXCEPT ![t] = @ + n]
    /\ ipc' = [ipc EXCEPT ![t] = "leave"]
    /\ UNCHANGED <<locked, inside, register, imain>>

(* Seeded fault: a reader that has done all its rounds keeps the lock.     *)
Leave_LastKeepsLock(t) ==
    /\ ipc[t] = "leave"
    /\ turns' = (IF t \in Readers THEN [turns EXCEPT ![t] = @ + 1] ELSE turns)
    /\ inside' = (IF t \in Readers /\ turns'[t] = Increment THEN inside ELSE inside \ {t})
    /\ ipc' = [ipc EXCEPT ![t] = IF turns'[t] < Increment THEN "lock" ELSE "done"]
    /\ UNCHANGED <<locked, shared, register, imain>>

(* Unlock; usleep() is a stutter.                                          *)
Leave(t) ==
    /\ ipc[t] = "leave"
    /\ inside' = inside \ {t}
    /\ turns' = (IF t \in Readers THEN [turns EXCEPT ![t] = @ + 1] ELSE turns)
    /\ ipc' = [ipc EXCEPT ![t] = IF turns'[t] < Increment THEN "lock" ELSE "done"]
    /\ UNCHANGED <<locked, shared, register, imain>>

IncStep(t) == Enter(t) \/ Load(t) \/ Store(t) \/ Leave(t)

IncNext == IncRun \/ IncJoin \/ \E t \in Writers \cup Readers : IncStep(t)

IncGoes == IncJoin \/ \E t \in Writers \cup Readers : IncStep(t)

-----------------------------------------------------------------------------
(* The value that is printed in the end.  Under the write lock no          *)
(* increment is lost, however many readers are let in together.  Without   *)
(* it nearly all may be: two are all that the program can be sure of, and  *)
(* it never counts too much (increment_counter, write_function).           *)
CounterBounds ==
    imain = "printed" =>
        LET all == Cardinality(Writers) * Increment IN
        IF locked THEN shared = Initial + all
                  ELSE shared \in (Initial + 2)..(Initial + all)

(* Both programs end: no writer is kept out for ever, as every reader ends *)
(* (the joins in main).                                                    *)
IncEnds == []<>(imain # "join")
=============================================================================
