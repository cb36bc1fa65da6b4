------------------------------- MODULE Handoff -------------------------------
(***************************************************************************)
(* S4_Thread/ex3_condition_variable.c: a producer hands NUMBER_DATAS       *)
(* values to a consumer through one variable and a flag, with one          *)
(* condition variable for both directions.                                 *)
(***************************************************************************)
EXTENDS Naturals, Sequences

CONSTANTS
    NUMBER_DATAS,
    Values,        \* what rand() may return
    MaxWakeups     \* bound on the wakeups without a signal

Roles == {"producer", "consumer"}

VARIABLES
    g_data, g_data_ready,   \* the globals
    holder,                 \* who holds g_lock, or "none"
    hpc,                    \* place of each thread, "off" before it is created
    rounds,                 \* i of each for loop
    received,               \* what the consumer printed last
    hmain,                  \* main: "off", "create", "join", "destroyed"
    wakeups                 \* wakeups without a signal so far

handoffVars == <<g_data, g_data_ready, holder, hpc, rounds, received, hmain, wakeups>>

HandoffInit ==
    /\ g_data = 0 /\ g_data_ready = FALSE
    /\ holder = "none"
    /\ hpc = [t \in Roles |-> "off"]
    /\ rounds = [t \in Roles |-> 0]
    /\ received = 0
    /\ hmain = "off" /\ wakeups = 0

Moves(t, place) == hpc' = [hpc EXCEPT ![t] = place]

Partner(t) == IF t = "producer" THEN "consumer" ELSE "producer"

-----------------------------------------------------------------------------
(* The program is run.                                                     *)
HandoffRun ==
    /\ hmain = "off" /\ hmain' = "create"
    /\ UNCHANGED <<g_data, g_data_ready, holder, hpc, rounds, received, wakeups>>

(* main creates the producer first, ...                                    *)
CreateThread(t) ==
    /\ hmain = "create" /\ hpc[t] = "off"
    /\ t = "consumer" => hpc["producer"] # "off"
    /\ Moves(t, "lock")
    /\ hmain' = (IF t = "consumer" THEN "join" ELSE hmain)
    /\ UNCHANGED <<g_data, g_data_ready, holder, rounds, received, wakeups>>

(* ... joins both, and destroys the mutex and the condition variable.      *)
JoinBoth ==
    /\ hmain = "join" /\ \A t \in Roles : hpc[t] = "done"
    /\ hmain' = "destroyed"
    /\ UNCHANGED <<g_data, g_data_ready, holder, hpc, rounds, received, wakeups>>

(* Seeded fault: if instead of while.                                      *)
TakeLock_If(t) ==
    /\ hpc[t] \in {"lock", "woken"} /\ holder = "none"
    /\ holder' = t /\ Moves(t, IF hpc[t] = "lock" THEN "test" ELSE "act")
    /\ UNCHANGED <<g_data, g_data_ready, rounds, received, hmain, wakeups>>

TakeLock(t) ==
    /\ hpc[t] \in {"lock", "woken"} /\ holder = "none"
    /\ holder' = t /\ Moves(t, "test")
    /\ UNCHANGED <<g_data, g_data_ready, rounds, received, hmain, wakeups>>

(* while (g_data_ready), while (!g_data_ready): wait, or go on.            *)
TestFlag(t) ==
    /\ hpc[t] = "test"
    /\ IF g_data_ready = (t = "producer")
       THEN holder' = "none" /\ Moves(t, "asleep")
       ELSE UNCHANGED holder /\ Moves(t, "act")
    /\ UNCHANGED <<g_data, g_data_ready, rounds, received, hmain, wakeups>>

PutData ==
    /\ hpc["producer"] = "act"
    /\ g_data' \in Values
    /\ g_data_ready' = TRUE
    /\ Moves("producer", "signal")
    /\ UNCHANGED <<holder, rounds, received, hmain, wakeups>>

GetData ==
    /\ hpc["consumer"] = "act"
    /\ received' = g_data
    /\ g_data_ready' = FALSE
    /\ Moves("consumer", "signal")
    /\ UNCHANGED <<g_data, holder, rounds, hmain, wakeups>>

(* Seeded fault: the consumer does not signal.                             *)
SignalUnlock_ProducerOnly(t) ==
    /\ hpc[t] = "signal"
    /\ rounds' = [rounds EXCEPT ![t] = @ + 1]
    /\ LET next == IF rounds'[t] < NUMBER_DATAS THEN "lock" ELSE "done" IN
         hpc' = [hpc EXCEPT ![t] = next,
                            ![Partner(t)] = IF @ = "asleep" /\ t = "producer" THEN "woken" ELSE @]
    /\ holder' = "none"
    /\ UNCHANGED <<g_data, g_data_ready, received, hmain, wakeups>>

(* pthread_cond_signal can only meet the partner; the unlock follows.      *)
SignalUnlock(t) ==
    /\ hpc[t] = "signal"
    /\ rounds' = [rounds EXCEPT ![t] = @ + 1]
    /\ LET next == IF rounds'[t] < NUMBER_DATAS THEN "lock" ELSE "done" IN
         hpc' = [hpc EXCEPT ![t] = next, ![Partner(t)] = IF @ = "asleep" THEN "woken" ELSE @]
    /\ holder' = "none"
    /\ UNCHANGED <<g_data, g_data_ready, received, hmain, wakeups>>

WakesUp(t) ==
    /\ hpc[t] = "asleep" /\ wakeups < MaxWakeups
    /\ wakeups' = wakeups + 1 /\ Moves(t, "woken")
    /\ UNCHANGED <<g_data, g_data_ready, holder, rounds, received, hmain>>

-----------------------------------------------------------------------------
ThreadStep(t) ==
    \/ TakeLock(t) \/ TestFlag(t) \/ SignalUnlock(t)
    \/ t = "producer" /\ PutData
    \/ t = "consumer" /\ GetData

HandoffMain == JoinBoth \/ \E t \in Roles : CreateThread(t)

HandoffNext == HandoffRun \/ HandoffMain \/ \E t \in Roles : ThreadStep(t) \/ WakesUp(t)

HandoffGoes == HandoffMain \/ \E t \in Roles : ThreadStep(t)

-----------------------------------------------------------------------------
Slot == INSTANCE BoundedQueue WITH
    Items <- Values, Consumers <- {"consumer"}, Capacity <- 1, Nothing <- 0,
    queue <- IF g_data_ready THEN <<g_data>> ELSE <<>>,
    taken <- [c \in {"consumer"} |-> received]

(* g_data and its flag are a queue of one place: no value is overwritten   *)
(* before the consumer printed it, none is printed twice (both loops).     *)
HandsOver == Slot!Spec

(* One condition variable and one signal per change are enough: the        *)
(* program ends once it was started, with nobody left asleep.              *)
HandoffEnds == []<>(hmain \in {"off", "destroyed"})
=============================================================================
