--------------------------- MODULE BoundedBuffer ---------------------------
(***************************************************************************)
(* The producers and consumers of S4_Thread/nConsumer.c: one ring buffer,  *)
(* one mutex, and a condition variable for each side.                      *)
(*                                                                         *)
(* The statements between the while loop and the signal touch only what    *)
(* the mutex guards and are one step; the test of the loop, the signal and *)
(* the unlock are steps of their own.  pthread_cond_wait releases the      *)
(* mutex and sleeps in one step, may wake up with no signal, and takes the *)
(* mutex again before it returns.  usleep() is a stutter.                  *)
(***************************************************************************)
EXTENDS Naturals, FiniteSets

CONSTANTS
    BUFFER_SIZE, NUM_PRODUCERS, NUM_CONSUMERS, NUM_ITEMS,
    Items,         \* what rand() % 100 may return
    MaxSpurious    \* bound on the wakeups without a signal

Threads   == 1..(NUM_PRODUCERS + NUM_CONSUMERS)      \* in the order main creates them
Producers == 1..NUM_PRODUCERS
Consumers == Threads \ Producers

Places == 0..(BUFFER_SIZE - 1)

(* How often each thread goes through its for loop.                        *)
Rounds(t) ==
    IF t \in Producers THEN NUM_ITEMS
    ELSE (NUM_PRODUCERS * NUM_ITEMS) \div NUM_CONSUMERS

(* The consumers may leave items behind, no more than the buffer holds.    *)
ASSUME BufferAssumption ==
    /\ BUFFER_SIZE \in Nat \ {0} /\ NUM_PRODUCERS \in Nat \ {0}
    /\ NUM_CONSUMERS \in Nat \ {0} /\ NUM_ITEMS \in Nat /\ MaxSpurious \in Nat
    /\ 0 \in Items
    /\ (NUM_PRODUCERS * NUM_ITEMS) % NUM_CONSUMERS <= BUFFER_SIZE

VARIABLES
    buffer, count, in, out,    \* the globals
    lock,                      \* the thread that holds the mutex, 0 for none
    pc,                        \* where each thread is
    round,                     \* i of its for loop
    id,                        \* the number it read through its argument, 0 before
    item,                      \* the item it took out last
    ids,                       \* the array in main the arguments point into
    main,                      \* threads created so far, then those plus threads joined
    spurious                   \* wakeups without a signal so far

vars == <<buffer, count, in, out, lock, pc, round, id, item, ids, main, spurious>>

globals == <<buffer, count, in, out>>

-----------------------------------------------------------------------------
Number(t) == IF t \in Producers THEN t ELSE t - NUM_PRODUCERS

Last == NUM_PRODUCERS + NUM_CONSUMERS

Init ==
    /\ buffer = [k \in Places |-> 0] /\ count = 0 /\ in = 0 /\ out = 0
    /\ lock = 0
    /\ pc = [t \in Threads |-> "unborn"]
    /\ round = [t \in Threads |-> 0]
    /\ id = [t \in Threads |-> 0]
    /\ item = [t \in Threads |-> 0]
    /\ ids = [t \in Threads |-> 0]
    /\ main = 0 /\ spurious = 0

Goto(t, place) == pc' = [pc EXCEPT ![t] = place]

(* Where the for loop continues with n rounds done.                        *)
Loop(t, n) == IF n < Rounds(t) THEN "lock" ELSE "done"

-----------------------------------------------------------------------------
(* Seeded fault: the consumers are numbered on from the producers.         *)
Create_NumberOn ==
    /\ main < Last
    /\ main' = main + 1
    /\ ids' = [ids EXCEPT ![Number(main + 1)] = main + 1]
    /\ Goto(main + 1, "enter")
    /\ UNCHANGED <<globals, lock, round, id, item, spurious>>

(* main creates the producers, then the consumers; both kinds get pointers *)
(* to the same elements of ids.                                            *)
Create ==
    /\ main < Last
    /\ main' = main + 1
    /\ ids' = [ids EXCEPT ![Number(main + 1)] = Number(main + 1)]
    /\ Goto(main + 1, "enter")
    /\ UNCHANGED <<globals, lock, round, id, item, spurious>>

(* It joins them in the same order.                                        *)
Join ==
    /\ main \in Last..(2 * Last - 1)
    /\ pc[main - Last + 1] = "done"
    /\ main' = main + 1
    /\ UNCHANGED <<globals, lock, pc, round, id, item, ids, spurious>>

(* It destroys the mutex and the condition variables and returns.          *)
Destroy ==
    /\ main = 2 * Last
    /\ main' = main + 1
    /\ UNCHANGED <<globals, lock, pc, round, id, item, ids, spurious>>

-----------------------------------------------------------------------------
(* producer and consumer.                                                  *)

Enter(t) ==
    /\ pc[t] = "enter"
    /\ id' = [id EXCEPT ![t] = ids[Number(t)]]
    /\ Goto(t, Loop(t, 0))
    /\ UNCHANGED <<globals, lock, round, item, ids, main, spurious>>

(* Seeded fault: if instead of while, the test is not made after a wait.   *)
Lock_TestOnce(t) ==
    /\ pc[t] \in {"lock", "relock"} /\ lock = 0
    /\ lock' = t
    /\ Goto(t, IF pc[t] = "lock" THEN "test" ELSE "act")
    /\ UNCHANGED <<globals, round, id, item, ids, main, spurious>>

(* pthread_mutex_lock, and the end of pthread_cond_wait.                   *)
Lock(t) ==
    /\ pc[t] \in {"lock", "relock"} /\ lock = 0
    /\ lock' = t
    /\ Goto(t, "test")
    /\ UNCHANGED <<globals, round, id, item, ids, main, spurious>>

MustWait(t) == count = IF t \in Producers THEN BUFFER_SIZE ELSE 0

(* The while loop: wait, or go on.                                         *)
Test(t) ==
    /\ pc[t] = "test"
    /\ IF MustWait(t) THEN lock' = 0 /\ Goto(t, "wait")
                      ELSE UNCHANGED lock /\ Goto(t, "act")
    /\ UNCHANGED <<globals, round, id, item, ids, main, spurious>>

Produce(t) ==
    /\ t \in Producers /\ pc[t] = "act"
    /\ \E x \in Items : buffer' = [buffer EXCEPT ![in] = x]
    /\ in' = (in + 1) % BUFFER_SIZE
    /\ count' = count + 1
    /\ Goto(t, "signal")
    /\ UNCHANGED <<out, lock, round, id, item, ids, main, spurious>>

(* Seeded fault: out moves on before the item is read.                     *)
Consume_Late(t) ==
    /\ t \in Consumers /\ pc[t] = "act"
    /\ out' = (out + 1) % BUFFER_SIZE
    /\ item' = [item EXCEPT ![t] = buffer[out']]
    /\ count' = count - 1
    /\ Goto(t, "signal")
    /\ UNCHANGED <<buffer, in, lock, round, id, ids, main, spurious>>

Consume(t) ==
    /\ t \in Consumers /\ pc[t] = "act"
    /\ item' = [item EXCEPT ![t] = buffer[out]]
    /\ out' = (out + 1) % BUFFER_SIZE
    /\ count' = count - 1
    /\ Goto(t, "signal")
    /\ UNCHANGED <<buffer, in, lock, round, id, ids, main, spurious>>

(* The side a thread signals, and who of it sleeps.                        *)
Other(t) == IF t \in Producers THEN Consumers ELSE Producers

At(S, places) == {t \in S : pc[t] \in places}

(* Seeded fault: the signal goes to the thread's own side.                 *)
Signal_OwnSide(t) ==
    /\ pc[t] = "signal"
    /\ LET asleep == At(Threads \ Other(t), {"wait"}) IN
         IF asleep = {} THEN Goto(t, "unlock")
         ELSE \E w \in asleep : pc' = [pc EXCEPT ![t] = "unlock", ![w] = "relock"]
    /\ UNCHANGED <<globals, lock, round, id, item, ids, main, spurious>>

(* pthread_cond_signal: one of the sleepers wakes up, if there are any.    *)
Signal(t) ==
    /\ pc[t] = "signal"
    /\ LET asleep == At(Other(t), {"wait"}) IN
         IF asleep = {} THEN Goto(t, "unlock")
         ELSE \E w \in asleep : pc' = [pc EXCEPT ![t] = "unlock", ![w] = "relock"]
    /\ UNCHANGED <<globals, lock, round, id, item, ids, main, spurious>>

Unlock(t) ==
    /\ pc[t] = "unlock"
    /\ lock' = 0
    /\ round' = [round EXCEPT ![t] = @ + 1]
    /\ Goto(t, Loop(t, round'[t]))
    /\ UNCHANGED <<globals, id, item, ids, main, spurious>>

Spurious(t) ==
    /\ pc[t] = "wait" /\ spurious < MaxSpurious
    /\ spurious' = spurious + 1
    /\ Goto(t, "relock")
    /\ UNCHANGED <<globals, lock, round, id, item, ids, main>>

-----------------------------------------------------------------------------
MainStep == Create \/ Join \/ Destroy

Step(t) ==
    Enter(t) \/ Lock(t) \/ Test(t) \/ Produce(t) \/ Consume(t) \/ Signal(t) \/ Unlock(t)

Finished == main = 2 * Last + 1 /\ UNCHANGED vars

Next == MainStep \/ (\E t \in Threads : Step(t) \/ Spurious(t)) \/ Finished

Spec == Init /\ [][Next]_vars

(* Every thread is scheduled; the mutex makes no promise about the order   *)
(* in which it lets threads in, and nothing makes a thread wake up alone.  *)
FairSpec == Spec /\ WF_vars(MainStep) /\ \A t \in Threads : WF_vars(Step(t))

-----------------------------------------------------------------------------
(* Properties.                                                             *)

(* No wakeup is lost although each change signals one sleeper only: while  *)
(* a producer sleeps there are no more free places than producers on their *)
(* way to one and consumers about to signal; and the same for consumers    *)
(* and items.                                                              *)
NoLostWakeup ==
    /\ At(Producers, {"wait"}) # {} =>
           BUFFER_SIZE - count <= Cardinality(At(Producers, {"relock", "test", "act"}))
                                    + Cardinality(At(Consumers, {"signal"}))
    /\ At(Consumers, {"wait"}) # {} =>
           count <= Cardinality(At(Consumers, {"relock", "test", "act"}))
                      + Cardinality(At(Producers, {"signal"}))

(* Each thread prints its own number, although both kinds of threads point *)
(* into one array that main goes on writing while they read it.            *)
OwnNumber == \A t \in Threads : id[t] \in {0, Number(t)}

(* The ring is a first-in first-out queue: every item a consumer gets is   *)
(* the oldest one, and none is overwritten, lost or handed out twice.      *)
Abstract == INSTANCE BoundedQueue WITH
    Capacity <- BUFFER_SIZE, Nothing <- 0,
    queue <- [k \in 1..count |-> buffer[(out + k - 1) % BUFFER_SIZE]],
    taken <- [c \in Consumers |-> item[c]]

ImplementsQueue == Abstract!Spec

(* The program ends: no thread is left asleep and main joins them all.     *)
Termination == <>(main > 2 * Last)
====
