------------------------ MODULE BoundedBufferProofs ------------------------
(* Proofs about BoundedBuffer, for every size of the ring and every number *)
(* of threads, items and spurious wakeups.                                 *)
EXTENDS BoundedBuffer, TLAPS, FiniteSetTheorems, SequenceTheorems

-----------------------------------------------------------------------------
(* The invariant.                                                          *)

ThreadPlaces == {"unborn", "enter", "lock", "test", "wait", "relock",
                 "act", "signal", "unlock", "done"}

Types ==
    /\ buffer \in [Places -> Items] /\ in \in Places /\ out \in Places
    /\ count \in 0..BUFFER_SIZE
    /\ lock \in Threads \cup {0}
    /\ pc \in [Threads -> ThreadPlaces]
    /\ round \in [Threads -> Nat] /\ id \in [Threads -> Nat]
    /\ item \in [Threads -> Items] /\ ids \in [Threads -> Nat]
    /\ main \in 0..(2 * Last + 1) /\ spurious \in 0..MaxSpurious

(* Whoever is between lock and unlock holds the mutex, and what the while  *)
(* loop established still holds when the thread acts.                      *)
Guarded ==
    /\ \A t \in Threads : pc[t] \in {"test", "act", "signal", "unlock"} => lock = t
    /\ \A t \in Threads : pc[t] = "act" => ~MustWait(t)

(* Where the next item goes follows from the two other globals.            *)
Ring == in = (out + count) % BUFFER_SIZE

(* Elements of ids are rewritten, but only with the number they have.      *)
Numbers ==
    /\ \A t \in Threads : pc[t] # "unborn" => ids[Number(t)] = Number(t)
    /\ \A n \in Threads : ids[n] \in {0, n}

(* A thread does nothing before main has created it.                       *)
Unborn == \A t \in Threads : t > main => pc[t] = "unborn"

IInv == Types /\ Guarded /\ Ring /\ Unborn

-----------------------------------------------------------------------------
(* Arithmetic of the ring.                                                 *)

(* A sum of a place and a number of items wraps around at most once.       *)
LEMMA Wraps ==
    ASSUME NEW a \in 0..(2 * BUFFER_SIZE - 1)
    PROVE  /\ a % BUFFER_SIZE = IF a < BUFFER_SIZE THEN a ELSE a - BUFFER_SIZE
           /\ a % BUFFER_SIZE \in Places
<1> DEFINE N == BUFFER_SIZE
<1>1. N \in Nat /\ N > 0
  BY BufferAssumption
<1>2. a % N \in 0..(N - 1)
  BY <1>1
<1>3. \A q \in Int, r \in 0..(N - 1) : a = q * N + r => r = a % N
  BY <1>1
<1>4. ASSUME a < N PROVE a % N = a
  <2>1. a = 0 * N + a /\ a \in 0..(N - 1)
    BY <1>1, <1>4
  <2> QED
    BY <1>3, <2>1
<1>5. ASSUME a >= N PROVE a % N = a - N
  <2>1. a = 1 * N + (a - N) /\ a - N \in 0..(N - 1)
    BY <1>1, <1>5
  <2> QED
    BY <1>3, <2>1
<1> QED
  BY <1>1, <1>2, <1>4, <1>5 DEF Places

(* The next place of the ring.                                             *)
LEMMA NextPlace ==
    ASSUME NEW p \in Places
    PROVE  (p + 1) % BUFFER_SIZE \in Places
<1>1. p + 1 \in 0..(2 * BUFFER_SIZE - 1)
  BY BufferAssumption DEF Places
<1> QED
  BY <1>1, Wraps

(* A producer's place moves on with the number of items, ...               *)
LEMMA RingAfterProduce ==
    ASSUME NEW o \in Places, NEW n \in 0..(BUFFER_SIZE - 1)
    PROVE  (((o + n) % BUFFER_SIZE) + 1) % BUFFER_SIZE = (o + (n + 1)) % BUFFER_SIZE
<1>1. /\ o + n \in 0..(2 * BUFFER_SIZE - 1) /\ o + (n + 1) \in 0..(2 * BUFFER_SIZE - 1)
      /\ BUFFER_SIZE \in Nat \ {0}
  BY BufferAssumption DEF Places
<1>2. ((o + n) % BUFFER_SIZE) + 1 \in 0..(2 * BUFFER_SIZE - 1)
  BY <1>1, Wraps DEF Places
<1>3. 0 \in 0..(2 * BUFFER_SIZE - 1) /\ BUFFER_SIZE \in 0..(2 * BUFFER_SIZE - 1)
  BY <1>1
<1> DEFINE a == o + n
           b == o + (n + 1)
           c == (a % BUFFER_SIZE) + 1
<1>4. a % BUFFER_SIZE = IF a < BUFFER_SIZE THEN a ELSE a - BUFFER_SIZE
  BY <1>1, Wraps
<1>5. b % BUFFER_SIZE = IF b < BUFFER_SIZE THEN b ELSE b - BUFFER_SIZE
  BY <1>1, Wraps
<1>6. c % BUFFER_SIZE = IF c < BUFFER_SIZE THEN c ELSE c - BUFFER_SIZE
  BY <1>2, Wraps
<1>7. b = a + 1 /\ a \in Nat /\ a < 2 * BUFFER_SIZE - 1
  BY <1>1 DEF Places
<1> HIDE DEF a, b
<1>8. c % BUFFER_SIZE = b % BUFFER_SIZE
  BY <1>1, <1>4, <1>5, <1>6, <1>7
<1> QED
  BY <1>8 DEF a, b

(* ... and stays where it is while a consumer takes one out.               *)
LEMMA RingAfterConsume ==
    ASSUME NEW o \in Places, NEW n \in 1..BUFFER_SIZE
    PROVE  (o + n) % BUFFER_SIZE = (((o + 1) % BUFFER_SIZE) + (n - 1)) % BUFFER_SIZE
<1> DEFINE a == o + n
           b == o + 1
           c == (b % BUFFER_SIZE) + (n - 1)
<1>1. /\ a \in 0..(2 * BUFFER_SIZE - 1) /\ b \in 0..(2 * BUFFER_SIZE - 1)
      /\ BUFFER_SIZE \in Nat \ {0}
  BY BufferAssumption DEF Places
<1>2. b % BUFFER_SIZE = IF b < BUFFER_SIZE THEN b ELSE b - BUFFER_SIZE
  BY <1>1, Wraps
<1>3. c \in 0..(2 * BUFFER_SIZE - 1)
  BY <1>1, <1>2 DEF Places
<1>4. a % BUFFER_SIZE = IF a < BUFFER_SIZE THEN a ELSE a - BUFFER_SIZE
  BY <1>1, Wraps
<1>5. c % BUFFER_SIZE = IF c < BUFFER_SIZE THEN c ELSE c - BUFFER_SIZE
  BY <1>3, Wraps
<1>6. a \in Nat /\ b \in Nat /\ a = b + (n - 1) /\ b <= BUFFER_SIZE
  BY <1>1 DEF Places
<1> HIDE DEF a, b
<1> QED
  <2>1. a % BUFFER_SIZE = c % BUFFER_SIZE
    BY <1>1, <1>2, <1>4, <1>5, <1>6
  <2> QED
    BY <2>1 DEF a, b

-----------------------------------------------------------------------------
(* The invariant holds.                                                    *)

(* It holds when main starts, the globals being initialised by the loader  *)
(* and the mutex free.                                                     *)
LEMMA InvInit == Init => IInv
<1> SUFFICES ASSUME Init PROVE IInv
  OBVIOUS
<1> USE BufferAssumption DEF Init
<1>1. 0 \in Places /\ 0 % BUFFER_SIZE = 0
  <2>1. 0 \in 0..(2 * BUFFER_SIZE - 1)
    OBVIOUS
  <2> QED
    BY <2>1, Wraps DEF Places
<1>2. Types
  BY <1>1 DEF Types, ThreadPlaces, Threads, Last
<1>3. Guarded
  BY DEF Guarded
<1>4. Ring
  BY <1>1 DEF Ring
<1>5. Unborn
  BY DEF Unborn
<1> QED
  BY <1>2, <1>3, <1>4, <1>5 DEF IInv

(* Every statement of main, producer and consumer preserves it.            *)
LEMMA InvInductive == IInv /\ [Next]_vars => IInv'
<1> SUFFICES ASSUME IInv, [Next]_vars PROVE IInv'
  OBVIOUS
<1> DEFINE Main == Types /\ Guarded /\ Ring
<1> USE BufferAssumption DEF IInv, Types, Guarded, ThreadPlaces
<1>1. ASSUME Create PROVE Main'
  <2>1. main + 1 \in Threads /\ Number(main + 1) \in Nat
    BY <1>1 DEF Create, Last, Threads, Number, Producers
  <2>2. ids' \in [Threads -> Nat] /\ pc' \in [Threads -> ThreadPlaces]
    BY <1>1, <2>1 DEF Create, Goto
  <2>3. Types'
    BY SMTT(30), <1>1, <2>2 DEF Create, globals, Last, Threads
  <2>4. Guarded'
    BY <1>1, <2>1 DEF Create, Goto, globals, MustWait
  <2>5. Ring'
    BY <1>1 DEF Create, globals, Ring
  <2> QED
    BY <2>3, <2>4, <2>5
<1>2. ASSUME Join \/ Destroy PROVE Main'
  BY <1>2 DEF Join, Destroy, globals, MustWait, Ring, Last
<1>3. ASSUME NEW t \in Threads, Enter(t) PROVE Main'
  <2>1. Number(t) \in Threads
    BY DEF Threads, Number, Producers
  <2> QED
    BY <1>3, <2>1 DEF Enter, Goto, Loop, globals, MustWait, Ring
<1>4. ASSUME NEW t \in Threads, Lock(t) PROVE Main'
  <2>1. Types'
    BY <1>4 DEF Lock, Goto, globals
  <2>2. Guarded'
    <3>1. \A u \in Threads : pc[u] \notin {"test", "act", "signal", "unlock"}
      BY SMTT(30), <1>4 DEF Lock, Threads
    <3> QED
      BY <1>4, <3>1 DEF Lock, Goto
  <2>3. Ring'
    BY <1>4 DEF Lock, globals, Ring
  <2> QED
    BY <2>1, <2>2, <2>3
<1>5. ASSUME NEW t \in Threads, Test(t) PROVE Main'
  BY <1>5 DEF Test, Goto, globals, MustWait, Ring, Threads
<1>6. ASSUME NEW t \in Threads, Produce(t) PROVE Main'
  <2>1. count \in 0..(BUFFER_SIZE - 1) /\ lock = t
    BY <1>6 DEF Produce, MustWait
  <2>2. in' \in Places
    BY <1>6, NextPlace DEF Produce
  <2>3. Ring'
    BY <1>6, <2>1, RingAfterProduce DEF Produce, Ring
  <2>4. Types'
    BY <1>6, <2>1, <2>2 DEF Produce, Goto
  <2>5. Guarded'
    BY <1>6, <2>1 DEF Produce, Goto, MustWait
  <2> QED
    BY <2>3, <2>4, <2>5
<1>7. ASSUME NEW t \in Threads, Consume(t) PROVE Main'
  <2>1. count \in 1..BUFFER_SIZE /\ lock = t
    BY <1>7 DEF Consume, MustWait, Consumers
  <2>2. out' \in Places
    BY <1>7, NextPlace DEF Consume
  <2>3. Ring'
    BY <1>7, <2>1, RingAfterConsume DEF Consume, Ring
  <2>4. Types'
    BY <1>7, <2>1, <2>2 DEF Consume, Goto
  <2>5. Guarded'
    BY <1>7, <2>1 DEF Consume, Goto, MustWait
  <2> QED
    BY <2>3, <2>4, <2>5
<1>8. ASSUME NEW t \in Threads, Signal(t) PROVE Main'
  <2>1. CASE Goto(t, "unlock")
    BY <1>8, <2>1 DEF Signal, Goto, globals, MustWait, Ring
  <2>2. CASE \E w \in At(Other(t), {"wait"}) : pc' = [pc EXCEPT ![t] = "unlock", ![w] = "relock"]
    BY ZenonT(30), <1>8, <2>2 DEF Signal, globals, MustWait, Ring, At, Other, Producers, Consumers, Threads
  <2> QED
    BY <1>8, <2>1, <2>2 DEF Signal
<1>9. ASSUME NEW t \in Threads, Unlock(t) PROVE Main'
  BY <1>9 DEF Unlock, Goto, Loop, globals, MustWait, Ring
<1>10. ASSUME NEW t \in Threads, Spurious(t) PROVE Main'
  BY <1>10 DEF Spurious, Goto, globals, MustWait, Ring
<1>11. ASSUME UNCHANGED vars PROVE Main'
  BY <1>11 DEF vars, MustWait, Ring
<1>12. Main'
  BY <1>1, <1>2, <1>3, <1>4, <1>5, <1>6, <1>7, <1>8, <1>9, <1>10, <1>11
     DEF Next, MainStep, Step, Finished
<1>13. Unborn'
  <2> USE DEF Unborn
  <2>1. CASE Create
    BY <2>1 DEF Create, Goto, Last, Threads
  <2>2. CASE Join \/ Destroy \/ UNCHANGED vars
    <3>1. pc' = pc /\ main' >= main /\ main \in Nat /\ main' \in Nat
      BY <2>2 DEF Join, Destroy, vars
    <3> QED
      BY <3>1 DEF Threads
  <2>3. ASSUME NEW t \in Threads, Step(t) \/ Spurious(t) PROVE Unborn'
    <3>1. main' = main
      BY <2>3 DEF Step, Spurious, Enter, Lock, Test, Produce, Consume, Signal, Unlock
    <3>2. \A u \in Threads : pc[u] = "unborn" => pc'[u] = "unborn"
      <4>1. CASE Signal(t)
        BY <4>1 DEF Signal, Goto, At
      <4> QED
        BY <2>3, <4>1 DEF Step, Spurious, Enter, Lock, Test, Produce, Consume, Unlock, Goto
    <3> QED
      BY <3>1, <3>2
  <2> QED
    BY <2>1, <2>2, <2>3 DEF Next, MainStep, Finished
<1> QED
  BY <1>12, <1>13

(* The ring stays within its bounds and its indices agree, and a thread    *)
(* puts in or takes out only while it holds the mutex and the condition of *)
(* its while loop is true, however often and for whatever reason it woke   *)
(* up (producer, consumer).                                                *)
THEOREM RingIsSafe == Spec => []IInv
BY InvInit, InvInductive, PTL DEF Spec

(* Each thread prints its own number.                                      *)
THEOREM NumbersAreOwn == Spec => []OwnNumber
<1> DEFINE Inv == IInv /\ Numbers /\ OwnNumber
<1>1. Init => Inv
  BY InvInit DEF Init, Numbers, OwnNumber
<1>2. Inv /\ [Next]_vars => Inv'
  <2> SUFFICES ASSUME IInv, Numbers, OwnNumber, [Next]_vars PROVE (Numbers /\ OwnNumber)'
    BY InvInductive
  <2> USE BufferAssumption DEF IInv, Types, Numbers, OwnNumber
  <2>1. \A t \in Threads : Number(t) \in Threads
    BY DEF Threads, Number, Producers
  <2>2. CASE Create
    <3>1. main + 1 \in Threads
      BY <2>2 DEF Create, Last, Threads
    <3> QED
      BY <2>1, <2>2, <3>1 DEF Create, Goto
  <2>3. ASSUME NEW t \in Threads, Enter(t) PROVE (Numbers /\ OwnNumber)'
    BY <2>1, <2>3 DEF Enter, Goto
  <2>4. ASSUME NEW t \in Threads, Lock(t) \/ Test(t) \/ Produce(t) \/ Consume(t) \/ Unlock(t) \/ Spurious(t)
        PROVE  (Numbers /\ OwnNumber)'
    BY <2>4 DEF Lock, Test, Produce, Consume, Unlock, Spurious, Goto
  <2>5. ASSUME NEW t \in Threads, Signal(t) PROVE (Numbers /\ OwnNumber)'
    <3>1. \A u \in Threads : pc'[u] # "unborn" => pc[u] # "unborn"
      BY <2>5 DEF Signal, Goto, At, ThreadPlaces
    <3> QED
      BY <2>5, <3>1 DEF Signal
  <2>6. CASE Join \/ Destroy \/ UNCHANGED vars
    BY <2>6 DEF Join, Destroy, vars
  <2> QED
    BY <2>2, <2>3, <2>4, <2>5, <2>6 DEF Next, MainStep, Step, Finished
<1> QED
  BY <1>1, <1>2, PTL DEF Spec

-----------------------------------------------------------------------------
(* No lost wakeup.                                                         *)

(* How many threads of S are at one of the places P, under the program     *)
(* counters f.                                                             *)
Crowd(f, S, P) == Cardinality({u \in S : f[u] \in P})

(* The threads of S that found room, or will look for it before they wait. *)
OnWay == {"relock", "test", "act"}

(* What one thread's move makes of the crowds of one kind of threads.      *)
Shift(f, g, t, place, S) ==
    /\ Crowd(f, S, {"wait"}) \in Nat /\ Crowd(f, S, OnWay) \in Nat
    /\ Crowd(f, S, {"signal"}) \in Nat
    /\ Crowd(g, S, {"wait"}) \in Nat /\ Crowd(g, S, OnWay) \in Nat
    /\ Crowd(g, S, {"signal"}) \in Nat
    /\ Crowd(g, S, {"wait"}) = Crowd(f, S, {"wait"})
           + (IF t \in S /\ place = "wait" THEN 1 ELSE 0)
           - (IF t \in S /\ f[t] = "wait" THEN 1 ELSE 0)
    /\ Crowd(g, S, OnWay) = Crowd(f, S, OnWay)
           + (IF t \in S /\ place \in OnWay THEN 1 ELSE 0)
           - (IF t \in S /\ f[t] \in OnWay THEN 1 ELSE 0)
    /\ Crowd(g, S, {"signal"}) = Crowd(f, S, {"signal"})
           + (IF t \in S /\ place = "signal" THEN 1 ELSE 0)
           - (IF t \in S /\ f[t] = "signal" THEN 1 ELSE 0)

Shifts(f, g, t, place) ==
    Shift(f, g, t, place, Producers) /\ Shift(f, g, t, place, Consumers)

(* Each statement of a thread moves that thread, so it shifts the crowds.  *)
LEMMA MoveShifts ==
    ASSUME NEW f \in [Threads -> ThreadPlaces], NEW t \in Threads,
           NEW place \in ThreadPlaces, NEW g, g = [f EXCEPT ![t] = place]
    PROVE  Shifts(f, g, t, place)
<1>1. ASSUME NEW S \in SUBSET Threads, NEW P \in SUBSET ThreadPlaces
      PROVE  /\ Crowd(f, S, P) \in Nat /\ Crowd(g, S, P) \in Nat
             /\ Crowd(g, S, P) = Crowd(f, S, P)
                    + (IF t \in S /\ place \in P THEN 1 ELSE 0)
                    - (IF t \in S /\ f[t] \in P THEN 1 ELSE 0)
  <2> DEFINE A == {u \in S : f[u] \in P}
             B == {u \in S : g[u] \in P}
  <2>1. IsFiniteSet(A) /\ IsFiniteSet(B)
    <3>1. IsFiniteSet(Threads)
      BY BufferAssumption, FS_Interval DEF Threads
    <3> QED
      BY <3>1, FS_Subset
  <2>2. Cardinality(A) \in Nat /\ Cardinality(B) \in Nat
    BY <2>1, FS_CardinalityType
  <2>3. CASE t \in S /\ place \in P /\ f[t] \notin P
    <3>1. B = A \cup {t} /\ t \notin A
      BY <2>3
    <3>2. Cardinality(B) = Cardinality(A) + 1
      BY <2>1, <3>1, FS_AddElement
    <3> QED
      BY <2>2, <2>3, <3>2 DEF Crowd
  <2>4. CASE t \in S /\ place \notin P /\ f[t] \in P
    <3>1. B = A \ {t} /\ t \in A
      BY <2>4
    <3> HIDE DEF A, B
    <3>2. Cardinality(B) = Cardinality(A) - 1
      BY <2>1, <3>1, FS_RemoveElement
    <3> QED
      BY <2>2, <2>4, <3>2 DEF Crowd, A, B
  <2>5. CASE t \notin S \/ (place \in P <=> f[t] \in P)
    <3>1. B = A
      BY <2>5
    <3>2. Crowd(g, S, P) = Crowd(f, S, P)
      BY <3>1 DEF Crowd
    <3>3. (t \in S /\ place \in P) <=> (t \in S /\ f[t] \in P)
      BY <2>5
    <3>4. Crowd(f, S, P) \in Nat
      BY <2>2 DEF Crowd
    <3> QED
      BY <3>2, <3>3, <3>4
  <2> QED
    BY <2>3, <2>4, <2>5
<1>2. /\ {"wait"} \in SUBSET ThreadPlaces /\ {"signal"} \in SUBSET ThreadPlaces
      /\ OnWay \in SUBSET ThreadPlaces
  BY DEF OnWay, ThreadPlaces
<1>3. ASSUME NEW S \in SUBSET Threads PROVE Shift(f, g, t, place, S)
  BY ZenonT(30), <1>1, <1>2 DEF Shift
<1>4. Producers \in SUBSET Threads /\ Consumers \in SUBSET Threads
  BY BufferAssumption DEF Producers, Consumers, Threads
<1> QED
  BY <1>3, <1>4 DEF Shifts

(* One side of the property: if somebody of S sleeps, then what is there   *)
(* for them, n, is spoken for.                                             *)
SpokenFor(f, S, T, n) ==
    Crowd(f, S, {"wait"}) # 0 => n <= Crowd(f, S, OnWay) + Crowd(f, T, {"signal"})

Awake ==
    /\ SpokenFor(pc, Producers, Consumers, BUFFER_SIZE - count)
    /\ SpokenFor(pc, Consumers, Producers, count)

(* It is what the runs check, with the sleepers counted.                   *)
LEMMA AwakeIsNoLostWakeup ==
    ASSUME Types
    PROVE  Awake <=> NoLostWakeup
<1>1. Producers \in SUBSET Threads /\ Consumers \in SUBSET Threads
  BY BufferAssumption DEF Producers, Consumers, Threads
<1>2. ASSUME NEW S \in SUBSET Threads
      PROVE  Crowd(pc, S, {"wait"}) # 0 <=> At(S, {"wait"}) # {}
  <2>1. IsFiniteSet(Threads)
    BY BufferAssumption, FS_Interval DEF Threads
  <2>2. IsFiniteSet({u \in S : pc[u] \in {"wait"}})
    BY <2>1, FS_Subset
  <2> QED
    BY <2>2, FS_EmptySet DEF Crowd, At
<1> QED
  BY <1>1, <1>2 DEF Awake, SpokenFor, NoLostWakeup, At, Crowd, OnWay

(* No statement of a thread takes a place away from a sleeper unless it    *)
(* is itself one of those on their way, and none forgets to signal.        *)
LEMMA AwakeInductive == IInv /\ Awake /\ [Next]_vars => Awake'
<1> SUFFICES ASSUME IInv, Awake, [Next]_vars PROVE Awake'
  OBVIOUS
<1>1. /\ Producers \in SUBSET Threads /\ Consumers \in SUBSET Threads
      /\ \A t \in Threads : t \in Consumers <=> t \notin Producers
      /\ BUFFER_SIZE \in Nat /\ count \in 0..BUFFER_SIZE
      /\ pc \in [Threads -> ThreadPlaces]
  BY BufferAssumption DEF Producers, Consumers, Threads, IInv, Types, ThreadPlaces
<1>2. ASSUME NEW t \in Threads, NEW place \in ThreadPlaces, Goto(t, place)
      PROVE  Shifts(pc, pc', t, place)
  BY <1>1, <1>2, MoveShifts DEF Goto
<1>0. \A x : x \in OnWay <=> x = "relock" \/ x = "test" \/ x = "act"
  BY DEF OnWay
<1> USE <1>0 DEF Awake, SpokenFor, Shifts, Shift
<1>3. CASE Create
  <2>1. main + 1 \in Threads /\ "enter" \in ThreadPlaces /\ Goto(main + 1, "enter") /\ count' = count
        /\ pc[main + 1] = "unborn"
    BY <1>3, BufferAssumption DEF Create, Last, Threads, IInv, Types, Unborn, globals, ThreadPlaces
  <2> QED
    BY <1>1, <1>2, <2>1
<1>4. CASE Join \/ Destroy \/ UNCHANGED vars
  BY <1>4 DEF Join, Destroy, vars, globals
<1>5. ASSUME NEW t \in Threads, Enter(t) \/ Unlock(t) PROVE Awake'
  <2>1. PICK place \in {"lock", "done"} : Goto(t, place) /\ count' = count
    BY <1>5 DEF Enter, Unlock, Loop, globals
  <2>2. place \in ThreadPlaces /\ pc[t] \notin {"wait", "signal", "relock", "test", "act"}
    BY <1>5 DEF Enter, Unlock, ThreadPlaces
  <2> QED
    BY <1>1, <1>2, <2>1, <2>2
<1>6. ASSUME NEW t \in Threads, Lock(t) PROVE Awake'
  <2>1. Goto(t, "test") /\ "test" \in ThreadPlaces /\ count' = count /\ pc[t] \notin {"wait", "signal"}
    BY <1>6 DEF Lock, globals, ThreadPlaces
  <2> QED
    BY <1>1, <1>2, <2>1
<1>7. ASSUME NEW t \in Threads, Test(t) PROVE Awake'
  <2>1. count' = count /\ pc[t] = "test"
    BY <1>7 DEF Test, globals
  <2>2. CASE MustWait(t)
    <3>1. Goto(t, "wait") /\ "wait" \in ThreadPlaces
      BY <1>7, <2>2 DEF Test, ThreadPlaces
    <3>2. IF t \in Producers THEN BUFFER_SIZE - count = 0 ELSE count = 0
      BY <1>1, <2>2 DEF MustWait
    <3> QED
      BY <1>1, <1>2, <2>1, <3>1, <3>2
  <2>3. CASE ~MustWait(t)
    <3>1. Goto(t, "act") /\ "act" \in ThreadPlaces
      BY <1>7, <2>3 DEF Test, ThreadPlaces
    <3> QED
      BY <1>1, <1>2, <2>1, <3>1
  <2> QED
    BY <2>2, <2>3
<1>8. ASSUME NEW t \in Threads, Produce(t) PROVE Awake'
  <2>1. /\ Goto(t, "signal") /\ "signal" \in ThreadPlaces /\ pc[t] = "act"
        /\ count' = count + 1 /\ t \in Producers /\ t \notin Consumers
    BY <1>8, <1>1 DEF Produce, ThreadPlaces
  <2>2. Shifts(pc, pc', t, "signal")
    <3> HIDE DEF Shifts, Shift, Awake, SpokenFor
    <3> QED
      BY <1>2, <2>1
  <2>3. /\ Crowd(pc, Producers, OnWay) \in Nat /\ Crowd(pc, Producers, {"signal"}) \in Nat
        /\ Crowd(pc', Producers, {"wait"}) = Crowd(pc, Producers, {"wait"})
        /\ Crowd(pc', Producers, OnWay) = Crowd(pc, Producers, OnWay) - 1
        /\ Crowd(pc', Producers, {"signal"}) = Crowd(pc, Producers, {"signal"}) + 1
    <3> HIDE DEF Awake, SpokenFor
    <3> QED
      BY <1>0, <2>1, <2>2
  <2>4. /\ Crowd(pc, Consumers, OnWay) \in Nat /\ Crowd(pc, Consumers, {"signal"}) \in Nat
        /\ Crowd(pc', Consumers, {"wait"}) = Crowd(pc, Consumers, {"wait"})
        /\ Crowd(pc', Consumers, OnWay) = Crowd(pc, Consumers, OnWay)
        /\ Crowd(pc', Consumers, {"signal"}) = Crowd(pc, Consumers, {"signal"})
    <3> HIDE DEF Awake, SpokenFor
    <3> QED
      BY <2>1, <2>2
  <2>5. count \in Nat /\ BUFFER_SIZE \in Nat
    BY BufferAssumption DEF IInv, Types
  <2> HIDE DEF Shifts, Shift
  <2>6. SpokenFor(pc, Producers, Consumers, BUFFER_SIZE - count)'
    BY <2>1, <2>3, <2>4, <2>5
  <2>7. SpokenFor(pc, Consumers, Producers, count)'
    BY <2>1, <2>3, <2>4, <2>5
  <2> QED
    BY <2>6, <2>7
<1>9. ASSUME NEW t \in Threads, Consume(t) PROVE Awake'
  <2>1. /\ Goto(t, "signal") /\ "signal" \in ThreadPlaces /\ pc[t] = "act"
        /\ count' = count - 1 /\ t \in Consumers /\ t \notin Producers
    BY <1>9, <1>1 DEF Consume, ThreadPlaces
  <2>2. Shifts(pc, pc', t, "signal")
    <3> HIDE DEF Shifts, Shift, Awake, SpokenFor
    <3> QED
      BY <1>2, <2>1
  <2>3. /\ Crowd(pc, Consumers, OnWay) \in Nat /\ Crowd(pc, Consumers, {"signal"}) \in Nat
        /\ Crowd(pc', Consumers, {"wait"}) = Crowd(pc, Consumers, {"wait"})
        /\ Crowd(pc', Consumers, OnWay) = Crowd(pc, Consumers, OnWay) - 1
        /\ Crowd(pc', Consumers, {"signal"}) = Crowd(pc, Consumers, {"signal"}) + 1
    <3> HIDE DEF Awake, SpokenFor
    <3> QED
      BY <1>0, <2>1, <2>2
  <2>4. /\ Crowd(pc, Producers, OnWay) \in Nat /\ Crowd(pc, Producers, {"signal"}) \in Nat
        /\ Crowd(pc', Producers, {"wait"}) = Crowd(pc, Producers, {"wait"})
        /\ Crowd(pc', Producers, OnWay) = Crowd(pc, Producers, OnWay)
        /\ Crowd(pc', Producers, {"signal"}) = Crowd(pc, Producers, {"signal"})
    <3> HIDE DEF Awake, SpokenFor
    <3> QED
      BY <2>1, <2>2
  <2>5. count \in Nat /\ BUFFER_SIZE \in Nat
    BY BufferAssumption DEF IInv, Types
  <2> HIDE DEF Shifts, Shift
  <2>6. SpokenFor(pc, Consumers, Producers, count)'
    BY <2>1, <2>3, <2>4, <2>5
  <2>7. SpokenFor(pc, Producers, Consumers, BUFFER_SIZE - count)'
    BY <2>1, <2>3, <2>4, <2>5
  <2> QED
    BY <2>6, <2>7
<1>10. ASSUME NEW t \in Threads, Signal(t) PROVE Awake'
  <2> PICK g : g = [pc EXCEPT ![t] = "unlock"]
    OBVIOUS
  <2>1. count' = count /\ pc[t] = "signal" /\ "unlock" \in ThreadPlaces
    BY <1>10 DEF Signal, globals, ThreadPlaces
  <2>2. g \in [Threads -> ThreadPlaces]
    BY <1>1, <2>1
  <2>3. Shifts(pc, g, t, "unlock")
    <3> HIDE DEF Shifts, Shift
    <3> QED
      BY <1>1, <2>1, MoveShifts
  <2>4. CASE At(Other(t), {"wait"}) = {}
    <3>1. Crowd(pc, Other(t), {"wait"}) = 0
      BY <2>4, FS_EmptySet DEF At, Crowd
    <3>2. pc' = g
      BY <1>10, <2>4 DEF Signal, Goto
    <3> QED
      BY <1>1, <2>1, <2>3, <3>1, <3>2 DEF Other
  <2>5. CASE At(Other(t), {"wait"}) # {}
    <3>1. PICK w \in At(Other(t), {"wait"}) : pc' = [pc EXCEPT ![t] = "unlock", ![w] = "relock"]
      BY <1>10, <2>5 DEF Signal
    <3>2. w \in Other(t) /\ w \in Threads /\ pc[w] = "wait" /\ w # t /\ g[w] = "wait"
      BY <1>1, <2>1, <3>1 DEF At, Other
    <3>3. pc' = [g EXCEPT ![w] = "relock"]
      BY <3>1
    <3>4. "relock" \in ThreadPlaces
      BY DEF ThreadPlaces
    <3>5. Shifts(g, pc', w, "relock")
      <4> HIDE DEF Shifts, Shift
      <4> QED
        BY <1>1, <2>2, <3>2, <3>3, <3>4, MoveShifts
    <3> QED
      BY <1>1, <2>1, <2>3, <3>2, <3>5 DEF Other
  <2> QED
    BY <2>4, <2>5
<1>11. ASSUME NEW t \in Threads, Spurious(t) PROVE Awake'
  <2>1. Goto(t, "relock") /\ "relock" \in ThreadPlaces /\ count' = count /\ pc[t] = "wait"
    BY <1>11 DEF Spurious, globals, ThreadPlaces
  <2> QED
    BY <1>1, <1>2, <2>1
<1> QED
  BY <1>3, <1>4, <1>5, <1>6, <1>7, <1>8, <1>9, <1>10, <1>11
     DEF Next, MainStep, Step, Finished

(* No wakeup is lost: while a thread sleeps, every free place or item it   *)
(* waits for is spoken for by a thread of its kind that is on its way, or  *)
(* the signal for it is about to be given (pthread_cond_signal wakes one   *)
(* sleeper, never all).                                                    *)
THEOREM NoWakeupIsLost == Spec => []NoLostWakeup
<1>1. Init => Awake
  <2> SUFFICES ASSUME Init PROVE Awake
    OBVIOUS
  <2>1. \A S \in {Producers, Consumers} : {u \in S : pc[u] \in {"wait"}} = {}
    BY BufferAssumption DEF Init, Producers, Consumers, Threads
  <2> QED
    BY <2>1, FS_EmptySet DEF Awake, SpokenFor, Crowd
<1>2. IInv /\ Awake => NoLostWakeup
  BY AwakeIsNoLostWakeup DEF IInv
<1> QED
  BY InvInit, InvInductive, AwakeInductive, <1>1, <1>2, PTL DEF Spec

-----------------------------------------------------------------------------
(* The ring implements a bounded first-in first-out queue.                 *)

(* What is in the ring, oldest first.                                      *)
Contents(b, o, n) == [k \in 1..n |-> b[(o + k - 1) % BUFFER_SIZE]]

(* It is a sequence of n items.                                            *)
LEMMA ContentsType ==
    ASSUME NEW b \in [Places -> Items], NEW o \in Places, NEW n \in 0..BUFFER_SIZE
    PROVE  /\ Contents(b, o, n) \in Seq(Items)
           /\ Len(Contents(b, o, n)) = n
           /\ \A k \in 1..n : Contents(b, o, n)[k] = b[(o + k - 1) % BUFFER_SIZE]
<1>1. ASSUME NEW k \in 1..n PROVE (o + k - 1) % BUFFER_SIZE \in Places
  <2>1. o + k - 1 \in 0..(2 * BUFFER_SIZE - 1)
    BY BufferAssumption DEF Places
  <2> QED
    BY <2>1, Wraps
<1>2. Contents(b, o, n) \in [1..n -> Items]
  BY <1>1 DEF Contents
<1>3. n \in Nat
  OBVIOUS
<1> QED
  BY <1>2, <1>3 DEF Contents

(* A new item goes to a place that is not in use, behind all the others.   *)
LEMMA ContentsPut ==
    ASSUME NEW b \in [Places -> Items], NEW o \in Places, NEW n \in 0..(BUFFER_SIZE - 1),
           NEW x \in Items
    PROVE  Contents([b EXCEPT ![(o + n) % BUFFER_SIZE] = x], o, n + 1)
               = Append(Contents(b, o, n), x)
<1> DEFINE p == (o + n) % BUFFER_SIZE
           c == [b EXCEPT ![p] = x]
           s == Contents(b, o, n)
           r == Contents(c, o, n + 1)
<1>1. o \in Nat /\ o < BUFFER_SIZE /\ n \in Nat /\ n < BUFFER_SIZE /\ BUFFER_SIZE \in Nat \ {0}
  BY BufferAssumption DEF Places
<1>2. o + n \in 0..(2 * BUFFER_SIZE - 1)
  BY <1>1
<1>3. p \in Places /\ p = IF o + n < BUFFER_SIZE THEN o + n ELSE o + n - BUFFER_SIZE
  <2> DEFINE a == o + n
  <2>1. a \in 0..(2 * BUFFER_SIZE - 1)
    BY <1>2
  <2> HIDE DEF a
  <2>2. /\ a % BUFFER_SIZE \in Places
        /\ a % BUFFER_SIZE = IF a < BUFFER_SIZE THEN a ELSE a - BUFFER_SIZE
    BY <2>1, Wraps
  <2>3. p = a % BUFFER_SIZE /\ a = o + n
    BY DEF a
  <2> HIDE DEF p
  <2> QED
    BY <1>1, <2>2, <2>3
<1>4. ASSUME NEW k \in 1..n
      PROVE  /\ (o + k - 1) % BUFFER_SIZE \in Places
             /\ (o + k - 1) % BUFFER_SIZE # p
  <2> DEFINE a == o + k - 1
  <2>1. a \in 0..(2 * BUFFER_SIZE - 1) /\ a \in o..(o + n - 1)
    BY <1>1
  <2> HIDE DEF a, p
  <2>2. /\ a % BUFFER_SIZE \in Places
        /\ a % BUFFER_SIZE = IF a < BUFFER_SIZE THEN a ELSE a - BUFFER_SIZE
    BY <2>1, Wraps
  <2>3. a % BUFFER_SIZE # p
    BY <1>1, <1>3, <2>1, <2>2
  <2> QED
    BY <2>2, <2>3 DEF a
<1>5. c \in [Places -> Items] /\ c[p] = x /\ \A q \in Places : q # p => c[q] = b[q]
  BY <1>3
<1>6. s \in Seq(Items) /\ Len(s) = n /\ \A k \in 1..n : s[k] = b[(o + k - 1) % BUFFER_SIZE]
  BY <1>1, ContentsType
<1> HIDE DEF c, s
<1>7. /\ r \in Seq(Items) /\ Len(r) = n + 1
      /\ \A k \in 1..(n + 1) : r[k] = c[(o + k - 1) % BUFFER_SIZE]
  <2>1. n + 1 \in 0..BUFFER_SIZE
    BY <1>1
  <2> QED
    BY <1>5, <2>1, ContentsType
<1> HIDE DEF r
<1>8. ASSUME NEW k \in 1..n PROVE r[k] = s[k]
  BY <1>4, <1>5, <1>6, <1>7
<1>9. r[n + 1] = x
  <2>1. o + (n + 1) - 1 = o + n
    BY <1>1
  <2> QED
    BY <1>1, <1>5, <1>7, <2>1
<1>10. r = Append(s, x)
  <2>1. /\ Append(s, x) \in Seq(Items) /\ Len(Append(s, x)) = n + 1
        /\ Append(s, x)[n + 1] = x /\ \A k \in 1..n : Append(s, x)[k] = s[k]
    BY <1>6, AppendProperties
  <2>2. \A k \in 1..(n + 1) : r[k] = Append(s, x)[k]
    BY <1>1, <1>8, <1>9, <2>1
  <2> QED
    BY <1>7, <2>1, <2>2, SeqEqual
<1> QED
  BY <1>10 DEF c, s, r

(* The item at out is the oldest one, and taking it leaves the others in   *)
(* their order.                                                            *)
LEMMA ContentsGet ==
    ASSUME NEW b \in [Places -> Items], NEW o \in Places, NEW n \in 1..BUFFER_SIZE
    PROVE  /\ Contents(b, o, n) # << >>
           /\ Head(Contents(b, o, n)) = b[o]
           /\ Contents(b, (o + 1) % BUFFER_SIZE, n - 1) = Tail(Contents(b, o, n))
<1> DEFINE q == (o + 1) % BUFFER_SIZE
           s == Contents(b, o, n)
           r == Contents(b, q, n - 1)
<1>1. o \in Nat /\ n \in Nat /\ n \in 0..BUFFER_SIZE /\ n - 1 \in 0..BUFFER_SIZE /\ n > 0
  BY BufferAssumption DEF Places
<1>2. q \in Places
  BY NextPlace
<1>3. s \in Seq(Items) /\ Len(s) = n /\ \A k \in 1..n : s[k] = b[(o + k - 1) % BUFFER_SIZE]
  BY <1>1, ContentsType
<1> HIDE DEF q, s
<1>4. /\ r \in Seq(Items) /\ Len(r) = n - 1
      /\ \A k \in 1..(n - 1) : r[k] = b[(q + k - 1) % BUFFER_SIZE]
  BY <1>1, <1>2, ContentsType
<1> HIDE DEF r
<1>5. s # << >>
  BY <1>1, <1>3
<1>6. Head(s) = b[o]
  <2>1. o + 1 - 1 = o /\ o \in 0..(2 * BUFFER_SIZE - 1) /\ o < BUFFER_SIZE
    BY BufferAssumption DEF Places
  <2>2. o % BUFFER_SIZE = o
    BY <2>1, Wraps
  <2> QED
    BY <1>1, <1>3, <1>5, <2>1, <2>2
<1>7. /\ Tail(s) \in Seq(Items) /\ Len(Tail(s)) = n - 1
      /\ \A k \in 1..(n - 1) : Tail(s)[k] = s[k + 1]
  BY <1>3, <1>5, HeadTailProperties
<1>8. ASSUME NEW k \in 1..(n - 1) PROVE r[k] = Tail(s)[k]
  <2>1. k + 1 \in 1..n /\ k \in 1..BUFFER_SIZE /\ o + (k + 1) - 1 = o + k /\ k \in Nat
    BY <1>1, BufferAssumption
  <2>2. (o + k) % BUFFER_SIZE = (q + (k - 1)) % BUFFER_SIZE
    BY <2>1, RingAfterConsume DEF q
  <2>3. q + k - 1 = q + (k - 1)
    BY <1>2, <2>1 DEF Places
  <2> QED
    BY SMTT(30), <1>3, <1>4, <1>7, <2>1, <2>2, <2>3
<1>9. r = Tail(s)
  BY <1>4, <1>7, <1>8, SeqEqual
<1> QED
  BY <1>5, <1>6, <1>9 DEF q, s, r

(* The items of the ring, and the last one of each consumer, are those of  *)
(* a bounded queue: each statement of the program puts one item at the end *)
(* of the queue, takes the first one, or leaves it alone.                  *)
THEOREM RingImplementsQueue == Spec => ImplementsQueue
<1> DEFINE queue == Contents(buffer, out, count)
           taken == [c \in Consumers |-> item[c]]
<1>1. Init => Abstract!Init
  <2> SUFFICES ASSUME Init PROVE Abstract!Init
    OBVIOUS
  <2>1. queue = << >>
    BY DEF Init, Contents
  <2>2. taken = [c \in Consumers |-> 0]
    BY DEF Init, Consumers
  <2> QED
    BY <2>1, <2>2 DEF Abstract!Init, Contents
<1>2. IInv /\ [Next]_vars => [Abstract!Next]_<<queue, taken>>
  <2> SUFFICES ASSUME IInv, [Next]_vars PROVE [Abstract!Next]_<<queue, taken>>
    OBVIOUS
  <2> USE BufferAssumption DEF IInv, Types
  <2>1. ASSUME NEW t \in Threads, Produce(t) PROVE Abstract!Next
    <3>1. count \in 0..(BUFFER_SIZE - 1) /\ in = (out + count) % BUFFER_SIZE
      BY <2>1 DEF Produce, Guarded, MustWait, Ring
    <3>2. PICK x \in Items : buffer' = [buffer EXCEPT ![in] = x]
      BY <2>1 DEF Produce
    <3>3. queue' = Append(queue, x)
      <4>1. queue' = Contents([buffer EXCEPT ![(out + count) % BUFFER_SIZE] = x], out, count + 1)
        BY <2>1, <3>1, <3>2 DEF Produce
      <4> QED
        BY ZenonT(30), <3>1, <4>1, ContentsPut
    <3>4. Len(queue) < BUFFER_SIZE
      BY SMTT(30), <3>1, ContentsType
    <3>5. taken' = taken
      BY <2>1 DEF Produce
    <3>6. Abstract!Put(x)
      BY <3>3, <3>4, <3>5 DEF Abstract!Put, Contents
    <3> QED
      BY <3>6 DEF Abstract!Next
  <2>2. ASSUME NEW t \in Threads, Consume(t) PROVE Abstract!Next
    <3>1. count \in 1..BUFFER_SIZE /\ t \in Consumers
      BY <2>2 DEF Consume, Guarded, MustWait, Consumers
    <3>2. queue # << >> /\ queue' = Tail(queue) /\ Head(queue) = buffer[out]
      BY <2>2, <3>1, ContentsGet DEF Consume
    <3>3. taken' = [taken EXCEPT ![t] = Head(queue)]
      BY <2>2, <3>1, <3>2 DEF Consume, Consumers
    <3>4. Abstract!Get(t)
      BY <3>2, <3>3 DEF Abstract!Get, Contents
    <3> QED
      BY <3>1, <3>4 DEF Abstract!Next
  <2>3. ASSUME NEW t \in Threads,
               Enter(t) \/ Lock(t) \/ Test(t) \/ Signal(t) \/ Unlock(t) \/ Spurious(t)
        PROVE  UNCHANGED <<queue, taken>>
    BY <2>3 DEF Enter, Lock, Test, Signal, Unlock, Spurious, globals
  <2>4. ASSUME MainStep \/ UNCHANGED vars PROVE UNCHANGED <<queue, taken>>
    BY <2>4 DEF MainStep, Create, Join, Destroy, vars, globals
  <2> QED
    BY <2>1, <2>2, <2>3, <2>4 DEF Next, Step, Finished
<1> QED
  BY InvInit, InvInductive, <1>1, <1>2, PTL DEF Spec, ImplementsQueue, Abstract!Spec, Contents
=============================================================================
