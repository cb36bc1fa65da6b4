--------------------------- MODULE ExercisesProofs ---------------------------
(* Proofs about the exercises, one program after the other: for any number *)
(* of processes and threads, any rounds and sizes.                         *)
EXTENDS Exercises, Sequences, TLAPS, FiniteSetTheorems

-----------------------------------------------------------------------------
(* Signals.                                                                *)

SigProgram == IF program \in sigOnes THEN program ELSE "sigint"

(* Until a signal meets the loop awake, the loop that goes to sleep has    *)
(* seen the truth: it looked at the flag, the count or the alarm, and      *)
(* nothing was handled since.                                              *)
SigInv ==
    /\ g_count \in Nat
    /\ loop \in {"off", "setup", "awake", "asleep", "check", "read", "ended"}
    /\ loop \in {"off", "setup"} => g_count = 0 /\ ~g_term
    /\ loop = "read" => SigProgram = "select"
    /\ ~missed =>
         /\ SigProgram = "select" /\ loop \in {"awake", "asleep", "read"} => ~g_term
         /\ SigProgram = "sigalrm" /\ loop \in {"awake", "asleep"} => armed \/ "ALRM" \in pending
         /\ SigProgram = "sigint" /\ loop = "check" => g_count <= MaxTime
         /\ SigProgram \in {"sigint", "sigusr1"} /\ loop \in {"awake", "asleep"} =>
              g_count < MaxTime

(* Handlers, alarms, input and the loops keep it.                          *)
LEMMA SigInductive == SigInv /\ [Next]_vars => SigInv'
<1> SUFFICES ASSUME SigInv, [Next]_vars PROVE SigInv'
  OBVIOUS
<1> USE ExercisesAssumption DEF SigInv, SigProgram, sigOnes, Sig!Alive
<1>1. UNCHANGED program
  BY DEF Next, vars
<1>2. CASE Sig!LoopStep
  <2>1. CASE Sig!Setup
    <3>1. loop' = "awake" /\ g_count' = 0 /\ ~g_term' /\ (SigProgram = "sigalrm" => armed')
      BY <1>1, <2>1 DEF Sig!Setup
    <3> QED
      BY <1>1, <3>1
  <2>2. CASE Sig!Sleep
    BY <1>1, <2>2 DEF Sig!Sleep
  <2>3. CASE Sig!Check
    <3>1. /\ g_count' = g_count /\ g_term' = g_term /\ pending' = pending /\ missed' = missed
          /\ loop' \in {"awake", "ended"}
      BY <2>3 DEF Sig!Check
    <3>2. ASSUME ~missed, SigProgram = "select", loop' = "awake" PROVE ~g_term
      BY <2>3, <3>2 DEF Sig!Check, Sig!Enough
    <3>3. ASSUME SigProgram = "sigalrm", loop' = "awake" PROVE armed'
      BY <2>3, <3>3 DEF Sig!Check, Sig!Enough
    <3>4. ASSUME ~missed, SigProgram = "sigint", loop' = "awake" PROVE g_count < MaxTime
      BY <2>3, <3>4 DEF Sig!Check, Sig!Enough
    <3>5. ASSUME SigProgram = "sigusr1", loop' = "awake" PROVE g_count < MaxTime
      BY <2>3, <3>5 DEF Sig!Check, Sig!Enough
    <3> QED
      BY <1>1, <3>1, <3>2, <3>3, <3>4, <3>5
  <2>4. CASE Sig!ReadInput
    BY <1>1, <2>4 DEF Sig!ReadInput
  <2> QED
    BY <1>2, <2>1, <2>2, <2>3, <2>4 DEF Sig!LoopStep
<1>3. ASSUME NEW sig \in Sig!Signals, Sig!Killed(sig) PROVE SigInv'
  BY <1>1, <1>3 DEF Sig!Killed
<1>4. ASSUME NEW sig \in Sig!Signals, Sig!Handle(sig) PROVE SigInv'
  <2>1. /\ loop # "off" /\ loop # "setup" /\ loop # "ended" /\ loop' # "asleep"
        /\ loop' = loop \/ loop' = "check"
        /\ armed' = armed
        /\ SigProgram = "select" => g_count' = g_count
        /\ SigProgram # "select" => g_count' = g_count + 1
    BY <1>4 DEF Sig!Handle, Sig!Fatal
  <2>2. loop' = loop => loop # "asleep"
    BY <2>1
  <2>3. g_count' \in Nat /\ loop' \in {"awake", "check", "read"} /\ (loop' = "read" => loop = "read")
    BY <2>1
  <2>4. ASSUME ~missed' PROVE ~missed /\ loop' = "check" /\ (SigProgram = "sigint" => loop = "asleep")
    BY <1>4, <2>1, <2>4 DEF Sig!Handle
  <2>5. ASSUME ~missed', SigProgram = "sigint" PROVE g_count' <= MaxTime
    BY <2>1, <2>4, <2>5
  <2> QED
    BY <1>1, <2>1, <2>3, <2>4, <2>5
<1>5. CASE Sig!SigRun
  BY <1>1, <1>5 DEF Sig!SigRun
<1>6. CASE Sig!AlarmFires
  BY <1>1, <1>6 DEF Sig!AlarmFires
<1>7. CASE Sig!ParentStep
  BY <1>1, <1>7 DEF Sig!ParentStep, Sig!ParentKills, Sig!ParentWaits
<1>8. ASSUME NEW sig \in Sig!Signals, Sig!Raise(sig) PROVE SigInv'
  BY <1>1, <1>8 DEF Sig!Raise
<1>9. ASSUME NEW what \in {"line", "eof"}, Sig!InputComes(what) PROVE SigInv'
  BY <1>1, <1>9 DEF Sig!InputComes
<1>10. CASE UNCHANGED sigRest
  BY <1>1, <1>10 DEF sigRest
<1> QED
  BY <1>2, <1>3, <1>4, <1>5, <1>6, <1>7, <1>8, <1>9, <1>10
     DEF Next, vars, Sig!SigNext, Sig!Delivery

(* A loop that sleeps on what it has already got met a signal awake.       *)
THEOREM SleepsOnlyAfterMiss == FairSpec => []SigStuckOnlyAfterMiss
<1>1. Init => SigInv
  BY DEF Init, Sig!SigInit, SigInv
<1>2. SigInv => SigStuckOnlyAfterMiss
  BY DEF SigInv, SigProgram, sigOnes, SigStuckOnlyAfterMiss, Sig!StuckOnlyAfterMiss
<1> QED
  BY <1>1, <1>2, SigInductive, PTL DEF FairSpec

-----------------------------------------------------------------------------
(* Message queue.                                                          *)

QueueInv ==
    /\ QueueFoundUnlessRemoved
    /\ qname \in Workers \cup {Queue!NoQueue}
    /\ wpc \in [Workers -> {"off", "handler", "receive", "work", "ended"}]
    /\ wq \in [Workers -> Workers \cup {Queue!NoQueue}]
    /\ \A w \in Workers : wpc[w] \in {"receive", "work"} => wq[w] # Queue!NoQueue

(* Only mq_unlink takes the name from a queue that a worker listens on.    *)
LEMMA QueueInductive == QueueInv /\ [Next]_vars => QueueInv'
<1> SUFFICES ASSUME QueueInv, [Next]_vars PROVE QueueInv'
  OBVIOUS
<1> USE ExercisesAssumption DEF QueueInv, QueueFoundUnlessRemoved, Queue!FoundUnlessRemoved, Queue!NoQueue
<1>1. ASSUME NEW w \in Workers, Queue!InstallHandler(w) PROVE QueueInv'
  BY <1>1 DEF Queue!InstallHandler
<1>2. ASSUME NEW w \in Workers, Queue!OpenQueue(w) PROVE QueueInv'
  BY <1>2 DEF Queue!OpenQueue, Queue!Opened
<1>3. ASSUME NEW w \in Workers, Queue!Receive(w) PROVE QueueInv'
  <2>1. /\ wpc[w] = "receive" /\ UNCHANGED <<qname, wq, removed>>
        /\ wpc' = [wpc EXCEPT ![w] = "work"] \/ wpc' = [wpc EXCEPT ![w] = "ended"]
    BY <1>3 DEF Queue!Receive
  <2> QED
    BY <2>1
<1>4. ASSUME NEW w \in Workers, Queue!Process(w) PROVE QueueInv'
  BY <1>4 DEF Queue!Process
<1>5. ASSUME NEW w \in Workers, Queue!CleanupAndExit(w) PROVE QueueInv'
  BY <1>5 DEF Queue!CleanupAndExit
<1>6. ASSUME NEW w \in Workers, Queue!KillWorker(w) PROVE QueueInv'
  BY <1>6 DEF Queue!KillWorker
<1>7. ASSUME NEW d \in Dispatchers, Queue!Send(d) PROVE QueueInv'
  BY <1>7 DEF Queue!Send
<1>8. ASSUME NEW d \in Dispatchers, NEW p \in {0, 1}, NEW s \in Queue!Sizes, Queue!Dispatch(d, p, s)
      PROVE  QueueInv'
  BY <1>8 DEF Queue!Dispatch
<1>9. CASE UNCHANGED queueRest
  BY <1>9 DEF queueRest
<1>10. Queue!QueueNext \/ UNCHANGED queueRest
  BY DEF Next, vars
<1> HIDE DEF QueueInv, QueueFoundUnlessRemoved
<1>11. ASSUME NEW w \in Workers, Queue!WorkerStep(w) PROVE QueueInv'
  BY <1>11, <1>1, <1>2, <1>3, <1>4, <1>5, <1>6 DEF Queue!WorkerStep
<1> QED
  BY <1>1, <1>2, <1>3, <1>4, <1>5, <1>6, <1>7, <1>8, <1>9, <1>10, <1>11 DEF Queue!QueueNext

(* Dispatchers find the queue of every worker that listens, until another  *)
(* worker removes the name.                                                *)
THEOREM QueueIsFound == FairSpec => []QueueFoundUnlessRemoved
<1>1. Init => QueueInv
  BY DEF Init, Queue!QueueInit, QueueInv, QueueFoundUnlessRemoved, Queue!FoundUnlessRemoved, Queue!NoQueue
<1>2. QueueInv => QueueFoundUnlessRemoved
  BY DEF QueueInv
<1> QED
  BY <1>1, <1>2, QueueInductive, PTL DEF FairSpec

-----------------------------------------------------------------------------
(* Shared memory.                                                          *)

At(m) == mpl[m] \in {"truncate"} \cup Memory!Fields

(* One product, from one producer.                                         *)
Whole(p) == \E m \in Makers : p = [f \in Memory!Fields |-> m]

MemoryTypes ==
    /\ shm \in Makers \cup {Memory!NoObject} /\ sized \subseteq Makers
    /\ product \in [Makers -> [Memory!Fields -> Makers \cup {Memory!NoObject}]]
    /\ mpl \in [Makers -> {"off", "truncate", "id", "name", "price", "ended"}]
    /\ mobj \in [Makers -> Makers \cup {Memory!NoObject}]
    /\ bpl \in [Buyers -> {"off", "read", "unlink", "ended", "failed", "buserror"}]
    /\ bobj \in [Buyers -> Makers \cup {Memory!NoObject}]
    /\ seen \in [Buyers -> [Memory!Fields -> Makers \cup {Memory!NoObject}]]
    /\ alone \subseteq Makers /\ good \subseteq Makers /\ quiet \subseteq Buyers

(* A producer at work has an object, of a size once it writes.             *)
MakersInv ==
    \A m \in Makers :
        /\ At(m) => mobj[m] \in Makers
        /\ mpl[m] \in Memory!Fields => mobj[m] \in sized

(* A producer that has the object for itself finds there what it wrote.    *)
AloneInv ==
    \A m \in alone : mpl[m] # "off" /\ (At(m) =>
        /\ \A n \in Makers : At(n) /\ mobj[n] = mobj[m] => n = m
        /\ mpl[m] \in {"name", "price"} => product[mobj[m]]["id"] = m
        /\ mpl[m] = "price" => product[mobj[m]]["name"] = m)

(* Nobody writes to an object that is whole.                               *)
GoodInv ==
    \A o \in good :
        /\ o \in sized /\ Whole(product[o])
        /\ \A n \in Makers : At(n) => mobj[n] # o

(* A consumer that opened a whole object prints a whole product.           *)
QuietInv ==
    \A b \in quiet :
        /\ bpl[b] \in {"read", "unlink", "ended"}
        /\ bpl[b] = "read" => bobj[b] \in good
        /\ bpl[b] \in {"unlink", "ended"} => Whole(seen[b])

MemoryInv == MemoryTypes /\ MakersInv /\ AloneInv /\ GoodInv /\ QuietInv

(* Opening ends the silence about an object, the last field written alone  *)
(* makes it whole, and no other step touches a whole one.                  *)
LEMMA MemoryInductive == MemoryInv /\ [Next]_vars => MemoryInv'
<1> SUFFICES ASSUME MemoryInv, [Next]_vars PROVE MemoryInv'
  OBVIOUS
<1> USE ExercisesAssumption DEF MemoryInv, MemoryTypes, Memory!NoObject, Memory!Fields
<1>1. ASSUME NEW m \in Makers, Memory!MakerOpens(m) PROVE MemoryInv'
  <2> DEFINE o == IF shm = Memory!NoObject THEN m ELSE shm
  <2>1. /\ o \in Makers
        /\ mpl[m] = "off" /\ mpl' = [mpl EXCEPT ![m] = "truncate"]
        /\ shm' = o /\ mobj' = [mobj EXCEPT ![m] = o] /\ good' = good \ {o}
        /\ alone' = (alone \ Memory!Working(o)) \cup (IF Memory!Working(o) = {} THEN {m} ELSE {})
        /\ quiet' = {b \in quiet : bobj[b] # o \/ bpl[b] = "ended"}
        /\ UNCHANGED <<sized, product, bpl, bobj, seen>>
    BY <1>1 DEF Memory!MakerOpens
  <2> HIDE DEF o
  <2>2. \A n \in Makers : n \in Memory!Working(o) <=> At(n) /\ mobj[n] = o
    BY DEF Memory!Working, At
  <2>3. MemoryTypes'
    BY <2>1
  <2>4. \A n \in Makers : At(n)' <=> n = m \/ At(n)
    BY <2>1 DEF At
  <2>5. MakersInv'
    BY <2>1, <2>4 DEF MakersInv, At
  <2>6. AloneInv'
    <3> SUFFICES ASSUME NEW n \in alone' PROVE AloneInv!(n)'
      BY DEF AloneInv
    <3>1. CASE n = m
      BY <2>1, <2>2, <2>4, <3>1 DEF AloneInv
    <3>2. CASE n # m
      BY <2>1, <2>2, <2>4, <3>2 DEF AloneInv
    <3> QED
      BY <3>1, <3>2
  <2>7. GoodInv'
    BY <2>1, <2>4 DEF GoodInv, Whole
  <2>8. QuietInv'
    BY <2>1 DEF QuietInv, Whole
  <2> QED
    BY <2>3, <2>5, <2>6, <2>7, <2>8
<1>2. ASSUME NEW m \in Makers, Memory!Truncate(m) PROVE MemoryInv'
  <2>1. mobj[m] \in Makers
    BY <1>2 DEF Memory!Truncate, MakersInv, At
  <2>2. MemoryTypes' /\ \A n \in Makers : At(n)' <=> At(n)
    BY <1>2, <2>1 DEF Memory!Truncate, At
  <2>3. MakersInv' /\ QuietInv'
    BY <1>2, <2>1, <2>2 DEF Memory!Truncate, MakersInv, QuietInv, Whole
  <2>4. AloneInv' /\ GoodInv'
    BY <1>2, <2>2 DEF Memory!Truncate, AloneInv, GoodInv, Whole
  <2> QED
    BY <2>2, <2>3, <2>4
<1>3. ASSUME NEW m \in Makers, NEW f \in Memory!Fields, Memory!WriteField(m, f) PROVE MemoryInv'
  <2> DEFINE o == mobj[m]
  <2>1. mpl[m] = f /\ At(m) /\ o \in Makers /\ o \in sized /\ o \notin good
    BY <1>3 DEF Memory!WriteField, MakersInv, GoodInv, At
  <2>2. /\ mpl' = [mpl EXCEPT ![m] = Memory!After(f)]
        /\ UNCHANGED <<shm, sized, mobj, bpl, bobj, seen, quiet>>
        /\ good' = (IF f = "price" /\ m \in alone' THEN good \cup {o} ELSE good)
        /\ \/ product' = [product EXCEPT ![o] = [product[o] EXCEPT ![f] = m]] /\ alone' = alone
           \/ product' = product /\ alone' = alone \ {m} /\ f # "name"
    BY <1>3 DEF Memory!WriteField, Memory!Written
  <2>3. /\ f = "id" => Memory!After(f) = "name"
        /\ f = "name" => Memory!After(f) = "price"
        /\ f = "price" => Memory!After(f) = "ended"
    BY DEF Memory!After
  <2>4. alone' \subseteq alone /\ (m \in alone' => product'[o] = [product[o] EXCEPT ![f] = m])
    BY <2>1, <2>2
  <2>5. \A p \in Makers : p # o => product'[p] = product[p]
    BY <2>1, <2>2
  <2>6. \A n \in Makers : (At(n)' => At(n)) /\ (n # m => mpl'[n] = mpl[n])
    BY <2>1, <2>2, <2>3 DEF At
  <2>7. mpl' \in [Makers -> {"off", "truncate", "id", "name", "price", "ended"}]
    BY <2>2, <2>3
  <2>8. product' \in [Makers -> [Memory!Fields -> Makers \cup {Memory!NoObject}]]
    <3>1. [product[o] EXCEPT ![f] = m] \in [Memory!Fields -> Makers \cup {Memory!NoObject}]
      BY <2>1
    <3> QED
      BY SMTT(30), <2>1, <2>2, <3>1
  <2>9. MemoryTypes'
    BY <2>1, <2>2, <2>7, <2>8
  <2>10. MakersInv'
    BY <2>1, <2>2, <2>6 DEF MakersInv
  <2>11. AloneInv'
    <3>0. \A n \in alone' : mpl'[n] # "off"
      BY <2>2, <2>3, <2>4, <2>6 DEF AloneInv
    <3> SUFFICES ASSUME NEW n \in alone', At(n)'
                 PROVE  /\ \A k \in Makers : At(k)' /\ mobj[k] = mobj[n] => k = n
                        /\ mpl'[n] \in {"name", "price"} => product'[mobj[n]]["id"] = n
                        /\ mpl'[n] = "price" => product'[mobj[n]]["name"] = n
      BY <2>2, <3>0 DEF AloneInv
    <3>1. n \in alone /\ n \in Makers /\ At(n)
      BY <2>4, <2>6
    <3>2. \A k \in Makers : At(k) /\ mobj[k] = mobj[n] => k = n
      BY <3>1 DEF AloneInv
    <3>3. CASE n # m
      <4>1. mobj[n] # o /\ mobj[n] \in Makers
        BY <2>1, <3>1, <3>2, <3>3 DEF MakersInv
      <4> QED
        BY <2>5, <2>6, <3>1, <3>2, <3>3, <4>1 DEF AloneInv
    <3>4. CASE n = m
      BY <2>1, <2>2, <2>3, <2>4, <2>6, <3>1, <3>2, <3>4 DEF AloneInv
    <3> QED
      BY <3>3, <3>4
  <2>12. GoodInv'
    <3>1. ASSUME f = "price", m \in alone' PROVE Whole(product'[o]) /\ ~At(m)'
      <4>1. product'[o] = [g \in Memory!Fields |-> m]
        BY <2>1, <2>4, <3>1 DEF AloneInv
      <4> QED
        BY <2>1, <2>2, <2>3, <3>1, <4>1 DEF Whole, At
    <3>2. ASSUME f = "price", m \in alone', NEW n \in Makers, At(n)' PROVE mobj[n] # o
      BY <2>1, <2>4, <2>6, <3>1, <3>2 DEF AloneInv
    <3>3. ASSUME NEW p \in good PROVE p \in sized /\ Whole(product'[p]) /\ \A n \in Makers : At(n)' => mobj[n] # p
      BY <2>1, <2>5, <2>6, <3>3 DEF GoodInv
    <3> QED
      BY <2>1, <2>2, <3>1, <3>2, <3>3 DEF GoodInv, Whole
  <2>13. QuietInv'
    BY <2>2 DEF QuietInv, Whole
  <2> QED
    BY <2>9, <2>10, <2>11, <2>12, <2>13
<1>4. ASSUME NEW m \in Makers, Memory!MakerDies(m) PROVE MemoryInv'
  <2>1. MemoryTypes' /\ \A n \in Makers : (At(n)' => At(n)) /\ (At(n)' => mpl'[n] = mpl[n])
    BY <1>4 DEF Memory!MakerDies, At
  <2>2. MakersInv' /\ QuietInv'
    BY <1>4, <2>1 DEF Memory!MakerDies, MakersInv, QuietInv, Whole, At
  <2>3. AloneInv' /\ GoodInv'
    BY <1>4, <2>1 DEF Memory!MakerDies, AloneInv, GoodInv, Whole
  <2> QED
    BY <2>1, <2>2, <2>3
<1>5. ASSUME NEW b \in Buyers, Memory!BuyerOpens(b) \/ Memory!ReadProduct(b) \/ Memory!Unlink(b)
      PROVE  MemoryInv'
  <2>1. MemoryTypes' /\ UNCHANGED <<sized, product, mpl, mobj, alone, good>>
    <3>1. CASE Memory!BuyerOpens(b)
      <4>1. /\ bpl' = [bpl EXCEPT ![b] = "failed"] \/ bpl' = [bpl EXCEPT ![b] = "read"]
            /\ bobj' = bobj \/ (shm \in Makers /\ bobj' = [bobj EXCEPT ![b] = shm])
            /\ quiet' = quiet \/ quiet' = quiet \cup {b}
        BY <3>1 DEF Memory!BuyerOpens
      <4>2. UNCHANGED <<shm, sized, product, mpl, mobj, seen, alone, good>>
        BY <3>1 DEF Memory!BuyerOpens
      <4>3. bpl' \in [Buyers -> {"off", "read", "unlink", "ended", "failed", "buserror"}]
        BY <4>1
      <4>4. bobj' \in [Buyers -> Makers \cup {Memory!NoObject}] /\ quiet' \subseteq Buyers
        BY <4>1
      <4> QED
        BY <4>2, <4>3, <4>4
    <3>2. CASE Memory!ReadProduct(b)
      <4>1. bobj[b] \in sized => product[bobj[b]] \in [Memory!Fields -> Makers \cup {Memory!NoObject}]
        OBVIOUS
      <4> QED
        BY <3>2, <4>1 DEF Memory!ReadProduct
    <3>3. CASE Memory!Unlink(b)
      BY <3>3 DEF Memory!Unlink
    <3> QED
      BY <1>5, <3>1, <3>2, <3>3
  <2>2. MakersInv' /\ AloneInv' /\ GoodInv'
    BY <2>1 DEF MakersInv, AloneInv, GoodInv, Whole, At
  <2>3. CASE Memory!BuyerOpens(b)
    BY <2>1, <2>2, <2>3 DEF Memory!BuyerOpens, QuietInv, Whole
  <2>4. CASE Memory!ReadProduct(b)
    BY <2>1, <2>2, <2>4 DEF Memory!ReadProduct, QuietInv, GoodInv, Whole
  <2>5. CASE Memory!Unlink(b)
    BY <2>1, <2>2, <2>5 DEF Memory!Unlink, QuietInv, Whole
  <2> QED
    BY <1>5, <2>1, <2>2, <2>3, <2>4, <2>5
<1>6. CASE UNCHANGED memoryRest
  BY <1>6 DEF memoryRest, MakersInv, AloneInv, GoodInv, QuietInv, Whole, At
<1>7. Memory!ShmNext \/ UNCHANGED memoryRest
  BY DEF Next, vars
<1> QED
  BY <1>1, <1>2, <1>3, <1>4, <1>5, <1>6, <1>7 DEF Memory!ShmNext

(* A consumer prints one whole product when the last producer had the      *)
(* object for itself and none has begun again.                             *)
THEOREM ProductIsWhole == FairSpec => []MemoryReadsOneProduct
<1>1. Init => MemoryInv
  BY ExercisesAssumption
     DEF Init, Memory!ShmInit, MemoryInv, MemoryTypes, MakersInv, AloneInv, GoodInv, QuietInv, At,
         Memory!NoObject, Memory!Fields, Memory!Unwritten
<1>2. MemoryInv => MemoryReadsOneProduct
  BY DEF MemoryInv, QuietInv, Whole, MemoryReadsOneProduct, Memory!ReadsOneProduct
<1> QED
  BY <1>1, <1>2, MemoryInductive, PTL DEF FairSpec

-----------------------------------------------------------------------------
(* The counter of the race condition and of the read-write lock.           *)

Threads == Writers \cup Readers

(* The increments that have been done: the first turns[t] of each writer.  *)
Done == {p \in Writers \X (1 .. Increment) : p[2] <= turns[p[1]]}

IncTypes ==
    /\ imain \in {"off", "join", "printed"}
    /\ inside \subseteq Threads
    /\ ipc \in [Threads -> {"off", "lock", "load", "store", "leave", "done"}]
    /\ turns \in [Threads -> Nat]
    /\ register \in [Threads -> Nat]
    /\ shared \in Nat

(* Where a writer is says how many rounds it has done.                     *)
RoundsInv ==
    /\ \A t \in Threads : ipc[t] = "store" => t \in Writers
    /\ \A t \in Writers :
         /\ turns[t] <= Increment
         /\ ipc[t] \in {"lock", "load", "store"} => turns[t] < Increment
         /\ ipc[t] = "leave" => turns[t] > 0
         /\ ipc[t] = "done" => turns[t] = Increment
         /\ imain = "off" => ipc[t] = "off"
         /\ ipc[t] = "off" => imain = "off" /\ turns[t] = 0
         /\ imain = "printed" => ipc[t] = "done"

(* With or without a lock: no value is higher than what was done, and one  *)
(* that a thread reads after its own first increment is not the first.     *)
RaceInv ==
    /\ shared \in Initial .. (Initial + Cardinality(Done))
    /\ \A t \in Writers :
         /\ register[t] \in Initial .. (Initial + Cardinality(Done))
         /\ turns[t] > 0 => shared > Initial
         /\ turns[t] > 0 /\ ipc[t] = "store" => register[t] > Initial
    /\ shared = Initial + 1 => \E t \in Writers : turns[t] < Increment

(* A writer that holds the lock is alone, and has read what is there.      *)
LockInv ==
    program = "rw lock" =>
        /\ shared = Initial + Cardinality(Done)
        /\ \A t \in Threads : ipc[t] \in {"load", "store", "leave"} => t \in inside
        /\ \A t \in Writers : t \in inside => inside = {t}
        /\ \A t \in Writers : ipc[t] = "store" => register[t] = shared

IncInv == IncTypes /\ RoundsInv /\ RaceInv /\ LockInv

(* The increments that have been done are finitely many, and n more after  *)
(* n increments of one writer.                                             *)
LEMMA DoneIsFinite ==
    ASSUME RoundsInv, IncTypes
    PROVE  IsFiniteSet(Done) /\ Cardinality(Done) \in Nat
<1>1. IsFiniteSet(1 .. Increment)
  BY ExercisesAssumption, FS_Interval, 1 \in Int, Increment \in Int
<1>2. IsFiniteSet(Writers \X (1 .. Increment))
  BY ExercisesAssumption, <1>1, FS_Product
<1>3. IsFiniteSet(Done)
  BY <1>2, FS_Subset DEF Done
<1> QED
  BY <1>3, FS_CardinalityType

(* A writer that goes on by n rounds has done n increments more.           *)
LEMMA DoneGrows ==
    ASSUME RoundsInv, IncTypes, NEW t \in Writers, NEW n \in Nat, turns[t] + n <= Increment,
           turns' = [turns EXCEPT ![t] = turns[t] + n]
    PROVE  Cardinality(Done)' = Cardinality(Done) + n
<1> DEFINE a == turns[t] + 1
           b == turns[t] + n
           new == {t} \X (a .. b)
<1>1. a \in Nat /\ b \in Nat /\ Increment \in Nat
  BY ExercisesAssumption DEF IncTypes, Threads
<1>2. IsFiniteSet(a .. b) /\ Cardinality(a .. b) = n
  <2>1. a \in Int /\ b \in Int
    BY <1>1
  <2>2. IsFiniteSet(a .. b) /\ Cardinality(a .. b) = IF a > b THEN 0 ELSE b - a + 1
    BY <2>1, FS_Interval
  <2>3. (IF a > b THEN 0 ELSE b - a + 1) = n
    BY <1>1 DEF IncTypes, Threads
  <2> QED
    BY <2>2, <2>3
<1>3. IsFiniteSet(new) /\ Cardinality(new) = n
  <2>1. IsFiniteSet({t}) /\ Cardinality({t}) = 1
    BY FS_Singleton
  <2>2. IsFiniteSet(new) /\ Cardinality(new) = Cardinality({t}) * Cardinality(a .. b)
    <3> HIDE DEF a, b
    <3> QED
      BY Zenon, <1>2, <2>1, FS_Product
  <2>3. Cardinality({t}) * Cardinality(a .. b) = 1 * n
    BY Zenon, <1>2, <2>1
  <2> QED
    BY <2>2, <2>3
<1>4. Done' = Done \cup new
  <2>1. \A w \in Writers : turns'[w] = (IF w = t THEN turns[t] + n ELSE turns[w]) /\ turns[w] \in Nat
    BY DEF IncTypes, Threads
  <2>2. \A w \in Writers, i \in 1 .. Increment :
          <<w, i>> \in Done' <=> <<w, i>> \in Done \/ <<w, i>> \in new
    BY <1>1, <2>1 DEF Done
  <2>3. Done' \subseteq Writers \X (1 .. Increment) /\ Done \subseteq Writers \X (1 .. Increment)
    BY DEF Done
  <2>4. new \subseteq Writers \X (1 .. Increment)
    <3>1. a .. b \subseteq 1 .. Increment
      BY <1>1 DEF IncTypes, Threads
    <3> QED
      BY <3>1
  <2> QED
    BY <2>2, <2>3, <2>4
<1>5. Done \cap new = {}
  BY <1>1 DEF Done, IncTypes, Threads
<1> HIDE DEF a, b, new
<1>6. Cardinality(Done \cup new) = Cardinality(Done) + Cardinality(new) - Cardinality(Done \cap new)
  BY <1>3, DoneIsFinite, FS_Union
<1>7. Cardinality(Done \cap new) = 0
  BY <1>5, FS_EmptySet
<1> QED
  BY <1>3, <1>4, <1>6, <1>7, DoneIsFinite

(* Threads that enter, read and leave do not change what was done; a store *)
(* adds to it.                                                             *)
LEMMA IncInductive == IncInv /\ [Next]_vars => IncInv'
<1> SUFFICES ASSUME IncInv, [Next]_vars PROVE IncInv'
  OBVIOUS
<1>0. UNCHANGED program /\ Writers \cap Readers = {} /\ Increment \in Nat /\ Increment > 1 /\ Initial \in Nat
  <2>1. UNCHANGED program
    BY DEF Next, vars
  <2> QED
    BY <2>1, ExercisesAssumption
<1> USE DEF IncInv, Threads
<1>c. Cardinality(Done) \in Nat
  BY DoneIsFinite
<1>q. ASSUME turns' = turns PROVE Done' = Done
  BY <1>q DEF Done
<1>1. CASE Inc!IncRun
  <2>1. /\ imain = "off" /\ imain' = "join" /\ UNCHANGED <<shared, inside, turns, register>>
        /\ ipc' \in [Threads -> {"lock", "done"}]
        /\ \A t \in Writers : ipc'[t] = "lock"
    BY <1>1 DEF Inc!IncRun, Inc!Everyone
  <2>2. IncTypes'
    BY <2>1 DEF IncTypes
  <2>3. RoundsInv'
    BY <1>0, <2>1 DEF RoundsInv
  <2>4. RaceInv'
    BY <1>q, <2>1 DEF RaceInv
  <2>5. LockInv'
    BY <1>0, <1>q, <2>1 DEF LockInv
  <2> QED
    BY <2>2, <2>3, <2>4, <2>5
<1>2. CASE Inc!IncJoin
  <2>1. /\ imain = "join" /\ imain' = "printed" /\ UNCHANGED <<shared, inside, ipc, turns, register>>
        /\ \A t \in Writers : ipc[t] = "done"
    BY <1>2 DEF Inc!IncJoin, Inc!Everyone
  <2>2. IncTypes' /\ RoundsInv'
    BY <2>1 DEF IncTypes, RoundsInv
  <2>3. RaceInv' /\ LockInv'
    BY <1>0, <1>q, <2>1 DEF RaceInv, LockInv
  <2> QED
    BY <2>2, <2>3
<1>3. ASSUME NEW t \in Threads, Inc!Enter(t) PROVE IncInv'
  <2>1. /\ ipc[t] = "lock" /\ ipc' = [ipc EXCEPT ![t] = "load"] /\ Inc!MayEnter(t)
        /\ inside' = (IF program = "rw lock" THEN inside \cup {t} ELSE inside)
        /\ UNCHANGED <<shared, turns, register, imain>>
    BY <1>3 DEF Inc!Enter
  <2>2. IncTypes' /\ RoundsInv'
    BY <2>1 DEF IncTypes, RoundsInv
  <2>3. RaceInv'
    BY <1>q, <2>1 DEF RaceInv, IncTypes
  <2>4. LockInv'
    <3>1. ASSUME program = "rw lock", NEW w \in Writers, w \in inside' PROVE inside' = {w}
      BY <1>0, <2>1, <3>1 DEF LockInv, Inc!MayEnter
    <3> SUFFICES ASSUME program = "rw lock" PROVE LockInv'
      BY <1>0 DEF LockInv
    <3>2. shared' = shared /\ Cardinality(Done)' = Cardinality(Done) /\ inside' = inside \cup {t}
      BY <1>q, <2>1
    <3>3. \A u \in Threads : ipc'[u] \in {"load", "store", "leave"} => u \in inside'
      BY <2>1, <3>2 DEF LockInv, IncTypes
    <3>4. \A u \in Writers : ipc'[u] = "store" => register'[u] = shared'
      BY <2>1 DEF LockInv, IncTypes
    <3> QED
      BY <3>1, <3>2, <3>3, <3>4 DEF LockInv
  <2> QED
    BY <2>2, <2>3, <2>4
<1>4. ASSUME NEW t \in Threads, Inc!Load(t) PROVE IncInv'
  <2>1. /\ ipc[t] = "load" /\ ipc' = [ipc EXCEPT ![t] = IF t \in Writers THEN "store" ELSE "leave"]
        /\ register' = [register EXCEPT ![t] = shared]
        /\ UNCHANGED <<shared, inside, turns, imain>>
    BY <1>4 DEF Inc!Load
  <2>2. IncTypes' /\ RoundsInv'
    BY <1>0, <2>1 DEF IncTypes, RoundsInv
  <2>3. RaceInv'
    BY <1>q, <2>1 DEF RaceInv, IncTypes
  <2>4. LockInv'
    BY <1>0, <1>q, <2>1 DEF LockInv, IncTypes
  <2> QED
    BY <2>2, <2>3, <2>4
<1>5. ASSUME NEW t \in Threads, Inc!Store(t) PROVE IncInv'
  <2>1. PICK n \in {1, Increment} :
          /\ program = "rw lock" \/ turns[t] > 0 => n = 1
          /\ shared' = register[t] + n
          /\ turns' = [turns EXCEPT ![t] = turns[t] + n]
    BY <1>5 DEF Inc!Store
  <2>2. ipc[t] = "store" /\ ipc' = [ipc EXCEPT ![t] = "leave"] /\ UNCHANGED <<inside, register, imain>>
    BY <1>5 DEF Inc!Store
  <2>3. t \in Writers /\ turns[t] < Increment
    BY <2>2 DEF RoundsInv
  <2>4. n \in Nat /\ n > 0 /\ turns[t] \in Nat /\ turns[t] + n <= Increment /\ register[t] \in Nat
    <3>0. n \in Nat /\ n > 0
      BY <1>0
    <3>1. turns[t] \in Nat /\ register[t] \in Nat
      BY DEF IncTypes
    <3>2. CASE n = 1
      BY <1>0, <2>3, <3>0, <3>1, <3>2
    <3>3. CASE n # 1
      <4>1. n = Increment /\ ~(turns[t] > 0)
        BY <2>1, <3>3
      <4> QED
        BY <1>0, <3>0, <3>1, <4>1
    <3> QED
      BY <3>0, <3>1, <3>2, <3>3
  <2>5. Cardinality(Done)' = Cardinality(Done) + n
    BY <2>1, <2>3, <2>4, DoneGrows
  <2>6. IncTypes'
    <3>1. shared' \in Nat /\ turns[t] + n \in Nat
      <4>1. shared' = register[t] + n
        BY <2>1
      <4> QED
        BY <2>4, <4>1
    <3> QED
      BY <2>1, <2>2, <3>1 DEF IncTypes
  <2>6a. RoundsInv'
    <3>1. ASSUME NEW w \in Threads PROVE /\ turns'[w] = (IF w = t THEN turns[t] + n ELSE turns[w])
                                        /\ ipc'[w] = (IF w = t THEN "leave" ELSE ipc[w])
      BY <2>1, <2>2 DEF IncTypes
    <3> QED
      BY <2>2, <2>3, <2>4, <3>1 DEF IncTypes, RoundsInv
  <2>7. RaceInv'
    <3> DEFINE C == Cardinality(Done)
    <3>1. C \in Nat /\ C' = C + n /\ shared \in Initial .. (Initial + C)
      BY <1>c, <2>5 DEF RaceInv
    <3> HIDE DEF C
    <3>2. \A w \in Writers : register[w] \in Initial .. (Initial + C)
      BY DEF RaceInv, C
    <3>3. shared' \in Initial .. (Initial + C') /\ shared' > Initial
      <4>1. register[t] \in Initial .. (Initial + C) /\ shared' = register[t] + n
        BY <2>1, <2>3, <3>2
      <4> QED
        BY <1>0, <2>4, <3>1, <4>1
    <3>4. \A w \in Writers : register'[w] \in Initial .. (Initial + C')
      BY <1>0, <2>2, <2>4, <3>1, <3>2
    <3>5. ASSUME NEW w \in Writers, turns'[w] > 0, ipc'[w] = "store" PROVE register'[w] > Initial
      BY <2>1, <2>2, <3>5 DEF RaceInv, IncTypes
    <3>6. ASSUME shared' = Initial + 1 PROVE turns'[t] < Increment
      <4>1. n = 1 /\ register[t] = Initial
        <5>1. register[t] \in Initial .. (Initial + C) /\ shared' = register[t] + n
          BY <2>1, <2>3, <3>2
        <5> QED
          BY <1>0, <2>4, <3>1, <3>6, <5>1
      <4>2. turns[t] = 0
        BY <1>0, <2>2, <2>3, <2>4, <4>1 DEF RaceInv
      <4> QED
        BY <1>0, <2>1, <2>4, <4>1, <4>2 DEF IncTypes
    <3> QED
      BY <2>3, <3>3, <3>4, <3>5, <3>6 DEF RaceInv, C
  <2>8. LockInv'
    <3>1. ASSUME program = "rw lock", NEW w \in Writers, w # t PROVE ipc'[w] # "store"
      <4>1. inside = {t}
        BY <2>2, <2>3, <3>1 DEF LockInv
      <4> QED
        BY <2>2, <3>1, <4>1 DEF LockInv, IncTypes
    <3>2. ASSUME program = "rw lock" PROVE shared' = Initial + Cardinality(Done)'
      <4>1. register[t] = Initial + Cardinality(Done) /\ n = 1 /\ shared' = register[t] + n
        BY <2>1, <2>2, <2>3, <3>2 DEF LockInv
      <4> QED
        BY <1>0, <1>c, <2>5, <4>1
    <3>3. \A w \in Threads : ipc'[w] = (IF w = t THEN "leave" ELSE ipc[w])
      BY <2>2 DEF IncTypes
    <3>4. \A w \in Writers : ipc'[w] = "store" => program # "rw lock"
      BY <3>1, <3>3
    <3> QED
      BY <1>0, <2>2, <3>2, <3>3, <3>4 DEF LockInv
  <2> QED
    BY <2>6, <2>6a, <2>7, <2>8
<1>6. ASSUME NEW t \in Threads, Inc!Leave(t) PROVE IncInv'
  <2>1. /\ ipc[t] = "leave" /\ inside' = inside \ {t} /\ UNCHANGED <<shared, register, imain>>
        /\ turns' = (IF t \in Readers THEN [turns EXCEPT ![t] = turns[t] + 1] ELSE turns)
        /\ ipc' = [ipc EXCEPT ![t] = IF turns'[t] < Increment THEN "lock" ELSE "done"]
    BY <1>6 DEF Inc!Leave
  <2>2. IncTypes'
    BY <2>1 DEF IncTypes
  <2>3. \A w \in Writers : turns'[w] = turns[w]
    BY <1>0, <2>1 DEF IncTypes
  <2>4. Done' = Done
    BY <2>3 DEF Done
  <2>5. ASSUME NEW w \in Threads
        PROVE  /\ w # t => ipc'[w] = ipc[w]
               /\ w = t => ipc'[w] = (IF turns'[w] < Increment THEN "lock" ELSE "done")
    BY <2>1 DEF IncTypes
  <2>6. RoundsInv'
    BY <1>0, <2>1, <2>3, <2>5 DEF RoundsInv, IncTypes
  <2>7. RaceInv'
    BY <2>1, <2>3, <2>4, <2>5 DEF RaceInv
  <2>8. LockInv'
    <3> SUFFICES ASSUME program = "rw lock"
                 PROVE  /\ shared' = Initial + Cardinality(Done')
                        /\ \A w \in Threads : ipc'[w] \in {"load", "store", "leave"} => w \in inside'
                        /\ \A w \in Writers : w \in inside' => inside' = {w}
                        /\ \A w \in Writers : ipc'[w] = "store" => register'[w] = shared'
      BY <1>0 DEF LockInv
    <3>1. \A w \in Threads : ipc'[w] \in {"load", "store", "leave"} => w # t /\ ipc'[w] = ipc[w]
      BY <2>5
    <3>2. \A w \in Writers : w \in inside' => inside' = {w}
      BY <2>1 DEF LockInv
    <3> QED
      BY <2>1, <2>4, <3>1, <3>2 DEF LockInv
  <2> QED
    BY <2>2, <2>6, <2>7, <2>8
<1>7. CASE UNCHANGED incRest
  <2>1. UNCHANGED <<shared, inside, ipc, turns, register, imain>>
    BY <1>7 DEF incRest
  <2>2. IncTypes' /\ RoundsInv'
    BY <2>1 DEF IncTypes, RoundsInv
  <2>3. RaceInv' /\ LockInv'
    BY <1>0, <1>q, <2>1 DEF RaceInv, LockInv
  <2> QED
    BY <2>2, <2>3
<1>8. Inc!IncNext \/ UNCHANGED incRest
  BY DEF Next, vars
<1> QED
  BY <1>1, <1>2, <1>3, <1>4, <1>5, <1>6, <1>7, <1>8 DEF Inc!IncNext, Inc!IncStep

(* No more is counted than was done, all of it under the lock, and two     *)
(* without it: the last writer begins its last round after its first.      *)
LEMMA IncTotal == IncInv => Inc!CounterBounds
<1> SUFFICES ASSUME IncInv, imain = "printed" PROVE Inc!CounterBounds
  BY DEF Inc!CounterBounds
<1>1. \A t \in Writers : turns[t] = Increment
  BY DEF IncInv, RoundsInv
<1>2. Increment \in Nat /\ Increment > 1 /\ Initial \in Nat /\ IsFiniteSet(Writers) /\ Writers # {}
  BY ExercisesAssumption
<1>3. Cardinality(Done) = Cardinality(Writers) * Increment
  <2>1. Done = Writers \X (1 .. Increment)
    BY <1>1, <1>2 DEF Done
  <2>2. 1 \in Int /\ Increment \in Int
    BY <1>2
  <2>3. IsFiniteSet(1 .. Increment) /\ Cardinality(1 .. Increment) = IF 1 > Increment THEN 0 ELSE Increment - 1 + 1
    BY <2>2, FS_Interval
  <2>4. Cardinality(1 .. Increment) = Increment
    BY <1>2, <2>3
  <2> QED
    BY <1>2, <2>1, <2>3, <2>4, FS_Product
<1>4. Cardinality(Done) \in Nat
  BY DoneIsFinite DEF IncInv
<1>5. PICK w \in Writers : turns[w] > 0
  BY <1>1, <1>2
<1>6. shared \in Initial .. (Initial + Cardinality(Done)) /\ shared > Initial /\ shared # Initial + 1
  BY <1>1, <1>2, <1>5 DEF IncInv, RaceInv
<1>7. program = "rw lock" => shared = Initial + Cardinality(Done)
  BY DEF IncInv, LockInv
<1> HIDE DEF IncInv
<1> DEFINE C == Cardinality(Done)
<1>8. shared \in (Initial + 2) .. (Initial + C)
  <2>1. C \in Nat /\ shared \in Initial .. (Initial + C) /\ shared > Initial /\ shared # Initial + 1
    BY <1>4, <1>6
  <2> HIDE DEF C
  <2> QED
    BY <1>2, <2>1
<1> HIDE DEF C
<1>9. C = Cardinality(Writers) * Increment /\ (program = "rw lock" => shared = Initial + C)
  BY <1>3, <1>7 DEF C
<1>10. program # "rw lock" => shared \in (Initial + 2) .. (Initial + Cardinality(Writers) * Increment)
  BY <1>8, <1>9, Zenon
<1>11. program = "rw lock" => shared = Initial + Cardinality(Writers) * Increment
  BY <1>9, Zenon
<1>12. Inc!Cardinality(Writers) = Cardinality(Writers)
  BY DEF Inc!Cardinality, Cardinality
<1> QED
  BY <1>10, <1>11, <1>12, Zenon DEF Inc!CounterBounds

-----------------------------------------------------------------------------
(* The pipe.                                                               *)

(* Who can still write holds an end, and no line is lost on the way.       *)
PipeInv ==
    /\ inPipe \in Nat /\ left \in Nat /\ counted \in Nat
    /\ inPipe + counted + left = Lines
    /\ child \in [{"ls", "wc"} -> {"unborn", "born", "ready", "runs", "ended", "killed"}]
    /\ child["ls"] \in {"born", "ready", "runs"} => <<"ls", "write">> \in ends
    /\ par \in {"fork1", "fork2", "close"} => <<"parent", "write">> \in ends
    /\ par \in {"off", "fork1"} => child["ls"] = "unborn"
    /\ par \in {"fork2", "close", "wait", "ended"} => child["ls"] # "unborn"
    /\ child["wc"] # "unborn" => par \in {"close", "wait", "ended"}
    /\ child["wc"] = "ended" => Pipe!Gone("ls") /\ inPipe = 0
    /\ child["ls"] = "ended" => left = 0

(* wc finds the end of its input when ls, which held an end as long as it  *)
(* lived, is gone.                                                         *)
LEMMA PipeInductive == PipeInv /\ [Next]_vars => PipeInv'
<1> SUFFICES ASSUME PipeInv, [Next]_vars PROVE PipeInv'
  OBVIOUS
<1> USE ExercisesAssumption DEF PipeInv, Pipe!Gone
<1>1. CASE Pipe!PipeRun
  BY <1>1 DEF Pipe!PipeRun
<1>2. CASE Pipe!Fork("ls", "fork1", "fork2")
  <2>1. /\ par = "fork1" /\ UNCHANGED <<inPipe, left, counted>>
        /\ \/ /\ par' = "fork2" /\ child' = [child EXCEPT !["ls"] = "born"]
              /\ <<"ls", "write">> \in ends' /\ <<"parent", "write">> \in ends'
           \/ par' = "failed" /\ UNCHANGED child
    BY <1>2 DEF Pipe!Fork, Pipe!Of
  <2> QED
    BY <2>1
<1>3. CASE Pipe!Fork("wc", "fork2", "close")
  <2>1. /\ par = "fork2" /\ UNCHANGED <<inPipe, left, counted>>
        /\ \/ /\ par' = "close" /\ child' = [child EXCEPT !["wc"] = "born"]
              /\ ends \subseteq ends'
           \/ /\ par' = "failed" /\ UNCHANGED child
              /\ <<"ls", "write">> \in ends => <<"ls", "write">> \in ends'
    BY <1>3 DEF Pipe!Fork, Pipe!Of
  <2> QED
    BY <2>1
<1>4. CASE Pipe!CloseBoth
  <2>1. <<"ls", "write">> \in ends => <<"ls", "write">> \in ends'
    BY <1>4 DEF Pipe!CloseBoth, Pipe!Of
  <2> QED
    BY <1>4, <2>1 DEF Pipe!CloseBoth
<1>5. CASE Pipe!WaitBoth
  BY <1>5 DEF Pipe!WaitBoth
<1>6. CASE Pipe!LsWrites
  BY <1>6 DEF Pipe!LsWrites
<1>7. CASE Pipe!LsEnds
  <2>1. /\ child["ls"] = "runs" /\ UNCHANGED <<par, inPipe, left, counted>>
        /\ \/ left = 0 /\ child' = [child EXCEPT !["ls"] = "ended"]
           \/ child' = [child EXCEPT !["ls"] = "killed"]
    BY <1>7 DEF Pipe!LsEnds, Pipe!Exit
  <2>2. <<"parent", "write">> \in ends => <<"parent", "write">> \in ends'
    BY <1>7 DEF Pipe!LsEnds, Pipe!Exit, Pipe!Of
  <2> QED
    BY <2>1, <2>2
<1>8. CASE Pipe!WcReads
  BY <1>8 DEF Pipe!WcReads
<1>9. CASE Pipe!WcEnds
  <2>1. <<"ls", "write">> \notin ends /\ inPipe = 0 /\ child["wc"] = "runs"
    BY <1>9 DEF Pipe!WcEnds, Pipe!Writable
  <2>2. child["ls"] \in {"ended", "killed"}
    BY <2>1
  <2>3. child' = [child EXCEPT !["wc"] = "ended"] /\ UNCHANGED <<par, inPipe, left, counted>>
    BY <1>9 DEF Pipe!WcEnds, Pipe!Exit
  <2>4. <<"parent", "write">> \in ends => <<"parent", "write">> \in ends'
    BY <1>9 DEF Pipe!WcEnds, Pipe!Exit, Pipe!Of
  <2> QED
    BY <2>1, <2>2, <2>3, <2>4
<1>10. ASSUME NEW c \in Pipe!Children, Pipe!Redirect(c) PROVE PipeInv'
  <2>1. /\ child[c] = "born" /\ child' = [child EXCEPT ![c] = "ready"]
        /\ UNCHANGED <<par, inPipe, left, counted>>
        /\ ends' = ends \ {<<c, Pipe!Unused(c)>>}
    BY <1>10 DEF Pipe!Redirect
  <2>2. <<"ls", "write">> \in ends => <<"ls", "write">> \in ends'
    BY <2>1 DEF Pipe!Unused
  <2>3. <<"parent", "write">> \in ends => <<"parent", "write">> \in ends'
    BY <2>1 DEF Pipe!Children
  <2> QED
    BY <2>1, <2>2, <2>3 DEF Pipe!Children
<1>11. ASSUME NEW c \in Pipe!Children, Pipe!StartFails(c) PROVE PipeInv'
  <2>1. /\ child[c] \in {"born", "ready"} /\ child' = [child EXCEPT ![c] = "killed"]
        /\ UNCHANGED <<par, inPipe, left, counted>>
        /\ ends' = ends \ Pipe!Of(c)
    BY <1>11 DEF Pipe!StartFails, Pipe!Exit
  <2>2. c # "ls" /\ <<"ls", "write">> \in ends => <<"ls", "write">> \in ends'
    BY <2>1 DEF Pipe!Of
  <2>3. <<"parent", "write">> \in ends => <<"parent", "write">> \in ends'
    BY <2>1 DEF Pipe!Of, Pipe!Children
  <2> QED
    BY <2>1, <2>2, <2>3 DEF Pipe!Children
<1>12. ASSUME NEW c \in Pipe!Children, Pipe!Exec(c) PROVE PipeInv'
  BY <1>12 DEF Pipe!Exec, Pipe!Children
<1>13. CASE UNCHANGED pipeRest
  BY <1>13 DEF pipeRest
<1>14. Pipe!PipeNext \/ UNCHANGED pipeRest
  BY DEF Next, vars
<1> QED
  BY <1>1, <1>2, <1>3, <1>4, <1>5, <1>6, <1>7, <1>8, <1>9, <1>10, <1>11, <1>12, <1>13, <1>14
     DEF Pipe!PipeNext, Pipe!ParentStep, Pipe!Forks, Pipe!Tools, Pipe!ChildStep

(* What is printed in the end is right, for the counter with the lock and  *)
(* without it, and for the lines of wc.                                    *)
THEOREM TotalsAreExact == FairSpec => []TotalsAreRight
<1>1. Init => IncInv
  <2> SUFFICES ASSUME Init PROVE IncInv
    OBVIOUS
  <2>1. IncTypes /\ RoundsInv
    BY ExercisesAssumption DEF Init, Inc!IncInit, IncTypes, RoundsInv, Threads
  <2>2. Done = {}
    BY DEF Init, Inc!IncInit, Done, Threads
  <2>3. Cardinality(Done) = 0
    BY <2>2, FS_EmptySet
  <2>4. RaceInv
    BY <2>3, ExercisesAssumption DEF Init, Inc!IncInit, RaceInv, Threads
  <2>5. LockInv
    <3>1. inside = {} /\ shared = Initial /\ \A t \in Threads : ipc[t] = "off"
      BY DEF Init, Inc!IncInit, Threads
    <3>2. shared = Initial + Cardinality(Done)
      BY <2>3, <3>1, ExercisesAssumption
    <3> QED
      BY <3>1, <3>2 DEF LockInv, Threads
  <2> QED
    BY <2>1, <2>4, <2>5 DEF IncInv
<1>2. Init => PipeInv
  BY ExercisesAssumption DEF Init, Pipe!PipeInit, PipeInv, Pipe!Children
<1>3. PipeInv => Pipe!CountIsWhole
  BY ExercisesAssumption DEF PipeInv, Pipe!CountIsWhole
<1> QED
  BY <1>1, <1>2, <1>3, IncInductive, IncTotal, PipeInductive, PTL DEF FairSpec, TotalsAreRight

-----------------------------------------------------------------------------
(* The condition variable.                                                 *)

(* Between the test and the unlock a thread holds g_lock, so that what the *)
(* test found is still so when it puts or gets.                            *)
CondInv ==
    /\ g_data_ready \in BOOLEAN
    /\ hpc \in [Cond!Roles -> {"off", "lock", "test", "act", "signal", "asleep", "woken", "done"}]
    /\ \A t \in Cond!Roles : hpc[t] \in {"test", "act", "signal"} => holder = t
    /\ hpc["producer"] = "act" => g_data_ready = FALSE
    /\ hpc["consumer"] = "act" => g_data_ready = TRUE

(* The lock is taken by one, tests are made under it, and a signal or a    *)
(* wakeup leads back to the test.                                          *)
LEMMA CondInductive == CondInv /\ [Next]_vars => CondInv'
<1> SUFFICES ASSUME CondInv, [Next]_vars PROVE CondInv'
  OBVIOUS
<1> USE DEF CondInv, Cond!Roles, Cond!Moves
<1>1. CASE Cond!HandoffRun \/ Cond!JoinBoth
  BY <1>1 DEF Cond!HandoffRun, Cond!JoinBoth
<1>2. ASSUME NEW t \in Cond!Roles, Cond!CreateThread(t) PROVE CondInv'
  BY <1>2 DEF Cond!CreateThread
<1>3. ASSUME NEW t \in Cond!Roles, Cond!TakeLock(t) PROVE CondInv'
  BY <1>3 DEF Cond!TakeLock
<1>4. ASSUME NEW t \in Cond!Roles, Cond!TestFlag(t) PROVE CondInv'
  <2>1. \/ /\ g_data_ready = (t = "producer") /\ holder' = "none" /\ hpc' = [hpc EXCEPT ![t] = "asleep"]
        \/ /\ g_data_ready # (t = "producer") /\ holder' = holder /\ hpc' = [hpc EXCEPT ![t] = "act"]
    BY <1>4 DEF Cond!TestFlag
  <2>2. hpc[t] = "test" /\ holder = t /\ UNCHANGED g_data_ready
    BY <1>4 DEF Cond!TestFlag
  <2>3. CASE t = "producer"
    BY <2>1, <2>2, <2>3
  <2>4. CASE t = "consumer"
    BY <2>1, <2>2, <2>4
  <2> QED
    BY <2>3, <2>4
<1>5. CASE Cond!PutData
  <2>1. hpc["consumer"] # "act" /\ holder = "producer"
    BY <1>5 DEF Cond!PutData
  <2> QED
    BY <1>5, <2>1 DEF Cond!PutData
<1>6. CASE Cond!GetData
  <2>1. hpc["producer"] # "act" /\ holder = "consumer"
    BY <1>6 DEF Cond!GetData
  <2> QED
    BY <1>6, <2>1 DEF Cond!GetData
<1>7. ASSUME NEW t \in Cond!Roles, Cond!SignalUnlock(t) PROVE CondInv'
  <2>1. PICK next \in {"lock", "done"} :
          hpc' = [hpc EXCEPT ![t] = next,
                             ![Cond!Partner(t)] = IF @ = "asleep" THEN "woken" ELSE @]
    BY <1>7 DEF Cond!SignalUnlock
  <2>2. hpc[t] = "signal" /\ holder' = "none" /\ UNCHANGED g_data_ready /\ holder = t
    BY <1>7 DEF Cond!SignalUnlock
  <2>3. CASE t = "producer"
    BY <2>1, <2>2, <2>3 DEF Cond!Partner
  <2>4. CASE t = "consumer"
    BY <2>1, <2>2, <2>4 DEF Cond!Partner
  <2> QED
    BY <2>3, <2>4
<1>8. ASSUME NEW t \in Cond!Roles, Cond!WakesUp(t) PROVE CondInv'
  BY <1>8 DEF Cond!WakesUp
<1>9. CASE UNCHANGED condRest
  BY <1>9 DEF condRest
<1>10. Cond!HandoffNext \/ UNCHANGED condRest
  BY DEF Next, vars
<1> QED
  BY <1>1, <1>2, <1>3, <1>4, <1>5, <1>6, <1>7, <1>8, <1>9, <1>10
     DEF Cond!HandoffNext, Cond!HandoffMain, Cond!ThreadStep

(* g_data and its flag are a queue of one place: a value is put when there *)
(* is none, and the consumer gets the one that was put.                    *)
THEOREM HandoffImplementsQueue == FairSpec => CondHandsOver
<1> DEFINE queue == IF g_data_ready THEN <<g_data>> ELSE <<>>
           taken == [c \in {"consumer"} |-> received]
<1>1. Init => CondInv /\ Cond!Slot!Init
  BY DEF Init, Cond!HandoffInit, CondInv, Cond!Roles, Cond!Slot!Init
<1>2. CondInv /\ [Next]_vars => [Cond!Slot!Next]_<<queue, taken>>
  <2> SUFFICES ASSUME CondInv, [Next]_vars PROVE [Cond!Slot!Next]_<<queue, taken>>
    OBVIOUS
  <2>1. CASE Cond!PutData
    <3>1. g_data_ready = FALSE /\ g_data_ready' = TRUE /\ g_data' \in Values /\ received' = received
      BY <2>1 DEF Cond!PutData, CondInv
    <3>2. queue = <<>> /\ queue' = Append(queue, g_data') /\ taken' = taken
      BY <3>1
    <3>3. Cond!Slot!Put(g_data')
      BY <3>2 DEF Cond!Slot!Put
    <3> QED
      BY <3>1, <3>3 DEF Cond!Slot!Next
  <2>2. CASE Cond!GetData
    <3>1. g_data_ready = TRUE /\ g_data_ready' = FALSE /\ received' = g_data
      BY <2>2 DEF Cond!GetData, CondInv
    <3>2. queue # <<>> /\ Head(queue) = g_data /\ queue' = Tail(queue)
      BY <3>1
    <3>3. taken' = [taken EXCEPT !["consumer"] = Head(queue)]
      BY <3>1, <3>2
    <3>4. Cond!Slot!Get("consumer")
      BY <3>2, <3>3 DEF Cond!Slot!Get
    <3> QED
      BY <3>4 DEF Cond!Slot!Next
  <2>3. ASSUME UNCHANGED <<g_data, g_data_ready, received>> PROVE UNCHANGED <<queue, taken>>
    BY <2>3
  <2>4. Cond!PutData \/ Cond!GetData \/ UNCHANGED <<g_data, g_data_ready, received>>
    BY DEF Next, vars, condRest, Cond!HandoffNext, Cond!HandoffRun, Cond!HandoffMain, Cond!JoinBoth,
           Cond!CreateThread, Cond!ThreadStep, Cond!TakeLock, Cond!TestFlag, Cond!SignalUnlock, Cond!WakesUp
  <2> QED
    BY <2>1, <2>2, <2>3, <2>4
<1> QED
  BY <1>1, <1>2, CondInductive, PTL DEF FairSpec, CondHandsOver, Cond!HandsOver, Cond!Slot!Spec

-----------------------------------------------------------------------------
(* The datagram clients and servers.                                       *)

Nobody == Dgram!Nobody

(* A name without a space, which the solver cannot read.                   *)
UnixDatagram == "unix datagram"

(* A client that waits, or has left, may have a request or an answer on    *)
(* its way; one that has not sent its line has none.                       *)
Asking == {"recv", "ended"}

DgramTypes ==
    /\ dspc \in [DgramServers -> {"off", "recv", "send", "ended"}]
    /\ spath \in DgramServers \cup {Nobody}
    /\ inbox \in [DgramServers -> Seq([from : DgramClients, line : Nat, text : {"text", "empty"}])]
    /\ handling \in [DgramServers -> [from : DgramClients \cup {Nobody}, line : Nat]]
    /\ dcpc \in [DgramClients -> {"off", "prompt", "recv", "ended"}]
    /\ cpath \in DgramClients \cup {Nobody}
    /\ answers \in [DgramClients -> Seq([from : DgramClients, line : Nat])]
    /\ line \in [DgramClients -> Nat]
    /\ overtook \in [DgramClients -> SUBSET DgramClients]
    /\ DOMAIN printed = DgramClients

(* Whatever is on its way belongs to the latest line of a client.          *)
LatestInv ==
    /\ \A s \in DgramServers, i \in Nat : i \in 1 .. Len(inbox[s]) =>
         dcpc[inbox[s][i].from] \in Asking /\ inbox[s][i].line = line[inbox[s][i].from]
    /\ \A s \in DgramServers : handling[s].from # Nobody =>
         dcpc[handling[s].from] \in Asking /\ handling[s].line = line[handling[s].from]
    /\ \A s \in DgramServers : dspc[s] = "send" => handling[s].from # Nobody
    /\ \A c \in DgramClients, i \in Nat : i \in 1 .. Len(answers[c]) =>
         dcpc[answers[c][i].from] \in Asking /\ answers[c][i].line = line[answers[c][i].from]

(* UDP: of each client one request or answer is on its way, at most.       *)
OnceInv ==
    program = "udp" =>
      /\ \A s, t \in DgramServers, i, j \in Nat :
           i \in 1 .. Len(inbox[s]) /\ j \in 1 .. Len(inbox[t]) /\ inbox[s][i].from = inbox[t][j].from =>
             s = t /\ i = j
      /\ \A s, t \in DgramServers, i \in Nat :
           i \in 1 .. Len(inbox[s]) => inbox[s][i].from # handling[t].from
      /\ \A s \in DgramServers, i \in Nat :
           i \in 1 .. Len(inbox[s]) => answers[inbox[s][i].from] = <<>>
      /\ \A s, t \in DgramServers :
           handling[s].from = handling[t].from /\ handling[s].from # Nobody => s = t
      /\ \A s \in DgramServers : handling[s].from # Nobody => answers[handling[s].from] = <<>>
      /\ \A c \in DgramClients : Len(answers[c]) <= 1
      /\ \A c \in DgramClients, i \in Nat : i \in 1 .. Len(answers[c]) => answers[c][i].from = c

(* UNIX: who has CLIENT_PATH knows whom it took it from, and receives the  *)
(* answers of those only.                                                  *)
PathInv ==
    program = UnixDatagram =>
      /\ \A c \in DgramClients : dcpc[c] = "off" => answers[c] = <<>>
      /\ cpath # Nobody => \A c \in DgramClients : c # cpath =>
           /\ dcpc[c] \in {"prompt", "recv"} => c \in overtook[cpath]
           /\ \A s \in DgramServers : handling[s].from = c => c \in overtook[cpath]
           /\ \A s \in DgramServers, i \in Nat :
                i \in 1 .. Len(inbox[s]) /\ inbox[s][i].from = c => c \in overtook[cpath]
      /\ \A c \in DgramClients, i \in Nat : i \in 1 .. Len(answers[c]) =>
           answers[c][i].from = c \/ answers[c][i].from \in overtook[c]

DgramInv == DgramTypes /\ LatestInv /\ OnceInv /\ PathInv

(* What is left of a queue without its head, and with one more.            *)
LEMMA TailOfQueue ==
    ASSUME NEW S, NEW q \in Seq(S), q # <<>>
    PROVE  /\ Head(q) = q[1] /\ Head(q) \in S /\ 1 \in 1 .. Len(q)
           /\ Tail(q) \in Seq(S) /\ Len(Tail(q)) = Len(q) - 1
           /\ \A i \in Nat : i \in 1 .. Len(Tail(q)) => i + 1 \in 1 .. Len(q) /\ Tail(q)[i] = q[i + 1]
<1>1. Len(q) \in Nat /\ Len(q) > 0 /\ Head(q) = q[1]
  OBVIOUS
<1>2. Tail(q) \in Seq(S) /\ Len(Tail(q)) = Len(q) - 1
  OBVIOUS
<1>3. \A i \in 1 .. Len(Tail(q)) : Tail(q)[i] = q[i + 1]
  OBVIOUS
<1>4. q[1] \in S
  BY <1>1
<1> QED
  BY <1>1, <1>2, <1>3, <1>4

(* What is in a queue to which one more was appended.                      *)
LEMMA QueueWithOneMore ==
    ASSUME NEW S, NEW q \in Seq(S), NEW x \in S
    PROVE  /\ Append(q, x) \in Seq(S) /\ Len(Append(q, x)) = Len(q) + 1 /\ Len(q) \in Nat
           /\ \A i \in Nat : i \in 1 .. Len(Append(q, x)) =>
                \/ i \in 1 .. Len(q) /\ Append(q, x)[i] = q[i]
                \/ i = Len(q) + 1 /\ Append(q, x)[i] = x
  OBVIOUS

(* A request is taken out of the queue before it is answered, and a client *)
(* goes on only with the answer in its hands.                              *)
LEMMA DgramInductive == DgramInv /\ [Next]_vars => DgramInv'
<1> SUFFICES ASSUME DgramInv, [Next]_vars PROVE DgramInv'
  OBVIOUS
<1>0. UNCHANGED program /\ Nobody = 0 /\ 0 \notin DgramServers /\ 0 \notin DgramClients
  <2>1. UNCHANGED program
    BY DEF Next, vars
  <2> QED
    BY <2>1, ExercisesAssumption DEF Nobody, Dgram!Nobody
<1> DEFINE Request == [from : DgramClients, line : Nat, text : {"text", "empty"}]
           Answer == [from : DgramClients, line : Nat]
<1> USE DEF DgramInv
<1>1. ASSUME NEW s \in DgramServers, Dgram!DgramStart(s) PROVE DgramInv'
  <2>1. /\ dspc' = [dspc EXCEPT ![s] = "ended"] \/ dspc' = [dspc EXCEPT ![s] = "recv"]
        /\ spath' \in DgramServers \cup {Nobody}
        /\ UNCHANGED <<inbox, handling, dcpc, cpath, answers, line, overtook, printed>>
    BY <1>1 DEF Dgram!DgramStart, dgramRest, Dgram!dclientVars, Dgram!dhistory, DgramTypes
  <2>2. DgramTypes'
    BY <2>1 DEF DgramTypes
  <2>3. LatestInv'
    <3>1. \A t \in DgramServers : dspc'[t] = "send" => dspc[t] = "send"
      BY <2>1 DEF DgramTypes
    <3>2. \A t \in DgramServers : dspc'[t] = "send" => handling'[t].from # Nobody
      BY <2>1, <3>1 DEF LatestInv
    <3> HIDE DEF Request, Answer
    <3> QED
      BY <2>1, <3>2 DEF LatestInv
  <2>4. OnceInv'
    BY <1>0, <2>1 DEF OnceInv
  <2>5. PathInv'
    BY <1>0, <2>1 DEF PathInv
  <2> QED
    BY <2>2, <2>3, <2>4, <2>5
<1>u. UnixDatagram # "udp"
  BY Zenon DEF UnixDatagram
<1>r. /\ \A t \in DgramServers, i \in Nat : i \in 1 .. Len(inbox[t]) => inbox[t][i].from \in DgramClients
      /\ \A t \in DgramServers : handling[t].from # Nobody => handling[t].from \in DgramClients
      /\ \A d \in DgramClients, i \in Nat : i \in 1 .. Len(answers[d]) => answers[d][i].from \in DgramClients
      /\ \A t \in DgramServers : DOMAIN inbox[t] = 1 .. Len(inbox[t])
  <2>1. ASSUME NEW t \in DgramServers
        PROVE  /\ \A i \in 1 .. Len(inbox[t]) : inbox[t][i] \in Request
               /\ DOMAIN inbox[t] = 1 .. Len(inbox[t])
    <3> HIDE DEF Request
    <3>1. inbox[t] \in Seq(Request)
      BY DEF DgramTypes, Request
    <3> QED
      BY <3>1
  <2>2. ASSUME NEW d \in DgramClients PROVE \A i \in 1 .. Len(answers[d]) : answers[d][i] \in Answer
    <3> HIDE DEF Answer
    <3>1. answers[d] \in Seq(Answer)
      BY DEF DgramTypes, Answer
    <3> QED
      BY <3>1
  <2>3. ASSUME NEW t \in DgramServers, handling[t].from # Nobody PROVE handling[t].from \in DgramClients
    BY <2>3 DEF DgramTypes
  <2> QED
    BY <2>1, <2>2, <2>3
<1>2. ASSUME NEW s \in DgramServers, Dgram!DgramReceive(s) PROVE DgramInv'
  <2> DEFINE r == Head(inbox[s])
  <2>1. /\ UNCHANGED <<spath, dcpc, cpath, answers, line, overtook, printed>>
        /\ inbox[s] # <<>> /\ inbox' = [inbox EXCEPT ![s] = Tail(inbox[s])]
        /\ \/ UNCHANGED <<dspc, handling>>
           \/ /\ handling' = [handling EXCEPT ![s] = [from |-> r.from, line |-> r.line]]
              /\ dspc' = [dspc EXCEPT ![s] = "send"]
    BY <1>2 DEF Dgram!DgramReceive, Dgram!dclientVars
  <2>2. inbox[s] \in Seq(Request)
    BY DEF DgramTypes
  <2> HIDE DEF Request
  <2>3. r = inbox[s][1] /\ r \in Request /\ 1 \in 1 .. Len(inbox[s]) /\ Tail(inbox[s]) \in Seq(Request)
    BY <2>1, <2>2, TailOfQueue
  <2>4. \A t \in DgramServers, i \in Nat : i \in 1 .. Len(inbox'[t]) =>
          \/ t # s /\ i \in 1 .. Len(inbox[t]) /\ inbox'[t][i] = inbox[t][i]
          \/ t = s /\ i + 1 \in 1 .. Len(inbox[t]) /\ inbox'[t][i] = inbox[t][i + 1]
    <3>1. inbox'[s] = Tail(inbox[s]) /\ \A t \in DgramServers : t # s => inbox'[t] = inbox[t]
      BY <2>1 DEF DgramTypes
    <3>2. \A i \in Nat : i \in 1 .. Len(Tail(inbox[s])) =>
            i + 1 \in 1 .. Len(inbox[s]) /\ Tail(inbox[s])[i] = inbox[s][i + 1]
      BY <2>1, <2>2, TailOfQueue
    <3> QED
      BY <3>1, <3>2
  <2>5. \A t \in DgramServers :
          \/ handling'[t] = handling[t] /\ dspc'[t] = dspc[t]
          \/ t = s /\ handling'[t].from = r.from /\ handling'[t].line = r.line
    BY SMTT(30), <2>1 DEF DgramTypes
  <2>4a. \A t \in DgramServers, i \in Nat : i \in 1 .. Len(inbox'[t]) =>
           \E k \in Nat : k \in 1 .. Len(inbox[t]) /\ inbox'[t][i] = inbox[t][k]
    BY <2>4
  <2>5a. r.from \in DgramClients /\ r.line \in Nat
    BY <2>3 DEF Request
  <2> HIDE DEF r
  <2>6. DgramTypes'
    <3>1. inbox' \in [DgramServers -> Seq(Request)]
      BY <2>1, <2>3 DEF DgramTypes, Request
    <3>2. handling' \in [DgramServers -> [from : DgramClients \cup {Nobody}, line : Nat]]
      <4>1. [from |-> r.from, line |-> r.line] \in [from : DgramClients \cup {Nobody}, line : Nat]
        BY <2>5a
      <4> QED
        BY <2>1, <4>1 DEF DgramTypes
    <3>3. dspc' \in [DgramServers -> {"off", "recv", "send", "ended"}]
      BY <2>1 DEF DgramTypes
    <3> QED
      BY <2>1, <3>1, <3>2, <3>3 DEF DgramTypes, Request
  <2>7. LatestInv'
    <3>1. \A t \in DgramServers, i \in Nat : i \in 1 .. Len(inbox'[t]) =>
            dcpc[inbox'[t][i].from] \in Asking /\ inbox'[t][i].line = line[inbox'[t][i].from]
      BY <2>4a DEF LatestInv
    <3>2. \A t \in DgramServers : handling'[t].from # Nobody =>
            dcpc[handling'[t].from] \in Asking /\ handling'[t].line = line[handling'[t].from]
      BY <2>3, <2>5 DEF LatestInv
    <3>3. \A t \in DgramServers : dspc'[t] = "send" => handling'[t].from # Nobody
      BY <1>0, <2>5, <2>5a DEF LatestInv
    <3> QED
      BY <2>1, <3>1, <3>2, <3>3 DEF LatestInv
  <2>8. OnceInv'
    <3> SUFFICES ASSUME program = "udp" PROVE OnceInv'
      BY <1>0 DEF OnceInv
    <3>1. \A t, u \in DgramServers, i, j \in Nat :
            i \in 1 .. Len(inbox'[t]) /\ j \in 1 .. Len(inbox'[u]) /\ inbox'[t][i].from = inbox'[u][j].from =>
              t = u /\ i = j
      <4> SUFFICES ASSUME NEW t \in DgramServers, NEW u \in DgramServers, NEW i \in Nat, NEW j \in Nat,
                          i \in 1 .. Len(inbox'[t]), j \in 1 .. Len(inbox'[u]),
                          inbox'[t][i].from = inbox'[u][j].from
                   PROVE  t = u /\ i = j
        OBVIOUS
      <4>1. PICK k \in {i, i + 1} : k \in 1 .. Len(inbox[t]) /\ inbox'[t][i] = inbox[t][k] /\ (k = i <=> t # s)
        BY <2>4
      <4>2. PICK l \in {j, j + 1} : l \in 1 .. Len(inbox[u]) /\ inbox'[u][j] = inbox[u][l] /\ (l = j <=> u # s)
        BY <2>4
      <4>3. k \in Nat /\ l \in Nat /\ inbox[t][k].from = inbox[u][l].from
        BY <4>1, <4>2
      <4>4. \A a, b \in DgramServers, m, n \in Nat :
              m \in 1 .. Len(inbox[a]) /\ n \in 1 .. Len(inbox[b]) /\ inbox[a][m].from = inbox[b][n].from =>
                a = b /\ m = n
        BY Zenon DEF OnceInv
      <4>5. t = u /\ k = l
        BY <4>1, <4>2, <4>3, <4>4
      <4> QED
        BY <4>1, <4>2, <4>5
    <3>2. \A t, u \in DgramServers, i \in Nat :
            i \in 1 .. Len(inbox'[t]) => inbox'[t][i].from # handling'[u].from
      <4> SUFFICES ASSUME NEW t \in DgramServers, NEW u \in DgramServers, NEW i \in Nat,
                          i \in 1 .. Len(inbox'[t])
                   PROVE  inbox'[t][i].from # handling'[u].from
        OBVIOUS
      <4>1. PICK k \in {i, i + 1} : k \in 1 .. Len(inbox[t]) /\ inbox'[t][i] = inbox[t][k] /\ (k = i <=> t # s)
        BY <2>4
      <4>2. t = s => k # 1
        BY <4>1
      <4>3. inbox[t][k].from # r.from
        BY <2>3, <4>1, <4>2 DEF OnceInv
      <4> QED
        BY <2>5, <4>1, <4>3 DEF OnceInv
    <3>3. \A t \in DgramServers, i \in Nat : i \in 1 .. Len(inbox'[t]) => answers[inbox'[t][i].from] = <<>>
      <4>1. \A t \in DgramServers, i \in Nat : i \in 1 .. Len(inbox[t]) => answers[inbox[t][i].from] = <<>>
        BY Zenon DEF OnceInv
      <4> QED
        BY <2>4a, <4>1
    <3>4. \A t, u \in DgramServers :
            handling'[t].from = handling'[u].from /\ handling'[t].from # Nobody => t = u
      BY <2>3, <2>5 DEF OnceInv
    <3>5. \A t \in DgramServers : handling'[t].from # Nobody => answers[handling'[t].from] = <<>>
      BY <2>3, <2>5 DEF OnceInv
    <3> QED
      BY SMTT(30), <2>1, <3>1, <3>2, <3>3, <3>4, <3>5 DEF OnceInv
  <2>9. PathInv'
    <3> SUFFICES ASSUME program = UnixDatagram PROVE PathInv'
      BY <1>0 DEF PathInv
    <3>1. ASSUME cpath # Nobody, NEW c \in DgramClients, c # cpath, NEW t \in DgramServers
          PROVE  /\ handling'[t].from = c => c \in overtook[cpath]
                 /\ \A i \in Nat : i \in 1 .. Len(inbox'[t]) /\ inbox'[t][i].from = c => c \in overtook[cpath]
      <4>1. handling'[t].from = c => c \in overtook[cpath]
        BY <2>3, <2>5, <3>1 DEF PathInv
      <4>2. ASSUME NEW i \in Nat, i \in 1 .. Len(inbox'[t]), inbox'[t][i].from = c PROVE c \in overtook[cpath]
        BY <2>4a, <3>1, <4>2 DEF PathInv
      <4> QED
        BY <4>1, <4>2
    <3> QED
      BY <2>1, <3>1 DEF PathInv
  <2> QED
    BY <2>6, <2>7, <2>8, <2>9
<1>3. ASSUME NEW s \in DgramServers, Dgram!DgramRespond(s) PROVE DgramInv'
  <2> DEFINE to == Dgram!Addressee(s)
             r == handling[s]
  <2>1. /\ UNCHANGED <<spath, inbox, dcpc, cpath, line, overtook, printed>>
        /\ dspc[s] = "send" /\ dspc' = [dspc EXCEPT ![s] = "recv"]
        /\ handling' = [handling EXCEPT ![s] = Dgram!NoRequest]
        /\ \/ to # Nobody /\ dcpc[to] \in {"prompt", "recv"}
              /\ answers' = [answers EXCEPT ![to] = Append(answers[to], r)]
           \/ UNCHANGED answers
    BY <1>3 DEF Dgram!DgramRespond, Dgram!Open, Nobody
  <2>2. r \in Answer /\ dcpc[r.from] \in Asking /\ r.line = line[r.from]
    <3>1. r \in [from : DgramClients \cup {Nobody}, line : Nat] /\ r.from # Nobody
      BY <2>1 DEF DgramTypes, LatestInv
    <3> QED
      BY <3>1 DEF LatestInv
  <2>3. to \in DgramClients \cup {Nobody} /\ (program = "udp" => to = r.from)
        /\ (program = UnixDatagram => to = cpath)
    BY <1>u, <2>2 DEF Dgram!Addressee, DgramTypes
  <2>4. \A t \in DgramServers :
          \/ t # s /\ handling'[t] = handling[t] /\ dspc'[t] = dspc[t]
          \/ t = s /\ handling'[t].from = Nobody /\ dspc'[t] = "recv"
    BY <2>1 DEF DgramTypes, Dgram!NoRequest, Nobody
  <2> HIDE DEF to, r, Answer
  <2>5. /\ answers' \in [DgramClients -> Seq(Answer)]
        /\ \A c \in DgramClients, i \in Nat : i \in 1 .. Len(answers'[c]) =>
             \/ i \in 1 .. Len(answers[c]) /\ answers'[c][i] = answers[c][i]
             \/ c = to /\ i = Len(answers[c]) + 1 /\ answers'[c][i] = r
        /\ \A c \in DgramClients : c # to => answers'[c] = answers[c]
        /\ \A c \in DgramClients : answers'[c] # answers[c] => to # Nobody /\ dcpc[to] \in {"prompt", "recv"}
    <3>0. answers \in [DgramClients -> Seq(Answer)]
      BY DEF DgramTypes, Answer
    <3>1. CASE UNCHANGED answers
      BY <3>0, <3>1
    <3>2. CASE to # Nobody /\ dcpc[to] \in {"prompt", "recv"} /\ answers' = [answers EXCEPT ![to] = Append(answers[to], r)]
      <4>1. to \in DgramClients /\ answers[to] \in Seq(Answer)
        BY <2>3, <3>0, <3>2
      <4>2. Append(answers[to], r) \in Seq(Answer)
        BY <2>2, <4>1
      <4>3. answers'[to] = Append(answers[to], r) /\ \A c \in DgramClients : c # to => answers'[c] = answers[c]
        BY <3>0, <3>2, <4>1
      <4>4. \A i \in Nat : i \in 1 .. Len(Append(answers[to], r)) =>
              \/ i \in 1 .. Len(answers[to]) /\ Append(answers[to], r)[i] = answers[to][i]
              \/ i = Len(answers[to]) + 1 /\ Append(answers[to], r)[i] = r
        BY <2>2, <4>1, QueueWithOneMore
      <4>5. answers' \in [DgramClients -> Seq(Answer)]
        BY <3>0, <3>2, <4>1, <4>2
      <4> QED
        BY <3>2, <4>1, <4>3, <4>4, <4>5
    <3> QED
      BY <2>1, <3>1, <3>2
  <2>6. DgramTypes'
    <3>1. handling' \in [DgramServers -> [from : DgramClients \cup {Nobody}, line : Nat]]
      <4>1. Dgram!NoRequest \in [from : DgramClients \cup {Nobody}, line : Nat]
        BY DEF Dgram!NoRequest, Nobody
      <4> QED
        BY <2>1, <4>1 DEF DgramTypes
    <3> QED
      BY <2>1, <2>5, <3>1 DEF DgramTypes, Answer
  <2>7. LatestInv'
    <3>1. \A t \in DgramServers : dspc'[t] = "send" => handling'[t].from # Nobody
      BY <2>4 DEF LatestInv
    <3>2. \A t \in DgramServers : handling'[t].from # Nobody =>
            dcpc[handling'[t].from] \in Asking /\ handling'[t].line = line[handling'[t].from]
      BY <2>4 DEF LatestInv
    <3>3. ASSUME NEW c \in DgramClients, NEW i \in Nat, i \in 1 .. Len(answers'[c])
          PROVE  dcpc[answers'[c][i].from] \in Asking /\ answers'[c][i].line = line[answers'[c][i].from]
      BY <2>2, <2>5, <3>3 DEF LatestInv
    <3> QED
      BY <2>1, <3>1, <3>2, <3>3 DEF LatestInv
  <2>8. OnceInv'
    <3> SUFFICES ASSUME program = "udp" PROVE OnceInv'
      BY <1>0 DEF OnceInv
    <3>1. r.from \in DgramClients /\ r.from # Nobody /\ to = r.from
      BY <1>0, <2>2, <2>3 DEF Answer
    <3>2. answers[to] = <<>> /\ Len(answers[to]) = 0
      BY <3>1 DEF OnceInv, r
    <3>3. \A t \in DgramServers, i \in Nat : i \in 1 .. Len(inbox[t]) =>
            /\ answers'[inbox[t][i].from] = <<>>
            /\ \A u \in DgramServers : inbox[t][i].from # handling'[u].from
      <4> SUFFICES ASSUME NEW t \in DgramServers, NEW i \in Nat, i \in 1 .. Len(inbox[t])
                   PROVE  /\ answers'[inbox[t][i].from] = <<>>
                          /\ \A u \in DgramServers : inbox[t][i].from # handling'[u].from
        OBVIOUS
      <4>1. inbox[t][i].from \in DgramClients
        BY <1>r
      <4>2. inbox[t][i].from # to
        BY <3>1 DEF OnceInv, r
      <4>3. answers'[inbox[t][i].from] = <<>>
        BY <2>5, <4>1, <4>2 DEF OnceInv
      <4>4. ASSUME NEW u \in DgramServers PROVE inbox[t][i].from # handling'[u].from
        <5>1. inbox[t][i].from # handling[u].from /\ inbox[t][i].from # Nobody
          BY <1>0, <4>1 DEF OnceInv
        <5> QED
          BY <2>4, <5>1
      <4> QED
        BY <4>3, <4>4
    <3>4. \A t, u \in DgramServers :
            handling'[t].from = handling'[u].from /\ handling'[t].from # Nobody => t = u
      BY <2>4 DEF OnceInv
    <3>5. \A t \in DgramServers : handling'[t].from # Nobody => answers'[handling'[t].from] = <<>>
      <4> SUFFICES ASSUME NEW t \in DgramServers, handling'[t].from # Nobody
                   PROVE  answers'[handling'[t].from] = <<>>
        OBVIOUS
      <4>1. t # s /\ handling'[t] = handling[t] /\ handling[t].from \in DgramClients
        BY <2>4 DEF DgramTypes
      <4>2. handling[t].from # to
        BY <3>1, <4>1 DEF OnceInv, r
      <4> QED
        BY <2>5, <4>1, <4>2 DEF OnceInv
    <3>6. ASSUME NEW c \in DgramClients
          PROVE  /\ Len(answers'[c]) <= 1
                 /\ \A i \in Nat : i \in 1 .. Len(answers'[c]) => answers'[c][i].from = c
      <4>1. Len(answers'[c]) \in Nat
        BY <2>5
      <4>2. CASE c # to
        BY <2>5, <4>2 DEF OnceInv
      <4>3. CASE c = to
        <5>1. \A i \in Nat : i \in 1 .. Len(answers'[c]) => i = 1 /\ answers'[c][i] = r
          BY <2>5, <3>2, <4>3
        <5>2. Len(answers'[c]) <= 1
          BY <4>1, <5>1
        <5> QED
          BY <3>1, <4>3, <5>1, <5>2
      <4> QED
        BY <4>2, <4>3
    <3> QED
      BY SMTT(30), <2>1, <3>3, <3>4, <3>5, <3>6 DEF OnceInv
  <2>9. PathInv'
    <3> SUFFICES ASSUME program = UnixDatagram PROVE PathInv'
      BY <1>0 DEF PathInv
    <3>1. ASSUME NEW c \in DgramClients, dcpc[c] = "off" PROVE answers'[c] = <<>>
      BY <2>5, <3>1 DEF PathInv
    <3>2. ASSUME cpath # Nobody, NEW c \in DgramClients, c # cpath, NEW t \in DgramServers, handling'[t].from = c
          PROVE  c \in overtook[cpath]
      BY <1>0, <2>4, <3>2 DEF PathInv, Nobody
    <3>3. ASSUME NEW c \in DgramClients, NEW i \in Nat, i \in 1 .. Len(answers'[c])
          PROVE  answers'[c][i].from = c \/ answers'[c][i].from \in overtook[c]
      <4>1. CASE i \in 1 .. Len(answers[c]) /\ answers'[c][i] = answers[c][i]
        BY <4>1 DEF PathInv
      <4>2. CASE c = to /\ answers'[c][i] = r
        <5>1. r.from \in DgramClients /\ c = cpath /\ cpath # Nobody
          BY <1>0, <2>2, <2>3, <4>2 DEF Answer
        <5> QED
          BY <4>2, <5>1 DEF PathInv, r
      <4> QED
        BY <2>5, <3>3, <4>1, <4>2
    <3> QED
      BY <2>1, <3>1, <3>2, <3>3 DEF PathInv
  <2> QED
    BY <2>6, <2>7, <2>8, <2>9
<1>4. ASSUME NEW s \in DgramServers, Dgram!DgramKill(s) PROVE DgramInv'
  <2>1. /\ dspc' = [dspc EXCEPT ![s] = "ended"] /\ inbox' = [inbox EXCEPT ![s] = <<>>]
        /\ handling' = [handling EXCEPT ![s] = Dgram!NoRequest]
        /\ UNCHANGED <<spath, dcpc, cpath, answers, line, overtook, printed>>
    BY <1>4 DEF Dgram!DgramKill, Dgram!dclientVars
  <2>2. \A t \in DgramServers :
          \/ t # s /\ handling'[t] = handling[t] /\ dspc'[t] = dspc[t] /\ inbox'[t] = inbox[t]
          \/ t = s /\ handling'[t].from = Nobody /\ dspc'[t] = "ended" /\ inbox'[t] = <<>> /\ Len(inbox'[t]) = 0
    BY <2>1 DEF DgramTypes, Dgram!NoRequest, Nobody
  <2>3. \A t \in DgramServers, i \in Nat : i \in 1 .. Len(inbox'[t]) => t # s /\ inbox'[t] = inbox[t]
    BY <2>2
  <2>4. DgramTypes'
    <3>1. Dgram!NoRequest \in [from : DgramClients \cup {Nobody}, line : Nat]
      BY DEF Dgram!NoRequest, Nobody
    <3>2. handling' \in [DgramServers -> [from : DgramClients \cup {Nobody}, line : Nat]]
      BY <2>1, <3>1 DEF DgramTypes
    <3>3. <<>> \in Seq(Request)
      OBVIOUS
    <3> HIDE DEF Request
    <3>4. inbox' \in [DgramServers -> Seq(Request)]
      BY <2>1, <3>3 DEF DgramTypes, Request
    <3>5. dspc' \in [DgramServers -> {"off", "recv", "send", "ended"}]
      BY <2>1 DEF DgramTypes
    <3> QED
      BY <2>1, <3>2, <3>4, <3>5 DEF DgramTypes, Request
  <2>5. LatestInv'
    <3>1. ASSUME NEW t \in DgramServers, NEW i \in Nat, i \in 1 .. Len(inbox'[t])
          PROVE  dcpc[inbox'[t][i].from] \in Asking /\ inbox'[t][i].line = line[inbox'[t][i].from]
      BY <2>3, <3>1 DEF LatestInv
    <3>2. ASSUME NEW t \in DgramServers
          PROVE  /\ handling'[t].from # Nobody =>
                      dcpc[handling'[t].from] \in Asking /\ handling'[t].line = line[handling'[t].from]
                 /\ dspc'[t] = "send" => handling'[t].from # Nobody
      BY <2>2 DEF LatestInv
    <3> QED
      BY <2>1, <3>1, <3>2 DEF LatestInv
  <2>6. OnceInv'
    <3> SUFFICES ASSUME program = "udp" PROVE OnceInv'
      BY <1>0 DEF OnceInv
    <3>1. ASSUME NEW t \in DgramServers, NEW u \in DgramServers, NEW i \in Nat, NEW j \in Nat,
                 i \in 1 .. Len(inbox'[t]), j \in 1 .. Len(inbox'[u]), inbox'[t][i].from = inbox'[u][j].from
          PROVE  t = u /\ i = j
      <4>1. inbox'[t] = inbox[t] /\ inbox'[u] = inbox[u]
        BY <2>3, <3>1
      <4>2. i \in 1 .. Len(inbox[t]) /\ j \in 1 .. Len(inbox[u]) /\ inbox[t][i].from = inbox[u][j].from
        BY <3>1, <4>1
      <4> QED
        BY SMTT(30), <4>2 DEF OnceInv
    <3>2. ASSUME NEW t \in DgramServers, NEW i \in Nat, i \in 1 .. Len(inbox'[t])
          PROVE  /\ answers[inbox'[t][i].from] = <<>>
                 /\ \A u \in DgramServers : inbox'[t][i].from # handling'[u].from
      <4>1. inbox'[t] = inbox[t] /\ inbox[t][i].from \in DgramClients
        BY <1>r, <2>3, <3>2
      <4> QED
        BY <1>0, <2>2, <3>2, <4>1 DEF OnceInv
    <3>3. ASSUME NEW t \in DgramServers, handling'[t].from # Nobody
          PROVE  /\ answers[handling'[t].from] = <<>>
                 /\ \A u \in DgramServers : handling'[t].from = handling'[u].from => t = u
      BY <2>2, <3>3 DEF OnceInv
    <3> QED
      BY <2>1, <3>1, <3>2, <3>3 DEF OnceInv
  <2>7. PathInv'
    <3> SUFFICES ASSUME program = UnixDatagram PROVE PathInv'
      BY <1>0 DEF PathInv
    <3>1. ASSUME cpath # Nobody, NEW c \in DgramClients, c # cpath, NEW t \in DgramServers
          PROVE  /\ handling'[t].from = c => c \in overtook[cpath]
                 /\ \A i \in Nat : i \in 1 .. Len(inbox'[t]) /\ inbox'[t][i].from = c => c \in overtook[cpath]
      BY <1>0, <2>2, <2>3, <3>1 DEF PathInv
    <3> QED
      BY <2>1, <3>1 DEF PathInv
  <2> QED
    BY <2>4, <2>5, <2>6, <2>7
<1>5. ASSUME NEW c \in DgramClients, Dgram!DgramOpen(c) PROVE DgramInv'
  <2>1. /\ dcpc[c] = "off" /\ dcpc' = [dcpc EXCEPT ![c] = "prompt"]
        /\ overtook' = [overtook EXCEPT ![c] = {d \in DgramClients \ {c} : Dgram!Open(d) \/ Dgram!Pending(d)}]
        /\ UNCHANGED <<dspc, spath, inbox, handling, answers, line, printed>>
    BY <1>5 DEF Dgram!DgramOpen, Dgram!dserverVars
  <2>2. program = "udp" => cpath' = cpath
    BY <1>5 DEF Dgram!DgramOpen
  <2>3. program # "udp" => cpath' = c
    BY <1>5 DEF Dgram!DgramOpen
  <2>4. \A d \in DgramClients : dcpc'[d] \in Asking <=> dcpc[d] \in Asking
    BY <2>1 DEF DgramTypes, Asking
  <2>5. DgramTypes'
    <3>1. {d \in DgramClients \ {c} : Dgram!Open(d) \/ Dgram!Pending(d)} \in SUBSET DgramClients
      OBVIOUS
    <3>2. overtook' \in [DgramClients -> SUBSET DgramClients]
      BY <2>1, <3>1 DEF DgramTypes
    <3>3. dcpc' \in [DgramClients -> {"off", "prompt", "recv", "ended"}] /\ cpath' \in DgramClients \cup {Nobody}
      BY <2>1, <2>2, <2>3 DEF DgramTypes
    <3> QED
      BY <2>1, <3>2, <3>3 DEF DgramTypes
  <2>6. LatestInv'
    <3>1. /\ \A s \in DgramServers, i \in Nat : i \in 1 .. Len(inbox[s]) => dcpc'[inbox[s][i].from] \in Asking
          /\ \A s \in DgramServers : handling[s].from # Nobody => dcpc'[handling[s].from] \in Asking
          /\ \A d \in DgramClients, i \in Nat : i \in 1 .. Len(answers[d]) => dcpc'[answers[d][i].from] \in Asking
      BY <1>r, <2>4 DEF LatestInv
    <3> QED
      BY <2>1, <3>1 DEF LatestInv
  <2>7. OnceInv'
    BY <1>0, <2>1 DEF OnceInv
  <2>8. PathInv'
    <3> SUFFICES ASSUME program = UnixDatagram PROVE PathInv'
      BY <1>0 DEF PathInv
    <3>0. cpath' = c
      BY <1>u, <2>3
    <3>0a. \A i \in Nat : i \notin 1 .. Len(answers[c])
      <4>1. answers[c] = <<>>
        BY <2>1 DEF PathInv
      <4> QED
        BY <4>1
    <3>1. ASSUME NEW d \in DgramClients, dcpc'[d] = "off" PROVE answers[d] = <<>>
      BY <2>1, <3>1 DEF PathInv, DgramTypes
    <3>2. ASSUME NEW d \in DgramClients, d # c, Dgram!Open(d) \/ Dgram!Pending(d) PROVE d \in overtook'[c]
      BY <2>1, <3>2 DEF DgramTypes
    <3>3. ASSUME NEW d \in DgramClients, d # c, dcpc'[d] \in {"prompt", "recv"} PROVE d \in overtook'[c]
      BY <1>0, <2>1, <3>2, <3>3 DEF DgramTypes, Dgram!Open, Dgram!Nobody
    <3>4. ASSUME NEW d \in DgramClients, d # c, NEW s \in DgramServers, handling[s].from = d
          PROVE  d \in overtook'[c]
      BY <3>2, <3>4 DEF Dgram!Pending
    <3>5. ASSUME NEW d \in DgramClients, d # c, NEW s \in DgramServers, NEW i \in Nat,
                 i \in 1 .. Len(inbox[s]), inbox[s][i].from = d
          PROVE  d \in overtook'[c]
      <4>1. i \in DOMAIN inbox[s]
        BY <1>r, <3>5
      <4> QED
        BY <3>2, <3>5, <4>1 DEF Dgram!Pending
    <3>6. ASSUME NEW d \in DgramClients, NEW i \in Nat, i \in 1 .. Len(answers[d])
          PROVE  answers[d][i].from = d \/ answers[d][i].from \in overtook'[d]
      <4>1. CASE d = c
        BY <3>0a, <3>6, <4>1
      <4>2. CASE d # c
        BY <2>1, <3>6, <4>2 DEF PathInv, DgramTypes
      <4> QED
        BY <4>1, <4>2
    <3> QED
      BY <2>1, <3>0, <3>1, <3>3, <3>4, <3>5, <3>6 DEF PathInv
  <2> QED
    BY <2>5, <2>6, <2>7, <2>8
<1>6. ASSUME NEW c \in DgramClients, NEW text \in {"text", "empty"}, Dgram!DgramSend(c, text)
      PROVE  DgramInv'
  <2> DEFINE q == [from |-> c, line |-> line[c] + 1, text |-> text]
  <2>1. /\ dcpc[c] = "prompt" /\ dcpc' = [dcpc EXCEPT ![c] = "recv"]
        /\ line' = [line EXCEPT ![c] = line[c] + 1]
        /\ UNCHANGED <<dspc, spath, handling, cpath, answers, overtook, printed>>
        /\ \/ spath # Nobody /\ inbox' = [inbox EXCEPT ![spath] = Append(inbox[spath], q)]
           \/ UNCHANGED inbox
    BY <1>6 DEF Dgram!DgramSend, Dgram!Up, Nobody
  <2>2. line[c] \in Nat /\ q \in Request /\ q.from = c /\ q.line = line[c] + 1
    BY DEF DgramTypes
  <2> HIDE DEF q, Request
  <2>3. /\ inbox' \in [DgramServers -> Seq(Request)]
        /\ \A t \in DgramServers, i \in Nat : i \in 1 .. Len(inbox'[t]) =>
             \/ i \in 1 .. Len(inbox[t]) /\ inbox'[t][i] = inbox[t][i]
             \/ t = spath /\ i = Len(inbox[t]) + 1 /\ inbox'[t][i] = q
    <3>0. inbox \in [DgramServers -> Seq(Request)]
      BY DEF DgramTypes, Request
    <3>1. CASE UNCHANGED inbox
      BY <3>0, <3>1
    <3>2. CASE spath # Nobody /\ inbox' = [inbox EXCEPT ![spath] = Append(inbox[spath], q)]
      <4>1. spath \in DgramServers /\ inbox[spath] \in Seq(Request)
        BY <3>0, <3>2 DEF DgramTypes
      <4>2. Append(inbox[spath], q) \in Seq(Request)
        BY <2>2, <4>1
      <4>3. inbox'[spath] = Append(inbox[spath], q) /\ \A t \in DgramServers : t # spath => inbox'[t] = inbox[t]
        BY <3>0, <3>2, <4>1
      <4>4. \A i \in Nat : i \in 1 .. Len(Append(inbox[spath], q)) =>
              \/ i \in 1 .. Len(inbox[spath]) /\ Append(inbox[spath], q)[i] = inbox[spath][i]
              \/ i = Len(inbox[spath]) + 1 /\ Append(inbox[spath], q)[i] = q
        BY <2>2, <4>1, QueueWithOneMore
      <4>5. inbox' \in [DgramServers -> Seq(Request)]
        BY <3>0, <3>2, <4>1, <4>2
      <4> QED
        BY <4>3, <4>4, <4>5
    <3> QED
      BY <2>1, <3>1, <3>2
  <2>4. /\ \A t \in DgramServers, i \in Nat : i \in 1 .. Len(inbox[t]) => inbox[t][i].from # c
        /\ \A t \in DgramServers : handling[t].from # c
        /\ \A d \in DgramClients, i \in Nat : i \in 1 .. Len(answers[d]) => answers[d][i].from # c
    <3>1. dcpc[c] \notin Asking /\ c # Nobody
      BY <1>0, <2>1 DEF Asking
    <3> QED
      BY <3>1 DEF LatestInv
  <2>5. \A d \in DgramClients : d # c => (dcpc'[d] \in Asking <=> dcpc[d] \in Asking) /\ line'[d] = line[d]
    BY <2>1 DEF DgramTypes, Asking
  <2>6. dcpc'[c] \in Asking /\ line'[c] = line[c] + 1
    BY <2>1 DEF DgramTypes, Asking
  <2>7. DgramTypes'
    <3>1. dcpc' \in [DgramClients -> {"off", "prompt", "recv", "ended"}] /\ line' \in [DgramClients -> Nat]
      BY <2>1, <2>2 DEF DgramTypes
    <3> QED
      BY <2>1, <2>3, <3>1 DEF DgramTypes, Request
  <2>8. LatestInv'
    <3>1. ASSUME NEW t \in DgramServers, NEW i \in Nat, i \in 1 .. Len(inbox'[t])
          PROVE  dcpc'[inbox'[t][i].from] \in Asking /\ inbox'[t][i].line = line'[inbox'[t][i].from]
      <4>1. CASE i \in 1 .. Len(inbox[t]) /\ inbox'[t][i] = inbox[t][i]
        BY <1>r, <2>4, <2>5, <4>1 DEF LatestInv
      <4>2. CASE inbox'[t][i] = q
        BY <2>2, <2>6, <4>2
      <4> QED
        BY <2>3, <3>1, <4>1, <4>2
    <3>2. ASSUME NEW t \in DgramServers, handling[t].from # Nobody
          PROVE  dcpc'[handling[t].from] \in Asking /\ handling[t].line = line'[handling[t].from]
      BY <1>r, <2>4, <2>5, <3>2 DEF LatestInv
    <3>3. ASSUME NEW d \in DgramClients, NEW i \in Nat, i \in 1 .. Len(answers[d])
          PROVE  dcpc'[answers[d][i].from] \in Asking /\ answers[d][i].line = line'[answers[d][i].from]
      BY <1>r, <2>4, <2>5, <3>3 DEF LatestInv
    <3> QED
      BY <2>1, <3>1, <3>2, <3>3 DEF LatestInv
  <2>9. OnceInv'
    <3> SUFFICES ASSUME program = "udp" PROVE OnceInv'
      BY <1>0 DEF OnceInv
    <3>1. ASSUME NEW t \in DgramServers, NEW u \in DgramServers, NEW i \in Nat, NEW j \in Nat,
                 i \in 1 .. Len(inbox'[t]), j \in 1 .. Len(inbox'[u]), inbox'[t][i].from = inbox'[u][j].from
          PROVE  t = u /\ i = j
      <4>1. CASE i \in 1 .. Len(inbox[t]) /\ inbox'[t][i] = inbox[t][i]
        <5>1. j \in 1 .. Len(inbox[u]) /\ inbox'[u][j] = inbox[u][j]
          BY <2>2, <2>3, <2>4, <3>1, <4>1
        <5> QED
          BY <3>1, <4>1, <5>1 DEF OnceInv
      <4>2. CASE t = spath /\ i = Len(inbox[t]) + 1 /\ inbox'[t][i] = q
        <5>1. u = spath /\ j = Len(inbox[u]) + 1
          BY SMTT(30), <2>2, <2>3, <2>4, <3>1, <4>2
        <5> QED
          BY <4>2, <5>1
      <4> QED
        BY <2>3, <3>1, <4>1, <4>2
    <3>2. answers[c] = <<>>
      <4>1. answers[c] \in Seq(Answer)
        BY DEF DgramTypes
      <4>2. \A i \in Nat : i \notin 1 .. Len(answers[c])
        BY <2>4 DEF OnceInv
      <4>3. Len(answers[c]) = 0
        BY <4>1, <4>2
      <4> HIDE DEF Answer
      <4> QED
        BY <4>1, <4>3
    <3>3. ASSUME NEW t \in DgramServers, NEW i \in Nat, i \in 1 .. Len(inbox'[t])
          PROVE  /\ answers[inbox'[t][i].from] = <<>>
                 /\ \A u \in DgramServers : inbox'[t][i].from # handling[u].from
      <4>1. CASE i \in 1 .. Len(inbox[t]) /\ inbox'[t][i] = inbox[t][i]
        BY <4>1 DEF OnceInv
      <4>2. CASE inbox'[t][i] = q
        BY <2>2, <2>4, <3>2, <4>2
      <4> QED
        BY <2>3, <3>3, <4>1, <4>2
    <3> QED
      BY <2>1, <3>1, <3>3 DEF OnceInv
  <2>10. PathInv'
    <3> SUFFICES ASSUME program = UnixDatagram PROVE PathInv'
      BY <1>0 DEF PathInv
    <3>1. ASSUME NEW d \in DgramClients, dcpc'[d] = "off" PROVE answers[d] = <<>>
      BY <2>1, <3>1 DEF PathInv, DgramTypes
    <3>2. ASSUME cpath # Nobody, NEW d \in DgramClients, d # cpath, dcpc'[d] \in {"prompt", "recv"}
          PROVE  d \in overtook[cpath]
      BY <2>1, <3>2 DEF PathInv, DgramTypes
    <3>3. ASSUME cpath # Nobody, NEW d \in DgramClients, d # cpath, NEW t \in DgramServers, NEW i \in Nat,
                 i \in 1 .. Len(inbox'[t]), inbox'[t][i].from = d
          PROVE  d \in overtook[cpath]
      <4>1. CASE i \in 1 .. Len(inbox[t]) /\ inbox'[t][i] = inbox[t][i]
        BY <3>3, <4>1 DEF PathInv
      <4>2. CASE inbox'[t][i] = q
        BY <2>1, <2>2, <3>3, <4>2 DEF PathInv
      <4> QED
        BY <2>3, <3>3, <4>1, <4>2
    <3> QED
      BY <2>1, <3>1, <3>2, <3>3 DEF PathInv
  <2> QED
    BY <2>7, <2>8, <2>9, <2>10
<1>7. ASSUME NEW c \in DgramClients, Dgram!DgramPrint(c) \/ Dgram!DgramLeave(c) PROVE DgramInv'
  <2>1. /\ UNCHANGED <<dspc, spath, inbox, handling, line, overtook>> /\ DOMAIN printed' = DgramClients
        /\ cpath' \in {cpath, Nobody} /\ dcpc[c] \in {"prompt", "recv"}
        /\ dcpc' = [dcpc EXCEPT ![c] = dcpc'[c]] /\ dcpc'[c] \in {"prompt", "ended"}
        /\ dcpc'[c] = "prompt" => program = "udp" /\ dcpc[c] = "recv" /\ answers[c] # <<>>
    <3>1. CASE Dgram!DgramPrint(c)
      BY <3>1 DEF Dgram!DgramPrint, Dgram!DgramClose, Dgram!dserverVars, DgramTypes, Nobody
    <3>2. CASE Dgram!DgramLeave(c)
      BY <3>2 DEF Dgram!DgramLeave, Dgram!DgramClose, Dgram!dserverVars, Dgram!dhistory, Dgram!Open, DgramTypes, Nobody
    <3> QED
      BY <1>7, <3>1, <3>2
  <2>2. answers' = [answers EXCEPT ![c] = <<>>] \/ (answers[c] # <<>> /\ answers' = [answers EXCEPT ![c] = Tail(answers[c])])
    BY <1>7 DEF Dgram!DgramPrint, Dgram!DgramLeave
  <2> HIDE DEF Answer
  <2>3. answers \in [DgramClients -> Seq(Answer)]
    BY DEF DgramTypes, Answer
  <2>4. /\ answers' \in [DgramClients -> Seq(Answer)]
        /\ \A d \in DgramClients : d # c => answers'[d] = answers[d]
        /\ \A i \in Nat : i \in 1 .. Len(answers'[c]) =>
             i + 1 \in 1 .. Len(answers[c]) /\ answers'[c][i] = answers[c][i + 1]
    <3>1. CASE answers' = [answers EXCEPT ![c] = <<>>]
      <4>1. answers'[c] = <<>> /\ Len(answers'[c]) = 0 /\ \A d \in DgramClients : d # c => answers'[d] = answers[d]
        BY <2>3, <3>1
      <4>2. <<>> \in Seq(Answer)
        OBVIOUS
      <4>3. answers' \in [DgramClients -> Seq(Answer)]
        BY <2>3, <3>1, <4>2
      <4> QED
        BY <4>1, <4>3
    <3>2. CASE answers[c] # <<>> /\ answers' = [answers EXCEPT ![c] = Tail(answers[c])]
      <4>1. Tail(answers[c]) \in Seq(Answer) /\ \A i \in Nat : i \in 1 .. Len(Tail(answers[c])) =>
              i + 1 \in 1 .. Len(answers[c]) /\ Tail(answers[c])[i] = answers[c][i + 1]
        BY <2>3, <3>2, TailOfQueue
      <4>2. answers'[c] = Tail(answers[c]) /\ \A d \in DgramClients : d # c => answers'[d] = answers[d]
        BY <2>3, <3>2
      <4>3. answers' \in [DgramClients -> Seq(Answer)]
        BY <2>3, <3>2, <4>1
      <4> QED
        BY <4>1, <4>2, <4>3
    <3> QED
      BY <2>2, <3>1, <3>2
  <2>4a. \A d \in DgramClients, i \in Nat : i \in 1 .. Len(answers'[d]) =>
           \E k \in Nat : k \in 1 .. Len(answers[d]) /\ answers'[d][i] = answers[d][k]
    <3> SUFFICES ASSUME NEW d \in DgramClients, NEW i \in Nat, i \in 1 .. Len(answers'[d])
                 PROVE  \E k \in Nat : k \in 1 .. Len(answers[d]) /\ answers'[d][i] = answers[d][k]
      OBVIOUS
    <3>1. CASE d = c
      BY <2>4, <3>1
    <3>2. CASE d # c
      BY <2>4, <3>2
    <3> QED
      BY <3>1, <3>2
  <2>4b. \A d \in DgramClients : answers[d] = <<>> => answers'[d] = <<>>
    <3> SUFFICES ASSUME NEW d \in DgramClients, answers[d] = <<>> PROVE answers'[d] = <<>>
      OBVIOUS
    <3>1. CASE d = c
      BY <2>2, <2>3, <3>1
    <3>2. CASE d # c
      BY <2>4, <3>2
    <3> QED
      BY <3>1, <3>2
  <2>5. DgramTypes'
    <3>1. dcpc' \in [DgramClients -> {"off", "prompt", "recv", "ended"}]
      BY <2>1 DEF DgramTypes
    <3>2. cpath' \in DgramClients \cup {Nobody}
      BY <2>1 DEF DgramTypes
    <3> QED
      BY <2>1, <2>4, <3>1, <3>2 DEF DgramTypes, Answer
  (* A UDP client at its prompt again holds the one answer it waited for.    *)
  <2>6. ASSUME dcpc'[c] = "prompt"
        PROVE  /\ \A t \in DgramServers, i \in Nat : i \in 1 .. Len(inbox[t]) => inbox[t][i].from # c
               /\ \A t \in DgramServers : handling[t].from # c
               /\ \A d \in DgramClients, i \in Nat : i \in 1 .. Len(answers'[d]) => answers'[d][i].from # c
    <3>1. program = "udp" /\ answers[c] # <<>> /\ c # Nobody
      BY <1>0, <2>1, <2>6
    <3>2. \A i \in Nat : i \notin 1 .. Len(answers'[c])
      BY <2>3, <2>4, <3>1 DEF OnceInv
    <3>3. \A d \in DgramClients, i \in Nat : i \in 1 .. Len(answers'[d]) => answers'[d][i].from # c
      BY <2>4, <3>1, <3>2 DEF OnceInv
    <3> QED
      BY <3>1, <3>3 DEF OnceInv
  <2>7. \A d \in DgramClients : d # c \/ dcpc'[c] = "ended" => (dcpc[d] \in Asking => dcpc'[d] \in Asking)
    BY <2>1 DEF DgramTypes, Asking
  <2>8. LatestInv'
    <3>1. ASSUME NEW t \in DgramServers, NEW i \in Nat, i \in 1 .. Len(inbox[t])
          PROVE  dcpc'[inbox[t][i].from] \in Asking /\ inbox[t][i].line = line[inbox[t][i].from]
      BY <1>r, <2>1, <2>6, <2>7, <3>1 DEF LatestInv
    <3>2. ASSUME NEW t \in DgramServers, handling[t].from # Nobody
          PROVE  dcpc'[handling[t].from] \in Asking /\ handling[t].line = line[handling[t].from]
      BY <1>r, <2>1, <2>6, <2>7, <3>2 DEF LatestInv
    <3>3. ASSUME NEW d \in DgramClients, NEW i \in Nat, i \in 1 .. Len(answers'[d])
          PROVE  dcpc'[answers'[d][i].from] \in Asking /\ answers'[d][i].line = line[answers'[d][i].from]
      <4>1. PICK k \in Nat : k \in 1 .. Len(answers[d]) /\ answers'[d][i] = answers[d][k]
        BY <2>4a, <3>3
      <4>2. answers'[d][i].from \in DgramClients /\ dcpc[answers'[d][i].from] \in Asking
            /\ answers'[d][i].line = line[answers'[d][i].from]
        BY <1>r, <4>1 DEF LatestInv
      <4> QED
        BY <2>1, <2>6, <2>7, <3>3, <4>2
    <3> QED
      BY <2>1, <3>1, <3>2, <3>3 DEF LatestInv
  <2>9. OnceInv'
    <3> SUFFICES ASSUME program = "udp" PROVE OnceInv'
      BY <1>0 DEF OnceInv
    <3>1. \A t \in DgramServers, i \in Nat : i \in 1 .. Len(inbox[t]) => answers'[inbox[t][i].from] = <<>>
      BY <1>r, <2>4b DEF OnceInv
    <3>2. \A t \in DgramServers : handling[t].from # Nobody => answers'[handling[t].from] = <<>>
      BY <1>r, <2>4b DEF OnceInv
    <3>3. ASSUME NEW d \in DgramClients PROVE Len(answers'[d]) <= 1
      <4>1. CASE d = c
        <5>1. \A i \in Nat : i \notin 1 .. Len(answers'[c])
          BY <2>3, <2>4 DEF OnceInv
        <5> QED
          BY <2>4, <4>1, <5>1
      <4>2. CASE d # c
        BY <2>4, <4>2 DEF OnceInv
      <4> QED
        BY <4>1, <4>2
    <3>4. \A d \in DgramClients, i \in Nat : i \in 1 .. Len(answers'[d]) => answers'[d][i].from = d
      BY <2>4a DEF OnceInv
    <3> QED
      BY <2>1, <3>1, <3>2, <3>3, <3>4 DEF OnceInv
  <2>10. PathInv'
    <3> SUFFICES ASSUME program = UnixDatagram PROVE PathInv'
      BY <1>0 DEF PathInv
    <3>1. ASSUME NEW d \in DgramClients, dcpc'[d] = "off" PROVE answers'[d] = <<>>
      BY <2>1, <2>4b, <3>1 DEF PathInv, DgramTypes
    <3>2. ASSUME cpath' # Nobody PROVE cpath' = cpath /\ cpath # Nobody
      BY <2>1, <3>2
    <3>3. ASSUME cpath # Nobody, NEW d \in DgramClients, d # cpath, dcpc'[d] \in {"prompt", "recv"}
          PROVE  d \in overtook[cpath]
      BY <2>1, <3>3 DEF PathInv, DgramTypes
    <3>4. ASSUME NEW d \in DgramClients, NEW i \in Nat, i \in 1 .. Len(answers'[d])
          PROVE  answers'[d][i].from = d \/ answers'[d][i].from \in overtook[d]
      <4>1. PICK k \in Nat : k \in 1 .. Len(answers[d]) /\ answers'[d][i] = answers[d][k]
        BY <2>4a, <3>4
      <4>2. answers[d][k].from = d \/ answers[d][k].from \in overtook[d]
        BY <4>1 DEF PathInv
      <4> QED
        BY <4>1, <4>2
    <3> QED
      BY <2>1, <3>1, <3>2, <3>3, <3>4 DEF PathInv
  <2> QED
    BY <2>5, <2>8, <2>9, <2>10
<1>9. CASE UNCHANGED dgramRest
  <2>1. UNCHANGED <<dspc, spath, inbox, handling, dcpc, cpath, answers, line, overtook, printed>>
    BY <1>9 DEF dgramRest
  <2>2. DgramTypes' /\ LatestInv'
    BY <2>1 DEF DgramTypes, LatestInv
  <2>3. OnceInv'
    BY <1>0, <2>1 DEF OnceInv
  <2>4. PathInv'
    BY <1>0, <2>1 DEF PathInv
  <2> QED
    BY <2>2, <2>3, <2>4
<1>10. Dgram!DgramNext \/ UNCHANGED dgramRest
  BY DEF Next, vars
<1> QED
  BY <1>1, <1>2, <1>3, <1>4, <1>5, <1>6, <1>7, <1>9, <1>10
     DEF Dgram!DgramNext, Dgram!DgramServerStep

(* A UDP client prints the answer to its latest line; a UNIX client that,  *)
(* or one to a client it took CLIENT_PATH from before that was answered.   *)
THEOREM DgramAnswersAreOwn == FairSpec => DgramAnswerIsOwn
<1>1. Init => DgramInv
  <2> SUFFICES ASSUME Init PROVE DgramInv
    OBVIOUS
  <2>1. /\ \A s \in DgramServers : dspc[s] = "off" /\ inbox[s] = <<>> /\ handling[s].from = Nobody
        /\ \A c \in DgramClients : dcpc[c] = "off" /\ answers[c] = <<>>
        /\ cpath = Nobody
    BY DEF Init, Dgram!DgramInit, Dgram!NoRequest, Dgram!Nobody, Nobody
  <2>2. Len(<<>>) = 0
    OBVIOUS
  <2>3. /\ \A s \in DgramServers, i \in Nat : i \notin 1 .. Len(inbox[s])
        /\ \A c \in DgramClients, i \in Nat : i \notin 1 .. Len(answers[c])
    BY <2>1, <2>2
  <2>4. DgramTypes
    BY DEF Init, Dgram!DgramInit, Dgram!NoRequest, Dgram!Nobody, Nobody, DgramTypes
  <2>5. LatestInv
    BY <2>1, <2>3 DEF LatestInv
  <2>6. OnceInv
    BY <2>1, <2>2, <2>3 DEF OnceInv
  <2>7. PathInv
    BY <2>1, <2>3 DEF PathInv
  <2> QED
    BY <2>4, <2>5, <2>6, <2>7 DEF DgramInv
<1>2. DgramInv /\ [Next]_vars =>
        [\A c \in DgramClients : printed'[c] # printed[c] =>
           \/ printed'[c] = [from |-> c, line |-> line[c]]
           \/ (IF program = "udp" THEN "udp" ELSE "unix") = "unix" /\ printed'[c].from \in overtook[c]]_(Dgram!dgramVars)
  <2> SUFFICES ASSUME DgramInv, [Next]_vars, NEW c \in DgramClients, printed'[c] # printed[c]
               PROVE  \/ printed'[c] = [from |-> c, line |-> line[c]]
                      \/ program # "udp" /\ printed'[c].from \in overtook[c]
    BY Zenon
  <2>1. Dgram!DgramPrint(c) /\ program \in dgramOnes
    <3>1. program \in dgramOnes /\ Dgram!DgramNext
      <4>1. (program \in dgramOnes /\ Dgram!DgramNext) \/ UNCHANGED dgramRest
        BY DEF Next, vars
      <4>2. ~UNCHANGED dgramRest
        BY DEF dgramRest
      <4> QED
        BY <4>1, <4>2
    <3>2. ASSUME NEW s \in DgramServers,
                 Dgram!DgramReceive(s) \/ Dgram!DgramRespond(s) \/ Dgram!DgramStart(s) \/ Dgram!DgramKill(s)
          PROVE  FALSE
      BY <3>2 DEF Dgram!DgramReceive, Dgram!DgramRespond, Dgram!DgramStart, Dgram!DgramKill, Dgram!dhistory
    <3>3. ASSUME NEW d \in DgramClients, NEW text \in {"text", "empty"},
                 Dgram!DgramOpen(d) \/ Dgram!DgramLeave(d) \/ Dgram!DgramSend(d, text)
          PROVE  FALSE
      BY <3>3 DEF Dgram!DgramOpen, Dgram!DgramLeave, Dgram!DgramSend, Dgram!dhistory
    <3>4. ASSUME NEW d \in DgramClients, Dgram!DgramPrint(d) PROVE d = c
      BY <3>4 DEF Dgram!DgramPrint, DgramInv, DgramTypes
    <3> QED
      BY <3>1, <3>2, <3>3, <3>4 DEF Dgram!DgramNext, Dgram!DgramServerStep
  <2>2. answers[c] # <<>> /\ printed'[c] = Head(answers[c])
    BY <2>1 DEF Dgram!DgramPrint, DgramInv, DgramTypes
  <2> DEFINE Answer == [from : DgramClients, line : Nat]
             r == printed'[c]
  <2>3. answers[c] \in Seq(Answer)
    BY DEF DgramInv, DgramTypes
  <2> HIDE DEF Answer
  <2>4. r = answers[c][1] /\ r \in Answer /\ 1 \in 1 .. Len(answers[c])
    BY <2>2, <2>3, TailOfQueue
  <2>5. r = [from |-> r.from, line |-> r.line] /\ r.line = line[r.from]
    BY <2>4 DEF DgramInv, LatestInv, Answer
  <2>6. program = "udp" => r.from = c
    BY <2>4 DEF DgramInv, OnceInv
  <2>7. program # "udp" => program = UnixDatagram
    BY <2>1 DEF dgramOnes, UnixDatagram
  <2>8. program # "udp" => r.from = c \/ r.from \in overtook[c]
    BY <2>4, <2>7 DEF DgramInv, PathInv
  <2> HIDE DEF r
  <2> QED
    BY <2>5, <2>6, <2>8 DEF r
<1> QED
  BY <1>1, <1>2, DgramInductive, PTL DEF FairSpec, DgramAnswerIsOwn, Dgram!AnswerIsOwn

-----------------------------------------------------------------------------
(* The stream servers.                                                     *)

Unix == (IF program = "tcp" THEN "inet" ELSE "unix") = "unix"

(* A UNIX server that is about to bind() has removed the file: if there is *)
(* one, another server bound it since.                                     *)
StreamInv ==
    /\ spc \in [EchoServers -> {"off", "bind", "accept", "read", "write", "refused", "ended"}]
    /\ \A s \in EchoServers : Unix /\ spc[s] = "bind" /\ path # 0 => s \in overtaken

(* Servers stay where their programs know them, and a UNIX server finds a  *)
(* file only after another one's bind().                                   *)
LEMMA StreamInductive == StreamInv /\ [Next]_vars => StreamInv'
<1> SUFFICES ASSUME StreamInv, [Next]_vars PROVE StreamInv'
  OBVIOUS
<1> USE DEF StreamInv, Unix
<1>0. program' = program /\ (Stream!StreamNext \/ UNCHANGED streamRest)
  BY DEF Next, vars
(* A step that leaves the file, or removes it.                             *)
<1>1. ASSUME NEW s \in EchoServers, NEW place \in {"accept", "read", "write", "ended"},
             spc' = [spc EXCEPT ![s] = place], Unix => path' = path \/ path' = 0, UNCHANGED overtaken
      PROVE  StreamInv'
  BY <1>0, <1>1
<1>2. ASSUME NEW s \in EchoServers, Stream!AcceptClient(s) \/ Stream!ServerRead(s) \/ Stream!ServerWrite(s)
      PROVE  StreamInv'
  BY <1>1, <1>2 DEF Stream!AcceptClient, Stream!ServerRead, Stream!ServerWrite, Stream!history
<1>3. ASSUME NEW s \in EchoServers, Stream!ServerCloses(s), Unix => path' = path \/ path' = 0
      PROVE  StreamInv'
  BY <1>1, <1>3 DEF Stream!ServerCloses, Stream!history
<1>4. ASSUME NEW s \in EchoServers,
             Stream!ServerEnds(s) \/ Stream!SigPipeServer(s) \/ Stream!KillServer(s)
      PROVE  StreamInv'
  BY <1>3, <1>4 DEF Stream!ServerEnds, Stream!SigPipeServer, Stream!KillServer, Stream!PathLeft,
                    Stream!NoServer
<1>5. ASSUME NEW s \in EchoServers, Stream!StartServer(s) PROVE StreamInv'
  BY <1>0, <1>5 DEF Stream!StartServer, Stream!NoServer, Stream!history
<1>6. ASSUME NEW s \in EchoServers, Stream!BindServer(s) PROVE StreamInv'
  <2>1. CASE Stream!Taken(s)
    BY <1>0, <1>6, <2>1 DEF Stream!BindServer
  <2>2. CASE ~Stream!Taken(s)
    <3>1. /\ spc' = [spc EXCEPT ![s] = "accept"]
          /\ overtaken' = overtaken \cup {t \in EchoServers \ {s} : spc[t] = "bind"}
      BY <1>6, <2>2 DEF Stream!BindServer
    <3> QED
      BY <3>1
  <2> QED
    BY <2>1, <2>2
<1>7. ASSUME UNCHANGED <<spc, path, overtaken>> PROVE StreamInv'
  BY <1>0, <1>7
<1>8. ASSUME NEW c \in EchoClients,
             Stream!ClientStep(c) \/ Stream!ClientConnects(c) \/ Stream!SigPipeClient(c)
               \/ Stream!EndOfLines(c) \/ Stream!ClientWritesNothing(c)
               \/ \E n \in 1 .. Stream!BufferUnits : Stream!ClientWrites(c, n)
      PROVE  UNCHANGED <<spc, path, overtaken>>
  BY <1>8 DEF Stream!ClientStep, Stream!ClientReads, Stream!ClientEnds, Stream!ClientConnects,
              Stream!SigPipeClient, Stream!EndOfLines, Stream!ClientCloses, Stream!ClientWrites,
              Stream!ClientWritesNothing, Stream!serverVars, Stream!history
<1>9. CASE Stream!PortFreed \/ UNCHANGED streamRest
  BY <1>7, <1>9 DEF Stream!PortFreed, Stream!history, streamRest
<1> HIDE DEF StreamInv
<1> QED
  BY <1>0, <1>2, <1>4, <1>5, <1>6, <1>7, <1>8, <1>9 DEF Stream!StreamNext, Stream!ServerStep

(* Any number of servers: bind() is refused only by a TCP port that is     *)
(* held, or to a UNIX server whose unlink() and bind() another server's    *)
(* bind() came between; a socket file that was left behind refuses nobody. *)
THEOREM StreamServersStart == FairSpec => StreamStartsUnlessHeld
<1>1. Init => StreamInv
  BY DEF Init, Stream!StreamInit, StreamInv
<1>2. StreamInv /\ [Next]_vars =>
        [\A s \in EchoServers : spc[s] # "refused" /\ spc'[s] = "refused" =>
           Stream!PortHeld(s) \/ (Unix /\ s \in overtaken)]_(Stream!streamVars)
  <2> SUFFICES ASSUME StreamInv, [Next]_vars, NEW s \in EchoServers, spc[s] # "refused", spc'[s] = "refused"
               PROVE  Stream!PortHeld(s) \/ (Unix /\ s \in overtaken)
    BY Zenon
  <2> USE DEF StreamInv
  <2>1. Stream!StreamNext \/ UNCHANGED streamRest
    BY DEF Next, vars
  <2>2. ASSUME NEW t \in EchoServers, Stream!ServerStep(t) PROVE FALSE
    BY <2>2 DEF Stream!ServerStep, Stream!AcceptClient, Stream!ServerRead, Stream!ServerWrite,
                Stream!ServerEnds, Stream!SigPipeServer, Stream!ServerCloses
  <2>3. ASSUME NEW t \in EchoServers, Stream!KillServer(t) \/ Stream!StartServer(t) PROVE FALSE
    BY <2>3 DEF Stream!KillServer, Stream!StartServer, Stream!ServerCloses
  <2>4. ASSUME NEW t \in EchoServers, Stream!BindServer(t)
        PROVE  Stream!PortHeld(s) \/ (Unix /\ s \in overtaken)
    <3>1. t = s /\ Stream!Taken(s) /\ spc[s] = "bind"
      BY <2>4 DEF Stream!BindServer
    <3> QED
      BY <3>1 DEF Stream!Taken, Stream!NoServer, Unix
  <2>5. CASE Stream!PortFreed \/ UNCHANGED streamRest
    BY <2>5 DEF Stream!PortFreed, streamRest
  <2>6. ASSUME NEW c \in EchoClients,
               Stream!ClientStep(c) \/ Stream!ClientConnects(c) \/ Stream!SigPipeClient(c)
                 \/ Stream!EndOfLines(c) \/ Stream!ClientWritesNothing(c)
                 \/ \E n \in 1 .. Stream!BufferUnits : Stream!ClientWrites(c, n)
        PROVE  FALSE
    BY <2>6 DEF Stream!ClientStep, Stream!ClientReads, Stream!ClientEnds, Stream!ClientConnects,
                Stream!SigPipeClient, Stream!EndOfLines, Stream!ClientCloses, Stream!ClientWrites,
                Stream!ClientWritesNothing, Stream!serverVars
  <2> QED
    BY <2>1, <2>2, <2>3, <2>4, <2>5, <2>6 DEF Stream!StreamNext
<1> QED
  BY <1>1, <1>2, StreamInductive, PTL
     DEF FairSpec, StreamStartsUnlessHeld, Stream!StartsUnlessHeld, Unix
=============================================================================
