------------------------ MODULE RestaurantMainProofs ------------------------
(* Proofs about RestaurantMain, for every number of children, whether or   *)
(* not Ctrl+C may come early and fork() may fail.                          *)
EXTENDS RestaurantMain, TLAPS

-----------------------------------------------------------------------------
(* The invariant.                                                          *)

Types ==
    /\ child_count \in 0..N /\ k \in 1..(N + 1)
    /\ children \in [Kids -> 0..Failed]
    /\ kid \in [Kids -> {"none", "boot", "work", "zombie", "reaped"}]

(* How children[] and the children correspond: the entry of a child holds  *)
(* its own pid, 0 before the fork() is stored, or Failed with no child.    *)
Forked ==
    /\ \A i \in Kids : children[i] \in {0, i, Failed}
    /\ \A i \in Kids : i > child_count => children[i] = 0 /\ kid[i] = "none"
    /\ \A i \in Kids : children[i] = Failed => kid[i] = "none"
    /\ ppc \in {"fork", "store"} => child_count >= 1 /\ children[child_count] = 0
    /\ ppc = "fork" => kid[child_count] = "none"

Gone(i) == kid[i] \in {"none", "reaped"}

(* How far cleanup_all has come.  A parent that survives the loop of       *)
(* kill() met no entry that was 0, so each turn of the loop of waitpid()   *)
(* is about a child of its own, or about none.                             *)
Cleaning ==
    /\ ppc = "kill" /\ parent = "run" => \A i \in Kids : i < k => children[i] # 0
    /\ ppc = "wait" /\ parent = "run" =>
           \A i \in Kids : (i <= child_count => children[i] # 0) /\ (i < k => Gone(i))
    /\ ppc = "exit" => ~shm /\ \A i \in Kids : Gone(i)
    /\ parent = "exited" => ppc = "exit"
    /\ (\E i \in Kids : kid[i] = "reaped") => handling \/ ppc \in {"wait", "exit"}

IInv == Types /\ Forked /\ Cleaning /\ StraySignals

-----------------------------------------------------------------------------
(* It holds in the first state.                                            *)

(* No child, nothing pending, and children[] all 0.                        *)
LEMMA InvInit == Init => IInv
<1> SUFFICES ASSUME Init PROVE IInv
  OBVIOUS
<1> USE MainAssumption DEF Init, Kids, Failed
<1>1. Types
  BY DEF Types
<1>2. Forked /\ Cleaning
  BY DEF Forked, Cleaning
<1>3. StraySignals
  BY DEF StraySignals
<1> QED
  BY <1>1, <1>2, <1>3 DEF IInv

-----------------------------------------------------------------------------
(* Every step preserves it.                                                *)

(* The types, and the two places where an entry of children[] is written.  *)
LEMMA TypesInductive == Types /\ Forked /\ [Next]_vars => Types'
<1> SUFFICES ASSUME Types, Forked, [Next]_vars PROVE Types'
  OBVIOUS
<1> USE MainAssumption DEF Types, Kids, Failed
<1>1. ASSUME InitSharedMemory \/ Arm \/ CountChild \/ SixtySeconds PROVE Types'
  BY <1>1 DEF InitSharedMemory, Arm, CountChild, SixtySeconds
<1>2. ASSUME Fork \/ ForkFails \/ StorePid PROVE Types'
  <2>1. child_count \in Kids
    BY <1>2 DEF Fork, ForkFails, StorePid, Forked
  <2>2. CASE Fork
    BY <2>1, <2>2 DEF Fork
  <2>3. CASE ForkFails
    BY <2>1, <2>3 DEF ForkFails
  <2>4. CASE StorePid
    BY <2>1, <2>4 DEF StorePid
  <2> QED
    BY <1>2, <2>2, <2>3, <2>4
<1>3. ASSUME Kill PROVE Types'
  BY <1>3 DEF Kill
<1>4. ASSUME WaitPid PROVE Types'
  BY <1>4 DEF WaitPid, Awaited
<1>5. ASSUME KillEnd \/ Unlink \/ Exit PROVE Types'
  BY <1>5 DEF KillEnd, Unlink, Exit
<1>6. ASSUME ParentInt \/ ParentTerm \/ ParentShot \/ CtrlC PROVE Types'
  BY <1>6 DEF ParentInt, ParentTerm, ParentShot, CtrlC
<1>7. ASSUME NEW i \in Kids, ChildStep(i) \/ ChildShot(i) PROVE Types'
  BY <1>7 DEF ChildStep, ChildShot, ChildIgnore, ChildInt, ChildTerm
<1>8. ASSUME UNCHANGED vars PROVE Types'
  BY <1>8 DEF vars
<1> QED
  BY <1>1, <1>2, <1>3, <1>4, <1>5, <1>6, <1>7, <1>8 DEF Next, ParentStep, Outside, ParentShot

(* Counting, forking and storing keep children[] and the children in step, *)
(* wherever Ctrl+C interrupts them; nothing else creates a child.          *)
LEMMA ForkedInductive == Types /\ Forked /\ [Next]_vars => Forked'
<1> SUFFICES ASSUME Types, Forked, [Next]_vars PROVE Forked'
  OBVIOUS
<1> USE MainAssumption DEF Types, Forked, Kids, Failed
<1>1. ASSUME InitSharedMemory \/ Arm \/ SixtySeconds PROVE Forked'
  BY <1>1 DEF InitSharedMemory, Arm, SixtySeconds
<1>2. ASSUME CountChild PROVE Forked'
  BY <1>2 DEF CountChild
<1>3. ASSUME Fork PROVE Forked'
  BY <1>3 DEF Fork
<1>4. ASSUME ForkFails PROVE Forked'
  BY <1>4 DEF ForkFails
<1>5. ASSUME StorePid PROVE Forked'
  BY <1>5 DEF StorePid
<1>6. ASSUME Kill \/ KillEnd \/ Unlink \/ Exit PROVE Forked'
  BY <1>6 DEF Kill, KillEnd, Unlink, Exit
<1>7. ASSUME WaitPid PROVE Forked'
  BY <1>7 DEF WaitPid, Awaited
<1>8. ASSUME ParentInt \/ ParentTerm \/ ParentShot \/ CtrlC PROVE Forked'
  BY <1>8 DEF ParentInt, ParentTerm, ParentShot, CtrlC
<1>9. ASSUME NEW i \in Kids, ChildStep(i) \/ ChildShot(i) PROVE Forked'
  <2>1. /\ kid[i] # "none" /\ UNCHANGED <<children, child_count, ppc>>
        /\ \A j \in Kids : j # i => kid'[j] = kid[j]
    BY <1>9 DEF ChildStep, ChildShot, ChildIgnore, ChildInt, ChildTerm, Alive
  <2> QED
    BY <2>1
<1>10. ASSUME UNCHANGED vars PROVE Forked'
  BY <1>10 DEF vars
<1> QED
  BY <1>1, <1>2, <1>3, <1>4, <1>5, <1>6, <1>7, <1>8, <1>9, <1>10 DEF Next, ParentStep, Outside, ParentShot

(* cleanup_all: the loop of kill() leaves no entry that is 0 behind, or no *)
(* parent; the loop of waitpid() then leaves no child behind.              *)
LEMMA CleaningInductive == Types /\ Forked /\ Cleaning /\ [Next]_vars => Cleaning'
<1> SUFFICES ASSUME Types, Forked, Cleaning, [Next]_vars PROVE Cleaning'
  OBVIOUS
<1> USE MainAssumption DEF Types, Cleaning, Kids, Failed, Gone
<1>1. ASSUME parent = "run", InitSharedMemory \/ Arm \/ CountChild \/ SixtySeconds PROVE Cleaning'
  BY <1>1 DEF InitSharedMemory, Arm, CountChild, SixtySeconds
<1>2. ASSUME parent = "run", Fork \/ ForkFails \/ StorePid PROVE Cleaning'
  BY <1>2 DEF Fork, ForkFails, StorePid
<1>3. ASSUME parent = "run", Kill PROVE Cleaning'
  BY <1>3 DEF Kill
<1>4. ASSUME parent = "run", KillEnd PROVE Cleaning'
  BY <1>4 DEF KillEnd
<1>5. ASSUME parent = "run", WaitPid PROVE Cleaning'
  <2>1. PICK m \in Kids : m = k
    BY <1>5 DEF WaitPid
  <2>2. children[m] = m \/ (children[m] = Failed /\ kid[m] = "none")
    BY <1>5, <2>1 DEF WaitPid, Forked
  <2>3. \A i \in Kids : Gone(i) => Gone(i)'
    BY <1>5 DEF WaitPid, Awaited, Alive
  <2>4. Gone(m)'
    <3>1. CASE children[m] = Failed
      BY <2>2, <2>3, <3>1
    <3>2. CASE children[m] = m
      BY <1>5, <2>1, <3>2 DEF WaitPid, Awaited, Alive
    <3> QED
      BY <2>2, <3>1, <3>2
  <2>5. \A i \in Kids : i < k' => Gone(i)'
    BY <1>5, <2>1, <2>3, <2>4 DEF WaitPid
  <2> QED
    BY <1>5, <2>5 DEF WaitPid
<1>6. ASSUME parent = "run", Unlink PROVE Cleaning'
  <2>1. \A i \in Kids : Gone(i)
    BY <1>6 DEF Unlink, Forked
  <2> QED
    BY <1>6, <2>1 DEF Unlink
<1>7. ASSUME parent = "run", Exit PROVE Cleaning'
  BY <1>7 DEF Exit
<1>8. ASSUME parent = "run", ParentInt PROVE Cleaning'
  BY <1>8 DEF ParentInt
<1>9. ASSUME parent = "run", ParentTerm \/ ParentShot \/ CtrlC PROVE Cleaning'
  BY <1>9 DEF ParentTerm, ParentShot, CtrlC
<1>10. ASSUME NEW i \in Kids, ChildStep(i) \/ ChildShot(i) PROVE Cleaning'
  <2>1. /\ ~Gone(i) /\ kid'[i] # "reaped"
        /\ UNCHANGED <<shm, parent, ppc, handling, child_count, children, k>>
        /\ \A j \in Kids : j # i => kid'[j] = kid[j]
    BY <1>10 DEF ChildStep, ChildShot, ChildIgnore, ChildInt, ChildTerm, Alive
  <2> QED
    BY <2>1
<1>11. ASSUME UNCHANGED vars PROVE Cleaning'
  BY <1>11 DEF vars
<1> QED
  BY <1>1, <1>2, <1>3, <1>4, <1>5, <1>6, <1>7, <1>8, <1>9, <1>10, <1>11 DEF Next, ParentStep, Outside, ParentShot

(* Whom kill() reaches besides the children.                               *)
LEMMA StrayInductive == IInv /\ [Next]_vars => StraySignals'
<1> SUFFICES ASSUME IInv, [Next]_vars PROVE StraySignals'
  OBVIOUS
<1> USE MainAssumption DEF IInv, Types, StraySignals, Kids, Failed
<1>1. ASSUME NEW i \in Kids, children[i] = Failed, \E j \in Kids : children'[j] # children[j]
      PROVE  children'[i] = Failed
  <2>1. Fork \/ ForkFails \/ StorePid
    BY <1>1 DEF Next, Outside, ParentStep, InitSharedMemory, Arm, CountChild, SixtySeconds, Kill, KillEnd,
       WaitPid, Unlink, Exit, ParentInt, ParentTerm, ParentShot, CtrlC, ChildStep, ChildShot,
       ChildIgnore, ChildInt, ChildTerm, vars
  <2> QED
    BY <1>1, <2>1 DEF Fork, ForkFails, StorePid, Forked
<1>2. (\E i \in Kids : children[i] = Failed) => (\E i \in Kids : children'[i] = Failed)
  BY <1>1, TypesInductive
<1>3. ASSUME hit' = hit, handling => handling' PROVE StraySignals'
  BY <1>2, <1>3
<1>4. ASSUME parent = "run", Kill PROVE StraySignals'
  <2>1. k \in Kids /\ UNCHANGED <<children, handling>>
    BY <1>4 DEF Kill
  <2>2. children[k] \in Kids /\ kid[children[k]] = "reaped" => handling
    BY <1>4 DEF Kill, Cleaning
  <2> QED
    BY <1>4, <2>1, <2>2 DEF Kill
<1>5. ASSUME NEW i \in Kids, ChildInt(i) PROVE StraySignals'
  BY <1>5 DEF ChildInt
<1> QED
  BY <1>3, <1>4, <1>5 DEF Next, Outside, ParentStep, InitSharedMemory, Arm, CountChild, Fork, ForkFails,
     StorePid, SixtySeconds, KillEnd, WaitPid, Unlink, Exit, ParentInt, ParentTerm,
     ParentShot, CtrlC, ChildStep, ChildShot, ChildIgnore, ChildTerm, vars

-----------------------------------------------------------------------------
(* The theorems.                                                           *)

(* The invariant holds in every state.                                     *)
THEOREM InvHolds == Spec => []IInv
<1>1. IInv /\ [Next]_vars => IInv'
  BY TypesInductive, ForkedInductive, CleaningInductive, StrayInductive DEF IInv
<1> QED
  BY InvInit, <1>1, PTL DEF Spec

(* When main() returns or handle_sigint exits, wherever in the start or in *)
(* a cleanup Ctrl+C came, cleanup_all has left no child and no segment.    *)
THEOREM ShutdownIsClean == Spec => []CleanShutdown
<1>1. IInv => CleanShutdown
  BY DEF IInv, Cleaning, Gone, CleanShutdown
<1> QED
  BY InvHolds, <1>1, PTL

(* cleanup_all signals everybody only after a failed fork(), and a pid it  *)
(* has waited for only when Ctrl+C interrupted the cleanup of main().      *)
THEOREM StraySignalsOnlyThen == Spec => []StraySignals
<1>1. IInv => StraySignals
  BY DEF IInv
<1> QED
  BY InvHolds, <1>1, PTL
=============================================================================
