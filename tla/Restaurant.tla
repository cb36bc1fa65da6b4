----------------------------- MODULE Restaurant -----------------------------
(***************************************************************************)
(* The restaurant of S10_IPC_Semafore: chefs and customers, each a process *)
(* of its own, that share two trays guarded by three semaphores each.      *)
(*                                                                         *)
(* A sem_wait is one action, enabled when the semaphore is positive; so is *)
(* a sem_post.  The loop over the tray runs under the mutex of the tray;   *)
(* finding the slot and writing it are two steps, as nothing but the mutex *)
(* makes them one.  sleep() is a stutter.                                  *)
(***************************************************************************)
EXTENDS Naturals, FiniteSets

CONSTANTS
    TRAY_SIZE,
    VEGAN, NON_VEGAN,          \* the two trays, and the dish each one holds
    Chefs,                     \* processes that add dishes ...
    Once,                      \* ... those that do so by one add_*_dish_once call
    Customers,                 \* processes that eat
    Hybrids,                   \* those among them that visit both trays in turn
    TrayOf                     \* the tray of each process; of a hybrid, the first one

Kinds == {VEGAN, NON_VEGAN}
Slots == 1..TRAY_SIZE
Procs == Chefs \cup Customers
EMPTY == "empty"

ASSUME RestaurantAssumption ==
    /\ TRAY_SIZE \in Nat \ {0}
    /\ VEGAN # NON_VEGAN /\ EMPTY \notin Kinds
    /\ IsFiniteSet(Chefs) /\ IsFiniteSet(Customers)
    /\ Chefs \cap Customers = {}
    /\ Once \subseteq Chefs /\ Hybrids \subseteq Customers
    /\ TrayOf \in [Procs -> Kinds]

VARIABLES
    tray,     \* vegan_tray and nonvegan_tray: what lies in each slot
    mutex,    \* the semaphores of each tray: vegan_mutex, non_mutex
    empty,    \* vegan_empty, non_empty
    full,     \* vegan_full, non_full
    pc,       \* where each process is
    at,       \* the tray it is at
    slot      \* the index its loop stopped at, 0 before the loop or when it found none

vars == <<tray, mutex, empty, full, pc, at, slot>>

-----------------------------------------------------------------------------
Dishes(t) == {i \in Slots : tray[t][i] # EMPTY}

Init ==
    /\ tray = [t \in Kinds |-> [i \in Slots |-> EMPTY]]
    /\ mutex = [t \in Kinds |-> 1]
    /\ empty = [t \in Kinds |-> TRAY_SIZE]
    /\ full = [t \in Kinds |-> 0]
    /\ pc = [p \in Procs |-> "idle"]
    /\ at = [p \in Procs |-> TrayOf[p]]
    /\ slot = [p \in Procs |-> 0]

Goto(p, place) == pc' = [pc EXCEPT ![p] = place]

(* sem_wait and sem_post on one of the arrays of semaphores.               *)
Wait(sem, t) == sem[t] > 0 /\ sem' = [sem EXCEPT ![t] = @ - 1]
Post(sem, t) == sem' = [sem EXCEPT ![t] = @ + 1]

(* Seeded fault: the loop takes any slot, not the first one.               *)
Found_Any(t, what, i) ==
    \/ i \in Slots /\ tray[t][i] = what
    \/ i = 0 /\ \A j \in Slots : tray[t][j] # what

(* The for loop: the first slot that holds what is looked for, else 0.     *)
Found(t, what, i) ==
    \/ i \in Slots /\ tray[t][i] = what /\ \A j \in 1..(i - 1) : tray[t][j] # what
    \/ i = 0 /\ \A j \in Slots : tray[t][j] # what

-----------------------------------------------------------------------------
(* Seeded fault: the mutex is not taken.                                   *)
Lock_NoWait(p) ==
    /\ pc[p] = "lock"
    /\ Goto(p, "scan")
    /\ UNCHANGED <<tray, mutex, empty, full, at, slot>>

(* What chefs and customers do alike: take the first semaphore, the mutex, *)
(* and give the mutex back.                                                *)
Lock(p) ==
    /\ pc[p] = "lock" /\ Wait(mutex, at[p])
    /\ Goto(p, "scan")
    /\ UNCHANGED <<tray, empty, full, at, slot>>

Unlock(p) ==
    /\ pc[p] = "unlock" /\ Post(mutex, at[p])
    /\ Goto(p, "post")
    /\ UNCHANGED <<tray, empty, full, at, slot>>

Scan(p, what) ==
    /\ pc[p] = "scan"
    /\ \E i \in Slots \cup {0} :
         /\ Found(at[p], what, i)
         /\ slot' = [slot EXCEPT ![p] = i]
         /\ Goto(p, IF i = 0 THEN "unlock" ELSE "write")
    /\ UNCHANGED <<tray, mutex, empty, full, at>>

Write(p, what) ==
    /\ pc[p] = "write"
    /\ tray' = [tray EXCEPT ![at[p]][slot[p]] = what]
    /\ Goto(p, "unlock")
    /\ UNCHANGED <<mutex, empty, full, at, slot>>

-----------------------------------------------------------------------------
(* chef_vegan, chef_nonvegan, add_vegan_dish_once, add_nonvegan_dish_once. *)

(* Seeded fault: the chef does not wait for room.                          *)
ChefStart_NoWait(c) ==
    /\ pc[c] = "idle"
    /\ Goto(c, "lock")
    /\ UNCHANGED <<tray, mutex, empty, full, at, slot>>

ChefStart(c) ==
    /\ pc[c] = "idle" /\ Wait(empty, at[c])
    /\ Goto(c, "lock")
    /\ UNCHANGED <<tray, mutex, full, at, slot>>

ChefScan(c)  == Scan(c, EMPTY)
ChefWrite(c) == Write(c, at[c])

(* Seeded fault: every chef posts empty again.                             *)
ChefPost_PostsEmpty(c) ==
    /\ pc[c] = "post" /\ Post(empty, at[c])
    /\ slot' = [slot EXCEPT ![c] = 0]
    /\ Goto(c, IF c \in Once THEN "done" ELSE "idle")
    /\ UNCHANGED <<tray, mutex, full, at>>

(* The last post: full, but add_nonvegan_dish_once posts non_empty again.  *)
ChefPost(c) ==
    /\ pc[c] = "post"
    /\ IF c \in Once /\ at[c] = NON_VEGAN
       THEN Post(empty, at[c]) /\ UNCHANGED full
       ELSE Post(full, at[c]) /\ UNCHANGED empty
    /\ slot' = [slot EXCEPT ![c] = 0]
    /\ Goto(c, IF c \in Once THEN "done" ELSE "idle")
    /\ UNCHANGED <<tray, mutex, at>>

-----------------------------------------------------------------------------
(* eat_vegan_once, eat_nonvegan_once and the loops that call them.         *)

CustomerStart(c) ==
    /\ pc[c] = "idle" /\ Wait(full, at[c])
    /\ Goto(c, "lock")
    /\ UNCHANGED <<tray, mutex, empty, at, slot>>

CustomerScan(c)  == Scan(c, at[c])
(* Seeded fault: the loop has no break and clears the whole tray.          *)
CustomerWrite_NoBreak(c) ==
    /\ pc[c] = "write"
    /\ tray' = [tray EXCEPT ![at[c]] = [i \in Slots |-> EMPTY]]
    /\ Goto(c, "unlock")
    /\ UNCHANGED <<mutex, empty, full, at, slot>>

CustomerWrite(c) == Write(c, EMPTY)

(* A hybrid customer goes on to the other tray.                            *)
NextTray(c) ==
    IF c \notin Hybrids THEN at[c] ELSE IF at[c] = VEGAN THEN NON_VEGAN ELSE VEGAN

(* Seeded fault: the customer does not post empty.                         *)
CustomerPost_Missing(c) ==
    /\ pc[c] = "post"
    /\ at' = [at EXCEPT ![c] = NextTray(c)]
    /\ slot' = [slot EXCEPT ![c] = 0]
    /\ Goto(c, "idle")
    /\ UNCHANGED <<tray, mutex, empty, full>>

CustomerPost(c) ==
    /\ pc[c] = "post" /\ Post(empty, at[c])
    /\ at' = [at EXCEPT ![c] = NextTray(c)]
    /\ slot' = [slot EXCEPT ![c] = 0]
    /\ Goto(c, "idle")
    /\ UNCHANGED <<tray, mutex, full>>

-----------------------------------------------------------------------------
ChefStep(c) == ChefStart(c) \/ ChefScan(c) \/ ChefWrite(c) \/ ChefPost(c)

CustomerStep(c) == CustomerStart(c) \/ CustomerScan(c) \/ CustomerWrite(c) \/ CustomerPost(c)

Step(p) ==
    \/ Lock(p) \/ Unlock(p)
    \/ p \in Chefs /\ ChefStep(p)
    \/ p \in Customers /\ CustomerStep(p)

Next == \E p \in Procs : Step(p)

Spec == Init /\ [][Next]_vars

(* Each process is scheduled; sem_wait makes no promise about the order in *)
(* which waiting processes are served, so fairness is weak.                *)
FairSpec == Spec /\ \A p \in Procs : WF_vars(Step(p))

-----------------------------------------------------------------------------
(* Properties.                                                             *)

Places == {"idle", "lock", "scan", "write", "unlock", "post", "done"}

(* The shared segment keeps its types: no semaphore goes below zero, and a *)
(* tray of shared.h holds nothing but EMPTY and dishes of its own kind.    *)
TypeOK ==
    /\ tray \in [Kinds -> [Slots -> Kinds \cup {EMPTY}]]
    /\ \A t \in Kinds, i \in Slots : tray[t][i] \in {t, EMPTY}
    /\ mutex \in [Kinds -> Nat] /\ empty \in [Kinds -> Nat] /\ full \in [Kinds -> Nat]
    /\ pc \in [Procs -> Places]
    /\ at \in [Procs -> Kinds] /\ \A c \in Chefs : at[c] = TrayOf[c]
    /\ slot \in [Procs -> Slots \cup {0}]
    /\ \A p \in Procs : pc[p] = "write" => slot[p] \in Slots

At(S, t, places) == {p \in S : at[p] = t /\ pc[p] \in places}

Holders(t) == At(Procs, t, {"scan", "write", "unlock"})

(* vegan_mutex and non_mutex: at most one process is inside the loop over  *)
(* a tray, and the semaphore is 1 exactly when none is.                    *)
MutualExclusion ==
    \A t \in Kinds :
        /\ mutex[t] = IF Holders(t) = {} THEN 1 ELSE 0
        /\ \A p, q \in Holders(t) : p = q

(* A place on a tray is taken by a dish, counted by empty, promised to a   *)
(* chef that has passed sem_wait(empty) and not filled it yet, or emptied  *)
(* by a customer that has not posted it yet; and by one of these only.     *)
PlacesAddUp ==
    \A t \in Kinds :
        Cardinality(Dishes(t)) + empty[t]
            + Cardinality(At(Chefs, t, {"lock", "scan", "write"}))
            + Cardinality(At(Customers, t, {"unlock", "post"})) = TRAY_SIZE

(* The dishes on a tray are those counted by full, those a chef has put    *)
(* down and not yet posted, and those promised to a customer that has      *)
(* passed sem_wait(full).                                                  *)
DishesAddUp ==
    \A t \in Kinds :
        full[t] + Cardinality(At(Chefs, t, {"unlock", "post"}))
            + Cardinality(At(Customers, t, {"lock", "scan", "write"})) = Cardinality(Dishes(t))

(* Between finding a slot and writing it nobody else touches the slot: a   *)
(* chef overwrites no dish, a customer eats one that is there.             *)
SlotHolds ==
    \A p \in Procs :
        pc[p] = "write" =>
            tray[at[p]][slot[p]] = IF p \in Chefs THEN EMPTY ELSE at[p]

(* A chef let in by sem_wait(empty) finds an EMPTY slot and a customer let *)
(* in by sem_wait(full) finds a dish: the loops never run off the tray, so *)
(* no dish is lost and add_*_once and eat_*_once return 1.                 *)
AlwaysFound == \A p \in Procs : pc[p] \in {"unlock", "post"} => slot[p] # 0

Counts == [t \in Kinds |-> Cardinality(Dishes(t))]
Abstract == INSTANCE Trays WITH Size <- TRAY_SIZE, count <- Counts

(* The processes implement the two trays of Trays: a write really adds or  *)
(* removes one dish, and never overwrites one.                             *)
ImplementsTrays == Abstract!Spec

(* Each tray is eaten from again and again, although sem_wait may starve   *)
(* one customer in favour of another.  So a chef that has a tray to itself *)
(* gets each dish onto it in the end: the customers make room again.       *)
TraysServed ==
    \A t \in Kinds : []<>(\E c \in Customers : at[c] = t /\ pc[c] = "unlock")
====
