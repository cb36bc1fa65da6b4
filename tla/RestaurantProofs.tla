-------------------------- MODULE RestaurantProofs --------------------------
(* Proofs about Restaurant, for every tray size and every number of chefs  *)
(* and customers.                                                          *)
EXTENDS Restaurant, TLAPS, FiniteSetTheorems

-----------------------------------------------------------------------------
(* Types.                                                                  *)

(* Every step of a chef or a customer keeps the types.                     *)
LEMMA TypeInductive == TypeOK /\ [Next]_vars => TypeOK'
<1> SUFFICES ASSUME TypeOK, [Next]_vars PROVE TypeOK'
  OBVIOUS
<1> USE RestaurantAssumption DEF TypeOK, Places, Kinds, Slots, Procs
<1>1. ASSUME NEW p \in Procs, Lock(p) PROVE TypeOK'
  BY <1>1 DEF Lock, Wait, Goto
<1>2. ASSUME NEW p \in Procs, Unlock(p) PROVE TypeOK'
  BY <1>2 DEF Unlock, Post, Goto
<1>3. ASSUME NEW p \in Chefs, ChefStart(p) PROVE TypeOK'
  BY <1>3 DEF ChefStart, Wait, Goto
<1>4. ASSUME NEW p \in Procs, NEW what, Scan(p, what) PROVE TypeOK'
  BY <1>4 DEF Scan, Goto
<1>5. ASSUME NEW p \in Chefs, ChefWrite(p) PROVE TypeOK'
  BY <1>5 DEF ChefWrite, Write, Goto
<1>6. ASSUME NEW p \in Chefs, ChefPost(p) PROVE TypeOK'
  BY <1>6 DEF ChefPost, Post, Goto
<1>7. ASSUME NEW p \in Customers, CustomerStart(p) PROVE TypeOK'
  BY <1>7 DEF CustomerStart, Wait, Goto
<1>8. ASSUME NEW p \in Customers, CustomerWrite(p) PROVE TypeOK'
  BY <1>8 DEF CustomerWrite, Write, Goto
<1>9. ASSUME NEW p \in Customers, CustomerPost(p) PROVE TypeOK'
  BY <1>9 DEF CustomerPost, Post, Goto, NextTray
<1>10. CASE UNCHANGED vars
  BY <1>10 DEF vars
<1> QED
  BY <1>1, <1>2, <1>3, <1>4, <1>5, <1>6, <1>7, <1>8, <1>9, <1>10
     DEF Next, Step, ChefStep, CustomerStep, ChefScan, CustomerScan

(* The types hold in every state.                                          *)
THEOREM TypeCorrect == Spec => []TypeOK
<1>1. Init => TypeOK
  BY RestaurantAssumption DEF Init, TypeOK, Places, Kinds, Slots
<1> QED
  BY <1>1, TypeInductive, PTL DEF Spec

-----------------------------------------------------------------------------
(* Mutual exclusion.                                                       *)

(* Only Lock and Unlock move a process into or out of the loop.            *)
LEMMA MutexInductive == TypeOK /\ MutualExclusion /\ [Next]_vars => MutualExclusion'
<1> SUFFICES ASSUME TypeOK, MutualExclusion, [Next]_vars PROVE MutualExclusion'
  OBVIOUS
<1> USE RestaurantAssumption DEF TypeOK, Kinds, Procs, MutualExclusion, Holders, At
<1>1. ASSUME NEW p \in Procs, Lock(p) PROVE MutualExclusion'
  BY <1>1 DEF Lock, Wait, Goto
<1>2. ASSUME NEW p \in Procs, Unlock(p) PROVE MutualExclusion'
  BY <1>2 DEF Unlock, Post, Goto
<1>3. ASSUME UNCHANGED mutex, \A t \in Kinds : Holders(t)' = Holders(t)
      PROVE  MutualExclusion'
  BY <1>3
<1>4. ASSUME NEW p \in Procs,
             (p \in Chefs /\ ChefStep(p)) \/ (p \in Customers /\ CustomerStep(p))
      PROVE  UNCHANGED mutex /\ \A t \in Kinds : Holders(t)' = Holders(t)
  <2>1. CASE ChefStart(p) \/ ChefPost(p) \/ CustomerStart(p)
    BY <2>1 DEF ChefStart, ChefPost, CustomerStart, Goto
  <2>2. CASE CustomerPost(p)
    BY <2>2 DEF CustomerPost, Goto
  <2>3. CASE ChefScan(p) \/ CustomerScan(p)
    BY <2>3 DEF ChefScan, CustomerScan, Scan, Goto
  <2>4. CASE ChefWrite(p) \/ CustomerWrite(p)
    BY <2>4 DEF ChefWrite, CustomerWrite, Write, Goto
  <2> QED
    BY <1>4, <2>1, <2>2, <2>3, <2>4 DEF ChefStep, CustomerStep
<1>5. CASE UNCHANGED vars
  BY <1>5 DEF vars
<1>6. CASE Next
  <2> PICK p \in Procs : Step(p)
    BY <1>6 DEF Next
  <2> QED
    BY <1>1, <1>2, <1>3, <1>4 DEF Step
<1> QED
  BY <1>5, <1>6

(* At most one process is in the loop over a tray.                         *)
THEOREM MutexHolds == Spec => []MutualExclusion
<1>1. Init => MutualExclusion
  BY RestaurantAssumption DEF Init, MutualExclusion, Holders, At, Kinds
<1> QED
  BY <1>1, MutexInductive, TypeCorrect, PTL DEF Spec

-----------------------------------------------------------------------------
(* Accounting.  It needs the hypothesis that no caller of                  *)
(* add_nonvegan_dish_once, which posts the wrong semaphore, is around.     *)

NoFaultyCaller == \A c \in Once : TrayOf[c] # NON_VEGAN

ChefsIn(t)      == At(Chefs, t, {"lock", "scan", "write"})
ChefsOut(t)     == At(Chefs, t, {"unlock", "post"})
CustomersIn(t)  == At(Customers, t, {"lock", "scan", "write"})
CustomersOut(t) == At(Customers, t, {"unlock", "post"})

(* How a cardinality follows one element that comes or goes.               *)
LEMMA OneMore ==
    ASSUME NEW A, NEW x, IsFiniteSet(A), x \notin A
    PROVE  Cardinality(A \cup {x}) = Cardinality(A) + 1
BY FS_AddElement

(* The same when it goes.                                                  *)
LEMMA OneLess ==
    ASSUME NEW A, NEW x, IsFiniteSet(A), x \in A
    PROVE  Cardinality(A \ {x}) = Cardinality(A) - 1
BY FS_RemoveElement

(* The sets that the accounting counts are finite.                         *)
LEMMA CountsAreFinite ==
    ASSUME NEW t
    PROVE  /\ IsFiniteSet(Dishes(t)) /\ IsFiniteSet(ChefsIn(t)) /\ IsFiniteSet(ChefsOut(t))
           /\ IsFiniteSet(CustomersIn(t)) /\ IsFiniteSet(CustomersOut(t))
           /\ Cardinality(Dishes(t)) \in Nat
           /\ Cardinality(ChefsIn(t)) \in Nat /\ Cardinality(ChefsOut(t)) \in Nat
           /\ Cardinality(CustomersIn(t)) \in Nat /\ Cardinality(CustomersOut(t)) \in Nat
<1>1. IsFiniteSet(Slots) /\ IsFiniteSet(Chefs) /\ IsFiniteSet(Customers)
  BY FS_Interval, RestaurantAssumption DEF Slots
<1>2. IsFiniteSet(Dishes(t))
  BY <1>1, FS_Subset DEF Dishes
<1>3. /\ IsFiniteSet(ChefsIn(t)) /\ IsFiniteSet(ChefsOut(t))
      /\ IsFiniteSet(CustomersIn(t)) /\ IsFiniteSet(CustomersOut(t))
  BY <1>1, FS_Subset DEF ChefsIn, ChefsOut, CustomersIn, CustomersOut, At
<1> QED
  BY <1>2, <1>3, FS_CardinalityType

(* A full tray holds a dish in every slot, an empty one in none.           *)
LEMMA TrayLimits ==
    ASSUME NEW t \in Kinds
    PROVE  /\ Cardinality(Dishes(t)) < TRAY_SIZE => \E i \in Slots : tray[t][i] = EMPTY
           /\ Cardinality(Dishes(t)) > 0 => \E i \in Slots : tray[t][i] # EMPTY
<1>1. IsFiniteSet(Slots) /\ Cardinality(Slots) = TRAY_SIZE
  BY FS_Interval, RestaurantAssumption DEF Slots
<1>2. Dishes(t) = Slots => Cardinality(Dishes(t)) = TRAY_SIZE
  BY <1>1
<1>3. Dishes(t) = {} => Cardinality(Dishes(t)) = 0
  BY FS_EmptySet
<1>4. Cardinality(Dishes(t)) \in Nat
  BY CountsAreFinite
<1> QED
  BY <1>2, <1>3, <1>4, RestaurantAssumption DEF Dishes

(* The accounting, with what it rests on.                                  *)
Accounts == PlacesAddUp /\ DishesAddUp /\ SlotHolds /\ AlwaysFound

(* If all that is counted stays, so do the sums.                           *)
LEMMA SumsStay ==
    ASSUME PlacesAddUp, DishesAddUp, UNCHANGED <<tray, empty, full>>,
           \A t \in Kinds : /\ ChefsIn(t)' = ChefsIn(t) /\ ChefsOut(t)' = ChefsOut(t)
                            /\ CustomersIn(t)' = CustomersIn(t)
                            /\ CustomersOut(t)' = CustomersOut(t)
    PROVE  PlacesAddUp' /\ DishesAddUp'
<1>1. \A t \in Kinds : Dishes(t)' = Dishes(t)
  BY DEF Dishes
<1> QED
  BY <1>1 DEF PlacesAddUp, DishesAddUp, ChefsIn, ChefsOut, CustomersIn, CustomersOut

(* A chef in the loop finds room, a customer in the loop finds a dish.     *)
LEMMA RoomAndDish ==
    ASSUME TypeOK, PlacesAddUp, DishesAddUp, NEW p \in Procs, pc[p] = "scan"
    PROVE  /\ p \in Chefs => \E i \in Slots : tray[at[p]][i] = EMPTY
           /\ p \in Customers => \E i \in Slots : tray[at[p]][i] = at[p]
<1> DEFINE t == at[p]
<1>1. t \in Kinds
  BY DEF TypeOK
<1>2. p \in Chefs => Cardinality(ChefsIn(t)) > 0
  <2>1. p \in Chefs => ChefsIn(t) # {}
    BY DEF ChefsIn, At
  <2> QED
    BY <2>1, FS_EmptySet, CountsAreFinite
<1>3. p \in Customers => Cardinality(CustomersIn(t)) > 0
  <2>1. p \in Customers => CustomersIn(t) # {}
    BY DEF CustomersIn, At
  <2> QED
    BY <2>1, FS_EmptySet, CountsAreFinite
<1>4. /\ Cardinality(Dishes(t)) + empty[t] + Cardinality(ChefsIn(t))
            + Cardinality(CustomersOut(t)) = TRAY_SIZE
      /\ full[t] + Cardinality(ChefsOut(t)) + Cardinality(CustomersIn(t))
            = Cardinality(Dishes(t))
  BY <1>1 DEF PlacesAddUp, DishesAddUp, ChefsIn, ChefsOut, CustomersIn, CustomersOut
<1>5. empty[t] \in Nat /\ full[t] \in Nat
  BY <1>1 DEF TypeOK
<1> HIDE DEF t
<1>6. /\ p \in Chefs => Cardinality(Dishes(t)) < TRAY_SIZE
      /\ p \in Customers => Cardinality(Dishes(t)) > 0
  BY <1>2, <1>3, <1>4, <1>5, CountsAreFinite, RestaurantAssumption
<1>7. \A i \in Slots : tray[t][i] \in {t, EMPTY}
  BY <1>1 DEF TypeOK
<1> QED
  BY <1>1, <1>6, <1>7, TrayLimits DEF t

(* Every step keeps the accounts.                                          *)
LEMMA AccountsInductive ==
    ASSUME NoFaultyCaller
    PROVE  TypeOK /\ MutualExclusion /\ Accounts /\ [Next]_vars => Accounts'
<1> SUFFICES ASSUME TypeOK, MutualExclusion, Accounts, [Next]_vars PROVE Accounts'
  OBVIOUS
<1> USE RestaurantAssumption DEF Procs
<1>1. ASSUME NEW p \in Procs, Lock(p) PROVE Accounts'
  <2>1. \A t \in Kinds : /\ ChefsIn(t)' = ChefsIn(t) /\ ChefsOut(t)' = ChefsOut(t)
                         /\ CustomersIn(t)' = CustomersIn(t)
                         /\ CustomersOut(t)' = CustomersOut(t)
    BY <1>1 DEF TypeOK, Lock, Goto, ChefsIn, ChefsOut, CustomersIn, CustomersOut, At
  <2>2. PlacesAddUp' /\ DishesAddUp'
    BY <1>1, <2>1, SumsStay DEF Accounts, Lock
  <2>3. SlotHolds' /\ AlwaysFound'
    BY <1>1 DEF TypeOK, Lock, Goto, Accounts, SlotHolds, AlwaysFound
  <2> QED
    BY <2>2, <2>3 DEF Accounts
<1>2. ASSUME NEW p \in Procs, Unlock(p) PROVE Accounts'
  <2>1. \A t \in Kinds : /\ ChefsIn(t)' = ChefsIn(t) /\ ChefsOut(t)' = ChefsOut(t)
                         /\ CustomersIn(t)' = CustomersIn(t)
                         /\ CustomersOut(t)' = CustomersOut(t)
    BY <1>2 DEF TypeOK, Unlock, Goto, ChefsIn, ChefsOut, CustomersIn, CustomersOut, At
  <2>2. PlacesAddUp' /\ DishesAddUp'
    BY <1>2, <2>1, SumsStay DEF Accounts, Unlock
  <2>3. SlotHolds' /\ AlwaysFound'
    BY <1>2 DEF TypeOK, Unlock, Goto, Accounts, SlotHolds, AlwaysFound
  <2> QED
    BY <2>2, <2>3 DEF Accounts
<1>3. ASSUME NEW p \in Procs, NEW what, Scan(p, what),
             \E i \in Slots : tray[at[p]][i] = what,
             what = IF p \in Chefs THEN EMPTY ELSE at[p]
      PROVE  Accounts'
  <2>1. PICK i \in Slots : /\ tray[at[p]][i] = what
                           /\ slot' = [slot EXCEPT ![p] = i]
                           /\ pc' = [pc EXCEPT ![p] = "write"]
                           /\ pc[p] = "scan"
    <3>1. PICK j \in Slots \cup {0} :
             /\ Found(at[p], what, j)
             /\ slot' = [slot EXCEPT ![p] = j]
             /\ pc' = [pc EXCEPT ![p] = IF j = 0 THEN "unlock" ELSE "write"]
      BY <1>3 DEF Scan, Goto
    <3>2. j # 0 /\ j \in Slots
      BY <1>3, <3>1 DEF Found, Slots
    <3> QED
      BY <1>3, <3>1, <3>2 DEF Scan, Found, Slots
  <2>2. UNCHANGED <<tray, mutex, empty, full, at>>
    BY <1>3 DEF Scan
  <2>3. \A t \in Kinds : /\ ChefsIn(t)' = ChefsIn(t) /\ ChefsOut(t)' = ChefsOut(t)
                         /\ CustomersIn(t)' = CustomersIn(t)
                         /\ CustomersOut(t)' = CustomersOut(t)
    BY <2>1, <2>2 DEF TypeOK, ChefsIn, ChefsOut, CustomersIn, CustomersOut, At
  <2>4. PlacesAddUp' /\ DishesAddUp'
    BY <2>2, <2>3, SumsStay DEF Accounts
  <2>5. SlotHolds' /\ AlwaysFound'
    BY <1>3, <2>1, <2>2 DEF TypeOK, Accounts, SlotHolds, AlwaysFound
  <2> QED
    BY <2>4, <2>5 DEF Accounts
<1>4. ASSUME NEW p \in Chefs, ChefScan(p) PROVE Accounts'
  BY ZenonT(30), <1>3, <1>4, RoomAndDish DEF ChefScan, Scan, Accounts
<1>5. ASSUME NEW p \in Customers, CustomerScan(p) PROVE Accounts'
  <2>1. p \notin Chefs /\ p \in Procs /\ pc[p] = "scan" /\ Scan(p, at[p])
    BY <1>5 DEF CustomerScan, Scan
  <2>2. \E i \in Slots : tray[at[p]][i] = at[p]
    BY <2>1, RoomAndDish DEF Accounts
  <2> QED
    BY <1>3, <2>1, <2>2
<1>6. ASSUME NEW p \in Chefs, ChefStart(p) PROVE Accounts'
  <2>0. PICK u \in Kinds : u = at[p]
    BY DEF TypeOK
  <2>1. \A t \in Kinds \ {u} :
           /\ ChefsIn(t)' = ChefsIn(t) /\ ChefsOut(t)' = ChefsOut(t)
           /\ CustomersIn(t)' = CustomersIn(t) /\ CustomersOut(t)' = CustomersOut(t)
    BY <1>6, <2>0 DEF TypeOK, ChefStart, Wait, Goto, ChefsIn, ChefsOut, CustomersIn,
       CustomersOut, At
  <2>2. /\ ChefsIn(u)' = ChefsIn(u) \cup {p}
        /\ ChefsOut(u)' = ChefsOut(u)
        /\ CustomersIn(u)' = CustomersIn(u)
        /\ CustomersOut(u)' = CustomersOut(u)
    BY <1>6, <2>0 DEF TypeOK, ChefStart, Wait, Goto, ChefsIn, ChefsOut, CustomersIn,
       CustomersOut, At
  <2>3. p \notin ChefsIn(u)
    BY <1>6, <2>0 DEF TypeOK, ChefStart, Wait, ChefsIn, ChefsOut, CustomersIn, CustomersOut, At
  <2>4. /\ Cardinality(ChefsIn(u))' = Cardinality(ChefsIn(u)) + 1
        /\ Cardinality(ChefsOut(u))' = Cardinality(ChefsOut(u)) + 0
        /\ Cardinality(CustomersIn(u))' = Cardinality(CustomersIn(u)) + 0
        /\ Cardinality(CustomersOut(u))' = Cardinality(CustomersOut(u)) + 0
    BY <2>2, <2>3, CountsAreFinite, OneMore, OneLess
  <2>5. \A t \in Kinds : Dishes(t)' = Dishes(t)
    BY <1>6 DEF ChefStart, Wait, Dishes
  <2>6. Cardinality(Dishes(u))' = Cardinality(Dishes(u)) + 0
    BY <2>0, <2>5, CountsAreFinite
  <2>7. /\ empty[u] \in Nat /\ empty'[u] = empty[u] - 1 /\ \A t \in Kinds \ {u} : empty'[t] = empty[t]
        /\ full[u] \in Nat /\ full'[u] = full[u] + 0 /\ \A t \in Kinds \ {u} : full'[t] = full[t]
    BY <1>6, <2>0 DEF TypeOK, ChefStart, Wait, Wait, Post, NoFaultyCaller, Kinds
  <2>8. PlacesAddUp' /\ DishesAddUp'
    <3>1. ASSUME NEW t \in Kinds
          PROVE  /\ (Cardinality(Dishes(t)) + empty[t] + Cardinality(ChefsIn(t))
                      + Cardinality(CustomersOut(t)))' = TRAY_SIZE
                 /\ (full[t] + Cardinality(ChefsOut(t)) + Cardinality(CustomersIn(t)))'
                      = Cardinality(Dishes(t))'
      <4>0. /\ Cardinality(Dishes(t)) + empty[t] + Cardinality(ChefsIn(t))
                  + Cardinality(CustomersOut(t)) = TRAY_SIZE
            /\ full[t] + Cardinality(ChefsOut(t)) + Cardinality(CustomersIn(t))
                  = Cardinality(Dishes(t))
        BY DEF Accounts, PlacesAddUp, DishesAddUp, ChefsIn, ChefsOut, CustomersIn, CustomersOut
      <4>1. CASE t # u
        BY <4>0, <4>1, <2>1, <2>5, <2>7
      <4>2. CASE t = u
        BY <4>0, <4>2, <2>4, <2>6, <2>7, CountsAreFinite
      <4> QED
        BY <4>1, <4>2
    <3> QED
      BY <3>1 DEF PlacesAddUp, DishesAddUp, ChefsIn, ChefsOut, CustomersIn, CustomersOut
  <2>9. SlotHolds' /\ AlwaysFound'
    BY <1>6, <2>0 DEF TypeOK, Accounts, SlotHolds, AlwaysFound, ChefStart, Wait, Goto
  <2> QED
    BY <2>8, <2>9 DEF Accounts
<1>7. ASSUME NEW p \in Chefs, ChefWrite(p) PROVE Accounts'
  <2>0. PICK u \in Kinds : u = at[p]
    BY DEF TypeOK
  <2>1. \A t \in Kinds \ {u} :
           /\ ChefsIn(t)' = ChefsIn(t) /\ ChefsOut(t)' = ChefsOut(t)
           /\ CustomersIn(t)' = CustomersIn(t) /\ CustomersOut(t)' = CustomersOut(t)
    BY <1>7, <2>0 DEF TypeOK, ChefWrite, Write, Goto, ChefsIn, ChefsOut, CustomersIn,
       CustomersOut, At
  <2>2. /\ ChefsIn(u)' = ChefsIn(u) \ {p}
        /\ ChefsOut(u)' = ChefsOut(u) \cup {p}
        /\ CustomersIn(u)' = CustomersIn(u)
        /\ CustomersOut(u)' = CustomersOut(u)
    BY <1>7, <2>0 DEF TypeOK, ChefWrite, Write, Goto, ChefsIn, ChefsOut, CustomersIn,
       CustomersOut, At
  <2>3. p \in ChefsIn(u) /\ p \notin ChefsOut(u)
    BY <1>7, <2>0 DEF TypeOK, ChefWrite, Write, ChefsIn, ChefsOut, CustomersIn, CustomersOut, At
  <2>4. /\ Cardinality(ChefsIn(u))' = Cardinality(ChefsIn(u)) - 1
        /\ Cardinality(ChefsOut(u))' = Cardinality(ChefsOut(u)) + 1
        /\ Cardinality(CustomersIn(u))' = Cardinality(CustomersIn(u)) + 0
        /\ Cardinality(CustomersOut(u))' = Cardinality(CustomersOut(u)) + 0
    BY <2>2, <2>3, CountsAreFinite, OneMore, OneLess
  <2>5. /\ \A t \in Kinds \ {u} : Dishes(t)' = Dishes(t)
        /\ Dishes(u)' = Dishes(u) \cup {slot[p]}
        /\ slot[p] \notin Dishes(u)
    BY <1>7, <2>0 DEF TypeOK, Accounts, SlotHolds, ChefWrite, Write, Goto, Dishes, Kinds
  <2>6. Cardinality(Dishes(u))' = Cardinality(Dishes(u)) + 1
    BY <2>5, CountsAreFinite, OneMore, OneLess
  <2>7. /\ empty[u] \in Nat /\ empty'[u] = empty[u] + 0 /\ \A t \in Kinds \ {u} : empty'[t] = empty[t]
        /\ full[u] \in Nat /\ full'[u] = full[u] + 0 /\ \A t \in Kinds \ {u} : full'[t] = full[t]
    BY <1>7, <2>0 DEF TypeOK, ChefWrite, Write, Wait, Post, NoFaultyCaller, Kinds
  <2>8. PlacesAddUp' /\ DishesAddUp'
    <3>1. ASSUME NEW t \in Kinds
          PROVE  /\ (Cardinality(Dishes(t)) + empty[t] + Cardinality(ChefsIn(t))
                      + Cardinality(CustomersOut(t)))' = TRAY_SIZE
                 /\ (full[t] + Cardinality(ChefsOut(t)) + Cardinality(CustomersIn(t)))'
                      = Cardinality(Dishes(t))'
      <4>0. /\ Cardinality(Dishes(t)) + empty[t] + Cardinality(ChefsIn(t))
                  + Cardinality(CustomersOut(t)) = TRAY_SIZE
            /\ full[t] + Cardinality(ChefsOut(t)) + Cardinality(CustomersIn(t))
                  = Cardinality(Dishes(t))
        BY DEF Accounts, PlacesAddUp, DishesAddUp, ChefsIn, ChefsOut, CustomersIn, CustomersOut
      <4>1. CASE t # u
        BY <4>0, <4>1, <2>1, <2>5, <2>7
      <4>2. CASE t = u
        BY <4>0, <4>2, <2>4, <2>6, <2>7, CountsAreFinite
      <4> QED
        BY <4>1, <4>2
    <3> QED
      BY <3>1 DEF PlacesAddUp, DishesAddUp, ChefsIn, ChefsOut, CustomersIn, CustomersOut
  <2>9. SlotHolds' /\ AlwaysFound'
    <3>1. ASSUME NEW q \in Procs, q # p, pc[q] = "write" PROVE at[q] # u
      BY <1>7, <2>0, <3>1 DEF TypeOK, MutualExclusion, Holders, At, ChefWrite, Write
    <3> QED
      BY <1>7, <2>0, <3>1 DEF TypeOK, Accounts, SlotHolds, AlwaysFound, ChefWrite, Write,
         Goto, Slots
  <2> QED
    BY <2>8, <2>9 DEF Accounts
<1>8. ASSUME NEW p \in Chefs, ChefPost(p) PROVE Accounts'
  <2>0. PICK u \in Kinds : u = at[p]
    BY DEF TypeOK
  <2>1. \A t \in Kinds \ {u} :
           /\ ChefsIn(t)' = ChefsIn(t) /\ ChefsOut(t)' = ChefsOut(t)
           /\ CustomersIn(t)' = CustomersIn(t) /\ CustomersOut(t)' = CustomersOut(t)
    BY <1>8, <2>0 DEF TypeOK, ChefPost, Post, Goto, ChefsIn, ChefsOut, CustomersIn,
       CustomersOut, At
  <2>2. /\ ChefsIn(u)' = ChefsIn(u)
        /\ ChefsOut(u)' = ChefsOut(u) \ {p}
        /\ CustomersIn(u)' = CustomersIn(u)
        /\ CustomersOut(u)' = CustomersOut(u)
    BY <1>8, <2>0 DEF TypeOK, ChefPost, Post, Goto, ChefsIn, ChefsOut, CustomersIn,
       CustomersOut, At
  <2>3. p \in ChefsOut(u)
    BY <1>8, <2>0 DEF TypeOK, ChefPost, Post, ChefsIn, ChefsOut, CustomersIn, CustomersOut, At
  <2>4. /\ Cardinality(ChefsIn(u))' = Cardinality(ChefsIn(u)) + 0
        /\ Cardinality(ChefsOut(u))' = Cardinality(ChefsOut(u)) - 1
        /\ Cardinality(CustomersIn(u))' = Cardinality(CustomersIn(u)) + 0
        /\ Cardinality(CustomersOut(u))' = Cardinality(CustomersOut(u)) + 0
    BY <2>2, <2>3, CountsAreFinite, OneMore, OneLess
  <2>5. \A t \in Kinds : Dishes(t)' = Dishes(t)
    BY <1>8 DEF ChefPost, Post, Dishes
  <2>6. Cardinality(Dishes(u))' = Cardinality(Dishes(u)) + 0
    BY <2>0, <2>5, CountsAreFinite
  <2>7. /\ empty[u] \in Nat /\ empty'[u] = empty[u] + 0 /\ \A t \in Kinds \ {u} : empty'[t] = empty[t]
        /\ full[u] \in Nat /\ full'[u] = full[u] + 1 /\ \A t \in Kinds \ {u} : full'[t] = full[t]
    BY <1>8, <2>0 DEF TypeOK, ChefPost, Post, Wait, Post, NoFaultyCaller, Kinds
  <2>8. PlacesAddUp' /\ DishesAddUp'
    <3>1. ASSUME NEW t \in Kinds
          PROVE  /\ (Cardinality(Dishes(t)) + empty[t] + Cardinality(ChefsIn(t))
                      + Cardinality(CustomersOut(t)))' = TRAY_SIZE
                 /\ (full[t] + Cardinality(ChefsOut(t)) + Cardinality(CustomersIn(t)))'
                      = Cardinality(Dishes(t))'
      <4>0. /\ Cardinality(Dishes(t)) + empty[t] + Cardinality(ChefsIn(t))
                  + Cardinality(CustomersOut(t)) = TRAY_SIZE
            /\ full[t] + Cardinality(ChefsOut(t)) + Cardinality(CustomersIn(t))
                  = Cardinality(Dishes(t))
        BY DEF Accounts, PlacesAddUp, DishesAddUp, ChefsIn, ChefsOut, CustomersIn, CustomersOut
      <4>1. CASE t # u
        BY <4>0, <4>1, <2>1, <2>5, <2>7
      <4>2. CASE t = u
        BY <4>0, <4>2, <2>4, <2>6, <2>7, CountsAreFinite
      <4> QED
        BY <4>1, <4>2
    <3> QED
      BY <3>1 DEF PlacesAddUp, DishesAddUp, ChefsIn, ChefsOut, CustomersIn, CustomersOut
  <2>9. SlotHolds' /\ AlwaysFound'
    BY <1>8, <2>0 DEF TypeOK, Accounts, SlotHolds, AlwaysFound, ChefPost, Post, Goto
  <2> QED
    BY <2>8, <2>9 DEF Accounts
<1>9. ASSUME NEW p \in Customers, CustomerStart(p) PROVE Accounts'
  <2>0. PICK u \in Kinds : u = at[p]
    BY DEF TypeOK
  <2>1. \A t \in Kinds \ {u} :
           /\ ChefsIn(t)' = ChefsIn(t) /\ ChefsOut(t)' = ChefsOut(t)
           /\ CustomersIn(t)' = CustomersIn(t) /\ CustomersOut(t)' = CustomersOut(t)
    BY <1>9, <2>0 DEF TypeOK, CustomerStart, Wait, Goto, ChefsIn, ChefsOut, CustomersIn,
       CustomersOut, At
  <2>2. /\ ChefsIn(u)' = ChefsIn(u)
        /\ ChefsOut(u)' = ChefsOut(u)
        /\ CustomersIn(u)' = CustomersIn(u) \cup {p}
        /\ CustomersOut(u)' = CustomersOut(u)
    BY <1>9, <2>0 DEF TypeOK, CustomerStart, Wait, Goto, ChefsIn, ChefsOut, CustomersIn,
       CustomersOut, At
  <2>3. p \notin CustomersIn(u)
    BY <1>9, <2>0 DEF TypeOK, CustomerStart, Wait, ChefsIn, ChefsOut, CustomersIn,
       CustomersOut, At
  <2>4. /\ Cardinality(ChefsIn(u))' = Cardinality(ChefsIn(u)) + 0
        /\ Cardinality(ChefsOut(u))' = Cardinality(ChefsOut(u)) + 0
        /\ Cardinality(CustomersIn(u))' = Cardinality(CustomersIn(u)) + 1
        /\ Cardinality(CustomersOut(u))' = Cardinality(CustomersOut(u)) + 0
    BY <2>2, <2>3, CountsAreFinite, OneMore, OneLess
  <2>5. \A t \in Kinds : Dishes(t)' = Dishes(t)
    BY <1>9 DEF CustomerStart, Wait, Dishes
  <2>6. Cardinality(Dishes(u))' = Cardinality(Dishes(u)) + 0
    BY <2>0, <2>5, CountsAreFinite
  <2>7. /\ empty[u] \in Nat /\ empty'[u] = empty[u] + 0 /\ \A t \in Kinds \ {u} : empty'[t] = empty[t]
        /\ full[u] \in Nat /\ full'[u] = full[u] - 1 /\ \A t \in Kinds \ {u} : full'[t] = full[t]
    BY <1>9, <2>0 DEF TypeOK, CustomerStart, Wait, Wait, Post, NoFaultyCaller, Kinds
  <2>8. PlacesAddUp' /\ DishesAddUp'
    <3>1. ASSUME NEW t \in Kinds
          PROVE  /\ (Cardinality(Dishes(t)) + empty[t] + Cardinality(ChefsIn(t))
                      + Cardinality(CustomersOut(t)))' = TRAY_SIZE
                 /\ (full[t] + Cardinality(ChefsOut(t)) + Cardinality(CustomersIn(t)))'
                      = Cardinality(Dishes(t))'
      <4>0. /\ Cardinality(Dishes(t)) + empty[t] + Cardinality(ChefsIn(t))
                  + Cardinality(CustomersOut(t)) = TRAY_SIZE
            /\ full[t] + Cardinality(ChefsOut(t)) + Cardinality(CustomersIn(t))
                  = Cardinality(Dishes(t))
        BY DEF Accounts, PlacesAddUp, DishesAddUp, ChefsIn, ChefsOut, CustomersIn, CustomersOut
      <4>1. CASE t # u
        BY <4>0, <4>1, <2>1, <2>5, <2>7
      <4>2. CASE t = u
        BY <4>0, <4>2, <2>4, <2>6, <2>7, CountsAreFinite
      <4> QED
        BY <4>1, <4>2
    <3> QED
      BY <3>1 DEF PlacesAddUp, DishesAddUp, ChefsIn, ChefsOut, CustomersIn, CustomersOut
  <2>9. SlotHolds' /\ AlwaysFound'
    BY <1>9, <2>0 DEF TypeOK, Accounts, SlotHolds, AlwaysFound, CustomerStart, Wait, Goto
  <2> QED
    BY <2>8, <2>9 DEF Accounts
<1>10. ASSUME NEW p \in Customers, CustomerWrite(p) PROVE Accounts'
  <2>0. PICK u \in Kinds : u = at[p]
    BY DEF TypeOK
  <2>1. \A t \in Kinds \ {u} :
           /\ ChefsIn(t)' = ChefsIn(t) /\ ChefsOut(t)' = ChefsOut(t)
           /\ CustomersIn(t)' = CustomersIn(t) /\ CustomersOut(t)' = CustomersOut(t)
    BY <1>10, <2>0 DEF TypeOK, CustomerWrite, Write, Goto, ChefsIn, ChefsOut, CustomersIn,
       CustomersOut, At
  <2>2. /\ ChefsIn(u)' = ChefsIn(u)
        /\ ChefsOut(u)' = ChefsOut(u)
        /\ CustomersIn(u)' = CustomersIn(u) \ {p}
        /\ CustomersOut(u)' = CustomersOut(u) \cup {p}
    BY <1>10, <2>0 DEF TypeOK, CustomerWrite, Write, Goto, ChefsIn, ChefsOut, CustomersIn,
       CustomersOut, At
  <2>3. p \in CustomersIn(u) /\ p \notin CustomersOut(u)
    BY <1>10, <2>0 DEF TypeOK, CustomerWrite, Write, ChefsIn, ChefsOut, CustomersIn,
       CustomersOut, At
  <2>4. /\ Cardinality(ChefsIn(u))' = Cardinality(ChefsIn(u)) + 0
        /\ Cardinality(ChefsOut(u))' = Cardinality(ChefsOut(u)) + 0
        /\ Cardinality(CustomersIn(u))' = Cardinality(CustomersIn(u)) - 1
        /\ Cardinality(CustomersOut(u))' = Cardinality(CustomersOut(u)) + 1
    BY <2>2, <2>3, CountsAreFinite, OneMore, OneLess
  <2>5. /\ \A t \in Kinds \ {u} : Dishes(t)' = Dishes(t)
        /\ Dishes(u)' = Dishes(u) \ {slot[p]}
        /\ slot[p] \in Dishes(u)
    BY <1>10, <2>0 DEF TypeOK, Accounts, SlotHolds, CustomerWrite, Write, Goto, Dishes, Kinds
  <2>6. Cardinality(Dishes(u))' = Cardinality(Dishes(u)) - 1
    BY <2>5, CountsAreFinite, OneMore, OneLess
  <2>7. /\ empty[u] \in Nat /\ empty'[u] = empty[u] + 0 /\ \A t \in Kinds \ {u} : empty'[t] = empty[t]
        /\ full[u] \in Nat /\ full'[u] = full[u] + 0 /\ \A t \in Kinds \ {u} : full'[t] = full[t]
    BY <1>10, <2>0 DEF TypeOK, CustomerWrite, Write, Wait, Post, NoFaultyCaller, Kinds
  <2>8. PlacesAddUp' /\ DishesAddUp'
    <3>1. ASSUME NEW t \in Kinds
          PROVE  /\ (Cardinality(Dishes(t)) + empty[t] + Cardinality(ChefsIn(t))
                      + Cardinality(CustomersOut(t)))' = TRAY_SIZE
                 /\ (full[t] + Cardinality(ChefsOut(t)) + Cardinality(CustomersIn(t)))'
                      = Cardinality(Dishes(t))'
      <4>0. /\ Cardinality(Dishes(t)) + empty[t] + Cardinality(ChefsIn(t))
                  + Cardinality(CustomersOut(t)) = TRAY_SIZE
            /\ full[t] + Cardinality(ChefsOut(t)) + Cardinality(CustomersIn(t))
                  = Cardinality(Dishes(t))
        BY DEF Accounts, PlacesAddUp, DishesAddUp, ChefsIn, ChefsOut, CustomersIn, CustomersOut
      <4>1. CASE t # u
        BY <4>0, <4>1, <2>1, <2>5, <2>7
      <4>2. CASE t = u
        BY <4>0, <4>2, <2>4, <2>6, <2>7, CountsAreFinite
      <4> QED
        BY <4>1, <4>2
    <3> QED
      BY <3>1 DEF PlacesAddUp, DishesAddUp, ChefsIn, ChefsOut, CustomersIn, CustomersOut
  <2>9. SlotHolds' /\ AlwaysFound'
    <3>1. ASSUME NEW q \in Procs, q # p, pc[q] = "write" PROVE at[q] # u
      BY <1>10, <2>0, <3>1 DEF TypeOK, MutualExclusion, Holders, At, CustomerWrite, Write
    <3> QED
      BY SMTT(30), <1>10, <2>0, <3>1 DEF TypeOK, Accounts, SlotHolds, AlwaysFound, CustomerWrite,
         Write, Goto, Slots
  <2> QED
    BY <2>8, <2>9 DEF Accounts
<1>11. ASSUME NEW p \in Customers, CustomerPost(p) PROVE Accounts'
  <2>0. PICK u \in Kinds : u = at[p]
    BY DEF TypeOK
  <2>1. \A t \in Kinds \ {u} :
           /\ ChefsIn(t)' = ChefsIn(t) /\ ChefsOut(t)' = ChefsOut(t)
           /\ CustomersIn(t)' = CustomersIn(t) /\ CustomersOut(t)' = CustomersOut(t)
    BY <1>11, <2>0 DEF TypeOK, CustomerPost, Post, Goto, ChefsIn, ChefsOut, CustomersIn,
       CustomersOut, At
  <2>2. /\ ChefsIn(u)' = ChefsIn(u)
        /\ ChefsOut(u)' = ChefsOut(u)
        /\ CustomersIn(u)' = CustomersIn(u)
        /\ CustomersOut(u)' = CustomersOut(u) \ {p}
    BY <1>11, <2>0 DEF TypeOK, CustomerPost, Post, Goto, ChefsIn, ChefsOut, CustomersIn,
       CustomersOut, At
  <2>3. p \in CustomersOut(u)
    BY <1>11, <2>0 DEF TypeOK, CustomerPost, Post, ChefsIn, ChefsOut, CustomersIn,
       CustomersOut, At
  <2>4. /\ Cardinality(ChefsIn(u))' = Cardinality(ChefsIn(u)) + 0
        /\ Cardinality(ChefsOut(u))' = Cardinality(ChefsOut(u)) + 0
        /\ Cardinality(CustomersIn(u))' = Cardinality(CustomersIn(u)) + 0
        /\ Cardinality(CustomersOut(u))' = Cardinality(CustomersOut(u)) - 1
    BY <2>2, <2>3, CountsAreFinite, OneMore, OneLess
  <2>5. \A t \in Kinds : Dishes(t)' = Dishes(t)
    BY <1>11 DEF CustomerPost, Post, Dishes
  <2>6. Cardinality(Dishes(u))' = Cardinality(Dishes(u)) + 0
    BY <2>0, <2>5, CountsAreFinite
  <2>7. /\ empty[u] \in Nat /\ empty'[u] = empty[u] + 1 /\ \A t \in Kinds \ {u} : empty'[t] = empty[t]
        /\ full[u] \in Nat /\ full'[u] = full[u] + 0 /\ \A t \in Kinds \ {u} : full'[t] = full[t]
    BY <1>11, <2>0 DEF TypeOK, CustomerPost, Post, Wait, Post, NoFaultyCaller, Kinds
  <2>8. PlacesAddUp' /\ DishesAddUp'
    <3>1. ASSUME NEW t \in Kinds
          PROVE  /\ (Cardinality(Dishes(t)) + empty[t] + Cardinality(ChefsIn(t))
                      + Cardinality(CustomersOut(t)))' = TRAY_SIZE
                 /\ (full[t] + Cardinality(ChefsOut(t)) + Cardinality(CustomersIn(t)))'
                      = Cardinality(Dishes(t))'
      <4>0. /\ Cardinality(Dishes(t)) + empty[t] + Cardinality(ChefsIn(t))
                  + Cardinality(CustomersOut(t)) = TRAY_SIZE
            /\ full[t] + Cardinality(ChefsOut(t)) + Cardinality(CustomersIn(t))
                  = Cardinality(Dishes(t))
        BY DEF Accounts, PlacesAddUp, DishesAddUp, ChefsIn, ChefsOut, CustomersIn, CustomersOut
      <4>1. CASE t # u
        BY <4>0, <4>1, <2>1, <2>5, <2>7
      <4>2. CASE t = u
        BY <4>0, <4>2, <2>4, <2>6, <2>7, CountsAreFinite
      <4> QED
        BY <4>1, <4>2
    <3> QED
      BY <3>1 DEF PlacesAddUp, DishesAddUp, ChefsIn, ChefsOut, CustomersIn, CustomersOut
  <2>9. SlotHolds' /\ AlwaysFound'
    BY <1>11, <2>0 DEF TypeOK, Accounts, SlotHolds, AlwaysFound, CustomerPost, Post, Goto
  <2> QED
    BY <2>8, <2>9 DEF Accounts
<1>12. CASE UNCHANGED vars
  <2>1. \A t \in Kinds : /\ ChefsIn(t)' = ChefsIn(t) /\ ChefsOut(t)' = ChefsOut(t)
                         /\ CustomersIn(t)' = CustomersIn(t)
                         /\ CustomersOut(t)' = CustomersOut(t)
    BY <1>12 DEF vars, ChefsIn, ChefsOut, CustomersIn, CustomersOut, At
  <2>2. PlacesAddUp' /\ DishesAddUp'
    BY <1>12, <2>1, SumsStay DEF vars, Accounts
  <2> QED
    BY <1>12, <2>2 DEF vars, Accounts, SlotHolds, AlwaysFound
<1>13. CASE Next
  <2> PICK p \in Procs : Step(p)
    BY <1>13 DEF Next
  <2>1. CASE p \in Chefs /\ ChefStep(p)
    BY <2>1, <1>4, <1>6, <1>7, <1>8 DEF ChefStep
  <2>2. CASE p \in Customers /\ CustomerStep(p)
    BY <2>2, <1>5, <1>9, <1>10, <1>11 DEF CustomerStep
  <2> QED
    BY <2>1, <2>2, <1>1, <1>2 DEF Step
<1> QED
  BY <1>12, <1>13

(* Nothing is on the trays and nobody is at them when the run begins.      *)
LEMMA AccountsInit == Init => Accounts
<1> SUFFICES ASSUME Init PROVE Accounts
  OBVIOUS
<1>1. ASSUME NEW t \in Kinds
      PROVE  /\ Dishes(t) = {} /\ ChefsIn(t) = {} /\ ChefsOut(t) = {}
             /\ CustomersIn(t) = {} /\ CustomersOut(t) = {}
  BY RestaurantAssumption
     DEF Init, Dishes, ChefsIn, ChefsOut, CustomersIn, CustomersOut, At, Procs
<1>2. ASSUME NEW t \in Kinds
      PROVE  /\ Cardinality(Dishes(t)) = 0
             /\ Cardinality(ChefsIn(t)) = 0 /\ Cardinality(ChefsOut(t)) = 0
             /\ Cardinality(CustomersIn(t)) = 0 /\ Cardinality(CustomersOut(t)) = 0
  BY <1>1, FS_EmptySet
<1>3. \A t \in Kinds : empty[t] = TRAY_SIZE /\ full[t] = 0
  BY DEF Init
<1>4. PlacesAddUp /\ DishesAddUp
  BY <1>2, <1>3, RestaurantAssumption
     DEF PlacesAddUp, DishesAddUp, ChefsIn, ChefsOut, CustomersIn, CustomersOut
<1>5. SlotHolds /\ AlwaysFound
  BY DEF Init, SlotHolds, AlwaysFound
<1> QED
  BY <1>4, <1>5 DEF Accounts

(* The accounting of places and dishes holds for any number of chefs and   *)
(* customers and any tray size, whatever the order in which sem_wait lets  *)
(* them in.                                                                *)
THEOREM AccountsHold ==
    ASSUME NoFaultyCaller
    PROVE  Spec => []Accounts
<1>1. Init => Accounts
  BY AccountsInit
<1>2. TypeOK /\ MutualExclusion /\ Accounts /\ [Next]_vars => Accounts'
  BY AccountsInductive
<1> QED
  BY <1>1, <1>2, TypeCorrect, MutexHolds, PTL DEF Spec

(* Every process that the semaphores let in finds what it came for: the    *)
(* loops of chef.c and consumer.c never run off the end of the tray.       *)
THEOREM NeverMissed ==
    ASSUME NoFaultyCaller
    PROVE  Spec => []AlwaysFound
<1>1. Accounts => AlwaysFound
  BY DEF Accounts
<1> QED
  BY <1>1, AccountsHold, PTL

(* Every place on a tray is accounted for by a dish, a semaphore or one    *)
(* process: the waits and posts of empty in chef.c and consumer.c.         *)
THEOREM PlacesHold ==
    ASSUME NoFaultyCaller
    PROVE  Spec => []PlacesAddUp
<1>1. Accounts => PlacesAddUp
  BY DEF Accounts
<1> QED
  BY <1>1, AccountsHold, PTL

(* Every dish on a tray is accounted for: the waits and posts of full.     *)
THEOREM DishesHold ==
    ASSUME NoFaultyCaller
    PROVE  Spec => []DishesAddUp
<1>1. Accounts => DishesAddUp
  BY DEF Accounts
<1> QED
  BY <1>1, AccountsHold, PTL

(* The slot a loop stopped at is still as it was found when it is written. *)
THEOREM SlotsKept ==
    ASSUME NoFaultyCaller
    PROVE  Spec => []SlotHolds
<1>1. Accounts => SlotHolds
  BY DEF Accounts
<1> QED
  BY <1>1, AccountsHold, PTL

-----------------------------------------------------------------------------
(* Refinement.                                                             *)

(* A write that fills or clears the slot the process found changes the     *)
(* count of that tray by one; nothing else changes a count.                *)
LEMMA WritesCount ==
    ASSUME TypeOK, NEW p \in Procs, NEW what, Write(p, what), NEW u \in Kinds, u = at[p]
    PROVE  /\ \A t \in Kinds \ {u} : Dishes(t)' = Dishes(t)
           /\ slot[p] \in Slots
           /\ what = EMPTY => Dishes(u)' = Dishes(u) \ {slot[p]}
           /\ what # EMPTY => Dishes(u)' = Dishes(u) \cup {slot[p]}
BY DEF TypeOK, Write, Dishes

(* A tray never counts more dishes than it has slots.                      *)
LEMMA BoundedCount ==
    ASSUME NEW t PROVE Cardinality(Dishes(t)) <= TRAY_SIZE /\ Cardinality(Dishes(t)') <= TRAY_SIZE
<1>1. IsFiniteSet(Slots) /\ Cardinality(Slots) = TRAY_SIZE
  BY FS_Interval, RestaurantAssumption DEF Slots
<1>2. Dishes(t) \subseteq Slots /\ Dishes(t)' \subseteq Slots
  BY DEF Dishes
<1> QED
  BY <1>1, <1>2, FS_Subset

(* Each step is a step of the abstract trays or leaves the counts alone.   *)
LEMMA TraysStep ==
    TypeOK /\ Accounts /\ Accounts' /\ [Next]_vars => [Abstract!Next]_Counts
<1> SUFFICES ASSUME TypeOK, Accounts, Accounts', [Next]_vars PROVE [Abstract!Next]_Counts
  OBVIOUS
<1> USE RestaurantAssumption DEF Procs
<1>1. ASSUME UNCHANGED tray PROVE [Abstract!Next]_Counts
  BY <1>1 DEF Counts, Dishes
<1>2. ASSUME NEW p \in Chefs, ChefWrite(p) PROVE [Abstract!Next]_Counts
  <2>0. PICK u \in Kinds : u = at[p]
    BY DEF TypeOK
  <2>1. /\ \A t \in Kinds \ {u} : Dishes(t)' = Dishes(t)
        /\ Dishes(u)' = Dishes(u) \cup {slot[p]}
    <3>1. at[p] # EMPTY
      BY DEF TypeOK, Kinds, EMPTY
    <3> QED
      BY <1>2, <2>0, <3>1, WritesCount DEF ChefWrite
  <2>2. slot[p] \notin Dishes(u)
    BY <1>2, <2>0 DEF Accounts, SlotHolds, ChefWrite, Write, Dishes
  <2>3. /\ Cardinality(Dishes(u)') = Cardinality(Dishes(u)) + 1
        /\ Cardinality(Dishes(u)) \in Nat /\ Cardinality(Dishes(u)') \in Nat
    BY <2>1, <2>2, OneMore, CountsAreFinite
  <2>4. Cardinality(Dishes(u)) < TRAY_SIZE
    <3>1. Cardinality(Dishes(u)') <= TRAY_SIZE
      BY BoundedCount
    <3> QED
      BY <2>3, <3>1
  <2>5. Counts[u] < TRAY_SIZE /\ Counts' = [Counts EXCEPT ![u] = @ + 1]
    BY <2>1, <2>3, <2>4 DEF Counts
  <2> QED
    BY <2>1, <2>5 DEF Abstract!Next, Abstract!Add
<1>3. ASSUME NEW p \in Customers, CustomerWrite(p) PROVE [Abstract!Next]_Counts
  <2>0. PICK u \in Kinds : u = at[p]
    BY DEF TypeOK
  <2>1. /\ \A t \in Kinds \ {u} : Dishes(t)' = Dishes(t)
        /\ Dishes(u)' = Dishes(u) \ {slot[p]} /\ slot[p] \in Slots
    BY <1>3, <2>0, WritesCount DEF CustomerWrite
  <2>2. slot[p] \in Dishes(u)
    BY <1>3, <2>0, <2>1 DEF Accounts, SlotHolds, CustomerWrite, Write, Dishes, Kinds
  <2>3. /\ Cardinality(Dishes(u)') = Cardinality(Dishes(u)) - 1
        /\ Cardinality(Dishes(u)) \in Nat /\ Cardinality(Dishes(u)) # 0
    BY <2>1, <2>2, OneLess, CountsAreFinite, FS_EmptySet
  <2>4. Cardinality(Dishes(u)) > 0
    BY <2>3
  <2>5. Counts[u] > 0 /\ Counts' = [Counts EXCEPT ![u] = @ - 1]
    BY <2>1, <2>3, <2>4 DEF Counts
  <2> QED
    BY <2>5 DEF Abstract!Next, Abstract!Eat
<1>4. CASE UNCHANGED vars
  BY <1>4, <1>1 DEF vars
<1>5. CASE Next
  <2> PICK p \in Procs : Step(p)
    BY <1>5 DEF Next
  <2>1. CASE p \in Chefs /\ ChefStep(p)
    BY <2>1, <1>1, <1>2 DEF ChefStep, ChefStart, ChefScan, Scan, ChefPost
  <2>2. CASE p \in Customers /\ CustomerStep(p)
    BY <2>2, <1>1, <1>3 DEF CustomerStep, CustomerStart, CustomerScan, Scan, CustomerPost
  <2> QED
    BY <2>1, <2>2, <1>1 DEF Step, Lock, Unlock
<1> QED
  BY <1>4, <1>5

(* The processes implement the two trays that Trays specifies: no dish is  *)
(* lost, overwritten or eaten twice.                                       *)
THEOREM Refinement ==
    ASSUME NoFaultyCaller
    PROVE  Spec => ImplementsTrays
<1>1. Init => Abstract!Init
  <2> SUFFICES ASSUME Init PROVE Counts = [t \in Kinds |-> 0]
    BY DEF Abstract!Init
  <2>1. \A t \in Kinds : Dishes(t) = {}
    BY DEF Init, Dishes
  <2> QED
    BY <2>1, FS_EmptySet DEF Counts
<1> QED
  BY <1>1, TypeCorrect, AccountsHold, TraysStep, PTL DEF Spec, Abstract!Spec, ImplementsTrays
====
