-------------------------- MODULE TrayStatusProofs --------------------------
(* A proof about TrayStatus, for every size of the trays and any chefs and *)
(* customers: the count of an unlocked reader is one the tray really had.  *)
EXTENDS TrayStatus, RestaurantProofs

(* What a process is about to write goes over the first slot of its kind.  *)
LooksFor(p) == IF p \in Chefs THEN EMPTY ELSE at[p]

FirstFound ==
    \A p \in Procs :
        pc[p] = "write" =>
            /\ tray[at[p]][slot[p]] = LooksFor(p)
            /\ \A j \in 1..(slot[p] - 1) : tray[at[p]][j] # LooksFor(p)

(* The dishes in the slots that the loop has not read yet.                 *)
Unread(t) == {i \in Dishes(t) : next <= i}

NoGaps(H) == \A x, y \in H : \A z \in Nat : x <= z /\ z <= y => z \in H

StatusTypes ==
    /\ next \in 0..(TRAY_SIZE + 1)
    /\ seen \in [Kinds -> Nat]
    /\ held \in [Kinds -> SUBSET Nat]

(* What the loop has counted so far and the dishes that it has still to    *)
(* read add up to a number between two that the tray has held.             *)
Between(t) ==
    /\ seen[t] < next
    /\ Count(t) \in held[t] /\ NoGaps(held[t])
    /\ \E low, high \in held[t] :
          low <= seen[t] + Cardinality(Unread(t)) /\ seen[t] + Cardinality(Unread(t)) <= high

StatusInv == StatusTypes /\ (next # 0 => \A t \in Kinds : Between(t))
-----------------------------------------------------------------------------
(* Chefs and customers.                                                    *)

(* The mutex keeps everybody else away between the loop and the write, so  *)
(* the slot that the loop stopped at is still the first one.               *)
LEMMA FirstInductive ==
    TypeOK /\ MutualExclusion /\ FirstFound /\ [Next]_vars => FirstFound'
<1> SUFFICES ASSUME TypeOK, MutualExclusion, FirstFound, [Next]_vars PROVE FirstFound'
  OBVIOUS
<1> USE RestaurantAssumption DEF TypeOK, Procs, FirstFound
<1>1. ASSUME NEW p \in Procs, Scan(p, LooksFor(p)) PROVE FirstFound'
  <2>1. PICK i \in Slots \cup {0} :
          /\ Found(at[p], LooksFor(p), i)
          /\ slot' = [slot EXCEPT ![p] = i]
          /\ pc' = [pc EXCEPT ![p] = IF i = 0 THEN "unlock" ELSE "write"]
          /\ UNCHANGED <<tray, at>>
    BY <1>1 DEF Scan, Goto
  <2> SUFFICES ASSUME NEW q \in Procs, pc'[q] = "write"
               PROVE  /\ tray[at[q]][slot'[q]] = LooksFor(q)
                      /\ \A j \in 1..(slot'[q] - 1) : tray[at[q]][j] # LooksFor(q)
    BY <2>1 DEF LooksFor
  <2>2. CASE q = p
    BY <2>1, <2>2 DEF Found, Slots
  <2>3. CASE q # p
    BY <2>1, <2>3
  <2> QED
    BY <2>2, <2>3
<1>2. ASSUME NEW p \in Procs, NEW what, Write(p, what) PROVE FirstFound'
  <2> SUFFICES ASSUME NEW q \in Procs, pc'[q] = "write"
               PROVE  /\ tray'[at[q]][slot[q]] = LooksFor(q)
                      /\ \A j \in 1..(slot[q] - 1) : tray'[at[q]][j] # LooksFor(q)
    BY <1>2 DEF Write, LooksFor
  <2>1. pc[p] = "write" /\ pc[q] = "write" /\ q # p
    BY <1>2 DEF Write, Goto
  <2>2. at[q] # at[p]
    BY <2>1 DEF MutualExclusion, Holders, At
  <2>3. tray'[at[q]] = tray[at[q]]
    BY <1>2, <2>2 DEF Write
  <2> QED
    BY <2>1, <2>3
<1>3. ASSUME NEW p \in Procs,
             Lock(p) \/ Unlock(p) \/ ChefStart(p) \/ ChefPost(p) \/ CustomerStart(p)
      PROVE  FirstFound'
  BY <1>3 DEF Lock, Unlock, ChefStart, ChefPost, CustomerStart, Goto, LooksFor
<1>4. ASSUME NEW p \in Procs, CustomerPost(p) PROVE FirstFound'
  BY <1>4 DEF CustomerPost, Goto, LooksFor
<1>5. CASE UNCHANGED vars
  BY <1>5 DEF vars, LooksFor
<1>6. ASSUME NEW p \in Procs, Step(p) PROVE FirstFound'
  BY <1>1, <1>2, <1>3, <1>4, <1>6
     DEF Step, ChefStep, CustomerStep, ChefScan, ChefWrite, CustomerScan, CustomerWrite,
         LooksFor
<1> QED
  BY <1>5, <1>6 DEF Next

(* How a tray changes: a chef fills the first slot that is EMPTY, and a    *)
(* customer empties the first that is not.                                 *)
Fills(t, i) ==
    /\ i \in Slots \ Dishes(t) /\ 1..(i - 1) \subseteq Dishes(t)
    /\ Dishes(t)' = Dishes(t) \cup {i}

Empties(t, i) ==
    /\ i \in Dishes(t) /\ 1..(i - 1) \cap Dishes(t) = {}
    /\ Dishes(t)' = Dishes(t) \ {i}

(* Each step does that to a tray, or leaves its dishes alone.              *)
LEMMA TrayChanges ==
    ASSUME TypeOK, FirstFound, [Next]_vars, NEW t \in Kinds
    PROVE  Dishes(t)' = Dishes(t) \/ \E i \in Slots : Fills(t, i) \/ Empties(t, i)
<1> USE RestaurantAssumption DEF TypeOK, Procs
<1>1. CASE UNCHANGED tray
  BY <1>1 DEF Dishes
<1>2. ASSUME NEW p \in Procs, NEW what, Write(p, what), at[p] # t
      PROVE  Dishes(t)' = Dishes(t)
  BY <1>2 DEF Write, Dishes
<1>3. ASSUME NEW p \in Chefs, ChefWrite(p), at[p] = t PROVE Fills(t, slot[p])
  <2>1. /\ slot[p] \in Slots /\ tray[t][slot[p]] = EMPTY
        /\ \A j \in 1..(slot[p] - 1) : tray[t][j] # EMPTY
    BY <1>3 DEF ChefWrite, Write, FirstFound, LooksFor
  <2>2. \A j \in Slots : tray'[t][j] = IF j = slot[p] THEN t ELSE tray[t][j]
    BY <1>3, <2>1 DEF ChefWrite, Write
  <2>3. t # EMPTY
    OBVIOUS
  <2> QED
    BY <2>1, <2>2, <2>3 DEF Fills, Dishes, Slots
<1>4. ASSUME NEW p \in Customers, CustomerWrite(p), at[p] = t PROVE Empties(t, slot[p])
  <2>1. /\ slot[p] \in Slots /\ tray[t][slot[p]] = t
        /\ \A j \in 1..(slot[p] - 1) : tray[t][j] # t
    BY <1>4 DEF CustomerWrite, Write, FirstFound, LooksFor
  <2>2. \A j \in Slots : tray'[t][j] = IF j = slot[p] THEN EMPTY ELSE tray[t][j]
    BY <1>4, <2>1 DEF CustomerWrite, Write
  <2>3. t # EMPTY /\ \A j \in 1..(slot[p] - 1) : tray[t][j] = EMPTY
    BY SMTT(30), <2>1 DEF Slots
  <2> QED
    BY <2>1, <2>2, <2>3 DEF Empties, Dishes
<1>5. ASSUME NEW p \in Procs, Step(p),
             ~(p \in Chefs /\ ChefWrite(p)), ~(p \in Customers /\ CustomerWrite(p))
      PROVE  UNCHANGED tray
  BY <1>5 DEF Step, ChefStep, CustomerStep, Lock, Unlock, ChefStart, ChefScan, ChefPost,
     CustomerStart, CustomerScan, CustomerPost, Scan
<1>6. ASSUME NEW p \in Chefs, ChefWrite(p)
      PROVE  Dishes(t)' = Dishes(t) \/ \E i \in Slots : Fills(t, i)
  <2>1. slot[p] \in Slots
    BY <1>6 DEF ChefWrite, Write
  <2> QED
    BY <1>2, <1>3, <1>6, <2>1 DEF ChefWrite
<1>7. ASSUME NEW p \in Customers, CustomerWrite(p)
      PROVE  Dishes(t)' = Dishes(t) \/ \E i \in Slots : Empties(t, i)
  <2>1. slot[p] \in Slots
    BY <1>7 DEF CustomerWrite, Write
  <2> QED
    BY <1>2, <1>4, <1>7, <2>1 DEF CustomerWrite
<1> QED
  BY <1>1, <1>5, <1>6, <1>7 DEF Next, vars

-----------------------------------------------------------------------------
(* The main process.                                                       *)

(* The numbers a tray has held stay without gaps when the next one differs *)
(* by one at most.                                                         *)
LEMMA StillNoGaps ==
    ASSUME NEW H \in SUBSET Nat, NoGaps(H), NEW x \in H,
           NEW y \in Nat, y = x \/ y = x + 1 \/ x = y + 1
    PROVE  NoGaps(H \cup {y})
BY DEF NoGaps

(* The dishes that the loop has not read are counted by a number.          *)
LEMMA UnreadIsFinite ==
    ASSUME NEW t
    PROVE  IsFiniteSet(Unread(t)) /\ Cardinality(Unread(t)) \in Nat
<1>1. IsFiniteSet(Unread(t))
  BY CountsAreFinite, FS_Subset DEF Unread
<1> QED
  BY <1>1, FS_CardinalityType

(* Whatever a chef or a customer does, the sum of what is counted and what *)
(* is still to be read stays between two numbers that the tray has held.   *)
LEMMA OthersKeepBetween ==
    ASSUME TypeOK, FirstFound, Next, StatusTypes, next # 0,
           NEW t \in Kinds, Between(t), UNCHANGED <<next, seen>>,
           held'[t] = held[t] \cup {Count(t)'}
    PROVE  Between(t)'
<1> USE RestaurantAssumption DEF StatusTypes
<1> DEFINE rest == Cardinality(Unread(t))
<1>f. /\ IsFiniteSet(Dishes(t)) /\ Count(t) \in Nat
      /\ IsFiniteSet(Dishes(t))' /\ Count(t)' \in Nat
      /\ IsFiniteSet(Unread(t)) /\ rest \in Nat
      /\ IsFiniteSet(Unread(t))' /\ rest' \in Nat
  <2>1. IsFiniteSet(Slots)
    BY FS_Interval DEF Slots
  <2>2. IsFiniteSet(Dishes(t)') /\ IsFiniteSet(Unread(t)')
    BY <2>1, FS_Subset DEF Dishes, Unread
  <2> QED
    BY <2>2, CountsAreFinite, UnreadIsFinite, FS_CardinalityType DEF Count
<1>g. /\ seen[t] \in Nat /\ seen[t] < next /\ next \in Nat /\ held[t] \in SUBSET Nat
      /\ Count(t) \in held[t] /\ NoGaps(held[t])
  BY DEF Between
<1>h. PICK low, high \in held[t] : low <= seen[t] + rest /\ seen[t] + rest <= high
  BY DEF Between
<1>q. ASSUME Count(t)' = Count(t) \/ Count(t)' = Count(t) + 1 \/ Count(t) = Count(t)' + 1,
             \E l, h \in held'[t] : l <= seen[t] + rest' /\ seen[t] + rest' <= h
      PROVE  Between(t)'
  <2>1. NoGaps(held[t] \cup {Count(t)'})
    BY <1>f, <1>g, <1>q, StillNoGaps
  <2> QED
    BY <1>g, <1>q, <2>1 DEF Between
<1>1. CASE Dishes(t)' = Dishes(t)
  <2>1. Unread(t)' = Unread(t) /\ Count(t)' = Count(t)
    BY <1>1 DEF Unread, Count
  <2> QED
    BY <1>h, <1>q, <2>1
<1>2. ASSUME NEW i \in Slots, Fills(t, i) PROVE Between(t)'
  <2>1. Count(t)' = Count(t) + 1
    BY <1>2, <1>f, OneMore DEF Fills, Count
  <2>2. CASE i < next
    <3>1. Unread(t)' = Unread(t)
      BY <1>2, <2>2, <1>g DEF Fills, Unread, Slots
    <3> QED
      BY <1>h, <1>q, <2>1, <3>1
  <2>3. CASE next <= i
    <3>1. Unread(t)' = Unread(t) \cup {i} /\ i \notin Unread(t)
      BY <1>2, <2>3, <1>g DEF Fills, Unread, Slots
    <3>2. rest' = rest + 1
      BY <1>f, <3>1, OneMore
    <3>3. /\ Dishes(t)' = (1..(next - 1)) \cup Unread(t)'
          /\ (1..(next - 1)) \cap Unread(t)' = {}
      BY <1>2, <2>3, <1>g DEF Fills, Unread, Dishes, Slots
    <3>4. IsFiniteSet(1..(next - 1)) /\ Cardinality(1..(next - 1)) = next - 1
      <4>1. PICK n \in Nat : n = next - 1
        BY <1>g
      <4>2. IsFiniteSet(1..n) /\ Cardinality(1..n) = IF 1 > n THEN 0 ELSE n - 1 + 1
        BY FS_Interval, 1 \in Int, n \in Int
      <4> QED
        BY <4>1, <4>2, <1>g
    <3>5. Count(t)' = (next - 1) + rest'
      <4>1. Cardinality((1..(next - 1)) \cap Unread(t)') = 0
        BY <3>3, FS_EmptySet
      <4>2. Cardinality((1..(next - 1)) \cup Unread(t)')
              = (next - 1) + Cardinality(Unread(t)')
                  - Cardinality((1..(next - 1)) \cap Unread(t)')
        BY <1>f, <3>4, FS_Union
      <4> QED
        BY <1>f, <1>g, <3>3, <4>1, <4>2 DEF Count
    <3>6. low <= seen[t] + rest' /\ seen[t] + rest' <= Count(t)'
      BY <1>f, <1>g, <1>h, <3>2, <3>5
    <3> QED
      BY <1>q, <2>1, <3>6
  <2> QED
    BY <2>2, <2>3, <1>g DEF Slots
<1>3. ASSUME NEW i \in Slots, Empties(t, i) PROVE Between(t)'
  <2>1. Count(t) = Count(t)' + 1
    BY <1>3, <1>f, OneLess DEF Empties, Count
  <2>2. CASE i < next
    <3>1. Unread(t)' = Unread(t)
      BY <1>3, <2>2, <1>g DEF Empties, Unread, Slots, Dishes
    <3> QED
      BY <1>h, <1>q, <2>1, <3>1
  <2>3. CASE next <= i
    <3>1. Unread(t)' = Unread(t) \ {i} /\ i \in Unread(t)
      BY <1>3, <2>3, <1>g DEF Empties, Unread, Slots, Dishes
    <3>2. rest = rest' + 1
      BY <1>f, <3>1, OneLess
    <3>3. Dishes(t)' = Unread(t)'
      BY <1>3, <2>3, <1>g DEF Empties, Unread, Dishes, Slots
    <3>4. Count(t)' <= seen[t] + rest' /\ seen[t] + rest' <= high
      BY <1>f, <1>g, <1>h, <3>2, <3>3 DEF Count
    <3> QED
      BY <1>q, <2>1, <3>4
  <2> QED
    BY <2>2, <2>3, <1>g DEF Slots
<1> QED
  BY <1>1, <1>2, <1>3, TrayChanges

(* The loop of print_tray_status moves one dish from the unread to the     *)
(* counted ones, or none.                                                  *)
LEMMA ReadKeepsBetween ==
    ASSUME TypeOK, StatusTypes, Read, NEW t \in Kinds, Between(t)
    PROVE  Between(t)'
<1> USE RestaurantAssumption DEF StatusTypes
<1>1. /\ next \in Slots /\ next' = next + 1 /\ UNCHANGED <<tray, held>>
      /\ seen'[t] = IF next \in Dishes(t) THEN seen[t] + 1 ELSE seen[t]
  BY DEF Read, vars, Dishes
<1>2. Dishes(t)' = Dishes(t) /\ Count(t)' = Count(t)
  BY <1>1 DEF Dishes, Count
<1>3. Unread(t)' = Unread(t) \ {next} /\ (next \in Unread(t) <=> next \in Dishes(t))
  BY <1>1, <1>2 DEF Unread, Dishes, Slots
<1>4. /\ Cardinality(Unread(t)') =
             IF next \in Dishes(t) THEN Cardinality(Unread(t)) - 1 ELSE Cardinality(Unread(t))
      /\ Cardinality(Unread(t)) \in Nat
  BY ZenonT(30), <1>3, UnreadIsFinite, FS_RemoveElement
<1>5. seen'[t] + Cardinality(Unread(t)') = seen[t] + Cardinality(Unread(t)) /\ seen'[t] < next'
  BY <1>1, <1>4 DEF Between, Slots
<1> QED
  BY <1>1, <1>2, <1>5 DEF Between

(* Every step keeps what the loop knows.                                   *)
LEMMA StatusInductive ==
    TypeOK /\ FirstFound /\ StatusInv /\ [StatusNext]_<<vars, status>> => StatusInv'
<1> SUFFICES ASSUME TypeOK, FirstFound, StatusInv, [StatusNext]_<<vars, status>>
             PROVE  StatusInv'
  OBVIOUS
<1> USE RestaurantAssumption
<1>1. CASE Others
  <2>1. \A t \in Kinds : Count(t)' \in Nat
    <3> TAKE t \in Kinds
    <3>1. IsFiniteSet(Dishes(t)')
      BY FS_Interval, FS_Subset DEF Dishes, Slots
    <3> QED
      BY <3>1, FS_CardinalityType DEF Count
  <2>2. StatusTypes'
    BY <1>1, <2>1 DEF Others, StatusInv, StatusTypes
  <2>3. ASSUME next # 0, NEW t \in Kinds PROVE Between(t)'
    <3>1. /\ Next /\ UNCHANGED <<next, seen>> /\ held'[t] = held[t] \cup {Count(t)'}
      BY <1>1, <2>3 DEF Others
    <3> QED
      BY <2>3, <3>1, OthersKeepBetween DEF StatusInv
  <2> QED
    BY <1>1, <2>2, <2>3 DEF StatusInv, Others
<1>2. CASE Begin
  <2>1. ASSUME NEW t \in Kinds PROVE Between(t)'
    <3>1. Dishes(t)' = Dishes(t) /\ Count(t)' = Count(t) /\ Count(t) \in Nat
      BY <1>2, CountsAreFinite DEF Begin, vars, Dishes, Count
    <3>2. next' = 1 /\ seen'[t] = 0 /\ held'[t] = {Count(t)}
      BY <1>2 DEF Begin
    <3>3. Unread(t)' = Dishes(t)
      BY <3>1, <3>2 DEF Unread, Dishes, Slots
    <3>4. Cardinality(Unread(t)') = Count(t)
      BY <3>3 DEF Count
    <3> QED
      BY <3>1, <3>2, <3>4 DEF Between, NoGaps
  <2>2. StatusTypes'
    BY <1>2, CountsAreFinite DEF Begin, StatusTypes, Count
  <2> QED
    BY <2>1, <2>2 DEF StatusInv
<1>3. CASE Read
  <2>1. next # 0 /\ StatusTypes'
    BY <1>3 DEF Read, StatusInv, StatusTypes, Slots
  <2> QED
    BY <1>3, <2>1, ReadKeepsBetween DEF StatusInv
<1>4. CASE Report
  BY <1>4 DEF Report, StatusInv, StatusTypes
<1>5. CASE UNCHANGED <<vars, status>>
  BY <1>5 DEF vars, status, StatusInv, StatusTypes, Between, Unread, Count, Dishes
<1> QED
  BY <1>1, <1>2, <1>3, <1>4, <1>5 DEF StatusNext

(* The invariant in every state of the restaurant with its main process.   *)
THEOREM StatusHolds == StatusSpec => [](TypeOK /\ MutualExclusion /\ FirstFound /\ StatusInv)
<1>1. StatusInit => TypeOK /\ MutualExclusion /\ FirstFound /\ StatusInv
  <2>1. StatusInit => TypeOK
    <3>1. Init => TypeOK
      BY RestaurantAssumption DEF Init, TypeOK, Places, Kinds, Slots
    <3> QED
      BY <3>1 DEF StatusInit
  <2>2. StatusInit => MutualExclusion
    BY RestaurantAssumption DEF StatusInit, Init, MutualExclusion, Holders, At, Kinds
  <2>3. StatusInit => FirstFound /\ StatusInv
    BY RestaurantAssumption DEF StatusInit, Init, FirstFound, StatusInv, StatusTypes
  <2> QED
    BY <2>1, <2>2, <2>3
<1>2. [StatusNext]_<<vars, status>> => [Next]_vars
  BY DEF StatusNext, Others, Begin, Read, Report, vars
<1> QED
  BY <1>1, <1>2, TypeInductive, MutexInductive, FirstInductive, StatusInductive, PTL
     DEF StatusSpec

(* print_tray_status reads without the mutex, and yet prints a number of   *)
(* dishes that was on the tray at some moment of its loop.                 *)
THEOREM CountsAreReal == StatusSpec => []CountIsReal
<1>1. TypeOK /\ StatusInv => CountIsReal
  <2> SUFFICES ASSUME StatusInv, next = TRAY_SIZE + 1, NEW t \in Kinds
               PROVE  seen[t] \in held[t]
    BY DEF CountIsReal
  <2>1. Between(t) /\ seen[t] \in Nat /\ held[t] \in SUBSET Nat
    BY RestaurantAssumption DEF StatusInv, StatusTypes
  <2>2. Unread(t) = {}
    BY RestaurantAssumption DEF Unread, Dishes, Slots
  <2>3. Cardinality(Unread(t)) = 0
    BY <2>2, FS_EmptySet
  <2> QED
    BY <2>1, <2>3 DEF Between, NoGaps
<1> QED
  BY <1>1, StatusHolds, PTL
=============================================================================
