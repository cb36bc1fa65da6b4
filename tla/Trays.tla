------------------------------- MODULE Trays -------------------------------
(***************************************************************************)
(* What the two trays promise, whoever uses them: dishes are added one at  *)
(* a time while there is room and eaten one at a time while there are any. *)
(***************************************************************************)
EXTENDS Naturals

CONSTANTS Kinds, Size

VARIABLE count   \* dishes on each tray

Init == count = [t \in Kinds |-> 0]

Add(t) == count[t] < Size /\ count' = [count EXCEPT ![t] = @ + 1]

Eat(t) == count[t] > 0 /\ count' = [count EXCEPT ![t] = @ - 1]

Next == \E t \in Kinds : Add(t) \/ Eat(t)

Spec == Init /\ [][Next]_count
====
