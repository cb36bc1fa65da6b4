---------------------------- MODULE BoundedQueue ----------------------------
(***************************************************************************)
(* What a bounded buffer promises: a first-in first-out queue of at most   *)
(* Capacity items.  taken is the last item each consumer was handed.       *)
(***************************************************************************)
EXTENDS Naturals, Sequences

CONSTANTS Items, Consumers, Capacity, Nothing

VARIABLES queue, taken

Init ==
    /\ queue = <<>>
    /\ taken = [c \in Consumers |-> Nothing]

Put(x) ==
    /\ Len(queue) < Capacity
    /\ queue' = Append(queue, x)
    /\ UNCHANGED taken

Get(c) ==
    /\ queue # <<>>
    /\ taken' = [taken EXCEPT ![c] = Head(queue)]
    /\ queue' = Tail(queue)

Next == (\E x \in Items : Put(x)) \/ (\E c \in Consumers : Get(c))

Spec == Init /\ [][Next]_<<queue, taken>>
====
