---------------------------- MODULE Conversation ----------------------------
(***************************************************************************)
(* What a connection of the chat promises to the two people who use it,    *)
(* whatever TCP does with the bytes: each hears what the other said, in    *)
(* order and without gaps, and stops listening for a reason.               *)
(***************************************************************************)
EXTENDS Naturals, Sequences

CONSTANTS
    Parties, Other(_),   \* the two ends
    Parts,            \* what may be said at a time, as sequences
    Command           \* the sequence that asks the other end to stop listening

VARIABLES
    state,     \* of each end: "talking", "noticed" (stopped listening) or "left"
    unheard    \* what it said and the other end has not heard yet

cvars == <<state, unheard>>

Prefix(s, t) == Len(s) <= Len(t) /\ s = SubSeq(t, 1, Len(s))

Init ==
    /\ state = [e \in Parties |-> "talking"]
    /\ unheard = [e \in Parties |-> <<>>]

Say(e) ==
    /\ state[e] # "left"
    /\ \E m \in Parts : unheard' = [unheard EXCEPT ![e] = @ \o m]
    /\ UNCHANGED state

Hear(e) ==
    /\ state[e] # "noticed"
    /\ \E n \in 1..Len(unheard[Other(e)]) :
         unheard' = [unheard EXCEPT ![Other(e)] = SubSeq(@, n + 1, Len(@))]
    /\ UNCHANGED state

(* The three reasons to stop listening: the next thing to hear is the      *)
(* command; the other end left and all it said was heard; it left without  *)
(* listening to the end, and what it said last may be lost.                *)
Notice(e) ==
    /\ state[e] = "talking"
    /\ \/ Prefix(Command, unheard[Other(e)])
       \/ state[Other(e)] = "left" /\ unheard[Other(e)] = <<>>
       \/ state[Other(e)] = "left" /\ unheard[e] # <<>>
    /\ state' = [state EXCEPT ![e] = "noticed"]
    /\ UNCHANGED unheard

Leave(e) ==
    /\ state[e] # "left"
    /\ state' = [state EXCEPT ![e] = "left"]
    /\ UNCHANGED unheard

Next == \E e \in Parties : Say(e) \/ Hear(e) \/ Notice(e) \/ Leave(e)

Spec == Init /\ [][Next]_cvars
====
