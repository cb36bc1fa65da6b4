--------------------------- MODULE P2PLinkProofs ---------------------------
(* Proofs about two chats at the two ends of one connection: for buffers   *)
(* of any size, whatever the two users do.                                 *)
EXTENDS P2PLink, TLAPS, SequenceTheorems

(* What send() may still have to copy.                                     *)
Rests == {<<>>, <<"text">>, <<"DISCONNECT">>, Command}

(* The type of every variable the bytes and the two users depend on.       *)
LinkTypes ==
    /\ mpc \in [Sides -> {"prompt", "dispatch", "sending", "termJoin", "exitListener",
                          "exitJoin", "ended"}]
    /\ mcmd \in [Sides -> Commands \cup {"none"}]
    /\ out \in [Sides -> Rests]
    /\ listed \in [Sides -> BOOLEAN]
    /\ should_remove \in [Sides -> BOOLEAN]
    /\ rpc \in [Sides -> {"recv", "finish", "done"}]
    /\ sock \in [Sides -> {"open", "closed"}]
    /\ eof \in [Sides -> {"no", "fin", "rst", "dead"}]
    /\ wire \in [Sides -> Seq(Pieces)]
    /\ unheard \in [Sides -> Seq(Pieces)]

(* Something follows the stream of an end exactly when that end is closed, *)
(* and a command finds the connection only while it is open.               *)
EndInv ==
    \A s \in Sides :
        /\ eof[s] = "no" <=> sock[s] = "open"
        /\ listed[s] /\ mpc[s] \in {"prompt", "dispatch", "sending"} => sock[s] = "open"
        /\ mpc[s] = "sending" => listed[s]

(* The sequence w begins the sequence u.                                   *)
Begins(w, u) == Len(w) <= Len(u) /\ \A i \in 1 .. Len(w) : w[i] = u[i]

(* What can still be read is never more than what has not been heard.  As  *)
(* long as somebody reads it is the beginning of that, and all of it       *)
(* unless a reset overtook the rest; and a reset leaves behind, on the     *)
(* other side, something that nobody will hear.                            *)
StreamInv ==
    \A s \in Sides :
        /\ Len(wire[s]) <= Len(unheard[s])
        /\ rpc[Other(s)] = "recv" => Begins(wire[s], unheard[s])
        /\ rpc[Other(s)] = "recv" /\ {eof[s], eof[Other(s)]} \subseteq {"no", "fin"} =>
             Len(wire[s]) = Len(unheard[s])
        /\ eof[Other(s)] \in {"rst", "dead"} => wire[s] = <<>> /\ unheard[s] # <<>>

LinkInv == LinkTypes /\ EndInv /\ StreamInv

-----------------------------------------------------------------------------
(* Sequences of pieces.                                                    *)

(* What the first n pieces of a sequence are, and what is left of it.      *)
LEMMA Cut ==
    ASSUME NEW q \in Seq(Pieces), NEW n \in 0 .. Len(q)
    PROVE  /\ SubSeq(q, 1, n) \in Seq(Pieces) /\ Len(SubSeq(q, 1, n)) = n
           /\ \A i \in 1 .. n : SubSeq(q, 1, n)[i] = q[i]
           /\ Beyond(q, n) \in Seq(Pieces) /\ Len(Beyond(q, n)) = Len(q) - n
           /\ \A i \in 1 .. Len(q) - n : Beyond(q, n)[i] = q[n + i]
<1>1. Len(q) \in Nat /\ n \in Nat /\ n <= Len(q) /\ \A i \in 1 .. Len(q) : q[i] \in Pieces
  BY LenProperties, ElementOfSeq
<1>2. \A i \in 1 .. n : q[i] \in Pieces
  BY <1>1
<1>3. \A i \in n + 1 .. Len(q) : q[i] \in Pieces
  BY <1>1
<1>4. /\ SubSeq(q, 1, n) \in Seq(Pieces)
      /\ Len(SubSeq(q, 1, n)) = IF 1 <= n THEN n - 1 + 1 ELSE 0
      /\ \A i \in 1 .. n - 1 + 1 : SubSeq(q, 1, n)[i] = q[1 + i - 1]
  BY <1>1, <1>2, SubSeqProperties, 1 \in Int, n \in Int
<1>5. /\ SubSeq(q, n + 1, Len(q)) \in Seq(Pieces)
      /\ Len(SubSeq(q, n + 1, Len(q))) = IF n + 1 <= Len(q) THEN Len(q) - (n + 1) + 1 ELSE 0
      /\ \A i \in 1 .. Len(q) - (n + 1) + 1 : SubSeq(q, n + 1, Len(q))[i] = q[n + 1 + i - 1]
  BY <1>1, <1>3, SubSeqProperties, n + 1 \in Int, Len(q) \in Int
<1>6. Len(SubSeq(q, 1, n)) = n /\ \A i \in 1 .. n : SubSeq(q, 1, n)[i] = q[i]
  BY <1>1, <1>4
<1>7. /\ Len(SubSeq(q, n + 1, Len(q))) = Len(q) - n
      /\ \A i \in 1 .. Len(q) - n : SubSeq(q, n + 1, Len(q))[i] = q[n + i]
  BY <1>1, <1>5
<1> QED
  BY <1>4, <1>5, <1>6, <1>7 DEF Beyond

(* What begins a sequence still does when both lose the same, and when it  *)
(* is cut.                                                                 *)
LEMMA BeginsTogether ==
    ASSUME NEW w \in Seq(Pieces), NEW u \in Seq(Pieces), Begins(w, u), NEW n \in 0 .. Len(w)
    PROVE  Begins(Beyond(w, n), Beyond(u, n)) /\ Begins(SubSeq(w, 1, n), u)
<1>1. Len(w) \in Nat /\ Len(u) \in Nat /\ n \in Nat /\ n <= Len(w) /\ Len(w) <= Len(u)
  BY LenProperties DEF Begins
<1>2. n \in 0 .. Len(u)
  BY <1>1
<1>3. /\ Len(Beyond(w, n)) = Len(w) - n /\ Len(Beyond(u, n)) = Len(u) - n
      /\ \A i \in 1 .. Len(w) - n : Beyond(w, n)[i] = w[n + i]
      /\ \A i \in 1 .. Len(u) - n : Beyond(u, n)[i] = u[n + i]
      /\ Len(SubSeq(w, 1, n)) = n /\ \A i \in 1 .. n : SubSeq(w, 1, n)[i] = w[i]
  BY <1>2, Cut
<1>4. \A i \in 1 .. Len(w) : w[i] = u[i]
  BY DEF Begins
<1>5. ASSUME NEW i \in 1 .. Len(w) - n PROVE Beyond(w, n)[i] = Beyond(u, n)[i]
  <2>1. n + i \in 1 .. Len(w) /\ i \in 1 .. Len(u) - n
    BY <1>1
  <2> QED
    BY <2>1, <1>3, <1>4
<1>6. ASSUME NEW i \in 1 .. n PROVE SubSeq(w, 1, n)[i] = u[i]
  <2>1. i \in 1 .. Len(w)
    BY <1>1
  <2> QED
    BY <2>1, <1>3, <1>4
<1>7. Len(w) - n <= Len(u) - n /\ n <= Len(u)
  BY <1>1
<1> QED
  BY <1>3, <1>5, <1>6, <1>7 DEF Begins

(* What is all of a sequence is so still when both go on alike.            *)
LEMMA BeginsLonger ==
    ASSUME NEW w \in Seq(Pieces), NEW u \in Seq(Pieces), NEW p \in Seq(Pieces), Begins(w, u),
           Len(w) = Len(u)
    PROVE  Begins(w \o p, u \o p) /\ Len(w \o p) = Len(u \o p)
<1>1. Len(w) \in Nat /\ Len(p) \in Nat
  BY LenProperties
<1> DEFINE k == Len(u)
<1>5. /\ Len(u \o p) = k + Len(p)
      /\ \A i \in 1 .. k + Len(p) : (u \o p)[i] = IF i <= k THEN u[i] ELSE p[i - k]
  BY ConcatProperties
<1>6. k = Len(w)
  OBVIOUS
<1> HIDE DEF k
<1>2. /\ Len(w \o p) = Len(w) + Len(p) /\ Len(u \o p) = Len(w) + Len(p)
      /\ \A i \in 1 .. Len(w) + Len(p) :
           (w \o p)[i] = IF i <= Len(w) THEN w[i] ELSE p[i - Len(w)]
      /\ \A i \in 1 .. Len(w) + Len(p) :
           (u \o p)[i] = IF i <= Len(w) THEN u[i] ELSE p[i - Len(w)]
  BY ConcatProperties, <1>5, <1>6
<1>3. ASSUME NEW i \in 1 .. Len(w) + Len(p) PROVE (w \o p)[i] = (u \o p)[i]
  <2>1. CASE i <= Len(w)
    <3>1. i \in 1 .. Len(w)
      BY <1>1, <2>1
    <3> QED
      BY <1>2, <2>1, <3>1 DEF Begins
  <2> QED
    BY <1>2, <2>1
<1>4. Len(w \o p) <= Len(u \o p)
  BY <1>1, <1>2
<1> QED
  BY <1>2, <1>3, <1>4 DEF Begins

(* What send() copies at a time is one part of a text or the whole.        *)
LEMMA CopiesParts ==
    ASSUME NEW q \in Rests, NEW n \in 1 .. Len(q)
    PROVE  /\ SubSeq(q, 1, n) \in {Command} \cup {<<p>> : p \in Pieces}
           /\ SubSeq(q, 1, n) \in Seq(Pieces) /\ Len(SubSeq(q, 1, n)) > 0
           /\ Beyond(q, n) \in Rests
<1>9. /\ \A p \in Pieces : <<p>> \in Seq(Pieces) /\ Len(<<p>>) = 1 /\ <<p>>[1] = p
      /\ Len(<<>>) = 0 /\ <<>> \in Seq(Pieces)
  OBVIOUS
<1>10. /\ Command \in Seq(Pieces)
       /\ Len(Command) = 2 /\ Command[1] = "CMD:" /\ Command[2] = "DISCONNECT"
  BY DEF Command, Pieces
<1>11. "text" \in Pieces /\ "DISCONNECT" \in Pieces
  BY DEF Pieces
<1>12. q \in Seq(Pieces)
  BY <1>9, <1>10, <1>11 DEF Rests
<1>13. n \in 0 .. Len(q) /\ n > 0 /\ Len(q) \in Nat
  BY <1>12, LenProperties
<1>1. q \in Seq(Pieces) /\ n \in 0 .. Len(q) /\ n > 0 /\ Command \in Seq(Pieces)
      /\ \A p \in Pieces : <<p>> \in Seq(Pieces) /\ Len(<<p>>) = 1 /\ <<p>>[1] = p
      /\ Len(Command) = 2 /\ Command[1] = "CMD:" /\ Command[2] = "DISCONNECT"
      /\ Len(<<>>) = 0 /\ <<>> \in Seq(Pieces)
  BY <1>9, <1>10, <1>12, <1>13
<1> DEFINE a == SubSeq(q, 1, n)
           b == Beyond(q, n)
<1>2. /\ a \in Seq(Pieces) /\ Len(a) = n /\ \A i \in 1 .. n : a[i] = q[i]
      /\ b \in Seq(Pieces) /\ Len(b) = Len(q) - n /\ \A i \in 1 .. Len(q) - n : b[i] = q[n + i]
  BY <1>1, Cut
<1> HIDE DEF a, b
<1>3. q # <<>>
  BY <1>1
<1>4. ASSUME NEW p \in Pieces, p \in {"text", "DISCONNECT"}, q = <<p>>
      PROVE  a = <<p>> /\ b = <<>>
  <2>1. n = 1 /\ Len(q) = 1 /\ Len(b) = 0 /\ a[1] = p
    BY <1>1, <1>2, <1>4
  <2> QED
    BY <1>1, <1>2, <2>1, SeqEqual
<1>5. CASE q = Command /\ n = 1
  <2>1. Len(b) = 1 /\ a[1] = "CMD:" /\ b[1] = "DISCONNECT"
    BY <1>1, <1>2, <1>5
  <2>2. "CMD:" \in Pieces /\ "DISCONNECT" \in Pieces
    BY DEF Pieces
  <2>3. a = <<"CMD:">>
    BY <1>1, <1>2, <1>5, <2>1, <2>2, SeqEqual
  <2>4. b = <<"DISCONNECT">>
    BY <1>1, <1>2, <1>5, <2>1, <2>2, SeqEqual
  <2> QED
    BY <1>1, <1>2, <2>2, <2>3, <2>4 DEF a, b, Rests
<1>6. CASE q = Command /\ n = 2
  <2>1. Len(b) = 0 /\ Len(a) = 2 /\ a[1] = Command[1] /\ a[2] = Command[2]
    BY <1>1, <1>2, <1>6
  <2>2. \A i \in 1 .. Len(a) : a[i] = Command[i]
    BY <2>1
  <2>3. a = Command
    BY <1>1, <1>2, <2>1, <2>2, SeqEqual
  <2>4. b = <<>>
    BY <1>1, <1>2, <2>1, SeqEqual
  <2> QED
    BY <1>1, <1>2, <2>3, <2>4, <1>6 DEF a, b, Rests
<1>7. q = Command => n \in {1, 2}
  BY <1>1
<1>8. q = Command \/ \E p \in Pieces : p \in {"text", "DISCONNECT"} /\ q = <<p>>
  BY <1>3 DEF Rests, Pieces
<1> QED
  BY <1>1, <1>2, <1>3, <1>4, <1>5, <1>6, <1>7, <1>8 DEF a, b, Rests, Pieces

-----------------------------------------------------------------------------
(* The invariant.                                                          *)

(* A send() that copies copies some of what is left.                       *)
LEMMA CopiedInRange ==
    ASSUME LinkTypes, NEW s \in Sides, Copied(s) > 0
    PROVE  Copied(s) \in 1 .. Len(out[s])
<1> DEFINE a == Len(out[s])
           b == Len(wire[s])
<1>1. Copied(s) = IF a <= Buffer - b THEN a ELSE Buffer - b
  BY DEF Copied, Room
<1>2. out[s] \in Rests /\ wire[s] \in Seq(Pieces)
  BY DEF LinkTypes
<1>3. b \in Nat /\ Buffer \in Nat
  BY <1>2, LinkAssumption, LenProperties
<1>4. a \in Nat
  BY <1>2 DEF Rests, Command
<1> HIDE DEF a, b
<1>5. Copied(s) \in 1 .. a
  BY <1>1, <1>3, <1>4
<1> QED
  BY <1>5 DEF a

(* Every step keeps the types.                                             *)
LEMMA TypesInductive == LinkTypes /\ [Next]_vars => LinkTypes'
<1> SUFFICES ASSUME LinkTypes, [Next]_vars PROVE LinkTypes'
  OBVIOUS
<1> USE LinkAssumption DEF LinkTypes, Set, Goto, Commands
<1>1. <<>> \in Rests /\ \A cmd : Bytes(cmd) \in Rests
  BY DEF Rests, Bytes
<1>2. ASSUME NEW s \in Sides, Ends(s) PROVE LinkTypes'
  BY <1>1, <1>2 DEF Ends, CloseSocket
<1>3. ASSUME NEW s \in Sides, NEW cmd \in Commands, ReadLine(s, cmd) PROVE LinkTypes'
  BY <1>3 DEF ReadLine, Reap, sockVars
<1>4. ASSUME NEW s \in Sides, SendBegin(s) PROVE LinkTypes'
  BY <1>1, <1>4 DEF SendBegin, nodeVars, sockVars
<1>5. ASSUME NEW s \in Sides, NobodyFound(s) PROVE LinkTypes'
  <2>1. CASE mcmd[s] = "exit"
    <3>1. mpc' = [mpc EXCEPT ![s] = "exitListener"] /\ UNCHANGED <<mcmd, out>>
      BY <1>5, <2>1 DEF NobodyFound
    <3> QED
      BY <1>5, <3>1 DEF NobodyFound, nodeVars, sockVars
  <2>2. CASE mcmd[s] # "exit"
    <3>1. Prompt(s)
      BY <1>5, <2>2 DEF NobodyFound
    <3> QED
      BY <1>1, <1>5, <3>1 DEF NobodyFound, Prompt, nodeVars, sockVars
  <2> QED
    BY <2>1, <2>2
<1>6. ASSUME NEW s \in Sides, Copy(s) PROVE LinkTypes'
  <2>2. Copied(s) \in 1 .. Len(out[s])
    BY <1>6, CopiedInRange DEF Copy
  <2>3. SubSeq(out[s], 1, Copied(s)) \in Seq(Pieces) /\ Beyond(out[s], Copied(s)) \in Rests
    BY <2>2, CopiesParts
  <2>4. /\ wire[s] \o SubSeq(out[s], 1, Copied(s)) \in Seq(Pieces)
        /\ unheard[s] \o SubSeq(out[s], 1, Copied(s)) \in Seq(Pieces)
    BY <2>3, ConcatProperties
  <2> QED
    BY <1>6, <2>3, <2>4 DEF Copy, nodeVars
<1>7. ASSUME NEW s \in Sides, SendFails(s) PROVE LinkTypes'
  <2>1. Other(s) \in Sides
    BY DEF Sides, Other
  <2> QED
    BY <1>1, <1>7, <2>1 DEF SendFails, nodeVars
<1>8. ASSUME NEW s \in Sides, SendDone(s) PROVE LinkTypes'
  BY <1>1, <1>8 DEF SendDone, Prompt, nodeVars, sockVars
<1>9. ASSUME NEW s \in Sides, NotifyDone(s) PROVE LinkTypes'
  BY <1>1, <1>9 DEF NotifyDone, CloseSocket
<1>10. ASSUME NEW s \in Sides, TerminateRemove(s) PROVE LinkTypes'
  BY <1>1, <1>10 DEF TerminateRemove, Prompt, sockVars
<1>11. ASSUME NEW s \in Sides, ExitLock(s) PROVE LinkTypes'
  BY <1>11 DEF ExitLock, nodeVars, sockVars
<1>12. ASSUME NEW s \in Sides, Read(s) PROVE LinkTypes'
  <2> DEFINE o == Other(s)
  <2>1. o \in Sides
    BY DEF Sides, Other
  <2>2. PICK n \in 1 .. Len(wire[o]) :
          /\ wire' = Set(wire, o, Beyond(wire[o], n))
          /\ IF IsDisconnect(SubSeq(wire[o], 1, n))
             THEN rpc' = Set(rpc, s, "finish") /\ UNCHANGED unheard
             ELSE rpc' = Set(rpc, s, Again(s)) /\ unheard' = Set(unheard, o, Beyond(unheard[o], n))
    BY <1>12 DEF Read
  <2>3. Beyond(wire[o], n) \in Seq(Pieces)
    BY <2>1, Cut, LenProperties
  <2>4. Beyond(unheard[o], n) \in Seq(Pieces)
    <3>1. Len(unheard[o]) \in Nat /\ \A i \in 1 .. Len(unheard[o]) : unheard[o][i] \in Pieces
      BY <2>1, LenProperties, ElementOfSeq
    <3>2. n + 1 \in Int /\ Len(unheard[o]) \in Int
          /\ \A i \in n + 1 .. Len(unheard[o]) : unheard[o][i] \in Pieces
      BY <3>1
    <3> QED
      BY <3>2, SubSeqProperties DEF Beyond
  <2>5. /\ wire' = [wire EXCEPT ![o] = Beyond(wire[o], n)]
        /\ unheard' \in {unheard, [unheard EXCEPT ![o] = Beyond(unheard[o], n)]}
        /\ \E place \in {"recv", "finish"} : rpc' = [rpc EXCEPT ![s] = place]
    BY <2>2 DEF Again
  <2>6. /\ wire' \in [Sides -> Seq(Pieces)]
        /\ unheard' \in [Sides -> Seq(Pieces)]
        /\ rpc' \in [Sides -> {"recv", "finish", "done"}]
    <3> HIDE DEF o
    <3>1. wire' \in [Sides -> Seq(Pieces)]
      BY <2>1, <2>3, <2>5
    <3>2. unheard' \in [Sides -> Seq(Pieces)]
      <4>1. CASE unheard' = [unheard EXCEPT ![o] = Beyond(unheard[o], n)]
        BY <2>1, <2>4, <4>1
      <4> QED
        BY <2>5, <4>1
    <3>3. rpc' \in [Sides -> {"recv", "finish", "done"}]
      BY <2>5
    <3> QED
      BY <3>1, <3>2, <3>3
  <2>7. UNCHANGED <<mpc, mcmd, out, listed, should_remove, sock, eof>>
    BY <1>12 DEF Read, mainVars, nodeVars
  <2> QED
    BY <2>6, <2>7
<1>13. ASSUME NEW s \in Sides, RecvEnd(s) PROVE LinkTypes'
  BY <1>13 DEF RecvEnd, mainVars, nodeVars, sockVars
<1>14. ASSUME NEW s \in Sides, RecvFinish(s) PROVE LinkTypes'
  BY <1>14 DEF RecvFinish, mainVars, sockVars
<1>15. ASSUME NEW s \in Sides, Reset(s) PROVE LinkTypes'
  <2> DEFINE o == Other(s)
  <2>1. o \in Sides
    BY DEF Sides, Other
  <2>2. PICK n \in 0 .. Len(wire[s]) :
          wire' = [wire EXCEPT ![s] = SubSeq(wire[s], 1, n), ![o] = <<>>]
    BY <1>15 DEF Reset
  <2>3. SubSeq(wire[s], 1, n) \in Seq(Pieces) /\ <<>> \in Seq(Pieces)
    BY Cut, EmptySeq
  <2> QED
    BY <1>15, <2>1, <2>2, <2>3 DEF Reset, mainVars, nodeVars
<1>16. CASE UNCHANGED vars
  BY <1>16 DEF vars, mainVars, nodeVars, sockVars
<1> HIDE DEF LinkTypes
<1> QED
  BY <1>2, <1>3, <1>4, <1>5, <1>6, <1>7, <1>8, <1>9, <1>10, <1>11, <1>12, <1>13, <1>14, <1>15, <1>16
     DEF Next, MainStep, RecvStep, UserStep, EndOfInput, SigPipe, ExitReturn

(* Ends are closed once, and found only before.                            *)
LEMMA EndInductive == LinkTypes /\ EndInv /\ [Next]_vars => EndInv'
<1> SUFFICES ASSUME LinkTypes, EndInv, [Next]_vars PROVE EndInv'
  OBVIOUS
<1> USE DEF LinkTypes, EndInv, Set, Goto
<1>2. ASSUME NEW s \in Sides, Ends(s) PROVE EndInv'
  BY <1>2 DEF Ends, CloseSocket
<1>3. ASSUME NEW s \in Sides, NEW cmd \in Commands, ReadLine(s, cmd) PROVE EndInv'
  BY <1>3 DEF ReadLine, Reap, sockVars
<1>4. ASSUME NEW s \in Sides, SendBegin(s) PROVE EndInv'
  BY <1>4 DEF SendBegin, Finds, nodeVars, sockVars
<1>5. ASSUME NEW s \in Sides, NobodyFound(s) PROVE EndInv'
  <2>1. \/ mpc' = [mpc EXCEPT ![s] = "exitListener"]
        \/ mpc' = [mpc EXCEPT ![s] = "prompt"]
    BY <1>5 DEF NobodyFound, Prompt
  <2>2. mpc[s] = "dispatch" /\ UNCHANGED <<listed, sock, eof>>
    BY <1>5 DEF NobodyFound, nodeVars, sockVars
  <2> QED
    BY <2>1, <2>2
<1>6. ASSUME NEW s \in Sides, Copy(s) PROVE EndInv'
  BY <1>6 DEF Copy, nodeVars
<1>7. ASSUME NEW s \in Sides, SendFails(s) PROVE EndInv'
  <2>1. eof' = eof \/ eof' = [eof EXCEPT ![Other(s)] = "dead"]
    BY <1>7 DEF SendFails
  <2>2. Other(s) \in Sides /\ eof[Other(s)] = "rst" /\ UNCHANGED <<mpc, listed, sock>>
    BY <1>7 DEF SendFails, nodeVars, Sides, Other
  <2> QED
    BY <2>1, <2>2
<1>8. ASSUME NEW s \in Sides, SendDone(s) PROVE EndInv'
  BY <1>8 DEF SendDone, Sent, Prompt, nodeVars, sockVars
<1>9. ASSUME NEW s \in Sides, NotifyDone(s) PROVE EndInv'
  BY <1>9 DEF NotifyDone, CloseSocket
<1>10. ASSUME NEW s \in Sides, TerminateRemove(s) PROVE EndInv'
  BY <1>10 DEF TerminateRemove, Prompt, sockVars
<1>11. ASSUME NEW s \in Sides, ExitLock(s) PROVE EndInv'
  BY <1>11 DEF ExitLock, nodeVars, sockVars
<1>12. ASSUME NEW s \in Sides, RecvStep(s) PROVE EndInv'
  <2>1. UNCHANGED <<mpc, listed, sock, eof>>
    BY <1>12 DEF RecvStep, Read, RecvEnd, RecvFinish, mainVars, nodeVars, sockVars
  <2> QED
    BY <2>1
<1>13. ASSUME NEW s \in Sides, Reset(s) PROVE EndInv'
  <2>1. sock[s] = "closed" /\ eof' = [eof EXCEPT ![s] = "rst"] /\ UNCHANGED <<mpc, listed, sock>>
    BY <1>13 DEF Reset, mainVars, nodeVars
  <2> QED
    BY <2>1
<1>14. CASE UNCHANGED vars
  BY <1>14 DEF vars, mainVars, nodeVars, sockVars
<1> HIDE DEF EndInv
<1> QED
  BY <1>2, <1>3, <1>4, <1>5, <1>6, <1>7, <1>8, <1>9, <1>10, <1>11, <1>12, <1>13, <1>14
     DEF Next, MainStep, UserStep, EndOfInput, SigPipe, ExitReturn

(* A main thread that sends has an open socket, and its stream no end yet. *)
LEMMA SendersAreOpen ==
    ASSUME LinkTypes, EndInv, NEW s \in Sides, mpc[s] = "sending"
    PROVE  sock[s] = "open" /\ eof[s] = "no"
BY DEF LinkTypes, EndInv

(* Steps that leave the bytes alone.                                       *)
LEMMA BytesAlone ==
    ASSUME LinkTypes, StreamInv, UNCHANGED <<wire, unheard>>,
           \A s \in Sides : rpc'[s] = "recv" => rpc[s] = "recv",
           \A s \in Sides : /\ eof'[s] \in {"no", "fin"} => eof[s] \in {"no", "fin"}
                            /\ eof'[s] \in {"rst", "dead"} => eof[s] \in {"rst", "dead"}
    PROVE  StreamInv'
<1>1. \A s \in Sides : Other(s) \in Sides
  BY DEF Sides, Other
<1>2. ASSUME NEW s \in Sides, rpc'[Other(s)] = "recv", {eof'[s], eof'[Other(s)]} \subseteq {"no", "fin"}
      PROVE  Len(wire[s]) = Len(unheard[s])
  BY <1>1, <1>2 DEF StreamInv
<1> QED
  BY <1>1, <1>2 DEF StreamInv, Begins

(* A read that begins with the command finds it first in what is unheard.  *)
LEMMA CommandAhead ==
    ASSUME NEW w \in Seq(Pieces), NEW u \in Seq(Pieces), Begins(w, u), NEW n \in 1 .. Len(w),
           IsDisconnect(SubSeq(w, 1, n))
    PROVE  Talk!Prefix(Command, u)
<1>1. Len(w) \in Nat /\ Len(u) \in Nat /\ n \in 0 .. Len(w) /\ Len(w) <= Len(u)
  BY LenProperties DEF Begins
<1> DEFINE r == SubSeq(w, 1, n)
<1>2. r \in Seq(Pieces) /\ Len(r) = n /\ (\A i \in 1 .. n : r[i] = w[i]) /\ n <= Len(w)
  <2>1. r \in Seq(Pieces) /\ Len(r) = n /\ \A i \in 1 .. n : r[i] = w[i]
    BY Zenon, <1>1, Cut
  <2>2. n <= Len(w)
    BY <1>1
  <2> QED
    BY <2>1, <2>2
<1>3. Len(r) >= 2 /\ SubSeq(r, 1, 2) = Command
  BY DEF IsDisconnect
<1> HIDE DEF r
<1>4. 2 \in 0 .. Len(r) /\ 2 \in 0 .. Len(u) /\ n >= 2
  BY <1>1, <1>2, <1>3
<1>5. /\ Len(SubSeq(u, 1, 2)) = 2 /\ SubSeq(u, 1, 2) \in Seq(Pieces)
      /\ \A i \in 1 .. 2 : SubSeq(u, 1, 2)[i] = u[i] /\ SubSeq(r, 1, 2)[i] = r[i]
      /\ Len(SubSeq(r, 1, 2)) = 2 /\ SubSeq(r, 1, 2) \in Seq(Pieces)
  BY <1>2, <1>4, Cut
<1>6. \A i \in 1 .. 2 : i \in 1 .. n /\ i \in 1 .. Len(w)
  BY <1>1, <1>4
<1>7. ASSUME NEW i \in 1 .. 2 PROVE SubSeq(u, 1, 2)[i] = SubSeq(r, 1, 2)[i]
  <2>1. w[i] = u[i]
    BY <1>6 DEF Begins
  <2>2. r[i] = w[i]
    BY <1>2, <1>6
  <2> QED
    BY <1>5, <2>1, <2>2
<1>8. SubSeq(u, 1, 2) = SubSeq(r, 1, 2)
  BY <1>5, <1>7, SeqEqual
<1>9. Len(Command) = 2 /\ 2 <= Len(u)
  BY <1>1, <1>2, <1>4 DEF Command
<1> QED
  BY <1>3, <1>8, <1>9 DEF Talk!Prefix

(* Copying, reading and a reset, and the steps that leave the bytes alone. *)
LEMMA StreamInductive == LinkTypes /\ EndInv /\ StreamInv /\ [Next]_vars => StreamInv'
<1> SUFFICES ASSUME LinkTypes, EndInv, StreamInv, [Next]_vars PROVE StreamInv'
  OBVIOUS
<1> USE DEF Set, Goto
<1>0. \A s \in Sides : Other(s) \in Sides /\ Other(s) # s /\ Other(Other(s)) = s
                     /\ \A x \in Sides : x = s \/ x = Other(s)
  BY DEF Sides, Other
<1>t. \A s \in Sides : /\ wire[s] \in Seq(Pieces) /\ unheard[s] \in Seq(Pieces)
                       /\ Len(wire[s]) \in Nat /\ Len(unheard[s]) \in Nat
  BY LenProperties DEF LinkTypes
<1>2. ASSUME NEW s \in Sides, Ends(s) PROVE StreamInv'
  <2>1. /\ UNCHANGED <<wire, unheard>> /\ rpc' = [rpc EXCEPT ![s] = "done"]
        /\ eof' = [eof EXCEPT ![s] = IF eof[s] = "no" THEN "fin" ELSE eof[s]]
    BY <1>2 DEF Ends, CloseSocket
  <2>2. \A x \in Sides : rpc'[x] = "recv" => rpc[x] = "recv"
    BY <2>1 DEF LinkTypes
  <2>3. \A x \in Sides : /\ eof'[x] \in {"no", "fin"} => eof[x] \in {"no", "fin"}
                         /\ eof'[x] \in {"rst", "dead"} => eof[x] \in {"rst", "dead"}
    BY <2>1 DEF LinkTypes
  <2> QED
    BY <2>1, <2>2, <2>3, BytesAlone
<1>3. ASSUME NEW s \in Sides, NotifyDone(s) PROVE StreamInv'
  <2>1. /\ UNCHANGED <<wire, unheard, rpc>>
        /\ eof' = [eof EXCEPT ![s] = IF eof[s] = "no" THEN "fin" ELSE eof[s]]
    BY <1>3 DEF NotifyDone, CloseSocket
  <2>2. \A x \in Sides : /\ eof'[x] \in {"no", "fin"} => eof[x] \in {"no", "fin"}
                         /\ eof'[x] \in {"rst", "dead"} => eof[x] \in {"rst", "dead"}
    BY <2>1 DEF LinkTypes
  <2> QED
    BY <2>1, <2>2, BytesAlone
<1>4. ASSUME NEW s \in Sides, SendFails(s) PROVE StreamInv'
  <2>1. /\ UNCHANGED <<wire, unheard, rpc>> /\ eof[Other(s)] = "rst"
        /\ eof' = eof \/ eof' = [eof EXCEPT ![Other(s)] = "dead"]
    BY <1>4 DEF SendFails
  <2>2. \A x \in Sides : /\ eof'[x] \in {"no", "fin"} => eof[x] \in {"no", "fin"}
                         /\ eof'[x] \in {"rst", "dead"} => eof[x] \in {"rst", "dead"}
    BY <1>0, <2>1 DEF LinkTypes
  <2> QED
    BY <2>1, <2>2, BytesAlone
<1>5. ASSUME NEW s \in Sides, RecvEnd(s) \/ RecvFinish(s) PROVE StreamInv'
  <2>1. /\ UNCHANGED <<wire, unheard, eof>>
        /\ rpc' = [rpc EXCEPT ![s] = "finish"] \/ rpc' = [rpc EXCEPT ![s] = "done"]
    BY <1>5 DEF RecvEnd, RecvFinish, sockVars
  <2>2. \A x \in Sides : rpc'[x] = "recv" => rpc[x] = "recv"
    BY <2>1 DEF LinkTypes
  <2> QED
    BY <2>1, <2>2, BytesAlone
<1>6. ASSUME UNCHANGED <<wire, unheard, eof, rpc>> PROVE StreamInv'
  BY <1>6, BytesAlone
<1>7. ASSUME NEW s \in Sides, Copy(s) PROVE StreamInv'
  <2> DEFINE p == SubSeq(out[s], 1, Copied(s))
  <2>1. /\ wire' = [wire EXCEPT ![s] = wire[s] \o p] /\ UNCHANGED <<eof, rpc>>
        /\ unheard' = [unheard EXCEPT ![s] = unheard[s] \o p]
        /\ eof[Other(s)] \in {"no", "fin"} /\ mpc[s] = "sending"
    BY <1>7 DEF Copy
  <2>2. eof[s] = "no"
    BY <2>1, SendersAreOpen
  <2>3. p \in Seq(Pieces) /\ Len(p) \in Nat
    <3>1. out[s] \in Rests /\ Copied(s) > 0
      BY <1>7 DEF LinkTypes, Copy
    <3>3. Copied(s) \in 1 .. Len(out[s])
      BY <3>1, CopiedInRange
    <3> QED
      BY <3>1, <3>3, CopiesParts, LenProperties
  <2> HIDE DEF p
  <2>4. /\ wire'[s] = wire[s] \o p /\ unheard'[s] = unheard[s] \o p
        /\ wire'[Other(s)] = wire[Other(s)] /\ unheard'[Other(s)] = unheard[Other(s)]
    BY <1>0, <2>1 DEF LinkTypes
  <2>5. Len(wire'[s]) = Len(wire[s]) + Len(p) /\ Len(unheard'[s]) = Len(unheard[s]) + Len(p)
    BY <1>t, <2>3, <2>4, ConcatProperties
  <2>6. Len(wire'[s]) <= Len(unheard'[s])
    BY <1>t, <2>3, <2>5 DEF StreamInv
  <2>7. ASSUME rpc[Other(s)] = "recv"
        PROVE  Begins(wire'[s], unheard'[s]) /\ Len(wire'[s]) = Len(unheard'[s])
    <3>1. Begins(wire[s], unheard[s]) /\ Len(wire[s]) = Len(unheard[s])
      BY <2>1, <2>2, <2>7 DEF StreamInv
    <3>2. wire[s] \in Seq(Pieces) /\ unheard[s] \in Seq(Pieces)
      BY <1>t
    <3>3. /\ Begins(wire[s] \o p, unheard[s] \o p)
          /\ Len(wire[s] \o p) = Len(unheard[s] \o p)
      BY <2>3, <3>1, <3>2, BeginsLonger
    <3> QED
      BY <2>4, <3>3
  <2>8. ~(eof[Other(s)] \in {"rst", "dead"}) /\ ~(eof[s] \in {"rst", "dead"})
    BY <2>1, <2>2
  <2> QED
    BY <1>0, <2>1, <2>4, <2>6, <2>7, <2>8 DEF StreamInv
<1>8. ASSUME NEW s \in Sides, Read(s) PROVE StreamInv'
  <2> DEFINE o == Other(s)
             w == wire[o]
             u == unheard[o]
  <2>0. o \in Sides /\ Other(o) = s /\ o # s /\ Other(s) = o
    BY <1>0
  <2>1. /\ rpc[s] = "recv" /\ eof' = eof
        /\ \E n \in 1 .. Len(w) :
             /\ wire' = [wire EXCEPT ![o] = Beyond(w, n)]
             /\ \/ rpc' = [rpc EXCEPT ![s] = "finish"] /\ unheard' = unheard
                \/ unheard' = [unheard EXCEPT ![o] = Beyond(u, n)]
                   /\ \E place \in {"recv", "finish"} : rpc' = [rpc EXCEPT ![s] = place]
    BY <1>8 DEF Read, Again
  <2> HIDE DEF o
  <2>2. PICK n \in 1 .. Len(w) :
             /\ wire' = [wire EXCEPT ![o] = Beyond(w, n)]
             /\ \/ rpc' = [rpc EXCEPT ![s] = "finish"] /\ unheard' = unheard
                \/ unheard' = [unheard EXCEPT ![o] = Beyond(u, n)]
                   /\ \E place \in {"recv", "finish"} : rpc' = [rpc EXCEPT ![s] = place]
    BY <2>1
  <2>3. /\ w \in Seq(Pieces) /\ u \in Seq(Pieces) /\ Len(w) \in Nat /\ Len(u) \in Nat
        /\ Len(w) <= Len(u) /\ n \in 0 .. Len(w) /\ n \in 0 .. Len(u) /\ Len(w) > 0
    BY <1>t, <2>0, <2>2 DEF StreamInv
  <2>4. Begins(w, u)
    BY <2>0, <2>1 DEF StreamInv
  <2>5. /\ Len(Beyond(w, n)) = Len(w) - n /\ Len(Beyond(u, n)) = Len(u) - n
        /\ Begins(Beyond(w, n), Beyond(u, n))
    BY <2>3, <2>4, Cut, BeginsTogether
  <2>6. ~(eof[s] \in {"rst", "dead"})
    <3>1. w # <<>>
      BY <2>3
    <3> QED
      BY <2>0, <3>1 DEF StreamInv
  <2>7. /\ wire'[o] = Beyond(w, n) /\ wire'[s] = wire[s] /\ unheard'[s] = unheard[s]
        /\ rpc'[o] = rpc[o]
    BY <2>0, <2>2 DEF LinkTypes
  <2>8. CASE rpc' = [rpc EXCEPT ![s] = "finish"] /\ unheard' = unheard
    <3>1. Len(wire'[o]) <= Len(unheard'[o])
      BY <2>3, <2>5, <2>7, <2>8
    <3>2. rpc'[s] = "finish"
      BY <2>8 DEF LinkTypes
    <3> QED
      BY <1>0, <2>0, <2>1, <2>6, <2>7, <3>1, <3>2 DEF StreamInv
  <2>9. CASE unheard' = [unheard EXCEPT ![o] = Beyond(u, n)]
    <3>1. unheard'[o] = Beyond(u, n)
      BY <2>0, <2>9 DEF LinkTypes
    <3>2. Len(wire'[o]) <= Len(unheard'[o]) /\ Begins(wire'[o], unheard'[o])
      BY <2>3, <2>5, <2>7, <3>1
    <3>3. ASSUME {eof[o], eof[s]} \subseteq {"no", "fin"} PROVE Len(wire'[o]) = Len(unheard'[o])
      <4>1. Len(w) = Len(u)
        BY <2>0, <2>1, <3>3 DEF StreamInv
      <4> QED
        BY <2>5, <2>7, <3>1, <4>1
    <3> QED
      BY <1>0, <2>0, <2>1, <2>6, <2>7, <3>2, <3>3 DEF StreamInv
  <2> QED
    BY <2>2, <2>8, <2>9
<1>9. ASSUME NEW s \in Sides, Reset(s) PROVE StreamInv'
  <2> DEFINE o == Other(s)
  <2>0. o \in Sides /\ Other(o) = s /\ o # s /\ Other(s) = o
    BY <1>0
  <2>1. /\ wire[o] # <<>> /\ UNCHANGED <<rpc, unheard>> /\ eof' = [eof EXCEPT ![s] = "rst"]
        /\ \E n \in 0 .. Len(wire[s]) :
             wire' = [wire EXCEPT ![s] = SubSeq(wire[s], 1, n), ![o] = <<>>]
    BY <1>9 DEF Reset
  <2> HIDE DEF o
  <2>2. PICK n \in 0 .. Len(wire[s]) :
             wire' = [wire EXCEPT ![s] = SubSeq(wire[s], 1, n), ![o] = <<>>]
    BY <2>1
  <2>3. /\ wire'[s] = SubSeq(wire[s], 1, n) /\ wire'[o] = <<>>
        /\ eof'[s] = "rst" /\ eof'[o] = eof[o]
    BY <2>0, <2>1, <2>2 DEF LinkTypes
  <2>4. wire'[s] \in Seq(Pieces) /\ Len(wire'[s]) = n /\ n \in Nat /\ n <= Len(wire[s])
    BY <1>t, <2>3, Cut
  <2>5. Len(wire'[s]) <= Len(unheard[s]) /\ Len(wire'[o]) <= Len(unheard[o])
    BY <1>t, <2>0, <2>3, <2>4 DEF StreamInv
  <2>6. rpc[o] = "recv" => Begins(wire'[s], unheard[s])
    BY <1>t, <2>0, <2>3, BeginsTogether DEF StreamInv
  <2>7. Begins(wire'[o], unheard[o])
    BY <2>3, <2>5 DEF Begins
  <2>8. unheard[o] # <<>>
    <3>1. Len(wire[o]) > 0
      BY <1>t, <2>0, <2>1, EmptySeq
    <3> QED
      BY <1>t, <2>0, <3>1 DEF StreamInv
  <2>9. eof[o] \in {"rst", "dead"} => wire'[s] = <<>> /\ unheard[s] # <<>>
    <3>1. ASSUME eof[o] \in {"rst", "dead"} PROVE wire[s] = <<>> /\ unheard[s] # <<>>
      BY <2>0, <3>1 DEF StreamInv
    <3>2. ASSUME wire[s] = <<>> PROVE wire'[s] = <<>>
      BY <2>4, <3>2, EmptySeq
    <3> QED
      BY <3>1, <3>2
  <2> QED
    BY <1>0, <2>0, <2>1, <2>3, <2>5, <2>6, <2>7, <2>8, <2>9 DEF StreamInv
<1>10. ASSUME NEW s \in Sides,
              \/ \E cmd \in Commands : ReadLine(s, cmd)
              \/ SendBegin(s) \/ NobodyFound(s) \/ SendDone(s) \/ TerminateRemove(s) \/ ExitLock(s)
       PROVE  StreamInv'
  <2>1. UNCHANGED <<wire, unheard, eof, rpc>>
    BY <1>10 DEF ReadLine, SendBegin, NobodyFound, SendDone, TerminateRemove, ExitLock, sockVars
  <2> QED
    BY <1>6, <2>1
<1>11. CASE UNCHANGED vars
  BY <1>6, <1>11 DEF vars, sockVars
<1> QED
  BY <1>2, <1>3, <1>4, <1>5, <1>7, <1>8, <1>9, <1>10, <1>11
     DEF Next, MainStep, RecvStep, UserStep, EndOfInput, SigPipe, ExitReturn

(* The invariant in every state.                                           *)
THEOREM LinkInvariant == Spec => []LinkInv
<1>1. Init => LinkInv
  <2> SUFFICES ASSUME Init PROVE LinkInv
    OBVIOUS
  <2>1. <<>> \in Rests /\ <<>> \in Seq(Pieces) /\ Len(<<>>) = 0
    BY EmptySeq DEF Rests
  <2>2. LinkTypes
    BY <2>1 DEF Init, LinkTypes
  <2>3. EndInv
    BY DEF Init, EndInv
  <2>4. \A s \in Sides : Other(s) \in Sides
    BY DEF Sides, Other
  <2>5. StreamInv
    BY <2>1, <2>4 DEF Init, StreamInv, Begins
  <2> QED
    BY <2>2, <2>3, <2>5 DEF LinkInv
<1>2. LinkInv /\ [Next]_vars => LinkInv'
  BY TypesInductive, EndInductive, StreamInductive DEF LinkInv
<1> QED
  BY <1>1, <1>2, PTL DEF Spec

-----------------------------------------------------------------------------
(* The refinement.                                                         *)

(* Where both ends stand for their users.                                  *)
TalkState == [s \in Sides |-> StateOf(s)]

(* Steps in which neither end leaves or stops listening.                   *)
LEMMA TalkKept ==
    ASSUME LinkTypes, LinkTypes', UNCHANGED unheard, UNCHANGED sock,
           \A s \in Sides : sock[s] = "open" => (rpc'[s] = "recv" <=> rpc[s] = "recv")
    PROVE  UNCHANGED <<TalkState, unheard>>
<1>1. ASSUME NEW s \in Sides PROVE StateOf(s)' = StateOf(s)
  BY DEF LinkTypes, StateOf
<1> QED
  BY <1>1 DEF TalkState

(* An end that is closed leaves, unless it had left before.                *)
LEMMA TalkLeave ==
    ASSUME LinkTypes, LinkTypes', NEW s \in Sides, UNCHANGED unheard,
           sock' = [sock EXCEPT ![s] = "closed"],
           \A x \in Sides : x # s => rpc'[x] = rpc[x]
    PROVE  Talk!Leave(s) \/ UNCHANGED <<TalkState, unheard>>
<1>1. ASSUME NEW x \in Sides, x # s PROVE StateOf(x)' = StateOf(x)
  BY <1>1 DEF LinkTypes, StateOf
<1>2. StateOf(s)' = "left"
  BY DEF LinkTypes, StateOf
<1>3. TalkState' = [TalkState EXCEPT ![s] = "left"]
  BY <1>1, <1>2 DEF TalkState
<1>4. CASE TalkState[s] # "left"
  BY <1>3, <1>4 DEF Talk!Leave, TalkState
<1>5. CASE TalkState[s] = "left"
  <2>1. TalkState' = TalkState
    BY <1>3, <1>5 DEF TalkState
  <2> QED
    BY <2>1
<1> QED
  BY <1>4, <1>5

(* Where the steps take an end: send() says a part of a text or the whole, *)
(* recv() hears, or finds one of the three reasons to stop, and the rest   *)
(* makes no difference to the users.                                       *)
LEMMA StepTalks == LinkInv /\ LinkInv' /\ [Next]_vars => [Talk!Next]_(Talk!cvars)
<1> SUFFICES ASSUME LinkInv, LinkInv', [Next]_vars
             PROVE  Talk!Next \/ UNCHANGED <<TalkState, unheard>>
  BY DEF Talk!cvars, TalkState
<1> USE DEF Set, Goto
<1>0. /\ LinkTypes /\ LinkTypes' /\ EndInv /\ StreamInv
      /\ \A s \in Sides : Other(s) \in Sides /\ Other(s) # s /\ Other(Other(s)) = s
      /\ \A s \in Sides : TalkState[s] = StateOf(s)
  BY DEF LinkInv, Sides, Other, TalkState
<1>t. \A s \in Sides : /\ wire[s] \in Seq(Pieces) /\ unheard[s] \in Seq(Pieces)
                       /\ Len(wire[s]) \in Nat /\ Len(unheard[s]) \in Nat
  BY <1>0, LenProperties DEF LinkTypes
<1>1. ASSUME NEW s \in Sides, Ends(s) \/ NotifyDone(s)
      PROVE  Talk!Next \/ UNCHANGED <<TalkState, unheard>>
  <2>1. /\ sock' = [sock EXCEPT ![s] = "closed"] /\ UNCHANGED unheard
        /\ rpc' = rpc \/ rpc' = [rpc EXCEPT ![s] = "done"]
    BY <1>1 DEF Ends, NotifyDone, CloseSocket
  <2>2. \A x \in Sides : x # s => rpc'[x] = rpc[x]
    BY <1>0, <2>1 DEF LinkTypes
  <2> QED
    BY <1>0, <2>1, <2>2, TalkLeave DEF Talk!Next
<1>2. ASSUME UNCHANGED <<unheard, sock, rpc>> PROVE UNCHANGED <<TalkState, unheard>>
  BY <1>0, <1>2, TalkKept
<1>3. ASSUME NEW s \in Sides, Copy(s) PROVE Talk!Next
  <2> DEFINE p == SubSeq(out[s], 1, Copied(s))
  <2>1. /\ unheard' = [unheard EXCEPT ![s] = unheard[s] \o p] /\ UNCHANGED <<sock, rpc>>
        /\ mpc[s] = "sending" /\ Copied(s) > 0
    BY <1>3 DEF Copy
  <2>2. p \in {Command} \cup {<<q>> : q \in Pieces}
    <3>1. out[s] \in Rests
      BY <1>0 DEF LinkTypes
    <3>2. Copied(s) \in 1 .. Len(out[s])
      BY <1>0, <2>1, CopiedInRange
    <3> QED
      BY <3>1, <3>2, CopiesParts
  <2>3. sock[s] = "open"
    BY <1>0, <2>1, SendersAreOpen
  <2>4. TalkState[s] # "left"
    BY <1>0, <2>3 DEF StateOf
  <2>5. TalkState' = TalkState
    BY <2>1 DEF TalkState, StateOf
  <2> HIDE DEF p
  <2>6. Talk!Say(s)
    BY <2>1, <2>2, <2>4, <2>5 DEF Talk!Say, TalkState
  <2> QED
    BY <2>6 DEF Talk!Next
<1>4. ASSUME NEW s \in Sides, Read(s) PROVE Talk!Next \/ UNCHANGED <<TalkState, unheard>>
  <2> DEFINE o == Other(s)
             w == wire[o]
             u == unheard[o]
  <2>0. o \in Sides /\ Other(o) = s /\ o # s
    BY <1>0
  <2>1. /\ rpc[s] = "recv" /\ UNCHANGED sock
        /\ \E n \in 1 .. Len(w) :
             \/ /\ IsDisconnect(SubSeq(w, 1, n))
                /\ rpc' = [rpc EXCEPT ![s] = "finish"] /\ unheard' = unheard
             \/ /\ unheard' = [unheard EXCEPT ![o] = Beyond(u, n)]
                /\ rpc' = [rpc EXCEPT ![s] = Again(s)]
    BY <1>4 DEF Read
  <2>2. PICK n \in 1 .. Len(w) :
             \/ /\ IsDisconnect(SubSeq(w, 1, n))
                /\ rpc' = [rpc EXCEPT ![s] = "finish"] /\ unheard' = unheard
             \/ /\ unheard' = [unheard EXCEPT ![o] = Beyond(u, n)]
                /\ rpc' = [rpc EXCEPT ![s] = Again(s)]
    BY <2>1
  <2>3. /\ w \in Seq(Pieces) /\ u \in Seq(Pieces) /\ Len(w) \in Nat /\ Len(u) \in Nat
        /\ Len(w) <= Len(u) /\ Begins(w, u)
    BY <1>0, <1>t, <2>0, <2>1 DEF StreamInv
  <2>4. CASE /\ unheard' = [unheard EXCEPT ![o] = Beyond(u, n)]
             /\ rpc' = [rpc EXCEPT ![s] = Again(s)]
    <3>1. TalkState' = TalkState
      <4>1. ASSUME NEW x \in Sides PROVE StateOf(x)' = StateOf(x)
        BY <1>0, <2>1, <2>4, <4>1 DEF LinkTypes, StateOf, Again
      <4> QED
        BY <4>1 DEF TalkState
    <3>2. TalkState[s] # "noticed"
      BY <1>0, <2>1 DEF StateOf, LinkTypes
    <3>3. n \in 1 .. Len(unheard[Other(s)])
      BY <2>3
    <3>4. Talk!Hear(s)
      BY <2>4, <3>1, <3>2, <3>3 DEF Talk!Hear, TalkState, Beyond
    <3> QED
      BY <3>4 DEF Talk!Next
  <2>5. CASE /\ IsDisconnect(SubSeq(w, 1, n))
             /\ rpc' = [rpc EXCEPT ![s] = "finish"] /\ unheard' = unheard
    <3>1. CASE sock[s] = "closed"
      <4>1. ASSUME NEW x \in Sides PROVE StateOf(x)' = StateOf(x)
        BY <1>0, <2>1, <2>5, <3>1, <4>1 DEF LinkTypes, StateOf
      <4> QED
        BY <2>5, <4>1 DEF TalkState
    <3>2. CASE sock[s] = "open"
      <4>1. ASSUME NEW x \in Sides, x # s PROVE StateOf(x)' = StateOf(x)
        BY <1>0, <2>1, <2>5, <4>1 DEF LinkTypes, StateOf
      <4>2. StateOf(s)' = "noticed" /\ StateOf(s) = "talking"
        BY <1>0, <2>1, <2>5, <3>2 DEF LinkTypes, StateOf
      <4>3. TalkState' = [TalkState EXCEPT ![s] = "noticed"]
        BY <4>1, <4>2 DEF TalkState
      <4>4. Talk!Prefix(Command, u)
        BY <2>3, <2>5, CommandAhead
      <4>5. Talk!Notice(s)
        BY <1>0, <2>5, <4>2, <4>3, <4>4 DEF Talk!Notice, TalkState
      <4> QED
        BY <4>5 DEF Talk!Next
    <3> QED
      BY <1>0, <3>1, <3>2 DEF LinkTypes
  <2> QED
    BY <2>2, <2>4, <2>5
<1>5. ASSUME NEW s \in Sides, RecvEnd(s) PROVE Talk!Next \/ UNCHANGED <<TalkState, unheard>>
  <2> DEFINE o == Other(s)
  <2>0. o \in Sides /\ Other(o) = s /\ o # s
    BY <1>0
  <2>1. /\ rpc[s] = "recv" /\ UNCHANGED <<sock, unheard>> /\ rpc' = [rpc EXCEPT ![s] = "finish"]
        /\ sock[s] = "closed" \/ (wire[o] = <<>> /\ eof[o] # "no")
    BY <1>5 DEF RecvEnd, sockVars
  <2> HIDE DEF o
  <2>2. ASSUME NEW x \in Sides, x # s PROVE StateOf(x)' = StateOf(x)
    BY <1>0, <2>1, <2>2 DEF LinkTypes, StateOf
  <2>3. CASE sock[s] = "closed"
    <3>1. StateOf(s)' = StateOf(s)
      BY <2>1, <2>3 DEF StateOf
    <3> QED
      BY <2>1, <2>2, <3>1 DEF TalkState
  <2>4. CASE sock[s] = "open"
    <3>1. StateOf(s)' = "noticed" /\ StateOf(s) = "talking"
      BY <1>0, <2>1, <2>4 DEF LinkTypes, StateOf
    <3>2. TalkState' = [TalkState EXCEPT ![s] = "noticed"]
      BY <2>2, <3>1 DEF TalkState
    <3>3. /\ wire[o] = <<>> /\ eof[o] # "no" /\ eof[s] = "no"
          /\ eof[o] \in {"fin", "rst", "dead"}
      BY <1>0, <2>0, <2>1, <2>4 DEF EndInv, LinkTypes
    <3>4. StateOf(o) = "left"
      BY <1>0, <2>0, <3>3 DEF EndInv, LinkTypes, StateOf
    <3>5. unheard[o] = <<>> \/ unheard[s] # <<>>
      <4>1. CASE eof[o] = "fin"
        <5>1. Len(wire[o]) = Len(unheard[o])
          BY <1>0, <2>0, <2>1, <3>3, <4>1 DEF StreamInv
        <5> QED
          BY <1>t, <2>0, <3>3, <5>1, EmptySeq
      <4>2. CASE eof[o] \in {"rst", "dead"}
        BY <1>0, <4>2 DEF StreamInv, o
      <4> QED
        BY <3>3, <4>1, <4>2
    <3>6. Talk!Notice(s)
      BY <1>0, <2>0, <2>1, <3>1, <3>2, <3>4, <3>5 DEF Talk!Notice, TalkState, o
    <3> QED
      BY <3>6 DEF Talk!Next
  <2> QED
    BY <1>0, <2>3, <2>4 DEF LinkTypes
<1>6. ASSUME NEW s \in Sides, RecvFinish(s) PROVE UNCHANGED <<TalkState, unheard>>
  <2>1. /\ UNCHANGED <<sock, unheard>> /\ rpc[s] = "finish" /\ rpc' = [rpc EXCEPT ![s] = "done"]
    BY <1>6 DEF RecvFinish, sockVars
  <2>2. \A x \in Sides : rpc'[x] = "recv" <=> rpc[x] = "recv"
    BY <1>0, <2>1 DEF LinkTypes
  <2> QED
    BY <1>0, <2>1, <2>2, TalkKept
<1>7. ASSUME NEW s \in Sides,
             \/ \E cmd \in Commands : ReadLine(s, cmd)
             \/ SendBegin(s) \/ NobodyFound(s) \/ SendFails(s) \/ SendDone(s) \/ TerminateRemove(s)
             \/ ExitLock(s) \/ Reset(s)
      PROVE  UNCHANGED <<TalkState, unheard>>
  <2>1. UNCHANGED <<unheard, sock, rpc>>
    BY <1>7 DEF ReadLine, SendBegin, NobodyFound, SendFails, SendDone, TerminateRemove, ExitLock,
                Reset, sockVars
  <2> QED
    BY <1>2, <2>1
<1>8. CASE UNCHANGED vars
  BY <1>2, <1>8 DEF vars, sockVars
<1> QED
  BY <1>1, <1>3, <1>4, <1>5, <1>6, <1>7, <1>8
     DEF Next, MainStep, RecvStep, UserStep, EndOfInput, SigPipe, ExitReturn

(* What is printed is what was said, in order and without gaps, and the    *)
(* receive thread stops only for one of the reasons of Conversation,       *)
(* however TCP joins, splits and loses (send, recv, CMD:DISCONNECT).       *)
THEOREM LinkIsConversation == Spec => ImplementsConversation
<1>1. Init => Talk!Init
  BY DEF Init, Talk!Init, StateOf
<1> QED
  BY <1>1, LinkInvariant, StepTalks, PTL DEF Spec, ImplementsConversation, Talk!Spec
=============================================================================
