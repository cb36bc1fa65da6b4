-------------------------- MODULE EchoStreamProofs --------------------------
(* Proofs about the stream echo programs, for any number of servers,       *)
(* clients and lines: the text of a client on its way from the keyboard    *)
(* through the buffer of the server and back to the screen.                *)
EXTENDS ExercisesProofs, SequenceTheorems

EchoEnds == {"open", "fin", "rst", "dead"}

EchoTypes ==
    /\ spc \in [EchoServers -> {"off", "bind", "accept", "read", "write", "refused", "ended"}]
    /\ path \in EchoServers \cup {0}
    /\ serving \in [EchoServers -> EchoClients \cup {0}]
    /\ backlog \in [EchoServers -> Seq(EchoClients)]
    /\ got \in [EchoServers -> Seq(Nat)]
    /\ cpc \in [EchoClients -> {"off", "prompt", "recv", "ended"}]
    /\ up \in [EchoClients -> Seq(Nat)] /\ down \in [EchoClients -> Seq(Nat)]
    /\ sgone \in [EchoClients -> EchoEnds] /\ cgone \in [EchoClients -> EchoEnds]
    /\ written \in [EchoClients -> Nat] /\ long \in [EchoClients -> Nat]
    /\ shown \in [EchoClients -> Nat]

(* A client is served by one server or waits in one place of one backlog,  *)
(* and a server has text in its buffer between read() and write().         *)
ServedOnce == \A s, t \in EchoServers : serving[s] = serving[t] /\ serving[s] # 0 => s = t

QueuedOnce ==
    \A s, t \in EchoServers, i, j \in Nat :
      i \in 1 .. Len(backlog[s]) /\ j \in 1 .. Len(backlog[t]) /\ backlog[s][i] = backlog[t][j] =>
        s = t /\ i = j

QueuedNotServed ==
    \A s, t \in EchoServers, i \in Nat : i \in 1 .. Len(backlog[s]) => backlog[s][i] # serving[t]

QueuedStarted ==
    \A s \in EchoServers, i \in Nat : i \in 1 .. Len(backlog[s]) => cpc[backlog[s][i]] # "off"

ServerHas ==
    \A s \in EchoServers :
      /\ serving[s] # 0 => cpc[serving[s]] # "off"
      /\ spc[s] \in {"read", "write"} <=> serving[s] # 0
      /\ spc[s] = "write" <=> got[s] # <<>>

OpenUntilEnded == \A c \in EchoClients : cpc[c] # "ended" => cgone[c] = "open"

PlaceInv ==
    ServedOnce /\ QueuedOnce /\ QueuedNotServed /\ QueuedStarted /\ ServerHas /\ OpenUntilEnded

(* The units first .. last of a client, one after the other.               *)
Run(seq, first) == \A i \in 1 .. Len(seq) : seq[i] = first + i

(* Text on the way to a client: what it has not printed up to the unit     *)
(* last, in order, and no prefix without text behind it.                   *)
Answers(seq, first, last) ==
    /\ \A i \in 1 .. Len(seq) : seq[i] = 0 \/ seq[i] \in first + 1 .. last
    /\ \A k \in first + 1 .. last : \E i \in 1 .. Len(seq) : seq[i] = k
    /\ \A i, j \in 1 .. Len(seq) : i < j /\ seq[i] # 0 /\ seq[j] # 0 => seq[i] < seq[j]
    /\ \A i \in 1 .. Len(seq) : seq[i] = 0 => i + 1 \in 1 .. Len(seq) /\ seq[i + 1] # 0

(* What was written and not printed is on its way back, in the buffer of   *)
(* the server, or on its way there, in this order.                         *)
Text(there, buffer, back, first, last) ==
    LET sent == last - Len(there)
        echoed == sent - Len(buffer)
    IN  /\ echoed \in Nat /\ first <= echoed
        /\ Run(there, sent) /\ Run(buffer, echoed) /\ Answers(back, first, echoed)

TextAt(c) ==
    sgone[c] = "open" /\ cgone[c] = "open" =>
        Text(up[c], Stream!BeingEchoed(c), down[c], shown[c], written[c])

TextInv == \A c \in EchoClients : TextAt(c)

(* A UNIX client prints a unit with every read().                          *)
LagInv ==
    \A c \in EchoClients : sgone[c] = "open" /\ program # "tcp" =>
        /\ cpc[c] \in {"off", "prompt"} => written[c] <= shown[c] + long[c]
        /\ cpc[c] = "recv" => written[c] <= shown[c] + long[c] + 1

EchoInv == EchoTypes /\ PlaceInv /\ TextInv /\ LagInv

(* One read() returns something of what there is, no more than the buffer  *)
(* holds; from a UNIX socket as much as it can.                            *)
LEMMA ReadsSome ==
    ASSUME NEW n \in Nat, n > 0, NEW m \in Stream!Returned(n)
    PROVE  m \in 1 .. n /\ m \in {1, 2} /\ (program # "tcp" => m = n \/ m = 2)
BY DEF Stream!Returned, Stream!BufferUnits

(* What becomes of the connections of a server that closes.                *)
LEMMA ServerClosed ==
    ASSUME EchoTypes, NEW s \in EchoServers, Stream!ServerCloses(s)
    PROVE  /\ spc' = [spc EXCEPT ![s] = "ended"] /\ serving' = [serving EXCEPT ![s] = 0]
           /\ backlog' = [backlog EXCEPT ![s] = <<>>] /\ got' = [got EXCEPT ![s] = <<>>]
           /\ sgone' \in [EchoClients -> EchoEnds]
           /\ \A c \in EchoClients : sgone'[c] = "open" => sgone[c] = "open" /\ c # serving[s]
           /\ UNCHANGED <<cpc, up, down, cgone, written, long, shown>>
<1>1. /\ spc' = [spc EXCEPT ![s] = "ended"] /\ serving' = [serving EXCEPT ![s] = 0]
      /\ backlog' = [backlog EXCEPT ![s] = <<>>] /\ got' = [got EXCEPT ![s] = <<>>]
      /\ UNCHANGED <<cpc, up, down, cgone, written, long, shown>>
  BY DEF Stream!ServerCloses, Stream!NoClient, Stream!clientVars, Stream!history
<1>2. ASSUME NEW end \in EchoEnds, NEW rest
      PROVE  Stream!Closed(end, rest) \in EchoEnds \ {"open"}
  BY DEF Stream!Closed, EchoEnds
<1>3. sgone' = [c \in EchoClients |->
                   IF c = serving[s] THEN Stream!Closed(sgone[c], up[c])
                   ELSE IF Stream!Contains(backlog[s], c) THEN Stream!Closed(sgone[c], <<0>>)
                   ELSE sgone[c]]
  BY DEF Stream!ServerCloses, Stream!Prefix
<1>4. \A c \in EchoClients : sgone[c] \in EchoEnds
  BY DEF EchoTypes
<1>5. ASSUME NEW c \in EchoClients
      PROVE  sgone'[c] \in EchoEnds /\ (sgone'[c] = "open" => sgone[c] = "open" /\ c # serving[s])
  <2>1. CASE c = serving[s]
    <3>1. sgone'[c] = Stream!Closed(sgone[c], up[c])
      BY <1>3, <2>1
    <3> QED
      BY <1>2, <1>4, <2>1, <3>1
  <2>2. CASE c # serving[s] /\ Stream!Contains(backlog[s], c)
    <3>1. sgone'[c] = Stream!Closed(sgone[c], <<0>>)
      BY <1>3, <2>2
    <3> QED
      BY <1>2, <1>4, <2>2, <3>1
  <2>3. CASE c # serving[s] /\ ~Stream!Contains(backlog[s], c)
    <3>1. sgone'[c] = sgone[c]
      BY <1>3, <2>3
    <3> QED
      BY <1>4, <2>3, <3>1
  <2> QED
    BY <2>1, <2>2, <2>3
<1>6. sgone' \in [EchoClients -> EchoEnds]
  BY <1>3, <1>5
<1> QED
  BY <1>1, <1>5, <1>6

(* What becomes of the connection of a client that closes.                 *)
LEMMA ClientClosed ==
    ASSUME EchoTypes, NEW c \in EchoClients, Stream!ClientCloses(c)
    PROVE  /\ cpc' = [cpc EXCEPT ![c] = "ended"] /\ down' = [down EXCEPT ![c] = <<>>]
           /\ cgone' \in [EchoClients -> EchoEnds] /\ cgone'[c] # "open"
           /\ \A d \in EchoClients : d # c => cgone'[d] = cgone[d]
           /\ UNCHANGED <<spc, path, serving, backlog, got, up, sgone, written, long, shown>>
<1>1. Stream!Closed(cgone[c], down[c]) \in EchoEnds \ {"open"}
  BY DEF Stream!Closed, EchoTypes, EchoEnds
<1>2. cgone' = [cgone EXCEPT ![c] = Stream!Closed(cgone[c], down[c])]
  BY DEF Stream!ClientCloses
<1>3. /\ cpc' = [cpc EXCEPT ![c] = "ended"] /\ down' = [down EXCEPT ![c] = <<>>]
      /\ UNCHANGED <<spc, path, serving, backlog, got, up, sgone, written, long, shown>>
  BY DEF Stream!ClientCloses, Stream!serverVars, Stream!history
<1>4. cgone \in [EchoClients -> EchoEnds]
  BY DEF EchoTypes
<1> QED
  BY <1>1, <1>2, <1>3, <1>4

(* The first n units of a text, and the rest.                              *)
LEMMA TextCut ==
    ASSUME NEW q \in Seq(Nat), NEW n \in 0 .. Len(q)
    PROVE  /\ SubSeq(q, 1, n) \in Seq(Nat) /\ Len(SubSeq(q, 1, n)) = n
           /\ \A i \in 1 .. n : SubSeq(q, 1, n)[i] = q[i]
           /\ SubSeq(q, n + 1, Len(q)) \in Seq(Nat) /\ Len(SubSeq(q, n + 1, Len(q))) = Len(q) - n
           /\ \A i \in 1 .. Len(q) - n : SubSeq(q, n + 1, Len(q))[i] = q[n + i]
<1>1. Len(q) \in Nat /\ n \in Nat /\ n <= Len(q) /\ \A i \in 1 .. Len(q) : q[i] \in Nat
  BY LenProperties, ElementOfSeq
<1>2. \A i \in 1 .. n : q[i] \in Nat
  BY <1>1
<1>3. \A i \in n + 1 .. Len(q) : q[i] \in Nat
  BY <1>1
<1>4. /\ SubSeq(q, 1, n) \in Seq(Nat)
      /\ Len(SubSeq(q, 1, n)) = IF 1 <= n THEN n - 1 + 1 ELSE 0
      /\ \A i \in 1 .. n - 1 + 1 : SubSeq(q, 1, n)[i] = q[1 + i - 1]
  BY <1>1, <1>2, SubSeqProperties, 1 \in Int, n \in Int
<1>5. /\ SubSeq(q, n + 1, Len(q)) \in Seq(Nat)
      /\ Len(SubSeq(q, n + 1, Len(q))) = IF n + 1 <= Len(q) THEN Len(q) - (n + 1) + 1 ELSE 0
      /\ \A i \in 1 .. Len(q) - (n + 1) + 1 : SubSeq(q, n + 1, Len(q))[i] = q[n + 1 + i - 1]
  BY SMTT(30), <1>1, <1>3, SubSeqProperties, n + 1 \in Int, Len(q) \in Int
<1>6. Len(SubSeq(q, 1, n)) = n /\ \A i \in 1 .. n : SubSeq(q, 1, n)[i] = q[i]
  BY <1>1, <1>4
<1>7. /\ Len(SubSeq(q, n + 1, Len(q))) = Len(q) - n
      /\ \A i \in 1 .. Len(q) - n : SubSeq(q, n + 1, Len(q))[i] = q[n + i]
  BY <1>1, <1>5
<1> QED
  BY <1>4, <1>5, <1>6, <1>7

(* A text followed by another.                                             *)
LEMMA TextJoin ==
    ASSUME NEW q \in Seq(Nat), NEW r \in Seq(Nat)
    PROVE  /\ q \o r \in Seq(Nat) /\ Len(q \o r) = Len(q) + Len(r)
           /\ \A i \in 1 .. Len(q) : (q \o r)[i] = q[i] /\ i \in 1 .. Len(q \o r)
           /\ \A i \in 1 .. Len(r) : (q \o r)[Len(q) + i] = r[i] /\ Len(q) + i \in 1 .. Len(q \o r)
           /\ \A i \in 1 .. Len(q \o r) :
                \/ i \in 1 .. Len(q) /\ (q \o r)[i] = q[i]
                \/ \E j \in 1 .. Len(r) : i = Len(q) + j /\ (q \o r)[i] = r[j]
<1>1. /\ q \o r \in Seq(Nat) /\ Len(q \o r) = Len(q) + Len(r)
      /\ \A i \in 1 .. Len(q) + Len(r) : (q \o r)[i] = IF i <= Len(q) THEN q[i] ELSE r[i - Len(q)]
  BY ConcatProperties
<1>2. Len(q) \in Nat /\ Len(r) \in Nat
  BY LenProperties
<1>3. ASSUME NEW i \in 1 .. Len(q) PROVE (q \o r)[i] = q[i] /\ i \in 1 .. Len(q \o r)
  <2>1. i \in 1 .. Len(q) + Len(r) /\ i <= Len(q)
    BY <1>2
  <2> QED
    BY <1>1, <2>1
<1>4. ASSUME NEW i \in 1 .. Len(r)
      PROVE  (q \o r)[Len(q) + i] = r[i] /\ Len(q) + i \in 1 .. Len(q \o r)
  <2>1. Len(q) + i \in 1 .. Len(q) + Len(r) /\ ~(Len(q) + i <= Len(q)) /\ Len(q) + i - Len(q) = i
    BY <1>2
  <2> QED
    BY <1>1, <2>1
<1>5. ASSUME NEW i \in 1 .. Len(q \o r), i \notin 1 .. Len(q)
      PROVE  \E j \in 1 .. Len(r) : i = Len(q) + j
  <2>1. i - Len(q) \in 1 .. Len(r) /\ i = Len(q) + (i - Len(q))
    BY <1>1, <1>2, <1>5
  <2> QED
    BY <2>1
<1>6. ASSUME NEW i \in 1 .. Len(q \o r)
      PROVE  \/ i \in 1 .. Len(q) /\ (q \o r)[i] = q[i]
             \/ \E j \in 1 .. Len(r) : i = Len(q) + j /\ (q \o r)[i] = r[j]
  BY <1>3, <1>4, <1>5
<1> QED
  BY <1>1, <1>3, <1>4, <1>6

(* One or two units have a greatest one among them.                        *)
LEMMA GreatestOfTwo ==
    ASSUME NEW a \in Nat, NEW b \in Nat, NEW units, units \subseteq {a, b}, units # {}
    PROVE  \E u \in units : \A v \in units : v <= u
<1>1. CASE b <= a /\ a \in units
  BY <1>1
<1>2. CASE a <= b /\ b \in units
  BY <1>2
<1>3. CASE a \notin units
  <2>1. b \in units /\ \A v \in units : v = b
    BY <1>3
  <2> QED
    BY <2>1
<1>4. CASE b \notin units
  <2>1. a \in units /\ \A v \in units : v = a
    BY <1>4
  <2> QED
    BY <2>1
<1>5. a <= b \/ b <= a
  OBVIOUS
<1> QED
  BY <1>1, <1>2, <1>3, <1>4, <1>5

(* What the client has printed last when it read n units: the last of them *)
(* that is text, if there is one.                                          *)
Printed(d, n, first) ==
    LET units == {d[i] : i \in 1 .. n} \ {0}
    IN  IF units = {} THEN first ELSE CHOOSE u \in units : \A v \in units : v <= u

(* It is one that was read, unless all were prefixes, and none read is     *)
(* later.                                                                  *)
LEMMA PrintsLast ==
    ASSUME NEW d \in Seq(Nat), NEW first \in Nat, NEW n \in 1 .. Len(d), n \in {1, 2}
    PROVE  /\ Printed(d, n, first) \in Nat
           /\ \A i \in 1 .. n : d[i] = 0 \/ d[i] <= Printed(d, n, first)
           /\ \/ Printed(d, n, first) = first
              \/ \E m \in 1 .. n : d[m] = Printed(d, n, first) /\ Printed(d, n, first) # 0
<1> DEFINE units == {d[i] : i \in 1 .. n} \ {0}
           print == Printed(d, n, first)
<1>1. \A i \in 1 .. n : d[i] # 0 => d[i] \in units
  OBVIOUS
<1>2. \A k \in units : k # 0 /\ \E i \in 1 .. n : d[i] = k
  OBVIOUS
<1>3. \A i \in 1 .. n : d[i] \in Nat
  BY LenProperties, ElementOfSeq
<1>4. \A i \in 1 .. n : i = 1 \/ i = n
  OBVIOUS
<1>5. 1 \in 1 .. n /\ n \in 1 .. n
  OBVIOUS
<1>6. print = IF units = {} THEN first ELSE CHOOSE u \in units : \A v \in units : v <= u
  BY DEF Printed
<1> HIDE DEF units, print
<1>7. CASE units = {}
  <2>1. print = first
    BY <1>6, <1>7
  <2> QED
    BY <1>1, <1>7, <2>1 DEF print
<1>8. CASE units # {}
  <2>1. units \subseteq {d[1], d[n]}
    BY <1>2, <1>4
  <2>2. \E k \in units : \A l \in units : l <= k
    BY <1>3, <1>5, <1>8, <2>1, GreatestOfTwo
  <2>3. print \in units /\ \A l \in units : l <= print
    BY <1>6, <1>8, <2>2
  <2> QED
    BY <1>1, <1>2, <1>3, <2>3 DEF print
<1> QED
  BY <1>7, <1>8

(* The servers and clients keep their types.                               *)
LEMMA EchoTypesInductive == EchoTypes /\ PlaceInv /\ [Next]_vars => EchoTypes'
<1> SUFFICES ASSUME EchoTypes, PlaceInv, [Next]_vars PROVE EchoTypes'
  OBVIOUS
<1> USE ExercisesAssumption DEF EchoTypes
<1>0. Stream!StreamNext \/ UNCHANGED streamRest
  BY DEF Next, vars
<1>e. \A end : Stream!AfterWrite(end) \subseteq EchoEnds
  BY DEF Stream!AfterWrite, EchoEnds
<1>s. <<>> \in Seq(Nat) /\ <<>> \in Seq(EchoClients)
  BY EmptySeq
<1>1. ASSUME NEW s \in EchoServers, Stream!AcceptClient(s) PROVE EchoTypes'
  <2>1. /\ backlog[s] \in Seq(EchoClients) /\ backlog[s] # <<>>
        /\ serving' = [serving EXCEPT ![s] = Head(backlog[s])]
        /\ backlog' = [backlog EXCEPT ![s] = Tail(backlog[s])] /\ spc' = [spc EXCEPT ![s] = "read"]
        /\ UNCHANGED <<path, got, cpc, up, down, sgone, cgone, written, long, shown>>
    BY <1>1 DEF Stream!AcceptClient, Stream!clientVars, Stream!wireVars, Stream!history
  <2>2. Head(backlog[s]) \in EchoClients /\ Tail(backlog[s]) \in Seq(EchoClients)
    BY <2>1, TailOfQueue
  <2> QED
    BY <2>1, <2>2
<1>2. ASSUME NEW s \in EchoServers, Stream!ServerRead(s), serving[s] \in EchoClients PROVE EchoTypes'
  <2> DEFINE q == up[serving[s]]
  <2>1. q \in Seq(Nat) /\ q # <<>> /\ Len(q) \in Nat /\ Len(q) > 0
    BY <1>2, EmptySeq, LenProperties DEF Stream!ServerRead
  <2>2. PICK n \in Stream!Returned(Len(q)) :
          /\ got' = [got EXCEPT ![s] = SubSeq(q, 1, n)]
          /\ up' = [up EXCEPT ![serving[s]] = SubSeq(q, n + 1, Len(q))]
    BY <1>2 DEF Stream!ServerRead
  <2>3. n \in 0 .. Len(q)
    <3> HIDE DEF q
    <3>1. n \in 1 .. Len(q)
      BY <2>1, ReadsSome
    <3> QED
      BY <3>1
  <2>4. SubSeq(q, 1, n) \in Seq(Nat) /\ SubSeq(q, n + 1, Len(q)) \in Seq(Nat)
    BY <2>1, <2>3, TextCut
  <2>5. spc' = [spc EXCEPT ![s] = "write"]
        /\ UNCHANGED <<path, serving, backlog, cpc, down, sgone, cgone, written, long, shown>>
    BY <1>2 DEF Stream!ServerRead, Stream!clientVars, Stream!history
  <2> HIDE DEF q
  <2> QED
    BY <2>2, <2>4, <2>5
<1>3. ASSUME NEW s \in EchoServers, Stream!ServerWrite(s), serving[s] \in EchoClients PROVE EchoTypes'
  <2> DEFINE c == serving[s]
  <2>1. /\ \E end \in EchoEnds : cgone' = [cgone EXCEPT ![c] = end]
        /\ down' = [down EXCEPT ![c] = IF cgone[c] = "open" THEN down[c] \o Stream!Response(s) ELSE down[c]]
        /\ spc' = [spc EXCEPT ![s] = "read"] /\ got' = [got EXCEPT ![s] = <<>>]
        /\ UNCHANGED <<path, serving, backlog, cpc, up, sgone, written, long, shown>>
    BY <1>3, <1>e DEF Stream!ServerWrite, Stream!clientVars, Stream!history
  <2>2. Stream!Response(s) \in Seq(Nat)
    <3>1. <<0>> \in Seq(Nat) /\ got[s] \in Seq(Nat)
      OBVIOUS
    <3> QED
      BY <3>1, TextJoin DEF Stream!Response, Stream!Prefix
  <2>3. down[c] \o Stream!Response(s) \in Seq(Nat)
    BY <1>3, <2>2, TextJoin
  <2> HIDE DEF c
  <2>4. down' \in [EchoClients -> Seq(Nat)]
    BY <2>1, <2>3
  <2>5. cgone' \in [EchoClients -> EchoEnds] /\ got' \in [EchoServers -> Seq(Nat)]
    <3>1. PICK end \in EchoEnds : cgone' = [cgone EXCEPT ![c] = end]
      BY <2>1
    <3>2. cgone' \in [EchoClients -> EchoEnds]
      BY <3>1
    <3> QED
      BY <1>s, <2>1, <3>2
  <2> QED
    BY <2>1, <2>4, <2>5
<1>4. ASSUME NEW s \in EchoServers, Stream!ServerCloses(s), path' \in EchoServers \cup {0}
      PROVE  EchoTypes'
  <2> HIDE DEF EchoTypes
  <2>1. /\ spc' = [spc EXCEPT ![s] = "ended"] /\ serving' = [serving EXCEPT ![s] = 0]
        /\ backlog' = [backlog EXCEPT ![s] = <<>>] /\ got' = [got EXCEPT ![s] = <<>>]
        /\ sgone' \in [EchoClients -> EchoEnds]
        /\ UNCHANGED <<cpc, up, down, cgone, written, long, shown>>
    BY <1>4, ServerClosed
  <2> QED
    BY <1>4, <1>s, <2>1 DEF EchoTypes
<1>5. ASSUME NEW s \in EchoServers, Stream!StartServer(s) \/ Stream!BindServer(s) PROVE EchoTypes'
  <2>1. /\ \E place \in {"bind", "accept", "refused"} : spc' = [spc EXCEPT ![s] = place]
        /\ path' \in {path, s, 0}
        /\ UNCHANGED <<serving, backlog, got, cpc, up, down, sgone, cgone, written, long, shown>>
    BY <1>5 DEF Stream!StartServer, Stream!BindServer, Stream!NoServer, Stream!clientVars,
                Stream!wireVars, Stream!history
  <2> QED
    BY <2>1
<1>6. ASSUME NEW c \in EchoClients, Stream!ClientConnects(c) PROVE EchoTypes'
  <2>1. /\ \/ /\ path \in EchoServers /\ backlog' = [backlog EXCEPT ![path] = Append(backlog[path], c)]
              /\ cpc' = [cpc EXCEPT ![c] = "prompt"]
           \/ backlog' = backlog /\ cpc' = [cpc EXCEPT ![c] = "ended"]
        /\ UNCHANGED <<spc, path, serving, got, up, down, sgone, cgone, written, long, shown>>
    BY <1>6 DEF Stream!ClientConnects, Stream!NoServer, Stream!wireVars, Stream!history
  <2>2. path \in EchoServers => Append(backlog[path], c) \in Seq(EchoClients)
    BY AppendProperties
  <2>3. backlog' \in [EchoServers -> Seq(EchoClients)]
    BY <2>1, <2>2
  <2>4. cpc' \in [EchoClients -> {"off", "prompt", "recv", "ended"}]
    BY <2>1
  <2> QED
    BY <2>1, <2>3, <2>4
<1>7. ASSUME NEW c \in EchoClients, Stream!ClientCloses(c) PROVE EchoTypes'
  <2> HIDE DEF EchoTypes
  <2>1. /\ cpc' = [cpc EXCEPT ![c] = "ended"] /\ down' = [down EXCEPT ![c] = <<>>]
        /\ cgone' \in [EchoClients -> EchoEnds]
        /\ UNCHANGED <<spc, path, serving, backlog, got, up, sgone, written, long, shown>>
    BY <1>7, ClientClosed
  <2> QED
    BY <1>s, <2>1 DEF EchoTypes
<1>8. ASSUME NEW c \in EchoClients, NEW n \in 1 .. Stream!BufferUnits, Stream!ClientWrites(c, n)
      PROVE  EchoTypes'
  <2> DEFINE new == [i \in 1 .. n |-> written[c] + i]
  <2>1. /\ \E end \in EchoEnds : sgone' = [sgone EXCEPT ![c] = end]
        /\ up' = [up EXCEPT ![c] = IF sgone[c] = "open" THEN up[c] \o new ELSE up[c]]
        /\ written' = [written EXCEPT ![c] = IF sgone[c] = "open" THEN written[c] + n ELSE written[c]]
        /\ long' = [long EXCEPT ![c] = IF n > 1 THEN long[c] + 1 ELSE long[c]]
        /\ cpc' = [cpc EXCEPT ![c] = "recv"]
        /\ UNCHANGED <<spc, path, serving, backlog, got, down, cgone, shown>>
    BY <1>8, <1>e DEF Stream!ClientWrites, Stream!serverVars
  <2>2. n \in Nat
    BY DEF Stream!BufferUnits
  <2>3. new \in Seq(Nat)
    BY <2>2
  <2>4. up[c] \o new \in Seq(Nat)
    BY <2>3, TextJoin
  <2> HIDE DEF new
  <2>5. up' \in [EchoClients -> Seq(Nat)]
    BY <2>1, <2>4
  <2>6. written' \in [EchoClients -> Nat] /\ long' \in [EchoClients -> Nat]
    BY <2>1, <2>2
  <2> QED
    BY <2>1, <2>5, <2>6
<1>9. ASSUME NEW c \in EchoClients, Stream!ClientReads(c) PROVE EchoTypes'
  <2> DEFINE q == down[c]
  <2>1. q \in Seq(Nat) /\ Len(q) \in Nat /\ Len(q) > 0 /\ shown[c] \in Nat
    BY <1>9, EmptySeq, LenProperties DEF Stream!ClientReads
  <2>2. PICK n \in Stream!Returned(Len(q)) :
          /\ down' = [down EXCEPT ![c] = SubSeq(q, n + 1, Len(q))]
          /\ shown' = [shown EXCEPT ![c] = Printed(q, n, shown[c])]
    BY <1>9 DEF Stream!ClientReads, Stream!Prefix, Printed
  <2>3. /\ cpc' = [cpc EXCEPT ![c] = "prompt"]
        /\ UNCHANGED <<spc, path, serving, backlog, got, up, sgone, cgone, written, long>>
    BY <1>9 DEF Stream!ClientReads, Stream!serverVars
  <2> HIDE DEF q
  <2>4. n \in 1 .. Len(q) /\ n \in 0 .. Len(q) /\ n \in {1, 2}
    BY <2>1, ReadsSome
  <2>5. SubSeq(q, n + 1, Len(q)) \in Seq(Nat) /\ Printed(q, n, shown[c]) \in Nat
    BY <2>1, <2>4, TextCut, PrintsLast
  <2>6. shown' \in [EchoClients -> Nat]
    BY <2>2, <2>5
  <2>7. down' \in [EchoClients -> Seq(Nat)]
    BY <2>2, <2>5
  <2> QED
    BY <2>3, <2>6, <2>7
<1>10. CASE Stream!PortFreed \/ UNCHANGED streamRest
  BY <1>10 DEF Stream!PortFreed, Stream!clientVars, Stream!wireVars, Stream!history, streamRest
<1>11. ASSUME NEW s \in EchoServers, spc[s] \in {"read", "write"} PROVE serving[s] \in EchoClients
  BY <1>11 DEF PlaceInv, ServerHas, EchoTypes
<1>12. \A s \in EchoServers : Stream!PathLeft(s) \in EchoServers \cup {0}
  BY DEF Stream!PathLeft, Stream!NoServer
<1> HIDE DEF EchoTypes
<1>13. ASSUME NEW s \in EchoServers, Stream!ServerStep(s) PROVE EchoTypes'
  <2>1. CASE Stream!ServerEnds(s) \/ Stream!SigPipeServer(s)
    BY <1>4, <1>12, <2>1 DEF Stream!ServerEnds, Stream!SigPipeServer, Stream!NoServer
  <2>2. CASE Stream!ServerRead(s)
    BY <1>2, <1>11, <2>2 DEF Stream!ServerRead
  <2>3. CASE Stream!ServerWrite(s)
    BY <1>3, <1>11, <2>3 DEF Stream!ServerWrite
  <2> QED
    BY <1>1, <1>13, <2>1, <2>2, <2>3 DEF Stream!ServerStep
<1>14. ASSUME NEW s \in EchoServers, Stream!KillServer(s) PROVE EchoTypes'
  BY <1>4, <1>12, <1>14 DEF Stream!KillServer
<1>15. ASSUME NEW c \in EchoClients,
              Stream!ClientEnds(c) \/ Stream!SigPipeClient(c) \/ Stream!EndOfLines(c)
       PROVE  EchoTypes'
  BY <1>7, <1>15 DEF Stream!ClientEnds, Stream!SigPipeClient, Stream!EndOfLines
<1>16. ASSUME NEW c \in EchoClients, Stream!ClientWritesNothing(c) PROVE EchoTypes'
  <2>1. /\ sgone' = [sgone EXCEPT ![c] = "dead"] \/ sgone' = [sgone EXCEPT ![c] = sgone[c]]
        /\ cpc' = [cpc EXCEPT ![c] = "recv"]
        /\ UNCHANGED <<spc, path, serving, backlog, got, up, down, cgone, written, long, shown>>
    BY <1>16 DEF Stream!ClientWritesNothing, Stream!serverVars, Stream!history
  <2> QED
    BY <2>1 DEF EchoTypes, EchoEnds
<1> QED
  BY <1>0, <1>5, <1>6, <1>8, <1>9, <1>10, <1>13, <1>14, <1>15, <1>16
     DEF Stream!StreamNext, Stream!ClientStep

(* The head of a backlog is served, new clients come behind it, and who    *)
(* leaves is in no other place.                                            *)
LEMMA PlaceInductive == EchoTypes /\ EchoTypes' /\ PlaceInv /\ [Next]_vars => PlaceInv'
<1> SUFFICES ASSUME EchoTypes, EchoTypes', PlaceInv, [Next]_vars PROVE PlaceInv'
  OBVIOUS
<1> USE ExercisesAssumption
<1>0. Stream!StreamNext \/ UNCHANGED streamRest
  BY DEF Next, vars
<1>p. ServedOnce /\ QueuedOnce /\ QueuedNotServed /\ QueuedStarted /\ ServerHas /\ OpenUntilEnded
  BY DEF PlaceInv
<1>l. \A s \in EchoServers : /\ backlog[s] \in Seq(EchoClients) /\ Len(backlog[s]) \in Nat
                             /\ \A i \in Nat : i \in 1 .. Len(backlog[s]) => backlog[s][i] \in EchoClients
  <2>1. \A s \in EchoServers : backlog[s] \in Seq(EchoClients)
    BY DEF EchoTypes
  <2> QED
    BY <2>1, LenProperties, ElementOfSeq
<1>1. ASSUME NEW s \in EchoServers, Stream!AcceptClient(s) PROVE PlaceInv'
  <2>1. /\ backlog[s] # <<>> /\ spc[s] = "accept"
        /\ serving' = [serving EXCEPT ![s] = Head(backlog[s])]
        /\ backlog' = [backlog EXCEPT ![s] = Tail(backlog[s])] /\ spc' = [spc EXCEPT ![s] = "read"]
        /\ UNCHANGED <<got, cpc, cgone>>
    BY <1>1 DEF Stream!AcceptClient, Stream!clientVars, Stream!wireVars
  <2>2. /\ serving'[s] = backlog[s][1] /\ 1 \in 1 .. Len(backlog[s]) /\ 1 \in Nat
        /\ serving'[s] \in EchoClients /\ serving'[s] # 0
        /\ \A i \in Nat : i \in 1 .. Len(Tail(backlog[s])) =>
             i + 1 \in Nat /\ i + 1 \in 1 .. Len(backlog[s]) /\ Tail(backlog[s])[i] = backlog[s][i + 1]
    <3>1. backlog[s] \in Seq(EchoClients)
      BY <1>l
    <3>2. serving'[s] = Head(backlog[s])
      BY <2>1 DEF EchoTypes
    <3> QED
      BY <2>1, <3>1, <3>2, TailOfQueue, ExercisesAssumption
  <2>3. \A t \in EchoServers : t # s => serving'[t] = serving[t] /\ backlog'[t] = backlog[t]
    BY <2>1 DEF EchoTypes
  <2>4. backlog'[s] = Tail(backlog[s])
    BY <2>1 DEF EchoTypes
  <2>5. ASSUME NEW t \in EchoServers, NEW i \in Nat, i \in 1 .. Len(backlog'[t])
        PROVE  \E k \in Nat : /\ k \in 1 .. Len(backlog[t]) /\ backlog'[t][i] = backlog[t][k]
                              /\ k = IF t = s THEN i + 1 ELSE i
    BY <2>2, <2>3, <2>4, <2>5
  <2>6. ASSUME NEW t \in EchoServers, NEW u \in EchoServers, serving'[t] = serving'[u], serving'[t] # 0
        PROVE  t = u
    BY <1>p, <2>2, <2>3, <2>6 DEF ServedOnce, QueuedNotServed
  <2>7. ASSUME NEW t \in EchoServers, NEW u \in EchoServers, NEW i \in Nat, NEW j \in Nat,
               i \in 1 .. Len(backlog'[t]), j \in 1 .. Len(backlog'[u]), backlog'[t][i] = backlog'[u][j]
        PROVE  t = u /\ i = j
    <3>1. PICK k \in Nat : /\ k \in 1 .. Len(backlog[t]) /\ backlog'[t][i] = backlog[t][k]
                           /\ k = IF t = s THEN i + 1 ELSE i
      BY <2>5, <2>7
    <3>2. PICK l \in Nat : /\ l \in 1 .. Len(backlog[u]) /\ backlog'[u][j] = backlog[u][l]
                           /\ l = IF u = s THEN j + 1 ELSE j
      BY <2>5, <2>7
    <3>3. backlog[t][k] = backlog[u][l]
      BY <2>7, <3>1, <3>2
    <3>4. t = u /\ k = l
      BY <1>p, <3>1, <3>2, <3>3 DEF QueuedOnce
    <3> QED
      BY <3>1, <3>2, <3>4
  <2>8. ASSUME NEW t \in EchoServers, NEW u \in EchoServers, NEW i \in Nat, i \in 1 .. Len(backlog'[t])
        PROVE  backlog'[t][i] # serving'[u]
    <3>1. PICK k \in Nat : /\ k \in 1 .. Len(backlog[t]) /\ backlog'[t][i] = backlog[t][k]
                           /\ k = IF t = s THEN i + 1 ELSE i
      BY <2>5, <2>8
    <3>2. CASE u = s
      <4>1. ASSUME backlog[t][k] = backlog[s][1] PROVE FALSE
        <5>1. t = s /\ k = 1
          BY <1>p, <2>2, <3>1, <4>1 DEF QueuedOnce
        <5> QED
          BY <2>8, <3>1, <5>1
      <4> QED
        BY <2>2, <3>1, <3>2, <4>1
    <3>3. CASE u # s
      <4>1. backlog[t][k] # serving[u]
        BY <1>p, <3>1 DEF QueuedNotServed
      <4> QED
        BY <2>3, <3>1, <3>3, <4>1
    <3> QED
      BY <3>2, <3>3
  <2>9. ASSUME NEW t \in EchoServers, NEW i \in Nat, i \in 1 .. Len(backlog'[t])
        PROVE  cpc'[backlog'[t][i]] # "off"
    <3>1. PICK k \in Nat : /\ k \in 1 .. Len(backlog[t]) /\ backlog'[t][i] = backlog[t][k]
                           /\ k = IF t = s THEN i + 1 ELSE i
      BY <2>5, <2>9
    <3> QED
      BY <1>p, <2>1, <3>1 DEF QueuedStarted
  <2>10. ASSUME NEW t \in EchoServers
         PROVE  /\ serving'[t] # 0 => cpc'[serving'[t]] # "off"
                /\ spc'[t] \in {"read", "write"} <=> serving'[t] # 0
                /\ spc'[t] = "write" <=> got'[t] # <<>>
    <3>1. CASE t = s
      <4>1. spc'[t] = "read" /\ got'[t] = got[t]
        BY <2>1, <3>1 DEF EchoTypes
      <4>2. got[t] = <<>>
        BY <1>p, <2>1, <3>1 DEF ServerHas
      <4>3. cpc'[backlog[s][1]] # "off"
        BY <1>p, <2>1, <2>2 DEF QueuedStarted
      <4> QED
        BY <2>2, <3>1, <4>1, <4>2, <4>3
    <3>2. CASE t # s
      <4>1. spc'[t] = spc[t] /\ got'[t] = got[t] /\ serving'[t] = serving[t] /\ cpc' = cpc
        BY <2>1, <2>3, <3>2 DEF EchoTypes
      <4> QED
        BY <1>p, <4>1 DEF ServerHas
    <3> QED
      BY <3>1, <3>2
  <2>11. ServedOnce'
    BY <2>6 DEF ServedOnce
  <2>12. QueuedOnce'
    BY <2>7 DEF QueuedOnce
  <2>13. QueuedNotServed'
    BY <2>8 DEF QueuedNotServed
  <2>14. QueuedStarted'
    BY <2>9 DEF QueuedStarted
  <2>15. ServerHas'
    BY <2>10 DEF ServerHas
  <2>16. OpenUntilEnded'
    BY <1>p, <2>1 DEF OpenUntilEnded
  <2> QED
    BY <2>11, <2>12, <2>13, <2>14, <2>15, <2>16 DEF PlaceInv
<1>2. ASSUME NEW s \in EchoServers, Stream!ServerRead(s) \/ Stream!ServerWrite(s) PROVE PlaceInv'
  <2>1. UNCHANGED <<serving, backlog, cpc>>
    BY <1>2 DEF Stream!ServerRead, Stream!ServerWrite, Stream!clientVars
  <2>2. serving[s] \in EchoClients /\ serving[s] # 0
    BY <1>2, <1>p DEF Stream!ServerRead, Stream!ServerWrite, ServerHas, EchoTypes
  <2>3. /\ \A t \in EchoServers : t # s => spc'[t] = spc[t] /\ got'[t] = got[t]
        /\ spc'[s] \in {"read", "write"} /\ (spc'[s] = "write" <=> got'[s] # <<>>)
    <3>1. CASE Stream!ServerRead(s)
      <4> DEFINE q == up[serving[s]]
      <4>1. q \in Seq(Nat) /\ q # <<>> /\ Len(q) \in Nat /\ Len(q) > 0
        BY <2>2, <3>1, EmptySeq, LenProperties DEF Stream!ServerRead, EchoTypes
      <4>2. PICK n \in Stream!Returned(Len(q)) : got' = [got EXCEPT ![s] = SubSeq(q, 1, n)]
        BY <3>1 DEF Stream!ServerRead
      <4>3. n \in 0 .. Len(q) /\ n > 0
        BY <4>1, ReadsSome
      <4>4. SubSeq(q, 1, n) # <<>>
        <5>1. Len(SubSeq(q, 1, n)) = n
          BY <4>1, <4>3, TextCut
        <5> QED
          BY <4>3, <5>1, EmptySeq
      <4>5. spc' = [spc EXCEPT ![s] = "write"]
        BY <3>1 DEF Stream!ServerRead
      <4> HIDE DEF q
      <4> QED
        BY <4>2, <4>4, <4>5 DEF EchoTypes
    <3>2. CASE Stream!ServerWrite(s)
      BY <3>2 DEF Stream!ServerWrite, EchoTypes
    <3> QED
      BY <1>2, <3>1, <3>2
  <2>4. \A c \in EchoClients : cpc[c] # "ended" => cgone'[c] = "open"
    <3>1. CASE Stream!ServerRead(s)
      BY <1>p, <3>1 DEF Stream!ServerRead, OpenUntilEnded
    <3>2. CASE Stream!ServerWrite(s)
      <4>1. PICK end \in Stream!AfterWrite(cgone[serving[s]]) : cgone' = [cgone EXCEPT ![serving[s]] = end]
        BY <3>2 DEF Stream!ServerWrite
      <4>2. cgone[serving[s]] = "open" => end = "open"
        BY <4>1 DEF Stream!AfterWrite
      <4> QED
        BY <1>p, <4>1, <4>2 DEF OpenUntilEnded, EchoTypes
    <3> QED
      BY <1>2, <3>1, <3>2
  <2>5. ServedOnce'
    BY <1>p, <2>1 DEF ServedOnce
  <2>6. QueuedOnce'
    BY <1>p, <2>1 DEF QueuedOnce
  <2>7. QueuedNotServed'
    BY <1>p, <2>1 DEF QueuedNotServed
  <2>8. QueuedStarted'
    BY <1>p, <2>1 DEF QueuedStarted
  <2>9. ServerHas'
    BY <1>p, <2>1, <2>2, <2>3 DEF ServerHas
  <2>10. OpenUntilEnded'
    BY <2>1, <2>4 DEF OpenUntilEnded
  <2> QED
    BY <2>5, <2>6, <2>7, <2>8, <2>9, <2>10 DEF PlaceInv
<1>3. ASSUME NEW s \in EchoServers, Stream!ServerCloses(s) PROVE PlaceInv'
  <2>1. /\ spc' = [spc EXCEPT ![s] = "ended"] /\ serving' = [serving EXCEPT ![s] = 0]
        /\ backlog' = [backlog EXCEPT ![s] = <<>>] /\ got' = [got EXCEPT ![s] = <<>>]
        /\ UNCHANGED <<cpc, cgone>>
    BY <1>3, ServerClosed
  <2>2. \A i \in Nat : i \notin 1 .. Len(<<>>)
    BY EmptySeq
  <2>3. /\ serving'[s] = 0 /\ backlog'[s] = <<>> /\ got'[s] = <<>> /\ spc'[s] = "ended"
        /\ \A t \in EchoServers : t # s => /\ serving'[t] = serving[t] /\ backlog'[t] = backlog[t]
                                           /\ got'[t] = got[t] /\ spc'[t] = spc[t]
    BY <2>1 DEF EchoTypes
  <2>4. ASSUME NEW t \in EchoServers, NEW i \in Nat, i \in 1 .. Len(backlog'[t])
        PROVE  t # s /\ backlog'[t] = backlog[t] /\ i \in 1 .. Len(backlog[t])
               /\ backlog[t][i] \in EchoClients
    BY <1>l, <2>2, <2>3, <2>4
  <2>5. ASSUME NEW t \in EchoServers, NEW u \in EchoServers, NEW i \in Nat, i \in 1 .. Len(backlog'[t])
        PROVE  backlog'[t][i] # serving'[u]
    <3>1. backlog[t][i] # serving[u]
      BY <1>p, <2>4, <2>5 DEF QueuedNotServed
    <3> QED
      BY <2>3, <2>4, <2>5, <3>1
  <2>6. ASSUME NEW t \in EchoServers, NEW u \in EchoServers, NEW i \in Nat, NEW j \in Nat,
               i \in 1 .. Len(backlog'[t]), j \in 1 .. Len(backlog'[u]), backlog'[t][i] = backlog'[u][j]
        PROVE  t = u /\ i = j
    <3>1. /\ i \in 1 .. Len(backlog[t]) /\ j \in 1 .. Len(backlog[u])
          /\ backlog[t][i] = backlog[u][j]
      BY <2>4, <2>6
    <3> QED
      BY <1>p, <3>1 DEF QueuedOnce
  <2>7. ASSUME NEW t \in EchoServers, NEW i \in Nat, i \in 1 .. Len(backlog'[t])
        PROVE  cpc'[backlog'[t][i]] # "off"
    BY <1>p, <2>1, <2>4, <2>7 DEF QueuedStarted
  <2>8. ASSUME NEW t \in EchoServers, NEW u \in EchoServers, serving'[t] = serving'[u], serving'[t] # 0
        PROVE  t = u
    BY <1>p, <2>3, <2>8 DEF ServedOnce
  <2>9. ASSUME NEW t \in EchoServers
        PROVE  /\ serving'[t] # 0 => cpc'[serving'[t]] # "off"
               /\ spc'[t] \in {"read", "write"} <=> serving'[t] # 0
               /\ spc'[t] = "write" <=> got'[t] # <<>>
    BY <1>p, <2>1, <2>3 DEF ServerHas
  <2>10. ServedOnce'
    BY <2>8 DEF ServedOnce
  <2>11. QueuedOnce'
    BY <2>6 DEF QueuedOnce
  <2>12. QueuedNotServed'
    BY <2>5 DEF QueuedNotServed
  <2>13. QueuedStarted'
    BY <2>7 DEF QueuedStarted
  <2>14. ServerHas'
    BY <2>9 DEF ServerHas
  <2>15. OpenUntilEnded'
    BY <1>p, <2>1 DEF OpenUntilEnded
  <2> QED
    BY <2>10, <2>11, <2>12, <2>13, <2>14, <2>15 DEF PlaceInv
<1>4. ASSUME NEW s \in EchoServers, Stream!StartServer(s) \/ Stream!BindServer(s) PROVE PlaceInv'
  <2>1. /\ spc[s] \in {"off", "bind"}
        /\ \E place \in {"bind", "accept", "refused"} : spc' = [spc EXCEPT ![s] = place]
        /\ UNCHANGED <<serving, backlog, got, cpc, cgone>>
    BY <1>4 DEF Stream!StartServer, Stream!BindServer, Stream!clientVars, Stream!wireVars
  <2>2. \A t \in EchoServers : /\ spc'[t] \in {"read", "write"} <=> spc[t] \in {"read", "write"}
                               /\ spc'[t] = "write" <=> spc[t] = "write"
    BY <2>1 DEF EchoTypes
  <2>3. ServedOnce'
    BY <1>p, <2>1 DEF ServedOnce
  <2>4. QueuedOnce'
    BY <1>p, <2>1 DEF QueuedOnce
  <2>5. QueuedNotServed'
    BY <1>p, <2>1 DEF QueuedNotServed
  <2>6. QueuedStarted'
    BY <1>p, <2>1 DEF QueuedStarted
  <2>7. ServerHas'
    BY <1>p, <2>1, <2>2 DEF ServerHas
  <2>8. OpenUntilEnded'
    BY <1>p, <2>1 DEF OpenUntilEnded
  <2> QED
    BY <2>3, <2>4, <2>5, <2>6, <2>7, <2>8 DEF PlaceInv
<1>5. ASSUME NEW c \in EchoClients, Stream!ClientConnects(c) PROVE PlaceInv'
  <2>1. /\ cpc[c] = "off"
        /\ \/ /\ path \in EchoServers /\ backlog' = [backlog EXCEPT ![path] = Append(backlog[path], c)]
              /\ cpc' = [cpc EXCEPT ![c] = "prompt"]
           \/ backlog' = backlog /\ cpc' = [cpc EXCEPT ![c] = "ended"]
        /\ UNCHANGED <<spc, serving, got, cgone>>
    BY <1>5 DEF Stream!ClientConnects, Stream!NoServer, Stream!wireVars, EchoTypes
  <2>2. /\ cpc'[c] \in {"prompt", "ended"} /\ \A d \in EchoClients : d # c => cpc'[d] = cpc[d]
    BY <2>1 DEF EchoTypes
  <2>3. /\ \A t \in EchoServers : serving[t] # c
        /\ \A t \in EchoServers, i \in Nat : i \in 1 .. Len(backlog[t]) => backlog[t][i] # c
    BY SMTT(30), <1>p, <2>1 DEF ServerHas, QueuedStarted
  <2>4. ASSUME NEW t \in EchoServers
        PROVE  /\ serving'[t] # 0 => cpc'[serving'[t]] # "off"
               /\ spc'[t] \in {"read", "write"} <=> serving'[t] # 0
               /\ spc'[t] = "write" <=> got'[t] # <<>>
    <3>1. serving[t] # 0 => serving[t] \in EchoClients /\ serving[t] # c
      BY <2>3 DEF EchoTypes
    <3> QED
      BY <1>p, <2>1, <2>2, <3>1 DEF ServerHas
  <2>5. \A d \in EchoClients : cpc'[d] # "ended" => cgone'[d] = "open"
    BY <1>p, <2>1, <2>2 DEF OpenUntilEnded
  <2>6. CASE backlog' = backlog
    <3>1. ASSUME NEW t \in EchoServers, NEW i \in Nat, i \in 1 .. Len(backlog[t])
          PROVE  cpc'[backlog[t][i]] # "off"
      <4>1. backlog[t][i] \in EchoClients /\ backlog[t][i] # c /\ cpc[backlog[t][i]] # "off"
        BY <1>p, <1>l, <2>3, <3>1 DEF QueuedStarted
      <4> QED
        BY <2>2, <4>1
    <3>2. ServedOnce'
      BY <1>p, <2>1, <2>6 DEF ServedOnce
    <3>3. QueuedOnce'
      BY <1>p, <2>1, <2>6 DEF QueuedOnce
    <3>4. QueuedNotServed'
      BY <1>p, <2>1, <2>6 DEF QueuedNotServed
    <3>5. QueuedStarted'
      BY <2>6, <3>1 DEF QueuedStarted
    <3>6. ServerHas'
      BY <2>4 DEF ServerHas
    <3>7. OpenUntilEnded'
      BY <2>5 DEF OpenUntilEnded
    <3> QED
      BY <3>2, <3>3, <3>4, <3>5, <3>6, <3>7 DEF PlaceInv
  <2>7. CASE path \in EchoServers /\ backlog' = [backlog EXCEPT ![path] = Append(backlog[path], c)]
    <3> DEFINE n == Len(backlog[path]) + 1
    <3>1. /\ \A t \in EchoServers : t # path => backlog'[t] = backlog[t]
          /\ backlog'[path] = Append(backlog[path], c)
      BY <2>7 DEF EchoTypes
    <3>2. \A i \in Nat : i \in 1 .. Len(backlog'[path]) =>
            \/ i \in 1 .. Len(backlog[path]) /\ backlog'[path][i] = backlog[path][i]
            \/ i = n /\ backlog'[path][i] = c
      BY <1>l, <2>7, <3>1, QueueWithOneMore
    <3> HIDE DEF n
    <3>3. \A t \in EchoServers, i \in Nat : i \in 1 .. Len(backlog'[t]) =>
            \/ /\ i \in 1 .. Len(backlog[t]) /\ backlog'[t][i] = backlog[t][i]
               /\ backlog[t][i] # c /\ backlog[t][i] \in EchoClients
            \/ t = path /\ i = n /\ backlog'[t][i] = c
      BY <1>l, <2>3, <3>1, <3>2
    <3>4. ASSUME NEW t \in EchoServers, NEW u \in EchoServers, NEW i \in Nat, NEW j \in Nat,
                 i \in 1 .. Len(backlog'[t]), j \in 1 .. Len(backlog'[u]), backlog'[t][i] = backlog'[u][j]
          PROVE  t = u /\ i = j
      <4>1. CASE backlog'[t][i] = c
        BY <3>3, <3>4, <4>1
      <4>2. CASE backlog'[t][i] # c
        <5>1. /\ i \in 1 .. Len(backlog[t]) /\ j \in 1 .. Len(backlog[u])
              /\ backlog[t][i] = backlog[u][j]
          BY <3>3, <3>4, <4>2
        <5> QED
          BY <1>p, <5>1 DEF QueuedOnce
      <4> QED
        BY <4>1, <4>2
    <3>5. ASSUME NEW t \in EchoServers, NEW u \in EchoServers, NEW i \in Nat, i \in 1 .. Len(backlog'[t])
          PROVE  backlog'[t][i] # serving'[u]
      <4>1. CASE backlog'[t][i] = c
        BY <2>1, <2>3, <4>1
      <4>2. CASE i \in 1 .. Len(backlog[t]) /\ backlog'[t][i] = backlog[t][i]
        BY <1>p, <2>1, <4>2 DEF QueuedNotServed
      <4> QED
        BY <3>3, <3>5, <4>1, <4>2
    <3>6. ASSUME NEW t \in EchoServers, NEW i \in Nat, i \in 1 .. Len(backlog'[t])
          PROVE  cpc'[backlog'[t][i]] # "off"
      <4>1. CASE backlog'[t][i] = c
        BY <2>2, <4>1
      <4>2. CASE /\ i \in 1 .. Len(backlog[t]) /\ backlog'[t][i] = backlog[t][i]
                 /\ backlog[t][i] # c /\ backlog[t][i] \in EchoClients
        <5>1. cpc[backlog[t][i]] # "off"
          BY <1>p, <4>2 DEF QueuedStarted
        <5> QED
          BY <2>2, <4>2, <5>1
      <4> QED
        BY <3>3, <3>6, <4>1, <4>2
    <3>7. serving' = serving
      BY <2>1
    <3>8. ServedOnce'
      BY <1>p, <3>7 DEF ServedOnce
    <3>9. QueuedOnce'
      BY <3>4 DEF QueuedOnce
    <3>10. QueuedNotServed'
      BY <3>5 DEF QueuedNotServed
    <3>11. QueuedStarted'
      BY <3>6 DEF QueuedStarted
    <3>12. ServerHas'
      BY <2>4 DEF ServerHas
    <3>13. OpenUntilEnded'
      BY <2>5 DEF OpenUntilEnded
    <3> QED
      BY <3>8, <3>9, <3>10, <3>11, <3>12, <3>13 DEF PlaceInv
  <2> QED
    BY <2>1, <2>6, <2>7
<1>6. ASSUME NEW c \in EchoClients, cpc[c] # "off",
             \/ cpc' = [cpc EXCEPT ![c] = "ended"] /\ \A d \in EchoClients : d # c => cgone'[d] = cgone[d]
             \/ /\ cpc' = [cpc EXCEPT ![c] = "recv"] \/ cpc' = [cpc EXCEPT ![c] = "prompt"]
                /\ cgone' = cgone /\ cpc[c] # "ended",
             UNCHANGED <<spc, serving, backlog, got>>
      PROVE  PlaceInv'
  <2>1. ASSUME NEW d \in EchoClients
        PROVE  (cpc[d] # "off" => cpc'[d] # "off") /\ (cpc'[d] # "ended" => cgone'[d] = "open")
    <3>1. CASE d = c
      BY <1>6, <1>p, <3>1 DEF OpenUntilEnded, EchoTypes
    <3>2. CASE d # c
      <4>1. cpc'[d] = cpc[d] /\ cgone'[d] = cgone[d]
        BY <1>6, <3>2 DEF EchoTypes
      <4> QED
        BY <1>p, <4>1 DEF OpenUntilEnded
    <3> QED
      BY <3>1, <3>2
  <2>2. \A t \in EchoServers : serving[t] # 0 => serving[t] \in EchoClients
    BY DEF EchoTypes
  <2>3. ASSUME NEW t \in EchoServers
        PROVE  /\ serving'[t] # 0 => cpc'[serving'[t]] # "off"
               /\ spc'[t] \in {"read", "write"} <=> serving'[t] # 0
               /\ spc'[t] = "write" <=> got'[t] # <<>>
    BY <1>p, <1>6, <2>1, <2>2 DEF ServerHas
  <2>4. \A t \in EchoServers, i \in Nat : i \in 1 .. Len(backlog[t]) => cpc'[backlog[t][i]] # "off"
    BY <1>p, <1>l, <2>1 DEF QueuedStarted
  <2>5. ServedOnce'
    BY <1>p, <1>6 DEF ServedOnce
  <2>6. QueuedOnce'
    BY <1>p, <1>6 DEF QueuedOnce
  <2>7. QueuedNotServed'
    BY <1>p, <1>6 DEF QueuedNotServed
  <2>8. QueuedStarted'
    BY <1>6, <2>4 DEF QueuedStarted
  <2>9. ServerHas'
    BY <2>3 DEF ServerHas
  <2>10. OpenUntilEnded'
    BY <2>1 DEF OpenUntilEnded
  <2> QED
    BY <2>5, <2>6, <2>7, <2>8, <2>9, <2>10 DEF PlaceInv
<1>7. ASSUME NEW c \in EchoClients, Stream!ClientCloses(c), cpc[c] # "off" PROVE PlaceInv'
  BY <1>6, <1>7, ClientClosed
<1>8. ASSUME NEW c \in EchoClients, NEW n \in 1 .. Stream!BufferUnits, Stream!ClientWrites(c, n)
      PROVE  PlaceInv'
  BY <1>6, <1>8 DEF Stream!ClientWrites, Stream!serverVars
<1>9. ASSUME NEW c \in EchoClients, Stream!ClientReads(c) PROVE PlaceInv'
  BY <1>6, <1>9 DEF Stream!ClientReads, Stream!serverVars
<1>10. CASE Stream!PortFreed \/ UNCHANGED streamRest
  <2>1. UNCHANGED <<spc, serving, backlog, got, cpc, cgone>>
    BY <1>10 DEF Stream!PortFreed, Stream!clientVars, Stream!wireVars, streamRest
  <2>2. ServedOnce'
    BY <1>p, <2>1 DEF ServedOnce
  <2>3. QueuedOnce'
    BY <1>p, <2>1 DEF QueuedOnce
  <2>4. QueuedNotServed'
    BY <1>p, <2>1 DEF QueuedNotServed
  <2>5. QueuedStarted'
    BY <1>p, <2>1 DEF QueuedStarted
  <2>6. ServerHas'
    BY <1>p, <2>1 DEF ServerHas
  <2>7. OpenUntilEnded'
    BY <1>p, <2>1 DEF OpenUntilEnded
  <2> QED
    BY <2>2, <2>3, <2>4, <2>5, <2>6, <2>7 DEF PlaceInv
<1>11. ASSUME NEW s \in EchoServers, Stream!ServerStep(s) \/ Stream!KillServer(s) PROVE PlaceInv'
  BY <1>1, <1>2, <1>3, <1>11
     DEF Stream!ServerStep, Stream!ServerEnds, Stream!SigPipeServer, Stream!KillServer
<1>12. ASSUME NEW c \in EchoClients,
              Stream!ClientEnds(c) \/ Stream!SigPipeClient(c) \/ Stream!EndOfLines(c)
       PROVE  PlaceInv'
  BY <1>7, <1>12 DEF Stream!ClientEnds, Stream!SigPipeClient, Stream!EndOfLines
<1>13. ASSUME NEW c \in EchoClients, Stream!ClientWritesNothing(c) PROVE PlaceInv'
  BY <1>6, <1>13 DEF Stream!ClientWritesNothing, Stream!serverVars, Stream!history
<1> QED
  BY <1>0, <1>4, <1>5, <1>8, <1>9, <1>10, <1>11, <1>12, <1>13 DEF Stream!StreamNext, Stream!ClientStep

(* The server reads the first n units of what is on its way.               *)
LEMMA TextRead ==
    ASSUME NEW u \in Seq(Nat), NEW d \in Seq(Nat), NEW first \in Nat, NEW last \in Nat,
           Text(u, <<>>, d, first, last), NEW n \in 1 .. Len(u)
    PROVE  Text(SubSeq(u, n + 1, Len(u)), SubSeq(u, 1, n), d, first, last)
<1> DEFINE rest == SubSeq(u, n + 1, Len(u))
           head == SubSeq(u, 1, n)
           sent == last - Len(u)
<1>1. Len(u) \in Nat /\ n \in Nat /\ n \in 0 .. Len(u) /\ Len(<<>>) = 0
  BY LenProperties, EmptySeq
<1>2. /\ Len(head) = n /\ \A i \in 1 .. n : head[i] = u[i]
      /\ Len(rest) = Len(u) - n /\ \A i \in 1 .. Len(u) - n : rest[i] = u[n + i]
  BY <1>1, TextCut
<1> HIDE DEF rest, head
<1>3. /\ sent - 0 \in Nat /\ first <= sent - 0 /\ Answers(d, first, sent - 0)
      /\ \A i \in 1 .. Len(u) : u[i] = sent + i
  BY <1>1 DEF Text, Run
<1>4. /\ sent \in Nat /\ first <= sent /\ Answers(d, first, sent)
  <2>1. sent - 0 = sent
    BY <1>1
  <2> QED
    BY <1>3, <2>1
<1>5. last - Len(rest) = sent + n /\ last - Len(rest) - Len(head) = sent
  BY <1>1, <1>2, <1>4
<1>6. Run(rest, sent + n)
  BY SMTT(30), <1>1, <1>2, <1>3, <1>4 DEF Run
<1>7. Run(head, sent)
  <2>1. \A i \in 1 .. Len(head) : i \in 1 .. n /\ i \in 1 .. Len(u)
    BY <1>1, <1>2
  <2>2. \A i \in 1 .. Len(head) : head[i] = sent + i
    BY <1>2, <1>3, <2>1
  <2> HIDE DEF sent
  <2> QED
    BY <2>2 DEF Run
<1>8. Text(rest, head, d, first, last)
  <2> HIDE DEF sent
  <2> QED
    BY <1>4, <1>5, <1>6, <1>7 DEF Text
<1> QED
  BY <1>8 DEF rest, head

(* A client writes n more units.                                           *)
LEMMA TextWritten ==
    ASSUME NEW u \in Seq(Nat), NEW g \in Seq(Nat), NEW d \in Seq(Nat), NEW first \in Nat,
           NEW last \in Nat, Text(u, g, d, first, last), NEW n \in Nat
    PROVE  Text(u \o [i \in 1 .. n |-> last + i], g, d, first, last + n)
<1> DEFINE new == [i \in 1 .. n |-> last + i]
           sent == last - Len(u)
<1>1. Len(u) \in Nat /\ Len(g) \in Nat
  BY LenProperties
<1>2. new \in Seq(Nat) /\ Len(new) = n /\ \A i \in 1 .. n : new[i] = last + i
  OBVIOUS
<1> HIDE DEF new
<1>3. /\ Len(u \o new) = Len(u) + n
      /\ \A i \in 1 .. Len(u \o new) :
           \/ i \in 1 .. Len(u) /\ (u \o new)[i] = u[i]
           \/ \E j \in 1 .. Len(new) : i = Len(u) + j /\ (u \o new)[i] = new[j]
  BY <1>2, TextJoin
<1>4. /\ sent - Len(g) \in Nat /\ first <= sent - Len(g)
      /\ Run(u, sent) /\ Run(g, sent - Len(g)) /\ Answers(d, first, sent - Len(g))
  BY DEF Text
<1>5. last + n - Len(u \o new) = sent
  BY <1>1, <1>3
<1>6. ASSUME NEW i \in 1 .. Len(u \o new) PROVE (u \o new)[i] = sent + i
  <2>1. CASE i \in 1 .. Len(u) /\ (u \o new)[i] = u[i]
    BY <1>4, <2>1 DEF Run
  <2>2. CASE \E j \in 1 .. Len(new) : i = Len(u) + j /\ (u \o new)[i] = new[j]
    BY <1>1, <1>2, <2>2
  <2> QED
    BY <1>3, <2>1, <2>2
<1>7. Run(u \o new, sent)
  BY <1>6 DEF Run
<1>8. Text(u \o new, g, d, first, last + n)
  <2> HIDE DEF sent
  <2> QED
    BY <1>4, <1>5, <1>7 DEF Text
<1> QED
  BY <1>8 DEF new

(* The server sends its buffer back behind the prefix.                     *)
LEMMA TextAnswered ==
    ASSUME NEW u \in Seq(Nat), NEW g \in Seq(Nat), NEW d \in Seq(Nat), NEW first \in Nat,
           NEW last \in Nat, Text(u, g, d, first, last), g # <<>>
    PROVE  Text(u, <<>>, d \o (<<0>> \o g), first, last)
<1> DEFINE one == <<0>>
           answer == one \o g
           sent == last - Len(u)
           echoed == sent - Len(g)
           back == d \o answer
<1>1. Len(u) \in Nat /\ Len(g) \in Nat /\ Len(d) \in Nat /\ Len(g) > 0 /\ Len(<<>>) = 0
  BY LenProperties, EmptySeq
<1>2. one \in Seq(Nat) /\ Len(one) = 1 /\ one[1] = 0
  OBVIOUS
<1>3. /\ answer \in Seq(Nat) /\ Len(answer) = 1 + Len(g)
      /\ \A i \in 1 .. Len(answer) :
           (i \in 1 .. 1 /\ answer[i] = 0) \/ \E j \in 1 .. Len(g) : i = 1 + j /\ answer[i] = g[j]
      /\ \A j \in 1 .. Len(g) : answer[1 + j] = g[j]
  <2> HIDE DEF one
  <2>1. /\ answer \in Seq(Nat) /\ Len(answer) = Len(one) + Len(g)
        /\ \A i \in 1 .. Len(g) : answer[Len(one) + i] = g[i]
        /\ \A i \in 1 .. Len(answer) :
             \/ i \in 1 .. Len(one) /\ answer[i] = one[i]
             \/ \E j \in 1 .. Len(g) : i = Len(one) + j /\ answer[i] = g[j]
    BY <1>2, TextJoin
  <2>2. \A i \in 1 .. Len(one) : i \in 1 .. 1 /\ one[i] = 0
    BY <1>2
  <2> HIDE DEF answer
  <2> QED
    BY <1>2, <2>1, <2>2
<1>4. /\ echoed \in Nat /\ first <= echoed /\ Run(u, sent) /\ Run(g, echoed) /\ Answers(d, first, echoed)
  BY DEF Text
<1>5. sent \in Nat /\ sent = echoed + Len(g) /\ sent - 0 = sent
  BY <1>1, <1>4
<1> HIDE DEF answer, echoed
<1>6. \A j \in 1 .. Len(answer) : answer[j] = IF j = 1 THEN 0 ELSE echoed + (j - 1)
  <2>1. \A j \in 1 .. Len(g) : g[j] = echoed + j
    BY <1>4 DEF Run
  <2> QED
    BY SMTT(30), <1>1, <1>3, <1>4, <2>1
<1>7. /\ Len(back) = Len(d) + 1 + Len(g)
      /\ \A i \in 1 .. Len(back) :
           \/ i \in 1 .. Len(d) /\ back[i] = d[i]
           \/ \E j \in 1 .. Len(answer) : i = Len(d) + j /\ back[i] = answer[j]
      /\ \A i \in 1 .. Len(d) : back[i] = d[i] /\ i \in 1 .. Len(back)
      /\ \A j \in 1 .. Len(answer) : back[Len(d) + j] = answer[j] /\ Len(d) + j \in 1 .. Len(back)
  <2>1. /\ Len(back) = Len(d) + Len(answer)
        /\ \A i \in 1 .. Len(back) :
             \/ i \in 1 .. Len(d) /\ back[i] = d[i]
             \/ \E j \in 1 .. Len(answer) : i = Len(d) + j /\ back[i] = answer[j]
        /\ \A i \in 1 .. Len(d) : back[i] = d[i] /\ i \in 1 .. Len(back)
        /\ \A j \in 1 .. Len(answer) : back[Len(d) + j] = answer[j] /\ Len(d) + j \in 1 .. Len(back)
    BY <1>3, TextJoin
  <2> HIDE DEF back
  <2>2. Len(d) + Len(answer) = Len(d) + 1 + Len(g)
    BY <1>1, <1>3
  <2> QED
    BY <2>1, <2>2
<1> HIDE DEF back, sent
<1>8. \A i \in 1 .. Len(back) :
        \/ i \in 1 .. Len(d) /\ back[i] = d[i] /\ (d[i] = 0 \/ d[i] \in first + 1 .. echoed)
        \/ i = Len(d) + 1 /\ back[i] = 0
        \/ i > Len(d) + 1 /\ back[i] = echoed + (i - Len(d) - 1) /\ back[i] \in echoed + 1 .. sent
  <2> SUFFICES ASSUME NEW i \in 1 .. Len(back), i \notin 1 .. Len(d)
               PROVE  \/ i = Len(d) + 1 /\ back[i] = 0
                      \/ i > Len(d) + 1 /\ back[i] = echoed + (i - Len(d) - 1)
                         /\ back[i] \in echoed + 1 .. sent
    BY <1>4, <1>7 DEF Answers
  <2>1. PICK j \in 1 .. Len(answer) : i = Len(d) + j /\ back[i] = answer[j]
    BY <1>7
  <2>2. CASE j = 1
    BY <1>1, <1>6, <2>1, <2>2
  <2>3. CASE j # 1
    <3>1. j \in 2 .. 1 + Len(g) /\ back[i] = echoed + (j - 1) /\ i - Len(d) - 1 = j - 1
      BY <1>1, <1>3, <1>6, <2>1, <2>3
    <3> QED
      BY SMTT(30), <1>1, <1>4, <1>5, <2>1, <3>1
  <2> QED
    BY <2>2, <2>3
<1>c. \A i \in 1 .. Len(back) : i \in 1 .. Len(d) \/ i = Len(d) + 1 \/ i > Len(d) + 1
  BY <1>1
<1>m. ASSUME NEW i \in 1 .. Len(back), i = Len(d) + 1 PROVE back[i] = 0
  <2>1. i \notin 1 .. Len(d) /\ ~(i > Len(d) + 1)
    BY <1>1, <1>m
  <2> QED
    BY <1>8, <2>1
<1>t. ASSUME NEW i \in 1 .. Len(back), i > Len(d) + 1
      PROVE  back[i] = echoed + (i - Len(d) - 1) /\ back[i] \in echoed + 1 .. sent
  <2>1. i \notin 1 .. Len(d) /\ i # Len(d) + 1
    BY <1>1, <1>t
  <2> QED
    BY <1>8, <2>1
<1>9. Answers(back, first, sent)
  <2>n. echoed \in Nat /\ sent \in Nat /\ echoed <= sent /\ first <= echoed
    BY <1>1, <1>4, <1>5
  <2>1. ASSUME NEW i \in 1 .. Len(back), back[i] # 0 PROVE back[i] \in first + 1 .. sent
    <3>1. back[i] \in first + 1 .. echoed \/ back[i] \in echoed + 1 .. sent
      BY <1>8, <2>1
    <3> QED
      BY SMTT(30), <2>n, <3>1
  <2>2. ASSUME NEW k \in first + 1 .. sent PROVE \E i \in 1 .. Len(back) : back[i] = k
    <3>1. CASE k <= echoed
      <4>1. PICK i \in 1 .. Len(d) : d[i] = k
        BY <1>4, <3>1 DEF Answers
      <4> QED
        BY <1>7, <4>1
    <3>2. CASE k > echoed
      <4> DEFINE j == k - echoed + 1
      <4>1. j \in 2 .. Len(answer) /\ j \in 1 .. Len(answer) /\ j - 1 = k - echoed
        BY <1>1, <1>3, <1>4, <1>5, <3>2
      <4>2. answer[j] = k
        <5>1. answer[j] = echoed + (j - 1)
          BY <1>6, <4>1
        <5> QED
          BY <2>n, <4>1, <5>1
      <4> HIDE DEF j
      <4> QED
        BY <1>7, <4>1, <4>2
    <3> QED
      BY <1>4, <1>5, <3>1, <3>2
  <2>3. ASSUME NEW i \in 1 .. Len(back), NEW j \in 1 .. Len(back), i < j, back[i] # 0, back[j] # 0
        PROVE  back[i] < back[j]
    <3>1. CASE i \in 1 .. Len(d) /\ j \in 1 .. Len(d)
      BY <1>4, <1>7, <2>3, <3>1 DEF Answers
    <3>2. CASE i \in 1 .. Len(d) /\ j > Len(d) + 1
      <4>1. back[i] \in first + 1 .. echoed
        BY <1>4, <1>7, <2>3, <3>2 DEF Answers
      <4>2. back[j] \in echoed + 1 .. sent
        BY <1>t, <3>2
      <4> QED
        BY SMTT(30), <2>n, <4>1, <4>2
    <3>3. CASE i > Len(d) + 1 /\ j > Len(d) + 1
      <4>1. back[i] = echoed + (i - Len(d) - 1) /\ back[j] = echoed + (j - Len(d) - 1)
        BY <1>t, <3>3
      <4> QED
        BY <1>1, <2>3, <2>n, <4>1
    <3> QED
      <4>1. i # Len(d) + 1 /\ j # Len(d) + 1
        BY <1>m, <2>3
      <4>2. i > Len(d) + 1 => j > Len(d) + 1
        BY <1>1, <2>3
      <4> QED
        BY <1>c, <3>1, <3>2, <3>3, <4>1, <4>2
  <2>4. ASSUME NEW i \in 1 .. Len(back), back[i] = 0
        PROVE  i + 1 \in 1 .. Len(back) /\ back[i + 1] # 0
    <3>1. CASE i \in 1 .. Len(d)
      <4>1. i + 1 \in 1 .. Len(d) /\ d[i + 1] # 0
        BY <1>4, <1>7, <2>4, <3>1 DEF Answers
      <4> QED
        BY <1>7, <4>1
    <3>2. CASE i = Len(d) + 1
      <4>1. 2 \in 1 .. Len(answer) /\ answer[2] = echoed + 1 /\ i + 1 = Len(d) + 2
        BY SMTT(30), <1>1, <1>3, <1>4, <1>6, <3>2
      <4> QED
        BY <1>4, <1>7, <4>1
    <3> QED
      <4>1. ASSUME i > Len(d) + 1 PROVE FALSE
        <5>1. back[i] \in echoed + 1 .. sent
          BY <1>t, <4>1
        <5> QED
          BY <2>4, <2>n, <5>1
      <4> QED
        BY <1>c, <3>1, <3>2, <4>1
  <2> QED
    BY <2>1, <2>2, <2>3, <2>4 DEF Answers
<1>10. Run(<<>>, sent)
  BY <1>1 DEF Run
<1>11. Text(u, <<>>, back, first, last)
  <2>1. last - Len(u) = sent
    BY DEF sent
  <2>2. first <= sent
    BY <1>1, <1>4, <1>5
  <2> QED
    BY <1>1, <1>4, <1>5, <1>9, <1>10, <2>1, <2>2 DEF Text
<1> QED
  BY <1>11 DEF back, answer, one

(* The client reads n units; print is the last one it has printed then.    *)
LEMMA TextPrinted ==
    ASSUME NEW u \in Seq(Nat), NEW g \in Seq(Nat), NEW d \in Seq(Nat), NEW first \in Nat,
           NEW last \in Nat, Text(u, g, d, first, last),
           NEW n \in 1 .. Len(d), NEW print \in Nat,
           \A i \in 1 .. n : d[i] = 0 \/ d[i] <= print,
           print = first \/ \E m \in 1 .. n : d[m] = print /\ print # 0
    PROVE  /\ Text(u, g, SubSeq(d, n + 1, Len(d)), print, last)
           /\ print >= first /\ (n = Len(d) \/ n = 2 => print > first)
<1> DEFINE echoed == last - Len(u) - Len(g)
           rest == SubSeq(d, n + 1, Len(d))
<1>1. Len(u) \in Nat /\ Len(g) \in Nat /\ Len(d) \in Nat /\ n \in 0 .. Len(d) /\ \A i \in 1 .. Len(d) : d[i] \in Nat
  BY LenProperties, ElementOfSeq
<1>2. /\ echoed \in Nat /\ first <= echoed /\ Run(u, last - Len(u)) /\ Run(g, echoed)
      /\ Answers(d, first, echoed)
  BY DEF Text
<1>3. Len(rest) = Len(d) - n /\ \A i \in 1 .. Len(d) - n : rest[i] = d[n + i]
  BY <1>1, TextCut
<1> HIDE DEF rest, echoed
<1>8. \A i \in 1 .. Len(d) : d[i] = 0 \/ d[i] \in first + 1 .. echoed
  BY <1>2 DEF Answers
<1>r. \A k \in first + 1 .. echoed : \E i \in 1 .. Len(d) : d[i] = k
  BY <1>2 DEF Answers
<1>o. \A i, j \in 1 .. Len(d) : i < j /\ d[i] # 0 /\ d[j] # 0 => d[i] < d[j]
  BY <1>2 DEF Answers
<1>z. \A i \in 1 .. Len(d) : d[i] = 0 => i + 1 \in 1 .. Len(d) /\ d[i + 1] # 0
  BY <1>2 DEF Answers
<1>n. echoed \in Nat /\ first <= echoed
  BY <1>2
<1>9. /\ print \in first .. echoed
      /\ \A i \in 1 .. n : d[i] = 0 \/ d[i] <= print
      /\ \A i \in 1 .. Len(d) : i > n /\ d[i] # 0 => d[i] > print
  <2>1. CASE print = first
    <3>1. \A i \in 1 .. Len(d) : d[i] # 0 => d[i] > first
      BY <1>1, <1>8
    <3> QED
      BY <1>n, <2>1, <3>1
  <2>2. CASE \E m \in 1 .. n : d[m] = print /\ print # 0
    <3>1. PICK m \in 1 .. n : d[m] = print /\ print # 0
      BY <2>2
    <3>2. m \in 1 .. Len(d)
      BY <1>1
    <3>3. print \in first + 1 .. echoed
      BY <1>8, <3>1, <3>2
    <3>4. ASSUME NEW i \in 1 .. Len(d), i > n, d[i] # 0 PROVE d[i] > print
      <4>1. m < i
        BY <1>1, <3>4
      <4>2. d[m] < d[i]
        BY <1>o, <3>1, <3>2, <3>4, <4>1
      <4> QED
        BY <1>1, <3>1, <3>2, <4>2
    <3>5. print \in first .. echoed
      BY <1>n, <3>3
    <3> QED
      BY <3>4, <3>5
  <2> QED
    BY <2>1, <2>2
<1>10. Answers(rest, print, echoed)
  <2>0. \A i \in 1 .. Len(rest) : n + i \in 1 .. Len(d) /\ n + i > n /\ rest[i] = d[n + i] /\ i \in Nat
    <3>1. \A i \in 1 .. Len(rest) : i \in 1 .. Len(d) - n /\ n + i \in 1 .. Len(d) /\ n + i > n
      BY <1>1, <1>3
    <3> QED
      BY <1>3, <3>1
  <2>p. print \in Nat /\ first <= print /\ print <= echoed
    BY <1>n, <1>9
  <2>1. ASSUME NEW i \in 1 .. Len(rest), rest[i] # 0 PROVE rest[i] \in print + 1 .. echoed
    <3>1. d[n + i] \in first + 1 .. echoed /\ d[n + i] > print
      BY <1>8, <1>9, <2>0, <2>1
    <3>2. d[n + i] \in print + 1 .. echoed
      BY SMTT(30), <1>n, <2>p, <3>1
    <3> QED
      BY <2>0, <3>2
  <2>2. ASSUME NEW k \in print + 1 .. echoed PROVE \E i \in 1 .. Len(rest) : rest[i] = k
    <3>1. k \in first + 1 .. echoed /\ k > print /\ k # 0
      BY <1>n, <2>p
    <3>2. PICK i \in 1 .. Len(d) : d[i] = k
      BY <1>r, <3>1
    <3>3. i \notin 1 .. n
      <4>1. ASSUME i \in 1 .. n PROVE k <= print
        BY <1>9, <3>1, <3>2, <4>1
      <4> QED
        BY <2>p, <3>1, <4>1
    <3>4. i - n \in 1 .. Len(rest) /\ n + (i - n) = i
      BY <1>1, <1>3, <3>3
    <3> QED
      BY <2>0, <3>2, <3>4
  <2>3. ASSUME NEW i \in 1 .. Len(rest), NEW j \in 1 .. Len(rest), i < j, rest[i] # 0, rest[j] # 0
        PROVE  rest[i] < rest[j]
    <3>1. n + i < n + j
      BY <1>1, <2>0, <2>3
    <3> QED
      BY <1>o, <2>0, <2>3, <3>1
  <2>4. ASSUME NEW i \in 1 .. Len(rest), rest[i] = 0
        PROVE  i + 1 \in 1 .. Len(rest) /\ rest[i + 1] # 0
    <3>1. n + i + 1 \in 1 .. Len(d) /\ d[n + i + 1] # 0
      BY <1>z, <2>0, <2>4
    <3>2. i + 1 \in 1 .. Len(rest) /\ n + (i + 1) = n + i + 1
      BY <1>1, <1>3, <3>1
    <3> QED
      BY <2>0, <3>1, <3>2
  <2> QED
    BY <2>1, <2>2, <2>3, <2>4 DEF Answers
<1>11. Text(u, g, rest, print, last)
  <2>1. echoed = last - Len(u) - Len(g)
    BY DEF echoed
  <2>2. print <= echoed
    BY <1>n, <1>9
  <2> QED
    BY <1>2, <1>10, <2>1, <2>2 DEF Text
<1>12. ASSUME n = Len(d) \/ n = 2 PROVE print > first
  <2>1. PICK i \in 1 .. n : d[i] # 0
    <3>1. CASE d[1] # 0
      BY <3>1
    <3>2. CASE d[1] = 0
      <4>1. 2 \in 1 .. Len(d) /\ d[2] # 0
        BY <1>1, <1>z, <3>2
      <4>2. 2 \in 1 .. n
        BY <1>1, <1>12, <4>1
      <4> QED
        BY <4>1, <4>2
    <3> QED
      BY <3>1, <3>2
  <2>2. i \in 1 .. Len(d)
    BY <1>1
  <2>3. d[i] \in first + 1 .. echoed /\ d[i] <= print
    BY <1>8, <1>9, <2>1, <2>2
  <2> QED
    BY <1>n, <1>9, <2>3
<1>13. print >= first
  BY <1>n, <1>9
<1> QED
  BY <1>9, <1>11, <1>12, <1>13 DEF rest

(* Text that is complete and in order on each part of its way is so on the *)
(* whole of it.                                                            *)
LEMMA TextInOrder ==
    ASSUME NEW u \in Seq(Nat), NEW g \in Seq(Nat), NEW d \in Seq(Nat), NEW first \in Nat,
           NEW last \in Nat, Text(u, g, d, first, last)
    PROVE  LET back == d \o g \o u
               text == {i \in DOMAIN back : back[i] # 0}
           IN  /\ {back[i] : i \in text} = (first + 1) .. last
               /\ \A i, j \in text : i < j => back[i] < back[j]
<1> DEFINE front == d \o g
           back == front \o u
           sent == last - Len(u)
           echoed == sent - Len(g)
<1>1. Len(u) \in Nat /\ Len(g) \in Nat /\ Len(d) \in Nat
  BY LenProperties
<1>2. /\ echoed \in Nat /\ first <= echoed /\ Run(u, sent) /\ Run(g, echoed)
      /\ Answers(d, first, echoed)
  BY DEF Text
<1>3. /\ sent \in Nat /\ sent = echoed + Len(g) /\ last = sent + Len(u)
  BY <1>1, <1>2
<1>n. echoed \in Nat /\ first <= echoed
  BY <1>2
<1>4. /\ front \in Seq(Nat) /\ Len(front) = Len(d) + Len(g)
      /\ \A i \in 1 .. Len(d) : front[i] = d[i] /\ i \in 1 .. Len(front)
      /\ \A i \in 1 .. Len(g) : front[Len(d) + i] = g[i] /\ Len(d) + i \in 1 .. Len(front)
      /\ \A i \in 1 .. Len(front) :
           \/ i \in 1 .. Len(d) /\ front[i] = d[i]
           \/ \E j \in 1 .. Len(g) : i = Len(d) + j /\ front[i] = g[j]
  BY TextJoin
<1> HIDE DEF front
<1>5. /\ back \in Seq(Nat) /\ Len(back) = Len(front) + Len(u)
      /\ \A i \in 1 .. Len(front) : back[i] = front[i] /\ i \in 1 .. Len(back)
      /\ \A i \in 1 .. Len(u) : back[Len(front) + i] = u[i] /\ Len(front) + i \in 1 .. Len(back)
      /\ \A i \in 1 .. Len(back) :
           \/ i \in 1 .. Len(front) /\ back[i] = front[i]
           \/ \E j \in 1 .. Len(u) : i = Len(front) + j /\ back[i] = u[j]
  BY <1>4, TextJoin
<1>6. DOMAIN back = 1 .. Len(back)
  BY <1>5, LenProperties
<1> HIDE DEF back, sent, echoed
<1>7. ASSUME NEW i \in 1 .. Len(back), i \notin 1 .. Len(d)
      PROVE  i > Len(d) /\ back[i] = echoed + (i - Len(d)) /\ back[i] \in echoed + 1 .. last
  <2>1. CASE i \in 1 .. Len(front) /\ back[i] = front[i]
    <3>1. PICK j \in 1 .. Len(g) : i = Len(d) + j /\ front[i] = g[j]
      BY <1>4, <1>7, <2>1
    <3>2. g[j] = echoed + j
      BY <1>2 DEF Run
    <3> QED
      <4>1. i > Len(d) /\ j = i - Len(d) /\ back[i] = echoed + j
        BY <1>1, <2>1, <3>1, <3>2
      <4>2. echoed + j \in echoed + 1 .. last
        BY <1>1, <1>3, <1>n
      <4> QED
        BY <4>1, <4>2
  <2>2. CASE \E j \in 1 .. Len(u) : i = Len(front) + j /\ back[i] = u[j]
    <3>1. PICK j \in 1 .. Len(u) : i = Len(front) + j /\ back[i] = u[j]
      BY <2>2
    <3>2. u[j] = sent + j
      BY <1>2 DEF Run
    <3> QED
      <4>1. i > Len(d) /\ i - Len(d) = Len(g) + j
        BY <1>1, <1>4, <3>1
      <4>2. sent + j = echoed + (Len(g) + j) /\ sent + j \in echoed + 1 .. last
        BY <1>1, <1>3, <1>n
      <4> QED
        BY <3>1, <3>2, <4>1, <4>2
  <2> QED
    BY <1>5, <2>1, <2>2
<1>8. \A i \in 1 .. Len(d) : i \in 1 .. Len(back) /\ back[i] = d[i] /\ (d[i] = 0 \/ d[i] \in first + 1 .. echoed)
  BY <1>2, <1>4, <1>5 DEF Answers
<1>9. ASSUME NEW i \in 1 .. Len(back), back[i] # 0 PROVE back[i] \in first + 1 .. last
  <2>1. back[i] \in first + 1 .. echoed \/ back[i] \in echoed + 1 .. last
    BY <1>7, <1>8, <1>9
  <2> QED
    BY SMTT(30), <1>1, <1>2, <1>3, <2>1
<1>10. ASSUME NEW k \in first + 1 .. last PROVE \E i \in 1 .. Len(back) : back[i] = k
  <2>1. CASE k <= echoed
    <3>1. PICK i \in 1 .. Len(d) : d[i] = k
      <4>1. k \in first + 1 .. echoed
        BY <1>n, <2>1
      <4> QED
        BY <1>2, <4>1 DEF Answers
    <3> QED
      BY <1>8, <3>1
  <2>2. CASE k > echoed
    <3> DEFINE i == Len(d) + (k - echoed)
    <3>1. i \in 1 .. Len(back) /\ i \notin 1 .. Len(d) /\ echoed + (i - Len(d)) = k
      <4>1. Len(back) = Len(d) + Len(g) + Len(u)
        BY <1>4, <1>5
      <4>2. k - echoed \in 1 .. Len(g) + Len(u)
        BY <1>1, <1>3, <1>n, <2>2
      <4> QED
        BY <1>1, <1>n, <4>1, <4>2
    <3> HIDE DEF i
    <3> QED
      BY <1>7, <3>1
  <2> QED
    BY <1>2, <2>1, <2>2
<1>11. ASSUME NEW i \in 1 .. Len(back), NEW j \in 1 .. Len(back), i < j, back[i] # 0, back[j] # 0
       PROVE  back[i] < back[j]
  <2>1. CASE j \in 1 .. Len(d)
    <3>1. i \in 1 .. Len(d)
      BY <1>1, <1>11, <2>1
    <3> QED
      BY <1>2, <1>8, <1>11, <2>1, <3>1 DEF Answers
  <2>2. CASE i \in 1 .. Len(d) /\ j \notin 1 .. Len(d)
    <3>1. back[i] \in first + 1 .. echoed /\ back[j] \in echoed + 1 .. last
      BY <1>7, <1>8, <1>11, <2>2
    <3> QED
      BY SMTT(30), <1>1, <1>2, <1>3, <3>1
  <2>3. CASE i \notin 1 .. Len(d) /\ j \notin 1 .. Len(d)
    <3>1. back[i] = echoed + (i - Len(d)) /\ back[j] = echoed + (j - Len(d))
      BY <1>7, <2>3
    <3> QED
      BY <1>1, <1>2, <1>11, <3>1
  <2> QED
    BY <2>1, <2>2, <2>3
<1>12. {back[i] : i \in {i \in DOMAIN back : back[i] # 0}} = (first + 1) .. last
  <2>1. \A k \in first + 1 .. last : k # 0
    OBVIOUS
  <2> QED
    BY <1>6, <1>9, <1>10, <2>1
<1>13. \A i, j \in {i \in DOMAIN back : back[i] # 0} : i < j => back[i] < back[j]
  BY <1>6, <1>11
<1> QED
  BY <1>12, <1>13 DEF back, front

(* A client is answered from the buffer of the one server that serves it.  *)
LEMMA EchoedBy ==
    ASSUME EchoTypes, ServedOnce, NEW c \in EchoClients
    PROVE  /\ Stream!BeingEchoed(c) \in Seq(Nat)
           /\ \A s \in EchoServers : serving[s] = c => Stream!BeingEchoed(c) = got[s]
           /\ (\A s \in EchoServers : serving[s] # c) => Stream!BeingEchoed(c) = <<>>
<1>1. c # 0
  BY ExercisesAssumption
<1>2. ASSUME NEW s \in EchoServers, serving[s] = c PROVE Stream!BeingEchoed(c) = got[s]
  <2>1. s = CHOOSE t \in EchoServers : serving[t] = c
    BY <1>1, <1>2 DEF ServedOnce
  <2> QED
    BY <1>2, <2>1 DEF Stream!BeingEchoed
<1>3. ASSUME \A s \in EchoServers : serving[s] # c PROVE Stream!BeingEchoed(c) = <<>>
  BY <1>3 DEF Stream!BeingEchoed
<1>4. <<>> \in Seq(Nat) /\ \A s \in EchoServers : got[s] \in Seq(Nat)
  BY EmptySeq DEF EchoTypes
<1> QED
  BY <1>2, <1>3, <1>4

(* ... and so it is after the step.                                        *)
LEMMA EchoedByNext ==
    ASSUME EchoTypes', ServedOnce', NEW c \in EchoClients
    PROVE  /\ \A s \in EchoServers : serving'[s] = c => Stream!BeingEchoed(c)' = got'[s]
           /\ (\A s \in EchoServers : serving'[s] # c) => Stream!BeingEchoed(c)' = <<>>
<1>1. c # 0
  BY ExercisesAssumption
<1>2. ASSUME NEW s \in EchoServers, serving'[s] = c PROVE Stream!BeingEchoed(c)' = got'[s]
  <2>1. s = CHOOSE t \in EchoServers : serving'[t] = c
    BY <1>1, <1>2 DEF ServedOnce
  <2> QED
    BY <1>2, <2>1 DEF Stream!BeingEchoed
<1>3. ASSUME \A s \in EchoServers : serving'[s] # c PROVE Stream!BeingEchoed(c)' = <<>>
  BY <1>3 DEF Stream!BeingEchoed
<1> QED
  BY <1>2, <1>3

(* Every step moves text one place further, and only at its end loses it.  *)
LEMMA TextInductive ==
    EchoTypes /\ EchoTypes' /\ PlaceInv /\ PlaceInv' /\ TextInv /\ [Next]_vars => TextInv'
<1> SUFFICES ASSUME EchoTypes, EchoTypes', PlaceInv, PlaceInv', TextInv, [Next]_vars PROVE TextInv'
  OBVIOUS
<1> USE ExercisesAssumption
<1>0. Stream!StreamNext \/ UNCHANGED streamRest
  BY DEF Next, vars
<1>p. ServedOnce /\ ServedOnce' /\ QueuedNotServed /\ ServerHas /\ OpenUntilEnded
  BY DEF PlaceInv
<1>s. ASSUME NEW c \in EchoClients
      PROVE  /\ up[c] \in Seq(Nat) /\ down[c] \in Seq(Nat) /\ shown[c] \in Nat /\ written[c] \in Nat
             /\ Stream!BeingEchoed(c) \in Seq(Nat) /\ c # 0
  BY <1>p, EchoedBy DEF EchoTypes
<1>g. ASSUME NEW c \in EchoClients, sgone[c] = "open" /\ cgone[c] = "open"
      PROVE  Text(up[c], Stream!BeingEchoed(c), down[c], shown[c], written[c])
  BY <1>g DEF TextInv, TextAt
(* The buffer for c, when neither its server nor the buffer changes.       *)
<1>b. ASSUME NEW c \in EchoClients,
             \A s \in EchoServers : /\ serving'[s] = c <=> serving[s] = c
                                    /\ serving[s] = c => got'[s] = got[s]
      PROVE  Stream!BeingEchoed(c)' = Stream!BeingEchoed(c)
  <2>1. CASE \E s \in EchoServers : serving[s] = c
    <3>1. PICK s \in EchoServers : serving[s] = c
      BY <2>1
    <3>2. serving'[s] = c /\ got'[s] = got[s]
      BY <1>b, <3>1
    <3> QED
      BY <1>p, <3>1, <3>2, EchoedBy, EchoedByNext
  <2>2. CASE \A s \in EchoServers : serving[s] # c
    BY <1>b, <1>p, <2>2, EchoedBy, EchoedByNext
  <2> QED
    BY <2>1, <2>2
(* A step that has nothing to do with the text of c.                       *)
<1>f. ASSUME NEW c \in EchoClients,
             sgone'[c] = "open" /\ cgone'[c] = "open" =>
                /\ sgone[c] = "open" /\ cgone[c] = "open"
                /\ up'[c] = up[c] /\ down'[c] = down[c] /\ shown'[c] = shown[c] /\ written'[c] = written[c]
                /\ Stream!BeingEchoed(c)' = Stream!BeingEchoed(c)
      PROVE  TextAt(c)'
  BY <1>f, <1>g DEF TextAt
<1>1. ASSUME NEW s \in EchoServers, Stream!AcceptClient(s), NEW c \in EchoClients PROVE TextAt(c)'
  <2>1. /\ backlog[s] # <<>> /\ spc[s] = "accept" /\ serving' = [serving EXCEPT ![s] = Head(backlog[s])]
        /\ UNCHANGED <<got, up, down, sgone, cgone, written, shown>>
    BY <1>1 DEF Stream!AcceptClient, Stream!clientVars, Stream!wireVars, Stream!history
  <2>2. /\ serving[s] = 0 /\ got[s] = <<>>
    BY <1>p, <2>1 DEF ServerHas
  <2>3. Head(backlog[s]) = backlog[s][1] /\ 1 \in 1 .. Len(backlog[s])
    <3>1. backlog[s] \in Seq(EchoClients)
      BY DEF EchoTypes
    <3> QED
      BY <2>1, <3>1, TailOfQueue
  <2>4. /\ serving'[s] = backlog[s][1] /\ \A t \in EchoServers : t # s => serving'[t] = serving[t]
    BY <2>1, <2>3 DEF EchoTypes
  <2>5. Stream!BeingEchoed(c)' = Stream!BeingEchoed(c)
    <3>1. CASE c = backlog[s][1]
      <4>1. \A t \in EchoServers : serving[t] # c
        BY <1>p, <2>3, <3>1 DEF QueuedNotServed
      <4>2. serving'[s] = c /\ got'[s] = <<>>
        BY <2>1, <2>2, <2>4, <3>1
      <4> QED
        BY <1>p, <4>1, <4>2, EchoedBy, EchoedByNext
    <3>2. CASE c # backlog[s][1]
      BY <1>b, <1>s, <2>1, <2>2, <2>4, <3>2
    <3> QED
      BY <3>1, <3>2
  <2> QED
    BY <1>f, <2>1, <2>5
<1>2. ASSUME NEW s \in EchoServers, Stream!ServerRead(s), NEW c \in EchoClients PROVE TextAt(c)'
  <2>1. /\ spc[s] = "read" /\ up[serving[s]] # <<>>
        /\ UNCHANGED <<serving, down, sgone, cgone, written, shown>>
    BY <1>2 DEF Stream!ServerRead, Stream!clientVars, Stream!history
  <2>2. serving[s] \in EchoClients /\ got[s] = <<>>
    BY <1>p, <2>1 DEF ServerHas, EchoTypes
  <2> DEFINE q == up[serving[s]]
  <2>3. PICK n \in Stream!Returned(Len(q)) : /\ got' = [got EXCEPT ![s] = SubSeq(q, 1, n)]
                                            /\ up' = [up EXCEPT ![serving[s]] = SubSeq(q, n + 1, Len(q))]
    BY <1>2 DEF Stream!ServerRead
  <2>4. n \in 1 .. Len(q)
    <3>1. q \in Seq(Nat) /\ Len(q) \in Nat /\ Len(q) > 0
      BY <1>s, <2>1, <2>2, EmptySeq, LenProperties
    <3> HIDE DEF q
    <3> QED
      BY <3>1, ReadsSome
  <2>5. /\ got'[s] = SubSeq(q, 1, n) /\ up'[serving[s]] = SubSeq(q, n + 1, Len(q))
        /\ \A t \in EchoServers : t # s => got'[t] = got[t]
        /\ \A d \in EchoClients : d # serving[s] => up'[d] = up[d]
    BY <2>2, <2>3 DEF EchoTypes
  <2>6. CASE c = serving[s]
    <3>1. Stream!BeingEchoed(c) = <<>> /\ Stream!BeingEchoed(c)' = got'[s]
      BY <1>p, <2>1, <2>2, <2>6, EchoedBy, EchoedByNext
    <3>2. ASSUME sgone[c] = "open" /\ cgone[c] = "open"
          PROVE  Text(up'[c], got'[s], down[c], shown[c], written[c])
      <4>1. Text(q, <<>>, down[c], shown[c], written[c])
        BY <1>g, <2>6, <3>1, <3>2
      <4>2. q \in Seq(Nat)
        BY <1>s, <2>2
      <4> HIDE DEF q
      <4> QED
        <5>1. down[c] \in Seq(Nat) /\ shown[c] \in Nat /\ written[c] \in Nat
          BY <1>s
        <5>2. Text(SubSeq(q, n + 1, Len(q)), SubSeq(q, 1, n), down[c], shown[c], written[c])
          BY <2>4, <4>1, <4>2, <5>1, TextRead
        <5> QED
          BY <2>5, <2>6, <5>2
    <3> QED
      BY <2>1, <3>1, <3>2 DEF TextAt
  <2>7. CASE c # serving[s]
    <3>1. Stream!BeingEchoed(c)' = Stream!BeingEchoed(c)
      BY <1>b, <2>1, <2>5, <2>7
    <3> QED
      BY <1>f, <2>1, <2>5, <2>7, <3>1
  <2> QED
    BY <2>6, <2>7
<1>3. ASSUME NEW s \in EchoServers, Stream!ServerWrite(s), NEW c \in EchoClients PROVE TextAt(c)'
  <2>1. /\ spc[s] = "write" /\ got' = [got EXCEPT ![s] = <<>>]
        /\ down' = [down EXCEPT ![serving[s]] = IF cgone[serving[s]] = "open"
                                                THEN down[serving[s]] \o Stream!Response(s) ELSE down[serving[s]]]
        /\ UNCHANGED <<serving, up, sgone, written, shown>>
    BY <1>3 DEF Stream!ServerWrite, Stream!clientVars, Stream!history
  <2>2. PICK end \in Stream!AfterWrite(cgone[serving[s]]) : cgone' = [cgone EXCEPT ![serving[s]] = end]
    BY <1>3 DEF Stream!ServerWrite
  <2>3. serving[s] \in EchoClients /\ got[s] # <<>>
    BY <1>p, <2>1 DEF ServerHas, EchoTypes
  <2>4. cgone'[serving[s]] = "open" => cgone[serving[s]] = "open"
    BY <2>2, <2>3 DEF EchoTypes, EchoEnds, Stream!AfterWrite
  <2>5. /\ got'[s] = <<>> /\ \A t \in EchoServers : t # s => got'[t] = got[t]
        /\ \A d \in EchoClients : d # serving[s] => down'[d] = down[d] /\ cgone'[d] = cgone[d]
    BY <2>1, <2>2, <2>3 DEF EchoTypes
  <2>6. CASE c = serving[s]
    <3>1. Stream!BeingEchoed(c) = got[s] /\ Stream!BeingEchoed(c)' = <<>>
      BY <1>p, <2>1, <2>3, <2>5, <2>6, EchoedBy, EchoedByNext
    <3>2. ASSUME sgone[c] = "open" /\ cgone[c] = "open"
          PROVE  Text(up[c], <<>>, down'[c], shown[c], written[c])
      <4>1. Text(up[c], got[s], down[c], shown[c], written[c])
        BY <1>g, <3>1, <3>2
      <4>2. got[s] \in Seq(Nat)
        BY DEF EchoTypes
      <4>3. down'[c] = down[c] \o (<<0>> \o got[s])
        BY <2>1, <2>6, <3>2 DEF EchoTypes, Stream!Response, Stream!Prefix
      <4> QED
        <5>1. up[c] \in Seq(Nat) /\ down[c] \in Seq(Nat) /\ shown[c] \in Nat /\ written[c] \in Nat
          BY <1>s
        <5>2. Text(up[c], <<>>, down[c] \o (<<0>> \o got[s]), shown[c], written[c])
          BY <2>3, <4>1, <4>2, <5>1, TextAnswered
        <5> QED
          BY <4>3, <5>2
    <3> QED
      BY <2>1, <2>4, <2>6, <3>1, <3>2 DEF TextAt
  <2>7. CASE c # serving[s]
    <3>1. Stream!BeingEchoed(c)' = Stream!BeingEchoed(c)
      BY <1>b, <2>1, <2>5, <2>7
    <3> QED
      BY <1>f, <2>1, <2>5, <2>7, <3>1
  <2> QED
    BY <2>6, <2>7
<1>4. ASSUME NEW s \in EchoServers, Stream!ServerCloses(s), NEW c \in EchoClients PROVE TextAt(c)'
  <2>1. /\ serving' = [serving EXCEPT ![s] = 0] /\ got' = [got EXCEPT ![s] = <<>>]
        /\ sgone'[c] = "open" => sgone[c] = "open" /\ c # serving[s]
        /\ UNCHANGED <<up, down, cgone, written, shown>>
    BY <1>4, ServerClosed
  <2>2. /\ serving'[s] = 0
        /\ \A t \in EchoServers : t # s => serving'[t] = serving[t] /\ got'[t] = got[t]
    BY <2>1 DEF EchoTypes
  <2>3. ASSUME sgone'[c] = "open" PROVE Stream!BeingEchoed(c)' = Stream!BeingEchoed(c)
    BY <1>b, <1>s, <2>1, <2>2, <2>3
  <2> QED
    BY <1>f, <2>1, <2>3
<1>5. ASSUME UNCHANGED <<serving, got>>, NEW c \in EchoClients
      PROVE  Stream!BeingEchoed(c)' = Stream!BeingEchoed(c)
  BY <1>5, <1>b
<1>6. ASSUME NEW d \in EchoClients, Stream!ClientCloses(d), NEW c \in EchoClients PROVE TextAt(c)'
  <2>1. /\ down' = [down EXCEPT ![d] = <<>>] /\ cgone'[d] # "open"
        /\ c # d => cgone'[c] = cgone[c]
        /\ UNCHANGED <<serving, got, up, sgone, written, shown>>
    BY <1>6, ClientClosed
  <2>2. c # d => down'[c] = down[c]
    BY <2>1 DEF EchoTypes
  <2>3. Stream!BeingEchoed(c)' = Stream!BeingEchoed(c)
    BY <1>5, <2>1
  <2> QED
    BY <1>f, <2>1, <2>2, <2>3
<1>7. ASSUME NEW d \in EchoClients, NEW n \in 1 .. Stream!BufferUnits, Stream!ClientWrites(d, n),
             NEW c \in EchoClients
      PROVE  TextAt(c)'
  <2> DEFINE new == [i \in 1 .. n |-> written[d] + i]
  <2>1. /\ up' = [up EXCEPT ![d] = IF sgone[d] = "open" THEN up[d] \o new ELSE up[d]]
        /\ written' = [written EXCEPT ![d] = IF sgone[d] = "open" THEN written[d] + n ELSE written[d]]
        /\ UNCHANGED <<serving, got, down, cgone, shown>>
    BY <1>7 DEF Stream!ClientWrites, Stream!serverVars
  <2>2. PICK end \in Stream!AfterWrite(sgone[d]) : sgone' = [sgone EXCEPT ![d] = end]
    BY <1>7 DEF Stream!ClientWrites
  <2>3. sgone'[d] = "open" => sgone[d] = "open"
    BY <2>2 DEF EchoTypes, EchoEnds, Stream!AfterWrite
  <2>4. n \in Nat
    BY DEF Stream!BufferUnits
  <2>5. Stream!BeingEchoed(c)' = Stream!BeingEchoed(c)
    BY <1>5, <2>1
  <2>6. CASE c = d
    <3>1. ASSUME sgone[c] = "open" /\ cgone[c] = "open"
          PROVE  Text(up'[c], Stream!BeingEchoed(c), down[c], shown[c], written'[c])
      <4>1. Text(up[c], Stream!BeingEchoed(c), down[c], shown[c], written[c])
        BY <1>g, <3>1
      <4>2. Text(up[c] \o [i \in 1 .. n |-> written[c] + i], Stream!BeingEchoed(c), down[c], shown[c],
                 written[c] + n)
        BY <1>s, <2>4, <4>1, TextWritten
      <4>3. up'[c] = up[c] \o [i \in 1 .. n |-> written[c] + i] /\ written'[c] = written[c] + n
        BY <2>1, <2>6, <3>1 DEF EchoTypes
      <4> QED
        BY <4>2, <4>3
    <3> QED
      BY <2>1, <2>3, <2>5, <2>6, <3>1 DEF TextAt
  <2>7. CASE c # d
    <3>1. up'[c] = up[c] /\ written'[c] = written[c] /\ sgone'[c] = sgone[c]
      BY <2>1, <2>2, <2>7 DEF EchoTypes
    <3> QED
      BY <1>f, <2>1, <2>5, <3>1
  <2> QED
    BY <2>6, <2>7
<1>8. ASSUME NEW d \in EchoClients, Stream!ClientReads(d), NEW c \in EchoClients PROVE TextAt(c)'
  <2> DEFINE q == down[d]
  <2>1. q \in Seq(Nat) /\ Len(q) \in Nat /\ Len(q) > 0
    <3>1. q \in Seq(Nat) /\ q # <<>>
      BY <1>8, <1>s DEF Stream!ClientReads
    <3> HIDE DEF q
    <3> QED
      BY <3>1, EmptySeq, LenProperties
  <2>2. PICK n \in Stream!Returned(Len(q)) :
          /\ down' = [down EXCEPT ![d] = SubSeq(q, n + 1, Len(q))]
          /\ shown' = [shown EXCEPT ![d] = Printed(q, n, shown[d])]
    BY <1>8 DEF Stream!ClientReads, Stream!Prefix, Printed
  <2>3. UNCHANGED <<serving, got, up, sgone, cgone, written>>
    BY <1>8 DEF Stream!ClientReads, Stream!serverVars
  <2>4. n \in 1 .. Len(q) /\ n \in {1, 2}
    <3> HIDE DEF q
    <3> QED
      BY <2>1, ReadsSome
  <2>5. Stream!BeingEchoed(c)' = Stream!BeingEchoed(c)
    BY <1>5, <2>3
  <2>6. CASE c = d
    <3> DEFINE print == Printed(q, n, shown[d])
    <3>1. shown'[c] = print /\ down'[c] = SubSeq(q, n + 1, Len(q))
      BY <2>2, <2>6 DEF EchoTypes
    <3>2. /\ print \in Nat /\ \A i \in 1 .. n : q[i] = 0 \/ q[i] <= print
          /\ print = shown[d] \/ \E m \in 1 .. n : q[m] = print /\ print # 0
      <4>1. shown[d] \in Nat
        BY <1>s
      <4> HIDE DEF q
      <4> QED
        BY <2>1, <2>4, <4>1, PrintsLast
    <3> HIDE DEF print
    <3>3. ASSUME sgone[c] = "open" /\ cgone[c] = "open"
          PROVE  Text(up[c], Stream!BeingEchoed(c), down'[c], shown'[c], written[c])
      <4>1. Text(up[c], Stream!BeingEchoed(c), q, shown[d], written[c])
        BY <1>g, <2>6, <3>3
      <4> HIDE DEF q
      <4> QED
        <5>1. up[c] \in Seq(Nat) /\ Stream!BeingEchoed(c) \in Seq(Nat) /\ written[c] \in Nat /\ shown[d] \in Nat
          BY <1>s
        <5>2. Text(up[c], Stream!BeingEchoed(c), SubSeq(q, n + 1, Len(q)), print, written[c])
          BY <2>1, <2>4, <3>2, <4>1, <5>1, TextPrinted
        <5> QED
          BY <3>1, <5>2
    <3> QED
      BY <2>3, <2>5, <3>3 DEF TextAt
  <2>7. CASE c # d
    <3>1. down'[c] = down[c] /\ shown'[c] = shown[c]
      BY <2>2, <2>7 DEF EchoTypes
    <3> QED
      BY <1>f, <2>3, <2>5, <3>1
  <2> QED
    BY <2>6, <2>7
<1>9. ASSUME UNCHANGED <<serving, got, up, down, sgone, cgone, written, shown>>, NEW c \in EchoClients
      PROVE  TextAt(c)'
  BY <1>5, <1>9, <1>f
<1>10. ASSUME NEW s \in EchoServers, Stream!ServerStep(s) \/ Stream!KillServer(s), NEW c \in EchoClients
       PROVE  TextAt(c)'
  BY <1>1, <1>2, <1>3, <1>4, <1>10
     DEF Stream!ServerStep, Stream!ServerEnds, Stream!SigPipeServer, Stream!KillServer
<1>11. ASSUME NEW s \in EchoServers, Stream!StartServer(s) \/ Stream!BindServer(s), NEW c \in EchoClients
       PROVE  TextAt(c)'
  BY <1>9, <1>11 DEF Stream!StartServer, Stream!BindServer, Stream!wireVars, Stream!history
<1>12. ASSUME NEW d \in EchoClients, Stream!ClientConnects(d), NEW c \in EchoClients PROVE TextAt(c)'
  BY <1>9, <1>12 DEF Stream!ClientConnects, Stream!wireVars, Stream!history
<1>13. ASSUME NEW d \in EchoClients,
              Stream!ClientEnds(d) \/ Stream!SigPipeClient(d) \/ Stream!EndOfLines(d),
              NEW c \in EchoClients
       PROVE  TextAt(c)'
  BY <1>6, <1>13 DEF Stream!ClientEnds, Stream!SigPipeClient, Stream!EndOfLines
<1>14. ASSUME Stream!PortFreed \/ UNCHANGED streamRest, NEW c \in EchoClients PROVE TextAt(c)'
  BY <1>9, <1>14 DEF Stream!PortFreed, Stream!wireVars, Stream!history, streamRest
<1>15. ASSUME NEW d \in EchoClients, Stream!ClientWritesNothing(d), NEW c \in EchoClients PROVE TextAt(c)'
  <2>1. /\ sgone'[c] = "open" => sgone[c] = "open"
        /\ UNCHANGED <<serving, got, up, down, cgone, written, shown>>
    BY <1>15 DEF Stream!ClientWritesNothing, Stream!serverVars, Stream!history, EchoTypes
  <2>2. Stream!BeingEchoed(c)' = Stream!BeingEchoed(c)
    BY <1>5, <2>1
  <2> QED
    BY <1>f, <2>1, <2>2
<1>16. ASSUME NEW c \in EchoClients PROVE TextAt(c)'
  BY <1>0, <1>7, <1>8, <1>10, <1>11, <1>12, <1>13, <1>14, <1>15, <1>16 DEF Stream!StreamNext, Stream!ClientStep
<1> QED
  BY <1>16 DEF TextInv

(* A UNIX client falls one unit behind only with a line of two units.      *)
LEMMA LagInductive ==
    EchoTypes /\ EchoTypes' /\ PlaceInv /\ TextInv /\ LagInv /\ [Next]_vars => LagInv'
<1> DEFINE Lag(c) ==
             sgone[c] = "open" /\ program # "tcp" =>
               /\ cpc[c] \in {"off", "prompt"} => written[c] <= shown[c] + long[c]
               /\ cpc[c] = "recv" => written[c] <= shown[c] + long[c] + 1
<1> SUFFICES ASSUME EchoTypes, EchoTypes', PlaceInv, TextInv, LagInv, [Next]_vars, NEW c \in EchoClients
             PROVE  Lag(c)'
  BY DEF LagInv
<1> USE ExercisesAssumption
<1>0. /\ Stream!StreamNext \/ UNCHANGED streamRest
      /\ program' = program
  BY DEF Next, vars
<1>i. Lag(c)
  BY DEF LagInv
<1>t. /\ written[c] \in Nat /\ shown[c] \in Nat /\ long[c] \in Nat
      /\ cpc[c] \in {"off", "prompt", "recv", "ended"}
  BY DEF EchoTypes
<1>f. ASSUME sgone'[c] = "open" => sgone[c] = "open",
             cpc'[c] = cpc[c] \/ cpc'[c] = "ended" \/ (cpc[c] = "off" /\ cpc'[c] = "prompt"),
             UNCHANGED <<written, long, shown>>
      PROVE  Lag(c)'
  BY <1>0, <1>f, <1>i
<1>1. ASSUME NEW s \in EchoServers, Stream!ServerCloses(s) PROVE Lag(c)'
  <2>1. /\ sgone'[c] = "open" => sgone[c] = "open"
        /\ UNCHANGED <<cpc, written, long, shown>>
    BY <1>1, ServerClosed
  <2> HIDE DEF Lag
  <2> QED
    BY <1>f, <2>1
<1>2. ASSUME UNCHANGED <<sgone, cpc, written, long, shown>> PROVE Lag(c)'
  BY <1>f, <1>2
<1>3. ASSUME NEW d \in EchoClients, Stream!ClientCloses(d) PROVE Lag(c)'
  <2>1. cpc' = [cpc EXCEPT ![d] = "ended"] /\ UNCHANGED <<sgone, written, long, shown>>
    BY <1>3, ClientClosed
  <2>2. cpc'[c] = cpc[c] \/ cpc'[c] = "ended"
    BY <2>1 DEF EchoTypes
  <2> HIDE DEF Lag
  <2> QED
    BY <1>f, <2>1, <2>2
<1>4. ASSUME NEW d \in EchoClients, Stream!ClientConnects(d) PROVE Lag(c)'
  <2>1. /\ cpc[d] = "off" /\ (cpc' = [cpc EXCEPT ![d] = "prompt"] \/ cpc' = [cpc EXCEPT ![d] = "ended"])
        /\ UNCHANGED <<sgone, written, long, shown>>
    BY <1>4 DEF Stream!ClientConnects, Stream!wireVars, Stream!history
  <2>2. cpc'[c] = cpc[c] \/ cpc'[c] = "ended" \/ (cpc[c] = "off" /\ cpc'[c] = "prompt")
    BY <2>1 DEF EchoTypes
  <2> HIDE DEF Lag
  <2> QED
    BY <1>f, <2>1, <2>2
<1>5. ASSUME NEW d \in EchoClients, NEW n \in 1 .. Stream!BufferUnits, Stream!ClientWrites(d, n)
      PROVE  Lag(c)'
  <2>1. /\ cpc[d] = "prompt" /\ cpc' = [cpc EXCEPT ![d] = "recv"] /\ shown' = shown
        /\ written' = [written EXCEPT ![d] = IF sgone[d] = "open" THEN written[d] + n ELSE written[d]]
        /\ long' = [long EXCEPT ![d] = IF n > 1 THEN long[d] + 1 ELSE long[d]]
    BY <1>5 DEF Stream!ClientWrites
  <2>2. PICK end \in Stream!AfterWrite(sgone[d]) : sgone' = [sgone EXCEPT ![d] = end]
    BY <1>5 DEF Stream!ClientWrites
  <2>3. CASE c = d
    <3>1. sgone'[c] = "open" => sgone[c] = "open"
      BY <2>2, <2>3 DEF EchoTypes, EchoEnds, Stream!AfterWrite
    <3>2. /\ cpc[c] = "prompt" /\ cpc'[c] = "recv" /\ shown'[c] = shown[c]
          /\ sgone[c] = "open" => written'[c] = written[c] + n
          /\ long'[c] = IF n > 1 THEN long[c] + 1 ELSE long[c]
      BY <2>1, <2>3 DEF EchoTypes
    <3>3. n \in {1, 2}
      BY DEF Stream!BufferUnits
    <3> QED
      BY <1>0, <1>i, <1>t, <3>1, <3>2, <3>3
  <2>4. CASE c # d
    <3>1. /\ sgone'[c] = sgone[c] /\ cpc'[c] = cpc[c] /\ shown'[c] = shown[c]
          /\ written'[c] = written[c] /\ long'[c] = long[c]
      BY <2>1, <2>2, <2>4 DEF EchoTypes
    <3> QED
      BY <1>0, <1>i, <3>1
  <2> QED
    BY <2>3, <2>4
<1>6. ASSUME NEW d \in EchoClients, Stream!ClientReads(d) PROVE Lag(c)'
  <2> DEFINE q == down[d]
             print(n) == Printed(q, n, shown[d])
  <2>1. /\ cpc[d] = "recv" /\ q # <<>> /\ cpc' = [cpc EXCEPT ![d] = "prompt"]
        /\ UNCHANGED <<sgone, written, long>>
    BY <1>6 DEF Stream!ClientReads
  <2>2. PICK n \in Stream!Returned(Len(q)) : shown' = [shown EXCEPT ![d] = print(n)]
    BY <1>6 DEF Stream!ClientReads, Stream!Prefix, Printed
  <2>3. CASE c = d
    <3>1. shown'[c] = print(n) /\ cpc'[c] = "prompt"
      BY <2>1, <2>2, <2>3 DEF EchoTypes
    <3>2. /\ q \in Seq(Nat) /\ up[d] \in Seq(Nat) /\ shown[d] \in Nat /\ written[d] \in Nat
          /\ Stream!BeingEchoed(d) \in Seq(Nat)
      BY EchoedBy DEF EchoTypes, PlaceInv
    <3>3. Len(q) \in Nat /\ Len(q) > 0
      BY <2>1, <3>2, EmptySeq, LenProperties
    <3>4. n \in 1 .. Len(q) /\ n \in {1, 2} /\ (program # "tcp" => n = Len(q) \/ n = 2)
      <4> HIDE DEF q
      <4> QED
        BY <3>3, ReadsSome
    <3>7. /\ print(n) \in Nat /\ \A i \in 1 .. n : q[i] = 0 \/ q[i] <= print(n)
          /\ print(n) = shown[d] \/ \E m \in 1 .. n : q[m] = print(n) /\ print(n) # 0
      <4> HIDE DEF q
      <4> QED
        BY <3>2, <3>4, PrintsLast
    <3> HIDE DEF print
    <3>8. ASSUME sgone[c] = "open", program # "tcp" PROVE print(n) > shown[d]
      <4>1. cgone[c] = "open"
        BY <2>1, <2>3 DEF PlaceInv, OpenUntilEnded
      <4>2. Text(up[d], Stream!BeingEchoed(d), q, shown[d], written[d])
        BY <2>3, <3>8, <4>1 DEF TextInv, TextAt
      <4> HIDE DEF q
      <4> QED
        BY <3>2, <3>4, <3>7, <3>8, <4>2, TextPrinted
    <3>9. /\ cpc[c] = "recv" /\ sgone'[c] = sgone[c] /\ written'[c] = written[c] /\ long'[c] = long[c]
      BY <2>1, <2>3
    <3> QED
      BY <1>0, <1>i, <1>t, <2>3, <3>1, <3>7, <3>8, <3>9
  <2>4. CASE c # d
    <3>1. /\ sgone'[c] = sgone[c] /\ cpc'[c] = cpc[c] /\ shown'[c] = shown[c]
          /\ written'[c] = written[c] /\ long'[c] = long[c]
      BY <2>1, <2>2, <2>4 DEF EchoTypes
    <3> QED
      BY <1>0, <1>i, <3>1
  <2> QED
    BY <2>3, <2>4
<1>11. ASSUME NEW d \in EchoClients, Stream!ClientWritesNothing(d) PROVE Lag(c)'
  <2>1. /\ cpc[d] = "prompt" /\ cpc' = [cpc EXCEPT ![d] = "recv"]
        /\ sgone'[c] = "open" => sgone[c] = "open"
        /\ UNCHANGED <<written, long, shown>>
    BY <1>11 DEF Stream!ClientWritesNothing, Stream!history, EchoTypes
  <2>2. cpc'[c] = cpc[c] \/ (cpc[c] = "prompt" /\ cpc'[c] = "recv")
    BY <2>1 DEF EchoTypes
  <2> QED
    BY <1>0, <1>i, <1>t, <2>1, <2>2
<1> HIDE DEF Lag
<1>7. ASSUME NEW s \in EchoServers, Stream!ServerStep(s) \/ Stream!KillServer(s) PROVE Lag(c)'
  BY <1>1, <1>2, <1>7
     DEF Stream!ServerStep, Stream!AcceptClient, Stream!ServerRead, Stream!ServerWrite, Stream!ServerEnds,
         Stream!SigPipeServer, Stream!KillServer, Stream!clientVars, Stream!wireVars, Stream!history
<1>8. ASSUME NEW s \in EchoServers, Stream!StartServer(s) \/ Stream!BindServer(s) PROVE Lag(c)'
  BY <1>2, <1>8 DEF Stream!StartServer, Stream!BindServer, Stream!clientVars, Stream!wireVars, Stream!history
<1>9. ASSUME NEW d \in EchoClients,
             Stream!ClientEnds(d) \/ Stream!SigPipeClient(d) \/ Stream!EndOfLines(d)
      PROVE  Lag(c)'
  BY <1>3, <1>9 DEF Stream!ClientEnds, Stream!SigPipeClient, Stream!EndOfLines
<1>10. CASE Stream!PortFreed \/ UNCHANGED streamRest
  BY <1>2, <1>10 DEF Stream!PortFreed, Stream!clientVars, Stream!wireVars, Stream!history, streamRest
<1> QED
  BY <1>0, <1>4, <1>5, <1>6, <1>7, <1>8, <1>9, <1>10, <1>11
     DEF Stream!StreamNext, Stream!ClientStep

(* EchoStream: for any number of servers, clients and lines, and however   *)
(* the bytes are split, the text of a client whose connection is open at   *)
(* both ends comes back once, complete and in order, and a UNIX client     *)
(* falls behind by no more than its long lines (the echo loops, and the    *)
(* one read() of the clients).                                             *)
THEOREM EchoesAreWhole == FairSpec => []StreamEchoes
<1>1. Init => EchoInv
  <2> SUFFICES ASSUME Init PROVE EchoInv
    OBVIOUS
  <2>1. EchoTypes /\ Stream!StreamInit
    BY EmptySeq DEF Init, Stream!StreamInit, Stream!NoServer, Stream!NoClient, EchoTypes, EchoEnds
  <2>2. Len(<<>>) = 0 /\ \A i : i \notin 1 .. 0
    BY EmptySeq
  <2>3. PlaceInv
    BY <2>1, <2>2, ExercisesAssumption
       DEF PlaceInv, ServedOnce, QueuedOnce, QueuedNotServed, QueuedStarted, ServerHas, OpenUntilEnded,
           Stream!StreamInit, Stream!NoClient
  <2>4. TextInv
    <3> SUFFICES ASSUME NEW c \in EchoClients PROVE TextAt(c)
      BY DEF TextInv
    <3>1. /\ up[c] = <<>> /\ down[c] = <<>> /\ shown[c] = 0 /\ written[c] = 0
          /\ \A s \in EchoServers : serving[s] # c
      BY <2>1, ExercisesAssumption DEF Stream!StreamInit, Stream!NoClient
    <3>2. Stream!BeingEchoed(c) = <<>>
      BY <2>1, <2>3, <3>1, EchoedBy DEF PlaceInv
    <3>3. Run(<<>>, 0) /\ Answers(<<>>, 0, 0)
      BY <2>2 DEF Run, Answers
    <3>4. Text(<<>>, <<>>, <<>>, 0, 0)
      BY <2>2, <3>3 DEF Text
    <3> QED
      BY <3>1, <3>2, <3>4 DEF TextAt
  <2>5. LagInv
    BY <2>1 DEF LagInv, Stream!StreamInit
  <2> QED
    BY <2>1, <2>3, <2>4, <2>5 DEF EchoInv
<1>2. EchoInv /\ [Next]_vars => EchoInv'
  BY EchoTypesInductive, PlaceInductive, TextInductive, LagInductive DEF EchoInv
<1>3. EchoInv => StreamEchoes
  <2> SUFFICES ASSUME EchoInv PROVE Stream!EchoInOrder /\ Stream!BehindByLongLines
    BY DEF StreamEchoes
  <2>1. Stream!EchoInOrder
    <3> DEFINE back(c) == down[c] \o Stream!BeingEchoed(c) \o up[c]
               text(c) == {i \in DOMAIN back(c) : back(c)[i] # 0}
    <3>1. ASSUME NEW c \in EchoClients, sgone[c] = "open", cgone[c] = "open"
          PROVE  /\ {back(c)[i] : i \in text(c)} = (shown[c] + 1) .. written[c]
                 /\ \A i, j \in text(c) : i < j => back(c)[i] < back(c)[j]
      <4>1. /\ up[c] \in Seq(Nat) /\ down[c] \in Seq(Nat) /\ shown[c] \in Nat /\ written[c] \in Nat
            /\ Stream!BeingEchoed(c) \in Seq(Nat)
        BY EchoedBy DEF EchoInv, EchoTypes, PlaceInv
      <4>2. Text(up[c], Stream!BeingEchoed(c), down[c], shown[c], written[c])
        BY <3>1 DEF EchoInv, TextInv, TextAt
      <4> QED
        BY <4>1, <4>2, TextInOrder
    <3> QED
      BY <3>1 DEF Stream!EchoInOrder, Stream!Prefix
  <2>2. ASSUME NEW c \in EchoClients, program # "tcp", cpc[c] = "prompt", sgone[c] = "open"
        PROVE  written[c] - shown[c] <= long[c]
    <3>1. written[c] <= shown[c] + long[c]
      BY <2>2 DEF EchoInv, LagInv
    <3>2. written[c] \in Nat /\ shown[c] \in Nat /\ long[c] \in Nat
      BY DEF EchoInv, EchoTypes
    <3> QED
      BY <3>1, <3>2
  <2> QED
    BY <2>1, <2>2 DEF Stream!BehindByLongLines
<1> QED
  BY <1>1, <1>2, <1>3, PTL DEF FairSpec
=============================================================================
