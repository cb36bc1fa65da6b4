--------------------------- MODULE P2PNodeProofs ---------------------------
(* Proofs about P2PNode, for every number of connections and descriptors.  *)
EXTENDS P2PNode, TLAPS

(* What main() parsed is a command of the declared shape.                  *)
LEMMA CommandsTyped == Commands \cup {NoCmd} \subseteq CommandType
BY DEF Commands, CommandType, NoCmd

(* Every step of every thread keeps the types.                             *)
LEMMA TypeInductive == TypeOK /\ [Next]_vars => TypeOK'
<1> SUFFICES ASSUME TypeOK, [Next]_vars PROVE TypeOK'
  OBVIOUS
<1> USE P2PAssumption, CommandsTyped
    DEF Ids, Fds, None, Dialing, Reserved, nodeVars, sockVars, mainVars, lisVars,
        recvVars, MainPlaces, MainDerefs, ListenerDerefs, ListenerPlaces, RecvPlaces,
        CommandType, NoCmd
<1>1. CASE Reap
  <2>1. ProcTypes'
    BY <1>1 DEF TypeOK, ProcTypes, Reap, ReapScan
  <2>2. NodeTypes'
    BY <1>1 DEF TypeOK, NodeTypes, MainTypes, ListenerTypes, Reap, ReapScan
  <2>3. SockTypes'
    BY <1>1 DEF TypeOK, NodeTypes, SockTypes, MainTypes, ListenerTypes, Reap, ReapScan
  <2>4. MainTypes'
    BY <1>1 DEF TypeOK, NodeTypes, MainTypes, SockTypes, Reap, ReapScan
  <2>5. ListenerTypes'
    BY <1>1 DEF TypeOK, NodeTypes, ListenerTypes, Reap, ReapScan
  <2>6. RecvTypes'
    BY <1>1 DEF TypeOK, RecvTypes, NodeTypes, SockTypes, Reap, ReapScan
  <2> QED
    BY <2>1, <2>2, <2>3, <2>4, <2>5, <2>6 DEF TypeOK
<1>2. CASE ReapJoin
  BY <1>2 DEF TypeOK, ProcTypes, NodeTypes, SockTypes, MainTypes, ListenerTypes, RecvTypes,
     ReapJoin
<1>3. CASE ReapRemove
  <2>1. ProcTypes'
    BY <1>3 DEF TypeOK, ProcTypes, ReapRemove, RemoveNode, ReapScan
  <2>2. NodeTypes'
    BY ZenonT(40), <1>3 DEF TypeOK, NodeTypes, MainTypes, ListenerTypes, ReapRemove, RemoveNode,
       ReapScan
  <2>3. SockTypes'
    BY <1>3 DEF TypeOK, NodeTypes, SockTypes, MainTypes, ListenerTypes, ReapRemove,
       RemoveNode, ReapScan
  <2>4. MainTypes'
    BY <1>3 DEF TypeOK, NodeTypes, MainTypes, SockTypes, ReapRemove, RemoveNode, ReapScan
  <2>5. ListenerTypes'
    BY <1>3 DEF TypeOK, NodeTypes, ListenerTypes, ReapRemove, RemoveNode, ReapScan
  <2>6. RecvTypes'
    BY <1>3 DEF TypeOK, RecvTypes, NodeTypes, SockTypes, ReapRemove, RemoveNode, ReapScan
  <2> QED
    BY <2>1, <2>2, <2>3, <2>4, <2>5, <2>6 DEF TypeOK
<1>4. CASE CmdOther
  BY <1>4 DEF TypeOK, ProcTypes, NodeTypes, SockTypes, MainTypes, ListenerTypes, RecvTypes,
     CmdOther, Prompt, Dispatch
<1>5. CASE CmdList
  BY <1>5 DEF TypeOK, ProcTypes, NodeTypes, SockTypes, MainTypes, ListenerTypes, RecvTypes,
     CmdList, Dispatch
<1>6. CASE ConnectRefused
  BY <1>6 DEF TypeOK, ProcTypes, NodeTypes, SockTypes, MainTypes, ListenerTypes, RecvTypes,
     ConnectRefused, Prompt, Dispatch
<1>7. CASE ConnectAllowed
  BY <1>7 DEF TypeOK, ProcTypes, NodeTypes, SockTypes, MainTypes, ListenerTypes, RecvTypes,
     ConnectAllowed, Dispatch
<1>8. CASE OpenSocket
  BY SMTT(30), <1>8 DEF TypeOK, ProcTypes, NodeTypes, SockTypes, MainTypes, ListenerTypes, RecvTypes,
     OpenSocket, Prompt, LowestFree, FreeFds, FreeFds
<1>9. CASE DialOk
  <2>1. ProcTypes'
    BY <1>9 DEF TypeOK, ProcTypes, DialOk, NewNode
  <2>2. NodeTypes'
    BY <1>9 DEF TypeOK, NodeTypes, MainTypes, ListenerTypes, DialOk, NewNode
  <2>3. SockTypes'
    BY <1>9 DEF TypeOK, NodeTypes, SockTypes, MainTypes, ListenerTypes, DialOk, NewNode
  <2>4. MainTypes'
    BY <1>9 DEF TypeOK, NodeTypes, MainTypes, SockTypes, DialOk, NewNode
  <2>5. ListenerTypes'
    BY <1>9 DEF TypeOK, NodeTypes, ListenerTypes, DialOk, NewNode
  <2>6. RecvTypes'
    BY <1>9 DEF TypeOK, RecvTypes, NodeTypes, SockTypes, DialOk, NewNode
  <2> QED
    BY <2>1, <2>2, <2>3, <2>4, <2>5, <2>6 DEF TypeOK
<1>10. CASE DialFail
  BY <1>10 DEF TypeOK, ProcTypes, NodeTypes, SockTypes, MainTypes, ListenerTypes, RecvTypes,
     DialFail, Closed, Prompt
<1>11. CASE ConnectInsert
  <2>1. ProcTypes'
    BY <1>11 DEF TypeOK, ProcTypes, ConnectInsert
  <2>2. NodeTypes'
    BY <1>11 DEF TypeOK, NodeTypes, MainTypes, ListenerTypes, ConnectInsert
  <2>3. SockTypes'
    BY <1>11 DEF TypeOK, NodeTypes, SockTypes, MainTypes, ListenerTypes, ConnectInsert
  <2>4. MainTypes'
    BY <1>11 DEF TypeOK, NodeTypes, MainTypes, SockTypes, ConnectInsert
  <2>5. ListenerTypes'
    BY <1>11 DEF TypeOK, NodeTypes, ListenerTypes, ConnectInsert
  <2>6. RecvTypes'
    BY <1>11 DEF TypeOK, RecvTypes, NodeTypes, SockTypes, ConnectInsert
  <2> QED
    BY <2>1, <2>2, <2>3, <2>4, <2>5, <2>6 DEF TypeOK
<1>12. CASE ConnectCreate
  <2>1. ProcTypes'
    BY <1>12 DEF TypeOK, ProcTypes, ConnectCreate, StartThread, Prompt
  <2>2. NodeTypes'
    BY <1>12 DEF TypeOK, NodeTypes, MainTypes, ListenerTypes, ConnectCreate, StartThread, Prompt
  <2>3. SockTypes'
    BY <1>12 DEF TypeOK, NodeTypes, SockTypes, MainTypes, ListenerTypes, ConnectCreate,
       StartThread, Prompt
  <2>4. MainTypes'
    BY <1>12 DEF TypeOK, NodeTypes, MainTypes, SockTypes, ConnectCreate, StartThread, Prompt
  <2>5. ListenerTypes'
    BY <1>12 DEF TypeOK, NodeTypes, ListenerTypes, ConnectCreate, StartThread, Prompt
  <2>6. RecvTypes'
    BY <1>12 DEF TypeOK, RecvTypes, NodeTypes, SockTypes, ConnectCreate, StartThread, Prompt
  <2> QED
    BY <2>1, <2>2, <2>3, <2>4, <2>5, <2>6 DEF TypeOK
<1>13. CASE ConnectCreateFail
  BY <1>13 DEF TypeOK, ProcTypes, NodeTypes, SockTypes, MainTypes, ListenerTypes, RecvTypes,
     ConnectCreateFail, Closed
<1>14. CASE ConnectRollback
  <2>1. ProcTypes'
    BY <1>14 DEF TypeOK, ProcTypes, ConnectRollback, RemoveNode, Prompt
  <2>2. NodeTypes'
    BY <1>14 DEF TypeOK, NodeTypes, MainTypes, ListenerTypes, ConnectRollback, RemoveNode,
       Prompt
  <2>3. SockTypes'
    BY <1>14 DEF TypeOK, NodeTypes, SockTypes, MainTypes, ListenerTypes, ConnectRollback,
       RemoveNode, Prompt
  <2>4. MainTypes'
    BY <1>14 DEF TypeOK, NodeTypes, MainTypes, SockTypes, ConnectRollback, RemoveNode, Prompt
  <2>5. ListenerTypes'
    BY <1>14 DEF TypeOK, NodeTypes, ListenerTypes, ConnectRollback, RemoveNode, Prompt
  <2>6. RecvTypes'
    BY <1>14 DEF TypeOK, RecvTypes, NodeTypes, SockTypes, ConnectRollback, RemoveNode, Prompt
  <2> QED
    BY <2>1, <2>2, <2>3, <2>4, <2>5, <2>6 DEF TypeOK
<1>15. CASE TerminateUnknown
  BY <1>15 DEF TypeOK, ProcTypes, NodeTypes, SockTypes, MainTypes, ListenerTypes, RecvTypes,
     TerminateUnknown, Prompt, Dispatch
<1>16. CASE TerminateClose
  <2>1. ProcTypes'
    BY <1>16 DEF TypeOK, ProcTypes, NodeTypes, TerminateClose, NoteEarly, CloseSockets, Closed,
       SocketOf, Dispatch
  <2>2. NodeTypes'
    BY <1>16 DEF TypeOK, NodeTypes, MainTypes, ListenerTypes, TerminateClose, CloseSockets,
       Closed, SocketOf, Dispatch
  <2>3. SockTypes'
    BY <1>16 DEF TypeOK, NodeTypes, SockTypes, MainTypes, ListenerTypes, TerminateClose,
       CloseSockets, Closed, SocketOf, Dispatch
  <2>4. MainTypes'
    BY <1>16 DEF TypeOK, NodeTypes, MainTypes, SockTypes, TerminateClose, CloseSockets,
       Closed, SocketOf, Dispatch
  <2>5. ListenerTypes'
    BY <1>16 DEF TypeOK, NodeTypes, ListenerTypes, TerminateClose, CloseSockets, Closed,
       SocketOf, Dispatch
  <2>6. RecvTypes'
    BY <1>16 DEF TypeOK, RecvTypes, NodeTypes, SockTypes, TerminateClose, CloseSockets,
       Closed, SocketOf, Dispatch
  <2> QED
    BY <2>1, <2>2, <2>3, <2>4, <2>5, <2>6 DEF TypeOK
<1>17. CASE TerminateSigPipe
  BY <1>17 DEF TypeOK, ProcTypes, NodeTypes, SockTypes, MainTypes, ListenerTypes, RecvTypes,
     TerminateSigPipe, Die, Dispatch, SocketOf
<1>18. CASE TerminateJoin
  BY <1>18 DEF TypeOK, ProcTypes, NodeTypes, SockTypes, MainTypes, ListenerTypes, RecvTypes,
     TerminateJoin
<1>19. CASE TerminateBadJoin
  BY <1>19 DEF TypeOK, ProcTypes, NodeTypes, SockTypes, MainTypes, ListenerTypes, RecvTypes,
     TerminateBadJoin, Undefined
<1>20. CASE TerminateRemove
  <2>1. ProcTypes'
    BY <1>20 DEF TypeOK, ProcTypes, TerminateRemove, RemoveNode, Prompt
  <2>2. NodeTypes'
    <3>1. CASE mcur \in conns
      BY <1>20, <3>1 DEF TypeOK, NodeTypes, TerminateRemove, RemoveNode
    <3>2. CASE mcur \notin conns
      BY <1>20, <3>2 DEF TypeOK, NodeTypes, TerminateRemove
    <3> QED
      BY <3>1, <3>2
  <2>3. SockTypes'
    BY <1>20 DEF TypeOK, NodeTypes, SockTypes, MainTypes, ListenerTypes, TerminateRemove,
       RemoveNode, Prompt
  <2>4. MainTypes'
    BY <1>20 DEF TypeOK, NodeTypes, MainTypes, SockTypes, TerminateRemove, RemoveNode, Prompt
  <2>5. ListenerTypes'
    BY <1>20 DEF TypeOK, NodeTypes, ListenerTypes, TerminateRemove, RemoveNode, Prompt
  <2>6. RecvTypes'
    BY <1>20 DEF TypeOK, RecvTypes, NodeTypes, SockTypes, TerminateRemove, RemoveNode, Prompt
  <2> QED
    BY <2>1, <2>2, <2>3, <2>4, <2>5, <2>6 DEF TypeOK
<1>21. CASE SendUnknown
  BY <1>21 DEF TypeOK, ProcTypes, NodeTypes, SockTypes, MainTypes, ListenerTypes, RecvTypes,
     SendUnknown, Prompt, Dispatch
<1>22. CASE SendMessage
  BY <1>22 DEF TypeOK, ProcTypes, NodeTypes, SockTypes, MainTypes, ListenerTypes, RecvTypes,
     SendMessage, Prompt, Dispatch, SocketOf
<1>23. CASE SendSigPipe
  BY <1>23 DEF TypeOK, ProcTypes, NodeTypes, SockTypes, MainTypes, ListenerTypes, RecvTypes,
     SendSigPipe, Die, Dispatch, SocketOf
<1>24. CASE SendReport
  <2>1. ProcTypes'
    BY <1>24 DEF TypeOK, ProcTypes, SendReport, Touch, Prompt
  <2>2. NodeTypes'
    BY <1>24 DEF TypeOK, NodeTypes, MainTypes, ListenerTypes, SendReport, Touch, Prompt
  <2>3. SockTypes'
    BY <1>24 DEF TypeOK, NodeTypes, SockTypes, MainTypes, ListenerTypes, SendReport, Touch,
       Prompt
  <2>4. MainTypes'
    BY <1>24 DEF TypeOK, NodeTypes, MainTypes, SockTypes, SendReport, Touch, Prompt
  <2>5. ListenerTypes'
    BY <1>24 DEF TypeOK, NodeTypes, ListenerTypes, SendReport, Touch, Prompt
  <2>6. RecvTypes'
    BY <1>24 DEF TypeOK, RecvTypes, NodeTypes, SockTypes, SendReport, Touch, Prompt
  <2> QED
    BY <2>1, <2>2, <2>3, <2>4, <2>5, <2>6 DEF TypeOK
<1>25. CASE ExitFlag
  <2>1. ProcTypes'
    BY <1>25 DEF TypeOK, ProcTypes, ExitFlag, Dispatch
  <2>2. NodeTypes'
    BY <1>25 DEF TypeOK, NodeTypes, MainTypes, ListenerTypes, ExitFlag, Dispatch
  <2>3. SockTypes'
    BY <1>25 DEF TypeOK, NodeTypes, SockTypes, MainTypes, ListenerTypes, ExitFlag, Dispatch
  <2>4. MainTypes'
    BY <1>25 DEF TypeOK, NodeTypes, MainTypes, SockTypes, ExitFlag, Dispatch
  <2>5. ListenerTypes'
    BY <1>25 DEF TypeOK, NodeTypes, ListenerTypes, ExitFlag, Dispatch
  <2>6. RecvTypes'
    BY <1>25 DEF TypeOK, RecvTypes, NodeTypes, SockTypes, ExitFlag, Dispatch
  <2> QED
    BY <2>1, <2>2, <2>3, <2>4, <2>5, <2>6 DEF TypeOK
<1>26. CASE ExitClose
  <2>1. ProcTypes'
    BY <1>26 DEF TypeOK, ProcTypes, ExitClose
  <2>2. NodeTypes'
    BY <1>26 DEF TypeOK, NodeTypes, MainTypes, ListenerTypes, ExitClose
  <2>3. SockTypes'
    BY <1>26 DEF TypeOK, NodeTypes, SockTypes, MainTypes, ListenerTypes, ExitClose
  <2>4. MainTypes'
    BY <1>26 DEF TypeOK, NodeTypes, MainTypes, SockTypes, ExitClose
  <2>5. ListenerTypes'
    BY <1>26 DEF TypeOK, NodeTypes, ListenerTypes, ExitClose
  <2>6. RecvTypes'
    BY <1>26 DEF TypeOK, RecvTypes, NodeTypes, SockTypes, ExitClose
  <2> QED
    BY <2>1, <2>2, <2>3, <2>4, <2>5, <2>6 DEF TypeOK
<1>27. CASE ExitSweep
  BY <1>27 DEF TypeOK, ProcTypes, NodeTypes, SockTypes, MainTypes, ListenerTypes, RecvTypes,
     ExitSweep, CloseSockets, Closed, SocketOf
<1>28. CASE ExitSigPipe
  BY <1>28 DEF TypeOK, ProcTypes, NodeTypes, SockTypes, MainTypes, ListenerTypes, RecvTypes,
     ExitSigPipe, Die, SocketOf
<1>29. CASE ExitJoinListener
  <2>1. ProcTypes'
    BY <1>29 DEF TypeOK, ProcTypes, ExitJoinListener
  <2>2. NodeTypes'
    BY <1>29 DEF TypeOK, NodeTypes, MainTypes, ListenerTypes, ExitJoinListener
  <2>3. SockTypes'
    BY <1>29 DEF TypeOK, NodeTypes, SockTypes, MainTypes, ListenerTypes, ExitJoinListener
  <2>4. MainTypes'
    BY <1>29 DEF TypeOK, NodeTypes, MainTypes, SockTypes, ExitJoinListener
  <2>5. ListenerTypes'
    BY <1>29 DEF TypeOK, NodeTypes, ListenerTypes, ExitJoinListener
  <2>6. RecvTypes'
    BY <1>29 DEF TypeOK, RecvTypes, NodeTypes, SockTypes, ExitJoinListener
  <2> QED
    BY <2>1, <2>2, <2>3, <2>4, <2>5, <2>6 DEF TypeOK
<1>30. CASE ExitLock
  BY <1>30 DEF TypeOK, ProcTypes, NodeTypes, SockTypes, MainTypes, ListenerTypes, RecvTypes,
     ExitLock
<1>31. CASE ExitReturn
  BY <1>31 DEF TypeOK, ProcTypes, NodeTypes, SockTypes, MainTypes, ListenerTypes, RecvTypes,
     ExitReturn
<1>32. CASE ListenCheck
  BY <1>32 DEF TypeOK, ProcTypes, NodeTypes, SockTypes, MainTypes, ListenerTypes, RecvTypes,
     ListenCheck
<1>33. CASE AcceptEnter
  BY <1>33 DEF TypeOK, ProcTypes, NodeTypes, SockTypes, MainTypes, ListenerTypes, RecvTypes,
     AcceptEnter, LowestFree, FreeFds
<1>34. CASE AcceptRefused
  BY <1>34 DEF TypeOK, ProcTypes, NodeTypes, SockTypes, MainTypes, ListenerTypes, RecvTypes,
     AcceptRefused, AfterAcceptError, FreeFds
<1>35. CASE Accept
  <2>1. ProcTypes'
    BY <1>35 DEF TypeOK, ProcTypes, Accept, NewNode
  <2>2. NodeTypes'
    BY <1>35 DEF TypeOK, NodeTypes, MainTypes, ListenerTypes, Accept, NewNode
  <2>3. SockTypes'
    <3>1. backlog' \in 0..MaxBacklog
      BY <1>35 DEF TypeOK, SockTypes, Accept
    <3>2. fdtab' \in [Fds -> Ids \cup {None, Dialing, Reserved}]
      BY <1>35 DEF TypeOK, SockTypes, Accept, NewNode
    <3>3. link' \in [Ids -> {"none", "up", "fin", "rst", "shut"}]
      BY <1>35 DEF TypeOK, SockTypes, Accept, NewNode
    <3>4. listening' \in BOOLEAN
      BY <1>35 DEF TypeOK, SockTypes, Accept
    <3> QED
      BY <3>1, <3>2, <3>3, <3>4 DEF SockTypes
  <2>4. MainTypes'
    BY <1>35 DEF TypeOK, NodeTypes, MainTypes, SockTypes, Accept, NewNode
  <2>5. ListenerTypes'
    BY <1>35 DEF TypeOK, NodeTypes, ListenerTypes, Accept, NewNode
  <2>6. RecvTypes'
    BY <1>35 DEF TypeOK, RecvTypes, NodeTypes, SockTypes, Accept, NewNode
  <2> QED
    BY <2>1, <2>2, <2>3, <2>4, <2>5, <2>6 DEF TypeOK
<1>36. CASE AcceptNoMemory
  <2>1. ProcTypes'
    BY <1>36 DEF TypeOK, ProcTypes, AcceptNoMemory
  <2>2. NodeTypes'
    BY <1>36 DEF TypeOK, NodeTypes, MainTypes, ListenerTypes, AcceptNoMemory
  <2>3. SockTypes'
    <3>1. backlog' \in 0..MaxBacklog
      BY <1>36 DEF TypeOK, SockTypes, AcceptNoMemory
    <3>2. fdtab' \in [Fds -> Ids \cup {None, Dialing, Reserved}]
      BY <1>36 DEF TypeOK, SockTypes, AcceptNoMemory
    <3>3. link' \in [Ids -> {"none", "up", "fin", "rst", "shut"}]
      BY <1>36 DEF TypeOK, SockTypes, AcceptNoMemory
    <3>4. listening' \in BOOLEAN
      BY <1>36 DEF TypeOK, SockTypes, AcceptNoMemory
    <3> QED
      BY <3>1, <3>2, <3>3, <3>4 DEF SockTypes
  <2>4. MainTypes'
    BY <1>36 DEF TypeOK, NodeTypes, MainTypes, SockTypes, AcceptNoMemory
  <2>5. ListenerTypes'
    BY <1>36 DEF TypeOK, NodeTypes, ListenerTypes, AcceptNoMemory
  <2>6. RecvTypes'
    BY <1>36 DEF TypeOK, RecvTypes, NodeTypes, SockTypes, AcceptNoMemory
  <2> QED
    BY <2>1, <2>2, <2>3, <2>4, <2>5, <2>6 DEF TypeOK
<1>37. CASE ListenInsert
  <2>1. ProcTypes'
    BY <1>37 DEF TypeOK, ProcTypes, ListenInsert
  <2>2. NodeTypes'
    BY <1>37 DEF TypeOK, NodeTypes, MainTypes, ListenerTypes, ListenInsert
  <2>3. SockTypes'
    BY <1>37 DEF TypeOK, NodeTypes, SockTypes, MainTypes, ListenerTypes, ListenInsert
  <2>4. MainTypes'
    BY <1>37 DEF TypeOK, NodeTypes, MainTypes, SockTypes, ListenInsert
  <2>5. ListenerTypes'
    BY <1>37 DEF TypeOK, NodeTypes, ListenerTypes, ListenInsert
  <2>6. RecvTypes'
    BY <1>37 DEF TypeOK, RecvTypes, NodeTypes, SockTypes, ListenInsert
  <2> QED
    BY <2>1, <2>2, <2>3, <2>4, <2>5, <2>6 DEF TypeOK
<1>38. CASE ListenCreate
  <2>1. ProcTypes'
    BY <1>38 DEF TypeOK, ProcTypes, ListenCreate, StartThread
  <2>2. NodeTypes'
    BY <1>38 DEF TypeOK, NodeTypes, MainTypes, ListenerTypes, ListenCreate, StartThread
  <2>3. SockTypes'
    BY <1>38 DEF TypeOK, NodeTypes, SockTypes, MainTypes, ListenerTypes, ListenCreate,
       StartThread
  <2>4. MainTypes'
    BY <1>38 DEF TypeOK, NodeTypes, MainTypes, SockTypes, ListenCreate, StartThread
  <2>5. ListenerTypes'
    BY <1>38 DEF TypeOK, NodeTypes, ListenerTypes, ListenCreate, StartThread
  <2>6. RecvTypes'
    BY <1>38 DEF TypeOK, RecvTypes, NodeTypes, SockTypes, ListenCreate, StartThread
  <2> QED
    BY <2>1, <2>2, <2>3, <2>4, <2>5, <2>6 DEF TypeOK
<1>39. CASE ListenCreateFail
  BY <1>39 DEF TypeOK, ProcTypes, NodeTypes, SockTypes, MainTypes, ListenerTypes, RecvTypes,
     ListenCreateFail, Closed
<1>40. CASE ListenRollback
  <2>1. ProcTypes'
    BY <1>40 DEF TypeOK, ProcTypes, ListenRollback, RemoveNode
  <2>2. NodeTypes'
    BY <1>40 DEF TypeOK, NodeTypes, MainTypes, ListenerTypes, ListenRollback, RemoveNode
  <2>3. SockTypes'
    BY <1>40 DEF TypeOK, NodeTypes, SockTypes, MainTypes, ListenerTypes, ListenRollback,
       RemoveNode
  <2>4. MainTypes'
    BY <1>40 DEF TypeOK, NodeTypes, MainTypes, SockTypes, ListenRollback, RemoveNode
  <2>5. ListenerTypes'
    BY <1>40 DEF TypeOK, NodeTypes, ListenerTypes, ListenRollback, RemoveNode
  <2>6. RecvTypes'
    BY <1>40 DEF TypeOK, RecvTypes, NodeTypes, SockTypes, ListenRollback, RemoveNode
  <2> QED
    BY <2>1, <2>2, <2>3, <2>4, <2>5, <2>6 DEF TypeOK
<1>41. CASE ListenDangling
  BY <1>41 DEF TypeOK, ProcTypes, NodeTypes, SockTypes, MainTypes, ListenerTypes, RecvTypes,
     ListenDangling, Undefined
<1>42. CASE Announce
  BY <1>42 DEF TypeOK, ProcTypes, NodeTypes, SockTypes, MainTypes, ListenerTypes, RecvTypes,
     Announce, Touch
<1>43. CASE AcceptError
  <2>1. ProcTypes'
    BY <1>43 DEF TypeOK, ProcTypes, AcceptError, AfterAcceptError
  <2>2. NodeTypes'
    BY <1>43 DEF TypeOK, NodeTypes, MainTypes, ListenerTypes, AcceptError, AfterAcceptError
  <2>3. SockTypes'
    BY <1>43 DEF TypeOK, NodeTypes, SockTypes, MainTypes, ListenerTypes, AcceptError,
       AfterAcceptError
  <2>4. MainTypes'
    BY <1>43 DEF TypeOK, NodeTypes, MainTypes, SockTypes, AcceptError, AfterAcceptError
  <2>5. ListenerTypes'
    BY <1>43 DEF TypeOK, NodeTypes, ListenerTypes, AcceptError, AfterAcceptError
  <2>6. RecvTypes'
    BY <1>43 DEF TypeOK, RecvTypes, NodeTypes, SockTypes, AcceptError, AfterAcceptError
  <2> QED
    BY <2>1, <2>2, <2>3, <2>4, <2>5, <2>6 DEF TypeOK
<1>44. CASE PeerConnects
  BY <1>44 DEF TypeOK, ProcTypes, NodeTypes, SockTypes, MainTypes, ListenerTypes, RecvTypes,
     PeerConnects
<1>45. CASE EndOfInput
  BY <1>45 DEF TypeOK, ProcTypes, NodeTypes, SockTypes, MainTypes, ListenerTypes, RecvTypes,
     EndOfInput, Die
<1>46. ASSUME NEW cmd \in Commands, ReadLine(cmd) PROVE TypeOK'
  BY <1>46 DEF TypeOK, ProcTypes, NodeTypes, SockTypes, MainTypes, ListenerTypes, RecvTypes,
     ReadLine
<1>47. ASSUME NEW c \in Ids, ExitJoin(c) PROVE TypeOK'
  <2>1. ProcTypes'
    BY <1>47 DEF TypeOK, ProcTypes, ExitJoin, RemoveNode
  <2>2. NodeTypes'
    BY <1>47 DEF TypeOK, NodeTypes, MainTypes, ListenerTypes, ExitJoin, RemoveNode
  <2>3. SockTypes'
    BY <1>47 DEF TypeOK, NodeTypes, SockTypes, MainTypes, ListenerTypes, ExitJoin, RemoveNode
  <2>4. MainTypes'
    BY <1>47 DEF TypeOK, NodeTypes, MainTypes, SockTypes, ExitJoin, RemoveNode
  <2>5. ListenerTypes'
    BY <1>47 DEF TypeOK, NodeTypes, ListenerTypes, ExitJoin, RemoveNode
  <2>6. RecvTypes'
    BY <1>47 DEF TypeOK, RecvTypes, NodeTypes, SockTypes, ExitJoin, RemoveNode
  <2> QED
    BY <2>1, <2>2, <2>3, <2>4, <2>5, <2>6 DEF TypeOK
<1>48. ASSUME NEW c \in Ids, RecvEnter(c) PROVE TypeOK'
  <2>1. ProcTypes'
    BY <1>48 DEF TypeOK, ProcTypes, RecvEnter, SocketOf
  <2>2. NodeTypes'
    BY <1>48 DEF TypeOK, NodeTypes, MainTypes, ListenerTypes, RecvEnter, SocketOf
  <2>3. SockTypes'
    BY <1>48 DEF TypeOK, NodeTypes, SockTypes, MainTypes, ListenerTypes, RecvEnter,
       SocketOf
  <2>4. MainTypes'
    BY <1>48 DEF TypeOK, NodeTypes, MainTypes, SockTypes, RecvEnter, SocketOf
  <2>5. ListenerTypes'
    BY <1>48 DEF TypeOK, NodeTypes, ListenerTypes, RecvEnter, SocketOf
  <2>6. RecvTypes'
    <3>1. CASE SocketOf(c) \in Ids
      <4>1. PICK s \in Ids : s = SocketOf(c)
        BY <3>1
      <4>2. rsock' = [rsock EXCEPT ![c] = s] /\ rpc' = [rpc EXCEPT ![c] = "wait"]
        BY <1>48, <4>1 DEF RecvEnter
      <4> QED
        BY <4>2 DEF TypeOK, RecvTypes
    <3>2. CASE SocketOf(c) \notin Ids
      BY <1>48, <3>2 DEF TypeOK, RecvTypes, RecvEnter
    <3> QED
      BY <3>1, <3>2
  <2> QED
    BY <2>1, <2>2, <2>3, <2>4, <2>5, <2>6 DEF TypeOK
<1>49. ASSUME NEW c \in Ids, RecvEnd(c) PROVE TypeOK'
  BY <1>49 DEF TypeOK, ProcTypes, NodeTypes, SockTypes, MainTypes, ListenerTypes, RecvTypes,
     RecvEnd, LeaveLoop
<1>50. ASSUME NEW c \in Ids, RecvFinish(c) PROVE TypeOK'
  BY <1>50 DEF TypeOK, ProcTypes, NodeTypes, SockTypes, MainTypes, ListenerTypes, RecvTypes,
     RecvFinish
<1>51. ASSUME NEW c \in Ids, RecvMessage(c) PROVE TypeOK'
  BY <1>51 DEF TypeOK, ProcTypes, NodeTypes, SockTypes, MainTypes, ListenerTypes, RecvTypes,
     RecvMessage
<1>52. ASSUME NEW c \in Ids, RecvDisconnect(c) PROVE TypeOK'
  BY <1>52 DEF TypeOK, ProcTypes, NodeTypes, SockTypes, MainTypes, ListenerTypes, RecvTypes,
     RecvDisconnect, LeaveLoop
<1>53. ASSUME NEW c \in Ids, NEW how \in {"fin", "rst"}, PeerCloses(c, how) PROVE TypeOK'
  BY <1>53 DEF TypeOK, ProcTypes, NodeTypes, SockTypes, MainTypes, ListenerTypes, RecvTypes,
     PeerCloses
<1>54. CASE UNCHANGED vars
  BY <1>54 DEF vars, TypeOK, ProcTypes, NodeTypes, SockTypes, MainTypes, ListenerTypes,
     RecvTypes
<1>59. CASE TerminateDangling
  BY <1>59 DEF TypeOK, ProcTypes, NodeTypes, SockTypes, MainTypes, ListenerTypes, RecvTypes,
     TerminateDangling, Undefined
<1>60. ASSUME NEW c \in Ids, RecvDangling(c) PROVE TypeOK'
  BY <1>60 DEF TypeOK, ProcTypes, NodeTypes, SockTypes, MainTypes, ListenerTypes, RecvTypes,
     RecvDangling, Undefined
<1>55. CASE MainStep
  BY <1>55, <1>1, <1>2, <1>3, <1>4, <1>5, <1>6, <1>7, <1>8, <1>9, <1>10, <1>11, <1>12,
     <1>13, <1>14, <1>15, <1>16, <1>17, <1>18, <1>19, <1>20, <1>21, <1>22, <1>23, <1>24,
     <1>25, <1>26, <1>27, <1>28, <1>29, <1>30, <1>31, <1>47, <1>59
     DEF MainStep
<1>56. CASE ListenerStep
  BY <1>56, <1>32, <1>33, <1>34, <1>35, <1>36, <1>37, <1>38, <1>39, <1>40, <1>41, <1>42 DEF
     ListenerStep
<1>57. CASE \E c \in Ids : RecvStep(c)
  BY <1>57, <1>48, <1>49, <1>50, <1>60 DEF RecvStep
<1>58. CASE Environment
  BY <1>58, <1>46, <1>45, <1>43, <1>44, <1>51, <1>52, <1>53 DEF Environment
<1> QED
  BY <1>54, <1>55, <1>56, <1>57, <1>58 DEF Next

(* The types hold in every state of every behaviour, hasty user or not.    *)
THEOREM TypeCorrect == Spec => []TypeOK
<1>1. Init => TypeOK
  BY P2PAssumption
     DEF Init, TypeOK, ProcTypes, NodeTypes, SockTypes, MainTypes, ListenerTypes, RecvTypes,
         Ids, Fds, None, MainPlaces, MainDerefs, ListenerPlaces, ListenerDerefs, RecvPlaces,
         CommandType, NoCmd
<1> QED
  BY <1>1, TypeInductive, PTL DEF Spec

(* Every step of every thread keeps what is known of the nodes and of the  *)
(* pointers to them, whatever the user names.                              *)
LEMMA AnyUserInductive == TypeOK /\ AnyUserInv /\ [Next]_vars => AnyUserInv'
<1> SUFFICES ASSUME TypeOK, AnyUserInv, [Next]_vars PROVE AnyUserInv'
  OBVIOUS
<1> USE P2PAssumption
    DEF None, Ids, nodeVars, sockVars, mainVars, lisVars, recvVars, MainBuilds, ListenerBuilds,
        BuildPlaces
<1>1. CASE Reap
  BY <1>1 DEF TypeOK, NodeTypes, MainTypes, ListenerTypes, RecvTypes, MainDerefs,
     ListenerDerefs, CommandType, AnyUserInv, FreshIds, Handles, OneBuilderUnlessEarly,
     EarlyAreOfListener, ListedAreLive, ReaderLiveUnlessEarly, NamedIsAnnounced,
     MainKeepsUnlessEarly, PatientUser, UndefinedOnlyByHaste, Reap, ReapScan
<1>2. CASE ReapJoin
  BY <1>2 DEF TypeOK, NodeTypes, MainTypes, ListenerTypes, RecvTypes, MainDerefs,
     ListenerDerefs, CommandType, AnyUserInv, FreshIds, Handles, OneBuilderUnlessEarly,
     EarlyAreOfListener, ListedAreLive, ReaderLiveUnlessEarly, NamedIsAnnounced,
     MainKeepsUnlessEarly, PatientUser, UndefinedOnlyByHaste, ReapJoin
<1>3. CASE ReapRemove
  <2>1. FreshIds'
    BY <1>3 DEF TypeOK, NodeTypes, MainTypes, ListenerTypes, RecvTypes, MainDerefs,
       ListenerDerefs, CommandType, AnyUserInv, FreshIds, Handles, OneBuilderUnlessEarly,
       EarlyAreOfListener, ListedAreLive, ReaderLiveUnlessEarly, NamedIsAnnounced,
       MainKeepsUnlessEarly, PatientUser, UndefinedOnlyByHaste, ReapRemove, RemoveNode,
       ReapScan
  <2>2. Handles'
    BY <1>3 DEF TypeOK, NodeTypes, MainTypes, ListenerTypes, RecvTypes, MainDerefs,
       ListenerDerefs, CommandType, AnyUserInv, FreshIds, Handles, OneBuilderUnlessEarly,
       EarlyAreOfListener, ListedAreLive, ReaderLiveUnlessEarly, NamedIsAnnounced,
       MainKeepsUnlessEarly, PatientUser, UndefinedOnlyByHaste, ReapRemove, RemoveNode,
       ReapScan
  <2>3. OneBuilderUnlessEarly'
    BY <1>3 DEF TypeOK, NodeTypes, MainTypes, ListenerTypes, RecvTypes, MainDerefs,
       ListenerDerefs, CommandType, AnyUserInv, FreshIds, Handles, OneBuilderUnlessEarly,
       EarlyAreOfListener, ListedAreLive, ReaderLiveUnlessEarly, NamedIsAnnounced,
       MainKeepsUnlessEarly, PatientUser, UndefinedOnlyByHaste, ReapRemove, RemoveNode,
       ReapScan
  <2>4. ListedAreLive'
    <3>1. ASSUME NEW c \in conns' PROVE c \in conns /\ c # mcur
      BY <1>3, <3>1 DEF AnyUserInv, MainKeepsUnlessEarly, ReapRemove, RemoveNode
    <3> QED
      BY <1>3, <3>1 DEF TypeOK, NodeTypes, AnyUserInv, MainKeepsUnlessEarly, ListedAreLive, ReapRemove,
         RemoveNode
  <2>5. ReaderLiveUnlessEarly'
    BY <1>3 DEF TypeOK, NodeTypes, MainTypes, ListenerTypes, RecvTypes, MainDerefs,
       ListenerDerefs, CommandType, AnyUserInv, FreshIds, Handles, OneBuilderUnlessEarly,
       EarlyAreOfListener, ListedAreLive, ReaderLiveUnlessEarly, NamedIsAnnounced,
       MainKeepsUnlessEarly, PatientUser, UndefinedOnlyByHaste, ReapRemove, RemoveNode,
       ReapScan
  <2>6. PatientUser'
    BY <1>3 DEF TypeOK, NodeTypes, MainTypes, ListenerTypes, RecvTypes, MainDerefs,
       ListenerDerefs, CommandType, AnyUserInv, FreshIds, Handles, OneBuilderUnlessEarly,
       EarlyAreOfListener, ListedAreLive, ReaderLiveUnlessEarly, NamedIsAnnounced,
       MainKeepsUnlessEarly, PatientUser, UndefinedOnlyByHaste, ReapRemove, RemoveNode,
       ReapScan
  <2>7. MainKeepsUnlessEarly'
    BY <1>3 DEF TypeOK, NodeTypes, MainTypes, ListenerTypes, RecvTypes, MainDerefs,
       ListenerDerefs, CommandType, AnyUserInv, FreshIds, Handles, OneBuilderUnlessEarly,
       EarlyAreOfListener, ListedAreLive, ReaderLiveUnlessEarly, NamedIsAnnounced,
       MainKeepsUnlessEarly, PatientUser, UndefinedOnlyByHaste, ReapRemove, RemoveNode,
       ReapScan
  <2>8. UndefinedOnlyByHaste'
    BY <1>3 DEF AnyUserInv, UndefinedOnlyByHaste, ReapRemove
  <2>9. EarlyAreOfListener'
    <3>1. \A c \in Ids : mem'[c] = mem[c] \/ mem'[c] = "freed"
      BY <1>3 DEF TypeOK, NodeTypes, ReapRemove, RemoveNode
    <3>2. UNCHANGED <<early, lpc, lcur>> /\ early \subseteq Ids /\ mpc' \notin BuildPlaces
      BY <1>3 DEF TypeOK, ProcTypes, ReapRemove, ReapScan
    <3> QED
      BY <3>1, <3>2 DEF AnyUserInv, EarlyAreOfListener
  <2> QED
    BY <2>1, <2>2, <2>3, <2>4, <2>5, <2>6, <2>7, <2>8, <2>9 DEF AnyUserInv
<1>4. CASE CmdOther
  BY <1>4 DEF TypeOK, NodeTypes, MainTypes, ListenerTypes, RecvTypes, MainDerefs,
     ListenerDerefs, CommandType, AnyUserInv, FreshIds, Handles, OneBuilderUnlessEarly,
     EarlyAreOfListener, ListedAreLive, ReaderLiveUnlessEarly, NamedIsAnnounced,
     MainKeepsUnlessEarly, PatientUser, UndefinedOnlyByHaste, CmdOther, Prompt, Dispatch, NoCmd
<1>5. CASE CmdList
  <2>1. FreshIds'
    BY <1>5 DEF TypeOK, NodeTypes, MainTypes, ListenerTypes, RecvTypes, MainDerefs,
       ListenerDerefs, CommandType, AnyUserInv, FreshIds, Handles, OneBuilderUnlessEarly,
       EarlyAreOfListener, ListedAreLive, ReaderLiveUnlessEarly, NamedIsAnnounced,
       MainKeepsUnlessEarly, PatientUser, UndefinedOnlyByHaste, CmdList, Dispatch
  <2>2. Handles'
    BY <1>5 DEF TypeOK, NodeTypes, MainTypes, ListenerTypes, RecvTypes, MainDerefs,
       ListenerDerefs, CommandType, AnyUserInv, FreshIds, Handles, OneBuilderUnlessEarly,
       EarlyAreOfListener, ListedAreLive, ReaderLiveUnlessEarly, NamedIsAnnounced,
       MainKeepsUnlessEarly, PatientUser, UndefinedOnlyByHaste, CmdList, Dispatch
  <2>3. OneBuilderUnlessEarly'
    BY <1>5 DEF TypeOK, NodeTypes, MainTypes, ListenerTypes, RecvTypes, MainDerefs,
       ListenerDerefs, CommandType, AnyUserInv, FreshIds, Handles, OneBuilderUnlessEarly,
       EarlyAreOfListener, ListedAreLive, ReaderLiveUnlessEarly, NamedIsAnnounced,
       MainKeepsUnlessEarly, PatientUser, UndefinedOnlyByHaste, CmdList, Dispatch
  <2>4. ListedAreLive'
    BY <1>5 DEF TypeOK, NodeTypes, MainTypes, ListenerTypes, RecvTypes, MainDerefs,
       ListenerDerefs, CommandType, AnyUserInv, FreshIds, Handles, OneBuilderUnlessEarly,
       EarlyAreOfListener, ListedAreLive, ReaderLiveUnlessEarly, NamedIsAnnounced,
       MainKeepsUnlessEarly, PatientUser, UndefinedOnlyByHaste, CmdList, Dispatch
  <2>5. ReaderLiveUnlessEarly'
    BY <1>5 DEF TypeOK, NodeTypes, MainTypes, ListenerTypes, RecvTypes, MainDerefs,
       ListenerDerefs, CommandType, AnyUserInv, FreshIds, Handles, OneBuilderUnlessEarly,
       EarlyAreOfListener, ListedAreLive, ReaderLiveUnlessEarly, NamedIsAnnounced,
       MainKeepsUnlessEarly, PatientUser, UndefinedOnlyByHaste, CmdList, Dispatch
  <2>6. PatientUser'
    BY <1>5 DEF AnyUserInv, PatientUser, CmdList, NamedIsAnnounced, NoCmd
  <2>7. MainKeepsUnlessEarly'
    BY <1>5 DEF TypeOK, NodeTypes, MainTypes, ListenerTypes, RecvTypes, MainDerefs,
       ListenerDerefs, CommandType, AnyUserInv, FreshIds, Handles, OneBuilderUnlessEarly,
       EarlyAreOfListener, ListedAreLive, ReaderLiveUnlessEarly, NamedIsAnnounced,
       MainKeepsUnlessEarly, PatientUser, UndefinedOnlyByHaste, CmdList, Dispatch
  <2>8. UndefinedOnlyByHaste'
    BY <1>5 DEF AnyUserInv, UndefinedOnlyByHaste, CmdList
  <2>9. EarlyAreOfListener'
    BY <1>5 DEF TypeOK, NodeTypes, MainTypes, ListenerTypes, RecvTypes, MainDerefs,
       ListenerDerefs, CommandType, AnyUserInv, FreshIds, Handles, OneBuilderUnlessEarly,
       EarlyAreOfListener, ListedAreLive, ReaderLiveUnlessEarly, NamedIsAnnounced,
       MainKeepsUnlessEarly, PatientUser, UndefinedOnlyByHaste, CmdList, Dispatch
  <2> QED
    BY <2>1, <2>2, <2>3, <2>4, <2>5, <2>6, <2>7, <2>8, <2>9 DEF AnyUserInv
<1>6. CASE ConnectRefused
  BY <1>6 DEF TypeOK, NodeTypes, MainTypes, ListenerTypes, RecvTypes, MainDerefs,
     ListenerDerefs, CommandType, AnyUserInv, FreshIds, Handles, OneBuilderUnlessEarly,
     EarlyAreOfListener, ListedAreLive, ReaderLiveUnlessEarly, NamedIsAnnounced,
     MainKeepsUnlessEarly, PatientUser, UndefinedOnlyByHaste, ConnectRefused, Prompt, Dispatch,
     NoCmd
<1>7. CASE ConnectAllowed
  BY <1>7 DEF TypeOK, NodeTypes, MainTypes, ListenerTypes, RecvTypes, MainDerefs,
     ListenerDerefs, CommandType, AnyUserInv, FreshIds, Handles, OneBuilderUnlessEarly,
     EarlyAreOfListener, ListedAreLive, ReaderLiveUnlessEarly, NamedIsAnnounced,
     MainKeepsUnlessEarly, PatientUser, UndefinedOnlyByHaste, ConnectAllowed, Dispatch
<1>8. CASE OpenSocket
  BY <1>8 DEF TypeOK, NodeTypes, MainTypes, ListenerTypes, RecvTypes, MainDerefs,
     ListenerDerefs, CommandType, AnyUserInv, FreshIds, Handles, OneBuilderUnlessEarly,
     EarlyAreOfListener, ListedAreLive, ReaderLiveUnlessEarly, NamedIsAnnounced,
     MainKeepsUnlessEarly, PatientUser, UndefinedOnlyByHaste, OpenSocket, Prompt, LowestFree,
     FreeFds, FreeFds, NoCmd
<1>9. CASE DialOk
  <2>1. FreshIds'
    BY <1>9 DEF TypeOK, NodeTypes, MainTypes, ListenerTypes, RecvTypes, MainDerefs,
       ListenerDerefs, CommandType, AnyUserInv, FreshIds, Handles, OneBuilderUnlessEarly,
       EarlyAreOfListener, ListedAreLive, ReaderLiveUnlessEarly, MainKeepsUnlessEarly,
       PatientUser, NamedIsAnnounced, UndefinedOnlyByHaste, DialOk, NewNode
  <2>2. Handles'
    BY <1>9 DEF TypeOK, NodeTypes, MainTypes, ListenerTypes, RecvTypes, MainDerefs,
       ListenerDerefs, CommandType, AnyUserInv, FreshIds, Handles, OneBuilderUnlessEarly,
       EarlyAreOfListener, ListedAreLive, ReaderLiveUnlessEarly, MainKeepsUnlessEarly,
       PatientUser, NamedIsAnnounced, UndefinedOnlyByHaste, DialOk, NewNode
  <2>3. OneBuilderUnlessEarly'
    <3>1. mem[next_conn_id] = "unused" /\ rpc[next_conn_id] = "none" /\ next_conn_id \in Ids
      BY <1>9 DEF AnyUserInv, FreshIds, DialOk, NewNode, TypeOK, NodeTypes
    <3>2. ~ListenerBuilds(next_conn_id)
      BY <3>1 DEF AnyUserInv, OneBuilderUnlessEarly, EarlyAreOfListener
    <3>3. mpc' = "insert" /\ mcur' = next_conn_id /\ lpc' = lpc /\ lcur' = lcur /\ rpc' = rpc
          /\ early' = early /\ conns' = conns /\ mem' = [mem EXCEPT ![next_conn_id] = "live"]
      BY <1>9 DEF DialOk, NewNode
    <3>4. \A c \in Ids : ~MainBuilds(c)
      BY <1>9 DEF DialOk
    <3> QED
      BY <3>1, <3>2, <3>3, <3>4 DEF TypeOK, NodeTypes, AnyUserInv, OneBuilderUnlessEarly
  <2>4. ListedAreLive'
    BY <1>9 DEF TypeOK, NodeTypes, MainTypes, ListenerTypes, RecvTypes, MainDerefs,
       ListenerDerefs, CommandType, AnyUserInv, FreshIds, Handles, OneBuilderUnlessEarly,
       EarlyAreOfListener, ListedAreLive, ReaderLiveUnlessEarly, MainKeepsUnlessEarly,
       PatientUser, NamedIsAnnounced, UndefinedOnlyByHaste, DialOk, NewNode
  <2>5. ReaderLiveUnlessEarly'
    BY <1>9 DEF TypeOK, NodeTypes, MainTypes, ListenerTypes, RecvTypes, MainDerefs,
       ListenerDerefs, CommandType, AnyUserInv, FreshIds, Handles, OneBuilderUnlessEarly,
       EarlyAreOfListener, ListedAreLive, ReaderLiveUnlessEarly, MainKeepsUnlessEarly,
       PatientUser, NamedIsAnnounced, UndefinedOnlyByHaste, DialOk, NewNode
  <2>6. MainKeepsUnlessEarly'
    BY <1>9 DEF TypeOK, NodeTypes, MainTypes, ListenerTypes, RecvTypes, MainDerefs,
       ListenerDerefs, CommandType, AnyUserInv, FreshIds, Handles, OneBuilderUnlessEarly,
       EarlyAreOfListener, ListedAreLive, ReaderLiveUnlessEarly, MainKeepsUnlessEarly,
       PatientUser, NamedIsAnnounced, UndefinedOnlyByHaste, DialOk, NewNode
  <2>7. PatientUser'
    BY <1>9 DEF TypeOK, NodeTypes, MainTypes, ListenerTypes, RecvTypes, MainDerefs,
       ListenerDerefs, CommandType, AnyUserInv, FreshIds, Handles, OneBuilderUnlessEarly,
       EarlyAreOfListener, ListedAreLive, ReaderLiveUnlessEarly, MainKeepsUnlessEarly,
       PatientUser, NamedIsAnnounced, UndefinedOnlyByHaste, DialOk, NewNode
  <2>8. UndefinedOnlyByHaste'
    BY <1>9 DEF TypeOK, NodeTypes, MainTypes, ListenerTypes, RecvTypes, MainDerefs,
       ListenerDerefs, CommandType, AnyUserInv, FreshIds, Handles, OneBuilderUnlessEarly,
       EarlyAreOfListener, ListedAreLive, ReaderLiveUnlessEarly, MainKeepsUnlessEarly,
       PatientUser, NamedIsAnnounced, UndefinedOnlyByHaste, DialOk, NewNode
  <2>9. EarlyAreOfListener'
    BY <1>9 DEF TypeOK, NodeTypes, MainTypes, ListenerTypes, RecvTypes, MainDerefs,
       ListenerDerefs, CommandType, AnyUserInv, FreshIds, Handles, OneBuilderUnlessEarly,
       EarlyAreOfListener, ListedAreLive, ReaderLiveUnlessEarly, MainKeepsUnlessEarly,
       PatientUser, NamedIsAnnounced, UndefinedOnlyByHaste, DialOk, NewNode
  <2> QED
    BY <2>1, <2>2, <2>3, <2>4, <2>5, <2>6, <2>7, <2>8, <2>9 DEF AnyUserInv
<1>10. CASE DialFail
  BY <1>10 DEF TypeOK, NodeTypes, MainTypes, ListenerTypes, RecvTypes, MainDerefs,
     ListenerDerefs, CommandType, AnyUserInv, FreshIds, Handles, OneBuilderUnlessEarly,
     EarlyAreOfListener, ListedAreLive, ReaderLiveUnlessEarly, NamedIsAnnounced,
     MainKeepsUnlessEarly, PatientUser, UndefinedOnlyByHaste, DialFail, Closed, Prompt, NoCmd
<1>11. CASE ConnectInsert
  <2>1. FreshIds'
    BY <1>11 DEF TypeOK, NodeTypes, MainTypes, ListenerTypes, RecvTypes, MainDerefs,
       ListenerDerefs, CommandType, AnyUserInv, FreshIds, Handles, OneBuilderUnlessEarly,
       EarlyAreOfListener, ListedAreLive, ReaderLiveUnlessEarly, MainKeepsUnlessEarly,
       PatientUser, NamedIsAnnounced, UndefinedOnlyByHaste, ConnectInsert
  <2>2. Handles'
    BY <1>11 DEF TypeOK, NodeTypes, MainTypes, ListenerTypes, RecvTypes, MainDerefs,
       ListenerDerefs, CommandType, AnyUserInv, FreshIds, Handles, OneBuilderUnlessEarly,
       EarlyAreOfListener, ListedAreLive, ReaderLiveUnlessEarly, MainKeepsUnlessEarly,
       PatientUser, NamedIsAnnounced, UndefinedOnlyByHaste, ConnectInsert
  <2>3. OneBuilderUnlessEarly'
    BY <1>11 DEF TypeOK, NodeTypes, MainTypes, ListenerTypes, RecvTypes, MainDerefs,
       ListenerDerefs, CommandType, AnyUserInv, FreshIds, Handles, OneBuilderUnlessEarly,
       EarlyAreOfListener, ListedAreLive, ReaderLiveUnlessEarly, MainKeepsUnlessEarly,
       PatientUser, NamedIsAnnounced, UndefinedOnlyByHaste, ConnectInsert
  <2>4. ListedAreLive'
    BY <1>11 DEF TypeOK, NodeTypes, MainTypes, ListenerTypes, RecvTypes, MainDerefs,
       ListenerDerefs, CommandType, AnyUserInv, FreshIds, Handles, OneBuilderUnlessEarly,
       EarlyAreOfListener, ListedAreLive, ReaderLiveUnlessEarly, MainKeepsUnlessEarly,
       PatientUser, NamedIsAnnounced, UndefinedOnlyByHaste, ConnectInsert
  <2>5. ReaderLiveUnlessEarly'
    BY <1>11 DEF TypeOK, NodeTypes, MainTypes, ListenerTypes, RecvTypes, MainDerefs,
       ListenerDerefs, CommandType, AnyUserInv, FreshIds, Handles, OneBuilderUnlessEarly,
       EarlyAreOfListener, ListedAreLive, ReaderLiveUnlessEarly, MainKeepsUnlessEarly,
       PatientUser, NamedIsAnnounced, UndefinedOnlyByHaste, ConnectInsert
  <2>6. MainKeepsUnlessEarly'
    BY <1>11 DEF TypeOK, NodeTypes, MainTypes, ListenerTypes, RecvTypes, MainDerefs,
       ListenerDerefs, CommandType, AnyUserInv, FreshIds, Handles, OneBuilderUnlessEarly,
       EarlyAreOfListener, ListedAreLive, ReaderLiveUnlessEarly, MainKeepsUnlessEarly,
       PatientUser, NamedIsAnnounced, UndefinedOnlyByHaste, ConnectInsert
  <2>7. PatientUser'
    BY <1>11 DEF TypeOK, NodeTypes, MainTypes, ListenerTypes, RecvTypes, MainDerefs,
       ListenerDerefs, CommandType, AnyUserInv, FreshIds, Handles, OneBuilderUnlessEarly,
       EarlyAreOfListener, ListedAreLive, ReaderLiveUnlessEarly, MainKeepsUnlessEarly,
       PatientUser, NamedIsAnnounced, UndefinedOnlyByHaste, ConnectInsert
  <2>8. UndefinedOnlyByHaste'
    BY <1>11 DEF TypeOK, NodeTypes, MainTypes, ListenerTypes, RecvTypes, MainDerefs,
       ListenerDerefs, CommandType, AnyUserInv, FreshIds, Handles, OneBuilderUnlessEarly,
       EarlyAreOfListener, ListedAreLive, ReaderLiveUnlessEarly, MainKeepsUnlessEarly,
       PatientUser, NamedIsAnnounced, UndefinedOnlyByHaste, ConnectInsert
  <2>9. EarlyAreOfListener'
    BY <1>11 DEF TypeOK, NodeTypes, MainTypes, ListenerTypes, RecvTypes, MainDerefs,
       ListenerDerefs, CommandType, AnyUserInv, FreshIds, Handles, OneBuilderUnlessEarly,
       EarlyAreOfListener, ListedAreLive, ReaderLiveUnlessEarly, MainKeepsUnlessEarly,
       PatientUser, NamedIsAnnounced, UndefinedOnlyByHaste, ConnectInsert
  <2> QED
    BY <2>1, <2>2, <2>3, <2>4, <2>5, <2>6, <2>7, <2>8, <2>9 DEF AnyUserInv
<1>12. CASE ConnectCreate
  <2>1. FreshIds'
    BY <1>12 DEF TypeOK, NodeTypes, MainTypes, ListenerTypes, RecvTypes, MainDerefs,
       ListenerDerefs, CommandType, AnyUserInv, FreshIds, Handles, OneBuilderUnlessEarly,
       EarlyAreOfListener, ListedAreLive, ReaderLiveUnlessEarly, MainKeepsUnlessEarly,
       PatientUser, NamedIsAnnounced, UndefinedOnlyByHaste, ConnectCreate, StartThread, Prompt,
       NoCmd
  <2>2. Handles'
    BY <1>12 DEF TypeOK, NodeTypes, MainTypes, ListenerTypes, RecvTypes, MainDerefs,
       ListenerDerefs, CommandType, AnyUserInv, FreshIds, Handles, OneBuilderUnlessEarly,
       EarlyAreOfListener, ListedAreLive, ReaderLiveUnlessEarly, MainKeepsUnlessEarly,
       PatientUser, NamedIsAnnounced, UndefinedOnlyByHaste, ConnectCreate, StartThread, Prompt,
       NoCmd
  <2>3. OneBuilderUnlessEarly'
    BY <1>12 DEF TypeOK, NodeTypes, MainTypes, ListenerTypes, RecvTypes, MainDerefs,
       ListenerDerefs, CommandType, AnyUserInv, FreshIds, Handles, OneBuilderUnlessEarly,
       EarlyAreOfListener, ListedAreLive, ReaderLiveUnlessEarly, MainKeepsUnlessEarly,
       PatientUser, NamedIsAnnounced, UndefinedOnlyByHaste, ConnectCreate, StartThread, Prompt,
       NoCmd
  <2>4. ListedAreLive'
    BY <1>12 DEF TypeOK, NodeTypes, MainTypes, ListenerTypes, RecvTypes, MainDerefs,
       ListenerDerefs, CommandType, AnyUserInv, FreshIds, Handles, OneBuilderUnlessEarly,
       EarlyAreOfListener, ListedAreLive, ReaderLiveUnlessEarly, MainKeepsUnlessEarly,
       PatientUser, NamedIsAnnounced, UndefinedOnlyByHaste, ConnectCreate, StartThread, Prompt,
       NoCmd
  <2>5. ReaderLiveUnlessEarly'
    BY <1>12 DEF TypeOK, NodeTypes, MainTypes, ListenerTypes, RecvTypes, MainDerefs,
       ListenerDerefs, CommandType, AnyUserInv, FreshIds, Handles, OneBuilderUnlessEarly,
       EarlyAreOfListener, ListedAreLive, ReaderLiveUnlessEarly, MainKeepsUnlessEarly,
       PatientUser, NamedIsAnnounced, UndefinedOnlyByHaste, ConnectCreate, StartThread, Prompt,
       NoCmd
  <2>6. MainKeepsUnlessEarly'
    BY <1>12 DEF TypeOK, NodeTypes, MainTypes, ListenerTypes, RecvTypes, MainDerefs,
       ListenerDerefs, CommandType, AnyUserInv, FreshIds, Handles, OneBuilderUnlessEarly,
       EarlyAreOfListener, ListedAreLive, ReaderLiveUnlessEarly, MainKeepsUnlessEarly,
       PatientUser, NamedIsAnnounced, UndefinedOnlyByHaste, ConnectCreate, StartThread, Prompt,
       NoCmd
  <2>7. PatientUser'
    BY <1>12 DEF TypeOK, NodeTypes, MainTypes, ListenerTypes, RecvTypes, MainDerefs,
       ListenerDerefs, CommandType, AnyUserInv, FreshIds, Handles, OneBuilderUnlessEarly,
       EarlyAreOfListener, ListedAreLive, ReaderLiveUnlessEarly, MainKeepsUnlessEarly,
       PatientUser, NamedIsAnnounced, UndefinedOnlyByHaste, ConnectCreate, StartThread, Prompt,
       NoCmd
  <2>8. UndefinedOnlyByHaste'
    BY <1>12 DEF TypeOK, NodeTypes, MainTypes, ListenerTypes, RecvTypes, MainDerefs,
       ListenerDerefs, CommandType, AnyUserInv, FreshIds, Handles, OneBuilderUnlessEarly,
       EarlyAreOfListener, ListedAreLive, ReaderLiveUnlessEarly, MainKeepsUnlessEarly,
       PatientUser, NamedIsAnnounced, UndefinedOnlyByHaste, ConnectCreate, StartThread, Prompt,
       NoCmd
  <2>9. EarlyAreOfListener'
    BY <1>12 DEF TypeOK, NodeTypes, MainTypes, ListenerTypes, RecvTypes, MainDerefs,
       ListenerDerefs, CommandType, AnyUserInv, FreshIds, Handles, OneBuilderUnlessEarly,
       EarlyAreOfListener, ListedAreLive, ReaderLiveUnlessEarly, MainKeepsUnlessEarly,
       PatientUser, NamedIsAnnounced, UndefinedOnlyByHaste, ConnectCreate, StartThread, Prompt,
       NoCmd
  <2> QED
    BY <2>1, <2>2, <2>3, <2>4, <2>5, <2>6, <2>7, <2>8, <2>9 DEF AnyUserInv
<1>13. CASE ConnectCreateFail
  BY <1>13 DEF TypeOK, NodeTypes, MainTypes, ListenerTypes, RecvTypes, MainDerefs,
     ListenerDerefs, CommandType, AnyUserInv, FreshIds, Handles, OneBuilderUnlessEarly,
     EarlyAreOfListener, ListedAreLive, ReaderLiveUnlessEarly, NamedIsAnnounced,
     MainKeepsUnlessEarly, PatientUser, UndefinedOnlyByHaste, ConnectCreateFail, Closed
<1>14. CASE ConnectRollback
  <2>1. FreshIds'
    BY <1>14 DEF TypeOK, NodeTypes, MainTypes, ListenerTypes, RecvTypes, MainDerefs,
       ListenerDerefs, CommandType, AnyUserInv, FreshIds, Handles, OneBuilderUnlessEarly,
       EarlyAreOfListener, ListedAreLive, ReaderLiveUnlessEarly, MainKeepsUnlessEarly,
       PatientUser, NamedIsAnnounced, UndefinedOnlyByHaste, ConnectRollback, RemoveNode,
       Prompt, NoCmd
  <2>2. Handles'
    BY <1>14 DEF TypeOK, NodeTypes, MainTypes, ListenerTypes, RecvTypes, MainDerefs,
       ListenerDerefs, CommandType, AnyUserInv, FreshIds, Handles, OneBuilderUnlessEarly,
       EarlyAreOfListener, ListedAreLive, ReaderLiveUnlessEarly, MainKeepsUnlessEarly,
       PatientUser, NamedIsAnnounced, UndefinedOnlyByHaste, ConnectRollback, RemoveNode,
       Prompt, NoCmd
  <2>3. OneBuilderUnlessEarly'
    BY <1>14 DEF TypeOK, NodeTypes, MainTypes, ListenerTypes, RecvTypes, MainDerefs,
       ListenerDerefs, CommandType, AnyUserInv, FreshIds, Handles, OneBuilderUnlessEarly,
       EarlyAreOfListener, ListedAreLive, ReaderLiveUnlessEarly, MainKeepsUnlessEarly,
       PatientUser, NamedIsAnnounced, UndefinedOnlyByHaste, ConnectRollback, RemoveNode,
       Prompt, NoCmd
  <2>4. ListedAreLive'
    BY <1>14 DEF TypeOK, NodeTypes, MainTypes, ListenerTypes, RecvTypes, MainDerefs,
       ListenerDerefs, CommandType, AnyUserInv, FreshIds, Handles, OneBuilderUnlessEarly,
       EarlyAreOfListener, ListedAreLive, ReaderLiveUnlessEarly, MainKeepsUnlessEarly,
       PatientUser, NamedIsAnnounced, UndefinedOnlyByHaste, ConnectRollback, RemoveNode,
       Prompt, NoCmd
  <2>5. ReaderLiveUnlessEarly'
    BY <1>14 DEF TypeOK, NodeTypes, MainTypes, ListenerTypes, RecvTypes, MainDerefs,
       ListenerDerefs, CommandType, AnyUserInv, FreshIds, Handles, OneBuilderUnlessEarly,
       EarlyAreOfListener, ListedAreLive, ReaderLiveUnlessEarly, MainKeepsUnlessEarly,
       PatientUser, NamedIsAnnounced, UndefinedOnlyByHaste, ConnectRollback, RemoveNode,
       Prompt, NoCmd
  <2>6. MainKeepsUnlessEarly'
    BY <1>14 DEF TypeOK, NodeTypes, MainTypes, ListenerTypes, RecvTypes, MainDerefs,
       ListenerDerefs, CommandType, AnyUserInv, FreshIds, Handles, OneBuilderUnlessEarly,
       EarlyAreOfListener, ListedAreLive, ReaderLiveUnlessEarly, MainKeepsUnlessEarly,
       PatientUser, NamedIsAnnounced, UndefinedOnlyByHaste, ConnectRollback, RemoveNode,
       Prompt, NoCmd
  <2>7. PatientUser'
    BY <1>14 DEF TypeOK, NodeTypes, MainTypes, ListenerTypes, RecvTypes, MainDerefs,
       ListenerDerefs, CommandType, AnyUserInv, FreshIds, Handles, OneBuilderUnlessEarly,
       EarlyAreOfListener, ListedAreLive, ReaderLiveUnlessEarly, MainKeepsUnlessEarly,
       PatientUser, NamedIsAnnounced, UndefinedOnlyByHaste, ConnectRollback, RemoveNode,
       Prompt, NoCmd
  <2>8. UndefinedOnlyByHaste'
    BY <1>14 DEF TypeOK, NodeTypes, MainTypes, ListenerTypes, RecvTypes, MainDerefs,
       ListenerDerefs, CommandType, AnyUserInv, FreshIds, Handles, OneBuilderUnlessEarly,
       EarlyAreOfListener, ListedAreLive, ReaderLiveUnlessEarly, MainKeepsUnlessEarly,
       PatientUser, NamedIsAnnounced, UndefinedOnlyByHaste, ConnectRollback, RemoveNode,
       Prompt, NoCmd
  <2>9. EarlyAreOfListener'
    BY <1>14 DEF TypeOK, NodeTypes, MainTypes, ListenerTypes, RecvTypes, MainDerefs,
       ListenerDerefs, CommandType, AnyUserInv, FreshIds, Handles, OneBuilderUnlessEarly,
       EarlyAreOfListener, ListedAreLive, ReaderLiveUnlessEarly, MainKeepsUnlessEarly,
       PatientUser, NamedIsAnnounced, UndefinedOnlyByHaste, ConnectRollback, RemoveNode,
       Prompt, NoCmd
  <2> QED
    BY <2>1, <2>2, <2>3, <2>4, <2>5, <2>6, <2>7, <2>8, <2>9 DEF AnyUserInv
<1>15. CASE TerminateUnknown
  BY <1>15 DEF TypeOK, NodeTypes, MainTypes, ListenerTypes, RecvTypes, MainDerefs,
     ListenerDerefs, CommandType, AnyUserInv, FreshIds, Handles, OneBuilderUnlessEarly,
     EarlyAreOfListener, ListedAreLive, ReaderLiveUnlessEarly, NamedIsAnnounced,
     MainKeepsUnlessEarly, PatientUser, UndefinedOnlyByHaste, TerminateUnknown, Prompt,
     Dispatch, NoCmd
<1>16. CASE TerminateClose
  <2>1. FreshIds'
    BY <1>16 DEF TypeOK, NodeTypes, MainTypes, ListenerTypes, RecvTypes, MainDerefs,
       ListenerDerefs, CommandType, AnyUserInv, FreshIds, Handles, OneBuilderUnlessEarly,
       EarlyAreOfListener, ListedAreLive, ReaderLiveUnlessEarly, MainKeepsUnlessEarly,
       PatientUser, NamedIsAnnounced, UndefinedOnlyByHaste, TerminateClose, NoteEarly, Dispatch
  <2>2. Handles'
    BY <1>16 DEF TypeOK, NodeTypes, MainTypes, ListenerTypes, RecvTypes, MainDerefs,
       ListenerDerefs, CommandType, AnyUserInv, FreshIds, Handles, OneBuilderUnlessEarly,
       EarlyAreOfListener, ListedAreLive, ReaderLiveUnlessEarly, MainKeepsUnlessEarly,
       PatientUser, NamedIsAnnounced, UndefinedOnlyByHaste, TerminateClose, NoteEarly, Dispatch
  <2>3. OneBuilderUnlessEarly'
    BY <1>16 DEF TypeOK, NodeTypes, MainTypes, ListenerTypes, RecvTypes, MainDerefs,
       ListenerDerefs, CommandType, AnyUserInv, FreshIds, Handles, OneBuilderUnlessEarly,
       EarlyAreOfListener, ListedAreLive, ReaderLiveUnlessEarly, MainKeepsUnlessEarly,
       PatientUser, NamedIsAnnounced, UndefinedOnlyByHaste, TerminateClose, NoteEarly, Dispatch
  <2>4. ListedAreLive'
    BY <1>16 DEF TypeOK, NodeTypes, MainTypes, ListenerTypes, RecvTypes, MainDerefs,
       ListenerDerefs, CommandType, AnyUserInv, FreshIds, Handles, OneBuilderUnlessEarly,
       EarlyAreOfListener, ListedAreLive, ReaderLiveUnlessEarly, MainKeepsUnlessEarly,
       PatientUser, NamedIsAnnounced, UndefinedOnlyByHaste, TerminateClose, NoteEarly, Dispatch
  <2>5. ReaderLiveUnlessEarly'
    BY <1>16 DEF TypeOK, NodeTypes, MainTypes, ListenerTypes, RecvTypes, MainDerefs,
       ListenerDerefs, CommandType, AnyUserInv, FreshIds, Handles, OneBuilderUnlessEarly,
       EarlyAreOfListener, ListedAreLive, ReaderLiveUnlessEarly, MainKeepsUnlessEarly,
       PatientUser, NamedIsAnnounced, UndefinedOnlyByHaste, TerminateClose, NoteEarly, Dispatch
  <2>6. MainKeepsUnlessEarly'
    BY <1>16 DEF TypeOK, NodeTypes, MainTypes, ListenerTypes, RecvTypes, MainDerefs,
       ListenerDerefs, CommandType, AnyUserInv, FreshIds, Handles, OneBuilderUnlessEarly,
       EarlyAreOfListener, ListedAreLive, ReaderLiveUnlessEarly, MainKeepsUnlessEarly,
       PatientUser, NamedIsAnnounced, UndefinedOnlyByHaste, TerminateClose, NoteEarly, Dispatch
  <2>7. PatientUser'
    BY <1>16 DEF TypeOK, NodeTypes, MainTypes, ListenerTypes, RecvTypes, MainDerefs,
       ListenerDerefs, CommandType, AnyUserInv, FreshIds, Handles, OneBuilderUnlessEarly,
       EarlyAreOfListener, ListedAreLive, ReaderLiveUnlessEarly, MainKeepsUnlessEarly,
       PatientUser, NamedIsAnnounced, UndefinedOnlyByHaste, TerminateClose, NoteEarly, Dispatch
  <2>8. UndefinedOnlyByHaste'
    BY <1>16 DEF TypeOK, NodeTypes, MainTypes, ListenerTypes, RecvTypes, MainDerefs,
       ListenerDerefs, CommandType, AnyUserInv, FreshIds, Handles, OneBuilderUnlessEarly,
       EarlyAreOfListener, ListedAreLive, ReaderLiveUnlessEarly, MainKeepsUnlessEarly,
       PatientUser, NamedIsAnnounced, UndefinedOnlyByHaste, TerminateClose, NoteEarly, Dispatch
  <2>9. EarlyAreOfListener'
    BY <1>16 DEF TypeOK, NodeTypes, MainTypes, ListenerTypes, RecvTypes, MainDerefs,
       ListenerDerefs, CommandType, AnyUserInv, FreshIds, Handles, OneBuilderUnlessEarly,
       EarlyAreOfListener, ListedAreLive, ReaderLiveUnlessEarly, MainKeepsUnlessEarly,
       PatientUser, NamedIsAnnounced, UndefinedOnlyByHaste, TerminateClose, NoteEarly, Dispatch
  <2> QED
    BY <2>1, <2>2, <2>3, <2>4, <2>5, <2>6, <2>7, <2>8, <2>9 DEF AnyUserInv
<1>17. CASE TerminateSigPipe
  BY <1>17 DEF TypeOK, NodeTypes, MainTypes, ListenerTypes, RecvTypes, MainDerefs,
     ListenerDerefs, CommandType, AnyUserInv, FreshIds, Handles, OneBuilderUnlessEarly,
     EarlyAreOfListener, ListedAreLive, ReaderLiveUnlessEarly, NamedIsAnnounced,
     MainKeepsUnlessEarly, PatientUser, UndefinedOnlyByHaste, TerminateSigPipe, Die, Dispatch,
     SocketOf
<1>18. CASE TerminateJoin
  BY <1>18 DEF TypeOK, NodeTypes, MainTypes, ListenerTypes, RecvTypes, MainDerefs,
     ListenerDerefs, CommandType, AnyUserInv, FreshIds, Handles, OneBuilderUnlessEarly,
     EarlyAreOfListener, ListedAreLive, ReaderLiveUnlessEarly, NamedIsAnnounced,
     MainKeepsUnlessEarly, PatientUser, UndefinedOnlyByHaste, TerminateJoin
<1>19. CASE TerminateBadJoin
  BY <1>19 DEF TypeOK, NodeTypes, MainTypes, ListenerTypes, RecvTypes, MainDerefs,
     ListenerDerefs, CommandType, AnyUserInv, FreshIds, Handles, OneBuilderUnlessEarly,
     EarlyAreOfListener, ListedAreLive, ReaderLiveUnlessEarly, NamedIsAnnounced,
     MainKeepsUnlessEarly, PatientUser, UndefinedOnlyByHaste, TerminateBadJoin, Undefined
<1>20. CASE TerminateRemove
  <2>1. FreshIds'
    BY <1>20 DEF TypeOK, NodeTypes, MainTypes, ListenerTypes, RecvTypes, MainDerefs,
       ListenerDerefs, CommandType, AnyUserInv, FreshIds, Handles, OneBuilderUnlessEarly,
       EarlyAreOfListener, ListedAreLive, ReaderLiveUnlessEarly, NamedIsAnnounced,
       MainKeepsUnlessEarly, PatientUser, UndefinedOnlyByHaste, TerminateRemove, RemoveNode,
       Prompt, NoCmd
  <2>2. Handles'
    BY <1>20 DEF TypeOK, NodeTypes, MainTypes, ListenerTypes, RecvTypes, MainDerefs,
       ListenerDerefs, CommandType, AnyUserInv, FreshIds, Handles, OneBuilderUnlessEarly,
       EarlyAreOfListener, ListedAreLive, ReaderLiveUnlessEarly, NamedIsAnnounced,
       MainKeepsUnlessEarly, PatientUser, UndefinedOnlyByHaste, TerminateRemove, RemoveNode,
       Prompt, NoCmd
  <2>3. OneBuilderUnlessEarly'
    BY <1>20 DEF TypeOK, NodeTypes, MainTypes, ListenerTypes, RecvTypes, MainDerefs,
       ListenerDerefs, CommandType, AnyUserInv, FreshIds, Handles, OneBuilderUnlessEarly,
       EarlyAreOfListener, ListedAreLive, ReaderLiveUnlessEarly, NamedIsAnnounced,
       MainKeepsUnlessEarly, PatientUser, UndefinedOnlyByHaste, TerminateRemove, RemoveNode,
       Prompt, NoCmd
  <2>4. ListedAreLive'
    <3>1. ASSUME NEW c \in conns' PROVE c \in conns /\ c # mcur
      BY <1>20, <3>1 DEF AnyUserInv, MainKeepsUnlessEarly, TerminateRemove, RemoveNode
    <3> QED
      BY <1>20, <3>1 DEF TypeOK, NodeTypes, AnyUserInv, MainKeepsUnlessEarly, ListedAreLive, TerminateRemove,
         RemoveNode
  <2>5. ReaderLiveUnlessEarly'
    BY <1>20 DEF TypeOK, NodeTypes, MainTypes, ListenerTypes, RecvTypes, MainDerefs,
       ListenerDerefs, CommandType, AnyUserInv, FreshIds, Handles, OneBuilderUnlessEarly,
       EarlyAreOfListener, ListedAreLive, ReaderLiveUnlessEarly, NamedIsAnnounced,
       MainKeepsUnlessEarly, PatientUser, UndefinedOnlyByHaste, TerminateRemove, RemoveNode,
       Prompt, NoCmd
  <2>6. PatientUser'
    BY <1>20 DEF TypeOK, NodeTypes, MainTypes, ListenerTypes, RecvTypes, MainDerefs,
       ListenerDerefs, CommandType, AnyUserInv, FreshIds, Handles, OneBuilderUnlessEarly,
       EarlyAreOfListener, ListedAreLive, ReaderLiveUnlessEarly, NamedIsAnnounced,
       MainKeepsUnlessEarly, PatientUser, UndefinedOnlyByHaste, TerminateRemove, RemoveNode,
       Prompt, NoCmd
  <2>7. MainKeepsUnlessEarly'
    BY <1>20 DEF TypeOK, NodeTypes, MainTypes, ListenerTypes, RecvTypes, MainDerefs,
       ListenerDerefs, CommandType, AnyUserInv, FreshIds, Handles, OneBuilderUnlessEarly,
       EarlyAreOfListener, ListedAreLive, ReaderLiveUnlessEarly, NamedIsAnnounced,
       MainKeepsUnlessEarly, PatientUser, UndefinedOnlyByHaste, TerminateRemove, RemoveNode,
       Prompt, NoCmd
  <2>8. UndefinedOnlyByHaste'
    BY <1>20 DEF AnyUserInv, UndefinedOnlyByHaste, TerminateRemove
  <2>9. EarlyAreOfListener'
    <3>1. \A c \in Ids : mem'[c] = mem[c] \/ mem'[c] = "freed"
      BY <1>20 DEF TypeOK, NodeTypes, TerminateRemove, RemoveNode
    <3>2. UNCHANGED <<early, lpc, lcur>> /\ early \subseteq Ids /\ mpc' \notin BuildPlaces
      BY <1>20 DEF TypeOK, ProcTypes, TerminateRemove, Prompt
    <3> QED
      BY <3>1, <3>2 DEF AnyUserInv, EarlyAreOfListener
  <2> QED
    BY <2>1, <2>2, <2>3, <2>4, <2>5, <2>6, <2>7, <2>8, <2>9 DEF AnyUserInv
<1>21. CASE SendUnknown
  BY <1>21 DEF TypeOK, NodeTypes, MainTypes, ListenerTypes, RecvTypes, MainDerefs,
     ListenerDerefs, CommandType, AnyUserInv, FreshIds, Handles, OneBuilderUnlessEarly,
     EarlyAreOfListener, ListedAreLive, ReaderLiveUnlessEarly, NamedIsAnnounced,
     MainKeepsUnlessEarly, PatientUser, UndefinedOnlyByHaste, SendUnknown, Prompt, Dispatch,
     NoCmd
<1>22. CASE SendMessage
  BY <1>22 DEF TypeOK, NodeTypes, MainTypes, ListenerTypes, RecvTypes, MainDerefs,
     ListenerDerefs, CommandType, AnyUserInv, FreshIds, Handles, OneBuilderUnlessEarly,
     EarlyAreOfListener, ListedAreLive, ReaderLiveUnlessEarly, NamedIsAnnounced,
     MainKeepsUnlessEarly, PatientUser, UndefinedOnlyByHaste, SendMessage, Prompt, Dispatch,
     SocketOf, NoCmd
<1>23. CASE SendSigPipe
  BY <1>23 DEF TypeOK, NodeTypes, MainTypes, ListenerTypes, RecvTypes, MainDerefs,
     ListenerDerefs, CommandType, AnyUserInv, FreshIds, Handles, OneBuilderUnlessEarly,
     EarlyAreOfListener, ListedAreLive, ReaderLiveUnlessEarly, NamedIsAnnounced,
     MainKeepsUnlessEarly, PatientUser, UndefinedOnlyByHaste, SendSigPipe, Die, Dispatch,
     SocketOf
<1>24. CASE SendReport
  BY <1>24 DEF TypeOK, NodeTypes, MainTypes, ListenerTypes, RecvTypes, MainDerefs,
     ListenerDerefs, CommandType, AnyUserInv, FreshIds, Handles, OneBuilderUnlessEarly,
     EarlyAreOfListener, ListedAreLive, ReaderLiveUnlessEarly, NamedIsAnnounced,
     MainKeepsUnlessEarly, PatientUser, UndefinedOnlyByHaste, SendReport, Touch, Prompt, NoCmd
<1>25. CASE ExitFlag
  BY <1>25 DEF TypeOK, NodeTypes, MainTypes, ListenerTypes, RecvTypes, MainDerefs,
     ListenerDerefs, CommandType, AnyUserInv, FreshIds, Handles, OneBuilderUnlessEarly,
     EarlyAreOfListener, ListedAreLive, ReaderLiveUnlessEarly, NamedIsAnnounced,
     MainKeepsUnlessEarly, PatientUser, UndefinedOnlyByHaste, ExitFlag, Dispatch
<1>26. CASE ExitClose
  BY <1>26 DEF TypeOK, NodeTypes, MainTypes, ListenerTypes, RecvTypes, MainDerefs,
     ListenerDerefs, CommandType, AnyUserInv, FreshIds, Handles, OneBuilderUnlessEarly,
     EarlyAreOfListener, ListedAreLive, ReaderLiveUnlessEarly, NamedIsAnnounced,
     MainKeepsUnlessEarly, PatientUser, UndefinedOnlyByHaste, ExitClose
<1>27. CASE ExitSweep
  BY <1>27 DEF TypeOK, NodeTypes, MainTypes, ListenerTypes, RecvTypes, MainDerefs,
     ListenerDerefs, CommandType, AnyUserInv, FreshIds, Handles, OneBuilderUnlessEarly,
     EarlyAreOfListener, ListedAreLive, ReaderLiveUnlessEarly, NamedIsAnnounced,
     MainKeepsUnlessEarly, PatientUser, UndefinedOnlyByHaste, ExitSweep, CloseSockets, Closed,
     SocketOf
<1>28. CASE ExitSigPipe
  BY <1>28 DEF TypeOK, NodeTypes, MainTypes, ListenerTypes, RecvTypes, MainDerefs,
     ListenerDerefs, CommandType, AnyUserInv, FreshIds, Handles, OneBuilderUnlessEarly,
     EarlyAreOfListener, ListedAreLive, ReaderLiveUnlessEarly, NamedIsAnnounced,
     MainKeepsUnlessEarly, PatientUser, UndefinedOnlyByHaste, ExitSigPipe, Die, SocketOf
<1>29. CASE ExitJoinListener
  BY <1>29 DEF TypeOK, NodeTypes, MainTypes, ListenerTypes, RecvTypes, MainDerefs,
     ListenerDerefs, CommandType, AnyUserInv, FreshIds, Handles, OneBuilderUnlessEarly,
     EarlyAreOfListener, ListedAreLive, ReaderLiveUnlessEarly, NamedIsAnnounced,
     MainKeepsUnlessEarly, PatientUser, UndefinedOnlyByHaste, ExitJoinListener
<1>30. CASE ExitLock
  BY <1>30 DEF TypeOK, NodeTypes, MainTypes, ListenerTypes, RecvTypes, MainDerefs,
     ListenerDerefs, CommandType, AnyUserInv, FreshIds, Handles, OneBuilderUnlessEarly,
     EarlyAreOfListener, ListedAreLive, ReaderLiveUnlessEarly, NamedIsAnnounced,
     MainKeepsUnlessEarly, PatientUser, UndefinedOnlyByHaste, ExitLock
<1>31. CASE ExitReturn
  BY <1>31 DEF TypeOK, NodeTypes, MainTypes, ListenerTypes, RecvTypes, MainDerefs,
     ListenerDerefs, CommandType, AnyUserInv, FreshIds, Handles, OneBuilderUnlessEarly,
     EarlyAreOfListener, ListedAreLive, ReaderLiveUnlessEarly, NamedIsAnnounced,
     MainKeepsUnlessEarly, PatientUser, UndefinedOnlyByHaste, ExitReturn
<1>32. CASE ListenCheck
  BY <1>32 DEF TypeOK, NodeTypes, MainTypes, ListenerTypes, RecvTypes, MainDerefs,
     ListenerDerefs, CommandType, AnyUserInv, FreshIds, Handles, OneBuilderUnlessEarly,
     EarlyAreOfListener, ListedAreLive, ReaderLiveUnlessEarly, NamedIsAnnounced,
     MainKeepsUnlessEarly, PatientUser, UndefinedOnlyByHaste, ListenCheck
<1>33. CASE AcceptEnter
  BY <1>33 DEF TypeOK, NodeTypes, MainTypes, ListenerTypes, RecvTypes, MainDerefs,
     ListenerDerefs, CommandType, AnyUserInv, FreshIds, Handles, OneBuilderUnlessEarly,
     EarlyAreOfListener, ListedAreLive, ReaderLiveUnlessEarly, NamedIsAnnounced,
     MainKeepsUnlessEarly, PatientUser, UndefinedOnlyByHaste, AcceptEnter, LowestFree, FreeFds
<1>34. CASE AcceptRefused
  BY <1>34 DEF TypeOK, NodeTypes, MainTypes, ListenerTypes, RecvTypes, MainDerefs,
     ListenerDerefs, CommandType, AnyUserInv, FreshIds, Handles, OneBuilderUnlessEarly,
     EarlyAreOfListener, ListedAreLive, ReaderLiveUnlessEarly, NamedIsAnnounced,
     MainKeepsUnlessEarly, PatientUser, UndefinedOnlyByHaste, AcceptRefused, AfterAcceptError,
     FreeFds
<1>35. CASE Accept
  <2>1. FreshIds'
    BY <1>35 DEF TypeOK, NodeTypes, MainTypes, ListenerTypes, RecvTypes, MainDerefs,
       ListenerDerefs, CommandType, AnyUserInv, FreshIds, Handles, OneBuilderUnlessEarly,
       EarlyAreOfListener, ListedAreLive, ReaderLiveUnlessEarly, MainKeepsUnlessEarly,
       PatientUser, NamedIsAnnounced, UndefinedOnlyByHaste, Accept, NewNode
  <2>2. Handles'
    BY <1>35 DEF TypeOK, NodeTypes, MainTypes, ListenerTypes, RecvTypes, MainDerefs,
       ListenerDerefs, CommandType, AnyUserInv, FreshIds, Handles, OneBuilderUnlessEarly,
       EarlyAreOfListener, ListedAreLive, ReaderLiveUnlessEarly, MainKeepsUnlessEarly,
       PatientUser, NamedIsAnnounced, UndefinedOnlyByHaste, Accept, NewNode
  <2>3. OneBuilderUnlessEarly'
    BY <1>35 DEF TypeOK, NodeTypes, MainTypes, ListenerTypes, RecvTypes, MainDerefs,
       ListenerDerefs, CommandType, AnyUserInv, FreshIds, Handles, OneBuilderUnlessEarly,
       EarlyAreOfListener, ListedAreLive, ReaderLiveUnlessEarly, MainKeepsUnlessEarly,
       PatientUser, NamedIsAnnounced, UndefinedOnlyByHaste, Accept, NewNode
  <2>4. ListedAreLive'
    BY <1>35 DEF TypeOK, NodeTypes, MainTypes, ListenerTypes, RecvTypes, MainDerefs,
       ListenerDerefs, CommandType, AnyUserInv, FreshIds, Handles, OneBuilderUnlessEarly,
       EarlyAreOfListener, ListedAreLive, ReaderLiveUnlessEarly, MainKeepsUnlessEarly,
       PatientUser, NamedIsAnnounced, UndefinedOnlyByHaste, Accept, NewNode
  <2>5. ReaderLiveUnlessEarly'
    BY <1>35 DEF TypeOK, NodeTypes, MainTypes, ListenerTypes, RecvTypes, MainDerefs,
       ListenerDerefs, CommandType, AnyUserInv, FreshIds, Handles, OneBuilderUnlessEarly,
       EarlyAreOfListener, ListedAreLive, ReaderLiveUnlessEarly, MainKeepsUnlessEarly,
       PatientUser, NamedIsAnnounced, UndefinedOnlyByHaste, Accept, NewNode
  <2>6. MainKeepsUnlessEarly'
    BY <1>35 DEF TypeOK, NodeTypes, MainTypes, ListenerTypes, RecvTypes, MainDerefs,
       ListenerDerefs, CommandType, AnyUserInv, FreshIds, Handles, OneBuilderUnlessEarly,
       EarlyAreOfListener, ListedAreLive, ReaderLiveUnlessEarly, MainKeepsUnlessEarly,
       PatientUser, NamedIsAnnounced, UndefinedOnlyByHaste, Accept, NewNode
  <2>7. PatientUser'
    BY <1>35 DEF TypeOK, NodeTypes, MainTypes, ListenerTypes, RecvTypes, MainDerefs,
       ListenerDerefs, CommandType, AnyUserInv, FreshIds, Handles, OneBuilderUnlessEarly,
       EarlyAreOfListener, ListedAreLive, ReaderLiveUnlessEarly, MainKeepsUnlessEarly,
       PatientUser, NamedIsAnnounced, UndefinedOnlyByHaste, Accept, NewNode
  <2>8. UndefinedOnlyByHaste'
    BY <1>35 DEF TypeOK, NodeTypes, MainTypes, ListenerTypes, RecvTypes, MainDerefs,
       ListenerDerefs, CommandType, AnyUserInv, FreshIds, Handles, OneBuilderUnlessEarly,
       EarlyAreOfListener, ListedAreLive, ReaderLiveUnlessEarly, MainKeepsUnlessEarly,
       PatientUser, NamedIsAnnounced, UndefinedOnlyByHaste, Accept, NewNode
  <2>9. EarlyAreOfListener'
    BY <1>35 DEF TypeOK, NodeTypes, MainTypes, ListenerTypes, RecvTypes, MainDerefs,
       ListenerDerefs, CommandType, AnyUserInv, FreshIds, Handles, OneBuilderUnlessEarly,
       EarlyAreOfListener, ListedAreLive, ReaderLiveUnlessEarly, MainKeepsUnlessEarly,
       PatientUser, NamedIsAnnounced, UndefinedOnlyByHaste, Accept, NewNode
  <2> QED
    BY <2>1, <2>2, <2>3, <2>4, <2>5, <2>6, <2>7, <2>8, <2>9 DEF AnyUserInv
<1>36. CASE AcceptNoMemory
  BY <1>36 DEF TypeOK, NodeTypes, MainTypes, ListenerTypes, RecvTypes, MainDerefs,
     ListenerDerefs, CommandType, AnyUserInv, FreshIds, Handles, OneBuilderUnlessEarly,
     EarlyAreOfListener, ListedAreLive, ReaderLiveUnlessEarly, NamedIsAnnounced,
     MainKeepsUnlessEarly, PatientUser, UndefinedOnlyByHaste, AcceptNoMemory
<1>37. CASE ListenInsert
  <2>1. FreshIds'
    BY <1>37 DEF TypeOK, NodeTypes, MainTypes, ListenerTypes, RecvTypes, MainDerefs,
       ListenerDerefs, CommandType, AnyUserInv, FreshIds, Handles, OneBuilderUnlessEarly,
       EarlyAreOfListener, ListedAreLive, ReaderLiveUnlessEarly, MainKeepsUnlessEarly,
       PatientUser, NamedIsAnnounced, UndefinedOnlyByHaste, ListenInsert
  <2>2. Handles'
    BY <1>37 DEF TypeOK, NodeTypes, MainTypes, ListenerTypes, RecvTypes, MainDerefs,
       ListenerDerefs, CommandType, AnyUserInv, FreshIds, Handles, OneBuilderUnlessEarly,
       EarlyAreOfListener, ListedAreLive, ReaderLiveUnlessEarly, MainKeepsUnlessEarly,
       PatientUser, NamedIsAnnounced, UndefinedOnlyByHaste, ListenInsert
  <2>3. OneBuilderUnlessEarly'
    BY <1>37 DEF TypeOK, NodeTypes, MainTypes, ListenerTypes, RecvTypes, MainDerefs,
       ListenerDerefs, CommandType, AnyUserInv, FreshIds, Handles, OneBuilderUnlessEarly,
       EarlyAreOfListener, ListedAreLive, ReaderLiveUnlessEarly, MainKeepsUnlessEarly,
       PatientUser, NamedIsAnnounced, UndefinedOnlyByHaste, ListenInsert
  <2>4. ListedAreLive'
    BY <1>37 DEF TypeOK, NodeTypes, MainTypes, ListenerTypes, RecvTypes, MainDerefs,
       ListenerDerefs, CommandType, AnyUserInv, FreshIds, Handles, OneBuilderUnlessEarly,
       EarlyAreOfListener, ListedAreLive, ReaderLiveUnlessEarly, MainKeepsUnlessEarly,
       PatientUser, NamedIsAnnounced, UndefinedOnlyByHaste, ListenInsert
  <2>5. ReaderLiveUnlessEarly'
    BY <1>37 DEF TypeOK, NodeTypes, MainTypes, ListenerTypes, RecvTypes, MainDerefs,
       ListenerDerefs, CommandType, AnyUserInv, FreshIds, Handles, OneBuilderUnlessEarly,
       EarlyAreOfListener, ListedAreLive, ReaderLiveUnlessEarly, MainKeepsUnlessEarly,
       PatientUser, NamedIsAnnounced, UndefinedOnlyByHaste, ListenInsert
  <2>6. MainKeepsUnlessEarly'
    BY <1>37 DEF TypeOK, NodeTypes, MainTypes, ListenerTypes, RecvTypes, MainDerefs,
       ListenerDerefs, CommandType, AnyUserInv, FreshIds, Handles, OneBuilderUnlessEarly,
       EarlyAreOfListener, ListedAreLive, ReaderLiveUnlessEarly, MainKeepsUnlessEarly,
       PatientUser, NamedIsAnnounced, UndefinedOnlyByHaste, ListenInsert
  <2>7. PatientUser'
    BY <1>37 DEF TypeOK, NodeTypes, MainTypes, ListenerTypes, RecvTypes, MainDerefs,
       ListenerDerefs, CommandType, AnyUserInv, FreshIds, Handles, OneBuilderUnlessEarly,
       EarlyAreOfListener, ListedAreLive, ReaderLiveUnlessEarly, MainKeepsUnlessEarly,
       PatientUser, NamedIsAnnounced, UndefinedOnlyByHaste, ListenInsert
  <2>8. UndefinedOnlyByHaste'
    BY <1>37 DEF TypeOK, NodeTypes, MainTypes, ListenerTypes, RecvTypes, MainDerefs,
       ListenerDerefs, CommandType, AnyUserInv, FreshIds, Handles, OneBuilderUnlessEarly,
       EarlyAreOfListener, ListedAreLive, ReaderLiveUnlessEarly, MainKeepsUnlessEarly,
       PatientUser, NamedIsAnnounced, UndefinedOnlyByHaste, ListenInsert
  <2>9. EarlyAreOfListener'
    BY <1>37 DEF TypeOK, NodeTypes, MainTypes, ListenerTypes, RecvTypes, MainDerefs,
       ListenerDerefs, CommandType, AnyUserInv, FreshIds, Handles, OneBuilderUnlessEarly,
       EarlyAreOfListener, ListedAreLive, ReaderLiveUnlessEarly, MainKeepsUnlessEarly,
       PatientUser, NamedIsAnnounced, UndefinedOnlyByHaste, ListenInsert
  <2> QED
    BY <2>1, <2>2, <2>3, <2>4, <2>5, <2>6, <2>7, <2>8, <2>9 DEF AnyUserInv
<1>38. CASE ListenCreate
  <2>1. FreshIds'
    BY <1>38 DEF TypeOK, NodeTypes, MainTypes, ListenerTypes, RecvTypes, MainDerefs,
       ListenerDerefs, CommandType, AnyUserInv, FreshIds, Handles, OneBuilderUnlessEarly,
       EarlyAreOfListener, ListedAreLive, ReaderLiveUnlessEarly, MainKeepsUnlessEarly,
       PatientUser, NamedIsAnnounced, UndefinedOnlyByHaste, ListenCreate, StartThread
  <2>2. Handles'
    BY <1>38 DEF TypeOK, NodeTypes, MainTypes, ListenerTypes, RecvTypes, MainDerefs,
       ListenerDerefs, CommandType, AnyUserInv, FreshIds, Handles, OneBuilderUnlessEarly,
       EarlyAreOfListener, ListedAreLive, ReaderLiveUnlessEarly, MainKeepsUnlessEarly,
       PatientUser, NamedIsAnnounced, UndefinedOnlyByHaste, ListenCreate, StartThread
  <2>3. OneBuilderUnlessEarly'
    BY <1>38 DEF TypeOK, NodeTypes, MainTypes, ListenerTypes, RecvTypes, MainDerefs,
       ListenerDerefs, CommandType, AnyUserInv, FreshIds, Handles, OneBuilderUnlessEarly,
       EarlyAreOfListener, ListedAreLive, ReaderLiveUnlessEarly, MainKeepsUnlessEarly,
       PatientUser, NamedIsAnnounced, UndefinedOnlyByHaste, ListenCreate, StartThread
  <2>4. ListedAreLive'
    BY <1>38 DEF TypeOK, NodeTypes, MainTypes, ListenerTypes, RecvTypes, MainDerefs,
       ListenerDerefs, CommandType, AnyUserInv, FreshIds, Handles, OneBuilderUnlessEarly,
       EarlyAreOfListener, ListedAreLive, ReaderLiveUnlessEarly, MainKeepsUnlessEarly,
       PatientUser, NamedIsAnnounced, UndefinedOnlyByHaste, ListenCreate, StartThread
  <2>5. ReaderLiveUnlessEarly'
    BY <1>38 DEF TypeOK, NodeTypes, MainTypes, ListenerTypes, RecvTypes, MainDerefs,
       ListenerDerefs, CommandType, AnyUserInv, FreshIds, Handles, OneBuilderUnlessEarly,
       EarlyAreOfListener, ListedAreLive, ReaderLiveUnlessEarly, MainKeepsUnlessEarly,
       PatientUser, NamedIsAnnounced, UndefinedOnlyByHaste, ListenCreate, StartThread
  <2>6. MainKeepsUnlessEarly'
    BY <1>38 DEF TypeOK, NodeTypes, MainTypes, ListenerTypes, RecvTypes, MainDerefs,
       ListenerDerefs, CommandType, AnyUserInv, FreshIds, Handles, OneBuilderUnlessEarly,
       EarlyAreOfListener, ListedAreLive, ReaderLiveUnlessEarly, MainKeepsUnlessEarly,
       PatientUser, NamedIsAnnounced, UndefinedOnlyByHaste, ListenCreate, StartThread
  <2>7. PatientUser'
    BY <1>38 DEF TypeOK, NodeTypes, MainTypes, ListenerTypes, RecvTypes, MainDerefs,
       ListenerDerefs, CommandType, AnyUserInv, FreshIds, Handles, OneBuilderUnlessEarly,
       EarlyAreOfListener, ListedAreLive, ReaderLiveUnlessEarly, MainKeepsUnlessEarly,
       PatientUser, NamedIsAnnounced, UndefinedOnlyByHaste, ListenCreate, StartThread
  <2>8. UndefinedOnlyByHaste'
    BY <1>38 DEF TypeOK, NodeTypes, MainTypes, ListenerTypes, RecvTypes, MainDerefs,
       ListenerDerefs, CommandType, AnyUserInv, FreshIds, Handles, OneBuilderUnlessEarly,
       EarlyAreOfListener, ListedAreLive, ReaderLiveUnlessEarly, MainKeepsUnlessEarly,
       PatientUser, NamedIsAnnounced, UndefinedOnlyByHaste, ListenCreate, StartThread
  <2>9. EarlyAreOfListener'
    BY <1>38 DEF TypeOK, NodeTypes, MainTypes, ListenerTypes, RecvTypes, MainDerefs,
       ListenerDerefs, CommandType, AnyUserInv, FreshIds, Handles, OneBuilderUnlessEarly,
       EarlyAreOfListener, ListedAreLive, ReaderLiveUnlessEarly, MainKeepsUnlessEarly,
       PatientUser, NamedIsAnnounced, UndefinedOnlyByHaste, ListenCreate, StartThread
  <2> QED
    BY <2>1, <2>2, <2>3, <2>4, <2>5, <2>6, <2>7, <2>8, <2>9 DEF AnyUserInv
<1>39. CASE ListenCreateFail
  BY <1>39 DEF TypeOK, NodeTypes, MainTypes, ListenerTypes, RecvTypes, MainDerefs,
     ListenerDerefs, CommandType, AnyUserInv, FreshIds, Handles, OneBuilderUnlessEarly,
     EarlyAreOfListener, ListedAreLive, ReaderLiveUnlessEarly, NamedIsAnnounced,
     MainKeepsUnlessEarly, PatientUser, UndefinedOnlyByHaste, ListenCreateFail, Closed
<1>40. CASE ListenRollback
  <2>1. FreshIds'
    BY <1>40 DEF TypeOK, NodeTypes, MainTypes, ListenerTypes, RecvTypes, MainDerefs,
       ListenerDerefs, CommandType, AnyUserInv, FreshIds, Handles, OneBuilderUnlessEarly,
       EarlyAreOfListener, ListedAreLive, ReaderLiveUnlessEarly, MainKeepsUnlessEarly,
       PatientUser, NamedIsAnnounced, UndefinedOnlyByHaste, ListenRollback, RemoveNode
  <2>2. Handles'
    BY <1>40 DEF TypeOK, NodeTypes, MainTypes, ListenerTypes, RecvTypes, MainDerefs,
       ListenerDerefs, CommandType, AnyUserInv, FreshIds, Handles, OneBuilderUnlessEarly,
       EarlyAreOfListener, ListedAreLive, ReaderLiveUnlessEarly, MainKeepsUnlessEarly,
       PatientUser, NamedIsAnnounced, UndefinedOnlyByHaste, ListenRollback, RemoveNode
  <2>3. OneBuilderUnlessEarly'
    BY <1>40 DEF TypeOK, NodeTypes, MainTypes, ListenerTypes, RecvTypes, MainDerefs,
       ListenerDerefs, CommandType, AnyUserInv, FreshIds, Handles, OneBuilderUnlessEarly,
       EarlyAreOfListener, ListedAreLive, ReaderLiveUnlessEarly, MainKeepsUnlessEarly,
       PatientUser, NamedIsAnnounced, UndefinedOnlyByHaste, ListenRollback, RemoveNode
  <2>4. ListedAreLive'
    BY <1>40 DEF TypeOK, NodeTypes, MainTypes, ListenerTypes, RecvTypes, MainDerefs,
       ListenerDerefs, CommandType, AnyUserInv, FreshIds, Handles, OneBuilderUnlessEarly,
       EarlyAreOfListener, ListedAreLive, ReaderLiveUnlessEarly, MainKeepsUnlessEarly,
       PatientUser, NamedIsAnnounced, UndefinedOnlyByHaste, ListenRollback, RemoveNode
  <2>5. ReaderLiveUnlessEarly'
    BY <1>40 DEF TypeOK, NodeTypes, MainTypes, ListenerTypes, RecvTypes, MainDerefs,
       ListenerDerefs, CommandType, AnyUserInv, FreshIds, Handles, OneBuilderUnlessEarly,
       EarlyAreOfListener, ListedAreLive, ReaderLiveUnlessEarly, MainKeepsUnlessEarly,
       PatientUser, NamedIsAnnounced, UndefinedOnlyByHaste, ListenRollback, RemoveNode
  <2>6. MainKeepsUnlessEarly'
    BY <1>40 DEF TypeOK, NodeTypes, MainTypes, ListenerTypes, RecvTypes, MainDerefs,
       ListenerDerefs, CommandType, AnyUserInv, FreshIds, Handles, OneBuilderUnlessEarly,
       EarlyAreOfListener, ListedAreLive, ReaderLiveUnlessEarly, MainKeepsUnlessEarly,
       PatientUser, NamedIsAnnounced, UndefinedOnlyByHaste, ListenRollback, RemoveNode
  <2>7. PatientUser'
    BY <1>40 DEF TypeOK, NodeTypes, MainTypes, ListenerTypes, RecvTypes, MainDerefs,
       ListenerDerefs, CommandType, AnyUserInv, FreshIds, Handles, OneBuilderUnlessEarly,
       EarlyAreOfListener, ListedAreLive, ReaderLiveUnlessEarly, MainKeepsUnlessEarly,
       PatientUser, NamedIsAnnounced, UndefinedOnlyByHaste, ListenRollback, RemoveNode
  <2>8. UndefinedOnlyByHaste'
    BY <1>40 DEF TypeOK, NodeTypes, MainTypes, ListenerTypes, RecvTypes, MainDerefs,
       ListenerDerefs, CommandType, AnyUserInv, FreshIds, Handles, OneBuilderUnlessEarly,
       EarlyAreOfListener, ListedAreLive, ReaderLiveUnlessEarly, MainKeepsUnlessEarly,
       PatientUser, NamedIsAnnounced, UndefinedOnlyByHaste, ListenRollback, RemoveNode
  <2>9. EarlyAreOfListener'
    BY <1>40 DEF TypeOK, NodeTypes, MainTypes, ListenerTypes, RecvTypes, MainDerefs,
       ListenerDerefs, CommandType, AnyUserInv, FreshIds, Handles, OneBuilderUnlessEarly,
       EarlyAreOfListener, ListedAreLive, ReaderLiveUnlessEarly, MainKeepsUnlessEarly,
       PatientUser, NamedIsAnnounced, UndefinedOnlyByHaste, ListenRollback, RemoveNode
  <2> QED
    BY <2>1, <2>2, <2>3, <2>4, <2>5, <2>6, <2>7, <2>8, <2>9 DEF AnyUserInv
<1>41. CASE ListenDangling
  BY <1>41 DEF TypeOK, NodeTypes, MainTypes, ListenerTypes, RecvTypes, MainDerefs,
     ListenerDerefs, CommandType, AnyUserInv, FreshIds, Handles, OneBuilderUnlessEarly,
     EarlyAreOfListener, ListedAreLive, ReaderLiveUnlessEarly, NamedIsAnnounced,
     MainKeepsUnlessEarly, PatientUser, UndefinedOnlyByHaste, ListenDangling, Undefined
<1>42. CASE Announce
  BY <1>42 DEF TypeOK, NodeTypes, MainTypes, ListenerTypes, RecvTypes, MainDerefs,
     ListenerDerefs, CommandType, AnyUserInv, FreshIds, Handles, OneBuilderUnlessEarly,
     EarlyAreOfListener, ListedAreLive, ReaderLiveUnlessEarly, NamedIsAnnounced,
     MainKeepsUnlessEarly, PatientUser, UndefinedOnlyByHaste, Announce, Touch
<1>43. CASE AcceptError
  BY <1>43 DEF TypeOK, NodeTypes, MainTypes, ListenerTypes, RecvTypes, MainDerefs,
     ListenerDerefs, CommandType, AnyUserInv, FreshIds, Handles, OneBuilderUnlessEarly,
     EarlyAreOfListener, ListedAreLive, ReaderLiveUnlessEarly, NamedIsAnnounced,
     MainKeepsUnlessEarly, PatientUser, UndefinedOnlyByHaste, AcceptError, AfterAcceptError
<1>44. CASE PeerConnects
  BY <1>44 DEF TypeOK, NodeTypes, MainTypes, ListenerTypes, RecvTypes, MainDerefs,
     ListenerDerefs, CommandType, AnyUserInv, FreshIds, Handles, OneBuilderUnlessEarly,
     EarlyAreOfListener, ListedAreLive, ReaderLiveUnlessEarly, NamedIsAnnounced,
     MainKeepsUnlessEarly, PatientUser, UndefinedOnlyByHaste, PeerConnects
<1>45. CASE EndOfInput
  BY <1>45 DEF TypeOK, NodeTypes, MainTypes, ListenerTypes, RecvTypes, MainDerefs,
     ListenerDerefs, CommandType, AnyUserInv, FreshIds, Handles, OneBuilderUnlessEarly,
     EarlyAreOfListener, ListedAreLive, ReaderLiveUnlessEarly, NamedIsAnnounced,
     MainKeepsUnlessEarly, PatientUser, UndefinedOnlyByHaste, EndOfInput, Die
<1>46. ASSUME NEW cmd \in Commands, ReadLine(cmd) PROVE AnyUserInv'
  BY <1>46 DEF TypeOK, NodeTypes, MainTypes, ListenerTypes, RecvTypes, MainDerefs,
     ListenerDerefs, CommandType, AnyUserInv, FreshIds, Handles, OneBuilderUnlessEarly,
     EarlyAreOfListener, ListedAreLive, ReaderLiveUnlessEarly, NamedIsAnnounced,
     MainKeepsUnlessEarly, PatientUser, UndefinedOnlyByHaste, ReadLine, Nameable, Commands
<1>47. ASSUME NEW c \in Ids, ExitJoin(c) PROVE AnyUserInv'
  BY <1>47 DEF TypeOK, NodeTypes, MainTypes, ListenerTypes, RecvTypes, MainDerefs,
     ListenerDerefs, CommandType, AnyUserInv, FreshIds, Handles, OneBuilderUnlessEarly,
     EarlyAreOfListener, ListedAreLive, ReaderLiveUnlessEarly, NamedIsAnnounced,
     MainKeepsUnlessEarly, PatientUser, UndefinedOnlyByHaste, ExitJoin, RemoveNode
<1>48. ASSUME NEW c \in Ids, RecvEnter(c) PROVE AnyUserInv'
  BY <1>48 DEF TypeOK, NodeTypes, MainTypes, ListenerTypes, RecvTypes, MainDerefs,
     ListenerDerefs, CommandType, AnyUserInv, FreshIds, Handles, OneBuilderUnlessEarly,
     EarlyAreOfListener, ListedAreLive, ReaderLiveUnlessEarly, NamedIsAnnounced,
     MainKeepsUnlessEarly, PatientUser, UndefinedOnlyByHaste, RecvEnter, SocketOf
<1>49. ASSUME NEW c \in Ids, RecvEnd(c) PROVE AnyUserInv'
  BY <1>49 DEF TypeOK, NodeTypes, MainTypes, ListenerTypes, RecvTypes, MainDerefs,
     ListenerDerefs, CommandType, AnyUserInv, FreshIds, Handles, OneBuilderUnlessEarly,
     EarlyAreOfListener, ListedAreLive, ReaderLiveUnlessEarly, NamedIsAnnounced,
     MainKeepsUnlessEarly, PatientUser, UndefinedOnlyByHaste, RecvEnd, LeaveLoop
<1>50. ASSUME NEW c \in Ids, RecvFinish(c) PROVE AnyUserInv'
  BY <1>50 DEF TypeOK, NodeTypes, MainTypes, ListenerTypes, RecvTypes, MainDerefs,
     ListenerDerefs, CommandType, AnyUserInv, FreshIds, Handles, OneBuilderUnlessEarly,
     EarlyAreOfListener, ListedAreLive, ReaderLiveUnlessEarly, NamedIsAnnounced,
     MainKeepsUnlessEarly, PatientUser, UndefinedOnlyByHaste, RecvFinish
<1>51. ASSUME NEW c \in Ids, RecvMessage(c) PROVE AnyUserInv'
  <2>1. FreshIds'
    BY <1>51 DEF TypeOK, NodeTypes, MainTypes, ListenerTypes, RecvTypes, MainDerefs,
       ListenerDerefs, CommandType, AnyUserInv, FreshIds, Handles, OneBuilderUnlessEarly,
       EarlyAreOfListener, ListedAreLive, ReaderLiveUnlessEarly, MainKeepsUnlessEarly,
       PatientUser, NamedIsAnnounced, UndefinedOnlyByHaste, RecvMessage
  <2>2. Handles'
    BY <1>51 DEF TypeOK, NodeTypes, MainTypes, ListenerTypes, RecvTypes, MainDerefs,
       ListenerDerefs, CommandType, AnyUserInv, FreshIds, Handles, OneBuilderUnlessEarly,
       EarlyAreOfListener, ListedAreLive, ReaderLiveUnlessEarly, MainKeepsUnlessEarly,
       PatientUser, NamedIsAnnounced, UndefinedOnlyByHaste, RecvMessage
  <2>3. OneBuilderUnlessEarly'
    BY <1>51 DEF TypeOK, NodeTypes, MainTypes, ListenerTypes, RecvTypes, MainDerefs,
       ListenerDerefs, CommandType, AnyUserInv, FreshIds, Handles, OneBuilderUnlessEarly,
       EarlyAreOfListener, ListedAreLive, ReaderLiveUnlessEarly, MainKeepsUnlessEarly,
       PatientUser, NamedIsAnnounced, UndefinedOnlyByHaste, RecvMessage
  <2>4. ListedAreLive'
    BY <1>51 DEF TypeOK, NodeTypes, MainTypes, ListenerTypes, RecvTypes, MainDerefs,
       ListenerDerefs, CommandType, AnyUserInv, FreshIds, Handles, OneBuilderUnlessEarly,
       EarlyAreOfListener, ListedAreLive, ReaderLiveUnlessEarly, MainKeepsUnlessEarly,
       PatientUser, NamedIsAnnounced, UndefinedOnlyByHaste, RecvMessage
  <2>5. ReaderLiveUnlessEarly'
    BY <1>51 DEF TypeOK, NodeTypes, MainTypes, ListenerTypes, RecvTypes, MainDerefs,
       ListenerDerefs, CommandType, AnyUserInv, FreshIds, Handles, OneBuilderUnlessEarly,
       EarlyAreOfListener, ListedAreLive, ReaderLiveUnlessEarly, MainKeepsUnlessEarly,
       PatientUser, NamedIsAnnounced, UndefinedOnlyByHaste, RecvMessage
  <2>6. MainKeepsUnlessEarly'
    BY <1>51 DEF TypeOK, NodeTypes, MainTypes, ListenerTypes, RecvTypes, MainDerefs,
       ListenerDerefs, CommandType, AnyUserInv, FreshIds, Handles, OneBuilderUnlessEarly,
       EarlyAreOfListener, ListedAreLive, ReaderLiveUnlessEarly, MainKeepsUnlessEarly,
       PatientUser, NamedIsAnnounced, UndefinedOnlyByHaste, RecvMessage
  <2>7. PatientUser'
    BY <1>51 DEF TypeOK, NodeTypes, MainTypes, ListenerTypes, RecvTypes, MainDerefs,
       ListenerDerefs, CommandType, AnyUserInv, FreshIds, Handles, OneBuilderUnlessEarly,
       EarlyAreOfListener, ListedAreLive, ReaderLiveUnlessEarly, MainKeepsUnlessEarly,
       PatientUser, NamedIsAnnounced, UndefinedOnlyByHaste, RecvMessage
  <2>8. UndefinedOnlyByHaste'
    BY <1>51 DEF TypeOK, NodeTypes, MainTypes, ListenerTypes, RecvTypes, MainDerefs,
       ListenerDerefs, CommandType, AnyUserInv, FreshIds, Handles, OneBuilderUnlessEarly,
       EarlyAreOfListener, ListedAreLive, ReaderLiveUnlessEarly, MainKeepsUnlessEarly,
       PatientUser, NamedIsAnnounced, UndefinedOnlyByHaste, RecvMessage
  <2>9. EarlyAreOfListener'
    BY <1>51 DEF TypeOK, NodeTypes, MainTypes, ListenerTypes, RecvTypes, MainDerefs,
       ListenerDerefs, CommandType, AnyUserInv, FreshIds, Handles, OneBuilderUnlessEarly,
       EarlyAreOfListener, ListedAreLive, ReaderLiveUnlessEarly, MainKeepsUnlessEarly,
       PatientUser, NamedIsAnnounced, UndefinedOnlyByHaste, RecvMessage
  <2> QED
    BY <2>1, <2>2, <2>3, <2>4, <2>5, <2>6, <2>7, <2>8, <2>9 DEF AnyUserInv
<1>52. ASSUME NEW c \in Ids, RecvDisconnect(c) PROVE AnyUserInv'
  BY <1>52 DEF TypeOK, NodeTypes, MainTypes, ListenerTypes, RecvTypes, MainDerefs,
     ListenerDerefs, CommandType, AnyUserInv, FreshIds, Handles, OneBuilderUnlessEarly,
     EarlyAreOfListener, ListedAreLive, ReaderLiveUnlessEarly, NamedIsAnnounced,
     MainKeepsUnlessEarly, PatientUser, UndefinedOnlyByHaste, RecvDisconnect, LeaveLoop
<1>53. ASSUME NEW c \in Ids, NEW how \in {"fin", "rst"}, PeerCloses(c, how) PROVE AnyUserInv'
  BY <1>53 DEF TypeOK, NodeTypes, MainTypes, ListenerTypes, RecvTypes, MainDerefs,
     ListenerDerefs, CommandType, AnyUserInv, FreshIds, Handles, OneBuilderUnlessEarly,
     EarlyAreOfListener, ListedAreLive, ReaderLiveUnlessEarly, NamedIsAnnounced,
     MainKeepsUnlessEarly, PatientUser, UndefinedOnlyByHaste, PeerCloses
<1>54. CASE UNCHANGED vars
  BY <1>54 DEF vars, AnyUserInv, FreshIds, Handles, OneBuilderUnlessEarly,
     EarlyAreOfListener, ListedAreLive, ReaderLiveUnlessEarly, NamedIsAnnounced,
     MainKeepsUnlessEarly, PatientUser, UndefinedOnlyByHaste
<1>59. CASE TerminateDangling
  BY <1>59 DEF TypeOK, NodeTypes, MainTypes, ListenerTypes, RecvTypes, MainDerefs,
     ListenerDerefs, CommandType, AnyUserInv, FreshIds, Handles, OneBuilderUnlessEarly,
     EarlyAreOfListener, ListedAreLive, ReaderLiveUnlessEarly, NamedIsAnnounced,
     MainKeepsUnlessEarly, PatientUser, UndefinedOnlyByHaste, TerminateDangling, Undefined
<1>60. ASSUME NEW c \in Ids, RecvDangling(c) PROVE AnyUserInv'
  BY <1>60 DEF TypeOK, NodeTypes, MainTypes, ListenerTypes, RecvTypes, MainDerefs,
     ListenerDerefs, CommandType, AnyUserInv, FreshIds, Handles, OneBuilderUnlessEarly,
     EarlyAreOfListener, ListedAreLive, ReaderLiveUnlessEarly, NamedIsAnnounced,
     MainKeepsUnlessEarly, PatientUser, UndefinedOnlyByHaste, RecvDangling, Undefined
<1>55. CASE MainStep
  BY <1>55, <1>1, <1>2, <1>3, <1>4, <1>5, <1>6, <1>7, <1>8, <1>9, <1>10, <1>11, <1>12,
     <1>13, <1>14, <1>15, <1>16, <1>17, <1>18, <1>19, <1>20, <1>21, <1>22, <1>23, <1>24,
     <1>25, <1>26, <1>27, <1>28, <1>29, <1>30, <1>31, <1>47, <1>59
     DEF MainStep
<1>56. CASE ListenerStep
  BY <1>56, <1>32, <1>33, <1>34, <1>35, <1>36, <1>37, <1>38, <1>39, <1>40, <1>41, <1>42 DEF
     ListenerStep
<1>57. CASE \E c \in Ids : RecvStep(c)
  BY <1>57, <1>48, <1>49, <1>50, <1>60 DEF RecvStep
<1>58. CASE Environment
  BY <1>58, <1>46, <1>45, <1>43, <1>44, <1>51, <1>52, <1>53 DEF Environment
<1> QED
  BY <1>54, <1>55, <1>56, <1>57, <1>58 DEF Next

(* The invariant in every state, and for any user.                         *)
THEOREM AnyUserInvariant == Spec => [](TypeOK /\ AnyUserInv)
<1>1. Init => AnyUserInv
  BY P2PAssumption
     DEF Init, AnyUserInv, FreshIds, Handles, OneBuilderUnlessEarly, EarlyAreOfListener,
         ListedAreLive, ReaderLiveUnlessEarly, MainKeepsUnlessEarly, PatientUser, NamedIsAnnounced,
         UndefinedOnlyByHaste, MainBuilds, ListenerBuilds, BuildPlaces, Ids, None, NoCmd
<1> QED
  BY <1>1, TypeCorrect, AnyUserInductive, PTL DEF Spec

(* Threads that share nodes through stale pointers, joins and rollbacks    *)
(* never use one that is gone, unless a connection was terminated before   *)
(* the listener had created its receive thread.                            *)
THEOREM OnlyHasteIsUndefined == Spec => []UndefinedOnlyByHaste
<1>1. AnyUserInv => UndefinedOnlyByHaste
  BY DEF AnyUserInv
<1> QED
  BY <1>1, AnyUserInvariant, PTL

(* For a user who waits for the announcement nothing is terminated early,  *)
(* and the exceptions of AnyUserInv fall away.                             *)
THEOREM LifeInvariant == ASSUME ~HastyUser PROVE Spec => [](TypeOK /\ LifeInv)
<1>1. TypeOK /\ AnyUserInv => LifeInv
  <2> SUFFICES ASSUME TypeOK, AnyUserInv PROVE LifeInv
    OBVIOUS
  <2>1. early = {} /\ NamedIsAnnounced
    BY DEF AnyUserInv, PatientUser
  <2>2. OneBuilder
    BY <2>1 DEF AnyUserInv, OneBuilderUnlessEarly, OneBuilder
  <2>3. ReaderNodeLive
    BY <2>1 DEF AnyUserInv, ReaderLiveUnlessEarly, ReaderNodeLive
  <2>4. MainKeeps
    BY <2>1 DEF AnyUserInv, MainKeepsUnlessEarly, PatientUser, MainKeeps
  <2> QED
    BY <2>1, <2>2, <2>3, <2>4 DEF AnyUserInv, LifeInv
<1> QED
  BY <1>1, AnyUserInvariant, PTL

(* A PeerConn outlives the receive thread that uses it.                    *)
THEOREM ReadersAreSafe == ASSUME ~HastyUser PROVE Spec => []ReaderNodeLive
<1>1. LifeInv => ReaderNodeLive
  BY DEF LifeInv
<1> QED
  BY <1>1, LifeInvariant, PTL

(* Every step of the chat is a step of ConnLifecycle, or none.             *)
LEMMA LifeStep ==
    TypeOK /\ LifeInv /\ [Next]_vars => [Life!Next]_(Life!lvars)
<1> SUFFICES ASSUME TypeOK, LifeInv, [Next]_vars PROVE [Life!Next]_(Life!lvars)
  OBVIOUS
<1> DEFINE Stutter == UNCHANGED <<mem, active, rpc>>
<1>s. Stutter => UNCHANGED Life!lvars
  BY DEF Life!lvars, ReaderOf
<1> HIDE DEF Stutter
<1> USE P2PAssumption DEF Ids, None, nodeVars, sockVars, mainVars, lisVars, recvVars
<1>1. CASE Reap \/ ReapJoin \/ CmdOther \/ CmdList \/ ConnectRefused \/ ConnectAllowed \/
         OpenSocket \/ DialFail \/ ConnectInsert \/ ConnectCreateFail \/
         TerminateUnknown \/ TerminateSigPipe \/ TerminateJoin \/ TerminateBadJoin \/
         TerminateDangling \/
         SendUnknown \/ SendMessage \/ SendSigPipe \/ SendReport \/ ExitFlag \/
         ExitClose \/ ExitSigPipe \/ ExitJoinListener \/ ExitLock \/ ExitReturn
  <2>1. Stutter
    BY <1>1 DEF Stutter, Touch, Die, Prompt, ReapScan, Dispatch,
       Reap, ReapJoin, CmdOther, CmdList, ConnectRefused, ConnectAllowed, OpenSocket,
       DialFail, ConnectInsert, ConnectCreateFail, TerminateUnknown, TerminateSigPipe,
       TerminateJoin, TerminateBadJoin, TerminateDangling, Undefined,
       SendUnknown, SendMessage, SendSigPipe,
       SendReport, ExitFlag, ExitClose, ExitSigPipe, ExitJoinListener, ExitLock,
       ExitReturn
  <2> QED
    BY <1>s, <2>1
<1>2. CASE ListenCheck \/ AcceptEnter \/ AcceptRefused \/ AcceptNoMemory \/ ListenInsert
         \/ ListenCreateFail \/ ListenDangling \/ Announce \/ AcceptError \/
         PeerConnects \/ EndOfInput
  <2>1. Stutter
    BY <1>2 DEF Stutter, Touch, Die, Undefined,
       ListenCheck, AcceptEnter, AcceptRefused, AcceptNoMemory, ListenInsert,
       ListenCreateFail, ListenDangling, Announce, AcceptError, PeerConnects,
       EndOfInput
  <2> QED
    BY <1>s, <2>1
<1>3. CASE ReapRemove
  <2>1. Life!Free(mcur)
    BY <1>3 DEF TypeOK, NodeTypes, MainTypes, ListenerTypes, RecvTypes, MainDerefs,
       ListenerDerefs, LifeInv, OneBuilder, MainBuilds, ListenerBuilds, BuildPlaces,
       MainKeeps,
       ListedAreLive, Life!Free, ReaderOf, ReapRemove, RemoveNode
  <2> QED
    BY <1>3, <2>1 DEF Life!Next, TypeOK, NodeTypes, MainTypes, ListenerTypes, RecvTypes,
       MainDerefs, ListenerDerefs, ReapRemove
<1>4. CASE DialOk
  <2>1. Life!Create(next_conn_id)
    BY <1>4 DEF TypeOK, NodeTypes, MainTypes, ListenerTypes, RecvTypes, MainDerefs,
       ListenerDerefs, LifeInv, FreshIds, Life!Create, ReaderOf, DialOk, NewNode
  <2> QED
    BY <1>4, <2>1 DEF Life!Next, DialOk, NewNode
<1>5. CASE ConnectCreate
  <2>1. Life!Start(mcur)
    BY <1>5 DEF TypeOK, NodeTypes, MainTypes, ListenerTypes, RecvTypes, MainDerefs,
       ListenerDerefs, LifeInv, OneBuilder, MainBuilds, BuildPlaces, Life!Start, ReaderOf,
       ConnectCreate, StartThread
  <2> QED
    BY <1>5, <2>1 DEF Life!Next, TypeOK, NodeTypes, MainTypes, ListenerTypes, RecvTypes,
       MainDerefs, ListenerDerefs, ConnectCreate
<1>6. CASE ConnectRollback
  <2>1. Life!Free(mcur)
    BY <1>6 DEF TypeOK, NodeTypes, MainTypes, ListenerTypes, RecvTypes, MainDerefs,
       ListenerDerefs, LifeInv, OneBuilder, MainBuilds, ListenerBuilds, BuildPlaces,
       MainKeeps,
       ListedAreLive, Life!Free, ReaderOf, ConnectRollback, RemoveNode
  <2> QED
    BY <1>6, <2>1 DEF Life!Next, TypeOK, NodeTypes, MainTypes, ListenerTypes, RecvTypes,
       MainDerefs, ListenerDerefs, ConnectRollback
<1>7. CASE TerminateClose
  <2>1. Life!Close({mcmd.id})
    BY ZenonT(40), <1>7 DEF TypeOK, NodeTypes, MainTypes, ListenerTypes, RecvTypes, MainDerefs,
       ListenerDerefs, LifeInv, ListedAreLive, Life!Close, ReaderOf, TerminateClose
  <2> QED
    BY <1>7, <2>1 DEF Life!Next, TypeOK, NodeTypes, MainTypes, ListenerTypes, RecvTypes,
       MainDerefs, ListenerDerefs, TerminateClose
<1>8. CASE TerminateRemove
  <2>1. Life!Free(mcur)
    BY <1>8 DEF TypeOK, NodeTypes, MainTypes, ListenerTypes, RecvTypes, MainDerefs,
       ListenerDerefs, LifeInv, OneBuilder, MainBuilds, ListenerBuilds, BuildPlaces,
       MainKeeps,
       ListedAreLive, Life!Free, ReaderOf, TerminateRemove, RemoveNode
  <2> QED
    BY <1>8, <2>1 DEF Life!Next, TypeOK, NodeTypes, MainTypes, ListenerTypes, RecvTypes,
       MainDerefs, ListenerDerefs, TerminateRemove
<1>9. CASE ExitSweep
  <2>1. Life!Close(conns)
    BY <1>9 DEF TypeOK, NodeTypes, MainTypes, ListenerTypes, RecvTypes, MainDerefs,
       ListenerDerefs, LifeInv, ListedAreLive, Life!Close, ReaderOf, ExitSweep
  <2> QED
    BY <1>9, <2>1 DEF Life!Next, TypeOK, NodeTypes, MainTypes, ListenerTypes, RecvTypes,
       MainDerefs, ListenerDerefs, ExitSweep
<1>10. CASE Accept
  <2>1. Life!Create(next_conn_id)
    BY <1>10 DEF TypeOK, NodeTypes, MainTypes, ListenerTypes, RecvTypes, MainDerefs,
       ListenerDerefs, LifeInv, FreshIds, Life!Create, ReaderOf, Accept, NewNode
  <2> QED
    BY <1>10, <2>1 DEF Life!Next, Accept, NewNode
<1>11. CASE ListenCreate
  <2>1. mem[lcur] = "live" /\ rpc[lcur] = "none" /\ lcur \in Ids
    BY <1>11 DEF TypeOK, ListenerTypes, ListenerDerefs, LifeInv, OneBuilder, ListenerBuilds,
       BuildPlaces, ListenCreate
  <2>2. Life!Start(lcur)
    BY <1>11, <2>1 DEF TypeOK, RecvTypes, Life!Start, ReaderOf, ListenCreate, StartThread
  <2> QED
    BY <2>1, <2>2 DEF Life!Next
<1>12. CASE ListenRollback
  <2>1. Life!Free(lcur)
    BY <1>12 DEF TypeOK, NodeTypes, MainTypes, ListenerTypes, RecvTypes, MainDerefs,
       ListenerDerefs, LifeInv, OneBuilder, MainBuilds, ListenerBuilds, BuildPlaces,
       MainKeeps,
       ListedAreLive, Life!Free, ReaderOf, ListenRollback, RemoveNode
  <2> QED
    BY <1>12, <2>1 DEF Life!Next, TypeOK, NodeTypes, MainTypes, ListenerTypes, RecvTypes,
       MainDerefs, ListenerDerefs, ListenRollback
<1>13. ASSUME NEW cmd \in Commands, ReadLine(cmd) PROVE UNCHANGED Life!lvars
  BY <1>s, <1>13 DEF Stutter, ReadLine
<1>14. ASSUME NEW c \in Ids, ExitJoin(c) PROVE Life!Next
  <2>1. Life!Free(c)
    BY <1>14 DEF TypeOK, NodeTypes, MainTypes, ListenerTypes, RecvTypes, MainDerefs,
       ListenerDerefs, LifeInv, ListedAreLive, Life!Free, ReaderOf, ExitJoin, RemoveNode
  <2> QED
    BY <2>1 DEF Life!Next
<1>15. ASSUME NEW c \in Ids, RecvFinish(c) PROVE Life!Next
  <2>1. Life!Finish(c)
    BY <1>15 DEF TypeOK, NodeTypes, MainTypes, ListenerTypes, RecvTypes, MainDerefs,
       ListenerDerefs, LifeInv, ReaderNodeLive, Life!Finish, ReaderOf, RecvFinish
  <2> QED
    BY <2>1 DEF Life!Next
<1>16. ASSUME NEW c \in Ids, RecvEnter(c) \/ RecvEnd(c) \/ RecvMessage(c) \/ RecvDisconnect(c)
      PROVE  UNCHANGED Life!lvars
  <2>1. UNCHANGED <<mem, active>>
    BY <1>16 DEF RecvEnter, RecvEnd, RecvMessage, RecvDisconnect, LeaveLoop
  <2>2. /\ rpc[c] \in {"recv", "wait"} /\ rpc'[c] \in {"recv", "wait", "finish"}
        /\ \A d \in Ids \ {c} : rpc'[d] = rpc[d]
    BY <1>16 DEF TypeOK, RecvTypes, RecvEnter, RecvEnd, RecvMessage, RecvDisconnect, LeaveLoop
  <2>3. \A d \in Ids : ReaderOf(d)' = ReaderOf(d)
    BY <2>2 DEF ReaderOf
  <2> QED
    BY <2>1, <2>3 DEF Life!lvars
<1>17. ASSUME NEW c \in Ids, NEW how \in {"fin", "rst"}, PeerCloses(c, how)
      PROVE  UNCHANGED Life!lvars
  BY <1>s, <1>17 DEF Stutter, PeerCloses
<1>23. ASSUME NEW c \in Ids, RecvDangling(c) PROVE UNCHANGED Life!lvars
  BY <1>s, <1>23 DEF Stutter, RecvDangling, Undefined
<1>18. CASE UNCHANGED vars
  BY <1>s, <1>18 DEF Stutter, vars
<1>19. CASE MainStep
  BY <1>19, <1>1, <1>3, <1>4, <1>5, <1>6, <1>7, <1>8, <1>9, <1>14 DEF MainStep
<1>20. CASE ListenerStep
  BY <1>20, <1>2, <1>10, <1>11, <1>12 DEF ListenerStep
<1>21. CASE \E c \in Ids : RecvStep(c)
  BY <1>21, <1>15, <1>16, <1>23 DEF RecvStep
<1>22. CASE Environment
  BY <1>22, <1>2, <1>13, <1>16, <1>17 DEF Environment
<1> QED
  BY <1>18, <1>19, <1>20, <1>21, <1>22 DEF Next

(* The chat implements the life cycle that ConnLifecycle specifies.        *)
THEOREM Refinement == ASSUME ~HastyUser PROVE Spec => ImplementsLifecycle
<1>1. Init => Life!Init
  BY DEF Init, Life!Init, ReaderOf, Ids
<1> QED
  BY <1>1, LifeInvariant, LifeStep, PTL DEF Spec, Life!Spec, ImplementsLifecycle

-----------------------------------------------------------------------------
(* What the list says about its members, and which socket each descriptor  *)
(* number stored in a PeerConn stands for.                                 *)

ExitPlaces == {"exitClose", "exitSweep", "exitJoinListener", "exitLock", "exitJoin"}

-----------------------------------------------------------------------------
(* Members of the list, whatever the user names.                           *)

(* A node that is not in the list yet is known to its builder alone.       *)
Unlisted(c) == c < next_conn_id /\ c \notin conns /\ active[c] /\ rpc[c] = "none"

BuildersApart ==
    /\ \A c \in Ids : c >= next_conn_id => c \notin conns /\ rpc[c] = "none"
    /\ mpc = "insert" => Unlisted(mcur)
    /\ lpc = "insert" => Unlisted(lcur) /\ addr[lcur] = Incoming
    /\ mpc \in {"insert", "create"} => mcur < next_conn_id
    /\ lpc \in {"insert", "create"} => lcur < next_conn_id
    /\ mpc \in {"insert", "create"} /\ lpc \in {"insert", "create"} => mcur # lcur

(* What the test for a duplicate found still holds when cmd_connect gets   *)
(* back to the list: only the listener has added members meanwhile.        *)
NotConnectedYet(a) == a \in Addrs /\ ~Duplicate(a)

StillNoDuplicate ==
    /\ mcmd.op = "connect" => mcmd.to \in Addrs
    /\ mpc \in {"socket", "dial"} => mcmd.op = "connect" /\ NotConnectedYet(mcmd.to)
    /\ mpc = "insert" => NotConnectedYet(addr[mcur])

Exiting == mpc \in ExitPlaces => ~running

ListInv ==
    BuildersApart /\ StillNoDuplicate /\ Exiting /\ NoDuplicateOutgoing /\ InactiveCollected

(* What the list says of its members is kept by every step of every thread. *)
LEMMA ListInductive == TypeOK /\ ListInv /\ [Next]_vars => ListInv'
<1> SUFFICES ASSUME TypeOK, ListInv, [Next]_vars PROVE ListInv'
  OBVIOUS
<1> USE P2PAssumption
    DEF Ids, None, NoCmd, nodeVars, sockVars, mainVars, lisVars, recvVars, TypeOK, NodeTypes,
        MainTypes, ListenerTypes, RecvTypes, MainDerefs, ListenerDerefs, ExitPlaces,
        ListInv, BuildersApart, Unlisted, StillNoDuplicate, NotConnectedYet, Duplicate,
        Exiting, NoDuplicateOutgoing, InactiveCollected
<1>1. CASE Reap
  BY <1>1 DEF Reap, ReapScan
<1>2. CASE ReapJoin
  BY <1>2 DEF ReapJoin
<1>3. CASE ReapRemove
  <2>1. conns' = conns \ {mcur} /\ mcur \in Ids
    <3>1. CASE mcur \in conns
      BY <1>3, <3>1 DEF ReapRemove, RemoveNode
    <3>2. CASE mcur \notin conns
      BY <1>3, <3>2 DEF ReapRemove, RemoveNode
    <3> QED
      BY <3>1, <3>2
  <2>2. UNCHANGED <<next_conn_id, active, should_remove, addr, rpc, lpc, lcur, running>>
    BY <1>3 DEF ReapRemove, RemoveNode
  <2>3. mcmd' = mcmd /\ mpc' \in {"reapJoin", "prompt", "dispatch"}
    BY <1>3 DEF ReapRemove, ReapScan
  <2>4. mpc = "reapRemove"
    BY <1>3 DEF ReapRemove
  <2> QED
    BY <2>1, <2>2, <2>3, <2>4
<1>4. CASE CmdOther
  BY <1>4 DEF CmdOther, Prompt, Dispatch
<1>5. CASE CmdList
  BY <1>5 DEF CmdList, Dispatch
<1>6. CASE ConnectRefused
  BY <1>6 DEF ConnectRefused, Prompt, Dispatch
<1>7. CASE ConnectAllowed
  BY <1>7 DEF ConnectAllowed, Dispatch
<1>8. CASE OpenSocket
  BY <1>8 DEF OpenSocket, Prompt, LowestFree, FreeFds
<1>9. CASE DialOk
  BY <1>9 DEF DialOk, NewNode
<1>10. CASE DialFail
  BY <1>10 DEF DialFail, Closed, Prompt
<1>11. CASE ConnectInsert
  BY <1>11 DEF ConnectInsert
<1>12. CASE ConnectCreate
  BY <1>12 DEF ConnectCreate, StartThread, Prompt
<1>13. CASE ConnectCreateFail
  BY <1>13 DEF ConnectCreateFail, Closed
<1>14. CASE ConnectRollback
  BY <1>14 DEF ConnectRollback, RemoveNode, Prompt
<1>15. CASE TerminateUnknown
  BY <1>15 DEF TerminateUnknown, Prompt, Dispatch
<1>16. CASE TerminateClose
  BY <1>16 DEF TerminateClose, CloseSockets, Closed, SocketOf, Dispatch
<1>17. CASE TerminateSigPipe
  BY <1>17 DEF TerminateSigPipe, Die, Dispatch
<1>18. CASE TerminateJoin
  BY <1>18 DEF TerminateJoin
<1>19. CASE TerminateBadJoin
  BY <1>19 DEF TerminateBadJoin, Undefined
<1>20. CASE TerminateRemove
  <2>1. conns' = conns \ {mcur} /\ mcur \in Ids
    <3>1. CASE mcur \in conns
      BY <1>20, <3>1 DEF TerminateRemove, RemoveNode, Prompt
    <3>2. CASE mcur \notin conns
      BY <1>20, <3>2 DEF TerminateRemove, RemoveNode, Prompt
    <3> QED
      BY <3>1, <3>2
  <2>2. UNCHANGED <<next_conn_id, active, should_remove, addr, rpc, lpc, lcur, running>>
    BY <1>20 DEF TerminateRemove, RemoveNode, Prompt
  <2>3. mcmd' = NoCmd /\ mpc' = "prompt"
    BY <1>20 DEF TerminateRemove, RemoveNode, Prompt
  <2>4. mpc = "termRemove"
    BY <1>20 DEF TerminateRemove
  <2> QED
    BY <2>1, <2>2, <2>3, <2>4
<1>21. CASE SendUnknown
  BY <1>21 DEF SendUnknown, Prompt, Dispatch
<1>22. CASE SendMessage
  BY <1>22 DEF SendMessage, Prompt, Dispatch
<1>23. CASE SendSigPipe
  BY <1>23 DEF SendSigPipe, Die, Dispatch
<1>24. CASE SendReport
  BY <1>24 DEF SendReport, Touch, Prompt
<1>25. CASE ExitFlag
  BY <1>25 DEF ExitFlag, Dispatch
<1>26. CASE ExitClose
  BY <1>26 DEF ExitClose
<1>27. CASE ExitSweep
  BY <1>27 DEF ExitSweep, CloseSockets, Closed, SocketOf, ActiveConns
<1>28. CASE ExitSigPipe
  BY <1>28 DEF ExitSigPipe, Die
<1>29. CASE ExitJoinListener
  BY <1>29 DEF ExitJoinListener
<1>30. CASE ExitLock
  BY <1>30 DEF ExitLock
<1>31. CASE ExitReturn
  BY <1>31 DEF ExitReturn
<1>32. CASE ListenCheck
  BY <1>32 DEF ListenCheck
<1>33. CASE AcceptEnter
  BY <1>33 DEF AcceptEnter, LowestFree, FreeFds
<1>34. CASE AcceptRefused
  BY <1>34 DEF AcceptRefused, AfterAcceptError
<1>35. CASE Accept
  BY <1>35 DEF Accept, NewNode
<1>36. CASE AcceptNoMemory
  BY <1>36 DEF AcceptNoMemory
<1>37. CASE ListenInsert
  BY <1>37 DEF ListenInsert
<1>38. CASE ListenCreate
  BY <1>38 DEF ListenCreate, StartThread
<1>39. CASE ListenCreateFail
  BY <1>39 DEF ListenCreateFail, Closed
<1>40. CASE ListenRollback
  BY <1>40 DEF ListenRollback, RemoveNode
<1>41. CASE ListenDangling
  BY <1>41 DEF ListenDangling, Undefined
<1>42. CASE Announce
  BY <1>42 DEF Announce, Touch
<1>43. CASE AcceptError
  BY <1>43 DEF AcceptError, AfterAcceptError
<1>44. CASE PeerConnects
  BY <1>44 DEF PeerConnects
<1>45. CASE EndOfInput
  BY <1>45 DEF EndOfInput, Die
<1>46. ASSUME NEW cmd \in Commands, ReadLine(cmd) PROVE ListInv'
  BY <1>46 DEF ReadLine, Commands, CommandType
<1>47. ASSUME NEW c \in Ids, ExitJoin(c) PROVE ListInv'
  BY <1>47 DEF ExitJoin, RemoveNode
<1>48. ASSUME NEW c \in Ids, RecvEnter(c) PROVE ListInv'
  BY <1>48 DEF RecvEnter, SocketOf
<1>49. ASSUME NEW c \in Ids, RecvEnd(c) PROVE ListInv'
  BY <1>49 DEF RecvEnd, LeaveLoop
<1>50. ASSUME NEW c \in Ids, RecvFinish(c) PROVE ListInv'
  BY <1>50 DEF RecvFinish
<1>51. ASSUME NEW c \in Ids, RecvMessage(c) PROVE ListInv'
  BY <1>51 DEF RecvMessage
<1>52. ASSUME NEW c \in Ids, RecvDisconnect(c) PROVE ListInv'
  BY <1>52 DEF RecvDisconnect, LeaveLoop
<1>53. ASSUME NEW c \in Ids, NEW how \in {"fin", "rst"}, PeerCloses(c, how) PROVE ListInv'
  BY <1>53 DEF PeerCloses
<1>59. CASE TerminateDangling
  BY <1>59 DEF TerminateDangling, Undefined
<1>60. ASSUME NEW c \in Ids, RecvDangling(c) PROVE ListInv'
  BY <1>60 DEF RecvDangling, Undefined
<1>54. CASE UNCHANGED vars
  BY <1>54 DEF vars
<1>55. CASE MainStep
  BY <1>55, <1>1, <1>2, <1>3, <1>4, <1>5, <1>6, <1>7, <1>8, <1>9, <1>10, <1>11, <1>12,
     <1>13, <1>14, <1>15, <1>16, <1>17, <1>18, <1>19, <1>20, <1>21, <1>22, <1>23, <1>24,
     <1>25, <1>26, <1>27, <1>28, <1>29, <1>30, <1>31, <1>47,
     <1>59 DEF MainStep
<1>56. CASE ListenerStep
  BY <1>56, <1>32, <1>33, <1>34, <1>35, <1>36, <1>37, <1>38, <1>39, <1>40, <1>41, <1>42
     DEF ListenerStep
<1>57. CASE \E c \in Ids : RecvStep(c)
  BY <1>57, <1>48, <1>49, <1>50, <1>60 DEF RecvStep
<1>58. CASE Environment
  BY <1>58, <1>43, <1>44, <1>45, <1>46, <1>51, <1>52, <1>53 DEF Environment
<1> HIDE DEF ListInv, TypeOK
<1> QED
  BY <1>54, <1>55, <1>56, <1>57, <1>58 DEF Next

(* Duplicates, the nodes under construction and the dead members, in every *)
(* state and whatever the user names.                                      *)
THEOREM ListInvariant == Spec => []ListInv
<1>1. Init => ListInv
  BY P2PAssumption
     DEF Init, ListInv, BuildersApart, StillNoDuplicate, Exiting, NoDuplicateOutgoing,
         InactiveCollected, ExitPlaces, Ids, NoCmd
<1> QED
  BY <1>1, TypeCorrect, ListInductive, PTL DEF Spec

(* cmd_connect unlocks between its test for a duplicate and the insertion; *)
(* no two active connections are dialled to one address all the same.      *)
THEOREM DialledOnce == Spec => []NoDuplicateOutgoing
<1>1. ListInv => NoDuplicateOutgoing
  BY DEF ListInv
<1> QED
  BY <1>1, ListInvariant, PTL

(* No dead member of the list is forgotten by reap_connections, by         *)
(* cmd_terminate and by cmd_exit alike.                                    *)
THEOREM DeadAreCollected == Spec => []InactiveCollected
<1>1. ListInv => InactiveCollected
  BY DEF ListInv
<1> QED
  BY <1>1, ListInvariant, PTL

-----------------------------------------------------------------------------
(* Descriptors, when the user waits for the announcement.                  *)

(* cmd_exit has closed the members that were active.                       *)
Swept == mpc \in {"exitJoinListener", "exitLock", "exitJoin"}

Terminating(c) == mpc \in {"termJoin", "termRemove"} /\ mcur = c

Owns(c) == sockfd[c] \in Fds /\ fdtab[sockfd[c]] = c

NoFd(c) == \A f \in Fds : fdtab[f] # c

(* A descriptor belongs to the one connection that stores its number.      *)
OwnersStore ==
    \A f \in Fds : fdtab[f] \in Ids => sockfd[fdtab[f]] = f /\ mem[fdtab[f]] # "unused"

(* What connect() and accept() work on is taken from nobody.               *)
InHand ==
    /\ mpc = "dial" => fdtab[mfd] = Dialing
    /\ lpc = "wait" => fdtab[lfd] = Reserved

(* A connection loses its socket only to whoever is ending it.             *)
LiveOwn ==
    \A c \in Ids :
        mem[c] = "live" =>
            Owns(c) \/ RollingBack(c) \/ (~active[c] /\ (Terminating(c) \/ Swept))

(* Whoever ends a connection closes its descriptor first; only             *)
(* reap_connections does not.                                              *)
EndedClosed ==
    \A c \in Ids : RollingBack(c) \/ Terminating(c) \/ link[c] = "shut" => NoFd(c)

(* The listener's new node may lose its socket to the sweep of cmd_exit;   *)
(* then nobody takes its descriptor number any more.                       *)
NewOwn ==
    lpc \in {"insert", "create"} =>
        Owns(lcur) \/ (Swept /\ sockfd[lcur] \in Fds /\ fdtab[sockfd[lcur]] = None)

(* Every node that is in use is in the list or about to be.                *)
LiveListed ==
    \A c \in Ids :
        mem[c] = "live" =>
            c \in conns \/ (mpc = "insert" /\ mcur = c) \/ (lpc = "insert" /\ lcur = c)

DoneMarked == \A c \in Ids : rpc[c] = "done" => should_remove[c]

SockInv ==
    /\ OwnersStore /\ InHand /\ LiveOwn /\ EndedClosed /\ NewOwn
    /\ LiveListed /\ DoneMarked
    /\ LostOnlyByReaper /\ ForeignReadOnlyWhileJoined

-----------------------------------------------------------------------------
(* Every step of every thread keeps the descriptors in order.              *)
LEMMA SockInductive ==
    ~HastyUser /\ TypeOK /\ LifeInv /\ ListInv /\ SockInv /\ [Next]_vars => SockInv'
<1> SUFFICES ASSUME ~HastyUser, TypeOK, LifeInv, ListInv, SockInv, [Next]_vars PROVE SockInv'
  OBVIOUS
<1> USE P2PAssumption
    DEF Ids, Fds, None, Dialing, Reserved, NoCmd, nodeVars, sockVars, mainVars, lisVars,
        recvVars, TypeOK, NodeTypes, SockTypes, MainTypes, ListenerTypes, RecvTypes,
        MainDerefs, ListenerDerefs, ExitPlaces, RecvPlaces, LifeInv, FreshIds, Handles,
        OneBuilder, ListedAreLive, ReaderNodeLive, MainKeeps, MainBuilds, ListenerBuilds,
        BuildPlaces, ListInv, Exiting, SockInv, OwnersStore, InHand, LiveOwn, EndedClosed,
        NewOwn, LiveListed, DoneMarked, LostOnlyByReaper, ForeignReadOnlyWhileJoined, Owns,
        NoFd, RollingBack, Terminating, Swept
<1>1. CASE Reap
  BY <1>1 DEF Reap, ReapScan
<1>2. CASE ReapJoin
  BY <1>2 DEF ReapJoin
<1>3. CASE ReapRemove
  BY SMTT(30), <1>3 DEF ReapRemove, RemoveNode, ReapScan
<1>4. CASE CmdOther
  BY <1>4 DEF CmdOther, Prompt, Dispatch
<1>5. CASE CmdList
  BY <1>5 DEF CmdList, Dispatch
<1>6. CASE ConnectRefused
  BY <1>6 DEF ConnectRefused, Prompt, Dispatch
<1>7. CASE ConnectAllowed
  BY <1>7 DEF ConnectAllowed, Dispatch
<1>8. CASE OpenSocket
  <2>1. OwnersStore'
    BY <1>8 DEF OpenSocket, Prompt, LowestFree, FreeFds
  <2>2. InHand'
    BY <1>8 DEF OpenSocket, Prompt, LowestFree, FreeFds
  <2>3. LiveOwn'
    BY <1>8 DEF OpenSocket, Prompt, LowestFree, FreeFds
  <2>4. EndedClosed'
    BY <1>8 DEF OpenSocket, Prompt, LowestFree, FreeFds
  <2>5. NewOwn'
    BY <1>8 DEF OpenSocket, Prompt, LowestFree, FreeFds
  <2>6. LiveListed'
    BY <1>8 DEF OpenSocket, Prompt, LowestFree, FreeFds
  <2>7. DoneMarked'
    BY <1>8 DEF OpenSocket, Prompt, LowestFree, FreeFds
  <2>8. LostOnlyByReaper'
    BY <1>8 DEF OpenSocket, Prompt, LowestFree, FreeFds
  <2>9. ForeignReadOnlyWhileJoined'
    BY <1>8 DEF OpenSocket, Prompt, LowestFree, FreeFds
  <2> QED
    BY <2>1, <2>2, <2>3, <2>4, <2>5, <2>6, <2>7, <2>8, <2>9 DEF SockInv
<1>9. CASE DialOk
  BY <1>9 DEF DialOk, NewNode
<1>10. CASE DialFail
  BY <1>10 DEF DialFail, Closed, Prompt
<1>11. CASE ConnectInsert
  BY <1>11 DEF ConnectInsert
<1>12. CASE ConnectCreate
  BY <1>12 DEF ConnectCreate, StartThread, Prompt
<1>13. CASE ConnectCreateFail
  <2>1. OwnersStore'
    BY <1>13 DEF ConnectCreateFail, Closed
  <2>2. InHand'
    BY <1>13 DEF ConnectCreateFail, Closed
  <2>3. LiveOwn'
    BY <1>13 DEF ConnectCreateFail, Closed
  <2>4. EndedClosed'
    BY <1>13 DEF ConnectCreateFail, Closed
  <2>5. NewOwn'
    BY <1>13 DEF ConnectCreateFail, Closed
  <2>6. LiveListed'
    BY <1>13 DEF ConnectCreateFail, Closed
  <2>7. DoneMarked'
    BY <1>13 DEF ConnectCreateFail, Closed
  <2>8. LostOnlyByReaper'
    BY <1>13 DEF ConnectCreateFail, Closed
  <2>9. ForeignReadOnlyWhileJoined'
    BY <1>13 DEF ConnectCreateFail, Closed
  <2> QED
    BY <2>1, <2>2, <2>3, <2>4, <2>5, <2>6, <2>7, <2>8, <2>9 DEF SockInv
<1>14. CASE ConnectRollback
  BY <1>14 DEF ConnectRollback, RemoveNode, Prompt
<1>15. CASE TerminateUnknown
  BY <1>15 DEF TerminateUnknown, Prompt, Dispatch
<1>16. CASE TerminateClose
  <2>a. PICK d \in conns : mcmd.id = d /\ Owns(d)
    <3>1. mcmd.id \in conns /\ mpc = "dispatch"
      BY <1>16 DEF TerminateClose, Dispatch
    <3>2. PICK d \in conns : mcmd.id = d
      BY <3>1
    <3>3. ~ListenerBuilds(d)
      BY <3>2 DEF NamedIsAnnounced
    <3>4. mem[d] = "live" /\ ~RollingBack(d) /\ ~Terminating(d) /\ ~Swept
      BY <3>1, <3>3
    <3>5. Owns(d)
      BY <3>4
    <3> QED
      BY <3>2, <3>5
  <2>b. \A s \in Ids : link'[s] = IF s = d THEN "shut" ELSE link[s]
    BY <1>16, <2>a DEF TerminateClose, CloseSockets, SocketOf
  <2>c. \A f \in Fds : fdtab'[f] = IF f = sockfd[d] THEN None ELSE fdtab[f]
    BY <1>16, <2>a DEF TerminateClose, CloseSockets, Closed
  <2>d. /\ active' = [active EXCEPT ![d] = FALSE]
        /\ UNCHANGED <<mem, sockfd, lpc, lcur>>
        /\ mpc = "dispatch" /\ mpc' = "termJoin" /\ mcur' = d
    BY <1>16, <2>a DEF TerminateClose, Dispatch
  <2>1. OwnersStore'
    BY <1>16 DEF TerminateClose, CloseSockets, Closed, SocketOf, Dispatch
  <2>2. InHand'
    BY <1>16 DEF TerminateClose, CloseSockets, Closed, SocketOf, Dispatch
  <2>3. LiveOwn'
    BY <1>16, <2>a, <2>b, <2>c, <2>d
  <2>4. EndedClosed'
    <3>1. ASSUME NEW f \in Fds, fdtab'[f] = d PROVE FALSE
      <4>1. d \in Ids /\ f # sockfd[d] /\ fdtab[f] = d
        BY <2>a, <2>c, <3>1
      <4> QED
        BY <4>1
    <3>2. ASSUME NEW e \in Ids, NoFd(e) PROVE NoFd(e)'
      BY <2>c, <3>2
    <3>3. ASSUME NEW e \in Ids, (RollingBack(e) \/ Terminating(e) \/ link[e] = "shut")'
         PROVE  e = d \/ NoFd(e)
      BY <2>b, <2>d, <3>3
    <3>4. ASSUME NEW e \in Ids, (RollingBack(e) \/ Terminating(e) \/ link[e] = "shut")'
         PROVE  NoFd(e)'
      <4>1. CASE e = d
        BY <3>1, <4>1
      <4>2. CASE e # d
        BY <3>2, <3>3, <3>4, <4>2
      <4> QED
        BY <4>1, <4>2
    <3> QED
      BY <3>4
  <2>5. NewOwn'
    <3> SUFFICES ASSUME lpc \in {"insert", "create"} PROVE Owns(lcur)'
      BY <2>d
    <3>1. ListenerBuilds(lcur) /\ Owns(lcur) /\ lcur \in Ids
      BY <2>d
    <3>2. lcur # d
      BY <2>a, <3>1 DEF NamedIsAnnounced
    <3>3. sockfd[lcur] # sockfd[d]
      BY <2>a, <3>1, <3>2
    <3> QED
      BY <2>c, <2>d, <3>1, <3>3
  <2>6. LiveListed'
    BY <1>16 DEF TerminateClose, CloseSockets, Closed, SocketOf, Dispatch
  <2>7. DoneMarked'
    BY <1>16 DEF TerminateClose, CloseSockets, Closed, SocketOf, Dispatch
  <2>8. LostOnlyByReaper'
    BY <1>16 DEF TerminateClose, CloseSockets, Closed, SocketOf, Dispatch
  <2>9. ForeignReadOnlyWhileJoined'
    BY <1>16 DEF TerminateClose, CloseSockets, Closed, SocketOf, Dispatch
  <2> QED
    BY <2>1, <2>2, <2>3, <2>4, <2>5, <2>6, <2>7, <2>8, <2>9 DEF SockInv
<1>17. CASE TerminateSigPipe
  BY <1>17 DEF TerminateSigPipe, Die, Dispatch
<1>18. CASE TerminateJoin
  BY <1>18 DEF TerminateJoin
<1>19. CASE TerminateBadJoin
  BY <1>19 DEF TerminateBadJoin, Undefined
<1>20. CASE TerminateRemove
  <2>1. OwnersStore'
    BY <1>20 DEF TerminateRemove, RemoveNode, Prompt
  <2>2. InHand'
    BY <1>20 DEF TerminateRemove, RemoveNode, Prompt
  <2>3. LiveOwn'
    BY <1>20 DEF TerminateRemove, RemoveNode, Prompt
  <2>4. EndedClosed'
    BY <1>20 DEF TerminateRemove, RemoveNode, Prompt
  <2>5. NewOwn'
    BY <1>20 DEF TerminateRemove, RemoveNode, Prompt
  <2>6. LiveListed'
    BY <1>20 DEF TerminateRemove, RemoveNode, Prompt
  <2>7. DoneMarked'
    BY <1>20 DEF TerminateRemove, RemoveNode, Prompt
  <2>8. LostOnlyByReaper'
    BY <1>20 DEF TerminateRemove, RemoveNode, Prompt
  <2>9. ForeignReadOnlyWhileJoined'
    BY <1>20 DEF TerminateRemove, RemoveNode, Prompt
  <2> QED
    BY <2>1, <2>2, <2>3, <2>4, <2>5, <2>6, <2>7, <2>8, <2>9 DEF SockInv
<1>21. CASE SendUnknown
  BY <1>21 DEF SendUnknown, Prompt, Dispatch
<1>22. CASE SendMessage
  BY <1>22 DEF SendMessage, Prompt, Dispatch
<1>23. CASE SendSigPipe
  BY <1>23 DEF SendSigPipe, Die, Dispatch
<1>24. CASE SendReport
  BY <1>24 DEF SendReport, Touch, Prompt
<1>25. CASE ExitFlag
  BY <1>25 DEF ExitFlag, Dispatch
<1>26. CASE ExitClose
  BY <1>26 DEF ExitClose
<1>27. CASE ExitSweep
  <2>1. OwnersStore'
    BY <1>27 DEF ExitSweep, CloseSockets, Closed, SocketOf, ActiveConns
  <2>2. InHand'
    BY <1>27 DEF ExitSweep, CloseSockets, Closed, SocketOf, ActiveConns
  <2>3. LiveOwn'
    BY <1>27 DEF ExitSweep, CloseSockets, Closed, SocketOf, ActiveConns
  <2>4. EndedClosed'
    <3>1. \A f \in Fds : fdtab'[f] = fdtab[f] \/ fdtab'[f] = None
      BY <1>27 DEF ExitSweep, CloseSockets, Closed
    <3>2. ASSUME NEW s \in Ids, link'[s] = "shut", link[s] # "shut"
         PROVE  NoFd(s)'
      <4>1. PICK c \in ActiveConns : SocketOf(c) = s
        BY <1>27, <3>2 DEF ExitSweep, CloseSockets
      <4>2. sockfd[c] \in Fds /\ fdtab[sockfd[c]] = s
        BY <4>1 DEF SocketOf
      <4>3. fdtab'[sockfd[c]] = None
        BY <1>27, <4>1, <4>2 DEF ExitSweep, CloseSockets, Closed
      <4>4. ASSUME NEW f \in Fds, fdtab'[f] = s PROVE FALSE
        <5>1. fdtab[f] = s
          BY <3>1, <4>4
        <5>2. sockfd[s] = f /\ sockfd[s] = sockfd[c]
          <6>1. \A g \in Fds : fdtab[g] = s => sockfd[s] = g
            BY <3>2
          <6> QED
            BY <4>2, <5>1, <6>1
        <5> QED
          BY <4>3, <4>4, <5>2
      <4> QED
        BY <4>4
    <3>3. UNCHANGED <<mcur, lpc, lcur>> /\ mpc = "exitSweep" /\ mpc' = "exitJoinListener"
      BY <1>27 DEF ExitSweep
    <3>4. \A e \in Ids : NoFd(e) => NoFd(e)'
      BY <3>1
    <3> QED
      BY <3>2, <3>3, <3>4
  <2>5. NewOwn'
    BY <1>27 DEF ExitSweep, CloseSockets, Closed, SocketOf, ActiveConns
  <2>6. LiveListed'
    BY <1>27 DEF ExitSweep, CloseSockets, Closed, SocketOf, ActiveConns
  <2>7. DoneMarked'
    BY <1>27 DEF ExitSweep, CloseSockets, Closed, SocketOf, ActiveConns
  <2>8. LostOnlyByReaper'
    BY <1>27 DEF ExitSweep, CloseSockets, Closed, SocketOf, ActiveConns
  <2>9. ForeignReadOnlyWhileJoined'
    BY <1>27 DEF ExitSweep, CloseSockets, Closed, SocketOf, ActiveConns
  <2> QED
    BY <2>1, <2>2, <2>3, <2>4, <2>5, <2>6, <2>7, <2>8, <2>9 DEF SockInv
<1>28. CASE ExitSigPipe
  BY <1>28 DEF ExitSigPipe, Die
<1>29. CASE ExitJoinListener
  BY <1>29 DEF ExitJoinListener
<1>30. CASE ExitLock
  BY <1>30 DEF ExitLock
<1>31. CASE ExitReturn
  BY <1>31 DEF ExitReturn
<1>32. CASE ListenCheck
  BY <1>32 DEF ListenCheck
<1>33. CASE AcceptEnter
  BY <1>33 DEF AcceptEnter, LowestFree, FreeFds
<1>34. CASE AcceptRefused
  BY <1>34 DEF AcceptRefused, AfterAcceptError
<1>35. CASE Accept
  BY <1>35 DEF Accept, NewNode
<1>36. CASE AcceptNoMemory
  BY <1>36 DEF AcceptNoMemory
<1>37. CASE ListenInsert
  BY <1>37 DEF ListenInsert
<1>38. CASE ListenCreate
  BY <1>38 DEF ListenCreate, StartThread
<1>39. CASE ListenCreateFail
  <2>1. OwnersStore'
    BY <1>39 DEF ListenCreateFail, Closed
  <2>2. InHand'
    BY <1>39 DEF ListenCreateFail, Closed
  <2>3. LiveOwn'
    BY <1>39 DEF ListenCreateFail, Closed
  <2>4. EndedClosed'
    <3>1. lcur \in Ids /\ lpc = "create" /\ lcur' = lcur /\ lpc' = "rollback"
      BY <1>39 DEF ListenCreateFail
    <3>2. UNCHANGED <<mpc, mcur, link>>
      BY <1>39 DEF ListenCreateFail
    <3>3. \A f \in Fds : fdtab'[f] = fdtab[f] \/ fdtab'[f] = None
      BY <1>39 DEF ListenCreateFail, Closed
    <3>4. ASSUME NEW f \in Fds, fdtab'[f] = lcur PROVE FALSE
      <4>1. fdtab[f] = lcur
        BY <3>1, <3>3, <3>4
      <4>2. sockfd[lcur] = f
        BY <3>1, <4>1
      <4> QED
        BY <1>39, <3>1, <3>4, <4>1, <4>2 DEF ListenCreateFail, Closed
    <3> QED
      BY <3>1, <3>2, <3>3, <3>4
  <2>5. NewOwn'
    BY <1>39 DEF ListenCreateFail, Closed
  <2>6. LiveListed'
    BY <1>39 DEF ListenCreateFail, Closed
  <2>7. DoneMarked'
    BY <1>39 DEF ListenCreateFail, Closed
  <2>8. LostOnlyByReaper'
    BY <1>39 DEF ListenCreateFail, Closed
  <2>9. ForeignReadOnlyWhileJoined'
    BY <1>39 DEF ListenCreateFail, Closed
  <2> QED
    BY <2>1, <2>2, <2>3, <2>4, <2>5, <2>6, <2>7, <2>8, <2>9 DEF SockInv
<1>40. CASE ListenRollback
  BY <1>40 DEF ListenRollback, RemoveNode
<1>41. CASE ListenDangling
  BY <1>41 DEF ListenDangling, Undefined
<1>42. CASE Announce
  BY <1>42 DEF Announce, Touch
<1>43. CASE AcceptError
  BY <1>43 DEF AcceptError, AfterAcceptError
<1>44. CASE PeerConnects
  BY <1>44 DEF PeerConnects
<1>45. CASE EndOfInput
  BY <1>45 DEF EndOfInput, Die
<1>46. ASSUME NEW cmd \in Commands, ReadLine(cmd) PROVE SockInv'
  BY <1>46 DEF ReadLine, Commands, CommandType
<1>47. ASSUME NEW c \in Ids, ExitJoin(c) PROVE SockInv'
  BY <1>47 DEF ExitJoin, RemoveNode
<1>48. ASSUME NEW c \in Ids, RecvEnter(c) PROVE SockInv'
  BY <1>48 DEF RecvEnter, SocketOf
<1>49. ASSUME NEW c \in Ids, RecvEnd(c) PROVE SockInv'
  BY <1>49 DEF RecvEnd, LeaveLoop
<1>50. ASSUME NEW c \in Ids, RecvFinish(c) PROVE SockInv'
  BY <1>50 DEF RecvFinish
<1>51. ASSUME NEW c \in Ids, RecvMessage(c) PROVE SockInv'
  BY <1>51 DEF RecvMessage
<1>52. ASSUME NEW c \in Ids, RecvDisconnect(c) PROVE SockInv'
  BY <1>52 DEF RecvDisconnect, LeaveLoop
<1>53. ASSUME NEW c \in Ids, NEW how \in {"fin", "rst"}, PeerCloses(c, how) PROVE SockInv'
  BY <1>53 DEF PeerCloses
<1>59. CASE TerminateDangling
  BY <1>59 DEF TerminateDangling, Undefined
<1>60. ASSUME NEW c \in Ids, RecvDangling(c) PROVE SockInv'
  BY <1>60 DEF RecvDangling, Undefined
<1>54. CASE UNCHANGED vars
  BY <1>54 DEF vars
<1> HIDE DEF SockInv, TypeOK, LifeInv, ListInv
<1>55. CASE MainStep
  BY <1>55, <1>1, <1>2, <1>3, <1>4, <1>5, <1>6, <1>7, <1>8, <1>9, <1>10, <1>11, <1>12,
     <1>13, <1>14, <1>15, <1>16, <1>17, <1>18, <1>19, <1>20, <1>21, <1>22, <1>23, <1>24,
     <1>25, <1>26, <1>27, <1>28, <1>29, <1>30, <1>31, <1>47,
     <1>59 DEF MainStep
<1>56. CASE ListenerStep
  BY <1>56, <1>32, <1>33, <1>34, <1>35, <1>36, <1>37, <1>38, <1>39, <1>40, <1>41, <1>42
     DEF ListenerStep
<1>57. CASE \E c \in Ids : RecvStep(c)
  BY <1>57, <1>48, <1>49, <1>50, <1>60 DEF RecvStep
<1>58. CASE Environment
  BY <1>58, <1>43, <1>44, <1>45, <1>46, <1>51, <1>52, <1>53 DEF Environment
<1> QED
  BY <1>54, <1>55, <1>56, <1>57, <1>58 DEF Next

(* Which socket each number stands for, in every state.                    *)
THEOREM SocketInvariant ==
    ASSUME ~HastyUser PROVE Spec => [](TypeOK /\ LifeInv /\ ListInv /\ SockInv)
<1>1. Init => SockInv
  BY P2PAssumption
     DEF Init, SockInv, OwnersStore, InHand, LiveOwn, EndedClosed, NewOwn, LiveListed,
         DoneMarked, LostOnlyByReaper, ForeignReadOnlyWhileJoined, RollingBack, Terminating,
         Ids, Fds, None
<1> QED
  BY <1>1, LifeInvariant, ListInvariant, SockInductive, PTL DEF Spec

(* cmd_send and cmd_exit write to the peer of the connection they name.    *)
THEOREM SocketsAreOwn == ASSUME ~HastyUser PROVE Spec => []ActiveOwnsFd
<1>1. LifeInv /\ SockInv /\ TypeOK => ActiveOwnsFd
  BY DEF LifeInv, ListedAreLive, SockInv, LiveOwn, Owns, ActiveOwnsFd, SocketOf, TypeOK,
         NodeTypes
<1> QED
  BY <1>1, SocketInvariant, PTL

(* A descriptor that nobody closes was lost by reap_connections.           *)
THEOREM OnlyReaperLoses == ASSUME ~HastyUser PROVE Spec => []LostOnlyByReaper
<1>1. SockInv => LostOnlyByReaper
  BY DEF SockInv
<1> QED
  BY <1>1, SocketInvariant, PTL

(* A receive thread that reads from a foreign socket is being joined.      *)
THEOREM ForeignReads == ASSUME ~HastyUser PROVE Spec => []ForeignReadOnlyWhileJoined
<1>1. SockInv => ForeignReadOnlyWhileJoined
  BY DEF SockInv
<1> QED
  BY <1>1, SocketInvariant, PTL

(* Of the places that use a node after unlocking, only two may find it     *)
(* freed; at the others LifeInv says who keeps it alive.                   *)
LEMMA StaleInductive == TypeOK /\ LifeInv /\ OnlyKnownStaleReads /\ [Next]_vars
                            => OnlyKnownStaleReads'
<1> SUFFICES ASSUME TypeOK, LifeInv, OnlyKnownStaleReads, [Next]_vars
             PROVE  OnlyKnownStaleReads'
  OBVIOUS
<1> USE DEF OnlyKnownStaleReads
<1>1. CASE ReapRemove
  BY <1>1 DEF ReapRemove
<1>2. CASE SendReport
  <2>1. mem[mcur] = "live"
    BY <1>2 DEF SendReport, LifeInv, MainKeeps, ListedAreLive
  <2> QED
    BY <1>2, <2>1 DEF SendReport, Touch
<1>3. ~TerminateBadJoin /\ ~TerminateDangling
  <2>1. mpc \in {"termJoin", "termRemove"} =>
            mcur \in Ids /\ mem[mcur] = "live" /\ thread[mcur]
    BY DEF TypeOK, MainTypes, MainDerefs, LifeInv, MainKeeps, ListedAreLive, Handles
  <2> QED
    BY <2>1 DEF TerminateBadJoin, TerminateDangling
<1>16. ~ListenDangling
  BY DEF ListenDangling, TypeOK, ListenerTypes, ListenerDerefs, LifeInv, OneBuilder,
     ListenerBuilds, BuildPlaces
<1>17. ASSUME NEW c \in Ids PROVE ~RecvDangling(c)
  BY DEF RecvDangling, LifeInv, ReaderNodeLive
<1>4. CASE Announce
  BY <1>4 DEF Announce, Touch
<1>5. ASSUME NEW c \in Ids, RecvEnter(c) \/ RecvFinish(c) PROVE OnlyKnownStaleReads'
  BY <1>5 DEF RecvEnter, RecvFinish
<1>6. CASE Reap \/ ReapJoin \/ CmdOther \/ CmdList \/ ConnectRefused \/ ConnectAllowed
         \/ OpenSocket \/ DialOk \/ DialFail \/ ConnectInsert \/ ConnectCreate \/
         ConnectCreateFail \/ ConnectRollback \/ TerminateUnknown \/ TerminateClose
         \/ TerminateSigPipe \/ TerminateJoin \/ TerminateRemove \/ SendUnknown \/
         SendMessage \/ SendSigPipe \/ ExitFlag \/ ExitClose \/ ExitSweep \/
         ExitSigPipe \/ ExitJoinListener \/ ExitLock \/ ExitReturn
  BY <1>6 DEF Reap, ReapJoin, CmdOther, CmdList, ConnectRefused, ConnectAllowed,
     OpenSocket, DialOk, DialFail, ConnectInsert, ConnectCreate, ConnectCreateFail,
     ConnectRollback, TerminateUnknown, TerminateClose, TerminateSigPipe,
     TerminateJoin, TerminateRemove, SendUnknown, SendMessage, SendSigPipe, ExitFlag,
     ExitClose, ExitSweep, ExitSigPipe, ExitJoinListener, ExitLock, ExitReturn, Die,
     Dispatch
<1>7. CASE ListenCheck \/ AcceptEnter \/ AcceptRefused \/ Accept \/ AcceptNoMemory \/
         ListenInsert \/ ListenCreate \/ ListenCreateFail \/ ListenRollback \/
         AcceptError \/ PeerConnects \/ EndOfInput
  BY <1>7 DEF ListenCheck, AcceptEnter, AcceptRefused, Accept, AcceptNoMemory,
     ListenInsert, ListenCreate, StartThread, ListenCreateFail, ListenRollback, AcceptError,
     PeerConnects, EndOfInput, Die
<1>8. ASSUME NEW cmd \in Commands, ReadLine(cmd) PROVE OnlyKnownStaleReads'
  BY <1>8 DEF ReadLine
<1>9. ASSUME NEW c \in Ids, ExitJoin(c) \/ RecvEnd(c) \/ RecvMessage(c) \/ RecvDisconnect(c)
      PROVE  OnlyKnownStaleReads'
  BY <1>9 DEF ExitJoin, RecvEnd, RecvMessage, RecvDisconnect, LeaveLoop
<1>10. ASSUME NEW c \in Ids, NEW how \in {"fin", "rst"}, PeerCloses(c, how)
       PROVE  OnlyKnownStaleReads'
  BY <1>10 DEF PeerCloses
<1>11. CASE UNCHANGED vars
  BY <1>11 DEF vars
<1> HIDE DEF OnlyKnownStaleReads
<1>12. CASE MainStep
  BY <1>12, <1>1, <1>2, <1>3, <1>6, <1>9 DEF MainStep
<1>13. CASE ListenerStep
  BY <1>13, <1>4, <1>7, <1>16 DEF ListenerStep
<1>14. CASE \E c \in Ids : RecvStep(c)
  BY <1>14, <1>5, <1>9, <1>17 DEF RecvStep
<1>15. CASE Environment
  BY <1>15, <1>7, <1>8, <1>9, <1>10 DEF Environment
<1> QED
  BY <1>11, <1>12, <1>13, <1>14, <1>15 DEF Next

(* The only reads of freed nodes are the two reports.                      *)
THEOREM StaleReads == ASSUME ~HastyUser PROVE Spec => []OnlyKnownStaleReads
<1>1. Init => OnlyKnownStaleReads
  BY DEF Init, OnlyKnownStaleReads
<1> QED
  BY <1>1, LifeInvariant, StaleInductive, PTL DEF Spec
=============================================================================
