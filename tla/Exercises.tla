------------------------------ MODULE Exercises ------------------------------
(***************************************************************************)
(* The small exercises of S4 to S9 side by side.  Each is a program, or a  *)
(* pair of programs, of its own and none touches the state of another, so  *)
(* a behaviour picks one and lets the others rest; the modules of the      *)
(* exercises say how it goes.  What one module states for two programs, by *)
(* a parameter, is picked here as well.                                    *)
(***************************************************************************)
EXTENDS Naturals, FiniteSets

CONSTANTS
    EchoServers, EchoClients, MaxUnits,
    DgramServers, DgramClients, MaxLines,
    Workers, Dispatchers, MaxMsg,
    NUMBER_DATAS, Values, MaxWakeups,
    Writers, Readers, Increment, Initial,
    Lines, PipeSize,
    MaxTime, MaxRaised, MaxTyped,
    Makers, Buyers

(* 0 is nobody's number; the threads of S4 and what they count, MAX_TIME   *)
(* and the sizes are those of any build of the programs.                   *)
ASSUME ExercisesAssumption ==
    /\ 0 \notin EchoServers \cup EchoClients \cup DgramServers \cup DgramClients
    /\ 0 \notin Workers \cup Dispatchers \cup Makers \cup Buyers
    /\ MaxUnits \in Nat /\ MaxLines \in Nat /\ MaxMsg \in Nat /\ MaxWakeups \in Nat
    /\ NUMBER_DATAS \in Nat \ {0}
    /\ IsFiniteSet(Writers) /\ Writers # {} /\ Writers \cap Readers = {}
    /\ Increment \in Nat \ {0, 1} /\ Initial \in Nat
    /\ Lines \in Nat /\ PipeSize \in Nat
    /\ MaxTime \in Nat \ {0}

VARIABLES
    program,
    spc, path, lingers, backlog, serving, got, cpc, peer, up, down, sgone, cgone, written, long, shown,
    overtaken,
    dspc, spath, inbox, handling, dcpc, cpath, answers, line, fate, overtook, printed,
    qname, messages, wpc, wq, task, qpc, dq, prio, size, processed, removed,
    g_data, g_data_ready, holder, hpc, rounds, received, hmain, wakeups,
    shared, inside, ipc, turns, register, imain,
    par, child, ends, inPipe, left, counted,
    loop, pending, g_count, g_term, armed, parent, kills, raised, input, typed, missed,
    shm, sized, product, mpl, mobj, bpl, bobj, seen, alone, good, quiet

streamOnes == {"tcp", "unix stream"}
dgramOnes  == {"udp", "unix datagram"}
incOnes    == {"race condition", "rw lock"}
sigOnes    == {"sigint", "sigalrm", "sigusr1", "select"}

Programs == streamOnes \cup dgramOnes \cup incOnes \cup sigOnes
              \cup {"task queue", "condition variable", "pipe", "shared memory"}

Stream  == INSTANCE EchoStream WITH family <- IF program = "tcp" THEN "inet" ELSE "unix"
Dgram   == INSTANCE EchoDatagram WITH kind <- IF program = "udp" THEN "udp" ELSE "unix"
Queue   == INSTANCE TaskQueue
Cond    == INSTANCE Handoff
Inc     == INSTANCE Increments WITH locked <- program = "rw lock"
Pipe    == INSTANCE Pipeline
Sig     == INSTANCE SignalLoops WITH sprog <- IF program \in sigOnes THEN program ELSE "sigint"
Memory  == INSTANCE SharedProduct

streamRest == <<spc, path, lingers, backlog, serving, got, cpc,
                peer, up, down, sgone, cgone, written, long, shown, overtaken>>
dgramRest  == <<dspc, spath, inbox, handling, dcpc,
                cpath, answers, line, fate, overtook, printed>>
queueRest  == <<qname, messages, wpc, wq, task, qpc, dq, prio, size, processed, removed>>
condRest   == <<g_data, g_data_ready, holder, hpc, rounds, received, hmain, wakeups>>
incRest    == <<shared, inside, ipc, turns, register, imain>>
pipeRest   == <<par, child, ends, inPipe, left, counted>>
sigRest    == <<loop, pending, g_count, g_term, armed,
                parent, kills, raised, input, typed, missed>>
memoryRest == <<shm, sized, product, mpl, mobj, bpl, bobj, seen, alone, good, quiet>>

vars == <<program, streamRest, dgramRest, queueRest, condRest, incRest, pipeRest, sigRest, memoryRest>>

Init ==
    /\ program \in Programs
    /\ Stream!StreamInit /\ Dgram!DgramInit /\ Queue!QueueInit /\ Cond!HandoffInit
    /\ Inc!IncInit /\ Pipe!PipeInit /\ Sig!SigInit /\ Memory!ShmInit

Next ==
    /\ UNCHANGED program
    /\ IF program \in streamOnes           THEN Stream!StreamNext ELSE UNCHANGED streamRest
    /\ IF program \in dgramOnes            THEN Dgram!DgramNext   ELSE UNCHANGED dgramRest
    /\ IF program = "task queue"           THEN Queue!QueueNext   ELSE UNCHANGED queueRest
    /\ IF program = "condition variable"   THEN Cond!HandoffNext  ELSE UNCHANGED condRest
    /\ IF program \in incOnes              THEN Inc!IncNext       ELSE UNCHANGED incRest
    /\ IF program = "pipe"                 THEN Pipe!PipeNext     ELSE UNCHANGED pipeRest
    /\ IF program \in sigOnes              THEN Sig!SigNext       ELSE UNCHANGED sigRest
    /\ IF program = "shared memory"        THEN Memory!ShmNext    ELSE UNCHANGED memoryRest

(* What goes on by itself in the program that was picked; users, killers   *)
(* and passers-by come when they like.                                     *)
Goes ==
    /\ UNCHANGED program
    /\ IF program \in streamOnes           THEN Stream!StreamGoes ELSE UNCHANGED streamRest
    /\ IF program \in dgramOnes            THEN Dgram!DgramGoes   ELSE UNCHANGED dgramRest
    /\ IF program = "task queue"           THEN Queue!QueueGoes   ELSE UNCHANGED queueRest
    /\ IF program = "condition variable"   THEN Cond!HandoffGoes  ELSE UNCHANGED condRest
    /\ IF program \in incOnes              THEN Inc!IncGoes       ELSE UNCHANGED incRest
    /\ IF program = "pipe"                 THEN Pipe!PipeGoes     ELSE UNCHANGED pipeRest
    /\ IF program \in sigOnes              THEN Sig!SigGoes       ELSE UNCHANGED sigRest
    /\ program # "shared memory" /\ UNCHANGED memoryRest

SignalComes ==
    /\ UNCHANGED program /\ program \in sigOnes /\ Sig!Delivery
    /\ UNCHANGED <<streamRest, dgramRest, queueRest, condRest, incRest, pipeRest, memoryRest>>

(* Some process goes on as long as one can, which is less than the         *)
(* scheduler gives to each.  All but ex4_select.c, which spins at the end  *)
(* of its input, come to rest within the bounds, so that "again and again" *)
(* below means in the end; ex4 needs its signals delivered as well.        *)
FairSpec == Init /\ [][Next]_vars /\ WF_vars(Goes) /\ WF_vars(SignalComes)

-----------------------------------------------------------------------------
(* The properties of the modules: what each says alone, and what belongs   *)
(* together.                                                               *)

(* EchoStream: the text of a client comes back once, complete and in       *)
(* order; and a UNIX client falls behind by no more than its long lines    *)
(* (the echo loops, and the one read() of the clients).                    *)
StreamEchoes == Stream!EchoInOrder /\ Stream!BehindByLongLines

(* EchoStream: a server that is started finds its address free, unless the *)
(* TCP port is held or another server did its bind() between the unlink()  *)
(* and the bind() of this one (init_server_socket, create_server_socket).  *)
StreamStartsUnlessHeld == Stream!StartsUnlessHeld

(* EchoDatagram: whose answers a client prints (recvfrom in the clients,   *)
(* and the CLIENT_PATH they share).                                        *)
DgramAnswerIsOwn == Dgram!AnswerIsOwn

(* TaskQueue: a worker is found by dispatchers unless another one removed  *)
(* the name (cleanup_and_exit).                                            *)
QueueFoundUnlessRemoved == Queue!FoundUnlessRemoved

(* Handoff: g_data is a queue of one place (ex3_condition_variable.c).     *)
CondHandsOver == Cond!HandsOver

(* Increments and Pipeline: the number printed in the end, the counter of  *)
(* ex2 and ex4 and the lines that wc counts, is what the locks and the     *)
(* closed ends of the pipe make it.                                        *)
TotalsAreRight == Inc!CounterBounds /\ Pipe!CountIsWhole

(* SignalLoops: only a signal in the window before pause() or select()     *)
(* leaves a loop asleep that has had enough.                               *)
SigStuckOnlyAfterMiss == Sig!StuckOnlyAfterMiss

(* SharedProduct: a product is read whole (posix_shm_consumer.c).          *)
MemoryReadsOneProduct == Memory!ReadsOneProduct

(* Who asks is served in the end, be the server killed, the queue full or  *)
(* the answer longer than a buffer, except in the cases that the modules   *)
(* name: the stream client behind another one or after a line with nothing *)
(* in it, the datagram that was dropped, misled or empty, the queue that   *)
(* nobody listens on (the loops of the servers and of task_worker.c).      *)
RequestsAreServed ==
    Stream!ClientsGoOn /\ Dgram!AnswersArrive /\ Queue!TasksAreTaken /\ Queue!SenderGoesOn

(* The programs that are to end do end: no thread of S4 and no tool of S7  *)
(* waits for one that waits for it, whatever call failed, and the programs *)
(* of S5 obey the signals that end them.                                   *)
ProgramsEnd ==
    Cond!HandoffEnds /\ Inc!IncEnds /\ Pipe!PipelineEnds /\ Sig!SignalsObeyed
=============================================================================
