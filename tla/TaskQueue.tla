------------------------------ MODULE TaskQueue ------------------------------
(***************************************************************************)
(* S8_Message_Queue: task_worker.c creates the message queue, takes tasks  *)
(* out of it and removes it on Ctrl+C; each run of task_dispatcher.c sends *)
(* one task.  Any number of workers and dispatchers may be started, one    *)
(* after or beside the other.                                              *)
(*                                                                         *)
(* A queue is known by the worker that created it.  Its name leads to the  *)
(* last one created; a queue without the name lives on for the processes   *)
(* that have it open.                                                      *)
(***************************************************************************)
EXTENDS Naturals, Sequences, FiniteSets

CONSTANTS
    Workers,       \* worker processes
    Dispatchers,   \* dispatcher processes, one task each
    MaxMsg         \* attr.mq_maxmsg

NoQueue == 0
NoTask == 0

(* A task that fills MSGSZ with its final zero makes the worker write one  *)
(* byte behind its buffer; a longer one is refused by mq_send.             *)
Sizes == {"fits", "full", "over"}

VARIABLES
    qname,      \* the queue that QUEUE_NAME leads to
    messages,   \* queues: tasks in the order they came
    wpc,        \* workers: place
    wq,         \* workers: the queue behind mqdes
    task,       \* workers: the task received and not yet printed
    qpc,        \* dispatchers: place
    dq,         \* dispatchers: the queue behind mqdes
    prio,       \* dispatchers: the priority of their task
    size,       \* dispatchers: the length of their task
    processed,  \* history: tasks printed by a worker
    removed     \* history: workers that have the queue open while another one removed the name

queueVars == <<qname, messages, wpc, wq, task, qpc, dq, prio, size, processed, removed>>

QueueInit ==
    /\ qname = NoQueue
    /\ messages = [w \in Workers |-> <<>>]
    /\ wpc = [w \in Workers |-> "off"] /\ wq = [w \in Workers |-> NoQueue]
    /\ task = [w \in Workers |-> NoTask]
    /\ qpc = [d \in Dispatchers |-> "off"] /\ dq = [d \in Dispatchers |-> NoQueue]
    /\ prio = [d \in Dispatchers |-> 0] /\ size = [d \in Dispatchers |-> "fits"]
    /\ processed = {} /\ removed = {}

Runs(w) == wpc[w] \in {"handler", "receive", "work"}

Listening(q) == \E w \in Workers : wq[w] = q /\ wpc[w] \in {"receive", "work"}

-----------------------------------------------------------------------------
(* Workers.                                                                *)

(* sigaction: from here on Ctrl+C runs cleanup_and_exit.                   *)
InstallHandler(w) ==
    /\ wpc[w] = "off"
    /\ wpc' = [wpc EXCEPT ![w] = "handler"]
    /\ UNCHANGED <<qname, messages, wq, task, qpc, dq, prio, size, processed, removed>>

(* Seeded fault: the worker begins with a queue of its own, as the UNIX    *)
(* socket servers do with their path.                                      *)
Opened_Fresh(w) == w

(* mq_open with O_CREAT.                                                   *)
Opened(w) == IF qname = NoQueue THEN w ELSE qname

OpenQueue(w) ==
    /\ wpc[w] = "handler"
    /\ wq' = [wq EXCEPT ![w] = Opened(w)]
    /\ qname' = Opened(w)
    /\ wpc' = [wpc EXCEPT ![w] = "receive"]
    /\ UNCHANGED <<messages, task, qpc, dq, prio, size, processed, removed>>

(* The oldest task of the highest priority.                                *)
First(tasks) ==
    CHOOSE i \in DOMAIN tasks :
        \A j \in DOMAIN tasks : prio[tasks[j]] < prio[tasks[i]] \/ (prio[tasks[j]] = prio[tasks[i]] /\ i <= j)

(* Seeded fault: tasks of the lowest priority are left in the queue.       *)
Ready_Urgent(q) == \E i \in DOMAIN messages[q] : prio[messages[q][i]] > 0

Ready(q) == messages[q] # <<>>

(* mq_receive; sleep(60) before the first is a stutter.  The zero written  *)
(* behind the buffer may end the worker.                                   *)
Receive(w) ==
    /\ wpc[w] = "receive" /\ Ready(wq[w])
    /\ LET tasks == messages[wq[w]]
           i     == First(tasks)
       IN  /\ messages' = [messages EXCEPT ![wq[w]] = SubSeq(tasks, 1, i - 1) \o SubSeq(tasks, i + 1, Len(tasks))]
           /\ \/ wpc' = [wpc EXCEPT ![w] = "work"] /\ task' = [task EXCEPT ![w] = tasks[i]]
              \/ size[tasks[i]] = "full" /\ wpc' = [wpc EXCEPT ![w] = "ended"] /\ UNCHANGED task
    /\ UNCHANGED <<qname, wq, qpc, dq, prio, size, processed, removed>>

Process(w) ==
    /\ wpc[w] = "work"
    /\ processed' = processed \cup {task[w]}
    /\ task' = [task EXCEPT ![w] = NoTask]
    /\ wpc' = [wpc EXCEPT ![w] = "receive"]
    /\ UNCHANGED <<qname, messages, wq, qpc, dq, prio, size, removed>>

(* cleanup_and_exit, from the handler: the name is removed, whichever      *)
(* queue it leads to, and a task that was not printed yet is dropped.      *)
CleanupAndExit(w) ==
    /\ Runs(w)
    /\ qname' = NoQueue
    /\ wpc' = [wpc EXCEPT ![w] = "ended"]
    /\ task' = [task EXCEPT ![w] = NoTask]
    /\ removed' = removed \cup {v \in Workers \ {w} : wpc[v] \in {"receive", "work"}}
    /\ UNCHANGED <<messages, wq, qpc, dq, prio, size, processed>>

(* Any other signal ends the worker where it is; the queue stays.          *)
KillWorker(w) ==
    /\ Runs(w)
    /\ wpc' = [wpc EXCEPT ![w] = "ended"]
    /\ task' = [task EXCEPT ![w] = NoTask]
    /\ UNCHANGED <<qname, messages, wq, qpc, dq, prio, size, processed, removed>>

-----------------------------------------------------------------------------
(* Dispatchers.                                                            *)

(* mq_open without O_CREAT: it fails when there is no queue.               *)
Dispatch(d, p, s) ==
    /\ qpc[d] = "off"
    /\ prio' = [prio EXCEPT ![d] = p] /\ size' = [size EXCEPT ![d] = s]
    /\ IF qname = NoQueue
       THEN qpc' = [qpc EXCEPT ![d] = "failed"] /\ UNCHANGED dq
       ELSE qpc' = [qpc EXCEPT ![d] = "send"] /\ dq' = [dq EXCEPT ![d] = qname]
    /\ UNCHANGED <<qname, messages, wpc, wq, task, processed, removed>>

(* Seeded fault: a message that was taken out still counts.                *)
Room_NeverFreed(q) == Cardinality({d \in Dispatchers : dq[d] = q /\ qpc[d] = "sent"}) < MaxMsg

Room(q) == Len(messages[q]) < MaxMsg

(* mq_send blocks while the queue is full.                                 *)
Send(d) ==
    /\ qpc[d] = "send"
    /\ IF size[d] = "over"
       THEN qpc' = [qpc EXCEPT ![d] = "failed"] /\ UNCHANGED messages
       ELSE /\ Room(dq[d])
            /\ messages' = [messages EXCEPT ![dq[d]] = Append(@, d)]
            /\ qpc' = [qpc EXCEPT ![d] = "sent"]
    /\ UNCHANGED <<qname, wpc, wq, task, dq, prio, size, processed, removed>>

-----------------------------------------------------------------------------
WorkerStep(w) == OpenQueue(w) \/ Receive(w) \/ Process(w)

QueueNext ==
    \/ \E w \in Workers : WorkerStep(w) \/ InstallHandler(w) \/ CleanupAndExit(w) \/ KillWorker(w)
    \/ \E d \in Dispatchers : Send(d) \/ \E p \in {0, 1}, s \in Sizes : Dispatch(d, p, s)

QueueGoes == (\E w \in Workers : WorkerStep(w)) \/ \E d \in Dispatchers : Send(d)

-----------------------------------------------------------------------------
(* A worker listens on a queue that no dispatcher can find only when       *)
(* another worker has run cleanup_and_exit since it opened it: a restart   *)
(* after a crash goes on with the old queue (mq_open, mq_unlink).          *)
FoundUnlessRemoved ==
    \A w \in Workers : wpc[w] \in {"receive", "work"} /\ wq[w] # qname => w \in removed

(* A task that was sent is taken by a worker, unless nobody listens on its *)
(* queue any more: priorities, the limit, a killed or a second worker make *)
(* none wait for ever (main of task_worker.c).                             *)
Waiting(d) == \E q \in Workers : \E i \in DOMAIN messages[q] : messages[q][i] = d

TasksAreTaken == []<>(\A d \in Dispatchers : Waiting(d) => ~Listening(dq[d]))

(* A dispatcher that waits for room in the queue goes on, unless nobody    *)
(* listens on it any more (mq_send in main of task_dispatcher.c).          *)
SenderGoesOn == []<>(\A d \in Dispatchers : qpc[d] = "send" => ~Listening(dq[d]))
=============================================================================
