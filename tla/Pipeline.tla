------------------------------ MODULE Pipeline ------------------------------
(***************************************************************************)
(* S7_Pipe_FIFO/ex1_pipe.c: a parent starts "ls -l" and "wc -l" with a     *)
(* pipe between them and waits for both.  wc finds the end of its input    *)
(* only when the last write end is closed, in whichever process it is.     *)
(***************************************************************************)
EXTENDS Naturals

CONSTANTS
    Lines,      \* lines that ls prints
    PipeSize    \* lines the pipe holds

VARIABLES
    par,        \* parent: place
    child,      \* "ls" and "wc": place
    ends,       \* open ends of the pipe: <<process, "read" or "write">>
    inPipe,     \* lines in the pipe
    left,       \* lines ls has not written yet
    counted     \* lines wc has read

pipeVars == <<par, child, ends, inPipe, left, counted>>

Children == {"ls", "wc"}

PipeInit ==
    /\ par = "off"
    /\ child = [c \in Children |-> "unborn"]
    /\ ends = {} /\ inPipe = 0 /\ left = Lines /\ counted = 0

Readable == \E e \in ends : e[2] = "read"
Writable == \E e \in ends : e[2] = "write"

Of(process) == {e \in ends : e[1] = process}

(* A process ends and its descriptors are closed.                          *)
Exit(c, how) == child' = [child EXCEPT ![c] = how] /\ ends' = ends \ Of(c)

-----------------------------------------------------------------------------
(* The parent.                                                             *)

PipeRun ==
    /\ par = "off" /\ par' = "fork1"
    /\ ends' = {<<"parent", "read">>, <<"parent", "write">>}
    /\ UNCHANGED <<child, inPipe, left, counted>>

(* fork(): the child inherits both ends; on failure the parent exits.      *)
Fork(c, at, next) ==
    /\ par = at
    /\ \/ /\ par' = next
          /\ child' = [child EXCEPT ![c] = "born"]
          /\ ends' = ends \cup {<<c, e[2]>> : e \in Of("parent")}
       \/ /\ par' = "failed" /\ ends' = ends \ Of("parent")
          /\ UNCHANGED child
    /\ UNCHANGED <<inPipe, left, counted>>

Forks == Fork("ls", "fork1", "fork2") \/ Fork("wc", "fork2", "close")

(* Seeded fault: the parent closes the read end only.                      *)
CloseBoth_ReadOnly ==
    /\ par = "close" /\ par' = "wait"
    /\ ends' = ends \ {<<"parent", "read">>}
    /\ UNCHANGED <<child, inPipe, left, counted>>

CloseBoth ==
    /\ par = "close" /\ par' = "wait"
    /\ ends' = ends \ Of("parent")
    /\ UNCHANGED <<child, inPipe, left, counted>>

Gone(c) == child[c] \in {"ended", "killed"}

(* waitpid() for one, then the other; the exit codes are reported.         *)
WaitBoth ==
    /\ par = "wait" /\ \A c \in Children : Gone(c)
    /\ par' = "ended"
    /\ UNCHANGED <<child, ends, inPipe, left, counted>>

-----------------------------------------------------------------------------
(* The children.                                                           *)

Unused(c) == IF c = "ls" THEN "read" ELSE "write"

(* Seeded fault: ls closes its write end without dup2, and prints on the   *)
(* terminal.                                                               *)
Redirect_NoDup(c) ==
    /\ child[c] = "born"
    /\ child' = [child EXCEPT ![c] = "ready"]
    /\ ends' = ends \ (IF c = "ls" THEN Of(c) ELSE {<<c, Unused(c)>>})
    /\ UNCHANGED <<par, inPipe, left, counted>>

(* The end a child does not use is closed, the other becomes its standard  *)
(* output or input.                                                        *)
Redirect(c) ==
    /\ child[c] = "born"
    /\ child' = [child EXCEPT ![c] = "ready"]
    /\ ends' = ends \ {<<c, Unused(c)>>}
    /\ UNCHANGED <<par, inPipe, left, counted>>

(* dup2() fails before that, or execlp() after it.                         *)
StartFails(c) ==
    /\ child[c] \in {"born", "ready"} /\ Exit(c, "killed")
    /\ UNCHANGED <<par, inPipe, left, counted>>

Exec(c) ==
    /\ child[c] = "ready" /\ child' = [child EXCEPT ![c] = "runs"]
    /\ UNCHANGED <<par, ends, inPipe, left, counted>>

(* ls: a line is written when there is room; with no reader, SIGPIPE.      *)
LsWrites ==
    /\ child["ls"] = "runs" /\ left > 0 /\ Readable /\ inPipe < PipeSize
    /\ inPipe' = (IF <<"ls", "write">> \in ends THEN inPipe + 1 ELSE inPipe)
    /\ left' = left - 1
    /\ UNCHANGED <<par, child, ends, counted>>

LsEnds ==
    /\ child["ls"] = "runs"
    /\ \/ left = 0 /\ Exit("ls", "ended")
       \/ left > 0 /\ ~Readable /\ Exit("ls", "killed")
    /\ UNCHANGED <<par, inPipe, left, counted>>

WcReads ==
    /\ child["wc"] = "runs" /\ inPipe > 0
    /\ inPipe' = inPipe - 1 /\ counted' = counted + 1
    /\ UNCHANGED <<par, child, ends, left>>

(* The end of its input: wc prints the count.                              *)
WcEnds ==
    /\ child["wc"] = "runs" /\ inPipe = 0 /\ ~Writable
    /\ Exit("wc", "ended")
    /\ UNCHANGED <<par, inPipe, left, counted>>

-----------------------------------------------------------------------------
ParentStep == Forks \/ CloseBoth \/ WaitBoth

ChildStep(c) == Redirect(c) \/ Exec(c)

Tools == LsWrites \/ LsEnds \/ WcReads \/ WcEnds

PipeNext ==
    PipeRun \/ ParentStep \/ Tools \/ \E c \in Children : ChildStep(c) \/ StartFails(c)

PipeGoes == ParentStep \/ Tools \/ \E c \in Children : ChildStep(c)

-----------------------------------------------------------------------------
(* The count that wc prints is that of all the lines ls printed: it comes  *)
(* after the end of ls, and short only of what a killed ls did not write   *)
(* (the ends each process closes).                                         *)
CountIsWhole ==
    child["wc"] = "ended" =>
        Gone("ls") /\ counted + left = Lines /\ (child["ls"] = "ended" => left = 0)

(* Both waits of the parent return and neither tool is left behind,        *)
(* whatever fails: no process keeps an end open that another waits to see  *)
(* closed.                                                                 *)
PipelineEnds ==
    []<>(par \in {"off", "ended", "failed"} /\ \A c \in Children : child[c] = "unborn" \/ Gone(c))
=============================================================================
