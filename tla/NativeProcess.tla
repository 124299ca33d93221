--------------------------- MODULE NativeProcess ---------------------------
(***************************************************************************)
(* protocol/native_process.cpp: a C++ object that owns one child process   *)
(* and exchanges length-prefixed frames with it over two pipes.  Threads   *)
(* share the object; a request holds its mutex while it writes its frame   *)
(* piece by piece, reads the response frame piece by piece, or gives up    *)
(* (deadline, broken pipe, end of file, oversized response) and stops the  *)
(* child.                                                                  *)
(*                                                                         *)
(* A frame is FrameSize pieces marked with the request they belong to, and *)
(* a pipe holds PipeSize pieces.  The child is lktrs-native --stdio        *)
(* (cmd/lktrs-native/main.go): it reads a whole frame, handles it, writes  *)
(* the response, and may die at any time.  One request of one thread is    *)
(* identified by the thread and a number.                                  *)
(***************************************************************************)
EXTENDS Naturals, Sequences, FiniteSets

CONSTANTS
    Threads,      \* threads sharing the object
    MaxRequests,  \* requests per thread
    FrameSize,    \* pieces a frame is written and read in
    PipeSize,     \* pieces a pipe holds
    AutoReap,     \* whether the host reaps its children itself (SIGCHLD ignored)
    None          \* no thread

ASSUME NativeProcessAssumption ==
    /\ MaxRequests \in Nat \ {0}
    /\ FrameSize \in Nat \ {0}
    /\ PipeSize \in Nat \ {0}
    /\ AutoReap \in BOOLEAN
    /\ None \notin Threads

VARIABLES
    pc,         \* where each thread is
    count,      \* requests each thread has made
    mutex,      \* holder of request_mutex
    pid,        \* whether pid is positive
    destroyed,  \* whether the destructor has run
    done,       \* pieces of the current frame written or read so far
    input,      \* the pipe to the child
    output,     \* the pipe from the child
    child,      \* the child: running, a zombie, or gone from the process table
    killed,     \* SIGKILL has been sent
    loop,       \* the child's place in its loop: mode, request, pieces
    handled,    \* handled[r]: how often the child handled request r
    answer      \* answer[r]: how request r ended

vars == <<pc, count, mutex, pid, destroyed, done, input, output, child, killed,
          loop, handled, answer>>
childVars == <<child, killed, loop, handled>>

Requests == Threads \X (1 .. MaxRequests)
Mine(t) == <<t, count[t]>>
Piece(r, n) == <<r, n>>
Reading == [mode |-> "reading", req |-> None, n |-> 0]

Init ==
    /\ pc = [t \in Threads |-> "idle"]
    /\ count = [t \in Threads |-> 0]
    /\ mutex = None
    /\ pid = TRUE
    /\ destroyed = FALSE
    /\ done = 0
    /\ input = <<>>
    /\ output = <<>>
    /\ child = "running"
    /\ killed = FALSE
    /\ loop = Reading
    /\ handled = [r \in Requests |-> 0]
    /\ answer = [r \in Requests |-> "none"]

-----------------------------------------------------------------------------
(* request() *)

Goto(t, l) == pc' = [pc EXCEPT ![t] = l]

Request(t) ==
    /\ pc[t] = "idle"
    /\ ~destroyed
    /\ count[t] < MaxRequests
    /\ count' = [count EXCEPT ![t] = @ + 1]
    /\ Goto(t, "lock")
    /\ UNCHANGED <<mutex, pid, destroyed, done, input, output, childVars, answer>>

\* Leave request() with the lock released: the answer says how.
Return(t, how) ==
    /\ Goto(t, "idle")
    /\ mutex' = None
    /\ answer' = [answer EXCEPT ![Mine(t)] = how]

\* The frame is too large or the timeout out of range: refused before the
\* child is touched.
Reject(t) ==
    /\ pc[t] = "lock"
    /\ mutex = None
    /\ Return(t, "failed")
    /\ UNCHANGED <<count, pid, destroyed, done, input, output, childVars>>

\* Mutant of Lock: requests are not serialised.
LockShared(t) ==
    /\ pc[t] = "lock"
    /\ IF pid
       THEN /\ mutex' = t
            /\ done' = 0
            /\ Goto(t, "write")
            /\ UNCHANGED answer
       ELSE /\ Return(t, "failed")
            /\ UNCHANGED done
    /\ UNCHANGED <<count, pid, destroyed, input, output, childVars>>

Lock(t) ==
    /\ pc[t] = "lock"
    /\ mutex = None
    /\ IF pid
       THEN /\ mutex' = t
            /\ done' = 0
            /\ Goto(t, "write")
            /\ UNCHANGED answer
       ELSE /\ Return(t, "failed")
            /\ UNCHANGED done
    /\ UNCHANGED <<count, pid, destroyed, input, output, childVars>>

\* Mutant of Write: the loop runs once too often.
WriteOneMore(t) ==
    /\ pc[t] = "write"
    /\ child = "running"
    /\ Len(input) < PipeSize
    /\ input' = Append(input, Piece(Mine(t), done + 1))
    /\ IF done = FrameSize
       THEN done' = 0 /\ Goto(t, "read")
       ELSE done' = done + 1 /\ UNCHANGED pc
    /\ UNCHANGED <<count, mutex, pid, destroyed, output, childVars, answer>>

\* write_all: header and payload; after the last piece the thread reads.
Write(t) ==
    /\ pc[t] = "write"
    /\ child = "running"
    /\ Len(input) < PipeSize
    /\ input' = Append(input, Piece(Mine(t), done + 1))
    /\ IF done + 1 = FrameSize
       THEN done' = 0 /\ Goto(t, "read")
       ELSE done' = done + 1 /\ UNCHANGED pc
    /\ UNCHANGED <<count, mutex, pid, destroyed, output, childVars, answer>>

\* read_all: what the child wrote can be read even after its death.
Read(t) ==
    /\ pc[t] = "read"
    /\ output # <<>>
    /\ output' = Tail(output)
    /\ IF done + 1 = FrameSize
       THEN /\ Return(t, IF Head(output) = Piece(Mine(t), FrameSize)
                         THEN "own" ELSE "foreign")
            /\ done' = 0
       ELSE /\ done' = done + 1
            /\ UNCHANGED <<pc, mutex, answer>>
    /\ UNCHANGED <<count, pid, destroyed, input, childVars>>

\* Mutant of GiveUp: the exception leaves request() without stopping the child.
GiveUpRunning(t) ==
    /\ pc[t] \in {"write", "read"}
    /\ Return(t, "failed")
    /\ UNCHANGED <<count, pid, destroyed, done, input, output, childVars>>

\* The deadline passes, the pipe breaks or ends, the response is oversized: any
\* exception inside the try block.
GiveUp(t) ==
    /\ pc[t] \in {"write", "read"}
    /\ Goto(t, "stop")
    /\ UNCHANGED <<count, mutex, pid, destroyed, done, input, output, childVars,
                   answer>>

-----------------------------------------------------------------------------
(* stop(), from request() with the mutex held or from the destructor *)

\* The end of stop(): request() rethrows.
Stopped(t) ==
    /\ pid' = FALSE
    /\ Goto(t, "idle")
    /\ IF mutex = t
       THEN /\ mutex' = None
            /\ answer' = [answer EXCEPT ![Mine(t)] = "failed"]
       ELSE UNCHANGED <<mutex, answer>>

\* The destructor; nobody may be in a request.
Destroy(t) ==
    /\ ~destroyed
    /\ \A u \in Threads : pc[u] = "idle"
    /\ destroyed' = TRUE
    /\ Goto(t, "stop")
    /\ UNCHANGED <<count, mutex, pid, done, input, output, childVars, answer>>

\* Mutant of Poll: a child that is still running is left to itself.
PollOnly(t) ==
    /\ pc[t] = "stop"
    /\ output' = <<>>
    /\ Stopped(t)
    /\ child' = IF pid /\ child = "zombie" THEN "gone" ELSE child
    /\ UNCHANGED <<count, destroyed, done, input, killed, loop, handled>>

\* Both pipes are closed: what was written can still be read by the child, what
\* it writes can no longer.  waitpid(WNOHANG) reaps a dead child (or finds none).
Poll(t) ==
    /\ pc[t] = "stop"
    /\ output' = <<>>
    /\ IF pid /\ child = "running"
       THEN /\ Goto(t, "kill")
            /\ UNCHANGED <<mutex, pid, child, answer>>
       ELSE /\ Stopped(t)
            /\ child' = IF pid THEN "gone" ELSE child
    /\ UNCHANGED <<count, destroyed, done, input, killed, loop, handled>>

\* Mutant of Kill: the signal is not sent.
KillForgotten(t) ==
    /\ pc[t] = "kill"
    /\ Goto(t, "wait")
    /\ UNCHANGED <<count, mutex, pid, destroyed, done, input, output, child,
                   killed, loop, handled, answer>>

Kill(t) ==
    /\ pc[t] = "kill"
    /\ killed' = TRUE
    /\ Goto(t, "wait")
    /\ UNCHANGED <<count, mutex, pid, destroyed, done, input, output, child,
                   loop, handled, answer>>

\* waitpid without WNOHANG: returns when the child is a zombie or gone.
Wait(t) ==
    /\ pc[t] = "wait"
    /\ child # "running"
    /\ child' = "gone"
    /\ Stopped(t)
    /\ UNCHANGED <<count, destroyed, done, input, output, killed, loop, handled>>

-----------------------------------------------------------------------------
(* The child: serve() of cmd/lktrs-native/main.go *)

\* A piece of the request frame arrives.
ChildRead ==
    /\ child = "running"
    /\ loop.mode = "reading"
    /\ input # <<>>
    /\ input' = Tail(input)
    /\ LET r == IF loop.n = 0 THEN Head(input)[1] ELSE loop.req IN
          loop' = [mode |-> IF loop.n + 1 = FrameSize THEN "handling" ELSE "reading",
                   req |-> r, n |-> loop.n + 1]
    /\ UNCHANGED <<pc, count, mutex, pid, destroyed, done, output, child, killed,
                   handled, answer>>

\* service.Handle
ChildHandle ==
    /\ child = "running"
    /\ loop.mode = "handling"
    /\ loop' = [mode |-> "writing", req |-> loop.req, n |-> 0]
    /\ handled' = [handled EXCEPT ![loop.req] = @ + 1]
    /\ UNCHANGED <<pc, count, mutex, pid, destroyed, done, input, output, child,
                   killed, answer>>

\* A piece of the response leaves, while somebody holds the pipe's other end.
ChildWrite ==
    /\ child = "running"
    /\ loop.mode = "writing"
    /\ pid /\ \A t \in Threads : pc[t] \notin {"kill", "wait"}
    /\ Len(output) < PipeSize
    /\ output' = Append(output, Piece(loop.req, loop.n + 1))
    /\ loop' = IF loop.n + 1 = FrameSize
               THEN Reading
               ELSE [loop EXCEPT !.n = @ + 1]
    /\ UNCHANGED <<pc, count, mutex, pid, destroyed, done, input, child, killed,
                   handled, answer>>

\* It exits, crashes or is killed, by us or by its resource limits.
ChildExit ==
    /\ child = "running"
    /\ child' = "zombie"
    /\ UNCHANGED <<pc, count, mutex, pid, destroyed, done, input, output, killed,
                   loop, handled, answer>>

\* Where SIGCHLD is ignored the kernel removes a dead child at once.
HostReaps ==
    /\ AutoReap
    /\ child = "zombie"
    /\ child' = "gone"
    /\ UNCHANGED <<pc, count, mutex, pid, destroyed, done, input, output, killed,
                   loop, handled, answer>>

-----------------------------------------------------------------------------

Step(t) ==
    \/ Reject(t) \/ Lock(t) \/ Write(t) \/ Read(t) \/ GiveUp(t)
    \/ Poll(t) \/ Kill(t) \/ Wait(t)

Next ==
    \/ \E t \in Threads : Step(t) \/ Request(t) \/ Destroy(t)
    \/ ChildRead \/ ChildHandle \/ ChildWrite \/ ChildExit \/ HostReaps

Spec == Init /\ [][Next]_vars

\* Threads are scheduled (a deadline always passes in the end), and the kernel
\* carries out a SIGKILL.  Nothing is asked of a child that was not killed.
FairSpec ==
    /\ Spec
    /\ \A t \in Threads : WF_vars(Step(t))
    /\ WF_vars(killed /\ ChildExit)

-----------------------------------------------------------------------------
(* Properties *)

\* Type invariant of the object, the pipes and the child.
TypeOK ==
    /\ pc \in [Threads -> {"idle", "lock", "write", "read", "stop", "kill", "wait"}]
    /\ count \in [Threads -> 0 .. MaxRequests]
    /\ mutex \in Threads \cup {None}
    /\ {pid, destroyed, killed} \subseteq BOOLEAN
    /\ done \in 0 .. FrameSize
    /\ {input, output} \subseteq Seq(Requests \X (1 .. FrameSize))
    /\ child \in {"running", "zombie", "gone"}
    /\ loop \in [mode : {"reading", "handling", "writing"},
                 req : Requests \cup {None}, n : 0 .. FrameSize]
    /\ handled \in [Requests -> Nat]
    /\ answer \in [Requests -> {"none", "own", "foreign", "failed"}]

\* A request that returns a response returns its own, whatever timed out or
\* failed before it on the same stream ("consume each other's response",
\* native_process.cpp:268; stop() on every exception).
OwnAnswer == \A r \in Requests : answer[r] # "foreign"

\* The child handles a request at most once, and has handled it exactly once
\* when its response is returned; a failed request may have gone either way.
HandledOnce ==
    \A r \in Requests :
        /\ handled[r] <= 1
        /\ answer[r] = "own" => handled[r] = 1

\* Once the object has given up its child, after a failed request or in the
\* destructor, the child is dead and reaped: no zombie, no orphan (stop()).
ChildReaped ==
    /\ ~pid => child = "gone"
    /\ destroyed /\ (\A t \in Threads : pc[t] = "idle") => ~pid

\* Finitely many requests all return, and so does the destructor, even if the
\* child never answers again: deadlines and SIGKILL see to it.
AllReturn ==
    \A t \in Threads : pc[t] # "idle" ~> pc[t] = "idle"

=============================================================================
