------------------------------ MODULE McpRuntime ------------------------------
(***************************************************************************)
(* MCPRuntime: the program's main thread and the worker thread that owns   *)
(* the clients of all MCP servers.  The main thread starts the worker,     *)
(* sends it commands through a queue and waits for the future of each; the *)
(* worker takes one command at a time.  Ctrl+C reaches the main thread     *)
(* only.  What the SDK and the servers do is external: a connection, a     *)
(* discovery, a call or the closing of a client may fail, a call may have  *)
(* been performed or not when it fails, and a client may cancel the        *)
(* worker's only task, which no handler of the worker catches.             *)
(***************************************************************************)
EXTENDS Naturals, Sequences, FiniteSets

CONSTANTS
  NServers,       \* the servers of the configuration, numbered in start order
  Calls,          \* the calls of remote tools that are ever made
  MaxInterrupts   \* bound of the model: how often the user presses Ctrl+C

ASSUME ServersAssumption == NServers \in Nat
ASSUME BoundsAssumption == MaxInterrupts \in Nat
ASSUME CallsAssumption ==
  {"none", "idle", "connecting", "unwinding", "ended", "start", "stop"} \cap Calls = {}

VARIABLES
  main,        \* where the main thread is
  worker,      \* where the worker thread is
  queue,       \* commands sent and not yet taken
  future,      \* what became of each command
  open,        \* the servers whose client is entered, in that order
  discovered,  \* how many of them have listed their tools
  closeError,  \* did closing a client raise?
  started, closed, catalog, gateways,  \* fields of MCPRuntime, the registry
  current,     \* the call the main thread made last
  performed,   \* how often each call reached its server
  interrupts,  \* Ctrl+C pressed so far
  cancelled    \* has a client cancelled the worker's task?

service == <<started, closed, catalog, gateways>>
clients == <<open, discovered, closeError>>
events == <<interrupts, cancelled>>
vars == <<main, worker, queue, future, clients, service, current, performed, events>>

Command == {"start", "stop"} \cup Calls

Init ==
  /\ main = "dormant" /\ worker = "none"
  /\ queue = <<>> /\ future = [c \in Command |-> "none"]
  /\ open = <<>> /\ discovered = 0 /\ closeError = FALSE
  /\ started = FALSE /\ closed = FALSE /\ catalog = FALSE /\ gateways = 0
  /\ current = "none" /\ performed = [c \in Calls |-> 0]
  /\ interrupts = 0 /\ cancelled = FALSE

-----------------------------------------------------------------------------
(* The main thread.                                                        *)

\* The loop takes commands until it is closed, whether or not the worker's
\* task still reads them.
LoopOpen == worker \notin {"none", "ended"}

\* Mutated: stop overtakes the commands sent before it.
SubmitUrgently(c) == /\ queue' = IF c = "stop" THEN <<c>> \o queue ELSE Append(queue, c)
                     /\ future' = [future EXCEPT ![c] = "pending"]

Submit(c) == /\ queue' = Append(queue, c)
             /\ future' = [future EXCEPT ![c] = "pending"]

\* What the main thread is waiting for.
Awaited ==
  CASE main = "starting" -> {"start"}
    [] main = "calling" -> {current}
    [] main \in {"failing", "closing"} -> {"stop"}
    [] OTHER -> {}

Resolved == \A c \in Awaited : future[c] # "pending"

Start ==
  /\ main = "dormant"
  /\ worker' = "idle" /\ Submit("start")
  /\ main' = "starting"
  /\ UNCHANGED <<clients, service, current, performed, events>>

\* The answer to start: what the servers listed, or a _StartupFailure.
Discovered ==
  /\ main = "starting" /\ Resolved
  /\ main' = IF future["start"] = "ok" THEN "preflight" ELSE "joining"
  /\ UNCHANGED <<worker, queue, future, clients, service, current, performed, events>>

PreflightOk ==
  /\ main = "preflight"
  /\ gateways' = 2 /\ catalog' = TRUE /\ started' = TRUE
  /\ main' = "serving"
  /\ UNCHANGED <<worker, queue, future, clients, closed, current, performed, events>>

\* Mutated: the gateways are registered before the check.
RegisterFirst ==
  /\ main = "preflight"
  /\ IF LoopOpen THEN Submit("stop") /\ main' = "failing"
                 ELSE UNCHANGED <<queue, future>> /\ main' = "joining"
  /\ gateways' = 2
  /\ UNCHANGED <<worker, clients, started, closed, catalog, current, performed, events>>

\* A name or a schema is refused, or two names collide: the worker is stopped
\* before the failure is raised, unless it has ended by itself.
PreflightFails ==
  /\ main = "preflight"
  /\ IF LoopOpen THEN Submit("stop") /\ main' = "failing"
                 ELSE UNCHANGED <<queue, future>> /\ main' = "joining"
  /\ UNCHANGED <<worker, clients, service, current, performed, events>>

StopAnswered ==
  /\ main \in {"failing", "closing"} /\ Resolved
  /\ main' = "joining"
  /\ UNCHANGED <<worker, queue, future, clients, service, current, performed, events>>

\* Mutated: the thread is not waited for.
Unjoined ==
  /\ main = "joining"
  /\ main' = "over" /\ closed' = TRUE
  /\ UNCHANGED <<worker, queue, future, clients, started, catalog, gateways,
                 current, performed, events>>

Joined ==
  /\ main = "joining" /\ worker \in {"none", "ended"}
  /\ main' = "over" /\ closed' = TRUE
  /\ UNCHANGED <<worker, queue, future, clients, started, catalog, gateways,
                 current, performed, events>>

\* call_tool: on a loop that is closed the call fails at once.
CallTool(c) ==
  /\ main = "serving" /\ future[c] = "none"
  /\ started /\ ~closed
  /\ current' = c
  /\ IF LoopOpen THEN Submit(c) /\ main' = "calling"
                 ELSE future' = [future EXCEPT ![c] = "failed"] /\ UNCHANGED <<queue, main>>
  /\ UNCHANGED <<worker, clients, service, performed, events>>

Returned ==
  /\ main = "calling" /\ Resolved
  /\ main' = "serving"
  /\ UNCHANGED <<worker, queue, future, clients, service, current, performed, events>>

\* close, from finish: the first caller stops the worker if it is alive.
Closing ==
  /\ closed' = TRUE
  /\ IF LoopOpen THEN Submit("stop") /\ main' = "closing"
                 ELSE UNCHANGED <<queue, future>> /\ main' = "joining"
  /\ UNCHANGED <<worker, clients, started, catalog, gateways, current, performed>>

Finish == main = "serving" /\ Closing /\ UNCHANGED events

\* Ctrl+C.  While it starts, the program ends without a close.  While it
\* serves, the task is aborted and the session closes.  While it waits for an
\* answer to stop, it goes on to join the worker, and from there it ends.
Interrupt ==
  /\ interrupts < MaxInterrupts
  /\ interrupts' = interrupts + 1 /\ UNCHANGED cancelled
  /\ \/ /\ main \in {"starting", "preflight", "joining"}
        /\ main' = "killed"
        /\ UNCHANGED <<worker, queue, future, clients, service, current, performed>>
     \/ /\ main \in {"serving", "calling"}
        /\ Closing
     \/ /\ main \in {"failing", "closing"}
        /\ main' = "joining"
        /\ UNCHANGED <<worker, queue, future, clients, service, current, performed>>

-----------------------------------------------------------------------------
(* The worker thread.                                                      *)

\* The process has not ended: a daemon thread ends with it.
Alive == main # "killed"

Take ==
  /\ Alive /\ worker = "idle" /\ queue # <<>>
  /\ queue' = Tail(queue)
  /\ worker' = CASE Head(queue) = "start" -> "connecting"
                 [] Head(queue) = "stop" -> "unwinding"
                 [] OTHER -> Head(queue)
  /\ UNCHANGED <<main, future, clients, service, current, performed, events>>

\* Mutated: one server too many.
ConnectTooMany ==
  /\ Alive /\ worker = "connecting"
  /\ Len(open) = discovered
  /\ open' = Append(open, discovered + 1)
  /\ UNCHANGED <<main, worker, queue, future, discovered, closeError, service,
                 current, performed, events>>

\* The servers are entered in order, each lists its tools before the next.
Connect ==
  /\ Alive /\ worker = "connecting"
  /\ Len(open) = discovered /\ discovered < NServers
  /\ open' = Append(open, discovered + 1)
  /\ UNCHANGED <<main, worker, queue, future, discovered, closeError, service,
                 current, performed, events>>

Discover ==
  /\ Alive /\ worker = "connecting"
  /\ Len(open) = discovered + 1
  /\ discovered' = discovered + 1
  /\ UNCHANGED <<main, worker, queue, future, open, closeError, service,
                 current, performed, events>>

AllDiscovered ==
  /\ Alive /\ worker = "connecting" /\ discovered = NServers
  /\ worker' = "idle" /\ future' = [future EXCEPT !["start"] = "ok"]
  /\ UNCHANGED <<main, queue, clients, service, current, performed, events>>

\* Mutated: nobody is told.
StartFailsSilently ==
  /\ Alive /\ worker = "connecting" /\ discovered < NServers
  /\ worker' = "unwinding"
  /\ UNCHANGED <<main, queue, future, clients, service, current, performed, events>>

\* Mutated: a server that fails is left out of the catalog.
SkipServer ==
  /\ Alive /\ worker = "connecting" /\ discovered < NServers
  /\ worker' = "idle" /\ future' = [future EXCEPT !["start"] = "ok"]
  /\ UNCHANGED <<main, queue, clients, service, current, performed, events>>

\* A connection or a discovery fails: the failure is the answer to start.
StartFails ==
  /\ Alive /\ worker = "connecting" /\ discovered < NServers
  /\ worker' = "unwinding" /\ future' = [future EXCEPT !["start"] = "failed"]
  /\ UNCHANGED <<main, queue, clients, service, current, performed, events>>

\* Mutated: a call that failed is tried again.
PerformAgain(outcome) ==
  /\ Alive /\ worker \in Calls
  /\ performed[worker] < 2
  /\ performed' = [performed EXCEPT ![worker] = @ + 1]
  /\ IF outcome = "ok" THEN worker' = "idle" /\ future' = [future EXCEPT ![worker] = outcome]
                       ELSE UNCHANGED <<worker, future>>
  /\ UNCHANGED <<main, queue, clients, service, current, events>>

\* A call reaches its server and answers, fails there, or times out.
Perform(outcome) ==
  /\ Alive /\ worker \in Calls
  /\ performed' = [performed EXCEPT ![worker] = @ + 1]
  /\ future' = [future EXCEPT ![worker] = outcome]
  /\ worker' = "idle"
  /\ UNCHANGED <<main, queue, clients, service, current, events>>

\* The call fails before it reaches its server.
CallFails ==
  /\ Alive /\ worker \in Calls
  /\ future' = [future EXCEPT ![worker] = "failed"]
  /\ worker' = "idle"
  /\ UNCHANGED <<main, queue, clients, service, current, performed, events>>

\* A client cancels the task: the handlers catch Exception only, and no
\* future is resolved.
Cancel ==
  /\ Alive
  /\ open # <<>> /\ worker \in {"idle", "connecting"} \cup Calls
  /\ worker' = "unwinding" /\ cancelled' = TRUE
  /\ UNCHANGED <<main, queue, future, clients, service, current, performed, interrupts>>

\* The exit stack closes the clients, last entered first.
CloseClient(raises) ==
  /\ Alive /\ worker = "unwinding" /\ open # <<>>
  /\ open' = SubSeq(open, 1, Len(open) - 1)
  /\ closeError' = (closeError \/ raises)
  /\ UNCHANGED <<main, worker, queue, future, discovered, service, current,
                 performed, events>>

\* The supervisor returns: it answers stop, if it took one, and nothing else.
TookStop == future["stop"] = "pending" /\ \A i \in DOMAIN queue : queue[i] # "stop"

WorkerEnds ==
  /\ Alive /\ worker = "unwinding" /\ open = <<>>
  /\ worker' = "ended"
  /\ future' = IF TookStop
               THEN [future EXCEPT !["stop"] = IF closeError THEN "failed" ELSE "ok"]
               ELSE future
  /\ UNCHANGED <<main, queue, clients, service, current, performed, events>>

-----------------------------------------------------------------------------

MainStep == \/ Start \/ Discovered \/ PreflightOk \/ PreflightFails \/ StopAnswered
            \/ Joined \/ (\E c \in Calls : CallTool(c)) \/ Returned \/ Finish

WorkerStep == \/ Take \/ Connect \/ Discover \/ AllDiscovered \/ StartFails
              \/ \E outcome \in {"ok", "failed"} : Perform(outcome)
              \/ CallFails
              \/ \E raises \in BOOLEAN : CloseClient(raises)
              \/ WorkerEnds

\* The program has ended.
Ended == main \in {"over", "killed"} /\ UNCHANGED vars

Next == MainStep \/ WorkerStep \/ Interrupt \/ Cancel \/ Ended

Spec == Init /\ [][Next]_vars

\* Both threads are scheduled; a request to a server ends, at the latest by
\* the timeout of 120 seconds, and so does the closing of a client.  The user
\* need not press Ctrl+C, nor does a client have to cancel.
FairSpec == Spec /\ WF_vars(MainStep) /\ WF_vars(WorkerStep)
-----------------------------------------------------------------------------
(* What must hold.                                                         *)

Waiting == main \in {"starting", "calling", "failing", "closing", "joining"}

TypeOK ==
  /\ main \in {"dormant", "starting", "preflight", "serving", "calling",
               "failing", "closing", "joining", "over", "killed"}
  /\ worker \in {"none", "idle", "connecting", "unwinding", "ended"} \cup Calls
  /\ queue \in Seq(Command)
  /\ future \in [Command -> {"none", "pending", "ok", "failed"}]
  /\ open \in Seq(1..NServers) /\ discovered \in 0..NServers
  /\ closeError \in BOOLEAN /\ started \in BOOLEAN /\ closed \in BOOLEAN
  /\ catalog \in BOOLEAN /\ gateways \in {0, 2}
  /\ current \in {"none"} \cup Calls /\ performed \in [Calls -> Nat]
  /\ interrupts \in 0..MaxInterrupts /\ cancelled \in BOOLEAN

\* The start is all or nothing: whoever sees the runtime started finds a
\* catalog of every server's tools and both gateways, and a start that failed
\* has left none of it (docs/mcp-client-spec.md, MCPV2-LIFE-002 and -004).
StartupAtomic ==
  /\ TypeOK
  /\ started => catalog /\ gateways = 2 /\ discovered = NServers
  /\ ~started => ~catalog /\ gateways = 0

\* Once the program is through with the runtime, after a failed start as after
\* close and even if the user interrupted either, the worker has ended and no
\* client is open; and the worker never ends before it has closed its clients.
NothingLeftBehind ==
  /\ main = "over" => worker \in {"none", "ended"} /\ closed
  /\ worker = "ended" => open = <<>>

\* A remote call is performed at most once, also when it fails, times out, or
\* its caller was interrupted (MCPV2-ERR-002: no retry), and one that was
\* answered well has been performed.
AtMostOnce ==
  \A c \in Calls :
    /\ performed[c] <= 1
    /\ future[c] = "ok" => performed[c] = 1

\* The commands are taken in the order in which they were sent, each once:
\* when stop has been taken nothing is left behind it, and no call that the
\* user interrupted reaches its server after the close was answered.
StopIsLast ==
  /\ \A i \in DOMAIN queue : queue[i] = "stop" => i = Len(queue)
  /\ future["stop"] \in {"ok", "failed"} => queue = <<>> /\ worker = "ended"

\* What the user interrupted or what failed is neither repeated nor performed
\* after the end.
CallsAreOrderedOnce == AtMostOnce /\ StopIsLast

\* The main thread never waits for ever: whatever the servers answer, and
\* wherever the user interrupts, every start, call and close returns, as long
\* as no client cancels the worker's task.
EveryWaitEnds == Waiting ~> ~Waiting \/ cancelled

=============================================================================
