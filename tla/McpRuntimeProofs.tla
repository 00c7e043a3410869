--------------------------- MODULE McpRuntimeProofs ---------------------------
(***************************************************************************)
(* The safety of the MCP runtime for every number of servers, every set of *)
(* calls and any number of interrupts.                                     *)
(***************************************************************************)
EXTENDS McpRuntime, TLAPS

\* Who is in the queue waits for its answer, each once, and stop is the last;
\* what the worker does has left the queue.
QueueInv ==
  /\ \A i \in 1..Len(queue) : future[queue[i]] = "pending"
  /\ \A i, j \in 1..Len(queue) : queue[i] = queue[j] => i = j
  /\ \A i \in 1..Len(queue) : queue[i] = "stop" => i = Len(queue)
  /\ future["stop"] = "pending" /\ (\A i \in 1..Len(queue) : queue[i] # "stop") => queue = <<>>
  /\ worker \in Calls => future[worker] = "pending" /\ \A i \in 1..Len(queue) : queue[i] # worker
  /\ worker = "connecting" =>
       future["start"] = "pending" /\ \A i \in 1..Len(queue) : queue[i] # "start"

\* What the place of the main thread says of start and stop.
FlowInv ==
  /\ worker = "none" => queue = <<>> /\ open = <<>> /\ discovered = 0 /\ main = "dormant"
  /\ main = "dormant" => worker = "none" /\ \A c \in Command : future[c] = "none"
  /\ main \in {"starting", "preflight", "serving", "calling"} => future["stop"] = "none"
  /\ main \in {"preflight", "serving", "calling"} => future["start"] = "ok"
  /\ main = "calling" => current \in Calls
  /\ future["start"] = "ok" => discovered = NServers
  /\ \A c \in Calls : future[c] # "none" => future["start"] = "ok"
  /\ future["stop"] \in {"ok", "failed"} => queue = <<>> /\ worker = "ended"

\* The clients, and the calls that have reached a server.
ClientInv ==
  /\ worker = "idle" /\ future["start"] = "pending" => open = <<>> /\ discovered = 0
  /\ worker = "connecting" =>
       Len(open) = discovered \/ (Len(open) = discovered + 1 /\ discovered < NServers)
  /\ worker = "ended" => open = <<>>
  /\ main = "over" => worker \in {"none", "ended"} /\ closed
  /\ \A c \in Calls : /\ performed[c] <= 1
                      /\ future[c] \in {"none", "pending"} => performed[c] = 0
                      /\ future[c] = "ok" => performed[c] = 1

Inv == TypeOK /\ StartupAtomic /\ QueueInv /\ FlowInv /\ ClientInv

-----------------------------------------------------------------------------
(* The queue.                                                              *)

\* A command that was never sent goes to the end of the queue.
LEMMA SubmitKeepsQueue ==
  ASSUME TypeOK, QueueInv, NEW c \in Command, future[c] = "none", future["stop"] = "none",
         Submit(c), worker' = worker
  PROVE  QueueInv'
<1>1. queue' = Append(queue, c) /\ future' = [future EXCEPT ![c] = "pending"]
  BY DEF Submit
<1>2. Len(queue) \in Nat /\ Len(queue') = Len(queue) + 1
  BY <1>1 DEF TypeOK
<1>3. \A i \in 1..Len(queue) : queue'[i] = queue[i] /\ queue[i] \in Command /\ queue[i] # c
  BY <1>1, <1>2 DEF TypeOK, QueueInv
<1>4. queue'[Len(queue) + 1] = c
  BY <1>1, <1>2 DEF TypeOK
<1>5. \A i \in 1..Len(queue') : i = Len(queue) + 1 \/ i \in 1..Len(queue)
  BY <1>2
<1>6. \A d \in Command : future'[d] = IF d = c THEN "pending" ELSE future[d]
  BY <1>1 DEF TypeOK
<1>7. \A i \in 1..Len(queue) : queue[i] # "stop"
  BY DEF QueueInv
<1>8. \A i \in 1..Len(queue') : future'[queue'[i]] = "pending"
  BY <1>3, <1>4, <1>5, <1>6 DEF QueueInv
<1>9. \A i, j \in 1..Len(queue') : queue'[i] = queue'[j] => i = j
  BY <1>3, <1>4, <1>5 DEF QueueInv
<1>10. \A i \in 1..Len(queue') : queue'[i] = "stop" => i = Len(queue')
  BY <1>2, <1>3, <1>4, <1>5, <1>7
<1>11. future'["stop"] = "pending" => \E i \in 1..Len(queue') : queue'[i] = "stop"
  BY <1>2, <1>4, <1>6 DEF Command
<1>12. worker \in Calls => future'[worker] = "pending" /\ \A i \in 1..Len(queue') : queue'[i] # worker
  <2>1. SUFFICES ASSUME worker \in Calls
                 PROVE  future'[worker] = "pending" /\ \A i \in 1..Len(queue') : queue'[i] # worker
    OBVIOUS
  <2>2. future[worker] = "pending" /\ \A i \in 1..Len(queue) : queue[i] # worker
    BY <2>1 DEF QueueInv
  <2>3. worker # c /\ worker \in Command
    BY <2>1, <2>2 DEF Command
  <2> QED BY <1>3, <1>4, <1>5, <1>6, <2>2, <2>3
<1>13. worker = "connecting" =>
         future'["start"] = "pending" /\ \A i \in 1..Len(queue') : queue'[i] # "start"
  BY <1>3, <1>4, <1>5, <1>6 DEF QueueInv, Command
<1> QED BY <1>8, <1>9, <1>10, <1>11, <1>12, <1>13 DEF QueueInv

\* A command other than stop that is not in the queue gets its answer.
LEMMA AnswerKeepsQueue ==
  ASSUME TypeOK, QueueInv, NEW c \in Command \ {"stop"}, NEW answer \in {"ok", "failed"},
         \A i \in 1..Len(queue) : queue[i] # c,
         future' = [future EXCEPT ![c] = answer], queue' = queue,
         worker' \in {"idle", "unwinding"} \/ (worker' = worker /\ future[c] = "none")
  PROVE  QueueInv'
<1>1. \A i \in 1..Len(queue) : queue[i] \in Command
  BY DEF TypeOK
<1>2. \A d \in Command : future'[d] = IF d = c THEN answer ELSE future[d]
  BY DEF TypeOK
<1>3. worker' \in Calls \cup {"connecting"} => worker' = worker /\ future[c] = "none"
  BY CallsAssumption
<1>4. \A i \in 1..Len(queue') : future'[queue'[i]] = "pending"
  BY <1>1, <1>2 DEF QueueInv
<1>5. future'["stop"] = future["stop"]
  BY <1>2 DEF Command
<1>6. worker' \in Calls => future'[worker'] = "pending" /\ \A i \in 1..Len(queue') : queue'[i] # worker'
  BY <1>2, <1>3 DEF QueueInv, Command
<1>7. worker' = "connecting" =>
        future'["start"] = "pending" /\ \A i \in 1..Len(queue') : queue'[i] # "start"
  BY <1>2, <1>3 DEF QueueInv, Command
<1> QED BY <1>4, <1>5, <1>6, <1>7 DEF QueueInv

\* The worker takes the head of the queue.
LEMMA TakeKeepsQueue ==
  ASSUME TypeOK, QueueInv, Take
  PROVE  QueueInv'
<1>1. queue \in Seq(Command) /\ queue # <<>> /\ queue' = Tail(queue) /\ future' = future
  BY DEF TypeOK, Take
<1>2. Len(queue) \in Nat /\ Len(queue) >= 1 /\ Len(queue') = Len(queue) - 1
  BY <1>1
<1>3. \A i \in 1..Len(queue') : i + 1 \in 1..Len(queue) /\ queue'[i] = queue[i + 1]
  BY <1>1, <1>2
<1>4. Head(queue) = queue[1] /\ queue[1] \in Command /\ 1 \in 1..Len(queue)
  BY <1>1, <1>2
<1>5. \A i \in 1..Len(queue') : queue'[i] # queue[1]
  BY <1>2, <1>3, <1>4 DEF QueueInv
<1>6. future[queue[1]] = "pending"
  BY <1>4 DEF QueueInv
<1>7. \A i \in 1..Len(queue') : future'[queue'[i]] = "pending"
  BY <1>1, <1>3 DEF QueueInv
<1>8. \A i, j \in 1..Len(queue') : queue'[i] = queue'[j] => i = j
  <2>1. SUFFICES ASSUME NEW i \in 1..Len(queue'), NEW j \in 1..Len(queue'), queue'[i] = queue'[j]
                 PROVE  i = j
    OBVIOUS
  <2>2. queue[i + 1] = queue[j + 1] /\ i + 1 \in 1..Len(queue) /\ j + 1 \in 1..Len(queue)
    BY <1>3, <2>1
  <2>3. i + 1 = j + 1
    BY <2>2 DEF QueueInv
  <2> QED BY <1>2, <2>3
<1>9. \A i \in 1..Len(queue') : queue'[i] = "stop" => i = Len(queue')
  <2>1. SUFFICES ASSUME NEW i \in 1..Len(queue'), queue'[i] = "stop" PROVE i = Len(queue')
    OBVIOUS
  <2>2. i + 1 = Len(queue)
    BY <1>3, <2>1 DEF QueueInv
  <2> QED BY <1>2, <2>2
<1>10. future'["stop"] = "pending" /\ (\A i \in 1..Len(queue') : queue'[i] # "stop") => queue' = <<>>
  <2>1. SUFFICES ASSUME future["stop"] = "pending", \A i \in 1..Len(queue') : queue'[i] # "stop"
                 PROVE  Len(queue') = 0
    BY <1>1
  <2>2. PICK k \in 1..Len(queue) : queue[k] = "stop"
    BY <1>1, <2>1 DEF QueueInv
  <2>3. k = Len(queue)
    BY <2>2 DEF QueueInv
  <2>4. CASE k = 1
    BY <1>2, <2>3, <2>4
  <2>5. CASE k # 1
    <3>1. k - 1 \in 1..Len(queue') /\ (k - 1) + 1 = k
      BY <1>2, <2>2, <2>5
    <3> QED BY <1>3, <2>1, <2>2, <3>1
  <2> QED BY <2>4, <2>5
<1>11. worker' \in Calls => worker' = queue[1]
  BY <1>4, CallsAssumption DEF Take, Command
<1>12. worker' = "connecting" => queue[1] = "start"
  BY <1>4, CallsAssumption DEF Take, Command
<1> QED BY <1>1, <1>5, <1>6, <1>7, <1>8, <1>9, <1>10, <1>11, <1>12 DEF QueueInv

-----------------------------------------------------------------------------
(* Every step keeps the invariant.                                         *)

LEMMA SubmitType ==
  ASSUME TypeOK, NEW c \in Command, Submit(c)
  PROVE  queue' \in Seq(Command) /\ future' \in [Command -> {"none", "pending", "ok", "failed"}]
BY DEF TypeOK, Submit

LEMMA FrontType ==
  ASSUME NEW S, NEW s \in Seq(S), s # <<>>
  PROVE  SubSeq(s, 1, Len(s) - 1) \in Seq(S)
<1>1. Len(s) \in Nat /\ Len(s) >= 1
  OBVIOUS
<1>2. \A i \in 1..(Len(s) - 1) : s[i] \in S
  BY <1>1
<1> QED BY <1>1, <1>2

\* Types.
LEMMA TypeStep ==
  ASSUME Inv, [Next]_vars
  PROVE  TypeOK'
<1> USE DEF Inv
<1>1. CASE Start
  BY <1>1 DEF Start, TypeOK, Submit, Command, service, clients, events
<1>2. CASE Discovered
  BY <1>2 DEF Discovered, TypeOK, service, clients, events
<1>3. CASE PreflightOk
  BY <1>3 DEF PreflightOk, TypeOK, clients, events
<1>4. CASE PreflightFails
  <2>1. Submit("stop") => queue' \in Seq(Command) /\ future' \in [Command -> {"none", "pending", "ok", "failed"}]
    BY SubmitType DEF Command
  <2> QED BY <1>4, <2>1 DEF PreflightFails, TypeOK, Command, service, clients, events
<1>5. CASE StopAnswered
  BY <1>5 DEF StopAnswered, TypeOK, service, clients, events
<1>6. CASE Joined
  BY <1>6 DEF Joined, TypeOK, clients, events
<1>7. ASSUME NEW c \in Calls, CallTool(c) PROVE TypeOK'
  <2>1. Submit(c) => queue' \in Seq(Command) /\ future' \in [Command -> {"none", "pending", "ok", "failed"}]
    BY SubmitType DEF Command
  <2> QED BY <1>7, <2>1 DEF CallTool, TypeOK, Command, service, clients, events
<1>8. CASE Returned
  BY <1>8 DEF Returned, TypeOK, service, clients, events
<1>9. CASE Finish
  <2>1. Submit("stop") => queue' \in Seq(Command) /\ future' \in [Command -> {"none", "pending", "ok", "failed"}]
    BY SubmitType DEF Command
  <2> QED BY <1>9, <2>1 DEF Finish, TypeOK, Closing, Command, clients, events
<1>10. CASE Take
  <2>1. Len(queue) >= 1 /\ Head(queue) \in Command /\ Tail(queue) \in Seq(Command)
    BY <1>10 DEF Take, TypeOK
  <2> QED BY <1>10, <2>1 DEF Take, TypeOK, Command, service, clients, events
<1>11. CASE Connect
  <2>1. discovered + 1 \in 1..NServers
    BY <1>11, ServersAssumption DEF Connect, TypeOK
  <2> QED BY <1>11, <2>1 DEF Connect, TypeOK, service, events
<1>12. CASE Discover
  <2>1. discovered + 1 \in 0..NServers
    BY <1>12, ServersAssumption DEF Discover, TypeOK, ClientInv
  <2> QED BY <1>12, <2>1 DEF Discover, TypeOK, service, events
<1>13. CASE AllDiscovered
  BY <1>13 DEF AllDiscovered, TypeOK, Command, service, clients, events
<1>14. CASE StartFails
  BY <1>14 DEF StartFails, TypeOK, Command, service, clients, events
<1>15. ASSUME NEW outcome \in {"ok", "failed"}, Perform(outcome) PROVE TypeOK'
  BY <1>15 DEF Perform, TypeOK, Command, service, clients, events
<1>16. CASE CallFails
  BY <1>16 DEF CallFails, TypeOK, Command, service, clients, events
<1>17. ASSUME NEW raises \in BOOLEAN, CloseClient(raises) PROVE TypeOK'
  <2>1. SubSeq(open, 1, Len(open) - 1) \in Seq(1..NServers)
    BY <1>17, FrontType DEF CloseClient, TypeOK
  <2> QED BY <1>17, <2>1 DEF CloseClient, TypeOK, service, events
<1>18. CASE WorkerEnds
  BY <1>18 DEF WorkerEnds, TypeOK, service, clients, events
<1>19. CASE Interrupt
  <2>1. interrupts + 1 \in 0..MaxInterrupts
    BY <1>19, BoundsAssumption DEF Interrupt, TypeOK
  <2>2. Submit("stop") => queue' \in Seq(Command) /\ future' \in [Command -> {"none", "pending", "ok", "failed"}]
    BY SubmitType DEF Command
  <2> QED BY <1>19, <2>1, <2>2 DEF Interrupt, TypeOK, Closing, Command, service, clients
<1>20. CASE Cancel
  BY <1>20 DEF Cancel, TypeOK, service, clients
<1>21. CASE Ended
  BY <1>21 DEF Ended, TypeOK, service, clients, events, vars
<1>22. CASE UNCHANGED vars
  BY <1>22 DEF TypeOK, vars, service, clients, events
<1> QED
  BY <1>1, <1>2, <1>3, <1>4, <1>5, <1>6, <1>7, <1>8, <1>9, <1>10, <1>11, <1>12, <1>13,
     <1>14, <1>15, <1>16, <1>17, <1>18, <1>19, <1>20, <1>21, <1>22 DEF Next, MainStep,
     WorkerStep

\* The start is all or nothing.
LEMMA StartupStep ==
  ASSUME Inv, [Next]_vars
  PROVE  StartupAtomic'
<1> USE DEF Inv
<1>1. CASE Start
  BY <1>1, TypeStep DEF Start, StartupAtomic, FlowInv, service, clients, events
<1>2. CASE Discovered
  BY <1>2, TypeStep DEF Discovered, StartupAtomic, FlowInv, service, clients, events
<1>3. CASE PreflightOk
  BY <1>3, TypeStep DEF PreflightOk, StartupAtomic, FlowInv, clients, events
<1>4. CASE PreflightFails
  BY <1>4, TypeStep DEF PreflightFails, StartupAtomic, FlowInv, service, clients, events
<1>5. CASE StopAnswered
  BY <1>5, TypeStep DEF StopAnswered, StartupAtomic, FlowInv, service, clients, events
<1>6. CASE Joined
  BY <1>6, TypeStep DEF Joined, StartupAtomic, FlowInv, clients, events
<1>7. ASSUME NEW c \in Calls, CallTool(c) PROVE StartupAtomic'
  BY <1>7, TypeStep DEF CallTool, StartupAtomic, FlowInv, service, clients, events
<1>8. CASE Returned
  BY <1>8, TypeStep DEF Returned, StartupAtomic, FlowInv, service, clients, events
<1>9. CASE Finish
  BY <1>9, TypeStep DEF Finish, StartupAtomic, FlowInv, Closing, clients, events
<1>10. CASE Take
  BY <1>10, TypeStep DEF Take, StartupAtomic, FlowInv, service, clients, events
<1>11. CASE Connect
  BY <1>11, TypeStep DEF Connect, StartupAtomic, FlowInv, service, events
<1>12. CASE Discover
  BY <1>12, TypeStep, ServersAssumption
     DEF Discover, StartupAtomic, ClientInv, TypeOK, service, events
<1>13. CASE AllDiscovered
  BY <1>13, TypeStep DEF AllDiscovered, StartupAtomic, FlowInv, service, clients, events
<1>14. CASE StartFails
  BY <1>14, TypeStep DEF StartFails, StartupAtomic, FlowInv, service, clients, events
<1>15. ASSUME NEW outcome \in {"ok", "failed"}, Perform(outcome) PROVE StartupAtomic'
  BY <1>15, TypeStep DEF Perform, StartupAtomic, FlowInv, service, clients, events
<1>16. CASE CallFails
  BY <1>16, TypeStep DEF CallFails, StartupAtomic, FlowInv, service, clients, events
<1>17. ASSUME NEW raises \in BOOLEAN, CloseClient(raises) PROVE StartupAtomic'
  BY <1>17, TypeStep DEF CloseClient, StartupAtomic, FlowInv, service, events
<1>18. CASE WorkerEnds
  BY <1>18, TypeStep DEF WorkerEnds, StartupAtomic, FlowInv, service, clients, events
<1>19. CASE Interrupt
  BY <1>19, TypeStep DEF Interrupt, StartupAtomic, FlowInv, Closing, service, clients
<1>20. CASE Cancel
  BY <1>20, TypeStep DEF Cancel, StartupAtomic, FlowInv, service, clients
<1>21. CASE Ended
  BY <1>21, TypeStep DEF Ended, StartupAtomic, FlowInv, service, clients, events, vars
<1>22. CASE UNCHANGED vars
  BY <1>22 DEF StartupAtomic, vars, service, clients, events, TypeOK
<1> QED
  BY <1>1, <1>2, <1>3, <1>4, <1>5, <1>6, <1>7, <1>8, <1>9, <1>10, <1>11, <1>12, <1>13,
     <1>14, <1>15, <1>16, <1>17, <1>18, <1>19, <1>20, <1>21, <1>22 DEF Next, MainStep,
     WorkerStep

\* The order of the commands.
LEMMA QueueStep ==
  ASSUME Inv, [Next]_vars
  PROVE  QueueInv'
<1> USE DEF Inv
<1>1. CASE Start
  <2>1. queue = <<>> /\ \A c \in Command : future[c] = "none"
    BY <1>1 DEF Start, FlowInv
  <2>2. queue' = <<"start">> /\ future' = [future EXCEPT !["start"] = "pending"]
    BY <1>1, <2>1 DEF Start, Submit
  <2>3. future'["start"] = "pending" /\ future'["stop"] = "none"
    BY <2>1, <2>2 DEF TypeOK, Command
  <2>4. Len(queue') = 1 /\ queue'[1] = "start"
    BY <2>2
  <2>5. worker' = "idle" /\ "idle" \notin Calls
    BY <1>1, CallsAssumption DEF Start
  <2> QED BY <2>3, <2>4, <2>5 DEF QueueInv
<1>2. CASE Discovered
  BY <1>2 DEF Discovered, QueueInv, service, clients, events
<1>3. CASE PreflightOk
  BY <1>3 DEF PreflightOk, QueueInv, clients, events
<1>4. CASE PreflightFails
  <2>1. "stop" \in Command /\ future["stop"] = "none" /\ worker' = worker
    BY <1>4 DEF PreflightFails, FlowInv, Command
  <2>2. CASE Submit("stop")
    BY <2>1, <2>2, SubmitKeepsQueue
  <2>3. CASE UNCHANGED <<queue, future>>
    BY <1>4, <2>3 DEF PreflightFails, QueueInv, service, clients, events
  <2> QED BY <1>4, <2>2, <2>3 DEF PreflightFails
<1>5. CASE StopAnswered
  BY <1>5 DEF StopAnswered, QueueInv, service, clients, events
<1>6. CASE Joined
  BY <1>6 DEF Joined, QueueInv, clients, events
<1>7. ASSUME NEW c \in Calls, CallTool(c) PROVE QueueInv'
  <2>1. c \in Command \ {"stop"} /\ future[c] = "none" /\ future["stop"] = "none" /\ worker' = worker
    BY <1>7, CallsAssumption DEF CallTool, FlowInv, Command
  <2>2. CASE Submit(c)
    BY <2>1, <2>2, SubmitKeepsQueue
  <2>3. CASE future' = [future EXCEPT ![c] = "failed"] /\ queue' = queue
    <3>1. \A i \in 1..Len(queue) : queue[i] # c
      BY <2>1 DEF QueueInv
    <3> QED BY <2>1, <2>3, <3>1, AnswerKeepsQueue
  <2> QED BY <1>7, <2>2, <2>3 DEF CallTool
<1>8. CASE Returned
  BY <1>8 DEF Returned, QueueInv, service, clients, events
<1>9. CASE Finish
  <2>1. "stop" \in Command /\ future["stop"] = "none" /\ worker' = worker
    BY <1>9 DEF Finish, Closing, FlowInv, Command
  <2>2. CASE Submit("stop")
    BY <2>1, <2>2, SubmitKeepsQueue
  <2>3. CASE UNCHANGED <<queue, future>>
    BY <1>9, <2>3 DEF Finish, Closing, QueueInv, clients, events
  <2> QED BY <1>9, <2>2, <2>3 DEF Finish, Closing
<1>10. CASE Take
  BY <1>10, TakeKeepsQueue
<1>11. CASE Connect
  BY <1>11 DEF Connect, QueueInv, service, events
<1>12. CASE Discover
  BY <1>12 DEF Discover, QueueInv, service, events
<1>13. CASE AllDiscovered
  <2>1. "start" \in Command \ {"stop"} /\ \A i \in 1..Len(queue) : queue[i] # "start"
    BY <1>13, CallsAssumption DEF AllDiscovered, QueueInv, Command
  <2> QED BY <1>13, <2>1, AnswerKeepsQueue DEF AllDiscovered
<1>14. CASE StartFails
  <2>1. "start" \in Command \ {"stop"} /\ \A i \in 1..Len(queue) : queue[i] # "start"
    BY <1>14, CallsAssumption DEF StartFails, QueueInv, Command
  <2> QED BY <1>14, <2>1, AnswerKeepsQueue DEF StartFails
<1>15. ASSUME NEW outcome \in {"ok", "failed"}, Perform(outcome) PROVE QueueInv'
  <2>1. worker \in Command \ {"stop"} /\ \A i \in 1..Len(queue) : queue[i] # worker
    BY <1>15, CallsAssumption DEF Perform, QueueInv, Command
  <2> QED BY <1>15, <2>1, AnswerKeepsQueue DEF Perform
<1>16. CASE CallFails
  <2>1. worker \in Command \ {"stop"} /\ \A i \in 1..Len(queue) : queue[i] # worker
    BY <1>16, CallsAssumption DEF CallFails, QueueInv, Command
  <2> QED BY <1>16, <2>1, AnswerKeepsQueue DEF CallFails
<1>17. ASSUME NEW raises \in BOOLEAN, CloseClient(raises) PROVE QueueInv'
  BY <1>17 DEF CloseClient, QueueInv, service, events
<1>18. CASE WorkerEnds
  <2>1. worker' = "ended" /\ "ended" \notin Calls /\ queue' = queue
    BY <1>18, CallsAssumption DEF WorkerEnds
  <2>2. CASE TookStop
    <3>1. queue = <<>>
      BY <2>2 DEF TookStop, QueueInv, TypeOK
    <3> QED BY <2>1, <3>1 DEF QueueInv
  <2>3. CASE ~TookStop
    BY <1>18, <2>1, <2>3 DEF WorkerEnds, QueueInv
  <2> QED BY <2>2, <2>3
<1>19. CASE Interrupt
  <2>1. CASE main \in {"serving", "calling"}
    <3>1. future["stop"] = "none" /\ "stop" \in Command /\ worker' = worker
      BY <1>19, <2>1 DEF Interrupt, Closing, FlowInv, Command
    <3>2. CASE Submit("stop")
      BY <3>1, <3>2, SubmitKeepsQueue
    <3>3. CASE UNCHANGED <<queue, future>>
      BY <3>1, <3>3 DEF QueueInv
    <3> QED BY <1>19, <2>1, <3>2, <3>3 DEF Interrupt, Closing
  <2>2. CASE main \notin {"serving", "calling"}
    BY <1>19, <2>2 DEF Interrupt, QueueInv
  <2> QED BY <2>1, <2>2
<1>20. CASE Cancel
  <2>1. worker' = "unwinding" /\ "unwinding" \notin Calls
    BY <1>20, CallsAssumption DEF Cancel
  <2> QED BY <1>20, <2>1 DEF Cancel, QueueInv
<1>21. CASE Ended
  BY <1>21 DEF Ended, QueueInv, service, clients, events, vars
<1>22. CASE UNCHANGED vars
  BY <1>22 DEF QueueInv, vars, service, clients, events, TypeOK
<1> QED
  BY <1>1, <1>2, <1>3, <1>4, <1>5, <1>6, <1>7, <1>8, <1>9, <1>10, <1>11, <1>12, <1>13,
     <1>14, <1>15, <1>16, <1>17, <1>18, <1>19, <1>20, <1>21, <1>22 DEF Next, MainStep,
     WorkerStep

\* The places of the main thread.
LEMMA FlowStep ==
  ASSUME Inv, [Next]_vars
  PROVE  FlowInv'
<1> USE DEF Inv
<1>1. CASE Start
  BY <1>1, CallsAssumption
     DEF Start, FlowInv, TypeOK, Submit, Command, service, clients, events
<1>2. CASE Discovered
  BY <1>2, CallsAssumption
     DEF Discovered, FlowInv, TypeOK, Resolved, Awaited, service, clients, events
<1>3. CASE PreflightOk
  BY <1>3, CallsAssumption DEF PreflightOk, FlowInv, TypeOK, clients, events
<1>4. CASE PreflightFails
  BY <1>4, CallsAssumption
     DEF PreflightFails, FlowInv, TypeOK, Submit, LoopOpen, Command, service,
         clients, events
<1>5. CASE StopAnswered
  BY <1>5, CallsAssumption
     DEF StopAnswered, FlowInv, TypeOK, Resolved, Awaited, service, clients, events
<1>6. CASE Joined
  BY <1>6, CallsAssumption DEF Joined, FlowInv, TypeOK, clients, events
<1>7. ASSUME NEW c \in Calls, CallTool(c) PROVE FlowInv'
  BY <1>7, CallsAssumption
     DEF CallTool, FlowInv, TypeOK, Submit, LoopOpen, Command, service, clients,
         events
<1>8. CASE Returned
  BY <1>8, CallsAssumption
     DEF Returned, FlowInv, TypeOK, Resolved, Awaited, service, clients, events
<1>9. CASE Finish
  BY <1>9, CallsAssumption
     DEF Finish, FlowInv, TypeOK, Submit, Closing, LoopOpen, Command, clients, events
<1>10. CASE Take
  BY <1>10, CallsAssumption DEF Take, FlowInv, TypeOK, Command, service, clients, events
<1>11. CASE Connect
  BY <1>11, CallsAssumption DEF Connect, FlowInv, TypeOK, service, events
<1>12. CASE Discover
  <2>1. future["start"] = "pending"
    BY <1>12 DEF Discover, QueueInv
  <2> QED BY <1>12, <2>1, CallsAssumption DEF Discover, FlowInv, service, events
<1>13. CASE AllDiscovered
  BY <1>13, CallsAssumption DEF AllDiscovered, FlowInv, TypeOK, service, clients, events
<1>14. CASE StartFails
  BY <1>14, CallsAssumption DEF StartFails, FlowInv, TypeOK, service, clients, events
<1>15. ASSUME NEW outcome \in {"ok", "failed"}, Perform(outcome) PROVE FlowInv'
  <2>1. future[worker] = "pending" /\ worker \in Calls
    BY <1>15 DEF Perform, QueueInv
  <2>2. future["start"] = "ok" /\ worker \notin {"start", "stop", "idle", "ended", "none"}
    BY <2>1, CallsAssumption DEF FlowInv
  <2> QED BY <1>15, <2>1, <2>2
     DEF Perform, FlowInv, FlowInv, TypeOK, service, clients, events
<1>16. CASE CallFails
  <2>1. future[worker] = "pending" /\ worker \in Calls
    BY <1>16 DEF CallFails, QueueInv
  <2>2. future["start"] = "ok" /\ worker \notin {"start", "stop", "idle", "ended", "none"}
    BY <2>1, CallsAssumption DEF FlowInv
  <2> QED BY <1>16, <2>1, <2>2
     DEF CallFails, FlowInv, FlowInv, TypeOK, service, clients, events
<1>17. ASSUME NEW raises \in BOOLEAN, CloseClient(raises) PROVE FlowInv'
  BY <1>17, CallsAssumption DEF CloseClient, FlowInv, TypeOK, service, events
<1>18. CASE WorkerEnds
  <2>1. TookStop => queue = <<>>
    BY DEF TookStop, QueueInv, TypeOK
  <2>2. \A c \in Command \ {"stop"} : future'[c] = future[c]
    BY <1>18 DEF WorkerEnds, TypeOK
  <2>3. ~TookStop => future' = future
    BY <1>18 DEF WorkerEnds
  <2>4. worker # "none" /\ main # "dormant"
    BY <1>18 DEF WorkerEnds, FlowInv
  <2>5. "start" \in Command \ {"stop"}
    BY DEF Command
  <2>6. TookStop => future["stop"] = "pending"
    BY DEF TookStop
  <2>7. main' = main /\ queue' = queue /\ worker' = "ended" /\ current' = current
          /\ discovered' = discovered
    BY <1>18 DEF WorkerEnds, clients, service
  <2>8. Calls \subseteq Command \ {"stop"}
    BY CallsAssumption DEF Command
  <2>9. future'["start"] = future["start"] /\ \A c \in Calls : future'[c] = future[c]
    BY <2>2, <2>5, <2>8
  <2>10. future'["stop"] \in {"ok", "failed"} => queue = <<>>
    BY <2>1, <2>3 DEF FlowInv
  <2>11. future["stop"] = "none" => future'["stop"] = "none"
    BY <2>3, <2>6
  <2> QED BY <2>4, <2>7, <2>9, <2>10, <2>11 DEF FlowInv
<1>19. CASE Interrupt
  BY <1>19, CallsAssumption
     DEF Interrupt, FlowInv, TypeOK, Submit, Closing, LoopOpen, Command, service,
         clients
<1>20. CASE Cancel
  BY <1>20, CallsAssumption DEF Cancel, FlowInv, TypeOK, service, clients
<1>21. CASE Ended
  BY <1>21, CallsAssumption DEF Ended, FlowInv, TypeOK, service, clients, events, vars
<1>22. CASE UNCHANGED vars
  BY <1>22 DEF FlowInv, vars, service, clients, events, TypeOK
<1> QED
  BY <1>1, <1>2, <1>3, <1>4, <1>5, <1>6, <1>7, <1>8, <1>9, <1>10, <1>11, <1>12, <1>13,
     <1>14, <1>15, <1>16, <1>17, <1>18, <1>19, <1>20, <1>21, <1>22 DEF Next, MainStep,
     WorkerStep

\* The clients and the calls.
LEMMA ClientStep ==
  ASSUME Inv, [Next]_vars
  PROVE  ClientInv'
<1> USE DEF Inv
<1>1. CASE Start
  BY <1>1, CallsAssumption
     DEF Start, ClientInv, FlowInv, TypeOK, Submit, Command, service, clients, events
<1>2. CASE Discovered
  BY <1>2, CallsAssumption
     DEF Discovered, ClientInv, FlowInv, TypeOK, service, clients, events
<1>3. CASE PreflightOk
  BY <1>3, CallsAssumption DEF PreflightOk, ClientInv, FlowInv, TypeOK, clients, events
<1>4. CASE PreflightFails
  BY <1>4, CallsAssumption
     DEF PreflightFails, ClientInv, FlowInv, TypeOK, Submit, Command, service,
         clients, events
<1>5. CASE StopAnswered
  BY <1>5, CallsAssumption
     DEF StopAnswered, ClientInv, FlowInv, TypeOK, service, clients, events
<1>6. CASE Joined
  BY <1>6, CallsAssumption DEF Joined, ClientInv, FlowInv, TypeOK, clients, events
<1>7. ASSUME NEW c \in Calls, CallTool(c) PROVE ClientInv'
  BY <1>7, CallsAssumption
     DEF CallTool, ClientInv, FlowInv, TypeOK, Submit, Command, service, clients,
         events
<1>8. CASE Returned
  BY <1>8, CallsAssumption
     DEF Returned, ClientInv, FlowInv, TypeOK, service, clients, events
<1>9. CASE Finish
  BY <1>9, CallsAssumption
     DEF Finish, ClientInv, FlowInv, TypeOK, Submit, Closing, Command, clients,
         events
<1>10. CASE Take
  <2>1. Len(queue) >= 1 /\ Head(queue) = queue[1] /\ queue[1] \in Command
    BY <1>10 DEF Take, TypeOK
  <2>2. future[queue[1]] = "pending" /\ worker = "idle" /\ worker' # "idle"
    BY <1>10, <2>1, CallsAssumption DEF Take, QueueInv, Command
  <2>3. worker' = "connecting" => open = <<>> /\ discovered = 0
    BY <1>10, <2>1, <2>2, CallsAssumption DEF Take, Command, ClientInv
  <2>4. worker' # "ended" /\ main # "over"
    BY <1>10, <2>1, CallsAssumption DEF Take, Command, ClientInv
  <2> QED BY <1>10, <2>2, <2>3, <2>4 DEF Take, ClientInv, service, clients, events
<1>11. CASE Connect
  BY <1>11, CallsAssumption DEF Connect, ClientInv, FlowInv, TypeOK, service, events
<1>12. CASE Discover
  BY <1>12, CallsAssumption DEF Discover, ClientInv, FlowInv, TypeOK, service, events
<1>13. CASE AllDiscovered
  BY <1>13, CallsAssumption
     DEF AllDiscovered, ClientInv, FlowInv, TypeOK, Command, service, clients, events
<1>14. CASE StartFails
  BY <1>14, CallsAssumption
     DEF StartFails, ClientInv, FlowInv, TypeOK, service, clients, events
<1>15. ASSUME NEW outcome \in {"ok", "failed"}, Perform(outcome) PROVE ClientInv'
  <2>1. future[worker] = "pending" /\ worker \in Calls /\ worker \in Command /\ worker # "start"
    BY <1>15, CallsAssumption DEF Perform, QueueInv, Command
  <2>2. performed[worker] = 0
    BY <2>1 DEF ClientInv
  <2>3. \A c \in Calls : performed'[c] = IF c = worker THEN 1 ELSE performed[c]
    BY <1>15, <2>1, <2>2 DEF Perform, TypeOK
  <2>4. \A c \in Calls : future'[c] = IF c = worker THEN outcome ELSE future[c]
    BY <1>15, <2>1 DEF Perform, TypeOK, Command
  <2>5. \A c \in Calls : /\ performed'[c] <= 1
                          /\ (future'[c] \in {"none", "pending"} => performed'[c] = 0)
                          /\ (future'[c] = "ok" => performed'[c] = 1)
    BY <2>3, <2>4 DEF ClientInv
  <2>6. future'["start"] # "pending"
    BY <1>15, <2>1 DEF Perform, TypeOK, FlowInv
  <2>7. worker' = "idle" /\ main # "over" /\ main' = main /\ UNCHANGED <<open, queue, discovered>>
    BY <1>15, <2>1, CallsAssumption DEF Perform, ClientInv, clients
  <2> QED BY <2>5, <2>6, <2>7 DEF ClientInv
<1>16. CASE CallFails
  <2>1. future[worker] = "pending" /\ worker \in Calls
    BY <1>16 DEF CallFails, QueueInv
  <2>2. future["start"] = "ok" /\ worker \notin {"start", "stop", "idle", "ended", "none"}
    BY <2>1, CallsAssumption DEF FlowInv
  <2> QED BY <1>16, <2>1, <2>2
     DEF CallFails, ClientInv, FlowInv, TypeOK, service, clients, events
<1>17. ASSUME NEW raises \in BOOLEAN, CloseClient(raises) PROVE ClientInv'
  BY <1>17, CallsAssumption DEF CloseClient, ClientInv, FlowInv, TypeOK, service, events
<1>18. CASE WorkerEnds
  BY <1>18, CallsAssumption
     DEF WorkerEnds, ClientInv, FlowInv, TypeOK, service, clients, events
<1>19. CASE Interrupt
  BY <1>19, CallsAssumption
     DEF Interrupt, ClientInv, FlowInv, TypeOK, Submit, Closing, Command, service,
         clients
<1>20. CASE Cancel
  BY <1>20, CallsAssumption DEF Cancel, ClientInv, FlowInv, TypeOK, service, clients
<1>21. CASE Ended
  BY <1>21, CallsAssumption
     DEF Ended, ClientInv, FlowInv, TypeOK, service, clients, events, vars
<1>22. CASE UNCHANGED vars
  BY <1>22 DEF ClientInv, vars, service, clients, events, TypeOK
<1> QED
  BY <1>1, <1>2, <1>3, <1>4, <1>5, <1>6, <1>7, <1>8, <1>9, <1>10, <1>11, <1>12, <1>13,
     <1>14, <1>15, <1>16, <1>17, <1>18, <1>19, <1>20, <1>21, <1>22 DEF Next, MainStep,
     WorkerStep

-----------------------------------------------------------------------------
(* The theorems.                                                           *)

LEMMA Invariant == Spec => []Inv
<1>1. Init => Inv
  <2> SUFFICES ASSUME Init PROVE Inv
    OBVIOUS
  <2>1. queue = <<>> /\ Len(queue) = 0 /\ \A c \in Command : future[c] = "none"
    BY DEF Init
  <2>2. TypeOK
    <3>1. queue \in Seq(Command) /\ open \in Seq(1..NServers)
      BY DEF Init
    <3>2. future \in [Command -> {"none", "pending", "ok", "failed"}] /\ performed \in [Calls -> Nat]
      BY DEF Init
    <3>3. discovered \in 0..NServers /\ interrupts \in 0..MaxInterrupts
      BY ServersAssumption, BoundsAssumption DEF Init
    <3> QED BY <3>1, <3>2, <3>3 DEF Init, TypeOK
  <2>3. StartupAtomic
    BY <2>2 DEF Init, StartupAtomic
  <2>4. worker \notin Calls /\ {"start", "stop"} \cup Calls \subseteq Command
    BY CallsAssumption DEF Init, Command
  <2>5. QueueInv
    BY <2>1, <2>4 DEF QueueInv, Init
  <2>6. FlowInv
    BY <2>1, <2>4 DEF FlowInv, Init
  <2>7. ClientInv
    BY <2>1, <2>4 DEF ClientInv, Init
  <2> QED BY <2>2, <2>3, <2>5, <2>6, <2>7 DEF Inv
<1>2. Inv /\ [Next]_vars => Inv'
  BY TypeStep, StartupStep, QueueStep, FlowStep, ClientStep DEF Inv
<1> QED BY <1>1, <1>2, PTL DEF Spec

\* Starting is all or nothing, whatever fails or is interrupted.
THEOREM StartIsAtomic == Spec => []StartupAtomic
<1>1. Inv => StartupAtomic
  BY DEF Inv
<1> QED BY <1>1, Invariant, PTL

\* After the end no worker and no client is left.
THEOREM EndIsClean == Spec => []NothingLeftBehind
<1>1. Inv => NothingLeftBehind
  BY DEF Inv, ClientInv, NothingLeftBehind
<1> QED BY <1>1, Invariant, PTL

\* No call is performed twice, and none after the answer to stop.
THEOREM CallsAreOrdered == Spec => []CallsAreOrderedOnce
<1>1. Inv => AtMostOnce
  BY DEF Inv, ClientInv, AtMostOnce
<1>2. Inv => StopIsLast
  BY DEF Inv, QueueInv, FlowInv, StopIsLast, TypeOK
<1> QED BY <1>1, <1>2, Invariant, PTL DEF CallsAreOrderedOnce
=============================================================================
