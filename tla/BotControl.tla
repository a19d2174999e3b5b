----------------------------- MODULE BotControl -----------------------------
(***************************************************************************)
(* How the commander's orders reach the trading loop: the priority queue   *)
(* of hokage/orchestrator/command_queue.py with its one worker, the chat   *)
(* that bypasses it, AutonomousTradingBot.start and stop with the threads  *)
(* they own, and the shutdown of hokage/boot.py.                           *)
(*                                                                         *)
(* Every thread is a daemon: when the process exits they end where they    *)
(* are.  The queue lives in memory; its audit rows are written beside it   *)
(* and never read back, and are not modelled.  The dead man's switch and   *)
(* the Telegram thread are started and stopped beside the 06:00 scheduler, *)
(* which stands for them.                                                  *)
(***************************************************************************)
EXTENDS Naturals, Sequences, FiniteSets

CONSTANTS
    MaxCommands,  \* bound on the commands posted to /commander/mode
    Orders,       \* pairs <<type, role>> a command may carry
    Outsiders,    \* threads beside the worker that may call start() or stop()
    MaxLoops,     \* loop threads that are alive or remembered at once
    MaxInputs,    \* bound on commands, chat orders and signals together
    None          \* no command, no thread

Types == {"START", "STOP", "EMERGENCY", "SCAN", "MODE", "REPORT"}
Roles == {"COMMANDER", "DEVELOPER", "OBSERVER", "EMERGENCY"}

(* Three commands at most: a heap of three compares with its root only.    *)
ASSUME OrdersAssumption ==
    /\ Orders \subseteq Types \X Roles
    /\ MaxCommands \in 1 .. 3
    /\ MaxLoops \in Nat \ {0}
    /\ MaxInputs \in Nat
    /\ None \notin Nat /\ "worker" \notin Outsiders

Commands == 1 .. MaxCommands
Loops == 1 .. MaxLoops
Callers == Outsiders \cup {"worker"}

VARIABLES
    order,       \* the type, role and time stamp of each command
    post,        \* where the request that posts a command stands
    status,      \* Command.status
    heap,        \* PriorityQueue.queue
    unfinished,  \* PriorityQueue.unfinished_tasks
    running,     \* CommandQueue.is_running
    worker,      \* where the worker thread stands
    task,        \* the command it executes
    call,        \* where each caller's start() or stop() stands
    joined,      \* the thread a stop() waits for
    chats,       \* chat orders given
    thread,      \* AutonomousTradingBot._thread
    stopping,    \* its _stop_event
    loop,        \* the trading loops
    crons,       \* CronSchedulers that have not been told to stop
    cronHeld,    \* _cron_thread is one of them
    overlapped,  \* history: two starts or stops ever ran at once
    timedOut,    \* history: a stop gave up waiting for its loop
    calm,        \* history: a stop returned and no start has begun since
    ending,      \* the thread that shuts the process down
    up           \* the process runs

queueVars == <<order, post, status, heap, unfinished>>
workVars == <<running, worker, task>>
botVars == <<thread, stopping, loop, crons, cronHeld>>
procVars == <<ending, up>>
callVars == <<call, joined, overlapped, timedOut, calm>>
vars == <<order, post, status, heap, unfinished, running, worker, task,
          call, joined, chats, thread, stopping, loop, crons, cronHeld,
          overlapped, timedOut, calm, ending, up>>

Ended == {"COMPLETED", "FAILED"}
Busy(t) == call[t] \notin {"idle", "returned", "failed"}
Alive(l) == loop[l] \in {"idle", "body"}
Queued == {heap[i] : i \in DOMAIN heap}
-----------------------------------------------------------------------------
(* PERMISSION_MATRIX; MODE stands for ENABLE_PAPER and ENABLE_SHADOW. *)
Permitted(type) ==
    CASE type = "EMERGENCY" -> {"COMMANDER", "DEVELOPER", "EMERGENCY"}
      [] type = "REPORT" -> {"COMMANDER", "DEVELOPER", "OBSERVER"}
      [] OTHER -> {"COMMANDER", "DEVELOPER"}

Priority(c) == IF order[c].type = "EMERGENCY" THEN 0 ELSE 1

(* Mutant: commands are compared by their age alone. *)
BeforeByAge(c, d) == order[c].stamp < order[d].stamp

Before(c, d) ==
    \/ Priority(c) < Priority(d)
    \/ Priority(c) = Priority(d) /\ order[c].stamp < order[d].stamp

(* Equal keys make tuple comparison reach the Command, which has no order. *)
Tie(c, d) == Priority(c) = Priority(d) /\ order[c].stamp = order[d].stamp

(* heapq.heappush: the new command is appended, then moved to the root. *)
PushTies(c) == heap # <<>> /\ Tie(c, Head(heap))
Pushed(c) ==
    IF heap # <<>> /\ Before(c, Head(heap))
    THEN <<c>> \o Tail(heap) \o <<Head(heap)>>
    ELSE Append(heap, c)

(* heapq.heappop: the last command takes the root's place and is moved     *)
(* down.  When that comparison raises, the root is already gone.           *)
PopTies == Len(heap) = 3 /\ Tie(heap[2], heap[3])

Popped ==
    IF Len(heap) = 3 /\ Before(heap[3], heap[2]) THEN <<heap[3], heap[2]>>
    ELSE Tail(heap)
-----------------------------------------------------------------------------
Inputs == Cardinality({c \in Commands : post[c] # "new"}) + chats
              + Cardinality({ending} \ {None})
MoreInputs == Inputs < MaxInputs

Latest(c) == IF c = 1 THEN 0 ELSE order[c - 1].stamp

(* A request makes a command: the stamp is taken here, not when queued.    *)
(* The clock may not have moved since the command before.                  *)
Create(c) ==
    /\ up /\ post[c] = "new" /\ MoreInputs
    /\ \A d \in Commands : d < c => post[d] # "new"
    /\ \E o \in Orders, s \in {Latest(c), Latest(c) + 1} :
           order' = [order EXCEPT ![c] = [type |-> o[1], role |-> o[2], stamp |-> s]]
    /\ post' = [post EXCEPT ![c] = "made"]
    /\ UNCHANGED <<status, heap, unfinished,
                   workVars, callVars, chats, botVars, procVars>>

(* Mutant: any command some role may give is accepted. *)
MayRunKnown(c) == Permitted(order[c].type) # {}

MayRun(c) == order[c].role \in Permitted(order[c].type)

(* enqueue without permission *)
Reject(c) ==
    /\ up /\ post[c] = "made" /\ ~MayRun(c)
    /\ status' = [status EXCEPT ![c] = "REJECTED"]
    /\ post' = [post EXCEPT ![c] = "refused"]
    /\ UNCHANGED <<order, heap, unfinished,
                   workVars, callVars, chats, botVars, procVars>>

(* enqueue puts the command; a tie raises out of put() once it is in the   *)
(* heap and before it is counted, and the request answers with an error.   *)
Put(c) ==
    /\ up /\ post[c] = "made" /\ MayRun(c)
    /\ heap' = IF PushTies(c) THEN Append(heap, c) ELSE Pushed(c)
    /\ post' = [post EXCEPT ![c] = IF PushTies(c) THEN "error" ELSE "put"]
    /\ unfinished' = IF PushTies(c) THEN unfinished ELSE unfinished + 1
    /\ UNCHANGED <<order, status, workVars, callVars, chats, botVars, procVars>>

Post(c) == Create(c) \/ Reject(c) \/ Put(c)
-----------------------------------------------------------------------------
(* A caller enters start() or stop(). *)
Begin(t, step) ==
    /\ call' = [call EXCEPT ![t] = step]
    /\ overlapped' = (overlapped \/ \E s \in Callers \ {t} : Busy(s))
    /\ UNCHANGED <<joined, timedOut, calm>>

Goto(t, step) == call' = [call EXCEPT ![t] = step]

(* Mutant: start() does not ask whether the loop is alive. *)
IsActiveNever == FALSE

IsActive == thread # None /\ Alive(thread)

(* start: nothing while the loop is alive. *)
StartCheck(t) ==
    /\ up /\ call[t] = "check"
    /\ Goto(t, IF IsActive THEN "returned" ELSE "clear")
    /\ calm' = (calm /\ IsActive)
    /\ UNCHANGED <<queueVars, workVars, joined, overlapped, timedOut, chats, botVars, procVars>>

StartClear(t) ==
    /\ up /\ call[t] = "clear"
    /\ stopping' = FALSE
    /\ Goto(t, "cron")
    /\ UNCHANGED <<queueVars, workVars, joined, overlapped, timedOut, calm,
                   chats, thread, loop, crons, cronHeld, procVars>>

StartCron(t) ==
    /\ up /\ call[t] = "cron"
    /\ crons' = crons + 1 /\ cronHeld' = TRUE
    /\ Goto(t, "launch")
    /\ UNCHANGED <<queueVars, workVars, joined, overlapped, timedOut, calm,
                   chats, thread, stopping, loop, procVars>>

(* Threads that have ended and that nobody waits for can be named anew. *)
FreeLoops == {l \in Loops : ~Alive(l) /\ \A t \in Callers : joined[t] # l}

(* The loop's thread is started and remembered. *)
StartLaunch(t) ==
    /\ up /\ call[t] = "launch" /\ FreeLoops # {}
    /\ LET l == CHOOSE l \in FreeLoops : \A k \in FreeLoops : l <= k
       IN  thread' = l /\ loop' = [loop EXCEPT ![l] = "idle"]
    /\ Goto(t, "returned")
    /\ UNCHANGED <<queueVars, workVars, joined, overlapped, timedOut, calm,
                   chats, stopping, crons, cronHeld, procVars>>

Start(t) == StartCheck(t) \/ StartClear(t) \/ StartCron(t) \/ StartLaunch(t)

(* stop: the 06:00 scheduler first. *)
StopCron(t) ==
    /\ up /\ call[t] = "quiet"
    /\ crons' = IF cronHeld THEN crons - 1 ELSE crons
    /\ cronHeld' = FALSE
    /\ Goto(t, "signal")
    /\ UNCHANGED <<queueVars, workVars, joined, overlapped, timedOut, calm,
                   chats, thread, stopping, loop, procVars>>

(* Mutant: the loop is only waited for. *)
StopSignalSilent(t) ==
    /\ up /\ call[t] = "signal"
    /\ Goto(t, IF thread = None THEN "returned" ELSE "join")
    /\ calm' = (calm \/ thread = None)
    /\ UNCHANGED <<queueVars, workVars, joined, overlapped, timedOut, chats, botVars, procVars>>

(* Without a thread stop() ends here, and the event keeps its value. *)
StopSignal(t) ==
    /\ up /\ call[t] = "signal"
    /\ Goto(t, IF thread = None THEN "returned" ELSE "join")
    /\ stopping' = (stopping \/ thread # None)
    /\ calm' = (calm \/ thread = None)
    /\ UNCHANGED <<queueVars, workVars, joined, overlapped, timedOut,
                   chats, thread, loop, crons, cronHeld, procVars>>

(* _thread is read again; another stop() may have cleared it. *)
StopJoin(t) ==
    /\ up /\ call[t] = "join"
    /\ joined' = [joined EXCEPT ![t] = thread]
    /\ Goto(t, IF thread = None THEN "failed" ELSE "wait")
    /\ UNCHANGED <<queueVars, workVars, overlapped, timedOut, calm, chats, botVars, procVars>>

(* The loop is gone, or is ten seconds in the body of an iteration, or was *)
(* never told: its event has been cleared.                                 *)
StopWait(t) ==
    /\ up /\ call[t] = "wait"
    /\ \/ ~Alive(joined[t]) /\ UNCHANGED timedOut
       \/ /\ Alive(joined[t]) /\ (loop[joined[t]] = "body" \/ ~stopping)
          /\ timedOut' = TRUE
    /\ joined' = [joined EXCEPT ![t] = None]
    /\ Goto(t, "forget")
    /\ UNCHANGED <<queueVars, workVars, overlapped, calm, chats, botVars, procVars>>

StopForget(t) ==
    /\ up /\ call[t] = "forget"
    /\ thread' = None
    /\ Goto(t, "returned")
    /\ calm' = TRUE
    /\ UNCHANGED <<queueVars, workVars, joined, overlapped, timedOut,
                   chats, stopping, loop, crons, cronHeld, procVars>>

Stop(t) == StopCron(t) \/ StopSignal(t) \/ StopJoin(t) \/ StopWait(t) \/ StopForget(t)

(* "start trading", "stop trading" and the assistant's halt are called on  *)
(* the request's own thread.                                               *)
Chat ==
    /\ up /\ MoreInputs
    /\ \E t \in Outsiders \ {ending}, step \in {"check", "quiet"} :
           ~Busy(t) /\ Begin(t, step)
    /\ chats' = chats + 1
    /\ UNCHANGED <<queueVars, workVars, botVars, procVars>>
-----------------------------------------------------------------------------
(* One test of the loop's while: it ends, or runs an iteration. *)
LoopTest(l) ==
    /\ up /\ loop[l] = "idle"
    /\ loop' = [loop EXCEPT ![l] = IF stopping THEN "dead" ELSE "body"]
    /\ UNCHANGED <<queueVars, workVars, callVars, chats, thread, stopping,
                   crons, cronHeld, procVars>>

(* The iteration ends; the sleep after it watches the event. *)
LoopRest(l) ==
    /\ up /\ loop[l] = "body"
    /\ loop' = [loop EXCEPT ![l] = "idle"]
    /\ UNCHANGED <<queueVars, workVars, callVars, chats, thread, stopping,
                   crons, cronHeld, procVars>>

Loop(l) == LoopTest(l) \/ LoopRest(l)
-----------------------------------------------------------------------------
(* The worker waits a second at a time for a command, and ends at the      *)
(* first test of is_running that fails.                                    *)
WorkerEmpty ==
    /\ up /\ worker = "get" /\ heap = <<>> /\ ~running
    /\ worker' = "ended"
    /\ UNCHANGED <<queueVars, running, task, callVars, chats, botVars, procVars>>

(* Only queue.Empty is caught: a tie in get() ends the thread. *)
WorkerGetTie ==
    /\ up /\ worker = "get" /\ PopTies
    /\ heap' = Tail(heap)
    /\ worker' = "dead"
    /\ UNCHANGED <<order, post, status, unfinished, running, task,
                   callVars, chats, botVars, procVars>>

(* _execute_command marks the command and dispatches it: the bot's start() *)
(* or stop(), a scan on this very thread, or something immediate.          *)
WorkerGet ==
    /\ up /\ worker = "get" /\ heap # <<>> /\ ~PopTies
    /\ heap' = Popped
    /\ task' = Head(heap)
    /\ status' = [status EXCEPT ![Head(heap)] = "RUNNING"]
    /\ worker' = IF order[Head(heap)].type \in {"START", "STOP", "EMERGENCY"}
                 THEN "call" ELSE "do"
    /\ CASE order[Head(heap)].type = "START" -> Begin("worker", "check")
         [] order[Head(heap)].type \in {"STOP", "EMERGENCY"} -> Begin("worker", "quiet")
         [] OTHER -> UNCHANGED callVars
    /\ UNCHANGED <<order, post, unfinished, running, chats, botVars, procVars>>

(* The context is frozen: assigning its mode raises.  A scan or a report   *)
(* may fail.                                                               *)
Outcomes ==
    CASE worker = "call" -> IF call["worker"] = "failed" THEN {"FAILED"} ELSE {"COMPLETED"}
      [] worker # "call" /\ order[task].type = "MODE" -> {"FAILED"}
      [] OTHER -> Ended

(* Mutant: the finished command stays in hand. *)
FinishKeepsTask ==
    /\ up /\ worker \in {"call", "do"}
    /\ worker = "call" => call["worker"] \in {"returned", "failed"}
    /\ \E outcome \in Outcomes : status' = [status EXCEPT ![task] = outcome]
           /\ worker' = IF unfinished = 0 THEN "dead" ELSE IF running THEN "get" ELSE "ended"
    /\ unfinished' = IF unfinished = 0 THEN 0 ELSE unfinished - 1
    /\ UNCHANGED task
    /\ call' = [call EXCEPT !["worker"] = "idle"]
    /\ UNCHANGED <<order, post, heap, running, joined, overlapped,
                   timedOut, calm, chats, botVars, procVars>>

(* Mutant: a command that raised ends the worker. *)
FinishDies ==
    /\ up /\ worker \in {"call", "do"}
    /\ worker = "call" => call["worker"] \in {"returned", "failed"}
    /\ \E outcome \in Outcomes :
           /\ status' = [status EXCEPT ![task] = outcome]
           /\ worker' = IF outcome = "FAILED" \/ ~running THEN "ended" ELSE "get"
           /\ unfinished' = IF unfinished = 0 THEN 0 ELSE unfinished - 1
    /\ task' = None
    /\ call' = [call EXCEPT !["worker"] = "idle"]
    /\ UNCHANGED <<order, post, heap, running, joined, overlapped,
                   timedOut, calm, chats, botVars, procVars>>

(* The outcome is kept; task_done() raises out of the thread when more   *)
(* commands were taken than put() counted.                                 *)
WorkerFinish ==
    /\ up /\ worker \in {"call", "do"}
    /\ worker = "call" => call["worker"] \in {"returned", "failed"}
    /\ \E outcome \in Outcomes : status' = [status EXCEPT ![task] = outcome]
           /\ worker' = IF unfinished = 0 THEN "dead" ELSE IF running THEN "get" ELSE "ended"
    /\ unfinished' = IF unfinished = 0 THEN 0 ELSE unfinished - 1
    /\ task' = None
    /\ call' = [call EXCEPT !["worker"] = "idle"]
    /\ UNCHANGED <<order, post, heap, running, joined, overlapped,
                   timedOut, calm, chats, botVars, procVars>>

Worker == WorkerEmpty \/ WorkerGetTie \/ WorkerGet \/ WorkerFinish
-----------------------------------------------------------------------------
(* SIGINT or SIGTERM: boot.shutdown, once, on a thread of its own.         *)
Signal ==
    /\ up /\ ending = None /\ MoreInputs
    /\ \E t \in Outsiders : ~Busy(t) /\ Begin(t, "quiet") /\ ending' = t
    /\ UNCHANGED <<queueVars, workVars, chats, botVars, up>>

Halted == ending # None /\ ~Busy(ending)

StopWorker ==
    /\ up /\ Halted /\ call[ending] = "returned" /\ running
    /\ running' = FALSE
    /\ UNCHANGED <<queueVars, worker, task, callVars, chats, botVars, procVars>>

(* The process exits, also when shutdown raised. *)
Exit ==
    /\ up /\ Halted /\ (call[ending] = "returned" => ~running)
    /\ up' = FALSE
    /\ UNCHANGED <<queueVars, workVars, callVars, chats, botVars, ending>>

Main == StopWorker \/ Exit
-----------------------------------------------------------------------------
(* The boot has started the loop and the worker and opened the dashboard. *)
Init ==
    /\ order = [c \in Commands |-> [type |-> "REPORT", role |-> "OBSERVER", stamp |-> 0]]
    /\ post = [c \in Commands |-> "new"]
    /\ status = [c \in Commands |-> "PENDING"]
    /\ heap = <<>> /\ unfinished = 0
    /\ running = TRUE /\ worker = "get" /\ task = None
    /\ call = [t \in Callers |-> "idle"]
    /\ joined = [t \in Callers |-> None]
    /\ chats = 0
    /\ thread = 1 /\ stopping = FALSE
    /\ loop = [l \in Loops |-> IF l = 1 THEN "idle" ELSE "dead"]
    /\ crons = 1 /\ cronHeld = TRUE
    /\ overlapped = FALSE /\ timedOut = FALSE /\ calm = FALSE
    /\ ending = None /\ up = TRUE

Next ==
    \/ \E c \in Commands : Post(c)
    \/ Chat
    \/ \E t \in Callers : Start(t) \/ Stop(t)
    \/ \E l \in Loops : Loop(l)
    \/ Worker
    \/ Signal
    \/ Main

(* Threads that have begun something go on with it; nobody need post a     *)
(* command, type an order or end the process.  The operating system        *)
(* schedules the loop, the worker and the callers.                         *)
Fairness ==
    /\ WF_vars(Worker)
    /\ WF_vars(Main)
    /\ \A t \in Callers : WF_vars(Start(t) \/ Stop(t))
    /\ \A l \in Loops : WF_vars(Loop(l))

Spec == Init /\ [][Next]_vars /\ Fairness
-----------------------------------------------------------------------------
(* Every variable has its type. *)
TypeOK ==
    /\ order \in [Commands -> [type : Types, role : Roles, stamp : 0 .. MaxCommands]]
    /\ post \in [Commands -> {"new", "made", "put", "refused", "error"}]
    /\ status \in [Commands -> {"PENDING", "RUNNING", "REJECTED"} \cup Ended]
    /\ heap \in Seq(Commands) /\ unfinished \in Nat
    /\ {running, stopping, cronHeld, overlapped, timedOut, calm, up} \subseteq BOOLEAN
    /\ worker \in {"get", "call", "do", "ended", "dead"}
    /\ task \in Commands \cup {None} /\ (task = None <=> worker \notin {"call", "do"})
    /\ call \in [Callers -> {"idle", "check", "clear", "cron", "launch", "quiet",
                             "signal", "join", "wait", "forget", "returned", "failed"}]
    /\ joined \in [Callers -> Loops \cup {None}]
    /\ chats \in 0 .. MaxInputs
    /\ thread \in Loops \cup {None}
    /\ loop \in [Loops -> {"idle", "body", "dead"}]
    /\ crons \in Nat
    /\ ending \in Outsiders \cup {None}

(* Two commands in the queue's hands that the queue cannot tell apart. *)
Tied ==
    \E c, d \in Commands :
        /\ c # d /\ {post[c], post[d]} \cap {"new", "made", "refused"} = {}
        /\ Tie(c, d)

(* A command that entered the queue is in exactly one place: waiting, in   *)
(* the worker's hands, or ended.                                           *)
OnePlace ==
    \A c \in Commands :
        /\ Cardinality({i \in DOMAIN heap : heap[i] = c}) <= 1
        /\ Cardinality({p \in {"waiting", "held", "ended"} :
               \/ p = "waiting" /\ c \in Queued
               \/ p = "held" /\ task = c
               \/ p = "ended" /\ status[c] \in Ended})
           = IF post[c] \in {"new", "made", "refused"} THEN 0 ELSE 1

(* However requests and the worker interleave, no command is lost or       *)
(* doubled, and one without permission never runs; only two commands with  *)
(* one time stamp can lose one and end the worker.                         *)
CommandsAccounted ==
    /\ Tied \/ (OnePlace /\ worker # "dead")
    /\ \A c \in Commands :
           status[c] \in Ended \cup {"RUNNING"} => order[c].role \in Permitted(order[c].type)

(* Beyond the loop the bot knows of, a second one lives only after a stop  *)
(* gave up waiting or two calls overlapped, and the 06:00 scheduler is     *)
(* single unless calls overlapped.  After a stop nothing is left but loops *)
(* that have been told to end.                                             *)
LoopsAccounted ==
    /\ Cardinality({l \in Loops : Alive(l)}) <= 1 \/ timedOut \/ overlapped
    /\ crons <= 1 \/ overlapped
    /\ calm /\ ~overlapped =>
           /\ crons = 0
           /\ stopping
           /\ (\E l \in Loops : Alive(l)) => timedOut

(* An emergency stop is never passed over: the worker takes another        *)
(* command only when no emergency stop is waiting.                         *)
EmergencyFirst ==
    [][(task' # None /\ task' # task /\ order[task'].type # "EMERGENCY")
           => \A c \in Queued : order[c].type # "EMERGENCY"]_vars

(* An accepted command is executed, unless the process ends first or two   *)
(* commands carry one time stamp.                                          *)
AcceptedRuns ==
    \A c \in Commands :
        post[c] = "put" ~> (status[c] \in Ended \/ Tied \/ ~up)

(* Once a stop has returned, every loop ends unless a start follows, the   *)
(* process ends, or calls overlapped; also loops an earlier stop gave up.  *)
StopTakesHold ==
    calm ~> \/ \A l \in Loops : ~Alive(l)
            \/ ~calm \/ overlapped \/ ~up
=============================================================================
