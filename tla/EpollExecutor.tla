--------------------------- MODULE EpollExecutor ---------------------------
(***************************************************************************)
(* scheduler/epoll_executor.h and epoll_exector.cc: one thread that runs   *)
(* spawned tasks and resumes the coroutines of connections with events.    *)
(* spawn() may be called by any thread, the executor's own included (a     *)
(* task or a coroutine that issues an RPC).  The task queue is what        *)
(* FifoQueue specifies and MPMCQueue implements.                           *)
(*                                                                         *)
(* Connections are reduced to "some connection has an event"; what their   *)
(* coroutines do is the subject of RpcServer.                              *)
(***************************************************************************)
EXTENDS Integers, Sequences, Functions

CONSTANTS Spawners,    \* the other threads that call spawn
          MaxSpawns    \* bound: how many tasks each thread spawns

Loop == "loop"
Threads == Spawners \cup {Loop}

ASSUME SpawnersAssumption == Loop \notin Spawners
ASSUME MaxSpawnsAssumption == MaxSpawns \in Nat

VARIABLES
  timeout,           \* the timeout of the constructor is >= 0; the default is -1
  queue, task,       \* task_queue_, and the outcome of the loop's pop
  should_notify_,
  eventfd, edge,     \* the eventfd's counter; its epoll item is on the ready list
  io,                \* some connection has an event
  events,            \* the events of this round that are not handled yet
  lpc,               \* where the loop is
  stop_,
  spc, spawned,      \* per thread: where its call of spawn is, and how many it made
  pushed, executed   \* history: the tasks pushed and the tasks run, in order

taskvars == <<queue, task>>
wakevars == <<eventfd, edge>>
spawnvars == <<spc, spawned, pushed>>
vars == <<timeout, taskvars, should_notify_, wakevars, io, events, lpc, stop_, spawnvars, executed>>

Pending == <<"pending">>
Empty == <<"empty">>
Tasks == Threads \X (0 .. MaxSpawns - 1)

\* external: the task queue
TaskQueue == INSTANCE FifoQueue WITH Values <- Tasks, Consumers <- {Loop}, result <- task

\* stop_ is not initialized (epoll_executor.h:39).
Init == /\ timeout \in BOOLEAN
        /\ TaskQueue!Init
        /\ should_notify_ = FALSE
        /\ eventfd = 0 /\ edge = FALSE /\ io = FALSE /\ events = <<>>
        /\ lpc = "while" /\ stop_ \in BOOLEAN
        /\ spc = [t \in Threads |-> "idle"]
        /\ spawned = [t \in Threads |-> 0]
        /\ pushed = <<>> /\ executed = <<>>
-----------------------------------------------------------------------------
(* spawn *)

\* The executor's own thread spawns from a task or a coroutine it runs.
MayCallSpawn(t) == t = Loop => lpc \in {"run", "resume"}

SpawnPush(t) ==
  /\ spc[t] = "idle" /\ spawned[t] < MaxSpawns /\ MayCallSpawn(t)
  /\ TaskQueue!Push(<<t, spawned[t]>>)
  /\ pushed' = Append(pushed, <<t, spawned[t]>>)
  /\ spawned' = [spawned EXCEPT ![t] = @ + 1]
  /\ spc' = [spc EXCEPT ![t] = "cas"]
  /\ UNCHANGED <<timeout, should_notify_, wakevars, io, events, lpc, stop_, executed>>

\* The CAS of should_notify_ from true to false decides who writes the eventfd.
SpawnCas(t) ==
  /\ spc[t] = "cas"
  /\ should_notify_' = FALSE
  /\ spc' = [spc EXCEPT ![t] = IF should_notify_ THEN "write" ELSE "idle"]
  /\ UNCHANGED <<timeout, taskvars, wakevars, io, events, lpc, stop_, spawned, pushed, executed>>

SpawnWrite(t) ==
  /\ spc[t] = "write"
  /\ eventfd' = eventfd + 1 /\ edge' = TRUE
  /\ spc' = [spc EXCEPT ![t] = "idle"]
  /\ UNCHANGED <<timeout, taskvars, should_notify_, io, events, lpc, stop_, spawned, pushed,
                 executed>>

Spawn(t) == SpawnPush(t) \/ SpawnCas(t) \/ SpawnWrite(t)

Stop ==
  /\ ~stop_ /\ stop_' = TRUE
  /\ UNCHANGED <<timeout, taskvars, should_notify_, wakevars, io, events, lpc, spawnvars, executed>>
-----------------------------------------------------------------------------
(* The thread *)

\* The loop goes on; it does so only when a call of spawn it made has returned.
Go(from, to) == /\ lpc = from /\ spc[Loop] = "idle"
                /\ lpc' = to

While ==
  /\ Go("while", IF stop_ THEN "exited" ELSE "pop")
  /\ UNCHANGED <<timeout, taskvars, should_notify_, wakevars, io, events, stop_, spawnvars,
                 executed>>

CallPop ==
  /\ Go("pop", "popping")
  /\ TaskQueue!CallPop(Loop)
  /\ UNCHANGED <<timeout, should_notify_, wakevars, io, events, stop_, spawnvars, executed>>

PopTask ==
  /\ Go("popping", "run")
  /\ TaskQueue!Pop(Loop)
  /\ UNCHANGED <<timeout, should_notify_, wakevars, io, events, stop_, spawnvars, executed>>

\* Mutant of PopNothing: the result of pop is ignored.
PopResultIgnored ==
  /\ Go("popping", "run")
  /\ TaskQueue!PopEmpty(Loop)
  /\ UNCHANGED <<timeout, should_notify_, wakevars, io, events, stop_, spawnvars, executed>>

PopNothing ==
  /\ Go("popping", "arm")
  /\ TaskQueue!PopEmpty(Loop)
  /\ UNCHANGED <<timeout, should_notify_, wakevars, io, events, stop_, spawnvars, executed>>

\* Mutant of RunTask: a task popped after stop() is dropped.
TaskDroppedOnStop ==
  /\ Go("run", "pop")
  /\ executed' = IF stop_ THEN executed ELSE Append(executed, task[Loop])
  /\ UNCHANGED <<timeout, taskvars, should_notify_, wakevars, io, events, stop_, spawnvars>>

RunTask ==
  /\ Go("run", "pop")
  /\ executed' = Append(executed, task[Loop])
  /\ UNCHANGED <<timeout, taskvars, should_notify_, wakevars, io, events, stop_, spawnvars>>

\* Mutant of Arm: the flag is not set again.
ArmForgotten ==
  /\ Go("arm", "wait")
  /\ UNCHANGED <<timeout, taskvars, should_notify_, wakevars, io, events, stop_, spawnvars,
                 executed>>

Arm ==
  /\ Go("arm", "wait")
  /\ should_notify_' = TRUE
  /\ UNCHANGED <<timeout, taskvars, wakevars, io, events, stop_, spawnvars, executed>>

Ready == (IF edge /\ eventfd > 0 THEN {"dummy"} ELSE {}) \cup (IF io THEN {"conn"} ELSE {})

\* epoll_wait returns the ready events; edge triggered, so it takes them off the ready list.
WaitEvents ==
  /\ Ready # {}
  /\ Go("wait", "events")
  /\ \E n \in 1 .. 2 : events' \in Bijection(1 .. n, Ready)
  /\ edge' = FALSE /\ io' = FALSE
  /\ UNCHANGED <<timeout, taskvars, should_notify_, eventfd, stop_, spawnvars, executed>>

\* Mutant of WaitTimesOut: after a timeout the thread waits again at once.
TimeoutWaitsAgain ==
  /\ timeout /\ Ready = {}
  /\ Go("wait", "wait")
  /\ edge' = FALSE
  /\ UNCHANGED <<timeout, taskvars, should_notify_, eventfd, io, events, stop_, spawnvars,
                 executed>>

WaitTimesOut ==
  /\ timeout /\ Ready = {}
  /\ Go("wait", "while")
  /\ edge' = FALSE
  /\ UNCHANGED <<timeout, taskvars, should_notify_, eventfd, io, events, stop_, spawnvars,
                 executed>>

\* epoll_wait fails (a signal): the loop starts over.
WaitFails ==
  /\ Go("wait", "while")
  /\ UNCHANGED <<timeout, taskvars, should_notify_, wakevars, io, events, stop_, spawnvars,
                 executed>>

ReadEventfd ==
  /\ events # <<>> /\ Head(events) = "dummy"
  /\ Go("events", "disarm")
  /\ eventfd' = 0 /\ events' = Tail(events)
  /\ UNCHANGED <<timeout, taskvars, should_notify_, edge, io, stop_, spawnvars, executed>>

Disarm ==
  /\ Go("disarm", "events")
  /\ should_notify_' = FALSE
  /\ UNCHANGED <<timeout, taskvars, wakevars, io, events, stop_, spawnvars, executed>>

ResumeConn ==
  /\ events # <<>> /\ Head(events) = "conn"
  /\ Go("events", "resume")
  /\ events' = Tail(events)
  /\ UNCHANGED <<timeout, taskvars, should_notify_, wakevars, io, stop_, spawnvars, executed>>

ConnSuspends ==
  /\ Go("resume", "events")
  /\ UNCHANGED <<timeout, taskvars, should_notify_, wakevars, io, events, stop_, spawnvars,
                 executed>>

EventsDone ==
  /\ events = <<>>
  /\ Go("events", "while")
  /\ UNCHANGED <<timeout, taskvars, should_notify_, wakevars, io, events, stop_, spawnvars,
                 executed>>

\* external: data or space arrives on a socket
ConnEvent ==
  /\ ~io /\ io' = TRUE
  /\ UNCHANGED <<timeout, taskvars, should_notify_, wakevars, events, lpc, stop_, spawnvars,
                 executed>>

LoopStep == \/ While \/ CallPop \/ PopTask \/ PopNothing \/ RunTask \/ Arm \/ WaitEvents
            \/ WaitTimesOut \/ ReadEventfd \/ Disarm \/ ResumeConn \/ ConnSuspends \/ EventsDone

Next == \/ \E t \in Threads : Spawn(t)
        \/ LoopStep \/ WaitFails \/ Stop \/ ConnEvent

Spec == Init /\ [][Next]_vars

\* Threads are scheduled; nobody has to call spawn or stop, and no socket has to have an event.
Fairness == /\ WF_vars(LoopStep)
            /\ \A t \in Threads : WF_vars(SpawnCas(t) \/ SpawnWrite(t))

FairSpec == Spec /\ Fairness
-----------------------------------------------------------------------------
LoopPC == {"while", "pop", "popping", "run", "arm", "wait", "events", "disarm", "resume", "exited"}

\* Every variable has its type.
TypeOK ==
  /\ timeout \in BOOLEAN
  /\ queue \in Seq(Tasks)
  /\ task \in [{Loop} -> Tasks \cup {Pending, Empty}]
  /\ should_notify_ \in BOOLEAN /\ stop_ \in BOOLEAN
  /\ eventfd \in Nat /\ edge \in BOOLEAN /\ io \in BOOLEAN
  /\ events \in Seq({"dummy", "conn"})
  /\ lpc \in LoopPC
  /\ spc \in [Threads -> {"idle", "cas", "write"}]
  /\ spawned \in [Threads -> 0 .. MaxSpawns]
  /\ pushed \in Seq(Tasks) /\ executed \in Seq(Tasks)

\* While the loop is blocked in epoll_wait, should_notify_ is false only if the wakeup that the
\* winner of the CAS owes is pending or about to be written: the flag never swallows a wakeup,
\* so a spawn that finds it false can rely on someone else's.
WakeupNotSwallowed ==
  lpc = "wait" /\ ~should_notify_ =>
    (edge /\ eventfd > 0) \/ \E t \in Threads : spc[t] = "write"

\* The loop runs every task it pops once, in the order of the pushes: what was executed, the task
\* in hand and what is queued are together what was pushed.
TasksRunOnceInOrder ==
  pushed = executed \o (IF lpc = "run" THEN <<task[Loop]>> ELSE <<>>) \o queue

\* Every task is run in the end, unless the executor is told to stop
\* ("notify epoll to wake up to execute task", epoll_exector.cc:111).
SpawnedTasksRun ==
  \A t \in Tasks : t \in Range(pushed) ~> (t \in Range(executed) \/ stop_)

\* With a timeout the same holds, although a spawn may find should_notify_ false before the loop
\* waits: the timeout makes up for the wakeup that nobody sends (epoll_exector.cc:38-46).
TimedTasksRun ==
  \A t \in Tasks : (timeout /\ t \in Range(pushed)) ~> (t \in Range(executed) \/ stop_)

\* With a timeout stop() ends the thread, so that the destructor's join returns
\* (epoll_exector.cc:38, 92-104).
StopEndsThread == (timeout /\ stop_) ~> lpc = "exited"
=============================================================================
