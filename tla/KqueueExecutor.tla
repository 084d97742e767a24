--------------------------- MODULE KqueueExecutor --------------------------
(***************************************************************************)
(* scheduler/kqueue_executor.h and kqueue_executor.cc: the executor on     *)
(* macOS.  It differs from EpollExecutor in how its thread is woken: by a  *)
(* user event of the kqueue, which stop() triggers too, and whose trigger  *)
(* may fail.                                                               *)
(***************************************************************************)
EXTENDS Integers, Sequences, Functions

CONSTANTS Spawners,        \* the other threads that call spawn
          MaxSpawns,       \* bound: how many tasks each thread spawns
          TriggerMayFail   \* whether the kevent call of spawn may return -1

Loop == "loop"
Threads == Spawners \cup {Loop}

ASSUME SpawnersAssumption == Loop \notin Spawners
ASSUME MaxSpawnsAssumption == MaxSpawns \in Nat
ASSUME TriggerAssumption == TriggerMayFail \in BOOLEAN

VARIABLES
  timeout,           \* the timeout of the constructor is >= 0
  queue, task,       \* task_queue_, and the outcome of the loop's pop
  should_notify_,
  triggered,         \* the user event is pending
  io,                \* some connection has an event
  events,            \* the events of this round that are not handled yet
  lpc,               \* where the loop is
  stop_, stopper,    \* the flag, and where the call of stop is
  spc, spawned,      \* per thread: where its call of spawn is, and how many it made
  pushed, executed   \* history: the tasks pushed and the tasks run, in order

stopvars == <<stop_, stopper>>
spawnvars == <<spc, spawned, pushed>>
loopvars == <<task, io, events, lpc, executed>>
vars == <<timeout, queue, should_notify_, triggered, stopvars, spawnvars, loopvars>>

Pending == <<"pending">>
Empty == <<"empty">>
Tasks == Threads \X (0 .. MaxSpawns - 1)

TaskQueue == INSTANCE FifoQueue WITH Values <- Tasks, Consumers <- {Loop}, result <- task

Init == /\ timeout \in BOOLEAN
        /\ TaskQueue!Init
        /\ should_notify_ = TRUE /\ triggered = FALSE
        /\ io = FALSE /\ events = <<>> /\ lpc = "while"
        /\ stop_ = FALSE /\ stopper = "idle"
        /\ spc = [t \in Threads |-> "idle"]
        /\ spawned = [t \in Threads |-> 0]
        /\ pushed = <<>> /\ executed = <<>>
-----------------------------------------------------------------------------
(* spawn and stop *)
MayCallSpawn(t) == t = Loop => lpc \in {"run", "resume"}
GoS(t, from, to) == spc[t] = from /\ spc' = [spc EXCEPT ![t] = to]

SpawnPush(t) ==
  /\ spawned[t] < MaxSpawns /\ MayCallSpawn(t)
  /\ GoS(t, "idle", "cas")
  /\ TaskQueue!Push(<<t, spawned[t]>>)
  /\ pushed' = Append(pushed, <<t, spawned[t]>>)
  /\ spawned' = [spawned EXCEPT ![t] = @ + 1]
  /\ UNCHANGED <<timeout, should_notify_, triggered, stopvars, io, events, lpc, executed>>

SpawnCas(t) ==
  /\ GoS(t, "cas", IF should_notify_ THEN "trigger" ELSE "idle")
  /\ should_notify_' = FALSE
  /\ UNCHANGED <<timeout, queue, triggered, stopvars, spawned, pushed, loopvars>>

SpawnTrigger(t) ==
  /\ GoS(t, "trigger", "idle")
  /\ triggered' = TRUE
  /\ UNCHANGED <<timeout, queue, should_notify_, stopvars, spawned, pushed, loopvars>>

SpawnTriggerFails(t) ==
  /\ TriggerMayFail
  /\ GoS(t, "trigger", "rearm")
  /\ UNCHANGED <<timeout, queue, should_notify_, triggered, stopvars, spawned, pushed, loopvars>>

\* Mutant of SpawnRearm: the flag is left false after a failed trigger.
RearmForgotten(t) ==
  /\ GoS(t, "rearm", "idle")
  /\ UNCHANGED <<timeout, queue, should_notify_, triggered, stopvars, spawned, pushed, loopvars>>

\* The flag is set again and spawn returns false; the task stays in the queue.
SpawnRearm(t) ==
  /\ GoS(t, "rearm", "idle")
  /\ should_notify_' = TRUE
  /\ UNCHANGED <<timeout, queue, triggered, stopvars, spawned, pushed, loopvars>>

SpawnStep(t) == SpawnCas(t) \/ SpawnTrigger(t) \/ SpawnTriggerFails(t) \/ SpawnRearm(t)

StopSet ==
  /\ stopper = "idle" /\ stopper' = "trigger"
  /\ stop_' = TRUE
  /\ UNCHANGED <<timeout, queue, should_notify_, triggered, spawnvars, loopvars>>

\* Mutant of StopTrigger: stop() only sets the flag.
StopSilent ==
  /\ stopper = "trigger" /\ stopper' = "done"
  /\ UNCHANGED <<timeout, queue, should_notify_, triggered, stop_, spawnvars, loopvars>>

StopTrigger ==
  /\ stopper = "trigger" /\ stopper' = "done"
  /\ triggered' = TRUE
  /\ UNCHANGED <<timeout, queue, should_notify_, stop_, spawnvars, loopvars>>
-----------------------------------------------------------------------------
(* The thread *)
Go(from, to) == lpc = from /\ spc[Loop] = "idle" /\ lpc' = to

While ==
  /\ Go("while", IF stop_ THEN "exited" ELSE "pop")
  /\ UNCHANGED <<timeout, queue, should_notify_, triggered, stopvars, spawnvars, task, io, events,
                 executed>>

CallPop ==
  /\ Go("pop", "popping") /\ TaskQueue!CallPop(Loop)
  /\ UNCHANGED <<timeout, should_notify_, triggered, stopvars, spawnvars, io, events, executed>>

PopTask ==
  /\ Go("popping", "run") /\ TaskQueue!Pop(Loop)
  /\ UNCHANGED <<timeout, should_notify_, triggered, stopvars, spawnvars, io, events, executed>>

\* Mutant of PopNothing: the result of pop is ignored.
PopResultIgnored ==
  /\ Go("popping", "run") /\ TaskQueue!PopEmpty(Loop)
  /\ UNCHANGED <<timeout, should_notify_, triggered, stopvars, spawnvars, io, events, executed>>

PopNothing ==
  /\ Go("popping", "arm") /\ TaskQueue!PopEmpty(Loop)
  /\ UNCHANGED <<timeout, should_notify_, triggered, stopvars, spawnvars, io, events, executed>>

RunTask ==
  /\ Go("run", "pop")
  /\ executed' = Append(executed, task[Loop])
  /\ UNCHANGED <<timeout, queue, should_notify_, triggered, stopvars, spawnvars, task, io, events>>

Arm ==
  /\ Go("arm", "wait")
  /\ should_notify_' = TRUE
  /\ UNCHANGED <<timeout, queue, triggered, stopvars, spawnvars, task, io, events, executed>>

Ready == (IF triggered THEN {"user"} ELSE {}) \cup (IF io THEN {"conn"} ELSE {})

\* kevent returns what is ready; EV_CLEAR resets it.
WaitEvents ==
  /\ Ready # {}
  /\ Go("wait", "events")
  /\ \E n \in 1 .. 2 : events' \in Bijection(1 .. n, Ready)
  /\ triggered' = FALSE /\ io' = FALSE
  /\ UNCHANGED <<timeout, queue, should_notify_, stopvars, spawnvars, task, executed>>

\* Mutant of WaitTimesOut: after a timeout the thread waits again at once.
TimeoutWaitsAgain ==
  /\ timeout /\ Ready = {} /\ Go("wait", "wait")
  /\ UNCHANGED <<timeout, queue, should_notify_, triggered, stopvars, spawnvars, task, io, events,
                 executed>>

WaitTimesOut ==
  /\ timeout /\ Ready = {} /\ Go("wait", "while")
  /\ UNCHANGED <<timeout, queue, should_notify_, triggered, stopvars, spawnvars, task, io, events,
                 executed>>

\* kevent returns -1 (EINTR): the loop starts over.
WaitFails ==
  /\ Go("wait", "while")
  /\ UNCHANGED <<timeout, queue, should_notify_, triggered, stopvars, spawnvars, task, io, events,
                 executed>>

Disarm ==
  /\ events # <<>> /\ Head(events) = "user" /\ Go("events", "events")
  /\ should_notify_' = FALSE /\ events' = Tail(events)
  /\ UNCHANGED <<timeout, queue, triggered, stopvars, spawnvars, task, io, executed>>

ResumeConn ==
  /\ events # <<>> /\ Head(events) = "conn" /\ Go("events", "resume")
  /\ events' = Tail(events)
  /\ UNCHANGED <<timeout, queue, should_notify_, triggered, stopvars, spawnvars, task, io,
                 executed>>

ConnSuspends ==
  /\ Go("resume", "events")
  /\ UNCHANGED <<timeout, queue, should_notify_, triggered, stopvars, spawnvars, task, io, events,
                 executed>>

EventsDone ==
  /\ events = <<>> /\ Go("events", "while")
  /\ UNCHANGED <<timeout, queue, should_notify_, triggered, stopvars, spawnvars, task, io, events,
                 executed>>

\* external: data or space arrives on a socket
ConnEvent ==
  /\ ~io /\ io' = TRUE
  /\ UNCHANGED <<timeout, queue, should_notify_, triggered, stopvars, spawnvars, task, events,
                 lpc, executed>>

LoopStep == \/ While \/ CallPop \/ PopTask \/ PopNothing \/ RunTask \/ Arm \/ WaitEvents
            \/ WaitTimesOut \/ Disarm \/ ResumeConn \/ ConnSuspends \/ EventsDone

Next == \/ \E t \in Threads : SpawnPush(t) \/ SpawnStep(t)
        \/ StopSet \/ StopTrigger
        \/ LoopStep \/ WaitFails \/ ConnEvent

Spec == Init /\ [][Next]_vars

\* Threads are scheduled; nobody has to call spawn or stop, and no socket has to have an event.
Fairness == /\ WF_vars(LoopStep) /\ WF_vars(StopTrigger)
            /\ \A t \in Threads : WF_vars(SpawnStep(t))

FairSpec == Spec /\ Fairness
-----------------------------------------------------------------------------
LoopPC == {"while", "pop", "popping", "run", "arm", "wait", "events", "resume", "exited"}

\* Every variable has its type.
TypeOK ==
  /\ timeout \in BOOLEAN
  /\ queue \in Seq(Tasks)
  /\ task \in [{Loop} -> Tasks \cup {Pending, Empty}]
  /\ should_notify_ \in BOOLEAN /\ stop_ \in BOOLEAN /\ stopper \in {"idle", "trigger", "done"}
  /\ triggered \in BOOLEAN /\ io \in BOOLEAN
  /\ events \in Seq({"user", "conn"})
  /\ lpc \in LoopPC
  /\ spc \in [Threads -> {"idle", "cas", "trigger", "rearm"}]
  /\ spawned \in [Threads -> 0 .. MaxSpawns]
  /\ pushed \in Seq(Tasks) /\ executed \in Seq(Tasks)

\* While the loop is blocked in kevent, should_notify_ is false only if the user event is pending
\* or a spawn is about to trigger it, or to set the flag again because its trigger failed.
WakeupNotSwallowed ==
  lpc = "wait" /\ ~should_notify_ =>
    triggered \/ \E t \in Threads : spc[t] \in {"trigger", "rearm"}

\* With a timeout, every task that was pushed is run in the end, also one whose spawn returned
\* false, unless the executor is told to stop (kqueue_executor.cc:34-51, 131-136).
TimedTasksRun ==
  \A t \in Tasks : (timeout /\ t \in Range(pushed)) ~> (t \in Range(executed) \/ stop_)

\* stop() ends the thread ("Trigger user event to wake up the loop", kqueue_executor.cc:113),
\* so that the destructor's join returns, also when the wait has no timeout.
StopEndsThread == stop_ ~> lpc = "exited"
=============================================================================
