--------------------------- MODULE ExecutorProofs ---------------------------
(***************************************************************************)
(* For any number of threads and spawns: EpollExecutor is type correct,    *)
(* runs every task it pops once and in order, and never swallows a wakeup. *)
(* KqueueExecutor, here K, with and without timeouts and failing triggers, *)
(* is type correct and never swallows a wakeup.                            *)
(***************************************************************************)
EXTENDS EpollExecutor, TLAPS

\* The task in hand, as a sequence.
InHand == IF lpc = "run" THEN <<task[Loop]>> ELSE <<>>

\* The inductive invariant: what RunTask runs is a task that pop returned.
Inv == /\ TypeOK
       /\ lpc = "popping" => task[Loop] = Pending
       /\ lpc = "run" => task[Loop] \in Tasks
       /\ WakeupNotSwallowed
       /\ TasksRunOnceInOrder

\* A function on the first n numbers is a sequence.
LEMMA ListSeq == ASSUME NEW S, NEW n \in Nat, NEW s \in [1 .. n -> S] PROVE s \in Seq(S)
OBVIOUS

\* epoll_wait reports the eventfd and connections, each at most once.
LEMMA ReadySeqs == \A n \in 1 .. 2 : \A s \in Bijection(1 .. n, Ready) : s \in Seq({"dummy", "conn"})
<1> TAKE n \in 1 .. 2
<1> TAKE s \in Bijection(1 .. n, Ready)
<1>1. Ready \subseteq {"dummy", "conn"} BY DEF Ready
<1>2. s \in [1 .. n -> Ready] BY Zenon DEF Bijection, Injection
<1>3. s \in [1 .. n -> {"dummy", "conn"}] BY <1>1, <1>2, Zenon
<1>4. QED BY <1>3, ListSeq

\* Appending to the second of two sequences appends to their concatenation.
LEMMA AppendRight ==
  ASSUME NEW S, NEW f \in Seq(S), NEW q \in Seq(S), NEW t \in S
  PROVE  f \o Append(q, t) = Append(f \o q, t)
OBVIOUS

\* Queueing a task appends it to what is to run.
LEMMA PushRuns ==
  ASSUME NEW e \in Seq(Tasks), NEW h \in Seq(Tasks), NEW q \in Seq(Tasks), NEW t \in Tasks
  PROVE  e \o h \o Append(q, t) = Append(e \o h \o q, t)
<1>1. e \o h \in Seq(Tasks)
  OBVIOUS
<1>2. QED BY <1>1, AppendRight

\* Taking the head of the queue in hand leaves what is to run as it was.
LEMMA PopRuns ==
  ASSUME NEW e \in Seq(Tasks), NEW t \in Tasks, NEW q \in Seq(Tasks)
  PROVE  (e \o <<t>>) \o q = e \o (<<t>> \o q)
<1>1. <<t>> \in Seq(Tasks) OBVIOUS
<1>2. QED BY <1>1

\* The invariant holds when the executor is constructed.
LEMMA InitInv == Init => Inv
<1> SUFFICES ASSUME Init PROVE Inv OBVIOUS
<1>1. \A S : <<>> \in Seq(S) OBVIOUS
<1>2. TypeOK
  <2>1. task \in [{Loop} -> Tasks \cup {Pending, Empty}] BY DEF Init, TaskQueue!Init
  <2>2. queue \in Seq(Tasks) BY <1>1 DEF Init, TaskQueue!Init
  <2>3. spawned \in [Threads -> 0 .. MaxSpawns] BY MaxSpawnsAssumption DEF Init
  <2>4. QED BY <1>1, <2>1, <2>2, <2>3, Zenon DEF Init, TypeOK, LoopPC
<1>3. TasksRunOnceInOrder BY <1>1 DEF Init, TasksRunOnceInOrder, TaskQueue!Init
<1>4. QED BY <1>2, <1>3 DEF Init, Inv, WakeupNotSwallowed

\* Every step of every thread preserves the invariant.
LEMMA NextInv == Inv /\ [Next]_vars => Inv'
<1> SUFFICES ASSUME Inv, [Next]_vars PROVE Inv' OBVIOUS
<1> USE DEF Inv, TypeOK, taskvars, wakevars, spawnvars
<1>1. ASSUME NEW t \in Threads, SpawnPush(t) PROVE Inv'
  <2>1. <<t, spawned[t]>> \in Tasks BY <1>1, MaxSpawnsAssumption DEF SpawnPush, Tasks
  <2>2. TypeOK' BY <1>1, <2>1, MaxSpawnsAssumption DEF SpawnPush, TaskQueue!Push
  <2>3. TasksRunOnceInOrder'
    <3>1. InHand \in Seq(Tasks) BY DEF InHand
    <3>2. InHand' = InHand BY <1>1 DEF SpawnPush, TaskQueue!Push, InHand
    <3>3. executed \o InHand \o Append(queue, <<t, spawned[t]>>)
            = Append(executed \o InHand \o queue, <<t, spawned[t]>>)
      <4>1. queue \in Seq(Tasks) /\ executed \in Seq(Tasks) OBVIOUS
      <4> HIDE DEF Inv, TypeOK, taskvars, wakevars, spawnvars
      <4>2. QED BY <2>1, <3>1, <4>1, PushRuns, Zenon
    <3>4. QED BY <1>1, <3>2, <3>3, Zenon DEF SpawnPush, TaskQueue!Push, TasksRunOnceInOrder, InHand
  <2>4. WakeupNotSwallowed' BY <1>1 DEF SpawnPush, WakeupNotSwallowed
  <2>5. QED BY <1>1, <2>2, <2>3, <2>4 DEF SpawnPush, TaskQueue!Push
<1>2. ASSUME NEW t \in Threads, SpawnCas(t) PROVE Inv'
  BY <1>2, Zenon DEF SpawnCas, WakeupNotSwallowed, TasksRunOnceInOrder
<1>3. ASSUME NEW t \in Threads, SpawnWrite(t) PROVE Inv'
  BY <1>3 DEF SpawnWrite, WakeupNotSwallowed, TasksRunOnceInOrder
<1>4. CASE While
  BY <1>4 DEF While, Go, LoopPC, WakeupNotSwallowed, TasksRunOnceInOrder
<1>5. CASE CallPop
  BY <1>5 DEF CallPop, Go, LoopPC, WakeupNotSwallowed, TasksRunOnceInOrder, TaskQueue!CallPop
<1>6. CASE PopTask
  <2>1. /\ queue # <<>> /\ queue' = Tail(queue) /\ lpc = "popping" /\ lpc' = "run"
        /\ task' = [task EXCEPT ![Loop] = Head(queue)]
    BY <1>6 DEF PopTask, Go, TaskQueue!Pop
  <2>2. Head(queue) \in Tasks /\ Tail(queue) \in Seq(Tasks) BY <2>1
  <2>3. TypeOK' /\ task'[Loop] = Head(queue) BY <1>6, <2>1, <2>2 DEF PopTask, LoopPC
  <2>4. TasksRunOnceInOrder'
    <3>1. queue = <<Head(queue)>> \o Tail(queue) BY <2>1
    <3>2. executed \o <<>> = executed OBVIOUS
    <3>3. (executed \o <<Head(queue)>>) \o Tail(queue) = executed \o (<<Head(queue)>> \o Tail(queue))
      <4>1. executed \in Seq(Tasks) OBVIOUS
      <4> HIDE DEF Inv, TypeOK, taskvars, wakevars, spawnvars
      <4>2. QED BY <2>2, <4>1, PopRuns
    <3>4. QED BY <1>6, <2>1, <2>3, <3>1, <3>2, <3>3, Zenon DEF PopTask, TasksRunOnceInOrder
  <2>5. QED BY <1>6, <2>1, <2>2, <2>3, <2>4 DEF PopTask, WakeupNotSwallowed
<1>7. CASE PopNothing
  BY <1>7 DEF PopNothing, Go, LoopPC, WakeupNotSwallowed, TasksRunOnceInOrder, TaskQueue!PopEmpty
<1>8. CASE RunTask
  <2>1. TypeOK' BY <1>8 DEF RunTask, Go, LoopPC
  <2>2. TasksRunOnceInOrder'
    <3>1. executed' = executed \o <<task[Loop]>> BY <1>8 DEF RunTask, Go
    <3>2. executed' \o <<>> = executed' BY <2>1
    <3>3. QED BY <1>8, <3>1, <3>2 DEF RunTask, Go, TasksRunOnceInOrder
  <2>3. QED BY <1>8, <2>1, <2>2 DEF RunTask, Go, WakeupNotSwallowed
<1>9. CASE Arm
  BY <1>9 DEF Arm, Go, LoopPC, WakeupNotSwallowed, TasksRunOnceInOrder
<1>10. CASE WaitEvents
  BY <1>10, ReadySeqs, Zenon DEF WaitEvents, Go, LoopPC, WakeupNotSwallowed, TasksRunOnceInOrder
<1>11. CASE WaitTimesOut
  BY <1>11, Zenon DEF WaitTimesOut, Go, LoopPC, WakeupNotSwallowed, TasksRunOnceInOrder
<1>12. CASE WaitFails
  BY <1>12 DEF WaitFails, Go, LoopPC, WakeupNotSwallowed, TasksRunOnceInOrder
<1>13. CASE ReadEventfd
  BY <1>13 DEF ReadEventfd, Go, LoopPC, WakeupNotSwallowed, TasksRunOnceInOrder
<1>14. CASE Disarm
  BY <1>14, Zenon DEF Disarm, Go, LoopPC, WakeupNotSwallowed, TasksRunOnceInOrder
<1>15. CASE ResumeConn
  BY <1>15 DEF ResumeConn, Go, LoopPC, WakeupNotSwallowed, TasksRunOnceInOrder
<1>16. CASE ConnSuspends
  BY <1>16 DEF ConnSuspends, Go, LoopPC, WakeupNotSwallowed, TasksRunOnceInOrder
<1>17. CASE EventsDone
  BY <1>17 DEF EventsDone, Go, LoopPC, WakeupNotSwallowed, TasksRunOnceInOrder
<1>18. CASE Stop
  BY <1>18 DEF Stop, WakeupNotSwallowed, TasksRunOnceInOrder
<1>19. CASE ConnEvent
  BY <1>19 DEF ConnEvent, WakeupNotSwallowed, TasksRunOnceInOrder
<1>20. CASE UNCHANGED vars
  <2>1. TypeOK' BY <1>20 DEF vars
  <2>2. WakeupNotSwallowed' BY <1>20 DEF vars, WakeupNotSwallowed
  <2>3. TasksRunOnceInOrder' BY <1>20 DEF vars, TasksRunOnceInOrder
  <2>4. QED BY <1>20, <2>1, <2>2, <2>3 DEF vars
<1>21. QED
  BY <1>1, <1>2, <1>3, <1>4, <1>5, <1>6, <1>7, <1>8, <1>9, <1>10, <1>11, <1>12, <1>13, <1>14,
     <1>15, <1>16, <1>17, <1>18, <1>19, <1>20, Zenon DEF Next, Spawn, LoopStep

\* Every variable of the executor has its type, whatever the threads do.
THEOREM TypeCorrect == Spec => []TypeOK
BY InitInv, NextInv, PTL DEF Spec, Inv

\* No interleaving of spawn with the loop swallows a wakeup: while the loop is blocked, a false
\* should_notify_ means that a wakeup is pending or about to be written (epoll_exector.cc:44-62,
\* 111-116), for any number of spawning threads.
THEOREM WakeupSafe == Spec => []WakeupNotSwallowed
BY InitInv, NextInv, PTL DEF Spec, Inv

\* The loop runs the tasks in the order of the pushes, each once (epoll_exector.cc:38-42).
THEOREM TasksInOrder == Spec => []TasksRunOnceInOrder
BY InitInv, NextInv, PTL DEF Spec, Inv
-----------------------------------------------------------------------------
(* KqueueExecutor *)
CONSTANT TriggerMayFail
VARIABLES triggered, stopper

K == INSTANCE KqueueExecutor

\* The inductive invariant: what RunTask runs is a task that pop returned.
KInv == /\ K!TypeOK
        /\ lpc = "run" => task[K!Loop] \in K!Tasks
        /\ K!WakeupNotSwallowed

\* kevent reports the user event and connections, each at most once.
LEMMA KReadySeqs == \A n \in 1 .. 2 : \A s \in K!Bijection(1 .. n, K!Ready) : s \in Seq({"user", "conn"})
<1> TAKE n \in 1 .. 2
<1> TAKE s \in K!Bijection(1 .. n, K!Ready)
<1>1. K!Ready \subseteq {"user", "conn"} BY DEF K!Ready
<1>2. s \in [1 .. n -> K!Ready] BY Zenon DEF K!Bijection, K!Injection
<1>3. s \in [1 .. n -> {"user", "conn"}] BY <1>1, <1>2, Zenon
<1>4. QED BY <1>3, ListSeq

\* The invariant holds when the executor is constructed.
LEMMA KInitInv == K!Init => KInv
<1> SUFFICES ASSUME K!Init PROVE KInv OBVIOUS
<1>1. \A S : <<>> \in Seq(S) OBVIOUS
<1>2. task \in [{K!Loop} -> K!Tasks \cup {K!Pending, K!Empty}] BY DEF K!Init, K!TaskQueue!Init
<1>3. queue \in Seq(K!Tasks) BY <1>1 DEF K!Init, K!TaskQueue!Init
<1>4. spawned \in [K!Threads -> 0 .. MaxSpawns] BY MaxSpawnsAssumption DEF K!Init
<1>5. K!TypeOK BY <1>1, <1>2, <1>3, <1>4, Zenon DEF K!Init, K!TypeOK, K!LoopPC
<1>6. QED BY <1>5 DEF K!Init, KInv, K!WakeupNotSwallowed

\* Every step of spawn, and of stop, preserves the invariant.
LEMMA KCallerInv ==
  KInv /\ (K!StopSet \/ K!StopTrigger \/ \E t \in K!Threads : K!SpawnPush(t) \/ K!SpawnStep(t)) => KInv'
<1> USE DEF KInv, K!TypeOK, K!spawnvars, K!loopvars, K!stopvars, K!GoS, K!WakeupNotSwallowed
<1>1. ASSUME KInv, NEW t \in K!Threads, K!SpawnPush(t) PROVE KInv'
  <2>1. <<t, spawned[t]>> \in K!Tasks BY <1>1, MaxSpawnsAssumption DEF K!SpawnPush, K!Tasks
  <2>2. /\ spawned' \in [K!Threads -> 0 .. MaxSpawns]
        /\ queue' \in Seq(K!Tasks) /\ pushed' \in Seq(K!Tasks)
    BY <1>1, <2>1, MaxSpawnsAssumption DEF K!SpawnPush, K!TaskQueue!Push
  <2>3. QED BY <1>1, <2>2 DEF K!SpawnPush, K!TaskQueue!Push
<1>2. ASSUME KInv, NEW t \in K!Threads, K!SpawnCas(t) PROVE KInv'
  BY <1>2, Zenon DEF K!SpawnCas
<1>3. ASSUME KInv, NEW t \in K!Threads, K!SpawnTrigger(t) PROVE KInv'
  BY <1>3 DEF K!SpawnTrigger
<1>4. ASSUME KInv, NEW t \in K!Threads, K!SpawnTriggerFails(t) PROVE KInv'
  BY <1>4 DEF K!SpawnTriggerFails
<1>5. ASSUME KInv, NEW t \in K!Threads, K!SpawnRearm(t) PROVE KInv'
  BY <1>5 DEF K!SpawnRearm
<1>6. ASSUME KInv, K!StopSet PROVE KInv' BY <1>6 DEF K!StopSet
<1>7. ASSUME KInv, K!StopTrigger PROVE KInv' BY <1>7 DEF K!StopTrigger
<1>8. QED BY <1>1, <1>2, <1>3, <1>4, <1>5, <1>6, <1>7, Zenon DEF K!SpawnStep

\* Every step of the executor's own thread preserves the invariant.
LEMMA KLoopInv == KInv /\ (K!LoopStep \/ K!WaitFails) => KInv'
<1> SUFFICES ASSUME KInv, K!LoopStep \/ K!WaitFails PROVE KInv' OBVIOUS
<1> USE DEF KInv, K!TypeOK, K!spawnvars, K!stopvars, K!Go, K!LoopPC, K!WakeupNotSwallowed
<1>1. CASE K!While BY <1>1 DEF K!While
<1>2. CASE K!CallPop BY <1>2 DEF K!CallPop, K!TaskQueue!CallPop
<1>3. CASE K!PopTask
  <2>1. Head(queue) \in K!Tasks /\ Tail(queue) \in Seq(K!Tasks)
    BY <1>3 DEF K!PopTask, K!TaskQueue!Pop
  <2>2. QED BY <1>3, <2>1 DEF K!PopTask, K!TaskQueue!Pop
<1>4. CASE K!PopNothing BY <1>4 DEF K!PopNothing, K!TaskQueue!PopEmpty
<1>5. CASE K!RunTask BY <1>5 DEF K!RunTask
<1>6. CASE K!Arm BY <1>6 DEF K!Arm
<1>7. CASE K!WaitEvents BY <1>7, KReadySeqs, Zenon DEF K!WaitEvents
<1>8. CASE K!WaitTimesOut BY <1>8 DEF K!WaitTimesOut
<1>9. CASE K!WaitFails BY <1>9 DEF K!WaitFails
<1>10. CASE K!Disarm
  <2>1. Tail(events) \in Seq({"user", "conn"}) BY <1>10 DEF K!Disarm
  <2>2. QED BY <1>10, <2>1, Zenon DEF K!Disarm
<1>11. CASE K!ResumeConn BY <1>11 DEF K!ResumeConn
<1>12. CASE K!ConnSuspends BY <1>12 DEF K!ConnSuspends
<1>13. CASE K!EventsDone BY <1>13 DEF K!EventsDone
<1>14. QED
  BY <1>1, <1>2, <1>3, <1>4, <1>5, <1>6, <1>7, <1>8, <1>9, <1>10, <1>11, <1>12, <1>13, Zenon
     DEF K!LoopStep

\* Every step preserves the invariant.
LEMMA KNextInv == KInv /\ [K!Next]_K!vars => KInv'
<1>1. KInv /\ K!ConnEvent => KInv'
  BY DEF K!ConnEvent, KInv, K!TypeOK, K!spawnvars, K!stopvars, K!WakeupNotSwallowed
<1>2. KInv /\ UNCHANGED K!vars => KInv'
  BY DEF K!vars, KInv, K!TypeOK, K!spawnvars, K!loopvars, K!stopvars, K!WakeupNotSwallowed
<1>3. QED BY <1>1, <1>2, KCallerInv, KLoopInv DEF K!Next

\* Every variable of the executor has its type, whatever the threads do.
THEOREM KqueueTypeCorrect == K!Spec => []K!TypeOK
BY KInitInv, KNextInv, PTL DEF K!Spec, KInv

\* While the loop is blocked in kevent, a false should_notify_ means that the user event is
\* pending, or that a spawn is about to trigger it or to set the flag again after a failed
\* trigger (kqueue_executor.cc:49-66, 126-138).
THEOREM KqueueWakeupSafe == K!Spec => []K!WakeupNotSwallowed
BY KInitInv, KNextInv, PTL DEF K!Spec, KInv
=============================================================================
