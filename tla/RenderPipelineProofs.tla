------------------------ MODULE RenderPipelineProofs ------------------------
(***************************************************************************)
(* Theorems about RenderPipeline, for every set of keys, processes and     *)
(* stamps and every value of the bounds: the safety of the processes, and  *)
(* that every step of the threads, processes and clock is a step of        *)
(* DesiredWork or changes nothing that DesiredWork sees.                   *)
(***************************************************************************)
EXTENDS RenderPipeline, TLAPS

(* Options *)

\* An Option holds at most one element, and that element is of its type.
LEMMA OptionElim ==
  ASSUME NEW S, NEW o \in Option(S), NEW x \in o
  PROVE  o = {x} /\ x \in S
BY DEF Option

LEMMA OptionIntro ==
  ASSUME NEW S
  PROVE  {} \in Option(S) /\ \A x \in S : {x} \in Option(S)
BY DEF Option

\* What the options of a well-typed state hold.
LEMMA Contents ==
  ASSUME TypeOK
  PROVE  /\ \A x \in plan    : plan = {x}    /\ x \in Plan
         /\ \A x \in active  : active = {x}  /\ x \in Active
         /\ \A x \in job     : job = {x}     /\ x \in Job
         /\ \A x \in process : process = {x} /\ x \in Process
         /\ \A x \in child   : child = {x}   /\ x \in Pids
BY OptionElim DEF TypeOK

\* A job list holds keys.
LEMMA JobsAreKeys ==
  ASSUME NEW p \in Plan
  PROVE  /\ p.session \in Sessions /\ p.revision \in Revisions
         /\ \A i \in DOMAIN p.jobs : p.jobs[i] \in Keys
         /\ JobSet(p) \subseteq Keys
<1>1. p.jobs \in JobLists /\ p.session \in Sessions /\ p.revision \in Revisions
  BY DEF Plan
<1>2. PICK n \in 0..MaxJobs : p.jobs \in [1..n -> Keys]
  BY <1>1 DEF JobLists
<1>3. QED
  BY <1>1, <1>2 DEF JobSet

LEMMA BoundsAreNat ==
  /\ Capacity \in Nat \ {0} /\ MaxRevision \in Nat /\ MaxSession \in Nat
  /\ Sessions \subseteq 0..MaxSession /\ Revisions \subseteq 0..MaxRevision
BY ConstantsAssumption DEF Sessions, Revisions

\* Reconciling the done set keeps it a set of keys.
LEMMA ReconciledKeys ==
  ASSUME done \subseteq Keys, NEW p \in Plan
  PROVE  Reconciled(p) \subseteq Keys
BY DEF Reconciled

\* What the supervisor remembers of a plan it has seen.
LEMMA ObserveTypes ==
  ASSUME NEW p \in Plan, Observe(p)
  PROVE  seen' \in [session : 0..MaxSession, revision : 0..MaxRevision]
<1>1. p.session \in 0..MaxSession /\ p.revision \in 0..MaxRevision
  <2>1. p.session \in Sessions /\ p.revision \in Revisions
    BY JobsAreKeys
  <2>2. QED
    BY <2>1, BoundsAreNat
<1>2. seen' = [session |-> p.session, revision |-> p.revision]
  BY DEF Observe
<1>3. QED
  BY <1>1, <1>2

\* What Pick establishes about the supervisor's locals.
LEMMA PickTypes ==
  ASSUME TypeOK, NEW k, Pick(k)
  PROVE  /\ done' \subseteq Keys
         /\ seen' \in [session : 0..MaxSession, revision : 0..MaxRevision]
         /\ \E p \in plan : job' = {[session |-> p.session, key |-> k]}
         /\ job' \in Option(Job)
         /\ k \in Keys
<1>1. PICK p \in plan : \E i \in DOMAIN p.jobs :
        /\ k = p.jobs[i] /\ Observe(p) /\ done' = Reconciled(p) \cup {k}
        /\ job' = {[session |-> p.session, key |-> k]}
  BY DEF Pick
<1>2. p \in Plan
  BY Contents
<1>3. k \in Keys /\ p.session \in Sessions /\ p.revision \in Revisions
  BY <1>1, <1>2, JobsAreKeys
<1>4. Reconciled(p) \subseteq Keys
  BY <1>2, ReconciledKeys DEF TypeOK
<1>5. seen' \in [session : 0..MaxSession, revision : 0..MaxRevision]
  BY <1>1, <1>2, ObserveTypes
<1>6. [session |-> p.session, key |-> k] \in Job
  BY <1>3 DEF Job
<1>7. job' \in Option(Job)
  BY <1>1, <1>6, OptionIntro
<1>8. QED
  BY <1>1, <1>3, <1>4, <1>5, <1>7

(* Processes *)

\* Killing or reaping the slot leaves every process a process.
LEMMA SlotTypes ==
  ASSUME worker \in [Pids -> Worker], KillSlot \/ StopChild
  PROVE  worker' \in [Pids -> Worker]
<1>1. NoWorker \in Worker
  BY BoundsAreNat DEF NoWorker, Worker
<1>2. CASE KillSlot
  BY <1>2 DEF KillSlot, Worker
<1>3. CASE StopChild
  BY <1>3, <1>1 DEF StopChild
<1>4. QED
  BY <1>2, <1>3

\* A process that answers, hangs, is asked or dies is still a process.
LEMMA UpdateTypes ==
  ASSUME worker \in [Pids -> Worker], NEW p \in Pids
  PROVE  /\ \A r \in {"idle", "busy", "hung", "ok", "err"} :
              [worker EXCEPT ![p].reply = r] \in [Pids -> Worker]
         /\ [worker EXCEPT ![p].state = "dead"] \in [Pids -> Worker]
<1>1. worker[p] \in Worker
  OBVIOUS
<1>2. \A r \in {"idle", "busy", "hung", "ok", "err"} :
        [worker[p] EXCEPT !.reply = r] \in Worker
  BY <1>1 DEF Worker
<1>3. [worker[p] EXCEPT !.state = "dead"] \in Worker
  BY <1>1 DEF Worker
<1>4. QED
  BY <1>2, <1>3

-----------------------------------------------------------------------------

LEMMA TypeInit == Init => TypeOK
<1> SUFFICES ASSUME Init PROVE TypeOK
  OBVIOUS
<1>1. NoWorker \in Worker
  BY BoundsAreNat DEF NoWorker, Worker
<1>2. worker \in [Pids -> Worker]
  BY <1>1 DEF Init
<1>3. seen \in [session : 0..MaxSession, revision : 0..MaxRevision]
  BY BoundsAreNat DEF Init
<1>4. channel \in Seq(Event) /\ Len(channel) <= Capacity
  BY BoundsAreNat DEF Init
<1>5. QED
  BY <1>2, <1>3, <1>4, OptionIntro DEF Init, TypeOK

\* Every step keeps the variables in their types.
LEMMA TypeStep == TypeOK /\ [Next]_vars => TypeOK'
<1> SUFFICES ASSUME TypeOK, [Next]_vars PROVE TypeOK'
  OBVIOUS
<1>1. ASSUME NEW s \in Sessions, NEW jobs \in JobLists, Submit(s, jobs)
      PROVE  TypeOK'
  <2>1. Revision \in Nat
    <3>1. CASE plan = {}
      BY <3>1 DEF Revision
    <3>2. CASE plan # {}
      <4> DEFINE latest == CHOOSE p \in plan : TRUE
      <4>1. latest \in plan
        BY <3>2
      <4>2. latest \in Plan
        BY <4>1, Contents
      <4>3. Revision = latest.revision
        BY <3>2 DEF Revision
      <4> HIDE DEF latest
      <4>4. latest.revision \in Revisions
        BY <4>2, JobsAreKeys
      <4>5. Revision \in Revisions
        BY <4>3, <4>4
      <4>6. QED
        BY <4>5, BoundsAreNat DEF Revisions
    <3>3. QED
      BY <3>1, <3>2
  <2>2. Revision + 1 \in Revisions
    BY <1>1, <2>1, BoundsAreNat DEF Submit, Revisions
  <2>3. [session |-> s, revision |-> Revision + 1, jobs |-> jobs] \in Plan
    BY <1>1, <2>2 DEF Plan
  <2>4. plan' \in Option(Plan)
    BY <1>1, <2>3, OptionIntro DEF Submit
  <2>5. QED
    BY <1>1, <2>4 DEF Submit, TypeOK, monitor, supervisor
<1>2. CASE Receive
  <2>1. channel' \in Seq(Event) /\ Len(channel') <= Capacity
    BY <1>2, BoundsAreNat DEF Receive, TypeOK
  <2>2. QED
    BY <1>2, <2>1 DEF Receive, TypeOK, shared, monitor, supervisor
<1>3. CASE Drop
  BY <1>3 DEF Drop, TypeOK, monitor, supervisor
<1>4. ASSUME NEW p \in Pids, WorkerReply(p) \/ WorkerHang(p) \/ WorkerDie(p)
      PROVE  TypeOK'
  <2>1. worker' \in [Pids -> Worker]
    <3>1. /\ \A r \in {"idle", "busy", "hung", "ok", "err"} :
               [worker EXCEPT ![p].reply = r] \in [Pids -> Worker]
          /\ [worker EXCEPT ![p].state = "dead"] \in [Pids -> Worker]
      BY UpdateTypes DEF TypeOK
    <3>2. \/ \E r \in {"ok", "err", "hung"} :
                worker' = [worker EXCEPT ![p].reply = r]
          \/ worker' = [worker EXCEPT ![p].state = "dead"]
      BY <1>4 DEF WorkerReply, WorkerHang, WorkerDie
    <3>3. QED
      BY <3>1, <3>2
  <2>2. QED
    BY <1>4, <2>1 DEF WorkerReply, WorkerHang, WorkerDie, TypeOK, shared,
       monitor, supervisor
<1>5. CASE Tick
  <2>1. PICK a \in active : a.age < 2 /\ active' = {[a EXCEPT !.age = @ + 1]}
    BY <1>5 DEF Tick
  <2>2. a \in Active
    BY Contents
  <2>3. [a EXCEPT !.age = @ + 1] \in Active
    BY <2>1, <2>2 DEF Active
  <2>4. active' \in Option(Active)
    BY <2>1, <2>3, OptionIntro
  <2>5. QED
    BY <1>5, <2>4 DEF Tick, TypeOK, monitor, supervisor
<1>6. CASE PollIdle
  <2>1. PICK p \in plan : Observe(p) /\ done' = Reconciled(p)
    BY <1>6 DEF PollIdle
  <2>2. p \in Plan
    BY Contents
  <2>3. done' \subseteq Keys
    BY <2>1, <2>2, ReconciledKeys DEF TypeOK
  <2>4. seen' \in [session : 0..MaxSession, revision : 0..MaxRevision]
    BY <2>1, <2>2, ObserveTypes
  <2>5. QED
    BY <1>6, <2>3, <2>4 DEF PollIdle, TypeOK, shared, monitor
<1>7. CASE PollHit
  <2>1. PICK k \in cache : Pick(k)
    BY <1>7 DEF PollHit
  <2>2. QED
    BY <1>7, <2>1, PickTypes DEF PollHit, TypeOK, shared, monitor
<1>8. CASE PollMiss
  <2>1. PICK k \in Keys \ cache, t \in Stamps \ doomed :
          /\ Pick(k)
          /\ active' = {[session |-> j.session, key |-> j.key, started |-> t,
                         cancelled |-> FALSE, timedOut |-> FALSE, age |-> 0]
                        : j \in job'}
    BY <1>8 DEF PollMiss
  <2>2. PICK p \in plan : job' = {[session |-> p.session, key |-> k]}
    BY <2>1, PickTypes
  <2>3. active' = {[session |-> p.session, key |-> k, started |-> t,
                    cancelled |-> FALSE, timedOut |-> FALSE, age |-> 0]}
    BY <2>1, <2>2
  <2>4. p.session \in Sessions
    BY Contents, JobsAreKeys
  <2>5. active' \in Option(Active)
    <3>1. [session |-> p.session, key |-> k, started |-> t,
           cancelled |-> FALSE, timedOut |-> FALSE, age |-> 0] \in Active
      BY <2>4 DEF Active
    <3>2. QED
      BY <2>3, <3>1, OptionIntro
  <2>6. QED
    BY <1>8, <2>1, <2>5, PickTypes DEF PollMiss, TypeOK, monitor
<1>9. CASE PollStop
  <2>1. worker' \in [Pids -> Worker] /\ child' \in Option(Pids)
    BY <1>9, SlotTypes, OptionIntro DEF PollStop, TypeOK, StopChild
  <2>2. QED
    BY <1>9, <2>1 DEF PollStop, TypeOK, shared, monitor
<1>10. CASE Start
  <2>1. /\ worker' \in [Pids -> Worker] /\ child' \in Option(Pids)
        /\ process' \in Option(Process)
        /\ pc' \in {"ask", "spawn"}
    BY <1>10, SlotTypes, OptionIntro DEF Start, TypeOK, StopChild
  <2>2. QED
    BY <1>10, <2>1 DEF Start, TypeOK, shared, monitor
<1>11. CASE Spawn
  <2>1. PICK j \in job, p \in Pids :
          /\ worker' = [worker EXCEPT ![p] = [state |-> "running",
                          session |-> j.session, reply |-> "idle"]]
          /\ process' = {[pid |-> p, session |-> j.session]}
    BY <1>11 DEF Spawn
  <2>2. j.session \in Sessions
    BY Contents DEF Job
  <2>3. worker' \in [Pids -> Worker]
    BY <2>1, <2>2, BoundsAreNat DEF TypeOK, Worker
  <2>4. process' \in Option(Process)
    BY <2>1, <2>2, OptionIntro DEF Process
  <2>5. QED
    BY <1>11, <2>3, <2>4 DEF Spawn, TypeOK, shared, monitor
<1>12. CASE SpawnFails
  BY <1>12 DEF SpawnFails, TypeOK, shared, monitor
<1>13. CASE Store
  <2>1. child' \in Option(Pids)
    <3>1. CASE process = {}
      BY <1>13, <3>1, OptionIntro DEF Store
    <3>2. CASE process # {}
      <4>1. PICK q \in process : process = {q} /\ q \in Process
        BY <3>2, Contents
      <4>2. child' = {q.pid} /\ q.pid \in Pids
        BY <1>13, <4>1 DEF Store, Process
      <4>3. QED
        BY <4>2, OptionIntro
    <3>3. QED
      BY <3>1, <3>2
  <2>2. QED
    BY <1>13, <2>1 DEF Store, TypeOK, shared, monitor
<1>14. CASE Ask \/ Read
  <2>1. worker' \in [Pids -> Worker]
    <3>1. \A q \in process : q.pid \in Pids
      BY Contents DEF Process
    <3>2. \/ UNCHANGED worker
          \/ \E q \in process, r \in {"busy", "idle"} :
                worker' = [worker EXCEPT ![q.pid].reply = r]
      BY <1>14 DEF Ask, Read
    <3>3. ASSUME NEW q \in process, NEW r \in {"busy", "idle"}
          PROVE  [worker EXCEPT ![q.pid].reply = r] \in [Pids -> Worker]
      <4>1. PICK p \in Pids : p = q.pid
        BY <3>1
      <4>2. [worker EXCEPT ![p].reply = r] \in [Pids -> Worker]
        BY UpdateTypes DEF TypeOK
      <4>3. QED
        BY <4>1, <4>2
    <3>4. CASE UNCHANGED worker
      BY <3>4 DEF TypeOK
    <3>5. ASSUME NEW q \in process, NEW r \in {"busy", "idle"},
                 worker' = [worker EXCEPT ![q.pid].reply = r]
          PROVE  worker' \in [Pids -> Worker]
      BY <3>3, <3>5
    <3>6. QED
      BY <3>2, <3>4, <3>5
  <2>2. result' \in {"none", "ok", "err", "drop"} /\ pc' \in {"read", "settle"}
    BY <1>14 DEF Ask, Read, TypeOK
  <2>3. QED
    BY <1>14, <2>1, <2>2 DEF Ask, Read, TypeOK, shared, monitor
<1>15. CASE Settle
  <2>1. result' \in {"none", "ok", "err", "drop"} /\ pc' \in {"check", "stop"}
    BY <1>15 DEF Settle, TypeOK
  <2>2. QED
    BY <1>15, <2>1, OptionIntro DEF Settle, TypeOK, monitor
<1>16. CASE StopAfterRequest
  <2>1. worker' \in [Pids -> Worker] /\ child' = {}
    BY <1>16, SlotTypes DEF StopAfterRequest, TypeOK, StopChild
  <2>2. /\ done' \subseteq Keys /\ pc' \in {"poll", "check"}
        /\ job' \in Option(Job)
        /\ result' \in {"none", "ok", "err", "drop"}
    BY <1>16, OptionIntro DEF StopAfterRequest, NextJob, TypeOK
  <2>3. QED
    BY <1>16, <2>1, <2>2, OptionIntro DEF StopAfterRequest, TypeOK, shared,
       monitor
<1>17. CASE Check
  <2>1. cache' \subseteq Cacheable
    BY <1>17 DEF Check, TypeOK
  <2>2. /\ pc' \in {"poll", "offer"}
        /\ job' \in Option(Job)
        /\ result' \in {"none", "ok", "err", "drop"}
    BY <1>17, OptionIntro DEF Check, NextJob, TypeOK
  <2>3. QED
    BY <1>17, <2>1, <2>2 DEF Check, TypeOK, shared, monitor
<1>18. CASE Offer
  <2>1. /\ pc' \in {"poll", "send"}
        /\ job' \in Option(Job)
        /\ result' \in {"none", "ok", "err", "drop"}
    BY <1>18, OptionIntro DEF Offer, NextJob, TypeOK
  <2>2. QED
    BY <1>18, <2>1 DEF Offer, TypeOK, shared, monitor
<1>19. CASE Send
  <2>1. /\ pc' \in {"poll", "offer"}
        /\ job' \in Option(Job)
        /\ result' \in {"none", "ok", "err", "drop"}
    BY <1>19, OptionIntro DEF Send, NextJob, TypeOK
  <2>2. channel' \in Seq(Event) /\ Len(channel') <= Capacity
    <3>1. CASE Len(channel) < Capacity
      <4>1. PICK j \in job : channel' = Append(channel,
              [kind |-> IF result = "ok" THEN "ready" ELSE "error",
               session |-> j.session, key |-> j.key])
        BY <1>19, <3>1, BoundsAreNat DEF Send, TypeOK
      <4>2. j \in Job
        BY Contents
      <4>3. [kind |-> IF result = "ok" THEN "ready" ELSE "error",
             session |-> j.session, key |-> j.key] \in Event
        BY <4>2 DEF Event, Job
      <4>4. QED
        BY <3>1, <4>1, <4>3, BoundsAreNat DEF TypeOK
    <3>2. CASE ~(Len(channel) < Capacity)
      BY <1>19, <3>2 DEF Send, TypeOK
    <3>3. QED
      BY <3>1, <3>2
  <2>3. QED
    BY <1>19, <2>1, <2>2 DEF Send, TypeOK, shared, monitor
<1>20. CASE MonitorScan
  <2>1. PICK a \in active :
          /\ active' = {[a EXCEPT !.cancelled = TRUE, !.timedOut = Expired(a)]}
          /\ doomed' = {a.started}
    BY <1>20 DEF MonitorScan
  <2>2. a \in Active
    BY Contents
  <2>3. [a EXCEPT !.cancelled = TRUE, !.timedOut = Expired(a)] \in Active
    BY <2>2 DEF Active, Expired
  <2>4. active' \in Option(Active) /\ doomed' \in Option(Stamps)
    BY <2>1, <2>2, <2>3, OptionIntro DEF Active
  <2>5. QED
    BY <1>20, <2>4 DEF MonitorScan, TypeOK, supervisor
<1>21. CASE MonitorKill \/ MonitorStop
  <2>1. worker' \in [Pids -> Worker]
    BY <1>21, SlotTypes DEF MonitorKill, MonitorStop, TypeOK
  <2>2. mon' \in {"scan", "kill", "done"} /\ doomed' \in Option(Stamps)
    BY <1>21, OptionIntro DEF MonitorKill, MonitorStop, TypeOK
  <2>3. QED
    BY <1>21, <2>1, <2>2 DEF MonitorKill, MonitorStop, TypeOK, shared,
       supervisor
<1>22. CASE UNCHANGED vars
  BY <1>22 DEF TypeOK, vars, shared, monitor, supervisor
<1>23. QED
  BY <1>1, <1>2, <1>3, <1>4, <1>5, <1>6, <1>7, <1>8, <1>9, <1>10, <1>11,
     <1>12, <1>13, <1>14, <1>15, <1>16, <1>17, <1>18, <1>19, <1>20, <1>21,
     <1>22 DEF Next, Supervisor, Monitor

\* The variables keep their types: in particular the reply channel never holds
\* more than its capacity, whatever the user interface does.
THEOREM TypeCorrect == Spec => []TypeOK
BY TypeInit, TypeStep, PTL DEF Spec

-----------------------------------------------------------------------------
(* Safety.  The invariant that carries the induction follows the process   *)
(* from its launch to its reaping: which variable knows it, and what may   *)
(* be left in its pipe.                                                    *)

\* The slot holds the process whose pipes the supervisor holds, except
\* between launch and store, and after the last stop_child.
SlotInv ==
  /\ pc \notin {"store", "done"} => child = {q.pid : q \in process}
  /\ pc = "store" => child = {}
  /\ pc \in {"store", "ask", "read"} => process # {}
  /\ pc = "done" => child = {}
  /\ pc = "spawn" => process = {}

\* The supervisor has a job in hand everywhere but at the top of its loop,
\* and the request in flight is about that job.
JobInv ==
  /\ pc \notin {"poll", "done"} => job # {}
  /\ pc \in {"start", "spawn", "store", "ask", "read"} =>
       \A a \in active, j \in job : a.key = j.key /\ a.session = j.session

\* The places where nothing may be left in the pipe.
Quiet ==
  \/ pc \in {"poll", "start", "spawn", "store", "ask", "check", "offer", "send"}
  \/ pc = "settle" /\ result = "ok"

\* The process at the other end of the pipes was opened for the session the
\* supervisor believes; it owes an answer only while one is being read, or
\* when the request failed and stop_child is about to follow.
PipeInv ==
  /\ pc # "done" => \A q \in process : worker[q.pid].session = q.session
  /\ pc \in {"store", "ask", "read"} =>
       \A q \in process, j \in job : q.session = j.session
  /\ Quiet => \A q \in process : worker[q.pid].reply = "idle"

IInv == TypeOK /\ NoLostProcess /\ SlotInv /\ JobInv /\ PipeInv

\* The invariant's parts say what the properties ask for.
LEMMA IInvImplies ==
  IInv => OneWorker /\ NoLostProcess /\ FreshWorker /\ NoOrphan
<1> SUFFICES ASSUME IInv PROVE OneWorker /\ NoLostProcess /\ FreshWorker /\ NoOrphan
  OBVIOUS
<1> USE DEF IInv
<1>1. OneWorker
  <2> SUFFICES ASSUME NEW p \in Running, NEW r \in Running PROVE p = r
    BY DEF OneWorker
  <2>1. /\ p \in child \/ (pc = "store" /\ \E q \in process : q.pid = p)
        /\ r \in child \/ (pc = "store" /\ \E q \in process : q.pid = r)
    BY DEF NoLostProcess, Running
  <2>2. CASE pc = "store"
    BY <2>1, <2>2, Contents DEF SlotInv
  <2>3. CASE pc # "store"
    BY <2>1, <2>3, Contents
  <2>4. QED
    BY <2>2, <2>3
<1>2. FreshWorker
  <2> SUFFICES ASSUME pc = "ask"
               PROVE  \E q \in process, j \in job :
                        /\ q.pid \in child
                        /\ worker[q.pid].session = j.session
                        /\ worker[q.pid].reply = "idle"
    BY DEF FreshWorker
  <2>1. PICK q \in process, j \in job : TRUE
    BY DEF SlotInv, JobInv
  <2>2. q.pid \in child
    BY DEF SlotInv
  <2>3. worker[q.pid].session = j.session /\ worker[q.pid].reply = "idle"
    BY DEF PipeInv, Quiet
  <2>4. QED
    BY <2>2, <2>3
<1>3. NoOrphan
  BY DEF NoOrphan, Stopped, NoLostProcess, SlotInv
<1>4. QED
  BY <1>1, <1>2, <1>3

\* Stopping the child forgets every process, when the slot knows them all.
LEMMA StopForgets ==
  ASSUME IInv, pc # "store", StopChild
  PROVE  /\ child' = {}
         /\ \A p \in Pids : worker'[p].state = "none"
         /\ worker' = [p \in Pids |-> IF p \in child THEN NoWorker ELSE worker[p]]
BY DEF StopChild, IInv, NoLostProcess, NoWorker

\* A step that changes no process, slot or local of the supervisor.
LEMMA Untouched ==
  ASSUME IInv, TypeOK',
         UNCHANGED <<pc, job, result, process, child, worker, active>>
  PROVE  IInv'
BY DEF IInv, NoLostProcess, SlotInv, JobInv, PipeInv, Quiet

\* Killing the slot takes no process away and leaves nothing in a pipe.
LEMMA KillKeeps ==
  ASSUME IInv, TypeOK', KillSlot, UNCHANGED <<pc, job, result, process, child, active>>
  PROVE  IInv'
<1>1. \A p \in Pids : /\ worker'[p].session = worker[p].session
                      /\ worker'[p].reply = worker[p].reply
                      /\ worker'[p].state # "none" => worker[p].state # "none"
  BY DEF KillSlot, IInv, TypeOK, Worker
<1>2. \A q \in process : q.pid \in Pids
  BY Contents DEF IInv, Process
<1>3. QED
  BY <1>1, <1>2 DEF IInv, NoLostProcess, SlotInv, JobInv, PipeInv, Quiet

\* What processes do on their own: a busy one is the one being read.
LEMMA WorkerKeeps ==
  ASSUME IInv, TypeOK', NEW p \in Pids,
         WorkerReply(p) \/ WorkerHang(p) \/ WorkerDie(p)
  PROVE  IInv'
<1>1. /\ worker[p].state = "running"
      /\ \A r \in Pids : /\ worker'[r].session = worker[r].session
                         /\ r # p => worker'[r] = worker[r]
      /\ worker[p].reply = "idle" => worker'[p].reply = "idle"
  BY DEF WorkerReply, WorkerHang, WorkerDie, IInv, TypeOK, Worker
<1>2. UNCHANGED <<pc, job, result, process, child, active>>
  BY DEF WorkerReply, WorkerHang, WorkerDie, shared, supervisor
<1>3. \A q \in process : q.pid \in Pids
  BY Contents DEF IInv, Process
<1>4. NoLostProcess'
  BY <1>1, <1>2 DEF IInv, NoLostProcess
<1>5. PipeInv'
  BY <1>1, <1>2, <1>3 DEF IInv, PipeInv, Quiet
<1>6. QED
  BY <1>2, <1>4, <1>5 DEF IInv, SlotInv, JobInv

\* One step of the supervisor.
LEMMA SupervisorKeeps ==
  ASSUME IInv, TypeOK', Supervisor
  PROVE  IInv'
<1> USE DEF IInv
<1>0. /\ \A q \in process : process = {q} /\ q.pid \in Pids
      /\ \A j \in job : job = {j}
      /\ \A a \in active : active = {a}
  BY Contents DEF Process
<1>1. CASE PollIdle
  BY <1>1, Untouched DEF PollIdle, shared
<1>2. CASE PollHit
  <2>1. \E p \in plan, k \in cache : job' = {[session |-> p.session, key |-> k]}
    BY <1>2, PickTypes DEF PollHit
  <2>2. pc = "poll" /\ pc' = "check" /\ UNCHANGED <<process, child, worker, active>>
    BY <1>2 DEF PollHit, shared
  <2>3. QED
    BY <2>1, <2>2 DEF NoLostProcess, SlotInv, JobInv, PipeInv, Quiet
<1>3. CASE PollMiss
  <2>1. PICK k \in Keys, t \in Stamps :
          /\ Pick(k)
          /\ active' = {[session |-> j.session, key |-> j.key, started |-> t,
                         cancelled |-> FALSE, timedOut |-> FALSE, age |-> 0]
                        : j \in job'}
    BY <1>3 DEF PollMiss
  <2>2. PICK p \in plan : job' = {[session |-> p.session, key |-> k]}
    BY <2>1, PickTypes
  <2>3. pc = "poll" /\ pc' = "start" /\ UNCHANGED <<process, child, worker, result>>
    BY <1>3 DEF PollMiss
  <2>4. JobInv'
    BY <2>1, <2>2, <2>3 DEF JobInv
  <2>5. QED
    BY <2>3, <2>4 DEF NoLostProcess, SlotInv, PipeInv, Quiet
<1>4. CASE PollStop
  <2>1. pc = "poll" /\ pc' = "done" /\ UNCHANGED <<process, job, result, active>>
    BY <1>4 DEF PollStop, shared
  <2>2. child' = {} /\ \A p \in Pids : worker'[p].state = "none"
    BY <1>4, <2>1, StopForgets DEF PollStop
  <2>3. QED
    BY <2>1, <2>2 DEF NoLostProcess, SlotInv, JobInv, PipeInv, Quiet
<1>5. CASE Start
  <2>1. pc = "start" /\ UNCHANGED <<job, result, active>>
    BY <1>5 DEF Start, shared
  <2>2. PICK j \in job :
          \/ /\ \E q \in process : q.session = j.session
             /\ pc' = "ask" /\ UNCHANGED <<process, child, worker>>
          \/ pc' = "spawn" /\ process' = {} /\ StopChild
    BY <1>5 DEF Start
  <2>3. CASE pc' = "ask" /\ UNCHANGED <<process, child, worker>>
                        /\ \E q \in process : q.session = j.session
    BY <1>0, <2>1, <2>3 DEF NoLostProcess, SlotInv, JobInv, PipeInv, Quiet
  <2>4. CASE pc' = "spawn" /\ process' = {} /\ StopChild
    <3>1. child' = {} /\ \A p \in Pids : worker'[p].state = "none"
      BY <2>1, <2>4, StopForgets
    <3>2. QED
      BY <2>1, <2>4, <3>1 DEF NoLostProcess, SlotInv, JobInv, PipeInv, Quiet
  <2>5. QED
    BY <2>2, <2>3, <2>4
<1>6. CASE Spawn
  <2>1. PICK j \in job, p \in Pids :
          /\ worker' = [worker EXCEPT ![p] = [state |-> "running",
                          session |-> j.session, reply |-> "idle"]]
          /\ process' = {[pid |-> p, session |-> j.session]}
    BY <1>6 DEF Spawn
  <2>2. /\ pc = "spawn" /\ pc' = "store"
        /\ UNCHANGED <<job, result, child, active>>
    BY <1>6 DEF Spawn, shared
  <2>3. worker \in [Pids -> Worker] /\ child = {}
    BY <2>2 DEF TypeOK, SlotInv
  <2>4. NoLostProcess'
    BY <2>1, <2>2, <2>3 DEF NoLostProcess
  <2>5. SlotInv' /\ JobInv'
    BY <2>1, <2>2, <2>3 DEF SlotInv, JobInv
  <2>6. PipeInv'
    BY <1>0, <2>1, <2>2, <2>3 DEF PipeInv, Quiet
  <2>7. QED
    BY <2>4, <2>5, <2>6
<1>7. CASE SpawnFails
  BY <1>7 DEF SpawnFails, shared, NoLostProcess, SlotInv, JobInv, PipeInv, Quiet
<1>8. CASE Store
  BY <1>0, <1>8 DEF Store, shared, NoLostProcess, SlotInv, JobInv, PipeInv, Quiet
<1>9. CASE Ask
  <2>1. pc = "ask" /\ UNCHANGED <<job, process, child, active>>
    BY <1>9 DEF Ask, shared
  <2>2. PICK q \in process :
          \/ /\ worker[q.pid].state = "running"
             /\ worker' = [worker EXCEPT ![q.pid].reply = "busy"]
             /\ pc' = "read"
          \/ pc' = "settle" /\ result' = "err" /\ UNCHANGED worker
    BY <1>9 DEF Ask
  <2>3. CASE pc' = "read" /\ worker' = [worker EXCEPT ![q.pid].reply = "busy"]
    <3>1. \A p \in Pids : /\ worker'[p].session = worker[p].session
                          /\ worker'[p].state = worker[p].state
      BY <1>0, <2>3 DEF TypeOK, Worker
    <3>2. QED
      BY <1>0, <2>1, <2>3, <3>1 DEF NoLostProcess, SlotInv, JobInv, PipeInv, Quiet
  <2>4. CASE pc' = "settle" /\ result' = "err" /\ UNCHANGED worker
    BY <1>0, <2>1, <2>4 DEF NoLostProcess, SlotInv, JobInv, PipeInv, Quiet
  <2>5. QED
    BY <2>2, <2>3, <2>4
<1>10. CASE Read
  <2>1. pc = "read" /\ pc' = "settle" /\ UNCHANGED <<job, process, child, active>>
    BY <1>10 DEF Read, shared
  <2>2. PICK q \in process :
          \/ worker' = [worker EXCEPT ![q.pid].reply = "idle"]
          \/ result' = "err" /\ UNCHANGED worker
    BY <1>10 DEF Read
  <2>3. CASE worker' = [worker EXCEPT ![q.pid].reply = "idle"]
    <3>1. \A p \in Pids : /\ worker'[p].session = worker[p].session
                          /\ worker'[p].state = worker[p].state
      BY <1>0, <2>3 DEF TypeOK, Worker
    <3>2. worker'[q.pid].reply = "idle" /\ process = {q} /\ q.pid \in Pids
      BY <1>0, <2>3 DEF TypeOK, Worker
    <3>3. QED
      BY <2>1, <3>1, <3>2 DEF NoLostProcess, SlotInv, JobInv, PipeInv, Quiet
  <2>4. CASE result' = "err" /\ UNCHANGED worker
    BY <1>0, <2>1, <2>4 DEF NoLostProcess, SlotInv, JobInv, PipeInv, Quiet
  <2>5. QED
    BY <2>2, <2>3, <2>4
<1>11. CASE Settle
  <2>1. /\ pc = "settle" /\ UNCHANGED <<job, process, child, worker>>
        /\ active' = {}
        /\ pc' \in {"check", "stop"}
        /\ pc' = "check" => result = "ok"
    BY <1>11 DEF Settle
  <2>2. QED
    BY <2>1 DEF NoLostProcess, SlotInv, JobInv, PipeInv, Quiet
<1>12. CASE StopAfterRequest
  <2>1. /\ pc = "stop" /\ process' = {} /\ UNCHANGED active
        /\ pc' = "poll" \/ (pc' = "check" /\ UNCHANGED job)
    BY <1>12 DEF StopAfterRequest, NextJob, shared
  <2>2. child' = {} /\ \A p \in Pids : worker'[p].state = "none"
    BY <1>12, <2>1, StopForgets DEF StopAfterRequest
  <2>3. QED
    BY <2>1, <2>2 DEF NoLostProcess, SlotInv, JobInv, PipeInv, Quiet
<1>13. CASE Check
  <2>1. /\ pc = "check" /\ UNCHANGED <<process, child, worker, active>>
        /\ pc' = "poll" \/ (pc' = "offer" /\ UNCHANGED job)
    BY <1>13 DEF Check, NextJob, shared
  <2>2. QED
    BY <2>1 DEF NoLostProcess, SlotInv, JobInv, PipeInv, Quiet
<1>14. CASE Offer
  <2>1. /\ pc = "offer" /\ UNCHANGED <<process, child, worker, active>>
        /\ pc' = "poll" \/ (pc' = "send" /\ UNCHANGED job)
    BY <1>14 DEF Offer, NextJob, shared
  <2>2. QED
    BY <2>1 DEF NoLostProcess, SlotInv, JobInv, PipeInv, Quiet
<1>15. CASE Send
  <2>1. /\ pc = "send" /\ UNCHANGED <<process, child, worker, active>>
        /\ pc' = "poll" \/ (pc' = "offer" /\ UNCHANGED job)
    BY <1>15 DEF Send, NextJob, shared
  <2>2. QED
    BY <2>1 DEF NoLostProcess, SlotInv, JobInv, PipeInv, Quiet
<1>16. QED
  BY <1>1, <1>2, <1>3, <1>4, <1>5, <1>6, <1>7, <1>8, <1>9, <1>10, <1>11, <1>12,
     <1>13, <1>14, <1>15 DEF Supervisor

\* The monitor, the passing of time and the user interface.
LEMMA OthersKeep ==
  ASSUME IInv, TypeOK',
         \/ Monitor \/ Tick \/ Receive \/ Drop
         \/ \E s \in Sessions, jobs \in JobLists : Submit(s, jobs)
  PROVE  IInv'
<1>1. CASE MonitorScan \/ Tick
  <2>1. UNCHANGED <<pc, job, result, process, child, worker>>
    BY <1>1 DEF MonitorScan, Tick, supervisor
  <2>2. PICK a \in active : \A b \in active' : b.key = a.key /\ b.session = a.session
    <3>1. \A b \in active : b \in Active
      BY Contents DEF IInv
    <3>2. CASE Tick
      BY <3>1, <3>2 DEF Tick, Active
    <3>3. CASE MonitorScan
      BY <3>1, <3>3 DEF MonitorScan, Active
    <3>4. QED
      BY <1>1, <3>2, <3>3
  <2>3. QED
    BY <2>1, <2>2 DEF IInv, NoLostProcess, SlotInv, JobInv, PipeInv, Quiet
<1>2. CASE MonitorKill \/ MonitorStop
  <2>1. UNCHANGED <<pc, job, result, process, child, active>>
    BY <1>2 DEF MonitorKill, MonitorStop, shared, supervisor
  <2>2. KillSlot \/ UNCHANGED worker
    BY <1>2 DEF MonitorKill, MonitorStop
  <2>3. QED
    BY <2>1, <2>2, KillKeeps, Untouched
<1>3. CASE Receive \/ Drop \/ \E s \in Sessions, jobs \in JobLists : Submit(s, jobs)
  BY <1>3, Untouched DEF Receive, Drop, Submit, shared, supervisor
<1>4. QED
  BY <1>1, <1>2, <1>3 DEF Monitor

THEOREM Invariance == Spec => []IInv
<1>1. Init => IInv
  <2>1. Init => TypeOK
    BY TypeInit
  <2>2. QED
    BY <2>1 DEF Init, IInv, NoLostProcess, SlotInv, JobInv, PipeInv, Quiet, NoWorker
<1>2. IInv /\ [Next]_vars => IInv'
  <2> SUFFICES ASSUME IInv, [Next]_vars PROVE IInv'
    OBVIOUS
  <2>1. TypeOK'
    BY TypeStep DEF IInv
  <2>2. CASE UNCHANGED vars
    BY <2>1, <2>2, Untouched DEF vars, shared, supervisor
  <2>3. QED
    BY <2>1, <2>2, SupervisorKeeps, OthersKeep, WorkerKeeps DEF Next
<1>3. QED
  BY <1>1, <1>2, PTL DEF Spec

\* README "one native job in flight": whatever crashes, reopenings and
\* cancellations happen, no two worker processes run at once.
THEOREM OneWorkerAlways == Spec => []OneWorker
BY Invariance, IInvImplies, PTL

\* No worker process is ever out of reach of stop_child, but for the moment
\* between its launch and its store.
THEOREM NoProcessLost == Spec => []NoLostProcess
BY Invariance, IInvImplies, PTL

\* A request is written to a worker of the right document with an empty pipe,
\* so no answer is ever taken for the answer to another request.
THEOREM RequestsMeetFreshWorkers == Spec => []FreshWorker
BY Invariance, IInvImplies, PTL

\* Controller::drop returns only when every worker has been reaped.
THEOREM NothingOrphaned == Spec => []NoOrphan
BY Invariance, IInvImplies, PTL

-----------------------------------------------------------------------------
(* The monitor's kills.  Sessions only grow, so a request found obsolete   *)
(* stays obsolete, and a mark on it keeps the reason it was made for.      *)

\* The request in flight was made for a plan at least as old as the latest, and
\* a mark on it has a lasting reason.
CancelInv ==
  /\ active # {} => plan # {}
  /\ \A a \in active, pl \in plan : a.session <= pl.session
  /\ \A a \in active : a.cancelled =>
       a.timedOut \/ a.age >= 1 \/ \E pl \in plan : a.session < pl.session

\* A step that neither replaces the plan nor touches the request, but perhaps
\* ends it.
LEMMA CancelKept ==
  ASSUME CancelInv, UNCHANGED plan, active' = active \/ active' = {}
  PROVE  CancelInv'
BY DEF CancelInv

\* A later plan leaves the reasons standing.
LEMMA CancelSubmit ==
  ASSUME TypeOK, CancelInv, NEW s \in Sessions, NEW jobs, Submit(s, jobs)
  PROVE  CancelInv'
<1>1. /\ active' = active
      /\ plan' = {[session |-> s, revision |-> Revision + 1, jobs |-> jobs]}
      /\ s >= Session
  BY DEF Submit
<1>2. \A pl \in plan' : pl.session = s
  BY <1>1
<1>3. plan' # {}
  BY <1>1
<1>4. s \in Nat
  BY BoundsAreNat DEF Sessions
<1>5. \A a \in active : a.session \in Nat
  BY Contents, BoundsAreNat DEF Active, Sessions
<1>6. CASE active = {}
  BY <1>1, <1>3, <1>6 DEF CancelInv
<1>7. CASE active # {}
  <2>1. PICK pl \in plan : plan = {pl} /\ pl \in Plan
    BY <1>7, Contents DEF CancelInv
  <2>2. pl.session \in Nat
    BY <2>1, JobsAreKeys, BoundsAreNat DEF Sessions
  <2>3. Session = pl.session
    <3>1. (CHOOSE p \in {pl} : TRUE) = pl
      OBVIOUS
    <3>2. QED
      BY <2>1, <3>1 DEF Session
  <2>4. pl.session <= s
    BY <1>1, <2>2, <2>3
  <2>5. \A a \in active : a.session <= s
    BY <1>5, <1>4, <2>1, <2>2, <2>4 DEF CancelInv
  <2>6. \A a \in active : a.cancelled =>
          a.timedOut \/ a.age >= 1 \/ a.session < s
    BY <1>4, <1>5, <2>1, <2>2, <2>4 DEF CancelInv
  <2>7. QED
    BY <1>1, <1>2, <1>3, <2>5, <2>6 DEF CancelInv
<1>8. QED
  BY <1>6, <1>7

\* A new request carries no mark and belongs to the latest plan.
LEMMA CancelPollMiss ==
  ASSUME TypeOK, CancelInv, PollMiss
  PROVE  CancelInv'
<1>1. PICK k, t :
        /\ Pick(k)
        /\ active' = {[session |-> j.session, key |-> j.key, started |-> t,
                       cancelled |-> FALSE, timedOut |-> FALSE, age |-> 0]
                      : j \in job'}
  BY DEF PollMiss
<1>2. PICK p \in plan : job' = {[session |-> p.session, key |-> k]}
  BY <1>1, PickTypes
<1>3. \A a \in active' : a.session = p.session /\ a.cancelled = FALSE
  BY <1>1, <1>2
<1>4. plan' = plan /\ plan = {p}
  BY <1>2, Contents DEF PollMiss
<1>5. p.session \in Nat
  BY Contents, JobsAreKeys, BoundsAreNat DEF Sessions
<1>6. QED
  BY <1>3, <1>4, <1>5 DEF CancelInv

\* Time only adds reasons, and the monitor marks for a reason.
LEMMA CancelTick ==
  ASSUME TypeOK, CancelInv, Tick
  PROVE  CancelInv'
<1>1. PICK a \in active : active' = {[a EXCEPT !.age = @ + 1]}
  BY DEF Tick
<1>2. a \in Active
  BY Contents
<1>3. [a EXCEPT !.age = @ + 1].age = a.age + 1 /\ a.age \in 0..2
  BY <1>2 DEF Active
<1>4. \A b \in active' : /\ b.session = a.session /\ b.cancelled = a.cancelled
                         /\ b.timedOut = a.timedOut /\ b.age >= 1
  BY <1>1, <1>2, <1>3 DEF Active
<1>5. plan' = plan
  BY DEF Tick
<1>6. QED
  BY <1>4, <1>5 DEF CancelInv

LEMMA CancelScan ==
  ASSUME TypeOK, CancelInv, MonitorScan
  PROVE  CancelInv'
<1>1. PICK a \in active :
        /\ MustCancel(a)
        /\ active' = {[a EXCEPT !.cancelled = TRUE, !.timedOut = Expired(a)]}
  BY DEF MonitorScan
<1>2. a \in Active
  BY Contents
<1>3. \A b \in active' : /\ b.session = a.session
                         /\ b.timedOut = Expired(a) /\ b.age = a.age
  BY <1>1, <1>2 DEF Active
<1>4. plan' = plan
  BY DEF MonitorScan
<1>5. Expired(a) \/ a.age >= 1 \/ \E pl \in plan : pl.session # a.session
  BY <1>1 DEF MustCancel, Reopened
<1>6. \A pl \in plan : pl.session \in Nat /\ a.session \in Nat
  BY <1>2, Contents, JobsAreKeys, BoundsAreNat DEF Active, Sessions
<1>7. QED
  BY <1>3, <1>4, <1>5, <1>6 DEF CancelInv

THEOREM CancelInvariance == Spec => []CancelInv
<1>1. Init => CancelInv
  BY DEF Init, CancelInv
<1>2. TypeOK /\ CancelInv /\ [Next]_vars => CancelInv'
  <2> SUFFICES ASSUME TypeOK, CancelInv, [Next]_vars PROVE CancelInv'
    OBVIOUS
  <2>1. CASE PollIdle \/ PollHit \/ PollStop \/ Start \/ Spawn \/ SpawnFails
    BY <2>1, CancelKept DEF PollIdle, PollHit, PollStop, Start, Spawn,
       SpawnFails, shared
  <2>2. CASE \/ Store \/ Ask \/ Read \/ Settle \/ StopAfterRequest
             \/ Check \/ Offer \/ Send
    BY <2>2, CancelKept DEF Store, Ask, Read, Settle, StopAfterRequest, Check,
       Offer, Send, shared
  <2>3. CASE Receive \/ Drop \/ MonitorKill \/ MonitorStop
    BY <2>3, CancelKept DEF Receive, Drop, MonitorKill, MonitorStop, shared
  <2>4. CASE \E p \in Pids : WorkerReply(p) \/ WorkerHang(p) \/ WorkerDie(p)
    BY <2>4, CancelKept DEF WorkerReply, WorkerHang, WorkerDie, shared
  <2>5. CASE UNCHANGED vars
    BY <2>5, CancelKept DEF vars, shared
  <2>6. QED
    BY <2>1, <2>2, <2>3, <2>4, <2>5, CancelSubmit, CancelPollMiss, CancelTick,
       CancelScan DEF Next, Supervisor, Monitor
<1>3. QED
  BY <1>1, <1>2, TypeCorrect, PTL DEF Spec

\* pipeline.rs:112 "an old cancellation can never kill a replacement process":
\* the recheck makes the mark and the request in flight one and the same.
THEOREM KillsAreOwed == Spec => KillsOnlyCancelled
<1>1. ASSUME IInv, CancelInv, [Next]_vars, NEW p \in Pids,
             mon = "kill", mon' # mon,
             worker[p].state = "running", worker'[p].state = "dead",
             pc = "read", \E q \in process : q.pid = p
      PROVE  \E a \in active, j \in job :
               /\ a.cancelled /\ a.key = j.key /\ a.session = j.session
               /\ a.timedOut \/ a.age >= 1 \/ \E pl \in plan : pl.session # a.session
  <2>1. MonitorKill
    BY <1>1 DEF Next, vars, Supervisor, Monitor, Submit, Receive, Drop,
       WorkerReply, WorkerHang, WorkerDie, Tick, PollIdle, PollHit, PollMiss,
       PollStop, Start, Spawn, SpawnFails, Store, Ask, Read, Settle,
       StopAfterRequest, Check, Offer, Send, MonitorScan, MonitorStop, Stopped,
       monitor
  <2>2. PICK a \in active : a.cancelled
    BY <1>1, <2>1 DEF MonitorKill, StillDoomed
  <2>3. PICK j \in job : a.key = j.key /\ a.session = j.session
    BY <1>1 DEF IInv, JobInv
  <2>4. \A pl \in plan : a.session \in Nat /\ pl.session \in Nat
    BY <1>1, Contents, JobsAreKeys, BoundsAreNat DEF IInv, Active, Sessions
  <2>5. a.timedOut \/ a.age >= 1 \/ \E pl \in plan : pl.session # a.session
    BY <1>1, <2>2, <2>4 DEF CancelInv
  <2>6. QED
    BY <2>2, <2>3, <2>5
<1>2. IInv /\ CancelInv /\ [Next]_vars =>
        [\A p \in Pids :
           /\ mon = "kill" /\ mon' # mon
           /\ worker[p].state = "running" /\ worker'[p].state = "dead"
           /\ pc = "read" /\ \E q \in process : q.pid = p
           => \E a \in active, j \in job :
                /\ a.cancelled /\ a.key = j.key /\ a.session = j.session
                /\ a.timedOut \/ a.age >= 1
                   \/ \E pl \in plan : pl.session # a.session]_vars
  BY <1>1
<1>3. QED
  BY <1>2, Invariance, CancelInvariance, PTL DEF Spec, KillsOnlyCancelled

-----------------------------------------------------------------------------
(* The controller keeps its promise *)

(* What has to be known of a state *)

\* The request is announced, and not taken back yet.
InFlight == {"start", "spawn", "store", "ask", "read", "settle"}

\* A job is in hand except at the top of the loop, and a request that is
\* announced is about this job.
InHandInv ==
  /\ job = {} <=> pc \in {"poll", "done"}
  /\ \A a \in active : /\ pc \in InFlight
                       /\ \A j \in job : a.key = j.key /\ a.session = j.session

\* What a job's outcome can be where it is decided and where it is used.
OutcomeInv ==
  /\ pc = "settle" => result \in {"ok", "err"}
  /\ pc = "stop" => result \in {"err", "drop"}
  /\ pc \in {"check", "offer", "send"} => result \in {"ok", "err"}

\* A revision the supervisor has reconciled with needs no second look: `done`
\* already holds nothing the plan does not ask for.
SeenInv ==
  /\ plan = {} => seen.revision = 0
  /\ \A p \in plan : /\ seen.revision <= p.revision
                     /\ seen.revision = p.revision => done \subseteq JobSet(p)

RefInv == TypeOK /\ InHandInv /\ OutcomeInv /\ SeenInv

LEMMA RefInit == Init => RefInv
<1> SUFFICES ASSUME Init PROVE InHandInv /\ OutcomeInv /\ SeenInv
  BY TypeInit DEF RefInv
<1>1. QED
  BY DEF Init, InHandInv, OutcomeInv, SeenInv

\* The latest plan is the only one, and its numbers are numbers.
LEMMA PlanNow ==
  ASSUME TypeOK, NEW p \in plan
  PROVE  plan = {p} /\ p \in Plan /\ p.session \in Sessions /\ p.revision \in Nat
<1>1. plan = {p} /\ p \in Plan
  BY Contents
<1>2. p.session \in Sessions /\ p.revision \in Revisions
  BY <1>1, JobsAreKeys
<1>3. QED
  BY <1>1, <1>2 DEF Revisions

\* What Pick leaves: a job of the plan, and `done` within the plan.
LEMMA PickSeen ==
  ASSUME TypeOK, NEW k, Pick(k), UNCHANGED plan
  PROVE  job' # {} /\ (SeenInv => SeenInv')
<1>1. PICK p \in plan : \E i \in DOMAIN p.jobs :
        /\ k = p.jobs[i] /\ Observe(p) /\ done' = Reconciled(p) \cup {k}
        /\ job' = {[session |-> p.session, key |-> k]}
  BY DEF Pick
<1>2. plan = {p} /\ p \in Plan /\ p.revision \in Nat
  BY PlanNow
<1>3. k \in JobSet(p) /\ seen' = [session |-> p.session, revision |-> p.revision]
  BY <1>1 DEF JobSet, Observe
<1>4. SeenInv => Reconciled(p) \subseteq JobSet(p)
  BY <1>2 DEF SeenInv, Reconciled
<1>5. QED
  BY <1>1, <1>2, <1>3, <1>4 DEF SeenInv

LEMMA InHandStep ==
  ASSUME RefInv, [Next]_vars
  PROVE  InHandInv'
<1> USE DEF RefInv, InHandInv, InFlight
<1>0. /\ \A a \in active : active = {a}
      /\ \A j \in job : job = {j}
  BY Contents
<1>1. CASE \/ \E s \in Sessions, jobs \in JobLists : Submit(s, jobs)
           \/ Receive \/ Drop \/ MonitorKill \/ MonitorStop
           \/ \E p \in Pids : WorkerReply(p) \/ WorkerHang(p) \/ WorkerDie(p)
           \/ UNCHANGED vars
  BY <1>1 DEF Submit, Receive, Drop, MonitorKill, MonitorStop, WorkerReply,
     WorkerHang, WorkerDie, vars, shared, supervisor
<1>2. CASE Tick
  BY <1>0, <1>2 DEF Tick, supervisor, TypeOK, Active
<1>3. CASE MonitorScan
  BY <1>0, <1>3 DEF MonitorScan, supervisor, TypeOK, Active
<1>4. CASE PollIdle \/ PollStop
  BY <1>4 DEF PollIdle, PollStop, shared
<1>5. CASE PollHit
  BY <1>5, PickSeen DEF PollHit, shared
<1>6. CASE PollMiss
  <2>1. PICK k \in Keys, t \in Stamps :
          /\ Pick(k)
          /\ active' = {[session |-> j.session, key |-> j.key, started |-> t,
                         cancelled |-> FALSE, timedOut |-> FALSE, age |-> 0]
                        : j \in job'}
    BY <1>6 DEF PollMiss
  <2>2. pc' = "start" /\ UNCHANGED plan
    BY <1>6 DEF PollMiss
  <2>3. PICK p \in plan : job' = {[session |-> p.session, key |-> k]}
    BY <2>1, PickTypes
  <2>4. QED
    BY <2>1, <2>2, <2>3
<1>7. CASE Start \/ Spawn \/ SpawnFails \/ Store \/ Ask \/ Read
  <2>1. UNCHANGED <<job, active>> /\ pc \in InFlight /\ pc' \in InFlight
    BY <1>7 DEF Start, Spawn, SpawnFails, Store, Ask, Read, shared
  <2>2. QED
    BY <2>1
<1>8. CASE Settle
  BY <1>8 DEF Settle
<1>9. CASE StopAfterRequest \/ Check \/ Offer \/ Send
  BY <1>9 DEF StopAfterRequest, Check, Offer, Send, NextJob, shared
<1>10. QED
  BY <1>1, <1>2, <1>3, <1>4, <1>5, <1>6, <1>7, <1>8, <1>9
     DEF Next, Supervisor, Monitor

LEMMA OutcomeStep ==
  ASSUME RefInv, [Next]_vars
  PROVE  OutcomeInv'
<1> USE DEF RefInv, OutcomeInv
<1>1. CASE \/ \E s \in Sessions, jobs \in JobLists : Submit(s, jobs)
           \/ Receive \/ Drop \/ Monitor \/ Tick
           \/ \E p \in Pids : WorkerReply(p) \/ WorkerHang(p) \/ WorkerDie(p)
           \/ UNCHANGED vars
  BY <1>1 DEF Submit, Receive, Drop, Monitor, MonitorScan, MonitorKill, MonitorStop,
     Tick, WorkerReply, WorkerHang, WorkerDie, vars, shared, supervisor
<1>2. CASE PollIdle \/ PollHit \/ PollMiss \/ PollStop
  BY <1>2 DEF PollIdle, PollHit, PollMiss, PollStop
<1>3. CASE Start \/ Spawn \/ SpawnFails \/ Store \/ Ask \/ Read
  BY <1>3 DEF Start, Spawn, SpawnFails, Store, Ask, Read
<1>4. CASE Settle
  BY <1>4 DEF Settle
<1>5. CASE StopAfterRequest \/ Check \/ Offer \/ Send
  BY <1>5 DEF StopAfterRequest, Check, Offer, Send, NextJob
<1>6. QED
  BY <1>1, <1>2, <1>3, <1>4, <1>5 DEF Next, Supervisor

\* A plan that is new has a revision nobody has seen.
LEMMA SubmitSeen ==
  ASSUME RefInv, NEW s \in Sessions, NEW jobs \in JobLists, Submit(s, jobs)
  PROVE  SeenInv'
<1>1. /\ plan' = {[session |-> s, revision |-> Revision + 1, jobs |-> jobs]}
      /\ UNCHANGED <<seen, done>>
  BY DEF Submit, supervisor
<1>2. seen.revision \in Nat
  BY BoundsAreNat DEF RefInv, TypeOK
<1>3. Revision \in Nat /\ seen.revision <= Revision
  <2>1. CASE plan = {}
    BY <2>1, <1>2 DEF Revision, RefInv, SeenInv
  <2>2. CASE plan # {}
    <3>1. PICK p \in plan : plan = {p} /\ p.revision \in Nat
      BY <2>2, PlanNow DEF RefInv
    <3>2. Revision = p.revision
      BY <3>1 DEF Revision
    <3>3. QED
      BY <3>1, <3>2 DEF RefInv, SeenInv
  <2>3. QED
    BY <2>1, <2>2
<1>4. seen.revision < Revision + 1
  BY <1>2, <1>3
<1>5. QED
  BY <1>1, <1>2, <1>3, <1>4 DEF SeenInv

LEMMA SeenStep ==
  ASSUME RefInv, [Next]_vars
  PROVE  SeenInv'
<1> USE DEF RefInv
<1>1. ASSUME UNCHANGED <<plan, seen>>, done' \subseteq done
      PROVE  SeenInv'
  BY <1>1 DEF SeenInv, JobSet
<1>2. CASE \/ Receive \/ Drop \/ Monitor \/ Tick
           \/ \E p \in Pids : WorkerReply(p) \/ WorkerHang(p) \/ WorkerDie(p)
           \/ UNCHANGED vars
  BY <1>1, <1>2 DEF Receive, Drop, Monitor, MonitorScan, MonitorKill, MonitorStop,
     Tick, WorkerReply, WorkerHang, WorkerDie, vars, shared, supervisor
<1>3. CASE PollStop \/ Start \/ Spawn \/ SpawnFails \/ Store \/ Ask \/ Read
  BY <1>1, <1>3 DEF PollStop, Start, Spawn, SpawnFails, Store, Ask, Read, shared
<1>4. CASE Settle \/ StopAfterRequest \/ Check \/ Offer \/ Send
  BY <1>1, <1>4 DEF Settle, StopAfterRequest, Check, Offer, Send, shared
<1>5. CASE PollIdle
  <2>1. PICK p \in plan :
          JobSet(p) \subseteq Reconciled(p) /\ Observe(p) /\ done' = Reconciled(p)
    BY <1>5 DEF PollIdle
  <2>2. plan = {p} /\ p.revision \in Nat /\ UNCHANGED plan
    BY <1>5, PlanNow DEF PollIdle, shared
  <2>3. Reconciled(p) \subseteq JobSet(p)
    BY <2>2 DEF SeenInv, Reconciled
  <2>4. seen' = [session |-> p.session, revision |-> p.revision]
    BY <2>1 DEF Observe
  <2>5. QED
    BY <2>1, <2>2, <2>3, <2>4 DEF SeenInv
<1>6. CASE PollHit \/ PollMiss
  BY <1>6, PickSeen DEF PollHit, PollMiss, shared
<1>7. QED
  BY <1>2, <1>3, <1>4, <1>5, <1>6, SubmitSeen DEF Next, Supervisor

\* What the mapping rests on holds in every state.
LEMMA RefInvariance == Spec => []RefInv
<1>1. Init => RefInv
  BY RefInit
<1>2. RefInv /\ [Next]_vars => RefInv'
  BY TypeStep, InHandStep, OutcomeStep, SeenStep DEF RefInv
<1>3. QED
  BY <1>1, <1>2, PTL DEF Spec

-----------------------------------------------------------------------------
(* The mapping *)

\* The job in hand as DesiredWork sees it, from where the supervisor is.
WorkOf(c, r, as, j) ==
  [session |-> j.session, key |-> j.key,
   marked  |-> \/ c = "stop" /\ r = "drop"
               \/ \E a \in as : a.cancelled /\ ~a.timedOut,
   phase   |-> CASE c \in {"check", "offer"} -> "finished"
                 [] c = "send" -> "cleared"
                 [] OTHER -> "busy",
   outcome |-> IF c \in {"check", "offer", "send"} THEN r ELSE "none"]

PlanOf(p) == [session |-> p.session, jobs |-> p.jobs]

LEMMA WorkNow ==
  /\ WorkInHand = {WorkOf(pc, result, active, j) : j \in job}
  /\ WorkInHand' = {WorkOf(pc', result', active', j) : j \in job'}
BY DEF WorkInHand, WorkOf

\* A record is known by its fields.
LEMMA WorkByFields ==
  ASSUME NEW s, NEW k, NEW m, NEW ph, NEW oc,
         NEW x \in [session : {s}, key : {k}, marked : {m}, phase : {ph}, outcome : {oc}]
  PROVE  x = [session |-> s, key |-> k, marked |-> m, phase |-> ph, outcome |-> oc]
OBVIOUS

\* A step that DesiredWork does not see.
LEMMA Hidden ==
  ASSUME UNCHANGED <<plan, stop, channel, done, seen>>, WorkInHand' = WorkInHand
  PROVE  UNCHANGED Promise!desired
BY DEF Promise!desired, Promise!controller

\* A job is desired there when it is wanted here.
LEMMA DesiredIs ==
  ASSUME NEW c, NEW r, NEW as, NEW j
  PROVE  Promise!Desired(WorkOf(c, r, as, j))
           <=> \E p \in plan : p.session = j.session /\ j.key \in JobSet(p)
<1> DEFINE w == WorkOf(c, r, as, j)
           plans == {[session |-> p.session, jobs |-> p.jobs] : p \in plan}
<1>1. w.session = j.session /\ w.key = j.key
  BY DEF WorkOf
<1> HIDE DEF w
<1>2. Promise!Desired(w)
        <=> \E q \in plans : q.session = w.session /\ w.key \in Promise!JobSet(q)
  BY DEF Promise!Desired
<1>3. \A p \in plan : /\ PlanOf(p) \in plans /\ PlanOf(p).session = p.session
                      /\ Promise!JobSet(PlanOf(p)) = JobSet(p)
  BY DEF PlanOf, Promise!JobSet, JobSet
<1>4. \A q \in plans : \E p \in plan : q = PlanOf(p)
  BY DEF PlanOf
<1> HIDE DEF plans
<1>5. QED
  BY <1>1, <1>2, <1>3, <1>4 DEF w

\* What DesiredWork keeps of `done` is what reconciling keeps of it: within a
\* revision nothing is left to drop.
LEMMA KeptIs ==
  ASSUME RefInv, NEW p \in plan
  PROVE  Promise!Kept(PlanOf(p)) = Reconciled(p)
<1>1. Promise!JobSet(PlanOf(p)) = JobSet(p)
  BY DEF Promise!JobSet, JobSet, PlanOf
<1>2. Promise!Kept(PlanOf(p))
        = IF seen.session = p.session THEN done \cap JobSet(p) ELSE {}
  BY <1>1 DEF Promise!Kept, PlanOf
<1>3. QED
  BY <1>2 DEF Reconciled, RefInv, SeenInv

LEMMA InitMaps == Init => Promise!Init
BY DEF Init, Promise!Init, WorkInHand

\* The user interface's side is the same, but for the revision number.
LEMMA SubmitMaps ==
  ASSUME RefInv, NEW s \in Sessions, NEW jobs \in JobLists, Submit(s, jobs)
  PROVE  Promise!Submit(s, jobs)
<1>1. Promise!Session = Session
  <2>1. CASE plan = {}
    BY <2>1 DEF Promise!Session, Session
  <2>2. CASE plan # {}
    <3>1. PICK p \in plan : plan = {p}
      BY <2>2, PlanNow DEF RefInv
    <3>2. {[session |-> q.session, jobs |-> q.jobs] : q \in plan} = {PlanOf(p)}
      BY <3>1 DEF PlanOf
    <3>3. Promise!Session = PlanOf(p).session
      BY <3>2 DEF Promise!Session
    <3>4. Session = p.session
      BY <3>1 DEF Session
    <3>5. QED
      BY <3>3, <3>4 DEF PlanOf
  <2>3. QED
    BY <2>1, <2>2
<1>2. {[session |-> p.session, jobs |-> p.jobs] : p \in plan}'
        = {[session |-> s, jobs |-> jobs]}
  BY DEF Submit
<1>3. UNCHANGED <<stop, channel, seen, done, WorkInHand>>
  BY DEF Submit, supervisor, WorkInHand
<1>4. Promise!Sessions = Sessions
  BY DEF Promise!Sessions, Sessions
<1>5. QED
  BY <1>1, <1>2, <1>3, <1>4 DEF Submit, Promise!Submit, Promise!controller

(* The supervisor's steps *)

\* With nothing left to do it rests there as well.
LEMMA IdleMaps ==
  ASSUME RefInv, PollIdle
  PROVE  Promise!Rest
<1>1. PICK p \in plan :
        JobSet(p) \subseteq Reconciled(p) /\ Observe(p) /\ done' = Reconciled(p)
  BY DEF PollIdle
<1>2. /\ ~stop /\ job = {} /\ pc = "poll"
      /\ UNCHANGED <<plan, stop, active, pc, job, result, channel>>
  BY DEF PollIdle, RefInv, InHandInv, shared
<1>3. WorkInHand = {} /\ WorkInHand' = {}
  BY <1>2, WorkNow
<1>4. /\ PlanOf(p) \in {[session |-> q.session, jobs |-> q.jobs] : q \in plan}
      /\ Promise!JobSet(PlanOf(p)) = JobSet(p) /\ PlanOf(p).session = p.session
  BY DEF PlanOf, Promise!JobSet, JobSet
<1>5. Promise!Kept(PlanOf(p)) = Reconciled(p)
  BY KeptIs
<1>6. seen'.session = p.session
  BY <1>1 DEF Observe
<1>7. QED
  BY <1>1, <1>2, <1>3, <1>4, <1>5, <1>6 DEF Promise!Rest

\* Taking a job takes the same one there, finished when it was cached.
LEMMA TakeMaps ==
  ASSUME RefInv, PollHit \/ PollMiss
  PROVE  Promise!Take
<1>1. PICK k : Pick(k)
  BY DEF PollHit, PollMiss
<1>2. PICK p \in plan : \E i \in DOMAIN p.jobs :
        /\ FirstTodo(p, Reconciled(p), i)
        /\ k = p.jobs[i] /\ Observe(p) /\ done' = Reconciled(p) \cup {k}
        /\ job' = {[session |-> p.session, key |-> k]}
  BY <1>1 DEF Pick
<1>3. PICK i \in DOMAIN p.jobs :
        /\ FirstTodo(p, Reconciled(p), i)
        /\ k = p.jobs[i] /\ Observe(p) /\ done' = Reconciled(p) \cup {k}
        /\ job' = {[session |-> p.session, key |-> k]}
  BY <1>2
<1> DEFINE j == [session |-> p.session, key |-> k]
           taken(ph, oc) == [session |-> p.session, key |-> k, marked |-> FALSE,
                             phase |-> ph, outcome |-> oc]
<1>4. /\ ~stop /\ job = {} /\ active = {} /\ UNCHANGED <<plan, stop, channel>>
  BY DEF PollHit, PollMiss, RefInv, InHandInv, InFlight, shared
<1>5. WorkInHand = {} /\ WorkInHand' = {WorkOf(pc', result', active', j)}
  BY <1>3, <1>4, WorkNow
<1>6. \/ WorkInHand' = {taken("busy", "none")}
      \/ WorkInHand' = {taken("finished", "ok")}
  <2>1. CASE PollHit
    <3>1. pc' = "check" /\ result' = "ok" /\ active' = {}
      BY <1>4, <2>1 DEF PollHit, shared
    <3>2. WorkOf(pc', result', active', j) = taken("finished", "ok")
      BY <3>1 DEF WorkOf
    <3>3. QED
      BY <1>5, <3>2
  <2>2. CASE PollMiss
    <3>1. pc' = "start" /\ \A a \in active' : ~a.cancelled
      BY <2>2 DEF PollMiss
    <3>2. WorkOf(pc', result', active', j) = taken("busy", "none")
      BY <3>1 DEF WorkOf
    <3>3. QED
      BY <1>5, <3>2
  <2>3. QED
    BY <2>1, <2>2
<1>7. \E r \in {<<"busy", "none">>, <<"finished", "ok">>} :
        WorkInHand' = {[session |-> p.session, key |-> k, marked |-> FALSE,
                        phase |-> r[1], outcome |-> r[2]]}
  BY <1>6
<1> HIDE DEF j
<1>8. /\ PlanOf(p) \in {[session |-> q.session, jobs |-> q.jobs] : q \in plan}
      /\ PlanOf(p).session = p.session /\ PlanOf(p).jobs = p.jobs
  BY DEF PlanOf
<1>9. Promise!Kept(PlanOf(p)) = Reconciled(p)
  BY KeptIs
<1>10. seen'.session = p.session
  BY <1>3 DEF Observe
<1>11. /\ p.jobs[i] \notin Reconciled(p)
       /\ \A n \in 1..(i - 1) : p.jobs[n] \in Reconciled(p)
  BY <1>3 DEF FirstTodo
<1>12. QED
  BY <1>3, <1>4, <1>5, <1>7, <1>8, <1>9, <1>10, <1>11 DEF Promise!Take

\* Between announcing a request and knowing its outcome nothing is seen.
LEMMA RequestHidden ==
  ASSUME RefInv, PollStop \/ Start \/ Spawn \/ SpawnFails \/ Store \/ Ask \/ Read
  PROVE  UNCHANGED Promise!desired
<1>1. UNCHANGED <<plan, active, stop, channel, done, seen, job>>
  BY DEF PollStop, Start, Spawn, SpawnFails, Store, Ask, Read, shared
<1>2. CASE PollStop
  <2>1. job = {}
    BY <1>2 DEF PollStop, RefInv, InHandInv
  <2>2. WorkInHand' = WorkInHand
    BY <1>1, <2>1, WorkNow
  <2>3. QED
    BY <1>1, <2>2, Hidden
<1>3. CASE Start \/ Spawn \/ SpawnFails \/ Store \/ Ask \/ Read
  <2>1. pc \in InFlight /\ pc' \in InFlight
    BY <1>3 DEF Start, Spawn, SpawnFails, Store, Ask, Read, InFlight
  <2>2. ASSUME NEW j
        PROVE  WorkOf(pc', result', active, j) = WorkOf(pc, result, active, j)
    BY <2>1 DEF WorkOf, InFlight
  <2>3. WorkInHand' = WorkInHand
    BY <1>1, <2>2, WorkNow
  <2>4. QED
    BY <1>1, <2>3, Hidden
<1>4. QED
  BY <1>2, <1>3

\* An answer that counts finishes the job; one that does not is seen only when
\* the worker has been stopped.
LEMMA SettleMaps ==
  ASSUME RefInv, Settle
  PROVE  Promise!Finish \/ UNCHANGED Promise!desired
<1>1. PICK a \in active :
        /\ result' = IF a.timedOut THEN "err" ELSE IF a.cancelled THEN "drop" ELSE result
        /\ pc' = IF result' = "ok" THEN "check" ELSE "stop"
  BY DEF Settle
<1>2. /\ pc = "settle" /\ active' = {} /\ result \in {"ok", "err"}
      /\ UNCHANGED <<plan, stop, channel, done, seen, job>>
  BY DEF Settle, RefInv, OutcomeInv
<1>3. active = {a} /\ a.cancelled \in BOOLEAN /\ a.timedOut \in BOOLEAN
  BY Contents DEF RefInv, Active
<1>4. PICK j \in job : job = {j}
  BY <1>2, Contents DEF RefInv, InHandInv
<1>5. /\ WorkInHand = {WorkOf("settle", result, active, j)}
      /\ WorkInHand' = {WorkOf(pc', result', {}, j)}
  BY <1>2, <1>4, WorkNow
<1>6. CASE result' = "ok"
  <2>1. ~a.timedOut /\ ~a.cancelled /\ pc' = "check"
    BY <1>1, <1>6
  <2> DEFINE w == WorkOf("settle", result, active, j)
  <2>2. w.phase = "busy" /\ ~w.marked
    BY <1>3, <2>1 DEF WorkOf
  <2>3. WorkOf(pc', result', {}, j) = [w EXCEPT !.phase = "finished", !.outcome = "ok"]
    <3> DEFINE plain(ph, oc) == [session |-> j.session, key |-> j.key, marked |-> FALSE,
                                 phase |-> ph, outcome |-> oc]
    <3>1. (\E x \in active : x.cancelled /\ ~x.timedOut) = FALSE
      BY <1>3, <2>1
    <3>2. w = plain("busy", "none")
      BY <3>1 DEF WorkOf
    <3>3. WorkOf(pc', result', {}, j) = plain("finished", "ok")
      BY <1>6, <2>1 DEF WorkOf
    <3> HIDE DEF w
    <3> DEFINE x == [w EXCEPT !.phase = "finished", !.outcome = "ok"]
    <3>4. x \in [session : {j.session}, key : {j.key}, marked : {FALSE},
              phase : {"finished"}, outcome : {"ok"}]
      BY <3>2
    <3> HIDE DEF x
    <3>5. x = plain("finished", "ok")
      BY <3>4, WorkByFields
    <3>6. QED
      BY <3>3, <3>5 DEF x
  <2> HIDE DEF w
  <2>4. QED
    BY <1>2, <1>5, <2>2, <2>3 DEF w, Promise!Finish
<1>7. CASE result' # "ok"
  <2>1. pc' = "stop"
    BY <1>1, <1>7
  <2>2. result' = "drop" <=> a.cancelled /\ ~a.timedOut
    BY <1>1, <1>2, <1>3
  <2>3. WorkOf("stop", result', {}, j) = WorkOf("settle", result, active, j)
    BY <1>3, <2>2 DEF WorkOf
  <2>4. QED
    BY <1>2, <1>5, <2>1, <2>3, Hidden
<1>8. QED
  BY <1>6, <1>7

\* Stopping the worker gives the job up, or makes its failure known.
LEMMA StopMaps ==
  ASSUME RefInv, StopAfterRequest
  PROVE  Promise!Abandon \/ Promise!Finish
<1>1. /\ pc = "stop" /\ active = {} /\ result \in {"err", "drop"}
      /\ UNCHANGED <<plan, active, stop, channel, seen>>
  BY DEF StopAfterRequest, RefInv, OutcomeInv, InHandInv, InFlight, shared
<1>2. PICK j \in job : job = {j}
  BY <1>1, Contents DEF RefInv, InHandInv
<1> DEFINE w == WorkOf("stop", result, {}, j)
<1>3. WorkInHand = {w} /\ WorkInHand' = {WorkOf(pc', result', {}, x) : x \in job'}
  BY <1>1, <1>2, WorkNow
<1>4. w.phase = "busy" /\ w.key = j.key /\ (w.marked <=> result = "drop")
  BY DEF WorkOf
<1>5. CASE result = "drop"
  <2>1. job' = {} /\ done' = done \ {j.key}
    BY <1>2, <1>5 DEF StopAfterRequest, NextJob
  <2>2. WorkInHand' = {}
    BY <1>3, <2>1
  <2> HIDE DEF w
  <2>3. QED
    BY <1>1, <1>3, <1>4, <1>5, <2>1, <2>2 DEF Promise!Abandon
<1>6. CASE result = "err"
  <2>1. pc' = "check" /\ UNCHANGED <<done, job, result>>
    BY <1>6 DEF StopAfterRequest
  <2>2. WorkOf("check", "err", {}, j) = [w EXCEPT !.phase = "finished", !.outcome = "err"]
    <3> DEFINE plain(ph, oc) == [session |-> j.session, key |-> j.key, marked |-> FALSE,
                                 phase |-> ph, outcome |-> oc]
    <3>1. w = plain("busy", "none")
      BY <1>6 DEF WorkOf
    <3>2. WorkOf("check", "err", {}, j) = plain("finished", "err")
      BY DEF WorkOf
    <3> HIDE DEF w
    <3> DEFINE x == [w EXCEPT !.phase = "finished", !.outcome = "err"]
    <3>3. x \in [session : {j.session}, key : {j.key}, marked : {FALSE},
              phase : {"finished"}, outcome : {"err"}]
      BY <3>1
    <3> HIDE DEF x
    <3>4. x = plain("finished", "err")
      BY <3>3, WorkByFields
    <3>5. QED
      BY <3>2, <3>4 DEF x
  <2>3. WorkInHand' = {[w EXCEPT !.phase = "finished", !.outcome = "err"]}
    BY <1>2, <1>3, <1>6, <2>1, <2>2
  <2> HIDE DEF w
  <2>4. QED
    BY <1>1, <1>3, <1>4, <1>6, <2>1, <2>3 DEF Promise!Finish
<1>7. QED
  BY <1>1, <1>5, <1>6

\* What is known of a job whose outcome is known.
LEMMA AfterFinish ==
  ASSUME RefInv, pc \in {"check", "offer", "send"}
  PROVE  /\ active = {} /\ result \in {"ok", "err"}
         /\ \E j \in job : job = {j} /\ WorkInHand = {WorkOf(pc, result, {}, j)}
<1>1. active = {} /\ result \in {"ok", "err"} /\ job # {}
  BY DEF RefInv, InHandInv, OutcomeInv, InFlight
<1>2. PICK j \in job : job = {j}
  BY <1>1, Contents DEF RefInv
<1>3. QED
  BY <1>1, <1>2, WorkNow

\* A job nobody wants any more is dropped there too.
LEMMA DropMaps ==
  ASSUME RefInv, pc \in {"check", "offer"}, NEW j \in job, ~Wanted(j), NextJob,
         UNCHANGED <<plan, stop, channel, seen, done>>
  PROVE  Promise!Discard
<1>1. job = {j} /\ WorkInHand = {WorkOf(pc, result, {}, j)}
  BY AfterFinish
<1> DEFINE w == WorkOf(pc, result, {}, j)
<1>2. w.phase = "finished"
  BY DEF WorkOf
<1>3. stop \/ ~Promise!Desired(w)
  BY DesiredIs DEF Wanted
<1>4. WorkInHand' = {}
  BY WorkNow DEF NextJob
<1> HIDE DEF w
<1>5. WorkInHand = {w}
  BY <1>1 DEF w
<1>6. QED
  BY <1>2, <1>3, <1>4, <1>5 DEF Promise!Discard

\* Asking whether a finished job is wanted, and caching it, is not seen.
LEMMA CheckMaps ==
  ASSUME RefInv, Check
  PROVE  Promise!Discard \/ UNCHANGED Promise!desired
<1>1. /\ pc = "check" /\ UNCHANGED <<plan, active, stop, channel, seen, done>>
  BY DEF Check, shared
<1>2. PICK j \in job : \/ ~Wanted(j) /\ NextJob
                       \/ pc' = "offer" /\ UNCHANGED <<job, result>>
  BY DEF Check
<1>3. CASE ~Wanted(j) /\ NextJob
  BY <1>1, <1>3, DropMaps
<1>4. CASE pc' = "offer" /\ UNCHANGED <<job, result>>
  <2>1. \A x : WorkOf("offer", result, active, x) = WorkOf("check", result, active, x)
    BY DEF WorkOf
  <2>2. WorkInHand' = WorkInHand
    BY <1>1, <1>4, <2>1, WorkNow
  <2>3. QED
    BY <1>1, <2>2, Hidden
<1>5. QED
  BY <1>2, <1>3, <1>4

\* A round of the publishing loop clears the job or drops it.
LEMMA OfferMaps ==
  ASSUME RefInv, Offer
  PROVE  Promise!Clear \/ Promise!Discard
<1>1. /\ pc = "offer" /\ UNCHANGED <<plan, active, stop, channel, seen, done>>
  BY DEF Offer, shared
<1>2. PICK j \in job : \/ Wanted(j) /\ pc' = "send" /\ UNCHANGED <<job, result>>
                       \/ ~Wanted(j) /\ NextJob
  BY DEF Offer
<1>3. CASE Wanted(j) /\ pc' = "send" /\ UNCHANGED <<job, result>>
  <2> DEFINE w == WorkOf("offer", result, {}, j)
             x == [w EXCEPT !.phase = "cleared"]
  <2>1. active = {} /\ job = {j} /\ WorkInHand = {w}
    BY <1>1, AfterFinish
  <2>2. w = [session |-> j.session, key |-> j.key, marked |-> FALSE,
             phase |-> "finished", outcome |-> result]
    BY DEF WorkOf
  <2>3. WorkOf("send", result, {}, j)
          = [session |-> j.session, key |-> j.key, marked |-> FALSE,
             phase |-> "cleared", outcome |-> result]
    BY DEF WorkOf
  <2>4. Promise!Desired(w) /\ ~stop
    BY <1>3, DesiredIs DEF Wanted
  <2>5. WorkInHand' = {WorkOf("send", result, {}, j)}
    BY <1>1, <1>3, <2>1, WorkNow
  <2> HIDE DEF w
  <2>6. x \in [session : {j.session}, key : {j.key}, marked : {FALSE},
               phase : {"cleared"}, outcome : {result}]
    BY <2>2
  <2>7. w.phase = "finished"
    BY <2>2
  <2> HIDE DEF x
  <2>8. x = WorkOf("send", result, {}, j)
    BY <2>3, <2>6, WorkByFields
  <2>9. WorkInHand' = {[w EXCEPT !.phase = "cleared"]}
    BY <2>5, <2>8 DEF x
  <2>10. QED
    BY <1>1, <2>1, <2>4, <2>7, <2>9 DEF Promise!Clear
<1>4. CASE ~Wanted(j) /\ NextJob
  BY <1>1, <1>4, DropMaps
<1>5. QED
  BY <1>2, <1>3, <1>4

\* Sending is publishing, or postponing when the channel is full.
LEMMA SendMaps ==
  ASSUME RefInv, Send
  PROVE  Promise!Publish \/ Promise!Postpone
<1>1. /\ pc = "send" /\ UNCHANGED <<plan, active, stop, seen, done>>
  BY DEF Send, shared
<1>2. PICK j \in job : job = {j} /\ WorkInHand = {WorkOf("send", result, {}, j)}
  BY <1>1, AfterFinish
<1>3. active = {}
  BY <1>1, AfterFinish
<1> DEFINE w == WorkOf("send", result, {}, j)
<1>4. w = [session |-> j.session, key |-> j.key, marked |-> FALSE,
           phase |-> "cleared", outcome |-> result]
  BY DEF WorkOf
<1>5. CASE Len(channel) < Capacity /\ NextJob
  <2>1. channel' = Append(channel,
           [kind |-> IF result = "ok" THEN "ready" ELSE "error",
            session |-> j.session, key |-> j.key])
    BY <1>2, <1>5 DEF Send
  <2>2. WorkInHand' = {}
    BY <1>5, WorkNow DEF NextJob
  <2> HIDE DEF w
  <2>3. channel' = Append(channel,
           [kind |-> IF w.outcome = "ok" THEN "ready" ELSE "error",
            session |-> w.session, key |-> w.key])
    BY <1>4, <2>1
  <2>4. WorkInHand = {w} /\ w.phase = "cleared"
    BY <1>2, <1>4 DEF w
  <2>5. QED
    BY <1>1, <1>5, <2>2, <2>3, <2>4 DEF Promise!Publish
<1>6. CASE Len(channel) = Capacity /\ pc' = "offer" /\ UNCHANGED <<channel, job, result>>
  <2> DEFINE x == [w EXCEPT !.phase = "finished"]
  <2>1. WorkOf("offer", result, {}, j)
          = [session |-> j.session, key |-> j.key, marked |-> FALSE,
             phase |-> "finished", outcome |-> result]
    BY DEF WorkOf
  <2>2. WorkInHand' = {WorkOf("offer", result, {}, j)}
    BY <1>1, <1>2, <1>3, <1>6, WorkNow
  <2>3. WorkInHand = {w}
    BY <1>2
  <2> HIDE DEF w
  <2>4. x \in [session : {j.session}, key : {j.key}, marked : {FALSE},
               phase : {"finished"}, outcome : {result}]
    BY <1>4
  <2> HIDE DEF x
  <2>5. x = WorkOf("offer", result, {}, j)
    BY <2>1, <2>4, WorkByFields
  <2>6. WorkInHand' = {[w EXCEPT !.phase = "finished"]}
    BY <2>2, <2>5 DEF x
  <2>7. w.phase = "cleared"
    BY <1>4
  <2>8. QED
    BY <1>1, <1>6, <2>3, <2>6, <2>7 DEF Promise!Postpone
<1>7. QED
  BY <1>5, <1>6 DEF Send

(* The monitor and the clock *)

\* Cancelling is a mark that the job was seen unwanted; a deadline is not seen
\* until the request fails of it.
LEMMA ScanMaps ==
  ASSUME RefInv, MonitorScan
  PROVE  Promise!Mark \/ UNCHANGED Promise!desired
<1>1. /\ UNCHANGED <<plan, stop, channel, seen, done, pc, job, result>>
  BY DEF MonitorScan, supervisor
<1>2. PICK a \in active :
        /\ MustCancel(a)
        /\ active' = {[a EXCEPT !.cancelled = TRUE, !.timedOut = Expired(a)]}
  BY DEF MonitorScan
<1>3. active = {a} /\ a \in Active /\ ~a.cancelled
  BY <1>2, Contents DEF RefInv, MustCancel
<1>4. pc \in InFlight
  BY DEF RefInv, InHandInv
<1>5. PICK j \in job : job = {j} /\ a.key = j.key /\ a.session = j.session
  BY <1>4, Contents DEF RefInv, InHandInv, InFlight
<1> DEFINE b == [a EXCEPT !.cancelled = TRUE, !.timedOut = Expired(a)]
<1>6. b.cancelled = TRUE /\ (b.timedOut <=> Expired(a))
  BY <1>3 DEF Active, Expired
<1> HIDE DEF b
<1>7. active' = {b}
  BY <1>2 DEF b
<1> DEFINE plain(m) == [session |-> j.session, key |-> j.key, marked |-> m,
                        phase |-> "busy", outcome |-> "none"]
<1>8. WorkInHand = {plain(FALSE)}
  <2>1. (\E x \in active : x.cancelled /\ ~x.timedOut) = FALSE
    BY <1>3
  <2>2. WorkOf(pc, result, active, j) = plain(FALSE)
    BY <1>4, <2>1 DEF WorkOf, InFlight
  <2>3. QED
    BY <1>5, <2>2, WorkNow
<1>9. CASE Expired(a)
  <2>1. (\E x \in active' : x.cancelled /\ ~x.timedOut) = FALSE
    BY <1>6, <1>7, <1>9
  <2>2. WorkOf(pc, result, active', j) = plain(FALSE)
    BY <1>4, <2>1 DEF WorkOf, InFlight
  <2>3. WorkInHand' = {plain(FALSE)}
    BY <1>1, <1>5, <2>2, WorkNow
  <2>4. QED
    BY <1>1, <1>8, <2>3, Hidden
<1>10. CASE ~Expired(a)
  <2>1. (\E x \in active' : x.cancelled /\ ~x.timedOut) = TRUE
    BY <1>6, <1>7, <1>10
  <2>2. WorkOf(pc, result, active', j) = plain(TRUE)
    BY <1>4, <2>1 DEF WorkOf, InFlight
  <2>3. WorkInHand' = {plain(TRUE)}
    BY <1>1, <1>5, <2>2, WorkNow
  <2>4. ~Promise!Desired(plain(FALSE))
    <3>1. WorkOf(pc, result, active, j) = plain(FALSE)
      BY <1>3, <1>4 DEF WorkOf, InFlight
    <3>2. \A p \in plan : p.session # j.session \/ j.key \notin JobSet(p)
      BY <1>2, <1>5, <1>10 DEF MustCancel, Unwanted
    <3>3. ~Promise!Desired(WorkOf(pc, result, active, j))
      BY <3>2, DesiredIs
    <3>4. QED
      BY <3>1, <3>3
  <2> DEFINE w == plain(FALSE)
             x == [w EXCEPT !.marked = TRUE]
  <2>5. w.phase = "busy" /\ ~w.marked
    OBVIOUS
  <2>6. x \in [session : {j.session}, key : {j.key}, marked : {TRUE},
               phase : {"busy"}, outcome : {"none"}]
    OBVIOUS
  <2> HIDE DEF w, x
  <2>7. x = plain(TRUE)
    BY <2>6, WorkByFields
  <2>8. WorkInHand = {w} /\ WorkInHand' = {[w EXCEPT !.marked = TRUE]}
    BY <1>8, <2>3, <2>7 DEF w, x
  <2>9. ~Promise!Desired(w)
    BY <2>4 DEF w
  <2>10. QED
    BY <1>1, <2>5, <2>8, <2>9 DEF Promise!Mark
<1>11. QED
  BY <1>9, <1>10

\* Time passing changes neither mark nor outcome.
LEMMA TickHidden ==
  ASSUME RefInv, Tick
  PROVE  UNCHANGED Promise!desired
<1>1. UNCHANGED <<plan, stop, channel, seen, done, pc, job, result>>
  BY DEF Tick, supervisor
<1>2. PICK a \in active : active' = {[a EXCEPT !.age = @ + 1]}
  BY DEF Tick
<1>3. active = {a} /\ a \in Active
  BY Contents DEF RefInv
<1> DEFINE b == [a EXCEPT !.age = @ + 1]
<1>4. b.cancelled = a.cancelled /\ b.timedOut = a.timedOut
  BY <1>3 DEF Active
<1> HIDE DEF b
<1>5. active' = {b}
  BY <1>2 DEF b
<1>6. (\E x \in active' : x.cancelled /\ ~x.timedOut)
        = (\E x \in active : x.cancelled /\ ~x.timedOut)
  BY <1>3, <1>4, <1>5
<1>7. ASSUME NEW j
      PROVE  WorkOf(pc, result, active', j) = WorkOf(pc, result, active, j)
  BY <1>6 DEF WorkOf
<1>8. WorkInHand' = WorkInHand
  BY <1>1, <1>7, WorkNow
<1>9. QED
  BY <1>1, <1>8, Hidden

\* Processes live and die, and the monitor kills, behind the promise.
LEMMA ProcessesHidden ==
  ASSUME \/ \E p \in Pids : WorkerReply(p) \/ WorkerHang(p) \/ WorkerDie(p)
         \/ MonitorKill \/ MonitorStop \/ UNCHANGED vars
  PROVE  UNCHANGED Promise!desired
<1>1. UNCHANGED <<shared, supervisor, channel>>
  BY DEF WorkerReply, WorkerHang, WorkerDie, MonitorKill, MonitorStop, vars
<1>2. UNCHANGED <<plan, active, stop, channel, seen, done, pc, job, result>>
  BY <1>1 DEF shared, supervisor
<1>3. WorkInHand' = WorkInHand
  BY <1>2, WorkNow
<1>4. QED
  BY <1>2, <1>3, Hidden

-----------------------------------------------------------------------------
(* The theorem *)

LEMMA StepMaps ==
  ASSUME RefInv, [Next]_vars
  PROVE  [Promise!Next]_Promise!desired
<1> USE DEF Promise!Next, Promise!Controller
<1>1. ASSUME NEW s \in Sessions, NEW jobs \in JobLists, Submit(s, jobs)
      PROVE  Promise!Next
  <2>1. s \in Promise!Sessions /\ jobs \in Promise!JobLists
    BY DEF Sessions, JobLists, Promise!Sessions, Promise!JobLists
  <2>2. QED
    BY <1>1, <2>1, SubmitMaps
<1>2. CASE Receive \/ Drop
  <2>1. UNCHANGED <<plan, seen, done>> /\ WorkInHand' = WorkInHand
    BY <1>2, WorkNow DEF Receive, Drop, shared, supervisor
  <2>2. Promise!Receive \/ Promise!Drop
    BY <1>2, <2>1 DEF Receive, Drop, shared, Promise!Receive, Promise!Drop,
       Promise!controller
  <2>3. QED
    BY <2>2
<1>3. CASE PollIdle
  BY <1>3, IdleMaps
<1>4. CASE PollHit \/ PollMiss
  BY <1>4, TakeMaps
<1>5. CASE PollStop \/ Start \/ Spawn \/ SpawnFails \/ Store \/ Ask \/ Read
  BY <1>5, RequestHidden
<1>6. CASE Settle
  BY <1>6, SettleMaps
<1>7. CASE StopAfterRequest
  BY <1>7, StopMaps
<1>8. CASE Check
  BY <1>8, CheckMaps
<1>9. CASE Offer
  BY <1>9, OfferMaps
<1>10. CASE Send
  BY <1>10, SendMaps
<1>11. CASE MonitorScan
  BY <1>11, ScanMaps
<1>12. CASE Tick
  BY <1>12, TickHidden
<1>13. CASE \/ \E p \in Pids : WorkerReply(p) \/ WorkerHang(p) \/ WorkerDie(p)
            \/ MonitorKill \/ MonitorStop \/ UNCHANGED vars
  BY <1>13, ProcessesHidden
<1>14. QED
  BY <1>1, <1>2, <1>3, <1>4, <1>5, <1>6, <1>7, <1>8, <1>9, <1>10, <1>11, <1>12,
     <1>13 DEF Next, Supervisor, Monitor

\* The controller of pipeline.rs implements DesiredWork, on which the viewer's
\* session relies: jobs are taken in plan order, one at a time, given up only
\* after they were seen unwanted, and answered once while they are wanted,
\* through any interleaving of kills, crashes, timeouts and reopenings.
THEOREM ControllerKeepsPromise == Spec => KeepsPromise
<1>1. Init => Promise!Init
  BY InitMaps
<1>2. RefInv /\ [Next]_vars => [Promise!Next]_Promise!desired
  BY StepMaps
<1>3. QED
  BY <1>1, <1>2, RefInvariance, PTL DEF Spec, KeepsPromise, Promise!Spec
=============================================================================
