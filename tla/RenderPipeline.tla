--------------------------- MODULE RenderPipeline ---------------------------
(***************************************************************************)
(* The rendering controller of the drawing viewer (pipeline.rs).           *)
(*                                                                         *)
(* Two threads share a state lock (plan, active, stop) and a child slot    *)
(* lock.  The supervisor walks the job list of the latest plan, keeps one  *)
(* PDFium worker process per document session, writes one request to it    *)
(* and blocks on its reply.  The monitor looks every 5 ms for a request    *)
(* that nobody wants any more, or that is too old, and kills the process   *)
(* in the child slot, which is what unblocks the supervisor.  Replies go   *)
(* to the user interface over a bounded channel.                           *)
(*                                                                         *)
(* An action is one critical section of one thread together with the       *)
(* thread-local code that follows it.  Rust's Option<T> is a set with at   *)
(* most one element: is_some_and is \E, is_none_or is \A.                  *)
(***************************************************************************)
EXTENDS Naturals, Sequences, FiniteSets

CONSTANTS
  Keys,        \* what can be asked of a worker: metadata, previews, tiles, text
  Cacheable,   \* the keys the CPU cache keeps: levels -1 and up, and text (-3)
  Pids,        \* identities of worker processes
  Stamps,      \* values of Instant::now(), told apart only while one is held
  Capacity,    \* slots of the reply channel: sync_channel(2)
  MaxJobs,     \* longest job list of a plan that is modelled
  MaxRevision, \* bound: plans submitted in a behaviour
  MaxSession   \* bound: documents opened in a behaviour

ASSUME ConstantsAssumption ==
  /\ Cacheable \subseteq Keys
  /\ \A t \in Stamps : Stamps \ {t} # {}
  /\ Pids # {}
  /\ Capacity \in Nat \ {0}
  /\ MaxJobs \in Nat
  /\ MaxRevision \in Nat
  /\ MaxSession \in Nat

VARIABLES
  plan,     \* Shared.plan: the latest desired work
  active,   \* Shared.active: the request the supervisor has in flight
  stop,     \* Shared.stop
  child,    \* the child slot: the process stop_child and the monitor kill
  channel,  \* replies and errors on their way to the user interface
  mon,      \* monitor: where it is
  doomed,   \* monitor: start instant of the request it decided to cancel
  pc,       \* supervisor: where it is
  job,      \* supervisor: session and key of the job in hand
  result,   \* supervisor: outcome of the job in hand
  seen,     \* supervisor: session and revision it last reconciled `done` with
  done,     \* supervisor: keys it will not send again under this plan
  cache,    \* supervisor: keys in its CPU cache
  process,  \* supervisor: pipes of the worker it talks to, and its session
  worker    \* the operating system's view of the worker processes

shared     == <<plan, active, stop>>
monitor    == <<mon, doomed>>
supervisor == <<pc, job, result, seen, done, cache, process>>
vars == <<shared, monitor, supervisor, child, channel, worker>>

-----------------------------------------------------------------------------
(* Types *)

\* Job lists are duplicate-free: the viewer builds them from distinct tiles.
JobLists ==
  {jobs \in UNION {[1..n -> Keys] : n \in 0..MaxJobs} :
     \A i, j \in DOMAIN jobs : jobs[i] = jobs[j] => i = j}

JobSet(p) == {p.jobs[i] : i \in DOMAIN p.jobs}

Sessions  == 1..MaxSession
Revisions == 1..MaxRevision

Plan   == [session : Sessions, revision : Revisions, jobs : JobLists]

\* `age` is started.elapsed(): 0 up to 80 ms, 1 up to 15 s, 2 beyond.
Active == [session : Sessions, key : Keys, started : Stamps,
           cancelled : BOOLEAN, timedOut : BOOLEAN, age : 0..2]

Job     == [session : Sessions, key : Keys]
Process == [pid : Pids, session : Sessions]

Event  == [kind : {"ready", "error"}, session : Sessions, key : Keys]

\* state: no such process / running / exited but not waited for.
\* reply: nothing asked / computing / computing for ever / answer in the pipe.
Worker == [state : {"none", "running", "dead"},
           session : 0..MaxSession,
           reply : {"idle", "busy", "hung", "ok", "err"}]

Option(S) == {{}} \cup {{x} : x \in S}

TypeOK ==
  /\ plan \in Option(Plan)
  /\ active \in Option(Active)
  /\ stop \in BOOLEAN
  /\ child \in Option(Pids)
  /\ channel \in Seq(Event) /\ Len(channel) <= Capacity
  /\ mon \in {"scan", "kill", "done"}
  /\ doomed \in Option(Stamps)
  /\ pc \in {"poll", "start", "spawn", "store", "ask", "read", "settle",
             "stop", "check", "offer", "send", "done"}
  /\ job \in Option(Job)
  /\ result \in {"none", "ok", "err", "drop"}
  /\ seen \in [session : 0..MaxSession, revision : 0..MaxRevision]
  /\ done \subseteq Keys
  /\ cache \subseteq Cacheable
  /\ process \in Option(Process)
  /\ worker \in [Pids -> Worker]

NoWorker == [state |-> "none", session |-> 0, reply |-> "idle"]

Init ==
  /\ plan = {} /\ active = {} /\ stop = FALSE
  /\ child = {} /\ channel = <<>>
  /\ mon = "scan" /\ doomed = {}
  /\ pc = "poll" /\ job = {} /\ result = "none"
  /\ seen = [session |-> 0, revision |-> 0]
  /\ done = {} /\ cache = {} /\ process = {}
  /\ worker = [p \in Pids |-> NoWorker]

-----------------------------------------------------------------------------
(* The user interface, as far as the controller sees it *)

Revision == IF plan = {} THEN 0 ELSE (CHOOSE p \in plan : TRUE).revision
Session  == IF plan = {} THEN 0 ELSE (CHOOSE p \in plan : TRUE).session

\* A new plan for the open document, or for a later one; a plan equal to the
\* last is not submitted again.
Submit(s, jobs) ==
  /\ ~stop
  /\ Revision < MaxRevision
  /\ s \in Sessions /\ s >= Session
  /\ \A p \in plan : p.session # s \/ p.jobs # jobs
  /\ plan' = {[session |-> s, revision |-> Revision + 1, jobs |-> jobs]}
  /\ UNCHANGED <<active, stop, monitor, supervisor, child, channel, worker>>

\* The user interface takes one event per try_recv.
Receive ==
  /\ ~stop
  /\ channel # <<>>
  /\ channel' = Tail(channel)
  /\ UNCHANGED <<shared, monitor, supervisor, child, worker>>

\* Controller::drop: the threads are told to stop and then joined.
Drop ==
  /\ ~stop
  /\ stop' = TRUE
  /\ UNCHANGED <<plan, active, monitor, supervisor, child, channel, worker>>

-----------------------------------------------------------------------------
(* Processes *)

\* Child::kill on whatever is in the slot: a dead process stays dead.
KillSlot ==
  worker' = [p \in Pids |->
               IF p \in child /\ worker[p].state = "running"
               THEN [worker[p] EXCEPT !.state = "dead"]
               ELSE worker[p]]

\* stop_child: take the slot, kill, wait.
StopChild ==
  /\ child' = {}
  /\ worker' = [p \in Pids |-> IF p \in child THEN NoWorker ELSE worker[p]]

\* The worker answers, with pixels or with an error header.
WorkerReply(p) ==
  /\ worker[p].state = "running" /\ worker[p].reply = "busy"
  /\ \E r \in {"ok", "err"} : worker' = [worker EXCEPT ![p].reply = r]
  /\ UNCHANGED <<shared, monitor, supervisor, child, channel>>

\* A native call that never returns.
WorkerHang(p) ==
  /\ worker[p].state = "running" /\ worker[p].reply = "busy"
  /\ worker' = [worker EXCEPT ![p].reply = "hung"]
  /\ UNCHANGED <<shared, monitor, supervisor, child, channel>>

\* The worker exits on its own: a crash in PDFium, a document it cannot open.
WorkerDie(p) ==
  /\ worker[p].state = "running" /\ worker[p].reply # "hung"
  /\ worker' = [worker EXCEPT ![p].state = "dead"]
  /\ UNCHANGED <<shared, monitor, supervisor, child, channel>>

\* Time passes for the request in flight.
Tick ==
  /\ \E a \in active :
       /\ a.age < 2
       /\ active' = {[a EXCEPT !.age = @ + 1]}
  /\ UNCHANGED <<plan, stop, monitor, supervisor, child, channel, worker>>

(* The supervisor thread *)

\* Mutant: shutting down does not make a job unwanted.
Wanted_IgnoresStop(j) ==
  \E p \in plan : p.session = j.session /\ j.key \in JobSet(p)

Wanted(j) ==
  /\ ~stop
  /\ \E p \in plan : p.session = j.session /\ j.key \in JobSet(p)

\* The loop turns to the next job: the locals of this one are gone.
NextJob == pc' = "poll" /\ job' = {} /\ result' = "none"

\* A new session forgets everything; a new revision forgets the keys it dropped.
Reconciled(p) ==
  IF seen.session = p.session /\ seen.revision = p.revision THEN done
  ELSE IF seen.session = p.session THEN done \cap JobSet(p)
  ELSE {}

Observe(p) == seen' = [session |-> p.session, revision |-> p.revision]

\* Position i of the list holds the first job that is not done.
FirstTodo(p, handled, i) ==
  /\ p.jobs[i] \notin handled
  /\ \A j \in 1..(i - 1) : p.jobs[j] \in handled

\* Nothing left to do under this plan: remember it and sleep.
PollIdle ==
  /\ pc = "poll" /\ ~stop
  /\ \E p \in plan :
       /\ JobSet(p) \subseteq Reconciled(p)
       /\ Observe(p)
       /\ done' = Reconciled(p)
  /\ UNCHANGED <<shared, monitor, pc, job, result, cache, process, child,
                 channel, worker>>

\* The first job not done is taken; it is counted as done from here on.
Pick(k) ==
  \E p \in plan : \E i \in DOMAIN p.jobs :
    /\ FirstTodo(p, Reconciled(p), i)
    /\ k = p.jobs[i]
    /\ Observe(p)
    /\ done' = Reconciled(p) \cup {k}
    /\ job' = {[session |-> p.session, key |-> k]}

\* A cached answer needs no request: nothing is in flight.
PollHit ==
  /\ pc = "poll" /\ ~stop
  /\ \E k \in cache : Pick(k)
  /\ result' = "ok"
  /\ pc' = "check"
  /\ UNCHANGED <<shared, monitor, cache, process, child, channel, worker>>

\* Otherwise the request is announced to the monitor before there is a process.
\* Its start instant differs from the one the monitor may still hold.
PollMiss ==
  /\ pc = "poll" /\ ~stop
  /\ \E k \in Keys \ cache, t \in Stamps \ doomed :
       /\ Pick(k)
       /\ active' = {[session |-> j.session, key |-> j.key, started |-> t,
                      cancelled |-> FALSE, timedOut |-> FALSE, age |-> 0]
                     : j \in job'}
  /\ pc' = "start"
  /\ UNCHANGED <<plan, stop, monitor, result, cache, process, child, channel,
                 worker>>

\* Mutant: the supervisor leaves its last worker behind.
PollStop_Leaks ==
  /\ pc = "poll" /\ stop
  /\ pc' = "done"
  /\ UNCHANGED <<shared, monitor, job, result, seen, done, cache, process,
                 child, channel, worker>>

PollStop ==
  /\ pc = "poll" /\ stop
  /\ pc' = "done"
  /\ StopChild
  /\ UNCHANGED <<shared, monitor, job, result, seen, done, cache, process,
                 channel>>

\* Mutant: the worker of the previous session is not stopped.
Start_KeepsOldWorker ==
  /\ pc = "start"
  /\ \E j \in job :
       pc' = IF \E q \in process : q.session = j.session THEN "ask" ELSE "spawn"
  /\ UNCHANGED <<shared, monitor, job, result, seen, done, cache, process,
                 child, channel, worker>>

\* A worker opened for another session is not reused.
Start ==
  /\ pc = "start"
  /\ \E j \in job :
       \/ /\ \E q \in process : q.session = j.session
          /\ pc' = "ask"
          /\ UNCHANGED <<process, child, worker>>
       \/ /\ \A q \in process : q.session # j.session
          /\ pc' = "spawn"
          /\ process' = {}
          /\ StopChild
  /\ UNCHANGED <<shared, monitor, job, result, seen, done, cache, channel>>

\* The process exists, but is not in the child slot yet.
Spawn ==
  /\ pc = "spawn"
  /\ \E j \in job, p \in Pids :
       /\ worker[p].state = "none"
       /\ worker' = [worker EXCEPT ![p] = [state |-> "running",
                                           session |-> j.session,
                                           reply |-> "idle"]]
       /\ process' = {[pid |-> p, session |-> j.session]}
  /\ pc' = "store"
  /\ UNCHANGED <<shared, monitor, job, result, seen, done, cache, child,
                 channel>>

SpawnFails ==
  /\ pc = "spawn"
  /\ pc' = "settle"
  /\ result' = "err"
  /\ UNCHANGED <<shared, monitor, job, seen, done, cache, process, child,
                 channel, worker>>

Store ==
  /\ pc = "store"
  /\ child' = {q.pid : q \in process}
  /\ pc' = "ask"
  /\ UNCHANGED <<shared, monitor, job, result, seen, done, cache, process,
                 channel, worker>>

\* Writing to a dead process is an error (EPIPE).
Ask ==
  /\ pc = "ask"
  /\ \E q \in process :
       \/ /\ worker[q.pid].state = "running"
          /\ worker' = [worker EXCEPT ![q.pid].reply = "busy"]
          /\ pc' = "read"
          /\ UNCHANGED result
       \/ /\ worker[q.pid].state # "running"
          /\ pc' = "settle"
          /\ result' = "err"
          /\ UNCHANGED worker
  /\ UNCHANGED <<shared, monitor, job, seen, done, cache, process, child,
                 channel>>

\* The blocking read ends with an answer in the pipe or at its end.
Read ==
  /\ pc = "read"
  /\ \E q \in process :
       \/ /\ worker[q.pid].reply \in {"ok", "err"}
          /\ result' = worker[q.pid].reply
          /\ worker' = [worker EXCEPT ![q.pid].reply = "idle"]
       \/ /\ worker[q.pid].reply \notin {"ok", "err"}
          /\ worker[q.pid].state # "running"
          /\ result' = "err"
          /\ UNCHANGED worker
  /\ pc' = "settle"
  /\ UNCHANGED <<shared, monitor, job, seen, done, cache, process, child,
                 channel>>

\* Mutant: only a cancelled request costs its worker, a failed one does not.
Settle_ReusesAfterError ==
  /\ pc = "settle"
  /\ \E a \in active :
       /\ result' = IF a.timedOut THEN "err"
                    ELSE IF a.cancelled THEN "drop" ELSE result
       /\ pc' = IF result' = "drop" THEN "stop" ELSE "check"
  /\ active' = {}
  /\ UNCHANGED <<plan, stop, monitor, job, seen, done, cache, process, child,
                 channel, worker>>

\* active.take(): what the monitor recorded decides what the answer is worth.
Settle ==
  /\ pc = "settle"
  /\ \E a \in active :
       /\ result' = IF a.timedOut THEN "err"
                    ELSE IF a.cancelled THEN "drop" ELSE result
       /\ pc' = IF result' = "ok" THEN "check" ELSE "stop"
  /\ active' = {}
  /\ UNCHANGED <<plan, stop, monitor, job, seen, done, cache, process, child,
                 channel, worker>>

\* Mutant: an interrupted job counts as dealt with.
StopAfterRequest_KeepsDone ==
  /\ pc = "stop"
  /\ StopChild
  /\ process' = {}
  /\ \/ result = "drop" /\ NextJob
     \/ result # "drop" /\ pc' = "check" /\ UNCHANGED <<job, result>>
  /\ UNCHANGED <<shared, monitor, seen, done, cache, channel>>

\* After a failed or cancelled request the process goes; an interrupted job
\* may be asked for again.
StopAfterRequest ==
  /\ pc = "stop"
  /\ StopChild
  /\ process' = {}
  /\ \/ /\ result = "drop"
        /\ done' = done \ {j.key : j \in job}
        /\ NextJob
     \/ /\ result # "drop"
        /\ pc' = "check"
        /\ UNCHANGED <<done, job, result>>
  /\ UNCHANGED <<shared, monitor, seen, cache, channel>>

\* A finished job nobody wants is dropped; a wanted one is cached and offered.
\* Which other entries the cache evicts is RenderCache's business.
Check ==
  /\ pc = "check"
  /\ \E j \in job :
       \/ /\ ~Wanted(j)
          /\ NextJob
          /\ UNCHANGED cache
       \/ /\ Wanted(j)
          /\ pc' = "offer"
          /\ IF result = "ok" /\ j.key \in Cacheable \ cache
             THEN \E kept \in SUBSET cache : cache' = kept \cup {j.key}
             ELSE UNCHANGED cache
          /\ UNCHANGED <<job, result>>
  /\ UNCHANGED <<shared, monitor, seen, done, process, child, channel, worker>>

\* Every round of the publishing loop asks again whether the job is wanted.
Offer ==
  /\ pc = "offer"
  /\ \E j \in job :
       \/ Wanted(j) /\ pc' = "send" /\ UNCHANGED <<job, result>>
       \/ ~Wanted(j) /\ NextJob
  /\ UNCHANGED <<shared, monitor, seen, done, cache, process, child, channel,
                 worker>>

\* Mutant: an unbounded channel.
Send_Unbounded ==
  /\ pc = "send"
  /\ \E j \in job :
       channel' = Append(channel,
         [kind |-> IF result = "ok" THEN "ready" ELSE "error",
          session |-> j.session, key |-> j.key])
  /\ NextJob
  /\ UNCHANGED <<shared, monitor, seen, done, cache, process, child, worker>>

\* try_send: a full channel is tried again after 5 ms.
Send ==
  /\ pc = "send"
  /\ \/ /\ Len(channel) < Capacity
        /\ \E j \in job :
             channel' = Append(channel,
               [kind |-> IF result = "ok" THEN "ready" ELSE "error",
                session |-> j.session, key |-> j.key])
        /\ NextJob
     \/ /\ Len(channel) = Capacity
        /\ pc' = "offer"
        /\ UNCHANGED <<channel, job, result>>
  /\ UNCHANGED <<shared, monitor, seen, done, cache, process, child, worker>>

Supervisor ==
  \/ PollIdle \/ PollHit \/ PollMiss \/ PollStop
  \/ Start \/ Spawn \/ SpawnFails \/ Store \/ Ask \/ Read
  \/ Settle \/ StopAfterRequest \/ Check \/ Offer \/ Send

-----------------------------------------------------------------------------
(* The monitor thread *)

Reopened(a) == \E p \in plan : p.session # a.session
Unwanted(a) == \A p \in plan : p.session # a.session \/ a.key \notin JobSet(p)
Expired(a)  == a.age = 2

\* Mutant: no deadline for wanted work.
MustCancel_NoDeadline(a) ==
  ~a.cancelled /\ Unwanted(a) /\ (Reopened(a) \/ a.age >= 1)

\* A reopened document cancels at once, other unwanted work after its grace.
MustCancel(a) ==
  /\ ~a.cancelled
  /\ \/ Expired(a)
     \/ Unwanted(a) /\ (Reopened(a) \/ a.age >= 1)

\* First critical section: decide, and leave a mark on the request.
MonitorScan ==
  /\ mon = "scan" /\ ~stop
  /\ \E a \in active :
       /\ MustCancel(a)
       /\ active' = {[a EXCEPT !.cancelled = TRUE, !.timedOut = Expired(a)]}
       /\ doomed' = {a.started}
  /\ mon' = "kill"
  /\ UNCHANGED <<plan, stop, supervisor, child, channel, worker>>

\* Mutant: the decision of the first critical section is carried out as is.
StillDoomed_NoRecheck == TRUE

\* The recheck: the marked request must still be the one in flight.
StillDoomed == \E a \in active : a.started \in doomed /\ a.cancelled

\* Second critical section: kill what is in the slot, if the mark still holds.
MonitorKill ==
  /\ mon = "kill"
  /\ IF StillDoomed THEN KillSlot ELSE UNCHANGED worker
  /\ mon' = "scan"
  /\ doomed' = {}
  /\ UNCHANGED <<shared, supervisor, child, channel>>

MonitorStop ==
  /\ mon = "scan" /\ stop
  /\ KillSlot
  /\ mon' = "done"
  /\ UNCHANGED <<shared, doomed, supervisor, child, channel>>

Monitor == MonitorScan \/ MonitorKill \/ MonitorStop

-----------------------------------------------------------------------------

Stopped == stop /\ mon = "done" /\ pc = "done"

Next ==
  \/ \E s \in Sessions, jobs \in JobLists : Submit(s, jobs)
  \/ Receive \/ Drop
  \/ Supervisor \/ Monitor
  \/ \E p \in Pids : WorkerReply(p) \/ WorkerHang(p) \/ WorkerDie(p)
  \/ Tick
  \/ Stopped /\ UNCHANGED vars

\* Both threads loop for ever, the user interface drains the channel every
\* frame and is woken for it, time passes, and a worker that does not hang
\* answers.  Nothing obliges the user to submit, to close, or a worker to live.
Fairness ==
  /\ WF_vars(Supervisor)
  /\ WF_vars(Monitor)
  /\ WF_vars(Receive)
  /\ WF_vars(Tick)
  /\ \A p \in Pids : WF_vars(WorkerReply(p))

Spec == Init /\ [][Next]_vars
FairSpec == Spec /\ Fairness

-----------------------------------------------------------------------------
(* Safety *)

Running == {p \in Pids : worker[p].state = "running"}

\* README "one native job in flight": no two worker processes run at once,
\* through reopenings, crashes, cancellations and restarts.
OneWorker == \A p, q \in Running : p = q

\* A process is out of the supervisor's and the monitor's reach only between
\* its launch and the store of the child slot; no other process is ever
\* forgotten, not even a dead one that still has to be waited for.
NoLostProcess ==
  \A p \in Pids : worker[p].state # "none" =>
    p \in child \/ (pc = "store" /\ \E q \in process : q.pid = p)

\* A request is written to a worker that was opened for the job's session and
\* owes no answer: what the supervisor reads next answers this request, never
\* a cancelled or timed-out one, and never shows the document open before.
FreshWorker ==
  pc = "ask" =>
    \E q \in process, j \in job :
      /\ q.pid \in child
      /\ worker[q.pid].session = j.session
      /\ worker[q.pid].reply = "idle"

\* pipeline.rs:112 "an old cancellation can never kill a replacement process
\* after the reply races it": a monitor that kills a process at work on a
\* request is carrying out the cancellation of that very request.
KillsOnlyCancelled ==
  [][\A p \in Pids :
       /\ mon = "kill" /\ mon' # mon
       /\ worker[p].state = "running" /\ worker'[p].state = "dead"
       /\ pc = "read" /\ \E q \in process : q.pid = p
       => \E a \in active, j \in job :
            /\ a.cancelled /\ a.key = j.key /\ a.session = j.session
            /\ a.timedOut \/ a.age >= 1 \/ \E pl \in plan : pl.session # a.session]_vars

\* Controller::drop "waits for kill/reap so no PDF worker is orphaned": once
\* both threads can be joined every process has been waited for.
NoOrphan == Stopped => \A p \in Pids : worker[p].state = "none"

-----------------------------------------------------------------------------
(* What the controller promises *)

\* The job in hand, seen from outside: at work until the supervisor has decided
\* what its answer is worth.  A mark that is not a timeout announces that the
\* job will be given up.
WorkInHand ==
  {[session |-> j.session, key |-> j.key,
    marked  |-> \/ pc = "stop" /\ result = "drop"
                \/ \E a \in active : a.cancelled /\ ~a.timedOut,
    phase   |-> CASE pc \in {"check", "offer"} -> "finished"
                  [] pc = "send" -> "cleared"
                  [] OTHER -> "busy",
    outcome |-> IF pc \in {"check", "offer", "send"} THEN result ELSE "none"]
   : j \in job}

Promise == INSTANCE DesiredWork WITH
  plan  <- {[session |-> p.session, jobs |-> p.jobs] : p \in plan},
  known <- seen.session,
  work  <- WorkInHand

\* Threads, processes, kills, restarts and the cache together do what
\* DesiredWork says: jobs in plan order, given up only after they were seen
\* unwanted, one event for each that is still wanted when it is finished, and
\* the revision number no more than a way to save work.
KeepsPromise == Promise!Spec

-----------------------------------------------------------------------------
(* Liveness *)

\* A request that reaches its worker before it is cancelled, while the monitor
\* lives, cannot block the supervisor for ever, even when the worker hangs and
\* the request stays wanted: the deadline, a reopening or a stop ends the read.
ReadEnds ==
  (pc = "read" /\ mon # "done" /\ \A a \in active : ~a.cancelled)
    ~> (pc # "read")

\* The viewer's side of a delivery: the event for the job is in the channel.
Sent(j) == \E i \in DOMAIN channel : channel[i].session = j.session /\ channel[i].key = j.key

\* The supervisor still owes the job: it has not taken its key in this session,
\* or has it in hand and has not yet found it unwanted or sent it.
Owed(j) == ~(seen.session = j.session /\ j.key \in done) \/ j \in job

\* pipeline.rs:162-284: a job that is owed and wanted is delivered, its pixels or
\* its error, unless the plans that follow cease to want it, a worker hung or
\* the viewer closed.  That includes a job whose request is cancelled because it
\* was out of sight for a while and is wanted again before the supervisor notices.
\* It leaves out the one that was finished and found unwanted (239): the key stays
\* in `done`, and nothing is owed until a plan without it has been seen.
NoHang == \A p \in Pids : worker[p].reply # "hung"
WantedIsSent ==
  []NoHang => \A j \in Job : (Wanted(j) /\ Owed(j)) ~> (Sent(j) \/ ~Wanted(j))

\* pdf_progressive_m1a.md:9 "closing the application kills and reaps its child":
\* closing the viewer never blocks on a full channel, an unread reply or a worker
\* that hangs, whether its request was cancelled or not: both threads end, and with
\* them every process (NoOrphan).  Excepted is a worker that hangs when the monitor
\* is gone, as one can whose process is stored only after that (75, 200).
HungUnwatched == mon = "done" /\ \E p \in Running : worker[p].reply = "hung"
ShutdownCompletes == []~HungUnwatched => (stop ~> Stopped)

\* README: "The monitor kills obsolete in-flight work on document reopen
\* immediately".  With the viewer left open, the request of a document that is
\* no longer open may not keep the supervisor reading for ever.
ObsoleteWorkKilled ==
  []~stop => ((pc = "read" /\ \E a \in active : Reopened(a)) ~> (pc # "read"))

=============================================================================
