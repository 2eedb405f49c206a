---------------------------- MODULE DesiredWork ----------------------------
(***************************************************************************)
(* What the rendering controller (pipeline.rs) promises the user           *)
(* interface, without threads, processes or a cache.  The interface states *)
(* the work it desires; the controller takes it one job at a time, in      *)
(* order, gives up a job only after it saw it undesired, and sends one     *)
(* event for each job that is still desired when it is finished.           *)
(*                                                                         *)
(* RenderPipeline implements this specification; ViewerSession puts the    *)
(* user interface on top of it.                                            *)
(***************************************************************************)
EXTENDS Naturals, Sequences

CONSTANTS
  Keys,       \* what can be asked for
  Capacity,   \* slots of the reply channel
  MaxJobs,    \* longest list of jobs that is modelled
  MaxSession  \* bound: documents opened in a behaviour

VARIABLES
  plan,     \* the latest desired work (an option, like `work`)
  stop,     \* the controller is being dropped
  channel,  \* events on their way to the user interface
  known,    \* session the controller last reconciled `done` with
  done,     \* keys it will not send again under this plan
  work      \* the job in hand

controller == <<known, done, work>>
desired == <<plan, stop, channel, controller>>

\* Job lists are duplicate-free: the viewer builds them from distinct tiles.
JobLists ==
  {jobs \in UNION {[1..n -> Keys] : n \in 0..MaxJobs} :
     \A i, j \in DOMAIN jobs : jobs[i] = jobs[j] => i = j}

JobSet(p) == {p.jobs[i] : i \in DOMAIN p.jobs}

Sessions == 1..MaxSession

Plan  == [session : Sessions, jobs : JobLists]
Event == [kind : {"ready", "error"}, session : Sessions, key : Keys]

\* busy: asked of a worker.  finished: its outcome is known.  cleared: found
\* desired a moment ago, about to be sent.  A marked job was seen undesired.
Work == [session : Sessions, key : Keys, marked : BOOLEAN,
         phase : {"busy", "finished", "cleared"}, outcome : {"none", "ok", "err"}]

Option(S) == {{}} \cup {{x} : x \in S}

Init ==
  /\ plan = {} /\ stop = FALSE /\ channel = <<>>
  /\ known = 0 /\ done = {} /\ work = {}

-----------------------------------------------------------------------------
(* The user interface's side *)

Session == IF plan = {} THEN 0 ELSE (CHOOSE p \in plan : TRUE).session

\* New desired work for the open document, or for a later one.
Submit(s, jobs) ==
  /\ ~stop
  /\ s \in Sessions /\ s >= Session
  /\ plan' = {[session |-> s, jobs |-> jobs]}
  /\ UNCHANGED <<stop, channel, controller>>

Receive ==
  /\ ~stop /\ channel # <<>>
  /\ channel' = Tail(channel)
  /\ UNCHANGED <<plan, stop, controller>>

Drop ==
  /\ ~stop
  /\ stop' = TRUE
  /\ UNCHANGED <<plan, channel, controller>>

-----------------------------------------------------------------------------
(* The controller's side *)

Desired(w) == \E p \in plan : p.session = w.session /\ w.key \in JobSet(p)

\* Mutant: a new session does not forget what was sent under the last.
Kept_AcrossSessions(p) == done \cap JobSet(p)

\* What is kept of `done`: nothing across sessions, and within a session what
\* the plan still asks for.
Kept(p) == IF known = p.session THEN done \cap JobSet(p) ELSE {}

\* Everything the plan asks for has been dealt with.
Rest ==
  /\ work = {} /\ ~stop
  /\ \E p \in plan :
       /\ JobSet(p) \subseteq Kept(p)
       /\ known' = p.session /\ done' = Kept(p)
  /\ UNCHANGED <<plan, stop, channel, work>>

\* The first job of the plan that has not been dealt with is taken, to be asked
\* of a worker or, when it is cached, finished at once.
Take ==
  /\ work = {} /\ ~stop
  /\ \E p \in plan : \E i \in DOMAIN p.jobs :
       /\ p.jobs[i] \notin Kept(p)
       /\ \A j \in 1..(i - 1) : p.jobs[j] \in Kept(p)
       /\ known' = p.session
       /\ done' = Kept(p) \cup {p.jobs[i]}
       /\ \E r \in {<<"busy", "none">>, <<"finished", "ok">>} :
            work' = {[session |-> p.session, key |-> p.jobs[i], marked |-> FALSE,
                      phase |-> r[1], outcome |-> r[2]]}
  /\ UNCHANGED <<plan, stop, channel>>

\* A job at work is seen undesired.
Mark ==
  /\ \E w \in work :
       /\ w.phase = "busy" /\ ~w.marked /\ ~Desired(w)
       /\ work' = {[w EXCEPT !.marked = TRUE]}
  /\ UNCHANGED <<plan, stop, channel, known, done>>

\* Mutant: a job given up still counts as dealt with.
Abandon_KeepsDone ==
  /\ \E w \in work : w.phase = "busy" /\ w.marked
  /\ work' = {}
  /\ UNCHANGED <<plan, stop, channel, known, done>>

\* It is given up, and may be taken again.
Abandon ==
  /\ \E w \in work :
       /\ w.phase = "busy" /\ w.marked
       /\ done' = done \ {w.key}
  /\ work' = {}
  /\ UNCHANGED <<plan, stop, channel, known>>

Finish ==
  /\ \E w \in work, r \in {"ok", "err"} :
       /\ w.phase = "busy" /\ ~w.marked
       /\ work' = {[w EXCEPT !.phase = "finished", !.outcome = r]}
  /\ UNCHANGED <<plan, stop, channel, known, done>>

\* A finished job is asked about again before it is sent; it is dropped, but
\* counts as dealt with, when nobody desires it at that moment.
Clear ==
  /\ \E w \in work :
       /\ w.phase = "finished" /\ ~stop /\ Desired(w)
       /\ work' = {[w EXCEPT !.phase = "cleared"]}
  /\ UNCHANGED <<plan, stop, channel, known, done>>

Discard ==
  /\ \E w \in work : w.phase = "finished" /\ (stop \/ ~Desired(w))
  /\ work' = {}
  /\ UNCHANGED <<plan, stop, channel, known, done>>

Publish ==
  /\ \E w \in work :
       /\ w.phase = "cleared" /\ Len(channel) < Capacity
       /\ channel' = Append(channel,
            [kind |-> IF w.outcome = "ok" THEN "ready" ELSE "error",
             session |-> w.session, key |-> w.key])
  /\ work' = {}
  /\ UNCHANGED <<plan, stop, known, done>>

\* A full channel sends the job back to be asked about again.
Postpone ==
  /\ Len(channel) = Capacity
  /\ \E w \in work :
       w.phase = "cleared" /\ work' = {[w EXCEPT !.phase = "finished"]}
  /\ UNCHANGED <<plan, stop, channel, known, done>>

Controller ==
  Rest \/ Take \/ Mark \/ Abandon \/ Finish \/ Clear \/ Discard \/ Publish \/ Postpone

Next ==
  \/ \E s \in Sessions, jobs \in JobLists : Submit(s, jobs)
  \/ Receive \/ Drop \/ Controller

Spec == Init /\ [][Next]_desired
=============================================================================
