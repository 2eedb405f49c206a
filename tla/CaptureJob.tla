------------------------------ MODULE CaptureJob ------------------------------
(***************************************************************************)
(* The supervision of an extraction process (capture.rs, Job::start, and   *)
(* its users Capture::poll and TextRecognition::poll).  A job is a thread  *)
(* of the viewer that runs the program again as a worker, writes it the    *)
(* task, and passes its replies on: a reading thread cuts the pipe into    *)
(* lines, the supervising thread reads these with a deadline of 90 s and   *)
(* puts them into an event channel which the user interface empties once   *)
(* a frame.  Dropping the Job cancels it.  A job dropped may still be      *)
(* ending when the next one runs.                                          *)
(*                                                                         *)
(* The capture panel and the text tool hold one job each.  A cell is its   *)
(* number; what it holds and where it goes is the matter of CaptureRegions.*)
(* The line the reading thread has in hand counts as still in the pipe.    *)
(***************************************************************************)
EXTENDS Naturals, Sequences

CONSTANTS
  Jobs,        \* jobs, each started at most once
  None,        \* no job
  Cells,       \* the cells a task of each holder asks for
  PipeSlots,   \* bound: replies the pipe of the worker's output holds
  LineSlots,   \* slots between the two threads: sync_channel(2)
  EventSlots,  \* slots to the user interface: sync_channel(16)
  TaskFits     \* the task fits into the pipe of the worker's input

Holders == {"panel", "text"}

ASSUME JobAssumption ==
  /\ None \notin Jobs
  /\ Cells \in [Holders -> Nat]
  /\ PipeSlots \in Nat \ {0} /\ LineSlots \in Nat \ {0} /\ EventSlots \in Nat \ {0}
  /\ TaskFits \in BOOLEAN

VARIABLES
  holds,  \* Capture.job and TextRecognition.job, with the receivers
  job     \* for each job its threads, channels and worker
vars == <<holds, job>>

\* Reply: cells by number.  A torn line is what a worker leaves that dies while
\* it writes; it does not parse.
Reply == [kind : {"cell"}, number : Nat] \cup [kind : {"done", "error", "torn"}, number : {0}]
Cell(n)  == [kind |-> "cell", number |-> n]
Final(k) == [kind |-> k, number |-> 0]

\* tries: spawning, writing, waiting, sending, reaping, reporting.
Job == [pc       : {"new", "spawning", "writing", "waiting", "sending", "reaping",
                    "reporting", "ended"},
        holder   : Holders,
        stop     : BOOLEAN,       \* cancel
        worker   : {"none", "running", "hung", "exited", "reaped"},
        wrote    : Nat,           \* cells written so far
        pipe     : Seq(Reply),
        reading  : BOOLEAN,       \* the reading thread lives
        lines    : Seq(Reply),
        pending  : Seq(Reply),    \* the reply being sent, at most one
        age      : 0..2,          \* last.elapsed(), in halves of the 90 s
        failed   : BOOLEAN,       \* the result is Err
        events   : Seq(Reply),
        \* what happened, for the properties only
        taken    : Nat,           \* cells the holder received
        idle     : 0..2,          \* halves since the last line was taken in which the
                                  \* worker was silent or the window did not poll
        lost     : BOOLEAN]       \* the final error did not fit

TypeOK ==
  /\ holds \in [Holders -> Jobs \cup {None}]
  /\ job \in [Jobs -> Job]
  /\ \A j \in Jobs :
       /\ Len(job[j].pipe) <= PipeSlots /\ Len(job[j].lines) <= LineSlots
       /\ Len(job[j].events) <= EventSlots /\ Len(job[j].pending) <= 1
       /\ job[j].wrote <= Cells[job[j].holder]
  /\ \A h \in Holders : holds[h] # None => job[holds[h]].holder = h

NewJob ==
  [pc |-> "new", holder |-> "panel", stop |-> FALSE, worker |-> "none", wrote |-> 0,
   pipe |-> <<>>, reading |-> FALSE, lines |-> <<>>, pending |-> <<>>,
   age |-> 0, failed |-> FALSE, events |-> <<>>,
   taken |-> 0, idle |-> 0, lost |-> FALSE]

Init ==
  /\ holds = [h \in Holders |-> None]
  /\ job = [j \in Jobs |-> NewJob]

\* The receiver of a job lives as long as its holder keeps it.
Received(j) == \E h \in Holders : holds[h] = j

\* A step of one job.
Changes(j, new) == job' = [job EXCEPT ![j] = new] /\ UNCHANGED holds

-----------------------------------------------------------------------------
(* The user interface *)

\* "Extract fields" and "OCR selection", both off while one is running.
Start(h, j) ==
  /\ holds[h] = None /\ job[j].pc = "new"
  /\ holds' = [holds EXCEPT ![h] = j]
  /\ job' = [job EXCEPT ![j] = [@ EXCEPT !.pc = "spawning", !.holder = h]]

\* Job::drop.
Drop(h) ==
  /\ holds' = [holds EXCEPT ![h] = None]
  /\ job' = [job EXCEPT ![holds[h]] = [@ EXCEPT !.stop = TRUE, !.events = <<>>]]

\* "Cancel", Escape, another page or another drawing.
Cancel(h) == holds[h] # None /\ Drop(h)

\* Mutant: an error is shown and the job is kept.
PollPanel_KeepsFailed ==
  /\ holds["panel"] # None
  /\ LET j == holds["panel"]
     IN /\ job[j].events # <<>>
        /\ IF Head(job[j].events).kind # "done"
           THEN Changes(j, [job[j] EXCEPT !.events = Tail(@), !.taken = @ + 1])
           ELSE Drop("panel")

\* Capture::poll, one reply: a cell is kept, done and error end the job.  That
\* the sender is gone goes unnoticed.
PollPanel ==
  /\ holds["panel"] # None
  /\ LET j == holds["panel"]
     IN /\ job[j].events # <<>>
        /\ IF Head(job[j].events).kind = "cell"
           THEN Changes(j, [job[j] EXCEPT !.events = Tail(@), !.taken = @ + 1])
           ELSE Drop("panel")

\* TextRecognition::poll: any reply is the answer, and so is a sender gone.
PollText ==
  /\ holds["text"] # None
  /\ LET j == holds["text"] IN job[j].events # <<>> \/ job[j].pc = "ended"
  /\ Drop("text")

-----------------------------------------------------------------------------
(* The supervising thread *)

\* The worker is launched or not.  A task that could not be written as JSON after
\* that (180) is left out: every task can.
Spawn(j) ==
  /\ job[j].pc = "spawning"
  /\ \/ Changes(j, [job[j] EXCEPT !.pc = "writing", !.worker = "running"])
     \/ Changes(j, [job[j] EXCEPT !.pc = "reporting", !.failed = TRUE])

\* Mutant: a worker that does not take its task is left as it is.
WriteFails_Leaves(j) ==
  /\ job[j].pc = "writing" /\ job[j].worker = "exited"
  /\ Changes(j, [job[j] EXCEPT !.pc = "reporting", !.failed = TRUE])

\* The write fails when the worker is gone: it is killed and waited for.
WriteFails(j) ==
  /\ job[j].pc = "writing" /\ job[j].worker = "exited"
  /\ Changes(j, [job[j] EXCEPT !.pc = "reporting", !.failed = TRUE,
                               !.worker = "reaped"])

\* The task is written; the reading thread and the clock start.  A task that
\* does not fit waits for the worker to read it, whatever happens meanwhile.
Write(j) ==
  /\ job[j].pc = "writing"
  /\ job[j].worker = "running" \/ (TaskFits /\ job[j].worker = "hung")
  /\ Changes(j, [job[j] EXCEPT !.pc = "waiting", !.reading = TRUE, !.age = 0])

Stops(j) ==
  /\ job[j].pc = "waiting" /\ job[j].stop
  /\ Changes(j, [job[j] EXCEPT !.pc = "reaping"])

TimesOut(j) ==
  /\ job[j].pc = "waiting" /\ ~job[j].stop /\ job[j].age = 2
  /\ Changes(j, [job[j] EXCEPT !.pc = "reaping", !.failed = TRUE])

\* Mutant: the deadline counts from the start.
TakeLine_KeepsClock(j) ==
  /\ job[j].pc = "waiting" /\ ~job[j].stop /\ job[j].age < 2
  /\ job[j].lines # <<>> /\ Head(job[j].lines).kind # "torn"
  /\ Changes(j, [job[j] EXCEPT !.pc = "sending", !.pending = <<Head(job[j].lines)>>,
                               !.lines = Tail(@), !.idle = 0])

TakeLine(j) ==
  /\ job[j].pc = "waiting" /\ ~job[j].stop /\ job[j].age < 2
  /\ job[j].lines # <<>> /\ Head(job[j].lines).kind # "torn"
  /\ Changes(j, [job[j] EXCEPT !.pc = "sending", !.pending = <<Head(job[j].lines)>>,
                               !.lines = Tail(@), !.age = 0, !.idle = 0])

\* A line that does not parse, or the end of the pipe before the last reply.
Breaks(j) ==
  /\ job[j].pc = "waiting" /\ ~job[j].stop /\ job[j].age < 2
  /\ IF job[j].lines # <<>> THEN Head(job[j].lines).kind = "torn" ELSE ~job[j].reading
  /\ Changes(j, [job[j] EXCEPT !.pc = "reaping", !.failed = TRUE])

AfterSending(j) ==
  IF Head(job[j].pending).kind \in {"done", "error"} THEN "reaping" ELSE "waiting"

\* try_send finds a slot.
Send(j) ==
  /\ job[j].pc = "sending" /\ Received(j) /\ Len(job[j].events) < EventSlots
  /\ Changes(j, [job[j] EXCEPT !.pc = AfterSending(j), !.pending = <<>>,
                               !.events = Append(@, Head(job[j].pending))])

\* Mutant: a reply that does not fit is given up.
GiveUp_WhenFull(j) ==
  /\ job[j].pc = "sending"
  /\ ~Received(j) \/ Len(job[j].events) >= EventSlots
  /\ Changes(j, [job[j] EXCEPT !.pc = AfterSending(j), !.pending = <<>>])

\* The receiver is gone, which also means a stop: the reply is given up.
GiveUp(j) ==
  /\ job[j].pc = "sending"
  /\ ~Received(j) \/ (Len(job[j].events) >= EventSlots /\ job[j].stop)
  /\ Changes(j, [job[j] EXCEPT !.pc = AfterSending(j), !.pending = <<>>])

\* kill and wait; then lines_rx is dropped, and the reading thread ends with it.
Reap(j) ==
  /\ job[j].pc = "reaping"
  /\ Changes(j, [job[j] EXCEPT !.pc = IF job[j].failed THEN "reporting" ELSE "ended",
                               !.worker = "reaped", !.reading = FALSE,
                               !.lines = <<>>, !.pipe = <<>>])

\* The error is tried once.
Report(j) ==
  /\ job[j].pc = "reporting"
  /\ LET sent == Received(j) /\ Len(job[j].events) < EventSlots
     IN Changes(j, [job[j] EXCEPT !.pc = "ended",
                                  !.events = IF sent THEN Append(@, Final("error")) ELSE @,
                                  !.lost = Received(j) /\ ~sent])

Supervise(j) ==
  \/ Spawn(j) \/ WriteFails(j) \/ Write(j)
  \/ Stops(j) \/ TimesOut(j) \/ TakeLine(j) \/ Breaks(j)
  \/ Send(j) \/ GiveUp(j) \/ Reap(j) \/ Report(j)

-----------------------------------------------------------------------------
(* The reading thread *)

PassLine(j) ==
  /\ job[j].reading
  /\ job[j].pipe # <<>> /\ Len(job[j].lines) < LineSlots
  /\ Changes(j, [job[j] EXCEPT !.lines = Append(@, Head(job[j].pipe)), !.pipe = Tail(@)])

EndOfPipe(j) ==
  /\ job[j].reading
  /\ job[j].pipe = <<>> /\ job[j].worker = "exited"
  /\ Changes(j, [job[j] EXCEPT !.reading = FALSE])

-----------------------------------------------------------------------------
(* The worker, as its supervisor can see it *)

\* Once it has its task it reports cell after cell, then that it is done.
CanWrite(j) ==
  /\ job[j].worker = "running" /\ job[j].pc \notin {"spawning", "writing"}
  /\ Len(job[j].pipe) < PipeSlots

WriteCell(j) ==
  /\ CanWrite(j) /\ job[j].wrote < Cells[job[j].holder]
  /\ Changes(j, [job[j] EXCEPT !.wrote = @ + 1,
                               !.pipe = Append(@, Cell(job[j].wrote + 1))])

WriteDone(j) ==
  /\ CanWrite(j) /\ job[j].wrote = Cells[job[j].holder]
  /\ Changes(j, [job[j] EXCEPT !.pipe = Append(@, Final("done")), !.worker = "exited"])

\* The task is refused, or a file cannot be read: worker() returns an error.
WriteError(j) ==
  /\ CanWrite(j)
  /\ Changes(j, [job[j] EXCEPT !.pipe = Append(@, Final("error")), !.worker = "exited"])

Die(j) ==
  /\ job[j].worker \in {"running", "hung"}
  /\ \/ Changes(j, [job[j] EXCEPT !.worker = "exited"])
     \/ /\ CanWrite(j)
        /\ Changes(j, [job[j] EXCEPT !.pipe = Append(@, Final("torn")), !.worker = "exited"])

Hang(j) ==
  /\ job[j].worker = "running"
  /\ Changes(j, [job[j] EXCEPT !.worker = "hung"])

Progress(j) == WriteCell(j) \/ WriteDone(j)

-----------------------------------------------------------------------------
(* Time, in halves of the deadline *)

\* They are long: whatever a thread can do is done before one passes.
\* Only the worker and the window may be slower.
Busy(j) ==
  \/ job[j].pc \in {"spawning", "reaping", "reporting"}
  \/ job[j].pc = "writing" /\ (job[j].worker \in {"running", "exited"} \/ TaskFits)
  \/ job[j].pc = "waiting" /\ (job[j].stop \/ job[j].age = 2 \/ job[j].lines # <<>>
                                  \/ ~job[j].reading)
  \/ job[j].pc = "sending" /\ (~Received(j) \/ Len(job[j].events) < EventSlots)
  \/ job[j].reading /\ job[j].pipe # <<>> /\ Len(job[j].lines) < LineSlots
  \/ job[j].reading /\ job[j].pipe = <<>> /\ job[j].worker = "exited"

Later(n) == IF n < 2 THEN n + 1 ELSE n

Waits(j) == job[j].pc \in {"waiting", "sending"}
Idle(j)  == job[j].worker = "hung" \/ CanWrite(j) \/ job[j].pc = "sending"

\* Mutant: every wait of 50 ms starts the clock anew.
Age_WhenSending(j) ==
  [job[j] EXCEPT !.age  = IF job[j].pc = "sending" THEN Later(@) ELSE @,
                 !.idle = IF Waits(j) /\ Idle(j) THEN Later(@) ELSE @]

Age(j) ==
  [job[j] EXCEPT !.age  = IF Waits(j) THEN Later(@) ELSE @,
                 !.idle = IF Waits(j) /\ Idle(j) THEN Later(@) ELSE @]

HalfDeadline ==
  /\ \A j \in Jobs : ~Busy(j)
  /\ \E j \in Jobs : Waits(j)
  /\ job' = [j \in Jobs |-> Age(j)]
  /\ UNCHANGED holds

-----------------------------------------------------------------------------
Next ==
  \/ \E h \in Holders, j \in Jobs : Start(h, j)
  \/ \E h \in Holders : Cancel(h)
  \/ PollPanel \/ PollText
  \/ \E j \in Jobs :
       \/ Supervise(j) \/ PassLine(j) \/ EndOfPipe(j)
       \/ WriteCell(j) \/ WriteDone(j) \/ WriteError(j) \/ Die(j) \/ Hang(j)
  \/ HalfDeadline

Spec == Init /\ [][Next]_vars

\* The threads loop until they end.  A frame, which polls, comes every 16 ms.
\* A worker that does not hang goes on.  Nobody promises that the user cancels.
FairSpec ==
  /\ Spec
  /\ WF_vars(PollPanel) /\ WF_vars(PollText) /\ WF_vars(HalfDeadline)
  /\ \A j \in Jobs : WF_vars(Supervise(j)) /\ WF_vars(PassLine(j)) /\ WF_vars(EndOfPipe(j))
                     /\ WF_vars(Progress(j))

-----------------------------------------------------------------------------
(* Safety *)

\* The replies on their way to the holder: channel, hand, lines and pipe.
Way(w) == w.events \o (w.pending \o (w.lines \o w.pipe))

\* The cells from m+1 to n, once and in order, then at most one last reply.
InOrder(replies, m, n) ==
  /\ m <= n /\ Len(replies) \in {n - m, n - m + 1}
  /\ \A i \in DOMAIN replies :
       IF i <= n - m THEN replies[i] = Cell(m + i) ELSE replies[i].kind # "cell"

\* Until the job ends, every cell the worker wrote is either with its holder or
\* on the way to him, once and in order; and when the end of a complete
\* extraction is announced, all cells are there.
NothingLost ==
  \A j \in Jobs : LET w == job[j] IN
    /\ w.pc \in {"waiting", "sending"} /\ ~w.stop => InOrder(Way(w), w.taken, w.wrote)
    /\ (\E i \in DOMAIN w.events : w.events[i].kind = "done")
         => InOrder(w.events, w.taken, Cells[w.holder])

\* No end of the thread leaves a worker behind, neither running nor unwaited.
WorkersReaped ==
  \A j \in Jobs : job[j].pc \in {"reporting", "ended"} => job[j].worker \in {"none", "reaped"}

\* "the supervisor stops a capture worker silent for 90 seconds": no other, but
\* for one whose answers the window left in the channel meanwhile.
TimeoutMeansSilence ==
  [][\A j \in Jobs : TimesOut(j) => job[j].idle = 2]_vars

-----------------------------------------------------------------------------
(* Liveness *)

\* The one wait nobody ends: a worker hung before it read a task that does not fit.
Stuck(j) == job[j].pc = "writing" /\ job[j].worker = "hung"

\* Cancelled, hung, dead or done: every worker is killed and waited for.
WorkerEnds ==
  \A j \in Jobs : job[j].worker \in {"running", "hung", "exited"}
                    ~> job[j].worker = "reaped" \/ Stuck(j)

\* The panel and the text tool do not stay busy; the panel does if the error
\* that ends its job found the channel full.
JobEnds ==
  \A h \in Holders, j \in Jobs :
    holds[h] = j ~> \/ holds[h] # j
                    \/ Stuck(j)
                    \/ h = "panel" /\ job[j].lost
=============================================================================
