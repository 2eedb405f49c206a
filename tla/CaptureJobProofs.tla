--------------------------- MODULE CaptureJobProofs ---------------------------
(***************************************************************************)
(* Proofs about the supervision of an extraction process: for any number   *)
(* of jobs and cells and any size of the channels, no cell is lost, no     *)
(* worker is left behind, and a job times out only when it was idle.       *)
(***************************************************************************)
EXTENDS CaptureJob, TLAPS, SequenceTheorems

-----------------------------------------------------------------------------
(* Replies that move on from one channel to the next *)

\* The first element of a sequence, before its rest, is the sequence.
LEMMA Taken ==
  ASSUME NEW S, NEW q \in Seq(S), q # <<>>
  PROVE  /\ Head(q) \in S /\ Tail(q) \in Seq(S) /\ <<Head(q)>> \in Seq(S)
         /\ <<Head(q)>> \o Tail(q) = q
  <1>1. Head(q) \in S /\ Tail(q) \in Seq(S) /\ <<Head(q)>> \in Seq(S)
    OBVIOUS
  <1>2. /\ <<Head(q)>> \o Tail(q) \in Seq(S)
        /\ Len(<<Head(q)>> \o Tail(q)) = Len(q)
        /\ \A i \in 1..Len(q) : (<<Head(q)>> \o Tail(q))[i] = q[i]
    BY <1>1
  <1>3. <<Head(q)>> \o Tail(q) = q
    BY <1>2, SeqEqual
  <1> QED BY <1>1, <1>3

\* An element added at the end of the second part is added to the whole.
LEMMA AddedBehind ==
  ASSUME NEW S, NEW a \in Seq(S), NEW b \in Seq(S), NEW e \in S
  PROVE  a \o Append(b, e) = Append(a \o b, e)
  <1> DEFINE l == a \o Append(b, e)
             r == Append(a \o b, e)
  <1>1. /\ l \in Seq(S) /\ r \in Seq(S) /\ Len(l) = Len(r)
        /\ \A i \in 1..Len(l) : l[i] = r[i]
    OBVIOUS
  <1> QED BY <1>1, SeqEqual

\* The head of the second part moves to the end of the first.
LEMMA MovedAcross ==
  ASSUME NEW S, NEW a \in Seq(S), NEW b \in Seq(S), b # <<>>
  PROVE  Append(a, Head(b)) \o Tail(b) = a \o b
  <1> DEFINE l == Append(a, Head(b)) \o Tail(b)
             r == a \o b
  <1>1. Head(b) \in S /\ Tail(b) \in Seq(S) /\ Len(Tail(b)) = Len(b) - 1
    OBVIOUS
  <1>2. /\ l \in Seq(S) /\ r \in Seq(S) /\ Len(l) = Len(r)
        /\ \A i \in 1..Len(l) : l[i] = r[i]
    BY <1>1
  <1> QED BY <1>2, SeqEqual

\* What leaves the first part leaves the whole.
LEMMA LeftInFront ==
  ASSUME NEW S, NEW a \in Seq(S), NEW b \in Seq(S), a # <<>>
  PROVE  Tail(a) \o b = Tail(a \o b)
  <1> DEFINE l == Tail(a) \o b
             r == Tail(a \o b)
  <1>1. Tail(a) \in Seq(S) /\ Len(Tail(a)) = Len(a) - 1 /\ a \o b # <<>>
    BY ConcatProperties
  <1>2. /\ l \in Seq(S) /\ r \in Seq(S) /\ Len(l) = Len(r)
        /\ \A i \in 1..Len(l) : l[i] = r[i]
    BY <1>1, ConcatProperties
  <1> QED BY <1>2, SeqEqual

\* Two sequences, one after the other.
LEMMA Joined ==
  ASSUME NEW S, NEW a \in Seq(S), NEW b \in Seq(S)
  PROVE  /\ a \o b \in Seq(S) /\ Len(a \o b) = Len(a) + Len(b)
         /\ Len(a) \in Nat /\ Len(b) \in Nat
         /\ DOMAIN a = 1..Len(a) /\ DOMAIN (a \o b) = 1..(Len(a) + Len(b))
         /\ \A i \in 1..Len(a) : (a \o b)[i] = a[i] /\ a[i] \in S
         /\ \A i \in 1..Len(b) : (a \o b)[Len(a) + i] = b[i]
  OBVIOUS

\* Four sequences, one after the other.
LEMMA Chained ==
  ASSUME NEW S, NEW a \in Seq(S), NEW b \in Seq(S), NEW c \in Seq(S), NEW d \in Seq(S)
  PROVE  /\ c \o d \in Seq(S) /\ b \o (c \o d) \in Seq(S)
         /\ a \o (b \o (c \o d)) \in Seq(S)
         /\ Len(a) + Len(b) <= Len(a \o (b \o (c \o d)))
         /\ \A i \in 1..Len(a) : (a \o (b \o (c \o d)))[i] = a[i]
  <1> DEFINE x == c \o d
  <1>1. x \in Seq(S)
    OBVIOUS
  <1> HIDE DEF x
  <1> DEFINE y == b \o x
  <1>2. y \in Seq(S) /\ Len(y) = Len(b) + Len(x) /\ Len(x) \in Nat /\ Len(b) \in Nat
    BY <1>1, Joined
  <1> HIDE DEF y
  <1>3. /\ a \o y \in Seq(S) /\ Len(a \o y) = Len(a) + Len(y)
        /\ Len(a) \in Nat /\ Len(y) \in Nat
        /\ \A i \in 1..Len(a) : (a \o y)[i] = a[i]
    <2>1. y \in Seq(S)
      BY <1>2
    <2> QED BY <2>1, SMTT(60)
  <1>4. Len(a) + Len(b) <= Len(a \o y)
    BY <1>2, <1>3
  <1> QED BY <1>1, <1>2, <1>3, <1>4 DEF x, y

-----------------------------------------------------------------------------
(* The inductive invariant, job by job *)

\* Nothing exceeds its channel, and a reply is in hand only while it is sent.
Sizes(w) ==
  /\ Len(w.pipe) <= PipeSlots /\ Len(w.lines) <= LineSlots
  /\ Len(w.events) <= EventSlots
  /\ Len(w.pending) = IF w.pc = "sending" THEN 1 ELSE 0
  /\ \A i \in DOMAIN w.pending : w.pending[i].kind # "torn"
  /\ w.wrote <= Cells[w.holder]

\* A worker exists from its spawning until it is waited for.
WorkerKnown(w) ==
  /\ w.pc \in {"new", "spawning"} => w.worker = "none"
  /\ w.pc \in {"writing", "waiting", "sending", "reaping"}
       => w.worker \in {"running", "hung", "exited"}
  /\ w.pc \in {"reporting", "ended"} => w.worker \in {"none", "reaped"}

\* No half of the deadline passes that is not counted as idle.
ClockIsIdle(w) == w.pc \in {"waiting", "sending"} => w.age <= w.idle

\* Before the task is written nothing is under way.
Blank(w) ==
  w.pc \in {"new", "spawning", "writing"} =>
    /\ w.events = <<>> /\ w.lines = <<>> /\ w.pipe = <<>>
    /\ w.wrote = 0 /\ w.taken = 0 /\ ~w.reading

\* A failure is known only when it is about to be reported.
FailedLate(w) == w.failed => w.pc \in {"reaping", "reporting", "ended"}

\* While the job runs, every cell written is on its way, and the last reply
\* is behind them: a worker that still runs has not sent it.
OnTheWay(w) ==
  w.pc \in {"waiting", "sending"} /\ ~w.stop =>
    /\ InOrder(Way(w), w.taken, w.wrote)
    /\ w.worker \in {"running", "hung"} => Len(Way(w)) = w.wrote - w.taken
    /\ \A i \in DOMAIN Way(w) : Way(w)[i].kind = "done" => w.wrote = Cells[w.holder]

\* What the holder finds in the channel: the next cells, then the last reply,
\* which is there only when no other can follow.
Announced(w) ==
  /\ w.stop => w.events = <<>> /\ w.pc # "new"
  /\ \A i \in DOMAIN w.events :
       /\ w.events[i].kind = "cell" => w.events[i] = Cell(w.taken + i)
       /\ w.events[i].kind # "cell" =>
            /\ i = Len(w.events)
            /\ w.pc \in {"reaping", "ended"}
            /\ w.pc = "reaping" => ~w.failed
       /\ w.events[i].kind = "done" => w.taken + i - 1 = Cells[w.holder]

JobInv(w) ==
  /\ Sizes(w) /\ WorkerKnown(w) /\ ClockIsIdle(w) /\ Blank(w) /\ FailedLate(w)
  /\ OnTheWay(w) /\ Announced(w)

\* A job started and not dropped has exactly one holder.
Holding(j) ==
  /\ \A h \in Holders : holds[h] = j =>
       job[j].pc # "new" /\ ~job[j].stop /\ job[j].holder = h
  /\ job[j].pc # "new" /\ ~job[j].stop => Received(j)

IInv ==
  /\ holds \in [Holders -> Jobs \cup {None}]
  /\ job \in [Jobs -> Job]
  /\ \A j \in Jobs : JobInv(job[j]) /\ Holding(j)

\* The replies of a job, and where its channels are among those on the way.
LEMMA Ways ==
  ASSUME NEW w \in Job
  PROVE  /\ w.events \in Seq(Reply) /\ w.pending \in Seq(Reply)
         /\ w.lines \in Seq(Reply) /\ w.pipe \in Seq(Reply)
         /\ w.lines \o w.pipe \in Seq(Reply)
         /\ w.pending \o (w.lines \o w.pipe) \in Seq(Reply)
         /\ Way(w) \in Seq(Reply)
         /\ Len(w.events) \in Nat /\ Len(Way(w)) \in Nat /\ DOMAIN Way(w) = 1..Len(Way(w))
         /\ Len(w.events) + Len(w.pending) <= Len(Way(w))
         /\ DOMAIN w.events = 1..Len(w.events)
         /\ \A i \in DOMAIN w.events : w.events[i] = Way(w)[i] /\ w.events[i] \in Reply
  <1>1. /\ w.events \in Seq(Reply) /\ w.pending \in Seq(Reply)
        /\ w.lines \in Seq(Reply) /\ w.pipe \in Seq(Reply)
    BY DEF Job
  <1>2. /\ w.lines \o w.pipe \in Seq(Reply)
        /\ w.pending \o (w.lines \o w.pipe) \in Seq(Reply)
        /\ Way(w) \in Seq(Reply)
        /\ Len(w.events) + Len(w.pending) <= Len(Way(w))
        /\ \A i \in 1..Len(w.events) : Way(w)[i] = w.events[i]
    <2> DEFINE a == w.events  b == w.pending  c == w.lines  d == w.pipe
    <2>1. /\ a \in Seq(Reply) /\ b \in Seq(Reply)
          /\ c \in Seq(Reply) /\ d \in Seq(Reply)
      BY <1>1
    <2>2. Way(w) = a \o (b \o (c \o d))
      BY DEF Way
    <2> HIDE DEF a, b, c, d
    <2>3. /\ c \o d \in Seq(Reply) /\ b \o (c \o d) \in Seq(Reply)
          /\ a \o (b \o (c \o d)) \in Seq(Reply)
          /\ Len(a) + Len(b) <= Len(a \o (b \o (c \o d)))
          /\ \A i \in 1..Len(a) : (a \o (b \o (c \o d)))[i] = a[i]
      BY <2>1, Chained
    <2> QED BY <2>2, <2>3 DEF a, b, c, d
  <1>3. /\ DOMAIN w.events = 1..Len(w.events) /\ Len(w.events) \in Nat
        /\ \A i \in DOMAIN w.events : w.events[i] \in Reply
    BY <1>1
  <1>4. DOMAIN Way(w) = 1..Len(Way(w)) /\ Len(Way(w)) \in Nat
    BY <1>2
  <1> QED BY <1>1, <1>2, <1>3, <1>4

\* A reply is a cell or one of the others.
LEMMA Kinds ==
  /\ \A r \in Reply : r.kind \in {"cell", "done", "error", "torn"}
  /\ \A n \in Nat : Cell(n) \in Reply /\ Cell(n).kind = "cell"
  /\ \A k \in {"done", "error", "torn"} : Final(k) \in Reply /\ Final(k).kind = k
  BY DEF Reply, Cell, Final

\* A step of one job preserves the invariant if that job's part holds after it.
LEMMA JobStep ==
  ASSUME IInv, NEW j \in Jobs, NEW w \in Job, Changes(j, w), JobInv(w),
         w.stop = job[j].stop, w.holder = job[j].holder,
         w.pc = "new" <=> job[j].pc = "new"
  PROVE  IInv'
  <1>1. job' \in [Jobs -> Job] /\ job'[j] = w /\ holds' = holds
    BY DEF IInv, Changes
  <1>2. \A i \in Jobs \ {j} : job'[i] = job[i]
    BY DEF IInv, Changes
  <1>3. \A i \in Jobs : JobInv(job'[i])
    BY <1>1, <1>2 DEF IInv
  <1>4. ASSUME NEW i \in Jobs
        PROVE  Holding(i)'
    <2>1. Holding(i)
      BY DEF IInv
    <2>2. /\ job'[i].pc = "new" <=> job[i].pc = "new"
          /\ job'[i].stop = job[i].stop /\ job'[i].holder = job[i].holder
      BY <1>1, <1>2
    <2> QED BY <2>1, <2>2, <1>1 DEF Holding, Received
  <1> QED BY <1>1, <1>3, <1>4 DEF IInv

LEMMA InitHolds == Init => IInv
  <1> SUFFICES ASSUME Init PROVE IInv
    OBVIOUS
  <1>1. NewJob \in Job
    BY DEF NewJob, Job, Holders
  <1>2. JobInv(NewJob)
    BY JobAssumption DEF NewJob, JobInv, Sizes, WorkerKnown, ClockIsIdle, Blank,
      FailedLate, OnTheWay, Announced, Holders
  <1>3. \A j \in Jobs : job[j] = NewJob
    BY DEF Init
  <1>4. \A j \in Jobs : JobInv(job[j])
    BY <1>2, <1>3
  <1>5. \A j \in Jobs : Holding(j)
    BY <1>3, JobAssumption DEF Init, Holding, NewJob
  <1>6. holds \in [Holders -> Jobs \cup {None}] /\ job \in [Jobs -> Job]
    BY <1>1 DEF Init
  <1> QED BY <1>4, <1>5, <1>6 DEF IInv

-----------------------------------------------------------------------------
(* The replies on their way *)

\* A step that leaves them as they are, and revives no worker.
LEMMA SameWay ==
  ASSUME NEW w \in Job, NEW n \in Job, OnTheWay(w), w.pc \in {"waiting", "sending"},
         Way(n) = Way(w), n.taken = w.taken, n.wrote = w.wrote,
         n.holder = w.holder, n.stop = w.stop,
         n.worker \in {"running", "hung"} => w.worker \in {"running", "hung"}
  PROVE  OnTheWay(n)
  BY DEF OnTheWay

\* The next cell is added behind the others.
LEMMA CellAdded ==
  ASSUME NEW w \in Job, NEW n \in Job, OnTheWay(w), w.pc \in {"waiting", "sending"},
         w.worker = "running", n.worker = "running",
         Way(n) = Append(Way(w), Cell(w.wrote + 1)), n.taken = w.taken,
         n.wrote = w.wrote + 1, n.holder = w.holder, n.stop = w.stop
  PROVE  OnTheWay(n)
  <1> SUFFICES ASSUME ~w.stop
               PROVE  /\ InOrder(Way(n), n.taken, n.wrote)
                      /\ Len(Way(n)) = n.wrote - n.taken
                      /\ \A i \in DOMAIN Way(n) : Way(n)[i].kind # "done"
    BY DEF OnTheWay
  <1> DEFINE q == Way(w)  m == w.taken  k == w.wrote  c == Cell(k + 1)
  <1>1. /\ q \in Seq(Reply) /\ Len(q) = k - m /\ m <= k /\ m \in Nat /\ k \in Nat
        /\ \A i \in 1..Len(q) : q[i] = Cell(m + i)
    <2>1. q \in Seq(Reply) /\ DOMAIN q = 1..Len(q) /\ Len(q) \in Nat
      BY Ways
    <2>2. m \in Nat /\ k \in Nat
      BY DEF Job
    <2>3. InOrder(q, m, k) /\ Len(q) = k - m
      BY DEF OnTheWay
    <2> HIDE DEF q, m, k
    <2> QED BY <2>1, <2>2, <2>3 DEF InOrder
  <1>2. c \in Reply /\ Way(n) = Append(q, c) /\ n.taken = m /\ n.wrote = k + 1
    BY <1>1, Kinds
  <1>3. \A i \in 1..(k + 1 - m) : Cell(m + i).kind # "done"
    BY <1>1, Kinds
  <1> HIDE DEF q, m, k
  <1>4. /\ Len(Append(q, c)) = k + 1 - m /\ DOMAIN Append(q, c) = 1..(k + 1 - m)
        /\ \A i \in 1..(k + 1 - m) : Append(q, c)[i] = Cell(m + i)
    <2>1. /\ Len(Append(q, c)) = Len(q) + 1 /\ DOMAIN Append(q, c) = 1..(Len(q) + 1)
          /\ \A i \in 1..Len(q) : Append(q, c)[i] = q[i]
          /\ Append(q, c)[Len(q) + 1] = c
      BY <1>1, <1>2
    <2>2. m + (Len(q) + 1) = k + 1
      BY <1>1
    <2> QED BY <2>1, <2>2, <1>1
  <1>5. InOrder(Append(q, c), m, k + 1)
    BY <1>1, <1>4 DEF InOrder
  <1>6. Len(Append(q, c)) = n.wrote - n.taken
    BY <1>1, <1>2, <1>4
  <1>7. \A i \in DOMAIN Append(q, c) : Append(q, c)[i].kind # "done"
    BY <1>3, <1>4
  <1> HIDE DEF c
  <1> QED BY <1>2, <1>5, <1>6, <1>7

\* The last reply is added behind all cells, and its worker has ended.
LEMMA LastAdded ==
  ASSUME NEW w \in Job, NEW n \in Job, OnTheWay(w), w.pc \in {"waiting", "sending"},
         w.worker \in {"running", "hung"}, n.worker = "exited",
         NEW r \in Reply, r.kind # "cell", r.kind = "done" => w.wrote = Cells[w.holder],
         Way(n) = Append(Way(w), r), n.taken = w.taken,
         n.wrote = w.wrote, n.holder = w.holder, n.stop = w.stop
  PROVE  OnTheWay(n)
  <1> SUFFICES ASSUME ~w.stop
               PROVE  /\ InOrder(Way(n), n.taken, n.wrote)
                      /\ \A i \in DOMAIN Way(n) :
                           Way(n)[i].kind = "done" => w.wrote = Cells[w.holder]
    BY DEF OnTheWay
  <1> DEFINE q == Way(w)  m == w.taken  k == w.wrote
  <1>1. /\ q \in Seq(Reply) /\ Len(q) = k - m /\ m <= k /\ m \in Nat /\ k \in Nat
        /\ \A i \in 1..Len(q) : q[i] = Cell(m + i)
    <2>1. q \in Seq(Reply) /\ DOMAIN q = 1..Len(q) /\ Len(q) \in Nat
      BY Ways
    <2>2. m \in Nat /\ k \in Nat
      BY DEF Job
    <2>3. InOrder(q, m, k) /\ Len(q) = k - m
      BY DEF OnTheWay
    <2> HIDE DEF q, m, k
    <2> QED BY <2>1, <2>2, <2>3 DEF InOrder
  <1>2. Way(n) = Append(q, r) /\ n.taken = m /\ n.wrote = k
    OBVIOUS
  <1>3. \A i \in 1..Len(q) : Cell(m + i).kind # "done"
    BY <1>1, Kinds
  <1> HIDE DEF q, m
  <1>4. /\ Len(Append(q, r)) = Len(q) + 1 /\ DOMAIN Append(q, r) = 1..(Len(q) + 1)
        /\ \A i \in 1..Len(q) : Append(q, r)[i] = q[i]
        /\ Append(q, r)[Len(q) + 1] = r
    BY <1>1
  <1>5. InOrder(Append(q, r), m, k)
    BY <1>1, <1>4 DEF InOrder
  <1>6. \A i \in DOMAIN Append(q, r) : Append(q, r)[i].kind = "done" => k = Cells[w.holder]
    BY <1>1, <1>3, <1>4
  <1> QED BY <1>2, <1>5, <1>6

\* A reply written is behind all others.
LEMMA WrittenBehind ==
  ASSUME NEW w \in Job, NEW n \in Job, NEW r \in Reply, n.pipe = Append(w.pipe, r),
         n.events = w.events, n.pending = w.pending, n.lines = w.lines
  PROVE  Way(n) = Append(Way(w), r)
  <1> DEFINE a == w.events  b == w.pending  c == w.lines  d == w.pipe
  <1>1. /\ a \in Seq(Reply) /\ b \in Seq(Reply) /\ c \in Seq(Reply) /\ d \in Seq(Reply)
        /\ c \o d \in Seq(Reply) /\ b \o (c \o d) \in Seq(Reply)
    BY Ways
  <1>2. /\ Way(n) = a \o (b \o (c \o Append(d, r)))
        /\ Way(w) = a \o (b \o (c \o d))
    BY DEF Way
  <1> HIDE DEF a, b, c, d
  <1>3. c \o Append(d, r) = Append(c \o d, r)
    BY <1>1, AddedBehind
  <1> DEFINE x == c \o d
  <1>4. x \in Seq(Reply) /\ b \o x \in Seq(Reply)
    BY <1>1
  <1> HIDE DEF x
  <1>5. b \o Append(x, r) = Append(b \o x, r)
    BY <1>1, <1>4, AddedBehind
  <1> DEFINE y == b \o x
  <1>6. y \in Seq(Reply)
    BY <1>4
  <1> HIDE DEF y
  <1>7. a \o Append(y, r) = Append(a \o y, r)
    BY <1>1, <1>6, AddedBehind
  <1> QED BY <1>2, <1>3, <1>5, <1>7 DEF x, y

\* What stands where among replies in order.
LEMMA Places ==
  ASSUME NEW q \in Seq(Reply), NEW m \in Nat, NEW k \in Nat, InOrder(q, m, k),
         NEW i \in 1..Len(q)
  PROVE  /\ q[i].kind = "cell" => q[i] = Cell(m + i)
         /\ q[i].kind # "cell" => i = k - m + 1
  <1>1. DOMAIN q = 1..Len(q) /\ Len(q) \in Nat
    OBVIOUS
  <1>2. CASE i <= k - m
    <2>1. q[i] = Cell(m + i)
      BY <1>1, <1>2 DEF InOrder
    <2> QED BY <2>1, Kinds
  <1>3. CASE i > k - m
    <2>1. q[i].kind # "cell" /\ i = k - m + 1
      BY <1>1, <1>3 DEF InOrder
    <2> QED BY <2>1
  <1> QED BY <1>2, <1>3

-----------------------------------------------------------------------------
(* The supervising thread *)

LEMMA StopsHolds ==
  ASSUME IInv, NEW j \in Jobs, Stops(j)
  PROVE  IInv'
  <1> DEFINE w == job[j]
             n == [w EXCEPT !.pc = "reaping"]
  <1>1. w \in Job /\ JobInv(w) /\ Holding(j)
    BY DEF IInv
  <1>2. Changes(j, n) /\ w.pc = "waiting"
    BY DEF Stops
  <1>3. n \in Job
    BY <1>1 DEF Job
  <1>4. JobInv(n)
    <2>1. Sizes(n) /\ WorkerKnown(n) /\ ClockIsIdle(n) /\ Blank(n) /\ FailedLate(n)
      BY <1>1, <1>2, JobAssumption DEF Job, JobInv, Sizes, WorkerKnown, ClockIsIdle, Blank, FailedLate
    <2>2. OnTheWay(n)
      BY <1>2 DEF OnTheWay
    <2>3. Announced(n)
      BY <1>1, <1>2 DEF Job, JobInv, Announced, Blank, FailedLate
    <2> QED BY <2>1, <2>2, <2>3 DEF JobInv
  <1>5. n.stop = w.stop /\ n.holder = w.holder /\ n.pc # "new"
    BY <1>1 DEF Job
  <1> HIDE DEF n
  <1> QED BY <1>1, <1>2, <1>3, <1>4, <1>5, JobStep

LEMMA TimesOutHolds ==
  ASSUME IInv, NEW j \in Jobs, TimesOut(j)
  PROVE  IInv'
  <1> DEFINE w == job[j]
             n == [w EXCEPT !.pc = "reaping", !.failed = TRUE]
  <1>1. w \in Job /\ JobInv(w) /\ Holding(j)
    BY DEF IInv
  <1>2. Changes(j, n) /\ w.pc = "waiting"
    BY DEF TimesOut
  <1>3. n \in Job
    BY <1>1 DEF Job
  <1>4. JobInv(n)
    <2>1. Sizes(n) /\ WorkerKnown(n) /\ ClockIsIdle(n) /\ Blank(n) /\ FailedLate(n)
      BY <1>1, <1>2, JobAssumption DEF Job, JobInv, Sizes, WorkerKnown, ClockIsIdle, Blank, FailedLate
    <2>2. OnTheWay(n)
      BY <1>2 DEF OnTheWay
    <2>3. Announced(n)
      BY <1>1, <1>2 DEF Job, JobInv, Announced, Blank, FailedLate
    <2> QED BY <2>1, <2>2, <2>3 DEF JobInv
  <1>5. n.stop = w.stop /\ n.holder = w.holder /\ n.pc # "new"
    BY <1>1 DEF Job
  <1> HIDE DEF n
  <1> QED BY <1>1, <1>2, <1>3, <1>4, <1>5, JobStep

LEMMA BreaksHolds ==
  ASSUME IInv, NEW j \in Jobs, Breaks(j)
  PROVE  IInv'
  <1> DEFINE w == job[j]
             n == [w EXCEPT !.pc = "reaping", !.failed = TRUE]
  <1>1. w \in Job /\ JobInv(w) /\ Holding(j)
    BY DEF IInv
  <1>2. Changes(j, n) /\ w.pc = "waiting"
    BY DEF Breaks
  <1>3. n \in Job
    BY <1>1 DEF Job
  <1>4. JobInv(n)
    <2>1. Sizes(n) /\ WorkerKnown(n) /\ ClockIsIdle(n) /\ Blank(n) /\ FailedLate(n)
      BY <1>1, <1>2, JobAssumption DEF Job, JobInv, Sizes, WorkerKnown, ClockIsIdle, Blank, FailedLate
    <2>2. OnTheWay(n)
      BY <1>2 DEF OnTheWay
    <2>3. Announced(n)
      BY <1>1, <1>2 DEF Job, JobInv, Announced, Blank, FailedLate
    <2> QED BY <2>1, <2>2, <2>3 DEF JobInv
  <1>5. n.stop = w.stop /\ n.holder = w.holder /\ n.pc # "new"
    BY <1>1 DEF Job
  <1> HIDE DEF n
  <1> QED BY <1>1, <1>2, <1>3, <1>4, <1>5, JobStep

LEMMA WriteFailsHolds ==
  ASSUME IInv, NEW j \in Jobs, WriteFails(j)
  PROVE  IInv'
  <1> DEFINE w == job[j]
             n == [w EXCEPT !.pc = "reporting", !.failed = TRUE, !.worker = "reaped"]
  <1>1. w \in Job /\ JobInv(w) /\ Holding(j)
    BY DEF IInv
  <1>2. Changes(j, n) /\ w.pc = "writing"
    BY DEF WriteFails
  <1>3. n \in Job
    BY <1>1 DEF Job
  <1>4. JobInv(n)
    <2>1. Sizes(n) /\ WorkerKnown(n) /\ ClockIsIdle(n) /\ Blank(n) /\ FailedLate(n)
      BY <1>1, <1>2, JobAssumption DEF Job, JobInv, Sizes, WorkerKnown, ClockIsIdle, Blank, FailedLate
    <2>2. OnTheWay(n)
      BY <1>2 DEF OnTheWay
    <2>3. Announced(n)
      BY <1>1, <1>2 DEF Job, JobInv, Announced, Blank, FailedLate
    <2> QED BY <2>1, <2>2, <2>3 DEF JobInv
  <1>5. n.stop = w.stop /\ n.holder = w.holder /\ n.pc # "new"
    BY <1>1 DEF Job
  <1> HIDE DEF n
  <1> QED BY <1>1, <1>2, <1>3, <1>4, <1>5, JobStep

LEMMA ReapHolds ==
  ASSUME IInv, NEW j \in Jobs, Reap(j)
  PROVE  IInv'
  <1> DEFINE w == job[j]
             p == IF w.failed THEN "reporting" ELSE "ended"
             n == [w EXCEPT !.pc = p,
                           !.worker = "reaped", !.reading = FALSE,
                           !.lines = <<>>, !.pipe = <<>>]
  <1>1. w \in Job /\ JobInv(w) /\ Holding(j)
    BY DEF IInv
  <1>2. Changes(j, n) /\ w.pc = "reaping"
    BY DEF Reap
  <1>3. n \in Job
    <2>1. p \in {"reporting", "ended"} /\ <<>> \in Seq(Reply)
      OBVIOUS
    <2> HIDE DEF p
    <2> QED BY <1>1, <2>1 DEF Job
  <1>4. JobInv(n)
    <2>1. Sizes(n) /\ WorkerKnown(n) /\ ClockIsIdle(n) /\ Blank(n) /\ FailedLate(n)
      BY <1>1, <1>2, JobAssumption DEF Job, JobInv, Sizes, WorkerKnown, ClockIsIdle, Blank, FailedLate
    <2>2. OnTheWay(n)
      BY <1>2 DEF OnTheWay
    <2>3. Announced(n)
      BY <1>1, <1>2 DEF Job, JobInv, Announced, Blank, FailedLate
    <2> QED BY <2>1, <2>2, <2>3 DEF JobInv
  <1>5. n.stop = w.stop /\ n.holder = w.holder /\ n.pc # "new"
    BY <1>1 DEF Job
  <1> HIDE DEF n
  <1> QED BY <1>1, <1>2, <1>3, <1>4, <1>5, JobStep

LEMMA SpawnHolds ==
  ASSUME IInv, NEW j \in Jobs, Spawn(j)
  PROVE  IInv'
  <1> DEFINE w == job[j]
             a == [w EXCEPT !.pc = "writing", !.worker = "running"]
             b == [w EXCEPT !.pc = "reporting", !.failed = TRUE]
  <1>1. w \in Job /\ JobInv(w) /\ Holding(j) /\ w.pc = "spawning"
    BY DEF IInv, Spawn
  <1>2. a \in Job /\ b \in Job
    BY <1>1 DEF Job
  <1>3. JobInv(a)
    BY <1>1, JobAssumption DEF Job, JobInv, Sizes, WorkerKnown, ClockIsIdle, Blank,
      FailedLate, OnTheWay, Announced
  <1>4. JobInv(b)
    BY <1>1, JobAssumption DEF Job, JobInv, Sizes, WorkerKnown, ClockIsIdle, Blank,
      FailedLate, OnTheWay, Announced
  <1>5. /\ a.stop = w.stop /\ a.holder = w.holder /\ a.pc # "new"
        /\ b.stop = w.stop /\ b.holder = w.holder /\ b.pc # "new"
    BY <1>1 DEF Job
  <1>6. Changes(j, a) \/ Changes(j, b)
    BY DEF Spawn
  <1> HIDE DEF a, b
  <1>7. CASE Changes(j, a)
    BY <1>1, <1>2, <1>3, <1>5, <1>7, JobStep
  <1>8. CASE Changes(j, b)
    BY <1>1, <1>2, <1>4, <1>5, <1>8, JobStep
  <1> QED BY <1>6, <1>7, <1>8

LEMMA WriteHolds ==
  ASSUME IInv, NEW j \in Jobs, Write(j)
  PROVE  IInv'
  <1> DEFINE w == job[j]
             n == [w EXCEPT !.pc = "waiting", !.reading = TRUE, !.age = 0]
  <1>1. w \in Job /\ JobInv(w) /\ Holding(j)
    BY DEF IInv
  <1>2. Changes(j, n) /\ w.pc = "writing"
    BY DEF Write
  <1>3. n \in Job
    BY <1>1, 0 \in 0..2, TRUE \in BOOLEAN DEF Job
  <1>4. JobInv(n)
    <2>1. Sizes(n) /\ WorkerKnown(n) /\ ClockIsIdle(n) /\ Blank(n) /\ FailedLate(n)
      BY <1>1, <1>2, JobAssumption DEF Job, JobInv, Sizes, WorkerKnown, ClockIsIdle, Blank, FailedLate
    <2>2. /\ n.events = <<>> /\ n.pending = <<>> /\ n.lines = <<>> /\ n.pipe = <<>>
          /\ n.taken = 0 /\ n.wrote = 0
      BY <1>1, <1>2 DEF Job, JobInv, Blank, Sizes
    <2>3. Way(n) = <<>>
      BY <2>2 DEF Way
    <2>4. OnTheWay(n)
      BY <2>2, <2>3 DEF OnTheWay, InOrder
    <2>5. Announced(n)
      BY <1>1, <1>2, <2>2 DEF Job, JobInv, Announced
    <2> QED BY <2>1, <2>4, <2>5 DEF JobInv
  <1>5. n.stop = w.stop /\ n.holder = w.holder /\ n.pc # "new"
    BY <1>1 DEF Job
  <1> HIDE DEF n
  <1> QED BY <1>1, <1>2, <1>3, <1>4, <1>5, JobStep

\* A reply given up was for a holder that is gone.
LEMMA GiveUpHolds ==
  ASSUME IInv, NEW j \in Jobs, GiveUp(j)
  PROVE  IInv'
  <1> DEFINE w == job[j]
             p == AfterSending(j)
             n == [w EXCEPT !.pc = p, !.pending = <<>>]
  <1>1. w \in Job /\ JobInv(w) /\ Holding(j)
    BY DEF IInv
  <1>2. Changes(j, n) /\ w.pc = "sending"
    BY DEF GiveUp
  <1>3. w.stop
    BY <1>1, <1>2 DEF GiveUp, Holding, Job
  <1>4. p \in {"reaping", "waiting"} /\ <<>> \in Seq(Reply) /\ Len(<<>>) = 0 /\ DOMAIN <<>> = {}
    BY DEF AfterSending
  <1> HIDE DEF p
  <1>5. n \in Job
    BY <1>1, <1>4 DEF Job
  <1>6. JobInv(n)
    <2>1. Sizes(n) /\ WorkerKnown(n) /\ ClockIsIdle(n) /\ Blank(n) /\ FailedLate(n)
      BY <1>1, <1>2, <1>4, JobAssumption DEF Job, JobInv, Sizes, WorkerKnown, ClockIsIdle, Blank, FailedLate
    <2>2. OnTheWay(n)
      BY <1>1, <1>3 DEF OnTheWay, Job
    <2>3. Announced(n)
      BY <1>1, <1>3, <1>4 DEF Job, JobInv, Announced
    <2> QED BY <2>1, <2>2, <2>3 DEF JobInv
  <1>7. n.stop = w.stop /\ n.holder = w.holder /\ n.pc # "new"
    BY <1>1, <1>4 DEF Job
  <1> HIDE DEF n
  <1> QED BY <1>1, <1>2, <1>5, <1>6, <1>7, JobStep

\* The error is put behind nothing but cells.
LEMMA ReportHolds ==
  ASSUME IInv, NEW j \in Jobs, Report(j)
  PROVE  IInv'
  <1> DEFINE w == job[j]
             sent == Received(j) /\ Len(w.events) < EventSlots
             e == IF sent THEN Append(w.events, Final("error")) ELSE w.events
             l == Received(j) /\ ~sent
             n == [w EXCEPT !.pc = "ended", !.events = e, !.lost = l]
  <1>1. w \in Job /\ JobInv(w) /\ Holding(j)
    BY DEF IInv
  <1>2. w.pc = "reporting"
    BY DEF Report
  <1>3. Changes(j, n)
    BY DEF Report
  <1>4. l \in BOOLEAN
    OBVIOUS
  <1>5. w.stop => e = w.events
    <2>1. w.stop => ~Received(j)
      BY <1>1 DEF Holding, Received
    <2> QED BY <2>1
  <1>6. w.events \in Seq(Reply) /\ Final("error") \in Reply /\ Final("error").kind = "error"
    BY <1>1, Kinds DEF Job
  <1>7. /\ e \in Seq(Reply) /\ Len(e) <= EventSlots
        /\ \A i \in DOMAIN e : \/ i \in DOMAIN w.events /\ e[i] = w.events[i]
                               \/ i = Len(e) /\ e[i].kind = "error"
    <2>1. CASE sent
      <3>1. /\ e = Append(w.events, Final("error"))
            /\ Len(w.events) \in Nat /\ Len(w.events) + 1 <= EventSlots
        BY <2>1, <1>6, JobAssumption
      <3>2. /\ Append(w.events, Final("error")) \in Seq(Reply)
            /\ Len(Append(w.events, Final("error"))) = Len(w.events) + 1
            /\ DOMAIN w.events = 1..Len(w.events)
            /\ DOMAIN Append(w.events, Final("error")) = 1..(Len(w.events) + 1)
            /\ \A i \in 1..Len(w.events) : Append(w.events, Final("error"))[i] = w.events[i]
            /\ Append(w.events, Final("error"))[Len(w.events) + 1] = Final("error")
        BY <1>6
      <3> HIDE DEF e
      <3> QED BY <3>1, <3>2, <1>6
    <2>2. CASE ~sent
      BY <2>2, <1>1, <1>6 DEF JobInv, Sizes
    <2> QED BY <2>1, <2>2
  <1>8. \A i \in DOMAIN w.events : w.events[i].kind = "cell"
    BY <1>1, <1>2 DEF JobInv, Announced
  <1> HIDE DEF e, l
  <1>9. n \in Job
    BY <1>1, <1>4, <1>7 DEF Job
  <1>10. JobInv(n)
    <2>1. Sizes(n) /\ WorkerKnown(n) /\ ClockIsIdle(n) /\ Blank(n) /\ FailedLate(n)
      BY <1>1, <1>2, <1>7 DEF Job, JobInv, Sizes, WorkerKnown, ClockIsIdle, Blank, FailedLate
    <2>2. OnTheWay(n)
      BY DEF OnTheWay
    <2>3. Announced(n)
      <3>1. n.events = e /\ n.pc = "ended" /\ n.stop = w.stop /\ n.taken = w.taken
        BY <1>1 DEF Job
      <3>2. n.stop => n.events = <<>>
        BY <3>1, <1>1, <1>5 DEF JobInv, Announced
      <3>3. ASSUME NEW i \in DOMAIN e
            PROVE  /\ e[i].kind = "cell" => e[i] = Cell(w.taken + i)
                   /\ e[i].kind # "cell" => i = Len(e)
                   /\ e[i].kind # "done"
        BY <1>1, <1>7, <1>8, <3>3 DEF JobInv, Announced
      <3> HIDE DEF n
      <3> QED BY <3>1, <3>2, <3>3 DEF Announced
    <2> QED BY <2>1, <2>2, <2>3 DEF JobInv
  <1>11. n.stop = w.stop /\ n.holder = w.holder /\ n.pc # "new"
    BY <1>1 DEF Job
  <1> HIDE DEF n
  <1> QED BY <1>1, <1>2, <1>3, <1>9, <1>10, <1>11, JobStep

\* A line comes into hand: it stays on its way.
LEMMA TakeLineHolds ==
  ASSUME IInv, NEW j \in Jobs, TakeLine(j)
  PROVE  IInv'
  <1> DEFINE w == job[j]
             h == <<Head(w.lines)>>
             t == Tail(w.lines)
             n == [w EXCEPT !.pc = "sending", !.pending = h, !.lines = t,
                            !.age = 0, !.idle = 0]
  <1>1. w \in Job /\ JobInv(w) /\ Holding(j)
    BY DEF IInv
  <1>2. /\ Changes(j, n) /\ w.pc = "waiting"
        /\ w.lines # <<>> /\ Head(w.lines).kind # "torn"
    BY DEF TakeLine
  <1>3. /\ w.lines \in Seq(Reply) /\ w.pipe \in Seq(Reply)
        /\ w.pending \in Seq(Reply) /\ Len(w.pending) = 0
    BY <1>1, <1>2, Ways DEF JobInv, Sizes
  <1>4. /\ h \in Seq(Reply) /\ t \in Seq(Reply) /\ h \o t = w.lines
        /\ Len(h) = 1 /\ DOMAIN h = {1} /\ h[1].kind # "torn"
        /\ Len(t) \in Nat /\ Len(t) <= Len(w.lines)
    <2>1. Head(w.lines) \in Reply /\ t \in Seq(Reply) /\ h \in Seq(Reply) /\ h \o t = w.lines
      BY <1>2, <1>3, Taken
    <2>2. Len(h) = 1 /\ DOMAIN h = {1} /\ h[1] = Head(w.lines)
      OBVIOUS
    <2>3. Len(t) \in Nat /\ Len(t) <= Len(w.lines)
      BY <1>2, <1>3
    <2> QED BY <2>1, <2>2, <2>3, <1>2
  <1>5. h \o (t \o w.pipe) = w.pending \o (w.lines \o w.pipe)
    <2>1. h \o (t \o w.pipe) = (h \o t) \o w.pipe
      <3> DEFINE p == w.pipe
      <3>1. h \in Seq(Reply) /\ t \in Seq(Reply) /\ p \in Seq(Reply)
        BY <1>3, <1>4
      <3> HIDE DEF h, t, p
      <3>2. h \o (t \o p) = (h \o t) \o p
        BY <3>1, ConcatAssociative
      <3> QED BY <3>2 DEF p
    <2>2. w.pending = <<>>
      BY <1>3
    <2>3. w.lines \o w.pipe \in Seq(Reply)
      BY <1>3
    <2>4. <<>> \o (w.lines \o w.pipe) = w.lines \o w.pipe
      BY <2>3
    <2> QED BY <2>1, <2>2, <2>4, <1>4
  <1> HIDE DEF h, t
  <1>6. n \in Job
    BY <1>1, <1>4, 0 \in 0..2 DEF Job
  <1>7. JobInv(n)
    <2>1. Sizes(n) /\ WorkerKnown(n) /\ ClockIsIdle(n) /\ Blank(n) /\ FailedLate(n)
      BY <1>1, <1>2, <1>4, <1>3, JobAssumption DEF Job, JobInv, Sizes, WorkerKnown, ClockIsIdle, Blank, FailedLate
    <2>2. OnTheWay(n)
      <3>1. Way(n) = Way(w)
        BY <1>1, <1>5 DEF Way, Job
      <3>2. /\ n.taken = w.taken /\ n.wrote = w.wrote /\ n.holder = w.holder
            /\ n.stop = w.stop /\ n.worker = w.worker
        BY <1>1 DEF Job
      <3> HIDE DEF n
      <3> QED BY <1>1, <1>2, <1>6, <3>1, <3>2, SameWay DEF JobInv
    <2>3. Announced(n)
      BY <1>1, <1>2 DEF Job, JobInv, Announced
    <2> QED BY <2>1, <2>2, <2>3 DEF JobInv
  <1>8. n.stop = w.stop /\ n.holder = w.holder /\ n.pc # "new"
    BY <1>1 DEF Job
  <1> HIDE DEF n
  <1> QED BY <1>1, <1>2, <1>6, <1>7, <1>8, JobStep

\* The reply in hand is the next one the holder finds.
LEMMA SendHolds ==
  ASSUME IInv, NEW j \in Jobs, Send(j)
  PROVE  IInv'
  <1> DEFINE w == job[j]
             r == Head(w.pending)
             e == Append(w.events, r)
             p == AfterSending(j)
             n == [w EXCEPT !.pc = p, !.pending = <<>>, !.events = e]
  <1>1. w \in Job /\ JobInv(w) /\ Holding(j)
    BY DEF IInv
  <1>2. Changes(j, n) /\ w.pc = "sending" /\ Len(w.events) < EventSlots
    BY DEF Send
  <1>3. ~w.stop
    BY <1>1 DEF Send, Holding, Received
  <1>4. /\ w.pending \in Seq(Reply) /\ Len(w.pending) = 1 /\ w.pending # <<>>
        /\ w.events \in Seq(Reply) /\ w.lines \o w.pipe \in Seq(Reply)
    <2>1. /\ w.pending \in Seq(Reply) /\ w.events \in Seq(Reply)
          /\ w.lines \o w.pipe \in Seq(Reply)
      BY <1>1, Ways
    <2>2. Len(w.pending) = 1
      BY <1>1, <1>2 DEF JobInv, Sizes
    <2>3. w.pending # <<>>
      BY <2>2
    <2> QED BY <2>1, <2>2, <2>3
  <1>5. /\ r \in Reply /\ r = w.pending[1] /\ 1 \in DOMAIN w.pending
        /\ Tail(w.pending) = <<>> /\ <<>> \in Seq(Reply)
    <2> DEFINE t == Tail(w.pending)
    <2>1. t \in Seq(Reply) /\ Len(t) = 0
      BY <1>4
    <2> HIDE DEF t
    <2>2. t = <<>> /\ <<>> \in Seq(Reply)
      BY <2>1
    <2>3. r \in Reply /\ r = w.pending[1] /\ 1 \in DOMAIN w.pending
      BY <1>4
    <2> QED BY <2>2, <2>3 DEF t
  <1>6. r.kind \in {"cell", "done", "error"}
    BY <1>1, <1>5, Kinds DEF JobInv, Sizes
  <1>7. p = IF r.kind \in {"done", "error"} THEN "reaping" ELSE "waiting"
    BY DEF AfterSending
  <1>8. /\ e \in Seq(Reply) /\ Len(e) = Len(w.events) + 1 /\ Len(w.events) \in Nat
        /\ DOMAIN e = 1..Len(e) /\ e[Len(e)] = r
        /\ \A i \in 1..Len(w.events) : e[i] = w.events[i]
    <2> HIDE DEF r
    <2> QED BY <1>4, <1>5
  <1>9. e \o (<<>> \o (w.lines \o w.pipe)) = Way(w)
    <2> DEFINE a == w.events  b == w.pending  c == w.lines \o w.pipe
    <2>1. a \in Seq(Reply) /\ b \in Seq(Reply) /\ b # <<>> /\ c \in Seq(Reply)
          /\ Tail(b) \in Seq(Reply) /\ e = Append(a, Head(b)) /\ e \in Seq(Reply)
      BY <1>4, <1>5, <1>8
    <2>2. Way(w) = a \o (b \o c)
      BY DEF Way
    <2> HIDE DEF a, b, c
    <2>3. e \o Tail(b) = a \o b
      BY <2>1, MovedAcross
    <2> HIDE DEF e
    <2> DEFINE t == Tail(b)
    <2>4. t \in Seq(Reply) /\ e \o t = a \o b /\ t = <<>>
      BY <2>1, <2>3, <1>5 DEF b
    <2> HIDE DEF t
    <2>5. e \o (t \o c) = (e \o t) \o c
      BY <2>1, <2>4, ConcatAssociative
    <2>6. a \o (b \o c) = (a \o b) \o c
      <3>1. a \in Seq(Reply) /\ b \in Seq(Reply) /\ c \in Seq(Reply)
        BY <2>1
      <3> QED BY <3>1, ConcatAssociative
    <2>7. e \o (t \o c) = Way(w)
      BY <2>2, <2>4, <2>5, <2>6
    <2> QED BY <2>7, <2>4 DEF c
  <1> HIDE DEF e, p, r
  <1>10. n \in Job
    BY <1>1, <1>5, <1>7, <1>8 DEF Job
  <1>11. /\ n.pc = p /\ n.pending = <<>> /\ n.events = e /\ n.lines = w.lines
         /\ n.pipe = w.pipe /\ n.taken = w.taken /\ n.wrote = w.wrote
         /\ n.holder = w.holder /\ n.stop = w.stop /\ n.worker = w.worker
         /\ n.failed = w.failed /\ n.age = w.age /\ n.idle = w.idle
    BY <1>1 DEF Job
  <1>12. Way(n) = Way(w)
    BY <1>9, <1>11 DEF Way
  <1> HIDE DEF n
  <1>13. JobInv(n)
    <2>1. Sizes(n)
      <3>1. Len(e) <= EventSlots
        BY <1>2, <1>8, JobAssumption
      <3>2. Len(n.pending) = 0 /\ DOMAIN n.pending = {}
        BY <1>11
      <3> QED BY <1>1, <1>7, <1>11, <3>1, <3>2 DEF JobInv, Sizes
    <2>2. WorkerKnown(n) /\ ClockIsIdle(n) /\ Blank(n) /\ FailedLate(n)
      BY <1>1, <1>2, <1>7, <1>11 DEF JobInv, WorkerKnown, ClockIsIdle, Blank, FailedLate
    <2>3. OnTheWay(n)
      BY <1>1, <1>2, <1>10, <1>11, <1>12, SameWay DEF JobInv
    <2>4. Announced(n)
      <3>1. /\ InOrder(Way(w), w.taken, w.wrote)
            /\ \A i \in DOMAIN Way(w) : Way(w)[i].kind = "done" => w.wrote = Cells[w.holder]
        BY <1>1, <1>2, <1>3 DEF JobInv, OnTheWay
      <3>2. /\ Way(w) \in Seq(Reply) /\ w.taken \in Nat /\ w.wrote \in Nat
            /\ DOMAIN Way(w) = 1..Len(Way(w)) /\ Len(Way(w)) \in Nat
            /\ Len(e) \in 1..Len(Way(w)) /\ Way(w)[Len(e)] = r
        <4>1. Len(e) <= Len(Way(n)) /\ e[Len(e)] = Way(n)[Len(e)]
          <5>1. /\ Len(n.events) + Len(n.pending) <= Len(Way(n))
                /\ \A i \in DOMAIN n.events : n.events[i] = Way(n)[i]
                /\ Len(Way(n)) \in Nat
            BY <1>10, Ways
          <5>2. Len(e) \in DOMAIN n.events
            BY <1>8, <1>11
          <5>3. Len(n.pending) = 0
            BY <1>11
          <5> QED BY <5>1, <5>2, <5>3, <1>8, <1>11
        <4>2. /\ Way(w) \in Seq(Reply) /\ DOMAIN Way(w) = 1..Len(Way(w))
              /\ Len(Way(w)) \in Nat
          BY <1>1, Ways
        <4>3. w.taken \in Nat /\ w.wrote \in Nat
          BY <1>1 DEF Job
        <4> QED BY <4>1, <4>2, <4>3, <1>8, <1>12
      <3>3. /\ r.kind = "cell" => r = Cell(w.taken + Len(e))
            /\ r.kind # "cell" => Len(e) = w.wrote - w.taken + 1
            /\ r.kind = "done" => w.wrote = Cells[w.holder]
        BY <3>1, <3>2, Places
      <3>4. /\ r.kind = "done" => w.taken + Len(e) - 1 = Cells[w.holder]
        BY <3>2, <3>3
      <3>5. ~w.failed
        BY <1>1, <1>2 DEF JobInv, FailedLate
      <3>6. \A i \in DOMAIN w.events :
              w.events[i].kind = "cell" /\ w.events[i] = Cell(w.taken + i)
        BY <1>1, <1>2 DEF JobInv, Announced
      <3>7. \A i \in 1..Len(w.events) : e[i].kind = "cell" /\ e[i] = Cell(w.taken + i)
        BY <3>6, <1>4, <1>8
      <3>8. ASSUME NEW i \in DOMAIN e
            PROVE  /\ e[i].kind = "cell" => e[i] = Cell(w.taken + i)
                   /\ e[i].kind # "cell" => /\ i = Len(e) /\ p = "reaping" /\ ~w.failed
                   /\ e[i].kind = "done" => w.taken + i - 1 = Cells[w.holder]
        <4>1. CASE i \in 1..Len(w.events)
          BY <3>7, <4>1
        <4>2. CASE i = Len(e)
          BY <4>2, <1>6, <1>7, <1>8, <3>3, <3>4, <3>5
        <4> QED BY <3>8, <4>1, <4>2, <1>8
      <3> QED BY <3>8, <1>3, <1>11 DEF Announced
    <2> QED BY <2>1, <2>2, <2>3, <2>4 DEF JobInv
  <1>14. n.stop = w.stop /\ n.holder = w.holder /\ n.pc # "new"
    BY <1>7, <1>11
  <1> QED BY <1>1, <1>2, <1>10, <1>13, <1>14, JobStep

-----------------------------------------------------------------------------
(* The reading thread and the worker *)

LEMMA PassLineHolds ==
  ASSUME IInv, NEW j \in Jobs, PassLine(j)
  PROVE  IInv'
  <1> DEFINE w == job[j]
             a == Append(w.lines, Head(w.pipe))
             t == Tail(w.pipe)
             n == [w EXCEPT !.lines = a, !.pipe = t]
  <1>1. w \in Job /\ JobInv(w) /\ Holding(j)
    BY DEF IInv
  <1>2. Changes(j, n) /\ w.reading /\ w.pipe # <<>> /\ Len(w.lines) < LineSlots
    BY DEF PassLine
  <1>3. w.lines \in Seq(Reply) /\ w.pipe \in Seq(Reply)
    BY <1>1, Ways
  <1>4. /\ a \in Seq(Reply) /\ t \in Seq(Reply) /\ Len(a) = Len(w.lines) + 1
        /\ Len(t) \in Nat /\ Len(t) <= Len(w.pipe)
        /\ Len(w.pipe) \in Nat /\ Len(w.lines) \in Nat
    BY <1>2, <1>3
  <1>5. a \o t = w.lines \o w.pipe
    <2> DEFINE c == w.lines  d == w.pipe
    <2>1. c \in Seq(Reply) /\ d \in Seq(Reply) /\ d # <<>>
      BY <1>2, <1>3
    <2> HIDE DEF c, d
    <2>2. Append(c, Head(d)) \o Tail(d) = c \o d
      BY <2>1, MovedAcross
    <2> QED BY <2>2 DEF c, d
  <1> HIDE DEF a, t
  <1>6. n \in Job
    BY <1>1, <1>4 DEF Job
  <1>7. /\ n.pc = w.pc /\ n.pending = w.pending /\ n.events = w.events /\ n.lines = a
        /\ n.pipe = t /\ n.taken = w.taken /\ n.wrote = w.wrote /\ n.reading = w.reading
        /\ n.holder = w.holder /\ n.stop = w.stop /\ n.worker = w.worker
        /\ n.failed = w.failed /\ n.age = w.age /\ n.idle = w.idle
    BY <1>1 DEF Job
  <1> HIDE DEF n
  <1>8. JobInv(n)
    <2>1. Sizes(n)
      BY <1>1, <1>2, <1>4, <1>7, JobAssumption DEF JobInv, Sizes
    <2>2. WorkerKnown(n) /\ ClockIsIdle(n) /\ Blank(n) /\ FailedLate(n)
      BY <1>1, <1>2, <1>7 DEF JobInv, WorkerKnown, ClockIsIdle, Blank, FailedLate
    <2>3. OnTheWay(n)
      <3>1. Way(n) = Way(w)
        BY <1>5, <1>7 DEF Way
      <3>2. CASE w.pc \in {"waiting", "sending"}
        BY <1>1, <1>6, <1>7, <3>1, <3>2, SameWay DEF JobInv
      <3>3. CASE w.pc \notin {"waiting", "sending"}
        BY <1>7, <3>3 DEF OnTheWay
      <3> QED BY <3>2, <3>3
    <2>4. Announced(n)
      BY <1>1, <1>7 DEF JobInv, Announced
    <2> QED BY <2>1, <2>2, <2>3, <2>4 DEF JobInv
  <1>9. n.stop = w.stop /\ n.holder = w.holder /\ (n.pc = "new" <=> w.pc = "new")
    BY <1>7
  <1> QED BY <1>1, <1>2, <1>6, <1>8, <1>9, JobStep

\* Steps that say nothing to anybody: the pipe ends, the worker hangs or dies.
LEMMA QuietStep ==
  ASSUME IInv, NEW j \in Jobs, NEW n \in Job, Changes(j, n),
         NEW v \in {"running", "hung", "exited"}, NEW x \in BOOLEAN,
         n = [job[j] EXCEPT !.worker = v, !.reading = x], x => job[j].reading,
         \/ v = job[j].worker
         \/ job[j].worker \in {"running", "hung"}
  PROVE  IInv'
  <1> DEFINE w == job[j]
  <1>1. w \in Job /\ JobInv(w) /\ Holding(j)
    BY DEF IInv
  <1>2. /\ n.pc = w.pc /\ n.pending = w.pending /\ n.events = w.events /\ n.lines = w.lines
        /\ n.pipe = w.pipe /\ n.taken = w.taken /\ n.wrote = w.wrote /\ n.reading = x
        /\ n.holder = w.holder /\ n.stop = w.stop /\ n.worker = v
        /\ n.failed = w.failed /\ n.age = w.age /\ n.idle = w.idle
    BY <1>1 DEF Job
  <1>3. v \in {"running", "hung"} => w.worker \in {"running", "hung"}
    OBVIOUS
  <1>4. JobInv(n)
    <2>1. Sizes(n)
      BY <1>1, <1>2 DEF JobInv, Sizes
    <2>2. WorkerKnown(n)
      BY <1>1, <1>2, <1>3 DEF JobInv, WorkerKnown
    <2>3. ClockIsIdle(n) /\ Blank(n) /\ FailedLate(n)
      BY <1>1, <1>2 DEF JobInv, ClockIsIdle, Blank, FailedLate
    <2>4. OnTheWay(n)
      <3>1. Way(n) = Way(w)
        BY <1>2 DEF Way
      <3>2. CASE w.pc \in {"waiting", "sending"}
        BY <1>1, <1>2, <1>3, <3>1, <3>2, SameWay DEF JobInv
      <3>3. CASE w.pc \notin {"waiting", "sending"}
        BY <1>2, <3>3 DEF OnTheWay
      <3> QED BY <3>2, <3>3
    <2>5. Announced(n)
      BY <1>1, <1>2 DEF JobInv, Announced
    <2> QED BY <2>1, <2>2, <2>3, <2>4, <2>5 DEF JobInv
  <1> QED BY <1>1, <1>2, <1>4, JobStep

LEMMA EndOfPipeHolds ==
  ASSUME IInv, NEW j \in Jobs, EndOfPipe(j)
  PROVE  IInv'
  <1> DEFINE w == job[j]
             n == [w EXCEPT !.worker = "exited", !.reading = FALSE]
  <1>1. w \in Job /\ w.worker = "exited"
    BY DEF IInv, EndOfPipe
  <1>2. n \in Job
    BY <1>1 DEF Job
  <1>3. n = [w EXCEPT !.reading = FALSE]
    BY <1>1 DEF Job
  <1>4. Changes(j, n)
    BY <1>3 DEF EndOfPipe
  <1> QED BY <1>1, <1>2, <1>4, QuietStep

LEMMA HangHolds ==
  ASSUME IInv, NEW j \in Jobs, Hang(j)
  PROVE  IInv'
  <1> DEFINE w == job[j]
             n == [w EXCEPT !.worker = "hung", !.reading = w.reading]
  <1>1. w \in Job /\ w.worker = "running"
    BY DEF IInv, Hang
  <1>2. n \in Job /\ w.reading \in BOOLEAN
    BY <1>1 DEF Job
  <1>3. n = [w EXCEPT !.worker = "hung"]
    BY <1>1 DEF Job
  <1>4. Changes(j, n)
    BY <1>3 DEF Hang
  <1> QED BY <1>1, <1>2, <1>4, QuietStep

\* A worker that can write has its task and is neither hung nor ended.
LEMMA Writer ==
  ASSUME IInv, NEW j \in Jobs, CanWrite(j)
  PROVE  /\ job[j].worker = "running" /\ job[j].pc \in {"waiting", "sending", "reaping"}
         /\ Len(job[j].pipe) + 1 <= PipeSlots
  <1>1. job[j] \in Job /\ WorkerKnown(job[j])
    BY DEF IInv, JobInv
  <1>2. job[j].pipe \in Seq(Reply)
    BY <1>1 DEF Job
  <1> QED BY <1>1, <1>2, JobAssumption DEF CanWrite, WorkerKnown, Job

\* The last reply of a worker, whole or torn.
LEMMA LastWritten ==
  ASSUME IInv, NEW j \in Jobs, CanWrite(j), NEW k \in {"done", "error", "torn"},
         k = "done" => job[j].wrote = Cells[job[j].holder],
         Changes(j, [job[j] EXCEPT !.pipe = Append(job[j].pipe, Final(k)),
                                   !.worker = "exited"])
  PROVE  IInv'
  <1> DEFINE w == job[j]
             r == Final(k)
             a == Append(w.pipe, r)
             n == [w EXCEPT !.pipe = a, !.worker = "exited"]
  <1>1. w \in Job /\ JobInv(w) /\ Holding(j) /\ Changes(j, n)
    BY DEF IInv
  <1>2. /\ w.worker = "running" /\ w.pc \in {"waiting", "sending", "reaping"}
        /\ Len(w.pipe) + 1 <= PipeSlots
    BY Writer
  <1>3. r \in Reply /\ r.kind = k
    BY Kinds
  <1> HIDE DEF r
  <1>4. a \in Seq(Reply) /\ Len(a) = Len(w.pipe) + 1
    BY <1>1, <1>3 DEF Job
  <1>5. n \in Job /\ n.pipe = Append(w.pipe, r)
    <2> HIDE DEF a
    <2>1. n \in Job /\ n.pipe = a
      BY <1>1, <1>4 DEF Job
    <2> QED BY <2>1 DEF a
  <1> HIDE DEF a
  <1>6. /\ n.pc = w.pc /\ n.pending = w.pending /\ n.events = w.events /\ n.lines = w.lines
        /\ n.pipe = a /\ n.taken = w.taken /\ n.wrote = w.wrote /\ n.reading = w.reading
        /\ n.holder = w.holder /\ n.stop = w.stop /\ n.worker = "exited"
        /\ n.failed = w.failed /\ n.age = w.age /\ n.idle = w.idle
    BY <1>1 DEF Job
  <1> HIDE DEF n
  <1>7. JobInv(n)
    <2>1. Sizes(n)
      BY <1>1, <1>2, <1>4, <1>6, JobAssumption DEF JobInv, Sizes
    <2>2. WorkerKnown(n) /\ ClockIsIdle(n) /\ Blank(n) /\ FailedLate(n)
      BY <1>1, <1>2, <1>6 DEF JobInv, WorkerKnown, ClockIsIdle, Blank, FailedLate
    <2>3. OnTheWay(n)
      <3>1. CASE w.pc = "reaping"
        BY <1>6, <3>1 DEF OnTheWay
      <3>2. CASE w.pc \in {"waiting", "sending"}
        <4>1. Way(n) = Append(Way(w), r)
          BY <1>1, <1>3, <1>5, <1>6, WrittenBehind
        <4>2. OnTheWay(w) /\ r.kind # "cell" /\ (r.kind = "done" => w.wrote = Cells[w.holder])
          BY <1>1, <1>3 DEF JobInv
        <4> QED BY <1>1, <1>2, <1>3, <1>5, <1>6, <3>2, <4>1, <4>2, LastAdded
      <3> QED BY <1>2, <3>1, <3>2
    <2>4. Announced(n)
      BY <1>1, <1>6 DEF JobInv, Announced
    <2> QED BY <2>1, <2>2, <2>3, <2>4 DEF JobInv
  <1>8. n.stop = w.stop /\ n.holder = w.holder /\ (n.pc = "new" <=> w.pc = "new")
    BY <1>6
  <1> QED BY <1>1, <1>5, <1>7, <1>8, JobStep

LEMMA WriteCellHolds ==
  ASSUME IInv, NEW j \in Jobs, WriteCell(j)
  PROVE  IInv'
  <1> DEFINE w == job[j]
             r == Cell(w.wrote + 1)
             a == Append(w.pipe, r)
             k == w.wrote + 1
             n == [w EXCEPT !.wrote = k, !.pipe = a]
  <1>1. w \in Job /\ JobInv(w) /\ Holding(j)
    BY DEF IInv
  <1>2. Changes(j, n) /\ CanWrite(j) /\ w.wrote < Cells[w.holder]
    BY DEF WriteCell
  <1>3. /\ w.worker = "running" /\ w.pc \in {"waiting", "sending", "reaping"}
        /\ Len(w.pipe) + 1 <= PipeSlots
    BY <1>2, Writer
  <1>4. k \in Nat /\ k <= Cells[w.holder] /\ r \in Reply
    <2>1. w.wrote \in Nat /\ Cells[w.holder] \in Nat
      BY <1>1, JobAssumption DEF Job
    <2> QED BY <2>1, <1>2, Kinds
  <1> HIDE DEF r
  <1>5. a \in Seq(Reply) /\ Len(a) = Len(w.pipe) + 1
    BY <1>1, <1>4 DEF Job
  <1>6. n \in Job /\ n.pipe = Append(w.pipe, r)
    <2> HIDE DEF a, k
    <2>1. n \in Job /\ n.pipe = a
      BY <1>1, <1>4, <1>5 DEF Job
    <2> QED BY <2>1 DEF a
  <1> HIDE DEF a
  <1>7. /\ n.pc = w.pc /\ n.pending = w.pending /\ n.events = w.events /\ n.lines = w.lines
        /\ n.pipe = a /\ n.taken = w.taken /\ n.wrote = w.wrote + 1
        /\ n.reading = w.reading
        /\ n.holder = w.holder /\ n.stop = w.stop /\ n.worker = "running"
        /\ n.failed = w.failed /\ n.age = w.age /\ n.idle = w.idle
    BY <1>1, <1>3 DEF Job
  <1>8. n.wrote = k
    BY <1>7
  <1> HIDE DEF n, k
  <1>9. JobInv(n)
    <2>1. Sizes(n)
      BY <1>1, <1>3, <1>4, <1>5, <1>7, <1>8, JobAssumption DEF JobInv, Sizes
    <2>2. WorkerKnown(n) /\ ClockIsIdle(n) /\ Blank(n) /\ FailedLate(n)
      BY <1>1, <1>3, <1>7 DEF JobInv, WorkerKnown, ClockIsIdle, Blank, FailedLate
    <2>3. OnTheWay(n)
      <3>1. CASE w.pc = "reaping"
        BY <1>7, <3>1 DEF OnTheWay
      <3>2. CASE w.pc \in {"waiting", "sending"}
        <4>1. Way(n) = Append(Way(w), r)
          BY <1>1, <1>4, <1>6, <1>7, WrittenBehind
        <4>2. OnTheWay(w)
          BY <1>1 DEF JobInv
        <4>3. Way(n) = Append(Way(w), Cell(w.wrote + 1))
          BY <4>1 DEF r
        <4> QED BY <1>1, <1>3, <1>6, <1>7, <3>2, <4>2, <4>3, CellAdded
      <3> QED BY <1>3, <3>1, <3>2
    <2>4. Announced(n)
      BY <1>1, <1>7 DEF JobInv, Announced
    <2> QED BY <2>1, <2>2, <2>3, <2>4 DEF JobInv
  <1>10. n.stop = w.stop /\ n.holder = w.holder /\ (n.pc = "new" <=> w.pc = "new")
    BY <1>7
  <1> QED BY <1>1, <1>2, <1>6, <1>9, <1>10, JobStep

LEMMA WriteDoneHolds ==
  ASSUME IInv, NEW j \in Jobs, WriteDone(j)
  PROVE  IInv'
  BY LastWritten DEF WriteDone

LEMMA WriteErrorHolds ==
  ASSUME IInv, NEW j \in Jobs, WriteError(j)
  PROVE  IInv'
  BY LastWritten DEF WriteError

LEMMA DieHolds ==
  ASSUME IInv, NEW j \in Jobs, Die(j)
  PROVE  IInv'
  <1> DEFINE w == job[j]
             n == [w EXCEPT !.worker = "exited", !.reading = w.reading]
  <1>1. w \in Job /\ w.worker \in {"running", "hung"}
    BY DEF IInv, Die
  <1>2. n \in Job /\ w.reading \in BOOLEAN /\ n = [w EXCEPT !.worker = "exited"]
    BY <1>1 DEF Job
  <1>3. CASE Changes(j, [w EXCEPT !.worker = "exited"])
    <2>1. Changes(j, n)
      BY <1>2, <1>3
    <2> QED BY <1>1, <1>2, <2>1, QuietStep
  <1>4. CASE CanWrite(j) /\ Changes(j, [w EXCEPT !.pipe = Append(w.pipe, Final("torn")),
                                                 !.worker = "exited"])
    BY <1>4, LastWritten
  <1> QED BY <1>3, <1>4 DEF Die

-----------------------------------------------------------------------------
(* The user interface *)

LEMMA StartHolds ==
  ASSUME IInv, NEW h \in Holders, NEW j \in Jobs, Start(h, j)
  PROVE  IInv'
  <1> DEFINE w == job[j]
             n == [w EXCEPT !.pc = "spawning", !.holder = h]
  <1>1. w \in Job /\ JobInv(w) /\ Holding(j)
    BY DEF IInv
  <1>2. /\ holds[h] = None /\ w.pc = "new"
        /\ holds' = [holds EXCEPT ![h] = j] /\ job' = [job EXCEPT ![j] = n]
    BY DEF Start
  <1>3. n \in Job
    BY <1>1 DEF Job
  <1>4. /\ n.pc = "spawning" /\ n.pending = w.pending /\ n.events = w.events
        /\ n.lines = w.lines /\ n.pipe = w.pipe /\ n.taken = w.taken /\ n.wrote = w.wrote
        /\ n.reading = w.reading /\ n.holder = h /\ n.stop = w.stop /\ n.worker = w.worker
        /\ n.failed = w.failed /\ n.age = w.age /\ n.idle = w.idle
    BY <1>1 DEF Job
  <1> HIDE DEF n
  <1>5. JobInv(n)
    <2>1. w.wrote = 0 /\ Cells[h] \in Nat /\ w.events = <<>> /\ ~w.stop
      BY <1>1, <1>2, JobAssumption DEF JobInv, Blank, Announced
    <2>2. Sizes(n)
      BY <1>1, <1>2, <1>4, <2>1 DEF JobInv, Sizes
    <2>3. WorkerKnown(n) /\ ClockIsIdle(n) /\ Blank(n) /\ FailedLate(n) /\ OnTheWay(n)
      BY <1>1, <1>2, <1>4 DEF JobInv, WorkerKnown, ClockIsIdle, Blank, FailedLate, OnTheWay
    <2>4. Announced(n)
      BY <1>4, <2>1 DEF Announced
    <2> QED BY <2>2, <2>3, <2>4 DEF JobInv
  <1>6. /\ job' \in [Jobs -> Job] /\ job'[j] = n
        /\ \A i \in Jobs \ {j} : job'[i] = job[i]
    BY <1>2, <1>3 DEF IInv
  <1>7. /\ holds' \in [Holders -> Jobs \cup {None}] /\ holds'[h] = j
        /\ \A g \in Holders \ {h} : holds'[g] = holds[g]
    BY <1>2 DEF IInv
  <1>8. \A g \in Holders : holds[g] # j
    BY <1>1, <1>2 DEF Holding
  <1>9. ASSUME NEW i \in Jobs
        PROVE  Holding(i)'
    <2>1. CASE i = j
      <3>1. \A g \in Holders : holds'[g] = j => g = h
        BY <1>7, <1>8
      <3>2. job'[i].pc = "spawning" /\ job'[i].holder = h /\ job'[i].stop = w.stop
        BY <1>4, <1>6, <2>1
      <3>3. ~w.stop
        BY <1>1, <1>2 DEF JobInv, Announced
      <3> QED BY <3>1, <3>2, <3>3, <2>1, <1>7 DEF Holding, Received
    <2>2. CASE i # j
      <3>1. Holding(i) /\ job'[i] = job[i]
        BY <1>6, <2>2 DEF IInv
      <3>2. \A g \in Holders : holds'[g] = i <=> holds[g] = i
        BY <1>2, <1>7, <2>2, JobAssumption
      <3> QED BY <3>1, <3>2 DEF Holding, Received
    <2> QED BY <2>1, <2>2
  <1>10. \A i \in Jobs : JobInv(job'[i])
    BY <1>5, <1>6 DEF IInv
  <1> QED BY <1>6, <1>7, <1>9, <1>10 DEF IInv

LEMMA DropHolds ==
  ASSUME IInv, NEW h \in Holders, holds[h] # None, Drop(h)
  PROVE  IInv'
  <1> DEFINE j == holds[h]
             w == job[j]
             n == [w EXCEPT !.stop = TRUE, !.events = <<>>]
  <1>1. j \in Jobs /\ w \in Job /\ JobInv(w) /\ Holding(j)
    BY DEF IInv
  <1>2. holds' = [holds EXCEPT ![h] = None] /\ job' = [job EXCEPT ![j] = n]
    BY DEF Drop
  <1>3. w.pc # "new" /\ w.holder = h
    BY <1>1 DEF Holding
  <1>4. n \in Job
    BY <1>1, <<>> \in Seq(Reply) DEF Job
  <1>5. /\ n.pc = w.pc /\ n.pending = w.pending /\ n.events = <<>>
        /\ n.lines = w.lines /\ n.pipe = w.pipe /\ n.taken = w.taken /\ n.wrote = w.wrote
        /\ n.reading = w.reading /\ n.holder = w.holder /\ n.stop = TRUE
        /\ n.worker = w.worker
        /\ n.failed = w.failed /\ n.age = w.age /\ n.idle = w.idle
    BY <1>1 DEF Job
  <1> HIDE DEF n
  <1>6. JobInv(n)
    <2>1. Sizes(n)
      <3>1. Len(n.events) <= EventSlots
        BY <1>5, JobAssumption
      <3> QED BY <1>1, <1>5, <3>1 DEF JobInv, Sizes
    <2>2. WorkerKnown(n) /\ ClockIsIdle(n) /\ Blank(n) /\ FailedLate(n) /\ OnTheWay(n)
      BY <1>1, <1>5 DEF JobInv, WorkerKnown, ClockIsIdle, Blank, FailedLate, OnTheWay
    <2>3. Announced(n)
      BY <1>3, <1>5 DEF Announced
    <2> QED BY <2>1, <2>2, <2>3 DEF JobInv
  <1>7. /\ job' \in [Jobs -> Job] /\ job'[j] = n
        /\ \A i \in Jobs \ {j} : job'[i] = job[i]
    BY <1>1, <1>2, <1>4 DEF IInv
  <1>8. /\ holds' \in [Holders -> Jobs \cup {None}] /\ holds'[h] = None
        /\ \A g \in Holders \ {h} : holds'[g] = holds[g]
    BY <1>2 DEF IInv
  <1>9. ASSUME NEW i \in Jobs
        PROVE  Holding(i)'
    <2>1. CASE i = j
      <3>1. \A g \in Holders : holds[g] = j => g = h
        BY <1>1, <1>3 DEF Holding
      <3>2. \A g \in Holders : holds'[g] # j
        BY <3>1, <1>1, <1>8, JobAssumption
      <3>3. job'[i].stop = TRUE
        BY <1>5, <1>7, <2>1
      <3> HIDE DEF j
      <3> QED BY <3>2, <3>3, <2>1 DEF Holding
    <2>2. CASE i # j
      <3>1. Holding(i) /\ job'[i] = job[i]
        BY <1>7, <2>2 DEF IInv
      <3>2. \A g \in Holders : holds'[g] = i <=> holds[g] = i
        BY <1>8, <2>2, JobAssumption
      <3> QED BY <3>1, <3>2 DEF Holding, Received
    <2> QED BY <2>1, <2>2
  <1>10. \A i \in Jobs : JobInv(job'[i])
    BY <1>6, <1>7 DEF IInv
  <1> QED BY <1>7, <1>8, <1>9, <1>10 DEF IInv

\* A cell taken is the next one.
LEMMA CellTaken ==
  ASSUME IInv, NEW j \in Jobs, job[j].events # <<>>, Head(job[j].events).kind = "cell",
         Changes(j, [job[j] EXCEPT !.events = Tail(job[j].events),
                                   !.taken = job[j].taken + 1])
  PROVE  IInv'
  <1> DEFINE w == job[j]
             t == Tail(w.events)
             k == w.taken + 1
             n == [w EXCEPT !.events = t, !.taken = k]
  <1>1. w \in Job /\ JobInv(w) /\ Holding(j) /\ Changes(j, n)
    BY DEF IInv
  <1>2. /\ w.events \in Seq(Reply) /\ w.events # <<>> /\ w.taken \in Nat /\ w.wrote \in Nat
        /\ w.pending \o (w.lines \o w.pipe) \in Seq(Reply)
        /\ Way(w) \in Seq(Reply) /\ w.events[1] = Way(w)[1] /\ w.events[1].kind = "cell"
        /\ DOMAIN Way(w) = 1..Len(Way(w)) /\ Len(Way(w)) \in Nat \ {0}
    <2>1. /\ w.events \in Seq(Reply) /\ w.pending \o (w.lines \o w.pipe) \in Seq(Reply)
          /\ Way(w) \in Seq(Reply) /\ Len(w.events) + Len(w.pending) <= Len(Way(w))
          /\ \A i \in DOMAIN w.events : w.events[i] = Way(w)[i]
          /\ DOMAIN Way(w) = 1..Len(Way(w)) /\ Len(Way(w)) \in Nat /\ w.pending \in Seq(Reply)
      BY <1>1, Ways
    <2>2. /\ 1 \in DOMAIN w.events /\ Head(w.events) = w.events[1]
          /\ Len(w.events) \in Nat \ {0} /\ Len(w.pending) \in Nat
      BY <2>1
    <2>3. w.taken \in Nat /\ w.wrote \in Nat
      BY <1>1 DEF Job
    <2>4. w.events[1] = Way(w)[1]
      BY <2>1, <2>2
    <2> DEFINE p == Len(w.events)  r == Len(w.pending)  x == Len(Way(w))
    <2>5. x \in Nat \ {0}
      <3>1. p \in Nat \ {0} /\ r \in Nat /\ x \in Nat /\ p + r <= x
        BY <2>1, <2>2
      <3> HIDE DEF p, r, x
      <3> QED BY <3>1
    <2> QED BY <2>1, <2>2, <2>3, <2>4, <2>5
  <1>3. /\ t \in Seq(Reply) /\ Len(t) = Len(w.events) - 1 /\ Len(w.events) \in Nat \ {0}
        /\ DOMAIN t = 1..Len(t) /\ DOMAIN w.events = 1..Len(w.events)
        /\ \A i \in 1..Len(t) : t[i] = w.events[i + 1]
        /\ k \in Nat
    BY <1>2
  <1>4. t \o (w.pending \o (w.lines \o w.pipe)) = Tail(Way(w))
    <2> DEFINE a == w.events  b == w.pending \o (w.lines \o w.pipe)
    <2>1. a \in Seq(Reply) /\ b \in Seq(Reply) /\ a # <<>> /\ Way(w) = a \o b
      BY <1>2 DEF Way
    <2> HIDE DEF a, b
    <2>2. Tail(a) \o b = Tail(a \o b)
      BY <2>1, LeftInFront
    <2> QED BY <2>1, <2>2 DEF a, b
  <1> HIDE DEF t, k
  <1>5. n \in Job
    BY <1>1, <1>3 DEF Job
  <1>6. /\ n.pc = w.pc /\ n.pending = w.pending /\ n.events = t /\ n.lines = w.lines
        /\ n.pipe = w.pipe /\ n.taken = k /\ n.wrote = w.wrote /\ n.reading = w.reading
        /\ n.holder = w.holder /\ n.stop = w.stop /\ n.worker = w.worker
        /\ n.failed = w.failed /\ n.age = w.age /\ n.idle = w.idle
    BY <1>1 DEF Job
  <1> HIDE DEF n
  <1>7. JobInv(n)
    <2>1. Sizes(n)
      <3>1. Len(t) <= EventSlots
        BY <1>1, <1>3, JobAssumption DEF JobInv, Sizes
      <3> QED BY <1>1, <1>6, <3>1 DEF JobInv, Sizes
    <2>2. w.pc \notin {"new", "spawning", "writing"} /\ ~w.stop
      BY <1>1, <1>2 DEF JobInv, Blank, Announced
    <2>3. WorkerKnown(n) /\ ClockIsIdle(n) /\ Blank(n) /\ FailedLate(n)
      BY <1>1, <1>6, <2>2 DEF JobInv, WorkerKnown, ClockIsIdle, Blank, FailedLate
    <2>4. OnTheWay(n)
      <3> SUFFICES ASSUME w.pc \in {"waiting", "sending"}
                   PROVE  OnTheWay(n)
        BY <1>6 DEF OnTheWay
      <3>1. Way(n) = Tail(Way(w))
        BY <1>4, <1>6 DEF Way
      <3>2. /\ InOrder(Way(w), w.taken, w.wrote)
            /\ w.worker \in {"running", "hung"} => Len(Way(w)) = w.wrote - w.taken
            /\ \A i \in DOMAIN Way(w) : Way(w)[i].kind = "done" => w.wrote = Cells[w.holder]
        BY <1>1, <2>2 DEF JobInv, OnTheWay
      <3> DEFINE q == Way(w)  m == w.taken  x == w.wrote
      <3>3. /\ q \in Seq(Reply) /\ DOMAIN q = 1..Len(q) /\ Len(q) \in Nat \ {0}
            /\ m \in Nat /\ x \in Nat /\ k = m + 1 /\ q[1].kind = "cell"
        BY <1>2 DEF k
      <3> HIDE DEF q, m, x
      <3>4. /\ Len(Tail(q)) = Len(q) - 1 /\ DOMAIN Tail(q) = 1..(Len(q) - 1)
            /\ \A i \in 1..(Len(q) - 1) : Tail(q)[i] = q[i + 1]
        BY <3>3
      <3>5. InOrder(q, m, x)
        BY <3>2 DEF q, m, x
      <3>6. 1 <= x - m
        BY <3>3, <3>5 DEF InOrder
      <3>7. InOrder(Tail(q), k, x)
        <4>1. k <= x /\ Len(Tail(q)) \in {x - k, x - k + 1}
          BY <3>3, <3>4, <3>5, <3>6 DEF InOrder
        <4>2. ASSUME NEW i \in DOMAIN Tail(q)
              PROVE  IF i <= x - k THEN Tail(q)[i] = Cell(k + i) ELSE Tail(q)[i].kind # "cell"
          <5>1. i + 1 \in DOMAIN q /\ Tail(q)[i] = q[i + 1] /\ i \in Nat
            BY <3>3, <3>4
          <5>2. IF i + 1 <= x - m THEN q[i + 1] = Cell(m + (i + 1)) ELSE q[i + 1].kind # "cell"
            BY <5>1, <3>5 DEF InOrder
          <5>3. m + (i + 1) = k + i /\ (i + 1 <= x - m <=> i <= x - k)
            <6>1. i \in Nat /\ m \in Nat /\ x \in Nat /\ k = m + 1
              BY <5>1, <3>3
            <6> QED BY <6>1, SMTT(30)
          <5> QED BY <5>1, <5>2, <5>3
        <4> QED BY <4>1, <4>2 DEF InOrder
      <3>8. \A i \in DOMAIN Tail(q) : i + 1 \in DOMAIN q /\ Tail(q)[i] = q[i + 1]
        BY <3>3, <3>4
      <3>9. w.worker \in {"running", "hung"} => Len(Tail(q)) = x - k
        BY <3>2, <3>3, <3>4 DEF q, x, m
      <3>10. \A i \in DOMAIN Tail(q) : Tail(q)[i].kind = "done" => x = Cells[w.holder]
        BY <3>2, <3>8 DEF q, x
      <3>11. Way(n) = Tail(q) /\ n.taken = k /\ n.wrote = x
        BY <3>1, <1>6 DEF q, x
      <3> QED BY <1>6, <3>7, <3>9, <3>10, <3>11 DEF OnTheWay
    <2>5. Announced(n)
      <3>1. ASSUME NEW i \in DOMAIN t
            PROVE  /\ t[i].kind = "cell" => t[i] = Cell(k + i)
                   /\ t[i].kind # "cell" =>
                        /\ i = Len(t) /\ w.pc \in {"reaping", "ended"}
                        /\ w.pc = "reaping" => ~w.failed
                   /\ t[i].kind = "done" => k + i - 1 = Cells[w.holder]
        <4>1. i \in 1..Len(t) /\ Len(t) = Len(w.events) - 1 /\ Len(w.events) \in Nat \ {0}
          BY <1>3
        <4>2. t[i] = w.events[i + 1]
          BY <4>1, <1>3
        <4> DEFINE p == Len(w.events)  m == w.taken
        <4>3. p \in Nat \ {0} /\ m \in Nat /\ i \in 1..(p - 1) /\ Len(t) = p - 1
          BY <4>1, <1>2
        <4> HIDE DEF p, m
        <4>4. /\ i + 1 \in 1..p /\ (m + 1) + i = m + (i + 1)
              /\ (i + 1 = p <=> i = p - 1)
          <5>1. p \in Nat /\ m \in Nat /\ i \in 1..(p - 1)
            BY <4>3
          <5> QED BY <5>1, SMTT(30)
        <4>5. /\ i + 1 \in DOMAIN w.events /\ k + i = w.taken + (i + 1)
              /\ (i + 1 = Len(w.events) <=> i = Len(t))
          BY <1>3, <4>3, <4>4 DEF p, m, k
        <4>6. \A l \in DOMAIN w.events :
                /\ w.events[l].kind = "cell" => w.events[l] = Cell(w.taken + l)
                /\ w.events[l].kind # "cell" =>
                     /\ l = Len(w.events)
                     /\ w.pc \in {"reaping", "ended"}
                     /\ w.pc = "reaping" => ~w.failed
                /\ w.events[l].kind = "done" => w.taken + l - 1 = Cells[w.holder]
          BY <1>1 DEF JobInv, Announced
        <4> DEFINE l == i + 1
        <4>7. l \in DOMAIN w.events /\ w.events[l] = t[i] /\ w.taken + l = k + i
              /\ (l = Len(w.events) <=> i = Len(t))
              /\ l \in Nat /\ w.taken \in Nat /\ k \in Nat /\ i \in Nat
          BY <4>1, <4>2, <4>5, <1>2, <1>3
        <4> DEFINE e == w.events  y == w.taken  r == t[i]  z == Len(t)
        <4>8. /\ l \in DOMAIN e /\ e[l] = r /\ y + l = k + i /\ (l = Len(e) <=> i = z)
              /\ l \in Nat /\ y \in Nat /\ k \in Nat /\ i \in Nat
              /\ e[l].kind = "cell" => e[l] = Cell(y + l)
              /\ e[l].kind # "cell" =>
                   /\ l = Len(e)
                   /\ w.pc \in {"reaping", "ended"}
                   /\ w.pc = "reaping" => ~w.failed
              /\ e[l].kind = "done" => y + l - 1 = Cells[w.holder]
          <5> HIDE DEF l
          <5> QED BY <4>6, <4>7
        <4> HIDE DEF l, e, y, r, z
        <4>9. r.kind = "cell" => r = Cell(k + i)
          BY <4>8
        <4>10. r.kind # "cell" => /\ i = z /\ w.pc \in {"reaping", "ended"}
                                  /\ w.pc = "reaping" => ~w.failed
          BY <4>8
        <4>11. r.kind = "done" => k + i - 1 = Cells[w.holder]
          BY <4>8
        <4> QED BY <4>9, <4>10, <4>11 DEF r, z
      <3> QED BY <1>6, <2>2, <3>1 DEF Announced
    <2> QED BY <2>1, <2>3, <2>4, <2>5 DEF JobInv
  <1>8. n.stop = w.stop /\ n.holder = w.holder /\ (n.pc = "new" <=> w.pc = "new")
    BY <1>6
  <1> QED BY <1>1, <1>5, <1>7, <1>8, JobStep

LEMMA PollPanelHolds ==
  ASSUME IInv, PollPanel
  PROVE  IInv'
  <1> DEFINE j == holds["panel"]
  <1>1. holds["panel"] # None /\ "panel" \in Holders /\ j \in Jobs /\ job[j].events # <<>>
    BY DEF IInv, PollPanel, Holders
  <1>2. CASE Head(job[j].events).kind = "cell"
    <2>1. Changes(j, [job[j] EXCEPT !.events = Tail(job[j].events),
                                    !.taken = job[j].taken + 1])
      BY <1>2 DEF PollPanel
    <2> QED BY <1>1, <1>2, <2>1, CellTaken
  <1>3. CASE Head(job[j].events).kind # "cell"
    BY <1>1, <1>3, DropHolds DEF PollPanel
  <1> QED BY <1>2, <1>3

LEMMA PollTextHolds ==
  ASSUME IInv, PollText
  PROVE  IInv'
  BY DropHolds DEF PollText, Holders

\* While half a deadline passes under a job, the job is idle.
LEMMA HalfDeadlineHolds ==
  ASSUME IInv, HalfDeadline
  PROVE  IInv'
  <1>1. holds' = holds /\ job' = [j \in Jobs |-> Age(j)] /\ \A j \in Jobs : ~Busy(j)
    BY DEF HalfDeadline
  <1>2. ASSUME NEW j \in Jobs
        PROVE  /\ Age(j) \in Job /\ JobInv(Age(j))
               /\ Age(j).pc = job[j].pc /\ Age(j).stop = job[j].stop
               /\ Age(j).holder = job[j].holder
    <2> DEFINE w == job[j]
               a == IF Waits(j) THEN Later(w.age) ELSE w.age
               b == IF Waits(j) /\ Idle(j) THEN Later(w.idle) ELSE w.idle
               n == [w EXCEPT !.age = a, !.idle = b]
    <2>1. w \in Job /\ JobInv(w) /\ n = Age(j)
      BY DEF IInv, Age
    <2>2. w.age \in 0..2 /\ w.idle \in 0..2
      BY <2>1 DEF Job
    <2>3. a \in 0..2 /\ b \in 0..2
      BY <2>2 DEF Later
    <2>4. Waits(j) => Idle(j)
      <3> SUFFICES ASSUME w.pc = "waiting" PROVE w.worker = "hung" \/ CanWrite(j)
        BY DEF Waits, Idle
      <3>1. w.lines = <<>> /\ w.reading
        BY <1>1 DEF Busy
      <3>2. w.pipe = <<>>
        BY <1>1, <3>1, JobAssumption DEF Busy
      <3>3. w.worker \in {"running", "hung"}
        BY <1>1, <2>1, <3>1, <3>2 DEF Busy, JobInv, WorkerKnown
      <3> QED BY <3>2, <3>3, JobAssumption DEF CanWrite
    <2>5. w.pc \in {"waiting", "sending"} => a <= b
      <3>1. w.pc \in {"waiting", "sending"} => w.age <= w.idle
        BY <2>1 DEF JobInv, ClockIsIdle
      <3> QED BY <2>2, <2>4, <3>1 DEF Waits, Later
    <2> HIDE DEF a, b
    <2>6. n \in Job
      BY <2>1, <2>3 DEF Job
    <2>7. /\ n.pc = w.pc /\ n.pending = w.pending /\ n.events = w.events /\ n.lines = w.lines
          /\ n.pipe = w.pipe /\ n.taken = w.taken /\ n.wrote = w.wrote
          /\ n.reading = w.reading /\ n.holder = w.holder /\ n.stop = w.stop
          /\ n.worker = w.worker /\ n.failed = w.failed /\ n.age = a /\ n.idle = b
      BY <2>1 DEF Job
    <2> HIDE DEF n
    <2>8. JobInv(n)
      <3>1. Sizes(n)
        BY <2>1, <2>7 DEF JobInv, Sizes
      <3>2. WorkerKnown(n) /\ ClockIsIdle(n) /\ Blank(n) /\ FailedLate(n)
        BY <2>1, <2>5, <2>7 DEF JobInv, WorkerKnown, ClockIsIdle, Blank, FailedLate
      <3>3. Way(n) = Way(w)
        BY <2>7 DEF Way
      <3>4. OnTheWay(n)
        BY <2>1, <2>7, <3>3 DEF JobInv, OnTheWay
      <3>5. Announced(n)
        BY <2>1, <2>7 DEF JobInv, Announced
      <3> QED BY <3>1, <3>2, <3>4, <3>5 DEF JobInv
    <2> QED BY <2>1, <2>6, <2>7, <2>8
  <1>3. job' \in [Jobs -> Job]
    BY <1>1, <1>2
  <1>4. \A j \in Jobs : job'[j] = Age(j)
    BY <1>1
  <1>5. \A j \in Jobs : JobInv(job'[j])
    BY <1>2, <1>4
  <1>6. ASSUME NEW j \in Jobs
        PROVE  Holding(j)'
    <2>1. Holding(j)
      BY DEF IInv
    <2>2. job'[j].pc = job[j].pc /\ job'[j].stop = job[j].stop /\ job'[j].holder = job[j].holder
      BY <1>2, <1>4
    <2> QED BY <2>1, <2>2, <1>1 DEF Holding, Received
  <1> QED BY <1>1, <1>3, <1>5, <1>6 DEF IInv

-----------------------------------------------------------------------------
(* The invariant *)

LEMMA NextHolds == IInv /\ [Next]_vars => IInv'
  <1> SUFFICES ASSUME IInv, [Next]_vars PROVE IInv'
    OBVIOUS
  <1>1. CASE \E h \in Holders, j \in Jobs : Start(h, j)
    BY <1>1, StartHolds
  <1>2. CASE \E h \in Holders : Cancel(h)
    BY <1>2, DropHolds DEF Cancel
  <1>3. CASE PollPanel \/ PollText
    BY <1>3, PollPanelHolds, PollTextHolds
  <1>4. ASSUME NEW j \in Jobs, Supervise(j)
        PROVE  IInv'
    BY <1>4, SpawnHolds, WriteFailsHolds, WriteHolds, StopsHolds, TimesOutHolds, TakeLineHolds,
       BreaksHolds, SendHolds, GiveUpHolds, ReapHolds, ReportHolds DEF Supervise
  <1>5. ASSUME NEW j \in Jobs, PassLine(j) \/ EndOfPipe(j) \/ WriteCell(j) \/ WriteDone(j)
                                  \/ WriteError(j) \/ Die(j) \/ Hang(j)
        PROVE  IInv'
    BY <1>5, PassLineHolds, EndOfPipeHolds, WriteCellHolds, WriteDoneHolds, WriteErrorHolds,
       DieHolds, HangHolds
  <1>6. CASE HalfDeadline
    BY <1>6, HalfDeadlineHolds
  <1>7. CASE UNCHANGED vars
    BY <1>7 DEF vars, IInv, Holding, Received
  <1> QED BY <1>1, <1>2, <1>3, <1>4, <1>5, <1>6, <1>7 DEF Next

\* The inductive invariant holds in every behaviour: job by job it says what is
\* under way between the worker and the holder, and who still exists.
THEOREM JobInvariance == Spec => []IInv
  <1>1. Init => IInv
    BY InitHolds
  <1>2. IInv /\ [Next]_vars => IInv'
    BY NextHolds
  <1> QED BY <1>1, <1>2, PTL DEF Spec

\* Every variable keeps its type; no channel holds more than its slots, and a
\* holder holds a job it started (Job::start).
THEOREM TypeCorrect == Spec => []TypeOK
  <1>1. IInv => TypeOK
    <2> SUFFICES ASSUME IInv PROVE TypeOK
      OBVIOUS
    <2>1. ASSUME NEW j \in Jobs
          PROVE  /\ Len(job[j].pipe) <= PipeSlots /\ Len(job[j].lines) <= LineSlots
                 /\ Len(job[j].events) <= EventSlots /\ Len(job[j].pending) <= 1
                 /\ job[j].wrote <= Cells[job[j].holder]
      BY <2>1 DEF IInv, JobInv, Sizes
    <2>2. ASSUME NEW h \in Holders, holds[h] # None
          PROVE  job[holds[h]].holder = h
      BY <2>2 DEF IInv, Holding
    <2> QED BY <2>1, <2>2 DEF TypeOK, IInv
  <1> QED BY <1>1, JobInvariance, PTL

\* No cell is lost, doubled or reordered between the worker and the holder while
\* the job runs, and the end of a complete extraction comes after all its cells.
THEOREM NothingEverLost == Spec => []NothingLost
  <1>1. IInv => NothingLost
    <2> SUFFICES ASSUME IInv, NEW j \in Jobs
                 PROVE  LET w == job[j] IN
                          /\ w.pc \in {"waiting", "sending"} /\ ~w.stop
                               => InOrder(Way(w), w.taken, w.wrote)
                          /\ (\E i \in DOMAIN w.events : w.events[i].kind = "done")
                               => InOrder(w.events, w.taken, Cells[w.holder])
      BY DEF NothingLost
    <2> DEFINE w == job[j]
    <2>1. w \in Job /\ JobInv(w)
      BY DEF IInv
    <2>2. w.pc \in {"waiting", "sending"} /\ ~w.stop => InOrder(Way(w), w.taken, w.wrote)
      BY <2>1 DEF JobInv, OnTheWay
    <2>3. ASSUME NEW i \in DOMAIN w.events, w.events[i].kind = "done"
          PROVE  InOrder(w.events, w.taken, Cells[w.holder])
      <3> DEFINE q == w.events  m == w.taken  c == Cells[w.holder]
      <3>1. q \in Seq(Reply) /\ m \in Nat /\ c \in Nat
        BY <2>1, JobAssumption DEF Job
      <3>2. \A k \in DOMAIN q : /\ q[k].kind = "cell" => q[k] = Cell(m + k)
                                /\ q[k].kind # "cell" => k = Len(q)
                                /\ q[k].kind = "done" => m + k - 1 = c
        BY <2>1 DEF JobInv, Announced
      <3>3. i \in DOMAIN q /\ q[i].kind = "done"
        BY <2>3
      <3> HIDE DEF q, m, c
      <3>4. DOMAIN q = 1..Len(q) /\ Len(q) \in Nat
        BY <3>1
      <3>5. i = Len(q) /\ m + i - 1 = c /\ i \in Nat \ {0}
        BY <3>2, <3>3, <3>4
      <3>6. m <= c /\ Len(q) = c - m + 1 /\ c - m = i - 1
        BY <3>1, <3>4, <3>5
      <3>7. ASSUME NEW k \in DOMAIN q
            PROVE  IF k <= c - m THEN q[k] = Cell(m + k) ELSE q[k].kind # "cell"
        <4>1. CASE k <= c - m
          <5>1. k # Len(q)
            BY <4>1, <3>1, <3>4, <3>5, <3>6
          <5> QED BY <4>1, <5>1, <3>2
        <4>2. CASE ~(k <= c - m)
          <5>1. k = i
            BY <4>2, <3>1, <3>4, <3>5, <3>6
          <5> QED BY <4>2, <5>1, <3>3
        <4> QED BY <4>1, <4>2
      <3> QED BY <3>6, <3>7 DEF InOrder, q, m, c
    <2> QED BY <2>2, <2>3
  <1> QED BY <1>1, JobInvariance, PTL

\* No end of a job, by success, error, cancellation or deadline, leaves a worker
\* behind that runs or was not waited for.
THEOREM AllWorkersReaped == Spec => []WorkersReaped
  <1>1. IInv => WorkersReaped
    BY DEF IInv, JobInv, WorkerKnown, WorkersReaped
  <1> QED BY <1>1, JobInvariance, PTL

\* A job times out only when its worker was silent, or the window did not poll,
\* for the whole of the 90 seconds.
THEOREM TimeoutsAreIdle == Spec => TimeoutMeansSilence
  <1>1. IInv /\ [Next]_vars => [\A j \in Jobs : TimesOut(j) => job[j].idle = 2]_vars
    <2> SUFFICES ASSUME IInv, NEW j \in Jobs, TimesOut(j)
                 PROVE  job[j].idle = 2
      OBVIOUS
    <2>1. job[j].age = 2 /\ job[j].pc = "waiting"
      BY DEF TimesOut
    <2>2. job[j].idle \in 0..2 /\ job[j].age <= job[j].idle
      BY <2>1 DEF IInv, Job, JobInv, ClockIsIdle
    <2> QED BY <2>1, <2>2
  <1> QED BY <1>1, JobInvariance, PTL DEF Spec, TimeoutMeansSilence

=============================================================================
