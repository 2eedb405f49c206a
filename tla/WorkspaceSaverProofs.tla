------------------------ MODULE WorkspaceSaverProofs ------------------------
(***************************************************************************)
(* Proofs about the autosave: for any number of edits, launches, failures  *)
(* and crashes, and any capacity of the snapshot channel, the workspace    *)
(* file is whole, never goes back, and holds the latest state after a      *)
(* normal exit.                                                            *)
(***************************************************************************)
EXTENDS WorkspaceSaver, TLAPS

-----------------------------------------------------------------------------
(* Queues *)

\* What appending a snapshot does to the positions of the queue.
LEMMA Appended ==
  ASSUME NEW S, NEW q \in Seq(S), NEW v \in S
  PROVE  /\ Append(q, v) \in Seq(S) /\ Len(Append(q, v)) = Len(q) + 1
         /\ \A i \in DOMAIN Append(q, v) :
              \/ i \in DOMAIN q /\ Append(q, v)[i] = q[i]
              \/ i = Len(q) + 1 /\ Append(q, v)[i] = v
         /\ \A i \in DOMAIN q : i <= Len(q) /\ i \in Nat
  <1> DEFINE a == Append(q, v)
  <1>1. /\ a \in Seq(S) /\ Len(a) = Len(q) + 1
        /\ DOMAIN q = 1..Len(q) /\ Len(q) \in Nat
        /\ DOMAIN a = 1..(Len(q) + 1)
    OBVIOUS
  <1>2. (\A i \in 1..Len(q) : a[i] = q[i]) /\ a[Len(q) + 1] = v
    OBVIOUS
  <1>3. \A i \in 1..(Len(q) + 1) : i \in 1..Len(q) \/ i = Len(q) + 1
    BY <1>1
  <1> HIDE DEF a
  <1>4. ASSUME NEW i \in DOMAIN a
        PROVE  \/ i \in DOMAIN q /\ a[i] = q[i]
               \/ i = Len(q) + 1 /\ a[i] = v
    <2>1. i \in 1..(Len(q) + 1)
      BY <1>1
    <2>2. CASE i \in 1..Len(q)
      BY <2>2, <1>1, <1>2
    <2>3. CASE i = Len(q) + 1
      BY <2>3, <1>2
    <2> QED BY <2>1, <2>2, <2>3, <1>3
  <1>5. \A i \in DOMAIN q : i <= Len(q) /\ i \in Nat
    BY <1>1
  <1> QED BY <1>1, <1>4, <1>5 DEF a

\* An empty queue has no positions.
LEMMA Emptied ==
  ASSUME NEW S
  PROVE  <<>> \in Seq(S) /\ Len(<<>>) = 0 /\ DOMAIN <<>> = {}
  OBVIOUS

\* What taking the oldest snapshot does to them.
LEMMA Taken ==
  ASSUME NEW S, NEW q \in Seq(S), q # <<>>
  PROVE  /\ Tail(q) \in Seq(S) /\ Len(Tail(q)) = Len(q) - 1
         /\ Head(q) = q[1] /\ 1 \in DOMAIN q /\ Head(q) \in S
         /\ \A i \in DOMAIN Tail(q) :
              i + 1 \in DOMAIN q /\ Tail(q)[i] = q[i + 1] /\ i \in Nat /\ 1 <= i + 1
  OBVIOUS

\* The bounds are numbers.
LEMMA Bounds ==
  /\ Slots \in Nat \ {0} /\ MaxEdits \in Nat
  /\ MaxFailures \in Nat /\ MaxCrashes \in Nat
  /\ Versions \subseteq Nat /\ 0 \in Versions
  BY SaverAssumption DEF Versions

-----------------------------------------------------------------------------
(* The inductive invariant *)

Busy(t) == ~At(t, "none")

\* Snapshots leave memory in the order they were made: the file, then the
\* write under way, then the queue, then the state, each no newer than the
\* next.
SnapshotOrder ==
  /\ state <= edits /\ file.version <= edits
  /\ saver => file.version <= state
  /\ \A t \in Threads : Busy(t) =>
       file.version <= hand[t].version /\ hand[t].version <= state
  /\ \A i \in DOMAIN queue : file.version <= queue[i] /\ queue[i] <= state
  /\ Busy("writer") => \A i \in DOMAIN queue : hand["writer"].version <= queue[i]
  /\ \A i, j \in DOMAIN queue : i <= j => queue[i] <= queue[j]

\* One thread writes at a time: the user interface only after the writer has
\* gone, and then the state in memory.
OneWriter ==
  /\ app = "closed" => ~saver
  /\ ~saver => writer = "off" /\ ~Busy("ui")
  /\ app \in {"joining", "flushing"} => saver
  /\ app \in {"flushing", "exiting"} => writer = "off"
  /\ app = "running" /\ saver => writer # "off"
  /\ writer = "off" => queue = <<>>
  /\ Busy("writer") <=> writer = "writing"
  /\ Busy("ui") <=> app = "flushing"
  /\ Busy("ui") => hand["ui"].version = state

\* What has the name of the workspace file has been synced; before the first
\* save there is only the empty workspace.
FileSynced ==
  \/ file.kind = "durable"
  \/ file.kind = "missing" /\ file.version = 0

IInv == TypeOK /\ SnapshotOrder /\ OneWriter /\ FileSynced

LEMMA InitHolds == Init => IInv
  <1> SUFFICES ASSUME Init PROVE IInv
    OBVIOUS
  <1> USE Bounds, Emptied DEF Init, Busy, At, Idle, Threads
  <1>1. TypeOK
    <2>1. queue \in Seq(Versions) /\ Len(queue) <= Slots
      OBVIOUS
    <2>2. hand \in [Threads -> Hand] /\ file \in File
      BY DEF Hand, File
    <2>3. state \in Versions /\ edits \in Versions /\ failures \in 0..MaxFailures
          /\ crashes \in 0..MaxCrashes
      OBVIOUS
    <2> QED BY <2>1, <2>2, <2>3 DEF TypeOK
  <1>2. SnapshotOrder
    BY DEF SnapshotOrder
  <1>3. OneWriter /\ FileSynced
    BY DEF OneWriter, FileSynced
  <1> QED BY <1>1, <1>2, <1>3 DEF IInv

-----------------------------------------------------------------------------
(* The steps *)

\* Launching, editing and closing.
LEMMA InterfaceKeeps ==
  ASSUME IInv, Launch \/ LaunchFails \/ Edit \/ Close \/ Join
  PROVE  IInv'
  <1> USE Bounds DEF IInv, TypeOK, Busy, At, Hand, File, Threads, Versions
  <1>1. CASE Launch
    <2> USE <1>1 DEF Launch, NewSaver
    <2>1. TypeOK'
      OBVIOUS
    <2>2. ~saver /\ queue = <<>> /\ ~Busy("ui") /\ ~Busy("writer")
      BY DEF OneWriter
    <2>3. file.version <= state' /\ state' <= edits
      BY DEF SnapshotOrder, FileSynced
    <2>4. SnapshotOrder'
      BY <2>2, <2>3, Emptied DEF SnapshotOrder
    <2>5. OneWriter' /\ FileSynced'
      BY DEF OneWriter, FileSynced
    <2> QED BY <2>1, <2>4, <2>5
  <1>2. CASE LaunchFails
    BY <1>2, Emptied DEF LaunchFails, SnapshotOrder, OneWriter, FileSynced
  <1>3. CASE Edit
    <2> USE <1>3 DEF Edit
    <2>1. TypeOK'
      OBVIOUS
    <2>2. state \in Nat /\ state <= state' /\ edits <= edits' /\ edits' \in Nat
      BY DEF SnapshotOrder
    <2>3. SnapshotOrder'
      BY <2>2 DEF SnapshotOrder, Threads
    <2>4. OneWriter' /\ FileSynced'
      BY DEF OneWriter, FileSynced
    <2> QED BY <2>1, <2>3, <2>4
  <1>4. CASE Close
    BY <1>4 DEF Close, SnapshotOrder, OneWriter, FileSynced
  <1>5. CASE Join
    <2> USE <1>5 DEF Join
    <2>1. TypeOK'
      BY DEF OneWriter
    <2>2. SnapshotOrder'
      BY DEF SnapshotOrder, OneWriter
    <2>3. OneWriter'
      BY DEF OneWriter
    <2>4. FileSynced'
      BY DEF FileSynced
    <2> QED BY <2>1, <2>2, <2>3, <2>4
  <1> QED BY <1>1, <1>2, <1>3, <1>4, <1>5

\* The queue: snapshots enter in order and leave in order.
LEMMA QueueKeeps ==
  ASSUME IInv, Autosave \/ Receive \/ WriterEnds
  PROVE  IInv'
  <1> USE Bounds DEF IInv, Busy, At
  <1>1. CASE Autosave
    <2> USE <1>1 DEF Autosave
    <2>1. CASE Len(queue) < Slots
      <3>1. queue' = Append(queue, state) /\ queue \in Seq(Versions)
            /\ state \in Versions
        BY <2>1 DEF TypeOK
      <3>a. queue' \in Seq(Versions) /\ Len(queue') = Len(queue) + 1
        BY <3>1, Appended
      <3>e. Len(queue') <= Slots
        BY <2>1, <3>1, <3>a
      <3>2. TypeOK'
        BY <3>a, <3>e DEF TypeOK
      <3>b. \A i \in DOMAIN queue' :
              \/ i \in DOMAIN queue /\ queue'[i] = queue[i]
              \/ i = Len(queue) + 1 /\ queue'[i] = state
        BY <3>1, Appended
      <3>c. \A i, j \in DOMAIN queue' : i <= j => queue'[i] <= queue'[j]
        <4>1. \A i \in DOMAIN queue : i <= Len(queue) /\ i \in Nat /\ queue[i] <= state
          BY <3>1, Appended DEF SnapshotOrder
        <4>2. Len(queue) \in Nat /\ state <= state
          BY <3>1, Bounds
        <4> QED BY <3>b, <4>1, <4>2 DEF SnapshotOrder
      <3>d. /\ file.version <= state \/ ~saver
            /\ Busy("writer") => hand["writer"].version <= state
            /\ state <= state
        BY <3>1 DEF SnapshotOrder, Threads
      <3>3. SnapshotOrder'
        BY <3>b, <3>c, <3>d DEF SnapshotOrder, Threads
      <3>4. OneWriter' /\ FileSynced'
        BY DEF OneWriter, FileSynced
      <3> QED BY <3>2, <3>3, <3>4
    <2>2. CASE ~(Len(queue) < Slots)
      BY <2>2 DEF TypeOK, SnapshotOrder, OneWriter, FileSynced
    <2> QED BY <2>1, <2>2
  <1>2. CASE Receive
    <2> USE <1>2 DEF Receive
    <2>1. /\ queue \in Seq(Versions) /\ queue # <<>> /\ queue' = Tail(queue)
          /\ Head(queue) \in Versions /\ Head(queue) = queue[1]
      BY Taken DEF TypeOK
    <2>2. \A i \in DOMAIN queue' : \E j \in DOMAIN queue :
            queue'[i] = queue[j] /\ queue[1] <= queue[j]
      BY <2>1, Taken DEF SnapshotOrder
    <2>3. \A i, j \in DOMAIN queue' : i <= j => queue'[i] <= queue'[j]
      BY <2>1, Taken DEF SnapshotOrder
    <2>4. file.version <= queue[1] /\ queue[1] <= state
      BY <2>1, Taken DEF SnapshotOrder
    <2>5. TypeOK'
      <3>1. queue' \in Seq(Versions) /\ Len(queue') <= Slots
        BY <2>1, Taken DEF TypeOK
      <3> QED BY <2>1, <3>1 DEF TypeOK, Hand, Threads
    <2>6. ~At("writer", "none")' =>
            hand'["writer"].version = queue[1] /\ hand'["ui"] = hand["ui"]
      BY <2>1 DEF TypeOK, Hand, Threads, OneWriter
    <2>7. ~At("ui", "none")' => ~At("ui", "none") /\ hand'["ui"] = hand["ui"]
      BY DEF TypeOK, Hand, Threads
    <2>8. SnapshotOrder'
      BY <2>2, <2>3, <2>4, <2>6, <2>7 DEF SnapshotOrder, Threads
    <2>9. OneWriter' /\ FileSynced'
      BY <2>1 DEF TypeOK, OneWriter, FileSynced, Threads, Hand
    <2> QED BY <2>5, <2>8, <2>9
  <1>3. CASE WriterEnds
    BY <1>3 DEF WriterEnds, TypeOK, SnapshotOrder, OneWriter, FileSynced
  <1> QED BY <1>1, <1>2, <1>3

\* A write, in either thread.
LEMMA WriteKeeps ==
  ASSUME IInv, NEW t \in Threads, Write(t) \/ WriteFails(t)
  PROVE  IInv'
  <1> USE Bounds DEF IInv, Busy, At
  <1>1. CASE Fill(t) \/ Sync(t)
    BY <1>1 DEF Fill, Sync, TypeOK, Hand, Threads, SnapshotOrder, OneWriter, FileSynced
  <1>2. CASE Rename(t)
    <2> USE <1>2 DEF Rename, Done
    <2>1. TypeOK'
      BY DEF TypeOK, Hand, File, Threads, Idle
    <2>2. /\ hand[t].version \in Versions /\ file'.version = hand[t].version
          /\ hand[t].version <= state /\ file.version <= hand[t].version
          /\ \A i \in DOMAIN queue : hand[t].version <= queue[i]
      BY DEF TypeOK, Hand, Threads, SnapshotOrder, OneWriter
    <2>3. \A u \in Threads : ~At(u, "none")' => FALSE
      BY DEF TypeOK, Hand, Threads, Idle, OneWriter
    <2>4. SnapshotOrder'
      BY <2>2, <2>3 DEF SnapshotOrder, TypeOK, Threads, Versions
    <2>5. OneWriter'
      BY <2>3 DEF OneWriter, TypeOK, Threads, Idle
    <2>6. FileSynced'
      <3>1. file'.kind = "durable"
        OBVIOUS
      <3> QED BY <3>1 DEF FileSynced
    <2> QED BY <2>1, <2>4, <2>5, <2>6
  <1>3. CASE WriteFails(t)
    <2> USE <1>3 DEF WriteFails, Done
    <2>1. TypeOK'
      <3>1. hand' \in [Threads -> Hand]
        BY DEF TypeOK, Hand, Threads, Idle
      <3>2. failures' \in 0..MaxFailures
        BY DEF TypeOK
      <3>3. app' \in {"closed", "running", "joining", "flushing", "exiting"}
            /\ writer' \in {"off", "waiting", "writing"}
            /\ previous' = previous /\ error' \in BOOLEAN
        BY DEF TypeOK
      <3> QED BY <3>1, <3>2, <3>3 DEF TypeOK
    <2>2. \A u \in Threads : ~At(u, "none")' => FALSE
      BY DEF TypeOK, Hand, Threads, Idle, OneWriter
    <2>3. SnapshotOrder'
      BY <2>2 DEF SnapshotOrder, Threads
    <2>4. OneWriter' /\ FileSynced'
      BY DEF OneWriter, FileSynced, TypeOK, Threads, Idle
    <2> QED BY <2>1, <2>3, <2>4
  <1> QED BY <1>1, <1>2, <1>3 DEF Write

\* The end of the process, in order or not.
LEMMA EndKeeps ==
  ASSUME IInv, Exit \/ Crash
  PROVE  IInv'
  <1>1. /\ saver' = FALSE /\ app' = "closed" /\ queue' = <<>> /\ writer' = "off"
        /\ previous' = {} /\ error' = FALSE /\ file' = file
        /\ hand' = [t \in Threads |-> Idle] /\ UNCHANGED <<state, edits, failures>>
        /\ crashes' \in 0..MaxCrashes
    <2>1. CASE Exit
      BY <2>1 DEF Exit, NoThreads, IInv, TypeOK
    <2>2. CASE Crash
      BY <2>2, Bounds DEF Crash, NoThreads, IInv, TypeOK, FileSynced
    <2> QED BY <2>1, <2>2
  <1> USE <1>1, Bounds, Emptied DEF IInv, Busy, At, Idle, Threads
  <1>2. TypeOK'
    <2>1. queue' \in Seq(Versions) /\ Len(queue') <= Slots
      OBVIOUS
    <2>2. hand' \in [Threads -> Hand]
      BY DEF Hand
    <2> QED BY <2>1, <2>2 DEF TypeOK
  <1>3. SnapshotOrder'
    BY DEF SnapshotOrder
  <1>4. OneWriter' /\ FileSynced'
    BY DEF OneWriter, FileSynced
  <1> QED BY <1>2, <1>3, <1>4

LEMMA StepKeeps == IInv /\ [Next]_vars => IInv'
  <1> SUFFICES ASSUME IInv, [Next]_vars PROVE IInv'
    OBVIOUS
  <1>1. CASE Next
    BY <1>1, InterfaceKeeps, QueueKeeps, WriteKeeps, EndKeeps DEF Next
  <1>2. CASE UNCHANGED vars
    BY <1>2 DEF vars, program, IInv, TypeOK, SnapshotOrder, OneWriter, FileSynced,
       Busy, At
  <1> QED BY <1>1, <1>2

-----------------------------------------------------------------------------
(* The theorems *)

\* The inductive invariant: snapshots are written in the order they were made
\* and by one thread at a time.
THEOREM SaverInvariance == Spec => []IInv
  <1>1. Init => IInv BY InitHolds
  <1>2. IInv /\ [Next]_vars => IInv' BY StepKeeps
  <1> QED BY <1>1, <1>2, PTL DEF Spec

\* Every variable keeps its type, and the snapshot channel its capacity.
THEOREM SaverTypeCorrect == Spec => []TypeOK
  <1>1. IInv => TypeOK BY DEF IInv
  <1> QED BY <1>1, SaverInvariance, PTL

\* After any crash the workspace file is a whole workspace.
THEOREM FileAlwaysWhole == Spec => []FileWhole
  <1>1. IInv => FileWhole BY DEF IInv, FileSynced, FileWhole
  <1> QED BY <1>1, SaverInvariance, PTL

\* No step replaces the workspace in the file by an older one.
THEOREM FileNeverGoesBack == Spec => NeverBackwards
  <1>1. IInv /\ [Next]_vars => [file'.version >= file.version]_file
    <2> SUFFICES ASSUME IInv, Next, file' # file
                 PROVE  file'.version >= file.version
      BY DEF vars
    <2>1. CASE \E t \in Threads : Write(t)
      <3>1. PICK t \in Threads : Rename(t)
        BY <2>1 DEF Write, Fill, Sync
      <3>2. file'.version = hand[t].version /\ file.version <= hand[t].version
        BY <3>1 DEF Rename, IInv, SnapshotOrder, Busy, At
      <3>3. file.version \in Nat /\ hand[t].version \in Nat
        BY <3>1, Bounds DEF IInv, TypeOK, File, Hand
      <3> QED BY <3>2, <3>3
    <2>2. CASE Crash
      BY <2>2 DEF Crash, IInv, FileSynced
    <2> QED
      BY <2>1, <2>2 DEF Next, Launch, LaunchFails, Edit, Autosave, Close, Join,
         Exit, Receive, WriterEnds, WriteFails
  <1> QED BY <1>1, SaverInvariance, PTL DEF Spec, NeverBackwards

\* A viewer with an autosave that exits without a failing write leaves the
\* state in memory in the file.
THEOREM ExitAlwaysSaves == Spec => ExitSaves
  <1>1. IInv /\ [Next]_vars =>
          [app # "exiting" /\ app' = "exiting" /\ saver /\ failures' = failures
             => file'.version = state /\ file'.kind = "durable"]_vars
    <2> SUFFICES ASSUME IInv, Next, app # "exiting", app' = "exiting", saver,
                        failures' = failures
                 PROVE  file'.version = state /\ file'.kind = "durable"
      OBVIOUS
    <2>1. PICK t \in Threads : Write(t) \/ WriteFails(t)
      BY DEF Next, Launch, LaunchFails, Edit, Autosave, Close, Join, Exit,
         Receive, WriterEnds, Crash
    <2>2. Rename(t)
      <3>1. failures # failures + 1
        BY Bounds DEF IInv, TypeOK
      <3> QED BY <2>1, <3>1 DEF Write, Fill, Sync, WriteFails
    <2>3. t = "ui"
      BY <2>2 DEF Rename, Done, Threads
    <2>4. hand["ui"].version = state
      BY <2>2, <2>3 DEF Rename, IInv, OneWriter, Busy, At
    <2> QED BY <2>2, <2>3, <2>4 DEF Rename
  <1> QED BY <1>1, SaverInvariance, PTL DEF Spec, ExitSaves

=============================================================================
