--------------------------- MODULE WorkspaceSaver ---------------------------
(***************************************************************************)
(* The autosave of the drawing viewer (workspace.rs, and its callers in    *)
(* capture.rs).  Once a second the user interface offers a snapshot to a   *)
(* writer thread over a channel of one slot; the writer skips what it      *)
(* wrote last and replaces the workspace file atomically (viewer.rs,       *)
(* atomic_export).  On normal exit the user interface joins the writer and *)
(* writes the latest state itself.  The program can crash between any two  *)
(* steps and be launched again.                                            *)
(*                                                                         *)
(* A workspace is the number of the edit that made it: 0 is the empty one, *)
(* and every edit makes a state never seen before.  The temporary files a  *)
(* crash leaves behind are not modelled: nothing reads them.               *)
(***************************************************************************)
EXTENDS Naturals, Sequences

CONSTANTS
  Slots,       \* slots of the snapshot channel: sync_channel(1)
  MaxEdits,    \* bound: edits in a behaviour
  MaxFailures, \* bound: failing reads and writes
  MaxCrashes   \* bound: crashes

ASSUME SaverAssumption ==
  /\ Slots \in Nat \ {0}
  /\ MaxEdits \in Nat /\ MaxFailures \in Nat /\ MaxCrashes \in Nat

VARIABLES
  app,       \* closed, running, joining (in finish), flushing, exiting
  saver,     \* Capture.autosaver is Some
  state,     \* the workspace in memory
  edits,     \* edits so far, over all launches
  queue,     \* snapshots on their way to the writer
  writer,    \* the writer thread: where it is
  hand,      \* for each writing thread: the write it is in, and its step
  previous,  \* the writer's digest of what it wrote last (an option)
  error,     \* Saver.error: a failure the user has not been told yet
  file,      \* the workspace file
  failures, crashes

program == <<app, saver, state, queue, writer, hand, previous, error>>
vars == <<program, edits, file, failures, crashes>>

Versions == 0..MaxEdits
Threads  == {"writer", "ui"}

\* none: no write under way.  begin: the temporary file is about to be made.
\* written: its bytes are with the operating system.  synced: on the disk.
Hand == [step : {"none", "begin", "written", "synced"}, version : Versions]

\* A file that was not synced before it took the name can be torn by a crash.
File == [version : Versions, kind : {"missing", "durable", "volatile", "torn"}]

TypeOK ==
  /\ app \in {"closed", "running", "joining", "flushing", "exiting"}
  /\ saver \in BOOLEAN
  /\ state \in Versions /\ edits \in Versions
  /\ queue \in Seq(Versions) /\ Len(queue) <= Slots
  /\ writer \in {"off", "waiting", "writing"}
  /\ hand \in [Threads -> Hand]
  /\ previous \in {{}} \cup {{v} : v \in Versions}
  /\ error \in BOOLEAN
  /\ file \in File
  /\ failures \in 0..MaxFailures /\ crashes \in 0..MaxCrashes

Idle == [step |-> "none", version |-> 0]

NoThreads ==
  /\ queue' = <<>> /\ writer' = "off" /\ previous' = {} /\ error' = FALSE
  /\ hand' = [t \in Threads |-> Idle]

Init ==
  /\ app = "closed" /\ saver = FALSE /\ state = 0 /\ edits = 0
  /\ queue = <<>> /\ writer = "off" /\ previous = {} /\ error = FALSE
  /\ hand = [t \in Threads |-> Idle]
  /\ file = [version |-> 0, kind |-> "missing"]
  /\ failures = 0 /\ crashes = 0

-----------------------------------------------------------------------------
(* The user interface *)

\* Saver::new: an empty channel and a writer that has written nothing.
NewSaver ==
  /\ saver' = TRUE
  /\ writer' = "waiting"
  /\ UNCHANGED <<queue, previous, error, hand>>

\* enable_workspace: no file starts an empty workspace, a whole one is restored.
Launch ==
  /\ app = "closed"
  /\ file.kind # "torn"
  /\ app' = "running"
  /\ state' = IF file.kind = "missing" THEN 0 ELSE file.version
  /\ NewSaver
  /\ UNCHANGED <<edits, file, failures, crashes>>

\* A file that cannot be read, is too big, or is not a valid workspace: the
\* viewer starts empty, and nothing is saved until it is launched again.
LaunchFails ==
  /\ app = "closed"
  /\ file.kind # "missing" /\ failures < MaxFailures
  /\ app' = "running"
  /\ state' = 0
  /\ failures' = failures + 1
  /\ UNCHANGED <<saver, queue, writer, hand, previous, error, edits, file, crashes>>

\* Anything the user or a capture job changes in the workspace.
Edit ==
  /\ app = "running" /\ edits < MaxEdits
  /\ edits' = edits + 1
  /\ state' = edits'
  /\ UNCHANGED <<app, saver, queue, writer, hand, previous, error, file,
                 failures, crashes>>

\* autosave_workspace, once a second: a snapshot that finds the channel full
\* is dropped.  A failure the writer left is told to the user.
Autosave ==
  /\ app = "running" /\ saver
  /\ queue' = IF Len(queue) < Slots THEN Append(queue, state) ELSE queue
  /\ error' = FALSE
  /\ UNCHANGED <<app, saver, state, edits, writer, hand, previous, file,
                 failures, crashes>>

\* finish drops the sender and waits for the writer.
Close ==
  /\ app = "running"
  /\ app' = IF saver THEN "joining" ELSE "exiting"
  /\ UNCHANGED <<saver, state, queue, writer, hand, previous, error, edits,
                 file, failures, crashes>>

\* Mutant: finish does not wait for the writer.
Join_Skipped ==
  /\ app = "joining"
  /\ app' = "flushing"
  /\ hand' = [hand EXCEPT !["ui"] = [step |-> "begin", version |-> state]]
  /\ UNCHANGED <<saver, state, queue, writer, previous, error, edits, file,
                 failures, crashes>>

\* Mutant: once the writer has gone there is nothing left to write.
Join_NoFlush ==
  /\ app = "joining" /\ writer = "off"
  /\ app' = "exiting"
  /\ UNCHANGED <<saver, state, queue, writer, hand, previous, error, edits,
                 file, failures, crashes>>

\* The writer has been joined: the latest state is written by this thread,
\* whether or not it was written before.
Join ==
  /\ app = "joining" /\ writer = "off"
  /\ app' = "flushing"
  /\ hand' = [hand EXCEPT !["ui"] = [step |-> "begin", version |-> state]]
  /\ UNCHANGED <<saver, state, queue, writer, previous, error, edits, file,
                 failures, crashes>>

\* The process ends; its threads end with it.
Exit ==
  /\ app = "exiting"
  /\ app' = "closed" /\ saver' = FALSE
  /\ NoThreads
  /\ UNCHANGED <<state, edits, file, failures, crashes>>

-----------------------------------------------------------------------------
(* The writer thread *)

\* Mutant: the digest is remembered before the write has succeeded.
Receive_Remembers ==
  /\ writer = "waiting" /\ queue # <<>>
  /\ queue' = Tail(queue)
  /\ previous' = {Head(queue)}
  /\ IF Head(queue) \in previous
     THEN UNCHANGED <<writer, hand>>
     ELSE /\ writer' = "writing"
          /\ hand' = [hand EXCEPT !["writer"] = [step |-> "begin",
                                                 version |-> Head(queue)]]
  /\ UNCHANGED <<app, saver, state, error, edits, file, failures, crashes>>

\* rx.recv: a state equal to the last one written is skipped.
Receive ==
  /\ writer = "waiting" /\ queue # <<>>
  /\ queue' = Tail(queue)
  /\ IF Head(queue) \in previous
     THEN UNCHANGED <<writer, hand>>
     ELSE /\ writer' = "writing"
          /\ hand' = [hand EXCEPT !["writer"] = [step |-> "begin",
                                                 version |-> Head(queue)]]
  /\ UNCHANGED <<app, saver, state, previous, error, edits, file, failures,
                 crashes>>

\* The sender is gone and the channel empty: the thread ends.
WriterEnds ==
  /\ writer = "waiting" /\ queue = <<>> /\ app \in {"joining", "flushing", "exiting"}
  /\ writer' = "off"
  /\ UNCHANGED <<app, saver, state, queue, hand, previous, error, edits, file,
                 failures, crashes>>

-----------------------------------------------------------------------------
(* atomic_export, in whichever thread calls it *)

At(t, step) == hand[t].step = step

\* What follows a write that succeeded (ok) or failed.
Done(t, ok) ==
  /\ hand' = [hand EXCEPT ![t] = Idle]
  /\ IF t = "writer"
     THEN /\ writer' = "waiting"
          /\ previous' = IF ok THEN {hand[t].version} ELSE previous
          /\ error' = (error \/ ~ok)
          /\ UNCHANGED app
     ELSE /\ app' = "exiting"
          /\ UNCHANGED <<writer, previous, error>>

\* create_new and write_all of a temporary file beside the target.
Fill(t) ==
  /\ At(t, "begin")
  /\ hand' = [hand EXCEPT ![t].step = "written"]
  /\ UNCHANGED <<app, saver, state, queue, writer, previous, error, edits,
                 file, failures, crashes>>

Sync(t) ==
  /\ At(t, "written")
  /\ hand' = [hand EXCEPT ![t].step = "synced"]
  /\ UNCHANGED <<app, saver, state, queue, writer, previous, error, edits,
                 file, failures, crashes>>

\* Mutant: sync_all is left out.
Rename_Unsynced(t) ==
  /\ hand[t].step \in {"written", "synced"}
  /\ file' = [version |-> hand[t].version,
              kind |-> IF At(t, "synced") THEN "durable" ELSE "volatile"]
  /\ Done(t, TRUE)
  /\ UNCHANGED <<saver, state, queue, edits, failures, crashes>>

\* The rename replaces the workspace file at once.
Rename(t) ==
  /\ At(t, "synced")
  /\ file' = [version |-> hand[t].version, kind |-> "durable"]
  /\ Done(t, TRUE)
  /\ UNCHANGED <<saver, state, queue, edits, failures, crashes>>

\* Any step may fail (a full disk, a workspace over 64 MiB): the temporary
\* file is removed and the workspace file left as it was.
WriteFails(t) ==
  /\ ~At(t, "none") /\ failures < MaxFailures
  /\ failures' = failures + 1
  /\ Done(t, FALSE)
  /\ UNCHANGED <<saver, state, queue, edits, file, crashes>>

Write(t) == Fill(t) \/ Sync(t) \/ Rename(t)

\* A crash or a power failure between any two steps.
Crash ==
  /\ app # "closed" /\ crashes < MaxCrashes
  /\ crashes' = crashes + 1
  /\ app' = "closed" /\ saver' = FALSE
  /\ NoThreads
  /\ file' = IF file.kind = "volatile" THEN [file EXCEPT !.kind = "torn"] ELSE file
  /\ UNCHANGED <<state, edits, failures>>

-----------------------------------------------------------------------------

Next ==
  \/ Launch \/ LaunchFails \/ Edit \/ Autosave \/ Close \/ Join \/ Exit
  \/ Receive \/ WriterEnds
  \/ \E t \in Threads : Write(t) \/ WriteFails(t)
  \/ Crash

\* The interface redraws at least every 16 ms, so the autosave of every second
\* happens; closing runs to its end; the writer waits for nothing but its
\* channel; file operations end.  Nobody has to launch, edit or close.
Fairness ==
  /\ WF_vars(Autosave) /\ WF_vars(Join) /\ WF_vars(Exit)
  /\ WF_vars(Receive) /\ WF_vars(WriterEnds)
  /\ \A t \in Threads : WF_vars(Write(t))

Spec == Init /\ [][Next]_vars
FairSpec == Spec /\ Fairness

-----------------------------------------------------------------------------
(* Properties *)

\* README "writes atomically": whenever the program or the machine goes down,
\* what the next launch finds is a whole workspace.
FileWhole == file.kind # "torn"

\* README "A failed/corrupt load is reported and does not overwrite the saved
\* workspace", and what the order of finish is for: across dropped and queued
\* snapshots, the final write, failures, crashes and failed loads, an older or
\* an empty workspace never replaces a newer one.
NeverBackwards == [][file'.version >= file.version]_file

\* README "flushes the latest state on normal exit": unless a write failed, a
\* viewer with an autosave leaves the state the user last saw in the file,
\* though the last snapshots may have been dropped, queued or half written.
ExitSaves ==
  [][app # "exiting" /\ app' = "exiting" /\ saver /\ failures' = failures
       => file'.version = state /\ file'.kind = "durable"]_vars

\* A snapshot the channel dropped or a write that failed is not the end of it:
\* once the user pauses, the latest state reaches the disk within the
\* session, however many writes failed before.
LatestSaved ==
  <>[](app = "running" /\ saver => file.version = state)

=============================================================================
