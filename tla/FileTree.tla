------------------------------ MODULE FileTree ------------------------------
(***************************************************************************)
(* The folder tree of the drawing viewer (file_tree.rs).  A thread reads   *)
(* directories for the user interface: requests go to it over a bounded    *)
(* channel, replies come back over an unbounded one.  A refresh, going up  *)
(* or opening a document elsewhere starts a new generation, which forgets  *)
(* what was read and what was asked; answers of an old one are thrown      *)
(* away.                                                                   *)
(*                                                                         *)
(* What a directory holds is abstracted to the moment it was read.  The    *)
(* drawing set, the range selection and the hidden files are left out.     *)
(***************************************************************************)
EXTENDS Naturals, Sequences, FiniteSets

CONSTANTS
  Folders,        \* directories
  Top,            \* the one without a parent
  Parent,         \* the parent of every other one
  Slots,          \* slots of the request channel: sync_channel(32)
  MaxGeneration,  \* bound: refreshes in a behaviour
  MaxTime         \* bound: changes of the disk

ASSUME TreeAssumption ==
  /\ Top \in Folders
  /\ Parent \in [Folders \ {Top} -> Folders]
  /\ Slots \in Nat \ {0} /\ MaxGeneration \in Nat \ {0} /\ MaxTime \in Nat

VARIABLES
  root,        \* FileTree.root
  generation,  \* FileTree.generation, shared with the thread
  entries,     \* FileTree.entries: for each folder read, when it was read
  pending,     \* FileTree.pending: folders asked for
  expanded,    \* open headers of this generation, as egui remembers them
  requests,    \* the request channel
  replies,     \* the reply channel
  reader,      \* the request the thread is at work on, and when it read
  time,        \* changes of the disk so far
  since        \* time of the last refresh

tree == <<root, generation, entries, pending, expanded, since>>
vars == <<tree, requests, replies, reader, time>>

Request == [generation : 1..MaxGeneration, path : Folders]
Reply   == [generation : 1..MaxGeneration, path : Folders, read : 0..MaxTime]

TypeOK ==
  /\ root \in Folders /\ generation \in 1..MaxGeneration
  /\ \E F \in SUBSET Folders : entries \in [F -> 0..MaxTime]
  /\ pending \subseteq Folders /\ expanded \subseteq Folders
  /\ requests \in Seq(Request) /\ Len(requests) <= Slots
  /\ replies \in Seq(Reply)
  /\ reader \in {{}} \cup {{r} : r \in Request \cup Reply}
  /\ time \in 0..MaxTime /\ since \in 0..MaxTime

\* FileTree::new reads nothing yet; set_input starts the first generation.
Init ==
  /\ root \in Folders /\ generation = 1
  /\ entries = <<>> /\ pending = {} /\ expanded = {root}
  /\ requests = <<>> /\ replies = <<>> /\ reader = {}
  /\ time = 0 /\ since = 0

-----------------------------------------------------------------------------
(* The user interface *)

\* A header is drawn when everything above it is open and has been read.
Drawn(f) ==
  LET Above[g \in Folders] ==
        \/ g = root
        \/ g # Top /\ Parent[g] \in expanded /\ Parent[g] \in DOMAIN entries
           /\ Above[Parent[g]]
  IN  Above[f]

\* The body of its header: read, or showing "Reading folder...".
Shown(f) == f \in expanded /\ Drawn(f)

\* Mutant: what was asked for is still taken as asked for.
NewGeneration_KeepsPending(r) ==
  /\ generation < MaxGeneration
  /\ root' = r
  /\ generation' = generation + 1
  /\ entries' = <<>> /\ expanded' = {r} /\ since' = time
  /\ UNCHANGED pending

\* refresh: headers are named after their generation, so all close but the
\* root's, which is open by default.
NewGeneration(r) ==
  /\ generation < MaxGeneration
  /\ root' = r
  /\ generation' = generation + 1
  /\ entries' = <<>> /\ pending' = {} /\ expanded' = {r} /\ since' = time

Refresh ==
  /\ NewGeneration(root)
  /\ UNCHANGED <<requests, replies, reader, time>>

Up ==
  /\ root # Top
  /\ NewGeneration(Parent[root])
  /\ UNCHANGED <<requests, replies, reader, time>>

\* A document is opened in folder r.
SetInput(r) ==
  /\ NewGeneration(r)
  /\ UNCHANGED <<requests, replies, reader, time>>

Toggle(f) ==
  /\ Drawn(f)
  /\ expanded' = IF f \in expanded THEN expanded \ {f} ELSE expanded \cup {f}
  /\ UNCHANGED <<root, generation, entries, pending, since, requests, replies,
                 reader, time>>

\* Mutant: a request that found the channel full counts as sent.
Ask_AlwaysPending(f) ==
  /\ Shown(f)
  /\ f \notin DOMAIN entries \cup pending
  /\ requests' = IF Len(requests) < Slots
                 THEN Append(requests, [generation |-> generation, path |-> f])
                 ELSE requests
  /\ pending' = pending \cup {f}
  /\ UNCHANGED <<root, generation, entries, expanded, since, replies, reader, time>>

\* request, for an open folder that is drawn: tried again in the next frame
\* when the channel is full.
Ask(f) ==
  /\ Shown(f)
  /\ f \notin DOMAIN entries \cup pending
  /\ Len(requests) < Slots
  /\ requests' = Append(requests, [generation |-> generation, path |-> f])
  /\ pending' = pending \cup {f}
  /\ UNCHANGED <<root, generation, entries, expanded, since, replies, reader, time>>

Learn(reply) ==
  /\ entries' = [f \in DOMAIN entries \cup {reply.path} |->
                   IF f = reply.path THEN reply.read ELSE entries[f]]
  /\ pending' = pending \ {reply.path}

\* Mutant: answers of every generation are taken.
Take_AnyGeneration ==
  /\ replies # <<>>
  /\ replies' = Tail(replies)
  /\ Learn(Head(replies))
  /\ UNCHANGED <<root, generation, expanded, since, requests, reader, time>>

\* One round of the draining loop: an answer of an old generation is dropped.
Take ==
  /\ replies # <<>>
  /\ replies' = Tail(replies)
  /\ IF Head(replies).generation = generation
     THEN Learn(Head(replies))
     ELSE UNCHANGED <<entries, pending>>
  /\ UNCHANGED <<root, generation, expanded, since, requests, reader, time>>

-----------------------------------------------------------------------------
(* The reading thread *)

\* A request of an old generation is skipped, unless the relaxed load still
\* returns that generation; the channel makes a current one visible.
Skip ==
  /\ reader = {} /\ requests # <<>>
  /\ Head(requests).generation # generation
  /\ requests' = Tail(requests)
  /\ UNCHANGED <<tree, replies, reader, time>>

Begin ==
  /\ reader = {} /\ requests # <<>>
  /\ reader' = {Head(requests)}
  /\ requests' = Tail(requests)
  /\ UNCHANGED <<tree, replies, time>>

\* read_directory, whether it succeeds or not.
ReadDirectory ==
  /\ \E r \in reader :
       /\ r \in Request
       /\ reader' = {[generation |-> r.generation, path |-> r.path, read |-> time]}
  /\ UNCHANGED <<tree, requests, replies, time>>

Answer ==
  /\ \E r \in reader : r \in Reply /\ replies' = Append(replies, r)
  /\ reader' = {}
  /\ UNCHANGED <<tree, requests, time>>

Reader == Skip \/ Begin \/ ReadDirectory \/ Answer

\* Other programs change the disk.
Change ==
  /\ time < MaxTime
  /\ time' = time + 1
  /\ UNCHANGED <<tree, requests, replies, reader>>

-----------------------------------------------------------------------------

Next ==
  \/ Refresh \/ Up \/ Take \/ Reader \/ Change
  \/ \E f \in Folders : SetInput(f) \/ Toggle(f) \/ Ask(f)

\* Every frame drains the replies and asks for every folder it shows; the
\* thread loops for ever and reading a directory ends.
Fairness ==
  /\ WF_vars(Take) /\ WF_vars(Reader)
  /\ \A f \in Folders : WF_vars(Ask(f))

Spec == Init /\ [][Next]_vars
FairSpec == Spec /\ Fairness

-----------------------------------------------------------------------------
(* Properties *)

\* file_tree.rs:212: what is shown was read after the last refresh, however
\* many reads of earlier generations were queued, at work or answered then.
ShownIsFresh == \A f \in DOMAIN entries : entries[f] >= since

\* Every folder that shows "Reading folder..." because it was asked for has
\* exactly one request, read or answer of this generation under way: none is
\* forgotten for ever and no directory is read twice.
UnderWay(f) ==
  LET mine(r) == r.generation = generation /\ r.path = f
  IN  Cardinality({i \in DOMAIN requests : mine(requests[i])})
      + Cardinality({r \in reader : mine(r)})
      + Cardinality({i \in DOMAIN replies : mine(replies[i])})

PendingIsUnderWay ==
  \A f \in Folders : UnderWay(f) = IF f \in pending THEN 1 ELSE 0

\* An open folder does not stay on "Reading folder...", though its request may
\* have found the channel full of others, or of an earlier generation's.
FolderIsRead ==
  \A f \in Folders : Shown(f) ~> (f \in DOMAIN entries \/ ~Shown(f))

=============================================================================
