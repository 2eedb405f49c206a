--------------------------- MODULE FileTreeProofs ---------------------------
(***************************************************************************)
(* Proofs about the folder tree: for any folders, any number of refreshes  *)
(* and changes of the disk, what the tree shows was read since the last    *)
(* refresh; and a folder that was asked for has exactly one request, read  *)
(* or answer under way, one that was not has none.                         *)
(***************************************************************************)
EXTENDS FileTree, TLAPS, FiniteSetTheorems, FunctionTheorems

-----------------------------------------------------------------------------
(* Channels *)

\* What is in a channel after something was put into it was there or is new.
LEMMA Sent ==
  ASSUME NEW S, NEW q \in Seq(S), NEW v \in S
  PROVE  /\ Append(q, v) \in Seq(S) /\ Len(Append(q, v)) = Len(q) + 1
         /\ \A i \in DOMAIN Append(q, v) :
              \/ i \in DOMAIN q /\ Append(q, v)[i] = q[i]
              \/ Append(q, v)[i] = v
  <1> DEFINE a == Append(q, v)
  <1>1. /\ a \in Seq(S) /\ Len(a) = Len(q) + 1
        /\ DOMAIN q = 1..Len(q) /\ Len(q) \in Nat
        /\ DOMAIN a = 1..(Len(q) + 1)
    OBVIOUS
  <1>2. (\A i \in 1..Len(q) : a[i] = q[i]) /\ a[Len(q) + 1] = v
    OBVIOUS
  <1> HIDE DEF a
  <1>3. ASSUME NEW i \in DOMAIN a
        PROVE  \/ i \in DOMAIN q /\ a[i] = q[i]
               \/ a[i] = v
    <2>1. CASE i \in 1..Len(q)
      BY <2>1, <1>1, <1>2
    <2>2. CASE i = Len(q) + 1
      BY <2>2, <1>2
    <2> QED BY <2>1, <2>2, <1>1
  <1> QED BY <1>1, <1>3 DEF a

\* What is in a channel after something was taken out was there before.
LEMMA Received ==
  ASSUME NEW S, NEW q \in Seq(S), q # <<>>
  PROVE  /\ Tail(q) \in Seq(S) /\ Len(Tail(q)) = Len(q) - 1 /\ Len(q) \in Nat
         /\ Head(q) = q[1] /\ 1 \in DOMAIN q /\ Head(q) \in S
         /\ \A i \in DOMAIN Tail(q) : i + 1 \in DOMAIN q /\ Tail(q)[i] = q[i + 1]
  OBVIOUS

\* What a channel holds.
LEMMA Held ==
  ASSUME NEW S, NEW q \in Seq(S)
  PROVE  \A i \in DOMAIN q : q[i] \in S
  OBVIOUS

\* An empty channel.
LEMMA Emptied ==
  ASSUME NEW S
  PROVE  <<>> \in Seq(S) /\ Len(<<>>) = 0 /\ DOMAIN <<>> = {}
  OBVIOUS

\* A request is not a reply: it does not tell of a read.
LEMMA Distinct ==
  ASSUME NEW r \in Request
  PROVE  r \notin Reply
  <1>1. DOMAIN r = {"generation", "path"}
    BY DEF Request
  <1>2. \A a \in Reply : DOMAIN a = {"generation", "path", "read"}
    BY DEF Reply
  <1>3. "read" \in {"generation", "path", "read"} /\ "read" \notin {"generation", "path"}
    OBVIOUS
  <1> QED BY <1>1, <1>2, <1>3

-----------------------------------------------------------------------------
(* The inductive invariant *)

\* A reply of the current generation tells of a read since the last refresh,
\* and no reply is of a generation yet to come.
FreshReply(r) ==
  /\ r.generation <= generation
  /\ r.generation = generation => r.read >= since

RepliesAreFresh ==
  /\ \A i \in DOMAIN requests : requests[i].generation <= generation
  /\ \A r \in reader : r.generation <= generation
  /\ \A r \in reader : r \in Reply => FreshReply(r)
  /\ \A i \in DOMAIN replies : FreshReply(replies[i])
  /\ since <= time

IInv == TypeOK /\ RepliesAreFresh /\ ShownIsFresh

LEMMA Bounds ==
  /\ MaxGeneration \in Nat \ {0} /\ MaxTime \in Nat /\ Slots \in Nat \ {0}
  /\ Top \in Folders /\ Parent \in [Folders \ {Top} -> Folders]
  BY TreeAssumption

\* A new generation makes every message an old one and forgets every folder.
LEMMA NewGenerationKeeps ==
  ASSUME IInv, NEW r \in Folders, NewGeneration(r),
         UNCHANGED <<requests, replies, reader, time>>
  PROVE  IInv'
  <1> USE Bounds DEF NewGeneration
  <1>1. /\ generation \in Nat /\ generation' = generation + 1
        /\ generation' \in 1..MaxGeneration /\ since' \in 0..MaxTime
    BY DEF IInv, TypeOK
  <1>2. entries' = <<>> /\ DOMAIN entries' = {}
    OBVIOUS
  <1>3. \E F \in SUBSET Folders : entries' \in [F -> 0..MaxTime]
    <2>1. entries' \in [{} -> 0..MaxTime]
      BY <1>2
    <2> QED BY <2>1
  <1>4. TypeOK'
    BY <1>1, <1>3 DEF IInv, TypeOK
  <1>5. ShownIsFresh'
    BY <1>2 DEF ShownIsFresh
  <1>6. ASSUME NEW g \in 1..MaxGeneration, g <= generation
        PROVE  g <= generation' /\ g # generation'
    BY <1>1, <1>6
  <1>7. \A i \in DOMAIN replies : replies[i].generation \in 1..MaxGeneration
    <2>1. \A i \in DOMAIN replies : replies[i] \in Reply
      BY Held DEF IInv, TypeOK
    <2> QED BY <2>1 DEF Reply
  <1>8. \A i \in DOMAIN requests : requests[i].generation \in 1..MaxGeneration
    <2>1. \A i \in DOMAIN requests : requests[i] \in Request
      BY Held DEF IInv, TypeOK
    <2> QED BY <2>1 DEF Request
  <1>9. \A q \in reader : q.generation \in 1..MaxGeneration
    BY DEF IInv, TypeOK, Request, Reply
  <1>10. RepliesAreFresh'
    <2>1. since' <= time'
      BY DEF IInv, TypeOK
    <2> QED BY <1>6, <1>7, <1>8, <1>9, <2>1 DEF IInv, RepliesAreFresh, FreshReply
  <1> QED BY <1>4, <1>5, <1>10 DEF IInv

\* A request is of the current generation.
LEMMA AskKeeps ==
  ASSUME IInv, NEW f \in Folders, Ask(f)
  PROVE  IInv'
  <1> USE Bounds DEF Ask
  <1> DEFINE r == [generation |-> generation, path |-> f]
  <1>1. requests \in Seq(Request) /\ requests' = Append(requests, r) /\ r \in Request
        /\ generation \in Nat /\ r.generation = generation
    BY DEF IInv, TypeOK, Request
  <1> HIDE DEF r
  <1>2. /\ requests' \in Seq(Request) /\ Len(requests') = Len(requests) + 1
        /\ \A i \in DOMAIN requests' :
             \/ i \in DOMAIN requests /\ requests'[i] = requests[i]
             \/ requests'[i] = r
    BY <1>1, Sent
  <1>3. Len(requests') <= Slots
    BY <1>1, <1>2
  <1>4. TypeOK'
    BY <1>2, <1>3 DEF IInv, TypeOK
  <1>5. RepliesAreFresh' /\ ShownIsFresh'
    BY <1>1, <1>2 DEF IInv, RepliesAreFresh, FreshReply, ShownIsFresh
  <1> QED BY <1>4, <1>5 DEF IInv

\* A reply is learnt only when it is of the current generation.
LEMMA TakeKeeps ==
  ASSUME IInv, Take
  PROVE  IInv'
  <1> USE Bounds DEF Take
  <1> DEFINE r == Head(replies)
  <1>1. /\ replies \in Seq(Reply) /\ replies # <<>> /\ replies' = Tail(replies)
    BY DEF IInv, TypeOK
  <1>2. /\ replies' \in Seq(Reply) /\ r \in Reply /\ r = replies[1]
        /\ 1 \in DOMAIN replies
        /\ \A i \in DOMAIN replies' :
             i + 1 \in DOMAIN replies /\ replies'[i] = replies[i + 1]
    BY <1>1, Received
  <1>3. r.path \in Folders /\ r.read \in 0..MaxTime /\ FreshReply(r)
    BY <1>2 DEF Reply, IInv, RepliesAreFresh
  <1>4. RepliesAreFresh'
    BY <1>2 DEF IInv, RepliesAreFresh, FreshReply
  <1>5. CASE r.generation = generation
    <2>1. /\ entries' = [f \in DOMAIN entries \cup {r.path} |->
                           IF f = r.path THEN r.read ELSE entries[f]]
          /\ pending' = pending \ {r.path}
      BY <1>5 DEF Learn
    <2>2. PICK F \in SUBSET Folders : entries \in [F -> 0..MaxTime]
      BY DEF IInv, TypeOK
    <2> HIDE DEF r
    <2>3. entries' \in [F \cup {r.path} -> 0..MaxTime]
      BY <2>1, <2>2, <1>3
    <2>4. F \cup {r.path} \in SUBSET Folders /\ pending' \subseteq Folders
      BY <2>1, <1>3 DEF IInv, TypeOK
    <2>5. TypeOK'
      BY <2>3, <2>4, <1>2 DEF IInv, TypeOK
    <2>6. r.read >= since
      BY <1>3, <1>5 DEF FreshReply
    <2>7. ShownIsFresh'
      BY <2>1, <2>6 DEF IInv, ShownIsFresh
    <2> QED BY <2>5, <2>7, <1>4 DEF IInv
  <1>6. CASE r.generation # generation
    <2>1. UNCHANGED <<entries, pending>>
      BY <1>6
    <2> HIDE DEF r
    <2>2. TypeOK' /\ ShownIsFresh'
      BY <2>1, <1>2 DEF IInv, TypeOK, ShownIsFresh
    <2> QED BY <2>2, <1>4 DEF IInv
  <1> QED BY <1>5, <1>6

\* The reading thread: a read happens now, and now is not before the refresh.
LEMMA ReaderKeeps ==
  ASSUME IInv, Reader
  PROVE  IInv'
  <1> USE Bounds
  <1>1. CASE Skip \/ Begin
    <2>1. /\ requests \in Seq(Request) /\ requests # <<>>
          /\ requests' = Tail(requests)
          /\ UNCHANGED <<tree, replies, time>>
          /\ reader' = reader \/ reader' = {Head(requests)}
      BY <1>1 DEF Skip, Begin, IInv, TypeOK
    <2>2. /\ requests' \in Seq(Request) /\ Head(requests) \in Request
          /\ Head(requests) = requests[1] /\ 1 \in DOMAIN requests
          /\ Len(requests') <= Len(requests)
          /\ \A i \in DOMAIN requests' :
               i + 1 \in DOMAIN requests /\ requests'[i] = requests[i + 1]
      BY <2>1, Received
    <2>3. TypeOK'
      <3>1. Len(requests') <= Slots
        BY <2>1, <2>2 DEF IInv, TypeOK
      <3>2. reader' \in {{}} \cup {{r} : r \in Request \cup Reply}
        BY <2>1, <2>2 DEF IInv, TypeOK
      <3> QED BY <2>1, <2>2, <3>1, <3>2 DEF IInv, TypeOK, tree
    <2>4. Head(requests) \notin Reply
      BY <2>2, Distinct
    <2>5. RepliesAreFresh' /\ ShownIsFresh'
      BY <2>1, <2>2, <2>4 DEF IInv, RepliesAreFresh, FreshReply, ShownIsFresh, tree
    <2> QED BY <2>3, <2>5 DEF IInv
  <1>2. CASE ReadDirectory
    <2>1. PICK r \in reader :
            /\ r \in Request
            /\ reader' = {[generation |-> r.generation, path |-> r.path, read |-> time]}
      BY <1>2 DEF ReadDirectory
    <2> DEFINE a == [generation |-> r.generation, path |-> r.path, read |-> time]
    <2>2. a \in Reply /\ a.generation = r.generation /\ a.read = time
      BY <2>1 DEF Request, Reply, IInv, TypeOK
    <2>3. since <= time /\ since \in Nat /\ time \in Nat /\ r.generation <= generation
      BY <2>1 DEF IInv, TypeOK, RepliesAreFresh
    <2> HIDE DEF a
    <2>4. reader' = {a} /\ UNCHANGED <<tree, requests, replies, time>>
      BY <2>1, <1>2 DEF a, ReadDirectory
    <2>5. TypeOK'
      BY <2>2, <2>4 DEF IInv, TypeOK, tree
    <2>6. RepliesAreFresh' /\ ShownIsFresh'
      BY <2>2, <2>3, <2>4 DEF IInv, RepliesAreFresh, FreshReply, ShownIsFresh, tree
    <2> QED BY <2>5, <2>6 DEF IInv
  <1>3. CASE Answer
    <2>1. PICK r \in reader : r \in Reply /\ replies' = Append(replies, r)
      BY <1>3 DEF Answer
    <2>2. /\ replies' \in Seq(Reply)
          /\ \A i \in DOMAIN replies' :
               \/ i \in DOMAIN replies /\ replies'[i] = replies[i]
               \/ replies'[i] = r
      BY <2>1, Sent DEF IInv, TypeOK
    <2>3. FreshReply(r)
      BY <2>1 DEF IInv, RepliesAreFresh
    <2>4. TypeOK'
      BY <1>3, <2>2 DEF Answer, IInv, TypeOK, tree
    <2>5. RepliesAreFresh' /\ ShownIsFresh'
      BY <1>3, <2>2, <2>3 DEF Answer, IInv, RepliesAreFresh, FreshReply, ShownIsFresh, tree
    <2> QED BY <2>4, <2>5 DEF IInv
  <1> QED BY <1>1, <1>2, <1>3 DEF Reader

LEMMA InitHolds == Init => IInv
  <1> SUFFICES ASSUME Init PROVE IInv
    OBVIOUS
  <1> USE Bounds DEF Init
  <1>1. entries \in [{} -> 0..MaxTime] /\ DOMAIN entries = {}
    OBVIOUS
  <1>2. /\ requests \in Seq(Request) /\ Len(requests) <= Slots /\ replies \in Seq(Reply)
        /\ DOMAIN requests = {} /\ DOMAIN replies = {}
    BY Emptied
  <1>3. TypeOK
    <2>1. \E F \in SUBSET Folders : entries \in [F -> 0..MaxTime]
      BY <1>1
    <2>2. root \in Folders /\ pending \subseteq Folders /\ expanded \subseteq Folders
      OBVIOUS
    <2>3. generation \in 1..MaxGeneration /\ time \in 0..MaxTime /\ since \in 0..MaxTime
      OBVIOUS
    <2>4. reader \in {{}} \cup {{r} : r \in Request \cup Reply}
      OBVIOUS
    <2> QED BY <1>2, <2>1, <2>2, <2>3, <2>4 DEF TypeOK
  <1>4. RepliesAreFresh /\ ShownIsFresh
    BY <1>1, <1>2, Bounds DEF RepliesAreFresh, ShownIsFresh
  <1> QED BY <1>3, <1>4 DEF IInv

LEMMA StepKeeps == IInv /\ [Next]_vars => IInv'
  <1> SUFFICES ASSUME IInv, [Next]_vars PROVE IInv'
    OBVIOUS
  <1>1. CASE Refresh
    BY <1>1, NewGenerationKeeps DEF Refresh, IInv, TypeOK
  <1>2. CASE Up
    <2>1. Parent[root] \in Folders
      BY <1>2, Bounds DEF Up, IInv, TypeOK
    <2> QED BY <1>2, <2>1, NewGenerationKeeps DEF Up
  <1>3. ASSUME NEW f \in Folders, SetInput(f) PROVE IInv'
    BY <1>3, NewGenerationKeeps DEF SetInput
  <1>4. ASSUME NEW f \in Folders, Toggle(f) PROVE IInv'
    <2>1. expanded' \subseteq Folders
      BY <1>4 DEF Toggle, IInv, TypeOK
    <2> QED BY <1>4, <2>1 DEF Toggle, IInv, TypeOK, RepliesAreFresh, FreshReply,
          ShownIsFresh
  <1>5. CASE Change
    <2>1. time \in Nat /\ time' = time + 1 /\ time' \in 0..MaxTime /\ since \in Nat
      BY <1>5, Bounds DEF Change, IInv, TypeOK
    <2>2. TypeOK'
      BY <1>5, <2>1 DEF Change, IInv, TypeOK, tree
    <2>3. RepliesAreFresh' /\ ShownIsFresh'
      BY <1>5, <2>1 DEF Change, IInv, RepliesAreFresh, FreshReply, ShownIsFresh, tree
    <2> QED BY <2>2, <2>3 DEF IInv
  <1>6. CASE UNCHANGED vars
    BY <1>6 DEF vars, tree, IInv, TypeOK, RepliesAreFresh, FreshReply, ShownIsFresh
  <1> QED BY <1>1, <1>2, <1>3, <1>4, <1>5, <1>6, AskKeeps, TakeKeeps, ReaderKeeps
        DEF Next

-----------------------------------------------------------------------------
(* The theorems *)

\* The inductive invariant: messages of the current generation are fresh.
THEOREM TreeInvariance == Spec => []IInv
  <1>1. Init => IInv BY InitHolds
  <1>2. IInv /\ [Next]_vars => IInv' BY StepKeeps
  <1> QED BY <1>1, <1>2, PTL DEF Spec

\* What the tree shows was read since the last refresh.
THEOREM ShownAlwaysFresh == Spec => []ShownIsFresh
  <1>1. IInv => ShownIsFresh BY DEF IInv
  <1> QED BY <1>1, TreeInvariance, PTL

\* Every variable keeps its type, and the request channel its capacity.
THEOREM TreeTypeCorrect == Spec => []TypeOK
  <1>1. IInv => TypeOK BY DEF IInv
  <1> QED BY <1>1, TreeInvariance, PTL

-----------------------------------------------------------------------------
(* Counting messages *)

\* A message of generation g about folder f.
Of(r, g, f) == r.generation = g /\ r.path = f

\* Where such messages are in a channel, and in the thread's hand.
Queued(q, g, f) == {i \in DOMAIN q : Of(q[i], g, f)}
InHand(o, g, f) == {r \in o : Of(r, g, f)}

One(b) == IF b THEN 1 ELSE 0

LEMMA QueuedFinite ==
  ASSUME NEW S, NEW q \in Seq(S), NEW g, NEW f
  PROVE  IsFiniteSet(Queued(q, g, f)) /\ Cardinality(Queued(q, g, f)) \in Nat
  <1>1. DOMAIN q = 1..Len(q) /\ Len(q) \in Nat
    OBVIOUS
  <1>2. IsFiniteSet(1..Len(q))
    BY <1>1, FS_Interval
  <1>3. Queued(q, g, f) \in SUBSET (1..Len(q))
    BY <1>1 DEF Queued
  <1> QED BY <1>2, <1>3, FS_Subset, FS_CardinalityType

\* Putting a message in adds it.
LEMMA QueuedAppend ==
  ASSUME NEW S, NEW q \in Seq(S), NEW v \in S, NEW g, NEW f
  PROVE  Cardinality(Queued(Append(q, v), g, f))
           = Cardinality(Queued(q, g, f)) + One(Of(v, g, f))
  <1> DEFINE a == Append(q, v)
             n == Len(q) + 1
  <1>1. /\ DOMAIN q = 1..Len(q) /\ Len(q) \in Nat /\ DOMAIN a = 1..n
        /\ \A i \in 1..Len(q) : a[i] = q[i]
        /\ a[n] = v
    OBVIOUS
  <1> HIDE DEF a
  <1>2. n \notin Queued(q, g, f) /\ 1..n = (1..Len(q)) \cup {n}
    BY <1>1 DEF Queued
  <1>3. IsFiniteSet(Queued(q, g, f)) /\ Cardinality(Queued(q, g, f)) \in Nat
    BY QueuedFinite
  <1>4. CASE Of(v, g, f)
    <2>1. Queued(a, g, f) = Queued(q, g, f) \cup {n}
      BY <1>1, <1>2, <1>4 DEF Queued
    <2>2. Cardinality(Queued(a, g, f)) = Cardinality(Queued(q, g, f)) + 1
      BY <2>1, <1>2, <1>3, FS_AddElement
    <2> QED BY <2>2, <1>4 DEF One, a
  <1>5. CASE ~Of(v, g, f)
    <2>1. Queued(a, g, f) = Queued(q, g, f)
      BY <1>1, <1>2, <1>5 DEF Queued
    <2> QED BY <2>1, <1>3, <1>5 DEF One, a
  <1> QED BY <1>4, <1>5

\* Taking the first message out removes it.
LEMMA QueuedTail ==
  ASSUME NEW S, NEW q \in Seq(S), q # <<>>, NEW g, NEW f
  PROVE  Cardinality(Queued(q, g, f))
           = Cardinality(Queued(Tail(q), g, f)) + One(Of(Head(q), g, f))
  <1> DEFINE t == Tail(q)
             A == Queued(t, g, f)
             B == Queued(q, g, f)
             shift == [i \in A |-> i + 1]
  <1>1. /\ Len(q) \in Nat \ {0} /\ DOMAIN q = 1..Len(q)
        /\ t \in Seq(S) /\ DOMAIN t = 1..(Len(q) - 1)
        /\ \A i \in DOMAIN t : t[i] = q[i + 1]
        /\ Head(q) = q[1]
    OBVIOUS
  <1> HIDE DEF t
  <1>2. /\ IsFiniteSet(A) /\ Cardinality(A) \in Nat
        /\ IsFiniteSet(B) /\ Cardinality(B) \in Nat
    BY <1>1, QueuedFinite
  <1>3. \A i \in A : i \in 1..(Len(q) - 1) /\ i + 1 \in B \ {1}
    BY <1>1 DEF Queued
  <1>4. \A j \in B \ {1} : j - 1 \in A /\ j = (j - 1) + 1
    BY <1>1 DEF Queued
  <1>5. shift \in Bijection(A, B \ {1})
    <2>1. shift \in [A -> B \ {1}]
      BY <1>3
    <2>2. \A i, j \in A : shift[i] = shift[j] => i = j
      BY <1>3
    <2>3. \A j \in B \ {1} : \E i \in A : shift[i] = j
      BY <1>4
    <2> QED BY <2>1, <2>2, <2>3, Fun_IsBij
  <1>6. Cardinality(B \ {1}) = Cardinality(A)
    <2>1. ExistsBijection(A, B \ {1})
      BY <1>5 DEF ExistsBijection
    <2> QED BY <2>1, <1>2, FS_Bijection
  <1>7. Cardinality(B \ {1}) = IF 1 \in B THEN Cardinality(B) - 1 ELSE Cardinality(B)
    BY <1>2, FS_RemoveElement
  <1>8. 1 \in B <=> Of(Head(q), g, f)
    BY <1>1 DEF Queued
  <1> QED BY <1>2, <1>6, <1>7, <1>8 DEF One, t

\* The thread holds one message or none.
LEMMA HandCount ==
  ASSUME NEW g, NEW f
  PROVE  /\ Cardinality(InHand({}, g, f)) = 0
         /\ \A r : Cardinality(InHand({r}, g, f)) = One(Of(r, g, f))
  <1>1. InHand({}, g, f) = {}
    BY DEF InHand
  <1>2. ASSUME NEW r
        PROVE  Cardinality(InHand({r}, g, f)) = One(Of(r, g, f))
    <2>1. CASE Of(r, g, f)
      <3>1. InHand({r}, g, f) = {r}
        BY <2>1 DEF InHand
      <3> QED BY <3>1, <2>1, FS_Singleton DEF One
    <2>2. CASE ~Of(r, g, f)
      <3>1. InHand({r}, g, f) = {}
        BY <2>2 DEF InHand
      <3> QED BY <3>1, <2>2, FS_EmptySet DEF One
    <2> QED BY <2>1, <2>2
  <1> QED BY <1>1, <1>2, FS_EmptySet

\* What is under way, in these terms.
Sum(q, o, p, g, f) ==
  Cardinality(Queued(q, g, f)) + Cardinality(InHand(o, g, f)) + Cardinality(Queued(p, g, f))

LEMMA UnderWayIsSum ==
  ASSUME NEW f
  PROVE  UnderWay(f) = Sum(requests, reader, replies, generation, f)
  BY DEF UnderWay, Sum, Queued, InHand, Of

\* The state's channels and the thread's hand, and what they count to.
LEMMA Counts ==
  ASSUME TypeOK, NEW g, NEW f
  PROVE  /\ requests \in Seq(Request) /\ replies \in Seq(Reply)
         /\ reader = {} \/ \E r \in Request \cup Reply : reader = {r}
         /\ Cardinality(Queued(requests, g, f)) \in Nat
         /\ Cardinality(Queued(replies, g, f)) \in Nat
         /\ Cardinality(InHand(reader, g, f)) \in Nat
  <1>1. requests \in Seq(Request) /\ replies \in Seq(Reply)
    BY DEF TypeOK
  <1>2. reader = {} \/ \E r \in Request \cup Reply : reader = {r}
    BY DEF TypeOK
  <1>3. Cardinality(InHand(reader, g, f)) \in Nat
    <2>1. CASE reader = {}
      <3>1. Cardinality(InHand(reader, g, f)) = 0
        BY <2>1, HandCount
      <3> QED BY <3>1
    <2>2. CASE \E r \in Request \cup Reply : reader = {r}
      <3>1. PICK r \in Request \cup Reply : reader = {r}
        BY <2>2
      <3>2. Cardinality(InHand(reader, g, f)) = One(Of(r, g, f))
        BY <3>1, HandCount
      <3> QED BY <3>2 DEF One
    <2> QED BY <1>2, <2>1, <2>2
  <1> QED BY <1>1, <1>2, <1>3, QueuedFinite

-----------------------------------------------------------------------------
(* Every step keeps the count *)

\* A step that changes neither the messages nor what was asked for.
LEMMA CountStutters ==
  ASSUME PendingIsUnderWay, UNCHANGED <<generation, pending, requests, replies, reader>>
  PROVE  PendingIsUnderWay'
  BY DEF PendingIsUnderWay, UnderWay

\* A new generation has no messages yet, and nothing was asked for under it.
LEMMA CountNewGeneration ==
  ASSUME IInv, NEW r, NewGeneration(r), UNCHANGED <<requests, replies, reader, time>>
  PROVE  PendingIsUnderWay'
  <1>1. generation \in Nat /\ generation' = generation + 1 /\ pending' = {}
    BY Bounds DEF NewGeneration, IInv, TypeOK
  <1>2. /\ \A i \in DOMAIN requests : requests[i].generation # generation'
        /\ \A m \in reader : m.generation # generation'
        /\ \A i \in DOMAIN replies : replies[i].generation # generation'
    <2>1. /\ \A i \in DOMAIN requests : requests[i].generation \in Nat
          /\ \A i \in DOMAIN replies : replies[i].generation \in Nat
          /\ \A m \in reader : m.generation \in Nat
      <3>1. /\ \A i \in DOMAIN requests : requests[i] \in Request
            /\ \A i \in DOMAIN replies : replies[i] \in Reply
            /\ \A m \in reader : m \in Request \cup Reply
        BY Held DEF IInv, TypeOK
      <3> QED BY <3>1, Bounds DEF Request, Reply
    <2> QED BY <1>1, <2>1 DEF IInv, RepliesAreFresh, FreshReply
  <1>3. ASSUME NEW f \in Folders
        PROVE  UnderWay(f)' = 0
    <2>1. /\ Queued(requests, generation', f) = {}
          /\ InHand(reader, generation', f) = {}
          /\ Queued(replies, generation', f) = {}
      BY <1>2 DEF Queued, InHand, Of
    <2>2. UnderWay(f)' = Sum(requests, reader, replies, generation', f)
      BY DEF UnderWay, Sum, Queued, InHand, Of
    <2> QED BY <2>1, <2>2, FS_EmptySet DEF Sum
  <1> QED BY <1>1, <1>3 DEF PendingIsUnderWay

\* Asking puts one request on its way for a folder that had none.
LEMMA CountAsk ==
  ASSUME IInv, PendingIsUnderWay, NEW a \in Folders, Ask(a)
  PROVE  PendingIsUnderWay'
  <1> DEFINE r == [generation |-> generation, path |-> a]
  <1>1. /\ requests' = Append(requests, r) /\ r \in Request
        /\ a \notin pending /\ pending' = pending \cup {a}
        /\ UNCHANGED <<generation, replies, reader>>
    BY DEF Ask, IInv, TypeOK, Request
  <1>2. ASSUME NEW f \in Folders
        PROVE  UnderWay(f)' = IF f \in pending' THEN 1 ELSE 0
    <2>1. Of(r, generation, f) <=> f = a
      BY DEF Of
    <2> HIDE DEF r
    <2>2. TypeOK
      BY DEF IInv
    <2>3. Cardinality(Queued(requests', generation, f))
            = Cardinality(Queued(requests, generation, f)) + One(f = a)
      BY <1>1, <2>1, <2>2, Counts, QueuedAppend DEF One
    <2>4. UnderWay(f)' = Sum(requests', reader, replies, generation, f)
      BY <1>1 DEF UnderWay, Sum, Queued, InHand, Of
    <2>5. UnderWay(f) = IF f \in pending THEN 1 ELSE 0
      BY DEF PendingIsUnderWay
    <2>6. UnderWay(f)' = UnderWay(f) + One(f = a)
      <3>1. /\ Cardinality(Queued(requests, generation, f)) \in Nat
            /\ Cardinality(Queued(replies, generation, f)) \in Nat
            /\ Cardinality(InHand(reader, generation, f)) \in Nat
        BY <2>2, Counts
      <3>2. UnderWay(f) = Sum(requests, reader, replies, generation, f)
        BY UnderWayIsSum
      <3> QED BY <2>3, <2>4, <3>1, <3>2 DEF Sum, One
    <2> QED BY <1>1, <2>5, <2>6 DEF One
  <1> QED BY <1>2 DEF PendingIsUnderWay

\* Learning takes the one answer of a folder, which is asked for no longer.
LEMMA CountTake ==
  ASSUME IInv, PendingIsUnderWay, Take
  PROVE  PendingIsUnderWay'
  <1> DEFINE r == Head(replies)
  <1>1. /\ TypeOK /\ replies # <<>> /\ replies' = Tail(replies)
        /\ UNCHANGED <<generation, requests, reader>>
        /\ pending' = IF r.generation = generation THEN pending \ {r.path} ELSE pending
    BY DEF IInv, Take, Learn
  <1> HIDE DEF r
  <1>2. ASSUME NEW f \in Folders
        PROVE  UnderWay(f)' = IF f \in pending' THEN 1 ELSE 0
    <2>1. Cardinality(Queued(replies, generation, f))
            = Cardinality(Queued(replies', generation, f)) + One(Of(r, generation, f))
      BY <1>1, Counts, QueuedTail DEF r
    <2>2. Cardinality(Queued(replies', generation, f)) \in Nat
      <3>1. replies' \in Seq(Reply)
        BY <1>1, Counts, Received
      <3> QED BY <3>1, QueuedFinite
    <2>3. UnderWay(f)' = Sum(requests, reader, replies', generation, f)
      BY <1>1 DEF UnderWay, Sum, Queued, InHand, Of
    <2>4. UnderWay(f) = IF f \in pending THEN 1 ELSE 0
      BY DEF PendingIsUnderWay
    <2>5. UnderWay(f) = UnderWay(f)' + One(Of(r, generation, f)) /\ UnderWay(f)' \in Nat
      BY <1>1, <2>1, <2>2, <2>3, UnderWayIsSum, Counts DEF Sum, One
    <2>6. CASE Of(r, generation, f)
      \* it was under way, so it was asked for, and nothing else was
      BY <1>1, <2>4, <2>5, <2>6 DEF One, Of
    <2>7. CASE ~Of(r, generation, f)
      BY <1>1, <2>4, <2>5, <2>7 DEF One, Of
    <2> QED BY <2>6, <2>7
  <1> QED BY <1>2 DEF PendingIsUnderWay

\* The reading thread drops only requests of an old generation; the others it
\* turns into one read, and that into one answer.
LEMMA CountReader ==
  ASSUME IInv, PendingIsUnderWay, Reader
  PROVE  PendingIsUnderWay'
  <1>1. TypeOK /\ UNCHANGED <<generation, pending>>
    BY DEF IInv, Reader, Skip, Begin, ReadDirectory, Answer, tree
  <1>2. ASSUME NEW f \in Folders
        PROVE  UnderWay(f)' = UnderWay(f)
    <2>1. UnderWay(f) = Sum(requests, reader, replies, generation, f)
      BY UnderWayIsSum
    <2>2. UnderWay(f)' = Sum(requests', reader', replies', generation, f)
      BY <1>1 DEF UnderWay, Sum, Queued, InHand, Of
    <2>3. CASE Skip
      <3>1. /\ requests # <<>> /\ requests' = Tail(requests)
            /\ ~Of(Head(requests), generation, f) /\ UNCHANGED <<replies, reader>>
        BY <2>3 DEF Skip, Of
      <3>2. Tail(requests) \in Seq(Request)
        BY <1>1, <3>1, Counts, Received
      <3>3. Cardinality(Queued(requests, generation, f))
              = Cardinality(Queued(requests', generation, f))
        <4>1. Cardinality(Queued(requests, generation, f))
                = Cardinality(Queued(Tail(requests), generation, f))
                  + One(Of(Head(requests), generation, f))
          BY <1>1, <3>1, Counts, QueuedTail
        <4>2. Cardinality(Queued(Tail(requests), generation, f)) \in Nat
          BY <3>2, QueuedFinite
        <4> QED BY <3>1, <4>1, <4>2 DEF One
      <3> QED BY <2>1, <2>2, <3>1, <3>3 DEF Sum
    <2>4. CASE Begin
      <3>1. /\ requests # <<>> /\ requests' = Tail(requests) /\ reader = {}
            /\ reader' = {Head(requests)} /\ UNCHANGED replies
        BY <2>4 DEF Begin
      <3>2. Tail(requests) \in Seq(Request)
        BY <1>1, <3>1, Counts, Received
      <3>3. Cardinality(Queued(requests, generation, f))
              = Cardinality(Queued(requests', generation, f))
                + One(Of(Head(requests), generation, f))
        BY <1>1, <3>1, Counts, QueuedTail
      <3>4. /\ Cardinality(InHand(reader, generation, f)) = 0
            /\ Cardinality(InHand(reader', generation, f))
                 = One(Of(Head(requests), generation, f))
        BY <3>1, HandCount
      <3>5. /\ Cardinality(Queued(requests', generation, f)) \in Nat
            /\ Cardinality(Queued(replies, generation, f)) \in Nat
        BY <1>1, <3>1, <3>2, Counts, QueuedFinite
      <3> QED BY <2>1, <2>2, <3>1, <3>3, <3>4, <3>5 DEF Sum, One
    <2>5. CASE ReadDirectory
      <3>1. PICK r \in reader :
              /\ r \in Request
              /\ reader' = {[generation |-> r.generation, path |-> r.path, read |-> time]}
        BY <2>5 DEF ReadDirectory
      <3>2. reader = {r} /\ UNCHANGED <<requests, replies>>
        BY <1>1, <2>5, <3>1, Counts DEF ReadDirectory
      <3> DEFINE s == [generation |-> r.generation, path |-> r.path, read |-> time]
      <3>3. Of(s, generation, f) <=> Of(r, generation, f)
        BY DEF Of
      <3> HIDE DEF s
      <3>4. Cardinality(InHand({s}, generation, f)) = Cardinality(InHand({r}, generation, f))
        BY <3>3, HandCount DEF One
      <3> QED BY <2>1, <2>2, <3>1, <3>2, <3>4 DEF Sum, s
    <2>6. CASE Answer
      <3>1. PICK r \in reader : r \in Reply /\ replies' = Append(replies, r)
        BY <2>6 DEF Answer
      <3>2. reader = {r} /\ reader' = {} /\ UNCHANGED requests
        BY <1>1, <2>6, <3>1, Counts DEF Answer
      <3>3. Cardinality(Queued(replies', generation, f))
              = Cardinality(Queued(replies, generation, f)) + One(Of(r, generation, f))
        BY <1>1, <3>1, Counts, QueuedAppend
      <3>4. /\ Cardinality(InHand(reader, generation, f)) = One(Of(r, generation, f))
            /\ Cardinality(InHand(reader', generation, f)) = 0
        BY <3>2, HandCount
      <3>5. /\ Cardinality(Queued(requests, generation, f)) \in Nat
            /\ Cardinality(Queued(replies, generation, f)) \in Nat
        BY <1>1, Counts
      <3> QED BY <2>1, <2>2, <3>2, <3>3, <3>4, <3>5 DEF Sum, One
    <2> QED BY <2>3, <2>4, <2>5, <2>6 DEF Reader
  <1> QED BY <1>1, <1>2 DEF PendingIsUnderWay

LEMMA CountStarts == Init => PendingIsUnderWay
  <1> SUFFICES ASSUME Init, NEW f \in Folders PROVE UnderWay(f) = 0 /\ f \notin pending
    BY DEF PendingIsUnderWay
  <1>1. requests = <<>> /\ replies = <<>> /\ reader = {} /\ pending = {}
    BY DEF Init
  <1>2. Queued(<<>>, generation, f) = {} /\ InHand({}, generation, f) = {}
    BY DEF Queued, InHand
  <1> QED BY <1>1, <1>2, UnderWayIsSum, FS_EmptySet DEF Sum

LEMMA CountStep == IInv /\ PendingIsUnderWay /\ [Next]_vars => PendingIsUnderWay'
  <1> SUFFICES ASSUME IInv, PendingIsUnderWay, [Next]_vars PROVE PendingIsUnderWay'
    OBVIOUS
  <1>1. CASE Refresh \/ Up \/ \E f \in Folders : SetInput(f)
    BY <1>1, CountNewGeneration DEF Refresh, Up, SetInput
  <1>2. CASE Change \/ (\E f \in Folders : Toggle(f)) \/ UNCHANGED vars
    BY <1>2, CountStutters DEF Change, Toggle, vars, tree
  <1> QED BY <1>1, <1>2, CountAsk, CountTake, CountReader DEF Next

-----------------------------------------------------------------------------
(* The theorem *)

\* A folder that says it is being read has exactly one message of this
\* generation under way, and no other folder has any (file_tree.rs request,
\* refresh, update): none waits for ever for a message nobody sent.
THEOREM PendingAlwaysUnderWay == Spec => []PendingIsUnderWay
  <1>1. Init => PendingIsUnderWay
    BY CountStarts
  <1>2. IInv /\ PendingIsUnderWay /\ [Next]_vars => PendingIsUnderWay'
    BY CountStep
  <1> QED BY <1>1, <1>2, TreeInvariance, PTL DEF Spec
=============================================================================
