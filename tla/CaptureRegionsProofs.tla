------------------------ MODULE CaptureRegionsProofs ------------------------
(***************************************************************************)
(* Proofs about the capture regions, for any drawings, pages and boxes,    *)
(* any length of the history and any number of edits: the drawings of a    *)
(* set agree on the master, navigation replaces none, an edit of one sheet *)
(* leaves the boxes of the others alone, and what was captured stands      *)
(* beside the boxes it was read from.                                      *)
(***************************************************************************)
EXTENDS CaptureRegions, TLAPS, SequenceTheorems

-----------------------------------------------------------------------------
(* Shapes *)

\* Every drawing has the fields of a field, and so has every one that undo or
\* redo would bring back.
Shaped(D) == \A d \in DOMAIN D : DOMAIN D[d] = {"master", "sheets", "cells"}
Past(q)   == \E S : q \in Seq(S) /\ \A s \in S : Shaped(s[1])

\* What is open was remembered when its page was loaded.
OpenIsKnown == loaded => open \in paths /\ open \in DOMAIN documents

RegionInv == Shaped(documents) /\ Past(undo) /\ Past(redo) /\ OpenIsKnown /\ MastersAgree

\* A drawing that is not kept yet begins blank.
LEMMA LocalShape ==
  ASSUME NEW D, Shaped(D), NEW d
  PROVE  DOMAIN Local(D, d) = {"master", "sheets", "cells"}
BY DEF Local, Blank, Shaped

\* Keeping a field keeps the shape.
LEMMA WithShape ==
  ASSUME NEW D, Shaped(D), NEW d, NEW f, DOMAIN f = {"master", "sheets", "cells"}
  PROVE  Shaped(With(D, d, f))
BY DEF With, Shaped

\* Merging a master replaces it, and leaves the sheets alone.
LEMMA MergeShape ==
  ASSUME NEW f, DOMAIN f = {"master", "sheets", "cells"}, NEW m
  PROVE  /\ Merge(f, m).master = m /\ Merge(f, m).sheets = f.sheets
         /\ DOMAIN Merge(f, m) = {"master", "sheets", "cells"}
BY DEF Merge

LEMMA SyncedShape ==
  ASSUME NEW D, Shaped(D), NEW m, NEW G
  PROVE  /\ Shaped(Synced(D, m, G)) /\ DOMAIN Synced(D, m, G) = DOMAIN D
         /\ \A d \in DOMAIN D : Synced(D, m, G)[d].sheets = D[d].sheets
         /\ \A d \in DOMAIN D \cap G : Synced(D, m, G)[d].master = m
<1>1. /\ DOMAIN Synced(D, m, G) = DOMAIN D
      /\ \A d \in DOMAIN D : Synced(D, m, G)[d] = IF d \in G THEN Merge(D[d], m) ELSE D[d]
  BY DEF Synced
<1>2. \A d \in DOMAIN D : DOMAIN D[d] = {"master", "sheets", "cells"}
  BY DEF Shaped
<1>3. \A d \in DOMAIN D : /\ Merge(D[d], m).master = m
                          /\ Merge(D[d], m).sheets = D[d].sheets
                          /\ DOMAIN Merge(D[d], m) = {"master", "sheets", "cells"}
  BY <1>2, MergeShape
<1>4. QED
  BY <1>1, <1>2, <1>3 DEF Shaped

\* After the step the drawings of o's template, among P and o, have its master.
Agreed(P, S, o) ==
  \A d \in DOMAIN documents' :
    (d \in P \cup {o} /\ Key(S, d) = Key(S, o)) =>
      documents'[d].master = templates'[Key(S, o)]

\* What remembering a drawing leaves behind.
LEMMA Remembered ==
  ASSUME NEW D, Shaped(D), NEW T, NEW P, NEW S, NEW o, Remember(D, T, P, S, o)
  PROVE  /\ Shaped(documents') /\ DOMAIN documents' = DOMAIN D \cup {o}
         /\ \A d \in DOMAIN D : documents'[d].sheets = D[d].sheets
         /\ Key(S, o) \in DOMAIN templates'
         /\ Agreed(P, S, o)
<1> DEFINE k     == Key(S, o)
           local == Local(D, o).master
           had   == IF k \in DOMAIN T THEN T[k] ELSE None
           m     == IF had = None /\ local # None THEN [local EXCEPT !.doc = o] ELSE had
           E     == With(D, o, Local(D, o))
<1>1. /\ documents' = Synced(E, m, Group(P \cup {o}, S, k))
      /\ templates' = With(T, k, m) /\ paths' = P \cup {o}
  BY DEF Remember
<1> HIDE DEF m
<1>2. Shaped(E)
  BY LocalShape, WithShape
<1>3. DOMAIN E = DOMAIN D \cup {o} /\ \A d \in DOMAIN D : E[d] = D[d]
  BY DEF With, Local
<1>4. k \in DOMAIN templates' /\ templates'[k] = m
  BY <1>1 DEF With
<1> HIDE DEF E
<1>5. QED
  BY <1>1, <1>2, <1>3, <1>4, SyncedShape DEF Group, Agreed

\* The end of a frame that has its page establishes agreement.
LEMMA Settled ==
  ASSUME NEW D, Shaped(D), NEW T, NEW P, NEW S, S = set', Settle(D, T, P, S)
  PROVE  Shaped(documents') /\ OpenIsKnown' /\ MastersAgree'
<1>1. CASE loaded'
  <2>1. Remember(D, T, P, set', open')
    BY <1>1 DEF Settle
  <2>2. Shaped(documents')
    BY <2>1, Remembered
  <2>3. DOMAIN documents' = DOMAIN D \cup {open'}
    BY <2>1, Remembered
  <2>4. paths' = P \cup {open'}
    BY <2>1 DEF Remember
  <2>5. Key(set', open') \in DOMAIN templates'
    BY <2>1, Remembered
  <2>6. Agreed(P, set', open')
    BY <2>1, Remembered
  <2>7. QED
    BY <2>2, <2>3, <2>4, <2>5, <2>6 DEF OpenIsKnown, MastersAgree, Group, Agreed
<1>2. CASE ~loaded'
  BY <1>2 DEF Settle, OpenIsKnown, MastersAgree
<1>3. QED
  BY <1>1, <1>2

(* The history *)

\* A longer history; growing changes it, so that an undo is not an edit.
LEMMA PastGrows ==
  ASSUME NEW q, Past(q), NEW x, Shaped(x[1])
  PROVE  Past(Append(q, x)) /\ Append(q, x) # q
<1>1. PICK S : q \in Seq(S) /\ \A s \in S : Shaped(s[1])
  BY DEF Past
<1>2. Append(q, x) \in Seq(S \cup {x}) /\ Append(q, x) # q
  BY <1>1
<1>3. QED
  BY <1>1, <1>2 DEF Past

\* A shorter history, and the snapshot taken from it.
LEMMA PastShrinks ==
  ASSUME NEW q, Past(q), q # <<>>
  PROVE  /\ Past(Tail(q)) /\ Past(Front(q)) /\ Front(q) # q
         /\ Shaped(Last(q)[1])
<1>1. PICK S : q \in Seq(S) /\ \A s \in S : Shaped(s[1])
  BY DEF Past
<1>2. Len(q) \in Nat \ {0} /\ Last(q) \in S /\ Tail(q) \in Seq(S)
  BY <1>1 DEF Last
<1>3. Front(q) \in Seq(S) /\ Len(Front(q)) = Len(q) - 1
  <2>1. 1 \in Int /\ Len(q) - 1 \in Int /\ \A i \in 1..(Len(q) - 1) : q[i] \in S
    BY <1>1, <1>2
  <2>2. /\ SubSeq(q, 1, Len(q) - 1) \in Seq(S)
        /\ Len(SubSeq(q, 1, Len(q) - 1)) = IF 1 <= Len(q) - 1 THEN Len(q) - 1 - 1 + 1 ELSE 0
    BY <2>1, SubSeqProperties
  <2>3. SubSeq(q, 1, Len(q) - 1) = Front(q)
    BY DEF Front
  <2>4. Len(Front(q)) = Len(q) - 1
    <3>1. CASE Len(q) = 1
      BY <2>2, <2>3, <3>1
    <3>2. CASE Len(q) > 1
      BY <1>2, <2>2, <2>3, <3>2
    <3>3. Len(q) \in Nat /\ Len(q) # 0
      BY <1>2
    <3>4. Len(q) = 1 \/ Len(q) > 1
      <4>1. \A n \in Nat : n # 0 => n = 1 \/ n > 1
        OBVIOUS
      <4>2. QED
        BY <3>3, <4>1
    <3>5. QED
      BY <3>1, <3>2, <3>4
  <2>5. QED
    BY <2>2, <2>3, <2>4
<1>4. Front(q) # q
  BY <1>2, <1>3
<1>5. QED
  BY <1>1, <1>2, <1>3, <1>4 DEF Past

\* The history starts, and an edit's redo list is, empty.
LEMMA PastEmpty == Past(<<>>)
<1>1. \A S : S = {} => <<>> \in Seq(S) /\ \A s \in S : Shaped(s[1])
  OBVIOUS
<1>2. QED
  BY <1>1 DEF Past

\* A checkpoint keeps a snapshot of what was there.
LEMMA Checkpointed ==
  ASSUME RegionInv, Checkpoint
  PROVE  Past(undo') /\ Past(redo')
<1>1. Shaped(Snapshot[1])
  BY DEF RegionInv, Snapshot
<1>2. CASE Len(undo) = MaxUndo
  <2>1. undo # <<>>
    BY <1>2, CaptureAssumption
  <2>2. Past(Tail(undo))
    BY <2>1, PastShrinks DEF RegionInv
  <2>3. QED
    BY <1>1, <1>2, <2>2, PastGrows, PastEmpty DEF Checkpoint
<1>3. CASE Len(undo) # MaxUndo
  BY <1>1, <1>3, PastGrows, PastEmpty DEF Checkpoint, RegionInv
<1>4. QED
  BY <1>2, <1>3

-----------------------------------------------------------------------------
(* The steps *)

\* Every edit of boxes sets the master of the set or the boxes of a sheet.
Redrawn ==
  \/ \E b \in Boxes : SetMaster(b)
  \/ \E B \in SUBSET (here \cup Boxes) :
       \E cells \in {Nowhere, Without(field.cells, {page})} : SetSheet(B, cells)

\* What the user does to boxes comes down to those two.
LEMMA BoxEdits ==
  ASSUME \/ \E b \in Boxes : Draw(b)
         \/ \E X \in SUBSET Boxes : DrawAnother(X)
         \/ \E X, Y \in SUBSET Boxes : Move(X, Y)
         \/ \E X \in SUBSET Boxes : Delete(X)
         \/ RemoveOnSheet
  PROVE  Redrawn
<1> DEFINE Rest == Without(field.cells, {page})
           Sheets == SUBSET (here \cup Boxes)
<1>0. \A B \in Sheets : SetSheet(B, Nowhere) \/ SetSheet(B, Rest) => Redrawn
  BY DEF Redrawn
<1>1. ASSUME NEW b \in Boxes, Commit(b) PROVE Redrawn
  <2>1. {b} \in Sheets /\ (here \ {Min(here)}) \cup {b} \in Sheets
    OBVIOUS
  <2>2. CASE SetMaster(b)
    BY <2>2 DEF Redrawn
  <2>3. CASE SetSheet({b}, Rest) \/ SetSheet((here \ {Min(here)}) \cup {b}, Rest)
    BY <1>0, <2>1, <2>3
  <2>4. QED
    BY <1>1, <2>2, <2>3 DEF Commit
<1>2. ASSUME NEW X \in SUBSET Boxes, DrawAnother(X) PROVE Redrawn
  <2>1. here \cup X \in Sheets
    OBVIOUS
  <2>2. CASE \E b \in X : SetMaster(b)
    BY <2>2 DEF Redrawn
  <2>3. CASE SetSheet(here \cup X, Rest)
    BY <1>0, <2>1, <2>3
  <2>4. QED
    BY <1>2, <2>2, <2>3 DEF DrawAnother
<1>3. ASSUME NEW X, NEW Y \in SUBSET Boxes, Move(X, Y) PROVE Redrawn
  <2>1. (here \ X) \cup Y \in Sheets
    OBVIOUS
  <2>2. QED
    BY <1>0, <1>1, <1>3, <2>1 DEF Move
<1>4. ASSUME NEW X, Delete(X) PROVE Redrawn
  <2>1. here \ X \in Sheets
    OBVIOUS
  <2>2. QED
    BY <1>0, <1>4, <2>1 DEF Delete
<1>5. CASE RemoveOnSheet
  BY <1>0, <1>5 DEF RemoveOnSheet
<1>6. QED
  BY <1>1, <1>2, <1>3, <1>4, <1>5 DEF Draw

\* An edit that hands over drawings of the right shape keeps the invariant.
LEMMA EditKeeps ==
  ASSUME RegionInv, NEW D, Shaped(D), NEW T, Edit(D, T)
  PROVE  RegionInv'
<1>1. Shaped(documents') /\ OpenIsKnown' /\ MastersAgree'
  BY Settled DEF Edit
<1>2. Past(undo') /\ Past(redo')
  BY Checkpointed DEF Edit
<1>3. QED
  BY <1>1, <1>2 DEF RegionInv

\* The drawings an edit hands to the end of the frame.
LEMMA FieldShape ==
  ASSUME RegionInv
  PROVE  DOMAIN field = {"master", "sheets", "cells"}
BY LocalShape DEF RegionInv, field

\* The five kinds of edit.
LEMMA SetMasterKeeps ==
  ASSUME RegionInv, NEW b, SetMaster(b)
  PROVE  RegionInv'
<1> DEFINE G == Group(paths, set, Key(set, open))
           C == [d \in DOMAIN documents |->
                   IF d \in G THEN [documents[d] EXCEPT !.cells = Nowhere]
                              ELSE documents[d]]
           m == [doc |-> open, page |-> page, box |-> b]
<1>1. Shaped(C)
  BY DEF RegionInv, Shaped
<1>2. Edit(Synced(C, m, G), With(templates, Key(set, open), m))
  BY DEF SetMaster
<1> HIDE DEF C, G, m
<1>3. QED
  BY <1>1, <1>2, SyncedShape, EditKeeps

LEMMA SetSheetKeeps ==
  ASSUME RegionInv, NEW B, NEW cells, SetSheet(B, cells)
  PROVE  RegionInv'
<1> DEFINE f == [field EXCEPT !.sheets = With(@, page, B), !.cells = cells]
<1>1. DOMAIN f = {"master", "sheets", "cells"}
  BY FieldShape
<1>2. Edit(With(documents, open, f), templates)
  BY DEF SetSheet
<1> HIDE DEF f
<1>3. QED
  BY <1>1, <1>2, WithShape, EditKeeps DEF RegionInv

LEMMA UseMasterKeeps ==
  ASSUME RegionInv, UseMaster
  PROVE  RegionInv'
<1> DEFINE f == [field EXCEPT !.sheets = Without(@, {page}), !.cells = Nowhere]
<1>1. DOMAIN f = {"master", "sheets", "cells"}
  BY FieldShape
<1>2. Edit(With(documents, open, f), templates)
  BY DEF UseMaster
<1> HIDE DEF f
<1>3. QED
  BY <1>1, <1>2, WithShape, EditKeeps DEF RegionInv

LEMMA RestoreExcludedKeeps ==
  ASSUME RegionInv, RestoreExcluded
  PROVE  RegionInv'
<1> DEFINE f == [field EXCEPT !.sheets = Without(@, Excluded)]
<1>1. DOMAIN f = {"master", "sheets", "cells"}
  BY FieldShape
<1>2. Edit(With(documents, open, f), templates)
  BY DEF RestoreExcluded
<1> HIDE DEF f
<1>3. QED
  BY <1>1, <1>2, WithShape, EditKeeps DEF RegionInv

LEMMA ClearKeeps ==
  ASSUME RegionInv, Clear
  PROVE  RegionInv'
<1> DEFINE G == Group(paths, set, Key(set, open))
           C == [d \in DOMAIN documents |-> IF d \in G THEN Blank ELSE documents[d]]
           T == IF Key(set, open) \in DOMAIN templates
                THEN With(templates, Key(set, open), None) ELSE templates
<1>1. Shaped(C)
  BY DEF RegionInv, Shaped, Blank
<1>2. Edit(C, T)
  BY DEF Clear
<1> HIDE DEF C, T
<1>3. QED
  BY <1>1, <1>2, EditKeeps

\* Undo and redo hand over a snapshot.
LEMMA UndoKeeps ==
  ASSUME RegionInv, Undo
  PROVE  RegionInv'
<1>1. undo # <<>> /\ Past(undo) /\ Past(redo) /\ Shaped(Snapshot[1])
  BY DEF Undo, Restored, RegionInv, Snapshot
<1>2. Shaped(Last(undo)[1]) /\ Past(Front(undo)) /\ Past(Append(redo, Snapshot))
  BY <1>1, PastShrinks, PastGrows
<1>3. Settle(Last(undo)[1], Last(undo)[2], paths, set) /\ set = set'
  BY DEF Undo, Restored
<1>4. Shaped(documents') /\ OpenIsKnown' /\ MastersAgree'
  BY <1>2, <1>3, Settled
<1>5. QED
  BY <1>2, <1>4 DEF Undo, RegionInv

LEMMA RedoKeeps ==
  ASSUME RegionInv, Redo
  PROVE  RegionInv'
<1>1. redo # <<>> /\ Past(redo) /\ Past(undo) /\ Shaped(Snapshot[1])
  BY DEF Redo, Restored, RegionInv, Snapshot
<1>2. Shaped(Last(redo)[1]) /\ Past(Front(redo)) /\ Past(Append(undo, Snapshot))
  BY <1>1, PastShrinks, PastGrows
<1>3. Settle(Last(redo)[1], Last(redo)[2], paths, set) /\ set = set'
  BY DEF Redo, Restored
<1>4. Shaped(documents') /\ OpenIsKnown' /\ MastersAgree'
  BY <1>2, <1>3, Settled
<1>5. QED
  BY <1>2, <1>4 DEF Redo, RegionInv

\* A frame that edits nothing ends with the drawings it began with.
LEMMA FrameKeeps ==
  ASSUME RegionInv, UNCHANGED <<undo, redo>>,
         NEW D, Shaped(D), NEW T, NEW P, NEW S, S = set', Settle(D, T, P, S)
  PROVE  RegionInv'
BY Settled DEF RegionInv

\* What is left is remembered, and no page is shown yet.
LEMMA LeaveKeeps ==
  ASSUME RegionInv, UNCHANGED <<undo, redo>>, ~loaded', Leave
  PROVE  RegionInv'
<1>1. Shaped(documents')
  BY Remembered DEF Leave, RegionInv
<1>2. QED
  BY <1>1 DEF RegionInv, OpenIsKnown, MastersAgree

\* A cell is put into the fields of its drawing.
LEMMA PollKeeps ==
  ASSUME RegionInv, Poll
  PROVE  RegionInv'
<1>0. PICK c \in Due :
        Settle(With(documents, c.doc,
                    [Arrived(c.doc) EXCEPT !.cells = With(@, c.page, c.boxes)]),
               templates, paths \cup {c.doc}, set)
  BY DEF Poll
<1> DEFINE f == [Arrived(c.doc) EXCEPT !.cells = With(@, c.page, c.boxes)]
<1>1. Shaped(documents)
  BY DEF RegionInv
<1>2. DOMAIN Arrived(c.doc) = {"master", "sheets", "cells"}
  BY <1>1, LocalShape, MergeShape DEF Arrived
<1>3. DOMAIN f = {"master", "sheets", "cells"}
  BY <1>2
<1>4. /\ Settle(With(documents, c.doc, f), templates, paths \cup {c.doc}, set)
      /\ set = set' /\ UNCHANGED <<undo, redo>>
  BY <1>0 DEF Poll
<1> HIDE DEF f
<1>5. Shaped(With(documents, c.doc, f))
  BY <1>1, <1>3, WithShape
<1>6. QED
  BY <1>4, <1>5, FrameKeeps

\* Every step keeps the invariant.
LEMMA StepKeeps ==
  ASSUME RegionInv, [Next]_vars
  PROVE  RegionInv'
<1>1. Shaped(documents)
  BY DEF RegionInv
<1>2. CASE Redrawn
  BY <1>2, SetMasterKeeps, SetSheetKeeps DEF Redrawn
<1>3. CASE UseMaster
  BY <1>3, UseMasterKeeps
<1>4. CASE RestoreExcluded
  BY <1>4, RestoreExcludedKeeps
<1>5. CASE Clear
  BY <1>5, ClearKeeps
<1>6. CASE Undo
  BY <1>6, UndoKeeps
<1>7. CASE Redo
  BY <1>7, RedoKeeps
<1>8. ASSUME NEW d, Tick(d) PROVE RegionInv'
  BY <1>1, <1>8, FrameKeeps DEF Tick
<1>9. ASSUME NEW d, Select(d) PROVE RegionInv'
  BY <1>9, LeaveKeeps DEF Select
<1>10. CASE ClearSet
  BY <1>1, <1>10, FrameKeeps DEF ClearSet
<1>11. ASSUME NEW p, ChangePage(p) PROVE RegionInv'
  BY <1>11, LeaveKeeps DEF ChangePage
<1>12. CASE Load
  BY <1>1, <1>12, FrameKeeps DEF Load
<1>13. CASE Extract
  BY <1>1, <1>13, FrameKeeps DEF Extract
<1>14. CASE Poll
  BY <1>14, PollKeeps
<1>15. CASE Skip
  BY <1>15 DEF Skip, RegionInv, OpenIsKnown, MastersAgree
<1>16. CASE Retry \/ Finish
  BY <1>16 DEF Retry, Finish, RegionInv, OpenIsKnown, MastersAgree
<1>17. CASE UNCHANGED vars
  BY <1>17 DEF vars, RegionInv, OpenIsKnown, MastersAgree
<1>18. QED
  BY <1>2, <1>3, <1>4, <1>5, <1>6, <1>7, <1>8, <1>9, <1>10, <1>11, <1>12,
     <1>13, <1>14, <1>15, <1>16, <1>17, BoxEdits DEF Next

\* The drawings keep their fields, and those of the open template agree.
THEOREM RegionInvariance == Spec => []RegionInv
<1>1. ASSUME Init PROVE RegionInv
  BY <1>1, PastEmpty DEF Init, RegionInv, Shaped, OpenIsKnown, MastersAgree
<1>2. RegionInv /\ [Next]_vars => RegionInv'
  BY StepKeeps
<1>3. QED
  BY <1>1, <1>2, PTL DEF Spec

\* When a page is shown, the drawings of its set agree on the master
\* (sync_group), however they were opened, ticked, edited and read.
THEOREM MastersAlwaysAgree == Spec => []MastersAgree
<1>1. RegionInv => MastersAgree
  BY DEF RegionInv
<1>2. QED
  BY <1>1, RegionInvariance, PTL

-----------------------------------------------------------------------------
(* Navigation *)

\* Remembering a drawing replaces no master.
LEMMA MastersStay ==
  ASSUME NEW D, NEW T, NEW P, NEW S, NEW o, Remember(D, T, P, S, o),
         NEW k, k \in DOMAIN T, T[k] # None
  PROVE  k \in DOMAIN templates' /\ templates'[k] = T[k]
<1> DEFINE local == Local(D, o).master
           had   == IF Key(S, o) \in DOMAIN T THEN T[Key(S, o)] ELSE None
           m     == IF had = None /\ local # None THEN [local EXCEPT !.doc = o] ELSE had
<1>1. templates' = With(T, Key(S, o), m)
  BY DEF Remember
<1>2. k = Key(S, o) => m = T[k]
  OBVIOUS
<1> HIDE DEF m
<1>3. QED
  BY <1>1, <1>2 DEF With

\* "Navigation never replaces a master" (remember_document): opening a drawing
\* or turning a page fills templates that have no master and no other.
THEOREM NavigationKeeps == Spec => NavigationKeepsMasters
<1> DEFINE A == <<open, page, loaded>>' # <<open, page, loaded>> =>
                  \A k \in DOMAIN templates :
                    templates[k] # None => k \in DOMAIN templates' /\ templates'[k] = templates[k]
<1>1. ASSUME Next, <<open, page, loaded>>' # <<open, page, loaded>>
      PROVE  Retry \/ Load \/ (\E d \in Docs : Select(d)) \/ (\E p \in Pages : ChangePage(p))
  <2>1. \A D, T : Edit(D, T) => UNCHANGED <<open, page, loaded>>
    BY DEF Edit
  <2>2. Redrawn => UNCHANGED <<open, page, loaded>>
    BY <2>1 DEF Redrawn, SetMaster, SetSheet
  <2>3. UseMaster \/ RestoreExcluded \/ Clear => UNCHANGED <<open, page, loaded>>
    BY <2>1 DEF UseMaster, RestoreExcluded, Clear
  <2>4. Undo \/ Redo \/ ClearSet \/ Extract \/ Poll \/ Skip \/ Finish
          => UNCHANGED <<open, page, loaded>>
    BY DEF Undo, Redo, Restored, ClearSet, Extract, Poll, Skip, Finish
  <2>5. \A d : Tick(d) => UNCHANGED <<open, page, loaded>>
    BY DEF Tick
  <2>6. QED
    BY <1>1, <2>2, <2>3, <2>4, <2>5, BoxEdits DEF Next
<1>2. [Next]_vars => [A]_vars
  <2>1. SUFFICES ASSUME Next, <<open, page, loaded>>' # <<open, page, loaded>>,
                        NEW k \in DOMAIN templates, templates[k] # None
                 PROVE  k \in DOMAIN templates' /\ templates'[k] = templates[k]
    OBVIOUS
  <2>2. CASE Load
    <3>1. Remember(documents, templates, paths, set, open')
      BY <2>2 DEF Load, Settle
    <3>2. QED
      BY <2>1, <3>1, MastersStay
  <2>3. CASE Leave
    BY <2>1, <2>3, MastersStay DEF Leave
  <2>4. CASE Retry
    BY <2>1, <2>4 DEF Retry
  <2>5. QED
    BY <1>1, <2>1, <2>2, <2>3, <2>4 DEF Select, ChangePage
<1>3. QED
  BY <1>2, PTL DEF Spec, NavigationKeepsMasters

-----------------------------------------------------------------------------
(* Overrides *)

\* A step that leaves no drawing without its boxes elsewhere.
SheetsStay ==
  \A d \in DOMAIN documents : \A p \in DOMAIN documents[d].sheets :
    (<<d, p>> # <<open, page>> /\ documents[d].sheets[p] # {}) =>
      /\ p \in DOMAIN documents'[d].sheets
      /\ documents'[d].sheets[p] = documents[d].sheets[p]

\* After an edit each drawing has the boxes the edit gave it.
LEMMA EditSheets ==
  ASSUME NEW D, Shaped(D), NEW T, Edit(D, T), NEW d \in DOMAIN D
  PROVE  documents'[d].sheets = D[d].sheets
<1>1. Remember(D, T, paths, set, open')
  BY DEF Edit, Settle
<1>2. QED
  BY <1>1, Remembered

\* A new master leaves all boxes of sheets alone.
LEMMA SetMasterSheets ==
  ASSUME RegionInv, NEW b, SetMaster(b)
  PROVE  SheetsStay
<1> DEFINE G == Group(paths, set, Key(set, open))
           C == [d \in DOMAIN documents |->
                   IF d \in G THEN [documents[d] EXCEPT !.cells = Nowhere]
                              ELSE documents[d]]
           m == [doc |-> open, page |-> page, box |-> b]
<1>1. Shaped(C)
  BY DEF RegionInv, Shaped
<1>2. DOMAIN C = DOMAIN documents /\ \A d \in DOMAIN C : C[d].sheets = documents[d].sheets
  BY DEF RegionInv, Shaped
<1>3. Edit(Synced(C, m, G), With(templates, Key(set, open), m))
  BY DEF SetMaster
<1> HIDE DEF C, G, m
<1>4. \A d \in DOMAIN documents : documents'[d].sheets = documents[d].sheets
  BY <1>1, <1>2, <1>3, SyncedShape, EditSheets
<1>5. QED
  BY <1>4 DEF SheetsStay

\* An edit of one sheet's boxes, of whatever kind.
LEMMA SheetSheets ==
  ASSUME RegionInv, NEW f, DOMAIN f = {"master", "sheets", "cells"}, NEW T,
         Edit(With(documents, open, f), T),
         open \in DOMAIN documents =>
           \A p \in DOMAIN documents[open].sheets :
             (p # page /\ documents[open].sheets[p] # {}) =>
               p \in DOMAIN f.sheets /\ f.sheets[p] = documents[open].sheets[p]
  PROVE  SheetsStay
<1>1. Shaped(With(documents, open, f))
  BY WithShape DEF RegionInv
<1>2. \A d \in DOMAIN documents :
        documents'[d].sheets = With(documents, open, f)[d].sheets
  BY <1>1, EditSheets DEF With
<1>3. \A d \in DOMAIN documents :
        With(documents, open, f)[d] = IF d = open THEN f ELSE documents[d]
  BY DEF With
<1>4. QED
  BY <1>2, <1>3 DEF SheetsStay

\* The three edits of a sheet.
LEMMA SetSheetSheets ==
  ASSUME RegionInv, NEW B, NEW cells, SetSheet(B, cells)
  PROVE  SheetsStay
<1> DEFINE f == [field EXCEPT !.sheets = With(@, page, B), !.cells = cells]
<1>1. DOMAIN f = {"master", "sheets", "cells"} /\ f.sheets = With(field.sheets, page, B)
  BY FieldShape
<1>2. Edit(With(documents, open, f), templates)
  BY DEF SetSheet
<1>3. open \in DOMAIN documents => field = documents[open]
  BY DEF field, Local
<1> HIDE DEF f
<1>4. open \in DOMAIN documents =>
        \A p \in DOMAIN documents[open].sheets :
          p # page => p \in DOMAIN f.sheets /\ f.sheets[p] = documents[open].sheets[p]
  BY <1>1, <1>3 DEF With
<1>5. QED
  BY <1>1, <1>2, <1>4, SheetSheets

LEMMA UseMasterSheets ==
  ASSUME RegionInv, UseMaster
  PROVE  SheetsStay
<1> DEFINE f == [field EXCEPT !.sheets = Without(@, {page}), !.cells = Nowhere]
<1>1. DOMAIN f = {"master", "sheets", "cells"} /\ f.sheets = Without(field.sheets, {page})
  BY FieldShape
<1>2. Edit(With(documents, open, f), templates)
  BY DEF UseMaster
<1>3. open \in DOMAIN documents => field = documents[open]
  BY DEF field, Local
<1> HIDE DEF f
<1>4. open \in DOMAIN documents =>
        \A p \in DOMAIN documents[open].sheets :
          p # page => p \in DOMAIN f.sheets /\ f.sheets[p] = documents[open].sheets[p]
  BY <1>1, <1>3 DEF Without, Restrict
<1>5. QED
  BY <1>1, <1>2, <1>4, SheetSheets

LEMMA RestoreExcludedSheets ==
  ASSUME RegionInv, RestoreExcluded
  PROVE  SheetsStay
<1> DEFINE f == [field EXCEPT !.sheets = Without(@, Excluded)]
<1>1. DOMAIN f = {"master", "sheets", "cells"} /\ f.sheets = Without(field.sheets, Excluded)
  BY FieldShape
<1>2. Edit(With(documents, open, f), templates)
  BY DEF RestoreExcluded
<1>3. open \in DOMAIN documents => field = documents[open]
  BY DEF field, Local
<1>4. \A p \in DOMAIN field.sheets : field.sheets[p] # {} => p \notin Excluded
  BY DEF Excluded
<1> HIDE DEF f
<1>5. open \in DOMAIN documents =>
        \A p \in DOMAIN documents[open].sheets :
          documents[open].sheets[p] # {} =>
            p \in DOMAIN f.sheets /\ f.sheets[p] = documents[open].sheets[p]
  BY <1>1, <1>3, <1>4 DEF Without, Restrict
<1>6. QED
  BY <1>1, <1>2, <1>5, SheetSheets

\* Clearing leaves the open drawing without a master.
LEMMA ClearClears ==
  ASSUME RegionInv, Clear
  PROVE  documents'[open].master = None
<1> DEFINE k == Key(set, open)
           G == Group(paths, set, k)
           C == [d \in DOMAIN documents |-> IF d \in G THEN Blank ELSE documents[d]]
           T == IF k \in DOMAIN templates THEN With(templates, k, None) ELSE templates
<1>1. /\ Remember(C, T, paths, set, open) /\ open' = open
      /\ open \in paths /\ open \in DOMAIN documents
  BY DEF Clear, Edit, Settle, RegionInv, OpenIsKnown
<1>2. Shaped(C)
  BY DEF RegionInv, Shaped, Blank
<1>3. Local(C, open).master = None
  BY <1>1 DEF Local, Blank, Group
<1>4. k \in DOMAIN T => T[k] = None
  BY DEF With
<1> HIDE DEF C, T
<1>5. templates'[k] = None
  BY <1>1, <1>3, <1>4 DEF Remember, With
<1>6. DOMAIN documents' = DOMAIN C \cup {open} /\ Agreed(paths, set, open)
  BY <1>1, <1>2, Remembered
<1>7. QED
  BY <1>1, <1>5, <1>6 DEF Agreed

\* "Explicit local overrides survive" (commit_region): an edit of one sheet
\* leaves the boxes drawn on every other sheet alone, unless the field is
\* cleared.
THEOREM OverridesStay == Spec => OverridesSurvive
<1>1. ASSUME RegionInv, Next, undo' # undo, ~Undo, ~Redo, documents'[open].master # None
      PROVE  SheetsStay
  <2>1. CASE Redrawn
    BY <1>1, <2>1, SetMasterSheets, SetSheetSheets DEF Redrawn
  <2>2. CASE UseMaster
    BY <1>1, <2>2, UseMasterSheets
  <2>3. CASE RestoreExcluded
    BY <1>1, <2>3, RestoreExcludedSheets
  <2>4. CASE Clear
    BY <1>1, <2>4, ClearClears
  <2>5. UNCHANGED undo \/ Redrawn \/ UseMaster \/ RestoreExcluded \/ Clear \/ Undo \/ Redo
    <3>1. \A d : Tick(d) \/ Select(d) => UNCHANGED undo
      BY DEF Tick, Select
    <3>2. \A p : ChangePage(p) => UNCHANGED undo
      BY DEF ChangePage
    <3>3. ClearSet \/ Retry \/ Load \/ Extract \/ Poll \/ Skip \/ Finish => UNCHANGED undo
      BY DEF ClearSet, Retry, Load, Extract, Poll, Skip, Finish
    <3>4. QED
      BY <1>1, <3>1, <3>2, <3>3, BoxEdits DEF Next
  <2>6. QED
    BY <1>1, <2>1, <2>2, <2>3, <2>4, <2>5
<1>2. RegionInv /\ [Next]_vars =>
        [(undo' # undo /\ ~Undo /\ ~Redo /\ documents'[open].master # None) => SheetsStay]_vars
  BY <1>1
<1>3. QED
  BY <1>2, RegionInvariance, PTL DEF Spec, OverridesSurvive, SheetsStay

-----------------------------------------------------------------------------
(* Types *)

\* A field whose cells were each read from some box.
Good(f) == IsField(f) /\ \A p \in DOMAIN f.cells : f.cells[p] # {}
Fit(f)  == \A p \in DOMAIN f.cells : f.cells[p] = RegionsFor(f, p)

AllGood(D)  == DOMAIN D \subseteq Docs /\ \A d \in DOMAIN D : Good(D[d])
GoodT(T)    == DOMAIN T \subseteq Docs \cup {DrawingSet} /\ \A k \in DOMAIN T : T[k] \in Masters
GoodSnap(s) == AllGood(s[1]) /\ GoodT(s[2])

Hist == ToSet(undo) \cup ToSet(redo)

\* Where the viewer is.
Plain ==
  /\ paths \subseteq Docs /\ set \subseteq Docs
  /\ open \in Docs /\ page \in Pages
  /\ loaded \in BOOLEAN /\ busy \in BOOLEAN /\ disturbed \in BOOLEAN
  /\ moves \in 0..MaxMoves

\* A cell on its way was read with the master its template has: an edit would
\* need the extraction to end, and nothing else takes a master back but undo,
\* redo and the drawing set.
Arriving ==
  /\ pending \subseteq [doc : Docs, page : Pages, boxes : SUBSET Boxes, primary : BOOLEAN]
  /\ \A c \in pending : c.boxes # {}
  /\ ~busy => pending = {} /\ ~disturbed
  /\ ~disturbed => \A c \in pending : /\ Key(set, c.doc) \in DOMAIN templates
                                      /\ templates[Key(set, c.doc)] # None

Inv ==
  /\ RegionInv
  /\ GoodSnap(Snapshot)
  /\ \A s \in Hist : GoodSnap(s)
  /\ Len(undo) + Len(redo) <= MaxUndo
  /\ Plain
  /\ Arriving

\* A drawing not kept yet has no cells, and so none that do not fit.
LEMMA BlankGood == Good(Blank) /\ Fit(Blank)
BY DEF Blank, Nowhere, Good, Fit, IsField, Masters

LEMMA LocalGood ==
  ASSUME NEW D, AllGood(D), NEW d
  PROVE  Good(Local(D, d)) /\ (CellsFit(D) => Fit(Local(D, d)))
BY BlankGood DEF Local, AllGood, CellsFit, Fit

LEMMA WithGood ==
  ASSUME NEW D, AllGood(D), NEW d \in Docs, NEW f, Good(f)
  PROVE  AllGood(With(D, d, f)) /\ (CellsFit(D) /\ Fit(f) => CellsFit(With(D, d, f)))
BY DEF With, AllGood, CellsFit, Fit

LEMMA WithTemplate ==
  ASSUME NEW T, GoodT(T), NEW k \in Docs \cup {DrawingSet}, NEW m \in Masters
  PROVE  GoodT(With(T, k, m))
BY DEF With, GoodT

\* A master that differs takes the cells with it; one that does not leaves
\* every sheet its boxes.
LEMMA MergeGood ==
  ASSUME NEW f, Good(f), NEW m \in Masters
  PROVE  Good(Merge(f, m)) /\ (Fit(f) => Fit(Merge(f, m)))
<1>1. DOMAIN f = {"master", "sheets", "cells"}
  BY DEF Good, IsField
<1>2. /\ Merge(f, m).master = m /\ Merge(f, m).sheets = f.sheets
      /\ DOMAIN Merge(f, m) = {"master", "sheets", "cells"}
  BY <1>1, MergeShape
<1>3. Merge(f, m).cells = IF SameRegion(f.master, m) THEN f.cells ELSE Nowhere
  BY <1>1 DEF Merge
<1> DEFINE M == Merge(f, m)
<1> HIDE DEF M
<1>4. CASE SameRegion(f.master, m)
  <2>1. \A p : RegionsFor(M, p) = RegionsFor(f, p)
    BY <1>2, <1>4 DEF M, RegionsFor, SameRegion
  <2>2. M.cells = f.cells
    BY <1>3, <1>4 DEF M
  <2>3. Good(M)
    BY <1>2, <2>2 DEF M, Good, IsField
  <2>4. Fit(f) => Fit(M)
    BY <2>1, <2>2 DEF Fit
  <2>5. QED
    BY <2>3, <2>4 DEF M
<1>5. CASE ~SameRegion(f.master, m)
  <2>1. M.cells = Nowhere /\ DOMAIN Nowhere = {}
    BY <1>3, <1>5 DEF M, Nowhere
  <2>2. Good(M)
    BY <1>2, <2>1 DEF M, Good, IsField
  <2>3. Fit(M)
    BY <2>1 DEF Fit
  <2>4. QED
    BY <2>2, <2>3 DEF M
<1>6. QED
  BY <1>4, <1>5

LEMMA SyncedGood ==
  ASSUME NEW D, AllGood(D), NEW m \in Masters, NEW G
  PROVE  AllGood(Synced(D, m, G)) /\ (CellsFit(D) => CellsFit(Synced(D, m, G)))
<1>1. /\ DOMAIN Synced(D, m, G) = DOMAIN D
      /\ \A d \in DOMAIN D : Synced(D, m, G)[d] = IF d \in G THEN Merge(D[d], m) ELSE D[d]
  BY DEF Synced
<1>2. \A d \in DOMAIN D : Good(Merge(D[d], m)) /\ (Fit(D[d]) => Fit(Merge(D[d], m)))
  BY MergeGood DEF AllGood
<1>3. AllGood(Synced(D, m, G))
  BY <1>1, <1>2 DEF AllGood
<1>4. ASSUME \A d \in DOMAIN D : Fit(D[d])
      PROVE  \A d \in DOMAIN D : Fit(Synced(D, m, G)[d])
  BY <1>1, <1>2, <1>4
<1>5. QED
  BY <1>1, <1>3, <1>4 DEF CellsFit, Fit

\* A drawing is one of its set, or stands for itself.
LEMMA KeyType ==
  ASSUME NEW S, NEW d \in Docs
  PROVE  Key(S, d) \in Docs \cup {DrawingSet}
BY DEF Key

\* Remembering a drawing keeps every field good, and every cell that fits.
LEMMA RememberGood ==
  ASSUME NEW D, AllGood(D), NEW T, GoodT(T), NEW P, NEW S, NEW o \in Docs,
         Remember(D, T, P, S, o)
  PROVE  GoodSnap(Snapshot)' /\ (CellsFit(D) => CellsFit(documents'))
<1> DEFINE k     == Key(S, o)
           local == Local(D, o).master
           had   == IF k \in DOMAIN T THEN T[k] ELSE None
           m     == IF had = None /\ local # None THEN [local EXCEPT !.doc = o] ELSE had
           E     == With(D, o, Local(D, o))
<1>1. /\ documents' = Synced(E, m, Group(P \cup {o}, S, k))
      /\ templates' = With(T, k, m)
  BY DEF Remember
<1>2. Good(Local(D, o)) /\ (CellsFit(D) => Fit(Local(D, o)))
  BY LocalGood
<1>3. m \in Masters
  <2>1. local \in Masters
    BY <1>2 DEF Good, IsField
  <2>2. had \in Masters
    BY DEF GoodT, Masters
  <2>3. local # None => [local EXCEPT !.doc = o] \in Masters
    BY <2>1 DEF Masters
  <2>4. QED
    BY <2>2, <2>3
<1>4. AllGood(E) /\ (CellsFit(D) => CellsFit(E))
  BY <1>2, WithGood
<1>5. k \in Docs \cup {DrawingSet}
  BY KeyType
<1> HIDE DEF m, E, k
<1>6. AllGood(documents') /\ (CellsFit(D) => CellsFit(documents'))
  BY <1>1, <1>3, <1>4, SyncedGood
<1>7. GoodT(templates')
  BY <1>1, <1>3, <1>5, WithTemplate
<1>8. QED
  BY <1>6, <1>7 DEF GoodSnap, Snapshot

\* The end of a frame, and leaving what it shows.
LEMMA SettleGood ==
  ASSUME NEW D, AllGood(D), NEW T, GoodT(T), NEW P, NEW S, open' \in Docs, Settle(D, T, P, S)
  PROVE  GoodSnap(Snapshot)' /\ (CellsFit(D) => CellsFit(documents'))
BY RememberGood DEF Settle, GoodSnap, Snapshot

LEMMA LeaveGood ==
  ASSUME GoodSnap(Snapshot), open \in Docs, Leave
  PROVE  GoodSnap(Snapshot)' /\ (CellsFit(documents) => CellsFit(documents'))
<1>1. AllGood(documents) /\ GoodT(templates)
  BY DEF GoodSnap, Snapshot
<1>2. QED
  BY <1>1, RememberGood DEF Leave, GoodSnap, Snapshot

\* The snapshots of a longer and of a shorter history.
LEMMA HistGrows ==
  ASSUME NEW q, Past(q), NEW x
  PROVE  /\ ToSet(Append(q, x)) \subseteq ToSet(q) \cup {x}
         /\ Len(q) \in Nat /\ Len(Append(q, x)) = Len(q) + 1
<1>1. PICK S : q \in Seq(S)
  BY DEF Past
<1>2. Append(q, x) \in Seq(S \cup {x}) /\ Len(Append(q, x)) = Len(q) + 1 /\ Len(q) \in Nat
  BY <1>1
<1>3. \A i \in DOMAIN Append(q, x) : Append(q, x)[i] = x \/ (i \in DOMAIN q /\ Append(q, x)[i] = q[i])
  BY <1>1, <1>2
<1>4. QED
  BY <1>2, <1>3 DEF ToSet

LEMMA HistShrinks ==
  ASSUME NEW q, Past(q), q # <<>>
  PROVE  /\ ToSet(Tail(q)) \subseteq ToSet(q) /\ Len(Tail(q)) = Len(q) - 1
         /\ ToSet(Front(q)) \subseteq ToSet(q) /\ Len(Front(q)) = Len(q) - 1
         /\ Last(q) \in ToSet(q) /\ Len(q) \in Nat \ {0}
<1>1. PICK S : q \in Seq(S)
  BY DEF Past
<1>2. Len(q) \in Nat \ {0} /\ DOMAIN q = 1..Len(q)
  BY <1>1
<1>3. Last(q) \in ToSet(q)
  BY <1>2 DEF Last, ToSet
<1>4. /\ Len(Tail(q)) = Len(q) - 1
      /\ \A i \in 1..(Len(q) - 1) : Tail(q)[i] = q[i + 1]
      /\ Tail(q) \in Seq(S)
  BY <1>1, <1>2
<1>5. ToSet(Tail(q)) \subseteq ToSet(q)
  <2>1. \A i \in 1..(Len(q) - 1) : i + 1 \in DOMAIN q
    BY <1>2
  <2>2. DOMAIN Tail(q) = 1..(Len(q) - 1)
    BY <1>4
  <2>3. QED
    BY <1>4, <2>1, <2>2 DEF ToSet
<1>6. Len(Front(q)) = Len(q) - 1 /\ \A i \in DOMAIN Front(q) : i \in DOMAIN q /\ Front(q)[i] = q[i]
  <2>1. \A i \in 1..(Len(q) - 1) : q[i] \in S
    BY <1>1, <1>2
  <2>2. Front(q) \in Seq(S) /\ Len(Front(q)) = IF 1 <= Len(q) - 1 THEN Len(q) - 1 - 1 + 1 ELSE 0
    BY <1>2, <2>1, SubSeqProperties DEF Front
  <2>3. \A i \in 1..Len(Front(q)) : Front(q)[i] = q[1 + i - 1]
    BY <1>2, <2>1, SubSeqProperties DEF Front
  <2>4. Len(Front(q)) = Len(q) - 1
    <3>1. \A n \in Nat \ {0} : (IF 1 <= n - 1 THEN n - 1 - 1 + 1 ELSE 0) = n - 1
      OBVIOUS
    <3>2. QED
      BY <1>2, <2>2, <3>1
  <2>5. DOMAIN Front(q) = 1..(Len(q) - 1)
    BY <2>2, <2>4
  <2>6. \A i \in 1..(Len(q) - 1) : 1 + i - 1 = i /\ i \in DOMAIN q
    BY <1>2
  <2>7. QED
    BY <2>3, <2>4, <2>5, <2>6
<1>7. ToSet(Front(q)) \subseteq ToSet(q) /\ Len(Front(q)) = Len(q) - 1
  BY <1>6 DEF ToSet
<1>8. QED
  BY <1>2, <1>3, <1>4, <1>5, <1>7

\* What a step owes: the types, nothing in the history but what was there
\* before, and, when everything fits and no extraction was disturbed, that
\* everything still fits.
HistKept == Hist' \subseteq Hist \cup {Snapshot} /\ Len(undo') + Len(redo') <= MaxUndo

PendingFits == \A c \in pending : c.boxes = RegionsFor(Arrived(c.doc), c.page)

Stepped ==
  /\ GoodSnap(Snapshot)' /\ HistKept /\ Plain' /\ Arriving'
  /\ Fits => CellsFit(documents')
  /\ Fits => PendingFits' \/ disturbed'

\* A checkpoint makes room first.
LEMMA CheckpointHist ==
  ASSUME Inv, Checkpoint
  PROVE  HistKept
<1>1. Past(undo) /\ Past(redo) /\ Len(undo) + Len(redo) <= MaxUndo
  BY DEF Inv, RegionInv
<1>2. Len(undo) \in Nat /\ Len(redo) \in Nat
  BY <1>1, HistGrows
<1>3. redo' = <<>> /\ ToSet(redo') = {} /\ Len(redo') = 0
  BY DEF Checkpoint, ToSet
<1>4. CASE Len(undo) = MaxUndo
  <2>1. undo # <<>>
    BY <1>4, CaptureAssumption
  <2>2. Past(Tail(undo))
    BY <1>1, <2>1, PastShrinks
  <2>3. ToSet(Tail(undo)) \subseteq ToSet(undo) /\ Len(Tail(undo)) = Len(undo) - 1
    BY <1>1, <2>1, HistShrinks
  <2>4. undo' = Append(Tail(undo), Snapshot)
    BY <1>4 DEF Checkpoint
  <2>5. ToSet(undo') \subseteq ToSet(Tail(undo)) \cup {Snapshot} /\ Len(undo') = Len(undo) - 1 + 1
    BY <2>2, <2>3, <2>4, HistGrows
  <2>6. Len(undo') + Len(redo') <= MaxUndo
    BY <1>2, <1>3, <1>4, <2>5, CaptureAssumption
  <2>7. QED
    BY <1>3, <2>3, <2>5, <2>6 DEF HistKept, Hist
<1>5. CASE Len(undo) # MaxUndo
  <2>1. undo' = Append(undo, Snapshot)
    BY <1>5 DEF Checkpoint
  <2>2. ToSet(undo') \subseteq ToSet(undo) \cup {Snapshot} /\ Len(undo') = Len(undo) + 1
    BY <1>1, <2>1, HistGrows
  <2>3. Len(undo') + Len(redo') <= MaxUndo
    BY <1>1, <1>2, <1>3, <1>5, <2>2, CaptureAssumption
  <2>4. QED
    BY <1>3, <2>2, <2>3 DEF HistKept, Hist
<1>6. QED
  BY <1>4, <1>5

\* While nothing runs, nothing is on its way.
LEMMA Idle ==
  ASSUME Inv, ~busy, UNCHANGED <<busy, pending, disturbed>>
  PROVE  Arriving' /\ PendingFits'
BY DEF Inv, Arriving, PendingFits

\* An edit that hands over good fields.
LEMMA EditSteps ==
  ASSUME Inv, NEW D, AllGood(D), NEW T, GoodT(T), Edit(D, T), CellsFit(documents) => CellsFit(D)
  PROVE  Stepped
<1>1. /\ open' = open /\ open \in Docs /\ set' \subseteq Docs
      /\ Settle(D, T, paths, set) /\ Checkpoint
  BY DEF Edit, Inv, Plain
<1>2. GoodSnap(Snapshot)' /\ (CellsFit(D) => CellsFit(documents'))
  BY <1>1, SettleGood
<1>3. HistKept
  BY <1>1, CheckpointHist
<1>4. paths' \subseteq Docs
  BY <1>1 DEF Settle, Remember, Inv, Plain
<1>5. moves' \in 0..MaxMoves
  BY CaptureAssumption DEF Edit, CountMove, Inv, Plain
<1>6. Plain'
  BY <1>4, <1>5 DEF Edit, Inv, Plain
<1>7. Arriving' /\ PendingFits'
  BY Idle DEF Edit
<1>8. QED
  BY <1>2, <1>3, <1>6, <1>7 DEF Stepped, Fits

(* Edits *)

\* What is open, and the boxes shown on it.
LEMMA Here ==
  ASSUME Inv
  PROVE  /\ Good(field) /\ DOMAIN field = {"master", "sheets", "cells"}
         /\ CellsFit(documents) => Fit(field)
         /\ open \in Docs /\ page \in Pages /\ here \subseteq Boxes
         /\ AllGood(documents) /\ GoodT(templates)
<1>1. AllGood(documents) /\ GoodT(templates) /\ open \in Docs /\ page \in Pages
  BY DEF Inv, GoodSnap, Snapshot, Plain
<1>2. Good(field) /\ (CellsFit(documents) => Fit(field))
  BY <1>1, LocalGood DEF field
<1>3. DOMAIN field = {"master", "sheets", "cells"} /\ field.master \in Masters
  BY <1>2 DEF Good, IsField
<1>4. field.master # None => {field.master.box} \subseteq Boxes
  BY <1>3 DEF Masters
<1>5. here \subseteq Boxes
  BY <1>2, <1>4 DEF here, RegionsFor, Good, IsField
<1>6. QED
  BY <1>1, <1>2, <1>3, <1>5

\* A new master empties the cells of every drawing that takes it.
LEMMA SetMasterSteps ==
  ASSUME Inv, NEW b \in Boxes, SetMaster(b)
  PROVE  Stepped
<1> DEFINE G == Group(paths, set, Key(set, open))
           C == [d \in DOMAIN documents |->
                   IF d \in G THEN [documents[d] EXCEPT !.cells = Nowhere]
                              ELSE documents[d]]
           m == [doc |-> open, page |-> page, box |-> b]
<1>1. m \in Masters
  BY Here DEF Masters
<1>2. ASSUME NEW f, Good(f) PROVE Good([f EXCEPT !.cells = Nowhere])
                                 /\ Fit([f EXCEPT !.cells = Nowhere])
  BY <1>2 DEF Good, IsField, Fit, Nowhere
<1>3. \A d \in DOMAIN documents : Good(C[d]) /\ (Fit(documents[d]) => Fit(C[d]))
  <2>1. \A d \in DOMAIN documents : Good(documents[d])
    BY Here DEF AllGood
  <2>2. QED
    BY <1>2, <2>1
<1>4. AllGood(C) /\ (CellsFit(documents) => CellsFit(C))
  <2>1. DOMAIN C = DOMAIN documents
    OBVIOUS
  <2>2. AllGood(C)
    BY <1>3, <2>1, Here DEF AllGood
  <2>3. ASSUME \A d \in DOMAIN documents : Fit(documents[d])
        PROVE  \A d \in DOMAIN C : Fit(C[d])
    BY <1>3, <2>1, <2>3
  <2>4. QED
    BY <2>2, <2>3 DEF CellsFit, Fit
<1>5. GoodT(With(templates, Key(set, open), m))
  BY <1>1, Here, KeyType, WithTemplate
<1>6. Edit(Synced(C, m, G), With(templates, Key(set, open), m))
  BY DEF SetMaster
<1> HIDE DEF C, m, G
<1>7. AllGood(Synced(C, m, G)) /\ (CellsFit(documents) => CellsFit(Synced(C, m, G)))
  BY <1>1, <1>4, SyncedGood
<1>8. QED
  BY <1>5, <1>6, <1>7, EditSteps

\* An edit of the open drawing alone.
LEMMA SheetSteps ==
  ASSUME Inv, NEW f, Good(f), CellsFit(documents) => Fit(f),
         Edit(With(documents, open, f), templates)
  PROVE  Stepped
<1>1. /\ AllGood(With(documents, open, f))
      /\ CellsFit(documents) => CellsFit(With(documents, open, f))
  BY Here, WithGood
<1>2. QED
  BY <1>1, Here, EditSteps

\* The edited sheet has no cell any more, and the others have their boxes.
LEMMA SetSheetSteps ==
  ASSUME Inv, NEW B \in SUBSET (here \cup Boxes),
         NEW cells \in {Nowhere, Without(field.cells, {page})}, SetSheet(B, cells)
  PROVE  Stepped
<1> DEFINE f == [field EXCEPT !.sheets = With(@, page, B), !.cells = cells]
<1>1. /\ DOMAIN f = {"master", "sheets", "cells"} /\ f.master = field.master
      /\ f.sheets = With(field.sheets, page, B) /\ f.cells = cells
  BY Here
<1>2. Edit(With(documents, open, f), templates)
  BY DEF SetSheet
<1> HIDE DEF f
<1>3. \A p \in DOMAIN cells : /\ p # page /\ p \in DOMAIN field.cells
                              /\ cells[p] = field.cells[p]
  BY DEF Nowhere, Without, Restrict
<1>4. Good(f)
  <2>1. B \subseteq Boxes
    BY Here
  <2>2. /\ DOMAIN f.sheets \subseteq Pages
        /\ \A p \in DOMAIN f.sheets : f.sheets[p] \subseteq Boxes
    BY <1>1, <2>1, Here DEF With, Good, IsField
  <2>3. \A p \in DOMAIN cells : p \in Pages /\ cells[p] \subseteq Boxes /\ cells[p] # {}
    BY <1>3, Here DEF Good, IsField
  <2>4. QED
    BY <1>1, <2>2, <2>3, Here DEF Good, IsField
<1>5. CellsFit(documents) => Fit(f)
  <2>1. \A p : p # page => RegionsFor(f, p) = RegionsFor(field, p)
    BY <1>1 DEF RegionsFor, With
  <2>2. QED
    BY <1>1, <1>3, <2>1, Here DEF Fit
<1>6. QED
  BY <1>2, <1>4, <1>5, SheetSteps

LEMMA UseMasterSteps ==
  ASSUME Inv, UseMaster
  PROVE  Stepped
<1> DEFINE f == [field EXCEPT !.sheets = Without(@, {page}), !.cells = Nowhere]
<1>1. /\ DOMAIN f = {"master", "sheets", "cells"} /\ f.master = field.master
      /\ f.sheets = Without(field.sheets, {page}) /\ f.cells = Nowhere
  BY Here
<1>2. Edit(With(documents, open, f), templates)
  BY DEF UseMaster
<1> HIDE DEF f
<1>3. DOMAIN f.cells = {}
  BY <1>1 DEF Nowhere
<1>4. \A p \in DOMAIN f.sheets : p \in DOMAIN field.sheets /\ f.sheets[p] = field.sheets[p]
  BY <1>1 DEF Without, Restrict
<1>5. Good(f)
  BY <1>1, <1>3, <1>4, Here DEF Good, IsField
<1>6. Fit(f)
  BY <1>3 DEF Fit
<1>7. QED
  BY <1>2, <1>5, <1>6, SheetSteps

\* An excluded sheet has no cell, so that none is left behind when it takes the
\* master's box again: this is where every cell's having a box is needed.
LEMMA RestoreExcludedSteps ==
  ASSUME Inv, RestoreExcluded
  PROVE  Stepped
<1> DEFINE f == [field EXCEPT !.sheets = Without(@, Excluded)]
<1>1. /\ DOMAIN f = {"master", "sheets", "cells"} /\ f.master = field.master
      /\ f.sheets = Without(field.sheets, Excluded) /\ f.cells = field.cells
  BY Here
<1>2. Edit(With(documents, open, f), templates)
  BY DEF RestoreExcluded
<1> HIDE DEF f
<1>3. /\ \A p \in DOMAIN f.sheets : p \in DOMAIN field.sheets /\ f.sheets[p] = field.sheets[p]
      /\ \A p : p \in DOMAIN f.sheets <=> p \in DOMAIN field.sheets \ Excluded
  BY <1>1 DEF Without, Restrict
<1>4. Good(f)
  BY <1>1, <1>3, Here DEF Good, IsField
<1>5. ASSUME Fit(field) PROVE Fit(f)
  <2>1. SUFFICES ASSUME NEW p \in DOMAIN field.cells
                 PROVE  field.cells[p] = RegionsFor(f, p)
    BY <1>1 DEF Fit
  <2>2. field.cells[p] = RegionsFor(field, p) /\ field.cells[p] # {}
    BY <1>5, Here DEF Fit, Good
  <2>3. p \notin Excluded
    BY <2>2 DEF Excluded, RegionsFor
  <2>4. QED
    BY <1>1, <1>3, <2>2, <2>3 DEF RegionsFor
<1>6. QED
  BY <1>2, <1>4, <1>5, Here, SheetSteps

LEMMA ClearSteps ==
  ASSUME Inv, Clear
  PROVE  Stepped
<1> DEFINE G == Group(paths, set, Key(set, open))
           C == [d \in DOMAIN documents |-> IF d \in G THEN Blank ELSE documents[d]]
           T == IF Key(set, open) \in DOMAIN templates
                THEN With(templates, Key(set, open), None) ELSE templates
<1>1. AllGood(C)
  BY BlankGood, Here DEF AllGood
<1>2. ASSUME \A d \in DOMAIN documents : Fit(documents[d])
      PROVE  \A d \in DOMAIN C : Fit(C[d])
  BY <1>2, BlankGood
<1>3. CellsFit(documents) => CellsFit(C)
  BY <1>2 DEF CellsFit, Fit
<1>4. GoodT(T)
  BY Here, KeyType, WithTemplate DEF Masters
<1>5. Edit(C, T)
  BY DEF Clear
<1> HIDE DEF C, T
<1>6. QED
  BY <1>1, <1>3, <1>4, <1>5, EditSteps

(* Undo, redo and the drawing set, which an extraction does not hold back *)

\* What they do during an extraction counts as a disturbance; otherwise
\* nothing is on its way.
LEMMA Disturbs ==
  ASSUME Inv, UNCHANGED <<busy, pending>>, disturbed' = busy
  PROVE  Arriving' /\ (PendingFits' \/ disturbed')
<1>1. CASE busy
  <2>1. /\ pending' = pending /\ busy' = busy /\ disturbed' = TRUE
        /\ pending \subseteq [doc : Docs, page : Pages, boxes : SUBSET Boxes, primary : BOOLEAN]
        /\ \A c \in pending : c.boxes # {}
    BY <1>1 DEF Inv, Arriving, Plain
  <2>2. QED
    BY <1>1, <2>1 DEF Arriving
<1>2. CASE ~busy
  <2>1. pending' = {} /\ ~disturbed'
    BY <1>2 DEF Inv, Arriving, Plain
  <2>2. QED
    BY <2>1 DEF Arriving, PendingFits
<1>3. QED
  BY <1>1, <1>2

\* The step of a frame: where it leaves the paths, and the viewer.
LEMMA FramePaths ==
  ASSUME Inv, NEW D, NEW T, NEW P, NEW S, Settle(D, T, P, S), P \subseteq Docs, open' \in Docs
  PROVE  paths' \subseteq Docs
BY DEF Settle, Remember

LEMMA CountedMoves ==
  ASSUME Inv, CountMove
  PROVE  moves' \in 0..MaxMoves
BY CaptureAssumption DEF CountMove, Inv, Plain

LEMMA HistStays ==
  ASSUME Inv, UNCHANGED <<undo, redo>>
  PROVE  HistKept
BY DEF Inv, HistKept, Hist

\* A snapshot was good, and so is what it brings back.
LEMMA RestoredSteps ==
  ASSUME Inv, NEW past, Restored(past), Last(past) \in Hist, HistKept
  PROVE  Stepped
<1>1. GoodSnap(Last(past)) /\ (Fits => CellsFit(Last(past)[1]))
  BY DEF Inv, Fits, Hist
<1>2. /\ Settle(Last(past)[1], Last(past)[2], paths, set) /\ CountMove
      /\ UNCHANGED <<set, open, page, loaded, busy, pending>> /\ disturbed' = busy
      /\ open' \in Docs /\ paths \subseteq Docs
  BY DEF Restored, Inv, Plain
<1>3. GoodSnap(Snapshot)' /\ (CellsFit(Last(past)[1]) => CellsFit(documents'))
  BY <1>1, <1>2, SettleGood DEF GoodSnap
<1>4. Arriving' /\ (PendingFits' \/ disturbed')
  BY <1>2, Disturbs
<1>5. paths' \subseteq Docs
  BY <1>2, FramePaths
<1>6. Plain'
  BY <1>2, <1>5, CountedMoves DEF Inv, Plain
<1>7. QED
  BY <1>1, <1>3, <1>4, <1>6 DEF Stepped

LEMMA UndoSteps ==
  ASSUME Inv, Undo
  PROVE  Stepped
<1>1. /\ Restored(undo) /\ undo # <<>>
      /\ undo' = Front(undo) /\ redo' = Append(redo, Snapshot)
      /\ Past(undo) /\ Past(redo) /\ Len(undo) + Len(redo) <= MaxUndo
  BY DEF Undo, Restored, Inv, RegionInv
<1>2. /\ ToSet(Front(undo)) \subseteq ToSet(undo) /\ Len(Front(undo)) = Len(undo) - 1
      /\ Last(undo) \in ToSet(undo) /\ Len(undo) \in Nat
  BY <1>1, HistShrinks
<1>3. /\ ToSet(Append(redo, Snapshot)) \subseteq ToSet(redo) \cup {Snapshot}
      /\ Len(redo) \in Nat /\ Len(Append(redo, Snapshot)) = Len(redo) + 1
  BY <1>1, HistGrows
<1>4. Len(undo') + Len(redo') <= MaxUndo
  BY <1>1, <1>2, <1>3, CaptureAssumption
<1>5. HistKept
  BY <1>1, <1>2, <1>3, <1>4 DEF HistKept, Hist
<1>6. QED
  BY <1>1, <1>2, <1>5, RestoredSteps DEF Hist

LEMMA RedoSteps ==
  ASSUME Inv, Redo
  PROVE  Stepped
<1>1. /\ Restored(redo) /\ redo # <<>>
      /\ redo' = Front(redo) /\ undo' = Append(undo, Snapshot)
      /\ Past(undo) /\ Past(redo) /\ Len(undo) + Len(redo) <= MaxUndo
  BY DEF Redo, Restored, Inv, RegionInv
<1>2. /\ ToSet(Front(redo)) \subseteq ToSet(redo) /\ Len(Front(redo)) = Len(redo) - 1
      /\ Last(redo) \in ToSet(redo) /\ Len(redo) \in Nat
  BY <1>1, HistShrinks
<1>3. /\ ToSet(Append(undo, Snapshot)) \subseteq ToSet(undo) \cup {Snapshot}
      /\ Len(undo) \in Nat /\ Len(Append(undo, Snapshot)) = Len(undo) + 1
  BY <1>1, HistGrows
<1>4. Len(undo') + Len(redo') <= MaxUndo
  BY <1>1, <1>2, <1>3, CaptureAssumption
<1>5. HistKept
  BY <1>1, <1>2, <1>3, <1>4 DEF HistKept, Hist
<1>6. QED
  BY <1>1, <1>2, <1>5, RestoredSteps DEF Hist

LEMMA TickSteps ==
  ASSUME Inv, NEW d \in Docs, Tick(d)
  PROVE  Stepped
<1>1. /\ Settle(documents, templates, paths, set') /\ CountMove
      /\ UNCHANGED <<open, page, loaded, undo, redo, busy, pending>> /\ disturbed' = busy
      /\ open' \in Docs /\ paths \subseteq Docs /\ set' \subseteq Docs
  BY DEF Tick, Inv, Plain
<1>2. GoodSnap(Snapshot)' /\ (CellsFit(documents) => CellsFit(documents'))
  BY <1>1, Here, SettleGood
<1>3. paths' \subseteq Docs
  BY <1>1, FramePaths
<1>4. Plain'
  BY <1>1, <1>3, CountedMoves DEF Inv, Plain
<1>5. QED
  BY <1>1, <1>2, <1>4, HistStays, Disturbs DEF Stepped, Fits

LEMMA ClearSetSteps ==
  ASSUME Inv, ClearSet
  PROVE  Stepped
<1> DEFINE T == Without(templates, {DrawingSet})
<1>1. /\ Settle(documents, T, paths, {}) /\ CountMove
      /\ UNCHANGED <<open, page, loaded, undo, redo, busy, pending>> /\ disturbed' = busy
      /\ open' \in Docs /\ paths \subseteq Docs /\ set' \subseteq Docs
  BY DEF ClearSet, Inv, Plain
<1>2. GoodT(T)
  BY Here DEF GoodT, Without, Restrict
<1> HIDE DEF T
<1>3. GoodSnap(Snapshot)' /\ (CellsFit(documents) => CellsFit(documents'))
  BY <1>1, <1>2, Here, SettleGood
<1>4. paths' \subseteq Docs
  BY <1>1, FramePaths
<1>5. Plain'
  BY <1>1, <1>4, CountedMoves DEF Inv, Plain
<1>6. QED
  BY <1>1, <1>3, <1>5, HistStays, Disturbs DEF Stepped, Fits

(* Navigation and extraction *)

\* A cell arrives where the boxes are the drawing's own, or its template's master's.
LEMMA ArrivedShape ==
  ASSUME NEW D, Shaped(D), NEW d, NEW m
  PROVE  Merge(Local(D, d), m).master = m /\ Merge(Local(D, d), m).sheets = Local(D, d).sheets
BY LocalShape, MergeShape

\* Remembering a drawing gives no drawing, kept or new, boxes of its own.
LEMMA RememberSheets ==
  ASSUME NEW D, Shaped(D), NEW T, NEW P, NEW S, NEW o, Remember(D, T, P, S, o), NEW d
  PROVE  Local(documents', d).sheets = Local(D, d).sheets
<1> DEFINE k     == Key(S, o)
           local == Local(D, o).master
           had   == IF k \in DOMAIN T THEN T[k] ELSE None
           m     == IF had = None /\ local # None THEN [local EXCEPT !.doc = o] ELSE had
           E     == With(D, o, Local(D, o))
           G     == Group(P \cup {o}, S, k)
<1>1. documents' = Synced(E, m, G)
  BY DEF Remember
<1>2. Shaped(E) /\ DOMAIN E = DOMAIN D \cup {o}
      /\ \A e \in DOMAIN E : E[e] = Local(D, e)
  <2>1. Shaped(E)
    BY LocalShape, WithShape
  <2>2. QED
    BY <2>1 DEF With, Local
<1> HIDE DEF E, m, G
<1>3. DOMAIN Synced(E, m, G) = DOMAIN E
      /\ \A e \in DOMAIN E : Synced(E, m, G)[e].sheets = E[e].sheets
  BY <1>2, SyncedShape
<1>4. QED
  BY <1>1, <1>2, <1>3 DEF Local

\* No template loses its master, no drawing its boxes, and the set stays.
Steady ==
  /\ set' = set
  /\ \A k \in DOMAIN templates :
       templates[k] # None => k \in DOMAIN templates' /\ templates'[k] = templates[k]
  /\ \A d : Local(documents', d).sheets = Local(documents, d).sheets

\* Then what is on its way still fits when it arrives.
LEMMA SteadyFits ==
  ASSUME Inv, RegionInv', Steady, UNCHANGED <<busy, disturbed>>, pending' \subseteq pending
  PROVE  Arriving' /\ (Fits => PendingFits' \/ disturbed')
<1>1. \A c \in pending : ~disturbed =>
        /\ Key(set, c.doc) \in DOMAIN templates /\ templates[Key(set, c.doc)] # None
        /\ Key(set', c.doc) \in DOMAIN templates'
        /\ templates'[Key(set', c.doc)] = templates[Key(set, c.doc)]
  BY DEF Inv, Arriving, Steady
<1>2. Arriving'
  <2>1. /\ pending' \subseteq [doc : Docs, page : Pages, boxes : SUBSET Boxes, primary : BOOLEAN]
        /\ \A c \in pending' : c.boxes # {}
    BY DEF Inv, Arriving
  <2>2. ~busy' => pending' = {} /\ ~disturbed'
    BY DEF Inv, Arriving
  <2>3. ~disturbed' => \A c \in pending' : /\ Key(set', c.doc) \in DOMAIN templates'
                                           /\ templates'[Key(set', c.doc)] # None
    BY <1>1
  <2>4. QED
    BY <2>1, <2>2, <2>3 DEF Arriving
<1>3. ASSUME PendingFits, ~disturbed, NEW c \in pending
      PROVE  c.boxes = RegionsFor(Arrived(c.doc)', c.page)
  <2>1. Shaped(documents) /\ Shaped(documents')
    BY DEF Inv, RegionInv
  <2>2. Local(documents', c.doc).sheets = Local(documents, c.doc).sheets
    BY DEF Steady
  <2> DEFINE m == templates[Key(set, c.doc)]
             n == templates'[Key(set', c.doc)]
  <2>3. Arrived(c.doc) = Merge(Local(documents, c.doc), m)
    BY <1>1, <1>3 DEF Arrived
  <2>4. Arrived(c.doc)' = Merge(Local(documents', c.doc), n)
    BY <1>1, <1>3 DEF Arrived
  <2>5. n = m
    BY <1>1, <1>3
  <2> HIDE DEF m, n
  <2>6. /\ Arrived(c.doc).master = m
        /\ Arrived(c.doc).sheets = Local(documents, c.doc).sheets
    BY <2>1, <2>3, ArrivedShape
  <2>7. /\ Arrived(c.doc)'.master = n
        /\ Arrived(c.doc)'.sheets = Local(documents', c.doc).sheets
    BY <2>1, <2>4, ArrivedShape
  <2>8. RegionsFor(Arrived(c.doc)', c.page) = RegionsFor(Arrived(c.doc), c.page)
    BY <2>2, <2>5, <2>6, <2>7 DEF RegionsFor
  <2>9. QED
    BY <1>3, <2>8 DEF PendingFits
<1>4. QED
  BY <1>2, <1>3 DEF PendingFits, Fits

\* Remembering a drawing is steady, at the end of a frame and on leaving one.
LEMMA RememberSteady ==
  ASSUME Inv, set' = set, NEW P, NEW S, NEW o, Remember(documents, templates, P, S, o)
  PROVE  Steady
<1>1. Shaped(documents)
  BY DEF Inv, RegionInv
<1>2. \A k \in DOMAIN templates :
        templates[k] # None => k \in DOMAIN templates' /\ templates'[k] = templates[k]
  BY MastersStay
<1>3. \A d : Local(documents', d).sheets = Local(documents, d).sheets
  BY <1>1, RememberSheets
<1>4. QED
  BY <1>2, <1>3 DEF Steady

LEMMA FrameSteady ==
  ASSUME Inv, set' = set,
         Leave \/ \E P : Settle(documents, templates, P, set)
  PROVE  Steady
<1>1. UNCHANGED <<documents, templates>> => Steady
  BY DEF Steady
<1>2. QED
  BY <1>1, RememberSteady DEF Leave, Settle

\* An extraction that has ended has nothing on its way.
LEMMA StopFits ==
  ASSUME Stop
  PROVE  Arriving' /\ PendingFits'
BY DEF Stop, Arriving, PendingFits

LEMMA LeaveSteps ==
  ASSUME Inv, RegionInv', Leave, UNCHANGED <<set, undo, redo, moves>>,
         open' \in Docs, page' \in Pages, loaded' \in BOOLEAN,
         UNCHANGED <<busy, pending, disturbed>> \/ Stop
  PROVE  Stepped
<1>1. GoodSnap(Snapshot)' /\ (CellsFit(documents) => CellsFit(documents'))
  BY LeaveGood DEF Inv, Plain
<1>2. Arriving' /\ (Fits => PendingFits' \/ disturbed')
  BY FrameSteady, SteadyFits, StopFits
<1>3. paths' \subseteq Docs
  BY DEF Leave, Remember, Inv, Plain
<1>4. busy' \in BOOLEAN /\ disturbed' \in BOOLEAN
  BY DEF Stop, Inv, Plain
<1>5. Plain'
  BY <1>3, <1>4 DEF Inv, Plain
<1>6. QED
  BY <1>1, <1>2, <1>5, HistStays DEF Stepped, Fits

LEMMA SelectSteps ==
  ASSUME Inv, RegionInv', NEW d \in Docs, Select(d)
  PROVE  Stepped
<1>1. /\ Leave /\ UNCHANGED <<set, undo, redo, moves>>
      /\ open' \in Docs /\ page' \in Pages /\ loaded' \in BOOLEAN
  BY CaptureAssumption DEF Select
<1>2. UNCHANGED <<busy, pending, disturbed>> \/ Stop
  BY DEF Select
<1>3. QED
  BY <1>1, <1>2, LeaveSteps

LEMMA ChangePageSteps ==
  ASSUME Inv, RegionInv', NEW p \in Pages, ChangePage(p)
  PROVE  Stepped
<1>1. /\ Leave /\ UNCHANGED <<set, undo, redo, moves, busy, pending, disturbed>>
      /\ open' \in Docs /\ page' \in Pages /\ loaded' \in BOOLEAN
  BY DEF ChangePage, Inv, Plain
<1>2. QED
  BY <1>1, LeaveSteps

\* Asking for the same page again only takes it off the screen.
LEMMA RetrySteps ==
  ASSUME Inv, Retry
  PROVE  Stepped
<1>1. /\ loaded' = FALSE
      /\ UNCHANGED <<documents, templates, paths, set, open, page, undo, redo,
                     busy, pending, disturbed, moves>>
  BY DEF Retry
<1>2. GoodSnap(Snapshot)' /\ Plain' /\ HistKept
  BY <1>1, HistStays DEF Inv, Plain, GoodSnap, Snapshot
<1>3. Arriving' /\ (Fits => CellsFit(documents') /\ PendingFits')
  BY <1>1 DEF Inv, Arriving, Fits, PendingFits, Arrived, Local, Key
<1>4. QED
  BY <1>2, <1>3 DEF Stepped

LEMMA LoadSteps ==
  ASSUME Inv, RegionInv', Load
  PROVE  Stepped
<1>1. /\ Settle(documents, templates, paths, set) /\ loaded' = TRUE
      /\ UNCHANGED <<set, open, page, undo, redo, busy, pending, disturbed, moves>>
      /\ open' \in Docs /\ paths \subseteq Docs
  BY DEF Load, Inv, Plain
<1>2. GoodSnap(Snapshot)' /\ (CellsFit(documents) => CellsFit(documents'))
  BY <1>1, Here, SettleGood
<1>3. Arriving' /\ (Fits => PendingFits' \/ disturbed')
  BY <1>1, FrameSteady, SteadyFits
<1>4. paths' \subseteq Docs
  BY <1>1, FramePaths
<1>5. Plain'
  BY <1>1, <1>4 DEF Inv, Plain
<1>6. QED
  BY <1>1, <1>2, <1>3, <1>5, HistStays DEF Stepped, Fits

\* What the worker reads: the drawings of one template, whose master the open
\* drawing's is.
LEMMA ExtractArriving ==
  ASSUME Inv, RegionInv', Extract
  PROVE  Arriving' /\ PendingFits'
<1>1. /\ loaded /\ ~busy /\ field.master # None /\ busy' = TRUE
      /\ Settle(documents, templates, paths, set)
      /\ pending' = UNION {Cells(d) : d \in {open} \cup Targets}
      /\ UNCHANGED <<set, disturbed>>
  BY DEF Extract
<1>2. /\ Shaped(documents) /\ MastersAgree /\ open \in paths /\ open \in DOMAIN documents
      /\ open \in Docs /\ set \subseteq Docs /\ ~disturbed
  BY <1>1 DEF Inv, RegionInv, OpenIsKnown, Plain, Arriving
<1> DEFINE k == Key(set, open)
           m == field.master
<1>3. k \in DOMAIN templates /\ templates[k] = m /\ m # None /\ m \in Masters
  <2>1. open \in Group(paths, set, k)
    BY <1>2 DEF Group
  <2>2. field = documents[open]
    BY <1>2 DEF field, Local
  <2>3. m \in Masters
    BY Here DEF Good, IsField
  <2>4. QED
    BY <1>1, <1>2, <2>1, <2>2, <2>3 DEF MastersAgree
<1>4. Steady
  BY <1>1, FrameSteady
<1>5. k \in DOMAIN templates' /\ templates'[k] = m /\ set' = set
  BY <1>1, <1>3, <1>4 DEF Steady
<1>6. \A d \in {open} \cup Targets : d \in Docs /\ Key(set, d) = k
  BY <1>2 DEF Targets, Key
<1> HIDE DEF k, m
<1>7. ASSUME NEW d \in {open} \cup Targets, NEW c \in Cells(d)
      PROVE  /\ c \in [doc : Docs, page : Pages, boxes : SUBSET Boxes, primary : BOOLEAN]
             /\ c.boxes # {} /\ Key(set, c.doc) = k
             /\ c.boxes = RegionsFor(Arrived(c.doc)', c.page)
  <2> DEFINE f == [Local(documents, d) EXCEPT !.master = m]
  <2>1. PICK p \in Pages : /\ RegionsFor(f, p) # {}
                           /\ c = [doc |-> d, page |-> p, boxes |-> RegionsFor(f, p),
                                   primary |-> d = open]
    BY <1>7 DEF Cells, m
  <2>2. Good(Local(documents, d))
    BY Here, LocalGood
  <2>3. /\ DOMAIN f = {"master", "sheets", "cells"} /\ f.master = m
        /\ f.sheets = Local(documents, d).sheets
    BY <2>2 DEF Good, IsField
  <2> HIDE DEF f
  <2>4. m # None => {m.box} \subseteq Boxes
    BY <1>3 DEF Masters
  <2>5. RegionsFor(f, p) \subseteq Boxes
    BY <2>2, <2>3, <2>4 DEF RegionsFor, Good, IsField
  <2>6. c.doc = d /\ c.page = p /\ c.boxes = RegionsFor(f, p)
    BY <2>1
  <2>7. c \in [doc : Docs, page : Pages, boxes : SUBSET Boxes, primary : BOOLEAN]
    BY <1>6, <2>1, <2>5
  <2>8. Key(set', d) = k
    BY <1>5, <1>6
  <2>9. Arrived(d)' = Merge(Local(documents', d), m)
    BY <1>5, <2>8 DEF Arrived
  <2>10. /\ Arrived(d)'.master = m
         /\ Arrived(d)'.sheets = Local(documents', d).sheets
    <3>1. Shaped(documents')
      BY DEF RegionInv
    <3>2. QED
      BY <2>9, <3>1, ArrivedShape
  <2>11. Local(documents', d).sheets = Local(documents, d).sheets
    BY <1>4 DEF Steady
  <2>12. RegionsFor(Arrived(d)', p) = RegionsFor(f, p)
    BY <2>3, <2>10, <2>11 DEF RegionsFor
  <2>13. QED
    BY <1>6, <2>1, <2>6, <2>7, <2>12
<1>8. \A c \in pending' :
        /\ c \in [doc : Docs, page : Pages, boxes : SUBSET Boxes, primary : BOOLEAN]
        /\ c.boxes # {} /\ Key(set, c.doc) = k
        /\ c.boxes = RegionsFor(Arrived(c.doc)', c.page)
  BY <1>1, <1>7
<1>9. PendingFits'
  BY <1>8 DEF PendingFits
<1>10. Arriving'
  BY <1>1, <1>3, <1>5, <1>8 DEF Arriving
<1>11. QED
  BY <1>9, <1>10

LEMMA ExtractSteps ==
  ASSUME Inv, RegionInv', Extract
  PROVE  Stepped
<1>1. /\ Settle(documents, templates, paths, set) /\ CountMove /\ busy' = TRUE
      /\ UNCHANGED <<set, open, page, loaded, undo, redo, disturbed>>
      /\ open' \in Docs /\ paths \subseteq Docs
  BY DEF Extract, Inv, Plain
<1>2. GoodSnap(Snapshot)' /\ (CellsFit(documents) => CellsFit(documents'))
  BY <1>1, Here, SettleGood
<1>3. paths' \subseteq Docs
  BY <1>1, FramePaths
<1>4. Plain'
  BY <1>1, <1>3, CountedMoves DEF Inv, Plain
<1>5. QED
  BY <1>1, <1>2, <1>4, HistStays, ExtractArriving DEF Stepped, Fits

\* A drawing's fields when a cell of it arrives.
LEMMA ArrivedGood ==
  ASSUME Inv, NEW d \in Docs
  PROVE  /\ Good(Arrived(d)) /\ (CellsFit(documents) => Fit(Arrived(d)))
         /\ Arrived(d).sheets = Local(documents, d).sheets
<1>1. /\ Good(Local(documents, d)) /\ (CellsFit(documents) => Fit(Local(documents, d)))
      /\ Shaped(documents)
  BY Here, LocalGood DEF Inv, RegionInv
<1>2. CASE Key(set, d) \in DOMAIN templates
  <2>1. templates[Key(set, d)] \in Masters
    BY <1>2, Here DEF GoodT
  <2>2. Arrived(d) = Merge(Local(documents, d), templates[Key(set, d)])
    BY <1>2 DEF Arrived
  <2>3. QED
    BY <1>1, <2>1, <2>2, MergeGood, ArrivedShape
<1>3. CASE Key(set, d) \notin DOMAIN templates
  BY <1>1, <1>3 DEF Arrived
<1>4. QED
  BY <1>2, <1>3

LEMMA PollSteps ==
  ASSUME Inv, RegionInv', Poll
  PROVE  Stepped
<1>1. PICK c \in Due :
        /\ pending' = pending \ {c}
        /\ Settle(With(documents, c.doc,
                       [Arrived(c.doc) EXCEPT !.cells = With(@, c.page, c.boxes)]),
                  templates, paths \cup {c.doc}, set)
  BY DEF Poll
<1> DEFINE A == Arrived(c.doc)
           f == [A EXCEPT !.cells = With(@, c.page, c.boxes)]
           D == With(documents, c.doc, f)
<1>2. /\ c \in pending /\ c.doc \in Docs /\ c.page \in Pages /\ c.boxes \subseteq Boxes
      /\ c.boxes # {}
  BY DEF Due, Inv, Arriving
<1>3. UNCHANGED <<set, open, page, loaded, undo, redo, busy, disturbed, moves>>
  BY DEF Poll
<1>4. Good(A) /\ (CellsFit(documents) => Fit(A)) /\ A.sheets = Local(documents, c.doc).sheets
  BY <1>2, ArrivedGood
<1>5. /\ DOMAIN f = {"master", "sheets", "cells"} /\ f.master = A.master
      /\ f.sheets = A.sheets /\ f.cells = With(A.cells, c.page, c.boxes)
  BY <1>4 DEF Good, IsField
<1>6. Settle(D, templates, paths \cup {c.doc}, set)
  BY <1>1
<1>7. PendingFits => c.boxes = RegionsFor(A, c.page)
  BY <1>2 DEF PendingFits
<1> HIDE DEF f, A
<1>8. Good(f)
  BY <1>2, <1>4, <1>5 DEF Good, IsField, With
<1>9. ASSUME CellsFit(documents), PendingFits PROVE Fit(f)
  <2>1. \A p : RegionsFor(f, p) = RegionsFor(A, p)
    BY <1>5 DEF RegionsFor
  <2>2. QED
    BY <1>4, <1>5, <1>7, <1>9, <2>1 DEF Fit, With
<1>10. AllGood(D) /\ (CellsFit(documents) /\ Fit(f) => CellsFit(D))
  BY <1>2, <1>8, Here, WithGood
<1>11. \A d : Local(D, d).sheets = Local(documents, d).sheets
  BY <1>4, <1>5 DEF Local, With
<1>12. Shaped(D)
  BY <1>5, WithShape DEF Inv, RegionInv
<1> HIDE DEF D
<1>13. Steady
  <2>1. CASE loaded'
    <3>1. Remember(D, templates, paths \cup {c.doc}, set, open')
      BY <1>6, <2>1 DEF Settle
    <3>2. \A k \in DOMAIN templates :
            templates[k] # None => k \in DOMAIN templates' /\ templates'[k] = templates[k]
      BY <3>1, MastersStay
    <3>3. \A d : Local(documents', d).sheets = Local(D, d).sheets
      BY <1>12, <3>1, RememberSheets
    <3>4. QED
      BY <1>3, <1>11, <3>2, <3>3 DEF Steady
  <2>2. CASE ~loaded'
    BY <1>3, <1>6, <1>11, <2>2 DEF Settle, Steady
  <2>3. QED
    BY <2>1, <2>2
<1>14. Arriving' /\ (Fits => PendingFits' \/ disturbed')
  BY <1>1, <1>3, <1>13, SteadyFits
<1>15. GoodSnap(Snapshot)' /\ (CellsFit(D) => CellsFit(documents'))
  <2>1. open' \in Docs
    BY <1>3, Here
  <2>2. QED
    BY <1>6, <1>10, <2>1, Here, SettleGood
<1>16. Fits => CellsFit(documents')
  BY <1>9, <1>10, <1>15 DEF Fits, PendingFits
<1>17. paths' \subseteq Docs
  <2>1. paths \cup {c.doc} \subseteq Docs /\ open' \in Docs
    BY <1>2, <1>3 DEF Inv, Plain
  <2>2. QED
    BY <1>6, <2>1, FramePaths
<1>18. Plain'
  BY <1>3, <1>17 DEF Inv, Plain
<1>19. HistKept
  BY <1>3, HistStays
<1>20. QED
  BY <1>14, <1>15, <1>16, <1>18, <1>19 DEF Stepped

\* What leaves the fields alone: a drawing passed over, and the end.
LEMMA SkipSteps ==
  ASSUME Inv, RegionInv', Skip
  PROVE  Stepped
<1>1. /\ pending' \subseteq pending
      /\ UNCHANGED <<documents, templates, paths, set, open, page, loaded,
                     undo, redo, busy, disturbed, moves>>
  BY DEF Skip
<1>2. Steady
  BY <1>1 DEF Steady
<1>3. Arriving' /\ (Fits => PendingFits' \/ disturbed')
  BY <1>1, <1>2, SteadyFits
<1>4. GoodSnap(Snapshot)' /\ Plain' /\ HistKept
  BY <1>1, HistStays DEF Inv, Plain, GoodSnap, Snapshot
<1>5. QED
  BY <1>1, <1>3, <1>4 DEF Stepped, Fits

LEMMA FinishSteps ==
  ASSUME Inv, Finish
  PROVE  Stepped
<1>1. /\ Stop
      /\ UNCHANGED <<documents, templates, paths, set, open, page, loaded, undo, redo, moves>>
  BY DEF Finish
<1>2. GoodSnap(Snapshot)' /\ Plain' /\ HistKept
  BY <1>1, HistStays DEF Inv, Plain, GoodSnap, Snapshot, Stop
<1>3. QED
  BY <1>1, <1>2, StopFits DEF Stepped, Fits

\* Every step pays what it owes, and so keeps the invariant.
LEMMA NextSteps ==
  ASSUME Inv, Next
  PROVE  Stepped /\ Inv'
<1>1. RegionInv'
  <2>1. RegionInv /\ [Next]_vars
    BY DEF Inv
  <2>2. QED
    BY <2>1, StepKeeps
<1>2. ASSUME Redrawn PROVE Stepped
  BY <1>2, SetMasterSteps, SetSheetSteps DEF Redrawn
<1>3. ASSUME UseMaster \/ RestoreExcluded \/ Clear PROVE Stepped
  BY <1>3, UseMasterSteps, RestoreExcludedSteps, ClearSteps
<1>4. ASSUME Undo \/ Redo \/ ClearSet PROVE Stepped
  BY <1>4, UndoSteps, RedoSteps, ClearSetSteps
<1>5. ASSUME \E d \in Docs : Tick(d) \/ Select(d) PROVE Stepped
  BY <1>1, <1>5, TickSteps, SelectSteps
<1>6. ASSUME \E p \in Pages : ChangePage(p) PROVE Stepped
  BY <1>1, <1>6, ChangePageSteps
<1>7. ASSUME Retry \/ Load \/ Extract \/ Poll \/ Skip \/ Finish PROVE Stepped
  BY <1>1, <1>7, RetrySteps, LoadSteps, ExtractSteps, PollSteps, SkipSteps, FinishSteps
<1>8. Stepped
  BY <1>2, <1>3, <1>4, <1>5, <1>6, <1>7, BoxEdits DEF Next
<1>9. \A s \in Hist' : GoodSnap(s)
  BY <1>8 DEF Stepped, HistKept, Inv
<1>10. QED
  BY <1>1, <1>8, <1>9 DEF Inv, Stepped, HistKept

\* An undo list that is too long, a snapshot without its fields, a cell read
\* from no box or on its way without a master: none can be reached.
THEOREM RegionsInvariance == Spec => []Inv
<1>1. ASSUME Init PROVE Inv
  <2>1. RegionInv
    BY <1>1, PastEmpty DEF Init, RegionInv, Shaped, OpenIsKnown, MastersAgree
  <2>2. GoodSnap(Snapshot) /\ Hist = {} /\ Len(undo) + Len(redo) <= MaxUndo
    <3>1. Len(undo) = 0 /\ Len(redo) = 0 /\ Hist = {}
      BY <1>1 DEF Init, Hist, ToSet
    <3>2. GoodSnap(Snapshot)
      BY <1>1 DEF Init, GoodSnap, Snapshot, AllGood, GoodT
    <3>3. QED
      BY <3>1, <3>2, CaptureAssumption
  <2>3. Plain
    <3>1. page \in Pages /\ moves \in 0..MaxMoves
      BY <1>1, CaptureAssumption DEF Init
    <3>2. loaded \in BOOLEAN /\ busy \in BOOLEAN /\ disturbed \in BOOLEAN
      BY <1>1 DEF Init
    <3>3. QED
      BY <1>1, <3>1, <3>2 DEF Init, Plain
  <2>4. Arriving
    BY <1>1 DEF Init, Arriving
  <2>5. QED
    BY <2>1, <2>2, <2>3, <2>4 DEF Inv
<1>2. Inv /\ UNCHANGED vars => Inv'
  <2>1. SUFFICES ASSUME Inv, UNCHANGED vars PROVE Inv'
    OBVIOUS
  <2>2. UNCHANGED <<documents, templates, paths, set, open, page, loaded, undo, redo,
                    busy, pending, disturbed, moves>>
    BY <2>1 DEF vars
  <2>3. RegionInv'
    BY <2>1, StepKeeps DEF Inv
  <2>4. GoodSnap(Snapshot)' /\ Hist' = Hist /\ Plain' /\ Arriving'
    BY <2>1, <2>2 DEF Inv, GoodSnap, Snapshot, Hist, Plain, Arriving
  <2>5. QED
    BY <2>1, <2>2, <2>3, <2>4 DEF Inv
<1>3. Inv /\ [Next]_vars => Inv'
  BY <1>2, NextSteps
<1>4. QED
  BY <1>1, <1>3, PTL DEF Spec

\* Every variable has its type, and undo and redo together never hold more
\* than MaxUndo snapshots (checkpoint_regions drops the oldest).
THEOREM RegionTypes == Spec => []TypeOK
<1>1. ASSUME NEW s, GoodSnap(s) PROVE IsSnapshot(s)
  BY <1>1 DEF GoodSnap, AllGood, GoodT, Good, IsSnapshot
<1>2. ASSUME Inv PROVE TypeOK
  <2>1. IsSnapshot(Snapshot) /\ \A s \in ToSet(undo) \cup ToSet(redo) : IsSnapshot(s)
    BY <1>1, <1>2 DEF Inv, Hist
  <2>2. QED
    BY <1>2, <2>1 DEF Inv, Plain, Arriving, TypeOK
<1>3. QED
  BY <1>2, RegionsInvariance, PTL

\* "Invalidate derived captures": no step makes a captured value, shown, kept
\* for undo or still on its way, belong to other boxes than those it is shown
\* with, unless undo or the set was changed while an extraction went on.
THEOREM CapturesInvalidated == Spec => EditsInvalidate
<1>1. ASSUME Inv, Next, Fits PROVE Fits' \/ disturbed'
  <2>1. Stepped
    BY <1>1, NextSteps
  <2>2. \A s \in Hist' : CellsFit(s[1])
    <3>1. CellsFit(Snapshot[1])
      BY <1>1 DEF Fits, Snapshot
    <3>2. QED
      BY <1>1, <2>1, <3>1 DEF Stepped, HistKept, Fits, Hist
  <2>3. QED
    BY <1>1, <2>1, <2>2 DEF Stepped, Fits, PendingFits, Hist
<1>2. Inv /\ [Next]_vars => [Fits => Fits' \/ disturbed']_vars
  BY <1>1
<1>3. QED
  BY <1>2, RegionsInvariance, PTL DEF Spec, EditsInvalidate
=============================================================================
