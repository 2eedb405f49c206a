--------------------------- MODULE CaptureRegions ---------------------------
(***************************************************************************)
(* The capture regions of the Rust viewer (capture.rs): one field, read    *)
(* from every sheet, whose box is drawn once and repeated.                 *)
(*                                                                         *)
(* The box drawn first is the master; it is kept in the template of the    *)
(* drawing set, or of the file when the drawing is in no set, and copied   *)
(* to every drawing of the set.  A sheet may have boxes of its own, or be  *)
(* excluded.  Extraction reads the boxes in a process of its own while the *)
(* user goes on; what it read is a cell of the sheet.                      *)
(*                                                                         *)
(* At the end of every frame that has its page the viewer remembers the    *)
(* open drawing (Settle), so every action ends with it.                    *)
(*                                                                         *)
(* A drawing is its file: a file that changes under the viewer is left     *)
(* out, as are fields read once per set, names, edited cells, saved        *)
(* captures and the pointer's geometry.                                    *)
(***************************************************************************)
EXTENDS Naturals, FiniteSets, SequencesExt

CONSTANTS
  Docs,        \* the drawings, numbered in the order of their paths
  Pages,       \* their sheets; the first is 0
  Boxes,       \* the places of a box on a sheet, from top to bottom
  DrawingSet,  \* the key of the template the ticked drawings share
  None,        \* no master
  MaxUndo,     \* capture.rs keeps 50 steps
  MaxMoves     \* bound on the edits, undos, ticks and extractions

ASSUME CaptureAssumption ==
  /\ 0 \in Pages /\ Pages \subseteq Nat /\ Boxes \subseteq Nat
  /\ Docs \subseteq Nat /\ DrawingSet \notin Docs
  /\ MaxUndo \in Nat \ {0} /\ MaxMoves \in Nat

VARIABLES
  documents,  \* per drawing: its copy of the master, its own boxes, its cells
  templates,  \* per set or file: the master
  paths,      \* the drawings whose identity is known
  set,        \* the drawings ticked
  open, page, \* what the viewer shows
  loaded,     \* the page's dimensions have arrived
  undo, redo, \* snapshots of documents and templates
  busy,       \* an extraction runs
  pending,    \* the cells it will still report, see Due
  disturbed,  \* history: undo, redo or the set changed during the extraction
  moves       \* bounded count of edits, undos, ticks and extractions

vars == <<documents, templates, paths, set, open, page, loaded,
          undo, redo, busy, pending, disturbed, moves>>

\* A page outside the domain of sheets inherits the master; {} excludes it.
\* A cell is the set of boxes it was read from.
Nowhere == [p \in {} |-> {}]
Blank == [master |-> None, sheets |-> Nowhere, cells |-> Nowhere]
Local(D, d) == IF d \in DOMAIN D THEN D[d] ELSE Blank
With(f, x, y) == [z \in DOMAIN f \cup {x} |-> IF z = x THEN y ELSE f[z]]
Without(f, S) == Restrict(f, DOMAIN f \ S)

RegionsFor(field, p) ==
  IF p \in DOMAIN field.sheets THEN field.sheets[p]
  ELSE IF field.master = None THEN {} ELSE {field.master.box}

SameRegion(m, n) ==
  \/ m = n
  \/ None \notin {m, n} /\ m.page = n.page /\ m.box = n.box

Merge_Resets(field, m) ==
  [field EXCEPT !.master = m,
                !.sheets = IF SameRegion(field.master, m) THEN @ ELSE Nowhere,
                !.cells = IF SameRegion(field.master, m) THEN @ ELSE Nowhere]

Merge_KeepsCells(field, m) == [field EXCEPT !.master = m]

\* A drawing takes the master over; what was read with another one goes.
Merge(field, m) ==
  [field EXCEPT !.master = m,
                !.cells = IF SameRegion(field.master, m) THEN @ ELSE Nowhere]

Key(S, d) == IF d \in S THEN DrawingSet ELSE d
Group(P, S, k) == {d \in P : Key(S, d) = k}
Synced(D, m, G) == [d \in DOMAIN D |-> IF d \in G THEN Merge(D[d], m) ELSE D[d]]

-----------------------------------------------------------------------------
Remember_Alone(D, T, P, S, o) ==
  LET k     == Key(S, o)
      local == Local(D, o).master
      had   == IF k \in DOMAIN T THEN T[k] ELSE None
      m     == IF had = None /\ local # None THEN [local EXCEPT !.doc = o] ELSE had
  IN /\ documents' = Synced(With(D, o, Local(D, o)), m, {o})
     /\ templates' = With(T, k, m)
     /\ paths' = P \cup {o}

Remember_TakesOver(D, T, P, S, o) ==
  LET k     == Key(S, o)
      local == Local(D, o).master
      had   == IF k \in DOMAIN T THEN T[k] ELSE None
      m     == IF local # None THEN [local EXCEPT !.doc = o] ELSE had
      known == P \cup {o}
  IN /\ documents' = Synced(With(D, o, Local(D, o)), m, Group(known, S, k))
     /\ templates' = With(T, k, m)
     /\ paths' = known

\* The open drawing o is known, seeds a template that has no master, and all
\* drawings of that template take its master over.
Remember(D, T, P, S, o) ==
  LET k     == Key(S, o)
      local == Local(D, o).master
      had   == IF k \in DOMAIN T THEN T[k] ELSE None
      m     == IF had = None /\ local # None THEN [local EXCEPT !.doc = o] ELSE had
      known == P \cup {o}
  IN /\ documents' = Synced(With(D, o, Local(D, o)), m, Group(known, S, k))
     /\ templates' = With(T, k, m)
     /\ paths' = known

\* The end of a frame.
Settle(D, T, P, S) ==
  IF loaded' THEN Remember(D, T, P, S, open')
  ELSE documents' = D /\ templates' = T /\ paths' = P

\* Drawings may have been ticked in an earlier session.
Init ==
  /\ documents = [d \in {} |-> Blank] /\ templates = [k \in {} |-> None]
  /\ paths = {} /\ set \in SUBSET Docs
  /\ open \in Docs /\ page = 0 /\ loaded = FALSE
  /\ undo = <<>> /\ redo = <<>>
  /\ busy = FALSE /\ pending = {} /\ disturbed = FALSE /\ moves = 0

-----------------------------------------------------------------------------
(* Edits.                                                                   *)

CountMove == moves < MaxMoves /\ moves' = moves + 1

Snapshot == <<documents, templates>>

Checkpoint_Unbounded ==
  /\ undo' = Append(undo, Snapshot)
  /\ redo' = <<>>

Checkpoint ==
  /\ undo' = Append(IF Len(undo) = MaxUndo THEN Tail(undo) ELSE undo, Snapshot)
  /\ redo' = <<>>

\* An edit needs a page and no extraction; it goes into the undo list.
Edit(D, T) ==
  /\ loaded /\ ~busy
  /\ CountMove
  /\ Checkpoint
  /\ UNCHANGED <<set, open, page, loaded, busy, pending, disturbed>>
  /\ Settle(D, T, paths, set)

field == Local(documents, open)
here == RegionsFor(field, page)

\* The sheet the master was drawn on, unless it has boxes of its own.  That
\* the sheet may be excluded is not looked at.
IsMaster ==
  \/ field.master = None
  \/ /\ field.master.doc = open /\ field.master.page = page
     /\ page \in DOMAIN field.sheets => field.sheets[page] = {}

SetMaster(b) ==
  LET G == Group(paths, set, Key(set, open))
      m == [doc |-> open, page |-> page, box |-> b]
  IN Edit(Synced([d \in DOMAIN documents |->
                    IF d \in G THEN [documents[d] EXCEPT !.cells = Nowhere]
                               ELSE documents[d]], m, G),
          With(templates, Key(set, open), m))

SetSheet(B, cells) ==
  Edit(With(documents, open, [field EXCEPT !.sheets = With(@, page, B), !.cells = cells]),
       templates)

\* A new box never hits an old one exactly.  Without "Add another box" it
\* takes the place of the sheet's first.
Commit(b) ==
  IF IsMaster THEN SetMaster(b)
  ELSE SetSheet(IF Cardinality(here) > 1 THEN (here \ {Min(here)}) \cup {b} ELSE {b},
                Without(field.cells, {page}))

Draw(b) == b \notin here /\ Commit(b)

\* "Add another box"; a paste does the same with several boxes at once.  Left
\* out are a paste of several before there is a master, and a box pasted on
\* exactly the place of another.
DrawAnother(X) ==
  /\ X # {} /\ X \cap here = {}
  /\ IF field.master = None THEN \E b \in X : X = {b} /\ SetMaster(b)
     ELSE SetSheet(here \cup X, Without(field.cells, {page}))

\* The boxes X are dragged to Y.
Move(X, Y) ==
  /\ X # {} /\ X \subseteq here /\ Cardinality(Y) = Cardinality(X)
  /\ Y \cap here = {}
  /\ IF Cardinality(here) = 1 THEN \E b \in Y : Commit(b)
     ELSE SetSheet((here \ X) \cup Y, Nowhere)

Delete(X) == X # {} /\ X \subseteq here /\ SetSheet(here \ X, Nowhere)

RemoveOnSheet == SetSheet({}, Nowhere)

UseMaster ==
  Edit(With(documents, open, [field EXCEPT !.sheets = Without(@, {page}), !.cells = Nowhere]),
       templates)

Excluded == {p \in DOMAIN field.sheets : field.sheets[p] = {}}

RestoreExcluded ==
  /\ Excluded # {}
  /\ Edit(With(documents, open, [field EXCEPT !.sheets = Without(@, Excluded)]), templates)

\* "Clear field everywhere", and with one field "Clear all regions".
Clear ==
  LET k == Key(set, open)
      G == Group(paths, set, k)
  IN Edit([d \in DOMAIN documents |-> IF d \in G THEN Blank ELSE documents[d]],
          IF k \in DOMAIN templates THEN With(templates, k, None) ELSE templates)

\* The buttons look neither at the page nor at the extraction.
Restored(past) ==
  /\ past # <<>>
  /\ CountMove
  /\ disturbed' = busy
  /\ UNCHANGED <<set, open, page, loaded, busy, pending>>
  /\ Settle(Last(past)[1], Last(past)[2], paths, set)

Undo ==
  /\ Restored(undo)
  /\ undo' = Front(undo) /\ redo' = Append(redo, Snapshot)

Redo ==
  /\ Restored(redo)
  /\ redo' = Front(redo) /\ undo' = Append(undo, Snapshot)

-----------------------------------------------------------------------------
(* Navigation and the drawing set; all of it goes on during an extraction.  *)

\* A tick in the file tree, or "Add current".
Tick(d) ==
  /\ set' = IF d \in set THEN set \ {d} ELSE set \cup {d}
  /\ CountMove
  /\ disturbed' = busy
  /\ UNCHANGED <<open, page, loaded, undo, redo, busy, pending>>
  /\ Settle(documents, templates, paths, set')

ClearSet ==
  /\ set' = {}
  /\ CountMove
  /\ disturbed' = busy
  /\ UNCHANGED <<open, page, loaded, undo, redo, busy, pending>>
  /\ Settle(documents, Without(templates, {DrawingSet}), paths, {})

\* What the frame shows is remembered before it is left.
Leave == IF loaded THEN Remember(documents, templates, paths, set, open)
         ELSE UNCHANGED <<documents, templates, paths>>

Stop == busy' = FALSE /\ pending' = {} /\ disturbed' = FALSE

\* An extraction goes on when both drawings are in the set.
Select(d) ==
  /\ Leave
  /\ open' = d /\ page' = 0 /\ loaded' = FALSE
  /\ IF {d, open} \subseteq set THEN UNCHANGED <<busy, pending, disturbed>>
     ELSE Stop
  /\ UNCHANGED <<set, undo, redo, moves>>

ChangePage(p) ==
  /\ p # page
  /\ Leave
  /\ page' = p /\ loaded' = FALSE
  /\ UNCHANGED <<set, open, undo, redo, busy, pending, disturbed, moves>>

\* "Retry PDF": the same page is asked for again.
Retry ==
  /\ loaded' = FALSE
  /\ UNCHANGED <<documents, templates, paths, set, open, page, undo, redo,
                 busy, pending, disturbed, moves>>

\* The page's dimensions arrive and activate the drawing.
Load ==
  /\ ~loaded
  /\ loaded' = TRUE
  /\ UNCHANGED <<set, open, page, undo, redo, busy, pending, disturbed, moves>>
  /\ Settle(documents, templates, paths, set)

-----------------------------------------------------------------------------
(* Extraction.                                                              *)

\* The worker reads the open drawing and the others of its set with the fields
\* as they are now: the open drawing's master, each one's own sheets.
Cells(d) ==
  LET f == [Local(documents, d) EXCEPT !.master = field.master]
  IN {[doc |-> d, page |-> p, boxes |-> RegionsFor(f, p), primary |-> d = open] :
        p \in {q \in Pages : RegionsFor(f, q) # {}}}

Targets == IF open \in set THEN set \ {open} ELSE {}

\* The open drawing is read first, then the others in turn, page by page.
Sooner(b, c) ==
  \/ b.primary /\ ~c.primary
  \/ b.primary = c.primary /\ b.doc < c.doc
  \/ b.doc = c.doc /\ b.page < c.page

Due == {c \in pending : \A b \in pending : ~Sooner(b, c)}

Extract ==
  /\ loaded /\ ~busy /\ field.master # None
  /\ CountMove
  /\ busy' = TRUE
  /\ pending' = UNION {Cells(d) : d \in {open} \cup Targets}
  /\ UNCHANGED <<set, open, page, loaded, undo, redo, disturbed>>
  /\ Settle(documents, templates, paths, set)

\* A drawing's fields when a cell of it arrives.
Arrived(d) ==
  LET k == Key(set, d)
  IN IF k \in DOMAIN templates THEN Merge(Local(documents, d), templates[k])
     ELSE Local(documents, d)

Poll ==
  /\ UNCHANGED <<set, open, page, loaded, undo, redo, busy, disturbed, moves>>
  /\ \E c \in Due :
       /\ pending' = pending \ {c}
       /\ Settle(With(documents, c.doc,
                      [Arrived(c.doc) EXCEPT !.cells = With(@, c.page, c.boxes)]),
                 templates, paths \cup {c.doc}, set)

\* Another drawing that cannot be read is warned of and passed over.
Skip ==
  /\ \E c \in Due : ~c.primary /\ pending' = {b \in pending : b.doc # c.doc}
  /\ UNCHANGED <<documents, templates, paths, set, open, page, loaded,
                 undo, redo, busy, disturbed, moves>>

\* Done, an error, a time-out or Cancel.
Finish ==
  /\ busy
  /\ Stop
  /\ UNCHANGED <<documents, templates, paths, set, open, page, loaded,
                 undo, redo, moves>>

Next ==
  \/ \E b \in Boxes : Draw(b)
  \/ \E X \in SUBSET Boxes : DrawAnother(X)
  \/ \E X, Y \in SUBSET Boxes : Move(X, Y)
  \/ \E X \in SUBSET Boxes : Delete(X)
  \/ RemoveOnSheet \/ UseMaster \/ RestoreExcluded \/ Clear
  \/ Undo \/ Redo
  \/ \E d \in Docs : Tick(d) \/ Select(d)
  \/ ClearSet
  \/ \E p \in Pages : ChangePage(p)
  \/ Retry \/ Load \/ Extract \/ Poll \/ Skip \/ Finish

Spec == Init /\ [][Next]_vars

-----------------------------------------------------------------------------
(* Properties.                                                              *)

Masters == [doc : Docs, page : Pages, box : Boxes] \cup {None}

IsField(f) ==
  /\ DOMAIN f = {"master", "sheets", "cells"}
  /\ f.master \in Masters
  /\ \A g \in {f.sheets, f.cells} :
       DOMAIN g \subseteq Pages /\ \A p \in DOMAIN g : g[p] \subseteq Boxes

IsSnapshot(s) ==
  /\ DOMAIN s[1] \subseteq Docs /\ \A d \in DOMAIN s[1] : IsField(s[1][d])
  /\ DOMAIN s[2] \subseteq Docs \cup {DrawingSet}
  /\ \A k \in DOMAIN s[2] : s[2][k] \in Masters

\* Every variable has its type, and the undo list never holds more than
\* MaxUndo snapshots (checkpoint_regions drops the oldest): each is a copy of
\* every capture of the workspace.
TypeOK ==
  /\ IsSnapshot(Snapshot)
  /\ \A s \in ToSet(undo) \cup ToSet(redo) : IsSnapshot(s)
  /\ Len(undo) + Len(redo) <= MaxUndo
  /\ paths \subseteq Docs /\ set \subseteq Docs
  /\ open \in Docs /\ page \in Pages
  /\ loaded \in BOOLEAN /\ busy \in BOOLEAN /\ disturbed \in BOOLEAN
  /\ moves \in 0..MaxMoves
  /\ pending \subseteq [doc : Docs, page : Pages, boxes : SUBSET Boxes, primary : BOOLEAN]
  /\ ~busy => pending = {} /\ ~disturbed

\* When a page is shown, the drawings of its set agree on the master: what an
\* extraction of the set reads is what any of them would show.  Edits, undo,
\* ticks, cells arriving and navigation all have to re-establish it
\* (sync_group), in whatever order the drawings were opened and ticked.
MastersAgree ==
  loaded =>
    LET k == Key(set, open)
    IN /\ k \in DOMAIN templates
       /\ \A d \in Group(paths, set, k) \cap DOMAIN documents :
            documents[d].master = templates[k]

\* "explicit local overrides survive" (commit_region): an edit of one sheet
\* leaves the boxes the user drew on every other sheet alone, in this drawing
\* and in the others, unless the field is cleared.  Undo and redo bring back
\* what was there and are no edits.
OverridesSurvive ==
  [][(undo' # undo /\ ~Undo /\ ~Redo /\ documents'[open].master # None) =>
      \A d \in DOMAIN documents : \A p \in DOMAIN documents[d].sheets :
        (<<d, p>> # <<open, page>> /\ documents[d].sheets[p] # {}) =>
          /\ p \in DOMAIN documents'[d].sheets
          /\ documents'[d].sheets[p] = documents[d].sheets[p]]_vars

\* "Navigation never replaces a master" (remember_document): opening a
\* drawing, which may bring a master of its own from another set, or turning
\* a page, seeds empty templates and changes no other.
NavigationKeepsMasters ==
  [][<<open, page, loaded>>' # <<open, page, loaded>> =>
      \A k \in DOMAIN templates :
        templates[k] # None => k \in DOMAIN templates' /\ templates'[k] = templates[k]]_vars

\* Every captured value shown was read from the boxes shown beside it, also
\* in the snapshots undo would bring back, and every value on its way will be.
CellsFit(D) ==
  \A d \in DOMAIN D : \A p \in DOMAIN D[d].cells :
    D[d].cells[p] = RegionsFor(D[d], p)

Fits ==
  /\ CellsFit(documents)
  /\ \A s \in ToSet(undo) \cup ToSet(redo) : CellsFit(s[1])
  /\ \A c \in pending : c.boxes = RegionsFor(Arrived(c.doc), c.page)

\* "Invalidate derived captures": no step makes a captured value belong to
\* other boxes than those it is shown with, whatever was edited, undone,
\* ticked, opened or read before; except that undo and the set are
\* not held back while an extraction of the old regions goes on.
EditsInvalidate ==
  [][Fits => Fits' \/ disturbed']_vars

\* "Capture region changes are kept when the mouse is released": a box drawn
\* on a sheet is one of its boxes.
DrawnIsThere ==
  [][\A b \in Boxes : Draw(b) => b \in RegionsFor(documents'[open], page)]_vars
=============================================================================
