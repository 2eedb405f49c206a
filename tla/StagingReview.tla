---------------------------- MODULE StagingReview ----------------------------
(***************************************************************************)
(* The review of captured drawings before export (staging.rs, and its      *)
(* callers open_staging and staging_ui of capture.rs).  Every sheet of the *)
(* drawing set is a row with its captured values, a file name made from    *)
(* them and from its place, and the user's decisions: include it or not, a *)
(* name of his own, the order.  While the review is open, every frame ends *)
(* by writing the values he edited back to the captures.  When he reviews  *)
(* again the rows are made anew and take over his earlier decisions.       *)
(*                                                                         *)
(* A document is the version of the file it was read from; version 0 is a  *)
(* file nobody has opened or captured yet.  A text is one of Values, and   *)
(* Clean is what normalisation makes of it.  Column widths, separator,     *)
(* name of the export and the wording of notices are left out.             *)
(***************************************************************************)
EXTENDS Integers, Sequences, FiniteSets

CONSTANTS
  Paths,      \* files, opened or ticked
  Sheets,     \* the sheets of all files, by path and page: the order of a set
  Fields,     \* captured fields
  Once,       \* fields read once for a set; the others are read on each sheet
  Values, Blank, Clean,
  Templates,  \* what the user may choose as a name: the fields it mentions
  Default,    \* the template of a new review
  Names,      \* file names the user types
  Read,       \* bound: the cells the extraction may report
  Typed,      \* bound: the texts the user may type
  MaxVersion, \* bound: versions of a file
  MaxSteps    \* bound: what the user does and the extraction reports

ASSUME StagingAssumption ==
  /\ Sheets \in Seq([path : Paths, page : Nat])
  /\ \A i, j \in DOMAIN Sheets : Sheets[i] = Sheets[j] => i = j
  /\ Once \subseteq Fields
  /\ Blank \in Values /\ Clean \in [Values -> Values] /\ Clean[Blank] = Blank
  /\ \A v \in Values : Clean[Clean[v]] = Clean[v]
  /\ Templates \subseteq SUBSET Fields /\ Default \in Templates
  /\ Read \subseteq [text : Values, flagged : BOOLEAN] /\ Typed \subseteq Values
  /\ MaxVersion \in Nat /\ MaxSteps \in Nat

VARIABLES
  ticked,     \* Capture.set_paths: the drawing set
  version,    \* Capture.paths: the document of a file, 0 when unknown
  captured,   \* Capture.documents: the cells of that document
  reviewed,   \* Capture.staging is Some
  open,       \* Staging.open
  rows,       \* Staging.rows
  original,   \* Staging.original_order
  template, sequence, filter,
  drag,       \* Staging.drag_from, an option
  saving,     \* Staging.saving: the exports being saved, at most one
  steps

review == <<reviewed, open, rows, original, template, sequence, filter, drag, saving>>
vars == <<ticked, version, captured, review, steps>>

Versions == 0..MaxVersion
PageNumbers == {Sheets[i].page : i \in DOMAIN Sheets}
Keys     == {Sheets[i] : i \in DOMAIN Sheets}
Cell     == [text : Values, flagged : BOOLEAN]
Filters  == {"all", "needs review", "ready"}

\* A name is typed by the user or put together from a place (0 without the
\* prefix), the texts of the template's fields, and a page when these are blank.
Generated == [place : Nat, parts : SUBSET (Fields \X Values), page : Int]

Row == [key : Keys, version : Versions, included : BOOLEAN,
        filename : Generated \cup Names, manual : BOOLEAN,
        values : [Fields -> Values], warnings : SUBSET Fields,
        dirty : SUBSET Fields]

Export == [key : Keys, filename : Generated \cup Names, values : [Fields -> Values]]

TypeOK ==
  /\ ticked \subseteq Paths
  /\ version \in [Paths -> Versions]
  /\ captured \in [Paths -> [Fields -> [PageNumbers \cup {-1} -> Cell]]]
  /\ reviewed \in BOOLEAN /\ open \in BOOLEAN
  /\ rows \in Seq(Row) /\ original \in Seq(Keys)
  /\ template \in Templates /\ sequence \in BOOLEAN /\ filter \in Filters
  /\ drag \in {{}} \cup {{i} : i \in DOMAIN rows}
  /\ Cardinality(saving) <= 1 /\ \A e \in saving : e \in Seq(Export)
  /\ steps \in 0..MaxSteps

Empty == [text |-> Blank, flagged |-> FALSE]

Init ==
  /\ ticked = Paths
  /\ version \in [Paths -> {0, 1} \cap Versions]
  /\ captured = [p \in Paths |-> [f \in Fields |-> [k \in PageNumbers \cup {-1} |-> Empty]]]
  /\ reviewed = FALSE /\ open = FALSE
  /\ rows = <<>> /\ original = <<>>
  /\ template = Default /\ sequence = TRUE /\ filter = "all"
  /\ drag = {} /\ saving = {} /\ steps = 0

Step == steps < MaxSteps /\ steps' = steps + 1

-----------------------------------------------------------------------------
(* Rows, and the two sorts of the code *)

\* The indexes in S by rank, equal ranks in their own order: a stable sort.
Listed(S, rank) ==
  [k \in 1..Cardinality(S) |->
     CHOOSE i \in S : Cardinality({j \in S : \/ rank[j] < rank[i]
                                             \/ (rank[j] = rank[i] /\ j <= i)}) = k]

SortBy(rs, rank) ==
  LET index == Listed(DOMAIN rs, rank) IN [k \in DOMAIN index |-> rs[index[k]]]

KeysOf(rs) == [i \in DOMAIN rs |-> rs[i].key]
KeySet(rs) == {rs[i].key : i \in DOMAIN rs}
IndexOf(rs, key) == CHOOSE i \in DOMAIN rs : rs[i].key = key

\* A field read once has a single cell, under the page -1.
CellOf(f, key) == captured[key.path][f][IF f \in Once THEN -1 ELSE key.page]

\* Staging::new, one row.
FreshRow(key) ==
  [key |-> key, version |-> version[key.path],
   included |-> version[key.path] > 0,
   filename |-> [place |-> 0, parts |-> {}, page |-> -1], manual |-> FALSE,
   values   |-> [f \in Fields |-> IF version[key.path] = 0 THEN Blank
                                  ELSE Clean[CellOf(f, key).text]],
   warnings |-> {f \in Fields : version[key.path] > 0 /\ CellOf(f, key).flagged},
   dirty    |-> {}]

\* The set when the drawing at hand is in it, or this drawing alone.  A file
\* that was never captured counts as one sheet.
InReview(key, active) ==
  /\ IF active \in ticked THEN key.path \in ticked ELSE key.path = active
  /\ version[key.path] > 0 \/ key.page = 0

Fresh(active) ==
  LET index == Listed({i \in DOMAIN Sheets : InReview(Sheets[i], active)},
                      [i \in DOMAIN Sheets |-> i])
  IN [k \in DOMAIN index |-> FreshRow(Sheets[index[k]])]

NameOf(i, row, temp, seq) ==
  LET parts == {<<f, row.values[f]>> : f \in {g \in temp : row.values[g] # Blank}}
  IN [place |-> IF seq THEN i ELSE 0, parts |-> parts,
      page |-> IF parts = {} THEN row.key.page ELSE -1]

\* Mutant: every name is generated.
Named_All(rs, temp, seq) ==
  [i \in DOMAIN rs |-> [rs[i] EXCEPT !.filename = NameOf(i, rs[i], temp, seq)]]

Named(rs, temp, seq) ==
  [i \in DOMAIN rs |->
     IF rs[i].manual THEN rs[i]
     ELSE [rs[i] EXCEPT !.filename = NameOf(i, rs[i], temp, seq)]]

\* Row::status
Status(row) ==
  CASE \/ row.version = 0
       \/ \A f \in Fields \ Once : row.values[f] = Blank -> "failed"
    [] \/ \E f \in Fields : row.values[f] = Blank
       \/ row.warnings # {} -> "review"
    [] OTHER -> "ready"

\* Rows the filter hides can be neither edited nor dragged.
Shown(i) ==
  /\ filter = "needs review" => Status(rows[i]) # "ready"
  /\ filter = "ready" => Status(rows[i]) = "ready"

-----------------------------------------------------------------------------
(* Outside the review: the drawing set, the files and the extraction *)

Tick(p) ==
  /\ ~open /\ Step
  /\ ticked' = IF p \in ticked THEN ticked \ {p} ELSE ticked \cup {p}
  /\ UNCHANGED <<version, captured, review>>

\* A file is opened for the first time, or has changed since: a new document.
NewDocument(p) ==
  /\ ~open /\ Step
  /\ version[p] < MaxVersion
  /\ version' = [version EXCEPT ![p] = @ + 1]
  /\ captured' = [captured EXCEPT ![p] =
                    [f \in Fields |-> [k \in PageNumbers \cup {-1} |-> Empty]]]
  /\ UNCHANGED <<ticked, review>>

\* The extraction reports a cell, or the user corrects it in the panel.
Capture(key, f, cell) ==
  /\ ~open /\ Step
  /\ version[key.path] > 0
  /\ captured' = [captured EXCEPT ![key.path][f][IF f \in Once THEN -1 ELSE key.page] = cell]
  /\ UNCHANGED <<ticked, version, review>>

-----------------------------------------------------------------------------
(* Opening the review *)

SameRows(fresh) ==
  /\ reviewed
  /\ KeySet(fresh) \subseteq KeySet(rows)
  /\ Len(fresh) = Len(rows)

Kept(row) ==
  LET prior == rows[IndexOf(rows, row.key)]
  IN IF prior.version = row.version
     THEN [row EXCEPT !.included = prior.included /\ row.version > 0,
                      !.filename = prior.filename, !.manual = prior.manual]
     ELSE row

\* Mutant: the rows take over what the user decided, but not their order.
PreserveLayout_Unsorted(fresh) ==
  IF SameRows(fresh) THEN [i \in DOMAIN fresh |-> Kept(fresh[i])] ELSE fresh

\* Staging::preserve_layout, up to the names.
PreserveLayout(fresh) ==
  IF SameRows(fresh)
  THEN SortBy([i \in DOMAIN fresh |-> Kept(fresh[i])],
              [i \in DOMAIN fresh |-> IndexOf(rows, fresh[i].key)])
  ELSE fresh

\* "Review & export", with the drawing active on the screen.
OpenStaging(active) ==
  /\ ~open
  /\ version[active] > 0
  /\ LET fresh == Fresh(active)
         temp  == IF SameRows(fresh) THEN template ELSE Default
         seq   == IF SameRows(fresh) THEN sequence ELSE TRUE
     IN /\ template' = temp /\ sequence' = seq
        /\ rows' = Named(PreserveLayout(fresh), temp, seq)
        /\ original' = KeysOf(fresh)
  /\ reviewed' = TRUE /\ open' = TRUE /\ filter' = "all"
  /\ drag' = {} /\ saving' = {}
  /\ UNCHANGED <<ticked, version, captured, steps>>

-----------------------------------------------------------------------------
(* The review *)

\* The rows that write field f to the cell k of the document of p.
Writers(rs, p, f, k) ==
  {i \in DOMAIN rs : /\ rs[i].key.path = p
                     /\ rs[i].version > 0 /\ rs[i].version = version[p]
                     /\ f \in rs[i].dirty
                     /\ k = IF f \in Once THEN -1 ELSE rs[i].key.page}

\* Staging::apply: row by row, so the last one stays.
Applied(rs) ==
  IF \A i \in DOMAIN rs : rs[i].dirty = {} THEN captured ELSE
  [p \in Paths |-> [f \in Fields |-> [k \in PageNumbers \cup {-1} |->
    LET W == Writers(rs, p, f, k)
    IN IF W = {} THEN captured[p][f][k]
       ELSE LET last == CHOOSE i \in W : \A j \in W : j <= i
            IN [text |-> Clean[rs[last].values[f]], flagged |-> FALSE]]]]

\* A frame of the open review; its controls are off while an export is saved.
Frame ==
  /\ open
  /\ captured' = Applied(rows')
  /\ UNCHANGED <<ticked, version, reviewed>>

\* Mutant: the controls stay on while an export is saved.
Controls_Always == Step /\ Frame /\ UNCHANGED <<open, original, saving>>

Controls == saving = {} /\ Step /\ Frame /\ UNCHANGED <<open, original, saving>>

\* Mutant: only the row edited gets the value.
SetValue_OneRow(i, f, v) ==
  [rows EXCEPT ![i].values[f] = Clean[v], ![i].dirty = @ \cup {f}, ![i].warnings = @ \ {f}]

\* Staging::set_value: a field read once has one value in all rows.
SetValue(i, f, v) ==
  [j \in DOMAIN rows |->
     IF j = i \/ (f \in Once /\ rows[j].version > 0)
     THEN [rows[j] EXCEPT !.values[f] = Clean[v], !.dirty = @ \cup {f},
                          !.warnings = @ \ {f}]
     ELSE rows[j]]

Edit(i, f, v) ==
  /\ Shown(i)
  /\ rows' = Named(SetValue(i, f, v), template, sequence)
  /\ Controls
  /\ UNCHANGED <<template, sequence, filter, drag>>

Rename(i, name) ==
  /\ Shown(i)
  /\ rows' = [rows EXCEPT ![i].filename = name, ![i].manual = TRUE]
  /\ Controls
  /\ UNCHANGED <<template, sequence, filter, drag>>

Include(i) ==
  /\ Shown(i) /\ rows[i].version > 0
  /\ rows' = [rows EXCEPT ![i].included = ~@]
  /\ Controls
  /\ UNCHANGED <<template, sequence, filter, drag>>

IncludeAll(all) ==
  /\ open
  /\ rows' = [i \in DOMAIN rows |-> [rows[i] EXCEPT !.included = all /\ rows[i].version > 0]]
  /\ Controls
  /\ UNCHANGED <<template, sequence, filter, drag>>

ChooseNames(temp, seq) ==
  /\ open
  /\ <<temp, seq>> # <<template, sequence>>
  /\ template' = temp /\ sequence' = seq
  /\ rows' = Named(rows, temp, seq)
  /\ Controls
  /\ UNCHANGED <<filter, drag>>

SetFilter(new) ==
  /\ open
  /\ filter' = new /\ new # filter
  /\ UNCHANGED <<rows, template, sequence, drag>>
  /\ Controls

\* Staging::reset_order.  A row that was not there at first goes to the end.
ResetOrder ==
  /\ open
  /\ LET place(i) == IF \E k \in DOMAIN original : original[k] = rows[i].key
                     THEN CHOOSE k \in DOMAIN original : original[k] = rows[i].key
                     ELSE Len(original) + 1
     IN rows' = Named(SortBy(rows, [i \in DOMAIN rows |-> place(i)]), template, sequence)
  /\ Controls
  /\ UNCHANGED <<template, sequence, filter, drag>>

Grab(i) ==
  /\ Shown(i) /\ drag = {}
  /\ drag' = {i}
  /\ UNCHANGED <<rows, template, sequence, filter>>
  /\ Controls

\* Mutant: the row is put in again without being taken out.
Reordered_Copied(from, target, above) ==
  [i \in DOMAIN rows |-> IF i = target THEN rows[from] ELSE rows[i]]

\* Mutant: the target's index still counts the row that was taken out.
Reordered_Unadjusted(from, target, above) ==
  LET others == [i \in 1..Len(rows) - 1 |-> IF i < from THEN rows[i] ELSE rows[i + 1]]
      wanted == IF above THEN target ELSE target + 1
      index  == IF wanted > Len(rows) THEN Len(rows) ELSE wanted
  IN [i \in DOMAIN rows |-> CASE i < index -> others[i]
                              [] i = index -> rows[from]
                              [] OTHER     -> others[i - 1]]

\* Staging::reorder: take the row out, and put it in at an index that counts
\* without it.
Reordered(from, target, above) ==
  LET others == [i \in 1..Len(rows) - 1 |-> IF i < from THEN rows[i] ELSE rows[i + 1]]
      adjusted == IF target > from THEN target - 1 ELSE target
      index    == IF above THEN adjusted ELSE adjusted + 1
  IN [i \in DOMAIN rows |-> CASE i < index -> others[i]
                              [] i = index -> rows[from]
                              [] OTHER     -> others[i - 1]]

\* The button is released over a row, also when the controls are off.
Drop(target, above) ==
  /\ drag # {} /\ Shown(target)
  /\ LET from == CHOOSE i \in drag : TRUE
     IN rows' = IF from = target THEN rows
                ELSE Named(Reordered(from, target, above), template, sequence)
  /\ drag' = {}
  /\ Frame
  /\ UNCHANGED <<open, original, template, sequence, filter, saving, steps>>

DropElsewhere ==
  /\ open /\ drag # {}
  /\ drag' = {}
  /\ UNCHANGED rows
  /\ Frame
  /\ UNCHANGED <<open, original, template, sequence, filter, saving, steps>>

Close ==
  /\ open /\ saving = {}
  /\ open' = FALSE
  /\ UNCHANGED rows
  /\ Frame
  /\ UNCHANGED <<original, template, sequence, filter, drag, saving, steps>>

\* Staging::csv and json: the included rows in their order.
Exported ==
  LET index == Listed({i \in DOMAIN rows : rows[i].included}, [i \in DOMAIN rows |-> i])
  IN [k \in DOMAIN index |-> [key |-> rows[index[k]].key,
                              filename |-> rows[index[k]].filename,
                              values |-> [f \in Fields |-> Clean[rows[index[k]].values[f]]]]]

Save ==
  /\ open /\ saving = {}
  /\ \E i \in DOMAIN rows : rows[i].included
  /\ saving' = {Exported}
  /\ UNCHANGED rows
  /\ Frame
  /\ UNCHANGED <<open, original, template, sequence, filter, drag, steps>>

\* The dialog ends: saved, cancelled or failed.
SaveEnds ==
  /\ saving # {}
  /\ saving' = {}
  /\ UNCHANGED <<ticked, version, captured, reviewed, open, rows, original,
                 template, sequence, filter, drag, steps>>

\* Staging::snapshot when the viewer ends and restore when it starts again.
Restart ==
  /\ open' = FALSE /\ drag' = {} /\ saving' = {}
  /\ UNCHANGED <<ticked, version, captured, reviewed, rows, original, template,
                 sequence, filter, steps>>

\* Staging::ui returns at once when the review is closed.
OpenRows == IF open THEN DOMAIN rows ELSE {}

Next ==
  \/ \E p \in Paths : Tick(p) \/ NewDocument(p) \/ OpenStaging(p)
  \/ \E key \in Keys, f \in Fields, cell \in Read : Capture(key, f, cell)
  \/ \E i \in OpenRows, f \in Fields, v \in Typed : Edit(i, f, v)
  \/ \E i \in OpenRows, name \in Names : Rename(i, name)
  \/ \E i \in OpenRows : Include(i) \/ Grab(i)
  \/ \E i \in OpenRows, above \in BOOLEAN : Drop(i, above)
  \/ \E all \in BOOLEAN : IncludeAll(all)
  \/ \E temp \in Templates, seq \in BOOLEAN : ChooseNames(temp, seq)
  \/ \E new \in Filters : SetFilter(new)
  \/ ResetOrder \/ DropElsewhere \/ Close \/ Save \/ SaveEnds \/ Restart

Spec == Init /\ [][Next]_vars

-----------------------------------------------------------------------------
(* Safety *)

\* A name the user did not type says what the row holds and where it stands;
\* one he typed stays typed.  Edits, drags, resets and reopenings all have to
\* make the names of all the rows again, and none may touch a typed one.
NamesFollow ==
  \A i \in DOMAIN rows :
    IF rows[i].manual THEN rows[i].filename \in Names
    ELSE rows[i].filename = NameOf(i, rows[i], template, sequence)

\* However the rows are dragged, sorted and taken over from an earlier review,
\* each sheet of the review is there exactly once.
RowsOfTheSet ==
  /\ KeySet(rows) = {original[k] : k \in DOMAIN original}
  /\ Len(rows) = Len(original)
  /\ \A i, j \in DOMAIN rows : rows[i].key = rows[j].key => i = j

\* While the review is open, what the user corrected in it is what the captures
\* hold, in every row: rows that share a cell have to agree on it.
EditsReachCaptures ==
  open => \A i \in DOMAIN rows : \A f \in rows[i].dirty :
            rows[i].version > 0 =>
              CellOf(f, rows[i].key) = [text |-> rows[i].values[f], flagged |-> FALSE]

\* What the dialog saves is what the review shows behind it: the included
\* sheets, each with the values on the screen.
SavedIsReviewed ==
  \A e \in saving :
    /\ {e[k].key : k \in DOMAIN e} = {rows[i].key : i \in {j \in DOMAIN rows : rows[j].included}}
    /\ \A k \in DOMAIN e : e[k].values = rows[IndexOf(rows, e[k].key)].values

\* A dropped row lies next to the row it was dropped on, on the side shown by
\* the line, and the others keep their order; a reset brings back the first one.
Lands(from, target, above) ==
  LET now(i) == CHOOSE k \in DOMAIN rows' : rows'[k].key = rows[i].key
  IN /\ now(from) = IF above THEN now(target) - 1 ELSE now(target) + 1
     /\ \A i, j \in DOMAIN rows \ {from} : i < j => now(i) < now(j)

OrderIsAsAsked ==
  [][/\ \A from \in drag, target \in DOMAIN rows, above \in BOOLEAN :
          drag' = {} /\ from # target /\ Drop(target, above) => Lands(from, target, above)
     /\ KeysOf(rows') = original \/ ~ResetOrder]_vars

\* Reviewing the same sheets again keeps every decision about a document that
\* has not changed: the name typed, the inclusion, and the order of all.
LayoutSurvives ==
  [][~open /\ open' /\ reviewed /\ KeySet(rows') = KeySet(rows) =>
       /\ KeysOf(rows') = KeysOf(rows)
       /\ \A i \in DOMAIN rows : rows'[i].version = rows[i].version =>
            /\ rows'[i].included = rows[i].included
            /\ rows'[i].manual = rows[i].manual
            /\ rows[i].manual => rows'[i].filename = rows[i].filename]_vars
=============================================================================
