--------------------------- MODULE ViewerSession ---------------------------
(***************************************************************************)
(* The document session of the drawing viewer (main.rs): which document    *)
(* and page are open, what is on the screen, and the list of missing work  *)
(* it hands to the rendering controller on every frame.  The controller is *)
(* the one of DesiredWork, which RenderPipeline implements.                *)
(*                                                                         *)
(* The user interface is one thread: an action is one event taken from the *)
(* channel, or one thing the user does together with the redraw that       *)
(* follows it in the same frame.  The text layer, text selection and the   *)
(* capture panel are left out.                                             *)
(***************************************************************************)
EXTENDS DesiredWork, FiniteSets

CONSTANTS
  Docs,   \* documents, told apart by their checksum
  Pages,  \* page numbers from 0
  Tiles,  \* places on a page: the preview and the tiles, nearest first
  Views   \* sets of places that may be in sight: what pan and zoom can show

InfoKeys == [level : {"info"}, page : Pages]
TileKeys == [level : {"tile"}, doc : Docs, page : Pages, tile : DOMAIN Tiles]

ASSUME ViewerAssumption ==
  /\ Keys = InfoKeys \cup TileKeys
  /\ 0 \in Pages
  /\ Views \subseteq SUBSET DOMAIN Tiles
  /\ MaxJobs >= Len(Tiles)

VARIABLES
  opened,    \* the document of each session so far, none before the first
  page,      \* page the user is on
  info,      \* metadata of that page, when it has arrived
  fatal,     \* an error is shown and nothing is scheduled
  textures,  \* tiles in the GPU cache
  view       \* places in sight

screen == <<opened, page, info, fatal, textures, view>>
vars == <<desired, screen>>

session == Len(opened)
Document == IF opened = <<>> THEN {} ELSE opened[Len(opened)]

InfoKey(p) == [level |-> "info", page |-> p]
TileKey(i, t) == [level |-> "tile", doc |-> i.doc, page |-> i.page, tile |-> t]

TypeOK ==
  /\ opened \in Seq(Option(Docs)) /\ Len(opened) <= MaxSession
  /\ page \in Pages
  /\ info \in Option([doc : Docs, page : Pages])
  /\ fatal \in BOOLEAN
  /\ textures \subseteq TileKeys
  /\ view \in Views
  /\ Len(channel) <= Capacity
  /\ done \subseteq Keys

ViewerInit ==
  /\ Init
  /\ opened = <<>> /\ page = 0 /\ info = {} /\ fatal = FALSE
  /\ textures = {} /\ view \in Views

-----------------------------------------------------------------------------

\* The places in sight that have no texture, nearest first.
Missing(i, v) ==
  LET wanted == SelectSeq([t \in DOMAIN Tiles |-> t], LAMBDA t : t \in v)
  IN  SelectSeq([n \in DOMAIN wanted |-> TileKey(i, wanted[n])],
                LAMBDA k : k \notin textures)

\* schedule: nothing while an error is shown or no document is open, nothing
\* for the plan that was submitted last.
Schedule(jobs) ==
  IF \/ Document' = {} \/ fatal'
     \/ \E p \in plan : p.session = session' /\ p.jobs = jobs
  THEN UNCHANGED desired
  ELSE Submit(session', jobs)

\* reopen: a new session forgets the page's metadata and the error.
Reopen(d, p) ==
  /\ session < MaxSession
  /\ opened' = Append(opened, d)
  /\ page' = p
  /\ info' = {} /\ fatal' = FALSE
  /\ Schedule(<<InfoKey(p)>>)
  /\ UNCHANGED <<textures, view>>

\* select_document, from the path field, the picker, the tree or a drop.
Open == \E d \in Docs : Reopen({d}, 0)

\* "Retry PDF"
Retry == Reopen(Document, page)

\* page_changed: only a page whose metadata is known can be left.
ChangePage ==
  /\ info # {}
  /\ info' = {} /\ fatal' = FALSE
  /\ UNCHANGED <<opened, textures, view>>
  /\ \E p \in Pages \ {page} :
       /\ page' = p
       /\ Schedule(<<InfoKey(p)>>)

\* A frame: after panning and zooming the missing work is scheduled.
Look(v) ==
  /\ view' = v
  /\ UNCHANGED <<opened, page, info, fatal, textures>>
  /\ \E i \in info : Schedule(Missing(i, v))

Redraw == Look(view)
Pan == \E v \in Views \ {view} : Look(v)

\* Mutant: the session of an answer is not compared.
Current_AnySession(e) == TRUE

Current(e) == e.session = session

\* Answers nobody asked for any more are dropped.
Expected(e) == \E p \in plan : e.key \in JobSet(p)

TakeError(e) ==
  /\ e.kind = "error" /\ Current(e)
  /\ fatal' = TRUE
  /\ UNCHANGED <<info, textures>>

\* The metadata of the open page; the worker of e.session read e.session's
\* document.
TakeInfo(e) ==
  /\ e.kind = "ready" /\ Current(e) /\ Expected(e) /\ e.key.level = "info"
  /\ info' = IF e.key.page = page
             THEN {[doc |-> d, page |-> page] : d \in opened[e.session]}
             ELSE info
  /\ UNCHANGED <<fatal, textures>>

\* A tile of the page on the screen goes into the GPU cache, which may lose
\* others for it, but none in sight (RenderCache).
TakeTile(e) ==
  /\ e.kind = "ready" /\ Current(e) /\ Expected(e) /\ e.key.level = "tile"
  /\ IF \E i \in info : e.key \in {TileKey(i, t) : t \in DOMAIN Tiles}
     THEN \E i \in info :
            LET sight == {TileKey(i, t) : t \in view}
            IN  \E lost \in SUBSET (textures \ sight) :
                  textures' = (textures \ lost) \cup {e.key}
     ELSE UNCHANGED textures
  /\ UNCHANGED <<info, fatal>>

Ignore(e) ==
  /\ ~Current(e) \/ (e.kind = "ready" /\ ~Expected(e))
  /\ UNCHANGED <<info, fatal, textures>>

\* receive: one event.
TakeEvent ==
  /\ Receive
  /\ LET e == Head(channel)
     IN  TakeError(e) \/ TakeInfo(e) \/ TakeTile(e) \/ Ignore(e)
  /\ UNCHANGED <<opened, page, view>>

User == Open \/ Retry \/ ChangePage \/ Pan

ViewerNext == User \/ Redraw \/ TakeEvent \/ (Controller /\ UNCHANGED screen)

\* The user need not do anything.  Frames are drawn and the channel drained for
\* ever, the controller's threads run, and no worker hangs for ever.
ViewerFairness ==
  /\ WF_vars(Redraw)
  /\ WF_vars(TakeEvent)
  /\ WF_vars(Controller /\ UNCHANGED screen)

ViewerSpec == ViewerInit /\ [][ViewerNext]_vars /\ ViewerFairness

-----------------------------------------------------------------------------

\* What is drawn on the page, and asked for, is about the page and document
\* that are open: not about the previous page, nor about the document that was
\* open under an earlier session.
InfoIsCurrent == \A i \in info : i.page = page /\ Document = {i.doc}

\* The plan the controller works from belongs to the open session, and a page
\* whose metadata is missing has it asked for, unless an error is shown.
PlanIsCurrent ==
  Document # {} => \E p \in plan :
    /\ p.session = session
    /\ info = {} /\ ~fatal => p.jobs = <<InfoKey(page)>>

\* Neither the screen nor the plan lags behind what the user opened.
ScreenIsCurrent == InfoIsCurrent /\ PlanIsCurrent

\* Opening a document or a page always ends: its metadata arrives or an error
\* is shown, whatever was in flight before.
OpenEnds == (Document # {} /\ info = {}) ~> (info # {} \/ fatal)

Settled(t) == fatal \/ t \notin view \/ \A i \in info : TileKey(i, t) \in textures

\* The controller has the tile of this place still before it: not taken in this
\* session, or in hand.
Due(t) ==
  \A i \in info : \/ ~(known = session /\ TileKey(i, t) \in done)
                 \/ \E w \in work : w.session = session /\ w.key = TileKey(i, t)

\* A place in sight whose tile is due gets it, unless an error is shown or the
\* user moves on, also when the tile was out of sight while a worker was at it.
\* A tile that was finished, or received, while it was out of sight is not due:
\* it stays in `done` until the controller sees a plan without it.
TileArrives ==
  \A t \in DOMAIN Tiles : (~Settled(t) /\ Due(t)) ~> Settled(t)

\* pdf_progressive_m1a.md "The UI rejects obsolete session/page replies": an
\* error that stops the page belongs to work the page asked for.
ErrorsAreCurrent ==
  [][~fatal /\ fatal' => \E p \in plan : Head(channel).key \in JobSet(p)]_vars
=============================================================================
