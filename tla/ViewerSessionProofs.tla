------------------------ MODULE ViewerSessionProofs ------------------------
(***************************************************************************)
(* What the viewer's screen and plan are about, for every set of           *)
(* documents, pages, places and views and every value of the bounds.       *)
(***************************************************************************)
EXTENDS ViewerSession, TLAPS

\* The state of the user interface has its type.
ScreenTypeOK ==
  /\ opened \in Seq(Option(Docs))
  /\ page \in Pages
  /\ info \in Option([doc : Docs, page : Pages])
  /\ fatal \in BOOLEAN
  /\ textures \subseteq TileKeys
  /\ view \in Views

\* Nothing is desired before a document was opened.  Without it an answer to a
\* plan could be taken while there is no session to read it under.
PlanIsOpened == plan # {} => opened # <<>>

ViewerInv == ScreenTypeOK /\ PlanIsOpened /\ ScreenIsCurrent

\* An option that holds x holds nothing else.
LEMMA OptionElim ==
  ASSUME NEW S, NEW o \in Option(S), NEW x \in o
  PROVE  o = {x} /\ x \in S
BY DEF Option

\* The open document is an option.
LEMMA DocumentType ==
  ASSUME opened \in Seq(Option(Docs))
  PROVE  Document \in Option(Docs)
BY DEF Document, Option

\* Opening appends a session, and the document given is the open one.
LEMMA Appended ==
  ASSUME opened \in Seq(Option(Docs)), NEW d \in Option(Docs), opened' = Append(opened, d)
  PROVE  /\ opened' \in Seq(Option(Docs)) /\ opened' # <<>>
         /\ Document' = d /\ session' = session + 1
BY DEF Document, session

\* Scheduling leaves the plan alone or leaves one of the open session with the
\* jobs given, and the latter when a document is open and no error is shown.
LEMMA Scheduled ==
  ASSUME NEW jobs, Schedule(jobs)
  PROVE  /\ Document' # {} /\ ~fatal' =>
              \E p \in plan' : p.session = session' /\ p.jobs = jobs
         /\ \/ UNCHANGED plan
            \/ \E p \in plan' : p.session = session' /\ p.jobs = jobs
<1>1. CASE Document' = {} \/ fatal'
  BY <1>1 DEF Schedule, desired
<1>2. CASE \E p \in plan : p.session = session' /\ p.jobs = jobs
  BY <1>2 DEF Schedule, desired
<1>3. CASE ~(\/ Document' = {} \/ fatal'
             \/ \E p \in plan : p.session = session' /\ p.jobs = jobs)
  <2>1. Submit(session', jobs)
    BY <1>3 DEF Schedule
  <2>2. plan' = {[session |-> session', jobs |-> jobs]}
    BY <2>1 DEF Submit
  <2>3. QED
    BY <1>3, <2>2
<1>4. QED
  BY <1>1, <1>2, <1>3

\* The invariant holds before the first document.
LEMMA ViewerStarts == ViewerInit => ViewerInv
<1> SUFFICES ASSUME ViewerInit PROVE ViewerInv
  OBVIOUS
<1>1. opened = <<>> /\ page = 0 /\ info = {} /\ fatal = FALSE /\ textures = {} /\ view \in Views
  BY DEF ViewerInit
<1>2. ScreenTypeOK
  <2>1. opened \in Seq(Option(Docs))
    BY <1>1
  <2>2. info \in Option([doc : Docs, page : Pages])
    BY <1>1 DEF Option
  <2>3. QED
    BY <1>1, <2>1, <2>2, ViewerAssumption DEF ScreenTypeOK
<1>3. PlanIsOpened
  BY DEF ViewerInit, Init, PlanIsOpened
<1>4. ScreenIsCurrent
  BY <1>1 DEF ScreenIsCurrent, InfoIsCurrent, PlanIsCurrent, Document
<1>5. QED
  BY <1>2, <1>3, <1>4 DEF ViewerInv

\* A new session starts with no metadata, and asks for it.
LEMMA ReopenKeeps ==
  ASSUME ViewerInv, NEW d \in Option(Docs), NEW p \in Pages, Reopen(d, p)
  PROVE  ViewerInv'
<1>1. /\ opened' \in Seq(Option(Docs)) /\ opened' # <<>>
      /\ Document' = d /\ session' = session + 1
  BY Appended DEF ViewerInv, ScreenTypeOK, Reopen
<1>2. ScreenTypeOK'
  BY <1>1 DEF ViewerInv, ScreenTypeOK, Reopen, Option
<1>3. PlanIsOpened' /\ InfoIsCurrent'
  BY <1>1 DEF PlanIsOpened, InfoIsCurrent, Reopen
<1>4. PlanIsCurrent'
  <2>1. Schedule(<<InfoKey(p)>>) /\ page' = p /\ ~fatal'
    BY DEF Reopen
  <2>2. Document' # {} =>
          \E q \in plan' : q.session = session' /\ q.jobs = <<InfoKey(p)>>
    BY <2>1, Scheduled
  <2>3. QED
    BY <2>1, <2>2 DEF PlanIsCurrent, InfoKey
<1>5. QED
  BY <1>2, <1>3, <1>4 DEF ViewerInv, ScreenIsCurrent

\* Another page of the document forgets the metadata, and asks for its own.
LEMMA ChangePageKeeps ==
  ASSUME ViewerInv, ChangePage
  PROVE  ViewerInv'
<1>1. PICK p \in Pages \ {page} : page' = p /\ Schedule(<<InfoKey(p)>>)
  BY DEF ChangePage
<1>2. info' = {} /\ fatal' = FALSE /\ UNCHANGED <<opened, textures, view>>
  BY DEF ChangePage
<1>3. ScreenTypeOK' /\ InfoIsCurrent'
  BY <1>1, <1>2 DEF ViewerInv, ScreenTypeOK, InfoIsCurrent, Option
<1>4. opened # <<>>
  \* the metadata of a page belongs to the open document
  BY DEF ChangePage, ViewerInv, ScreenIsCurrent, InfoIsCurrent, Document
<1>5. PlanIsOpened'
  BY <1>2, <1>4 DEF PlanIsOpened
<1>6. PlanIsCurrent'
  <2>1. Document' # {} =>
          \E q \in plan' : q.session = session' /\ q.jobs = <<InfoKey(p)>>
    BY <1>1, <1>2, Scheduled
  <2>2. QED
    BY <1>1, <2>1 DEF PlanIsCurrent, InfoKey
<1>7. QED
  BY <1>3, <1>5, <1>6 DEF ViewerInv, ScreenIsCurrent

\* A frame plans for the page on the screen.
LEMMA LookKeeps ==
  ASSUME ViewerInv, NEW v \in Views, Look(v)
  PROVE  ViewerInv'
<1>1. PICK i \in info : Schedule(Missing(i, v))
  BY DEF Look
<1>2. /\ view' = v /\ UNCHANGED <<opened, page, info, fatal, textures>>
      /\ Document' = Document /\ session' = session
  BY DEF Look, Document, session
<1>3. ScreenTypeOK' /\ InfoIsCurrent'
  BY <1>2 DEF ViewerInv, ScreenTypeOK, ScreenIsCurrent, InfoIsCurrent
<1>4. opened # <<>>
  BY <1>1 DEF ViewerInv, ScreenIsCurrent, InfoIsCurrent, Document
<1>5. PlanIsOpened'
  BY <1>2, <1>4 DEF PlanIsOpened
<1>6. PlanIsCurrent'
  <2>1. UNCHANGED plan \/ \E p \in plan' : p.session = session'
    BY <1>1, Scheduled
  <2>2. info' # {}
    BY <1>1, <1>2
  <2>3. QED
    BY <1>2, <2>1, <2>2 DEF ViewerInv, ScreenIsCurrent, PlanIsCurrent
<1>7. QED
  BY <1>3, <1>5, <1>6 DEF ViewerInv, ScreenIsCurrent

\* An answer changes the screen only when it is the open session's, and that
\* session's document is the open one.
LEMMA TakeEventKeeps ==
  ASSUME ViewerInv, TakeEvent
  PROVE  ViewerInv'
<1> DEFINE e == Head(channel)
<1>1. /\ UNCHANGED <<plan, opened, page, view>>
      /\ Document' = Document /\ session' = session
  BY DEF TakeEvent, Receive, Document, session
<1>2. PlanIsOpened'
  BY <1>1 DEF ViewerInv, PlanIsOpened
<1>3. CASE TakeError(e)
  BY <1>1, <1>2, <1>3
     DEF TakeError, ViewerInv, ScreenTypeOK, ScreenIsCurrent, InfoIsCurrent, PlanIsCurrent
<1>4. CASE TakeInfo(e)
  <2>1. e.session = session /\ UNCHANGED <<fatal, textures>>
    BY <1>4 DEF TakeInfo, Current
  <2>2. opened[e.session] = Document
    <3>1. plan # {}
      BY <1>4 DEF TakeInfo, Expected
    <3>2. QED
      BY <2>1, <3>1 DEF ViewerInv, PlanIsOpened, Document, session
  <2>3. \/ UNCHANGED info
        \/ info' = {[doc |-> d, page |-> page] : d \in Document}
    BY <1>4, <2>2 DEF TakeInfo
  <2>4. CASE UNCHANGED info
    BY <1>1, <1>2, <2>1, <2>4
       DEF ViewerInv, ScreenTypeOK, ScreenIsCurrent, InfoIsCurrent, PlanIsCurrent
  <2>5. CASE info' = {[doc |-> d, page |-> page] : d \in Document}
    <3>1. Document = {} \/ \E d \in Docs : Document = {d}
      BY DocumentType DEF ViewerInv, ScreenTypeOK, Option
    <3>2. CASE Document = {}
      <4>1. info' = {}
        BY <2>5, <3>2
      <4>2. QED
        BY <1>1, <1>2, <2>1, <3>2, <4>1
           DEF ViewerInv, ScreenTypeOK, ScreenIsCurrent, InfoIsCurrent, PlanIsCurrent, Option
    <3>3. CASE \E d \in Docs : Document = {d}
      <4>1. PICK d \in Docs : Document = {d}
        BY <3>3
      <4>2. info' = {[doc |-> d, page |-> page]}
        BY <2>5, <4>1
      <4>3. ScreenTypeOK'
        BY <1>1, <2>1, <4>2 DEF ViewerInv, ScreenTypeOK, Option
      <4>4. InfoIsCurrent'
        BY <1>1, <4>1, <4>2 DEF InfoIsCurrent
      <4>5. PlanIsCurrent'
        BY <1>1, <4>2 DEF ViewerInv, ScreenIsCurrent, PlanIsCurrent
      <4>6. QED
        BY <1>2, <4>3, <4>4, <4>5 DEF ViewerInv, ScreenIsCurrent
    <3>4. QED
      BY <3>1, <3>2, <3>3
  <2>6. QED
    BY <2>3, <2>4, <2>5
<1>5. CASE TakeTile(e)
  <2>1. UNCHANGED <<info, fatal>>
    BY <1>5 DEF TakeTile
  <2>2. textures' \subseteq TileKeys
    <3>1. CASE \E i \in info : e.key \in {TileKey(i, t) : t \in DOMAIN Tiles}
      <4>1. PICK i \in info, t \in DOMAIN Tiles : e.key = TileKey(i, t)
        BY <3>1
      <4>2. i \in [doc : Docs, page : Pages]
        BY OptionElim DEF ViewerInv, ScreenTypeOK
      <4>3. e.key \in TileKeys
        BY <4>1, <4>2 DEF TileKey, TileKeys
      <4>4. textures' \subseteq textures \cup {e.key}
        BY <1>5, <3>1 DEF TakeTile
      <4>5. QED
        BY <4>3, <4>4 DEF ViewerInv, ScreenTypeOK
    <3>2. CASE ~\E i \in info : e.key \in {TileKey(i, t) : t \in DOMAIN Tiles}
      BY <1>5, <3>2 DEF TakeTile, ViewerInv, ScreenTypeOK
    <3>3. QED
      BY <3>1, <3>2
  <2>3. QED
    BY <1>1, <1>2, <2>1, <2>2
       DEF ViewerInv, ScreenTypeOK, ScreenIsCurrent, InfoIsCurrent, PlanIsCurrent
<1>6. CASE Ignore(e)
  BY <1>1, <1>2, <1>6
     DEF Ignore, ViewerInv, ScreenTypeOK, ScreenIsCurrent, InfoIsCurrent, PlanIsCurrent
<1>7. QED
  BY <1>3, <1>4, <1>5, <1>6 DEF TakeEvent

\* The controller's steps leave the plan and the screen alone.
LEMMA ControllerLeaves ==
  ASSUME Controller
  PROVE  UNCHANGED plan
BY DEF Controller, Rest, Take, Mark, Abandon, Finish, Clear, Discard, Publish, Postpone

LEMMA StutterKeeps ==
  ASSUME ViewerInv, UNCHANGED <<plan, screen>>
  PROVE  ViewerInv'
BY DEF screen, ViewerInv, ScreenTypeOK, PlanIsOpened, ScreenIsCurrent, InfoIsCurrent,
       PlanIsCurrent, Document, session

\* Every step keeps the invariant.
LEMMA ViewerStep ==
  ASSUME ViewerInv, [ViewerNext]_vars
  PROVE  ViewerInv'
<1>1. CASE Open
  <2>1. PICK d \in Docs : Reopen({d}, 0)
    BY <1>1 DEF Open
  <2>2. {d} \in Option(Docs) /\ 0 \in Pages
    BY ViewerAssumption DEF Option
  <2>3. QED
    BY <2>1, <2>2, ReopenKeeps
<1>2. CASE Retry
  <2>1. Document \in Option(Docs) /\ page \in Pages
    BY DocumentType DEF ViewerInv, ScreenTypeOK
  <2>2. QED
    BY <1>2, <2>1, ReopenKeeps DEF Retry
<1>3. CASE ChangePage
  BY <1>3, ChangePageKeeps
<1>4. CASE Pan
  BY <1>4, LookKeeps DEF Pan
<1>5. CASE Redraw
  BY <1>5, LookKeeps DEF Redraw, ViewerInv, ScreenTypeOK
<1>6. CASE TakeEvent
  BY <1>6, TakeEventKeeps
<1>7. CASE Controller /\ UNCHANGED screen
  BY <1>7, ControllerLeaves, StutterKeeps
<1>8. CASE UNCHANGED vars
  BY <1>8, StutterKeeps DEF vars, desired
<1>9. QED
  BY <1>1, <1>2, <1>3, <1>4, <1>5, <1>6, <1>7, <1>8 DEF ViewerNext, User

-----------------------------------------------------------------------------

\* The invariant holds in every state of the viewer.
THEOREM ViewerInvariance == ViewerSpec => []ViewerInv
<1>1. ViewerInit => ViewerInv
  BY ViewerStarts
<1>2. ViewerInv /\ [ViewerNext]_vars => ViewerInv'
  BY ViewerStep
<1>3. QED
  BY <1>1, <1>2, PTL DEF ViewerSpec

\* Neither the page that is drawn nor the plan the controller works from lags
\* behind the document and page the user opened (main.rs reopen, page_changed,
\* schedule, receive).
THEOREM ScreenAlwaysCurrent == ViewerSpec => []ScreenIsCurrent
<1>1. ViewerInv => ScreenIsCurrent
  BY DEF ViewerInv
<1>2. QED
  BY <1>1, ViewerInvariance, PTL

\* Tiles of no document and metadata of no page never reach the screen.
THEOREM ScreenTypeCorrect == ViewerSpec => []ScreenTypeOK
<1>1. ViewerInv => ScreenTypeOK
  BY DEF ViewerInv
<1>2. QED
  BY <1>1, ViewerInvariance, PTL
=============================================================================
