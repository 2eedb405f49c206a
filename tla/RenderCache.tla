---------------------------- MODULE RenderCache ----------------------------
(***************************************************************************)
(* The byte-budgeted cache of rendered pixels (model.rs, Cache) under the  *)
(* use the viewer makes of it (main.rs): every frame asks for each tile in *)
(* sight, what is missing becomes the desired work, and only tiles of the  *)
(* last desired work are inserted when they arrive.                        *)
(*                                                                         *)
(* What is in sight is computed from the view (VisibleTiles).              *)
(*                                                                         *)
(* The cache numbers its uses with a clock; a cache that worked would      *)
(* never throw away a tile the user is looking at, however far the view    *)
(* moved before.                                                           *)
(***************************************************************************)
EXTENDS VisibleTiles, Functions

CONSTANTS
  Views,     \* the views a frame can show: [page, origin, scale]
  NoView,    \* no page is open, or its metadata has not come
  MaxClock   \* bound: uses of the cache in a behaviour

\* In pixels, of four bytes each.
MaxReply == TILE * TILE
Budget == MAX_JOBS * MaxReply

ASSUME CacheAssumption ==
  /\ Views \subseteq [page : Pages, origin : Int \X Int, scale : Nat \ {0}]
  /\ NoView \notin Views /\ MaxClock \in Nat

VARIABLES
  entries,  \* Cache.entries: the clock at the last use of each key held
  bytes,    \* Cache.bytes
  peak,     \* Cache.peak
  clock,    \* Cache.clock
  view,     \* the view of the last frame drawn
  wanted,   \* App.last_plan: the keys that were missing in it
  fatal     \* App.fatal: an error is shown and no new plan is made

cache == <<entries, bytes, peak, clock>>
vars == <<cache, view, wanted, fatal>>

TypeOK ==
  /\ \E K \in SUBSET Keys : entries \in [K -> 1..MaxClock]
  /\ bytes \in 0..Budget /\ peak \in 0..Budget /\ clock \in 0..MaxClock
  /\ view \in Views \cup {NoView}
  /\ wanted \subseteq Keys
  /\ fatal \in BOOLEAN

Init ==
  /\ entries = <<>> /\ bytes = 0 /\ peak = 0 /\ clock = 0
  /\ view = NoView /\ wanted = {} /\ fatal = FALSE

-----------------------------------------------------------------------------
(* The cache *)

\* The bytes of the values of K, counted one by one.
Bytes(K) == Cardinality({b \in K \X (1..MaxReply) : b[2] <= Size[b[1]]})

\* Mutant: reading an entry does not count as a use.
Get_NoTick(s) ==
  /\ clock' = clock + Len(s)
  /\ entries' = entries
  /\ UNCHANGED <<bytes, peak>>

\* get, for each key of s in turn: a miss moves the clock too.
Get(s) ==
  /\ clock' = clock + Len(s)
  /\ entries' = [k \in DOMAIN entries |->
                   IF \E i \in DOMAIN s : s[i] = k
                   THEN clock + (CHOOSE i \in DOMAIN s : s[i] = k)
                   ELSE entries[k]]
  /\ UNCHANGED <<bytes, peak>>

\* The eviction loop: the oldest entry goes while the new one does not fit, so
\* an entry goes when everything older did not free enough.
Victims(E, used, need) ==
  {k \in DOMAIN E :
     used - Bytes({j \in DOMAIN E : E[j] < E[k]}) + need > Budget}

\* Mutant: the bytes of the entry that is replaced are not given back.
Insert_ForgetsOld(k) ==
  LET others == Restrict(entries, DOMAIN entries \ {k})
      gone   == Victims(others, bytes, Size[k])
  IN  /\ entries' = [j \in (DOMAIN others \ gone) \cup {k} |->
                       IF j = k THEN clock + 1 ELSE others[j]]
      /\ bytes' = bytes - Bytes(gone) + Size[k]
      /\ clock' = clock + 1
      /\ peak' = Max({peak, bytes'})

\* insert: the old value of the key goes first, then the victims.
Insert(k) ==
  LET others == Restrict(entries, DOMAIN entries \ {k})
      used   == bytes - Bytes(DOMAIN entries \cap {k})
      gone   == Victims(others, used, Size[k])
  IN  /\ Size[k] <= Budget
      /\ entries' = [j \in (DOMAIN others \ gone) \cup {k} |->
                       IF j = k THEN clock + 1 ELSE others[j]]
      /\ bytes' = used - Bytes(gone) + Size[k]
      /\ clock' = clock + 1
      /\ peak' = Max({peak, bytes'})

-----------------------------------------------------------------------------
(* The viewer *)

\* Mutant: the tiles may fill the cache, and the preview comes on top.
Frame_OneMore ==
  [v \in Views |-> <<Preview(v.page)>> \o Nearest(v, Level_OneMore(v))]

\* What a frame shows, in the order it is asked for: the preview of the page,
\* then the visible tiles.
Frame == [v \in Views |-> <<Preview(v.page)>> \o VisibleTiles(v)]

sight == IF view = NoView THEN <<>> ELSE Frame[view]

\* A frame: what is missing becomes the desired work, unless an error is shown.
Draw(v) ==
  LET s == Frame[v]
  IN  /\ clock + Len(s) <= MaxClock
      /\ view' = v
      /\ Get(s)
      /\ wanted' = IF fatal THEN wanted ELSE ToSet(s) \ DOMAIN entries
      /\ UNCHANGED fatal

\* A tile of the last plan arrives, perhaps for the second time.
Deliver(k) ==
  /\ clock < MaxClock
  /\ k \in wanted
  /\ Insert(k)
  /\ UNCHANGED <<view, wanted, fatal>>

\* An error event of the session.
Fail ==
  /\ ~fatal
  /\ fatal' = TRUE
  /\ UNCHANGED <<cache, view, wanted>>

\* The page or the document is left, or the worker restarted: nothing can be
\* drawn before new metadata has come.  The cache survives.
Leave ==
  /\ view # NoView
  /\ view' = NoView /\ wanted' = {} /\ fatal' = FALSE
  /\ UNCHANGED cache

\* The bound on the clock ends the behaviour.
Exhausted == clock + MAX_JOBS > MaxClock /\ UNCHANGED vars

Next ==
  \/ \E v \in Views : Draw(v)
  \/ \E k \in Keys : Deliver(k)
  \/ Fail \/ Leave
  \/ Exhausted

Spec == Init /\ [][Next]_vars

-----------------------------------------------------------------------------
(* Properties *)

\* model.rs:216-236: `bytes` is the sum of the entries' sizes after any
\* sequence of replacements and evictions, and `peak` its maximum so far; a
\* drift would make the eviction loop unwrap the minimum of an empty map.
Accounting ==
  /\ bytes = Bytes(DOMAIN entries)
  /\ bytes <= peak

\* model.rs:147 "rather than cycling more visible textures through the cache
\* than its budget can hold simultaneously": while plans are made, a tile that
\* arrives evicts nothing that is in sight, whatever was drawn before.
NoThrash ==
  [][~fatal /\ view' = view
       => DOMAIN entries \cap ToSet(sight) \subseteq DOMAIN entries']_vars

\* model.rs:131 "nearest visible tile to viewport centre": whatever level the
\* budget leaves, the tiles of a frame cover all of the page that can be seen,
\* the worker accepts every one of them and its answers pass read_pixels.
SightCovered == view # NoView => Covers(view, Tail(sight))

\* The tile under the middle of the visible part is asked for before the others.
CentreComesFirst == view # NoView => CentreFirst(view, Tail(sight))

\* The clock values tell of two entries which was used before the other.
Ages == {p \in (DOMAIN entries) \X (DOMAIN entries) : entries[p[1]] < entries[p[2]]}

\* model.rs:209-239: clock, account and eviction loop make a cache that forgets
\* what was used longest ago, and no more of it than it needs to.
Lru == INSTANCE LruCache WITH held <- DOMAIN entries, older <- Ages, asked <- sight

ImplementsLru == Lru!Spec

=============================================================================
