----------------------------- MODULE TileViewer -----------------------------
(* The viewer's tiles: viewer_open, viewer_demand, viewer_draw and            *)
(* viewer_close of src/src/app/viewer/viewer.cc over the tile cache           *)
(* (src/src/render/tiles/tiles.cc), the map of cached tiles                   *)
(* (src/src/render/cachemap/cachemap.cc), the ceiling                         *)
(* (src/src/core/budget/budget.cc) and the bitmaps that d2d_blit.cc keeps per *)
(* grid slot.  A call works tile by tile and every call it makes may fail.    *)
(*                                                                            *)
(* A tile is the page it was rendered from and the generation stamped into    *)
(* its payload.  The cache's own budget is always null (tiles.cc:122), so its *)
(* eviction never runs and is not modelled; put never finds its key, because  *)
(* viewer_demand puts only what get has just missed.                          *)
EXTENDS Integers, Sequences, FiniteSets

CONSTANTS Places,           \* the places a tile can be demanded for
          Grid,             \* those that have a bitmap slot
          PageCount,        \* pages of the document
          Regions,          \* the regions that are demanded and drawn, in order
          Ceilings,         \* values of viewer_open's max_tiles, 0 = unlimited
          DefaultCapacity,  \* slots of a cache without a ceiling (64)
          MaxGen,           \* bound on the page generations
          MaxFaults         \* bound on the calls that fail

ASSUME PlacesAssumption == IsFiniteSet(Places) /\ Grid \subseteq Places
ASSUME RegionsAssumption == Regions \subseteq Seq(Places)
ASSUME NumbersAssumption ==
  /\ PageCount \in Nat /\ MaxGen \in Nat /\ MaxFaults \in Nat
  /\ DefaultCapacity \in Nat \ {0} /\ Ceilings \subseteq Nat

VARIABLES
  doc,          \* "none", "open" or "closed"
  stores,       \* do the cache and the map exist?
  maxTiles,     \* budget.max_tiles
  cache,        \* the tile the cache holds for each place
  capacity,     \* the slots of the cache's array
  map,          \* the tile the map points to for each place
  cachedTiles,  \* cached_tiles
  pageGen,      \* page_gen
  activePage,   \* active_page
  held,         \* is a backend page held?
  slots,        \* the bitmap of each slot: last_gen and what it shows
  frame,        \* what each place of the frame shows
  call,         \* the call in progress: its name, what is left, what was asked
  answer,       \* what the last call answered, and for which places
  orphans,      \* history: places whose tile was cached but not mapped
  faults        \* history: calls that failed

tiles == <<stores, cache, capacity, map, cachedTiles, pageGen, orphans>>
vvars == <<doc, maxTiles, activePage, held, slots, frame, call, answer, faults, tiles>>

-----------------------------------------------------------------------------
Pages == 0 .. PageCount - 1
NoPage == -1
Tile == [page : Pages \cup {NoPage}, gen : Nat]
NoTile == [page |-> NoPage, gen |-> 0]   \* generation 0 stamps no payload
Empty == [x \in Places |-> NoTile]
Wiped == [x \in Places |-> NoPage]

Held(store) == {x \in Places : store[x] # NoTile}

\* Fault: one tile more than the ceiling
AtCeilingLate == maxTiles > 0 /\ cachedTiles > maxTiles

\* pc_budget_check_tiles answers PC_ERR_LIMIT
AtCeiling == maxTiles > 0 /\ cachedTiles >= maxTiles

Idle == call.name = "idle"
NoCall == [name |-> "idle", todo |-> <<>>, asked |-> <<>>]
Begun(name, region) == [name |-> name, todo |-> region, asked |-> region]
Here == Head(call.todo)

\* the call answers and returns
Answers(status) == /\ answer' = [call |-> call.name, status |-> status, asked |-> call.asked]
                   /\ call' = NoCall
NoAnswer == [call |-> "idle", status |-> "NONE", asked |-> <<>>]

\* one of the calls made here fails
Fails == faults < MaxFaults /\ faults' = faults + 1

-----------------------------------------------------------------------------
\* Fault: a cache without a ceiling has no slots
NewCapacityBare(max) == max

NewCapacity(max) == IF max > 0 THEN max ELSE DefaultCapacity

\* Fault: the generation is not bumped
ResetTilesSameGen(max, ok) ==
  /\ stores' = ok
  /\ cache' = Empty /\ map' = Empty /\ orphans' = {}
  /\ cachedTiles' = 0
  /\ capacity' = NewCapacity(max)
  /\ pageGen' = IF pageGen = 0 THEN 1 ELSE pageGen

\* viewer_reset_tiles; ok: both stores could be allocated
ResetTiles(max, ok) ==
  /\ stores' = ok
  /\ cache' = Empty /\ map' = Empty /\ orphans' = {}
  /\ cachedTiles' = 0
  /\ capacity' = NewCapacity(max)
  /\ pageGen' = pageGen + 1

\* viewer_open; on every failure viewer_close has released what was opened
Open(max) ==
  /\ doc = "none" /\ Idle
  /\ maxTiles' = max
  /\ \/ doc' = "open" /\ ResetTiles(max, TRUE) /\ UNCHANGED faults
     \/ doc' = "closed" /\ Fails /\ UNCHANGED tiles
  /\ UNCHANGED <<activePage, held, slots, frame, call, answer>>

\* viewer_close, and d2d_scratch_release after it
Close ==
  /\ doc = "open" /\ Idle
  /\ doc' = "closed" /\ stores' = FALSE
  /\ cache' = Empty /\ map' = Empty /\ orphans' = {}
  /\ slots' = Empty
  /\ UNCHANGED <<maxTiles, capacity, cachedTiles, pageGen, activePage, held, frame,
                 call, answer, faults>>

-----------------------------------------------------------------------------
Demandable(p) == doc = "open" /\ stores /\ p \in Pages

\* viewer_demand answers before it touches anything
DemandRefused(p, r) ==
  /\ Idle /\ ~Demandable(p)
  /\ answer' = [call |-> "demand", status |-> "REFUSED", asked |-> r]
  /\ UNCHANGED <<doc, maxTiles, activePage, held, slots, frame, call, faults, tiles>>

\* the page is turned, but a store cannot be allocated: both are gone
TurnFails(p, r) ==
  /\ Idle /\ Demandable(p) /\ p # activePage /\ pageGen < MaxGen
  /\ ResetTiles(maxTiles, FALSE) /\ Fails
  /\ answer' = [call |-> "demand", status |-> "MEMORY", asked |-> r]
  /\ UNCHANGED <<doc, maxTiles, activePage, held, slots, frame, call>>

\* the page is turned if need be and the backend's page fetched
DemandStart(p, r) ==
  /\ Idle /\ Demandable(p)
  /\ \/ p = activePage /\ UNCHANGED tiles
     \/ p # activePage /\ pageGen < MaxGen /\ ResetTiles(maxTiles, TRUE)
  /\ activePage' = p
  /\ \/ /\ held' = TRUE /\ call' = Begun("demand", r)
        /\ answer' = NoAnswer
        /\ UNCHANGED faults
     \/ /\ Fails
        /\ answer' = [call |-> "demand", status |-> "BACKEND", asked |-> r]
        /\ UNCHANGED <<held, call>>
  /\ UNCHANGED <<doc, maxTiles, slots, frame>>

Demanding == call.name = "demand" /\ call.todo # <<>>
Miss == Demanding /\ cache[Here] = NoTile
NextTile == call' = [call EXCEPT !.todo = Tail(@)] /\ UNCHANGED answer

\* the cache has the tile
TileHit ==
  /\ Demanding /\ cache[Here] # NoTile
  /\ NextTile
  /\ UNCHANGED <<doc, maxTiles, activePage, held, slots, frame, faults, tiles>>

\* the ceiling is reached: the place stays without a tile, the loop goes on
TileOverCeiling ==
  /\ Miss /\ AtCeiling
  /\ NextTile
  /\ UNCHANGED <<doc, maxTiles, activePage, held, slots, frame, faults, tiles>>

Rendered == [page |-> activePage, gen |-> pageGen]
Full == Cardinality(Held(cache)) >= capacity

\* pc_tile_cache_put; the array grows to twice its size
Put == /\ cache' = [cache EXCEPT ![Here] = Rendered]
       /\ capacity' = IF Full THEN 2 * capacity ELSE capacity

\* the tile is rendered, copied, cached and mapped
TileRendered ==
  /\ Miss /\ ~AtCeiling
  /\ Put
  /\ map' = [map EXCEPT ![Here] = Rendered]
  /\ cachedTiles' = cachedTiles + 1
  /\ NextTile
  /\ UNCHANGED <<doc, maxTiles, stores, pageGen, activePage, held, slots, frame, orphans, faults>>

\* the tile is cached, but the map cannot take it
InsertFails ==
  /\ Miss /\ ~AtCeiling
  /\ Put
  /\ orphans' = orphans \cup {Here}
  /\ Fails /\ Answers("MEMORY")
  /\ held' = FALSE
  /\ UNCHANGED <<doc, maxTiles, stores, map, cachedTiles, pageGen, activePage, slots, frame>>

\* Fault: the error path forgets to free the page
RenderFailsHolding ==
  /\ Miss /\ ~AtCeiling
  /\ Fails /\ \E status \in {"BACKEND", "MEMORY"} : Answers(status)
  /\ UNCHANGED <<doc, maxTiles, activePage, held, slots, frame, tiles>>

\* Fault: a tile that cannot be rendered is left out like one over the ceiling
RenderFailsSkips ==
  /\ Miss /\ ~AtCeiling
  /\ Fails /\ NextTile
  /\ UNCHANGED <<doc, maxTiles, activePage, held, slots, frame, tiles>>

\* the page cannot be rendered, copied or put into a full cache
RenderFails ==
  /\ Miss /\ ~AtCeiling
  /\ Fails /\ \E status \in {"BACKEND", "MEMORY"} : Answers(status)
  /\ held' = FALSE
  /\ UNCHANGED <<doc, maxTiles, activePage, slots, frame, tiles>>

DemandEnd ==
  /\ call.name = "demand" /\ call.todo = <<>>
  /\ Answers("NONE")
  /\ held' = FALSE
  /\ UNCHANGED <<doc, maxTiles, activePage, slots, frame, faults, tiles>>

-----------------------------------------------------------------------------
\* the window starts a frame: BeginDraw and Clear
NewFrame ==
  /\ Idle
  /\ frame' = Wiped
  /\ UNCHANGED <<doc, maxTiles, activePage, held, slots, call, answer, faults, tiles>>

\* viewer_draw takes a page and ignores it
DrawStart(r) ==
  /\ Idle /\ doc = "open"
  /\ call' = Begun("draw", r) /\ answer' = NoAnswer
  /\ UNCHANGED <<doc, maxTiles, activePage, held, slots, frame, faults, tiles>>

Drawing == call.name = "draw" /\ call.todo # <<>>

\* nothing is mapped here: the place keeps the background
DrawSkips ==
  /\ Drawing /\ map[Here] = NoTile
  /\ NextTile
  /\ UNCHANGED <<doc, maxTiles, activePage, held, slots, frame, faults, tiles>>

\* d2d_blit_tile's slot once the tile is in it
Uploaded(slot, tile) == IF slot.gen = tile.gen THEN slot ELSE tile

DrawTile ==
  /\ Drawing /\ map[Here] # NoTile /\ Here \in Grid
  /\ slots' = [slots EXCEPT ![Here] = Uploaded(@, map[Here])]
  /\ frame' = [frame EXCEPT ![Here] = slots'[Here].page]
  /\ NextTile
  /\ UNCHANGED <<doc, maxTiles, activePage, held, faults, tiles>>

\* the bitmap cannot be created or uploaded: the slot keeps its generation
BlitFails ==
  /\ Drawing /\ map[Here] # NoTile
  /\ Here \in Grid /\ slots[Here].gen # map[Here].gen
  /\ Fails /\ \E status \in {"BACKEND", "MEMORY"} : Answers(status)
  /\ UNCHANGED <<doc, maxTiles, activePage, held, slots, frame, tiles>>

\* d2d_blit_tile has no slot for the place
BlitOutside ==
  /\ Drawing /\ map[Here] # NoTile /\ Here \notin Grid
  /\ Answers("RANGE")
  /\ UNCHANGED <<doc, maxTiles, activePage, held, slots, frame, faults, tiles>>

DrawEnd ==
  /\ call.name = "draw" /\ call.todo = <<>>
  /\ Answers("NONE")
  /\ UNCHANGED <<doc, maxTiles, activePage, held, slots, frame, faults, tiles>>

-----------------------------------------------------------------------------
VInit ==
  /\ doc = "none" /\ stores = FALSE /\ maxTiles = 0
  /\ cache = Empty /\ map = Empty /\ orphans = {}
  /\ capacity = DefaultCapacity /\ cachedTiles = 0
  /\ pageGen = 0 /\ activePage = NoPage /\ held = FALSE
  /\ slots = Empty /\ frame = Wiped
  /\ call = NoCall /\ answer = NoAnswer /\ faults = 0

DemandNext == \/ TileHit \/ TileOverCeiling \/ TileRendered
              \/ InsertFails \/ RenderFails \/ DemandEnd
DrawNext == DrawSkips \/ DrawTile \/ BlitFails \/ BlitOutside \/ DrawEnd

VNext ==
  \/ \E max \in Ceilings : Open(max)
  \/ Close
  \/ \E p \in 0 .. PageCount, r \in Regions :
       DemandRefused(p, r) \/ TurnFails(p, r) \/ DemandStart(p, r)
  \/ \E r \in Regions : DrawStart(r)
  \/ NewFrame
  \/ DemandNext
  \/ DrawNext

VSpec == VInit /\ [][VNext]_vvars

-----------------------------------------------------------------------------
(* The types of the variables; a cache always has slots. *)
VTypeOK ==
  /\ doc \in {"none", "open", "closed"} /\ stores \in BOOLEAN /\ held \in BOOLEAN
  /\ maxTiles \in Nat /\ cachedTiles \in Nat /\ pageGen \in Nat /\ faults \in Nat
  /\ capacity \in Nat \ {0}
  /\ cache \in [Places -> Tile] /\ map \in [Places -> Tile] /\ slots \in [Places -> Tile]
  /\ frame \in [Places -> Pages \cup {NoPage}]
  /\ activePage \in Pages \cup {NoPage}
  /\ orphans \subseteq Places
  /\ call \in [name : {"idle", "demand", "draw"}, todo : Seq(Places), asked : Seq(Places)]
  /\ answer.asked \in Seq(Places)

(* Whatever call failed and wherever viewer_demand returned: the map points   *)
(* only to tiles that the cache still owns, no backend page is kept between   *)
(* calls, and without stores nothing is pointed to.                           *)
NothingDangles ==
  /\ \A x \in Places : map[x] # NoTile => map[x] = cache[x]
  /\ held => call.name = "demand"
  /\ ~stores => Held(cache) = {}

(* The ceiling of viewer_open holds for the tiles that can be drawn, and the  *)
(* cache exceeds it only by the tiles whose insertion into the map failed:    *)
(* cached_tiles counts what is mapped, not what is cached.                    *)
CeilingKept ==
  /\ maxTiles > 0 => cachedTiles <= maxTiles
  /\ stores => /\ Cardinality(Held(map)) = cachedTiles
               /\ Held(cache) = Held(map) \cup orphans

(* viewer_demand answers PC_ERR_NONE only when every place it was asked for   *)
(* can be drawn, except where the ceiling is used up or an earlier call       *)
(* failed to map the tile: such a tile is a hit for ever after and its place  *)
(* stays blank until the page is turned.                                      *)
AnswerHolds ==
  (answer.call = "demand" /\ answer.status = "NONE" /\ doc = "open") =>
    \A i \in DOMAIN answer.asked :
      LET x == answer.asked[i] IN map[x] # NoTile \/ x \in orphans \/ AtCeiling

\* the places that can be drawn are ready, the page is the active one
Shown == INSTANCE Strip WITH page <- activePage, ready <- Held(map), frame <- frame

(* The tiles, their map, the generations and the bitmaps implement the strip: *)
(* what a place shows is the active page's, although a bitmap is uploaded     *)
(* only when the generation of its slot differs, and a tile that can be drawn *)
(* stays so until the page is turned or all tiles are lost.                   *)
IsStrip == Shown!Spec
=============================================================================
