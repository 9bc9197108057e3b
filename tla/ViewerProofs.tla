---------------------------- MODULE ViewerProofs ----------------------------
(* Proofs about TileViewer: what holds of the viewer's tiles for every grid,  *)
(* document, ceiling and sequence of failures; and about BenchSession: the    *)
(* viewer inside the benchmark keeps what is proved of a viewer alone, and    *)
(* the counters of the callback, of the window and of its posted messages     *)
(* agree, for every document, every number of frames and every failure.       *)
EXTENDS BenchSession, FiniteSetTheorems, TLAPS

-----------------------------------------------------------------------------
(* The inductive invariant.                                                   *)

\* what is known of a viewer that is not open or not idle
Phases ==
  /\ doc = "none" => /\ pageGen = 0 /\ cachedTiles = 0
                     /\ ~(answer.call = "demand" /\ answer.status = "NONE")
  /\ doc = "open" => pageGen >= 1
  /\ doc # "open" => ~stores
  /\ call.name = "demand" => doc = "open" /\ stores /\ activePage # NoPage
  /\ call.name = "draw" => doc = "open"
  /\ call.name # "idle" => answer.call = "idle"

\* every tile that is kept is one of the page and of its generation, and so is
\* every bitmap of that generation
Current ==
  /\ \A x \in Places : cache[x] # NoTile => cache[x] = Rendered
  /\ \A x \in Places : slots[x].gen <= pageGen
  /\ \A x \in Places : (slots[x].gen = pageGen /\ pageGen >= 1) => slots[x].page = activePage

Served(x) == map[x] # NoTile \/ x \in orphans \/ AtCeiling

\* the places that a call in progress has been through are served
InProgress ==
  call.name = "demand" =>
    LET done == Len(call.asked) - Len(call.todo)
    IN  /\ Len(call.todo) <= Len(call.asked)
        /\ \A i \in 1 .. Len(call.todo) : call.todo[i] = call.asked[done + i]
        /\ \A i \in 1 .. done : Served(call.asked[i])

Inv == VTypeOK /\ NothingDangles /\ Phases /\ Current

-----------------------------------------------------------------------------
(* What the steps have in common.                                             *)

\* The empty tile is a tile, and no rendered tile of an open viewer is it.
LEMMA TileFacts ==
  ASSUME VTypeOK
  PROVE  /\ NoTile \in Tile /\ NoTile.gen = 0 /\ NoTile.page = NoPage
         /\ NoPage \notin Pages
         /\ Empty \in [Places -> Tile] /\ Wiped \in [Places -> Pages \cup {NoPage}]
         /\ Rendered \in Tile
         /\ Rendered.page = activePage /\ Rendered.gen = pageGen
         /\ pageGen >= 1 => Rendered # NoTile
BY NumbersAssumption
   DEF VTypeOK, NoTile, Tile, NoPage, Pages, Empty, Wiped, Rendered

\* The place a call works on is a place, and what is left are places.
LEMMA HereFacts ==
  ASSUME VTypeOK, call.todo # <<>>
  PROVE  /\ Here \in Places /\ Here = call.todo[1]
         /\ Tail(call.todo) \in Seq(Places)
         /\ Len(Tail(call.todo)) = Len(call.todo) - 1
         /\ \A i \in DOMAIN Tail(call.todo) : Tail(call.todo)[i] = call.todo[i + 1]
<1>1. call.todo \in Seq(Places)
  BY DEF VTypeOK
<1>2. QED
  BY <1>1 DEF Here

CallType == [name : {"idle", "demand", "draw"}, todo : Seq(Places), asked : Seq(Places)]

\* A call begins with the region it was asked for.
LEMMA BegunFacts ==
  ASSUME NEW n \in {"demand", "draw"}, NEW r \in Regions
  PROVE  /\ r \in Seq(Places) /\ Begun(n, r) \in CallType
         /\ Begun(n, r).name = n /\ Begun(n, r).todo = r /\ Begun(n, r).asked = r
BY RegionsAssumption DEF Begun, CallType

\* A step of a call takes one place.
LEMMA NextTileFacts ==
  ASSUME VTypeOK, call.todo # <<>>, NextTile
  PROVE  /\ call' \in CallType /\ call'.name = call.name /\ call'.asked = call.asked
         /\ call'.todo = Tail(call.todo)
         /\ answer' = answer
<1>1. Tail(call.todo) \in Seq(Places)
  BY HereFacts
<1>2. QED
  BY <1>1 DEF NextTile, VTypeOK, CallType

\* An answer ends the call and is about what was asked.
LEMMA AnswersFacts ==
  ASSUME VTypeOK, NEW status, Answers(status)
  PROVE  /\ answer'.call = call.name /\ answer'.status = status
         /\ answer'.asked = call.asked /\ answer'.asked \in Seq(Places)
         /\ call' = NoCall /\ call' \in CallType /\ call'.name = "idle"
BY DEF Answers, VTypeOK, NoCall, CallType

-----------------------------------------------------------------------------
(* Type correctness.                                                          *)

\* The viewer before viewer_open has values of the right types.
LEMMA TypeInit == VInit => VTypeOK
<1> SUFFICES ASSUME VInit PROVE VTypeOK
  OBVIOUS
<1>1. NoTile \in Tile /\ Empty \in [Places -> Tile]
  BY NumbersAssumption DEF NoTile, Tile, Empty, NoPage
<1>2. Wiped \in [Places -> Pages \cup {NoPage}]
  BY DEF Wiped
<1>3. NoCall \in [name : {"idle", "demand", "draw"}, todo : Seq(Places), asked : Seq(Places)]
  BY DEF NoCall
<1>4. NoAnswer.asked \in Seq(Places)
  BY DEF NoAnswer
<1>5. QED
  BY <1>1, <1>2, <1>3, <1>4, NumbersAssumption DEF VInit, VTypeOK

\* The failed calls stay a number.
LEMMA FailsFact ==
  ASSUME VTypeOK, Fails
  PROVE  faults' \in Nat
BY DEF VTypeOK, Fails

\* The stores after a reset.
LEMMA ResetFacts ==
  ASSUME VTypeOK, NEW max \in Nat, NEW ok \in BOOLEAN, ResetTiles(max, ok)
  PROVE  /\ stores' \in BOOLEAN /\ stores' = ok
         /\ cache' \in [Places -> Tile] /\ map' \in [Places -> Tile] /\ orphans' \subseteq Places
         /\ cachedTiles' \in Nat /\ capacity' \in Nat \ {0} /\ pageGen' \in Nat
<1>1. Empty \in [Places -> Tile]
  BY TileFacts
<1>2. NewCapacity(max) \in Nat \ {0}
  BY NumbersAssumption DEF NewCapacity
<1>3. QED
  BY <1>1, <1>2 DEF ResetTiles, VTypeOK

\* What putting a tile into the cache does to the types.
LEMMA PutFacts ==
  ASSUME VTypeOK, call.todo # <<>>, Put
  PROVE  cache' \in [Places -> Tile] /\ capacity' \in Nat \ {0}
<1>1. Rendered \in Tile /\ Here \in Places
  BY TileFacts, HereFacts
<1>2. QED
  BY <1>1 DEF Put, VTypeOK

\* Every call of the viewer keeps the types.
LEMMA TypeStep ==
  ASSUME VTypeOK, [VNext]_vvars
  PROVE  VTypeOK'
<1> USE DEF VTypeOK
<1>1. ASSUME NEW max \in Ceilings, Open(max)
      PROVE  VTypeOK'
  <2>1. max \in Nat
    BY NumbersAssumption
  <2>2. CASE doc' = "open" /\ ResetTiles(max, TRUE) /\ UNCHANGED faults
    BY <1>1, <2>1, <2>2, ResetFacts DEF Open
  <2>3. CASE doc' = "closed" /\ Fails /\ UNCHANGED tiles
    BY <1>1, <2>1, <2>3 DEF Open, Fails, tiles
  <2>4. QED
    BY <1>1, <2>2, <2>3 DEF Open
<1>2. ASSUME Close
      PROVE  VTypeOK'
  BY <1>2, TileFacts DEF Close
<1>3. ASSUME NEW p \in 0 .. PageCount, NEW r \in Regions, DemandRefused(p, r)
      PROVE  VTypeOK'
  BY <1>3, RegionsAssumption DEF DemandRefused, tiles
<1>4. ASSUME NEW p \in 0 .. PageCount, NEW r \in Regions, TurnFails(p, r)
      PROVE  VTypeOK'
  BY <1>4, RegionsAssumption, ResetFacts, FailsFact DEF TurnFails
<1>5. ASSUME NEW p \in 0 .. PageCount, NEW r \in Regions, DemandStart(p, r)
      PROVE  VTypeOK'
  <2>1. /\ stores' \in BOOLEAN /\ cache' \in [Places -> Tile] /\ map' \in [Places -> Tile]
        /\ orphans' \subseteq Places /\ cachedTiles' \in Nat /\ capacity' \in Nat \ {0}
        /\ pageGen' \in Nat
    BY <1>5, ResetFacts DEF DemandStart, tiles
  <2>2. activePage' \in Pages \cup {NoPage}
    BY <1>5 DEF DemandStart, Demandable
  <2>3. /\ faults' \in Nat /\ held' \in BOOLEAN /\ answer'.asked \in Seq(Places)
        /\ call' \in CallType
    <3>1. CASE /\ held' = TRUE /\ call' = Begun("demand", r) /\ answer' = NoAnswer
               /\ UNCHANGED faults
      BY <3>1, BegunFacts DEF NoAnswer
    <3>2. CASE /\ Fails /\ UNCHANGED <<held, call>>
               /\ answer' = [call |-> "demand", status |-> "BACKEND", asked |-> r]
      BY <3>2, RegionsAssumption, FailsFact DEF CallType
    <3>3. QED
      BY <1>5, <3>1, <3>2 DEF DemandStart
  <2>4. QED
    BY <1>5, <2>1, <2>2, <2>3 DEF DemandStart, CallType
<1>6. ASSUME TileHit \/ TileOverCeiling \/ DrawSkips
      PROVE  VTypeOK'
  BY <1>6, NextTileFacts
     DEF CallType, TileHit, TileOverCeiling, DrawSkips, Demanding, Miss, Drawing, tiles
<1>7. ASSUME TileRendered
      PROVE  VTypeOK'
  <2>1. Rendered \in Tile /\ Here \in Places /\ call.todo # <<>> /\ Put
    BY <1>7, TileFacts, HereFacts DEF TileRendered, Miss, Demanding
  <2>2. QED
    BY <1>7, <2>1, PutFacts, NextTileFacts DEF TileRendered, CallType
<1>8. ASSUME InsertFails
      PROVE  VTypeOK'
  <2>1. Here \in Places /\ call.todo # <<>> /\ Put
    BY <1>8, HereFacts DEF InsertFails, Miss, Demanding
  <2>2. QED
    BY <1>8, <2>1, PutFacts, AnswersFacts, FailsFact DEF InsertFails, CallType
<1>9. ASSUME RenderFails \/ DemandEnd \/ BlitFails \/ BlitOutside \/ DrawEnd
      PROVE  VTypeOK'
  BY <1>9, AnswersFacts, FailsFact DEF CallType, RenderFails, DemandEnd, BlitFails, BlitOutside, DrawEnd, tiles
<1>10. ASSUME NewFrame
       PROVE  VTypeOK'
  BY <1>10, TileFacts DEF NewFrame, tiles
<1>11. ASSUME NEW r \in Regions, DrawStart(r)
       PROVE  VTypeOK'
  BY <1>11, BegunFacts DEF DrawStart, NoAnswer, CallType, tiles
<1>12. ASSUME DrawTile
       PROVE  VTypeOK'
  <2>1. Here \in Places
    BY <1>12, HereFacts DEF DrawTile, Drawing
  <2>2. Uploaded(slots[Here], map[Here]) \in Tile
    BY <2>1 DEF Uploaded
  <2>3. slots' \in [Places -> Tile] /\ slots'[Here].page \in Pages \cup {NoPage}
    BY <1>12, <2>1, <2>2 DEF DrawTile, Tile
  <2>4. QED
    BY <1>12, <2>1, <2>3, NextTileFacts DEF DrawTile, Drawing, CallType, tiles
<1>13. ASSUME UNCHANGED vvars
       PROVE  VTypeOK'
  BY <1>13 DEF vvars, tiles
<1>14. QED
  BY <1>1, <1>2, <1>3, <1>4, <1>5, <1>6, <1>7, <1>8, <1>9, <1>10, <1>11, <1>12, <1>13
     DEF VNext, DemandNext, DrawNext

-----------------------------------------------------------------------------
(* The phases of a viewer.                                                    *)

\* Before viewer_open no call is under way.
LEMMA PhasesInit == VInit => Phases
BY DEF VInit, Phases, NoCall, NoAnswer

\* What a call in progress implies, where it goes on or returns.
LEMMA PhasesOfCalls ==
  ASSUME VTypeOK, Phases, call.name # "idle", UNCHANGED <<doc, stores, activePage, pageGen>>,
         \/ call'.name = call.name /\ UNCHANGED answer
         \/ call'.name = "idle"
  PROVE  Phases'
BY DEF Phases, VTypeOK

\* A call is under way only while the document is open and its page is the active one.
LEMMA PhasesStep ==
  ASSUME VTypeOK, Phases, [VNext]_vvars
  PROVE  Phases'
<1>1. ASSUME NEW max \in Ceilings, Open(max)
      PROVE  Phases'
  <2>1. doc = "none" /\ pageGen = 0 /\ call.name = "idle" /\ ~stores
    BY <1>1 DEF Open, Idle, Phases
  <2>2. CASE doc' = "open" /\ ResetTiles(max, TRUE)
    BY <1>1, <2>1, <2>2 DEF Open, Phases, ResetTiles
  <2>3. CASE doc' = "closed" /\ UNCHANGED tiles
    BY <1>1, <2>1, <2>3 DEF Open, Phases, tiles
  <2>4. QED
    BY <1>1, <2>2, <2>3 DEF Open
<1>2. ASSUME Close
      PROVE  Phases'
  BY <1>2 DEF Close, Phases, Idle
<1>3. ASSUME NEW p \in 0 .. PageCount, NEW r \in Regions, DemandRefused(p, r)
      PROVE  Phases'
  BY <1>3 DEF DemandRefused, Phases, Idle, tiles
<1>4. ASSUME NEW p \in 0 .. PageCount, NEW r \in Regions, TurnFails(p, r)
      PROVE  Phases'
  BY <1>4 DEF TurnFails, ResetTiles, Demandable, Phases, Idle, VTypeOK
<1>5. ASSUME NEW p \in 0 .. PageCount, NEW r \in Regions, DemandStart(p, r)
      PROVE  Phases'
  <2>1. doc = "open" /\ doc' = "open" /\ stores' /\ activePage' # NoPage /\ pageGen' >= 1
    <3>1. doc = "open" /\ doc' = "open" /\ stores /\ pageGen \in Nat /\ pageGen >= 1
      BY <1>5 DEF DemandStart, Demandable, Phases, VTypeOK
    <3>2. p \in Pages /\ activePage' = p
      BY <1>5 DEF DemandStart, Demandable
    <3>3. stores' /\ pageGen' >= 1
      <4>1. CASE UNCHANGED tiles
        BY <3>1, <4>1 DEF tiles
      <4>2. CASE ResetTiles(maxTiles, TRUE)
        BY <3>1, <4>2 DEF ResetTiles
      <4>3. QED
        BY <1>5, <4>1, <4>2 DEF DemandStart
    <3>4. QED
      BY <3>1, <3>2, <3>3, TileFacts
  <2>2. \/ call'.name = "demand" /\ answer'.call = "idle"
        \/ call' = call
    BY <1>5, BegunFacts DEF DemandStart, NoAnswer
  <2>3. QED
    BY <1>5, <2>1, <2>2 DEF DemandStart, Phases, Idle
<1>6. ASSUME DemandNext \/ DrawNext
      PROVE  Phases'
  <2>1. call.name # "idle" /\ UNCHANGED <<doc, stores, activePage, pageGen>>
    BY <1>6 DEF DemandNext, DrawNext, TileHit, TileOverCeiling, TileRendered, InsertFails,
                RenderFails, DemandEnd, DrawSkips, DrawTile, BlitFails, BlitOutside, DrawEnd,
                Miss, Demanding, Drawing, Put, tiles
  <2>2. \/ call'.name = call.name /\ UNCHANGED answer
        \/ call'.name = "idle"
    BY <1>6, NextTileFacts, AnswersFacts
       DEF DemandNext, DrawNext, TileHit, TileOverCeiling, TileRendered, InsertFails,
           RenderFails, DemandEnd, DrawSkips, DrawTile, BlitFails, BlitOutside, DrawEnd,
           Miss, Demanding, Drawing
  <2>3. QED
    BY <2>1, <2>2, PhasesOfCalls
<1>7. ASSUME NewFrame
      PROVE  Phases'
  BY <1>7 DEF NewFrame, Phases, tiles
<1>8. ASSUME NEW r \in Regions, DrawStart(r)
      PROVE  Phases'
  BY <1>8, BegunFacts DEF DrawStart, NoAnswer, Phases, Idle, tiles
<1>9. ASSUME UNCHANGED vvars
      PROVE  Phases'
  BY <1>9 DEF vvars, tiles, Phases
<1>10. QED
  BY <1>1, <1>2, <1>3, <1>4, <1>5, <1>6, <1>7, <1>8, <1>9 DEF VNext

-----------------------------------------------------------------------------
(* Nothing dangles, and what is kept is current.                              *)

\* How a step may change the stores: not at all, by emptying them under a new
\* generation, or by one tile of the active page, cached and perhaps mapped.
Untouched == UNCHANGED <<stores, cache, map, orphans, cachedTiles, pageGen, activePage>>
Emptied == /\ cache' = Empty /\ map' = Empty /\ orphans' = {}
           /\ \/ pageGen' = pageGen + 1 /\ cachedTiles' = 0
              \/ UNCHANGED <<pageGen, activePage, cachedTiles>> /\ ~stores'
Added == /\ call.name = "demand" /\ call.todo # <<>> /\ cache[Here] = NoTile /\ ~AtCeiling
         /\ cache' = [cache EXCEPT ![Here] = Rendered]
         /\ \/ /\ map' = [map EXCEPT ![Here] = Rendered]
               /\ cachedTiles' = cachedTiles + 1 /\ UNCHANGED orphans
            \/ orphans' = orphans \cup {Here} /\ UNCHANGED <<map, cachedTiles>>
         /\ UNCHANGED <<stores, pageGen, activePage>>

\* A step leaves the cache and the map alone, empties them, or adds the one tile just
\* rendered where there was none.
LEMMA StoreSteps ==
  ASSUME VTypeOK, Phases, [VNext]_vvars
  PROVE  Untouched \/ Emptied \/ Added
<1>1. ASSUME NEW max \in Ceilings, Open(max)
      PROVE  Untouched \/ Emptied
  BY <1>1 DEF Open, ResetTiles, Untouched, Emptied, tiles
<1>2. ASSUME Close
      PROVE  Emptied
  BY <1>2 DEF Close, Emptied
<1>3. ASSUME NEW p \in 0 .. PageCount, NEW r \in Regions,
             TurnFails(p, r) \/ DemandStart(p, r)
      PROVE  Untouched \/ Emptied
  BY <1>3 DEF TurnFails, DemandStart, ResetTiles, Untouched, Emptied, tiles
<1>4. ASSUME TileRendered \/ InsertFails
      PROVE  Added
  BY <1>4 DEF TileRendered, InsertFails, Miss, Demanding, Put, Added
<1>5. ASSUME \/ \E p \in 0 .. PageCount, r \in Regions : DemandRefused(p, r)
             \/ \E r \in Regions : DrawStart(r)
             \/ NewFrame \/ TileHit \/ TileOverCeiling \/ RenderFails \/ DemandEnd
             \/ DrawNext \/ UNCHANGED vvars
      PROVE  Untouched
  BY <1>5 DEF DemandRefused, DrawStart, NewFrame, TileHit, TileOverCeiling, RenderFails,
              DemandEnd, DrawNext, DrawSkips, DrawTile, BlitFails, BlitOutside, DrawEnd,
              vvars, tiles, Untouched
<1>6. QED
  BY <1>1, <1>2, <1>3, <1>4, <1>5 DEF VNext, DemandNext

\* Nothing is held before viewer_open.
LEMMA NothingDanglesInit == VInit => NothingDangles
BY DEF VInit, NothingDangles, Held, Empty

\* Only viewer_demand holds the backend's page, and whatever ends it gives the page back.
LEMMA HeldSteps ==
  ASSUME VTypeOK, NothingDangles, [VNext]_vvars
  PROVE  held' => call'.name = "demand"
<1>1. ASSUME NEW p \in 0 .. PageCount, NEW r \in Regions, DemandStart(p, r)
      PROVE  held' => call'.name = "demand"
  BY <1>1, BegunFacts DEF DemandStart, NothingDangles
<1>2. ASSUME TileHit \/ TileOverCeiling \/ TileRendered \/ DrawSkips \/ DrawTile
      PROVE  held' => call'.name = "demand"
  BY <1>2 DEF TileHit, TileOverCeiling, TileRendered, DrawSkips, DrawTile, NextTile,
              NothingDangles, Miss, Demanding, VTypeOK
<1>3. ASSUME InsertFails \/ RenderFails \/ DemandEnd
      PROVE  ~held'
  BY <1>3 DEF InsertFails, RenderFails, DemandEnd
<1>4. ASSUME \/ \E max \in Ceilings : Open(max)
             \/ Close \/ NewFrame \/ UNCHANGED vvars
             \/ \E p \in 0 .. PageCount, r \in Regions : DemandRefused(p, r) \/ TurnFails(p, r)
      PROVE  held' => call'.name = "demand"
  BY <1>4 DEF Open, Close, NewFrame, DemandRefused, TurnFails, vvars, NothingDangles
<1>5. ASSUME \/ \E r \in Regions : DrawStart(r)
             \/ BlitFails \/ BlitOutside \/ DrawEnd
      PROVE  held' => call'.name = "demand"
  BY <1>5 DEF DrawStart, BlitFails, BlitOutside, DrawEnd, Drawing, Idle, NothingDangles
<1>6. QED
  BY <1>1, <1>2, <1>3, <1>4, <1>5 DEF VNext, DemandNext, DrawNext

\* No step leaves the map with a tile the cache does not have.
LEMMA NothingDanglesStep ==
  ASSUME VTypeOK, Phases, NothingDangles, [VNext]_vvars
  PROVE  NothingDangles'
<1>1. held' => call'.name = "demand"
  BY HeldSteps
<1>2. CASE Untouched
  BY <1>1, <1>2 DEF Untouched, NothingDangles, Held
<1>3. CASE Emptied
  BY <1>1, <1>3 DEF Emptied, NothingDangles, Held, Empty
<1>4. CASE Added
  <2>1. Here \in Places /\ stores
    BY <1>4, HereFacts DEF Added, Phases
  <2>2. \A x \in Places : map'[x] # NoTile => map'[x] = cache'[x]
    BY <1>4, <2>1 DEF Added, NothingDangles, VTypeOK
  <2>3. QED
    BY <1>1, <1>4, <2>1, <2>2 DEF Added, NothingDangles
<1>5. QED
  BY <1>2, <1>3, <1>4, StoreSteps

\* Before viewer_open there is no tile to be of another page.
LEMMA CurrentInit == VInit => Current
BY DEF VInit, Current, Empty, NoTile

\* Bitmaps change only where a tile is drawn, or all at once.
LEMMA SlotSteps ==
  ASSUME [VNext]_vvars
  PROVE  \/ UNCHANGED slots
         \/ slots' = Empty /\ UNCHANGED <<pageGen, activePage>> /\ Emptied
         \/ DrawTile
<1>1. ASSUME NEW max \in Ceilings, Open(max)
      PROVE  UNCHANGED slots
  BY <1>1 DEF Open
<1>2. ASSUME Close
      PROVE  slots' = Empty /\ UNCHANGED <<pageGen, activePage>> /\ Emptied
  BY <1>2 DEF Close, Emptied
<1>3. ASSUME NEW p \in 0 .. PageCount, NEW r \in Regions,
             DemandRefused(p, r) \/ TurnFails(p, r) \/ DemandStart(p, r)
      PROVE  UNCHANGED slots
  BY <1>3 DEF DemandRefused, TurnFails, DemandStart
<1>4. ASSUME DemandNext \/ \E r \in Regions : DrawStart(r)
      PROVE  UNCHANGED slots
  BY <1>4 DEF DemandNext, TileHit, TileOverCeiling, TileRendered, InsertFails, RenderFails,
              DemandEnd, DrawStart
<1>5. ASSUME DrawSkips \/ BlitFails \/ BlitOutside \/ DrawEnd \/ NewFrame \/ UNCHANGED vvars
      PROVE  UNCHANGED slots
  BY <1>5 DEF DrawSkips, BlitFails, BlitOutside, DrawEnd, NewFrame, vvars
<1>6. QED
  BY <1>1, <1>2, <1>3, <1>4, <1>5 DEF VNext, DrawNext

\* A bitmap that is drawn shows the active page.
LEMMA UploadedFacts ==
  ASSUME VTypeOK, Phases, NothingDangles, Current, DrawTile
  PROVE  /\ Here \in Places /\ map[Here] = Rendered
         /\ slots' \in [Places -> Tile]
         /\ \A x \in Places : x # Here => slots'[x] = slots[x]
         /\ slots'[Here].gen = pageGen /\ slots'[Here].page = activePage
<1>1. Here \in Places /\ pageGen >= 1 /\ pageGen \in Nat
  BY HereFacts DEF DrawTile, Drawing, Phases, VTypeOK
<1>2. map[Here] = Rendered
  BY <1>1 DEF DrawTile, NothingDangles, Current
<1>3. Rendered \in Tile /\ Rendered.gen = pageGen /\ Rendered.page = activePage
  BY TileFacts
<1>4. /\ Uploaded(slots[Here], map[Here]) \in Tile
      /\ Uploaded(slots[Here], map[Here]).gen = pageGen
      /\ Uploaded(slots[Here], map[Here]).page = activePage
  BY <1>1, <1>2, <1>3 DEF Uploaded, Current, VTypeOK
<1>5. QED
  BY <1>1, <1>2, <1>4 DEF DrawTile, VTypeOK

\* Tiles and bitmaps of the present generation are of the active page, and none is of a
\* later generation.
LEMMA CurrentStep ==
  ASSUME VTypeOK, Phases, NothingDangles, Current, [VNext]_vvars
  PROVE  Current'
<1>1. pageGen \in Nat /\ \A x \in Places : slots[x].gen \in Nat /\ slots[x].gen <= pageGen
  BY DEF VTypeOK, Current, Tile
<1>2. CASE Untouched \/ Added
  <2>1. UNCHANGED <<pageGen, activePage>> /\ Rendered' = Rendered
    BY <1>2 DEF Untouched, Added, Rendered
  <2>2. \A x \in Places : cache'[x] # NoTile => cache'[x] = Rendered'
    <3>1. CASE Untouched
      BY <3>1, <2>1 DEF Untouched, Current
    <3>2. CASE Added
      BY <3>2, <2>1, HereFacts DEF Added, Current, VTypeOK
    <3>3. QED
      BY <1>2, <3>1, <3>2
  <2>3. CASE UNCHANGED slots
    BY <2>1, <2>2, <2>3 DEF Current
  <2>4. CASE DrawTile
    BY <1>1, <2>1, <2>2, <2>4, UploadedFacts DEF Current
  <2>5. CASE slots' = Empty /\ Emptied
    BY <1>1, <2>1, <2>2, <2>5 DEF Current, Empty, NoTile
  <2>6. QED
    BY <2>3, <2>4, <2>5, SlotSteps
<1>3. CASE Emptied
  <2>1. \A x \in Places : cache'[x] = NoTile
    BY <1>3 DEF Emptied, Empty
  <2>2. CASE UNCHANGED slots /\ pageGen' = pageGen + 1
    BY <1>1, <2>1, <2>2 DEF Current
  <2>3. CASE UNCHANGED slots /\ UNCHANGED <<pageGen, activePage>>
    BY <2>1, <2>3 DEF Current
  <2>4. CASE slots' = Empty /\ UNCHANGED <<pageGen, activePage>>
    BY <1>1, <2>1, <2>4 DEF Current, Empty, NoTile
  <2>5. CASE DrawTile
    <3>1. UNCHANGED <<pageGen, activePage>>
      BY <2>5 DEF DrawTile, tiles
    <3>2. QED
      BY <1>1, <2>1, <2>5, <3>1, UploadedFacts DEF Current
  <2>6. QED
    BY <1>3, <2>2, <2>3, <2>4, <2>5, SlotSteps DEF Emptied
<1>4. QED
  BY <1>2, <1>3, StoreSteps

\* The invariant holds.
THEOREM InvHolds == VSpec => []Inv
<1>1. VInit => Inv
  BY TypeInit, NothingDanglesInit, PhasesInit, CurrentInit DEF Inv
<1>2. Inv /\ [VNext]_vvars => Inv'
  BY TypeStep, NothingDanglesStep, PhasesStep, CurrentStep DEF Inv
<1>3. QED
  BY <1>1, <1>2, PTL DEF VSpec

(* Every variable of the viewer keeps its type, whatever fails.               *)
THEOREM TypeCorrect == VSpec => []VTypeOK
<1>1. Inv => VTypeOK
  BY DEF Inv
<1>2. QED
  BY <1>1, InvHolds, PTL

(* The map never points to a tile that the cache does not own, and no call    *)
(* keeps the backend's page.                                                  *)
THEOREM NoneDangles == VSpec => []NothingDangles
<1>1. Inv => NothingDangles
  BY DEF Inv
<1>2. QED
  BY <1>1, InvHolds, PTL

-----------------------------------------------------------------------------
(* The ceiling.                                                               *)

\* What is rendered is held where it is put.
LEMMA HeldAdded ==
  ASSUME Inv, Added
  PROVE  /\ Here \in Places
         /\ Held(cache)' = Held(cache) \cup {Here} /\ Here \notin Held(cache)
         /\ map' = [map EXCEPT ![Here] = Rendered] => Held(map)' = Held(map) \cup {Here}
<1>1. Here \in Places /\ Rendered # NoTile /\ cache[Here] = NoTile
  BY HereFacts, TileFacts DEF Inv, Phases, Added
<1>2. cache \in [Places -> Tile] /\ map \in [Places -> Tile]
  BY DEF Inv, VTypeOK
<1>3. cache' = [cache EXCEPT ![Here] = Rendered]
  BY DEF Added
<1>4. QED
  BY <1>1, <1>2, <1>3 DEF Held

\* The ceiling is set by viewer_open, before there is a tile.
LEMMA CeilingSteps ==
  ASSUME Phases, [VNext]_vvars
  PROVE  UNCHANGED maxTiles \/ cachedTiles' = 0
<1>1. ASSUME NEW max \in Ceilings, Open(max)
      PROVE  cachedTiles' = 0
  BY <1>1 DEF Open, ResetTiles, Phases, tiles
<1>2. ASSUME \/ \E p \in 0 .. PageCount, r \in Regions :
                  DemandRefused(p, r) \/ TurnFails(p, r) \/ DemandStart(p, r)
             \/ \E r \in Regions : DrawStart(r)
             \/ Close \/ NewFrame \/ UNCHANGED vvars
      PROVE  UNCHANGED maxTiles
  BY <1>2 DEF DemandRefused, TurnFails, DemandStart, DrawStart, Close, NewFrame, vvars
<1>3. ASSUME DemandNext \/ DrawNext
      PROVE  UNCHANGED maxTiles
  BY <1>3 DEF DemandNext, DrawNext, TileHit, TileOverCeiling, TileRendered, InsertFails,
              RenderFails, DemandEnd, DrawSkips, DrawTile, BlitFails, BlitOutside, DrawEnd
<1>4. QED
  BY <1>1, <1>2, <1>3 DEF VNext

\* Nothing is cached before viewer_open.
LEMMA CeilingInit == VInit => CeilingKept
BY DEF VInit, CeilingKept

\* A tile is rendered only below the ceiling, and whatever raises the count adds one tile.
LEMMA CeilingStep ==
  ASSUME Inv, CeilingKept, [VNext]_vvars
  PROVE  CeilingKept'
<1>1. maxTiles \in Nat /\ cachedTiles \in Nat /\ maxTiles' \in Nat
  BY TypeStep DEF Inv, VTypeOK
<1>2. UNCHANGED maxTiles \/ cachedTiles' = 0
  BY CeilingSteps DEF Inv
<1>3. CASE Untouched
  <2>1. Held(map)' = Held(map) /\ Held(cache)' = Held(cache)
    BY <1>3 DEF Untouched, Held
  <2>2. QED
    BY <1>1, <1>2, <1>3, <2>1 DEF Untouched, CeilingKept
<1>4. CASE Emptied
  <2>1. Held(map)' = {} /\ Held(cache)' = {} /\ orphans' = {}
    BY <1>4 DEF Emptied, Held, Empty
  <2>2. Cardinality(Held(map)') = 0
    BY <2>1, FS_EmptySet
  <2>3. maxTiles' > 0 => cachedTiles' <= maxTiles'
    BY <1>1, <1>2, <1>4 DEF Emptied, CeilingKept
  <2>4. stores' => cachedTiles' = 0
    BY <1>4 DEF Emptied
  <2>5. QED
    BY <2>1, <2>2, <2>3, <2>4 DEF CeilingKept
<1>5. CASE Added
  <2>1. stores /\ stores' /\ Here \in Places /\ ~AtCeiling /\ Here \notin Held(cache)
        /\ Held(cache)' = Held(cache) \cup {Here}
    BY <1>5, HeldAdded DEF Added, Inv, Phases
  <2>2. Cardinality(Held(map)) = cachedTiles /\ Held(cache) = Held(map) \cup orphans
    BY <2>1 DEF CeilingKept
  <2>3. CASE UNCHANGED <<map, cachedTiles>> /\ orphans' = orphans \cup {Here}
    <3>1. Held(map)' = Held(map)
      BY <2>3 DEF Held
    <3>2. QED
      BY <1>1, <1>2, <2>1, <2>2, <2>3, <3>1 DEF CeilingKept
  <2>4. CASE /\ map' = [map EXCEPT ![Here] = Rendered]
             /\ cachedTiles' = cachedTiles + 1 /\ UNCHANGED orphans
    <3>1. Held(map)' = Held(map) \cup {Here} /\ Here \notin Held(map)
      BY <1>5, <2>1, <2>2, <2>4, HeldAdded
    <3>2. IsFiniteSet(Held(map))
      BY PlacesAssumption, FS_Subset DEF Held
    <3>3. Cardinality(Held(map)') = cachedTiles'
      BY <2>2, <2>4, <3>1, <3>2, FS_AddElement
    <3>4. maxTiles' > 0 => cachedTiles' <= maxTiles'
      BY <1>1, <1>2, <2>1, <2>4 DEF AtCeiling
    <3>5. QED
      BY <2>1, <2>2, <2>4, <3>1, <3>3, <3>4 DEF CeilingKept
  <2>5. QED
    BY <1>5, <2>3, <2>4 DEF Added
<1>6. QED
  BY <1>3, <1>4, <1>5, StoreSteps DEF Inv

(* The ceiling holds for what can be drawn, the counter tells how much that   *)
(* is, and the cache has no more than that and what could not be mapped.      *)
THEOREM CeilingHolds == VSpec => []CeilingKept
<1>1. Inv /\ CeilingKept /\ [VNext]_vvars => CeilingKept'
  BY CeilingStep
<1>2. QED
  BY <1>1, CeilingInit, InvHolds, PTL DEF VSpec

-----------------------------------------------------------------------------
(* What the answer of viewer_demand is worth.                                 *)

AnswerInv == InProgress /\ AnswerHolds

\* Before viewer_open nothing is asked.
LEMMA AnswerInit == VInit => AnswerInv
BY DEF VInit, AnswerInv, InProgress, AnswerHolds, NoCall, NoAnswer

\* A sequence that is one shorter.
LEMMA OneShorter ==
  ASSUME NEW d \in Nat, NEW k \in Nat
  PROVE  (d + k) - (k - 1) = d + 1 /\ k - 1 <= d + k
OBVIOUS

\* One more place is served, and those before it still are.
LEMMA OneServed ==
  ASSUME VTypeOK, InProgress, call.name = "demand", call.todo # <<>>, NextTile,
         \A x \in Places : Served(x) \/ x = Here => Served(x)'
  PROVE  InProgress'
<1>1. /\ call'.asked = call.asked /\ call'.name = "demand" /\ call'.todo = Tail(call.todo)
      /\ call.asked \in Seq(Places) /\ call.todo \in Seq(Places) /\ call'.todo \in Seq(Places)
  BY NextTileFacts, HereFacts DEF VTypeOK
<1>2. /\ Len(call.todo) \in Nat /\ Len(call.asked) \in Nat /\ Len(call.todo) >= 1
      /\ Len(call'.todo) = Len(call.todo) - 1
  BY <1>1
<1>3. Here \in Places /\ Here = call.todo[1]
  BY HereFacts
<1>4. \A i \in 1 .. Len(call.todo) - 1 : call'.todo[i] = call.todo[i + 1]
  BY <1>1, <1>2
<1>5. /\ Len(call.todo) <= Len(call.asked)
      /\ \A i \in 1 .. Len(call.todo) :
           call.todo[i] = call.asked[(Len(call.asked) - Len(call.todo)) + i]
      /\ \A i \in 1 .. Len(call.asked) - Len(call.todo) : Served(call.asked[i])
  BY DEF InProgress
<1> DEFINE n == Len(call.todo)
           done == Len(call.asked) - n
<1>6. n \in Nat /\ done \in Nat /\ n >= 1 /\ done + n = Len(call.asked) /\ n = Len(call.todo)
  BY <1>2, <1>5
<1>7. /\ \A i \in 1 .. n : call.todo[i] = call.asked[done + i]
      /\ \A i \in 1 .. done : Served(call.asked[i])
  BY <1>5
<1> HIDE DEF n, done
<1>8. ASSUME NEW i \in 1 .. n - 1
      PROVE  call'.todo[i] = call'.asked[(done + 1) + i]
  <2>1. i + 1 \in 1 .. n /\ done + (i + 1) = (done + 1) + i
    BY <1>6
  <2>2. call.todo[i + 1] = call.asked[(done + 1) + i]
    BY <1>7, <2>1
  <2>3. QED
    BY <1>1, <1>4, <1>6, <2>2
<1>9. ASSUME NEW i \in 1 .. done + 1
      PROVE  Served(call.asked[i])'
  <2>1. i \in 1 .. Len(call.asked)
    BY <1>6
  <2>2. call.asked[i] \in Places
    BY <1>1, <2>1
  <2>3. CASE i = done + 1
    <3>1. 1 \in 1 .. n
      BY <1>6
    <3>2. call.asked[i] = Here
      BY <1>3, <1>7, <2>3, <3>1
    <3>3. QED
      BY <1>1, <2>2, <3>2 DEF Served
  <2>4. CASE i \in 1 .. done
    BY <1>1, <1>7, <2>2, <2>4 DEF Served
  <2>5. QED
    BY <1>6, <2>3, <2>4
<1>10. /\ Len(call'.todo) = n - 1 /\ Len(call'.asked) = done + n
       /\ Len(call'.asked) - Len(call'.todo) = done + 1 /\ Len(call'.todo) <= Len(call'.asked)
  <2>1. Len(call'.todo) = n - 1
    BY <1>2, <1>6
  <2>2. call'.asked = call.asked
    BY <1>1
  <2>3. Len(call'.asked) = done + n
    BY <1>6, <2>2
  <2>4. (done + n) - (n - 1) = done + 1 /\ n - 1 <= done + n
    BY <1>6, OneShorter
  <2>5. QED
    BY <2>1, <2>3, <2>4
<1>11. QED
  BY <1>8, <1>9, <1>10 DEF InProgress

\* A step that leaves the demand alone, or ends it with a failure.
LEMMA AnswerKept ==
  ASSUME AnswerInv, call'.name # "demand",
         \/ answer'.call # "demand" \/ answer'.status # "NONE" \/ doc' # "open"
         \/ UNCHANGED <<doc, answer, map, orphans, maxTiles, cachedTiles>>
  PROVE  AnswerInv'
<1>1. InProgress'
  BY DEF InProgress
<1>2. AnswerHolds'
  BY DEF AnswerInv, AnswerHolds, AtCeiling
<1>3. QED
  BY <1>1, <1>2 DEF AnswerInv

\* A demand begins.
LEMMA AnswerBegins ==
  ASSUME Inv, AnswerInv, NEW p \in 0 .. PageCount, NEW r \in Regions, DemandStart(p, r)
  PROVE  AnswerInv'
<1>1. CASE call' = Begun("demand", r) /\ answer' = NoAnswer
  <2>1. /\ call'.name = "demand" /\ call'.todo = r /\ call'.asked = r /\ r \in Seq(Places)
        /\ Len(r) \in Nat
    BY <1>1, BegunFacts
  <2>2. Len(r) - Len(r) = 0 /\ 1 .. 0 = {} /\ \A i \in 1 .. Len(r) : 0 + i = i
    BY <2>1
  <2>3. InProgress'
    BY <2>1, <2>2 DEF InProgress
  <2>4. AnswerHolds'
    BY <1>1 DEF AnswerHolds, NoAnswer
  <2>5. QED
    BY <2>3, <2>4 DEF AnswerInv
<1>2. CASE /\ answer' = [call |-> "demand", status |-> "BACKEND", asked |-> r]
           /\ UNCHANGED call
  BY <1>2, AnswerKept DEF DemandStart, Idle
<1>3. QED
  BY <1>1, <1>2 DEF DemandStart

\* A demand goes on to the next place.
LEMMA AnswerGoesOn ==
  ASSUME Inv, CeilingKept, AnswerInv, TileHit \/ TileOverCeiling \/ TileRendered
  PROVE  AnswerInv'
<1>1. /\ call.name = "demand" /\ call.todo # <<>> /\ NextTile /\ Here \in Places
      /\ answer.call = "idle" /\ stores
  BY HereFacts DEF TileHit, TileOverCeiling, TileRendered, Miss, Demanding, Inv, Phases
<1>2. CASE TileHit \/ TileOverCeiling
  <2>1. UNCHANGED <<map, orphans, maxTiles, cachedTiles>>
    BY <1>2 DEF TileHit, TileOverCeiling, tiles
  <2>2. Served(Here)
    <3>1. CASE TileHit
      BY <1>1, <3>1 DEF TileHit, CeilingKept, Held, Served
    <3>2. CASE TileOverCeiling
      BY <3>2 DEF TileOverCeiling, Served
    <3>3. QED
      BY <1>2, <3>1, <3>2
  <2>3. \A x \in Places : Served(x) \/ x = Here => Served(x)'
    BY <2>1, <2>2 DEF Served, AtCeiling
  <2>4. QED
    BY <1>1, <2>3, OneServed DEF AnswerInv, AnswerHolds, NextTile, Inv
<1>3. CASE TileRendered
  <2>1. ~AtCeiling /\ map' = [map EXCEPT ![Here] = Rendered] /\ orphans' = orphans
    BY <1>3 DEF TileRendered, Miss
  <2>2. Rendered # NoTile /\ map \in [Places -> Tile]
    BY <1>1, TileFacts DEF Inv, Phases, VTypeOK
  <2>3. \A x \in Places : Served(x) \/ x = Here => Served(x)'
    BY <1>1, <2>1, <2>2 DEF Served
  <2>4. QED
    BY <1>1, <2>3, OneServed DEF AnswerInv, AnswerHolds, NextTile, Inv
<1>4. QED
  BY <1>2, <1>3

\* A demand has been through all it was asked for.
LEMMA AnswerEnds ==
  ASSUME Inv, AnswerInv, DemandEnd
  PROVE  AnswerInv'
<1>1. /\ call.name = "demand" /\ call.todo = <<>> /\ call'.name = "idle"
      /\ answer'.asked = call.asked /\ call.asked \in Seq(Places)
      /\ UNCHANGED <<map, orphans, maxTiles, cachedTiles>>
  BY AnswersFacts DEF DemandEnd, Inv, VTypeOK, tiles
<1>2. Len(call.asked) - Len(call.todo) = Len(call.asked)
  BY <1>1
<1>3. \A i \in 1 .. Len(call.asked) : Served(call.asked[i])
  BY <1>1, <1>2 DEF AnswerInv, InProgress
<1>4. AnswerHolds'
  BY <1>1, <1>3 DEF AnswerHolds, Served, AtCeiling
<1>5. QED
  BY <1>1, <1>4 DEF AnswerInv, InProgress

\* What viewer_demand answers is true of what it was asked, whatever failed on the way.
LEMMA AnswerStep ==
  ASSUME Inv, CeilingKept, AnswerInv, [VNext]_vvars
  PROVE  AnswerInv'
<1>1. ASSUME NEW max \in Ceilings, Open(max)
      PROVE  AnswerInv'
  BY <1>1, AnswerKept DEF Open, Idle, Inv, Phases
<1>2. ASSUME Close
      PROVE  AnswerInv'
  BY <1>2, AnswerKept DEF Close, Idle
<1>3. ASSUME NEW p \in 0 .. PageCount, NEW r \in Regions, DemandRefused(p, r) \/ TurnFails(p, r)
      PROVE  AnswerInv'
  <2>1. call'.name # "demand" /\ answer'.status # "NONE"
    <3>1. CASE DemandRefused(p, r)
      BY <3>1 DEF DemandRefused, Idle
    <3>2. CASE TurnFails(p, r)
      BY <3>2 DEF TurnFails, Idle
    <3>3. QED
      BY <1>3, <3>1, <3>2
  <2>2. QED
    BY <2>1, AnswerKept
<1>4. ASSUME InsertFails \/ RenderFails
      PROVE  AnswerInv'
  <2>1. PICK status \in {"BACKEND", "MEMORY"} : Answers(status)
    BY <1>4 DEF InsertFails, RenderFails
  <2>2. QED
    BY <2>1, AnswersFacts, AnswerKept DEF Inv
<1>5. ASSUME NEW r \in Regions, DrawStart(r)
      PROVE  AnswerInv'
  BY <1>5, BegunFacts, AnswerKept DEF DrawStart, NoAnswer
<1>6. ASSUME DrawSkips \/ DrawTile
      PROVE  AnswerInv'
  <2>1. call'.name = "draw" /\ answer'.call = "idle"
    BY <1>6, NextTileFacts DEF DrawSkips, DrawTile, Drawing, Inv, Phases
  <2>2. QED
    BY <2>1, AnswerKept
<1>7. ASSUME BlitFails \/ BlitOutside \/ DrawEnd
      PROVE  AnswerInv'
  <2>1. call.name = "draw" /\ \E status : Answers(status)
    BY <1>7 DEF BlitFails, BlitOutside, DrawEnd, Drawing
  <2>2. call'.name = "idle" /\ answer'.call = "draw"
    BY <2>1, AnswersFacts DEF Inv
  <2>3. QED
    BY <2>2, AnswerKept
<1>8. ASSUME NewFrame
      PROVE  AnswerInv'
  BY <1>8, AnswerKept DEF NewFrame, Idle, tiles
<1>9. ASSUME UNCHANGED vvars
      PROVE  AnswerInv'
  BY <1>9 DEF vvars, tiles, AnswerInv, InProgress, AnswerHolds, Served, AtCeiling
<1>10. QED
  BY <1>1, <1>2, <1>3, <1>4, <1>5, <1>6, <1>7, <1>8, <1>9,
     AnswerBegins, AnswerGoesOn, AnswerEnds
     DEF VNext, DemandNext, DrawNext

(* viewer_demand answers PC_ERR_NONE only when every place it was asked for   *)
(* can be drawn, is over the ceiling or was lost by a failed insertion.       *)
THEOREM AnswersHold == VSpec => []AnswerHolds
<1>1. Inv /\ CeilingKept /\ AnswerInv /\ [VNext]_vvars => AnswerInv'
  BY AnswerStep
<1>2. AnswerInv => AnswerHolds
  BY DEF AnswerInv
<1>3. QED
  BY <1>1, <1>2, AnswerInit, InvHolds, CeilingHolds, PTL DEF VSpec

-----------------------------------------------------------------------------
(* The viewer implements the strip.                                           *)

\* Before viewer_open the strip shows nothing.
LEMMA StripInit == VInit => Shown!Init
BY DEF VInit, Shown!Init, Shown!Wiped, Shown!NoPage, NoPage, Wiped, Held, Empty

\* What the stores do to the strip.
LEMMA StripStores ==
  ASSUME Inv, UNCHANGED frame, UNCHANGED activePage,
         \/ Untouched
         \/ cache' = Empty /\ map' = Empty
         \/ Added
  PROVE  [Shown!Next]_(Shown!vars)
<1>1. CASE Untouched
  BY <1>1 DEF Untouched, Shown!vars, Held
<1>2. CASE map' = Empty
  BY <1>2 DEF Shown!Next, Shown!Lose, Held, Empty
<1>3. CASE Added
  <2>1. Here \in Places /\ activePage # NoPage
    BY <1>3, HeldAdded DEF Added, Inv, Phases
  <2>2. CASE map' = [map EXCEPT ![Here] = Rendered]
    <3>1. Held(map)' = Held(map) \cup {Here}
      BY <1>3, <2>2, HeldAdded
    <3>2. Shown!Fill(Here)
      BY <2>1, <3>1 DEF Shown!Fill, Shown!NoPage, NoPage
    <3>3. QED
      BY <2>1, <3>2 DEF Shown!Next
  <2>3. CASE UNCHANGED map
    BY <2>3 DEF Shown!vars, Held
  <2>4. QED
    BY <1>3, <2>2, <2>3 DEF Added
<1>4. QED
  BY <1>1, <1>2, <1>3

\* Every step of the viewer is a step of the strip or leaves the strip alone.
LEMMA StripStep ==
  ASSUME Inv, [VNext]_vvars
  PROVE  [Shown!Next]_(Shown!vars)
<1>1. ASSUME NEW p \in 0 .. PageCount, NEW r \in Regions, DemandStart(p, r)
      PROVE  [Shown!Next]_(Shown!vars)
  <2>1. p \in Pages /\ activePage' = p /\ UNCHANGED frame
    BY <1>1 DEF DemandStart, Demandable
  <2>2. CASE p = activePage /\ UNCHANGED tiles
    BY <2>1, <2>2 DEF tiles, Shown!vars, Held
  <2>3. CASE ResetTiles(maxTiles, TRUE)
    BY <2>1, <2>3 DEF ResetTiles, Shown!Next, Shown!Turn, Held, Empty
  <2>4. QED
    BY <1>1, <2>2, <2>3 DEF DemandStart
<1>2. ASSUME NewFrame
      PROVE  [Shown!Next]_(Shown!vars)
  BY <1>2 DEF NewFrame, tiles, Held, Wiped, NoPage,
              Shown!Next, Shown!Wipe, Shown!Wiped, Shown!NoPage
<1>3. ASSUME DrawTile
      PROVE  [Shown!Next]_(Shown!vars)
  <2>1. Here \in Places /\ slots'[Here].page = activePage /\ Here \in Held(map)
    BY <1>3, UploadedFacts DEF Inv, DrawTile, Held
  <2>2. /\ frame' = [frame EXCEPT ![Here] = activePage]
        /\ UNCHANGED activePage /\ Held(map)' = Held(map)
    BY <1>3, <2>1 DEF DrawTile, tiles, Held
  <2>3. Shown!Show(Here)
    BY <2>1, <2>2 DEF Shown!Show
  <2>4. QED
    BY <2>1, <2>3 DEF Shown!Next
<1>4. ASSUME \/ \E max \in Ceilings : Open(max)
             \/ Close
             \/ \E p \in 0 .. PageCount, r \in Regions : DemandRefused(p, r) \/ TurnFails(p, r)
             \/ \E r \in Regions : DrawStart(r)
      PROVE  [Shown!Next]_(Shown!vars)
  <2>1. UNCHANGED <<frame, activePage>>
    BY <1>4 DEF Open, Close, DemandRefused, TurnFails, DrawStart
  <2>2. QED
    BY <2>1, StoreSteps, StripStores DEF Inv, Emptied
<1>5. ASSUME DemandNext \/ DrawSkips \/ BlitFails \/ BlitOutside \/ DrawEnd
      PROVE  [Shown!Next]_(Shown!vars)
  <2>1. UNCHANGED <<frame, activePage>>
    BY <1>5 DEF DemandNext, TileHit, TileOverCeiling, TileRendered, InsertFails, RenderFails,
                DemandEnd, DrawSkips, BlitFails, BlitOutside, DrawEnd
  <2>2. QED
    BY <2>1, StoreSteps, StripStores DEF Inv, Emptied
<1>6. ASSUME UNCHANGED vvars
      PROVE  [Shown!Next]_(Shown!vars)
  BY <1>6 DEF vvars, tiles, Shown!vars, Held
<1>7. QED
  BY <1>1, <1>2, <1>3, <1>4, <1>5, <1>6 DEF VNext, DrawNext

(* The viewer with its cache, its map and its bitmaps implements the strip: a *)
(* place shows nothing or the active page, never a tile of a page before.     *)
THEOREM ViewerIsStrip == VSpec => IsStrip
<1>1. Inv /\ [VNext]_vvars => [Shown!Next]_(Shown!vars)
  BY StripStep
<1>2. QED
  BY <1>1, StripInit, InvHolds, PTL DEF VSpec, IsStrip, Shown!Spec

-----------------------------------------------------------------------------
(* The benchmark.                                                             *)

Posts == {"wheel", "close"}

-----------------------------------------------------------------------------
(* The inductive invariant, in parts.                                         *)

\* the passes walk through the pages and back
Passes ==
  /\ phase \in 0 .. 2 /\ prepared \in BOOLEAN /\ settleLeft \in 0 .. SettleFrames
  /\ phase < 2 => stepsLeft \in 1 .. PageCount
  /\ phase = 0 => page = PageCount - stepsLeft
  /\ phase = 1 => page = stepsLeft - 1

\* every page that a pass has left behind is recorded
Recordings ==
  /\ recorded \in [0 .. 2 -> 0 .. MaxRecorded]
  /\ \A p \in 0 .. 1 :
       /\ phase = p => recorded[p] = MaxRecorded \/ recorded[p] >= PageCount - stepsLeft
       /\ phase > p => recorded[p] >= PageCount
  /\ phase < 2 => recorded[2] = 0

\* callbacks that succeeded, counted by what the callback keeps
Progress ==
  IF phase = 0 THEN PageCount - stepsLeft
  ELSE IF phase = 1 THEN 2 * PageCount - stepsLeft
  ELSE 2 * PageCount + recorded[2] + (IF prepared THEN 1 + SettleFrames - settleLeft ELSE 0)

InFlight == IF at = "present" THEN 1 ELSE 0

\* the window counts no frame whose callback did not succeed
Agreed == win # "gone" => recorded[2] = MaxRecorded \/ frames + InFlight <= Progress

\* a window's life, and why it ends
Loop ==
  /\ win \in {"none", "open", "destroyed", "gone"}
  /\ frames \in Nat /\ exit \in {-1, 0, 1} /\ queue \in Seq(Posts)
  /\ win = "none" => at = "done" /\ queue = <<>> /\ ~quit /\ frames = 0
  /\ win \in {"open", "destroyed"} => limit = FrameBudget
  /\ win = "gone" => at = "done" /\ exit # -1
  /\ exit = 0 => win = "gone"
  /\ at = "done" => frames = 0 \/ quit
  /\ ((\E i \in DOMAIN queue : queue[i] = "close") \/ quit) => userClosed \/ frames >= limit

BenchInv == Passes /\ Recordings /\ Agreed /\ Loop /\ BenchComplete

-----------------------------------------------------------------------------
(* The steps.                                                                 *)

\* what the window and the loop do while the callback's counters stay as they are
LoopSteps ==
  \/ Wheel \/ CloseWindow \/ Paint \/ Quit \/ Pump
  \/ FrameSkipped \/ FrameBegins \/ EndDrawFails \/ Presented \/ PresentFails
  \/ (RunStart /\ ~quit) \/ Input
  \/ (\E s \in Sizes : Sized(s))
  \/ (\E s \in Sizes, d \in Scales : DpiChanged(s, d))

\* Every step is one of seven.
LEMMA BenchCases ==
  ASSUME [BNext]_vars
  PROVE  \/ /\ UNCHANGED <<wvars, bstate, userClosed, cbFailed>>
            /\ exit' = exit \/ (BenchOpen /\ exit' = 1)
         \/ BenchCreate \/ BenchCreateFails \/ BenchExit
         \/ LoopSteps /\ UNCHANGED <<bstate, exit, userClosed, cbFailed>>
         \/ \E ok \in BOOLEAN : Return(ok)
         \/ UserCloses /\ userClosed' = TRUE /\ UNCHANGED <<bstate, exit, cbFailed>>
<1>1. CASE UNCHANGED vars
  BY <1>1 DEF vars, bvars
<1>2. CASE BenchOpen
  BY <1>2 DEF BenchOpen
<1>3. CASE BenchRun \/ BenchFrame
  BY <1>3 DEF BenchRun, BenchFrame, LoopSteps, bvars
<1>4. CASE CallbackDrawsWarm \/ CallbackDraws \/ CallbackDemands \/ ViewerWorks
  BY <1>4 DEF CallbackDrawsWarm, CallbackDraws, CallbackDemands, ViewerWorks, DrawRegion, bvars
<1>5. CASE CallbackEnds
  BY <1>5 DEF CallbackEnds
<1>6. CASE WindowWorks
  BY <1>6 DEF WindowWorks, Messages, Rendering, LoopSteps, bvars
<1>7. CASE Outside
  BY <1>7 DEF Outside, LoopSteps, bvars
<1> QED
  BY <1>1, <1>2, <1>3, <1>4, <1>5, <1>6, <1>7 DEF BNext, Program

\* The numbers of the benchmark are numbers.
LEMMA Numbers ==
  /\ PageCount \in Nat \ {0} /\ SettleFrames \in Nat /\ FullFrames \in Nat /\ MaxRecorded \in Nat
  /\ MaxRecorded > PageCount + FullFrames
  /\ FrameBudget \in Nat \ {0}
BY BenchAssumption, NumbersAssumption DEF FrameBudget

\* A call of the callback keeps the passes in the pages.
LEMMA PassesStep ==
  ASSUME Passes, NEW ok \in BOOLEAN, Return(ok)
  PROVE  Passes'
<1> USE Numbers
<1>1. CASE PagePass(ok)
  BY <1>1 DEF PagePass, Passes
<1>2. CASE FullWarm
  BY <1>2 DEF FullWarm, Passes
<1>3. CASE FullSettle(ok)
  BY <1>3 DEF FullSettle, Passes
<1>4. CASE FullMeasured
  BY <1>4 DEF FullMeasured, Passes
<1> QED
  BY <1>1, <1>2, <1>3, <1>4 DEF Return

\* What recording a frame does to the counters.
LEMMA RecordedFacts ==
  ASSUME Passes, recorded \in [0 .. 2 -> 0 .. MaxRecorded], Recorded
  PROVE  /\ recorded' \in [0 .. 2 -> 0 .. MaxRecorded]
         /\ recorded[phase] < MaxRecorded => recorded'[phase] = recorded[phase] + 1
         /\ recorded[phase] = MaxRecorded => recorded'[phase] = MaxRecorded
         /\ \A p \in 0 .. 2 \ {phase} : recorded'[p] = recorded[p]
BY Numbers DEF Passes, Recorded

\* A pass leaves no page behind that is not recorded.
LEMMA RecordingsStep ==
  ASSUME Passes, Recordings, NEW ok \in BOOLEAN, Return(ok)
  PROVE  Recordings'
<1> USE Numbers
<1>1. CASE PagePass(ok)
  <2>1. Recorded /\ phase \in 0 .. 1
    BY <1>1 DEF PagePass, Passes
  <2>2. /\ recorded' \in [0 .. 2 -> 0 .. MaxRecorded]
        /\ recorded[phase] < MaxRecorded => recorded'[phase] = recorded[phase] + 1
        /\ recorded[phase] = MaxRecorded => recorded'[phase] = MaxRecorded
        /\ \A p \in 0 .. 2 \ {phase} : recorded'[p] = recorded[p]
        /\ recorded \in [0 .. 2 -> 0 .. MaxRecorded]
    BY <2>1, RecordedFacts DEF Recordings
  <2>3. CASE phase' = phase /\ stepsLeft' = stepsLeft
    BY <2>1, <2>2, <2>3 DEF Recordings, Passes
  <2>4. CASE phase' = phase /\ stepsLeft' = stepsLeft - 1
    BY <2>1, <2>2, <2>4 DEF Recordings, Passes
  <2>5. CASE phase' = phase + 1 /\ stepsLeft = 1 /\ (phase = 0 => stepsLeft' = PageCount)
    <3>1. recorded'[phase] >= PageCount
      BY <2>1, <2>2, <2>5 DEF Recordings, Passes
    <3> QED
      BY <2>1, <2>2, <2>5, <3>1 DEF Recordings, Passes
  <2> QED
    BY <1>1, <2>3, <2>4, <2>5 DEF PagePass, Passes
<1>2. CASE FullWarm \/ FullSettle(ok)
  BY <1>2 DEF FullWarm, FullSettle, Recordings
<1>3. CASE FullMeasured
  BY <1>3, RecordedFacts DEF FullMeasured, Recordings
<1> QED
  BY <1>1, <1>2, <1>3 DEF Return

\* A callback that succeeds is one step further, and none takes a step back.
LEMMA ProgressStep ==
  ASSUME Passes, Recordings, NEW ok \in BOOLEAN, Return(ok), recorded'[2] < MaxRecorded
  PROVE  /\ Progress \in Nat /\ Progress' \in Nat
         /\ Progress' >= Progress + (IF ok THEN 1 ELSE 0)
<1> USE Numbers
<1>1. recorded \in [0 .. 2 -> 0 .. MaxRecorded] /\ recorded' \in [0 .. 2 -> 0 .. MaxRecorded]
  BY RecordingsStep DEF Recordings
<1>2. Passes'
  BY PassesStep
<1>3. Progress \in Nat /\ Progress' \in Nat
  BY <1>1, <1>2 DEF Progress, Passes
<1>4. CASE PagePass(ok)
  <2>1. recorded'[2] = recorded[2]
    BY <1>4, RecordedFacts, <1>1 DEF PagePass, Passes
  <2>2. CASE ~ok
    BY <1>3, <1>4, <2>1, <2>2 DEF PagePass, Passes, Progress
  <2>3. CASE ok
    BY <1>1, <1>3, <1>4, <2>1, <2>3 DEF PagePass, Passes, Progress
  <2> QED
    BY <2>2, <2>3
<1>5. CASE FullWarm
  BY <1>1, <1>3, <1>5 DEF FullWarm, Passes, Progress
<1>6. CASE FullSettle(ok)
  BY <1>1, <1>3, <1>6 DEF FullSettle, Passes, Progress
<1>7. CASE FullMeasured
  <2>1. recorded'[2] = recorded[2] + 1
    BY <1>1, <1>7, RecordedFacts DEF FullMeasured, Passes
  <2> QED
    BY <1>1, <1>3, <1>7, <2>1 DEF FullMeasured, Passes, Progress
<1> QED
  BY <1>3, <1>4, <1>5, <1>6, <1>7 DEF Return

\* The number of full frames recorded only grows until the end.
LEMMA SaturatedStep ==
  ASSUME Passes, Recordings, NEW ok \in BOOLEAN, Return(ok), recorded[2] = MaxRecorded
  PROVE  recorded'[2] = MaxRecorded
<1>1. recorded \in [0 .. 2 -> 0 .. MaxRecorded]
  BY DEF Recordings
<1>2. phase = 2
  BY Numbers DEF Recordings, Passes
<1> QED
  BY <1>1, <1>2, RecordedFacts DEF Return, PagePass, FullWarm, FullSettle, FullMeasured

\* The frames of the window and the callbacks agree after each step of the loop.
LEMMA AgreedLoop ==
  ASSUME BenchInv, LoopSteps, UNCHANGED bstate
  PROVE  Agreed'
<1>1. Progress' = Progress /\ recorded' = recorded /\ win # "gone"
  <2>1. Progress' = Progress /\ recorded' = recorded
    BY DEF Progress, bstate
  <2>2. win = "gone" => at = "done"
    BY DEF BenchInv, Loop
  <2>3. at # "done" \/ win = "open"
    BY DEF LoopSteps, Wheel, CloseWindow, Paint, Quit, Pump, FrameSkipped, FrameBegins,
           EndDrawFails, Presented, PresentFails, RunStart, Input, Sized, DpiChanged, Waiting
  <2> QED
    BY <2>1, <2>2, <2>3
<1>2. recorded[2] = MaxRecorded \/ frames + InFlight <= Progress
  BY <1>1 DEF BenchInv, Agreed
<1>3. frames' + InFlight' <= frames + InFlight
  <2>0. frames \in Nat
    BY DEF BenchInv, Loop
  <2>1. CASE Wheel \/ CloseWindow \/ Paint \/ Quit \/ Pump
    BY <2>0, <2>1 DEF Wheel, CloseWindow, Paint, Quit, Pump, InFlight
  <2>2. CASE FrameSkipped \/ FrameBegins \/ RunStart \/ Input
    BY <2>0, <2>2 DEF FrameSkipped, FrameBegins, RunStart, Input, InFlight
  <2>3. CASE EndDrawFails \/ Presented \/ PresentFails
    BY <2>0, <2>3 DEF EndDrawFails, Presented, PresentFails, FrameCounted, InFlight
  <2>4. CASE (\E s \in Sizes : Sized(s)) \/ (\E s \in Sizes, d \in Scales : DpiChanged(s, d))
    BY <2>0, <2>4 DEF Sized, DpiChanged, InFlight
  <2> QED
    BY <2>1, <2>2, <2>3, <2>4 DEF LoopSteps
<1>4. frames \in Nat /\ frames' \in Nat /\ InFlight \in Nat /\ InFlight' \in Nat
  BY DEF BenchInv, Loop, InFlight, LoopSteps, Wheel, CloseWindow, Paint, Quit, Pump,
         FrameSkipped, FrameBegins, EndDrawFails, Presented, PresentFails, FrameCounted,
         RunStart, Input, Sized, DpiChanged
<1>5. Progress \in Nat
  BY Numbers DEF BenchInv, Passes, Recordings, Progress
<1>6. frames + InFlight <= Progress => frames' + InFlight' <= Progress'
  <2>1. ASSUME NEW a \in Nat, NEW b \in Nat, NEW c \in Nat, NEW d \in Nat, NEW p \in Nat,
               c + d <= a + b
        PROVE  a + b <= p => c + d <= p
    BY <2>1
  <2> QED
    BY <1>1, <1>3, <1>4, <1>5, <2>1
<1> QED
  BY <1>1, <1>2, <1>6 DEF Agreed

\* A frame is in flight when its callback has succeeded.
LEMMA AgreedReturn ==
  ASSUME BenchInv, NEW ok \in BOOLEAN, Return(ok)
  PROVE  Agreed'
<1>1. /\ at = "callback" /\ win' = win /\ frames' = frames /\ frames \in Nat
      /\ at' = IF ok THEN "present" ELSE "get"
  BY DEF Return, CallbackReturns, BenchInv, Loop
<1>2. win # "gone"
  BY <1>1 DEF BenchInv, Loop
<1>3. recorded' \in [0 .. 2 -> 0 .. MaxRecorded]
  BY RecordingsStep DEF BenchInv, Recordings
<1>4. CASE recorded[2] = MaxRecorded
  BY <1>4, SaturatedStep DEF BenchInv, Agreed
<1>5. CASE recorded'[2] = MaxRecorded
  BY <1>5 DEF Agreed
<1>6. CASE recorded[2] # MaxRecorded /\ recorded'[2] # MaxRecorded
  <2>1. frames <= Progress
    BY <1>1, <1>2, <1>6 DEF BenchInv, Agreed, InFlight
  <2>2. recorded'[2] < MaxRecorded
    BY <1>3, <1>6, Numbers
  <2>3. /\ Progress \in Nat /\ Progress' \in Nat
        /\ Progress' >= Progress + (IF ok THEN 1 ELSE 0)
    BY <2>2, ProgressStep DEF BenchInv
  <2> QED
    BY <1>1, <2>1, <2>3 DEF Agreed, InFlight
<1> QED
  BY <1>4, <1>5, <1>6

\* Appending a message and taking the first.
LEMMA QueueFacts ==
  ASSUME NEW q \in Seq(Posts), NEW m \in Posts
  PROVE  /\ Append(q, m) \in Seq(Posts)
         /\ (\E i \in DOMAIN Append(q, m) : Append(q, m)[i] = "close")
              => m = "close" \/ \E i \in DOMAIN q : q[i] = "close"
         /\ q # <<>> => /\ Tail(q) \in Seq(Posts)
                        /\ (\E i \in DOMAIN Tail(q) : Tail(q)[i] = "close")
                             => \E i \in DOMAIN q : q[i] = "close"
                        /\ Head(q) = "close" => \E i \in DOMAIN q : q[i] = "close"
<1>1. \A i \in 1 .. Len(q) : Append(q, m)[i] = q[i]
  OBVIOUS
<1>2. Append(q, m)[Len(q) + 1] = m /\ Len(Append(q, m)) = Len(q) + 1
  OBVIOUS
<1>3. ASSUME q # <<>>
      PROVE  /\ Tail(q) \in Seq(Posts) /\ Len(Tail(q)) = Len(q) - 1 /\ Len(q) >= 1
             /\ \A i \in 1 .. Len(q) - 1 : Tail(q)[i] = q[i + 1]
             /\ Head(q) = q[1]
  BY <1>3
<1>4. ASSUME q # <<>>, NEW i \in DOMAIN Tail(q), Tail(q)[i] = "close"
      PROVE  \E j \in DOMAIN q : q[j] = "close"
  BY <1>3, <1>4
<1> QED
  BY <1>1, <1>2, <1>3, <1>4

\* The loop ends because of the frame budget or because of the user.
LEMMA LoopStep ==
  ASSUME BenchInv, LoopSteps, UNCHANGED <<exit, userClosed>>
  PROVE  Loop'
<1> USE DEF Loop
<1>1. Loop /\ exit' = exit /\ userClosed' = userClosed
  BY DEF BenchInv
<1>2. CASE Wheel
  <2>1. queue' \in Seq(Posts)
    BY <1>1, <1>2, QueueFacts DEF Wheel
  <2>2. (\E i \in DOMAIN queue' : queue'[i] = "close") => \E i \in DOMAIN queue : queue[i] = "close"
    BY <1>1, <1>2, QueueFacts DEF Wheel
  <2> QED
    BY <1>1, <1>2, <2>1, <2>2 DEF Wheel
<1>3. CASE CloseWindow
  <2>1. \E i \in DOMAIN queue : queue[i] = "close"
    BY <1>1, <1>3, QueueFacts DEF CloseWindow
  <2> QED
    BY <1>1, <1>3, <2>1 DEF CloseWindow
<1>4. CASE Paint \/ Quit \/ Input \/ RunStart
  BY <1>1, <1>4 DEF Paint, Quit, Input, RunStart, Waiting
<1>5. CASE Pump
  <2>1. "wheel" \in Posts
    BY DEF Posts
  <2>2. queue' = queue \/ queue' = Append(queue, "wheel")
    BY <1>5 DEF Pump, Posted
  <2>3. /\ queue' \in Seq(Posts)
        /\ (\E i \in DOMAIN queue' : queue'[i] = "close")
             => \E i \in DOMAIN queue : queue[i] = "close"
    BY <1>1, <2>1, <2>2, QueueFacts
  <2>4. win # "none"
    BY <1>1, <1>5 DEF Pump
  <2> QED
    BY <1>1, <1>5, <2>3, <2>4 DEF Pump
<1>6. CASE FrameSkipped \/ FrameBegins \/ EndDrawFails
  BY <1>1, <1>6 DEF FrameSkipped, FrameBegins, EndDrawFails
<1>7. CASE Presented \/ PresentFails
  <2>1. /\ frames' \in {frames, frames + 1} /\ FrameCounted /\ at = "present"
    BY <1>7 DEF Presented, PresentFails
  <2>2. "close" \in Posts
    BY DEF Posts
  <2>3. queue' = queue \/ (queue' = Append(queue, "close") /\ frames' >= limit)
    BY <2>1 DEF FrameCounted, Posted, AtLimit
  <2>4. queue' \in Seq(Posts)
    BY <1>1, <2>2, <2>3, QueueFacts
  <2>5. win \in {"open", "destroyed"} /\ limit = FrameBudget /\ limit' = limit /\ win' = win
        /\ quit' = quit /\ at' = "get"
    BY <1>1, <2>1 DEF FrameCounted
  <2>6. frames' >= frames /\ frames' \in Nat
    BY <1>1, <2>1
  <2> QED
    BY <1>1, <2>3, <2>4, <2>5, <2>6, Numbers
<1>8. CASE (\E s \in Sizes : Sized(s)) \/ (\E s \in Sizes, d \in Scales : DpiChanged(s, d))
  BY <1>1, <1>8 DEF Sized, DpiChanged, Waiting
<1> QED
  BY <1>2, <1>3, <1>4, <1>5, <1>6, <1>7, <1>8 DEF LoopSteps

\* When the benchmark ends by itself, everything asked for is recorded.
LEMMA ExitStep ==
  ASSUME BenchInv, BenchExit
  PROVE  BenchComplete'
<1> USE Numbers
<1> SUFFICES ASSUME ~userClosed
             PROVE  /\ recorded'[0] >= PageCount /\ recorded'[1] >= PageCount
                    /\ recorded'[2] = FullFrames
  BY DEF BenchComplete, BenchExit
<1>1. quit /\ at = "done" /\ recorded \in [0 .. 2 -> 0 .. MaxRecorded]
  BY DEF BenchExit, BenchInv, Recordings
<1>2. win \in {"open", "destroyed"}
  BY <1>1 DEF BenchInv, Loop, BenchExit
<1>3. frames >= FrameBudget /\ frames \in Nat
  BY <1>1, <1>2 DEF BenchInv, Loop
<1>4. recorded[2] = MaxRecorded \/ Progress >= FrameBudget
  <2>1. recorded[2] = MaxRecorded \/ (frames <= Progress /\ Progress \in Nat)
    BY <1>1, <1>2, <1>3 DEF BenchInv, Agreed, InFlight, Progress, Passes
  <2> QED
    BY <1>3, <2>1
<1>5. phase = 2
  BY <1>1, <1>4 DEF BenchInv, Passes, Recordings, Progress, FrameBudget
<1>6. recorded[0] >= PageCount /\ recorded[1] >= PageCount
  BY <1>5 DEF BenchInv, Recordings
<1>7. recorded[2] >= FullFrames
  BY <1>1, <1>4, <1>5 DEF BenchInv, Passes, Progress, FrameBudget
<1> QED
  BY <1>1, <1>6, <1>7 DEF BenchExit

\* Every step of the session preserves the invariant.
LEMMA BenchStep ==
  ASSUME BenchInv, [BNext]_vars
  PROVE  BenchInv'
<1> USE DEF BenchInv
<1>1. CASE /\ UNCHANGED <<wvars, bstate, userClosed, cbFailed>>
           /\ exit' = exit \/ (BenchOpen /\ exit' = 1)
  <2>1. exit' = exit \/ (exit = -1 /\ exit' = 1)
    BY <1>1 DEF BenchOpen
  <2>2. Passes' /\ Recordings' /\ Agreed'
    BY <1>1 DEF wvars, bstate, Passes, Recordings, Agreed, Progress, InFlight
  <2>3. Loop' /\ BenchComplete'
    BY <1>1, <2>1 DEF wvars, bstate, Loop, BenchComplete
  <2> QED
    BY <2>2, <2>3
<1>2. CASE BenchCreate
  <2>1. UNCHANGED <<bstate, exit, userClosed, at, queue, quit, frames>>
    BY <1>2 DEF BenchCreate, Create, bvars
  <2>2. win = "none" /\ win' = "open" /\ limit' = FrameBudget
    BY <1>2, Numbers DEF BenchCreate, Create
  <2>3. Passes' /\ Recordings' /\ BenchComplete'
    BY <2>1 DEF bstate, Passes, Recordings, BenchComplete
  <2>4. Agreed'
    BY <2>1, <2>2 DEF Agreed, Progress, InFlight, bstate, Loop
  <2>5. Loop'
    BY <2>1, <2>2 DEF Loop
  <2> QED
    BY <2>3, <2>4, <2>5
<1>3. CASE BenchCreateFails
  <2>1. UNCHANGED <<bstate, userClosed, at, queue, quit, frames, limit>> /\ exit' = 1
    BY <1>3 DEF BenchCreateFails, CreateFails
  <2>2. win = "none" /\ win' = "gone"
    BY <1>3 DEF BenchCreateFails, CreateFails
  <2>3. Passes' /\ Recordings' /\ BenchComplete'
    BY <2>1 DEF bstate, Passes, Recordings, BenchComplete
  <2>4. Agreed' /\ Loop'
    BY <2>1, <2>2 DEF Agreed, Loop
  <2> QED
    BY <2>3, <2>4
<1>4. CASE BenchExit
  <2>1. /\ win' = "gone" /\ at = "done" /\ exit' \in {0, 1}
        /\ UNCHANGED <<at, queue, quit, frames, limit, userClosed,
                       phase, page, stepsLeft, prepared, settleLeft>>
        /\ recorded' = [recorded EXCEPT ![2] = IF @ > FullFrames THEN FullFrames ELSE @]
    BY <1>4 DEF BenchExit, Destroy
  <2>2. Passes' /\ Agreed'
    BY <2>1 DEF Passes, Agreed
  <2>3. Recordings'
    BY <2>1, Numbers DEF Recordings, Passes
  <2>4. Loop'
    BY <2>1 DEF Loop
  <2> QED
    BY <1>4, <2>2, <2>3, <2>4, ExitStep
<1>5. CASE LoopSteps /\ UNCHANGED <<bstate, exit, userClosed, cbFailed>>
  <2>1. Passes' /\ Recordings' /\ BenchComplete'
    BY <1>5 DEF bstate, Passes, Recordings, BenchComplete
  <2> QED
    BY <1>5, <2>1, AgreedLoop, LoopStep
<1>6. ASSUME NEW ok \in BOOLEAN, Return(ok) PROVE BenchInv'
  <2>1. /\ UNCHANGED <<win, queue, quit, frames, limit, exit, userClosed>>
        /\ at = "callback" /\ at' \in {"present", "get"}
    BY <1>6 DEF Return, CallbackReturns
  <2>2. Loop' /\ win # "gone"
    BY <2>1 DEF Loop
  <2>3. BenchComplete'
    BY <2>1, <2>2 DEF Loop, BenchComplete
  <2> QED
    BY <1>6, <2>2, <2>3, PassesStep, RecordingsStep, AgreedReturn
<1>7. CASE UserCloses /\ userClosed' = TRUE /\ UNCHANGED <<bstate, exit, cbFailed>>
  <2>1. Passes' /\ Recordings' /\ BenchComplete'
    BY <1>7 DEF bstate, Passes, Recordings, BenchComplete
  <2>2. Agreed'
    BY <1>7 DEF UserCloses, Agreed, Progress, InFlight, bstate
  <2>3. "close" \in Posts
    BY DEF Posts
  <2>4. queue' \in Seq(Posts)
    BY <1>7, <2>3, QueueFacts DEF UserCloses, Loop
  <2>5. Loop'
    BY <1>7, <2>4 DEF UserCloses, Loop, Waiting
  <2> QED
    BY <2>1, <2>2, <2>5
<1> QED
  BY <1>1, <1>2, <1>3, <1>4, <1>5, <1>6, <1>7, BenchCases

\* Before the benchmark opens its document nothing is recorded and nothing counted.
LEMMA BenchInvInit ==
  ASSUME BInit
  PROVE  BenchInv
<1> USE Numbers DEF BInit, WInit
<1>1. Passes /\ Recordings
  <2>1. /\ phase = 0 /\ prepared = FALSE /\ settleLeft = 0 /\ stepsLeft = PageCount /\ page = 0
        /\ recorded = [p \in 0 .. 2 |-> 0]
    OBVIOUS
  <2>2. recorded \in [0 .. 2 -> 0 .. MaxRecorded] /\ recorded[0] = 0 /\ recorded[2] = 0
    BY <2>1
  <2>3. Passes
    BY <2>1 DEF Passes
  <2> QED
    BY <2>1, <2>2, <2>3 DEF Recordings
<1>2. Agreed
  BY DEF Agreed, Progress, InFlight
<1>3. Loop
  BY DEF Loop
<1>4. BenchComplete
  BY DEF BenchComplete
<1> QED
  BY <1>1, <1>2, <1>3, <1>4 DEF BenchInv

-----------------------------------------------------------------------------
(* The target.                                                                *)

\* No step of the session leaves the target with another size or scale than the window.
LEMMA TargetStep ==
  ASSUME TargetFits, [BNext]_vars
  PROVE  TargetFits'
<1>1. CASE UNCHANGED <<size, scale, target>>
  BY <1>1 DEF TargetFits
<1>2. CASE BenchCreate
  BY <1>2 DEF BenchCreate, Create, TargetFits
<1>3. ASSUME NEW s, Sized(s) PROVE TargetFits'
  BY <1>3 DEF Sized, Resized, TargetFits
<1>4. ASSUME NEW s, NEW d, DpiChanged(s, d) PROVE TargetFits'
  BY <1>4 DEF DpiChanged, Resized, TargetFits
<1>5. CASE LoopSteps
  <2>1. CASE Wheel \/ CloseWindow \/ Paint \/ Quit \/ Pump \/ FrameSkipped \/ FrameBegins
    BY <2>1, <1>1 DEF Wheel, CloseWindow, Paint, Quit, Pump, FrameSkipped, FrameBegins
  <2>2. CASE EndDrawFails \/ Presented \/ PresentFails \/ RunStart \/ Input
    BY <2>2, <1>1 DEF EndDrawFails, Presented, PresentFails, FrameCounted, RunStart, Input
  <2> QED
    BY <1>3, <1>4, <1>5, <2>1, <2>2 DEF LoopSteps
<1>6. CASE BenchCreateFails \/ BenchExit \/ \E ok \in BOOLEAN : Return(ok)
  BY <1>6, <1>1 DEF BenchCreateFails, CreateFails, BenchExit, Destroy, Return, CallbackReturns
<1>7. CASE UserCloses
  BY <1>7, <1>1 DEF UserCloses
<1>8. CASE UNCHANGED wvars
  BY <1>8, <1>1 DEF wvars
<1> QED
  BY <1>2, <1>5, <1>6, <1>7, <1>8, BenchCases

-----------------------------------------------------------------------------
(* The wheels.                                                                *)

\* no failure, nobody closes the window, the log is open, frames are left for the wheels
Undisturbed == ~userClosed /\ ~cbFailed /\ lost = 0 /\ log /\ asked < limit

InTurn == IF at \in {"frame", "callback", "present"} THEN 1 ELSE 0
Queued == IF queue # <<>> /\ queue[1] = "wheel" THEN 1 ELSE 0
Stamped == IF stamp THEN 1 ELSE 0

\* at most one wheel is under way, and it is measured before the next is stamped
OneWheel ==
  /\ target # NoTarget
  /\ measured + Stamped + Queued + wheels = asked
  /\ at \in {"get", "done"} => ~stamp
  /\ at = "pump" => Queued = 0
  /\ \A i \in DOMAIN queue : queue[i] = "wheel" => i = 1
  /\ wheels > 0 => win = "open" /\ \A i \in DOMAIN queue : queue[i] # "close"
  /\ wheels > 0 => wheels + frames + InTurn <= asked + 1

WheelInv ==
  /\ wheels \in Nat /\ measured \in Nat /\ asked \in Nat /\ lost \in Nat /\ stamp \in BOOLEAN
  /\ limit \in Nat
  /\ at \in {"get", "pump", "frame", "callback", "present", "done"}
  /\ at = "done" => queue = <<>>
  /\ win = "none" => ~stamp /\ measured = 0 /\ wheels = 0 /\ asked = 0
  /\ (Undisturbed /\ win # "none") => OneWheel
  /\ WheelsMeasured

\* The first step of the window's life: no wheel is under way.
LEMMA WheelCreate ==
  ASSUME BenchInv, WheelInv, BenchCreate
  PROVE  WheelInv'
<1>1. /\ win = "none" /\ win' = "open" /\ at = "done" /\ at' = at /\ queue' = queue /\ queue = <<>>
      /\ frames = 0 /\ frames' = 0 /\ exit' = exit /\ exit # 0
      /\ UNCHANGED <<stamp, measured, lost, userClosed, cbFailed>>
  BY DEF BenchCreate, Create, bvars, BenchInv, Loop
<1>2. ~stamp' /\ measured = 0 /\ measured' = 0
  BY <1>1 DEF WheelInv
<1>3. wheels' \in Nat /\ asked' \in Nat /\ limit' \in Nat
  BY SizesAssumption, Numbers DEF BenchCreate, Create
<1>6. wheels' = asked'
  BY DEF BenchCreate, Create
<1>4. target' # NoTarget
  BY SizesAssumption DEF BenchCreate, Create, NoTarget
<1>5. OneWheel'
  <2>1. InTurn' = 0 /\ Queued' = 0 /\ Stamped' = 0
    BY <1>1, <1>2 DEF InTurn, Queued, Stamped
  <2>2. DOMAIN queue' = {}
    BY <1>1
  <2>0. PICK k \in Nat : k = wheels'
    BY <1>3
  <2>3. measured' + Stamped' + Queued' + wheels' = asked'
    <3>1. measured' + Stamped' + Queued' + wheels' = 0 + 0 + 0 + k
      BY <1>2, <2>0, <2>1
    <3>2. 0 + 0 + 0 + k = k
      OBVIOUS
    <3> QED
      BY <1>6, <2>0, <3>1, <3>2
  <2>4. wheels' + frames' + InTurn' <= asked' + 1
    <3>1. wheels' + frames' + InTurn' = k + 0 + 0 /\ asked' + 1 = k + 1
      BY <1>1, <1>6, <2>0, <2>1
    <3>2. k + 0 + 0 <= k + 1
      OBVIOUS
    <3> QED
      BY <3>1, <3>2
  <2> QED
    BY <1>1, <1>2, <1>4, <2>1, <2>2, <2>3, <2>4 DEF OneWheel
<1> QED
  BY <1>1, <1>2, <1>3, <1>5 DEF WheelInv, WheelsMeasured, BenchInv, Loop

\* A step that touches no wheel, no message and no frame.
LEMMA WheelKept ==
  ASSUME BenchInv, WheelInv,
         UNCHANGED <<wheels, measured, asked, stamp, limit, queue, frames, log,
                     userClosed, win>>,
         cbFailed' \/ ~cbFailed, exit' # 0 \/ exit' = exit,
         lost' \in Nat, lost' = 0 => lost = 0,
         target' = target \/ target' # NoTarget \/ lost' # 0,
         \/ at' = at
         \/ at' \in {"frame", "callback", "present"} /\ at \in {"frame", "callback", "present"}
         \/ at = "done" /\ at' = "frame" /\ win = "open" /\ frames = 0
         \/ at \in {"frame", "callback", "present"} /\ at' = "get" /\ ~Undisturbed'
         \/ at = "get" /\ at' = "pump" /\ queue = <<>>
         \/ at = "get" /\ at' = "done" /\ queue = <<>>
  PROVE  WheelInv'
<1>1. Undisturbed' => Undisturbed
  BY DEF Undisturbed, WheelInv
<1>2. ASSUME Undisturbed', win' # "none" PROVE OneWheel'
  <2>1. OneWheel
    BY <1>1, <1>2 DEF WheelInv
  <2>2. target' # NoTarget
    BY <1>2, <2>1 DEF OneWheel, Undisturbed
  <2>3. Stamped' = Stamped /\ Queued' = Queued
    BY DEF Stamped, Queued
  <2>4. wheels > 0 => wheels + frames + InTurn' <= asked + 1
    <3>1. CASE InTurn' = InTurn
      BY <2>1, <3>1 DEF OneWheel
    <3>2. CASE at = "done" /\ at' = "frame" /\ frames = 0
      BY <2>1, <3>2 DEF OneWheel, InTurn, WheelInv, Stamped, Queued
    <3> QED
      BY <1>2, <3>1, <3>2 DEF InTurn
  <2>5. at' \in {"get", "done"} => ~stamp'
    BY <1>2, <2>1 DEF OneWheel
  <2>6. at' = "pump" => Queued' = 0
    BY <2>1, <2>3 DEF OneWheel, Queued
  <2> QED
    BY <2>1, <2>2, <2>3, <2>4, <2>5, <2>6 DEF OneWheel
<1>3. WheelsMeasured'
  BY DEF WheelInv, WheelsMeasured
<1> QED
  BY <1>2, <1>3 DEF WheelInv

\* Taking a message off the queue and adding one, as far as wheels are concerned.
LEMMA WheelQueue ==
  ASSUME NEW q \in Seq(Posts), \A i \in DOMAIN q : q[i] = "wheel" => i = 1
  PROVE  /\ q # <<>> => /\ Head(q) = q[1] /\ \A i \in DOMAIN Tail(q) : Tail(q)[i] # "wheel"
                        /\ \A i \in DOMAIN Tail(q) : Tail(q)[i] = q[i + 1] /\ i + 1 \in DOMAIN q
         /\ \A i \in DOMAIN Append(q, "close") : Append(q, "close")[i] = "wheel" => i = 1
         /\ Append(q, "close") # <<>>
         /\ Append(q, "close")[1] = IF q = <<>> THEN "close" ELSE q[1]
         /\ (\A i \in DOMAIN q : q[i] # "close") /\ (q # <<>> => q[1] # "wheel") => q = <<>>
<1>1. /\ Len(Append(q, "close")) = Len(q) + 1
      /\ \A i \in 1 .. Len(q) : Append(q, "close")[i] = q[i]
      /\ Append(q, "close")[Len(q) + 1] = "close"
  OBVIOUS
<1>2. /\ \A i \in DOMAIN Append(q, "close") : Append(q, "close")[i] = "wheel" => i = 1
      /\ Append(q, "close") # <<>>
      /\ Append(q, "close")[1] = IF q = <<>> THEN "close" ELSE q[1]
  <2>1. q = <<>> => Len(q) = 0
    OBVIOUS
  <2>2. q # <<>> => 1 \in 1 .. Len(q)
    OBVIOUS
  <2> QED
    BY <1>1, <2>1, <2>2
<1>3. ASSUME q # <<>>
      PROVE  /\ Head(q) = q[1] /\ Len(Tail(q)) = Len(q) - 1
             /\ \A i \in 1 .. Len(q) - 1 : Tail(q)[i] = q[i + 1]
             /\ Tail(q) \in Seq(Posts)
  BY <1>3
<1>4. ASSUME q # <<>>, NEW i \in DOMAIN Tail(q)
      PROVE  Tail(q)[i] = q[i + 1] /\ i + 1 \in DOMAIN q /\ Tail(q)[i] # "wheel"
  BY <1>3, <1>4
<1>5. q # <<>> => q[1] \in Posts /\ 1 \in DOMAIN q
  OBVIOUS
<1> QED
  BY <1>2, <1>3, <1>4, <1>5 DEF Posts

\* WM_MOUSEWHEEL: the wheel under way is stamped, nothing waits behind it but a close.
LEMMA WheelTaken ==
  ASSUME BenchInv, WheelInv, Wheel, UNCHANGED <<exit, userClosed, cbFailed>>
  PROVE  WheelInv'
<1>1. /\ at = "get" /\ at' = "pump" /\ queue # <<>> /\ Head(queue) = "wheel"
      /\ queue' = Tail(queue) /\ stamp' = TRUE
      /\ UNCHANGED <<win, target, wheels, limit, frames, log, measured, lost, asked>>
  BY DEF Wheel
<1>2. queue \in Seq(Posts) /\ win # "none" /\ frames \in Nat
  BY <1>1 DEF BenchInv, Loop
<1>3. ASSUME Undisturbed' PROVE OneWheel'
  <2>1. OneWheel
    BY <1>1, <1>2, <1>3 DEF WheelInv, Undisturbed
  <2>2. /\ Head(queue) = queue[1] /\ \A i \in DOMAIN queue' : queue'[i] # "wheel"
        /\ \A i \in DOMAIN queue' : queue'[i] = queue[i + 1] /\ i + 1 \in DOMAIN queue
    BY <1>1, <1>2, <2>1, WheelQueue DEF OneWheel
  <2>3. Queued = 1 /\ Stamped = 0
    BY <1>1, <2>1, <2>2 DEF Queued, Stamped, OneWheel
  <2>4. Queued' = 0 /\ Stamped' = 1 /\ InTurn' = InTurn
    <3>1. queue' \in Seq(Posts)
      BY <1>1, <1>2
    <3>2. queue' # <<>> => 1 \in DOMAIN queue'
      BY <3>1
    <3> QED
      BY <1>1, <2>2, <3>2 DEF Queued, Stamped, InTurn
  <2>5. measured' + Stamped' + Queued' + wheels' = asked'
    BY <1>1, <2>1, <2>3, <2>4 DEF OneWheel, WheelInv
  <2>6. wheels > 0 => \A i \in DOMAIN queue' : queue'[i] # "close"
    BY <2>1, <2>2 DEF OneWheel
  <2> QED
    BY <1>1, <2>1, <2>2, <2>4, <2>5, <2>6 DEF OneWheel
<1> QED
  BY <1>1, <1>2, <1>3 DEF WheelInv, WheelsMeasured, BenchInv, Loop

\* WM_CLOSE: no wheel is behind it.
LEMMA WheelClosed ==
  ASSUME BenchInv, WheelInv, CloseWindow, UNCHANGED <<exit, userClosed, cbFailed>>
  PROVE  WheelInv'
<1>1. /\ at = "get" /\ at' = "pump" /\ queue # <<>> /\ Head(queue) = "close"
      /\ queue' = <<>>
      /\ UNCHANGED <<stamp, target, wheels, limit, frames, log, measured, lost, asked>>
  BY DEF CloseWindow
<1>2. queue \in Seq(Posts) /\ win # "none" /\ win # "gone" /\ win' = "destroyed"
  BY <1>1 DEF BenchInv, Loop, CloseWindow
<1>3. ASSUME Undisturbed' PROVE OneWheel'
  <2>1. OneWheel
    BY <1>1, <1>2, <1>3 DEF WheelInv, Undisturbed
  <2>2. Head(queue) = queue[1] /\ 1 \in DOMAIN queue
    BY <1>1, <1>2
  <2>3. Queued = 0 /\ Queued' = 0 /\ Stamped' = Stamped /\ InTurn' = InTurn /\ DOMAIN queue' = {}
    BY <1>1, <2>2 DEF Queued, Stamped, InTurn
  <2>4. ~(wheels > 0)
    BY <1>1, <2>1, <2>2 DEF OneWheel
  <2> QED
    BY <1>1, <2>1, <2>3, <2>4 DEF OneWheel
<1> QED
  BY <1>1, <1>2, <1>3 DEF WheelInv, WheelsMeasured, BenchInv, Loop

\* The next wheel is posted when no other is under way.
LEMMA WheelPosted ==
  ASSUME BenchInv, WheelInv, Pump, UNCHANGED <<exit, userClosed, cbFailed>>
  PROVE  WheelInv'
<1>1. /\ at = "pump" /\ at' = "frame"
      /\ wheels' = IF wheels > 0 THEN wheels - 1 ELSE wheels
      /\ queue' = IF wheels > 0 THEN Posted("wheel") ELSE queue
      /\ UNCHANGED <<win, stamp, target, limit, frames, log, measured, lost, asked>>
  BY DEF Pump
<1>2. queue \in Seq(Posts) /\ win # "none" /\ win # "gone" /\ frames \in Nat
  BY <1>1 DEF BenchInv, Loop
<1>3. ASSUME Undisturbed' PROVE OneWheel'
  <2>1. OneWheel
    BY <1>1, <1>2, <1>3 DEF WheelInv, Undisturbed
  <2>2. CASE wheels > 0
    <3>1. win = "open" /\ queue = <<>>
      <4>1. Queued = 0
        BY <1>1, <2>1 DEF OneWheel
      <4>2. (queue # <<>> => queue[1] # "wheel")
        BY <4>1 DEF Queued
      <4>3. win = "open" /\ \A i \in DOMAIN queue : queue[i] # "close"
        BY <2>1, <2>2 DEF OneWheel
      <4> QED
        BY <1>2, <2>1, <4>2, <4>3, WheelQueue DEF OneWheel
    <3>2. queue' = <<"wheel">> /\ wheels' = wheels - 1
      BY <1>1, <2>2, <3>1 DEF Posted
    <3>3. /\ DOMAIN queue' = {1} /\ queue'[1] = "wheel" /\ queue' # <<>>
      BY <3>2
    <3>4. Queued = 0 /\ Queued' = 1 /\ Stamped' = Stamped /\ InTurn = 0 /\ InTurn' = 1
      BY <1>1, <3>1, <3>3 DEF Queued, Stamped, InTurn
    <3>5. measured' + Stamped' + Queued' + wheels' = asked'
      BY <1>1, <2>1, <3>2, <3>4 DEF OneWheel, WheelInv, Stamped
    <3>6. wheels' + frames' + InTurn' <= asked' + 1
      BY <1>1, <1>2, <2>1, <2>2, <3>2, <3>4 DEF OneWheel, WheelInv
    <3> QED
      BY <1>1, <2>1, <3>1, <3>3, <3>5, <3>6 DEF OneWheel
  <2>3. CASE ~(wheels > 0)
    <3>1. queue' = queue /\ wheels' = wheels
      BY <1>1, <2>3
    <3>2. Queued' = Queued /\ Stamped' = Stamped
      BY <1>1, <3>1 DEF Queued, Stamped
    <3> QED
      BY <1>1, <2>1, <2>3, <3>1, <3>2 DEF OneWheel
  <2> QED
    BY <2>2, <2>3
<1>4. wheels' \in Nat
  BY <1>1 DEF WheelInv
<1>5. WheelsMeasured'
  BY <1>1, <1>2 DEF WheelsMeasured, BenchInv, Loop
<1> QED
  BY <1>1, <1>2, <1>3, <1>4, <1>5 DEF WheelInv

\* A presented frame measures the wheel that is stamped; the last one closes the window.
LEMMA WheelPresented ==
  ASSUME BenchInv, WheelInv, Presented, UNCHANGED <<exit, userClosed, cbFailed>>
  PROVE  WheelInv'
<1>1. /\ at = "present" /\ at' = "get" /\ frames' = frames + 1
      /\ measured' = (IF log /\ stamp THEN measured + 1 ELSE measured)
      /\ stamp' = (stamp /\ ~log)
      /\ queue' = IF AtLimit THEN Posted("close") ELSE queue
      /\ UNCHANGED <<win, target, wheels, limit, log, lost, asked>>
  BY DEF Presented, FrameCounted
<1>2. queue \in Seq(Posts) /\ win # "none" /\ win # "gone" /\ frames \in Nat
  BY <1>1 DEF BenchInv, Loop
<1>3. ASSUME Undisturbed' PROVE OneWheel'
  <2>1. OneWheel
    BY <1>1, <1>2, <1>3 DEF WheelInv, Undisturbed
  <2>2. log /\ asked < limit /\ asked \in Nat /\ limit \in Nat
    BY <1>1, <1>3 DEF Undisturbed, WheelInv
  <2>3. ~stamp' /\ Stamped' = 0
    BY <1>1, <2>2 DEF Stamped
  <2>4. queue' = queue \/ (queue' = Append(queue, "close") /\ frames' >= limit)
    BY <1>1 DEF Posted, AtLimit
  <2>5. Queued' = Queued
    BY <1>2, <2>1, <2>4, WheelQueue DEF Queued, OneWheel
  <2>6. \A i \in DOMAIN queue' : queue'[i] = "wheel" => i = 1
    BY <1>2, <2>1, <2>4, WheelQueue DEF OneWheel
  <2>7. InTurn = 1 /\ InTurn' = 0
    BY <1>1 DEF InTurn
  <2>8. wheels > 0 => wheels' + frames' + InTurn' <= asked' + 1
    BY <1>1, <1>2, <2>1, <2>2, <2>7 DEF OneWheel, WheelInv
  <2>9. frames' >= limit => ~(wheels > 0)
    BY <1>1, <1>2, <2>2, <2>7, <2>8 DEF WheelInv
  <2>10. measured' + Stamped' + Queued' + wheels' = asked'
    <3>1. Stamped = IF stamp THEN 1 ELSE 0
      BY DEF Stamped
    <3>2. Queued \in Nat /\ measured \in Nat /\ wheels \in Nat
      BY DEF Queued, WheelInv
    <3>3. measured + Stamped + Queued + wheels = asked
      BY <2>1 DEF OneWheel
    <3> QED
      BY <1>1, <2>2, <2>3, <2>5, <3>1, <3>2, <3>3
  <2> QED
    BY <1>1, <2>1, <2>3, <2>4, <2>5, <2>6, <2>8, <2>9, <2>10 DEF OneWheel
<1>4. measured' \in Nat /\ stamp' \in BOOLEAN
  BY <1>1 DEF WheelInv
<1>5. WheelsMeasured'
  BY <1>1, <1>2 DEF WheelsMeasured, BenchInv, Loop
<1> QED
  BY <1>1, <1>2, <1>3, <1>4, <1>5 DEF WheelInv

\* Once something has gone wrong nothing is said of the wheels.
LEMMA WheelDisturbed ==
  ASSUME BenchInv, WheelInv, ~Undisturbed', exit' # 0, lost' \in Nat, win' # "none",
         UNCHANGED <<wheels, measured, asked, stamp, limit>>,
         at' \in {"get", "pump", "frame", "callback", "present", "done"},
         at' = "done" => queue' = <<>>
  PROVE  WheelInv'
BY DEF WheelInv, WheelsMeasured

\* The session ends: the frame budget left a turn for every wheel.
LEMMA WheelExit ==
  ASSUME BenchInv, WheelInv, BenchExit
  PROVE  WheelInv'
<1>1. /\ at = "done" /\ quit /\ exit = -1 /\ win' = "gone"
      /\ UNCHANGED <<at, target, queue, wheels, limit, frames, log, stamp, measured, lost, asked,
                     userClosed, cbFailed>>
  BY DEF BenchExit, Destroy
<1>2. win # "none" /\ queue = <<>> /\ frames \in Nat
  BY <1>1 DEF BenchInv, Loop, WheelInv
<1>3. ASSUME Undisturbed' PROVE OneWheel' /\ measured' = asked'
  <2>1. Undisturbed /\ OneWheel
    BY <1>1, <1>2, <1>3 DEF WheelInv, Undisturbed
  <2>2. frames >= limit
    BY <1>1, <1>2, <2>1 DEF BenchInv, Loop, Undisturbed
  <2>3. InTurn = 0 /\ Queued = 0 /\ Stamped = 0
    BY <1>1, <1>2, <2>1 DEF InTurn, Queued, Stamped, OneWheel
  <2>4. wheels = 0
    BY <1>2, <2>1, <2>2, <2>3 DEF WheelInv, OneWheel, Undisturbed
  <2>5. measured = asked
    BY <2>1, <2>3, <2>4 DEF OneWheel, WheelInv
  <2>6. InTurn' = InTurn /\ Queued' = Queued /\ Stamped' = Stamped
    BY <1>1 DEF InTurn, Queued, Stamped
  <2> QED
    BY <1>1, <2>1, <2>4, <2>5, <2>6 DEF OneWheel
<1>4. WheelsMeasured'
  BY <1>3 DEF WheelsMeasured, Undisturbed
<1> QED
  BY <1>1, <1>2, <1>3, <1>4 DEF WheelInv

\* Every step of the session preserves what is said of the wheels.
LEMMA WheelStep ==
  ASSUME BenchInv, WheelInv, [BNext]_vars
  PROVE  WheelInv'
<1>1. CASE /\ UNCHANGED <<wvars, bstate, userClosed, cbFailed>>
           /\ exit' = exit \/ (BenchOpen /\ exit' = 1)
  <2>1. lost' = lost /\ lost \in Nat
    BY <1>1 DEF wvars, WheelInv
  <2> QED
    BY <1>1, <2>1, WheelKept DEF wvars
<1>2. CASE BenchCreateFails
  <2>1. lost' = lost + 1 /\ win' = "gone" /\ exit' = 1
    BY <1>2 DEF BenchCreateFails, CreateFails, Loses
  <2>2. lost' \in Nat /\ lost' # 0
    BY <2>1 DEF WheelInv
  <2>3. UNCHANGED <<wheels, measured, asked, stamp, limit, at, queue>>
    BY <1>2 DEF BenchCreateFails, CreateFails
  <2>4. ~Undisturbed'
    BY <2>2 DEF Undisturbed
  <2> QED
    BY <2>1, <2>2, <2>3, <2>4, WheelDisturbed DEF WheelInv
<1>3. CASE LoopSteps /\ UNCHANGED <<bstate, exit, userClosed, cbFailed>>
  <2>1. lost \in Nat
    BY DEF WheelInv
  <2>2. CASE Paint \/ Quit \/ Input
    BY <1>3, <2>1, <2>2, WheelKept DEF Paint, Quit, Input, Waiting
  <2>3. CASE RunStart /\ ~quit
    <3>1. at = "done" /\ win = "open" /\ at' = "frame" /\ frames = 0
      BY <2>3 DEF RunStart, BenchInv, Loop
    <3> QED
      BY <1>3, <2>1, <2>3, <3>1, WheelKept DEF RunStart
  <2>4. CASE FrameBegins
    BY <1>3, <2>1, <2>4, WheelKept DEF FrameBegins
  <2>5. CASE FrameSkipped
    <3>1. ~Undisturbed'
      BY <1>3, <2>5 DEF FrameSkipped, Undisturbed, WheelInv, OneWheel, BenchInv, Loop
    <3> QED
      BY <1>3, <2>1, <2>5, <3>1, WheelKept DEF FrameSkipped
  <2>6. CASE EndDrawFails
    <3>1. lost' = lost + 1
      BY <2>6 DEF EndDrawFails, Loses
    <3>2. lost' \in Nat /\ lost' # 0
      BY <2>1, <3>1
    <3>3. ~Undisturbed'
      BY <3>2 DEF Undisturbed
    <3> QED
      BY <1>3, <2>6, <3>2, <3>3, WheelKept DEF EndDrawFails
  <2>7. CASE PresentFails
    <3>1. lost' = lost + 1 /\ at = "present" /\ at' = "get" /\ win' = win
      BY <2>7 DEF PresentFails, FrameCounted, Loses
    <3>2. lost' \in Nat /\ lost' # 0
      BY <2>1, <3>1
    <3>3. ~Undisturbed'
      BY <3>2 DEF Undisturbed
    <3>4. exit' # 0 /\ win' # "none"
      BY <1>3, <3>1 DEF BenchInv, Loop
    <3> QED
      BY <2>7, <3>1, <3>2, <3>3, <3>4, WheelDisturbed DEF PresentFails, FrameCounted
  <2>8. ASSUME NEW s, NEW d, s \in Nat, Resized(s, d)
        PROVE  /\ target' = target \/ target' # NoTarget \/ lost' # 0
               /\ lost' \in Nat /\ (lost' = 0 => lost = 0)
    <3>1. lost' = lost \/ lost' = lost + 1
      BY <2>8 DEF Resized, Loses
    <3>2. lost + 1 \in Nat /\ lost + 1 # 0
      BY <2>1
    <3>3. target' = NoTarget /\ s # 0 => lost' = lost + 1
      BY <2>8 DEF Resized, Loses, NoTarget
    <3> QED
      BY <2>1, <2>8, <3>1, <3>2, <3>3 DEF Resized
  <2>9. ASSUME NEW s \in Sizes, Sized(s) PROVE WheelInv'
    <3>1. s \in Nat /\ Resized(s, scale)
      BY <2>9, SizesAssumption DEF Sized
    <3> QED
      BY <1>3, <2>8, <2>9, <3>1, WheelKept DEF Sized
  <2>10. ASSUME NEW s \in Sizes, NEW d \in Scales, DpiChanged(s, d) PROVE WheelInv'
    <3>1. s \in Nat /\ Resized(s, d)
      BY <2>10, SizesAssumption DEF DpiChanged
    <3> QED
      BY <1>3, <2>8, <2>10, <3>1, WheelKept DEF DpiChanged
  <2> QED
    BY <1>3, <2>2, <2>3, <2>4, <2>5, <2>6, <2>7, <2>9, <2>10, WheelTaken, WheelClosed,
       WheelPosted, WheelPresented DEF LoopSteps
<1>4. ASSUME NEW ok \in BOOLEAN, Return(ok) PROVE WheelInv'
  <2>1. /\ at = "callback" /\ at' = IF ok THEN "present" ELSE "get"
        /\ cbFailed' = (cbFailed \/ ~ok)
        /\ UNCHANGED <<win, target, queue, wheels, limit, frames, log, stamp, measured, lost, asked,
                       userClosed, exit>>
    BY <1>4 DEF Return, CallbackReturns
  <2>2. lost \in Nat
    BY DEF WheelInv
  <2>3. ~ok => ~Undisturbed'
    BY <2>1 DEF Undisturbed
  <2> QED
    BY <2>1, <2>2, <2>3, WheelKept
<1>5. CASE UserCloses /\ userClosed' = TRUE /\ UNCHANGED <<bstate, exit, cbFailed>>
  <2>1. /\ at = "get" /\ at' = at /\ exit' = exit /\ win' = win /\ win = "open"
        /\ UNCHANGED <<wheels, measured, asked, stamp, limit, lost>>
    BY <1>5 DEF UserCloses, Waiting
  <2>2. exit' # 0 /\ ~Undisturbed' /\ lost' \in Nat
    BY <1>5, <2>1 DEF BenchInv, Loop, Undisturbed, WheelInv
  <2> QED
    BY <2>1, <2>2, WheelDisturbed
<1> QED
  BY <1>1, <1>2, <1>3, <1>4, <1>5, WheelCreate, WheelExit, BenchCases

\* Before there is a window there is no wheel.
LEMMA WheelInit ==
  ASSUME BInit
  PROVE  WheelInv
BY DEF BInit, WInit, WheelInv, WheelsMeasured

-----------------------------------------------------------------------------
(* The viewer inside.                                                         *)

\* Whatever the session does to the viewer is a step of the viewer's own specification.
LEMMA ViewerStep ==
  ASSUME BenchInv, [BNext]_vars
  PROVE  [VNext]_vvars
<1>1. CASE UNCHANGED vvars
  BY <1>1
<1>2. CASE BenchOpen
  BY <1>2, BenchAssumption DEF BenchOpen, VNext
<1>3. CASE BenchCreateFails \/ BenchExit
  BY <1>3 DEF BenchCreateFails, BenchExit, VNext
<1>4. CASE BenchFrame
  BY <1>4 DEF BenchFrame, VNext
<1>5. Region \in Regions
  BY BenchAssumption DEF Region
<1>6. CASE CallbackDrawsWarm \/ CallbackDraws
  BY <1>5, <1>6 DEF CallbackDrawsWarm, CallbackDraws, DrawRegion, VNext
<1>7. CASE CallbackDemands
  <2>1. DemandedPage \in 0 .. PageCount
    BY Numbers DEF DemandedPage, BenchInv, Passes
  <2> QED
    BY <1>5, <1>7, <2>1 DEF CallbackDemands, VNext
<1>8. CASE ViewerWorks
  BY <1>8 DEF ViewerWorks, VNext
<1>9. CASE BenchCreate \/ BenchRun \/ CallbackEnds \/ WindowWorks \/ Outside
  BY <1>1, <1>9 DEF BenchCreate, BenchRun, CallbackEnds, Return, WindowWorks, Outside
<1> QED
  BY <1>1, <1>2, <1>3, <1>4, <1>6, <1>7, <1>8, <1>9 DEF BNext, Program, vars

-----------------------------------------------------------------------------
(* The theorems.                                                              *)

\* The counters of the callback and of the window always agree.
THEOREM CountersAgree == BSpec => []BenchInv
<1>1. BInit => BenchInv
  BY BenchInvInit
<1>2. BenchInv /\ [BNext]_vars => BenchInv'
  BY BenchStep
<1> QED
  BY <1>1, <1>2, PTL DEF BSpec

\* A session that ends well and by itself has recorded all it was asked for.
THEOREM RecordsAll == BSpec => []BenchComplete
BY CountersAgree, PTL DEF BenchInv

\* The target has the size and the scale of the window through every resize and failure.
THEOREM TargetAlwaysFits == BSpec => []TargetFits
<1>1. BInit => TargetFits
  BY DEF BInit, WInit, TargetFits
<1>2. TargetFits /\ [BNext]_vars => TargetFits'
  BY TargetStep
<1> QED
  BY <1>1, <1>2, PTL DEF BSpec

\* In a session without failures every wheel is measured by one frame.
THEOREM EveryWheelMeasured == BSpec => []WheelsMeasured
<1>1. BInit => WheelInv
  BY WheelInit
<1>2. BenchInv /\ WheelInv /\ [BNext]_vars => WheelInv'
  BY WheelStep
<1>3. WheelInv => WheelsMeasured
  BY DEF WheelInv
<1> QED
  BY <1>1, <1>2, <1>3, CountersAgree, PTL DEF BSpec

\* The benchmark uses the viewer as the viewer's own specification says.
THEOREM ViewerInside == BSpec => VSpec
<1>1. BInit => VInit
  BY DEF BInit
<1>2. BenchInv /\ [BNext]_vars => [VNext]_vvars
  BY ViewerStep
<1> QED
  BY <1>1, <1>2, CountersAgree, PTL DEF BSpec, VSpec

\* So nothing dangles and the ceiling holds while the benchmark runs.
THEOREM ViewerSafeInside == BSpec => [](NothingDangles /\ CeilingKept)
BY ViewerInside, NoneDangles, CeilingHolds, PTL

-----------------------------------------------------------------------------
(* What a presented frame shows.                                              *)

PlacesOf(r) == {r[i] : i \in DOMAIN r}

\* the viewer works in callbacks only, and the document is open as long as there is a window
Turns ==
  /\ step \in {"enter", "demand", "draw"} /\ call.name \in {"idle", step}
  /\ at # "callback" => step = "enter"
  /\ at # "done" => doc = "open"
  /\ win \in {"open", "destroyed"} => doc = "open"
  /\ doc = "open" => maxTiles = TileCeiling
  /\ doc = "none" => phase = 0
  /\ prepared => phase = 2
  /\ step = "demand" => ~prepared

\* a lost tile is not mapped; what is mapped was asked for, and has been in the grid since
\* the strip of the last page was drawn
Stock ==
  /\ \A x \in orphans : map[x] = NoTile /\ cache[x] # NoTile
  /\ Held(map) \subseteq IF phase < 2 THEN PlacesOf(StripRegion) ELSE Grid

\* a callback starts with an empty frame
Entered == (at = "callback" /\ step # "draw") => frame = Wiped

\* what a callback has demanded
Demands ==
  step = "demand" =>
    IF Idle
      THEN /\ answer.call = "demand" /\ answer.asked = Region
           /\ answer.status = "NONE" => activePage = DemandedPage /\ stores
      ELSE /\ PlacesOf(call.todo) \subseteq PlacesOf(Region)
           /\ call.asked = Region /\ activePage = DemandedPage

\* a region of the demanded page is ready but for lost tiles and those over the ceiling
Prepared(p, r) == stores /\ activePage = p /\ \A x \in PlacesOf(r) : Served(x)

\* the places of S show what is mapped there
Painted(S) == \A x \in S : map[x] # NoTile => x \in Grid /\ frame[x] = activePage

\* what a callback has drawn
Draws ==
  step = "draw" =>
    /\ drawn = [page |-> DemandedPage, region |-> Region]
    /\ (phase < 2 \/ ~cbFailed) => Prepared(DemandedPage, Region)
    /\ \A x \in Places : frame[x] # NoPage => map[x] # NoTile /\ x \in PlacesOf(Region)
    /\ IF Idle
         THEN answer.status = "NONE" => Painted(PlacesOf(Region))
         ELSE /\ PlacesOf(call.todo) \subseteq PlacesOf(Region)
              /\ Painted(PlacesOf(Region) \ PlacesOf(call.todo))

\* once the full region has been warmed without a failure it stays so
Warm == (prepared /\ ~cbFailed /\ doc = "open") => Prepared(0, FullRegion)

FrameInv == Turns /\ Stock /\ Entered /\ Demands /\ Draws /\ Warm /\ FrameIsWhole

\* What the theorems about the viewer alone give at every state.
ViewerInv == Inv /\ CeilingKept /\ AnswerInv

\* The regions are sequences of places, and a step of a call leaves fewer to do.
LEMMA RegionFacts ==
  /\ StripRegion \in Seq(Places) /\ FullRegion \in Seq(Places) /\ Region \in Seq(Places)
  /\ PlacesOf(StripRegion) \subseteq Places /\ PlacesOf(FullRegion) \subseteq Grid
  /\ PlacesOf(Region) \subseteq Places
  /\ phase < 2 => Region = StripRegion
  /\ ~(phase < 2) /\ phase \in 0 .. 2 => Region = FullRegion
<1>1. StripRegion \in Seq(Places) /\ FullRegion \in Seq(Places)
  BY BenchAssumption, RegionsAssumption
<1>2. Region \in Seq(Places)
  BY <1>1 DEF Region
<1>3. ASSUME NEW r \in Seq(Places)
      PROVE  PlacesOf(r) \subseteq Places
  BY DEF PlacesOf
<1>4. PlacesOf(FullRegion) \subseteq Grid
  BY GridAssumption DEF PlacesOf
<1>5. /\ phase < 2 => Region = StripRegion
      /\ ~(phase < 2) /\ phase \in 0 .. 2 => Region = FullRegion
  BY DEF Region
<1> QED
  BY <1>1, <1>2, <1>3, <1>4, <1>5

\* The places of a sequence without its first.
LEMMA TailPlaces ==
  ASSUME NEW s \in Seq(Places)
  PROVE  /\ s # <<>> => /\ Head(s) \in PlacesOf(s)
                        /\ PlacesOf(Tail(s)) \subseteq PlacesOf(s)
                        /\ PlacesOf(s) \subseteq {Head(s)} \cup PlacesOf(Tail(s))
         /\ s = <<>> => PlacesOf(s) = {}
<1>1. CASE s = <<>>
  BY <1>1 DEF PlacesOf
<1>2. CASE s # <<>>
  <2>1. /\ Len(s) \in Nat \ {0} /\ Head(s) = s[1] /\ DOMAIN s = 1 .. Len(s)
        /\ DOMAIN Tail(s) = 1 .. Len(s) - 1
        /\ \A i \in 1 .. Len(s) - 1 : Tail(s)[i] = s[i + 1]
    BY <1>2
  <2>2. Head(s) \in PlacesOf(s)
    BY <2>1 DEF PlacesOf
  <2>3. PlacesOf(Tail(s)) \subseteq PlacesOf(s)
    BY <2>1 DEF PlacesOf
  <2>4. ASSUME NEW x \in PlacesOf(s)
        PROVE  x \in {Head(s)} \cup PlacesOf(Tail(s))
    <3>1. PICK i \in 1 .. Len(s) : x = s[i]
      BY <2>1 DEF PlacesOf
    <3>2. CASE i = 1
      BY <2>1, <3>1, <3>2
    <3>3. CASE i # 1
      <4>1. i - 1 \in 1 .. Len(s) - 1 /\ (i - 1) + 1 = i
        BY <2>1, <3>1, <3>3
      <4>2. x = Tail(s)[i - 1]
        BY <2>1, <3>1, <4>1
      <4> QED
        BY <2>1, <4>1, <4>2 DEF PlacesOf
    <3> QED
      BY <3>2, <3>3
  <2> QED
    BY <1>2, <2>2, <2>3, <2>4
<1> QED
  BY <1>1, <1>2

\* While there are no more tiles than the grid has places the ceiling is not reached.
LEMMA GridBelowCeiling ==
  ASSUME Inv, CeilingKept, stores, maxTiles = TileCeiling, Held(map) \subseteq Grid
  PROVE  ~AtCeiling
<1>1. IsFiniteSet(Grid)
  BY PlacesAssumption, FS_Subset
<1>2. Cardinality(Held(map)) <= Cardinality(Grid) /\ Cardinality(Grid) \in Nat
      /\ Cardinality(Held(map)) \in Nat
  BY <1>1, FS_Subset, FS_CardinalityType
<1>3. Cardinality(Held(map)) = cachedTiles
  BY DEF CeilingKept
<1> QED
  BY <1>2, <1>3, BenchAssumption, GridAssumption DEF AtCeiling

\* A session that does nothing to the viewer or the callback.
LEMMA FrameKept ==
  ASSUME FrameInv, UNCHANGED <<vvars, bstate, step, drawn, cbFailed>>,
         at' = at \/ (at' # "callback" /\ at' # "present" /\ at # "callback"),
         at = "done" /\ at' # "done" => doc = "open",
         win' \in {"open", "destroyed"} => doc = "open"
  PROVE  FrameInv'
<1>1. /\ UNCHANGED <<phase, page, prepared, doc, maxTiles, call, answer, frame, map, cache, orphans,
                     activePage, stores, cachedTiles>>
      /\ Region' = Region /\ DemandedPage' = DemandedPage /\ Idle' = Idle
      /\ Held(map)' = Held(map)
  BY DEF vvars, tiles, bstate, Region, DemandedPage, Idle, Held
<1>2. \A x : Served(x)' = Served(x)
  BY <1>1 DEF Served, AtCeiling
<1>3. Turns' /\ Stock'
  BY <1>1 DEF FrameInv, Turns, Stock
<1>4. Entered'
  BY <1>1 DEF FrameInv, Entered
<1>5. Demands'
  BY <1>1 DEF FrameInv, Demands
<1>6. Draws'
  BY <1>1, <1>2 DEF FrameInv, Draws, Prepared, Painted
<1>7. Warm'
  BY <1>1, <1>2 DEF FrameInv, Warm, Prepared
<1>8. FrameIsWhole'
  BY <1>1 DEF FrameInv, FrameIsWhole, Asked
<1> QED
  BY <1>3, <1>4, <1>5, <1>6, <1>7, <1>8 DEF FrameInv

\* Opening and closing.
LEMMA FrameOpenClose ==
  ASSUME BenchInv, ViewerInv, FrameInv, BenchOpen \/ BenchCreateFails \/ BenchExit
  PROVE  FrameInv'
<1>1. at = "done" /\ at' = "done" /\ step = "enter" /\ step' = "enter"
      /\ UNCHANGED <<phase, page, prepared, call, answer, frame, drawn, cbFailed>>
  <2>1. CASE BenchOpen
    <3>1. at = "done" /\ at' = at
      BY <2>1 DEF BenchOpen, Open, wvars, FrameInv, Turns
    <3> QED
      BY <2>1, <3>1 DEF BenchOpen, Open, wvars, bstate, FrameInv, Turns
  <2>2. CASE BenchCreateFails
    BY <2>2 DEF BenchCreateFails, CreateFails, Close, bstate, BenchInv, Loop, FrameInv, Turns
  <2>3. CASE BenchExit
    BY <2>3 DEF BenchExit, Destroy, Close, FrameInv, Turns
  <2> QED
    BY <2>1, <2>2, <2>3
<1>2. /\ doc' # "none" /\ win' \notin {"open", "destroyed"}
      /\ doc' = "open" => doc = "none" /\ maxTiles' = TileCeiling
      /\ \/ map' = Empty /\ orphans' = {}
         \/ UNCHANGED <<map, cache, orphans>>
  <2>1. CASE BenchOpen
    BY <2>1 DEF BenchOpen, Open, ResetTiles, tiles, wvars, FrameInv, Turns
  <2>2. CASE BenchCreateFails
    BY <2>2 DEF BenchCreateFails, CreateFails, Close
  <2>3. CASE BenchExit
    BY <2>3 DEF BenchExit, Destroy, Close
  <2> QED
    BY <2>1, <2>2, <2>3
<1>3. Turns'
  BY <1>1, <1>2 DEF FrameInv, Turns
<1>4. Stock'
  <2>1. CASE map' = Empty /\ orphans' = {}
    <3>1. Held(map)' = {}
      BY <2>1 DEF Held, Empty
    <3> QED
      BY <2>1, <3>1 DEF Stock
  <2>2. CASE UNCHANGED <<map, cache, orphans>>
    BY <1>1, <2>2 DEF FrameInv, Stock, Held
  <2> QED
    BY <1>2, <2>1, <2>2
<1>5. ~(prepared' /\ doc' = "open")
  BY <1>1, <1>2 DEF FrameInv, Turns
<1> QED
  BY <1>1, <1>3, <1>4, <1>5 DEF FrameInv, Entered, Demands, Draws, Warm, FrameIsWhole

\* A frame begins.
LEMMA FrameFresh ==
  ASSUME FrameInv, BenchFrame
  PROVE  FrameInv'
<1>1. /\ at = "frame" /\ at' = "callback" /\ step = "enter" /\ step' = "enter" /\ frame' = Wiped
      /\ UNCHANGED <<phase, page, prepared, call, answer, drawn, cbFailed, doc, maxTiles, win, map,
                     cache, orphans, stores, activePage, cachedTiles>>
  BY DEF BenchFrame, FrameBegins, NewFrame, tiles, bvars, bstate, FrameInv, Turns
<1>2. Held(map)' = Held(map) /\ \A x : Served(x)' = Served(x)
  BY <1>1 DEF Held, Served, AtCeiling
<1>3. Turns'
  BY <1>1 DEF FrameInv, Turns
<1>4. Stock'
  BY <1>1, <1>2 DEF FrameInv, Stock
<1>5. Warm'
  BY <1>1, <1>2 DEF FrameInv, Warm, Prepared
<1> QED
  BY <1>1, <1>3, <1>4, <1>5 DEF FrameInv, Entered, Demands, Draws, FrameIsWhole

\* The callback demands a region.
LEMMA FrameDemands ==
  ASSUME BenchInv, ViewerInv, FrameInv, CallbackDemands
  PROVE  FrameInv'
<1>1. /\ at = "callback" /\ at' = "callback" /\ step = "enter" /\ step' = "demand" /\ Idle
      /\ frame' = frame /\ frame = Wiped /\ ~prepared /\ prepared' = prepared
      /\ UNCHANGED <<phase, page, drawn, cbFailed, win>>
      /\ doc = "open" /\ maxTiles = TileCeiling /\ doc' = doc /\ maxTiles' = maxTiles
  <2>1. /\ at = "callback" /\ at' = "callback" /\ step = "enter" /\ step' = "demand" /\ Idle
        /\ UNCHANGED <<phase, page, prepared, drawn, cbFailed, win>>
    BY DEF CallbackDemands, InCallback, wvars, bstate
  <2>2. frame = Wiped /\ ~prepared /\ doc = "open" /\ maxTiles = TileCeiling
    BY <2>1 DEF FrameInv, Entered, Turns, CallbackDemands
  <2>3. UNCHANGED <<frame, doc, maxTiles>>
    BY DEF CallbackDemands, DemandStart, TurnFails, DemandRefused
  <2> QED
    BY <2>1, <2>2, <2>3
<1>2. Region' = Region /\ DemandedPage' = DemandedPage
  BY <1>1 DEF Region, DemandedPage
<1>3. (map' = Empty /\ orphans' = {}) \/ UNCHANGED <<map, cache, orphans>>
  BY DEF CallbackDemands, DemandStart, TurnFails, DemandRefused, ResetTiles, tiles
<1>4. Stock'
  <2>1. CASE map' = Empty /\ orphans' = {}
    <3>1. Held(map)' = {}
      BY <2>1 DEF Held, Empty
    <3> QED
      BY <2>1, <3>1 DEF Stock
  <2>2. CASE UNCHANGED <<map, cache, orphans>>
    BY <1>1, <2>2 DEF FrameInv, Stock, Held
  <2> QED
    BY <1>3, <2>1, <2>2
<1>5. call'.name \in {"idle", "demand"} /\ Demands'
  <2>1. CASE DemandRefused(DemandedPage, Region)
    <3>1. UNCHANGED call /\ answer' = [call |-> "demand", status |-> "REFUSED", asked |-> Region]
      BY <2>1 DEF DemandRefused
    <3> QED
      BY <1>1, <1>2, <3>1 DEF Demands, Idle
  <2>2. CASE TurnFails(DemandedPage, Region)
    <3>1. UNCHANGED call /\ answer' = [call |-> "demand", status |-> "MEMORY", asked |-> Region]
      BY <2>2 DEF TurnFails
    <3> QED
      BY <1>1, <1>2, <3>1 DEF Demands, Idle
  <2>3. CASE DemandStart(DemandedPage, Region)
    <3>1. activePage' = DemandedPage
      BY <2>3 DEF DemandStart
    <3>2. CASE call' = Begun("demand", Region)
      <4>1. call'.name = "demand" /\ call'.todo = Region /\ call'.asked = Region
        BY <3>2 DEF Begun
      <4> QED
        BY <1>1, <1>2, <3>1, <4>1 DEF Demands, Idle
    <3>3. CASE /\ UNCHANGED call
               /\ answer' = [call |-> "demand", status |-> "BACKEND", asked |-> Region]
      BY <1>1, <1>2, <3>3 DEF Demands, Idle
    <3> QED
      BY <2>3, <3>2, <3>3 DEF DemandStart
  <2> QED
    BY <2>1, <2>2, <2>3 DEF CallbackDemands
<1>6. Turns'
  BY <1>1, <1>5 DEF FrameInv, Turns
<1>7. Entered' /\ Draws' /\ Warm' /\ FrameIsWhole'
  BY <1>1 DEF Entered, Draws, Warm, FrameIsWhole, Wiped
<1> QED
  BY <1>4, <1>5, <1>6, <1>7 DEF FrameInv

\* The callback draws a region that is prepared, as far as it does not know better.
LEMMA FrameDraws ==
  ASSUME BenchInv, ViewerInv, FrameInv, CallbackDrawsWarm \/ CallbackDraws
  PROVE  FrameInv'
<1>1. /\ at = "callback" /\ at' = "callback" /\ step # "draw" /\ step' = "draw" /\ Idle
      /\ frame' = frame /\ frame = Wiped
      /\ UNCHANGED <<phase, page, prepared, cbFailed, win, doc, maxTiles, map, cache, orphans, stores,
                     activePage, cachedTiles>>
      /\ drawn' = [page |-> DemandedPage, region |-> Region]
      /\ call' = Begun("draw", Region)
  <2>1. at = "callback" /\ step # "draw" /\ Idle /\ DrawRegion
    BY DEF CallbackDrawsWarm, CallbackDraws, InCallback
  <2>2. frame = Wiped
    BY <2>1 DEF FrameInv, Entered
  <2> QED
    BY <2>1, <2>2 DEF DrawRegion, DrawStart, wvars, bstate, tiles
<1>2. Region' = Region /\ DemandedPage' = DemandedPage
  BY <1>1 DEF Region, DemandedPage
<1>3. Held(map)' = Held(map) /\ \A x : Served(x)' = Served(x)
  BY <1>1 DEF Held, Served, AtCeiling
<1>4. call'.name = "draw" /\ call'.todo = Region
  BY <1>1 DEF Begun
<1>5. doc = "open" /\ Turns' /\ Stock' /\ Warm'
  BY <1>1, <1>3, <1>4 DEF FrameInv, Turns, Stock, Warm, Prepared
<1>6. (phase < 2 \/ ~cbFailed) => Prepared(DemandedPage, Region)
  <2>1. CASE CallbackDrawsWarm
    <3>1. phase = 2 /\ prepared
      BY <2>1 DEF CallbackDrawsWarm
    <3> QED
      BY <1>5, <3>1 DEF FrameInv, Warm, Region, DemandedPage
  <2>2. CASE CallbackDraws
    <3>1. /\ answer.status = "NONE" /\ answer.call = "demand" /\ answer.asked = Region
          /\ activePage = DemandedPage /\ stores
      BY <1>1, <2>2 DEF CallbackDraws, InCallback, FrameInv, Demands
    <3>2. \A i \in DOMAIN Region : Served(Region[i])
      BY <1>5, <3>1 DEF ViewerInv, AnswerInv, AnswerHolds, Served
    <3> QED
      BY <3>1, <3>2 DEF Prepared, PlacesOf
  <2> QED
    BY <2>1, <2>2
<1>7. Draws'
  BY <1>1, <1>2, <1>3, <1>4, <1>6 DEF Draws, Prepared, Painted, Idle, Wiped
<1> QED
  BY <1>1, <1>5, <1>7 DEF FrameInv, Entered, Demands, FrameIsWhole

\* The viewer works inside a callback that waits for it.
LEMMA WorksFacts ==
  ASSUME BenchInv, ViewerInv, FrameInv, ViewerWorks
  PROVE  /\ at = "callback" /\ at' = "callback" /\ step = call.name /\ step' = step
         /\ step # "enter" /\ ~Idle /\ (DemandNext \/ DrawNext)
         /\ UNCHANGED <<phase, page, prepared, drawn, cbFailed, win, doc, maxTiles, activePage,
                        stores, pageGen>>
         /\ Region' = Region /\ DemandedPage' = DemandedPage
         /\ doc = "open" /\ VTypeOK /\ Phases /\ NothingDangles /\ Current /\ CeilingKept
<1>1. ~Idle /\ (DemandNext \/ DrawNext) /\ UNCHANGED <<wvars, bvars>>
  BY DEF ViewerWorks
<1>2. call.name \in {"demand", "draw"}
  BY <1>1 DEF Idle, ViewerInv, Inv, VTypeOK
<1>3. step = call.name
  BY <1>1, <1>2 DEF Idle, FrameInv, Turns
<1>4. at = "callback" /\ doc = "open"
  BY <1>2, <1>3 DEF FrameInv, Turns
<1>5. UNCHANGED <<phase, page, prepared, step, at, win, drawn, cbFailed>>
  BY <1>1 DEF wvars, bvars, bstate
<1>6. UNCHANGED <<doc, maxTiles, activePage, stores, pageGen>>
  BY <1>1 DEF DemandNext, DrawNext, TileHit, TileOverCeiling, TileRendered, InsertFails, RenderFails,
              DemandEnd, DrawSkips, DrawTile, BlitFails, BlitOutside, DrawEnd, tiles
<1>7. Region' = Region /\ DemandedPage' = DemandedPage
  BY <1>5 DEF Region, DemandedPage
<1> QED
  BY <1>1, <1>2, <1>3, <1>4, <1>5, <1>6, <1>7 DEF ViewerInv, Inv

\* A demand adds tiles of the region only, and a tile that is lost is in no map.
LEMMA StockGrows ==
  ASSUME BenchInv, ViewerInv, FrameInv, ViewerWorks, DemandNext
  PROVE  Stock'
<1>1. /\ step = "demand" /\ call.name = "demand" /\ ~Idle /\ phase' = phase
      /\ VTypeOK /\ NothingDangles /\ phase \in 0 .. 2
  <2>1. call.name = "demand"
    BY DEF DemandNext, TileHit, TileOverCeiling, TileRendered, InsertFails, RenderFails,
           DemandEnd, Miss, Demanding
  <2> QED
    BY <2>1, WorksFacts DEF BenchInv, Passes
<1>2. Untouched \/ Added
  BY DEF DemandNext, TileHit, TileOverCeiling, TileRendered, InsertFails, RenderFails, DemandEnd,
         Miss, Demanding, Put, tiles, Untouched, Added
<1>3. CASE Untouched
  BY <1>1, <1>3 DEF Untouched, FrameInv, Stock, Held
<1>4. CASE Added
  <2>1. Here \in Places /\ cache[Here] = NoTile /\ Rendered # NoTile /\ call.todo # <<>>
    BY <1>4, HeldAdded, TileFacts DEF Added, ViewerInv, Inv, Phases
  <2>2. map[Here] = NoTile /\ Here \notin orphans
    BY <1>1, <2>1 DEF NothingDangles, FrameInv, Stock
  <2>3. call.todo \in Seq(Places) /\ PlacesOf(call.todo) \subseteq PlacesOf(Region)
    BY <1>1 DEF VTypeOK, FrameInv, Demands
  <2>4. Here \in PlacesOf(Region)
    BY <2>1, <2>3, TailPlaces DEF Here
  <2>5. Here \in IF phase < 2 THEN PlacesOf(StripRegion) ELSE Grid
    BY <1>1, <2>4, RegionFacts
  <2>6. cache' = [cache EXCEPT ![Here] = Rendered] /\ cache \in [Places -> Tile]
        /\ map \in [Places -> Tile] /\ orphans \subseteq Places
    BY <1>1, <1>4 DEF Added, VTypeOK
  <2>7. CASE map' = [map EXCEPT ![Here] = Rendered] /\ UNCHANGED orphans
    <3>1. Held(map)' = Held(map) \cup {Here}
      BY <1>4, <2>7, HeldAdded DEF ViewerInv
    <3>2. \A x \in orphans : map'[x] = NoTile /\ cache'[x] # NoTile
      BY <2>1, <2>2, <2>6, <2>7 DEF FrameInv, Stock
    <3>3. Held(map) \subseteq IF phase < 2 THEN PlacesOf(StripRegion) ELSE Grid
      BY DEF FrameInv, Stock
    <3> QED
      BY <1>1, <2>5, <2>7, <3>1, <3>2, <3>3 DEF Stock
  <2>8. CASE orphans' = orphans \cup {Here} /\ UNCHANGED <<map, cachedTiles>>
    <3>1. Held(map)' = Held(map)
      BY <2>8 DEF Held
    <3>2. \A x \in orphans \cup {Here} : map'[x] = NoTile /\ cache'[x] # NoTile
      BY <2>1, <2>2, <2>6, <2>8 DEF FrameInv, Stock
    <3> QED
      BY <1>1, <2>8, <3>1, <3>2 DEF FrameInv, Stock
  <2> QED
    BY <1>4, <2>7, <2>8 DEF Added
<1> QED
  BY <1>2, <1>3, <1>4

\* The viewer works on a demand.
LEMMA FrameDemanding ==
  ASSUME BenchInv, ViewerInv, FrameInv, ViewerWorks, DemandNext
  PROVE  FrameInv'
<1>1. /\ at' = "callback" /\ step = "demand" /\ step' = "demand" /\ call.name = "demand" /\ ~Idle
      /\ UNCHANGED <<phase, page, prepared, drawn, cbFailed, win, doc, maxTiles, activePage, stores>>
      /\ Region' = Region /\ DemandedPage' = DemandedPage /\ VTypeOK /\ doc = "open" /\ stores
      /\ at = "callback"
  <2>1. call.name = "demand"
    BY DEF DemandNext, TileHit, TileOverCeiling, TileRendered, InsertFails, RenderFails,
           DemandEnd, Miss, Demanding
  <2> QED
    BY <2>1, WorksFacts DEF Phases
<1>2. frame' = frame /\ frame = Wiped /\ ~prepared
  <2>1. frame' = frame
    BY DEF DemandNext, TileHit, TileOverCeiling, TileRendered, InsertFails, RenderFails, DemandEnd
  <2> QED
    BY <1>1, <2>1 DEF FrameInv, Entered, Turns
<1>3. /\ PlacesOf(call.todo) \subseteq PlacesOf(Region)
      /\ call.asked = Region /\ activePage = DemandedPage /\ call.todo \in Seq(Places)
  BY <1>1 DEF FrameInv, Demands, VTypeOK
<1>4. call'.name \in {"idle", "demand"} /\ Demands'
  <2>1. CASE call.todo # <<>> /\ NextTile
    <3>1. /\ call'.name = "demand" /\ call'.asked = Region /\ call'.todo = Tail(call.todo)
      BY <1>1, <1>3, <2>1, NextTileFacts
    <3>2. PlacesOf(call'.todo) \subseteq PlacesOf(Region)
      BY <1>3, <2>1, <3>1, TailPlaces
    <3> QED
      BY <1>1, <1>3, <3>1, <3>2 DEF Demands, Idle
  <2>2. CASE \E status : Answers(status)
    <3>1. call'.name = "idle" /\ answer'.call = "demand" /\ answer'.asked = Region
      BY <1>1, <1>3, <2>2, AnswersFacts
    <3> QED
      BY <1>1, <1>3, <3>1 DEF Demands, Idle
  <2> QED
    BY <2>1, <2>2 DEF DemandNext, TileHit, TileOverCeiling, TileRendered, InsertFails, RenderFails,
                      DemandEnd, Miss, Demanding
<1>5. Turns'
  BY <1>1, <1>2, <1>4 DEF FrameInv, Turns
<1> QED
  BY <1>1, <1>2, <1>4, <1>5, StockGrows DEF FrameInv, Entered, Draws, Warm, FrameIsWhole

\* The viewer works on drawing.
LEMMA FrameDrawing ==
  ASSUME BenchInv, ViewerInv, FrameInv, ViewerWorks, DrawNext
  PROVE  FrameInv'
<1>1. /\ at' = "callback" /\ step = "draw" /\ step' = "draw" /\ call.name = "draw" /\ ~Idle
      /\ UNCHANGED <<phase, page, prepared, drawn, cbFailed, win, doc, maxTiles, activePage, stores>>
      /\ Region' = Region /\ DemandedPage' = DemandedPage /\ VTypeOK /\ doc = "open"
      /\ at = "callback"
  <2>1. call.name = "draw"
    BY DEF DrawNext, DrawSkips, DrawTile, BlitFails, BlitOutside, DrawEnd, Drawing
  <2> QED
    BY <2>1, WorksFacts
<1>2. UNCHANGED <<map, cache, orphans, cachedTiles>>
  BY DEF DrawNext, DrawSkips, DrawTile, BlitFails, BlitOutside, DrawEnd, tiles
<1>3. Held(map)' = Held(map) /\ \A x : Served(x)' = Served(x)
  BY <1>1, <1>2 DEF Held, Served, AtCeiling
<1>4. Stock' /\ Warm'
  BY <1>1, <1>2, <1>3 DEF FrameInv, Stock, Warm, Prepared
<1>5. /\ drawn = [page |-> DemandedPage, region |-> Region]
      /\ (phase < 2 \/ ~cbFailed) => Prepared(DemandedPage, Region)
      /\ \A x \in Places : frame[x] # NoPage => map[x] # NoTile /\ x \in PlacesOf(Region)
      /\ PlacesOf(call.todo) \subseteq PlacesOf(Region)
      /\ Painted(PlacesOf(Region) \ PlacesOf(call.todo))
      /\ call.todo \in Seq(Places)
  BY <1>1 DEF FrameInv, Draws, VTypeOK
<1>6. Prepared(DemandedPage, Region)' = Prepared(DemandedPage, Region)
  BY <1>1, <1>3 DEF Prepared
<1>7. /\ call'.name \in {"idle", "draw"}
      /\ \A x \in Places : frame'[x] # NoPage => map'[x] # NoTile /\ x \in PlacesOf(Region)
      /\ IF Idle' THEN answer'.status = "NONE" => Painted(PlacesOf(Region))'
         ELSE /\ PlacesOf(call'.todo) \subseteq PlacesOf(Region)
              /\ Painted(PlacesOf(Region) \ PlacesOf(call.todo))'
  <2>1. CASE DrawSkips \/ DrawTile
    <3>1. call.todo # <<>> /\ NextTile /\ Here = Head(call.todo) /\ Here \in Places
      BY <1>1, <2>1, HereFacts DEF DrawSkips, DrawTile, Drawing, Here
    <3>2. call'.name = "draw" /\ call'.todo = Tail(call.todo)
      BY <1>1, <3>1, NextTileFacts
    <3>3. /\ Here \in PlacesOf(call.todo) /\ PlacesOf(call'.todo) \subseteq PlacesOf(call.todo)
          /\ PlacesOf(call.todo) \subseteq {Here} \cup PlacesOf(call'.todo)
      BY <1>5, <3>1, <3>2, TailPlaces
    <3>4. frame \in [Places -> Pages \cup {NoPage}]
      BY <1>1 DEF VTypeOK
    <3>5. /\ \A x \in Places \ {Here} : frame'[x] = frame[x]
          /\ frame'[Here] # NoPage => map[Here] # NoTile
          /\ map[Here] # NoTile => Here \in Grid /\ frame'[Here] = activePage
      <4>1. CASE DrawSkips
        BY <1>5, <3>1, <4>1 DEF DrawSkips
      <4>2. CASE DrawTile
        <5>1. slots'[Here].page = activePage
          BY <4>2, UploadedFacts DEF ViewerInv, Inv
        <5> QED
          BY <3>1, <3>4, <4>2, <5>1 DEF DrawTile
      <4> QED
        BY <2>1, <4>1, <4>2
    <3>6. \A x \in Places : frame'[x] # NoPage => map[x] # NoTile /\ x \in PlacesOf(Region)
      BY <1>5, <3>3, <3>5
    <3>7. ASSUME NEW x \in PlacesOf(Region) \ PlacesOf(call'.todo), map[x] # NoTile
          PROVE  x \in Grid /\ frame'[x] = activePage
      <4>1. CASE x = Here
        BY <3>5, <3>7, <4>1
      <4>2. CASE x # Here
        <5>1. x \in PlacesOf(Region) \ PlacesOf(call.todo) /\ x \in Places
          BY <3>3, <3>7, <4>2, RegionFacts
        <5>2. x \in Grid /\ frame[x] = activePage
          BY <1>5, <3>7, <5>1 DEF Painted
        <5> QED
          BY <3>5, <4>2, <5>1, <5>2
      <4> QED
        BY <4>1, <4>2
    <3>8. Painted(PlacesOf(Region) \ PlacesOf(call.todo))'
      BY <1>1, <1>2, <3>7 DEF Painted
    <3>9. ~Idle'
      BY <3>2 DEF Idle
    <3> QED
      BY <1>2, <1>5, <3>2, <3>3, <3>6, <3>8, <3>9
  <2>2. CASE BlitFails \/ BlitOutside \/ DrawEnd
    <3>1. PICK status \in {"BACKEND", "MEMORY", "RANGE", "NONE"} : Answers(status)
      BY <2>2 DEF BlitFails, BlitOutside, DrawEnd
    <3>2. /\ call'.name = "idle" /\ answer'.status = status /\ frame' = frame
      BY <1>1, <2>2, <3>1, AnswersFacts DEF BlitFails, BlitOutside, DrawEnd
    <3>3. ASSUME status = "NONE" PROVE call.todo = <<>>
      <4>1. answer'.status = "NONE"
        BY <3>2, <3>3
      <4>2. CASE BlitFails
        BY <1>1, <4>1, <4>2, AnswersFacts DEF BlitFails
      <4>3. CASE BlitOutside
        BY <1>1, <4>1, <4>3, AnswersFacts DEF BlitOutside
      <4> QED
        BY <2>2, <4>2, <4>3 DEF DrawEnd
    <3>4. answer'.status = "NONE" => Painted(PlacesOf(Region))'
      <4>1. ASSUME answer'.status = "NONE" PROVE PlacesOf(call.todo) = {}
        BY <1>5, <3>2, <3>3, <4>1, TailPlaces
      <4> QED
        BY <1>1, <1>2, <1>5, <3>2, <4>1 DEF Painted
    <3> QED
      BY <1>2, <1>5, <3>2, <3>4 DEF Idle
  <2> QED
    BY <2>1, <2>2 DEF DrawNext
<1>8. Turns'
  BY <1>1, <1>7 DEF FrameInv, Turns
<1>9. Draws'
  BY <1>1, <1>5, <1>6, <1>7 DEF Draws
<1> QED
  BY <1>1, <1>4, <1>8, <1>9 DEF FrameInv, Entered, Demands, FrameIsWhole

\* What is mapped lies in the grid when the drawing of a region has succeeded.
LEMMA DrawnInGrid ==
  ASSUME BenchInv, FrameInv, Painted(PlacesOf(Region))
  PROVE  Held(map) \subseteq Grid
<1>1. CASE phase < 2
  BY <1>1, RegionFacts DEF FrameInv, Stock, Painted, Held
<1>2. CASE ~(phase < 2)
  BY <1>2 DEF FrameInv, Stock
<1> QED
  BY <1>1, <1>2

\* The callback returns: a frame that is presented is whole, and the grid is in order when
\* the full region's turn comes.
LEMMA FrameReturns ==
  ASSUME BenchInv, ViewerInv, FrameInv, CallbackEnds
  PROVE  FrameInv'
<1>1. PICK ok \in BOOLEAN : /\ Return(ok) /\ at = "callback" /\ Idle
                            /\ ok => step = "draw" /\ answer.status = "NONE"
  BY DEF CallbackEnds, InCallback
<1>2. /\ at' = (IF ok THEN "present" ELSE "get") /\ step' = "enter"
      /\ cbFailed' = (cbFailed \/ ~ok)
      /\ UNCHANGED <<vvars, drawn, win>>
      /\ PagePass(ok) \/ FullWarm \/ FullSettle(ok) \/ FullMeasured
  BY <1>1 DEF Return, CallbackReturns
<1>3. /\ UNCHANGED <<doc, maxTiles, call, answer, frame, map, cache, orphans, activePage, stores,
                     cachedTiles>>
      /\ Held(map)' = Held(map) /\ \A x : Served(x)' = Served(x)
  BY <1>2 DEF vvars, tiles, Held, Served, AtCeiling
<1>4. doc = "open" /\ maxTiles = TileCeiling /\ phase \in 0 .. 2 /\ (prepared => phase = 2)
  BY <1>1 DEF FrameInv, Turns, BenchInv, Passes
<1>5. /\ phase' \in {phase, phase + 1} /\ phase' \in 0 .. 2
      /\ phase' # phase => ok /\ prepared' = prepared
      /\ prepared' # prepared => FullWarm
      /\ prepared' => phase' = 2
  BY <1>2, <1>4 DEF PagePass, FullWarm, FullSettle, FullMeasured
<1>6. ok => /\ drawn = [page |-> DemandedPage, region |-> Region]
            /\ (phase < 2 \/ ~cbFailed) => Prepared(DemandedPage, Region)
            /\ \A x \in Places : frame[x] # NoPage => map[x] # NoTile /\ x \in PlacesOf(Region)
            /\ Painted(PlacesOf(Region)) /\ Held(map) \subseteq Grid
  BY <1>1, DrawnInGrid DEF FrameInv, Draws
<1>7. Turns'
  BY <1>1, <1>2, <1>3, <1>4, <1>5 DEF FrameInv, Turns, Idle
<1>8. Stock'
  <2>1. \A x \in orphans' : map'[x] = NoTile /\ cache'[x] # NoTile
    BY <1>3 DEF FrameInv, Stock
  <2>2. Held(map) \subseteq IF phase' < 2 THEN PlacesOf(StripRegion) ELSE Grid
    <3>1. CASE phase' = phase
      BY <3>1 DEF FrameInv, Stock
    <3>2. CASE phase' # phase /\ phase' < 2
      BY <1>4, <1>5, <3>2 DEF FrameInv, Stock
    <3>3. CASE phase' # phase /\ ~(phase' < 2)
      BY <1>5, <1>6, <3>3
    <3> QED
      BY <3>1, <3>2, <3>3
  <2> QED
    BY <1>3, <2>1, <2>2 DEF Stock
<1>9. Warm'
  <2> SUFFICES ASSUME prepared', ~cbFailed'
               PROVE  Prepared(0, FullRegion)
    BY <1>3 DEF Warm, Prepared
  <2>1. ok /\ ~cbFailed
    BY <1>2
  <2>2. CASE prepared
    BY <1>4, <2>1, <2>2 DEF FrameInv, Warm
  <2>3. CASE ~prepared
    BY <1>5, <1>6, <2>1, <2>3 DEF FullWarm, Region, DemandedPage
  <2> QED
    BY <2>2, <2>3
<1>10. FrameIsWhole'
  <2> SUFFICES ASSUME at' = "present", phase' < 2 \/ ~cbFailed', NEW x \in Places
               PROVE  frame[x] = IF x \in Asked \ orphans THEN drawn.page ELSE NoPage
    BY <1>2, <1>3 DEF FrameIsWhole, Asked
  <2>1. ok /\ (phase < 2 \/ ~cbFailed)
    BY <1>2, <1>4, <1>5
  <2>2. /\ drawn.page = DemandedPage /\ Asked = PlacesOf(Region)
        /\ stores /\ activePage = DemandedPage /\ \A y \in PlacesOf(Region) : Served(y)
    BY <1>6, <2>1 DEF Asked, PlacesOf, Prepared
  <2>3. ~AtCeiling
    BY <1>4, <1>6, <2>1, <2>2, GridBelowCeiling DEF ViewerInv
  <2>4. CASE x \in Asked \ orphans
    <3>1. map[x] # NoTile
      BY <2>2, <2>3, <2>4 DEF Served
    <3> QED
      BY <1>6, <2>1, <2>2, <2>4, <3>1 DEF Painted
  <2>5. CASE x \notin Asked \ orphans
    <3>1. x \in orphans => map[x] = NoTile
      BY DEF FrameInv, Stock
    <3> QED
      BY <1>6, <2>1, <2>2, <2>5, <3>1
  <2> QED
    BY <2>4, <2>5
<1>11. Entered' /\ Demands' /\ Draws'
  BY <1>2 DEF Entered, Demands, Draws
<1> QED
  BY <1>7, <1>8, <1>9, <1>10, <1>11 DEF FrameInv

\* A benchmark that has not begun has presented nothing.
LEMMA FrameInit ==
  ASSUME BInit
  PROVE  FrameInv
<1>1. Held(map) = {}
  BY DEF BInit, VInit, Held, Empty
<1> QED
  BY <1>1 DEF BInit, VInit, WInit, FrameInv, Turns, Stock, Entered, Demands, Draws, Warm,
              FrameIsWhole, NoCall

\* Every step of the benchmark keeps what is known of its frames.
LEMMA FrameStep ==
  ASSUME BenchInv, ViewerInv, FrameInv, [BNext]_vars
  PROVE  FrameInv'
<1>1. /\ at # "done" => doc = "open"
      /\ win \in {"open", "destroyed"} => doc = "open"
  BY DEF FrameInv, Turns
<1>2. CASE UNCHANGED vars
  <2>1. /\ UNCHANGED <<vvars, bstate, step, drawn, cbFailed>> /\ at' = at /\ win' = win
    BY <1>2 DEF vars, bvars, wvars
  <2> QED
    BY <1>1, <2>1, FrameKept
<1>3. CASE BenchOpen \/ BenchCreateFails \/ BenchExit
  BY <1>3, FrameOpenClose
<1>4. CASE BenchCreate \/ BenchRun
  <2>1. /\ UNCHANGED <<vvars, bstate, step, drawn, cbFailed>> /\ doc = "open"
        /\ at' = at \/ (at = "done" /\ at' = "frame")
    BY <1>1, <1>4 DEF BenchCreate, BenchRun, Create, RunStart, bvars
  <2> QED
    BY <2>1, FrameKept
<1>5. CASE BenchFrame
  BY <1>5, FrameFresh
<1>6. CASE CallbackDrawsWarm \/ CallbackDraws
  BY <1>6, FrameDraws
<1>7. CASE CallbackDemands
  BY <1>7, FrameDemands
<1>8. CASE ViewerWorks
  BY <1>8, FrameDemanding, FrameDrawing DEF ViewerWorks
<1>9. CASE CallbackEnds
  BY <1>9, FrameReturns
<1>10. CASE WindowWorks
  <2>1. /\ UNCHANGED <<vvars, bstate, step, drawn, cbFailed>>
        /\ at \in {"get", "pump", "frame", "present"}
        /\ at' \in {"get", "pump", "frame", "done"}
    <3>1. CASE Messages \/ Pump
      BY <1>10, <3>1 DEF WindowWorks, Messages, Wheel, CloseWindow, Paint, Quit, Pump, bvars
    <3>2. CASE FrameSkipped \/ EndDrawFails \/ Presented \/ PresentFails
      <4>1. at \in {"frame", "present"} /\ at' = "get"
        BY <3>2 DEF FrameSkipped, EndDrawFails, Presented, PresentFails, FrameCounted
      <4> QED
        BY <1>10, <4>1 DEF WindowWorks, bvars
    <3> QED
      BY <1>10, <3>1, <3>2 DEF WindowWorks, Rendering
  <2> QED
    BY <1>1, <2>1, FrameKept
<1>11. CASE Outside
  <2>1. /\ UNCHANGED <<vvars, bstate, step, drawn, cbFailed>> /\ at = "get" /\ win' = win
        /\ at' \in {"get", "pump"}
    BY <1>11 DEF Outside, Sized, DpiChanged, Input, UserCloses, Waiting, bvars
  <2> QED
    BY <1>1, <2>1, FrameKept
<1> QED
  BY <1>2, <1>3, <1>4, <1>5, <1>6, <1>7, <1>8, <1>9, <1>10, <1>11 DEF BNext, Program

\* What the answers of viewer_demand are worth, in the benchmark too.
LEMMA AnswersInside == VSpec => []AnswerInv
<1>1. Inv /\ CeilingKept /\ AnswerInv /\ [VNext]_vvars => AnswerInv'
  BY AnswerStep
<1> QED
  BY <1>1, AnswerInit, InvHolds, CeilingHolds, PTL DEF VSpec

(* Every frame whose callback succeeded shows every tile of the region it     *)
(* drew and nothing else, all of the page it was drawn for: through wheels,   *)
(* resizes, failed demands and failed callbacks, for every document, strip    *)
(* and grid.                                                                  *)
THEOREM FramesAreWhole == BSpec => []FrameIsWhole
<1>1. BInit => FrameInv
  BY FrameInit
<1>2. BenchInv /\ ViewerInv /\ FrameInv /\ [BNext]_vars => FrameInv'
  BY FrameStep
<1>3. FrameInv => FrameIsWhole
  BY DEF FrameInv
<1>4. BSpec => []ViewerInv
  <2>1. Inv /\ CeilingKept /\ AnswerInv => ViewerInv
    BY DEF ViewerInv
  <2> QED
    BY <2>1, ViewerInside, InvHolds, CeilingHolds, AnswersInside, PTL
<1> QED
  BY <1>1, <1>2, <1>3, <1>4, CountersAgree, PTL DEF BSpec

=============================================================================
