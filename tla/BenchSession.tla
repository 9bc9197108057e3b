---------------------------- MODULE BenchSession ----------------------------
(* The benchmark (src/src/app/bench/bench.cc): bench_main opens the viewer    *)
(* and the window, and every frame the window renders calls bench_render_cb,  *)
(* which demands and draws tiles of the viewer and asks for the next frame.   *)
(* It composes TileViewer and WindowLoop, on one thread.                      *)
EXTENDS TileViewer, WindowLoop

CONSTANTS StripRegion,   \* the strip of tiles of the page passes
          FullRegion,    \* the whole grid
          SettleFrames,  \* TYNYPDF_BENCH_SETTLE
          FullFrames,    \* TYNYPDF_BENCH_FULL_FRAMES
          TileCeiling,   \* max_tiles (256)
          MaxRecorded    \* bound on the frames counted per phase: later ones look the same

\* an empty document is refused before there is a window
ASSUME BenchAssumption ==
  /\ PageCount > 0
  /\ TileCeiling \in Ceilings /\ {StripRegion, FullRegion} \subseteq Regions
  /\ SettleFrames \in Nat /\ FullFrames \in Nat /\ TileCeiling \in Nat
  /\ MaxRecorded \in Nat /\ MaxRecorded > PageCount + FullFrames

\* the full region is the grid of d2d_blit.h, 16 x 12 slots, and the ceiling is 256;
\* the strip's size comes from the environment
ASSUME GridAssumption ==
  /\ {FullRegion[i] : i \in DOMAIN FullRegion} \subseteq Grid
  /\ Cardinality(Grid) < TileCeiling

VARIABLES
  phase,       \* 0 forward, 1 return, 2 full region
  page,        \* page of the passes
  stepsLeft,   \* pages left in the pass
  prepared,    \* full_prepared
  settleLeft,  \* settle_left
  recorded,    \* frames recorded in each phase
  step,        \* what the callback does next: "enter", "demand" or "draw"
  exit,        \* the exit code, -1 while running
  drawn,       \* history: page and region of the last draw
  cbFailed,    \* history: a callback has failed
  userClosed   \* history: the user has closed the window

bstate == <<phase, page, stepsLeft, prepared, settleLeft, recorded>>
bvars == <<bstate, step, exit, drawn, cbFailed, userClosed>>
vars == <<vvars, wvars, bvars>>

FrameBudget == 2 * PageCount + 1 + SettleFrames + FullFrames

BInit ==
  /\ VInit /\ WInit
  /\ phase = 0 /\ page = 0 /\ stepsLeft = PageCount
  /\ prepared = FALSE /\ settleLeft = 0 /\ recorded = [p \in 0 .. 2 |-> 0]
  /\ step = "enter" /\ exit = -1
  /\ drawn = [page |-> NoPage, region |-> <<>>]
  /\ cbFailed = FALSE /\ userClosed = FALSE

-----------------------------------------------------------------------------
BenchOpen ==
  /\ exit = -1 /\ Open(TileCeiling)
  /\ exit' = IF doc' = "open" THEN -1 ELSE 1
  /\ UNCHANGED <<wvars, bstate, step, drawn, cbFailed, userClosed>>

BenchCreate ==
  /\ doc = "open" /\ Create(FrameBudget)
  /\ UNCHANGED <<vvars, bvars>>

BenchCreateFails ==
  /\ doc = "open" /\ CreateFails
  /\ Close
  /\ exit' = 1
  /\ UNCHANGED <<bstate, step, drawn, cbFailed, userClosed>>

BenchRun == RunStart /\ ~quit /\ UNCHANGED <<vvars, bvars>>

\* pc_window_destroy, write_json, d2d_scratch_release, viewer_close; the
\* frames beyond the measured ones are dropped
BenchExit ==
  /\ at = "done" /\ quit /\ exit = -1
  /\ Destroy /\ Close
  /\ exit' \in {0, 1}
  /\ recorded' = [recorded EXCEPT ![2] = IF @ > FullFrames THEN FullFrames ELSE @]
  /\ UNCHANGED <<phase, page, stepsLeft, prepared, settleLeft, step, drawn, cbFailed, userClosed>>

-----------------------------------------------------------------------------
BenchFrame == FrameBegins /\ NewFrame /\ UNCHANGED bvars

Region == IF phase = 2 THEN FullRegion ELSE StripRegion
DemandedPage == IF phase = 2 THEN 0 ELSE page
InCallback(s) == at = "callback" /\ step = s /\ Idle

DrawRegion ==
  /\ DrawStart(Region)
  /\ step' = "draw"
  /\ drawn' = [page |-> DemandedPage, region |-> Region]
  /\ UNCHANGED <<wvars, bstate, exit, cbFailed, userClosed>>

\* the full region is demanded once, later frames only draw it
CallbackDrawsWarm == InCallback("enter") /\ phase = 2 /\ prepared /\ DrawRegion

CallbackDemands ==
  /\ InCallback("enter") /\ ~(phase = 2 /\ prepared)
  /\ \/ DemandStart(DemandedPage, Region)
     \/ TurnFails(DemandedPage, Region)
     \/ DemandRefused(DemandedPage, Region)
  /\ step' = "demand"
  /\ UNCHANGED <<wvars, bstate, exit, drawn, cbFailed, userClosed>>

CallbackDraws == InCallback("demand") /\ answer.status = "NONE" /\ DrawRegion

\* the viewer works on the callback's call
ViewerWorks == ~Idle /\ (DemandNext \/ DrawNext) /\ UNCHANGED <<wvars, bvars>>

Recorded == recorded' = [recorded EXCEPT ![phase] = IF @ < MaxRecorded THEN @ + 1 ELSE @]

\* Fault: the return pass leaves the last page out
PagePassSkipping(ok) ==
  /\ phase < 2 /\ Recorded
  /\ \/ ~ok /\ UNCHANGED <<phase, page, stepsLeft>>
     \/ /\ ok /\ stepsLeft > 1
        /\ stepsLeft' = stepsLeft - 1
        /\ page' = IF phase = 0 THEN page + 1 ELSE page - 1
        /\ UNCHANGED phase
     \/ /\ ok /\ stepsLeft = 1
        /\ phase' = phase + 1
        /\ page' = IF phase = 0 THEN PageCount - 1 ELSE 0
        /\ stepsLeft' = IF phase = 0 THEN PageCount - 1 ELSE 0
  /\ UNCHANGED <<prepared, settleLeft>>

\* forward and return pass: a page per frame; a failed page is tried again
PagePass(ok) ==
  /\ phase < 2 /\ Recorded
  /\ \/ ~ok /\ UNCHANGED <<phase, page, stepsLeft>>
     \/ /\ ok /\ stepsLeft > 1
        /\ stepsLeft' = stepsLeft - 1
        /\ page' = IF phase = 0 THEN page + 1 ELSE page - 1
        /\ UNCHANGED phase
     \/ /\ ok /\ stepsLeft = 1
        /\ phase' = phase + 1
        /\ page' = IF phase = 0 THEN PageCount - 1 ELSE 0
        /\ stepsLeft' = IF phase = 0 THEN PageCount ELSE 0
  /\ UNCHANGED <<prepared, settleLeft>>

\* the grid is warmed, tried only once
FullWarm ==
  /\ phase = 2 /\ ~prepared
  /\ prepared' = TRUE /\ settleLeft' = SettleFrames
  /\ UNCHANGED <<phase, page, stepsLeft, recorded>>

\* unrecorded frames, then the recorded ones
FullSettle(ok) ==
  /\ phase = 2 /\ prepared /\ settleLeft > 0
  /\ settleLeft' = IF ok THEN settleLeft - 1 ELSE settleLeft
  /\ UNCHANGED <<phase, page, stepsLeft, prepared, recorded>>

FullMeasured ==
  /\ phase = 2 /\ prepared /\ settleLeft = 0
  /\ Recorded
  /\ UNCHANGED <<phase, page, stepsLeft, prepared, settleLeft>>

Return(ok) ==
  /\ CallbackReturns(ok)
  /\ PagePass(ok) \/ FullWarm \/ FullSettle(ok) \/ FullMeasured
  /\ step' = "enter"
  /\ cbFailed' = (cbFailed \/ ~ok)
  /\ UNCHANGED <<vvars, exit, drawn, userClosed>>

CallbackEnds ==
  \/ InCallback("demand") /\ answer.status # "NONE" /\ Return(FALSE)
  \/ InCallback("draw") /\ Return(answer.status = "NONE")

-----------------------------------------------------------------------------
\* what the window does between two callbacks
Messages == Wheel \/ CloseWindow \/ Paint \/ Quit
Rendering == FrameSkipped \/ EndDrawFails \/ Presented \/ PresentFails
WindowWorks == (Messages \/ Pump \/ Rendering) /\ UNCHANGED <<vvars, bvars>>

\* the machine and the user
Outside ==
  \/ /\ \/ \E s \in Sizes : Sized(s)
        \/ \E s \in Sizes, d \in Scales : DpiChanged(s, d)
        \/ Input
     /\ UNCHANGED <<vvars, bvars>>
  \/ /\ UserCloses /\ ~userClosed
     /\ userClosed' = TRUE
     /\ UNCHANGED <<vvars, bstate, step, exit, drawn, cbFailed>>

Program ==
  \/ BenchOpen \/ BenchCreate \/ BenchCreateFails \/ BenchRun \/ BenchExit
  \/ BenchFrame \/ CallbackDrawsWarm \/ CallbackDemands \/ CallbackDraws
  \/ ViewerWorks \/ CallbackEnds
  \/ WindowWorks

BNext == Program \/ Outside
BSpec == BInit /\ [][BNext]_vars /\ WF_vars(Program)

-----------------------------------------------------------------------------
Asked == {drawn.region[i] : i \in DOMAIN drawn.region}

(* A frame whose callback succeeded shows every tile of the region that was   *)
(* drawn, all of the page it was drawn for, and nothing else: no tile of the  *)
(* page before, none left over from a failed demand.  Exceptions are a tile   *)
(* that could not be mapped, and the full region after a failed callback:     *)
(* bench_render_cb warms it once and never again.                             *)
FrameIsWhole ==
  (at = "present" /\ (phase < 2 \/ ~cbFailed)) =>
    \A x \in Places : frame[x] = IF x \in Asked \ orphans THEN drawn.page ELSE NoPage

(* A benchmark that exits with 0, and that nobody closed by hand, has         *)
(* recorded every page in both directions and exactly the full frames asked   *)
(* for, whatever frames were lost on the way: the window's count and the      *)
(* callback's agree.                                                          *)
BenchComplete ==
  (exit = 0 /\ ~userClosed) =>
    /\ recorded[0] >= PageCount /\ recorded[1] >= PageCount
    /\ recorded[2] = FullFrames

(* In a session without failures each wheel that the window posts to itself  *)
(* is measured by one frame: no stamp is overwritten by the next wheel, kept  *)
(* for a second frame or left over when the frame budget ends the session.    *)
WheelsMeasured ==
  (exit = 0 /\ ~userClosed /\ ~cbFailed /\ lost = 0 /\ log /\ asked < limit) =>
    measured = asked

(* The session ends by itself: lost frames and failed presents are made up    *)
(* for as long as the callback succeeds and the window has a target.          *)
SessionEnds == <>(exit # -1 \/ cbFailed \/ (win = "open" /\ target = NoTarget))
=============================================================================
