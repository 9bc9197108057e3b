----------------------------- MODULE WindowLoop -----------------------------
(* The window and its message loop: src/src/os/win32/window/window.cc.        *)
(* pc_window_run takes a message, lets WindowProc handle it and then renders  *)
(* a frame; a frame is drawn into the target bitmap and presented, and the    *)
(* frame that uses up TYNYPDF_FRAMES posts WM_CLOSE to the window itself.     *)
(* Every graphics call may fail.  Keys, clicks and characters are modelled in *)
(* FormsKeyboard; here they are messages that only cause a frame.             *)
(*                                                                            *)
(* Windows: posted messages come in order and before WM_QUIT, WM_PAINT comes  *)
(* last and only while a part of the window is invalid; WM_SIZE and           *)
(* WM_DPICHANGED are sent, so they arrive while the loop waits; a change of   *)
(* size invalidates the window (CS_HREDRAW, CS_VREDRAW); destroying a window  *)
(* drops its posted messages, and later calls on its handle do nothing.       *)
EXTENDS Integers, Sequences

CONSTANTS Sizes,        \* sizes of the client area, 0 when it has no area
          Scales,       \* DPI scales
          WheelCounts,  \* values of TYNYPDF_WHEELS
          MaxLost       \* bound on the graphics calls that fail

ASSUME SizesAssumption ==
  Sizes \subseteq Nat /\ WheelCounts \subseteq Nat /\ MaxLost \in Nat

VARIABLES
  win,       \* "none", "open", "destroyed" (no handle any more) or "gone"
  at,        \* where the loop is: "get", "pump", "frame", "callback", "present", "done"
  size,      \* width and height
  scale,     \* dpi_scale
  target,    \* the target bitmap: its size and scale, NoTarget without one
  queue,     \* the posted messages
  dirty,     \* is a part of the window invalid?
  quit,      \* has WM_QUIT been posted?
  wheels,    \* wheels_pending
  limit,     \* frame_limit
  frames,    \* frames_presented
  log,       \* could the log be opened?
  stamp,     \* is a wheel's input_ts_ms waiting for its frame?
  measured,  \* latencies logged
  asked,     \* history: the wheels asked for
  lost       \* history: graphics calls that failed

wvars == <<win, at, size, scale, target, queue, dirty, quit, wheels, limit, frames,
           log, stamp, measured, asked, lost>>

NoTarget == [size |-> 0, scale |-> 0]
Loses == lost < MaxLost /\ lost' = lost + 1

WInit ==
  /\ win = "none" /\ at = "done" /\ size = 0 /\ scale = 0 /\ target = NoTarget
  /\ queue = <<>> /\ dirty = FALSE /\ quit = FALSE /\ wheels = 0 /\ limit = 0
  /\ frames = 0 /\ log = FALSE /\ stamp = FALSE /\ measured = 0 /\ asked = 0 /\ lost = 0

-----------------------------------------------------------------------------
\* pc_window_create with TYNYPDF_FRAMES = n (0: not set)
Create(n) ==
  /\ win = "none"
  /\ win' = "open"
  /\ size' \in Sizes \ {0} /\ scale' \in Scales
  /\ target' = [size |-> size', scale |-> scale']
  /\ log' \in BOOLEAN
  /\ wheels' \in WheelCounts /\ asked' = wheels'
  /\ limit' = IF n = 0 /\ wheels' > 0 THEN wheels' + 1 ELSE n
  /\ UNCHANGED <<at, queue, dirty, quit, frames, stamp, measured, lost>>

\* the window or a step of InitializeGraphics fails
CreateFails ==
  /\ win = "none" /\ Loses
  /\ win' = "gone"
  /\ UNCHANGED <<at, size, scale, target, queue, dirty, quit, wheels, limit, frames,
                 log, stamp, measured, asked>>

\* pc_window_run renders before it waits for a message
RunStart ==
  /\ win = "open" /\ at = "done"
  /\ at' = "frame"
  /\ UNCHANGED <<win, size, scale, target, queue, dirty, quit, wheels, limit, frames,
                 log, stamp, measured, lost, asked>>

-----------------------------------------------------------------------------
\* ResizeSwapchain: the target is dropped before the buffers are resized
Resized(s, d) ==
  \/ s = 0 /\ UNCHANGED <<target, lost>>
  \/ s # 0 /\ target' = [size |-> s, scale |-> d] /\ UNCHANGED lost
  \/ s # 0 /\ target' = NoTarget /\ Loses

Waiting == at = "get" /\ win = "open"

\* WM_SIZE
Sized(s) ==
  /\ Waiting /\ s # size
  /\ size' = s /\ dirty' = TRUE
  /\ Resized(s, scale)
  /\ UNCHANGED <<win, at, scale, queue, quit, wheels, limit, frames, log, stamp, measured, asked>>

\* Fault: the swap chain is resized before the scale is stored
DpiChangedEarly(s, d) ==
  /\ Waiting /\ s # 0 /\ d # scale
  /\ size' = s /\ scale' = d
  /\ dirty' = (dirty \/ s # size)
  /\ Resized(s, scale)
  /\ UNCHANGED <<win, at, queue, quit, wheels, limit, frames, log, stamp, measured, asked>>

\* WM_DPICHANGED: SetWindowPos sends a WM_SIZE, handled with the old scale,
\* before the new scale is stored and the target made once more
DpiChanged(s, d) ==
  /\ Waiting /\ s # 0 /\ d # scale
  /\ size' = s /\ scale' = d
  /\ dirty' = (dirty \/ s # size)
  /\ Resized(s, d)
  /\ UNCHANGED <<win, at, queue, quit, wheels, limit, frames, log, stamp, measured, asked>>

\* a key, a click or a move of the mouse: input comes after what is posted
Input ==
  /\ Waiting /\ queue = <<>>
  /\ at' = "pump"
  /\ UNCHANGED <<win, size, scale, target, queue, dirty, quit, wheels, limit, frames,
                 log, stamp, measured, lost, asked>>

\* the user closes the window
UserCloses ==
  /\ Waiting
  /\ queue' = Append(queue, "close")
  /\ UNCHANGED <<win, at, size, scale, target, dirty, quit, wheels, limit, frames,
                 log, stamp, measured, lost, asked>>

-----------------------------------------------------------------------------
\* WM_MOUSEWHEEL: stamp the arrival, ask for a frame
Wheel ==
  /\ at = "get" /\ queue # <<>> /\ Head(queue) = "wheel"
  /\ queue' = Tail(queue)
  /\ stamp' = TRUE /\ dirty' = TRUE
  /\ at' = "pump"
  /\ UNCHANGED <<win, size, scale, target, quit, wheels, limit, frames, log, measured, lost, asked>>

\* WM_CLOSE: DefWindowProc destroys the window, WM_DESTROY posts WM_QUIT
CloseWindow ==
  /\ at = "get" /\ queue # <<>> /\ Head(queue) = "close"
  /\ win' = "destroyed" /\ quit' = TRUE
  /\ queue' = <<>> /\ dirty' = FALSE
  /\ at' = "pump"
  /\ UNCHANGED <<size, scale, target, wheels, limit, frames, log, stamp, measured, lost, asked>>

\* WM_PAINT validates the window
Paint ==
  /\ at = "get" /\ queue = <<>> /\ ~quit /\ dirty
  /\ dirty' = FALSE
  /\ at' = "pump"
  /\ UNCHANGED <<win, size, scale, target, queue, quit, wheels, limit, frames, log, stamp,
                 measured, lost, asked>>

\* GetMessage answers 0
Quit ==
  /\ at = "get" /\ queue = <<>> /\ quit
  /\ at' = "done"
  /\ UNCHANGED <<win, size, scale, target, queue, dirty, quit, wheels, limit, frames,
                 log, stamp, measured, lost, asked>>

Posted(message) == IF win = "open" THEN Append(queue, message) ELSE queue

\* the loop posts itself one wheel per turn
Pump ==
  /\ at = "pump"
  /\ wheels' = IF wheels > 0 THEN wheels - 1 ELSE wheels
  /\ queue' = IF wheels > 0 THEN Posted("wheel") ELSE queue
  /\ at' = "frame"
  /\ UNCHANGED <<win, size, scale, target, dirty, quit, limit, frames, log, stamp,
                 measured, lost, asked>>

-----------------------------------------------------------------------------
\* RenderFrame without a target: nothing is drawn, nothing is counted
FrameSkipped ==
  /\ at = "frame" /\ target = NoTarget
  /\ at' = "get"
  /\ UNCHANGED <<win, size, scale, target, queue, dirty, quit, wheels, limit, frames,
                 log, stamp, measured, lost, asked>>

\* BeginDraw and Clear, then the callback
FrameBegins ==
  /\ at = "frame" /\ target # NoTarget
  /\ at' = "callback"
  /\ UNCHANGED <<win, size, scale, target, queue, dirty, quit, wheels, limit, frames,
                 log, stamp, measured, lost, asked>>

\* Fault: a callback that succeeded does not ask for the next frame
CallbackReturnsQuietly(ok) ==
  /\ at = "callback"
  /\ at' = IF ok THEN "present" ELSE "get"
  /\ UNCHANGED <<win, size, scale, target, queue, dirty, quit, wheels, limit, frames,
                 log, stamp, measured, lost, asked>>

\* the render callback returns; when it succeeded it has called
\* pc_window_request_redraw
CallbackReturns(ok) ==
  /\ at = "callback"
  /\ at' = IF ok THEN "present" ELSE "get"
  /\ dirty' = (dirty \/ (ok /\ win = "open"))
  /\ UNCHANGED <<win, size, scale, target, queue, quit, wheels, limit, frames,
                 log, stamp, measured, lost, asked>>

\* EndDraw fails: the frame is neither presented nor counted
EndDrawFails ==
  /\ at = "present" /\ Loses
  /\ at' = "get"
  /\ UNCHANGED <<win, size, scale, target, queue, dirty, quit, wheels, limit, frames,
                 log, stamp, measured, asked>>

\* the frame just counted is the last one
AtLimit == limit > 0 /\ frames' >= limit

FrameCounted ==
  /\ queue' = IF AtLimit THEN Posted("close") ELSE queue
  /\ at' = "get"
  /\ UNCHANGED <<win, size, scale, target, dirty, quit, wheels, limit, log, asked>>

\* Fault: the stamp is kept for the next frame as well
PresentedStamped ==
  /\ at = "present"
  /\ frames' = frames + 1
  /\ measured' = IF log /\ stamp THEN measured + 1 ELSE measured
  /\ UNCHANGED <<stamp, lost>>
  /\ FrameCounted

\* Present succeeds; a waiting stamp is logged with the frame
Presented ==
  /\ at = "present"
  /\ frames' = frames + 1
  /\ measured' = IF log /\ stamp THEN measured + 1 ELSE measured
  /\ stamp' = (stamp /\ ~log)
  /\ UNCHANGED lost
  /\ FrameCounted

\* Present fails: the attempt is counted only when there is a log
PresentFails ==
  /\ at = "present" /\ Loses
  /\ frames' = IF log THEN frames + 1 ELSE frames
  /\ UNCHANGED <<measured, stamp>>
  /\ FrameCounted

\* pc_window_destroy
Destroy ==
  /\ win' = "gone"
  /\ UNCHANGED <<at, size, scale, target, queue, dirty, quit, wheels, limit, frames,
                 log, stamp, measured, lost, asked>>

-----------------------------------------------------------------------------
(* The target bitmap, while there is one, has the size and the scale of the   *)
(* window, although WM_DPICHANGED is handled around a WM_SIZE of its own and  *)
(* a resize may fail half-way; only a window without area keeps the old one.  *)
TargetFits == (target # NoTarget /\ size # 0) => target = [size |-> size, scale |-> scale]
=============================================================================
