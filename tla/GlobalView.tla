----------------------------- MODULE GlobalView -----------------------------
(* The floating view of the hosted version: SpringBoard shows the app's view *)
(* and the app runs the page. Both poll GVData, a structure that SpringBoard *)
(* owns and the app maps, with timers of 0.1 s and without a lock. Modelled  *)
(* is iOS 13, with a network; the rectangles of GVData are left out.         *)
EXTENDS Integers, FiniteSets

CONSTANTS
  Orientations,   \* the values of activeInterfaceOrientation
  Images,         \* of the floating button
  DefaultImage,   \* the one that comes with the library
  MaxStarts,      \* bound: starts of the app
  MaxPages,       \* bound: pages loaded by one run of the app
  MaxClicks       \* bound: clicks passed on to the app

ASSUME OrientationsAssumption == Orientations \subseteq Nat \ {0} /\ Orientations # {}
ASSUME ImagesAssumption == DefaultImage \in Images /\ "none" \notin Images
ASSUME BoundsAssumption == {MaxStarts, MaxPages, MaxClicks} \subseteq Nat

VARIABLES
  gv,             \* GVSharedData
  host,           \* hostView: none, without a superview (loading), or shown
  sb,             \* where SpringBoard's main thread is in a timer's block
  button,         \* SpringBoard's floatBtn: visible or not, and its icon
  app,            \* the app's main thread and the state its timer keeps
  page,           \* the page loaded, and the page whose callback is gButtonAction
  request,        \* the stores left of a setWindowVisible
  posts,          \* blocks queued on the app's web thread
  count           \* starts (bounded); clicks passed on and calls made (history)

springboard == <<host, sb, button>>
process == <<app, page, request, posts>>
vars == <<gv, springboard, process, count>>

GVDataDefault ==
  [enable |-> FALSE, appLoaded |-> FALSE, viewHosted |-> FALSE,
   floatBtnClick |-> FALSE, customButtonAction |-> FALSE, curOrientation |-> 0,
   setWindowVisible |-> FALSE, windowVisibleState |-> FALSE,
   buttonImage |-> "none"]

(* A process that does not run. *)
Ended == [at |-> "dead", appWindow |-> FALSE, appWindowHandled |-> FALSE,
          lastOrientation |-> 0, statusBarOrientation |-> 0, floatWindow |-> "none"]
NoPage == [loaded |-> 0, gButtonAction |-> 0]
NoRequest == [left |-> {}, visible |-> FALSE]

Init ==
  /\ gv = GVDataDefault
  /\ host = [view |-> "none", hidden |-> FALSE]
  /\ sb = "idle"
  /\ button = [shown |-> FALSE, icon |-> DefaultImage]
  /\ app = Ended /\ page = NoPage
  /\ request = NoRequest /\ posts = 0
  /\ count = [starts |-> 0, clicks |-> 0, calls |-> 0]

Running == app.at # "dead"                        \* appToHost.processState
Mapped == app.at = "mapped"
WebIdle == page.loaded > 0 /\ request.left = {}   \* the app's web thread

-----------------------------------------------------------------------------
(* SpringBoard. Its main thread runs clicks and the blocks of both timers    *)
(* one at a time; the app acts between the accesses of a block.              *)

(* toggleGlobalView. viewForBundleID launches an app that does not run: a    *)
(* Start like any other. The Loading alert only tells the user of "loading". *)
Toggled ==
  CASE host.view = "none" ->
         IF gv.enable THEN [host EXCEPT !.view = "shown"]
                      ELSE [host EXCEPT !.view = "loading"]
    [] host.view = "shown" -> [host EXCEPT !.hidden = ~@]
    [] OTHER -> host

Custom == gv.enable /\ gv.customButtonAction /\ host.view # "none"

(* The action of the floating button: show and hide, or the page's own. *)
ClickToggles ==
  /\ sb = "idle" /\ button.shown /\ ~Custom
  /\ host' = Toggled
  /\ UNCHANGED <<gv, sb, button, process, count>>

ClickShows ==
  /\ sb = "idle" /\ button.shown /\ Custom /\ host.hidden
  /\ host' = [host EXCEPT !.hidden = FALSE]
  /\ UNCHANGED <<gv, sb, button, process, count>>

ClickPassedOn ==
  /\ sb = "idle" /\ button.shown /\ Custom /\ ~host.hidden
  /\ count.clicks < MaxClicks
  /\ gv' = [gv EXCEPT !.floatBtnClick = TRUE]
  /\ count' = [count EXCEPT !.clicks = @ + 1]
  /\ UNCHANGED <<springboard, process>>

(* The timer of toggleGlobalView, while the hosted app runs: attach the view *)
(* of an app that is loaded, and do what setWindowVisible asked.             *)
Attached ==
  IF host.view = "loading" /\ gv.enable /\ gv.appLoaded
  THEN [host EXCEPT !.view = "shown"]
  ELSE host

MonitorTick ==
  /\ sb = "idle" /\ host.view # "none" /\ Running
  /\ gv' = [gv EXCEPT !.viewHosted = TRUE]
  /\ host' = IF gv.setWindowVisible
             THEN [Attached EXCEPT !.hidden = ~gv.windowVisibleState]
             ELSE Attached
  /\ sb' = IF gv.setWindowVisible THEN "clear" ELSE "idle"
  /\ UNCHANGED <<button, process, count>>

MonitorClear ==
  /\ sb = "clear"
  /\ gv' = [gv EXCEPT !.setWindowVisible = FALSE]
  /\ sb' = "idle"
  /\ UNCHANGED <<host, button, process, count>>

(* Mutant: only the view is dropped. *)
MonitorResetView ==
  /\ sb = "gone"
  /\ host' = [host EXCEPT !.view = "none", !.hidden = FALSE]
  /\ sb' = "rest"
  /\ UNCHANGED <<gv, button, process, count>>

(* It finds that the app has ended, *)
MonitorGone ==
  /\ sb = "idle" /\ host.view # "none" /\ ~Running
  /\ gv' = [gv EXCEPT !.viewHosted = TRUE]
  /\ sb' = "gone"
  /\ UNCHANGED <<host, button, process, count>>

(* and starts anew, although the app may meanwhile run again. *)
MonitorReset ==
  /\ sb = "gone"
  /\ gv' = GVDataDefault
  /\ host' = [host EXCEPT !.view = "none", !.hidden = FALSE]
  /\ sb' = "rest"
  /\ UNCHANGED <<button, process, count>>

(* The same block then looks for a request; there is no view left to hide.   *)
MonitorRest ==
  /\ sb = "rest"
  /\ sb' = IF gv.setWindowVisible THEN "clear" ELSE "idle"
  /\ UNCHANGED <<gv, host, button, process, count>>

(* The timer of initload: another app in front dismisses the view, the       *)
(* orientation is published, an image is fetched and then taken away.        *)
MainTick ==
  /\ sb = "idle"
  /\ \E dismiss \in BOOLEAN :
       /\ dismiss => host.view # "none" /\ ~host.hidden
       /\ host' = IF dismiss THEN Toggled ELSE host
  /\ \E o \in Orientations : gv' = [gv EXCEPT !.curOrientation = o]
  /\ button' = [shown |-> Running,
                icon |-> IF gv.buttonImage = "none" THEN button.icon ELSE gv.buttonImage]
  /\ sb' = IF gv.buttonImage = "none" THEN "idle" ELSE "fetched"
  /\ UNCHANGED <<process, count>>

MainFetched ==
  /\ sb = "fetched"
  /\ gv' = [gv EXCEPT !.buttonImage = "none"]
  /\ sb' = "idle"
  /\ UNCHANGED <<host, button, process, count>>

-----------------------------------------------------------------------------
(* The app's main thread. *)
Start ==
  /\ ~Running /\ count.starts < MaxStarts
  /\ \E o \in Orientations :
       app' = [Ended EXCEPT !.at = "boot", !.statusBarOrientation = o]
  /\ count' = [count EXCEPT !.starts = @ + 1]
  /\ UNCHANGED <<gv, springboard, page, request, posts>>

(* SetGlobalView: the structure cannot be mapped, *)
StayAlone ==
  /\ app.at = "boot"
  /\ app' = [app EXCEPT !.at = "alone"]
  /\ UNCHANGED <<gv, springboard, page, request, posts, count>>

(* or it can, with all that earlier runs of the app left in it. *)
Map ==
  /\ app.at = "boot"
  /\ gv' = [gv EXCEPT !.enable = TRUE, !.buttonImage = DefaultImage]
  /\ app' = [app EXCEPT !.at = "mapped"]
  /\ UNCHANGED <<springboard, page, request, posts, count>>

SetButtonImage ==
  /\ Mapped /\ page.loaded > 0
  /\ \E i \in Images : gv' = [gv EXCEPT !.buttonImage = i]
  /\ UNCHANGED <<springboard, process, count>>

(* initload: the app has a key window. *)
AppWindow ==
  /\ Mapped /\ ~app.appWindow
  /\ app' = [app EXCEPT !.appWindow = TRUE]
  /\ UNCHANGED <<gv, springboard, page, request, posts, count>>

(* The app's own button, which touches reach only while it is not hosted. *)
AppButton ==
  /\ Mapped /\ app.appWindow /\ ~gv.viewHosted
  /\ app' = [app EXCEPT !.floatWindow = IF @ = "shown" THEN "hidden" ELSE "shown"]
  /\ UNCHANGED <<gv, springboard, page, request, posts, count>>

(* The app's timer passes a click on: to no thread, if the page has set no   *)
(* action. When the view is hosted for the first time, the window opens.     *)
(* Then the app turns as SpringBoard did, and is loaded once it has.         *)

(* Mutant: a click waits for a page that has set an action. *)
ClickedLate == gv.customButtonAction /\ gv.floatBtnClick /\ page.gButtonAction # 0

Clicked == gv.enable /\ gv.customButtonAction /\ gv.floatBtnClick
Handled == app.appWindowHandled \/ (gv.viewHosted /\ app.appWindow)
Turned == gv.viewHosted /\ app.lastOrientation # gv.curOrientation

Followed ==
  [app EXCEPT !.appWindowHandled = Handled,
              !.floatWindow = IF Handled /\ ~app.appWindowHandled THEN "shown" ELSE @,
              !.lastOrientation = IF Turned THEN gv.curOrientation ELSE @,
              !.statusBarOrientation = IF Turned THEN gv.curOrientation ELSE @]

(* Mutants: the click's flag stays; loading is only looked at when handled. *)
ServedAgain == [gv EXCEPT !.appLoaded = @ \/ Handled]
ServedOnce ==
  [gv EXCEPT
     !.floatBtnClick = @ /\ ~Clicked,
     !.appLoaded = @ \/ (Handled /\ ~app.appWindowHandled
                         /\ Followed.statusBarOrientation = gv.curOrientation)]

Served ==
  [gv EXCEPT
     !.floatBtnClick = @ /\ ~Clicked,
     !.appLoaded = @ \/ (Handled /\ Followed.statusBarOrientation = gv.curOrientation)]

AppTick ==
  /\ Mapped
  /\ app' = Followed
  /\ posts' = IF Clicked /\ page.gButtonAction # 0 THEN posts + 1 ELSE posts
  /\ gv' = Served
  /\ UNCHANGED <<springboard, page, request, count>>

(* The process ends: killed, crashed, or by itself when the screen locks     *)
(* over a hosted view. What it stored stays in SpringBoard.                  *)
Die ==
  /\ app' = Ended /\ page' = NoPage
  /\ request' = NoRequest /\ posts' = 0
  /\ UNCHANGED <<gv, springboard, count>>

Killed == Running /\ Die
ScreenLocked == Mapped /\ gv.viewHosted /\ Die

-----------------------------------------------------------------------------
(* The app's web thread. *)

(* Mutant: the callback of the old page is kept. *)
LoadPageKeepsAction ==
  /\ Mapped /\ request.left = {}
  /\ app.floatWindow # "none"
  /\ page.loaded < MaxPages
  /\ page' = [page EXCEPT !.loaded = @ + 1]
  /\ UNCHANGED <<gv, springboard, app, request, posts, count>>

(* The floating window's page is loaded or reloaded, and the callback of the *)
(* old one dropped; customButtonAction stays.                                *)
LoadPage ==
  /\ Mapped /\ request.left = {}
  /\ app.floatWindow # "none"
  /\ page.loaded < MaxPages
  /\ page' = [loaded |-> page.loaded + 1, gButtonAction |-> 0]
  /\ UNCHANGED <<gv, springboard, app, request, posts, count>>

SetButtonAction ==
  /\ WebIdle
  /\ page' = [page EXCEPT !.gButtonAction = page.loaded]
  /\ gv' = [gv EXCEPT !.customButtonAction = TRUE]
  /\ UNCHANGED <<springboard, app, request, posts, count>>

CallButtonAction ==
  /\ posts > 0 /\ WebIdle
  /\ posts' = posts - 1
  /\ count' = IF page.gButtonAction = 0 THEN count ELSE [count EXCEPT !.calls = @ + 1]
  /\ UNCHANGED <<gv, springboard, app, page, request>>

(* setWindowVisible asks SpringBoard if the view is hosted, and the main     *)
(* thread if not. A page makes the next request when this one is made.       *)
SetWindowVisible ==
  /\ WebIdle
  /\ \E visible \in BOOLEAN :
       request' = [left |-> IF gv.enable /\ gv.viewHosted THEN {"flag", "state"}
                                                          ELSE {"show"},
                   visible |-> visible]
  /\ UNCHANGED <<gv, springboard, app, page, posts, count>>

(* Nothing orders the two stores for the other processor. *)
StoreRequest ==
  /\ \E s \in request.left \ {"show"} :
       /\ request' = [request EXCEPT !.left = @ \ {s}]
       /\ gv' = IF s = "flag" THEN [gv EXCEPT !.setWindowVisible = TRUE]
                              ELSE [gv EXCEPT !.windowVisibleState = request.visible]
  /\ UNCHANGED <<springboard, app, page, posts, count>>

ShowFloatWindow ==
  /\ Mapped /\ "show" \in request.left
  /\ app' = [app EXCEPT !.floatWindow = IF request.visible THEN "shown" ELSE "hidden"]
  /\ request' = NoRequest
  /\ UNCHANGED <<gv, springboard, page, posts, count>>

-----------------------------------------------------------------------------
User == ClickToggles \/ ClickShows \/ ClickPassedOn
        \/ AppButton \/ Start \/ Killed
SpringBoard == MonitorTick \/ MonitorClear \/ MonitorGone \/ MonitorReset
               \/ MonitorRest \/ MainTick \/ MainFetched
App == StayAlone \/ Map \/ SetButtonImage \/ AppWindow \/ AppTick
       \/ ScreenLocked \/ ShowFloatWindow
Web == LoadPage \/ SetButtonAction \/ CallButtonAction \/ SetWindowVisible
       \/ StoreRequest
Next == User \/ SpringBoard \/ App \/ Web

Spec == Init /\ [][Next]_vars

(* Timers repeat, and SpringBoard's run loop serves both of its own when     *)
(* they are due: neither keeps the other away for ever. A block once begun   *)
(* runs to its end. The user and the page are not fair.                      *)
Fairness ==
  /\ SF_vars(MonitorTick \/ MonitorGone)
  /\ SF_vars(MainTick)
  /\ WF_vars(MonitorClear \/ MonitorReset \/ MonitorRest \/ MainFetched)
  /\ WF_vars(Map \/ StayAlone) /\ WF_vars(AppWindow) /\ WF_vars(AppTick)

FairSpec == Spec /\ Fairness

-----------------------------------------------------------------------------
GVData ==
  [enable : BOOLEAN, appLoaded : BOOLEAN, viewHosted : BOOLEAN,
   floatBtnClick : BOOLEAN, customButtonAction : BOOLEAN,
   curOrientation : Orientations \cup {0},
   setWindowVisible : BOOLEAN, windowVisibleState : BOOLEAN,
   buttonImage : Images \cup {"none"}]
Host == [view : {"none", "loading", "shown"}, hidden : BOOLEAN]
Button == [shown : BOOLEAN, icon : Images]
Process ==
  [at : {"dead", "boot", "alone", "mapped"}, appWindow : BOOLEAN, appWindowHandled : BOOLEAN,
   lastOrientation : Orientations \cup {0}, statusBarOrientation : Orientations \cup {0},
   floatWindow : {"none", "hidden", "shown"}]
Page == [loaded : Nat, gButtonAction : Nat]
Request == [left : SUBSET {"flag", "state", "show"}, visible : BOOLEAN]
Count == [starts : Nat, clicks : Nat, calls : Nat]

(* Every variable keeps its type, whatever the two processes store; a        *)
(* registered callback is one of the page that is loaded.                    *)
ViewTypeOK ==
  /\ gv \in GVData
  /\ host \in Host /\ button \in Button
  /\ sb \in {"idle", "gone", "rest", "clear", "fetched"}
  /\ app \in Process /\ page \in Page /\ request \in Request /\ posts \in Nat
  /\ count \in Count
  /\ page.gButtonAction \in {0, page.loaded}

(* The app takes viewHosted as a reason to exit when the screen locks, and   *)
(* to leave its window to SpringBoard: the flag is never set without a       *)
(* hosted view, whatever ends or restarts the app.                           *)
HostedOnlyWithHost == host.view = "none" => ~gv.viewHosted

(* A click on the floating button calls the page's action once at most,      *)
(* although it is passed on through a flag, a timer and a queue, and pages   *)
(* and processes come and go.                                                *)
OneCallPerClick ==
  count.calls + posts + (IF gv.floatBtnClick THEN 1 ELSE 0) <= count.clicks

(* The view of an app that has mapped the structure is shown in the end, or  *)
(* given up because the app ended: it does not stay behind the Loading alert.*)
LoadingEnds ==
  (host.view = "loading" /\ gv.enable) ~> (host.view # "loading" \/ app.at = "alone")

(* A click and a request for visibility, once flagged, are taken by the      *)
(* other process, or given up with the view of an app that has ended.        *)
RequestsServed ==
  /\ gv.floatBtnClick ~> (~gv.floatBtnClick \/ app.at = "alone")
  /\ (gv.setWindowVisible /\ host.view # "none") ~> ~gv.setWindowVisible

(* setWindowVisible sets the visibility of the hosted view: SpringBoard does *)
(* not drop the flag of a request (line 293) that is made in full, unless    *)
(* the view is as it wants.                                                  *)
VisibleAsAsked ==
  [][gv.setWindowVisible /\ ~gv'.setWindowVisible
     /\ host'.view # "none" /\ request.left = {} /\ Mapped
     => host.hidden = ~gv.windowVisibleState]_vars
=============================================================================
