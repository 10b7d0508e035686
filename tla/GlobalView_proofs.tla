-------------------------- MODULE GlobalView_proofs --------------------------
(* What holds of the shared structure in every interleaving of SpringBoard   *)
(* and the app, for any number of restarts, pages and clicks.                *)
EXTENDS GlobalView, TLAPS

LEMMA InitType == Init => ViewTypeOK
BY OrientationsAssumption, ImagesAssumption
DEF Init, ViewTypeOK, GVData, Host, Button, Process, Page, Request, Count,
    GVDataDefault, Ended, NoPage, NoRequest

(* One case per action; each keeps the types of what it changes. *)
LEMMA StepType == ViewTypeOK /\ [Next]_vars => ViewTypeOK'
<1> SUFFICES ASSUME ViewTypeOK, [Next]_vars PROVE ViewTypeOK'
  OBVIOUS
<1>1. CASE ClickToggles
  BY <1>1 DEF ClickToggles, Toggled, Host, ViewTypeOK, springboard, process
<1>2. CASE ClickShows
  BY <1>2 DEF ClickShows, Host, ViewTypeOK, springboard, process
<1>3. CASE ClickPassedOn
  <2>1. gv' \in GVData
    BY <1>3 DEF ClickPassedOn, GVData, ViewTypeOK
  <2>2. count' \in Count
    BY <1>3 DEF ClickPassedOn, Count, ViewTypeOK
  <2>3. QED
    BY <1>3, <2>1, <2>2 DEF ClickPassedOn, ViewTypeOK, springboard, process
<1>4. CASE AppButton
  BY <1>4 DEF AppButton, Process, ViewTypeOK, springboard, process
<1>5. CASE Start
  <2>1. app' \in Process
    BY <1>5 DEF Start, Ended, Process
  <2>2. count' \in Count
    BY <1>5 DEF Start, Count, ViewTypeOK
  <2>3. QED
    BY <1>5, <2>1, <2>2 DEF Start, ViewTypeOK, springboard
<1>6. CASE Killed
  BY <1>6 DEF Killed, Die, Ended, NoPage, NoRequest, Process, Page, Request, ViewTypeOK, springboard, process
<1>7. CASE MonitorTick
  BY <1>7 DEF MonitorTick, Attached, GVData, Host, ViewTypeOK, springboard, process
<1>8. CASE MonitorClear
  BY <1>8 DEF MonitorClear, GVData, ViewTypeOK, springboard, process
<1>9. CASE MonitorGone
  BY <1>9 DEF MonitorGone, GVData, ViewTypeOK, springboard, process
<1>10. CASE MonitorReset
  BY <1>10 DEF MonitorReset, GVDataDefault, GVData, Host, ViewTypeOK, springboard, process
<1>11. CASE MainTick
  <2>1. gv' \in GVData
    BY <1>11 DEF MainTick, GVData, ViewTypeOK
  <2>2. host' \in Host
    BY <1>11 DEF MainTick, Toggled, Host, ViewTypeOK
  <2>3. button' \in Button
    BY <1>11 DEF MainTick, Running, Button, GVData, ViewTypeOK
  <2>4. QED
    BY <1>11, <2>1, <2>2, <2>3 DEF MainTick, ViewTypeOK, process
<1>12. CASE MainFetched
  BY <1>12 DEF MainFetched, GVData, ViewTypeOK, springboard, process
<1>13. CASE StayAlone
  BY <1>13 DEF StayAlone, Process, ViewTypeOK, springboard, process
<1>14. CASE Map
  BY <1>14, ImagesAssumption DEF Map, GVData, Process, ViewTypeOK, springboard, process
<1>15. CASE SetButtonImage
  BY <1>15 DEF SetButtonImage, GVData, ViewTypeOK, springboard, process
<1>16. CASE AppWindow
  BY <1>16 DEF AppWindow, Process, ViewTypeOK, springboard, process
<1>17. CASE AppTick
  <2>1. gv' \in GVData
    BY <1>17, ZenonT(60) DEF AppTick, Served, GVData, ViewTypeOK
  <2>2. app' \in Process
    <3>1. Handled \in BOOLEAN
      BY DEF Handled, ViewTypeOK, GVData, Process
    <3>2. gv.curOrientation \in Orientations \cup {0}
      BY DEF ViewTypeOK, GVData
    <3>3. QED
      BY <1>17, <3>1, <3>2 DEF AppTick, Followed, Process, ViewTypeOK
  <2>3. QED
    BY <1>17, <2>1, <2>2 DEF AppTick, ViewTypeOK, springboard
<1>18. CASE ScreenLocked
  BY <1>18 DEF ScreenLocked, Die, Ended, NoPage, NoRequest, Process, Page, Request, ViewTypeOK, springboard, process
<1>19. CASE ShowFloatWindow
  BY <1>19 DEF ShowFloatWindow, NoRequest, Process, Request, ViewTypeOK, springboard, process
<1>20. CASE LoadPage
  BY <1>20 DEF LoadPage, Page, ViewTypeOK, springboard, process
<1>21. CASE SetButtonAction
  BY <1>21 DEF SetButtonAction, Page, GVData, ViewTypeOK, springboard, process
<1>22. CASE CallButtonAction
  BY <1>22 DEF CallButtonAction, Count, ViewTypeOK, springboard, process
<1>23. CASE SetWindowVisible
  BY <1>23 DEF SetWindowVisible, Request, ViewTypeOK, springboard, process
<1>24. CASE StoreRequest
  <2>1. request' \in Request
    BY <1>24 DEF StoreRequest, Request, ViewTypeOK
  <2>2. gv' \in GVData
    <3>1. request.visible \in BOOLEAN
      BY DEF Request, ViewTypeOK
    <3>2. \/ gv' = [gv EXCEPT !.setWindowVisible = TRUE]
          \/ gv' = [gv EXCEPT !.windowVisibleState = request.visible]
      BY <1>24 DEF StoreRequest
    <3>3. QED
      BY <3>1, <3>2 DEF GVData, ViewTypeOK
  <2>3. QED
    BY <1>24, <2>1, <2>2 DEF StoreRequest, ViewTypeOK, springboard
<1>25. CASE MonitorRest
  BY <1>25 DEF MonitorRest, ViewTypeOK, process
<1>26. CASE UNCHANGED vars
  BY <1>26 DEF ViewTypeOK, vars, springboard, process
<1>27. QED
  BY <1>1, <1>2, <1>3, <1>4, <1>5, <1>6, <1>7, <1>8, <1>9, <1>10, <1>11, <1>12, <1>13,
     <1>14, <1>15, <1>16, <1>17, <1>18, <1>19, <1>20, <1>21, <1>22, <1>23, <1>24, <1>25, <1>26
  DEF Next, User, SpringBoard, App, Web

(* ViewTypeOK of every reachable state: what the two processes store in the  *)
(* structure stays well typed.                                               *)
THEOREM ViewTypeCorrect == Spec => []ViewTypeOK
<1>1. Init => ViewTypeOK
  BY InitType
<1>2. ViewTypeOK /\ [Next]_vars => ViewTypeOK'
  BY StepType
<1>3. QED
  BY <1>1, <1>2, PTL DEF Spec

-----------------------------------------------------------------------------
(* Only MonitorTick and MonitorGone set viewHosted, with a view; only        *)
(* MonitorReset drops the view, and the flag with it.                        *)
LEMMA StepHosted ==
  ViewTypeOK /\ HostedOnlyWithHost /\ [Next]_vars => HostedOnlyWithHost'
<1> SUFFICES ASSUME ViewTypeOK, HostedOnlyWithHost, [Next]_vars PROVE HostedOnlyWithHost'
  OBVIOUS
<1> USE DEF ViewTypeOK, GVData, Host
<1>1. CASE MonitorTick \/ MonitorGone
  BY <1>1 DEF MonitorTick, MonitorGone, Attached, HostedOnlyWithHost
<1>2. CASE MonitorReset
  BY <1>2 DEF MonitorReset, GVDataDefault, HostedOnlyWithHost
<1>3. CASE ClickToggles \/ ClickShows \/ MainTick
  <2>1. host'.view = "none" => host.view = "none"
    BY <1>3 DEF ClickToggles, ClickShows, MainTick, Toggled
  <2>2. gv'.viewHosted = gv.viewHosted
    BY <1>3 DEF ClickToggles, ClickShows, MainTick
  <2>3. QED
    BY <2>1, <2>2 DEF HostedOnlyWithHost
<1>4. CASE ClickPassedOn \/ MonitorClear \/ MainFetched \/ Map \/ SetButtonImage
           \/ SetButtonAction \/ StoreRequest \/ AppTick
  <2>1. gv'.viewHosted = gv.viewHosted
    BY <1>4 DEF ClickPassedOn, MonitorClear, MainFetched, Map, SetButtonImage,
       SetButtonAction, StoreRequest, AppTick, Served
  <2>2. UNCHANGED host
    BY <1>4 DEF ClickPassedOn, MonitorClear, MainFetched, Map, SetButtonImage,
       SetButtonAction, StoreRequest, AppTick, springboard
  <2>3. QED
    BY <2>1, <2>2 DEF HostedOnlyWithHost
<1>5. CASE AppButton \/ Start \/ Killed \/ ScreenLocked \/ StayAlone \/ AppWindow
           \/ ShowFloatWindow \/ LoadPage \/ CallButtonAction \/ SetWindowVisible
           \/ MonitorRest \/ UNCHANGED vars
  BY <1>5 DEF MonitorRest, AppButton, Start, Killed, ScreenLocked, Die, StayAlone, AppWindow,
     ShowFloatWindow, LoadPage, CallButtonAction, SetWindowVisible, springboard, vars,
     HostedOnlyWithHost
<1>6. QED
  BY <1>1, <1>2, <1>3, <1>4, <1>5 DEF Next, User, SpringBoard, App, Web

(* viewHosted is never set without a hosted view, in every behaviour. *)
THEOREM HostedIsHosted == Spec => []HostedOnlyWithHost
<1>1. Init => HostedOnlyWithHost
  BY DEF Init, HostedOnlyWithHost, GVDataDefault
<1>2. ViewTypeOK /\ HostedOnlyWithHost /\ [Next]_vars => HostedOnlyWithHost'
  BY StepHosted
<1>3. QED
  BY <1>1, <1>2, ViewTypeCorrect, PTL DEF Spec

-----------------------------------------------------------------------------
(* A click that is passed on raises the flag, a tick of the app turns the    *)
(* flag into one block, the block is run once; all else only loses clicks.   *)
LEMMA StepCalls == ViewTypeOK /\ OneCallPerClick /\ [Next]_vars => OneCallPerClick'
<1> SUFFICES ASSUME ViewTypeOK, OneCallPerClick, [Next]_vars PROVE OneCallPerClick'
  OBVIOUS
<1> USE DEF ViewTypeOK, GVData, Count
<1>1. CASE ClickPassedOn
  BY <1>1 DEF ClickPassedOn, process, OneCallPerClick
<1>2. CASE AppTick
  <2>1. UNCHANGED count
    BY <1>2 DEF AppTick
  <2>2. CASE Clicked
    <3>1. ~gv'.floatBtnClick
      BY <1>2, <2>2 DEF AppTick, Served
    <3>2. gv.floatBtnClick /\ posts' \in {posts, posts + 1}
      BY <1>2, <2>2 DEF AppTick, Clicked
    <3>3. QED
      BY <2>1, <3>1, <3>2 DEF OneCallPerClick
  <2>3. CASE ~Clicked
    <3>1. gv'.floatBtnClick <=> gv.floatBtnClick
      BY <1>2, <2>3 DEF AppTick, Served
    <3>2. UNCHANGED posts
      BY <1>2, <2>3 DEF AppTick
    <3>3. QED
      BY <2>1, <3>1, <3>2 DEF OneCallPerClick
  <2>4. QED
    BY <2>2, <2>3
<1>3. CASE CallButtonAction
  BY <1>3 DEF CallButtonAction, OneCallPerClick
<1>4. CASE MonitorReset
  BY <1>4 DEF MonitorReset, GVDataDefault, process, OneCallPerClick
<1>5. CASE Killed \/ ScreenLocked
  BY <1>5 DEF Killed, ScreenLocked, Die, OneCallPerClick
<1>6. CASE MonitorTick \/ MonitorClear \/ MonitorGone \/ MainTick \/ MainFetched
           \/ Map \/ SetButtonImage \/ SetButtonAction \/ StoreRequest
  <2>1. gv'.floatBtnClick = gv.floatBtnClick
    BY <1>6 DEF MonitorTick, MonitorClear, MonitorGone, MainTick, MainFetched, Map,
       SetButtonImage, SetButtonAction, StoreRequest
  <2>2. UNCHANGED <<posts, count>>
    BY <1>6 DEF MonitorTick, MonitorClear, MonitorGone, MainTick, MainFetched, Map,
       SetButtonImage, SetButtonAction, StoreRequest, process
  <2>3. QED
    BY <2>1, <2>2 DEF OneCallPerClick
<1>7. CASE Start
  BY <1>7 DEF Start, OneCallPerClick
<1>8. CASE ClickToggles \/ ClickShows \/ StayAlone \/ AppButton \/ AppWindow
           \/ ShowFloatWindow \/ LoadPage \/ SetWindowVisible \/ MonitorRest
           \/ UNCHANGED vars
  BY <1>8 DEF MonitorRest, ClickToggles, ClickShows, StayAlone, AppButton, AppWindow,
     ShowFloatWindow, LoadPage, SetWindowVisible, process, vars, OneCallPerClick
<1>9. QED
  BY <1>1, <1>2, <1>3, <1>4, <1>5, <1>6, <1>7, <1>8 DEF Next, User, SpringBoard, App, Web

(* No click calls the page's action twice, in every behaviour. *)
THEOREM NoDoubleCall == Spec => []OneCallPerClick
<1>1. Init => OneCallPerClick
  BY DEF Init, OneCallPerClick, GVDataDefault
<1>2. ViewTypeOK /\ OneCallPerClick /\ [Next]_vars => OneCallPerClick'
  BY StepCalls
<1>3. QED
  BY <1>1, <1>2, ViewTypeCorrect, PTL DEF Spec
==============================================================================
