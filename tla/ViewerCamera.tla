---------------------------- MODULE ViewerCamera ----------------------------
(***************************************************************************)
(* Who moves the camera of a viewer: the user, bookmarks that are approached *)
(* by timers, and the renderer of coordinate frames, which follows a frame      *)
(* whenever it is drawn (default_view_handler.c, coord_frames_renderer.c).       *)
(* Positions lie on a line, and a yaw is one of its two directions.               *)
(***************************************************************************)
EXTENDS Integers, Sequences, FiniteSets

CONSTANTS
  DrawnFrames,           \* frames that can be selected
  Bookmarks,        \* numbers of bookmarks
  Remembered,       \* views of earlier sessions that a bookmark may have
  MinDist, MaxDist, \* between which the eye is kept from what it looks at
  Decimate,         \* how far apart the points of a path are, at least
  Room,             \* bound: positions are -Room..Room
  MaxTimers,        \* bound: timers that are pending
  MaxPath,          \* bound: points of the path that are kept
  MaxActions        \* bound: what users do

VARIABLES
  view,             \* eye, lookat and projection
  viewpath,         \* where the camera is moved from and to, and how far it is (0, 1, 2: there)
  timers,           \* how many timers of viewpaths are pending
  bookmarks,        \* the views that were saved, or none
  target,           \* what the view handler last followed: lastpos, lastdir, have_last
  selected,         \* the frame that is drawn, or none
  follow,           \* whether its position and its yaw are followed
  smooth,           \* the smoothed position of the frame, or none
  path,             \* the points drawn for it, newest first
  where,            \* the position and the direction of each frame
  approached,       \* history: the bookmark that was loaded, if nobody else has moved the camera
  actions           \* how much the user did

cameraVars == <<view, viewpath, timers, bookmarks, target, selected, follow, smooth, path, where,
                approached, actions>>
followerVars == <<target, selected, follow, smooth, path, where>>

none == << >>
Positions == -Room .. Room
Abs(n) == IF n < 0 THEN -n ELSE n
Sign(n) == IF n < 0 THEN -1 ELSE 1
Dist(v) == Abs(v.eye - v.lookat)
InRoom(v) == v.eye \in Positions /\ v.lookat \in Positions

\* bot_default_view_handler_new
FirstView == [eye |-> MaxDist, lookat |-> 0, mode |-> "perspective"]

Init ==
  /\ view = FirstView /\ viewpath = [origin |-> FirstView, goal |-> FirstView, done |-> 2]
  /\ timers = 0 /\ bookmarks \in [Bookmarks -> {none} \cup Remembered]
  /\ target = [lastpos |-> 0, lastdir |-> 1, have_last |-> FALSE]
  /\ selected = none /\ follow = [pos |-> TRUE, yaw |-> FALSE] /\ smooth = none /\ path = << >>
  /\ where = [f \in DrawnFrames |-> [pos |-> 0, dir |-> 1]]
  /\ approached = none /\ actions = 0

-----------------------------------------------------------------------------
(* The user *)

\* zoom_ratio refuses a distance out of range; the eye is on a side of what it looks at.
Zoomed(v, by) ==
  IF Dist(v) + by \in MinDist..MaxDist
  THEN [v EXCEPT !.eye = v.lookat + Sign(v.eye - v.lookat) * (Dist(v) + by)] ELSE v

\* window_space_pan, which may refuse
Panned(v) == { v, [v EXCEPT !.eye = @ + 1, !.lookat = @ + 1],
               [v EXCEPT !.eye = @ - 1, !.lookat = @ - 1] }

\* mouse_motion: button 3 turns around what is looked at, button 2 zooms to a distance that is
\* clamped, button 1 pans.
Dragged(v) ==
  {[v EXCEPT !.eye = 2 * v.lookat - v.eye]} \cup Panned(v)
    \cup { [v EXCEPT !.eye = v.lookat + Sign(v.eye - v.lookat) * d] : d \in MinDist..MaxDist }

\* mouse_scroll zooms and pans, key_press zooms.
Scrolled(v) == UNION { {Zoomed(v, by)} \cup Panned(Zoomed(v, by)) : by \in {-1, 1} }

\* on_setview_y_up_item, on_setview_x_up_item
SetView(v) == {[FirstView EXCEPT !.mode = v.mode]}

\* on_find_button
Found(v) ==
  IF path = << >> THEN {}
  ELSE {[v EXCEPT !.eye = path[1].pos + v.eye - v.lookat, !.lookat = path[1].pos]}

\* on_select_perspective_item, on_select_orthographic_item
Projected(v) == { [v EXCEPT !.mode = mode] : mode \in {"perspective", "orthographic"} }

UserActs == actions < MaxActions /\ actions' = actions + 1

MoveCamera ==
  /\ UserActs
  /\ \E v \in Dragged(view) \cup Scrolled(view) \cup SetView(view) \cup Found(view)
                \cup Projected(view) :
       InRoom(v) /\ v # view /\ view' = v
  /\ approached' = none
  /\ UNCHANGED <<viewpath, timers, bookmarks>> /\ UNCHANGED followerVars

\* on_select_bookmark_save_view
SaveView(b) ==
  /\ UserActs /\ bookmarks' = [bookmarks EXCEPT ![b] = view]
  /\ approached' = IF approached = <<b>> THEN none ELSE approached
  /\ UNCHANGED <<view, viewpath, timers>> /\ UNCHANGED followerVars

\* on_select_bookmark_load_view, set_look_at_smooth: a timer that is pending goes on too.
LoadView(b) ==
  /\ UserActs /\ bookmarks[b] # none /\ timers < MaxTimers
  /\ view' = [view EXCEPT !.mode = bookmarks[b].mode]
  /\ viewpath' = [origin |-> view, goal |-> bookmarks[b], done |-> 0]
  /\ timers' = timers + 1 /\ approached' = <<b>>
  /\ UNCHANGED bookmarks /\ UNCHANGED followerVars

-----------------------------------------------------------------------------
(* Timers *)

At(done) ==
  LET Between(from, to) == from + (done * (to - from)) \div 2
  IN  [view EXCEPT !.eye = Between(viewpath.origin.eye, viewpath.goal.eye),
                   !.lookat = Between(viewpath.origin.lookat, viewpath.goal.lookat)]

\* Defect: the timer ends before it has placed the camera.
TickTooLate ==
  \E done \in viewpath.done .. 2 :
    /\ timers > 0 /\ view' = (IF done = 2 THEN view ELSE At(done))
    /\ viewpath' = [viewpath EXCEPT !.done = done]
    /\ timers' = IF done = 2 THEN timers - 1 ELSE timers
    /\ UNCHANGED <<bookmarks, approached, actions>> /\ UNCHANGED followerVars

\* set_look_at_smooth_func; time has passed.
Tick ==
  \E done \in viewpath.done .. 2 :
    /\ timers > 0 /\ view' = At(done) /\ viewpath' = [viewpath EXCEPT !.done = done]
    /\ timers' = IF done = 2 THEN timers - 1 ELSE timers
    /\ UNCHANGED <<bookmarks, approached, actions>> /\ UNCHANGED followerVars

-----------------------------------------------------------------------------
(* The renderer of coordinate frames *)

\* on_param_widget_changed: the menu of frames, and the boxes
SelectFrame(f) ==
  /\ UserActs /\ selected' = f /\ path' = << >> /\ smooth' = none
  /\ UNCHANGED <<view, viewpath, timers, bookmarks, target, follow, where, approached>>

SetFollow(f) ==
  /\ UserActs /\ follow' = f
  /\ UNCHANGED <<view, viewpath, timers, bookmarks, target, selected, smooth, path, where,
                 approached>>

\* on_clear_button
ClearPath ==
  /\ UserActs /\ path' = << >>
  /\ UNCHANGED <<view, viewpath, timers, bookmarks, target, selected, follow, smooth, where,
                 approached>>

\* update_path_hist
PathWith(f, pos) ==
  IF path = << >> \/ Abs(pos - path[1].pos) > Decimate
  THEN SubSeq(<<[frame |-> f, pos |-> pos]>> \o path, 1,
              IF Len(path) < MaxPath THEN Len(path) + 1 ELSE MaxPath)
  ELSE path

\* update_view_follower: a first position is taken as it is, then one in between.
Smoothed(pos) ==
  IF smooth = none THEN {pos}
  ELSE { p \in Positions : \/ p \in smooth[1] .. pos \/ p \in pos .. smooth[1] }

\* update_follow_target: following the yaw turns the camera with the frame. What is looked at
\* comes into the plane of the target first, unless it is looked at along that plane.
Followed(v, pos, dir) ==
  LET turn == target.lastdir * dir
      Turned(p) == pos - turn * (target.lastpos - p)
  IN  IF target.have_last
      THEN IF follow.yaw
           THEN {[v EXCEPT !.eye = Turned(@), !.lookat = Turned(@)]}
           ELSE {[v EXCEPT !.eye = @ + pos - target.lastpos,
                           !.lookat = @ + pos - target.lastpos]}
      ELSE {v, [v EXCEPT !.lookat = target.lastpos]}

\* draw, as often as anything asks for it
Draw ==
  /\ selected # none
  /\ LET f == selected[1]
         pos == where[f].pos
     IN  /\ path' = PathWith(f, pos)
         /\ IF follow.pos
            THEN \E p \in Smoothed(pos) : \E v \in Followed(view, p, where[f].dir) :
                   /\ InRoom(v) /\ smooth' = <<p>> /\ view' = v
                   /\ target' = [lastpos |-> p, lastdir |-> where[f].dir, have_last |-> TRUE]
                   /\ approached' = IF v = view THEN approached ELSE none
            ELSE UNCHANGED <<view, target, smooth, approached>>
  /\ UNCHANGED <<viewpath, timers, bookmarks, selected, follow, where, actions>>

\* A frame moves (frames_update_handler asks for a redraw).
FrameMoves(f) ==
  /\ UserActs
  /\ \E pos \in Positions, dir \in {-1, 1} :
       /\ Abs(pos - where[f].pos) <= 2
       /\ where' = [where EXCEPT ![f] = [pos |-> pos, dir |-> dir]]
  /\ UNCHANGED <<view, viewpath, timers, bookmarks, target, selected, follow, smooth, path,
                 approached>>

Next ==
  \/ MoveCamera \/ Tick \/ Draw \/ ClearPath
  \/ \E b \in Bookmarks : SaveView(b) \/ LoadView(b)
  \/ \E f \in { <<g>> : g \in DrawnFrames } \cup {none} : SelectFrame(f)
  \/ \E f \in [pos : BOOLEAN, yaw : BOOLEAN] : SetFollow(f)
  \/ \E f \in DrawnFrames : FrameMoves(f)

Spec == Init /\ [][Next]_cameraVars

-----------------------------------------------------------------------------
(* Properties *)

\* A bookmark is reached when the last timer has ended, if neither the user nor a frame that is
\* followed has moved the camera since, however many bookmarks were loaded before it was there
\* (set_look_at_smooth_func).
ReachesTheBookmark ==
  approached # none /\ timers = 0 => view = bookmarks[approached[1]]

\* What is drawn for a frame is a path of that frame, as it was decimated.
PathIsOfTheFrame ==
  \A k \in DOMAIN path :
    /\ <<path[k].frame>> = selected
    /\ k > 1 => Abs(path[k].pos - path[k - 1].pos) > Decimate
=============================================================================
