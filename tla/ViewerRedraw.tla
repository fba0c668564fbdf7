---------------------------- MODULE ViewerRedraw ----------------------------
(***************************************************************************)
(* When the viewer draws (viewer.c): requests are drawn at most 30 times a   *)
(* second, those that come too soon by a timer, and while a movie is made    *)
(* only when a frame of it is due.                                           *)
(***************************************************************************)
EXTENDS Naturals

VARIABLES
  invalidated,           \* GTK owes the drawing area an expose event
  recent,                \* less than 1/MAX_REDRAW_HZ since last_draw_utime
  redraw_timer_pending,
  timers,                \* sources of on_redraw_timer
  is_recording,          \* also: movie_gzf is open
  movie_draw_pending,
  record_button,         \* it is active
  movie_buffer,          \* it is allocated
  movie_path,            \* "none" yet, "held", or "freed" and still pointed to
  undrawn,               \* something has changed that no drawing shows (history)
  passed_over,           \* an expose event since then was dropped for a movie (history)
  by_program,            \* a program has started or stopped a movie (history)
  viewer_crashed         \* movie_path was freed twice, or an assertion failed

redrawVars == <<invalidated, recent, redraw_timer_pending, timers>>
buttonVars == <<record_button, movie_buffer, movie_path, by_program, viewer_crashed>>
movieVars == <<is_recording, movie_draw_pending, buttonVars>>
vars == <<redrawVars, movieVars, undrawn, passed_over>>

\* bot_viewer_init ends with a request for a redraw.
Init ==
  /\ invalidated = TRUE /\ undrawn = TRUE /\ recent = FALSE
  /\ redraw_timer_pending = FALSE /\ timers = 0
  /\ is_recording = FALSE /\ movie_draw_pending = FALSE /\ passed_over = FALSE
  /\ record_button = FALSE /\ movie_buffer = FALSE /\ movie_path = "none"
  /\ by_program = FALSE /\ viewer_crashed = FALSE

\* bot_viewer_request_redraw by anything that has changed.
RequestRedraw ==
  /\ invalidated' = TRUE /\ undrawn' = TRUE /\ passed_over' = FALSE
  /\ UNCHANGED <<recent, redraw_timer_pending, timers, movieVars>>

\* on_gl_expose, too soon
Postpone ==
  /\ IF redraw_timer_pending THEN UNCHANGED <<redraw_timer_pending, timers>>
     ELSE redraw_timer_pending' = TRUE /\ timers' = timers + 1
  /\ UNCHANGED <<recent, movieVars, undrawn, passed_over>>

\* on_gl_expose; a movie takes in no more frames than it is to have, and what is asked for
\* in between is not drawn although it counts as drawn for the next delay.
Draw ==
  /\ recent' = TRUE
  /\ LET drawn == ~is_recording \/ movie_draw_pending
     IN  /\ undrawn' = (undrawn /\ ~drawn) /\ passed_over' = ~drawn
         /\ movie_draw_pending' = (movie_draw_pending /\ ~drawn)
  /\ UNCHANGED <<redraw_timer_pending, timers, is_recording, buttonVars>>

OnGlExpose ==
  /\ invalidated /\ invalidated' = FALSE
  /\ IF recent THEN Postpone ELSE Draw

TimePasses ==
  /\ recent /\ recent' = FALSE
  /\ UNCHANGED <<invalidated, redraw_timer_pending, timers, movieVars, undrawn, passed_over>>

\* Defect: the timer that has fired counts as pending.
OnRedrawTimerOnce ==
  /\ timers > 0 /\ timers' = timers - 1
  /\ invalidated' = TRUE
  /\ UNCHANGED <<recent, redraw_timer_pending, movieVars, undrawn, passed_over>>

OnRedrawTimer ==
  /\ timers > 0 /\ timers' = timers - 1
  /\ redraw_timer_pending' = FALSE
  /\ invalidated' = TRUE
  /\ UNCHANGED <<recent, movieVars, undrawn, passed_over>>

\* on_render_timer, when a frame is due; otherwise it does nothing.
OnRenderTimer ==
  /\ is_recording
  /\ movie_draw_pending' = TRUE /\ invalidated' = TRUE
  /\ UNCHANGED <<recent, redraw_timer_pending, timers, is_recording, buttonVars, undrawn,
                 passed_over>>

-----------------------------------------------------------------------------
(* Movies: what they do when the record button is as given.  That they set it inactive calls  *)
(* on_record_toggled, if it was active.                                                      *)

Crash ==
  /\ viewer_crashed' = TRUE
  /\ UNCHANGED <<is_recording, movie_draw_pending, record_button, movie_buffer, movie_path>>

\* The buffer of a start that failed is still there, which an assertion denies in the builds
\* that have assertions; or the file is opened, or not.  In the last case the button, if it is
\* active, is set inactive, which stops what has not begun.
StartRecording(button) ==
  \/ movie_buffer /\ Crash
  \/ /\ is_recording' = TRUE /\ record_button' = button
     /\ movie_buffer' = TRUE /\ movie_path' = "held"
     /\ UNCHANGED <<movie_draw_pending, viewer_crashed>>
  \/ /\ record_button' = FALSE
     /\ movie_buffer' = ~button /\ movie_path' = IF button THEN "freed" ELSE "held"
     /\ movie_draw_pending' = (movie_draw_pending /\ ~button)
     /\ UNCHANGED <<is_recording, viewer_crashed>>

\* It asks for no redraw.  If the button is active it is called again from on_record_toggled
\* and frees movie_path once more.
StopRecording(button) ==
  IF movie_path = "freed" \/ button THEN Crash
  ELSE /\ is_recording' = FALSE /\ movie_draw_pending' = FALSE /\ record_button' = FALSE
       /\ movie_buffer' = FALSE
       /\ movie_path' = IF movie_path = "held" THEN "freed" ELSE "none"
       /\ UNCHANGED viewer_crashed

\* The user presses the record button.
OnRecordToggled ==
  /\ IF ~record_button /\ ~is_recording THEN StartRecording(TRUE)
     ELSE StopRecording(~record_button)
  /\ UNCHANGED <<redrawVars, undrawn, passed_over, by_program>>

\* bot_viewer_start_recording and bot_viewer_stop_recording, called by a program; a movie that
\* is being made is not started again.
Program ==
  /\ by_program' = TRUE
  /\ \/ /\ is_recording
        /\ UNCHANGED <<is_recording, movie_draw_pending, record_button, movie_buffer, movie_path,
                       viewer_crashed>>
     \/ ~is_recording /\ StartRecording(record_button)
     \/ StopRecording(record_button)
  /\ UNCHANGED <<redrawVars, undrawn, passed_over>>

Next ==
  /\ ~viewer_crashed
  /\ \/ RequestRedraw \/ OnGlExpose \/ TimePasses \/ OnRedrawTimer
     \/ OnRenderTimer \/ OnRecordToggled \/ Program

Spec == Init /\ [][Next]_vars

-----------------------------------------------------------------------------
(* Properties. *)

\* A change that is not drawn has something coming that will draw it: an expose event, or the
\* one timer; the flags say so truly (on_gl_expose, on_redraw_timer).  The exception is a change
\* whose last expose event was dropped because a movie was being made: the next frame of the
\* movie draws it, but if the movie is stopped before, nothing does until something else
\* asks for a redraw.
NoRedrawForgotten ==
  /\ undrawn => invalidated \/ timers > 0 \/ passed_over
  /\ timers = IF redraw_timer_pending THEN 1 ELSE 0
  /\ movie_draw_pending => is_recording /\ (invalidated \/ timers > 0)

\* As long as only the record button starts and stops movies, whether or not their files can
\* be opened, it is active exactly while one is made and nothing is freed twice
\* (on_record_toggled, bot_viewer_stop_recording).
ButtonIsSafe ==
  ~by_program =>
    /\ ~viewer_crashed /\ (record_button <=> is_recording)
    /\ (movie_buffer <=> is_recording) /\ (movie_path = "held" <=> is_recording)
=============================================================================
