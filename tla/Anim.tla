-------------------------------- MODULE Anim --------------------------------
(***************************************************************************)
(* The kernel animation service: anim_tick() in kernel/trap.c, the bouncing*)
(* box of kernel/animation.c, drawing in kernel/fb.c and the calls of      *)
(* kernel/sysproc.c that control it.  Every hart has its own timer, and a  *)
(* timer interrupt that finds the hart in the kernel calls anim_tick()     *)
(* without a lock: the harts' ticks interleave.                            *)
(*                                                                         *)
(* A step makes the accesses of one statement.  The build may interleave   *)
(* them more finely; what these steps can do, it can do.                   *)
(* The framebuffer is its columns: the box is drawn at one height.  The    *)
(* samples dbg_record() keeps of anim_tick_counter are left out.           *)
(***************************************************************************)
EXTENDS Integers

CONSTANTS
  Harts,      \* the harts
  FB_WIDTH,   \* columns of the framebuffer
  w,          \* the width of the box
  Speeds      \* arguments of set_speed within its limits

VARIABLES
  animation_enabled, anim_ticks_per_frame,   \* sysproc.c
  anim_tick_counter,                         \* trap.c
  x, dx, prev_x,                             \* animation.c
  drawn,                                     \* 1 once frame_no is not 0
  fb,                                        \* the columns that are lit
  pc                                         \* where each hart is in anim_tick()

control == <<animation_enabled, anim_ticks_per_frame>>
vars    == <<control, anim_tick_counter, x, dx, prev_x, drawn, fb, pc>>

Init ==
  /\ animation_enabled = 0 /\ anim_ticks_per_frame = 10
  /\ anim_tick_counter = 0
  /\ x = 0 /\ dx = 1 /\ prev_x = 0 /\ drawn = 0 /\ fb = {}
  /\ pc = [h \in Harts |-> "away"]

Go(h, from, to) == pc[h] = from /\ pc' = [pc EXCEPT ![h] = to]

\* The columns of a box at c that are on the screen.
fb_draw_rect(c) == (c..(c + w - 1)) \cap (0..(FB_WIDTH - 1))

----------------------------------------------------------------------------
\* The system calls.

sys_start_anim ==
  /\ animation_enabled' = 1
  /\ UNCHANGED <<anim_ticks_per_frame, anim_tick_counter, x, dx, prev_x, drawn, fb, pc>>

sys_stop_anim ==
  /\ animation_enabled' = 0
  /\ UNCHANGED <<anim_ticks_per_frame, anim_tick_counter, x, dx, prev_x, drawn, fb, pc>>

sys_set_speed(speed) ==
  /\ anim_ticks_per_frame' = speed
  /\ UNCHANGED <<animation_enabled, anim_tick_counter, x, dx, prev_x, drawn, fb, pc>>

----------------------------------------------------------------------------
\* A timer interrupt in the kernel on hart h: kerneltrap() calls anim_tick().

anim_tick(h) ==
  /\ animation_enabled = 1
  /\ anim_tick_counter' = anim_tick_counter + 1
  /\ Go(h, "away", "test")
  /\ UNCHANGED <<control, x, dx, prev_x, drawn, fb>>

anim_tick_test(h) ==
  /\ IF anim_tick_counter < anim_ticks_per_frame
     THEN Go(h, "test", "away") /\ UNCHANGED anim_tick_counter
     ELSE Go(h, "test", "save") /\ anim_tick_counter' = 0
  /\ UNCHANGED <<control, x, dx, prev_x, drawn, fb>>

\* animation_update(): frame_no++ and prev_x = x ...
animation_save(h) ==
  /\ Go(h, "save", "move") /\ drawn' = 1 /\ prev_x' = x
  /\ UNCHANGED <<control, anim_tick_counter, x, dx, fb>>

\* ... x += dx; the speed is never below 1 ...
animation_move(h) ==
  /\ Go(h, "move", "edge") /\ x' = x + dx
  /\ UNCHANGED <<control, anim_tick_counter, dx, prev_x, drawn, fb>>

\* ... and at an edge the box turns round ...
animation_edge(h) ==
  /\ IF x < 0 \/ x + w >= FB_WIDTH
     THEN Go(h, "edge", "back") /\ dx' = -dx
     ELSE Go(h, "edge", "erase") /\ UNCHANGED dx
  /\ UNCHANGED <<control, anim_tick_counter, x, prev_x, drawn, fb>>

\* ... and takes a step back.
animation_back(h) ==
  /\ Go(h, "back", "erase") /\ x' = x + dx
  /\ UNCHANGED <<control, anim_tick_counter, dx, prev_x, drawn, fb>>

\* draw_next_frame().
erase_previous(h) ==
  /\ Go(h, "erase", "draw") /\ fb' = fb \ fb_draw_rect(prev_x)
  /\ UNCHANGED <<control, anim_tick_counter, x, dx, prev_x, drawn>>

draw_next_frame(h) ==
  /\ Go(h, "draw", "away") /\ fb' = fb \cup fb_draw_rect(x)
  /\ UNCHANGED <<control, anim_tick_counter, x, dx, prev_x, drawn>>

Next ==
  \/ sys_start_anim \/ sys_stop_anim \/ \E s \in Speeds : sys_set_speed(s)
  \/ \E h \in Harts :
       \/ anim_tick(h) \/ anim_tick_test(h)
       \/ animation_save(h) \/ animation_move(h) \/ animation_edge(h) \/ animation_back(h)
       \/ erase_previous(h) \/ draw_next_frame(h)

Spec == Init /\ [][Next]_vars

----------------------------------------------------------------------------
\* Properties.

\* What the reports promise of anim_tick(), animation_update() and
\* draw_next_frame(): the box bounces off the edges and erasing it leaves
\* nothing behind.  Between ticks the lit columns are exactly those of a whole
\* box on the screen.
ScreenShowsBox ==
  (drawn = 1 /\ \A h \in Harts : pc[h] = "away") =>
    0 <= x /\ x + w < FB_WIDTH /\ fb = x..(x + w - 1)
=============================================================================
