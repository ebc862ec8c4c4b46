----------------------------- MODULE InputBridge -----------------------------
(***************************************************************************)
(* android/input_bridge.cpp: what the game is told about the controllers.  *)
(* The game's menus only take touches, so the bridge has two modes.  In    *)
(* Normal Mode a button is a key of the game and a trigger an axis of it.  *)
(* In Mouse Mode the d-pad moves a cursor, A is a finger at the cursor and *)
(* the triggers push the right stick sideways.  Select changes the mode,   *)
(* and so do fifteen seconds without input.                                *)
(*                                                                         *)
(* The bridge runs on one thread: SDL's events one by one, then one tick a *)
(* frame (src/main.cpp:500-521).  What is hard is that a control may be    *)
(* held across a change of mode, and a pad may go away.                    *)
(*                                                                         *)
(* Abstractions: up and down are as left and right, the left stick and the *)
(* right stick's y are as its x; a trigger is at rest (below the 0.05      *)
(* floor of line 696), half (up to 16000) or full; where the cursor is,    *)
(* the camera's ramp, the keyboard, the aim tap and the routes of earlier  *)
(* games (symbols this game does not export) are left out, and so are the  *)
(* injected controls of the emulator.                                      *)
(***************************************************************************)
EXTENDS Naturals, Integers

CONSTANTS
    Pads,      \* the controllers that may be plugged in
    Uses,      \* [Pads -> SUBSET Controls]: what the player works on each
    Timeout    \* kMouseModeTimeoutMs, in ticks

Sides   == {"left", "right"}
Pulls   == 0 .. 2
Full    == 2
Dpad(side)     == IF side = "left" THEN "dpad_left" ELSE "dpad_right"
Shoulder(side) == IF side = "left" THEN "L1" ELSE "R1"
Trigger(side)  == IF side = "left" THEN "L2" ELSE "R2"
Toward(side)   == IF side = "left" THEN -1 ELSE 1

\* accept is A, other any button that is only a key of the game.
Buttons  == {"select", "accept", "other", "dpad_left", "dpad_right", "L1", "R1"}
Controls == Buttons \cup {"L2", "R2", "stick"}

\* SDL reports which pad an event came from and the bridge keeps one state for
\* all of them: a control is worked on one pad only, or two pads would
\* disagree about it by design.
ASSUME UsesAssumption ==
    /\ Uses \in [Pads -> SUBSET Controls]
    /\ \A p, q \in Pads : p # q => Uses[p] \cap Uses[q] = {}
ASSUME TimeoutAssumption == Timeout \in Nat \ {0}

VARIABLES
    pad,     \* what the player holds: buttons, triggers, the right stick
    open,    \* g_controllers: the pads the bridge has opened
    s,       \* the bridge's globals
    told     \* what the game was told last: keys, finger, triggers, right x

vars == <<pad, open, s, told>>

AtRest == [held |-> {}, pull |-> [side \in Sides |-> 0], stick |-> 0]

\* enabled is cursor_enabled() (REALRACING3_NO_CURSOR), idle the ticks since
\* g_mouse_mode_last_input_ms, sources the two g_right_x_*_sources, value the
\* two g_l2/r2_value, rx g_rx, last whether the axis was off centre the tick before
\* and prev the one before that; told.moving is a move with no stop after it.
TypeOK ==
    /\ pad \in [Pads -> [held : SUBSET Buttons, pull : [Sides -> Pulls],
                         stick : -1 .. 1]]
    /\ open \subseteq Pads
    /\ s \in [enabled : BOOLEAN, mouse : BOOLEAN, visible : BOOLEAN,
              down : BOOLEAN, dx : -1 .. 1, select_down : BOOLEAN,
              buttons : SUBSET Buttons, idle : 0 .. Timeout,
              sources : [Sides -> SUBSET {"trigger", "shoulder"}],
              value : [Sides -> Pulls], rx : -1 .. 1, last : BOOLEAN, prev : BOOLEAN]
    /\ told \in [keys : SUBSET Buttons, finger : BOOLEAN,
                 trigger : [Sides -> Pulls], right_x : -1 .. 1, moving : BOOLEAN]

Init ==
    /\ pad = [p \in Pads |-> AtRest]
    /\ open \in SUBSET Pads
    /\ \E enabled \in BOOLEAN :
          s = [enabled |-> enabled, mouse |-> FALSE, visible |-> FALSE,
               down |-> FALSE, dx |-> 0, select_down |-> FALSE, buttons |-> {},
               idle |-> 0, sources |-> [side \in Sides |-> {}],
               value |-> [side \in Sides |-> 0], rx |-> 0, last |-> FALSE, prev |-> FALSE]
    /\ told = [keys |-> {}, finger |-> FALSE,
               trigger |-> [side \in Sides |-> 0], right_x |-> 0, moving |-> FALSE]

-----------------------------------------------------------------------------
(* The bridge's functions.  Each maps the globals (and, where it calls the *)
(* game, a pair b of globals and what the game was told) to new ones.      *)

note_input(g) == IF g.mouse THEN [g EXCEPT !.idle = 0] ELSE g

right_axis_button(g, side, source, down) ==
    [note_input(g) EXCEPT
        !.sources[side] = IF down THEN @ \cup {source} ELSE @ \ {source}]

right_stick_x_value(g) ==
    LET pushed == {side \in Sides : g.sources[side] # {}}
    IN  IF pushed = {} THEN g.rx
        ELSE IF pushed = Sides THEN 0
        ELSE Toward(CHOOSE side \in pushed : TRUE)

send_pointer(b, down) == [b EXCEPT !.t.finger = down]

cursor_show(g) == [g EXCEPT !.visible = @ \/ g.enabled]

\* Slip: cursor_hide forgets to lift the finger.
HideWithoutLift(b) ==
    [b EXCEPT !.g.down = FALSE, !.g.visible = FALSE, !.g.dx = 0]

\* Slip: cursor_hide leaves the cursor's speed.
HideWithoutStop(b) ==
    LET lifted == IF b.g.down THEN send_pointer(b, FALSE) ELSE b
    IN  [lifted EXCEPT !.g.down = FALSE, !.g.visible = FALSE]

cursor_hide(b) ==
    LET lifted == IF b.g.down THEN send_pointer(b, FALSE) ELSE b
    IN  [lifted EXCEPT !.g.down = FALSE, !.g.visible = FALSE, !.g.dx = 0]

cursor_tap(b, down) ==
    IF ~b.g.visible THEN b
    ELSE LET noted == [b EXCEPT !.g = note_input(@)]
         IN  IF down = b.g.down THEN noted
             ELSE [send_pointer(noted, down) EXCEPT !.g.down = down]

send_trigger(b, side, value) == [b EXCEPT !.t.trigger[side] = value]

trigger_changed(b, side, value) ==
    LET kept == [b EXCEPT !.g.value[side] = value]
    IN  IF b.g.mouse
        THEN [kept EXCEPT
                !.g = right_axis_button(@, side, "trigger", value = Full)]
        ELSE send_trigger(kept, side, value)

\* Slip: a trigger held on entry keeps its axis as well.
EnterWithoutRelease(b) ==
    LET mouse == [b.g EXCEPT !.mouse = TRUE, !.idle = 0]
        left  == right_axis_button(mouse, "left", "trigger",
                                   b.g.value["left"] = Full)
        right == right_axis_button(left, "right", "trigger",
                                   b.g.value["right"] = Full)
    IN  [g |-> cursor_show(right), t |-> [b.t EXCEPT !.finger = FALSE]]

\* Held triggers move to the right stick's x and back to their own axes.
enter_mouse_mode(b) ==
    LET quiet == send_trigger(send_trigger(b, "left", 0), "right", 0)
        mouse == [quiet.g EXCEPT !.mouse = TRUE, !.idle = 0]
        left  == right_axis_button(mouse, "left", "trigger",
                                   b.g.value["left"] = Full)
        right == right_axis_button(left, "right", "trigger",
                                   b.g.value["right"] = Full)
    IN  [g |-> cursor_show(right), t |-> [quiet.t EXCEPT !.finger = FALSE]]

\* Slip: the triggers stay sources of the right stick.
LeaveWithSources(b) ==
    LET hidden == cursor_hide(b)
        normal == [hidden EXCEPT !.g.mouse = FALSE, !.g.idle = 0]
    IN  trigger_changed(trigger_changed(normal, "left", normal.g.value["left"]),
                        "right", normal.g.value["right"])

leave_mouse_mode(b) ==
    LET left   == right_axis_button(b.g, "left", "trigger", FALSE)
        right  == right_axis_button(left, "right", "trigger", FALSE)
        hidden == cursor_hide([b EXCEPT !.g = right])
        normal == [hidden EXCEPT !.g.mouse = FALSE, !.g.idle = 0]
    IN  trigger_changed(trigger_changed(normal, "left", normal.g.value["left"]),
                        "right", normal.g.value["right"])

set_mouse_mode(b, enabled) ==
    IF b.g.mouse = enabled THEN b
    ELSE IF enabled THEN enter_mouse_mode(b) ELSE leave_mouse_mode(b)

\* Slip: each edge adds to the speed.
SteerByEdges(g, side, down) ==
    [g EXCEPT !.dx = IF down THEN @ + Toward(side) ELSE @ - Toward(side)]

\* The d-pad while the cursor has it: a release stops only its own direction.
steer(g, side, down) ==
    [g EXCEPT !.dx = IF down THEN Toward(side)
                     ELSE IF @ = Toward(side) THEN 0 ELSE @]

select_event(b, down) ==
    LET toggled == IF down /\ ~b.g.select_down
                   THEN set_mouse_mode(b, ~b.g.mouse) ELSE b
    IN  [toggled EXCEPT !.g.select_down = down]

button_event(b, button, down) ==
    LET noted  == note_input([b.g EXCEPT
                    !.buttons = IF down THEN @ \cup {button} ELSE @ \ {button}])
        cursor == noted.mouse /\ noted.enabled
        side   == CHOOSE x \in Sides : button \in {Dpad(x), Shoulder(x)}
    IN  CASE button \in {"L1", "R1"} ->
                [b EXCEPT !.g = right_axis_button(noted, side, "shoulder", down)]
          [] cursor /\ button \in {"dpad_left", "dpad_right"} ->
                [b EXCEPT !.g = steer(noted, side, down)]
          [] cursor /\ button = "accept" ->
                cursor_tap([b EXCEPT !.g = noted], down)
          [] OTHER ->
                [g |-> noted, t |-> [b.t EXCEPT !.keys =
                    IF down THEN @ \cup {button} ELSE @ \ {button}]]

\* Slip: the stop looks one tick back, to where the last move still is.
DispatchOneBack(b) ==
    LET x == right_stick_x_value(b.g)
        move == x # 0 \/ b.g.last
        stop == ~move /\ b.g.last
    IN  [g |-> [b.g EXCEPT !.last = (x # 0), !.prev = b.g.last],
         t |-> IF move \/ stop THEN [b.t EXCEPT !.right_x = x, !.moving = move] ELSE b.t]

\* dispatch_motion: the axis is sent while it or the one before is off centre,
\* so that the centre itself is sent once, and on the tick after a stop.
dispatch_motion(b) ==
    LET x == right_stick_x_value(b.g)
        move == x # 0 \/ b.g.last
        stop == ~move /\ b.g.prev
    IN  [g |-> [b.g EXCEPT !.last = (x # 0), !.prev = b.g.last],
         t |-> IF move \/ stop THEN [b.t EXCEPT !.right_x = x, !.moving = move] ELSE b.t]

\* The stick dismisses a cursor of Normal Mode before it is sent.
update_sticks(b) ==
    dispatch_motion(IF ~b.g.mouse /\ right_stick_x_value(b.g) # 0
                    THEN cursor_hide(b) ELSE b)

input_held(g) ==
    \/ g.buttons # {} \/ g.dx # 0 \/ g.down
    \/ \E side \in Sides : g.sources[side] # {}
    \/ right_stick_x_value(g) # 0

mouse_mode_timeout(b) ==
    IF ~b.g.mouse THEN b
    ELSE IF input_held(b.g) THEN [b EXCEPT !.g.idle = 0]
    ELSE IF b.g.idle >= Timeout THEN set_mouse_mode(b, FALSE)
    ELSE b

-----------------------------------------------------------------------------
Bridge == [g |-> s, t |-> told]
Becomes(b) == s' = b.g /\ told' = b.t

\* A button goes down or comes up on an open pad.
Button(p, button) ==
    LET down == button \notin pad[p].held
    IN  /\ p \in open
        /\ pad' = [pad EXCEPT ![p].held = IF down THEN @ \cup {button}
                                          ELSE @ \ {button}]
        /\ Becomes(IF button = "select" THEN select_event(Bridge, down)
                   ELSE button_event(Bridge, button, down))
        /\ UNCHANGED open

\* A trigger is pulled or let go.
Pull(p, side, value) ==
    /\ p \in open /\ value # pad[p].pull[side]
    /\ pad' = [pad EXCEPT ![p].pull[side] = value]
    /\ Becomes(trigger_changed(Bridge, side, value))
    /\ UNCHANGED open

\* The right stick moves sideways.
Stick(p, x) ==
    /\ p \in open /\ x # pad[p].stick
    /\ pad' = [pad EXCEPT ![p].stick = x]
    /\ s' = LET moved == [s EXCEPT !.rx = x]
            IN  IF x # 0 THEN note_input(moved) ELSE moved
    /\ UNCHANGED <<open, told>>

\* SDL_CONTROLLERDEVICEADDED: open_controller.
Plug(p) ==
    /\ p \notin open
    /\ open' = open \cup {p}
    /\ UNCHANGED <<pad, s, told>>

\* SDL_CONTROLLERDEVICEREMOVED.  SDL centres a pad that goes away and reports
\* its buttons up before it reports the removal, so the pad is at rest here.
\* The first three resets also hit what another pad still holds.
Unplug(p) ==
    LET forgotten == [s EXCEPT !.select_down = FALSE, !.buttons = {},
                               !.sources = [side \in Sides |-> {}]]
        centred   == [forgotten EXCEPT !.rx = 0, !.dx = 0,
                                       !.value = [side \in Sides |-> 0]]
    IN  /\ p \in open /\ pad[p] = AtRest
        /\ open' = open \ {p}
        /\ IF open' # {} THEN s' = forgotten /\ UNCHANGED told
           ELSE LET b == [g |-> centred, t |-> told]
                IN  Becomes(IF s.down THEN cursor_tap(b, FALSE) ELSE b)
        /\ UNCHANGED pad

\* android_input_tick, once a frame after the events.  A tick's worth of time
\* has passed since the last one.
Tick ==
    LET later == IF s.mouse /\ s.idle < Timeout
                 THEN [s EXCEPT !.idle = @ + 1] ELSE s
    IN  /\ Becomes(mouse_mode_timeout(update_sticks([g |-> later, t |-> told])))
        /\ UNCHANGED <<pad, open>>

Next ==
    \/ \E p \in Pads :
          \/ \E button \in Uses[p] \cap Buttons : Button(p, button)
          \/ \E side \in Sides, value \in Pulls :
                Trigger(side) \in Uses[p] /\ Pull(p, side, value)
          \/ \E x \in -1 .. 1 : "stick" \in Uses[p] /\ Stick(p, x)
          \/ Plug(p)
          \/ Unplug(p)
    \/ Tick

\* The frame loop ticks for as long as the game runs; nobody has to press.
Spec == Init /\ [][Next]_vars /\ WF_vars(Tick)

-----------------------------------------------------------------------------
Holding(control) == \E p \in open : control \in pad[p].held

\* How far the player pulls a trigger, whichever pad has it.
Pulled(side) ==
    LET on == {p \in open : pad[p].pull[side] # 0}
    IN  IF on = {} THEN 0 ELSE pad[CHOOSE p \in on : TRUE].pull[side]

\* A finger the game believes to be on the screen is the player's own thumb on
\* A, in Mouse Mode, with the cursor in sight: whatever order the mode, the
\* timeout, the button and the pads' removal come in, no touch is left behind
\* (cursor_hide, cursor_tap, set_mouse_mode).
FingerHeld ==
    /\ told.finger = s.down
    /\ told.finger => s.mouse /\ s.visible /\ Holding("accept")

\* The throttle and the brake the game knows are the ones the player gives in
\* Normal Mode and none in Mouse Mode, also when a trigger is held across the
\* change, in either direction (set_mouse_mode, trigger_changed).
ThrottleFollows ==
    \A side \in Sides :
        told.trigger[side] = IF s.mouse THEN 0 ELSE Pulled(side)

\* The right stick is never pushed sideways by a button nobody holds: a source
\* that stays set would steer the camera, and keep Mouse Mode on, for good
\* (right_axis_button, right_axis_sources_reset).
SourcesHeld ==
    \A side \in Sides :
        /\ "shoulder" \in s.sources[side] => Holding(Shoulder(side))
        /\ "trigger" \in s.sources[side] => s.mouse /\ Pulled(side) = Full

\* The cursor moves only while the d-pad is held that way in Mouse Mode, also
\* when both directions were down and one is let go, or the mode changed
\* meanwhile (the d-pad cases of android_input_event, cursor_hide).
CursorSteered ==
    \A side \in Sides :
        s.dx = Toward(side) => s.mouse /\ s.visible /\ Holding(Dpad(side))

\* Once every pad is let go, the bridge comes to rest too: Normal Mode, the
\* right stick told to be centred and then to have stopped, unless a control is
\* touched again.  Any flag that outlives its control would keep Mouse Mode on
\* (input_held).
Rested == \A p \in Pads : pad[p] = AtRest
Settles ==
    Rested ~> \/ ~Rested
              \/ ~s.mouse /\ ~s.visible /\ told.right_x = 0 /\ ~told.moving

\* The README's table says A is throttle, "digital, full": a key of the game,
\* which the bridge says (line 451) is on "the game's original path" in Normal
\* Mode.  So in Normal Mode no key is down that nobody holds.
NothingStuck ==
    s.mouse \/ \A button \in told.keys : Holding(button)

=============================================================================
