------------------------- MODULE InputBridgeProofs -------------------------
(***************************************************************************)
(* Proofs about the input bridge, for any pads, any way the controls are   *)
(* spread over them and any timeout: the finger, the throttle, the right   *)
(* stick and the cursor answer to what the player holds, across every      *)
(* change of mode and every pad that goes away.                            *)
(***************************************************************************)
EXTENDS InputBridge, TLAPS

-----------------------------------------------------------------------------
(* The inductive invariant.                                                *)

Globals ==
    [enabled : BOOLEAN, mouse : BOOLEAN, visible : BOOLEAN, down : BOOLEAN,
     dx : -1 .. 1, select_down : BOOLEAN, buttons : SUBSET Buttons, idle : 0 .. Timeout,
     sources : [Sides -> SUBSET {"trigger", "shoulder"}],
     value : [Sides -> Pulls], rx : -1 .. 1,
     last : BOOLEAN, prev : BOOLEAN]

Tellings ==
    [keys : SUBSET Buttons, finger : BOOLEAN, trigger : [Sides -> Pulls], right_x : -1 .. 1,
     moving : BOOLEAN]

\* A pair the bridge's functions may be given.
Typed(b) == b \in [g : Globals, t : Tellings]

\* What the bridge's globals and the game's view of them say of one another,
\* whatever the player does.
Coherent(b) ==
    /\ b.g.visible = (b.g.mouse /\ b.g.enabled)
    /\ b.t.finger = b.g.down
    /\ b.g.down \/ b.g.dx # 0 => b.g.visible
    /\ \A side \in Sides :
        /\ b.t.trigger[side] = IF b.g.mouse THEN 0 ELSE b.g.value[side]
        /\ "trigger" \in b.g.sources[side] => b.g.mouse /\ b.g.value[side] = Full

\* A pad that is not open is at rest, and each pad has only its own controls.
PadsKnown ==
    /\ pad \in [Pads -> [held : SUBSET Buttons, pull : [Sides -> Pulls], stick : -1 .. 1]]
    /\ open \subseteq Pads
    /\ \A p \in Pads \ open : pad[p] = AtRest
    /\ \A p \in Pads, side \in Sides : pad[p].pull[side] # 0 => Trigger(side) \in Uses[p]

\* What the bridge keeps of a control is what the player does with it.
Follows ==
    /\ s.down => Holding("accept")
    /\ \A side \in Sides :
        /\ s.dx = Toward(side) => Holding(Dpad(side))
        /\ "shoulder" \in s.sources[side] => Holding(Shoulder(side))
        /\ s.value[side] = Pulled(side)

BridgeInv == Typed(Bridge) /\ Coherent(Bridge) /\ PadsKnown /\ Follows

-----------------------------------------------------------------------------
(* One field at a time.                                                    *)

Pairs == [g : Globals, t : Tellings]

LEMMA Facts ==
    /\ Timeout \in Nat /\ 0 \in 0 .. Timeout
    /\ Pulls = {0, 1, 2} /\ Full = 2 /\ Sides = {"left", "right"}
    /\ -1 .. 1 = {-1, 0, 1}
    /\ Toward("left") = -1 /\ Toward("right") = 1
<1>1. Timeout \in Nat /\ 0 \in 0 .. Timeout
  BY TimeoutAssumption
<1> QED
  BY <1>1 DEF Pulls, Full, Sides, Toward

\* A global or a told value changes within its type.
LEMMA GlobalChange ==
    ASSUME NEW g \in Globals
    PROVE  /\ \A x \in BOOLEAN : /\ [g EXCEPT !.mouse = x] \in Globals
                                 /\ [g EXCEPT !.visible = x] \in Globals
                                 /\ [g EXCEPT !.down = x] \in Globals
                                 /\ [g EXCEPT !.select_down = x] \in Globals
                                 /\ \A y \in BOOLEAN :
                                       [g EXCEPT !.last = x, !.prev = y] \in Globals
           /\ \A x \in -1 .. 1 : /\ [g EXCEPT !.dx = x] \in Globals
                                 /\ [g EXCEPT !.rx = x] \in Globals
           /\ \A x \in SUBSET Buttons : [g EXCEPT !.buttons = x] \in Globals
           /\ \A x \in 0 .. Timeout : [g EXCEPT !.idle = x] \in Globals
           /\ \A x \in [Sides -> SUBSET {"trigger", "shoulder"}] :
                [g EXCEPT !.sources = x] \in Globals
           /\ \A x \in [Sides -> Pulls] : [g EXCEPT !.value = x] \in Globals
BY DEF Globals

LEMMA TellingChange ==
    ASSUME NEW t \in Tellings
    PROVE  /\ \A x \in BOOLEAN : [t EXCEPT !.finger = x] \in Tellings
           /\ \A x \in SUBSET Buttons : [t EXCEPT !.keys = x] \in Tellings
           /\ \A x \in -1 .. 1, y \in BOOLEAN :
                 [t EXCEPT !.right_x = x, !.moving = y] \in Tellings
           /\ \A x \in [Sides -> Pulls] : [t EXCEPT !.trigger = x] \in Tellings
BY DEF Tellings

\* What the invariant speaks of is the same in two states of the globals.
Alike(g, h) ==
    /\ h.enabled = g.enabled /\ h.mouse = g.mouse /\ h.visible = g.visible
    /\ h.down = g.down /\ h.dx = g.dx /\ h.sources = g.sources /\ h.value = g.value

\* Nothing the player must be holding for was added.
Calmer(g, h) ==
    /\ h.enabled = g.enabled /\ h.value = g.value
    /\ h.down => g.down
    /\ h.dx # 0 => h.dx = g.dx
    /\ \A side \in Sides : "shoulder" \in h.sources[side] => "shoulder" \in g.sources[side]

LEMMA NoteInput ==
    ASSUME NEW g \in Globals
    PROVE  note_input(g) \in Globals /\ Alike(g, note_input(g))
<1>1. [g EXCEPT !.idle = 0] \in Globals
  BY Facts, GlobalChange
<1> QED
  BY <1>1 DEF note_input, Alike, Globals

\* One source of one side comes or goes.
LEMMA AxisButton ==
    ASSUME NEW g \in Globals, NEW side \in Sides, NEW source \in {"trigger", "shoulder"},
           NEW down \in BOOLEAN
    PROVE  LET h == right_axis_button(g, side, source, down)
           IN  /\ h \in Globals
               /\ h.enabled = g.enabled /\ h.mouse = g.mouse /\ h.visible = g.visible
               /\ h.down = g.down /\ h.dx = g.dx /\ h.value = g.value
               /\ h.sources = [g.sources EXCEPT ![side] = IF down THEN @ \cup {source}
                                                          ELSE @ \ {source}]
<1> DEFINE n   == note_input(g)
           new == [g.sources EXCEPT ![side] = IF down THEN @ \cup {source} ELSE @ \ {source}]
           h   == right_axis_button(g, side, source, down)
<1>1. n \in Globals /\ Alike(g, n)
  BY NoteInput
<1>2. new \in [Sides -> SUBSET {"trigger", "shoulder"}]
  BY DEF Globals
<1>3. h = [n EXCEPT !.sources = new]
  <2>1. h = [n EXCEPT !.sources = [n.sources EXCEPT ![side] = IF down THEN @ \cup {source}
                                                              ELSE @ \ {source}]]
    BY DEF right_axis_button
  <2> QED
    BY <1>1, <2>1 DEF Alike
<1> HIDE DEF n, new, h
<1>4. h \in Globals
  BY <1>1, <1>2, <1>3, GlobalChange
<1>5. /\ h.enabled = n.enabled /\ h.mouse = n.mouse /\ h.visible = n.visible
      /\ h.down = n.down /\ h.dx = n.dx /\ h.value = n.value /\ h.sources = new
  BY <1>1, <1>3 DEF Globals
<1> QED
  BY <1>1, <1>4, <1>5 DEF Alike, h, new

\* The halves of a pair.
LEMMA Halves ==
    ASSUME NEW b \in Pairs
    PROVE  /\ b.g \in Globals /\ b.t \in Tellings
           /\ \A h \in Globals : /\ [b EXCEPT !.g = h] \in Pairs
                                 /\ [b EXCEPT !.g = h].g = h /\ [b EXCEPT !.g = h].t = b.t
           /\ \A t \in Tellings : /\ [b EXCEPT !.t = t] \in Pairs
                                  /\ [b EXCEPT !.t = t].t = t /\ [b EXCEPT !.t = t].g = b.g
           /\ \A h \in Globals, t \in Tellings : [g |-> h, t |-> t] \in Pairs
BY DEF Pairs

\* cursor_hide takes the finger, the cursor and its speed away.
LEMMA CursorHide ==
    ASSUME NEW b \in Pairs, b.t.finger = b.g.down
    PROVE  LET c == cursor_hide(b)
           IN  /\ c \in Pairs
               /\ ~c.g.down /\ ~c.g.visible /\ c.g.dx = 0 /\ ~c.t.finger
               /\ c.g.enabled = b.g.enabled /\ c.g.mouse = b.g.mouse
               /\ c.g.sources = b.g.sources /\ c.g.value = b.g.value
               /\ c.t.trigger = b.t.trigger
<1> DEFINE lifted == IF b.g.down THEN send_pointer(b, FALSE) ELSE b
           h1 == [b.g EXCEPT !.down = FALSE]
           h2 == [h1 EXCEPT !.visible = FALSE]
           h3 == [h2 EXCEPT !.dx = 0]
           c  == cursor_hide(b)
<1>1. /\ lifted \in Pairs /\ lifted.g = b.g /\ ~lifted.t.finger
      /\ lifted.t.trigger = b.t.trigger
  <2>1. [b.t EXCEPT !.finger = FALSE] \in Tellings
    BY Halves, TellingChange
  <2>2. send_pointer(b, FALSE) = [b EXCEPT !.t = [b.t EXCEPT !.finger = FALSE]]
    BY DEF send_pointer
  <2>3. b.t \in Tellings /\ b.g \in Globals
    BY Halves
  <2>4. CASE b.g.down
    <3> DEFINE ft == [b.t EXCEPT !.finger = FALSE]
    <3>1. lifted = [b EXCEPT !.t = ft] /\ ~ft.finger /\ ft.trigger = b.t.trigger
      BY <2>2, <2>3, <2>4 DEF Tellings
    <3> HIDE DEF ft, lifted
    <3>2. ft \in Tellings
      BY <2>1 DEF ft
    <3> QED
      BY <3>1, <3>2, Halves
  <2>5. CASE ~b.g.down
    BY <2>3, <2>5
  <2> QED
    BY <2>4, <2>5
<1>2. h1 \in Globals /\ h2 \in Globals /\ h3 \in Globals
  <2>1. h1 \in Globals
    BY Halves, GlobalChange
  <2>2. h2 \in Globals
    <3> HIDE DEF h1
    <3> QED
      BY <2>1, GlobalChange
  <2>3. h3 \in Globals
    <3> HIDE DEF h2
    <3> QED
      BY <2>2, GlobalChange, Facts
  <2> QED
    BY <2>1, <2>2, <2>3
<1>3. /\ ~h3.down /\ ~h3.visible /\ h3.dx = 0
      /\ h3.enabled = b.g.enabled /\ h3.mouse = b.g.mouse
      /\ h3.sources = b.g.sources /\ h3.value = b.g.value
  BY Halves DEF Globals
<1>4. c = [lifted EXCEPT !.g = h3]
  <2> DEFINE c1 == [lifted EXCEPT !.g = [lifted.g EXCEPT !.down = FALSE]]
             c2 == [c1 EXCEPT !.g = [c1.g EXCEPT !.visible = FALSE]]
             c3 == [c2 EXCEPT !.g = [c2.g EXCEPT !.dx = 0]]
  <2>1. c = c3
    BY DEF cursor_hide
  <2> HIDE DEF h3, h2, h1, lifted, c
  <2>2. c1 \in Pairs /\ c1.g = h1 /\ c1.t = lifted.t
    <3>1. c1 = [lifted EXCEPT !.g = h1]
      BY <1>1 DEF h1
    <3> HIDE DEF c1
    <3> QED
      BY <1>1, <1>2, <3>1, Halves
  <2>3. c2 \in Pairs /\ c2.g = h2 /\ c2.t = lifted.t
    <3>1. c2 = [c1 EXCEPT !.g = h2]
      <4> HIDE DEF c1
      <4> QED
        BY <2>2 DEF h2
    <3> HIDE DEF c1, c2
    <3> QED
      BY <1>2, <2>2, <3>1, Halves
  <2>4. c3 \in Pairs /\ c3.g = h3 /\ c3.t = lifted.t
    <3>1. c3 = [c2 EXCEPT !.g = h3]
      <4> HIDE DEF c2
      <4> QED
        BY <2>3 DEF h3
    <3> HIDE DEF c2, c3
    <3> QED
      BY <1>2, <2>3, <3>1, Halves
  <2>5. [lifted EXCEPT !.g = h3] \in Pairs /\ [lifted EXCEPT !.g = h3].g = h3
        /\ [lifted EXCEPT !.g = h3].t = lifted.t
    BY <1>1, <1>2, Halves
  <2> HIDE DEF c3
  <2> QED
    BY <2>1, <2>4, <2>5 DEF Pairs
<1>5. c \in Pairs /\ c.g = h3 /\ c.t = lifted.t
  <2> HIDE DEF h3, lifted, c
  <2> QED
    BY <1>1, <1>2, <1>4, Halves
<1> HIDE DEF h3, lifted
<1> QED
  BY <1>1, <1>3, <1>5

-----------------------------------------------------------------------------
(* The bridge's functions.                                                 *)

\* cursor_tap puts the finger where the cursor is, if there is one.
LEMMA CursorTap ==
    ASSUME NEW b \in Pairs, NEW down \in BOOLEAN, b.t.finger = b.g.down
    PROVE  LET c == cursor_tap(b, down)
           IN  /\ c \in Pairs
               /\ b.g.visible => c.g.down = down
               /\ ~b.g.visible => c.g.down = b.g.down
               /\ b.g.visible => c.g.visible
               /\ c.t.finger = c.g.down
               /\ c.g.enabled = b.g.enabled /\ c.g.mouse = b.g.mouse
               /\ c.g.visible = b.g.visible /\ c.g.dx = b.g.dx
               /\ c.g.sources = b.g.sources /\ c.g.value = b.g.value
               /\ c.t.trigger = b.t.trigger
<1> DEFINE n     == note_input(b.g)
           noted == [b EXCEPT !.g = n]
           ft    == [b.t EXCEPT !.finger = down]
           sent  == [noted EXCEPT !.t = ft]
           h     == [n EXCEPT !.down = down]
           c     == cursor_tap(b, down)
<1>1. b.g \in Globals /\ b.t \in Tellings
  BY Halves
<1>2. n \in Globals /\ Alike(b.g, n)
  BY <1>1, NoteInput
<1>3. noted \in Pairs /\ noted.g = n /\ noted.t = b.t
  <2> HIDE DEF n
  <2> QED
    BY <1>2, Halves
<1>4. CASE ~b.g.visible
  BY <1>4 DEF cursor_tap
<1>5. CASE b.g.visible /\ down = b.g.down
  <2>1. c = noted
    BY <1>5 DEF cursor_tap
  <2> HIDE DEF noted, c, n
  <2> QED
    BY <1>2, <1>3, <1>5, <2>1 DEF Alike, c
<1>6. CASE b.g.visible /\ down # b.g.down
  <2>1. c = [[noted EXCEPT !.t.finger = down] EXCEPT !.g.down = down]
    BY <1>6 DEF cursor_tap, send_pointer
  <2>2. [noted EXCEPT !.t.finger = down] = sent
    <3> HIDE DEF n
    <3>1. noted.t = b.t
      BY <1>3
    <3> QED
      BY <3>1
  <2>3. ft \in Tellings /\ ft.finger = down /\ ft.trigger = b.t.trigger
    <3>1. ft \in Tellings
      BY <1>1, TellingChange
    <3> QED
      BY <1>1, <3>1 DEF Tellings
  <2>4. sent \in Pairs /\ sent.g = n /\ sent.t = ft
    <3> HIDE DEF noted, ft, n
    <3> QED
      BY <1>3, <2>3, Halves
  <2>5. /\ h \in Globals /\ h.down = down /\ h.enabled = n.enabled /\ h.mouse = n.mouse
        /\ h.visible = n.visible /\ h.dx = n.dx /\ h.sources = n.sources /\ h.value = n.value
    <3> HIDE DEF n
    <3>1. h \in Globals
      BY <1>2, GlobalChange
    <3> QED
      BY <1>2, <3>1 DEF Globals
  <2>6. c = [sent EXCEPT !.g = h]
    <3>1. c = [sent EXCEPT !.g = [sent.g EXCEPT !.down = down]]
      <4> HIDE DEF noted, sent, ft, n, c
      <4> QED
        BY <2>1, <2>2
    <3> HIDE DEF noted, sent, ft, n, c
    <3> QED
      BY <2>4, <3>1
  <2>7. c \in Pairs /\ c.g = h /\ c.t = ft
    <3> HIDE DEF noted, sent, ft, n, c, h
    <3> QED
      BY <2>4, <2>5, <2>6, Halves
  <2> HIDE DEF h, ft, n, noted, sent
  <2> QED
    BY <1>2, <1>6, <2>3, <2>5, <2>7 DEF Alike
<1> QED
  BY <1>1, <1>4, <1>5, <1>6 DEF Globals

With(f, x, v) == [f EXCEPT ![x] = v]
Turned(f, side, source, down) ==
    [f EXCEPT ![side] = IF down THEN @ \cup {source} ELSE @ \ {source}]

\* trigger_changed keeps the value, and makes it a source or tells the game.
LEMMA TriggerChanged ==
    ASSUME NEW b \in Pairs, NEW side \in Sides, NEW value \in Pulls
    PROVE  LET c == trigger_changed(b, side, value)
           IN  /\ c \in Pairs
               /\ c.g.enabled = b.g.enabled /\ c.g.mouse = b.g.mouse
               /\ c.g.visible = b.g.visible /\ c.g.dx = b.g.dx /\ c.g.down = b.g.down
               /\ c.t.finger = b.t.finger
               /\ c.g.value = With(b.g.value, side, value)
               /\ b.g.mouse => /\ c.t.trigger = b.t.trigger
                               /\ c.g.sources = Turned(b.g.sources, side, "trigger", value = Full)
               /\ ~b.g.mouse => /\ c.t.trigger = With(b.t.trigger, side, value)
                                /\ c.g.sources = b.g.sources
<1> DEFINE v    == [b.g.value EXCEPT ![side] = value]
           h    == [b.g EXCEPT !.value = v]
           kept == [b EXCEPT !.g = h]
           c    == trigger_changed(b, side, value)
<1>1. b.g \in Globals /\ b.t \in Tellings
  BY Halves
<1>2. v \in [Sides -> Pulls]
  BY <1>1 DEF Globals
<1>3. /\ h \in Globals /\ h.value = v /\ h.enabled = b.g.enabled /\ h.mouse = b.g.mouse
      /\ h.visible = b.g.visible /\ h.dx = b.g.dx /\ h.down = b.g.down
      /\ h.sources = b.g.sources
  <2> HIDE DEF v
  <2>1. h \in Globals
    BY <1>1, <1>2, GlobalChange
  <2> QED
    BY <1>1, <2>1 DEF Globals
<1>4. kept \in Pairs /\ kept.g = h /\ kept.t = b.t
  <2> HIDE DEF h
  <2> QED
    BY <1>3, Halves
<1>5. CASE b.g.mouse
  <2> DEFINE r == right_axis_button(h, side, "trigger", value = Full)
  <2>1. c = [kept EXCEPT !.g = right_axis_button(kept.g, side, "trigger", value = Full)]
    BY <1>5 DEF trigger_changed
  <2>2. c = [kept EXCEPT !.g = r]
    <3> HIDE DEF kept, h, c
    <3> QED
      BY <1>4, <2>1
  <2>3. /\ r \in Globals
        /\ r.enabled = h.enabled /\ r.mouse = h.mouse /\ r.visible = h.visible
        /\ r.down = h.down /\ r.dx = h.dx /\ r.value = h.value
        /\ r.sources = [h.sources EXCEPT ![side] = IF value = Full THEN @ \cup {"trigger"}
                                                   ELSE @ \ {"trigger"}]
    <3>1. (value = Full) \in BOOLEAN
      OBVIOUS
    <3> HIDE DEF h
    <3> QED
      BY ZenonT(30), <1>3, <3>1, AxisButton
  <2>4. c \in Pairs /\ c.g = r /\ c.t = b.t
    <3> HIDE DEF kept, h, c, r
    <3> QED
      BY <1>4, <2>2, <2>3, Halves
  <2> HIDE DEF kept, h, r, v
  <2> QED
    BY <1>3, <1>5, <2>3, <2>4 DEF v, With, Turned
<1>6. CASE ~b.g.mouse
  <2> DEFINE tr == [b.t.trigger EXCEPT ![side] = value]
             t  == [b.t EXCEPT !.trigger = tr]
  <2>1. c = [kept EXCEPT !.t.trigger[side] = value]
    BY <1>6 DEF trigger_changed, send_trigger
  <2>2. tr \in [Sides -> Pulls]
    BY <1>1 DEF Tellings
  <2>3. t \in Tellings /\ t.trigger = tr /\ t.finger = b.t.finger
    <3> HIDE DEF tr
    <3>1. t \in Tellings
      BY <1>1, <2>2, TellingChange
    <3> QED
      BY <1>1, <3>1 DEF Tellings
  <2>4. c = [kept EXCEPT !.t = t]
    <3>1. c = [kept EXCEPT !.t = [kept.t EXCEPT !.trigger = [kept.t.trigger EXCEPT ![side] = value]]]
      BY <2>1
    <3> HIDE DEF kept, c
    <3> QED
      BY <1>4, <3>1
  <2>5. c \in Pairs /\ c.g = h /\ c.t = t
    <3> HIDE DEF kept, h, c, t
    <3> QED
      BY <1>4, <2>3, <2>4, Halves
  <2> HIDE DEF kept, h, t, v
  <2> QED
    BY <1>3, <1>6, <2>3, <2>5 DEF v, With
<1> QED
  BY <1>5, <1>6

\* Held triggers leave their axes for the right stick.
LEMMA EnterMouseMode ==
    ASSUME NEW b \in Pairs, Coherent(b), ~b.g.mouse
    PROVE  LET c == enter_mouse_mode(b)
           IN  c \in Pairs /\ Coherent(c) /\ Calmer(b.g, c.g) /\ c.g.mouse
<1> DEFINE zero  == [b.t.trigger EXCEPT !["left"] = 0]
           zeros == [zero EXCEPT !["right"] = 0]
           t1    == [b.t EXCEPT !.trigger = zero]
           t2    == [t1 EXCEPT !.trigger = zeros]
           t3    == [t2 EXCEPT !.finger = FALSE]
           q1    == send_trigger(b, "left", 0)
           quiet == send_trigger(q1, "right", 0)
           m1    == [b.g EXCEPT !.mouse = TRUE]
           mouse == [m1 EXCEPT !.idle = 0]
           left  == right_axis_button(mouse, "left", "trigger", b.g.value["left"] = Full)
           right == right_axis_button(left, "right", "trigger", b.g.value["right"] = Full)
           shown == cursor_show(right)
           c     == enter_mouse_mode(b)
<1>1. b.g \in Globals /\ b.t \in Tellings
  BY Halves
<1>2. /\ zero \in [Sides -> Pulls] /\ zeros \in [Sides -> Pulls]
      /\ \A side \in Sides : zeros[side] = 0
  BY <1>1, Facts DEF Tellings
<1>3. t1 \in Tellings /\ t1.trigger = zero /\ t1.finger = b.t.finger
  <2> HIDE DEF zero
  <2>1. t1 \in Tellings
    BY <1>1, <1>2, TellingChange
  <2> QED
    BY <1>1, <2>1 DEF Tellings
<1>4. t2 \in Tellings /\ t2.trigger = zeros
  <2> HIDE DEF t1, zeros
  <2>1. t2 \in Tellings
    BY <1>2, <1>3, TellingChange
  <2> QED
    BY <1>3, <2>1 DEF Tellings
<1>5. t3 \in Tellings /\ t3.trigger = zeros /\ ~t3.finger
  <2> HIDE DEF t2
  <2>1. t3 \in Tellings
    BY <1>4, TellingChange
  <2> QED
    BY <1>4, <2>1 DEF Tellings
<1>6. q1 \in Pairs /\ q1.g = b.g /\ q1.t = t1
  <2>1. q1 = [b EXCEPT !.t = t1]
    BY DEF send_trigger
  <2> HIDE DEF t1, q1
  <2> QED
    BY <1>3, <2>1, Halves
<1>7. quiet \in Pairs /\ quiet.g = b.g /\ quiet.t = t2
  <2>1. quiet = [q1 EXCEPT !.t = [q1.t EXCEPT !.trigger = [q1.t.trigger EXCEPT !["right"] = 0]]]
    BY DEF send_trigger
  <2>2. quiet = [q1 EXCEPT !.t = t2]
    <3> HIDE DEF q1, quiet, t1, zero
    <3> QED
      BY <1>3, <1>6, <2>1
  <2> HIDE DEF t2, q1, quiet
  <2> QED
    BY <1>4, <1>6, <2>2, Halves
<1>8. /\ mouse \in Globals /\ mouse.mouse /\ mouse.enabled = b.g.enabled
      /\ mouse.visible = b.g.visible /\ mouse.down = b.g.down /\ mouse.dx = b.g.dx
      /\ mouse.sources = b.g.sources /\ mouse.value = b.g.value
  <2>1. m1 \in Globals
    BY <1>1, GlobalChange
  <2>2. mouse \in Globals
    <3> HIDE DEF m1
    <3> QED
      BY <2>1, Facts, GlobalChange
  <2> QED
    BY <1>1, <2>2 DEF Globals
<1> HIDE DEF mouse
<1>9. /\ left \in Globals
      /\ left.enabled = mouse.enabled /\ left.mouse = mouse.mouse /\ left.visible = mouse.visible
      /\ left.down = mouse.down /\ left.dx = mouse.dx /\ left.value = mouse.value
      /\ left.sources = [mouse.sources EXCEPT !["left"] =
           IF b.g.value["left"] = Full THEN @ \cup {"trigger"} ELSE @ \ {"trigger"}]
  <2>1. (b.g.value["left"] = Full) \in BOOLEAN /\ "left" \in Sides
    BY Facts
  <2> QED
    BY ZenonT(30), <1>8, <2>1, AxisButton
<1> HIDE DEF left
<1>10. /\ right \in Globals
       /\ right.enabled = left.enabled /\ right.mouse = left.mouse /\ right.visible = left.visible
       /\ right.down = left.down /\ right.dx = left.dx /\ right.value = left.value
       /\ right.sources = [left.sources EXCEPT !["right"] =
            IF b.g.value["right"] = Full THEN @ \cup {"trigger"} ELSE @ \ {"trigger"}]
  <2>1. (b.g.value["right"] = Full) \in BOOLEAN /\ "right" \in Sides
    BY Facts
  <2> QED
    BY ZenonT(30), <1>9, <2>1, AxisButton
<1> HIDE DEF right
<1>11. /\ shown \in Globals
       /\ shown.enabled = right.enabled /\ shown.mouse = right.mouse
       /\ shown.visible = (right.visible \/ right.enabled)
       /\ shown.down = right.down /\ shown.dx = right.dx /\ shown.value = right.value
       /\ shown.sources = right.sources
  <2> DEFINE x == right.visible \/ right.enabled
  <2>1. x \in BOOLEAN
    OBVIOUS
  <2>2. shown = [right EXCEPT !.visible = x]
    BY DEF cursor_show
  <2> HIDE DEF x
  <2>3. shown \in Globals
    BY ZenonT(30), <1>10, <2>1, <2>2, GlobalChange
  <2> HIDE DEF shown
  <2>4. /\ shown.enabled = right.enabled /\ shown.mouse = right.mouse /\ shown.visible = x
        /\ shown.down = right.down /\ shown.dx = right.dx /\ shown.value = right.value
        /\ shown.sources = right.sources
    BY <1>10, <2>2 DEF Globals
  <2> QED
    BY <2>3, <2>4 DEF x
<1> HIDE DEF shown
<1>12. c = [g |-> shown, t |-> t3]
  <2>1. c = [g |-> cursor_show(right_axis_button(right_axis_button(
                     [quiet.g EXCEPT !.mouse = TRUE, !.idle = 0], "left", "trigger",
                     b.g.value["left"] = Full), "right", "trigger", b.g.value["right"] = Full)),
             t |-> [quiet.t EXCEPT !.finger = FALSE]]
    BY DEF enter_mouse_mode
  <2> HIDE DEF quiet, t2, c
  <2> QED
    BY <1>7, <2>1 DEF shown, right, left, mouse
<1>13. c \in Pairs /\ c.g = shown /\ c.t = t3
  <2> HIDE DEF t3, c
  <2> QED
    BY <1>5, <1>11, <1>12, Halves
<1>14. /\ b.g.visible \in BOOLEAN /\ ~b.g.visible /\ ~b.g.down /\ b.g.dx = 0
       /\ \A side \in Sides : "trigger" \notin b.g.sources[side]
  BY <1>1, Facts DEF Coherent, Globals
<1>15. \A side \in Sides :
         /\ shown.sources[side] \subseteq b.g.sources[side] \cup {"trigger"}
         /\ "trigger" \in shown.sources[side] => b.g.value[side] = Full
  <2>1. b.g.sources \in [Sides -> SUBSET {"trigger", "shoulder"}]
    BY <1>1 DEF Globals
  <2> QED
    BY <1>8, <1>9, <1>10, <1>11, <1>14, <2>1, Facts
<1> HIDE DEF c, t3, zeros, zero, t1, t2, q1, quiet, m1
<1>16. Coherent(c)
  <2>1. /\ c.g.mouse /\ c.g.enabled = b.g.enabled /\ c.g.value = b.g.value
        /\ c.g.down = b.g.down /\ c.g.dx = 0 /\ c.g.visible = (b.g.visible \/ b.g.enabled)
        /\ ~c.t.finger /\ c.t.trigger = zeros
    <3>1. c.g.value = b.g.value /\ c.g.dx = b.g.dx
      BY <1>8, <1>9, <1>10, <1>11, <1>13
    <3>2. c.g.enabled = b.g.enabled /\ c.g.down = b.g.down
      BY <1>8, <1>9, <1>10, <1>11, <1>13
    <3>3. right.visible = b.g.visible /\ right.enabled = b.g.enabled
      BY <1>8, <1>9, <1>10
    <3>4. c.g.visible = (b.g.visible \/ b.g.enabled)
      BY <1>11, <1>13, <3>3
    <3>5. c.g.mouse = mouse.mouse
      BY <1>9, <1>10, <1>11, <1>13
    <3>6. c.g.mouse
      BY <1>8, <3>5
    <3> QED
      BY <1>5, <1>13, <1>14, <3>1, <3>2, <3>4, <3>6
  <2>2. b.g.enabled \in BOOLEAN /\ b.g.down \in BOOLEAN /\ c.t.finger \in BOOLEAN
    BY <1>1, <1>13, Halves DEF Globals, Tellings
  <2>3. c.g.visible = (c.g.mouse /\ c.g.enabled)
    BY <1>14, <2>1, <2>2
  <2>4. c.t.finger = c.g.down
    BY <1>14, <2>1, <2>2
  <2>5. ~c.g.down
    BY <1>14, <2>1
  <2>6. \A side \in Sides :
          /\ c.t.trigger[side] = 0
          /\ "trigger" \in c.g.sources[side] => c.g.value[side] = Full
    BY <1>2, <1>13, <1>15, <2>1
  <2> QED
    BY <2>1, <2>3, <2>4, <2>5, <2>6 DEF Coherent
<1>17. Calmer(b.g, c.g) /\ c.g.mouse
  BY ZenonT(30), <1>8, <1>9, <1>10, <1>11, <1>13, <1>14, <1>15 DEF Calmer
<1> QED
  BY <1>13, <1>16, <1>17 DEF c


\* Leaving, the cursor and the sources go, and held triggers get their axes back.
LEMMA LeaveMouseMode ==
    ASSUME NEW b \in Pairs, Coherent(b), b.g.mouse
    PROVE  LET c == leave_mouse_mode(b)
           IN  c \in Pairs /\ Coherent(c) /\ Calmer(b.g, c.g) /\ ~c.g.mouse
<1> DEFINE left   == right_axis_button(b.g, "left", "trigger", FALSE)
           right  == right_axis_button(left, "right", "trigger", FALSE)
           calm   == [b EXCEPT !.g = right]
           hidden == cursor_hide(calm)
           n1     == [hidden.g EXCEPT !.mouse = FALSE]
           n2     == [n1 EXCEPT !.idle = 0]
           normal == [hidden EXCEPT !.g = n2]
           vl     == normal.g.value["left"]
           vr     == normal.g.value["right"]
           one    == trigger_changed(normal, "left", vl)
           two    == trigger_changed(one, "right", vr)
           c      == leave_mouse_mode(b)
<1>1. b.g \in Globals /\ b.t \in Tellings
  BY Halves
<1>2. /\ left \in Globals
      /\ left.enabled = b.g.enabled /\ left.down = b.g.down /\ left.value = b.g.value
      /\ left.sources = [b.g.sources EXCEPT !["left"] = @ \ {"trigger"}]
  BY <1>1, Facts, AxisButton
<1> HIDE DEF left
<1>3. /\ right \in Globals
      /\ right.enabled = left.enabled /\ right.down = left.down /\ right.value = left.value
      /\ right.sources = [left.sources EXCEPT !["right"] = @ \ {"trigger"}]
  BY <1>2, Facts, AxisButton
<1> HIDE DEF right
<1>4. calm \in Pairs /\ calm.g = right /\ calm.t = b.t
  BY <1>3, Halves
<1> HIDE DEF calm
<1>5. calm.t.finger = calm.g.down
  BY <1>2, <1>3, <1>4 DEF Coherent
<1>6. /\ hidden \in Pairs
      /\ ~hidden.g.down /\ ~hidden.g.visible /\ hidden.g.dx = 0 /\ ~hidden.t.finger
      /\ hidden.g.enabled = right.enabled
      /\ hidden.g.sources = right.sources /\ hidden.g.value = right.value
  BY <1>4, <1>5, CursorHide
<1> HIDE DEF hidden
<1>7. /\ n2 \in Globals /\ ~n2.mouse /\ ~n2.down /\ ~n2.visible /\ n2.dx = 0
      /\ n2.enabled = right.enabled /\ n2.sources = right.sources /\ n2.value = right.value
  <2>1. hidden.g \in Globals
    BY <1>6, Halves
  <2>2. n1 \in Globals
    BY <2>1, GlobalChange
  <2>3. n2 \in Globals
    <3> HIDE DEF n1
    <3> QED
      BY <2>2, Facts, GlobalChange
  <2> QED
    BY <1>6, <2>1, <2>3 DEF Globals
<1>8. normal \in Pairs /\ normal.g = n2 /\ normal.t = hidden.t
  <2> HIDE DEF n2
  <2> QED
    BY <1>6, <1>7, Halves
<1>9. normal = [hidden EXCEPT !.g.mouse = FALSE, !.g.idle = 0]
  <2> DEFINE k1 == [hidden EXCEPT !.g = [hidden.g EXCEPT !.mouse = FALSE]]
             k2 == [k1 EXCEPT !.g = [k1.g EXCEPT !.idle = 0]]
  <2>1. [hidden EXCEPT !.g.mouse = FALSE, !.g.idle = 0] = k2
    OBVIOUS
  <2>2. hidden.g \in Globals
    BY <1>6, Halves
  <2>3. n1 \in Globals
    BY <2>2, GlobalChange
  <2>4. k1 \in Pairs /\ k1.g = n1 /\ k1.t = hidden.t
    <3> HIDE DEF normal
    <3>1. k1 = [hidden EXCEPT !.g = n1]
      OBVIOUS
    <3> HIDE DEF k1, n1
    <3> QED
      BY <1>6, <2>3, <3>1, Halves
  <2>5. k2 \in Pairs /\ k2.g = n2 /\ k2.t = hidden.t
    <3>1. k2 = [k1 EXCEPT !.g = n2]
      <4> HIDE DEF k1
      <4> QED
        BY <2>4
    <3> HIDE DEF k1, k2, n2
    <3> QED
      BY <1>7, <2>4, <3>1, Halves
  <2> HIDE DEF k2, n2, normal
  <2> QED
    BY <1>8, <2>1, <2>5 DEF Pairs
<1>10. c = two
  <2>1. normal.g = n2
    BY <1>8
  <2> HIDE DEF normal
  <2> QED
    BY <1>9 DEF leave_mouse_mode, hidden, calm, right, left
<1> HIDE DEF normal, n2, c
<1>11. normal.g.value = b.g.value /\ b.g.value \in [Sides -> Pulls]
       /\ "left" \in Sides /\ "right" \in Sides
       /\ vl \in Pulls /\ vr \in Pulls /\ vl = b.g.value["left"] /\ vr = b.g.value["right"]
  <2>1. normal.g.value = b.g.value
    BY <1>2, <1>3, <1>7, <1>8
  <2>2. b.g.value \in [Sides -> Pulls]
    BY <1>1 DEF Globals
  <2> QED
    BY <2>1, <2>2, Facts
<1> HIDE DEF vl, vr
<1>12. ~normal.g.mouse
  BY <1>7, <1>8
<1>13. /\ one \in Pairs
       /\ one.g.enabled = normal.g.enabled /\ one.g.mouse = normal.g.mouse
       /\ one.g.visible = normal.g.visible /\ one.g.dx = normal.g.dx /\ one.g.down = normal.g.down
       /\ one.t.finger = normal.t.finger
       /\ one.g.value = With(normal.g.value, "left", vl)
       /\ one.t.trigger = With(normal.t.trigger, "left", vl)
       /\ one.g.sources = normal.g.sources
  BY <1>8, <1>11, <1>12, TriggerChanged
<1> HIDE DEF one
<1>14. ~one.g.mouse
  BY <1>12, <1>13
<1>15. /\ two \in Pairs
       /\ two.g.enabled = one.g.enabled /\ two.g.mouse = one.g.mouse
       /\ two.g.visible = one.g.visible /\ two.g.dx = one.g.dx /\ two.g.down = one.g.down
       /\ two.t.finger = one.t.finger
       /\ two.g.value = With(one.g.value, "right", vr)
       /\ two.t.trigger = With(one.t.trigger, "right", vr)
       /\ two.g.sources = one.g.sources
  BY <1>11, <1>13, <1>14, TriggerChanged
<1> HIDE DEF two
<1>16. /\ c.g.enabled = b.g.enabled /\ ~c.g.mouse /\ ~c.g.visible /\ c.g.dx = 0 /\ ~c.g.down
       /\ ~c.t.finger /\ c.g.sources = right.sources
  <2>1. ~two.g.mouse
    BY <1>14, <1>15
  <2>2. ~two.g.visible
    BY <1>7, <1>8, <1>13, <1>15
  <2>3. ~two.g.down
    BY <1>7, <1>8, <1>13, <1>15
  <2>4. ~two.t.finger
    BY <1>6, <1>8, <1>13, <1>15
  <2>5. two.g.enabled = b.g.enabled
    BY <1>2, <1>3, <1>7, <1>8, <1>13, <1>15
  <2>6. two.g.dx = 0 /\ two.g.sources = right.sources
    BY <1>7, <1>8, <1>13, <1>15
  <2> QED
    BY <1>10, <2>1, <2>2, <2>3, <2>4, <2>5, <2>6
<1>17. c.g.value = b.g.value
  BY <1>10, <1>11, <1>13, <1>15 DEF With
<1>18. \A side \in Sides : c.t.trigger[side] = b.g.value[side]
  <2>1. normal.t \in Tellings
    BY <1>8, Halves
  <2>2. normal.t.trigger \in [Sides -> Pulls]
    BY <2>1 DEF Tellings
  <2> QED
    BY <1>10, <1>11, <1>13, <1>15, <2>2, Facts DEF With
<1>19. \A side \in Sides : /\ "trigger" \notin c.g.sources[side]
                           /\ c.g.sources[side] \subseteq b.g.sources[side]
  <2>1. b.g.sources \in [Sides -> SUBSET {"trigger", "shoulder"}]
    BY <1>1 DEF Globals
  <2> QED
    BY <1>2, <1>3, <1>16, <2>1, Facts
<1>20. c \in Pairs
  BY <1>10, <1>15
<1>21. Coherent(c)
  <2>1. c.g.down \in BOOLEAN /\ c.t.finger \in BOOLEAN /\ c.g.visible \in BOOLEAN
    BY <1>20, Halves DEF Globals, Tellings
  <2>2. c.t.finger = c.g.down /\ c.g.visible = (c.g.mouse /\ c.g.enabled)
    BY <1>16, <2>1
  <2>3. ~(c.g.down \/ c.g.dx # 0)
    BY <1>16
  <2> QED
    BY <1>16, <1>17, <1>18, <1>19, <2>2, <2>3 DEF Coherent
<1>22. Calmer(b.g, c.g)
  BY <1>16, <1>17, <1>19 DEF Calmer
<1> QED
  BY <1>16, <1>20, <1>21, <1>22 DEF c

LEMMA CalmerTrans ==
    /\ \A g : Calmer(g, g)
    /\ \A f, g, h : Calmer(f, g) /\ Calmer(g, h) => Calmer(f, h)
BY DEF Calmer

\* What functions that call for nothing new keep.
Safe(b, c) == c \in Pairs /\ Coherent(c) /\ Calmer(b.g, c.g)

LEMMA SetMouseMode ==
    ASSUME NEW b \in Pairs, Coherent(b), NEW enabled \in BOOLEAN
    PROVE  Safe(b, set_mouse_mode(b, enabled))
<1>1. b.g.mouse \in BOOLEAN
  BY Halves DEF Globals
<1>2. CASE b.g.mouse = enabled
  BY <1>2, CalmerTrans DEF set_mouse_mode, Safe
<1>3. CASE b.g.mouse # enabled /\ enabled
  <2>1. ~b.g.mouse
    BY <1>1, <1>3
  <2> QED
    BY <1>3, <2>1, EnterMouseMode DEF set_mouse_mode, Safe
<1>4. CASE b.g.mouse # enabled /\ ~enabled
  <2>1. b.g.mouse
    BY <1>1, <1>4
  <2> QED
    BY <1>4, <2>1, LeaveMouseMode DEF set_mouse_mode, Safe
<1> QED
  BY <1>2, <1>3, <1>4

\* A pair whose globals differ only in what the invariant does not speak of.
LEMMA SameGlobals ==
    ASSUME NEW b \in Pairs, Coherent(b), NEW h \in Globals, Alike(b.g, h)
    PROVE  Safe(b, [b EXCEPT !.g = h])
<1> DEFINE c == [b EXCEPT !.g = h]
<1>1. c \in Pairs /\ c.g = h /\ c.t = b.t
  BY Halves
<1> HIDE DEF c
<1>2. Calmer(b.g, c.g)
  BY <1>1 DEF Calmer, Alike
<1>3. Coherent(c)
  BY <1>1 DEF Coherent, Alike
<1> QED
  BY <1>1, <1>2, <1>3 DEF Safe, c

\* A pair whose told values differ only in the axis or the keys.
LEMMA SameTold ==
    ASSUME NEW b \in Pairs, Coherent(b), NEW h \in Globals, Alike(b.g, h),
           NEW t \in Tellings, t.finger = b.t.finger, t.trigger = b.t.trigger
    PROVE  Safe(b, [g |-> h, t |-> t])
<1> DEFINE c == [g |-> h, t |-> t]
<1>1. c \in Pairs /\ c.g = h /\ c.t = t
  BY Halves
<1> HIDE DEF c
<1>2. Calmer(b.g, c.g)
  BY <1>1 DEF Calmer, Alike
<1>3. Coherent(c)
  BY <1>1 DEF Coherent, Alike
<1> QED
  BY <1>1, <1>2, <1>3 DEF Safe, c

LEMMA StickValue ==
    ASSUME NEW g \in Globals
    PROVE  right_stick_x_value(g) \in -1 .. 1
<1> DEFINE pushed == {side \in Sides : g.sources[side] # {}}
<1>1. g.rx \in -1 .. 1 /\ 0 \in -1 .. 1
  BY DEF Globals
<1>2. CASE pushed = {}
  BY <1>1, <1>2 DEF right_stick_x_value
<1>3. CASE pushed # {}
  <2>1. (CHOOSE side \in pushed : TRUE) \in Sides
    BY <1>3
  <2>2. \A side \in Sides : Toward(side) \in -1 .. 1
    BY Facts
  <2> QED
    BY <1>1, <1>3, <2>1, <2>2 DEF right_stick_x_value
<1> QED
  BY <1>2, <1>3

LEMMA DispatchMotion ==
    ASSUME NEW b \in Pairs, Coherent(b)
    PROVE  Safe(b, dispatch_motion(b))
<1> DEFINE x == right_stick_x_value(b.g)
           move == x # 0 \/ b.g.last
           stop == ~move /\ b.g.prev
           h == [b.g EXCEPT !.last = (x # 0), !.prev = b.g.last]
           r == [b.t EXCEPT !.right_x = x, !.moving = move]
           t == IF move \/ stop THEN r ELSE b.t
<1>1. b.g \in Globals /\ b.t \in Tellings /\ x \in -1 .. 1
  BY Halves, StickValue
<1> HIDE DEF x
<1>2. h \in Globals /\ Alike(b.g, h)
  <2>1. h \in Globals
    <3>1. b.g.last \in BOOLEAN
      BY <1>1 DEF Globals
    <3> QED
      BY <1>1, <3>1, GlobalChange
  <2> QED
    BY <1>1, <2>1 DEF Globals, Alike
<1>3. r \in Tellings /\ r.finger = b.t.finger /\ r.trigger = b.t.trigger
  <2>1. r \in Tellings
    <3>1. move \in BOOLEAN
      BY <1>1 DEF Globals
    <3> QED
      BY <1>1, <3>1, TellingChange
  <2> QED
    BY <1>1, <2>1 DEF Tellings
<1> HIDE DEF r
<1>4. t \in Tellings /\ t.finger = b.t.finger /\ t.trigger = b.t.trigger
  BY <1>1, <1>3
<1>5. dispatch_motion(b) = [g |-> h, t |-> t]
  BY DEF dispatch_motion, x, r
<1> HIDE DEF h, t
<1> QED
  BY <1>2, <1>4, <1>5, SameTold

LEMMA SafeTrans ==
    ASSUME NEW a, NEW b, NEW c, Safe(a, b), Safe(b, c)
    PROVE  Safe(a, c)
BY CalmerTrans DEF Safe

\* The stick dismisses a cursor only in Normal Mode, where there is none.
LEMMA UpdateSticks ==
    ASSUME NEW b \in Pairs, Coherent(b)
    PROVE  Safe(b, update_sticks(b))
<1>1. ASSUME ~b.g.mouse
      PROVE  Safe(b, cursor_hide(b))
  <2> DEFINE c == cursor_hide(b)
  <2>1. /\ c \in Pairs
        /\ ~c.g.down /\ ~c.g.visible /\ c.g.dx = 0 /\ ~c.t.finger
        /\ c.g.enabled = b.g.enabled /\ c.g.mouse = b.g.mouse
        /\ c.g.sources = b.g.sources /\ c.g.value = b.g.value
        /\ c.t.trigger = b.t.trigger
    BY CursorHide DEF Coherent
  <2> HIDE DEF c
  <2>2. Calmer(b.g, c.g)
    BY <2>1 DEF Calmer
  <2>3. c.g.down \in BOOLEAN /\ c.t.finger \in BOOLEAN /\ c.g.visible \in BOOLEAN
        /\ c.g.mouse \in BOOLEAN /\ b.g.mouse \in BOOLEAN
    BY <2>1, Halves DEF Globals, Tellings
  <2>4. c.t.finger = c.g.down /\ c.g.visible = (c.g.mouse /\ c.g.enabled)
    BY <1>1, <2>1, <2>3
  <2>5. \A side \in Sides :
          /\ c.t.trigger[side] = IF c.g.mouse THEN 0 ELSE c.g.value[side]
          /\ "trigger" \in c.g.sources[side] => c.g.mouse /\ c.g.value[side] = Full
    BY <2>1 DEF Coherent
  <2>6. ~(c.g.down \/ c.g.dx # 0)
    BY <2>1
  <2>7. Coherent(c)
    BY <2>4, <2>5, <2>6 DEF Coherent
  <2> QED
    BY <2>1, <2>2, <2>7 DEF Safe, c
<1>2. CASE ~b.g.mouse /\ right_stick_x_value(b.g) # 0
  <2>1. Safe(cursor_hide(b), dispatch_motion(cursor_hide(b)))
    BY <1>1, <1>2, DispatchMotion DEF Safe
  <2>2. Safe(b, dispatch_motion(cursor_hide(b)))
    BY <1>1, <1>2, <2>1, SafeTrans
  <2> QED
    BY <1>2, <2>2 DEF update_sticks
<1>3. CASE ~(~b.g.mouse /\ right_stick_x_value(b.g) # 0)
  BY <1>3, DispatchMotion DEF update_sticks
<1> QED
  BY <1>2, <1>3

LEMMA MouseModeTimeout ==
    ASSUME NEW b \in Pairs, Coherent(b)
    PROVE  Safe(b, mouse_mode_timeout(b))
<1>1. Safe(b, b)
  BY CalmerTrans DEF Safe
<1>2. Safe(b, [b EXCEPT !.g.idle = 0])
  <2> DEFINE h == [b.g EXCEPT !.idle = 0]
  <2>1. h \in Globals /\ Alike(b.g, h)
    <3>1. b.g \in Globals
      BY Halves
    <3>2. h \in Globals
      BY <3>1, Facts, GlobalChange
    <3> QED
      BY <3>1, <3>2 DEF Globals, Alike
  <2>2. [b EXCEPT !.g.idle = 0] = [b EXCEPT !.g = h]
    OBVIOUS
  <2> HIDE DEF h
  <2> QED
    BY <2>1, <2>2, SameGlobals
<1>3. Safe(b, set_mouse_mode(b, FALSE))
  BY SetMouseMode
<1> QED
  BY <1>1, <1>2, <1>3 DEF mouse_mode_timeout

LEMMA SelectEvent ==
    ASSUME NEW b \in Pairs, Coherent(b), NEW down \in BOOLEAN
    PROVE  Safe(b, select_event(b, down))
<1> DEFINE toggled == IF down /\ ~b.g.select_down THEN set_mouse_mode(b, ~b.g.mouse) ELSE b
           h       == [toggled.g EXCEPT !.select_down = down]
<1>1. Safe(b, b)
  BY CalmerTrans DEF Safe
<1>2. Safe(b, set_mouse_mode(b, ~b.g.mouse))
  <2>1. (~b.g.mouse) \in BOOLEAN
    OBVIOUS
  <2> QED
    BY <2>1, SetMouseMode
<1>3. Safe(b, toggled)
  BY <1>1, <1>2
<1>4. select_event(b, down) = [toggled EXCEPT !.g = h]
  BY DEF select_event
<1> HIDE DEF toggled
<1>5. toggled.g \in Globals
  BY <1>3, Halves DEF Safe
<1>6. h \in Globals /\ Alike(toggled.g, h)
  <2>1. h \in Globals
    BY <1>5, GlobalChange
  <2> QED
    BY <1>5, <2>1 DEF Globals, Alike
<1> HIDE DEF h
<1>7. Safe(toggled, [toggled EXCEPT !.g = h])
  BY <1>3, <1>6, SameGlobals DEF Safe
<1> QED
  BY <1>3, <1>4, <1>7, SafeTrans

-----------------------------------------------------------------------------
(* A button.                                                               *)

\* Which side a button is of.
SideOf(button) == CHOOSE x \in Sides : button \in {Dpad(x), Shoulder(x)}

LEMMA ButtonNames ==
    /\ \A side \in Sides : /\ SideOf(Dpad(side)) = side /\ SideOf(Shoulder(side)) = side
                           /\ Dpad(side) \in {"dpad_left", "dpad_right"}
                           /\ Shoulder(side) \in {"L1", "R1"}
                           /\ Toward(side) \in {-1, 1}
    /\ \A x, y \in Sides : /\ Dpad(x) = Dpad(y) => x = y
                           /\ Shoulder(x) = Shoulder(y) => x = y
                           /\ Toward(x) = Toward(y) => x = y
                           /\ Trigger(x) = Trigger(y) => x = y
    /\ \A button \in {"dpad_left", "dpad_right"} : \E side \in Sides : button = Dpad(side)
    /\ \A button \in {"L1", "R1"} : \E side \in Sides : button = Shoulder(side)
<1>1. \A side \in Sides : SideOf(Dpad(side)) = side /\ SideOf(Shoulder(side)) = side
  <2>1. ASSUME NEW side \in Sides, NEW button \in {Dpad(side), Shoulder(side)}
        PROVE  SideOf(button) = side
    <3>1. \A x \in Sides : button \in {Dpad(x), Shoulder(x)} => x = side
      BY <2>1 DEF Sides, Dpad, Shoulder
    <3>2. SideOf(button) \in Sides /\ button \in {Dpad(SideOf(button)), Shoulder(SideOf(button))}
      BY <2>1 DEF SideOf
    <3> QED
      BY <3>1, <3>2
  <2> QED
    BY <2>1
<1> QED
  BY <1>1 DEF Sides, Dpad, Shoulder, Toward, Trigger

\* What the bridge holds after a button went down or up.
Answers(b, c, button, down) ==
    /\ c \in Pairs /\ Coherent(c) /\ c.g.value = b.g.value
    /\ c.g.down => IF button = "accept" THEN down ELSE b.g.down
    /\ \A side \in Sides :
        /\ c.g.dx = Toward(side) =>
             IF button = Dpad(side) THEN down ELSE b.g.dx = Toward(side)
        /\ "shoulder" \in c.g.sources[side] =>
             IF button = Shoulder(side) THEN down ELSE "shoulder" \in b.g.sources[side]

\* A shoulder pushes the right stick.
LEMMA ShoulderAnswers ==
    ASSUME NEW b \in Pairs, Coherent(b), NEW side \in Sides, NEW down \in BOOLEAN,
           NEW n \in Globals, Alike(b.g, n)
    PROVE  Answers(b, [b EXCEPT !.g = right_axis_button(n, side, "shoulder", down)],
                   Shoulder(side), down)
<1> DEFINE h == right_axis_button(n, side, "shoulder", down)
           c == [b EXCEPT !.g = h]
<1>1. /\ h \in Globals
      /\ h.enabled = n.enabled /\ h.mouse = n.mouse /\ h.visible = n.visible
      /\ h.down = n.down /\ h.dx = n.dx /\ h.value = n.value
      /\ h.sources = [n.sources EXCEPT ![side] = IF down THEN @ \cup {"shoulder"}
                                                 ELSE @ \ {"shoulder"}]
  BY AxisButton
<1> HIDE DEF h
<1>2. c \in Pairs /\ c.g = h /\ c.t = b.t
  BY <1>1, Halves
<1> HIDE DEF c
<1>3. n.sources \in [Sides -> SUBSET {"trigger", "shoulder"}] /\ n.sources = b.g.sources
  BY DEF Globals, Alike
<1>4. \A x \in Sides :
        /\ "trigger" \in c.g.sources[x] => "trigger" \in b.g.sources[x]
        /\ "shoulder" \in c.g.sources[x] =>
             IF x = side THEN down ELSE "shoulder" \in b.g.sources[x]
  BY <1>1, <1>2, <1>3
<1>5. Coherent(c)
  BY <1>1, <1>2, <1>4 DEF Coherent, Alike
<1>6. Shoulder(side) # "accept" /\ \A x \in Sides : Shoulder(side) # Dpad(x)
  BY DEF Shoulder, Dpad, Sides
<1>7. c.g.value = b.g.value /\ c.g.down = b.g.down /\ c.g.dx = b.g.dx
  BY <1>1, <1>2 DEF Alike
<1> QED
  BY <1>2, <1>4, <1>5, <1>6, <1>7, ButtonNames DEF Answers, c, h

\* The d-pad moves a cursor that is in sight.
LEMMA SteerAnswers ==
    ASSUME NEW b \in Pairs, Coherent(b), b.g.mouse, b.g.enabled, NEW side \in Sides,
           NEW down \in BOOLEAN, NEW n \in Globals, Alike(b.g, n)
    PROVE  Answers(b, [b EXCEPT !.g = steer(n, side, down)], Dpad(side), down)
<1> DEFINE x == IF down THEN Toward(side) ELSE IF n.dx = Toward(side) THEN 0 ELSE n.dx
           h == [n EXCEPT !.dx = x]
           c == [b EXCEPT !.g = h]
<1>1. x \in -1 .. 1
  BY Facts, ButtonNames DEF Globals
<1>2. steer(n, side, down) = h
  BY DEF steer
<1> HIDE DEF x
<1>3. /\ h \in Globals /\ h.dx = x /\ h.enabled = n.enabled /\ h.mouse = n.mouse
      /\ h.visible = n.visible /\ h.down = n.down /\ h.value = n.value /\ h.sources = n.sources
  <2>1. h \in Globals
    BY <1>1, GlobalChange
  <2> QED
    BY <1>1, <2>1 DEF Globals
<1> HIDE DEF h
<1>4. c \in Pairs /\ c.g = h /\ c.t = b.t
  BY <1>3, Halves
<1> HIDE DEF c
<1>5. /\ c.g.value = b.g.value /\ c.g.down = b.g.down /\ c.g.sources = b.g.sources
      /\ c.g.visible = b.g.visible /\ c.g.mouse = b.g.mouse /\ c.g.enabled = b.g.enabled
  BY <1>3, <1>4 DEF Alike
<1>6. Coherent(c)
  <2>1. b.g.visible
    BY DEF Coherent
  <2> QED
    BY <1>4, <1>5, <2>1 DEF Coherent
<1>7. \A y \in Sides : c.g.dx = Toward(y) =>
        IF y = side THEN down ELSE b.g.dx = Toward(y)
  <2>1. c.g.dx = x /\ n.dx = b.g.dx
    BY <1>3, <1>4 DEF Alike
  <2> QED
    BY <2>1, ButtonNames DEF x
<1>8. Dpad(side) # "accept" /\ \A y \in Sides : Dpad(side) # Shoulder(y)
  BY DEF Shoulder, Dpad, Sides
<1> QED
  BY <1>2, <1>4, <1>5, <1>6, <1>7, <1>8, ButtonNames DEF Answers, c

\* Accept is the finger at the cursor.
LEMMA TapAnswers ==
    ASSUME NEW b \in Pairs, Coherent(b), b.g.mouse, b.g.enabled, NEW down \in BOOLEAN,
           NEW n \in Globals, Alike(b.g, n)
    PROVE  Answers(b, cursor_tap([b EXCEPT !.g = n], down), "accept", down)
<1> DEFINE m == [b EXCEPT !.g = n]
           c == cursor_tap(m, down)
<1>1. m \in Pairs /\ m.g = n /\ m.t = b.t
  BY Halves
<1> HIDE DEF m
<1>2. n.visible /\ m.t.finger = m.g.down
  BY <1>1 DEF Coherent, Alike
<1>3. /\ c \in Pairs
      /\ c.t.finger = c.g.down /\ c.g.visible
      /\ c.g.enabled = m.g.enabled /\ c.g.mouse = m.g.mouse /\ c.g.dx = m.g.dx
      /\ c.g.sources = m.g.sources /\ c.g.value = m.g.value
      /\ c.t.trigger = m.t.trigger
  <2>1. c \in Pairs
    BY <1>1, <1>2, CursorTap
  <2>2. c.t.finger = c.g.down
    BY <1>1, <1>2, CursorTap
  <2>3. c.g.enabled = m.g.enabled
    BY <1>1, <1>2, CursorTap
  <2>4. c.g.mouse = m.g.mouse
    BY <1>1, <1>2, CursorTap
  <2>5. c.g.dx = m.g.dx /\ c.g.sources = m.g.sources /\ c.g.value = m.g.value
    BY <1>1, <1>2, CursorTap
  <2>6. c.t.trigger = m.t.trigger
    BY <1>1, <1>2, CursorTap
  <2>7. c.g.visible
    BY <1>1, <1>2, CursorTap
  <2> QED
    BY <2>1, <2>2, <2>3, <2>4, <2>5, <2>6, <2>7
<1>8. m.g.visible => c.g.down = down
  BY <1>1, <1>2, CursorTap
<1> HIDE DEF c
<1>4. /\ c.g.enabled = b.g.enabled /\ c.g.mouse = b.g.mouse
      /\ c.g.dx = b.g.dx /\ c.g.sources = b.g.sources /\ c.g.value = b.g.value
      /\ c.t.trigger = b.t.trigger
  BY <1>1, <1>3 DEF Alike
<1>5. Coherent(c)
  <2>1. c.g.visible \in BOOLEAN
    BY <1>3, Halves DEF Globals
  <2>2. c.g.visible = (c.g.mouse /\ c.g.enabled)
    BY <1>3, <1>4, <2>1
  <2>3. \A side \in Sides :
          /\ c.t.trigger[side] = IF c.g.mouse THEN 0 ELSE c.g.value[side]
          /\ "trigger" \in c.g.sources[side] => c.g.mouse /\ c.g.value[side] = Full
    BY <1>4 DEF Coherent
  <2> QED
    BY <1>3, <2>2, <2>3 DEF Coherent
<1>6. c.g.down => down
  BY <1>1, <1>2, <1>8
<1>7. \A side \in Sides : Dpad(side) # "accept" /\ Shoulder(side) # "accept"
  BY DEF Dpad, Shoulder
<1> QED
  BY <1>3, <1>4, <1>5, <1>6, <1>7 DEF Answers, c, m

\* A key of the game moves nothing of the bridge's own.
LEMMA KeyAnswers ==
    ASSUME NEW b \in Pairs, NEW c, NEW button, NEW down \in BOOLEAN, Safe(b, c),
           button \notin {"L1", "R1"},
           button \in {"accept", "dpad_left", "dpad_right"} => ~(b.g.mouse /\ b.g.enabled),
           Coherent(b)
    PROVE  Answers(b, c, button, down)
<1>1. c \in Pairs /\ Coherent(c) /\ Calmer(b.g, c.g)
  BY DEF Safe
<1>2. button \in {"accept", "dpad_left", "dpad_right"} => ~b.g.down /\ b.g.dx = 0
  BY DEF Coherent
<1>3. \A side \in Sides : /\ button # Shoulder(side) /\ Toward(side) # 0
                          /\ Dpad(side) \in {"dpad_left", "dpad_right"}
  BY ButtonNames
<1>4. c.g.down => b.g.down /\ button # "accept"
  BY <1>1, <1>2 DEF Calmer
<1>5. ASSUME NEW side \in Sides, c.g.dx = Toward(side)
      PROVE  button # Dpad(side) /\ b.g.dx = Toward(side)
  <2>1. b.g.dx = Toward(side) /\ b.g.dx # 0
    BY <1>1, <1>3, <1>5 DEF Calmer
  <2> QED
    BY <1>2, <1>3, <2>1
<1> QED
  BY <1>1, <1>3, <1>4, <1>5 DEF Answers, Calmer

LEMMA ButtonEvent ==
    ASSUME NEW b \in Pairs, Coherent(b), NEW button \in Buttons, NEW down \in BOOLEAN
    PROVE  Answers(b, button_event(b, button, down), button, down)
<1> DEFINE held == IF down THEN b.g.buttons \cup {button} ELSE b.g.buttons \ {button}
           m    == [b.g EXCEPT !.buttons = held]
           n    == note_input(m)
           keys == IF down THEN b.t.keys \cup {button} ELSE b.t.keys \ {button}
           t    == [b.t EXCEPT !.keys = keys]
           c    == button_event(b, button, down)
<1>1. b.g \in Globals /\ b.t \in Tellings
  BY Halves
<1>2. held \in SUBSET Buttons /\ keys \in SUBSET Buttons
  BY <1>1 DEF Globals, Tellings
<1>3. n \in Globals /\ Alike(b.g, n)
  <2>1. m \in Globals
    <3> HIDE DEF held
    <3> QED
      BY <1>1, <1>2, GlobalChange
  <2>2. Alike(b.g, m)
    BY <1>1, <2>1 DEF Globals, Alike
  <2> HIDE DEF m
  <2> QED
    BY <2>1, <2>2, NoteInput DEF Alike
<1>4. t \in Tellings /\ t.finger = b.t.finger /\ t.trigger = b.t.trigger
  <2> HIDE DEF keys
  <2>1. t \in Tellings
    BY <1>1, <1>2, TellingChange
  <2> QED
    BY <1>1, <2>1 DEF Tellings
<1>5. c = CASE button \in {"L1", "R1"} ->
                 [b EXCEPT !.g = right_axis_button(n, SideOf(button), "shoulder", down)]
            [] (n.mouse /\ n.enabled) /\ button \in {"dpad_left", "dpad_right"} ->
                 [b EXCEPT !.g = steer(n, SideOf(button), down)]
            [] (n.mouse /\ n.enabled) /\ button = "accept" ->
                 cursor_tap([b EXCEPT !.g = n], down)
            [] OTHER -> [g |-> n, t |-> t]
  BY DEF button_event, SideOf
<1> HIDE DEF n, t, c
<1>6. n.mouse = b.g.mouse /\ n.enabled = b.g.enabled
  BY <1>3 DEF Alike
<1>7. CASE button \in {"L1", "R1"}
  <2>1. PICK side \in Sides : button = Shoulder(side)
    BY <1>7, ButtonNames
  <2>2. SideOf(button) = side
    BY <2>1, ButtonNames
  <2>3. c = [b EXCEPT !.g = right_axis_button(n, side, "shoulder", down)]
    BY <1>5, <1>7, <2>2
  <2> QED
    BY <1>3, <2>1, <2>3, ShoulderAnswers DEF c
<1>8. CASE (b.g.mouse /\ b.g.enabled) /\ button \in {"dpad_left", "dpad_right"}
  <2>1. PICK side \in Sides : button = Dpad(side)
    BY <1>8, ButtonNames
  <2>2. SideOf(button) = side
    BY <2>1, ButtonNames
  <2>3. c = [b EXCEPT !.g = steer(n, side, down)]
    BY <1>5, <1>6, <1>8, <2>2
  <2> QED
    BY <1>3, <1>8, <2>1, <2>3, SteerAnswers DEF c
<1>9. CASE (b.g.mouse /\ b.g.enabled) /\ button = "accept"
  <2>1. c = cursor_tap([b EXCEPT !.g = n], down)
    BY <1>5, <1>6, <1>9
  <2> QED
    BY <1>3, <1>9, <2>1, TapAnswers DEF c
<1>10. CASE /\ button \notin {"L1", "R1"}
            /\ button \in {"accept", "dpad_left", "dpad_right"} => ~(b.g.mouse /\ b.g.enabled)
  <2>1. c = [g |-> n, t |-> t]
    BY <1>5, <1>6, <1>10
  <2>2. Safe(b, c)
    BY <1>3, <1>4, <2>1, SameTold
  <2> QED
    BY <1>10, <2>2, KeyAnswers DEF c
<1> QED
  BY <1>7, <1>8, <1>9, <1>10

-----------------------------------------------------------------------------
(* The actions.                                                            *)

LEMMA BridgePair ==
    /\ Typed(Bridge) <=> Bridge \in Pairs
    /\ Bridge.g = s /\ Bridge.t = told
BY DEF Typed, Pairs, Bridge

\* The pair a handler leaves is the bridge's next state.
LEMMA NextPair ==
    ASSUME NEW c \in Pairs, Becomes(c)
    PROVE  Bridge' = c /\ s' = c.g /\ told' = c.t
BY DEF Becomes, Bridge, Pairs

\* The player's triggers look the same when the open pads that pull one do.
LEMMA SamePull ==
    ASSUME PadsKnown, NEW side \in Sides, open' \subseteq Pads,
           \A p \in Pads : (p \in open' /\ pad'[p].pull[side] # 0)
                             <=> (p \in open /\ pad[p].pull[side] # 0),
           \A p \in Pads : pad'[p].pull = pad[p].pull
    PROVE  Pulled(side)' = Pulled(side)
<1> DEFINE on  == {p \in open : pad[p].pull[side] # 0}
           new == {p \in open' : pad'[p].pull[side] # 0}
<1>1. new = on
  BY DEF PadsKnown
<1>2. Pulled(side) = IF on = {} THEN 0 ELSE pad[CHOOSE p \in on : TRUE].pull[side]
  BY DEF Pulled
<1>3. Pulled(side)' = IF new = {} THEN 0 ELSE pad'[CHOOSE p \in new : TRUE].pull[side]
  BY DEF Pulled
<1>4. on # {} => (CHOOSE p \in on : TRUE) \in Pads
  BY DEF PadsKnown
<1> HIDE DEF on, new
<1> QED
  BY <1>1, <1>2, <1>3, <1>4

\* Handlers that only forget keep the invariant while the pads stay.
LEMMA SafeStep ==
    ASSUME BridgeInv, NEW c, Safe(Bridge, c), Becomes(c), PadsKnown',
           \A control \in Controls : Holding(control) => Holding(control)',
           \A side \in Sides : Pulled(side)' = Pulled(side)
    PROVE  BridgeInv'
<1>1. c \in Pairs /\ Coherent(c) /\ Calmer(s, c.g)
  BY BridgePair DEF Safe
<1>2. Bridge' = c /\ s' = c.g
  BY <1>1, NextPair
<1>3. Typed(Bridge)' /\ Coherent(Bridge)'
  <2>1. Typed(c)
    BY <1>1 DEF Typed, Pairs
  <2>2. Typed(Bridge') /\ Coherent(Bridge')
    BY <1>1, <1>2, <2>1
  <2> QED
    BY <2>2 DEF Typed, Coherent, Globals, Tellings, Bridge
<1>4. Follows'
  <2>1. s'.down => s.down
    BY <1>1, <1>2 DEF Calmer
  <2>2. ASSUME NEW side \in Sides
        PROVE  /\ s'.dx = Toward(side) => s.dx = Toward(side)
               /\ "shoulder" \in s'.sources[side] => "shoulder" \in s.sources[side]
               /\ s'.value = s.value
    BY <1>1, <1>2, ButtonNames DEF Calmer
  <2>3. "accept" \in Controls
        /\ \A side \in Sides : Dpad(side) \in Controls /\ Shoulder(side) \in Controls
    BY DEF Controls, Buttons, Dpad, Shoulder
  <2>4. s'.down => Holding("accept")'
    BY <2>1, <2>3 DEF BridgeInv, Follows
  <2>5. ASSUME NEW side \in Sides
        PROVE  /\ s'.dx = Toward(side) => Holding(Dpad(side))'
               /\ "shoulder" \in s'.sources[side] => Holding(Shoulder(side))'
               /\ s'.value[side] = Pulled(side)'
    BY <2>2, <2>3 DEF BridgeInv, Follows
  <2> QED
    BY <2>4, <2>5 DEF Follows
<1> QED
  BY <1>3, <1>4 DEF BridgeInv

LEMMA TickKeeps ==
    ASSUME BridgeInv, Tick
    PROVE  BridgeInv'
<1> DEFINE later == IF s.mouse /\ s.idle < Timeout THEN [s EXCEPT !.idle = @ + 1] ELSE s
           b     == [g |-> later, t |-> told]
           moved == update_sticks(b)
           c     == mouse_mode_timeout(moved)
<1>1. Bridge \in Pairs /\ s \in Globals /\ told \in Tellings /\ Coherent(Bridge)
  BY BridgePair, Halves DEF BridgeInv
<1>2. later \in Globals /\ Alike(s, later)
  <2>1. CASE s.mouse /\ s.idle < Timeout
    <3> DEFINE h == [s EXCEPT !.idle = s.idle + 1]
    <3>1. s.idle + 1 \in 0 .. Timeout
      BY <1>1, <2>1, Facts DEF Globals
    <3>2. h \in Globals
      BY <1>1, <3>1, GlobalChange
    <3>3. Alike(s, h)
      BY <1>1, <3>2 DEF Globals, Alike
    <3> QED
      BY <2>1, <3>2, <3>3
  <2>2. CASE ~(s.mouse /\ s.idle < Timeout)
    BY <1>1, <2>2 DEF Alike
  <2> QED
    BY <2>1, <2>2
<1> HIDE DEF later
<1>3. Safe(Bridge, b)
  <2>1. Alike(Bridge.g, later) /\ Bridge.t = told
    BY <1>2, BridgePair
  <2> QED
    BY <1>1, <1>2, <2>1, SameTold
<1> HIDE DEF b
<1>4. Safe(b, moved)
  BY <1>3, UpdateSticks DEF Safe
<1> HIDE DEF moved
<1>5. Safe(moved, c)
  BY <1>4, MouseModeTimeout DEF Safe
<1>6. Becomes(c) /\ UNCHANGED <<pad, open>>
  BY DEF Tick, b, later, moved
<1> HIDE DEF c
<1>7. Safe(Bridge, c)
  BY <1>3, <1>4, <1>5, SafeTrans
<1>8. PadsKnown'
  BY <1>6 DEF BridgeInv, PadsKnown
<1>9. \A control \in Controls : Holding(control) => Holding(control)'
  BY <1>6 DEF Holding
<1>10. \A side \in Sides : Pulled(side)' = Pulled(side)
  BY <1>6 DEF Pulled
<1> QED
  BY <1>6, <1>7, <1>8, <1>9, <1>10, SafeStep

LEMMA PlugKeeps ==
    ASSUME BridgeInv, NEW p \in Pads, Plug(p)
    PROVE  BridgeInv'
<1>1. Bridge \in Pairs /\ Coherent(Bridge) /\ PadsKnown
  BY BridgePair DEF BridgeInv
<1>2. Safe(Bridge, Bridge) /\ Becomes(Bridge)
  BY <1>1, CalmerTrans, BridgePair DEF Safe, Becomes, Plug
<1>3. PadsKnown'
  BY <1>1 DEF PadsKnown, Plug
<1>4. \A control \in Controls : Holding(control) => Holding(control)'
  BY DEF Holding, Plug
<1>5. ASSUME NEW side \in Sides
      PROVE  Pulled(side)' = Pulled(side)
  <2>1. pad[p].pull[side] = 0
    BY <1>1 DEF PadsKnown, Plug, AtRest
  <2> QED
    BY <1>1, <1>3, <2>1, SamePull DEF Plug, PadsKnown
<1> QED
  BY <1>2, <1>3, <1>4, <1>5, SafeStep

\* A pad changes: its controls, and only those.
LEMMA PadChange ==
    ASSUME PadsKnown, NEW p \in Pads, NEW r \in [held : SUBSET Buttons, pull : [Sides -> Pulls],
                                                 stick : -1 .. 1],
           p \in open, pad' = [pad EXCEPT ![p] = r], open' = open,
           \A side \in Sides : r.pull[side] # 0 => Trigger(side) \in Uses[p]
    PROVE  PadsKnown' /\ pad'[p] = r /\ \A q \in Pads \ {p} : pad'[q] = pad[q]
<1>1. pad'[p] = r /\ \A q \in Pads \ {p} : pad'[q] = pad[q]
  BY DEF PadsKnown
<1>2. pad' \in [Pads -> [held : SUBSET Buttons, pull : [Sides -> Pulls], stick : -1 .. 1]]
  BY DEF PadsKnown
<1>3. \A q \in Pads \ open' : pad'[q] = AtRest
  BY <1>1 DEF PadsKnown
<1>4. \A q \in Pads, side \in Sides : pad'[q].pull[side] # 0 => Trigger(side) \in Uses[q]
  BY <1>1 DEF PadsKnown
<1> QED
  BY <1>1, <1>2, <1>3, <1>4 DEF PadsKnown

LEMMA StickKeeps ==
    ASSUME BridgeInv, NEW p \in Pads, NEW x \in -1 .. 1, Stick(p, x)
    PROVE  BridgeInv'
<1> DEFINE moved == [s EXCEPT !.rx = x]
           h     == IF x # 0 THEN note_input(moved) ELSE moved
           c     == [g |-> h, t |-> told]
           r     == [pad[p] EXCEPT !.stick = x]
<1>1. Bridge \in Pairs /\ Coherent(Bridge) /\ PadsKnown /\ s \in Globals /\ told \in Tellings
  BY BridgePair, Halves DEF BridgeInv
<1>2. h \in Globals /\ Alike(s, h)
  <2>1. moved \in Globals
    BY <1>1, GlobalChange
  <2>2. Alike(s, moved)
    BY <1>1, <2>1 DEF Globals, Alike
  <2> HIDE DEF moved
  <2>3. note_input(moved) \in Globals /\ Alike(moved, note_input(moved))
    BY <2>1, NoteInput
  <2> QED
    BY <2>1, <2>2, <2>3 DEF Alike
<1>3. p \in open /\ s' = h /\ told' = told /\ open' = open
  BY DEF Stick
<1> HIDE DEF h
<1>4. Safe(Bridge, c)
  <2>1. Alike(Bridge.g, h) /\ Bridge.t = told
    BY <1>2, BridgePair
  <2> QED
    BY <1>1, <1>2, <2>1, SameTold
<1>5. Becomes(c)
  BY <1>3 DEF Becomes
<1>6. /\ r \in [held : SUBSET Buttons, pull : [Sides -> Pulls], stick : -1 .. 1]
      /\ r.held = pad[p].held /\ r.pull = pad[p].pull
  BY <1>1 DEF PadsKnown
<1>7. pad' = [pad EXCEPT ![p] = r]
  BY DEF Stick
<1>8. \A side \in Sides : r.pull[side] # 0 => Trigger(side) \in Uses[p]
  BY <1>1, <1>6 DEF PadsKnown
<1> HIDE DEF r, c
<1>9. PadsKnown' /\ pad'[p] = r /\ \A q \in Pads \ {p} : pad'[q] = pad[q]
  BY <1>1, <1>3, <1>6, <1>7, <1>8, PadChange
<1>10. \A q \in Pads : pad'[q].held = pad[q].held /\ pad'[q].pull = pad[q].pull
  BY <1>6, <1>9
<1>11. open \subseteq Pads
  BY <1>1 DEF PadsKnown
<1>12. \A control \in Controls : Holding(control) => Holding(control)'
  BY <1>3, <1>10, <1>11 DEF Holding
<1>13. \A side \in Sides : Pulled(side)' = Pulled(side)
  BY <1>1, <1>3, <1>10, <1>11, SamePull
<1> QED
  BY <1>4, <1>5, <1>9, <1>12, <1>13, SafeStep

LEMMA ButtonKeeps ==
    ASSUME BridgeInv, NEW p \in Pads, NEW button \in Buttons, Button(p, button)
    PROVE  BridgeInv'
<1> DEFINE down == button \notin pad[p].held
           held == IF down THEN pad[p].held \cup {button} ELSE pad[p].held \ {button}
           r    == [pad[p] EXCEPT !.held = held]
           c    == IF button = "select" THEN select_event(Bridge, down)
                   ELSE button_event(Bridge, button, down)
<1>1. Bridge \in Pairs /\ Coherent(Bridge) /\ PadsKnown /\ Bridge.g = s
  BY BridgePair DEF BridgeInv
<1>2. p \in open /\ Becomes(c) /\ open' = open /\ pad' = [pad EXCEPT ![p] = r] /\ down \in BOOLEAN
  BY DEF Button
<1>3. /\ r \in [held : SUBSET Buttons, pull : [Sides -> Pulls], stick : -1 .. 1]
      /\ r.held = held /\ r.pull = pad[p].pull
  BY <1>1 DEF PadsKnown
<1>4. \A side \in Sides : r.pull[side] # 0 => Trigger(side) \in Uses[p]
  BY <1>1, <1>3 DEF PadsKnown
<1> HIDE DEF r
<1>5. PadsKnown' /\ pad'[p] = r /\ \A q \in Pads \ {p} : pad'[q] = pad[q]
  BY <1>1, <1>2, <1>3, <1>4, PadChange
<1>6. open \subseteq Pads
  BY <1>1 DEF PadsKnown
<1>7. \A control \in Controls \ {button} : Holding(control) => Holding(control)'
  BY <1>2, <1>3, <1>5, <1>6 DEF Holding
<1>8. down => Holding(button)'
  BY <1>2, <1>3, <1>5 DEF Holding
<1>9. \A side \in Sides : Pulled(side)' = Pulled(side)
  <2>1. \A q \in Pads : pad'[q].pull = pad[q].pull
    BY <1>3, <1>5
  <2> QED
    BY <1>1, <1>2, <1>6, <2>1, SamePull
<1> HIDE DEF down
<1>10. Answers(Bridge, c, button, down)
  <2>1. CASE button = "select"
    <3>1. Safe(Bridge, select_event(Bridge, down))
      BY <1>1, <1>2, SelectEvent
    <3>2. button \notin {"L1", "R1"} /\ button \notin {"accept", "dpad_left", "dpad_right"}
      BY <2>1
    <3>3. Answers(Bridge, select_event(Bridge, down), button, down)
      BY <1>1, <1>2, <3>1, <3>2, KeyAnswers
    <3> QED
      BY <2>1, <3>3
  <2>2. CASE button # "select"
    BY <1>1, <1>2, <2>2, ButtonEvent
  <2> QED
    BY <2>1, <2>2
<1> HIDE DEF c
<1>11. c \in Pairs /\ Coherent(c)
  BY <1>10 DEF Answers
<1>12. Bridge' = c /\ s' = c.g
  BY <1>2, <1>11, NextPair
<1>13. Typed(Bridge)' /\ Coherent(Bridge)'
  <2>1. Typed(Bridge') /\ Coherent(Bridge')
    BY <1>11, <1>12 DEF Typed, Pairs
  <2> QED
    BY <2>1 DEF Typed, Coherent, Globals, Tellings, Bridge
<1>14. Follows'
  <2>1. "accept" \in Controls
        /\ \A side \in Sides : Dpad(side) \in Controls /\ Shoulder(side) \in Controls
    BY DEF Controls, Buttons, Dpad, Shoulder
  <2>2. s'.down => Holding("accept")'
    <3>1. CASE button = "accept"
      BY <1>8, <1>10, <1>12, <3>1 DEF Answers
    <3>2. CASE button # "accept"
      BY <1>1, <1>7, <1>10, <1>12, <2>1, <3>2 DEF Answers, BridgeInv, Follows
    <3> QED
      BY <3>1, <3>2
  <2>3. ASSUME NEW side \in Sides, s'.dx = Toward(side)
        PROVE  Holding(Dpad(side))'
    <3>1. CASE button = Dpad(side)
      BY <1>8, <1>10, <1>12, <2>3, <3>1 DEF Answers
    <3>2. CASE button # Dpad(side)
      BY <1>1, <1>7, <1>10, <1>12, <2>1, <2>3, <3>2 DEF Answers, BridgeInv, Follows
    <3> QED
      BY <3>1, <3>2
  <2>4. ASSUME NEW side \in Sides, "shoulder" \in s'.sources[side]
        PROVE  Holding(Shoulder(side))'
    <3>1. CASE button = Shoulder(side)
      BY <1>8, <1>10, <1>12, <2>4, <3>1 DEF Answers
    <3>2. CASE button # Shoulder(side)
      BY <1>1, <1>7, <1>10, <1>12, <2>1, <2>4, <3>2 DEF Answers, BridgeInv, Follows
    <3> QED
      BY <3>1, <3>2
  <2>5. \A side \in Sides : s'.value[side] = Pulled(side)'
    BY <1>1, <1>9, <1>10, <1>12 DEF Answers, BridgeInv, Follows
  <2> QED
    BY <2>2, <2>3, <2>4, <2>5 DEF Follows
<1> QED
  BY <1>5, <1>13, <1>14 DEF BridgeInv

\* In either mode a moved trigger is known where it now counts.
LEMMA TriggerCoherent ==
    ASSUME NEW b \in Pairs, Coherent(b), NEW side \in Sides, NEW value \in Pulls
    PROVE  LET c == trigger_changed(b, side, value)
           IN  /\ c \in Pairs /\ Coherent(c)
               /\ c.g.down = b.g.down /\ c.g.dx = b.g.dx
               /\ c.g.value = With(b.g.value, side, value)
               /\ \A x \in Sides : "shoulder" \in c.g.sources[x] => "shoulder" \in b.g.sources[x]
<1> DEFINE c == trigger_changed(b, side, value)
<1>1. /\ c \in Pairs
      /\ c.g.enabled = b.g.enabled /\ c.g.mouse = b.g.mouse
      /\ c.g.visible = b.g.visible /\ c.g.dx = b.g.dx /\ c.g.down = b.g.down
      /\ c.t.finger = b.t.finger
      /\ c.g.value = With(b.g.value, side, value)
  BY TriggerChanged
<1>2. b.g.mouse => /\ c.t.trigger = b.t.trigger
                   /\ c.g.sources = Turned(b.g.sources, side, "trigger", value = Full)
  BY TriggerChanged
<1>3. ~b.g.mouse => /\ c.t.trigger = With(b.t.trigger, side, value)
                    /\ c.g.sources = b.g.sources
  BY TriggerChanged
<1> HIDE DEF c
<1>4. /\ b.g.sources \in [Sides -> SUBSET {"trigger", "shoulder"}]
      /\ b.g.value \in [Sides -> Pulls] /\ b.t.trigger \in [Sides -> Pulls]
      /\ b.g.mouse \in BOOLEAN
  BY Halves DEF Globals, Tellings
<1>5. \A x \in Sides : c.g.value[x] = IF x = side THEN value ELSE b.g.value[x]
  BY <1>1, <1>4 DEF With
<1>6. \A x \in Sides :
        /\ c.t.trigger[x] = IF c.g.mouse THEN 0 ELSE c.g.value[x]
        /\ "trigger" \in c.g.sources[x] => c.g.mouse /\ c.g.value[x] = Full
        /\ "shoulder" \in c.g.sources[x] => "shoulder" \in b.g.sources[x]
  <2>1. CASE b.g.mouse
    <3>1. \A x \in Sides : b.t.trigger[x] = 0
                           /\ ("trigger" \in b.g.sources[x] => b.g.value[x] = Full)
      BY <2>1 DEF Coherent
    <3>2. \A x \in Sides :
            /\ "trigger" \in c.g.sources[x] =>
                 IF x = side THEN value = Full ELSE "trigger" \in b.g.sources[x]
            /\ "shoulder" \in c.g.sources[x] => "shoulder" \in b.g.sources[x]
      BY <1>2, <1>4, <2>1 DEF Turned
    <3>3. c.g.mouse
      BY <1>1, <2>1
    <3> QED
      BY <1>2, <1>5, <2>1, <3>1, <3>2, <3>3
  <2>2. CASE ~b.g.mouse
    <3>1. \A x \in Sides : b.t.trigger[x] = b.g.value[x] /\ "trigger" \notin b.g.sources[x]
      BY <2>2 DEF Coherent
    <3>2. \A x \in Sides : c.t.trigger[x] = IF x = side THEN value ELSE b.t.trigger[x]
      BY <1>3, <1>4, <2>2 DEF With
    <3>3. ~c.g.mouse
      BY <1>1, <2>2
    <3> QED
      BY <1>3, <1>5, <2>2, <3>1, <3>2, <3>3
  <2> QED
    BY <2>1, <2>2
<1>7. Coherent(c)
  <2>1. c.t.finger = c.g.down /\ (c.g.down \/ c.g.dx # 0 => c.g.visible)
    BY <1>1 DEF Coherent
  <2>2. c.g.visible = (c.g.mouse /\ c.g.enabled)
    BY <1>1 DEF Coherent
  <2> QED
    BY <1>6, <2>1, <2>2 DEF Coherent
<1> QED
  BY <1>1, <1>6, <1>7 DEF c

LEMMA PullKeeps ==
    ASSUME BridgeInv, NEW p \in Pads, NEW side \in Sides, NEW value \in Pulls,
           Trigger(side) \in Uses[p], Pull(p, side, value)
    PROVE  BridgeInv'
<1> DEFINE pull == [pad[p].pull EXCEPT ![side] = value]
           r    == [pad[p] EXCEPT !.pull = pull]
           c    == trigger_changed(Bridge, side, value)
<1>1. Bridge \in Pairs /\ Coherent(Bridge) /\ PadsKnown /\ Bridge.g = s
  BY BridgePair DEF BridgeInv
<1>2. p \in open /\ Becomes(c) /\ open' = open /\ pad' = [pad EXCEPT ![p] = r]
  BY DEF Pull
<1>3. /\ pull \in [Sides -> Pulls]
      /\ \A x \in Sides : pull[x] = IF x = side THEN value ELSE pad[p].pull[x]
  BY <1>1 DEF PadsKnown
<1> HIDE DEF pull
<1>4. /\ r \in [held : SUBSET Buttons, pull : [Sides -> Pulls], stick : -1 .. 1]
      /\ r.held = pad[p].held /\ r.pull = pull
  BY <1>1, <1>3 DEF PadsKnown
<1>5. \A x \in Sides : r.pull[x] # 0 => Trigger(x) \in Uses[p]
  BY <1>1, <1>3, <1>4 DEF PadsKnown
<1> HIDE DEF r
<1>6. PadsKnown' /\ pad'[p] = r /\ \A q \in Pads \ {p} : pad'[q] = pad[q]
  BY <1>1, <1>2, <1>4, <1>5, PadChange
<1>7. open \subseteq Pads
  BY <1>1 DEF PadsKnown
<1>8. \A control \in Controls : Holding(control) => Holding(control)'
  BY <1>2, <1>4, <1>6, <1>7 DEF Holding
<1>9. \A q \in Pads \ {p} : pad[q].pull[side] = 0
  BY <1>1, UsesAssumption DEF PadsKnown
<1>10. Pulled(side)' = value
  <2> DEFINE new == {q \in open' : pad'[q].pull[side] # 0}
  <2>1. Pulled(side)' = IF new = {} THEN 0 ELSE pad'[CHOOSE q \in new : TRUE].pull[side]
    BY DEF Pulled
  <2>2. pad'[p].pull[side] = value /\ \A q \in Pads \ {p} : pad'[q].pull[side] = 0
    BY <1>3, <1>4, <1>6, <1>9
  <2>3. \A q \in new : q = p
    BY <1>2, <1>7, <2>2
  <2>4. p \in new <=> value # 0
    BY <1>2, <2>2
  <2>5. new # {} => (CHOOSE q \in new : TRUE) \in new
    OBVIOUS
  <2> HIDE DEF new
  <2>6. CASE value = 0
    BY <2>1, <2>3, <2>4, <2>6
  <2>7. CASE value # 0
    BY <2>1, <2>2, <2>3, <2>4, <2>5, <2>7
  <2> QED
    BY <2>6, <2>7
<1>11. ASSUME NEW x \in Sides, x # side
       PROVE  Pulled(x)' = Pulled(x)
  <2> DEFINE on  == {q \in open : pad[q].pull[x] # 0}
             new == {q \in open' : pad'[q].pull[x] # 0}
  <2>1. \A q \in Pads : pad'[q].pull[x] = pad[q].pull[x]
    BY <1>3, <1>4, <1>6, <1>11
  <2>2. new = on
    BY <1>2, <1>7, <2>1
  <2>3. Pulled(x) = IF on = {} THEN 0 ELSE pad[CHOOSE q \in on : TRUE].pull[x]
    BY DEF Pulled
  <2>4. Pulled(x)' = IF new = {} THEN 0 ELSE pad'[CHOOSE q \in new : TRUE].pull[x]
    BY DEF Pulled
  <2>5. on # {} => (CHOOSE q \in on : TRUE) \in Pads
    BY <1>7
  <2> HIDE DEF on, new
  <2> QED
    BY <2>1, <2>2, <2>3, <2>4, <2>5
<1>12. /\ c \in Pairs /\ Coherent(c)
       /\ c.g.down = s.down /\ c.g.dx = s.dx
       /\ c.g.value = With(s.value, side, value)
       /\ \A x \in Sides : "shoulder" \in c.g.sources[x] => "shoulder" \in s.sources[x]
  BY <1>1, TriggerCoherent
<1> HIDE DEF c
<1>13. Bridge' = c /\ s' = c.g
  BY <1>2, <1>12, NextPair
<1>14. Typed(Bridge)' /\ Coherent(Bridge)'
  <2>1. Typed(Bridge') /\ Coherent(Bridge')
    BY <1>12, <1>13 DEF Typed, Pairs
  <2> QED
    BY <2>1 DEF Typed, Coherent, Globals, Tellings, Bridge
<1>15. Follows'
  <2>1. "accept" \in Controls
        /\ \A x \in Sides : Dpad(x) \in Controls /\ Shoulder(x) \in Controls
    BY DEF Controls, Buttons, Dpad, Shoulder
  <2>2. s'.down => Holding("accept")'
    BY <1>8, <1>12, <1>13, <2>1 DEF BridgeInv, Follows
  <2>3. s.value \in [Sides -> Pulls]
    BY <1>1, Halves DEF Globals
  <2>4. \A x \in Sides : s'.value[x] = IF x = side THEN value ELSE s.value[x]
    BY <1>12, <1>13, <2>3 DEF With
  <2>5. \A x \in Sides : s'.value[x] = Pulled(x)'
    BY <1>10, <1>11, <2>4 DEF BridgeInv, Follows
  <2>6. \A x \in Sides : /\ s'.dx = Toward(x) => Holding(Dpad(x))'
                         /\ "shoulder" \in s'.sources[x] => Holding(Shoulder(x))'
    BY <1>8, <1>12, <1>13, <2>1 DEF BridgeInv, Follows
  <2> QED
    BY <2>2, <2>5, <2>6 DEF Follows
<1> QED
  BY <1>6, <1>14, <1>15 DEF BridgeInv

\* The last pad takes everything with it, and nothing was held on it.
LEMMA UnplugKeeps ==
    ASSUME BridgeInv, NEW p \in Pads, Unplug(p)
    PROVE  BridgeInv'
<1> DEFINE none      == [side \in Sides |-> {}]
           zero      == [side \in Sides |-> 0]
           f1        == [s EXCEPT !.select_down = FALSE]
           f2        == [f1 EXCEPT !.buttons = {}]
           forgotten == [f2 EXCEPT !.sources = none]
           c1        == [forgotten EXCEPT !.rx = 0]
           c2        == [c1 EXCEPT !.dx = 0]
           centred   == [c2 EXCEPT !.value = zero]
           g         == IF open' # {} THEN forgotten ELSE centred
           c         == [g |-> g, t |-> told]
<1>1. /\ Bridge \in Pairs /\ Coherent(Bridge) /\ PadsKnown /\ Bridge.g = s /\ Bridge.t = told
      /\ s \in Globals /\ told \in Tellings
  BY BridgePair, Halves DEF BridgeInv
<1>2. /\ none \in [Sides -> SUBSET {"trigger", "shoulder"}] /\ zero \in [Sides -> Pulls]
      /\ \A side \in Sides : none[side] = {} /\ zero[side] = 0
      /\ {} \in SUBSET Buttons
  BY Facts
<1> HIDE DEF none, zero
<1>3. /\ forgotten \in Globals
      /\ forgotten.enabled = s.enabled /\ forgotten.mouse = s.mouse
      /\ forgotten.visible = s.visible /\ forgotten.down = s.down /\ forgotten.dx = s.dx
      /\ forgotten.value = s.value /\ forgotten.sources = none
  <2>1. f1 \in Globals
    BY <1>1, GlobalChange
  <2>2. f2 \in Globals
    <3> HIDE DEF f1
    <3> QED
      BY <1>2, <2>1, GlobalChange
  <2>3. forgotten \in Globals
    <3> HIDE DEF f2
    <3> QED
      BY <1>2, <2>2, GlobalChange
  <2> QED
    BY <1>1, <2>3 DEF Globals
<1>4. Unplug(p) <=>
        /\ p \in open /\ pad[p] = AtRest
        /\ open' = open \ {p}
        /\ IF open' # {} THEN s' = forgotten /\ UNCHANGED told
           ELSE LET b == [g |-> centred, t |-> told]
                IN  Becomes(IF s.down THEN cursor_tap(b, FALSE) ELSE b)
        /\ UNCHANGED pad
  BY DEF Unplug, none, zero
<1> HIDE DEF forgotten
<1>5. /\ centred \in Globals
      /\ centred.enabled = s.enabled /\ centred.mouse = s.mouse
      /\ centred.visible = s.visible /\ centred.down = s.down /\ centred.dx = 0
      /\ centred.value = zero /\ centred.sources = none
  <2>1. c1 \in Globals
    BY <1>3, Facts, GlobalChange
  <2>2. c2 \in Globals
    <3> HIDE DEF c1
    <3> QED
      BY <2>1, Facts, GlobalChange
  <2>3. centred \in Globals
    <3> HIDE DEF c2
    <3> QED
      BY <1>2, <2>2, GlobalChange
  <2> QED
    BY <1>3, <2>3 DEF Globals
<1> HIDE DEF centred
<1>6. p \in open /\ pad[p] = AtRest /\ open' = open \ {p} /\ pad' = pad
  BY <1>4
<1>7. pad[p].held = {} /\ \A side \in Sides : pad[p].pull[side] = 0
  BY <1>6 DEF AtRest
<1>8. PadsKnown'
  BY <1>1, <1>6 DEF PadsKnown
<1>9. \A control \in Controls : Holding(control) => Holding(control)'
  BY <1>6, <1>7 DEF Holding
<1>10. \A side \in Sides : Pulled(side)' = Pulled(side)
  <2> TAKE side \in Sides
  <2>1. open' \subseteq Pads
    BY <1>1, <1>6 DEF PadsKnown
  <2>2. \A q \in Pads : (q \in open' /\ pad'[q].pull[side] # 0)
                          <=> (q \in open /\ pad[q].pull[side] # 0)
    BY <1>6, <1>7
  <2> QED
    BY <1>1, <1>6, <2>1, <2>2, SamePull
<1>11. ASSUME open' = {}
       PROVE  ~s.down /\ \A side \in Sides : s.value[side] = 0
  <2>1. ~Holding("accept")
    BY <1>6, <1>7, <1>11 DEF Holding
  <2>2. \A side \in Sides : Pulled(side) = 0
    BY <1>6, <1>7, <1>11 DEF Pulled
  <2> QED
    BY <2>1, <2>2 DEF BridgeInv, Follows
<1>12. s' = g /\ told' = told
  <2>1. CASE open' # {}
    BY <1>4, <2>1
  <2>2. CASE open' = {}
    BY <1>4, <1>11, <2>2 DEF Becomes
  <2> QED
    BY <2>1, <2>2
<1>13. /\ g \in Globals
       /\ g.enabled = s.enabled /\ g.mouse = s.mouse /\ g.visible = s.visible /\ g.down = s.down
       /\ g.dx # 0 => g.dx = s.dx
       /\ \A side \in Sides : g.value[side] = s.value[side] /\ g.sources[side] = {}
  BY <1>2, <1>3, <1>5, <1>11
<1> HIDE DEF g
<1>14. c \in Pairs /\ c.g = g /\ c.t = told
  BY <1>1, <1>13, Halves
<1>15. Becomes(c)
  BY <1>12, <1>14 DEF Becomes
<1> HIDE DEF c
<1>16. Coherent(c)
  BY <1>1, <1>13, <1>14 DEF Coherent
<1>17. Calmer(Bridge.g, c.g)
  <2>1. s.value \in [Sides -> Pulls] /\ g.value \in [Sides -> Pulls]
    BY <1>1, <1>13 DEF Globals
  <2>2. g.value = s.value
    BY <1>13, <2>1
  <2> QED
    BY <1>1, <1>13, <1>14, <2>2 DEF Calmer
<1> QED
  BY <1>8, <1>9, <1>10, <1>14, <1>15, <1>16, <1>17, SafeStep DEF Safe

-----------------------------------------------------------------------------
(* The theorems.                                                           *)

\* Every reachable state of the bridge satisfies the invariant.
LEMMA BridgeHolds == Spec => []BridgeInv
<1>1. Init => BridgeInv
  <2> SUFFICES ASSUME Init PROVE BridgeInv
    OBVIOUS
  <2>1. PICK enabled \in BOOLEAN :
          s = [enabled |-> enabled, mouse |-> FALSE, visible |-> FALSE,
               down |-> FALSE, dx |-> 0, select_down |-> FALSE, buttons |-> {},
               idle |-> 0, sources |-> [side \in Sides |-> {}],
               value |-> [side \in Sides |-> 0], rx |-> 0,
               last |-> FALSE, prev |-> FALSE]
    BY DEF Init
  <2>2. s \in Globals /\ told \in Tellings
    BY <2>1, Facts DEF Init, Globals, Tellings
  <2>3. Typed(Bridge)
    BY <2>2 DEF Typed, Bridge
  <2>4. Coherent(Bridge)
    BY <2>1 DEF Init, Coherent, Bridge
  <2>5. \A p \in Pads : pad[p] = AtRest
    BY DEF Init
  <2>6. PadsKnown
    <3>1. AtRest \in [held : SUBSET Buttons, pull : [Sides -> Pulls], stick : -1 .. 1]
      BY Facts DEF AtRest
    <3>2. \A side \in Sides : AtRest.pull[side] = 0
      BY DEF AtRest
    <3> QED
      BY <2>5, <3>1, <3>2 DEF Init, PadsKnown
  <2>7. Follows
    <3>1. \A side \in Sides : Pulled(side) = 0
      BY <2>5 DEF Pulled, AtRest, Init
    <3>2. \A side \in Sides : Toward(side) # 0
      BY ButtonNames
    <3> QED
      BY <2>1, <3>1, <3>2 DEF Follows
  <2> QED
    BY <2>3, <2>4, <2>6, <2>7 DEF BridgeInv
<1>2. BridgeInv /\ [Next]_vars => BridgeInv'
  <2> SUFFICES ASSUME BridgeInv, [Next]_vars PROVE BridgeInv'
    OBVIOUS
  <2>1. ASSUME NEW p \in Pads, NEW button \in Uses[p] \cap Buttons, Button(p, button)
        PROVE  BridgeInv'
    BY <2>1, ButtonKeeps
  <2>2. ASSUME NEW p \in Pads, NEW side \in Sides, NEW value \in Pulls,
               Trigger(side) \in Uses[p], Pull(p, side, value)
        PROVE  BridgeInv'
    BY <2>2, PullKeeps
  <2>3. ASSUME NEW p \in Pads, NEW x \in -1 .. 1, Stick(p, x)
        PROVE  BridgeInv'
    BY <2>3, StickKeeps
  <2>4. ASSUME NEW p \in Pads, Plug(p)
        PROVE  BridgeInv'
    BY <2>4, PlugKeeps
  <2>5. ASSUME NEW p \in Pads, Unplug(p)
        PROVE  BridgeInv'
    BY <2>5, UnplugKeeps
  <2>6. CASE Tick
    BY <2>6, TickKeeps
  <2>7. CASE UNCHANGED vars
    BY <2>7 DEF vars, BridgeInv, Typed, Coherent, PadsKnown, Follows, Bridge, Holding, Pulled,
                Globals, Tellings
  <2> QED
    BY <2>1, <2>2, <2>3, <2>4, <2>5, <2>6, <2>7 DEF Next
<1> QED
  BY <1>1, <1>2, PTL DEF Spec

\* Whatever order the mode, the timeout, the button and a pad's removal come
\* in, a finger the game believes to be on the screen is the player's thumb on
\* A in Mouse Mode (cursor_hide, cursor_tap, set_mouse_mode).
THEOREM FingerIsHeld == Spec => []FingerHeld
<1>1. BridgeInv => FingerHeld
  BY BridgePair DEF BridgeInv, Coherent, Follows, FingerHeld
<1> QED
  BY <1>1, BridgeHolds, PTL

\* The throttle and the brake the game knows are the player's in Normal Mode
\* and none in Mouse Mode, also when a trigger is held across the change of
\* mode (trigger_changed, enter_mouse_mode, leave_mouse_mode).
THEOREM ThrottleFollowsPlayer == Spec => []ThrottleFollows
<1>1. BridgeInv => ThrottleFollows
  BY BridgePair DEF BridgeInv, Coherent, Follows, ThrottleFollows
<1> QED
  BY <1>1, BridgeHolds, PTL

\* A source that pushes the right stick sideways is a shoulder or a full
\* trigger somebody holds (right_axis_button, right_axis_sources_reset).
THEOREM SourcesAreHeld == Spec => []SourcesHeld
<1>1. BridgeInv => SourcesHeld
  BY BridgePair DEF BridgeInv, Coherent, Follows, SourcesHeld
<1> QED
  BY <1>1, BridgeHolds, PTL

\* The cursor moves only the way the d-pad is held in Mouse Mode (the d-pad
\* cases of android_input_event, cursor_hide).
THEOREM CursorIsSteered == Spec => []CursorSteered
<1>1. BridgeInv => CursorSteered
  <2> SUFFICES ASSUME BridgeInv, NEW side \in Sides, s.dx = Toward(side)
               PROVE  s.mouse /\ s.visible /\ Holding(Dpad(side))
    BY DEF CursorSteered
  <2>1. s.dx # 0
    BY Facts DEF Sides
  <2>2. s.visible
    BY <2>1, BridgePair DEF BridgeInv, Coherent
  <2>3. s.mouse
    BY <2>2, BridgePair DEF BridgeInv, Coherent
  <2>4. Holding(Dpad(side))
    BY DEF BridgeInv, Follows
  <2> QED
    BY <2>2, <2>3, <2>4
<1> QED
  BY <1>1, BridgeHolds, PTL
=============================================================================
