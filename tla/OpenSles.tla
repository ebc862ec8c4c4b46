------------------------------ MODULE OpenSles ------------------------------
(***************************************************************************)
(* The OpenSL ES shim (android/opensles.cpp): buffer-queue players, the    *)
(* recursive lock g_audio_lock, and the pump that retires played buffers   *)
(* and asks the game's mixer for more.                                     *)
(*                                                                         *)
(* One byte of sound stands for one millisecond of it.  The pump holds the *)
(* lock from its first line to its last, so at most one pump is in         *)
(* progress and its local variables are the record `pump`.  What moves     *)
(* while it runs is what takes no lock: the sound device, the clock, and   *)
(* the game's calls to SetPlayState, Realize and CreateAudioPlayer.        *)
(***************************************************************************)
EXTENDS Integers, Sequences, SequencesExt, FiniteSetsExt

CONSTANTS
    Players,        \* the player objects the game may create
    NoPlayer,       \* the null pointer
    Sizes,          \* the buffer sizes the game enqueues
    TargetLow, TargetHigh, \* the clamp on the refill target (60 and 400 ms)
    MaxCalls,       \* callbacks in one pump (32)
    Word,           \* 2^w: the range of uint32_t
    MaxGap,         \* bound: how long a player goes between two stamps
    MaxPending,     \* bound: buffers the game enqueues on its own
    MaxCarry,       \* bound: the clock credit of a player with no device
    Devices         \* Devices[p]: may SDL open a device for p, may it refuse?

ASSUME SizeAssumption  == Sizes \subseteq Nat \ {0} /\ Sizes # {}
ASSUME PumpAssumption  == /\ TargetLow \in Nat \ {0} /\ TargetHigh \in Nat
                          /\ TargetLow <= TargetHigh /\ MaxCalls \in Nat \ {0}
ASSUME WordAssumption  == MaxGap \in Nat /\ Word \in Nat /\ Word > TargetHigh + MaxGap
ASSUME BoundAssumption == MaxPending \in Nat /\ MaxCarry \in Nat
ASSUME NullAssumption  == NoPlayer \notin Players

Stopped == "SL_PLAYSTATE_STOPPED"
Paused  == "SL_PLAYSTATE_PAUSED"
Playing == "SL_PLAYSTATE_PLAYING"
PlayStates == {Stopped, Paused, Playing}

ASSUME SwitchAssumption == Devices \in [Players -> SUBSET BOOLEAN]

VARIABLES
    g_players,  \* the list of live players, newest first
    pl,         \* pl[p]: the fields of player p
    run,        \* g_audio_run: the frame tick leaves the pump to the thread
    thread,     \* g_audio_thread: the mixer thread exists
    pump,       \* the pump in progress: where it is and its locals
    game,       \* the game thread's unlocked SetPlayState, if in one
    raced       \* history: players stopped during a pump since their queue was last cleared

vars == <<g_players, pl, run, thread, pump, game, raced>>

Player == [realized : BOOLEAN, device : BOOLEAN, unpaused : BOOLEAN,
           queued : Nat,          \* bytes SDL still holds for the device
           pending : Seq(Sizes),  \* buffers handed over, not yet retired
           state : PlayStates, callback : BOOLEAN,
           since : 0..MaxGap,     \* SDL_GetTicks() - last_drain_ms
           gap : 0..Word - 1,     \* worst_gap_ms
           carry : 0..MaxCarry]   \* carry_bytes

Created == [realized |-> FALSE, device |-> FALSE, unpaused |-> FALSE,
            queued |-> 0, pending |-> <<>>, state |-> Stopped,
            callback |-> FALSE, since |-> 0, gap |-> 0, carry |-> 0]

Idle == [at |-> "idle", cur |-> NoPlayer, snap |-> 0, elapsed |-> 0,
         done |-> 0, target |-> 0, queued |-> 0, calls |-> 0,
         declined |-> FALSE]

Quiet == [at |-> "idle", p |-> NoPlayer, to |-> Stopped]

Sum(s) == FoldSeq(LAMBDA x, y : x + y, 0, s)

\* The audio lock is free for a caller on another thread.
LockFree == pump.at = "idle"

\* The object of a call the game makes outside the pump's callback.
Calling(p) == game.at = "idle" /\ p \in ToSet(g_players)

-----------------------------------------------------------------------------
(* Objects.                                                                *)

CreateAudioPlayer(p) ==
    /\ game.at = "idle" /\ p \notin ToSet(g_players)
    /\ g_players' = <<p>> \o g_players
    /\ pl' = [pl EXCEPT ![p] = Created]
    /\ raced' = raced \ {p}
    /\ UNCHANGED <<run, thread, pump, game>>

\* The failure path forgets to put g_audio_run back.
audio_thread_start_stuck(opened) ==
    IF opened /\ ~thread
      THEN thread' \in BOOLEAN /\ run' = TRUE
      ELSE UNCHANGED <<run, thread>>

\* A player with a device starts the mixer thread once; SDL may fail to.
audio_thread_start(opened) ==
    IF opened /\ ~thread
      THEN thread' \in BOOLEAN /\ run' = thread'
      ELSE UNCHANGED <<run, thread>>

Realize(p) ==
    /\ Calling(p) /\ ~pl[p].realized
    /\ \E opened \in Devices[p] :
        /\ pl' = [pl EXCEPT ![p].device = opened, ![p].realized = TRUE,
                            ![p].since = 0]
        /\ audio_thread_start(opened)
    /\ UNCHANGED <<g_players, pump, game, raced>>

DestroyUnlocked(p) ==
    /\ Calling(p)
    /\ g_players' = RemoveFirst(g_players, p)
    /\ pl' = [pl EXCEPT ![p] = Created]
    /\ raced' = raced \ {p}
    /\ UNCHANGED <<run, thread, pump, game>>

Destroy(p) ==
    /\ Calling(p) /\ LockFree
    /\ g_players' = RemoveFirst(g_players, p)
    /\ pl' = [pl EXCEPT ![p] = Created]
    /\ raced' = raced \ {p}
    /\ UNCHANGED <<run, thread, pump, game>>

-----------------------------------------------------------------------------
(* The buffer queue.  These four take the lock; inside the pump's callback *)
(* the same thread holds it already.                                       *)

Enqueued(r, size) ==
    [r EXCEPT !.pending = Append(@, size),
              !.queued  = IF r.device THEN @ + size ELSE @]

Enqueue(p, size) ==
    /\ Calling(p) /\ LockFree /\ pl[p].realized
    /\ Len(pl[p].pending) < MaxPending
    /\ pl' = [pl EXCEPT ![p] = Enqueued(@, size)]
    /\ UNCHANGED <<g_players, run, thread, pump, game, raced>>

ClearUnlocked(p) ==
    /\ Calling(p) /\ pl[p].realized
    /\ pl' = [pl EXCEPT ![p].queued = 0, ![p].pending = <<>>, ![p].carry = 0]
    /\ raced' = raced \ {p}
    /\ UNCHANGED <<g_players, run, thread, pump, game>>

Clear(p) ==
    /\ Calling(p) /\ LockFree /\ pl[p].realized
    /\ pl' = [pl EXCEPT ![p].queued = 0, ![p].pending = <<>>, ![p].carry = 0]
    /\ raced' = raced \ {p}
    /\ UNCHANGED <<g_players, run, thread, pump, game>>

RegisterCallback(p) ==
    /\ Calling(p) /\ LockFree /\ pl[p].realized
    /\ \E cb \in BOOLEAN : pl' = [pl EXCEPT ![p].callback = cb]
    /\ UNCHANGED <<g_players, run, thread, pump, game, raced>>

-----------------------------------------------------------------------------
(* SetPlayState takes no lock: any state may be set while a pump runs, and *)
(* a pump may begin anywhere in it.                                        *)

Dropping == {"drop_device", "drop_pending"}

SetPlayState(p, to) ==
    /\ Calling(p) /\ pl[p].realized
    /\ pl' = [pl EXCEPT ![p].state = to,
                        ![p].unpaused = IF pl[p].device THEN to = Playing ELSE @]
    /\ game' = [at |-> IF to = Stopped THEN "drop_device" ELSE "stamp", p |-> p, to |-> to]
    /\ raced' = IF to = Stopped /\ ~LockFree THEN raced \cup {p} ELSE raced
    /\ UNCHANGED <<g_players, run, thread, pump>>

SetPlayStateStep ==
    LET p == game.p
    IN  /\ \/ /\ game.at = "drop_device"
              /\ pl' = [pl EXCEPT ![p].queued = 0]
              /\ game' = [game EXCEPT !.at = "drop_pending"]
           \/ /\ game.at = "drop_pending"
              /\ pl' = [pl EXCEPT ![p].pending = <<>>]
              /\ game' = [game EXCEPT !.at = "stamp"]
           \/ /\ game.at = "stamp"
              /\ pl' = [pl EXCEPT ![p].since = 0]
              /\ game' = Quiet
        /\ UNCHANGED <<g_players, run, thread, pump, raced>>

-----------------------------------------------------------------------------
(* The pump: for each player, retire what was played, then refill.         *)

\* Entered by the mixer thread every 8 ms, or by the frame tick without one.
PumpBegin ==
    /\ LockFree /\ g_players # <<>>
    /\ pump' = [Idle EXCEPT !.at = "visit", !.cur = Head(g_players)]
    /\ raced' = IF game.at \in Dropping THEN raced \cup {game.p} ELSE raced
    /\ UNCHANGED <<g_players, pl, run, thread, game>>

audio_thread_main == thread /\ PumpBegin

android_opensles_frame_tick == ~run /\ PumpBegin

\* Done with a player: the locals of its turn go out of scope.
Leaving(declined) ==
    [Idle EXCEPT !.at = "next", !.cur = pump.cur, !.snap = pump.snap, !.declined = declined]

\* A player with no callback, or that never started, is passed over.
Started(p) == pl[p].callback /\ (pl[p].pending # <<>> \/ pl[p].state = Playing)

PumpVisit ==
    LET p == pump.cur
    IN  /\ pump.at = "visit"
        /\ IF ~Started(p)
             THEN pump' = Leaving(FALSE) /\ UNCHANGED pl
             ELSE /\ pump' = [pump EXCEPT !.at = "measure",
                                          !.elapsed = (pl[p].since - pump.snap) % Word]
                  /\ pl' = [pl EXCEPT ![p].since = pump.snap]
        /\ UNCHANGED <<g_players, run, thread, game, raced>>

\* How many buffers at the head of the queue fit in `credit` bytes.
DoneByPartial(pending, credit) ==
    Cardinality({n \in 1..Len(pending) : Sum(SubSeq(pending, 1, n - 1)) < credit})

DoneBy(pending, credit) ==
    Cardinality({n \in 1..Len(pending) : Sum(SubSeq(pending, 1, n)) <= credit})

PumpMeasure ==
    LET p      == pump.cur
        r      == pl[p]
        held   == Sum(r.pending)
        played == IF held > r.queued THEN held - r.queued ELSE 0
        carry  == Min({r.carry + pump.elapsed, MaxCarry})
    IN  /\ pump.at = "measure"
        /\ IF r.device
             THEN /\ pump' = [pump EXCEPT !.at = "retire", !.done = DoneBy(r.pending, played)]
                  /\ UNCHANGED pl
             ELSE LET done == IF r.state = Playing THEN DoneBy(r.pending, carry) ELSE 0
                  IN  /\ pump' = [pump EXCEPT !.at = "retire", !.done = done]
                      /\ pl' = [pl EXCEPT ![p].carry =
                                   IF r.state = Playing
                                     THEN carry - Sum(SubSeq(r.pending, 1, done)) ELSE @]
        /\ UNCHANGED <<g_players, run, thread, game, raced>>

\* queued_bytes: what the device holds or, without one, the whole queue.
Depth(r) == IF r.device THEN r.queued ELSE Sum(r.pending)

\* worst_gap_ms: the longest gap lately, decaying; uint32_t arithmetic.
Gap(gap, elapsed) == IF elapsed > gap THEN elapsed ELSE ((gap * 63) % Word) \div 64

TargetUnclamped(gap) == Max({(gap * 3) % Word, TargetLow})

\* target_ms: about three gaps of sound, clamped at both ends.
Target(gap) == Min({Max({(gap * 3) % Word, TargetLow}), TargetHigh})

\* To pop what is gone is undefined: the pump does anything, and never ends.
PumpRetire ==
    LET p    == pump.cur
        gap  == Gap(pl[p].gap, pump.elapsed)
        rest == SubSeq(pl[p].pending, pump.done + 1, Len(pl[p].pending))
    IN  /\ pump.at = "retire"
        /\ IF pump.done > Len(pl[p].pending)
             THEN pump' = [pump EXCEPT !.at = "undefined"] /\ UNCHANGED pl
             ELSE /\ pl' = [pl EXCEPT ![p].pending = rest, ![p].gap = gap]
                  /\ pump' = [pump EXCEPT !.at = "refill", !.target = Target(gap),
                                          !.queued = Depth(pl'[p]), !.elapsed = 0, !.done = 0]
        /\ UNCHANGED <<g_players, run, thread, game, raced>>

\* One turn of the refill loop: stop at depth, or call the game's mixer, which
\* answers by enqueueing one buffer or by declining.
PumpRefill ==
    LET p == pump.cur
    IN  /\ pump.at = "refill"
        /\ IF pump.calls = MaxCalls \/ pump.queued >= pump.target
             THEN pump' = Leaving(FALSE) /\ UNCHANGED pl
             ELSE \/ \E size \in Sizes :
                       /\ pl' = [pl EXCEPT ![p] = Enqueued(@, size)]
                       /\ pump' = [pump EXCEPT !.calls = @ + 1, !.queued = Depth(pl'[p])]
                  \/ /\ pump' = Leaving(TRUE)
                     /\ UNCHANGED pl
        /\ UNCHANGED <<g_players, run, thread, game, raced>>

After(p) == SubSeq(g_players, SelectInSeq(g_players, LAMBDA q : q = p) + 1, Len(g_players))

PumpNext ==
    LET rest == After(pump.cur)
    IN  /\ pump.at = "next"
        /\ pump' = IF rest = <<>> THEN Idle
                   ELSE [Idle EXCEPT !.at = "visit", !.cur = Head(rest), !.snap = pump.snap]
        /\ UNCHANGED <<g_players, pl, run, thread, game, raced>>

PumpStep == PumpVisit \/ PumpMeasure \/ PumpRetire \/ PumpRefill \/ PumpNext

-----------------------------------------------------------------------------
(* SDL and the clock.                                                      *)

Drain(p) ==
    /\ p \in ToSet(g_players) /\ pl[p].unpaused /\ pl[p].queued > 0
    /\ pl' = [pl EXCEPT ![p].queued = @ - 1]
    /\ UNCHANGED <<g_players, run, thread, pump, game, raced>>

\* A player the pump passes over is not stamped: its gap stops at MaxGap.
SDL_GetTicks ==
    /\ \A p \in ToSet(g_players) : Started(p) => pl[p].since < MaxGap
    /\ pump.at # "idle" => pump.snap < MaxGap
    /\ pl' = [p \in Players |-> [pl[p] EXCEPT !.since = Min({@ + 1, MaxGap})]]
    /\ pump' = IF pump.at = "idle" THEN pump ELSE [pump EXCEPT !.snap = @ + 1]
    /\ UNCHANGED <<g_players, run, thread, game, raced>>

-----------------------------------------------------------------------------
Init ==
    /\ g_players = <<>> /\ pl = [p \in Players |-> Created]
    /\ run = FALSE /\ thread = FALSE
    /\ pump = Idle /\ game = Quiet /\ raced = {}

GameCall(p) ==
    \/ CreateAudioPlayer(p) \/ Realize(p) \/ Destroy(p)
    \/ Clear(p) \/ RegisterCallback(p)
    \/ \E size \in Sizes : Enqueue(p, size)
    \/ \E to \in PlayStates : SetPlayState(p, to)

Next ==
    \/ \E p \in Players : GameCall(p) \/ Drain(p)
    \/ SetPlayStateStep
    \/ audio_thread_main \/ android_opensles_frame_tick \/ PumpStep
    \/ SDL_GetTicks

\* The mixer thread and the frame loop keep turning, a pump that began goes
\* on, and the game leaves a call it entered.
Fairness ==
    /\ WF_vars(audio_thread_main) /\ WF_vars(android_opensles_frame_tick)
    /\ WF_vars(PumpStep) /\ WF_vars(SetPlayStateStep)

Spec == Init /\ [][Next]_vars /\ Fairness

-----------------------------------------------------------------------------
\* Types: what each variable may hold.
TypeOK ==
    /\ g_players \in Seq(Players) /\ IsInjective(g_players)
    /\ pl \in [Players -> Player]
    /\ {run, thread} \subseteq BOOLEAN
    /\ pump.at \in {"idle", "visit", "measure", "retire", "refill", "next", "undefined"}
    /\ pump.cur \in Players \cup {NoPlayer} /\ pump.snap \in 0..MaxGap
    /\ pump.elapsed \in 0..Word - 1 /\ pump.calls \in 0..MaxCalls
    /\ pump.target \in 0..TargetHigh
    /\ game.at \in {"idle", "drop_device", "drop_pending", "stamp"}
    /\ game.p \in Players \cup {NoPlayer} /\ game.to \in PlayStates
    /\ raced \subseteq Players

\* The pump never walks onto a freed player: Destroy waits for the pump to end,
\* and a player created meanwhile goes in before the cursor.
CursorIsLive == pump.at # "idle" => pump.cur \in ToSet(g_players)

\* The device is the authority: it never holds more sound than the queue has
\* buffers for, so that no buffer is retired while it can still be heard - unless
\* the game stopped the player during a pump, which then refills between the two
\* halves of the stop.
QueueCoversDevice ==
    \A p \in ToSet(g_players) \ raced : pl[p].device => pl[p].queued <= Sum(pl[p].pending)

\* The pump pops only buffers that are still in the queue it counted them in
\* (pop_front on an empty deque is undefined): what the lock is there for.  SetPlayState,
\* which does not take it, breaks this (OpenSlesStopped.cfg).
PopsWhatIsThere == pump.at = "retire" => pump.done <= Len(pl[pump.cur].pending)

\* Nothing but a stop during the pump can empty the queue under it: enqueueing,
\* clearing, registering and destroying wait, and what takes no lock leaves it alone.
PopsUnlessStopped ==
    pump.at = "retire" /\ pump.cur \notin raced => pump.done <= Len(pl[pump.cur].pending)

\* A playing player whose device ran dry is given sound again, unless the game
\* stops it, takes it away or has nothing to give, or has stopped a player under the
\* pump in a way that leaves it undefined: by the mixer thread or, when
\* it could not be started, by the frame loop.
Starving(p) ==
    /\ p \in ToSet(g_players) /\ pl[p].device /\ pl[p].callback
    /\ pl[p].state = Playing /\ pl[p].queued = 0

Refilled ==
    \A p \in Players :
        Starving(p) ~> (~Starving(p) \/ (pump.cur = p /\ pump.declined) \/ pump.at = "undefined")
=============================================================================
