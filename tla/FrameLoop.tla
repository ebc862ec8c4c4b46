------------------------------ MODULE FrameLoop ------------------------------
(***************************************************************************)
(* The loader's frame loop (src/main.cpp, main), which drains SDL's queue, *)
(* looks for the game's own exit request (android/app_exit.cpp), runs the  *)
(* deferred Cloudcell answers and renders, and the engine's threads that   *)
(* post, finish and answer around it.  "ended" is the loop left, with      *)
(* _exit(0) to follow.                                                     *)
(***************************************************************************)
EXTENDS CloudcellDefer

CONSTANTS
    QueueCap,    \* the events SDL's queue holds
    Finishers,   \* the threads that end the activity
    Routes       \* the calls they end it with

ASSUME QueueAssumption == QueueCap \in Nat \ {0} /\ Finishers \subseteq Threads
ASSUME RoutesAssumption ==
    Routes \subseteq {"ANativeActivity_finish", "MainActivity.finish"}

VARIABLES
    loop,              \* the next thing the loop does
    events,            \* SDL's queue: how many events, is SDL_QUIT one of them
    g_exit_requested,
    pushing,           \* the threads about to push SDL_QUIT
    asked,             \* has the game ended the activity?
    late               \* the frames rendered since g_exit_requested was raised

exits == <<events, g_exit_requested, pushing, asked>>
vars == <<loop, late, exits, cloudcell>>

Running == loop # "ended"
Goto(l) == loop' = l /\ UNCHANGED <<late, exits>>

-----------------------------------------------------------------------------
(* The loop.                                                               *)

\* rr3_control_tick: a quit command stops the loop.
ControlTick ==
    /\ loop = "tick"
    /\ \E g_quit \in BOOLEAN : Goto(IF g_quit THEN "ended" ELSE "events")
    /\ UNCHANGED cloudcell

\* SDL_PollEvent until the queue is empty; SDL_QUIT stops the loop.
DrainEvents ==
    /\ loop = "events"
    /\ loop' = IF events.quit THEN "ended" ELSE "exit"
    /\ events' = [n |-> 0, quit |-> FALSE]
    /\ UNCHANGED <<late, g_exit_requested, pushing, asked, cloudcell>>

\* The loop trusts the event drain.
ExitUnchecked == loop = "exit" /\ Goto("pump") /\ UNCHANGED cloudcell

ExitCheck ==
    /\ loop = "exit" /\ Goto(IF g_exit_requested THEN "ended" ELSE "pump")
    /\ UNCHANGED cloudcell

BeginPump == loop = "pump" /\ Goto("batch") /\ Swap

RunAnswer == loop = "batch" /\ RunNext /\ UNCHANGED <<loop, late, exits>>

BeginRender ==
    /\ loop' = "render" /\ late' = IF g_exit_requested /\ late < 2 THEN late + 1 ELSE late
    /\ UNCHANGED exits

\* The pump goes on until nothing is queued.
EndPumpEmpty ==
    /\ loop = "batch" /\ batch = <<>> /\ answering = None
    /\ IF g_queue = <<>> THEN BeginRender ELSE Goto("pump")
    /\ UNCHANGED cloudcell

\* The queue is cleared once its copy has been run.
EndPumpClears ==
    /\ loop = "batch" /\ batch = <<>> /\ answering = None
    /\ BeginRender /\ g_queue' = <<>>
    /\ UNCHANGED <<batch, req, worker, manager, building, answering>>

\* The batch is done, and on_view_render is called.
EndPump ==
    /\ loop = "batch" /\ batch = <<>> /\ answering = None
    /\ BeginRender
    /\ UNCHANGED cloudcell

\* on_view_render returns; the swap, the audio tick and the status follow.
EndFrame ==
    /\ loop = "render" /\ building[Game] = None /\ Game \notin pushing
    /\ Goto("tick") /\ UNCHANGED cloudcell

-----------------------------------------------------------------------------
(* The engine, on the game thread inside a render or an answer and on      *)
(* threads of its own, and the player.                                     *)

\* t runs the engine's code, outside QueueRequest.
InEngine(t) ==
    /\ Running /\ building[t] = None /\ t \notin pushing
    /\ t = Game => \/ loop = "render"
                   \/ answering # None /\ worker[answering] = "completed"

EngineBegins(t) ==
    \E r \in Requests : InEngine(t) /\ BeginRequest(t, r) /\ UNCHANGED <<loop, late, exits>>

EngineBuilds(t) == Running /\ (Post(t) \/ Store(t)) /\ UNCHANGED <<loop, late, exits>>

EngineCancels(t) ==
    \E r \in Requests : InEngine(t) /\ Cancel(t, r) /\ UNCHANGED <<loop, late, exits>>

EngineCompletes == Running /\ Complete /\ UNCHANGED <<loop, late, exits>>

AnswerReturns == Running /\ Game \notin pushing /\ Return /\ UNCHANGED <<loop, late, exits>>

\* The game ends its activity.  android_app_request_exit raises the flag, then
\* pushes; MainActivity has no finish(), and ignores finishActivity().
Finish(t) ==
    /\ t \in Finishers /\ InEngine(t) /\ ~g_exit_requested /\ asked' = TRUE
    /\ \E route \in Routes :
        IF route = "ANativeActivity_finish"
          THEN g_exit_requested' = TRUE /\ pushing' = pushing \cup {t}
          ELSE UNCHANGED <<g_exit_requested, pushing>>
    /\ UNCHANGED <<loop, late, events, cloudcell>>

\* SDL_PushEvent with no thought for the queue's size.
PushQuitAlways(t) ==
    /\ Running /\ t \in pushing /\ pushing' = pushing \ {t}
    /\ events' = [n |-> events.n + 1, quit |-> TRUE]
    /\ UNCHANGED <<loop, late, g_exit_requested, asked, cloudcell>>

\* SDL_PushEvent(SDL_QUIT), refused by a full queue.
PushQuit(t) ==
    /\ Running /\ t \in pushing /\ pushing' = pushing \ {t}
    /\ events' = IF events.n < QueueCap THEN [n |-> events.n + 1, quit |-> TRUE] ELSE events
    /\ UNCHANGED <<loop, late, g_exit_requested, asked, cloudcell>>

\* The player presses something, or closes the window.
Press ==
    /\ Running /\ events.n < QueueCap
    /\ \/ events' = [events EXCEPT !.n = @ + 1]
       \/ events' = [n |-> events.n + 1, quit |-> TRUE]
    /\ UNCHANGED <<loop, late, g_exit_requested, pushing, asked, cloudcell>>

\* ALooper_pollAll drains SDL's queue too; the SDL_QUIT it takes out is one the
\* loop does not see, and the engine gets ALOOPER_POLL_ERROR for it.
PollAll ==
    /\ InEngine(Game) /\ events.n > 0
    /\ events' = [n |-> 0, quit |-> FALSE]
    /\ UNCHANGED <<loop, late, g_exit_requested, pushing, asked, cloudcell>>

Exited == ~Running /\ UNCHANGED vars

-----------------------------------------------------------------------------
Init ==
    /\ InitCloudcell
    /\ loop = "tick" /\ late = 0 /\ asked = FALSE
    /\ events = [n |-> 0, quit |-> FALSE]
    /\ g_exit_requested = FALSE /\ pushing = {}

Loop ==
    \/ ControlTick \/ DrainEvents \/ ExitCheck
    \/ BeginPump \/ RunAnswer \/ EndPump \/ EndFrame

Next ==
    \/ Loop \/ EngineCompletes \/ AnswerReturns \/ Press \/ PollAll \/ Exited
    \/ \E t \in Threads :
        \/ EngineBegins(t) \/ EngineBuilds(t) \/ EngineCancels(t)
        \/ Finish(t) \/ PushQuit(t)

\* The loop goes on whenever it can; a call the engine has begun is ended.
\* Nothing makes the engine begin one.
Fairness ==
    /\ WF_vars(Loop) /\ WF_vars(EngineCompletes) /\ WF_vars(AnswerReturns)
    /\ \A t \in Threads : WF_vars(EngineBuilds(t)) /\ WF_vars(PushQuit(t))

Spec == Init /\ [][Next]_vars /\ Fairness

-----------------------------------------------------------------------------
\* Types: what each variable may hold.
TypeOK ==
    /\ TypeOKCloudcell
    /\ loop \in {"tick", "events", "exit", "pump", "batch", "render", "ended"}
    /\ events \in [n : 0..QueueCap, quit : BOOLEAN]
    /\ g_exit_requested \in BOOLEAN /\ asked \in BOOLEAN
    /\ pushing \subseteq Threads /\ late \in 0..2

\* No answer reaches a request before QueueRequest has stored its worker, from
\* whichever thread it was posted: "nothing ever answers inside the call that
\* started the operation" (cloudcell_defer.h).
AnswersWhole ==
    [][\A r \in Requests :
        worker'[r] = "completed" /\ worker[r] # "completed" => worker[r] = "stored"]_vars

\* A request that is posted is completed, unless the engine gives it up or the
\* process ends: its answer is run, gets the manager's mutex and comes back.
EveryPostAnswered ==
    \A r \in Requests : Waiting(r) ~> (worker[r] \in {"completed", "none"} \/ ~Running)

\* "Keeps a failing endpoint from spinning the whole chain inside a single
\* frame": frames go on although each answer may post the next request.
FramesGoOn == []<>(loop = "render" \/ ~Running)

\* A recorded exit request ends the loop, though a full queue may drop its SDL_QUIT
\* and a poll of the engine's own may take it:
\* "an exit request that is dropped is exactly the freeze".
RequestLeaves == g_exit_requested ~> ~Running

\* What app_exit.h says of a game that ends itself: "the request is recorded here
\* and consumed by the frame loop", whichever call the engine leaves by.  The code does
\* not keep to it: MainActivity's own call is not there (FrameExit.cfg).
LeavesWhenAsked == asked ~> ~Running

\* An exit request raised on any thread, at any moment of a frame, is followed by
\* at most the frame that was already past its exit check.
OneFrameLate == late <= 1

=============================================================================
