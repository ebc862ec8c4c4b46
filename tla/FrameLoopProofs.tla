--------------------------- MODULE FrameLoopProofs ---------------------------
(***************************************************************************)
(* Proofs about FrameLoop, for every set of requests and threads and every *)
(* size of SDL's queue.  Three theorems take the assumption the model's    *)
(* own run makes: only the game thread gives a posted request up.          *)
(***************************************************************************)
EXTENDS FrameLoop, SequenceTheorems, TLAPS

LEMMA HoldsAppend ==
    ASSUME NEW S, NEW s \in Seq(S), NEW e \in S, NEW r
    PROVE  Holds(Append(s, e), r) <=> Holds(s, r) \/ r = e
<1>1. DOMAIN s = 1..Len(s) /\ DOMAIN Append(s, e) = 1..(Len(s) + 1) /\ Len(s) \in Nat
  OBVIOUS
<1>2. Append(s, e)[Len(s) + 1] = e /\ \A i \in 1..Len(s) : Append(s, e)[i] = s[i]
  OBVIOUS
<1>3. \A i \in 1..(Len(s) + 1) : i \in 1..Len(s) \/ i = Len(s) + 1
  BY <1>1
<1>4. 1..Len(s) \subseteq 1..(Len(s) + 1) /\ Len(s) + 1 \in 1..(Len(s) + 1)
  BY <1>1
<1> QED
  BY <1>1, <1>2, <1>3, <1>4 DEF Holds

LEMMA HoldsTail ==
    ASSUME NEW S, NEW s \in Seq(S), s # <<>>, NEW r
    PROVE  Holds(s, r) <=> r = Head(s) \/ Holds(Tail(s), r)
<1>1. DOMAIN s = 1..Len(s) /\ Len(s) \in Nat \ {0} /\ DOMAIN Tail(s) = 1..(Len(s) - 1)
  OBVIOUS
<1>2. \A i \in 1..(Len(s) - 1) : Tail(s)[i] = s[i + 1]
  OBVIOUS
<1>3. Head(s) = s[1]
  OBVIOUS
<1>4. ASSUME NEW i \in DOMAIN s, s[i] = r, i # 1
      PROVE  Holds(Tail(s), r)
  <2>1. i - 1 \in 1..(Len(s) - 1) /\ s[(i - 1) + 1] = r
    BY <1>1, <1>4
  <2> QED
    BY <2>1, <1>1, <1>2 DEF Holds
<1>5. ASSUME NEW i \in DOMAIN Tail(s), Tail(s)[i] = r
      PROVE  Holds(s, r)
  <2>1. i + 1 \in DOMAIN s /\ s[i + 1] = r
    BY <1>1, <1>2, <1>5
  <2> QED
    BY <2>1 DEF Holds
<1> QED
  BY <1>1, <1>3, <1>4, <1>5 DEF Holds

LEMMA HoldsNothing == ASSUME NEW r PROVE ~Holds(<<>>, r)
BY DEF Holds

-----------------------------------------------------------------------------
(* Types.                                                                  *)

\* What every step of the Cloudcell part does to its types.
LEMMA CloudcellTypes ==
    ASSUME TypeOKCloudcell,
           \/ \E t \in Threads, r \in Requests : BeginRequest(t, r) \/ Cancel(t, r)
           \/ \E t \in Threads : Post(t) \/ Store(t)
           \/ Swap \/ RunNext \/ Complete \/ Return \/ UNCHANGED cloudcell
    PROVE  TypeOKCloudcell'
<1> USE DEF TypeOKCloudcell
<1>1. ASSUME NEW t \in Threads, NEW r \in Requests, BeginRequest(t, r) \/ Cancel(t, r)
      PROVE  TypeOKCloudcell'
  <2>1. CASE BeginRequest(t, r)
    BY <2>1 DEF BeginRequest
  <2>2. CASE Cancel(t, r)
    <3>1. req' \in [Requests -> [pending : BOOLEAN, closed : BOOLEAN]]
      <4>1. req[r] \in [pending : BOOLEAN, closed : BOOLEAN]
        OBVIOUS
      <4>2. CASE req' = [req EXCEPT ![r].closed = TRUE]
        BY <4>1, <4>2
      <4>3. CASE req' = [req EXCEPT ![r] = [pending |-> FALSE, closed |-> TRUE]]
        BY <4>3
      <4> QED
        BY <2>2, <4>2, <4>3 DEF Cancel
    <3> QED
      BY <2>2, <3>1 DEF Cancel
  <2> QED
    BY <1>1, <2>1, <2>2
<1>2. ASSUME NEW t \in Threads, Post(t) \/ Store(t)
      PROVE  TypeOKCloudcell'
  <2>1. building[t] \in Requests \cup {None} /\ t \in DOMAIN building
    OBVIOUS
  <2>2. CASE Post(t)
    <3>1. building[t] \in Requests
      BY <2>1, <2>2 DEF Post
    <3>2. g_queue' \in Seq(Requests)
      BY <2>2, <3>1 DEF Post
    <3>3. req' \in [Requests -> [pending : BOOLEAN, closed : BOOLEAN]]
      BY <2>2, <3>1 DEF Post
    <3> QED
      BY <2>2, <3>1, <3>2, <3>3 DEF Post
  <2>3. CASE Store(t)
    BY <2>1, <2>3 DEF Store
  <2> QED
    BY <1>2, <2>2, <2>3
<1>3. CASE Swap
  BY <1>3, EmptySeq DEF Swap
<1>4. CASE RunNext
  <2>1. Head(batch) \in Requests /\ Tail(batch) \in Seq(Requests)
    BY <1>4 DEF RunNext
  <2> QED
    BY <1>4, <2>1 DEF RunNext
<1>5. CASE Complete
  BY <1>5 DEF Complete
<1>6. CASE Return
  BY <1>6 DEF Return
<1>7. CASE UNCHANGED cloudcell
  BY <1>7 DEF cloudcell
<1> QED
  BY <1>1, <1>2, <1>3, <1>4, <1>5, <1>6, <1>7

\* Every step of the system is one of the Cloudcell part's, or leaves it alone.
LEMMA CloudcellSteps ==
    ASSUME [Next]_vars
    PROVE  \/ \E t \in Threads, r \in Requests : BeginRequest(t, r) \/ Cancel(t, r)
           \/ \E t \in Threads : Post(t) \/ Store(t)
           \/ Swap \/ RunNext \/ Complete \/ Return \/ UNCHANGED cloudcell
<1>1. CASE \E t \in Threads : EngineBegins(t) \/ EngineBuilds(t) \/ EngineCancels(t)
  BY <1>1 DEF EngineBegins, EngineBuilds, EngineCancels
<1>2. CASE BeginPump \/ RunAnswer \/ EngineCompletes \/ AnswerReturns
  BY <1>2 DEF BeginPump, RunAnswer, EngineCompletes, AnswerReturns
<1>3. CASE \/ ControlTick \/ DrainEvents \/ ExitCheck \/ EndPump \/ EndFrame
           \/ Press \/ PollAll \/ Exited \/ UNCHANGED vars
           \/ \E t \in Threads : Finish(t) \/ PushQuit(t)
  <2> UNCHANGED cloudcell
    BY <1>3 DEF ControlTick, DrainEvents, ExitCheck, EndPump, EndFrame, Press, PollAll,
       Exited, vars, Finish, PushQuit
  <2> QED
    OBVIOUS
<1> QED
  BY <1>1, <1>2, <1>3 DEF Next, Loop

\* The loop's variables keep their types in every run.
THEOREM TypeCorrect == Spec => []TypeOK
<1> USE QueueAssumption
<1>1. Init => TypeOK
  <2> SUFFICES ASSUME Init PROVE TypeOK
    OBVIOUS
  <2>1. TypeOKCloudcell
    BY DEF Init, InitCloudcell, TypeOKCloudcell
  <2> QED
    <3>1. events \in [n : 0..QueueCap, quit : BOOLEAN]
      BY DEF Init
    <3>2. pushing \subseteq Threads /\ late \in 0..2
      BY DEF Init
    <3>3. g_exit_requested \in BOOLEAN /\ asked \in BOOLEAN
      BY DEF Init
    <3> QED
      BY <2>1, <3>1, <3>2, <3>3 DEF Init, TypeOK
<1>2. TypeOK /\ [Next]_vars => TypeOK'
  <2> SUFFICES ASSUME TypeOK, [Next]_vars PROVE TypeOK'
    OBVIOUS
  <2>1. TypeOKCloudcell'
    BY CloudcellTypes, CloudcellSteps DEF TypeOK
  <2> USE <2>1 DEF TypeOK
  <2>2. CASE ControlTick \/ ExitCheck \/ BeginPump \/ EndFrame
    BY <2>2 DEF ControlTick, ExitCheck, BeginPump, EndFrame, Goto, exits
  <2>3. CASE DrainEvents \/ EndPump
    <3>1. CASE DrainEvents
      <4>1. events' \in [n : 0..QueueCap, quit : BOOLEAN]
        BY <3>1 DEF DrainEvents
      <4> QED
        BY <3>1, <4>1 DEF DrainEvents
    <3>2. CASE EndPump
      <4>1. late' \in 0..2
        BY <3>2 DEF EndPump, BeginRender
      <4> QED
        BY <3>2, <4>1 DEF EndPump, BeginRender, exits
    <3> QED
      BY <2>3, <3>1, <3>2
  <2>4. CASE \/ RunAnswer \/ EngineCompletes \/ AnswerReturns
             \/ \E t \in Threads : EngineBegins(t) \/ EngineBuilds(t) \/ EngineCancels(t)
    BY <2>4 DEF RunAnswer, EngineCompletes, AnswerReturns, EngineBegins, EngineBuilds,
       EngineCancels, exits
  <2>5. CASE Press \/ PollAll
    <3>1. events' \in [n : 0..QueueCap, quit : BOOLEAN]
      <4>1. CASE Press /\ events' = [events EXCEPT !.n = @ + 1]
        BY <4>1 DEF Press
      <4>2. CASE Press /\ events' = [n |-> events.n + 1, quit |-> TRUE]
        BY <4>2 DEF Press
      <4>3. CASE PollAll
        BY <4>3 DEF PollAll
      <4> QED
        BY <2>5, <4>1, <4>2, <4>3 DEF Press
    <3> QED
      BY <2>5, <3>1 DEF Press, PollAll
  <2>6. ASSUME NEW t \in Threads, Finish(t) \/ PushQuit(t)
        PROVE  TypeOK'
    <3>1. CASE Finish(t)
      BY <3>1 DEF Finish
    <3>2. CASE PushQuit(t)
      <4>1. events' \in [n : 0..QueueCap, quit : BOOLEAN]
        BY <3>2 DEF PushQuit
      <4> QED
        BY <3>2, <4>1 DEF PushQuit
    <3> QED
      BY <2>6, <3>1, <3>2
  <2>7. CASE Exited \/ UNCHANGED vars
    BY <2>7 DEF Exited, vars, exits
  <2> QED
    BY <2>2, <2>3, <2>4, <2>5, <2>6, <2>7 DEF Next, Loop
<1> QED
  BY <1>1, <1>2, PTL DEF Spec

-----------------------------------------------------------------------------
(* The answers.                                                            *)

\* A request is being built by the thread that holds the manager's mutex, and
\* by no other.
BuiltInside ==
    /\ \A t \in Threads : building[t] # None =>
          manager = t /\ worker[building[t]] \in {"built", "posted"}
    /\ \A r \in Requests : worker[r] \in {"built", "posted"} =>
          \E t \in Threads : building[t] = r

\* The engine waits only for requests that have a worker.
WantedHasWorker == \A r \in Requests : Waiting(r) => worker[r] \in {"posted", "stored"}

\* Answers run inside the pump, and the game thread builds requests outside it
\* or inside an answer that has completed its own.
InsidePump ==
    /\ batch # <<>> \/ answering # None => loop = "batch"
    /\ building[Game] # None =>
          loop = "render" \/ (answering # None /\ worker[answering] = "completed")

AnswersInv == BuiltInside /\ WantedHasWorker /\ InsidePump /\ NothingLost /\ AnswersOpen

\* The exit: a frame rendered since the flag was raised lies before the next exit
\* check.
LateInv ==
    /\ late > 0 => g_exit_requested /\ loop \notin {"pump", "batch"}
    /\ OneFrameLate

\* An exit request raised on any thread, at any moment of a frame, is followed by
\* at most the frame that was already past its exit check.
THEOREM AtMostOneFrameLate == Spec => []OneFrameLate
<1>1. Init => LateInv
  BY DEF Init, LateInv, OneFrameLate
<1>2. TypeOK /\ LateInv /\ [Next]_vars => LateInv'
  <2> SUFFICES ASSUME TypeOK, LateInv, [Next]_vars PROVE LateInv'
    OBVIOUS
  <2> USE DEF LateInv, OneFrameLate
  <2>1. CASE ControlTick \/ BeginPump \/ EndFrame
    BY <2>1 DEF ControlTick, BeginPump, EndFrame, Goto, exits
  <2>2. CASE ExitCheck
    BY <2>2 DEF ExitCheck, Goto, exits
  <2>3. CASE DrainEvents
    BY <2>3 DEF DrainEvents
  <2>4. CASE EndPump
    <3>1. late = 0
      BY <2>4 DEF EndPump, TypeOK
    <3> QED
      BY <2>4, <3>1 DEF EndPump, BeginRender, exits
  <2>5. CASE \/ RunAnswer \/ EngineCompletes \/ AnswerReturns
             \/ \E t \in Threads : EngineBegins(t) \/ EngineBuilds(t) \/ EngineCancels(t)
    BY <2>5 DEF RunAnswer, EngineCompletes, AnswerReturns, EngineBegins, EngineBuilds,
       EngineCancels, exits
  <2>6. ASSUME NEW t \in Threads, Finish(t) \/ PushQuit(t)
        PROVE  LateInv'
    BY <2>6 DEF Finish, PushQuit
  <2>7. CASE Press \/ PollAll \/ Exited \/ UNCHANGED vars
    BY <2>7 DEF Press, PollAll, Exited, vars, exits
  <2> QED
    BY <2>1, <2>2, <2>3, <2>4, <2>5, <2>6, <2>7 DEF Next, Loop
<1>3. LateInv => OneFrameLate
  BY DEF LateInv
<1> QED
  BY <1>1, <1>2, <1>3, TypeCorrect, PTL DEF Spec

\* The steps that only move the loop.
LEMMA LoopSteps ==
    ASSUME TypeOK, AnswersInv, UNCHANGED cloudcell,
           \/ UNCHANGED loop
           \/ loop = "batch" /\ batch = <<>> /\ answering = None
           \/ loop \in {"tick", "events", "exit"}
           \/ loop = "render" /\ building[Game] = None
    PROVE  AnswersInv'
<1>1. BuiltInside' /\ WantedHasWorker' /\ NothingLost' /\ AnswersOpen'
  BY DEF AnswersInv, BuiltInside, WantedHasWorker, NothingLost, AnswersOpen, Waiting, Queued,
     cloudcell
<1>2. InsidePump'
  BY DEF AnswersInv, InsidePump, cloudcell
<1> QED
  BY <1>1, <1>2 DEF AnswersInv

LEMMA BeginKeeps ==
    ASSUME TypeOK, AnswersInv, NEW t \in Threads, EngineBegins(t)
    PROVE  AnswersInv'
<1>1. PICK r \in Requests : InEngine(t) /\ BeginRequest(t, r) /\ UNCHANGED <<loop, late, exits>>
  BY DEF EngineBegins
<1> USE DEF BeginRequest, AnswersInv
<1>2. /\ worker \in [Requests -> {"none", "built", "posted", "stored", "completed"}]
      /\ building \in [Threads -> Requests \cup {None}]
      /\ req \in [Requests -> [pending : BOOLEAN, closed : BOOLEAN]]
      /\ Nobody \notin Threads /\ None \notin Requests
  BY ThreadsAssumption DEF TypeOK, TypeOKCloudcell
<1>3. \A u \in Threads : building[u] = None
  BY <1>1, <1>2 DEF BuiltInside
<1>4. BuiltInside'
  <2>1. building'[t] = r /\ worker'[r] = "built" /\ manager' = t
    BY <1>1, <1>2
  <2>2. \A u \in Threads \ {t} : building'[u] = None
    BY <1>1, <1>2, <1>3
  <2>3. \A x \in Requests \ {r} : worker'[x] \notin {"built", "posted"}
    <3>1. \A x \in Requests : worker[x] \notin {"built", "posted"}
      BY <1>2, <1>3 DEF BuiltInside
    <3> QED
      BY <1>1, <1>2, <3>1
  <2> QED
    BY <1>1, <2>1, <2>2, <2>3 DEF BuiltInside
<1>5. ~Waiting(r)' /\ \A x \in Requests \ {r} : Waiting(x)' <=> Waiting(x)
  BY <1>1, <1>2 DEF Waiting
<1>6. WantedHasWorker'
  BY <1>1, <1>2, <1>5 DEF WantedHasWorker
<1>7. NothingLost'
  BY <1>1, <1>5 DEF NothingLost, Queued
<1>8. answering # None => answering # r \/ worker[answering] = "none"
  BY <1>1
<1>9. AnswersOpen' /\ InsidePump'
  <2>1. CASE answering = None
    BY <1>1, <1>2, <2>1 DEF AnswersOpen, InsidePump, InEngine
  <2>2. CASE answering # None
    <3>1. answering # r /\ worker[answering] \in {"posted", "stored", "completed"}
      BY <1>1, <2>2 DEF AnswersOpen
    <3> QED
      BY <1>1, <1>2, <2>2, <3>1 DEF AnswersOpen, InsidePump, InEngine
  <2> QED
    BY <2>1, <2>2
<1> QED
  BY <1>4, <1>6, <1>7, <1>9

\* The types the remaining steps rest on.
LEMMA EngineTypes ==
    ASSUME TypeOK
    PROVE  /\ worker \in [Requests -> {"none", "built", "posted", "stored", "completed"}]
           /\ building \in [Threads -> Requests \cup {None}]
           /\ req \in [Requests -> [pending : BOOLEAN, closed : BOOLEAN]]
           /\ g_queue \in Seq(Requests) /\ batch \in Seq(Requests)
           /\ answering \in Requests \cup {None} /\ None \notin Requests
           /\ Game \in Threads /\ Nobody \notin Threads
BY ThreadsAssumption DEF TypeOK, TypeOKCloudcell, Threads

LEMMA PostKeeps ==
    ASSUME TypeOK, AnswersInv, NEW t \in Threads, Post(t), UNCHANGED loop
    PROVE  AnswersInv'
<1> DEFINE r == building[t]
<1> USE EngineTypes DEF AnswersInv
<1>1. r \in Requests /\ worker[r] = "built" /\ manager = t
  BY DEF Post, BuiltInside
<1>2. worker' = [worker EXCEPT ![r] = "posted"] /\ UNCHANGED <<batch, manager, building, answering>>
  BY DEF Post
<1>3. BuiltInside'
  BY <1>1, <1>2 DEF BuiltInside
<1>4. \A x \in Requests \ {r} : Waiting(x)' <=> Waiting(x)
  BY <1>1 DEF Post, Waiting
<1>5. WantedHasWorker'
  BY <1>1, <1>2, <1>4 DEF WantedHasWorker
<1>6. \A x \in Requests : Holds(g_queue', x) <=> Holds(g_queue, x) \/ x = r
  BY <1>1, HoldsAppend DEF Post
<1>7. NothingLost'
  BY <1>1, <1>2, <1>4, <1>6 DEF NothingLost, Queued
<1>8. answering # r
  BY <1>1 DEF AnswersOpen
<1>9. AnswersOpen' /\ InsidePump'
  <2>1. answering # None => worker'[answering] = worker[answering]
    BY <1>2, <1>8
  <2>2. answering # None => req'[answering] = req[answering]
    BY <1>1, <1>8 DEF Post
  <2> QED
    BY <1>2, <2>1, <2>2 DEF AnswersOpen, InsidePump
<1> QED
  BY <1>3, <1>5, <1>7, <1>9

LEMMA StoreKeeps ==
    ASSUME TypeOK, AnswersInv, NEW t \in Threads, Store(t), UNCHANGED loop
    PROVE  AnswersInv'
<1> DEFINE r == building[t]
<1> USE EngineTypes DEF AnswersInv, Store
<1>1. r \in Requests /\ worker[r] = "posted" /\ manager = t
  BY DEF BuiltInside
<1>2. \A u \in Threads \ {t} : building[u] = None
  BY <1>1 DEF BuiltInside
<1>3. \A x \in Requests \ {r} : worker[x] \notin {"built", "posted"}
  BY <1>2 DEF BuiltInside
<1>4. BuiltInside'
  BY <1>1, <1>2, <1>3 DEF BuiltInside
<1>5. WantedHasWorker'
  BY <1>1 DEF WantedHasWorker, Waiting
<1>6. NothingLost'
  BY DEF NothingLost, Queued, Waiting
<1>7. AnswersOpen' /\ InsidePump'
  BY <1>1 DEF AnswersOpen, InsidePump
<1> QED
  BY <1>4, <1>5, <1>6, <1>7

LEMMA CancelKeeps ==
    ASSUME Cancellers \subseteq {Game}, TypeOK, AnswersInv, NEW t \in Threads, EngineCancels(t)
    PROVE  AnswersInv'
<1>1. PICK r \in Requests : InEngine(t) /\ Cancel(t, r) /\ UNCHANGED <<loop, late, exits>>
  BY DEF EngineCancels
<1> USE EngineTypes DEF AnswersInv
<1>2. worker[r] = "stored" /\ worker' = [worker EXCEPT ![r] = "none"] /\ t = Game
  BY <1>1 DEF Cancel
<1>3. BuiltInside'
  BY <1>1, <1>2 DEF BuiltInside, Cancel
<1>4. ~Waiting(r)' /\ \A x \in Requests \ {r} : Waiting(x)' <=> Waiting(x)
  BY <1>1 DEF Cancel, Waiting
<1>5. WantedHasWorker'
  BY <1>2, <1>4 DEF WantedHasWorker
<1>6. NothingLost'
  BY <1>1, <1>4 DEF NothingLost, Queued, Cancel
<1>7. AnswersOpen' /\ InsidePump'
  <2>1. answering # None => worker[answering] = "completed" /\ answering # r
    BY <1>1, <1>2 DEF InEngine, InsidePump
  <2> QED
    BY <1>1, <1>2, <2>1 DEF AnswersOpen, InsidePump, Cancel
<1> QED
  BY <1>3, <1>5, <1>6, <1>7

LEMMA SwapKeeps ==
    ASSUME TypeOK, AnswersInv, BeginPump
    PROVE  AnswersInv'
<1> USE EngineTypes DEF AnswersInv, BeginPump, Swap
<1>1. batch = <<>> /\ answering = None /\ building[Game] = None /\ loop' = "batch"
  BY DEF InsidePump, Goto
<1>2. BuiltInside' /\ WantedHasWorker'
  BY DEF BuiltInside, WantedHasWorker, Waiting
<1>3. NothingLost'
  BY <1>1, HoldsNothing DEF NothingLost, Queued, Waiting
<1>4. AnswersOpen' /\ InsidePump'
  BY <1>1 DEF AnswersOpen, InsidePump
<1> QED
  BY <1>2, <1>3, <1>4

LEMMA RunKeeps ==
    ASSUME TypeOK, AnswersInv, RunAnswer
    PROVE  AnswersInv'
<1> USE EngineTypes DEF AnswersInv, RunAnswer
<1>1. /\ batch # <<>> /\ answering = None /\ loop = "batch" /\ loop' = "batch"
      /\ batch' = Tail(batch) /\ UNCHANGED <<g_queue, worker, manager, building>>
  BY DEF RunNext
<1>2. PICK r \in Requests : r = Head(batch)
  BY <1>1
<1>3. building[Game] = None
  BY <1>1 DEF InsidePump
<1>4. \A x \in Requests : Queued(x) => x = r \/ Queued(x)'
  BY <1>1, <1>2, HoldsTail DEF Queued
<1>5. ~Waiting(r)' /\ \A x \in Requests \ {r} : Waiting(x)' <=> Waiting(x)
  <2>1. CASE Waiting(r)
    BY <1>2, <2>1 DEF RunNext, Waiting
  <2>2. CASE ~Waiting(r)
    BY <1>2, <2>2 DEF RunNext, Waiting
  <2> QED
    BY <2>1, <2>2
<1>6. BuiltInside'
  BY <1>1 DEF BuiltInside
<1>7. WantedHasWorker' /\ NothingLost'
  BY <1>1, <1>4, <1>5 DEF WantedHasWorker, NothingLost
<1>8. AnswersOpen' /\ InsidePump'
  <2>1. CASE Waiting(r) /\ ErrorCallback
    <3>1. answering' = r /\ ~req'[r].closed /\ worker[r] \in {"posted", "stored"}
      BY <1>2, <2>1 DEF RunNext, Waiting, WantedHasWorker
    <3> QED
      BY <1>1, <1>3, <3>1 DEF AnswersOpen, InsidePump
  <2>2. CASE ~Waiting(r) \/ ~ErrorCallback
    <3>1. answering' = None
      BY <1>1, <1>2, <2>2 DEF RunNext
    <3> QED
      BY <1>1, <1>3, <3>1 DEF AnswersOpen, InsidePump
  <2> QED
    BY <2>1, <2>2
<1> QED
  BY <1>6, <1>7, <1>8

\* A request that is answered has its worker stored: while another thread still
\* builds it, that thread holds the mutex the completion takes.
LEMMA CompletesStored ==
    ASSUME TypeOK, AnswersInv, Complete
    PROVE  worker[answering] = "stored"
<1> USE EngineTypes DEF AnswersInv, Complete
<1>1. worker[answering] \in {"posted", "stored"} /\ building[Game] = None
  BY DEF AnswersOpen
<1>2. ASSUME worker[answering] = "posted"
      PROVE  FALSE
  <2>1. PICK t \in Threads : building[t] = answering
    BY <1>2 DEF BuiltInside
  <2>2. manager = t /\ t # Game
    BY <1>1, <2>1 DEF BuiltInside
  <2> QED
    BY <2>2
<1> QED
  BY <1>1, <1>2

LEMMA CompleteKeeps ==
    ASSUME TypeOK, AnswersInv, EngineCompletes
    PROVE  AnswersInv'
<1> USE EngineTypes DEF AnswersInv, EngineCompletes, Complete
<1>1. worker[answering] = "stored" /\ answering \in Requests
  BY CompletesStored
<1>2. BuiltInside'
  BY <1>1 DEF BuiltInside
<1>3. ~Waiting(answering)' /\ \A x \in Requests \ {answering} : Waiting(x)' <=> Waiting(x)
  BY <1>1 DEF Waiting
<1>4. WantedHasWorker' /\ NothingLost'
  BY <1>1, <1>3 DEF WantedHasWorker, NothingLost, Queued
<1>5. AnswersOpen' /\ InsidePump'
  BY <1>1 DEF AnswersOpen, InsidePump
<1> QED
  BY <1>2, <1>4, <1>5

LEMMA ReturnKeeps ==
    ASSUME TypeOK, AnswersInv, AnswerReturns
    PROVE  AnswersInv'
<1> USE EngineTypes DEF AnswersInv, AnswerReturns, Return
<1>1. worker[answering] = "completed" /\ answering \in Requests
  OBVIOUS
<1>2. BuiltInside'
  BY <1>1 DEF BuiltInside
<1>3. WantedHasWorker' /\ NothingLost'
  BY <1>1 DEF WantedHasWorker, NothingLost, Queued, Waiting
<1>4. AnswersOpen' /\ InsidePump'
  BY <1>1 DEF AnswersOpen, InsidePump
<1> QED
  BY <1>2, <1>3, <1>4

LEMMA AnswersStep ==
    ASSUME Cancellers \subseteq {Game}
    PROVE  TypeOK /\ AnswersInv /\ [Next]_vars => AnswersInv'
<1> SUFFICES ASSUME TypeOK, AnswersInv, [Next]_vars PROVE AnswersInv'
  OBVIOUS
<1>1. ASSUME NEW t \in Threads, EngineBegins(t) \/ EngineBuilds(t) \/ EngineCancels(t)
      PROVE  AnswersInv'
  BY <1>1, BeginKeeps, PostKeeps, StoreKeeps, CancelKeeps DEF EngineBuilds
<1>2. CASE BeginPump \/ RunAnswer \/ EngineCompletes \/ AnswerReturns
  BY <1>2, SwapKeeps, RunKeeps, CompleteKeeps, ReturnKeeps
<1>3. CASE ControlTick \/ DrainEvents \/ ExitCheck \/ EndPump \/ EndFrame
  BY <1>3, LoopSteps DEF ControlTick, DrainEvents, ExitCheck, EndPump, EndFrame
<1>4. CASE Press \/ PollAll \/ Exited \/ UNCHANGED vars
  BY <1>4, LoopSteps DEF Press, PollAll, Exited, vars
<1>5. ASSUME NEW t \in Threads, Finish(t) \/ PushQuit(t)
      PROVE  AnswersInv'
  BY <1>5, LoopSteps DEF Finish, PushQuit
<1> QED
  BY <1>1, <1>2, <1>3, <1>4, <1>5 DEF Next, Loop

LEMMA AnswersAlways ==
    ASSUME Cancellers \subseteq {Game}
    PROVE  Spec => []AnswersInv
<1>1. Init => AnswersInv
  <2> SUFFICES ASSUME Init PROVE AnswersInv
    OBVIOUS
  <2>1. /\ \A t \in Threads : building[t] = None
        /\ \A r \in Requests : worker[r] = "none" /\ ~Waiting(r)
        /\ batch = <<>> /\ answering = None /\ Game \in Threads
    BY DEF Init, InitCloudcell, Waiting, Threads
  <2> QED
    BY <2>1 DEF AnswersInv, BuiltInside, WantedHasWorker, InsidePump, NothingLost, AnswersOpen
<1> QED
  BY <1>1, AnswersStep, TypeCorrect, PTL DEF Spec

\* A post from any thread, at any moment of a frame and from inside another
\* answer, is not lost.
THEOREM PostsKept ==
    ASSUME Cancellers \subseteq {Game}
    PROVE  Spec => []NothingLost
<1>1. AnswersInv => NothingLost
  BY DEF AnswersInv
<1> QED
  BY <1>1, AnswersAlways, PTL

\* An answer finds its object open and its worker alive, and never runs inside
\* the call that posts a request.
THEOREM AnswersFindOpen ==
    ASSUME Cancellers \subseteq {Game}
    PROVE  Spec => []AnswersOpen
<1>1. AnswersInv => AnswersOpen
  BY DEF AnswersInv
<1> QED
  BY <1>1, AnswersAlways, PTL

\* No answer completes a request before QueueRequest has stored its worker.
THEOREM AnswersFindWhole ==
    ASSUME Cancellers \subseteq {Game}
    PROVE  Spec => AnswersWhole
<1> DEFINE Whole == \A r \in Requests :
        worker'[r] = "completed" /\ worker[r] # "completed" => worker[r] = "stored"
<1>1. TypeOK /\ AnswersInv /\ [Next]_vars => [Whole]_vars
  <2> SUFFICES ASSUME TypeOK, AnswersInv, [Next]_vars PROVE Whole
    OBVIOUS
  <2> USE EngineTypes
  <2>1. ASSUME NEW t \in Threads, NEW r \in Requests, BeginRequest(t, r) \/ Cancel(t, r)
        PROVE  Whole
    BY <2>1 DEF BeginRequest, Cancel
  <2>2. ASSUME NEW t \in Threads, Post(t) \/ Store(t)
        PROVE  Whole
    BY <2>2 DEF Post, Store
  <2>3. CASE Swap \/ RunNext \/ Return \/ UNCHANGED cloudcell
    BY <2>3 DEF Swap, RunNext, Return, cloudcell
  <2>4. CASE Complete
    BY <2>4, CompletesStored DEF Complete
  <2> QED
    BY <2>1, <2>2, <2>3, <2>4, CloudcellSteps
<1> QED
  BY <1>1, AnswersAlways, TypeCorrect, PTL DEF Spec, AnswersWhole
=============================================================================
