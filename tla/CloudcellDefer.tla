---------------------------- MODULE CloudcellDefer ----------------------------
(***************************************************************************)
(* The deferred answers of the Cloudcell facades                           *)
(* (jni/classes/cloudcell_defer.cpp) and the HTTP request object that they *)
(* exist for (jni/classes/cc_http_request.cpp).                            *)
(*                                                                         *)
(* The engine builds a request in three steps under its manager's mutex:   *)
(* it makes the Java object, posts it, and stores the worker it belongs    *)
(* to.  post() only queues an answer; the frame loop swaps the queue out   *)
(* and runs the answers one by one outside the queue's lock.  A name of    *)
(* Requests stands for an object from its construction until no queued     *)
(* answer refers to it; the loader frees none.                             *)
(***************************************************************************)
EXTENDS Naturals, Sequences

CONSTANTS
    Requests,     \* the HTTP request objects in use at one time
    Game,         \* the thread of the frame loop
    Workers,      \* Cloudcell's own threads
    Cancellers,   \* the threads that give a posted request up
    ErrorCallback,\* does the engine's library export errorCallback?
    Nobody, None

Threads == {Game} \cup Workers

ASSUME ThreadsAssumption == /\ Game \notin Workers /\ Nobody \notin Threads
                            /\ Cancellers \subseteq Threads /\ None \notin Requests
                            /\ ErrorCallback \in BOOLEAN

VARIABLES
    g_queue,   \* the answers that wait for the next frame
    batch,     \* the answers cloudcell_pump still has to run
    req,       \* the Java objects: pending, closed
    worker,    \* worker[r]: how far the engine's worker of r has come
    manager,   \* who holds the manager's mutex
    building,  \* building[t]: the request that t is putting together
    answering  \* the request whose errorCallback is running

cloudcell == <<g_queue, batch, req, worker, manager, building, answering>>

Holds(answers, r) == \E i \in DOMAIN answers : answers[i] = r

Queued(r) == Holds(g_queue, r) \/ Holds(batch, r)

\* The request has been posted and the engine still wants its answer.
Waiting(r) == req[r].pending /\ ~req[r].closed

InitCloudcell ==
    /\ g_queue = <<>> /\ batch = <<>> /\ manager = Nobody /\ answering = None
    /\ req = [r \in Requests |-> [pending |-> FALSE, closed |-> FALSE]]
    /\ worker = [r \in Requests |-> "none"]
    /\ building = [t \in Threads |-> None]

-----------------------------------------------------------------------------
(* The engine's threads.                                                   *)

\* QueueRequest takes the mutex, and the worker's constructor begins:
\* http_ctor and http_init.
BeginRequest(t, r) ==
    /\ building[t] = None /\ manager = Nobody
    /\ worker[r] = "none" /\ ~Queued(r)
    /\ manager' = t /\ building' = [building EXCEPT ![t] = r]
    /\ worker' = [worker EXCEPT ![r] = "built"]
    /\ req' = [req EXCEPT ![r] = [pending |-> FALSE, closed |-> FALSE]]
    /\ UNCHANGED <<g_queue, batch, answering>>

\* The game thread answers inside the call.
PostInline(t) ==
    LET r == building[t]
    IN  /\ r # None /\ worker[r] = "built"
        /\ IF t = Game /\ answering = None
             THEN answering' = r /\ UNCHANGED <<g_queue, req>>
             ELSE /\ req' = [req EXCEPT ![r].pending = TRUE]
                  /\ g_queue' = Append(g_queue, r) /\ UNCHANGED answering
        /\ worker' = [worker EXCEPT ![r] = "posted"]
        /\ UNCHANGED <<batch, manager, building>>

\* http_post: pending, and an answer for the next frame.
Post(t) ==
    LET r == building[t]
    IN  /\ r # None /\ worker[r] = "built"
        /\ req' = [req EXCEPT ![r].pending = TRUE]
        /\ g_queue' = Append(g_queue, r)
        /\ worker' = [worker EXCEPT ![r] = "posted"]
        /\ UNCHANGED <<batch, manager, building, answering>>

\* The constructor has returned: the worker is stored in the request and the
\* mutex released.
Store(t) ==
    LET r == building[t]
    IN  /\ r # None /\ worker[r] = "posted"
        /\ worker' = [worker EXCEPT ![r] = "stored"]
        /\ building' = [building EXCEPT ![t] = None] /\ manager' = Nobody
        /\ UNCHANGED <<g_queue, batch, req, answering>>

\* The engine gives a request up: http_close or http_shutdown, and the worker
\* is deleted.
Cancel(t, r) ==
    /\ t \in Cancellers /\ building[t] = None /\ manager = Nobody
    /\ worker[r] = "stored"
    /\ \/ req' = [req EXCEPT ![r].closed = TRUE]
       \/ req' = [req EXCEPT ![r] = [pending |-> FALSE, closed |-> TRUE]]
    /\ worker' = [worker EXCEPT ![r] = "none"]
    /\ UNCHANGED <<g_queue, batch, manager, building, answering>>

-----------------------------------------------------------------------------
(* cloudcell_pump, on the game thread.                                     *)

Swap ==
    /\ batch' = g_queue /\ g_queue' = <<>>
    /\ UNCHANGED <<req, worker, manager, building, answering>>

\* An answer that does not look at the object.
RunNextUnchecked ==
    LET r == Head(batch)
    IN  /\ answering = None /\ batch # <<>>
        /\ batch' = Tail(batch)
        /\ req' = [req EXCEPT ![r].pending = FALSE] /\ answering' = r
        /\ UNCHANGED <<g_queue, worker, manager, building>>

\* One answer begins: a request that is closed or no longer pending gets none, and
\* without the callback a pending one is forgotten.
RunNext ==
    LET r == Head(batch)
    IN  /\ answering = None /\ batch # <<>>
        /\ batch' = Tail(batch)
        /\ IF Waiting(r)
             THEN /\ req' = [req EXCEPT ![r].pending = FALSE]
                  /\ answering' = IF ErrorCallback THEN r ELSE None
             ELSE UNCHANGED <<req, answering>>
        /\ UNCHANGED <<g_queue, worker, manager, building>>

\* OnJNICompletion: closes the object and, under the manager's recursive
\* mutex, completes the request.
Complete ==
    /\ answering # None /\ worker[answering] # "completed"
    /\ manager \in {Nobody, Game}
    /\ req' = [req EXCEPT ![answering].closed = TRUE]
    /\ worker' = [worker EXCEPT ![answering] = "completed"]
    /\ UNCHANGED <<g_queue, batch, manager, building, answering>>

\* The engine has deleted the worker, and errorCallback returns.
Return ==
    /\ answering # None /\ worker[answering] = "completed" /\ building[Game] = None
    /\ answering' = None /\ worker' = [worker EXCEPT ![answering] = "none"]
    /\ UNCHANGED <<g_queue, batch, req, manager, building>>

-----------------------------------------------------------------------------
TypeOKCloudcell ==
    /\ g_queue \in Seq(Requests) /\ batch \in Seq(Requests)
    /\ req \in [Requests -> [pending : BOOLEAN, closed : BOOLEAN]]
    /\ worker \in [Requests -> {"none", "built", "posted", "stored", "completed"}]
    /\ manager \in Threads \cup {Nobody}
    /\ building \in [Threads -> Requests \cup {None}]
    /\ answering \in Requests \cup {None}

\* "The object must still read open when the deferred callback fires": an
\* answer enters OnJNICompletion with an object nobody closed and a worker
\* nobody deleted, and never from inside the call that posts a request.
AnswersOpen ==
    answering # None /\ worker[answering] # "completed" =>
        /\ ~req[answering].closed
        /\ worker[answering] \in {"posted", "stored"}
        /\ building[Game] = None

\* A post from any thread, at any moment of a frame and from inside another
\* answer, is not lost: as long as the engine waits, its answer is on its way.
NothingLost == \A r \in Requests : Waiting(r) => Queued(r)
=============================================================================
