---------------------------- MODULE PthreadBridge ----------------------------
(***************************************************************************)
(* The loader's pthread bridge (src/symtab_pthread.cpp and, for the calls  *)
(* it does not replace, thunks/libc/pthread.cpp): one bionic mutex and one *)
(* bionic condvar of the game, each a single word that holds zero or a     *)
(* static initialiser until a call creates the host object on the heap and *)
(* stores its address there.                                               *)
(*                                                                         *)
(* The game around them is a queue: producers put items and signal,        *)
(* consumers wait for them, as EA::Thread::Condition is used.  A host      *)
(* object is named by the order of its allocation; 0 is a word that holds  *)
(* no address (at most kBionicInitWordMax).                                *)
(***************************************************************************)
EXTENDS Naturals, Sequences

CONSTANTS
    Producers, Consumers, Nobody,
    Timed,          \* the consumers that wait with a deadline
    Want,           \* Want[t]: the items t puts or takes before it is done
    SignalLocked,   \* does the game signal before it unlocks?
    Types           \* the types the mutex's static initialiser may have

Threads == Producers \cup Consumers
Normal     == "PTHREAD_MUTEX_NORMAL"
Recursive  == "PTHREAD_MUTEX_RECURSIVE"
ErrorCheck == "PTHREAD_MUTEX_ERRORCHECK"

ASSUME ThreadAssumption == /\ Producers \cap Consumers = {} /\ Nobody \notin Threads
                           /\ Timed \subseteq Consumers
ASSUME WantAssumption   == Want \in [Threads -> Nat]
ASSUME SwitchAssumption == /\ SignalLocked \in BOOLEAN
                           /\ Types \subseteq {Normal, Recursive, ErrorCheck}

VARIABLES
    kind,    \* the type bits of the mutex word, before a host mutex is there
    real_mtx,\* the mutex word: 0, or the host mutex it points to
    hosts,   \* the host mutexes allocated: type, owner, how deep
    cnd,     \* the condvar word: 0, or the host condvar it points to
    conds,   \* the host condvars allocated: who sleeps on each
    boot,    \* the owner of g_mutex_bootstrap
    th,      \* th[t]: where t is, and its locals
    items,   \* the game's queue
    left     \* left[t]: the items t still puts or takes

vars == <<kind, real_mtx, hosts, cnd, conds, boot, th, items, left>>

At(t, pc)    == th[t].pc = pc
Go(t, pc)    == th' = [th EXCEPT ![t].pc = pc]
GoRet(t, pc, ret) == th' = [th EXCEPT ![t].pc = pc, ![t].ret = ret]

-----------------------------------------------------------------------------
(* host_mutex: the double-checked creation behind lock, unlock, trylock    *)
(* and timedwait.  A word that holds an address is never looked up again.  *)

\* bionic_pthread_mutex_lock: the fast path of host_mutex.
LockFast(t) ==
    /\ At(t, "lock")
    /\ th' = IF real_mtx > 0
               THEN [th EXCEPT ![t].pc = "take", ![t].host = real_mtx]
               ELSE [th EXCEPT ![t].pc = "boot"]
    /\ UNCHANGED <<kind, real_mtx, hosts, cnd, conds, boot, items, left>>

Bootstrap(t) ==
    /\ \/ At(t, "boot") /\ Go(t, "create")
       \/ At(t, "cond_boot") /\ Go(t, "cond_create")
    /\ boot = Nobody /\ boot' = t
    /\ UNCHANGED <<kind, real_mtx, hosts, cnd, conds, items, left>>

HostMutex(type) == [type |-> type, owner |-> Nobody, depth |-> 0]

\* Without looking at the word again.
CreateAgain(t) ==
    /\ At(t, "create")
    /\ hosts' = Append(hosts, HostMutex(kind)) /\ real_mtx' = Len(hosts')
    /\ th' = [th EXCEPT ![t].pc = "take", ![t].host = real_mtx']
    /\ boot' = Nobody
    /\ UNCHANGED <<kind, cnd, conds, items, left>>

\* Every created mutex is a normal one, whatever the initialiser said.
CreateNormal(t) ==
    /\ At(t, "create")
    /\ IF real_mtx = 0
         THEN hosts' = Append(hosts, HostMutex(Normal)) /\ real_mtx' = Len(hosts')
         ELSE UNCHANGED <<hosts, real_mtx>>
    /\ th' = [th EXCEPT ![t].pc = "take", ![t].host = real_mtx']
    /\ boot' = Nobody
    /\ UNCHANGED <<kind, cnd, conds, items, left>>

Create(t) ==
    /\ At(t, "create")
    /\ IF real_mtx = 0
         THEN hosts' = Append(hosts, HostMutex(kind)) /\ real_mtx' = Len(hosts')
         ELSE UNCHANGED <<hosts, real_mtx>>
    /\ th' = [th EXCEPT ![t].pc = "take", ![t].host = real_mtx']
    /\ boot' = Nobody
    /\ UNCHANGED <<kind, cnd, conds, items, left>>

\* pthread_mutex_lock on the host mutex: it waits unless it is free or, for a
\* recursive one, already the caller's.
Take(t) ==
    LET h == th[t].host
    IN  /\ At(t, "take")
        /\ hosts[h].owner = Nobody \/ (hosts[h].owner = t /\ hosts[h].type = Recursive)
        /\ hosts' = [hosts EXCEPT ![h].owner = t, ![h].depth = @ + 1]
        /\ th' = [th EXCEPT ![t].pc = th[t].ret, ![t].try = FALSE]
        /\ UNCHANGED <<kind, real_mtx, cnd, conds, boot, items, left>>

\* bionic_pthread_mutex_trylock on a mutex that is taken: the game locks instead.
TryFails(t) ==
    /\ At(t, "take") /\ th[t].try /\ hosts[th[t].host].owner \notin {Nobody, t}
    /\ th' = [th EXCEPT ![t].pc = "lock", ![t].try = FALSE]
    /\ UNCHANGED <<kind, real_mtx, hosts, cnd, conds, boot, items, left>>

Released(h) == [hosts EXCEPT ![h].depth = @ - 1,
                             ![h].owner = IF hosts[h].depth = 1 THEN Nobody ELSE @]

\* bionic_pthread_mutex_unlock: the word holds an address by now.
Unlock(t) ==
    /\ At(t, "unlock")
    /\ hosts' = Released(real_mtx)
    /\ Go(t, th[t].ret)
    /\ UNCHANGED <<kind, real_mtx, cnd, conds, boot, items, left>>

-----------------------------------------------------------------------------
(* The condvar.  Every call creates it on first use; only the timed wait   *)
(* does so under g_mutex_bootstrap.                                        *)

\* The first test of the word, in wait, timedwait and signal.
CondFast(t) ==
    /\ \/ At(t, "wait") /\ Go(t, IF cnd > 0 THEN "sleep" ELSE "wait_init")
       \/ At(t, "timedwait") /\ Go(t, IF cnd > 0 THEN "sleep" ELSE "cond_boot")
       \/ At(t, "signal") /\ Go(t, IF cnd > 0 THEN "notify" ELSE "signal_init")
    /\ UNCHANGED <<kind, real_mtx, hosts, cnd, conds, boot, items, left>>

\* pthread_cond_init_impl: allocates, and overwrites the word.
CondInit(t) ==
    /\ \/ At(t, "wait_init") /\ Go(t, "sleep")
       \/ At(t, "signal_init") /\ Go(t, "notify")
    /\ conds' = Append(conds, {}) /\ cnd' = Len(conds')
    /\ UNCHANGED <<kind, real_mtx, hosts, boot, items, left>>

\* bionic_pthread_cond_timedwait, with g_mutex_bootstrap held.
CondCreate(t) ==
    /\ At(t, "cond_create")
    /\ IF cnd = 0
         THEN conds' = Append(conds, {}) /\ cnd' = Len(conds')
         ELSE UNCHANGED <<cnd, conds>>
    /\ Go(t, "sleep") /\ boot' = Nobody
    /\ UNCHANGED <<kind, real_mtx, hosts, items, left>>

\* The host's pthread_cond_wait: joins the sleepers and gives the mutex up.
Sleep(t) ==
    /\ At(t, "sleep")
    /\ conds' = [conds EXCEPT ![cnd] = @ \cup {t}]
    /\ hosts' = Released(real_mtx)
    /\ th' = [th EXCEPT ![t].pc = "asleep", ![t].host = real_mtx]
    /\ UNCHANGED <<kind, real_mtx, cnd, boot, items, left>>

\* The deadline passes; the sleeper takes the mutex again before it returns.
Timeout(t) ==
    /\ At(t, "asleep") /\ t \in Timed
    /\ conds' = [c \in DOMAIN conds |-> conds[c] \ {t}]
    /\ GoRet(t, "take", "work")
    /\ UNCHANGED <<kind, real_mtx, hosts, cnd, boot, items, left>>

Awake(S) == [t \in Threads |-> IF t \in S THEN [th[t] EXCEPT !.pc = "take", !.ret = "work"]
                               ELSE th[t]]

AfterSignal(t) == IF SignalLocked THEN "leave" ELSE "idle"

\* pthread_cond_signal wakes one sleeper, if there is one; broadcast wakes all.
Notify(t) ==
    /\ At(t, "notify")
    /\ \E S \in SUBSET conds[cnd] :
        /\ S = {} => conds[cnd] = {}
        /\ (\E u \in S : S = {u}) \/ S = conds[cnd]
        /\ th' = [Awake(S) EXCEPT ![t].pc = AfterSignal(t)]
        /\ conds' = [conds EXCEPT ![cnd] = @ \ S]
    /\ UNCHANGED <<kind, real_mtx, hosts, cnd, boot, items, left>>

-----------------------------------------------------------------------------
(* The game's threads.                                                     *)

Begin(t) ==
    /\ At(t, "idle") /\ left[t] > 0
    /\ \E try \in BOOLEAN :
        /\ try => t \in Producers
        /\ th' = [th EXCEPT ![t].pc = "lock", ![t].try = try,
                    ![t].ret = IF kind = Recursive /\ t \in Producers THEN "enter" ELSE "work"]
    /\ UNCHANGED <<kind, real_mtx, hosts, cnd, conds, boot, items, left>>

\* A recursive mutex is locked again, and unlocked, before the work begins.
Enter(t) ==
    /\ \/ At(t, "enter") /\ GoRet(t, "lock", "nested")
       \/ At(t, "nested") /\ GoRet(t, "unlock", "work")
    /\ UNCHANGED <<kind, real_mtx, hosts, cnd, conds, boot, items, left>>

Produce(t) ==
    /\ At(t, "work") /\ t \in Producers
    /\ items' = items + 1 /\ left' = [left EXCEPT ![t] = @ - 1]
    /\ IF SignalLocked THEN Go(t, "signal") ELSE GoRet(t, "unlock", "signal")
    /\ UNCHANGED <<kind, real_mtx, hosts, cnd, conds, boot>>

Consume(t) ==
    /\ At(t, "work") /\ t \in Consumers
    /\ IF items > 0
         THEN /\ items' = items - 1 /\ left' = [left EXCEPT ![t] = @ - 1]
              /\ Go(t, "leave")
         ELSE /\ Go(t, IF t \in Timed THEN "timedwait" ELSE "wait")
              /\ UNCHANGED <<items, left>>
    /\ UNCHANGED <<kind, real_mtx, hosts, cnd, conds, boot>>

Leave(t) ==
    /\ At(t, "leave") /\ GoRet(t, "unlock", "idle")
    /\ UNCHANGED <<kind, real_mtx, hosts, cnd, conds, boot, items, left>>

AllDone == \A t \in Threads : At(t, "idle") /\ left[t] = 0

\* bionic_pthread_mutex_destroy and pthread_cond_destroy_impl: both words are
\* zero again, whatever the initialiser was.
Destroy ==
    /\ AllDone /\ real_mtx > 0
    /\ real_mtx' = 0 /\ kind' = Normal /\ cnd' = 0
    /\ hosts' = <<>> /\ conds' = <<>>
    /\ UNCHANGED <<boot, th, items, left>>

Finished == AllDone /\ UNCHANGED vars

-----------------------------------------------------------------------------
Init ==
    /\ kind \in Types /\ real_mtx = 0 /\ hosts = <<>>
    /\ cnd = 0 /\ conds = <<>> /\ boot = Nobody
    /\ th = [t \in Threads |-> [pc |-> "idle", ret |-> "idle", host |-> 0, try |-> FALSE]]
    /\ items = 0 /\ left = Want

Step(t) ==
    \/ Begin(t) \/ Enter(t) \/ Produce(t) \/ Consume(t) \/ Leave(t)
    \/ LockFast(t) \/ Bootstrap(t) \/ Create(t) \/ Take(t) \/ TryFails(t) \/ Unlock(t)
    \/ CondFast(t) \/ CondInit(t) \/ CondCreate(t) \/ Sleep(t) \/ Timeout(t) \/ Notify(t)

Next == (\E t \in Threads : Step(t)) \/ Destroy \/ Finished

\* A thread that can go on does; a mutex released again and again is had at
\* last by a thread that waits for it.
Fairness == \A t \in Threads : WF_vars(Step(t)) /\ SF_vars(Take(t)) /\ SF_vars(Bootstrap(t))

Spec == Init /\ [][Next]_vars /\ Fairness

-----------------------------------------------------------------------------
PCs == {"idle", "lock", "boot", "create", "take", "unlock", "wait", "timedwait",
        "cond_boot", "cond_create", "wait_init", "signal_init", "sleep", "asleep",
        "signal", "notify", "enter", "nested", "work", "leave"}

\* Types: what each variable may hold.
TypeOK ==
    /\ kind \in {Normal, Recursive, ErrorCheck}
    /\ hosts \in Seq([type : {Normal, Recursive, ErrorCheck},
                      owner : Threads \cup {Nobody}, depth : Nat])
    /\ real_mtx \in 0..Len(hosts)
    /\ conds \in Seq(SUBSET Threads) /\ cnd \in 0..Len(conds)
    /\ boot \in Threads \cup {Nobody}
    /\ th \in [Threads -> [pc : PCs, ret : PCs, host : Nat, try : BOOLEAN]]
    /\ items \in Nat /\ left \in [Threads -> Nat]

\* The owner of the mutex the word names.
Owner == IF real_mtx = 0 THEN Nobody ELSE hosts[real_mtx].owner

\* A thread between its lock and its unlock, its first lock when it nests two.
Holds(t) ==
    \/ th[t].pc \in {"work", "enter", "nested", "leave", "unlock", "wait", "timedwait",
                     "wait_init", "cond_boot", "cond_create", "sleep"}
    \/ th[t].ret = "nested"
    \/ SignalLocked /\ th[t].pc \in {"signal", "signal_init", "notify"}

\* Mutual exclusion as the game relies on it: whichever threads arrive at the
\* initialiser together, one host mutex serves them all, and a thread that was
\* let in owns the mutex that the word names until it gives it up.
HoldersOwn == \A t \in Threads : Holds(t) => Owner = t

\* What the comment in bionic_pthread_cond_timedwait wants of its creation
\* ("lazily created, and serialised"; else "one of the two is then referenced by
\* nobody: a lost wakeup"): every sleeper sleeps on the condvar that the word
\* names, so that a signal can reach it.
SleepersNamed == \A c \in DOMAIN conds : conds[c] # {} => c = cnd

\* No thread is parked for ever on the mutex, whatever its type, nor on the condvar
\* if the game signals under the mutex: every item put is taken and every thread
\* is done.
EveryoneServed == <>AllDone
=============================================================================
