------------------------ MODULE PthreadBridgeProofs -------------------------
(***************************************************************************)
(* Proofs about the pthread bridge, for any number of threads and items:   *)
(* the mutex word names one host mutex, and its holders own it.            *)
(***************************************************************************)
EXTENDS PthreadBridge, SequenceTheorems, TLAPS

-----------------------------------------------------------------------------
(* Types.  That the items left to a thread are never negative needs that a *)
(* thread on its way to its work has some left.                            *)

\* On the way to the mutex, and past it with the work still to be done.
Before  == {"lock", "boot", "create", "take"}
Working == {"enter", "nested", "work", "wait", "timedwait", "wait_init", "cond_boot",
            "cond_create", "sleep", "asleep"}

\* A thread that has not done its work has some left.
Owes(t) == th[t].pc \in Before \cup Working \/ (th[t].pc = "unlock" /\ th[t].ret = "work")
Owing   == \A t \in Threads : Owes(t) => left[t] > 0

\* Where a thread goes on once it has locked or unlocked.
Returns(t) ==
    /\ th[t].pc \in Before => th[t].ret \in {"enter", "work", "nested"}
    /\ th[t].ret = "nested" => th[t].pc \in Before \cup {"nested"}
    /\ th[t].pc = "nested" => th[t].ret = "nested"
    /\ th[t].pc = "unlock" => th[t].ret \in {"work", "idle", "signal"}
    /\ th[t].pc = "unlock" /\ th[t].ret = "signal" => ~SignalLocked
ReturnsRight == \A t \in Threads : Returns(t)

\* One host mutex at most, and whoever is about to take it has its name.
Named(t) == th[t].pc \in {"take", "asleep"} => real_mtx = 1 /\ th[t].host = 1
OneHost ==
    /\ real_mtx = Len(hosts) /\ real_mtx <= 1
    /\ \A t \in Threads : Named(t)

\* g_mutex_bootstrap is held by the thread that creates an object.
BootHeld == \A t \in Threads : th[t].pc \in {"create", "cond_create"} => boot = t

\* Who is on a condvar is asleep, and on no other one, and a thread that is about to use the condvar's
\* word has seen it filled.
Sleepers ==
    /\ \A c \in DOMAIN conds : \A u \in conds[c] : th[u].pc = "asleep"
    /\ \A c, d \in DOMAIN conds : c # d => conds[c] \cap conds[d] = {}
    /\ \A t \in Threads : th[t].pc \in {"sleep", "notify"} => cnd > 0

\* How often a thread that holds the mutex has locked it.
Depth(t) == IF th[t].pc = "nested" \/ (th[t].pc = "unlock" /\ th[t].ret = "work")
            THEN 2 ELSE 1

\* Who holds the mutex owns the host mutex as deep as it has locked it, and nobody
\* else owns it.
Mutual ==
    /\ \A t \in Threads : Holds(t) => /\ real_mtx = 1
                                      /\ hosts[1].owner = t
                                      /\ hosts[1].depth = Depth(t)
    /\ real_mtx = 1 => \/ hosts[1].owner = Nobody /\ hosts[1].depth = 0
                       \/ hosts[1].owner \in Threads /\ Holds(hosts[1].owner)

IInv == TypeOK /\ Owing /\ ReturnsRight /\ OneHost /\ BootHeld /\ Sleepers /\ Mutual

-----------------------------------------------------------------------------
(* The host objects.                                                       *)

HostMutexes == [type : {Normal, Recursive, ErrorCheck}, owner : Threads \cup {Nobody}, depth : Nat]

\* A host mutex that a thread may name is there.
LEMMA HostThere ==
    ASSUME TypeOK, OneHost
    PROVE  /\ Len(hosts) \in Nat
           /\ real_mtx \in {0, 1}
           /\ real_mtx = 1 => hosts[1] \in HostMutexes /\ 1 \in DOMAIN hosts
<1>1. hosts \in Seq(HostMutexes)
  BY DEF TypeOK, HostMutexes
<1>2. Len(hosts) \in Nat /\ DOMAIN hosts = 1..Len(hosts)
  BY <1>1, LenProperties
<1>3. real_mtx \in {0, 1}
  BY <1>2 DEF OneHost
<1>4. real_mtx = 1 => 1 \in 1..Len(hosts)
  BY <1>2 DEF OneHost
<1>5. real_mtx = 1 => hosts[1] \in HostMutexes
  BY <1>1, <1>4, ElementOfSeq
<1> QED
  BY <1>2, <1>3, <1>4, <1>5

\* u, asleep so far, goes on to take the mutex.
Awoken(u) == /\ th[u].pc = "asleep" /\ th'[u].pc = "take"
             /\ th'[u].ret = "work" /\ th'[u].host = th[u].host

\* A signal lets sleepers go on to take the mutex; of the others only the
\* signaller moves.
LEMMA NotifyMoves ==
    ASSUME TypeOK, Sleepers, NEW t \in Threads, Notify(t)
    PROVE  /\ At(t, "notify")
           /\ th' \in [Threads -> [pc : PCs, ret : PCs, host : Nat, try : BOOLEAN]]
           /\ th'[t].pc = (IF SignalLocked THEN "leave" ELSE "idle")
           /\ th'[t].ret = th[t].ret
           /\ \A u \in Threads \ {t} : th'[u] = th[u] \/ Awoken(u)
<1>1. PICK S \in SUBSET conds[cnd] : th' = [Awake(S) EXCEPT ![t].pc = AfterSignal(t)]
  BY DEF Notify
<1>2. At(t, "notify") /\ cnd \in DOMAIN conds
  BY DEF Notify, Sleepers, TypeOK, At
<1>3. \A u \in S : th[u].pc = "asleep"
  BY <1>2 DEF Sleepers
<1>4. t \notin S
  BY <1>2, <1>3 DEF At
<1>5. AfterSignal(t) \in PCs
  BY DEF AfterSignal, PCs
<1>6. Awake(S) \in [Threads -> [pc : PCs, ret : PCs, host : Nat, try : BOOLEAN]]
  BY DEF Awake, TypeOK, PCs
<1>7. Awake(S)[t] = th[t]
  BY <1>4 DEF Awake
<1>8. \A u \in Threads : Awake(S)[u] = IF u \in S THEN [th[u] EXCEPT !.pc = "take", !.ret = "work"]
                                       ELSE th[u]
  BY DEF Awake
<1>9. th' \in [Threads -> [pc : PCs, ret : PCs, host : Nat, try : BOOLEAN]]
      /\ th'[t] = [th[t] EXCEPT !.pc = AfterSignal(t)]
      /\ \A u \in Threads \ {t} : th'[u] = Awake(S)[u]
  <2> HIDE DEF Awake
  <2> QED
    BY <1>1, <1>5, <1>6, <1>7
<1>10. th'[t].pc = AfterSignal(t) /\ th'[t].ret = th[t].ret
  BY <1>9 DEF TypeOK
<1>11. \A u \in Threads \ {t} : th'[u] = th[u] \/ Awoken(u)
  <2> SUFFICES ASSUME NEW u \in Threads \ {t} PROVE th'[u] = th[u] \/ Awoken(u)
    OBVIOUS
  <2>1. CASE u \in S
    <3>1. th'[u] = [th[u] EXCEPT !.pc = "take", !.ret = "work"] /\ th[u].pc = "asleep"
      BY <1>3, <1>8, <1>9, <2>1
    <3>2. th[u] \in [pc : PCs, ret : PCs, host : Nat, try : BOOLEAN]
      BY DEF TypeOK
    <3> QED
      BY <3>1, <3>2 DEF Awoken
  <2>2. CASE u \notin S
    BY <1>8, <1>9, <2>2
  <2> QED
    BY <2>1, <2>2
<1> QED
  BY <1>2, <1>9, <1>10, <1>11 DEF AfterSignal

LEMMA IInvInit == Init => IInv
<1> SUFFICES ASSUME Init PROVE IInv
  OBVIOUS
<1> USE DEF Init
<1>1. TypeOK
  <2>1. Len(hosts) = 0 /\ Len(conds) = 0 /\ hosts \in Seq(HostMutexes)
        /\ conds \in Seq(SUBSET Threads)
    BY EmptySeq
  <2> QED
    BY <2>1, SwitchAssumption, WantAssumption DEF TypeOK, HostMutexes, PCs
<1>2. Owing /\ ReturnsRight
  BY DEF Owing, Owes, ReturnsRight, Returns, Before, Working
<1>3. OneHost
  BY EmptySeq DEF OneHost, Named
<1>4. BootHeld /\ Sleepers
  BY EmptySeq DEF BootHeld, Sleepers
<1>5. Mutual
  BY DEF Mutual, Holds
<1> QED
  BY <1>1, <1>2, <1>3, <1>4, <1>5 DEF IInv

-----------------------------------------------------------------------------
(* What the steps that touch the host mutex do to it.                      *)

\* There is one host mutex, and o owns it d deep.
OnlyHost(s, o, d) == s \in Seq(HostMutexes) /\ Len(s) = 1 /\ s[1].owner = o /\ s[1].depth = d

LEMMA HostSet ==
    ASSUME NEW s \in Seq(HostMutexes), Len(s) = 1, NEW e \in HostMutexes
    PROVE  OnlyHost([s EXCEPT ![1] = e], e.owner, e.depth)
<1>1. 1 \in 1..Len(s)
  OBVIOUS
<1>2. [s EXCEPT ![1] = e] \in Seq(HostMutexes) /\ Len([s EXCEPT ![1] = e]) = Len(s)
  BY <1>1, ExceptSeq
<1>3. [s EXCEPT ![1] = e][1] = e
  BY <1>1
<1> QED
  BY <1>2, <1>3 DEF OnlyHost

\* A host mutex with another owner and depth, set in either order, is one.
Locked(h, o, d)   == [h EXCEPT !.owner = o, !.depth = d]
Unlocked(h, o, d) == [h EXCEPT !.depth = d, !.owner = o]

LEMMA HostChanged ==
    ASSUME NEW h \in HostMutexes, NEW o \in Threads \cup {Nobody}, NEW d \in Nat
    PROVE  /\ Locked(h, o, d) \in HostMutexes
           /\ Locked(h, o, d).owner = o /\ Locked(h, o, d).depth = d
           /\ Unlocked(h, o, d) \in HostMutexes
           /\ Unlocked(h, o, d).owner = o /\ Unlocked(h, o, d).depth = d
<1>1. ASSUME NEW k \in HostMutexes
      PROVE  [k EXCEPT !.owner = o] \in HostMutexes /\ [k EXCEPT !.depth = d] \in HostMutexes
  BY DEF HostMutexes
<1>2. /\ [[h EXCEPT !.owner = o] EXCEPT !.depth = d] \in HostMutexes
      /\ [[h EXCEPT !.depth = d] EXCEPT !.owner = o] \in HostMutexes
  BY <1>1
<1>3. Locked(h, o, d) \in HostMutexes /\ Unlocked(h, o, d) \in HostMutexes
  BY <1>2 DEF Locked, Unlocked
<1>4. /\ Locked(h, o, d).owner = o /\ Locked(h, o, d).depth = d
      /\ Unlocked(h, o, d).owner = o /\ Unlocked(h, o, d).depth = d
  BY DEF HostMutexes, Locked, Unlocked
<1> QED
  BY <1>3, <1>4

\* It is taken by a thread that owned nothing, or that nests its second lock.
LEMMA TakeMoves ==
    ASSUME IInv, NEW t \in Threads, Take(t)
    PROVE  /\ real_mtx = 1 /\ th[t].host = 1
           /\ OnlyHost(hosts', t, hosts[1].depth + 1)
           /\ \/ hosts[1].owner = Nobody /\ hosts[1].depth = 0 /\ th[t].ret \in {"enter", "work"}
              \/ hosts[1].owner = t /\ hosts[1].depth = 1 /\ th[t].ret = "nested"
<1> USE DEF IInv
<1>1. real_mtx = 1 /\ th[t].host = 1 /\ th[t].ret \in {"enter", "work", "nested"}
  BY DEF Take, OneHost, Named, At, ReturnsRight, Returns, Before
<1>2. hosts[1] \in HostMutexes /\ hosts[1].depth + 1 \in Nat
      /\ hosts \in Seq(HostMutexes) /\ Len(hosts) = 1
  BY <1>1, HostThere DEF HostMutexes, TypeOK, OneHost
<1> DEFINE d == hosts[1].depth + 1
           e == Locked(hosts[1], t, d)
<1>3. e \in HostMutexes /\ e.owner = t /\ e.depth = d
  <2>1. t \in Threads \cup {Nobody} /\ d \in Nat
    BY <1>2
  <2> HIDE DEF d
  <2> QED
    BY <1>2, <2>1, HostChanged
<1>4. hosts' = [hosts EXCEPT ![1] = e]
  BY <1>1 DEF Take, Locked
<1>5. OnlyHost(hosts', t, d)
  <2> HIDE DEF e, d
  <2> QED
    BY <1>2, <1>3, <1>4, HostSet
<1>6. CASE hosts[1].owner = Nobody
  <2>1. ~Holds(t) /\ hosts[1].depth = 0
    BY <1>1, <1>6, ThreadAssumption DEF Mutual
  <2> QED
    BY <1>1, <1>5, <1>6, <2>1 DEF Holds
<1>7. CASE hosts[1].owner = t
  <2>1. Holds(t) /\ hosts[1].depth = Depth(t)
    BY <1>1, <1>7, ThreadAssumption DEF Mutual
  <2>2. th[t].pc = "take" /\ th[t].ret = "nested"
    BY <2>1 DEF Holds, Take, At
  <2> QED
    BY <1>1, <1>5, <1>7, <2>1, <2>2 DEF Depth
<1> QED
  BY <1>1, <1>6, <1>7 DEF Take

\* It is released by its owner, once.
LEMMA ReleaseMoves ==
    ASSUME IInv, NEW t \in Threads, Holds(t), hosts' = Released(real_mtx)
    PROVE  /\ real_mtx = 1
           /\ OnlyHost(hosts', IF Depth(t) = 1 THEN Nobody ELSE t, Depth(t) - 1)
<1> USE DEF IInv
<1>1. real_mtx = 1 /\ hosts[1].owner = t /\ hosts[1].depth = Depth(t)
  BY DEF Mutual
<1>2. hosts[1] \in HostMutexes /\ hosts \in Seq(HostMutexes) /\ Len(hosts) = 1
  BY <1>1, HostThere DEF HostMutexes, TypeOK, OneHost
<1>3. Depth(t) \in {1, 2}
  BY DEF Depth
<1> DEFINE o == IF hosts[1].depth = 1 THEN Nobody ELSE hosts[1].owner
           d == hosts[1].depth - 1
           e == Unlocked(hosts[1], o, d)
<1>4. o \in Threads \cup {Nobody} /\ d \in Nat
  BY <1>1, <1>3
<1>5. e \in HostMutexes /\ e.owner = o /\ e.depth = d
  <2> HIDE DEF o, d
  <2>1. hosts[1] \in HostMutexes
    BY <1>2
  <2> QED
    BY <1>4, <2>1, HostChanged
<1>6. hosts' = [hosts EXCEPT ![1] = e]
  BY <1>1 DEF Released, Unlocked
<1>7. OnlyHost(hosts', o, d)
  <2> HIDE DEF e, o, d
  <2> QED
    BY <1>1, <1>2, <1>5, <1>6, HostSet
<1> QED
  BY <1>1, <1>7

\* It is created free.
LEMMA CreateMoves ==
    ASSUME IInv, NEW t \in Threads, Create(t), real_mtx = 0
    PROVE  OnlyHost(hosts', Nobody, 0) /\ real_mtx' = 1
<1>1. hosts \in Seq(HostMutexes) /\ Len(hosts) = 0
  BY DEF IInv, TypeOK, OneHost, HostMutexes
<1>2. HostMutex(kind) \in HostMutexes
  BY DEF IInv, TypeOK, HostMutex, HostMutexes
<1>3. hosts' = Append(hosts, HostMutex(kind)) /\ real_mtx' = Len(hosts')
  BY DEF Create
<1> QED
  BY <1>1, <1>2, <1>3, AppendProperties DEF OnlyHost, HostMutex

-----------------------------------------------------------------------------
(* Steps of one thread.                                                    *)

Others(t) == \A u \in Threads \ {t} : th'[u] = th[u]

\* t goes on, to where it would or to somewhere else.
LEMMA GoMoves ==
    ASSUME TypeOK, NEW t \in Threads, NEW p, Go(t, p)
    PROVE  th'[t].pc = p /\ th'[t].ret = th[t].ret /\ Others(t)
BY DEF TypeOK, Go, Others

LEMMA GoRetMoves ==
    ASSUME TypeOK, NEW t \in Threads, NEW p, NEW r, GoRet(t, p, r)
    PROVE  th'[t].pc = p /\ th'[t].ret = r /\ Others(t)
BY DEF TypeOK, GoRet, Others

\* What is true of each thread stays true if it does of the one that moves.
LEMMA OwingAlone ==
    ASSUME Owing, NEW t \in Threads, Others(t), \A u \in Threads \ {t} : left'[u] = left[u],
           Owes(t)' => left'[t] > 0
    PROVE  Owing'
<1>1. \A u \in Threads \ {t} : Owes(u)' <=> Owes(u)
  BY DEF Others, Owes
<1> QED
  BY <1>1 DEF Owing

LEMMA ReturnsAlone ==
    ASSUME ReturnsRight, NEW t \in Threads, Others(t), Returns(t)'
    PROVE  ReturnsRight'
<1>1. \A u \in Threads \ {t} : Returns(u)'
  BY DEF Others, Returns, ReturnsRight
<1> QED
  BY <1>1 DEF ReturnsRight

LEMMA OwingStep == IInv /\ [Next]_vars => Owing'
<1> SUFFICES ASSUME IInv, [Next]_vars PROVE Owing'
  OBVIOUS
<1> USE DEF IInv
<1>1. ASSUME NEW t \in Threads, Step(t) PROVE Owing'
  <2>1. CASE Begin(t)
    BY <2>1 DEF Begin, Owing, Owes, ReturnsRight, Returns, Before, Working, TypeOK, At, Go, GoRet
  <2>2. CASE Enter(t)
    <3>1. CASE At(t, "enter")
      BY <2>2, <3>1 DEF Enter, Owing, Owes, ReturnsRight, Returns, Before, Working, TypeOK, At, Go, GoRet
    <3>2. CASE At(t, "nested")
      BY <2>2, <3>2 DEF Enter, Owing, Owes, ReturnsRight, Returns, Before, Working, TypeOK, At, Go, GoRet
    <3> QED
      BY <2>2, <3>1, <3>2 DEF Enter
  <2>3. CASE Produce(t)
    BY <2>3 DEF Produce, Owing, Owes, ReturnsRight, Returns, Before, Working, TypeOK, At, Go, GoRet
  <2>4. CASE Consume(t)
    <3>1. CASE items > 0
      <4>1. th'[t].pc = "leave" /\ Others(t)
        BY <2>4, <3>1, GoMoves DEF Consume, At
      <4>2. ~Owes(t)'
        BY <4>1 DEF Owes, Before, Working
      <4> QED
        BY <2>4, <3>1, <4>1, <4>2, OwingAlone DEF Consume, TypeOK
    <3>2. CASE ~(items > 0) /\ t \in Timed
      BY <2>4, <3>2 DEF Consume, Owing, Owes, ReturnsRight, Returns, Before, Working, TypeOK, At, Go, GoRet
    <3>3. CASE ~(items > 0) /\ t \notin Timed
      BY <2>4, <3>3 DEF Consume, Owing, Owes, ReturnsRight, Returns, Before, Working, TypeOK, At, Go, GoRet
    <3> QED
      BY <3>1, <3>2, <3>3
  <2>5. CASE Leave(t)
    BY <2>5 DEF Leave, Owing, Owes, ReturnsRight, Returns, Before, Working, TypeOK, At, Go, GoRet
  <2>6. CASE LockFast(t)
    BY <2>6 DEF LockFast, Owing, Owes, ReturnsRight, Returns, Before, Working, TypeOK, At, Go, GoRet
  <2>7. CASE Bootstrap(t)
    <3>1. CASE At(t, "boot")
      BY <2>7, <3>1 DEF Bootstrap, Owing, Owes, ReturnsRight, Returns, Before, Working, TypeOK, At, Go, GoRet
    <3>2. CASE At(t, "cond_boot")
      BY <2>7, <3>2 DEF Bootstrap, Owing, Owes, ReturnsRight, Returns, Before, Working, TypeOK, At, Go, GoRet
    <3> QED
      BY <2>7, <3>1, <3>2 DEF Bootstrap
  <2>8. CASE Create(t)
    BY <2>8 DEF Create, Owing, Owes, ReturnsRight, Returns, Before, Working, TypeOK, At, Go, GoRet
  <2>9. CASE Take(t)
    BY <2>9 DEF Take, Owing, Owes, ReturnsRight, Returns, Before, Working, TypeOK, At, Go, GoRet
  <2>10. CASE TryFails(t)
    BY <2>10 DEF TryFails, Owing, Owes, ReturnsRight, Returns, Before, Working, TypeOK, At, Go, GoRet
  <2>11. CASE Unlock(t)
    <3>1. th'[t].pc = th[t].ret /\ Others(t)
      BY <2>11, GoMoves DEF Unlock
    <3>2. Owes(t)' => Owes(t)
      BY <2>11, <3>1 DEF Unlock, At, Owes, ReturnsRight, Returns, Before, Working
    <3> QED
      BY <2>11, <3>1, <3>2, OwingAlone DEF Unlock, Owing
  <2>12. CASE CondFast(t)
    <3>1. CASE At(t, "wait")
      BY <2>12, <3>1 DEF CondFast, Owing, Owes, ReturnsRight, Returns, Before, Working, TypeOK, At, Go, GoRet
    <3>2. CASE At(t, "timedwait")
      BY <2>12, <3>2 DEF CondFast, Owing, Owes, ReturnsRight, Returns, Before, Working, TypeOK, At, Go, GoRet
    <3>3. CASE At(t, "signal")
      <4>1. th'[t].pc \in {"notify", "signal_init"} /\ Others(t)
        BY <2>12, <3>3, GoMoves DEF CondFast, At
      <4>2. ~Owes(t)'
        BY <4>1 DEF Owes, Before, Working
      <4> QED
        BY <2>12, <4>1, <4>2, OwingAlone DEF CondFast
    <3> QED
      BY <2>12, <3>1, <3>2, <3>3 DEF CondFast
  <2>13. CASE CondInit(t)
    <3>1. CASE At(t, "wait_init")
      BY <2>13, <3>1 DEF CondInit, Owing, Owes, ReturnsRight, Returns, Before, Working, TypeOK, At, Go, GoRet
    <3>2. CASE At(t, "signal_init")
      <4>1. th'[t].pc = "notify" /\ Others(t)
        BY <2>13, <3>2, GoMoves DEF CondInit, At
      <4>2. ~Owes(t)'
        BY <4>1 DEF Owes, Before, Working
      <4> QED
        BY <2>13, <3>2, <4>1, <4>2, OwingAlone DEF CondInit, TypeOK
    <3> QED
      BY <2>13, <3>1, <3>2 DEF CondInit
  <2>14. CASE CondCreate(t)
    BY <2>14 DEF CondCreate, Owing, Owes, ReturnsRight, Returns, Before, Working, TypeOK, At, Go, GoRet
  <2>15. CASE Sleep(t)
    BY <2>15 DEF Sleep, Owing, Owes, ReturnsRight, Returns, Before, Working, TypeOK, At, Go, GoRet
  <2>16. CASE Timeout(t)
    BY <2>16 DEF Timeout, Owing, Owes, ReturnsRight, Returns, Before, Working, TypeOK, At, Go, GoRet
  <2>17. CASE Notify(t)
    <3> SUFFICES ASSUME NEW u \in Threads PROVE (Owes(u) => left[u] > 0)'
      BY DEF Owing
    <3>1. CASE u = t
      BY <2>17, <3>1, NotifyMoves DEF Owing, Owes, ReturnsRight, Returns, Before, Working, TypeOK, At, Go, GoRet, Notify
    <3>2. CASE u # t /\ th'[u] = th[u]
      BY <2>17, <3>2 DEF Owing, Owes, ReturnsRight, Returns, Before, Working, TypeOK, At, Go, GoRet, Notify
    <3>3. CASE u # t /\ Awoken(u)
      BY <2>17, <3>3 DEF Owing, Owes, ReturnsRight, Returns, Before, Working, TypeOK, At, Go, GoRet, Notify, Awoken
    <3> QED
      BY <2>17, <3>1, <3>2, <3>3, NotifyMoves
  <2> QED
    BY <1>1, <2>1, <2>2, <2>3, <2>4, <2>5, <2>6, <2>7, <2>8, <2>9, <2>10, <2>11, <2>12, <2>13, <2>14, <2>15, <2>16, <2>17 DEF Step
<1>2. CASE Destroy
  BY <1>2 DEF Destroy, AllDone, Owing, Owes, ReturnsRight, Returns, Before, Working, TypeOK, At, Go, GoRet
<1>3. CASE UNCHANGED vars
  BY <1>3 DEF vars, Owing, Owes, ReturnsRight, Returns, Before, Working, TypeOK, At, Go, GoRet
<1> QED
  BY <1>1, <1>2, <1>3 DEF Next, Finished

LEMMA ReturnsStep == IInv /\ [Next]_vars => ReturnsRight'
<1> SUFFICES ASSUME IInv, [Next]_vars PROVE ReturnsRight'
  OBVIOUS
<1> USE DEF IInv
<1>1. ASSUME NEW t \in Threads, Step(t) PROVE ReturnsRight'
  <2>1. CASE Begin(t)
    BY <2>1 DEF Begin, ReturnsRight, Returns, Before, TypeOK, At, Go, GoRet
  <2>2. CASE Enter(t)
    <3>1. CASE At(t, "enter")
      <4>1. th'[t].pc = "lock" /\ th'[t].ret = "nested" /\ Others(t)
        BY <2>2, <3>1, GoRetMoves DEF Enter, At
      <4>2. Returns(t)'
        BY <2>2, <3>1, <4>1 DEF Returns, Before, ReturnsRight, At
      <4> QED
        BY <4>1, <4>2, ReturnsAlone
    <3>2. CASE At(t, "nested")
      <4>1. th'[t].pc = "unlock" /\ th'[t].ret = "work" /\ Others(t)
        BY <2>2, <3>2, GoRetMoves DEF Enter, At
      <4>2. Returns(t)'
        BY <2>2, <3>2, <4>1 DEF Returns, Before, ReturnsRight, At
      <4> QED
        BY <4>1, <4>2, ReturnsAlone
    <3> QED
      BY <2>2, <3>1, <3>2 DEF Enter
  <2>3. CASE Produce(t)
    <3>1. CASE SignalLocked
      <4>1. th'[t].pc = "signal" /\ th'[t].ret = th[t].ret /\ Others(t)
        BY <2>3, <3>1, GoMoves DEF Produce, At
      <4>2. Returns(t)'
        BY <2>3, <3>1, <4>1 DEF Produce, Returns, Before, ReturnsRight, At
      <4> QED
        BY <4>1, <4>2, ReturnsAlone
    <3>2. CASE ~SignalLocked
      <4>1. th'[t].pc = "unlock" /\ th'[t].ret = "signal" /\ Others(t)
        BY <2>3, <3>2, GoRetMoves DEF Produce
      <4>2. Returns(t)'
        BY <4>1, <3>2 DEF Returns, Before
      <4> QED
        BY <4>1, <4>2, ReturnsAlone
    <3> QED
      BY <3>1, <3>2
  <2>4. CASE Consume(t)
    <3>1. CASE items > 0
      <4>1. th'[t].pc = "leave" /\ th'[t].ret = th[t].ret /\ Others(t)
        BY <2>4, <3>1, GoMoves DEF Consume, At
      <4>2. Returns(t)'
        BY <2>4, <3>1, <4>1 DEF Consume, Returns, Before, ReturnsRight, At
      <4> QED
        BY <4>1, <4>2, ReturnsAlone
    <3>2. CASE ~(items > 0) /\ t \in Timed
      <4>1. th'[t].pc = "timedwait" /\ th'[t].ret = th[t].ret /\ Others(t)
        BY <2>4, <3>2, GoMoves DEF Consume, At
      <4>2. Returns(t)'
        BY <2>4, <3>2, <4>1 DEF Consume, Returns, Before, ReturnsRight, At
      <4> QED
        BY <4>1, <4>2, ReturnsAlone
    <3>3. CASE ~(items > 0) /\ t \notin Timed
      <4>1. th'[t].pc = "wait" /\ th'[t].ret = th[t].ret /\ Others(t)
        BY <2>4, <3>3, GoMoves DEF Consume, At
      <4>2. Returns(t)'
        BY <2>4, <3>3, <4>1 DEF Consume, Returns, Before, ReturnsRight, At
      <4> QED
        BY <4>1, <4>2, ReturnsAlone
    <3> QED
      BY <3>1, <3>2, <3>3
  <2>5. CASE Leave(t)
    BY <2>5 DEF Leave, ReturnsRight, Returns, Before, TypeOK, At, Go, GoRet
  <2>6. CASE LockFast(t)
    BY <2>6 DEF LockFast, ReturnsRight, Returns, Before, TypeOK, At, Go, GoRet
  <2>7. CASE Bootstrap(t)
    <3>1. CASE At(t, "boot")
      BY <2>7, <3>1 DEF Bootstrap, ReturnsRight, Returns, Before, TypeOK, At, Go, GoRet
    <3>2. CASE At(t, "cond_boot")
      BY <2>7, <3>2 DEF Bootstrap, ReturnsRight, Returns, Before, TypeOK, At, Go, GoRet
    <3> QED
      BY <2>7, <3>1, <3>2 DEF Bootstrap
  <2>8. CASE Create(t)
    BY <2>8 DEF Create, ReturnsRight, Returns, Before, TypeOK, At, Go, GoRet
  <2>9. CASE Take(t)
    BY <2>9 DEF Take, ReturnsRight, Returns, Before, TypeOK, At, Go, GoRet
  <2>10. CASE TryFails(t)
    BY <2>10 DEF TryFails, ReturnsRight, Returns, Before, TypeOK, At, Go, GoRet
  <2>11. CASE Unlock(t)
    BY <2>11 DEF Unlock, ReturnsRight, Returns, Before, TypeOK, At, Go, GoRet
  <2>12. CASE CondFast(t)
    <3>1. CASE At(t, "wait")
      <4>1. th'[t].pc \in {"sleep", "wait_init"} /\ th'[t].ret = th[t].ret /\ Others(t)
        BY <2>12, <3>1, GoMoves DEF CondFast, At
      <4>2. Returns(t)'
        BY <2>12, <3>1, <4>1 DEF Returns, Before, ReturnsRight, At
      <4> QED
        BY <4>1, <4>2, ReturnsAlone
    <3>2. CASE At(t, "timedwait")
      <4>1. th'[t].pc \in {"sleep", "cond_boot"} /\ th'[t].ret = th[t].ret /\ Others(t)
        BY <2>12, <3>2, GoMoves DEF CondFast, At
      <4>2. Returns(t)'
        BY <2>12, <3>2, <4>1 DEF Returns, Before, ReturnsRight, At
      <4> QED
        BY <4>1, <4>2, ReturnsAlone
    <3>3. CASE At(t, "signal")
      <4>1. th'[t].pc \in {"notify", "signal_init"} /\ th'[t].ret = th[t].ret /\ Others(t)
        BY <2>12, <3>3, GoMoves DEF CondFast, At
      <4>2. Returns(t)'
        BY <2>12, <3>3, <4>1 DEF Returns, Before, ReturnsRight, At
      <4> QED
        BY <4>1, <4>2, ReturnsAlone
    <3> QED
      BY <2>12, <3>1, <3>2, <3>3 DEF CondFast
  <2>13. CASE CondInit(t)
    <3>1. CASE At(t, "wait_init")
      BY <2>13, <3>1 DEF CondInit, ReturnsRight, Returns, Before, TypeOK, At, Go, GoRet
    <3>2. CASE At(t, "signal_init")
      BY <2>13, <3>2 DEF CondInit, ReturnsRight, Returns, Before, TypeOK, At, Go, GoRet
    <3> QED
      BY <2>13, <3>1, <3>2 DEF CondInit
  <2>14. CASE CondCreate(t)
    BY <2>14 DEF CondCreate, ReturnsRight, Returns, Before, TypeOK, At, Go, GoRet
  <2>15. CASE Sleep(t)
    BY <2>15 DEF Sleep, ReturnsRight, Returns, Before, TypeOK, At, Go, GoRet
  <2>16. CASE Timeout(t)
    BY <2>16 DEF Timeout, ReturnsRight, Returns, Before, TypeOK, At, Go, GoRet
  <2>17. CASE Notify(t)
    <3> SUFFICES ASSUME NEW u \in Threads PROVE (Returns(u))'
      BY DEF ReturnsRight
    <3>1. CASE u = t
      BY <2>17, <3>1, NotifyMoves DEF ReturnsRight, Returns, Before, TypeOK, At, Go, GoRet, Notify
    <3>2. CASE u # t /\ th'[u] = th[u]
      BY <2>17, <3>2 DEF ReturnsRight, Returns, Before, TypeOK, At, Go, GoRet, Notify
    <3>3. CASE u # t /\ Awoken(u)
      BY <2>17, <3>3 DEF ReturnsRight, Returns, Before, TypeOK, At, Go, GoRet, Notify, Awoken
    <3> QED
      BY <2>17, <3>1, <3>2, <3>3, NotifyMoves
  <2> QED
    BY <1>1, <2>1, <2>2, <2>3, <2>4, <2>5, <2>6, <2>7, <2>8, <2>9, <2>10, <2>11, <2>12, <2>13, <2>14, <2>15, <2>16, <2>17 DEF Step
<1>2. CASE Destroy
  BY <1>2 DEF Destroy, AllDone, ReturnsRight, Returns, Before, TypeOK, At, Go, GoRet
<1>3. CASE UNCHANGED vars
  BY <1>3 DEF vars, ReturnsRight, Returns, Before, TypeOK, At, Go, GoRet
<1> QED
  BY <1>1, <1>2, <1>3 DEF Next, Finished

LEMMA BootStep == IInv /\ [Next]_vars => BootHeld'
<1> SUFFICES ASSUME IInv, [Next]_vars PROVE BootHeld'
  OBVIOUS
<1> USE DEF IInv
<1>1. ASSUME NEW t \in Threads, Step(t) PROVE BootHeld'
  <2>1. CASE Begin(t)
    BY <2>1 DEF Begin, BootHeld, TypeOK, At, Go, GoRet
  <2>2. CASE Enter(t)
    <3>1. CASE At(t, "enter")
      BY <2>2, <3>1 DEF Enter, BootHeld, TypeOK, At, Go, GoRet
    <3>2. CASE At(t, "nested")
      BY <2>2, <3>2 DEF Enter, BootHeld, TypeOK, At, Go, GoRet
    <3> QED
      BY <2>2, <3>1, <3>2 DEF Enter
  <2>3. CASE Produce(t)
    BY <2>3 DEF Produce, BootHeld, TypeOK, At, Go, GoRet
  <2>4. CASE Consume(t)
    <3>1. th'[t].pc \in {"leave", "timedwait", "wait"} /\ Others(t) /\ boot' = boot
      BY <2>4, GoMoves DEF Consume
    <3> QED
      BY <3>1 DEF BootHeld, Others
  <2>5. CASE Leave(t)
    BY <2>5 DEF Leave, BootHeld, TypeOK, At, Go, GoRet
  <2>6. CASE LockFast(t)
    BY <2>6 DEF LockFast, BootHeld, TypeOK, At, Go, GoRet
  <2>7. CASE Bootstrap(t)
    <3>1. CASE At(t, "boot")
      BY <2>7, <3>1, ThreadAssumption DEF Bootstrap, BootHeld, TypeOK, At, Go, GoRet
    <3>2. CASE At(t, "cond_boot")
      BY <2>7, <3>2, ThreadAssumption DEF Bootstrap, BootHeld, TypeOK, At, Go, GoRet
    <3> QED
      BY <2>7, <3>1, <3>2 DEF Bootstrap
  <2>8. CASE Create(t)
    BY <2>8 DEF Create, BootHeld, TypeOK, At, Go, GoRet
  <2>9. CASE Take(t)
    BY <2>9 DEF Take, BootHeld, TypeOK, At, Go, GoRet, ReturnsRight, Returns, Before
  <2>10. CASE TryFails(t)
    BY <2>10 DEF TryFails, BootHeld, TypeOK, At, Go, GoRet
  <2>11. CASE Unlock(t)
    BY <2>11 DEF Unlock, BootHeld, TypeOK, At, Go, GoRet, ReturnsRight, Returns
  <2>12. CASE CondFast(t)
    <3>1. CASE At(t, "wait")
      BY <2>12, <3>1 DEF CondFast, BootHeld, TypeOK, At, Go, GoRet
    <3>2. CASE At(t, "timedwait")
      BY <2>12, <3>2 DEF CondFast, BootHeld, TypeOK, At, Go, GoRet
    <3>3. CASE At(t, "signal")
      BY <2>12, <3>3 DEF CondFast, BootHeld, TypeOK, At, Go, GoRet
    <3> QED
      BY <2>12, <3>1, <3>2, <3>3 DEF CondFast
  <2>13. CASE CondInit(t)
    <3>1. CASE At(t, "wait_init")
      BY <2>13, <3>1 DEF CondInit, BootHeld, TypeOK, At, Go, GoRet
    <3>2. CASE At(t, "signal_init")
      BY <2>13, <3>2 DEF CondInit, BootHeld, TypeOK, At, Go, GoRet
    <3> QED
      BY <2>13, <3>1, <3>2 DEF CondInit
  <2>14. CASE CondCreate(t)
    BY <2>14 DEF CondCreate, BootHeld, TypeOK, At, Go, GoRet
  <2>15. CASE Sleep(t)
    BY <2>15 DEF Sleep, BootHeld, TypeOK, At, Go, GoRet
  <2>16. CASE Timeout(t)
    BY <2>16 DEF Timeout, BootHeld, TypeOK, At, Go, GoRet
  <2>17. CASE Notify(t)
    <3> SUFFICES ASSUME NEW u \in Threads PROVE (th[u].pc \in {"create", "cond_create"} => boot = u)'
      BY DEF BootHeld
    <3>1. CASE u = t
      BY <2>17, <3>1, NotifyMoves DEF BootHeld, TypeOK, At, Go, GoRet, Notify
    <3>2. CASE u # t /\ th'[u] = th[u]
      BY <2>17, <3>2 DEF BootHeld, TypeOK, At, Go, GoRet, Notify
    <3>3. CASE u # t /\ Awoken(u)
      BY <2>17, <3>3 DEF BootHeld, TypeOK, At, Go, GoRet, Notify, Awoken
    <3> QED
      BY <2>17, <3>1, <3>2, <3>3, NotifyMoves
  <2> QED
    BY <1>1, <2>1, <2>2, <2>3, <2>4, <2>5, <2>6, <2>7, <2>8, <2>9, <2>10, <2>11, <2>12, <2>13, <2>14, <2>15, <2>16, <2>17 DEF Step
<1>2. CASE Destroy
  BY <1>2 DEF Destroy, AllDone, BootHeld, TypeOK, At, Go, GoRet
<1>3. CASE UNCHANGED vars
  BY <1>3 DEF vars, BootHeld, TypeOK, At, Go, GoRet
<1> QED
  BY <1>1, <1>2, <1>3 DEF Next, Finished

-----------------------------------------------------------------------------
(* Types.                                                                  *)

Records == [pc : PCs, ret : PCs, host : Nat, try : BOOLEAN]

\* The threads k with one of t's fields set.
SetPc(k, t, p)   == [k EXCEPT ![t].pc = p]
SetRet(k, t, p)  == [k EXCEPT ![t].ret = p]
SetHost(k, t, n) == [k EXCEPT ![t].host = n]
SetTry(k, t, b)  == [k EXCEPT ![t].try = b]

LEMMA SetTypes ==
    ASSUME NEW k \in [Threads -> Records], NEW t \in Threads
    PROVE  /\ \A p \in PCs : SetPc(k, t, p) \in [Threads -> Records]
           /\ \A p \in PCs : SetRet(k, t, p) \in [Threads -> Records]
           /\ \A n \in Nat : SetHost(k, t, n) \in [Threads -> Records]
           /\ \A b \in BOOLEAN : SetTry(k, t, b) \in [Threads -> Records]
BY DEF Records, SetPc, SetRet, SetHost, SetTry

LEMMA GoTypes ==
    ASSUME TypeOK, NEW t \in Threads, NEW p \in PCs, NEW r \in PCs,
           Go(t, p) \/ GoRet(t, p, r)
    PROVE  th' \in [Threads -> Records]
<1>1. th \in [Threads -> Records]
  BY DEF TypeOK, Records
<1>2. CASE Go(t, p)
  <2>1. th' = SetPc(th, t, p)
    BY <1>2 DEF Go, SetPc
  <2> QED
    BY <1>1, <2>1, SetTypes
<1>3. CASE GoRet(t, p, r)
  <2>1. th' = SetRet(SetPc(th, t, p), t, r)
    BY <1>3 DEF GoRet, SetPc, SetRet
  <2> QED
    BY <1>1, <2>1, SetTypes
<1> QED
  BY <1>2, <1>3

LEMMA ThreadsTyped == IInv /\ [Next]_vars => th' \in [Threads -> Records]
<1> SUFFICES ASSUME IInv, [Next]_vars PROVE th' \in [Threads -> Records]
  OBVIOUS
<1>0. TypeOK /\ th \in [Threads -> Records] /\ real_mtx \in Nat /\ \A t \in Threads : th[t].ret \in PCs
  BY HostThere DEF IInv, TypeOK, Records
<1>1. ASSUME NEW t \in Threads, Step(t) PROVE th' \in [Threads -> Records]
  <2>1. CASE Begin(t)
    <3>1. PICK b \in BOOLEAN : th' = [th EXCEPT ![t].pc = "lock", ![t].try = b,
                    ![t].ret = IF kind = Recursive /\ t \in Producers THEN "enter" ELSE "work"]
      BY <2>1 DEF Begin
    <3> DEFINE r == IF kind = Recursive /\ t \in Producers THEN "enter" ELSE "work"
    <3>2. th' = SetRet(SetTry(SetPc(th, t, "lock"), t, b), t, r)
      BY <3>1 DEF SetRet, SetTry, SetPc
    <3>3. r \in PCs /\ "lock" \in PCs
      BY DEF PCs
    <3> HIDE DEF r
    <3> QED
      BY <1>0, <3>2, <3>3, SetTypes
  <2>2. CASE Enter(t)
    <3>1. CASE At(t, "enter")
      BY <2>2, <3>1, <1>0, GoTypes DEF Enter, PCs
    <3>2. CASE At(t, "nested")
      BY <2>2, <3>2, <1>0, GoTypes DEF Enter, PCs
    <3> QED
      BY <2>2, <3>1, <3>2 DEF Enter
  <2>3. CASE Produce(t)
    <3>1. CASE SignalLocked
      BY <2>3, <3>1, <1>0, GoTypes DEF Produce, PCs
    <3>2. CASE ~SignalLocked
      BY <2>3, <3>2, <1>0, GoTypes DEF Produce, PCs
    <3> QED
      BY <3>1, <3>2
  <2>4. CASE Consume(t)
    <3>1. CASE items > 0
      BY <2>4, <3>1, <1>0, GoTypes DEF Consume, PCs
    <3>2. CASE ~(items > 0)
      <4>1. (IF t \in Timed THEN "timedwait" ELSE "wait") \in PCs
        BY DEF PCs
      <4> QED
        BY <2>4, <3>2, <4>1, <1>0, GoTypes DEF Consume
    <3> QED
      BY <3>1, <3>2
  <2>5. CASE Leave(t)
    BY <2>5, <1>0, GoTypes DEF Leave, PCs
  <2>6. CASE LockFast(t)
    <3>1. CASE real_mtx > 0
      <4>1. th' = SetHost(SetPc(th, t, "take"), t, real_mtx)
        BY <2>6, <3>1 DEF LockFast, SetHost, SetPc
      <4> QED
        BY <1>0, <4>1, SetTypes DEF PCs
    <3>2. CASE ~(real_mtx > 0)
      <4>1. th' = SetPc(th, t, "boot")
        BY <2>6, <3>2 DEF LockFast, SetPc
      <4> QED
        BY <1>0, <4>1, SetTypes DEF PCs
    <3> QED
      BY <3>1, <3>2
  <2>7. CASE Bootstrap(t)
    <3>1. CASE At(t, "boot")
      BY <2>7, <3>1, <1>0, GoTypes DEF Bootstrap, PCs
    <3>2. CASE At(t, "cond_boot")
      BY <2>7, <3>2, <1>0, GoTypes DEF Bootstrap, PCs
    <3> QED
      BY <2>7, <3>1, <3>2 DEF Bootstrap
  <2>8. CASE Create(t)
    <3>1. th' = SetHost(SetPc(th, t, "take"), t, real_mtx')
      BY <2>8 DEF Create, SetHost, SetPc
    <3>2. real_mtx' \in Nat
      <4>1. CASE real_mtx = 0
        BY <2>8, <4>1, CreateMoves DEF IInv
      <4>2. CASE real_mtx # 0
        BY <2>8, <1>0, <4>2 DEF Create
      <4> QED
        BY <4>1, <4>2
    <3> QED
      BY <1>0, <3>1, <3>2, SetTypes DEF PCs
  <2>9. CASE Take(t)
    <3>1. th' = SetTry(SetPc(th, t, th[t].ret), t, FALSE)
      BY <2>9 DEF Take, SetTry, SetPc
    <3> QED
      BY <1>0, <3>1, SetTypes
  <2>10. CASE TryFails(t)
    <3>1. th' = SetTry(SetPc(th, t, "lock"), t, FALSE)
      BY <2>10 DEF TryFails, SetTry, SetPc
    <3> QED
      BY <1>0, <3>1, SetTypes DEF PCs
  <2>11. CASE Unlock(t)
    BY <2>11, <1>0, GoTypes DEF Unlock
  <2>12. CASE CondFast(t)
    <3>1. CASE At(t, "wait")
      <4>1. (IF cnd > 0 THEN "sleep" ELSE "wait_init") \in PCs
        BY DEF PCs
      <4> QED
        BY <2>12, <3>1, <4>1, <1>0, GoTypes DEF CondFast, At
    <3>2. CASE At(t, "timedwait")
      <4>1. (IF cnd > 0 THEN "sleep" ELSE "cond_boot") \in PCs
        BY DEF PCs
      <4> QED
        BY <2>12, <3>2, <4>1, <1>0, GoTypes DEF CondFast, At
    <3>3. CASE At(t, "signal")
      <4>1. (IF cnd > 0 THEN "notify" ELSE "signal_init") \in PCs
        BY DEF PCs
      <4> QED
        BY <2>12, <3>3, <4>1, <1>0, GoTypes DEF CondFast, At
    <3> QED
      BY <2>12, <3>1, <3>2, <3>3 DEF CondFast
  <2>13. CASE CondInit(t)
    <3>1. CASE At(t, "wait_init")
      BY <2>13, <3>1, <1>0, GoTypes DEF CondInit, PCs
    <3>2. CASE At(t, "signal_init")
      BY <2>13, <3>2, <1>0, GoTypes DEF CondInit, PCs
    <3> QED
      BY <2>13, <3>1, <3>2 DEF CondInit
  <2>14. CASE CondCreate(t)
    BY <2>14, <1>0, GoTypes DEF CondCreate, PCs
  <2>15. CASE Sleep(t)
    <3>1. th' = SetHost(SetPc(th, t, "asleep"), t, real_mtx)
      BY <2>15 DEF Sleep, SetHost, SetPc
    <3> QED
      BY <1>0, <3>1, SetTypes DEF PCs
  <2>16. CASE Timeout(t)
    BY <2>16, <1>0, GoTypes DEF Timeout, PCs
  <2>17. CASE Notify(t)
    BY <2>17, NotifyMoves DEF Records, IInv
  <2> QED
    BY <1>1, <2>1, <2>2, <2>3, <2>4, <2>5, <2>6, <2>7, <2>8, <2>9, <2>10, <2>11, <2>12, <2>13, <2>14, <2>15, <2>16, <2>17 DEF Step
<1>2. CASE Destroy
  BY <1>0, <1>2 DEF Destroy
<1>3. CASE UNCHANGED vars
  BY <1>0, <1>3 DEF vars
<1> QED
  BY <1>1, <1>2, <1>3 DEF Next, Finished

-----------------------------------------------------------------------------
(* One host mutex, and who sleeps.                                         *)

LEMMA OneHostStep == IInv /\ [Next]_vars => OneHost'
<1> SUFFICES ASSUME IInv, [Next]_vars PROVE OneHost'
  OBVIOUS
<1> USE DEF IInv
<1>1. ASSUME NEW t \in Threads, Step(t) PROVE OneHost'
  <2>1. CASE Begin(t)
    BY <2>1 DEF Begin, OneHost, Named, TypeOK, At, Go, GoRet
  <2>2. CASE Enter(t)
    <3>1. CASE At(t, "enter")
      BY <2>2, <3>1 DEF Enter, OneHost, Named, TypeOK, At, Go, GoRet
    <3>2. CASE At(t, "nested")
      BY <2>2, <3>2 DEF Enter, OneHost, Named, TypeOK, At, Go, GoRet
    <3> QED
      BY <2>2, <3>1, <3>2 DEF Enter
  <2>3. CASE Produce(t)
    BY <2>3 DEF Produce, OneHost, Named, TypeOK, At, Go, GoRet
  <2>4. CASE Consume(t)
    <3>1. CASE items > 0
      BY <2>4, <3>1 DEF Consume, OneHost, Named, TypeOK, At, Go, GoRet
    <3>2. CASE ~(items > 0) /\ t \in Timed
      BY <2>4, <3>2 DEF Consume, OneHost, Named, TypeOK, At, Go, GoRet
    <3>3. CASE ~(items > 0) /\ t \notin Timed
      BY <2>4, <3>3 DEF Consume, OneHost, Named, TypeOK, At, Go, GoRet
    <3> QED
      BY <3>1, <3>2, <3>3
  <2>5. CASE Leave(t)
    BY <2>5 DEF Leave, OneHost, Named, TypeOK, At, Go, GoRet
  <2>6. CASE LockFast(t)
    <3>1. CASE real_mtx > 0
      BY <2>6, <3>1, HostThere DEF LockFast, OneHost, Named, TypeOK, At, Go, GoRet
    <3>2. CASE ~(real_mtx > 0)
      BY <2>6, <3>2 DEF LockFast, OneHost, Named, TypeOK, At, Go, GoRet
    <3> QED
      BY <3>1, <3>2
  <2>7. CASE Bootstrap(t)
    <3>1. CASE At(t, "boot")
      BY <2>7, <3>1 DEF Bootstrap, OneHost, Named, TypeOK, At, Go, GoRet
    <3>2. CASE At(t, "cond_boot")
      BY <2>7, <3>2 DEF Bootstrap, OneHost, Named, TypeOK, At, Go, GoRet
    <3> QED
      BY <2>7, <3>1, <3>2 DEF Bootstrap
  <2>8. CASE Create(t)
    <3>1. CASE real_mtx = 0
      <4>1. real_mtx' = 1 /\ Len(hosts') = 1
        BY <2>8, <3>1, CreateMoves DEF OnlyHost
      <4>2. \A u \in Threads \ {t} : th'[u] = th[u]
        BY <2>8 DEF Create, TypeOK
      <4>3. th'[t].host = 1
        BY <2>8, <4>1 DEF Create, TypeOK
      <4> QED
        BY <3>1, <4>1, <4>2, <4>3 DEF OneHost, Named
    <3>2. CASE real_mtx # 0
      BY <2>8, <3>2, HostThere DEF Create, OneHost, Named, TypeOK, At, Go, GoRet
    <3> QED
      BY <3>1, <3>2
  <2>9. CASE Take(t)
    <3>1. real_mtx' = 1 /\ Len(hosts') = 1 /\ th[t].ret \in {"enter", "work", "nested"}
      BY <2>9, TakeMoves DEF Take, OnlyHost
    <3>2. /\ \A u \in Threads \ {t} : th'[u] = th[u]
          /\ th'[t].pc = th[t].ret
      BY <2>9 DEF Take, TypeOK
    <3> QED
      BY <2>9, <3>1, <3>2 DEF OneHost, Named, Take
  <2>10. CASE TryFails(t)
    BY <2>10 DEF TryFails, OneHost, Named, TypeOK, At, Go, GoRet
  <2>11. CASE Unlock(t)
    <3>1. Holds(t)
      BY <2>11 DEF Unlock, Holds, At
    <3> QED
      BY <2>11, <3>1, ReleaseMoves DEF Unlock, OnlyHost, ReturnsRight, Returns, Before, OneHost, Named, TypeOK, At, Go, GoRet
  <2>12. CASE CondFast(t)
    <3>1. CASE At(t, "wait")
      BY <2>12, <3>1 DEF CondFast, OneHost, Named, TypeOK, At, Go, GoRet
    <3>2. CASE At(t, "timedwait")
      BY <2>12, <3>2 DEF CondFast, OneHost, Named, TypeOK, At, Go, GoRet
    <3>3. CASE At(t, "signal")
      BY <2>12, <3>3 DEF CondFast, OneHost, Named, TypeOK, At, Go, GoRet
    <3> QED
      BY <2>12, <3>1, <3>2, <3>3 DEF CondFast
  <2>13. CASE CondInit(t)
    <3>1. CASE At(t, "wait_init")
      BY <2>13, <3>1 DEF CondInit, OneHost, Named, TypeOK, At, Go, GoRet
    <3>2. CASE At(t, "signal_init")
      BY <2>13, <3>2 DEF CondInit, OneHost, Named, TypeOK, At, Go, GoRet
    <3> QED
      BY <2>13, <3>1, <3>2 DEF CondInit
  <2>14. CASE CondCreate(t)
    BY <2>14 DEF CondCreate, OneHost, Named, TypeOK, At, Go, GoRet
  <2>15. CASE Sleep(t)
    <3>1. Holds(t)
      BY <2>15 DEF Sleep, Holds, At
    <3> QED
      <4>1. real_mtx = 1 /\ real_mtx' = 1 /\ Len(hosts') = 1
        BY <2>15, <3>1, ReleaseMoves DEF Sleep, OnlyHost
      <4>2. \A u \in Threads \ {t} : th'[u] = th[u]
        BY <2>15 DEF Sleep, TypeOK
      <4>3. th'[t].host = 1
        BY <2>15, <4>1 DEF Sleep, TypeOK
      <4> QED
        BY <4>1, <4>2, <4>3 DEF OneHost, Named
  <2>16. CASE Timeout(t)
    BY <2>16 DEF Timeout, OneHost, Named, TypeOK, At, Go, GoRet
  <2>17. CASE Notify(t)
    <3>1. real_mtx' = Len(hosts') /\ real_mtx' <= 1
      BY <2>17 DEF Notify, OneHost
    <3>2. ASSUME NEW u \in Threads PROVE Named(u)'
      <4>1. CASE u = t
        BY <2>17, <4>1, NotifyMoves DEF Named
      <4>2. CASE u # t /\ th'[u] = th[u]
        BY <2>17, <4>2 DEF OneHost, Named, Notify
      <4>3. CASE u # t /\ Awoken(u)
        BY <2>17, <4>3 DEF OneHost, Named, Notify, Awoken
      <4> QED
        BY <2>17, <4>1, <4>2, <4>3, NotifyMoves
    <3> QED
      BY <3>1, <3>2 DEF OneHost
  <2> QED
    BY <1>1, <2>1, <2>2, <2>3, <2>4, <2>5, <2>6, <2>7, <2>8, <2>9, <2>10, <2>11, <2>12, <2>13, <2>14, <2>15, <2>16, <2>17 DEF Step
<1>2. CASE Destroy
  BY <1>2, EmptySeq DEF Destroy, AllDone, OneHost, Named, TypeOK, At, Go, GoRet
<1>3. CASE UNCHANGED vars
  BY <1>3 DEF vars, OneHost, Named, TypeOK, At, Go, GoRet
<1> QED
  BY <1>1, <1>2, <1>3 DEF Next, Finished

\* A host condvar more, with nobody on it, and the word names it.
LEMMA CondAppend ==
    ASSUME TypeOK, conds' = Append(conds, {}), cnd' = Len(conds')
    PROVE  /\ conds' \in Seq(SUBSET Threads) /\ Len(conds') = Len(conds) + 1
           /\ Len(conds) \in Nat /\ cnd' = Len(conds) + 1
           /\ DOMAIN conds' = 1..Len(conds) + 1 /\ DOMAIN conds = 1..Len(conds)
           /\ \A c \in 1..Len(conds) : conds'[c] = conds[c]
           /\ conds'[Len(conds) + 1] = {}
<1>1. conds \in Seq(SUBSET Threads) /\ {} \in SUBSET Threads
  BY DEF TypeOK
<1>2. /\ Append(conds, {}) \in Seq(SUBSET Threads) /\ Len(Append(conds, {})) = Len(conds) + 1
      /\ \A c \in 1..Len(conds) : Append(conds, {})[c] = conds[c]
      /\ Append(conds, {})[Len(conds) + 1] = {}
  BY <1>1, AppendProperties
<1>3. Len(conds) \in Nat /\ DOMAIN conds = 1..Len(conds)
      /\ DOMAIN Append(conds, {}) = 1..Len(Append(conds, {}))
  BY <1>1, <1>2, LenProperties
<1> QED
  BY <1>2, <1>3

\* Whoever is about to use the condvar's word finds a condvar there.
LEMMA CondThere ==
    ASSUME TypeOK, cnd > 0
    PROVE  cnd \in DOMAIN conds /\ cnd \in 1..Len(conds) /\ conds[cnd] \in SUBSET Threads
<1>1. conds \in Seq(SUBSET Threads) /\ cnd \in 1..Len(conds)
  BY LenProperties DEF TypeOK
<1> QED
  BY <1>1, ElementOfSeq, LenProperties


\* A step that leaves the condvars alone and moves a thread that is awake.
LEMMA SleepOn ==
    ASSUME TypeOK, Sleepers, NEW t \in Threads, th[t].pc # "asleep", UNCHANGED <<cnd, conds>>,
           \A u \in Threads \ {t} : th'[u] = th[u],
           th'[t].pc \in {"sleep", "notify"} => cnd > 0
    PROVE  Sleepers'
<1>1. \A c \in DOMAIN conds : conds[c] \subseteq Threads
  BY ElementOfSeq, LenProperties DEF TypeOK
<1> QED
  BY <1>1 DEF Sleepers

LEMMA SleepersStep == IInv /\ [Next]_vars => Sleepers'
<1> SUFFICES ASSUME IInv, [Next]_vars PROVE Sleepers'
  OBVIOUS
<1> USE DEF IInv
<1>1. ASSUME NEW t \in Threads, Step(t) PROVE Sleepers'
  <2>1. CASE Begin(t)
    <3>1. /\ th[t].pc # "asleep" /\ UNCHANGED <<cnd, conds>>
          /\ \A u \in Threads \ {t} : th'[u] = th[u]
      BY <2>1 DEF Begin, TypeOK, At, Go, GoRet
    <3>2. th'[t].pc \in {"sleep", "notify"} => cnd > 0
      BY <2>1 DEF Begin, TypeOK, At, Go, GoRet
    <3> QED
      BY <3>1, <3>2, SleepOn
  <2>2. CASE Enter(t)
    <3>1. /\ th[t].pc # "asleep" /\ UNCHANGED <<cnd, conds>>
          /\ \A u \in Threads \ {t} : th'[u] = th[u]
      BY <2>2 DEF Enter, TypeOK, At, Go, GoRet
    <3>2. th'[t].pc \in {"sleep", "notify"} => cnd > 0
      BY <2>2 DEF Enter, TypeOK, At, Go, GoRet
    <3> QED
      BY <3>1, <3>2, SleepOn
  <2>3. CASE Produce(t)
    <3>1. /\ th[t].pc # "asleep" /\ UNCHANGED <<cnd, conds>>
          /\ \A u \in Threads \ {t} : th'[u] = th[u]
      BY <2>3 DEF Produce, TypeOK, At, Go, GoRet
    <3>2. th'[t].pc \in {"sleep", "notify"} => cnd > 0
      BY <2>3 DEF Produce, TypeOK, At, Go, GoRet
    <3> QED
      BY <3>1, <3>2, SleepOn
  <2>4. CASE Consume(t)
    <3>1. /\ th[t].pc # "asleep" /\ UNCHANGED <<cnd, conds>>
          /\ \A u \in Threads \ {t} : th'[u] = th[u]
      BY <2>4 DEF Consume, TypeOK, At, Go, GoRet
    <3>2. th'[t].pc \in {"sleep", "notify"} => cnd > 0
      BY <2>4 DEF Consume, TypeOK, At, Go, GoRet
    <3> QED
      BY <3>1, <3>2, SleepOn
  <2>5. CASE Leave(t)
    <3>1. /\ th[t].pc # "asleep" /\ UNCHANGED <<cnd, conds>>
          /\ \A u \in Threads \ {t} : th'[u] = th[u]
      BY <2>5 DEF Leave, TypeOK, At, Go, GoRet
    <3>2. th'[t].pc \in {"sleep", "notify"} => cnd > 0
      BY <2>5 DEF Leave, TypeOK, At, Go, GoRet
    <3> QED
      BY <3>1, <3>2, SleepOn
  <2>6. CASE LockFast(t)
    <3>1. /\ th[t].pc # "asleep" /\ UNCHANGED <<cnd, conds>>
          /\ \A u \in Threads \ {t} : th'[u] = th[u]
      BY <2>6 DEF LockFast, TypeOK, At, Go, GoRet
    <3>2. th'[t].pc \in {"sleep", "notify"} => cnd > 0
      BY <2>6 DEF LockFast, TypeOK, At, Go, GoRet
    <3> QED
      BY <3>1, <3>2, SleepOn
  <2>7. CASE Bootstrap(t)
    <3>1. /\ th[t].pc # "asleep" /\ UNCHANGED <<cnd, conds>>
          /\ \A u \in Threads \ {t} : th'[u] = th[u]
      BY <2>7 DEF Bootstrap, TypeOK, At, Go, GoRet
    <3>2. th'[t].pc \in {"sleep", "notify"} => cnd > 0
      BY <2>7 DEF Bootstrap, TypeOK, At, Go, GoRet
    <3> QED
      BY <3>1, <3>2, SleepOn
  <2>8. CASE Create(t)
    <3>1. /\ th[t].pc # "asleep" /\ UNCHANGED <<cnd, conds>>
          /\ \A u \in Threads \ {t} : th'[u] = th[u]
      BY <2>8 DEF Create, TypeOK, At, Go, GoRet
    <3>2. th'[t].pc \in {"sleep", "notify"} => cnd > 0
      BY <2>8 DEF Create, TypeOK, At, Go, GoRet
    <3> QED
      BY <3>1, <3>2, SleepOn
  <2>9. CASE Take(t)
    <3>1. /\ th[t].pc # "asleep" /\ UNCHANGED <<cnd, conds>>
          /\ \A u \in Threads \ {t} : th'[u] = th[u]
      BY <2>9 DEF Take, TypeOK, At, Go, GoRet, ReturnsRight, Returns, Before
    <3>2. th'[t].pc \in {"sleep", "notify"} => cnd > 0
      BY <2>9 DEF Take, TypeOK, At, Go, GoRet, ReturnsRight, Returns, Before
    <3> QED
      BY <3>1, <3>2, SleepOn
  <2>10. CASE TryFails(t)
    <3>1. /\ th[t].pc # "asleep" /\ UNCHANGED <<cnd, conds>>
          /\ \A u \in Threads \ {t} : th'[u] = th[u]
      BY <2>10 DEF TryFails, TypeOK, At, Go, GoRet
    <3>2. th'[t].pc \in {"sleep", "notify"} => cnd > 0
      BY <2>10 DEF TryFails, TypeOK, At, Go, GoRet
    <3> QED
      BY <3>1, <3>2, SleepOn
  <2>11. CASE Unlock(t)
    <3>1. /\ th[t].pc # "asleep" /\ UNCHANGED <<cnd, conds>>
          /\ \A u \in Threads \ {t} : th'[u] = th[u]
      BY <2>11 DEF Unlock, TypeOK, At, Go, GoRet, ReturnsRight, Returns
    <3>2. th'[t].pc \in {"sleep", "notify"} => cnd > 0
      BY <2>11 DEF Unlock, TypeOK, At, Go, GoRet, ReturnsRight, Returns
    <3> QED
      BY <3>1, <3>2, SleepOn
  <2>12. CASE CondFast(t)
    <3>1. /\ th[t].pc # "asleep" /\ UNCHANGED <<cnd, conds>>
          /\ \A u \in Threads \ {t} : th'[u] = th[u]
      BY <2>12 DEF CondFast, TypeOK, At, Go, GoRet
    <3>2. th'[t].pc \in {"sleep", "notify"} => cnd > 0
      BY <2>12 DEF CondFast, TypeOK, At, Go, GoRet
    <3> QED
      BY <3>1, <3>2, SleepOn
  <2>13. CASE CondInit(t)
    <3>1. At(t, "wait_init") \/ At(t, "signal_init")
      BY <2>13 DEF CondInit
    <3>2. conds' = Append(conds, {}) /\ cnd' = Len(conds')
      BY <2>13 DEF CondInit
    <3>3. /\ \A u \in Threads \ {t} : th'[u] = th[u]
          /\ th[t].pc # "asleep" /\ cnd' > 0
      BY <2>13, <3>1, <3>2, CondAppend DEF CondInit, Go, TypeOK, At
    <3>4. \A c \in DOMAIN conds' : \A u \in conds'[c] : u \in Threads /\ th[u].pc = "asleep"
      BY <3>2, CondAppend, ElementOfSeq DEF Sleepers, TypeOK
    <3>5. \A c, d \in DOMAIN conds' : c # d => conds'[c] \cap conds'[d] = {}
      BY <3>2, CondAppend DEF Sleepers
    <3> QED
      BY <3>3, <3>4, <3>5 DEF Sleepers
  <2>14. CASE CondCreate(t)
    <3>1. CASE cnd = 0
      <4>1. conds' = Append(conds, {}) /\ cnd' = Len(conds') /\ At(t, "cond_create")
        BY <2>14, <3>1 DEF CondCreate
      <4>2. /\ \A u \in Threads \ {t} : th'[u] = th[u]
            /\ th[t].pc # "asleep" /\ cnd' > 0
        BY <2>14, <4>1, CondAppend DEF CondCreate, Go, TypeOK, At
      <4>3. \A c \in DOMAIN conds' : \A u \in conds'[c] : u \in Threads /\ th[u].pc = "asleep"
        BY <4>1, CondAppend, ElementOfSeq DEF Sleepers, TypeOK
      <4>4. \A c, d \in DOMAIN conds' : c # d => conds'[c] \cap conds'[d] = {}
        BY <4>1, CondAppend DEF Sleepers
      <4> QED
        BY <4>2, <4>3, <4>4 DEF Sleepers
    <3>2. CASE cnd # 0
      BY <2>14, <3>2 DEF CondCreate, Sleepers, TypeOK, At, Go, GoRet
    <3> QED
      BY <3>1, <3>2
  <2>15. CASE Sleep(t)
    <3>0. conds \in [1..Len(conds) -> SUBSET Threads]
      BY LenProperties DEF TypeOK
    <3>1. cnd > 0 /\ cnd \in DOMAIN conds /\ th'[t].pc = "asleep" /\ cnd' = cnd /\ \A u \in Threads \ {t} : th'[u] = th[u]
      BY <2>15, CondThere DEF Sleep, Sleepers, TypeOK, At
    <3>2. conds' = [conds EXCEPT ![cnd] = conds[cnd] \cup {t}]
      BY <2>15 DEF Sleep
    <3>3. \A c \in DOMAIN conds' : c \in DOMAIN conds /\ conds'[c] \subseteq conds[c] \cup {t}
      BY <3>0, <3>2
    <3>4. \A c \in DOMAIN conds : conds[c] \subseteq Threads
      BY ElementOfSeq, LenProperties DEF TypeOK
    <3>5. \A c \in DOMAIN conds' : \A u \in conds'[c] : th'[u].pc = "asleep"
      BY <3>1, <3>3, <3>4 DEF Sleepers
    <3>6. \A u \in Threads : th'[u].pc \in {"sleep", "notify"} => cnd' > 0
      BY <3>1 DEF Sleepers
    <3>7. \A c \in DOMAIN conds : t \notin conds[c]
      BY <2>15 DEF Sleep, Sleepers, At
    <3>8. \A c \in DOMAIN conds' : c \in DOMAIN conds /\ conds'[c] = IF c = cnd THEN conds[c] \cup {t} ELSE conds[c]
      BY <3>0, <3>2
    <3>9. \A c, d \in DOMAIN conds' : c # d => conds'[c] \cap conds'[d] = {}
      BY <3>7, <3>8 DEF Sleepers
    <3> QED
      BY <3>5, <3>6, <3>9 DEF Sleepers
  <2>16. CASE Timeout(t)
    <3>1. \A c \in DOMAIN conds : conds[c] \subseteq Threads
      BY ElementOfSeq, LenProperties DEF TypeOK
    <3>2. conds' = [c \in DOMAIN conds |-> conds[c] \ {t}]
      BY <2>16 DEF Timeout
    <3>3. \A u \in Threads \ {t} : th'[u] = th[u]
      BY <2>16 DEF Timeout, GoRet, TypeOK
    <3>4. th'[t].pc = "take" /\ cnd' = cnd
      BY <2>16 DEF Timeout, GoRet, TypeOK
    <3> QED
      BY <3>1, <3>2, <3>3, <3>4 DEF Sleepers
  <2>17. CASE Notify(t)
    <3>0. conds \in [1..Len(conds) -> SUBSET Threads]
      BY LenProperties DEF TypeOK
    <3>1. PICK S \in SUBSET conds[cnd] :
            /\ th' = [Awake(S) EXCEPT ![t].pc = AfterSignal(t)]
            /\ conds' = [conds EXCEPT ![cnd] = conds[cnd] \ S]
      BY <2>17, Zenon DEF Notify
    <3>2. \A c \in DOMAIN conds : conds[c] \subseteq Threads
      BY ElementOfSeq, LenProperties DEF TypeOK
    <3>3. At(t, "notify") /\ cnd \in DOMAIN conds /\ cnd' = cnd /\ cnd > 0
      BY <2>17, CondThere DEF Notify, Sleepers, At
    <3>4. \A u \in Threads \ {t} : u \notin S => th'[u] = th[u]
      BY <3>1 DEF Awake, TypeOK
    <3>5. ASSUME NEW c \in DOMAIN conds', NEW u \in conds'[c] PROVE th'[u].pc = "asleep"
      <4>1. c \in DOMAIN conds /\ u \in conds[c] /\ (c = cnd => u \notin S)
        BY <3>0, <3>1, <3>3, <3>5
      <4>2. th[u].pc = "asleep" /\ u \in Threads /\ u # t
        BY <3>2, <3>3, <4>1 DEF Sleepers, At
      <4> QED
        BY <3>3, <3>4, <4>1, <4>2 DEF Sleepers
    <3>6. \A u \in Threads : th'[u].pc \in {"sleep", "notify"} => cnd' > 0
      BY <3>3
    <3>7. \A c, d \in DOMAIN conds' : c # d => conds'[c] \cap conds'[d] = {}
      BY <3>0, <3>1, <3>3 DEF Sleepers
    <3> QED
      BY <3>5, <3>6, <3>7 DEF Sleepers
  <2> QED
    BY <1>1, <2>1, <2>2, <2>3, <2>4, <2>5, <2>6, <2>7, <2>8, <2>9, <2>10, <2>11, <2>12, <2>13, <2>14, <2>15, <2>16, <2>17 DEF Step
<1>2. CASE Destroy
  BY <1>2, EmptySeq DEF Destroy, AllDone, Sleepers, TypeOK, At, Go, GoRet
<1>3. CASE UNCHANGED vars
  BY <1>3 DEF vars, Sleepers, TypeOK, At, Go, GoRet
<1> QED
  BY <1>1, <1>2, <1>3 DEF Next, Finished

-----------------------------------------------------------------------------
(* The rest of the types.                                                  *)

HostsTyped == hosts \in Seq(HostMutexes) /\ real_mtx \in 0..Len(hosts)
CondsTyped == conds \in Seq(SUBSET Threads) /\ cnd \in 0..Len(conds)
GameTyped  == /\ kind \in {Normal, Recursive, ErrorCheck} /\ boot \in Threads \cup {Nobody}
              /\ items \in Nat /\ left \in [Threads -> Nat]

LEMMA HostsStep == IInv /\ [Next]_vars => HostsTyped'
<1> SUFFICES ASSUME IInv, [Next]_vars PROVE HostsTyped'
  OBVIOUS
<1> USE DEF IInv
<1>0. HostsTyped
  BY DEF TypeOK, HostMutexes, HostsTyped
<1>1. ASSUME NEW t \in Threads, Step(t) PROVE HostsTyped'
  <2>1. CASE Begin(t)
    BY <1>0, <2>1 DEF HostsTyped, Begin
  <2>2. CASE Enter(t)
    BY <1>0, <2>2 DEF HostsTyped, Enter
  <2>3. CASE Produce(t)
    BY <1>0, <2>3 DEF HostsTyped, Produce
  <2>4. CASE Consume(t)
    BY <1>0, <2>4 DEF HostsTyped, Consume
  <2>5. CASE Leave(t)
    BY <1>0, <2>5 DEF HostsTyped, Leave
  <2>6. CASE LockFast(t)
    BY <1>0, <2>6 DEF HostsTyped, LockFast
  <2>7. CASE Bootstrap(t)
    BY <1>0, <2>7 DEF HostsTyped, Bootstrap
  <2>8. CASE Create(t)
    <3>1. CASE real_mtx = 0
      BY <1>0, <2>8, <3>1, CreateMoves DEF HostsTyped, OnlyHost
    <3>2. CASE real_mtx # 0
      BY <1>0, <2>8, <3>2 DEF HostsTyped, Create
    <3> QED
      BY <3>1, <3>2
  <2>9. CASE Take(t)
    <3>1. real_mtx = 1 /\ real_mtx' = real_mtx /\ hosts' \in Seq(HostMutexes) /\ Len(hosts') = 1
      BY <2>9, TakeMoves DEF Take, OnlyHost
    <3> QED
      BY <3>1 DEF HostsTyped
  <2>10. CASE TryFails(t)
    BY <1>0, <2>10 DEF HostsTyped, TryFails
  <2>11. CASE Unlock(t)
    <3>1. Holds(t)
      BY <1>0, <2>11 DEF Unlock, Holds, At
    <3> QED
      BY <1>0, <2>11, <3>1, ReleaseMoves DEF Unlock, OnlyHost, HostsTyped
  <2>12. CASE CondFast(t)
    BY <1>0, <2>12 DEF HostsTyped, CondFast
  <2>13. CASE CondInit(t)
    BY <1>0, <2>13 DEF HostsTyped, CondInit
  <2>14. CASE CondCreate(t)
    BY <1>0, <2>14 DEF HostsTyped, CondCreate
  <2>15. CASE Sleep(t)
    <3>1. Holds(t)
      BY <1>0, <2>15 DEF Sleep, Holds, At
    <3> QED
      BY <1>0, <2>15, <3>1, ReleaseMoves DEF Sleep, OnlyHost, HostsTyped
  <2>16. CASE Timeout(t)
    BY <1>0, <2>16 DEF HostsTyped, Timeout
  <2>17. CASE Notify(t)
    BY <1>0, <2>17 DEF HostsTyped, Notify
  <2> QED
    BY <1>1, <2>1, <2>2, <2>3, <2>4, <2>5, <2>6, <2>7, <2>8, <2>9, <2>10, <2>11, <2>12, <2>13, <2>14, <2>15, <2>16, <2>17 DEF Step
<1>2. CASE Destroy
  BY <1>0, <1>2, EmptySeq DEF Destroy, HostsTyped
<1>3. CASE UNCHANGED vars
  BY <1>0, <1>3 DEF vars, HostsTyped
<1> QED
  BY <1>1, <1>2, <1>3 DEF Next, Finished

\* Another set sleeps on the condvar that the word names.
LEMMA CondSet ==
    ASSUME CondsTyped, NEW S \in SUBSET Threads, cnd \in 1..Len(conds),
           conds' = [conds EXCEPT ![cnd] = S], cnd' = cnd
    PROVE  CondsTyped'
<1>1. ASSUME NEW s \in Seq(SUBSET Threads), NEW i \in 1..Len(s)
      PROVE  [s EXCEPT ![i] = S] \in Seq(SUBSET Threads) /\ Len([s EXCEPT ![i] = S]) = Len(s)
  BY ExceptSeq
<1> QED
  BY <1>1 DEF CondsTyped

LEMMA CondsStep == IInv /\ [Next]_vars => CondsTyped'
<1> SUFFICES ASSUME IInv, [Next]_vars PROVE CondsTyped'
  OBVIOUS
<1> USE DEF IInv
<1>0. CondsTyped
  BY DEF TypeOK, CondsTyped
<1>1. ASSUME NEW t \in Threads, Step(t) PROVE CondsTyped'
  <2>1. CASE Begin(t)
    BY <1>0, <2>1 DEF Begin, CondsTyped
  <2>2. CASE Enter(t)
    BY <1>0, <2>2 DEF Enter, CondsTyped
  <2>3. CASE Produce(t)
    BY <1>0, <2>3 DEF Produce, CondsTyped
  <2>4. CASE Consume(t)
    BY <1>0, <2>4 DEF Consume, CondsTyped
  <2>5. CASE Leave(t)
    BY <1>0, <2>5 DEF Leave, CondsTyped
  <2>6. CASE LockFast(t)
    BY <1>0, <2>6 DEF LockFast, CondsTyped
  <2>7. CASE Bootstrap(t)
    BY <1>0, <2>7 DEF Bootstrap, CondsTyped
  <2>8. CASE Create(t)
    BY <1>0, <2>8 DEF Create, CondsTyped
  <2>9. CASE Take(t)
    BY <1>0, <2>9 DEF Take, CondsTyped
  <2>10. CASE TryFails(t)
    BY <1>0, <2>10 DEF TryFails, CondsTyped
  <2>11. CASE Unlock(t)
    BY <1>0, <2>11 DEF Unlock, CondsTyped
  <2>12. CASE CondFast(t)
    BY <1>0, <2>12 DEF CondFast, CondsTyped
  <2>13. CASE CondInit(t)
    BY <1>0, <2>13, CondAppend DEF CondInit, CondsTyped
  <2>14. CASE CondCreate(t)
    <3>1. CASE cnd = 0
      BY <1>0, <2>14, <3>1, CondAppend DEF CondCreate, CondsTyped
    <3>2. CASE cnd # 0
      BY <1>0, <2>14, <3>2 DEF CondCreate, CondsTyped
    <3> QED
      BY <3>1, <3>2
  <2>15. CASE Sleep(t)
    <3>1. cnd \in 1..Len(conds) /\ conds[cnd] \cup {t} \in SUBSET Threads
      BY <1>0, <2>15, CondThere DEF Sleep, Sleepers, At
    <3>2. conds' = [conds EXCEPT ![cnd] = conds[cnd] \cup {t}] /\ cnd' = cnd
      BY <1>0, <2>15 DEF Sleep
    <3> QED
      BY <1>0, <3>1, <3>2, CondSet
  <2>16. CASE Timeout(t)
    <3>1. conds \in [1..Len(conds) -> SUBSET Threads] /\ Len(conds) \in Nat
      BY <1>0, LenProperties DEF CondsTyped
    <3>2. conds' = [c \in 1..Len(conds) |-> conds[c] \ {t}] /\ cnd' = cnd
      BY <1>0, <2>16, <3>1 DEF Timeout
    <3>3. conds' \in [1..Len(conds) -> SUBSET Threads]
      BY <3>1, <3>2
    <3>4. conds' \in Seq(SUBSET Threads)
      BY <3>1, <3>3, SeqDef
    <3>5. Len(conds') = Len(conds)
      BY <3>1, <3>3, <3>4, LenProperties
    <3> QED
      BY <1>0, <3>2, <3>4, <3>5 DEF CondsTyped
  <2>17. CASE Notify(t)
    <3>1. PICK S \in SUBSET conds[cnd] : conds' = [conds EXCEPT ![cnd] = conds[cnd] \ S]
      BY <1>0, <2>17 DEF Notify
    <3>2. cnd \in 1..Len(conds) /\ conds[cnd] \ S \in SUBSET Threads /\ cnd' = cnd
      BY <1>0, <2>17, CondThere DEF Notify, Sleepers, At
    <3> QED
      BY <1>0, <3>1, <3>2, CondSet
  <2> QED
    BY <1>1, <2>1, <2>2, <2>3, <2>4, <2>5, <2>6, <2>7, <2>8, <2>9, <2>10, <2>11, <2>12, <2>13, <2>14, <2>15, <2>16, <2>17 DEF Step
<1>2. CASE Destroy
  BY <1>0, <1>2, EmptySeq DEF Destroy, CondsTyped
<1>3. CASE UNCHANGED vars
  BY <1>0, <1>3 DEF vars, CondsTyped
<1> QED
  BY <1>1, <1>2, <1>3 DEF Next, Finished

LEMMA GameStep == IInv /\ [Next]_vars => GameTyped'
<1> SUFFICES ASSUME IInv, [Next]_vars PROVE GameTyped'
  OBVIOUS
<1> USE DEF IInv
<1>0. GameTyped
  BY DEF TypeOK, GameTyped
<1>1. ASSUME NEW t \in Threads, Step(t) PROVE GameTyped'
  <2>1. CASE Begin(t)
    BY <1>0, <2>1 DEF Begin, GameTyped
  <2>2. CASE Enter(t)
    BY <1>0, <2>2 DEF Enter, GameTyped
  <2>3. CASE Produce(t)
    <3>1. left[t] > 0
      BY <1>0, <2>3 DEF Produce, At, Owing, Owes, Working
    <3> QED
      BY <1>0, <2>3, <3>1 DEF Produce, GameTyped
  <2>4. CASE Consume(t)
    <3>1. left[t] > 0
      BY <1>0, <2>4 DEF Consume, At, Owing, Owes, Working
    <3> QED
      BY <1>0, <2>4, <3>1 DEF Consume, GameTyped
  <2>5. CASE Leave(t)
    BY <1>0, <2>5 DEF Leave, GameTyped
  <2>6. CASE LockFast(t)
    BY <1>0, <2>6 DEF LockFast, GameTyped
  <2>7. CASE Bootstrap(t)
    BY <1>0, <2>7 DEF Bootstrap, GameTyped
  <2>8. CASE Create(t)
    BY <1>0, <2>8 DEF Create, GameTyped
  <2>9. CASE Take(t)
    BY <1>0, <2>9 DEF Take, GameTyped
  <2>10. CASE TryFails(t)
    BY <1>0, <2>10 DEF TryFails, GameTyped
  <2>11. CASE Unlock(t)
    BY <1>0, <2>11 DEF Unlock, GameTyped
  <2>12. CASE CondFast(t)
    BY <1>0, <2>12 DEF CondFast, GameTyped
  <2>13. CASE CondInit(t)
    BY <1>0, <2>13 DEF CondInit, GameTyped
  <2>14. CASE CondCreate(t)
    BY <1>0, <2>14 DEF CondCreate, GameTyped
  <2>15. CASE Sleep(t)
    BY <1>0, <2>15 DEF Sleep, GameTyped
  <2>16. CASE Timeout(t)
    BY <1>0, <2>16 DEF Timeout, GameTyped
  <2>17. CASE Notify(t)
    BY <1>0, <2>17 DEF Notify, GameTyped
  <2> QED
    BY <1>1, <2>1, <2>2, <2>3, <2>4, <2>5, <2>6, <2>7, <2>8, <2>9, <2>10, <2>11, <2>12, <2>13, <2>14, <2>15, <2>16, <2>17 DEF Step
<1>2. CASE Destroy
  BY <1>0, <1>2, EmptySeq DEF Destroy, GameTyped
<1>3. CASE UNCHANGED vars
  BY <1>0, <1>3 DEF vars, GameTyped
<1> QED
  BY <1>1, <1>2, <1>3 DEF Next, Finished

-----------------------------------------------------------------------------
(* Who holds the mutex.                                                    *)

\* What a thread holds depends on where it is only.
LEMMA HoldsSame ==
    ASSUME NEW u \in Threads, th'[u] = th[u]
    PROVE  (Holds(u)' <=> Holds(u)) /\ Depth(u)' = Depth(u)
BY DEF Holds, Depth

\* A step that leaves the host mutex alone and after which each thread holds what
\* it held.
LEMMA MutualQuiet ==
    ASSUME IInv, UNCHANGED <<hosts, real_mtx>>, NEW t \in Threads,
           \A u \in Threads \ {t} : th'[u] = th[u],
           Holds(t)' <=> Holds(t), Holds(t) => Depth(t)' = Depth(t)
    PROVE  Mutual'
<1>1. \A u \in Threads : (Holds(u)' <=> Holds(u)) /\ (Holds(u) => Depth(u)' = Depth(u))
  BY HoldsSame
<1>2. \A u \in Threads : Holds(u) => real_mtx = 1 /\ hosts[1].owner = u /\ hosts[1].depth = Depth(u)
  BY DEF IInv, Mutual
<1>3. \A u \in Threads : Holds(u)' => real_mtx' = 1 /\ hosts'[1].owner = u /\ hosts'[1].depth = Depth(u)'
  BY <1>1, <1>2
<1>4. real_mtx' = 1 => \/ hosts'[1].owner = Nobody /\ hosts'[1].depth = 0
                       \/ hosts'[1].owner \in Threads /\ Holds(hosts[1].owner)'
  BY <1>1 DEF IInv, Mutual
<1> QED
  BY <1>3, <1>4 DEF Mutual

\* The step of a thread that held nothing it does not hold now, or that nobody
\* else kept out.
LEMMA MutualMove ==
    ASSUME IInv, NEW t \in Threads, real_mtx' = 1,
           \A u \in Threads \ {t} : th'[u] = th[u] /\ ~Holds(u),
           \/ Holds(t)' /\ OnlyHost(hosts', t, Depth(t)')
           \/ ~Holds(t)' /\ OnlyHost(hosts', Nobody, 0)
    PROVE  Mutual'
<1>1. \A u \in Threads \ {t} : ~Holds(u)'
  BY HoldsSame
<1>2. \A u \in Threads : Holds(u)' => real_mtx' = 1 /\ hosts'[1].owner = u /\ hosts'[1].depth = Depth(u)'
  BY <1>1 DEF OnlyHost
<1>3. CASE Holds(t)' /\ OnlyHost(hosts', t, Depth(t)')
  <2>1. hosts'[1].owner = t /\ t \in Threads
    BY <1>3 DEF OnlyHost
  <2>2. Holds(hosts[1].owner)'
    BY <1>3, <2>1 DEF Holds
  <2> QED
    BY <1>2, <2>1, <2>2 DEF Mutual
<1>4. CASE ~Holds(t)' /\ OnlyHost(hosts', Nobody, 0)
  BY <1>2, <1>4 DEF Mutual, OnlyHost
<1> QED
  BY <1>3, <1>4

\* Nobody else holds the mutex while one does.
LEMMA HoldsAlone ==
    ASSUME IInv, NEW t \in Threads, NEW u \in Threads, Holds(t), Holds(u)
    PROVE  t = u
BY DEF IInv, Mutual

LEMMA MutualStep == IInv /\ [Next]_vars => Mutual'
<1> SUFFICES ASSUME IInv, [Next]_vars PROVE Mutual'
  OBVIOUS
<1> USE DEF IInv
<1>1. ASSUME NEW t \in Threads, Step(t) PROVE Mutual'
  <2>1. CASE Begin(t)
    <3>1. /\ UNCHANGED <<hosts, real_mtx>>
          /\ \A u \in Threads \ {t} : th'[u] = th[u]
      BY <2>1 DEF Begin, TypeOK, Go, GoRet
    <3>2. (Holds(t)' <=> Holds(t)) /\ (Holds(t) => Depth(t)' = Depth(t))
      <4>1. th[t].pc = "idle" /\ th'[t].pc = "lock" /\ th'[t].ret \in {"enter", "work"}
        BY <2>1 DEF Begin, TypeOK, At
      <4>2. th[t].ret # "nested"
        BY <4>1 DEF ReturnsRight, Returns, Before
      <4> QED
        BY <4>1, <4>2 DEF Holds
    <3> QED
      BY <3>1, <3>2, MutualQuiet
  <2>2. CASE Enter(t)
    <3>1. /\ UNCHANGED <<hosts, real_mtx>>
          /\ \A u \in Threads \ {t} : th'[u] = th[u]
      BY <2>2 DEF Enter, TypeOK, Go, GoRet
    <3>2. (Holds(t)' <=> Holds(t)) /\ (Holds(t) => Depth(t)' = Depth(t))
      BY <2>2 DEF Enter, TypeOK, Go, GoRet, At, Holds, Depth, ReturnsRight, Returns, Before
    <3> QED
      BY <3>1, <3>2, MutualQuiet
  <2>3. CASE Produce(t)
    <3>1. /\ UNCHANGED <<hosts, real_mtx>>
          /\ \A u \in Threads \ {t} : th'[u] = th[u]
      BY <2>3 DEF Produce, TypeOK, Go, GoRet
    <3>2. (Holds(t)' <=> Holds(t)) /\ (Holds(t) => Depth(t)' = Depth(t))
      BY <2>3 DEF Produce, TypeOK, Go, GoRet, At, Holds, Depth, ReturnsRight, Returns, Before
    <3> QED
      BY <3>1, <3>2, MutualQuiet
  <2>4. CASE Consume(t)
    <3>1. /\ UNCHANGED <<hosts, real_mtx>>
          /\ \A u \in Threads \ {t} : th'[u] = th[u]
      BY <2>4 DEF Consume, TypeOK, Go, GoRet
    <3>2. (Holds(t)' <=> Holds(t)) /\ (Holds(t) => Depth(t)' = Depth(t))
      BY <2>4 DEF Consume, TypeOK, Go, GoRet, At, Holds, Depth, ReturnsRight, Returns, Before
    <3> QED
      BY <3>1, <3>2, MutualQuiet
  <2>5. CASE Leave(t)
    <3>1. /\ UNCHANGED <<hosts, real_mtx>>
          /\ \A u \in Threads \ {t} : th'[u] = th[u]
      BY <2>5 DEF Leave, TypeOK, Go, GoRet
    <3>2. (Holds(t)' <=> Holds(t)) /\ (Holds(t) => Depth(t)' = Depth(t))
      BY <2>5 DEF Leave, TypeOK, Go, GoRet, At, Holds, Depth, ReturnsRight, Returns, Before
    <3> QED
      BY <3>1, <3>2, MutualQuiet
  <2>6. CASE LockFast(t)
    <3>1. /\ UNCHANGED <<hosts, real_mtx>>
          /\ \A u \in Threads \ {t} : th'[u] = th[u]
      BY <2>6 DEF LockFast, TypeOK, Go, GoRet
    <3>2. (Holds(t)' <=> Holds(t)) /\ (Holds(t) => Depth(t)' = Depth(t))
      BY <2>6 DEF LockFast, TypeOK, Go, GoRet, At, Holds, Depth, ReturnsRight, Returns, Before
    <3> QED
      BY <3>1, <3>2, MutualQuiet
  <2>7. CASE Bootstrap(t)
    <3>1. /\ UNCHANGED <<hosts, real_mtx>>
          /\ \A u \in Threads \ {t} : th'[u] = th[u]
      BY <2>7 DEF Bootstrap, TypeOK, Go, GoRet
    <3>2. (Holds(t)' <=> Holds(t)) /\ (Holds(t) => Depth(t)' = Depth(t))
      BY <2>7 DEF Bootstrap, TypeOK, Go, GoRet, At, Holds, Depth, ReturnsRight, Returns, Before
    <3> QED
      BY <3>1, <3>2, MutualQuiet
  <2>8. CASE Create(t)
    <3>1. \A u \in Threads \ {t} : th'[u] = th[u]
      BY <2>8 DEF Create, TypeOK
    <3>2. (Holds(t)' <=> Holds(t)) /\ (Holds(t) => Depth(t)' = Depth(t))
      BY <2>8 DEF Create, TypeOK, At, Holds, Depth, ReturnsRight, Returns, Before
    <3>3. CASE real_mtx = 0
      <4>1. \A u \in Threads : ~Holds(u)
        BY <3>3 DEF Mutual
      <4> QED
        BY <2>8, <3>1, <3>2, <3>3, <4>1, CreateMoves, MutualMove
    <3>4. CASE real_mtx # 0
      BY <2>8, <3>1, <3>2, <3>4, MutualQuiet DEF Create
    <3> QED
      BY <3>3, <3>4
  <2>9. CASE Take(t)
    <3>1. \A u \in Threads \ {t} : th'[u] = th[u]
      BY <2>9 DEF Take, TypeOK
    <3>2. real_mtx' = 1 /\ \A u \in Threads \ {t} : ~Holds(u)
      <4>1. real_mtx = 1 /\ hosts[1].owner \in {Nobody, t}
        BY <2>9, TakeMoves
      <4> QED
        BY <2>9, <4>1, ThreadAssumption DEF Take, Mutual
    <3>3. th'[t].pc = th[t].ret /\ th'[t].ret = th[t].ret /\ th[t].ret \in {"enter", "work", "nested"}
      BY <2>9 DEF Take, TypeOK, ReturnsRight, Returns, At, Before
    <3>4. Holds(t)'
      BY <3>3 DEF Holds
    <3>5. OnlyHost(hosts', t, hosts[1].depth + 1) /\ hosts[1].depth + 1 = Depth(t)'
      BY <2>9, <3>3, TakeMoves DEF Depth
    <3> QED
      BY <3>1, <3>2, <3>4, <3>5, MutualMove
  <2>10. CASE TryFails(t)
    <3>1. /\ UNCHANGED <<hosts, real_mtx>>
          /\ \A u \in Threads \ {t} : th'[u] = th[u]
      BY <2>10 DEF TryFails, TypeOK, Go, GoRet
    <3>2. (Holds(t)' <=> Holds(t)) /\ (Holds(t) => Depth(t)' = Depth(t))
      BY <2>10 DEF TryFails, TypeOK, Go, GoRet, At, Holds, Depth, ReturnsRight, Returns, Before
    <3> QED
      BY <3>1, <3>2, MutualQuiet
  <2>11. CASE Unlock(t)
    <3>1. Holds(t)
      BY <2>11 DEF Unlock, Holds, At
    <3>2. /\ real_mtx' = 1
          /\ OnlyHost(hosts', IF Depth(t) = 1 THEN Nobody ELSE t, Depth(t) - 1)
      BY <2>11, <3>1, ReleaseMoves DEF Unlock
    <3>3. \A u \in Threads \ {t} : th'[u] = th[u] /\ ~Holds(u)
      BY <2>11, <3>1, HoldsAlone DEF Unlock, Go, TypeOK
    <3>4. th'[t].pc = th[t].ret /\ th'[t].ret = th[t].ret /\ th[t].pc = "unlock"
      BY <2>11 DEF Unlock, Go, TypeOK, At
    <3>5. CASE th[t].ret = "work"
      <4>1. Holds(t)' /\ Depth(t)' = 1 /\ Depth(t) = 2
        BY <3>4, <3>5 DEF Holds, Depth
      <4> QED
        BY <3>2, <3>3, <4>1, MutualMove
    <3>6. CASE th[t].ret # "work"
      <4>1. ~Holds(t)' /\ Depth(t) = 1
        BY <3>4, <3>6 DEF Holds, Depth, ReturnsRight, Returns
      <4> QED
        BY <3>2, <3>3, <4>1, MutualMove
    <3> QED
      BY <3>5, <3>6
  <2>12. CASE CondFast(t)
    <3>1. /\ UNCHANGED <<hosts, real_mtx>>
          /\ \A u \in Threads \ {t} : th'[u] = th[u]
      BY <2>12 DEF CondFast, TypeOK, Go, GoRet
    <3>2. (Holds(t)' <=> Holds(t)) /\ (Holds(t) => Depth(t)' = Depth(t))
      BY <2>12 DEF CondFast, TypeOK, Go, GoRet, At, Holds, Depth, ReturnsRight, Returns, Before
    <3> QED
      BY <3>1, <3>2, MutualQuiet
  <2>13. CASE CondInit(t)
    <3>1. /\ UNCHANGED <<hosts, real_mtx>>
          /\ \A u \in Threads \ {t} : th'[u] = th[u]
      BY <2>13 DEF CondInit, TypeOK, Go, GoRet
    <3>2. (Holds(t)' <=> Holds(t)) /\ (Holds(t) => Depth(t)' = Depth(t))
      BY <2>13 DEF CondInit, TypeOK, Go, GoRet, At, Holds, Depth, ReturnsRight, Returns, Before
    <3> QED
      BY <3>1, <3>2, MutualQuiet
  <2>14. CASE CondCreate(t)
    <3>1. /\ UNCHANGED <<hosts, real_mtx>>
          /\ \A u \in Threads \ {t} : th'[u] = th[u]
      BY <2>14 DEF CondCreate, TypeOK, Go, GoRet
    <3>2. (Holds(t)' <=> Holds(t)) /\ (Holds(t) => Depth(t)' = Depth(t))
      BY <2>14 DEF CondCreate, TypeOK, Go, GoRet, At, Holds, Depth, ReturnsRight, Returns, Before
    <3> QED
      BY <3>1, <3>2, MutualQuiet
  <2>15. CASE Sleep(t)
    <3>1. Holds(t) /\ Depth(t) = 1
      BY <2>15 DEF Sleep, Holds, At, Depth
    <3>2. real_mtx' = 1 /\ OnlyHost(hosts', Nobody, 0)
      BY <2>15, <3>1, ReleaseMoves DEF Sleep
    <3>3. \A u \in Threads \ {t} : th'[u] = th[u] /\ ~Holds(u)
      BY <2>15, <3>1, HoldsAlone DEF Sleep, TypeOK
    <3>4. th'[t].pc = "asleep" /\ th'[t].ret = th[t].ret /\ th[t].ret # "nested"
      BY <2>15 DEF Sleep, TypeOK, At, ReturnsRight, Returns, Before
    <3>5. ~Holds(t)'
      BY <3>4 DEF Holds
    <3> QED
      BY <3>2, <3>3, <3>5, MutualMove
  <2>16. CASE Timeout(t)
    <3>1. /\ UNCHANGED <<hosts, real_mtx>>
          /\ \A u \in Threads \ {t} : th'[u] = th[u]
      BY <2>16 DEF Timeout, TypeOK, Go, GoRet
    <3>2. (Holds(t)' <=> Holds(t)) /\ (Holds(t) => Depth(t)' = Depth(t))
      BY <2>16 DEF Timeout, TypeOK, Go, GoRet, At, Holds, Depth, ReturnsRight, Returns, Before
    <3> QED
      BY <3>1, <3>2, MutualQuiet
  <2>17. CASE Notify(t)
    <3>1. UNCHANGED <<hosts, real_mtx>>
      BY <2>17 DEF Notify
    <3>2. ASSUME NEW u \in Threads
          PROVE  (Holds(u)' <=> Holds(u)) /\ (Holds(u) => Depth(u)' = Depth(u))
      <4>1. CASE u = t
        BY <2>17, <4>1, NotifyMoves DEF At, Holds, Depth, ReturnsRight, Returns
      <4>2. CASE u # t /\ th'[u] = th[u]
        BY <4>2, HoldsSame
      <4>3. CASE u # t /\ Awoken(u)
        BY <4>3 DEF Awoken, Holds, ReturnsRight, Returns, Before
      <4> QED
        BY <2>17, <4>1, <4>2, <4>3, NotifyMoves
    <3> QED
      BY <3>1, <3>2 DEF Mutual
  <2> QED
    BY <1>1, <2>1, <2>2, <2>3, <2>4, <2>5, <2>6, <2>7, <2>8, <2>9, <2>10, <2>11, <2>12, <2>13, <2>14, <2>15, <2>16, <2>17 DEF Step
<1>2. CASE Destroy
  BY <1>2 DEF Destroy, AllDone, At, Mutual, Holds, ReturnsRight, Returns, Before
<1>3. CASE UNCHANGED vars
  BY <1>3 DEF vars, Mutual, Holds, Depth
<1> QED
  BY <1>1, <1>2, <1>3 DEF Next, Finished

-----------------------------------------------------------------------------
LEMMA IInvStep == IInv /\ [Next]_vars => IInv'
<1> SUFFICES ASSUME IInv, [Next]_vars PROVE IInv'
  OBVIOUS
<1>1. th' \in [Threads -> Records] /\ HostsTyped' /\ CondsTyped' /\ GameTyped'
  BY ThreadsTyped, HostsStep, CondsStep, GameStep
<1>2. TypeOK'
  BY <1>1 DEF TypeOK, Records, HostsTyped, HostMutexes, CondsTyped, GameTyped
<1> QED
  BY <1>2, OwingStep, ReturnsStep, OneHostStep, BootStep, SleepersStep, MutualStep DEF IInv

LEMMA SpecIInv == Spec => []IInv
<1>1. Init => IInv
  BY IInvInit
<1>2. IInv /\ [Next]_vars => IInv'
  BY IInvStep
<1> QED
  BY <1>1, <1>2, PTL DEF Spec

\* Mutual exclusion, for any number of threads and items and for each type of mutex:
\* however many arrive together at the word that holds no address yet, whichever
\* wait, time out or are woken, a thread that was let in owns the host mutex that
\* the word names until it gives it up.
THEOREM HoldersOwnIt == Spec => []HoldersOwn
<1>1. IInv => HoldersOwn
  BY DEF IInv, Mutual, HoldersOwn, Owner
<1> QED
  BY <1>1, SpecIInv, PTL

=============================================================================
