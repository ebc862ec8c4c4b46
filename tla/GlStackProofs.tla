---------------------------- MODULE GlStackProofs ----------------------------
(***************************************************************************)
(* Proofs about the search for a GL driver, for any devices with any       *)
(* number of library directories and whatever is in them: its types, and   *)
(* each property the module states of what the launcher chooses and of     *)
(* who executes the game's calls.                                          *)
(***************************************************************************)
EXTENDS GlStack, FiniteSetTheorems, TLAPS

USE DirsAssumption, FirmwareAssumption

-----------------------------------------------------------------------------
(* The first directory.                                                    *)

\* Of the naturals of a set up to one of them, the fewest are those up to the least.
LEMMA Smallest ==
    ASSUME NEW S, S \subseteq Nat, S # {}
    PROVE  \E m \in S : \A n \in S : m <= n
<1>1. PICK k \in S : TRUE
  OBVIOUS
<1> DEFINE UpTo(n) == S \cap (0..n)
           T == {UpTo(n) : n \in S \cap (0..k)}
<1>2. IsFiniteSet(0..k) /\ k \in Nat
  BY FS_Interval
<1>3. FiniteSubsetsOf(0..k) = SUBSET (0..k)
  BY <1>2, FS_FiniteSubsetsOfFinite
<1>4. IsWellFoundedOn(StrictSubsetOrdering(0..k), SUBSET (0..k))
  BY <1>3, FS_StrictSubsetOrderingWellFounded
<1>5. T \subseteq SUBSET (0..k) /\ UpTo(k) \in T
  BY <1>2
<1>6. PICK x \in T : \A y \in T : <<y, x>> \notin StrictSubsetOrdering(0..k)
  <2> HIDE DEF T
  <2> QED
    BY <1>4, <1>5, WFMin
<1>7. PICK m \in S \cap (0..k) : x = UpTo(m)
  BY <1>6
<1>8. ASSUME NEW n \in S, n < m
      PROVE  FALSE
  <2>1. n \in Nat /\ m \in Nat /\ n \in S \cap (0..k)
    BY <1>2, <1>7, <1>8
  <2>2. UpTo(n) \in T /\ UpTo(n) \subseteq UpTo(m) /\ UpTo(n) # UpTo(m)
    BY <1>7, <1>8, <2>1
  <2>3. <<UpTo(n), UpTo(m)>> \in StrictSubsetOrdering(0..k)
    BY <1>5, <1>6, <1>7, <2>2 DEF StrictSubsetOrdering
  <2> QED
    BY <1>6, <1>7, <2>2, <2>3
<1> QED
  BY <1>2, <1>7, <1>8

\* FirstDir returns a directory of its argument, and 0 only for none.
LEMMA FirstDirs ==
    ASSUME NEW ds, ds \subseteq Dirs
    PROVE  /\ ds = {} => FirstDir(ds) = 0
           /\ ds # {} => FirstDir(ds) \in ds /\ FirstDir(ds) # 0
           /\ FirstDir(ds) \in Dirs \cup {0}
<1>1. CASE ds = {}
  BY <1>1 DEF FirstDir
<1>2. CASE ds # {}
  <2>0. Dirs \subseteq Nat \ {0}
    BY DEF Dirs
  <2>1. \E d \in ds : \A e \in ds : d <= e
    BY <1>2, <2>0, Smallest
  <2>2. FirstDir(ds) \in ds
    BY <1>2, <2>1 DEF FirstDir
  <2> QED
    BY <1>2, <2>0, <2>2
<1> QED
  BY <1>1, <1>2

\* FirstFile returns a file at one of the places in good, or none.
LEMMA FirstFiles ==
    ASSUME NEW d, NEW names, NEW good, good \subseteq Nat
    PROVE  /\ good = {} => FirstFile(d, names, good) = Absent
           /\ good # {} => \E k \in good : FirstFile(d, names, good) = File(d, names[k])
<1>1. CASE good = {}
  BY <1>1 DEF FirstFile
<1>2. CASE good # {}
  <2>1. \E k \in good : \A l \in good : k <= l
    BY <1>2, Smallest
  <2> QED
    BY <1>2, <2>1 DEF FirstFile
<1> QED
  BY <1>1, <1>2

-----------------------------------------------------------------------------
(* Every choice is made once, out of the device's files, and kept: what    *)
(* the game meets at the end is explained by what was found at the start.  *)

Searching == {"tier0", "tier1", "tier2", "tier3", "shim"}
Loading   == {"unshadow", "window", "gles1", "play", "failed"}

MesaSet == FirstDir({d \in Dirs : MesaAt(d)})
IsEgl(lib) == Loadable(lib, "eglGetDisplay")

\* Tier 0 outranks the others.
MesaFirst ==
    /\ pc = "tier0" => tier = "none" /\ mesaDir = 0
    /\ pc # "tier0" => mesaDir = IF fw.wayland THEN MesaSet ELSE 0
    /\ pc # "tier0" => (mesaDir # 0 => tier = "mesa")
    /\ pc \in Searching => (tier = "mesa" => mesaDir # 0)

\* What each tier has found can be opened, and tier 3 has looked everywhere.
Found ==
    /\ pc \in {"tier0", "tier1"} => tier \in {"none", "mesa"}
    /\ tier = "blob" => IsEgl(blob)
    /\ tier = "wrapper" => IsEgl(wrapper.egl)
    /\ pc = "shim" /\ tier = "none" => \A d \in Dirs : ~BlobAt(d)
    /\ pc \in Searching => ~unshadowed /\ ~single

\* The links, once they are made.
Linked ==
    pc \in Loading =>
        /\ tier # "none"
        /\ tier = "blob" => (\A s \in Sonames : shim[s] = blob) /\ ~single
        /\ tier = "wrapper" => /\ single = (wrapper.es1 = Absent)
                               /\ shim["mali.1"] = IF OwnMali # Absent THEN OwnMali ELSE wrapper.es1
        /\ tier = "mesa" => /\ single /\ IsEgl(shim["EGL.1"])
                            /\ mesaDir # 0 => shim["EGL.1"] = File(mesaDir, "EGL.1")
        /\ pc = "unshadow" => tier = "mesa" /\ ~unshadowed

\* Who owns the context, whose functions are in the table, who executes a call.
Drawn ==
    /\ pc \in {"gles1", "play"} => context = EglLibrary.driver
    /\ pc = "play" => table = IF Provider = Absent THEN "empty" ELSE Resolved
    /\ pc # "play" => executed = {}
    /\ executed \subseteq {<<kind, Executor(kind)>> : kind \in Kinds}

\* Tier 0's set has the firmware's copies in front where they save it.
Uncovered ==
    /\ pc \in {"window", "gles1", "play", "failed"} /\ mesaDir # 0 /\ fw.probeRuns /\ fw.copies
    /\ File(mesaDir, "EGL_mesa.0").vendor = "own"
    => unshadowed

GInv == /\ TypeOK /\ MesaFirst /\ Found /\ Linked /\ Drawn /\ Uncovered
        /\ FailureExplained /\ RefusedForCause /\ CopiesOnlyIfNeeded

\* What the device's files and the search over them return.
LEMMA Files ==
    ASSUME fw \in Firmwares
    PROVE  /\ \A d \in Dirs, n \in Names : File(d, n) \in Library \cup {Absent}
           /\ fw.libGL \in Library \cup {Absent}
           /\ OwnMali \in Library \cup {Absent}
           /\ MesaSet \in Dirs \cup {0}
           /\ MesaSet # 0 => MesaAt(MesaSet)
           /\ MesaSet = 0 => \A d \in Dirs : ~MesaAt(d)
<1>1. fw \in Firmware
  OBVIOUS
<1>2. \A d \in Dirs, n \in Names : File(d, n) \in Library \cup {Absent}
  BY <1>1 DEF Firmware, File
<1>3. fw.libGL \in Library \cup {Absent}
  BY <1>1 DEF Firmware
<1>4. OwnMali \in Library \cup {Absent}
  <2> DEFINE ds == {e \in Dirs : File(e, "mali.1") # Absent}
  <2>1. FirstDir(ds) \in Dirs \cup {0}
    BY FirstDirs
  <2>2. OwnMali = IF FirstDir(ds) = 0 THEN Absent ELSE File(FirstDir(ds), "mali.1")
    BY DEF OwnMali
  <2> QED
    BY <1>2, <2>1, <2>2 DEF Names
<1>5. /\ MesaSet \in Dirs \cup {0}
      /\ MesaSet # 0 => MesaSet \in {d \in Dirs : MesaAt(d)}
      /\ MesaSet = 0 => {d \in Dirs : MesaAt(d)} = {}
  BY FirstDirs DEF MesaSet
<1> QED
  BY <1>2, <1>3, <1>4, <1>5

\* A device does not change under the launcher.
LEMMA SameDevice ==
    ASSUME fw' = fw
    PROVE  /\ MesaSet' = MesaSet /\ OwnMali' = OwnMali
           /\ \A d : BlobAt(d)' = BlobAt(d)
           /\ \A lib, symbol : Loadable(lib, symbol)' = Loadable(lib, symbol)
<1>1. \A lib, symbol : Loadable(lib, symbol)' = Loadable(lib, symbol)
  BY DEF Loadable
<1>2. MesaSet' = MesaSet
  BY DEF MesaSet, MesaAt, File, Loadable
<1>3. OwnMali' = OwnMali
  BY DEF OwnMali, File
<1>4. \A d : BlobAt(d)' = BlobAt(d)
  BY DEF BlobAt, Blobs, IsBlob, File, Loadable
<1> QED
  BY <1>1, <1>2, <1>3, <1>4

\* gl_try_blob commits to a file that it can open, and to none only if there is none.
LEMMA BlobFile ==
    ASSUME fw \in Firmwares, NEW d \in Dirs, NEW names \in {Tested, AnyBlob},
           NEW lib, lib = FirstFile(d, names, Blobs(d, names))
    PROVE  /\ lib \in Library \cup {Absent}
           /\ lib # Absent => IsEgl(lib)
           /\ Blobs(d, names) # {} => lib # Absent
<1>1. DOMAIN names \subseteq Nat /\ \A k \in DOMAIN names : names[k] \in Names
  BY DEF Tested, AnyBlob, Names
<1>2. Blobs(d, names) \subseteq Nat
  BY <1>1 DEF Blobs
<1>3. CASE Blobs(d, names) = {}
  BY <1>2, <1>3, FirstFiles
<1>4. CASE Blobs(d, names) # {}
  <2>1. PICK k \in Blobs(d, names) : lib = File(d, names[k])
    BY <1>2, <1>4, FirstFiles
  <2>2. k \in DOMAIN names /\ IsBlob(lib)
    BY <2>1 DEF Blobs
  <2>3. lib \in Library \cup {Absent}
    BY <1>1, <2>1, <2>2, Files
  <2> QED
    BY <2>2, <2>3 DEF IsBlob, IsEgl, Loadable
<1> QED
  BY <1>3, <1>4

\* The wrapper set of tier 2.
LEMMA WrapperFiles ==
    ASSUME fw \in Firmwares, NEW d, d = FirstDir({e \in Dirs : WrapperAt(e)}), d # 0,
           NEW es1, es1 = FirstFile(d, Es1, {k \in DOMAIN Es1 : HasFixedFunction(File(d, Es1[k]))})
    PROVE  /\ File(d, "EGL") \in Library \cup {Absent} /\ File(d, "GLESv2") \in Library \cup {Absent}
           /\ es1 \in Library \cup {Absent}
           /\ IsEgl(File(d, "EGL"))
<1>1. d \in Dirs /\ WrapperAt(d)
  BY FirstDirs
<1>2. /\ File(d, "EGL") \in Library \cup {Absent} /\ File(d, "GLESv2") \in Library \cup {Absent}
      /\ IsEgl(File(d, "EGL"))
  BY <1>1, Files DEF WrapperAt, IsEgl, Names
<1> DEFINE good == {k \in DOMAIN Es1 : HasFixedFunction(File(d, Es1[k]))}
<1>3. good \subseteq Nat /\ \A k \in good : Es1[k] \in Names
  BY DEF Es1, Names
<1>4. es1 \in Library \cup {Absent}
  <2>1. CASE good = {}
    BY <1>3, <2>1, FirstFiles
  <2>2. CASE good # {}
    <3>1. PICK k \in good : es1 = File(d, Es1[k])
      BY <1>3, <2>2, FirstFiles
    <3> QED
      BY <1>1, <1>3, <3>1, Files
  <2> QED
    BY <2>1, <2>2
<1> QED
  BY <1>2, <1>4

\* What SDL opens is there, and a preflight has opened it.
LEMMA EglFile ==
    ASSUME GInv, pc \in Loading
    PROVE  EglLibrary \in Library /\ IsEgl(EglLibrary)
<1>1. /\ blob \in Library \cup {Absent} /\ wrapper.egl \in Library \cup {Absent}
      /\ shim["EGL.1"] \in Library \cup {Absent}
  BY DEF GInv, TypeOK, Sonames
<1>2. \A lib : IsEgl(lib) => lib # Absent
  BY DEF IsEgl, Loadable
<1>3. CASE tier = "blob"
  BY <1>1, <1>2, <1>3 DEF GInv, Found, Linked, EglLibrary, Resolve, Sonames
<1>4. CASE tier = "wrapper"
  BY <1>1, <1>2, <1>4 DEF GInv, Found, EglLibrary
<1>5. CASE tier = "mesa"
  BY <1>1, <1>2, <1>5 DEF GInv, Linked, EglLibrary, Resolve
<1> QED
  BY <1>3, <1>4, <1>5 DEF GInv, TypeOK, Linked

LEMMA ProviderFile ==
    ASSUME TypeOK
    PROVE  Provider \in Library \cup {Absent}
  BY Files DEF TypeOK, Provider, Resolve, Adopts, Sonames

LEMMA TypeStep ==
    ASSUME GInv, [Next]_vars
    PROVE  TypeOK'
<1> USE DEF TypeOK
<1>0. TypeOK /\ fw \in Firmwares
  BY DEF GInv
<1>1. CASE Tier0
  BY <1>0, <1>1, Files DEF Tier0, MesaSet
<1>2. CASE Tier1
  <2>1. blob' \in Library \cup {Absent}
    BY <1>0, <1>2, BlobFile DEF Tier1, Commit
  <2> QED
    BY <1>0, <1>2, <2>1 DEF Tier1, Commit
<1>3. CASE Tier2
  <2>1. CASE UNCHANGED <<tier, wrapper>>
    BY <1>0, <1>3, <2>1 DEF Tier2
  <2>2. CASE ~UNCHANGED <<tier, wrapper>>
    <3>1. tier' = "wrapper" /\ wrapper' \in [egl : Library \cup {Absent}, gles : Library \cup {Absent},
                                            es1 : Library \cup {Absent}]
      BY <1>0, <1>3, <2>2, WrapperFiles DEF Tier2
    <3> QED
      BY <1>0, <1>3, <3>1 DEF Tier2
  <2> QED
    BY <2>1, <2>2
<1>4. CASE Tier3
  <2> DEFINE d == FirstDir({e \in Dirs : BlobAt(e)})
  <2>1. d \in Dirs \cup {0}
    BY FirstDirs
  <2>2. CASE tier # "none" \/ d = 0
    BY <1>0, <1>4, <2>2 DEF Tier3
  <2>3. CASE tier = "none" /\ d # 0
    <3> HIDE DEF d
    <3>1. Commit(FirstFile(d, AnyBlob, Blobs(d, AnyBlob)))
      BY <1>4, <2>3 DEF Tier3, d
    <3>2. blob' \in Library \cup {Absent}
      BY <1>0, <2>1, <2>3, <3>1, BlobFile DEF Commit
    <3> QED
      BY <1>0, <1>4, <3>1, <3>2 DEF Tier3, Commit
  <2> QED
    BY <2>2, <2>3
<1>5. CASE ShimBlob
  BY <1>0, <1>5 DEF ShimBlob, Refuse, NoShim
<1>6. CASE ShimWrapper
  <2>1. wrapper.egl \in Library \cup {Absent} /\ wrapper.gles \in Library \cup {Absent}
        /\ wrapper.es1 \in Library \cup {Absent}
    BY <1>0
  <2>2. shim' \in [Sonames -> Library \cup {Absent}]
    BY <1>0, <1>6, <2>1, Files DEF ShimWrapper, Refuse, NoShim, Sonames
  <2> QED
    BY <1>0, <1>6, <2>2 DEF ShimWrapper, Refuse
<1>7. CASE ShimMesa
  <2> DEFINE e == FirstDir({x \in Dirs : EglAt(x)})
             d == IF mesaDir # 0 THEN mesaDir ELSE e
  <2>1. d \in Dirs \cup {0}
    BY <1>0, FirstDirs
  <2> HIDE DEF d
  <2>2. shim' = NoShim \/ (d # 0 /\ shim' = [NoShim EXCEPT !["EGL.1"] = File(d, "EGL.1")])
    BY <1>7 DEF ShimMesa, Refuse, d
  <2>3. shim' \in [Sonames -> Library \cup {Absent}]
    BY <1>0, <2>1, <2>2, Files DEF NoShim, Names
  <2> QED
    BY <1>0, <1>7, <2>3 DEF ShimMesa, Refuse
<1>8. CASE Unshadow
  BY <1>0, <1>8, Files DEF Unshadow, VendorLoads
<1>9. CASE OpenWindow
  <2>1. EglLibrary.driver \in Drivers
    BY <1>9, EglFile DEF OpenWindow, Loading, Library
  <2> QED
    BY <1>0, <1>9, <2>1 DEF OpenWindow
<1>10. CASE LoadGles1
  <2>1. Provider # Absent => Provider.driver \in Drivers
    BY <1>0, ProviderFile DEF Library
  <2>2. context \in Drivers
    BY <1>10, EglFile DEF LoadGles1, GInv, Drawn, Loading, Library
  <2> QED
    BY <1>0, <1>10, <2>1, <2>2 DEF LoadGles1, Resolved
<1>11. ASSUME NEW kind \in Kinds, Call(kind)
       PROVE  TypeOK'
  <2>1. context \in Drivers
    BY <1>11, EglFile DEF Call, GInv, Drawn, Loading, Library
  <2>2. Executor(kind) \in Drivers \cup {"dropped"}
    BY <1>0, <1>11, <2>1 DEF Executor, Kinds
  <2> QED
    BY <1>0, <1>11, <2>2 DEF Call
<1>12. CASE Over \/ UNCHANGED vars
  BY <1>0, <1>12 DEF Over, vars
<1> QED
  BY <1>1, <1>2, <1>3, <1>4, <1>5, <1>6, <1>7, <1>8, <1>9, <1>10, <1>11, <1>12 DEF Next

LEMMA MesaFirstStep ==
    ASSUME GInv, [Next]_vars
    PROVE  MesaFirst'
<1> USE DEF GInv, MesaFirst, Searching
<1>1. CASE Tier0
  BY <1>1, SameDevice DEF Tier0, MesaSet
<1>2. CASE Tier1
  BY <1>2, SameDevice DEF Tier1, Commit
<1>3. CASE Tier2
  BY <1>3, SameDevice DEF Tier2
<1>4. CASE Tier3
  BY <1>4, SameDevice DEF Tier3, Commit
<1>5. CASE ShimBlob \/ ShimWrapper \/ ShimMesa
  BY <1>5, SameDevice DEF ShimBlob, ShimWrapper, ShimMesa, Refuse
<1>6. CASE Unshadow \/ OpenWindow \/ LoadGles1 \/ Over \/ UNCHANGED vars
  BY <1>6, SameDevice DEF Unshadow, OpenWindow, LoadGles1, Over, vars
<1>7. ASSUME NEW kind \in Kinds, Call(kind)
      PROVE  MesaFirst'
  BY <1>7, SameDevice DEF Call
<1> QED
  BY <1>1, <1>2, <1>3, <1>4, <1>5, <1>6, <1>7 DEF Next

LEMMA FoundStep ==
    ASSUME GInv, [Next]_vars
    PROVE  Found'
<1> USE DEF GInv, Found, Searching
<1>0. fw \in Firmwares
  BY DEF TypeOK
<1>1. CASE Tier0
  BY <1>1 DEF Tier0
<1>2. CASE Tier1
  <2>1. blob' # Absent => IsEgl(blob)'
    <3>1. blob' # Absent => Loadable(blob', "eglGetDisplay")
      BY <1>0, <1>2, BlobFile DEF Tier1, Commit, IsEgl
    <3> QED
      BY <1>2, <3>1 DEF Tier1, IsEgl, Loadable
  <2>2. tier' = "blob" => blob' # Absent
    BY <1>2 DEF Tier1, Commit
  <2> QED
    BY <1>2, <2>1, <2>2 DEF Tier1, Commit
<1>3. CASE Tier2
  <2>1. CASE UNCHANGED <<tier, wrapper>>
    BY <1>3, <2>1 DEF Tier2, IsEgl, Loadable
  <2>2. CASE ~UNCHANGED <<tier, wrapper>>
    <3>1. tier' = "wrapper" /\ Loadable(wrapper'.egl, "eglGetDisplay")
      BY <1>0, <1>3, <2>2, WrapperFiles DEF Tier2, IsEgl
    <3> QED
      BY <1>3, <3>1 DEF Tier2, IsEgl, Loadable
  <2> QED
    BY <2>1, <2>2
<1>4. CASE Tier3
  <2> DEFINE d == FirstDir({e \in Dirs : BlobAt(e)})
  <2>1. /\ d \in Dirs \cup {0}
        /\ d # 0 => BlobAt(d)
        /\ d = 0 => \A e \in Dirs : ~BlobAt(e)
    <3>1. d # 0 => d \in {e \in Dirs : BlobAt(e)}
      BY FirstDirs
    <3>2. d = 0 => {e \in Dirs : BlobAt(e)} = {}
      BY FirstDirs
    <3> QED
      BY <3>1, <3>2
  <2>2. CASE tier # "none"
    BY <1>4, <2>2 DEF Tier3, IsEgl, Loadable
  <2>3. CASE tier = "none" /\ d = 0
    <3>1. \A e \in Dirs : ~BlobAt(e)'
      BY <1>4, <2>1, <2>3, SameDevice DEF Tier3
    <3> QED
      BY <1>4, <2>3, <3>1 DEF Tier3, IsEgl, Loadable
  <2>4. CASE tier = "none" /\ d # 0
    <3> HIDE DEF d
    <3>1. Commit(FirstFile(d, AnyBlob, Blobs(d, AnyBlob)))
      BY <1>4, <2>4 DEF Tier3, d
    <3> DEFINE lib == FirstFile(d, AnyBlob, Blobs(d, AnyBlob))
    <3>2. d \in Dirs /\ Blobs(d, AnyBlob) # {}
      <4>1. d \in Dirs /\ BlobAt(d)
        BY <2>1, <2>4
      <4> QED
        BY <4>1 DEF BlobAt
    <3>3. lib # Absent /\ IsEgl(lib)
      BY <1>0, <3>2, BlobFile
    <3>4. blob' # Absent /\ Loadable(blob', "eglGetDisplay")
      BY <3>1, <3>3 DEF Commit, IsEgl
    <3> QED
      BY <1>4, <3>1, <3>4 DEF Tier3, Commit, IsEgl, Loadable
  <2> QED
    BY <2>2, <2>3, <2>4
<1>5. CASE ShimBlob
  BY <1>5 DEF ShimBlob, Refuse, IsEgl, Loadable
<1>6. CASE ShimWrapper
  BY <1>6 DEF ShimWrapper, Refuse, IsEgl, Loadable
<1>7. CASE ShimMesa
  <2>1. pc' \notin Searching /\ tier' \in {"none", "mesa"} /\ pc' # "tier0" /\ pc' # "tier1"
    BY <1>7 DEF ShimMesa, Refuse
  <2> QED
    BY <2>1
<1>8. CASE Unshadow \/ OpenWindow \/ LoadGles1
  BY <1>8 DEF Unshadow, OpenWindow, LoadGles1, IsEgl, Loadable
<1>9. CASE Over \/ UNCHANGED vars
  <2>1. UNCHANGED vars
    BY <1>9 DEF Over
  <2> QED
    BY <2>1, SameDevice DEF vars, IsEgl, Loadable
<1>10. ASSUME NEW kind \in Kinds, Call(kind)
       PROVE  Found'
  BY <1>10 DEF Call, IsEgl, Loadable
<1> QED
  BY <1>1, <1>2, <1>3, <1>4, <1>5, <1>6, <1>7, <1>8, <1>9, <1>10 DEF Next

\* Without a Mesa set the Mesa tier has mesaDir = 0; with one, its libEGL opens.
LEMMA MesaDirFile ==
    ASSUME GInv, pc # "tier0", mesaDir # 0
    PROVE  mesaDir \in Dirs /\ MesaAt(mesaDir) /\ IsEgl(File(mesaDir, "EGL.1"))
  BY Files DEF GInv, TypeOK, MesaFirst, MesaAt, IsEgl

LEMMA LinkedStep ==
    ASSUME GInv, [Next]_vars
    PROVE  Linked'
<1> USE DEF GInv, Linked, Loading
<1>0. fw \in Firmwares
  BY DEF TypeOK
<1>1. CASE Tier0 \/ Tier1 \/ Tier2 \/ Tier3
  BY <1>1 DEF Tier0, Tier1, Tier2, Tier3
<1>2. CASE ShimBlob
  <2>1. ~single
    BY <1>2 DEF ShimBlob, Refuse, Found, Searching
  <2> QED
    BY <1>2, <2>1 DEF ShimBlob, Refuse, Sonames
<1>3. CASE ShimWrapper
  BY <1>3, SameDevice DEF ShimWrapper, Refuse, Sonames
<1>4. CASE ShimMesa /\ pc' # "refused"
  <2> DEFINE e == FirstDir({x \in Dirs : EglAt(x)})
             d == IF mesaDir # 0 THEN mesaDir ELSE e
  <2>1. e # 0 => e \in {x \in Dirs : EglAt(x)}
    BY FirstDirs
  <2>2. d # 0 => IsEgl(File(d, "EGL.1"))
    BY <1>4, <2>1, MesaDirFile DEF ShimMesa, Refuse, EglAt, IsEgl
  <2> HIDE DEF d
  <2>3. /\ d # 0 /\ pc' = "unshadow" /\ tier' = "mesa" /\ single' = TRUE
        /\ shim' = [NoShim EXCEPT !["EGL.1"] = File(d, "EGL.1")]
        /\ UNCHANGED <<fw, mesaDir, unshadowed>> /\ pc = "shim"
    BY <1>4 DEF ShimMesa, Refuse, d
  <2>4. shim'["EGL.1"] = File(d, "EGL.1")
    BY <2>3 DEF NoShim, Sonames
  <2>5. IsEgl(shim["EGL.1"])'
    BY <2>2, <2>3, <2>4 DEF IsEgl, Loadable
  <2>6. mesaDir' # 0 => shim'["EGL.1"] = File(mesaDir, "EGL.1")'
    BY <2>3, <2>4 DEF d, File
  <2>7. ~unshadowed'
    BY <2>3 DEF Found, Searching
  <2> QED
    BY <2>3, <2>5, <2>6, <2>7
<1>5. CASE ShimMesa /\ pc' = "refused"
  BY <1>5
<1>6. CASE Unshadow
  BY <1>6 DEF Unshadow, IsEgl, Loadable, File
<1>7. CASE OpenWindow \/ LoadGles1
  <2>1. UNCHANGED <<fw, tier, blob, wrapper, shim, single, mesaDir>> /\ pc \in Loading
        /\ pc' # "unshadow"
    BY <1>7 DEF OpenWindow, LoadGles1
  <2> QED
    BY <2>1, SameDevice DEF IsEgl, Loadable, File
<1>8. CASE Over \/ UNCHANGED vars
  <2>1. UNCHANGED vars
    BY <1>8 DEF Over
  <2> QED
    BY <2>1, SameDevice DEF vars, IsEgl, Loadable, File
<1>9. ASSUME NEW kind \in Kinds, Call(kind)
      PROVE  Linked'
  BY <1>9, SameDevice DEF Call, IsEgl, Loadable, File
<1> QED
  BY <1>1, <1>2, <1>3, <1>4, <1>5, <1>6, <1>7, <1>8, <1>9 DEF Next

\* What the calls meet is decided by the links, the switch and the context.
LEMMA SamePicture ==
    ASSUME UNCHANGED <<fw, tier, wrapper, shim, single>>
    PROVE  /\ EglLibrary' = EglLibrary /\ Provider' = Provider
           /\ context' = context => Resolved' = Resolved
           /\ context' = context /\ table' = table => \A kind : Executor(kind)' = Executor(kind)
<1>1. OwnMali' = OwnMali
  BY SameDevice
<1>2. \A s : Resolve(s)' = Resolve(s)
  BY <1>1 DEF Resolve
<1>3. EglLibrary' = EglLibrary /\ Provider' = Provider
  BY <1>2 DEF EglLibrary, Provider, Adopts
<1> QED
  BY <1>3 DEF Resolved, Executor

LEMMA DrawnStep ==
    ASSUME GInv, [Next]_vars
    PROVE  Drawn'
<1> USE DEF GInv, Drawn
<1>1. CASE Tier0 \/ Tier1 \/ Tier2 \/ Tier3 \/ ShimBlob \/ ShimWrapper \/ ShimMesa \/ Unshadow
  <2>1. pc' \notin {"gles1", "play"} /\ executed = {} /\ executed' = {}
    BY <1>1 DEF Tier0, Tier1, Tier2, Tier3, ShimBlob, ShimWrapper, ShimMesa, Unshadow, Refuse
  <2> QED
    BY <2>1
<1>2. CASE OpenWindow
  <2>1. /\ UNCHANGED <<fw, tier, wrapper, shim, single>> /\ pc' # "play"
        /\ pc' = "gles1" => context' = EglLibrary.driver
        /\ executed = {} /\ executed' = {}
    BY <1>2 DEF OpenWindow
  <2> QED
    BY <2>1, SamePicture
<1>3. CASE LoadGles1
  <2>1. /\ UNCHANGED <<fw, tier, wrapper, shim, single, context>> /\ pc = "gles1" /\ pc' = "play"
        /\ table' = IF Provider = Absent THEN "empty" ELSE Resolved
        /\ executed = {} /\ executed' = {}
    BY <1>3 DEF LoadGles1
  <2> QED
    BY <2>1, SamePicture
<1>4. ASSUME NEW kind \in Kinds, Call(kind)
      PROVE  Drawn'
  <2>1. /\ UNCHANGED <<fw, tier, wrapper, shim, single, context, table>> /\ pc = "play" /\ pc' = "play"
        /\ executed' = executed \cup {<<kind, Executor(kind)>>}
    BY <1>4 DEF Call
  <2>2. \A k : Executor(k)' = Executor(k)
    BY <2>1, SamePicture
  <2>3. executed' \subseteq {<<k, Executor(k)>> : k \in Kinds}
    BY <2>1
  <2>4. {<<k, Executor(k)>> : k \in Kinds}' = {<<k, Executor(k)>> : k \in Kinds}
    BY <2>2
  <2> QED
    BY <2>1, <2>3, <2>4, SamePicture
<1>5. CASE Over \/ UNCHANGED vars
  <2>1. UNCHANGED vars
    BY <1>5 DEF Over
  <2>2. \A k : Executor(k)' = Executor(k)
    BY <2>1, SamePicture DEF vars
  <2>3. {<<k, Executor(k)>> : k \in Kinds}' = {<<k, Executor(k)>> : k \in Kinds}
    BY <2>2
  <2> QED
    BY <2>1, <2>3, SamePicture DEF vars
<1> QED
  BY <1>1, <1>2, <1>3, <1>4, <1>5 DEF Next

LEMMA FailureStep ==
    ASSUME GInv, [Next]_vars
    PROVE  FailureExplained'
<1> USE DEF GInv, FailureExplained
<1>1. CASE OpenWindow /\ pc' = "failed" /\ fw.probeRuns
  <2>1. UNCHANGED <<fw, tier, wrapper, shim, single, unshadowed>> /\ ~Initialises(EglLibrary)
    BY <1>1 DEF OpenWindow
  <2>2. EglLibrary.loads /\ "eglGetDisplay" \in EglLibrary.exports
    BY <1>1, EglFile DEF IsEgl, Loadable, OpenWindow, Loading
  <2>3. \/ fw.wayland /\ EglLibrary.driver # "mesa"
        \/ EglLibrary.glvnd /\ ~\E d \in Dirs : /\ File(d, "EGL_mesa.0") # Absent
                                                /\ VendorLoads(d, unshadowed)
    BY <2>1, <2>2 DEF Initialises
  <2> QED
    BY <2>1, <2>3, SamePicture DEF File, VendorLoads
<1>2. CASE Over \/ UNCHANGED vars
  <2>1. UNCHANGED vars
    BY <1>2 DEF Over
  <2> QED
    BY <2>1, SamePicture DEF vars, File, VendorLoads
<1>3. CASE Tier0 \/ Tier1 \/ Tier2 \/ Tier3 \/ ShimBlob \/ ShimWrapper \/ ShimMesa \/ Unshadow
           \/ LoadGles1
  BY <1>3 DEF Tier0, Tier1, Tier2, Tier3, ShimBlob, ShimWrapper, ShimMesa, Unshadow, LoadGles1,
     Refuse
<1>4. ASSUME NEW kind \in Kinds, Call(kind)
      PROVE  FailureExplained'
  BY <1>4 DEF Call
<1>5. CASE OpenWindow /\ ~(pc' = "failed" /\ fw.probeRuns)
  BY <1>5 DEF OpenWindow
<1> QED
  BY <1>1, <1>2, <1>3, <1>4, <1>5 DEF Next

LEMMA RefusedStep ==
    ASSUME GInv, [Next]_vars
    PROVE  RefusedForCause'
<1> USE DEF GInv, RefusedForCause
<1>1. CASE ShimMesa /\ pc' = "refused" /\ fw.links
  <2> DEFINE ds == {x \in Dirs : EglAt(x)}
  <2>1. mesaDir = 0 /\ FirstDir(ds) = 0 /\ fw' = fw /\ pc = "shim" /\ tier \in {"none", "mesa"}
    BY <1>1, FirstDirs DEF ShimMesa, Refuse, TypeOK
  <2>2. \A d \in Dirs : ~EglAt(d)
    BY <2>1, FirstDirs
  <2>3. tier = "none"
    BY <2>1 DEF MesaFirst, Searching
  <2>4. \A d \in Dirs : ~BlobAt(d)
    BY <2>1, <2>3 DEF Found
  <2>5. \A d \in Dirs : \A k \in 1..3 : ~Loadable(File(d, AnyBlob[k]), "eglGetDisplay")
    BY <2>4 DEF BlobAt, Blobs, IsBlob, AnyBlob
  <2>6. AnyBlob[1] = "mali-tested" /\ AnyBlob[2] = "mali.0" /\ AnyBlob[3] = "mali.1"
    BY DEF AnyBlob
  <2>7. \A d \in Dirs : \A name \in {"mali-tested", "mali.0", "mali.1", "EGL.1"} :
           ~Loadable(File(d, name), "eglGetDisplay")
    BY <2>2, <2>5, <2>6 DEF EglAt
  <2> QED
    BY <2>1, <2>7 DEF File, Loadable
<1>2. CASE ShimMesa /\ ~(pc' = "refused" /\ fw.links)
  BY <1>2 DEF ShimMesa, Refuse
<1>3. CASE ShimBlob \/ ShimWrapper
  BY <1>3 DEF ShimBlob, ShimWrapper, Refuse
<1>4. CASE Over \/ UNCHANGED vars
  BY <1>4 DEF Over, vars, File, Loadable
<1>5. CASE Tier0 \/ Tier1 \/ Tier2 \/ Tier3 \/ Unshadow \/ OpenWindow \/ LoadGles1
  BY <1>5 DEF Tier0, Tier1, Tier2, Tier3, Unshadow, OpenWindow, LoadGles1
<1>6. ASSUME NEW kind \in Kinds, Call(kind)
      PROVE  RefusedForCause'
  BY <1>6 DEF Call
<1> QED
  BY <1>1, <1>2, <1>3, <1>4, <1>5, <1>6 DEF Next

LEMMA CopiesStep ==
    ASSUME GInv, [Next]_vars
    PROVE  CopiesOnlyIfNeeded'
<1> USE DEF GInv, CopiesOnlyIfNeeded
<1>1. CASE Unshadow
  <2>1. mesaDir # 0 => File(mesaDir, "EGL_mesa.0").vendor \in {"always", "own", "never"}
    BY <1>1, MesaDirFile, Files DEF Unshadow, MesaAt, TypeOK, Names, Library
  <2> QED
    BY <1>1, <2>1 DEF Unshadow, VendorProbed, VendorLoads, File
<1>2. CASE ShimBlob \/ ShimWrapper \/ ShimMesa
  <2>1. ~unshadowed /\ unshadowed' = unshadowed /\ pc' # "failed"
    BY <1>2 DEF ShimBlob, ShimWrapper, ShimMesa, Refuse, Found, Searching
  <2> QED
    BY <2>1
<1>3. CASE Tier0 \/ Tier1 \/ Tier2 \/ Tier3
  <2>1. ~unshadowed /\ unshadowed' = unshadowed /\ pc' # "failed"
    BY <1>3 DEF Tier0, Tier1, Tier2, Tier3, Found, Searching
  <2> QED
    BY <2>1
<1>4. CASE OpenWindow /\ pc' = "failed" /\ mesaDir # 0 /\ fw.probeRuns /\ fw.copies
  <2>1. UNCHANGED <<fw, tier, mesaDir, wrapper, shim, single, unshadowed>> /\ pc = "window"
    BY <1>4 DEF OpenWindow
  <2>2. mesaDir \in Dirs /\ File(mesaDir, "EGL_mesa.0") # Absent
    BY <2>1, <1>4, MesaDirFile DEF MesaAt
  <2>3. File(mesaDir, "EGL_mesa.0").vendor \in {"always", "own", "never"}
    BY <2>2, Files DEF TypeOK, Names, Library
  <2>4. \/ EglLibrary.driver # "mesa"
        \/ ~VendorLoads(mesaDir, unshadowed)
    <3>1. EglLibrary.loads /\ "eglGetDisplay" \in EglLibrary.exports
      BY <1>4, <2>1, EglFile DEF IsEgl, Loadable, Loading
    <3> QED
      BY <1>4, <2>1, <2>2, <3>1 DEF OpenWindow, Initialises
  <2>5. File(mesaDir, "EGL_mesa.0").vendor = "own" => unshadowed
    BY <1>4, <2>1 DEF Uncovered
  <2> QED
    BY <2>1, <2>3, <2>4, <2>5, SamePicture DEF VendorLoads, File
<1>5. CASE OpenWindow /\ ~(pc' = "failed" /\ mesaDir # 0 /\ fw.probeRuns /\ fw.copies)
  BY <1>5 DEF OpenWindow, File
<1>6. CASE LoadGles1
  BY <1>6 DEF LoadGles1, File
<1>7. CASE Over \/ UNCHANGED vars
  <2>1. UNCHANGED vars
    BY <1>7 DEF Over
  <2> QED
    BY <2>1, SamePicture DEF vars, File
<1>8. ASSUME NEW kind \in Kinds, Call(kind)
      PROVE  CopiesOnlyIfNeeded'
  BY <1>8 DEF Call, File
<1> QED
  BY <1>1, <1>2, <1>3, <1>4, <1>5, <1>6, <1>7, <1>8 DEF Next

LEMMA UncoveredStep ==
    ASSUME GInv, [Next]_vars
    PROVE  Uncovered'
<1> USE DEF GInv, Uncovered
<1>1. CASE Unshadow
  BY <1>1 DEF Unshadow, VendorProbed, VendorLoads, File
<1>2. CASE Tier0 \/ Tier1 \/ Tier2 \/ Tier3
  BY <1>2 DEF Tier0, Tier1, Tier2, Tier3
<1>3. CASE ShimBlob \/ ShimWrapper
  <2>1. mesaDir = 0 /\ mesaDir' = mesaDir
    BY <1>3 DEF ShimBlob, ShimWrapper, Refuse, MesaFirst, Searching
  <2> QED
    BY <2>1
<1>4. CASE ShimMesa
  BY <1>4 DEF ShimMesa, Refuse
<1>5. CASE OpenWindow \/ LoadGles1
  BY <1>5 DEF OpenWindow, LoadGles1, File
<1>6. CASE Over \/ UNCHANGED vars
  BY <1>6 DEF Over, vars, File
<1>7. ASSUME NEW kind \in Kinds, Call(kind)
      PROVE  Uncovered'
  BY <1>7 DEF Call, File
<1> QED
  BY <1>1, <1>2, <1>3, <1>4, <1>5, <1>6, <1>7 DEF Next

LEMMA SpecGInv == Spec => []GInv
<1>1. Init => GInv
  <2> SUFFICES ASSUME Init PROVE GInv
    OBVIOUS
  <2>1. NoWrapper \in [egl : Library \cup {Absent}, gles : Library \cup {Absent},
                      es1 : Library \cup {Absent}]
        /\ NoShim \in [Sonames -> Library \cup {Absent}]
    BY DEF NoWrapper, NoShim
  <2>2. TypeOK
    BY <2>1 DEF Init, TypeOK
  <2> QED
    BY <2>2 DEF Init, GInv, MesaFirst, Found, Searching, Linked, Loading, Drawn,
       FailureExplained, RefusedForCause, CopiesOnlyIfNeeded, Uncovered
<1>2. GInv /\ [Next]_vars => GInv'
  BY TypeStep, MesaFirstStep, FoundStep, LinkedStep, DrawnStep, FailureStep, RefusedStep, CopiesStep,
     UncoveredStep DEF GInv
<1> QED
  BY <1>1, <1>2, PTL DEF Spec

-----------------------------------------------------------------------------
(* The properties.                                                         *)

\* The variables of the search and of the loader keep their types on every device.
THEOREM StackTyped == Spec => []TypeOK
<1>1. GInv => TypeOK
  BY DEF GInv
<1> QED
  BY <1>1, SpecGInv, PTL

\* On every device where the launcher's arrangement is one of Unified, no call of the
\* game is executed by another driver than the one that owns the context.
THEOREM CallsReachOneDriver == Spec => []OneDriver
<1>1. ASSUME GInv, Unified, NEW c \in executed
      PROVE  c[2] \in {context, "dropped"}
  <2> USE DEF GInv
  <2>1. PICK kind \in Kinds : c = <<kind, Executor(kind)>>
    BY <1>1 DEF Drawn
  <2>2. /\ pc = "play" /\ pc \in Loading /\ context = EglLibrary.driver
        /\ table = IF Provider = Absent THEN "empty" ELSE Resolved
    BY <1>1 DEF Drawn, Loading
  <2>3. SUFFICES table \in {context, "empty"}
    BY <2>1 DEF Executor, Kinds
  <2>4. CASE single
    BY <2>2, <2>4 DEF Resolved
  <2>5. CASE tier = "blob" /\ Adopts(blob)
    <3>1. Resolve("mali.1") = blob /\ EglLibrary = blob
      BY <1>1, <2>2, <2>5 DEF Linked, Resolve, EglLibrary, Sonames, Adopts
    <3> QED
      BY <2>2, <2>4, <2>5, <3>1 DEF Provider, Resolved
  <2>6. CASE /\ tier = "wrapper" /\ OwnMali = Absent
             /\ Adopts(wrapper.es1) /\ wrapper.es1.driver = wrapper.egl.driver
    <3>1. Resolve("mali.1") = wrapper.es1 /\ EglLibrary = wrapper.egl
      BY <1>1, <2>2, <2>6 DEF Linked, Resolve, EglLibrary, Adopts
    <3> QED
      BY <2>2, <2>4, <2>6, <3>1 DEF Provider, Resolved
  <2> QED
    BY <1>1, <2>2, <2>4, <2>5, <2>6 DEF Unified, Linked
<1>2. GInv => OneDriver
  BY <1>1 DEF OneDriver
<1> QED
  BY <1>2, SpecGInv, PTL

\* Under a compositor a Mesa set that loads anywhere on the search path wins over every
\* blob and wrapper, and its libEGL is the one the window is asked of.
THEOREM MesaUnderCompositor == Spec => []CompositorFirst
<1>1. GInv => CompositorFirst
  <2> SUFFICES ASSUME GInv, fw.wayland, \E d \in Dirs : MesaAt(d), pc \notin {"tier0", "refused"}
               PROVE  /\ tier = "mesa"
                      /\ pc \in {"window", "gles1", "play"} => EglLibrary = File(MesaSet, "EGL.1")
    BY DEF CompositorFirst, MesaSet
  <2>1. mesaDir = MesaSet /\ mesaDir # 0 /\ tier = "mesa"
    BY Files DEF GInv, TypeOK, MesaFirst
  <2>2. IsEgl(File(mesaDir, "EGL.1"))
    BY <2>1, MesaDirFile
  <2> QED
    BY <2>1, <2>2 DEF GInv, Linked, Loading, EglLibrary, Resolve, IsEgl, Loadable
<1> QED
  BY <1>1, SpecGInv, PTL

\* With a probe that runs, the window fails only for what no preflight can see.
THEOREM FailuresExplained == Spec => []FailureExplained
<1>1. GInv => FailureExplained
  BY DEF GInv
<1> QED
  BY <1>1, SpecGInv, PTL

\* The port gives up only on a device without a candidate that loads, or without links.
THEOREM RefusalsForCause == Spec => []RefusedForCause
<1>1. GInv => RefusedForCause
  BY DEF GInv
<1> QED
  BY <1>1, SpecGInv, PTL

\* On every device the firmware's copies of the bundled libraries stay in front only where
\* they make tier 0's driver load, and its window fails over no driver they could save.
THEOREM CopiesWhereNeeded == Spec => []CopiesOnlyIfNeeded
<1>1. GInv => CopiesOnlyIfNeeded
  BY DEF GInv
<1> QED
  BY <1>1, SpecGInv, PTL
=============================================================================
