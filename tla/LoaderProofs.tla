---------------------------- MODULE LoaderProofs ----------------------------
(***************************************************************************)
(* Proofs about Loader, for every set of libraries, whatever they need,    *)
(* define and import.                                                      *)
(***************************************************************************)
EXTENDS Loader, SequenceTheorems, WellFoundedInduction, TLAPS

-----------------------------------------------------------------------------
(* Facts about numbers and sequences.                                      *)

\* A set of naturals that is not empty has a least element.
LEMMA LeastIn ==
    ASSUME NEW S, S \subseteq Nat, S # {}
    PROVE  \E n \in S : \A m \in S : n <= m
<1> DEFINE R == OpToRel(<, Nat)
<1>1. \A x, y \in Nat : x < y => <<x, y>> \in R
  BY DEF OpToRel
<1>2. IsWellFoundedOn(R, Nat)
  BY NatLessThanWellFounded
<1> HIDE DEF R
<1>3. PICK x \in S : \A y \in S : <<y, x>> \notin R
  BY <1>2, WFMin
<1>4. \A y \in S : ~(y < x)
  BY <1>1, <1>3
<1>5. \A y \in S : x <= y
  BY <1>4
<1> QED
  BY <1>5

\* The members of a sequence that grew are its old ones and the new one.
LEMMA ToSetAppend ==
    ASSUME NEW S, NEW s \in Seq(S), NEW e \in S
    PROVE  ToSet(Append(s, e)) = ToSet(s) \cup {e}
<1>1. /\ Len(s) \in Nat
      /\ DOMAIN s = 1..Len(s)
      /\ DOMAIN Append(s, e) = 1..(Len(s) + 1)
      /\ Append(s, e)[Len(s) + 1] = e
      /\ \A i \in 1..Len(s) : Append(s, e)[i] = s[i]
  BY AppendProperties, LenProperties
<1>2. 1..(Len(s) + 1) = 1..Len(s) \cup {Len(s) + 1}
  BY <1>1
<1> QED
  BY <1>1, <1>2 DEF ToSet

\* A sequence without repetitions keeps none when what it lacks is appended.
LEMMA InjectiveAppend ==
    ASSUME NEW S, NEW s \in Seq(S), NEW e \in S, IsInjective(s), e \notin ToSet(s)
    PROVE  IsInjective(Append(s, e))
<1>1. /\ Len(s) \in Nat
      /\ DOMAIN s = 1..Len(s)
      /\ DOMAIN Append(s, e) = 1..(Len(s) + 1)
      /\ Append(s, e)[Len(s) + 1] = e
      /\ \A i \in 1..Len(s) : Append(s, e)[i] = s[i]
  BY AppendProperties, LenProperties
<1>2. \A i \in 1..Len(s) : s[i] # e
  BY <1>1 DEF ToSet
<1>3. \A i \in 1..(Len(s) + 1) : i \in 1..Len(s) \/ i = Len(s) + 1
  BY <1>1
<1>4. \A i, j \in 1..Len(s) : s[i] = s[j] => i = j
  BY <1>1 DEF IsInjective
<1> QED
  BY <1>1, <1>2, <1>3, <1>4 DEF IsInjective

-----------------------------------------------------------------------------
(* Types.                                                                  *)

\* What each module is made of.
LEMMA ImageTypes ==
    ASSUME TypeOK, NEW f \in Files
    PROVE  /\ image[f].needed \in Seq(Needables)
           /\ image[f].loads \in BOOLEAN
BY ImageAssumption DEF TypeOK

\* The entry that is looked at is one of the last module's.
LEMMA EntryTypes ==
    ASSUME TypeOK, need > 0
    PROVE  Base[Entry] \in Files
<1>1. loaded # <<>> /\ loaded \in Seq(Files) /\ Len(loaded) \in Nat \ {0}
  BY EmptySeq DEF TypeOK
<1>2. loaded[Len(loaded)] \in Files
  BY <1>1, ElementOfSeq
<1> DEFINE needed == image[loaded[Len(loaded)]].needed
<1>3. needed \in Seq(Needables) /\ Len(needed) \in Nat
  BY <1>2, ImageTypes, LenProperties
<1>4. need \in Nat /\ need <= Len(needed)
  BY DEF TypeOK
<1>5. Len(needed) - need + 1 \in 1..Len(needed)
  BY <1>3, <1>4
<1>6. needed[Len(needed) - need + 1] \in Needables
  <2> HIDE DEF needed
  <2> QED
    BY <1>3, <1>5, ElementOfSeq
<1> QED
  BY <1>6, NameAssumption DEF Entry

\* A symbol is bound to the host, to a module or to nobody.
LEMMA ProviderTypes ==
    ASSUME loaded \in Seq(Files), NEW m, NEW s
    PROVE  Provider(m, s) \in Providers
<1> DEFINE having == {k \in DOMAIN loaded : loaded[k] # m /\ s \in image[loaded[k]].defines}
<1>1. having \subseteq Nat /\ \A k \in having : loaded[k] \in Files
  BY LenProperties, ElementOfSeq
<1>2. CASE having = {}
  BY <1>2 DEF Provider, Providers
<1>3. CASE having # {}
  <2>1. \E k \in having : \A j \in having : k <= j
    <3> HIDE DEF having
    <3> QED
      BY <1>1, <1>3, LeastIn
  <2>2. loaded[CHOOSE k \in having : \A j \in having : k <= j] \in Files
    BY <1>1, <2>1
  <2> QED
    BY <1>3, <2>2 DEF Provider, Providers
<1> QED
  BY <1>2, <1>3

\* While a module is linked there is one.
Linking == phase \in {"relocate", "audit", "construct"}
AtModule == phase \in {"audit", "construct"} => at > 0
Typed == TypeOK /\ AtModule

LEMMA TypedInit == Init => Typed
<1> SUFFICES ASSUME Init PROVE Typed
  OBVIOUS
<1>1. names \in Seq(Files) /\ loaded \in Seq(Files) /\ built \in Seq(Files)
  BY FileAssumption, EmptySeq DEF Init
<1>2. bound \in [Files -> [Symbols -> Providers]]
  BY DEF Init, Providers
<1>3. at \in 0..Len(loaded)
  BY DEF Init
<1> QED
  BY <1>1, <1>2, <1>3 DEF Init, Typed, TypeOK, AtModule

LEMMA TypedStep == Typed /\ [Next]_vars => Typed'
<1> SUFFICES ASSUME Typed, [Next]_vars PROVE Typed'
  OBVIOUS
<1> USE DEF Typed, AtModule
<1>0. /\ names \in Seq(Files) /\ loaded \in Seq(Files) /\ built \in Seq(Files)
      /\ Len(names) \in Nat /\ Len(loaded) \in Nat
  BY LenProperties DEF TypeOK
<1>1. CASE SkipBuiltin
  BY <1>1 DEF SkipBuiltin, TypeOK
<1>2. CASE Load
  <2>1. names[next] \in Files
    BY <1>0, <1>2, ElementOfSeq DEF Load, TypeOK
  <2>2. /\ loaded' \in Seq(Files) /\ loaded' # <<>>
        /\ Len(loaded') = Len(loaded) + 1 /\ loaded'[Len(loaded')] = names[next]
    BY <1>0, <1>2, <2>1, AppendProperties DEF Load
  <2>3. need' = Len(image'[loaded'[Len(loaded')]].needed) /\ need' \in Nat
    BY <1>2, <2>1, <2>2, ImageTypes, LenProperties DEF Load
  <2>4. at' \in 0..Len(loaded')
    BY <1>0, <1>2, <2>2 DEF Load, TypeOK
  <2> QED
    BY <1>2, <2>2, <2>3, <2>4 DEF Load, TypeOK
<1>3. CASE AddNeeded
  <2>1. names' \in Seq(Files)
    BY <1>0, <1>3, EntryTypes, AppendProperties DEF AddNeeded
  <2> QED
    BY <1>3, <2>1 DEF AddNeeded, TypeOK
<1>4. CASE LoadFails
  BY <1>4 DEF LoadFails, TypeOK
<1>5. CASE StartLinking
  BY <1>0, <1>5 DEF StartLinking, TypeOK
<1>6. CASE Relocate
  <2>1. [s \in Symbols |-> IF s \in image[Module].imports \ image[Module].odd
                          THEN Provider(Module, s) ELSE Nobody]
            \in [Symbols -> Providers]
    BY <1>0, ProviderTypes DEF Providers
  <2>2. bound' \in [Files -> [Symbols -> Providers]]
    BY <1>6, <2>1 DEF Relocate, TypeOK
  <2> QED
    BY <1>6, <2>2 DEF Relocate, TypeOK
<1>7. CASE Audit
  <2>1. Module \in Files
    BY <1>0, <1>7, ElementOfSeq DEF Audit, Module, TypeOK
  <2> QED
    BY <1>7, <2>1 DEF Audit, TypeOK
<1>8. CASE Construct
  <2>1. Module \in Files
    BY <1>0, <1>8, ElementOfSeq DEF Construct, Module, TypeOK
  <2>2. built' \in Seq(Files)
    BY <1>0, <1>8, <2>1, AppendProperties DEF Construct
  <2> QED
    BY <1>0, <1>8, <2>2 DEF Construct, TypeOK
<1>9. CASE Enter
  BY <1>9 DEF Enter, TypeOK
<1>10. CASE UNCHANGED vars
  BY <1>10 DEF vars, TypeOK, Entry
<1> QED
  BY <1>1, <1>2, <1>3, <1>4, <1>5, <1>6, <1>7, <1>8, <1>9, <1>10 DEF Next

\* The loader's state is typed.
THEOREM LoaderTyped == Spec => []TypeOK
<1>1. Typed => TypeOK
  BY DEF Typed
<1> QED
  BY TypedInit, TypedStep, <1>1, PTL DEF Spec

-----------------------------------------------------------------------------
(* Each library once.                                                      *)

\* No name is listed twice, and what is loaded stands before next in the list.
NamesOnce == IsInjective(names)
LoadedBehind ==
    /\ IsInjective(loaded)
    /\ \A k \in DOMAIN loaded : \E j \in DOMAIN names : j < next /\ names[j] = loaded[k]

\* The constructors that have run are those of the modules behind at.
BuiltBehind ==
    /\ phase = "loading" => built = <<>>
    /\ Linking => Len(built) + at = Len(loaded)
    /\ Len(built) <= Len(loaded)
    /\ \A k \in DOMAIN built : built[k] = loaded[Len(loaded) - k + 1]

Once == Typed /\ NamesOnce /\ LoadedBehind /\ BuiltBehind

\* Places counted from the end.
LEMMA NextFromEnd ==
    ASSUME NEW n \in Nat, NEW b \in Nat, NEW a \in Nat, b + a = n
    PROVE  n - (b + 1) + 1 = a
OBVIOUS

LEMMA FromEndInjective ==
    ASSUME NEW n \in Nat, NEW j \in Nat, NEW k \in Nat, n - j + 1 = n - k + 1
    PROVE  j = k
OBVIOUS

LEMMA FromEndInside ==
    ASSUME NEW n \in Nat, NEW b \in Nat, b <= n, NEW k \in 1..b
    PROVE  n - k + 1 \in 1..n
OBVIOUS

LEMMA OnceInit == Init => Once
<1> SUFFICES ASSUME Init PROVE Once
  OBVIOUS
<1>1. /\ IsInjective(names) /\ IsInjective(loaded)
      /\ DOMAIN loaded = {} /\ DOMAIN built = {} /\ Len(built) = 0 /\ Len(loaded) = 0
  BY DEF Init, IsInjective
<1> QED
  BY <1>1, TypedInit DEF Init, Once, NamesOnce, LoadedBehind, BuiltBehind, Linking

\* The module being linked has not run.
LEMMA ModuleUnbuilt ==
    ASSUME Once, Linking, at > 0
    PROVE  Module \notin ToSet(built) /\ Module \in Files
<1> USE DEF Once, Typed
<1>1. /\ loaded \in Seq(Files) /\ Len(loaded) \in Nat /\ DOMAIN loaded = 1..Len(loaded)
      /\ built \in Seq(Files) /\ Len(built) \in Nat /\ DOMAIN built = 1..Len(built)
  BY LenProperties DEF TypeOK
<1>2. at \in 1..Len(loaded) /\ Len(built) + at = Len(loaded)
  BY <1>1 DEF TypeOK, BuiltBehind
<1>3. ASSUME NEW k \in 1..Len(built), built[k] = loaded[at]
      PROVE  FALSE
  <2>1. Len(loaded) - k + 1 \in 1..Len(loaded) /\ Len(loaded) - k + 1 # at
    BY <1>1, <1>2
  <2>2. loaded[Len(loaded) - k + 1] = loaded[at]
    BY <1>1, <1>3 DEF BuiltBehind
  <2> QED
    BY <1>1, <1>2, <2>1, <2>2 DEF LoadedBehind, IsInjective
<1> QED
  BY <1>1, <1>2, <1>3, ElementOfSeq DEF Module, ToSet

LEMMA OnceStep == Once /\ [Next]_vars => Once'
<1> SUFFICES ASSUME Once, [Next]_vars PROVE NamesOnce' /\ LoadedBehind' /\ BuiltBehind'
  BY TypedStep DEF Once
<1> USE DEF Once, Typed
<1>0. /\ names \in Seq(Files) /\ Len(names) \in Nat /\ DOMAIN names = 1..Len(names)
      /\ loaded \in Seq(Files) /\ Len(loaded) \in Nat /\ DOMAIN loaded = 1..Len(loaded)
      /\ built \in Seq(Files) /\ Len(built) \in Nat /\ DOMAIN built = 1..Len(built)
      /\ next \in Nat \ {0} /\ at \in 0..Len(loaded)
  BY LenProperties DEF TypeOK
<1>1. CASE SkipBuiltin
  BY <1>0, <1>1 DEF SkipBuiltin, NamesOnce, LoadedBehind, BuiltBehind, Linking
<1>2. CASE Load
  <2>1. next \in DOMAIN names /\ names[next] \in Files
    BY <1>0, <1>2, ElementOfSeq DEF Load
  <2>2. names[next] \notin ToSet(loaded)
    BY <1>0, <2>1 DEF NamesOnce, LoadedBehind, IsInjective, ToSet
  <2>3. IsInjective(loaded')
    BY <1>0, <1>2, <2>1, <2>2, InjectiveAppend DEF Load, LoadedBehind
  <2>4. /\ DOMAIN loaded' = 1..(Len(loaded) + 1)
        /\ loaded'[Len(loaded) + 1] = names[next]
        /\ \A k \in 1..Len(loaded) : loaded'[k] = loaded[k]
    BY <1>0, <1>2, <2>1, AppendProperties, LenProperties DEF Load
  <2>5. ASSUME NEW k \in DOMAIN loaded'
        PROVE  \E j \in DOMAIN names : j < next + 1 /\ names[j] = loaded'[k]
    <3>1. CASE k = Len(loaded) + 1
      BY <1>0, <2>1, <2>4, <3>1
    <3>2. CASE k \in 1..Len(loaded)
      <4>1. PICK j \in DOMAIN names : j < next /\ names[j] = loaded[k]
        BY <1>0, <3>2 DEF LoadedBehind
      <4>2. j < next + 1
        BY <1>0, <4>1
      <4> QED
        BY <2>4, <3>2, <4>1, <4>2
    <3> QED
      BY <1>0, <2>4, <2>5, <3>1, <3>2
  <2>6. LoadedBehind'
    BY <1>0, <1>2, <2>3, <2>5 DEF Load, LoadedBehind
  <2>7. phase' = "loading" /\ built' = <<>>
    BY <1>2 DEF Load, BuiltBehind
  <2>8. BuiltBehind'
    <3>1. Len(loaded') \in Nat /\ Len(built') = 0 /\ DOMAIN built' = {}
      BY <1>0, <1>2, <2>1, <2>7, AppendProperties, LenProperties DEF Load
    <3> QED
      BY <2>7, <3>1 DEF BuiltBehind, Linking
  <2> QED
    BY <1>2, <2>6, <2>8 DEF Load, NamesOnce
<1>3. CASE AddNeeded
  <2>1. CASE Base[Entry] \in ToSet(names)
    BY <1>3, <2>1 DEF AddNeeded, NamesOnce, LoadedBehind, BuiltBehind, Linking
  <2>2. CASE Base[Entry] \notin ToSet(names)
    <3>1. Base[Entry] \in Files /\ names' = Append(names, Base[Entry])
      BY <1>3, <2>2, EntryTypes DEF AddNeeded
    <3>2. NamesOnce'
      BY <1>0, <2>2, <3>1, InjectiveAppend DEF NamesOnce
    <3>3. /\ DOMAIN names' = 1..(Len(names) + 1)
          /\ \A j \in 1..Len(names) : names'[j] = names[j]
      BY <1>0, <3>1, AppendProperties, LenProperties
    <3>4. LoadedBehind'
      <4>1. DOMAIN names \subseteq DOMAIN names'
        BY <1>0, <3>3
      <4> QED
        BY <1>0, <1>3, <3>3, <4>1 DEF AddNeeded, LoadedBehind
    <3> QED
      BY <1>3, <3>2, <3>4 DEF AddNeeded, BuiltBehind, Linking
  <2> QED
    BY <2>1, <2>2
<1>4. CASE LoadFails
  BY <1>4 DEF LoadFails, NamesOnce, LoadedBehind, BuiltBehind, Linking
<1>5. CASE StartLinking
  BY <1>0, <1>5 DEF StartLinking, NamesOnce, LoadedBehind, BuiltBehind, Linking
<1>6. CASE Relocate \/ Audit \/ Enter
  BY <1>6 DEF Relocate, Audit, Enter, NamesOnce, LoadedBehind, BuiltBehind, Linking
<1>7. CASE Construct
  <2>1. /\ Linking /\ at > 0
        /\ Module \in Files
    BY <1>7, ModuleUnbuilt DEF Construct, Linking, AtModule
  <2>2. /\ Len(built') = Len(built) + 1 /\ DOMAIN built' = 1..(Len(built) + 1)
        /\ built'[Len(built) + 1] = loaded[at]
        /\ \A k \in 1..Len(built) : built'[k] = built[k]
    BY <1>0, <1>7, <2>1, AppendProperties, LenProperties DEF Construct, Module
  <2>3. Len(built) + at = Len(loaded)
    BY <2>1 DEF BuiltBehind
  <2>4. ASSUME NEW k \in DOMAIN built'
        PROVE  built'[k] = loaded[Len(loaded) - k + 1]
    <3>1. CASE k = Len(built) + 1
      <4>1. at \in Nat /\ k = Len(built) + 1
        BY <1>0, <3>1
      <4>2. Len(loaded) - k + 1 = at
        BY <1>0, <2>3, <4>1, NextFromEnd
      <4> QED
        BY <2>2, <3>1, <4>2
    <3>2. CASE k \in 1..Len(built)
      BY <1>0, <2>2, <3>2 DEF BuiltBehind
    <3> QED
      BY <1>0, <2>2, <2>4, <3>1, <3>2
  <2>5. Len(built') + at' = Len(loaded) /\ Len(built') <= Len(loaded)
    <3>1. at' = at - 1 /\ at \in Nat /\ at > 0
      BY <1>0, <1>7, <2>1 DEF Construct
    <3> HIDE DEF Once, Typed
    <3> QED
      BY <1>0, <2>2, <2>3, <3>1
  <2> QED
    BY <1>7, <2>4, <2>5 DEF Construct, NamesOnce, LoadedBehind, BuiltBehind, Linking
<1>8. CASE UNCHANGED vars
  BY <1>8 DEF vars, NamesOnce, LoadedBehind, BuiltBehind, Linking
<1> QED
  BY <1>1, <1>2, <1>3, <1>4, <1>5, <1>6, <1>7, <1>8 DEF Next

LEMMA OnceIsEnough == Once => OnceEach
<1> SUFFICES ASSUME Once PROVE IsInjective(loaded) /\ IsInjective(built)
  BY DEF OnceEach
<1> USE DEF Once, Typed
<1>1. /\ loaded \in Seq(Files) /\ Len(loaded) \in Nat /\ DOMAIN loaded = 1..Len(loaded)
      /\ built \in Seq(Files) /\ Len(built) \in Nat /\ DOMAIN built = 1..Len(built)
  BY LenProperties DEF TypeOK
<1>2. ASSUME NEW j \in 1..Len(built), NEW k \in 1..Len(built), built[j] = built[k]
      PROVE  j = k
  <2>1. /\ Len(loaded) - j + 1 \in DOMAIN loaded /\ Len(loaded) - k + 1 \in DOMAIN loaded
        /\ loaded[Len(loaded) - j + 1] = loaded[Len(loaded) - k + 1]
    <3>1. Len(built) <= Len(loaded)
      BY DEF BuiltBehind
    <3>2. /\ Len(loaded) - j + 1 \in DOMAIN loaded
          /\ Len(loaded) - k + 1 \in DOMAIN loaded
      BY <1>1, <3>1, FromEndInside
    <3> QED
      BY <1>1, <1>2, <3>2 DEF BuiltBehind
  <2>2. Len(loaded) - j + 1 = Len(loaded) - k + 1
    BY <2>1 DEF LoadedBehind, IsInjective
  <2>3. j \in Nat /\ k \in Nat
    BY <1>1
  <2> QED
    BY <1>1, <2>2, <2>3, FromEndInjective
<1> QED
  BY <1>1, <1>2 DEF LoadedBehind, IsInjective

\* However the libraries need one another and under whatever paths, each is mapped
\* once and its constructors run once (so_load_module).
THEOREM EachOnce == Spec => []OnceEach
BY OnceInit, OnceStep, OnceIsEnough, PTL DEF Spec

-----------------------------------------------------------------------------
(* No code runs with an import bound to nothing.                           *)

\* Between the relocation of a module and its audit its imports are what
\* so_resolve_link says they are.
AuditedAsBound ==
    phase = "audit" =>
        \A s \in image[Module].imports \ image[Module].odd : s \in Symbols => bound[Module][s] = Provider(Module, s)

Bound == Once /\ KnownBound /\ AuditedAsBound

LEMMA BoundInit == Init => Bound
<1> SUFFICES ASSUME Init PROVE Bound
  OBVIOUS
<1>1. Entered = {}
  BY DEF Init, Entered, ToSet
<1> QED
  BY <1>1, OnceInit DEF Init, Bound, KnownBound, AuditedAsBound

\* A step that changes neither the bindings nor whose code has run.
LEMMA SameEntered ==
    ASSUME KnownBound, UNCHANGED <<image, bound>>, Entered' \subseteq Entered
    PROVE  KnownBound'
BY DEF KnownBound, Strong

LEMMA BoundStep == Bound /\ [Next]_vars => Bound'
<1> SUFFICES ASSUME Bound, [Next]_vars PROVE KnownBound' /\ AuditedAsBound'
  BY OnceStep DEF Bound
<1> USE DEF Bound
<1>0. /\ built \in Seq(Files) /\ bound \in [Files -> [Symbols -> Providers]]
      /\ \A f \in Files : image[f].imports \subseteq Symbols
  BY ImageAssumption DEF Once, Typed, TypeOK
<1>1. CASE SkipBuiltin \/ Load \/ AddNeeded \/ LoadFails \/ StartLinking \/ Enter
  <2>1. UNCHANGED <<image, bound>> /\ Entered' \subseteq Entered /\ phase' # "audit"
    BY <1>1 DEF SkipBuiltin, Load, AddNeeded, LoadFails, StartLinking, Enter, Entered
  <2> QED
    BY <2>1, SameEntered DEF AuditedAsBound
<1>2. CASE Relocate
  <2>1. Module \notin ToSet(built) /\ Module \in Files
    BY <1>2, ModuleUnbuilt DEF Relocate, Linking
  <2>2. Entered' = ToSet(built) /\ Entered = ToSet(built) /\ image' = image
    BY <1>2 DEF Relocate, Entered
  <2>3. \A m \in ToSet(built) : m \in Files /\ bound'[m] = bound[m]
    BY <1>0, <1>2, <2>1, ElementOfSeq, LenProperties DEF Relocate, ToSet
  <2>4. \A s \in image[Module].imports \ image[Module].odd : s \in Symbols =>
            bound'[Module][s] = Provider(Module, s)
    BY <1>0, <1>2, <2>1 DEF Relocate
  <2>5. Module' = Module /\ \A s : Provider(Module, s)' = Provider(Module, s)
    BY <1>2 DEF Relocate, Module, Provider
  <2>6. KnownBound'
    BY <2>2, <2>3 DEF KnownBound, Strong
  <2>7. AuditedAsBound'
    BY <2>2, <2>4, <2>5 DEF AuditedAsBound
  <2> QED
    BY <2>6, <2>7
<1>3. CASE Audit
  <2>1. CASE Missing(Module) # {}
    <3>1. UNCHANGED <<image, bound>> /\ Entered' \subseteq Entered /\ phase' # "audit"
      BY <1>3, <2>1 DEF Audit, Entered
    <3> QED
      BY <3>1, SameEntered DEF AuditedAsBound
  <2>2. CASE Missing(Module) = {}
    <3>1. /\ UNCHANGED <<image, bound>> /\ Module' = Module /\ phase' = "construct"
          /\ Entered' = Entered \cup {Module}
      BY <1>3, <2>2 DEF Audit, Entered, Module
    <3>2. Module \in Files
      BY <1>3, ModuleUnbuilt DEF Audit, Linking, Once, Typed, AtModule
    <3>3. \A s \in Strong(Module) \ image[Module].odd : bound[Module][s] # Nobody
      BY <1>0, <1>3, <2>2, <3>2 DEF Audit, Missing, Strong, AuditedAsBound
    <3> QED
      BY <3>1, <3>3 DEF KnownBound, Strong, AuditedAsBound
  <2> QED
    BY <2>1, <2>2
<1>4. CASE Construct
  <2>1. Module \in Files
    BY <1>4, ModuleUnbuilt DEF Construct, Linking, Once, Typed, AtModule
  <2>2. ToSet(built') = ToSet(built) \cup {Module}
    BY <1>0, <1>4, <2>1, ToSetAppend DEF Construct
  <2>3. UNCHANGED <<image, bound>> /\ Entered' \subseteq Entered /\ phase' # "audit"
    BY <1>4, <2>2 DEF Construct, Entered
  <2> QED
    BY <2>3, SameEntered DEF AuditedAsBound
<1>5. CASE UNCHANGED vars
  BY <1>5 DEF vars, KnownBound, Strong, AuditedAsBound, Entered, Module, Provider
<1> QED
  BY <1>1, <1>2, <1>3, <1>4, <1>5 DEF Next

\* Whatever the libraries import, no constructor runs while an import of its module
\* that is not weak, and whose relocation so_relocate_rel knows, is bound to nothing
\* (so_after_relocate comes first).
THEOREM CodeRunsBound == Spec => []KnownBound
<1>1. Bound => KnownBound
  BY DEF Bound
<1> QED
  BY BoundInit, BoundStep, <1>1, PTL DEF Spec

-----------------------------------------------------------------------------
(* What a library needs is constructed before it.                          *)

\* l gives the libraries at each distance from the game.
Distances(l) == l[0] = {Root} /\ \A k \in Nat : l[k + 1] = UNION {Needs(f) : f \in l[k]}

\* What a library needs is a library.
LEMMA NeedsTypes ==
    ASSUME TypeOK, NEW f \in Files
    PROVE  Needs(f) \subseteq Files
<1>1. ToSet(image[f].needed) \subseteq Needables
  BY ImageTypes, ElementOfSeq, LenProperties DEF ToSet
<1> QED
  BY <1>1, NameAssumption DEF Needs

\* The recursive function Level exists: a library is at distance k when a chain of
\* k needs leads to it.
LEMMA LevelDistances == TypeOK => Distances(Level)
<1> SUFFICES ASSUME TypeOK PROVE Distances(Level)
  OBVIOUS
<1> DEFINE Chain(p, k) == /\ p \in [0..k -> Files] /\ p[0] = Root
                          /\ \A i \in 0..(k - 1) : p[i + 1] \in Needs(p[i])
           ends == [k \in Nat |-> {g \in Files : \E p : Chain(p, k) /\ p[k] = g}]
           Rec(l) == l = [k \in Nat |-> IF k = 0 THEN {Root} ELSE UNION {Needs(f) : f \in l[k - 1]}]
           iter == CHOOSE l : Rec(l)
<1>1. ends[0] = {Root}
  <2>1. Chain([i \in 0..0 |-> Root], 0)
    BY FileAssumption
  <2>2. \A p : Chain(p, 0) => p[0] = Root
    OBVIOUS
  <2> HIDE DEF Chain
  <2> QED
    BY <2>1, <2>2, FileAssumption
<1>2. ASSUME NEW k \in Nat \ {0}, NEW g \in ends[k]
      PROVE  \E f \in ends[k - 1] : g \in Needs(f)
  <2>1. PICK p : Chain(p, k) /\ p[k] = g
    BY <1>2
  <2> DEFINE q == [i \in 0..(k - 1) |-> p[i]]
  <2>2. Chain(q, k - 1) /\ q[k - 1] = p[k - 1] /\ p[k - 1] \in Files
    BY <2>1
  <2>3. g \in Needs(p[k - 1])
    BY <2>1
  <2>4. p[k - 1] \in ends[k - 1]
    <3> HIDE DEF Chain, q
    <3> QED
      BY <2>2
  <2> QED
    BY <2>3, <2>4
<1>3. ASSUME NEW k \in Nat \ {0}, NEW f \in ends[k - 1], NEW g \in Needs(f)
      PROVE  g \in ends[k]
  <2>1. PICK p : Chain(p, k - 1) /\ p[k - 1] = f
    BY <1>3
  <2> DEFINE q == [i \in 0..k |-> IF i = k THEN g ELSE p[i]]
  <2>2. g \in Files
    BY <1>3, NeedsTypes
  <2>3. \A i \in 0..(k - 1) : q[i] = p[i] /\ p[i] \in Files
    BY <2>1
  <2>4. q[k] = g /\ q \in [0..k -> Files] /\ q[0] = Root
    BY <2>1, <2>2, <2>3
  <2>5. ASSUME NEW i \in 0..(k - 1) PROVE q[i + 1] \in Needs(q[i])
    <3>1. CASE i = k - 1
      BY <1>3, <2>1, <2>3, <2>4, <3>1
    <3>2. CASE i # k - 1
      <4>1. i \in 0..(k - 2) /\ i + 1 \in 0..(k - 1)
        BY <3>2
      <4> HIDE DEF q
      <4> QED
        BY <2>1, <2>3, <4>1
    <3> QED
      BY <3>1, <3>2
  <2>6. Chain(q, k)
    <3> HIDE DEF q
    <3> QED
      BY <2>4, <2>5
  <2> HIDE DEF Chain, q
  <2> QED
    BY <2>2, <2>4, <2>6
<1> HIDE DEF Chain
<1>4. DOMAIN ends = Nat /\ ends = [k \in Nat |-> ends[k]]
  OBVIOUS
<1> HIDE DEF ends
<1>5. \A k \in Nat : ends[k] = IF k = 0 THEN {Root} ELSE UNION {Needs(f) : f \in ends[k - 1]}
  <2>1. ASSUME NEW k \in Nat \ {0}
        PROVE  ends[k] = UNION {Needs(f) : f \in ends[k - 1]}
    <3>1. \A g : g \in ends[k] <=> \E f \in ends[k - 1] : g \in Needs(f)
      BY <1>2, <1>3
    <3> QED
      BY <3>1
  <2> QED
    BY <1>1, <2>1
<1>6. Rec(ends)
  BY <1>4, <1>5
<1>7. Rec(iter)
  <2> HIDE DEF Rec
  <2> QED
    BY <1>6
<1>8. Level = iter
  BY DEF Level
<1>9. \A k \in Nat : iter[k] = IF k = 0 THEN {Root} ELSE UNION {Needs(f) : f \in iter[k - 1]}
  <2> HIDE DEF iter
  <2> QED
    BY <1>7
<1> HIDE DEF iter
<1>10. ASSUME NEW k \in Nat PROVE iter[k + 1] = UNION {Needs(f) : f \in iter[k]}
  <2>1. k + 1 \in Nat /\ k + 1 # 0 /\ (k + 1) - 1 = k
    OBVIOUS
  <2> QED
    BY <1>9, <2>1
<1> QED
  BY <1>8, <1>9, <1>10 DEF Distances

\* What the loader answers is not mapped; what else was met and passed is.
NoneBuiltin == \A k \in DOMAIN loaded : loaded[k] \notin Builtin
Passed ==
    /\ next <= Len(names) + 1
    /\ \A i \in DOMAIN names :
         i < next /\ names[i] \notin Builtin => names[i] \in ToSet(loaded)

\* What a mapped library needs was met, but for the entries of the last one that
\* are still to be looked at; when linking starts all of it is mapped.
Met == \A k \in DOMAIN loaded : \A j \in DOMAIN image[loaded[k]].needed :
         \/ Base[image[loaded[k]].needed[j]] \in ToSet(names)
         \/ k = Len(loaded) /\ j > Len(image[loaded[k]].needed) - need
Closed == Linking => \A f \in ToSet(loaded) : Needs(f) \subseteq ToSet(loaded)

Reached == Once /\ NoneBuiltin /\ Passed /\ Met /\ Closed

LEMMA ReachedInit == Init => Reached
<1> SUFFICES ASSUME Init PROVE Reached
  OBVIOUS
<1>1. DOMAIN loaded = {} /\ DOMAIN names = {1}
  BY DEF Init
<1> QED
  BY <1>1, OnceInit DEF Init, Reached, NoneBuiltin, Passed, Met, Closed, Linking

LEMMA SequenceFacts ==
    ASSUME TypeOK
    PROVE  /\ names \in Seq(Files) /\ Len(names) \in Nat /\ DOMAIN names = 1..Len(names)
           /\ loaded \in Seq(Files) /\ Len(loaded) \in Nat /\ DOMAIN loaded = 1..Len(loaded)
           /\ built \in Seq(Files) /\ Len(built) \in Nat /\ DOMAIN built = 1..Len(built)
           /\ \A k \in DOMAIN loaded :
                 /\ loaded[k] \in Files
                 /\ image[loaded[k]].needed \in Seq(Needables)
                 /\ Len(image[loaded[k]].needed) \in Nat
                 /\ DOMAIN image[loaded[k]].needed = 1..Len(image[loaded[k]].needed)
           /\ \A i \in DOMAIN names : names[i] \in Files
           /\ next \in Nat \ {0} /\ need \in Nat /\ at \in 0..Len(loaded)
<1>1. names \in Seq(Files) /\ loaded \in Seq(Files) /\ built \in Seq(Files)
  BY DEF TypeOK
<1>2. \A k \in DOMAIN loaded : loaded[k] \in Files
  BY <1>1, ElementOfSeq, LenProperties
<1>3. \A i \in DOMAIN names : names[i] \in Files
  BY <1>1, ElementOfSeq, LenProperties
<1>4. \A f \in Files : /\ image[f].needed \in Seq(Needables)
                       /\ Len(image[f].needed) \in Nat
                       /\ DOMAIN image[f].needed = 1..Len(image[f].needed)
  BY ImageTypes, LenProperties
<1>5. next \in Nat \ {0} /\ need \in Nat /\ at \in 0..Len(loaded)
  BY DEF TypeOK
<1> QED
  BY <1>1, <1>2, <1>3, <1>4, <1>5, LenProperties

LEMMA ReachedStep == Reached /\ [Next]_vars => Reached'
<1> SUFFICES ASSUME Reached, [Next]_vars PROVE NoneBuiltin' /\ Passed' /\ Met' /\ Closed'
  BY OnceStep DEF Reached
<1>0. TypeOK
  BY DEF Reached, Once, Typed
<1> USE DEF Reached
<1>1. CASE SkipBuiltin
  <2>1. Passed'
    BY <1>0, <1>1, SequenceFacts DEF SkipBuiltin, Passed
  <2> QED
    BY <1>1, <2>1 DEF SkipBuiltin, NoneBuiltin, Met, Closed, Linking
<1>2. CASE Load
  <2>1. next \in DOMAIN names /\ names[next] \in Files
    BY <1>0, <1>2, SequenceFacts DEF Load
  <2>2. /\ DOMAIN loaded' = 1..(Len(loaded) + 1) /\ Len(loaded') = Len(loaded) + 1
        /\ loaded'[Len(loaded) + 1] = names[next]
        /\ \A k \in 1..Len(loaded) : loaded'[k] = loaded[k]
        /\ ToSet(loaded') = ToSet(loaded) \cup {names[next]}
    BY <1>0, <1>2, <2>1, SequenceFacts, AppendProperties, LenProperties, ToSetAppend DEF Load
  <2>3. NoneBuiltin'
    BY <1>0, <1>2, <2>2, SequenceFacts DEF Load, NoneBuiltin
  <2>4. Passed'
    BY <1>0, <1>2, <2>2, SequenceFacts DEF Load, Passed
  <2>5. ASSUME NEW k \in DOMAIN loaded', NEW j \in DOMAIN image[loaded'[k]].needed
        PROVE  \/ Base[image[loaded'[k]].needed[j]] \in ToSet(names)
               \/ k = Len(loaded') /\ j > Len(image[loaded'[k]].needed) - need'
    <3>1. CASE k = Len(loaded) + 1
      <4>1. need' = Len(image[loaded'[k]].needed) /\ image[loaded'[k]].needed \in Seq(Needables)
        BY <1>0, <1>2, <2>1, <2>2, <3>1, ImageTypes DEF Load
      <4>2. Len(image[loaded'[k]].needed) \in Nat /\ j \in 1..Len(image[loaded'[k]].needed)
        BY <2>5, <4>1, LenProperties
      <4>3. \A n \in Nat : \A i \in 1..n : i > n - n
        OBVIOUS
      <4>4. j > Len(image[loaded'[k]].needed) - need'
        BY <4>1, <4>2, <4>3
      <4> QED
        BY <2>2, <3>1, <4>4
    <3>2. CASE k \in 1..Len(loaded)
      <4>1. need = 0 /\ loaded'[k] = loaded[k] /\ k \in DOMAIN loaded
        BY <1>0, <1>2, <2>2, <3>2, SequenceFacts DEF Load
      <4>2. /\ Len(image[loaded[k]].needed) \in Nat
            /\ j \in 1..Len(image[loaded[k]].needed)
        BY <1>0, <2>5, <4>1, SequenceFacts
      <4>3. \A n \in Nat : \A i \in 1..n : ~(i > n - 0)
        OBVIOUS
      <4>4. ~(j > Len(image[loaded[k]].needed) - need)
        BY <4>1, <4>2, <4>3
      <4> QED
        BY <2>5, <4>1, <4>4 DEF Met
    <3> QED
      BY <1>0, <2>2, <3>1, <3>2, SequenceFacts
  <2>6. Met'
    BY <1>2, <2>5 DEF Load, Met
  <2> QED
    BY <1>2, <2>3, <2>4, <2>6 DEF Load, Closed, Linking
<1>3. CASE AddNeeded
  <2>1. /\ Base[Entry] \in Files /\ UNCHANGED <<image, loaded, next>>
        /\ need' = need - 1 /\ need > 0
        /\ ToSet(names') = ToSet(names) \cup {Base[Entry]}
    BY <1>0, <1>3, EntryTypes, SequenceFacts, ToSetAppend DEF AddNeeded
  <2>2. Passed'
    <3>1. \A i \in DOMAIN names' : i < next /\ names'[i] \notin Builtin => names'[i] \in ToSet(loaded)
      <4>1. CASE Base[Entry] \in ToSet(names)
        BY <1>3, <4>1 DEF AddNeeded, Passed
      <4>2. CASE Base[Entry] \notin ToSet(names)
        <5>1. /\ DOMAIN names' = 1..(Len(names) + 1)
              /\ \A i \in 1..Len(names) : names'[i] = names[i]
          BY <1>0, <1>3, <2>1, <4>2, SequenceFacts, AppendProperties, LenProperties DEF AddNeeded
        <5>2. next <= Len(names) + 1
          BY DEF Passed
        <5> QED
          BY <1>0, <5>1, <5>2, SequenceFacts DEF Passed
      <4> QED
        BY <4>1, <4>2
    <3>2. next <= Len(names') + 1
      <4>1. Len(names') = Len(names) \/ Len(names') = Len(names) + 1
        BY <1>0, <1>3, <2>1, SequenceFacts, AppendProperties DEF AddNeeded
      <4>2. next <= Len(names) + 1
        BY DEF Passed
      <4> QED
        BY <1>0, <4>1, <4>2, SequenceFacts
    <3> QED
      BY <2>1, <3>1, <3>2 DEF Passed
  <2>3. ASSUME NEW k \in DOMAIN loaded, NEW j \in DOMAIN image[loaded[k]].needed
        PROVE  \/ Base[image[loaded[k]].needed[j]] \in ToSet(names')
               \/ k = Len(loaded) /\ j > Len(image[loaded[k]].needed) - (need - 1)
    <3>1. CASE k = Len(loaded) /\ j = Len(image[loaded[k]].needed) - need + 1
      BY <2>1, <3>1 DEF Entry
    <3>2. CASE ~(k = Len(loaded) /\ j = Len(image[loaded[k]].needed) - need + 1)
      <4>1. \/ Base[image[loaded[k]].needed[j]] \in ToSet(names)
            \/ k = Len(loaded) /\ j > Len(image[loaded[k]].needed) - need
        BY <2>3 DEF Met
      <4>2. /\ Len(image[loaded[k]].needed) \in Nat /\ need \in Nat
            /\ j \in 1..Len(image[loaded[k]].needed)
        BY <1>0, <2>3, SequenceFacts
      <4>3. \A n, d \in Nat : \A i \in 1..n : i > n - d /\ i # n - d + 1 => i > n - (d - 1)
        OBVIOUS
      <4>4. CASE k = Len(loaded) /\ j > Len(image[loaded[k]].needed) - need
        BY <3>2, <4>2, <4>3, <4>4
      <4> QED
        BY <2>1, <4>1, <4>4
    <3> QED
      BY <3>1, <3>2
  <2>4. Met'
    BY <2>1, <2>3 DEF Met
  <2> QED
    BY <1>3, <2>1, <2>2, <2>4 DEF AddNeeded, NoneBuiltin, Closed, Linking
<1>4. CASE LoadFails
  BY <1>4 DEF LoadFails, NoneBuiltin, Passed, Met, Closed, Linking
<1>5. CASE StartLinking
  <2>1. need = 0 /\ next > Len(names) /\ UNCHANGED <<image, loaded>>
    BY <1>5 DEF StartLinking
  <2>2. ASSUME NEW f \in ToSet(loaded), NEW g \in Needs(f)
        PROVE  g \in ToSet(loaded)
    <3>1. PICK k \in DOMAIN loaded : f = loaded[k]
      BY <2>2 DEF ToSet
    <3>2. PICK j \in DOMAIN image[f].needed : g = Base[image[f].needed[j]] /\ g \notin Builtin
      BY <2>2 DEF Needs, ToSet
    <3>3. ~(j > Len(image[f].needed) - need)
      BY <1>0, <2>1, <3>1, <3>2, SequenceFacts
    <3>4. g \in ToSet(names)
      BY <3>1, <3>2, <3>3 DEF Met
    <3>5. PICK i \in DOMAIN names : g = names[i]
      BY <3>4 DEF ToSet
    <3>6. i < next
      BY <1>0, <2>1, <3>5, SequenceFacts
    <3> QED
      BY <3>2, <3>5, <3>6 DEF Passed
  <2>3. Closed'
    BY <2>1, <2>2 DEF Closed, Needs
  <2> QED
    BY <1>5, <2>3 DEF StartLinking, NoneBuiltin, Passed, Met
<1>6. CASE Relocate \/ Audit \/ Construct \/ Enter
  <2>1. UNCHANGED <<image, names, next, need, loaded>> /\ (Linking' => Linking)
    BY <1>6 DEF Relocate, Audit, Construct, Enter, Linking
  <2> QED
    BY <2>1 DEF NoneBuiltin, Passed, Met, Closed, Needs
<1>7. CASE UNCHANGED vars
  BY <1>7 DEF vars, NoneBuiltin, Passed, Met, Closed, Needs, Linking
<1> QED
  BY <1>1, <1>2, <1>3, <1>4, <1>5, <1>6, <1>7 DEF Next

\* d gives each library that was met a distance at which it is: none is further than
\* one from the last mapped, and the list of names and that of modules go outwards.
Latest == loaded[Len(loaded)]

Queued(d) ==
    /\ \A i, j \in DOMAIN names : i <= j => d[names[i]] <= d[names[j]]
    /\ \A i \in DOMAIN names :
         IF loaded = <<>> THEN d[names[i]] = 0 ELSE d[names[i]] <= d[Latest] + 1
    /\ \A i \in DOMAIN names : names[i] \notin Builtin =>
         \A l : Distances(l) => names[i] \in l[d[names[i]]]

Mapped(d) ==
    /\ \A j, k \in DOMAIN loaded : j <= k => d[loaded[j]] <= d[loaded[k]]
    /\ \A k \in DOMAIN loaded : d[loaded[k]] < k

Outwards == \E d \in [Files -> Nat] : Queued(d) /\ Mapped(d)

Ordered == Reached /\ Outwards

LEMMA OrderedInit == Init => Ordered
<1> SUFFICES ASSUME Init PROVE Ordered
  OBVIOUS
<1> DEFINE d == [f \in Files |-> 0]
<1>1. /\ d \in [Files -> Nat] /\ d[Root] = 0
      /\ DOMAIN names = {1} /\ names[1] = Root /\ loaded = <<>> /\ DOMAIN loaded = {}
  BY FileAssumption DEF Init
<1> HIDE DEF d
<1>2. Queued(d) /\ Mapped(d)
  BY <1>1 DEF Queued, Mapped, Distances
<1> QED
  BY <1>1, <1>2, ReachedInit DEF Ordered, Outwards

\* The next library is mapped: it is no nearer than the last one.
LEMMA LoadOutwards ==
    ASSUME Ordered, Load
    PROVE  Outwards'
<1>0. TypeOK
  BY DEF Ordered, Reached, Once, Typed
<1>1. PICK d \in [Files -> Nat] : Queued(d) /\ Mapped(d)
  BY DEF Ordered, Outwards
<1>2. /\ next \in DOMAIN names /\ names[next] \in Files
      /\ UNCHANGED <<image, names>>
  BY <1>0, SequenceFacts DEF Load
<1>3. /\ DOMAIN loaded' = 1..(Len(loaded) + 1) /\ Len(loaded') = Len(loaded) + 1
      /\ Latest' = names[next] /\ loaded'[Len(loaded) + 1] = names[next] /\ loaded' # <<>>
      /\ \A k \in 1..Len(loaded) : loaded'[k] = loaded[k]
  <2>1. /\ loaded' = Append(loaded, names[next]) /\ loaded \in Seq(Files)
        /\ Len(loaded) \in Nat
    BY <1>0, SequenceFacts DEF Load
  <2>2. /\ loaded' \in Seq(Files) /\ loaded' # <<>> /\ Len(loaded') = Len(loaded) + 1
        /\ loaded'[Len(loaded) + 1] = names[next]
        /\ \A k \in 1..Len(loaded) : loaded'[k] = loaded[k]
    BY <1>2, <2>1, AppendProperties
  <2>3. DOMAIN loaded' = 1..(Len(loaded) + 1)
    BY <2>2, LenProperties
  <2> QED
    BY <2>1, <2>2, <2>3 DEF Latest
<1>4. \A k \in DOMAIN loaded : d[loaded[k]] <= d[names[next]]
  <2>1. ASSUME NEW k \in DOMAIN loaded
        PROVE  d[loaded[k]] <= d[names[next]]
    <3>1. PICK i \in DOMAIN names : i < next /\ names[i] = loaded[k]
      BY DEF Ordered, Reached, Once, LoadedBehind
    <3>2. i <= next
      BY <1>0, <3>1, SequenceFacts
    <3> QED
      BY <1>1, <1>2, <3>1, <3>2 DEF Queued
  <2> QED
    BY <2>1
<1>5. \A f \in Files : d[f] \in Nat
  BY <1>1
<1>6. d[names[next]] < Len(loaded) + 1
  <2>1. CASE loaded = <<>>
    BY <1>0, <1>1, <1>2, <2>1, SequenceFacts DEF Queued
  <2>2. CASE loaded # <<>>
    <3>1. Len(loaded) \in DOMAIN loaded
      BY <1>0, <2>2, SequenceFacts, EmptySeq
    <3>2. d[Latest] < Len(loaded) /\ Latest \in Files
      BY <1>0, <1>1, <3>1, SequenceFacts DEF Mapped, Latest
    <3>3. d[names[next]] <= d[Latest] + 1
      BY <1>1, <1>2, <2>2 DEF Queued
    <3> QED
      BY <1>0, <1>2, <1>5, <3>2, <3>3, SequenceFacts
  <2> QED
    BY <2>1, <2>2
<1>7. \A i \in DOMAIN names : d[names[i]] <= d[names[next]] + 1
  <2>1. CASE loaded = <<>>
    BY <1>0, <1>1, <1>2, <1>5, <2>1, SequenceFacts DEF Queued
  <2>2. CASE loaded # <<>>
    <3>1. Len(loaded) \in DOMAIN loaded
      BY <1>0, <2>2, SequenceFacts, EmptySeq
    <3>2. d[Latest] <= d[names[next]] /\ Latest \in Files
      BY <1>0, <1>4, <3>1, SequenceFacts DEF Latest
    <3>3. \A i \in DOMAIN names : d[names[i]] <= d[Latest] + 1
      BY <1>1, <2>2 DEF Queued
    <3> QED
      BY <1>0, <1>2, <1>5, <3>2, <3>3, SequenceFacts
  <2> QED
    BY <2>1, <2>2
<1>8. \A l : Distances(l)' <=> Distances(l)
  BY <1>2 DEF Distances, Needs
<1>9. Queued(d)'
  BY <1>1, <1>2, <1>3, <1>7, <1>8 DEF Queued
<1>10. \A j, k \in DOMAIN loaded' : j <= k => d[loaded'[j]] <= d[loaded'[k]]
  <2>1. ASSUME NEW j \in DOMAIN loaded', NEW k \in DOMAIN loaded', j <= k
        PROVE  d[loaded'[j]] <= d[loaded'[k]]
    <3>1. CASE k \in 1..Len(loaded)
      <4>1. /\ j \in DOMAIN loaded /\ k \in DOMAIN loaded
            /\ loaded'[j] = loaded[j] /\ loaded'[k] = loaded[k]
        BY <1>0, <1>3, <2>1, <3>1, SequenceFacts
      <4> QED
        BY <1>1, <2>1, <4>1 DEF Mapped
    <3>2. CASE k = Len(loaded) + 1 /\ j \in 1..Len(loaded)
      BY <1>0, <1>3, <1>4, <3>2, SequenceFacts
    <3>3. CASE k = Len(loaded) + 1 /\ j = Len(loaded) + 1
      BY <1>2, <1>3, <1>5, <3>3
    <3>4. /\ j \in 1..Len(loaded) \/ j = Len(loaded) + 1
          /\ k \in 1..Len(loaded) \/ k = Len(loaded) + 1
      BY <1>0, <1>3, <2>1, SequenceFacts
    <3>5. CASE k \in 1..Len(loaded) \/ j \in 1..Len(loaded)
      BY <3>1, <3>2, <3>4, <3>5
    <3> QED
      BY <3>3, <3>4, <3>5
  <2> QED
    BY <2>1
<1>11. \A k \in DOMAIN loaded' : d[loaded'[k]] < k
  <2>1. ASSUME NEW k \in DOMAIN loaded'
        PROVE  d[loaded'[k]] < k
    <3>1. CASE k \in 1..Len(loaded)
      BY <1>0, <1>1, <1>3, <3>1, SequenceFacts DEF Mapped
    <3>2. CASE k = Len(loaded) + 1
      BY <1>3, <1>6, <3>2
    <3> QED
      BY <1>0, <1>3, <2>1, <3>1, <3>2, SequenceFacts
  <2> QED
    BY <2>1
<1>12. Mapped(d)'
  BY <1>10, <1>11 DEF Mapped
<1> QED
  BY <1>1, <1>9, <1>12 DEF Outwards

\* A library that is met first now is one further than the one that needs it.
LEMMA AddOutwards ==
    ASSUME Ordered, AddNeeded
    PROVE  Outwards'
<1>0. TypeOK
  BY DEF Ordered, Reached, Once, Typed
<1>1. PICK d \in [Files -> Nat] : Queued(d) /\ Mapped(d)
  BY DEF Ordered, Outwards
<1>2. UNCHANGED <<image, loaded>> /\ Base[Entry] \in Files /\ need > 0
  BY <1>0, EntryTypes DEF AddNeeded
<1>3. \A l : Distances(l)' <=> Distances(l)
  BY <1>2 DEF Distances, Needs
<1>4. CASE Base[Entry] \in ToSet(names)
  <2>1. names' = names
    BY <1>4 DEF AddNeeded
  <2>2. Queued(d)' /\ Mapped(d)'
    BY <1>1, <1>2, <1>3, <2>1 DEF Queued, Mapped, Latest
  <2> QED
    BY <1>1, <2>2 DEF Outwards
<1>5. CASE Base[Entry] \notin ToSet(names)
  <2>0. PICK g \in Files : g = Base[Entry]
    BY <1>2
  <2>1. /\ loaded # <<>> /\ Len(loaded) \in DOMAIN loaded /\ Latest \in Files
    BY <1>0, <1>2, SequenceFacts, EmptySeq DEF TypeOK, Latest
  <2>2. /\ DOMAIN names' = 1..(Len(names) + 1)
        /\ names'[Len(names) + 1] = g
        /\ \A i \in 1..Len(names) : names'[i] = names[i]
    BY <1>0, <1>2, <1>5, <2>0, SequenceFacts, AppendProperties, LenProperties DEF AddNeeded
  <2>3. \A f \in Files : d[f] \in Nat
    BY <1>1
  <2>4. PICK e \in [Files -> Nat] :
          e[g] = d[Latest] + 1 /\ \A f \in Files : f # g => e[f] = d[f]
    <3> DEFINE c == [d EXCEPT ![g] = d[Latest] + 1]
    <3>1. /\ c \in [Files -> Nat] /\ c[g] = d[Latest] + 1
          /\ \A f \in Files : f # g => c[f] = d[f]
      BY <1>1, <2>0, <2>1, <2>3
    <3> QED
      BY <3>1
  <2>5. \A i \in DOMAIN names : names[i] \in Files /\ names[i] # g /\ e[names[i]] = d[names[i]]
    BY <1>0, <1>5, <2>0, <2>4, SequenceFacts DEF ToSet
  <2>6. \A k \in DOMAIN loaded : loaded[k] \in Files /\ e[loaded[k]] = d[loaded[k]]
    <3>1. ASSUME NEW k \in DOMAIN loaded
          PROVE  \E i \in DOMAIN names : names[i] = loaded[k]
      BY DEF Ordered, Reached, Once, LoadedBehind
    <3> QED
      BY <2>5, <3>1
  <2>7. e[Latest] = d[Latest]
    BY <2>1, <2>6 DEF Latest
  <2>8. \A l : Distances(l) /\ g \notin Builtin => g \in l[e[g]]
    <3>1. ASSUME NEW l, Distances(l), g \notin Builtin
          PROVE  g \in l[d[Latest] + 1]
      <4>1. g \in Needs(Latest)
        <5>1. Len(image[Latest].needed) - need + 1 \in DOMAIN image[Latest].needed
          <6>1. /\ Len(image[Latest].needed) \in Nat /\ need \in Nat
                /\ DOMAIN image[Latest].needed = 1..Len(image[Latest].needed)
            BY <1>0, <2>1, SequenceFacts DEF Latest
          <6>2. need <= Len(image[Latest].needed)
            BY <1>0, <1>2 DEF TypeOK, Latest
          <6>3. \A n, m \in Nat : m > 0 /\ m <= n => n - m + 1 \in 1..n
            OBVIOUS
          <6> QED
            BY <1>2, <6>1, <6>2, <6>3
        <5> QED
          BY <2>0, <3>1, <5>1 DEF Needs, ToSet, Entry, Latest
      <4>2. Latest \in l[d[Latest]]
        <5>1. PICK i \in DOMAIN names : names[i] = Latest
          BY <2>1 DEF Ordered, Reached, Once, LoadedBehind, Latest
        <5>2. Latest \notin Builtin
          BY <2>1 DEF Ordered, Reached, NoneBuiltin, Latest
        <5> QED
          BY <1>1, <3>1, <5>1, <5>2 DEF Queued
      <4>3. l[d[Latest] + 1] = UNION {Needs(f) : f \in l[d[Latest]]}
        BY <2>1, <2>3, <3>1 DEF Distances
      <4> QED
        BY <4>1, <4>2, <4>3
    <3> QED
      BY <2>4, <3>1
  <2>9. \A i \in DOMAIN names : e[names[i]] <= e[g]
    BY <1>1, <2>1, <2>4, <2>5 DEF Queued
  <2>10. \A i, j \in DOMAIN names' : i <= j => e[names'[i]] <= e[names'[j]]
    <3>1. ASSUME NEW i \in DOMAIN names', NEW j \in DOMAIN names', i <= j
          PROVE  e[names'[i]] <= e[names'[j]]
      <4>1. CASE j \in 1..Len(names)
        <5>1. i \in DOMAIN names /\ j \in DOMAIN names
          BY <1>0, <2>2, <3>1, <4>1, SequenceFacts
        <5>2. d[names[i]] <= d[names[j]]
          BY <1>1, <3>1, <5>1 DEF Queued
        <5> QED
          BY <1>0, <2>2, <2>5, <5>1, <5>2, SequenceFacts
      <4>2. CASE j = Len(names) + 1 /\ i \in 1..Len(names)
        BY <1>0, <2>2, <2>9, <4>2, SequenceFacts
      <4>3. CASE j = Len(names) + 1 /\ i = Len(names) + 1
        BY <2>1, <2>2, <2>3, <2>4, <4>3
      <4>4. /\ i \in 1..Len(names) \/ i = Len(names) + 1
            /\ j \in 1..Len(names) \/ j = Len(names) + 1
        <5>1. \A n \in Nat : \A c \in 1..(n + 1) : c \in 1..n \/ c = n + 1
          OBVIOUS
        <5>2. Len(names) \in Nat
          BY <1>0, SequenceFacts
        <5> QED
          BY <2>2, <3>1, <5>1, <5>2
      <4> QED
        BY <4>1, <4>2, <4>3, <4>4
    <3> QED
      BY <3>1
  <2>11. ASSUME NEW i \in DOMAIN names'
         PROVE  /\ e[names'[i]] <= e[Latest] + 1
                /\ \A l : Distances(l) /\ names'[i] \notin Builtin => names'[i] \in l[e[names'[i]]]
    <3>1. CASE i \in 1..Len(names)
      <4>1. i \in DOMAIN names /\ names'[i] = names[i] /\ e[names'[i]] = d[names[i]]
        BY <1>0, <2>2, <2>5, <3>1, SequenceFacts
      <4>2. d[names[i]] <= d[Latest] + 1
        BY <1>1, <2>1, <4>1 DEF Queued
      <4>3. \A l : Distances(l) /\ names[i] \notin Builtin => names[i] \in l[d[names[i]]]
        BY <1>1, <4>1 DEF Queued
      <4> QED
        BY <2>7, <4>1, <4>2, <4>3
    <3>2. CASE i = Len(names) + 1
      <4>1. names'[i] = g /\ e[g] <= e[Latest] + 1
        BY <2>1, <2>2, <2>3, <2>4, <2>7, <3>2
      <4> QED
        BY <2>8, <4>1
    <3>3. \A n \in Nat : \A c \in 1..(n + 1) : c \in 1..n \/ c = n + 1
      OBVIOUS
    <3>4. Len(names) \in Nat
      BY <1>0, SequenceFacts
    <3>5. i \in 1..Len(names) \/ i = Len(names) + 1
      BY <2>2, <2>11, <3>3, <3>4
    <3> QED
      BY <3>1, <3>2, <3>5
  <2>12. Latest' = Latest
    BY <1>2 DEF Latest
  <2>13. Queued(e)'
    BY <1>2, <1>3, <2>1, <2>10, <2>11, <2>12 DEF Queued
  <2>14. Mapped(e)'
    BY <1>1, <1>2, <2>6 DEF Mapped
  <2> QED
    BY <2>4, <2>13, <2>14 DEF Outwards
<1> QED
  BY <1>4, <1>5

LEMMA OrderedStep == Ordered /\ [Next]_vars => Ordered'
<1> SUFFICES ASSUME Ordered, [Next]_vars PROVE Outwards'
  BY ReachedStep DEF Ordered
<1>1. CASE Load
  BY <1>1, LoadOutwards
<1>2. CASE AddNeeded
  BY <1>2, AddOutwards
<1>3. CASE ~Load /\ ~AddNeeded
  <2>1. UNCHANGED <<image, names, loaded>>
    BY <1>3 DEF Next, vars, SkipBuiltin, LoadFails, StartLinking, Relocate, Audit, Construct,
                Enter
  <2>2. \A l : Distances(l)' <=> Distances(l)
    BY <2>1 DEF Distances, Needs
  <2>3. PICK d \in [Files -> Nat] : Queued(d) /\ Mapped(d)
    BY DEF Ordered, Outwards
  <2>4. Queued(d)' /\ Mapped(d)'
    BY <2>1, <2>2, <2>3 DEF Queued, Mapped, Latest
  <2> QED
    BY <2>3, <2>4 DEF Outwards
<1> QED
  BY <1>1, <1>2, <1>3

LEMMA OrderedIsEnough == Ordered => DependenciesFirst
<1> SUFFICES ASSUME Ordered, phase = "construct", Graded, NEW g \in Needs(Module)
             PROVE  g \in ToSet(built)
  BY DEF DependenciesFirst
<1>0. TypeOK /\ at > 0
  BY DEF Ordered, Reached, Once, Typed, AtModule
<1>1. PICK d \in [Files -> Nat] : Queued(d) /\ Mapped(d)
  BY DEF Ordered, Outwards
<1>2. at \in DOMAIN loaded /\ Module = loaded[at] /\ Module \in ToSet(loaded)
  BY <1>0, SequenceFacts DEF Module, ToSet
<1>3. PICK b \in DOMAIN loaded : g = loaded[b]
  BY <1>2 DEF Ordered, Reached, Closed, Linking, ToSet
<1>4. \A k \in DOMAIN loaded : /\ d[loaded[k]] \in Nat /\ d[loaded[k]] < k
                               /\ loaded[k] \in Level[d[loaded[k]]]
  <2>1. ASSUME NEW k \in DOMAIN loaded
        PROVE  loaded[k] \in Level[d[loaded[k]]]
    <3>1. PICK i \in DOMAIN names : names[i] = loaded[k]
      BY DEF Ordered, Reached, Once, LoadedBehind
    <3>2. loaded[k] \notin Builtin
      BY DEF Ordered, Reached, NoneBuiltin
    <3> QED
      BY <1>0, <1>1, <3>1, <3>2, LevelDistances DEF Queued
  <2> QED
    BY <1>0, <1>1, <2>1, SequenceFacts DEF Mapped
<1>5. g \in Level[d[Module] + 1]
  <2>1. Level[d[Module] + 1] = UNION {Needs(f) : f \in Level[d[Module]]}
    BY <1>0, <1>2, <1>4, LevelDistances DEF Distances
  <2> QED
    BY <1>2, <1>4, <2>1
<1>6. d[g] = d[Module] + 1
  <2>1. d[Module] + 1 \in 0..Len(loaded) /\ d[g] \in 0..Len(loaded)
    BY <1>0, <1>2, <1>3, <1>4, SequenceFacts
  <2>2. g \in Level[d[g]]
    BY <1>3, <1>4
  <2> QED
    BY <1>2, <1>5, <2>1, <2>2 DEF Graded
<1>7. b > at
  <2>1. ~(b <= at)
    BY <1>1, <1>2, <1>3, <1>4, <1>6 DEF Mapped
  <2> QED
    BY <1>0, <1>2, <2>1, SequenceFacts
<1>8. Len(built) + at = Len(loaded)
  BY DEF Ordered, Reached, Once, BuiltBehind, Linking
<1> DEFINE k == Len(loaded) - b + 1
<1>9. k \in DOMAIN built /\ Len(loaded) - k + 1 = b
  <2>1. \A n, m, a \in Nat : \A c \in 1..n :
          m + a = n /\ c > a => n - c + 1 \in 1..m /\ n - (n - c + 1) + 1 = c
    OBVIOUS
  <2>2. /\ Len(loaded) \in Nat /\ Len(built) \in Nat /\ at \in Nat /\ b \in 1..Len(loaded)
        /\ DOMAIN built = 1..Len(built)
    BY <1>0, <1>3, SequenceFacts
  <2> QED
    BY <1>7, <1>8, <2>1, <2>2
<1>10. built[k] = g
  BY <1>3, <1>9 DEF Ordered, Reached, Once, BuiltBehind
<1> QED
  BY <1>9, <1>10 DEF ToSet

\* Whatever the libraries need, as long as none is needed from two distances: when
\* the constructors of one run, those of all it needs have run (so_load_module links
\* in reverse of the order it mapped).
THEOREM NeedsConstructedFirst == Spec => []DependenciesFirst
BY OrderedIsEnough, OrderedInit, OrderedStep, PTL DEF Spec
=============================================================================
