------------------------------- MODULE Loader -------------------------------
(***************************************************************************)
(* Loading the game (loader/so_util.cpp: so_load_module; src/main.cpp):    *)
(* the game library and what it needs are mapped breadth first, then each  *)
(* module, last loaded first, is relocated, audited for imports that       *)
(* nobody implements, and its static constructors are run; main() enters   *)
(* the game only if all of that went well.                                 *)
(*                                                                         *)
(* A library is known by its file name; a DT_NEEDED entry may be a whole   *)
(* path of the machine it was linked on.                                   *)
(***************************************************************************)
EXTENDS Naturals, Sequences, SequencesExt

CONSTANTS
    Files,       \* file names of libraries
    Root,        \* libRealRacing3.so
    Builtin,     \* the libraries that the loader answers itself
    Needables,   \* what a DT_NEEDED entry may say
    Base,        \* Base[n]: its last path component
    Symbols,
    Host,        \* the symbols in so_dynamic_libraries
    Marker,      \* onCreateJNI, by which the game's module is known
    EntryPoints, \* the symbols main() requires
    Images,      \* the sets of libraries that may be on the card
    Nobody       \* no provider, no module

ASSUME FileAssumption   == Root \in Files /\ Builtin \subseteq Files /\ Nobody \notin Files \cup {"host"}
ASSUME NameAssumption   == Base \in [Needables -> Files]
ASSUME SymbolAssumption == Host \cup {Marker} \cup EntryPoints \subseteq Symbols
ASSUME ImageAssumption  ==
    Images \subseteq [Files -> [loads : BOOLEAN, needed : Seq(Needables), defines : SUBSET Symbols,
                                imports : SUBSET Symbols, weak : SUBSET Symbols,
                                odd : SUBSET Symbols]]

VARIABLES
    image,  \* image[f]: what library f is
    names,  \* the libraries to load, in the order they were met
    next,   \* the one to load next
    need,   \* the DT_NEEDED entry of the last module to look at, 0 if none is left
    loaded, \* loaded_modules
    at,     \* the module being linked
    bound,  \* bound[f][s]: what import s of module f is bound to
    built,  \* the modules whose constructors have run, in order
    game,   \* g_game_module
    phase   \* "loading", "relocate", "audit", "construct", "enter", "running" or "failed"

vars == <<image, names, next, need, loaded, at, bound, built, game, phase>>

Init ==
    /\ image \in Images
    /\ names = <<Root>>
    /\ next = 1
    /\ need = 0
    /\ loaded = <<>>
    /\ at = 0
    /\ bound = [f \in Files |-> [s \in Symbols |-> Nobody]]
    /\ built = <<>>
    /\ game = Nobody
    /\ phase = "loading"

-----------------------------------------------------------------------------
(* Mapping, breadth first.                                                 *)

SkipBuiltin ==
    /\ phase = "loading"
    /\ need = 0
    /\ next <= Len(names)
    /\ names[next] \in Builtin
    /\ next' = next + 1
    /\ UNCHANGED <<image, names, need, loaded, at, bound, built, game, phase>>

\* Found in the game's directory, read and mapped.
Load ==
    /\ phase = "loading"
    /\ need = 0
    /\ next <= Len(names)
    /\ names[next] \notin Builtin
    /\ image[names[next]].loads
    /\ loaded' = Append(loaded, names[next])
    /\ next' = next + 1
    /\ need' = Len(image[names[next]].needed)
    /\ UNCHANGED <<image, names, at, bound, built, game, phase>>

\* The entry of the last module to look at; they are counted down, met in order.
Entry == LET needed == image[loaded[Len(loaded)]].needed IN needed[Len(needed) - need + 1]

\* A slip: DT_NEEDED looked for as it is.
AddRaw ==
    /\ phase = "loading"
    /\ need > 0
    /\ names' = IF Entry \in ToSet(names) THEN names ELSE Append(names, Base[Entry])
    /\ need' = need - 1
    /\ UNCHANGED <<image, next, loaded, at, bound, built, game, phase>>

\* Its last component goes on the list, unless it is there already.
AddNeeded ==
    /\ phase = "loading"
    /\ need > 0
    /\ names' = IF Base[Entry] \in ToSet(names) THEN names ELSE Append(names, Base[Entry])
    /\ need' = need - 1
    /\ UNCHANGED <<image, next, loaded, at, bound, built, game, phase>>

\* Not there, or not mappable: nothing is started.
LoadFails ==
    /\ phase = "loading"
    /\ need = 0
    /\ next <= Len(names)
    /\ names[next] \notin Builtin
    /\ ~image[names[next]].loads
    /\ phase' = "failed"
    /\ UNCHANGED <<image, names, next, need, loaded, at, bound, built, game>>

\* A slip: linking in load order.
LinkForward ==
    /\ phase = "loading"
    /\ need = 0
    /\ next > Len(names)
    /\ phase' = "relocate"
    /\ at' = Len(loaded)
    /\ loaded' = Reverse(loaded)
    /\ UNCHANGED <<image, names, next, need, bound, built, game>>

StartLinking ==
    /\ phase = "loading"
    /\ need = 0
    /\ next > Len(names)
    /\ phase' = "relocate"
    /\ at' = Len(loaded)
    /\ UNCHANGED <<image, names, next, need, loaded, bound, built, game>>

-----------------------------------------------------------------------------
(* Linking, last loaded first.                                             *)

Module == loaded[at]

\* so_resolve_link: the host's tables, then the other modules in load order.
Provider(m, s) ==
    LET having == {k \in DOMAIN loaded : loaded[k] # m /\ s \in image[loaded[k]].defines} IN
    IF s \in Host THEN "host"
    ELSE IF having = {} THEN Nobody
    ELSE loaded[CHOOSE k \in having : \A j \in having : k <= j]

\* so_relocate_all: a symbol the module defines is its own, any other is looked up;
\* one behind a relocation type that nobody knows (odd) is left as it is.
Relocate ==
    /\ phase = "relocate"
    /\ at > 0
    /\ bound' = [bound EXCEPT ![Module] =
                   [s \in Symbols |-> IF s \in image[Module].imports \ image[Module].odd
                                        THEN Provider(Module, s) ELSE Nobody]]
    /\ phase' = "audit"
    /\ UNCHANGED <<image, names, next, need, loaded, at, built, game>>

\* A slip: only the game itself is audited.
MissingInGame(m) ==
    IF Marker \in image[m].defines
      THEN {s \in image[m].imports \ image[m].weak : Provider(m, s) = Nobody} ELSE {}

\* report_unresolved_symbols: a weak import may stay null.
Missing(m) == {s \in image[m].imports \ image[m].weak : Provider(m, s) = Nobody}

\* so_after_relocate, before any code of the module has run.
Audit ==
    /\ phase = "audit"
    /\ IF Missing(Module) # {}
         THEN phase' = "failed" /\ game' = game
         ELSE /\ phase' = "construct"
              /\ game' = IF Marker \in image[Module].defines THEN Module ELSE game
    /\ UNCHANGED <<image, names, next, need, loaded, at, bound, built>>

\* so_initialize and the rest of the loop's body.
Construct ==
    /\ phase = "construct"
    /\ built' = Append(built, Module)
    /\ at' = at - 1
    /\ phase' = IF at = 1 THEN "enter" ELSE "relocate"
    /\ UNCHANGED <<image, names, next, need, loaded, bound, game>>

\* main() after so_load_module: the first module must be the game's and have the
\* entry points that are called next.
Enter ==
    /\ phase = "enter"
    /\ phase' = IF game # Nobody /\ EntryPoints \subseteq image[loaded[1]].defines
                THEN "running" ELSE "failed"
    /\ UNCHANGED <<image, names, next, need, loaded, at, bound, built, game>>

Next == SkipBuiltin \/ Load \/ AddNeeded \/ LoadFails \/ StartLinking \/ Relocate \/ Audit
        \/ Construct \/ Enter

Spec == Init /\ [][Next]_vars

-----------------------------------------------------------------------------
(* Properties.                                                             *)

Providers == Files \cup {"host", Nobody}

TypeOK ==
    /\ image \in Images
    /\ names \in Seq(Files)
    /\ next \in Nat \ {0}
    /\ need \in Nat
    /\ need > 0 => loaded # <<>> /\ need <= Len(image[loaded[Len(loaded)]].needed)
    /\ loaded \in Seq(Files)
    /\ at \in 0..Len(loaded)
    /\ bound \in [Files -> [Symbols -> Providers]]
    /\ built \in Seq(Files)
    /\ game \in Files \cup {Nobody}
    /\ phase \in {"loading", "relocate", "audit", "construct", "enter", "running", "failed"}

\* However often and under whatever path a library is needed, it is mapped once and
\* its constructors run once.
OnceEach == IsInjective(loaded) /\ IsInjective(built)

Needs(f) == {Base[n] : n \in ToSet(image[f].needed)} \ Builtin

\* The libraries at each distance from the game.
Level == LET l[k \in Nat] == IF k = 0 THEN {Root} ELSE UNION {Needs(f) : f \in l[k - 1]} IN l

\* No library is needed from two distances, as in the game, which needs
\* libfmodex.so alone.
Graded == \A f \in ToSet(loaded) : \A g \in Needs(f) :
            \A j, k \in 0..Len(loaded) : g \in Level[j] /\ g \in Level[k] => j = k

\* In such a set of libraries the constructors of what a library needs have run
\* before its own: reverse load order is then dependency order.
DependenciesFirst ==
    phase = "construct" /\ Graded => Needs(Module) \subseteq ToSet(built)

\* The modules whose code runs or has run.
Entered == ToSet(built) \cup (IF phase = "construct" THEN {Module} ELSE {})

\* What a module must have bound before its code runs: a weak import may stay null.
Strong(m) == image[m].imports \ image[m].weak

\* "any one of them that touches an unbound import faults with nothing but an
\* address to show for it" (so_util.cpp): no module's code runs while an import of
\* it that is not weak is bound to nothing.  False behind a relocation type that the
\* loader does not know (LoaderOdd.cfg).
NothingUnbound == \A m \in Entered : \A s \in Strong(m) : bound[m][s] # Nobody

\* What the audit does see to: no module's code runs while such an import is bound
\* to nothing, but for those whose relocation the loader does not know.
KnownBound == \A m \in Entered : \A s \in Strong(m) \ image[m].odd : bound[m][s] # Nobody

=============================================================================
