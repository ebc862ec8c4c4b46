------------------------------ MODULE GlStack ------------------------------
(***************************************************************************)
(* Which GL driver the game draws with.  The launcher (ports/Real Racing   *)
(* 3.sh) searches the 32-bit library directories tier by tier, probes each *)
(* candidate, builds a directory of links (the shim) and some environment  *)
(* variables; the loader opens a window through SDL and fills its GLES1    *)
(* table from what it finds (thunks/khronos/gles1.cpp); the game's calls   *)
(* go through wrappers that look in that table (src/symtab_glprobe.cpp).   *)
(*                                                                         *)
(* A library is a record [driver, loads, exports, glvnd, vendor]: the GL   *)
(* implementation that answers its calls, whether it can be dlopen()ed,    *)
(* the symbols the probes ask for that it has, whether it is glvnd's       *)
(* dispatcher, and for Mesa's vendor library when it loads: "always", only *)
(* with the firmware's own runtime libraries ("own"), or "never".          *)
(***************************************************************************)
EXTENDS Naturals

CONSTANTS
    NumDirs,     \* how many directories GL_DIRS lists
    Multiarch,   \* the directory of the tested blob names
    Absent,      \* no such file
    Firmwares    \* the devices the port may be started on

Dirs    == 1..NumDirs
Names   == {"EGL_mesa.0", "EGL.1", "EGL", "GLESv2", "GLESv1_CM", "mali-tested", "mali.1", "mali.0"}
Sonames == {"EGL.1", "GLESv1_CM.1", "GLESv2.2", "mali.1"}
Symbols == {"eglGetDisplay", "glGetString", "glMatrixMode"}
Drivers == {"mesa", "mali", "wrapper", "gl4es"}
Library == [driver : Drivers, loads : BOOLEAN, exports : SUBSET Symbols,
            glvnd : BOOLEAN, vendor : {"always", "own", "never"}]

\* A device: its files, its libGL.so.1, is a Wayland compositor running, can the
\* probe be executed, can links be made in /tmp, and does it carry newer copies of
\* the libraries the port bundles.
Firmware == [file : [Dirs -> [Names -> Library \cup {Absent}]],
             libGL : Library \cup {Absent}, wayland : BOOLEAN,
             probeRuns : BOOLEAN, links : BOOLEAN, copies : BOOLEAN]

ASSUME DirsAssumption == NumDirs \in Nat \ {0} /\ Multiarch \in Dirs
ASSUME FirmwareAssumption == Absent \notin Library /\ Firmwares \subseteq Firmware

VARIABLES
    fw,        \* the device (never changes)
    pc,        \* the launcher's step, then the loader's
    tier,      \* GL_TIER
    mesaDir,   \* GL_MESA_DIR (0 when unset)
    blob,      \* MALI_BLOB
    wrapper,   \* GL_WRAP_EGL, GL_WRAP_GLES and GL_WRAP_ES1
    shim,      \* GL_SHIM: the links by soname
    unshadowed,\* are the firmware's copies of the bundled libraries in the shim?
    single,    \* REALRACING3_GL_SINGLE_DISPATCH
    context,   \* the driver of the context SDL made ("none" before)
    table,     \* whose functions the GLES1 table holds ("empty" when it was not filled)
    executed   \* the calls the game made: <<entry point's kind, who executed it>>

vars == <<fw, pc, tier, mesaDir, blob, wrapper, shim, unshadowed, single, context,
          table, executed>>

NoWrapper == [egl |-> Absent, gles |-> Absent, es1 |-> Absent]
NoShim    == [s \in Sonames |-> Absent]

Init ==
    /\ fw \in Firmwares
    /\ pc = "tier0"
    /\ tier = "none"
    /\ mesaDir = 0
    /\ blob = Absent
    /\ wrapper = NoWrapper
    /\ shim = NoShim
    /\ unshadowed = FALSE
    /\ single = FALSE
    /\ context = "none"
    /\ table = "empty"
    /\ executed = {}

-----------------------------------------------------------------------------
(* The search.                                                             *)

File(d, name) == fw.file[d][name]

\* The first of some directories, 0 when there is none.
FirstDir(ds) == IF ds = {} THEN 0 ELSE CHOOSE d \in ds : \A e \in ds : d <= e

\* The first file of d, in the order of names, whose place in names is in good.
FirstFile(d, names, good) ==
    IF good = {} THEN Absent ELSE File(d, names[CHOOSE k \in good : \A l \in good : k <= l])

\* A slip: existence taken for loadability, as before the preflight was written.
Exists(lib, symbol) == lib # Absent

\* gl_provider_loadable: the port's own binary opens the library and looks for the
\* symbol.  A probe that cannot run is no verdict.
Loadable(lib, symbol) ==
    /\ lib # Absent
    /\ fw.probeRuns => lib.loads /\ symbol \in lib.exports

\* gl_is_glvnd: the audit run by the same binary names libGLdispatch.
IsGlvnd(lib) == fw.probeRuns /\ lib.glvnd

\* Where, in names, directory d has a blob.
IsBlob(lib) == Loadable(lib, "eglGetDisplay")
Blobs(d, names) == {k \in DOMAIN names : IsBlob(File(d, names[k]))}

\* Under a compositor: Mesa's libEGL, in a directory that has Mesa's vendor library.
MesaAt(d) == /\ File(d, "EGL_mesa.0") # Absent
             /\ Loadable(File(d, "EGL.1"), "eglGetDisplay")

Tier0 ==
    /\ pc = "tier0"
    /\ pc' = "tier1"
    /\ mesaDir' = IF fw.wayland THEN FirstDir({d \in Dirs : MesaAt(d)}) ELSE 0
    /\ tier' = IF mesaDir' = 0 THEN "none" ELSE "mesa"
    /\ UNCHANGED <<fw, blob, wrapper, shim, unshadowed, single, context, table, executed>>

\* Tiers 1 and 3 commit to a blob through gl_try_blob.
Commit(lib) ==
    /\ blob' = lib
    /\ tier' = IF lib = Absent THEN tier ELSE "blob"

Tested == <<"mali-tested", "mali.1">>

\* A slip: gl_try_blob without the test that no tier was chosen before.
Tier1Overrides ==
    /\ pc = "tier1"
    /\ pc' = "tier2"
    /\ Commit(FirstFile(Multiarch, Tested, Blobs(Multiarch, Tested)))
    /\ UNCHANGED <<fw, mesaDir, wrapper, shim, unshadowed, single, context, table, executed>>

\* The exact tested blob names, in the multiarch directory only.
Tier1 ==
    /\ pc = "tier1"
    /\ pc' = "tier2"
    /\ Commit(IF tier # "none" THEN Absent
              ELSE FirstFile(Multiarch, Tested, Blobs(Multiarch, Tested)))
    /\ UNCHANGED <<fw, mesaDir, wrapper, shim, unshadowed, single, context, table, executed>>

WrapperAt(d) ==
    /\ File(d, "EGL") # Absent /\ File(d, "GLESv2") # Absent
    /\ ~IsGlvnd(File(d, "EGL"))
    /\ Loadable(File(d, "EGL"), "eglGetDisplay")
    /\ Loadable(File(d, "GLESv2"), "glGetString")

HasFixedFunction(lib) == Loadable(lib, "glMatrixMode") /\ ~IsGlvnd(lib)
Es1 == <<"GLESv1_CM", "mali.0", "mali.1", "mali-tested">>

\* A split wrapper set: the unversioned pair, and beside it whatever answers
\* glMatrixMode.
Tier2 ==
    /\ pc = "tier2"
    /\ pc' = "tier3"
    /\ LET d == IF tier = "none" THEN FirstDir({e \in Dirs : WrapperAt(e)}) ELSE 0 IN
       IF d = 0 THEN UNCHANGED <<tier, wrapper>>
       ELSE /\ tier' = "wrapper"
            /\ wrapper' = [egl  |-> File(d, "EGL"),
                           gles |-> File(d, "GLESv2"),
                           es1  |-> FirstFile(d, Es1,
                                              {k \in DOMAIN Es1 : HasFixedFunction(File(d, Es1[k]))})]
    /\ UNCHANGED <<fw, mesaDir, blob, shim, unshadowed, single, context, table, executed>>

AnyBlob == <<"mali-tested", "mali.0", "mali.1">>
BlobAt(d) == Blobs(d, AnyBlob) # {}

\* A slip: the outer loop left after its first directory.
Tier3GivesUp ==
    /\ pc = "tier3"
    /\ pc' = "shim"
    /\ IF tier # "none" THEN UNCHANGED <<tier, blob>> ELSE Commit(FirstFile(1, AnyBlob, Blobs(1, AnyBlob)))
    /\ UNCHANGED <<fw, mesaDir, wrapper, shim, unshadowed, single, context, table, executed>>

\* Any other Mali blob, wherever the distribution put it.
Tier3 ==
    /\ pc = "tier3"
    /\ pc' = "shim"
    /\ LET d == IF tier = "none" THEN FirstDir({e \in Dirs : BlobAt(e)}) ELSE 0 IN
       IF d = 0 THEN UNCHANGED <<tier, blob>> ELSE Commit(FirstFile(d, AnyBlob, Blobs(d, AnyBlob)))
    /\ UNCHANGED <<fw, mesaDir, wrapper, shim, unshadowed, single, context, table, executed>>

-----------------------------------------------------------------------------
(* The shim and the environment.                                           *)

\* No provider, or no link could be made: a screen, and exit 1.
Refuse(s) == pc = "shim" /\ pc' = "refused" /\ shim' = s /\ UNCHANGED <<tier, single>>

\* A slip: the blob linked under the names SDL opens, and not as libmali.so.1.
ShimBlobPartly ==
    /\ tier = "blob"
    /\ IF fw.links
         THEN /\ pc = "shim" /\ pc' = "window"
              /\ shim' = [s \in Sonames \ {"mali.1"} |-> blob]
              /\ UNCHANGED <<tier, single>>
         ELSE Refuse(NoShim)
    /\ UNCHANGED <<fw, mesaDir, blob, wrapper, unshadowed, context, table, executed>>

ShimBlob ==
    /\ tier = "blob"
    /\ IF fw.links
         THEN /\ pc = "shim" /\ pc' = "window"
              /\ shim' = [s \in Sonames |-> blob]
              /\ UNCHANGED <<tier, single>>
         ELSE Refuse(NoShim)
    /\ UNCHANGED <<fw, mesaDir, blob, wrapper, unshadowed, context, table, executed>>

\* The firmware's own libmali.so.1, anywhere on the search path.
OwnMali == LET d == FirstDir({e \in Dirs : File(e, "mali.1") # Absent})
           IN  IF d = 0 THEN Absent ELSE File(d, "mali.1")

\* libmali.so.1 stays the firmware's own where it has one; the wrapper's ES1
\* library answers the name only where nothing else does.
ShimWrapper ==
    /\ tier = "wrapper"
    /\ IF fw.links
         THEN /\ pc = "shim" /\ pc' = "window"
              /\ shim' = [s \in Sonames |->
                             CASE s = "EGL.1"       -> wrapper.egl
                               [] s = "GLESv2.2"    -> wrapper.gles
                               [] s = "GLESv1_CM.1" -> wrapper.es1
                               [] s = "mali.1"      -> IF OwnMali # Absent THEN OwnMali
                                                       ELSE wrapper.es1]
              /\ single' = (wrapper.es1 = Absent)
              /\ tier' = tier
         ELSE Refuse(NoShim)
    /\ UNCHANGED <<fw, mesaDir, blob, wrapper, unshadowed, context, table, executed>>

EglAt(d) == Loadable(File(d, "EGL.1"), "eglGetDisplay")

\* The device's own EGL set: tier 0's directory, or the first that has a libEGL.
ShimMesa ==
    /\ tier \in {"none", "mesa"}
    /\ LET d == IF mesaDir # 0 THEN mesaDir ELSE FirstDir({e \in Dirs : EglAt(e)}) IN
       IF d # 0 /\ fw.links
         THEN /\ pc = "shim" /\ pc' = "unshadow"
              /\ shim' = [NoShim EXCEPT !["EGL.1"] = File(d, "EGL.1")]
              /\ tier' = "mesa"
              /\ single' = TRUE
         ELSE Refuse(NoShim)
    /\ UNCHANGED <<fw, mesaDir, blob, wrapper, unshadowed, context, table, executed>>

\* Does glvnd's dlopen() of the vendor library succeed: behind the bundled
\* libraries, or behind the firmware's copies once those are linked in front.
VendorLoads(d, own) == LET v == File(d, "EGL_mesa.0").vendor
                       IN  v = "always" \/ (v = "own" /\ own)

\* gl_mesa_vendor_loads is the probe's exit code: unlike gl_provider_loadable it
\* takes a probe that cannot run for a library that does not load.
VendorProbed(d, own) == fw.probeRuns /\ VendorLoads(d, own)

\* A slip: the copies stay when they do not help.
UnshadowForGood ==
    /\ pc = "unshadow"
    /\ pc' = "window"
    /\ unshadowed' = (mesaDir # 0 /\ ~VendorProbed(mesaDir, FALSE) /\ fw.copies)
    /\ UNCHANGED <<fw, tier, mesaDir, blob, wrapper, shim, single, context, table, executed>>

\* gl_mesa_unshadow: nothing without GL_MESA_DIR or when the driver loads as
\* things stand; the firmware's copies are linked, and taken out again if the
\* driver still does not load (always, when the probe cannot run).
Unshadow ==
    /\ pc = "unshadow"
    /\ pc' = "window"
    /\ unshadowed' = /\ mesaDir # 0
                     /\ ~VendorProbed(mesaDir, FALSE)
                     /\ fw.copies
                     /\ VendorProbed(mesaDir, TRUE)
    /\ UNCHANGED <<fw, tier, mesaDir, blob, wrapper, shim, single, context, table, executed>>

-----------------------------------------------------------------------------
(* The loader.                                                             *)

\* What a dlopen() by soname answers: the shim is first on the library path.
Resolve(soname) ==
    IF shim[soname] # Absent THEN shim[soname]
    ELSE IF soname = "mali.1" THEN OwnMali ELSE Absent

EglLibrary == IF tier = "wrapper" THEN wrapper.egl ELSE Resolve("EGL.1")

\* A vendor EGL cannot join a compositor's session; glvnd finds a Mesa vendor only
\* if some directory has one that loads.
Initialises(lib) ==
    /\ lib.loads /\ "eglGetDisplay" \in lib.exports
    /\ fw.wayland => lib.driver = "mesa"
    /\ lib.glvnd => \E d \in Dirs : /\ File(d, "EGL_mesa.0") # Absent
                                    /\ VendorLoads(d, unshadowed)

\* SDL_CreateWindow and SDL_GL_CreateContext, or the error path of main().
OpenWindow ==
    /\ pc = "window"
    /\ IF Initialises(EglLibrary)
         THEN pc' = "gles1" /\ context' = EglLibrary.driver
         ELSE pc' = "failed" /\ context' = context
    /\ UNCHANGED <<fw, tier, mesaDir, blob, wrapper, shim, unshadowed, single, table, executed>>

\* provider_has_fixed_function on what dlopen() returned.
Adopts(lib) == lib # Absent /\ lib.loads /\ "glMatrixMode" \in lib.exports

\* gl_provider_open: libmali.so.1, then libGL.so.1.
Provider == IF Adopts(Resolve("mali.1")) THEN Resolve("mali.1")
            ELSE IF Adopts(fw.libGL) THEN fw.libGL ELSE Absent

\* A slip of gl1_resolve: the provider asked first, whatever the switch says.
ResolveFromProvider == Provider.driver

\* gl1_resolve: through SDL when single dispatch is asked for, else the provider.
\* Its fallback to the other of the two is for names the first one lacks (extensions
\* mostly); those of Kinds are in every GLES2 context and every fixed-function library.
Resolved == IF single THEN context ELSE Provider.driver

\* load_gles1_funcs: no provider, and it returns before any name is resolved.
LoadGles1 ==
    /\ pc = "gles1"
    /\ pc' = "play"
    /\ table' = IF Provider = Absent THEN "empty" ELSE Resolved
    /\ UNCHANGED <<fw, tier, mesaDir, blob, wrapper, shim, unshadowed, single, context, executed>>

\* glClear, glDrawArrays, glTexImage2D, ... look in the GLES1 table alone; other
\* names the tables share fall through to the GLES2 table, which SDL filled.
Executor(kind) ==
    CASE kind = "wrapped" -> IF table = "empty" THEN "dropped" ELSE table
      [] kind = "shared"  -> IF table = "empty" THEN context ELSE table
      [] kind = "gles2"   -> context

Call(kind) ==
    /\ pc = "play"
    /\ executed' = executed \cup {<<kind, Executor(kind)>>}
    /\ UNCHANGED <<fw, pc, tier, mesaDir, blob, wrapper, shim, unshadowed, single, context, table>>

Kinds == {"wrapped", "shared", "gles2"}

\* The launcher has exited, with a screen or with the loader's error.
Over == pc \in {"refused", "failed"} /\ UNCHANGED vars

Next == \/ Tier0 \/ Tier1 \/ Tier2 \/ Tier3
        \/ ShimBlob \/ ShimWrapper \/ ShimMesa \/ Unshadow
        \/ OpenWindow \/ LoadGles1 \/ Over
        \/ \E kind \in Kinds : Call(kind)

Spec == Init /\ [][Next]_vars

-----------------------------------------------------------------------------
(* Properties.                                                             *)

TypeOK ==
    /\ fw \in Firmwares
    /\ pc \in {"tier0", "tier1", "tier2", "tier3", "shim", "unshadow", "window", "gles1",
               "play", "refused", "failed"}
    /\ tier \in {"none", "mesa", "blob", "wrapper"}
    /\ mesaDir \in Dirs \cup {0}
    /\ blob \in Library \cup {Absent}
    /\ wrapper \in [egl : Library \cup {Absent}, gles : Library \cup {Absent},
                    es1 : Library \cup {Absent}]
    /\ shim \in [Sonames -> Library \cup {Absent}]
    /\ unshadowed \in BOOLEAN
    /\ single \in BOOLEAN
    /\ context \in Drivers \cup {"none"}
    /\ table \in Drivers \cup {"empty"}
    /\ executed \subseteq Kinds \X (Drivers \cup {"dropped"})

\* The arrangements in which the code keeps every call on one driver: the Mesa
\* tier, a blob that has fixed function, a wrapper set with no ES1 library beside
\* it (single dispatch), or with one that is the set's own and no libmali.so.1 of
\* the firmware's to take its name.
Unified == \/ tier = "mesa"
           \/ tier = "blob" /\ Adopts(blob)
           \/ tier = "wrapper" /\ wrapper.es1 = Absent
           \/ /\ tier = "wrapper"
              /\ Adopts(wrapper.es1) /\ wrapper.es1.driver = wrapper.egl.driver
              /\ OwnMali = Absent

\* There, no call is executed by another driver than the one that owns the context
\* ("two dispatch layers, one context, and no error message anywhere").
OneDriver == Unified => \A c \in executed : c[2] \in {context, "dropped"}

\* Under a compositor, with a Mesa set that loads somewhere, a window is never
\* asked of a vendor's EGL ("that pairing outranks every blob tier").
CompositorFirst ==
    fw.wayland /\ (\E d \in Dirs : MesaAt(d)) /\ pc \notin {"tier0", "refused"}
       => tier = "mesa" /\ (pc \in {"window", "gles1", "play"} =>
                               EglLibrary = File(FirstDir({d \in Dirs : MesaAt(d)}), "EGL.1"))

\* What the preflight accepted is what SDL can open: with a probe that runs, the
\* window fails only for what a preflight cannot see, a compositor that holds the
\* display or a Mesa vendor library that does not load.
FailureExplained ==
    pc = "failed" /\ fw.probeRuns =>
        \/ fw.wayland /\ EglLibrary.driver # "mesa"
        \/ EglLibrary.glvnd /\ ~\E d \in Dirs : /\ File(d, "EGL_mesa.0") # Absent
                                                /\ VendorLoads(d, unshadowed)

\* The game is refused only where no directory has a candidate that loads, or no
\* link can be made for one.
RefusedForCause ==
    pc = "refused" /\ fw.links =>
        \A d \in Dirs : \A name \in {"mali-tested", "mali.0", "mali.1", "EGL.1"} :
            ~Loadable(File(d, name), "eglGetDisplay")

\* The firmware's copies stay in front of the bundled libraries only where the driver
\* loads with them and not without ("a firmware whose libraries are OLDER than the
\* bundled set must not be handed them"); and when the window of tier 0's set fails
\* all the same, no copies could have saved it, given a probe that runs.
CopiesOnlyIfNeeded ==
    /\ unshadowed => mesaDir # 0 /\ File(mesaDir, "EGL_mesa.0").vendor = "own"
    /\ pc = "failed" /\ mesaDir # 0 /\ fw.probeRuns /\ fw.copies =>
         \/ EglLibrary.driver # "mesa"
         \/ File(mesaDir, "EGL_mesa.0").vendor = "never"

\* "Try the driver as things stand, and only if it fails let the firmware's own
\* copies of the shadowed libraries win": no window of the Mesa tier, however that
\* tier was reached, fails over a driver that the copies would have made load.  False
\* where no compositor runs (GlHidden.cfg).
SavedIfSavable ==
    pc = "failed" /\ tier = "mesa" /\ fw.probeRuns /\ fw.copies =>
        LET d == IF mesaDir # 0 THEN mesaDir ELSE FirstDir({e \in Dirs : EglAt(e)})
        IN  File(d, "EGL_mesa.0") # Absent /\ EglLibrary.driver = "mesa"
               => File(d, "EGL_mesa.0").vendor # "own"

\* "Panfrost/Mesa owns the current GLES context [...] Resolve the GLES1 table
\* through SDL_GL_GetProcAddress so all GL calls use the same Mesa/Panfrost
\* dispatch layer": on that tier no call is dropped.
MesaServesAll == tier = "mesa" => \A c \in executed : c[2] = "mesa"

=============================================================================
