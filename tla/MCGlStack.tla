----------------------------- MODULE MCGlStack ------------------------------
(* Devices made of typical directory layouts, two directories each.        *)
EXTENDS GlStack

CONSTANT absent

Lib(driver, exports) == [driver |-> driver, loads |-> TRUE, exports |-> exports,
                         glvnd |-> FALSE, vendor |-> "always"]
Broken(lib)  == [lib EXCEPT !.loads = FALSE]

Unified3  == Lib("mali", Symbols)
NoFixed   == Lib("mali", {"eglGetDisplay", "glGetString"})
Dispatch  == [Lib("mesa", Symbols) EXCEPT !.glvnd = TRUE]
Vendor(v) == [Lib("mesa", {}) EXCEPT !.vendor = v]
Wrap(s)   == Lib("wrapper", {s})

Empty == [n \in Names |-> absent]
Mesa(v) == [Empty EXCEPT !["EGL_mesa.0"] = Vendor(v), !["EGL.1"] = Dispatch]
WrapperSet == [Empty EXCEPT !["EGL"] = Wrap("eglGetDisplay"), !["GLESv2"] = Wrap("glGetString")]

Layouts ==
    {Empty, Mesa("always"), Mesa("own"), Mesa("never"),
     \* -dev packages: glvnd's unversioned links
     [Mesa("always") EXCEPT !["EGL"] = Dispatch, !["GLESv2"] = Dispatch, !["GLESv1_CM"] = Dispatch],
     \* blobs under the tested names, and under another
     [Empty EXCEPT !["mali-tested"] = Unified3, !["EGL"] = Unified3, !["GLESv2"] = Unified3],
     [Empty EXCEPT !["mali.1"] = Unified3, !["EGL.1"] = Unified3],
     [Empty EXCEPT !["mali.0"] = NoFixed],
     \* an orphaned blob whose own dependencies are not there
     [Empty EXCEPT !["mali.1"] = Broken(Unified3), !["EGL.1"] = Broken(Unified3)],
     \* wrapper sets: alone, with an ES1 library, with a blob, half broken
     WrapperSet,
     [WrapperSet EXCEPT !["GLESv1_CM"] = Wrap("glMatrixMode")],
     [WrapperSet EXCEPT !["GLESv1_CM"] = Wrap("glMatrixMode"), !["mali.1"] = Unified3],
     [WrapperSet EXCEPT !["mali.0"] = Unified3],
     [WrapperSet EXCEPT !["GLESv2"] = Broken(Wrap("glGetString")), !["mali.0"] = Unified3]}

MCFirmwares ==
    [file : [1..2 -> Layouts],
     libGL : {absent, Lib("gl4es", {"glMatrixMode"}), Lib("mesa", {"glMatrixMode"})},
     wayland : BOOLEAN, probeRuns : BOOLEAN, links : BOOLEAN, copies : BOOLEAN]
=============================================================================
