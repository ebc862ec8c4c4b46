------------------------------ MODULE MCLoader -------------------------------
(* The game, its audio library, a third one and libc, needed under plain and *)
(* under full names, in trees, diamonds and cycles.                          *)
EXTENDS Loader

CONSTANTS rr3, fmod, event, libc, fmodPath, libcPath, create, open, mix, emit, gone

MCFiles     == {rr3, fmod, event, libc}
MCNeedables == {fmod, event, libc, rr3, fmodPath, libcPath}
MCBase      == [n \in MCNeedables |-> CASE n = fmodPath -> fmod [] n = libcPath -> libc
                                        [] OTHER -> n]
MCSymbols   == {create, open, mix, emit, gone}

Image(loads, needed, defines, imports, weak, odd) ==
    [loads |-> loads, needed |-> needed, defines |-> defines, imports |-> imports,
     weak |-> weak, odd |-> odd]

Games   == {Image(TRUE, n, d, {open} \cup i, w, o) :
              n \in {<<libcPath, fmod>>, <<fmod, event>>, <<event, fmodPath, libc>>},
              d \in {{create}, {create, mix}, {}}, i \in {{mix}, {mix, emit}, {gone}},
              w \in {{}, {gone}}, o \in {{}, {mix}}}
Fmods   == {Image(l, n, d, {open} \cup i, {}, {}) :
              l \in BOOLEAN, n \in {<<libcPath>>, <<event>>, <<rr3>>}, d \in {{mix}, {mix, emit}},
              i \in {{}, {gone}, {emit}}}
Events  == {Image(TRUE, n, {emit}, i, {}, {}) :
              n \in {<<>>, <<fmod>>, <<fmodPath, libc>>}, i \in {{open}, {mix}}}
Nothing == Image(FALSE, <<>>, {}, {}, {}, {})

MCImages == {[f \in MCFiles |-> CASE f = rr3 -> g [] f = fmod -> m [] f = event -> e
                                  [] OTHER -> Nothing] : g \in Games, m \in Fmods, e \in Events}
=============================================================================
