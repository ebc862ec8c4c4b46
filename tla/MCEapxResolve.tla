--------------------------- MODULE MCEapxResolve ----------------------------
(* The shipped recipe in small: two libraries and the data tree, found under *)
(* files/ or .depot/, and a second ABI.                                      *)
EXTENDS EapxResolve

CONSTANTS v7, v8, so7, so8, fm7, fm8, asset, game, old, fmod, data, data2,
          rr3, another

MCAbis == <<v7, v8>>

Entry(place, file, content) == [place |-> place, file |-> file, content |-> content]
Libs(place) == {Entry(place, so7, game), Entry(place, fm7, fmod)}

Lib(f7, f8) == [kind |-> "entry", required |-> TRUE, patterns |-> <<"lib/", "*/lib/">>,
                to |-> [b \in {v7, v8} |-> IF b = v7 THEN f7 ELSE f8]]
Tree(pattern) == [kind |-> "entries", required |-> FALSE, patterns |-> <<pattern>>]
MCRules == <<Lib(so7, so8), Lib(fm7, fm8), Tree("files/"), Tree(".depot/")>>

\* "*" matches slashes too, but not nothing.
MCMatching == [p \in {"lib/", "*/lib/", "files/", ".depot/"} |-> {p}]

MCSizeOf == [c \in {game, old, fmod, data, data2} |-> IF c \in {data, data2} THEN 2 ELSE 1]

Archive(package, entries)  == [form |-> "zip", package |-> package, entries |-> entries, inner |-> <<>>]
Folder(entries)        == [Archive(NoManifest, entries) EXCEPT !.form = "tree"]
Bundle(entries, inner) == [Archive(NoManifest, entries) EXCEPT !.inner = inner]

MCDonors == {"apk", "old apk", "split", "other apk", "fat apk", "lib zip", "data zip",
             "data folder", "depot folder", "bundle", "half bundle", "big bundle",
             "note", "broken"}
MCInners == {"base", "config", "base 2", "odd inner"}
Archives == [d \in MCDonors \cup MCInners |->
    CASE d = "apk"          -> Archive(rr3, Libs("lib/"))
      [] d = "old apk"      -> Archive(rr3, {Entry("lib/", so7, old), Entry("lib/", fm7, fmod)})
      [] d = "split"        -> Archive(rr3, {Entry("lib/", fm7, fmod)})
      [] d = "other apk"    -> Archive(another, {Entry("lib/", fm7, fmod), Entry("files/", asset, data)})
      [] d = "fat apk"      -> Archive(rr3, Libs("lib/") \cup {Entry("lib/", so8, game), Entry("lib/", fm8, fmod)})
      [] d = "lib zip"      -> Archive(NoManifest, Libs("*/lib/"))
      [] d = "data zip"     -> Bundle({Entry("files/", asset, data)}, <<"odd inner">>)
      [] d = "data folder"  -> Folder({Entry("files/", asset, data)})
      [] d = "depot folder" -> Folder({Entry(".depot/", asset, data2)})
      [] d = "bundle"       -> Bundle({Entry("files/", asset, data)}, <<"base", "config">>)
      [] d = "big bundle"   -> Bundle({}, <<"base", "config", "odd inner">>)
      [] d = "half bundle"  -> Bundle({}, <<"base 2">>)
      [] d = "note"         -> [Archive(NoManifest, {}) EXCEPT !.form = "file"]
      [] d = "broken"       -> [Archive(rr3, Libs("lib/")) EXCEPT !.form = "broken"]
      [] d \in {"base", "base 2"} -> Archive(rr3, {Entry("lib/", so7, game)})
      [] d = "config"       -> Archive(rr3, {Entry("lib/", fm7, fmod)})
      [] d = "odd inner"    -> Archive(NoManifest, {})]

\* The candidates that copies make.
MCCopy(a, state) == IF state = "whole" THEN a ELSE a \o " " \o state
Copied == MCInners \X Opening
MCWhat == [d \in MCDonors \cup {MCCopy(p[1], p[2]) : p \in Copied} |->
    IF d \in DOMAIN Archives THEN Archives[d]
    ELSE LET p == CHOOSE p \in Copied : MCCopy(p[1], p[2]) = d
         IN  [Archives[p[1]] EXCEPT !.package = Reads(p[2], @)]]
=============================================================================
