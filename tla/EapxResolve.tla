---------------------------- MODULE EapxResolve ----------------------------
(***************************************************************************)
(* How the importer decides what to install (tools/eapx.py: discover,      *)
(* expand_bundles, group_candidates, build_plan, resolve_plan): the donors *)
(* lying on the card are listed, APKs inside bundles are unpacked into a   *)
(* cache, everything is sorted into groups, and the recipe's rules are     *)
(* tried on each group.                                                    *)
(*                                                                         *)
(* An entry of an archive is a place in it ("lib/", "files/", ...), the    *)
(* file it would be published as, and a content.                           *)
(***************************************************************************)
EXTENDS Naturals, Sequences, FiniteSets, SequencesExt

CONSTANTS
    Donors,      \* what a user may put on the card
    What,        \* What[d]: [form, package, entries, inner] of a donor or an inner APK
    Rules,       \* the recipe's rules, in order: [kind, required, patterns, to]
    Matching,    \* Matching[pattern]: the places it matches
    Abis,        \* the recipe's abi_order
    SizeOf,      \* the size of a content
    Limit,       \* the most APKs a bundle may hold
    MaxDonors,   \* bound: donors on the card at once
    MaxCuts,     \* bound: kills and power cuts
    NoManifest,  \* the package of what is no APK
    Unreadable,  \* the package of an APK whose manifest cannot be read
    Corrupt,     \* the package of an APK whose manifest cannot even be decompressed
    Copy(_, _),  \* Copy(a, state): the candidate that a copy of inner APK a makes
    Nothing      \* no checksum

VARIABLES
    listing, \* the donors on the card, in the order discover() lists them
    cache,   \* cache[a]: the unpacked copy of inner APK a, as it reads
    fresh,   \* the copies made since the last sync
    pc,      \* "off" or "expanding"
    todo,    \* the inner APKs still to unpack
    seen,    \* the candidates so far
    verdict, \* what the run decided
    cuts

vars == <<listing, cache, fresh, pc, todo, seen, verdict, cuts>>

Inners == UNION {ToSet(What[d].inner) : d \in Donors}

\* How a copy that opens reads: with its manifest, without its package, or with a manifest
\* that does not decompress.  What else is wrong with it shows when it is extracted.
Opening == {"whole", "nameless", "corrupt"}
States  == Opening \cup {"none", "lost"}

\* The package read from a copy.
Reads(state, package) ==
    CASE package = NoManifest \/ state = "whole" -> package
      [] state = "nameless" -> Unreadable
      [] state = "corrupt"  -> Corrupt

\* An APK is in one bundle (the cache is keyed by it), and its copies list the same
\* members: the directory is what an archive is opened by.
ASSUME CopyAssumption ==
    \A a \in Inners : /\ Copy(a, "whole") = a
                      /\ \A state \in Opening :
                            LET c == Copy(a, state) IN
                            /\ What[c].form = What[a].form
                            /\ What[c].entries = What[a].entries
                            /\ What[c].package = Reads(state, What[a].package)
ASSUME DonorAssumption ==
    \A c \in Donors \cup Inners :
        /\ What[c].inner \in Seq(Inners)
        /\ \A e \in What[c].entries : e.content # Nothing
ASSUME BoundAssumption == MaxDonors \in Nat
ASSUME InnerAssumption == \A a \in Inners : What[a].form # "tree"
ASSUME AbiAssumption   == Abis # <<>> /\ Abis \in Seq(ToSet(Abis))
ASSUME RuleAssumption  ==
    /\ Rules \in Seq(ToSet(Rules))
    /\ \A k \in DOMAIN Rules :
          Rules[k].kind \in {"entry", "entries"} /\ Rules[k].patterns \in Seq(DOMAIN Matching)

Refused(why)  == [why |-> why, items |-> {}]
Undecided     == Refused("none")

\* What may lie on the card, under names that list it in any order.
Cards == {s \in UNION {[1..n -> Donors] : n \in 0..MaxDonors} : IsInjective(s)}

Init ==
    /\ listing \in Cards
    /\ cache = [a \in Inners |-> "none"]
    /\ fresh = {}
    /\ pc = "off"
    /\ todo = <<>>
    /\ seen = <<>>
    /\ verdict = Undecided
    /\ cuts = 0

-----------------------------------------------------------------------------
(* Candidates.                                                             *)

IsContainer(c) == What[c].form \in {"zip", "tree"}
IsApk(c)       == IsContainer(c) /\ What[c].package # NoManifest

\* An entry as rule k would publish it.  A zip lists a CRC for each member; a folder
\* has sizes only.
Item(k, c, e) ==
    [rule |-> k, file |-> e.file, size |-> SizeOf[e.content],
     crc |-> IF What[c].form = "tree" THEN Nothing ELSE e.content,
     content |-> e.content, from |-> c]

Identity(i) == <<i.size, i.crc>>

\* What rule k finds in candidates cs under pattern p.
Hits(k, cs, p, abi) ==
    {Item(k, h[1], h[2]) : h \in
        {h \in UNION {{c} \X What[c].entries : c \in cs} :
            /\ IsContainer(h[1])
            /\ h[2].place \in Matching[p]
            /\ Rules[k].kind = "entry" => h[2].file = Rules[k].to[abi]}}

\* The patterns that count: an entry rule's are a preference list, a tree rule's a set.
Used(k, cs, abi) ==
    LET patterns == Rules[k].patterns
        hitting  == {n \in DOMAIN patterns : Hits(k, cs, patterns[n], abi) # {}} IN
    IF Rules[k].kind = "entries" THEN hitting ELSE {n \in hitting : \A j \in hitting : n <= j}

\* collect_rule: what rule k takes from the candidates.
Collect(k, cs, abi) ==
    UNION {Hits(k, cs, Rules[k].patterns[n], abi) : n \in Used(k, cs, abi)}

Taken(cs, abi) == UNION {Collect(k, cs, abi) : k \in DOMAIN Rules}

\* No two different files claim one destination, for one rule (unique_one) or for two.
Agree(items) == \A i, j \in items : i.file = j.file => Identity(i) = Identity(j)

\* The candidates give a plan for the ABI.
Resolves(cs, abi) ==
    /\ \A k \in DOMAIN Rules : Rules[k].required => Collect(k, cs, abi) # {}
    /\ Agree(Taken(cs, abi))

\* Where rules agree on a destination, the last rule's items.
Lasting(items) == {i \in items : \A j \in items : i.file = j.file => j.rule <= i.rule}

\* The item taken first: candidates in order, then names.
First(g, items) ==
    LET n == Min({n \in DOMAIN g : \E i \in items : i.from = g[n]}) IN
    CHOOSE i \in {i \in items : i.from = g[n]} : TRUE

\* build_plan: one item for each destination.
Plan(g, abi) ==
    LET items == Lasting(Taken(ToSet(g), abi)) IN
    {First(g, {i \in items : i.file = f}) : f \in {i.file : i \in items}}

\* The ABI is a preference: the first that yields a plan.
Fits(cs)    == {n \in DOMAIN Abis : Resolves(cs, Abis[n])}
BestPlan(g) == Plan(g, Abis[Min(Fits(ToSet(g)))])

-----------------------------------------------------------------------------
(* Groups.                                                                 *)

\* A slip: all APKs are one game.
OneKey(c) == "the game"

\* Splits of a game share its package; an unreadable APK stays alone.
Key(c) == IF What[c].package = Unreadable THEN <<"unidentified", c>>
          ELSE <<"package", What[c].package>>

\* Those of cs that are in S, in their order: SelectSeq, for a set.
Only(cs, S) == FlattenSeq([n \in DOMAIN cs |-> IF cs[n] \in S THEN <<cs[n]>> ELSE <<>>])

Apks(cs)       == {c \in ToSet(cs) : IsApk(c)}
Containers(cs) == {c \in ToSet(cs) : IsContainer(c)}

\* A slip: an APK's group without the rest of the card.
ApksAlone(cs) ==
    IF Apks(cs) # {}
      THEN {Only(cs, {c \in Apks(cs) : Key(c) = key}) : key \in {Key(c) : c \in Apks(cs)}}
    ELSE {<<c>> : c \in ToSet(cs)}

\* group_candidates: one group per package, or per container if there is no APK,
\* each with all that is no primary.
Groups(cs) ==
    IF Apks(cs) # {}
      THEN {Only(cs, {c \in Apks(cs) : Key(c) = key}) \o Only(cs, ToSet(cs) \ Apks(cs))
               : key \in {Key(c) : c \in Apks(cs)}}
    ELSE IF Containers(cs) # {}
      THEN {<<c>> \o Only(cs, ToSet(cs) \ Containers(cs)) : c \in Containers(cs)}
    ELSE {cs}

\* What two plans are compared by.
Fingerprint(plan) ==
    {[rule |-> i.rule, file |-> i.file, size |-> i.size, crc |-> i.crc] : i \in plan}

\* The plans of the groups that resolve, each with its first member's position.
Winners(cs) ==
    {<<Min({n \in DOMAIN cs : cs[n] = g[1]}), BestPlan(g)>> :
        g \in {g \in Groups(cs) : Fits(ToSet(g)) # {}}}

FirstOf(winners) ==
    [why |-> "plan", items |-> (CHOOSE w \in winners : \A other \in winners : w[1] <= other[1])[2]]

\* A slip: the first group that resolves is taken.
JudgeFirst(winners) ==
    IF winners = {} THEN Refused("no match") ELSE FirstOf(winners)

\* Groups that resolve must agree; the first one's plan is taken.
Judge(winners) ==
    IF winners = {} THEN Refused("no match")
    ELSE IF \E v, w \in winners : Fingerprint(v[2]) # Fingerprint(w[2]) THEN Refused("versions")
    ELSE FirstOf(winners)

\* resolve_plan.  Every APK's package is read first; zlib.error is no error that
\* Archive.package or the importer expects.
Decide(cs) ==
    IF cs = <<>> THEN Refused("no package")
    ELSE IF \E c \in Apks(cs) : What[c].package = Corrupt THEN Refused("crashed")
    ELSE Judge(Winners(cs))

-----------------------------------------------------------------------------
(* A run of the importer.                                                  *)

\* discover: every regular file and folder; one that cannot be opened is skipped.
Readable(d) == What[d].form # "broken" /\ (What[d].form = "tree" => What[d].entries # {})

Found(ds) == Only(ds, {d \in ToSet(ds) : Readable(d)})

\* A bundle is a zip that is no APK and holds some.
IsBundle(c) == What[c].form = "zip" /\ ~IsApk(c) /\ What[c].inner # <<>>

InnersOf(cs) == FlattenSeq([n \in DOMAIN cs |->
                             IF IsBundle(cs[n]) THEN What[cs[n]].inner ELSE <<>>])

\* A run ends; what it had gathered goes with it.
End(result) == pc' = "off" /\ verdict' = result /\ todo' = <<>> /\ seen' = <<>>

Discover ==
    /\ pc = "off"
    /\ LET found == Found(listing) IN
       IF \E c \in ToSet(found) : IsBundle(c) /\ Len(What[c].inner) > Limit
         THEN End(Refused("failed"))
         ELSE /\ pc' = "expanding"
              /\ seen' = found
              /\ todo' = InnersOf(found)
              /\ verdict' = Undecided
    /\ UNCHANGED <<listing, cache, fresh, cuts>>

\* A copy of the expected size is reused, whatever it holds.
Reused(state) == state # "none"

\* A copy is a candidate if its directory opens and lists a manifest.
Opens(a, state) == state \in Opening /\ Readable(a) /\ IsApk(a)

\* A slip: what is in the cache already is passed over.
UnpackOnce ==
    /\ pc = "expanding"
    /\ todo # <<>>
    /\ LET a == Head(todo) IN
          /\ cache' = IF Reused(cache[a]) THEN cache ELSE [cache EXCEPT ![a] = "whole"]
          /\ fresh' = IF Reused(cache[a]) THEN fresh ELSE fresh \cup {a}
          /\ seen' = IF Opens(a, cache'[a]) /\ ~Reused(cache[a])
                       THEN Append(seen, Copy(a, cache'[a])) ELSE seen
    /\ todo' = Tail(todo)
    /\ UNCHANGED <<listing, pc, verdict, cuts>>

\* expand_bundles: the next inner APK, copied unless the cache has it.
Unpack ==
    /\ pc = "expanding"
    /\ todo # <<>>
    /\ LET a == Head(todo) IN
          /\ cache' = IF Reused(cache[a]) THEN cache ELSE [cache EXCEPT ![a] = "whole"]
          /\ fresh' = IF Reused(cache[a]) THEN fresh ELSE fresh \cup {a}
          /\ seen' = IF Opens(a, cache'[a]) THEN Append(seen, Copy(a, cache'[a])) ELSE seen
    /\ todo' = Tail(todo)
    /\ UNCHANGED <<listing, pc, verdict, cuts>>

\* A member that does not read back ends the run.
UnpackFails ==
    /\ pc = "expanding"
    /\ todo # <<>>
    /\ ~Reused(cache[Head(todo)])
    /\ End(Refused("failed"))
    /\ UNCHANGED <<listing, cache, fresh, cuts>>

\* The plan; what follows it syncs the card.
Resolve ==
    /\ pc = "expanding"
    /\ todo = <<>>
    /\ End(Decide(seen))
    /\ fresh' = IF verdict'.why = "plan" THEN {} ELSE fresh
    /\ UNCHANGED <<listing, cache, cuts>>

\* The importer is killed: a copy under way stays a ".part".
Kill ==
    /\ pc # "off"
    /\ cuts < MaxCuts
    /\ cuts' = cuts + 1
    /\ End(Undecided)
    /\ UNCHANGED <<listing, cache, fresh>>

\* Power fails: any bytes of a copy that nothing has synced may be missing, though its
\* name and size are there.
PowerCut ==
    /\ cuts < MaxCuts
    /\ cuts' = cuts + 1
    /\ End(Undecided)
    /\ \E found \in [fresh -> Opening \cup {"lost"}] :
          cache' = [a \in Inners |-> IF a \in fresh THEN found[a] ELSE cache[a]]
    /\ fresh' = {}
    /\ listing' = listing

\* The user removes a donor, as the messages advise.
Take ==
    /\ pc = "off"
    /\ \E n \in DOMAIN listing : listing' = RemoveAt(listing, n)
    /\ verdict' = Undecided
    /\ UNCHANGED <<cache, fresh, pc, todo, seen, cuts>>

Next == Discover \/ Unpack \/ UnpackFails \/ Resolve \/ Kill \/ PowerCut \/ Take

Spec == Init /\ [][Next]_vars

-----------------------------------------------------------------------------
(* Properties.                                                             *)

\* What may become a candidate.
Known == Donors \cup {Copy(a, state) : a \in Inners, state \in Opening}

TypeOK ==
    /\ listing \in Seq(Donors)
    /\ cache \in [Inners -> States]
    /\ fresh \subseteq Inners
    /\ pc \in {"off", "expanding"}
    /\ todo \in Seq(Inners)
    /\ seen \in Seq(Known)
    /\ verdict.why \in {"none", "failed", "crashed", "no package", "no match", "versions", "plan"}

Decided == verdict.why \notin {"none", "failed", "crashed"}

\* The candidates of the inner APKs as, with copies that read as reads says.
CopiesOf(as, reads) ==
    LET open == Only(as, {a \in Inners : Opens(a, reads[a])})
    IN  [n \in DOMAIN open |-> Copy(open[n], reads[open[n]])]

\* The candidates that donors ds amount to.
CandidatesAs(ds, reads) == Found(ds) \o CopiesOf(InnersOf(Found(ds)), reads)
Candidates(ds)          == CandidatesAs(ds, cache)

Pristine == [a \in Inners |-> "whole"]

Bytes(items) == {<<i.file, i.content>> : i \in items}

\* The donors on the card, in any order.
Listings == {ds \in [DOMAIN listing -> ToSet(listing)] : ToSet(ds) = ToSet(listing)}

\* What earlier runs left in the cache, killed or not, never changes a decision, save
\* through copies that a power cut tore: while none of these is an APK of a bundle on the
\* card, the decision is the one that the donors alone lead to, and else it is the one
\* for the donors and what those copies read as.
DecidedByCard ==
    Decided =>
        /\ verdict = Decide(Candidates(listing))
        /\ (\A a \in ToSet(InnersOf(Found(listing))) : cache[a] \in {"none", "whole"})
              => verdict = Decide(CandidatesAs(listing, Pristine))

\* android_package: "an unknown package is a grouping hint we do without, never a reason
\* to fail".  A manifest that does not decompress is one (EapxCorrupt.cfg).
HintNeverFails == verdict.why # "crashed"

\* The decision that was made, with the bytes it chose where they can be told apart.
SameAs(other) ==
    /\ other.why = verdict.why
    /\ Fingerprint(other.items) = Fingerprint(verdict.items)
    /\ (\A c, d \in ToSet(listing) : What[c].form = "tree" /\ What[d].form = "tree" => c = d)
          => Bytes(other.items) = Bytes(verdict.items)

\* README.md: "The filenames do not matter".  In any other order the decision is
\* the same, and so are the bytes unless two folders, which have no checksums,
\* are on the card.
NamesDoNotMatter == Decided => \A ds \in Listings : SameAs(Decide(Candidates(ds)))

\* No plan takes files from the APKs of two games, or from an APK nobody could
\* identify and another.
OneGame ==
    \A c, d \in {c \in {i.from : i \in verdict.items} : IsApk(c)} :
        c # d => What[c].package = What[d].package /\ What[c].package # Unreadable

\* What a rule would take from some candidate.
Offers(cs) ==
    UNION {UNION {Hits(k, ToSet(cs), p, Abis[1]) : p \in ToSet(Rules[k].patterns)}
             : k \in DOMAIN Rules}

\* The candidates have something for every rule that needs it, and never two
\* different things for one destination.
Sufficient(cs) ==
    /\ \A k \in DOMAIN Rules : Rules[k].required => \E i \in Offers(cs) : i.rule = k
    /\ Agree(Offers(cs))

Everything(cs) ==
    verdict.why = "plan" /\ {i.file : i \in verdict.items} = {i.file : i \in Offers(cs)}

\* The games whose APKs are among the candidates.
Games(cs) == {Key(c) : c \in Apks(cs)}

\* A game's APKs with anything else beside them, bundled or loose, are enough if
\* together they suffice, and nothing that they offer is left out.
ApkAndDataSuffice ==
    LET cs == Candidates(listing) IN
    Decided /\ Sufficient(cs) /\ Cardinality(Games(cs)) = 1 => Everything(cs)

\* The same in "a folder, a ZIP or an APK, in any combination"
\* (ports/realracing3/README.md): with the game's APK or without one.  Without,
\* every container is tried alone, and this is false (EapxCombination.cfg).
AnyCombination ==
    LET cs == Candidates(listing) IN
    Decided /\ Sufficient(cs) /\ Cardinality(Games(cs)) <= 1 => Everything(cs)

=============================================================================
