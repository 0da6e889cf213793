---------------------------- MODULE PolicyRollup ----------------------------
(***************************************************************************)
(* Build-time policy hashing and dependency roll-up (policy_signing).      *)
(*                                                                         *)
(* cargo-attest truncates policy_hashes/hash_index, then cargo runs rustc  *)
(* with the plugin on every crate, a crate only once the crates it uses    *)
(* are built, and unrelated crates in parallel.  In each crate that uses   *)
(* alohomora, after_analysis runs attest_crate: prune_deps reads the index *)
(* and keeps the used crates listed there, sorted; get_leaves reads the    *)
(* first line of each one's policy-hash file; dump_local_to_file creates   *)
(* (truncates) the crate's own file, appends the crate to the index, and   *)
(* writes the summary line followed by the JSON document.                  *)
(*                                                                         *)
(* A crate's policy-hash file and its index line are keyed by its name,   *)
(* tcx.crate_name, which two crates can share: a package's library and     *)
(* binary both take the package's name.  Names are naturals, ordered as    *)
(* the names sort.  A hash is the                                          *)
(* record [sha256 |-> input]: injective, so a property can read back what  *)
(* a summary commits to.  An impl's MIR fingerprint is <<crate, impl>>.    *)
(* serde_json writes a HashMap in its iteration order, which RandomState   *)
(* makes arbitrary: any permutation of the entries.                        *)
(***************************************************************************)
EXTENDS Naturals, Sequences, SequencesExt, FiniteSets

CONSTANTS
    Crates,      \* crates of the dependency graph
    UsedCrates,  \* UsedCrates[c]: tcx.used_crates of c
    CrateName,   \* CrateName[c]: tcx.crate_name of c
    Sesame,      \* crates whose used crates include alohomora
    Impls        \* Impls[c]: local impl Policy blocks of c (type paths)

ASSUME
    /\ Crates \subseteq Nat
    /\ UsedCrates \in [Crates -> SUBSET Crates]
    /\ CrateName \in [Crates -> Nat]
    /\ Sesame \subseteq Crates
    /\ Impls \in [Crates -> SUBSET Nat]
    \* the graph is acyclic and UsedCrates is transitive
    /\ \A c \in Crates : c \notin UsedCrates[c]
    /\ \A c \in Crates : \A d \in UsedCrates[c] : UsedCrates[d] \subseteq UsedCrates[c]

VARIABLES
    pc,       \* progress of rustc + plugin on each crate
    deps,     \* Crate.dependencies_names
    hashes,   \* Crate.dependencies_hashes
    present,  \* names whose policy-hash file exists on disk
    file,     \* lines of each name's policy-hash file
    index     \* policy_hashes/hash_index: the write(2)s appended to it, in order

vars == <<pc, deps, hashes, present, file, index>>

Names == {CrateName[c] : c \in Crates}

Digest(x) == [sha256 |-> x]
Json(c) == [json |-> c]
Less(a, b) == a < b

\* what one write(2) appends to the index: a crate name, or the newline
Tok(n) == [name |-> n]
NL == [newline |-> TRUE]

\* BufReader::lines of the index: a crate name is a line holding exactly it,
\* that is a name with a newline (or either end of the file) on both sides
IndexNames ==
    {n \in Names : \E k \in 1..Len(index) :
        /\ index[k] = Tok(n)
        /\ k = 1 \/ index[k - 1] = NL
        /\ k = Len(index) \/ index[k + 1] = NL}

\* local_implementations_stable_hashes: type path -> fingerprint
ImplPairs(c) == {<<i, <<c, i>>>> : i \in Impls[c]}

\* the zip of dependencies_names with dependencies_hashes in dump_local_to_file
DepPairs(c) == {<<deps[c][k], hashes[c][k]>> : k \in 1..Min({Len(deps[c]), Len(hashes[c])})}

\* total_hash = sha256(sha256(deps json) ++ sha256(impls json))
Summary(depOrder, implOrder) == Digest(<<Digest(depOrder), Digest(implOrder)>>)

Init ==
    /\ pc = [c \in Crates |-> "wait"]
    /\ deps = [c \in Crates |-> <<>>]
    /\ hashes = [c \in Crates |-> <<>>]
    /\ present = {}
    /\ file = [n \in Names |-> <<>>]
    /\ index = <<>>

-----------------------------------------------------------------------------
\* fetch_dependencies: the names of the crates c uses.
UsedNames(c) == {CrateName[d] : d \in UsedCrates[c]}

\* Mutant: cargo starts a crate before the crates it uses are built.
StartEager(c) ==
    /\ pc[c] = "wait"
    /\ IF c \in Sesame
       THEN /\ \E order \in SetToSeqs(UsedNames(c)) : deps' = [deps EXCEPT ![c] = order]
            /\ pc' = [pc EXCEPT ![c] = "fetched"]
       ELSE /\ pc' = [pc EXCEPT ![c] = "done"]
            /\ UNCHANGED deps
    /\ UNCHANGED <<hashes, present, file, index>>

\* cargo starts c once everything it uses is built; from_compiler yields
\* None without alohomora (Continue), else fetch_dependencies.
Start(c) ==
    /\ pc[c] = "wait"
    /\ \A d \in UsedCrates[c] : pc[d] = "done"
    /\ IF c \in Sesame
       THEN /\ \E order \in SetToSeqs(UsedNames(c)) : deps' = [deps EXCEPT ![c] = order]
            /\ pc' = [pc EXCEPT ![c] = "fetched"]
       ELSE /\ pc' = [pc EXCEPT ![c] = "done"]
            /\ UNCHANGED deps
    /\ UNCHANGED <<hashes, present, file, index>>

\* Mutant: the pruned list keeps the HashSet intersection's order.
PruneDepsUnsorted(c) ==
    /\ pc[c] = "fetched"
    /\ \E order \in SetToSeqs(ToSet(deps[c]) \cap IndexNames) :
          deps' = [deps EXCEPT ![c] = order]
    /\ pc' = [pc EXCEPT ![c] = "pruned"]
    /\ UNCHANGED <<hashes, present, file, index>>

\* Mutant: no intersection with the index.
PruneDepsUnfiltered(c) ==
    /\ pc[c] = "fetched"
    /\ deps' = [deps EXCEPT ![c] = SetToSortSeq(ToSet(deps[c]), Less)]
    /\ pc' = [pc EXCEPT ![c] = "pruned"]
    /\ UNCHANGED <<hashes, present, file, index>>

\* prune_deps: used crates also named in the index, sorted.  cargo-attest
\* creates the index before the build, so opening it does not fail.
PruneDeps(c) ==
    /\ pc[c] = "fetched"
    /\ deps' = [deps EXCEPT ![c] = SetToSortSeq(ToSet(deps[c]) \cap IndexNames, Less)]
    /\ pc' = [pc EXCEPT ![c] = "pruned"]
    /\ UNCHANGED <<hashes, present, file, index>>

\* get_leaves: the first line of each dependency's file, sorted by name.  A
\* missing or empty file is an Err, and after_analysis stops the crate.
GetLeaves(c) ==
    /\ pc[c] = "pruned"
    /\ IF \A d \in ToSet(deps[c]) : d \in present /\ file[d] # <<>>
       THEN LET sorted == SetToSortSeq(ToSet(deps[c]), Less) IN
            /\ hashes' = [hashes EXCEPT ![c] = [k \in DOMAIN sorted |-> file[sorted[k]][1]]]
            /\ pc' = [pc EXCEPT ![c] = "leaves"]
       ELSE /\ pc' = [pc EXCEPT ![c] = "failed"]
            /\ UNCHANGED hashes
    /\ UNCHANGED <<deps, present, file, index>>

\* dump_local_to_file: File::create, which truncates.
Create(c) ==
    /\ pc[c] = "leaves"
    /\ present' = present \cup {CrateName[c]}
    /\ file' = [file EXCEPT ![CrateName[c]] = <<>>]
    /\ pc' = [pc EXCEPT ![c] = "created"]
    /\ UNCHANGED <<deps, hashes, index>>

\* register_to_index: write!(index_file, "{}\n", name) on an unbuffered
\* O_APPEND File, which fmt::write issues as two write(2)s: the name ...
RegisterName(c) ==
    /\ pc[c] = "created"
    /\ index' = Append(index, Tok(CrateName[c]))
    /\ pc' = [pc EXCEPT ![c] = "naming"]
    /\ UNCHANGED <<deps, hashes, present, file>>

\* Mutant: the newline is not written, as in the older add_to_hash_index.
RegisterNoNewline(c) ==
    /\ pc[c] = "naming"
    /\ pc' = [pc EXCEPT ![c] = "registered"]
    /\ UNCHANGED <<deps, hashes, present, file, index>>

\* ... and then the newline.
RegisterNewline(c) ==
    /\ pc[c] = "naming"
    /\ index' = Append(index, NL)
    /\ pc' = [pc EXCEPT ![c] = "registered"]
    /\ UNCHANGED <<deps, hashes, present, file>>

\* Mutant: the JSON document is written before the summary line.
WriteSummaryJsonFirst(c) ==
    /\ pc[c] = "registered"
    /\ \E depOrder \in SetToSeqs(DepPairs(c)), implOrder \in SetToSeqs(ImplPairs(c)) :
          file' = [file EXCEPT ![CrateName[c]] = <<Json(c), Summary(depOrder, implOrder)>>]
    /\ pc' = [pc EXCEPT ![c] = "done"]
    /\ UNCHANGED <<deps, hashes, present, index>>

\* Serialise both HashMaps in iteration order, hash, write the summary line
\* and then the JSON document.
WriteSummary(c) ==
    /\ pc[c] = "registered"
    /\ \E depOrder \in SetToSeqs(DepPairs(c)), implOrder \in SetToSeqs(ImplPairs(c)) :
          file' = [file EXCEPT ![CrateName[c]] = <<Summary(depOrder, implOrder), Json(c)>>]
    /\ pc' = [pc EXCEPT ![c] = "done"]
    /\ UNCHANGED <<deps, hashes, present, index>>

Next ==
    \E c \in Crates :
        \/ Start(c) \/ PruneDeps(c) \/ GetLeaves(c)
        \/ Create(c) \/ RegisterName(c) \/ RegisterNewline(c)
        \/ WriteSummary(c)

Spec == Init /\ [][Next]_vars

-----------------------------------------------------------------------------
Attested == {c \in Sesame : pc[c] = "done"}

\* the summary line of a written policy-hash file, and the dependency map
\* serialisation that it commits to
SummaryLine(c) == file[CrateName[c]][1]
RolledUp(c) == ToSet(SummaryLine(c).sha256[1].sha256)

TypeOK ==
    /\ pc \in [Crates -> {"wait", "fetched", "pruned", "leaves", "created",
                          "naming", "registered", "done", "failed"}]
    /\ deps \in [Crates -> Seq(Names)]
    /\ present \subseteq Names
    /\ index \in Seq({Tok(n) : n \in Names} \cup {NL})
    /\ \A c \in Crates : \A k \in 1..Len(hashes[c]) :
          DOMAIN hashes[c][k] = {"sha256"}
    /\ \A n \in present : file[n] # <<>> => DOMAIN file[n][1] = {"sha256"}

\* Roll-up completeness (prune_deps against the index register_to_index
\* builds): every finished crate's summary covers exactly the policy-bearing
\* crates it uses, whatever order cargo built the others in.
RollupComplete ==
    \A c \in Attested :
        {p[1] : p \in RolledUp(c)} = {CrateName[d] : d \in UsedCrates[c] \cap Sesame}

\* Names and hashes stay paired (prune_deps sorts the names, get_leaves
\* sorts the hashes, dump_local_to_file zips them): each dependency in a
\* summary is committed with the summary line that dependency wrote.
RollupPairsMatch ==
    \A c \in Attested : \A p \in RolledUp(c) :
        p[1] \in present /\ file[p[1]] # <<>> /\ p[2] = file[p[1]][1]

\* Under cargo's ordering no crate fails in get_leaves: every dependency the
\* pruned list names has a complete policy-hash file.
NoCrateFails ==
    \A c \in Crates : pc[c] # "failed"

\* Reference: the summary of spec S1/S2, both maps serialised sorted by key,
\* dependencies carrying their own canonical summaries.
RECURSIVE CanonicalSummary(_)
CanonicalSummary(c) ==
    LET ds == SetToSortSeq(UsedCrates[c] \cap Sesame,
                           LAMBDA a, b : Less(CrateName[a], CrateName[b]))
        is == SetToSortSeq(Impls[c], Less)
    IN  Summary([k \in DOMAIN ds |-> <<CrateName[ds[k]], CanonicalSummary(ds[k])>>],
                [k \in DOMAIN is |-> <<is[k], <<c, is[k]>>>>])

\* Hash stability (spec 8.1, 8.2): a finished crate's summary line is the
\* canonical one, the same on every build of the same tree.
SummaryCanonical ==
    \A c \in Attested : SummaryLine(c) = CanonicalSummary(c)

-----------------------------------------------------------------------------
\* The roll-up as RollupAtomic sees it: a crate is built once rustc and the
\* plugin are done with it, and its summary is its file's first line.
Atomic == INSTANCE RollupAtomic WITH
    done <- [c \in Crates |-> pc[c] = "done"],
    summary <- [c \in Crates |->
                  IF pc[c] = "done" /\ c \in Sesame /\ file[CrateName[c]] # <<>>
                  THEN SummaryLine(c)
                  ELSE Digest(<<>>)]

\* Refinement (prune_deps, get_leaves and dump_local_to_file against the
\* one-step roll-up of spec 4.B): every build, through the shared index and
\* files, publishes for each crate the summary the one-step roll-up would.
RollupRefinement == Atomic!Spec

=============================================================================
