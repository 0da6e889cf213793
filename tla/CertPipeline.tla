---------------------------- MODULE CertPipeline ----------------------------
(***************************************************************************)
(* The deploy pipeline from a build to a started sidecar.                  *)
(*                                                                         *)
(* cargo-attest builds the workspace; the plugin writes                    *)
(* policy_hashes/<crate>_policy_hashes.json for each crate that uses       *)
(* alohomora and leaves every other file of the directory as it was.  The  *)
(* issuer (certificate_generation) lists the executables of target/release,*)
(* looks for <file name>_policy_hashes.json for each, hashes them, keeps   *)
(* those with both, and writes <file name>_certificate.json for each,      *)
(* leaving older certificates in place.  config_parser lists               *)
(* <key>_certificate.json for every binary key of the metadata, and the    *)
(* sidecar's CertificateLoader registers each one at startup, panicking on *)
(* the first that fails.                                                   *)
(*                                                                         *)
(* A binary's content and a policy file's summary line are the number of   *)
(* the build that wrote them; 0 is a file that does not exist.  The        *)
(* metadata's binary keys are the executables' file names, as              *)
(* register_service requires of the certificate the issuer names after the *)
(* file.  Edit is a developer adding alohomora to a binary's crate or, for *)
(* the binaries in Removable, taking it out.                               *)
(***************************************************************************)
EXTENDS Naturals, FiniteSets

CONSTANTS
    Bins,        \* binary keys of the project metadata = executable file names
    CrateOf,     \* CrateOf[b]: the crate name rustc gives b's main crate
    InitUses,    \* binaries whose crate uses alohomora at first
    Removable,   \* binaries whose crate may stop using alohomora
    MaxBuild,    \* builds in a behaviour
    None

ASSUME
    /\ DOMAIN CrateOf = Bins
    /\ InitUses \subseteq Bins /\ Removable \subseteq Bins
    /\ MaxBuild \in Nat \ {0}

\* names of policy-hash files the plugin can write
Names == Bins \cup {CrateOf[b] : b \in Bins}
Builds == 1..MaxBuild
Cert == [svc : Bins, pol : Builds, bin : Builds]

VARIABLES
    uses,       \* binaries whose crate currently uses alohomora
    gen,        \* number of the last build; 0 before the first
    binUses,    \* binaries built, in the last build, with alohomora
    policyDir,  \* policy_hashes/: name -> build that wrote its file, or 0
    certDir,    \* certificates/: binary -> certificate, or None
    issuedGen,  \* the build the issuer last ran on
    conf,       \* certificate_config.toml and sidecar_config.toml written
    sidecar,    \* "stopped", "running" or "panicked"
    loaded      \* the CertificateLoader's certificates

vars == <<uses, gen, binUses, policyDir, certDir, issuedGen, conf, sidecar,
          loaded>>

\* CertificateLoader::new: no certificate loaded for any service.
EmptyLoader == [b \in Bins |-> None]

\* A fresh checkout before any tool has run: no build output, no policy
\* files, no certificates, no configs, and the sidecar not started.
Init ==
    /\ uses = InitUses
    /\ gen = 0
    /\ binUses = {}
    /\ policyDir = [n \in Names |-> 0]
    /\ certDir = [b \in Bins |-> None]
    /\ issuedGen = 0
    /\ conf = FALSE
    /\ sidecar = "stopped"
    /\ loaded = EmptyLoader

-----------------------------------------------------------------------------
(* The issuer's helpers.                                                   *)
\* find_binaries_in_target: the executables of target/release, which exists
\* once a build has run.
FindBinaries == IF gen > 0 THEN Bins ELSE {}

\* match_policies_to_bin: the first line of <file name>_policy_hashes.json.
MatchPolicies(bins) ==
    [b \in {x \in bins : x \in Names /\ policyDir[x] # 0} |-> policyDir[b]]

\* hash_binaries: the content hash of each executable.
HashBinaries(bins) == [b \in bins |-> gen]

\* Mutant: an outer join, keeping binaries without a policy file.
MergeMapsOuter(pols, hashes) ==
    [b \in DOMAIN hashes |->
        [pol |-> IF b \in DOMAIN pols THEN pols[b] ELSE 0, bin |-> hashes[b]]]

\* merge_maps: the binaries with both a policy hash and a binary hash.
MergeMaps(pols, hashes) ==
    [b \in DOMAIN pols \cap DOMAIN hashes |-> [pol |-> pols[b], bin |-> hashes[b]]]

\* gen_certificate: signs the pair for the service named after the file.
GenCertificate(b, data) == [svc |-> b, pol |-> data.pol, bin |-> data.bin]

-----------------------------------------------------------------------------
\* A developer adds alohomora to b's crate, or removes it.
Edit(b) ==
    /\ b \notin uses \/ b \in Removable
    /\ uses' = IF b \in uses THEN uses \ {b} ELSE uses \cup {b}
    /\ UNCHANGED <<gen, binUses, policyDir, certDir, issuedGen, conf, sidecar,
                   loaded>>

\* Mutant: the plugin writes the summary of the previous build.
BuildStale ==
    /\ gen < MaxBuild
    /\ gen' = gen + 1
    /\ binUses' = uses
    /\ policyDir' = [n \in Names |->
                       IF \E b \in uses : CrateOf[b] = n THEN gen ELSE policyDir[n]]
    /\ UNCHANGED <<uses, certDir, issuedGen, conf, sidecar, loaded>>

\* cargo attest: a build of the workspace.  cargo-attest truncates the index
\* but removes no policy-hash file; only crates using alohomora write theirs.
Build ==
    /\ gen < MaxBuild
    /\ gen' = gen + 1
    /\ binUses' = uses
    /\ policyDir' = [n \in Names |->
                       IF \E b \in uses : CrateOf[b] = n THEN gen + 1 ELSE policyDir[n]]
    /\ UNCHANGED <<uses, certDir, issuedGen, conf, sidecar, loaded>>

\* certificate_generation's main: certificates of the merged binaries are
\* (over)written, the others left as they are.
Issue ==
    LET bins   == FindBinaries
        merged == MergeMaps(MatchPolicies(bins), HashBinaries(bins))
    IN  /\ certDir' = [b \in Bins |->
                         IF b \in DOMAIN merged THEN GenCertificate(b, merged[b])
                         ELSE certDir[b]]
        /\ issuedGen' = gen
        /\ UNCHANGED <<uses, gen, binUses, policyDir, conf, sidecar, loaded>>

\* config_parser's main writes both configs.
Materialize ==
    /\ conf' = TRUE
    /\ UNCHANGED <<uses, gen, binUses, policyDir, certDir, issuedGen, sidecar,
                   loaded>>

\* SideCarServer::new, run after a build, the issuer on that build and
\* config_parser: into_loader registers every entry of
\* certificate_config.toml, and a missing file is an Err that new expects.
Start ==
    /\ sidecar = "stopped"
    /\ conf
    /\ gen > 0 /\ issuedGen = gen
    /\ IF \A b \in Bins : certDir[b] # None
       THEN /\ sidecar' = "running"
            /\ loaded' = certDir
       ELSE /\ sidecar' = "panicked"
            /\ UNCHANGED loaded
    /\ UNCHANGED <<uses, gen, binUses, policyDir, certDir, issuedGen, conf>>

\* The sidecar process exits and can be started again.
Stop ==
    /\ sidecar # "stopped"
    /\ sidecar' = "stopped"
    /\ loaded' = [b \in Bins |-> None]
    /\ UNCHANGED <<uses, gen, binUses, policyDir, certDir, issuedGen, conf>>

Next ==
    \/ \E b \in Bins : Edit(b)
    \/ Build \/ Issue \/ Materialize \/ Start \/ Stop

Spec == Init /\ [][Next]_vars

-----------------------------------------------------------------------------
TypeOK ==
    /\ uses \subseteq Bins /\ binUses \subseteq Bins
    /\ gen \in 0..MaxBuild /\ issuedGen \in 0..MaxBuild
    /\ policyDir \in [Names -> 0..MaxBuild]
    /\ certDir \in [Bins -> Cert \cup {None}]
    /\ conf \in BOOLEAN
    /\ sidecar \in {"stopped", "running", "panicked"}
    /\ loaded \in [Bins -> Cert \cup {None}]

\* Certificates tell the truth about policies (the issuer's file-name match
\* against what cargo-attest leaves in policy_hashes/): while the sidecar
\* runs, a certificate it serves for the binary of the current build was
\* issued for a build of that binary with alohomora, and claims the policy
\* summary of that same build.
CertificateClaimsTrue ==
    sidecar = "running" =>
        \A b \in Bins :
            loaded[b].bin = gen => b \in binUses /\ loaded[b].pol = gen

\* The documented deploy order starts the sidecar (issuer, config_parser and
\* CertificateLoader agree on which certificates exist): run after the
\* certificates of the current build are issued and the configs written,
\* SideCarServer::new never panics on a missing certificate.
NoStartupPanic == sidecar # "panicked"

=============================================================================
