# TLA+ models of tahini_lib

This directory holds TLA+ models of the Tahini attestation system in `src/`.
TLC checks them. The runs are listed in `PROJECT.json`, and every modelled
definition there names the source lines it translates.

## The system

**Build phase** (offline, sequential per crate):

| Part | Source | State and operations |
|------|--------|----------------------|
| A. Policy hasher | `policy_signing/src/lib.rs`, `bin/cargo-attest.rs` | A rustc callback (`after_analysis`) runs once per crate that uses `alohomora`. `cargo-attest` truncates `policy_hashes/hash_index` before the build starts. |
| B. Dependency roll-up | `policy_signing/src/utils/dependency.rs` | `prune_deps` intersects the used crates with the index and sorts them. `get_leaves` reads the first line of each dependency's hash file. `dump_local_to_file` truncates the crate's file, appends the crate to the index, then writes the summary line and the JSON. |
| C. Certificate issuer | `certificate_generation/src/main.rs` | Finds the executables, matches them to policy files, hashes them, and signs `policy_hash‖bin_hash`. A binary without a policy file is dropped. |
| D. Config materializer | `config_parser/src/main.rs` | Writes `certificate_config.toml`, with a certificate path for every binary, and `sidecar_config.toml`. |

**Runtime:**

| Part | Source | State and operations |
|------|--------|----------------------|
| E. Certificate store | `hoodini-core/src/certificate.rs` | service → certificate; `register_service`, `get_certificate`. |
| F. Sidecar | `sidecar/src/main.rs`, `tahini_attest/src/sidecar.rs` | At startup: hash each binary, `launch_binary` (mkfifo, spawn, open the writer), `setup_service_key_channel`. Then one tokio task per RPC runs `attest_binary`. |
| G. Protocol | `hoodini-core/src/service.rs`, `types.rs` | X25519 shares and SSKDF (`derive_key_from_shares`). The signed `DynamicAttestationData` covers the certificate, the nonce, the service, the hash, the server share and the client id. |
| H. Service ingress | `hoodini-server/src/lib.rs` (the same code is in `tahini_attest/src/server.rs`) | A ctor thread loops on `read_session_key` and inserts into `CLIENT_MAP` (a std `RwLock`). Handlers call `get_key_for_client`, which takes the write lock, calls `remove_entry`, and panics if the key is absent. |
| I. Client verifier | `hoodini-client/src/lib.rs` | `verify_binary`: make a nonce and a share, make the RPC, check the certificate, the hash and the signature, then derive the key. |

How the runtime parts interact:
- A client sends an RPC to the sidecar.
- The sidecar task takes the **global** tokio `Mutex` that guards every service's FIFO writer. It writes `nonce,cipher,id\n` with `write!`, which issues several `write(2)` calls, then releases the mutex and returns the report.
- The service's reader thread parses the line and inserts the key.
- Later, the client's RPCs to the service carry the `ClientId`, and the handler removes the key.

## Modules

### `SessionDelivery` (core, done)

This module models components F (`attest_binary`), G, H and I, and E as a
lookup.

| Variable | Code |
|----------|------|
| `client` | the state of `verify_binary` |
| `requests` | RPCs in flight |
| `task[t]` | the `attest_binary` future for request `t`: pc `none → signed → locked → body → done`, or `cancelled` / `panicked` |
| `signed` | the signed `DynamicAttestationData` values |
| `responses` | the reports sent back to clients |
| `mutex` | the holder of `service_key_passing_sessions` |
| `pipe[s]` | bytes in service `s`'s FIFO, at most `PipeCapacity` tokens |
| `rbuf[s]` | the current `BufReader` buffer |
| `reader[s]` | the ingress thread |
| `cmap[s]` | `CLIENT_MAP` |
| `poisoned[s]` | the RwLock's poison flag |
| `taken` | history: keys handed to handlers |
| `fifoLog` | history: all writes to the FIFO |

| Action | Code |
|--------|------|
| `ClientRequest`, `ClientTimeout`, `ClientReceive` | `verify_binary` lines 74-142. `ClientRequest` looks the service name up in `ServiceToBin`, the reverse of `ServiceMapping` that `register_bin_mapping` builds, and fails with `ServiceMismatchError` for a name the config does not map. |
| `Prepare` | `attest_binary` lines 111-146 |
| `Lock` | line 148 |
| `WriteBody`, `WriteEnd` | the `write(2)`s of `write_session_key`, and the return of the report |
| `WritePanics` | `EPIPE` after the reader has died |
| `Cancel` | tarpc dropping the future at an await |
| `ReadChunk` | one `read(2)` that returns any non-empty prefix of the pipe |
| `DeliverLine` | parse, insert (`InsertKey`: the ctor loop's `CLIENT_MAP.write().expect(..).insert`, lines 34-41), then drop the `BufReader` |
| `ClientCall`, `ForgeCall` | `get_key_for_client`, for the attested client or for anyone |
| `SwapShare` | a man in the middle who replaces the unsigned client share |

Data is abstract:
- Nonce and client share: both are the client, since both are fresh random values.
- Sidecar share: `SidecarShare(t)`.
- Key: the pair of shares.
- Hash: `CertHash`, or `BadHash` for the binaries in `Tampered`.
- Signature check: membership in `signed`.
- FIFO contents: `Body(key)` tokens (the nonce and the cipher) and `End(id)` tokens (the id and `\n`).

The pipe is bounded: `Emit` waits while `pipe[s]` holds `PipeCapacity`
tokens, as a blocking `write(2)` on a full pipe does, and it waits with the
global mutex held. The kernel's 64 KiB becomes 2 tokens in `session_safety`,
one whole line, so a full pipe and a writer waiting on the reader both
happen.

The adversary's moves are chosen by `Attacks ⊆ {"replay", "swap_share", "forge_call"}`.

`SwapShare` shows that the client's key share is not in the signed data:
after a swap the client accepts the report, but the sidecar and the service
hold a key the client does not. Spec 8.5 states key agreement for every
accepted client, and spec 9 calls the unsigned share intentional. The project
checks key agreement only where the client's own share arrived
(`HonestKeyAgreement`), and records the swap as a hazard, not a finding.

### `SessionAbstract` (the promise of F–I)

`SessionAbstract` states runtime attestation as five events that a party
outside the sidecar can observe:
- `Mint`: a report is returned for a request, binding a fresh id to a key for one service;
- `Accept`: a client takes a session minted for its own request, and only if the service's binary is untampered;
- `Deliver`: a minted key becomes available in its own service's map, under its own id, at most once;
- `Take`: a handler removes an available key;
- `Poison`: a lookup of an absent id crashes the map for good.

Keys may be lost; the abstract spec does not force `Deliver`.

`SessionDelivery` instantiates it as `Abstract`:
- `Minted` is the set of tasks at pc `done`, with the id and key they wrote;
- `Holds` is each accepted client's service and id;
- `cmap`, `taken` and `poisoned` map to themselves.

`SessionRefinement == Abstract!Spec` is checked as a property in
`session_safety`. It says three things no single invariant says:
- a key reaches `CLIENT_MAP` only after its report is returned;
- it goes to its own service, under its own id, and is never replaced;
- each entry is taken at most once.

The first of these is why cancelling `attest_binary` cannot leak a key: no
await follows the FIFO write, so the write and the return of the report are
one step. A key can still be left in the map after that return: tarpc may
drop the response on its way out, or the client may time out and never call
the service. `SessionAbstract` allows this (a delivered key need not be
taken), and spec section 5 accepts the growth.

### `PolicyRollup` (components A and B, done)

This module models the build phase, one crate at a time, with shared files.

| Variable | Code |
|----------|------|
| `pc[c]` | rustc and the plugin on crate `c` |
| `deps[c]`, `hashes[c]` | `Crate.dependencies_names` and `dependencies_hashes` |
| `present`, `file[n]` | the policy-hash files on disk, keyed by crate name `n`: a summary line, then the JSON document |
| `index` | the `write(2)` calls appended to `hash_index`: `Tok(n)` for a crate name, `NL` for a newline. `IndexNames` is what `prune_deps` reads back: the names that fill a whole line. |

| Action | Code |
|--------|------|
| `Init` | `cargo-attest` creating the directory and truncating the index |
| `Start` | `after_analysis`: `from_compiler` and `fetch_dependencies`. Its guard is cargo's order: every crate the crate uses is built first, and unrelated crates run in parallel. |
| `PruneDeps` | `prune_deps` |
| `GetLeaves` | `get_leaves`. A missing or empty file is an `Err`, and the crate stops. |
| `Create`, `RegisterName`, `RegisterNewline`, `WriteSummary` | the externally visible steps of `dump_local_to_file`, in code order. `register_to_index`'s `write!(f, "{}\n", name)` on an unbuffered `File` is two `write(2)` calls, the name and then the newline, so it is two actions. |

Abstractions:
- A crate `c` and its name `CrateName[c]` (`tcx.crate_name`) are kept apart: files, index lines and `deps` hold names, and cargo's order is over crates. A package's library and binary are two crates with one name.
- Crate names are naturals, ordered as the names sort.
- A SHA-256 digest is `[sha256 |-> input]`. It is injective, so a property can read back what a summary line commits to.
- A `RandomState` HashMap serialises in an arbitrary order, so the model draws any permutation (`SetToSeqs`).

`CanonicalSummary` is a RECURSIVE operator over the crate graph. It computes
the spec's reference summary (S1/S2), with sorted maps.

`MCPolicyRollup` is a workspace of five crates:
- `alohomora` (1);
- two policy crates (2, 3), where crate 2 has two impls;
- a crate without policies (5);
- the binary (4), which uses all of them.

This is the smallest graph with a map of more than one entry on both sides
and a used crate that must be pruned. Every crate there has a name of its
own. In the parallel workspace (`index_interleave`, `hash_stability`) crates
2 and 3 are unrelated, so cargo builds them at once. In the serial workspace
(`rollup_safety`, `SerialUsedCrates`) crate 3 uses crate 2, so no two policy
crates register at once, and every other interleaving remains.

`name_collision` uses the `LibBin` workspace of `MCPolicyRollup`:
`alohomora` (1), a package whose library (2) and binary (3) are both named 2,
and a dependent of the library (4), which the binary may be built alongside.

### `RollupAtomic` (the promise of A and B)

`RollupAtomic` is an abstract build. Once every crate a crate uses is built,
the crate publishes, in one step, a summary that commits to:
- each policy-bearing used crate, together with that crate's published summary;
- its own impl fingerprints.

`PolicyRollup` instantiates it as `Atomic`. A crate counts as built when its
pc is `done`, and its published summary is its file's first line.
`RollupRefinement == Atomic!Spec` is checked as a property. Under this
mapping, only `WriteSummary` and `Start` of a crate without policies are
visible steps; every other step stutters.

### `SidecarStartup` (F startup, H ctor)

This module models the sidecar's launch loop (`sidecar/src/main.rs` 191-208,
`launch_binary`), the service's `#[ctor]` and its reader thread, and anyone
who can write a binary's path.

| Variable | Code |
|----------|------|
| `spc`, `cur`, `todo`, `curHash` | where `main` is in its loop over the `HashMap` of binaries, and `hash_bin`'s result |
| `binHash`, `channels` | `service_bin_map` and `service_key_passing_sessions` |
| `disk[b]`, `image[b]` | the executable at `b`'s path, and what the spawned child runs |
| `child[b]`, `thread[b]` | `client_map_state_constructor` and the thread it spawns |
| `fs[p]` | the FIFO node at path `p`, named by the launch that made it |
| `rfifo[b]` | the FIFO node `b`'s reader thread has open |
| `readers[f]`, `writer[f]` | open read descriptors of FIFO `f`, and the sidecar's writer end |
| `broken` | FIFOs a session line was written to with no reader (EPIPE). No run states a property of it; see the hazard at `hoodini-server/src/lib.rs:44`. |

| Action | Code |
|--------|------|
| `Hash` | the next binary of the loop and `hash_bin` of its path (line 195) |
| `MakeFifo`, `Spawn` | `create_fifo` (`remove_file` of the path, then `mkfifo`) and `FifoWriterHandle::new`, then `Command::spawn` of the path |
| `Rendezvous` | `enable_fifo`'s open for writing and the ctor's open for reading, which block until both are being opened |
| `Setup` | `SetupServiceKeyChannel` (`setup_service_key_channel`, which panics on a duplicate service) and `RegisterRunningService` (`register_running_service`) |
| `CtorSpawnThread`, `CtorReturn` | `thread::spawn`; the ctor returning and closing its `fifo_read`, which the closure does not capture |
| `ThreadOpen` | `FifoReadHandle::new` opening the FIFO again by path: whatever node is there now, once it has a writer |
| `WriteLine` | a session line written by `attest_binary` once serving |
| `Replace` | another executable installed at a binary's path |

The FIFO path is `<run_path>/sidecar_fifo` (`format_fifo_path`). Each launch
draws a fresh KEK in `FifoWriterHandle::new` and passes it to its child, so
a FIFO node also stands for the KEK its lines are sealed with.

`MCSidecarStartup` has two binaries, two services, two run directories and
two images. Each binary has its own run directory, so
each FIFO path is made by one launch only. That is
enough for either launch order and for a second binary to start while the
first child is still in its ctor.

### `CertPipeline` (A's files, C, D, E)

This module models the deploy pipeline, with each tool as one action over the
files it reads and writes. Each tool is a sequential program that runs alone.

| Variable | Code |
|----------|------|
| `uses`, `binUses` | crates that use `alohomora` now, and at the last build |
| `gen` | the last build. A binary's content and a policy file's summary are the number of the build that wrote them. |
| `policyDir`, `certDir` | `policy_hashes/` by file name, and `certificates/` |
| `issuedGen`, `conf` | the build the issuer last ran on, and whether `config_parser` has run |
| `sidecar`, `loaded` | `SideCarServer::new`'s outcome and the `CertificateLoader`'s map |

| Action | Code |
|--------|------|
| `Init` | a fresh checkout: no build, no files, no configs; the sidecar's `CertificateLoader::new` is `EmptyLoader` |
| `Build` | `cargo attest`: only crates that use `alohomora` write their file, and nothing is deleted |
| `Issue` | the issuer's `main`, with `FindBinaries`, `MatchPolicies` (by file name), `HashBinaries`, `MergeMaps` and `GenCertificate` as operators |
| `Materialize` | `config_parser`: a certificate path for every binary key |
| `Start` | `from_config`/`into_loader`. Its guard is the documented order: certificates for the current build, and configs written. A missing file is an `Err`, and `new` panics. |
| `Edit`, `Stop` | a developer adding or removing `alohomora`, and the sidecar exiting |

`MCCertPipeline` has two binaries and up to 3 or 4 builds. `CrateOf` is
either the identity or gives `b1` a crate name that differs from its file name
(a hyphen).

## Runs

| Run | cfg | Result | What it shows |
|-----|-----|--------|---------------|
| session_safety | `MCSessionSafety.cfg` | pass, 166,608 states (about 1m30) | With 2 clients, 2 services (`s2` altered on disk), a third service name the config does not map, pipes of 2 tokens, replayed reports, swapped shares and forged calls:<br>• `AttestationBinding`: a client accepts only its own fresh report, and only for an untampered binary.<br>• `HonestKeyAgreement`: if the client's share reached the sidecar, the client, the sidecar task and `CLIENT_MAP` agree on the key.<br>• `FifoLinesWhole`: every FIFO line is one task's body followed by that task's id. This holds because of the global mutex.<br>• `SessionRefinement`: the exchange implements `SessionAbstract`. Only returned reports put a key in a map, under their own service and id, and each key is handed out at most once.<br>• `AttestTerminates`: every task that signed a report returns, panics or is cancelled, even after the reader dies, so the global mutex is never kept, also when a writer blocks on a full pipe. |
| rollup_safety | `MCRollupSafety.cfg` | pass, 114 states | In every build order of the serial workspace:<br>• `RollupComplete`: each summary covers exactly the policy-bearing crates used.<br>• `RollupPairsMatch`: each dependency is committed with the summary line it wrote. This is what keeps the sorted name list and the sorted hash list zipped correctly.<br>• `NoCrateFails`: no dependency file is read missing or empty.<br>• `RollupRefinement`: the build implements `RollupAtomic`. |
| hash_stability | `MCHashStability.cfg` | violation | `SummaryCanonical`: crate 2's summary depends on the iteration order of `HashMap<_,_,RandomState>` (`dependency.rs:215`, `222`). Spec 8.1/8.2 require byte-identical, sorted output. |
| lost_session_key | `MCLostKey.cfg` | violation | `NoSessionKeyLost`: two lines are read by one `read(2)`, and the second is dropped with the per-call `BufReader` (`hoodini-server/src/lib.rs:80`). |
| handler_race | `MCHandlerRace.cfg` | violation | `AttestedClientServed`: the client's first RPC runs before the reader inserts the key. The handler panics and poisons `CLIENT_MAP` (the FIXME at lines 134-138). |
| startup_safety | `MCStartupSafety.cfg` | pass, 2,972 states | With deadlock checked, under fairness for the sidecar and each child:<br>• `SidecarServes`: the launch loop never blocks in the FIFO rendezvous and reaches `accept`.<br>• `EveryServiceRouted`: once serving, every service has its binary's open writer and registered hash. |
| hash_spawn | `MCHashSpawn.cfg` | violation | `AttestedImageRuns`: a binary replaced between `hash_bin` (`main.rs:195`) and the spawn by path runs under the old hash. |
| cert_safety | `MCCertSafety.cfg` | pass, 152 states | `CertificateClaimsTrue`: with tools run in any order over four builds and a binary gaining `alohomora`, a served certificate for the current build claims that build's policy summary, for a binary that has policies. |
| stale_policy | `MCStalePolicy.cfg` | violation | `CertificateClaimsTrue`: a crate that drops `alohomora` keeps its old policy file (`cargo-attest.rs:17` deletes nothing). The issuer certifies the new binary with the old policy summary. |
| index_interleave | `MCIndexInterleave.cfg` | violation | `RollupComplete`: policy crates 2 and 3, built in parallel, each write their name and then their newline (`dependency.rs:242`). The index becomes `3 2 \n \n`, a line naming neither, and crate 4's `prune_deps` drops both. Spec section 5 requires whole-line appends. |
| name_collision | `MCNameCollision.cfg` | violation | `RollupRefinement`: a package's library (crate 2) and binary (crate 3) share the crate name 2. The binary, built after the library, truncates and rewrites `2_policy_hashes.json` (`dependency.rs:211-213`) while a dependent of the library has not yet read it, so the dependent's roll-up is not the one-step roll-up of `RollupAtomic`. The spec keeps one policy-hash file per crate. |
| uncertified_start | `MCUncertifiedStart.cfg` | violation | `NoStartupPanic`, with two causes shown in one trace:<br>• the issuer skips a policy-free binary (spec 4.C), but `config_parser` lists its certificate (4.D), so the sidecar panics;<br>• the issuer looks for `<file name>_policy_hashes.json` and the plugin writes `<crate>_policy_hashes.json`, so a hyphenated binary never matches. |

Every property of a passing run has a mutant in `PROJECT.json`. The mutant
is a plausible bug in the code that TLC must catch:
- the echoed nonce is used to rebuild the signed data;
- the server share is replaced by the client's;
- the lock is taken without waiting;
- the map is read without removing the entry (caught by `SessionRefinement`);
- the guard is kept after the write;
- the fields of a parsed line are swapped;
- the pruned names are left unsorted;
- the intersection with the index is dropped;
- the newline after an index entry is never written (as the dead `add_to_hash_index` in `policy_signing/src/lib.rs` does);
- the JSON is written before the summary line;
- the writer end is opened before the child is spawned (which deadlocks the launch loop);
- the loop ends one binary early;
- the hash is registered under the service name;
- `merge_maps` keeps binaries without a policy file;
- the plugin writes the previous build's summary;
- cargo starts a crate before the crates it uses are built.

**A check that adds no protection.** The client compares
`report.current_bin_hash` with the certificate's hash, but the signed data is
rebuilt from `certificate.binary_hash`. The signature check alone therefore
already rejects a tampered binary: a mutant that drops the hash comparison is
not caught by any property. The comparison is defence in depth.

### Bounds

- **Clients and ClientIds.** 2 clients and 2 ids are enough for two lines in one FIFO. That is the smallest case for coalesced reads, interleaved writes, a replay of another client's report, and a double take.
- **Services.** 2 services give one tampered binary and one sound one. They also show that the mutex is shared across services. A third service name, `n3`, is mapped to no binary, so `ClientRequest`'s `ServiceMismatchError` branch is taken.
- **PipeCapacity.** 2 tokens hold one whole line: the second writer blocks on the full pipe, holding the mutex, until the reader drains it.
- **Symmetry.** The violation runs of `SessionDelivery` use symmetry over clients and over ids. This is sound: no definition depends on their identity, except that a client's nonce is its name, and that is permuted consistently. `session_safety` uses none, because it checks a liveness property, and TLC's liveness checking is not sound under symmetry.
- **ClientId draws.** Ids are drawn fresh: the ASSUME stands for 64-bit random ids.

- **PolicyRollup.** Each run explores every interleaving of the five-crate build (four crates, two with one name, in `name_collision`), and every `RandomState` order (up to 4! orders of the used crates in `fetch_dependencies`).

- **SidecarStartup.** 2 binaries: either may be launched first, and the second child's ctor can still be running while the sidecar serves. `Replace` happens at most once per binary.
- **CertPipeline.** 3 or 4 builds: enough to add or remove `alohomora`, rebuild, reissue and restart once more.

### Fairness

`session_safety` (for `AttestTerminates`) assumes the following; everything else is unfair:

| Assumption | Why the code justifies it |
|------------|---------------------------|
| strong fairness on `Lock` | tokio's `Mutex` is FIFO-fair |
| weak fairness on the writes of the holder | a task that holds the lock makes progress |
| weak fairness on the reader thread | it is a dedicated OS thread |

Clients, cancellation and the adversary are left unfair.

`startup_safety` assumes weak fairness on the sidecar's launch steps and on
each child's ctor and thread steps. These are separate OS processes, and none
of their steps waits on anything but the FIFO rendezvous. `WriteLine` and
`Replace` are left unfair.

`CHECK_DEADLOCK FALSE` is set because every client attests once. After that,
the sidecar waits in `accept()` forever, which is the intended final state.

## Further work

Done: `SessionDelivery` (bounded pipes, the reverse service mapping) with its refinement of `SessionAbstract`, `PolicyRollup` (two-call index appends, crate-name collisions) with its refinement of `RollupAtomic`, `SidecarStartup` and `CertPipeline`. Possible extensions:

1. **A stopped reader** in `SessionDelivery`: a service process stopped while alive fills its pipe and stalls the global mutex (`main.rs:148`). The code never stops a process itself.
2. **SidecarStartup extensions**:
   - a child that exits before its ctor opens the FIFO, which leaves `enable_fifo` blocked;
   - two binaries sharing one `run_path`. Nothing in `get_binaries` or `config_parser` rejects this. The second `create_fifo` unlinks the first binary's FIFO, and the first child's reader thread, which reopens its FIFO by path, then reads the second binary's lines under the wrong KEK. With the distinct directories of `startup_safety`, that pairing holds whatever the code does, so it is not stated as a property there;
   - composition with `SessionDelivery`, so the EPIPE of a line written before the reader thread reopens the FIFO (`hoodini-server/src/lib.rs:44`) leads to the task panicking under the global mutex.

## Not modelled

| What | Why |
|------|-----|
| Cryptography (X25519, SSKDF, AES-GCM, Ed25519, SHA-256) | Replaced by exact values: injective derivation and unforgeable signatures. |
| `tahini_tarpc` and `tahini_tarpc_derive` | `to_tahini_enum` is a pure conversion and the derive macro runs at compile time. The `TahiniEnum` it builds (`enums.rs`) is not in the repository, so there is nothing to check the conversion against. |
| `tahini_attest/src/server.rs` | The same ctor, reader and `get_key_for_client` as `hoodini-server`, behind the `server` feature. It is modelled once, through `hoodini-server`. |
| CLI and TOML parsing, logging, `show_running_binaries` | Pure I/O and output. |
| I/O errors of `File::create` and of the writes in `dump_local_to_file` | They stop the crate and the build. No dependent starts after that, so nothing else is at stake. |
| The blank-first-line case of `get_leaves` | `get_leaves` accepts a blank first line, which the spec calls fatal, but `dump_local_to_file` always writes a 64-hex-digit line first, so the case is unreachable without hand-edited files. |
| The private helpers in `policy_signing/src/lib.rs` (lines 32-140) | Dead code: `attest_crate` uses `dependency.rs` instead. |
| Sidecar exit and restart | The reader thread spins on `Ok(0)` once the writer closes, and a restarted sidecar launches new children; neither is within the code's own control flow. |
| `hash_bins` (`tahini_attest/src/sidecar.rs:43-51`) | Dead code: `main` calls `hash_bin` per binary. |
| The plaintext session key printed by `write_session_key` (`sidecar.rs:147`) | Logging; it changes no state a property reads. |
| The MIR hashing | A compiler query, so each impl is abstracted to a value. |
