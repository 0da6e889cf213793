--------------------------- MODULE SidecarStartup ---------------------------
(***************************************************************************)
(* Sidecar startup and the service ingress constructor.                    *)
(*                                                                         *)
(* For each binary of its config, in HashMap order, the sidecar's main     *)
(* (sidecar/src/main.rs) hashes the executable on disk, then launch_binary *)
(* (tahini_attest/src/sidecar.rs) makes the FIFO, spawns the executable by *)
(* path and opens the FIFO's writer end, which blocks until a reader       *)
(* opens it; then it registers the writer under the binary's service and   *)
(* the hash under the binary.  Once all are launched it serves RPCs, each  *)
(* of which writes a line to a FIFO.                                       *)
(*                                                                         *)
(* In the child, the #[ctor] client_map_state_constructor (hoodini-server) *)
(* opens the FIFO for reading (blocking until the writer opens), spawns    *)
(* the reader thread and returns, dropping its descriptor; the thread      *)
(* opens the FIFO again in FifoReadHandle::new.                            *)
(*                                                                         *)
(* An executable's content is one of Images; Replace is anyone with write  *)
(* access to the binary's path installing another one.                     *)
(*                                                                         *)
(* A FIFO is named by the launch that made it (create_fifo unlinks the old *)
(* node and makes a new one, and descriptors stay with the node they       *)
(* opened).  FifoWriterHandle::new draws a fresh KEK per launch and the    *)
(* child gets it on its command line, so a FIFO also stands for the KEK    *)
(* its lines are sealed with.                                              *)
(***************************************************************************)
EXTENDS Naturals, FiniteSets, TLC

CONSTANTS
    Binaries,   \* the [binaries] table of sidecar_config.toml
    ServiceOf,  \* its service_mapping: binary -> service
    RunDir,     \* each binary's run_path: binary -> directory
    Images,     \* possible contents of an executable
    Built,      \* the image the certificate was issued for
    None

ASSUME
    /\ Built \in Images
    /\ DOMAIN ServiceOf = Binaries
    /\ DOMAIN RunDir = Binaries
    /\ None \notin Binaries

Services == {ServiceOf[b] : b \in Binaries}

\* format_fifo_path: <run_path>/sidecar_fifo.
FifoPath(b) == RunDir[b]

Paths == {FifoPath(b) : b \in Binaries}

VARIABLES
    spc,       \* the sidecar's main: where it is in the launch loop
    cur,       \* the binary being launched
    todo,      \* binaries not launched yet
    curHash,   \* hash_bin's result for cur
    binHash,   \* service_bin_map: binary -> BinHash
    channels,  \* service_key_passing_sessions: service -> binary's writer
    disk,      \* content of each executable's path
    image,     \* what each spawned child runs
    child,     \* the child's constructor
    thread,    \* the child's reader thread
    fs,        \* the FIFO node at each path, or None
    rfifo,     \* the FIFO the child's reader thread has open, or None
    readers,   \* open read descriptors of each FIFO
    writer,    \* the sidecar's writer end of each FIFO is open
    broken     \* FIFOs a session line was written to with no reader (EPIPE)

vars == <<spc, cur, todo, curHash, binHash, channels, disk, image, child,
          thread, fs, rfifo, readers, writer, broken>>

Init ==
    /\ spc = "launching"
    /\ cur = None
    /\ todo = Binaries
    /\ curHash = None
    /\ binHash = [b \in Binaries |-> None]
    /\ channels = [s \in Services |-> None]
    /\ disk = [b \in Binaries |-> Built]
    /\ image = [b \in Binaries |-> None]
    /\ child = [b \in Binaries |-> "none"]
    /\ thread = [b \in Binaries |-> "none"]
    /\ fs = [p \in Paths |-> None]
    /\ rfifo = [b \in Binaries |-> None]
    /\ readers = [b \in Binaries |-> 0]
    /\ writer = [b \in Binaries |-> FALSE]
    /\ broken = {}

-----------------------------------------------------------------------------
(* The sidecar's main.                                                     *)
\* main.rs 194-195: next binary of the HashMap, hash_bin of its path.
Hash(b) ==
    /\ spc = "launching"
    /\ b \in todo
    /\ cur' = b
    /\ todo' = todo \ {b}
    /\ curHash' = disk[b]
    /\ spc' = "hashed"
    /\ UNCHANGED <<binHash, channels, disk, image, child, thread, fs, rfifo,
                   readers, writer, broken>>

\* create_fifo: remove_file unlinks whatever node is at the path and mkfifo
\* makes a new one there.
CreateFifo(b) == [fs EXCEPT ![FifoPath(b)] = b]

\* Mutant: the writer end is opened before the child is spawned.
MakeFifoOpenFirst(b) ==
    /\ spc = "hashed"
    /\ cur = b
    /\ fs' = CreateFifo(b)
    /\ spc' = "enabling"
    /\ UNCHANGED <<cur, todo, curHash, binHash, channels, disk, image, child,
                   thread, rfifo, readers, writer, broken>>

\* launch_binary: create_fifo and FifoWriterHandle::new.
MakeFifo(b) ==
    /\ spc = "hashed"
    /\ cur = b
    /\ fs' = CreateFifo(b)
    /\ spc' = "fifo"
    /\ UNCHANGED <<cur, todo, curHash, binHash, channels, disk, image, child,
                   thread, rfifo, readers, writer, broken>>

\* Command::spawn of the path: the child runs what is on disk now.
Spawn(b) ==
    /\ spc = "fifo"
    /\ cur = b
    /\ image' = [image EXCEPT ![b] = disk[b]]
    /\ child' = [child EXCEPT ![b] = "opening"]
    /\ spc' = "enabling"
    /\ UNCHANGED <<cur, todo, curHash, binHash, channels, disk, thread,
                   fs, rfifo, readers, writer, broken>>

\* enable_fifo's open for writing and the ctor's open for reading block
\* until both ends are being opened, then return together.
Rendezvous(b) ==
    /\ spc = "enabling"
    /\ cur = b
    /\ child[b] = "opening"
    /\ writer' = [writer EXCEPT ![b] = TRUE]
    /\ readers' = [readers EXCEPT ![b] = @ + 1]
    /\ child' = [child EXCEPT ![b] = "opened"]
    /\ spc' = "opened"
    /\ UNCHANGED <<cur, todo, curHash, binHash, channels, disk, image, thread,
                   fs, rfifo, broken>>

\* setup_service_key_channel: the writer is inserted under the service; an
\* earlier writer for it (HashMap::insert returning Some) is a panic.
SetupServiceKeyChannel(b) ==
    \/ /\ channels[ServiceOf[b]] = None
       /\ channels' = [channels EXCEPT ![ServiceOf[b]] = b]
    \/ /\ channels[ServiceOf[b]] # None
       /\ spc' = "crashed"
       /\ UNCHANGED channels

\* register_running_service: service_bin_map.insert(bin_name, hash).
RegisterRunningService(b, h) == binHash' = [binHash EXCEPT ![b] = h]

\* Mutant: off by one in the end of the loop.
SetupServeEarly(b) ==
    /\ spc = "opened"
    /\ cur = b
    /\ SetupServiceKeyChannel(b)
    /\ IF channels[ServiceOf[b]] # None
       THEN UNCHANGED binHash
       ELSE /\ RegisterRunningService(b, curHash)
            /\ spc' = IF Cardinality(todo) <= 1 THEN "serving" ELSE "launching"
    /\ UNCHANGED <<cur, todo, curHash, disk, image, child, thread, fs,
                   rfifo, readers, writer, broken>>

\* Mutant: the hash is registered under the service name.
SetupUnderServiceName(b) ==
    /\ spc = "opened"
    /\ cur = b
    /\ SetupServiceKeyChannel(b)
    /\ IF channels[ServiceOf[b]] # None
       THEN UNCHANGED binHash
       ELSE /\ binHash' = (ServiceOf[b] :> curHash) @@ binHash
            /\ spc' = IF todo = {} THEN "serving" ELSE "launching"
    /\ UNCHANGED <<cur, todo, curHash, disk, image, child, thread, fs,
                   rfifo, readers, writer, broken>>

\* main.rs 198-207: the writer under the binary's service, which panics if
\* that service already has one, then the hash under the binary; the loop
\* goes on with the next binary or, after the last, to the accept loop.
Setup(b) ==
    /\ spc = "opened"
    /\ cur = b
    /\ SetupServiceKeyChannel(b)
    /\ IF channels[ServiceOf[b]] # None
       THEN UNCHANGED binHash
       ELSE /\ RegisterRunningService(b, curHash)
            /\ spc' = IF todo = {} THEN "serving" ELSE "launching"
    /\ UNCHANGED <<cur, todo, curHash, disk, image, child, thread, fs,
                   rfifo, readers, writer, broken>>

\* An attest_binary call writes a session line to b's FIFO; with no reader
\* the write(2) fails with EPIPE and the task panics.
WriteLine(b) ==
    /\ spc = "serving"
    /\ IF readers[b] = 0 THEN broken' = broken \cup {b} ELSE UNCHANGED broken
    /\ UNCHANGED <<spc, cur, todo, curHash, binHash, channels, disk, image,
                   child, thread, fs, rfifo, readers, writer>>

-----------------------------------------------------------------------------
(* The child: client_map_state_constructor and its reader thread.          *)
\* thread::spawn of the reader loop.
CtorSpawnThread(b) ==
    /\ child[b] = "opened"
    /\ child' = [child EXCEPT ![b] = "spawned"]
    /\ thread' = [thread EXCEPT ![b] = "opening"]
    /\ UNCHANGED <<spc, cur, todo, curHash, binHash, channels, disk, image,
                   fs, rfifo, readers, writer, broken>>

\* The ctor returns; its fifo_read is not moved into the thread and closes.
CtorReturn(b) ==
    /\ child[b] = "spawned"
    /\ child' = [child EXCEPT ![b] = "main"]
    /\ readers' = [readers EXCEPT ![b] = @ - 1]
    /\ UNCHANGED <<spc, cur, todo, curHash, binHash, channels, disk, image,
                   thread, fs, rfifo, writer, broken>>

\* FifoReadHandle::new opens the FIFO at the path again: whatever node is
\* there now, blocking until that node has a writer.  (A thread blocked on
\* another launch's FIFO is not counted as a reader for that launch's
\* enable_fifo; only a shared run_path makes one.)
ThreadOpen(b) ==
    LET f == fs[FifoPath(b)]
    IN  /\ thread[b] = "opening"
        /\ f # None
        /\ writer[f]
        /\ thread' = [thread EXCEPT ![b] = "reading"]
        /\ rfifo' = [rfifo EXCEPT ![b] = f]
        /\ readers' = [readers EXCEPT ![f] = @ + 1]
        /\ UNCHANGED <<spc, cur, todo, curHash, binHash, channels, disk, image,
                       child, fs, writer, broken>>

\* Another executable is installed at b's path.
Replace(b) ==
    /\ \E img \in Images \ {disk[b]} : disk' = [disk EXCEPT ![b] = img]
    /\ disk[b] = Built
    /\ UNCHANGED <<spc, cur, todo, curHash, binHash, channels, image, child,
                   thread, fs, rfifo, readers, writer, broken>>

SidecarStep(b) ==
    Hash(b) \/ MakeFifo(b) \/ Spawn(b) \/ Rendezvous(b) \/ Setup(b)

ChildStep(b) ==
    CtorSpawnThread(b) \/ CtorReturn(b) \/ ThreadOpen(b)

Next ==
    \E b \in Binaries :
        SidecarStep(b) \/ ChildStep(b) \/ WriteLine(b) \/ Replace(b)

\* The sidecar and each child are separate processes, each scheduled.
Fairness ==
    \A b \in Binaries : WF_vars(SidecarStep(b)) /\ WF_vars(ChildStep(b))

Spec == Init /\ [][Next]_vars
FairSpec == Spec /\ Fairness

-----------------------------------------------------------------------------
TypeOK ==
    /\ spc \in {"launching", "hashed", "fifo", "enabling", "opened",
                "serving", "crashed"}
    /\ cur \in Binaries \cup {None}
    /\ todo \subseteq Binaries
    /\ curHash \in Images \cup {None}
    /\ binHash \in [Binaries -> Images \cup {None}]
    /\ channels \in [Services -> Binaries \cup {None}]
    /\ disk \in [Binaries -> Images]
    /\ image \in [Binaries -> Images \cup {None}]
    /\ child \in [Binaries -> {"none", "opening", "opened", "spawned", "main"}]
    /\ thread \in [Binaries -> {"none", "opening", "reading"}]
    /\ fs \in [Paths -> Binaries \cup {None}]
    /\ rfifo \in [Binaries -> Binaries \cup {None}]
    /\ readers \in [Binaries -> 0..Cardinality(Binaries) + 1]
    /\ writer \in [Binaries -> BOOLEAN]
    /\ broken \subseteq Binaries

\* Launch progress (launch_binary's spawn-then-enable_fifo order against the
\* ctor's blocking open): the sidecar's startup loop always gets through
\* every binary and reaches the accept loop.
SidecarServes == <>(spc = "serving")

\* Routing (the setup loop of main): once the sidecar serves, every binary's
\* service is routed to that binary's open FIFO writer, its child has the
\* read end, and its hash is registered.
EveryServiceRouted ==
    spc = "serving" =>
        \A b \in Binaries :
            /\ channels[ServiceOf[b]] = b
            /\ writer[b]
            /\ child[b] # "none"
            /\ binHash[b] # None

\* Attested image (spec 4.F, the hash reported in DynamicAttestationData):
\* the hash registered for a binary is the hash of what its child runs.
AttestedImageRuns ==
    \A b \in Binaries : binHash[b] # None => binHash[b] = image[b]

=============================================================================
