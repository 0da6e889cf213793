-------------------------- MODULE SessionDelivery --------------------------
(***************************************************************************)
(* Runtime attestation and session-key delivery.                          *)
(*                                                                         *)
(*  - the sidecar's attest_binary task (sidecar/src/main.rs), one per      *)
(*    request, which signs a report, then under the global session mutex   *)
(*    writes "<nonce>,<cipher>,<client_id>\n" to the service's FIFO        *)
(*    (tahini_attest/src/sidecar.rs, write_session_key);                  *)
(*  - the service's ingress thread (hoodini-server), which reads one line  *)
(*    per call through a fresh BufReader and inserts the key in CLIENT_MAP;*)
(*  - the client verifier (hoodini-client, verify_binary);                 *)
(*  - the service handler's get_key_for_client, which removes the entry    *)
(*    under the std RwLock and panics (poisoning the lock) when absent;    *)
(*  - a network adversary limited to the moves in Attacks.                 *)
(*                                                                         *)
(* Data is abstract: a request's nonce and the client's ephemeral share    *)
(* are the client itself (both freshly random per call), the sidecar's     *)
(* ephemeral share is SidecarShare(t) for the task t serving the request,  *)
(* and a session key is the pair of shares it is derived from.  A binary hash is         *)
(* CertHash, or BadHash for a binary altered on disk (Tampered).  The      *)
(* FIFO carries tokens: write! issues several write(2) calls, abstracted   *)
(* to a "body" token (nonce and cipher) and an "end" token (client id and  *)
(* newline).                                                               *)
(***************************************************************************)
EXTENDS Naturals, Sequences, FiniteSets

CONSTANTS
    Clients,     \* verify_binary calls, one attestation each
    Services,    \* binaries hosted by the sidecar
    ClientIds,   \* values the sidecar may draw for a ClientId
    Tampered,    \* binaries whose on-disk content differs from the certified one
    Attacks,     \* moves allowed to the network adversary
    PipeCapacity, \* tokens a FIFO holds before a write(2) to it blocks
    ServiceMapping, \* service_mapping of the configs: binary -> service name
    ServiceNames, \* service names a caller may pass to verify_binary
    None,        \* model value: absent map entry / no lock holder
    Adversary    \* model value: the adversary's ephemeral share and identity

ASSUME
    /\ Tampered \subseteq Services
    /\ Attacks \subseteq {"replay", "swap_share", "forge_call"}
    /\ PipeCapacity \in Nat \ {0}
    /\ DOMAIN ServiceMapping = Services
    \* two binaries of one service make setup_service_key_channel panic
    \* (sidecar/src/main.rs:90): a serving sidecar has an injective mapping
    /\ \A a, b \in Services : ServiceMapping[a] = ServiceMapping[b] => a = b
    \* ClientIds are 64 random bits: a draw never repeats (see README)
    /\ Cardinality(ClientIds) >= Cardinality(Clients)

VARIABLES
    client,     \* verifier state of each client
    requests,   \* attest_binary requests in flight
    task,       \* sidecar attest_binary task per request nonce
    signed,     \* report data signed with the attestation key
    responses,  \* reports sent back to clients
    mutex,      \* holder of service_key_passing_sessions' Mutex
    pipe,       \* bytes written to each service's FIFO, not yet read
    rbuf,       \* the ingress thread's current BufReader buffer
    reader,     \* the ingress thread: "running" or "dead" (panicked)
    cmap,       \* CLIENT_MAP of each service: ClientId -> session key
    poisoned,   \* CLIENT_MAP's std RwLock poisoned by a panicking holder
    taken,      \* history: keys handed to handlers by get_key_for_client
    fifoLog     \* history: every token the sidecar wrote to each FIFO

vars == <<client, requests, task, signed, responses, mutex, pipe, rbuf,
          reader, cmap, poisoned, taken, fifoLog>>

CertHash == "cert_hash"
BadHash == "bad_hash"
\* the sidecar's ephemeral X25519 share of task t (compute_local_share)
SidecarShare(t) == [sidecar |-> t]
Shares == Clients \cup {Adversary} \cup {SidecarShare(t) : t \in Clients}
Keys == [cs : Shares, ss : Shares]

\* hash_bin of the executable, recorded at sidecar startup
BinHash(s) == IF s \in Tampered THEN BadHash ELSE CertHash

\* derive_key_from_shares: the key is determined by both ephemeral shares
DeriveKey(clientShare, serverShare) == [cs |-> clientShare, ss |-> serverShare]

\* DynamicAttestationData: the fields the attestation signature covers
AttestData(cert, nonce, svc, hash, sshare, id) ==
    [cert |-> cert, nonce |-> nonce, svc |-> svc, hash |-> hash,
     sshare |-> sshare, id |-> id]

Body(key) == [kind |-> "body", key |-> key]
End(id) == [kind |-> "end", id |-> id]

Issued == {task[t].id : t \in {u \in Clients : task[u].pc # "none"}}

NoTask == [pc |-> "none", svc |-> None, id |-> None, cshare |-> None,
           sshare |-> None, key |-> None]
NoClient == [pc |-> "idle", svc |-> None, id |-> None, key |-> None]

Init ==
    /\ client = [c \in Clients |-> NoClient]
    /\ requests = {}
    /\ task = [t \in Clients |-> NoTask]
    /\ signed = {}
    /\ responses = {}
    /\ mutex = None
    /\ pipe = [s \in Services |-> <<>>]
    /\ rbuf = [s \in Services |-> <<>>]
    /\ reader = [s \in Services |-> "running"]
    /\ cmap = [s \in Services |-> [i \in ClientIds |-> None]]
    /\ poisoned = [s \in Services |-> FALSE]
    /\ taken = {}
    /\ fifoLog = [s \in Services |-> <<>>]

-----------------------------------------------------------------------------
(* Client verifier, verify_binary: nonce, ephemeral share, RPC.            *)
\* register_bin_mapping over the config's service_mapping (into_verifier):
\* service name -> binary, read by get_reverse_mapping.
ServiceToBin ==
    [n \in {ServiceMapping[b] : b \in Services} |->
        CHOOSE b \in Services : ServiceMapping[b] = n]

\* The caller names a service; get_reverse_mapping resolves it to the binary
\* the RPC asks about, or verify_binary returns ServiceMismatchError.
ClientRequest(c) ==
    /\ client[c].pc = "idle"
    /\ \E n \in ServiceNames :
        \/ /\ n \in DOMAIN ServiceToBin
           /\ requests' = requests \cup
                 {[nonce |-> c, svc |-> ServiceToBin[n], share |-> c]}
           /\ client' = [client EXCEPT ![c].pc = "waiting",
                                       ![c].svc = ServiceToBin[n]]
        \/ /\ n \notin DOMAIN ServiceToBin
           /\ client' = [client EXCEPT ![c].pc = "failed"]
           /\ UNCHANGED requests
    /\ UNCHANGED <<task, signed, responses, mutex, pipe, rbuf, reader, cmap,
                   poisoned, taken, fifoLog>>

\* The RPC's deadline (tarpc context::current) expires: NetworkError.
ClientTimeout(c) ==
    /\ client[c].pc = "waiting"
    /\ client' = [client EXCEPT ![c].pc = "failed"]
    /\ UNCHANGED <<requests, task, signed, responses, mutex, pipe, rbuf,
                   reader, cmap, poisoned, taken, fifoLog>>

\* Mutant: the signed data is rebuilt from the report's nonce, not the
\* client's own.
ReportAcceptedEchoNonce(c, r) ==
    /\ r.cert \in Services
    /\ r.hash = CertHash
    /\ AttestData(r.cert, r.nonce, client[c].svc, CertHash, r.sshare, r.id)
          \in signed

\* verify_certificate, the hash comparison and the signature check over the
\* re-serialised data built from the client's own nonce and service name.
ReportAccepted(c, r) ==
    /\ r.cert \in Services
    /\ r.hash = CertHash
    /\ AttestData(r.cert, c, client[c].svc, CertHash, r.sshare, r.id) \in signed

ClientReceive(c) ==
    /\ client[c].pc = "waiting"
    /\ \E r \in responses :
        /\ r.to = c \/ "replay" \in Attacks
        /\ client' = [client EXCEPT ![c] =
                        IF ReportAccepted(c, r)
                        THEN [@ EXCEPT !.pc = "accepted", !.id = r.id,
                                       !.key = DeriveKey(c, r.sshare)]
                        ELSE [@ EXCEPT !.pc = "rejected"]]
    /\ UNCHANGED <<requests, task, signed, responses, mutex, pipe, rbuf,
                   reader, cmap, poisoned, taken, fifoLog>>

-----------------------------------------------------------------------------
(* get_key_for_client: write-lock CLIENT_MAP, remove_entry or panic.  A    *)
(* panic while the guard is held poisons the lock for good.               *)
Served(s, i) == ~poisoned[s] /\ cmap[s][i] # None

\* Mutant: a read lock and get() instead of remove_entry, as the comment
\* on get_key_for_client contemplates.
HandlerTakeShared(s, i, who) ==
    \/ /\ Served(s, i)
       /\ taken' = taken \cup {[svc |-> s, id |-> i, by |-> who]}
       /\ UNCHANGED <<cmap, poisoned>>
    \/ /\ ~Served(s, i)
       /\ poisoned' = [poisoned EXCEPT ![s] = TRUE]
       /\ UNCHANGED <<cmap, taken>>

HandlerTake(s, i, who) ==
    \/ /\ Served(s, i)
       /\ cmap' = [cmap EXCEPT ![s][i] = None]
       /\ taken' = taken \cup {[svc |-> s, id |-> i, by |-> who]}
       /\ UNCHANGED poisoned
    \/ /\ ~Served(s, i)
       /\ poisoned' = [poisoned EXCEPT ![s] = TRUE]
       /\ UNCHANGED <<cmap, taken>>

\* The attested client's first RPC reaches the service's handler.
ClientCall(c) ==
    /\ client[c].pc = "accepted"
    /\ LET s == client[c].svc
           i == client[c].id
       IN /\ HandlerTake(s, i, c)
          /\ client' = [client EXCEPT ![c].pc =
                          IF ~Served(s, i) THEN "crashed"
                          ELSE IF cmap[s][i] = client[c].key THEN "served"
                          ELSE "refused"]
    /\ UNCHANGED <<requests, task, signed, responses, mutex, pipe, rbuf,
                   reader, fifoLog>>

\* Anyone can send an RPC carrying a client id seen on the wire or guessed.
ForgeCall(s, i) ==
    /\ "forge_call" \in Attacks
    /\ HandlerTake(s, i, Adversary)
    /\ UNCHANGED <<client, requests, task, signed, responses, mutex, pipe,
                   rbuf, reader, fifoLog>>

\* The request's key share is not signed: a man in the middle replaces it.
SwapShare(m) ==
    /\ "swap_share" \in Attacks
    /\ m.share # Adversary
    /\ requests' = (requests \ {m}) \cup {[m EXCEPT !.share = Adversary]}
    /\ UNCHANGED <<client, task, signed, responses, mutex, pipe, rbuf, reader,
                   cmap, poisoned, taken, fifoLog>>

-----------------------------------------------------------------------------
(* Sidecar attest_binary.  Lines 111-146: look up the binary hash and the *)
(* certificate, draw the ClientId, derive the session key, sign.           *)
\* Mutant: the report carries the client's share back instead of pk.
PrepareEchoShare(m) ==
    /\ task[m.nonce].pc = "none"
    /\ \E i \in ClientIds \ Issued :
        /\ task' = [task EXCEPT ![m.nonce] =
                      [pc |-> "signed", svc |-> m.svc, id |-> i,
                       cshare |-> m.share, sshare |-> m.share,
                       key |-> DeriveKey(m.share, SidecarShare(m.nonce))]]
        /\ signed' = signed \cup {AttestData(m.svc, m.nonce, m.svc,
                                             BinHash(m.svc), m.share, i)}
    /\ requests' = requests \ {m}
    /\ UNCHANGED <<client, responses, mutex, pipe, rbuf, reader, cmap,
                   poisoned, taken, fifoLog>>

Prepare(m) ==
    /\ task[m.nonce].pc = "none"
    /\ \E i \in ClientIds \ Issued :
        /\ task' = [task EXCEPT ![m.nonce] =
                      [pc |-> "signed", svc |-> m.svc, id |-> i,
                       cshare |-> m.share, sshare |-> SidecarShare(m.nonce),
                       key |-> DeriveKey(m.share, SidecarShare(m.nonce))]]
        /\ signed' = signed \cup {AttestData(m.svc, m.nonce, m.svc,
                                             BinHash(m.svc),
                                             SidecarShare(m.nonce), i)}
    /\ requests' = requests \ {m}
    /\ UNCHANGED <<client, responses, mutex, pipe, rbuf, reader, cmap,
                   poisoned, taken, fifoLog>>

\* Mutant: the FIFO write is not serialised by the session mutex.
LockUnguarded(t) ==
    /\ task[t].pc = "signed"
    /\ mutex' = t
    /\ task' = [task EXCEPT ![t].pc = "locked"]
    /\ UNCHANGED <<client, requests, signed, responses, pipe, rbuf, reader,
                   cmap, poisoned, taken, fifoLog>>

\* Line 148: service_key_passing_sessions.lock().await (tokio, FIFO-fair).
Lock(t) ==
    /\ task[t].pc = "signed"
    /\ mutex = None
    /\ mutex' = t
    /\ task' = [task EXCEPT ![t].pc = "locked"]
    /\ UNCHANGED <<client, requests, signed, responses, pipe, rbuf, reader,
                   cmap, poisoned, taken, fifoLog>>

\* tarpc drops the handler future at an await point (deadline, disconnect).
Cancel(t) ==
    /\ task[t].pc \in {"signed", "locked"}
    /\ mutex' = IF mutex = t THEN None ELSE mutex
    /\ task' = [task EXCEPT ![t].pc = "cancelled"]
    /\ UNCHANGED <<client, requests, signed, responses, pipe, rbuf, reader,
                   cmap, poisoned, taken, fifoLog>>

\* A write(2) to a FIFO with no reader fails (EPIPE); expect() panics and
\* unwinding drops the mutex guard.
WritePanics(t) ==
    /\ reader[task[t].svc] = "dead"
    /\ task' = [task EXCEPT ![t].pc = "panicked"]
    /\ mutex' = None
    /\ UNCHANGED <<responses, pipe, fifoLog>>

\* One write(2) of tok to the FIFO of service s.  The File is blocking: on
\* a full pipe the write waits for the reader, with the session mutex held.
Emit(s, tok) ==
    /\ Len(pipe[s]) < PipeCapacity
    /\ pipe' = [pipe EXCEPT ![s] = Append(@, tok)]
    /\ fifoLog' = [fifoLog EXCEPT ![s] = Append(@, tok)]

\* DynamicAttestationReport returned to the client (lines 161-169)
Report(t) ==
    [to |-> t, cert |-> task[t].svc, nonce |-> t, svc |-> task[t].svc,
     hash |-> BinHash(task[t].svc), sshare |-> task[t].sshare, id |-> task[t].id]

\* write_session_key, first write(2)s: nonce and cipher.
WriteBody(t) ==
    /\ task[t].pc = "locked"
    /\ LET s == task[t].svc IN
       \/ /\ reader[s] = "running"
          /\ Emit(s, Body(task[t].key))
          /\ task' = [task EXCEPT ![t].pc = "body"]
          /\ UNCHANGED <<mutex, responses>>
       \/ WritePanics(t)
    /\ UNCHANGED <<client, requests, signed, rbuf, reader, cmap, poisoned,
                   taken>>

\* Mutant: the session guard outlives the call.
WriteEndKeepsLock(t) ==
    /\ task[t].pc = "body"
    /\ LET s == task[t].svc IN
       \/ /\ reader[s] = "running"
          /\ Emit(s, End(task[t].id))
          /\ task' = [task EXCEPT ![t].pc = "done"]
          /\ UNCHANGED mutex
          /\ responses' = responses \cup {Report(t)}
       \/ WritePanics(t)
    /\ UNCHANGED <<client, requests, signed, rbuf, reader, cmap, poisoned,
                   taken>>

\* Last write(2)s: client id and newline; drop the guard; return the report.
WriteEnd(t) ==
    /\ task[t].pc = "body"
    /\ LET s == task[t].svc IN
       \/ /\ reader[s] = "running"
          /\ Emit(s, End(task[t].id))
          /\ task' = [task EXCEPT ![t].pc = "done"]
          /\ mutex' = None
          /\ responses' = responses \cup {Report(t)}
       \/ WritePanics(t)
    /\ UNCHANGED <<client, requests, signed, rbuf, reader, cmap, poisoned,
                   taken>>

-----------------------------------------------------------------------------
(* Service ingress thread: read_session_key and the insert in the ctor's  *)
(* loop.  Each call builds a new BufReader; whatever it buffered past the  *)
(* first newline is dropped with it.                                       *)
EndAt(buf) == {k \in 1..Len(buf) : buf[k].kind = "end"}

\* read_line -> fill_buf: one read(2) returns any non-empty prefix.
ReadChunk(s) ==
    /\ reader[s] = "running"
    /\ EndAt(rbuf[s]) = {}
    /\ pipe[s] # <<>>
    /\ \E k \in 1..Len(pipe[s]) :
        /\ rbuf' = [rbuf EXCEPT ![s] = @ \o SubSeq(pipe[s], 1, k)]
        /\ pipe' = [pipe EXCEPT ![s] = SubSeq(@, k + 1, Len(@))]
    /\ UNCHANGED <<client, requests, task, signed, responses, mutex, reader,
                   cmap, poisoned, taken, fifoLog>>

\* A line splits into exactly three fields only if it is one whole write.
WellFormed(line) ==
    /\ Len(line) = 2
    /\ line[1].kind = "body"
    /\ line[2].kind = "end"

FirstLine(buf) ==
    SubSeq(buf, 1, CHOOSE k \in EndAt(buf) : \A j \in EndAt(buf) : k <= j)

\* Mutant: the fields of the split line are taken in the wrong order.
DeliverLineSwapped(s) ==
    /\ reader[s] = "running"
    /\ EndAt(rbuf[s]) # {}
    /\ LET line == FirstLine(rbuf[s]) IN
          \/ /\ WellFormed(line)
             /\ ~poisoned[s]
             /\ cmap' = [cmap EXCEPT ![s][line[2].id] = line[2]]
             /\ UNCHANGED <<reader, pipe>>
          \/ /\ ~WellFormed(line) \/ poisoned[s]
             /\ reader' = [reader EXCEPT ![s] = "dead"]
             /\ pipe' = [pipe EXCEPT ![s] = <<>>]
             /\ UNCHANGED cmap
    /\ rbuf' = [rbuf EXCEPT ![s] = <<>>]
    /\ UNCHANGED <<client, requests, task, signed, responses, mutex, poisoned,
                   taken, fifoLog>>

\* The ctor loop's insert: take CLIENT_MAP's write lock, whose expect panics
\* on a poisoned lock, and insert the key under its client id.
InsertKey(s, id, key) ==
    /\ ~poisoned[s]
    /\ cmap' = [cmap EXCEPT ![s][id] = key]

\* Parse the first line, insert under the write lock, drop the BufReader.
\* A malformed line or a poisoned lock panics the thread; its FIFO fd is
\* closed and the unread bytes are gone.
DeliverLine(s) ==
    /\ reader[s] = "running"
    /\ EndAt(rbuf[s]) # {}
    /\ LET line == FirstLine(rbuf[s]) IN
          \/ /\ WellFormed(line)
             /\ InsertKey(s, line[2].id, line[1].key)
             /\ UNCHANGED <<reader, pipe>>
          \/ /\ ~WellFormed(line) \/ poisoned[s]
             /\ reader' = [reader EXCEPT ![s] = "dead"]
             /\ pipe' = [pipe EXCEPT ![s] = <<>>]
             /\ UNCHANGED cmap
    /\ rbuf' = [rbuf EXCEPT ![s] = <<>>]
    /\ UNCHANGED <<client, requests, task, signed, responses, mutex, poisoned,
                   taken, fifoLog>>

-----------------------------------------------------------------------------
Next ==
    \/ \E c \in Clients :
        ClientRequest(c) \/ ClientTimeout(c) \/ ClientReceive(c) \/ ClientCall(c)
    \/ \E m \in requests : Prepare(m) \/ SwapShare(m)
    \/ \E t \in Clients : Lock(t) \/ Cancel(t) \/ WriteBody(t) \/ WriteEnd(t)
    \/ \E s \in Services : ReadChunk(s) \/ DeliverLine(s)
    \/ \E s \in Services, i \in ClientIds : ForgeCall(s, i)

\* tokio's Mutex hands the lock over in FIFO order (strong fairness for
\* Lock); a task holding it runs to completion; the ingress thread is
\* scheduled whenever it can read.
Fairness ==
    /\ \A t \in Clients :
        /\ SF_vars(Lock(t))
        /\ WF_vars(WriteBody(t))
        /\ WF_vars(WriteEnd(t))
    /\ \A s \in Services : WF_vars(ReadChunk(s)) /\ WF_vars(DeliverLine(s))

Spec == Init /\ [][Next]_vars
FairSpec == Spec /\ Fairness

-----------------------------------------------------------------------------
TypeOK ==
    /\ client \in [Clients -> [pc : {"idle", "waiting", "failed", "accepted",
                                     "rejected", "served", "refused", "crashed"},
                               svc : Services \cup {None},
                               id : ClientIds \cup {None},
                               key : Keys \cup {None}]]
    /\ task \in [Clients -> [pc : {"none", "signed", "locked", "body", "done",
                                   "cancelled", "panicked"},
                             svc : Services \cup {None},
                             id : ClientIds \cup {None},
                             cshare : Shares \cup {None},
                             sshare : Shares \cup {None},
                             key : Keys \cup {None}]]
    /\ mutex \in Clients \cup {None}
    /\ \A s \in Services :
        /\ Len(pipe[s]) <= PipeCapacity
        /\ \A q \in {pipe[s], rbuf[s], fifoLog[s]} : \A k \in 1..Len(q) :
              q[k] \in {Body(key) : key \in Keys} \cup {End(i) : i \in ClientIds}
        /\ cmap[s] \in [ClientIds -> Keys \cup {None}]
    /\ reader \in [Services -> {"running", "dead"}]
    /\ poisoned \in [Services -> BOOLEAN]

Accepted(c) == client[c].pc \in {"accepted", "served", "refused", "crashed"}

\* Attestation binding (verify_binary): a client accepts only a report that
\* the sidecar minted for this very request (its nonce and service) and only
\* for a binary whose running hash equals the certified one.  Replayed
\* reports and a sidecar hosting an altered binary must be rejected.
AttestationBinding ==
    \A c \in Clients : Accepted(c) =>
        /\ client[c].svc \notin Tampered
        /\ task[c].pc \in {"done"}
        /\ task[c].id = client[c].id
        /\ task[c].svc = client[c].svc

\* Key agreement as the code provides it (derive_key_from_shares on both
\* sides of attest_binary): for an accepted client whose own key share
\* reached the sidecar, the task, CLIENT_MAP and the client hold one key.
HonestKeyAgreement ==
    \A c \in Clients : Accepted(c) /\ task[c].cshare = c =>
        /\ \A t \in Clients : task[t].id = client[c].id =>
                                  task[t].key = client[c].key
        /\ cmap[client[c].svc][client[c].id] \in {None, client[c].key}
        /\ client[c].pc # "refused"

\* Line atomicity (write_session_key under the session mutex): the bytes
\* written to each FIFO are whole lines, each pairing one task's key with
\* that task's client id; only the last line may be unfinished, and then
\* by the task holding the mutex or one that panicked mid-line.
FifoLinesWhole ==
    \A s \in Services :
        LET log == fifoLog[s] IN
        \A k \in 1..Len(log) : k % 2 = 1 =>
            \E t \in Clients :
                /\ task[t].svc = s
                /\ log[k] = Body(task[t].key)
                /\ IF k < Len(log) THEN log[k + 1] = End(task[t].id)
                   ELSE mutex = t \/ task[t].pc = "panicked"

-----------------------------------------------------------------------------
(* Refinement of SessionAbstract.  A task's session is minted when it      *)
(* returns its report (WriteEnd); a client holds a session once it has     *)
(* accepted a report.  CLIENT_MAP, the handlers' takes and the poisoned    *)
(* flag are the abstract ones.                                             *)
Minted == {[req |-> t, svc |-> task[t].svc, id |-> task[t].id, key |-> task[t].key] :
              t \in {u \in Clients : task[u].pc = "done"}}

Holds == [c \in Clients |-> IF Accepted(c)
                            THEN [svc |-> client[c].svc, id |-> client[c].id]
                            ELSE None]

Abstract == INSTANCE SessionAbstract WITH minted <- Minted, holds <- Holds

\* Sessions as promised (spec 4.G-4.I, 5): the sidecar, the FIFO, the
\* ingress thread and get_key_for_client together only ever put into a
\* service's CLIENT_MAP the key of a report attest_binary returned for that
\* service, under that report's id, once; a handler's lookup removes the key
\* it returns; and a client holds only the session minted for its own
\* request.  A task cancelled before its write leaves nothing behind.
SessionRefinement == Abstract!Spec

\* Every report the sidecar returns has its key either in CLIENT_MAP, still
\* in the FIFO or the reader's buffer, or already taken, unless the ingress
\* thread has died.
NoSessionKeyLost ==
    \A t \in Clients : task[t].pc = "done" =>
        LET s == task[t].svc
            i == task[t].id
        IN  \/ reader[s] = "dead"
            \/ cmap[s][i] # None
            \/ \E k \in 1..Len(pipe[s]) : pipe[s][k] = End(i)
            \/ \E k \in 1..Len(rbuf[s]) : rbuf[s][k] = End(i)
            \/ \E x \in taken : x.svc = s /\ x.id = i

\* An attested client's first RPC finds its session key.
AttestedClientServed ==
    \A c \in Clients : client[c].pc # "crashed"

\* Every attest_binary task that signed a report eventually finishes: it
\* returns, panics or is cancelled, so the session mutex is never kept.
AttestTerminates ==
    \A t \in Clients :
        task[t].pc = "signed" ~> task[t].pc \in {"done", "panicked", "cancelled"}
=============================================================================
