-------------------------- MODULE SessionAbstract --------------------------
(***************************************************************************)
(* What runtime attestation promises, one step per event a party outside  *)
(* the sidecar can observe:                                                *)
(*                                                                         *)
(*  - Mint: the sidecar returns a report for request c, binding a fresh    *)
(*    client id to a session key for a service;                            *)
(*  - Accept: client c takes a session minted for its own request, and     *)
(*    only for a service whose binary is the certified one;                *)
(*  - Deliver: a minted key becomes available to its own service, under    *)
(*    its own id, once;                                                    *)
(*  - Take: a handler removes an available key (at most once per id);      *)
(*  - Poison: a lookup of an absent id crashes the service's map for good. *)
(*                                                                         *)
(* Nothing here forces a minted key to be delivered: keys may be lost, and *)
(* the detailed specification says how.                                    *)
(***************************************************************************)
CONSTANTS Clients, Services, ClientIds, Tampered, Keys, None, Adversary

VARIABLES
    minted,    \* sessions whose report the sidecar returned
    holds,     \* the session an accepted client holds, or None
    cmap,      \* each service's available keys: id -> key, or None
    taken,     \* keys handed to handlers: [svc, id, by]
    poisoned   \* a service's map has crashed

vars == <<minted, holds, cmap, taken, poisoned>>

Session == [req : Clients, svc : Services, id : ClientIds, key : Keys]

Delivered(m) ==
    \/ cmap[m.svc][m.id] # None
    \/ \E x \in taken : x.svc = m.svc /\ x.id = m.id

Init ==
    /\ minted = {}
    /\ holds = [c \in Clients |-> None]
    /\ cmap = [s \in Services |-> [i \in ClientIds |-> None]]
    /\ taken = {}
    /\ poisoned = [s \in Services |-> FALSE]

\* A report for request c, fresh client id i, key k.
Mint(c, s, i, k) ==
    /\ c \notin {x.req : x \in minted}
    /\ i \notin {x.id : x \in minted}
    /\ minted' = minted \cup {[req |-> c, svc |-> s, id |-> i, key |-> k]}
    /\ UNCHANGED <<holds, cmap, taken, poisoned>>

Accept(c) ==
    /\ holds[c] = None
    /\ \E m \in minted :
        /\ m.req = c
        /\ m.svc \notin Tampered
        /\ holds' = [holds EXCEPT ![c] = [svc |-> m.svc, id |-> m.id]]
    /\ UNCHANGED <<minted, cmap, taken, poisoned>>

Deliver(m) ==
    /\ m \in minted
    /\ ~poisoned[m.svc]
    /\ ~Delivered(m)
    /\ cmap' = [cmap EXCEPT ![m.svc][m.id] = m.key]
    /\ UNCHANGED <<minted, holds, taken, poisoned>>

Take(s, i, who) ==
    /\ ~poisoned[s]
    /\ cmap[s][i] # None
    /\ cmap' = [cmap EXCEPT ![s][i] = None]
    /\ taken' = taken \cup {[svc |-> s, id |-> i, by |-> who]}
    /\ UNCHANGED <<minted, holds, poisoned>>

Poison(s) ==
    /\ ~poisoned[s]
    /\ \E i \in ClientIds : cmap[s][i] = None
    /\ poisoned' = [poisoned EXCEPT ![s] = TRUE]
    /\ UNCHANGED <<minted, holds, cmap, taken>>

Next ==
    \/ \E c \in Clients \ {x.req : x \in minted},
          i \in ClientIds \ {x.id : x \in minted},
          s \in Services, k \in Keys : Mint(c, s, i, k)
    \/ \E m \in minted : Deliver(m)
    \/ \E c \in Clients : Accept(c)
    \/ \E s \in Services, i \in ClientIds, w \in Clients \cup {Adversary} :
          Take(s, i, w)
    \/ \E s \in Services : Poison(s)

Spec == Init /\ [][Next]_vars
=============================================================================
