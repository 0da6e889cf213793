------------------------- MODULE MCSessionDelivery -------------------------
(* Model-checking instance of SessionDelivery. *)
EXTENDS SessionDelivery, TLC

CONSTANTS c1, c2, i1, i2, s1, s2, n1, n2, n3

MCClients == {c1, c2}
MCClientIds == {i1, i2}
MCServices == {s1, s2}
MCOneService == {s1}
\* each binary under a service name of its own; n3 names no binary
MCServiceMapping == (s1 :> n1) @@ (s2 :> n2)
MCServiceNames == {n1, n2, n3}
MCOneMapping == (s1 :> n1)

\* Clients and client ids are interchangeable model values (safety runs only).
MCSymmetry == Permutations(MCClients) \cup Permutations(MCClientIds)
=============================================================================
