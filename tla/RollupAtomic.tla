---------------------------- MODULE RollupAtomic ----------------------------
(***************************************************************************)
(* What the policy roll-up promises (spec 4.A, 4.B), without the files:    *)
(* once every crate a crate uses is built, the crate gets, in one step, a  *)
(* summary committing to the name of each policy-bearing crate it uses    *)
(* together with that crate's own summary, and to its own impl             *)
(* fingerprints, the maps in some order.  Crates without alohomora only   *)
(* get built.                                                              *)
(***************************************************************************)
EXTENDS Naturals, SequencesExt

CONSTANTS Crates, UsedCrates, CrateName, Sesame, Impls

VARIABLES
    done,     \* crates built
    summary   \* the summary line each attested crate has published

Digest(x) == [sha256 |-> x]
NoSummary == Digest(<<>>)
Summary(depOrder, implOrder) == Digest(<<Digest(depOrder), Digest(implOrder)>>)
ImplPairs(c) == {<<i, <<c, i>>>> : i \in Impls[c]}

Init ==
    /\ done = [c \in Crates |-> FALSE]
    /\ summary = [c \in Crates |-> NoSummary]

Ready(c) == ~done[c] /\ \A d \in UsedCrates[c] : done[d]

Attest(c) ==
    /\ c \in Sesame
    /\ Ready(c)
    /\ \E depOrder \in SetToSeqs({<<CrateName[d], summary[d]>> : d \in UsedCrates[c] \cap Sesame}),
          implOrder \in SetToSeqs(ImplPairs(c)) :
          summary' = [summary EXCEPT ![c] = Summary(depOrder, implOrder)]
    /\ done' = [done EXCEPT ![c] = TRUE]

Skip(c) ==
    /\ c \notin Sesame
    /\ Ready(c)
    /\ done' = [done EXCEPT ![c] = TRUE]
    /\ UNCHANGED summary

Next == \E c \in Crates : Attest(c) \/ Skip(c)

Spec == Init /\ [][Next]_<<done, summary>>

=============================================================================
