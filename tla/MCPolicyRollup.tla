--------------------------- MODULE MCPolicyRollup ---------------------------
(***************************************************************************)
(* A workspace of five crates:                                             *)
(*   1  alohomora itself (does not use itself, so it is not attested);     *)
(*   2, 3  policy crates on alohomora, built in parallel;                  *)
(*   5  a crate without alohomora;                                         *)
(*   4  the service binary, using all of them.                             *)
(* Crate 2 has two impl Policy blocks and crate 4 two policy-bearing       *)
(* dependencies, so both HashMaps have more than one entry.                *)
(***************************************************************************)
EXTENDS PolicyRollup

MCCrates == 1..5
MCUsedCrates == (1 :> {} @@ 2 :> {1} @@ 3 :> {1} @@ 4 :> {1, 2, 3, 5} @@ 5 :> {})
\* every crate has a name of its own
MCCrateName == [c \in MCCrates |-> c]
MCSesame == {2, 3, 4}
MCImpls == (1 :> {} @@ 2 :> {1, 2} @@ 3 :> {1} @@ 4 :> {1} @@ 5 :> {})

(***************************************************************************)
(* The same workspace with crate 3 also using crate 2, so that no two      *)
(* crates with alohomora are built at the same time; crate 5 still builds  *)
(* alongside any of them.                                                  *)
(***************************************************************************)
SerialUsedCrates == (1 :> {} @@ 2 :> {1} @@ 3 :> {1, 2} @@ 4 :> {1, 2, 3, 5} @@ 5 :> {})

(***************************************************************************)
(* A package whose library (2) and binary (3) both take the package's      *)
(* name, with a second crate (4) using the library.  The binary's          *)
(* File::create truncates the library's policy-hash file (run              *)
(* name_collision); NoCrateFails and RollupPairsMatch break on it too.     *)
(***************************************************************************)
LibBinCrates == 1..4
LibBinUsedCrates == (1 :> {} @@ 2 :> {1} @@ 3 :> {1, 2} @@ 4 :> {1, 2})
LibBinCrateName == (1 :> 1 @@ 2 :> 2 @@ 3 :> 2 @@ 4 :> 4)
LibBinSesame == {2, 3, 4}
LibBinImpls == (1 :> {} @@ 2 :> {1} @@ 3 :> {} @@ 4 :> {1})
=============================================================================
