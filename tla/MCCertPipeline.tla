-------------------------- MODULE MCCertPipeline --------------------------
EXTENDS CertPipeline, TLC

CONSTANTS b1, b2, c1, NoValue

MCBins == {b1, b2}
\* every binary's crate is named like its file
MCSameNames == (b1 :> b1) @@ (b2 :> b2)
\* b1's file name has a hyphen that rustc turns into an underscore
MCHyphenNames == (b1 :> c1) @@ (b2 :> b2)

=============================================================================
