------------------------- MODULE MCSidecarStartup -------------------------
EXTENDS SidecarStartup, TLC

CONSTANTS b1, b2, s1, s2, d1, d2, Original, Other, NoValue

MCBinaries == {b1, b2}
MCServiceOf == (b1 :> s1) @@ (b2 :> s2)
MCRunDir == (b1 :> d1) @@ (b2 :> d2)
MCImages == {Original, Other}

=============================================================================
