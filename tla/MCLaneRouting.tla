----------------------------- MODULE MCLaneRouting -----------------------------
(* Small instances of LaneRouting for TLC. *)
EXTENDS LaneRouting, TLC

CONSTANTS a, b   \* two members; a has the higher priority

RequestSymmetry == Permutations(Requests)

MCBody(mode, chain, cooldownSecs, affinitySecs, tries) ==
    [mode |-> mode, chain |-> chain, disabled |-> {}, active |-> a,
     attempts |-> [m \in Members |-> tries],
     cooldown |-> [m \in Members |-> cooldownSecs], laneCooldown |-> cooldownSecs,
     affinity |-> [m \in Members |-> affinitySecs]]

TwoMembers == MCBody("failover", <<a, b>>, 1, 0, 1)
OneMember == MCBody("failover", <<a>>, 1, 0, 1)
Sticky == MCBody("failover", <<a, b>>, 1, 2, 1)
StickyDisabled == [MCBody("failover", <<b, a>>, 1, 2, 1) EXCEPT !.disabled = {b}]
OnlyB == MCBody("failover", <<b>>, 1, 2, 1)

OnlyTwoMembers == {TwoMembers}
OnlyOneMember == {OneMember}
Edited == {Sticky, StickyDisabled, OnlyB, OneMember}
OneMemberModes == {OneMember, MCBody("manual", <<a>>, 1, 0, 2)}

NoPins == {NoMember}
AliasOfB == {b}

\* Opens after one hard failure or two transient ones; window evidence: 2 of 2.
Fast == [threshold |-> 10, openSeconds |-> 0, maxOpenSeconds |-> 3,
         minSamples |-> 2, rateNum |-> 1, rateDen |-> 1]
\* Opens on accumulated score only.
Slow == [Fast EXCEPT !.threshold = 20, !.minSamples = 9, !.openSeconds = 1]
FastOnly == {Fast}
SlowOnly == {Slow}
FastOrSlow == {Fast, Slow}

================================================================================
