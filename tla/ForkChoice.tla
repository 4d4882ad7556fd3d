----------------------------- MODULE ForkChoice -----------------------------
(***************************************************************************)
(* What a Blockchain promises: it knows a tree of blocks, and its          *)
(* canonical chain is the path to a known block of greatest total          *)
(* difficulty, the first such block it met.                                *)
(***************************************************************************)
EXTENDS Integers, Sequences

CONSTANTS Block, Parent, Genesis, Difficulty

VARIABLES known, chain

PathTo[h \in Block] == IF h = Genesis THEN <<h>> ELSE Append(PathTo[Parent[h]], h)

TotalDifficulty[h \in Block] ==
    Difficulty[h] + (IF h = Genesis THEN 0 ELSE TotalDifficulty[Parent[h]])

Tip == chain[Len(chain)]

Init == known = {Genesis} /\ chain = <<Genesis>>

Accept(h) ==
    /\ Parent[h] \in known
    /\ known' = known \cup {h}
    /\ chain' = IF TotalDifficulty[h] > TotalDifficulty[Tip] THEN PathTo[h] ELSE chain

Next == \E h \in Block \ {Genesis} : Accept(h)

Spec == Init /\ [][Next]_<<known, chain>>
=============================================================================
