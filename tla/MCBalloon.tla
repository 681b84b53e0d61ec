----------------------------- MODULE MCBalloon -----------------------------
(* Balloon instantiated for TLC: two processes, two filesystem blocks.     *)
EXTENDS Balloon, TLC

CONSTANTS p1, p2, b1, b2

MCProcs == {p1, p2}
MCBlocks == {b1, b2}

\* Processes and blocks are interchangeable model values.
MCSymmetry == Permutations(MCProcs) \cup Permutations(MCBlocks)
\* Explore ploop_balloon_change_size and the unlocked operations only.
ChangeSizeOnly == \A p \in MCProcs : op[p] \notin {"check", "repair"}
\* The device and the balloon, seen through the abstract specification.
Device == INSTANCE BalloonDevice WITH Blocks <- MCBlocks

\* Every step the operations of balloon.c, crashes and other tools take
\* together is a step the device protocol allows: BALLOON granted only
\* from OFF, a free list loaded only in BALLOON and only with balloon
\* blocks, the balloon left alone while a list is loaded.
ImplementsDevice == Device!Spec
=============================================================================
