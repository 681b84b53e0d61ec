---------------------------- MODULE BalloonDevice ----------------------------
(***************************************************************************)
(* What the maintenance state of a ploop device, together with the hidden *)
(* balloon, promises the file system (spec sections 4.1-4.3), with no     *)
(* processes, flocks or error paths:                                       *)
(*   - a balloon operation is granted BALLOON only from OFF, and other    *)
(*     maintenance (merge, grow, tracking) starts only from OFF;          *)
(*   - a free-block list is loaded only in BALLOON, and names only blocks *)
(*     of the balloon;                                                     *)
(*   - while a list is loaded (FBLOADED, RELOC) the balloon does not      *)
(*     change size; the relocation either ends in OFF with the list gone, *)
(*     or stops in RELOC to be resumed.                                    *)
(***************************************************************************)
CONSTANTS Blocks

VARIABLES mntn, devFree, balloon

OtherMntn == {"MERGE", "GROW", "TRACK"}
Unfinished == {"FBLOADED", "RELOC"}

Init ==
  /\ mntn = "OFF"
  /\ devFree = {}
  /\ balloon \in SUBSET Blocks

Grant   == mntn = "OFF" /\ mntn' = "BALLOON" /\ UNCHANGED <<devFree, balloon>>
Release == mntn = "BALLOON" /\ mntn' = "OFF" /\ UNCHANGED <<devFree, balloon>>

Load ==
  /\ mntn = "BALLOON"
  /\ \E list \in SUBSET balloon \ {{}} : devFree' = list
  /\ mntn' = "FBLOADED"
  /\ UNCHANGED balloon

Relocated ==
  /\ mntn \in Unfinished
  /\ mntn' = "OFF" /\ devFree' = {}
  /\ UNCHANGED balloon

Interrupted ==
  /\ mntn \in Unfinished
  /\ mntn' = "RELOC"
  /\ UNCHANGED <<devFree, balloon>>

OtherBegin == mntn = "OFF" /\ mntn' \in OtherMntn /\ UNCHANGED <<devFree, balloon>>
OtherEnd   == mntn \in OtherMntn /\ mntn' = "OFF" /\ UNCHANGED <<devFree, balloon>>

\* The balloon file grows (fallocate) or shrinks (ftruncate).
Resize ==
  /\ mntn \notin Unfinished
  /\ \E b \in SUBSET Blocks :
        /\ b \subseteq balloon \/ balloon \subseteq b
        /\ balloon' = b
  /\ UNCHANGED <<mntn, devFree>>

Next ==
  Grant \/ Release \/ Load \/ Relocated \/ Interrupted
  \/ OtherBegin \/ OtherEnd \/ Resize

Spec == Init /\ [][Next]_<<mntn, devFree, balloon>>

=============================================================================
