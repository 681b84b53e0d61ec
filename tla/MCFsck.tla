------------------------------ MODULE MCFsck -------------------------------
(* Fsck on images of two index clusters (three slots, the first page      *)
(* shared with the header), clusters of two sectors.                      *)
EXTENDS Fsck

\* Slot contents: unallocated, misaligned, blocks 1 (inside the index
\* table), 2 and 3.
MCIsecValues == {0, 1, 2, 4, 6}

\* Files ending at the index, inside block 3, after block 3.
MCFileSizes == {4, 7, 8}

\* Devices whose last full cluster is logical cluster 0 or 1.
MCBdSizes == {2, 4}
\* The same without slots mapping into the index table.
MCIsecData == {0, 1, 4, 6}

=============================================================================
