----------------------------- MODULE FsckBitmap -----------------------------
(***************************************************************************)
(* The usage bitmap of ploop_fsck -c (src/lib/fsck_util.c): its size in   *)
(* bytes is computed from the file length, it is an array of __u32 words, *)
(* and a bit is set in it for every block of the index table before the   *)
(* scan.  The state is the input: the file length in bytes and l1_slots   *)
(* from the header.                                                        *)
(***************************************************************************)
EXTENDS Naturals

CONSTANTS
  Cluster,     \* CLUSTER, bytes
  MaxBlocks,   \* largest file length considered, in clusters
  MaxL1,       \* largest l1_slots considered
  HeaderBytes  \* sizeof(struct ploop_pvd_header): shorter files fail the header READ

VARIABLES st_size, l1_slots

vars == <<st_size, l1_slots>>

\* File lengths at, just past and just before a cluster boundary, long
\* enough to hold the header.
FileSizes == {n * Cluster + r : n \in 0 .. MaxBlocks, r \in {0, 1, Cluster - 1}}
               \ (0 .. HeaderBytes - 1)

\* bmap_size = (st_size + CLUSTER - 1) / CLUSTER; bmap_size = (bmap_size + 31) / 8
BmapBytes(size) == ((size + Cluster - 1) \div Cluster + 31) \div 8

\* The __u32 word holding bit b, and whether the malloc'd bytes hold it.
Word(b) == b \div 32
InBitmap(b, size) == 4 * Word(b) + 4 <= BmapBytes(size)

\* Bits set before the scan: bmap[i / 32] |= 1 << (i % 32), i < l1_slots.
Seeded == 0 .. l1_slots - 1

Init ==
  /\ st_size \in FileSizes
  /\ l1_slots \in 1 .. MaxL1

Next == UNCHANGED vars

Spec == Init /\ [][Next]_vars

-----------------------------------------------------------------------------

\* The bits ploop_fsck seeds for the index table fall inside the bitmap:
\* the header's l1_slots is never checked against the file length.
SeedInsideBitmap == \A b \in Seeded : InBitmap(b, st_size)

=============================================================================
