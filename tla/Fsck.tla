------------------------------- MODULE Fsck --------------------------------
(***************************************************************************)
(* ploop_fsck of src/lib/fsck_util.c over one image file.                 *)
(*                                                                         *)
(* Units are sectors; a cluster is ClusterSectors sectors.  The index     *)
(* table is L1Slots clusters at the start of the file, each holding        *)
(* SlotsPerPage 4-byte slots, the first HeaderSlots of page 0 taken by the *)
(* header.  Slot number l2_slot maps the logical cluster l2_slot to the   *)
(* sector isec (0 = unallocated); its physical block is isec \div cluster. *)
(* The scan reads one index page, then checks its slots one by one; every *)
(* write the checker makes (zeroing a slot, trimming the tail, rewriting   *)
(* the header) changes the variables of the image at the step it happens.  *)
(* After a successful read-write run a second, forced run is made on the  *)
(* result to check that a repaired image needs no further repair.         *)
(***************************************************************************)
EXTENDS Naturals, FiniteSets

CONSTANTS
  ClusterSectors,  \* 1 << PLOOP1_DEF_CLUSTER_LOG
  L1Slots,         \* m_FirstBlockOffset >> PLOOP1_DEF_CLUSTER_LOG
  SlotsPerPage,    \* CLUSTER / 4
  HeaderSlots,     \* sizeof(struct ploop_pvd_header) / 4
  WordBits,        \* width of __u32 (scaled down for TLC)
  IsecValues,      \* slot contents the initial images may hold
  FileSizes,       \* file sizes (sectors) the initial images may have
  BdSizes          \* m_SizeInSectors values of the initial images

ASSUME ClusterSectors \in Nat \ {0, 1}
ASSUME L1Slots \in Nat \ {0}
ASSUME HeaderSlots < SlotsPerPage
ASSUME 0 \in IsecValues

NSlots == L1Slots * SlotsPerPage - HeaderSlots
Slots == 0 .. NSlots - 1

\* First and last l2_slot of index page i.
FirstSlot(i) == IF i = 0 THEN 0 ELSE i * SlotsPerPage - HeaderSlots
LastSlot(i) == (i + 1) * SlotsPerPage - HeaderSlots - 1

U32(x) == x % (2 ^ WordBits)

Block(isec) == isec \div ClusterSectors

Results == {"OK", "OPEN", "READ", "WRITE", "PLOOPFMT", "MALLOC", "FTRUNCATE"}

VARIABLES
  img,        \* the file: [index, size, dirty (m_DiskInUse), empty (CIF_Empty)]
  hdrValid,   \* signature, type, m_Sectors, first block offset all valid
  bd_size,    \* m_SizeInSectors
  opt,        \* [force, hard_force, check, ro, verbose]
  phase,      \* where ploop_fsck is
  page,       \* i: the index page being scanned
  slot,       \* l2_slot: the next slot to check on the page
  alloc_head, \* highest used block, then the block count after the scan
  bmap,       \* check: the set of blocks marked used
  clean,      \* clean
  fatality,   \* fatality
  ret,        \* ret
  pass,       \* 1: the run on the given image; 2: the rerun on its result
  img0        \* the image as the current pass found it

vars == <<img, hdrValid, bd_size, opt, phase, page, slot, alloc_head, bmap,
          clean, fatality, ret, pass, img0>>

Images == [index : [Slots -> IsecValues], size : FileSizes,
           dirty : BOOLEAN, empty : BOOLEAN]

\* The options "ploop check" can pass: -f force, -F force and hard_force,
\* -c check, -r ro, and verbose unless -s.
Options == {o \in [force : BOOLEAN, hard_force : BOOLEAN, check : BOOLEAN,
                   ro : BOOLEAN, verbose : BOOLEAN] : o.hard_force => o.force}

Init ==
  /\ img \in Images
  /\ hdrValid \in BOOLEAN
  /\ bd_size \in BdSizes
  /\ opt \in Options
  /\ phase = "open"
  /\ page = 0
  /\ slot = 0
  /\ alloc_head = 0
  /\ bmap = {}
  /\ clean = TRUE
  /\ fatality = FALSE
  /\ ret = "OK"
  /\ pass = 1
  /\ img0 = img

Scan == <<page, slot, alloc_head, bmap, clean, fatality>>

Exit(r) == /\ ret' = r
           /\ phase' = "close"

-----------------------------------------------------------------------------

\* Mutant of Open: the dirty flag is cleared when the check starts rather
\* than in the final header write.
OpenClearsDirty ==
  /\ phase = "open"
  /\ \/ /\ Exit("OPEN")                       \* open or fstat failed
        /\ UNCHANGED <<opt, Scan, img>>
     \/ /\ Exit("READ")                       \* header read failed
        /\ UNCHANGED <<opt, Scan, img>>
     \/ /\ ~hdrValid
        /\ Exit("PLOOPFMT")
        /\ UNCHANGED <<opt, Scan, img>>
     \/ /\ hdrValid
        /\ ~img.dirty /\ ~opt.force           \* clean, fsck skipped
        /\ Exit("OK")
        /\ UNCHANGED <<opt, Scan, img>>
     \/ /\ hdrValid
        /\ img.dirty \/ opt.force
        /\ alloc_head' = L1Slots - 1
        /\ img' = [img EXCEPT !.dirty = img.dirty /\ opt.ro]
        /\ \/ /\ bmap' = IF opt.check THEN 0 .. L1Slots - 1 ELSE {}
              /\ phase' = "page"
              /\ UNCHANGED <<opt, ret>>
           \/ /\ opt.check /\ opt.verbose     \* malloc failed: go on unchecked
              /\ opt' = [opt EXCEPT !.check = FALSE]
              /\ bmap' = {}
              /\ phase' = "page"
              /\ UNCHANGED ret
           \/ /\ opt.check /\ ~opt.verbose    \* malloc failed
              /\ Exit("MALLOC")
              /\ UNCHANGED <<opt, bmap>>
        /\ UNCHANGED <<page, slot, clean, fatality>>
  /\ UNCHANGED <<hdrValid, bd_size, pass, img0>>

\* open, fstat, read and validate the header, allocate and seed the bitmap.
Open ==
  /\ phase = "open"
  /\ \/ /\ Exit("OPEN")                       \* open or fstat failed
        /\ UNCHANGED <<opt, Scan>>
     \/ /\ Exit("READ")                       \* header read failed
        /\ UNCHANGED <<opt, Scan>>
     \/ /\ ~hdrValid
        /\ Exit("PLOOPFMT")
        /\ UNCHANGED <<opt, Scan>>
     \/ /\ hdrValid
        /\ ~img.dirty /\ ~opt.force           \* clean, fsck skipped
        /\ Exit("OK")
        /\ UNCHANGED <<opt, Scan>>
     \/ /\ hdrValid
        /\ img.dirty \/ opt.force
        /\ alloc_head' = L1Slots - 1
        /\ \/ /\ bmap' = IF opt.check THEN 0 .. L1Slots - 1 ELSE {}
              /\ phase' = "page"
              /\ UNCHANGED <<opt, ret>>
           \/ /\ opt.check /\ opt.verbose     \* malloc failed: go on unchecked
              /\ opt' = [opt EXCEPT !.check = FALSE]
              /\ bmap' = {}
              /\ phase' = "page"
              /\ UNCHANGED ret
           \/ /\ opt.check /\ ~opt.verbose    \* malloc failed
              /\ Exit("MALLOC")
              /\ UNCHANGED <<opt, bmap>>
        /\ UNCHANGED <<page, slot, clean, fatality>>
  /\ UNCHANGED <<img, hdrValid, bd_size, pass, img0>>

\* Read index page i, and re-write it when the image is dirty and writable.
ReadPage ==
  /\ phase = "page"
  /\ \/ /\ Exit("READ")
        /\ UNCHANGED slot
     \/ /\ ~opt.ro /\ img.dirty
        /\ Exit("WRITE")
        /\ UNCHANGED slot
     \/ /\ phase' = "slots"
        /\ slot' = FirstSlot(page)
        /\ UNCHANGED ret
  /\ UNCHANGED <<img, hdrValid, bd_size, opt, page, alloc_head, bmap, clean,
                 fatality, pass, img0>>

\* Mutant of Advance: the slot loop misses its j++.
AdvanceSameSlot ==
  IF slot < LastSlot(page)
  THEN UNCHANGED <<slot, page, phase>>
  ELSE IF page + 1 < L1Slots
       THEN /\ page' = page + 1
            /\ phase' = "page"
            /\ UNCHANGED slot
       ELSE /\ phase' = "tail"
            /\ UNCHANGED <<page, slot>>

\* Mutant of Advance: the page loop runs one page too far.
AdvancePastLastPage ==
  IF slot < LastSlot(page)
  THEN /\ slot' = slot + 1
       /\ UNCHANGED <<page, phase>>
  ELSE IF page + 1 <= L1Slots
       THEN /\ page' = page + 1
            /\ phase' = "page"
            /\ UNCHANGED slot
       ELSE /\ phase' = "tail"
            /\ UNCHANGED <<page, slot>>

\* Move past the slot just checked: next slot, next page, or the tail.
Advance ==
  IF slot < LastSlot(page)
  THEN /\ slot' = slot + 1
       /\ UNCHANGED <<page, phase>>
  ELSE IF page + 1 < L1Slots
       THEN /\ page' = page + 1
            /\ phase' = "page"
            /\ UNCHANGED slot
       ELSE /\ phase' = "tail"
            /\ UNCHANGED <<page, slot>>

\* zero_index_fix skips the repair on a read-only image, and a hard one
\* without hard_force.
Skip(hard) == opt.ro \/ (hard /\ ~opt.hard_force)

\* zero_index_fix(d, clu, hard, ZEROFIX, fatal), its result ending
\* check_one_slot, and ploop_fsck's "if (ret) goto done".
ZeroIndexFix(clu, hard, fatal) ==
  \/ /\ Skip(hard)
     /\ clean' = FALSE
     /\ fatality' = (fatality \/ fatal)
     /\ Advance
     /\ UNCHANGED <<img, ret>>
  \/ /\ ~Skip(hard)
     /\ img' = [img EXCEPT !.index[clu] = 0]
     /\ Advance
     /\ UNCHANGED <<clean, fatality, ret>>
  \/ /\ ~Skip(hard)                     \* zero_index: write failed
     /\ Exit("WRITE")
     /\ UNCHANGED <<img, clean, fatality, page, slot>>

BeyondDevice(clu) == U32(clu * ClusterSectors) > bd_size
Misaligned(isec) == isec % ClusterSectors # 0
BeyondEOF(isec) == Block(isec) * ClusterSectors + ClusterSectors > img.size

\* Mutant of CheckSlot: check_one_slot without its beyond-EOF test.
CheckSlotNoEOF ==
  /\ phase = "slots"
  /\ LET isec == img.index[slot]
         iblk == Block(isec)
         dup  == opt.check /\ iblk \in bmap
     IN \/ /\ isec = 0
           /\ Advance
           /\ UNCHANGED <<img, alloc_head, bmap, clean, fatality, ret>>
        \/ /\ isec # 0
           /\ BeyondDevice(slot)
           /\ ZeroIndexFix(slot, FALSE, FALSE)
           /\ UNCHANGED <<alloc_head, bmap>>
        \/ /\ isec # 0
           /\ ~BeyondDevice(slot)
           /\ Misaligned(isec)
           /\ ZeroIndexFix(slot, TRUE, TRUE)
           /\ UNCHANGED <<alloc_head, bmap>>
        \/ /\ isec # 0
           /\ ~BeyondDevice(slot) /\ ~Misaligned(isec)
           /\ clean' = (clean /\ ~(dup /\ Skip(TRUE)))
           /\ fatality' = (fatality \/ (dup /\ Skip(TRUE)))
           /\ bmap' = IF opt.check THEN bmap \cup {iblk} ELSE bmap
           /\ alloc_head' = IF iblk > alloc_head THEN iblk ELSE alloc_head
           /\ Advance
           /\ UNCHANGED <<img, ret>>
  /\ UNCHANGED <<hdrValid, bd_size, opt, pass, img0>>

\* One turn of the inner loop over l2_ptr[j]: check_one_slot on a nonzero
\* slot.  A duplicate is "Ignored" (never zeroed) and its result dropped.
CheckSlot ==
  /\ phase = "slots"
  /\ LET isec == img.index[slot]
         iblk == Block(isec)
         dup  == opt.check /\ iblk \in bmap
     IN \/ /\ isec = 0
           /\ Advance
           /\ UNCHANGED <<img, alloc_head, bmap, clean, fatality, ret>>
        \/ /\ isec # 0
           /\ BeyondDevice(slot)
           /\ ZeroIndexFix(slot, FALSE, FALSE)
           /\ UNCHANGED <<alloc_head, bmap>>
        \/ /\ isec # 0
           /\ ~BeyondDevice(slot)
           /\ Misaligned(isec) \/ BeyondEOF(isec)
           /\ ZeroIndexFix(slot, TRUE, TRUE)
           /\ UNCHANGED <<alloc_head, bmap>>
        \/ /\ isec # 0
           /\ ~BeyondDevice(slot) /\ ~Misaligned(isec) /\ ~BeyondEOF(isec)
           /\ clean' = (clean /\ ~(dup /\ Skip(TRUE)))
           /\ fatality' = (fatality \/ (dup /\ Skip(TRUE)))
           /\ bmap' = IF opt.check THEN bmap \cup {iblk} ELSE bmap
           /\ alloc_head' = IF iblk > alloc_head THEN iblk ELSE alloc_head
           /\ Advance
           /\ UNCHANGED <<img, ret>>
  /\ UNCHANGED <<hdrValid, bd_size, opt, pass, img0>>

\* Mutant of Tail: alloc_head used without the increment after the scan.
TailNoIncrement ==
  /\ phase = "tail"
  /\ LET ah       == alloc_head
         trim     == ah * ClusterSectors < img.size
         ahR      == IF trim /\ opt.ro
                     THEN (img.size + ClusterSectors - 1) \div ClusterSectors
                     ELSE ah
         trimmed  == [img EXCEPT !.size = IF trim /\ ~opt.ro
                                          THEN ah * ClusterSectors
                                          ELSE img.size]
         newEmpty == ~(ahR > L1Slots)
         fixHdr   == img.dirty \/ img.empty # newEmpty
     IN \/ /\ fatality
           /\ Exit("PLOOPFMT")
           /\ UNCHANGED img
        \/ /\ ~fatality /\ trim /\ ~opt.ro  \* ftruncate failed
           /\ Exit("FTRUNCATE")
           /\ UNCHANGED img
        \/ /\ ~fatality /\ ~clean           \* content not fixed
           /\ img' = trimmed
           /\ Exit("PLOOPFMT")
        \/ /\ ~fatality /\ clean /\ ~fixHdr
           /\ img' = trimmed
           /\ Exit("OK")
        \/ /\ ~fatality /\ clean /\ fixHdr /\ opt.ro
           /\ img' = trimmed
           /\ Exit("PLOOPFMT")
        \/ /\ ~fatality /\ clean /\ fixHdr /\ ~opt.ro
           /\ img' = trimmed                \* header write failed
           /\ Exit("WRITE")
        \/ /\ ~fatality /\ clean /\ fixHdr /\ ~opt.ro
           /\ img' = [trimmed EXCEPT !.dirty = FALSE, !.empty = newEmpty]
           /\ Exit("OK") \/ Exit("WRITE")  \* FSYNC may fail
     /\ alloc_head' = ahR
  /\ UNCHANGED <<hdrValid, bd_size, opt, page, slot, bmap, clean, fatality,
                 pass, img0>>

\* After the scan: alloc_head++, (holes are only logged), fatality, tail
\* trim, CIF_Empty, and the header rewrite.
Tail ==
  /\ phase = "tail"
  /\ LET ah       == alloc_head + 1
         trim     == ah * ClusterSectors < img.size
         ahR      == IF trim /\ opt.ro
                     THEN (img.size + ClusterSectors - 1) \div ClusterSectors
                     ELSE ah
         trimmed  == [img EXCEPT !.size = IF trim /\ ~opt.ro
                                          THEN ah * ClusterSectors
                                          ELSE img.size]
         newEmpty == ~(ahR > L1Slots)
         fixHdr   == img.dirty \/ img.empty # newEmpty
     IN \/ /\ fatality
           /\ Exit("PLOOPFMT")
           /\ UNCHANGED img
        \/ /\ ~fatality /\ trim /\ ~opt.ro  \* ftruncate failed
           /\ Exit("FTRUNCATE")
           /\ UNCHANGED img
        \/ /\ ~fatality /\ ~clean           \* content not fixed
           /\ img' = trimmed
           /\ Exit("PLOOPFMT")
        \/ /\ ~fatality /\ clean /\ ~fixHdr
           /\ img' = trimmed
           /\ Exit("OK")
        \/ /\ ~fatality /\ clean /\ fixHdr /\ opt.ro
           /\ img' = trimmed
           /\ Exit("PLOOPFMT")
        \/ /\ ~fatality /\ clean /\ fixHdr /\ ~opt.ro
           /\ img' = trimmed                \* header write failed
           /\ Exit("WRITE")
        \/ /\ ~fatality /\ clean /\ fixHdr /\ ~opt.ro
           /\ img' = [trimmed EXCEPT !.dirty = FALSE, !.empty = newEmpty]
           /\ Exit("OK") \/ Exit("WRITE")  \* FSYNC may fail
     /\ alloc_head' = ahR
  /\ UNCHANGED <<hdrValid, bd_size, opt, page, slot, bmap, clean, fatality,
                 pass, img0>>

\* done: CLOSE; its failure is reported only when nothing failed before.
Close ==
  /\ phase = "close"
  /\ \/ ret' = ret
     \/ ret' = IF ret = "OK" THEN "WRITE" ELSE ret
  /\ phase' = "done"
  /\ UNCHANGED <<img, hdrValid, bd_size, opt, Scan, pass, img0>>

\* The run was asked to check this image and could write to it.
Checked == ~opt.ro /\ (img0.dirty \/ opt.force)

\* ploop check -f run again, with the same options, on what a successful
\* read-write check left.
Rerun ==
  /\ phase = "done"
  /\ pass = 1 /\ ret = "OK" /\ Checked
  /\ pass' = 2
  /\ opt' = [opt EXCEPT !.force = TRUE]
  /\ img0' = img
  /\ phase' = "open"
  /\ page' = 0 /\ slot' = 0 /\ alloc_head' = 0 /\ bmap' = {}
  /\ clean' = TRUE /\ fatality' = FALSE /\ ret' = "OK"
  /\ UNCHANGED <<img, hdrValid, bd_size>>

Next == Open \/ ReadPage \/ CheckSlot \/ Tail \/ Close \/ Rerun

Spec == Init /\ [][Next]_vars

\* ploop_fsck is one sequential process with no blocking wait of its own:
\* while it has a next step, it takes it.
FairSpec == Spec /\ WF_vars(Next)

-----------------------------------------------------------------------------

ImageShape == [index : [Slots -> Nat], size : Nat, dirty : BOOLEAN, empty : BOOLEAN]

TypeOK ==
  /\ img \in ImageShape
  /\ phase \in {"open", "page", "slots", "tail", "close", "done"}
  /\ page \in 0 .. L1Slots - 1
  /\ slot \in Slots
  /\ alloc_head \in Nat
  /\ bmap \subseteq Nat
  /\ clean \in BOOLEAN /\ fatality \in BOOLEAN
  /\ ret \in Results
  /\ pass \in {1, 2}
  /\ img0 \in ImageShape

Allocated == {s \in Slots : img.index[s] # 0}

\* A successful read-write check leaves an image whose every allocated
\* slot is cluster aligned and inside the (possibly trimmed) file, whose
\* header is clean, and whose CIF_Empty says whether any slot maps a data
\* cluster (a block past the index table).
RepairLeavesConsistentImage ==
  (phase = "done" /\ ret = "OK" /\ Checked) =>
    /\ \A s \in Allocated : ~Misaligned(img.index[s]) /\ ~BeyondEOF(img.index[s])
    /\ ~img.dirty
    /\ img.empty = \A s \in Allocated : Block(img.index[s]) < L1Slots

\* Running ploop check -f again on an image a read-write run repaired
\* changes nothing and reports no corruption (spec 8, round trip).
RepairIsFixedPoint ==
  (pass = 2 /\ phase = "done") => (img = img0 /\ ret # "PLOOPFMT")

\* A run that found a fatal error leaves the image as it found it
\* (spec 7 and 8: "bit-for-bit unmodified").
FatalLeavesImageUnmodified ==
  (phase = "done" /\ fatality) => img = img0

\* After a successful read-write check every allocated slot maps a logical
\* cluster inside the block device: cluster clu covers sectors
\* [clu * cluster, (clu + 1) * cluster).
SlotsWithinDevice ==
  (phase = "done" /\ ret = "OK" /\ Checked) =>
    \A s \in Allocated : s * ClusterSectors < bd_size

\* Every ploop_fsck run, and the rerun of a repaired image, comes to its
\* end: the page loop and the slot loop over l2_ptr[j] advance to the
\* tail, whatever the image holds and whichever fixes are made.
Terminates == <>[](phase = "done")

\* A read-only check that reports success has judged the header's
\* CIF_Empty against the content, as a read-write run of the same image
\* would (spec 4.6: the flag is recomputed from the new allocation head;
\* read-only mode only reports the trim).
ReadOnlyJudgesEmptyByContent ==
  (phase = "done" /\ ret = "OK" /\ opt.ro /\ (img0.dirty \/ opt.force)) =>
    img.empty = \A s \in Allocated : Block(img.index[s]) < L1Slots

\* The image as a later check relies on it: every allocated slot cluster
\* aligned and inside the file, and CIF_Empty set only when no slot maps
\* a data cluster.
Sound(i) ==
  /\ \A s \in Slots : i.index[s] # 0 =>
        /\ ~Misaligned(i.index[s])
        /\ Block(i.index[s]) * ClusterSectors + ClusterSectors <= i.size
  /\ i.empty => \A s \in Slots : i.index[s] # 0 => Block(i.index[s]) < L1Slots

\* At every point of a run, and so wherever the process dies or a write
\* fails, the image on disk is still marked dirty (m_DiskInUse, which
\* makes the next unforced check run) or is as sound as it was: zeroed
\* slots and the tail trim never leave a clean header over an image a
\* later check would find broken.
RecheckableAfterInterruption ==
  (img0.dirty \/ Sound(img0)) => (img.dirty \/ Sound(img))

=============================================================================
