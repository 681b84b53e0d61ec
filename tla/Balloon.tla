------------------------------ MODULE Balloon ------------------------------
(***************************************************************************)
(* The user-space balloon operations of src/lib/balloon.c run by several  *)
(* processes against one ploop device.                                     *)
(*                                                                         *)
(* The device keeps the maintenance state (mntn_type) and, once a free    *)
(* block list has been loaded with PLOOP_IOC_FREEBLKS, that list.  The     *)
(* hidden balloon file is a set of filesystem blocks; a flock on it       *)
(* (get_balloon) serialises the processes that resize or repair it.        *)
(* Every ioctl is one atomic step of the device; the local work a         *)
(* process does between two ioctls (fiemap, reverse map, free map, range  *)
(* map) is folded into the step that follows the ioctl, with each of its  *)
(* failure exits as a disjunct.  A process may crash at any point: its    *)
(* flock goes with it, the device state stays.                             *)
(***************************************************************************)
EXTENDS Naturals, FiniteSets

CONSTANTS
  Procs,       \* processes calling into the library
  Blocks,      \* filesystem blocks the balloon file may hold
  NoProc,      \* no flock holder
  MaxCrashes   \* bound on process crashes

ASSUME NoProc \notin Procs
ASSUME MaxCrashes \in Nat

VARIABLES
  mntn,       \* device: plo->maintenance_type
  devFree,    \* device: free block list loaded by PLOOP_IOC_FREEBLKS
  balloon,    \* blocks currently backing the hidden balloon file
  lockOwner,  \* holder of the flock taken in get_balloon
  pc,         \* per process: where it is in its operation
  seen,       \* per process: b_ctl.mntn_type returned by PLOOP_IOC_BALLOON
  fmap,       \* per process: the freemap it computed
  drop_state, \* per process: drop_state of the running operation
  op,         \* per process: the operation it runs
  crashes     \* number of process crashes so far

vars == <<mntn, devFree, balloon, lockOwner, pc, seen, fmap, drop_state, op, crashes>>

MntnTypes == {"OFF", "BALLOON", "FBLOADED", "TRACK", "RELOC", "MERGE", "GROW"}

\* Maintenance operations of other tools (merge, grow, change tracking).
OtherMntn == {"MERGE", "GROW", "TRACK"}

\* States left behind by a balloon operation that "complete" must finish.
Unfinished == {"FBLOADED", "RELOC"}

PCs == {"idle", "finish",
        "g_req", "g_inflate", "g_freeblks", "g_reloc",
        "s_req", "s_truncate",
        "c_query", "c_fbget", "c_fbget2", "c_reloc",
        "r_req", "r_scan", "r_freeblks", "r_reloc"}

\* Operations that start with get_balloon and so hold the flock.
LockedStart == [grow |-> "g_req", shrink |-> "s_req",
                check |-> "r_req", repair |-> "r_req"]

\* The steps each operation may be at.  A check stops after its scan.
StepsOf == [none     |-> {"idle"},
            grow     |-> {"g_req", "g_inflate", "g_freeblks", "g_reloc", "finish"},
            shrink   |-> {"s_req", "s_truncate", "finish"},
            complete |-> {"c_query", "c_fbget", "c_fbget2", "c_reloc", "finish"},
            check    |-> {"r_req", "r_scan", "finish"},
            repair   |-> {"r_req", "r_scan", "r_freeblks", "r_reloc", "finish"}]

-----------------------------------------------------------------------------
(***************************************************************************)
(* The device side of the ioctls (the kernel, not part of this           *)
(* repository; modelled from the protocol the user-space code expects).  *)
(***************************************************************************)

\* PLOOP_IOC_BALLOON: the state the device is in after the request.
IocBalloon(inflate, keep_intact) ==
  CASE keep_intact                      -> mntn
    [] mntn = "OFF" /\ inflate          -> "BALLOON"
    [] mntn = "BALLOON" /\ ~inflate     -> "OFF"
    [] OTHER                            -> mntn

\* PLOOP_IOC_FREEBLKS, accepted only in BALLOON state.
IocFreeblks(list) ==
  /\ mntn = "BALLOON"
  /\ mntn' = "FBLOADED"
  /\ devFree' = list

\* PLOOP_IOC_RELOCBLKS: the relocation completes and the device returns
\* to OFF, or it fails part way and the device stays in RELOC.
IocRelocblksDone ==
  /\ mntn \in Unfinished
  /\ mntn' = "OFF"
  /\ devFree' = {}

IocRelocblksFail ==
  /\ mntn' = IF mntn \in Unfinished THEN "RELOC" ELSE mntn
  /\ UNCHANGED devFree

-----------------------------------------------------------------------------

Init ==
  /\ mntn = "OFF"
  /\ devFree = {}
  /\ balloon \in SUBSET Blocks
  /\ lockOwner = NoProc
  /\ pc = [p \in Procs |-> "idle"]
  /\ seen = [p \in Procs |-> "OFF"]
  /\ fmap = [p \in Procs |-> {}]
  /\ drop_state = [p \in Procs |-> FALSE]
  /\ op = [p \in Procs |-> "none"]
  /\ crashes = 0

Goto(p, where) == pc' = [pc EXCEPT ![p] = where]

SetDrop(p, v) == drop_state' = [drop_state EXCEPT ![p] = v]

\* get_balloon: open the balloon and take the flock; contention is EBUSY,
\* which leaves no trace.  check/repair return at once on an empty balloon.
GetBalloon(p, o) ==
  /\ pc[p] = "idle"
  /\ lockOwner = NoProc
  /\ o \in {"check", "repair"} => balloon # {}
  /\ lockOwner' = p
  /\ Goto(p, LockedStart[o])
  /\ op' = [op EXCEPT ![p] = o]
  /\ SetDrop(p, FALSE)                  \* int drop_state = 0
  /\ UNCHANGED <<mntn, devFree, balloon, seen, fmap, crashes>>

(***************************************************************************)
(* ploop_balloon_change_size, growing (old_size < new_size).             *)
(***************************************************************************)

\* Up to PLOOP_IOC_BALLOON with inflate = 1; drop_state = 1 once granted.
GrowRequest(p) ==
  /\ pc[p] = "g_req"
  /\ \/ /\ Goto(p, "finish")                 \* fstat, alloc or open failed
        /\ UNCHANGED <<mntn, seen, drop_state>>
     \/ /\ mntn' = IocBalloon(TRUE, FALSE)
        /\ seen' = [seen EXCEPT ![p] = mntn']
        /\ SetDrop(p, TRUE)
        /\ Goto(p, "g_inflate")
  /\ UNCHANGED <<devFree, balloon, lockOwner, fmap, op, crashes>>

\* ploop_balloon_change_size after a successful do_inflate that added the
\* blocks new: the reverse map, fiemap and free map of the new range.
Inflated(p, new) ==
  \/ /\ SetDrop(p, FALSE)           \* reverse map, fiemap or rmap failed
     /\ Goto(p, "finish")
     /\ UNCHANGED fmap
  \/ /\ SetDrop(p, TRUE)            \* entries_used == 0
     /\ Goto(p, "finish")
     /\ UNCHANGED fmap
  \/ \E free \in SUBSET new \ {{}} :
       /\ fmap' = [fmap EXCEPT ![p] = free]
       /\ SetDrop(p, FALSE)
       /\ Goto(p, "g_freeblks")

\* Mutant of do_inflate: it allocates whatever state it was told.
do_inflateAnyState(p) ==
  \/ /\ seen[p] # "BALLOON"
     /\ SetDrop(p, FALSE)
     /\ Goto(p, "finish")
     /\ UNCHANGED <<balloon, fmap>>
  \/ /\ seen[p] = "BALLOON"
     /\ SetDrop(p, FALSE)
     /\ Goto(p, "finish")
     /\ UNCHANGED <<balloon, fmap>>
  \/ /\ seen[p] = "BALLOON"
     /\ SetDrop(p, TRUE)
     /\ Goto(p, "finish")
     /\ UNCHANGED <<balloon, fmap>>
  \/ /\ seen[p] = "BALLOON"
     /\ \E part \in SUBSET (Blocks \ balloon) \ {{}} :
           balloon' = balloon \cup part
     /\ SetDrop(p, FALSE)
     /\ Goto(p, "finish")
     /\ UNCHANGED fmap
  \/ \E new \in SUBSET (Blocks \ balloon) \ {{}} :
       balloon' = balloon \cup new /\ Inflated(p, new)

\* do_inflate (it clears *drop_state on entry) and change_size's use of
\* its result.  A failure ends the operation; after a successful
\* fallocate change_size goes on with the new blocks.
do_inflate(p) ==
  \/ /\ seen[p] # "BALLOON"        \* busy or protocol error
     /\ SetDrop(p, FALSE)
     /\ Goto(p, "finish")
     /\ UNCHANGED <<balloon, fmap>>
  \/ /\ seen[p] = "BALLOON"        \* fallocate failed, nothing allocated
     /\ SetDrop(p, FALSE)
     /\ Goto(p, "finish")
     /\ UNCHANGED <<balloon, fmap>>
  \/ /\ seen[p] = "BALLOON"        \* failed or short, old size restored
     /\ SetDrop(p, TRUE)
     /\ Goto(p, "finish")
     /\ UNCHANGED <<balloon, fmap>>
  \/ /\ seen[p] = "BALLOON"        \* failed or short, restore failed too
     /\ \E part \in SUBSET (Blocks \ balloon) \ {{}} :
           balloon' = balloon \cup part
     /\ SetDrop(p, FALSE)
     /\ Goto(p, "finish")
     /\ UNCHANGED fmap
  \/ /\ seen[p] = "BALLOON"        \* fallocate succeeded (fsync may fail)
     /\ \E new \in SUBSET (Blocks \ balloon) \ {{}} :
          balloon' = balloon \cup new /\ Inflated(p, new)

\* dev_num2dev_start and open_top_delta, then do_inflate.
GrowInflate(p) ==
  /\ pc[p] = "g_inflate"
  /\ \/ /\ Goto(p, "finish")       \* no partition start, no top delta
        /\ UNCHANGED <<balloon, fmap, drop_state>>
     \/ do_inflate(p)
  /\ UNCHANGED <<mntn, devFree, lockOwner, seen, op, crashes>>

\* freemap2freeblks, PLOOP_IOC_FREEBLKS, the a_h check and range_build.
GrowFreeblks(p) ==
  /\ pc[p] = "g_freeblks"
  /\ \/ /\ IocFreeblks(fmap[p])
        /\ \/ Goto(p, "g_reloc")
           \/ Goto(p, "finish")     \* a_h > rlen, range_build or relocmap2relocblks failed
     \/ /\ Goto(p, "finish")        \* freemap2freeblks or the ioctl failed
        /\ UNCHANGED <<mntn, devFree>>
  /\ UNCHANGED <<balloon, lockOwner, seen, fmap, drop_state, op, crashes>>

\* relocmap2relocblks and PLOOP_IOC_RELOCBLKS.
GrowReloc(p) ==
  /\ pc[p] = "g_reloc"
  /\ IocRelocblksDone \/ IocRelocblksFail
  /\ Goto(p, "finish")
  /\ UNCHANGED <<balloon, lockOwner, seen, fmap, drop_state, op, crashes>>

(***************************************************************************)
(* ploop_balloon_change_size, shrinking (new_size <= old_size).          *)
(***************************************************************************)

ShrinkRequest(p) ==
  /\ pc[p] = "s_req"
  /\ \/ /\ Goto(p, "finish")                 \* fstat, alloc or open failed
        /\ UNCHANGED <<mntn, seen, drop_state>>
     \/ /\ mntn' = IocBalloon(FALSE, FALSE)
        /\ seen' = [seen EXCEPT ![p] = mntn']
        /\ SetDrop(p, TRUE)
        /\ Goto(p, "s_truncate")
  /\ UNCHANGED <<devFree, balloon, lockOwner, fmap, op, crashes>>

\* Mutant of ShrinkTruncate: do_truncate without its FBLOADED/RELOC case.
ShrinkTruncateAnyState(p) ==
  /\ pc[p] = "s_truncate"
  /\ \/ /\ seen[p] # "BALLOON"
        /\ \E kept \in SUBSET balloon : balloon' = kept
     \/ UNCHANGED balloon
  /\ Goto(p, "finish")
  /\ UNCHANGED <<mntn, devFree, lockOwner, seen, fmap, drop_state, op, crashes>>

\* do_truncate: proceed only in a state a shrink may run in.
ShrinkTruncate(p) ==
  /\ pc[p] = "s_truncate"
  /\ \/ /\ seen[p] \in {"OFF"} \cup OtherMntn
        /\ \E kept \in SUBSET balloon : balloon' = kept  \* kept = balloon: no-op
     \/ UNCHANGED balloon          \* busy, protocol error, or ftruncate failed
  /\ Goto(p, "finish")
  /\ UNCHANGED <<mntn, devFree, lockOwner, seen, fmap, drop_state, op, crashes>>

(***************************************************************************)
(* ploop_baloon_complete: resume what a crashed operation left behind.   *)
(* It takes no flock.                                                    *)
(***************************************************************************)

CompleteQuery(p) ==
  /\ pc[p] = "c_query"
  /\ seen' = [seen EXCEPT ![p] = mntn]     \* keep_intact read
  /\ Goto(p, CASE mntn = "FBLOADED" -> "c_fbget"
               [] mntn = "RELOC"    -> "c_reloc"
               [] OTHER             -> "finish")
  /\ UNCHANGED <<mntn, devFree, balloon, lockOwner, fmap, drop_state, op, crashes>>

\* PLOOP_IOC_FBGET with no room: learns the number of extents.
CompleteFbget(p) ==
  /\ pc[p] = "c_fbget"
  /\ \/ /\ mntn = "FBLOADED"
        /\ Goto(p, IF devFree = {} THEN "c_reloc" ELSE "c_fbget2")
     \/ Goto(p, "finish")     \* freeblks_alloc failed, or FBGET refused
  /\ UNCHANGED <<mntn, devFree, balloon, lockOwner, seen, fmap, drop_state, op, crashes>>

\* PLOOP_IOC_FBGET sized, freeblks2freemap, open_top_delta, range_build.
CompleteFbget2(p) ==
  /\ pc[p] = "c_fbget2"
  /\ \/ /\ mntn = "FBLOADED"
        /\ fmap' = [fmap EXCEPT ![p] = devFree]
        /\ \/ Goto(p, "c_reloc")
           \/ Goto(p, "finish")     \* open_top_delta or range_build failed
     \/ /\ mntn # "FBLOADED"
        /\ Goto(p, "finish")
        /\ UNCHANGED fmap
  /\ UNCHANGED <<mntn, devFree, balloon, lockOwner, seen, drop_state, op, crashes>>

\* relocmap2relocblks, PLOOP_IOC_RELOCBLKS.
CompleteReloc(p) ==
  /\ pc[p] = "c_reloc"
  /\ \/ IocRelocblksDone \/ IocRelocblksFail
     \/ UNCHANGED <<mntn, devFree>>   \* relocmap2relocblks failed
  /\ Goto(p, "finish")
  /\ UNCHANGED <<balloon, lockOwner, seen, fmap, drop_state, op, crashes>>

(***************************************************************************)
(* ploop_baloon_check_and_repair.  It asks for inflate = 1 to keep other *)
(* maintenance out even when it only checks.  Three of its exits are a   *)
(* bare "return ret" that skips the err: label: no drop, and the balloon *)
(* fd, with its flock, stays open.                                        *)
(***************************************************************************)

\* Return through the err: label: drop if asked, close the balloon fd.
\* (Finish below.)  A bare "return ret" instead goes straight to idle,
\* and the flock stays with the process.
ReturnLeaking(p) ==
  /\ Goto(p, "idle")
  /\ op' = [op EXCEPT ![p] = "none"]

CheckRequest(p) ==
  /\ pc[p] = "r_req"
  /\ \/ /\ Goto(p, "finish")                 \* alloc or open failed
        /\ UNCHANGED <<mntn, seen, drop_state>>
     \/ /\ mntn' = IocBalloon(TRUE, FALSE)
        /\ seen' = [seen EXCEPT ![p] = mntn']
        /\ \/ /\ mntn' = "BALLOON"
              /\ SetDrop(p, TRUE)
              /\ \/ Goto(p, "r_scan")
                 \/ Goto(p, "finish")  \* open_top_delta or reverse map failed
           \/ /\ mntn' # "BALLOON"     \* busy or protocol error
              /\ Goto(p, "finish")
              /\ UNCHANGED drop_state
  /\ UNCHANGED <<devFree, balloon, lockOwner, fmap, op, crashes>>

\* Mutant of CheckScan: the "if (!repair)" exit is missing.
CheckScanRepairs(p) ==
  /\ pc[p] = "r_scan"
  /\ \/ /\ Goto(p, "finish")     \* a step failed, or no free blocks found
        /\ UNCHANGED <<op, fmap>>
     \/ /\ ReturnLeaking(p)      \* freemap2freeblks failed: return ret
        /\ UNCHANGED fmap
     \/ /\ op[p] = "check"       \* found free blocks, ret = 0
        /\ Goto(p, "finish")
        /\ UNCHANGED <<op, fmap>>
     \/ /\ op[p] \in {"check", "repair"}
        /\ \E free \in SUBSET balloon \ {{}} :
              fmap' = [fmap EXCEPT ![p] = free]
        /\ Goto(p, "r_freeblks")
        /\ UNCHANGED op
  /\ UNCHANGED <<mntn, devFree, balloon, lockOwner, seen, drop_state, crashes>>

\* dev_num2dev_start, fiemap of the whole balloon, rmap2freemap,
\* freemap2freeblks; a check stops here.
CheckScan(p) ==
  /\ pc[p] = "r_scan"
  /\ \/ /\ Goto(p, "finish")     \* a step failed, or no free blocks found
        /\ UNCHANGED <<op, fmap>>
     \/ /\ ReturnLeaking(p)      \* freemap2freeblks failed: return ret
        /\ UNCHANGED fmap
     \/ /\ op[p] = "check"       \* found free blocks, ret = 0
        /\ Goto(p, "finish")
        /\ UNCHANGED <<op, fmap>>
     \/ /\ op[p] = "repair"
        /\ \E free \in SUBSET balloon \ {{}} :
              fmap' = [fmap EXCEPT ![p] = free]
        /\ Goto(p, "r_freeblks")
        /\ UNCHANGED op
  /\ UNCHANGED <<mntn, devFree, balloon, lockOwner, seen, drop_state, crashes>>

\* PLOOP_IOC_FREEBLKS (drop_state = 0 once it succeeds), a_h check,
\* range_build, relocmap2relocblks.
CheckFreeblks(p) ==
  /\ pc[p] = "r_freeblks"
  /\ \/ /\ IocFreeblks(fmap[p])
        /\ SetDrop(p, FALSE)
        /\ \/ Goto(p, "r_reloc")
           \/ Goto(p, "finish")     \* a_h > rlen, range_build or relocmap2relocblks failed
        /\ UNCHANGED op
     \/ /\ ReturnLeaking(p)         \* the ioctl failed: return ret
        /\ UNCHANGED <<mntn, devFree, drop_state>>
  /\ UNCHANGED <<balloon, lockOwner, seen, fmap, crashes>>

\* PLOOP_IOC_RELOCBLKS; on failure: return ret.
CheckReloc(p) ==
  /\ pc[p] = "r_reloc"
  /\ \/ /\ IocRelocblksDone
        /\ Goto(p, "finish")
        /\ UNCHANGED op
     \/ /\ IocRelocblksFail
        /\ ReturnLeaking(p)
  /\ UNCHANGED <<balloon, lockOwner, seen, fmap, drop_state, crashes>>

(***************************************************************************)
(* The common exit (the err: label of each function, then the caller     *)
(* closing the balloon fd): drop the BALLOON state if drop_state is set, *)
(* release the flock.                                                     *)
(***************************************************************************)
Finish(p) ==
  /\ pc[p] = "finish"
  /\ mntn' = IF drop_state[p] THEN IocBalloon(FALSE, FALSE) ELSE mntn
  /\ lockOwner' = IF lockOwner = p /\ op[p] # "complete" THEN NoProc ELSE lockOwner
  /\ Goto(p, "idle")
  /\ SetDrop(p, FALSE)
  /\ op' = [op EXCEPT ![p] = "none"]
  /\ UNCHANGED <<devFree, balloon, seen, fmap, crashes>>

\* ploop_baloon_complete started, and ploop_balloon_clear_state: neither
\* takes the flock.
StartComplete(p) ==
  /\ pc[p] = "idle"
  /\ Goto(p, "c_query")
  /\ op' = [op EXCEPT ![p] = "complete"]
  /\ SetDrop(p, FALSE)                  \* complete never drops the state
  /\ UNCHANGED <<mntn, devFree, balloon, lockOwner, seen, fmap, crashes>>

ClearState(p) ==
  /\ pc[p] = "idle"
  /\ mntn' = IocBalloon(FALSE, FALSE)   \* EBUSY if it is not OFF afterwards
  /\ UNCHANGED <<devFree, balloon, lockOwner, pc, seen, fmap, drop_state, op, crashes>>

\* Other tools entering and leaving their own maintenance states.
OtherBegin(t) ==
  /\ mntn = "OFF"
  /\ mntn' = t
  /\ UNCHANGED <<devFree, balloon, lockOwner, pc, seen, fmap, drop_state, op, crashes>>

OtherEnd ==
  /\ mntn \in OtherMntn
  /\ mntn' = "OFF"
  /\ UNCHANGED <<devFree, balloon, lockOwner, pc, seen, fmap, drop_state, op, crashes>>

\* The process dies: its fds, and the flock with them, are closed by the
\* kernel; the device state is left as it was.
Crash(p) ==
  /\ pc[p] # "idle" \/ lockOwner = p
  /\ crashes < MaxCrashes
  /\ crashes' = crashes + 1
  /\ Goto(p, "idle")
  /\ lockOwner' = IF lockOwner = p THEN NoProc ELSE lockOwner
  /\ SetDrop(p, FALSE)
  /\ op' = [op EXCEPT ![p] = "none"]
  /\ UNCHANGED <<mntn, devFree, balloon, seen, fmap>>

Next ==
  \/ \E p \in Procs :
       \/ \E o \in DOMAIN LockedStart : GetBalloon(p, o)
       \/ GrowRequest(p) \/ GrowInflate(p) \/ GrowFreeblks(p) \/ GrowReloc(p)
       \/ ShrinkRequest(p) \/ ShrinkTruncate(p)
       \/ StartComplete(p) \/ CompleteQuery(p) \/ CompleteFbget(p)
       \/ CompleteFbget2(p) \/ CompleteReloc(p)
       \/ CheckRequest(p) \/ CheckScan(p) \/ CheckFreeblks(p) \/ CheckReloc(p)
       \/ Finish(p) \/ ClearState(p) \/ Crash(p)
  \/ \E t \in OtherMntn : OtherBegin(t)
  \/ OtherEnd

Spec == Init /\ [][Next]_vars

-----------------------------------------------------------------------------

TypeOK ==
  /\ mntn \in MntnTypes
  /\ devFree \subseteq Blocks
  /\ balloon \subseteq Blocks
  /\ lockOwner \in Procs \cup {NoProc}
  /\ pc \in [Procs -> PCs]
  /\ \A p \in Procs : pc[p] \in StepsOf[op[p]]
  /\ seen \in [Procs -> MntnTypes]
  /\ fmap \in [Procs -> SUBSET Blocks]
  /\ drop_state \in [Procs -> BOOLEAN]
  /\ op \in [Procs -> DOMAIN StepsOf]
  /\ crashes \in 0..MaxCrashes

\* While the device holds a free block list (FBLOADED, RELOC), every block
\* in it still belongs to the hidden balloon: the blocks the relocation
\* discards carry no filesystem data.  It rests on do_truncate refusing
\* FBLOADED/RELOC, on the flock, and on the device refusing FREEBLKS
\* outside BALLOON, across crashes, "clear" and "complete".
FreeListInBalloon ==
  mntn \in Unfinished => devFree \subseteq balloon

\* When no process has crashed and every process has returned, the device
\* is not left in the BALLOON state one of them was granted (spec 4.1:
\* every abort path after a grant resets the device to OFF).
BalloonStateReleased ==
  (crashes = 0 /\ \A p \in Procs : pc[p] = "idle") => mntn # "BALLOON"

=============================================================================
