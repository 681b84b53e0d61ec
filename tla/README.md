# TLA+ models of ploop's balloon protocol and image checker

This directory holds TLA+ specifications of two parts of the ploop user-space
library in `src/`:

- the **hidden-balloon maintenance protocol** (`src/lib/balloon.c`);
- the **image checker** `ploop_fsck` (`src/lib/fsck_util.c`), driven by
  `ploop check` (`src/tools/ploop-check.c`).

Smaller modules cover `ploop_encrypt_image` (crypt.c) and the array builders of delta_sysfs.c (`get_dir_entry`,
`ploop_get_dev_by_delta`) with the callers that consume their arrays
(`ploop_find_dev`, `dev_num2dev_start`, `get_part_devname_from_sys`).

It also holds the TLC configurations that check those specifications.
`PROJECT.json` lists the components, the runs, the mutants, and the
definition-to-source map. It also lists the findings and the hazards.

## 1. The system

| Part | Source | State it changes | Interacts with |
|---|---|---|---|
| Balloon operations: `get_balloon`, `ploop_balloon_change_size` (grow via `do_inflate`, shrink via `do_truncate`), `ploop_balloon_clear_state`, `ploop_baloon_complete`, `ploop_baloon_check_and_repair` | balloon.c | the device's maintenance state (`mntn_type`); the free-block list loaded into the device; the size of the hidden balloon file; the flock on the balloon fd | the kernel through ioctls; other processes through the flock and the shared device state; other tools (merge, grow, tracking) through the same maintenance state |
| Kernel device | not in this repository | `OFF`, `BALLOON`, `FBLOADED`, `RELOC`, `MERGE`, `GROW`, `TRACK`, and the free list | every balloon operation |
| Extent mapper, reverse map, relocation planner (`fiemap_*`, `rmap2freemap`, `range_build`, ...) | `balloon_util.c`, not in `src/` | local buffers only | computes the free list that is handed to `PLOOP_IOC_FREEBLKS` |
| Image checker `ploop_fsck`, `check_one_slot`, `zero_index_fix` | fsck_util.c | the image file: index slots, file length, header dirty flag, `CIF_Empty` | `ploop check` options |
| `ploop check` CLI | tools/ploop-check.c | none (it parses options) | calls the checker |
| Encryption `ploop_encrypt_image` | crypt.c | image and descriptor files (copy, then renames) | mount/umount, cryptsetup |
| sysfs lookups, `get_dir_entry`, `ploop_get_dev_by_delta`, `ploop_find_dev`, `dev_num2dev_start`, `get_part_devname_from_sys` | delta_sysfs.c | a heap array of names that the caller frees | used by the balloon operations (`dev_num2dev_start`) and by every tool that looks up the device of an image |
| Disk descriptor XML | xml.c | the descriptor file | every image-level operation |
| `parse_size` and other CLI helpers | tools/common.c | none | the CLIs |

Several things make the balloon code hard to test:

- Several processes may run operations on one device. Only grow, shrink,
  check and repair take the flock. `complete` and `clear` do not.
- Every operation reads the device state in one ioctl and acts on it in a
  later step.
- A process may die between `FREEBLKS` and `RELOCBLKS`, and `complete` must
  then finish its work.
- Every error exit must drop a `BALLOON` state that was granted (spec
  section 4.1).

The checker is sequential. What makes it hard is the order in which it writes
while it scans: soft fixes are written at once, while fatality is only known
at the end. It also has off-by-one and 32-bit edges in the per-slot tests.

## 2. Modules

### `Balloon.tla`: balloon operations on one device (`MCBalloon` instantiates it)

State:

- `mntn` and `devFree` are the device.
- `balloon` is the set of filesystem blocks backing the hidden file.
- `lockOwner` is the flock.
- The per-process variables are `pc` (where the process is in its
  function), `seen` (`b_ctl.mntn_type`), `fmap` (the free map it built),
  `drop_state` and `op`.
- `crashes` counts process crashes.

Each ioctl is one atomic step, and the local work between two ioctls is
folded into the step that follows it. Every `goto err` and early `return` of
that stretch of code is a disjunct of that step. The actions are:

- `GetBalloon` covers `get_balloon`. For check and repair it also covers the
  empty-balloon return. It starts the operation with `drop_state = 0`, the
  initial value of the function's local.
- Grow is `GrowRequest`, `GrowInflate`, `GrowFreeblks` and `GrowReloc`.
  - `GrowRequest` is lines 313-346: the request with `inflate = 1` and
    `drop_state = 1`.
  - `GrowInflate` is lines 352-365: `dev_num2dev_start`, `open_top_delta`
    and the call of `do_inflate`.
  - The operator `do_inflate` is the function itself. It includes the
    `*drop_state = 0` at line 223 and the rollbacks at 259-277.
  - `Inflated` is what `change_size` does after a successful inflate:
    the fiemap, reverse-map and free-map steps (lines 366-391).
  - `GrowFreeblks` is `FREEBLKS`, the `a_h > rlen` test and `range_build`.
  - `GrowReloc` is `RELOCBLKS`.
- Shrink is `ShrinkRequest` and `ShrinkTruncate`. `ShrinkTruncate` is
  `do_truncate`, and it refuses `BALLOON`, `FBLOADED` and `RELOC`.
- Complete is `StartComplete`, `CompleteQuery`, `CompleteFbget`,
  `CompleteFbget2` and `CompleteReloc`. It covers the keep-intact query, the
  two-phase `FBGET` and `RELOCBLKS`. Complete has no `drop_state` and takes
  no flock.
- Check and repair are `CheckRequest`, `CheckScan`, `CheckFreeblks` and
  `CheckReloc`. `ReturnLeaking` is the bare `return ret` at lines 731, 743
  and 764. It skips the `err:` label, so the flock stays held. The
  process's `drop_state` is a local that dies with the call, and the next
  operation starts with its own.
- `Finish` is the `err:` label. It drops `BALLOON` when `drop_state` is set,
  then closes the fd, which releases the flock. A complete holds no flock
  and releases none.
- `ClearState` covers `ploop_balloon_clear_state`.
- `OtherBegin` and `OtherEnd` are other tools' maintenance.
- `Crash(p)` is process death, bounded by `MaxCrashes`. The kernel then
  closes the process's fds, so the flock goes. The device state stays.

The kernel side is written as operators modelled from the spec: `IocBalloon`,
`IocFreeblks`, `IocRelocblksDone` and `IocRelocblksFail`. The kernel is not
in `src/`.

The balloon_util.c computations are abstracted. The free map of a grow is any
non-empty subset of the blocks just allocated. The free map of a repair is
any non-empty subset of the balloon. Each such computation can also fail.

### `BalloonDevice.tla`: what the maintenance state promises

This is the abstract specification. It has three variables: `mntn`,
`devFree` and `balloon`. It has no processes, no flock and no error paths.
Its steps are:

- `Grant` moves `OFF` to `BALLOON`, and `Release` moves `BALLOON` back to
  `OFF`.
- `Load` installs a non-empty free list of balloon blocks, and is allowed
  only in `BALLOON`.
- `Relocated` moves to `OFF` with the list gone, and `Interrupted` moves to
  `RELOC`.
- `OtherBegin` and `OtherEnd` cover other tools' maintenance.
- `Resize` grows or shrinks the balloon, and is allowed only while no list
  is loaded.

`MCBalloon` instantiates it as `Device == INSTANCE BalloonDevice WITH Blocks
<- MCBlocks`, with the variables mapped by name. It checks `Device!Spec` as a
property of `Balloon`.

### `Fsck.tla`: `ploop_fsck` on one image (`MCFsck` instantiates it)

State:

- `img` is the index slots (sector numbers, 0 meaning unallocated), the file
  size in sectors, the `m_DiskInUse` flag and `CIF_Empty`.
- `hdrValid` and `bd_size` come from the header.
- `opt` holds the options `ploop check` can pass (`Options`).
- The loop state is `phase`, `page`, `slot`, `alloc_head`, `bmap`, `clean`,
  `fatality` and `ret`.

The actions are:

- `Open` covers open, header validation, the clean skip and the bitmap
  allocation.
- `ReadPage` covers reading, and rewriting, one index page.
- `CheckSlot` is one slot. It holds the `check_one_slot` tests in the code's
  order, and `ZeroIndexFix` models `zero_index_fix` and `zero_index`.
- `Tail` covers `alloc_head++`, fatality, the trim, `CIF_Empty`, the dirty
  flag and the header write with `FSYNC`.
- `Close` covers `CLOSE`.
- `Rerun` runs the checker again, forced, on the image a successful
  read-write run produced. This lets a property compare two runs.
- `U32` keeps the 32-bit wrap of `clu << PLOOP1_DEF_CLUSTER_LOG`, scaled to
  `WordBits`.

### `FsckBitmap.tla`: the `-c` usage bitmap

The inputs are the file length in bytes (at, just past and just before each
cluster boundary, up to 70 clusters of 1 MiB) and `l1_slots` from the
header. The operators are:

- `BmapBytes`: lines 238-239.
- `InBitmap`: whether the word `b / 32` lies within the malloc'd bytes.
- `Seeded`: the bits the seeding loop sets.

### `EncryptImage.tla`: `ploop_encrypt_image` (crypt.c)

The files are a function from role to content:

- The roles are `image`, `.orig`, the descriptor, and the new image and new
  descriptor in `enc/`.
- The content records which copy of the data a file holds: `orig`,
  `partial`, `copy` or `shredded`, plus the two descriptor versions.

There is one action per checked call, in the code's order, each with its
failure disjunct:

- `Start`: lock, `images == NULL`, `mkdir`.
- `Create`, `Mount`, `Copy`, `Umount`.
- `Backup`: the `.orig` rename when `wipe && di->enc == NULL && keyid`.
- `RenameImage` and `RenameDD`.
- `Wipe`: `shred` and `unlink`, whose results are ignored.
- `Err`: the `err:` label. It runs `rm -rf enc`, whose result is ignored.

`Crash` may stop the process after any step.

### `DirEntry.tla`: the name-array builders of delta_sysfs.c

`get_dir_entry` lists the subdirectories of a sysfs directory into a
NULL-terminated array. `append_array_entry` grows the array with `realloc`
and `strdup`s each name, and `ploop_free_array` releases it.

The heap holds only what the properties tell apart:

- `mem` maps each address the array may get to whether it is live and to
  its cells. A cell is a name, `NULL` (0) or uninitialised memory.
- `strs` is the set of live names.
- `fault` records undefined behaviour: a write past an allocation, a write
  to a freed array, a free of a freed name, or a walk off an unterminated
  array.

The listing is the input: up to four entries, each a subdirectory, anything
else (a file, `.` or `..`), or an entry whose `stat` fails. The actions are:

- `Open`: `opendir`.
- `Readdir`: one turn of the loop up to the append.
- `AppendRealloc`: `realloc`, which may fail, grow in place, or move the
  array and free the old one.
- `AppendStrdup`: `strdup` and the two writes.
- `AppendErr`: the `err:` label of `append_array_entry`.
- `Close`: `closedir` and the final free.

Two callers of `get_dir_entry` are composed with it (`caller` picks them):

- `dev_num2dev_start`: `D2SAccess` is the `access` of the `start`
  attribute. When it is missing, the `slaves` directory is listed, and
  `D2SSlave` reads `dirs[0]` and frees the array.
- `get_part_devname_from_sys`: the listing of `/sys/block/<dev>` may hold
  a partition directory (`"partdir"`, a subdirectory whose name starts
  with the device name). `PartScan` walks `dirs` to its NULL. Without a
  partition it frees `dirs`. With one it frees `dirs`, sets `dirs = NULL`
  and lists the partition's `holders` (up to `MaxHolders` entries) into
  the same variable, with `round = 2`. `PartHolders` reads `dirs[0]` when
  the listing returned 0 with an array, and then frees it.
  `get_dir_entry` leaves `*out` untouched when the directory is missing, so
  the reset to NULL is what keeps the final free from freeing the first
  array again. The mutant `PartScanKeepsDirs` drops the reset, and TLC
  finds the double free.

`ploop_get_dev_by_delta` builds its array of devices with the same
`append_array_entry`, so the module also models it. `caller` picks the
function, and a `/sys/block` entry is one of `DevKinds`:

- not a ploop device;
- a device being removed (a read fails with ENOENT or ENODEV);
- a read that fails otherwise;
- a device of another image or top delta;
- a device of the image whose cookie is another component's;
- a device of the image with the component's cookie.

The actions are:

- `DevStart`: a missing delta, a failed global lock, or a failed `opendir`.
- `DevReaddir`: one turn of the loop, including the `break` after the
  first append when a component name is given.
- `FindDev`: `ploop_find_dev` after the lookup. It always passes a
  component name, reads `devs[0]` on 0, and frees the array.

The append actions continue at the caller's loop (`Loop`). `Close` is also
the `err:` label, and `Returned` is the value returned.

### `DiskDescriptor.tla`: DiskDescriptor.xml (xml.c; `MCDiskDescriptor` instantiates it)

Every operation that edits an image reads the descriptor, changes it in
memory and stores it back. The module runs that sequence: read, an optional
edit, store, read again. The editors (snapshot creation and the rest of
di.c) are not in this repository. So `Edit` is the caller's step, not a
translation of code: it appends one new image in basedir with its snapshot
as the new top delta.

- `disk` and `tmp` are the documents in `DiskDescriptor.xml` and in
  `DiskDescriptor.xml.tmp`. A document is a record of what `parse_xml` looks
  for: whether `/Disk_Parameters` and `/SnapshotTree` exist, `<Cylinders>`
  and `<Heads>`, the `<Image>` elements (has a `<GUID>`, the text of
  `<File>`), the `<TopGUID>` text and the number of `<Shot>` elements.
- File names are sequences of characters, because `normalize_image_name`'s
  `p += n + 1` is what is checked.
- `parse_xml` fails on each of its `ERR()`s. `ImagePath` puts `basedir/` in
  front of a relative name. `validate_disk_descriptor` adds the base
  snapshot and base TopGUID when the counts differ, then checks the TopGUID
  and the counts. `ReadDescriptor` combines them.
- `StoredDoc` is the document the writer calls build, with each file name
  passed through `normalize_image_name`.
- The actions are `Read1`, then `Edit` or none, then `Store` (a failure before the save, the
  SIGFPE of the `Sectors` division, or the document saved to `.tmp`), then
  `Rename` (the result is ignored and `rc = 0`), then `Read2`. Either read
  may fail with an I/O error.

## 3. Runs

| Run | Expect | What it shows |
|---|---|---|
| `balloon_protocol` (`MCBalloon.cfg`) | pass | Two processes and two blocks, with every operation, other tools' maintenance and one crash. `FreeListInBalloon` holds: whenever the device holds a free-block list (`FBLOADED`/`RELOC`), every block on it is still part of the balloon. It rests on `do_truncate` refusing those states, on the flock, and on the device refusing `FREEBLKS` outside `BALLOON`. `TypeOK` includes that every process is at a step of the operation it runs, and that a check never goes past its scan. `ImplementsDevice`: every step is a step of `BalloonDevice`. About 720,000 distinct states. |
| `balloon_state_released` | violation | With no crash, once every process has returned, the device can still be in `BALLOON`. The cause is check_and_repair's bare return, which also keeps the balloon fd, and with it the flock. |
| `balloon_change_size_released` | violation | The run is restricted to grow and shrink (`ChangeSizeOnly`). `BALLOON` is still left behind: `do_inflate` cleared `drop_state` before a later failure. |
| `fsck_repair` (`MCFsck.cfg`) | pass | A successful read-write run leaves every allocated slot aligned and inside the file, the header clean, and `CIF_Empty` matching the content. A second forced run on that image returns OK and changes nothing. Under weak fairness, every run ends (`Terminates`). `RecheckableAfterInterruption` covers a crash or failed write at any point. Every intermediate state is where one would leave the file, and in each of them the image is either still marked dirty or as sound as it was: slots aligned and inside the file, and `CIF_Empty` set only when there is no data. About 1.8 million distinct states. |
| `fsck_fatal_unmodified` | violation | `zero_index_fix` writes a soft fix whatever the fatality flag says. In the trace, slot 1 is misaligned, which makes the run fatal, and slot 2, beyond the device, is zeroed after it. The run then reports the image as not repaired with its index modified. Spec section 7 says the image is left unmodified. |
| `fsck_slots_within_device` | violation | A cluster that starts exactly at `bd_size` passes the `>` test. |
| `fsck_ro_empty_flag` | violation | A read-only check of an image with no data and a tail beyond the index reports OK. Line 331 judges `CIF_Empty` by the file length rather than by the content. |
| `fsck_bitmap_seed` | violation | A 1-cluster file whose header claims 33 index clusters: the seeding loop writes `bmap[1]` of a 4-byte buffer. |
| `dir_entry` | pass | Every failure of `opendir`, `stat`, `realloc` and `strdup` is covered, wherever `realloc` puts the array. `get_dir_entry` writes only inside its allocations and frees nothing twice (`MemorySafe`). On return, only the returned array and its names are left allocated (`NoLeakOnReturn`). The array lists exactly the subdirectories in `readdir` order, or is NULL when -1 is returned (`ResultIsListing`). -1 comes only from a real failure: the lock, `opendir`, an append, or the entry the loop stopped at failing its `stat` or a read other than ENOENT/ENODEV. The same holds for `ploop_get_dev_by_delta` with devices being removed and read errors: 0 comes only with the matching devices (only the first one with a component name), 1 only when none matched, and `ploop_find_dev` reads `devs[0]` only when it is a name and then leaves nothing allocated. So do `dev_num2dev_start` and `get_part_devname_from_sys`, whose second listing reuses `dirs`. 142,404 states. |
| `encrypt_image` | pass | Any call may fail and the process may crash anywhere. A complete copy of the data always remains under the image's name or as `.orig`. 407 states. |
| `encrypt_image_usable` | violation | After `.orig` is taken, a failed `rename(image)` returns an error with no image under its name. A failed `rename(ddxml)` would instead leave the new image under the old descriptor. |
| `descriptor_store_reads_back` | violation | The descriptor is in `/a` and the image is `/ab/b`. `normalize_image_name` matches the prefix `/a`, skips `/a` plus the next character, and writes `File` as `/b`. The store returns 0, and the next read names image `/b`, a different file. The same property also fails after an edit when `rename` fails unnoticed, because the next read returns the old descriptor. That trace has six steps, so the report shows the five-step one. |

Every property of a passing run has a mutant in `PROJECT.json`. Each mutant
is a plausible slip in the code, and each one makes TLC report the property
violated:

- `ShrinkTruncateAnyState` lets `do_truncate` run in `FBLOADED`/`RELOC`.
- `CheckScanRepairs` drops the `if (!repair)` exit.
- `AdvancePastLastPage` is an off-by-one in the page loop.
- `CheckSlotNoEOF` drops the beyond-EOF test.
- `TailNoIncrement` drops `alloc_head++`.
- `do_inflateAnyState` lets `do_inflate` allocate without its
  `mntn_type` switch. It breaks the refinement.
- `AdvanceSameSlot` loses `j++`. It breaks termination.
- `AppendReallocShort` reallocates `nelem` cells instead of `nelem + 1`.
- `CloseNoFree` resets `*out` on error without freeing it.
- `ReaddirNoDirCheck` loses the `S_ISDIR` test.
- `DevReaddirGoneFatal` treats a device being removed as a read error.
- `PartScanKeepsDirs` drops `dirs = NULL` in `get_part_devname_from_sys`.
- `AppendStrdupNextEntry` appends the entry after the one just read.
- `FailNoGoto` sets `ret` but misses `goto err`.
- `CopyUnchecked` ignores `do_copy`'s result.
- `OpenClearsDirty` clears the dirty flag when the check starts instead of in
  the final header write.

### Bounds

- **Balloon.** There are 2 processes, which is the least that gives
  contention on the flock and an unlocked `complete`/`clear` racing a locked
  operation. There are 2 blocks, enough for a free list that is a strict
  subset of the balloon and for a partial inflate. `MaxCrashes = 1` lets a
  crash land at every step, including between `FREEBLKS` and `RELOCBLKS`.
  Processes and blocks are symmetric model values, and no property names one.
- **Fsck.**
  - There are two index clusters of two slots each, with the header taking
    one slot, so there are three slots on two pages.
  - Clusters are two sectors.
  - The slot values cover unallocated, misaligned, inside-the-index and two
    data blocks.
  - The file sizes cover: ending at the index, ending inside the last block,
    and ending after it.
  - The device sizes put the `bd_size` edge on slot 1 or slot 2.
  - `WordBits = 3` keeps the arithmetic in range. The 32-bit wrap is not
    reached at this size, and a later run is planned for it.
- **FsckBitmap.** The cluster is the real 1 MiB. The file lengths go up to
  70 clusters, which crosses the 32- and 64-block word boundaries. The
  `l1_slots` values go up to 70, past one word.
- **DirEntry.** Listings have up to four entries: 121 listings for
  `get_dir_entry`, and 1,555 of `DevKinds` for the device lookup, which
  puts a removed device or a read error before, between and after two
  matches.
  That allows up to three appends after the first, so `realloc` grows an
  array that already holds names, both in place and by moving. Two array
  addresses are enough for a move, since the code keeps at most one array
  live. The holders listing has up to `MaxHolders = 2` entries, so it can
  be missing, empty, fail, or return a name.
- **DiskDescriptor.** The descriptor is in `/a`. The `File` texts are a
  relative name, a relative path, an absolute name inside `/a`, a file of
  the sibling directory `/ab`, a file elsewhere, and an empty element.
  There are up to two images and two shots, so the counts can differ in
  either direction. `Cylinders` and `Heads` are 0 or 16. That gives 69,869
  states before the violation. The edit appends one of the relative names.
- **EncryptImage.** All eight combinations of `wipe`, `di->enc` and `keyid`
  are covered. Every checked call may fail. `MaxCrashes = 1` lets the crash
  fall between any two steps.

### Fairness

Only `fsck_repair` assumes fairness. Its `FairSpec` adds `WF_vars(Next)`:
`ploop_fsck` is one sequential process with no wait of its own, so while it
has a next step, it takes it. The balloon runs assume no fairness. The code
has no retry loop, and nothing guarantees that `complete` is ever run again
after a crash. A liveness property of the device would therefore rest on an
assumption about the operator, not on the code. `MCFsck.cfg` disables
the deadlock check because `ploop_fsck` terminates: `done` is its final state.
`MCBalloon.cfg` checks for deadlock, and there is none, because an idle
process can always start `complete` or `clear`.

## 4. Not modelled

- The kernel and balloon_util.c are not in `src/`. They are abstracted as
  described above.
- In crypt.c, `crypt_init`, `crypt_open`, `crypt_close` and
  `crypt_resize` only run an external script.
- In xml.c: `parse_ul` and the numeric values other than the geometry, and
  GUID texts other than TopGUID, because they are written and read verbatim.
  Also the `Type`/raw flag, truncation to `MAXPATHLEN`, and descriptor paths
  without a `/` or through a symlink. For those paths, the store's basedir
  (`realpath` of the directory) and the read's (`get_basedir` of `realpath`
  of the file) differ.
- In fsck_util.c, `check_one_slot` never checks that a block lies past the
  index table. The Fsck model reaches such slots, but no run checks them
  (see the hazards in `PROJECT.json`).
- The rest of delta_sysfs.c (`ploop_get_attr`, `get_dev_start`,
  `find_delta_names`, the path formatting of the callers) reads single
  `/sys` attributes and changes no state. Its failures appear as disjuncts of the balloon steps that call it.
- `parse_size` (tools/common.c) computes on 64-bit values: a bound of 2^41
  sectors and a multiplier of 2^21. TLC's integers are 32-bit, and scaling
  the constants down would change the very comparisons at issue.
- The hole report of `-c` is only a diagnostic.

## 5. Plan for later work

1. **Fsck.** One run with enough slots for the 32-bit wrap of `clu << 8`.
   A crash between the slot writes and the header write is already covered
   by `RecheckableAfterInterruption`.
2. **Descriptor geometry.** A run of its own for the SIGFPE of the
   `Sectors` division, when a run slot is free.
