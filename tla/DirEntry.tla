------------------------------ MODULE DirEntry ------------------------------
(***************************************************************************)
(* The two builders of NULL-terminated name arrays in                     *)
(* src/lib/delta_sysfs.c, which grow the array with append_array_entry    *)
(* (realloc, then strdup) and release it with ploop_free_array:           *)
(* get_dir_entry lists the subdirectories of a sysfs directory, and       *)
(* ploop_get_dev_by_delta lists the ploop devices whose base delta is a   *)
(* given image (only the first, when a component name is given), as       *)
(* ploop_find_dev does before it reads devs[0] and frees the array.       *)
(* The callers of get_dir_entry are modelled with it: dev_num2dev_start   *)
(* reads dirs[0] and frees the array; get_part_devname_from_sys walks it  *)
(* for a partition, frees it, and lists the partition's holders into the  *)
(* same dirs before it reads dirs[0] and frees that array.                *)
(*                                                                         *)
(* The heap is kept to what the properties tell apart: the arrays are     *)
(* sequences of cells (a name, NULL, or uninitialised memory) that are     *)
(* live or freed, and each name is a string that is live or freed.        *)
(* realloc may fail, grow the array in place, or move it to a new array   *)
(* and free the old one; strdup may fail.  fault records undefined        *)
(* behaviour: a write past an allocation, a use or free of freed memory,  *)
(* or a walk past the end of an unterminated array.                        *)
(***************************************************************************)
EXTENDS Integers, Sequences, SequencesExt

CONSTANTS
  MaxEntries,  \* longest listing readdir returns
  MaxHolders,  \* longest holders listing of a partition
  ArrayIds     \* addresses malloc may hand out for the array

NULL == 0
Junk == -1           \* a cell realloc added and nothing has written yet
StrIds == 1 .. MaxEntries  \* the strdup of entry i is string i

\* What stat and S_ISDIR make of an entry: a subdirectory, anything else
\* (a file, "." or ".."), or an entry whose stat fails.
Kinds == {"dir", "other", "statfail"}

\* The entries of /sys/block/<dev> also include partitions: subdirectories
\* whose names start with the device name.
PartKinds == Kinds \cup {"partdir"}
IsDir(k) == k \in {"dir", "partdir"}

\* What ploop_get_dev_by_delta makes of an entry of /sys/block: not a
\* ploop device; a device being removed (a read fails with ENOENT or
\* ENODEV); a read that fails otherwise; a device of another image (or
\* another top delta); a device of the image whose cookie is another
\* component's; a device of the image with the component's cookie.
DevKinds == {"other", "gone", "readerr", "mismatch", "cookie_other", "match"}

\* The callers whose array get_dir_entry builds, and those of
\* ploop_get_dev_by_delta.
DirCallers == {"get_dir_entry", "dev_num2dev_start", "get_part_devname_from_sys"}
Callers == DirCallers \cup {"get_dev_by_delta", "find_dev"}

VARIABLES
  caller,     \* the function called
  component,  \* component_name != NULL (ploop_get_dev_by_delta)
  delta_ok,   \* the delta file exists (ploop_get_dev_by_delta)
  round,      \* which get_dir_entry call of get_part_devname_from_sys
  rv,         \* the value returned
  listing,  \* the entries readdir returns, in order
  pc,       \* the step get_dir_entry is at
  pos,      \* the next entry readdir returns
  nelem,    \* nelem
  ret,      \* ret
  out,      \* *out: NULL or an array
  mem,      \* array -> [live, cells]
  strs,     \* the live strdup'ed names
  fault     \* undefined behaviour has happened

ctx == <<caller, component, delta_ok, round>>

vars == <<caller, component, delta_ok, round, rv, listing, pc, pos, nelem, ret, out, mem, strs, fault>>

Init ==
  /\ caller \in Callers
  /\ round = 1
  /\ \/ /\ caller \in DirCallers
        /\ listing \in SeqOf(IF caller = "get_part_devname_from_sys"
                             THEN PartKinds ELSE Kinds, MaxEntries)
        /\ component = FALSE /\ delta_ok = TRUE
        /\ pc = IF caller = "dev_num2dev_start" THEN "access" ELSE "open"
        /\ ret = 0
     \/ /\ caller \notin DirCallers
        /\ listing \in SeqOf(DevKinds, MaxEntries)
        \* ploop_find_dev always passes a component name, "" for none
        /\ component \in IF caller = "find_dev" THEN {TRUE} ELSE BOOLEAN
        /\ delta_ok \in BOOLEAN
        /\ pc = "start"
        /\ ret = -1
  /\ rv = 0
  /\ pos = 1
  /\ nelem = 1
  /\ out = NULL                 \* every caller passes dirs = NULL
  /\ mem = [a \in ArrayIds |-> [live |-> FALSE, cells |-> <<>>]]
  /\ strs = {}
  /\ fault = FALSE

Goto(s) == pc' = s

\* Where the caller's loop goes on after an append.
Loop == IF caller \in DirCallers THEN "read" ELSE "scan"

\* The names a NULL-terminated array holds, up to its first NULL.
FirstNull(c) == SelectInSeq(c, LAMBDA x : x = NULL)
Walk(c) == SubSeq(c, 1, FirstNull(c) - 1)
Terminated(c) == FirstNull(c) > 0 /\ \A i \in 1 .. FirstNull(c) - 1 : c[i] \in StrIds

\* ploop_free_array(array): free every name up to the NULL, then the array.
ploop_free_array(p) ==
  \/ /\ p = NULL
     /\ UNCHANGED <<mem, strs, fault>>
  \/ /\ p # NULL
     /\ IF mem[p].live /\ Terminated(mem[p].cells) /\ ToSet(Walk(mem[p].cells)) \subseteq strs
        THEN /\ mem' = [mem EXCEPT ![p].live = FALSE]
             /\ strs' = strs \ ToSet(Walk(mem[p].cells))
             /\ UNCHANGED fault
        ELSE /\ fault' = TRUE
             /\ UNCHANGED <<mem, strs>>

\* t[i] = v for each (0-based) i in the domain of w.
Store(t, w) ==
  IF mem[t].live /\ \A i \in DOMAIN w : 0 <= i /\ i < Len(mem[t].cells)
  THEN /\ mem' = [mem EXCEPT ![t].cells =
                    [j \in DOMAIN @ |-> IF j - 1 \in DOMAIN w THEN w[j - 1] ELSE @[j]]]
       /\ UNCHANGED fault
  ELSE /\ fault' = TRUE
       /\ UNCHANGED mem

\* The contents of an array of old cells reallocated to n cells.
Resized(c, n) == [j \in 1 .. n |-> IF j <= Len(c) THEN c[j] ELSE Junk]

\* dp = opendir(path); a missing directory lists nothing and returns 0.
Open ==
  /\ pc = "open"
  /\ \/ /\ Goto("read")
        /\ UNCHANGED <<ret, rv>>
     \/ /\ listing = <<>>          \* errno == ENOENT
        /\ Goto("done")
        /\ UNCHANGED <<ret, rv>>
     \/ /\ ret' = -1
        /\ rv' = -1
        /\ Goto("done")
  /\ UNCHANGED <<ctx, listing, pos, nelem, out, mem, strs, fault>>

\* Mutant of Readdir: the S_ISDIR test is lost and every entry is appended.
ReaddirNoDirCheck ==
  /\ pc = "read"
  /\ \/ /\ pos > Len(listing)
        /\ Goto("close")
        /\ UNCHANGED <<pos, ret>>
     \/ /\ pos <= Len(listing)
        /\ pos' = pos + 1
        /\ \/ /\ listing[pos] = "statfail"
              /\ ret' = -1
              /\ Goto("close")
           \/ /\ listing[pos] # "statfail"
              /\ Goto("realloc")
              /\ UNCHANGED ret
  /\ UNCHANGED <<ctx, rv, listing, nelem, out, mem, strs, fault>>

\* One turn of the readdir loop up to the append: skip "." and "..",
\* stat the entry (break with ret = -1 on failure), skip non-directories.
Readdir ==
  /\ pc = "read"
  /\ \/ /\ pos > Len(listing)
        /\ Goto("close")
        /\ UNCHANGED <<pos, ret>>
     \/ /\ pos <= Len(listing)
        /\ pos' = pos + 1
        /\ \/ /\ listing[pos] = "other"
              /\ Goto("read")
              /\ UNCHANGED ret
           \/ /\ listing[pos] = "statfail"
              /\ ret' = -1
              /\ Goto("close")
           \/ /\ IsDir(listing[pos])
              /\ Goto("realloc")
              /\ UNCHANGED ret
  /\ UNCHANGED <<ctx, rv, listing, nelem, out, mem, strs, fault>>

\* Mutant of AppendRealloc: realloc(*ar, nelem * sizeof(char *)), one
\* cell short of the NULL terminator.
AppendReallocShort ==
  /\ pc = "realloc"
  /\ \/ /\ Goto("append_err")
        /\ UNCHANGED <<out, mem>>
     \/ /\ out # NULL
        /\ mem' = [mem EXCEPT ![out].cells = Resized(@, nelem)]
        /\ Goto("strdup")
        /\ UNCHANGED out
     \/ \E t \in ArrayIds :
          /\ ~mem[t].live
          /\ mem' = [a \in ArrayIds |->
                       IF a = t
                       THEN [live |-> TRUE,
                             cells |-> Resized(IF out = NULL THEN <<>>
                                               ELSE mem[out].cells, nelem)]
                       ELSE IF a = out THEN [mem[a] EXCEPT !.live = FALSE]
                       ELSE mem[a]]
          /\ out' = t
          /\ Goto("strdup")
  /\ UNCHANGED <<ctx, rv, listing, pos, nelem, ret, strs, fault>>

\* append_array_entry: t = realloc(*ar, (nelem + 1) * sizeof(char *));
\* on success *ar = t.
AppendRealloc ==
  /\ pc = "realloc"
  /\ \/ /\ Goto("append_err")               \* t == NULL
        /\ UNCHANGED <<out, mem>>
     \/ /\ out # NULL                       \* grown in place
        /\ mem' = [mem EXCEPT ![out].cells = Resized(@, nelem + 1)]
        /\ Goto("strdup")
        /\ UNCHANGED out
     \/ \E t \in ArrayIds :                 \* moved; the old array is freed
          /\ ~mem[t].live
          /\ mem' = [a \in ArrayIds |->
                       IF a = t
                       THEN [live |-> TRUE,
                             cells |-> Resized(IF out = NULL THEN <<>>
                                               ELSE mem[out].cells, nelem + 1)]
                       ELSE IF a = out THEN [mem[a] EXCEPT !.live = FALSE]
                       ELSE mem[a]]
          /\ out' = t
          /\ Goto("strdup")
  /\ UNCHANGED <<ctx, rv, listing, pos, nelem, ret, strs, fault>>

\* Mutant of AppendStrdup: the name is taken one entry too far on.
AppendStrdupNextEntry ==
  /\ pc = "strdup"
  /\ \/ /\ Store(out, (nelem - 1 :> pos) @@ (nelem :> NULL))
        /\ strs' = strs \union {pos}
        /\ nelem' = nelem + 1
        /\ Goto(Loop)
     \/ /\ Store(out, nelem - 1 :> NULL)
        /\ Goto("append_err")
        /\ UNCHANGED <<strs, nelem>>
  /\ UNCHANGED <<ctx, rv, listing, pos, ret, out>>

\* t[nelem-1] = strdup(entry); on success t[nelem++] = NULL and back to
\* the loop, on failure (t[nelem-1] == NULL) to err.
AppendStrdup ==
  /\ pc = "strdup"
  /\ \/ /\ Store(out, (nelem - 1 :> (pos - 1)) @@ (nelem :> NULL))
        /\ strs' = strs \union {pos - 1}
        /\ nelem' = nelem + 1
        /\ Goto(Loop)
     \/ /\ Store(out, nelem - 1 :> NULL)
        /\ Goto("append_err")
        /\ UNCHANGED <<strs, nelem>>
  /\ UNCHANGED <<ctx, rv, listing, pos, ret, out>>

\* err: ploop_free_array(*ar); *ar = NULL; return -1; get_dir_entry then
\* sets ret = -1 and breaks out of the loop.
AppendErr ==
  /\ pc = "append_err"
  /\ ploop_free_array(out)
  /\ out' = NULL
  /\ nelem' = -1
  /\ ret' = -1
  /\ Goto("close")
  /\ UNCHANGED <<ctx, rv, listing, pos>>

\* What the function returns after its loop: get_dir_entry returns ret;
\* ploop_get_dev_by_delta returns ret if it is set, else (nelem == 1).
Returned ==
  IF caller \in DirCallers \/ ret # 0 THEN ret
  ELSE IF nelem = 1 THEN 1 ELSE 0

\* Mutant of Close: *out is reset on error but the array is not freed.
CloseNoFree ==
  /\ pc = "close"
  /\ out' = IF ret # 0 THEN NULL ELSE out
  /\ rv' = Returned
  /\ Goto("done")
  /\ UNCHANGED <<ctx, listing, pos, nelem, ret, mem, strs, fault>>

\* closedir(dp); if (ret) { ploop_free_array(*out); *out = NULL; } and
\* return; ploop_get_dev_by_delta's err: label does the same (and closes
\* the lock fd).
Close ==
  /\ pc = "close"
  /\ \/ /\ ret # 0
        /\ ploop_free_array(out)
        /\ out' = NULL
     \/ /\ ret = 0
        /\ UNCHANGED <<out, mem, strs, fault>>
  /\ rv' = Returned
  /\ Goto("done")
  /\ UNCHANGED <<ctx, listing, pos, nelem, ret>>

\* ploop_get_dev_by_delta up to its loop (*out = NULL already): a missing
\* delta returns 1; a failed realpath is only a warning;
\* ploop_global_lock may fail (return -1); opendir("/sys/block/") may
\* fail (goto err with ret = -1).
DevStart ==
  /\ pc = "start"
  /\ \/ /\ ~delta_ok
        /\ rv' = 1
        /\ Goto("done")
     \/ /\ delta_ok
        /\ rv' = -1
        /\ Goto("done")
     \/ /\ delta_ok
        /\ Goto("close")
        /\ UNCHANGED rv
     \/ /\ delta_ok
        /\ Goto("scan")
        /\ UNCHANGED rv
  /\ UNCHANGED <<ctx, listing, pos, nelem, ret, out, mem, strs, fault>>

\* The entries ploop_get_dev_by_delta appends: the image matches, and the
\* cookie matches when a component name is given.
Listed(k) == k = "match" \/ (k = "cookie_other" /\ ~component)

\* Mutant of DevReaddir: a device being removed aborts the lookup like
\* any other read error.
DevReaddirGoneFatal ==
  /\ pc = "scan"
  /\ \/ /\ \/ pos > Len(listing)
           \/ (component /\ nelem > 1)
        /\ ret' = 0
        /\ Goto("close")
        /\ UNCHANGED pos
     \/ /\ pos <= Len(listing)
        /\ ~(component /\ nelem > 1)
        /\ pos' = pos + 1
        /\ UNCHANGED ret
        /\ \/ /\ listing[pos] \in {"readerr", "gone"}
              /\ Goto("close")
           \/ /\ Listed(listing[pos])
              /\ Goto("realloc")
           \/ /\ listing[pos] \notin {"readerr", "gone"}
              /\ ~Listed(listing[pos])
              /\ Goto("scan")
  /\ UNCHANGED <<ctx, rv, listing, nelem, out, mem, strs, fault>>

\* One turn of ploop_get_dev_by_delta's loop up to the append.  With a
\* component name it breaks after the first append; at the end of the
\* listing ret = 0.  An entry that is not a ploop device, is being
\* removed (ENOENT/ENODEV) or is not a device of the delta is skipped;
\* any other read error goes to err with ret still -1.
DevReaddir ==
  /\ pc = "scan"
  /\ \/ /\ \/ pos > Len(listing)
           \/ (component /\ nelem > 1)
        /\ ret' = 0
        /\ Goto("close")
        /\ UNCHANGED pos
     \/ /\ pos <= Len(listing)
        /\ ~(component /\ nelem > 1)
        /\ pos' = pos + 1
        /\ UNCHANGED ret
        /\ \/ /\ listing[pos] = "readerr"
              /\ Goto("close")
           \/ /\ Listed(listing[pos])
              /\ Goto("realloc")
           \/ /\ listing[pos] # "readerr"
              /\ ~Listed(listing[pos])
              /\ Goto("scan")
  /\ UNCHANGED <<ctx, rv, listing, nelem, out, mem, strs, fault>>

\* Reading a[i - 1] of array a yields a live name.
NameAt(a, i) ==
  a # NULL /\ mem[a].live /\ i <= Len(mem[a].cells) /\ mem[a].cells[i] \in StrIds

\* A read of memory that holds no name: undefined behaviour.
Fault == fault' = TRUE /\ UNCHANGED <<mem, strs>>

\* ploop_find_dev after ploop_get_dev_by_delta: on 0 it copies devs[0];
\* then ploop_free_array(devs).
FindDev ==
  /\ pc = "done"
  /\ caller = "find_dev"
  /\ IF rv = 0 /\ ~NameAt(out, 1) THEN Fault ELSE ploop_free_array(out)
  /\ Goto("returned")
  /\ UNCHANGED <<ctx, rv, listing, pos, nelem, ret, out>>

\* dev_num2dev_start: when /sys/dev/block/M:m/start exists no array is
\* built; otherwise the slaves directory is listed with get_dir_entry.
D2SAccess ==
  /\ pc = "access"
  /\ \/ Goto("returned")
     \/ Goto("open")
  /\ UNCHANGED <<ctx, rv, listing, pos, nelem, ret, out, mem, strs, fault>>

\* dev_num2dev_start after get_dir_entry: -1 on an error or no slave;
\* else dirs[0] names the slave's start attribute, and the array is freed.
D2SSlave ==
  /\ pc = "done"
  /\ caller = "dev_num2dev_start"
  /\ \/ /\ rv = 0 /\ out # NULL
        /\ IF NameAt(out, 1) THEN ploop_free_array(out) ELSE Fault
     \/ /\ rv # 0 \/ out = NULL
        /\ UNCHANGED <<mem, strs, fault>>
  /\ Goto("returned")
  /\ UNCHANGED <<ctx, rv, listing, pos, nelem, ret, out>>

\* The walk of get_part_devname_from_sys over dirs up to its NULL: it
\* finds a partition, an entry whose name starts with the device name.
HasPartition(a) ==
  \E i \in 1 .. FirstNull(mem[a].cells) - 1 : listing[mem[a].cells[i]] = "partdir"

\* Mutant of PartScan: the array is freed but dirs is not reset to NULL.
PartScanKeepsDirs ==
  /\ pc = "done"
  /\ caller = "get_part_devname_from_sys" /\ round = 1
  /\ \/ /\ rv # 0 \/ out = NULL
        /\ Goto("returned")
        /\ UNCHANGED <<ctx, listing, pos, nelem, ret, out, mem, strs, fault>>
     \/ /\ rv = 0 /\ out # NULL
        /\ ~(mem[out].live /\ Terminated(mem[out].cells))
        /\ Fault
        /\ Goto("returned")
        /\ UNCHANGED <<ctx, listing, pos, nelem, ret, out>>
     \/ /\ rv = 0 /\ out # NULL
        /\ mem[out].live /\ Terminated(mem[out].cells)
        /\ \/ /\ HasPartition(out)
              /\ ploop_free_array(out)
              /\ round' = 2
              /\ listing' \in SeqOf(Kinds, MaxHolders)
              /\ pos' = 1 /\ nelem' = 1 /\ ret' = 0
              /\ Goto("open")
              /\ UNCHANGED <<caller, component, delta_ok, out>>
           \/ /\ ~HasPartition(out)
              /\ ploop_free_array(out)
              /\ Goto("returned")
              /\ UNCHANGED <<ctx, listing, pos, nelem, ret, out>>
  /\ UNCHANGED rv

\* get_part_devname_from_sys after listing /sys/block/<dev>: -1 on an
\* error or an empty list; else it walks dirs to the NULL.  Without a
\* partition it frees dirs and returns; with one it frees dirs, sets
\* dirs = NULL and lists the partition's holders into dirs.
PartScan ==
  /\ pc = "done"
  /\ caller = "get_part_devname_from_sys" /\ round = 1
  /\ \/ /\ rv # 0 \/ out = NULL
        /\ Goto("returned")
        /\ UNCHANGED <<ctx, listing, pos, nelem, ret, out, mem, strs, fault>>
     \/ /\ rv = 0 /\ out # NULL
        /\ ~(mem[out].live /\ Terminated(mem[out].cells))
        /\ Fault
        /\ Goto("returned")
        /\ UNCHANGED <<ctx, listing, pos, nelem, ret, out>>
     \/ /\ rv = 0 /\ out # NULL
        /\ mem[out].live /\ Terminated(mem[out].cells)
        /\ \/ /\ HasPartition(out)
              /\ ploop_free_array(out)
              /\ out' = NULL
              /\ round' = 2
              /\ listing' \in SeqOf(Kinds, MaxHolders)
              /\ pos' = 1 /\ nelem' = 1 /\ ret' = 0
              /\ Goto("open")
              /\ UNCHANGED <<caller, component, delta_ok>>
           \/ /\ ~HasPartition(out)
              /\ ploop_free_array(out)
              /\ Goto("returned")
              /\ UNCHANGED <<ctx, listing, pos, nelem, ret, out>>
  /\ UNCHANGED rv

\* The end of get_part_devname_from_sys: when the holders were listed
\* (0 and dirs != NULL) dirs[0] names the holder; then
\* ploop_free_array(dirs).
PartHolders ==
  /\ pc = "done"
  /\ caller = "get_part_devname_from_sys" /\ round = 2
  /\ IF rv = 0 /\ out # NULL /\ ~NameAt(out, 1) THEN Fault ELSE ploop_free_array(out)
  /\ Goto("returned")
  /\ UNCHANGED <<ctx, rv, listing, pos, nelem, ret, out>>

Next ==
  \/ Open \/ Readdir \/ AppendRealloc \/ AppendStrdup \/ AppendErr \/ Close
  \/ DevStart \/ DevReaddir \/ FindDev
  \/ D2SAccess \/ D2SSlave \/ PartScan \/ PartHolders

Spec == Init /\ [][Next]_vars

-----------------------------------------------------------------------------

Cells == StrIds \union {NULL, Junk}

TypeOK ==
  /\ caller \in Callers
  /\ component \in BOOLEAN /\ delta_ok \in BOOLEAN
  /\ rv \in {-1, 0, 1}
  /\ listing \in SeqOf(PartKinds \cup DevKinds, MaxEntries)
  /\ round \in {1, 2}
  /\ pc \in {"access", "open", "start", "read", "scan", "realloc", "strdup", "append_err",
            "close", "done", "returned"}
  /\ pos \in 1 .. MaxEntries + 1
  /\ nelem \in {-1} \union 1 .. MaxEntries + 1
  /\ ret \in {0, -1}
  /\ out \in {NULL} \union ArrayIds
  /\ mem \in [ArrayIds -> [live : BOOLEAN, cells : SeqOf(Cells, MaxEntries + 1)]]
  /\ strs \subseteq StrIds
  /\ fault \in BOOLEAN

\* The names the array *out holds, as the caller walks it.
Result == IF out = NULL THEN <<>> ELSE Walk(mem[out].cells)

\* The entries the caller wants, in readdir order: the subdirectories
\* for get_dir_entry; the devices of the delta for ploop_get_dev_by_delta,
\* only the first when a component name is given.
Expected ==
  LET wanted(k) == IF caller \in DirCallers THEN IsDir(k) ELSE Listed(k)
      all == SelectSeq([j \in DOMAIN listing |-> IF wanted(listing[j]) THEN j ELSE NULL],
                       LAMBDA x : x # NULL)
  IN  IF component THEN SubSeq(all, 1, IF all = <<>> THEN 0 ELSE 1) ELSE all

\* Whatever fails (realloc, strdup, stat, opendir, the sysfs reads) and
\* wherever realloc puts the array, neither builder writes past the array
\* it allocated, touches an array realloc has freed, or walks an array
\* that is not NULL-terminated; nor does ploop_find_dev's read of devs[0].
MemorySafe == ~fault

\* When get_dir_entry or ploop_get_dev_by_delta returns, the only memory
\* left allocated is the array it returns and the names in it: the error
\* paths of append_array_entry and the err: labels release everything
\* else; once ploop_find_dev returns, nothing is left.
NoLeakOnReturn ==
  /\ pc = "done" =>
       /\ {a \in ArrayIds : mem[a].live} = IF out = NULL THEN {} ELSE {out}
       /\ strs = ToSet(Result)
  /\ pc = "returned" =>
       /\ \A a \in ArrayIds : ~mem[a].live
       /\ strs = {}

\* Both builders return 0 with *out naming the wanted entries in readdir
\* order (get_dir_entry: NULL when there is none), and any other value
\* with *out = NULL; ploop_get_dev_by_delta returns 0 only with a device,
\* and 1 for an existing delta only when no device of it was listed.  So
\* the callers' dirs[0] / devs[0] after a 0 return is a name.  And -1
\* comes only from a real failure: before the loop (lock, opendir), an
\* append (nelem = -1), or the entry the loop stopped at failing its stat
\* or a read other than ENOENT/ENODEV; a device being removed is skipped.
ResultIsListing ==
  pc = "done" =>
    /\ (rv = 0 => /\ Result = Expected
                  /\ (out # NULL => Terminated(mem[out].cells))
                  /\ (caller \notin DirCallers => out # NULL))
    /\ (rv # 0 => out = NULL)
    /\ (rv = 1 /\ delta_ok => Expected = <<>>)
    /\ (rv = -1 => \/ pos = 1
                   \/ nelem = -1
                   \/ listing[pos - 1] \in {"statfail", "readerr"})

=============================================================================
