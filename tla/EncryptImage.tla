---------------------------- MODULE EncryptImage ----------------------------
(***************************************************************************)
(* ploop_encrypt_image of src/lib/crypt.c: copy the image into a new,     *)
(* encrypted (or, with no key id, plain) image created in an "enc"        *)
(* directory beside it, then move the new image and its descriptor over   *)
(* the old ones, keeping the old image as <image>.orig until it is        *)
(* shredded when "wipe" is asked.                                          *)
(*                                                                         *)
(* The files are a function from their role to what they hold; data is  *)
(* abstracted to which copy a file holds.  Every call whose failure the   *)
(* code checks is a step with a failure disjunct; the process may crash  *)
(* between any two steps.                                                  *)
(***************************************************************************)
EXTENDS Naturals

CONSTANTS MaxCrashes  \* 0 or 1: whether the process may die part way

VARIABLES
  files,   \* role -> content
  pc,      \* the step ploop_encrypt_image is at
  ret,     \* the result it returns
  bak,     \* bak[0] != '\0': the original was renamed to .orig
  wipe,    \* the wipe argument
  diEnc,   \* di->enc != NULL: the image is already encrypted
  keyid,   \* keyid != NULL
  crashes

vars == <<files, pc, ret, bak, wipe, diEnc, keyid, crashes>>

\* image: di->images[0]->file; bak: <image>.orig; dd: the descriptor
\* di->runtime->xml_fname; encImage and encDD: the new image and its
\* DiskDescriptor.xml in the enc directory.
Roles == {"image", "bak", "dd", "encImage", "encDD"}

\* orig/oldDD: the image and descriptor as they were; empty: the new image
\* as ploop_create_image made it; partial: an interrupted copy; copy: the
\* complete copy of the data; newDD: its descriptor; shredded: overwritten.
Contents == {"none", "orig", "oldDD", "empty", "partial", "copy", "newDD",
             "shredded"}

Steps == {"start", "create", "mount", "copy", "umount", "backup",
          "renameImage", "renameDD", "wipe", "err", "done", "crashed"}

Results == {"OK", "LOCK", "PARAM", "MKDIR", "CREATE", "MOUNT", "COPY",
            "UMOUNT", "RENAME"}

Init ==
  /\ files = [r \in Roles |-> CASE r = "image" -> "orig"
                                [] r = "dd"    -> "oldDD"
                                [] OTHER       -> "none"]
  /\ pc = "start"
  /\ ret = "OK"
  /\ bak = FALSE
  /\ wipe \in BOOLEAN /\ diEnc \in BOOLEAN /\ keyid \in BOOLEAN
  /\ crashes = 0

Args == <<wipe, diEnc, keyid>>

Goto(s) == pc' = s

\* Mutant of Fail: the result is set but the "goto err" is missing.
FailNoGoto(code) == /\ ret' = code
                    /\ UNCHANGED pc

\* A checked call failed: ret = code; goto err.
Fail(code) == /\ ret' = code
              /\ Goto("err")

\* ploop_lock_dd, di->images == NULL, mkdir(enc): returns at once.
Start ==
  /\ pc = "start"
  /\ \/ /\ ret' \in {"LOCK", "PARAM", "MKDIR"}
        /\ Goto("done")
     \/ /\ Goto("create")
        /\ UNCHANGED ret
  /\ UNCHANGED <<files, bak, Args, crashes>>

\* ploop_create_image in the enc directory; it may fail part way.
Create ==
  /\ pc = "create"
  /\ \/ /\ files' = [files EXCEPT !["encImage"] = "empty", !["encDD"] = "newDD"]
        /\ Goto("mount")
        /\ UNCHANGED ret
     \/ /\ \E i \in {"none", "empty"}, d \in {"none", "newDD"} :
             files' = [files EXCEPT !["encImage"] = i, !["encDD"] = d]
        /\ Fail("CREATE")
  /\ UNCHANGED <<bak, Args, crashes>>

\* ploop_open_dd and ploop_read_dd on the new descriptor, then
\* auto_mount_image of the new and of the old image.
Mount ==
  /\ pc = "mount"
  /\ \/ /\ Goto("copy") /\ UNCHANGED ret
     \/ Fail("MOUNT")
  /\ UNCHANGED <<files, bak, Args, crashes>>

\* Mutant of Copy: the result of do_copy is not checked.
CopyUnchecked ==
  /\ pc = "copy"
  /\ \E c \in {"copy", "partial"} : files' = [files EXCEPT !["encImage"] = c]
  /\ Goto("umount")
  /\ UNCHANGED <<ret, bak, Args, crashes>>

\* do_copy: rsync of the mounted file system into the new one.
Copy ==
  /\ pc = "copy"
  /\ \/ /\ files' = [files EXCEPT !["encImage"] = "copy"]
        /\ Goto("umount")
        /\ UNCHANGED ret
     \/ /\ files' = [files EXCEPT !["encImage"] = "partial"]
        /\ Fail("COPY")
  /\ UNCHANGED <<bak, Args, crashes>>

\* ploop_umount of the old image, then of the new one.
Umount ==
  /\ pc = "umount"
  /\ \/ /\ Goto("backup") /\ UNCHANGED ret
     \/ Fail("UMOUNT")
  /\ UNCHANGED <<files, bak, Args, crashes>>

\* Move one file over another: rename(2) replaces the target atomically.
Rename(from, to) ==
  files' = [files EXCEPT ![to] = files[from], ![from] = "none"]

\* wipe && di->enc == NULL && keyid != NULL: rename image to image.orig.
Backup ==
  /\ pc = "backup"
  /\ \/ /\ ~(wipe /\ ~diEnc /\ keyid)
        /\ Goto("renameImage")
        /\ UNCHANGED <<files, bak, ret>>
     \/ /\ wipe /\ ~diEnc /\ keyid
        /\ \/ /\ Rename("image", "bak")
              /\ bak' = TRUE
              /\ Goto("renameImage")
              /\ UNCHANGED ret
           \/ /\ Fail("RENAME")
              /\ UNCHANGED <<files, bak>>
  /\ UNCHANGED <<Args, crashes>>

\* rename(image, di->images[0]->file).
RenameImage ==
  /\ pc = "renameImage"
  /\ \/ /\ Rename("encImage", "image")
        /\ Goto("renameDD")
        /\ UNCHANGED ret
     \/ /\ Fail("RENAME")
        /\ UNCHANGED files
  /\ UNCHANGED <<bak, Args, crashes>>

\* rename(ddxml, di->runtime->xml_fname).
RenameDD ==
  /\ pc = "renameDD"
  /\ \/ /\ Rename("encDD", "dd")
        /\ Goto("wipe")
        /\ UNCHANGED ret
     \/ /\ Fail("RENAME")
        /\ UNCHANGED files
  /\ UNCHANGED <<bak, Args, crashes>>

\* shred -n1 and unlink of the backup; neither failure is reported.
Wipe ==
  /\ pc = "wipe"
  /\ \/ /\ ~bak
        /\ UNCHANGED files
     \/ /\ bak
        /\ \E shredded \in {"shredded", files["bak"]},
              gone \in BOOLEAN :
             files' = [files EXCEPT !["bak"] = IF gone THEN "none" ELSE shredded]
  /\ Goto("done")
  /\ UNCHANGED <<ret, bak, Args, crashes>>

\* err: umount what is mounted, rm -rf the enc directory (its result is
\* not checked), unlock.
Err ==
  /\ pc = "err"
  /\ \/ files' = [files EXCEPT !["encImage"] = "none", !["encDD"] = "none"]
     \/ UNCHANGED files
  /\ Goto("done")
  /\ UNCHANGED <<ret, bak, Args, crashes>>

\* The process dies; the files stay as they are.
Crash ==
  /\ pc \notin {"done", "crashed"}
  /\ crashes < MaxCrashes
  /\ crashes' = crashes + 1
  /\ Goto("crashed")
  /\ UNCHANGED <<files, ret, bak, Args>>

Next ==
  \/ Start \/ Create \/ Mount \/ Copy \/ Umount \/ Backup
  \/ RenameImage \/ RenameDD \/ Wipe \/ Err \/ Crash

Spec == Init /\ [][Next]_vars

-----------------------------------------------------------------------------

TypeOK ==
  /\ files \in [Roles -> Contents]
  /\ pc \in Steps
  /\ ret \in Results
  /\ bak \in BOOLEAN /\ wipe \in BOOLEAN /\ diEnc \in BOOLEAN /\ keyid \in BOOLEAN
  /\ crashes \in 0 .. MaxCrashes
  /\ ret # "OK" => pc \in {"err", "done", "crashed"}

\* The image path and the descriptor describe the same image: the old
\* pair or the new pair.
Usable ==
  \/ files["image"] = "orig" /\ files["dd"] = "oldDD"
  \/ files["image"] = "copy" /\ files["dd"] = "newDD"

\* At every point, whatever fails and even if the process dies, a
\* complete copy of the data is on disk under the image's name or its
\* .orig backup: the old image is renamed away only after the copy
\* succeeded, and shredded only after the new image took its place.
DataRecoverable ==
  \E r \in {"image", "bak"} : files[r] \in {"orig", "copy"}

\* When ploop_encrypt_image has returned, or its process has died, the
\* image path and the descriptor still describe one another.
ImageUsableWhenStopped ==
  pc \in {"done", "crashed"} => Usable

=============================================================================
