---------------------------- MODULE DiskDescriptor ----------------------------
(***************************************************************************)
(* The disk descriptor file DiskDescriptor.xml of lib/xml.c: a process     *)
(* reads it (ploop_read_diskdescriptor: parse_xml, then                    *)
(* validate_disk_descriptor), may edit it in memory, stores it back to the *)
(* same file                                                               *)
(* (ploop_store_diskdescriptor: build the document, save it to             *)
(* "<fname>.tmp", rename that over the file) and reads the file again, the *)
(* way every ploop operation that edits the descriptor does.               *)
(*                                                                         *)
(* The document is a record of the elements the reader looks at.  Image    *)
(* file names are sequences of characters, because what is checked is the  *)
(* offset arithmetic normalize_image_name applies to them.  GUID values    *)
(* other than TopGUID are not distinguished: they are written and read     *)
(* verbatim.                                                               *)
(***************************************************************************)
EXTENDS Integers, Sequences, SequencesExt

CONSTANTS
  Basedir,     \* realpath of the directory holding the descriptor
  FileNames,   \* texts a <File> element can hold
  Geometry,    \* values <Cylinders> and <Heads> can hold
  MaxImages,   \* bound on the <Image> elements of the file read first
  MaxShots     \* bound on the <Shot> elements of the file read first

NULL == "NULL"

\* The text of an element without a text child: get_element_txt's NULL.
NoText == <<>>

\* The failures of ploop_read_diskdescriptor: realpath or xmlReadFile
\* (EIO), a missing element or a failed validation (EFORMAT).
EIO == [err |-> "io"]
EFORMAT == [err |-> "format"]
Failed == {EIO, EFORMAT}

\* BASE_UUID, a valid GUID, and a TopGUID text that is not a GUID.
Guids == {"base", "g1", "bad"}

\* is_valid_guid (lib/util.c, outside src/): NULL is not a valid GUID.
IsValidGuid(g) == g \in {"base", "g1"}

\* An <Image> element: whether it has a <GUID> child, and the text of its
\* <File> child (NoText when the element is missing or empty).
ImageElems == [guid : BOOLEAN, file : FileNames \cup {NoText}]

\* A document as xmlReadFile returns it.  params/tree: the
\* /Disk_Parameters and /SnapshotTree elements exist; top: the text of
\* <TopGUID> (NULL when it is absent); shots: the number of well-formed
\* <Shot> elements under /SnapshotTree.
Docs == [params : BOOLEAN, tree : BOOLEAN,
         cylinders : Geometry, heads : Geometry,
         images : SeqOf(ImageElems, MaxImages),
         top : (Guids \ {"base"}) \cup {NULL}, shots : 0..MaxShots]

\* parse_xml's file-name step: a relative name is taken relative to basedir.
ImagePath(file) ==
  IF file[1] # "/" THEN Basedir \o <<"/">> \o file ELSE file

\* parse_xml: every ERR() is one failed conjunct; the result is the
\* in-memory descriptor (di) it fills in.
parse_xml(d) ==
  IF \/ ~d.params
     \/ d.images = <<>>
     \/ \E i \in DOMAIN d.images : ~d.images[i].guid \/ d.images[i].file = NoText
     \/ ~d.tree
  THEN EFORMAT
  ELSE [cylinders |-> d.cylinders, heads |-> d.heads,
        images |-> [i \in DOMAIN d.images |-> ImagePath(d.images[i].file)],
        top |-> d.top, nsnapshots |-> d.shots]

\* validate_disk_descriptor: the compatibility fix-up adds a base snapshot
\* (and a base TopGUID) when the counts differ, then both checks run.
validate_disk_descriptor(di) ==
  LET fixed == IF Len(di.images) # di.nsnapshots
               THEN [di EXCEPT !.nsnapshots = @ + 1,
                               !.top = IF @ = NULL THEN "base" ELSE @]
               ELSE di
  IN  IF \/ Len(di.images) = 0
         \/ ~IsValidGuid(fixed.top)
         \/ Len(fixed.images) # fixed.nsnapshots
      THEN EFORMAT
      ELSE fixed

\* ploop_read_diskdescriptor on a file whose document is d, when realpath
\* and xmlReadFile succeed.
ReadDescriptor(d) ==
  LET di == parse_xml(d)
  IN  IF di = EFORMAT THEN di ELSE validate_disk_descriptor(di)

\* normalize_image_name: strncmp(image, basedir, n) == 0 skips n + 1
\* characters, whatever the character after the prefix is.
normalize_image_name(image) ==
  LET n == Len(Basedir)
  IN  IF Len(image) >= n /\ SubSeq(image, 1, n) = Basedir
      THEN SubSeq(image, n + 2, Len(image))
      ELSE image

\* The document ploop_store_diskdescriptor builds from di: an empty name
\* is written as an element without a text child (NoText).
StoredDoc(di) ==
  [params |-> TRUE, tree |-> TRUE,
   cylinders |-> di.cylinders, heads |-> di.heads,
   images |-> [i \in DOMAIN di.images |->
                 [guid |-> TRUE, file |-> normalize_image_name(di.images[i])]],
   top |-> di.top, shots |-> di.nsnapshots]

VARIABLES
  disk,   \* the document in DiskDescriptor.xml
  tmp,    \* the document in DiskDescriptor.xml.tmp, NULL if none
  di,     \* the descriptor the first read returned, or its error
  di2,    \* the descriptor the second read returned, or its error
  rc,     \* ploop_store_diskdescriptor's return value
  pc      \* "read1", "edit", "store", "rename", "read2", "end", "killed"

vars == <<disk, tmp, di, di2, rc, pc>>

\* The file was written by some earlier version of the tools, or by hand:
\* any document, except one naming the directory itself as an image.
Init ==
  /\ disk \in {d \in Docs : \A i \in DOMAIN d.images : d.images[i].file # Basedir}
  /\ tmp = NULL
  /\ di = EIO
  /\ di2 = EIO
  /\ rc = -1
  /\ pc = "read1"

\* ploop_read_diskdescriptor: realpath or xmlReadFile may fail.
Read1 ==
  /\ pc = "read1"
  /\ di' \in {ReadDescriptor(disk), EIO}
  /\ pc' = IF di' \in Failed THEN "end" ELSE "edit"
  /\ UNCHANGED <<disk, tmp, di2, rc>>

\* The caller's edit of di between read and store (the editors live outside
\* this repository): one more image in basedir with its snapshot as the new
\* top delta, as snapshot creation does.  The caller may also store
\* without an edit.
Edit ==
  /\ pc = "edit"
  /\ \E f \in FileNames :
       /\ f[1] # "/"
       /\ ImagePath(f) \notin ToSet(di.images)
       /\ di' = [di EXCEPT !.images = Append(@, ImagePath(f)),
                           !.nsnapshots = @ + 1,
                           !.top = "g1"]
  /\ pc' = "store"
  /\ UNCHANGED <<disk, tmp, di2, rc>>

\* ploop_store_diskdescriptor up to xmlSaveFormatFile: realpath,
\* xmlNewDoc or any writer call may fail (rc = -1, nothing written); the
\* Sectors element divides by cylinders * heads; the save may fail, or
\* leave the complete document in the .tmp file.
Store ==
  /\ pc \in {"edit", "store"}
  /\ \/ /\ rc' = -1
        /\ pc' = "end"
        /\ UNCHANGED tmp
     \/ /\ di.cylinders * di.heads = 0
        /\ pc' = "killed"
        /\ UNCHANGED <<tmp, rc>>
     \/ /\ di.cylinders * di.heads # 0
        /\ tmp' = StoredDoc(di)
        /\ pc' = "rename"
        /\ UNCHANGED rc
  /\ UNCHANGED <<disk, di, di2>>

\* rename(tmp, fname) with its result ignored, then rc = 0.
Rename ==
  /\ pc = "rename"
  /\ \/ disk' = tmp
     \/ UNCHANGED disk
  /\ rc' = 0
  /\ pc' = "read2"
  /\ UNCHANGED <<tmp, di, di2>>

\* The next ploop_read_diskdescriptor of the same file.
Read2 ==
  /\ pc = "read2"
  /\ di2' \in {ReadDescriptor(disk), EIO}
  /\ pc' = "end"
  /\ UNCHANGED <<disk, tmp, di, rc>>

Next == Read1 \/ Edit \/ Store \/ Rename \/ Read2

Spec == Init /\ [][Next]_vars

-----------------------------------------------------------------------------

\* A descriptor that ploop_store_diskdescriptor reported stored reads back
\* as the same descriptor (same image files, snapshot count, TopGUID and
\* geometry), unless the read itself fails on I/O: parse_xml rebuilds each
\* image path from basedir and what normalize_image_name wrote, and the
\* file must be the one the store renamed into place.
StoreReadsBack ==
  (pc = "end" /\ rc = 0) => di2 \in {di, EIO}

=============================================================================
