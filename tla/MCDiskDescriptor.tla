------------------------- MODULE MCDiskDescriptor --------------------------
(* The descriptor lives in /a.  File texts: relative names, a name inside *)
(* /a given absolutely, a file of the sibling directory /ab, and a file   *)
(* elsewhere.                                                             *)
EXTENDS DiskDescriptor

MCBasedir == <<"/", "a">>

MCFileNames == {<<"b">>, <<"b", "/", "b">>, <<"/", "a", "/", "b">>,
                <<"/", "a", "b", "/", "b">>, <<"/", "b">>}

\* A missing or zero <Cylinders>/<Heads>, and a usual value.
MCGeometry == {0, 16}
=============================================================================
