------------------------ MODULE MCFilesystemDelete ------------------------
(* An instance of FilesystemDelete for TLC: three paths, which are removed   *)
(* longest first and restored in their sorted order.                         *)
EXTENDS FilesystemDelete

CONSTANTS c1, c2

TwoCalls == {c1, c2}
ThreePaths == <<"a", "bb", "c">>
ByLength == <<"bb", "a", "c">>
=============================================================================
