----------------------------- MODULE MCSfsDisk -----------------------------
(***************************************************************************)
(* SfsDisk on six data blocks, a root directory of two entries and         *)
(* directories of two entries, mounted on one of two images.               *)
(***************************************************************************)
EXTENDS SfsDisk

CONSTANTS a, b, c, d

\* Directory d in blocks 0-1 holding b (block 3) and the empty file c; a
\* in blocks 2 and 4; block 5 free.
ImageFragmented ==
    { [path |-> <<d>>,    slot |-> 0, dir |-> TRUE,  blocks |-> <<0, 1>>],
      [path |-> <<a>>,    slot |-> 1, dir |-> FALSE, blocks |-> <<2, 4>>],
      [path |-> <<d, b>>, slot |-> 0, dir |-> FALSE, blocks |-> <<3>>],
      [path |-> <<d, c>>, slot |-> 1, dir |-> FALSE, blocks |-> <<>>] }

\* a in block 0; directory d in blocks 1-2 holding b in blocks 5 then 3;
\* block 4 free.
ImageBackwards ==
    { [path |-> <<a>>,    slot |-> 0, dir |-> FALSE, blocks |-> <<0>>],
      [path |-> <<d>>,    slot |-> 1, dir |-> TRUE,  blocks |-> <<1, 2>>],
      [path |-> <<d, b>>, slot |-> 1, dir |-> FALSE, blocks |-> <<5, 3>>] }

MCNames == {a, b, c, d}

MCImages == {ImageFragmented, ImageBackwards}

\* Every callback that changes the disk, on each kind of path: removals in
\* the root and in d, rmdir of d, mkdir in the root and in d.
MCRequests ==
    { [op |-> "unlink", path |-> <<a>>],
      [op |-> "unlink", path |-> <<d, b>>],
      [op |-> "unlink", path |-> <<d, c>>],
      [op |-> "rmdir",  path |-> <<d>>],
      [op |-> "mkdir",  path |-> <<b>>],
      [op |-> "mkdir",  path |-> <<d, a>>] }

\* Two removals in different directories, which the kernel lets overlap.
RaceRequests ==
    { [op |-> "unlink", path |-> <<a>>],
      [op |-> "unlink", path |-> <<d, b>>] }

=============================================================================
