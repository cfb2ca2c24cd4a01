------------------------- MODULE MCFileSystemModel --------------------------
(* Three files: with a subdirectory one is below it, one is hidden and one is *)
(* plain; without, all are plain.                                             *)
EXTENDS FileSystemModel

MCFiles == 1 .. 3
MCSubFiles == {2}
MCHiddenFiles == {3}
MCNone == {}

=============================================================================
