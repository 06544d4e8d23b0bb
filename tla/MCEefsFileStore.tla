--------------------------- MODULE MCEefsFileStore ---------------------------
(***************************************************************************)
(* A small instance of the refinement: room for two files with data, where *)
(* the second takes what the first leaves, and two descriptors.            *)
(***************************************************************************)
EXTENDS EefsFileStore, TLC

\* A scrambled header: here the bytes left behind decode to an unused slot.
MCScrambled == [InUse |-> FALSE, Attributes |-> NONE, FileSize |-> 0, Filename |-> NoName]

\* <fcntl.h>: O_RDWR and O_RDONLY | O_CREAT; EEFS_LibCreat adds O_WRONLY | O_TRUNC.
MCFlags == {2, 64}

\* What the theorem of EefsFileStoreProofs assumes of the flags.
ASSUME FlagsAssumption == FlagsSeparateCreat /\ FlagsSeparateWriters /\ FlagsTruncateToWrite

Symmetry == Permutations(Filename)
=============================================================================
