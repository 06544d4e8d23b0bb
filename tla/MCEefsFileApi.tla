---------------------------- MODULE MCEefsFileApi ----------------------------
(***************************************************************************)
(* Small instances of EefsFileApi.  The cell sizes keep the proportions of *)
(* the code that matter: a new file's spare bytes fit once or twice in the *)
(* device and the last file takes less than the rounded size it asks for.  *)
(***************************************************************************)
EXTENDS EefsFileApi, TLC

\* A scrambled header: here the bytes left behind decode to an unused slot.
MCScrambled == [InUse |-> FALSE, Attributes |-> NONE, FileSize |-> 0, Filename |-> NoName]

\* <fcntl.h>: the flags an application of the hosted build may pass.
HostedFlags == {0, 1, 2, 1 + 512, 2 + 512, 64 + 1}

\* NoOSrt.h: the flags the bare-metal build passes (noosfs_open uses O_RDWR).
BareMetalFlags == {1, 2, 3}

\* The theorems of EefsFileApiProofs, EefsFileApiFileProofs and EefsFileStoreProofs
\* apply to the hosted build.  What the last two assume of writers is true of both builds.
ASSUME HostedAssumption == CallerFlags = HostedFlags => FlagsSeparateCreat
ASSUME WritersAssumption == FlagsSeparateWriters /\ FlagsTruncateToWrite

MCOffsets == {-4, 0, HalfWord - 1}

Symmetry == Permutations(Filename) \cup Permutations(Device)
=============================================================================
