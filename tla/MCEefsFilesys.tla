---------------------------- MODULE MCEefsFilesys ----------------------------
(***************************************************************************)
(* A small instance of EefsFilesys: two devices and two mount points, as   *)
(* many as the tables hold in the code, so that two paths can lead to one  *)
(* device and that names, devices and entries can be paired in every way.  *)
(***************************************************************************)
EXTENDS EefsFilesys, TLC

\* A scrambled header: here the bytes left behind decode to an unused slot.
MCScrambled == [InUse |-> FALSE, Attributes |-> NONE, FileSize |-> 0, Filename |-> NoName]

\* <fcntl.h>: read only, and write with creation.
MCFlags == {0, 64 + 1}

Symmetry ==
  Permutations(Device) \cup Permutations(DeviceName) \cup Permutations(MountPoint)
    \cup Permutations(Filename)
=============================================================================
