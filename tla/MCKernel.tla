------------------------------ MODULE MCKernel ------------------------------
(***************************************************************************)
(* A small instance of Kernel: the kernel's one device and mount point, a  *)
(* build file and two files of the user, room for three files.             *)
(***************************************************************************)
EXTENDS Kernel

\* The bytes a scrambled header leaves behind decode to an unused slot.
MCScrambled == [InUse |-> FALSE, Attributes |-> NONE, FileSize |-> 0, Filename |-> NoName]

\* The sizes and flags are such as the theorems of KernelProofs assume.
ASSUME BootAssumption == BuildFits /\ ReadsByReadWrite /\ WritesByReadWrite
=============================================================================
