---------------------------- MODULE MCCommandLine ----------------------------
(***************************************************************************)
(* Small instances of CommandLine.  The constants are plain values.        *)
(***************************************************************************)
EXTENDS CommandLine

ASSUME BufferAssumption == LinesFit
=============================================================================
