------------------------------- MODULE Kernel -------------------------------
(***************************************************************************)
(* The kernel (kernel.c) as far as the file system sees it: the boot       *)
(* sequence, the restart that exit and quit cause, and the file manager    *)
(* (apps/fileman.h), the application that uses files.  The program is one  *)
(* thread: phase is the place it has reached, and what the user types is   *)
(* the only choice.                                                        *)
(*                                                                         *)
(* exit and quit jump back to the top of main: RAM, and with it every      *)
(* table and the image in myBuffer, keeps its contents.                    *)
(***************************************************************************)
EXTENDS NoOSfs

CONSTANTS
  BuildFile,      \* buildFileName, "build"
  BuildSize,      \* strlen(dynamic_build)
  BuildBufferSize,\* sizeof(build)
  BuildByte,      \* what dynamic_build consists of
  LineSize,       \* the length of the lines a user types
  Habits,         \* what this user also does: "restart", "add existing", "open missing"
  AddLimit        \* bound of the model: the free memory pointer up to which a user adds files

VARIABLES
  phase,          \* where the program is
  fd,             \* the descriptor of the file it works on
  build           \* the text that the splash screen shows

kernelVars == <<filesysVars, phase, fd, build>>

ASSUME KernelAssumption ==
  /\ BuildFile \in Filename /\ BuildByte \in Byte
  /\ BuildSize \in Nat /\ BuildBufferSize \in Nat /\ LineSize \in Nat
  /\ Habits \subseteq {"restart", "add existing", "open missing"}

\* The kernel and the file manager are callers of the library.
ASSUME CallerAssumption ==
  /\ O_RDWR \in CallerFlags
  /\ {BuildSize, BuildBufferSize, LineSize, 1} \subseteq Lengths

NoBuild == [k \in {} |-> BuildByte]

KernelInit ==
  /\ FilesysInit
  /\ phase = "format"
  /\ fd = 0
  /\ build = NoBuild

(***************************************************************************)
(* Boot.  Every step is skipped once one has failed, and the shell starts  *)
(* in any case.  A create or an open that fails leaves an invalid fd,      *)
(* which the next step fails on.                                           *)
(***************************************************************************)
Step(here, Ok, Call, there) ==
  /\ phase = here
  /\ \/ Ok /\ Call /\ phase' = there
     \/ ~ Ok /\ phase' = "shell" /\ UNCHANGED <<filesysVars, fd, build>>

\* EEFS_LibGetFileDescriptor takes the first free entry of the table.
OpenAs(Call) == Call /\ fd' = First(FreeDescriptors) /\ UNCHANGED build
OnFd(Call) == Call /\ UNCHANGED <<fd, build>>

ReadBuild ==
  /\ noosfs_read(fd, BuildBufferSize)
  /\ build' = BytesRead(fd, BuildBufferSize)
  /\ UNCHANGED fd

Boot ==
  \/ Step("format", TRUE, OnFd(noosfs_format), "init")
  \/ Step("init", InitSucceeds, OnFd(noosfs_init), "mount")
  \/ Step("mount", MountSucceeds, OnFd(noosfs_mount), "create")
  \/ Step("create", CreateSucceeds(BuildFile), OpenAs(noosfs_create(BuildFile)), "write")
  \/ Step("write", WriteSucceeds(fd), OnFd(noosfs_write(fd, BuildSize, BuildByte)), "close")
  \/ Step("close", CloseSucceeds(fd), OnFd(noosfs_close(fd)), "open")
  \/ Step("open", OpenSucceeds(BuildFile), OpenAs(noosfs_open(BuildFile)), "read")
  \/ Step("read", ReadSucceeds(fd), ReadBuild, "close again")
  \/ Step("close again", CloseSucceeds(fd), OnFd(noosfs_close(fd)), "shell")

Restart ==
  /\ phase = "shell" /\ "restart" \in Habits
  /\ phase' = "format"
  /\ UNCHANGED <<filesysVars, fd, build>>

(***************************************************************************)
(* The file manager                                                        *)
(***************************************************************************)
Command(Call, there) == phase = "shell" /\ Call /\ phase' = there

Exists(filename) == FindFile(Buffer, filename) # FILE_NOT_FOUND

\* a(dd).  The limit is not in the code, where the close of every add moves the pointer on,
\* past the device too; it keeps the states of a run finite.
Add(filename) ==
  /\ "add existing" \in Habits \/ ~ Exists(filename)
  /\ inode[Buffer].FreeMemoryPointer <= AddLimit
  /\ Command(OpenAs(noosfs_create(filename)), "edit")

Named(filename) == "open missing" \in Habits \/ Exists(filename)

RewriteByCreate(filename) ==        \* seeded bug: the file is created again
  Exists(filename) /\ Command(OpenAs(noosfs_create(filename)), "edit")

\* r(ewrite), then lines of text, then a dot
Rewrite(filename) == Named(filename) /\ Command(OpenAs(noosfs_open(filename)), "edit")
TypeLine(b) == phase = "edit" /\ OnFd(noosfs_write(fd, LineSize, b)) /\ UNCHANGED phase
EndInput == phase = "edit" /\ OnFd(noosfs_close(fd)) /\ phase' = "shell"

\* s(how): byte by byte until a read returns none
Show(filename) == Named(filename) /\ Command(OpenAs(noosfs_open(filename)), "show")
AtEnd == BytesToRead(fdTable[fd], 1) = 0
ShowByte == phase = "show" /\ ~ AtEnd /\ OnFd(noosfs_read(fd, 1)) /\ UNCHANGED phase
EndShow == phase = "show" /\ AtEnd /\ OnFd(noosfs_close(fd)) /\ phase' = "shell"

\* k(ill)
Kill(filename) == Command(OnFd(noosfs_delete(filename)), "shell")

\* l(ist)
List == Command(OnFd(noosfs_list_open), "list")
ListEntry == phase = "list" /\ OnFd(noosfs_list_entry) /\ UNCHANGED phase

ListLeftOpen ==                     \* seeded bug: the directory is not closed
  /\ phase = "list"
  /\ NoMoreEntries
  /\ phase' = "shell"
  /\ UNCHANGED <<filesysVars, fd, build>>

EndList ==
  /\ phase = "list"
  /\ NoMoreEntries
  /\ OnFd(noosfs_list_close)
  /\ phase' = "shell"

\* What the program does by itself, and what it does because of a key.
Program == Boot \/ ShowByte \/ EndShow \/ ListEntry \/ EndList
User ==
  \/ Restart
  \/ \E filename \in Filename : Add(filename) \/ Rewrite(filename) \/ Show(filename)
                                  \/ Kill(filename)
  \/ \E b \in Byte : TypeLine(b)
  \/ EndInput
  \/ List

KernelNext == Program \/ User

\* The processor goes on with the program; nobody has to type.
KernelSpec == KernelInit /\ [][KernelNext]_kernelVars /\ WF_kernelVars(Program)

(***************************************************************************)
(* Properties                                                              *)
(***************************************************************************)
\* Each place of the program holds exactly the descriptor it needs, and the prompt
\* none: no path through a failing boot, a restart or a command leaves a file or the
\* directory open.
DescriptorsOwned ==
  LET open == {d \in Descriptor : fdTable[d].InUse}
  IN  /\ open = IF phase \in {"write", "close", "read", "close again", "edit", "show"}
                THEN {fd} ELSE {}
      /\ dir.InUse <=> phase = "list"

\* The splash screen shows the text that the boot wrote into the build file, also
\* after a restart whose boot fails.
BuildShown ==
  phase \in {"shell", "edit", "show", "list"} =>
    build = [k \in 0 .. BuildSize - 1 |-> BuildByte]

BootEnds == phase \notin {"shell", "edit", "show", "list"} /\ phase' = "shell"

\* "get the file system going": whenever the boot has come to its end, the kernel's
\* mount point leads to a file system that holds the build file.
FileSystemGoing ==
  [][BootEnds => Resolve(NoOSBank) = {Buffer} /\ Exists(BuildFile)]_kernelVars

\* The boot and the commands that only print come back to the prompt.
PromptReturns == phase \notin {"shell", "edit"} ~> phase = "shell"

(***************************************************************************)
(* What the theorems assume of the sizes and of the user.                  *)
(***************************************************************************)
\* The build file fits into an empty device, and its text into the buffer it is read to.
BuildFits ==
  /\ HeaderSize < DeviceSize - FatSize
  /\ HeaderSize + BuildSize <= DeviceSize - FatSize
  /\ BuildSize <= BuildBufferSize

\* O_RDWR opens an existing file for reading and does not truncate it.
ReadsByReadWrite == FREAD \in OpenMode(O_RDWR) /\ ~ Truncates(O_RDWR)

\* It opens it for writing by EEFS_LibOpenFile's account too, and does not create it.
WritesByReadWrite == FCREAT \notin OpenMode(O_RDWR) /\ AccessMode(O_RDWR) # O_RDONLY

NeverRestarts == "restart" \notin Habits
AddsNewNames == "add existing" \notin Habits
=============================================================================
