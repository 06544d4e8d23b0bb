# Verification of NoOSv2

NoOSv2 is a small bare-metal system for 32-bit PCs: a kernel with a command loop and a few
applications, a C runtime of its own (NoOSrt), and NASA's EEPROM File System (EEFS), which
the kernel runs over an array in RAM. The same sources also build as a hosted program.

This directory holds TLA+ modules translated from that source, TLC configurations that
model-check them on small instances, and proofs, checked by TLAPS, of the properties that
matter most. Paths below are relative to the repository.

    tlc -workers 2 -config MCKernel_careful.cfg MCKernel      # model-check one run
    tlapm EefsFileApiProofs.tla                               # check one module's proofs

Contents: 1 the system, 2 the modules and how they correspond to the code, 3 the runs,
4 what is proved, 5 disagreements found, 6 limits the properties are stated around,
7 what is not modelled, 8 the plan.

## 1. The system

### 1.1 Inventory

**EEFS library** (`NoOS/src/eefs_fileapi.c`). The heart of the system. State: the EEPROM
image of each device (file allocation table, then slots, each a file header followed by
data), one RAM inode table per device, and, shared by all devices, the file descriptor
table with its two usage counters and one directory descriptor. Operations: init, init and
free of a file system, open, creat, close, read, write, lseek, remove, rename, set
attributes, open/read/close of the directory, and calls that only report (stat, fstat,
check disk, counters). Hard: a created file owns all free memory until it is closed, so RAM
and EEPROM tables differ in between; closing it takes three EEPROM writes, between which
the power can go; descriptors cache sizes and pointers of slots that change under them;
sizes are unsigned and found by subtraction; the access checks are arithmetic on flags
whose values differ between the two builds. Correct means: slots never overlap nor move,
the image can be mounted whenever a reset strikes, RAM and EEPROM agree, names are unique,
open files are not deleted or written twice, no transfer leaves its file, counters agree
with tables; and, seen from outside, it is a store of named files whose creation is atomic.

**Path layer** (`NoOS/src/eefs_filesys.c`). State: device table and volume table, two
entries each. Operations: init of a device, mount, unmount, and the file calls, each of
which resolves a path to an inode table and a name and calls the library. Hard: several
volumes may lead to one device, the tables fill up, and a volume may be unmounted while
files are open. Correct means: no ambiguous name, address or mount point; a device in use
stays reachable and is never loaded a second time; applications reach the library only in
ways the library allows for; a path splits into what it was put together from.

**NoOSfs** (`NoOS/src/NoOSfs.c`). One device over the array `myBuffer`, one mount point.
`noosfs_init` formats the array and then calls `EEFS_InitFS`; the other calls put the mount
point before a file name. Hard: init formats *before* it learns whether init is allowed.

**Kernel** (`kernel.c`). State: command buffer, control-key flag, the global descriptor
`fd`, the build text. Boot creates, writes, closes, reopens and reads the build file, each
step only if the previous one succeeded; then the command loop, which collects a line,
splits it and dispatches it; exit and quit jump back to the top of `main` with all of RAM as
it is. Correct means: every boot ends with a working file system, no path leaks a
descriptor, and what is dispatched is what was typed.

**File manager** (`apps/fileman.h`). add, rewrite, show, kill, list as sequences of
`noosfs_` calls, chosen by the user. Correct means: no command harms another file, and
commands that only print come to an end.

**malloc** (`NoOSrt/src/malloc.c`). A bump allocator: free does nothing, init forgets all
blocks. Its one user is `apps/malloctst.h`. Correct means: disjoint blocks inside the
storage, whatever sizes are asked for.

**Terminal and number formatting** (`NoOSrt/src/tty.c`). Cursor, screen, printf. Correct
means: nothing is written outside the screen, the screen shows the end of the text, a
number's digits are the number's.

**Keyboard** (`NoOSrt/src/io.c`, `inc/kbd.h`). `scan()` returns a key once per press by
comparing with the last code. The user types while programs run, so codes wait.

**Clock** (`NoOSrt/src/NoOSrt.c`). `time()` reads the clock registers until two readings
agree, at most four times, while the clock ticks. The kernel prints the difference of two
such times as the duration of a program. Correct means: a time that is returned was shown.

**Byte swapping** (`NoOS/src/eefs_swap.c`). Converts an image between byte orders; not
called anywhere. **String routines** (`NoOSrt/src/str*.c`, `mem*.c`, `atoi.c`, `ctos.c`).
**Other applications** (`apps/`: sorting, primes, memory and CMOS displays, allocator
test). **Build and boot** (`Makefile`, `start.asm`, `linker.ld`) and compiler demos.

### 1.2 How the parts interact

    user -> keyboard -> kernel -> fileman -> NoOSfs -> eefs_filesys -> eefs_fileapi -> image
                           |-> time() <- clock      |-> malloctst -> malloc
                           '-> printf -> terminal   '-> bobsort

All calls are synchronous, on one thread, without interrupts; `EEFS_LIB_LOCK` is empty in
this port. Two things run beside the program and it must keep up with them by polling: the
keyboard with its user, and the clock. Within the program, parts share state in three
places: the descriptor table and the directory descriptor serve all devices and volumes; an
open descriptor points into the inode table that a device table entry owns; and everything
in RAM outlives the restart of `main`.

### 1.3 Where it is hard

Inside the file system the interleavings that matter are not those of threads but of
*calls*: two descriptors on one file, a rename during a creation, an unmount during a
listing, a reset between two writes of one close, a boot over a half-initialised RAM. Around
it they are those of the outside world: a second that passes between two reads of a clock
register, a key that goes down while a program runs. Each is legal, each is one of very many,
and a unit test fixes one order of them. `PROJECT.json` lists these hazards line by line with
the properties that cover them.

## 2. The modules

| Module | Models | Notes |
|---|---|---|
| `EefsFileApi` | `eefs_fileapi.c`, `eefs_macros.h`, `eefs_config.h` | state, 15 calls, resets, invariants |
| `FileStore` | what the library promises | abstract: files with names and bytes, no slots |
| `EefsFileStore` | the mapping from slots to files | `INSTANCE FileStore WITH ...` |
| `EefsFilesys` | `eefs_filesys.c` | extends `EefsFileApi`: tables, paths, mounting |
| `NoOSfs` | `NoOSfs.c` | extends `EefsFilesys`: the `noosfs_` calls as operators |
| `Kernel` | boot and restart of `kernel.c`, `apps/fileman.h` | extends `NoOSfs`: a program counter `phase` and an arbitrary user |
| `CommandLine` | `io.c`, `kbd.h`, the command loop of `kernel.c` | beside a user who types |
| `Clock` | `time()` of `NoOSrt.c`, its callers in `kernel.c` | beside a clock that ticks |
| `Malloc` | `malloc.c`, `apps/malloctst.h` | |
| `Terminal` | the screen half of `tty.c` | with the cells around the screen |
| `NumberText` | the number half of `tty.c` | digit by digit |
| `PathNames` | `str*.c`, `EEFS_SplitPath`, the path buffer of `NoOSfs.c` | names as characters in buffers |
| `ImageOrder` | `eefs_swap.c` | word by word |
| `BobSort` | `apps/bobsort.h` | comparison by comparison |
| `MCEefsFileApi`, `MCEefsFileStore`, `MCEefsFilesys`, `MCKernel`, `MCCommandLine` | small instances | with the `.cfg` files of section 3 |
| `MCRuntime` | small instance of `Clock`, `Malloc`, `Terminal` | a behaviour uses one of them |
| `MCRoutines` | small instance of `NumberText`, `PathNames`, `ImageOrder`, `BobSort` | likewise |
| `EefsFileApiProofs` | the library's types, slots, tables and their inductive invariant | TLAPS |
| `EefsFileApiUseProofs` | descriptor counters and the open directory | TLAPS |
| `EefsFileApiFileProofs` | file headers, names, open descriptors and data | TLAPS |
| `EefsFileStoreProofs` | the library implements `FileStore` | TLAPS |
| `EefsFilesysProofs` | the path layer implements the library, so `FileStore`; its tables and mounts | TLAPS |
| `KernelProofs` | the boot, the descriptors of the kernel, files under the bare-metal flags | TLAPS |
| `RuntimeProofs` | the command line, the clock, the allocator, the terminal | TLAPS |
| `RoutineProofs` | names and paths, byte order, the sort, numbers | TLAPS |

Definitions keep the names of the functions and fields they model (`LibOpenFile` is
`EEFS_LibOpenFile`; `InitFS`, `Mount`, `Open` are the `EEFS_` calls). Definitions whose
comment says *seeded bug* are wrong variants of the definition they stand before; nothing
uses them. They document which mistake in the code each property would catch.

### 2.1 The library (`EefsFileApi`)

*One action is one call.* The program is single threaded, so a call cannot be interrupted
by another; only a reset can cut it. A call whose guard is false fails, and a failing call
changes nothing: the code makes its checks before its first assignment.

*The image.* `fat` is the file allocation table and `eeprom` the cells behind it. A header
takes `HeaderSize` cells, its value in the first and `Pad` in the rest; whatever overwrites
one of them turns the header into `Scrambled` for the next reader, which is how an overlap
of slots would show. Bytes written outside the device, which the code would put into the memory
beside the image, are dropped; it takes the overlap of section 5 to get there. Addresses are offsets from the device's base, so `EEFS_LibInitFS` copies
the table where the code adds the base address to each entry.

*Reset.* `Reset` is `EEFS_LibInit` with all RAM zeroed and the image kept, as on a device
with real EEPROM, which is what the library is written for. `ResetDuringClose` is a reset
after the first or the second of the three writes of closing a created file. A single write
is atomic in the model; a header torn in the middle of its own write is not modelled.

*Numbers.* Subtractions of `uint32` are `USub`, which wraps at `2 * HalfWord`; comparisons
that the code makes as signed go through `Int32`. The open flags are sets of bit positions,
so that `&` is intersection, and `(Flags & O_ACCMODE) + 1` is computed on the numbers.

*Left out.* Times, CRCs, magic numbers and printing. The branches under
`EEFS_LIB_IS_WRITE_PROTECTED`, which is `FALSE`. The length check of
`EEFS_LibIsValidFilename`: `Filename` holds valid names (`PathNames` has the others). Callers
pass a directory descriptor to `EEFS_LibReadDir` and `EEFS_LibCloseDir` only while it is open,
as all callers in the repository do.

### 2.2 What the library promises (`FileStore`, `EefsFileStore`)

`FileStore` knows devices, files, bytes and handles. It has no slot, header, allocation
table or pointer. A file keeps its identity when it is renamed. A file that is being created
is seen by all callers, but only its close makes it *durable*, and a crash leaves exactly the
durable files, with the sizes they were last closed with. Bytes reach the device as they are
written: of a file that was open for writing a crash may leave new bytes under the old size.
The abstract module says what may happen, not what must: any call may be refused.

The mapping (`EefsFileStore`): a slot's index is the identity of its file; the files of a
device are the slots of the allocation table whose header is in use, and the slot of a
creating descriptor, which only the inode table has; a file is durable if its slot is in the
allocation table; its bytes are the cells behind the header up to the greatest size that the
header or an open descriptor gives it (`VisibleSize`); handles are descriptors without their
pointers; the files a listing has returned are the used slots below the directory index.
`ImplementsFileStore` says that under this mapping every step of the library is a step of
`FileStore` or none. It relates layout, caches, sizes and the order of the three writes of a
close in one property: `StoreFileSize` left out, the table written in another order, or a
descriptor reading past its file would all show.

### 2.3 The path layer (`EefsFilesys`) and the characters of names (`PathNames`)

In `EefsFilesys` a path is a pair (mount point, file name): what `EEFS_SplitPath` makes of the
characters. The inode table inside a device table entry is named by the entry's base address;
that this is unambiguous is `TablesUnambiguous`. `Resolve` follows the code's two searches, of
the volume and of the device, first match first. A reset zeroes both tables.

`PathNames` is about that pair. `strncmp` of NoOSrt compares behind the end of strings, so two
names are equal only if what lies behind them is. The module keeps the static buffer
`tempname`, on which longer and shorter paths follow one another, and headers that begin as
`Garbage` on the stack, and follows `strcpy`, `strcat`, `strncpy`, `EEFS_SplitPath` and
`strncmp` byte by byte. `FindsByName` says that a file is found under the name it was created
with and under no other. That `strncpy` clears the rest of its field is what makes it hold.

### 2.4 The kernel (`NoOSfs`, `Kernel`)

`phase` is the place the one thread has reached. `Step` is one link of the boot's chain
`if (ret >= 0) ret = ...`: the call, or, if it cannot succeed, the shell. When a call succeeds
is written down beside it in `NoOSfs` (`InitSucceeds`, `CreateSucceeds`, ...), from the tests that
the functions make before their first assignment. The user is everything else: at the prompt any command with any name, in the editor any number of lines.
The constant `Habits` takes three things away from that user in some runs: restarting the
kernel, adding a name that exists, and opening a name that does not. A hardware reset is not
an action here: the image is in RAM, so it leads back to `KernelInit`.

### 2.5 The command line (`CommandLine`)

Two actors. The *user* presses, holds and lets go of keys; the keyboard queues their codes
(`codes`) and repeats the code of a key that is held. The *program* is the loop of `main`: one
action is one turn, with what `scan()` returns. `NextCode` is what port `0x60` shows: the
oldest code, or the last one again when none waits, which is why `scan()` must remember a
key. Actions: `Nothing`, `ControlDown`, `ControlC`, `Dispatch`, `Character`, one per branch of
the loop.

`command` is the buffer with its bytes, because the code clears only `sizeof(buff)`, the size
of a pointer, of it; `PointerSize` keeps that. `Starts`, `Split` and `Arguments` are
`process_args`. The user's side keeps, in `line` and `lines`, what was *meant*; no action of
the program reads it. `left` is what an exit leaves in the buffer: `main` starts again before
the buffer is cleared. A word of one letter stands for a name, and all of them but `Exit` are
alike to the dispatcher, which answers and clears the buffer. The user lets one key go before
the next goes down, except ctrl with c.

### 2.6 The clock (`Clock`)

`Tick` can happen between any two reads of a register; each read is a step (`ReadSec`,
`ReadMin`, `ReadHrs`, then the second reads in `SecondPass`), `TryAgain` is the `continue` and
its count. `MaxAge` bounds the seconds one attempt lasts: less than a minute, as on any
machine; without it the clock could go round a whole day between the two readings, which no
comparison could notice. `format` is register B; `ret` decodes as the code does, from BCD
whatever the format. `Answered` is what the code makes of a time of day: of a clock in BCD that time.
Around `time()` stands the kernel: the dispatcher's calls on both sides of a program and the
one at the prompt. The variables `age`, `called`, `elapsed` and `ran` measure the world and
are not read by the program.

### 2.7 Memory and screen (`Malloc`, `Terminal`)

`Malloc` keeps the pointer and the counter that the code keeps apart, the blocks handed out
and the addresses written. A size is an `int` for `malloctst` and a `size_t` for `malloc`
(`Unsigned`), so a negative argument asks for almost all of a word. `Restart` is the kernel
handing the array over again.

`Terminal` has the memory of the screen and the cells before and behind it. The actions are
the branches of `terminal_putchar`: `PutNewLine`, `PutTab`, `PutBackspace`, `PutPlain`. `Scroll`
reads the row behind the screen, which is taken to be blank (`BlankBeyond`), as the code must.
`paper`, which the program does not read, is the same text on an endless roll of paper; the screen
must show its end. `printed` bounds the characters. `Strays` names two things the code does not
handle, a tab that ends behind the last column and a backspace in the first; from then on the
properties say nothing. Text that runs on from the last cell (`RunsOn`) goes on in the first row, over
what stands there: `over` remembers it. What is written stays on the screen all the same, but the screen
no longer shows the end of the paper.

### 2.8 Routines (`NumberText`, `ImageOrder`, `BobSort`)

`NumberText`: `LastDigit` is a turn of the loop of `ltoa1`, `Subtract` and `NextPower` are the
turns of `_noosrt_ltoa2_div10`, which counts how often a power of ten (`Power`) goes into the number.
Both stop at the end of their buffers (`TextSize`). `Read` is what a reader of the digits makes of them.
A character is kept as the number added to `'0'`, so that a character that is no digit can be
seen. `ImageOrder` swaps a table header, its entries and a file header word by word, of an image in
the order of another machine or of this one (`order`); the count that bounds the loop is itself one of
the words swapped (`SwapTableHeader` before `SwapEntry`, as in the code). A word is four bytes of
`ByteValues` values, so its numbers are all that a word can hold. `BobSort` runs a bubble sort twice on
a static array, whose cells every run fills first.

## 3. The runs

| Run | Configuration | Shows | Distinct states |
|---|---|---|---|
| `hosted` | `MCEefsFileApi_hosted.cfg` | the library's invariants with the flags of `<fcntl.h>` | about 119,000 |
| `file_store` | `MCEefsFileStore.cfg` | the library implements `FileStore` | about 72,000 |
| `filesys` | `MCEefsFilesys.cfg` | the path layer's invariants; it implements the library's `Spec` | about 35,000 |
| `careful` | `MCKernel_careful.cfg` | with the bare-metal flags, a careful user loses nothing | about 33,000 |
| `restart` | `MCKernel_restart.cfg` | any user: no descriptor leaks, the prompt returns | about 381,000 |
| `command_line` | `MCCommandLine.cfg` | what is dispatched is what was typed, and it is dispatched | about 189,000 |
| `runtime` | `MCRuntime.cfg` | clock, allocator and screen | about 2,217,000 |
| `routines` | `MCRoutines.cfg` | numbers, names, byte order, sort | about 54,000 |
| `baremetal_creat`, `baremetal_open` | `MCEefsFileApi_` and the run's name | violations, section 5 | |
| `overlap`, `reboot` | `MCKernel_` and the run's name | violations, section 5 | |

**hosted.** Any sequence of all library calls by any number of callers, and resets, over one
device with two slots, two descriptors and two names. Two of each is enough for every
pairing the code compares: two descriptors of one file or of two files, a creation beside an
open file, a rename onto a taken name, a full table, a full descriptor table. Twelve cells are
chosen so that a first file can take a slot that leaves less than the second asks for, which
is where the cap of `EEFS_LibClose` works. One length (4) writes more than is left, exactly
what is left or less, according to the offset; the offsets of lseek are before the start, the
start and the largest integer. `Scrambled` is one fixed header, because with these flags no
header is ever scrambled (`MountableImage` says so); a header that decodes to something else
would change what happens after an invariant has failed, not before.

**file_store.** The same calls with two of the flags, one length and one offset, since the
mapping makes every state expensive; the sizes still let the second file take what the first
leaves. The flags are one that reads and writes and one that creates; creat adds truncation.

**filesys.** Two devices, names and mount points, tables of two entries as in the code, so
every pairing of the tables occurs, two mount points of one device included. One file per
device with no data: what happens inside a file is the question of `hosted`, and the
PROPERTY `Spec` shows that what holds of the library alone holds here. The refinement mapping is
the identity on the library's variables. Its content is the one place where `Spec` has a
guard that the library does not test and relies on its caller for: `EEFS_LibInitFS` is applied
to a table not in use. `EEFS_InitFS` owes that to the uniqueness check of the device table.

**careful, restart.** One device and one mount point as in the code. `careful` has the build
file and two files of the user; its table of three is full then. In `restart` free memory is
recounted wrongly by the defect of section 5, so the state space would be infinite. `AddLimit` bounds
it: the user adds no file once the free memory pointer has passed it, which in the runs is once it has
left the device. `fileman.h:111` has no such check. The theorems hold for every limit. There is no
symmetry in `restart`, since it checks liveness.

**command_line.** Two letters, one of them the name of exit, and besides them c, space, enter,
ctrl and a key without a character. Lines of three characters suffice for two arguments with a
space between them, and so for more arguments than `MAX_ARGS`. The buffer has room for a line
behind what exit leaves, and the pointer one byte, so that most of the buffer is *not* cleared.
Three codes in the keyboard let a line and the beginning of the next wait while the program
does nothing.

**runtime.** The three parts share no state, so a behaviour uses one of them; that one run
checks all saves a copy of the shared bounds, nothing else. Clock: a day of 72 seconds in
minutes, hours and halves, so that every carry occurs, midnight too, from every time of day;
two seconds may pass in an attempt, more than a comparison must notice. A minute of 18 makes
seconds of two BCD digits, and seconds that a clock in binary shows as a number that reads as
another in BCD. The time is shown at any time of day; programs are started in the last second of
an hour (`AtAnHoursEnd`), that before midnight among them. Allocator: an array of 8 in words of 6 bits, and sizes around 0, 8,
the limit of `malloctst` and the ends of `int`. Screen: two rows of six, nine characters of
every kind, enough to scroll twice and to wrap.

**routines.** Ints of 9 bits, the least among them; longs of up to four digits around every
limit, negative ones included, in a buffer that just holds them; names of all lengths around the sizes of the field and of the
path, with and without slashes, in any order of create, open and delete; images of both orders with up to
three files in bytes of 16 values, so that every byte of a word is used; two runs of `bobsort` with sizes
around 0, 1 and the size of the array.

**Properties.** For each, the hazard it is about:

- `SlotsDisjoint`, `SlotsFixed`: the layout of the device, through the phase in which a new file
  owns all free memory, and through resets.
- `EepromMatchesRam`: the tables differ by exactly the file being created.
- `MountableImage`: at every instant the EEPROM alone describes a consistent file system.
- `ImplementsFileStore`: section 2.2.
- `UniqueNames`: a name can be taken by creat, open and rename, also during a creation.
- `OpenFilesProtected`: remove, close and creat against descriptors that are open already.
- `DescriptorsInBounds`: cached sizes and pointers against the slot that close shrinks.
- `StatsAgree`: stat and fstat read one header through two pointers.
- `DescriptorAccounting`, `DirectoryInBounds`: the shared tables.
- `DataChangesByItsWriter`: nobody but a writer of a file changes its bytes.
- `TableInv`: the inductive invariant of section 4, checked before it was proved.
- `TablesUnambiguous`, `OnlyRegisteredInUse`, `OpenFilesMounted`: section 1.1, path layer.
- `DescriptorsOwned`, `BuildShown`, `FileSystemGoing`, `PromptReturns`: section 1.1, kernel.
- `DispatchesWhatWasTyped`: late, repeated and chorded codes, a buffer that is cleared in part,
  what exit leaves behind.
- `ArgumentsAreTheLine`: arguments cut in place, bytes of earlier lines behind them, more words than
  `MAX_ARGS`.
- `BufferHolds`: the last byte of the buffer, behind what exit left.
- `LinesAreAnswered`: a key that is forgotten, or taken for one still held.
- `AnswersAreTrue`, `EveryCallReturns`: seconds that pass between two reads, four times over, and the format
  that is not looked at.
- `DurationIsElapsed`: two such calls around a program, across midnight.
- `BlocksDisjoint`, `WritesInBlocks`: negative sizes, the last byte, a restart.
- `WritesOnScreen`: wraps, the one in the last cell included, tabs, backspaces and scrolls in any order.
- `ScreenShowsTheEnd`: the row that a scroll brings up from behind the screen.
- `PrintsTheInt`, `PowersKeepTheNumber`: the two ways a number is written, to the least int and the digit
  that the terminator takes.
- `FindsByName`: what lies behind the end of a name.
- `ReadsAsMeant`: a loop bound that is swapped before the loop, in both directions.
- `SortedAtTheEnd`: the last pair of a pass, sizes below two and the size of the whole array.
- The properties of the runs with a violation: section 5.

**Fairness.** `KernelSpec` has `WF(Program)`, where `Program` is what the processor does
without waiting for a key (boot steps, listing, showing); `CommandSpec` has `WF(Loop)`, since
the loop polls for ever; `ClockSpec` has `WF(Cpu)`, the steps of `time()`. All three say the
same: the processor does not stop between two instructions, and there is no other thread that
could take its place. Nothing is assumed of the user, of the clock or of a program that the
user has started: in the editor the kernel may wait for ever, so `PromptReturns` does not speak
of it, and `EveryCallReturns` speaks of the calls of `time()` alone.

**Deadlock** is checked in every run but `runtime` and `routines`: printing stops after
`MaxOutput` characters there, and a routine that has computed its result is done.

## 4. What is proved

For all values of the constants that satisfy the named assumptions, that is for any number
of devices, names, files and descriptors, any sizes and any inputs:

| Theorem | Statement | Assumes |
|---|---|---|
| `TypeCorrect` | `Spec => []TypeOK` | sizes, inputs |
| `TablesAgree` | `Spec => []TableInv` | and `FlagsSeparateCreat` |
| `EepromAgrees` | `Spec => []EepromMatchesRam` | same |
| `SlotsNeverOverlap` | `Spec => []SlotsDisjoint` | same |
| `SlotsStayFixed` | `Spec => SlotsFixed` | same |
| `FilesStayIntact` | `Spec => []FileInv` | and `FlagsSeparateWriters` |
| `ImageStaysMountable` | `Spec => []MountableImage` | same |
| `NamesStayUnique` | `Spec => []UniqueNames` | same |
| `OpenFilesAreProtected` | `Spec => []OpenFilesProtected` | same |
| `DescriptorsStayInBounds` | `Spec => []DescriptorsInBounds` | same |
| `StatsAlwaysAgree` | `Spec => []StatsAgree` | same |
| `DataChangesOnlyByItsWriter` | `Spec => DataChangesByItsWriter` | same |
| `LibraryImplementsStore` | `Spec => ImplementsFileStore` | and `FlagsTruncateToWrite` |
| `DescriptorsAreCounted` | `Spec => []DescriptorAccounting` | sizes, inputs |
| `DirectoryStaysInBounds` | `Spec => []DirectoryInBounds` | same |
| `PathsImplementLibrary` | `FilesysSpec => Spec` | sizes, inputs, tables |
| `TablesTypeCorrect` | `FilesysSpec => []TablesTypeOK` | same |
| `UsedTablesRegistered` | `FilesysSpec => []OnlyRegisteredInUse` | same |
| `NamesUnambiguous` | `FilesysSpec => []TablesUnambiguous` | same |
| `OpenFilesStayMounted` | `FilesysSpec => []OpenFilesMounted` | same |
| `PathsKeepSlots` | `FilesysSpec => []SlotsDisjoint /\ SlotsFixed` | and `FlagsSeparateCreat` |
| `PathsKeepFiles` | the properties of `FilesStayIntact` to `DataChangesOnlyByItsWriter` from `FilesysSpec` | and `FlagsSeparateWriters` |
| `PathsImplementStore` | `FilesysSpec => ImplementsFileStore` | and `FlagsTruncateToWrite` |
| `PromptGetsNearer` | `KernelSpec => [][GetsNearer]_kernelVars` | sizes, inputs, tables, kernel |
| `DescriptorsStayOwned` | `KernelSpec => []DescriptorsOwned` | and `BuildFits`, `ReadsByReadWrite` |
| `BuildStaysShown` | `KernelSpec => []BuildShown` | same |
| `BootGetsGoing` | `KernelSpec => FileSystemGoing` | and `NeverRestarts` |
| `KernelImplementsFilesys` | `KernelSpec => FilesysSpec` | same |
| `KernelKeepsFilesApart` | `KernelSpec => []SlotsDisjoint` | and `AddsNewNames`, `WritesByReadWrite` |
| `KernelKeepsFilesIntact` | `KernelSpec =>` names unique, open files protected, descriptors in bounds, image mountable, stats agree | same |
| `LinesAreAsTyped` | `CommandSpec => DispatchesWhatWasTyped` | `CommandAssumption` and `LinesFit` |
| `LinesStayInBuffer` | `CommandSpec => []BufferHolds` | same |
| `ArgumentsAreSplit` | `CommandSpec => []ArgumentsAreTheLine` | same |
| `TimesWereShown` | `ClockSpec => []AnswersAreTrue` | `ClockAssumption` |
| `DurationsAreElapsed` | `ClockSpec => DurationIsElapsed` | same |
| `CallsAreBounded` | `ClockSpec => []ReadsBounded /\ CallsGetOn` | same |
| `PointerAndCounterAgree` | `MallocSpec => []FreeIsTheRest` | `MallocAssumption` |
| `BlocksNeverOverlap` | `MallocSpec => []BlocksDisjoint` | same |
| `ProgramsStayInTheirBlocks` | `MallocSpec => []WritesInBlocks` | same |
| `CursorStaysOnScreen` | `TerminalSpec => []CursorOnScreen` | `TerminalAssumption` |
| `TerminalWritesOnScreen` | `TerminalSpec => []WritesOnScreen` | same |
| `ScreenAlwaysShowsTheEnd` | `TerminalSpec => []ScreenShowsTheEnd` | same, `CharAssumption` and `BlankBeyond` |
| `FilesAreFoundByName` | `NamesSpec => []FindsByName` | `PathAssumption` |
| `ImagesReadAsMeant` | `ImageSpec => []ReadsAsMeant` | `ImageAssumption` |
| `ArraysAreSorted` | `SortSpec => []SortedAtTheEnd` | `SortAssumption` |
| `IntsArePrinted` | `NumberSpec => []PrintsTheInt` | `NumberAssumption` |
| `LongsAreTakenApart` | `NumberSpec => []PowersKeepTheNumber` | same |

`SizesAssumption`: counts are positive, the allocation table fits in the device, the device is
below 2^31 bytes. `InputsAssumption`: `NULL` is no table, flags and lengths are naturals.
`FlagsSeparateCreat`: no open of an existing file by the callers' flags yields a descriptor
marked as creating. That is the assumption `<fcntl.h>` satisfies (for flags without access
mode 3) and `NoOSrt.h` does not; the first violation of section 5 that follows from it is
`overlap`. TLC evaluates it for `hosted`. `FlagsSeparateWriters`: every open is for something, and
the opens that can write are the ones that `EEFS_LibOpenFile` takes for writers when it compares
the access mode. `FlagsTruncateToWrite`: only an open that can write truncates. These two hold in
both builds, and TLC evaluates them in the runs of `MCEefsFileApi`, together with the first in
`MCEefsFileStore`. The kernel: `CallerAssumption` says that what the kernel passes to the library is
among the flags and lengths of callers. `BuildFits`: the build file fits into the empty device and
its text into the buffer it is read to. `ReadsByReadWrite`, `WritesByReadWrite`: `O_RDWR` opens an
existing file for reading and writing and neither truncates nor creates it. That holds of the
bare-metal flags, for which `FlagsSeparateCreat` does not hold; TLC evaluates it, and `BuildFits`, in the
runs of `MCKernel`. `NeverRestarts` and `AddsNewNames` are about the user (`Habits`).
`MallocAssumption`: the array ends below the top of
the address space and sizes are ints. `TerminalAssumption`: at least two columns and one row.
`CharAssumption`: no shown character is one of those that `terminal_putchar` acts upon; `BlankBeyond`: the
row behind the screen, which the scroll brings up, is blank (evaluated in `MCRuntime`).
`CommandAssumption`: letters are no special keys and memset clears at least one byte; `LinesFit`: a
line, its terminator and what exit leaves fit the buffer (evaluated in `MCCommandLine`).
`ClockAssumption`: an attempt to read the time lasts less than a minute, seconds are counted for at
most a day, and 9999999 is no time of day. `PathAssumption`: names and the mount point hold no
terminator and a path fits its buffer. `ImageAssumption`: the number of files fits into one byte (64 in
256) and a number into the four bytes of its word. `SortAssumption`: sizes are ints. `NumberAssumption`: the
buffers hold the digits of every int (10 in one of 32) and one more than the powers of ten of div10
(19), no long has more, and a long of one digit is left to `ltoa1`.

**TypeOK** is more than types: it says that no size, offset or count goes below zero, so it
covers every subtraction in close and lseek. It is inductive as it stands.

**SlotsDisjoint** is not inductive. A state may satisfy it in which two descriptors are
creating: both slots would be cut from the same free memory. `TableInv` adds what the code
relies on without saying so:

- `FatTiled`: the table's slots tile the device up to the free memory pointer, and free
  memory is all the rest;
- `InodeFollowsFat`: a loaded table has the same free memory and slots, and one slot more only
  during a creation;
- `CreatorOwnsFreeMemory`: at most one descriptor creates; its slot is the next one and is all
  free memory;
- `UnloadedIsZero`: a table that is not loaded is empty and nothing is created through it.

The proof goes action by action. The heart is `EEFS_LibClose` of a created file, proved for
`k` of its table updates (`k` is 2 for a complete close and 0 or 1 for one cut by a reset): the new
slot is capped by the memory that `CreatorOwnsFreeMemory` says is free, so the tiles extend
to the new free memory pointer; with `k` of 0 or 1 the number of files has not moved yet, so
the entry already written lies beyond the table. `SlotsStayFixed` follows from the same
lemmas, because only close writes the table.

**The files.** None of `MountableImage`, `UniqueNames`, `OpenFilesProtected`, `DescriptorsInBounds`
and `DataChangesByItsWriter` is inductive alone: that a write stays out of headers needs the
descriptor to lie in its slot, that it does so after a close needs the slot close cuts to be long
enough for everybody who has it open, and that in turn needs to be known of who wrote.
`FileInv` says all of it at once, of the table that callers see (`Live`: the inode table when it
is loaded, else the allocation table): every slot has a header that nothing has scrambled and whose
size fits the slot; names in use differ; every descriptor points at a slot of its table and lies
within it; of two descriptors on one file at most one can write; and whoever reads a file that is
still being created has seen it with size 0, since its header says so until close. The last part is
what saves readers from the cut. TLC checked `FileInv` on `hosted` before it was proved. The proof
again goes by action; a write changes cells behind one slot's header only, so no header anywhere
changes (the slots are disjoint by `TableInv`), and a change of a header touches no other slot.

**The abstract store.** `LibraryImplementsStore` is the refinement of section 2.2 with nothing
left out: initial states to initial states, every call and both resets to an action of `FileStore`
or a stutter. `StoreInv` joins the invariants above and adds that what is not in use is all zero
(`UnusedIsZero`), as the code's `memset` leaves it and the abstract handles need it. The steps fall
into few kinds, each with one lemma: those that change one header's name or attributes
(`HeaderChange`), the three closes (`CloseView`), the creations (`CreatView`), the two resets
(`ResetKeepsFat`: a crash leaves what the allocation table lists). That a file's bytes stay what
they were when another call writes a header holds because headers lie outside all slots' data;
that a close does not lose bytes somebody can see, because sizes are those of `FileInv`.

**Counters and directory.** Neither needs an assumption on the flags, so both hold for the
bare-metal build too. The counters agree with the table because every call that takes a
descriptor takes one that was free, and every call that frees one frees one that was in use; then
the count is at least one and its decrement does not wrap. For the directory `UseInv` adds that
a table that is not loaded is empty and has no file open on it (`OpenIsLoaded`). Loading such a
table can then only add slots, and a table that is being read is not freed.

**The path layer.** `FilesysInv` joins the library's types, the tables' types, "an entry in use
has an inode table" and `OnlyRegisteredInUse`. The only step that is not a step of the library
on its face is `InitFS`, because `Spec` loads only a table that is not in use; `FilesysInv` gives
that, since a table in use is registered and the uniqueness check refuses its address. That
every other call keeps the invariant is one lemma, `LibraryCallUses`: after a call, what is in
use was in use before or is what a mount point leads to. `OpenFilesMounted` uses the same lemma
and needs `TablesUnambiguous`: unmounting clears the first volume at a mount point, and were there
a second one, the path would silently lead elsewhere. From `PathsImplementLibrary` the theorems
carry over to any number of devices, volumes and paths: those about slots (`PathsKeepSlots`), those
about files (`PathsKeepFiles`) and the abstract store (`PathsImplementStore`), so an application that
works with paths has the guarantees of a store of files.
`TablesAssumption`, used here: the tables have at least one entry, and the empty name is neither
a device name nor a mount point. TLC evaluates it in the runs of `MCEefsFilesys` and `MCKernel`.

**The kernel.** That no descriptor leaks through a failing boot is not a matter of the descriptor
table alone: between its create and its close the boot would leak the build file if a write or a
read in between could fail, because it goes on to the shell without closing. So `BootInv` follows the
contents. It says at each place what the boot has achieved: the device configured, the volume mounted,
the build file stored with size 0, its text behind the header, its size in the header, and so on to
the text read back. From it every step's success follows, one lemma per step (`InitStep` to
`CloseBuildAgain`). After a restart `phase` runs through "format" and "init" again with the device
still configured; there `EEFS_InitFS` must fail (`InitStep`), and it fails before anything is open.
From then on the text of the first boot is shown. The mount point never leads elsewhere again
(`Booted`), since no command touches the two tables.

`StepsLeft` counts the steps before the prompt: those of the boot, the bytes of the file that is
shown, the entries of the list. Each step of the program takes at least one away (`GetsNearer`). The
bytes that are left are an unsigned difference of 32 bits, so when an offset lies behind the end of a
file there are up to 2^32 of them; the count still goes down by one (`OneLess`) and never goes round.
No assumption on flags, files or habits is needed.

Every step of the kernel is one of the path layer, but for `noosfs_format`; without restarts it
formats a buffer that is already as formatted (`FormatAgain`), so `KernelSpec` implements
`FilesysSpec`. That alone does not carry `SlotsDisjoint` over, because with the flags of the bare-metal build
the path layer does not have it (`overlap`). `CarefulCall` lists what is left of the library
under a user who adds new names only: `EEFS_LibCreat` of names that are not there, and opens with
`O_RDWR`. Those calls preserve `TableInv` and `FileInv` by the lemmas that were proved for the
library, which ask for good flags only where flags are used.

**The allocator.** `MallocInv` adds to the properties that the pointer and the counter describe one
place (`FreeIsTheRest`) and that every block lies below the pointer. A block is as long as the
unsigned size says, and `malloctst` fills it by the int; `FilledAreCounted` shows that the ints it
accepts are never more than their unsigned value.

**The terminal.** `TerminalInv` is the cursor's bound with the property: as long as nothing has
strayed, the column is on the screen, so the cell of the cursor is too. A backspace clears the cell
before the cursor as well, which is on the screen because its column is not the first.
`ScreenShowsTheEnd` says where the rows of the screen are on the paper, but not what is below the
cursor's row there, and a scroll brings that row up. `PaperInv` adds that the cursor is in the same
column of both (`SameCursor`) and that nothing stands below it on the paper (`NothingBelow`), so the
blank row from behind the screen is what belongs there (`NewLineShown`). That a character changes one
place only is a fact about the index of a cell (`PlacesHaveOwnCells`), which holds in the columns of
the screen and not beyond them.

**The command line.** The user types on while the program is busy, so the invariant must speak of
codes that nobody has read. `CommandInv` says that there is a sequence of states of the loop
(`Chain`), one for every code that waits: the first is the loop as it is, each is what one turn of
the loop makes of the one before (`After`), no turn dispatches anything but the line that was meant
(`Answers`), and the last is where the user takes the loop to be (`Awaits`): it remembers the key that
is held, its buffer holds the line typed so far behind what exit has left. A turn of the loop drops
the first state; a key that goes down adds one at the end and, for Enter, one line to all. Two lemmas
about the buffer carry the rest: a buffer of which only some bytes were cleared holds the empty
string (`ClearedHolds`), and what `process_args` leaves after exit is its name alone (`ExitSplits`).
`ArgumentsAreSplit` needs of `CommandInv` only that the buffer holds a string. The starts are ordered
by how many are smaller (`Rank`): the next one has the next rank, and every rank has its start
(`RankHas`). From a start to the first space behind it the split buffer is the line, and a terminator
follows (`SplitAt`), so an argument ends there and the next start lies one behind (`NextStart`).

**The clock.** `Began` is the time at which the attempt began. `ReadsInv` says what has been read so
far: the seconds are those of `Began`, the minutes and hours too if the clock has not gone on. When the
second reading of the seconds agrees with the first, the attempt lasted less than a minute, so the
clock has *not* gone on across a minute (`SecondsTell`), which confirms the other registers.
`CountInv` says that every attempt that failed took a second, so four failures took four. For
`DurationsAreElapsed`, `DurationInv` ties the time taken at the start to the seconds that passed since;
it needs the answers of both calls (`Answer`), and division by the length of the day for midnight.
A clock in binary tells its seconds apart as well as one in BCD, so all but the duration holds of it;
that its misread time is no 9999999 is because no number is decoded as a greater one (`NoLaterAnswer`).
`ReadsLeft` counts the reads before the end of a call, six for every attempt. A tick of the clock
leaves the count and a read takes one away, so a call makes at most 24 (`CallsAreBounded`).

**Names.** `NamesInv` says that every header holds its name and nothing but terminators behind it
(`NameField`). That is what `strncpy` makes of any garbage, and fields of different names differ
(`FieldsTell`), so `strncmp`, which goes on behind the terminators, tells names apart. The path is put
together in a buffer with an older path in it: `strlen` finds the new terminator and no older one
(`StringHeld`), and the split finds the slash behind the mount point (`SlashBehindMount`).

**Images.** `ImageInv` follows the order of the loop: entries up to `entry` are swapped, the others are
as stored. `Turns` is the count as it reads once it is swapped. In an image of the other order it is
the number of files (`SwappedReads`); in one of this machine's own the low byte has become the high one, so
it is 0 or greater than any table (`TurnsOfTheLoop`). The loop therefore ends in the table exactly
with the images of the other order and those without a file.

**The sort.** `InPass(p)` says where every number stands in pass `p` over numbers that came in
descending order, how many swaps were made, and how far the largest of the rest has been carried.

**Numbers.** `Power` and `Read` are recursive functions, and the library's theorems about these take
the recursion as an operator, which the provers cannot instantiate. What is needed of induction is
stated about sets instead: a set with 0, and with `n + 1` for every `n` in it, has all naturals
(`AllNaturals`, from the least of those it lacks). With it the functions are shown to exist
(`PowersExist`, `ReadsExist`) and to agree as far as both go (`PowersAgree`), from which follow the
equations that the proofs use: one more factor (`PowerOf`), a digit behind others (`ReadAppended`), a
digit before them (`ReadPrepended`). `NumberInv` says that nothing is lost on the way. In `ltoa1`
(`IntInv`) what is left, times the power of the digits written, plus what they read as, is the
magnitude of the int; so when the buffer would end too soon the int would be no int (`IntsFit`). The
least int stays negative with all its remainders; since C rounds towards 0 its quotients and remainders
are the negatives of those of its magnitude (`DivisionOfNegative`), so the same holds of the negatives
(`Remaining`, `numeral`). In
`div10` (`LongInv`) the digits, with the one being counted, times the power, plus what is left, are the
number, and what the greater powers have left is less than ten times this one, so no digit
reaches ten (`DigitBound`). The last of the digits goes to the terminator (`CutKeepsTheRest`).

Only model-checked are `PromptReturns`, `LinesAreAnswered` and `EveryCallReturns`. They are liveness
under fairness, out of the prover's reach. Of the first and the last the half that is safety is proved
(`PromptGetsNearer`, `CallsAreBounded`): every step counts down. That a step is enabled, and that
fairness therefore takes it, is what TLC checks.

## 5. Where code and words disagree

All four concern the bare-metal build or the restart.

1. `baremetal_creat`, `CreatTruncates`. `NoOSrt.h` numbers the flags so that `O_WRONLY | O_TRUNC`
   is 6, all of `O_ACCMODE`, which is no access mode. `EEFS_LibCreat` of an existing file does not
   truncate it, against the comment at `eefs_fileapi.c:198`.
2. `baremetal_open`, `OpenNeedsFile`. `O_CREAT` shares bits with `O_RDONLY` and `O_RDWR`, so opening
   a missing file creates it instead of returning `EEFS_FILE_NOT_FOUND`.
3. `overlap`, `SlotsDisjoint`. For the same flags `(Flags & O_ACCMODE) + 1` is 7, which includes
   `EEFS_FCREAT`. Adding an existing name with the file manager and closing it takes memory and
   a slot as for a new file, at the old place, over the neighbour's header.
4. `reboot`, `FileSystemGoing`. After exit or quit, `noosfs_init` clears the image and only then is
   refused by `EEFS_InitFS`. The inode table still lists the old files, whose headers are gone;
   the rest of the boot is skipped and the shell starts.

`careful` shows the other side: for a user who avoids these three habits all the properties of that run hold.

## 6. Limits the properties are stated around

While modelling, the code was seen to do the following. The properties above leave it out by a named
condition or by the choice of inputs, or say what comes of it, as the last column tells. But for the
line `*` and for `ctos`, the actions do what the code does, and lifting the condition shows it.

| Where | What the code does | How the properties treat it |
|---|---|---|
| `eefs_fileapi.c:269` | the hosted access mode 3 makes a mode with `EEFS_FCREAT`, as in `overlap` | `HostedFlags` has no 3 |
| `kernel.c:292` | after ctrl alone, the next c clears the line | the user presses ctrl only for c |
| `kernel.c:317` | exit leaves its name in the buffer, before the next line | `left` in `DispatchesWhatWasTyped` |
| `kernel.c:330` | a line `*` finds the last entry of the command table and calls `NULL` | no line has that name |
| `kernel.c:334` | a program that runs over midnight takes a negative time; a call that gave up counts as 9999999 | `DurationIsElapsed` holds modulo a day, for calls that answer |
| `NoOSrt.c:89` | the 24-hour bit is tested and not the one for binary registers, which are decoded as BCD | `Answered` says what comes out; `DurationIsElapsed` is about BCD |
| `tty.c:79`, `82` | a tab that ends behind the last column and a backspace in the first take the cursor off the columns | `Strays` |
| `tty.c:90` | text that runs on from the last cell overwrites the first row | `over`, in `ScreenShowsTheEnd` only |
| `tty.c:124` | the least int cannot be negated (C leaves the product open; with the flags of the Makefile it wraps); its digits come out as characters before `'0'` | `numeral` in `PrintsTheInt` says which |
| `tty.c:253` | the last digit of every long over `0x7ffffff` is overwritten by the terminator | `PowersKeepTheNumber` says that the number is printed without it |
| `eefs_swap.c:122` | behind the table, the loop goes on up to a count that has become huge | `ReadsAsMeant` says when (`overrun`); `ImageOrder` ends at the first turn behind the table |
| `eefs_fileapi.c:442`, `537` | once slots overlap (`overlap`), headers and data may be written behind the device | `WriteHeader`, `WriteData` drop those bytes |
| `NoOSfs.c:103` | a path is put into `tempname[128]` without a bound, while `fileman.h:96` passes on names of up to 254 characters | `PathAssumption`: a path fits |
| `fileman.h:111` | the user may go on adding files when the free memory pointer has left the device | `AddLimit` |
| `io.c:23` | with two keys down at once, the break code of one lets the other count again | one key at a time |
| `kernel.c:355` | `ctos` stores through a pointer that was never set | the character is taken to arrive |

## 7. What is not modelled

| Part | Why |
|---|---|
| check disk and the counter getters of EEFS | they change no state and print what the invariants speak of |
| the format string of `printf`, colours, `move_cursor` | wording and layout; no state of the system depends on them |
| `atoi`, `strutil`, `memcpy`, `memset`, `ctos` | loops over their arguments; programs take what `atoi` returns from a set |
| `noosrt_ticks` | reads the cycle counter; nothing calls it |
| showmem, showcmos, primes, the show- commands of the kernel | they print what they read or compute and keep nothing |
| `start.asm`, linker script, `Makefile`, demos | no logic a state machine would explain |
| torn writes of a single header, bit errors, CRC | the library does not check CRCs itself |

## 8. Plan

Every invariant, action property and refinement that the passing runs check is stated by a theorem of
section 4; the three liveness properties are not. What a later version could add:

1. Two keys held at once, of which `scan()` remembers one (`io.c:23`).
2. The format string of `printf`, which decides which conversion sees which argument.
