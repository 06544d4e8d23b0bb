------------------------------ MODULE FileStore ------------------------------
(***************************************************************************)
(* What the EEFS library promises the code that calls it, with no slots,   *)
(* headers, allocation tables or pointers: every device holds files, a     *)
(* file has a name, attributes, a size and bytes, and callers work on      *)
(* files through handles.                                                  *)
(*                                                                         *)
(* A file is known by an identity that it keeps when it is renamed.  A     *)
(* file that is being created is seen by everybody, but only its close     *)
(* makes it durable, that is, part of what a reset leaves.  Bytes go to    *)
(* the device as they are written; the size of a file follows when the     *)
(* writing handle is closed.                                               *)
(*                                                                         *)
(* The module says what may happen, not what must: a call may be refused   *)
(* for lack of memory, slots or handles.                                   *)
(***************************************************************************)
EXTENDS Integers

CONSTANTS
  Device, Filename, Byte,
  FileId,         \* identities of files
  Handle,         \* what callers hold while a file is open
  Attribute,      \* file attributes
  ReadOnly,       \* the attribute that forbids writing, removing and renaming
  Nowhere         \* the device of a handle or a listing that is not in use

VARIABLES
  mounted,        \* the devices that are loaded
  file,           \* [Device -> [some FileIds -> name, attributes, size, durable]]
  bytes,          \* [Device -> [the same FileIds -> contents]]
  handle,         \* [Handle -> what it is open for, or Closed]
  listing         \* the directory being read: a device and the files returned

storeVars == <<mounted, file, bytes, handle, listing>>

Closed == [device |-> Nowhere, id |-> 0, offset |-> 0, size |-> 0,
           reads |-> FALSE, writes |-> FALSE, creates |-> FALSE]
NoListing == [device |-> Nowhere, returned |-> {}]

\* Functions with fewer or more arguments.
Only(f, S) == [x \in DOMAIN f \cap S |-> f[x]]
Plus(f, x, y) == [z \in DOMAIN f \cup {x} |-> IF z = x THEN y ELSE f[z]]

StoreInit ==
  /\ mounted = {}
  /\ file = [v \in Device |-> Only([id \in FileId |-> 0], {})]
  /\ bytes = file
  /\ handle = [h \in Handle |-> Closed]
  /\ listing = NoListing

IsOpen(h) == handle[h].device \in Device
OpenOnFile(v, id) == {h \in Handle : handle[h].device = v /\ handle[h].id = id}
Named(v, n) == {id \in DOMAIN file[v] : file[v][id].name = n}

(***************************************************************************)
(* Contents.  The bytes of a file are those up to its size or, while it is *)
(* open, the greatest size that a handle sees.  The step `write' changes   *)
(* bytes of one file only; otherwise a byte is what it was.                *)
(***************************************************************************)
Extent(v, id) ==
  LET sizes == {file[v][id].size} \cup {handle[h].size : h \in OpenOnFile(v, id)}
  IN  CHOOSE s \in sizes : \A t \in sizes : t <= s

\* bytes after a step that gives byte b to the offsets `range' of file `id' of v.
BytesAfter(v, id, range, b) ==
  bytes' = [w \in Device |->
    LET old == bytes[w]
    IN  [i \in DOMAIN file'[w] |->
           LET was == old[i]
           IN  [k \in 0 .. Extent(w, i)' - 1 |->
                  IF w = v /\ i = id /\ k \in range THEN b ELSE was[k]]]]

SameBytes == BytesAfter(Nowhere, 0, {}, 0)

(***************************************************************************)
(* Devices                                                                 *)
(***************************************************************************)
Load(v) ==
  /\ v \notin mounted
  /\ mounted' = mounted \cup {v}
  /\ UNCHANGED <<handle, listing, file, bytes>>

Unload(v) ==
  /\ v \in mounted
  /\ \A h \in Handle : handle[h].device # v
  /\ listing.device # v
  /\ mounted' = mounted \ {v}
  /\ UNCHANGED <<handle, listing, file, bytes>>

\* Of every device the durable files remain, with the sizes they were closed with.
Crash ==
  /\ mounted' = {}
  /\ handle' = [h \in Handle |-> Closed]
  /\ listing' = NoListing
  /\ file' = [v \in Device |->
                Only(file[v], {id \in DOMAIN file[v] : file[v][id].durable})]
  /\ SameBytes

(***************************************************************************)
(* Handles                                                                 *)
(***************************************************************************)
OpenFile(v, n, h) ==
  /\ v \in mounted /\ ~ IsOpen(h)
  /\ UNCHANGED <<mounted, listing, file>>
  /\ \E id \in Named(v, n), reads, writes \in BOOLEAN : \E size \in {0, file[v][id].size} :
       /\ reads \/ writes
       /\ writes => /\ file[v][id].attributes # ReadOnly
                    /\ \A g \in OpenOnFile(v, id) : ~ handle[g].writes
       /\ ~ writes => size = file[v][id].size
       /\ handle' = [handle EXCEPT ![h] =
            [device |-> v, id |-> id, offset |-> 0, size |-> size,
             reads |-> reads, writes |-> writes, creates |-> FALSE]]
  /\ SameBytes

\* A new file, empty and visible at once.  One creation at a time on a device.
CreateFile(v, n, a, h) ==
  /\ v \in mounted /\ ~ IsOpen(h)
  /\ Named(v, n) = {}
  /\ \A g \in Handle : handle[g].device = v => ~ handle[g].creates
  /\ UNCHANGED <<mounted, listing>>
  /\ \E id \in FileId \ DOMAIN file[v] :
       /\ handle' = [handle EXCEPT ![h] =
            [device |-> v, id |-> id, offset |-> 0, size |-> 0,
             reads |-> FALSE, writes |-> TRUE, creates |-> TRUE]]
       /\ file' = [file EXCEPT ![v] = Plus(@, id,
            [name |-> n, attributes |-> a, size |-> 0, durable |-> FALSE])]
  /\ SameBytes

\* The size a handle has given a file becomes the file's; a created file becomes durable.
CloseFile(h) ==
  LET v == handle[h].device
      id == handle[h].id
  IN  /\ IsOpen(h)
      /\ UNCHANGED <<mounted, listing>>
      /\ handle' = [handle EXCEPT ![h] = Closed]
      /\ file' = IF handle[h].writes
                 THEN [file EXCEPT ![v][id].size = handle[h].size,
                                   ![v][id].durable = @ \/ handle[h].creates]
                 ELSE file
      /\ SameBytes

(***************************************************************************)
(* Data                                                                    *)
(***************************************************************************)
\* The bytes that go to the caller are bytes[device][id] at offset .. offset + n - 1.
Read(h, n) ==
  /\ IsOpen(h) /\ handle[h].reads
  /\ handle[h].offset + n <= handle[h].size
  /\ handle' = [handle EXCEPT ![h].offset = @ + n]
  /\ UNCHANGED <<mounted, listing, file, bytes>>

\* The first n of the bytes given are written, from the handle's offset on.
Write(h, n, b) ==
  LET f == handle[h]
      last == f.offset + n
  IN  /\ IsOpen(h) /\ f.writes
      /\ handle' = [handle EXCEPT ![h].offset = last,
                                  ![h].size = IF last > f.size THEN last ELSE f.size]
      /\ UNCHANGED <<mounted, listing, file>>
      /\ BytesAfter(f.device, f.id, f.offset .. last - 1, b)

Seek(h, offset) ==
  /\ IsOpen(h)
  /\ offset \in 0 .. handle[h].size
  /\ handle' = [handle EXCEPT ![h].offset = offset]
  /\ UNCHANGED <<mounted, listing, file, bytes>>

(***************************************************************************)
(* Names                                                                   *)
(***************************************************************************)
\* A file that is gone is not what a listing has returned any more.
RemoveFile(v, n) ==
  /\ \E id \in Named(v, n) :
       /\ file[v][id].attributes # ReadOnly
       /\ OpenOnFile(v, id) = {}
       /\ listing' = IF listing.device = v
                     THEN [listing EXCEPT !.returned = @ \ {id}] ELSE listing
       /\ file' = [file EXCEPT ![v] = Only(@, DOMAIN @ \ {id})]
  /\ SameBytes

RenameFile(v, old, new) ==
  /\ Named(v, new) = {}
  /\ \E id \in Named(v, old) :
       /\ file[v][id].attributes # ReadOnly
       /\ file' = [file EXCEPT ![v][id].name = new]
  /\ UNCHANGED <<listing, bytes>>

SetAttributes(v, n, a) ==
  /\ \E id \in Named(v, n) : file' = [file EXCEPT ![v][id].attributes = a]
  /\ UNCHANGED <<listing, bytes>>

\* What a caller does to a file by its name leaves every handle alone.
NameStep(v) ==
  /\ v \in mounted
  /\ UNCHANGED <<mounted, handle>>
  /\ \E n \in Filename :
       \/ RemoveFile(v, n)
       \/ \E new \in Filename : RenameFile(v, n, new)
       \/ \E a \in Attribute : SetAttributes(v, n, a)

(***************************************************************************)
(* Listing a directory returns no file twice.  An entry of a removed file  *)
(* is returned too; then nothing changes here.                             *)
(***************************************************************************)
List(v) ==
  /\ listing = NoListing
  /\ listing' = [device |-> v, returned |-> {}]
  /\ UNCHANGED <<mounted, handle, file, bytes>>

ListEntry ==
  /\ listing.device \in Device
  /\ \E id \in DOMAIN file[listing.device] \ listing.returned :
       listing' = [listing EXCEPT !.returned = @ \cup {id}]
  /\ UNCHANGED <<mounted, handle, file, bytes>>

EndList ==
  /\ listing # NoListing
  /\ listing' = NoListing
  /\ UNCHANGED <<mounted, handle, file, bytes>>

\* What a caller does through a handle shows in that handle; offsets say how far.
HandleStep(h) ==
  LET offset == handle'[h].offset
      moved == offset - handle[h].offset
  IN  /\ handle'[h] # handle[h]
      /\ \/ \E v \in Device, n \in Filename :
              \/ OpenFile(v, n, h)
              \/ \E a \in Attribute : CreateFile(v, n, a, h)
         \/ CloseFile(h)
         \/ moved >= 0 /\ Read(h, moved)
         \/ moved >= 0 /\ \E b \in Byte : Write(h, moved, b)
         \/ Seek(h, offset)

StoreNext ==
  \/ \E h \in Handle : HandleStep(h)
  \/ \E v \in Device :
       Load(v) \/ Unload(v) \/ List(v) \/ NameStep(v)
  \/ ListEntry
  \/ EndList
  \/ Crash

StoreSpec == StoreInit /\ [][StoreNext]_storeVars
=============================================================================
