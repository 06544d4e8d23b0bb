---------------------------- MODULE EefsFileStore ----------------------------
(***************************************************************************)
(* The EEFS library implements FileStore: the mapping from tables, headers *)
(* and cells to files.  A slot's index is the identity of its file.  The   *)
(* files of a device are the slots in use of its file allocation table and *)
(* the slot that is being created, which only the inode table has.         *)
(***************************************************************************)
EXTENDS EefsFileApi

\* The slots of a device that hold files, with their place in the EEPROM.
SlotEntry(v, i) == IF i \in Slots(fat[v]) THEN fat[v].File[i] ELSE inode[v].File[i]
StoredHeader(v, i) == HeaderAt(eeprom[v], SlotEntry(v, i).FileHeaderPointer)
CreatedSlots(v) == {fdTable[c].InodeIndex : c \in Creators(v)}
UsedSlots(v) == {i \in Slots(fat[v]) \cup CreatedSlots(v) : StoredHeader(v, i).InUse}

OpenOnSlot(v, i) == {d \in OpenOn(v) : fdTable[d].InodeIndex = i}

VisibleSize(v, i) ==
  LET sizes == {StoredHeader(v, i).FileSize} \cup {fdTable[d].FileSize : d \in OpenOnSlot(v, i)}
  IN  CHOOSE s \in sizes : \A t \in sizes : t <= s

MappedMounted == {v \in Device : Loaded(v)}

MappedFile ==
  [v \in Device |-> [i \in UsedSlots(v) |->
     LET header == StoredHeader(v, i)
     IN  [name |-> header.Filename, attributes |-> header.Attributes,
          size |-> header.FileSize, durable |-> i \in Slots(fat[v])]]]

MappedBytes ==
  [v \in Device |-> [i \in UsedSlots(v) |->
     LET data == SlotEntry(v, i).FileHeaderPointer + HeaderSize
     IN  [k \in 0 .. VisibleSize(v, i) - 1 |-> eeprom[v][data + k]]]]

MappedHandle ==
  [d \in Descriptor |->
     LET f == fdTable[d]
     IN  [device |-> f.InodeTable, id |-> f.InodeIndex, offset |-> f.ByteOffset,
          size |-> f.FileSize, reads |-> FREAD \in f.Mode, writes |-> FWRITE \in f.Mode,
          creates |-> FCREAT \in f.Mode]]

MappedListing ==
  [device |-> dir.InodeTable,
   returned |-> IF dir.InUse THEN {i \in UsedSlots(dir.InodeTable) : i < dir.InodeIndex} ELSE {}]

Store == INSTANCE FileStore WITH
  FileId <- FileIndex, Handle <- Descriptor, Nowhere <- NullTable,
  Attribute <- {NONE, READONLY}, ReadOnly <- READONLY,
  mounted <- MappedMounted, file <- MappedFile, bytes <- MappedBytes,
  handle <- MappedHandle, listing <- MappedListing

\* The library implements the promise: layout, caching and the order of the EEPROM
\* writes show in no file's name, size, attributes or bytes, and a reset at any
\* instant leaves exactly the files that were closed.
ImplementsFileStore == Store!StoreSpec
=============================================================================
