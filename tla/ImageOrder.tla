----------------------------- MODULE ImageOrder ------------------------------
(***************************************************************************)
(* The byte order of a file system image (NoOS/src/eefs_swap.c), word by   *)
(* word as the loops go.  Nothing in the repository calls these functions: *)
(* they are for a tool that moves an image between machines, and takes one *)
(* structure of the image after the other.  The image is in the order of   *)
(* another machine, or in that of this one and meant for another.          *)
(*                                                                         *)
(* A word is the sequence of its four bytes in memory.                     *)
(***************************************************************************)
EXTENDS Integers, SequencesExt

CONSTANTS
  Machine,        \* LITTLE_ENDIAN or BIG_ENDIAN, the order of this machine
  ByteValues,     \* 256, the values of a byte
  EEFS_MAX_FILES,
  Number          \* numbers in the words of an image

VARIABLES
  order,          \* the order the image is in
  table,          \* fields of the header of the allocation table, as words
  file,           \* its entries, EEFS_MAX_FILES of them
  fileHeader,     \* the words of one file header
  meant,          \* the numbers the image was written with
  swapping,       \* "table", "entries", "file header" or "done"
  entry,          \* i of the loop
  overrun         \* the loop went behind the last entry

imageVars == <<order, table, file, fileHeader, meant, swapping, entry, overrun>>

Orders == {"LITTLE_ENDIAN", "BIG_ENDIAN"}
Other(machine) == IF machine = "LITTLE_ENDIAN" THEN "BIG_ENDIAN" ELSE "LITTLE_ENDIAN"
WordValues == ByteValues * ByteValues * ByteValues * ByteValues

\* The count of files takes one byte of its word.
ASSUME ImageAssumption ==
  /\ Machine \in Orders
  /\ ByteValues \in Nat \ {0, 1}
  /\ EEFS_MAX_FILES \in Nat /\ EEFS_MAX_FILES < ByteValues
  /\ Number \subseteq 0 .. WordValues - 1

TableField == {"Crc", "Magic", "Version", "FreeMemoryOffset", "FreeMemorySize", "NumberOfFiles"}
EntryField == {"FileHeaderOffset", "MaxFileSize"}
FileField == {"Crc", "InUse", "Attributes", "FileSize", "ModificationDate", "CreationDate"}

\* The bytes of a number, the lowest first, and the number that bytes make up.
Low(n) == n % ByteValues
High(n) == n \div ByteValues
LittleEndian(n) == <<Low(n), Low(High(n)), Low(High(High(n))), High(High(High(n)))>>
MadeUp(w) == w[1] + ByteValues * (w[2] + ByteValues * (w[3] + ByteValues * w[4]))

\* The word of a number on a machine, and the number that a machine reads from a word.
Encode(n, machine) ==
  IF machine = "LITTLE_ENDIAN" THEN LittleEndian(n) ELSE Reverse(LittleEndian(n))
Decode(word, machine) == MadeUp(IF machine = "LITTLE_ENDIAN" THEN word ELSE Reverse(word))
Value(word) == Decode(word, Machine)

HalvesSwapped(w) == <<w[3], w[4], w[1], w[2]>>   \* seeded bug: 16-bit halves are exchanged
SwapUInt32(w) == <<w[4], w[3], w[2], w[1]>>

ImageInit ==
  \E from \in Orders, offset, size \in Number, files \in 0 .. EEFS_MAX_FILES, used \in {0, 1} :
    LET tableNumber == [f \in TableField |->
                          IF f = "NumberOfFiles" THEN files
                          ELSE IF f = "FreeMemoryOffset" THEN offset ELSE size]
        entryNumber == [k \in 1 .. EEFS_MAX_FILES |-> [f \in EntryField |->
                          IF f = "MaxFileSize" THEN size ELSE offset]]
        fileNumber == [f \in FileField |->
                          IF f = "InUse" THEN used ELSE IF f = "FileSize" THEN size ELSE offset]
    IN  /\ order = from
        /\ meant = [table |-> tableNumber, file |-> entryNumber, fileHeader |-> fileNumber]
        /\ table = [f \in TableField |-> Encode(tableNumber[f], from)]
        /\ file = [k \in 1 .. EEFS_MAX_FILES |-> [f \in EntryField |-> Encode(entryNumber[k][f], from)]]
        /\ fileHeader = [f \in FileField |-> Encode(fileNumber[f], from)]
        /\ swapping = "table" /\ entry = 0 /\ overrun = FALSE

SwappedFields == TableField

\* The header in EEFS_SwapFileAllocationTable, as in EEFS_SwapFileAllocationTableHeader.
SwapTableHeader ==
  /\ swapping = "table"
  /\ table' = [f \in TableField |->
                 IF f \in SwappedFields THEN SwapUInt32(table[f]) ELSE table[f]]
  /\ swapping' = "entries" /\ entry' = 0
  /\ UNCHANGED <<order, file, fileHeader, meant, overrun>>

\* One turn of its loop, or EEFS_SwapFileAllocationTableEntry.  What it swaps behind the
\* last entry is not part of the image, and the model ends there.
SwapEntry ==
  /\ swapping = "entries" /\ entry < Value(table["NumberOfFiles"]) /\ ~ overrun
  /\ IF entry < EEFS_MAX_FILES
     THEN /\ file' = [file EXCEPT ![entry + 1] = [f \in EntryField |-> SwapUInt32(@[f])]]
          /\ UNCHANGED overrun
     ELSE overrun' = TRUE /\ UNCHANGED file
  /\ entry' = entry + 1
  /\ UNCHANGED <<order, table, fileHeader, meant, swapping>>

EntriesDone ==
  /\ swapping = "entries" /\ ~ overrun /\ entry >= Value(table["NumberOfFiles"])
  /\ swapping' = "file header"
  /\ UNCHANGED <<order, table, file, fileHeader, meant, entry, overrun>>

\* EEFS_SwapFileHeader; the name has no order.
SwapFileHeader ==
  /\ swapping = "file header"
  /\ fileHeader' = [f \in FileField |-> SwapUInt32(fileHeader[f])]
  /\ swapping' = "done"
  /\ UNCHANGED <<order, table, file, meant, entry, overrun>>

ImageNext == SwapTableHeader \/ SwapEntry \/ EntriesDone \/ SwapFileHeader
ImageSpec == ImageInit /\ [][ImageNext]_imageVars

(***************************************************************************)
(* Properties                                                              *)
(***************************************************************************)
\* An image that was swapped reads on a machine of the other order as the numbers it was
\* written with, in the header, in the entries of its files and in the file header, although
\* the count that ends the loop is itself one of the words that are swapped.  The loop leaves
\* the table with no image of the other order; with one of this machine's own, whose count
\* it reads when it is swapped, it always does unless there is no file.
ReadsAsMeant ==
  LET native == order = Machine
      files == meant.table["NumberOfFiles"]
      reader == Other(order)
  IN  /\ overrun => native /\ files > 0
      /\ swapping \in {"file header", "done"} => ~ native \/ files = 0
      /\ swapping = "done" =>
           /\ \A f \in TableField : Decode(table[f], reader) = meant.table[f]
           /\ \A k \in 1 .. files, f \in EntryField : Decode(file[k][f], reader) = meant.file[k][f]
           /\ \A f \in FileField : Decode(fileHeader[f], reader) = meant.fileHeader[f]
=============================================================================
