-------------------------- MODULE EefsFileStoreProofs --------------------------
(***************************************************************************)
(* The EEFS library implements FileStore, the store of named files it      *)
(* promises to its callers: every step of Spec is, under the mapping of    *)
(* EefsFileStore, a step of the store or none.                             *)
(***************************************************************************)
EXTENDS EefsFileStore, EefsFileApiFileProofs, EefsFileApiUseProofs

(***************************************************************************)
(* The inductive invariant                                                 *)
(***************************************************************************)
\* What is not in use is all zero, so that it maps to a closed handle and to no listing.
UnusedIsZero ==
  /\ \A d \in Descriptor : ~ fdTable[d].InUse => fdTable[d] = ZeroDescriptor
  /\ ~ dir.InUse => dir = ZeroDirectory

StoreInv == TypeOK /\ TableInv /\ FileInv /\ UseInv /\ UnusedIsZero

(***************************************************************************)
(* The mapping, read off the table that has all the slots of a device      *)
(***************************************************************************)
\* Where the data of slot i begins.
DataStart(v, i) == SlotStart(Live(v), i) + HeaderSize

\* The files of a device are the slots of that table whose header is in use.
SlotView(v) ==
  /\ UsedSlots(v) = {i \in Slots(Live(v)) : HeaderIn(eeprom[v], Live(v), i).InUse}
  /\ \A i \in Slots(Live(v)) :
       /\ SlotEntry(v, i) = Live(v).File[i]
       /\ StoredHeader(v, i) = HeaderIn(eeprom[v], Live(v), i)
       /\ StoredHeader(v, i) \in FileHeader

\* The size of a file is the greatest that its header or an open descriptor gives it; it
\* fits the slot.
SizeView(v, i) ==
  /\ VisibleSize(v, i) \in Nat /\ VisibleSize(v, i) <= Live(v).File[i].MaxFileSize
  /\ StoredHeader(v, i).FileSize <= VisibleSize(v, i)
  /\ \A d \in OpenOnSlot(v, i) : fdTable[d].FileSize <= VisibleSize(v, i)
  /\ \/ VisibleSize(v, i) = StoredHeader(v, i).FileSize
     \/ \E d \in OpenOnSlot(v, i) : VisibleSize(v, i) = fdTable[d].FileSize
  /\ Store!Extent(v, i) = VisibleSize(v, i)

ViewInv == \A v \in Device : SlotView(v) /\ \A i \in UsedSlots(v) : SizeView(v, i)

\* What is created is the one slot that the allocation table lacks.
LEMMA SlotsViewed ==
  ASSUME TypeOK, TableInv, NEW v \in Device
  PROVE  SlotView(v)
<1>1. DeviceInv(v) /\ fat[v] \in Table /\ inode[v] \in Table
  BY DEF TypeOK, TableInv
<1>2. /\ fat[v].NumberOfFiles <= Live(v).NumberOfFiles
      /\ \A i \in Slots(fat[v]) : i \in Slots(Live(v)) /\ Live(v).File[i] = fat[v].File[i]
  BY FatIsPartOfLive
<1>3. Slots(Live(v)) = Slots(fat[v]) \cup CreatedSlots(v)
  <2>1. CASE Creators(v) = {}
    <3>1. Live(v).NumberOfFiles = fat[v].NumberOfFiles
      BY <1>1, <2>1 DEF Live, DeviceInv, InodeFollowsFat
    <3> QED BY <2>1, <3>1 DEF CreatedSlots, Slots
  <2>2. CASE Creators(v) # {}
    <3>1. Loaded(v)
      BY <1>1, <2>2 DEF DeviceInv, UnloadedIsZero
    <3>2. CreatedSlots(v) = {fat[v].NumberOfFiles}
          /\ inode[v].NumberOfFiles = fat[v].NumberOfFiles + 1
      BY <1>1, <2>2 DEF DeviceInv, CreatorOwnsFreeMemory, CreatedSlots
    <3>3. fat[v].NumberOfFiles \in Nat
      BY <1>1, SizesAssumption DEF Table
    <3> QED BY <3>1, <3>2, <3>3 DEF Live, Slots
  <2> QED BY <2>1, <2>2
<1>4. \A i \in Slots(Live(v)) : SlotEntry(v, i) = Live(v).File[i]
  <2> SUFFICES ASSUME NEW i \in Slots(Live(v))
               PROVE  SlotEntry(v, i) = Live(v).File[i]
    OBVIOUS
  <2>1. CASE i \in Slots(fat[v])
    BY <1>2, <2>1 DEF SlotEntry
  <2>2. CASE i \notin Slots(fat[v])
    <3>1. Creators(v) # {}
      BY <1>3, <2>2 DEF CreatedSlots
    <3>2. Live(v) = inode[v]
      BY <1>1, <3>1 DEF DeviceInv, UnloadedIsZero, Live
    <3> QED BY <2>2, <3>2 DEF SlotEntry
  <2> QED BY <2>1, <2>2
<1>5. \A i \in Slots(Live(v)) : StoredHeader(v, i) = HeaderIn(eeprom[v], Live(v), i)
  BY <1>4 DEF StoredHeader, HeaderIn, SlotStart
<1>6. \A i : StoredHeader(v, i) \in FileHeader
  BY HeaderAtType DEF StoredHeader
<1> QED BY <1>3, <1>4, <1>5, <1>6 DEF SlotView, UsedSlots

\* A set of natural numbers with a bound has a greatest element.
LEMMA GreatestElement ==
  ASSUME NEW S \in SUBSET Nat, S # {}, NEW bound \in Nat, \A s \in S : s <= bound
  PROVE  LET m == CHOOSE s \in S : \A t \in S : t <= s
         IN  m \in S /\ \A t \in S : t <= m
<1> DEFINE R == {r \in Nat : \E s \in S : r = bound - s}
<1>1. \A t \in S : bound - t \in R
  OBVIOUS
<1>2. R \in SUBSET Nat /\ R # {}
  BY <1>1
<1>3. PICK r \in R : \A q \in R : r <= q
  BY <1>2, LeastElement
<1>4. PICK s \in S : r = bound - s
  BY <1>3
<1>5. ASSUME NEW t \in S PROVE t <= s
  <2>1. bound - s <= bound - t
    BY <1>1, <1>3, <1>4
  <2> QED BY <2>1
<1>6. \E m \in S : \A t \in S : t <= m
  BY <1>5
<1> QED BY <1>6

\* The handles on a file are the open descriptors on its slot.
LEMMA OpenViewed ==
  ASSUME StoreInv, NEW v \in Device, NEW i
  PROVE  Store!OpenOnFile(v, i) = OpenOnSlot(v, i)
<1>1. \A h \in Descriptor : /\ MappedHandle[h].device = fdTable[h].InodeTable
                            /\ MappedHandle[h].id = fdTable[h].InodeIndex
  BY DEF MappedHandle
<1>2. \A h \in Descriptor : fdTable[h].InodeTable = v => fdTable[h].InUse
  BY InputsAssumption DEF StoreInv, UnusedIsZero, ZeroDescriptor
<1> QED BY <1>1, <1>2 DEF Store!OpenOnFile, OpenOnSlot, OpenOn

\* The size of a file, as the mapping and as the store define it.
LEMMA SizesViewed ==
  ASSUME StoreInv, NEW v \in Device, NEW i \in UsedSlots(v)
  PROVE  SizeView(v, i)
<1> DEFINE max == Live(v).File[i].MaxFileSize
           sizes == {StoredHeader(v, i).FileSize} \cup {fdTable[d].FileSize : d \in OpenOnSlot(v, i)}
           seen == {MappedFile[v][i].size} \cup
                     {MappedHandle[h].size : h \in Store!OpenOnFile(v, i)}
<1>1. SlotView(v)
  BY SlotsViewed DEF StoreInv
<1>2. i \in Slots(Live(v)) /\ StoredHeader(v, i) = HeaderIn(eeprom[v], Live(v), i)
      /\ StoredHeader(v, i) \in FileHeader
  BY <1>1 DEF SlotView
<1>3. max \in Nat
  BY <1>2, LiveTiled, TiledSlots DEF LiveIsTiled, StoreInv
<1>4. StoredHeader(v, i).FileSize \in Nat /\ StoredHeader(v, i).FileSize <= max
  BY <1>2 DEF StoreInv, FileInv, FilesIntact, HeadersFit, FileHeader
<1>5. \A d \in OpenOnSlot(v, i) : fdTable[d].FileSize \in Nat /\ fdTable[d].FileSize <= max
  BY OpenDescriptor DEF OpenOnSlot, OpenOn, StoreInv
<1>6. sizes \in SUBSET Nat /\ sizes # {} /\ \A s \in sizes : s <= max
  BY <1>4, <1>5
<1>7. VisibleSize(v, i) \in sizes /\ \A s \in sizes : s <= VisibleSize(v, i)
  BY <1>3, <1>6, GreatestElement DEF VisibleSize
<1>8. seen = sizes
  <2>1. MappedFile[v][i].size = StoredHeader(v, i).FileSize
    BY DEF MappedFile
  <2>2. \A h \in Descriptor : MappedHandle[h].size = fdTable[h].FileSize
    BY DEF MappedHandle
  <2>3. Store!OpenOnFile(v, i) = OpenOnSlot(v, i)
    BY OpenViewed
  <2>4. OpenOnSlot(v, i) \subseteq Descriptor
    BY DEF OpenOnSlot, OpenOn
  <2> QED BY <2>1, <2>2, <2>3, <2>4
<1>9. Store!Extent(v, i) \in seen /\ \A s \in seen : s <= Store!Extent(v, i)
  BY <1>3, <1>6, <1>8, GreatestElement DEF Store!Extent
<1> HIDE DEF sizes, seen
<1>10. Store!Extent(v, i) = VisibleSize(v, i)
  <2>1. Store!Extent(v, i) \in Nat /\ VisibleSize(v, i) \in Nat
    BY <1>6, <1>7, <1>8, <1>9
  <2>2. Store!Extent(v, i) <= VisibleSize(v, i) /\ VisibleSize(v, i) <= Store!Extent(v, i)
    BY <1>7, <1>8, <1>9
  <2> QED BY <2>1, <2>2
<1> QED BY <1>4, <1>5, <1>6, <1>7, <1>10 DEF SizeView, sizes

LEMMA Viewed == StoreInv => ViewInv
BY SlotsViewed, SizesViewed DEF ViewInv, StoreInv

LEMMA ViewedNext == StoreInv' => ViewInv'
BY Viewed, PTL

(***************************************************************************)
(* What a step does to the mapped variables                                *)
(***************************************************************************)
\* The cell of byte k of file i.
CellOf(v, i, k) == eeprom[v][DataStart(v, i) + k]

LEMMA BytesViewed ==
  ASSUME ViewInv
  PROVE  /\ DOMAIN MappedBytes = Device /\ DOMAIN MappedFile = Device
         /\ \A v \in Device :
              /\ DOMAIN MappedFile[v] = UsedSlots(v) /\ DOMAIN MappedBytes[v] = UsedSlots(v)
              /\ \A i \in UsedSlots(v) :
                   MappedBytes[v][i] = [k \in 0 .. VisibleSize(v, i) - 1 |-> CellOf(v, i, k)]
<1>1. \A v \in Device : \A i \in UsedSlots(v) :
        SlotEntry(v, i).FileHeaderPointer + HeaderSize = DataStart(v, i)
  BY DEF ViewInv, SlotView, DataStart, SlotStart
<1> QED BY <1>1 DEF MappedBytes, MappedFile, CellOf

LEMMA BytesViewedNext ==
  ASSUME ViewInv'
  PROVE  /\ DOMAIN MappedBytes' = Device /\ DOMAIN MappedFile' = Device
         /\ \A v \in Device :
              /\ DOMAIN MappedFile'[v] = UsedSlots(v)'
              /\ MappedBytes'[v] = [i \in UsedSlots(v)' |->
                   [k \in 0 .. VisibleSize(v, i)' - 1 |-> CellOf(v, i, k)']]
<1>1. \A v \in Device : \A i \in UsedSlots(v)' :
        SlotEntry(v, i)'.FileHeaderPointer + HeaderSize = DataStart(v, i)'
  BY DEF ViewInv, SlotView, DataStart, SlotStart
<1> QED BY <1>1 DEF MappedBytes, MappedFile, CellOf

\* Byte k of file j of w after a step that gives b to the bytes `range' of file i of v.
ByteFollows(v, i, range, b, w, j, k) ==
  IF w = v /\ j = i /\ k \in range THEN CellOf(w, j, k)' = b
  ELSE /\ j \in UsedSlots(w) /\ k < VisibleSize(w, j)
       /\ CellOf(w, j, k)' = CellOf(w, j, k)

LEMMA BytesFollow ==
  ASSUME ViewInv, ViewInv', NEW v, NEW i, NEW range, NEW b,
         \A w \in Device : \A j \in UsedSlots(w)' : \A k \in 0 .. VisibleSize(w, j)' - 1 :
           ByteFollows(v, i, range, b, w, j, k)
  PROVE  Store!BytesAfter(v, i, range, b)
<1> DEFINE new(w, j, k) == IF w = v /\ j = i /\ k \in range THEN b ELSE MappedBytes[w][j][k]
<1>1. \A w \in Device : \A j \in UsedSlots(w)' : \A k \in 0 .. VisibleSize(w, j)' - 1 :
        CellOf(w, j, k)' = new(w, j, k)
  <2> SUFFICES ASSUME NEW w \in Device, NEW j \in UsedSlots(w)',
                      NEW k \in 0 .. VisibleSize(w, j)' - 1
               PROVE  CellOf(w, j, k)' = new(w, j, k)
    OBVIOUS
  <2>1. ByteFollows(v, i, range, b, w, j, k)
    OBVIOUS
  <2>2. CASE w = v /\ j = i /\ k \in range
    BY <2>1, <2>2 DEF ByteFollows
  <2>3. CASE ~ (w = v /\ j = i /\ k \in range)
    <3>1. /\ j \in UsedSlots(w) /\ k < VisibleSize(w, j)
          /\ CellOf(w, j, k)' = CellOf(w, j, k)
      BY <2>1, <2>3 DEF ByteFollows
    <3>2. MappedBytes[w][j] = [x \in 0 .. VisibleSize(w, j) - 1 |-> CellOf(w, j, x)]
          /\ VisibleSize(w, j) \in Nat /\ VisibleSize(w, j)' \in Nat
      BY <3>1, BytesViewed DEF ViewInv, SizeView
    <3>3. MappedBytes[w][j][k] = CellOf(w, j, k)
      BY <3>1, <3>2
    <3> QED BY <2>3, <3>1, <3>3
  <2> QED BY <2>2, <2>3
<1>2. \A w \in Device : \A j \in UsedSlots(w)' : Store!Extent(w, j)' = VisibleSize(w, j)'
  BY DEF ViewInv, SizeView
<1> DEFINE after == [w \in Device |-> [j \in UsedSlots(w)' |->
                       [k \in 0 .. VisibleSize(w, j)' - 1 |-> new(w, j, k)]]]
<1>3. MappedBytes' = after
  <2>1. MappedBytes' = [w \in Device |-> MappedBytes'[w]]
    BY DEF MappedBytes
  <2>2. \A w \in Device : MappedBytes'[w] = after[w]
    BY <1>1, BytesViewedNext
  <2> QED BY <2>1, <2>2
<1>4. \A w \in Device : DOMAIN MappedFile'[w] = UsedSlots(w)'
  BY BytesViewedNext
<1> QED BY <1>2, <1>3, <1>4 DEF Store!BytesAfter

\* The size of a file does not grow when nothing gives it a greater one.
LEMMA SizeShrinks ==
  ASSUME ViewInv, ViewInv', NEW v \in Device, NEW i \in UsedSlots(v), i \in UsedSlots(v)',
         StoredHeader(v, i)'.FileSize <= VisibleSize(v, i),
         \A d \in OpenOnSlot(v, i)' : fdTable'[d].FileSize <= VisibleSize(v, i)
  PROVE  VisibleSize(v, i)' <= VisibleSize(v, i)
BY DEF ViewInv, SizeView

\* It stays when header and descriptors give the same sizes as before.
LEMMA SizeStays ==
  ASSUME ViewInv, ViewInv', NEW v \in Device, NEW i \in UsedSlots(v), i \in UsedSlots(v)',
         StoredHeader(v, i)'.FileSize = StoredHeader(v, i).FileSize,
         OpenOnSlot(v, i)' = OpenOnSlot(v, i),
         \A d \in OpenOnSlot(v, i) : fdTable'[d].FileSize = fdTable[d].FileSize
  PROVE  VisibleSize(v, i)' = VisibleSize(v, i)
<1>1. VisibleSize(v, i)' <= VisibleSize(v, i) /\ VisibleSize(v, i) <= VisibleSize(v, i)'
  BY DEF ViewInv, SizeView
<1>2. VisibleSize(v, i)' \in Nat /\ VisibleSize(v, i) \in Nat
  BY DEF ViewInv, SizeView
<1> QED BY <1>1, <1>2

\* Bytes stay with the cells when no file changes its size.
LEMMA BytesStay ==
  ASSUME ViewInv, ViewInv',
         \A v \in Device : UsedSlots(v)' = UsedSlots(v),
         \A v \in Device : \A i \in UsedSlots(v) : VisibleSize(v, i)' = VisibleSize(v, i),
         \A v \in Device : \A i \in UsedSlots(v) : \A k \in 0 .. VisibleSize(v, i) - 1 :
           CellOf(v, i, k)' = CellOf(v, i, k)
  PROVE  MappedBytes' = MappedBytes
<1>1. \A v \in Device : MappedBytes'[v] = MappedBytes[v]
  <2> SUFFICES ASSUME NEW v \in Device PROVE MappedBytes'[v] = MappedBytes[v]
    OBVIOUS
  <2>1. MappedBytes[v] = [i \in UsedSlots(v) |-> MappedBytes[v][i]]
    BY DEF MappedBytes
  <2>2. \A i \in UsedSlots(v) : MappedBytes'[v][i] = MappedBytes[v][i]
    BY BytesViewed, BytesViewedNext
  <2>3. MappedBytes'[v] = [i \in UsedSlots(v) |-> MappedBytes'[v][i]]
    BY BytesViewedNext
  <2> QED BY <2>1, <2>2, <2>3
<1> QED BY <1>1 DEF MappedBytes

\* A step that keeps EEPROM and slots keeps files, and bytes if sizes stay.
SlotsStay ==
  /\ eeprom' = eeprom /\ fat' = fat
  /\ \A v \in Device :
       /\ Slots(Live(v)') = Slots(Live(v))
       /\ \A i \in Slots(Live(v)) : Live(v)'.File[i] = Live(v).File[i]

LEMMA SlotsKeepFiles ==
  ASSUME ViewInv, ViewInv', SlotsStay
  PROVE  /\ MappedFile' = MappedFile
         /\ \A v \in Device : UsedSlots(v)' = UsedSlots(v)
         /\ \A v \in Device : \A i \in UsedSlots(v) :
              /\ StoredHeader(v, i)' = StoredHeader(v, i)
              /\ \A k : CellOf(v, i, k)' = CellOf(v, i, k)
<1>1. \A v \in Device : \A i \in Slots(Live(v)) :
        /\ SlotStart(Live(v)', i) = SlotStart(Live(v), i)
        /\ HeaderIn(eeprom'[v], Live(v)', i) = HeaderIn(eeprom[v], Live(v), i)
  BY DEF SlotsStay, SlotStart, HeaderIn
<1>2. \A v \in Device : UsedSlots(v)' = UsedSlots(v) /\ UsedSlots(v) \subseteq Slots(Live(v))
  <2> SUFFICES ASSUME NEW v \in Device
               PROVE  UsedSlots(v)' = UsedSlots(v) /\ UsedSlots(v) \subseteq Slots(Live(v))
    OBVIOUS
  <2>1. /\ UsedSlots(v)' = {i \in Slots(Live(v)') : HeaderIn(eeprom'[v], Live(v)', i).InUse}
        /\ UsedSlots(v) = {i \in Slots(Live(v)) : HeaderIn(eeprom[v], Live(v), i).InUse}
    BY DEF ViewInv, SlotView
  <2> QED BY <1>1, <2>1 DEF SlotsStay
<1>3. \A v \in Device : \A i \in UsedSlots(v) :
        /\ StoredHeader(v, i)' = StoredHeader(v, i)
        /\ \A k : CellOf(v, i, k)' = CellOf(v, i, k)
  <2> SUFFICES ASSUME NEW v \in Device, NEW i \in UsedSlots(v)
               PROVE  /\ StoredHeader(v, i)' = StoredHeader(v, i)
                      /\ \A k : CellOf(v, i, k)' = CellOf(v, i, k)
    OBVIOUS
  <2>1. i \in Slots(Live(v)) /\ i \in Slots(Live(v)')
    BY <1>2 DEF SlotsStay
  <2>2. StoredHeader(v, i)' = StoredHeader(v, i)
    BY <1>1, <2>1 DEF ViewInv, SlotView
  <2>3. DataStart(v, i)' = DataStart(v, i)
    BY <1>1, <2>1 DEF DataStart
  <2> QED BY <2>2, <2>3 DEF CellOf, SlotsStay
<1>4. MappedFile' = MappedFile
  BY <1>2, <1>3 DEF MappedFile, SlotsStay
<1> QED BY <1>2, <1>3, <1>4

\* So does one that changes neither EEPROM nor inode tables.
ImageAndTablesStay == eeprom' = eeprom /\ fat' = fat /\ inode' = inode

LEMMA FilesStay ==
  ASSUME ViewInv, ViewInv', ImageAndTablesStay
  PROVE  /\ MappedFile' = MappedFile /\ MappedMounted' = MappedMounted
         /\ \A v \in Device : UsedSlots(v)' = UsedSlots(v)
         /\ \A v \in Device : \A i \in UsedSlots(v) :
              /\ StoredHeader(v, i)' = StoredHeader(v, i)
              /\ \A k : CellOf(v, i, k)' = CellOf(v, i, k)
<1>1. SlotsStay
  BY DEF SlotsStay, Live, Loaded, ImageAndTablesStay
<1>2. MappedMounted' = MappedMounted
  BY DEF MappedMounted, Loaded, ImageAndTablesStay
<1> QED BY <1>1, <1>2, SlotsKeepFiles

\* A step of the store, or none.
StoreStep == [Store!StoreNext]_(Store!storeVars)

(***************************************************************************)
(* Directories                                                             *)
(***************************************************************************)
\* A step that leaves EEPROM, tables and descriptors alone shows in the listing only.
LEMMA OnlyListing ==
  ASSUME ViewInv, ViewInv', ImageAndTablesStay, fdTable' = fdTable
  PROVE  /\ MappedFile' = MappedFile /\ MappedMounted' = MappedMounted
         /\ MappedBytes' = MappedBytes /\ MappedHandle' = MappedHandle
         /\ \A v \in Device : UsedSlots(v)' = UsedSlots(v)
<1>1. \A v, i : OpenOnSlot(v, i)' = OpenOnSlot(v, i)
  BY DEF OpenOnSlot, OpenOn
<1>2. \A v \in Device : \A i \in UsedSlots(v) : VisibleSize(v, i)' = VisibleSize(v, i)
  BY <1>1, FilesStay, SizeStays
<1>3. MappedBytes' = MappedBytes
  BY <1>2, FilesStay, BytesStay
<1> QED BY <1>3, FilesStay DEF MappedHandle

LEMMA OpenDirStores ==
  ASSUME StoreInv, StoreInv', NEW v \in Device, LibOpenDir(v)
  PROVE  StoreStep
<1>1. ViewInv /\ ViewInv'
  BY Viewed, ViewedNext
<1>2. ImageAndTablesStay /\ fdTable' = fdTable
  BY DEF LibOpenDir, ImageAndTablesStay, image
<1>3. MappedListing = Store!NoListing
  <2>1. dir = ZeroDirectory
    BY DEF LibOpenDir, StoreInv, UnusedIsZero
  <2> QED BY <2>1 DEF MappedListing, ZeroDirectory, Store!NoListing
<1>4. MappedListing' = [device |-> v, returned |-> {}]
  <2>1. dir'.InUse /\ dir'.InodeIndex = 0 /\ dir'.InodeTable = v
    BY DEF LibOpenDir
  <2>2. UsedSlots(v)' \subseteq Nat
    BY <1>1 DEF ViewInv, SlotView, Slots
  <2>3. {i \in UsedSlots(v)' : i < 0} = {}
    BY <2>2
  <2> QED BY <2>1, <2>3 DEF MappedListing
<1>5. Store!List(v)
  BY <1>1, <1>2, <1>3, <1>4, OnlyListing DEF Store!List
<1> QED BY <1>5 DEF StoreStep, Store!StoreNext

LEMMA ReadDirStores ==
  ASSUME StoreInv, StoreInv', LibReadDir
  PROVE  StoreStep
<1>1. ViewInv /\ ViewInv'
  BY Viewed, ViewedNext
<1>2. ImageAndTablesStay /\ fdTable' = fdTable
  BY DEF LibReadDir, ImageAndTablesStay, image
<1>3. PICK v \in Device, k \in Nat :
        /\ dir.InUse /\ dir.InodeTable = v /\ dir.InodeIndex = k
        /\ dir'.InUse /\ dir'.InodeTable = v /\ dir'.InodeIndex = k + 1
  BY DEF LibReadDir, StoreInv, UseInv, DirectoryOnDevice, TypeOK, DirectoryDescriptor
<1>4. UsedSlots(v)' = UsedSlots(v) /\ UsedSlots(v) \subseteq Nat
  BY <1>1, <1>2, <1>3, OnlyListing DEF ViewInv, SlotView, Slots
<1>5. MappedListing = [device |-> v, returned |-> {i \in UsedSlots(v) : i < k}]
  BY <1>3 DEF MappedListing
<1>6. MappedListing' = [device |-> v, returned |-> {i \in UsedSlots(v) : i < k + 1}]
  BY <1>3, <1>4 DEF MappedListing
<1>7. CASE k \in UsedSlots(v)
  <2>1. {i \in UsedSlots(v) : i < k + 1} = {i \in UsedSlots(v) : i < k} \cup {k}
    BY <1>3, <1>4, <1>7
  <2>2. k \in DOMAIN MappedFile[v] \ {i \in UsedSlots(v) : i < k}
    BY <1>1, <1>3, <1>7, BytesViewed
  <2>3. /\ MappedListing.device = v /\ MappedListing.returned = {i \in UsedSlots(v) : i < k}
        /\ MappedListing' = [MappedListing EXCEPT !.returned = @ \cup {k}]
    <3> DEFINE R == {i \in UsedSlots(v) : i < k}
               R1 == {i \in UsedSlots(v) : i < k + 1}
    <3>1. /\ MappedListing = [device |-> v, returned |-> R]
          /\ MappedListing' = [device |-> v, returned |-> R1] /\ R1 = R \cup {k}
      BY <1>5, <1>6, <2>1
    <3> HIDE DEF R, R1
    <3>2. MappedListing' = [MappedListing EXCEPT !.returned = @ \cup {k}]
      BY <3>1
    <3> QED BY <3>1, <3>2 DEF R
  <2>4. Store!ListEntry
    BY <1>1, <1>2, <1>3, <2>2, <2>3, OnlyListing DEF Store!ListEntry
  <2> QED BY <2>4 DEF StoreStep, Store!StoreNext
<1>8. CASE k \notin UsedSlots(v)
  <2>1. {i \in UsedSlots(v) : i < k + 1} = {i \in UsedSlots(v) : i < k}
    BY <1>3, <1>4, <1>8
  <2> QED BY <1>1, <1>2, <1>5, <1>6, <2>1, OnlyListing DEF StoreStep, Store!storeVars
<1> QED BY <1>7, <1>8

LEMMA CloseDirStores ==
  ASSUME StoreInv, StoreInv', LibCloseDir
  PROVE  StoreStep
<1>1. ViewInv /\ ViewInv'
  BY Viewed, ViewedNext
<1>2. ImageAndTablesStay /\ fdTable' = fdTable
  BY DEF LibCloseDir, ImageAndTablesStay, image
<1>3. MappedListing' = Store!NoListing
  BY DEF LibCloseDir, MappedListing, ZeroDirectory, Store!NoListing
<1>4. MappedListing # Store!NoListing
  BY InputsAssumption
     DEF LibCloseDir, StoreInv, UseInv, DirectoryOnDevice, MappedListing, Store!NoListing
<1>5. Store!EndList
  BY <1>1, <1>2, <1>3, <1>4, OnlyListing DEF Store!EndList
<1> QED BY <1>5 DEF StoreStep, Store!StoreNext

(***************************************************************************)
(* Reading and seeking                                                     *)
(***************************************************************************)
\* A step that moves descriptor d, as EEFS_LibRead, EEFS_LibWrite and EEFS_LibLSeek do.
Moves(d) ==
  /\ \A e \in Descriptor :
       /\ fdTable'[e].InUse = fdTable[e].InUse /\ fdTable'[e].Mode = fdTable[e].Mode
       /\ fdTable'[e].InodeTable = fdTable[e].InodeTable
       /\ fdTable'[e].InodeIndex = fdTable[e].InodeIndex
  /\ \A e \in Descriptor \ {d} : fdTable'[e] = fdTable[e]

\* An open descriptor is an open handle on the same file.
LEMMA OpenHandle ==
  ASSUME StoreInv, NEW d \in Descriptor, fdTable[d].InUse
  PROVE  LET f == fdTable[d]
             h == MappedHandle[d]
         IN  /\ h.device = f.InodeTable /\ h.device \in Device /\ Store!IsOpen(d)
             /\ h.id = f.InodeIndex /\ h.offset = f.ByteOffset /\ h.size = f.FileSize
             /\ h.reads = (FREAD \in f.Mode) /\ h.writes = (FWRITE \in f.Mode)
             /\ h.creates = (FCREAT \in f.Mode)
             /\ h.id \in UsedSlots(h.device) /\ h.device \in MappedMounted
<1>1. /\ fdTable[d].InodeTable \in Device /\ Loaded(fdTable[d].InodeTable)
      /\ Live(fdTable[d].InodeTable) = inode[fdTable[d].InodeTable]
      /\ fdTable[d].InodeIndex \in Slots(inode[fdTable[d].InodeTable])
  BY OpenSlotIsLive DEF StoreInv, FileInv
<1>2. HeaderIn(eeprom[fdTable[d].InodeTable], inode[fdTable[d].InodeTable], fdTable[d].InodeIndex).InUse
  BY DEF StoreInv, FileInv, DescriptorsFit, DescriptorFits
<1>3. fdTable[d].InodeIndex \in UsedSlots(fdTable[d].InodeTable)
  BY <1>1, <1>2, SlotsViewed DEF SlotView, StoreInv
<1> QED BY <1>1, <1>3 DEF MappedHandle, MappedMounted, Store!IsOpen

LEMMA HandleMoves ==
  ASSUME NEW d \in Descriptor, Moves(d)
  PROVE  MappedHandle' = [MappedHandle EXCEPT ![d].offset = fdTable'[d].ByteOffset,
                                              ![d].size = fdTable'[d].FileSize]
<1> DEFINE after == [MappedHandle EXCEPT ![d].offset = fdTable'[d].ByteOffset,
                                         ![d].size = fdTable'[d].FileSize]
<1>1. MappedHandle' = [e \in Descriptor |-> MappedHandle'[e]]
      /\ after = [e \in Descriptor |-> after[e]]
  BY DEF MappedHandle
<1>2. \A e \in Descriptor \ {d} : MappedHandle'[e] = after[e]
  BY DEF MappedHandle, Moves
<1>3. MappedHandle'[d] = after[d]
  BY DEF MappedHandle, Moves
<1> HIDE DEF after
<1> QED BY <1>1, <1>2, <1>3 DEF after

\* A step that moves a descriptor in its file, and gives it no other size, shows in the
\* handle only.
LEMMA MoveShows ==
  ASSUME StoreInv, StoreInv', NEW d \in Descriptor, fdTable[d].InUse, Moves(d),
         ImageAndTablesStay, dir' = dir, fdTable'[d].FileSize = fdTable[d].FileSize
  PROVE  /\ MappedFile' = MappedFile /\ MappedMounted' = MappedMounted
         /\ MappedBytes' = MappedBytes /\ MappedListing' = MappedListing
         /\ MappedHandle' = [MappedHandle EXCEPT ![d].offset = fdTable'[d].ByteOffset]
<1>1. ViewInv /\ ViewInv'
  BY Viewed, ViewedNext
<1>2. \A v, i : OpenOnSlot(v, i)' = OpenOnSlot(v, i) /\ OpenOnSlot(v, i) \subseteq Descriptor
  BY DEF OpenOnSlot, OpenOn, Moves
<1>3. \A e \in Descriptor : fdTable'[e].FileSize = fdTable[e].FileSize
  BY DEF Moves
<1>4. \A v \in Device : \A i \in UsedSlots(v) : VisibleSize(v, i)' = VisibleSize(v, i)
  BY <1>1, <1>2, <1>3, FilesStay, SizeStays
<1>5. MappedBytes' = MappedBytes
  BY <1>1, <1>4, FilesStay, BytesStay
<1>6. MappedListing' = MappedListing
  BY <1>1, FilesStay DEF MappedListing, StoreInv, UseInv, DirectoryOnDevice
<1>7. MappedHandle' = [MappedHandle EXCEPT ![d].offset = fdTable'[d].ByteOffset]
  <2> DEFINE after == [MappedHandle EXCEPT ![d].offset = fdTable'[d].ByteOffset]
  <2>1. MappedHandle' = [e \in Descriptor |-> MappedHandle'[e]]
        /\ after = [e \in Descriptor |-> after[e]]
    BY DEF MappedHandle
  <2>2. \A e \in Descriptor \ {d} : MappedHandle'[e] = after[e]
    BY DEF MappedHandle, Moves
  <2>3. MappedHandle'[d] = after[d]
    BY DEF MappedHandle, Moves
  <2> HIDE DEF after
  <2> QED BY <2>1, <2>2, <2>3 DEF after
<1> QED BY <1>1, <1>5, <1>6, <1>7, FilesStay

\* EEFS_LibRead moves an offset on, inside the file.
LEMMA ReadStores ==
  ASSUME StoreInv, StoreInv', NEW d \in Descriptor, NEW Length \in Lengths,
         LibRead(d, Length)
  PROVE  StoreStep
<1>1. TypeOK /\ TableInv /\ FileInv
  BY DEF StoreInv
<1>2. PICK n : n = BytesToRead(fdTable[d], Length)
  OBVIOUS
<1>3. /\ fdTable[d].InUse /\ FREAD \in fdTable[d].Mode
      /\ ImageAndTablesStay /\ dir' = dir
      /\ fdTable' = [fdTable EXCEPT ![d].FileDataPointer = @ + n, ![d].ByteOffset = @ + n]
  BY <1>2 DEF LibRead, IsValidFileDescriptor, ImageAndTablesStay, image
<1>4. /\ \A e \in Descriptor \ {d} : fdTable'[e] = fdTable[e]
      /\ fdTable'[d].ByteOffset = fdTable[d].ByteOffset + n
      /\ fdTable'[d].FileSize = fdTable[d].FileSize
  BY <1>1, <1>3 DEF TypeOK, FileDescriptor
<1>5. Moves(d)
  BY <1>1, <1>4, TransferStep DEF Moves
<1>6. n \in Nat /\ n <= fdTable[d].FileSize - fdTable[d].ByteOffset
      /\ fdTable[d].ByteOffset \in Nat /\ fdTable[d].FileSize \in Nat
  BY <1>1, <1>2, <1>3, ReadLength, OpenDescriptor
<1>7. PICK h : h = MappedHandle[d]
  OBVIOUS
<1>8. h.offset = fdTable[d].ByteOffset /\ h.size = fdTable[d].FileSize
      /\ h.reads /\ Store!IsOpen(d)
  BY <1>3, <1>7, OpenHandle
<1>9. MappedHandle' = [MappedHandle EXCEPT ![d].offset = @ + n]
  <2>1. MappedHandle[d].offset + n = fdTable'[d].ByteOffset
    BY <1>4, <1>7, <1>8
  <2>2. MappedHandle' = [MappedHandle EXCEPT ![d].offset = fdTable'[d].ByteOffset]
    BY <1>3, <1>4, <1>5, MoveShows
  <2> QED BY <2>1, <2>2
<1>10. Store!Read(d, n)
  <2>1. MappedHandle[d].reads /\ MappedHandle[d].offset + n <= MappedHandle[d].size
    BY <1>6, <1>7, <1>8
  <2>2. UNCHANGED <<MappedMounted, MappedListing, MappedFile, MappedBytes>>
    BY <1>3, <1>4, <1>5, MoveShows
  <2> QED BY <1>8, <1>9, <2>1, <2>2 DEF Store!Read
<1>11. MappedHandle'[d].offset = h.offset + n /\ MappedHandle' = [e \in Descriptor |-> MappedHandle'[e]]
  BY <1>7, <1>9 DEF MappedHandle
<1>12. CASE MappedHandle'[d] = MappedHandle[d]
  <2>1. MappedHandle' = MappedHandle
    BY <1>9, <1>12 DEF MappedHandle
  <2> QED BY <1>3, <1>4, <1>5, <2>1, MoveShows DEF StoreStep, Store!storeVars
<1>13. CASE MappedHandle'[d] # MappedHandle[d]
  <2>1. MappedHandle'[d].offset - MappedHandle[d].offset = n
    BY <1>6, <1>7, <1>8, <1>11
  <2>2. Store!HandleStep(d)
    BY <1>6, <1>10, <1>13, <2>1 DEF Store!HandleStep
  <2> QED BY <2>2 DEF StoreStep, Store!StoreNext
<1> QED BY <1>12, <1>13

\* EEFS_LibLSeek puts it anywhere in the file.
LEMMA SeekStores ==
  ASSUME StoreInv, StoreInv', NEW d \in Descriptor, NEW offset \in SeekOffsets,
         NEW origin \in Origin, LibLSeek(d, offset, origin)
  PROVE  StoreStep
<1>1. TypeOK /\ TableInv /\ FileInv
  BY DEF StoreInv
<1>2. PICK target, p :
        /\ target = SeekTarget(fdTable[d], offset, origin)
        /\ fdTable' = [fdTable EXCEPT ![d].ByteOffset = target, ![d].FileDataPointer = p]
  BY DEF LibLSeek
<1>3. fdTable[d].InUse /\ ImageAndTablesStay /\ dir' = dir /\ target # INVALID_ARGUMENT
  BY <1>2 DEF LibLSeek, IsValidFileDescriptor, ImageAndTablesStay, image
<1>4. target \in 0 .. fdTable[d].FileSize
  <2>1. /\ fdTable[d].FileSize \in Nat /\ fdTable[d].FileSize < HalfWord
        /\ fdTable[d].ByteOffset \in Nat /\ offset \in Int
    BY <1>1, <1>3, OpenDescriptor, SizesAssumption, InputsAssumption
  <2> QED BY <1>2, <1>3, <2>1, SeekTargetInFile
<1>5. /\ \A e \in Descriptor \ {d} : fdTable'[e] = fdTable[e]
      /\ fdTable'[d].ByteOffset = target
      /\ fdTable'[d].FileSize = fdTable[d].FileSize
  BY <1>1, <1>2 DEF TypeOK, FileDescriptor
<1>6. Moves(d)
  BY <1>1, <1>5, TransferStep DEF Moves
<1>7. MappedHandle[d].size = fdTable[d].FileSize /\ Store!IsOpen(d)
  BY <1>3, OpenHandle
<1>8. MappedHandle' = [MappedHandle EXCEPT ![d].offset = target]
  BY <1>3, <1>5, <1>6, MoveShows
<1>9. Store!Seek(d, target)
  BY <1>3, <1>4, <1>5, <1>6, <1>7, <1>8, MoveShows DEF Store!Seek
<1>10. MappedHandle'[d].offset = target
  BY <1>8 DEF MappedHandle
<1>11. CASE MappedHandle'[d] = MappedHandle[d]
  <2>1. MappedHandle' = MappedHandle
    BY <1>8, <1>11 DEF MappedHandle
  <2> QED BY <1>3, <1>5, <1>6, <2>1, MoveShows DEF StoreStep, Store!storeVars
<1>12. CASE MappedHandle'[d] # MappedHandle[d]
  <2>1. Store!HandleStep(d)
    BY <1>9, <1>10, <1>12 DEF Store!HandleStep
  <2> QED BY <2>1 DEF StoreStep, Store!StoreNext
<1> QED BY <1>11, <1>12

(***************************************************************************)
(* Writing                                                                 *)
(***************************************************************************)
\* Where a byte of a slot lies.
LEMMA DataByte ==
  ASSUME TypeOK, TableInv, NEW v \in Device, NEW i \in Slots(Live(v)),
         NEW k \in 0 .. Live(v).File[i].MaxFileSize - 1
  PROVE  /\ DataStart(v, i) + k \in Address /\ DataStart(v, i) \in Nat
         /\ SlotStart(Live(v), i) + HeaderSize <= DataStart(v, i) + k
         /\ DataStart(v, i) + k < SlotEnd(Live(v), i)
<1>1. IsTiled(Live(v))
  BY LiveTiled DEF LiveIsTiled
<1>2. /\ SlotStart(Live(v), i) \in Nat /\ Live(v).File[i].MaxFileSize \in Nat
      /\ SlotEnd(Live(v), i) = SlotStart(Live(v), i) + HeaderSize + Live(v).File[i].MaxFileSize
      /\ FatSize <= SlotStart(Live(v), i) /\ SlotEnd(Live(v), i) <= DeviceSize
  BY <1>1, TiledSlots
<1> QED BY <1>2, SizesAssumption DEF DataStart, Address

\* What EEFS_LibWrite does to the cells of the files: those of its range get the byte.
LEMMA WriteCells ==
  ASSUME StoreInv, StoreInv', NEW d \in Descriptor, NEW Length \in Lengths, NEW b \in Byte,
         LibWrite(d, Length, b), NEW w \in Device, NEW j \in Slots(Live(w)),
         NEW k \in 0 .. Live(w).File[j].MaxFileSize - 1
  PROVE  LET f == fdTable[d]
             range == f.ByteOffset .. f.ByteOffset + BytesToWrite(f, Length) - 1
         IN  CellOf(w, j, k)' = IF w = f.InodeTable /\ j = f.InodeIndex /\ k \in range
                                THEN b ELSE CellOf(w, j, k)
<1>1. TypeOK /\ TableInv /\ FileInv /\ TypeOK'
  BY DEF StoreInv
<1>2. PICK f, v, i, n : f = fdTable[d] /\ v = f.InodeTable /\ i = f.InodeIndex
                        /\ n = BytesToWrite(f, Length)
  OBVIOUS
<1>3. /\ fdTable[d].InUse /\ inode' = inode /\ fat' = fat
      /\ eeprom' = [eeprom EXCEPT ![v] = WriteData(@, f.FileDataPointer, n, b)]
  BY <1>2 DEF LibWrite, IsValidFileDescriptor
<1>4. /\ f.ByteOffset \in Nat /\ f.FileHeaderPointer \in Nat
      /\ v \in Device /\ Live(v) = inode[v] /\ IsTiled(inode[v]) /\ i \in Slots(inode[v])
      /\ f.FileDataPointer = DataStart(v, i) + f.ByteOffset /\ DataStart(v, i) \in Nat
  BY <1>1, <1>2, <1>3, OpenDescriptor, SizesAssumption DEF DataStart
<1>5. /\ n \in Nat /\ f.ByteOffset + n <= inode[v].File[i].MaxFileSize
      /\ \A u \in Device \ {v} : eeprom'[u] = eeprom[u]
      /\ \A x \in Address : eeprom'[v][x] # eeprom[v][x] =>
           /\ n > 0
           /\ SlotStart(inode[v], i) + HeaderSize <= x /\ x < SlotEnd(inode[v], i)
  BY <1>1, <1>2, WrittenCells
<1>6. PICK x : x = DataStart(w, j) + k
  OBVIOUS
<1>7. /\ x \in Address /\ DataStart(w, j) \in Nat
      /\ SlotStart(Live(w), j) + HeaderSize <= x /\ x < SlotEnd(Live(w), j)
  BY <1>1, <1>6, DataByte
<1>8. CellOf(w, j, k) = eeprom[w][x] /\ CellOf(w, j, k)' = eeprom'[w][x]
  BY <1>3, <1>6 DEF CellOf, DataStart, Live, Loaded
<1>9. CASE w = v /\ j = i
  <2>1. eeprom[v] \in [Address -> Cell]
        /\ eeprom'[v] = WriteData(eeprom[v], f.FileDataPointer, n, b)
    BY <1>1, <1>3, <1>4 DEF TypeOK
  <2>2. CASE k \in f.ByteOffset .. f.ByteOffset + n - 1
    <3>1. f.FileDataPointer <= x /\ x < f.FileDataPointer + n
      BY <1>4, <1>5, <1>6, <1>7, <1>9, <2>2
    <3>2. eeprom'[w][x] = b
      BY <1>7, <1>9, <2>1, <3>1 DEF WriteData
    <3> QED BY <1>2, <1>8, <1>9, <2>2, <3>2
  <2>3. CASE k \notin f.ByteOffset .. f.ByteOffset + n - 1
    <3>1. x < f.FileDataPointer \/ f.FileDataPointer + n <= x
      BY <1>4, <1>5, <1>6, <1>7, <1>9, <2>3
    <3>2. f.FileDataPointer \in Int
      BY <1>4
    <3>3. eeprom'[w][x] = eeprom[w][x]
      BY <1>5, <1>7, <1>9, <2>1, <3>1, <3>2, DataWriteKeeps
    <3> QED BY <1>2, <1>8, <1>9, <2>3, <3>3
  <2> QED BY <2>2, <2>3
<1>10. CASE w = v /\ j # i
  <2>1. \/ SlotEnd(inode[v], i) <= SlotStart(inode[v], j)
        \/ SlotEnd(inode[v], j) <= SlotStart(inode[v], i)
    BY <1>4, <1>10, TiledSlots
  <2>2. SlotEnd(inode[v], i) \in Nat /\ SlotEnd(inode[v], j) \in Nat
        /\ SlotStart(inode[v], i) \in Nat /\ SlotStart(inode[v], j) \in Nat
    BY <1>4, <1>10, TiledSlots, SizesAssumption
  <2>3. ~ (SlotStart(inode[v], i) + HeaderSize <= x /\ x < SlotEnd(inode[v], i))
    BY <1>4, <1>7, <1>10, <2>1, <2>2, SizesAssumption DEF Address
  <2> QED BY <1>2, <1>5, <1>7, <1>8, <1>10, <2>3
<1>11. CASE w # v
  BY <1>2, <1>5, <1>8, <1>11
<1> QED BY <1>9, <1>10, <1>11

\* Headers and tables are what they were, so files and listing are.
LEMMA HeadersAndTablesStay ==
  ASSUME StoreInv, StoreInv', HeadersStay, fat' = fat, inode' = inode, dir' = dir
  PROVE  /\ MappedFile' = MappedFile /\ MappedMounted' = MappedMounted
         /\ MappedListing' = MappedListing
         /\ \A v \in Device : UsedSlots(v)' = UsedSlots(v) /\ Live(v)' = Live(v)
         /\ \A v \in Device : \A i \in UsedSlots(v) : StoredHeader(v, i)' = StoredHeader(v, i)
<1>1. ViewInv /\ ViewInv'
  BY Viewed, ViewedNext
<1>2. \A v \in Device : Live(v)' = Live(v)
  BY DEF Live, Loaded
<1>3. \A v \in Device : \A i \in Slots(Live(v)) : StoredHeader(v, i)' = StoredHeader(v, i)
  BY <1>1, <1>2 DEF ViewInv, SlotView, HeadersStay
<1>4. \A v \in Device : UsedSlots(v)' = UsedSlots(v) /\ UsedSlots(v) \subseteq Slots(Live(v))
  BY <1>1, <1>2 DEF ViewInv, SlotView, HeadersStay
<1>5. MappedFile' = MappedFile
  BY <1>3, <1>4 DEF MappedFile
<1>6. MappedMounted' = MappedMounted
  BY DEF MappedMounted, Loaded
<1>7. MappedListing' = MappedListing
  BY <1>4 DEF MappedListing, StoreInv, UseInv, DirectoryOnDevice
<1> QED BY <1>2, <1>3, <1>4, <1>5, <1>6, <1>7

\* The descriptor that writes n bytes.
WriterMoves(d, n) ==
  LET f == fdTable[d]
      last == f.ByteOffset + n
  IN  /\ Moves(d)
      /\ fdTable'[d].ByteOffset = last
      /\ fdTable'[d].FileSize = IF last > f.FileSize THEN last ELSE f.FileSize

\* A file gets longer only as far as the write goes.
LEMMA SizeFollows ==
  ASSUME StoreInv, StoreInv', HeadersStay, fat' = fat, inode' = inode, dir' = dir,
         NEW d \in Descriptor, NEW n \in Nat, fdTable[d].InUse, WriterMoves(d, n),
         NEW w \in Device, NEW j \in UsedSlots(w), NEW k \in Nat, k < VisibleSize(w, j)'
  PROVE  \/ k < VisibleSize(w, j)
         \/ /\ w = fdTable[d].InodeTable /\ j = fdTable[d].InodeIndex
            /\ k \in fdTable[d].ByteOffset .. fdTable[d].ByteOffset + n - 1
<1>1. ViewInv /\ ViewInv'
  BY Viewed, ViewedNext
<1>2. j \in UsedSlots(w)' /\ StoredHeader(w, j)' = StoredHeader(w, j)
  BY HeadersAndTablesStay
<1>3. OpenOnSlot(w, j)' = OpenOnSlot(w, j) /\ OpenOnSlot(w, j) \subseteq Descriptor
  BY DEF OpenOnSlot, OpenOn, WriterMoves, Moves
<1>4. /\ VisibleSize(w, j) \in Nat /\ VisibleSize(w, j)' \in Nat /\ k \in Nat
      /\ k < VisibleSize(w, j)'
      /\ \/ VisibleSize(w, j)' = StoredHeader(w, j).FileSize
         \/ \E e \in OpenOnSlot(w, j) : VisibleSize(w, j)' = fdTable'[e].FileSize
  BY <1>1, <1>2, <1>3 DEF ViewInv, SizeView
<1>5. StoredHeader(w, j).FileSize <= VisibleSize(w, j)
      /\ \A e \in OpenOnSlot(w, j) : fdTable[e].FileSize <= VisibleSize(w, j)
  BY <1>1 DEF ViewInv, SizeView
<1>6. CASE VisibleSize(w, j)' = StoredHeader(w, j).FileSize
  BY <1>4, <1>5, <1>6
<1>7. ASSUME NEW e \in OpenOnSlot(w, j), VisibleSize(w, j)' = fdTable'[e].FileSize
      PROVE  \/ k < VisibleSize(w, j)
             \/ /\ w = fdTable[d].InodeTable /\ j = fdTable[d].InodeIndex
                /\ k \in fdTable[d].ByteOffset .. fdTable[d].ByteOffset + n - 1
  <2>1. CASE e # d
    <3>1. fdTable'[e].FileSize = fdTable[e].FileSize
      BY <1>3, <2>1 DEF WriterMoves, Moves
    <3> QED BY <1>4, <1>5, <1>7, <3>1
  <2>2. CASE e = d
    <3>1. w = fdTable[d].InodeTable /\ j = fdTable[d].InodeIndex
      BY <2>2 DEF OpenOnSlot, OpenOn
    <3>2. /\ fdTable[d].ByteOffset \in Nat /\ fdTable[d].FileSize \in Nat
          /\ fdTable[d].ByteOffset <= fdTable[d].FileSize
      BY OpenDescriptor DEF StoreInv
    <3>3. VisibleSize(w, j)' = fdTable[d].FileSize
          \/ VisibleSize(w, j)' = fdTable[d].ByteOffset + n
      BY <1>7, <2>2 DEF WriterMoves
    <3>4. fdTable[d].FileSize <= VisibleSize(w, j)
      BY <1>5, <2>2
    <3> QED BY <1>4, <3>1, <3>2, <3>3, <3>4
  <2> QED BY <2>1, <2>2
<1> QED BY <1>4, <1>6, <1>7

LEMMA WriterStep ==
  ASSUME TypeOK, TableInv, FileInv, NEW d \in Descriptor, NEW Length \in Lengths, NEW b \in Byte,
         LibWrite(d, Length, b)
  PROVE  LET n == BytesToWrite(fdTable[d], Length)
         IN  /\ fdTable[d].InUse /\ FWRITE \in fdTable[d].Mode /\ n \in Nat
             /\ fat' = fat /\ inode' = inode /\ dir' = dir /\ WriterMoves(d, n)
<1>1. PICK f, n : f = fdTable[d] /\ n = BytesToWrite(f, Length)
  OBVIOUS
<1>2. PICK p : p = f.FileDataPointer + n
  OBVIOUS
<1>3. PICK last : last = f.ByteOffset + n
  OBVIOUS
<1>4. PICK s : s = IF last > f.FileSize THEN last ELSE f.FileSize
  OBVIOUS
<1>5. /\ f.InUse /\ FWRITE \in f.Mode /\ fat' = fat /\ inode' = inode /\ dir' = dir
      /\ fdTable' = [fdTable EXCEPT ![d] =
           [f EXCEPT !.FileDataPointer = p, !.ByteOffset = last, !.FileSize = s]]
  BY <1>1, <1>2, <1>3, <1>4 DEF LibWrite, IsValidFileDescriptor
<1>6. n \in Nat
  BY <1>1, WrittenCells
<1>7. f \in FileDescriptor /\ fdTable \in [Descriptor -> FileDescriptor]
  BY <1>1 DEF TypeOK
<1>8. /\ fdTable'[d].ByteOffset = last /\ fdTable'[d].FileSize = s
      /\ \A e \in Descriptor \ {d} : fdTable'[e] = fdTable[e]
  BY <1>5, <1>7 DEF FileDescriptor
<1>9. Moves(d)
  BY <1>8, TransferStep DEF Moves
<1> QED BY <1>1, <1>3, <1>4, <1>5, <1>6, <1>8, <1>9 DEF WriterMoves

\* EEFS_LibWrite stores bytes in the one file the descriptor is open on.
LEMMA WriteStores ==
  ASSUME StoreInv, StoreInv', NEW d \in Descriptor, NEW Length \in Lengths, NEW b \in Byte,
         LibWrite(d, Length, b)
  PROVE  StoreStep
<1>1. TypeOK /\ TableInv /\ FileInv /\ ViewInv /\ ViewInv'
  BY Viewed, ViewedNext DEF StoreInv
<1>2. PICK f, v, i, n, off : f = fdTable[d] /\ v = f.InodeTable /\ i = f.InodeIndex
                        /\ n = BytesToWrite(f, Length) /\ off = f.ByteOffset
  OBVIOUS
<1>3. /\ fdTable[d].InUse /\ FWRITE \in fdTable[d].Mode /\ n \in Nat
      /\ fat' = fat /\ inode' = inode /\ dir' = dir /\ WriterMoves(d, n)
  BY <1>1, <1>2, WriterStep
<1>4. HeadersStay
  BY <1>1, WriteKeepsHeaders
<1>5. /\ MappedFile' = MappedFile /\ MappedMounted' = MappedMounted
      /\ MappedListing' = MappedListing
      /\ \A w \in Device : UsedSlots(w)' = UsedSlots(w) /\ Live(w)' = Live(w)
  BY <1>3, <1>4, HeadersAndTablesStay
<1>6. PICK h : h = MappedHandle[d]
  OBVIOUS
<1>7. /\ h.device = v /\ h.id = i /\ h.offset = off /\ h.size = f.FileSize
      /\ h.writes /\ Store!IsOpen(d)
  BY <1>2, <1>3, <1>6, OpenHandle
<1>8. off \in Nat /\ f.FileSize \in Nat
  BY <1>1, <1>2, <1>3, OpenDescriptor
<1>9. PICK last, size : last = off + n /\ size = IF last > f.FileSize THEN last ELSE f.FileSize
  OBVIOUS
<1>10. MappedHandle' = [MappedHandle EXCEPT ![d].offset = last, ![d].size = size]
  BY <1>2, <1>3, <1>9, HandleMoves DEF WriterMoves
<1>11. Store!BytesAfter(v, i, off .. last - 1, b)
  <2> DEFINE range == off .. last - 1
  <2> SUFFICES ASSUME NEW w \in Device, NEW j \in UsedSlots(w)',
                      NEW k \in 0 .. VisibleSize(w, j)' - 1
               PROVE  ByteFollows(v, i, range, b, w, j, k)
    BY <1>1, BytesFollow
  <2>0. /\ range = fdTable[d].ByteOffset .. fdTable[d].ByteOffset + n - 1
        /\ range = fdTable[d].ByteOffset ..
                     fdTable[d].ByteOffset + BytesToWrite(fdTable[d], Length) - 1
    BY <1>2, <1>3, <1>8, <1>9
  <2> HIDE DEF range
  <2>1. j \in UsedSlots(w) /\ j \in Slots(Live(w))
    BY <1>1, <1>5 DEF ViewInv, SlotView
  <2>2. k < VisibleSize(w, j) \/ (w = v /\ j = i /\ k \in range)
    <3>1. \/ k < VisibleSize(w, j)
          \/ /\ w = fdTable[d].InodeTable /\ j = fdTable[d].InodeIndex
             /\ k \in fdTable[d].ByteOffset .. fdTable[d].ByteOffset + n - 1
      <4>1. k \in Nat /\ k < VisibleSize(w, j)'
        BY <1>1 DEF ViewInv, SizeView
      <4> QED BY <1>3, <1>4, <2>1, <4>1, SizeFollows
    <3> QED BY <1>2, <2>0, <3>1
  <2>3. k \in 0 .. Live(w).File[j].MaxFileSize - 1
    <3>1. VisibleSize(w, j)' \in Nat /\ VisibleSize(w, j)' <= Live(w)'.File[j].MaxFileSize
      BY <1>1 DEF ViewInv, SizeView
    <3>2. Live(w)' = Live(w) /\ Live(w).File[j].MaxFileSize \in Nat
      BY <1>1, <1>5, <2>1, LiveTiled, TiledSlots DEF LiveIsTiled
    <3> QED BY <3>1, <3>2
  <2>4. CellOf(w, j, k)' = IF w = v /\ j = i /\ k \in range THEN b ELSE CellOf(w, j, k)
    BY <1>2, <2>0, <2>1, <2>3, WriteCells
  <2> QED BY <2>1, <2>2, <2>4 DEF ByteFollows
<1>12. Store!Write(d, n, b)
  <2>1. last = h.offset + n /\ size = IF last > h.size THEN last ELSE h.size
    BY <1>7, <1>9
  <2>2. MappedHandle' = [MappedHandle EXCEPT ![d].offset = last,
                                             ![d].size = IF last > h.size THEN last ELSE h.size]
    BY <1>10, <2>1
  <2>3. Store!BytesAfter(h.device, h.id, h.offset .. last - 1, b)
    BY <1>7, <1>11
  <2>4. UNCHANGED <<MappedMounted, MappedListing, MappedFile>>
    BY <1>5
  <2>5. last = h.offset + n
    BY <2>1
  <2> QED BY <1>6, <1>7, <2>2, <2>3, <2>4, <2>5 DEF Store!Write
<1>13. CASE MappedHandle'[d] = MappedHandle[d]
  <2>1. MappedHandle' = MappedHandle
    BY <1>10, <1>13 DEF MappedHandle
  <2>2. n = 0
    <3>1. MappedHandle'[d].offset = last
      BY <1>10 DEF MappedHandle
    <3> QED BY <1>3, <1>6, <1>7, <1>8, <1>9, <1>13, <3>1
  <2>3. eeprom' = eeprom
    <3>1. eeprom \in [Device -> [Address -> Cell]] /\ eeprom' \in [Device -> [Address -> Cell]]
      BY DEF StoreInv, TypeOK
    <3>2. v \in Device /\ \A u \in Device : \A x \in Address : eeprom'[u][x] = eeprom[u][x]
      <4>1. /\ \A u \in Device \ {v} : eeprom'[u] = eeprom[u]
            /\ \A x \in Address : eeprom'[v][x] # eeprom[v][x] => n > 0
        BY <1>1, <1>2, WrittenCells
      <4>2. v \in Device
        BY <1>1, <1>2, <1>3, OpenDescriptor
      <4> QED BY <2>2, <4>1, <4>2
    <3> QED BY <3>1, <3>2
  <2>4. fdTable'[d].FileSize = fdTable[d].FileSize
    <3>1. MappedHandle'[d].size = fdTable'[d].FileSize /\ MappedHandle[d].size = fdTable[d].FileSize
      BY DEF MappedHandle
    <3> QED BY <1>13, <3>1
  <2>5. MappedBytes' = MappedBytes
    BY <1>3, <2>3, <2>4, MoveShows DEF WriterMoves, ImageAndTablesStay
  <2> QED BY <1>5, <2>1, <2>5 DEF StoreStep, Store!storeVars
<1>14. CASE MappedHandle'[d] # MappedHandle[d]
  <2>1. MappedHandle'[d].offset - MappedHandle[d].offset = n
    <3>1. MappedHandle'[d].offset = last
      BY <1>10 DEF MappedHandle
    <3> QED BY <1>3, <1>6, <1>7, <1>8, <1>9, <3>1
  <2>2. Store!HandleStep(d)
    BY <1>3, <1>12, <1>14, <2>1 DEF Store!HandleStep
  <2> QED BY <2>2 DEF StoreStep, Store!StoreNext
<1> QED BY <1>13, <1>14

(***************************************************************************)
(* Writing the header of a file                                            *)
(***************************************************************************)
\* Bytes stay with the cells when no file becomes longer, but for those that are empty.
LEMMA BytesShrink ==
  ASSUME ViewInv, ViewInv',
         \A v \in Device : \A i \in UsedSlots(v)' :
           \/ VisibleSize(v, i)' = 0
           \/ /\ i \in UsedSlots(v) /\ VisibleSize(v, i)' <= VisibleSize(v, i)
              /\ \A k \in 0 .. VisibleSize(v, i) - 1 : CellOf(v, i, k)' = CellOf(v, i, k)
  PROVE  Store!SameBytes
<1> SUFFICES ASSUME NEW v \in Device, NEW i \in UsedSlots(v)',
                    NEW k \in 0 .. VisibleSize(v, i)' - 1
             PROVE  ByteFollows(NullTable, 0, {}, 0, v, i, k)
  BY BytesFollow DEF Store!SameBytes
<1>1. VisibleSize(v, i)' \in Nat
  BY DEF ViewInv, SizeView
<1>2. VisibleSize(v, i)' # 0
  BY <1>1
<1>3. /\ i \in UsedSlots(v) /\ VisibleSize(v, i)' <= VisibleSize(v, i)
      /\ \A x \in 0 .. VisibleSize(v, i) - 1 : CellOf(v, i, x)' = CellOf(v, i, x)
  BY <1>2
<1>4. VisibleSize(v, i) \in Nat
  BY <1>3 DEF ViewInv, SizeView
<1>5. k < VisibleSize(v, i) /\ k \in 0 .. VisibleSize(v, i) - 1
  BY <1>1, <1>3, <1>4
<1> QED BY <1>3, <1>5 DEF ByteFollows

\* A header that is written outside the data of every slot leaves that data alone.
LEMMA HeaderKeepsCells ==
  ASSUME TypeOK, TableInv, NEW v \in Device, NEW p \in Nat, NEW h, WritesHeaderAt(v, p, h),
         \A i \in Slots(Live(v)) :
           p + HeaderSize <= DataStart(v, i) \/ SlotEnd(Live(v), i) <= p,
         NEW w \in Device, NEW j \in Slots(Live(w)), DataStart(w, j)' = DataStart(w, j),
         NEW k \in 0 .. Live(w).File[j].MaxFileSize - 1
  PROVE  CellOf(w, j, k)' = CellOf(w, j, k)
<1>1. PICK x : x = DataStart(w, j) + k
  OBVIOUS
<1>2. /\ x \in Address /\ DataStart(w, j) \in Nat /\ DataStart(w, j) <= x
      /\ x < SlotEnd(Live(w), j)
  BY <1>1, DataByte DEF DataStart
<1>3. CellOf(w, j, k)' = eeprom'[w][x] /\ CellOf(w, j, k) = eeprom[w][x]
  BY <1>1 DEF CellOf
<1>4. CASE w = v
  <2>1. eeprom[v] \in [Address -> Cell] /\ eeprom'[v] = WriteHeader(eeprom[v], p, h)
    BY DEF WritesHeaderAt, TypeOK
  <2>2. SlotEnd(Live(v), j) \in Nat
    BY <1>4, LiveTiled, TiledSlots, SizesAssumption DEF LiveIsTiled
  <2>3. p + HeaderSize <= DataStart(v, j) \/ SlotEnd(Live(v), j) <= p
    BY <1>4
  <2>4. x < p \/ p + HeaderSize <= x
    BY <1>2, <1>4, <2>2, <2>3, SizesAssumption DEF Address
  <2> QED BY <1>2, <1>3, <1>4, <2>1, <2>4, HeaderWriteKeeps
<1>5. CASE w # v
  BY <1>3, <1>5 DEF WritesHeaderAt, TypeOK
<1> QED BY <1>4, <1>5

\* A header of a slot is outside the data of every slot.
LEMMA HeaderIsOutside ==
  ASSUME TypeOK, TableInv, NEW v \in Device, NEW i \in Slots(Live(v)), NEW j \in Slots(Live(v))
  PROVE  LET p == SlotStart(Live(v), i)
         IN  p \in Nat /\ (p + HeaderSize <= DataStart(v, j) \/ SlotEnd(Live(v), j) <= p)
<1>1. IsTiled(Live(v))
  BY LiveTiled DEF LiveIsTiled
<1>2. /\ SlotStart(Live(v), i) \in Nat /\ SlotStart(Live(v), j) \in Nat
      /\ Live(v).File[i].MaxFileSize \in Nat
      /\ SlotEnd(Live(v), i) = SlotStart(Live(v), i) + HeaderSize + Live(v).File[i].MaxFileSize
      /\ i # j => \/ SlotEnd(Live(v), i) <= SlotStart(Live(v), j)
                  \/ SlotEnd(Live(v), j) <= SlotStart(Live(v), i)
  BY <1>1, TiledSlots
<1> QED BY <1>2, SizesAssumption DEF DataStart

\* What a step shows that stores header h in slot i of v and changes no table.
HeaderChange(v, i, h) ==
  /\ MappedMounted' = MappedMounted
  /\ Live(v) = inode[v] /\ Loaded(v)
  /\ \A w \in Device : Live(w)' = Live(w)
  /\ \A w \in Device : \A j \in Slots(Live(w)) :
       /\ StoredHeader(w, j)' = IF w = v /\ j = i THEN h ELSE StoredHeader(w, j)
       /\ \A k \in 0 .. Live(w).File[j].MaxFileSize - 1 : CellOf(w, j, k)' = CellOf(w, j, k)
  /\ \A w \in Device :
       UsedSlots(w)' = IF w # v THEN UsedSlots(w)
                       ELSE IF h.InUse THEN UsedSlots(v) \cup {i} ELSE UsedSlots(v) \ {i}

LEMMA HeaderChanges ==
  ASSUME StoreInv, StoreInv', NEW v \in Device, NEW i \in Slots(inode[v]),
         NEW h \in FileHeader, WritesHeader(v, i, h)
  PROVE  HeaderChange(v, i, h)
<1>1. TypeOK /\ TableInv /\ ViewInv /\ ViewInv'
  BY Viewed, ViewedNext DEF StoreInv
<1>2. Loaded(v) /\ Live(v) = inode[v] /\ IsTiled(inode[v])
  BY <1>1, SlotIsLive, LiveTiled DEF LiveIsTiled
<1>3. fat' = fat /\ inode' = inode /\ WritesHeaderAt(v, SlotStart(inode[v], i), h)
  BY DEF WritesHeader, WritesHeaderAt
<1>4. \A w \in Device : Live(w)' = Live(w) /\ MappedMounted' = MappedMounted
  BY <1>3 DEF Live, Loaded, MappedMounted
<1>5. eeprom[v] \in [Address -> Cell] /\ eeprom'[v] = WriteHeader(eeprom[v], SlotStart(inode[v], i), h)
      /\ \A w \in Device \ {v} : eeprom'[w] = eeprom[w]
  BY <1>1, <1>3 DEF WritesHeaderAt, TypeOK
<1>6. /\ HeaderIn(eeprom'[v], inode[v], i) = h
      /\ \A j \in Slots(inode[v]) \ {i} :
           HeaderIn(eeprom'[v], inode[v], j) = HeaderIn(eeprom[v], inode[v], j)
  BY <1>2, <1>5, OtherHeadersKept
<1>7. \A w \in Device : \A j \in Slots(Live(w)) :
        StoredHeader(w, j)' = IF w = v /\ j = i THEN h ELSE StoredHeader(w, j)
  <2> SUFFICES ASSUME NEW w \in Device, NEW j \in Slots(Live(w))
               PROVE  StoredHeader(w, j)' = IF w = v /\ j = i THEN h ELSE StoredHeader(w, j)
    OBVIOUS
  <2>1. /\ StoredHeader(w, j)' = HeaderIn(eeprom'[w], Live(w), j)
        /\ StoredHeader(w, j) = HeaderIn(eeprom[w], Live(w), j)
    BY <1>1, <1>4 DEF ViewInv, SlotView
  <2> QED BY <1>2, <1>5, <1>6, <2>1
<1>8. ASSUME NEW w \in Device, NEW j \in Slots(Live(w)),
             NEW k \in 0 .. Live(w).File[j].MaxFileSize - 1
      PROVE  CellOf(w, j, k)' = CellOf(w, j, k)
  <2>1. DataStart(w, j)' = DataStart(w, j)
    BY <1>4 DEF DataStart
  <2>2. SlotStart(inode[v], i) \in Nat
        /\ \A s \in Slots(Live(v)) : \/ SlotStart(inode[v], i) + HeaderSize <= DataStart(v, s)
                                     \/ SlotEnd(Live(v), s) <= SlotStart(inode[v], i)
    BY <1>1, <1>2, HeaderIsOutside
  <2> QED BY <1>1, <1>3, <2>1, <2>2, HeaderKeepsCells
<1>9. ASSUME NEW w \in Device
      PROVE  UsedSlots(w)' = IF w # v THEN UsedSlots(w)
                             ELSE IF h.InUse THEN UsedSlots(v) \cup {i} ELSE UsedSlots(v) \ {i}
  <2>1. /\ UsedSlots(w)' = {j \in Slots(Live(w)) : StoredHeader(w, j)'.InUse}
        /\ UsedSlots(w) = {j \in Slots(Live(w)) : StoredHeader(w, j).InUse}
    BY <1>1, <1>4 DEF ViewInv, SlotView
  <2> QED BY <1>2, <1>7, <2>1
<1> QED BY <1>2, <1>4, <1>7, <1>8, <1>9 DEF HeaderChange

\* A step that stores a header of a file still in use shows in that file.
LEMMA FileEdited ==
  ASSUME StoreInv, StoreInv', NEW v \in Device, NEW i \in Slots(inode[v]),
         NEW h \in FileHeader, WritesHeader(v, i, h), i \in UsedSlots(v), h.InUse
  PROVE  /\ MappedFile' = [MappedFile EXCEPT ![v][i] =
              [name |-> h.Filename, attributes |-> h.Attributes, size |-> h.FileSize,
               durable |-> MappedFile[v][i].durable]]
         /\ \A w \in Device : UsedSlots(w)' = UsedSlots(w)
         /\ dir' = dir => MappedListing' = MappedListing
<1> DEFINE new == [name |-> h.Filename, attributes |-> h.Attributes, size |-> h.FileSize,
                   durable |-> MappedFile[v][i].durable]
           after == [MappedFile EXCEPT ![v][i] = new]
<1>1. ViewInv /\ ViewInv' /\ HeaderChange(v, i, h)
  BY Viewed, ViewedNext, HeaderChanges
<1>2. \A w \in Device : UsedSlots(w)' = UsedSlots(w) /\ UsedSlots(w) \subseteq Slots(Live(w))
  <2>1. UsedSlots(v) \cup {i} = UsedSlots(v)
    OBVIOUS
  <2>2. \A w \in Device : UsedSlots(w)' = UsedSlots(w)
    BY <1>1, <2>1 DEF HeaderChange
  <2> QED BY <1>1, <2>2 DEF ViewInv, SlotView
<1>3. fat' = fat
  BY DEF WritesHeader
<1>4. \A w \in Device : \A j \in UsedSlots(w) :
        MappedFile'[w][j] = IF w = v /\ j = i THEN new ELSE MappedFile[w][j]
  <2> SUFFICES ASSUME NEW w \in Device, NEW j \in UsedSlots(w)
               PROVE  MappedFile'[w][j] = IF w = v /\ j = i THEN new ELSE MappedFile[w][j]
    OBVIOUS
  <2>1. StoredHeader(w, j)' = IF w = v /\ j = i THEN h ELSE StoredHeader(w, j)
    BY <1>1, <1>2 DEF HeaderChange
  <2>2. /\ MappedFile'[w][j] =
             [name |-> StoredHeader(w, j)'.Filename, attributes |-> StoredHeader(w, j)'.Attributes,
              size |-> StoredHeader(w, j)'.FileSize, durable |-> j \in Slots(fat[w])]
        /\ MappedFile[w][j] =
             [name |-> StoredHeader(w, j).Filename, attributes |-> StoredHeader(w, j).Attributes,
              size |-> StoredHeader(w, j).FileSize, durable |-> j \in Slots(fat[w])]
    BY <1>2, <1>3 DEF MappedFile
  <2> QED BY <2>1, <2>2
<1>5. /\ MappedFile' = [w \in Device |-> [j \in UsedSlots(w) |-> MappedFile'[w][j]]]
      /\ MappedFile = [w \in Device |-> [j \in UsedSlots(w) |-> MappedFile[w][j]]]
  BY <1>2 DEF MappedFile
<1> HIDE DEF new
<1>6. MappedFile' = after
  <2>1. after = [w \in Device |-> after[w]] /\ MappedFile' = [w \in Device |-> MappedFile'[w]]
    BY <1>5
  <2>2. \A w \in Device : after[w] = MappedFile'[w]
    BY <1>4, <1>5
  <2> QED BY <2>1, <2>2
<1>7. dir' = dir => MappedListing' = MappedListing
  BY <1>2 DEF MappedListing, StoreInv, UseInv, DirectoryOnDevice
<1> QED BY <1>2, <1>6, <1>7 DEF new

\* Its bytes stay when it keeps its size and no descriptor changes.
LEMMA EditKeepsBytes ==
  ASSUME StoreInv, StoreInv', NEW v \in Device, NEW i \in Slots(inode[v]),
         NEW h \in FileHeader, WritesHeader(v, i, h), i \in UsedSlots(v), h.InUse,
         h.FileSize = StoredHeader(v, i).FileSize, fdTable' = fdTable
  PROVE  MappedBytes' = MappedBytes
<1>1. ViewInv /\ ViewInv' /\ HeaderChange(v, i, h)
  BY Viewed, ViewedNext, HeaderChanges
<1>2. \A w \in Device : UsedSlots(w)' = UsedSlots(w) /\ UsedSlots(w) \subseteq Slots(Live(w))
  BY <1>1, FileEdited DEF ViewInv, SlotView
<1>3. \A w, j : OpenOnSlot(w, j)' = OpenOnSlot(w, j)
  BY DEF OpenOnSlot, OpenOn
<1>4. \A w \in Device : \A j \in UsedSlots(w) :
        StoredHeader(w, j)'.FileSize = StoredHeader(w, j).FileSize
  BY <1>1, <1>2 DEF HeaderChange
<1>5. \A w \in Device : \A j \in UsedSlots(w) : VisibleSize(w, j)' = VisibleSize(w, j)
  BY <1>1, <1>2, <1>3, <1>4, SizeStays
<1>6. \A w \in Device : \A j \in UsedSlots(w) : \A k \in 0 .. VisibleSize(w, j) - 1 :
        CellOf(w, j, k)' = CellOf(w, j, k)
  <2> SUFFICES ASSUME NEW w \in Device, NEW j \in UsedSlots(w), NEW k \in 0 .. VisibleSize(w, j) - 1
               PROVE  CellOf(w, j, k)' = CellOf(w, j, k)
    OBVIOUS
  <2>1. VisibleSize(w, j) \in Nat /\ VisibleSize(w, j) <= Live(w).File[j].MaxFileSize
    BY <1>1 DEF ViewInv, SizeView
  <2>2. Live(w).File[j].MaxFileSize \in Nat /\ j \in Slots(Live(w))
    BY <1>2, LiveTiled, TiledSlots DEF LiveIsTiled, StoreInv
  <2>3. k \in 0 .. Live(w).File[j].MaxFileSize - 1
    BY <2>1, <2>2
  <2> QED BY <1>1, <2>2, <2>3 DEF HeaderChange
<1> QED BY <1>1, <1>2, <1>5, <1>6, BytesStay

\* The files of a loaded device, as the library reads their headers.
LEMMA LoadedViewed ==
  ASSUME StoreInv, NEW v \in Device, Loaded(v)
  PROVE  /\ UsedSlots(v) = {i \in Slots(inode[v]) : Header(v, i).InUse}
         /\ DOMAIN MappedFile[v] = UsedSlots(v)
         /\ \A i \in UsedSlots(v) :
              /\ StoredHeader(v, i) = Header(v, i)
              /\ MappedFile[v][i] =
                   [name |-> Header(v, i).Filename, attributes |-> Header(v, i).Attributes,
                    size |-> Header(v, i).FileSize, durable |-> i \in Slots(fat[v])]
<1>1. Live(v) = inode[v] /\ ViewInv
  BY Viewed DEF Live
<1>2. SlotView(v) /\ \A i : HeaderIn(eeprom[v], inode[v], i) = Header(v, i)
  BY <1>1 DEF ViewInv, HeaderIn, Header, SlotStart
<1>3. UsedSlots(v) = {i \in Slots(inode[v]) : Header(v, i).InUse}
      /\ \A i \in UsedSlots(v) : StoredHeader(v, i) = Header(v, i)
  BY <1>1, <1>2 DEF SlotView
<1>4. DOMAIN MappedFile[v] = UsedSlots(v)
      /\ \A i \in UsedSlots(v) :
           MappedFile[v][i] =
             [name |-> StoredHeader(v, i).Filename, attributes |-> StoredHeader(v, i).Attributes,
              size |-> StoredHeader(v, i).FileSize, durable |-> i \in Slots(fat[v])]
  BY DEF MappedFile
<1> QED BY <1>3, <1>4

\* A name that EEFS_LibFindFile does not find is no file's.
LEMMA NoNameViewed ==
  ASSUME StoreInv, NEW v \in Device, Loaded(v), NEW n, FindFile(v, n) = FILE_NOT_FOUND
  PROVE  Store!Named(v, n) = {}
<1>1. \A i \in Slots(inode[v]) : ~ (Header(v, i).InUse /\ Header(v, i).Filename = n)
  BY FindFileResult, SlotsAreIndices DEF StoreInv
<1>2. \A i \in UsedSlots(v) : MappedFile[v][i].name # n
  <2> SUFFICES ASSUME NEW i \in UsedSlots(v) PROVE MappedFile[v][i].name # n
    OBVIOUS
  <2>1. i \in Slots(inode[v]) /\ Header(v, i).InUse
    BY LoadedViewed
  <2>2. MappedFile[v][i].name = Header(v, i).Filename
    <3>1. MappedFile[v][i] =
            [name |-> Header(v, i).Filename, attributes |-> Header(v, i).Attributes,
             size |-> Header(v, i).FileSize, durable |-> i \in Slots(fat[v])]
      BY LoadedViewed
    <3> QED BY <3>1
  <2> QED BY <1>1, <2>1, <2>2
<1>3. DOMAIN MappedFile[v] = UsedSlots(v)
  BY DEF MappedFile
<1> QED BY <1>2, <1>3 DEF Store!Named

\* The slot it finds is the file of that name.
LEMMA NameViewed ==
  ASSUME StoreInv, NEW v \in Device, NEW n, NEW i, i = FindFile(v, n), i # FILE_NOT_FOUND
  PROVE  /\ Loaded(v) /\ i \in Slots(inode[v]) /\ i \in UsedSlots(v)
         /\ i \in Store!Named(v, n)
         /\ StoredHeader(v, i) = Header(v, i)
         /\ Header(v, i) \in FileHeader /\ Header(v, i).InUse /\ Header(v, i).Filename = n
         /\ MappedFile[v][i] =
              [name |-> n, attributes |-> Header(v, i).Attributes,
               size |-> Header(v, i).FileSize, durable |-> i \in Slots(fat[v])]
<1>1. i \in Slots(inode[v]) /\ Header(v, i).InUse /\ Header(v, i).Filename = n
  BY FindFileResult DEF StoreInv
<1>2. Loaded(v) /\ Header(v, i) \in FileHeader
  BY <1>1, SlotIsLive, HeaderAtType DEF StoreInv, Header
<1>3. i \in UsedSlots(v)
  BY <1>1, <1>2, LoadedViewed
<1> QED BY <1>1, <1>2, <1>3, LoadedViewed DEF Store!Named

(***************************************************************************)
(* Names                                                                   *)
(***************************************************************************)
\* A size that fits is below the end of the slot: the bytes of a file are in its slot.
LEMMA VisibleBytes ==
  ASSUME StoreInv, NEW v \in Device, NEW i \in UsedSlots(v), NEW k \in 0 .. VisibleSize(v, i) - 1
  PROVE  i \in Slots(Live(v)) /\ k \in 0 .. Live(v).File[i].MaxFileSize - 1
<1>1. SlotView(v) /\ SizeView(v, i)
  BY Viewed DEF ViewInv
<1>2. i \in Slots(Live(v))
  BY <1>1 DEF SlotView
<1>3. Live(v).File[i].MaxFileSize \in Nat
  BY <1>2, LiveTiled, TiledSlots DEF LiveIsTiled, StoreInv
<1> QED BY <1>1, <1>2, <1>3 DEF SizeView

\* EEFS_LibRemove takes one file away that nobody has open.
LEMMA RemoveStores ==
  ASSUME StoreInv, StoreInv', NEW v \in Device, NEW n \in Filename, LibRemove(v, n)
  PROVE  StoreStep
<1>1. TypeOK /\ TableInv /\ FileInv /\ ViewInv /\ ViewInv'
  BY Viewed, ViewedNext DEF StoreInv
<1>2. PICK i : i = FindFile(v, n)
  OBVIOUS
<1>3. /\ i # FILE_NOT_FOUND /\ Header(v, i).Attributes # READONLY /\ Fmode(v, i) = {}
      /\ StoreHeader(v, i, ZeroHeader)
  BY <1>2 DEF LibRemove
<1>4. /\ Loaded(v) /\ i \in Slots(inode[v]) /\ i \in UsedSlots(v) /\ i \in Store!Named(v, n)
      /\ MappedFile[v][i].attributes = Header(v, i).Attributes
  <2>1. /\ Loaded(v) /\ i \in Slots(inode[v]) /\ i \in UsedSlots(v) /\ i \in Store!Named(v, n)
        /\ MappedFile[v][i] =
              [name |-> n, attributes |-> Header(v, i).Attributes,
               size |-> Header(v, i).FileSize, durable |-> i \in Slots(fat[v])]
    BY <1>2, <1>3, NameViewed
  <2> QED BY <2>1
<1>5. WritesHeader(v, i, ZeroHeader) /\ fdTable' = fdTable /\ dir' = dir
  BY <1>3 DEF StoreHeader, WritesHeader, SlotStart
<1>6. HeaderChange(v, i, ZeroHeader)
  BY <1>4, <1>5, ZeroTypes, HeaderChanges
<1>7. /\ UsedSlots(v)' = UsedSlots(v) \ {i}
      /\ \A w \in Device \ {v} : UsedSlots(w)' = UsedSlots(w)
  BY <1>6 DEF HeaderChange, ZeroHeader
<1>8. Store!OpenOnFile(v, i) = {}
  <2>1. \A d \in OpenOnSlot(v, i) : fdTable[d].Mode # {} /\ fdTable[d].Mode \subseteq Fmode(v, i)
    BY <1>1, <1>4, SlotHeader DEF OpenOnSlot, OpenOn, Fmode
  <2>2. OpenOnSlot(v, i) = {}
    BY <1>3, <2>1
  <2> QED BY <2>2, OpenViewed
<1>9. \A w \in Device : \A j \in UsedSlots(w)' :
        /\ j \in UsedSlots(w) /\ j \in Slots(Live(w))
        /\ StoredHeader(w, j)' = StoredHeader(w, j)
        /\ \A k \in 0 .. Live(w).File[j].MaxFileSize - 1 : CellOf(w, j, k)' = CellOf(w, j, k)
  <2>1. \A w \in Device : UsedSlots(w) \subseteq Slots(Live(w))
    BY <1>1 DEF ViewInv, SlotView
  <2> QED BY <1>6, <1>7, <2>1 DEF HeaderChange
<1>10. MappedFile' = [MappedFile EXCEPT ![v] = Store!Only(@, DOMAIN @ \ {i})]
  <2> DEFINE after == [MappedFile EXCEPT ![v] = Store!Only(@, DOMAIN @ \ {i})]
  <2>1. fat' = fat
    BY <1>5 DEF WritesHeader
  <2>2. \A w \in Device : \A j \in UsedSlots(w)' : MappedFile'[w][j] = MappedFile[w][j]
    BY <1>9, <2>1 DEF MappedFile
  <2>3. \A w \in Device : MappedFile'[w] = [j \in UsedSlots(w)' |-> MappedFile'[w][j]]
                       /\ MappedFile[w] = [j \in UsedSlots(w) |-> MappedFile[w][j]]
    BY DEF MappedFile
  <2>4. \A w \in Device \ {v} : MappedFile'[w] = MappedFile[w]
    BY <1>7, <2>2, <2>3
  <2>5. MappedFile'[v] = Store!Only(MappedFile[v], DOMAIN MappedFile[v] \ {i})
    BY <1>7, <2>2, <2>3 DEF Store!Only
  <2>6. MappedFile' = [w \in Device |-> MappedFile'[w]] /\ after = [w \in Device |-> after[w]]
        /\ \A w \in Device : after[w] = MappedFile'[w]
    BY <2>4, <2>5 DEF MappedFile
  <2> QED BY <2>6
<1>11. Store!SameBytes
  <2>1. \A w, j : OpenOnSlot(w, j)' = OpenOnSlot(w, j)
    BY <1>5 DEF OpenOnSlot, OpenOn
  <2>2. \A w \in Device : \A j \in UsedSlots(w)' : VisibleSize(w, j)' = VisibleSize(w, j)
    BY <1>1, <1>5, <1>9, <2>1, SizeStays
  <2>3. \A w \in Device : \A j \in UsedSlots(w)' :
          /\ VisibleSize(w, j)' <= VisibleSize(w, j)
          /\ \A k \in 0 .. VisibleSize(w, j) - 1 : CellOf(w, j, k)' = CellOf(w, j, k)
    BY <1>1, <1>9, <2>2, VisibleBytes DEF ViewInv, SizeView
  <2> QED BY <1>1, <1>9, <2>3, BytesShrink
<1>12. MappedListing' = IF MappedListing.device = v
                        THEN [MappedListing EXCEPT !.returned = @ \ {i}] ELSE MappedListing
  <2>1. MappedListing.device = dir.InodeTable
    BY DEF MappedListing
  <2>2. CASE dir.InUse /\ dir.InodeTable = v
    <3>1. MappedListing' = [device |-> v, returned |-> {j \in UsedSlots(v)' : j < dir.InodeIndex}]
          /\ MappedListing = [device |-> v, returned |-> {j \in UsedSlots(v) : j < dir.InodeIndex}]
      BY <1>5, <2>2 DEF MappedListing
    <3>2. {j \in UsedSlots(v)' : j < dir.InodeIndex} = {j \in UsedSlots(v) : j < dir.InodeIndex} \ {i}
      BY <1>7
    <3> QED BY <2>1, <2>2, <3>1, <3>2
  <2>3. CASE dir.InUse /\ dir.InodeTable # v
    <3>1. dir.InodeTable \in Device
      BY <2>3 DEF StoreInv, UseInv, DirectoryOnDevice
    <3> QED BY <1>5, <1>7, <2>1, <2>3, <3>1 DEF MappedListing
  <2>4. CASE ~ dir.InUse
    <3>1. dir.InodeTable # v
      BY <2>4, InputsAssumption DEF StoreInv, UnusedIsZero, ZeroDirectory
    <3> QED BY <1>5, <2>1, <2>4, <3>1 DEF MappedListing
  <2> QED BY <2>2, <2>3, <2>4
<1>13. Store!RemoveFile(v, n)
  <2>1. MappedFile[v][i].attributes # READONLY
    BY <1>3, <1>4
  <2> QED BY <1>4, <1>8, <1>10, <1>11, <1>12, <2>1 DEF Store!RemoveFile
<1>14. Store!NameStep(v)
  <2>1. v \in MappedMounted /\ MappedMounted' = MappedMounted
    BY <1>4, <1>6 DEF MappedMounted, HeaderChange
  <2>2. MappedHandle' = MappedHandle
    BY <1>5 DEF MappedHandle
  <2> QED BY <1>13, <2>1, <2>2 DEF Store!NameStep
<1> QED BY <1>14 DEF StoreStep, Store!StoreNext

\* Storing a header that differs in name or attributes shows in them only.
LEMMA EditStores ==
  ASSUME StoreInv, StoreInv', NEW v \in Device, NEW n, NEW i, i = FindFile(v, n),
         i # FILE_NOT_FOUND, NEW h \in FileHeader, StoreHeader(v, i, h),
         h.InUse, h.FileSize = Header(v, i).FileSize
  PROVE  /\ MappedMounted' = MappedMounted /\ v \in MappedMounted
         /\ MappedHandle' = MappedHandle /\ MappedListing' = MappedListing
         /\ MappedBytes' = MappedBytes
         /\ i \in Store!Named(v, n) /\ MappedFile[v][i].attributes = Header(v, i).Attributes
         /\ h.Attributes = Header(v, i).Attributes =>
              MappedFile' = [MappedFile EXCEPT ![v][i].name = h.Filename]
         /\ h.Filename = n => MappedFile' = [MappedFile EXCEPT ![v][i].attributes = h.Attributes]
<1> DEFINE old == Header(v, i)
           durable == i \in Slots(fat[v])
<1>1. /\ Loaded(v) /\ i \in Slots(inode[v]) /\ i \in UsedSlots(v) /\ i \in Store!Named(v, n)
      /\ StoredHeader(v, i) = old /\ old.Filename = n
      /\ MappedFile[v][i] = [name |-> n, attributes |-> old.Attributes,
                             size |-> old.FileSize, durable |-> durable]
  BY NameViewed
<1>2. WritesHeader(v, i, h) /\ fdTable' = fdTable /\ dir' = dir
  BY DEF StoreHeader, WritesHeader, SlotStart
<1>3. HeaderChange(v, i, h)
  BY <1>1, <1>2, HeaderChanges
<1>4. v \in MappedMounted /\ MappedMounted' = MappedMounted
  BY <1>1, <1>3 DEF MappedMounted, HeaderChange
<1>5. MappedHandle' = MappedHandle
  BY <1>2 DEF MappedHandle
<1>6. MappedBytes' = MappedBytes
  BY <1>1, <1>2, EditKeepsBytes
<1>7. /\ MappedFile' = [MappedFile EXCEPT ![v][i] =
           [name |-> h.Filename, attributes |-> h.Attributes, size |-> h.FileSize,
            durable |-> MappedFile[v][i].durable]]
      /\ MappedListing' = MappedListing
  BY <1>1, <1>2, FileEdited
<1>8. MappedFile[v][i].durable = durable /\ MappedFile[v][i].attributes = old.Attributes
  BY <1>1
<1>9. MappedFile' = [MappedFile EXCEPT ![v][i] =
        [name |-> h.Filename, attributes |-> h.Attributes, size |-> old.FileSize,
         durable |-> durable]]
  BY <1>7, <1>8
<1>10. MappedFile = [w \in Device |-> [j \in UsedSlots(w) |-> MappedFile[w][j]]]
  BY DEF MappedFile
<1> HIDE DEF durable, old
<1>11. ASSUME h.Attributes = old.Attributes
       PROVE  MappedFile' = [MappedFile EXCEPT ![v][i].name = h.Filename]
  <2>1. [MappedFile[v][i] EXCEPT !.name = h.Filename] =
          [name |-> h.Filename, attributes |-> h.Attributes, size |-> old.FileSize,
           durable |-> durable]
    BY <1>1, <1>11
  <2> QED BY <1>9, <1>10, <2>1
<1>12. ASSUME h.Filename = n
       PROVE  MappedFile' = [MappedFile EXCEPT ![v][i].attributes = h.Attributes]
  <2>1. [MappedFile[v][i] EXCEPT !.attributes = h.Attributes] =
          [name |-> h.Filename, attributes |-> h.Attributes, size |-> old.FileSize,
           durable |-> durable]
    BY <1>1, <1>12
  <2> QED BY <1>9, <1>10, <2>1
<1> QED BY <1>1, <1>4, <1>5, <1>6, <1>7, <1>8, <1>11, <1>12 DEF old

LEMMA RenameStores ==
  ASSUME StoreInv, StoreInv', NEW v \in Device, NEW old \in Filename, NEW new \in Filename,
         LibRename(v, old, new)
  PROVE  StoreStep
<1>1. PICK i : i = FindFile(v, old)
  OBVIOUS
<1>2. PICK h : h = [Header(v, i) EXCEPT !.Filename = new]
  OBVIOUS
<1>3. /\ FindFile(v, new) = FILE_NOT_FOUND /\ i # FILE_NOT_FOUND
      /\ Header(v, i).Attributes # READONLY /\ StoreHeader(v, i, h)
  BY <1>1, <1>2 DEF LibRename
<1>4. Loaded(v) /\ Header(v, i) \in FileHeader /\ Header(v, i).InUse
  BY <1>1, <1>3, NameViewed
<1>5. /\ h \in FileHeader /\ h.InUse /\ h.FileSize = Header(v, i).FileSize
      /\ h.Attributes = Header(v, i).Attributes /\ h.Filename = new
  BY <1>2, <1>4 DEF FileHeader
<1>6. /\ MappedMounted' = MappedMounted /\ v \in MappedMounted
      /\ MappedHandle' = MappedHandle /\ MappedListing' = MappedListing
      /\ MappedBytes' = MappedBytes
      /\ i \in Store!Named(v, old) /\ MappedFile[v][i].attributes = Header(v, i).Attributes
      /\ h.Attributes = Header(v, i).Attributes =>
              MappedFile' = [MappedFile EXCEPT ![v][i].name = h.Filename]
  BY <1>1, <1>3, <1>5, EditStores
<1>7. Store!Named(v, new) = {}
  BY <1>3, <1>4, NoNameViewed
<1>8. MappedFile' = [MappedFile EXCEPT ![v][i].name = new]
  BY <1>5, <1>6
<1>9. MappedFile[v][i].attributes # READONLY
  BY <1>3, <1>6
<1>10. Store!RenameFile(v, old, new)
  BY <1>6, <1>7, <1>8, <1>9 DEF Store!RenameFile
<1>11. Store!NameStep(v)
  BY <1>6, <1>10 DEF Store!NameStep
<1> QED BY <1>11 DEF StoreStep, Store!StoreNext

LEMMA SetAttributesStores ==
  ASSUME StoreInv, StoreInv', NEW v \in Device, NEW n \in Filename,
         NEW Attributes \in {NONE, READONLY}, LibSetFileAttributes(v, n, Attributes)
  PROVE  StoreStep
<1>1. PICK i : i = FindFile(v, n)
  OBVIOUS
<1>2. PICK h : h = [Header(v, i) EXCEPT !.Attributes = Attributes]
  OBVIOUS
<1>3. i # FILE_NOT_FOUND /\ StoreHeader(v, i, h)
  BY <1>1, <1>2 DEF LibSetFileAttributes
<1>4. Header(v, i) \in FileHeader /\ Header(v, i).InUse /\ Header(v, i).Filename = n
  BY <1>1, <1>3, NameViewed
<1>5. /\ h \in FileHeader /\ h.InUse /\ h.FileSize = Header(v, i).FileSize
      /\ h.Attributes = Attributes /\ h.Filename = n
  BY <1>2, <1>4 DEF FileHeader
<1>6. /\ MappedMounted' = MappedMounted /\ v \in MappedMounted
      /\ MappedHandle' = MappedHandle /\ MappedListing' = MappedListing
      /\ MappedBytes' = MappedBytes
      /\ i \in Store!Named(v, n)
      /\ h.Filename = n => MappedFile' = [MappedFile EXCEPT ![v][i].attributes = h.Attributes]
  BY <1>1, <1>3, <1>5, EditStores
<1>7. MappedFile' = [MappedFile EXCEPT ![v][i].attributes = Attributes]
  BY <1>5, <1>6
<1>8. Store!SetAttributes(v, n, Attributes)
  BY <1>6, <1>7 DEF Store!SetAttributes
<1>9. Store!NameStep(v)
  BY <1>6, <1>8 DEF Store!NameStep
<1> QED BY <1>9 DEF StoreStep, Store!StoreNext

(***************************************************************************)
(* Closing                                                                 *)
(***************************************************************************)
\* A descriptor that is all zero is a closed handle.
ZeroClosed ==
  \A d \in Descriptor : fdTable[d] = ZeroDescriptor => MappedHandle[d] = Store!Closed

LEMMA ZeroIsClosed == ZeroClosed
<1> SUFFICES ASSUME NEW d \in Descriptor, fdTable[d] = ZeroDescriptor
             PROVE  MappedHandle[d] = Store!Closed
  BY DEF ZeroClosed
<1>1. MappedHandle[d] =
        [device |-> NullTable, id |-> 0, offset |-> 0, size |-> 0, reads |-> FREAD \in {},
         writes |-> FWRITE \in {}, creates |-> FCREAT \in {}]
  BY DEF MappedHandle, ZeroDescriptor
<1>2. (FREAD \in {}) = FALSE /\ (FWRITE \in {}) = FALSE /\ (FCREAT \in {}) = FALSE
  OBVIOUS
<1> QED BY <1>1, <1>2 DEF Store!Closed

LEMMA ZeroIsClosedNext == ZeroClosed'
BY ZeroIsClosed, PTL

LEMMA HandleCloses ==
  ASSUME StoreInv, NEW d \in Descriptor, fdTable[d].InUse, FreeFileDescriptor(d)
  PROVE  /\ MappedHandle' = [MappedHandle EXCEPT ![d] = Store!Closed]
         /\ MappedHandle'[d] # MappedHandle[d]
         /\ \A v, i : \A e \in OpenOnSlot(v, i)' :
              e \in OpenOnSlot(v, i) /\ fdTable'[e].FileSize = fdTable[e].FileSize
<1>1. fdTable' = [fdTable EXCEPT ![d] = ZeroDescriptor] /\ DOMAIN fdTable = Descriptor
  BY DEF FreeFileDescriptor, StoreInv, TypeOK
<1>2. fdTable'[d] = ZeroDescriptor /\ \A e \in Descriptor \ {d} : fdTable'[e] = fdTable[e]
  BY <1>1
<1>3. MappedHandle'[d] = Store!Closed
  BY <1>2, ZeroIsClosedNext DEF ZeroClosed
<1>4. \A e \in Descriptor \ {d} : MappedHandle'[e] = MappedHandle[e]
  BY <1>2 DEF MappedHandle
<1>5. MappedHandle' = [MappedHandle EXCEPT ![d] = Store!Closed]
  <2> DEFINE after == [MappedHandle EXCEPT ![d] = Store!Closed]
  <2>1. MappedHandle' = [e \in Descriptor |-> MappedHandle'[e]]
        /\ after = [e \in Descriptor |-> after[e]]
    BY DEF MappedHandle
  <2>2. \A e \in Descriptor : MappedHandle'[e] = after[e]
    BY <1>3, <1>4 DEF MappedHandle
  <2> HIDE DEF after
  <2> QED BY <2>1, <2>2 DEF after
<1>6. MappedHandle'[d] # MappedHandle[d]
  <2>1. MappedHandle[d].device \in Device
    BY OpenHandle
  <2>2. Store!Closed.device = NullTable
    BY DEF Store!Closed
  <2> QED BY <1>3, <2>1, <2>2, InputsAssumption
<1>7. \A v, i : \A e \in OpenOnSlot(v, i)' :
        e \in OpenOnSlot(v, i) /\ fdTable'[e].FileSize = fdTable[e].FileSize
  BY <1>2 DEF OpenOnSlot, OpenOn, ZeroDescriptor
<1> QED BY <1>5, <1>6, <1>7

\* What a close shows: the size of a file written, and that a file created is in the
\* allocation table.
CloseView(d) ==
  LET f == fdTable[d]
      itsFile(v, i) == v = f.InodeTable /\ i = f.InodeIndex
  IN  /\ MappedMounted' = MappedMounted
      /\ \A v \in Device : UsedSlots(v)' = UsedSlots(v)
      /\ \A v \in Device : \A i \in Slots(Live(v)) :
           /\ StoredHeader(v, i)' = IF FWRITE \in f.Mode /\ itsFile(v, i)
                                    THEN [StoredHeader(v, i) EXCEPT !.FileSize = f.FileSize]
                                    ELSE StoredHeader(v, i)
           /\ i \in Slots(fat'[v]) <=> i \in Slots(fat[v]) \/ (FCREAT \in f.Mode /\ itsFile(v, i))
           /\ \A k \in 0 .. Live(v).File[i].MaxFileSize - 1 : CellOf(v, i, k)' = CellOf(v, i, k)

LEMMA CloseKeepsBytes ==
  ASSUME StoreInv, StoreInv', NEW d \in Descriptor, fdTable[d].InUse, FreeFileDescriptor(d),
         CloseView(d)
  PROVE  Store!SameBytes
<1>1. ViewInv /\ ViewInv'
  BY Viewed, ViewedNext
<1>2. ASSUME NEW v \in Device, NEW i \in UsedSlots(v)'
      PROVE  /\ i \in UsedSlots(v) /\ VisibleSize(v, i)' <= VisibleSize(v, i)
             /\ \A k \in 0 .. VisibleSize(v, i) - 1 : CellOf(v, i, k)' = CellOf(v, i, k)
  <2>1. i \in UsedSlots(v)
    BY <1>2 DEF CloseView
  <2>2. i \in Slots(Live(v)) /\ StoredHeader(v, i) \in FileHeader
    BY <1>1, <2>1 DEF ViewInv, SlotView
  <2>3. /\ StoredHeader(v, i).FileSize <= VisibleSize(v, i)
        /\ \A e \in OpenOnSlot(v, i) : fdTable[e].FileSize <= VisibleSize(v, i)
    BY <1>1, <2>1 DEF ViewInv, SizeView
  <2>4. StoredHeader(v, i)'.FileSize <= VisibleSize(v, i)
    <3>1. CASE FWRITE \in fdTable[d].Mode /\ v = fdTable[d].InodeTable /\ i = fdTable[d].InodeIndex
      <4>1. d \in OpenOnSlot(v, i)
        BY <3>1 DEF OpenOnSlot, OpenOn
      <4>2. StoredHeader(v, i)' = [StoredHeader(v, i) EXCEPT !.FileSize = fdTable[d].FileSize]
        BY <2>2, <3>1 DEF CloseView
      <4>3. StoredHeader(v, i)'.FileSize = fdTable[d].FileSize
        BY <2>2, <4>2 DEF FileHeader
      <4> QED BY <2>3, <4>1, <4>3
    <3>2. CASE ~ (FWRITE \in fdTable[d].Mode /\ v = fdTable[d].InodeTable /\ i = fdTable[d].InodeIndex)
      BY <2>2, <2>3, <3>2 DEF CloseView
    <3> QED BY <3>1, <3>2
  <2>5. \A e \in OpenOnSlot(v, i)' : fdTable'[e].FileSize <= VisibleSize(v, i)
    BY <2>3, HandleCloses
  <2>6. VisibleSize(v, i)' <= VisibleSize(v, i)
    BY <1>1, <1>2, <2>1, <2>4, <2>5, SizeShrinks
  <2>7. \A k \in 0 .. VisibleSize(v, i) - 1 : CellOf(v, i, k)' = CellOf(v, i, k)
    BY <2>1, <2>2, VisibleBytes DEF CloseView
  <2> QED BY <2>1, <2>6, <2>7
<1> QED BY <1>1, <1>2, BytesShrink

\* The file after a close that stores its size.
LEMMA CloseShowsSize ==
  ASSUME StoreInv, StoreInv', NEW d \in Descriptor, fdTable[d].InUse, CloseView(d),
         FWRITE \in fdTable[d].Mode
  PROVE  MappedFile' = [MappedFile EXCEPT
           ![fdTable[d].InodeTable][fdTable[d].InodeIndex].size = fdTable[d].FileSize,
           ![fdTable[d].InodeTable][fdTable[d].InodeIndex].durable =
              @ \/ FCREAT \in fdTable[d].Mode]
<1> DEFINE v == fdTable[d].InodeTable
           i == fdTable[d].InodeIndex
           size == fdTable[d].FileSize
           creates == FCREAT \in fdTable[d].Mode
           old == MappedFile[v][i]
           new == [name |-> old.name, attributes |-> old.attributes, size |-> size,
                   durable |-> old.durable \/ creates]
           after == [MappedFile EXCEPT ![v][i] = new]
<1>1. v \in Device /\ i \in UsedSlots(v)
  BY OpenHandle
<1>2. ViewInv /\ \A w \in Device : UsedSlots(w) \subseteq Slots(Live(w))
  BY Viewed DEF ViewInv, SlotView
<1>3. \A w \in Device : UsedSlots(w)' = UsedSlots(w)
  BY DEF CloseView
<1>4. /\ MappedFile' = [w \in Device |-> [j \in UsedSlots(w) |-> MappedFile'[w][j]]]
      /\ MappedFile = [w \in Device |-> [j \in UsedSlots(w) |-> MappedFile[w][j]]]
  BY <1>3 DEF MappedFile
<1>5. \A w \in Device : \A j \in UsedSlots(w) :
        MappedFile'[w][j] = IF w = v /\ j = i THEN new ELSE MappedFile[w][j]
  <2> SUFFICES ASSUME NEW w \in Device, NEW j \in UsedSlots(w)
               PROVE  MappedFile'[w][j] = IF w = v /\ j = i THEN new ELSE MappedFile[w][j]
    OBVIOUS
  <2>1. /\ MappedFile'[w][j] =
             [name |-> StoredHeader(w, j)'.Filename, attributes |-> StoredHeader(w, j)'.Attributes,
              size |-> StoredHeader(w, j)'.FileSize, durable |-> j \in Slots(fat'[w])]
        /\ MappedFile[w][j] =
             [name |-> StoredHeader(w, j).Filename, attributes |-> StoredHeader(w, j).Attributes,
              size |-> StoredHeader(w, j).FileSize, durable |-> j \in Slots(fat[w])]
    BY <1>3 DEF MappedFile
  <2>2. j \in Slots(Live(w)) /\ StoredHeader(w, j) \in FileHeader
    BY <1>2 DEF ViewInv, SlotView
  <2>3. CASE w = v /\ j = i
    <3>1. StoredHeader(w, j)' = [StoredHeader(w, j) EXCEPT !.FileSize = size]
          /\ (j \in Slots(fat'[w]) <=> j \in Slots(fat[w]) \/ creates)
      BY <2>2, <2>3 DEF CloseView
    <3>2. /\ StoredHeader(w, j)'.Filename = StoredHeader(w, j).Filename
          /\ StoredHeader(w, j)'.Attributes = StoredHeader(w, j).Attributes
          /\ StoredHeader(w, j)'.FileSize = size
      BY <2>2, <3>1 DEF FileHeader
    <3>3. /\ old.name = StoredHeader(w, j).Filename /\ old.attributes = StoredHeader(w, j).Attributes
          /\ old.durable = (j \in Slots(fat[w]))
      BY <2>1, <2>3
    <3>4. (j \in Slots(fat'[w])) = (old.durable \/ creates)
      <4>1. old.durable <=> j \in Slots(fat[w])
        BY <3>3
      <4> HIDE DEF old, creates
      <4> QED BY <3>1, <4>1
    <3> QED BY <2>1, <2>3, <3>2, <3>3, <3>4
  <2>4. CASE ~ (w = v /\ j = i)
    <3>1. StoredHeader(w, j)' = StoredHeader(w, j) /\ (j \in Slots(fat'[w]) <=> j \in Slots(fat[w]))
      BY <2>2, <2>4 DEF CloseView
    <3> QED BY <2>1, <2>4, <3>1
  <2> QED BY <2>3, <2>4
<1>6. PICK name, attributes, was, durable :
        old = [name |-> name, attributes |-> attributes, size |-> was, durable |-> durable]
  <2>1. old = [name |-> StoredHeader(v, i).Filename, attributes |-> StoredHeader(v, i).Attributes,
               size |-> StoredHeader(v, i).FileSize, durable |-> i \in Slots(fat[v])]
    BY <1>1 DEF MappedFile
  <2> HIDE DEF old
  <2> QED BY <2>1
<1>7. MappedFile' = after
  <2> HIDE DEF new
  <2>1. after = [w \in Device |-> after[w]] /\ MappedFile' = [w \in Device |-> MappedFile'[w]]
    BY <1>4
  <2>2. \A w \in Device : after[w] = MappedFile'[w]
    BY <1>4, <1>5
  <2> QED BY <2>1, <2>2
<1>8. after = [MappedFile EXCEPT ![v][i].size = size, ![v][i].durable = @ \/ creates]
  <2>1. new = [[old EXCEPT !.size = size] EXCEPT !.durable = old.durable \/ creates]
    <3>1. PICK is : is = (old.durable \/ creates)
      OBVIOUS
    <3>2. new = [name |-> old.name, attributes |-> old.attributes, size |-> size, durable |-> is]
      BY <3>1
    <3> HIDE DEF new, old, size, creates
    <3>3. new = [name |-> name, attributes |-> attributes, size |-> size, durable |-> is]
      BY <1>6, <3>2
    <3>4. PICK sized : sized = [old EXCEPT !.size = size]
      OBVIOUS
    <3>5. sized = [name |-> name, attributes |-> attributes, size |-> size, durable |-> durable]
      BY <1>6, <3>4
    <3>6. new = [sized EXCEPT !.durable = is]
      BY <3>3, <3>5
    <3> QED BY <3>1, <3>4, <3>6
  <2> HIDE DEF new, size, creates
  <2> QED BY <1>1, <1>4, <2>1
<1> QED BY <1>7, <1>8

\* A close with that view is the store's.
LEMMA ClosesStore ==
  ASSUME StoreInv, StoreInv', NEW d \in Descriptor, fdTable[d].InUse, FreeFileDescriptor(d),
         dir' = dir, CloseView(d)
  PROVE  StoreStep
<1>1. ViewInv
  BY Viewed
<1>2. PICK h : h = MappedHandle[d]
  OBVIOUS
<1>3. /\ h.device = fdTable[d].InodeTable /\ h.id = fdTable[d].InodeIndex
      /\ h.size = fdTable[d].FileSize /\ h.writes = (FWRITE \in fdTable[d].Mode)
      /\ h.creates = (FCREAT \in fdTable[d].Mode) /\ Store!IsOpen(d)
  BY <1>2, OpenHandle
<1>4. MappedHandle' = [MappedHandle EXCEPT ![d] = Store!Closed] /\ MappedHandle'[d] # MappedHandle[d]
  BY HandleCloses
<1>5. MappedMounted' = MappedMounted /\ MappedListing' = MappedListing
  BY DEF CloseView, MappedListing, StoreInv, UseInv, DirectoryOnDevice
<1>6. Store!SameBytes
  BY CloseKeepsBytes
<1>7. MappedFile' = IF h.writes
                    THEN [MappedFile EXCEPT ![h.device][h.id].size = h.size,
                                            ![h.device][h.id].durable = @ \/ h.creates]
                    ELSE MappedFile
  <2>1. CASE FWRITE \in fdTable[d].Mode
    BY <1>3, <2>1, CloseShowsSize
  <2>2. CASE FWRITE \notin fdTable[d].Mode
    <3>1. FCREAT \notin fdTable[d].Mode
      BY <2>2 DEF StoreInv, FileInv, DescriptorsFit, DescriptorFits
    <3>2. \A v \in Device : UsedSlots(v)' = UsedSlots(v) /\ UsedSlots(v) \subseteq Slots(Live(v))
      BY <1>1 DEF CloseView, ViewInv, SlotView
    <3>3. \A v \in Device : \A i \in UsedSlots(v) :
            StoredHeader(v, i)' = StoredHeader(v, i) /\ (i \in Slots(fat'[v]) <=> i \in Slots(fat[v]))
      BY <2>2, <3>1, <3>2 DEF CloseView
    <3>4. \A v \in Device : \A i \in UsedSlots(v) :
            (i \in Slots(fat'[v])) = (i \in Slots(fat[v]))
      BY <3>3
    <3>5. MappedFile' = MappedFile
      BY <3>2, <3>3, <3>4 DEF MappedFile
    <3> QED BY <1>3, <2>2, <3>5
  <2> QED BY <2>1, <2>2
<1>8. Store!CloseFile(d)
  BY <1>2, <1>3, <1>4, <1>5, <1>6, <1>7 DEF Store!CloseFile
<1>9. Store!HandleStep(d)
  BY <1>4, <1>8 DEF Store!HandleStep
<1> QED BY <1>9 DEF StoreStep, Store!StoreNext

LEMMA CloseReadStores ==
  ASSUME StoreInv, StoreInv', NEW d \in Descriptor, fdTable[d].InUse, FreeFileDescriptor(d),
         dir' = dir, CloseRead(d)
  PROVE  StoreStep
<1>1. ViewInv /\ ViewInv' /\ ImageAndTablesStay
  BY Viewed, ViewedNext DEF CloseRead, ImageAndTablesStay, image
<1>2. FWRITE \notin fdTable[d].Mode /\ FCREAT \notin fdTable[d].Mode
  BY DEF CloseRead
<1>3. \A v \in Device : Live(v)' = Live(v)
  BY <1>1 DEF Live, Loaded, ImageAndTablesStay
<1>4. \A v \in Device : \A i \in Slots(Live(v)) :
        StoredHeader(v, i)' = StoredHeader(v, i) /\ \A k : CellOf(v, i, k)' = CellOf(v, i, k)
  BY <1>1, <1>3 DEF ViewInv, SlotView, CellOf, DataStart, ImageAndTablesStay
<1>5. MappedMounted' = MappedMounted /\ \A v \in Device : UsedSlots(v)' = UsedSlots(v)
  BY <1>1, FilesStay
<1>6. CloseView(d)
  BY <1>1, <1>2, <1>4, <1>5 DEF CloseView, ImageAndTablesStay
<1> QED BY <1>6, ClosesStore

LEMMA CloseWrittenStores ==
  ASSUME StoreInv, StoreInv', NEW d \in Descriptor, fdTable[d].InUse, FreeFileDescriptor(d),
         dir' = dir, CloseWritten(d)
  PROVE  StoreStep
<1>1. TypeOK /\ TableInv /\ FileInv /\ ViewInv
  BY Viewed DEF StoreInv
<1>2. PICK v, i, h : /\ v = fdTable[d].InodeTable /\ i = fdTable[d].InodeIndex
                     /\ h = [Header(v, i) EXCEPT !.FileSize = fdTable[d].FileSize]
  OBVIOUS
<1>3. /\ v \in Device /\ i \in Slots(inode[v]) /\ h \in FileHeader /\ h.InUse
      /\ StoreFileSize(eeprom[v], d) = WriteHeader(eeprom[v], SlotStart(inode[v], i), h)
  BY <1>1, <1>2, StoredSize
<1>4. FWRITE \in fdTable[d].Mode /\ FCREAT \notin fdTable[d].Mode /\ fat' = fat
      /\ WritesHeader(v, i, h)
  BY <1>2, <1>3 DEF CloseWritten, WritesHeader
<1>5. HeaderChange(v, i, h)
  BY <1>3, <1>4, HeaderChanges
<1>6. i \in UsedSlots(v)
  BY <1>2, OpenHandle
<1>7. StoredHeader(v, i) = Header(v, i)
  BY <1>3, <1>6, LoadedViewed, SlotIsLive, <1>1
<1>8. \A w \in Device : UsedSlots(w)' = UsedSlots(w)
  <2>1. UsedSlots(v) \cup {i} = UsedSlots(v)
    BY <1>6
  <2> QED BY <1>3, <1>5, <2>1 DEF HeaderChange
<1>9. CloseView(d)
  BY <1>2, <1>4, <1>5, <1>7, <1>8 DEF CloseView, HeaderChange
<1> QED BY <1>9, ClosesStore

\* The close that gives a created file its slot.
LEMMA CloseCreatedStores ==
  ASSUME StoreInv, StoreInv', NEW d \in Descriptor, fdTable[d].InUse, FreeFileDescriptor(d),
         dir' = dir, CloseCreated(d)
  PROVE  StoreStep
<1>1. TypeOK /\ TableInv /\ FileInv /\ ViewInv /\ ViewInv'
  BY Viewed, ViewedNext DEF StoreInv
<1>2. PICK v, i, h, t : /\ v = fdTable[d].InodeTable /\ i = fdTable[d].InodeIndex
                        /\ h = [Header(v, i) EXCEPT !.FileSize = fdTable[d].FileSize]
                        /\ t = AllocateSlot(inode[v], d)
  OBVIOUS
<1>3. FCREAT \in fdTable[d].Mode /\ FWRITE \in fdTable[d].Mode
  BY DEF CloseCreated, StoreInv, FileInv, DescriptorsFit, DescriptorFits
<1>4. /\ v \in Device /\ i \in Slots(inode[v]) /\ h \in FileHeader /\ h.InUse
      /\ StoreFileSize(eeprom[v], d) = WriteHeader(eeprom[v], SlotStart(inode[v], i), h)
  BY <1>1, <1>2, StoredSize
<1>5. /\ d \in Creators(v) /\ i = fat[v].NumberOfFiles
      /\ Slots(t) = Slots(inode[v]) /\ t.FreeMemoryPointer # 0
      /\ t.File[i].FileHeaderPointer = inode[v].File[i].FileHeaderPointer
      /\ \A j \in Slots(t) \ {i} : t.File[j] = inode[v].File[j]
  BY <1>1, <1>2, <1>3, FinalSlotFits
<1>6. /\ inode' = [inode EXCEPT ![v] = t]
      /\ eeprom' = [eeprom EXCEPT ![v] = StoreFileSize(@, d)]
      /\ fat' = [fat EXCEPT ![v] = UpdatedFat(@, t, i, 2)]
  BY <1>2 DEF CloseCreated
<1>7. /\ inode'[v] = t /\ fat'[v] = UpdatedFat(fat[v], t, i, 2)
      /\ eeprom'[v] = WriteHeader(eeprom[v], SlotStart(inode[v], i), h)
      /\ \A w \in Device \ {v} : inode'[w] = inode[w] /\ fat'[w] = fat[w] /\ eeprom'[w] = eeprom[w]
  BY <1>1, <1>4, <1>6 DEF TypeOK
<1>8. Loaded(v) /\ Live(v) = inode[v] /\ IsTiled(inode[v])
  BY <1>1, <1>4, SlotIsLive, LiveTiled DEF LiveIsTiled
<1>9. Loaded(v)' /\ Live(v)' = t
  BY <1>5, <1>7 DEF Loaded, Live
<1>10. \A w \in Device \ {v} : (Loaded(w)' <=> Loaded(w)) /\ Live(w)' = Live(w)
  BY <1>7 DEF Loaded, Live
<1>11. \A w \in Device : Slots(Live(w)') = Slots(Live(w))
       /\ \A j \in Slots(Live(w)) : SlotStart(Live(w)', j) = SlotStart(Live(w), j)
  BY <1>5, <1>8, <1>9, <1>10 DEF SlotStart
<1>12. /\ HeaderIn(eeprom'[v], inode[v], i) = h
       /\ \A j \in Slots(inode[v]) \ {i} :
            HeaderIn(eeprom'[v], inode[v], j) = HeaderIn(eeprom[v], inode[v], j)
  <2>1. eeprom[v] \in [Address -> Cell]
    BY <1>1, <1>4 DEF TypeOK
  <2> QED BY <1>4, <1>7, <1>8, <2>1, OtherHeadersKept
<1>13. i \in UsedSlots(v) /\ StoredHeader(v, i) = Header(v, i)
  BY <1>2, <1>8, OpenHandle, LoadedViewed
<1>14. \A w \in Device : \A j \in Slots(Live(w)) :
         StoredHeader(w, j)' = IF w = v /\ j = i
                               THEN [StoredHeader(w, j) EXCEPT !.FileSize = fdTable[d].FileSize]
                               ELSE StoredHeader(w, j)
  <2> SUFFICES ASSUME NEW w \in Device, NEW j \in Slots(Live(w))
               PROVE  StoredHeader(w, j)' =
                        IF w = v /\ j = i
                        THEN [StoredHeader(w, j) EXCEPT !.FileSize = fdTable[d].FileSize]
                        ELSE StoredHeader(w, j)
    OBVIOUS
  <2>1. /\ StoredHeader(w, j)' = HeaderIn(eeprom'[w], Live(w)', j)
        /\ StoredHeader(w, j) = HeaderIn(eeprom[w], Live(w), j)
    BY <1>1, <1>11 DEF ViewInv, SlotView
  <2>2. StoredHeader(w, j)' = HeaderIn(eeprom'[w], Live(w), j)
    BY <1>11, <2>1 DEF HeaderIn
  <2>3. CASE w = v /\ j = i
    BY <1>2, <1>8, <1>12, <1>13, <2>2, <2>3
  <2>4. CASE w = v /\ j # i
    BY <1>8, <1>12, <2>1, <2>2, <2>4
  <2>5. CASE w # v
    BY <1>7, <2>1, <2>2, <2>5
  <2> QED BY <2>3, <2>4, <2>5
<1>15. \A w \in Device : \A j \in Slots(Live(w)) :
         StoredHeader(w, j)'.InUse = StoredHeader(w, j).InUse
  <2>1. h.InUse = StoredHeader(v, i).InUse /\ StoredHeader(v, i)' = h
    BY <1>2, <1>4, <1>8, <1>13, <1>14 DEF UsedSlots
  <2> QED BY <1>14, <2>1
<1>16. \A w \in Device : UsedSlots(w)' = UsedSlots(w)
  <2> SUFFICES ASSUME NEW w \in Device PROVE UsedSlots(w)' = UsedSlots(w)
    OBVIOUS
  <2>1. /\ UsedSlots(w)' = {j \in Slots(Live(w)') : StoredHeader(w, j)'.InUse}
        /\ UsedSlots(w) = {j \in Slots(Live(w)) : StoredHeader(w, j).InUse}
    BY <1>1 DEF ViewInv, SlotView
  <2> QED BY <1>11, <1>15, <2>1
<1>17. MappedMounted' = MappedMounted
  BY <1>4, <1>8, <1>9, <1>10 DEF MappedMounted
<1>18. \A w \in Device : \A j \in Slots(Live(w)) :
         j \in Slots(fat'[w]) <=> j \in Slots(fat[w]) \/ (w = v /\ j = i)
  <2>1. fat'[v].NumberOfFiles = i + 1 /\ i \in Nat
    <3>1. t \in Table /\ fat[v] \in Table /\ i \in FileIndex /\ t.NumberOfFiles = i + 1
      <4>1. t.NumberOfFiles = fat[v].NumberOfFiles + 1
        BY <1>1, <1>2, <1>4, <1>5, AllocatedSlot DEF TableInv
      <4>2. t \in Table /\ fat[v] \in Table
        BY <1>1, <1>2, <1>4, CloseWritesType DEF TypeOK
      <4>3. i \in FileIndex
        BY <1>4, <1>8, TiledSlots
      <4> QED BY <1>5, <4>1, <4>2, <4>3
    <3>2. fat'[v].NumberOfFiles = t.NumberOfFiles
      BY <1>7, <3>1, UpdatedFatFields
    <3> QED BY <3>1, <3>2, SizesAssumption DEF FileIndex
  <2>2. Slots(fat'[v]) = Slots(fat[v]) \cup {i}
    BY <1>5, <2>1 DEF Slots
  <2> QED BY <1>7, <2>2
<1>19. ASSUME NEW w \in Device, NEW j \in Slots(Live(w)),
              NEW k \in 0 .. Live(w).File[j].MaxFileSize - 1
       PROVE  CellOf(w, j, k)' = CellOf(w, j, k)
  <2>1. DataStart(w, j)' = DataStart(w, j)
    BY <1>11 DEF DataStart
  <2>2. SlotStart(inode[v], i) \in Nat
        /\ \A s \in Slots(Live(v)) : \/ SlotStart(inode[v], i) + HeaderSize <= DataStart(v, s)
                                     \/ SlotEnd(Live(v), s) <= SlotStart(inode[v], i)
    BY <1>1, <1>4, <1>8, HeaderIsOutside
  <2>3. WritesHeaderAt(v, SlotStart(inode[v], i), h)
    BY <1>4, <1>6 DEF WritesHeaderAt
  <2> QED BY <1>1, <1>4, <2>1, <2>2, <2>3, HeaderKeepsCells
<1>20. CloseView(d)
  BY <1>2, <1>3, <1>14, <1>16, <1>17, <1>18, <1>19 DEF CloseView
<1> QED BY <1>20, ClosesStore

(***************************************************************************)
(* Devices                                                                 *)
(***************************************************************************)
\* Loading or unloading a device keeps files, bytes, handles and listing.
LEMMA MountKeepsFiles ==
  ASSUME StoreInv, StoreInv', SlotsStay, fdTable' = fdTable, dir' = dir
  PROVE  /\ MappedFile' = MappedFile /\ MappedBytes' = MappedBytes
         /\ MappedHandle' = MappedHandle /\ MappedListing' = MappedListing
<1>1. ViewInv /\ ViewInv'
  BY Viewed, ViewedNext
<1>2. \A v, i : OpenOnSlot(v, i)' = OpenOnSlot(v, i)
  BY DEF OpenOnSlot, OpenOn
<1>3. \A v \in Device : \A i \in UsedSlots(v) : VisibleSize(v, i)' = VisibleSize(v, i)
  BY <1>1, <1>2, SlotsKeepFiles, SizeStays
<1>4. MappedBytes' = MappedBytes
  BY <1>1, <1>3, SlotsKeepFiles, BytesStay
<1>5. MappedListing' = MappedListing
  BY <1>1, SlotsKeepFiles DEF MappedListing, StoreInv, UseInv, DirectoryOnDevice
<1> QED BY <1>1, <1>4, <1>5, SlotsKeepFiles DEF MappedHandle

LEMMA InitFSStores ==
  ASSUME StoreInv, StoreInv', NEW v \in Device, ~ Loaded(v), LibInitFS(v)
  PROVE  StoreStep
<1> DEFINE t == [fat[v] EXCEPT !.File = [i \in FileIndex |->
                    IF i < fat[v].NumberOfFiles THEN fat[v].File[i] ELSE ZeroTable.File[i]]]
<1>1. TypeOK /\ TableInv /\ UseInv
  BY DEF StoreInv
<1>2. /\ inode' = [inode EXCEPT ![v] = t] /\ eeprom' = eeprom /\ fat' = fat
      /\ fdTable' = fdTable /\ dir' = dir
  BY DEF LibInitFS, image
<1>3. inode'[v] = t /\ \A w \in Device \ {v} : inode'[w] = inode[w]
  BY <1>1, <1>2 DEF TypeOK
<1>4. fat[v] \in Table
  BY <1>1 DEF TypeOK
<1>5. /\ t.FreeMemoryPointer = fat[v].FreeMemoryPointer /\ t.NumberOfFiles = fat[v].NumberOfFiles
      /\ \A i \in FileIndex : i < fat[v].NumberOfFiles => t.File[i] = fat[v].File[i]
  BY <1>4 DEF Table
<1> HIDE DEF t
<1>6. Loaded(v)' /\ Live(v)' = t /\ Live(v) = fat[v]
  BY <1>1, <1>3, <1>5 DEF Loaded, Live, UseInv, OpenIsLoaded
<1>7. \A w \in Device \ {v} : (Loaded(w)' <=> Loaded(w)) /\ Live(w)' = Live(w)
  BY <1>2, <1>3 DEF Loaded, Live
<1>8. Slots(t) = Slots(fat[v]) /\ \A i \in Slots(fat[v]) : t.File[i] = fat[v].File[i]
  <2>1. \A i \in Slots(fat[v]) : i \in FileIndex /\ i < fat[v].NumberOfFiles
    BY <1>4, SizesAssumption DEF Slots, FileIndex, Table
  <2> QED BY <1>5, <2>1 DEF Slots
<1>9. SlotsStay
  BY <1>2, <1>6, <1>7, <1>8 DEF SlotsStay
<1>10. MappedMounted' = MappedMounted \cup {v} /\ v \notin MappedMounted
  BY <1>6, <1>7 DEF MappedMounted
<1>11. Store!Load(v)
  BY <1>2, <1>9, <1>10, MountKeepsFiles DEF Store!Load
<1> QED BY <1>11 DEF StoreStep, Store!StoreNext

LEMMA FreeFSStores ==
  ASSUME StoreInv, StoreInv', NEW v \in Device, LibFreeFS(v)
  PROVE  StoreStep
<1>1. TypeOK /\ DeviceInv(v)
  BY DEF StoreInv, TableInv
<1>2. /\ inode' = [inode EXCEPT ![v] = ZeroTable] /\ eeprom' = eeprom /\ fat' = fat
      /\ fdTable' = fdTable /\ dir' = dir /\ OpenOn(v) = {} /\ ~ (dir.InUse /\ dir.InodeTable = v)
  BY DEF LibFreeFS, image, HasOpenFiles, HasOpenDir
<1>3. inode'[v] = ZeroTable /\ \A w \in Device \ {v} : inode'[w] = inode[w]
  BY <1>1, <1>2 DEF TypeOK
<1>4. ~ Loaded(v)' /\ Live(v)' = fat[v]
  BY <1>2, <1>3 DEF Loaded, Live, ZeroTable
<1>5. \A w \in Device \ {v} : (Loaded(w)' <=> Loaded(w)) /\ Live(w)' = Live(w)
  BY <1>2, <1>3 DEF Loaded, Live
<1>6. Slots(Live(v)) = Slots(fat[v]) /\ \A i \in Slots(fat[v]) : Live(v).File[i] = fat[v].File[i]
  BY <1>1, <1>2 DEF DeviceInv, InodeFollowsFat, Creators, Live, Slots
<1>7. SlotsStay
  BY <1>2, <1>4, <1>5, <1>6 DEF SlotsStay
<1>8. /\ MappedFile' = MappedFile /\ MappedBytes' = MappedBytes
      /\ MappedHandle' = MappedHandle /\ MappedListing' = MappedListing
  BY <1>2, <1>7, MountKeepsFiles
<1>9. MappedMounted' = MappedMounted \ {v}
  BY <1>4, <1>5 DEF MappedMounted
<1>10. CASE Loaded(v)
  <2>1. v \in MappedMounted
    BY <1>10 DEF MappedMounted
  <2>2. \A d \in Descriptor : MappedHandle[d].device # v
    <3>1. \A d \in Descriptor : fdTable[d].InodeTable # v
      BY <1>2, InputsAssumption DEF OpenOn, StoreInv, UnusedIsZero, ZeroDescriptor
    <3> QED BY <3>1 DEF MappedHandle
  <2>3. MappedListing.device # v
    <3>1. dir.InodeTable # v
      BY <1>2, InputsAssumption DEF StoreInv, UnusedIsZero, ZeroDirectory
    <3> QED BY <3>1 DEF MappedListing
  <2>4. Store!Unload(v)
    BY <1>8, <1>9, <2>1, <2>2, <2>3 DEF Store!Unload
  <2> QED BY <2>4 DEF StoreStep, Store!StoreNext
<1>11. CASE ~ Loaded(v)
  <2>1. MappedMounted' = MappedMounted
    BY <1>9, <1>11 DEF MappedMounted
  <2> QED BY <1>8, <2>1 DEF StoreStep, Store!storeVars
<1> QED BY <1>10, <1>11

\* A reset leaves the slots of the allocation table as they are, header and data.
ResetKeepsFat ==
  /\ LibInit /\ DataStays
  /\ \A v \in Device :
       /\ Slots(fat'[v]) = Slots(fat[v])
       /\ \A i \in Slots(fat[v]) :
            /\ fat'[v].File[i] = fat[v].File[i]
            /\ HeaderIn(eeprom'[v], fat[v], i) = HeaderIn(eeprom[v], fat[v], i)

LEMMA CrashStores ==
  ASSUME StoreInv, StoreInv', ResetKeepsFat
  PROVE  StoreStep
<1>1. TypeOK /\ TableInv /\ ViewInv /\ ViewInv'
  BY Viewed, ViewedNext DEF StoreInv
<1>2. LibInit /\ \A v \in Device : Live(v)' = fat'[v]
  BY ResetClears DEF ResetKeepsFat
<1>3. \A v \in Device : \A i \in Slots(fat[v]) :
        i \in Slots(Live(v)) /\ Live(v).File[i] = fat[v].File[i]
  BY <1>1, FatIsPartOfLive
<1>4. \A v \in Device : Slots(Live(v)') = Slots(fat[v])
        /\ \A i \in Slots(fat[v]) : Live(v)'.File[i] = Live(v).File[i]
  BY <1>2, <1>3 DEF ResetKeepsFat
<1>5. \A v \in Device : \A i \in Slots(fat[v]) :
        StoredHeader(v, i)' = StoredHeader(v, i) /\ DataStart(v, i)' = DataStart(v, i)
  <2> SUFFICES ASSUME NEW v \in Device, NEW i \in Slots(fat[v])
               PROVE  StoredHeader(v, i)' = StoredHeader(v, i) /\ DataStart(v, i)' = DataStart(v, i)
    OBVIOUS
  <2>1. SlotStart(Live(v)', i) = SlotStart(fat[v], i) /\ SlotStart(Live(v), i) = SlotStart(fat[v], i)
    BY <1>3, <1>4 DEF SlotStart
  <2>2. /\ StoredHeader(v, i)' = HeaderIn(eeprom'[v], Live(v)', i)
        /\ StoredHeader(v, i) = HeaderIn(eeprom[v], Live(v), i)
    BY <1>1, <1>3, <1>4 DEF ViewInv, SlotView
  <2>3. StoredHeader(v, i)' = StoredHeader(v, i)
    BY <2>1, <2>2 DEF ResetKeepsFat, HeaderIn
  <2> QED BY <2>1, <2>3 DEF DataStart
<1>6. \A v \in Device : UsedSlots(v)' = UsedSlots(v) \cap Slots(fat[v])
  <2> SUFFICES ASSUME NEW v \in Device PROVE UsedSlots(v)' = UsedSlots(v) \cap Slots(fat[v])
    OBVIOUS
  <2>1. /\ UsedSlots(v)' = {i \in Slots(fat[v]) : StoredHeader(v, i)'.InUse}
        /\ UsedSlots(v) = {i \in Slots(Live(v)) : StoredHeader(v, i).InUse}
    BY <1>1, <1>4 DEF ViewInv, SlotView
  <2> QED BY <1>3, <1>5, <2>1
<1>7. \A d \in Descriptor : fdTable'[d] = ZeroDescriptor /\ ~ fdTable'[d].InUse
  BY <1>2 DEF LibInit, ZeroDescriptor
<1>8. MappedMounted' = {}
  BY <1>2 DEF LibInit, MappedMounted, Loaded, ZeroTable
<1>9. MappedHandle' = [d \in Descriptor |-> Store!Closed]
  <2>1. \A d \in Descriptor : MappedHandle'[d] = Store!Closed
    BY <1>7, ZeroIsClosedNext DEF ZeroClosed
  <2>2. MappedHandle' = [d \in Descriptor |-> MappedHandle'[d]]
    BY DEF MappedHandle
  <2> QED BY <2>1, <2>2
<1>10. MappedListing' = Store!NoListing
  BY <1>2 DEF LibInit, MappedListing, ZeroDirectory, Store!NoListing
<1>11. MappedFile' = [v \in Device |->
         Store!Only(MappedFile[v], {id \in DOMAIN MappedFile[v] : MappedFile[v][id].durable})]
  <2>1. ASSUME NEW v \in Device
        PROVE  MappedFile'[v] =
                 Store!Only(MappedFile[v], {id \in DOMAIN MappedFile[v] : MappedFile[v][id].durable})
    <3>1. /\ MappedFile'[v] = [i \in UsedSlots(v)' |-> MappedFile'[v][i]]
          /\ MappedFile[v] = [i \in UsedSlots(v) |-> MappedFile[v][i]]
      BY DEF MappedFile
    <3>2. \A i \in UsedSlots(v) : MappedFile[v][i].durable <=> i \in Slots(fat[v])
      BY DEF MappedFile
    <3>3. {id \in DOMAIN MappedFile[v] : MappedFile[v][id].durable} = UsedSlots(v)'
      BY <1>6, <3>1, <3>2
    <3>4. \A i \in UsedSlots(v)' : MappedFile'[v][i] = MappedFile[v][i]
      <4> SUFFICES ASSUME NEW i \in UsedSlots(v)' PROVE MappedFile'[v][i] = MappedFile[v][i]
        OBVIOUS
      <4>1. i \in UsedSlots(v) /\ i \in Slots(fat[v]) /\ i \in Slots(fat'[v])
        BY <1>6 DEF ResetKeepsFat
      <4>2. (i \in Slots(fat'[v])) = (i \in Slots(fat[v]))
        BY <4>1
      <4> QED BY <1>5, <4>1, <4>2 DEF MappedFile
    <3>5. DOMAIN MappedFile[v] \cap UsedSlots(v)' = UsedSlots(v)'
      BY <1>6, <3>1
    <3> QED BY <3>1, <3>3, <3>4, <3>5 DEF Store!Only
  <2>2. MappedFile' = [v \in Device |-> MappedFile'[v]]
    BY DEF MappedFile
  <2> QED BY <2>1, <2>2
<1>12. Store!SameBytes
  <2>1. ASSUME NEW v \in Device, NEW i \in UsedSlots(v)'
        PROVE  /\ i \in UsedSlots(v) /\ VisibleSize(v, i)' <= VisibleSize(v, i)
               /\ \A k \in 0 .. VisibleSize(v, i) - 1 : CellOf(v, i, k)' = CellOf(v, i, k)
    <3>1. i \in UsedSlots(v) /\ i \in Slots(fat[v])
      BY <1>6, <2>1
    <3>2. OpenOnSlot(v, i)' = {}
      BY <1>7 DEF OpenOnSlot, OpenOn
    <3>3. VisibleSize(v, i)' <= VisibleSize(v, i)
      BY <1>1, <1>5, <2>1, <3>1, <3>2, SizeShrinks DEF ViewInv, SizeView
    <3>4. ASSUME NEW k \in 0 .. VisibleSize(v, i) - 1
          PROVE  CellOf(v, i, k)' = CellOf(v, i, k)
      <4>1. i \in Slots(Live(v)) /\ k \in 0 .. Live(v).File[i].MaxFileSize - 1
        BY <3>1, <3>4, VisibleBytes
      <4>2. PICK x : x = DataStart(v, i) + k
        OBVIOUS
      <4>3. /\ x \in Address
            /\ SlotStart(Live(v), i) + HeaderSize <= x /\ x < SlotEnd(Live(v), i)
        BY <1>1, <4>1, <4>2, DataByte
      <4>4. SlotStart(Live(v), i) = SlotStart(fat[v], i) /\ SlotEnd(Live(v), i) = SlotEnd(fat[v], i)
        BY <1>3, <3>1 DEF SlotStart, SlotEnd
      <4>5. x \in DataCells(fat[v], i)
        <5>1. SlotStart(Live(v), i) \in Nat /\ SlotEnd(Live(v), i) \in Nat
          BY <1>1, <4>1, LiveTiled, TiledSlots, SizesAssumption DEF LiveIsTiled
        <5> QED BY <4>3, <4>4, <5>1, SizesAssumption DEF DataCells, Address
      <4>6. eeprom'[v][x] = eeprom[v][x]
        BY <3>1, <4>5 DEF ResetKeepsFat, DataStays
      <4> QED BY <1>5, <3>1, <4>2, <4>6 DEF CellOf
    <3> QED BY <3>1, <3>3, <3>4
  <2> QED BY <1>1, <2>1, BytesShrink
<1>13. Store!Crash
  BY <1>8, <1>9, <1>10, <1>11, <1>12 DEF Store!Crash
<1> QED BY <1>13 DEF StoreStep, Store!StoreNext

LEMMA ResetStores ==
  ASSUME StoreInv, StoreInv', Reset
  PROVE  StoreStep
<1>1. LibInit /\ eeprom' = eeprom /\ fat' = fat
  BY DEF Reset, image
<1>2. ResetKeepsFat
  BY <1>1 DEF ResetKeepsFat, DataStays
<1> QED BY <1>2, CrashStores

\* A reset in a close: the header it has stored, and the entry, are beyond the slots that
\* the allocation table counts.
LEMMA ResetDuringCloseStores ==
  ASSUME StoreInv, StoreInv', NEW d \in Descriptor, ResetDuringClose(d)
  PROVE  StoreStep
<1>1. TypeOK /\ TableInv /\ FileInv
  BY DEF StoreInv
<1>2. PICK v, i, h, t : /\ v = fdTable[d].InodeTable /\ i = fdTable[d].InodeIndex
                        /\ h = [Header(v, i) EXCEPT !.FileSize = fdTable[d].FileSize]
                        /\ t = AllocateSlot(inode[v], d)
  OBVIOUS
<1>3. PICK k \in {0, 1} :
        /\ fdTable[d].InUse /\ FCREAT \in fdTable[d].Mode /\ LibInit
        /\ eeprom' = [eeprom EXCEPT ![v] = StoreFileSize(@, d)]
        /\ fat' = [fat EXCEPT ![v] = UpdatedFat(@, t, i, k)]
  BY <1>2 DEF ResetDuringClose, IsValidFileDescriptor
<1>4. /\ v \in Device /\ i \in Slots(inode[v]) /\ h \in FileHeader
      /\ StoreFileSize(eeprom[v], d) = WriteHeader(eeprom[v], SlotStart(inode[v], i), h)
  BY <1>1, <1>2, <1>3, StoredSize
<1>5. i = fat[v].NumberOfFiles
  BY <1>1, <1>2, <1>3, FinalSlotFits
<1>6. /\ fat'[v] = UpdatedFat(fat[v], t, i, k)
      /\ eeprom'[v] = WriteHeader(eeprom[v], SlotStart(inode[v], i), h)
      /\ \A w \in Device \ {v} : fat'[w] = fat[w] /\ eeprom'[w] = eeprom[w]
  BY <1>1, <1>3, <1>4 DEF TypeOK
<1>7. Live(v) = inode[v] /\ IsTiled(inode[v])
  BY <1>1, <1>4, SlotIsLive, LiveTiled DEF LiveIsTiled
<1>8. fat[v] \in Table /\ t \in Table /\ i \in FileIndex
  <2>1. fat[v] \in Table /\ t \in Table
    BY <1>1, <1>2, <1>4, CloseWritesType DEF TypeOK
  <2>2. i \in FileIndex
    BY <1>4, <1>7, TiledSlots
  <2> QED BY <2>1, <2>2
<1>9. /\ fat'[v].NumberOfFiles = fat[v].NumberOfFiles
      /\ \A j \in FileIndex \ {i} : fat'[v].File[j] = fat[v].File[j]
  <2>1. k \in {0, 1, 2} /\ k # 2
    OBVIOUS
  <2> QED BY <1>6, <1>8, <2>1, UpdatedFatFields
<1>10. \A j \in Slots(fat[v]) : j \in FileIndex \ {i} /\ j \in Slots(inode[v]) \ {i}
                             /\ inode[v].File[j] = fat[v].File[j]
  <2>1. \A j \in Slots(fat[v]) : j \in Slots(inode[v]) /\ inode[v].File[j] = fat[v].File[j]
    BY <1>1, <1>4, <1>7, FatIsPartOfLive
  <2>2. \A j \in Slots(fat[v]) : j # i
    BY <1>5, <1>8, SizesAssumption DEF Slots, Table
  <2>3. \A j \in Slots(inode[v]) : j \in FileIndex
    BY <1>7, TiledSlots
  <2> QED BY <2>1, <2>2, <2>3
<1>11. \A j \in Slots(fat[v]) : HeaderIn(eeprom'[v], fat[v], j) = HeaderIn(eeprom[v], fat[v], j)
  <2>1. eeprom[v] \in [Address -> Cell]
    BY <1>1, <1>4 DEF TypeOK
  <2>2. \A j \in Slots(inode[v]) \ {i} :
          HeaderIn(eeprom'[v], inode[v], j) = HeaderIn(eeprom[v], inode[v], j)
    BY <1>4, <1>6, <1>7, <2>1, OtherHeadersKept
  <2> QED BY <1>10, <2>2 DEF HeaderIn, SlotStart
<1>12. \A w \in Device :
         /\ Slots(fat'[w]) = Slots(fat[w])
         /\ \A j \in Slots(fat[w]) :
              /\ fat'[w].File[j] = fat[w].File[j]
              /\ HeaderIn(eeprom'[w], fat[w], j) = HeaderIn(eeprom[w], fat[w], j)
  BY <1>6, <1>9, <1>10, <1>11 DEF Slots
<1>13. DataStays
  BY <1>1, CloseChangesNoData
<1>14. ResetKeepsFat
  BY <1>3, <1>12, <1>13 DEF ResetKeepsFat
<1> QED BY <1>14, CrashStores

(***************************************************************************)
(* Opening                                                                 *)
(***************************************************************************)
\* A descriptor that is taken is a handle that was closed.
LEMMA HandleOpens ==
  ASSUME StoreInv, NEW v \in Device, NEW f, f.InUse, f.InodeTable = v, GetFileDescriptor(f)
  PROVE  \E d \in Descriptor :
           /\ ~ fdTable[d].InUse /\ ~ Store!IsOpen(d)
           /\ fdTable'[d] = f /\ \A e \in Descriptor \ {d} : fdTable'[e] = fdTable[e]
           /\ MappedHandle'[d] # MappedHandle[d]
           /\ MappedHandle' = [MappedHandle EXCEPT ![d] =
                [device |-> v, id |-> f.InodeIndex, offset |-> f.ByteOffset, size |-> f.FileSize,
                 reads |-> FREAD \in f.Mode, writes |-> FWRITE \in f.Mode,
                 creates |-> FCREAT \in f.Mode]]
           /\ \A w, i : OpenOnSlot(w, i)' = IF w = v /\ i = f.InodeIndex
                                            THEN OpenOnSlot(w, i) \cup {d} ELSE OpenOnSlot(w, i)
<1>1. PICK d \in FreeDescriptors : fdTable' = [fdTable EXCEPT ![d] = f]
  BY GetFileDescriptorStep
<1>2. d \in Descriptor /\ ~ fdTable[d].InUse /\ fdTable[d] = ZeroDescriptor
      /\ DOMAIN fdTable = Descriptor
  BY <1>1 DEF FreeDescriptors, StoreInv, UnusedIsZero, TypeOK
<1>3. fdTable'[d] = f /\ \A e \in Descriptor \ {d} : fdTable'[e] = fdTable[e]
  BY <1>1, <1>2
<1>4. MappedHandle[d] = Store!Closed
  BY <1>2, ZeroIsClosed DEF ZeroClosed
<1>5. Store!Closed.device = NullTable
  BY DEF Store!Closed
<1>6. ~ Store!IsOpen(d)
  BY <1>4, <1>5, InputsAssumption DEF Store!IsOpen
<1> DEFINE opened == [device |-> v, id |-> f.InodeIndex, offset |-> f.ByteOffset,
                      size |-> f.FileSize, reads |-> FREAD \in f.Mode,
                      writes |-> FWRITE \in f.Mode, creates |-> FCREAT \in f.Mode]
           after == [MappedHandle EXCEPT ![d] = opened]
<1>7. MappedHandle'[d] = opened
  BY <1>2, <1>3 DEF MappedHandle
<1>8. MappedHandle' = after
  <2>1. \A e \in Descriptor \ {d} : MappedHandle'[e] = MappedHandle[e]
    BY <1>3 DEF MappedHandle
  <2> HIDE DEF opened
  <2>2. MappedHandle' = [e \in Descriptor |-> MappedHandle'[e]]
        /\ after = [e \in Descriptor |-> after[e]]
    BY DEF MappedHandle
  <2>3. \A e \in Descriptor : MappedHandle'[e] = after[e]
    BY <1>7, <2>1 DEF MappedHandle
  <2> HIDE DEF after
  <2> QED BY <2>2, <2>3
<1>9. MappedHandle'[d] # MappedHandle[d]
  <2>1. MappedHandle'[d].device = v
    BY <1>7
  <2> QED BY <1>4, <1>5, <2>1, InputsAssumption
<1>10. \A w, i : OpenOnSlot(w, i)' = IF w = v /\ i = f.InodeIndex
                                     THEN OpenOnSlot(w, i) \cup {d} ELSE OpenOnSlot(w, i)
  BY <1>2, <1>3 DEF OpenOnSlot, OpenOn
<1> QED BY <1>2, <1>3, <1>6, <1>8, <1>9, <1>10

\* Opening a file shows another handle on it, which sees no more of it than its header says.
LEMMA OpenKeepsFiles ==
  ASSUME StoreInv, StoreInv', NEW v \in Device, NEW i \in UsedSlots(v), NEW f, f.InUse,
         f.InodeTable = v, f.InodeIndex = i, GetFileDescriptor(f),
         ImageAndTablesStay, dir' = dir, f.FileSize \in {0, StoredHeader(v, i).FileSize}
  PROVE  /\ MappedFile' = MappedFile /\ MappedMounted' = MappedMounted
         /\ MappedListing' = MappedListing /\ Store!SameBytes
<1>1. ViewInv /\ ViewInv'
  BY Viewed, ViewedNext
<1>2. PICK d \in Descriptor :
        /\ fdTable'[d] = f /\ \A e \in Descriptor \ {d} : fdTable'[e] = fdTable[e]
        /\ ~ fdTable[d].InUse
        /\ \A w, j : OpenOnSlot(w, j)' = IF w = v /\ j = i
                                         THEN OpenOnSlot(w, j) \cup {d} ELSE OpenOnSlot(w, j)
  BY HandleOpens
<1>3. /\ MappedFile' = MappedFile /\ MappedMounted' = MappedMounted
      /\ \A w \in Device : UsedSlots(w)' = UsedSlots(w)
      /\ \A w \in Device : \A j \in UsedSlots(w) :
           /\ StoredHeader(w, j)' = StoredHeader(w, j)
           /\ \A k : CellOf(w, j, k)' = CellOf(w, j, k)
  BY <1>1, FilesStay
<1>4. MappedListing' = MappedListing
  BY <1>3 DEF MappedListing, StoreInv, UseInv, DirectoryOnDevice
<1>5. ASSUME NEW w \in Device, NEW j \in UsedSlots(w)
      PROVE  VisibleSize(w, j)' <= VisibleSize(w, j)
  <2>1. SizeView(w, j)
    BY <1>1 DEF ViewInv
  <2>2. \A e \in OpenOnSlot(w, j) : fdTable'[e] = fdTable[e]
    BY <1>2 DEF OpenOnSlot, OpenOn
  <2>3. w = v /\ j = i => f.FileSize <= VisibleSize(w, j)
    BY <2>1 DEF SizeView
  <2>4. \A e \in OpenOnSlot(w, j)' : fdTable'[e].FileSize <= VisibleSize(w, j)
    BY <1>2, <2>1, <2>2, <2>3 DEF SizeView
  <2>5. StoredHeader(w, j)'.FileSize <= VisibleSize(w, j) /\ j \in UsedSlots(w)'
    BY <1>3, <2>1 DEF SizeView
  <2> QED BY <1>1, <2>4, <2>5, SizeShrinks
<1>6. Store!SameBytes
  BY <1>1, <1>3, <1>5, BytesShrink
<1> QED BY <1>3, <1>4, <1>6

\* EEFS_LibOpenFile opens a file for writing only if it is not read-only and nobody writes it.
LEMMA WriterChecked ==
  ASSUME StoreInv, NEW v \in Device, NEW i, NEW Flags,
         OpenFileStatus(v, i, Flags) = SUCCESS, AccessMode(Flags) # O_RDONLY
  PROVE  /\ Header(v, i).Attributes # READONLY
         /\ \A g \in Store!OpenOnFile(v, i) : ~ MappedHandle[g].writes
<1>1. Header(v, i).Attributes # READONLY
  BY DEF OpenFileStatus, SUCCESS, INVALID_ARGUMENT, PERMISSION_DENIED, NO_FREE_FILE_DESCRIPTOR
<1>2. FWRITE \notin Fmode(v, i)
  BY OpenFileChecked
<1>3. \A g \in OpenOnSlot(v, i) : g \in Descriptor /\ FWRITE \notin fdTable[g].Mode
  BY <1>2 DEF Fmode, OpenOnSlot, OpenOn
<1> QED BY <1>1, <1>3, OpenViewed DEF MappedHandle

LEMMA OpenFileStores ==
  ASSUME FlagsSeparateCreat, FlagsSeparateWriters, FlagsTruncateToWrite,
         StoreInv, StoreInv', NEW v \in Device, NEW n \in Filename, NEW i, i = FindFile(v, n),
         i # FILE_NOT_FOUND, NEW Flags \in CallerFlags \cup {CreatFlags}, LibOpenFile(v, i, Flags)
  PROVE  StoreStep
<1>1. PICK mode, size, f :
        /\ mode = OpenMode(Flags)
        /\ size = IF Truncates(Flags) THEN 0 ELSE Header(v, i).FileSize
        /\ f = NewDescriptor(v, i, mode, size, inode[v].File[i].MaxFileSize)
        /\ GetFileDescriptor(f)
  BY DEF LibOpenFile
<1>2. /\ f.InUse /\ f.InodeTable = v /\ f.InodeIndex = i /\ f.Mode = mode /\ f.FileSize = size
      /\ f.ByteOffset = 0
  BY <1>1 DEF NewDescriptor
<1>3. ImageAndTablesStay /\ dir' = dir /\ OpenFileStatus(v, i, Flags) = SUCCESS
  BY DEF LibOpenFile, ImageAndTablesStay, image
<1>4. /\ Loaded(v) /\ i \in UsedSlots(v) /\ i \in Store!Named(v, n)
      /\ StoredHeader(v, i) = Header(v, i)
      /\ MappedFile[v][i].size = Header(v, i).FileSize
      /\ MappedFile[v][i].attributes = Header(v, i).Attributes
  <2>1. /\ Loaded(v) /\ i \in UsedSlots(v) /\ i \in Store!Named(v, n)
        /\ StoredHeader(v, i) = Header(v, i)
        /\ MappedFile[v][i] =
              [name |-> n, attributes |-> Header(v, i).Attributes,
               size |-> Header(v, i).FileSize, durable |-> i \in Slots(fat[v])]
    BY NameViewed
  <2> QED BY <2>1
<1>5. PICK d \in Descriptor :
        /\ ~ Store!IsOpen(d) /\ MappedHandle'[d] # MappedHandle[d]
        /\ MappedHandle' = [MappedHandle EXCEPT ![d] =
             [device |-> v, id |-> i, offset |-> 0, size |-> size,
              reads |-> FREAD \in mode, writes |-> FWRITE \in mode, creates |-> FCREAT \in mode]]
  BY <1>1, <1>2, HandleOpens
<1>6. (FCREAT \in mode) = FALSE
  BY <1>1 DEF FlagsSeparateCreat
<1>7. PICK reads \in BOOLEAN, writes \in BOOLEAN :
        reads = (FREAD \in mode) /\ writes = (FWRITE \in mode)
  <2>1. (FREAD \in mode) \in BOOLEAN /\ (FWRITE \in mode) \in BOOLEAN
    OBVIOUS
  <2> QED BY <2>1, Zenon
<1>8. MappedHandle' = [MappedHandle EXCEPT ![d] =
        [device |-> v, id |-> i, offset |-> 0, size |-> size,
         reads |-> reads, writes |-> writes, creates |-> FALSE]]
  BY <1>5, <1>6, <1>7
<1>9. /\ reads \/ writes
      /\ ~ writes => size = MappedFile[v][i].size
      /\ size \in {0, MappedFile[v][i].size}
  BY <1>1, <1>4, <1>7 DEF FlagsTruncateToWrite
<1>10. writes => /\ MappedFile[v][i].attributes # READONLY
                 /\ \A g \in Store!OpenOnFile(v, i) : ~ MappedHandle[g].writes
  <2>1. writes => AccessMode(Flags) # O_RDONLY
    BY <1>1, <1>7 DEF FlagsSeparateWriters
  <2> QED BY <1>3, <1>4, <2>1, WriterChecked
<1>11. /\ MappedFile' = MappedFile /\ MappedMounted' = MappedMounted
       /\ MappedListing' = MappedListing /\ Store!SameBytes
  BY <1>1, <1>2, <1>3, <1>4, OpenKeepsFiles
<1>12. v \in MappedMounted
  BY <1>4 DEF MappedMounted
<1>13. Store!OpenFile(v, n, d)
  BY <1>4, <1>5, <1>8, <1>9, <1>10, <1>11, <1>12 DEF Store!OpenFile
<1>14. Store!HandleStep(d)
  BY <1>5, <1>13 DEF Store!HandleStep
<1> QED BY <1>14 DEF StoreStep, Store!StoreNext

(***************************************************************************)
(* Creating                                                                *)
(***************************************************************************)
\* A step that adds file i with header h to v, in a slot of its own.
CreatView(v, i, h) ==
  /\ MappedMounted' = MappedMounted /\ v \in MappedMounted /\ fat' = fat
  /\ i \in FileIndex \ UsedSlots(v) /\ i \notin Slots(fat[v]) /\ OpenOnSlot(v, i) = {}
  /\ \A w \in Device : UsedSlots(w)' = IF w = v THEN UsedSlots(v) \cup {i} ELSE UsedSlots(w)
  /\ StoredHeader(v, i)' = h
  /\ \A w \in Device : \A j \in UsedSlots(w) :
       /\ StoredHeader(w, j)' = StoredHeader(w, j)
       /\ \A k \in 0 .. VisibleSize(w, j) - 1 : CellOf(w, j, k)' = CellOf(w, j, k)

\* EEFS_LibCreatFile adds the slot after those of the inode table.
LEMMA CreatesView ==
  ASSUME StoreInv, StoreInv', NEW v \in Device, NEW n \in Filename,
         NEW Attributes \in {NONE, READONLY}, LibCreatFile(v, n, Attributes)
  PROVE  CreatView(v, inode[v].NumberOfFiles,
           [InUse |-> TRUE, Attributes |-> Attributes, FileSize |-> 0, Filename |-> n])
<1>1. TypeOK /\ TableInv /\ TypeOK' /\ TableInv' /\ FileInv /\ ViewInv /\ ViewInv'
  BY Viewed, ViewedNext DEF StoreInv
<1>2. PICK i, t, p, h :
        /\ i = inode[v].NumberOfFiles /\ t = inode'[v] /\ p = inode[v].FreeMemoryPointer
        /\ h = [InUse |-> TRUE, Attributes |-> Attributes, FileSize |-> 0, Filename |-> n]
  OBVIOUS
<1>3. /\ Loaded(v) /\ Loaded(v)' /\ i \in FileIndex /\ i \notin Slots(inode[v])
      /\ Slots(t) = Slots(inode[v]) \cup {i} /\ SlotStart(t, i) = p
      /\ \A j \in Slots(inode[v]) : t.File[j] = inode[v].File[j]
      /\ \A w \in Device \ {v} : inode'[w] = inode[w]
  <2>1. /\ Loaded(v) /\ Loaded(v)' /\ inode[v].NumberOfFiles \in FileIndex
        /\ inode[v].NumberOfFiles \notin Slots(inode[v])
        /\ Slots(inode'[v]) = Slots(inode[v]) \cup {inode[v].NumberOfFiles}
        /\ \A j \in Slots(inode[v]) : inode'[v].File[j] = inode[v].File[j]
        /\ \A w \in Device \ {v} : inode'[w] = inode[w]
    BY <1>1, CreatedSlot
  <2>2. inode'[v].File[inode[v].NumberOfFiles] =
          [FileHeaderPointer |-> inode[v].FreeMemoryPointer,
           MaxFileSize |-> inode[v].FreeMemorySize - HeaderSize]
    BY <1>1, CreatedSlot
  <2>3. SlotStart(t, i) = p
    BY <1>2, <2>2 DEF SlotStart
  <2> QED BY <1>2, <2>1, <2>3
<1>4. fat' = fat /\ WritesHeaderAt(v, p, h)
  BY <1>2 DEF LibCreatFile, WritesHeaderAt
<1>5. h \in FileHeader /\ h.InUse
  BY <1>2 DEF FileHeader
<1>6. /\ eeprom[v] \in [Address -> Cell] /\ eeprom'[v] = WriteHeader(eeprom[v], p, h)
      /\ \A w \in Device \ {v} : eeprom'[w] = eeprom[w]
  BY <1>1, <1>4 DEF WritesHeaderAt, TypeOK
<1>7. /\ Live(v) = inode[v] /\ Live(v)' = t
      /\ \A w \in Device \ {v} : Live(w)' = Live(w)
  BY <1>2, <1>3, <1>4 DEF Live, Loaded
<1>8. IsTiled(t) /\ IsTiled(inode[v])
  BY <1>1, <1>7, LiveTiled, LiveTiledNext DEF LiveIsTiled
<1>9. /\ HeaderIn(eeprom'[v], t, i) = h
      /\ \A j \in Slots(inode[v]) : HeaderIn(eeprom'[v], t, j) = HeaderIn(eeprom[v], inode[v], j)
  <2>1. i \in Slots(t) /\ \A j \in Slots(inode[v]) : j \in Slots(t) \ {i}
    BY <1>3
  <2>2. /\ HeaderIn(eeprom'[v], t, i) = h
        /\ \A j \in Slots(t) \ {i} : HeaderIn(eeprom'[v], t, j) = HeaderIn(eeprom[v], t, j)
    BY <1>3, <1>5, <1>6, <1>8, <2>1, OtherHeadersKept
  <2>3. \A j \in Slots(inode[v]) : HeaderIn(eeprom[v], t, j) = HeaderIn(eeprom[v], inode[v], j)
    BY <1>3 DEF HeaderIn, SlotStart
  <2> QED BY <2>1, <2>2, <2>3
<1>10. StoredHeader(v, i)' = h
  BY <1>1, <1>3, <1>7, <1>9 DEF ViewInv, SlotView
<1>11. \A w \in Device : \A j \in Slots(Live(w)) :
         /\ j \in Slots(Live(w)') /\ StoredHeader(w, j)' = StoredHeader(w, j)
         /\ DataStart(w, j)' = DataStart(w, j)
  <2> SUFFICES ASSUME NEW w \in Device, NEW j \in Slots(Live(w))
               PROVE  /\ j \in Slots(Live(w)')
                      /\ StoredHeader(w, j)' = StoredHeader(w, j)
                      /\ DataStart(w, j)' = DataStart(w, j)
    OBVIOUS
  <2>1. j \in Slots(Live(w)') /\ Live(w)'.File[j] = Live(w).File[j]
    BY <1>3, <1>7
  <2>2. HeaderIn(eeprom'[w], Live(w)', j) = HeaderIn(eeprom[w], Live(w), j)
    BY <1>6, <1>7, <1>9
  <2> QED BY <1>1, <2>1, <2>2 DEF ViewInv, SlotView, DataStart, SlotStart
<1>12. /\ UsedSlots(v)' = UsedSlots(v) \cup {i}
       /\ \A w \in Device \ {v} : UsedSlots(w)' = UsedSlots(w)
       /\ \A w \in Device : UsedSlots(w) \subseteq Slots(Live(w))
  <2>1. \A w \in Device : /\ UsedSlots(w) = {j \in Slots(Live(w)) : StoredHeader(w, j).InUse}
                          /\ UsedSlots(w)' = {j \in Slots(Live(w)') : StoredHeader(w, j)'.InUse}
    BY <1>1 DEF ViewInv, SlotView
  <2>2. UsedSlots(v)' = {j \in Slots(inode[v]) \cup {i} : StoredHeader(v, j)'.InUse}
    BY <1>3, <1>7, <2>1
  <2>3. \A j \in Slots(inode[v]) : StoredHeader(v, j)' = StoredHeader(v, j)
    BY <1>7, <1>11
  <2>4. UsedSlots(v) = {j \in Slots(inode[v]) : StoredHeader(v, j).InUse}
    BY <1>7, <2>1
  <2>5. UsedSlots(v)' = UsedSlots(v) \cup {i}
    BY <1>5, <1>10, <2>2, <2>3, <2>4
  <2>6. \A w \in Device \ {v} : UsedSlots(w)' = UsedSlots(w)
    <3> SUFFICES ASSUME NEW w \in Device \ {v} PROVE UsedSlots(w)' = UsedSlots(w)
      OBVIOUS
    <3>1. /\ UsedSlots(w) = {j \in Slots(Live(w)) : StoredHeader(w, j).InUse}
          /\ UsedSlots(w)' = {j \in Slots(Live(w)) : StoredHeader(w, j)'.InUse}
      BY <1>7, <2>1
    <3>2. \A j \in Slots(Live(w)) : StoredHeader(w, j)' = StoredHeader(w, j)
      BY <1>11
    <3> QED BY <3>1, <3>2
  <2> QED BY <2>1, <2>5, <2>6
<1>13. \A j \in Slots(Live(v)) : SlotEnd(Live(v), j) <= p
  <2>1. i \in Nat /\ Slots(inode[v]) = 0 .. i - 1 /\ t.NumberOfFiles \in Nat
    BY <1>2, <1>3, <1>8, SizesAssumption DEF FileIndex, Slots, IsTiled, Table
  <2> SUFFICES ASSUME NEW j \in Slots(inode[v]) PROVE SlotEnd(inode[v], j) <= p
    BY <1>7
  <2>2. j < i /\ i \in 0 .. t.NumberOfFiles - 1 /\ j \in 0 .. t.NumberOfFiles - 1
    <3>1. j \in 0 .. i - 1
      BY <2>1
    <3>2. i \in Slots(t) /\ j \in Slots(t)
      BY <1>3
    <3> QED BY <2>1, <3>1, <3>2 DEF Slots
  <2>3. SlotEnd(t, j) <= SlotStart(t, i)
    BY <1>8, <2>2 DEF IsTiled, Tiled
  <2>4. SlotEnd(t, j) = SlotEnd(inode[v], j)
    BY <1>3 DEF SlotEnd, SlotStart
  <2> QED BY <1>3, <2>3, <2>4
<1>14. ASSUME NEW w \in Device, NEW j \in UsedSlots(w), NEW k \in 0 .. VisibleSize(w, j) - 1
       PROVE  CellOf(w, j, k)' = CellOf(w, j, k)
  <2>1. j \in Slots(Live(w)) /\ k \in 0 .. Live(w).File[j].MaxFileSize - 1
    BY VisibleBytes
  <2>2. p \in Nat
    BY <1>1, <1>2 DEF TypeOK, Table
  <2> QED BY <1>1, <1>4, <1>11, <1>13, <2>1, <2>2, HeaderKeepsCells
<1>15. OpenOnSlot(v, i) = {}
  BY <1>1, <1>3, OpenSlotIsLive DEF OpenOnSlot, OpenOn, FileInv
<1>16. i \notin Slots(fat[v]) /\ i \notin UsedSlots(v)
  BY <1>1, <1>3, <1>7, <1>12, FatIsPartOfLive
<1>17. MappedMounted' = MappedMounted /\ v \in MappedMounted
  BY <1>3 DEF MappedMounted, Loaded
<1>18. CreatView(v, i, h)
  <2>1. \A w \in Device : UsedSlots(w)' = IF w = v THEN UsedSlots(v) \cup {i} ELSE UsedSlots(w)
    BY <1>12
  <2>2. \A w \in Device : \A j \in UsedSlots(w) : StoredHeader(w, j)' = StoredHeader(w, j)
    BY <1>11, <1>12
  <2> QED BY <1>3, <1>4, <1>10, <1>14, <1>15, <1>16, <1>17, <2>1, <2>2 DEF CreatView
<1> QED BY <1>2, <1>18

\* The file that is added is empty and not durable; the others are what they were.
LEMMA CreatShowsFile ==
  ASSUME NEW v \in Device, NEW i, NEW h, CreatView(v, i, h)
  PROVE  MappedFile' = [MappedFile EXCEPT ![v] = Store!Plus(@, i,
           [name |-> h.Filename, attributes |-> h.Attributes, size |-> h.FileSize,
            durable |-> FALSE])]
<1> DEFINE new == [name |-> h.Filename, attributes |-> h.Attributes, size |-> h.FileSize,
                   durable |-> FALSE]
           after == [MappedFile EXCEPT ![v] = Store!Plus(@, i, new)]
<1>1. (i \in Slots(fat[v])) = FALSE
  BY DEF CreatView
<1>2. MappedFile'[v] = [j \in UsedSlots(v) \cup {i} |-> MappedFile'[v][j]]
      /\ DOMAIN MappedFile[v] = UsedSlots(v) /\ i \notin UsedSlots(v)
  BY DEF MappedFile, CreatView
<1>3. MappedFile'[v][i] = new
  BY <1>1 DEF MappedFile, CreatView
<1>4. \A w \in Device : \A j \in UsedSlots(w) : MappedFile'[w][j] = MappedFile[w][j]
  BY DEF MappedFile, CreatView
<1>5. \A w \in Device \ {v} : MappedFile'[w] = MappedFile[w]
  <2> SUFFICES ASSUME NEW w \in Device \ {v} PROVE MappedFile'[w] = MappedFile[w]
    OBVIOUS
  <2>1. UsedSlots(w)' = UsedSlots(w)
    BY DEF CreatView
  <2>2. MappedFile'[w] = [j \in UsedSlots(w) |-> MappedFile'[w][j]]
        /\ MappedFile[w] = [j \in UsedSlots(w) |-> MappedFile[w][j]]
    BY <2>1 DEF MappedFile
  <2> QED BY <1>4, <2>2
<1> HIDE DEF new
<1>6. MappedFile'[v] = Store!Plus(MappedFile[v], i, new)
  BY <1>2, <1>3, <1>4 DEF Store!Plus
<1>7. MappedFile' = [w \in Device |-> MappedFile'[w]] /\ DOMAIN MappedFile = Device
  BY DEF MappedFile
<1>8. MappedFile' = after
  BY <1>5, <1>6, <1>7
<1> QED BY <1>8 DEF new

\* Its handle has written nothing, and no byte of another file has changed.
LEMMA CreatKeepsBytes ==
  ASSUME StoreInv, StoreInv', NEW v \in Device, NEW i, NEW h, CreatView(v, i, h),
         h.FileSize = 0, NEW f, f.InUse, f.InodeTable = v, f.InodeIndex = i,
         GetFileDescriptor(f), f.FileSize = 0
  PROVE  Store!SameBytes
<1>1. ViewInv /\ ViewInv'
  BY Viewed, ViewedNext
<1>2. PICK d \in Descriptor :
        /\ fdTable'[d] = f /\ \A e \in Descriptor \ {d} : fdTable'[e] = fdTable[e]
        /\ ~ fdTable[d].InUse
        /\ \A w, j : OpenOnSlot(w, j)' = IF w = v /\ j = i
                                         THEN OpenOnSlot(w, j) \cup {d} ELSE OpenOnSlot(w, j)
  BY HandleOpens
<1>3. VisibleSize(v, i)' = 0
  <2>1. i \in UsedSlots(v)' /\ OpenOnSlot(v, i)' = {d} /\ StoredHeader(v, i)'.FileSize = 0
    BY <1>2 DEF CreatView
  <2>2. SizeView(v, i)'
    BY <1>1, <2>1 DEF ViewInv
  <2> QED BY <1>2, <2>1, <2>2 DEF SizeView
<1>4. ASSUME NEW w \in Device, NEW j \in UsedSlots(w)
      PROVE  VisibleSize(w, j)' <= VisibleSize(w, j)
  <2>1. j \in UsedSlots(w)' /\ StoredHeader(w, j)' = StoredHeader(w, j) /\ ~ (w = v /\ j = i)
    BY DEF CreatView
  <2>2. OpenOnSlot(w, j)' = OpenOnSlot(w, j)
        /\ \A e \in OpenOnSlot(w, j) : fdTable'[e] = fdTable[e]
    BY <1>2, <2>1 DEF OpenOnSlot, OpenOn
  <2>3. VisibleSize(w, j)' = VisibleSize(w, j) /\ VisibleSize(w, j) \in Nat
    BY <1>1, <2>1, <2>2, SizeStays DEF ViewInv, SizeView
  <2> QED BY <2>3
<1>5. \A w \in Device : \A j \in UsedSlots(w)' : (w = v /\ j = i) \/ j \in UsedSlots(w)
  BY DEF CreatView
<1>6. \A w \in Device : \A j \in UsedSlots(w) : \A k \in 0 .. VisibleSize(w, j) - 1 :
        CellOf(w, j, k)' = CellOf(w, j, k)
  BY DEF CreatView
<1> QED BY <1>1, <1>3, <1>4, <1>5, <1>6, BytesShrink

LEMMA CreatFileStores ==
  ASSUME StoreInv, StoreInv', NEW v \in Device, NEW n \in Filename,
         NEW Attributes \in {NONE, READONLY}, FindFile(v, n) = FILE_NOT_FOUND,
         LibCreatFile(v, n, Attributes)
  PROVE  StoreStep
<1>1. PICK i, h, f, max :
        /\ i = inode[v].NumberOfFiles
        /\ h = [InUse |-> TRUE, Attributes |-> Attributes, FileSize |-> 0, Filename |-> n]
        /\ f = NewDescriptor(v, i, {FWRITE, FCREAT}, 0, max)
        /\ GetFileDescriptor(f)
  BY DEF LibCreatFile
<1>2. CreatView(v, i, h) /\ dir' = dir /\ ~ HasOpenCreat(v) /\ Loaded(v)
  <2>1. Loaded(v)
    BY CreatedSlot DEF StoreInv
  <2> QED BY <1>1, <2>1, CreatesView DEF LibCreatFile
<1>3. /\ f.InUse /\ f.InodeTable = v /\ f.InodeIndex = i /\ f.Mode = {FWRITE, FCREAT}
      /\ f.FileSize = 0 /\ f.ByteOffset = 0
  BY <1>1 DEF NewDescriptor
<1>4. (FREAD \in f.Mode) = FALSE /\ (FWRITE \in f.Mode) = TRUE /\ (FCREAT \in f.Mode) = TRUE
  BY <1>3 DEF FREAD, FWRITE, FCREAT
<1>5. PICK d \in Descriptor :
        /\ ~ Store!IsOpen(d) /\ MappedHandle'[d] # MappedHandle[d]
        /\ MappedHandle' = [MappedHandle EXCEPT ![d] =
             [device |-> v, id |-> i, offset |-> 0, size |-> 0,
              reads |-> FALSE, writes |-> TRUE, creates |-> TRUE]]
  <2>1. PICK d \in Descriptor :
          /\ ~ Store!IsOpen(d) /\ MappedHandle'[d] # MappedHandle[d]
          /\ MappedHandle' = [MappedHandle EXCEPT ![d] =
               [device |-> v, id |-> f.InodeIndex, offset |-> f.ByteOffset, size |-> f.FileSize,
                reads |-> FREAD \in f.Mode, writes |-> FWRITE \in f.Mode,
                creates |-> FCREAT \in f.Mode]]
    BY <1>1, <1>3, HandleOpens
  <2>2. [device |-> v, id |-> f.InodeIndex, offset |-> f.ByteOffset, size |-> f.FileSize,
         reads |-> FREAD \in f.Mode, writes |-> FWRITE \in f.Mode, creates |-> FCREAT \in f.Mode]
        = [device |-> v, id |-> i, offset |-> 0, size |-> 0,
           reads |-> FALSE, writes |-> TRUE, creates |-> TRUE]
    BY <1>3, <1>4
  <2> QED BY <2>1, <2>2
<1>6. MappedFile' = [MappedFile EXCEPT ![v] = Store!Plus(@, i,
        [name |-> n, attributes |-> Attributes, size |-> 0, durable |-> FALSE])]
  BY <1>1, <1>2, CreatShowsFile
<1>7. Store!SameBytes
  BY <1>1, <1>2, <1>3, CreatKeepsBytes
<1>8. MappedListing' = MappedListing
  <2>1. CASE ~ dir.InUse
    BY <1>2, <2>1 DEF MappedListing
  <2>2. CASE dir.InUse
    <3>1. PICK w \in Device, k \in Nat : w = dir.InodeTable /\ k = dir.InodeIndex
                                         /\ k <= inode[w].NumberOfFiles
      BY <2>2 DEF StoreInv, UseInv, DirectoryOnDevice, DirectoryInBounds, TypeOK,
                  DirectoryDescriptor
    <3>2. UsedSlots(w)' = IF w = v THEN UsedSlots(v) \cup {i} ELSE UsedSlots(w)
      BY <1>2 DEF CreatView
    <3>3. w = v => ~ (i < k) /\ i \in FileIndex
      BY <1>1, <1>2, <3>1 DEF CreatView, FileIndex
    <3>4. {j \in UsedSlots(w)' : j < k} = {j \in UsedSlots(w) : j < k}
      BY <3>2, <3>3
    <3> QED BY <1>2, <2>2, <3>1, <3>4 DEF MappedListing
  <2> QED BY <2>1, <2>2
<1>9. v \in MappedMounted /\ MappedMounted' = MappedMounted
      /\ i \in FileIndex \ DOMAIN MappedFile[v]
  BY <1>2 DEF CreatView, MappedFile
<1>10. Store!Named(v, n) = {}
  BY <1>2, NoNameViewed
<1>11. \A g \in Descriptor : MappedHandle[g].device = v => ~ MappedHandle[g].creates
  <2> SUFFICES ASSUME NEW g \in Descriptor, MappedHandle[g].device = v
               PROVE  ~ MappedHandle[g].creates
    OBVIOUS
  <2>1. fdTable[g].InodeTable = v
    BY DEF MappedHandle
  <2>2. fdTable[g].InUse
    BY <2>1, InputsAssumption DEF StoreInv, UnusedIsZero, ZeroDescriptor
  <2>3. FCREAT \notin fdTable[g].Mode
    BY <1>2, <2>1, <2>2 DEF HasOpenCreat, Creators, OpenOn
  <2> QED BY <2>3 DEF MappedHandle
<1>12. Store!CreateFile(v, n, Attributes, d)
  BY <1>5, <1>6, <1>7, <1>8, <1>9, <1>10, <1>11 DEF Store!CreateFile
<1>13. Store!HandleStep(d)
  BY <1>5, <1>12 DEF Store!HandleStep
<1> QED BY <1>13 DEF StoreStep, Store!StoreNext

(***************************************************************************)
(* Every step                                                              *)
(***************************************************************************)
\* A descriptor, or the directory, that a step leaves unused is one it clears or one that
\* was unused before.
LEMMA UnusedStaysZero ==
  ASSUME UnusedIsZero,
         \A d \in Descriptor : \/ fdTable'[d] = fdTable[d] \/ fdTable'[d].InUse
                               \/ fdTable'[d] = ZeroDescriptor,
         dir' = dir \/ dir'.InUse \/ dir' = ZeroDirectory
  PROVE  UnusedIsZero'
BY DEF UnusedIsZero

LEMMA UnusedStep ==
  ASSUME TypeOK, UnusedIsZero, [Next]_vars
  PROVE  UnusedIsZero'
<1>1. CASE Reset \/ \E d \in Descriptor : ResetDuringClose(d)
  BY <1>1, UnusedStaysZero DEF Reset, ResetDuringClose, LibInit
<1>2. ASSUME NEW v \in Device, NEW n \in Filename,
             \/ \E Flags \in CallerFlags : LibOpen(v, n, Flags)
             \/ \E Attributes \in {NONE, READONLY} : LibCreat(v, n, Attributes)
      PROVE  UnusedIsZero'
  <2>1. dir' = dir
    BY <1>2 DEF LibOpen, LibCreat, LibOpenFile, LibCreatFile
  <2>2. PICK i, mode, size, max : GetFileDescriptor(NewDescriptor(v, i, mode, size, max))
    BY <1>2 DEF LibOpen, LibCreat, LibOpenFile, LibCreatFile
  <2>3. PICK f : f = NewDescriptor(v, i, mode, size, max)
    OBVIOUS
  <2>4. PICK d \in FreeDescriptors : fdTable' = [fdTable EXCEPT ![d] = f]
    BY <2>2, <2>3, GetFileDescriptorStep
  <2>5. f.InUse
    BY <2>3 DEF NewDescriptor
  <2> QED BY <2>1, <2>4, <2>5, UnusedStaysZero DEF TypeOK
<1>3. ASSUME NEW d \in Descriptor, LibClose(d)
      PROVE  UnusedIsZero'
  BY <1>3, UnusedStaysZero DEF LibClose, FreeFileDescriptor, TypeOK
<1>4. ASSUME NEW d \in Descriptor,
             \/ \E Length \in Lengths : LibRead(d, Length)
             \/ \E Length \in Lengths, b \in Byte : LibWrite(d, Length, b)
             \/ \E offset \in SeekOffsets, origin \in Origin : LibLSeek(d, offset, origin)
      PROVE  UnusedIsZero'
  <2>1. dir' = dir /\ fdTable[d].InUse /\ \E g : fdTable' = [fdTable EXCEPT ![d] = g]
    BY <1>4 DEF LibRead, LibWrite, LibLSeek, IsValidFileDescriptor
  <2>2. fdTable'[d].InUse
    BY <1>4, <2>1, TransferStep
  <2> QED BY <2>1, <2>2, UnusedStaysZero DEF TypeOK
<1>5. CASE \/ \E v \in Device : (~ Loaded(v) /\ LibInitFS(v)) \/ LibFreeFS(v)
           \/ \E v \in Device, n \in Filename :
                \/ LibRemove(v, n)
                \/ \E new \in Filename : LibRename(v, n, new)
                \/ \E Attributes \in {NONE, READONLY} : LibSetFileAttributes(v, n, Attributes)
           \/ UNCHANGED vars
  <2>1. fdTable' = fdTable /\ dir' = dir
    BY <1>5 DEF LibInitFS, LibFreeFS, LibRemove, LibRename, LibSetFileAttributes, StoreHeader, vars
  <2> QED BY <2>1, UnusedStaysZero
<1>6. CASE (\E v \in Device : LibOpenDir(v)) \/ LibReadDir \/ LibCloseDir
  <2>1. fdTable' = fdTable
    BY <1>6 DEF LibOpenDir, LibReadDir, LibCloseDir
  <2>2. dir'.InUse \/ dir' = ZeroDirectory
    BY <1>6 DEF LibOpenDir, LibReadDir, LibCloseDir, TypeOK, DirectoryDescriptor
  <2> QED BY <2>1, <2>2, UnusedStaysZero
<1> QED BY <1>1, <1>2, <1>3, <1>4, <1>5, <1>6 DEF Next

\* Nothing changes in the store when nothing changes in the library.
LEMMA StutterStores ==
  ASSUME UNCHANGED vars
  PROVE  StoreStep
<1>1. /\ eeprom' = eeprom /\ fat' = fat /\ inode' = inode /\ fdTable' = fdTable /\ dir' = dir
  BY DEF vars
<1>2. \A v : OpenOn(v)' = OpenOn(v) /\ Creators(v)' = Creators(v)
  BY <1>1 DEF OpenOn, Creators
<1>3. \A v, i : /\ SlotEntry(v, i)' = SlotEntry(v, i)
                /\ StoredHeader(v, i)' = StoredHeader(v, i)
                /\ OpenOnSlot(v, i)' = OpenOnSlot(v, i)
  BY <1>1, <1>2 DEF SlotEntry, StoredHeader, OpenOnSlot
<1>4. \A v : UsedSlots(v)' = UsedSlots(v)
  BY <1>1, <1>2, <1>3 DEF UsedSlots, CreatedSlots
<1>5. \A v, i : VisibleSize(v, i)' = VisibleSize(v, i)
  BY <1>1, <1>3 DEF VisibleSize
<1>6. MappedFile' = MappedFile /\ MappedBytes' = MappedBytes
  BY <1>1, <1>3, <1>4, <1>5 DEF MappedFile, MappedBytes
<1>7. MappedMounted' = MappedMounted /\ MappedHandle' = MappedHandle /\ MappedListing' = MappedListing
  BY <1>1, <1>4 DEF MappedMounted, MappedHandle, MappedListing, Loaded
<1> QED BY <1>6, <1>7 DEF StoreStep, Store!storeVars

LEMMA OpenStores ==
  ASSUME FlagsSeparateCreat, FlagsSeparateWriters, FlagsTruncateToWrite,
         StoreInv, StoreInv', NEW v \in Device, NEW n \in Filename,
         \/ \E Flags \in CallerFlags : LibOpen(v, n, Flags)
         \/ \E Attributes \in {NONE, READONLY} : LibCreat(v, n, Attributes)
  PROVE  StoreStep
<1>1. PICK i : i = FindFile(v, n)
  OBVIOUS
<1>2. \/ /\ i # FILE_NOT_FOUND
         /\ \E Flags \in CallerFlags \cup {CreatFlags} : LibOpenFile(v, i, Flags)
      \/ /\ i = FILE_NOT_FOUND
         /\ \E Attributes \in {NONE, READONLY} : LibCreatFile(v, n, Attributes)
  BY <1>1 DEF LibOpen, LibCreat
<1> QED BY <1>1, <1>2, OpenFileStores, CreatFileStores

LEMMA CloseStores ==
  ASSUME StoreInv, StoreInv', NEW d \in Descriptor, LibClose(d)
  PROVE  StoreStep
<1>1. fdTable[d].InUse /\ FreeFileDescriptor(d) /\ dir' = dir
  BY DEF LibClose, IsValidFileDescriptor
<1>2. CloseCreated(d) \/ CloseWritten(d) \/ CloseRead(d)
  BY DEF LibClose
<1> QED BY <1>1, <1>2, CloseCreatedStores, CloseWrittenStores, CloseReadStores

LEMMA NextStores ==
  ASSUME FlagsSeparateCreat, FlagsSeparateWriters, FlagsTruncateToWrite,
         StoreInv, StoreInv', [Next]_vars
  PROVE  StoreStep
<1>1. CASE Reset \/ \E d \in Descriptor : ResetDuringClose(d)
  BY <1>1, ResetStores, ResetDuringCloseStores
<1>2. ASSUME NEW v \in Device, (~ Loaded(v) /\ LibInitFS(v)) \/ LibFreeFS(v)
      PROVE  StoreStep
  BY <1>2, InitFSStores, FreeFSStores
<1>3. ASSUME NEW v \in Device, NEW n \in Filename,
             \/ \E Flags \in CallerFlags : LibOpen(v, n, Flags)
             \/ \E Attributes \in {NONE, READONLY} : LibCreat(v, n, Attributes)
      PROVE  StoreStep
  BY <1>3, OpenStores
<1>4. ASSUME NEW v \in Device, NEW n \in Filename,
             \/ LibRemove(v, n)
             \/ \E new \in Filename : LibRename(v, n, new)
             \/ \E Attributes \in {NONE, READONLY} : LibSetFileAttributes(v, n, Attributes)
      PROVE  StoreStep
  BY <1>4, RemoveStores, RenameStores, SetAttributesStores
<1>5. ASSUME NEW d \in Descriptor, LibClose(d)
      PROVE  StoreStep
  BY <1>5, CloseStores
<1>6. ASSUME NEW d \in Descriptor, NEW Length \in Lengths,
             LibRead(d, Length) \/ \E b \in Byte : LibWrite(d, Length, b)
      PROVE  StoreStep
  BY <1>6, ReadStores, WriteStores
<1>7. ASSUME NEW d \in Descriptor, NEW offset \in SeekOffsets, NEW origin \in Origin,
             LibLSeek(d, offset, origin)
      PROVE  StoreStep
  BY <1>7, SeekStores
<1>8. CASE (\E v \in Device : LibOpenDir(v)) \/ LibReadDir \/ LibCloseDir
  BY <1>8, OpenDirStores, ReadDirStores, CloseDirStores
<1>9. CASE UNCHANGED vars
  BY <1>9, StutterStores
<1> QED BY <1>1, <1>2, <1>3, <1>4, <1>5, <1>6, <1>7, <1>8, <1>9 DEF Next

LEMMA InitStore == Init => StoreInv /\ Store!StoreInit
<1> SUFFICES ASSUME Init PROVE StoreInv /\ Store!StoreInit
  OBVIOUS
<1>1. UnusedIsZero
  BY DEF Init, UnusedIsZero, ZeroDescriptor
<1>2. StoreInv
  BY <1>1, InitType, InitTable, InitFile, InitUse DEF StoreInv
<1>3. \A v \in Device : UsedSlots(v) = {}
  <2> SUFFICES ASSUME NEW v \in Device PROVE UsedSlots(v) = {}
    OBVIOUS
  <2>1. fat[v].NumberOfFiles = 0
    BY DEF Init, EmptyFat, ZeroTable
  <2>2. Slots(fat[v]) = {}
    BY <2>1 DEF Slots
  <2>3. CreatedSlots(v) = {}
    BY DEF Init, CreatedSlots, Creators, OpenOn, ZeroDescriptor
  <2> QED BY <2>2, <2>3 DEF UsedSlots
<1>4. /\ \A v \in Device : /\ MappedFile[v] = [i \in {} |-> 0]
                           /\ MappedBytes[v] = [i \in {} |-> 0]
                           /\ Store!Only([id \in FileIndex |-> 0], {}) = [i \in {} |-> 0]
  BY <1>3 DEF MappedFile, MappedBytes, Store!Only
<1>5. /\ MappedFile = [v \in Device |-> Store!Only([id \in FileIndex |-> 0], {})]
      /\ MappedBytes = MappedFile
  BY <1>4 DEF MappedFile, MappedBytes
<1>6. MappedMounted = {}
  BY DEF Init, MappedMounted, Loaded, ZeroTable
<1>7. MappedHandle = [h \in Descriptor |-> Store!Closed]
  <2>1. \A h \in Descriptor : MappedHandle[h] = Store!Closed
    BY ZeroIsClosed DEF Init, ZeroClosed
  <2> QED BY <2>1 DEF MappedHandle
<1>8. MappedListing = Store!NoListing
  BY DEF Init, MappedListing, ZeroDirectory, Store!NoListing
<1> QED BY <1>2, <1>5, <1>6, <1>7, <1>8 DEF Store!StoreInit

(***************************************************************************)
(* The theorem                                                             *)
(***************************************************************************)
\* The EEFS library implements the store of named files: whatever slots, headers, tables
\* and cached offsets it keeps, and whenever a reset strikes, a caller sees files with
\* names, attributes, sizes and bytes that only his own calls change, and after a reset
\* the files that were closed.
THEOREM LibraryImplementsStore ==
  ASSUME FlagsSeparateCreat, FlagsSeparateWriters, FlagsTruncateToWrite
  PROVE  Spec => ImplementsFileStore
<1>1. StoreInv /\ [Next]_vars => StoreInv'
  BY NextType, NextTable, NextFile, UseStep, UnusedStep DEF StoreInv
<1>2. StoreInv /\ StoreInv' /\ [Next]_vars => [Store!StoreNext]_(Store!storeVars)
  BY NextStores DEF StoreStep
<1> QED BY <1>1, <1>2, InitStore, PTL DEF Spec, ImplementsFileStore, Store!StoreSpec
=============================================================================
