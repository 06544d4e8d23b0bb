------------------------- MODULE EefsFileApiFileProofs -------------------------
(***************************************************************************)
(* The file headers and the open descriptors: every slot has an intact     *)
(* header, names are unique, and a descriptor stays inside its file.       *)
(* These are proofs of the inductive invariant FileInv below.  They hold   *)
(* for open flags that satisfy FlagsSeparateCreat and                      *)
(* FlagsSeparateWriters.                                                   *)
(***************************************************************************)
EXTENDS EefsFileApiProofs

(***************************************************************************)
(* The inductive invariant                                                 *)
(***************************************************************************)
\* The header of slot i of table t, in a device that holds the cells m.
HeaderIn(m, t, i) == HeaderAt(m, SlotStart(t, i))

HeadersFit(m, t) ==
  \A i \in Slots(t) : /\ IntactHeader(m, SlotStart(t, i))
                      /\ HeaderIn(m, t, i).FileSize <= t.File[i].MaxFileSize

NamesDiffer(m, t) ==
  \A i, j \in Slots(t) :
    /\ HeaderIn(m, t, i).InUse /\ HeaderIn(m, t, j).InUse
    /\ HeaderIn(m, t, i).Filename = HeaderIn(m, t, j).Filename
    => i = j

\* The table that has all the slots of a device: one may be in RAM only.
Live(v) == IF Loaded(v) THEN inode[v] ELSE fat[v]

\* Every slot has an intact header, whose file fits and whose name is its own.
FilesIntact ==
  \A v \in Device : HeadersFit(eeprom[v], Live(v)) /\ NamesDiffer(eeprom[v], Live(v))

\* Descriptor f is one of a file in table t of a device that holds the cells m.  Nothing
\* is read from a file while it is created: its header says that it is empty.
DescriptorFits(f, m, t) ==
  LET entry == t.File[f.InodeIndex]
      header == HeaderIn(m, t, f.InodeIndex)
  IN  /\ f.InodeIndex \in Slots(t)
      /\ f.FileHeaderPointer = entry.FileHeaderPointer
      /\ f.FileDataPointer = f.FileHeaderPointer + HeaderSize + f.ByteOffset
      /\ f.ByteOffset <= f.FileSize /\ f.FileSize <= entry.MaxFileSize
      /\ FWRITE \in f.Mode => f.MaxFileSize = entry.MaxFileSize
      /\ f.Mode # {}
      /\ FCREAT \in f.Mode => FWRITE \in f.Mode /\ header.FileSize = 0
      /\ header.InUse

DescriptorsFit ==
  \A d \in Descriptor : fdTable[d].InUse =>
    LET v == fdTable[d].InodeTable
    IN  v \in Device /\ DescriptorFits(fdTable[d], eeprom[v], inode[v])

\* Of two descriptors of one file only one writes, and if one creates the file, the
\* other has seen it empty.
SameFile(f, g) ==
  f.InUse /\ g.InUse /\ f.InodeTable = g.InodeTable /\ f.InodeIndex = g.InodeIndex
Compatible(f, g) ==
  /\ ~ (FWRITE \in f.Mode /\ FWRITE \in g.Mode)
  /\ FCREAT \in f.Mode => g.FileSize = 0

SharingSafe ==
  \A d, e \in Descriptor :
    d # e /\ SameFile(fdTable[d], fdTable[e]) => Compatible(fdTable[d], fdTable[e])

FileInv == FilesIntact /\ DescriptorsFit /\ SharingSafe

(***************************************************************************)
(* EEPROM cells                                                            *)
(***************************************************************************)
\* A file header depends on its own cells only.
LEMMA SameCells ==
  ASSUME NEW m, NEW w, NEW a, \A x \in Address : a <= x /\ x < a + HeaderSize => w[x] = m[x],
         a \in Nat
  PROVE  (IntactHeader(w, a) <=> IntactHeader(m, a)) /\ HeaderAt(w, a) = HeaderAt(m, a)
<1>1. IntactHeader(w, a) <=> IntactHeader(m, a)
  <2>1. CASE ~ (a \in Address /\ a + HeaderSize - 1 \in Address)
    BY <2>1 DEF IntactHeader
  <2>2. CASE a \in Address /\ a + HeaderSize - 1 \in Address
    <3>1. w[a] = m[a] /\ \A x \in a + 1 .. a + HeaderSize - 1 : w[x] = m[x]
      BY <2>2, SizesAssumption DEF Address
    <3> QED BY <3>1 DEF IntactHeader
  <2> QED BY <2>1, <2>2
<1>2. IntactHeader(m, a) => w[a] = m[a]
  BY SizesAssumption DEF IntactHeader, Address
<1> QED BY <1>1, <1>2 DEF HeaderAt

\* What has been written as a header is read as that header.
LEMMA HeaderWritten ==
  ASSUME NEW m, NEW a, NEW h \in FileHeader, a \in Nat, FatSize <= a, a + HeaderSize <= DeviceSize
  PROVE  IntactHeader(WriteHeader(m, a, h), a) /\ HeaderAt(WriteHeader(m, a, h), a) = h
<1>1. a \in Address /\ a + HeaderSize - 1 \in Address
  BY SizesAssumption DEF Address
<1>2. WriteHeader(m, a, h)[a] = h
  BY <1>1 DEF WriteHeader
<1>3. \A x \in a + 1 .. a + HeaderSize - 1 : WriteHeader(m, a, h)[x] = Pad
  BY <1>1, SizesAssumption DEF WriteHeader, Address
<1> QED BY <1>1, <1>2, <1>3 DEF IntactHeader, HeaderAt

\* Writing a header changes no cell outside its place.
LEMMA HeaderWriteKeeps ==
  ASSUME NEW m \in [Address -> Cell], NEW a \in Nat, NEW h, NEW x \in Address,
         x < a \/ a + HeaderSize <= x
  PROVE  WriteHeader(m, a, h)[x] = m[x]
BY SizesAssumption DEF WriteHeader, Address

\* Writing data changes no cell outside its range.
LEMMA DataWriteKeeps ==
  ASSUME NEW m \in [Address -> Cell], NEW a \in Int, NEW n \in Nat, NEW b, NEW x \in Address,
         x < a \/ a + n <= x
  PROVE  WriteData(m, a, n, b)[x] = m[x]
BY DEF WriteData, Address

(***************************************************************************)
(* Tables whose slots are tiled                                            *)
(***************************************************************************)
IsTiled(t) == t \in Table /\ Tiled(t, t.NumberOfFiles, DeviceSize)

\* The slots of such a table have their header and their data inside the device, and
\* two of them share no cell.
LEMMA TiledSlots ==
  ASSUME NEW t, IsTiled(t), NEW i \in Slots(t)
  PROVE  /\ i \in FileIndex
         /\ SlotStart(t, i) \in Nat /\ t.File[i].MaxFileSize \in Nat
         /\ SlotEnd(t, i) = SlotStart(t, i) + HeaderSize + t.File[i].MaxFileSize
         /\ FatSize <= SlotStart(t, i) /\ SlotEnd(t, i) <= DeviceSize
         /\ \A j \in Slots(t) \ {i} :
              SlotEnd(t, i) <= SlotStart(t, j) \/ SlotEnd(t, j) <= SlotStart(t, i)
<1>1. i \in FileIndex /\ t.File[i] \in Entry
  BY SizesAssumption DEF IsTiled, Table, Slots, FileIndex
<1>2. \A j \in Slots(t) : j # i => i < j \/ j < i
  BY DEF IsTiled, Table, Slots
<1> QED BY <1>1, <1>2 DEF IsTiled, Tiled, Slots, SlotStart, SlotEnd, Entry

\* Cells that lie in no header of a tiled table can change without a header changing.
LEMMA HeadersKept ==
  ASSUME NEW t, IsTiled(t), NEW m, NEW w, NEW S \in SUBSET Slots(t),
         \A j \in S : \A x \in Address :
           SlotStart(t, j) <= x /\ x < SlotStart(t, j) + HeaderSize => w[x] = m[x]
  PROVE  \A j \in S : /\ HeaderIn(w, t, j) = HeaderIn(m, t, j)
                      /\ IntactHeader(w, SlotStart(t, j)) <=> IntactHeader(m, SlotStart(t, j))
BY TiledSlots, SameCells DEF HeaderIn

\* The table with all the slots of a device is tiled, before a step and after it.
LiveIsTiled == \A v \in Device : IsTiled(Live(v))

LEMMA LiveTiled == TypeOK /\ TableInv => LiveIsTiled
<1> SUFFICES ASSUME TypeOK, TableInv, NEW v \in Device PROVE IsTiled(Live(v))
  BY DEF LiveIsTiled
<1>1. CASE Loaded(v)
  BY <1>1, LoadedTablesTiled DEF SlotsDisjoint, IsTiled, Live, TypeOK
<1>2. CASE ~ Loaded(v)
  <2>1. fat[v] \in Table /\ FatTiled(v)
    BY DEF TypeOK, TableInv, DeviceInv
  <2>2. fat[v].FreeMemoryPointer <= DeviceSize
    BY <2>1, SizesAssumption DEF FatTiled, Table
  <2>3. \A i \in 0 .. fat[v].NumberOfFiles - 1 : SlotEnd(fat[v], i) \in Nat
    <3>1. \A i \in 0 .. fat[v].NumberOfFiles - 1 : i \in FileIndex
      BY <2>1, SizesAssumption DEF Table, FileIndex
    <3>2. \A i \in 0 .. fat[v].NumberOfFiles - 1 : fat[v].File[i] \in Entry
      BY <2>1, <3>1 DEF Table
    <3> QED BY <3>2, SizesAssumption DEF SlotEnd, SlotStart, Entry
  <2>4. Tiled(fat[v], fat[v].NumberOfFiles, DeviceSize)
    BY <2>1, <2>2, <2>3, SizesAssumption DEF FatTiled, Tiled, Table
  <2> QED BY <1>2, <2>1, <2>4 DEF IsTiled, Live
<1> QED BY <1>1, <1>2

LEMMA LiveTiledNext == TypeOK' /\ TableInv' => LiveIsTiled'
BY LiveTiled, PTL

\* The allocation table's slots are slots of that table, with the same entries.
LEMMA FatIsPartOfLive ==
  ASSUME TypeOK, TableInv, NEW v \in Device
  PROVE  /\ fat[v] \in Table
         /\ fat[v].NumberOfFiles <= Live(v).NumberOfFiles
         /\ \A i \in Slots(fat[v]) : i \in Slots(Live(v)) /\ Live(v).File[i] = fat[v].File[i]
<1>1. fat[v] \in Table /\ inode[v] \in Table /\ DeviceInv(v)
  BY DEF TypeOK, TableInv
<1>2. CASE ~ Loaded(v)
  BY <1>1, <1>2, SizesAssumption DEF Live, Table
<1>3. CASE Loaded(v)
  <2>1. inode[v].NumberOfFiles = fat[v].NumberOfFiles
        \/ inode[v].NumberOfFiles = fat[v].NumberOfFiles + 1
    BY <1>1, <1>3 DEF DeviceInv, InodeFollowsFat, CreatorOwnsFreeMemory
  <2> QED BY <1>1, <1>3, <2>1, SizesAssumption DEF Live, Table, Slots, DeviceInv, InodeFollowsFat
<1> QED BY <1>2, <1>3

(***************************************************************************)
(* Headers in a table                                                      *)
(***************************************************************************)
\* A table with fewer of the same slots is as good.
LEMMA FewerSlots ==
  ASSUME NEW m, NEW t, NEW s, HeadersFit(m, t), NamesDiffer(m, t),
         \A i \in Slots(s) : i \in Slots(t) /\ s.File[i] = t.File[i]
  PROVE  HeadersFit(m, s) /\ NamesDiffer(m, s)
<1>1. \A i \in Slots(s) : SlotStart(s, i) = SlotStart(t, i) /\ HeaderIn(m, s, i) = HeaderIn(m, t, i)
  BY DEF SlotStart, HeaderIn
<1> QED BY <1>1 DEF HeadersFit, NamesDiffer

\* A device whose header cells do not change keeps its headers.
LEMMA SameHeaders ==
  ASSUME NEW m, NEW w, NEW t, HeadersFit(m, t), NamesDiffer(m, t),
         \A i \in Slots(t) :
           /\ HeaderIn(w, t, i) = HeaderIn(m, t, i)
           /\ IntactHeader(w, SlotStart(t, i)) <=> IntactHeader(m, SlotStart(t, i))
  PROVE  HeadersFit(w, t) /\ NamesDiffer(w, t)
BY DEF HeadersFit, NamesDiffer

\* Writing the header of one slot of a tiled table keeps those of the others.
LEMMA OtherHeadersKept ==
  ASSUME NEW t, IsTiled(t), NEW m \in [Address -> Cell], NEW i \in Slots(t),
         NEW h \in FileHeader
  PROVE  LET w == WriteHeader(m, SlotStart(t, i), h)
         IN  /\ IntactHeader(w, SlotStart(t, i)) /\ HeaderIn(w, t, i) = h
             /\ \A j \in Slots(t) \ {i} :
                  /\ HeaderIn(w, t, j) = HeaderIn(m, t, j)
                  /\ IntactHeader(w, SlotStart(t, j)) <=> IntactHeader(m, SlotStart(t, j))
<1> DEFINE w == WriteHeader(m, SlotStart(t, i), h)
<1>1. /\ SlotStart(t, i) \in Nat /\ FatSize <= SlotStart(t, i)
      /\ SlotStart(t, i) + HeaderSize <= DeviceSize
  BY TiledSlots, SizesAssumption
<1>2. IntactHeader(w, SlotStart(t, i)) /\ HeaderIn(w, t, i) = h
  BY <1>1, HeaderWritten DEF HeaderIn
<1>3. ASSUME NEW j \in Slots(t) \ {i}, NEW x \in Address,
             SlotStart(t, j) <= x, x < SlotStart(t, j) + HeaderSize
      PROVE  w[x] = m[x]
  <2>1. /\ SlotStart(t, j) \in Nat
        /\ SlotEnd(t, i) = SlotStart(t, i) + HeaderSize + t.File[i].MaxFileSize
        /\ SlotEnd(t, j) = SlotStart(t, j) + HeaderSize + t.File[j].MaxFileSize
        /\ t.File[i].MaxFileSize \in Nat /\ t.File[j].MaxFileSize \in Nat
        /\ SlotEnd(t, i) <= SlotStart(t, j) \/ SlotEnd(t, j) <= SlotStart(t, i)
    BY TiledSlots
  <2>2. x < SlotStart(t, i) \/ SlotStart(t, i) + HeaderSize <= x
    BY <1>1, <1>3, <2>1, SizesAssumption DEF Address
  <2> QED BY <1>1, <2>2, HeaderWriteKeeps
<1> HIDE DEF w
<1>4. \A j \in Slots(t) \ {i} :
        /\ HeaderIn(w, t, j) = HeaderIn(m, t, j)
        /\ IntactHeader(w, SlotStart(t, j)) <=> IntactHeader(m, SlotStart(t, j))
  BY <1>3, HeadersKept
<1> QED BY <1>2, <1>4 DEF w

\* A table whose other slots were good before is good after a header is written that fits
\* its slot and whose name no other slot has.
LEMMA HeaderFitsIn ==
  ASSUME NEW t, IsTiled(t), NEW m \in [Address -> Cell], NEW i \in Slots(t),
         NEW h \in FileHeader, h.FileSize <= t.File[i].MaxFileSize,
         NEW s, HeadersFit(m, s), NamesDiffer(m, s),
         \A j \in Slots(t) \ {i} : j \in Slots(s) /\ t.File[j] = s.File[j],
         \A j \in Slots(t) \ {i} :
           ~ (h.InUse /\ HeaderIn(m, t, j).InUse /\ HeaderIn(m, t, j).Filename = h.Filename)
  PROVE  LET w == WriteHeader(m, SlotStart(t, i), h)
         IN  HeadersFit(w, t) /\ NamesDiffer(w, t)
<1> DEFINE w == WriteHeader(m, SlotStart(t, i), h)
<1>1. /\ IntactHeader(w, SlotStart(t, i)) /\ HeaderIn(w, t, i) = h
      /\ \A j \in Slots(t) \ {i} :
           /\ HeaderIn(w, t, j) = HeaderIn(m, t, j)
           /\ IntactHeader(w, SlotStart(t, j)) <=> IntactHeader(m, SlotStart(t, j))
  BY OtherHeadersKept
<1> HIDE DEF w
<1>2. \A j \in Slots(t) \ {i} : /\ SlotStart(t, j) = SlotStart(s, j)
                                /\ HeaderIn(m, t, j) = HeaderIn(m, s, j)
  BY DEF SlotStart, HeaderIn
<1>3. HeadersFit(w, t)
  BY <1>1, <1>2 DEF HeadersFit
<1>4. NamesDiffer(w, t)
  BY <1>1, <1>2 DEF NamesDiffer
<1> QED BY <1>3, <1>4 DEF w

(***************************************************************************)
(* Descriptors that a step leaves alone, or frees                          *)
(***************************************************************************)
FreedOrKept == \A d \in Descriptor : ~ fdTable'[d].InUse \/ fdTable'[d] = fdTable[d]

\* A slot with an open descriptor is one of a loaded table.
LEMMA OpenSlotIsLive ==
  ASSUME TypeOK, TableInv, DescriptorsFit, NEW d \in Descriptor, fdTable[d].InUse
  PROVE  LET v == fdTable[d].InodeTable
         IN  /\ v \in Device /\ Loaded(v) /\ Live(v) = inode[v]
             /\ fdTable[d].InodeIndex \in Slots(inode[v])
<1> DEFINE v == fdTable[d].InodeTable
<1>1. v \in Device /\ fdTable[d].InodeIndex \in Slots(inode[v])
  BY DEF DescriptorsFit, DescriptorFits
<1>2. Loaded(v)
  BY <1>1 DEF TableInv, DeviceInv, UnloadedIsZero, ZeroTable, Slots
<1> QED BY <1>1, <1>2 DEF Live

LEMMA SlotIsLive ==
  ASSUME TypeOK, TableInv, NEW v \in Device, NEW i \in Slots(inode[v])
  PROVE  Loaded(v) /\ Live(v) = inode[v]
BY DEF TableInv, DeviceInv, UnloadedIsZero, ZeroTable, Slots, Live

\* Closing a file makes no sharing unsafe.
LEMMA SharingKept ==
  ASSUME SharingSafe, FreedOrKept
  PROVE  SharingSafe'
BY DEF SharingSafe, FreedOrKept, SameFile, Compatible

\* A descriptor that stays open fits when its slot stays and the header is still in use,
\* and still empty if the descriptor is creating the file.
SlotKept(d) ==
  LET v == fdTable[d].InodeTable
      i == fdTable[d].InodeIndex
      header == HeaderIn(eeprom'[v], inode'[v], i)
  IN  /\ i \in Slots(inode'[v]) /\ inode'[v].File[i] = inode[v].File[i]
      /\ header.InUse
      /\ FCREAT \in fdTable[d].Mode => header.FileSize = 0

LEMMA DescriptorsKept ==
  ASSUME DescriptorsFit, FreedOrKept,
         \A d \in Descriptor : fdTable'[d].InUse => SlotKept(d)
  PROVE  DescriptorsFit'
<1> SUFFICES ASSUME NEW d \in Descriptor, fdTable'[d].InUse
             PROVE  LET v == fdTable'[d].InodeTable
                    IN  v \in Device /\ DescriptorFits(fdTable'[d], eeprom'[v], inode'[v])
  BY DEF DescriptorsFit
<1>1. fdTable'[d] = fdTable[d]
  BY DEF FreedOrKept
<1> QED BY <1>1 DEF DescriptorsFit, DescriptorFits, SlotKept

\* A step that changes no table and no header, and opens nothing, preserves FileInv.
LEMMA NothingStored ==
  ASSUME FileInv, eeprom' = eeprom, fat' = fat, inode' = inode, FreedOrKept
  PROVE  FileInv'
<1>1. FilesIntact'
  BY DEF FileInv, FilesIntact, Live, Loaded
<1>2. DescriptorsFit'
  <2>1. \A d \in Descriptor : fdTable'[d].InUse => fdTable'[d] = fdTable[d]
    BY DEF FreedOrKept
  <2> QED BY <2>1 DEF FileInv, DescriptorsFit
<1> QED BY <1>1, <1>2, SharingKept DEF FileInv

\* A step that writes the header of one slot and no table.
WritesHeader(v, i, h) ==
  /\ eeprom' = [eeprom EXCEPT ![v] = WriteHeader(@, SlotStart(inode[v], i), h)]
  /\ fat' = fat /\ inode' = inode

\* A step that writes the header of one slot, and opens nothing, preserves FileInv when the
\* header fits and whoever has the file open still finds it.
LEMMA HeaderStep ==
  ASSUME TypeOK, TableInv, FileInv, FreedOrKept,
         NEW v \in Device, NEW i \in Slots(inode[v]), NEW h \in FileHeader,
         WritesHeader(v, i, h),
         h.FileSize <= inode[v].File[i].MaxFileSize,
         \A j \in Slots(inode[v]) \ {i} :
           ~ (h.InUse /\ Header(v, j).InUse /\ Header(v, j).Filename = h.Filename),
         \A d \in Descriptor :
           fdTable'[d].InUse /\ fdTable[d].InodeTable = v /\ fdTable[d].InodeIndex = i
           => h.InUse /\ (FCREAT \in fdTable[d].Mode => h.FileSize = 0)
  PROVE  FileInv'
<1> DEFINE t == inode[v]
           w == WriteHeader(eeprom[v], SlotStart(t, i), h)
<1>1. Live(v) = t /\ IsTiled(t)
  BY SlotIsLive, LiveTiled DEF LiveIsTiled
<1>2. /\ eeprom[v] \in [Address -> Cell] /\ eeprom'[v] = w
      /\ \A u \in Device \ {v} : eeprom'[u] = eeprom[u]
      /\ fat' = fat /\ inode' = inode
  BY DEF TypeOK, WritesHeader
<1>3. HeadersFit(eeprom[v], t) /\ NamesDiffer(eeprom[v], t)
  BY <1>1 DEF FileInv, FilesIntact
<1>4. \A j \in Slots(t) : Header(v, j) = HeaderIn(eeprom[v], t, j)
  BY DEF Header, HeaderIn, SlotStart
<1> HIDE DEF t, w
<1>5. i \in Slots(t)
  BY DEF t
<1>6. HeadersFit(w, t) /\ NamesDiffer(w, t)
  <2>1. h.FileSize <= t.File[i].MaxFileSize
    BY DEF t
  <2>2. \A j \in Slots(t) \ {i} :
          ~ (h.InUse /\ HeaderIn(eeprom[v], t, j).InUse
             /\ HeaderIn(eeprom[v], t, j).Filename = h.Filename)
    BY <1>4 DEF t
  <2> QED BY <1>1, <1>2, <1>3, <1>5, <2>1, <2>2, HeaderFitsIn DEF w
<1>7. HeaderIn(w, t, i) = h
      /\ \A j \in Slots(t) \ {i} : HeaderIn(w, t, j) = HeaderIn(eeprom[v], t, j)
  BY <1>1, <1>2, <1>5, OtherHeadersKept DEF w
<1>8. FilesIntact'
  <2>1. \A u \in Device : Live(u)' = Live(u)
    BY <1>2 DEF Live, Loaded
  <2> QED BY <1>1, <1>2, <1>6, <2>1 DEF FileInv, FilesIntact
<1>9. DescriptorsFit'
  <2> SUFFICES ASSUME NEW d \in Descriptor, fdTable'[d].InUse
               PROVE  SlotKept(d)
    BY DescriptorsKept DEF FileInv
  <2> DEFINE u == fdTable[d].InodeTable
             j == fdTable[d].InodeIndex
  <2>1. fdTable[d].InUse
    BY DEF FreedOrKept
  <2>2. u \in Device /\ DescriptorFits(fdTable[d], eeprom[u], inode[u])
    BY <2>1 DEF FileInv, DescriptorsFit
  <2>3. /\ j \in Slots(inode[u]) /\ HeaderIn(eeprom[u], inode[u], j).InUse
        /\ FCREAT \in fdTable[d].Mode => HeaderIn(eeprom[u], inode[u], j).FileSize = 0
    BY <2>2 DEF DescriptorFits
  <2>4. CASE u = v /\ j = i
    BY <1>2, <1>7, <2>3, <2>4 DEF t, SlotKept
  <2>5. CASE u = v /\ j # i
    BY <1>2, <1>7, <2>3, <2>5 DEF t, SlotKept
  <2>6. CASE u # v
    BY <1>2, <2>2, <2>3, <2>6 DEF SlotKept
  <2> QED BY <2>4, <2>5, <2>6
<1> QED BY <1>8, <1>9, SharingKept DEF FileInv

(***************************************************************************)
(* Calls that write one header: remove, rename, attributes, close          *)
(***************************************************************************)
\* What FileInv says of one slot of a loaded table.
LEMMA SlotHeader ==
  ASSUME TypeOK, TableInv, FileInv, NEW v \in Device, NEW i \in Slots(inode[v])
  PROVE  /\ Header(v, i) = HeaderIn(eeprom[v], inode[v], i)
         /\ Header(v, i) \in FileHeader
         /\ IntactHeader(eeprom[v], SlotStart(inode[v], i))
         /\ Header(v, i).FileSize <= inode[v].File[i].MaxFileSize
         /\ \A j \in Slots(inode[v]) :
              /\ Header(v, i).InUse /\ Header(v, j).InUse
              /\ Header(v, i).Filename = Header(v, j).Filename
              => i = j
         /\ \A d \in Descriptor :
              fdTable[d].InUse /\ fdTable[d].InodeTable = v /\ fdTable[d].InodeIndex = i =>
                /\ DescriptorFits(fdTable[d], eeprom[v], inode[v])
                /\ Header(v, i).InUse /\ fdTable[d].Mode # {}
                /\ FCREAT \in fdTable[d].Mode =>
                     FWRITE \in fdTable[d].Mode /\ Header(v, i).FileSize = 0
<1>1. \A j \in Slots(inode[v]) : Header(v, j) = HeaderIn(eeprom[v], inode[v], j)
  BY DEF Header, HeaderIn, SlotStart
<1>2. HeadersFit(eeprom[v], inode[v]) /\ NamesDiffer(eeprom[v], inode[v])
  BY SlotIsLive DEF FileInv, FilesIntact
<1>3. Header(v, i) \in FileHeader
  BY HeaderAtType DEF Header
<1>4. /\ IntactHeader(eeprom[v], SlotStart(inode[v], i))
      /\ Header(v, i).FileSize <= inode[v].File[i].MaxFileSize
  BY <1>1, <1>2 DEF HeadersFit
<1>5. \A j \in Slots(inode[v]) :
        /\ Header(v, i).InUse /\ Header(v, j).InUse
        /\ Header(v, i).Filename = Header(v, j).Filename
        => i = j
  BY <1>1, <1>2 DEF NamesDiffer
<1>6. ASSUME NEW d \in Descriptor, fdTable[d].InUse, fdTable[d].InodeTable = v,
             fdTable[d].InodeIndex = i
      PROVE  DescriptorFits(fdTable[d], eeprom[v], inode[v])
  BY <1>6 DEF FileInv, DescriptorsFit
<1> QED BY <1>1, <1>3, <1>4, <1>5, <1>6 DEF DescriptorFits

\* EEFS_LibRemove clears the header of a file that is not open.
LEMMA RemoveStep ==
  ASSUME TypeOK, TableInv, FileInv, NEW v \in Device, NEW n \in Filename, LibRemove(v, n)
  PROVE  FileInv'
<1> DEFINE i == FindFile(v, n)
<1>1. i \in Slots(inode[v])
  BY FindFileResult DEF LibRemove
<1>2. inode[v].File[i].MaxFileSize \in Nat
  BY <1>1, SlotIsLive, LiveTiled, TiledSlots DEF LiveIsTiled
<1>3. ~ ZeroHeader.InUse /\ ZeroHeader.FileSize = 0 /\ ZeroHeader \in FileHeader
  BY ZeroTypes DEF ZeroHeader
<1>4. \A d \in Descriptor :
        ~ (fdTable[d].InUse /\ fdTable[d].InodeTable = v /\ fdTable[d].InodeIndex = i)
  <2>1. Fmode(v, i) = {}
    BY DEF LibRemove
  <2> QED BY <1>1, <2>1, SlotHeader DEF Fmode, OpenOn
<1>5. StoreHeader(v, i, ZeroHeader)
  BY DEF LibRemove
<1> HIDE DEF i
<1>6. WritesHeader(v, i, ZeroHeader) /\ FreedOrKept
  BY <1>5 DEF StoreHeader, SlotStart, FreedOrKept, WritesHeader
<1>7. \A d \in Descriptor :
        ~ (fdTable'[d].InUse /\ fdTable[d].InodeTable = v /\ fdTable[d].InodeIndex = i)
  BY <1>4, <1>6 DEF FreedOrKept
<1>8. ZeroHeader.FileSize <= inode[v].File[i].MaxFileSize
  BY <1>2, <1>3
<1> QED BY <1>1, <1>3, <1>6, <1>7, <1>8, HeaderStep

\* A header that says what it said, but for a new name or other attributes, preserves
\* FileInv if no other file has the name.
LEMMA HeaderEdited ==
  ASSUME TypeOK, TableInv, FileInv, NEW v \in Device, NEW i \in Slots(inode[v]),
         NEW h \in FileHeader, StoreHeader(v, i, h), Header(v, i).InUse,
         h.InUse, h.FileSize = Header(v, i).FileSize,
         \A j \in Slots(inode[v]) \ {i} : ~ (Header(v, j).InUse /\ Header(v, j).Filename = h.Filename)
  PROVE  FileInv'
<1>1. WritesHeader(v, i, h) /\ fdTable' = fdTable /\ FreedOrKept
  BY DEF StoreHeader, SlotStart, FreedOrKept, WritesHeader
<1>2. h.FileSize <= inode[v].File[i].MaxFileSize
  BY SlotHeader
<1>3. \A d \in Descriptor :
        fdTable'[d].InUse /\ fdTable[d].InodeTable = v /\ fdTable[d].InodeIndex = i
        => h.InUse /\ (FCREAT \in fdTable[d].Mode => h.FileSize = 0)
  BY <1>1, SlotHeader
<1> QED BY <1>1, <1>2, <1>3, HeaderStep

\* EEFS_LibRename gives a file a name that no file has.
LEMMA RenameStep ==
  ASSUME TypeOK, TableInv, FileInv, NEW v \in Device, NEW old \in Filename,
         NEW new \in Filename, LibRename(v, old, new)
  PROVE  FileInv'
<1> DEFINE i == FindFile(v, old)
           h == [Header(v, i) EXCEPT !.Filename = new]
<1>1. i \in Slots(inode[v]) /\ Header(v, i).InUse
  BY FindFileResult DEF LibRename
<1>2. \A j \in Slots(inode[v]) : ~ (Header(v, j).InUse /\ Header(v, j).Filename = new)
  <2>1. FindFile(v, new) = FILE_NOT_FOUND
    BY DEF LibRename
  <2> QED BY <2>1, FindFileResult, SlotsAreIndices
<1>3. StoreHeader(v, i, h)
  BY DEF LibRename
<1> HIDE DEF i
<1>4. Header(v, i) \in FileHeader
  BY <1>1, SlotHeader
<1>5. /\ h \in FileHeader /\ h.InUse /\ h.Filename = new
      /\ h.FileSize = Header(v, i).FileSize
  BY <1>1, <1>4 DEF FileHeader
<1> HIDE DEF h
<1> QED BY <1>1, <1>2, <1>3, <1>5, HeaderEdited

\* EEFS_LibSetFileAttributes keeps the name of the file.
LEMMA SetAttributesStep ==
  ASSUME TypeOK, TableInv, FileInv, NEW v \in Device, NEW n \in Filename,
         NEW Attributes \in {NONE, READONLY}, LibSetFileAttributes(v, n, Attributes)
  PROVE  FileInv'
<1> DEFINE i == FindFile(v, n)
           h == [Header(v, i) EXCEPT !.Attributes = Attributes]
<1>1. i \in Slots(inode[v]) /\ Header(v, i).InUse
  BY FindFileResult DEF LibSetFileAttributes
<1>2. StoreHeader(v, i, h)
  BY DEF LibSetFileAttributes
<1> HIDE DEF i
<1>3. Header(v, i) \in FileHeader
  BY <1>1, SlotHeader
<1>4. /\ h \in FileHeader /\ h.InUse /\ h.Filename = Header(v, i).Filename
      /\ h.FileSize = Header(v, i).FileSize
  BY <1>1, <1>3 DEF FileHeader
<1> HIDE DEF h
<1>5. \A j \in Slots(inode[v]) \ {i} : ~ (Header(v, j).InUse /\ Header(v, j).Filename = h.Filename)
  BY <1>1, <1>4, SlotHeader
<1> QED BY <1>1, <1>2, <1>4, <1>5, HeaderEdited

LEMMA ClosedIsFreed ==
  ASSUME TypeOK, NEW d \in Descriptor, FreeFileDescriptor(d)
  PROVE  FreedOrKept /\ ~ fdTable'[d].InUse
BY DEF TypeOK, FreeFileDescriptor, ZeroDescriptor, FreedOrKept

\* EEFS_LibClose of a file that was written or created writes its header with the size
\* that the descriptor has reached.
LEMMA StoredSize ==
  ASSUME TypeOK, TableInv, FileInv, NEW d \in Descriptor, fdTable[d].InUse
  PROVE  LET v == fdTable[d].InodeTable
             i == fdTable[d].InodeIndex
             h == [Header(v, i) EXCEPT !.FileSize = fdTable[d].FileSize]
         IN  /\ v \in Device /\ i \in Slots(inode[v])
             /\ StoreFileSize(eeprom[v], d) = WriteHeader(eeprom[v], SlotStart(inode[v], i), h)
             /\ h \in FileHeader /\ h.InUse
             /\ h.Filename = Header(v, i).Filename /\ h.FileSize = fdTable[d].FileSize
             /\ fdTable[d].FileSize <= inode[v].File[i].MaxFileSize
             /\ \A j \in Slots(inode[v]) \ {i} :
                  ~ (Header(v, j).InUse /\ Header(v, j).Filename = h.Filename)
<1> DEFINE v == fdTable[d].InodeTable
           i == fdTable[d].InodeIndex
           h == [Header(v, i) EXCEPT !.FileSize = fdTable[d].FileSize]
<1>1. v \in Device /\ i \in Slots(inode[v]) /\ DescriptorFits(fdTable[d], eeprom[v], inode[v])
  BY DEF FileInv, DescriptorsFit, DescriptorFits
<1>2. /\ Header(v, i) \in FileHeader /\ Header(v, i).InUse
      /\ Header(v, i) = HeaderAt(eeprom[v], SlotStart(inode[v], i))
  BY <1>1, SlotHeader DEF HeaderIn
<1>3. /\ fdTable[d].FileHeaderPointer = SlotStart(inode[v], i)
      /\ fdTable[d].FileSize <= inode[v].File[i].MaxFileSize
      /\ fdTable[d].FileSize \in Nat
  BY <1>1 DEF DescriptorFits, SlotStart, TypeOK, FileDescriptor
<1>4. StoreFileSize(eeprom[v], d) = WriteHeader(eeprom[v], SlotStart(inode[v], i), h)
  BY <1>2, <1>3 DEF StoreFileSize
<1>5. /\ h \in FileHeader /\ h.InUse /\ h.Filename = Header(v, i).Filename
      /\ h.FileSize = fdTable[d].FileSize
  BY <1>2, <1>3 DEF FileHeader
<1> HIDE DEF v, i, h
<1>6. \A j \in Slots(inode[v]) \ {i} : ~ (Header(v, j).InUse /\ Header(v, j).Filename = h.Filename)
  BY <1>1, <1>2, <1>5, SlotHeader
<1> QED BY <1>1, <1>3, <1>4, <1>5, <1>6 DEF v, i, h

\* EEFS_LibClose of a written file stores the size the descriptor has reached; nobody
\* else writes or creates the file.
LEMMA CloseWrittenStep ==
  ASSUME TypeOK, TableInv, FileInv, NEW d \in Descriptor, fdTable[d].InUse,
         CloseWritten(d), FreeFileDescriptor(d)
  PROVE  FileInv'
<1> DEFINE v == fdTable[d].InodeTable
           i == fdTable[d].InodeIndex
           h == [Header(v, i) EXCEPT !.FileSize = fdTable[d].FileSize]
<1>1. /\ v \in Device /\ i \in Slots(inode[v]) /\ h \in FileHeader /\ h.InUse
      /\ h.FileSize <= inode[v].File[i].MaxFileSize
      /\ \A j \in Slots(inode[v]) \ {i} :
           ~ (Header(v, j).InUse /\ Header(v, j).Filename = h.Filename)
      /\ StoreFileSize(eeprom[v], d) = WriteHeader(eeprom[v], SlotStart(inode[v], i), h)
  BY StoredSize
<1>2. WritesHeader(v, i, h) /\ FWRITE \in fdTable[d].Mode
  BY <1>1 DEF CloseWritten, WritesHeader
<1>3. \A e \in Descriptor :
        fdTable'[e].InUse /\ fdTable[e].InodeTable = v /\ fdTable[e].InodeIndex = i
        => FCREAT \notin fdTable[e].Mode
  <2> SUFFICES ASSUME NEW e \in Descriptor, fdTable'[e].InUse, fdTable[e].InodeTable = v,
                      fdTable[e].InodeIndex = i, FCREAT \in fdTable[e].Mode
               PROVE  FALSE
    OBVIOUS
  <2>1. e # d /\ fdTable[e].InUse
    BY ClosedIsFreed DEF FreedOrKept
  <2>2. ~ (FWRITE \in fdTable[e].Mode /\ FWRITE \in fdTable[d].Mode)
    BY <2>1 DEF FileInv, SharingSafe, SameFile, Compatible
  <2> QED BY <1>1, <1>2, <2>1, <2>2, SlotHeader
<1> HIDE DEF v, i, h
<1> QED BY <1>1, <1>2, <1>3, ClosedIsFreed, HeaderStep

(***************************************************************************)
(* Opening and creating files                                              *)
(***************************************************************************)
\* A call that takes one descriptor preserves the other descriptors' part of FileInv, if
\* the new one fits its file and goes with those that have the file open already.
LEMMA DescriptorTaken ==
  ASSUME TypeOK, DescriptorsFit, SharingSafe, NEW d \in FreeDescriptors, NEW g,
         fdTable' = [fdTable EXCEPT ![d] = g], g.InodeTable \in Device,
         DescriptorFits(g, eeprom'[g.InodeTable], inode'[g.InodeTable]),
         \A e \in Descriptor : fdTable[e].InUse => SlotKept(e),
         \A e \in Descriptor : SameFile(fdTable[e], g) =>
           Compatible(fdTable[e], g) /\ Compatible(g, fdTable[e])
  PROVE  DescriptorsFit' /\ SharingSafe'
<1>1. /\ d \in Descriptor /\ fdTable'[d] = g
      /\ \A e \in Descriptor \ {d} : fdTable'[e] = fdTable[e]
  BY DEF FreeDescriptors, TypeOK
<1>2. DescriptorsFit'
  <2> SUFFICES ASSUME NEW e \in Descriptor, fdTable'[e].InUse
               PROVE  LET v == fdTable'[e].InodeTable
                      IN  v \in Device /\ DescriptorFits(fdTable'[e], eeprom'[v], inode'[v])
    BY DEF DescriptorsFit
  <2>1. CASE e = d
    BY <1>1, <2>1
  <2>2. CASE e # d
    BY <1>1, <2>2 DEF DescriptorsFit, DescriptorFits, SlotKept
  <2> QED BY <2>1, <2>2
<1>3. \A f : SameFile(g, f) => SameFile(f, g)
  BY DEF SameFile
<1>4. SharingSafe'
  <2> SUFFICES ASSUME NEW e \in Descriptor, NEW f \in Descriptor, e # f,
                      SameFile(fdTable'[e], fdTable'[f])
               PROVE  Compatible(fdTable'[e], fdTable'[f])
    BY DEF SharingSafe
  <2>1. CASE e = d
    BY <1>1, <1>3, <2>1
  <2>2. CASE f = d
    BY <1>1, <2>2
  <2>3. CASE e # d /\ f # d
    BY <1>1, <2>3 DEF SharingSafe
  <2> QED BY <2>1, <2>2, <2>3
<1> QED BY <1>2, <1>4

\* What EEFS_LibOpenFile has made sure of when it opens a file.
LEMMA OpenFileChecked ==
  ASSUME NEW v, NEW i, NEW Flags, OpenFileStatus(v, i, Flags) = SUCCESS
  PROVE  AccessMode(Flags) # O_RDONLY => FWRITE \notin Fmode(v, i)
BY DEF OpenFileStatus, SUCCESS, INVALID_ARGUMENT, PERMISSION_DENIED, NO_FREE_FILE_DESCRIPTOR

\* What FlagsSeparateCreat and FlagsSeparateWriters say of one value of the flags.
FlagsSafe(Flags) ==
  /\ OpenMode(Flags) # {} /\ FCREAT \notin OpenMode(Flags)
  /\ FWRITE \in OpenMode(Flags) => AccessMode(Flags) # O_RDONLY

\* EEFS_LibOpenFile opens no file for writing twice, and a file that is being created with
\* the size zero.
LEMMA OpenFileStep ==
  ASSUME TypeOK, TableInv, FileInv, NEW v \in Device, NEW i \in Slots(inode[v]),
         Header(v, i).InUse, NEW Flags, FlagsSafe(Flags), LibOpenFile(v, i, Flags)
  PROVE  FileInv'
<1> DEFINE size == IF Truncates(Flags) THEN 0 ELSE Header(v, i).FileSize
           mode == OpenMode(Flags)
           max == inode[v].File[i].MaxFileSize
           g == NewDescriptor(v, i, mode, size, max)
<1>1. eeprom' = eeprom /\ fat' = fat /\ inode' = inode /\ GetFileDescriptor(g)
  BY DEF LibOpenFile, image
<1>2. PICK d \in FreeDescriptors : fdTable' = [fdTable EXCEPT ![d] = g]
  BY <1>1, GetFileDescriptorStep
<1>3. /\ Header(v, i) = HeaderIn(eeprom[v], inode[v], i)
      /\ Header(v, i) \in FileHeader /\ Header(v, i).FileSize <= max
  BY SlotHeader
<1>4. inode[v].File[i].FileHeaderPointer \in Nat /\ max \in Nat
  BY SlotIsLive, LiveTiled, TiledSlots DEF LiveIsTiled, SlotStart
<1>5. size \in Nat /\ size <= max /\ (Header(v, i).FileSize = 0 => size = 0)
  BY <1>3, <1>4 DEF FileHeader
<1>6. /\ mode # {} /\ FCREAT \notin mode
      /\ FWRITE \in mode => AccessMode(Flags) # O_RDONLY
  BY DEF FlagsSafe
<1> HIDE DEF size, mode, max
<1>7. /\ g.InUse /\ g.Mode = mode /\ g.InodeTable = v /\ g.InodeIndex = i
      /\ g.FileSize = size /\ g.ByteOffset = 0 /\ g.MaxFileSize = max
      /\ g.FileHeaderPointer = inode[v].File[i].FileHeaderPointer
      /\ g.FileDataPointer = inode[v].File[i].FileHeaderPointer + HeaderSize
  BY <1>1 DEF NewDescriptor
<1> HIDE DEF g
<1>8. DescriptorFits(g, eeprom[v], inode[v])
  BY <1>3, <1>4, <1>5, <1>6, <1>7, SizesAssumption DEF DescriptorFits, max
<1>9. \A e \in Descriptor : fdTable[e].InUse => SlotKept(e)
  BY <1>1 DEF FileInv, DescriptorsFit, DescriptorFits, SlotKept
<1>10. ASSUME NEW e \in Descriptor, SameFile(fdTable[e], g)
       PROVE  Compatible(fdTable[e], g) /\ Compatible(g, fdTable[e])
  <2>1. fdTable[e].InUse /\ fdTable[e].InodeTable = v /\ fdTable[e].InodeIndex = i
    BY <1>7, <1>10 DEF SameFile
  <2>2. FWRITE \in mode => FWRITE \notin fdTable[e].Mode
    <3>1. fdTable[e].Mode \subseteq Fmode(v, i)
      BY <2>1 DEF Fmode, OpenOn
    <3> QED BY <1>6, <3>1, OpenFileChecked DEF LibOpenFile
  <2>3. FCREAT \in fdTable[e].Mode => size = 0
    BY <1>5, <2>1, SlotHeader
  <2> QED BY <1>6, <1>7, <2>2, <2>3 DEF Compatible
<1>11. DescriptorsFit' /\ SharingSafe'
  BY <1>1, <1>2, <1>7, <1>8, <1>9, <1>10, DescriptorTaken DEF FileInv
<1>12. FilesIntact'
  BY <1>1 DEF FileInv, FilesIntact, Live, Loaded
<1> QED BY <1>11, <1>12 DEF FileInv

\* What EEFS_LibCreatFile makes of the inode table.
LEMMA CreatedSlot ==
  ASSUME TypeOK, TableInv, NEW v \in Device, NEW n, NEW Attributes,
         LibCreatFile(v, n, Attributes)
  PROVE  LET i == inode[v].NumberOfFiles
             max == inode[v].FreeMemorySize - HeaderSize
         IN  /\ Loaded(v) /\ Loaded(v)' /\ i \in FileIndex /\ max \in Nat
             /\ i \notin Slots(inode[v])
             /\ Slots(inode'[v]) = Slots(inode[v]) \cup {i}
             /\ inode'[v].File[i] = [FileHeaderPointer |-> inode[v].FreeMemoryPointer,
                                     MaxFileSize |-> max]
             /\ \A j \in Slots(inode[v]) : inode'[v].File[j] = inode[v].File[j]
             /\ \A u \in Device \ {v} : inode'[u] = inode[u]
<1> DEFINE t == inode[v]
           i == t.NumberOfFiles
           max == t.FreeMemorySize - HeaderSize
           entry == [FileHeaderPointer |-> t.FreeMemoryPointer, MaxFileSize |-> max]
<1>1. t \in Table
  BY DEF TypeOK
<1>2. /\ i < MaxFiles /\ HeaderSize < t.FreeMemorySize
      /\ inode' = [inode EXCEPT ![v].NumberOfFiles = i + 1, ![v].File[i] = entry]
  BY <1>1 DEF LibCreatFile, Table
<1>3. i \in FileIndex /\ i \in Nat /\ max \in Nat /\ i \notin Slots(t)
  BY <1>1, <1>2, SizesAssumption DEF Table, FileIndex, Slots
<1>4. Loaded(v)
  BY <1>2, SizesAssumption DEF TableInv, DeviceInv, UnloadedIsZero, ZeroTable
<1> HIDE DEF max, entry
<1>5. /\ inode'[v].FreeMemoryPointer = t.FreeMemoryPointer
      /\ inode'[v].NumberOfFiles = i + 1
      /\ inode'[v].File = [t.File EXCEPT ![i] = entry]
      /\ \A u \in Device \ {v} : inode'[u] = inode[u]
  BY <1>1, <1>2 DEF TypeOK, Table
<1>6. Slots(inode'[v]) = Slots(t) \cup {i}
  BY <1>3, <1>5 DEF Slots
<1>7. inode'[v].File[i] = entry /\ \A j \in Slots(t) : inode'[v].File[j] = t.File[j]
  <2>1. Slots(t) \subseteq FileIndex
    BY SlotsAreIndices
  <2> QED BY <1>1, <1>3, <1>5, <2>1 DEF Table
<1>8. Loaded(v)'
  BY <1>4, <1>5 DEF Loaded
<1> QED BY <1>3, <1>4, <1>5, <1>6, <1>7, <1>8 DEF entry, max

\* EEFS_LibCreatFile writes a header behind those of all files, for a name no file has.
LEMMA CreatFileStep ==
  ASSUME TypeOK, TableInv, FileInv, TypeOK', TableInv', NEW v \in Device, NEW n \in Filename,
         NEW Attributes \in {NONE, READONLY}, FindFile(v, n) = FILE_NOT_FOUND,
         LibCreatFile(v, n, Attributes)
  PROVE  FileInv'
<1> DEFINE t == inode'[v]
           i == inode[v].NumberOfFiles
           max == inode[v].FreeMemorySize - HeaderSize
           h == [InUse |-> TRUE, Attributes |-> Attributes, FileSize |-> 0, Filename |-> n]
           g == NewDescriptor(v, i, {FWRITE, FCREAT}, 0, max)
           w == WriteHeader(eeprom[v], inode[v].FreeMemoryPointer, h)
<1>1. /\ Loaded(v) /\ Loaded(v)' /\ i \in FileIndex /\ max \in Nat
      /\ i \notin Slots(inode[v])
      /\ Slots(t) = Slots(inode[v]) \cup {i}
      /\ t.File[i] = [FileHeaderPointer |-> inode[v].FreeMemoryPointer, MaxFileSize |-> max]
      /\ \A j \in Slots(inode[v]) : t.File[j] = inode[v].File[j]
      /\ \A u \in Device \ {v} : inode'[u] = inode[u]
  BY CreatedSlot
<1>2. /\ fat' = fat /\ eeprom' = [eeprom EXCEPT ![v] = w] /\ GetFileDescriptor(g)
  BY DEF LibCreatFile
<1>3. /\ eeprom[v] \in [Address -> Cell] /\ eeprom'[v] = w
      /\ \A u \in Device \ {v} : eeprom'[u] = eeprom[u]
  BY <1>2 DEF TypeOK
<1>4. PICK d \in FreeDescriptors : fdTable' = [fdTable EXCEPT ![d] = g]
  BY <1>2, GetFileDescriptorStep
<1>5. h \in FileHeader /\ h.InUse /\ h.FileSize = 0 /\ h.Filename = n
  BY DEF FileHeader
<1>6. /\ g.InUse /\ g.InodeTable = v /\ g.InodeIndex = i /\ g.Mode = {FWRITE, FCREAT}
      /\ g.FileSize = 0 /\ g.ByteOffset = 0 /\ g.MaxFileSize = max
      /\ g.FileHeaderPointer = t.File[i].FileHeaderPointer
      /\ g.FileDataPointer = t.File[i].FileHeaderPointer + HeaderSize
  BY DEF NewDescriptor
<1>7. \A j \in Slots(inode[v]) : /\ Header(v, j) = HeaderIn(eeprom[v], t, j)
                                 /\ HeaderIn(eeprom[v], inode[v], j) = HeaderIn(eeprom[v], t, j)
                                 /\ ~ (Header(v, j).InUse /\ Header(v, j).Filename = n)
  BY <1>1, FindFileResult, SlotsAreIndices DEF Header, HeaderIn, SlotStart
<1>8. Live(v) = inode[v] /\ Live(v)' = t
  BY <1>1 DEF Live
<1>9. IsTiled(t) /\ SlotStart(t, i) = inode[v].FreeMemoryPointer
  BY <1>1, <1>8, LiveTiledNext DEF LiveIsTiled, SlotStart
<1> HIDE DEF t, i, max, h, g
<1>10. HeadersFit(eeprom[v], inode[v]) /\ NamesDiffer(eeprom[v], inode[v])
  BY <1>8 DEF FileInv, FilesIntact
<1>11. HeadersFit(w, t) /\ NamesDiffer(w, t)
  <2>1. h.FileSize <= t.File[i].MaxFileSize
    BY <1>1, <1>5
  <2>2. \A j \in Slots(t) \ {i} : /\ j \in Slots(inode[v]) /\ t.File[j] = inode[v].File[j]
                                  /\ ~ (h.InUse /\ HeaderIn(eeprom[v], t, j).InUse
                                        /\ HeaderIn(eeprom[v], t, j).Filename = h.Filename)
    BY <1>1, <1>5, <1>7
  <2> QED BY <1>1, <1>3, <1>5, <1>9, <1>10, <2>1, <2>2, HeaderFitsIn
<1>12. HeaderIn(w, t, i) = h
       /\ \A j \in Slots(t) \ {i} : HeaderIn(w, t, j) = HeaderIn(eeprom[v], t, j)
  BY <1>1, <1>3, <1>5, <1>9, OtherHeadersKept
<1>13. FilesIntact'
  <2>1. \A u \in Device \ {v} : Live(u)' = Live(u)
    BY <1>1, <1>2 DEF Live, Loaded
  <2> QED BY <1>3, <1>8, <1>11, <2>1 DEF FileInv, FilesIntact
<1>14. DescriptorFits(g, eeprom'[v], inode'[v])
  <2>1. i \in Slots(t) /\ t.File[i].FileHeaderPointer \in Nat
    BY <1>1, <1>9, TiledSlots DEF SlotStart
  <2> QED BY <1>1, <1>3, <1>5, <1>6, <1>12, <2>1, SizesAssumption DEF DescriptorFits, t
<1>15. ASSUME NEW e \in Descriptor, fdTable[e].InUse
       PROVE  /\ SlotKept(e)
              /\ fdTable[e].InodeTable = v => fdTable[e].InodeIndex # i
  <2> DEFINE u == fdTable[e].InodeTable
             j == fdTable[e].InodeIndex
  <2>1. u \in Device /\ DescriptorFits(fdTable[e], eeprom[u], inode[u])
    BY <1>15 DEF FileInv, DescriptorsFit
  <2>2. /\ j \in Slots(inode[u]) /\ HeaderIn(eeprom[u], inode[u], j).InUse
        /\ FCREAT \in fdTable[e].Mode => HeaderIn(eeprom[u], inode[u], j).FileSize = 0
    BY <2>1 DEF DescriptorFits
  <2>3. CASE u # v
    BY <1>1, <1>3, <2>1, <2>2, <2>3 DEF SlotKept
  <2>4. CASE u = v
    <3>1. j # i /\ j \in Slots(t) /\ t.File[j] = inode[v].File[j]
      BY <1>1, <2>2, <2>4
    <3>2. HeaderIn(w, t, j) = HeaderIn(eeprom[v], inode[v], j)
      BY <1>7, <1>12, <2>2, <2>4, <3>1
    <3> QED BY <1>3, <2>2, <2>4, <3>1, <3>2 DEF SlotKept, t
  <2> QED BY <2>3, <2>4
<1>16. DescriptorsFit' /\ SharingSafe'
  <2>1. \A e \in Descriptor : ~ SameFile(fdTable[e], g)
    BY <1>6, <1>15 DEF SameFile
  <2> QED BY <1>4, <1>6, <1>14, <1>15, <2>1, DescriptorTaken DEF FileInv
<1> QED BY <1>13, <1>16 DEF FileInv

(***************************************************************************)
(* Mounting, unmounting and resetting                                      *)
(***************************************************************************)
\* A step that writes no header and only takes slots away leaves the files intact.
LEMMA FewerSlotsLive ==
  ASSUME FilesIntact, eeprom' = eeprom,
         \A v \in Device : \A i \in Slots(Live(v)') :
           i \in Slots(Live(v)) /\ Live(v)'.File[i] = Live(v).File[i]
  PROVE  FilesIntact'
<1> SUFFICES ASSUME NEW v \in Device
             PROVE  HeadersFit(eeprom[v], Live(v)') /\ NamesDiffer(eeprom[v], Live(v)')
  BY DEF FilesIntact
<1>1. HeadersFit(eeprom[v], Live(v)) /\ NamesDiffer(eeprom[v], Live(v))
  BY DEF FilesIntact
<1> QED BY <1>1, FewerSlots

\* EEFS_LibInitFS gives the table the slots whose headers were good in the EEPROM.
LEMMA InitFSStep ==
  ASSUME TypeOK, TableInv, FileInv, NEW v \in Device, ~ Loaded(v), LibInitFS(v)
  PROVE  FileInv'
<1>1. /\ eeprom' = eeprom /\ fat' = fat /\ fdTable' = fdTable /\ FreedOrKept
      /\ \A u \in Device \ {v} : inode'[u] = inode[u]
  BY DEF TypeOK, LibInitFS, image, FreedOrKept
<1>2. /\ inode'[v].NumberOfFiles = fat[v].NumberOfFiles
      /\ \A i \in Slots(fat[v]) : inode'[v].File[i] = fat[v].File[i]
  <2> DEFINE t == [fat[v] EXCEPT !.File = [i \in FileIndex |->
                     IF i < fat[v].NumberOfFiles THEN fat[v].File[i] ELSE ZeroTable.File[i]]]
  <2>1. inode'[v] = t
    BY DEF TypeOK, LibInitFS
  <2>2. fat[v] \in Table
    BY DEF TypeOK
  <2>3. \A i \in Slots(fat[v]) : i \in FileIndex /\ i < fat[v].NumberOfFiles
    BY <2>2, SizesAssumption DEF Table, Slots, FileIndex
  <2> QED BY <2>1, <2>2, <2>3 DEF Table
<1>3. FilesIntact'
  <2>1. \A u \in Device \ {v} : Live(u)' = Live(u)
    BY <1>1 DEF Live, Loaded
  <2>2. Live(v) = fat[v] /\ Live(v)' \in {inode'[v], fat[v]}
    BY <1>1 DEF Live
  <2>3. \A i \in Slots(Live(v)') : i \in Slots(Live(v)) /\ Live(v)'.File[i] = Live(v).File[i]
    BY <1>2, <2>2 DEF Slots
  <2> QED BY <1>1, <2>1, <2>3, FewerSlotsLive DEF FileInv
<1>4. DescriptorsFit'
  <2> SUFFICES ASSUME NEW d \in Descriptor, fdTable[d].InUse PROVE SlotKept(d)
    BY <1>1, DescriptorsKept DEF FileInv
  <2> DEFINE u == fdTable[d].InodeTable
  <2>1. u \in Device \ {v} /\ DescriptorFits(fdTable[d], eeprom[u], inode[u])
    BY OpenSlotIsLive DEF FileInv, DescriptorsFit
  <2> QED BY <1>1, <2>1 DEF DescriptorFits, SlotKept
<1> QED BY <1>1, <1>3, <1>4, SharingKept DEF FileInv

\* EEFS_LibFreeFS clears a table none of whose files is open.
LEMMA FreeFSStep ==
  ASSUME TypeOK, TableInv, FileInv, NEW v \in Device, LibFreeFS(v)
  PROVE  FileInv'
<1>1. /\ eeprom' = eeprom /\ fat' = fat /\ fdTable' = fdTable /\ FreedOrKept
      /\ inode'[v] = ZeroTable /\ \A u \in Device \ {v} : inode'[u] = inode[u]
  BY DEF TypeOK, LibFreeFS, image, FreedOrKept
<1>2. FilesIntact'
  <2>1. \A u \in Device \ {v} : Live(u)' = Live(u)
    BY <1>1 DEF Live, Loaded
  <2>2. Live(v)' = fat[v]
    BY <1>1 DEF Live, Loaded, ZeroTable
  <2>3. \A i \in Slots(Live(v)') : i \in Slots(Live(v)) /\ Live(v)'.File[i] = Live(v).File[i]
    BY <2>2, FatIsPartOfLive
  <2> QED BY <1>1, <2>1, <2>3, FewerSlotsLive DEF FileInv
<1>3. DescriptorsFit'
  <2> SUFFICES ASSUME NEW d \in Descriptor, fdTable[d].InUse PROVE SlotKept(d)
    BY <1>1, DescriptorsKept DEF FileInv
  <2> DEFINE u == fdTable[d].InodeTable
  <2>1. u # v
    BY DEF LibFreeFS, HasOpenFiles, OpenOn
  <2>2. u \in Device /\ DescriptorFits(fdTable[d], eeprom[u], inode[u])
    BY DEF FileInv, DescriptorsFit
  <2> QED BY <1>1, <2>1, <2>2 DEF DescriptorFits, SlotKept
<1> QED BY <1>1, <1>2, <1>3, SharingKept DEF FileInv

\* After a reset nothing is loaded and nothing is open.
LEMMA ResetClears ==
  ASSUME LibInit
  PROVE  /\ \A v \in Device : Live(v)' = fat'[v]
         /\ DescriptorsFit' /\ SharingSafe'
<1>1. \A d \in Descriptor : ~ fdTable'[d].InUse
  BY DEF LibInit, ZeroDescriptor
<1>2. \A v \in Device : Live(v)' = fat'[v]
  BY DEF LibInit, Live, Loaded, ZeroTable
<1> QED BY <1>1, <1>2 DEF DescriptorsFit, SharingSafe, SameFile

\* A reset leaves the slots of the EEPROM.
LEMMA ResetStep ==
  ASSUME TypeOK, TableInv, FileInv, Reset
  PROVE  FileInv'
<1>1. eeprom' = eeprom /\ fat' = fat
  BY DEF Reset, image
<1>2. ASSUME NEW v \in Device, NEW i \in Slots(Live(v)')
      PROVE  i \in Slots(Live(v)) /\ Live(v)'.File[i] = Live(v).File[i]
  <2>1. Live(v)' = fat[v]
    BY <1>1, ResetClears DEF Reset
  <2> QED BY <1>2, <2>1, FatIsPartOfLive
<1> QED BY <1>1, <1>2, ResetClears, FewerSlotsLive DEF Reset, FileInv
(***************************************************************************)
(* Reading, writing and seeking                                            *)
(***************************************************************************)
\* A step that moves descriptor d of an open file to g, in bounds and without changing
\* the cells of any header.
HeadersStay ==
  \A v \in Device : \A i \in Slots(Live(v)) :
    /\ HeaderIn(eeprom'[v], Live(v), i) = HeaderIn(eeprom[v], Live(v), i)
    /\ IntactHeader(eeprom'[v], SlotStart(Live(v), i))
         <=> IntactHeader(eeprom[v], SlotStart(Live(v), i))

MovesTo(d, g) ==
  LET f == fdTable[d]
  IN  /\ fdTable' = [fdTable EXCEPT ![d] = g] /\ fat' = fat /\ inode' = inode
      /\ g.InUse = f.InUse /\ g.Mode = f.Mode
      /\ g.InodeTable = f.InodeTable /\ g.InodeIndex = f.InodeIndex
      /\ g.FileHeaderPointer = f.FileHeaderPointer /\ g.MaxFileSize = f.MaxFileSize
      /\ g.FileDataPointer = g.FileHeaderPointer + HeaderSize + g.ByteOffset
      /\ g.ByteOffset <= g.FileSize
      /\ g.FileSize <= inode[f.InodeTable].File[f.InodeIndex].MaxFileSize
      /\ g.FileSize = f.FileSize \/ FWRITE \in f.Mode

LEMMA MoveStep ==
  ASSUME TypeOK, TableInv, FileInv, NEW d \in Descriptor, fdTable[d].InUse, NEW g,
         MovesTo(d, g), HeadersStay
  PROVE  FileInv'
<1>1. /\ fdTable'[d] = g /\ \A e \in Descriptor \ {d} : fdTable'[e] = fdTable[e]
      /\ fat' = fat /\ inode' = inode
  BY DEF TypeOK, MovesTo
<1>2. FilesIntact'
  <2> SUFFICES ASSUME NEW v \in Device
               PROVE  HeadersFit(eeprom'[v], Live(v)) /\ NamesDiffer(eeprom'[v], Live(v))
    BY <1>1 DEF FilesIntact, Live, Loaded
  <2>1. HeadersFit(eeprom[v], Live(v)) /\ NamesDiffer(eeprom[v], Live(v))
    BY DEF FileInv, FilesIntact
  <2> QED BY <2>1, SameHeaders DEF HeadersStay
<1>3. ASSUME NEW e \in Descriptor, fdTable[e].InUse
      PROVE  LET v == fdTable[e].InodeTable
             IN  v \in Device /\ DescriptorFits(fdTable[e], eeprom'[v], inode[v])
  <2> DEFINE v == fdTable[e].InodeTable
  <2>1. v \in Device /\ DescriptorFits(fdTable[e], eeprom[v], inode[v])
    BY <1>3 DEF FileInv, DescriptorsFit
  <2>2. Live(v) = inode[v] /\ fdTable[e].InodeIndex \in Slots(inode[v])
    BY <1>3, OpenSlotIsLive DEF FileInv
  <2> QED BY <2>1, <2>2 DEF DescriptorFits, HeadersStay
<1>4. DescriptorsFit'
  <2>1. g.InodeTable \in Device /\ DescriptorFits(g, eeprom'[g.InodeTable], inode[g.InodeTable])
    BY <1>3 DEF MovesTo, DescriptorFits
  <2> QED BY <1>1, <1>3, <2>1 DEF DescriptorsFit
<1>5. ASSUME NEW e \in Descriptor \ {d}, SameFile(fdTable[e], g)
      PROVE  Compatible(fdTable[e], g) /\ Compatible(g, fdTable[e])
  <2>1. SameFile(fdTable[e], fdTable[d]) /\ SameFile(fdTable[d], fdTable[e])
    BY <1>5 DEF SameFile, MovesTo
  <2>2. Compatible(fdTable[e], fdTable[d]) /\ Compatible(fdTable[d], fdTable[e])
    BY <2>1 DEF FileInv, SharingSafe
  <2>3. FCREAT \in fdTable[e].Mode => FWRITE \in fdTable[e].Mode
    BY <2>1, <1>3 DEF SameFile, DescriptorFits
  <2> QED BY <2>2, <2>3 DEF Compatible, MovesTo
<1>6. \A e : SameFile(g, e) => SameFile(e, g)
  BY DEF SameFile
<1>7. SharingSafe'
  BY <1>1, <1>5, <1>6 DEF FileInv, SharingSafe
<1> QED BY <1>2, <1>4, <1>7 DEF FileInv

\* The numbers that a descriptor of an open file holds.
LEMMA OpenDescriptor ==
  ASSUME TypeOK, TableInv, FileInv, NEW d \in Descriptor, fdTable[d].InUse
  PROVE  LET f == fdTable[d]
             v == f.InodeTable
             i == f.InodeIndex
             max == inode[v].File[i].MaxFileSize
         IN  /\ f \in FileDescriptor /\ f.ByteOffset \in Nat /\ f.FileSize \in Nat
             /\ f.FileHeaderPointer \in Nat
             /\ f.MaxFileSize \in Nat /\ max \in Nat
             /\ v \in Device /\ Live(v) = inode[v] /\ IsTiled(inode[v]) /\ i \in Slots(inode[v])
             /\ f.FileHeaderPointer = SlotStart(inode[v], i)
             /\ f.FileDataPointer = f.FileHeaderPointer + HeaderSize + f.ByteOffset
             /\ f.ByteOffset <= f.FileSize /\ f.FileSize <= max /\ max < HalfWord
             /\ FWRITE \in f.Mode => f.MaxFileSize = max
<1> DEFINE f == fdTable[d]
           v == f.InodeTable
           i == f.InodeIndex
           max == inode[v].File[i].MaxFileSize
<1>1. /\ f \in FileDescriptor /\ f.ByteOffset \in Nat /\ f.FileSize \in Nat
      /\ f.MaxFileSize \in Nat /\ f.FileHeaderPointer \in Nat
  BY DEF TypeOK, FileDescriptor
<1>2. v \in Device /\ Live(v) = inode[v] /\ i \in Slots(inode[v])
  BY OpenSlotIsLive DEF FileInv
<1>3. IsTiled(inode[v])
  BY <1>2, LiveTiled DEF LiveIsTiled
<1>4. DescriptorFits(f, eeprom[v], inode[v])
  BY DEF FileInv, DescriptorsFit
<1>5. max \in Nat /\ max < HalfWord
  <2> HIDE DEF v, i
  <2>1. /\ SlotStart(inode[v], i) \in Nat /\ max \in Nat
        /\ SlotEnd(inode[v], i) = SlotStart(inode[v], i) + HeaderSize + max
        /\ SlotEnd(inode[v], i) <= DeviceSize
    BY <1>2, <1>3, TiledSlots
  <2> QED BY <2>1, SizesAssumption
<1> QED BY <1>1, <1>2, <1>3, <1>4, <1>5 DEF DescriptorFits, SlotStart

\* EEFS_LibRead stops at the end of the file.
LEMMA ReadLength ==
  ASSUME TypeOK, TableInv, FileInv, NEW d \in Descriptor, fdTable[d].InUse,
         NEW Length \in Lengths
  PROVE  LET f == fdTable[d]
         IN  BytesToRead(f, Length) \in Nat
             /\ BytesToRead(f, Length) <= f.FileSize - f.ByteOffset
<1> DEFINE f == fdTable[d]
<1>1. f.ByteOffset \in Nat /\ f.FileSize \in Nat /\ f.ByteOffset <= f.FileSize
  BY OpenDescriptor
<1>2. USub(f.FileSize, f.ByteOffset) = f.FileSize - f.ByteOffset /\ Length \in Nat
  BY <1>1, InputsAssumption DEF USub
<1> HIDE DEF f
<1> QED BY <1>1, <1>2 DEF BytesToRead, Lesser, f

\* It moves its descriptor on, inside the file.
LEMMA ReadStep ==
  ASSUME TypeOK, TableInv, FileInv, NEW d \in Descriptor, NEW Length \in Lengths,
         LibRead(d, Length)
  PROVE  FileInv'
<1> DEFINE f == fdTable[d]
           n == BytesToRead(f, Length)
           g == [f EXCEPT !.FileDataPointer = @ + n, !.ByteOffset = @ + n]
<1>1. /\ f.InUse /\ eeprom' = eeprom /\ fat' = fat /\ inode' = inode
      /\ fdTable' = [fdTable EXCEPT ![d].FileDataPointer = @ + n, ![d].ByteOffset = @ + n]
  BY DEF LibRead, IsValidFileDescriptor, image
<1>2. n \in Nat /\ n <= f.FileSize - f.ByteOffset
  BY <1>1, ReadLength
<1> HIDE DEF n
<1>3. fdTable' = [fdTable EXCEPT ![d] = g]
  BY <1>1 DEF TypeOK
<1>4. /\ g.InUse = f.InUse /\ g.Mode = f.Mode
      /\ g.InodeTable = f.InodeTable /\ g.InodeIndex = f.InodeIndex
      /\ g.FileHeaderPointer = f.FileHeaderPointer /\ g.MaxFileSize = f.MaxFileSize
      /\ g.FileSize = f.FileSize
      /\ g.FileDataPointer = f.FileDataPointer + n /\ g.ByteOffset = f.ByteOffset + n
  BY <1>1, OpenDescriptor DEF FileDescriptor
<1> HIDE DEF g
<1>5. /\ g.FileDataPointer = g.FileHeaderPointer + HeaderSize + g.ByteOffset
      /\ g.ByteOffset <= g.FileSize
      /\ g.FileSize <= inode[f.InodeTable].File[f.InodeIndex].MaxFileSize
  BY <1>1, <1>2, <1>4, OpenDescriptor, SizesAssumption
<1>6. MovesTo(d, g)
  BY <1>1, <1>3, <1>4, <1>5 DEF MovesTo
<1>7. HeadersStay
  BY <1>1 DEF HeadersStay
<1> QED BY <1>1, <1>6, <1>7, MoveStep

\* The position that EEFS_LibLSeek computes lies in the file.
LEMMA SeekTargetInFile ==
  ASSUME NEW f, f.FileSize \in Nat, f.FileSize < HalfWord, f.ByteOffset \in Nat,
         NEW offset \in Int, NEW origin \in Origin,
         SeekTarget(f, offset, origin) # INVALID_ARGUMENT
  PROVE  SeekTarget(f, offset, origin) \in 0 .. f.FileSize
<1>1. Int32(f.FileSize) = f.FileSize
  BY SizesAssumption DEF Int32
<1>2. Int32(offset + f.ByteOffset) \in Int
  BY SizesAssumption DEF Int32
<1>3. CASE origin = "SEEK_SET"
  BY <1>1, <1>3 DEF SeekTarget
<1>4. CASE origin = "SEEK_CUR"
  BY <1>1, <1>2, <1>4 DEF SeekTarget
<1>5. CASE origin = "SEEK_END"
  <2>1. offset <= 0 => Int32(offset + f.FileSize) = offset + f.FileSize
    BY SizesAssumption DEF Int32
  <2> QED BY <1>5, <2>1 DEF SeekTarget
<1> QED BY <1>3, <1>4, <1>5 DEF Origin

\* EEFS_LibLSeek keeps a descriptor in its file, and its data pointer with its offset.
LEMMA SeekStep ==
  ASSUME TypeOK, TableInv, FileInv, NEW d \in Descriptor, NEW offset \in SeekOffsets,
         NEW origin \in Origin, LibLSeek(d, offset, origin)
  PROVE  FileInv'
<1> DEFINE f == fdTable[d]
           target == SeekTarget(f, offset, origin)
           p == IF origin = "SEEK_CUR" /\ target = offset + f.ByteOffset
                THEN f.FileDataPointer + offset
                ELSE f.FileHeaderPointer + HeaderSize + target
           g == [f EXCEPT !.ByteOffset = target, !.FileDataPointer = p]
<1>1. /\ f.InUse /\ eeprom' = eeprom /\ fat' = fat /\ inode' = inode
      /\ fdTable' = [fdTable EXCEPT ![d].ByteOffset = target, ![d].FileDataPointer = p]
      /\ offset \in Int
  BY InputsAssumption DEF LibLSeek, IsValidFileDescriptor, image
<1>2. target \in 0 .. f.FileSize
  <2>1. f.FileSize \in Nat /\ f.FileSize < HalfWord /\ f.ByteOffset \in Nat
    BY <1>1, OpenDescriptor, SizesAssumption
  <2>2. target # INVALID_ARGUMENT
    BY DEF LibLSeek
  <2> QED BY <1>1, <2>1, <2>2, SeekTargetInFile
<1> HIDE DEF target
<1>3. p = f.FileHeaderPointer + HeaderSize + target
  BY <1>1, <1>2, OpenDescriptor, SizesAssumption
<1> HIDE DEF p
<1>4. fdTable' = [fdTable EXCEPT ![d] = g]
  BY <1>1 DEF TypeOK
<1>5. /\ g.InUse = f.InUse /\ g.Mode = f.Mode
      /\ g.InodeTable = f.InodeTable /\ g.InodeIndex = f.InodeIndex
      /\ g.FileHeaderPointer = f.FileHeaderPointer /\ g.MaxFileSize = f.MaxFileSize
      /\ g.FileSize = f.FileSize /\ g.FileDataPointer = p /\ g.ByteOffset = target
  BY <1>1, OpenDescriptor DEF FileDescriptor
<1> HIDE DEF g
<1>6. /\ g.FileDataPointer = g.FileHeaderPointer + HeaderSize + g.ByteOffset
      /\ g.ByteOffset <= g.FileSize
      /\ g.FileSize <= inode[f.InodeTable].File[f.InodeIndex].MaxFileSize
  BY <1>1, <1>2, <1>3, <1>5, OpenDescriptor, SizesAssumption
<1>7. MovesTo(d, g)
  BY <1>1, <1>4, <1>5, <1>6 DEF MovesTo
<1>8. HeadersStay
  BY <1>1 DEF HeadersStay
<1> QED BY <1>1, <1>7, <1>8, MoveStep
\* EEFS_LibWrite stops at the end of the slot, and changes the data of its own file only.
LEMMA WrittenCells ==
  ASSUME TypeOK, TableInv, FileInv, NEW d \in Descriptor, NEW Length \in Lengths,
         NEW b \in Byte, LibWrite(d, Length, b)
  PROVE  LET f == fdTable[d]
             v == f.InodeTable
             i == f.InodeIndex
             n == BytesToWrite(f, Length)
         IN  /\ n \in Nat /\ f.ByteOffset + n <= inode[v].File[i].MaxFileSize
             /\ \A u \in Device \ {v} : eeprom'[u] = eeprom[u]
             /\ \A x \in Address : eeprom'[v][x] # eeprom[v][x] =>
                  /\ n > 0
                  /\ SlotStart(inode[v], i) + HeaderSize <= x /\ x < SlotEnd(inode[v], i)
<1> DEFINE f == fdTable[d]
           v == f.InodeTable
           i == f.InodeIndex
           n == BytesToWrite(f, Length)
           max == inode[v].File[i].MaxFileSize
<1>1. f.InUse /\ FWRITE \in f.Mode
      /\ eeprom' = [eeprom EXCEPT ![v] = WriteData(@, f.FileDataPointer, n, b)]
  BY DEF LibWrite, IsValidFileDescriptor
<1>2. /\ f.ByteOffset \in Nat /\ max \in Nat /\ f.FileHeaderPointer \in Nat
      /\ f.ByteOffset <= max /\ f.MaxFileSize = max
      /\ v \in Device /\ IsTiled(inode[v]) /\ i \in Slots(inode[v])
      /\ f.FileHeaderPointer = SlotStart(inode[v], i)
      /\ f.FileDataPointer = f.FileHeaderPointer + HeaderSize + f.ByteOffset
  BY <1>1, OpenDescriptor
<1>3. n \in Nat /\ f.ByteOffset + n <= max
  <2>1. USub(f.MaxFileSize, f.ByteOffset) = max - f.ByteOffset /\ Length \in Nat
    BY <1>2, InputsAssumption DEF USub
  <2> HIDE DEF f, max
  <2> QED BY <1>2, <2>1 DEF BytesToWrite, Lesser
<1>4. SlotEnd(inode[v], i) = SlotStart(inode[v], i) + HeaderSize + max
  BY DEF SlotEnd
<1> HIDE DEF n, f, v, i
<1>5. /\ \A u \in Device \ {v} : eeprom'[u] = eeprom[u]
      /\ eeprom'[v] = WriteData(eeprom[v], f.FileDataPointer, n, b)
      /\ eeprom[v] \in [Address -> Cell]
  BY <1>1, <1>2 DEF TypeOK
<1>6. ASSUME NEW x \in Address, eeprom'[v][x] # eeprom[v][x]
      PROVE  /\ n > 0
             /\ SlotStart(inode[v], i) + HeaderSize <= x /\ x < SlotEnd(inode[v], i)
  <2>1. f.FileDataPointer \in Int /\ x \in Int
    BY <1>2, SizesAssumption DEF Address
  <2>2. f.FileDataPointer <= x /\ x < f.FileDataPointer + n
    BY <1>3, <1>5, <1>6, <2>1, DataWriteKeeps
  <2> QED BY <1>2, <1>3, <1>4, <2>1, <2>2, SizesAssumption
<1> QED BY <1>3, <1>5, <1>6 DEF n, f, v, i, max

\* Cells of the data of one slot of a tiled table lie in no header of that table.
LEMMA DataIsNoHeader ==
  ASSUME NEW t, IsTiled(t), NEW i \in Slots(t), NEW j \in Slots(t), NEW x \in Address,
         SlotStart(t, i) + HeaderSize <= x, x < SlotEnd(t, i)
  PROVE  ~ (SlotStart(t, j) <= x /\ x < SlotStart(t, j) + HeaderSize)
<1>1. /\ SlotStart(t, i) \in Nat /\ SlotStart(t, j) \in Nat /\ x \in Int
      /\ t.File[i].MaxFileSize \in Nat /\ t.File[j].MaxFileSize \in Nat
      /\ SlotEnd(t, i) = SlotStart(t, i) + HeaderSize + t.File[i].MaxFileSize
      /\ SlotEnd(t, j) = SlotStart(t, j) + HeaderSize + t.File[j].MaxFileSize
      /\ i # j => SlotEnd(t, i) <= SlotStart(t, j) \/ SlotEnd(t, j) <= SlotStart(t, i)
  BY TiledSlots, SizesAssumption DEF Address
<1> QED BY <1>1, SizesAssumption

\* EEFS_LibWrite changes no header.
LEMMA WriteKeepsHeaders ==
  ASSUME TypeOK, TableInv, FileInv, NEW d \in Descriptor, NEW Length \in Lengths,
         NEW b \in Byte, LibWrite(d, Length, b)
  PROVE  HeadersStay
<1> DEFINE f == fdTable[d]
           v == f.InodeTable
           i == f.InodeIndex
<1>1. f.InUse
  BY DEF LibWrite, IsValidFileDescriptor
<1>2. /\ \A u \in Device \ {v} : eeprom'[u] = eeprom[u]
      /\ \A x \in Address : eeprom'[v][x] # eeprom[v][x] =>
           SlotStart(inode[v], i) + HeaderSize <= x /\ x < SlotEnd(inode[v], i)
  BY WrittenCells
<1>3. v \in Device /\ Live(v) = inode[v] /\ IsTiled(inode[v]) /\ i \in Slots(inode[v])
  BY <1>1, OpenDescriptor
<1> HIDE DEF v, i
<1> SUFFICES ASSUME NEW u \in Device
             PROVE  \A j \in Slots(Live(u)) :
                      /\ HeaderIn(eeprom'[u], Live(u), j) = HeaderIn(eeprom[u], Live(u), j)
                      /\ IntactHeader(eeprom'[u], SlotStart(Live(u), j))
                           <=> IntactHeader(eeprom[u], SlotStart(Live(u), j))
  BY DEF HeadersStay
<1>4. CASE u # v
  BY <1>2, <1>4
<1>5. CASE u = v
  <2>1. \A j \in Slots(inode[v]), x \in Address :
          SlotStart(inode[v], j) <= x /\ x < SlotStart(inode[v], j) + HeaderSize
          => eeprom'[v][x] = eeprom[v][x]
    BY <1>2, <1>3, DataIsNoHeader
  <2> QED BY <1>3, <1>5, <2>1, HeadersKept
<1> QED BY <1>4, <1>5

\* It keeps a descriptor in its slot; a file that somebody reads while it is created stays
\* empty for the reader.
LEMMA WriteStep ==
  ASSUME TypeOK, TableInv, FileInv, NEW d \in Descriptor, NEW Length \in Lengths,
         NEW b \in Byte, LibWrite(d, Length, b)
  PROVE  FileInv'
<1> DEFINE f == fdTable[d]
           v == f.InodeTable
           i == f.InodeIndex
           n == BytesToWrite(f, Length)
           size == IF f.ByteOffset + n > f.FileSize THEN f.ByteOffset + n ELSE f.FileSize
           g == [f EXCEPT !.FileDataPointer = @ + n, !.ByteOffset = @ + n, !.FileSize = size]
<1>1. /\ f.InUse /\ FWRITE \in f.Mode /\ fat' = fat /\ inode' = inode
      /\ fdTable' = [fdTable EXCEPT ![d] = g]
  BY DEF LibWrite, IsValidFileDescriptor
<1>2. n \in Nat /\ f.ByteOffset + n <= inode[v].File[i].MaxFileSize
  BY WrittenCells
<1> HIDE DEF n, v, i
<1>4. HeadersStay
  BY WriteKeepsHeaders
<1>5. /\ g.InUse = f.InUse /\ g.Mode = f.Mode
      /\ g.InodeTable = f.InodeTable /\ g.InodeIndex = f.InodeIndex
      /\ g.FileHeaderPointer = f.FileHeaderPointer /\ g.MaxFileSize = f.MaxFileSize
      /\ g.FileSize = size
      /\ g.FileDataPointer = f.FileDataPointer + n /\ g.ByteOffset = f.ByteOffset + n
  BY <1>1, OpenDescriptor DEF FileDescriptor
<1> HIDE DEF g
<1>6. /\ g.FileDataPointer = g.FileHeaderPointer + HeaderSize + g.ByteOffset
      /\ g.ByteOffset <= g.FileSize
      /\ g.FileSize <= inode[f.InodeTable].File[f.InodeIndex].MaxFileSize
  BY <1>1, <1>2, <1>5, OpenDescriptor, SizesAssumption DEF v, i
<1>7. MovesTo(d, g)
  BY <1>1, <1>5, <1>6 DEF MovesTo
<1> QED BY <1>1, <1>4, <1>7, MoveStep
(***************************************************************************)
(* Closing a created file                                                  *)
(***************************************************************************)
\* The final slot of a created file starts where the file was written and has room for it;
\* the other slots are as they were.
LEMMA FinalSlotFits ==
  ASSUME TypeOK, TableInv, FileInv, NEW d \in Descriptor, fdTable[d].InUse,
         FCREAT \in fdTable[d].Mode
  PROVE  LET v == fdTable[d].InodeTable
             i == fdTable[d].InodeIndex
             t == AllocateSlot(inode[v], d)
         IN  /\ v \in Device /\ d \in Creators(v) /\ i = fat[v].NumberOfFiles
             /\ i \in Slots(t) /\ Slots(t) = Slots(inode[v])
             /\ t.FreeMemoryPointer # 0
             /\ t.File[i].FileHeaderPointer = inode[v].File[i].FileHeaderPointer
             /\ fdTable[d].FileSize <= t.File[i].MaxFileSize
             /\ t.File[i].MaxFileSize \in Nat
             /\ \A j \in Slots(t) \ {i} : t.File[j] = inode[v].File[j]
<1> DEFINE v == fdTable[d].InodeTable
           i == fdTable[d].InodeIndex
           free == inode[v].FreeMemorySize
           max == SlotSize(fdTable[d].FileSize, free)
           t == AllocateSlot(inode[v], d)
<1>1. /\ v \in Device /\ d \in Creators(v) /\ DeviceInv(v) /\ Loaded(v)
      /\ i \in Slots(inode[v]) /\ i \in FileIndex /\ inode[v] \in Table
  BY OpenSlotIsLive, SlotsAreIndices DEF FileInv, Creators, OpenOn, TableInv
<1>2. /\ i = fat[v].NumberOfFiles /\ HeaderSize < free
      /\ inode[v].FreeMemoryPointer = fat[v].FreeMemoryPointer
      /\ inode[v].File[i].MaxFileSize = free - HeaderSize
  BY <1>1 DEF DeviceInv, CreatorOwnsFreeMemory, InodeFollowsFat
<1>3. /\ free \in Nat /\ fdTable[d].FileSize \in Nat
      /\ fdTable[d].FileSize <= free - HeaderSize
  BY <1>1, <1>2, OpenDescriptor DEF Table
<1> HIDE DEF v, i, free
<1>4. max \in Nat /\ fdTable[d].FileSize <= max
  <2>1. USub(free, HeaderSize) = free - HeaderSize /\ free - HeaderSize \in Nat
    BY <1>2, <1>3, SizesAssumption DEF USub
  <2>2. fdTable[d].FileSize + SpareBytes \in Nat
    BY <1>3, SizesAssumption
  <2>3. /\ RoundUp4(fdTable[d].FileSize + SpareBytes) \in Nat
        /\ fdTable[d].FileSize + SpareBytes <= RoundUp4(fdTable[d].FileSize + SpareBytes)
    BY <2>2, RoundUp4Bound
  <2> QED BY <1>3, <2>1, <2>3, SizesAssumption DEF SlotSize, Lesser
<1> HIDE DEF max
<1>5. t = [inode[v] EXCEPT !.FreeMemoryPointer = @ + HeaderSize + max,
                           !.FreeMemorySize = USub(free, HeaderSize + max),
                           !.File[i].MaxFileSize = max]
  BY DEF AllocateSlot, free, max, i
<1> HIDE DEF t
<1>6. /\ t.FreeMemoryPointer = inode[v].FreeMemoryPointer + HeaderSize + max
      /\ t.NumberOfFiles = inode[v].NumberOfFiles
      /\ t.File = [inode[v].File EXCEPT ![i].MaxFileSize = max]
  BY <1>1, <1>5 DEF Table
<1>7. t.FreeMemoryPointer # 0
  BY <1>1, <1>4, <1>6, SizesAssumption DEF Table
<1>8. /\ t.File[i].MaxFileSize = max
      /\ t.File[i].FileHeaderPointer = inode[v].File[i].FileHeaderPointer
      /\ \A j \in Slots(inode[v]) \ {i} : t.File[j] = inode[v].File[j]
  <2>1. \A j \in Slots(inode[v]) : j \in FileIndex
    BY <1>1, SlotsAreIndices
  <2> QED BY <1>1, <1>6, <2>1 DEF Table, Entry
<1> QED BY <1>1, <1>2, <1>4, <1>6, <1>7, <1>8 DEF v, i, t, Slots

\* A device whose created file gets its final slot and its size keeps its files intact.
LEMMA FinalSlotIntact ==
  ASSUME TypeOK, TableInv, FileInv, NEW d \in Descriptor, fdTable[d].InUse,
         FCREAT \in fdTable[d].Mode, IsTiled(AllocateSlot(inode[fdTable[d].InodeTable], d))
  PROVE  LET v == fdTable[d].InodeTable
             i == fdTable[d].InodeIndex
             t == AllocateSlot(inode[v], d)
             w == StoreFileSize(eeprom[v], d)
         IN  /\ HeadersFit(w, t) /\ NamesDiffer(w, t)
             /\ HeaderIn(w, t, i).InUse
             /\ \A j \in Slots(t) \ {i} : HeaderIn(w, t, j) = HeaderIn(eeprom[v], inode[v], j)
<1> DEFINE v == fdTable[d].InodeTable
           i == fdTable[d].InodeIndex
           t == AllocateSlot(inode[v], d)
           w == StoreFileSize(eeprom[v], d)
           h == [Header(v, i) EXCEPT !.FileSize = fdTable[d].FileSize]
<1>1. /\ v \in Device /\ i \in Slots(inode[v]) /\ h \in FileHeader /\ h.InUse
      /\ h.FileSize = fdTable[d].FileSize
      /\ \A j \in Slots(inode[v]) \ {i} :
           ~ (Header(v, j).InUse /\ Header(v, j).Filename = h.Filename)
      /\ w = WriteHeader(eeprom[v], SlotStart(inode[v], i), h)
  BY StoredSize
<1>2. /\ IsTiled(t) /\ Slots(t) = Slots(inode[v])
      /\ t.File[i].FileHeaderPointer = inode[v].File[i].FileHeaderPointer
      /\ fdTable[d].FileSize <= t.File[i].MaxFileSize
      /\ \A j \in Slots(t) \ {i} : t.File[j] = inode[v].File[j]
  BY FinalSlotFits
<1>3. /\ HeadersFit(eeprom[v], inode[v]) /\ NamesDiffer(eeprom[v], inode[v])
      /\ eeprom[v] \in [Address -> Cell]
  BY <1>1, SlotIsLive DEF FileInv, FilesIntact, TypeOK
<1> HIDE DEF v, i, t, w, h
<1>4. w = WriteHeader(eeprom[v], SlotStart(t, i), h)
  BY <1>1, <1>2 DEF SlotStart
<1>5. \A j \in Slots(t) \ {i} : /\ Header(v, j) = HeaderIn(eeprom[v], t, j)
                                /\ HeaderIn(eeprom[v], t, j) = HeaderIn(eeprom[v], inode[v], j)
  BY <1>2 DEF Header, HeaderIn, SlotStart
<1>6. HeadersFit(w, t) /\ NamesDiffer(w, t)
  <2>1. h.FileSize <= t.File[i].MaxFileSize
    BY <1>1, <1>2
  <2>2. \A j \in Slots(t) \ {i} :
          ~ (h.InUse /\ HeaderIn(eeprom[v], t, j).InUse
             /\ HeaderIn(eeprom[v], t, j).Filename = h.Filename)
    BY <1>1, <1>2, <1>5
  <2>3. \A j \in Slots(t) \ {i} : j \in Slots(inode[v]) /\ t.File[j] = inode[v].File[j]
    BY <1>2
  <2> QED BY <1>1, <1>2, <1>3, <1>4, <2>1, <2>2, <2>3, HeaderFitsIn
<1>7. HeaderIn(w, t, i) = h
      /\ \A j \in Slots(t) \ {i} : HeaderIn(w, t, j) = HeaderIn(eeprom[v], t, j)
  BY <1>1, <1>2, <1>3, <1>4, OtherHeadersKept
<1> QED BY <1>1, <1>5, <1>6, <1>7 DEF v, i, t, w

\* EEFS_LibClose of a created file cuts its slot to size: the file still fits, and whoever
\* reads it has seen it empty.
LEMMA CloseCreatedStep ==
  ASSUME TypeOK, TableInv, FileInv, TypeOK', TableInv', NEW d \in Descriptor,
         fdTable[d].InUse, CloseCreated(d), FreeFileDescriptor(d)
  PROVE  FileInv'
<1>0. PICK v \in Device : v = fdTable[d].InodeTable
  BY DEF FileInv, DescriptorsFit
<1> DEFINE i == fdTable[d].InodeIndex
           t == AllocateSlot(inode[v], d)
           w == StoreFileSize(eeprom[v], d)
<1>1. FCREAT \in fdTable[d].Mode
  BY DEF CloseCreated
<1>2. /\ i \in Slots(t) /\ Slots(t) = Slots(inode[v]) /\ t.FreeMemoryPointer # 0
      /\ t.File[i].FileHeaderPointer = inode[v].File[i].FileHeaderPointer
      /\ t.File[i].MaxFileSize \in Nat
      /\ \A j \in Slots(t) \ {i} : t.File[j] = inode[v].File[j]
  BY <1>0, <1>1, FinalSlotFits
<1>3. /\ inode'[v] = t /\ eeprom'[v] = w
      /\ \A u \in Device \ {v} :
           inode'[u] = inode[u] /\ eeprom'[u] = eeprom[u] /\ fat'[u] = fat[u]
  BY <1>0 DEF TypeOK, CloseCreated
<1>4. Live(v)' = t
  BY <1>2, <1>3 DEF Live, Loaded
<1>5. IsTiled(t)
  BY <1>4, LiveTiledNext DEF LiveIsTiled
<1>6. /\ HeadersFit(w, t) /\ NamesDiffer(w, t)
      /\ HeaderIn(w, t, i).InUse
      /\ \A j \in Slots(t) \ {i} : HeaderIn(w, t, j) = HeaderIn(eeprom[v], inode[v], j)
  BY <1>0, <1>1, <1>5, FinalSlotIntact
<1> HIDE DEF i, t, w
<1>7. FilesIntact'
  <2>1. \A u \in Device \ {v} : Live(u)' = Live(u)
    BY <1>3 DEF Live, Loaded
  <2> QED BY <1>3, <1>4, <1>6, <2>1 DEF FileInv, FilesIntact
<1>8. FreedOrKept /\ ~ fdTable'[d].InUse
  BY ClosedIsFreed
<1>9. DescriptorsFit'
  <2> SUFFICES ASSUME NEW e \in Descriptor \ {d}, fdTable[e].InUse
               PROVE  LET u == fdTable[e].InodeTable
                      IN  u \in Device /\ DescriptorFits(fdTable[e], eeprom'[u], inode'[u])
    BY <1>8 DEF DescriptorsFit, FreedOrKept
  <2> DEFINE u == fdTable[e].InodeTable
             j == fdTable[e].InodeIndex
  <2>1. u \in Device /\ DescriptorFits(fdTable[e], eeprom[u], inode[u])
    BY DEF FileInv, DescriptorsFit
  <2>2. CASE u # v
    BY <1>3, <2>1, <2>2
  <2>3. CASE u = v /\ j # i
    BY <1>2, <1>3, <1>6, <2>1, <2>3 DEF DescriptorFits
  <2>4. CASE u = v /\ j = i
    <3>1. SameFile(fdTable[d], fdTable[e])
      BY <1>0, <2>4 DEF SameFile, i
    <3>2. Compatible(fdTable[d], fdTable[e])
      BY <3>1 DEF FileInv, SharingSafe
    <3>3. FWRITE \in fdTable[d].Mode
      BY <1>1 DEF FileInv, DescriptorsFit, DescriptorFits
    <3>4. FWRITE \notin fdTable[e].Mode /\ fdTable[e].FileSize = 0
      BY <1>1, <3>2, <3>3 DEF Compatible
    <3> QED BY <1>2, <1>3, <1>6, <2>1, <2>4, <3>4 DEF DescriptorFits
  <2> QED BY <2>2, <2>3, <2>4
<1> QED BY <1>7, <1>8, <1>9, SharingKept DEF FileInv

\* A reset that cuts EEFS_LibClose short has written the header of a slot that is in the
\* allocation table or not yet part of the file system.
LEMMA ResetDuringCloseStep ==
  ASSUME TypeOK, TableInv, FileInv, NEW d \in Descriptor, ResetDuringClose(d)
  PROVE  FileInv'
<1> DEFINE v == fdTable[d].InodeTable
           i == fdTable[d].InodeIndex
           w == StoreFileSize(eeprom[v], d)
           h == [Header(v, i) EXCEPT !.FileSize = fdTable[d].FileSize]
<1>1. /\ fdTable[d].InUse /\ FCREAT \in fdTable[d].Mode /\ LibInit
      /\ eeprom' = [eeprom EXCEPT ![v] = w]
  BY DEF ResetDuringClose, IsValidFileDescriptor
<1>2. /\ v \in Device /\ i \in Slots(inode[v]) /\ h \in FileHeader /\ h.InUse
      /\ h.FileSize <= inode[v].File[i].MaxFileSize
      /\ \A j \in Slots(inode[v]) \ {i} :
           ~ (Header(v, j).InUse /\ Header(v, j).Filename = h.Filename)
      /\ w = WriteHeader(eeprom[v], SlotStart(inode[v], i), h)
  BY <1>1, StoredSize
<1>3. d \in Creators(v) /\ i = fat[v].NumberOfFiles
  BY <1>1, FinalSlotFits
<1>4. PICK k \in {0, 1} : fat' = [fat EXCEPT ![v] = UpdatedFat(@, AllocateSlot(inode[v], d), i, k)]
  BY DEF ResetDuringClose
<1>5. /\ eeprom'[v] = w /\ \A u \in Device \ {v} : eeprom'[u] = eeprom[u] /\ fat'[u] = fat[u]
      /\ fat'[v] = UpdatedFat(fat[v], AllocateSlot(inode[v], d), i, k)
  BY <1>1, <1>2, <1>4 DEF TypeOK
<1>6. /\ Live(v) = inode[v] /\ IsTiled(inode[v]) /\ eeprom[v] \in [Address -> Cell]
      /\ HeadersFit(eeprom[v], inode[v]) /\ NamesDiffer(eeprom[v], inode[v])
  BY <1>2, SlotIsLive, LiveTiled DEF LiveIsTiled, FileInv, FilesIntact, TypeOK
<1>7. HeadersFit(w, inode[v]) /\ NamesDiffer(w, inode[v])
  <2> HIDE DEF v, i, w, h
  <2>1. \A j \in Slots(inode[v]) : Header(v, j) = HeaderIn(eeprom[v], inode[v], j)
    BY DEF Header, HeaderIn, SlotStart
  <2> QED BY <1>2, <1>6, <2>1, HeaderFitsIn
<1>8. \A j \in Slots(fat'[v]) : j \in Slots(inode[v]) /\ fat'[v].File[j] = inode[v].File[j]
  <2>1. /\ fat[v] \in Table /\ AllocateSlot(inode[v], d) \in Table /\ i \in FileIndex
    BY <1>2, AllocateSlotType, SlotsAreIndices DEF TypeOK, FileDescriptor
  <2>2. /\ fat'[v].NumberOfFiles = fat[v].NumberOfFiles
        /\ \A j \in FileIndex \ {i} : fat'[v].File[j] = fat[v].File[j]
    <3> HIDE DEF v, i
    <3> QED BY <1>5, <2>1, UpdatedFatFields
  <2>3. \A j \in Slots(fat[v]) : /\ j \in FileIndex \ {i}
                                 /\ j \in Slots(inode[v]) /\ inode[v].File[j] = fat[v].File[j]
    <3>1. \A j \in Slots(fat[v]) : j \in Slots(inode[v]) /\ inode[v].File[j] = fat[v].File[j]
      BY <1>2, <1>6, FatIsPartOfLive
    <3>2. \A j \in Slots(fat[v]) : j # fat[v].NumberOfFiles
      BY <2>1, SizesAssumption DEF Slots, Table
    <3> QED BY <1>2, <1>3, <3>1, <3>2, SlotsAreIndices
  <2> QED BY <2>2, <2>3 DEF Slots
<1> HIDE DEF v, i, w, h
<1>9. ASSUME NEW u \in Device
      PROVE  HeadersFit(eeprom'[u], Live(u)') /\ NamesDiffer(eeprom'[u], Live(u)')
  <2>1. Live(u)' = fat'[u]
    BY <1>1, ResetClears
  <2>2. CASE u = v
    BY <1>5, <1>7, <1>8, <2>1, <2>2, FewerSlots
  <2>3. CASE u # v
    <3>1. HeadersFit(eeprom[u], Live(u)) /\ NamesDiffer(eeprom[u], Live(u))
      BY DEF FileInv, FilesIntact
    <3> QED BY <1>5, <2>1, <2>3, <3>1, FatIsPartOfLive, FewerSlots
  <2> QED BY <2>2, <2>3
<1> QED BY <1>1, <1>9, ResetClears DEF FileInv, FilesIntact
(***************************************************************************)
(* The inductive invariant holds                                           *)
(***************************************************************************)
LEMMA InitFile == Init => FileInv
<1> SUFFICES ASSUME Init PROVE FileInv
  OBVIOUS
<1>1. \A d \in Descriptor : ~ fdTable[d].InUse
  BY DEF Init, ZeroDescriptor
<1>2. \A v \in Device : Slots(Live(v)) = {}
  <2>1. EmptyFat.NumberOfFiles = 0 /\ ZeroTable.FreeMemoryPointer = 0
    BY DEF EmptyFat, ZeroTable
  <2>2. \A v \in Device : Live(v) = EmptyFat
    BY <2>1 DEF Init, Live, Loaded
  <2> QED BY <2>1, <2>2 DEF Slots
<1> QED BY <1>1, <1>2
        DEF FileInv, FilesIntact, HeadersFit, NamesDiffer, DescriptorsFit, SharingSafe, SameFile

\* EEFS_LibOpen and EEFS_LibCreat preserve FileInv.
LEMMA OpenStep ==
  ASSUME FlagsSeparateCreat, FlagsSeparateWriters, TypeOK, TableInv, FileInv,
         TypeOK', TableInv', NEW v \in Device, NEW n \in Filename,
         \/ \E Flags \in CallerFlags : LibOpen(v, n, Flags)
         \/ \E Attributes \in {NONE, READONLY} : LibCreat(v, n, Attributes)
  PROVE  FileInv'
<1> DEFINE i == FindFile(v, n)
<1>1. \/ /\ i # FILE_NOT_FOUND
         /\ \E Flags \in CallerFlags \cup {CreatFlags} : LibOpenFile(v, i, Flags)
      \/ /\ i = FILE_NOT_FOUND
         /\ \E Attributes \in {NONE, READONLY} : LibCreatFile(v, n, Attributes)
  BY DEF LibOpen, LibCreat
<1>2. i # FILE_NOT_FOUND => i \in Slots(inode[v]) /\ Header(v, i).InUse
  BY FindFileResult
<1> HIDE DEF i
<1>3. CASE i # FILE_NOT_FOUND
  <2>1. \A Flags \in CallerFlags \cup {CreatFlags} : FlagsSafe(Flags)
    BY DEF FlagsSeparateCreat, FlagsSeparateWriters, FlagsSafe
  <2> QED BY <1>1, <1>2, <1>3, <2>1, OpenFileStep
<1>4. CASE i = FILE_NOT_FOUND
  BY <1>1, <1>4, CreatFileStep DEF i
<1> QED BY <1>3, <1>4

\* EEFS_LibClose preserves FileInv.
LEMMA CloseStep ==
  ASSUME TypeOK, TableInv, FileInv, TypeOK', TableInv', NEW d \in Descriptor, LibClose(d)
  PROVE  FileInv'
<1>1. fdTable[d].InUse /\ FreeFileDescriptor(d)
  BY DEF LibClose, IsValidFileDescriptor
<1>2. CASE CloseCreated(d)
  BY <1>1, <1>2, CloseCreatedStep
<1>3. CASE CloseWritten(d)
  BY <1>1, <1>3, CloseWrittenStep
<1>4. CASE CloseRead(d)
  BY <1>1, <1>4, ClosedIsFreed, NothingStored DEF CloseRead, image
<1> QED BY <1>2, <1>3, <1>4 DEF LibClose

LEMMA NextFile ==
  ASSUME FlagsSeparateCreat, FlagsSeparateWriters
  PROVE  TypeOK /\ TableInv /\ FileInv /\ [Next]_vars => FileInv'
<1> SUFFICES ASSUME TypeOK, TableInv, FileInv, [Next]_vars PROVE FileInv'
  OBVIOUS
<1>1. TypeOK' /\ TableInv'
  BY NextType, NextTable
<1>2. CASE Reset \/ \E d \in Descriptor : ResetDuringClose(d)
  BY <1>2, ResetStep, ResetDuringCloseStep
<1>3. ASSUME NEW v \in Device, (~ Loaded(v) /\ LibInitFS(v)) \/ LibFreeFS(v)
      PROVE  FileInv'
  BY <1>3, InitFSStep, FreeFSStep
<1>4. ASSUME NEW v \in Device, NEW n \in Filename,
             \/ \E Flags \in CallerFlags : LibOpen(v, n, Flags)
             \/ \E Attributes \in {NONE, READONLY} : LibCreat(v, n, Attributes)
      PROVE  FileInv'
  BY <1>1, <1>4, OpenStep
<1>5. ASSUME NEW v \in Device, NEW n \in Filename,
             \/ LibRemove(v, n)
             \/ \E new \in Filename : LibRename(v, n, new)
             \/ \E Attributes \in {NONE, READONLY} : LibSetFileAttributes(v, n, Attributes)
      PROVE  FileInv'
  BY <1>5, RemoveStep, RenameStep, SetAttributesStep
<1>6. ASSUME NEW d \in Descriptor, LibClose(d)
      PROVE  FileInv'
  BY <1>1, <1>6, CloseStep
<1>7. ASSUME NEW d \in Descriptor, NEW Length \in Lengths,
             LibRead(d, Length) \/ \E b \in Byte : LibWrite(d, Length, b)
      PROVE  FileInv'
  BY <1>7, ReadStep, WriteStep
<1>8. ASSUME NEW d \in Descriptor, NEW offset \in SeekOffsets, NEW origin \in Origin,
             LibLSeek(d, offset, origin)
      PROVE  FileInv'
  BY <1>8, SeekStep
<1>9. CASE (\E v \in Device : LibOpenDir(v)) \/ LibReadDir \/ LibCloseDir
  <2>1. eeprom' = eeprom /\ fat' = fat /\ inode' = inode /\ fdTable' = fdTable
    BY <1>9 DEF LibOpenDir, LibReadDir, LibCloseDir, image
  <2> QED BY <2>1, NothingStored DEF FreedOrKept
<1>10. CASE UNCHANGED vars
  BY <1>10, NothingStored DEF vars, FreedOrKept
<1> QED BY <1>2, <1>3, <1>4, <1>5, <1>6, <1>7, <1>8, <1>9, <1>10 DEF Next

(***************************************************************************)
(* What the invariant means                                                *)
(***************************************************************************)
\* A descriptor of the invariant stays inside its file.
LEMMA BoundsFollow == FileInv => DescriptorsInBounds
BY DEF FileInv, DescriptorsFit, DescriptorFits, DescriptorsInBounds

\* The headers of the invariant have different names.
LEMMA NamesFollow == TypeOK /\ TableInv /\ FileInv => UniqueNames
BY SlotHeader DEF UniqueNames

\* Descriptors of the invariant share no file for writing.
LEMMA ProtectionFollows == TypeOK /\ TableInv /\ FileInv => OpenFilesProtected
<1> SUFFICES ASSUME TypeOK, TableInv, FileInv, NEW d \in Descriptor, fdTable[d].InUse
             PROVE  LET f == fdTable[d]
                    IN  /\ f.InodeIndex \in Slots(inode[f.InodeTable])
                        /\ Header(f.InodeTable, f.InodeIndex).InUse
                        /\ FWRITE \in f.Mode => \A e \in Descriptor \ {d} :
                             ~ /\ fdTable[e].InUse /\ FWRITE \in fdTable[e].Mode
                               /\ fdTable[e].InodeTable = f.InodeTable
                               /\ fdTable[e].InodeIndex = f.InodeIndex
  BY DEF OpenFilesProtected
<1>1. /\ fdTable[d].InodeTable \in Device
      /\ fdTable[d].InodeIndex \in Slots(inode[fdTable[d].InodeTable])
  BY OpenSlotIsLive DEF FileInv
<1>2. Header(fdTable[d].InodeTable, fdTable[d].InodeIndex).InUse
  BY <1>1, SlotHeader
<1>3. ASSUME NEW e \in Descriptor \ {d}, SameFile(fdTable[d], fdTable[e])
      PROVE  ~ (FWRITE \in fdTable[d].Mode /\ FWRITE \in fdTable[e].Mode)
  BY <1>3 DEF FileInv, SharingSafe, Compatible
<1> QED BY <1>1, <1>2, <1>3 DEF SameFile

\* The image of the invariant can be mounted.
LEMMA ImageFollows == TypeOK /\ TableInv /\ FileInv => MountableImage
<1> SUFFICES ASSUME TypeOK, TableInv, FileInv, NEW v \in Device
             PROVE  /\ fat[v].NumberOfFiles <= MaxFiles
                    /\ FatTiled(v)
                    /\ HeadersFit(eeprom[v], fat[v]) /\ NamesDiffer(eeprom[v], fat[v])
  BY DEF MountableImage, FatTiled, HeadersFit, NamesDiffer, HeaderIn, SlotStart
<1>1. FatTiled(v)
  BY DEF TableInv, DeviceInv
<1>2. /\ fat[v].NumberOfFiles <= MaxFiles
      /\ \A i \in Slots(fat[v]) : i \in Slots(Live(v)) /\ fat[v].File[i] = Live(v).File[i]
  BY FatIsPartOfLive, SizesAssumption DEF Table
<1>3. HeadersFit(eeprom[v], Live(v)) /\ NamesDiffer(eeprom[v], Live(v))
  BY DEF FileInv, FilesIntact
<1> QED BY <1>1, <1>2, <1>3, FewerSlots

\* The descriptors of the invariant are those of the names in their headers.
LEMMA StatsFollow == TypeOK /\ TableInv /\ FileInv => StatsAgree
<1> SUFFICES ASSUME TypeOK, TableInv, FileInv, NEW d \in Descriptor, fdTable[d].InUse
             PROVE  LibStat(fdTable[d].InodeTable, LibFstat(d).Filename) = LibFstat(d)
  BY DEF StatsAgree
<1> DEFINE v == fdTable[d].InodeTable
           i == fdTable[d].InodeIndex
<1>1. v \in Device /\ i \in Slots(inode[v]) /\ fdTable[d].FileHeaderPointer = SlotStart(inode[v], i)
  BY OpenDescriptor
<1>2. Header(v, i) = HeaderAt(eeprom[v], fdTable[d].FileHeaderPointer) /\ Header(v, i).InUse
  BY <1>1, SlotHeader DEF HeaderIn
<1>3. LibFstat(d) = StatOf(i, Header(v, i)) /\ LibFstat(d).Filename = Header(v, i).Filename
  BY <1>2 DEF LibFstat, StatOf
<1> HIDE DEF v, i
<1>4. FindFile(v, Header(v, i).Filename) = i
  BY <1>1, <1>2, FindFileResult, SlotHeader
<1>5. i # FILE_NOT_FOUND
  BY <1>1, SlotsAreIndices
<1> QED BY <1>3, <1>4, <1>5 DEF LibStat, v

(***************************************************************************)
(* The theorems                                                            *)
(***************************************************************************)
\* Files, descriptors and those that share a file stay in order through every sequence of
\* calls and resets.
THEOREM FilesStayIntact ==
  ASSUME FlagsSeparateCreat, FlagsSeparateWriters
  PROVE  Spec => []FileInv
<1>1. TypeOK /\ TableInv /\ FileInv /\ [Next]_vars => FileInv'
  BY NextFile
<1>2. Spec => []TableInv
  BY TablesAgree
<1> QED BY <1>1, <1>2, InitFile, TypeCorrect, PTL DEF Spec

\* A descriptor never leaves its file, although EEFS_LibClose shrinks the slot of a created
\* file under those that read it.
THEOREM DescriptorsStayInBounds ==
  ASSUME FlagsSeparateCreat, FlagsSeparateWriters
  PROVE  Spec => []DescriptorsInBounds
<1>1. Spec => []FileInv
  BY FilesStayIntact
<1> QED BY BoundsFollow, <1>1, PTL

\* No two files of a device ever have the same name, whatever is created and renamed.
THEOREM NamesStayUnique ==
  ASSUME FlagsSeparateCreat, FlagsSeparateWriters
  PROVE  Spec => []UniqueNames
<1>1. Spec => []FileInv /\ []TableInv
  BY FilesStayIntact, TablesAgree
<1> QED BY NamesFollow, <1>1, TypeCorrect, PTL

\* "files cannot be opened more than once for shared write access", and an open file is
\* never removed.
THEOREM OpenFilesAreProtected ==
  ASSUME FlagsSeparateCreat, FlagsSeparateWriters
  PROVE  Spec => []OpenFilesProtected
<1>1. Spec => []FileInv /\ []TableInv
  BY FilesStayIntact, TablesAgree
<1> QED BY ProtectionFollows, <1>1, TypeCorrect, PTL

\* Whatever instant a reset strikes at, EEFS_LibInitFS finds a consistent image.
THEOREM ImageStaysMountable ==
  ASSUME FlagsSeparateCreat, FlagsSeparateWriters
  PROVE  Spec => []MountableImage
<1>1. Spec => []FileInv /\ []TableInv
  BY FilesStayIntact, TablesAgree
<1> QED BY ImageFollows, <1>1, TypeCorrect, PTL

\* EEFS_LibFstat of an open file and EEFS_LibStat of its name tell the same.
THEOREM StatsAlwaysAgree ==
  ASSUME FlagsSeparateCreat, FlagsSeparateWriters
  PROVE  Spec => []StatsAgree
<1>1. Spec => []FileInv /\ []TableInv
  BY FilesStayIntact, TablesAgree
<1> QED BY StatsFollow, <1>1, TypeCorrect, PTL
(***************************************************************************)
(* Who changes the data of a file                                          *)
(***************************************************************************)
\* A step in which the data of every file in the allocation tables stays as it is.
DataCells(t, i) == SlotStart(t, i) + HeaderSize .. SlotEnd(t, i) - 1
DataStays ==
  \A v \in Device : \A i \in Slots(fat[v]) :
    \A a \in DataCells(fat[v], i) : eeprom'[v][a] = eeprom[v][a]

\* The data cells of a file in the allocation table are cells of the same slot of the table
\* with all the slots, below the free memory.
LEMMA DataCellsInSlot ==
  ASSUME TypeOK, TableInv, NEW v \in Device, NEW i \in Slots(fat[v]), NEW a \in DataCells(fat[v], i)
  PROVE  /\ IsTiled(Live(v)) /\ i \in Slots(Live(v)) /\ a \in Address
         /\ SlotStart(Live(v), i) + HeaderSize <= a /\ a < SlotEnd(Live(v), i)
         /\ a < fat[v].FreeMemoryPointer /\ fat[v].FreeMemoryPointer \in Nat
<1>1. IsTiled(Live(v)) /\ i \in Slots(Live(v)) /\ Live(v).File[i] = fat[v].File[i]
  BY LiveTiled, FatIsPartOfLive DEF LiveIsTiled
<1>2. /\ SlotStart(Live(v), i) \in Nat /\ FatSize <= SlotStart(Live(v), i)
      /\ SlotEnd(Live(v), i) <= DeviceSize
      /\ Live(v).File[i].MaxFileSize \in Nat
      /\ SlotEnd(Live(v), i) = SlotStart(Live(v), i) + HeaderSize + Live(v).File[i].MaxFileSize
  BY <1>1, TiledSlots
<1>3. /\ SlotStart(fat[v], i) = SlotStart(Live(v), i) /\ SlotEnd(fat[v], i) = SlotEnd(Live(v), i)
      /\ SlotEnd(fat[v], i) <= fat[v].FreeMemoryPointer /\ fat[v].FreeMemoryPointer \in Nat
  <2>1. FatTiled(v) /\ fat[v] \in Table
    BY DEF TypeOK, TableInv, DeviceInv
  <2> QED BY <1>1, <2>1 DEF FatTiled, Tiled, Slots, SlotStart, SlotEnd, Table
<1> QED BY <1>1, <1>2, <1>3, SizesAssumption DEF DataCells, Address

\* A step that writes one header at a of device v.
WritesHeaderAt(v, a, h) == eeprom' = [eeprom EXCEPT ![v] = WriteHeader(@, a, h)]

\* Writing the header of a slot, or one in the free memory, changes no file's data.
LEMMA HeaderIsNoData ==
  ASSUME TypeOK, TableInv, NEW v \in Device, NEW p, NEW h, WritesHeaderAt(v, p, h),
         \/ \E j \in Slots(Live(v)) : p = SlotStart(Live(v), j)
         \/ p = fat[v].FreeMemoryPointer
  PROVE  DataStays
<1> SUFFICES ASSUME NEW u \in Device, NEW i \in Slots(fat[u]), NEW a \in DataCells(fat[u], i)
             PROVE  eeprom'[u][a] = eeprom[u][a]
  BY DEF DataStays
<1>1. /\ eeprom[v] \in [Address -> Cell] /\ eeprom'[v] = WriteHeader(eeprom[v], p, h)
      /\ \A w \in Device \ {v} : eeprom'[w] = eeprom[w]
  BY DEF TypeOK, WritesHeaderAt
<1>2. CASE u # v
  BY <1>1, <1>2
<1>3. CASE u = v
  <2>1. /\ IsTiled(Live(v)) /\ i \in Slots(Live(v)) /\ a \in Address
        /\ SlotStart(Live(v), i) + HeaderSize <= a /\ a < SlotEnd(Live(v), i)
        /\ a < fat[v].FreeMemoryPointer /\ fat[v].FreeMemoryPointer \in Nat
    BY <1>3, DataCellsInSlot
  <2>2. p \in Nat /\ ~ (p <= a /\ a < p + HeaderSize)
    <3>1. CASE p = fat[v].FreeMemoryPointer
      BY <2>1, <3>1, SizesAssumption DEF Address
    <3>2. CASE \E j \in Slots(Live(v)) : p = SlotStart(Live(v), j)
      BY <2>1, <3>2, DataIsNoHeader, TiledSlots
    <3> QED BY <3>1, <3>2
  <2>3. a < p \/ p + HeaderSize <= a
    BY <2>1, <2>2, SizesAssumption DEF Address
  <2> QED BY <1>1, <1>3, <2>1, <2>2, <2>3, HeaderWriteKeeps
<1> QED BY <1>2, <1>3

\* What DataChangesByItsWriter says of a step.
DataChangesByWriter ==
  \A v \in Device : \A i \in Slots(fat[v]) :
    (\E a \in DataCells(fat[v], i) : eeprom'[v][a] # eeprom[v][a])
    => \E d \in OpenOn(v) :
         /\ fdTable[d].InodeIndex = i /\ FWRITE \in fdTable[d].Mode
         /\ fdTable'[d].ByteOffset > fdTable[d].ByteOffset

\* EEFS_LibWrite changes the data of the file that its descriptor is open on, and then
\* it moves the descriptor forward.
LEMMA WriteChangesOwnData ==
  ASSUME TypeOK, TableInv, FileInv, NEW d \in Descriptor, NEW Length \in Lengths,
         NEW b \in Byte, LibWrite(d, Length, b)
  PROVE  DataChangesByWriter
<1> DEFINE f == fdTable[d]
           n == BytesToWrite(f, Length)
<1> SUFFICES ASSUME NEW v \in Device, NEW i \in Slots(fat[v]), NEW a \in DataCells(fat[v], i),
                    eeprom'[v][a] # eeprom[v][a]
             PROVE  /\ d \in OpenOn(v) /\ f.InodeIndex = i /\ FWRITE \in f.Mode
                    /\ fdTable'[d].ByteOffset > f.ByteOffset
  BY DEF DataChangesByWriter
<1>1. f.InUse /\ FWRITE \in f.Mode
  BY DEF LibWrite, IsValidFileDescriptor
<1>2. /\ IsTiled(Live(v)) /\ i \in Slots(Live(v)) /\ a \in Address
      /\ SlotStart(Live(v), i) + HeaderSize <= a /\ a < SlotEnd(Live(v), i)
  BY DataCellsInSlot
<1>3. f.InodeTable = v
  BY WrittenCells
<1>4. /\ n \in Nat /\ n > 0
      /\ SlotStart(inode[v], f.InodeIndex) + HeaderSize <= a
      /\ a < SlotEnd(inode[v], f.InodeIndex)
  BY <1>2, <1>3, WrittenCells
<1>5. /\ Live(v) = inode[v] /\ f.InodeIndex \in Slots(inode[v])
      /\ f \in FileDescriptor /\ f.ByteOffset \in Nat
  BY <1>1, <1>3, OpenDescriptor
<1>6. fdTable'[d].ByteOffset = f.ByteOffset + n
  <2>1. fdTable'[d].ByteOffset =
          [f EXCEPT !.FileDataPointer = @ + n, !.ByteOffset = @ + n,
                    !.FileSize = IF f.ByteOffset + n > @ THEN f.ByteOffset + n ELSE @].ByteOffset
    BY DEF LibWrite, TypeOK
  <2> HIDE DEF n
  <2> QED BY <1>5, <2>1 DEF FileDescriptor
<1> HIDE DEF n, f
<1>7. f.InodeIndex = i
  <2> SUFFICES ASSUME f.InodeIndex # i PROVE FALSE
    OBVIOUS
  <2> DEFINE j == f.InodeIndex
             t == inode[v]
  <2>1. /\ SlotStart(t, i) \in Nat /\ SlotStart(t, j) \in Nat /\ a \in Int
        /\ t.File[i].MaxFileSize \in Nat /\ t.File[j].MaxFileSize \in Nat
        /\ SlotEnd(t, i) = SlotStart(t, i) + HeaderSize + t.File[i].MaxFileSize
        /\ SlotEnd(t, j) = SlotStart(t, j) + HeaderSize + t.File[j].MaxFileSize
        /\ SlotEnd(t, i) <= SlotStart(t, j) \/ SlotEnd(t, j) <= SlotStart(t, i)
    BY <1>2, <1>5, TiledSlots, SizesAssumption DEF Address
  <2> QED BY <1>2, <1>4, <1>5, <2>1, SizesAssumption
<1> QED BY <1>1, <1>3, <1>4, <1>5, <1>6, <1>7 DEF OpenOn, f

\* EEFS_LibCreatFile writes its header into the free memory.
LEMMA CreatChangesNoData ==
  ASSUME TypeOK, TableInv, NEW v \in Device, NEW n, NEW Attributes,
         LibCreatFile(v, n, Attributes)
  PROVE  DataStays
<1>1. Loaded(v)
  BY CreatedSlot
<1>2. inode[v].FreeMemoryPointer = fat[v].FreeMemoryPointer
  BY <1>1 DEF TableInv, DeviceInv, InodeFollowsFat
<1>3. \E h : WritesHeaderAt(v, inode[v].FreeMemoryPointer, h)
  BY DEF LibCreatFile, WritesHeaderAt
<1> QED BY <1>2, <1>3, HeaderIsNoData

\* The operations on names write the header of a slot.
LEMMA NameOperationChangesNoData ==
  ASSUME TypeOK, TableInv, NEW v \in Device, NEW i \in Slots(inode[v]), NEW h,
         StoreHeader(v, i, h)
  PROVE  DataStays
<1>1. Live(v) = inode[v]
  BY SlotIsLive
<1>2. WritesHeaderAt(v, SlotStart(inode[v], i), h)
  BY DEF StoreHeader, WritesHeaderAt, SlotStart
<1> QED BY <1>1, <1>2, HeaderIsNoData

\* So does EEFS_LibClose, however far it gets.
LEMMA CloseChangesNoData ==
  ASSUME TypeOK, TableInv, FileInv, NEW d \in Descriptor, LibClose(d) \/ ResetDuringClose(d)
  PROVE  DataStays
<1>1. fdTable[d].InUse
  BY DEF LibClose, ResetDuringClose, IsValidFileDescriptor
<1>2. PICK v \in Device : v = fdTable[d].InodeTable
  BY <1>1, OpenDescriptor
<1>3. PICK h : StoreFileSize(eeprom[v], d)
               = WriteHeader(eeprom[v], SlotStart(inode[v], fdTable[d].InodeIndex), h)
  BY <1>1, <1>2, StoredSize
<1>4. Live(v) = inode[v] /\ fdTable[d].InodeIndex \in Slots(inode[v])
  BY <1>1, <1>2, OpenDescriptor
<1>5. CASE eeprom' = eeprom
  BY <1>5 DEF DataStays
<1>6. CASE eeprom' # eeprom
  <2>1. eeprom' = [eeprom EXCEPT ![v] = StoreFileSize(eeprom[v], d)]
    BY <1>2, <1>6 DEF LibClose, CloseCreated, CloseWritten, CloseRead, ResetDuringClose, image
  <2>2. WritesHeaderAt(v, SlotStart(inode[v], fdTable[d].InodeIndex), h)
    BY <1>3, <2>1 DEF WritesHeaderAt
  <2> QED BY <1>4, <2>2, HeaderIsNoData
<1> QED BY <1>5, <1>6
\* The data of a file changes only in a step that moves forward a descriptor open on that
\* file for writing: no close, rename, removal, mount or reset touches it.
THEOREM DataChangesOnlyByItsWriter ==
  ASSUME FlagsSeparateCreat, FlagsSeparateWriters
  PROVE  Spec => DataChangesByItsWriter
<1>1. TypeOK /\ TableInv /\ FileInv /\ [Next]_vars => [DataChangesByWriter]_vars
  <2> SUFFICES ASSUME TypeOK, TableInv, FileInv, Next PROVE DataChangesByWriter
    OBVIOUS
  <2>1. DataStays => DataChangesByWriter
    BY DEF DataStays, DataChangesByWriter
  <2>2. CASE eeprom' = eeprom
    BY <2>1, <2>2 DEF DataStays
  <2>3. ASSUME NEW v \in Device, NEW n \in Filename,
               \/ \E Flags \in CallerFlags : LibOpen(v, n, Flags)
               \/ \E Attributes \in {NONE, READONLY} : LibCreat(v, n, Attributes)
        PROVE  DataChangesByWriter
    <3>1. (\E i, Flags : LibOpenFile(v, i, Flags)) \/ \E Attributes : LibCreatFile(v, n, Attributes)
      BY <2>3 DEF LibOpen, LibCreat
    <3>2. CASE \E i, Flags : LibOpenFile(v, i, Flags)
      BY <2>2, <3>2 DEF LibOpenFile, image
    <3> QED BY <2>1, <3>1, <3>2, CreatChangesNoData
  <2>4. ASSUME NEW v \in Device, NEW n \in Filename,
               \/ LibRemove(v, n)
               \/ \E new \in Filename : LibRename(v, n, new)
               \/ \E Attributes \in {NONE, READONLY} : LibSetFileAttributes(v, n, Attributes)
        PROVE  DataChangesByWriter
    <3>1. FindFile(v, n) \in Slots(inode[v]) /\ \E h : StoreHeader(v, FindFile(v, n), h)
      BY <2>4, FindFileResult DEF LibRemove, LibRename, LibSetFileAttributes
    <3> QED BY <2>1, <3>1, NameOperationChangesNoData
  <2>5. ASSUME NEW d \in Descriptor, LibClose(d) \/ ResetDuringClose(d)
        PROVE  DataChangesByWriter
    BY <2>1, <2>5, CloseChangesNoData
  <2>6. ASSUME NEW d \in Descriptor, NEW Length \in Lengths, NEW b \in Byte, LibWrite(d, Length, b)
        PROVE  DataChangesByWriter
    BY <2>6, WriteChangesOwnData
  <2>7. ASSUME \/ Reset \/ LibReadDir \/ LibCloseDir
               \/ \E v \in Device : LibInitFS(v) \/ LibFreeFS(v) \/ LibOpenDir(v)
               \/ \E d \in Descriptor, Length \in Lengths : LibRead(d, Length)
               \/ \E d \in Descriptor, offset \in SeekOffsets, origin \in Origin :
                    LibLSeek(d, offset, origin)
        PROVE  DataChangesByWriter
    BY <2>2, <2>7 DEF Reset, LibReadDir, LibCloseDir, LibInitFS, LibFreeFS, LibOpenDir, LibRead,
                      LibLSeek, image
  <2> QED BY <2>3, <2>4, <2>5, <2>6, <2>7 DEF Next
<1>2. Spec => []FileInv /\ []TableInv
  BY FilesStayIntact, TablesAgree
<1> QED BY <1>1, <1>2, TypeCorrect, PTL
        DEF Spec, DataChangesByItsWriter, DataChangesByWriter, DataCells
=============================================================================
