----------------------------- MODULE BootProofs -----------------------------
(***************************************************************************)
(* Theorems about Boot, for every layout of memory that LayoutAssumption   *)
(* allows and every disk whose kernel files are linked behind the memory   *)
(* of the hardware: the loader stays intact, the kernel takes over the     *)
(* memory behind it, and it is the kernel of the disk that is started.     *)
(*                                                                         *)
(* LoaderIntact is not inductive alone: the setup program arrives sector   *)
(* by sector, what a read writes depends on elf_load_ptr, which never      *)
(* falls below the start of the area for the file, and what a segment      *)
(* writes on the volume that its header was found on.                      *)
(***************************************************************************)
EXTENDS Boot, Basics

(* The setup program as far as it is loaded, and the rest of what the      *)
(* loader must keep                                                        *)
SetupLoaded(n) == \A i \in 0 .. n - 1 : mem[SetupAt + i] = Sector(1 + i)
Kept == /\ mem[MbrAt] = Sector(0)
        /\ \A u \in HwMap .. HwEnd - 1 : mem[u] = <<"hw">>

WithVolume == {"volume", "root", "load", "segments", "kernel", "paging", "running"}

IInv ==
  /\ DOMAIN mem = Unit
  /\ disk \in Disks
  /\ index \in Nat
  /\ elf_load_ptr \in Nat /\ elf_load_ptr >= LoadAt
  /\ stage = "bootsect" => index < SetupSize /\ SetupLoaded(index) /\ Kept
  /\ stage = "segments" => index >= 1
  /\ stage \notin {"bootsect", "running"} => SetupLoaded(SetupSize) /\ Kept
  /\ stage \in WithVolume => part \in DOMAIN disk.volumes

(* What the loader keeps lies below the hardware's end, apart from the     *)
(* arguments and the area for the file.                                    *)
LEMMA Layout ==
  /\ \A i \in 0 .. SetupSize - 1 : SetupAt + i \in Unit /\ SetupAt + i > ArgsAt /\ SetupAt + i < MbrAt
  /\ MbrAt \in Unit /\ MbrAt > ArgsAt /\ MbrAt < LoadAt
  /\ \A u \in HwMap .. HwEnd - 1 : u \in Unit /\ u > LoadAt
  /\ LoadAt < HwMap /\ HwMap < HwEnd
  /\ LowTest \in Unit /\ LowTest >= LoadAt /\ LowTest < HwMap /\ HighTest >= HwEnd
  /\ SetupSize \in Nat /\ SetupSize > 0
  /\ {ArgsAt, SetupAt, MbrAt, LoadAt, HwMap, HwEnd, LowTest, HighTest, MemSize} \subseteq Nat
BY LayoutAssumption DEF Unit

(* A change of memory that leaves alone what the loader keeps              *)
Spares(m) ==
  /\ DOMAIN m = Unit
  /\ \A u \in Unit : (u \in HwMap .. HwEnd - 1 \/ u = MbrAt \/ u \in SetupAt .. SetupAt + SetupSize - 1)
                     => m[u] = mem[u]

LEMMA SparedIsKept ==
  ASSUME Kept, SetupLoaded(SetupSize), Spares(mem')
  PROVE  Kept' /\ SetupLoaded(SetupSize)'
PROOF
  <1>1. \A i \in 0 .. SetupSize - 1 : SetupAt + i \in SetupAt .. SetupAt + SetupSize - 1
    BY Layout
  <1> QED BY <1>1, Layout DEF Kept, SetupLoaded, Spares, Sector

LEMMA InitIInv == Init => IInv
PROOF
  <1> SUFFICES ASSUME Init PROVE IInv
    OBVIOUS
  <1>1. Kept
    BY Layout DEF Init, Kept, Unit
  <1> QED BY <1>1, Layout DEF Init, IInv, WithVolume, SetupLoaded, Unit

LEMMA LoadSetupStep == IInv /\ LoadSetup => IInv'
PROOF
  <1> SUFFICES ASSUME IInv, LoadSetup PROVE IInv'
    OBVIOUS
  <1>1. /\ DOMAIN mem' = Unit
        /\ index < SetupSize /\ SetupLoaded(index) /\ Kept
        /\ mem' = [mem EXCEPT ![SetupAt + index] = Sector(index + 1)]
    BY DEF IInv, WithVolume, LoadSetup
  <1>2. SetupAt + index \in Unit /\ SetupAt + index < MbrAt /\ index \in 0 .. SetupSize - 1
    BY <1>1, Layout DEF IInv, WithVolume
  <1>3. Kept'
    BY <1>1, <1>2, Layout DEF Kept, IInv, WithVolume
  <1>4. \A i \in 0 .. index : mem'[SetupAt + i] = Sector(1 + i)
    <2> SUFFICES ASSUME NEW i \in 0 .. index PROVE mem'[SetupAt + i] = Sector(1 + i)
      OBVIOUS
    <2>1. CASE i = index
      BY <1>1, <1>2, <2>1 DEF IInv, WithVolume
    <2>2. CASE i # index
      <3>1. i \in 0 .. index - 1 /\ SetupAt + i \in Unit /\ SetupAt + i # SetupAt + index
        BY <1>1, <1>2, <2>2, Layout DEF IInv, WithVolume
      <3> QED BY <1>1, <3>1 DEF SetupLoaded, IInv, WithVolume
    <2> QED BY <2>1, <2>2
  <1>5. /\ index' = IF index + 1 = SetupSize THEN 0 ELSE index + 1
        /\ index + 1 <= SetupSize
    <2>1. \A n \in Nat : \A m \in Nat \ {0} : n < m => n % m = n
      OBVIOUS
    <2>2. \A m \in Nat \ {0} : m % m = 0
      OBVIOUS
    <2>3. index' = (index + 1) % SetupSize
      BY DEF LoadSetup
    <2>4. index \in Nat /\ SetupSize \in Nat \ {0}
      BY Layout DEF IInv, WithVolume
    <2> QED BY <1>1, <2>1, <2>2, <2>3, <2>4
  <1>6. /\ disk' = disk /\ elf_load_ptr' = elf_load_ptr
        /\ stage' = IF index + 1 = SetupSize THEN "setup" ELSE "bootsect"
    BY DEF LoadSetup
  <1>7. DOMAIN mem' = Unit
    BY <1>1
  <1>8. CASE index + 1 = SetupSize
    <2>1. SetupSize = index + 1 /\ index \in Nat /\ index' = 0 /\ stage' = "setup"
      BY <1>5, <1>6, <1>8, Layout DEF IInv, WithVolume
    <2>2. SetupLoaded(SetupSize)'
      <3>1. \A i \in 0 .. SetupSize - 1 : mem'[SetupAt + i] = Sector(1 + i)
        BY <1>4, <2>1
      <3> QED BY <3>1 DEF SetupLoaded
    <2> QED BY <1>3, <1>6, <1>7, <2>1, <2>2 DEF IInv, WithVolume
  <1>9. CASE index + 1 # SetupSize
    <2>1. index \in Nat /\ index' = index + 1 /\ index' < SetupSize /\ index' \in Nat /\ stage' = "bootsect"
      BY <1>5, <1>6, <1>9, Layout DEF IInv, WithVolume
    <2>2. SetupLoaded(index)'
      <3>1. \A i \in 0 .. index' - 1 : mem'[SetupAt + i] = Sector(1 + i)
        BY <1>4, <2>1
      <3> QED BY <3>1 DEF SetupLoaded
    <2> QED BY <1>3, <1>6, <1>7, <2>1, <2>2 DEF IInv, WithVolume
  <1> QED BY <1>8, <1>9

(* Every later step writes memory that the loader can spare, or none.       *)
LEMMA TestA20Step == IInv /\ TestA20 => IInv'
PROOF
  <1> SUFFICES ASSUME IInv, TestA20 PROVE IInv'
    OBVIOUS
  <1>1. Kept /\ SetupLoaded(SetupSize)
    BY DEF IInv, WithVolume, TestA20
  <1>2. Spares(mem')
    <2>1. DOMAIN mem = Unit /\ mem' = [mem EXCEPT ![LowTest] = Junk, ![HighTest] = IF a20 THEN Junk ELSE @]
      BY DEF IInv, WithVolume, TestA20
    <2>2. \A u \in Unit : (u \in HwMap .. HwEnd - 1 \/ u = MbrAt \/ u \in SetupAt .. SetupAt + SetupSize - 1)
                          => u # LowTest /\ u # HighTest
      BY LayoutAssumption, Layout DEF Unit
    <2> QED BY <2>1, <2>2 DEF Spares
  <1>3. Kept' /\ SetupLoaded(SetupSize)'
    BY <1>1, <1>2, SparedIsKept
  <1>4. stage' \in {"partition", "error"}
    BY DEF TestA20
  <1> QED BY <1>2, <1>3, <1>4 DEF IInv, WithVolume, TestA20, loader, Spares

(* A step of the loader that writes no memory                               *)
LEMMA QuietStep ==
  ASSUME IInv, stage \notin {"bootsect", "running"}, stage' \notin {"bootsect", "running"},
         mem' = mem, disk' = disk, index' \in Nat, elf_load_ptr' = elf_load_ptr,
         stage' = "segments" => index' >= 1,
         stage' \in WithVolume => part' \in DOMAIN disk.volumes
  PROVE  IInv'
BY DEF IInv, WithVolume, Kept, SetupLoaded

LEMMA FindPartitionStep == IInv /\ FindPartition => IInv'
PROOF
  <1> SUFFICES ASSUME IInv, FindPartition PROVE IInv'
    OBVIOUS
  <1>1. disk \in Disks /\ index \in Nat /\ index' = index /\ mem' = mem /\ disk' = disk
        /\ elf_load_ptr' = elf_load_ptr /\ stage = "partition"
    BY DEF IInv, WithVolume, FindPartition, Failed, loader
  <1>2. \/ stage' = "volume" /\ part' \in DOMAIN disk.volumes
        \/ stage' = "error"
    BY <1>1, DisksAssumption DEF FindPartition, Failed
  <1> QED BY <1>1, <1>2, QuietStep DEF WithVolume

LEMMA ReadVolumeStep == IInv /\ ReadVolume => IInv'
PROOF
  <1> SUFFICES ASSUME IInv, ReadVolume PROVE IInv'
    OBVIOUS
  <1>1. /\ stage = "volume" /\ mem' = mem /\ disk' = disk /\ elf_load_ptr' = elf_load_ptr
        /\ part' = part /\ index' \in Nat /\ stage' \in {"error", "root"}
    BY DEF IInv, WithVolume, ReadVolume, Failed, loader
  <1> QED BY <1>1, QuietStep DEF IInv, WithVolume

LEMMA FindKernelStep == IInv /\ FindKernel => IInv'
PROOF
  <1> SUFFICES ASSUME IInv, FindKernel PROVE IInv'
    OBVIOUS
  <1>1. /\ stage = "root" /\ mem' = mem /\ disk' = disk /\ elf_load_ptr' = elf_load_ptr
        /\ part' = part /\ index' \in Nat /\ stage' \in {"error", "root", "load"}
    BY DEF IInv, WithVolume, FindKernel, Failed, loader
  <1> QED BY <1>1, QuietStep DEF IInv, WithVolume

(* The file is written between the start of its area and the memory of the  *)
(* hardware.                                                                *)
LEMMA LoadSectorStep == IInv /\ LoadSector => IInv'
PROOF
  <1> SUFFICES ASSUME IInv, LoadSector PROVE IInv'
    OBVIOUS
  <1>1. stage = "load" /\ disk' = disk /\ part' = part /\ Kept /\ SetupLoaded(SetupSize)
    BY DEF IInv, WithVolume, LoadSector, Failed, loader
  <1>2. CASE Full(elf_load_ptr)
    <2>1. stage' = "error" /\ mem' = mem /\ elf_load_ptr' = elf_load_ptr /\ index' = index
      BY <1>2 DEF LoadSector, Failed, loader
    <2> QED BY <1>1, <2>1, QuietStep DEF IInv, WithVolume
  <1>3. CASE ~Full(elf_load_ptr)
    <2>1. /\ stage' = stage /\ elf_load_ptr' = elf_load_ptr + 1 /\ index' = index + 1
          /\ \E c : mem' = [mem EXCEPT ![elf_load_ptr] = c]
      BY <1>3 DEF LoadSector
    <2>2. \A u \in Unit : (u \in HwMap .. HwEnd - 1 \/ u = MbrAt \/ u \in SetupAt .. SetupAt + SetupSize - 1)
                          => u # elf_load_ptr
      <3>1. elf_load_ptr \in Nat /\ LoadAt <= elf_load_ptr /\ elf_load_ptr < HwMap
        BY <1>3, Layout DEF IInv, WithVolume, Full
      <3>2. \A u \in SetupAt .. SetupAt + SetupSize - 1 : u < MbrAt
        BY LayoutAssumption
      <3> QED BY <3>1, <3>2, Layout
    <2>3. Spares(mem')
      BY <2>1, <2>2 DEF Spares, IInv, WithVolume
    <2>4. Kept' /\ SetupLoaded(SetupSize)'
      BY <1>1, <2>3, SparedIsKept
    <2>5. elf_load_ptr' \in Nat /\ elf_load_ptr' >= LoadAt /\ index' \in Nat
      BY <2>1, Layout DEF IInv, WithVolume
    <2> QED BY <1>1, <2>1, <2>3, <2>4, <2>5 DEF IInv, WithVolume, Spares
  <1> QED BY <1>2, <1>3

LEMMA NextClusterStep == IInv /\ NextCluster => IInv'
PROOF
  <1> SUFFICES ASSUME IInv, NextCluster PROVE IInv'
    OBVIOUS
  <1>1. /\ stage = "load" /\ mem' = mem /\ disk' = disk /\ elf_load_ptr' = elf_load_ptr
        /\ part' = part /\ index' = 0 /\ stage' = stage
    BY DEF NextCluster
  <1> QED BY <1>1, QuietStep DEF IInv, WithVolume

LEMMA CheckMagicStep == IInv /\ CheckMagic => IInv'
PROOF
  <1> SUFFICES ASSUME IInv, CheckMagic PROVE IInv'
    OBVIOUS
  <1>1. /\ stage = "load" /\ mem' = mem /\ disk' = disk /\ elf_load_ptr' = elf_load_ptr
        /\ part' = part /\ index' \in Nat /\ stage' \in {"error", "segments"}
        /\ stage' = "segments" => index' = 1
    BY DEF IInv, WithVolume, CheckMagic, Failed, loader
  <1> QED BY <1>1, QuietStep DEF IInv, WithVolume

(* A segment lies behind the memory of the hardware.                        *)
LEMMA LoadSegmentStep == IInv /\ LoadSegment => IInv'
PROOF
  <1> SUFFICES ASSUME IInv, LoadSegment PROVE IInv'
    OBVIOUS
  <1>1. /\ stage = "segments" /\ stage' = stage /\ disk' = disk /\ part' = part
        /\ elf_load_ptr' = elf_load_ptr /\ index' = index + 1 /\ index \in Nat /\ index >= 1
        /\ Kept /\ SetupLoaded(SetupSize) /\ disk \in Disks /\ part \in DOMAIN disk.volumes
        /\ DOMAIN mem = Unit
    BY DEF IInv, WithVolume, LoadSegment, After
  <1>2. PICK elf \in Header :
          /\ index <= Len(elf)
          /\ LET s == elf[index] IN
             IF Skipped(s) THEN UNCHANGED <<mem, range>>
             ELSE /\ mem' = [u \in Unit |-> IF u \in s.paddr .. s.paddr + s.memsz - 1
                                            THEN Loaded(s, u) ELSE mem[u]]
                  /\ range' = <<Smaller(range[1], s.paddr), Larger(range[2], s.paddr + s.memsz)>>
    BY DEF LoadSegment
  <1>3. elf \in Seq(ProgramHeader) /\ elf[index] \in ProgramHeader /\ InHighMemory(elf[index])
    <2>1. PICK lba \in DOMAIN Volume.elf : elf = Volume.elf[lba]
      BY DEF Header, Sector
    <2>2. elf \in Seq(ProgramHeader) /\ \A i \in DOMAIN elf : InHighMemory(elf[i])
      BY <1>1, <2>1, DisksAssumption DEF Volume
    <2> QED BY <1>1, <1>2, <2>2
  <1>4. CASE Skipped(elf[index])
    <2>1. mem' = mem
      BY <1>2, <1>4
    <2> QED BY <1>1, <2>1, QuietStep
  <1>5. CASE ~Skipped(elf[index])
    <2> DEFINE s == elf[index]
    <2>1. mem' = [u \in Unit |-> IF u \in s.paddr .. s.paddr + s.memsz - 1 THEN Loaded(s, u) ELSE mem[u]]
      BY <1>2, <1>5
    <2>2. /\ s.paddr \in Nat /\ s.paddr >= HwEnd
      BY <1>3, <1>5 DEF InHighMemory, Skipped, ProgramHeader
    <2> HIDE DEF s
    <2>3. \A u \in Unit : (u \in HwMap .. HwEnd - 1 \/ u = MbrAt \/ u \in SetupAt .. SetupAt + SetupSize - 1)
                          => u < HwEnd /\ u \in Nat
      BY LayoutAssumption, Layout DEF Unit
    <2>4. Spares(mem')
      BY <1>1, <2>1, <2>2, <2>3, Layout DEF Spares
    <2>5. Kept' /\ SetupLoaded(SetupSize)'
      BY <1>1, <2>4, SparedIsKept
    <2> QED BY <1>1, <2>4, <2>5 DEF IInv, WithVolume, Spares
  <1> QED BY <1>4, <1>5

LEMMA EnterKernelStep == IInv /\ EnterKernel => IInv'
PROOF
  <1> SUFFICES ASSUME IInv, EnterKernel PROVE IInv'
    OBVIOUS
  <1>1. Kept /\ SetupLoaded(SetupSize) /\ stage' = "kernel"
    BY DEF IInv, WithVolume, EnterKernel
  <1>2. Spares(mem')
    <2>1. \A u \in Unit : (u \in HwMap .. HwEnd - 1 \/ u = MbrAt \/ u \in SetupAt .. SetupAt + SetupSize - 1)
                          => u # ArgsAt
      BY LayoutAssumption
    <2> QED BY <2>1 DEF IInv, WithVolume, EnterKernel, Spares
  <1>3. Kept' /\ SetupLoaded(SetupSize)'
    BY <1>1, <1>2, SparedIsKept
  <1> QED BY <1>1, <1>2, <1>3 DEF IInv, WithVolume, EnterKernel, loader, Spares

LEMMA InitPmuStep == IInv /\ InitPmu => IInv'
PROOF
  <1> SUFFICES ASSUME IInv, InitPmu PROVE IInv'
    OBVIOUS
  <1>1. /\ stage = "kernel" /\ mem' = mem /\ disk' = disk /\ elf_load_ptr' = elf_load_ptr
        /\ index' = index /\ part' = part /\ stage' \in {"panic", "paging"}
    BY DEF InitPmu, loader
  <1> QED BY <1>1, QuietStep DEF IInv, WithVolume

LEMMA InitPagesStep == IInv /\ InitPages => IInv'
PROOF
  <1> SUFFICES ASSUME IInv, InitPages PROVE IInv'
    OBVIOUS
  <1>1. /\ stage = "paging" /\ disk' = disk /\ elf_load_ptr' = elf_load_ptr /\ index' = index
        /\ part' = part
        /\ \/ stage' = "panic" /\ mem' = mem
           \/ stage' = "running" /\ DOMAIN mem' = Unit
    BY DEF InitPages, loader
  <1>2. CASE stage' = "panic" /\ mem' = mem
    BY <1>1, <1>2, QuietStep DEF IInv, WithVolume
  <1>3. CASE stage' = "running" /\ DOMAIN mem' = Unit
    BY <1>1, <1>3 DEF IInv, WithVolume
  <1> QED BY <1>1, <1>2, <1>3

LEMMA StutterStep == IInv /\ UNCHANGED vars => IInv'
BY DEF IInv, WithVolume, Kept, SetupLoaded, vars, loader

LEMMA NextIInv == IInv /\ [Next]_vars => IInv'
BY LoadSetupStep, TestA20Step, FindPartitionStep, ReadVolumeStep, FindKernelStep, LoadSectorStep,
   NextClusterStep, CheckMagicStep, LoadSegmentStep, EnterKernelStep, InitPmuStep, InitPagesStep,
   StutterStep DEF Next, Load, Stop

LEMMA IInvAlways == Spec => []IInv
BY InitIInv, NextIInv, PTL DEF Spec

-----------------------------------------------------------------------------
(***************************************************************************)
(* 2. What the kernel is told, and the pages that it takes over.           *)
(*                                                                         *)
(* The end of the kernel is a number only: that it is the end of the last  *)
(* segment holds along the loop over the program headers, which are read   *)
(* from memory, and from there to mem_init.                                *)
(***************************************************************************)

(* e is the end of the segments among the first n program headers          *)
EndsAt(elf, n, e) ==
  /\ \A i \in 1 .. n : ~Skipped(elf[i]) => elf[i].paddr + elf[i].memsz <= e
  /\ e = 0 \/ \E i \in 1 .. n : ~Skipped(elf[i]) /\ elf[i].paddr + elf[i].memsz = e

HInv ==
  /\ stage = "segments" =>
       /\ range = <<range[1], range[2]>> /\ range[2] \in Nat
       /\ \A elf \in Header : index - 1 <= Len(elf) /\ EndsAt(elf, index - 1, range[2])
  /\ stage \in {"kernel", "paging"} =>
       /\ kernel_addr_end \in Nat
       /\ \A elf \in Header : EndsAt(elf, Len(elf), kernel_addr_end)
  /\ stage = "paging" =>
       free = {p \in 0 .. MemSize \div PAGE - 1 : kernel_addr_end <= p * PAGE}
  /\ HandoverSafe

LEMMA HeaderIs ==
  ASSUME IInv, stage \in WithVolume, NEW elf \in Header
  PROVE  /\ elf \in Seq(ProgramHeader)
         /\ \A i \in 1 .. Len(elf) : elf[i] \in ProgramHeader /\ InHighMemory(elf[i])
PROOF
  <1>1. PICK lba \in DOMAIN Volume.elf : elf = Volume.elf[lba]
    BY DEF Header, Sector
  <1>2. elf \in Seq(ProgramHeader) /\ \A i \in DOMAIN elf : InHighMemory(elf[i])
    BY <1>1, DisksAssumption DEF Volume, IInv
  <1> QED BY <1>2

LEMMA SameHeader ==
  ASSUME mem'[LoadAt] = mem[LoadAt], disk' = disk, part' = part
  PROVE  Header' = Header
BY DEF Header, Volume

(* The units of the kernel lie below its end, and the last one next to it.  *)
LEMMA UnitsEnd ==
  ASSUME NEW elf \in Seq(ProgramHeader), NEW e \in Nat, EndsAt(elf, Len(elf), e)
  PROVE  /\ \A u \in UnitsIn(elf) : u \in Nat /\ u < e
         /\ e # 0 => e - 1 \in UnitsIn(elf)
PROOF
  <1>1. ASSUME NEW i \in 1 .. Len(elf)
        PROVE  elf[i].paddr \in Nat /\ elf[i].memsz \in Nat
    <2>1. elf[i] \in ProgramHeader
      OBVIOUS
    <2> QED BY <2>1 DEF ProgramHeader
  <1>2. ASSUME NEW u \in UnitsIn(elf)
        PROVE  u \in Nat /\ u < e
    <2>1. PICK i \in 1 .. Len(elf) : /\ elf[i].type = "LOAD" /\ elf[i].memsz > 0
                                     /\ u \in elf[i].paddr .. elf[i].paddr + elf[i].memsz - 1
      BY DEF UnitsIn, Segments
    <2>2. elf[i].paddr + elf[i].memsz <= e
      BY <1>1, <2>1 DEF EndsAt, Skipped
    <2> QED BY <1>1, <2>1, <2>2
  <1>3. ASSUME e # 0
        PROVE  e - 1 \in UnitsIn(elf)
    <2>1. PICK i \in 1 .. Len(elf) : ~Skipped(elf[i]) /\ elf[i].paddr + elf[i].memsz = e
      BY <1>3 DEF EndsAt
    <2>2. elf[i].type = "LOAD" /\ elf[i].memsz > 0
      BY <1>1, <2>1 DEF Skipped
    <2>3. elf[i] \in Segments(elf)
      BY <2>2 DEF Segments
    <2>4. e - 1 \in elf[i].paddr .. elf[i].paddr + elf[i].memsz - 1
      BY <1>1, <2>1, <2>2
    <2> QED BY <2>3, <2>4 DEF UnitsIn
  <1> QED BY <1>2, <1>3

(***************************************************************************)
(* The arithmetic of mem_init: the pages that are reserved are those from  *)
(* e on, and the page tables of the kernel area cover every unit below e   *)
(* unless e lies in the first page of a table.                             *)
(***************************************************************************)
LEMMA Reserved ==
  ASSUME NEW e \in Nat, AlignUp(e) < MemSize
  PROVE  AlignUp(e) \div PAGE .. AlignUp(e) \div PAGE + (MemSize - AlignUp(e)) \div PAGE - 1
         = {p \in 0 .. MemSize \div PAGE - 1 : e <= p * PAGE}
PROOF
  <1> DEFINE c == (e + PAGE - 1) \div PAGE
             M == MemSize \div PAGE
  <1>1. PAGE \in Nat /\ PAGE > 0 /\ MemSize \in Nat /\ MemSize % PAGE = 0
    BY LayoutAssumption
  <1>2. /\ e + PAGE - 1 \in Nat /\ c \in Nat
        /\ e + PAGE - 1 = PAGE * c + ((e + PAGE - 1) % PAGE)
        /\ (e + PAGE - 1) % PAGE \in 0 .. PAGE - 1
    BY <1>1, DivMod
  <1>3. M \in Nat /\ MemSize = PAGE * M
    BY <1>1, DivMod
  <1>4. AlignUp(e) = c * PAGE
    BY DEF AlignUp
  <1> HIDE DEF c, M
  <1>5. c * PAGE \in Nat /\ c * PAGE = PAGE * c + 0 /\ c < M
    <2>1. PAGE * c < PAGE * M /\ PAGE * c \in Nat /\ c * PAGE = PAGE * c
      BY <1>1, <1>2, <1>3, <1>4
    <2>2. ~(M <= c)
      <3>1. M <= c => PAGE * M <= PAGE * c
        BY <1>1, <1>2, <1>3
      <3> QED BY <1>1, <1>2, <1>3, <2>1, <3>1
    <2> QED BY <1>2, <1>3, <2>1, <2>2
  <1>6. AlignUp(e) \div PAGE = c
    BY <1>1, <1>2, <1>4, <1>5, DivIs
  <1>7. (MemSize - AlignUp(e)) \div PAGE = M - c
    <2>1. M - c \in Nat /\ MemSize - c * PAGE \in Nat /\ MemSize - c * PAGE = PAGE * (M - c) + 0
      BY <1>1, <1>2, <1>3, <1>5
    <2> QED BY <1>1, <1>4, <2>1, DivIs
  <1>8. ASSUME NEW p \in Nat
        PROVE  c <= p <=> e <= p * PAGE
    <2>1. p * PAGE \in Nat /\ e <= c * PAGE
      BY <1>1, <1>2, <1>5
    <2>2. c <= p => c * PAGE <= p * PAGE
      BY <1>1, <1>2
    <2>3. p + 1 <= c => (p + 1) * PAGE <= c * PAGE /\ (p + 1) * PAGE = p * PAGE + PAGE
      BY <1>1, <1>2
    <2>4. c * PAGE <= e + PAGE - 1
      BY <1>1, <1>2, <1>5
    <2>5. (p + 1) * PAGE \in Nat
      BY <1>1
    <2> QED BY <1>1, <1>2, <1>5, <2>1, <2>2, <2>3, <2>4, <2>5
  <1>9. c + (M - c) - 1 = M - 1
    BY <1>2, <1>3
  <1>10. c .. M - 1 = {p \in 0 .. M - 1 : e <= p * PAGE}
    BY <1>2, <1>3, <1>8
  <1> QED BY <1>6, <1>7, <1>9, <1>10 DEF M

(* The tables up to the end e of a kernel reach to the one of its last unit *)
LEMMA AreaCovers ==
  ASSUME NEW e \in Nat, NEW u \in Nat, u + 1 = e
  PROVE  /\ end_index(e) \in page_dir_index(u) .. page_dir_index(u) + 1
         /\ e % (PAGE * TABLE) \notin 1 .. PAGE - 1 => end_index(e) = page_dir_index(u) + 1
PROOF
  <1> DEFINE area == PAGE * TABLE
             q == e \div area
             r == e % area
  <1>1. PAGE \in Nat /\ PAGE > 0 /\ TABLE \in Nat /\ TABLE > 0
    BY LayoutAssumption
  <1>2. area \in Nat /\ area > 0
    BY <1>1
  <1>3. q \in Nat /\ r \in 0 .. area - 1 /\ e = area * q + r
    BY <1>2, DivMod
  <1>4. /\ page_dir_index(e) = q /\ page_dir_index(u) = u \div area
        /\ area = PAGE * TABLE /\ r = e % (PAGE * TABLE)
    BY DEF page_dir_index
  <1> HIDE DEF area, q, r
  <1>5. area * q \in Nat /\ area * q = PAGE * (TABLE * q) /\ TABLE * q \in Nat
    <2>1. (PAGE * TABLE) * q = PAGE * (TABLE * q) /\ TABLE * q \in Nat
      BY <1>1, <1>3
    <2> QED BY <1>2, <1>3, <1>4, <2>1
  <1>6. CASE r = 0
    <2>1. e = area * q /\ u = e - 1
      BY <1>3, <1>5, <1>6
    <2>2. q # 0
      <3>1. q = 0 => area * q = 0
        BY <1>2
      <3> QED BY <2>1, <3>1
    <2>3. q - 1 \in Nat /\ area * (q - 1) \in Nat /\ area * q = area * (q - 1) + area
      BY <1>2, <1>3, <2>2
    <2>4. u = area * (q - 1) + (area - 1) /\ area - 1 \in 0 .. area - 1
      BY <1>2, <2>1, <2>3
    <2>5. u \div area = q - 1
      BY <1>2, <2>3, <2>4, DivIs
    <2>6. page_table_index(e) = 0
      <3>1. e = PAGE * (TABLE * q) + 0
        BY <1>5, <2>1
      <3>2. e \div PAGE = TABLE * q
        BY <1>1, <1>5, <3>1, DivIs
      <3>3. TABLE * q = TABLE * q + 0
        BY <1>5
      <3>4. (TABLE * q) % TABLE = 0
        BY <1>1, <1>3, <1>5, <3>3, DivIs
      <3> QED BY <3>2, <3>4 DEF page_table_index
    <2>7. end_index(e) = page_dir_index(u) + 1 /\ page_dir_index(u) \in Nat
      BY <1>3, <1>4, <2>3, <2>5, <2>6 DEF end_index
    <2> QED BY <2>7
  <1>7. r # 0 => u \div area = q
    <2>1. r # 0 => r - 1 \in 0 .. area - 1 /\ u = area * q + (r - 1)
      BY <1>2, <1>3, <1>5
    <2> QED BY <1>2, <1>3, <2>1, DivIs
  <1>8. CASE r >= PAGE
    <2>1. r \div PAGE \in Nat /\ r % PAGE \in 0 .. PAGE - 1 /\ r = PAGE * (r \div PAGE) + (r % PAGE)
      BY <1>1, <1>2, <1>3, DivMod
    <2> DEFINE k == r \div PAGE
    <2>2. k \in Nat /\ k # 0
      BY <1>1, <1>8, <2>1
    <2>3. r = PAGE * k + (r % PAGE)
      BY <2>1
    <2> HIDE DEF k
    <2>4. PAGE * k \in Nat
      BY <1>1, <2>2
    <2>5. k < TABLE
      <3>1. TABLE <= k => PAGE * TABLE <= PAGE * k
        BY <1>1, <2>2
      <3> QED BY <1>1, <1>2, <1>3, <1>4, <2>1, <2>2, <2>3, <2>4, <3>1
    <2>6. e \div PAGE = TABLE * q + k
      <3>1. PAGE * (TABLE * q + k) = PAGE * (TABLE * q) + PAGE * k
        BY <1>1, <1>5, <2>2
      <3>2. e = PAGE * (TABLE * q + k) + (r % PAGE)
        BY <1>3, <1>5, <2>1, <2>3, <2>4, <3>1
      <3>3. TABLE * q + k \in Nat
        BY <1>5, <2>2
      <3>4. \A x, y \in Nat : \A z \in 0 .. PAGE - 1 : x = PAGE * y + z => x \div PAGE = y
        BY <1>1, DivIs
      <3> HIDE DEF k
      <3> QED BY <2>1, <3>2, <3>3, <3>4, Zenon
    <2>7. page_table_index(e) = k
      <3>1. TABLE * q + k \in Nat /\ k \in 0 .. TABLE - 1
        BY <1>1, <1>5, <2>2, <2>5
      <3>2. (TABLE * q + k) % TABLE = k
        BY <1>1, <1>3, <3>1, DivIs
      <3> QED BY <2>6, <3>2 DEF page_table_index
    <2>8. page_dir_index(u) = q /\ end_index(e) = q + 1
      BY <1>1, <1>4, <1>7, <1>8, <2>2, <2>7 DEF end_index
    <2> QED BY <1>3, <2>8
  <1>9. CASE r \in 1 .. PAGE - 1
    <2>1. page_dir_index(u) = q
      BY <1>4, <1>7, <1>9
    <2>2. end_index(e) \in {q, q + 1}
      BY <1>3, <1>4 DEF end_index
    <2> QED BY <1>3, <1>4, <1>9, <2>1, <2>2
  <1> QED BY <1>1, <1>3, <1>6, <1>8, <1>9

(* What the kernel has when it runs: HandoverSafe for one file              *)
HasMemory(elf, pages, taken, end) ==
  LET units == UnitsIn(elf)
      area  == PAGE * TABLE
  IN  /\ pages \cap taken = {}
      /\ pages \cup taken = {p \in 0 .. MemSize \div PAGE - 1 : \A u \in units : u < p * PAGE}
      /\ \A last \in units : (\A u \in units : u <= last) =>
           /\ end \in page_dir_index(last) .. page_dir_index(last) + 1
           /\ ((last + 1) % area) \notin 1 .. PAGE - 1 => end = page_dir_index(last) + 1

LEMMA RunningSafe ==
  ASSUME NEW elf \in Seq(ProgramHeader), NEW e \in Nat, EndsAt(elf, Len(elf), e),
         NEW pages, NEW taken, NEW end,
         pages \cap taken = {},
         pages \cup taken = {p \in 0 .. MemSize \div PAGE - 1 : e <= p * PAGE},
         end = end_index(e)
  PROVE  HasMemory(elf, pages, taken, end)
PROOF
  <1>1. /\ \A u \in UnitsIn(elf) : u \in Nat /\ u < e
        /\ e # 0 => e - 1 \in UnitsIn(elf)
    BY UnitsEnd
  <1>2. PAGE \in Nat /\ MemSize \div PAGE \in Nat
    BY LayoutAssumption, DivMod
  <1>3. ASSUME NEW p \in Nat
        PROVE  e <= p * PAGE <=> \A u \in UnitsIn(elf) : u < p * PAGE
    <2>1. p * PAGE \in Nat
      BY <1>2
    <2>2. CASE e = 0
      BY <1>1, <2>1, <2>2
    <2>3. CASE e # 0
      BY <1>1, <2>1, <2>3
    <2> QED BY <2>2, <2>3
  <1>4. {p \in 0 .. MemSize \div PAGE - 1 : e <= p * PAGE}
        = {p \in 0 .. MemSize \div PAGE - 1 : \A u \in UnitsIn(elf) : u < p * PAGE}
    <2>1. \A p \in 0 .. MemSize \div PAGE - 1 : p \in Nat
      BY <1>2
    <2> QED BY <1>3, <2>1
  <1>5. ASSUME NEW last \in UnitsIn(elf), \A u \in UnitsIn(elf) : u <= last
        PROVE  /\ end \in page_dir_index(last) .. page_dir_index(last) + 1
               /\ ((last + 1) % (PAGE * TABLE)) \notin 1 .. PAGE - 1 => end = page_dir_index(last) + 1
    <2>1. last \in Nat /\ last + 1 = e
      <3>1. last \in Nat /\ last < e /\ e # 0
        BY <1>1, <1>5
      <3>2. e - 1 <= last
        BY <1>1, <1>5, <3>1
      <3> QED BY <3>1, <3>2
    <2> QED BY <2>1, AreaCovers
  <1> QED BY <1>4, <1>5 DEF HasMemory

-----------------------------------------------------------------------------
(* The steps before the program headers                                     *)
LEMMA BeforeHInv ==
  ASSUME stage' \notin {"segments", "kernel", "paging", "running"}
  PROVE  HInv'
BY DEF HInv, HandoverSafe

LEMMA CheckMagicHInv == IInv /\ CheckMagic => HInv'
PROOF
  <1> SUFFICES ASSUME IInv, CheckMagic PROVE HInv'
    OBVIOUS
  <1>1. /\ stage' \in {"error", "segments"} /\ stage \in WithVolume
        /\ mem' = mem /\ disk' = disk /\ part' = part
    BY DEF CheckMagic, Failed, loader, WithVolume
  <1>0. Header' = Header
    BY <1>1, SameHeader
  <1>2. CASE stage' = "segments"
    <2>1. index' = 1 /\ range' = <<MemSize, 0>>
      BY <1>2 DEF CheckMagic, Failed
    <2>2. range'[1] = MemSize /\ range'[2] = 0
      BY <2>1
    <2>3. ASSUME NEW elf \in Header
          PROVE  index' - 1 <= Len(elf) /\ EndsAt(elf, index' - 1, range'[2])
      <3>1. elf \in Seq(ProgramHeader) /\ index' - 1 = 0
        BY <1>1, <2>1, HeaderIs
      <3> QED BY <2>2, <3>1 DEF EndsAt
    <2> QED BY <1>0, <1>1, <1>2, <2>1, <2>2, <2>3 DEF HInv, HandoverSafe
  <1>3. CASE stage' = "error"
    BY <1>3, BeforeHInv
  <1> QED BY <1>1, <1>2, <1>3

(* The loop over the program headers                                        *)
LEMMA LoadSegmentHInv == IInv /\ HInv /\ LoadSegment => HInv'
PROOF
  <1> SUFFICES ASSUME IInv, HInv, LoadSegment PROVE HInv'
    OBVIOUS
  <1>1. /\ stage = "segments" /\ stage' = "segments" /\ disk' = disk /\ part' = part
        /\ index' = index + 1 /\ stage \in WithVolume
    BY DEF LoadSegment, After, WithVolume
  <1>0. /\ index \in Nat /\ index >= 1 /\ DOMAIN mem = Unit /\ LoadAt \in Unit
        /\ range = <<range[1], range[2]>> /\ range[2] \in Nat
    <2>1. LoadAt \in Unit
      BY LayoutAssumption DEF Unit
    <2> QED BY <1>1, <2>1 DEF IInv, HInv
  <1>2. PICK elf \in Header :
          /\ index <= Len(elf)
          /\ LET s == elf[index] IN
             IF Skipped(s) THEN UNCHANGED <<mem, range>>
             ELSE /\ mem' = [u \in Unit |-> IF u \in s.paddr .. s.paddr + s.memsz - 1
                                            THEN Loaded(s, u) ELSE mem[u]]
                  /\ range' = <<Smaller(range[1], s.paddr), Larger(range[2], s.paddr + s.memsz)>>
    BY DEF LoadSegment
  <1>3. \A x \in Header : x = elf
    BY <1>2 DEF Header
  <1>4. /\ elf \in Seq(ProgramHeader) /\ Len(elf) \in Nat
        /\ \A i \in 1 .. Len(elf) : elf[i] \in ProgramHeader /\ InHighMemory(elf[i])
        /\ index - 1 <= Len(elf) /\ EndsAt(elf, index - 1, range[2])
    BY <1>0, <1>1, <1>2, HeaderIs DEF HInv
  <1>5. \A i \in 1 .. Len(elf) : elf[i].paddr \in Nat /\ elf[i].memsz \in Nat
    BY <1>4 DEF ProgramHeader
  <1>6. /\ index' - 1 = index /\ index \in 1 .. Len(elf)
        /\ \A i : i \in 1 .. index <=> i \in 1 .. index - 1 \/ i = index
    BY <1>0, <1>1, <1>2, <1>4
  <1>7. SUFFICES /\ Header' = Header
                 /\ range' = <<range'[1], range'[2]>> /\ range'[2] \in Nat
                 /\ EndsAt(elf, index, range'[2])
    BY <1>0, <1>1, <1>2, <1>3, <1>6 DEF HInv, HandoverSafe
  <1>8. CASE Skipped(elf[index])
    <2>1. mem' = mem /\ range' = range
      BY <1>2, <1>8
    <2> QED BY <1>0, <1>1, <1>4, <1>6, <1>8, <2>1, SameHeader DEF EndsAt
  <1>9. CASE ~Skipped(elf[index])
    <2> DEFINE start == elf[index].paddr
               end == elf[index].paddr + elf[index].memsz
    <2>1. start \in Nat /\ end \in Nat /\ start >= HwEnd
      BY <1>4, <1>5, <1>6, <1>9 DEF InHighMemory, Skipped
    <2>2. mem'[LoadAt] = mem[LoadAt]
      <3> DEFINE s == elf[index]
      <3>2. mem' = [u \in Unit |-> IF u \in s.paddr .. s.paddr + s.memsz - 1 THEN Loaded(s, u) ELSE mem[u]]
        BY <1>2, <1>9
      <3>3. s.paddr \in Nat /\ s.paddr >= HwEnd
        BY <2>1
      <3> HIDE DEF s
      <3>4. LoadAt \notin s.paddr .. s.paddr + s.memsz - 1
        BY <3>3, LayoutAssumption
      <3> QED BY <1>0, <3>2, <3>4
    <2>3. range' = <<Smaller(range[1], start), Larger(range[2], end)>>
      BY <1>2, <1>9
    <2>4. range'[2] = Larger(range[2], end) /\ range' = <<range'[1], range'[2]>>
      BY <2>3
    <2>5. range'[2] \in Nat /\ range'[2] >= range[2] /\ range'[2] >= end
          /\ (range'[2] = range[2] \/ range'[2] = end)
      BY <1>0, <1>1, <2>1, <2>4 DEF Larger
    <2> HIDE DEF start
    <2>6. EndsAt(elf, index, range'[2])
      <3>1. ASSUME NEW i \in 1 .. index, ~Skipped(elf[i])
            PROVE  elf[i].paddr + elf[i].memsz <= range'[2]
        <4>1. CASE i = index
          BY <2>5, <4>1
        <4>2. CASE i \in 1 .. index - 1
          <5>1. elf[i].paddr + elf[i].memsz <= range[2]
            BY <1>4, <3>1, <4>2 DEF EndsAt
          <5>2. i \in 1 .. Len(elf)
            BY <1>6, <3>1, <4>2
          <5>3. elf[i].paddr + elf[i].memsz \in Nat
            BY <1>5, <5>2
          <5> QED BY <1>0, <2>5, <5>1, <5>3
        <4> QED BY <1>6, <3>1, <4>1, <4>2
      <3>2. range'[2] = 0 \/ \E i \in 1 .. index : ~Skipped(elf[i]) /\ elf[i].paddr + elf[i].memsz = range'[2]
        BY <1>4, <1>6, <1>9, <2>5 DEF EndsAt
      <3> QED BY <3>1, <3>2 DEF EndsAt
    <2> QED BY <1>0, <1>1, <2>2, <2>4, <2>5, <2>6, SameHeader
  <1> QED BY <1>8, <1>9

(* The kernel is entered with the range of the segments as its arguments.    *)
LEMMA EnterKernelHInv == IInv /\ HInv /\ EnterKernel => HInv'
PROOF
  <1> SUFFICES ASSUME IInv, HInv, EnterKernel PROVE HInv'
    OBVIOUS
  <1>1. /\ stage = "segments" /\ stage' = "kernel" /\ disk' = disk /\ part' = part
        /\ stage \in WithVolume
        /\ mem' = [mem EXCEPT ![ArgsAt] = <<"args">> \o range]
        /\ \A elf \in Header : index > Len(elf)
    BY DEF EnterKernel, loader, WithVolume
  <1>2. /\ DOMAIN mem = Unit /\ ArgsAt \in Unit /\ LoadAt # ArgsAt
        /\ range = <<range[1], range[2]>> /\ range[2] \in Nat /\ index \in Nat
    <2>1. LoadAt # ArgsAt /\ ArgsAt \in Unit
      BY LayoutAssumption DEF Unit
    <2> QED BY <1>1, <2>1 DEF IInv, HInv
  <1>3. Header' = Header
    BY <1>1, <1>2, SameHeader
  <1>4. mem'[ArgsAt][3] = range[2]
    <2>1. \A a, b : (<<"args">> \o <<a, b>>)[3] = b
      OBVIOUS
    <2> QED BY <1>1, <1>2, <2>1
  <1>5. ASSUME NEW elf \in Header
        PROVE  EndsAt(elf, Len(elf), range[2])
    <2>1. elf \in Seq(ProgramHeader) /\ Len(elf) \in Nat
      BY <1>1, HeaderIs
    <2>2. index - 1 <= Len(elf) /\ EndsAt(elf, index - 1, range[2])
      BY <1>1 DEF HInv
    <2>3. index - 1 = Len(elf)
      BY <1>1, <1>2, <2>1, <2>2
    <2> QED BY <2>2, <2>3
  <1> QED BY <1>1, <1>2, <1>3, <1>4, <1>5 DEF HInv, HandoverSafe, kernel_addr_end

(* mem_init reserves the pages behind the kernel.                           *)
LEMMA InitPmuHInv == IInv /\ HInv /\ InitPmu => HInv'
PROOF
  <1> SUFFICES ASSUME IInv, HInv, InitPmu PROVE HInv'
    OBVIOUS
  <1>1. /\ stage = "kernel" /\ mem' = mem /\ disk' = disk /\ part' = part
        /\ stage' \in {"paging", "panic"}
        /\ kernel_addr_end \in Nat /\ \A elf \in Header : EndsAt(elf, Len(elf), kernel_addr_end)
    BY DEF InitPmu, HInv, loader
  <1>2. Header' = Header /\ kernel_addr_end' = kernel_addr_end
    BY <1>1, SameHeader DEF kernel_addr_end
  <1>3. CASE stage' = "paging"
    <2>1. /\ AlignUp(kernel_addr_end) < MemSize
          /\ free' = AlignUp(kernel_addr_end) \div PAGE
                     .. AlignUp(kernel_addr_end) \div PAGE
                        + (MemSize - AlignUp(kernel_addr_end)) \div PAGE - 1
      BY <1>1, <1>3 DEF InitPmu
    <2>2. free' = {p \in 0 .. MemSize \div PAGE - 1 : kernel_addr_end <= p * PAGE}
      BY <1>1, <2>1, Reserved
    <2> QED BY <1>1, <1>2, <1>3, <2>2 DEF HInv, HandoverSafe
  <1>4. CASE stage' = "panic"
    BY <1>4, BeforeHInv
  <1> QED BY <1>1, <1>3, <1>4

(* page_init takes the page tables from them.                               *)
LEMMA InitPagesHInv == IInv /\ HInv /\ InitPages => HInv'
PROOF
  <1> SUFFICES ASSUME IInv, HInv, InitPages PROVE HInv'
    OBVIOUS
  <1>1. /\ stage = "paging" /\ disk' = disk /\ part' = part /\ stage \in WithVolume
        /\ stage' \in {"running", "panic"}
    BY DEF InitPages, loader, WithVolume
  <1>2. CASE stage' = "running"
    <2>1. PICK lowest : /\ lowest \subseteq free /\ tables' = lowest /\ free' = free \ lowest
                        /\ mem' = [u \in Unit |-> IF u \in UnitsOf(lowest) THEN <<"table">> ELSE mem[u]]
                        /\ area_end' = end_index(kernel_addr_end)
      BY <1>2 DEF InitPages
    <2>2. Header' \subseteq Header
      <3>1. mem'[LoadAt] = mem[LoadAt] \/ mem'[LoadAt] = <<"table">>
        <4>1. LoadAt \in Unit
          BY LayoutAssumption DEF Unit
        <4> QED BY <2>1, <4>1
      <3>2. CASE mem'[LoadAt] = mem[LoadAt]
        BY <1>1, <3>2, SameHeader
      <3>3. CASE mem'[LoadAt] = <<"table">>
        <4>1. \A lba : <<"table">> # Sector(lba)
          BY DEF Sector
        <4> QED BY <3>3, <4>1 DEF Header
      <3> QED BY <3>1, <3>2, <3>3
    <2>3. free = {p \in 0 .. MemSize \div PAGE - 1 : kernel_addr_end <= p * PAGE}
          /\ kernel_addr_end \in Nat
      BY <1>1 DEF HInv
    <2>4. free' \cap tables' = {} /\ free' \cup tables' = free
      BY <2>1
    <2> DEFINE e == kernel_addr_end
    <2>5. /\ e \in Nat
          /\ free' \cup tables' = {p \in 0 .. MemSize \div PAGE - 1 : e <= p * PAGE}
          /\ area_end' = end_index(e)
          /\ \A elf \in Header : elf \in Seq(ProgramHeader) /\ EndsAt(elf, Len(elf), e)
      BY <1>1, <2>1, <2>3, <2>4, HeaderIs DEF HInv
    <2>6. HandoverSafe'
      <3> HIDE DEF e
      <3>1. ASSUME NEW elf \in Header'
            PROVE  HasMemory(elf, free', tables', area_end')
        <4>1. elf \in Seq(ProgramHeader) /\ EndsAt(elf, Len(elf), e)
          BY <2>2, <2>5, <3>1
        <4>2. \A pages, taken, end :
                /\ pages \cap taken = {}
                /\ pages \cup taken = {p \in 0 .. MemSize \div PAGE - 1 : e <= p * PAGE}
                /\ end = end_index(e)
                => HasMemory(elf, pages, taken, end)
          BY <2>5, <4>1, RunningSafe
        <4> QED BY <2>4, <2>5, <4>2, Zenon
      <3> QED BY <3>1 DEF HandoverSafe, HasMemory
    <2> QED BY <1>2, <2>6 DEF HInv
  <1>3. CASE stage' = "panic"
    BY <1>3, BeforeHInv
  <1> QED BY <1>1, <1>2, <1>3

LEMMA StutterHInv == HInv /\ UNCHANGED vars => HInv'
PROOF
  <1> SUFFICES ASSUME HInv, UNCHANGED vars PROVE HInv'
    OBVIOUS
  <1>1. Header' = Header /\ kernel_addr_end' = kernel_addr_end
    BY DEF Header, Volume, kernel_addr_end, vars, loader
  <1> QED BY <1>1 DEF HInv, HandoverSafe, vars, loader, kernel

LEMMA NextHInv == IInv /\ HInv /\ [Next]_vars => HInv'
PROOF
  <1>1. ASSUME LoadSetup \/ TestA20 \/ FindPartition \/ ReadVolume \/ FindKernel
               \/ LoadSector \/ NextCluster
        PROVE  HInv'
    <2>1. stage' \notin {"segments", "kernel", "paging", "running"}
      BY <1>1 DEF LoadSetup, TestA20, FindPartition, ReadVolume, FindKernel, LoadSector,
                  NextCluster, Failed
    <2> QED BY <2>1, BeforeHInv
  <1> QED BY <1>1, CheckMagicHInv, LoadSegmentHInv, EnterKernelHInv, InitPmuHInv, InitPagesHInv,
             StutterHInv DEF Next, Load, Stop

LEMMA HInvAlways == Spec => []HInv
PROOF
  <1>1. Init => HInv
    BY DEF Init, HInv, HandoverSafe
  <1> QED BY <1>1, IInvAlways, NextHInv, PTL DEF Spec

-----------------------------------------------------------------------------
(* Whatever the disk holds and whatever failed reads deliver, the setup     *)
(* program, the partition table and the memory of the hardware keep their   *)
(* contents until the kernel sets up its page tables (setupmain.c:164).     *)
THEOREM LoaderStaysIntact == Spec => []LoaderIntact
PROOF
  <1>1. IInv => LoaderIntact
    BY DEF IInv, WithVolume, LoaderIntact, Kept, SetupLoaded
  <1> QED BY <1>1, IInvAlways, PTL

(* The allocator and the page tables get exactly the whole pages behind the *)
(* kernel, wherever its segments lie.  The areas that all processes share   *)
(* end with the one of its last unit, but for a kernel that ends within the *)
(* first page of an area: that last area may then be missing (mem.c:292).   *)
THEOREM HandoverIsSafe == Spec => []HandoverSafe
PROOF
  <1>1. HInv => HandoverSafe
    BY DEF HInv
  <1> QED BY <1>1, HInvAlways, PTL

-----------------------------------------------------------------------------
(***************************************************************************)
(* 3. The kernel that is started: KernelRight.                             *)
(*                                                                         *)
(* KernelRight compares the end of a start with what the disk says; KInv   *)
(* says how far the loader is on the way there, as long as no read failed. *)
(* Until the file is looked for, the area for it holds nothing. In the     *)
(* root directory, no entry of the sectors behind is a kernel. While the   *)
(* file is read, there is a number c of clusters that are in memory        *)
(* (FileRead): the chain is a function on all numbers, of which the loader *)
(* only knows where it is. While the segments are copied, the whole file   *)
(* is in memory, those of the headers behind are in place (Placed) and the *)
(* lowest address of them is the start of the range (StartsAt). Then the   *)
(* file may be overwritten, the segments and their range stay.             *)
(***************************************************************************)
Per        == BootVolume.bpb.sec_per_clus
RootCount  == BootVolume.bpb.root_ent_cnt
RootSectors == (RootCount + ENTRIES - 1) \div ENTRIES
KernelFile == BootVolume.elf[FileSector(0)]

(* The file up to the i-th sector of its c-th cluster is in memory.         *)
AllLegal(c)  == \A i \in 0 .. c - 1 : check_clus(chain[i])
FileIn(ptr)  == \A k \in 0 .. ptr - LoadAt - 1 : mem[LoadAt + k] = Sector(FileSector(k))
FileRead(c, i) ==
  /\ AllLegal(c)
  /\ elf_load_ptr = LoadAt + c * Per + i
  /\ elf_load_ptr <= HwMap
  /\ FileIn(elf_load_ptr)

(* What the n first program headers promise is in memory, and a is the      *)
(* start of their segments.                                                 *)
Promised(s, k) == IF k < s.filesz THEN Sector(FileSector(s.offset + k)) ELSE Zero
InPlace(s)     == \A k \in 0 .. s.memsz - 1 : mem[s.paddr + k] = Promised(s, k)
Placed(n)      == Whole(KernelFile) => \A i \in 1 .. n : ~Skipped(KernelFile[i]) => InPlace(KernelFile[i])
StartsAt(elf, n, a) ==
  /\ \A i \in 1 .. n : ~Skipped(elf[i]) => a <= elf[i].paddr
  /\ a = MemSize \/ \E i \in 1 .. n : ~Skipped(elf[i]) /\ elf[i].paddr = a

AtVolume == /\ a20 /\ Active # {} /\ part = BootStart
            /\ stage # "volume" => BootVolume.fat16
Unread   == elf_load_ptr = LoadAt /\ mem[LoadAt] = Junk
AtLoad   == /\ Candidates # {}
            /\ \E c \in Nat : /\ cluster = chain[c] /\ index \in 0 .. Per
                              /\ index # 0 => check_clus(cluster)
                              /\ FileRead(c, index)
            /\ elf_load_ptr = LoadAt => mem[LoadAt] = Junk
AtSegments ==
  /\ Bootable /\ Header = {KernelFile}
  /\ \E c \in Nat : ~check_clus(chain[c]) /\ FileRead(c, 0)
  /\ Placed(index - 1)
  /\ range = <<range[1], range[2]>> /\ range[1] \in Nat /\ range[2] \in Nat
  /\ StartsAt(KernelFile, index - 1, range[1])
Entered(args) ==
  /\ args = <<"args", args[2], args[3]>> /\ args[2] \in Nat /\ args[3] \in Nat
  /\ StartsAt(KernelFile, Len(KernelFile), args[2]) /\ EndsAt(KernelFile, Len(KernelFile), args[3])

KInv ==
  /\ faults \in Nat /\ a20 \in BOOLEAN
  /\ stage = "partition" => a20
  /\ stage \in WithVolume => a20 /\ Active # {}
  /\ faults = 0 =>
       /\ stage = "error" => ~Bootable
       /\ stage \in {"bootsect", "setup", "partition", "volume", "root"} => Unread
       /\ stage \in WithVolume => AtVolume
       /\ stage = "root" => \A i \in Candidates : index * ENTRIES <= i
       /\ stage = "load" => AtLoad
       /\ stage = "segments" => AtSegments
       /\ InKernel => Bootable /\ Placed(Len(KernelFile)) /\ Entered(mem[ArgsAt])

LEMMA FirstIs ==
  ASSUME NEW S, S \subseteq Nat, NEW m \in S, \A k \in S : m <= k
  PROVE  First(S) = m
PROOF
  <1> DEFINE P(i) == \A j \in S : i <= j
  <1>1. \E i \in S : P(i)
    OBVIOUS
  <1>2. First(S) \in S /\ P(First(S))
    <2>1. First(S) = CHOOSE i \in S : P(i)
      BY DEF First
    <2> HIDE DEF P
    <2> QED BY <1>1, <2>1, Zenon
  <1>3. First(S) <= m /\ m <= First(S) /\ First(S) \in Nat /\ m \in Nat
    BY <1>2
  <1> QED BY <1>3

LEMMA FirstOf ==
  ASSUME NEW S, S \subseteq Nat, S # {}
  PROVE  First(S) \in S /\ \A k \in S : First(S) <= k
PROOF
  <1>1. PICK m \in S : \A k \in S : m <= k
    BY LeastOf
  <1>2. First(S) = m
    BY <1>1, FirstIs
  <1> QED BY <1>1, <1>2

(* The clusters of the file obey the equation that defines them.            *)
LEMMA ChainIs ==
  /\ chain[0] = RootEntry(First(Candidates)).fst_clus
  /\ \A c \in Nat : chain[c + 1] = BootVolume.fat[chain[c]]
PROOF
  <1>1. chain = Orbit(RootEntry(First(Candidates)).fst_clus, BootVolume.fat)
    BY DEF chain, Orbit
  <1> QED BY <1>1, OrbitSteps

(* What the assumptions say of the volume to boot from                      *)
LEMMA BootVolumeIs ==
  ASSUME disk \in Disks, Active # {}
  PROVE  /\ First(Active) \in 1 .. 4 /\ disk.parts[First(Active)].active
         /\ \A i \in Active : First(Active) <= i
         /\ BootStart \in DOMAIN disk.volumes
         /\ Formatted(BootVolume, BootStart)
         /\ \A lba \in DOMAIN BootVolume.elf :
              /\ Linked(BootVolume.elf[lba]) /\ BootVolume.elf[lba] \in Seq(ProgramHeader)
              /\ \A i \in DOMAIN BootVolume.elf[lba] : InHighMemory(BootVolume.elf[lba][i])
PROOF
  <1>1. Active \subseteq Nat
    BY DEF Active
  <1>2. First(Active) \in Active /\ \A i \in Active : First(Active) <= i
    BY <1>1, FirstOf
  <1>3. First(Active) \in 1 .. 4 /\ disk.parts[First(Active)].active
    BY <1>2 DEF Active
  <1>4. BootStart \in DOMAIN disk.volumes
    BY <1>3, DisksAssumption DEF BootStart
  <1> HIDE DEF Active
  <1>5. /\ Formatted(disk.volumes[BootStart], BootStart)
        /\ \A lba \in DOMAIN disk.volumes[BootStart].elf : Linked(disk.volumes[BootStart].elf[lba])
    BY <1>4, VolumesAssumption
  <1>6. \A lba \in DOMAIN disk.volumes[BootStart].elf :
              /\ disk.volumes[BootStart].elf[lba] \in Seq(ProgramHeader)
              /\ \A i \in DOMAIN disk.volumes[BootStart].elf[lba] :
                   InHighMemory(disk.volumes[BootStart].elf[lba][i])
    BY <1>4, DisksAssumption
  <1> QED BY <1>2, <1>3, <1>4, <1>5, <1>6 DEF BootVolume

(* The numbers of the volume                                                *)
LEMMA NumbersAre ==
  ASSUME Formatted(BootVolume, BootStart)
  PROVE  /\ Per \in Nat /\ Per > 0 /\ RootCount \in Nat
         /\ ENTRIES \in Nat /\ ENTRIES > 0 /\ RESERVED \in Nat
         /\ RootSectors \in Nat /\ RootStart \in Nat
         /\ RootCount <= RootSectors * ENTRIES
PROOF
  <1>1. /\ {BootStart, BootVolume.bpb.rsvd_sec_cnt, BootVolume.bpb.num_fats,
            BootVolume.bpb.sec_per_fat_16} \subseteq Nat
        /\ {RootCount, Per} \subseteq Nat /\ Per > 0
    BY DEF Formatted, Per, RootCount
  <1>2. ENTRIES \in Nat /\ ENTRIES > 0 /\ RESERVED \in Nat
    BY VolumesAssumption
  <1>3. RootStart \in Nat
    BY <1>1 DEF RootStart
  <1>4. /\ RootSectors \in Nat /\ RootCount + ENTRIES - 1 \in Nat
        /\ (RootCount + ENTRIES - 1) % ENTRIES \in 0 .. ENTRIES - 1
        /\ RootCount + ENTRIES - 1 = ENTRIES * RootSectors + ((RootCount + ENTRIES - 1) % ENTRIES)
    BY <1>1, <1>2, DivMod, SMTT(60) DEF RootSectors
  <1>5. RootSectors * ENTRIES \in Nat /\ ENTRIES * RootSectors = RootSectors * ENTRIES
    BY <1>2, <1>4
  <1> QED BY <1>1, <1>2, <1>3, <1>4, <1>5

(* Every cluster of the file up to the first without a meaning is a number. *)
LEMMA ChainNumbers ==
  ASSUME disk \in Disks, Active # {}, Candidates # {}, NEW c \in Nat, AllLegal(c)
  PROVE  chain[c] \in Nat
PROOF
  <1>1. Formatted(BootVolume, BootStart)
    BY BootVolumeIs
  <1> DEFINE T == {i \in 0 .. c : chain[i] \in Nat}
  <1>2. 0 \in T
    <2>1. First(Candidates) \in Candidates
      <3>1. Candidates \subseteq Nat
        BY <1>1, NumbersAre DEF Candidates, RootCount
      <3> QED BY <3>1, FirstOf
    <2>2. RootEntry(First(Candidates)).fst_clus \in Nat
      <3> DEFINE i == First(Candidates)
      <3>1. i \in Nat /\ i < RootCount
        BY <1>1, <2>1, NumbersAre DEF Candidates, RootCount
      <3> HIDE DEF i
      <3>2. /\ i \div ENTRIES \in Nat /\ i % ENTRIES \in 0 .. ENTRIES - 1
            /\ i = ENTRIES * (i \div ENTRIES) + (i % ENTRIES)
        BY <1>1, <3>1, NumbersAre, DivMod
      <3>3. i \div ENTRIES \in 0 .. RootSectors - 1
        <4>1. ~(RootSectors <= i \div ENTRIES)
          <5>1. PICK q \in Nat : q = i \div ENTRIES
            BY <3>2
          <5>2. RootSectors <= q => RootSectors * ENTRIES <= q * ENTRIES
            BY <1>1, <5>1, NumbersAre
          <5>3. q * ENTRIES = ENTRIES * q /\ q * ENTRIES \in Nat /\ RootSectors * ENTRIES \in Nat
            BY <1>1, <5>1, NumbersAre
          <5>4. ENTRIES * q <= i
            BY <1>1, <3>1, <3>2, <5>1, <5>3, NumbersAre
          <5> QED BY <1>1, <3>1, <5>1, <5>2, <5>3, <5>4, NumbersAre
        <4> QED BY <1>1, <3>2, <4>1, NumbersAre
      <3>4. 1 + (i % ENTRIES) \in 1 .. ENTRIES
        BY <1>1, <3>2, NumbersAre
      <3>5. BootVolume.dir[RootStart + i \div ENTRIES][1 + (i % ENTRIES)].fst_clus \in Nat
        BY <1>1, <3>3, <3>4, SMTT(60) DEF Formatted, RootStart, RootSectors, RootCount
      <3> QED BY <3>5 DEF RootEntry, i
    <2> QED BY <2>2, ChainIs
  <1>3. ASSUME NEW i \in 0 .. c, i # c, i \in T
        PROVE  i + 1 \in T
    <2>1. i \in Nat /\ i \in 0 .. c - 1 /\ i + 1 \in 0 .. c /\ chain[i] \in Nat
      BY <1>3
    <2>2. check_clus(chain[i]) /\ chain[i + 1] = BootVolume.fat[chain[i]]
      BY <2>1, ChainIs DEF AllLegal
    <2>3. chain[i] \in 2 .. RESERVED - 1
      BY <1>1, <2>1, <2>2, NumbersAre DEF check_clus
    <2> QED BY <1>1, <2>1, <2>2, <2>3 DEF Formatted
  <1>4. c \in 0 .. c
    OBVIOUS
  <1> HIDE DEF T
  <1>5. c \in T
    BY <1>2, <1>3, <1>4, Upwards
  <1> QED BY <1>5 DEF T

(* The reference speaks of the disk and the gate only.                      *)
LEMMA SameReference ==
  ASSUME disk' = disk, a20' = a20
  PROVE  /\ Active' = Active /\ BootStart' = BootStart /\ BootVolume' = BootVolume
         /\ Candidates' = Candidates /\ chain' = chain /\ Per' = Per
         /\ KernelFile' = KernelFile /\ \A k : FileSector(k)' = FileSector(k)
         /\ Whole(KernelFile)' = Whole(KernelFile)
         /\ Bootable' = Bootable
PROOF
  <1>1. Active' = Active /\ BootStart' = BootStart /\ BootVolume' = BootVolume
    BY DEF Active, BootStart, BootVolume
  <1>2. RootStart' = RootStart
    BY <1>1 DEF RootStart
  <1>3. \A i : RootEntry(i)' = RootEntry(i)
    BY <1>1, <1>2 DEF RootEntry
  <1>4. Candidates' = Candidates
    BY <1>1, <1>3 DEF Candidates
  <1>5. chain' = chain
    BY <1>1, <1>3, <1>4 DEF chain
  <1>6. Per' = Per /\ \A k : FileSector(k)' = FileSector(k)
    BY <1>1, <1>2, <1>5 DEF FileSector, Per
  <1>7. KernelFile' = KernelFile
    BY <1>1, <1>6 DEF KernelFile
  <1>8. Whole(KernelFile)' = Whole(KernelFile)
    BY <1>1, <1>5, <1>7 DEF Whole
  <1>9. Bootable' = Bootable
    BY <1>1, <1>4, <1>5, <1>6 DEF Bootable
  <1> QED BY <1>1, <1>4, <1>5, <1>6, <1>7, <1>8, <1>9

(* A disk whose file does not end before the area is full cannot be booted. *)
LEMMA NoRoom ==
  ASSUME disk \in Disks, Active # {}, NEW c \in Nat, NEW i \in Nat, i < Per,
         AllLegal(c), check_clus(chain[c]), LoadAt + c * Per + i >= HwMap
  PROVE  ~Bootable
PROOF
  <1>1. Per \in Nat /\ Per > 0 /\ LoadAt \in Nat /\ HwMap \in Nat /\ LoadAt < HwMap
    BY BootVolumeIs, NumbersAre, LayoutAssumption
  <1>2. SUFFICES ASSUME NEW n \in 1 .. HwMap - LoadAt, n * Per <= HwMap - LoadAt, ~check_clus(chain[n])
                 PROVE  FALSE
    BY DEF Bootable, Per
  <1>3. n \in Nat
    BY <1>2
  <1>4. ~(n <= c)
    <2>1. CASE n = c
      BY <1>2, <2>1
    <2>2. CASE n < c
      <3>1. n \in 0 .. c - 1
        BY <1>3, <2>2
      <3> QED BY <1>2, <3>1 DEF AllLegal
    <2> QED BY <1>3, <2>1, <2>2
  <1>5. PICK d \in Nat : n = c + 1 + d
    <2>1. n - c - 1 \in Nat /\ n = c + 1 + (n - c - 1)
      BY <1>3, <1>4
    <2> QED BY <2>1
  <1>6. n * Per = c * Per + Per + d * Per /\ d * Per \in Nat /\ c * Per \in Nat /\ n * Per \in Nat
    BY <1>1, <1>3, <1>5
  <1> QED BY <1>1, <1>2, <1>6

LEMMA Ended ==
  ASSUME disk \in Disks, a20, Active # {}, BootVolume.fat16, Candidates # {},
         NEW c \in Nat, c # 0, AllLegal(c), ~check_clus(chain[c]), LoadAt + c * Per <= HwMap,
         FileSector(0) \in DOMAIN BootVolume.elf
  PROVE  Bootable
PROOF
  <1>1. Per \in Nat /\ Per > 0 /\ LoadAt \in Nat /\ HwMap \in Nat /\ LoadAt < HwMap
    BY BootVolumeIs, NumbersAre, LayoutAssumption
  <1>2. c * Per \in Nat /\ c <= c * Per
    BY <1>1
  <1>3. c \in 1 .. HwMap - LoadAt /\ c * Per <= HwMap - LoadAt
    BY <1>1, <1>2
  <1> QED BY <1>3 DEF Bootable, AllLegal, Per

(* One without a cluster of its file, or with another file, neither.        *)
LEMMA NoFile ==
  ASSUME ~check_clus(chain[0])
  PROVE  ~Bootable
PROOF
  <1>1. SUFFICES ASSUME NEW n \in 1 .. HwMap - LoadAt, \A i \in 0 .. n - 1 : check_clus(chain[i])
                 PROVE  FALSE
    BY DEF Bootable
  <1>2. 0 \in 0 .. n - 1
    BY LayoutAssumption
  <1> QED BY <1>1, <1>2

(* A file is kept as long as the area for it is.                            *)
LEMMA FileKept ==
  ASSUME disk' = disk, a20' = a20, elf_load_ptr' = elf_load_ptr, elf_load_ptr \in Nat,
         \A u \in LoadAt .. HwMap - 1 : mem'[u] = mem[u],
         NEW c \in Nat, NEW i \in Nat, FileRead(c, i)
  PROVE  FileRead(c, i)'
PROOF
  <1>1. /\ chain' = chain /\ Per' = Per /\ \A k : FileSector(k)' = FileSector(k)
    BY SameReference
  <1>2. elf_load_ptr <= HwMap /\ LoadAt \in Nat /\ HwMap \in Nat
    BY LayoutAssumption DEF FileRead
  <1>3. FileIn(elf_load_ptr)'
    <2>1. ASSUME NEW k \in 0 .. elf_load_ptr - LoadAt - 1
          PROVE  mem'[LoadAt + k] = Sector(FileSector(k))
      <3>1. LoadAt + k \in LoadAt .. HwMap - 1
        BY <1>2
      <3> QED BY <3>1 DEF FileRead, FileIn
    <2> QED BY <1>1, <2>1 DEF FileIn, Sector
  <1> QED BY <1>1, <1>3 DEF FileRead, AllLegal, check_clus

-----------------------------------------------------------------------------
(* Up to the search of the root directory                                   *)
LEMMA LoadInUnit == LoadAt \in Unit
PROOF
  <1>1. /\ LoadAt \in Nat /\ HwMap \in Nat /\ HwEnd \in Nat /\ MemSize \in Nat
        /\ LoadAt < HwMap /\ HwMap < HwEnd /\ HwEnd < MemSize
    BY LayoutAssumption
  <1> QED BY <1>1 DEF Unit

LEMMA LoadSetupKInv == IInv /\ KInv /\ LoadSetup => KInv'
PROOF
  <1> SUFFICES ASSUME IInv, KInv, LoadSetup PROVE KInv'
    OBVIOUS
  <1>1. /\ stage = "bootsect" /\ stage' \in {"bootsect", "setup"} /\ a20' = a20 /\ faults' = faults
        /\ elf_load_ptr' = elf_load_ptr
        /\ index \in Nat /\ index < SetupSize /\ DOMAIN mem = Unit
        /\ mem' = [mem EXCEPT ![SetupAt + index] = Sector(index + 1)]
    BY DEF LoadSetup, IInv
  <1>2. mem'[LoadAt] = mem[LoadAt]
    <2>1. SetupAt + index # LoadAt /\ LoadAt \in Unit
      <3>1. PICK at \in Nat, size \in Nat, mbr \in Nat, load \in Nat :
              at = SetupAt /\ size = SetupSize /\ mbr = MbrAt /\ load = LoadAt
        BY LayoutAssumption
      <3>2. at + size <= mbr /\ mbr < load /\ index < size
        BY <1>1, <3>1, LayoutAssumption
      <3>3. at + index # load
        BY <1>1, <3>2
      <3> QED BY <3>1, <3>3, LoadInUnit
    <2> QED BY <1>1, <2>1
  <1> QED BY <1>1, <1>2 DEF KInv, Unread, WithVolume, InKernel

LEMMA TestA20KInv == IInv /\ KInv /\ TestA20 => KInv'
PROOF
  <1> SUFFICES ASSUME IInv, KInv, TestA20 PROVE KInv'
    OBVIOUS
  <1>1. /\ stage = "setup" /\ a20' = a20 /\ faults' = faults /\ elf_load_ptr' = elf_load_ptr
        /\ disk' = disk /\ stage' = (IF a20 THEN "partition" ELSE "error") /\ DOMAIN mem = Unit
        /\ mem' = [mem EXCEPT ![LowTest] = Junk, ![HighTest] = IF a20 THEN Junk ELSE @]
    BY DEF TestA20, IInv, loader
  <1>2. faults = 0 => mem'[LoadAt] = Junk
    <2>1. HighTest # LoadAt /\ LoadAt \in Unit
      BY LayoutAssumption DEF Unit
    <2>2. faults = 0 => mem[LoadAt] = Junk
      BY <1>1 DEF KInv, Unread
    <2> QED BY <1>1, <2>1, <2>2
  <1>3. ~a20 => ~Bootable'
    BY <1>1 DEF Bootable
  <1> QED BY <1>1, <1>2, <1>3 DEF KInv, Unread, WithVolume, InKernel

LEMMA FindPartitionKInv == IInv /\ KInv /\ FindPartition => KInv'
PROOF
  <1> SUFFICES ASSUME IInv, KInv, FindPartition PROVE KInv'
    OBVIOUS
  <1>1. /\ stage = "partition" /\ a20 /\ a20' = a20 /\ faults' = faults /\ elf_load_ptr' = elf_load_ptr
        /\ disk' = disk /\ mem' = mem
    BY DEF FindPartition, KInv, Failed, loader
  <1>2. Active' = Active /\ BootStart' = BootStart /\ Bootable' = Bootable
    BY <1>1, SameReference
  <1>3. CASE stage' = "error"
    <2>1. Active = {}
      BY <1>3 DEF FindPartition, Active
    <2> QED BY <1>1, <1>2, <1>3, <2>1 DEF KInv, WithVolume, InKernel, Bootable
  <1>4. CASE stage' = "volume"
    <2>1. PICK i \in 1 .. 4 : /\ disk.parts[i].active /\ \A j \in 1 .. i - 1 : ~disk.parts[j].active
                              /\ part' = disk.parts[i].start_lba
      BY <1>4 DEF FindPartition, Failed
    <2>2. i \in Active /\ Active \subseteq Nat
      BY <2>1 DEF Active
    <2>3. ASSUME NEW j \in Active PROVE i <= j
      <3>1. j \in 1 .. 4 /\ ~(j \in 1 .. i - 1)
        BY <2>1 DEF Active
      <3> QED BY <3>1
    <2>4. First(Active) = i
      BY <2>2, <2>3, FirstIs
    <2>5. part' = BootStart
      BY <2>1, <2>4 DEF BootStart
    <2> QED BY <1>1, <1>2, <1>4, <2>2, <2>5 DEF KInv, Unread, AtVolume, InKernel
  <1>5. stage' \in {"error", "volume"}
    BY DEF FindPartition, Failed
  <1> QED BY <1>3, <1>4, <1>5

(* Without a fault, a read delivers what is on the disk.                    *)
LEMMA NoFault ==
  ASSUME faults \in Nat, NEW bad \in BOOLEAN, Reading(bad)
  PROVE  faults' \in Nat /\ (faults' = 0 => faults = 0 /\ ~bad)
BY DEF Reading

LEMMA ReadVolumeKInv == IInv /\ KInv /\ ReadVolume => KInv'
PROOF
  <1> SUFFICES ASSUME IInv, KInv, ReadVolume PROVE KInv'
    OBVIOUS
  <1>1. /\ stage = "volume" /\ a20' = a20 /\ elf_load_ptr' = elf_load_ptr /\ part' = part
        /\ disk' = disk /\ mem' = mem /\ stage' \in {"error", "root"} /\ a20 /\ a20 \in BOOLEAN
        /\ Active # {} /\ disk \in Disks
    BY DEF ReadVolume, KInv, Failed, loader, WithVolume, IInv
  <1>2. Active' = Active /\ BootStart' = BootStart /\ Bootable' = Bootable /\ BootVolume' = BootVolume
        /\ Candidates' = Candidates
    BY <1>1, SameReference
  <1>3. PICK bad \in BOOLEAN :
          /\ Reading(bad)
          /\ IF bad \/ ~Volume.fat16 THEN Failed("error")
             ELSE stage' = "root" /\ index' = 0 /\ UNCHANGED <<part, cluster, elf_load_ptr, range>>
    BY DEF ReadVolume
  <1>4. faults' \in Nat /\ (faults' = 0 => faults = 0 /\ ~bad)
    BY <1>3, NoFault DEF KInv
  <1>5. faults = 0 => part = BootStart /\ Volume = BootVolume /\ Unread
    BY <1>1 DEF KInv, AtVolume, WithVolume, Volume, BootVolume
  <1>6. CASE stage' = "error"
    <2>1. faults' = 0 => ~Bootable
      BY <1>3, <1>4, <1>5, <1>6 DEF Bootable
    <2> QED BY <1>1, <1>2, <1>4, <1>6, <2>1 DEF KInv, WithVolume, InKernel
  <1>7. CASE stage' = "root"
    <2>1. faults' = 0 => BootVolume.fat16
      BY <1>3, <1>4, <1>5, <1>7 DEF Failed
    <2>2. index' = 0
      BY <1>3, <1>7 DEF Failed
    <2>3. \A i \in Candidates : 0 * ENTRIES <= i
      <3>1. Candidates \subseteq Nat
        BY <1>1, BootVolumeIs, NumbersAre DEF Candidates, RootCount
      <3>2. 0 * ENTRIES = 0
        BY VolumesAssumption
      <3> QED BY <3>1, <3>2
    <2> QED BY <1>1, <1>2, <1>4, <1>5, <1>7, <2>1, <2>2, <2>3 DEF KInv, Unread, AtVolume, InKernel
  <1> QED BY <1>1, <1>6, <1>7

-----------------------------------------------------------------------------
(* The entry k of the sector s of the root directory                        *)
LEMMA EntryIs ==
  ASSUME Formatted(BootVolume, BootStart), NEW s \in Nat, NEW k \in 1 .. ENTRIES
  PROVE  /\ s * ENTRIES + k - 1 \in Nat
         /\ RootEntry(s * ENTRIES + k - 1) = BootVolume.dir[RootStart + s][k]
         /\ s * ENTRIES <= s * ENTRIES + k - 1 /\ s * ENTRIES + k - 1 < (s + 1) * ENTRIES
PROOF
  <1>1. ENTRIES \in Nat /\ ENTRIES > 0 /\ k - 1 \in 0 .. ENTRIES - 1 /\ 1 + (k - 1) = k
    BY NumbersAre
  <1>2. PICK i \in Nat : i = s * ENTRIES + k - 1
    BY <1>1
  <1>3. s * ENTRIES = ENTRIES * s /\ s * ENTRIES \in Nat /\ (s + 1) * ENTRIES = s * ENTRIES + ENTRIES
    BY <1>1
  <1>4. PICK m \in Nat, r \in Nat : m = ENTRIES /\ r = k - 1 /\ m > 0 /\ r \in 0 .. m - 1
    BY <1>1
  <1>5. i = m * s + r
    BY <1>1, <1>2, <1>3, <1>4
  <1>6. i \div m = s /\ i % m = r
    <2>1. i \in Nat /\ s \in Nat /\ m \in Nat /\ m > 0 /\ r \in 0 .. m - 1 /\ i = m * s + r
      BY <1>2, <1>4, <1>5
    <2> QED BY <2>1, DivIs
  <1>7. RootEntry(i) = BootVolume.dir[RootStart + s][k]
    BY <1>1, <1>4, <1>6 DEF RootEntry
  <1>8. PICK p \in Nat : p = s * ENTRIES
    BY <1>3
  <1>9. i = p + k - 1 /\ (s + 1) * ENTRIES = p + m /\ 1 + r = k
    BY <1>1, <1>2, <1>3, <1>4, <1>8
  <1>10. p <= i /\ i < p + m
    BY <1>4, <1>9
  <1> QED BY <1>2, <1>7, <1>8, <1>9, <1>10

LEMMA HitsAre ==
  ASSUME Formatted(BootVolume, BootStart), part = BootStart, NEW s \in 0 .. RootSectors - 1
  PROVE  /\ \A k \in Hits(s) : /\ k \in 1 .. ENTRIES /\ s * ENTRIES + k - 1 \in Candidates
                               /\ Volume.dir[root_fst_sec + s][k] = RootEntry(s * ENTRIES + k - 1)
         /\ \A i \in Candidates : s * ENTRIES <= i /\ i < (s + 1) * ENTRIES
              => i + 1 - s * ENTRIES \in Hits(s)
PROOF
  <1>1. /\ ENTRIES \in Nat /\ ENTRIES > 0 /\ RootCount \in Nat /\ s \in Nat /\ RootSectors \in Nat
    BY NumbersAre
  <1>2. Volume = BootVolume /\ bpb = BootVolume.bpb /\ root_fst_sec = RootStart
    BY DEF Volume, BootVolume, bpb, root_fst_sec, fat_fst_sec, RootStart
  <1>3. DOMAIN BootVolume.dir[RootStart + s] = 1 .. ENTRIES
    BY DEF Formatted, RootStart, RootSectors, RootCount
  <1>4. s * ENTRIES \in Nat /\ (s + 1) * ENTRIES = s * ENTRIES + ENTRIES
    BY <1>1
  <1>5. \A k : k \in Hits(s) <=> /\ k \in 1 .. ENTRIES /\ s * ENTRIES + k <= RootCount
                                 /\ Matches(BootVolume.dir[RootStart + s][k].name)
    BY <1>2, <1>3 DEF Hits, Looked, RootCount
  <1>6. \A i : i \in Candidates <=> i \in 0 .. RootCount - 1 /\ Matches(RootEntry(i).name)
    BY DEF Candidates, RootCount
  <1>7. ASSUME NEW k \in Hits(s)
        PROVE  /\ k \in 1 .. ENTRIES /\ s * ENTRIES + k - 1 \in Candidates
               /\ Volume.dir[root_fst_sec + s][k] = RootEntry(s * ENTRIES + k - 1)
    <2>1. k \in 1 .. ENTRIES /\ s * ENTRIES + k <= RootCount
          /\ Matches(BootVolume.dir[RootStart + s][k].name)
      BY <1>5
    <2>2. /\ s * ENTRIES + k - 1 \in Nat
          /\ RootEntry(s * ENTRIES + k - 1) = BootVolume.dir[RootStart + s][k]
      BY <1>1, <2>1, EntryIs
    <2>3. s * ENTRIES + k - 1 \in 0 .. RootCount - 1
      BY <1>1, <1>4, <2>1, <2>2
    <2> QED BY <1>2, <1>6, <2>1, <2>2, <2>3
  <1>8. ASSUME NEW i \in Candidates, s * ENTRIES <= i, i < (s + 1) * ENTRIES
        PROVE  i + 1 - s * ENTRIES \in Hits(s)
    <2>1. i \in Nat /\ i < RootCount /\ Matches(RootEntry(i).name)
      BY <1>1, <1>6
    <2>2. PICK k \in 1 .. ENTRIES : k = i + 1 - s * ENTRIES
      BY <1>1, <1>4, <1>8, <2>1
    <2>3. s * ENTRIES + k - 1 = i /\ s * ENTRIES + k <= RootCount
      BY <1>1, <1>4, <2>1, <2>2
    <2>4. RootEntry(i) = BootVolume.dir[RootStart + s][k]
      BY <1>1, <2>3, EntryIs
    <2> QED BY <1>5, <2>1, <2>2, <2>3, <2>4
  <1> QED BY <1>7, <1>8

LEMMA FindKernelKInv == IInv /\ KInv /\ FindKernel => KInv'
PROOF
  <1> SUFFICES ASSUME IInv, KInv, FindKernel PROVE KInv'
    OBVIOUS
  <1>1. /\ stage = "root" /\ a20' = a20 /\ elf_load_ptr' = elf_load_ptr /\ part' = part
        /\ disk' = disk /\ mem' = mem /\ stage' \in {"error", "root", "load"} /\ a20 /\ a20 \in BOOLEAN
        /\ Active # {} /\ disk \in Disks /\ index \in Nat /\ faults \in Nat
    BY DEF FindKernel, KInv, Failed, loader, WithVolume, IInv
  <1>2. Active' = Active /\ BootStart' = BootStart /\ Bootable' = Bootable /\ BootVolume' = BootVolume
        /\ Candidates' = Candidates /\ chain' = chain /\ Per' = Per
    BY <1>1, SameReference
  <1>3. Formatted(BootVolume, BootStart)
    BY <1>1, BootVolumeIs
  <1>4. /\ ENTRIES \in Nat /\ ENTRIES > 0 /\ RootCount \in Nat /\ RootSectors \in Nat
        /\ RootCount <= RootSectors * ENTRIES /\ RootSectors * ENTRIES \in Nat
        /\ index * ENTRIES \in Nat /\ (index + 1) * ENTRIES = index * ENTRIES + ENTRIES
        /\ Candidates \subseteq 0 .. RootCount - 1
        /\ RootSectors <= index => RootSectors * ENTRIES <= index * ENTRIES
    BY <1>1, <1>3, NumbersAre DEF Candidates, RootCount
  <1>5. faults' \in Nat /\ (faults' = 0 => faults = 0)
    BY <1>1, NoFault DEF FindKernel
  <1>6. CASE faults' # 0
    BY <1>1, <1>2, <1>5, <1>6 DEF KInv, WithVolume
  <1>7. CASE faults' = 0
    <2>1. /\ faults = 0 /\ part = BootStart /\ Unread /\ BootVolume.fat16 /\ Unread
          /\ \A i \in Candidates : index * ENTRIES <= i
      BY <1>1, <1>5, <1>7 DEF KInv, AtVolume, WithVolume
    <2>2. Volume = BootVolume /\ root_sec_cnt = RootSectors
      BY <2>1 DEF Volume, BootVolume, bpb, root_sec_cnt, RootSectors, RootCount
    <2>3. CASE index >= root_sec_cnt
      <3>1. stage' = "error"
        BY <2>3 DEF FindKernel, Failed
      <3>2. Candidates = {}
        <4>1. ASSUME NEW i \in Candidates PROVE FALSE
          BY <1>1, <1>4, <2>1, <2>2, <2>3
        <4> QED BY <4>1
      <3> QED BY <1>1, <1>2, <1>5, <3>1, <3>2 DEF KInv, WithVolume, InKernel, Bootable
    <2>4. CASE ~(index >= root_sec_cnt)
      <3>1. PICK bad \in BOOLEAN :
              /\ Reading(bad)
              /\ IF bad \/ Hits(index) = {}
                 THEN index' = index + 1 /\ UNCHANGED <<stage, part, cluster, elf_load_ptr, range>>
                 ELSE /\ \E k \in Hits(index) :
                           /\ \A j \in Hits(index) : k <= j
                           /\ cluster' = Volume.dir[root_fst_sec + index][k].fst_clus
                      /\ stage' = "load" /\ index' = 0
                      /\ UNCHANGED <<part, elf_load_ptr, range>>
        BY <2>4 DEF FindKernel
      <3>2. ~bad
        BY <1>1, <1>7, <3>1, NoFault
      <3>3. index \in 0 .. RootSectors - 1
        BY <1>1, <1>4, <2>2, <2>4
      <3>4. /\ \A k \in Hits(index) : /\ k \in 1 .. ENTRIES /\ index * ENTRIES + k - 1 \in Candidates
                                      /\ Volume.dir[root_fst_sec + index][k] = RootEntry(index * ENTRIES + k - 1)
            /\ \A i \in Candidates : index * ENTRIES <= i /\ i < (index + 1) * ENTRIES
                 => i + 1 - index * ENTRIES \in Hits(index)
        BY <1>3, <2>1, <3>3, HitsAre
      <3>5. CASE Hits(index) = {}
        <4>1. index' = index + 1 /\ stage' = "root"
          BY <1>1, <3>1, <3>5
        <4>2. ASSUME NEW i \in Candidates PROVE (index + 1) * ENTRIES <= i
          <5>1. ~(i < (index + 1) * ENTRIES) /\ i \in Nat
            BY <1>4, <2>1, <3>4, <3>5
          <5> QED BY <1>1, <1>4, <5>1
        <4> QED BY <1>1, <1>2, <1>5, <2>1, <4>1, <4>2 DEF KInv, Unread, AtVolume, InKernel
      <3>6. CASE Hits(index) # {}
        <4>1. PICK k \in Hits(index) : /\ \A j \in Hits(index) : k <= j
                                       /\ cluster' = Volume.dir[root_fst_sec + index][k].fst_clus
          BY <3>1, <3>2, <3>6
        <4>2. stage' = "load" /\ index' = 0
          BY <3>1, <3>2, <3>6
        <4>3. PICK first : first = index * ENTRIES + k - 1
          OBVIOUS
        <4>4. first \in Candidates /\ cluster' = RootEntry(first).fst_clus /\ k \in 1 .. ENTRIES
          BY <3>4, <4>1, <4>3
        <4>5. ASSUME NEW i \in Candidates PROVE first <= i
          <5>1. i \in Nat /\ index * ENTRIES <= i
            BY <1>4, <2>1
          <5>2. CASE i < (index + 1) * ENTRIES
            <6>1. PICK j \in Hits(index) : j = i + 1 - index * ENTRIES
              BY <3>4, <5>1, <5>2
            <6>2. k <= j /\ j \in 1 .. ENTRIES
              BY <3>4, <4>1
            <6> QED BY <1>4, <4>3, <4>4, <5>1, <6>1, <6>2
          <5>3. CASE ~(i < (index + 1) * ENTRIES)
            BY <1>4, <4>3, <4>4, <5>1, <5>3
          <5> QED BY <5>2, <5>3
        <4>6. First(Candidates) = first
          <5>1. Candidates \subseteq Nat
            BY <1>4
          <5> QED BY <4>4, <4>5, <5>1, FirstIs
        <4>7. cluster' = chain[0]
          BY <4>4, <4>6, ChainIs
        <4>8. AtLoad'
          <5>1. Per \in Nat /\ 0 \in 0 .. Per /\ LoadAt \in Nat /\ LoadAt <= HwMap /\ 0 \in Nat
            BY <1>3, NumbersAre, LayoutAssumption
          <5>2. LoadAt + 0 * Per + 0 = LoadAt
            BY <5>1
          <5>3. FileRead(0, 0)'
            <6>1. elf_load_ptr' = LoadAt + 0 * Per' + 0 /\ elf_load_ptr' <= HwMap
              BY <1>1, <1>2, <2>1, <5>1, <5>2 DEF Unread
            <6>2. 0 .. elf_load_ptr' - LoadAt - 1 = {} /\ 0 .. 0 - 1 = {}
              BY <1>1, <2>1, <5>1 DEF Unread
            <6> QED BY <6>1, <6>2 DEF FileRead, FileIn, AllLegal
          <5> QED BY <1>1, <1>2, <2>1, <4>2, <4>4, <4>7, <5>1, <5>3 DEF AtLoad, Unread
        <4> QED BY <1>1, <1>2, <1>5, <2>1, <4>2, <4>8 DEF KInv, AtVolume, InKernel
      <3> QED BY <3>5, <3>6
    <2> QED BY <2>3, <2>4
  <1> QED BY <1>6, <1>7

-----------------------------------------------------------------------------
(* The file, sector by sector                                               *)
LEMMA SectorIs ==
  ASSUME Formatted(BootVolume, BootStart), part = BootStart,
         NEW c \in Nat, NEW i \in 0 .. Per - 1, chain[c] \in Nat
  PROVE  FileSector(c * Per + i) = data_clus_to_lba28(chain[c]) + i
PROOF
  <1>1. Per \in Nat /\ Per > 0 /\ RootStart \in Nat /\ RootSectors \in Nat
    BY NumbersAre
  <1>2. Volume = BootVolume /\ bpb = BootVolume.bpb /\ root_fst_sec = RootStart
        /\ root_sec_cnt = RootSectors
    BY DEF Volume, BootVolume, bpb, root_fst_sec, fat_fst_sec, RootStart, root_sec_cnt,
           RootSectors, RootCount
  <1>3. PICK k \in Nat : k = c * Per + i
    BY <1>1
  <1>4. k = Per * c + i
    BY <1>1, <1>3
  <1>5. k \div Per = c /\ k % Per = i
    BY <1>1, <1>4, DivIs
  <1>6. FileSector(k) = RootStart + RootSectors + (chain[c] - 2) * Per + i
    BY <1>5 DEF FileSector, Per, RootSectors, RootCount
  <1>7. data_clus_to_lba28(chain[c]) = RootStart + RootSectors + Per * (chain[c] - 2)
    BY <1>2 DEF data_clus_to_lba28, data_fst_sec, Per
  <1>8. Per * (chain[c] - 2) = (chain[c] - 2) * Per
    BY <1>1
  <1> QED BY <1>3, <1>6, <1>7, <1>8

LEMMA LoadSectorKInv == IInv /\ KInv /\ LoadSector => KInv'
PROOF
  <1> SUFFICES ASSUME IInv, KInv, LoadSector PROVE KInv'
    OBVIOUS
  <1>1. /\ stage = "load" /\ a20' = a20 /\ part' = part /\ disk' = disk /\ a20 /\ a20 \in BOOLEAN
        /\ stage' \in {"error", "load"} /\ Active # {} /\ disk \in Disks /\ index \in Nat
        /\ faults \in Nat /\ elf_load_ptr \in Nat /\ elf_load_ptr >= LoadAt /\ DOMAIN mem = Unit
        /\ check_clus(cluster)
    BY DEF LoadSector, KInv, Failed, loader, WithVolume, IInv
  <1>2. Active' = Active /\ BootStart' = BootStart /\ Bootable' = Bootable /\ BootVolume' = BootVolume
        /\ Candidates' = Candidates /\ chain' = chain /\ Per' = Per
        /\ \A k : FileSector(k)' = FileSector(k)
    BY <1>1, SameReference
  <1>3. Formatted(BootVolume, BootStart)
    BY <1>1, BootVolumeIs
  <1>4. Per \in Nat /\ Per > 0 /\ LoadAt \in Nat /\ HwMap \in Nat /\ LoadAt < HwMap
        /\ \A u \in LoadAt .. HwMap - 1 : u \in Unit
    BY <1>3, NumbersAre, LayoutAssumption DEF Unit
  <1>5. faults' \in Nat /\ (faults' = 0 => faults = 0)
    BY <1>1, NoFault DEF LoadSector
  <1>6. CASE faults' # 0
    BY <1>1, <1>2, <1>5, <1>6 DEF KInv, WithVolume
  <1>7. CASE faults' = 0
    <2>1. AtVolume /\ AtLoad /\ faults = 0
      BY <1>1, <1>5, <1>7 DEF KInv, WithVolume
    <2>2. PICK c \in Nat : /\ cluster = chain[c] /\ index \in 0 .. Per
                           /\ FileRead(c, index)
      BY <2>1 DEF AtLoad
    <2>4. index < Per /\ part = BootStart
      BY <2>1 DEF LoadSector, AtVolume, bpb, Volume, BootVolume, Per
    <2>5. CASE Full(elf_load_ptr)
      <3>1. stage' = "error"
        BY <2>5 DEF LoadSector, Failed
      <3>2. ~Bootable
        BY <1>1, <1>4, <2>2, <2>4, <2>5, NoRoom DEF FileRead, Full
      <3> QED BY <1>1, <1>2, <1>5, <3>1, <3>2 DEF KInv, WithVolume, InKernel
    <2>6. CASE ~Full(elf_load_ptr)
      <3>1. PICK bad \in BOOLEAN :
              /\ Reading(bad)
              /\ mem' = [mem EXCEPT ![elf_load_ptr] =
                           IF bad THEN Junk ELSE Sector(data_clus_to_lba28(cluster) + index)]
        BY <2>6 DEF LoadSector
      <3>2. ~bad /\ elf_load_ptr' = elf_load_ptr + 1 /\ index' = index + 1 /\ stage' = "load"
            /\ cluster' = cluster
        BY <1>1, <1>7, <2>6, <3>1, NoFault DEF LoadSector
      <3>3. elf_load_ptr \in LoadAt .. HwMap - 1 /\ elf_load_ptr \in Unit
        BY <1>1, <1>4, <2>6 DEF Full
      <3>4. chain[c] \in Nat
        BY <1>1, <2>1, <2>2, ChainNumbers DEF FileRead, AtLoad
      <3>5. /\ FileSector(c * Per + index) = data_clus_to_lba28(cluster) + index
            /\ elf_load_ptr - LoadAt = c * Per + index /\ c * Per \in Nat
        <4>1. index \in 0 .. Per - 1 /\ c * Per \in Nat
          BY <1>1, <1>4, <2>4
        <4>2. FileSector(c * Per + index) = data_clus_to_lba28(chain[c]) + index
          BY <1>3, <2>4, <3>4, <4>1, SectorIs
        <4>3. elf_load_ptr = LoadAt + c * Per + index
          BY <2>2 DEF FileRead
        <4> QED BY <1>1, <1>4, <2>2, <4>1, <4>2, <4>3
      <3>6. /\ mem'[elf_load_ptr] = Sector(FileSector(elf_load_ptr - LoadAt))
            /\ \A u \in Unit : u # elf_load_ptr => mem'[u] = mem[u]
        BY <1>1, <3>1, <3>2, <3>3, <3>5
      <3>7. ASSUME NEW k \in 0 .. elf_load_ptr' - LoadAt - 1
            PROVE  mem'[LoadAt + k] = Sector(FileSector(k))
        <4>1. k \in Nat /\ k <= elf_load_ptr - LoadAt /\ LoadAt + k \in Unit
          BY <1>1, <1>4, <3>2, <3>3
        <4>2. CASE k = elf_load_ptr - LoadAt
          <5>1. LoadAt + k = elf_load_ptr
            BY <1>1, <1>4, <4>2
          <5> QED BY <3>6, <4>2, <5>1
        <4>3. CASE k # elf_load_ptr - LoadAt
          <5>1. k \in 0 .. elf_load_ptr - LoadAt - 1 /\ LoadAt + k # elf_load_ptr
            BY <1>1, <1>4, <4>1, <4>3
          <5> QED BY <2>2, <3>6, <4>1, <5>1 DEF FileRead, FileIn
        <4> QED BY <4>2, <4>3
      <3>0. PICK n \in Nat : n = index + 1
        BY <1>1
      <3>8. FileRead(c, n)'
        <4>1. FileIn(elf_load_ptr)'
          BY <1>2, <3>7 DEF FileIn, Sector
        <4>2. AllLegal(c)'
          BY <1>2, <2>2 DEF AllLegal, FileRead, check_clus
        <4>3. elf_load_ptr' = LoadAt + c * Per + n /\ elf_load_ptr' <= HwMap
          BY <1>1, <1>4, <3>0, <3>2, <3>3, <3>5
        <4> QED BY <1>2, <3>2, <4>1, <4>2, <4>3 DEF FileRead
      <3>9. AtLoad'
        <4>1. index' = n /\ n \in 0 .. Per /\ elf_load_ptr' # LoadAt
          BY <1>1, <1>4, <2>4, <3>0, <3>2, <3>3
        <4> QED BY <1>1, <1>2, <2>1, <2>2, <3>2, <3>8, <4>1 DEF AtLoad, check_clus
      <3> QED BY <1>1, <1>2, <1>5, <2>1, <3>2, <3>9 DEF KInv, AtVolume, InKernel
    <2> QED BY <2>5, <2>6
  <1> QED BY <1>6, <1>7

LEMMA NextClusterKInv == IInv /\ KInv /\ NextCluster => KInv'
PROOF
  <1> SUFFICES ASSUME IInv, KInv, NextCluster PROVE KInv'
    OBVIOUS
  <1>1. /\ stage = "load" /\ a20' = a20 /\ part' = part /\ disk' = disk /\ a20 /\ a20 \in BOOLEAN
        /\ stage' = "load" /\ Active # {} /\ disk \in Disks /\ index \in Nat
        /\ faults \in Nat /\ elf_load_ptr \in Nat /\ elf_load_ptr' = elf_load_ptr /\ mem' = mem
        /\ check_clus(cluster) /\ index' = 0
    BY DEF NextCluster, KInv, WithVolume, IInv
  <1>2. Active' = Active /\ BootStart' = BootStart /\ Bootable' = Bootable /\ BootVolume' = BootVolume
        /\ Candidates' = Candidates /\ chain' = chain /\ Per' = Per
        /\ \A k : FileSector(k)' = FileSector(k)
    BY <1>1, SameReference
  <1>3. Formatted(BootVolume, BootStart)
    BY <1>1, BootVolumeIs
  <1>4. Per \in Nat /\ Per > 0 /\ LoadAt \in Nat
    BY <1>3, NumbersAre, LayoutAssumption
  <1>5. PICK bad \in BOOLEAN : /\ Reading(bad)
                               /\ ~bad => cluster' = Volume.fat[cluster]
    BY DEF NextCluster
  <1>6. faults' \in Nat /\ (faults' = 0 => faults = 0 /\ ~bad)
    BY <1>1, <1>5, NoFault
  <1>7. CASE faults' # 0
    BY <1>1, <1>2, <1>6, <1>7 DEF KInv, WithVolume
  <1>8. CASE faults' = 0
    <2>1. AtVolume /\ AtLoad
      BY <1>1, <1>6, <1>8 DEF KInv, WithVolume
    <2>2. PICK c \in Nat : /\ cluster = chain[c] /\ index \in 0 .. Per
                           /\ FileRead(c, index)
      BY <2>1 DEF AtLoad
    <2>3. index = Per /\ cluster' = BootVolume.fat[cluster]
      BY <1>5, <1>6, <1>8, <2>1 DEF NextCluster, AtVolume, bpb, Volume, BootVolume, Per
    <2>4. c + 1 \in Nat /\ cluster' = chain[c + 1]
      BY <2>2, <2>3, ChainIs
    <2>5. FileRead(c + 1, 0)'
      <3>1. LoadAt + (c + 1) * Per + 0 = LoadAt + c * Per + Per
        BY <1>4
      <3>2. FileIn(elf_load_ptr)' /\ elf_load_ptr <= HwMap /\ elf_load_ptr = LoadAt + (c + 1) * Per + 0
        BY <1>1, <1>2, <2>2, <2>3, <3>1 DEF FileRead, FileIn, Sector
      <3>3. AllLegal(c + 1)'
        <4>1. ASSUME NEW i \in 0 .. c + 1 - 1 PROVE check_clus(chain[i])
          <5>1. i = c \/ i \in 0 .. c - 1
            OBVIOUS
          <5> QED BY <1>1, <2>2, <5>1 DEF FileRead, AllLegal
        <4> QED BY <1>2, <4>1 DEF AllLegal, check_clus
      <3> QED BY <1>1, <1>2, <3>2, <3>3 DEF FileRead
    <2>6. AtLoad'
      <3>1. 0 \in 0 .. Per
        BY <1>4
      <3> QED BY <1>1, <1>2, <2>1, <2>4, <2>5, <3>1 DEF AtLoad
    <2> QED BY <1>1, <1>2, <1>6, <2>1, <2>6 DEF KInv, AtVolume, InKernel
  <1> QED BY <1>7, <1>8

(* The whole file has been read: the magic number tells if it is a kernel.  *)
LEMMA CheckMagicKInv == IInv /\ KInv /\ CheckMagic => KInv'
PROOF
  <1> SUFFICES ASSUME IInv, KInv, CheckMagic PROVE KInv'
    OBVIOUS
  <1>1. /\ stage = "load" /\ a20' = a20 /\ part' = part /\ disk' = disk /\ a20 /\ a20 \in BOOLEAN
        /\ stage' \in {"error", "segments"} /\ Active # {} /\ disk \in Disks
        /\ faults \in Nat /\ elf_load_ptr \in Nat /\ elf_load_ptr' = elf_load_ptr /\ mem' = mem
        /\ ~check_clus(cluster) /\ faults' = faults
    BY DEF CheckMagic, KInv, WithVolume, IInv, Failed, loader
  <1>2. Active' = Active /\ BootStart' = BootStart /\ Bootable' = Bootable /\ BootVolume' = BootVolume
        /\ Candidates' = Candidates /\ chain' = chain /\ Per' = Per /\ KernelFile' = KernelFile
        /\ \A k : FileSector(k)' = FileSector(k)
    BY <1>1, SameReference
  <1>3. Formatted(BootVolume, BootStart)
    BY <1>1, BootVolumeIs
  <1>4. Per \in Nat /\ Per > 0 /\ LoadAt \in Nat /\ HwMap \in Nat /\ LoadAt < HwMap /\ MemSize \in Nat
    BY <1>3, NumbersAre, LayoutAssumption
  <1>5. CASE faults # 0
    BY <1>1, <1>2, <1>5 DEF KInv, WithVolume
  <1>6. CASE faults = 0
    <2>1. AtVolume /\ AtLoad
      BY <1>1, <1>6 DEF KInv, WithVolume
    <2>2. PICK c \in Nat : /\ cluster = chain[c] /\ index = 0 /\ FileRead(c, 0)
      BY <1>1, <2>1 DEF AtLoad
    <2>3. c * Per \in Nat /\ elf_load_ptr = LoadAt + c * Per /\ elf_load_ptr <= HwMap
      BY <1>4, <2>2 DEF FileRead
    <2>4. CASE c = 0
      <3>1. mem[LoadAt] = Junk
        BY <1>4, <2>1, <2>3, <2>4 DEF AtLoad
      <3>2. Header = {}
        BY <3>1 DEF Header, Junk, Sector
      <3>3. stage' = "error"
        BY <3>2 DEF CheckMagic, Failed
      <3>4. ~Bootable
        BY <1>1, <2>2, <2>4, NoFile
      <3> QED BY <1>1, <1>2, <3>3, <3>4 DEF KInv, WithVolume, InKernel
    <2>5. CASE c # 0
      <3>1. mem[LoadAt] = Sector(FileSector(0))
        <4>1. Per <= c * Per
          BY <1>4, <2>5
        <4>2. 0 \in 0 .. elf_load_ptr - LoadAt - 1 /\ LoadAt + 0 = LoadAt
          BY <1>1, <1>4, <2>3, <4>1
        <4> QED BY <2>2, <4>2 DEF FileRead, FileIn
      <3>2. Volume = BootVolume
        BY <2>1 DEF AtVolume, Volume, BootVolume
      <3>3. \A a, b : Sector(a) = Sector(b) => a = b
        BY DEF Sector
      <3>4. CASE FileSector(0) \notin DOMAIN BootVolume.elf
        <4>1. Header = {}
          BY <3>1, <3>2, <3>3, <3>4 DEF Header
        <4>2. stage' = "error" /\ ~Bootable
          BY <3>4, <4>1 DEF CheckMagic, Failed, Bootable
        <4> QED BY <1>1, <1>2, <4>2 DEF KInv, WithVolume, InKernel
      <3>5. CASE FileSector(0) \in DOMAIN BootVolume.elf
        <4>1. mem[LoadAt][2] = FileSector(0)
          BY <3>1 DEF Sector
        <4>2. Header = {KernelFile}
          BY <3>1, <3>2, <3>5, <4>1 DEF Header, KernelFile
        <4>3. stage' = "segments" /\ index' = 1 /\ range' = <<MemSize, 0>>
          BY <4>2 DEF CheckMagic, Failed
        <4>4. Bootable
          BY <1>1, <2>1, <2>2, <2>3, <2>5, <3>5, Ended DEF AtVolume, AtLoad, FileRead
        <4>5. FileRead(c, 0)'
          <5>1. 0 \in Nat /\ \A u \in LoadAt .. HwMap - 1 : mem'[u] = mem[u]
            BY <1>1
          <5> QED BY <1>1, <2>2, <5>1, FileKept
        <4>6. AtSegments'
          <5>1. range'[1] = MemSize /\ range'[2] = 0 /\ 1 .. 0 = {} /\ index' - 1 = 0
            BY <4>3
          <5>2. Header' = Header
            BY <1>1, SameHeader
          <5>3. ~check_clus(chain[c])'
            BY <1>1, <1>2, <2>2 DEF check_clus
          <5>4. Placed(index - 1)'
            BY <5>1 DEF Placed
          <5>5. StartsAt(KernelFile, index - 1, range[1])'
            BY <5>1 DEF StartsAt
          <5> QED BY <1>1, <1>2, <1>4, <4>2, <4>3, <4>4, <4>5, <5>1, <5>2, <5>3, <5>4, <5>5 DEF AtSegments
        <4> QED BY <1>1, <1>2, <2>1, <4>3, <4>6 DEF KInv, AtVolume, InKernel
      <3> QED BY <3>4, <3>5
    <2> QED BY <2>4, <2>5
  <1> QED BY <1>5, <1>6

-----------------------------------------------------------------------------
(* The segments of the file: apart, and behind the memory of the hardware   *)
LEMMA KernelFileIs ==
  ASSUME disk \in Disks, Active # {}, Bootable
  PROVE  /\ KernelFile \in Seq(ProgramHeader) /\ Linked(KernelFile)
         /\ \A i \in 1 .. Len(KernelFile) :
              /\ KernelFile[i].paddr \in Nat /\ KernelFile[i].memsz \in Nat
              /\ KernelFile[i].filesz \in Nat /\ KernelFile[i].offset \in Nat
         /\ \A i \in 1 .. Len(KernelFile) : ~Skipped(KernelFile[i]) =>
              /\ KernelFile[i].paddr >= HwEnd /\ KernelFile[i].memsz > 0
              /\ KernelFile[i].paddr + KernelFile[i].memsz <= MemSize
              /\ KernelFile[i] \in Segments(KernelFile)
PROOF
  <1>1. FileSector(0) \in DOMAIN BootVolume.elf
    BY DEF Bootable
  <1>2. /\ Linked(KernelFile) /\ KernelFile \in Seq(ProgramHeader)
        /\ \A i \in DOMAIN KernelFile : InHighMemory(KernelFile[i])
    BY <1>1, BootVolumeIs DEF KernelFile
  <1> DEFINE elf == KernelFile
  <1> HIDE DEF elf
  <1>3. elf \in Seq(ProgramHeader) /\ Linked(elf) /\ \A i \in DOMAIN elf : InHighMemory(elf[i])
    BY <1>2 DEF elf
  <1>4. DOMAIN elf = 1 .. Len(elf) /\ \A i \in 1 .. Len(elf) : elf[i] \in ProgramHeader
    BY <1>3
  <1>5. \A i \in 1 .. Len(elf) : /\ elf[i].paddr \in Nat /\ elf[i].memsz \in Nat
                                 /\ elf[i].filesz \in Nat /\ elf[i].offset \in Nat
    BY <1>4 DEF ProgramHeader
  <1>6. ASSUME NEW i \in 1 .. Len(elf), ~Skipped(elf[i])
        PROVE  /\ elf[i].paddr >= HwEnd /\ elf[i].memsz > 0 /\ elf[i].paddr + elf[i].memsz <= MemSize
               /\ elf[i] \in Segments(elf)
    <2>1. elf[i].type = "LOAD" /\ elf[i].memsz > 0
      BY <1>5, <1>6 DEF Skipped
    <2>2. elf[i].paddr >= HwEnd
      BY <1>3, <1>4, <1>5, <2>1, SMTT(60) DEF InHighMemory
    <2>3. elf[i].paddr + elf[i].memsz <= MemSize
      BY <1>3, <1>4, <1>6 DEF Linked
    <2>4. elf[i] \in Segments(elf)
      BY <1>4, <2>1 DEF Segments
    <2> QED BY <2>1, <2>2, <2>3, <2>4
  <1> QED BY <1>3, <1>5, <1>6 DEF elf

(* The data of a segment has been read, if the chain is as long as it needs. *)
LEMMA DataRead ==
  ASSUME disk \in Disks, Active # {}, Bootable, Whole(KernelFile),
         NEW s \in Segments(KernelFile), NEW k \in Nat, k < s.filesz, s.offset \in Nat, s.filesz \in Nat,
         NEW c \in Nat, ~check_clus(chain[c]), FileRead(c, 0)
  PROVE  mem[LoadAt + s.offset + k] = Sector(FileSector(s.offset + k))
PROOF
  <1>1. Per \in Nat /\ Per > 0 /\ LoadAt \in Nat
    BY BootVolumeIs, NumbersAre, LayoutAssumption
  <1>2. PICK j \in Nat : j = s.offset + k
    OBVIOUS
  <1>3. j < c * Per
    <2>1. SUFFICES ASSUME c * Per <= j PROVE FALSE
      BY <1>1, <1>2
    <2>2. PICK n \in Nat : n = c * Per
      BY <1>1
    <2>3. n \in 0 .. s.offset + s.filesz - 1
      BY <1>2, <2>1, <2>2
    <2>4. n = Per * c + 0 /\ 0 \in 0 .. Per - 1
      BY <1>1, <2>2
    <2>5. n \div Per = c
      BY <1>1, <2>4, DivIs
    <2>6. check_clus(chain[n \div Per])
      BY <2>3 DEF Whole, Per
    <2> QED BY <2>5, <2>6
  <1>4. j \in 0 .. elf_load_ptr - LoadAt - 1
    BY <1>1, <1>3 DEF FileRead
  <1>5. mem[LoadAt + j] = Sector(FileSector(j))
    BY <1>4 DEF FileRead, FileIn
  <1>6. LoadAt + j = LoadAt + s.offset + k
    BY <1>1, <1>2
  <1> QED BY <1>2, <1>5, <1>6

LEMMA StartMoves ==
  ASSUME NEW elf, NEW n \in Nat, n # 0, NEW a \in Nat, StartsAt(elf, n - 1, a),
         \A i \in 1 .. n : elf[i].paddr \in Nat
  PROVE  /\ Skipped(elf[n]) => StartsAt(elf, n, a)
         /\ ~Skipped(elf[n]) => /\ Smaller(a, elf[n].paddr) \in Nat
                                /\ StartsAt(elf, n, Smaller(a, elf[n].paddr))
PROOF
  <1>1. /\ n \in 1 .. n
        /\ \A i : i \in 1 .. n <=> i \in 1 .. n - 1 \/ i = n
    OBVIOUS
  <1>2. CASE Skipped(elf[n])
    BY <1>1, <1>2 DEF StartsAt
  <1>3. CASE ~Skipped(elf[n])
    <2>1. PICK b \in Nat : b = Smaller(a, elf[n].paddr)
      BY <1>1 DEF Smaller
    <2>2. b <= a /\ b <= elf[n].paddr /\ (b = a \/ b = elf[n].paddr)
      BY <1>1, <2>1 DEF Smaller
    <2>3. ASSUME NEW i \in 1 .. n, ~Skipped(elf[i]) PROVE b <= elf[i].paddr
      <3>1. CASE i = n
        BY <2>2, <3>1
      <3>2. CASE i \in 1 .. n - 1
        <4>1. a <= elf[i].paddr /\ elf[i].paddr \in Nat
          BY <2>3, <3>2 DEF StartsAt
        <4> QED BY <2>2, <4>1
      <3> QED BY <1>1, <3>1, <3>2
    <2>4. b = MemSize \/ \E i \in 1 .. n : ~Skipped(elf[i]) /\ elf[i].paddr = b
      <3>1. CASE b = elf[n].paddr
        BY <1>1, <1>3, <3>1
      <3>2. CASE b = a
        BY <1>1, <3>2 DEF StartsAt
      <3> QED BY <2>2, <3>1, <3>2
    <2> QED BY <1>3, <2>1, <2>3, <2>4 DEF StartsAt
  <1> QED BY <1>2, <1>3

(* A segment that is in place stays there as long as its memory does.       *)
LEMMA StaysInPlace ==
  ASSUME disk' = disk, a20' = a20, NEW s, InPlace(s),
         \A k \in 0 .. s.memsz - 1 : mem'[s.paddr + k] = mem[s.paddr + k]
  PROVE  InPlace(s)'
PROOF
  <1>1. \A k : FileSector(k)' = FileSector(k)
    BY SameReference
  <1> QED BY <1>1 DEF InPlace, Promised, Sector, Zero

LEMMA LoadSegmentKInv == IInv /\ KInv /\ LoadSegment => KInv'
PROOF
  <1> SUFFICES ASSUME IInv, KInv, LoadSegment PROVE KInv'
    OBVIOUS
  <1>1. /\ stage = "segments" /\ a20' = a20 /\ part' = part /\ disk' = disk /\ a20 /\ a20 \in BOOLEAN
        /\ stage' = "segments" /\ Active # {} /\ disk \in Disks /\ index \in Nat /\ index >= 1
        /\ index' = index + 1
        /\ faults \in Nat /\ elf_load_ptr \in Nat /\ elf_load_ptr' = elf_load_ptr
        /\ faults' = faults /\ DOMAIN mem = Unit
    BY DEF LoadSegment, KInv, WithVolume, IInv, After
  <1>2. Active' = Active /\ BootStart' = BootStart /\ Bootable' = Bootable /\ BootVolume' = BootVolume
        /\ chain' = chain /\ Per' = Per /\ KernelFile' = KernelFile
        /\ Whole(KernelFile)' = Whole(KernelFile)
        /\ \A k : FileSector(k)' = FileSector(k)
    BY <1>1, SameReference
  <1>3. CASE faults # 0
    BY <1>1, <1>2, <1>3 DEF KInv, WithVolume
  <1>4. CASE faults = 0
    <2>1. AtVolume /\ AtSegments
      BY <1>1, <1>4 DEF KInv, WithVolume
    <2>0. PICK elf : elf = KernelFile
      OBVIOUS
    <2>2. /\ Bootable /\ Header = {elf} /\ Placed(index - 1)
          /\ range = <<range[1], range[2]>> /\ range[1] \in Nat /\ range[2] \in Nat
          /\ StartsAt(elf, index - 1, range[1])
      BY <2>0, <2>1 DEF AtSegments
    <2>3. PICK c \in Nat : ~check_clus(chain[c]) /\ FileRead(c, 0)
      BY <2>1 DEF AtSegments
    <2>4. /\ elf \in Seq(ProgramHeader) /\ Linked(elf)
          /\ \A i \in 1 .. Len(elf) :
              /\ elf[i].paddr \in Nat /\ elf[i].memsz \in Nat
              /\ elf[i].filesz \in Nat /\ elf[i].offset \in Nat
          /\ \A i \in 1 .. Len(elf) : ~Skipped(elf[i]) =>
              /\ elf[i].paddr >= HwEnd /\ elf[i].memsz > 0
              /\ elf[i].paddr + elf[i].memsz <= MemSize
              /\ elf[i] \in Segments(elf)
      BY <1>1, <2>0, <2>2, KernelFileIs
    <2>5. /\ index <= Len(elf)
          /\ LET s == elf[index] IN
             IF Skipped(s) THEN UNCHANGED <<mem, range>>
             ELSE /\ mem' = [u \in Unit |-> IF u \in s.paddr .. s.paddr + s.memsz - 1
                                            THEN Loaded(s, u) ELSE mem[u]]
                  /\ range' = <<Smaller(range[1], s.paddr), Larger(range[2], s.paddr + s.memsz)>>
      BY <2>2 DEF LoadSegment
    <2>6. /\ Len(elf) \in Nat /\ index \in 1 .. Len(elf) /\ index' - 1 = index /\ index # 0
          /\ \A i : i \in 1 .. index <=> i \in 1 .. index - 1 \/ i = index
          /\ \A i \in 1 .. index : i \in 1 .. Len(elf)
      BY <1>1, <2>4, <2>5
    <2>7. /\ LoadAt \in Nat /\ HwMap \in Nat /\ HwEnd \in Nat /\ LoadAt < HwMap /\ HwMap < HwEnd
          /\ MemSize \in Nat /\ HwEnd < MemSize /\ LoadAt \in LoadAt .. HwMap - 1
          /\ \A u \in LoadAt .. HwMap - 1 : u \in Unit /\ u < HwEnd
      BY LayoutAssumption DEF Unit
    (* What is left to show of the state after the step                     *)
    <2>8. ASSUME range' = <<range'[1], range'[2]>>, range'[1] \in Nat, range'[2] \in Nat,
                 StartsAt(elf, index, range'[1]),
                 \A u \in LoadAt .. HwMap - 1 : mem'[u] = mem[u],
                 Whole(elf) => \A i \in 1 .. index : ~Skipped(elf[i]) => InPlace(elf[i])'
          PROVE  KInv'
      <3>1. Header' = Header
        BY <1>1, <2>7, <2>8, SameHeader
      <3>2. FileRead(c, 0)'
        <4>1. 0 \in Nat
          OBVIOUS
        <4> QED BY <1>1, <2>3, <2>8, <4>1, FileKept
      <3>3. ~check_clus(chain[c])'
        BY <1>2, <2>3 DEF check_clus
      <3>4. StartsAt(KernelFile, index - 1, range[1])'
        <4>1. StartsAt(elf, index' - 1, range'[1])
          BY <2>6, <2>8
        <4> QED BY <1>2, <4>1, <2>0 DEF StartsAt, Skipped
      <3>5. Placed(index - 1)'
        BY <1>2, <2>6, <2>8, <2>0 DEF Placed, Skipped
      <3>6. AtSegments'
        BY <1>2, <2>2, <2>8, <3>1, <3>2, <3>3, <3>4, <3>5, <2>0 DEF AtSegments
      <3> QED BY <1>1, <1>2, <2>1, <3>6 DEF KInv, AtVolume, InKernel
    <2>9. CASE Skipped(elf[index])
      <3>1. mem' = mem /\ range' = range
        BY <2>5, <2>9
      <3>2. StartsAt(elf, index, range'[1])
        <4>1. \A i \in 1 .. index : elf[i].paddr \in Nat
          BY <2>4, <2>6
        <4> QED BY <1>1, <2>2, <2>6, <2>9, <3>1, <4>1, StartMoves
      <3>3. ASSUME Whole(elf), NEW i \in 1 .. index, ~Skipped(elf[i])
            PROVE  InPlace(elf[i])'
        <4>1. i \in 1 .. index - 1
          BY <2>6, <2>9, <3>3
        <4>2. InPlace(elf[i])
          BY <2>2, <3>3, <4>1, <2>0 DEF Placed
        <4> QED BY <1>1, <3>1, <4>2, StaysInPlace
      <3> QED BY <2>2, <2>8, <3>1, <3>2, <3>3
    <2>10. CASE ~Skipped(elf[index])
      <3>1. PICK s : s = elf[index]
        OBVIOUS
      <3>2. /\ mem' = [u \in Unit |-> IF u \in s.paddr .. s.paddr + s.memsz - 1
                                      THEN Loaded(s, u) ELSE mem[u]]
            /\ range' = <<Smaller(range[1], s.paddr), Larger(range[2], s.paddr + s.memsz)>>
        BY <2>5, <2>10, <3>1
      <3>3. /\ s.paddr \in Nat /\ s.memsz \in Nat /\ s.filesz \in Nat /\ s.offset \in Nat
            /\ s.paddr >= HwEnd /\ s.memsz > 0 /\ s.paddr + s.memsz <= MemSize
            /\ s \in Segments(elf)
        BY <2>4, <2>6, <2>10, <3>1
      <3>4. StartsAt(elf, index, range'[1]) /\ range'[1] \in Nat
        <4>1. \A i \in 1 .. index : elf[i].paddr \in Nat
          BY <2>4, <2>6
        <4>2. range'[1] = Smaller(range[1], elf[index].paddr)
          BY <3>1, <3>2
        <4> QED BY <1>1, <2>2, <2>6, <2>10, <4>1, <4>2, StartMoves, SMTT(60)
      <3>5. range' = <<range'[1], range'[2]>> /\ range'[2] \in Nat
        <4>1. range'[2] = Larger(range[2], s.paddr + s.memsz) /\ range' = <<range'[1], range'[2]>>
          BY <3>2
        <4> QED BY <2>2, <3>3, <4>1 DEF Larger
      <3>6. \A u \in LoadAt .. HwMap - 1 : mem'[u] = mem[u]
        BY <2>7, <3>2, <3>3
      <3>7. ASSUME Whole(elf), NEW k \in 0 .. s.memsz - 1
            PROVE  mem'[s.paddr + k] = Promised(s, k)
        <4>1. PICK u : u = s.paddr + k
          OBVIOUS
        <4>2. u \in Unit /\ u \in s.paddr .. s.paddr + s.memsz - 1 /\ u - s.paddr = k /\ k \in Nat
          BY <2>7, <3>3, <4>1 DEF Unit
        <4>3. mem'[u] = Loaded(s, u)
          BY <3>2, <4>2
        <4>4. CASE k < s.filesz
          <5>1. mem'[u] = mem[LoadAt + s.offset + k]
            BY <4>2, <4>3, <4>4 DEF Loaded
          <5>2. mem[LoadAt + s.offset + k] = Sector(FileSector(s.offset + k))
            BY <1>1, <2>2, <2>3, <3>3, <3>7, <4>2, <4>4, DataRead, <2>0
          <5> QED BY <4>1, <4>4, <5>1, <5>2 DEF Promised
        <4>5. CASE ~(k < s.filesz)
          BY <4>1, <4>2, <4>3, <4>5 DEF Loaded, Promised
        <4> QED BY <4>4, <4>5
      <3>8. ASSUME Whole(elf), NEW i \in 1 .. index, ~Skipped(elf[i])
            PROVE  InPlace(elf[i])'
        <4>1. CASE i = index
          BY <1>2, <3>1, <3>7, <3>8, <4>1 DEF InPlace, Promised, Sector, Zero
        <4>2. CASE i \in 1 .. index - 1
          <5>1. InPlace(elf[i])
            BY <2>2, <3>8, <4>2, <2>0 DEF Placed
          <5>2. PICK q : q = elf[i]
            OBVIOUS
          <5>3. /\ q.paddr \in Nat /\ q.memsz \in Nat /\ q.paddr + q.memsz <= MemSize
                /\ q.paddr + q.memsz <= s.paddr \/ s.paddr + s.memsz <= q.paddr
            <6>1. i \in 1 .. Len(elf) /\ i # index /\ DOMAIN elf = 1 .. Len(elf)
              BY <2>4, <2>6, <4>2
            <6>2. \/ elf[i].paddr + elf[i].memsz <= elf[index].paddr
                  \/ elf[index].paddr + elf[index].memsz <= elf[i].paddr
              BY <2>4, <2>6, <2>10, <3>8, <6>1 DEF Linked
            <6> QED BY <2>4, <3>1, <3>8, <5>2, <6>1, <6>2
          <5>4. ASSUME NEW k \in 0 .. q.memsz - 1
                PROVE  mem'[q.paddr + k] = mem[q.paddr + k]
            <6>1. PICK u : u = q.paddr + k
              OBVIOUS
            <6>2. u \in Unit /\ u \notin s.paddr .. s.paddr + s.memsz - 1
              BY <2>7, <3>3, <5>3, <6>1 DEF Unit
            <6> QED BY <3>2, <6>1, <6>2
          <5> QED BY <1>1, <5>1, <5>2, <5>4, StaysInPlace
        <4> QED BY <2>6, <4>1, <4>2
      <3> QED BY <2>8, <3>4, <3>5, <3>6, <3>8
    <2> QED BY <2>9, <2>10
  <1> QED BY <1>3, <1>4

-----------------------------------------------------------------------------
(* The kernel keeps what it was loaded with, and its arguments.             *)
LEMMA EnteredStays ==
  ASSUME disk \in Disks, disk' = disk, a20' = a20, Active # {}, Bootable,
         Placed(Len(KernelFile)), NEW args, Entered(args), mem'[ArgsAt] = args,
         \A i \in 1 .. Len(KernelFile) : ~Skipped(KernelFile[i]) =>
            \A u \in KernelFile[i].paddr .. KernelFile[i].paddr + KernelFile[i].memsz - 1 :
              mem'[u] = mem[u]
  PROVE  Bootable' /\ Placed(Len(KernelFile))' /\ Entered(mem[ArgsAt])'
PROOF
  <1>0. PICK elf : elf = KernelFile
    OBVIOUS
  <1>1. KernelFile' = elf /\ Whole(elf)' = Whole(elf) /\ Bootable' = Bootable
    <2>1. KernelFile' = KernelFile /\ Whole(KernelFile)' = Whole(KernelFile) /\ Bootable' = Bootable
      BY SameReference
    <2> QED BY <1>0, <2>1 DEF Whole
  <1>2. \A i \in 1 .. Len(elf) : elf[i].paddr \in Nat /\ elf[i].memsz \in Nat
    BY <1>0, KernelFileIs
  <1>3. ASSUME Whole(elf), NEW i \in 1 .. Len(elf), ~Skipped(elf[i])
        PROVE  InPlace(elf[i])'
    <2>1. PICK s : s = elf[i]
      OBVIOUS
    <2>2. s.paddr \in Nat /\ s.memsz \in Nat /\ InPlace(s)
      BY <1>0, <1>2, <1>3, <2>1 DEF Placed
    <2>3. ASSUME NEW k \in 0 .. s.memsz - 1 PROVE mem'[s.paddr + k] = mem[s.paddr + k]
      <3>1. s.paddr + k \in s.paddr .. s.paddr + s.memsz - 1
        BY <2>2
      <3> QED BY <1>0, <1>3, <2>1, <3>1, SMTT(60)
    <2> QED BY <2>1, <2>2, <2>3, StaysInPlace
  <1>4. Placed(Len(KernelFile))'
    BY <1>1, <1>3 DEF Placed, Skipped
  <1>5. Entered(mem[ArgsAt])'
    <2>1. /\ args = <<"args", args[2], args[3]>> /\ args[2] \in Nat /\ args[3] \in Nat
          /\ StartsAt(elf, Len(elf), args[2]) /\ EndsAt(elf, Len(elf), args[3])
      BY <1>0 DEF Entered
    <2> QED BY <1>1, <2>1 DEF Entered, StartsAt, EndsAt, Skipped
  <1> QED BY <1>1, <1>4, <1>5

(* What is written for the kernel: a word, and the range.                    *)
LEMMA ArgsJoined == ASSUME NEW t, NEW a, NEW b PROVE <<t>> \o <<a, b>> = <<t, a, b>>
PROOF
  <1> DEFINE S == {t, a, b}
             x == <<t>> \o <<a, b>>
             y == <<t, a, b>>
  <1>1. Len(x) = 3 /\ Len(y) = 3
    OBVIOUS
  <1>2. x[1] = t /\ x[2] = a /\ x[3] = b
    OBVIOUS
  <1>3. y[1] = t /\ y[2] = a /\ y[3] = b
    OBVIOUS
  <1>4. x \in Seq(S)
    <2>1. <<t>> \in Seq(S) /\ <<a, b>> \in Seq(S)
      OBVIOUS
    <2> HIDE DEF S
    <2> QED BY <2>1
  <1>5. y \in Seq(S)
    OBVIOUS
  <1> HIDE DEF x, y
  <1>6. x = [i \in 1 .. 3 |-> x[i]]
    BY <1>1, <1>4
  <1>7. y = [i \in 1 .. 3 |-> y[i]]
    BY <1>1, <1>5
  <1>8. x = y
    BY <1>2, <1>3, <1>6, <1>7
  <1> QED BY <1>8 DEF x, y

LEMMA EnterKernelKInv == IInv /\ HInv /\ KInv /\ EnterKernel => KInv'
PROOF
  <1> SUFFICES ASSUME IInv, HInv, KInv, EnterKernel PROVE KInv'
    OBVIOUS
  <1>1. /\ stage = "segments" /\ a20' = a20 /\ part' = part /\ disk' = disk /\ a20 /\ a20 \in BOOLEAN
        /\ stage' = "kernel" /\ Active # {} /\ disk \in Disks /\ index \in Nat
        /\ faults \in Nat /\ faults' = faults /\ DOMAIN mem = Unit
        /\ mem' = [mem EXCEPT ![ArgsAt] = <<"args">> \o range]
        /\ \A elf \in Header : index > Len(elf)
    BY DEF EnterKernel, KInv, WithVolume, IInv, loader
  <1>2. Active' = Active /\ BootStart' = BootStart /\ Bootable' = Bootable /\ BootVolume' = BootVolume
    BY <1>1, SameReference
  <1>3. CASE faults # 0
    BY <1>1, <1>2, <1>3 DEF KInv, WithVolume
  <1>4. CASE faults = 0
    <2>1. AtVolume /\ AtSegments
      BY <1>1, <1>4 DEF KInv, WithVolume
    <2>2. PICK elf : elf = KernelFile
      OBVIOUS
    <2>3. /\ Bootable /\ Header = {elf} /\ Placed(index - 1)
          /\ range = <<range[1], range[2]>> /\ range[1] \in Nat /\ range[2] \in Nat
          /\ StartsAt(elf, index - 1, range[1])
      BY <2>1, <2>2 DEF AtSegments
    <2>4. /\ Len(elf) \in Nat
          /\ \A i \in 1 .. Len(elf) : elf[i].paddr \in Nat /\ elf[i].memsz \in Nat
                                      /\ (~Skipped(elf[i]) => elf[i].paddr >= HwEnd)
      <3>1. elf \in Seq(ProgramHeader)
        BY <1>1, <2>2, <2>3, KernelFileIs
      <3> QED BY <1>1, <2>2, <2>3, <3>1, KernelFileIs
    <2>5. index - 1 <= Len(elf) /\ EndsAt(elf, index - 1, range[2])
      BY <1>1, <2>3 DEF HInv
    <2>6. index - 1 = Len(elf)
      BY <1>1, <2>3, <2>4, <2>5
    <2>7. PICK args : args = <<"args", range[1], range[2]>>
      OBVIOUS
    <2>8. ArgsAt \in Unit /\ ArgsAt \in Nat /\ HwEnd \in Nat /\ ArgsAt < HwEnd
      BY LayoutAssumption DEF Unit
    <2>9. mem'[ArgsAt] = args
      <3>1. \A a, b : <<"args">> \o <<a, b>> = <<"args", a, b>>
        BY ArgsJoined
      <3> QED BY <1>1, <2>3, <2>7, <2>8, <3>1
    <2>10. Entered(args)
      <3>1. args[2] = range[1] /\ args[3] = range[2] /\ args = <<"args", args[2], args[3]>>
        BY <2>7
      <3>2. StartsAt(elf, Len(elf), args[2]) /\ EndsAt(elf, Len(elf), args[3])
        BY <2>3, <2>5, <2>6, <3>1
      <3> QED BY <2>2, <2>3, <3>1, <3>2 DEF Entered
    <2>11. ASSUME NEW i \in 1 .. Len(elf), ~Skipped(elf[i]),
                  NEW u \in elf[i].paddr .. elf[i].paddr + elf[i].memsz - 1
           PROVE  mem'[u] = mem[u]
      <3>1. PICK p \in Nat : p = elf[i].paddr
        BY <2>4
      <3>2. p >= HwEnd /\ u >= p /\ u \in Int
        BY <2>4, <2>11, <3>1
      <3>3. u # ArgsAt
        BY <2>8, <3>1, <3>2
      <3> QED BY <1>1, <3>3
    <2>12. Bootable' /\ Placed(Len(KernelFile))' /\ Entered(mem[ArgsAt])'
      BY <1>1, <2>2, <2>3, <2>6, <2>9, <2>10, <2>11, EnteredStays
    <2> QED BY <1>1, <1>2, <2>1, <2>12 DEF KInv, AtVolume
  <1> QED BY <1>3, <1>4

LEMMA InitPmuKInv == IInv /\ KInv /\ InitPmu => KInv'
PROOF
  <1> SUFFICES ASSUME IInv, KInv, InitPmu PROVE KInv'
    OBVIOUS
  <1>1. /\ stage = "kernel" /\ a20' = a20 /\ part' = part /\ disk' = disk /\ mem' = mem
        /\ a20 /\ a20 \in BOOLEAN /\ faults \in Nat /\ faults' = faults
        /\ stage' \in {"paging", "panic"} /\ Active # {} /\ disk \in Disks
    BY DEF InitPmu, KInv, WithVolume, IInv, loader
  <1>2. Active' = Active /\ BootStart' = BootStart /\ BootVolume' = BootVolume
    BY <1>1, SameReference
  <1>3. faults = 0 => Bootable' /\ Placed(Len(KernelFile))' /\ Entered(mem[ArgsAt])' /\ AtVolume
    <2>1. SUFFICES ASSUME faults = 0
                   PROVE  Bootable' /\ Placed(Len(KernelFile))' /\ Entered(mem[ArgsAt])' /\ AtVolume
      OBVIOUS
    <2>2. Bootable /\ Placed(Len(KernelFile)) /\ Entered(mem[ArgsAt]) /\ AtVolume
      BY <1>1, <2>1 DEF KInv, InKernel, WithVolume
    <2> QED BY <1>1, <2>2, EnteredStays
  <1> QED BY <1>1, <1>2, <1>3 DEF KInv, AtVolume, WithVolume, InKernel

(* The page tables lie behind the end of the kernel.                        *)
LEMMA InitPagesKInv == IInv /\ HInv /\ KInv /\ InitPages => KInv'
PROOF
  <1> SUFFICES ASSUME IInv, HInv, KInv, InitPages PROVE KInv'
    OBVIOUS
  <1>1. /\ stage = "paging" /\ a20' = a20 /\ part' = part /\ disk' = disk
        /\ a20 /\ a20 \in BOOLEAN /\ faults \in Nat /\ faults' = faults
        /\ stage' \in {"running", "panic"} /\ Active # {} /\ disk \in Disks
        /\ free = {p \in 0 .. MemSize \div PAGE - 1 : kernel_addr_end <= p * PAGE}
    BY DEF InitPages, KInv, HInv, WithVolume, IInv, loader
  <1>2. Active' = Active /\ BootStart' = BootStart /\ BootVolume' = BootVolume
    BY <1>1, SameReference
  <1>3. CASE stage' = "panic"
    BY <1>1, <1>2, <1>3 DEF KInv, WithVolume, InKernel
  <1>4. CASE faults # 0
    BY <1>1, <1>2, <1>4 DEF KInv, WithVolume
  <1>5. CASE faults = 0 /\ stage' = "running"
    <2>1. /\ Bootable /\ Placed(Len(KernelFile)) /\ Entered(mem[ArgsAt]) /\ AtVolume
      BY <1>1, <1>5 DEF KInv, InKernel, WithVolume
    <2>2. PICK elf, args : elf = KernelFile /\ args = mem[ArgsAt]
      OBVIOUS
    <2>3. PICK e \in Nat : e = kernel_addr_end /\ e = args[3]
      BY <2>1, <2>2 DEF Entered, kernel_addr_end
    <2>4. EndsAt(elf, Len(elf), e)
      BY <2>1, <2>2, <2>3 DEF Entered
    <2>5. PICK lowest : /\ lowest \subseteq free
                        /\ mem' = [u \in Unit |-> IF u \in UnitsOf(lowest) THEN <<"table">> ELSE mem[u]]
      BY <1>5 DEF InitPages
    <2>6. PAGE \in Nat /\ PAGE > 0 /\ MemSize \in Nat /\ MemSize \div PAGE \in Nat
      BY LayoutAssumption, DivMod
    <2>7. ASSUME NEW u \in Unit, u < e PROVE mem'[u] = mem[u]
      <3>1. u \notin UnitsOf(lowest)
        <4>1. SUFFICES ASSUME u \div PAGE \in free PROVE FALSE
          BY <2>5 DEF UnitsOf
        <4>2. PICK p \in Nat : p = u \div PAGE /\ e <= p * PAGE
          BY <1>1, <2>3, <2>6, <4>1
        <4>3. u \in Nat /\ u % PAGE \in 0 .. PAGE - 1 /\ u = PAGE * (u \div PAGE) + (u % PAGE)
          BY <2>6, DivMod DEF Unit
        <4>4. PAGE * p = p * PAGE /\ p * PAGE \in Nat
          BY <2>6
        <4> QED BY <2>6, <2>7, <4>2, <4>3, <4>4
      <3> QED BY <2>5, <3>1
    <2>8. /\ elf \in Seq(ProgramHeader) /\ Linked(elf)
          /\ \A i \in 1 .. Len(elf) : elf[i].paddr \in Nat /\ elf[i].memsz \in Nat
          /\ \A i \in 1 .. Len(elf) : ~Skipped(elf[i]) =>
              /\ elf[i].paddr >= HwEnd /\ elf[i].memsz > 0
              /\ elf[i].paddr + elf[i].memsz <= MemSize
      BY <1>1, <2>1, <2>2, KernelFileIs
    <2>9. ASSUME NEW i \in 1 .. Len(elf), ~Skipped(elf[i]),
                 NEW u \in elf[i].paddr .. elf[i].paddr + elf[i].memsz - 1
          PROVE  mem'[u] = mem[u]
      <3>1. PICK p \in Nat, n \in Nat : p = elf[i].paddr /\ n = elf[i].memsz
        BY <2>8
      <3>2. p + n <= MemSize /\ p + n <= e
        BY <2>4, <2>8, <2>9, <3>1 DEF EndsAt
      <3>3. u \in p .. p + n - 1
        BY <2>9, <3>1
      <3>4. PICK z \in Nat : z = MemSize
        BY <2>6
      <3>5. p + n <= z
        BY <3>2, <3>4
      <3>6. PICK w \in Nat : w = u /\ w < p + n
        BY <3>1, <3>3
      <3>7. w \in 0 .. z - 1 /\ w < e
        BY <3>2, <3>5, <3>6, SMTT(60)
      <3> QED BY <2>7, <3>4, <3>6, <3>7 DEF Unit
    <2>10. mem'[ArgsAt] = args
      <3>1. ArgsAt \in Unit /\ ArgsAt \in Nat /\ HwEnd \in Nat /\ ArgsAt < HwEnd
        BY LayoutAssumption DEF Unit
      <3>2. PICK i \in 1 .. Len(elf) : ~Skipped(elf[i])
        <4>1. DOMAIN elf = 1 .. Len(elf)
          BY <2>8
        <4> QED BY <2>8, <4>1 DEF Linked
      <3>3. PICK p \in Nat, n \in Nat : p = elf[i].paddr /\ n = elf[i].memsz
        BY <2>8
      <3>4. p >= HwEnd /\ p + n <= e
        BY <2>4, <2>8, <3>2, <3>3 DEF EndsAt
      <3>5. ArgsAt < e
        <4>1. PICK a \in Nat, h \in Nat : a = ArgsAt /\ h = HwEnd
          BY <3>1
        <4>2. a < h /\ h <= p /\ p <= p + n /\ p + n <= e
          BY <3>1, <3>3, <3>4, <4>1, SMTT(60)
        <4>3. a < e
          BY <2>3, <3>3, <4>2
        <4> QED BY <4>1, <4>3
      <3> QED BY <2>2, <2>7, <3>1, <3>5
    <2>11. Bootable' /\ Placed(Len(KernelFile))' /\ Entered(mem[ArgsAt])'
      BY <1>1, <2>1, <2>2, <2>9, <2>10, EnteredStays
    <2> QED BY <1>1, <1>2, <1>5, <2>1, <2>11 DEF KInv, AtVolume
  <1> QED BY <1>1, <1>3, <1>4, <1>5

LEMMA StutterKInv == KInv /\ UNCHANGED vars => KInv'
PROOF
  <1> SUFFICES ASSUME KInv, UNCHANGED vars PROVE KInv'
    OBVIOUS
  <1>1. /\ disk' = disk /\ a20' = a20 /\ mem' = mem /\ stage' = stage /\ part' = part
        /\ index' = index /\ cluster' = cluster /\ elf_load_ptr' = elf_load_ptr /\ range' = range
        /\ faults' = faults
    BY DEF vars, loader
  <1>2. /\ Active' = Active /\ BootStart' = BootStart /\ BootVolume' = BootVolume
         /\ Candidates' = Candidates /\ chain' = chain /\ Per' = Per
         /\ KernelFile' = KernelFile /\ \A k : FileSector(k)' = FileSector(k)
         /\ Whole(KernelFile)' = Whole(KernelFile)
         /\ Bootable' = Bootable
    BY <1>1, SameReference
  <1>3. Header' = Header
    BY <1>1, SameHeader
  <1>4. \A n : FileIn(n)' = FileIn(n) /\ AllLegal(n)' = AllLegal(n)
    BY <1>1, <1>2 DEF FileIn, AllLegal, check_clus, Sector
  <1>5. \A c, i : FileRead(c, i)' = FileRead(c, i)
    BY <1>1, <1>2, <1>4 DEF FileRead, FileIn
  <1>6. Unread' = Unread /\ AtVolume' = AtVolume /\ AtLoad' = AtLoad
    BY <1>1, <1>2, <1>5 DEF Unread, AtVolume, AtLoad, check_clus
  <1>7. \A s : InPlace(s)' = InPlace(s)
    BY <1>1, <1>2 DEF InPlace, Promised, Sector
  <1>8. \A n : Placed(n)' = Placed(n)
    BY <1>1, <1>2, <1>7 DEF Placed, Skipped
  <1>9. AtSegments' = AtSegments
    BY <1>1, <1>2, <1>3, <1>5, <1>8 DEF AtSegments, StartsAt, check_clus
  <1>10. \A a : Entered(a)' = Entered(a)
    BY <1>2 DEF Entered, StartsAt, EndsAt
  <1> QED BY <1>1, <1>2, <1>6, <1>8, <1>9, <1>10 DEF KInv, InKernel

LEMMA NextKInv == IInv /\ HInv /\ KInv /\ [Next]_vars => KInv'
BY LoadSetupKInv, TestA20KInv, FindPartitionKInv, ReadVolumeKInv, FindKernelKInv, LoadSectorKInv,
   NextClusterKInv, CheckMagicKInv, LoadSegmentKInv, EnterKernelKInv, InitPmuKInv, InitPagesKInv,
   StutterKInv DEF Next, Load, Stop

LEMMA InitKInv == Init => KInv
PROOF
  <1> SUFFICES ASSUME Init PROVE KInv
    OBVIOUS
  <1>1. mem[LoadAt] = Junk
    <2>1. PICK l \in Nat, m \in Nat, h \in Nat, e \in Nat :
            l = LoadAt /\ m = MbrAt /\ h = HwMap /\ e = HwEnd /\ m < l /\ l < h
      BY LayoutAssumption
    <2>2. l # m /\ l \notin h .. e - 1
      BY <2>1
    <2> QED BY <2>1, <2>2, LoadInUnit DEF Init
  <1> QED BY <1>1 DEF Init, KInv, Unread, WithVolume, InKernel

LEMMA KInvAlways == Spec => []KInv
BY InitKInv, IInvAlways, HInvAlways, NextKInv, PTL DEF Spec

(* What the invariant says of the range of the kernel                       *)
LEMMA RangeIs ==
  ASSUME NEW elf \in Seq(ProgramHeader), NEW a \in Nat, NEW e \in Nat,
         StartsAt(elf, Len(elf), a), EndsAt(elf, Len(elf), e),
         NEW n \in 1 .. Len(elf), ~Skipped(elf[n]),
         elf[n].paddr + elf[n].memsz <= MemSize
  PROVE  /\ UnitsIn(elf) \subseteq Nat
         /\ First(UnitsIn(elf)) = a
         /\ (CHOOSE u \in UnitsIn(elf) : \A w \in UnitsIn(elf) : w <= u) + 1 = e
PROOF
  <1>1. \A i \in 1 .. Len(elf) : elf[i].paddr \in Nat /\ elf[i].memsz \in Nat
    <2>1. \A i \in 1 .. Len(elf) : elf[i] \in ProgramHeader
      OBVIOUS
    <2> QED BY <2>1 DEF ProgramHeader
  <1>2. /\ \A u \in UnitsIn(elf) : u \in Nat /\ u < e
        /\ e # 0 => e - 1 \in UnitsIn(elf)
    BY UnitsEnd
  <1>3. PICK p \in Nat, m \in Nat : p = elf[n].paddr /\ m = elf[n].memsz
    BY <1>1
  <1>4. m > 0 /\ p + m <= MemSize /\ p + m <= e /\ a <= p
    BY <1>3 DEF StartsAt, EndsAt, Skipped
  <1>5. MemSize \in Nat /\ a # MemSize /\ e # 0
    <2>1. MemSize \in Nat
      BY LayoutAssumption
    <2>2. PICK z \in Nat : z = MemSize
      BY <2>1
    <2>3. m > 0 /\ p + m <= z /\ p + m <= e /\ a <= p
      BY <1>4, <2>2
    <2>4. a # z /\ e # 0
      BY <1>3, <2>2, <2>3, SMTT(60)
    <2> QED BY <2>1, <2>2, <2>4
  <1>6. a \in UnitsIn(elf)
    <2>1. PICK i \in 1 .. Len(elf) : ~Skipped(elf[i]) /\ elf[i].paddr = a
      BY <1>5 DEF StartsAt
    <2>2. elf[i] \in Segments(elf) /\ elf[i].memsz > 0
      BY <1>1, <2>1 DEF Segments, Skipped
    <2>3. a \in elf[i].paddr .. elf[i].paddr + elf[i].memsz - 1
      BY <1>1, <2>1, <2>2
    <2> QED BY <2>2, <2>3 DEF UnitsIn
  <1>7. ASSUME NEW u \in UnitsIn(elf) PROVE a <= u
    <2>1. PICK i \in 1 .. Len(elf) : /\ elf[i].type = "LOAD" /\ elf[i].memsz > 0
                                     /\ u \in elf[i].paddr .. elf[i].paddr + elf[i].memsz - 1
      BY DEF UnitsIn, Segments
    <2>2. ~Skipped(elf[i])
      BY <1>1, <2>1 DEF Skipped
    <2>3. a <= elf[i].paddr /\ elf[i].paddr \in Nat
      BY <1>1, <2>2 DEF StartsAt
    <2> QED BY <1>2, <2>1, <2>3
  <1> DEFINE U == UnitsIn(elf)
  <1>8. U \subseteq Nat /\ a \in U /\ e - 1 \in U /\ (\A u \in U : u <= e - 1) /\ \A u \in U : a <= u
    BY <1>2, <1>5, <1>6, <1>7
  <1> HIDE DEF U
  <1>9. First(U) = a
    BY <1>8, FirstIs
  <1>10. (CHOOSE u \in U : \A w \in U : w <= u) = e - 1
    <2> DEFINE P(u) == \A w \in U : w <= u
               x == CHOOSE u \in U : P(u)
    <2>1. \E u \in U : P(u)
      BY <1>8
    <2>2. x \in U /\ P(x)
      <3> HIDE DEF P
      <3> QED BY <2>1, Zenon
    <2> HIDE DEF x
    <2>3. x <= e - 1 /\ e - 1 <= x /\ x \in Nat
      BY <1>8, <2>2
    <2>4. x = e - 1
      BY <1>5, <2>3
    <2> QED BY <2>4 DEF x
  <1> QED BY <1>5, <1>8, <1>9, <1>10 DEF U

(* Without a failed read, the loader (setupmain.c:107-209) starts a kernel  *)
(* exactly from a disk that has one, and what it then has in memory is what *)
(* the file promises: the bytes of every segment, zeros behind them, and    *)
(* the first and the last address of the kernel in its arguments.           *)
THEOREM KernelIsRight == Spec => []KernelRight
PROOF
  <1>1. IInv /\ KInv => KernelRight
    <2> SUFFICES ASSUME IInv, KInv PROVE KernelRight
      OBVIOUS
    <2>1. stage = "error" /\ faults = 0 => ~Bootable
      BY DEF KInv
    <2>2. ASSUME InKernel, faults = 0
          PROVE  /\ Bootable
                 /\ Whole(KernelFile) => \A s \in Segments(KernelFile) : InPlace(s)
                 /\ mem[ArgsAt] = <<"args", First(UnitsIn(KernelFile)),
                      (CHOOSE u \in UnitsIn(KernelFile) : \A w \in UnitsIn(KernelFile) : w <= u) + 1>>
      <3>1. /\ Bootable /\ Placed(Len(KernelFile)) /\ Entered(mem[ArgsAt])
            /\ disk \in Disks /\ Active # {}
        BY <2>2 DEF KInv, InKernel, WithVolume, IInv
      <3>2. PICK elf, args : elf = KernelFile /\ args = mem[ArgsAt]
        OBVIOUS
      <3>3. /\ elf \in Seq(ProgramHeader) /\ Linked(elf)
            /\ \A i \in 1 .. Len(elf) : elf[i].paddr \in Nat /\ elf[i].memsz \in Nat
            /\ \A i \in 1 .. Len(elf) : ~Skipped(elf[i]) => elf[i].paddr + elf[i].memsz <= MemSize
            /\ DOMAIN elf = 1 .. Len(elf)
        <4>1. elf \in Seq(ProgramHeader)
          BY <3>1, <3>2, KernelFileIs
        <4>2. DOMAIN elf = 1 .. Len(elf)
          BY <4>1
        <4> QED BY <3>1, <3>2, <4>1, <4>2, KernelFileIs
      <3>4. ASSUME Whole(elf), NEW s \in Segments(elf) PROVE InPlace(s)
        <4>1. PICK i \in 1 .. Len(elf) : s = elf[i] /\ elf[i].type = "LOAD" /\ elf[i].memsz > 0
          BY <3>3 DEF Segments
        <4>2. ~Skipped(elf[i])
          BY <3>3, <4>1 DEF Skipped
        <4> QED BY <3>1, <3>2, <3>4, <4>1, <4>2 DEF Placed
      <3>5. /\ args = <<"args", args[2], args[3]>> /\ args[2] \in Nat /\ args[3] \in Nat
            /\ StartsAt(elf, Len(elf), args[2]) /\ EndsAt(elf, Len(elf), args[3])
        BY <3>1, <3>2 DEF Entered
      <3>6. PICK n \in 1 .. Len(elf) : ~Skipped(elf[n])
        BY <3>3 DEF Linked
      <3>7. /\ First(UnitsIn(elf)) = args[2]
            /\ (CHOOSE u \in UnitsIn(elf) : \A w \in UnitsIn(elf) : w <= u) + 1 = args[3]
        BY <3>3, <3>5, <3>6, RangeIs
      <3> QED BY <3>1, <3>2, <3>4, <3>5, <3>7
    <2> QED BY <2>1, <2>2 DEF KernelRight, InPlace, Promised, KernelFile
  <1> QED BY <1>1, IInvAlways, KInvAlways, PTL
=============================================================================
