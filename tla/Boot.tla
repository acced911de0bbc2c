-------------------------------- MODULE Boot --------------------------------
(***************************************************************************)
(* From the first sector of the disk to a kernel with its own page tables: *)
(* boot/bootsect.S, boot/setup.S and boot/setupmain.c load the kernel, and *)
(* mem_init of kernel/mem.c takes over the memory behind it.               *)
(*                                                                         *)
(* Memory is counted in units of one sector.  Its content is a sector of   *)
(* the disk, zeros, or what the name says.  The loader reads with polling  *)
(* and without a look at the error bit of the drive: a read that fails     *)
(* delivers junk.                                                          *)
(***************************************************************************)
EXTENDS Naturals, Sequences, FiniteSets

CONSTANTS
  ArgsAt,              (* P_KERNEL_ADDR_START, 0x1000                       *)
  SetupAt, SetupSize,  (* 0x2000 and the sectors of the setup program       *)
  MbrAt,               (* 0x7C00                                            *)
  LoadAt,              (* ELF, 0x8000: where the kernel file is read to     *)
  HwMap, HwEnd,        (* HW_MAP_START_ADDR, 0xA0000 up to 0x100000         *)
  LowTest, HighTest,   (* 0x023456 and 0x123456, of the test of gate A20    *)
  MemSize,             (* what detect_memory finds                          *)
  PAGE, TABLE,         (* units of a page, pages that a page table maps     *)
  ENTRIES,             (* directory entries in a sector                     *)
  RESERVED,            (* 0xFFF0, the first cluster number with a meaning   *)
  Disks,               (* the disks to boot from                            *)
  Garbage,             (* next clusters that a failed read may deliver      *)
  MaxFaults            (* bound of the model: reads that fail               *)

Unit == 0 .. MemSize - 1

ASSUME LayoutAssumption ==
  /\ {ArgsAt, SetupAt, SetupSize, MbrAt, LoadAt, HwMap, HwEnd, LowTest, HighTest} \subseteq Nat
  /\ {MemSize, PAGE, TABLE} \subseteq Nat /\ SetupSize > 0
  /\ ArgsAt < SetupAt /\ SetupAt + SetupSize <= MbrAt /\ MbrAt < LoadAt
  /\ LoadAt < HwMap /\ HwMap < HwEnd /\ HwEnd < MemSize
  /\ LowTest \in LoadAt .. HwMap - 1 /\ HighTest >= HwEnd
  /\ PAGE > 0 /\ TABLE > 0 /\ MemSize % PAGE = 0

ProgramHeader == [type : STRING, offset : Nat, paddr : Nat, filesz : Nat, memsz : Nat]

(* Every bootable partition holds a volume, link.ld puts the kernel at      *)
(* 0x100000, and a linker never gives a segment more data than memory.      *)
InHighMemory(s) == s.type = "LOAD" /\ s.memsz # 0 => s.paddr >= HwEnd /\ s.filesz <= s.memsz

Skipped(s) == s.type # "LOAD" \/ s.memsz = 0

(* The linker gives a kernel segments, in memory that is there, apart.      *)
Linked(elf) ==
  LET loads == {i \in DOMAIN elf : ~Skipped(elf[i])} IN
  /\ loads # {}
  /\ \A i \in loads : elf[i].paddr + elf[i].memsz <= MemSize
  /\ \A i, j \in loads : i # j => \/ elf[i].paddr + elf[i].memsz <= elf[j].paddr
                                  \/ elf[j].paddr + elf[j].memsz <= elf[i].paddr

(* A volume has its root directory, of full sectors, where its parameters   *)
(* say, and an allocation table for the clusters with a meaning.            *)
Formatted(v, start) ==
  LET root == start + v.bpb.rsvd_sec_cnt + v.bpb.num_fats * v.bpb.sec_per_fat_16 IN
  /\ {start, v.bpb.rsvd_sec_cnt, v.bpb.num_fats, v.bpb.sec_per_fat_16} \subseteq Nat
  /\ {v.bpb.root_ent_cnt, v.bpb.sec_per_clus} \subseteq Nat /\ v.bpb.sec_per_clus > 0
  /\ \A sec \in 0 .. (v.bpb.root_ent_cnt + ENTRIES - 1) \div ENTRIES - 1 :
       /\ DOMAIN v.dir[root + sec] = 1 .. ENTRIES
       /\ \A k \in 1 .. ENTRIES : v.dir[root + sec][k].fst_clus \in Nat
  /\ \A c \in 2 .. RESERVED - 1 : v.fat[c] \in Nat

ASSUME DisksAssumption ==
  \A d \in Disks :
    /\ \A i \in 1 .. 4 : d.parts[i].active => d.parts[i].start_lba \in DOMAIN d.volumes
    /\ \A start \in DOMAIN d.volumes :
         LET elf == d.volumes[start].elf IN
         \A lba \in DOMAIN elf :
           elf[lba] \in Seq(ProgramHeader) /\ \A i \in DOMAIN elf[lba] : InHighMemory(elf[lba][i])

ASSUME VolumesAssumption ==
  /\ {ENTRIES, RESERVED} \subseteq Nat /\ ENTRIES > 0
  /\ \A d \in Disks : \A start \in DOMAIN d.volumes :
       /\ Formatted(d.volumes[start], start)
       /\ \A lba \in DOMAIN d.volumes[start].elf : Linked(d.volumes[start].elf[lba])

VARIABLES
  disk, a20,     (* the disk, and whether the gate opens                    *)
  mem,           (* content of memory                                       *)
  stage,         (* where the program is                                    *)
  part,          (* boot_part: its first sector                             *)
  index,         (* loop counter: sector, or program header                 *)
  cluster,
  elf_load_ptr,
  range,         (* <<kernel_start, kernel_end>>                            *)
  free, tables,  (* pages of the allocator, and those of the page tables    *)
  area_end,      (* kernel_area_page_dir_end_index                          *)
  faults         (* reads that failed so far                                *)

loader == <<part, index, cluster, elf_load_ptr, range>>
kernel == <<free, tables, area_end>>
vars   == <<disk, a20, mem, stage, loader, kernel, faults>>

Volume == disk.volumes[part]
bpb    == Volume.bpb

Failed(e) == stage' = e /\ UNCHANGED loader

(* readsect: the drive is ready in the end; what it delivers may be junk.   *)
Reading(bad) ==
  /\ bad => faults < MaxFaults
  /\ faults' = IF bad THEN faults + 1 ELSE faults

Sector(lba) == <<"sector", lba>>
Zero == <<"zero">>
Junk == <<"junk">>

-----------------------------------------------------------------------------
(* read_sectors of bootsect.S: the sectors behind the first one             *)
LoadSetup ==
  /\ stage = "bootsect"
  /\ mem' = [mem EXCEPT ![SetupAt + index] = Sector(index + 1)]
  /\ index' = (index + 1) % SetupSize
  /\ stage' = IF index + 1 = SetupSize THEN "setup" ELSE stage
  /\ UNCHANGED <<disk, a20, part, cluster, elf_load_ptr, range, kernel, faults>>

(* With the gate closed, bit 20 of an address is 0, and the second write    *)
(* goes where the first one went.                                           *)
TestA20 ==
  /\ stage = "setup"
  /\ mem' = [mem EXCEPT ![LowTest] = Junk, ![HighTest] = IF a20 THEN Junk ELSE @]
  /\ stage' = IF a20 THEN "partition" ELSE "error"
  /\ UNCHANGED <<disk, a20, loader, kernel, faults>>

(* The first bootable one of the four partitions *)
FindPartition ==
  /\ stage = "partition"
  /\ \/ \E i \in 1 .. 4 :
          /\ disk.parts[i].active /\ \A j \in 1 .. i - 1 : ~disk.parts[j].active
          /\ part' = disk.parts[i].start_lba
          /\ stage' = "volume"
          /\ UNCHANGED <<index, cluster, elf_load_ptr, range>>
     \/ (\A i \in 1 .. 4 : ~disk.parts[i].active) /\ Failed("error")
  /\ UNCHANGED <<disk, a20, mem, kernel, faults>>

ReadVolume ==
  /\ stage = "volume"
  /\ \E bad \in BOOLEAN :
       /\ Reading(bad)
       /\ IF bad \/ ~Volume.fat16 THEN Failed("error")
          ELSE stage' = "root" /\ index' = 0 /\ UNCHANGED <<part, cluster, elf_load_ptr, range>>
  /\ UNCHANGED <<disk, a20, mem, kernel>>

-----------------------------------------------------------------------------
(***************************************************************************)
(* The regions of the volume, and the search of the root directory.  Names *)
(* are compared up to the length of KERNEL_NAME.                           *)
(***************************************************************************)
fat_fst_sec  == part + bpb.rsvd_sec_cnt
root_fst_sec == fat_fst_sec + bpb.num_fats * bpb.sec_per_fat_16
root_sec_cnt == (bpb.root_ent_cnt + ENTRIES - 1) \div ENTRIES
data_fst_sec == root_fst_sec + root_sec_cnt

Matches(name) == name \in {"KERNEL", "KERNEL00"}

(* The entries of a sector of the root directory that the loop looks at *)
Looked(sec) ==
  {k \in DOMAIN Volume.dir[root_fst_sec + sec] : sec * ENTRIES + k <= bpb.root_ent_cnt}
AllHits(sec) == {k \in DOMAIN Volume.dir[root_fst_sec + sec] :
                   Matches(Volume.dir[root_fst_sec + sec][k].name)}
Hits(sec) == {k \in Looked(sec) : Matches(Volume.dir[root_fst_sec + sec][k].name)}

FindKernel ==
  /\ stage = "root"
  /\ IF index >= root_sec_cnt THEN Failed("error") /\ UNCHANGED faults
     ELSE \E bad \in BOOLEAN :
       /\ Reading(bad)
       /\ IF bad \/ Hits(index) = {}
          THEN index' = index + 1 /\ UNCHANGED <<stage, part, cluster, elf_load_ptr, range>>
          ELSE /\ \E k \in Hits(index) :
                    /\ \A j \in Hits(index) : k <= j
                    /\ cluster' = Volume.dir[root_fst_sec + index][k].fst_clus
               /\ stage' = "load" /\ index' = 0
               /\ UNCHANGED <<part, elf_load_ptr, range>>
  /\ UNCHANGED <<disk, a20, mem, kernel>>

-----------------------------------------------------------------------------
(***************************************************************************)
(* The file, sector by sector along its chain of clusters, up to the       *)
(* memory of the hardware.                                                 *)
(***************************************************************************)
check_clus(c) == c > 1 /\ c < RESERVED
data_clus_to_lba28(c) == data_fst_sec + bpb.sec_per_clus * (c - 2)

FullAfter(ptr) == ptr > HwMap
Full(ptr)      == ptr >= HwMap

LoadSector ==
  /\ stage = "load" /\ check_clus(cluster) /\ index < bpb.sec_per_clus
  /\ IF Full(elf_load_ptr) THEN Failed("error") /\ UNCHANGED <<mem, faults>>
     ELSE /\ \E bad \in BOOLEAN :
               /\ Reading(bad)
               /\ mem' = [mem EXCEPT ![elf_load_ptr] =
                            IF bad THEN Junk ELSE Sector(data_clus_to_lba28(cluster) + index)]
          /\ elf_load_ptr' = elf_load_ptr + 1
          /\ index' = index + 1
          /\ UNCHANGED <<stage, part, cluster, range>>
  /\ UNCHANGED <<disk, a20, kernel>>

NextCluster ==
  /\ stage = "load" /\ check_clus(cluster) /\ index = bpb.sec_per_clus
  /\ \E bad \in BOOLEAN :
       /\ Reading(bad)
       /\ IF bad THEN cluster' \in Garbage ELSE cluster' = Volume.fat[cluster]
  /\ index' = 0
  /\ UNCHANGED <<disk, a20, mem, stage, part, elf_load_ptr, range, kernel>>

(* The ELF header, if the first sector of the area is one *)
Header == IF mem[LoadAt] \in {Sector(lba) : lba \in DOMAIN Volume.elf}
          THEN {Volume.elf[mem[LoadAt][2]]} ELSE {}

CheckMagic ==
  /\ stage = "load" /\ ~check_clus(cluster)
  /\ IF Header = {} THEN Failed("error")
     ELSE /\ stage' = "segments" /\ index' = 1
          /\ range' = <<MemSize, 0>>     (* __UINT32_MAX__, 0 *)
          /\ UNCHANGED <<part, cluster, elf_load_ptr>>
  /\ UNCHANGED <<disk, a20, mem, kernel, faults>>

-----------------------------------------------------------------------------
(***************************************************************************)
(* The program headers, in order: the range of the kernel, the copy of the *)
(* data of a segment and the zeros behind it.  The headers are read from   *)
(* the copy of the file in memory.                                         *)
(***************************************************************************)
Larger(a, b)  == IF a > b THEN a ELSE b
Smaller(a, b) == IF a < b THEN a ELSE b

DataOnly(s, u) == IF u - s.paddr < s.filesz THEN mem[LoadAt + s.offset + (u - s.paddr)] ELSE mem[u]
Loaded(s, u)   == IF u - s.paddr < s.filesz THEN mem[LoadAt + s.offset + (u - s.paddr)] ELSE Zero

HeaderAt(i) == (CHOOSE elf \in Header : TRUE)[i]
AfterLoaded(i) == IF Skipped(HeaderAt(i)) THEN i ELSE i + 1
After(i)       == i + 1

LoadSegment ==
  /\ stage = "segments"
  /\ \E elf \in Header :
       /\ index <= Len(elf)
       /\ LET s == elf[index] IN
          IF Skipped(s) THEN UNCHANGED <<mem, range>>
          ELSE /\ mem' = [u \in Unit |-> IF u \in s.paddr .. s.paddr + s.memsz - 1
                                         THEN Loaded(s, u) ELSE mem[u]]
               /\ range' = <<Smaller(range[1], s.paddr), Larger(range[2], s.paddr + s.memsz)>>
  /\ index' = After(index)
  /\ UNCHANGED <<disk, a20, stage, part, cluster, elf_load_ptr, kernel, faults>>

(* The arguments are stored, and the kernel is entered. *)
EnterKernel ==
  /\ stage = "segments"
  /\ \A elf \in Header : index > Len(elf)
  /\ mem' = [mem EXCEPT ![ArgsAt] = <<"args">> \o range]
  /\ stage' = "kernel"
  /\ UNCHANGED <<disk, a20, loader, kernel, faults>>

-----------------------------------------------------------------------------
(***************************************************************************)
(* mem_init, from the arguments in memory: the whole pages behind the      *)
(* kernel go to the allocator, which gives the lowest ones back for the    *)
(* page tables of the identity mapping of all memory (page_init).          *)
(***************************************************************************)
kernel_addr_end == mem[ArgsAt][3]

CutOff(addr)  == (addr \div PAGE) * PAGE
AlignUp(addr) == ((addr + PAGE - 1) \div PAGE) * PAGE

page_dir_index(addr)   == addr \div (PAGE * TABLE)
page_table_index(addr) == (addr \div PAGE) % TABLE

(* Behind the last table of the kernel, rounded up by pages only *)
end_index(addr) == page_dir_index(addr) + (IF page_table_index(addr) # 0 THEN 1 ELSE 0)

InitPmu ==
  /\ stage = "kernel"
  /\ LET addr == AlignUp(kernel_addr_end) IN
     IF addr < MemSize
     THEN free' = addr \div PAGE .. addr \div PAGE + (MemSize - addr) \div PAGE - 1 /\ stage' = "paging"
     ELSE stage' = "panic" /\ free' = free
  /\ UNCHANGED <<disk, a20, mem, loader, tables, area_end, faults>>

UnitsOf(pages) == {u \in Unit : u \div PAGE \in pages}

InitPages ==
  /\ stage = "paging"
  /\ LET n == page_dir_index(MemSize - 1) + 1
         lowest == {p \in free : Cardinality({q \in free : q < p}) < n} IN
     IF Cardinality(free) < n
     THEN stage' = "panic" /\ UNCHANGED <<mem, kernel>>
     ELSE /\ tables' = lowest /\ free' = free \ lowest
          /\ mem' = [u \in Unit |-> IF u \in UnitsOf(lowest) THEN <<"table">> ELSE mem[u]]
          /\ area_end' = end_index(kernel_addr_end)
          /\ stage' = "running"
  /\ UNCHANGED <<disk, a20, loader, faults>>

(* error() of the loader, a panic or the running kernel *)
Ends == {"error", "panic", "running"}
Stop == stage \in Ends /\ UNCHANGED vars

-----------------------------------------------------------------------------
Init ==
  /\ disk \in Disks /\ a20 \in BOOLEAN
  /\ mem = [u \in Unit |-> IF u = MbrAt THEN Sector(0)
                           ELSE IF u \in HwMap .. HwEnd - 1 THEN <<"hw">> ELSE Junk]
  /\ stage = "bootsect"
  /\ part = 0 /\ index = 0 /\ cluster = 0 /\ elf_load_ptr = LoadAt /\ range = <<0, 0>>
  /\ free = {} /\ tables = {} /\ area_end = 0
  /\ faults = 0

Load == LoadSetup \/ TestA20 \/ FindPartition \/ ReadVolume \/ FindKernel
        \/ LoadSector \/ NextCluster \/ CheckMagic \/ LoadSegment \/ EnterKernel
Next == Load \/ InitPmu \/ InitPages \/ Stop

(* Nothing but this program runs, and the drive becomes ready in the end. *)
Spec == Init /\ [][Next]_vars /\ WF_vars(Load \/ InitPmu \/ InitPages)

-----------------------------------------------------------------------------
(***************************************************************************)
(* Reference: the kernel file, straight from what is on the disk.          *)
(***************************************************************************)
First(S) == CHOOSE i \in S : \A j \in S : i <= j

Active    == {i \in 1 .. 4 : disk.parts[i].active}
BootStart == disk.parts[First(Active)].start_lba
BootVolume == disk.volumes[BootStart]
RootStart == BootStart + BootVolume.bpb.rsvd_sec_cnt
                       + BootVolume.bpb.num_fats * BootVolume.bpb.sec_per_fat_16

RootEntry(i) == BootVolume.dir[RootStart + i \div ENTRIES][1 + (i % ENTRIES)]
Candidates == {i \in 0 .. BootVolume.bpb.root_ent_cnt - 1 : Matches(RootEntry(i).name)}

(* The clusters of the file, the end of the chain included *)
chain[i \in Nat] == IF i = 0 THEN RootEntry(First(Candidates)).fst_clus
                    ELSE BootVolume.fat[chain[i - 1]]

FileSector(k) ==
  LET per  == BootVolume.bpb.sec_per_clus
      dirs == (BootVolume.bpb.root_ent_cnt + ENTRIES - 1) \div ENTRIES
  IN  RootStart + dirs + (chain[k \div per] - 2) * per + (k % per)

(* A volume with a kernel file that ends before the area is full *)
Bootable ==
  /\ a20 /\ Active # {} /\ BootVolume.fat16 /\ Candidates # {}
  /\ \E n \in 1 .. HwMap - LoadAt :
       /\ n * BootVolume.bpb.sec_per_clus <= HwMap - LoadAt
       /\ \A i \in 0 .. n - 1 : check_clus(chain[i])
       /\ ~check_clus(chain[n])
  /\ FileSector(0) \in DOMAIN BootVolume.elf

Segments(elf) == {elf[i] : i \in {j \in DOMAIN elf : elf[j].type = "LOAD" /\ elf[j].memsz > 0}}
UnitsIn(elf)  == UNION {s.paddr .. s.paddr + s.memsz - 1 : s \in Segments(elf)}

(* The chain is as long as the segments need: the loader never compares it *)
(* with the size of the file.                                              *)
Whole(elf) == \A s \in Segments(elf) : \A k \in 0 .. s.offset + s.filesz - 1 :
                check_clus(chain[k \div BootVolume.bpb.sec_per_clus])

InKernel == stage \in {"kernel", "paging", "running"}

(***************************************************************************)
(* If every read succeeds, the loader refuses a disk only when it is not   *)
(* bootable, and the kernel starts, and goes on after the set up of        *)
(* paging, with what the headers of its file promise: each segment's data  *)
(* followed by zeros, as far as the file has been written whole, and the   *)
(* range of the segments as its arguments (setupmain.c:107-209).           *)
(***************************************************************************)
KernelRight ==
  /\ stage = "error" /\ faults = 0 => ~Bootable
  /\ InKernel /\ faults = 0 =>
       LET elf == BootVolume.elf[FileSector(0)] IN
       /\ Bootable
       /\ Whole(elf) => \A s \in Segments(elf) : \A k \in 0 .. s.memsz - 1 :
            mem[s.paddr + k] = IF k < s.filesz THEN Sector(FileSector(s.offset + k)) ELSE Zero
       /\ LET units == UnitsIn(elf)
              last  == CHOOSE u \in units : \A w \in units : w <= u
          IN  mem[ArgsAt] = <<"args", First(units), last + 1>>

(***************************************************************************)
(* Until the kernel runs, whatever is on the disk and whatever a failed    *)
(* read delivers, the loader never overwrites its own program, the         *)
(* partition table it works from or the memory of the hardware             *)
(* (setupmain.c:164).                                                      *)
(***************************************************************************)
LoaderIntact ==
  stage \notin {"bootsect", "paging", "running"} =>
    /\ \A i \in 0 .. SetupSize - 1 : mem[SetupAt + i] = Sector(1 + i)
    /\ mem[MbrAt] = Sector(0)
    /\ \A u \in HwMap .. HwEnd - 1 : mem[u] = <<"hw">>

(***************************************************************************)
(* The kernel takes over exactly the whole pages behind it: neither the    *)
(* allocator nor a page table has a page with a unit of the loaded kernel  *)
(* or below it, and none is lost.  The page tables that every process      *)
(* shares, those below kernel_area_page_dir_end_index, reach up to the one *)
(* of the last unit of the kernel and no further.  One case is excepted: a *)
(* kernel that ends within the first page of a table's area may lack the   *)
(* table of that area, as page_init rounds up by pages only (mem.c:292).   *)
(***************************************************************************)
HandoverSafe ==
  stage = "running" =>
    \A elf \in Header :
      LET units == UnitsIn(elf)
          area  == PAGE * TABLE
      IN  /\ free \cap tables = {}
          /\ free \cup tables =
               {p \in 0 .. MemSize \div PAGE - 1 : \A u \in units : u < p * PAGE}
          /\ \A last \in units : (\A u \in units : u <= last) =>
               /\ area_end \in page_dir_index(last) .. page_dir_index(last) + 1
               /\ ((last + 1) % area) \notin 1 .. PAGE - 1 => area_end = page_dir_index(last) + 1

(***************************************************************************)
(* Booting comes to an end, also on a disk whose kernel file has a cycle   *)
(* in its chain of clusters and after failed reads: the loader stops with  *)
(* a message, the kernel panics, or it runs.                               *)
(***************************************************************************)
BootEnds == <>(stage \in Ends)

=============================================================================
