------------------------------- MODULE Fat16 -------------------------------
(***************************************************************************)
(* The file system of kernel/fs.c over the disk of module Ata: fs_init,    *)
(* which finds the partition and its parameters, file_open, which looks a  *)
(* path up in directories, and file_read, which splits a read into part of *)
(* a sector, whole sectors and part of a sector.  The last two walk the    *)
(* chain of clusters through fat_next_clus.                                *)
(*                                                                         *)
(* fs_init and the reads of directories and of the allocation table ignore *)
(* the result of ata_read: after a failure the static buffer holds the     *)
(* sector of an earlier read.  Sectors are named by their LBA, bytes by <<LBA, index>>. *)
(* Pages that are read into are the caller's: no other task runs meanwhile.*)
(***************************************************************************)
EXTENDS Ata, Integers, FiniteSets

CONSTANTS
  SECT_SIZE,      (* 512                                                    *)
  ENTRY_SIZE,     (* bytes of a directory entry, 32                         *)
  RESERVED,       (* clusters from here on are marks, 0xFFF0                *)
  Tables,         (* the partition tables to begin with: four entries each  *)
  Volumes,        (* what the first sectors of partitions say, by LBA       *)
  Fat,            (* the table on the disk: for each cluster the next one   *)
  Directory,      (* for each sector of a directory its entries, as far as  *)
                  (* the first empty one                                    *)
  Garbage,        (* what sectors outside the table hold at such a place    *)
  TooLong,        (* names of more than FILENAME_MAX_LENGTH characters      *)
  Paths,          (* the paths that callers open, as sequences of names     *)
  Reads,          (* the pairs of offset and size that callers read         *)
  NULL

Cluster == DOMAIN Fat
Listed  == UNION {{Directory[l][k] : k \in DOMAIN Directory[l]} : l \in DOMAIN Directory}

ASSUME SizeAssumption == {SECT_SIZE, ENTRY_SIZE} \subseteq Nat \ {0} /\ SECT_SIZE % 2 = 0

Parameters ==
  [sec_per_clus : 1 .. COUNTS - 1, rsvd_sec_cnt : Nat, num_fats : Nat, sec_per_fat_16 : Nat,
   root_ent_cnt : Nat \ {0}]
ASSUME DiskAssumption ==
  /\ \A t \in Tables : t \in [1 .. 4 -> [active : BOOLEAN, start_lba : Nat]]
  /\ DOMAIN Volumes \subseteq Nat \ {0}
  /\ \A l \in DOMAIN Volumes : Volumes[l].fat16 => Volumes[l].bpb \in Parameters
  /\ Cluster \subseteq Nat /\ Fat \in [Cluster -> Nat] /\ Garbage \subseteq Nat
  /\ RESERVED \in Nat /\ \A c \in Cluster : c < RESERVED
  /\ \A l \in DOMAIN Directory : Directory[l] \in Seq(Listed)
  /\ \A e \in Listed : e.clus \in Nat /\ e.size \in Nat
  /\ NULL \notin Nat \cup Listed \cup Reads
ASSUME CallAssumption ==
  /\ Paths \subseteq Seq(STRING) \ {<< >>}
  /\ Reads \subseteq [op : {"read"}, offset : Nat, size : Nat]

(* The volumes are consistent: an entry of a directory and a cluster in use  *)
(* name a cluster in use or none, and the chain of a file is long enough.    *)
InUse == Cluster \ {0, 1}
Nth(c, n) == LET at[i \in 0 .. n] == IF i = 0 THEN c ELSE Fat[at[i - 1]] IN at[n]
ASSUME VolumeAssumption ==
  /\ \A c \in {Fat[d] : d \in InUse} \cup {e.clus : e \in Listed} :
       c \in InUse \/ c \in {0, 1} \/ c >= RESERVED
  /\ \A l \in DOMAIN Volumes : Volumes[l].fat16 =>
       \A e \in Listed : \A n \in 0 .. e.size :
         n * (Volumes[l].bpb.sec_per_clus * SECT_SIZE) < e.size => Nth(e.clus, n) \in InUse

VARIABLES
  table,     (* the partition table on the disk                            *)
  part, bpb, (* the partition and its parameters, NULL before fs_init      *)
  pc,        (* "idle", "panic", or what the running call does: "off" is   *)
             (* in front of fs_init, "mbr" and "volume" in it, "root" and  *)
             (* "dir" read a directory, "walk" and "follow" go to a        *)
             (* cluster, "data" reads from it                              *)
  request,   (* the last call                                              *)
  result,    (* what it returned                                           *)
  names,     (* the names of its path that are still to be found           *)
  entry,     (* the entry whose chain is walked                            *)
  index,     (* sector of the root, or offset in another directory         *)
  cur, off,  (* cur_clus, and the offset from its start                    *)
  need,      (* bytes that fat_read still has to read                      *)
  data,      (* the bytes fat_read has read                                *)
  out,       (* the bytes file_read has delivered                          *)
  file,      (* the entry that the last successful file_open stored        *)
  fatbuf, dirbuf,   (* what the static buffers hold, NULL for zeros        *)
  mishap     (* what went wrong in the last call: a read failed, a failure *)
             (* was ignored, a read was started late                       *)

walk == <<names, entry, index, cur, off, need, data, out>>
fat  == <<table, part, bpb>>
fs   == <<fat, pc, request, result, walk, file, fatbuf, dirbuf, mishap>>
vars == <<ata, fs>>

(* fs_init: where the areas of the partition start *)
fat_start_lba    == part + bpb.rsvd_sec_cnt
root_start_lba   == fat_start_lba + bpb.num_fats * bpb.sec_per_fat_16
root_num_sectors == (bpb.root_ent_cnt * ENTRY_SIZE + SECT_SIZE - 1) \div SECT_SIZE
data_start_lba   == root_start_lba + root_num_sectors
clus_size        == bpb.sec_per_clus * SECT_SIZE

Bytes(s) == [k \in 1 .. Len(s) * SECT_SIZE |->
               <<s[(k - 1) \div SECT_SIZE + 1], (k - 1) % SECT_SIZE>>]
Least(a, b) == IF a < b THEN a ELSE b

TypeOK ==
  /\ AtaTypeOK
  /\ pc \in {"off", "mbr", "volume", "idle", "panic", "root", "dir", "walk", "follow", "data"}
  /\ result \in Int
  /\ entry \in Listed \cup {NULL} /\ file \in Listed \cup {NULL}
  /\ index \in Nat /\ cur \in Nat /\ off \in Nat
  /\ need \in Nat /\ need % SECT_SIZE = 0
  /\ Len(data) % SECT_SIZE = 0
  /\ fatbuf \in Nat \cup {NULL} /\ dirbuf \in Nat \cup {NULL}
  /\ mishap \subseteq {"failed", "ignored", "late"}

Init ==
  /\ AtaInit
  /\ table \in Tables /\ part = NULL /\ bpb = NULL
  /\ pc = "off" /\ request = NULL /\ result = 0
  /\ names = << >> /\ entry = NULL /\ index = 0 /\ cur = 0 /\ off = 0
  /\ need = 0 /\ data = << >> /\ out = << >>
  /\ file = NULL /\ fatbuf = NULL /\ dirbuf = NULL
  /\ mishap = {}

-----------------------------------------------------------------------------
AboveTwo(c) == c > 2 /\ c < RESERVED
NoUpper(c)  == c > 1
Legal(c)    == c > 1 /\ c < RESERVED
clus2lba(c) == data_start_lba + bpb.sec_per_clus * (c - 2)

(* What a static buffer holds after a read of one sector into it *)
Buffer(buf) == IF ret = "ok" THEN got[1] ELSE buf

(* The first entry with a name in the sector that dirbuf holds, as a set.   *)
(* Sectors of files are taken to hold no entry with a name of Paths.        *)
Entries(buf) == IF buf \in DOMAIN Directory THEN Directory[buf] ELSE << >>
Matches(buf, name) ==
  LET E == Entries(buf) IN
  {E[k] : k \in {i \in DOMAIN E : E[i].name = name /\ \A j \in 1 .. i - 1 : E[j].name # name}}

(* The value that a buffer has for a cluster in fat_next_clus: only sectors *)
(* of the table hold entries of it.                                         *)
InTable(buf) == buf # NULL /\ buf >= fat_start_lba
Slot(buf, c) == (buf - fat_start_lba) * (SECT_SIZE \div 2) + (c % (SECT_SIZE \div 2))
NextClusters(buf, c) ==
  IF buf = NULL THEN {0}
  ELSE IF InTable(buf) /\ Slot(buf, c) \in DOMAIN Fat THEN {Fat[Slot(buf, c)]}
  ELSE Garbage

(* The result of a read that has returned, for the record *)
Note(ignored) ==
  mishap' = mishap \cup (IF ret = "failed" THEN {"failed"} \cup ignored ELSE {})
                   \cup (IF late THEN {"late"} ELSE {})

Finish(r) ==
  /\ pc' = "idle" /\ result' = r
  /\ names' = << >> /\ entry' = NULL /\ index' = 0 /\ cur' = 0 /\ off' = 0
  /\ need' = 0 /\ data' = << >>

Panic == pc' = "panic" /\ UNCHANGED <<result, names, entry, index, cur, off, need, data>>

(* Go to the offset o of the chain of e. *)
Walk(e, o) == pc' = "walk" /\ entry' = e /\ cur' = e.clus /\ off' = o

-----------------------------------------------------------------------------
(***************************************************************************)
(* fs_init, with a buffer of its own.  After a failed read it holds zeros, *)
(* or still the partition table: both are found out.                       *)
(***************************************************************************)
Inactive == [active |-> FALSE, start_lba |-> 0]
Bootable(entries) ==
  {entries[i].start_lba : i \in {j \in 1 .. 4 : /\ entries[j].active
                                              /\ \A k \in 1 .. j - 1 : ~entries[k].active}}

InitStep == UNCHANGED <<table, request, result, walk, file, fatbuf, dirbuf, mishap>>

FsInit ==
  /\ pc = "off" /\ pc' = "mbr"
  /\ AtaCall(0, 1)
  /\ UNCHANGED <<part, bpb>> /\ InitStep

MbrRead ==
  /\ pc = "mbr" /\ driver = "idle"
  /\ LET entries == IF Buffer(NULL) = 0 THEN table ELSE [i \in 1 .. 4 |-> Inactive] IN
     \/ /\ part' \in Bootable(entries)
        /\ pc' = "volume" /\ AtaCall(part', 1)
     \/ Bootable(entries) = {} /\ pc' = "panic" /\ UNCHANGED <<ata, part>>
  /\ UNCHANGED bpb /\ InitStep

VolumeRead ==
  /\ pc = "volume" /\ driver = "idle"
  /\ LET buf == Buffer(0) IN
     IF buf \in DOMAIN Volumes /\ Volumes[buf].fat16
     THEN pc' = "idle" /\ bpb' = Volumes[buf].bpb
     ELSE pc' = "panic" /\ UNCHANGED bpb
  /\ UNCHANGED <<ata, part>> /\ InitStep

-----------------------------------------------------------------------------
(***************************************************************************)
(* file_open.  fat_find_entry reads the sectors of the root one by one and *)
(* those of each further directory by their offset in its chain.           *)
(***************************************************************************)
Open(path) ==
  /\ pc = "idle"
  /\ request' = [op |-> "open", path |-> path] /\ mishap' = {} /\ out' = << >>
  /\ IF Head(path) \in TooLong THEN Panic /\ UNCHANGED ata
     ELSE /\ pc' = "root" /\ names' = path
          /\ AtaCall(root_start_lba, 1)
          /\ UNCHANGED <<result, entry, index, cur, off, need, data>>
  /\ UNCHANGED <<fat, file, fatbuf, dirbuf>>

(* The entry e of the first name is found: the others are looked up in it.  *)
Descend(e) ==
  LET rest == Tail(names) IN
  \/ rest = << >> /\ file' = e /\ Finish(0)
  \/ rest # << >> /\ Head(rest) \in TooLong /\ Panic /\ UNCHANGED file
  \/ rest # << >> /\ Head(rest) \notin TooLong /\ ~e.dir /\ Finish(-1) /\ UNCHANGED file
  \/ /\ rest # << >> /\ Head(rest) \notin TooLong /\ e.dir
     /\ names' = rest /\ index' = 0 /\ Walk(e, 0)
     /\ UNCHANGED <<result, need, data, file>>

RootRead ==
  /\ pc = "root" /\ driver = "idle"
  /\ dirbuf' = Buffer(dirbuf) /\ Note({"ignored"})
  /\ \/ /\ \E e \in Matches(dirbuf', Head(names)) : Descend(e)
        /\ UNCHANGED ata
     \/ /\ Matches(dirbuf', Head(names)) = {} /\ index + 1 < root_num_sectors
        /\ index' = index + 1 /\ AtaCall(root_start_lba + index + 1, 1)
        /\ UNCHANGED <<pc, result, names, entry, cur, off, need, data, file>>
     \/ /\ Matches(dirbuf', Head(names)) = {} /\ index + 1 = root_num_sectors
        /\ Finish(-1) /\ UNCHANGED <<ata, file>>
  /\ UNCHANGED <<fat, request, out, fatbuf>>

DirRead ==
  /\ pc = "dir" /\ driver = "idle"
  /\ dirbuf' = Buffer(dirbuf) /\ Note({"ignored"})
  /\ \/ \E e \in Matches(dirbuf', Head(names)) : Descend(e)
     \/ /\ Matches(dirbuf', Head(names)) = {}
        /\ index' = index + SECT_SIZE /\ Walk(entry, index + SECT_SIZE)
        /\ UNCHANGED <<result, names, need, data, file>>
  /\ UNCHANGED <<fat, ata, request, out, fatbuf>>

-----------------------------------------------------------------------------
(***************************************************************************)
(* The walk along a chain, of fat_off2lba and fat_read: fat_next_clus for  *)
(* every cluster that the offset skips, without a look at what it returns, *)
(* and a check of the last one.                                            *)
(***************************************************************************)
Kept(o)    == o
Skipped(o) == o - clus_size

Follow ==
  /\ pc = "walk" /\ off >= clus_size
  /\ pc' = "follow" /\ AtaCall(fat_start_lba + (cur * 2) \div SECT_SIZE, 1)
  /\ UNCHANGED <<fat, request, result, walk, file, fatbuf, dirbuf, mishap>>

Followed ==
  /\ pc = "follow" /\ driver = "idle"
  /\ fatbuf' = Buffer(fatbuf) /\ Note({"ignored"})
  /\ cur' \in NextClusters(fatbuf', cur) /\ off' = Skipped(off)
  /\ pc' = "walk"
  /\ UNCHANGED <<fat, ata, request, result, names, entry, index, need, data, out, file, dirbuf>>

EndOfChain ==
  /\ pc = "walk" /\ off < clus_size /\ ~Legal(cur)
  /\ Finish(IF request.op = "open" THEN -1 ELSE Len(out))
  /\ UNCHANGED <<fat, ata, request, out, file, fatbuf, dirbuf, mishap>>

(* The bytes that are read from this cluster: up to its end, or what is     *)
(* still needed.                                                           *)
AllNeeded == need
Portion   == Least(clus_size - off, need)

Arrive ==
  /\ pc = "walk" /\ off < clus_size /\ Legal(cur)
  /\ IF request.op = "open"
     THEN pc' = "dir"  /\ AtaCall(clus2lba(cur) + off \div SECT_SIZE, 1)
     ELSE pc' = "data" /\ AtaCall(clus2lba(cur) + off \div SECT_SIZE, Portion \div SECT_SIZE)
  /\ UNCHANGED <<fat, request, result, walk, file, fatbuf, dirbuf, mishap>>

-----------------------------------------------------------------------------
(***************************************************************************)
(* file_read, for the part that follows after b bytes: from inside a       *)
(* sector to its end, through a buffer; all whole sectors at once; or the  *)
(* start of the last sector, through a buffer.  fat_read reads Span bytes  *)
(* from the start of a sector, of which the part is the Chunk after Skip.  *)
(***************************************************************************)
Size(r)     == Least(r.size, file.size - r.offset)
FirstSkip(r, b) == r.offset % SECT_SIZE
Skip(r, b)  == (r.offset + b) % SECT_SIZE
Whole(r, b) == Skip(r, b) = 0 /\ Size(r) - b >= SECT_SIZE
Chunk(r, b) ==
  IF Whole(r, b) THEN ((Size(r) - b) \div SECT_SIZE) * SECT_SIZE
  ELSE Least(Size(r) - b, SECT_SIZE - Skip(r, b))
Span(r, b)  == IF Whole(r, b) THEN Chunk(r, b) ELSE SECT_SIZE

ReadPart(r, bytes) ==
  LET b == Len(bytes) IN
  /\ out' = bytes
  /\ Walk(file, r.offset + b - Skip(r, b))
  /\ need' = Span(r, b) /\ data' = << >>
  /\ UNCHANGED <<result, names, index>>

NextPart(r, bytes) ==
  \/ Len(bytes) = Size(r) /\ out' = bytes /\ Finish(Len(bytes))
  \/ Len(bytes) # Size(r) /\ ReadPart(r, bytes)

(* An offset inside a sector is read from even if no byte is wanted.        *)
Read(r) ==
  /\ pc = "idle" /\ file # NULL
  /\ request' = r /\ mishap' = {}
  /\ \/ r.offset >= file.size /\ out' = << >> /\ Finish(0)
     \/ r.offset < file.size /\ Skip(r, 0) # 0 /\ ReadPart(r, << >>)
     \/ r.offset < file.size /\ Skip(r, 0) = 0 /\ NextPart(r, << >>)
  /\ UNCHANGED <<fat, ata, file, fatbuf, dirbuf>>

(* A read of fat_read has returned: the next cluster, the next part, or     *)
(* after a failure the count of the bytes in the parts before.             *)
DataRead ==
  /\ pc = "data" /\ driver = "idle"
  /\ Note({})
  /\ LET all  == data \o Bytes(got)
         b    == Len(out)
         skip == Skip(request, b)
     IN
     \/ ret = "failed" /\ Finish(b) /\ UNCHANGED out
     \/ /\ ret = "ok" /\ need > Portion
        /\ data' = all /\ need' = need - Portion
        /\ pc' = "walk" /\ off' = clus_size
        /\ UNCHANGED <<result, names, entry, index, cur, out>>
     \/ /\ ret = "ok" /\ need = Portion
        /\ NextPart(request, out \o SubSeq(all, skip + 1, skip + Chunk(request, b)))
  /\ UNCHANGED <<fat, ata, request, file, fatbuf, dirbuf>>

(* spin() in assert.c *)
Spin == pc = "panic" /\ UNCHANGED vars

-----------------------------------------------------------------------------
Disk == AtaNext /\ UNCHANGED fs
Step == FsInit \/ MbrRead \/ VolumeRead \/ RootRead \/ DirRead \/ Follow \/ Followed \/ EndOfChain \/ Arrive \/ DataRead

Next ==
  \/ \E path \in Paths : Open(path)
  \/ \E r \in Reads : Read(r)
  \/ Step \/ Disk \/ Spin

(* The kernel executes its own code, and polls end: the drive answers or    *)
(* the retries are used up.                                                *)
Fairness == WF_vars(Step) /\ WF_vars(Disk)

Spec == Init /\ [][Next]_vars /\ Fairness

-----------------------------------------------------------------------------
(***************************************************************************)
(* Reference: the file tree and the bytes of a file, straight from what is *)
(* on the disk.                                                            *)
(***************************************************************************)
ByteOf(e, k) ==
  <<clus2lba(Nth(e.clus, k \div clus_size)) + (k % clus_size) \div SECT_SIZE, k % SECT_SIZE>>

(* The sectors of a directory *)
Sectors(e) ==
  {s \in DOMAIN Directory : \E n \in 0 .. Cardinality(Cluster) :
     /\ \A i \in 0 .. n : Nth(e.clus, i) \in Cluster \ {0, 1}
     /\ s \in clus2lba(Nth(e.clus, n)) .. clus2lba(Nth(e.clus, n)) + bpb.sec_per_clus - 1}
RootEntries == UNION {{Directory[s][k] : k \in DOMAIN Directory[s]} :
                        s \in DOMAIN Directory \cap (root_start_lba .. data_start_lba - 1)}
Contents ==
  [e \in Listed |->
     IF e.dir THEN UNION {{Directory[s][k] : k \in DOMAIN Directory[s]} : s \in Sectors(e)} ELSE {}]

(* The entries that a path leads to from a root, through the contents below *)
Lookup(path, root, below) ==
  LET at[i \in 1 .. Len(path)] ==
        {e \in IF i = 1 THEN root ELSE UNION {below[d] : d \in at[i - 1]} : e.name = path[i]}
  IN  at[Len(path)]
Resolve(path) == Lookup(path, RootEntries, Contents)

UniqueNames ==
  \A E \in {RootEntries} \cup {Contents[e] : e \in Listed} : \A d, e \in E : d.name = e.name => d = e

Trusted == mishap \subseteq {"failed"}

(* fs_init goes on only with the parameters of the first bootable partition, *)
(* although it ignores failed reads (fs.c:470, 489).  And what file_open     *)
(* stores is the entry that the path names there, and it fails for a path    *)
(* that names none: unless a read of the call started late, or a failed one  *)
(* was ignored and a stale buffer searched (fs.c:192, 249), or a name is     *)
(* twice in one directory, where the code goes on with the first.            *)
OpenRight ==
  pc = "idle" =>
    /\ \E i \in 1 .. 4 : /\ \A k \in 1 .. i : table[k].active <=> k = i
                         /\ part = table[i].start_lba
    /\ Volumes[part].fat16 /\ bpb = Volumes[part].bpb
    /\ request # NULL /\ request.op = "open" /\ Trusted =>
         IF result = 0 THEN file \in Resolve(request.path)
         ELSE UniqueNames => Resolve(request.path) = {}

(* file_open returns 0 for a path when it has saved "the entry found", as    *)
(* its comment says (fs.c:171), for that path: also if reads fail, as long   *)
(* as none starts late.                                                      *)
OpenFindsPath ==
  pc = "idle" /\ request # NULL /\ request.op = "open" /\ result = 0 /\ "late" \notin mishap =>
    file \in Resolve(request.path)

(* The bytes that file_read delivers are those of the file from the offset   *)
(* on, however the read is split into sectors and clusters and wherever it   *)
(* fails: with the same exception, for the sectors of the table (fs.c:113).  *)
(* A call in which no read of the disk fails comes back with all bytes       *)
(* there are.                                                               *)
ReadRight ==
  request # NULL /\ request.op = "read" /\ Trusted =>
    /\ \A k \in DOMAIN out : out[k] = ByteOf(file, request.offset + k - 1)
    /\ pc = "idle" /\ mishap = {} =>
         /\ result = Len(out)
         /\ result = IF request.offset >= file.size THEN 0
                     ELSE Least(request.size, file.size - request.offset)

(* fat_next_clus is called for clusters only, "must be a legal value"       *)
(* (fs.c:104), although its callers do not check each step.                 *)
LegalClusters == TypeOK /\ (pc = "follow" /\ Trusted => cur > 1 /\ cur < RESERVED)

(* Every read of the disk is for at least one sector (0 would mean 65536),  *)
(* and one of data stays inside a cluster.                                  *)
ReadsInsideClusters ==
  driver = "select" =>
    /\ left > 0
    /\ pc = "data" => /\ want >= data_start_lba
                      /\ ((want - data_start_lba) % bpb.sec_per_clus) + left <= bpb.sec_per_clus

(* Every call returns, or stops the kernel over a name that is too long,     *)
(* once the drive does not fail for ever.                                   *)
CallsReturn == pc \notin {"idle", "panic"} ~> pc \in {"idle", "panic"}
=============================================================================
