---------------------------- MODULE Fat16Proofs ----------------------------
(***************************************************************************)
(* Theorems about the disk and the file system: RightSectors for every     *)
(* caller of the driver, and ReadRight, LegalClusters, ReadsInsideClusters *)
(* and OpenRight for every consistent volume.  IInv has four layers, and   *)
(* OInv, which is inductive together with it, is a fifth:                  *)
(*                                                                         *)
(*   AtaInv     the drive transfers next the sector that the driver takes  *)
(*              the next one for                                           *)
(*   CallInv    how far the call of ata_read is that each pc waits for;    *)
(*              Undisturbed: what fs_init reads is what it asked for       *)
(*   WalkInv    the chain is in use up to the offset looked for (Covered), *)
(*              and cur with off is at that offset of it (Reached): so     *)
(*              clusters need no check on the way                          *)
(*   ReadInv    the bytes in data continue those in out, and with need     *)
(*              they make up the part                                      *)
(*   OInv       the names before the next one have led to the directory    *)
(*              that is searched (Leads), whose sectors before index do    *)
(*              not have it (NoneBefore)                                   *)
(***************************************************************************)
EXTENDS Fat16, Basics, FiniteSetTheorems

-----------------------------------------------------------------------------
(* The drive and ata_read                                                    *)
InStep == ~late /\ driver = "data" => sector = want + Len(got)

AtaInv ==
  /\ AtaTypeOK
  /\ driver = "select" => got = << >>
  /\ drive \in {"busy", "drq"} => remaining > 0
  /\ InStep
  /\ RightSectors

-----------------------------------------------------------------------------
(* The call of ata_read that runs for pc, or has just returned               *)
Calling == {"mbr", "volume", "root", "dir", "follow", "data"}

Place ==
  CASE pc = "mbr"    -> 0
    [] pc = "volume" -> part
    [] pc = "root"   -> root_start_lba + index
    [] pc = "follow" -> fat_start_lba + (cur * 2) \div SECT_SIZE
    [] OTHER         -> clus2lba(cur) + off \div SECT_SIZE

Asked == IF pc = "data" THEN Portion \div SECT_SIZE ELSE 1

Progress(n) ==
  /\ n \in 1 .. COUNTS - 1
  /\ IF driver = "idle" THEN ret = "ok" => Len(got) = n
     ELSE left > 0 /\ Len(got) + left = n

CallInv == IF pc \in Calling THEN want = Place /\ Progress(Asked) ELSE driver = "idle"

(* While the volume is looked for, no call follows on one that was given up: *)
(* the drive is never about to transfer a sector of an earlier one.          *)
Undisturbed ==
  pc \in {"off", "mbr", "volume"} =>
    /\ ~late
    /\ pc = "off" => driver = "idle" /\ ret = "ok"
    /\ driver = "select" => drive = "ready" /\ left > 0
    /\ driver = "data" => remaining = left
    /\ driver = "idle" /\ ret = "ok" => drive = "ready"

-----------------------------------------------------------------------------
Walking == {"walk", "dir", "follow", "data"}
Mounted == part \in DOMAIN Volumes /\ Volumes[part].fat16 /\ bpb = Volumes[part].bpb

Stages ==
  /\ table \in Tables
  /\ pc = "volume" => part \in Nat
  /\ pc \in {"off", "mbr", "volume"} => request = NULL
  /\ pc \in Walking \cup {"root", "idle"} => Mounted
  /\ pc \in {"off", "mbr", "volume", "idle"} => index = 0
  /\ pc \in Walking \cup {"root"} => request \in Reads \/ request.op = "open"
  /\ pc \in {"root", "dir"} => request.op = "open"
  /\ pc = "data" => request.op = "read"
  /\ request \in Reads \cup {NULL} \/ request.op = "open"
  /\ file = NULL => request = NULL \/ request.op = "open"
  /\ data \in Seq(Nat \X Nat) /\ out \in Seq(Nat \X Nat)

Covered(e, t) == \A n \in 0 .. t : n * clus_size < t => Nth(e.clus, n) \in InUse
Reached(e, t) == \E n \in 0 .. t : n * clus_size + off = t /\ cur = Nth(e.clus, n)

Begin  == request.offset + Len(out) - Skip(request, Len(out))
Target == IF request.op = "open" THEN index ELSE Begin + Len(data)

WalkInv ==
  pc \in Walking =>
    /\ entry \in Listed /\ off % SECT_SIZE = 0 /\ Target \in Nat /\ Target % SECT_SIZE = 0
    /\ pc = "follow" => off >= clus_size
    /\ pc \in {"dir", "data"} => off < clus_size /\ Legal(cur)
    /\ Trusted => Covered(entry, Target) /\ Reached(entry, Target)

(* After b bytes a part follows: bytes are missing, or the offset is inside  *)
(* a sector.                                                                 *)
Unread(r, b) == b < Size(r) \/ (b = Size(r) /\ Skip(r, b) # 0)

ReadInv ==
  pc \in Walking /\ request.op = "read" =>
    /\ entry = file /\ request.offset < file.size
    /\ Unread(request, Len(out))
    /\ need > 0 /\ Len(data) + need = Span(request, Len(out))
    /\ Trusted => \A k \in DOMAIN data : data[k] = ByteOf(file, Begin + k - 1)

IInv ==
  AtaInv /\ TypeOK /\ CallInv /\ Undisturbed /\ Stages /\ WalkInv /\ ReadInv /\ ReadRight

-----------------------------------------------------------------------------
LEMMA InitAtaInv == AtaInit => AtaInv
PROOF
  <1> SUFFICES ASSUME AtaInit PROVE AtaInv
    OBVIOUS
  <1>1. /\ 0 \in 0 .. COUNTS - 1 /\ 0 \in 0 .. MaxFaults /\ << >> \in Seq(Nat)
        /\ \A i \in DOMAIN << >> : FALSE
    BY AtaAssumption
  <1>2. AtaTypeOK
    BY <1>1 DEF AtaInit, AtaTypeOK
  <1> QED BY <1>1, <1>2 DEF AtaInit, AtaInv, InStep, RightSectors

LEMMA CallKeeps ==
  ASSUME AtaInv, NEW lba \in Nat, NEW count \in Nat, AtaCall(lba, count)
  PROVE  AtaInv'
PROOF
  <1>1. count % COUNTS \in 0 .. COUNTS - 1
    BY AtaAssumption, DivMod
  <1>2. AtaTypeOK'
    <2>1. /\ driver' = "select" /\ want' = lba /\ left' = count % COUNTS /\ got' = << >>
          /\ late' = FALSE /\ UNCHANGED <<ret, drive, sector, remaining, faults>>
      BY DEF AtaCall
    <2>2. << >> \in Seq(Nat) /\ FALSE \in BOOLEAN
      OBVIOUS
    <2> QED BY <1>1, <2>1, <2>2 DEF AtaInv, AtaTypeOK
  <1> QED BY <1>2 DEF AtaCall, AtaInv, InStep, RightSectors

(* A command for a drive that is neither busy nor about to transfer is       *)
(* obeyed.                                                                   *)
LEMMA CommandKeeps == AtaInv /\ Command => AtaInv'
PROOF
  <1> SUFFICES ASSUME AtaInv, Command PROVE AtaInv'
    OBVIOUS
  <1>1. want' = want /\ got' = << >> /\ got = << >> /\ sector' \in {sector, want}
    BY DEF AtaInv, Command, Obeyed, Ignored
  <1>2. ~late' => sector' = want
    BY DEF Command, DeviceReady, Obeyed, Ignored
  <1>3. driver' = "data" /\ left' = left /\ ret' = ret /\ faults' = faults /\ late' \in BOOLEAN
    BY DEF Command
  <1>4. InStep' /\ RightSectors'
    BY <1>1, <1>2 DEF AtaInv, AtaTypeOK, InStep, RightSectors
  <1>5. (IF left = 0 THEN COUNTS ELSE left) \in Nat \ {0}
    BY AtaAssumption DEF AtaInv, AtaTypeOK
  <1>6. /\ remaining' \in Nat /\ drive' \in {"busy", "ready", "drq", "err"}
        /\ drive' \in {"busy", "drq"} => remaining' > 0
    BY <1>5 DEF AtaInv, AtaTypeOK, Command, Obeyed, Ignored
  <1>7. AtaTypeOK'
    BY <1>1, <1>3, <1>6 DEF AtaInv, AtaTypeOK
  <1> QED BY <1>3, <1>4, <1>6, <1>7 DEF AtaInv

(* What one sector more leaves to be expected *)
LEMMA AfterIs ==
  ASSUME NEW n \in 0 .. COUNTS - 1
  PROVE  After(n) \in 0 .. COUNTS - 1 /\ (n > 0 => After(n) = n - 1)
PROOF
  <1>1. COUNTS \in Nat /\ COUNTS > 0 /\ n \in Nat
    BY AtaAssumption
  <1>2. CASE n = 0
    <2>1. n + COUNTS - 1 \in Nat /\ n + COUNTS - 1 < COUNTS
      BY <1>1, <1>2
    <2> QED BY <1>1, <1>2, <2>1, DivLess DEF After
  <1>3. CASE n > 0
    <2>1. n + COUNTS - 1 \in Nat /\ n + COUNTS - 1 = COUNTS * 1 + (n - 1) /\ n - 1 \in 0 .. COUNTS - 1
      BY <1>1, <1>3
    <2>2. (n + COUNTS - 1) % COUNTS = n - 1
      BY <1>1, <2>1, DivIs
    <2> QED BY <1>1, <1>3, <2>1, <2>2 DEF After
  <1> QED BY <1>1, <1>2, <1>3

(* What is transferred is what follows, and then the next one follows.       *)
LEMMA TransferKeeps == AtaInv /\ Transfer => AtaInv'
PROOF
  <1> SUFFICES ASSUME AtaInv, Transfer PROVE AtaInv'
    OBVIOUS
  <1>1. /\ driver = "data" /\ driver' \in {"idle", "data"} /\ want' = want /\ late' = late
        /\ got' = Append(got, sector) /\ sector' = sector + 1 /\ ret' \in {ret, "ok"}
        /\ drive = "drq" /\ remaining' = remaining - 1 /\ left' = After(left)
        /\ drive' = (IF remaining = 1 THEN "ready" ELSE "busy") /\ faults' = faults
    BY DEF Transfer
  <1>2. /\ want \in Nat /\ sector \in Nat /\ got \in Seq(Nat) /\ RightSectors
        /\ ~late => sector = want + Len(got)
        /\ remaining \in Nat /\ remaining > 0 /\ left \in 0 .. COUNTS - 1
    BY <1>1 DEF AtaInv, AtaTypeOK, InStep
  <1>3. /\ got' \in Seq(Nat) /\ Len(got') = Len(got) + 1 /\ got'[Len(got) + 1] = sector
        /\ \A i \in 1 .. Len(got) : got'[i] = got[i]
        /\ DOMAIN got' = 1 .. Len(got) + 1 /\ DOMAIN got = 1 .. Len(got)
    BY <1>1, <1>2
  <1>4. RightSectors'
    <2> SUFFICES ASSUME ~late, NEW i \in 1 .. Len(got) + 1 PROVE got'[i] = want + i - 1
      BY <1>1, <1>2, <1>3 DEF RightSectors
    <2>1. CASE i \in 1 .. Len(got)
      BY <1>2, <1>3, <2>1 DEF RightSectors
    <2>2. CASE i = Len(got) + 1
      BY <1>2, <1>3, <2>2
    <2> QED BY <1>2, <2>1, <2>2
  <1>5. InStep'
    BY <1>1, <1>2, <1>3 DEF InStep
  <1>6. /\ left' \in 0 .. COUNTS - 1 /\ remaining' \in Nat /\ sector' \in Nat
        /\ drive' \in {"busy", "drq"} => remaining' > 0
    BY <1>1, <1>2, AfterIs
  <1>7. AtaTypeOK'
    BY <1>1, <1>3, <1>6 DEF AtaInv, AtaTypeOK
  <1> QED BY <1>1, <1>4, <1>5, <1>6, <1>7 DEF AtaInv

(* Every other step leaves the sectors, read and next, as they are.          *)
LEMMA QuietKeeps ==
  ASSUME AtaInv, UNCHANGED <<want, left, got, sector, remaining, late>>,
         driver' \in {driver, "idle"}, ret' \in {ret, "failed"}, faults' \in 0 .. MaxFaults,
         drive' = drive \/ (drive = "busy" /\ drive' \in {"drq", "err"})
  PROVE  AtaInv'
BY DEF AtaInv, AtaTypeOK, InStep, RightSectors

LEMMA FaultCount == faults \in 0 .. MaxFaults /\ faults < MaxFaults => faults + 1 \in 0 .. MaxFaults
BY AtaAssumption

LEMMA AtaNextKeeps == AtaInv /\ AtaNext => AtaInv'
PROOF
  <1> SUFFICES ASSUME AtaInv, AtaNext PROVE AtaInv'
    OBVIOUS
  <1>1. faults \in 0 .. MaxFaults
    BY DEF AtaInv, AtaTypeOK
  <1>2. CASE Command
    BY <1>2, CommandKeeps
  <1>3. CASE Transfer
    BY <1>3, TransferKeeps
  <1>4. CASE GiveUp
    <2>1. /\ UNCHANGED <<want, left, got, sector, remaining, late>>
          /\ drive' = drive \/ (drive = "busy" /\ drive' \in {"drq", "err"})
          /\ driver' \in {driver, "idle"} /\ ret' \in {ret, "failed"}
          /\ faults' \in 0 .. MaxFaults
      BY <1>1, <1>4, FaultCount DEF GiveUp
    <2> QED BY <2>1, QuietKeeps
  <1>5. CASE DataError
    <2>1. /\ UNCHANGED <<want, left, got, sector, remaining, late>>
          /\ drive' = drive \/ (drive = "busy" /\ drive' \in {"drq", "err"})
          /\ driver' \in {driver, "idle"} /\ ret' \in {ret, "failed"}
          /\ faults' \in 0 .. MaxFaults
      BY <1>1, <1>5 DEF DataError
    <2> QED BY <2>1, QuietKeeps
  <1>6. CASE Deliver
    BY <1>1, <1>6, QuietKeeps DEF Deliver
  <1>7. CASE Fault
    BY <1>1, <1>7, FaultCount, QuietKeeps DEF Fault
  <1> QED BY <1>2, <1>3, <1>4, <1>5, <1>6, <1>7 DEF AtaNext

LEMMA AtaSame == AtaInv /\ UNCHANGED ata => AtaInv'
BY DEF ata, AtaInv, AtaTypeOK, InStep, RightSectors

(* Timeouts and errors leave nothing behind that a later read could take     *)
(* for its own sectors, unless its command is written while the drive still  *)
(* waits to transfer another (ata.c:94): whoever calls the driver.           *)
THEOREM SectorsAreRight == AtaSpec => []RightSectors
PROOF
  <1>1. AtaInv /\ [AtaNext \/ \E lba, count \in Nat : AtaCall(lba, count)]_ata => AtaInv'
    BY CallKeeps, AtaNextKeeps, AtaSame
  <1>2. AtaInv => RightSectors
    BY DEF AtaInv
  <1> QED BY <1>1, <1>2, InitAtaInv, PTL DEF AtaSpec

(* The progress of a call: begun with all sectors to come, and over when     *)
(* they have come or the driver has given up.                                *)
LEMMA CallProgress ==
  ASSUME NEW lba, NEW n \in 1 .. COUNTS - 1, AtaCall(lba, n)
  PROVE  want' = lba /\ Progress(n)' /\ driver' = "select"
PROOF
  <1>1. n \in Nat /\ n < COUNTS /\ COUNTS \in Nat /\ COUNTS > 0
    BY AtaAssumption
  <1>2. left' = n
    BY <1>1, DivLess DEF AtaCall
  <1>3. driver' = "select" /\ got' = << >> /\ want' = lba
    BY DEF AtaCall
  <1> QED BY <1>1, <1>2, <1>3 DEF Progress

LEMMA DiskProgress ==
  ASSUME AtaInv, AtaNext, NEW n, Progress(n)
  PROVE  want' = want /\ Progress(n)'
PROOF
  <1>1. /\ n \in 1 .. COUNTS - 1 /\ got \in Seq(Nat) /\ left \in 0 .. COUNTS - 1
        /\ COUNTS \in Nat
    BY AtaAssumption DEF AtaInv, AtaTypeOK, Progress
  <1>2. CASE Command
    BY <1>1, <1>2 DEF Command, AtaInv, Progress
  <1>3. CASE GiveUp \/ DataError
    BY <1>1, <1>3 DEF GiveUp, DataError, Progress
  <1>4. CASE Deliver \/ Fault
    BY <1>1, <1>4 DEF Deliver, Fault, Progress
  <1>5. CASE Transfer
    <2>1. /\ driver = "data" /\ want' = want /\ got' = Append(got, sector) /\ left' = After(left)
          /\ IF left' = 0 THEN driver' = "idle" ELSE driver' = driver
      BY <1>5 DEF Transfer
    <2>2. left > 0 /\ Len(got) + left = n /\ left' = left - 1 /\ Len(got') = Len(got) + 1
      BY <1>1, <2>1, AfterIs, SMTT(60) DEF Progress
    <2> QED BY <1>1, <2>1, <2>2 DEF Progress
  <1> QED BY <1>2, <1>3, <1>4, <1>5 DEF AtaNext

LEMMA DiskIdle == AtaNext /\ driver = "idle" => driver' = "idle"
BY DEF AtaNext, Command, GiveUp, Transfer, DataError, Deliver, Fault

-----------------------------------------------------------------------------
(***************************************************************************)
(* What is on the disk: chains of clusters and the geometry of the volume  *)
(***************************************************************************)
LEMMA ChainExists ==
  ASSUME NEW N \in Nat, NEW c
  PROVE  \E f : f[0] = c /\ (\A i \in 1 .. N : f[i] = Fat[f[i - 1]]) /\ Nth(c, N) = f[N]
PROOF
  <1> DEFINE Goes(f, k) == f[0] = c /\ \A i \in 1 .. k : f[i] = Fat[f[i - 1]]
             T == {k \in 0 .. N : \E f : Goes(f, k)}
  <1>1. 0 \in T
    <2>1. Goes([i \in {0} |-> c], 0)
      OBVIOUS
    <2>2. \E f : Goes(f, 0)
      BY <2>1, Zenon
    <2>3. 0 \in 0 .. N
      OBVIOUS
    <2> HIDE DEF Goes
    <2> QED BY <2>2, <2>3, Zenon
  <1>2. ASSUME NEW k \in 0 .. N, k # N, k \in T
        PROVE  k + 1 \in T
    <2>1. PICK f : Goes(f, k)
      BY <1>2
    <2> DEFINE g == [i \in 0 .. k + 1 |-> IF i = k + 1 THEN Fat[f[k]] ELSE f[i]]
    <2>2. g[0] = c
      BY <2>1
    <2>3. \A i \in 1 .. k + 1 : g[i] = Fat[g[i - 1]]
      BY <2>1
    <2>4. k + 1 \in 0 .. N
      BY <1>2
    <2> HIDE DEF g
    <2> QED BY <2>2, <2>3, <2>4
  <1>3. N \in T
    <2>1. N \in 0 .. N
      OBVIOUS
    <2> HIDE DEF T
    <2> QED BY <1>1, <1>2, <2>1, Upwards
  <1>4. PICK f : Goes(f, N)
    BY <1>3
  <1> DEFINE at == [i \in 0 .. N |-> f[i]]
             Is(g) == g = [i \in 0 .. N |-> IF i = 0 THEN c ELSE Fat[g[i - 1]]]
             w == CHOOSE g : Is(g)
  <1>5. Is(at)
    BY <1>4
  <1>6. Is(w)
    <2> HIDE DEF Is, at
    <2> QED BY <1>5, Zenon
  <1>7. Nth(c, N) = w[N]
    BY DEF Nth
  <1> HIDE DEF w
  <1>8. w[0] = c /\ \A i \in 1 .. N : w[i] = Fat[w[i - 1]]
    BY <1>6
  <1> QED BY <1>7, <1>8

LEMMA NthIs ==
  ASSUME NEW c, NEW n \in Nat
  PROVE  Nth(c, 0) = c /\ Nth(c, n + 1) = Fat[Nth(c, n)]
PROOF
  <1> DEFINE Goes(f, k) == f[0] = c /\ \A i \in 1 .. k : f[i] = Fat[f[i - 1]]
  <1>1. \A k \in Nat : \E f : Goes(f, k) /\ Nth(c, k) = f[k]
    BY ChainExists
  <1>2. Nth(c, 0) = c
    BY <1>1
  <1>3. n + 1 \in Nat
    OBVIOUS
  <1>4. PICK f : Goes(f, n) /\ Nth(c, n) = f[n]
    BY <1>1
  <1>5. PICK g : Goes(g, n + 1) /\ Nth(c, n + 1) = g[n + 1]
    BY <1>1, <1>3
  <1> DEFINE T == {i \in 0 .. n : g[i] = f[i]}
  <1>6. 0 \in T
    BY <1>4, <1>5
  <1>7. ASSUME NEW i \in 0 .. n, i # n, i \in T
        PROVE  i + 1 \in T
    <2>1. i + 1 \in 1 .. n /\ i + 1 \in 1 .. n + 1 /\ (i + 1) - 1 = i /\ g[i] = f[i]
      BY <1>7
    <2>2. g[i + 1] = Fat[g[i]] /\ f[i + 1] = Fat[f[i]]
      BY <1>4, <1>5, <2>1
    <2> QED BY <2>1, <2>2
  <1>8. g[n] = f[n]
    <2>1. n \in 0 .. n
      OBVIOUS
    <2>2. n \in T
      <3> HIDE DEF T
      <3> QED BY <1>6, <1>7, <2>1, Upwards
    <2> QED BY <2>2
  <1>9. n + 1 \in 1 .. n + 1 /\ (n + 1) - 1 = n
    OBVIOUS
  <1> QED BY <1>2, <1>4, <1>5, <1>8, <1>9

-----------------------------------------------------------------------------
(* Multiples of m: sums, differences, and the distance between two of them   *)
LEMMA MultipleIs ==
  ASSUME NEW m \in Nat, m > 0, NEW a \in Nat, a % m = 0
  PROVE  a \div m \in Nat /\ a = m * (a \div m)
BY DivMod

LEMMA MultipleOf ==
  ASSUME NEW m \in Nat, m > 0, NEW q \in Nat
  PROVE  m * q \in Nat /\ (m * q) % m = 0 /\ (m * q) \div m = q
PROOF
  <1>1. m * q \in Nat /\ m * q = m * q + 0 /\ 0 \in 0 .. m - 1
    OBVIOUS
  <1> QED BY <1>1, DivIs

LEMMA MultiplesOrder ==
  ASSUME NEW m \in Nat, m > 0, NEW p \in Nat, NEW q \in Nat
  PROVE  /\ p < q => m * p + m <= m * q
         /\ m * p < m * q => p < q
         /\ p <= q => m * p <= m * q
PROOF
  <1>1. ASSUME p < q PROVE m * p + m <= m * q
    <2>1. q - p - 1 \in Nat
      BY <1>1
    <2>2. PICK d \in Nat : d = q - p - 1
      BY <2>1
    <2>3. q = p + 1 + d
      BY <2>2
    <2>4. m * q = m * p + m + m * d /\ m * d \in Nat /\ m * d >= 0
      BY <2>3
    <2>5. m * p \in Nat /\ m * q \in Nat
      OBVIOUS
    <2> QED BY <2>4, <2>5
  <1>2. ASSUME q <= p, m * p < m * q PROVE FALSE
    <2>1. PICK d \in Nat : d = p - q
      BY <1>2
    <2>2. p = q + d
      BY <2>1
    <2>3. m * p = m * q + m * d /\ m * d \in Nat /\ m * d >= 0
      BY <2>2
    <2>4. m * p \in Nat /\ m * q \in Nat
      OBVIOUS
    <2> QED BY <1>2, <2>3, <2>4
  <1>3. ASSUME p <= q PROVE m * p <= m * q
    <2>1. PICK d \in Nat : d = q - p
      BY <1>3
    <2>2. q = p + d
      BY <2>1
    <2>3. m * q = m * p + m * d /\ m * d \in Nat /\ m * d >= 0
      BY <2>2
    <2>4. m * p \in Nat /\ m * q \in Nat
      OBVIOUS
    <2> QED BY <2>3, <2>4
  <1> QED BY <1>1, <1>2, <1>3

LEMMA Multiples ==
  ASSUME NEW m \in Nat, m > 0, NEW a \in Nat, NEW b \in Nat, a % m = 0, b % m = 0
  PROVE  /\ (a + b) % m = 0 /\ (a + b) \div m = a \div m + b \div m
         /\ b <= a => (a - b) % m = 0 /\ (a - b) \div m = a \div m - b \div m
         /\ b < a => b + m <= a /\ b \div m < a \div m
         /\ b <= a => b \div m <= a \div m
PROOF
  <1>1. PICK p \in Nat : p = a \div m /\ a = m * p
    BY MultipleIs
  <1>2. PICK q \in Nat : q = b \div m /\ b = m * q
    BY MultipleIs
  <1>3. a + b = m * (p + q) /\ p + q \in Nat
    BY <1>1, <1>2
  <1>4. (a + b) % m = 0 /\ (a + b) \div m = p + q
    BY <1>3, MultipleOf
  <1>5. b < a => q < p /\ b + m <= a
    BY <1>1, <1>2, MultiplesOrder
  <1>6. b <= a => q <= p
    <2>1. p < q => m * p + m <= m * q
      BY MultiplesOrder
    <2>2. p < q => a + m <= b
      BY <1>1, <1>2, <2>1
    <2> QED BY <2>2
  <1>7. ASSUME b <= a PROVE (a - b) % m = 0 /\ (a - b) \div m = p - q
    <2>1. PICK d \in Nat : d = p - q
      BY <1>6, <1>7
    <2>2. p = q + d
      BY <2>1
    <2>3. m * p = m * q + m * d /\ m * q \in Nat /\ m * d \in Nat
      BY <2>2
    <2>4. a - b = m * d
      BY <1>1, <1>2, <2>3
    <2>5. (m * d) % m = 0 /\ (m * d) \div m = d
      BY MultipleOf
    <2> QED BY <2>1, <2>4, <2>5
  <1> QED BY <1>1, <1>2, <1>4, <1>5, <1>6, <1>7

LEMMA Sum ==
  ASSUME NEW m \in Nat, m > 0, NEW a \in Nat, a % m = 0, NEW b \in Nat, b % m = 0
  PROVE  (a + b) % m = 0
BY Multiples

LEMMA Difference ==
  ASSUME NEW m \in Nat, m > 0, NEW a \in Nat, a % m = 0, NEW b \in Nat, b % m = 0, b <= a
  PROVE  (a - b) % m = 0
BY Multiples

(* The geometry of a volume that is mounted                                  *)
LEMMA Sizes == SECT_SIZE \in Nat /\ SECT_SIZE > 0 /\ ENTRY_SIZE \in Nat /\ ENTRY_SIZE > 0
BY SizeAssumption

LEMMA Geometry ==
  ASSUME Mounted
  PROVE  /\ {part, fat_start_lba, root_start_lba, root_num_sectors, data_start_lba} \subseteq Nat
         /\ bpb.sec_per_clus \in 1 .. COUNTS - 1
         /\ clus_size \in Nat /\ clus_size > 0 /\ clus_size % SECT_SIZE = 0
         /\ clus_size \div SECT_SIZE = bpb.sec_per_clus
PROOF
  <1>1. part \in Nat /\ bpb \in Parameters
    BY DiskAssumption DEF Mounted
  <1>2. /\ bpb.sec_per_clus \in 1 .. COUNTS - 1 /\ bpb.rsvd_sec_cnt \in Nat
        /\ bpb.num_fats \in Nat /\ bpb.sec_per_fat_16 \in Nat /\ bpb.root_ent_cnt \in Nat
    BY <1>1 DEF Parameters
  <1>3. PICK x \in Nat : x = bpb.num_fats * bpb.sec_per_fat_16
    BY <1>2
  <1>4. PICK y \in Nat : y = bpb.root_ent_cnt * ENTRY_SIZE
    BY <1>2, Sizes
  <1>5. fat_start_lba \in Nat
    BY <1>1, <1>2 DEF fat_start_lba
  <1>6. root_start_lba \in Nat
    BY <1>3, <1>5 DEF root_start_lba
  <1>7. y + SECT_SIZE - 1 \in Nat
    BY Sizes
  <1>8. root_num_sectors \in Nat
    BY <1>4, <1>7, Sizes, DivMod DEF root_num_sectors
  <1>9. data_start_lba \in Nat
    BY <1>6, <1>8 DEF data_start_lba
  <1>10. PICK s \in Nat : s = bpb.sec_per_clus /\ s > 0
    BY <1>2
  <1>11. clus_size = SECT_SIZE * s
    BY <1>10, Sizes DEF clus_size
  <1>12. SECT_SIZE * s > 0
    BY <1>10, Sizes
  <1> QED BY <1>1, <1>2, <1>5, <1>6, <1>8, <1>9, <1>10, <1>11, <1>12, Sizes, MultipleOf

LEMMA GeometrySame ==
  ASSUME part' = part, bpb' = bpb
  PROVE  /\ fat_start_lba' = fat_start_lba /\ root_start_lba' = root_start_lba
         /\ data_start_lba' = data_start_lba /\ clus_size' = clus_size
         /\ root_num_sectors' = root_num_sectors
         /\ \A c : clus2lba(c)' = clus2lba(c)
         /\ \A e, k : ByteOf(e, k)' = ByteOf(e, k)
         /\ \A e, t : Covered(e, t)' <=> Covered(e, t)
         /\ table' = table => (Mounted' <=> Mounted)
PROOF
  <1>1. /\ fat_start_lba' = fat_start_lba /\ root_start_lba' = root_start_lba
        /\ data_start_lba' = data_start_lba /\ clus_size' = clus_size
        /\ root_num_sectors' = root_num_sectors
    BY DEF fat_start_lba, root_start_lba, data_start_lba, root_num_sectors, clus_size
  <1>2. \A c : clus2lba(c)' = clus2lba(c)
    BY <1>1 DEF clus2lba
  <1>3. \A e, k : ByteOf(e, k)' = ByteOf(e, k)
    BY <1>1, <1>2 DEF ByteOf
  <1>4. \A e, t : Covered(e, t)' <=> Covered(e, t)
    BY <1>1 DEF Covered
  <1> QED BY <1>1, <1>2, <1>3, <1>4 DEF Mounted

-----------------------------------------------------------------------------
(* Entries and clusters *)
LEMMA EntryIs ==
  ASSUME NEW e \in Listed
  PROVE  e.clus \in Nat /\ e.size \in Nat /\ e # NULL
BY DiskAssumption

LEMMA InUseIs ==
  ASSUME NEW c \in InUse
  PROVE  c \in Nat /\ c \in Cluster /\ Legal(c)
PROOF
  <1>1. c \in Nat /\ c # 0 /\ c # 1 /\ c \in Cluster /\ c < RESERVED
    BY DiskAssumption DEF InUse
  <1> QED BY <1>1 DEF Legal

LEMMA LegalIs ==
  ASSUME NEW c, c \in InUse \/ c \in {0, 1} \/ c >= RESERVED, c \in Nat, Legal(c)
  PROVE  c \in InUse
BY DiskAssumption DEF Legal

(* What fat_next_clus returns for a cluster whose sector of the table is in  *)
(* the buffer                                                                *)
LEMMA NextIs ==
  ASSUME Mounted, NEW c \in InUse
  PROVE  NextClusters(fat_start_lba + (c * 2) \div SECT_SIZE, c) = {Fat[c]}
PROOF
  <1> DEFINE h == SECT_SIZE \div 2
             q == c \div h
             r == c % h
             buf == fat_start_lba + (c * 2) \div SECT_SIZE
  <1>1. c \in Nat /\ c \in Cluster
    BY InUseIs
  <1>2. h \in Nat /\ h > 0 /\ SECT_SIZE = 2 * h
    BY SizeAssumption
  <1>3. q \in Nat /\ r \in 0 .. h - 1 /\ c = h * q + r
    BY <1>1, <1>2, DivMod
  <1>4. (c * 2) \div SECT_SIZE = q
    <2> HIDE DEF h, q, r
    <2>1. PICK x \in Nat : x = h * q
      BY <1>2, <1>3
    <2>2. c * 2 = 2 * x + 2 * r /\ 2 * x = SECT_SIZE * q /\ SECT_SIZE * q \in Nat
      BY <1>2, <1>3, <2>1
    <2>3. 2 * r \in 0 .. SECT_SIZE - 1 /\ c * 2 \in Nat
      BY <1>1, <1>2, <1>3
    <2>4. c * 2 = SECT_SIZE * q + 2 * r
      BY <2>2, <2>1
    <2> QED BY <1>3, <2>3, <2>4, Sizes, DivIs
  <1>5. fat_start_lba \in Nat
    BY Geometry
  <1>6. buf = fat_start_lba + q /\ buf \in Nat /\ buf - fat_start_lba = q /\ buf >= fat_start_lba
    <2> HIDE DEF q
    <2> QED BY <1>3, <1>4, <1>5
  <1>7. buf # NULL
    BY <1>6, DiskAssumption
  <1>8. q * h = h * q
    BY <1>2, <1>3
  <1>9. Slot(buf, c) = c
    <2>1. Slot(buf, c) = (buf - fat_start_lba) * h + r
      BY DEF Slot
    <2> HIDE DEF q, h, r, buf
    <2> QED BY <1>3, <1>6, <1>8, <2>1
  <1>10. InTable(buf)
    BY <1>6, <1>7 DEF InTable
  <1> HIDE DEF buf
  <1>11. NextClusters(buf, c) = {Fat[c]}
    BY <1>1, <1>7, <1>9, <1>10 DEF NextClusters, Cluster
  <1> QED BY <1>11 DEF buf

(* The bytes that are read from a cluster                                    *)
LEMMA PortionIs ==
  ASSUME Mounted, off \in Nat, off % SECT_SIZE = 0, off < clus_size,
         need \in Nat, need % SECT_SIZE = 0, need > 0
  PROVE  /\ Portion \in Nat /\ Portion > 0 /\ Portion <= need /\ Portion + off <= clus_size
         /\ Portion % SECT_SIZE = 0 /\ (Portion \div SECT_SIZE) \in 1 .. bpb.sec_per_clus
         /\ off \div SECT_SIZE \in Nat
         /\ off \div SECT_SIZE + Portion \div SECT_SIZE <= bpb.sec_per_clus
         /\ need - Portion > 0 => Portion + off = clus_size
PROOF
  <1>1. /\ clus_size \in Nat /\ clus_size % SECT_SIZE = 0
        /\ clus_size \div SECT_SIZE = bpb.sec_per_clus /\ bpb.sec_per_clus \in Nat
        /\ SECT_SIZE \in Nat /\ SECT_SIZE > 0
    BY Geometry, Sizes
  <1>2. (clus_size - off) % SECT_SIZE = 0 /\ clus_size - off \in Nat
    <2>1. off <= clus_size /\ clus_size - off \in Nat
      BY <1>1
    <2> HIDE DEF clus_size
    <2> QED BY <1>1, <2>1, Difference, Zenon
  <1>3. /\ Portion \in Nat /\ Portion > 0 /\ Portion <= need /\ Portion + off <= clus_size
        /\ Portion % SECT_SIZE = 0
        /\ need - Portion > 0 => Portion + off = clus_size
    BY <1>1, <1>2 DEF Portion, Least
  <1>4. /\ (off + Portion) % SECT_SIZE = 0
        /\ (off + Portion) \div SECT_SIZE = off \div SECT_SIZE + Portion \div SECT_SIZE
    BY <1>1, <1>3, Multiples
  <1>5. off + Portion \in Nat /\ off + Portion <= clus_size
    BY <1>1, <1>3
  <1>6. (off + Portion) \div SECT_SIZE <= clus_size \div SECT_SIZE
    BY <1>1, <1>4, <1>5, Multiples
  <1>7. off \div SECT_SIZE \in Nat /\ Portion \div SECT_SIZE \in Nat
    BY <1>1, <1>3, MultipleIs
  <1>8. Portion \div SECT_SIZE > 0
    <2>1. 0 % SECT_SIZE = 0 /\ 0 \div SECT_SIZE = 0
      BY <1>1, DivLess
    <2>2. 0 \div SECT_SIZE < Portion \div SECT_SIZE
      BY <1>1, <1>3, <2>1, Multiples
    <2> QED BY <2>1, <2>2
  <1> QED BY <1>1, <1>3, <1>4, <1>6, <1>7, <1>8

(* A part of a read: it lies in the Span, and every sector of that begins    *)
(* before the end of the file.                                               *)
LEMMA SizeIs ==
  ASSUME NEW r \in Reads, file \in Listed, r.offset < file.size
  PROVE  /\ r.offset \in Nat /\ r.size \in Nat /\ r.op = "read"
         /\ Size(r) \in Nat /\ r.offset + Size(r) <= file.size
         /\ Size(r) = Least(r.size, file.size - r.offset)
PROOF
  <1>1. r.offset \in Nat /\ r.size \in Nat /\ r.op = "read" /\ file.size \in Nat
    <2>1. r \in [op : {"read"}, offset : Nat, size : Nat]
      BY CallAssumption
    <2> QED BY <2>1, EntryIs
  <1> QED BY <1>1 DEF Size, Least

LEMMA PartIs ==
  ASSUME NEW r \in Reads, file \in Listed, r.offset < file.size,
         NEW b \in Nat, Unread(r, b), NEW g, g = r.offset + b - Skip(r, b)
  PROVE  /\ Skip(r, b) \in 0 .. SECT_SIZE - 1
         /\ Chunk(r, b) \in Nat /\ b + Chunk(r, b) <= Size(r)
         /\ Span(r, b) \in Nat /\ Span(r, b) > 0 /\ Span(r, b) % SECT_SIZE = 0
         /\ Skip(r, b) + Chunk(r, b) <= Span(r, b)
         /\ g \in Nat /\ g % SECT_SIZE = 0
         /\ \A t \in Nat : t % SECT_SIZE = 0 /\ t < g + Span(r, b) => t < file.size
PROOF
  <1>1. /\ r.offset \in Nat /\ Size(r) \in Nat /\ r.offset + Size(r) <= file.size
        /\ file.size \in Nat /\ SECT_SIZE \in Nat /\ SECT_SIZE > 0
    BY SizeIs, EntryIs, Sizes
  <1>2. PICK p \in Nat : p = r.offset + b
    BY <1>1
  <1>3. PICK q \in Nat : q = p \div SECT_SIZE
    BY <1>1, <1>2, DivMod
  <1>4. PICK s \in 0 .. SECT_SIZE - 1 : s = p % SECT_SIZE
    BY <1>1, <1>2, DivMod
  <1>5. p = SECT_SIZE * q + s
    BY <1>1, <1>3, <1>4, DivMod
  <1>6. Skip(r, b) = s
    BY <1>2, <1>4 DEF Skip
  <1>7. g = SECT_SIZE * q /\ SECT_SIZE * q \in Nat
    BY <1>1, <1>2, <1>4, <1>5, <1>6
  <1>8. g \in Nat /\ g % SECT_SIZE = 0
    BY <1>1, <1>7, MultipleOf
  <1>9. PICK z \in Nat : z = Size(r) - b /\ (z > 0 \/ s > 0)
    BY <1>1, <1>6 DEF Unread
  <1>10. g + s + z <= file.size /\ g + s = r.offset + b
    BY <1>1, <1>2, <1>4, <1>5, <1>7, <1>9
  <1>11. CASE Whole(r, b)
    <2>1. s = 0 /\ z >= SECT_SIZE
      BY <1>6, <1>9, <1>11 DEF Whole
    <2>2. PICK n \in Nat : n = z \div SECT_SIZE
      BY <1>1, <1>9, DivMod
    <2>3. z % SECT_SIZE \in 0 .. SECT_SIZE - 1 /\ z = SECT_SIZE * n + (z % SECT_SIZE)
      BY <1>1, <1>9, <2>2, DivMod
    <2>4. Chunk(r, b) = n * SECT_SIZE /\ Span(r, b) = Chunk(r, b)
      BY <1>9, <1>11, <2>2 DEF Chunk, Span
    <2>5. n * SECT_SIZE = SECT_SIZE * n /\ SECT_SIZE * n \in Nat /\ (SECT_SIZE * n) % SECT_SIZE = 0
      <3>1. n * SECT_SIZE = SECT_SIZE * n /\ SECT_SIZE * n \in Nat
        BY <1>1, <2>2
      <3>2. (SECT_SIZE * n) % SECT_SIZE = 0
        BY <1>1, <2>2, MultipleOf
      <3> QED BY <3>1, <3>2
    <2>6. PICK c \in Nat : c = SECT_SIZE * n
      BY <2>5
    <2>7. Chunk(r, b) = c /\ Span(r, b) = c /\ c <= z /\ c % SECT_SIZE = 0 /\ c > 0
      BY <1>1, <2>1, <2>3, <2>4, <2>5, <2>6
    <2>8. b + c <= Size(r)
      <3> HIDE DEF Size
      <3> QED BY <1>1, <1>9, <2>6, <2>7
    <2>9. ASSUME NEW t \in Nat, t < g + Span(r, b) PROVE t < file.size
      <3>1. t < g + c /\ c \in Nat /\ g \in Nat
        BY <1>8, <2>6, <2>7, <2>9
      <3>2. g + z <= file.size /\ file.size \in Nat /\ z \in Nat
        BY <1>1, <1>8, <1>9, <1>10, <2>1
      <3> QED BY <2>7, <3>1, <3>2
    <2>10. Skip(r, b) + Chunk(r, b) <= Span(r, b)
      BY <1>6, <2>1, <2>6, <2>7
    <2>11. /\ Skip(r, b) \in 0 .. SECT_SIZE - 1
           /\ Chunk(r, b) \in Nat /\ b + Chunk(r, b) <= Size(r)
           /\ Span(r, b) \in Nat /\ Span(r, b) > 0 /\ Span(r, b) % SECT_SIZE = 0
      BY <1>4, <1>6, <2>6, <2>7, <2>8
    <2>12. \A t \in Nat : t % SECT_SIZE = 0 /\ t < g + Span(r, b) => t < file.size
      BY <2>9
    <2> QED BY <1>8, <2>10, <2>11, <2>12, Zenon
  <1>12. CASE ~Whole(r, b)
    <2>1. Chunk(r, b) = Least(z, SECT_SIZE - s) /\ Span(r, b) = SECT_SIZE
      BY <1>6, <1>9, <1>12 DEF Chunk, Span
    <2>2. PICK c \in Nat : c = Least(z, SECT_SIZE - s) /\ c <= z /\ c + s <= SECT_SIZE
      BY <1>1, <1>4, <1>9 DEF Least
    <2>3. b + c <= Size(r)
      BY <1>1, <1>9, <2>2
    <2>4. SECT_SIZE % SECT_SIZE = 0
      <3>1. SECT_SIZE = SECT_SIZE * 1
        BY <1>1
      <3> QED BY <1>1, <3>1, MultipleOf
    <2>5. ASSUME NEW t \in Nat, t % SECT_SIZE = 0, t < g + SECT_SIZE
          PROVE  t < file.size
      <3>1. t <= g
        <4>1. g < t => g + SECT_SIZE <= t
          BY <1>1, <1>8, <2>5, Multiples
        <4> QED BY <1>1, <1>8, <2>5, <4>1
      <3>2. s \in Nat
        BY <1>1, <1>4
      <3>3. g < file.size
        <4>1. PICK f \in Nat : f = file.size
          BY <1>1
        <4>2. PICK h \in Nat : h = g
          BY <1>8
        <4>3. h + s + z <= f /\ (z > 0 \/ s > 0)
          BY <1>9, <1>10, <4>1, <4>2
        <4>4. h < f
          BY <3>2, <4>3
        <4> QED BY <4>1, <4>2, <4>4
      <3> QED BY <1>1, <1>8, <3>1, <3>3
    <2> QED BY <1>1, <1>4, <1>6, <1>8, <2>1, <2>2, <2>3, <2>4, <2>5
  <1> QED BY <1>11, <1>12

-----------------------------------------------------------------------------
(***************************************************************************)
(* The bytes of sectors and of files                                       *)
(***************************************************************************)
LEMMA IndexIs ==
  ASSUME NEW n \in Nat, NEW k \in 1 .. n * SECT_SIZE
  PROVE  (k - 1) \div SECT_SIZE \in 0 .. n - 1 /\ (k - 1) % SECT_SIZE \in 0 .. SECT_SIZE - 1
PROOF
  <1>1. k - 1 \in Nat /\ n * SECT_SIZE = SECT_SIZE * n /\ SECT_SIZE * n \in Nat
    BY Sizes
  <1>2. PICK q \in Nat : q = (k - 1) \div SECT_SIZE
    BY <1>1, Sizes, DivMod
  <1>3. PICK r \in 0 .. SECT_SIZE - 1 : r = (k - 1) % SECT_SIZE
    BY <1>1, Sizes, DivMod
  <1>4. k - 1 = SECT_SIZE * q + r /\ SECT_SIZE * q \in Nat
    BY <1>1, <1>2, <1>3, Sizes, DivMod
  <1>5. SECT_SIZE * q < SECT_SIZE * n
    BY <1>1, <1>3, <1>4, Sizes
  <1>6. q < n
    BY <1>5, Sizes, MultiplesOrder
  <1> QED BY <1>2, <1>3, <1>6

LEMMA BytesAre ==
  ASSUME NEW s \in Seq(Nat)
  PROVE  /\ Len(s) \in Nat /\ Len(s) * SECT_SIZE \in Nat
         /\ Bytes(s) \in Seq(Nat \X Nat) /\ Len(Bytes(s)) = Len(s) * SECT_SIZE
         /\ \A k \in 1 .. Len(s) * SECT_SIZE :
              /\ (k - 1) \div SECT_SIZE + 1 \in 1 .. Len(s)
              /\ Bytes(s)[k] = <<s[(k - 1) \div SECT_SIZE + 1], (k - 1) % SECT_SIZE>>
PROOF
  <1>1. Len(s) \in Nat /\ SECT_SIZE \in Nat
    BY Sizes
  <1>2. PICK m \in Nat : m = Len(s) * SECT_SIZE
    BY <1>1
  <1>3. Bytes(s) = [k \in 1 .. m |-> <<s[(k - 1) \div SECT_SIZE + 1], (k - 1) % SECT_SIZE>>]
    BY <1>2 DEF Bytes
  <1>4. ASSUME NEW k \in 1 .. m
        PROVE  /\ (k - 1) \div SECT_SIZE + 1 \in 1 .. Len(s)
               /\ <<s[(k - 1) \div SECT_SIZE + 1], (k - 1) % SECT_SIZE>> \in Nat \X Nat
    <2>1. (k - 1) \div SECT_SIZE \in 0 .. Len(s) - 1 /\ (k - 1) % SECT_SIZE \in 0 .. SECT_SIZE - 1
      BY <1>1, <1>2, IndexIs
    <2>2. (k - 1) \div SECT_SIZE + 1 \in 1 .. Len(s) /\ (k - 1) % SECT_SIZE \in Nat
      BY <1>1, <2>1
    <2> QED BY <2>2
  <1>5. Bytes(s) \in [1 .. m -> Nat \X Nat]
    BY <1>3, <1>4
  <1>6. Bytes(s) \in Seq(Nat \X Nat) /\ Len(Bytes(s)) = m
    BY <1>2, <1>5
  <1> QED BY <1>1, <1>2, <1>3, <1>4, <1>6

(* A byte of a file, by the cluster it lies in and a sector before it there  *)
LEMMA ByteAt ==
  ASSUME Mounted, NEW e, NEW n \in Nat, NEW o \in Nat, NEW j \in Nat, o % SECT_SIZE = 0,
         o + j < clus_size, NEW t, t = n * clus_size + o + j
  PROVE  /\ j \div SECT_SIZE \in Nat /\ o \div SECT_SIZE \in Nat
         /\ ByteOf(e, t) = <<clus2lba(Nth(e.clus, n)) + (o \div SECT_SIZE + j \div SECT_SIZE),
                             j % SECT_SIZE>>
PROOF
  <1>1. PICK c \in Nat : c = clus_size /\ c > 0 /\ c % SECT_SIZE = 0
    BY Geometry
  <1>2. PICK s \in Nat : c = SECT_SIZE * s
    BY <1>1, Sizes, MultipleIs
  <1>3. PICK p \in Nat : o = SECT_SIZE * p /\ p = o \div SECT_SIZE
    BY Sizes, MultipleIs
  <1>4. PICK q \in Nat : q = j \div SECT_SIZE
    BY Sizes, DivMod
  <1>5. PICK r \in 0 .. SECT_SIZE - 1 : r = j % SECT_SIZE
    BY Sizes, DivMod
  <1>6. j = SECT_SIZE * q + r
    BY <1>4, <1>5, Sizes, DivMod
  <1>7. PICK x \in Nat : x = n * c
    BY <1>1
  <1>8. x = c * n /\ t = x + (o + j) /\ t \in Nat
    BY <1>1, <1>7
  <1>9. t \div clus_size = n /\ t % clus_size = o + j
    <2>1. o + j \in 0 .. c - 1 /\ t = c * n + (o + j)
      BY <1>1, <1>8
    <2> QED BY <1>1, <1>8, <2>1, DivIs
  <1>10. (o + j) \div SECT_SIZE = p + q
    <2>1. o + j = SECT_SIZE * (p + q) + r /\ p + q \in Nat /\ o + j \in Nat
      BY <1>3, <1>4, <1>6, Sizes
    <2> QED BY <1>5, <2>1, Sizes, DivIs
  <1>11. t % SECT_SIZE = r
    <2>1. PICK y \in Nat : y = s * n
      BY <1>2
    <2>2. x = SECT_SIZE * y
      BY <1>2, <1>7, <2>1, Sizes
    <2>3. t = SECT_SIZE * (y + p + q) + r /\ y + p + q \in Nat
      <3>1. /\ SECT_SIZE * (y + p + q) = SECT_SIZE * y + SECT_SIZE * p + SECT_SIZE * q
            /\ y + p + q \in Nat
            /\ SECT_SIZE * y \in Nat /\ SECT_SIZE * p \in Nat /\ SECT_SIZE * q \in Nat
        BY <1>3, <1>4, <2>1, Sizes
      <3>2. PICK u \in Nat : u = SECT_SIZE * q
        BY <3>1
      <3>3. PICK v \in Nat : v = SECT_SIZE * (y + p + q)
        BY <3>1, Sizes
      <3>4. t = x + (o + (u + r)) /\ v = x + o + u /\ x \in Nat
        BY <1>3, <1>6, <1>7, <1>8, <2>2, <3>1, <3>2, <3>3
      <3> QED BY <1>5, <3>1, <3>2, <3>3, <3>4
    <2>4. PICK w \in Nat : w = y + p + q
      BY <2>3
    <2>5. t \in Nat /\ t = SECT_SIZE * w + r
      BY <1>8, <2>3, <2>4
    <2>6. SECT_SIZE \in Nat /\ SECT_SIZE > 0 /\ r \in 0 .. SECT_SIZE - 1 /\ w \in Nat
      BY <1>5, <2>4, Sizes
    <2>7. \A a \in Nat : a = SECT_SIZE * w + r => a % SECT_SIZE = r
      BY <2>6, DivIs
    <2> QED BY <2>5, <2>7, Zenon
  <1> QED BY <1>3, <1>4, <1>5, <1>9, <1>10, <1>11 DEF ByteOf

-----------------------------------------------------------------------------
(* Nothing is said about a state but in terms of fs and the call of ata_read *)
LEMMA FsSame ==
  ASSUME UNCHANGED fs, Stages, WalkInv, ReadInv, ReadRight
  PROVE  Stages' /\ WalkInv' /\ ReadInv' /\ ReadRight' /\ Place' = Place /\ Asked' = Asked
PROOF
  <1>1. /\ UNCHANGED <<table, part, bpb, pc, request, result, names, entry, index, cur, off>>
        /\ UNCHANGED <<need, data, out, file, fatbuf, dirbuf, mishap>>
    BY DEF fs, fat, walk
  <1>2. /\ fat_start_lba' = fat_start_lba /\ root_start_lba' = root_start_lba
        /\ data_start_lba' = data_start_lba /\ clus_size' = clus_size
        /\ \A c : clus2lba(c)' = clus2lba(c)
        /\ \A e, k : ByteOf(e, k)' = ByteOf(e, k)
        /\ \A e, t : Covered(e, t)' <=> Covered(e, t)
        /\ Mounted' <=> Mounted
    BY <1>1, GeometrySame
  <1>3. \A e, t : Reached(e, t)' <=> Reached(e, t)
    BY <1>1, <1>2 DEF Reached
  <1>4. Begin' = Begin /\ Target' = Target /\ (Trusted' <=> Trusted)
    BY <1>1 DEF Begin, Target, Trusted, Skip
  <1>5. Stages'
    BY <1>1, <1>2 DEF Stages
  <1>6. WalkInv'
    BY <1>1, <1>2, <1>3, <1>4 DEF WalkInv
  <1>7. ReadInv'
    BY <1>1, <1>2, <1>4 DEF ReadInv, Unread, Size, Span, Whole, Chunk, Skip
  <1>8. ReadRight'
    BY <1>1, <1>2, <1>4 DEF ReadRight
  <1>9. Place' = Place
    BY <1>1, <1>2 DEF Place
  <1>10. Asked' = Asked
    BY <1>1, <1>2 DEF Asked, Portion
  <1> QED BY <1>5, <1>6, <1>7, <1>8, <1>9, <1>10

LEMMA DiskUndisturbed ==
  ASSUME AtaInv, Undisturbed, AtaNext, pc' = pc
  PROVE  Undisturbed'
PROOF
  <1> SUFFICES ASSUME pc \in {"off", "mbr", "volume"}
               PROVE  Undisturbed'
    BY DEF Undisturbed
  <1>1. /\ ~late
        /\ pc = "off" => driver = "idle" /\ ret = "ok"
        /\ driver = "select" => drive = "ready" /\ left > 0
        /\ driver = "data" => remaining = left
        /\ driver = "idle" /\ ret = "ok" => drive = "ready"
    BY DEF Undisturbed
  <1>2. /\ left \in 0 .. COUNTS - 1 /\ remaining \in Nat /\ COUNTS \in Nat
        /\ drive = "drq" => remaining > 0
    BY AtaAssumption DEF AtaInv, AtaTypeOK
  <1>3. CASE Command
    <2>1. driver = "select" /\ drive = "ready" /\ driver' = "data" /\ ret' = ret /\ left' = left
      BY <1>1, <1>3 DEF Command
    <2>2. ~late'
      BY <1>3, <2>1 DEF Command
    <2>3. remaining' = (IF left = 0 THEN COUNTS ELSE left)
      BY <1>3, <2>1 DEF Command, Obeyed, Ignored
    <2>4. left # 0
      BY <1>1, <1>2, <2>1
    <2> QED BY <1>1, <2>1, <2>2, <2>3, <2>4 DEF Undisturbed
  <1>4. CASE GiveUp \/ DataError
    <2>1. driver # "idle" /\ driver' = "idle" /\ ret' = "failed" /\ late' = late
      BY <1>4 DEF GiveUp, DataError
    <2> QED BY <1>1, <2>1 DEF Undisturbed
  <1>5. CASE Deliver \/ Fault
    BY <1>1, <1>5 DEF Deliver, Fault, Undisturbed
  <1>6. CASE Transfer
    <2>1. /\ driver = "data" /\ drive = "drq" /\ left' = After(left) /\ late' = late
          /\ IF left' = 0 THEN driver' = "idle" /\ ret' = "ok" ELSE driver' = driver /\ ret' = ret
          /\ remaining' = remaining - 1 /\ (remaining = 1 => drive' = "ready")
      BY <1>6 DEF Transfer
    <2>2. left = remaining /\ left' = left - 1
      BY <1>1, <1>2, <2>1, AfterIs
    <2> QED BY <1>1, <1>2, <2>1, <2>2 DEF Undisturbed
  <1> QED BY <1>3, <1>4, <1>5, <1>6 DEF AtaNext

LEMMA DiskStep == IInv /\ Disk => IInv'
PROOF
  <1> SUFFICES ASSUME IInv, Disk PROVE IInv'
    OBVIOUS
  <1>1. AtaNext /\ UNCHANGED fs /\ UNCHANGED pc
    BY DEF Disk, fs
  <1>2. Stages' /\ WalkInv' /\ ReadInv' /\ ReadRight' /\ Place' = Place /\ Asked' = Asked
    BY <1>1, FsSame DEF IInv
  <1>3. AtaInv' /\ AtaTypeOK'
    BY <1>1, AtaNextKeeps DEF IInv, AtaInv
  <1>4. CallInv'
    <2>1. CASE pc \in Calling
      <3>1. want = Place /\ Progress(Asked)
        BY <2>1 DEF CallInv, IInv
      <3>2. PICK n : n = Asked
        OBVIOUS
      <3>3. want' = want /\ Progress(n)'
        BY <1>1, <3>1, <3>2, DiskProgress DEF IInv
      <3> QED BY <1>1, <1>2, <2>1, <3>1, <3>2, <3>3 DEF CallInv
    <2>2. CASE pc \notin Calling
      BY <1>1, <2>2, DiskIdle DEF CallInv, IInv
    <2> QED BY <2>1, <2>2
  <1>5. TypeOK'
    BY <1>1, <1>3 DEF TypeOK, IInv, fs, walk, fat
  <1>6. Undisturbed'
    BY <1>1, DiskUndisturbed DEF IInv
  <1> QED BY <1>2, <1>3, <1>4, <1>5, <1>6 DEF IInv

LEMMA StillStep == IInv /\ UNCHANGED vars => IInv'
PROOF
  <1> SUFFICES ASSUME IInv, UNCHANGED vars PROVE IInv'
    OBVIOUS
  <1>1. UNCHANGED fs /\ UNCHANGED ata /\ UNCHANGED pc
    BY DEF vars, fs
  <1>2. Stages' /\ WalkInv' /\ ReadInv' /\ ReadRight' /\ Place' = Place /\ Asked' = Asked
    BY <1>1, FsSame DEF IInv
  <1>3. AtaInv' /\ AtaTypeOK'
    BY <1>1, AtaSame DEF IInv, AtaInv
  <1>4. CallInv'
    BY <1>1, <1>2 DEF CallInv, IInv, Progress, ata
  <1>5. TypeOK'
    BY <1>1, <1>3 DEF TypeOK, IInv, fs, walk, fat
  <1>6. Undisturbed'
    BY <1>1 DEF Undisturbed, IInv, ata
  <1> QED BY <1>2, <1>3, <1>4, <1>5, <1>6 DEF IInv

-----------------------------------------------------------------------------
(***************************************************************************)
(* fs_init                                                                 *)
(***************************************************************************)
LEMMA InitIInv == Init => IInv
PROOF
  <1> SUFFICES ASSUME Init PROVE IInv
    OBVIOUS
  <1>1. AtaInv /\ AtaTypeOK
    BY InitAtaInv DEF Init, AtaInv
  <1>2. 0 % SECT_SIZE = 0 /\ Len(<< >>) = 0 /\ << >> \in Seq(Nat \X Nat)
    BY Sizes, DivLess
  <1>3. TypeOK
    BY <1>1, <1>2 DEF Init, TypeOK
  <1>4. CallInv /\ Undisturbed
    BY DEF Init, AtaInit, CallInv, Calling, Undisturbed
  <1>5. Stages /\ WalkInv /\ ReadInv /\ ReadRight
    BY <1>2 DEF Init, Stages, WalkInv, ReadInv, ReadRight, Walking
  <1> QED BY <1>1, <1>3, <1>4, <1>5 DEF IInv

LEMMA OneSector == 1 \in 1 .. COUNTS - 1
BY AtaAssumption

(* The steps of fs_init: there is no request yet.                            *)
LEMMA InitSteps ==
  ASSUME IInv, InitStep, pc \in {"off", "mbr", "volume"}, AtaInv', AtaTypeOK',
         pc' \in {"mbr", "volume", "idle", "panic"}, CallInv', Undisturbed',
         pc' = "volume" => part' \in Nat, pc' = "idle" => Mounted'
  PROVE  IInv'
PROOF
  <1>1. /\ UNCHANGED <<table, request, result, names, entry, index, cur, off, need, data, out>>
        /\ UNCHANGED <<file, fatbuf, dirbuf, mishap>>
    BY DEF InitStep, walk
  <1>2. request = NULL
    BY DEF IInv, Stages
  <1>3. TypeOK'
    BY <1>1 DEF IInv, TypeOK
  <1>4. Stages'
    BY <1>1, <1>2 DEF IInv, Stages, Walking
  <1>5. WalkInv' /\ ReadInv' /\ ReadRight'
    BY <1>1, <1>2 DEF WalkInv, ReadInv, ReadRight, Walking
  <1> QED BY <1>3, <1>4, <1>5 DEF IInv

LEMMA FsInitStep == IInv /\ FsInit => IInv'
PROOF
  <1> SUFFICES ASSUME IInv, FsInit PROVE IInv'
    OBVIOUS
  <1>1. pc = "off" /\ pc' = "mbr" /\ AtaCall(0, 1) /\ InitStep
    BY DEF FsInit
  <1>2. AtaInv' /\ AtaTypeOK'
    BY <1>1, CallKeeps DEF IInv, AtaInv
  <1>3. want' = 0 /\ Progress(1)' /\ driver' = "select"
    BY <1>1, OneSector, CallProgress
  <1>4. CallInv'
    BY <1>1, <1>3 DEF CallInv, Calling, Place, Asked
  <1>5. Undisturbed'
    BY <1>1, <1>3 DEF AtaCall, Undisturbed, Progress, IInv, CallInv, Calling
  <1> QED BY <1>1, <1>2, <1>4, <1>5, InitSteps

LEMMA MbrReadStep == IInv /\ MbrRead => IInv'
PROOF
  <1> SUFFICES ASSUME IInv, MbrRead PROVE IInv'
    OBVIOUS
  <1> DEFINE entries == IF Buffer(NULL) = 0 THEN table ELSE [i \in 1 .. 4 |-> Inactive]
  <1>1. /\ pc = "mbr" /\ driver = "idle" /\ InitStep
        /\ \/ /\ part' \in Bootable(entries)
              /\ pc' = "volume" /\ AtaCall(part', 1)
           \/ pc' = "panic" /\ UNCHANGED ata
    BY DEF MbrRead
  <1>2. CASE part' \in Bootable(entries) /\ pc' = "volume" /\ AtaCall(part', 1)
    <2>1. \A i \in 1 .. 4 : entries[i].active => ret = "ok" /\ entries[i].start_lba \in Nat
      <3>1. CASE Buffer(NULL) = 0
        <4>1. ret = "ok"
          BY <3>1, DiskAssumption DEF Buffer
        <4>2. table \in [1 .. 4 -> [active : BOOLEAN, start_lba : Nat]] /\ entries = table
          BY <3>1, DiskAssumption DEF IInv, Stages
        <4> QED BY <4>1, <4>2
      <3>2. CASE Buffer(NULL) # 0
        BY <3>2 DEF Inactive
      <3> QED BY <3>1, <3>2
    <2>2. part' \in Nat /\ ret = "ok"
      BY <1>2, <2>1 DEF Bootable
    <2>3. AtaInv' /\ AtaTypeOK'
      BY <1>2, <2>2, CallKeeps DEF IInv, AtaInv
    <2>4. want' = part' /\ Progress(1)' /\ driver' = "select"
      BY <1>2, OneSector, CallProgress
    <2>5. CallInv'
      BY <1>2, <2>4 DEF CallInv, Calling, Place, Asked
    <2>6. Undisturbed'
      BY <1>1, <1>2, <2>2, <2>4 DEF AtaCall, Undisturbed, Progress, IInv
    <2> QED BY <1>1, <1>2, <2>2, <2>3, <2>5, <2>6, InitSteps
  <1>3. CASE pc' = "panic" /\ UNCHANGED ata
    <2>1. AtaInv' /\ AtaTypeOK'
      BY <1>3, AtaSame DEF IInv, AtaInv
    <2>2. CallInv' /\ Undisturbed'
      BY <1>1, <1>3 DEF CallInv, Calling, Undisturbed, ata
    <2> QED BY <1>1, <1>3, <2>1, <2>2, InitSteps
  <1> QED BY <1>1, <1>2, <1>3

(* Only the sector that was asked for can hold the parameters of a volume:   *)
(* sector 0, which a failed read leaves in the buffer, is none.              *)
LEMMA VolumeReadStep == IInv /\ VolumeRead => IInv'
PROOF
  <1> SUFFICES ASSUME IInv, VolumeRead PROVE IInv'
    OBVIOUS
  <1> DEFINE buf == Buffer(0)
  <1>1. /\ pc = "volume" /\ driver = "idle" /\ InitStep /\ UNCHANGED ata /\ part' = part
        /\ IF buf \in DOMAIN Volumes /\ Volumes[buf].fat16
           THEN pc' = "idle" /\ bpb' = Volumes[buf].bpb
           ELSE pc' = "panic"
    BY DEF VolumeRead
  <1>2. AtaInv' /\ AtaTypeOK'
    BY <1>1, AtaSame DEF IInv, AtaInv
  <1>3. CallInv' /\ Undisturbed'
    BY <1>1 DEF CallInv, Calling, Undisturbed, ata
  <1>4. ASSUME pc' = "idle" PROVE Mounted'
    <2>1. buf \in DOMAIN Volumes /\ Volumes[buf].fat16 /\ bpb' = Volumes[buf].bpb
      BY <1>1, <1>4
    <2>2. buf # 0
      BY <2>1, DiskAssumption
    <2>3. ret = "ok" /\ buf = got[1]
      BY <2>2 DEF Buffer
    <2>4. want = part /\ Len(got) = 1 /\ ~late
      BY <1>1, <2>3 DEF IInv, CallInv, Calling, Place, Asked, Progress, Undisturbed
    <2>5. got \in Seq(Nat) /\ part \in Nat
      BY <1>1 DEF IInv, AtaInv, AtaTypeOK, Stages
    <2>6. 1 \in DOMAIN got
      BY <2>4, <2>5
    <2>7. got[1] = want + 1 - 1
      BY <2>4, <2>6 DEF IInv, AtaInv, RightSectors
    <2>8. got[1] = part
      BY <2>4, <2>5, <2>7
    <2> QED BY <1>1, <2>1, <2>3, <2>8 DEF Mounted
  <1> QED BY <1>1, <1>2, <1>3, <1>4, InitSteps

-----------------------------------------------------------------------------
(***************************************************************************)
(* The ends of a call: it returns, or stops the kernel                     *)
(***************************************************************************)
Calls ==
  /\ request \in Reads \/ request.op = "open"
  /\ file \in Listed \cup {NULL} /\ (file = NULL => request.op = "open")
  /\ out \in Seq(Nat \X Nat)
  /\ fatbuf \in Nat \cup {NULL} /\ dirbuf \in Nat \cup {NULL}
  /\ mishap \subseteq {"failed", "ignored", "late"}

LEMMA Returns ==
  ASSUME IInv, Mounted, UNCHANGED fat, UNCHANGED ata, driver = "idle",
         NEW r \in Int, Finish(r), Calls', ReadRight'
  PROVE  IInv'
PROOF
  <1>1. /\ UNCHANGED <<table, part, bpb>> /\ pc' = "idle" /\ result' = r /\ entry' = NULL
        /\ index' = 0 /\ cur' = 0 /\ off' = 0 /\ need' = 0 /\ data' = << >>
    BY DEF fat, Finish
  <1>2. AtaInv' /\ AtaTypeOK' /\ driver' = "idle"
    BY AtaSame DEF IInv, AtaInv, ata
  <1>3. 0 % SECT_SIZE = 0 /\ Len(<< >>) = 0 /\ << >> \in Seq(Nat \X Nat)
    BY Sizes, DivLess
  <1>4. TypeOK'
    BY <1>1, <1>2, <1>3 DEF TypeOK, Calls
  <1>5. CallInv' /\ Undisturbed'
    BY <1>1, <1>2 DEF CallInv, Calling, Undisturbed
  <1>6. Mounted'
    BY <1>1, GeometrySame
  <1>7. Stages'
    BY <1>1, <1>3, <1>6 DEF Stages, Walking, Calls, IInv
  <1>8. WalkInv' /\ ReadInv'
    BY <1>1 DEF WalkInv, ReadInv, Walking
  <1> QED BY <1>2, <1>4, <1>5, <1>7, <1>8 DEF IInv

LEMMA Panics ==
  ASSUME IInv, UNCHANGED fat, UNCHANGED ata, driver = "idle", Panic, Calls', ReadRight'
  PROVE  IInv'
PROOF
  <1>1. /\ UNCHANGED <<table, part, bpb>> /\ pc' = "panic"
        /\ UNCHANGED <<result, entry, index, cur, off, need, data>>
    BY DEF fat, Panic
  <1>2. AtaInv' /\ AtaTypeOK' /\ driver' = "idle"
    BY AtaSame DEF IInv, AtaInv, ata
  <1>3. TypeOK'
    BY <1>1, <1>2 DEF TypeOK, Calls, IInv
  <1>4. CallInv' /\ Undisturbed'
    BY <1>1, <1>2 DEF CallInv, Calling, Undisturbed
  <1>5. Stages'
    BY <1>1 DEF Stages, Walking, Calls, IInv
  <1>6. WalkInv' /\ ReadInv'
    BY <1>1 DEF WalkInv, ReadInv, Walking
  <1> QED BY <1>2, <1>3, <1>4, <1>5, <1>6 DEF IInv

(* What a step of a call starts from                                         *)
LEMMA CallIs ==
  ASSUME IInv, pc \in Walking \cup {"root"}
  PROVE  /\ Calls /\ Mounted /\ TypeOK
         /\ pc \in {"root", "dir"} => request.op = "open"
         /\ pc = "data" => request.op = "read"
         /\ request.op = "read" => request \in Reads /\ file \in Listed
PROOF
  <1>1. Mounted /\ TypeOK /\ (request \in Reads \/ request.op = "open")
    BY DEF IInv, Stages
  <1>2. request \in Reads => request.op = "read" /\ request # NULL
    BY CallAssumption, DiskAssumption
  <1>3. Calls
    BY <1>1, <1>2 DEF Calls, IInv, Stages, TypeOK
  <1> QED BY <1>1, <1>2, <1>3 DEF IInv, Stages, Calls, Walking

(* The buffer after a read of one sector, and what a call that is still      *)
(* trusted knows of it                                                       *)
LEMMA BufferIs ==
  ASSUME IInv, pc \in {"root", "dir", "follow"}, driver = "idle",
         NEW buf \in Nat \cup {NULL}
  PROVE  /\ Buffer(buf) \in Nat \cup {NULL}
         /\ Note({"ignored"}) =>
              /\ mishap' \subseteq {"failed", "ignored", "late"}
              /\ Trusted' => Trusted /\ Buffer(buf) = Place
PROOF
  <1>1. want = Place /\ (ret = "ok" => Len(got) = 1) /\ got \in Seq(Nat) /\ want \in Nat
    BY DEF IInv, CallInv, Calling, Asked, Progress, AtaInv, AtaTypeOK
  <1>2. ASSUME ret = "ok"
        PROVE  Buffer(buf) \in Nat /\ (~late => Buffer(buf) = Place)
    <2>1. 1 \in DOMAIN got /\ got[1] \in Nat
      BY <1>1, <1>2
    <2>2. ~late => got[1] = want + 1 - 1
      BY <2>1 DEF IInv, AtaInv, RightSectors
    <2> QED BY <1>1, <1>2, <2>1, <2>2 DEF Buffer
  <1>3. Buffer(buf) \in Nat \cup {NULL}
    BY <1>2 DEF Buffer
  <1>4. ASSUME Note({"ignored"})
        PROVE  /\ mishap' \subseteq {"failed", "ignored", "late"}
               /\ Trusted' => Trusted /\ Buffer(buf) = Place
    <2>1. mishap \subseteq {"failed", "ignored", "late"} /\ ret \in {"ok", "failed"}
      BY DEF IInv, TypeOK, AtaTypeOK
    <2>2. mishap' = mishap \cup (IF ret = "failed" THEN {"failed"} \cup {"ignored"} ELSE {})
                           \cup (IF late THEN {"late"} ELSE {})
      BY <1>4 DEF Note
    <2>3. ASSUME Trusted'
          PROVE  Trusted /\ ret = "ok" /\ ~late
      BY <2>1, <2>2, <2>3 DEF Trusted
    <2>4. mishap' \subseteq {"failed", "ignored", "late"}
      BY <2>1, <2>2
    <2> QED BY <1>2, <2>3, <2>4
  <1> QED BY <1>3, <1>4

-----------------------------------------------------------------------------
(***************************************************************************)
(* Chains as far as they are known to be in use                            *)
(***************************************************************************)
LEMMA NthReached ==
  ASSUME Mounted, NEW e \in Listed, NEW t \in Nat, Covered(e, t),
         NEW n \in Nat, n * clus_size <= t, NEW c, c = Nth(e.clus, n)
  PROVE  c \in Nat /\ (c \in InUse \/ c \in {0, 1} \/ c >= RESERVED)
PROOF
  <1>1. PICK z \in Nat : z = clus_size /\ z > 0
    BY Geometry
  <1>2. CASE n = 0
    <2>1. c = e.clus
      BY <1>2, NthIs
    <2> QED BY <2>1, EntryIs, VolumeAssumption
  <1>3. CASE n # 0
    <2>1. PICK m \in Nat : m = n - 1
      BY <1>3
    <2>2. n = m + 1
      BY <2>1
    <2>3. PICK x \in Nat : x = z * m /\ m <= x
      <3>1. z * m \in Nat /\ m <= z * m
        BY <1>1
      <3> QED BY <3>1
    <2>4. n * clus_size = x + z
      BY <1>1, <2>2, <2>3
    <2>5. x < t /\ m * clus_size = x /\ m \in 0 .. t
      BY <1>1, <2>3, <2>4
    <2>6. Nth(e.clus, m) \in InUse
      BY <2>5 DEF Covered
    <2>7. PICK d \in InUse : d = Nth(e.clus, m)
      BY <2>6
    <2>8. c = Fat[d]
      BY <2>2, <2>7, NthIs
    <2>9. Fat[d] \in Nat
      BY <2>7, InUseIs, DiskAssumption DEF Cluster
    <2> QED BY <2>7, <2>8, <2>9, VolumeAssumption
  <1> QED BY <1>2, <1>3

(* Where a call arrives in a chain                                           *)
LEMMA ReachedIs ==
  ASSUME Mounted, NEW e \in Listed, NEW t \in Nat, off \in Nat, Reached(e, t)
  PROVE  \E n \in Nat : /\ n * clus_size \in Nat /\ n * clus_size + off = t
                        /\ n * clus_size <= t /\ n \in 0 .. t /\ cur = Nth(e.clus, n)
PROOF
  <1>1. PICK n \in 0 .. t : n * clus_size + off = t /\ cur = Nth(e.clus, n)
    BY DEF Reached
  <1>2. n * clus_size \in Nat
    BY Geometry
  <1> QED BY <1>1, <1>2

LEMMA StartIs ==
  ASSUME Mounted, NEW e \in Listed
  PROVE  Covered(e, 0) /\ 0 * clus_size = 0 /\ Nth(e.clus, 0) = e.clus
BY Geometry, NthIs DEF Covered

(* Another sector of a directory: it begins before the end of a cluster that *)
(* is in use.                                                                *)
LEMMA CoveredMore ==
  ASSUME Mounted, NEW e \in Listed, NEW t \in Nat, t % SECT_SIZE = 0, Covered(e, t),
         off \in Nat, off < clus_size, Reached(e, t), Legal(cur)
  PROVE  Covered(e, t + SECT_SIZE)
PROOF
  <1>1. PICK z \in Nat : z = clus_size /\ z > 0 /\ z % SECT_SIZE = 0
    BY Geometry
  <1>2. PICK n \in Nat : n * clus_size + off = t /\ n * clus_size <= t /\ cur = Nth(e.clus, n)
    BY ReachedIs
  <1>3. cur \in InUse
    BY <1>2, NthReached, LegalIs
  <1> SUFFICES ASSUME NEW m \in 0 .. t + SECT_SIZE, m * clus_size < t + SECT_SIZE
               PROVE  Nth(e.clus, m) \in InUse
    BY DEF Covered
  <1>4. PICK x \in Nat : x = z * m /\ x = m * clus_size
    BY <1>1, Sizes
  <1>5. PICK y \in Nat : y = z * n /\ y = n * clus_size
    BY <1>1
  <1>6. x <= t
    <2>1. x % SECT_SIZE = 0
      <3>1. PICK p \in Nat : z = SECT_SIZE * p
        BY <1>1, Sizes, MultipleIs
      <3>2. x = SECT_SIZE * (p * m) /\ p * m \in Nat
        BY <1>4, <3>1, Sizes
      <3>3. PICK q \in Nat : q = p * m
        BY <3>2
      <3>4. x = SECT_SIZE * q
        BY <3>2, <3>3
      <3> QED BY <3>4, Sizes, MultipleOf
    <2>2. t < x => t + SECT_SIZE <= x
      BY <2>1, Sizes, Multiples
    <2> QED BY <1>4, <2>2, Sizes
  <1>7. m <= x /\ m \in Nat
    <2>1. m \in Nat /\ m <= z * m
      BY <1>1, Sizes
    <2> QED BY <1>4, <2>1
  <1>8. CASE x < t
    <2>1. m \in 0 .. t /\ m * clus_size < t
      BY <1>4, <1>7, <1>8
    <2> QED BY <2>1 DEF Covered
  <1>9. CASE x = t
    <2>1. z * n <= z * m /\ z * m < z * n + z
      BY <1>1, <1>2, <1>4, <1>5, <1>9
    <2>2. ~(n < m) /\ ~(m < n)
      <3>1. n < m => z * n + z <= z * m
        BY <1>1, <1>7, MultiplesOrder
      <3>2. m < n => z * m + z <= z * n
        BY <1>1, <1>7, MultiplesOrder
      <3>3. z * n \in Nat /\ z * m \in Nat
        BY <1>4, <1>5
      <3> QED BY <1>1, <2>1, <3>1, <3>2, <3>3
    <2>3. n = m
      BY <1>7, <2>2
    <2> QED BY <1>2, <1>3, <2>3
  <1> QED BY <1>4, <1>6, <1>8, <1>9

-----------------------------------------------------------------------------
(***************************************************************************)
(* file_open                                                               *)
(***************************************************************************)
LEMMA MatchesIs ==
  ASSUME NEW buf, NEW name, NEW e \in Matches(buf, name)
  PROVE  e \in Listed
PROOF
  <1>1. PICK k \in DOMAIN Entries(buf) : e = Entries(buf)[k]
    BY DEF Matches
  <1>2. buf \in DOMAIN Directory /\ Entries(buf) = Directory[buf]
    <2>1. buf \notin DOMAIN Directory => Entries(buf) = << >>
      BY DEF Entries
    <2>2. DOMAIN << >> = {}
      OBVIOUS
    <2> QED BY <1>1, <2>1, <2>2 DEF Entries
  <1> QED BY <1>1, <1>2 DEF Listed

(* The walk to the offset o of a directory, or of the one that is found      *)
LEMMA DirectoryWalk ==
  ASSUME IInv, Mounted, UNCHANGED fat, UNCHANGED ata, driver = "idle", UNCHANGED <<need, data>>,
         NEW e \in Listed, NEW o \in Nat, o % SECT_SIZE = 0, Walk(e, o), index' = o,
         Calls', result' \in Int, request'.op = "open", ReadRight', Trusted' => Covered(e, o)
  PROVE  IInv'
PROOF
  <1>1. /\ UNCHANGED <<table, part, bpb, need, data>> /\ pc' = "walk" /\ entry' = e
        /\ cur' = e.clus /\ off' = o
    BY DEF fat, Walk
  <1>2. AtaInv' /\ AtaTypeOK' /\ driver' = "idle"
    BY AtaSame DEF IInv, AtaInv, ata
  <1>3. TypeOK'
    BY <1>1, <1>2, EntryIs DEF TypeOK, Calls, IInv
  <1>4. CallInv' /\ Undisturbed'
    BY <1>1, <1>2 DEF CallInv, Calling, Undisturbed
  <1>5. Mounted' /\ clus_size' = clus_size /\ (Covered(e, o)' <=> Covered(e, o))
    BY <1>1, GeometrySame
  <1>6. Stages'
    BY <1>1, <1>5 DEF Stages, Walking, Calls, IInv
  <1>7. Reached(e, o)'
    <2>1. 0 * clus_size' + off' = o /\ cur' = Nth(e.clus, 0) /\ 0 \in 0 .. o
      BY <1>1, <1>5, StartIs
    <2> QED BY <2>1 DEF Reached
  <1>8. Target' = o
    BY DEF Target
  <1>9. WalkInv'
    BY <1>1, <1>5, <1>7, <1>8 DEF WalkInv, Walking
  <1>10. ReadInv'
    BY DEF ReadInv
  <1> QED BY <1>2, <1>3, <1>4, <1>6, <1>9, <1>10 DEF IInv

LEMMA OpenStep == ASSUME IInv, NEW path \in Paths, Open(path) PROVE IInv'
PROOF
  <1>1. /\ pc = "idle" /\ request'.op = "open" /\ mishap' = {} /\ out' = << >>
        /\ UNCHANGED fat /\ UNCHANGED <<table, part, bpb, file, fatbuf, dirbuf>>
        /\ \/ Panic /\ UNCHANGED ata
           \/ /\ pc' = "root" /\ AtaCall(root_start_lba, 1)
              /\ UNCHANGED <<result, entry, index, cur, off, need, data>>
    BY DEF Open, fat
  <1>2. Mounted /\ driver = "idle" /\ index = 0
    BY <1>1 DEF IInv, Stages, CallInv, Calling
  <1>3. << >> \in Seq(Nat \X Nat)
    OBVIOUS
  <1>4. Calls'
    BY <1>1, <1>3 DEF Calls, IInv, Stages, TypeOK
  <1>5. ReadRight'
    BY <1>1 DEF ReadRight
  <1>6. CASE Panic /\ UNCHANGED ata
    BY <1>1, <1>2, <1>4, <1>5, <1>6, Panics
  <1>7. CASE /\ pc' = "root" /\ AtaCall(root_start_lba, 1)
             /\ UNCHANGED <<result, entry, index, cur, off, need, data>>
    <2>1. root_start_lba \in Nat /\ root_start_lba' = root_start_lba /\ Mounted'
      BY <1>1, <1>2, Geometry, GeometrySame
    <2>2. AtaInv' /\ AtaTypeOK'
      BY <1>7, <2>1, CallKeeps DEF IInv, AtaInv
    <2>3. want' = root_start_lba /\ Progress(1)'
      BY <1>7, OneSector, CallProgress
    <2>4. root_start_lba + 0 = root_start_lba
      BY <2>1
    <2>5. CallInv' /\ Undisturbed'
      BY <1>2, <1>7, <2>1, <2>3, <2>4 DEF CallInv, Calling, Place, Asked, Undisturbed
    <2>6. TypeOK'
      BY <1>7, <1>4, <2>2 DEF TypeOK, Calls, IInv
    <2>7. Stages'
      BY <1>1, <1>4, <1>7, <2>1 DEF Stages, Walking, Calls, IInv
    <2>8. WalkInv' /\ ReadInv'
      BY <1>7 DEF WalkInv, ReadInv, Walking
    <2> QED BY <1>5, <2>2, <2>5, <2>6, <2>7, <2>8 DEF IInv
  <1> QED BY <1>1, <1>6, <1>7

-----------------------------------------------------------------------------
LEMMA DescendStep ==
  ASSUME IInv, pc \in {"root", "dir"}, driver = "idle", UNCHANGED fat, UNCHANGED ata,
         UNCHANGED <<request, out, fatbuf>>, dirbuf' \in Nat \cup {NULL},
         mishap' \subseteq {"failed", "ignored", "late"}, NEW e \in Listed, Descend(e)
  PROVE  IInv'
PROOF
  <1>1. Calls /\ Mounted /\ TypeOK /\ request.op = "open"
    BY CallIs DEF Walking
  <1>2. request' = request /\ request'.op = "open" /\ out' = out /\ fatbuf' = fatbuf
    BY <1>1
  <1>3. ReadRight'
    BY <1>2 DEF ReadRight
  <1>4. file' \in {file, e} => Calls'
    BY <1>1, <1>2, EntryIs DEF Calls
  <1>5. CASE file' = e /\ Finish(0)
    BY <1>1, <1>3, <1>4, <1>5, Returns
  <1>6. CASE Panic /\ UNCHANGED file
    BY <1>1, <1>3, <1>4, <1>6, Panics
  <1>7. CASE Finish(-1) /\ UNCHANGED file
    BY <1>1, <1>3, <1>4, <1>7, Returns
  <1>8. CASE /\ index' = 0 /\ Walk(e, 0) /\ UNCHANGED <<result, need, data, file>>
    <2>1. 0 % SECT_SIZE = 0 /\ Covered(e, 0) /\ result' \in Int /\ Calls'
      BY <1>1, <1>4, <1>8, StartIs, Sizes, DivLess DEF TypeOK
    <2>2. UNCHANGED <<need, data>>
      BY <1>8
    <2> QED BY <1>1, <1>2, <1>3, <1>8, <2>1, <2>2, DirectoryWalk
  <1> QED BY <1>5, <1>6, <1>7, <1>8 DEF Descend

LEMMA RootReadStep == IInv /\ RootRead => IInv'
PROOF
  <1> SUFFICES ASSUME IInv, RootRead PROVE IInv'
    OBVIOUS
  <1>1. /\ pc = "root" /\ driver = "idle" /\ dirbuf' = Buffer(dirbuf) /\ Note({"ignored"})
        /\ UNCHANGED fat /\ UNCHANGED <<table, part, bpb, request, out, fatbuf>>
        /\ \/ (\E e \in Matches(dirbuf', Head(names)) : Descend(e)) /\ UNCHANGED ata
           \/ /\ index' = index + 1 /\ AtaCall(root_start_lba + index + 1, 1)
              /\ UNCHANGED <<pc, result, entry, cur, off, need, data, file>>
           \/ Finish(-1) /\ UNCHANGED ata /\ UNCHANGED file
    BY DEF RootRead, fat
  <1>2. Calls /\ Mounted /\ TypeOK /\ request.op = "open"
    BY <1>1, CallIs DEF Walking
  <1>3. dirbuf' \in Nat \cup {NULL} /\ mishap' \subseteq {"failed", "ignored", "late"}
    BY <1>1, <1>2, BufferIs DEF Calls
  <1>4. ReadRight'
    BY <1>1, <1>2 DEF ReadRight
  <1>5. file' = file => Calls'
    BY <1>1, <1>2, <1>3 DEF Calls
  <1>6. CASE (\E e \in Matches(dirbuf', Head(names)) : Descend(e)) /\ UNCHANGED ata
    <2>1. PICK e \in Matches(dirbuf', Head(names)) : Descend(e)
      BY <1>6
    <2>2. e \in Listed
      BY MatchesIs
    <2> QED BY <1>1, <1>3, <1>6, <2>1, <2>2, DescendStep
  <1>7. CASE Finish(-1) /\ UNCHANGED ata /\ UNCHANGED file
    BY <1>1, <1>2, <1>4, <1>5, <1>7, Returns
  <1>8. CASE /\ index' = index + 1 /\ AtaCall(root_start_lba + index + 1, 1)
             /\ UNCHANGED <<pc, result, entry, cur, off, need, data, file>>
    <2>1. /\ root_start_lba \in Nat /\ root_start_lba' = root_start_lba /\ Mounted'
          /\ index \in Nat
      BY <1>1, <1>2, Geometry, GeometrySame DEF TypeOK
    <2>2. PICK i \in Nat : i = index + 1 /\ index' = i
      BY <1>8, <2>1
    <2>3. root_start_lba + index + 1 = root_start_lba + i /\ root_start_lba + i \in Nat
      BY <2>1, <2>2
    <2>4. AtaCall(root_start_lba + i, 1)
      BY <1>8, <2>3
    <2>5. AtaInv' /\ AtaTypeOK'
      BY <2>3, <2>4, CallKeeps DEF IInv, AtaInv
    <2>6. want' = root_start_lba + i /\ Progress(1)'
      BY <2>4, OneSector, CallProgress
    <2>7. CallInv' /\ Undisturbed'
      BY <1>1, <1>8, <2>1, <2>2, <2>6 DEF CallInv, Calling, Place, Asked, Undisturbed
    <2>8. TypeOK'
      BY <1>2, <1>5, <1>8, <2>2, <2>5 DEF TypeOK, Calls
    <2>9. Stages'
      BY <1>1, <1>2, <1>5, <1>8, <2>1 DEF Stages, Walking, Calls, IInv
    <2>10. WalkInv' /\ ReadInv'
      BY <1>1, <1>8 DEF WalkInv, ReadInv, Walking
    <2> QED BY <1>4, <2>5, <2>7, <2>8, <2>9, <2>10 DEF IInv
  <1> QED BY <1>1, <1>6, <1>7, <1>8

LEMMA DirReadStep == IInv /\ DirRead => IInv'
PROOF
  <1> SUFFICES ASSUME IInv, DirRead PROVE IInv'
    OBVIOUS
  <1>1. /\ pc = "dir" /\ driver = "idle" /\ dirbuf' = Buffer(dirbuf) /\ Note({"ignored"})
        /\ UNCHANGED fat /\ UNCHANGED ata /\ UNCHANGED <<request, out, fatbuf>>
        /\ \/ \E e \in Matches(dirbuf', Head(names)) : Descend(e)
           \/ /\ index' = index + SECT_SIZE /\ Walk(entry, index + SECT_SIZE)
              /\ UNCHANGED <<result, need, data, file>>
    BY DEF DirRead
  <1>2. Calls /\ Mounted /\ TypeOK /\ request.op = "open"
    BY <1>1, CallIs DEF Walking
  <1>3. /\ dirbuf' \in Nat \cup {NULL} /\ mishap' \subseteq {"failed", "ignored", "late"}
        /\ Trusted' => Trusted
    BY <1>1, <1>2, BufferIs DEF Calls
  <1>4. CASE \E e \in Matches(dirbuf', Head(names)) : Descend(e)
    <2>1. PICK e \in Matches(dirbuf', Head(names)) : Descend(e)
      BY <1>4
    <2>2. e \in Listed
      BY MatchesIs
    <2> QED BY <1>1, <1>3, <2>1, <2>2, DescendStep
  <1>5. CASE /\ index' = index + SECT_SIZE /\ Walk(entry, index + SECT_SIZE)
             /\ UNCHANGED <<result, need, data, file>>
    <2>1. ReadRight'
      BY <1>1, <1>2 DEF ReadRight
    <2>2. Calls'
      BY <1>1, <1>2, <1>3, <1>5 DEF Calls
    <2>3. /\ entry \in Listed /\ index \in Nat /\ index % SECT_SIZE = 0 /\ off < clus_size
          /\ Legal(cur) /\ off \in Nat
          /\ Trusted => Covered(entry, index) /\ Reached(entry, index)
      BY <1>1, <1>2 DEF IInv, WalkInv, Walking, Target, TypeOK
    <2>4. Trusted' => Covered(entry, index + SECT_SIZE)
      BY <1>2, <1>3, <2>3, CoveredMore
    <2>5. index + SECT_SIZE \in Nat /\ (index + SECT_SIZE) % SECT_SIZE = 0
      <3>1. SECT_SIZE % SECT_SIZE = 0
        <4>1. SECT_SIZE = SECT_SIZE * 1
          BY Sizes
        <4> QED BY <4>1, Sizes, MultipleOf
      <3>2. PICK i \in Nat : i = index /\ i % SECT_SIZE = 0
        BY <2>3
      <3>3. (i + SECT_SIZE) % SECT_SIZE = 0
        BY <3>1, <3>2, Sizes, Sum, Zenon
      <3> QED BY <3>2, <3>3, Sizes
    <2>6. result' \in Int /\ UNCHANGED <<need, data>> /\ request'.op = "open"
      BY <1>1, <1>2, <1>5 DEF TypeOK
    <2> QED BY <1>1, <1>2, <1>5, <2>1, <2>2, <2>3, <2>4, <2>5, <2>6, DirectoryWalk
  <1> QED BY <1>1, <1>4, <1>5

-----------------------------------------------------------------------------
(***************************************************************************)
(* The walk along a chain                                                  *)
(***************************************************************************)
LEMMA WalkIs ==
  ASSUME IInv, pc \in Walking
  PROVE  /\ entry \in Listed /\ off \in Nat /\ off % SECT_SIZE = 0 /\ cur \in Nat
         /\ Target \in Nat /\ Target % SECT_SIZE = 0
         /\ pc = "follow" => off >= clus_size
         /\ pc \in {"dir", "data"} => off < clus_size /\ Legal(cur)
         /\ Trusted => Covered(entry, Target) /\ Reached(entry, Target)
BY DEF IInv, WalkInv, TypeOK

LEMMA PathIs ==
  ASSUME IInv, pc \in Walking, request.op = "read"
  PROVE  /\ request \in Reads /\ file \in Listed /\ entry = file /\ request.offset < file.size
         /\ Len(out) \in Nat /\ Unread(request, Len(out))
         /\ Len(data) \in Nat /\ Len(data) % SECT_SIZE = 0 /\ data \in Seq(Nat \X Nat)
         /\ need \in Nat /\ need > 0 /\ need % SECT_SIZE = 0
         /\ Len(data) + need = Span(request, Len(out))
         /\ out \in Seq(Nat \X Nat)
         /\ Target = Begin + Len(data) /\ Target \in Nat
         /\ Trusted => \A k \in DOMAIN data : data[k] = ByteOf(file, Begin + k - 1)
PROOF
  <1>1. request \in Reads /\ file \in Listed
    BY CallIs
  <1>2. data \in Seq(Nat \X Nat) /\ out \in Seq(Nat \X Nat)
    BY DEF IInv, Stages
  <1>3. Len(data) \in Nat /\ Len(out) \in Nat
    BY <1>2
  <1>4. need \in Nat /\ need % SECT_SIZE = 0 /\ Len(data) % SECT_SIZE = 0
    BY DEF IInv, TypeOK
  <1>5. Target = Begin + Len(data) /\ Target \in Nat
    BY WalkIs DEF Target
  <1> QED BY <1>1, <1>2, <1>3, <1>4, <1>5 DEF IInv, ReadInv

(* Every place that a read goes to lies before the end of the file.          *)
LEMMA TargetInside ==
  ASSUME IInv, pc \in Walking, request.op = "read"
  PROVE  Target < file.size
PROOF
  <1>1. PICK b \in Nat : b = Len(out)
    BY PathIs
  <1>2. PICK g : g = Begin
    OBVIOUS
  <1>3. /\ request \in Reads /\ file \in Listed /\ request.offset < file.size
        /\ Unread(request, b) /\ g = request.offset + b - Skip(request, b)
    BY <1>1, <1>2, PathIs DEF Begin
  <1>4. /\ \A t \in Nat : t % SECT_SIZE = 0 /\ t < g + Span(request, b) => t < file.size
        /\ g \in Nat /\ Span(request, b) \in Nat
    BY <1>3, PartIs
  <1>5. Target \in Nat /\ Target % SECT_SIZE = 0 /\ Target < g + Span(request, b)
    BY <1>1, <1>2, <1>4, PathIs, WalkIs
  <1> QED BY <1>4, <1>5

(* A cluster that a call goes to is in use, or its number says that it is    *)
(* none; in the chain of a file that is read it is in use.                   *)
LEMMA CurIs ==
  ASSUME IInv, pc \in Walking, Trusted
  PROVE  /\ cur \in InUse \/ cur \in {0, 1} \/ cur >= RESERVED
         /\ off >= clus_size => cur \in InUse
         /\ request.op = "read" => cur \in InUse
PROOF
  <1>1. Mounted
    BY CallIs
  <1>2. /\ entry \in Listed /\ Target \in Nat /\ Covered(entry, Target)
        /\ Reached(entry, Target) /\ off \in Nat
    BY WalkIs
  <1>3. PICK n \in Nat : /\ n * clus_size \in Nat /\ n * clus_size + off = Target
                         /\ n * clus_size <= Target /\ n \in 0 .. Target
                         /\ cur = Nth(entry.clus, n)
    BY <1>1, <1>2, ReachedIs
  <1>4. cur \in InUse \/ cur \in {0, 1} \/ cur >= RESERVED
    BY <1>1, <1>2, <1>3, NthReached
  <1>5. ASSUME off >= clus_size PROVE cur \in InUse
    <2>1. clus_size \in Nat /\ clus_size > 0
      BY <1>1, Geometry
    <2>2. n * clus_size < Target
      BY <1>2, <1>3, <1>5, <2>1
    <2> QED BY <1>2, <1>3, <2>2 DEF Covered
  <1>6. ASSUME request.op = "read" PROVE cur \in InUse
    <2>1. Target < file.size /\ entry = file /\ file \in Listed /\ file.size \in Nat
      BY <1>6, TargetInside, PathIs, EntryIs
    <2>2. n * clus_size < file.size /\ n \in 0 .. file.size
      BY <1>2, <1>3, <2>1
    <2>3. n * (bpb.sec_per_clus * SECT_SIZE) < file.size
      BY <2>2 DEF clus_size
    <2>4. Nth(file.clus, n) \in InUse
      BY <1>1, <2>1, <2>2, <2>3, VolumeAssumption DEF Mounted
    <2> QED BY <1>3, <2>1, <2>4
  <1> QED BY <1>4, <1>5, <1>6

LEMMA WalkSame ==
  ASSUME UNCHANGED <<fat, request, walk, file, mishap>>, Mounted
  PROVE  /\ UNCHANGED <<table, part, bpb, request, names, entry, index, cur, off, need, data, out>>
         /\ UNCHANGED <<file, mishap>>
         /\ Mounted' /\ clus_size' = clus_size /\ data_start_lba' = data_start_lba
         /\ fat_start_lba' = fat_start_lba /\ Portion' = Portion
         /\ Target' = Target /\ (Trusted' <=> Trusted)
         /\ \A c : clus2lba(c)' = clus2lba(c)
         /\ \A e, t : Covered(e, t)' <=> Covered(e, t)
         /\ \A e, t : Reached(e, t)' <=> Reached(e, t)
         /\ ReadRight /\ (pc' = "idle" => pc = "idle") /\ result' = result => ReadRight'
         /\ ReadInv /\ pc \in Walking => ReadInv'
PROOF
  <1>1. /\ UNCHANGED <<table, part, bpb, request, names, entry, index, cur, off, need, data, out>>
        /\ UNCHANGED <<file, mishap>>
    BY DEF fat, walk
  <1>2. /\ clus_size' = clus_size /\ data_start_lba' = data_start_lba /\ Mounted'
        /\ fat_start_lba' = fat_start_lba
        /\ \A c : clus2lba(c)' = clus2lba(c)
        /\ \A e, t : Covered(e, t)' <=> Covered(e, t)
        /\ \A e, k : ByteOf(e, k)' = ByteOf(e, k)
    BY <1>1, GeometrySame
  <1>3. \A e, t : Reached(e, t)' <=> Reached(e, t)
    BY <1>1, <1>2 DEF Reached
  <1>4. Portion' = Portion /\ Begin' = Begin /\ Target' = Target /\ (Trusted' <=> Trusted)
    BY <1>1, <1>2 DEF Portion, Begin, Target, Trusted, Skip
  <1>5. ReadRight /\ (pc' = "idle" => pc = "idle") /\ result' = result => ReadRight'
    BY <1>1, <1>2, <1>4 DEF ReadRight
  <1>6. ReadInv /\ pc \in Walking => ReadInv'
    BY <1>1, <1>2, <1>4 DEF ReadInv, Unread, Size, Span, Whole, Chunk, Skip
  <1> QED BY <1>1, <1>2, <1>3, <1>4, <1>5, <1>6

LEMMA FollowStep == IInv /\ Follow => IInv'
PROOF
  <1> SUFFICES ASSUME IInv, Follow PROVE IInv'
    OBVIOUS
  <1>1. /\ pc = "walk" /\ off >= clus_size /\ pc' = "follow"
        /\ AtaCall(fat_start_lba + (cur * 2) \div SECT_SIZE, 1)
        /\ UNCHANGED <<fat, request, walk, file, mishap>> /\ UNCHANGED <<result, fatbuf, dirbuf>>
    BY DEF Follow
  <1>2. Calls /\ Mounted /\ TypeOK
    BY <1>1, CallIs DEF Walking
  <1>3. /\ UNCHANGED <<table, part, bpb, request, names, entry, index, cur, off, need, data, out>>
        /\ UNCHANGED <<file, mishap>>
        /\ Mounted' /\ clus_size' = clus_size /\ fat_start_lba' = fat_start_lba
        /\ Target' = Target /\ (Trusted' <=> Trusted) /\ ReadRight' /\ ReadInv'
        /\ \A e, t : Covered(e, t)' <=> Covered(e, t)
        /\ \A e, t : Reached(e, t)' <=> Reached(e, t)
    BY <1>1, <1>2, WalkSame DEF IInv, Walking
  <1>4. PICK p \in Nat : p = fat_start_lba + (cur * 2) \div SECT_SIZE
    <2>1. fat_start_lba \in Nat /\ cur * 2 \in Nat
      BY <1>2, Geometry DEF TypeOK
    <2>2. (cur * 2) \div SECT_SIZE \in Nat
      BY <2>1, Sizes, DivMod
    <2> QED BY <2>1, <2>2
  <1>5. AtaInv' /\ AtaTypeOK'
    BY <1>1, <1>4, CallKeeps DEF IInv, AtaInv
  <1>6. want' = p /\ Progress(1)'
    BY <1>1, <1>4, OneSector, CallProgress
  <1>7. CallInv' /\ Undisturbed'
    BY <1>1, <1>3, <1>4, <1>6 DEF CallInv, Calling, Place, Asked, Undisturbed
  <1>8. TypeOK'
    BY <1>1, <1>2, <1>3, <1>5 DEF TypeOK
  <1>9. Stages'
    BY <1>1, <1>3 DEF Stages, Walking, IInv
  <1>10. WalkInv'
    BY <1>1, <1>3 DEF WalkInv, Walking, IInv
  <1> QED BY <1>3, <1>5, <1>7, <1>8, <1>9, <1>10 DEF IInv

LEMMA NextNat ==
  ASSUME NEW buf \in Nat \cup {NULL}, NEW c \in Nat, NEW d \in NextClusters(buf, c)
  PROVE  d \in Nat
BY DiskAssumption DEF NextClusters, Cluster

LEMMA FollowedStep == IInv /\ Followed => IInv'
PROOF
  <1> SUFFICES ASSUME IInv, Followed PROVE IInv'
    OBVIOUS
  <1>1. /\ pc = "follow" /\ driver = "idle" /\ pc' = "walk"
        /\ fatbuf' = Buffer(fatbuf) /\ Note({"ignored"})
        /\ cur' \in NextClusters(fatbuf', cur) /\ off' = off - clus_size
        /\ UNCHANGED fat /\ UNCHANGED ata
        /\ UNCHANGED <<table, part, bpb, request, result, entry, index, need, data, out, file, dirbuf>>
    BY DEF Followed, fat, Skipped
  <1>2. Calls /\ Mounted /\ TypeOK
    BY <1>1, CallIs DEF Walking
  <1>3. /\ fatbuf' \in Nat \cup {NULL} /\ mishap' \subseteq {"failed", "ignored", "late"}
        /\ Trusted' => Trusted /\ fatbuf' = fat_start_lba + (cur * 2) \div SECT_SIZE
    BY <1>1, <1>2, BufferIs DEF Calls, Place
  <1>4. AtaInv' /\ AtaTypeOK' /\ driver' = "idle"
    BY <1>1, AtaSame DEF IInv, AtaInv, ata
  <1>5. /\ entry \in Listed /\ off \in Nat /\ off % SECT_SIZE = 0 /\ cur \in Nat
        /\ Target \in Nat /\ Target % SECT_SIZE = 0 /\ off >= clus_size
        /\ Trusted => Covered(entry, Target) /\ Reached(entry, Target)
    BY <1>1, WalkIs DEF Walking
  <1>6. clus_size \in Nat /\ clus_size > 0 /\ clus_size % SECT_SIZE = 0
    BY <1>2, Geometry
  <1>7. off' \in Nat /\ off' % SECT_SIZE = 0
    <2>1. PICK o \in Nat : o = off /\ o % SECT_SIZE = 0
      BY <1>5
    <2>2. PICK z \in Nat : z = clus_size /\ z % SECT_SIZE = 0 /\ z <= o
      BY <1>5, <1>6, <2>1
    <2>3. (o - z) % SECT_SIZE = 0
      BY <2>1, <2>2, Sizes, Difference, Zenon
    <2>4. o - z \in Nat /\ off' = o - z
      BY <1>1, <2>1, <2>2
    <2> QED BY <2>3, <2>4
  <1>8. cur' \in Nat
    BY <1>1, <1>3, <1>5, NextNat
  <1>9. TypeOK'
    BY <1>1, <1>2, <1>3, <1>4, <1>7, <1>8 DEF TypeOK
  <1>10. CallInv' /\ Undisturbed'
    BY <1>1, <1>4 DEF CallInv, Calling, Undisturbed
  <1>11. /\ Mounted' /\ clus_size' = clus_size
         /\ \A e, t : Covered(e, t)' <=> Covered(e, t)
         /\ \A e, k : ByteOf(e, k)' = ByteOf(e, k)
    BY <1>1, <1>2, GeometrySame
  <1>12. Begin' = Begin /\ Target' = Target
    BY <1>1 DEF Begin, Target, Skip
  <1>13. Stages'
    BY <1>1, <1>11 DEF Stages, Walking, IInv
  <1>14. ASSUME Trusted'
         PROVE  Reached(entry, Target)'
    <2>1. Trusted /\ cur \in InUse
      BY <1>1, <1>3, <1>5, <1>14, CurIs DEF Walking
    <2>2. cur' = Fat[cur]
      BY <1>1, <1>2, <1>3, <1>14, <2>1, NextIs
    <2>3. PICK n \in Nat : /\ n * clus_size \in Nat /\ n * clus_size + off = Target
                           /\ cur = Nth(entry.clus, n)
      BY <1>2, <1>5, <2>1, ReachedIs
    <2>4. PICK m \in Nat : m = n + 1
      OBVIOUS
    <2>5. cur' = Nth(entry.clus, m)
      BY <2>2, <2>3, <2>4, NthIs
    <2>6. PICK z \in Nat : z = clus_size /\ z > 0
      BY <1>6
    <2>7. m * z = n * z + z /\ m <= m * z /\ n * z \in Nat
      BY <2>4, <2>6
    <2>8. PICK x \in Nat : x = n * z
      BY <2>7
    <2>9. PICK o \in Nat : o = off' /\ o = off - z
      BY <1>1, <1>7, <2>6
    <2>10. m * z + o = Target /\ m \in 0 .. Target
      BY <1>5, <2>3, <2>4, <2>6, <2>7, <2>8, <2>9
    <2>11. m * clus_size' + off' = Target' /\ entry' = entry /\ m \in 0 .. Target'
      BY <1>1, <1>11, <1>12, <2>6, <2>9, <2>10
    <2> QED BY <2>5, <2>11 DEF Reached
  <1>15. WalkInv'
    BY <1>1, <1>3, <1>5, <1>7, <1>11, <1>12, <1>14 DEF WalkInv, Walking
  <1>16. ReadInv'
    BY <1>1, <1>3, <1>11, <1>12 DEF IInv, ReadInv, Unread, Walking, Size, Span, Whole, Chunk, Skip
  <1>17. ReadRight'
    BY <1>1, <1>3, <1>11 DEF IInv, ReadRight
  <1> QED BY <1>4, <1>9, <1>10, <1>13, <1>15, <1>16, <1>17 DEF IInv

-----------------------------------------------------------------------------
LEMMA EndOfChainStep == IInv /\ EndOfChain => IInv'
PROOF
  <1> SUFFICES ASSUME IInv, EndOfChain PROVE IInv'
    OBVIOUS
  <1> DEFINE r == IF request.op = "open" THEN -1 ELSE Len(out)
  <1>1. /\ pc = "walk" /\ ~Legal(cur) /\ Finish(r) /\ UNCHANGED fat /\ UNCHANGED ata
        /\ UNCHANGED <<part, bpb, request, out, file, fatbuf, dirbuf, mishap>>
    BY DEF EndOfChain, fat
  <1>2. Calls /\ Mounted /\ driver = "idle"
    BY <1>1, CallIs DEF Walking, IInv, CallInv, Calling
  <1>3. Calls'
    BY <1>1, <1>2 DEF Calls
  <1>4. r \in Int
    <2>1. out \in Seq(Nat \X Nat)
      BY <1>2 DEF Calls
    <2>2. Len(out) \in Int
      BY <2>1
    <2> QED BY <2>2
  <1>5. request.op = "read" => ~Trusted
    <2> SUFFICES ASSUME request.op = "read", Trusted PROVE FALSE
      OBVIOUS
    <2>1. cur \in InUse
      BY <1>1, CurIs DEF Walking
    <2> QED BY <1>1, <2>1, InUseIs
  <1>6. ReadRight'
    BY <1>1, <1>5 DEF ReadRight, Trusted
  <1> HIDE DEF r
  <1> QED BY <1>1, <1>2, <1>3, <1>4, <1>6, Returns

(* The place on the disk of a cluster, and of the sector o bytes from it     *)
LEMMA PlaceIs ==
  ASSUME Mounted, NEW c \in Nat, Legal(c)
  PROVE  /\ clus2lba(c) \in Nat /\ clus2lba(c) >= data_start_lba
         /\ \A i \in 0 .. bpb.sec_per_clus - 1 :
              (clus2lba(c) + i - data_start_lba) % bpb.sec_per_clus = i
PROOF
  <1>1. /\ data_start_lba \in Nat /\ bpb.sec_per_clus \in Nat /\ bpb.sec_per_clus > 0
    BY Geometry
  <1>2. PICK d \in Nat : d = c - 2
    BY DEF Legal
  <1>3. PICK s \in Nat : s = bpb.sec_per_clus
    BY <1>1
  <1>4. PICK x \in Nat : x = s * d
    BY <1>2
  <1>5. clus2lba(c) = data_start_lba + x
    BY <1>2, <1>3, <1>4 DEF clus2lba
  <1>6. ASSUME NEW i \in 0 .. s - 1
        PROVE  (clus2lba(c) + i - data_start_lba) % s = i
    <2>1. clus2lba(c) + i - data_start_lba = x + i
      BY <1>1, <1>3, <1>4, <1>5
    <2>2. PICK a \in Nat : a = x + i
      BY <1>3, <1>4
    <2>3. a = s * d + i /\ s > 0 /\ s \in Nat /\ d \in Nat /\ a \in Nat
      BY <1>1, <1>2, <1>3, <1>4, <2>2
    <2>4. a % s = i
      BY <2>3, DivIs
    <2> QED BY <2>1, <2>2, <2>4
  <1> QED BY <1>1, <1>3, <1>5, <1>6

LEMMA ArriveStep == IInv /\ Arrive => IInv'
PROOF
  <1> SUFFICES ASSUME IInv, Arrive PROVE IInv'
    OBVIOUS
  <1>a. PICK p : p = clus2lba(cur) + off \div SECT_SIZE
    OBVIOUS
  <1>b. PICK n : n = IF request.op = "open" THEN 1 ELSE Portion \div SECT_SIZE
    OBVIOUS
  <1>1. /\ pc = "walk" /\ off < clus_size /\ Legal(cur) /\ AtaCall(p, n)
        /\ pc' = IF request.op = "open" THEN "dir" ELSE "data"
        /\ UNCHANGED <<fat, request, walk, file, mishap>> /\ UNCHANGED <<result, fatbuf, dirbuf>>
    BY <1>a, <1>b DEF Arrive
  <1>2. Calls /\ Mounted /\ TypeOK
    BY <1>1, CallIs DEF Walking
  <1>3. /\ UNCHANGED <<table, part, bpb, request, names, entry, index, cur, off, need, data, out>>
        /\ UNCHANGED <<file, mishap>>
        /\ Mounted' /\ clus_size' = clus_size /\ Portion' = Portion
        /\ Target' = Target /\ (Trusted' <=> Trusted) /\ ReadRight' /\ ReadInv'
        /\ \A c : clus2lba(c)' = clus2lba(c)
        /\ \A e, t : Covered(e, t)' <=> Covered(e, t)
        /\ \A e, t : Reached(e, t)' <=> Reached(e, t)
    BY <1>1, <1>2, WalkSame DEF IInv, Walking
  <1>4. /\ off \in Nat /\ off % SECT_SIZE = 0 /\ cur \in Nat
    BY <1>1, WalkIs DEF Walking
  <1>5. p \in Nat
    <2>1. clus2lba(cur) \in Nat /\ off \div SECT_SIZE \in Nat
      BY <1>1, <1>2, <1>4, PlaceIs, MultipleIs, Sizes
    <2> QED BY <1>a, <2>1
  <1>6. n \in 1 .. COUNTS - 1 /\ (request.op # "open" => request.op = "read")
    <2>1. CASE request.op = "open"
      BY <1>b, <2>1, OneSector
    <2>2. CASE request.op # "open"
      <3>1. request \in Reads
        BY <1>2, <2>2 DEF Calls
      <3>2. request.op = "read"
        BY <3>1, CallAssumption
      <3>3. need \in Nat /\ need > 0 /\ need % SECT_SIZE = 0
        BY <1>1, <3>2, PathIs DEF Walking
      <3>4. Portion \div SECT_SIZE \in 1 .. bpb.sec_per_clus
        BY <1>1, <1>2, <1>4, <3>3, PortionIs
      <3>5. bpb.sec_per_clus \in 1 .. COUNTS - 1 /\ COUNTS \in Nat
        BY <1>2, AtaAssumption, Geometry
      <3> QED BY <1>b, <2>2, <3>2, <3>4, <3>5
    <2> QED BY <2>1, <2>2
  <1>7. AtaInv' /\ AtaTypeOK'
    <2>1. n \in Nat
      BY <1>6
    <2> QED BY <1>1, <1>5, <2>1, CallKeeps DEF IInv, AtaInv
  <1>8. want' = p /\ Progress(n)'
    BY <1>1, <1>6, CallProgress
  <1>9. Place' = p /\ Asked' = n
    BY <1>1, <1>3, <1>a, <1>b DEF Place, Asked
  <1>10. CallInv' /\ Undisturbed'
    <2>1. pc' \in {"dir", "data"}
      BY <1>1
    <2> QED BY <1>8, <1>9, <2>1 DEF CallInv, Calling, Undisturbed
  <1>11. TypeOK'
    BY <1>1, <1>2, <1>3, <1>7 DEF TypeOK
  <1>12. Stages'
    BY <1>1, <1>3, <1>6 DEF Stages, Walking, IInv
  <1>13. WalkInv'
    <2>1. Legal(cur')
      BY <1>1, <1>3
    <2> QED BY <1>1, <1>3, <2>1 DEF WalkInv, Walking, IInv
  <1> QED BY <1>3, <1>7, <1>10, <1>11, <1>12, <1>13 DEF IInv

-----------------------------------------------------------------------------
(***************************************************************************)
(* file_read                                                               *)
(***************************************************************************)
LEMMA CoveredFile ==
  ASSUME Mounted, NEW e \in Listed, NEW t \in Nat, t <= e.size
  PROVE  Covered(e, t)
PROOF
  <1> SUFFICES ASSUME NEW n \in 0 .. t, n * clus_size < t PROVE Nth(e.clus, n) \in InUse
    BY DEF Covered
  <1>1. e.size \in Nat /\ n * clus_size \in Nat
    BY EntryIs, Geometry
  <1>2. n \in 0 .. e.size /\ n * (bpb.sec_per_clus * SECT_SIZE) < e.size
    BY <1>1 DEF clus_size
  <1> QED BY <1>2, VolumeAssumption DEF Mounted

LEMMA ReadPartStep ==
  ASSUME IInv, Mounted, UNCHANGED fat, UNCHANGED ata, driver = "idle",
         UNCHANGED <<file, fatbuf, dirbuf>>, mishap' \subseteq {"failed", "ignored", "late"},
         NEW r \in Reads, request' = r, file \in Listed, r.offset < file.size,
         NEW bytes \in Seq(Nat \X Nat), Unread(r, Len(bytes)), ReadPart(r, bytes),
         Trusted' => \A k \in DOMAIN bytes : bytes[k] = ByteOf(file, r.offset + k - 1)
  PROVE  IInv'
PROOF
  <1>1. PICK b \in Nat : b = Len(bytes)
    OBVIOUS
  <1>2. /\ r.offset \in Nat /\ Size(r) \in Nat /\ r.op = "read" /\ file.size \in Nat
        /\ r.offset + Size(r) <= file.size /\ Size(r) = Least(r.size, file.size - r.offset)
        /\ file # NULL
    BY SizeIs, EntryIs
  <1>3. /\ out' = bytes
        /\ Walk(file, r.offset + b - Skip(r, b))
        /\ need' = Span(r, b) /\ data' = << >>
        /\ UNCHANGED <<result, names, index>>
    BY <1>1 DEF ReadPart
  <1>4. Calls'
    BY <1>2, <1>3 DEF Calls, IInv, TypeOK
  <1>5. UNCHANGED <<table, part, bpb>> /\ file' = file
    BY DEF fat
  <1>6. /\ Mounted' /\ clus_size' = clus_size
        /\ \A e, t : Covered(e, t)' <=> Covered(e, t)
        /\ \A e, k : ByteOf(e, k)' = ByteOf(e, k)
    BY <1>5, GeometrySame
  <1>7. Trusted' => \A k \in DOMAIN out' : out'[k] = ByteOf(file, r.offset + k - 1)
    BY <1>3
  <1>8. PICK g : g = r.offset + b - Skip(r, b)
    OBVIOUS
  <1>9. /\ Skip(r, b) \in 0 .. SECT_SIZE - 1
        /\ Span(r, b) \in Nat /\ Span(r, b) > 0 /\ Span(r, b) % SECT_SIZE = 0
        /\ g \in Nat /\ g % SECT_SIZE = 0
    BY <1>1, <1>8, PartIs
  <1>10. g <= file.size
    <2>1. b <= Size(r)
      BY <1>1, <1>2 DEF Unread
    <2>2. PICK s \in Nat : s = Skip(r, b)
      BY <1>9
    <2> QED BY <1>2, <1>8, <1>9, <2>1, <2>2
  <1>11. /\ pc' = "walk" /\ entry' = file /\ cur' = file.clus /\ off' = g
        /\ need' = Span(r, b) /\ data' = << >> /\ UNCHANGED <<result, names, index>>
    BY <1>3, <1>9, <1>8 DEF Walk
  <1>12. AtaInv' /\ AtaTypeOK' /\ driver' = "idle"
    BY AtaSame DEF IInv, AtaInv, ata
  <1>13. Len(<< >>) = 0 /\ << >> \in Seq(Nat \X Nat) /\ 0 % SECT_SIZE = 0
    BY Sizes, DivLess
  <1>14. TypeOK'
    BY <1>4, <1>9, <1>11, <1>12, <1>13, EntryIs DEF TypeOK, Calls, IInv
  <1>15. CallInv' /\ Undisturbed'
    BY <1>11, <1>12 DEF CallInv, Calling, Undisturbed
  <1>16. Stages'
    BY <1>2, <1>4, <1>5, <1>6, <1>11, <1>13 DEF Stages, Walking, Calls, IInv
  <1>17. Begin' = g
    BY <1>1, <1>3, <1>8 DEF Begin, Skip
  <1>18. Target' = g
    <2>1. request'.op # "open"
      BY <1>2
    <2>2. Len(data') = 0
      BY <1>11, <1>13
    <2> QED BY <1>9, <1>17, <2>1, <2>2 DEF Target
  <1>19. Covered(file, g)' /\ Reached(file, g)'
    <2>1. Covered(file, g)
      BY <1>9, <1>10, CoveredFile
    <2>2. 0 * clus_size' + off' = g /\ cur' = Nth(file.clus, 0) /\ 0 \in 0 .. g
      BY <1>6, <1>9, <1>11, StartIs
    <2> QED BY <1>5, <1>6, <2>1, <2>2 DEF Reached
  <1>20. WalkInv'
    BY <1>5, <1>9, <1>11, <1>18, <1>19 DEF WalkInv, Walking
  <1>21. ReadInv'
    <2>1. (Unread(r, b)' <=> Unread(r, b)) /\ Span(r, b)' = Span(r, b)
      BY <1>5 DEF Unread, Size, Span, Whole, Chunk, Skip
    <2>2. Len(out') = b /\ Len(data') = 0 /\ DOMAIN data' = {}
      BY <1>1, <1>3, <1>11, <1>13
    <2>3. Len(data') + need' = Span(r, b)
      BY <1>9, <1>11, <2>2
    <2>4. r.offset < file'.size /\ entry' = file' /\ need' > 0
      BY <1>5, <1>9, <1>11
    <2> QED BY <1>1, <2>1, <2>2, <2>3, <2>4 DEF ReadInv
  <1>22. ReadRight'
    BY <1>5, <1>6, <1>7, <1>11 DEF ReadRight
  <1> QED BY <1>12, <1>14, <1>15, <1>16, <1>20, <1>21, <1>22 DEF IInv

LEMMA NextPartStep ==
  ASSUME IInv, Mounted, UNCHANGED fat, UNCHANGED ata, driver = "idle",
         UNCHANGED <<file, fatbuf, dirbuf>>, mishap' \subseteq {"failed", "ignored", "late"},
         NEW r \in Reads, request' = r, file \in Listed, r.offset < file.size,
         NEW bytes \in Seq(Nat \X Nat), Len(bytes) <= Size(r), NextPart(r, bytes),
         Trusted' => \A k \in DOMAIN bytes : bytes[k] = ByteOf(file, r.offset + k - 1)
  PROVE  IInv'
PROOF
  <1>1. PICK b \in Nat : b = Len(bytes)
    OBVIOUS
  <1>2. /\ r.offset \in Nat /\ Size(r) \in Nat /\ r.op = "read" /\ file.size \in Nat
        /\ r.offset + Size(r) <= file.size /\ Size(r) = Least(r.size, file.size - r.offset)
        /\ file # NULL
    BY SizeIs, EntryIs
  <1>3. CASE b = Size(r)
    <2>1. out' = bytes /\ Finish(b)
      BY <1>1, <1>3 DEF NextPart
    <2>2. Calls'
      BY <1>2, <2>1 DEF Calls, IInv, TypeOK
    <2>3. UNCHANGED <<table, part, bpb>> /\ file' = file
      BY DEF fat
    <2>4. Mounted' /\ \A e, k : ByteOf(e, k)' = ByteOf(e, k)
      BY <2>3, GeometrySame
    <2>5. Trusted' => \A k \in DOMAIN out' : out'[k] = ByteOf(file, r.offset + k - 1)
      BY <2>1
    <2>6. pc' = "idle" /\ result' = b /\ result' = Len(out') /\ ~(r.offset >= file.size)
      BY <1>1, <1>2, <2>1 DEF Finish
    <2>7. ReadRight'
      BY <1>2, <1>3, <2>3, <2>4, <2>5, <2>6 DEF ReadRight
    <2>8. b \in Int
      OBVIOUS
    <2> QED BY <2>1, <2>2, <2>6, <2>7, <2>8, Returns
  <1>4. CASE b # Size(r)
    <2>1. Unread(r, Len(bytes)) /\ ReadPart(r, bytes)
      BY <1>1, <1>2, <1>4 DEF NextPart, Unread
    <2> QED BY <2>1, ReadPartStep
  <1> QED BY <1>3, <1>4

-----------------------------------------------------------------------------
LEMMA ReadStep == ASSUME IInv, NEW r \in Reads, Read(r) PROVE IInv'
PROOF
  <1>1. /\ pc = "idle" /\ file # NULL /\ request' = r /\ mishap' = {}
        /\ \/ r.offset >= file.size /\ out' = << >> /\ Finish(0)
           \/ r.offset < file.size /\ Skip(r, 0) # 0 /\ ReadPart(r, << >>)
           \/ r.offset < file.size /\ Skip(r, 0) = 0 /\ NextPart(r, << >>)
        /\ UNCHANGED fat /\ UNCHANGED ata
        /\ UNCHANGED <<part, bpb, file, fatbuf, dirbuf>>
    BY DEF Read, fat
  <1>2. Mounted /\ driver = "idle" /\ file \in Listed
    BY <1>1 DEF IInv, Stages, CallInv, Calling, TypeOK
  <1>3. r.op = "read" /\ r.offset \in Nat /\ file.size \in Nat
    <2>1. r \in [op : {"read"}, offset : Nat, size : Nat]
      BY CallAssumption
    <2> QED BY <1>2, <2>1, EntryIs
  <1>4. << >> \in Seq(Nat \X Nat) /\ Len(<< >>) = 0 /\ DOMAIN << >> = {}
    OBVIOUS
  <1>5. CASE r.offset >= file.size
    <2>0. ~(r.offset < file.size)
      BY <1>3, <1>5
    <2>1. out' = << >> /\ Finish(0) /\ pc' = "idle" /\ result' = 0
      BY <1>1, <2>0 DEF Finish
    <2>2. Calls'
      BY <1>1, <1>2, <1>4, <2>1 DEF Calls, IInv, TypeOK
    <2>3. ReadRight'
      BY <1>1, <1>4, <1>5, <2>1 DEF ReadRight
    <2> QED BY <1>1, <1>2, <2>1, <2>2, <2>3, Returns
  <1>6. CASE r.offset < file.size
    <2>1. Size(r) \in Nat /\ Len(<< >>) <= Size(r)
      BY <1>2, <1>4, <1>6, SizeIs
    <2>2. \A k \in DOMAIN << >> : << >>[k] = ByteOf(file, r.offset + k - 1)
      BY <1>4
    <2>3. CASE Skip(r, 0) # 0 /\ ReadPart(r, << >>)
      <3>1. Unread(r, Len(<< >>))
        BY <1>4, <2>1, <2>3 DEF Unread
      <3> QED BY <1>1, <1>2, <1>4, <1>6, <2>2, <2>3, <3>1, ReadPartStep
    <2>4. CASE NextPart(r, << >>)
      BY <1>1, <1>2, <1>4, <1>6, <2>1, <2>2, <2>4, NextPartStep
    <2> QED BY <1>1, <1>3, <1>6, <2>3, <2>4
  <1> QED BY <1>3, <1>5, <1>6

-----------------------------------------------------------------------------
(* What a read of data has brought, if it was done                           *)
LEMMA GotIs ==
  ASSUME IInv, pc = "data", driver = "idle"
  PROVE  /\ want = clus2lba(cur) + off \div SECT_SIZE
         /\ got \in Seq(Nat)
         /\ ret = "ok" => Len(got) = Portion \div SECT_SIZE
         /\ ~late => \A i \in 1 .. Len(got) : got[i] = want + i - 1
BY DEF IInv, CallInv, Calling, Place, Asked, Progress, AtaInv, AtaTypeOK, RightSectors

(* The bytes of it are those of the file from where the call is in it.       *)
LEMMA ReadBytes ==
  ASSUME IInv, pc = "data", driver = "idle", ret = "ok"
  PROVE  /\ Bytes(got) \in Seq(Nat \X Nat) /\ Len(Bytes(got)) = Portion
         /\ Trusted /\ ~late =>
              \A j \in 1 .. Portion : Bytes(got)[j] = ByteOf(file, Target + j - 1)
PROOF
  <1>1. Mounted /\ request.op = "read"
    BY CallIs DEF Walking
  <1>2. /\ off \in Nat /\ off % SECT_SIZE = 0 /\ off < clus_size /\ cur \in Nat /\ Legal(cur)
        /\ Target \in Nat /\ (Trusted => Reached(entry, Target))
        /\ entry \in Listed
    BY WalkIs DEF Walking
  <1>3. need \in Nat /\ need > 0 /\ need % SECT_SIZE = 0 /\ entry = file
    BY <1>1, PathIs DEF Walking
  <1>4. /\ Portion \in Nat /\ Portion % SECT_SIZE = 0 /\ Portion + off <= clus_size
    BY <1>1, <1>2, <1>3, PortionIs
  <1>5. /\ want = clus2lba(cur) + off \div SECT_SIZE /\ got \in Seq(Nat)
        /\ Len(got) = Portion \div SECT_SIZE
        /\ ~late => \A i \in 1 .. Len(got) : got[i] = want + i - 1
    BY GotIs
  <1>6. Len(got) * SECT_SIZE = Portion /\ Len(got) \in Nat
    BY <1>4, <1>5, MultipleIs, Sizes
  <1>7. /\ Bytes(got) \in Seq(Nat \X Nat) /\ Len(Bytes(got)) = Portion
        /\ \A k \in 1 .. Portion :
              /\ (k - 1) \div SECT_SIZE + 1 \in 1 .. Len(got)
              /\ Bytes(got)[k] = <<got[(k - 1) \div SECT_SIZE + 1], (k - 1) % SECT_SIZE>>
    BY <1>5, <1>6, BytesAre
  <1>8. ASSUME Trusted, ~late, NEW j \in 1 .. Portion
        PROVE  Bytes(got)[j] = ByteOf(file, Target + j - 1)
    <2>1. PICK n \in Nat : /\ n * clus_size \in Nat /\ n * clus_size + off = Target
                           /\ cur = Nth(entry.clus, n)
      BY <1>1, <1>2, <1>8, ReachedIs
    <2>2. PICK i \in Nat : i = j - 1 /\ i + 1 = j
      BY <1>4
    <2>3. clus_size \in Nat
      BY <1>1, Geometry
    <2>4. off + i < clus_size
      BY <1>2, <1>4, <2>2, <2>3
    <2>5. Target + j - 1 = n * clus_size + off + i
      BY <1>2, <2>1, <2>2
    <2>6. /\ i \div SECT_SIZE \in Nat /\ off \div SECT_SIZE \in Nat
          /\ ByteOf(file, Target + j - 1)
               = <<clus2lba(cur) + (off \div SECT_SIZE + i \div SECT_SIZE), i % SECT_SIZE>>
      BY <1>1, <1>2, <1>3, <2>1, <2>4, <2>5, ByteAt
    <2>7. i \div SECT_SIZE + 1 \in 1 .. Len(got)
      BY <1>7, <2>2
    <2>8. got[i \div SECT_SIZE + 1] = want + (i \div SECT_SIZE + 1) - 1
      BY <1>5, <1>8, <2>7
    <2>9. clus2lba(cur) \in Nat
      BY <1>1, <1>2, PlaceIs
    <2>10. got[i \div SECT_SIZE + 1] = clus2lba(cur) + (off \div SECT_SIZE + i \div SECT_SIZE)
      BY <1>5, <2>6, <2>8, <2>9
    <2>11. Bytes(got)[j] = <<got[i \div SECT_SIZE + 1], i % SECT_SIZE>>
      BY <1>7, <2>2
    <2> QED BY <2>6, <2>10, <2>11
  <1> QED BY <1>7, <1>8

-----------------------------------------------------------------------------
LEMMA Joined ==
  ASSUME NEW S, NEW a \in Seq(S), NEW b \in Seq(S), NEW c, c = a \o b,
         NEW n, n = Len(a), NEW p, p = Len(b)
  PROVE  /\ c \in Seq(S) /\ Len(c) = n + p
         /\ \A k \in 1 .. n : c[k] = a[k]
         /\ \A k \in n + 1 .. n + p : c[k] = b[k - n]
OBVIOUS

(* With the bytes that were read before, they continue the part.             *)
LEMMA AllIs ==
  ASSUME IInv, pc = "data", driver = "idle", ret = "ok", NEW all, all = data \o Bytes(got)
  PROVE  /\ all \in Seq(Nat \X Nat) /\ Len(all) = Len(data) + Portion
         /\ Trusted /\ ~late => \A k \in 1 .. Len(all) : all[k] = ByteOf(file, Begin + k - 1)
PROOF
  <1>1. Mounted /\ request.op = "read"
    BY CallIs DEF Walking
  <1>2. /\ data \in Seq(Nat \X Nat) /\ Target = Begin + Len(data) /\ Target \in Nat
        /\ Trusted => \A k \in DOMAIN data : data[k] = ByteOf(file, Begin + k - 1)
    BY <1>1, PathIs DEF Walking
  <1>3. PICK more : more = Bytes(got)
    OBVIOUS
  <1>4. PICK p : p = Portion
    OBVIOUS
  <1>5. /\ more \in Seq(Nat \X Nat) /\ Len(more) = p
        /\ Trusted /\ ~late => \A j \in 1 .. p : more[j] = ByteOf(file, Target + j - 1)
    BY <1>3, <1>4, ReadBytes
  <1>6. PICK n \in Nat : n = Len(data) /\ DOMAIN data = 1 .. n
    BY <1>2
  <1>7. p \in Nat
    BY <1>5
  <1>8. PICK g : g = Begin
    OBVIOUS
  <1>9. g \in Int
    <2>1. request \in Reads /\ out \in Seq(Nat \X Nat) /\ request.offset < file.size
          /\ file \in Listed /\ Unread(request, Len(out))
      BY <1>1, PathIs DEF Walking
    <2>2. Len(out) \in Nat
      BY <2>1
    <2> QED BY <1>8, <2>1, <2>2, PartIs DEF Begin
  <1>10. /\ all \in Seq(Nat \X Nat) /\ Len(all) = n + p
         /\ \A k \in 1 .. n : all[k] = data[k]
         /\ \A k \in n + 1 .. n + p : all[k] = more[k - n]
    <2>1. PICK S : S = Nat \X Nat
      OBVIOUS
    <2>2. PICK q : q = data /\ q \in Seq(S) /\ n = Len(q)
      BY <1>2, <1>6, <2>1
    <2>3. all = q \o more /\ more \in Seq(S) /\ p = Len(more)
      BY <1>3, <1>5, <2>1, <2>2
    <2>4. /\ all \in Seq(S) /\ Len(all) = n + p
          /\ \A k \in 1 .. n : all[k] = q[k]
          /\ \A k \in n + 1 .. n + p : all[k] = more[k - n]
      BY <2>2, <2>3, Joined
    <2> QED BY <2>1, <2>2, <2>3, <2>4
  <1>11. ASSUME Trusted, ~late, NEW k \in 1 .. n + p
         PROVE  all[k] = ByteOf(file, g + k - 1)
    <2>1. CASE k \in 1 .. n
      BY <1>2, <1>6, <1>8, <1>10, <1>11, <2>1
    <2>2. CASE k \in n + 1 .. n + p
      <3>1. PICK j \in 1 .. p : j = k - n
        BY <1>6, <1>7, <2>2
      <3>2. all[k] = more[j] /\ more[j] = ByteOf(file, Target + j - 1)
        BY <1>5, <1>10, <1>11, <2>2, <3>1
      <3>3. Target + j - 1 = g + k - 1
        BY <1>2, <1>6, <1>8, <1>9, <3>1
      <3> QED BY <3>2, <3>3
    <2>3. k \in 1 .. n \/ k \in n + 1 .. n + p
      BY <1>6, <1>7, <1>11
    <2> QED BY <2>1, <2>2, <2>3, Zenon
  <1> QED BY <1>4, <1>6, <1>8, <1>10, <1>11

(* A cluster is read to its end, and more is needed.                         *)
LEMMA NextClusterStep ==
  ASSUME IInv, pc = "data", driver = "idle", ret = "ok", need > Portion,
         UNCHANGED <<fat, ata, request, file, fatbuf, dirbuf>>,
         mishap' \subseteq {"failed", "ignored", "late"}, Trusted' => Trusted /\ ~late,
         data' = data \o Bytes(got), need' = need - Portion, pc' = "walk", off' = clus_size,
         UNCHANGED <<result, names, entry, index, cur, out>>
  PROVE  IInv'
PROOF
  <1>1. Calls /\ Mounted /\ TypeOK /\ request.op = "read"
    BY CallIs DEF Walking
  <1>2. /\ UNCHANGED <<table, part, bpb, request, file, fatbuf, dirbuf, result, names>>
        /\ UNCHANGED <<entry, index, cur, out>> /\ UNCHANGED fat /\ UNCHANGED ata
    BY DEF fat
  <1>3. /\ Mounted' /\ clus_size' = clus_size
        /\ \A e, t : Covered(e, t)' <=> Covered(e, t)
        /\ \A e, k : ByteOf(e, k)' = ByteOf(e, k)
    BY <1>1, <1>2, GeometrySame
  <1>4. /\ request \in Reads /\ file \in Listed /\ entry = file /\ request.offset < file.size
        /\ Len(out) \in Nat /\ Unread(request, Len(out))
        /\ Len(data) \in Nat /\ Len(data) % SECT_SIZE = 0
        /\ need \in Nat /\ need > 0 /\ need % SECT_SIZE = 0
        /\ Len(data) + need = Span(request, Len(out))
        /\ Target = Begin + Len(data) /\ Target \in Nat
    BY <1>1, PathIs DEF Walking
  <1>5. /\ off \in Nat /\ off % SECT_SIZE = 0 /\ off < clus_size /\ cur \in Nat
        /\ Target % SECT_SIZE = 0 /\ (Trusted => Reached(entry, Target))
    BY WalkIs DEF Walking
  <1>6. PICK p \in Nat : p = Portion /\ p > 0 /\ p % SECT_SIZE = 0 /\ p + off = clus_size
    <2>1. /\ Portion \in Nat /\ Portion > 0 /\ Portion % SECT_SIZE = 0
          /\ need - Portion > 0 => Portion + off = clus_size
      BY <1>1, <1>4, <1>5, PortionIs
    <2>2. need - Portion > 0
      BY <1>4, <2>1
    <2> QED BY <2>1, <2>2
  <1>7. PICK z \in Nat : z = clus_size /\ z % SECT_SIZE = 0
    BY <1>1, Geometry
  <1>8. PICK n \in Nat : n = Len(data) /\ n % SECT_SIZE = 0
    BY <1>4
  <1>9. /\ data' \in Seq(Nat \X Nat) /\ Len(data') = n + p
        /\ Trusted' => \A k \in 1 .. n + p : data'[k] = ByteOf(file, Begin + k - 1)
    BY <1>6, <1>8, AllIs
  <1>10. (n + p) % SECT_SIZE = 0
    BY <1>6, <1>8, Sizes, Sum, Zenon
  <1>11. need' \in Nat /\ need' > 0 /\ need' % SECT_SIZE = 0 /\ n + p + need' = Span(request, Len(out))
    <2>1. PICK m \in Nat : m = need /\ m % SECT_SIZE = 0 /\ p <= m
      BY <1>4, <1>6
    <2>2. (m - p) % SECT_SIZE = 0
      BY <1>6, <2>1, Sizes, Difference, Zenon
    <2>3. need' = m - p /\ n + m = Span(request, Len(out)) /\ need > p
      BY <1>4, <1>6, <1>8, <2>1
    <2>4. PICK u : u = need'
      OBVIOUS
    <2>5. u \in Nat /\ u > 0 /\ n + p + u = n + m
      BY <2>1, <2>3, <2>4
    <2> QED BY <2>2, <2>3, <2>4, <2>5
  <1>12. AtaInv' /\ AtaTypeOK' /\ driver' = "idle"
    BY <1>2, AtaSame DEF IInv, AtaInv, ata
  <1>13. TypeOK'
    BY <1>1, <1>2, <1>7, <1>9, <1>10, <1>11, <1>12 DEF TypeOK
  <1>14. CallInv' /\ Undisturbed'
    BY <1>12 DEF CallInv, Calling, Undisturbed
  <1>15. Stages'
    BY <1>1, <1>2, <1>3, <1>4, <1>9 DEF Stages, Walking, Calls, IInv
  <1>16. Begin' = Begin
    BY <1>2 DEF Begin, Skip
  <1>17. Begin \in Nat
    <2>1. PICK b \in Nat : b = Len(out)
      BY <1>4
    <2> QED BY <1>4, <2>1, PartIs DEF Begin
  <1>18. PICK t \in Nat : t = Target + p /\ Target' = t /\ t % SECT_SIZE = 0
    <2>1. Target' = Begin' + Len(data')
      BY <1>1, <1>2 DEF Target
    <2>2. PICK s \in Nat : s = Target /\ s % SECT_SIZE = 0
      BY <1>4, <1>5
    <2>3. (s + p) % SECT_SIZE = 0
      BY <1>6, <2>2, Sizes, Sum, Zenon
    <2>4. Begin + (n + p) = s + p
      BY <1>4, <1>6, <1>8, <1>17, <2>2
    <2>5. s + p \in Nat /\ Target' = s + p
      BY <1>6, <1>9, <1>16, <2>1, <2>2, <2>4
    <2> QED BY <2>2, <2>3, <2>5
  <1>19. t < file.size
    <2>1. PICK b \in Nat : b = Len(out)
      BY <1>4
    <2>2. PICK g \in Nat : g = Begin
      BY <1>17
    <2>3. \A x \in Nat : x % SECT_SIZE = 0 /\ x < g + Span(request, b) => x < file.size
      BY <1>4, <2>1, <2>2, PartIs DEF Begin
    <2>4. PICK u \in Nat : u = need' /\ u > 0 /\ n + p + u = Span(request, b)
      BY <1>11, <2>1
    <2>5. t = g + n + p
      BY <1>4, <1>8, <1>18, <2>2
    <2>6. t < g + Span(request, b)
      BY <1>6, <1>8, <2>2, <2>4, <2>5
    <2> QED BY <1>18, <2>3, <2>6
  <1>20. Covered(entry, t)'
    <2>1. t <= file.size
      <3>1. file.size \in Nat
        BY <1>4, EntryIs
      <3>2. PICK z0 \in Nat : z0 = file.size
        BY <3>1
      <3>3. t < z0 /\ t \in Nat
        BY <1>18, <1>19, <3>2
      <3> QED BY <3>2, <3>3
    <2>2. Covered(file, t)
      BY <1>1, <1>4, <2>1, CoveredFile
    <2> QED BY <1>2, <1>3, <1>4, <2>2
  <1>21. ASSUME Trusted' PROVE Reached(entry, t)'
    <2>1. Trusted
      BY <1>21
    <2>2. PICK m \in Nat : /\ m * clus_size \in Nat /\ m * clus_size + off = Target
                           /\ m * clus_size <= Target /\ m \in 0 .. Target
                           /\ cur = Nth(entry.clus, m)
      BY <1>1, <1>4, <1>5, <2>1, ReachedIs
    <2>3. m * clus_size + clus_size = t
      <3>1. PICK y \in Nat : y = m * clus_size /\ y + off = Target
        BY <2>2
      <3>2. PICK s \in Nat : s = Target /\ t = s + p
        BY <1>4, <1>18
      <3>3. PICK o \in Nat : o = off /\ p + o = z /\ y + o = s
        BY <1>5, <1>6, <1>7, <3>1, <3>2
      <3>4. y + z = t
        BY <3>2, <3>3
      <3> QED BY <1>7, <3>1, <3>4
    <2>4. m \in 0 .. t
      BY <1>4, <1>6, <1>18, <2>2
    <2> QED BY <1>2, <1>3, <2>2, <2>3, <2>4 DEF Reached
  <1>22. WalkInv'
    <2>1. entry' \in Listed /\ off' % SECT_SIZE = 0 /\ Target' \in Nat /\ Target' % SECT_SIZE = 0
      BY <1>2, <1>4, <1>7, <1>18
    <2> QED BY <1>18, <1>20, <1>21, <2>1 DEF WalkInv
  <1>23. ReadInv'
    <2>1. /\ Unread(request, Len(out))' <=> Unread(request, Len(out))
          /\ Span(request, Len(out))' = Span(request, Len(out))
      BY <1>2 DEF Unread, Size, Span, Whole, Chunk, Skip
    <2>2. DOMAIN data' = 1 .. n + p
      BY <1>9
    <2>3. Trusted' => \A k \in DOMAIN data' : data'[k] = ByteOf(file, Begin + k - 1)'
      BY <1>2, <1>3, <1>9, <1>16, <2>2
    <2> QED BY <1>2, <1>4, <1>9, <1>11, <2>1, <2>3 DEF ReadInv
  <1>24. ReadRight'
    BY <1>2, <1>3 DEF IInv, ReadRight
  <1> QED BY <1>12, <1>13, <1>14, <1>15, <1>22, <1>23, <1>24 DEF IInv

-----------------------------------------------------------------------------
LEMMA Taken ==
  ASSUME NEW S, NEW a \in Seq(S), NEW s \in Nat, NEW c \in Nat, s + c <= Len(a),
         NEW lo, lo = s + 1, NEW hi, hi = s + c, NEW d, d = SubSeq(a, lo, hi)
  PROVE  d \in Seq(S) /\ Len(d) = c /\ \A i \in 1 .. c : d[i] = a[s + i]
PROOF
  <1>1. Len(a) \in Nat /\ a \in [1 .. Len(a) -> S]
    OBVIOUS
  <1>2. \A i \in 1 .. c : s + i \in 1 .. Len(a)
    BY <1>1
  <1>3. (s + c) - (s + 1) + 1 = c
    OBVIOUS
  <1>4. d = [i \in 1 .. c |-> a[s + 1 + i - 1]]
    BY <1>3
  <1>5. \A i \in 1 .. c : s + 1 + i - 1 = s + i
    OBVIOUS
  <1>6. \A i \in 1 .. c : d[i] = a[s + i] /\ d[i] \in S
    BY <1>1, <1>2, <1>4, <1>5
  <1>7. d \in [1 .. c -> S]
    BY <1>4, <1>6
  <1> QED BY <1>6, <1>7

(* The part is complete: its bytes continue those that have been delivered.  *)
Delivered(r, b) ==
  out \o SubSeq(data \o Bytes(got), Skip(r, b) + 1, Skip(r, b) + Chunk(r, b))

LEMMA PartDelivered ==
  ASSUME IInv, pc = "data", driver = "idle", ret = "ok", need = Portion,
         NEW r, r = request, NEW b \in Nat, b = Len(out), NEW bytes,
         bytes = Delivered(r, b)
  PROVE  /\ bytes \in Seq(Nat \X Nat) /\ Len(bytes) <= Size(r)
         /\ Trusted /\ ~late =>
              \A k \in DOMAIN bytes : bytes[k] = ByteOf(file, r.offset + k - 1)
PROOF
  <1>1. request.op = "read" /\ request \in Reads /\ request # NULL
    BY CallIs, DiskAssumption DEF Walking
  <1>2. /\ r \in Reads /\ file \in Listed /\ r.offset < file.size
        /\ b \in Nat /\ Unread(r, b) /\ out \in Seq(Nat \X Nat)
        /\ Len(data) \in Nat /\ Len(data) + need = Span(r, b)
    BY <1>1, PathIs DEF Walking
  <1>3. PICK g : g = Begin /\ g = r.offset + b - Skip(r, b)
    BY DEF Begin
  <1>4. PICK s \in Nat : s = Skip(r, b)
    BY <1>2, <1>3, PartIs
  <1>5. PICK c \in Nat : c = Chunk(r, b)
    BY <1>2, <1>3, PartIs
  <1>6. b + c <= Size(r) /\ s + c <= Span(r, b) /\ g \in Nat /\ r.offset \in Nat /\ g + s = r.offset + b
    <2>1. b + Chunk(r, b) <= Size(r) /\ Skip(r, b) + Chunk(r, b) <= Span(r, b) /\ g \in Nat
      BY <1>2, <1>3, PartIs
    <2>2. r.offset \in Nat
      BY <1>2, SizeIs
    <2>3. g = r.offset + b - s
      BY <1>3, <1>4
    <2>4. b + c <= Size(r)
      BY <1>5, <2>1
    <2>5. s + c <= Span(r, b)
      BY <1>4, <1>5, <2>1
    <2>6. g + s = r.offset + b
      <3>1. PICK o \in Nat : o = r.offset
        BY <2>2
      <3>2. PICK h \in Nat : h = g /\ h = o + b - s
        BY <2>1, <2>3, <3>1
      <3>3. h + s = o + b
        BY <1>4, <3>1, <3>2, SMTT(60)
      <3> QED BY <3>1, <3>2, <3>3
    <2> QED BY <2>1, <2>2, <2>4, <2>5, <2>6
  <1>7. PICK all : all = data \o Bytes(got)
    OBVIOUS
  <1>8. /\ all \in Seq(Nat \X Nat) /\ Len(all) = Span(r, b)
        /\ Trusted /\ ~late => \A k \in 1 .. Len(all) : all[k] = ByteOf(file, g + k - 1)
    BY <1>2, <1>3, <1>7, AllIs
  <1>9. PICK S : S = Nat \X Nat
    OBVIOUS
  <1>9a. PICK lo : lo = s + 1
    OBVIOUS
  <1>9b. PICK hi : hi = s + c
    OBVIOUS
  <1>10. PICK d : d = SubSeq(all, lo, hi)
    OBVIOUS
  <1>11. all \in Seq(S) /\ s + c <= Len(all)
    BY <1>6, <1>8, <1>9
  <1>12. d \in Seq(S) /\ Len(d) = c /\ \A i \in 1 .. c : d[i] = all[s + i]
    <2>1. s \in Nat /\ c \in Nat
      BY <1>4, <1>5
    <2>2. all \in Seq(S) /\ s + c <= Len(all) /\ lo = s + 1 /\ hi = s + c /\ d = SubSeq(all, lo, hi)
      BY <1>9a, <1>9b, <1>10, <1>11
    <2>3. d \in Seq(S) /\ Len(d) = c
      BY <2>1, <2>2, Taken
    <2>4. \A i \in 1 .. c : d[i] = all[s + i]
      BY <2>1, <2>2, Taken
    <2> QED BY <2>3, <2>4
  <1>13. PICK q : q = out /\ q \in Seq(S) /\ b = Len(q)
    BY <1>2, <1>9
  <1>14. bytes = q \o d
    BY <1>4, <1>5, <1>7, <1>9a, <1>9b, <1>10, <1>13 DEF Delivered
  <1>15. /\ bytes \in Seq(S) /\ Len(bytes) = b + c
         /\ \A k \in 1 .. b : bytes[k] = q[k]
         /\ \A k \in b + 1 .. b + c : bytes[k] = d[k - b]
    <2>1. d \in Seq(S) /\ c = Len(d)
      BY <1>12
    <2> QED BY <1>13, <1>14, <2>1, Joined
  <1>16. ASSUME Trusted, ~late, NEW k \in 1 .. b + c
         PROVE  bytes[k] = ByteOf(file, r.offset + k - 1)
    <2>1. CASE k \in 1 .. b
      <3>1. out[k] = ByteOf(file, request.offset + k - 1)
        <4>1. k \in DOMAIN out
          BY <1>2, <2>1
        <4> QED BY <1>1, <1>16, <4>1 DEF IInv, ReadRight
      <3> QED BY <1>13, <1>15, <2>1, <3>1
    <2>2. CASE k \in b + 1 .. b + c
      <3>1. PICK i \in 1 .. c : i = k - b
        BY <1>5, <2>2, SMTT(60)
      <3>2. s + i \in 1 .. Len(all)
        <4>1. Len(all) \in Nat
          BY <1>8
        <4> QED BY <1>11, <4>1
      <3>3. all[s + i] = ByteOf(file, g + (s + i) - 1)
        BY <1>8, <1>16, <3>2
      <3>4. g + (s + i) - 1 = r.offset + k - 1
        <4>1. PICK x \in Nat : x = r.offset
          BY <1>6
        <4>2. PICK y \in Nat : y = g /\ y + s = x + b
          BY <1>6, <4>1
        <4>3. k \in Int /\ i \in Int /\ i = k - b
          BY <1>5, <2>2, <3>1
        <4>a. y + s = x + b
          BY <4>2
        <4>b. y \in Int /\ s \in Int /\ x \in Int /\ b \in Int
          BY <1>4, <4>1, <4>2
        <4>4. y + (s + i) - 1 = x + k - 1
          BY <4>3, <4>a, <4>b
        <4> QED BY <4>1, <4>2, <4>4
      <3>5. bytes[k] = d[i] /\ d[i] = all[s + i]
        BY <1>12, <1>15, <2>2, <3>1
      <3> QED BY <3>3, <3>4, <3>5
    <2>3. k \in 1 .. b \/ k \in b + 1 .. b + c
      BY <1>2, <1>16
    <2> QED BY <2>1, <2>2, <2>3, Zenon
  <1>17. DOMAIN bytes = 1 .. b + c
    BY <1>15
  <1> QED BY <1>6, <1>9, <1>15, <1>16, <1>17

LEMMA DataReadStep == IInv /\ DataRead => IInv'
PROOF
  <1> SUFFICES ASSUME IInv, DataRead PROVE IInv'
    OBVIOUS
  <1>a. PICK r : r = request
    OBVIOUS
  <1>b. PICK b : b = Len(out)
    OBVIOUS
  <1>1. /\ pc = "data" /\ driver = "idle" /\ Note({})
        /\ UNCHANGED <<fat, ata, request, file, fatbuf, dirbuf>>
        /\ UNCHANGED fat /\ UNCHANGED ata /\ UNCHANGED <<table, part, bpb, request, file>>
        /\ UNCHANGED <<fatbuf, dirbuf>>
        /\ \/ ret = "failed" /\ Finish(b) /\ UNCHANGED out
           \/ /\ ret = "ok" /\ need > Portion
              /\ data' = data \o Bytes(got) /\ need' = need - Portion
              /\ pc' = "walk" /\ off' = clus_size
              /\ UNCHANGED <<result, names, entry, index, cur, out>>
           \/ /\ ret = "ok" /\ need = Portion
              /\ NextPart(r, Delivered(r, b))
    BY <1>a, <1>b DEF DataRead, fat, Delivered
  <1>2. Calls /\ Mounted /\ request.op = "read" /\ request \in Reads /\ file \in Listed
    BY <1>1, CallIs DEF Walking
  <1>3. /\ mishap' \subseteq {"failed", "ignored", "late"}
        /\ Trusted' => Trusted /\ ~late
        /\ ret = "failed" => mishap' # {}
    <2>1. mishap' = mishap \cup (IF ret = "failed" THEN {"failed"} \cup {} ELSE {})
                           \cup (IF late THEN {"late"} ELSE {})
      BY <1>1 DEF Note
    <2> QED BY <1>2, <2>1 DEF Trusted, Calls
  <1>4. CASE ret = "failed" /\ Finish(b) /\ UNCHANGED out
    <2>1. Calls'
      BY <1>1, <1>2, <1>3, <1>4 DEF Calls
    <2>2. \A e, k : ByteOf(e, k)' = ByteOf(e, k)
      BY <1>1, GeometrySame
    <2>3. ReadRight'
      BY <1>1, <1>3, <1>4, <2>2 DEF IInv, ReadRight
    <2>4. b \in Int
      <3>1. out \in Seq(Nat \X Nat)
        BY <1>2 DEF Calls
      <3>2. Len(out) \in Int
        BY <3>1
      <3> QED BY <1>b, <3>2
    <2> QED BY <1>1, <1>2, <1>4, <2>1, <2>3, <2>4, Returns
  <1>5. CASE /\ ret = "ok" /\ need > Portion
             /\ data' = data \o Bytes(got) /\ need' = need - Portion
             /\ pc' = "walk" /\ off' = clus_size
             /\ UNCHANGED <<result, names, entry, index, cur, out>>
    BY <1>1, <1>3, <1>5, NextClusterStep
  <1>6. CASE /\ ret = "ok" /\ need = Portion
             /\ NextPart(r, Delivered(r, b))
    <2>1. PICK bytes : bytes = Delivered(r, b)
      OBVIOUS
    <2>2. NextPart(r, bytes)
      BY <1>6, <2>1
    <2>3. /\ bytes \in Seq(Nat \X Nat) /\ Len(bytes) <= Size(r)
          /\ Trusted /\ ~late =>
               \A k \in DOMAIN bytes : bytes[k] = ByteOf(file, r.offset + k - 1)
      <3>1. b \in Nat
        <4>1. out \in Seq(Nat \X Nat)
          BY <1>2 DEF Calls
        <4> QED BY <1>b, <4>1
      <3> QED BY <1>a, <1>b, <1>1, <1>6, <2>1, <3>1, PartDelivered
    <2>4. r \in Reads /\ request' = r /\ r.offset < file.size
      BY <1>a, <1>1, <1>2, PathIs DEF Walking
    <2>5. UNCHANGED <<file, fatbuf, dirbuf>>
      BY <1>1
    <2> QED BY <1>1, <1>2, <1>3, <2>2, <2>3, <2>4, <2>5, NextPartStep
  <1> QED BY <1>1, <1>4, <1>5, <1>6

-----------------------------------------------------------------------------
LEMMA NextIInv == IInv /\ [Next]_vars => IInv'
PROOF
  <1> SUFFICES ASSUME IInv, [Next]_vars PROVE IInv'
    OBVIOUS
  <1>1. ASSUME NEW path \in Paths, Open(path) PROVE IInv'
    BY <1>1, OpenStep
  <1>2. ASSUME NEW r \in Reads, Read(r) PROVE IInv'
    BY <1>2, ReadStep
  <1>3. CASE Step
    BY <1>3, FsInitStep, MbrReadStep, VolumeReadStep, RootReadStep, DirReadStep, FollowStep,
       FollowedStep, EndOfChainStep, ArriveStep, DataReadStep DEF Step
  <1>4. CASE Disk
    BY <1>4, DiskStep
  <1>5. CASE Spin \/ UNCHANGED vars
    BY <1>5, StillStep DEF Spin
  <1> QED BY <1>1, <1>2, <1>3, <1>4, <1>5 DEF Next


-----------------------------------------------------------------------------
LEMMA FollowsLegal == IInv => LegalClusters
PROOF
  <1> SUFFICES ASSUME IInv PROVE LegalClusters
    OBVIOUS
  <1>1. ASSUME pc = "follow", Trusted
        PROVE  cur > 1 /\ cur < RESERVED
    <2>1. off >= clus_size
      BY <1>1, WalkIs DEF Walking
    <2>2. cur \in InUse
      BY <1>1, <2>1, CurIs DEF Walking
    <2> QED BY <2>2, InUseIs DEF Legal
  <1> QED BY <1>1 DEF LegalClusters, IInv

LEMMA StaysInside == IInv => ReadsInsideClusters
PROOF
  <1> SUFFICES ASSUME IInv, driver = "select"
               PROVE  /\ left > 0
                      /\ pc = "data" =>
                           /\ want >= data_start_lba
                           /\ ((want - data_start_lba) % bpb.sec_per_clus) + left <= bpb.sec_per_clus
    BY DEF ReadsInsideClusters
  <1>1. want = Place /\ left > 0 /\ Len(got) + left = Asked /\ got = << >> /\ left \in Nat
    BY AtaAssumption DEF IInv, CallInv, Progress, AtaInv, AtaTypeOK
  <1>2. left = Asked
    BY <1>1
  <1>3. ASSUME pc = "data"
        PROVE  /\ want >= data_start_lba
               /\ ((want - data_start_lba) % bpb.sec_per_clus) + left <= bpb.sec_per_clus
    <2>1. Mounted /\ request.op = "read"
      BY <1>3, CallIs DEF Walking
    <2>2. off \in Nat /\ off % SECT_SIZE = 0 /\ off < clus_size /\ cur \in Nat /\ Legal(cur)
      BY <1>3, WalkIs DEF Walking
    <2>3. need \in Nat /\ need > 0 /\ need % SECT_SIZE = 0
      BY <1>3, <2>1, PathIs DEF Walking
    <2>4. PICK s \in Nat : s = bpb.sec_per_clus
      BY <2>1, Geometry
    <2>5. PICK i \in Nat : i = off \div SECT_SIZE
      BY <2>1, <2>2, <2>3, PortionIs
    <2>6. left \in 1 .. s /\ i + left <= s
      <3>1. /\ Portion \div SECT_SIZE \in 1 .. s
            /\ off \div SECT_SIZE + Portion \div SECT_SIZE <= s
        BY <2>1, <2>2, <2>3, <2>4, PortionIs
      <3>2. left = Portion \div SECT_SIZE
        BY <1>2, <1>3 DEF Asked
      <3> QED BY <2>5, <3>1, <3>2
    <2>7. i \in 0 .. s - 1
      BY <2>4, <2>5, <2>6
    <2>8. want = clus2lba(cur) + i
      BY <1>1, <1>3, <2>5 DEF Place
    <2>9. /\ clus2lba(cur) \in Nat /\ clus2lba(cur) >= data_start_lba /\ data_start_lba \in Nat
          /\ (clus2lba(cur) + i - data_start_lba) % s = i
      BY <2>1, <2>2, <2>4, <2>7, PlaceIs, Geometry
    <2>10. want >= data_start_lba
      BY <2>5, <2>8, <2>9
    <2>11. (want - data_start_lba) % s = i
      BY <2>8, <2>9
    <2> QED BY <2>4, <2>6, <2>10, <2>11
  <1> QED BY <1>1, <1>3

-----------------------------------------------------------------------------
(***************************************************************************)
(* file_open finds what the path names.  Of the names of the path, i - 1   *)
(* have led to the directory that is searched, which Levels confirms, and  *)
(* the sectors of it before index do not have the i-th.                    *)
(***************************************************************************)
Chosen == \E i \in 1 .. 4 : /\ \A k \in 1 .. i : table[k].active <=> k = i
                            /\ part = table[i].start_lba

Levels(path, root, below) ==
  LET at[i \in 1 .. Len(path)] ==
        {e \in IF i = 1 THEN root ELSE UNION {below[d] : d \in at[i - 1]} : e.name = path[i]}
  IN  at
Level(i) == Levels(request.path, RootEntries, Contents)[i]

(* Levels without its recursion                                              *)
Leveled(path, root, below, L) ==
  /\ L[1] = {e \in root : e.name = path[1]}
  /\ \A i \in 2 .. Len(path) :
       L[i] = {e \in UNION {below[d] : d \in L[i - 1]} : e.name = path[i]}
  /\ \A i \in 1 .. Len(path) : L[i] \subseteq Listed

Absent(s, name) == \A k \in DOMAIN Entries(s) : Entries(s)[k].name # name
NoneBefore(e, t, name) ==
  \A n \in 0 .. t, i \in 0 .. bpb.sec_per_clus - 1 :
    n * clus_size + i * SECT_SIZE < t => Absent(clus2lba(Nth(e.clus, n)) + i, name)

Rest(ns, path, i) ==
  /\ Len(ns) = Len(path) - i + 1
  /\ \A k \in 1 .. Len(ns) : ns[k] = path[i + k - 1]

SearchRoot ==
  /\ index < root_num_sectors
  /\ Trusted => \A j \in 0 .. index - 1 : Absent(root_start_lba + j, names[1])

Leads(e, level) == e \in level /\ (UniqueNames => level = {e})

SearchDir(i) ==
  /\ i > 1 /\ entry.dir
  /\ Trusted => /\ Leads(entry, Level(i - 1))
                /\ NoneBefore(entry, index, names[1])

Search ==
  pc \in {"root"} \cup Walking /\ request.op = "open" =>
    /\ request.path \in Paths /\ names \in Seq(STRING)
    /\ \E i \in 1 .. Len(request.path) :
         /\ Rest(names, request.path, i)
         /\ IF pc = "root" THEN i = 1 /\ SearchRoot ELSE SearchDir(i)

OInv ==
  /\ pc \in {"volume", "root", "idle"} \cup Walking => Chosen
  /\ Search
  /\ OpenRight

(* The tree is that of the volume, which no call changes.                    *)
LEMMA SameVolume ==
  ASSUME part' = part, bpb' = bpb
  PROVE  /\ RootEntries' = RootEntries /\ Contents' = Contents
         /\ UniqueNames' <=> UniqueNames
         /\ \A path : Resolve(path)' = Resolve(path)
         /\ \A e, t, name : NoneBefore(e, t, name)' <=> NoneBefore(e, t, name)
PROOF
  <1>1. /\ root_start_lba' = root_start_lba /\ data_start_lba' = data_start_lba
        /\ clus_size' = clus_size /\ \A c : clus2lba(c)' = clus2lba(c)
    BY GeometrySame
  <1>2. RootEntries' = RootEntries
    BY <1>1 DEF RootEntries
  <1>3. \A e : Sectors(e)' = Sectors(e)
    BY <1>1 DEF Sectors
  <1>4. Contents' = Contents
    BY <1>3 DEF Contents
  <1>5. UniqueNames' <=> UniqueNames
    BY <1>2, <1>4 DEF UniqueNames
  <1>6. \A path : Resolve(path)' = Resolve(path)
    BY <1>2, <1>4, Zenon DEF Resolve
  <1>7. \A e, t, name : NoneBefore(e, t, name)' <=> NoneBefore(e, t, name)
    BY <1>1 DEF NoneBefore
  <1> QED BY <1>2, <1>4, <1>5, <1>6, <1>7

(* The entries of a directory                                                *)
LEMMA DirectoriesListed ==
  RootEntries \subseteq Listed /\ Contents \in [Listed -> SUBSET Listed]
PROOF
  <1>1. RootEntries \subseteq Listed
    BY DEF RootEntries, Listed
  <1>2. ASSUME NEW e \in Listed
        PROVE  UNION {{Directory[s][k] : k \in DOMAIN Directory[s]} : s \in Sectors(e)} \subseteq Listed
    BY DEF Sectors, Listed
  <1>3. \A e \in Listed :
          (IF e.dir THEN UNION {{Directory[s][k] : k \in DOMAIN Directory[s]} : s \in Sectors(e)} ELSE {})
            \in SUBSET Listed
    BY <1>2
  <1>4. Contents \in [Listed -> SUBSET Listed]
    BY <1>3, Zenon DEF Contents
  <1> QED BY <1>1, <1>4

(* Levels is defined by its equations.                                       *)
LEMMA LevelsAre ==
  ASSUME NEW path \in Seq(STRING), path # << >>,
         NEW root \in SUBSET Listed, NEW below \in [Listed -> SUBSET Listed],
         NEW L, L = Levels(path, root, below)
  PROVE  /\ Lookup(path, root, below) = L[Len(path)]
         /\ Leveled(path, root, below, L)
PROOF
  <1> DEFINE Under(X) == UNION {below[d] : d \in X}
             Named(X, i) == {e \in X : e.name = path[i]}
             D == SUBSET Listed
             step == [i \in 1 .. Len(path) - 1 |-> [X \in D |-> Named(Under(X), i + 1)]]
             first == Named(root, 1)
  <1>1. PICK N \in Nat : N = Len(path) - 1
    OBVIOUS
  <1>2. first \in D
    OBVIOUS
  <1>3. \A X \in D : Under(X) \subseteq Listed
    OBVIOUS
  <1>4. Stepping(step, N, D)
    <2>1. \A i \in 1 .. N, X \in D : Named(Under(X), i + 1) \in D
      BY <1>3
    <2> QED BY <1>1, <2>1 DEF Stepping
  <1> HIDE DEF D, first
  <1>5. PICK f : Follows(f, N, D, first, step)
    BY <1>2, <1>4, StepsExist
  <1>6. /\ f \in [0 .. N -> D] /\ f[0] = first
        /\ \A i \in 1 .. N : f[i] = Named(Under(f[i - 1]), i + 1)
    <2>1. /\ \A i \in 1 .. N : f[i] = step[i][f[i - 1]] /\ f[i - 1] \in D
          /\ f \in [0 .. N -> D] /\ f[0] = first
      <3> HIDE DEF step
      <3>1. /\ f \in [0 .. N -> D] /\ f[0] = first
            /\ \A i \in 1 .. N : f[i] = step[i][f[i - 1]]
        BY <1>5 DEF Follows
      <3>2. \A i \in 1 .. N : i - 1 \in 0 .. N
        OBVIOUS
      <3> QED BY <3>1, <3>2
    <2>2. \A i \in 1 .. N : step[i][f[i - 1]] = Named(Under(f[i - 1]), i + 1)
      BY <1>1, <2>1
    <2> QED BY <2>1, <2>2
  <1> HIDE DEF step
  <1> DEFINE Is(g) == g = [i \in 1 .. Len(path) |->
                Named(IF i = 1 THEN root ELSE Under(g[i - 1]), i)]
             at == [i \in 1 .. Len(path) |-> f[i - 1]]
             w == Levels(path, root, below)
  <1>7. Is(at)
    <2>1. ASSUME NEW i \in 1 .. Len(path)
          PROVE  at[i] = Named(IF i = 1 THEN root ELSE Under(at[i - 1]), i)
      <3>1. CASE i = 1
        BY <1>6, <3>1 DEF first
      <3>2. CASE i # 1
        <4>1. i - 1 \in 1 .. N /\ i - 1 \in 1 .. Len(path) /\ (i - 1) + 1 = i
          BY <1>1, <3>2
        <4>2. at[i - 1] = f[(i - 1) - 1] /\ at[i] = f[i - 1]
          BY <4>1
        <4>3. f[i - 1] = Named(Under(f[(i - 1) - 1]), (i - 1) + 1)
          BY <1>6, <4>1
        <4> QED BY <3>2, <4>1, <4>2, <4>3
      <3> QED BY <3>1, <3>2
    <2>2. \A i \in 1 .. Len(path) :
            at[i] = Named(IF i = 1 THEN root ELSE Under(at[i - 1]), i)
      <3> HIDE DEF at, Named, Under
      <3> QED BY <2>1
    <2> HIDE DEF Named, Under
    <2> QED BY <2>2
  <1>8. w = CHOOSE g : Is(g)
    BY DEF Levels
  <1>9. Is(w)
    <2> HIDE DEF Is, at, w
    <2> QED BY <1>7, <1>8, Zenon
  <1>10. Lookup(path, root, below) = w[Len(path)]
    BY DEF Lookup, Levels
  <1> HIDE DEF w
  <1>11. w[1] = Named(root, 1)
    <2>1. 1 \in 1 .. Len(path)
      OBVIOUS
    <2> QED BY <1>9, <2>1
  <1>12. ASSUME NEW i \in 2 .. Len(path)
         PROVE  w[i] = Named(Under(w[i - 1]), i)
    <2>1. i \in 1 .. Len(path) /\ i # 1
      OBVIOUS
    <2>2. w[i] = Named(IF i = 1 THEN root ELSE Under(w[i - 1]), i)
      BY <1>9, <2>1
    <2> QED BY <2>1, <2>2
  <1> DEFINE T == {k \in 0 .. N : w[k + 1] \subseteq Listed}
  <1>13. 0 \in T
    BY <1>1, <1>11
  <1>14. ASSUME NEW k \in 0 .. N, k # N, k \in T PROVE k + 1 \in T
    <2>1. PICK i \in 2 .. Len(path) : i = (k + 1) + 1 /\ i - 1 = k + 1
      BY <1>1, <1>14
    <2>2. w[i - 1] \subseteq Listed /\ k + 1 \in 0 .. N
      BY <1>14, <2>1
    <2>3. Under(w[i - 1]) \subseteq Listed
      BY <2>2
    <2>4. w[i] \subseteq Listed
      BY <1>12, <2>3
    <2> QED BY <2>1, <2>2, <2>4
  <1>15. \A k \in 0 .. N : k \in T
    <2> HIDE DEF T
    <2> QED BY <1>1, <1>13, <1>14, Upwards
  <1>16. \A i \in 1 .. Len(path) : w[i] \subseteq Listed
    <2> SUFFICES ASSUME NEW i \in 1 .. Len(path) PROVE w[i] \subseteq Listed
      OBVIOUS
    <2>1. i - 1 \in 0 .. N /\ (i - 1) + 1 = i
      BY <1>1
    <2>2. i - 1 \in T
      BY <1>15, <2>1
    <2> QED BY <2>1, <2>2
  <1>17. w = L
    BY DEF w
  <1>18. \A i \in 2 .. Len(path) :
           w[i] = {e \in UNION {below[d] : d \in w[i - 1]} : e.name = path[i]}
    BY <1>12
  <1>19. Leveled(path, root, below, w)
    BY <1>11, <1>16, <1>18 DEF Leveled
  <1> QED BY <1>10, <1>17, <1>19

(* The entries that the first i names of a path lead to                      *)
LEMMA LevelIs ==
  ASSUME NEW path \in Paths, NEW i \in 1 .. Len(path),
         NEW L, L = Levels(path, RootEntries, Contents)
  PROVE  /\ path \in Seq(STRING) /\ path # << >> /\ Len(path) \in Nat /\ 1 \in 1 .. Len(path)
         /\ Resolve(path) = L[Len(path)]
         /\ L[1] = {e \in RootEntries : e.name = path[1]}
         /\ i # 1 => L[i] = {e \in UNION {Contents[d] : d \in L[i - 1]} : e.name = path[i]}
         /\ L[i] \subseteq Listed
PROOF
  <1>1. path \in Seq(STRING) /\ path # << >>
    BY CallAssumption
  <1>2. PICK root : root = RootEntries /\ root \in SUBSET Listed
    BY DirectoriesListed
  <1>a. PICK below : below = Contents /\ below \in [Listed -> SUBSET Listed]
    BY DirectoriesListed
  <1>3. i # 1 => i \in 2 .. Len(path)
    BY <1>1
  <1>4. /\ Lookup(path, RootEntries, Contents) = L[Len(path)]
        /\ L[1] = {e \in RootEntries : e.name = path[1]}
        /\ \A j \in 2 .. Len(path) :
             L[j] = {e \in UNION {Contents[d] : d \in L[j - 1]} : e.name = path[j]}
        /\ \A j \in 1 .. Len(path) : L[j] \subseteq Listed
    <2>1. L = Levels(path, root, below) /\ Lookup(path, root, below) = Lookup(path, RootEntries, Contents)
      BY <1>2, <1>a
    <2>2. Lookup(path, root, below) = L[Len(path)] /\ Leveled(path, root, below, L)
      <3>1. path \in Seq(STRING) /\ path # << >>
        BY <1>1
      <3>2. root \in SUBSET Listed /\ below \in [Listed -> SUBSET Listed]
        BY <1>2, <1>a
      <3>3. L = Levels(path, root, below)
        BY <2>1
      <3> QED BY <3>1, <3>2, <3>3, LevelsAre
    <2>3. Leveled(path, RootEntries, Contents, L)
      BY <1>2, <1>a, <2>2
    <2> QED BY <2>1, <2>2, <2>3 DEF Leveled
  <1> QED BY <1>1, <1>3, <1>4 DEF Resolve

(* Once no entry is left, none will be found.                                *)
LEMMA EmptyBelow ==
  ASSUME NEW path \in Paths, NEW i \in 1 .. Len(path),
         Levels(path, RootEntries, Contents)[i] = {}
  PROVE  Resolve(path) = {}
PROOF
  <1>0. PICK L : L = Levels(path, RootEntries, Contents)
    OBVIOUS
  <1> DEFINE N == Len(path) - i
             T == {k \in 0 .. N : L[i + k] = {}}
  <1>1. path # << >> /\ N \in Nat /\ Len(path) \in Nat /\ i \in Nat
    BY LevelIs
  <1>2. 0 \in T
    BY <1>0, <1>1
  <1>3. ASSUME NEW k \in 0 .. N, k # N, k \in T PROVE k + 1 \in T
    <2>1. PICK j \in 1 .. Len(path) : j = i + (k + 1) /\ j # 1
      BY <1>1, <1>3
    <2>2. j - 1 = i + k /\ k + 1 \in 0 .. N
      BY <1>1, <1>3, <2>1
    <2>3. L[j - 1] = {}
      BY <1>3, <2>2
    <2>4. L[j] = {}
      BY <1>0, <2>1, <2>3, LevelIs
    <2> QED BY <2>1, <2>2, <2>4
  <1>4. N \in T
    <2>1. N \in 0 .. N
      BY <1>1
    <2>2. N \in Nat
      BY <1>1
    <2> HIDE DEF N, T
    <2> QED BY <1>2, <1>3, <2>1, <2>2, Upwards
  <1>5. i + N = Len(path)
    BY <1>1
  <1> QED BY <1>0, <1>4, <1>5, LevelIs

(* The first entry with a name, and the sectors without one                  *)
LEMMA FoundIs ==
  ASSUME NEW s, NEW name, NEW e \in Matches(s, name)
  PROVE  e.name = name /\ s \in DOMAIN Directory /\ \E k \in DOMAIN Directory[s] : e = Directory[s][k]
PROOF
  <1>1. PICK k \in DOMAIN Entries(s) : e = Entries(s)[k] /\ Entries(s)[k].name = name
    BY DEF Matches
  <1>2. s \in DOMAIN Directory /\ Entries(s) = Directory[s]
    <2>1. s \notin DOMAIN Directory => Entries(s) = << >>
      BY DEF Entries
    <2>2. DOMAIN << >> = {}
      OBVIOUS
    <2> QED BY <1>1, <2>1, <2>2 DEF Entries
  <1> QED BY <1>1, <1>2

LEMMA NotFound ==
  ASSUME NEW s, NEW name, Matches(s, name) = {}
  PROVE  Absent(s, name)
PROOF
  <1>1. Entries(s) \in Seq(Listed)
    BY DiskAssumption DEF Entries
  <1>2. PICK N \in Nat : N = Len(Entries(s)) /\ DOMAIN Entries(s) = 1 .. N
    BY <1>1
  <1> DEFINE S == {k \in 1 .. N : Entries(s)[k].name = name}
  <1>3. SUFFICES ASSUME S # {} PROVE FALSE
    BY <1>2 DEF Absent
  <1>4. S \subseteq Nat
    OBVIOUS
  <1>5. PICK m \in S : \A k \in S : m <= k
    <2> HIDE DEF S
    <2> QED BY <1>3, <1>4, LeastOf
  <1>6. ASSUME NEW j \in 1 .. m - 1 PROVE Entries(s)[j].name # name
    <2>1. j \in 1 .. N /\ ~(m <= j)
      BY <1>5
    <2> QED BY <1>5, <2>1
  <1>7. Entries(s)[m] \in Matches(s, name)
    BY <1>2, <1>5, <1>6 DEF Matches
  <1> QED BY <1>7

(* The chain of a directory comes to each of its clusters within as many     *)
(* steps as there are clusters.                                              *)
LEMMA SameChain ==
  ASSUME NEW c, NEW i \in Nat, NEW j \in Nat, NEW d \in Nat, Nth(c, i) = Nth(c, j)
  PROVE  Nth(c, i + d) = Nth(c, j + d)
PROOF
  <1> DEFINE T == {k \in 0 .. d : Nth(c, i + k) = Nth(c, j + k)}
  <1>1. 0 \in T
    OBVIOUS
  <1>2. ASSUME NEW k \in 0 .. d, k # d, k \in T PROVE k + 1 \in T
    <2>1. PICK x \in Nat : x = i + k /\ i + (k + 1) = x + 1
      OBVIOUS
    <2>2. PICK y \in Nat : y = j + k /\ j + (k + 1) = y + 1
      OBVIOUS
    <2>3. Nth(c, x) = Nth(c, y)
      BY <1>2, <2>1, <2>2
    <2>4. Nth(c, x + 1) = Fat[Nth(c, x)] /\ Nth(c, y + 1) = Fat[Nth(c, y)]
      BY <2>1, <2>2, NthIs
    <2>5. Nth(c, i + (k + 1)) = Nth(c, j + (k + 1))
      BY <2>1, <2>2, <2>3, <2>4
    <2>6. k + 1 \in 0 .. d
      BY <1>2
    <2> QED BY <2>5, <2>6
  <1>3. d \in T
    <2>1. d \in 0 .. d
      OBVIOUS
    <2> HIDE DEF T
    <2> QED BY <1>1, <1>2, <2>1, Upwards
  <1> QED BY <1>3

LEMMA ShortChain ==
  ASSUME NEW c, NEW n \in Nat, \A i \in 0 .. n : Nth(c, i) \in InUse
  PROVE  \E m \in 0 .. Cardinality(Cluster) :
           /\ \A i \in 0 .. m : Nth(c, i) \in InUse
           /\ Nth(c, m) = Nth(c, n)
PROOF
  <1> DEFINE S == {m \in 0 .. n : Nth(c, m) = Nth(c, n)}
  <1>1. n \in S /\ S \subseteq Nat
    OBVIOUS
  <1>2. PICK m \in S : \A k \in S : m <= k
    <2> HIDE DEF S
    <2> QED BY <1>1, LeastOf
  <1>3. m \in 0 .. n /\ Nth(c, m) = Nth(c, n)
    BY <1>2
  <1>4. ASSUME NEW i \in 0 .. m, NEW j \in 0 .. m, i < j, Nth(c, i) = Nth(c, j)
        PROVE  FALSE
    <2>1. PICK d \in Nat : j + d = m /\ i + d \in 0 .. n /\ i + d < m
      <3>1. m - j \in Nat /\ j + (m - j) = m /\ i + (m - j) \in 0 .. n /\ i + (m - j) < m
        BY <1>3, <1>4
      <3> QED BY <3>1
    <2>2. Nth(c, i + d) = Nth(c, m)
      <3>1. i \in Nat /\ j \in Nat /\ d \in Nat /\ Nth(c, i) = Nth(c, j)
        BY <1>3, <1>4, <2>1
      <3>2. Nth(c, i + d) = Nth(c, j + d)
        BY <3>1, SameChain, ZenonT(60)
      <3> QED BY <2>1, <3>2
    <2>3. i + d \in S
      BY <1>3, <2>1, <2>2
    <2>4. m <= i + d
      BY <1>2, <2>3
    <2> QED BY <1>3, <2>1, <2>4
  <1> DEFINE f == [i \in 0 .. m |-> Nth(c, i)]
  <1>5. \A i \in 0 .. m : Nth(c, i) \in InUse /\ Nth(c, i) \in Cluster
    BY <1>3, InUseIs
  <1>6. f \in Injection(0 .. m, Cluster)
    <2>1. f \in [0 .. m -> Cluster]
      BY <1>5
    <2>2. \A i, j \in 0 .. m : f[i] = f[j] => i = j
      <3>1. ASSUME NEW i \in 0 .. m, NEW j \in 0 .. m, f[i] = f[j] PROVE i = j
        <4>1. Nth(c, i) = Nth(c, j)
          BY <3>1
        <4>2. ~(i < j) /\ ~(j < i)
          BY <1>4, <4>1
        <4> QED BY <1>3, <4>2
      <3> QED BY <3>1
    <2> QED BY <2>1, <2>2, Zenon DEF Injection, IsInjective
  <1>7. IsFiniteSet(Cluster)
    <2>1. Cluster \subseteq 0 .. RESERVED - 1 /\ RESERVED \in Nat
      BY DiskAssumption
    <2>2. IsFiniteSet(0 .. RESERVED - 1)
      BY <2>1, FS_Interval
    <2> QED BY <2>1, <2>2, FS_Subset
  <1>8. Cardinality(0 .. m) <= Cardinality(Cluster)
    BY <1>6, <1>7, FS_Injection
  <1>9. Cardinality(0 .. m) = m + 1
    BY <1>3, FS_Interval
  <1>10. Cardinality(Cluster) \in Nat
    BY <1>7, FS_CardinalityType
  <1> QED BY <1>3, <1>5, <1>8, <1>9, <1>10

-----------------------------------------------------------------------------
(* The sectors of a chain by their offsets: cluster n of size z, sector i    *)
LEMMA Grid ==
  ASSUME NEW s \in Nat, s > 0, NEW q \in Nat, NEW z, z = q * s,
         NEW n \in Nat, NEW m \in Nat, NEW i \in 0 .. q - 1
  PROVE  /\ n * z \in Nat /\ i * s \in Nat /\ n * z + i * s \in Nat /\ n <= n * z + i * s
         /\ i * s + s <= z /\ (n * z + i * s) % s = 0
         /\ n < m => n * z + i * s + s <= m * z
PROOF
  <1>1. z \in Nat /\ z = s * q /\ i \in Nat /\ i < q /\ q > 0
    OBVIOUS
  <1>2. PICK a \in Nat : a = i * s /\ a = s * i /\ a % s = 0
    <2>1. s * i \in Nat /\ (s * i) % s = 0
      BY <1>1, MultipleOf
    <2>2. s * i = i * s
      BY <1>1
    <2> QED BY <2>1, <2>2
  <1>4. a + s <= z
    BY <1>1, <1>2, MultiplesOrder
  <1>5. z > 0
    BY <1>4, <1>1
  <1>6. PICK x \in Nat : x = n * z /\ x = z * n /\ x % s = 0 /\ n <= x
    <2>1. PICK k \in Nat : k = n * q
      OBVIOUS
    <2>2. s * k \in Nat /\ (s * k) % s = 0
      BY <2>1, MultipleOf
    <2>3. n * z = s * k /\ z * n = n * z
      BY <1>1, <2>1
    <2>4. n <= n * z
      BY <1>1, <1>5
    <2> QED BY <2>2, <2>3, <2>4
  <1>7. PICK y \in Nat : y = m * z /\ y = z * m
    <2>1. m * z \in Nat /\ m * z = z * m
      BY <1>1
    <2> QED BY <2>1
  <1>8. (x + a) % s = 0
    BY <1>2, <1>6, Sum
  <1>9. n < m => x + z <= y
    BY <1>1, <1>5, <1>6, <1>7, MultiplesOrder
  <1>12. n < m => x + a + s <= y
    BY <1>1, <1>4, <1>9
  <1> QED BY <1>2, <1>4, <1>6, <1>7, <1>8, <1>12

(* One point of the grid, and two that are the same                          *)
LEMMA GridPoint ==
  ASSUME NEW s \in Nat, s > 0, NEW q \in Nat, NEW z, z = q * s,
         NEW n \in Nat, NEW i \in 0 .. q - 1, NEW x, x = n * z + i * s
  PROVE  x \in Nat /\ n <= x /\ x % s = 0
BY Grid

LEMMA GridPointsDiffer ==
  ASSUME NEW s \in Nat, s > 0, NEW q \in Nat, NEW z, z = q * s,
         NEW n \in Nat, NEW i \in 0 .. q - 1, NEW x, x = n * z + i * s,
         NEW m \in Nat, NEW j \in 0 .. q - 1, x = m * z + j * s
  PROVE  n = m /\ i = j
PROOF
  <1>1. n * z \in Nat /\ i * s \in Nat /\ m * z \in Nat /\ j * s \in Nat
    BY Grid
  <1>2. n < m => n * z + i * s + s <= m * z
    BY Grid
  <1>3. m < n => m * z + j * s + s <= n * z
    BY Grid
  <1>4. n = m
    <2>1. PICK a \in Nat, b \in Nat, c \in Nat, d \in Nat :
            a = n * z /\ b = i * s /\ c = m * z /\ d = j * s
      BY <1>1
    <2>2. (n < m => a + b + s <= c) /\ (m < n => c + d + s <= a) /\ a + b = c + d
      BY <1>2, <1>3, <2>1
    <2> QED BY <2>1, <2>2
  <1>5. i * s = j * s
    <2>1. PICK a \in Nat : a = n * z /\ a = m * z
      BY <1>1, <1>4
    <2>2. PICK b \in Nat, d \in Nat : b = i * s /\ d = j * s
      BY <1>1
    <2>3. a + b = a + d
      BY <2>1, <2>2
    <2> QED BY <2>1, <2>2, <2>3
  <1>6. i \in Nat /\ j \in Nat /\ i * s = s * i /\ j * s = s * j
    OBVIOUS
  <1>7. ~(i < j) /\ ~(j < i)
    <2>1. PICK b \in Nat : b = s * i /\ b = s * j
      BY <1>5, <1>6
    <2>2. (i < j => b + s <= b) /\ (j < i => b + s <= b)
      BY <1>6, <2>1, MultiplesOrder
    <2> QED BY <2>1, <2>2
  <1> QED BY <1>4, <1>6, <1>7

(* A cluster has at least one sector.                                        *)
LEMMA SectorCount ==
  ASSUME Mounted
  PROVE  /\ SECT_SIZE \in Nat /\ SECT_SIZE > 0 /\ bpb.sec_per_clus \in Nat /\ bpb.sec_per_clus > 0
         /\ clus_size = bpb.sec_per_clus * SECT_SIZE
BY Geometry, Sizes DEF clus_size

(* The sector of a directory that is read is one of it: sector i of cluster  *)
(* n, at the offset index.                                                   *)
LEMMA DirPlace ==
  ASSUME IInv, pc = "dir", Trusted
  PROVE  /\ Place \in DOMAIN Directory => Place \in Sectors(entry)
         /\ index \in Nat /\ index % SECT_SIZE = 0
         /\ \E n \in Nat, i \in 0 .. bpb.sec_per_clus - 1 :
              n * clus_size + i * SECT_SIZE = index /\ Place = clus2lba(Nth(entry.clus, n)) + i
PROOF
  <1>1. Mounted /\ request.op = "open" /\ entry \in Listed /\ off \in Nat /\ off % SECT_SIZE = 0
    BY CallIs, WalkIs DEF Walking
  <1>2. index \in Nat /\ index % SECT_SIZE = 0 /\ Covered(entry, index) /\ Reached(entry, index)
    BY <1>1, WalkIs DEF Walking, Target
  <1>3. off < clus_size /\ Legal(cur)
    BY WalkIs DEF Walking
  <1>4. PICK n \in Nat : /\ n * clus_size \in Nat /\ n * clus_size + off = index
                         /\ n * clus_size <= index /\ n \in 0 .. index
                         /\ cur = Nth(entry.clus, n)
    BY <1>1, <1>2, ReachedIs
  <1>5. PICK z \in Nat : z = clus_size /\ z > 0
    BY <1>1, Geometry
  <1>6. \A k \in 0 .. n : Nth(entry.clus, k) \in InUse
    <2>1. cur \in InUse
      <3>1. cur \in Nat /\ (cur \in InUse \/ cur \in {0, 1} \/ cur >= RESERVED)
        BY <1>1, <1>2, <1>4, NthReached
      <3> QED BY <1>3, <3>1, LegalIs
    <2>2. ASSUME NEW k \in 0 .. n, k # n PROVE Nth(entry.clus, k) \in InUse
      <3>1. k < n /\ k \in Nat
        BY <2>2
      <3>2. z * k + z <= z * n
        BY <1>5, <3>1, MultiplesOrder
      <3>3. PICK y \in Nat : y = k * clus_size /\ y = z * k
        BY <1>5, <3>1
      <3>4. PICK x \in Nat : x = n * clus_size /\ x = z * n
        BY <1>4, <1>5
      <3>5. y < index
        BY <1>1, <1>2, <1>4, <1>5, <3>2, <3>3, <3>4
      <3>6. k \in 0 .. index
        BY <1>2, <1>4, <2>2
      <3> QED BY <1>2, <3>3, <3>5, <3>6 DEF Covered
    <2> QED BY <1>4, <2>1, <2>2
  <1>7. PICK q \in Nat : q = bpb.sec_per_clus /\ q > 0 /\ z = q * SECT_SIZE
    BY <1>1, <1>5, SectorCount
  <1>8. PICK i \in 0 .. q - 1 : i = off \div SECT_SIZE /\ off = i * SECT_SIZE
    <2>1. PICK i \in Nat : i = off \div SECT_SIZE /\ off = SECT_SIZE * i
      BY <1>1, Sizes, MultipleIs
    <2>2. z = SECT_SIZE * q /\ i * SECT_SIZE = SECT_SIZE * i
      BY <1>7, <2>1, Sizes
    <2>3. SECT_SIZE * i < SECT_SIZE * q
      BY <1>3, <1>5, <2>1, <2>2
    <2>4. i < q
      BY <1>7, <2>1, <2>3, Sizes, MultiplesOrder
    <2> QED BY <1>7, <2>1, <2>2, <2>4
  <1>9. Place = clus2lba(cur) + i
    BY <1>8 DEF Place
  <1>10. PICK m \in 0 .. Cardinality(Cluster) :
           /\ \A k \in 0 .. m : Nth(entry.clus, k) \in InUse
           /\ Nth(entry.clus, m) = cur
    BY <1>4, <1>6, ShortChain
  <1>11. clus2lba(cur) \in Nat
    <2>1. cur \in Nat
      BY WalkIs DEF Walking
    <2> QED BY <1>1, <1>3, <2>1, PlaceIs
  <1>12. Place \in clus2lba(cur) .. clus2lba(cur) + bpb.sec_per_clus - 1
    <2>1. PICK b \in Nat : b = clus2lba(cur)
      BY <1>11
    <2>2. b + i \in b .. b + q - 1
      BY <1>7, <1>8
    <2> QED BY <1>7, <1>9, <2>1, <2>2
  <1>13. Place \in DOMAIN Directory => Place \in Sectors(entry)
    <2>1. \A k \in 0 .. m : Nth(entry.clus, k) \in Cluster \ {0, 1}
      BY <1>10 DEF InUse
    <2> QED BY <1>10, <1>12, <2>1 DEF Sectors
  <1> QED BY <1>2, <1>4, <1>7, <1>8, <1>9, <1>13

(* A sector without the name adds to those that do not have it.              *)
LEMMA NotHere ==
  ASSUME IInv, pc = "dir", Trusted, NEW name,
         NoneBefore(entry, index, name), Absent(Place, name)
  PROVE  NoneBefore(entry, index + SECT_SIZE, name)
PROOF
  <1>1. Mounted
    BY CallIs DEF Walking
  <1>2. PICK s \in Nat : s = SECT_SIZE /\ s > 0
    BY Sizes
  <1>3. PICK q \in Nat : q = bpb.sec_per_clus /\ q > 0
    BY <1>1, SectorCount
  <1>4. PICK z : z = clus_size /\ z = q * s
    BY <1>1, <1>2, <1>3, SectorCount
  <1>5. PICK t \in Nat : t = index /\ t % s = 0
    BY <1>2, DirPlace
  <1>6. PICK n \in Nat, i \in 0 .. q - 1 : n * z + i * s = t /\ Place = clus2lba(Nth(entry.clus, n)) + i
    BY <1>2, <1>3, <1>4, <1>5, DirPlace
  <1> SUFFICES ASSUME NEW m \in 0 .. t + s, NEW j \in 0 .. q - 1, m * z + j * s < t + s
               PROVE  Absent(clus2lba(Nth(entry.clus, m)) + j, name)
    BY <1>2, <1>3, <1>4, <1>5 DEF NoneBefore
  <1>7. PICK x \in Nat : x = m * z + j * s /\ x % s = 0 /\ m <= x
    <2>1. m \in Nat
      BY <1>5
    <2>2. PICK x : x = m * z + j * s
      OBVIOUS
    <2>3. x \in Nat /\ m <= x /\ x % s = 0
      <3>1. s \in Nat /\ s > 0 /\ q \in Nat /\ z = q * s /\ m \in Nat /\ j \in 0 .. q - 1
        BY <1>2, <1>3, <1>4, <2>1
      <3> QED BY <2>2, <3>1, GridPoint, ZenonT(60)
    <2> QED BY <2>2, <2>3
  <1>8. CASE x < t
    <2>1. m \in 0 .. t
      BY <1>7, <1>8
    <2> QED BY <1>2, <1>3, <1>4, <1>5, <1>7, <1>8, <2>1 DEF NoneBefore
  <1>9. CASE ~(x < t)
    <2>1. ~(t < x)
      <3>1. t < x => t + s <= x
        BY <1>2, <1>5, <1>7, Multiples
      <3> QED BY <1>2, <1>5, <1>7, <3>1
    <2>2. m * z + j * s = n * z + i * s
      BY <1>5, <1>6, <1>7, <1>9, <2>1
    <2>3. m = n /\ j = i
      <3>1. m \in Nat
        BY <1>5
      <3> QED BY <1>2, <1>3, <1>4, <1>5, <1>6, <1>7, <2>2, <3>1, GridPointsDiffer
    <2> QED BY <1>6, <2>3
  <1> QED BY <1>8, <1>9

(* When the chain ends no sector is left.                                    *)
LEMMA AllBefore ==
  ASSUME IInv, pc = "walk", off < clus_size, ~Legal(cur), request.op = "open", Trusted,
         NEW name, NoneBefore(entry, index, name), NEW s \in Sectors(entry)
  PROVE  Absent(s, name)
PROOF
  <1>1. Mounted /\ entry \in Listed /\ off \in Nat
    BY CallIs, WalkIs DEF Walking
  <1>2. index \in Nat /\ Reached(entry, index)
    BY <1>1, WalkIs DEF Walking, Target
  <1>3. PICK n \in Nat : /\ n * clus_size \in Nat /\ n * clus_size <= index /\ n \in 0 .. index
                         /\ cur = Nth(entry.clus, n)
    BY <1>1, <1>2, ReachedIs
  <1>4. PICK m \in 0 .. Cardinality(Cluster) :
          /\ \A k \in 0 .. m : Nth(entry.clus, k) \in Cluster \ {0, 1}
          /\ s \in clus2lba(Nth(entry.clus, m)) .. clus2lba(Nth(entry.clus, m)) + bpb.sec_per_clus - 1
    BY DEF Sectors
  <1>5. m \in Nat
    <2>1. m \in 0 .. Cardinality(Cluster)
      BY <1>4
    <2> QED BY <2>1
  <1>6. cur \notin InUse
    BY InUseIs
  <1>7. m < n
    <2>1. ~(n \in 0 .. m)
      BY <1>3, <1>4, <1>6 DEF InUse
    <2> QED BY <1>3, <1>5, <2>1
  <1>8. PICK q \in Nat : q = bpb.sec_per_clus /\ q > 0
    BY <1>1, SectorCount
  <1>9. PICK i \in 0 .. q - 1 : s = clus2lba(Nth(entry.clus, m)) + i
    <2>1. clus2lba(Nth(entry.clus, m)) \in Nat
      <3>1. m \in 0 .. m
        BY <1>5
      <3>2. Nth(entry.clus, m) \in InUse
        BY <1>4, <3>1 DEF InUse
      <3>3. Nth(entry.clus, m) \in Nat /\ Legal(Nth(entry.clus, m))
        BY <3>2, InUseIs
      <3> QED BY <1>1, <3>3, PlaceIs
    <2>2. PICK b \in Nat : b = clus2lba(Nth(entry.clus, m))
      BY <2>1
    <2>3. s \in b .. b + q - 1
      BY <1>4, <1>8, <2>2
    <2>4. s - b \in 0 .. q - 1 /\ s = b + (s - b)
      BY <2>3
    <2> QED BY <2>2, <2>4
  <1>10. PICK u \in Nat : u = SECT_SIZE /\ u > 0
    BY Sizes
  <1>11. PICK z : z = clus_size /\ z = q * u
    BY <1>1, <1>8, <1>10, SectorCount
  <1>12. m * z + i * u < index
    <2>1. m * z + i * u \in Nat /\ m * z + i * u + u <= n * z
      BY <1>3, <1>5, <1>7, <1>8, <1>10, <1>11, Grid
    <2>2. PICK y \in Nat : y = n * z /\ y <= index
      BY <1>3, <1>11
    <2>3. PICK x \in Nat : x = m * z + i * u /\ x + u <= y
      BY <2>1, <2>2
    <2> QED BY <1>2, <1>10, <2>2, <2>3
  <1>13. m \in 0 .. index
    BY <1>2, <1>3, <1>5, <1>7
  <1> QED BY <1>8, <1>9, <1>10, <1>11, <1>12, <1>13 DEF NoneBefore

-----------------------------------------------------------------------------
(* The tree of entries: where a name leads to, and where to nothing          *)
LEMMA LeadsOne ==
  ASSUME NEW E, E = RootEntries \/ \E d \in Listed : E = Contents[d],
         NEW e \in E, NEW level, level = {x \in E : x.name = e.name}
  PROVE  Leads(e, level)
PROOF
  <1>1. e \in level
    OBVIOUS
  <1>2. ASSUME UniqueNames PROVE level = {e}
    <2>1. E \in {RootEntries} \cup {Contents[d] : d \in Listed}
      OBVIOUS
    <2>2. \A d, f \in E : d.name = f.name => d = f
      BY <1>2, <2>1 DEF UniqueNames
    <2> QED BY <1>1, <2>2
  <1> QED BY <1>1, <1>2 DEF Leads

(* If d is where the names before lead to, its entry e with the next name is  *)
(* where that one leads to.                                                  *)
LEMMA LeadsNext ==
  ASSUME NEW path \in Paths, NEW i \in 1 .. Len(path), i # 1,
         NEW L, L = Levels(path, RootEntries, Contents),
         NEW d, Leads(d, L[i - 1]), NEW e \in Contents[d], e.name = path[i]
  PROVE  Leads(e, L[i])
PROOF
  <1>1. L[i] = {x \in UNION {Contents[f] : f \in L[i - 1]} : x.name = path[i]}
    BY LevelIs
  <1>2. d \in L[i - 1] /\ (UniqueNames => L[i - 1] = {d})
    BY DEF Leads
  <1>3. d \in Listed
    <2>1. i - 1 \in 1 .. Len(path)
      BY LevelIs
    <2>2. L[i - 1] \subseteq Listed
      BY <2>1, LevelIs
    <2> QED BY <1>2, <2>2
  <1>4. e \in L[i]
    BY <1>1, <1>2
  <1>5. ASSUME UniqueNames PROVE L[i] = {e}
    <2>1. L[i] = {x \in Contents[d] : x.name = e.name}
      BY <1>1, <1>2, <1>5
    <2>2. Leads(e, {x \in Contents[d] : x.name = e.name})
      BY <1>3, LeadsOne
    <2> QED BY <1>5, <2>1, <2>2 DEF Leads
  <1> QED BY <1>4, <1>5 DEF Leads

(* An entry of a sector of a directory is among its contents.                *)
LEMMA InDirectory ==
  ASSUME NEW d \in Listed, d.dir, NEW s, NEW name, NEW e \in Matches(s, name),
         s \in DOMAIN Directory => s \in Sectors(d)
  PROVE  e \in Contents[d] /\ e.name = name
PROOF
  <1>1. /\ e.name = name /\ s \in DOMAIN Directory
        /\ \E k \in DOMAIN Directory[s] : e = Directory[s][k]
    BY FoundIs
  <1>2. s \in Sectors(d)
    BY <1>1
  <1>3. Contents[d] = UNION {{Directory[t][k] : k \in DOMAIN Directory[t]} : t \in Sectors(d)}
    BY DEF Contents
  <1> QED BY <1>1, <1>2, <1>3

(* If no sector of d has the next name, or d is a file, the path names nothing. *)
LEMMA NothingNext ==
  ASSUME NEW path \in Paths, NEW i \in 1 .. Len(path), i # 1,
         NEW L, L = Levels(path, RootEntries, Contents),
         NEW d, Leads(d, L[i - 1]), UniqueNames,
         d.dir => \A s \in Sectors(d) : Absent(s, path[i])
  PROVE  Resolve(path) = {}
PROOF
  <1>1. L[i] = {x \in UNION {Contents[f] : f \in L[i - 1]} : x.name = path[i]}
    BY LevelIs
  <1>2. L[i - 1] = {d}
    BY DEF Leads
  <1>3. d \in Listed
    <2>1. i - 1 \in 1 .. Len(path)
      BY LevelIs
    <2>2. L[i - 1] \subseteq Listed
      BY <2>1, LevelIs
    <2> QED BY <1>2, <2>2
  <1>4. ASSUME NEW e \in Contents[d], e.name = path[i] PROVE FALSE
    <2>1. d.dir /\ e \in UNION {{Directory[s][k] : k \in DOMAIN Directory[s]} : s \in Sectors(d)}
      BY <1>3, <1>4 DEF Contents
    <2>2. PICK s \in Sectors(d) : \E k \in DOMAIN Directory[s] : e = Directory[s][k]
      BY <2>1
    <2>3. Entries(s) = Directory[s]
      BY <2>2 DEF Entries, Sectors
    <2>4. Absent(s, path[i])
      BY <2>1
    <2> QED BY <1>4, <2>2, <2>3, <2>4 DEF Absent
  <1>5. L[i] = {}
    BY <1>1, <1>2, <1>4
  <1> QED BY <1>5, EmptyBelow

(* The root                                                                  *)
LEMMA RootArea ==
  ASSUME Mounted
  PROVE  /\ root_start_lba \in Nat /\ root_num_sectors \in Nat /\ root_num_sectors > 0
         /\ data_start_lba = root_start_lba + root_num_sectors
PROOF
  <1>1. bpb.root_ent_cnt \in Nat /\ bpb.root_ent_cnt > 0
    BY DiskAssumption DEF Mounted, Parameters
  <1>2. PICK a \in Nat : a = bpb.root_ent_cnt * ENTRY_SIZE /\ a > 0
    BY <1>1, Sizes
  <1>3. PICK s \in Nat : s = SECT_SIZE /\ s > 0
    BY Sizes
  <1>4. PICK b \in Nat : b = a + s - 1 /\ b >= s
    <2>1. a + s - 1 \in Nat /\ a + s - 1 >= s
      BY <1>2, <1>3
    <2> QED BY <2>1
  <1>5. b \div s \in Nat /\ b % s \in 0 .. s - 1 /\ b = s * (b \div s) + (b % s)
    BY <1>3, <1>4, DivMod
  <1>6. b \div s # 0
    BY <1>3, <1>4, <1>5
  <1>7. root_num_sectors = b \div s
    BY <1>2, <1>3, <1>4 DEF root_num_sectors
  <1> QED BY <1>5, <1>6, <1>7, Geometry DEF data_start_lba

(* An entry of a sector of the root is where the first name leads to.        *)
LEMMA LeadsRoot ==
  ASSUME Mounted, NEW path \in Paths, NEW L, L = Levels(path, RootEntries, Contents),
         NEW j \in Nat, j < root_num_sectors, NEW e \in Matches(root_start_lba + j, path[1])
  PROVE  Leads(e, L[1])
PROOF
  <1>1. /\ e.name = path[1] /\ root_start_lba + j \in DOMAIN Directory
        /\ \E k \in DOMAIN Directory[root_start_lba + j] : e = Directory[root_start_lba + j][k]
    BY FoundIs
  <1>2. root_start_lba + j \in root_start_lba .. data_start_lba - 1
    <2>1. PICK a \in Nat, n \in Nat : a = root_start_lba /\ n = root_num_sectors /\ data_start_lba = a + n
      BY RootArea
    <2>2. a + j \in a .. a + n - 1
      BY <2>1
    <2> QED BY <2>1, <2>2
  <1>3. e \in RootEntries
    BY <1>1, <1>2 DEF RootEntries
  <1>4. 1 \in 1 .. Len(path)
    BY CallAssumption
  <1>5. L[1] = {x \in RootEntries : x.name = e.name}
    BY <1>1, <1>4, LevelIs
  <1> QED BY <1>3, <1>5, LeadsOne

(* A path whose first name no sector of the root has names nothing.          *)
LEMMA NothingInRoot ==
  ASSUME Mounted, NEW path \in Paths,
         \A j \in 0 .. root_num_sectors - 1 : Absent(root_start_lba + j, path[1])
  PROVE  Resolve(path) = {}
PROOF
  <1>0. PICK L : L = Levels(path, RootEntries, Contents)
    OBVIOUS
  <1>1. 1 \in 1 .. Len(path)
    BY CallAssumption
  <1>2. L[1] = {x \in RootEntries : x.name = path[1]}
    BY <1>0, <1>1, LevelIs
  <1>3. ASSUME NEW e \in RootEntries, e.name = path[1] PROVE FALSE
    <2>1. PICK s \in DOMAIN Directory \cap (root_start_lba .. data_start_lba - 1) :
            \E k \in DOMAIN Directory[s] : e = Directory[s][k]
      BY DEF RootEntries
    <2>2. PICK a \in Nat, n \in Nat : a = root_start_lba /\ n = root_num_sectors /\ data_start_lba = a + n
      BY RootArea
    <2>3. PICK j \in 0 .. n - 1 : s = a + j
      <3>1. s \in a .. a + n - 1
        BY <2>1, <2>2
      <3>2. s - a \in 0 .. n - 1 /\ s = a + (s - a)
        BY <2>2, <3>1
      <3> QED BY <3>2
    <2>4. Absent(s, path[1])
      BY <2>2, <2>3
    <2>5. Entries(s) = Directory[s]
      BY <2>1 DEF Entries
    <2> QED BY <1>3, <2>1, <2>4, <2>5 DEF Absent
  <1>4. L[1] = {}
    BY <1>2, <1>3
  <1> QED BY <1>0, <1>1, <1>4, EmptyBelow

-----------------------------------------------------------------------------
(* What the steps have in common: the call returns, goes on, or reads        *)
LEMMA ChosenSame == Chosen /\ UNCHANGED fat => Chosen'
BY DEF Chosen, fat

(* A call returns: what OpenRight asks of its answer is the rest of OInv.    *)
LEMMA Answers ==
  ASSUME Mounted, Chosen, UNCHANGED fat, pc' = "idle", NEW path,
         request'.op = "open" => request'.path = path,
         request'.op = "open" /\ Trusted' =>
           IF result' = 0 THEN file' \in Resolve(path) ELSE UniqueNames => Resolve(path) = {}
  PROVE  OInv'
PROOF
  <1>1. part' = part /\ bpb' = bpb
    BY DEF fat
  <1>2. (UniqueNames' <=> UniqueNames) /\ \A p : Resolve(p)' = Resolve(p)
    BY <1>1, SameVolume
  <1>3. Chosen'
    BY ChosenSame
  <1>4. request'.op = "open" => Resolve(request.path)' = Resolve(path)
    BY <1>2
  <1>5. OpenRight'
    BY <1>1, <1>2, <1>3, <1>4 DEF OpenRight, Chosen, Mounted
  <1>6. Search'
    BY DEF Search, Walking
  <1> QED BY <1>3, <1>5, <1>6 DEF OInv

(* OInv says nothing of the search while a file is read.                     *)
LEMMA OnlyReads ==
  ASSUME Mounted, Chosen, UNCHANGED fat, pc' \in Walking \cup {"idle"}, request'.op = "read"
  PROVE  OInv'
PROOF
  <1>1. Chosen' /\ part' = part /\ bpb' = bpb
    BY ChosenSame DEF fat
  <1>2. Search'
    BY DEF Search
  <1>3. OpenRight'
    BY <1>1 DEF OpenRight, Chosen, Mounted
  <1> QED BY <1>1, <1>2, <1>3 DEF OInv

(* The search goes on in the directory e, from the offset t.                 *)
LEMMA GoesOn ==
  ASSUME Chosen, UNCHANGED fat, pc' \in Walking,
         NEW path \in Paths, request'.path = path, NEW i \in 1 .. Len(path), i # 1,
         NEW L, L = Levels(path, RootEntries, Contents),
         NEW ns \in Seq(STRING), names' = ns, Rest(ns, path, i),
         NEW e, entry' = e, e.dir, NEW t, index' = t,
         Trusted' => Leads(e, L[i - 1]) /\ NoneBefore(e, t, ns[1])
  PROVE  OInv'
PROOF
  <1>1. part' = part /\ bpb' = bpb /\ Chosen'
    BY ChosenSame DEF fat
  <1>2. /\ (UniqueNames' <=> UniqueNames) /\ RootEntries' = RootEntries /\ Contents' = Contents
        /\ \A d, u, name : NoneBefore(d, u, name)' <=> NoneBefore(d, u, name)
    BY <1>1, SameVolume
  <1>3. Level(i - 1)' = L[i - 1]
    BY <1>2 DEF Level
  <1>4. Trusted' => Leads(entry, Level(i - 1))' /\ NoneBefore(entry, index, names[1])'
    BY <1>2, <1>3 DEF Leads
  <1>5. SearchDir(i)'
    <2>1. i > 1
      BY LevelIs
    <2> QED BY <1>4, <2>1 DEF SearchDir
  <1>6. Search'
    <2>1. Rest(names, request.path, i)' /\ i \in 1 .. Len(request'.path)
      BY DEF Rest
    <2>2. pc' # "root"
      BY DEF Walking
    <2> QED BY <1>5, <2>1, <2>2 DEF Search
  <1>7. OpenRight'
    BY DEF OpenRight, Walking
  <1> QED BY <1>1, <1>6, <1>7 DEF OInv

-----------------------------------------------------------------------------
(* How far the search of a call has come                                     *)
LEMMA SearchIs ==
  ASSUME OInv, pc \in {"root"} \cup Walking, request.op = "open"
  PROVE  /\ Chosen
         /\ \E path \in Paths : path = request.path /\ \E i \in 1 .. Len(path) :
              /\ names \in Seq(STRING) /\ Rest(names, path, i)
              /\ Len(names) > 0 /\ Head(names) = path[i] /\ names[1] = path[i]
              /\ Tail(names) \in Seq(STRING)
              /\ Tail(names) = << >> => i = Len(path)
              /\ Tail(names) # << >> => i + 1 \in 1 .. Len(path) /\ Rest(Tail(names), path, i + 1)
              /\ pc = "root" => i = 1 /\ SearchRoot
              /\ pc # "root" => i # 1 /\ SearchDir(i)
PROOF
  <1>1. PICK path : path \in Paths /\ path = request.path
    BY DEF OInv, Search
  <1>2. PICK i \in 1 .. Len(path) :
          /\ names \in Seq(STRING) /\ Rest(names, path, i)
          /\ IF pc = "root" THEN i = 1 /\ SearchRoot ELSE SearchDir(i)
    BY <1>1 DEF OInv, Search
  <1>3. /\ path \in Seq(STRING) /\ Len(path) \in Nat /\ i \in Nat
        /\ Len(names) = Len(path) - i + 1 /\ \A k \in 1 .. Len(names) : names[k] = path[i + k - 1]
    BY <1>1, <1>2, CallAssumption, SMTT(60) DEF Rest
  <1>4. PICK n \in Nat : n = Len(names) /\ n > 0 /\ n = Len(path) - i + 1
    <2>1. PICK l \in Nat : l = Len(path) /\ i \in 1 .. l
      BY <1>2, <1>3
    <2>2. l - i + 1 \in Nat /\ l - i + 1 > 0
      BY <2>1
    <2> QED BY <1>3, <2>1, <2>2
  <1>5. names[1] = path[i]
    <2>1. 1 \in 1 .. n /\ i + 1 - 1 = i
      BY <1>3, <1>4
    <2> QED BY <1>3, <1>4, <2>1
  <1>6. Head(names) = names[1]
    BY <1>2, <1>4
  <1>7. PICK ns : ns = Tail(names)
    OBVIOUS
  <1>8. ns \in Seq(STRING) /\ Len(ns) = n - 1 /\ \A k \in 1 .. n - 1 : ns[k] = names[k + 1]
    <2>1. names \in Seq(STRING) /\ names # << >> /\ n = Len(names)
      <3>1. Len(<< >>) = 0
        OBVIOUS
      <3>2. names = << >> => Len(names) = 0
        BY <3>1, Zenon
      <3>3. names # << >>
        BY <1>4, <3>2
      <3> QED BY <1>2, <1>4, <3>3
    <2>2. Tail(names) \in Seq(STRING) /\ Len(Tail(names)) = n - 1
      BY <2>1
    <2>3. \A k \in 1 .. n - 1 : Tail(names)[k] = names[k + 1]
      BY <2>1
    <2> QED BY <1>7, <2>2, <2>3
  <1>9. ns = << >> => i = Len(path)
    BY <1>2, <1>3, <1>4, <1>8
  <1>10. ASSUME ns # << >> PROVE i + 1 \in 1 .. Len(path) /\ Rest(ns, path, i + 1)
    <2>1. n - 1 > 0
      BY <1>4, <1>8, <1>10
    <2>2. i + 1 \in 1 .. Len(path) /\ Len(ns) = Len(path) - (i + 1) + 1
      BY <1>3, <1>4, <1>8, <2>1
    <2>3. ASSUME NEW k \in 1 .. Len(ns) PROVE ns[k] = path[(i + 1) + k - 1]
      <3>1. k \in 1 .. n - 1 /\ k + 1 \in 1 .. n
        BY <1>4, <1>8
      <3>2. i + (k + 1) - 1 = (i + 1) + k - 1
        BY <1>3, <3>1
      <3>3. ns[k] = names[k + 1] /\ names[k + 1] = path[i + (k + 1) - 1]
        BY <1>3, <1>4, <1>8, <3>1
      <3> QED BY <3>2, <3>3
    <2> QED BY <2>2, <2>3 DEF Rest
  <1>11. pc # "root" => i # 1
    BY <1>2 DEF SearchDir
  <1> QED BY <1>1, <1>2, <1>4, <1>5, <1>6, <1>7, <1>8, <1>9, <1>10, <1>11 DEF OInv, Walking

-----------------------------------------------------------------------------
(* The steps of fs_init, and those at rest                                   *)
LEMMA InitOInv == Init => OInv
BY DEF Init, OInv, Search, OpenRight, Walking

(* A step of the disk leaves the search alone.                               *)
LEMMA QuietOInv == OInv /\ UNCHANGED fs => OInv'
PROOF
  <1> SUFFICES ASSUME OInv, UNCHANGED fs PROVE OInv'
    OBVIOUS
  <1>1. /\ UNCHANGED <<table, part, bpb, pc, request, result, names, entry, index, file, mishap>>
        /\ Trusted' <=> Trusted
    BY DEF fs, fat, walk, Trusted
  <1>2. /\ (UniqueNames' <=> UniqueNames) /\ RootEntries' = RootEntries /\ Contents' = Contents
        /\ (\A p : Resolve(p)' = Resolve(p))
        /\ \A d, u, name : NoneBefore(d, u, name)' <=> NoneBefore(d, u, name)
    BY <1>1, SameVolume
  <1>3. root_num_sectors' = root_num_sectors /\ root_start_lba' = root_start_lba
    BY <1>1, GeometrySame
  <1>4. \A i : Level(i)' = Level(i)
    BY <1>1, <1>2 DEF Level
  <1>5. \A i : SearchDir(i) => SearchDir(i)'
    BY <1>1, <1>2, <1>4 DEF SearchDir, Leads
  <1>6. SearchRoot => SearchRoot'
    BY <1>1, <1>3 DEF SearchRoot, Absent, Entries
  <1>7. \A i : Rest(names, request.path, i) => Rest(names, request.path, i)'
    BY <1>1 DEF Rest
  <1>8. Search'
    BY <1>1, <1>5, <1>6, <1>7 DEF OInv, Search
  <1>9. OpenRight'
    BY <1>1, <1>2 DEF OInv, OpenRight
  <1> QED BY <1>1, <1>8, <1>9 DEF OInv, Chosen

(* fs_init                                                                   *)
LEMMA FsInitOInv == FsInit => OInv'
BY DEF FsInit, OInv, Search, OpenRight, Walking

(* A failed read leaves no partition table, and no partition is found in     *)
(* zeros.                                                                    *)
LEMMA MbrReadOInv == IInv /\ MbrRead => OInv'
PROOF
  <1> SUFFICES ASSUME IInv, MbrRead PROVE OInv'
    OBVIOUS
  <1>1. Search' /\ OpenRight'
    BY DEF MbrRead, Search, OpenRight, Walking
  <1>2. ASSUME pc' \in {"volume", "root", "idle"} \cup Walking
        PROVE  Chosen'
    <2>1. PICK t : /\ t = (IF Buffer(NULL) = 0 THEN table ELSE [i \in 1 .. 4 |-> Inactive])
                   /\ part' \in Bootable(t)
      BY <1>2 DEF MbrRead, Walking
    <2>2. PICK i \in 1 .. 4 : /\ part' = t[i].start_lba
                              /\ t[i].active /\ \A k \in 1 .. i - 1 : ~t[k].active
      BY <2>1 DEF Bootable
    <2>3. t = table
      BY <2>1, <2>2 DEF Inactive
    <2>4. table' = table
      BY DEF MbrRead, InitStep
    <2>5. \A k \in 1 .. 4 : table[k].active \in BOOLEAN
      BY DiskAssumption DEF IInv, Stages
    <2>6. ASSUME NEW k \in 1 .. i PROVE table[k].active <=> k = i
      <3>1. k = i \/ k \in 1 .. i - 1
        BY <2>2
      <3>2. k \in 1 .. i - 1 => k # i
        BY <2>2
      <3> QED BY <2>2, <2>3, <3>1, <3>2
    <2> QED BY <2>2, <2>3, <2>4, <2>6 DEF Chosen
  <1> QED BY <1>1, <1>2 DEF OInv

(* Where fs_init returns a volume is mounted.                                *)
LEMMA VolumeReadOInv == IInv /\ OInv /\ VolumeRead => OInv'
PROOF
  <1> SUFFICES ASSUME IInv, OInv, VolumeRead PROVE OInv'
    OBVIOUS
  <1>1. /\ pc = "volume" /\ pc' \in {"idle", "panic"} /\ request = NULL /\ request' = NULL
        /\ table' = table /\ part' = part
    BY DEF VolumeRead, InitStep, IInv, Stages
  <1>2. Chosen'
    BY <1>1 DEF OInv, Chosen
  <1>3. pc' = "idle" => Mounted'
    <2>1. IInv'
      BY VolumeReadStep
    <2> QED BY <2>1 DEF IInv, Stages
  <1>4. OpenRight'
    BY <1>1, <1>2, <1>3 DEF OpenRight, Chosen, Mounted
  <1>5. Search'
    BY <1>1 DEF Search, Walking
  <1> QED BY <1>2, <1>4, <1>5 DEF OInv

-----------------------------------------------------------------------------
(* file_open                                                                 *)
LEMMA OpenOInv == ASSUME IInv, OInv, NEW path \in Paths, Open(path) PROVE OInv'
PROOF
  <1>1. /\ pc = "idle" /\ index = 0 /\ Mounted /\ Chosen
        /\ table' = table /\ part' = part /\ bpb' = bpb
        /\ request' = [op |-> "open", path |-> path]
        /\ \/ pc' = "panic"
           \/ pc' = "root" /\ names' = path /\ index' = index
    BY DEF Open, Panic, IInv, Stages, OInv, fat
  <1>2. Chosen'
    BY <1>1 DEF Chosen
  <1>3. OpenRight'
    BY <1>1 DEF OpenRight
  <1>4. ASSUME pc' = "root" PROVE Search'
    <2>1. names' = path /\ request'.path = path /\ index' = 0
      BY <1>1, <1>4
    <2>2. path \in Seq(STRING) /\ 1 \in 1 .. Len(path)
      BY CallAssumption
    <2>3. Rest(names, request.path, 1)'
      BY <2>1, <2>2 DEF Rest
    <2>4. SearchRoot'
      <3>1. root_num_sectors' = root_num_sectors
        BY <1>1, GeometrySame
      <3>2. 0 < root_num_sectors
        BY <1>1, RootArea
      <3> QED BY <2>1, <3>1, <3>2 DEF SearchRoot
    <2> QED BY <1>4, <2>1, <2>2, <2>3, <2>4 DEF Search
  <1>5. pc' = "panic" => Search'
    BY DEF Search, Walking
  <1> QED BY <1>1, <1>2, <1>3, <1>4, <1>5 DEF OInv

(* A found name ends the search, or the next one is searched below it.       *)
LEMMA DescendOInv ==
  ASSUME Mounted, Chosen, UNCHANGED fat, request' = request, NEW e, Descend(e),
         request.op = "open", names \in Seq(STRING),
         NEW path \in Paths, path = request.path, NEW i \in 1 .. Len(path),
         Tail(names) = << >> => i = Len(path),
         Tail(names) # << >> => i + 1 \in 1 .. Len(path) /\ Rest(Tail(names), path, i + 1),
         Tail(names) \in Seq(STRING),
         NEW L, L = Levels(path, RootEntries, Contents), Trusted' => Leads(e, L[i])
  PROVE  OInv'
PROOF
  <1>1. CASE Tail(names) = << >> /\ file' = e /\ Finish(0)
    <2>1. Trusted' => file' \in Resolve(path)
      BY <1>1, LevelIs DEF Leads
    <2> QED BY <1>1, <2>1, Answers DEF Finish
  <1>2. CASE Panic
    <2>1. Search' /\ OpenRight' /\ pc' \notin {"volume", "root", "idle"} \cup Walking
      BY <1>2 DEF Panic, Search, OpenRight, Walking
    <2> QED BY <2>1 DEF OInv
  <1>3. ASSUME Tail(names) # << >>
        PROVE  /\ i + 1 \in 1 .. Len(path) /\ i + 1 # 1 /\ (i + 1) - 1 = i
               /\ Rest(Tail(names), path, i + 1)
    BY <1>3
  <1>4. CASE Tail(names) # << >> /\ ~e.dir /\ Finish(-1)
    <2>1. PICK j \in 1 .. Len(path) : j # 1 /\ j - 1 = i
      BY <1>3, <1>4
    <2>2. Trusted' /\ UniqueNames => Resolve(path) = {}
      BY <1>4, <2>1, NothingNext
    <2>3. result' = -1 /\ pc' = "idle" /\ -1 # 0
      BY <1>4 DEF Finish
    <2> QED BY <2>2, <2>3, Answers
  <1>5. CASE Tail(names) # << >> /\ e.dir /\ names' = Tail(names) /\ index' = 0 /\ Walk(e, 0)
    <2>1. PICK j \in 1 .. Len(path) : j # 1 /\ j - 1 = i /\ Rest(Tail(names), path, j)
      BY <1>3, <1>5
    <2>2. \A name : NoneBefore(e, 0, name)
      <3> SUFFICES ASSUME NEW name, NEW n \in 0 .. 0, NEW k \in 0 .. bpb.sec_per_clus - 1
                   PROVE  ~(n * clus_size + k * SECT_SIZE < 0)
        BY DEF NoneBefore
      <3>1. n * clus_size \in Nat
        <4>1. PICK z \in Nat : z = clus_size
          BY Geometry
        <4> QED BY <4>1
      <3>2. k * SECT_SIZE \in Nat
        <4>1. k \in Nat
          BY Geometry
        <4>2. PICK u \in Nat : u = SECT_SIZE
          BY Sizes
        <4> QED BY <4>1, <4>2
      <3> QED BY <3>1, <3>2
    <2>3. entry' = e /\ pc' \in Walking
      BY <1>5 DEF Walk, Walking
    <2>4. PICK ns \in Seq(STRING) : ns = Tail(names)
      OBVIOUS
    <2> QED BY <1>5, <2>1, <2>2, <2>3, <2>4, GoesOn
  <1> QED BY <1>1, <1>2, <1>4, <1>5 DEF Descend

(* The next sector of the root is searched, or there is none.                *)
LEMMA RootReadOInv == IInv /\ OInv /\ RootRead => OInv'
PROOF
  <1> SUFFICES ASSUME IInv, OInv, RootRead PROVE OInv'
    OBVIOUS
  <1>1. /\ pc = "root" /\ driver = "idle" /\ dirbuf' = Buffer(dirbuf) /\ Note({"ignored"})
        /\ UNCHANGED fat /\ request' = request
    BY DEF RootRead
  <1>2. Mounted /\ request.op = "open" /\ dirbuf \in Nat \cup {NULL}
    BY <1>1, CallIs DEF Calls
  <1>3. Trusted' => Trusted /\ dirbuf' = Place
    BY <1>1, <1>2, BufferIs
  <1>4. Place = root_start_lba + index
    BY <1>1 DEF Place
  <1>5. index \in Nat
    BY DEF IInv, TypeOK
  <1>6. Chosen
    BY <1>1, <1>2, SearchIs
  <1>7. PICK path \in Paths :
          /\ path = request.path
          /\ 1 \in 1 .. Len(path) /\ names \in Seq(STRING) /\ Rest(names, path, 1)
          /\ Head(names) = path[1] /\ names[1] = path[1]
          /\ Tail(names) \in Seq(STRING)
          /\ Tail(names) = << >> => 1 = Len(path)
          /\ Tail(names) # << >> => 1 + 1 \in 1 .. Len(path) /\ Rest(Tail(names), path, 1 + 1)
          /\ SearchRoot
    BY <1>1, <1>2, SearchIs
  <1>8. /\ index < root_num_sectors
        /\ Trusted => \A j \in 0 .. index - 1 : Absent(root_start_lba + j, path[1])
    BY <1>7 DEF SearchRoot
  <1>9. PICK L : L = Levels(path, RootEntries, Contents)
    OBVIOUS
  <1>10. ASSUME NEW e \in Matches(dirbuf', Head(names)), Descend(e) PROVE OInv'
    <2>1. Trusted' => Leads(e, L[1])
      BY <1>2, <1>3, <1>4, <1>5, <1>7, <1>8, <1>9, <1>10, LeadsRoot
    <2> QED BY <1>1, <1>2, <1>6, <1>7, <1>9, <1>10, <2>1, DescendOInv
  <1>11. ASSUME Matches(dirbuf', Head(names)) = {}, Trusted'
         PROVE  \A j \in 0 .. index : Absent(root_start_lba + j, path[1])
    <2>1. Absent(root_start_lba + index, path[1])
      BY <1>3, <1>4, <1>7, <1>11, NotFound
    <2>2. \A j \in 0 .. index : j = index \/ j \in 0 .. index - 1
      BY <1>5
    <2> QED BY <1>3, <1>8, <1>11, <2>1, <2>2
  <1>12. CASE /\ Matches(dirbuf', Head(names)) = {} /\ index + 1 < root_num_sectors
              /\ index' = index + 1 /\ UNCHANGED <<pc, names>>
    <2>1. /\ part' = part /\ bpb' = bpb /\ Chosen' /\ pc' = "root"
      BY <1>1, <1>6, <1>12, ChosenSame DEF fat
    <2>2. root_num_sectors' = root_num_sectors /\ root_start_lba' = root_start_lba
      BY <2>1, GeometrySame
    <2>3. PICK t \in Nat : t = index + 1 /\ t - 1 = index /\ index' = t
      BY <1>5, <1>12
    <2>4. Trusted' => \A j \in 0 .. t - 1 : Absent(root_start_lba + j, path[1])
      BY <1>11, <1>12, <2>3
    <2>5. SearchRoot'
      <3>1. t < root_num_sectors
        BY <1>12, <2>3
      <3>2. \A s, name : Absent(s, name)' <=> Absent(s, name)
        BY DEF Absent, Entries
      <3>3. names'[1] = path[1]
        BY <1>7, <1>12
      <3> QED BY <2>2, <2>3, <2>4, <3>1, <3>2, <3>3 DEF SearchRoot
    <2>6. Search'
      <3>1. Rest(names, request.path, 1)'
        BY <1>1, <1>7, <1>12 DEF Rest
      <3> QED BY <1>1, <1>7, <1>12, <2>1, <2>5, <3>1 DEF Search
    <2>7. OpenRight'
      BY <2>1 DEF OpenRight
    <2> QED BY <2>1, <2>6, <2>7 DEF OInv
  <1>13. CASE Matches(dirbuf', Head(names)) = {} /\ index + 1 = root_num_sectors /\ Finish(-1)
    <2>1. Trusted' => Resolve(path) = {}
      <3>1. root_num_sectors - 1 = index
        BY <1>5, <1>13
      <3> QED BY <1>2, <1>11, <1>13, <3>1, NothingInRoot
    <2>2. result' = -1 /\ pc' = "idle" /\ -1 # 0
      BY <1>13 DEF Finish
    <2> QED BY <1>1, <1>2, <1>6, <1>7, <2>1, <2>2, Answers
  <1> QED BY <1>10, <1>12, <1>13 DEF RootRead

(* What the search has come to in a directory                                *)
LEMMA InDir ==
  ASSUME IInv, OInv, pc \in Walking, request.op = "open"
  PROVE  /\ Mounted /\ Chosen
         /\ \E path \in Paths : path = request.path /\ \E i \in 1 .. Len(path) :
              /\ i # 1 /\ entry.dir /\ names \in Seq(STRING) /\ Rest(names, path, i)
              /\ Head(names) = path[i] /\ names[1] = path[i]
              /\ Trusted => /\ Leads(entry, Levels(path, RootEntries, Contents)[i - 1])
                            /\ NoneBefore(entry, index, path[i])
PROOF
  <1>1. pc # "root"
    BY DEF Walking
  <1>2. Mounted /\ Chosen
    BY CallIs, SearchIs
  <1>3. PICK path \in Paths : path = request.path /\ \E i \in 1 .. Len(path) :
          /\ names \in Seq(STRING) /\ Rest(names, path, i)
          /\ Head(names) = path[i] /\ names[1] = path[i]
          /\ i # 1 /\ SearchDir(i)
    BY <1>1, SearchIs
  <1>4. PICK i \in 1 .. Len(path) :
          /\ names \in Seq(STRING) /\ Rest(names, path, i)
          /\ Head(names) = path[i] /\ names[1] = path[i]
          /\ i # 1 /\ SearchDir(i)
    BY <1>3
  <1>5. Level(i - 1) = Levels(path, RootEntries, Contents)[i - 1]
    BY <1>3 DEF Level
  <1> QED BY <1>2, <1>3, <1>4, <1>5 DEF SearchDir

(* The next sector of another directory is searched.                         *)
LEMMA DirReadOInv == IInv /\ OInv /\ DirRead => OInv'
PROOF
  <1> SUFFICES ASSUME IInv, OInv, DirRead PROVE OInv'
    OBVIOUS
  <1>1. /\ pc = "dir" /\ driver = "idle" /\ dirbuf' = Buffer(dirbuf) /\ Note({"ignored"})
        /\ UNCHANGED fat /\ request' = request
    BY DEF DirRead
  <1>2. Mounted /\ request.op = "open" /\ dirbuf \in Nat \cup {NULL} /\ pc \in Walking
    BY <1>1, CallIs DEF Calls, Walking
  <1>3. Trusted' => Trusted /\ dirbuf' = Place
    BY <1>1, <1>2, BufferIs
  <1>4. entry \in Listed
    BY <1>2, WalkIs
  <1>5. Chosen
    BY <1>2, SearchIs
  <1>6. PICK path \in Paths : path = request.path /\ \E i \in 1 .. Len(path) :
              /\ names \in Seq(STRING) /\ Rest(names, path, i)
              /\ Head(names) = path[i] /\ names[1] = path[i]
              /\ Tail(names) \in Seq(STRING)
              /\ Tail(names) = << >> => i = Len(path)
              /\ Tail(names) # << >> => i + 1 \in 1 .. Len(path) /\ Rest(Tail(names), path, i + 1)
              /\ i # 1 /\ SearchDir(i)
    BY <1>1, <1>2, SearchIs
  <1>7. PICK i \in 1 .. Len(path) :
              /\ names \in Seq(STRING) /\ Rest(names, path, i)
              /\ Head(names) = path[i] /\ names[1] = path[i]
              /\ Tail(names) \in Seq(STRING)
              /\ Tail(names) = << >> => i = Len(path)
              /\ Tail(names) # << >> => i + 1 \in 1 .. Len(path) /\ Rest(Tail(names), path, i + 1)
              /\ i # 1 /\ SearchDir(i)
    BY <1>6
  <1>8. PICK L : L = Levels(path, RootEntries, Contents)
    OBVIOUS
  <1>9. /\ entry.dir
        /\ Trusted => Leads(entry, L[i - 1]) /\ NoneBefore(entry, index, path[i])
    BY <1>6, <1>7, <1>8 DEF SearchDir, Level
  <1>10. ASSUME NEW e \in Matches(dirbuf', Head(names)), Descend(e) PROVE OInv'
    <2>1. ASSUME Trusted' PROVE Leads(e, L[i])
      <3>1. dirbuf' = Place /\ Trusted
        BY <1>3, <2>1
      <3>2. e \in Matches(Place, path[i])
        BY <1>7, <1>10, <3>1
      <3>3. Place \in DOMAIN Directory => Place \in Sectors(entry)
        BY <1>1, <3>1, DirPlace
      <3>4. e \in Contents[entry] /\ e.name = path[i]
        BY <1>4, <1>9, <3>2, <3>3, InDirectory
      <3> QED BY <1>7, <1>8, <1>9, <3>1, <3>4, LeadsNext
    <2> QED BY <1>1, <1>2, <1>5, <1>6, <1>7, <1>8, <1>10, <2>1, DescendOInv
  <1>11. CASE /\ Matches(dirbuf', Head(names)) = {}
              /\ index' = index + SECT_SIZE /\ Walk(entry, index + SECT_SIZE)
              /\ names' = names
    <2>1. PICK t : t = index + SECT_SIZE
      OBVIOUS
    <2>2. ASSUME Trusted' PROVE NoneBefore(entry, t, path[i])
      <3>1. dirbuf' = Place /\ Trusted
        BY <1>3, <2>2
      <3>2. Absent(Place, path[i])
        BY <1>7, <1>11, <3>1, NotFound
      <3> QED BY <1>1, <1>9, <2>1, <3>1, <3>2, NotHere
    <2>3. PICK ns \in Seq(STRING) : ns = names /\ Rest(ns, path, i) /\ ns[1] = path[i]
      BY <1>7
    <2>4. PICK d : d = entry /\ d.dir /\ (Trusted => Leads(d, L[i - 1]))
      BY <1>9
    <2>5. Trusted' => Leads(d, L[i - 1]) /\ NoneBefore(d, t, ns[1])
      BY <1>3, <2>2, <2>3, <2>4
    <2>6. entry' = d /\ index' = t /\ names' = ns /\ pc' \in Walking /\ request'.path = path
      BY <1>1, <1>6, <1>11, <2>1, <2>3, <2>4 DEF Walk, Walking
    <2> QED BY <1>1, <1>5, <1>7, <1>8, <2>3, <2>4, <2>5, <2>6, GoesOn
  <1> QED BY <1>10, <1>11 DEF DirRead

-----------------------------------------------------------------------------
(* The walk along the chain of a directory, or of the file that is read      *)
LEMMA WalkOInv ==
  ASSUME IInv, OInv, pc \in Walking, pc' \in Walking, UNCHANGED fat,
         UNCHANGED <<request, names, entry, index>>, Trusted' => Trusted
  PROVE  OInv'
PROOF
  <1>1. Mounted /\ Chosen
    BY CallIs DEF OInv
  <1>2. CASE request.op = "read"
    BY <1>1, <1>2, OnlyReads
  <1>3. CASE request.op = "open"
    <2>1. PICK path \in Paths : path = request.path /\ \E i \in 1 .. Len(path) :
              /\ i # 1 /\ entry.dir /\ names \in Seq(STRING) /\ Rest(names, path, i)
              /\ Head(names) = path[i] /\ names[1] = path[i]
              /\ Trusted => /\ Leads(entry, Levels(path, RootEntries, Contents)[i - 1])
                            /\ NoneBefore(entry, index, path[i])
      BY <1>3, InDir
    <2>2. PICK i \in 1 .. Len(path) :
              /\ i # 1 /\ entry.dir /\ names \in Seq(STRING) /\ Rest(names, path, i)
              /\ Head(names) = path[i] /\ names[1] = path[i]
              /\ Trusted => /\ Leads(entry, Levels(path, RootEntries, Contents)[i - 1])
                            /\ NoneBefore(entry, index, path[i])
      BY <2>1
    <2>3. PICK L : L = Levels(path, RootEntries, Contents)
      OBVIOUS
    <2>4. PICK d : d = entry
      OBVIOUS
    <2>5. PICK t : t = index
      OBVIOUS
    <2>6. PICK ns \in Seq(STRING) : ns = names
      BY <2>2
    <2>7. d.dir /\ Rest(ns, path, i) /\ (Trusted' => Leads(d, L[i - 1]) /\ NoneBefore(d, t, ns[1]))
      BY <2>2, <2>3, <2>4, <2>5, <2>6
    <2>8. entry' = d /\ index' = t /\ names' = ns /\ request'.path = path
      BY <2>1, <2>4, <2>5, <2>6
    <2> QED BY <1>1, <2>2, <2>3, <2>6, <2>7, <2>8, GoesOn
  <1>4. request.op \in {"read", "open"}
    BY CallIs, SizeIs, CallAssumption DEF Calls
  <1> QED BY <1>2, <1>3, <1>4

(* No sector of the directory is left: it does not have the name.            *)
LEMMA EndOfChainOInv == IInv /\ OInv /\ EndOfChain => OInv'
PROOF
  <1> SUFFICES ASSUME IInv, OInv, EndOfChain PROVE OInv'
    OBVIOUS
  <1>1. /\ pc = "walk" /\ off < clus_size /\ ~Legal(cur) /\ pc \in Walking
        /\ UNCHANGED fat /\ request' = request /\ mishap' = mishap
        /\ pc' = "idle" /\ result' = (IF request.op = "open" THEN -1 ELSE Len(out))
    BY DEF EndOfChain, Finish, Walking
  <1>2. Mounted /\ Chosen
    BY <1>1, CallIs DEF OInv
  <1>3. CASE request.op = "open"
    <2>1. PICK path \in Paths : path = request.path /\ \E i \in 1 .. Len(path) :
              /\ i # 1
              /\ Trusted => /\ Leads(entry, Levels(path, RootEntries, Contents)[i - 1])
                            /\ NoneBefore(entry, index, path[i])
      BY <1>1, <1>3, InDir
    <2>2. PICK i \in 1 .. Len(path) :
              /\ i # 1
              /\ Trusted => /\ Leads(entry, Levels(path, RootEntries, Contents)[i - 1])
                            /\ NoneBefore(entry, index, path[i])
      BY <2>1
    <2>3. PICK L : L = Levels(path, RootEntries, Contents)
      OBVIOUS
    <2>4. ASSUME Trusted, UniqueNames PROVE Resolve(path) = {}
      <3>1. \A s \in Sectors(entry) : Absent(s, path[i])
        BY <1>1, <1>3, <2>2, <2>4, AllBefore
      <3> QED BY <2>2, <2>3, <2>4, <3>1, NothingNext
    <2>5. result' = -1 /\ -1 # 0
      BY <1>1, <1>3
    <2>6. Trusted' => Trusted
      BY <1>1 DEF Trusted
    <2> QED BY <1>1, <1>2, <2>1, <2>4, <2>5, <2>6, Answers
  <1>4. CASE request.op = "read"
    BY <1>1, <1>2, <1>4, OnlyReads
  <1>5. request.op \in {"read", "open"}
    BY <1>1, CallIs, SizeIs, CallAssumption DEF Calls
  <1> QED BY <1>3, <1>4, <1>5

LEMMA FollowOInv == IInv /\ OInv /\ Follow => OInv'
PROOF
  <1> SUFFICES ASSUME IInv, OInv, Follow PROVE OInv'
    OBVIOUS
  <1>1. /\ pc \in Walking /\ pc' \in Walking /\ UNCHANGED fat
        /\ UNCHANGED <<request, names, entry, index, mishap>>
    BY DEF Follow, Walking, walk
  <1> QED BY <1>1, WalkOInv DEF Trusted

LEMMA FollowedOInv == IInv /\ OInv /\ Followed => OInv'
PROOF
  <1> SUFFICES ASSUME IInv, OInv, Followed PROVE OInv'
    OBVIOUS
  <1>1. /\ pc = "follow" /\ driver = "idle" /\ pc \in Walking /\ pc' \in Walking /\ UNCHANGED fat
        /\ UNCHANGED <<request, names, entry, index>> /\ Note({"ignored"})
    BY DEF Followed, Walking
  <1>2. NULL \in Nat \cup {NULL}
    OBVIOUS
  <1>3. Trusted' => Trusted
    BY <1>1, <1>2, BufferIs
  <1> QED BY <1>1, <1>3, WalkOInv

LEMMA ArriveOInv == IInv /\ OInv /\ Arrive => OInv'
PROOF
  <1> SUFFICES ASSUME IInv, OInv, Arrive PROVE OInv'
    OBVIOUS
  <1>1. /\ pc \in Walking /\ pc' \in Walking /\ UNCHANGED fat
        /\ UNCHANGED <<request, names, entry, index, mishap>>
    BY DEF Arrive, Walking, walk
  <1> QED BY <1>1, WalkOInv DEF Trusted

(* file_read                                                                 *)
LEMMA ReadOInv == ASSUME IInv, OInv, NEW r \in Reads, Read(r) PROVE OInv'
PROOF
  <1>1. pc = "idle" /\ Mounted /\ Chosen
    BY DEF Read, IInv, Stages, OInv
  <1>2. request' = r /\ r.op = "read" /\ UNCHANGED fat /\ pc' \in Walking \cup {"idle"}
    BY CallAssumption DEF Read, Finish, NextPart, ReadPart, Walk, Walking
  <1> QED BY <1>1, <1>2, OnlyReads

LEMMA DataReadOInv == IInv /\ OInv /\ DataRead => OInv'
PROOF
  <1> SUFFICES ASSUME IInv, OInv, DataRead PROVE OInv'
    OBVIOUS
  <1>1. pc = "data" /\ request.op = "read" /\ Mounted /\ Chosen
    BY CallIs DEF DataRead, OInv, Walking
  <1>2. request' = request /\ UNCHANGED fat /\ pc' \in Walking \cup {"idle"}
    BY DEF DataRead, Finish, NextPart, ReadPart, Walk, Walking
  <1> QED BY <1>1, <1>2, OnlyReads

(* OInv is inductive together with IInv.                                     *)
LEMMA NextOInv == IInv /\ OInv /\ [Next]_vars => OInv'
PROOF
  <1> SUFFICES ASSUME IInv, OInv, [Next]_vars PROVE OInv'
    OBVIOUS
  <1>1. ASSUME NEW path \in Paths, Open(path) PROVE OInv'
    BY <1>1, OpenOInv
  <1>2. ASSUME NEW r \in Reads, Read(r) PROVE OInv'
    BY <1>2, ReadOInv
  <1>3. CASE Step
    BY <1>3, FsInitOInv, MbrReadOInv, VolumeReadOInv, RootReadOInv, DirReadOInv, FollowOInv,
       FollowedOInv, EndOfChainOInv, ArriveOInv, DataReadOInv DEF Step
  <1>4. CASE Disk \/ Spin \/ UNCHANGED vars
    BY <1>4, QuietOInv DEF Disk, Spin, vars
  <1> QED BY <1>1, <1>2, <1>3, <1>4 DEF Next

-----------------------------------------------------------------------------
LEMMA Invariant == Spec => []IInv
BY InitIInv, NextIInv, PTL DEF Spec

(* file_read delivers the bytes of the file from the offset on, and all of   *)
(* them if no read of the disk fails, for every volume that is consistent    *)
(* and every geometry, offset and size: except where a read started late or  *)
(* a failed read of the table was ignored (fs.c:113).                        *)
THEOREM ReadsAreRight == Spec => []ReadRight
PROOF
  <1>1. IInv => ReadRight
    BY DEF IInv
  <1> QED BY <1>1, Invariant, PTL

(* With the same exception, fat_next_clus is called for legal clusters only, *)
(* although its callers look at no cluster but the last one (fs.c:104).      *)
THEOREM ClustersAreLegal == Spec => []LegalClusters
BY FollowsLegal, Invariant, PTL

(* No call of ata_read asks for 0 sectors, which would mean 65536, and one   *)
(* for data asks for none behind the end of its cluster, whatever failed     *)
(* before: also after a walk that a stale table led astray.                  *)
THEOREM ReadsStayInside == Spec => []ReadsInsideClusters
BY StaysInside, Invariant, PTL

(* fs_init goes on with the first bootable partition only, and file_open     *)
(* stores the entry that the path names and fails for one that names none,   *)
(* for every tree of directories, however their sectors lie in chains of     *)
(* clusters: except where a read started late or a failed one was ignored    *)
(* (fs.c:192, 249), and where a name is twice in a directory, for failing.   *)
THEOREM OpensAreRight == Spec => []OpenRight
PROOF
  <1>1. OInv => OpenRight
    BY DEF OInv
  <1>2. Init => IInv /\ OInv
    BY InitIInv, InitOInv
  <1>3. (IInv /\ OInv) /\ [Next]_vars => (IInv /\ OInv)'
    BY NextIInv, NextOInv
  <1> QED BY <1>1, <1>2, <1>3, PTL DEF Spec
=============================================================================
