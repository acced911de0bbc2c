-------------------------------- MODULE Ata --------------------------------
(***************************************************************************)
(* ata_read of kernel/ata.c and the drive it polls.  The driver waits for  *)
(* the drive, writes a command, and then waits for each sector.  It gives  *)
(* up when the drive stays busy for all its polls; the drive knows nothing *)
(* of that and may come up with the sector later, when the next command is *)
(* written: the driver tests BSY and DRDY before a command, not DRQ.       *)
(* ata_write has no caller and is left out.                                *)
(***************************************************************************)
EXTENDS Naturals, Sequences

CONSTANTS
  COUNTS,     (* the sector count is a number modulo COUNTS (2^16)           *)
  MaxFaults   (* bound of the model: faults and timeouts in a behaviour      *)

ASSUME AtaAssumption == COUNTS \in Nat \ {0, 1} /\ MaxFaults \in Nat

VARIABLES
  driver,   (* where ata_read is: "idle", "select" before the command,     *)
            (* "data" before a sector                                      *)
  want,     (* its parameter lba                                           *)
  left,     (* count, the sectors it still expects                         *)
  got,      (* the sectors it has read, in order                           *)
  ret,      (* its result                                                  *)
  drive,    (* the status: "busy", "ready", "drq" or "err"                 *)
  sector, remaining,   (* what the drive transfers next, and how many      *)
  late,     (* the command was written to a drive in state "drq"           *)
  faults

ata == <<driver, want, left, got, ret, drive, sector, remaining, late, faults>>

AtaTypeOK ==
  /\ driver \in {"idle", "select", "data"}
  /\ want \in Nat /\ left \in 0 .. COUNTS - 1
  /\ got \in Seq(Nat)
  /\ ret \in {"ok", "failed"}
  /\ drive \in {"busy", "ready", "drq", "err"}
  /\ sector \in Nat /\ remaining \in Nat
  /\ late \in BOOLEAN
  /\ faults \in 0 .. MaxFaults

AtaInit ==
  /\ driver = "idle" /\ want = 0 /\ left = 0 /\ got = << >> /\ ret = "ok"
  /\ drive = "ready" /\ sector = 0 /\ remaining = 0
  /\ late = FALSE /\ faults = 0

(* The call of ata_read(dst, lba, count) *)
AtaCall(lba, count) ==
  /\ driver = "idle" /\ driver' = "select"
  /\ want' = lba /\ left' = count % COUNTS /\ got' = << >> /\ late' = FALSE
  /\ UNCHANGED <<ret, drive, sector, remaining, faults>>

(***************************************************************************)
(* ata_device_ready and the command.  A command for a drive that is busy   *)
(* is lost; for one that waits to transfer the sector of an earlier one it *)
(* has no defined result: it takes over, or the drive goes on as it was.   *)
(***************************************************************************)
AnyDevice   == TRUE
DeviceReady == drive # "busy"

Obeyed ==
  /\ drive' = "busy" /\ sector' = want
  /\ remaining' = IF left = 0 THEN COUNTS ELSE left
Ignored == drive \in {"busy", "drq"} /\ UNCHANGED <<drive, sector, remaining>>

Command ==
  /\ driver = "select" /\ DeviceReady
  /\ driver' = "data"
  /\ late' = (drive = "drq")
  /\ Obeyed \/ Ignored
  /\ UNCHANGED <<want, left, got, ret, faults>>

(* The polls of ata_device_ready are used up. *)
GiveUp ==
  /\ driver \in {"select", "data"} /\ drive = "busy"
  /\ faults < MaxFaults /\ faults' = faults + 1
  /\ driver' = "idle" /\ ret' = "failed"
  /\ UNCHANGED <<want, left, got, drive, sector, remaining, late>>

(* ata_data_ready with DRQ, and the transfer of one sector *)
After(n) == (n + COUNTS - 1) % COUNTS

Transfer ==
  /\ driver = "data" /\ drive = "drq"
  /\ got' = Append(got, sector)
  /\ left' = After(left)
  /\ IF left' = 0 THEN driver' = "idle" /\ ret' = "ok" ELSE UNCHANGED <<driver, ret>>
  /\ sector' = sector + 1 /\ remaining' = remaining - 1
  /\ drive' = IF remaining = 1 THEN "ready" ELSE "busy"
  /\ UNCHANGED <<want, late, faults>>

(* ata_data_ready with an error, or without a reason for the status *)
DataError ==
  /\ driver = "data" /\ drive \in {"err", "ready"}
  /\ driver' = "idle" /\ ret' = "failed"
  /\ UNCHANGED <<want, left, got, drive, sector, remaining, late, faults>>

(* The drive finds the sector, or an error that ends its command. *)
Deliver ==
  /\ drive = "busy" /\ drive' = "drq"
  /\ UNCHANGED <<driver, want, left, got, ret, sector, remaining, late, faults>>

Fault ==
  /\ drive = "busy" /\ drive' = "err"
  /\ faults < MaxFaults /\ faults' = faults + 1
  /\ UNCHANGED <<driver, want, left, got, ret, sector, remaining, late>>

AtaNext == Command \/ GiveUp \/ Transfer \/ DataError \/ Deliver \/ Fault

(* The driver and the drive with any caller *)
AtaSpec == AtaInit /\ [][AtaNext \/ \E lba, count \in Nat : AtaCall(lba, count)]_ata

-----------------------------------------------------------------------------
(* A read that was not started over the sector of an abandoned one gets the  *)
(* sectors that were asked for, in order: timeouts and errors of the reads   *)
(* before it leave nothing behind.                                           *)
RightSectors ==
  ~late => \A i \in DOMAIN got : got[i] = want + i - 1
=============================================================================
