------------------------------- MODULE DiskIO -------------------------------
(***************************************************************************)
(* drivers/diskio.c: the glue between FatFs and one ATA drive.  The host   *)
(* polls the drive, so a call of disk_read, disk_write or disk_initialize  *)
(* is a sequence of register accesses (pc) with the drive working between  *)
(* any two of them.  A poll gives up after ATA_TIMEOUT reads: the drive    *)
(* then goes on with a command nobody waits for.                           *)
(*                                                                         *)
(* The drive is external.  BUSY is raised by the write of the command      *)
(* register; while BUSY is up the other status bits mean nothing; a new    *)
(* command drops a transfer that was left unfinished.                      *)
(***************************************************************************)
EXTENDS Integers, Sequences

CONSTANTS
    Volumes,          \* FF_VOLUMES
    DriveSectors,     \* sectors of the drive
    RegisterSize,     \* values of one address register (256)
    Contents,         \* what a sector can hold
    MaxCount,         \* bound on the count of one call
    SectorsPerTrack,  \* what IDENTIFY reports in current_log_sects_per_track
    WriteFaults       \* whether the drive may refuse or fail a write

VARIABLES
    disk,      \* what the medium holds
    drive,     \* [phase, cmd, lba, data, err] of the drive
    status,    \* g_drive_status: TRUE where STA_NOINIT is set
    identity,  \* g_drive_id.current_log_sects_per_track, 0 until read
    pc,        \* where the host is in the sector operation
    op, vol, sector, left,   \* the call being served
    buff,      \* words of the call: read so far, or still to be written
    result,    \* [code, count] of the last call
    acked      \* history: what the last successful ata_write_sector put there

host == <<status, identity, pc, op, vol, sector, left, buff, result, acked>>
diskVars == <<disk, drive, host>>

\* Three 8-bit registers hold the address and the head register is always
\* 0xE0, so a sector above them would alias: a bound on the drive, not a check.
ASSUME DriveAssumption ==
    /\ Volumes \in Nat /\ Volumes > 0
    /\ RegisterSize \in Nat \ {0}
    /\ DriveSectors \in 1 .. RegisterSize * RegisterSize * RegisterSize
    /\ MaxCount \in Nat
    /\ SectorsPerTrack \in Nat
    /\ WriteFaults \in BOOLEAN
    /\ Contents # {}

Addresses == 0 .. DriveSectors - 1
Waits == {"wait", "wait_data", "wait_idle", "wait_data2"}
Busy == drive.phase \in {"working", "storing"}

\* A defective variant: the cylinder-low register is not written.
Address_NoCylinder(s) ==
    LET low == s % RegisterSize
        high == (s \div (RegisterSize * RegisterSize)) % RegisterSize
    IN  low + RegisterSize * RegisterSize * high

\* What the drive decodes from the three registers the driver writes.
Address(s) ==
    LET low == s % RegisterSize
        mid == (s \div RegisterSize) % RegisterSize
        high == (s \div (RegisterSize * RegisterSize)) % RegisterSize
    IN  low + RegisterSize * mid + RegisterSize * RegisterSize * high

Command(cmd, lba, old) ==
    [phase |-> "working", cmd |-> cmd, lba |-> lba, data |-> old.data, err |-> FALSE]

DiskInit ==
    /\ \E v \in Contents :
        /\ disk = [s \in Addresses |-> v]
        /\ acked = disk
        /\ drive \in {[phase |-> p, cmd |-> "reset", lba |-> 0, data |-> v, err |-> FALSE] :
                         p \in {"idle", "working"}}
    /\ status = [v \in 0 .. Volumes - 1 |-> TRUE]
    /\ identity = 0
    /\ pc = "idle" /\ op = "none" /\ vol = 0 /\ sector = 0 /\ left = 0
    /\ buff = <<>>
    /\ result = [code |-> "OK", count |-> 0]

-----------------------------------------------------------------------------
\* The drive.

DriveReads ==
    /\ drive.phase = "working" /\ drive.cmd \in {"read", "identify"}
    /\ \E ok \in BOOLEAN :
        drive' = [drive EXCEPT !.phase = IF ok THEN "data_in" ELSE "idle",
                               !.data = IF ok /\ drive.cmd = "read" THEN disk[drive.lba] ELSE @,
                               !.err = ~ok]
    /\ UNCHANGED <<disk, host>>

DriveAccepts ==
    /\ drive.phase = "working" /\ drive.cmd = "write"
    /\ \E ok \in IF WriteFaults THEN BOOLEAN ELSE {TRUE} :
        drive' = [drive EXCEPT !.phase = IF ok THEN "data_out" ELSE "idle", !.err = ~ok]
    /\ UNCHANGED <<disk, host>>

DriveStores ==
    /\ drive.phase = "storing"
    /\ \E ok \in IF WriteFaults THEN BOOLEAN ELSE {TRUE} :
        /\ disk' = IF ok THEN [disk EXCEPT ![drive.lba] = drive.data] ELSE disk
        /\ drive' = [drive EXCEPT !.phase = "idle", !.err = ~ok]
    /\ UNCHANGED host

DriveResets ==
    /\ drive.phase = "working" /\ drive.cmd = "reset"
    /\ drive' = [drive EXCEPT !.phase = "idle"]
    /\ UNCHANGED <<disk, host>>

Drive == DriveReads \/ DriveAccepts \/ DriveStores \/ DriveResets

-----------------------------------------------------------------------------
\* The calls FatFs makes.

Answer(code, n) == result' = [code |-> code, count |-> n]

Return(code) ==
    /\ pc' = "idle"
    /\ Answer(code, 0)

\* The checks disk_read, disk_write and disk_ioctl begin with.
Refused(v) ==
    IF v >= Volumes THEN {"PARERR"} ELSE IF status[v] THEN {"NOTRDY"} ELSE {}

Refuse ==
    /\ pc = "idle"
    /\ \E v \in 0 .. Volumes, o \in {"read", "write", "ioctl"} :
        \E code \in Refused(v) :
            /\ Answer(code, 0)
            /\ op' = o
            /\ vol' = v
    /\ UNCHANGED <<disk, drive, status, identity, pc, sector, left, buff, acked>>

Start(o, v, s, n, words) ==
    /\ pc = "idle"
    /\ pc' = "wait"
    /\ op' = o /\ vol' = v /\ sector' = s /\ left' = n /\ buff' = words
    /\ UNCHANGED <<disk, drive, status, identity, result, acked>>

CallRead ==
    \E v \in 0 .. Volumes - 1, s \in Addresses, n \in 1 .. MaxCount :
        /\ Refused(v) = {}
        /\ s + n <= DriveSectors
        /\ Start("read", v, s, n, <<>>)

CallWrite ==
    \E v \in 0 .. Volumes - 1, s \in Addresses, n \in 1 .. MaxCount :
        /\ Refused(v) = {}
        /\ s + n <= DriveSectors
        /\ \E words \in [1 .. n -> Contents] : Start("write", v, s, n, words)

CallInitialize ==
    \E v \in 0 .. Volumes - 1 : Start("identify", v, 0, 1, <<>>)

\* GET_SECTOR_COUNT; the other commands only answer.
Ioctl ==
    /\ pc = "idle"
    /\ \E v \in 0 .. Volumes - 1 :
        /\ Refused(v) = {}
        /\ vol' = v
    /\ op' = "ioctl"
    /\ Answer("OK", identity)
    /\ UNCHANGED <<disk, drive, status, identity, pc, sector, left, buff, acked>>

-----------------------------------------------------------------------------
\* One sector: ata_read_sector, ata_write_sector, ata_read_identity.

\* A defective variant: ata_read_sector goes on without waiting for the drive the second time.
Following_NoWaitForData ==
    CASE pc = "wait" -> "issue"
      [] pc = "issue" -> IF op = "write" THEN "check" ELSE "transfer"
      [] pc = "wait_data" -> "check"
      [] pc = "check" -> "wait_idle"
      [] pc = "wait_idle" -> "wait_data2"
      [] pc = "wait_data2" -> "transfer"

\* ata_write_sector does not wait between the command and the status check.
Following ==
    CASE pc = "wait" -> "issue"
      [] pc = "issue" -> IF op = "write" THEN "check" ELSE "wait_data"
      [] pc = "wait_data" -> "check"
      [] pc = "check" -> "wait_idle"
      [] pc = "wait_idle" -> "wait_data2"
      [] pc = "wait_data2" -> "transfer"

\* A sector operation that fails ends the call; disk_initialize records it.
Fail ==
    /\ Return("ERROR")
    /\ status' = IF op = "identify" THEN [status EXCEPT ![vol] = TRUE] ELSE status
    /\ UNCHANGED <<disk, drive, identity, op, vol, sector, left, buff, acked>>

NotBusy ==
    /\ pc \in Waits
    /\ ~Busy
    /\ pc' = Following
    /\ UNCHANGED <<disk, drive, status, identity, op, vol, sector, left, buff, result, acked>>

\* A defective variant: the polls never give up.
Timeout_Never == FALSE /\ pc \in Waits /\ Fail

Timeout ==
    /\ pc \in Waits
    /\ Busy
    /\ Fail

\* A drive that is busy ignores its registers.
Issue ==
    /\ pc = "issue"
    /\ pc' = Following
    /\ drive' = IF Busy THEN drive ELSE Command(op, Address(sector), drive)
    /\ UNCHANGED <<disk, status, identity, op, vol, sector, left, buff, result, acked>>

\* The error bit the host reads: anything while the drive is busy.
ErrorBit == IF Busy THEN BOOLEAN ELSE {drive.err}

CheckPasses ==
    /\ pc = "check"
    /\ FALSE \in ErrorBit
    /\ pc' = Following
    /\ UNCHANGED <<disk, drive, status, identity, op, vol, sector, left, buff, result, acked>>

CheckFails ==
    /\ pc = "check"
    /\ TRUE \in ErrorBit
    /\ Fail

\* One sector done: the loops of disk_read and disk_write go on or return.
NextSector ==
    /\ sector' = sector + 1
    /\ left' = left - 1
    /\ IF left > 1
       THEN pc' = "wait" /\ UNCHANGED result
       ELSE Return("OK")

\* A data register nobody filled gives anything.
TransferIn ==
    /\ pc = "transfer" /\ op = "read"
    /\ \E w \in IF drive.phase = "data_in" THEN {drive.data} ELSE Contents :
        buff' = Append(buff, w)
    /\ drive' = IF drive.phase = "data_in" THEN [drive EXCEPT !.phase = "idle"] ELSE drive
    /\ NextSector
    /\ UNCHANGED <<disk, status, identity, op, vol, acked>>

\* A drive that asked for no data drops it; the host returns 0 all the same.
TransferOut ==
    /\ pc = "transfer" /\ op = "write"
    /\ drive' = IF drive.phase = "data_out"
                THEN [drive EXCEPT !.phase = "storing", !.data = Head(buff)] ELSE drive
    /\ acked' = [acked EXCEPT ![sector] = Head(buff)]
    /\ buff' = Tail(buff)
    /\ NextSector
    /\ UNCHANGED <<disk, status, identity, op, vol>>

TransferIdentity ==
    /\ pc = "transfer" /\ op = "identify"
    /\ drive' = IF drive.phase = "data_in" THEN [drive EXCEPT !.phase = "idle"] ELSE drive
    /\ identity' = SectorsPerTrack
    /\ status' = [status EXCEPT ![vol] = FALSE]
    /\ NextSector
    /\ UNCHANGED <<disk, op, vol, buff, acked>>

Host == NotBusy \/ Timeout \/ Issue \/ CheckPasses \/ CheckFails
            \/ TransferIn \/ TransferOut \/ TransferIdentity
DiskCall == CallRead \/ CallWrite \/ CallInitialize \/ Refuse \/ Ioctl

DiskNext == DiskCall \/ Host \/ Drive

DiskSpec == DiskInit /\ [][DiskNext]_diskVars

\* The processor runs: a call in progress takes its next step.  The drive is
\* given no fairness, it may hang busy for ever.
DiskFairSpec == DiskSpec /\ WF_diskVars(Host)

-----------------------------------------------------------------------------
(* What disk_read has put in the buffer is what the medium holds at those  *)
(* sectors: no stale word of a command that timed out, none of another     *)
(* sector, and nothing read ahead of the drive (diskio.c:84-127, 279-289). *)
ReadIsFaithful ==
    (op = "read" /\ pc # "idle") \/ (op = "read" /\ result.code = "OK") =>
        \A i \in DOMAIN buff : buff[i] = disk[sector - Len(buff) + i - 1]

(* Every sector holds what the last successful write put there, or the     *)
(* drive is storing it: a call that fails changes nothing but the sectors  *)
(* before the one that failed, and no timeout loses or revives a write.    *)
AckedIsStored ==
    \A s \in Addresses :
        acked[s] = IF drive.phase = "storing" /\ drive.lba = s THEN drive.data ELSE disk[s]

(* A write answered RES_OK is on the medium once the drive is done with    *)
(* it (diskio.h:45, "Successful").                                         *)
WriteOkIsStored ==
    op = "write" /\ pc = "idle" /\ result.code = "OK" /\ drive.phase = "idle" =>
        disk[sector - 1] = acked[sector - 1]

(* A call returns even if the drive hangs (the timeout of the polls).      *)
CallsReturn == (pc # "idle") ~> (pc = "idle")
=============================================================================
