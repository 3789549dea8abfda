-------------------------------- MODULE Ata --------------------------------
(***************************************************************************)
(* drivers/ata.c: polled disk transfers on one channel with two drives.    *)
(* Each sector is a command of its own: the registers are programmed, the  *)
(* drive answers or fails, the data are moved.  Drives in Lba48 take the   *)
(* path for 48-bit addresses, which does not select the drive and writes   *)
(* the low half of the address before the high one, while the drive takes  *)
(* the last byte written to a register as the low one.                     *)
(***************************************************************************)
EXTENDS Integers, Sequences, SequencesExt

CONSTANTS Attached, Lba48, DiskSectors, Data

ASSUME AtaAssumption == Attached \subseteq {0, 1} /\ DiskSectors \subseteq Nat

VARIABLES present,   \* devices[i].present
          selected,  \* the drive the channel has selected
          media,     \* what is on the disks
          req        \* the transfer in progress or the last one

ataVars == <<present, selected, media, req>>

Drives == {0, 1}
Idle   == [stage |-> "idle", op |-> "read", drive |-> 0, lba |-> 0, buf |-> <<>>,
           count |-> 0, at |-> [drive |-> 0, sector |-> 0], fault |-> FALSE]

(* ata_identify on the master and then the slave: a drive that is there    *)
(* may still fail to identify itself; the slave stays selected.            *)
ata_init ==
    /\ present \in SUBSET Attached
    /\ selected = 1
    /\ media \in [Drives -> {[s \in DiskSectors |-> "blank"]}]
    /\ req = Idle

Request(op, d, lba, n, buf) ==
    [Idle EXCEPT !.stage = IF d \in present THEN "program" ELSE "failed", !.fault = d \notin present, !.op = op,
                 !.drive = d, !.lba = lba, !.count = n, !.buf = buf]

(* A request for sectors that the disk has; it fails at once if the device *)
(* was not found.                                                          *)
ata_read_sectors(d, lba, n) ==
    /\ req.stage \in {"idle", "done", "failed"}
    /\ lba + n - 1 \in DiskSectors
    /\ req' = Request("read", d, lba, n, <<>>)
    /\ UNCHANGED <<present, selected, media>>

ata_write_sectors(d, lba, buf) ==
    /\ req.stage \in {"idle", "done", "failed"}
    /\ lba + Len(buf) - 1 \in DiskSectors
    /\ req' = Request("write", d, lba, Len(buf), buf)
    /\ UNCHANGED <<present, selected, media>>

Low == 2^24

ata_select_Not(d)     == selected
ata_select(d)         == IF d \in Lba48 THEN selected ELSE d
Address(d, sector)    == IF d \in Lba48 THEN (sector \div Low) + (sector % Low) * Low ELSE sector

(* The sector of this turn of the loop: what is left of buf in a write, or *)
(* already in it in a read, says which it is.                              *)
Turn_Never   == 0
Turn         == IF req.op = "read" THEN Len(req.buf) ELSE req.count - Len(req.buf)

Program ==
    /\ req.stage = "program"
    /\ selected' = ata_select(req.drive)
    /\ req' = [req EXCEPT !.stage = "wait",
                          !.at = [drive |-> selected', sector |-> Address(req.drive, req.lba + Turn)]]
    /\ UNCHANGED <<present, media>>

Answers == req.at.drive \in Attached /\ req.at.sector \in DiskSectors

(* ata_wait_ready or ata_wait_drq fails: because no drive answers to the   *)
(* command, or because of a fault of the disk.                             *)
Fail ==
    /\ req.stage = "wait"
    /\ req' = [req EXCEPT !.stage = "failed", !.fault = Answers]
    /\ UNCHANGED <<present, selected, media>>

AfterTurn(left) == IF left = 0 THEN "done" ELSE "program"

TransferIn ==
    /\ req.stage = "wait" /\ req.op = "read" /\ Answers
    /\ req' = [req EXCEPT !.buf = Append(@, media[req.at.drive][req.at.sector]),
                          !.stage = AfterTurn(req.count - Len(req.buf) - 1)]
    /\ UNCHANGED <<present, selected, media>>

TransferOut ==
    /\ req.stage = "wait" /\ req.op = "write" /\ Answers
    /\ media' = [media EXCEPT ![req.at.drive][req.at.sector] = Head(req.buf)]
    /\ req' = [req EXCEPT !.buf = Tail(@), !.stage = AfterTurn(Len(req.buf) - 1)]
    /\ UNCHANGED <<present, selected>>

AtaNext ==
    \/ \E d \in Drives, lba \in DiskSectors :
          \/ \E n \in 1..2 : ata_read_sectors(d, lba, n)
          \/ \E buf \in BoundedSeq(Data, 2) \ {<<>>} : ata_write_sectors(d, lba, buf)
    \/ Program \/ Fail \/ TransferIn \/ TransferOut

AtaSpec == ata_init /\ [][AtaNext]_ataVars

-----------------------------------------------------------------------------
(* A write changes the sectors it was asked to change, on the drive it was *)
(* asked to, whichever drive was used before and wherever it fails.        *)
WritesConfined ==
    [][\A d \in Drives, s \in DiskSectors : media'[d][s] # media[d][s] =>
          /\ req.op = "write" /\ d = req.drive /\ s = req.lba + req.count - Len(req.buf)
          /\ media'[d][s] = Head(req.buf)]_ataVars

(* A read without a fault of the disk succeeds and returns the sectors     *)
(* asked for, in order.                                                    *)
ReadsExact ==
    /\ req.stage = "failed" => req.fault
    /\ req.stage = "done" /\ req.op = "read" =>
         req.buf = [i \in 1..req.count |-> media[req.drive][req.lba + i - 1]]
=============================================================================
