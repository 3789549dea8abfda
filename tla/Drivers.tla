------------------------------ MODULE Drivers ------------------------------
(***************************************************************************)
(* The mouse and the disk: two devices that hand over several bytes or     *)
(* sectors one by one, and drivers that put them together by counting.     *)
(***************************************************************************)
EXTENDS Mouse, Ata

(* mouse_irq and the sector loops of ata.c hand on what the device sent,   *)
(* whole and in order: no report is a mixture, no sector another one.      *)
DriversSound == PointerOnScreen /\ ReportsWhole /\ ReadsExact
=============================================================================
