------------------------------- MODULE Mouse -------------------------------
(***************************************************************************)
(* drivers/mouse.c: the PS/2 mouse.  The device sends reports of three     *)
(* bytes, one interrupt a byte; the driver puts them together by counting. *)
(* A byte has 2^MouseBits values (8 in the code).  wire holds what the     *)
(* device has sent and the driver has not read, and ResetReply is the      *)
(* number of bytes with which the device answers the reset command.        *)
(***************************************************************************)
EXTENDS Integers, Sequences

CONSTANTS VGA_WIDTH, VGA_HEIGHT, MouseBits, ResetReply,
          Reports   \* what the device may send: the buttons, then the motion in x and in y

ASSUME MouseAssumption ==
    /\ {VGA_WIDTH, VGA_HEIGHT, MouseBits, ResetReply, 2^MouseBits, 2^(MouseBits - 1)} \subseteq Nat \ {0}
    /\ \A r \in Reports : r \in Seq(Nat) /\ Len(r) = 3

VARIABLES mouse, mouse_cycle, mouse_buf, cursor, cursor_visible,
          wire,     \* bytes sent and not yet read
          reported  \* the last report the device has sent completely

mouseVars == <<mouse, mouse_cycle, mouse_buf, cursor, cursor_visible, wire, reported>>

(* (int8_t): the byte as a signed number, and its negation as one.         *)
Signed(b)   == IF b < 2^(MouseBits - 1) THEN b ELSE b - 2^MouseBits
Inverted(b) == Signed((-Signed(b)) % 2^MouseBits)

Place_OneLate(v, size) == IF v < 0 THEN 0 ELSE IF v > size THEN size - 1 ELSE v
Place(v, size)         == IF v < 0 THEN 0 ELSE IF v >= size THEN size - 1 ELSE v

(* mouse_init: three commands are sent and one byte is read after each, so *)
(* what a reset answers beyond one byte is left for the interrupt handler. *)
Unread_OneRead == [i \in 1..(ResetReply + 2 - 2) |-> 0]
Unread         == [i \in 1..(ResetReply + 2 - 3) |-> 0]

mouse_init ==
    /\ mouse = [x |-> VGA_WIDTH \div 2, y |-> VGA_HEIGHT \div 2, buttons |-> 0, dx |-> 0, dy |-> 0]
    /\ mouse_cycle = 0
    /\ mouse_buf = <<0, 0, 0>>
    /\ cursor = <<VGA_WIDTH \div 2, VGA_HEIGHT \div 2>>
    /\ cursor_visible = TRUE
    /\ wire = Unread
    /\ reported = <<0, 0, 0>>

(* The device: it moves, and sends its report when the line is free.       *)
Report(r) ==
    /\ wire = <<>>
    /\ wire' = r
    /\ reported' = r
    /\ UNCHANGED <<mouse, mouse_cycle, mouse_buf, cursor, cursor_visible>>

Moved(b) ==
    LET dx == Signed(b[2])
        dy == Inverted(b[3])
    IN  [x |-> Place(mouse.x + dx, VGA_WIDTH), y |-> Place(mouse.y + dy, VGA_HEIGHT),
         buttons |-> b[1] % 8, dx |-> dx, dy |-> dy]

Cycle(c) == (c + 1) % 3

mouse_irq ==
    /\ wire # <<>>
    /\ wire' = Tail(wire)
    /\ mouse_buf' = [mouse_buf EXCEPT ![mouse_cycle + 1] = Head(wire)]
    /\ mouse_cycle' = Cycle(mouse_cycle)
    /\ mouse' = IF mouse_cycle' = 0 THEN Moved(mouse_buf') ELSE mouse
    /\ cursor' = IF mouse_cycle' = 0 /\ cursor_visible THEN <<mouse'.x, mouse'.y>> ELSE cursor
    /\ UNCHANGED <<cursor_visible, reported>>

mouse_set_cursor(x, y) ==
    /\ cursor' = <<x, y>>
    /\ mouse' = [mouse EXCEPT !.x = x, !.y = y]
    /\ UNCHANGED <<mouse_cycle, mouse_buf, cursor_visible, wire, reported>>

mouse_show(show) ==
    /\ cursor_visible' = show
    /\ UNCHANGED <<mouse, mouse_cycle, mouse_buf, cursor, wire, reported>>

MouseNext ==
    \/ \E r \in Reports : Report(r)
    \/ mouse_irq
    \/ \E x \in 0..(VGA_WIDTH - 1), y \in 0..(VGA_HEIGHT - 1) : mouse_set_cursor(x, y)
    \/ \E show \in BOOLEAN : mouse_show(show)

MouseSpec == mouse_init /\ [][MouseNext]_mouseVars

-----------------------------------------------------------------------------
(* The mouse and the cell its cursor is drawn in are on the screen,        *)
(* whatever motion the device reports.                                     *)
PointerOnScreen ==
    /\ mouse.x \in 0..(VGA_WIDTH - 1) /\ mouse.y \in 0..(VGA_HEIGHT - 1)
    /\ cursor \in (0..(VGA_WIDTH - 1)) \X (0..(VGA_HEIGHT - 1))

(* mouse_irq never looks for the start of a report, so the driver is right *)
(* only if it counts with the device from the first byte on: once a report *)
(* has been read, mouse_get_state returns that report and no mixture.      *)
ReportsWhole ==
    wire = <<>> => /\ mouse_cycle = 0
                   /\ mouse.buttons = reported[1] % 8
                   /\ mouse.dx = Signed(reported[2])
                   /\ mouse.dy = Inverted(reported[3])
=============================================================================
