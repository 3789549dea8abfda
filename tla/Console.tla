------------------------------ MODULE Console ------------------------------
(***************************************************************************)
(* drivers/vga.c, the text screen, and on it kernel_shell of               *)
(* kernel/kmain.c: the loop that reads a line from the keyboard, echoes    *)
(* it, and runs it as a command.  A step is one key, with all that it      *)
(* prints.  Colours and the hardware cursor are left out; ShellPrints      *)
(* gives what a command prints.                                            *)
(***************************************************************************)
EXTENDS Integers, Sequences, SequencesExt

CONSTANTS TextWidth, TextHeight,   \* VGA_WIDTH and VGA_HEIGHT
          TabStop, ShellInput,     \* 8, and the 256 bytes of input
          Prompt, BootText,
          ShellChars,              \* the characters that can be typed
          ClearLine, RebootLine,   \* the commands clear and reboot
          ShellPrints(_),
          MaxScrolled              \* bound: rows that have left the screen

Backspace == "bs"
Special   == {"\n", "\t", Backspace}

(* Whatever the shell prints ends its line, the prompt apart, which is     *)
(* shorter than a row.                                                     *)
EndsLine(str) == str \in Seq(ToSet(str)) /\ str # <<>> /\ str[Len(str)] = "\n"
ShellInputs   == UNION {[1..n -> ShellChars] : n \in 0..(ShellInput - 1)}

ASSUME ConsoleAssumption ==
    /\ TextWidth \in Nat /\ TextHeight \in Nat \ {0} /\ TabStop \in Nat \ {0} /\ ShellInput \in Nat \ {0}
    /\ Prompt \in Seq(ToSet(Prompt)) /\ ToSet(Prompt) \cap Special = {} /\ Len(Prompt) \in 1..(TextWidth - 1)
    /\ ShellChars \cap Special \subseteq {"\t"}
    /\ EndsLine(BootText) /\ \A cmd \in ShellInputs : EndsLine(ShellPrints(cmd))

VARIABLES vga,      \* the buffer, cursor_row and cursor_col; ghosts: paper, scrolled
          input,    \* what has been typed of the line
          straight  \* ghost: the line has taken no tab and not reached the end of a row

consoleVars == <<vga, input, straight>>

BlankRow == [c \in 0..(TextWidth - 1) |-> " "]

(* The ghost paper is the screen if it never scrolled, scrolled the number *)
(* of its rows that have left the screen.                                  *)
vga_clear == [buffer |-> [r \in 0..(TextHeight - 1) |-> BlankRow], row |-> 0, col |-> 0,
              paper |-> [r \in 0..(TextHeight - 1) |-> BlankRow], scrolled |-> 0]

vga_scroll_RowKept(b) == [r \in DOMAIN b |-> IF r + 1 < TextHeight THEN b[r + 1] ELSE b[r]]
vga_scroll(b)         == [r \in DOMAIN b |-> IF r + 1 < TextHeight THEN b[r + 1] ELSE BlankRow]

Cell(v, col, c) == [v EXCEPT !.buffer[v.row][col] = c, !.paper[v.row + v.scrolled][col] = c, !.col = col]

Typeset(v, c) ==
    CASE c = "\n" -> [v EXCEPT !.col = 0, !.row = @ + 1]
      [] c = "\t" -> [v EXCEPT !.col = ((@ + TabStop) \div TabStop) * TabStop]
      [] c = Backspace -> IF v.col > 0 THEN Cell(v, v.col - 1, " ") ELSE v
      [] OTHER    -> [Cell(v, v.col, c) EXCEPT !.col = @ + 1]

Wrapped(v) == IF v.col >= TextWidth THEN [v EXCEPT !.col = 0, !.row = @ + 1] ELSE v

Scrolled(v) ==
    IF v.row < TextHeight THEN v
    ELSE [v EXCEPT !.buffer = vga_scroll(@), !.row = TextHeight - 1, !.scrolled = @ + 1,
                   !.paper = [r \in 0..(TextHeight + v.scrolled) |-> IF r \in DOMAIN @ THEN @[r] ELSE BlankRow]]

vga_putchar(v, c) == Scrolled(Wrapped(Typeset(v, c)))

(* The loop of vga_puts: the screen after each character.                  *)
Screens(v, str) ==
    LET screen[n \in 0..Len(str)] == IF n = 0 THEN v ELSE vga_putchar(screen[n - 1], str[n]) IN screen

vga_puts(v, str) == Screens(v, str)[Len(str)]

-----------------------------------------------------------------------------
(* The next turn of the outer loop: the prompt, and an empty line.         *)
Prompted(v) == vga' = vga_puts(v, Prompt) /\ input' = <<>> /\ straight' = TRUE

ShellBoot == vga_puts(vga_puts(vga_clear, BootText), Prompt)

kernel_shell_Enter ==
    LET v == vga_putchar(vga, "\n")
    IN  CASE input = <<>>       -> Prompted(v)
          [] input = ClearLine  -> Prompted(vga_clear)
          [] input = RebootLine -> Prompted(vga_puts(vga_clear, BootText))
          [] OTHER              -> Prompted(vga_puts(v, ShellPrints(input)))

kernel_shell_CtrlC == Prompted(vga_puts(vga, <<"^", "C", "\n">>))

kernel_shell_Backspace ==
    /\ input # <<>>
    /\ input' = Front(input)
    /\ vga' = vga_putchar(vga, Backspace)
    /\ UNCHANGED straight

Echo_Always(c) == vga' = vga_putchar(vga, c)
Echo(c)        == vga' = IF Len(input) < ShellInput - 1 THEN vga_putchar(vga, c) ELSE vga

kernel_shell_Char(c) ==
    /\ input' = IF Len(input) < ShellInput - 1 THEN Append(input, c) ELSE input
    /\ Echo(c)
    /\ straight' = (straight /\ c # "\t" /\ vga'.col >= vga.col)

ConsoleInit == vga = ShellBoot /\ input = <<>> /\ straight = TRUE

ConsoleNext ==
    /\ \/ kernel_shell_Enter \/ kernel_shell_CtrlC \/ kernel_shell_Backspace
       \/ \E c \in ShellChars : kernel_shell_Char(c)
    /\ vga'.scrolled <= MaxScrolled

ConsoleSpec == ConsoleInit /\ [][ConsoleNext]_consoleVars

-----------------------------------------------------------------------------
(* Wherever lines wrap and the screen scrolls, it shows the last rows of   *)
(* what has been printed since it was cleared, and the cursor is on it.    *)
ScreenIsTail ==
    /\ vga.row \in 0..(TextHeight - 1) /\ vga.col \in 0..(TextWidth - 1)
    /\ \A r \in 0..(TextHeight - 1) : vga.buffer[r] = vga.paper[r + vga.scrolled]

(* The line in front of the cursor is the line that Enter will run, after  *)
(* any keys, the limit of the input included.  It is not when a backspace  *)
(* comes to the start of a row or meets a tab, hence straight.             *)
EchoShown ==
    straight => /\ vga.col = Len(Prompt) + Len(input)
                /\ \A i \in DOMAIN input : vga.buffer[vga.row][Len(Prompt) + i - 1] = input[i]
=============================================================================
