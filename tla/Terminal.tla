------------------------------ MODULE Terminal ------------------------------
(***************************************************************************)
(* apps/terminal.c: the lines of the terminal and the line being typed.    *)
(* Text is a sequence of characters of which only the line break "n" is    *)
(* special.  A command is the text typed; Output gives what it prints      *)
(* after its echo, Clears the command that empties the terminal.           *)
(***************************************************************************)
EXTENDS Integers, Sequences, SequencesExt

CONSTANTS TERM_MAX_LINES, TERM_LINE_LEN, TERM_INPUT_LEN,
          TermChars,       \* characters that can be typed
          Clears,          \* the text of the command clear
          Welcome, Hint,   \* what a new terminal shows
          Output(_)        \* what a command prints

TermInputs == UNION {[1..n -> TermChars] : n \in 0..(TERM_INPUT_LEN - 1)}

ASSUME TermAssumption ==
    /\ TERM_MAX_LINES \in Nat \ {0} /\ TERM_LINE_LEN \in Nat \ {0} /\ TERM_INPUT_LEN \in Nat \ {0}
    /\ Welcome \in Seq(ToSet(Welcome)) /\ Len(Welcome) < TERM_LINE_LEN /\ Hint \in Seq(ToSet(Hint))
    /\ \A cmd \in TermInputs : Output(cmd) \in Seq(ToSet(Output(cmd)))

VARIABLES term_lines, term_line_count, term_input

termVars == <<term_lines, term_line_count, term_input>>

Newline == "n"
Blank   == [i \in 1..TERM_MAX_LINES |-> <<>>]

Capped_Wraps(n)  == IF n > TERM_MAX_LINES THEN 1 ELSE n
Capped(n)        == IF n > TERM_MAX_LINES THEN TERM_MAX_LINES ELSE n

(* One turn of the loop of term_print: t is the lines and their count.     *)
Put(t, c) ==
    IF c = Newline
    THEN LET n == Capped(t.count + 1) IN [lines |-> [t.lines EXCEPT ![n] = <<>>], count |-> n]
    ELSE LET n == IF t.count > 0 THEN t.count ELSE 1
         IN  IF Len(t.lines[n]) < TERM_LINE_LEN - 1
             THEN [t EXCEPT !.lines[n] = Append(@, c)]
             ELSE t

(* What the loop has made of t after each character of str.                *)
Turns(t, str) ==
    LET turn[n \in 0..Len(str)] == IF n = 0 THEN t ELSE Put(turn[n - 1], str[n]) IN turn

term_print(t, str) ==
    LET r == Turns(t, str)[Len(str)] IN [r EXCEPT !.count = IF @ = 0 THEN 1 ELSE @]

(* The command is echoed before it is looked at.                           *)
Echoed(t, cmd) == term_print(term_print(term_print(t, <<"$">>), cmd), <<Newline>>)

term_execute(t, cmd) ==
    IF cmd = Clears THEN [lines |-> Blank, count |-> 0]
                    ELSE term_print(Echoed(t, cmd), Output(cmd))

Now        == [lines |-> term_lines, count |-> term_line_count]
Becomes(t) == term_lines' = t.lines /\ term_line_count' = t.count

(* app_terminal_create: the first line is set, the others and the input    *)
(* stay as an earlier window left them.                                    *)
app_terminal_create ==
    /\ Becomes(term_print([lines |-> [term_lines EXCEPT ![1] = Welcome], count |-> 1], Hint))
    /\ UNCHANGED term_input

term_on_key_Enter ==
    /\ Becomes(term_execute(Now, term_input))
    /\ term_input' = <<>>

term_on_key_Backspace ==
    /\ term_input # <<>>
    /\ term_input' = Front(term_input)
    /\ UNCHANGED <<term_lines, term_line_count>>

term_on_key_CtrlC ==
    /\ Becomes(term_print(Now, <<"^", "C", Newline>>))
    /\ term_input' = <<>>

RoomForKey_OneLate == Len(term_input) < TERM_INPUT_LEN
RoomForKey         == Len(term_input) < TERM_INPUT_LEN - 1

term_on_key_Char(c) ==
    /\ RoomForKey
    /\ term_input' = Append(term_input, c)
    /\ UNCHANGED <<term_lines, term_line_count>>

TermInit ==
    /\ term_input = <<>>
    /\ LET t == term_print([lines |-> [Blank EXCEPT ![1] = Welcome], count |-> 1], Hint)
       IN  term_lines = t.lines /\ term_line_count = t.count

TermNext ==
    \/ app_terminal_create
    \/ term_on_key_Enter \/ term_on_key_Backspace \/ term_on_key_CtrlC
    \/ \E c \in TermChars : term_on_key_Char(c)

TermSpec == TermInit /\ [][TermNext]_termVars

-----------------------------------------------------------------------------
(* Lines and input stay within their arrays, with room for the terminating *)
(* zero.                                                                   *)
TermTypeOK ==
    /\ term_line_count \in 0..TERM_MAX_LINES
    /\ \A i \in 1..TERM_MAX_LINES : Len(term_lines[i]) < TERM_LINE_LEN
    /\ Len(term_input) < TERM_INPUT_LEN

(* What was printed stays: a key changes only the last line and those      *)
(* after it, also when the terminal is full, unless it is the Enter of a   *)
(* clear command.                                                          *)
HistoryKept ==
    [][term_line_count' # 0 /\ ~app_terminal_create =>
         /\ \A i \in 1..(term_line_count - 1) : term_lines'[i] = term_lines[i]
         /\ term_line_count' >= term_line_count]_termVars
=============================================================================
