----------------------------- MODULE TextEditor -----------------------------
(***************************************************************************)
(* apps/text_editor.c: a text buffer with a cursor and a first line shown. *)
(* Keys go in and out at the cursor by shifting the rest of the buffer one *)
(* byte at a time.  The buffer holds TeSize bytes, the last one for the    *)
(* terminating zero.                                                       *)
(***************************************************************************)
EXTENDS Integers, Sequences, SequencesExt, FiniteSets

CONSTANTS TeSize, TeChars, TeSample, TeVisible

ASSUME TeAssumption ==
    /\ TeSize \in Nat /\ TeVisible \in Nat /\ TeVisible > 1
    /\ TeSample \in Seq(ToSet(TeSample)) /\ Len(TeSample) < TeSize

VARIABLES te_buffer, te_len, te_cursor, te_scroll_y,
          te_text    \* the text as the user typed it

teVars == <<te_buffer, te_len, te_cursor, te_scroll_y, te_text>>

Break == "\n"

(* for (i = from; i < to; i++) buf[i] = buf[i + 1], and its counterpart.   *)
Shifted(b, i, j) == [b EXCEPT ![i] = b[j]]

ShiftLeft(buf, from, to) ==
    LET turn[k \in 0..(to - from)] == IF k = 0 THEN buf ELSE Shifted(turn[k - 1], from + k - 1, from + k)
    IN  turn[to - from]
ShiftRight_Upwards(buf, from, to) ==
    LET turn[k \in 0..(from - to)] == IF k = 0 THEN buf ELSE Shifted(turn[k - 1], to + k, to + k - 1)
    IN  turn[from - to]
ShiftRight(buf, from, to) ==
    LET turn[k \in 0..(from - to)] == IF k = 0 THEN buf ELSE Shifted(turn[k - 1], from - k + 1, from - k)
    IN  turn[from - to]

CurLine(buf, cursor, len) == 1 + Cardinality({i \in 0..(len - 1) : i < cursor /\ buf[i] = Break})

Down_OneLate(line, scroll) == IF line - scroll > TeVisible THEN line - TeVisible + 1 ELSE scroll
Down(line, scroll)         == IF line - scroll >= TeVisible THEN line - TeVisible + 1 ELSE scroll
AutoScroll(line, scroll)   == LET s == Down(line, scroll) IN IF line - s < 1 THEN line - 1 ELSE s

(* What every key ends with: the terminating zero and the scrolling.       *)
Edited(buf, len, cursor) ==
    /\ te_buffer' = [buf EXCEPT ![len] = "zero"]
    /\ te_len' = len
    /\ te_cursor' = cursor
    /\ te_scroll_y' = AutoScroll(CurLine(te_buffer', cursor, len), te_scroll_y)

te_on_key_Backspace ==
    /\ te_cursor > 0
    /\ Edited(ShiftLeft(te_buffer, te_cursor - 1, te_len - 1), te_len - 1, te_cursor - 1)
    /\ te_text' = RemoveAt(te_text, te_cursor)

te_on_key_Insert(key) ==
    /\ te_len < TeSize - 1
    /\ Edited([ShiftRight(te_buffer, te_len, te_cursor) EXCEPT ![te_cursor] = key], te_len + 1, te_cursor + 1)
    /\ te_text' = InsertAt(te_text, te_cursor + 1, key)

(* app_text_editor_create: the sample, with the cursor before it.          *)
Sample == [i \in 0..(TeSize - 1) |-> IF i < Len(TeSample) THEN TeSample[i + 1] ELSE "zero"]

app_text_editor_create ==
    /\ te_buffer' = [i \in 0..(TeSize - 1) |-> IF i <= Len(TeSample) THEN Sample[i] ELSE te_buffer[i]]
    /\ te_len' = Len(TeSample)
    /\ te_cursor' = 0
    /\ te_scroll_y' = 0
    /\ te_text' = TeSample

TeInit ==
    /\ te_buffer = Sample
    /\ te_len = Len(TeSample) /\ te_cursor = 0 /\ te_scroll_y = 0 /\ te_text = TeSample

TeNext ==
    \/ te_on_key_Backspace
    \/ \E key \in TeChars \cup {Break} : te_on_key_Insert(key)
    \/ app_text_editor_create

TeSpec == TeInit /\ [][TeNext]_teVars

-----------------------------------------------------------------------------
(* The buffer holds the text that was typed, whatever is put in and taken  *)
(* out in the middle, followed by its zero.                                *)
BufferIsText ==
    /\ te_len = Len(te_text) /\ te_len < TeSize
    /\ \A i \in 0..(te_len - 1) : te_buffer[i] = te_text[i + 1]
    /\ te_buffer[te_len] = "zero" /\ te_cursor \in 0..te_len

(* The line of the cursor is one of those shown.                           *)
CursorShown == CurLine(te_buffer, te_cursor, te_len) - te_scroll_y \in 1..(TeVisible - 1)
=============================================================================
