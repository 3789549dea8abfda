----------------------------- MODULE Calculator -----------------------------
(***************************************************************************)
(* apps/calculator.c: what the buttons do to the display.  Numbers are     *)
(* kept as the characters shown, "d" standing for any digit but zero; what *)
(* an operation computes is one of CalcResults, the forms that calc_toa    *)
(* writes for numbers below 2^31: beyond, its (int)val is undefined.       *)
(***************************************************************************)
EXTENDS Integers, Sequences, SequencesExt

CONSTANTS CalcDigits,   \* digits that a display takes, 20
          CalcResults   \* what calc_toa writes

(* What calc_atof reads: at most one point, a sign only in front, and a    *)
(* number of at least one and at most CalcDigits characters.               *)
Magnitude(d) == IF Head(d) = "-" THEN Tail(d) ELSE d
Readable(d) ==
    /\ d # <<>> /\ Len(Magnitude(d)) \in 1..CalcDigits
    /\ \A i, j \in DOMAIN d : d[i] = "." /\ d[j] = "." => i = j
    /\ \A i \in DOMAIN d : d[i] = "-" => i = 1

ASSUME CalcAssumption ==
    /\ CalcDigits \in Nat \ {0}
    /\ \A r \in CalcResults : r \in Seq(ToSet(r)) /\ Readable(r)

VARIABLES calc_display, calc_op, calc_clear_next

calcVars == <<calc_display, calc_op, calc_clear_next>>

app_calculator_create ==
    /\ calc_display' = <<"0">>
    /\ UNCHANGED <<calc_op, calc_clear_next>>

CalcInit == calc_display = <<"0">> /\ calc_op = "none" /\ calc_clear_next = FALSE

Shown        == IF calc_clear_next THEN <<>> ELSE calc_display
Contained_Never(d, c)   == FALSE
Contained(d, c)         == c \in ToSet(d)

(* A leading zero is replaced; a second point is not taken, but the        *)
(* display has been cleared by then if it was to be.                       *)
Typed(d, c) ==
    IF c = "." /\ Contained(d, ".") THEN d
    ELSE LET e == IF d = <<"0">> /\ c # "." THEN <<>> ELSE d
         IN  IF Len(e) < CalcDigits THEN Append(e, c) ELSE e

calc_number(c) ==
    /\ calc_display' = Typed(Shown, c)
    /\ calc_clear_next' = FALSE
    /\ UNCHANGED calc_op

calc_button_Clear ==
    /\ calc_display' = <<"0">>
    /\ calc_op' = "none"
    /\ UNCHANGED calc_clear_next

Negated(d)        == IF d # <<>> /\ Head(d) = "-" THEN Tail(d) ELSE <<"-">> \o d

calc_button_Sign ==
    /\ calc_display' = Negated(calc_display)
    /\ UNCHANGED <<calc_op, calc_clear_next>>

calc_button_Percent ==
    /\ calc_display' \in CalcResults
    /\ UNCHANGED <<calc_op, calc_clear_next>>

calc_button_Operator(op) ==
    /\ calc_op' = op
    /\ calc_clear_next' = TRUE
    /\ UNCHANGED calc_display

(* With no operation pending the result is zero.                           *)
calc_do_op ==
    /\ calc_display' \in IF calc_op = "none" THEN {<<"0">>} ELSE CalcResults
    /\ calc_op' = "none"
    /\ calc_clear_next' = TRUE

CalcNext ==
    \/ app_calculator_create \/ calc_button_Clear \/ calc_button_Sign \/ calc_button_Percent \/ calc_do_op
    \/ \E c \in {"0", "d", "."} : calc_number(c)
    \/ \E op \in {"+", "-", "*", "/"} : calc_button_Operator(op)

CalcSpec == CalcInit /\ [][CalcNext]_calcVars

-----------------------------------------------------------------------------
(* What is shown can be read back by calc_atof, after any buttons, and is  *)
(* no longer than the digits and a sign, which the 32 bytes of the display *)
(* hold.                                                                   *)
DisplayReadable == Readable(calc_display) /\ Len(calc_display) <= CalcDigits + 1
=============================================================================
