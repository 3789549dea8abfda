-------------------------------- MODULE Apps --------------------------------
(***************************************************************************)
(* What the user types into: the terminal, the editor, the calculator and  *)
(* the shell on the text screen.                                           *)
(***************************************************************************)
EXTENDS Terminal, TextEditor, Calculator, Console

(* What the user typed is what the program holds and shows: the lines of   *)
(* the terminal, the editor's buffer and cursor, the calculator's display, *)
(* and the screen of the shell, when they are full, wrap or scroll.        *)
AppsSound ==
    /\ TermTypeOK /\ BufferIsText /\ CursorShown /\ DisplayReadable
    /\ ScreenIsTail /\ EchoShown
=============================================================================
