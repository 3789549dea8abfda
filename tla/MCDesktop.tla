----------------------------- MODULE MCDesktop -----------------------------
(***************************************************************************)
(* A screen of six by four cells, with a taskbar of one row.               *)
(***************************************************************************)
EXTENDS Compositor, TLC

MCGeometry    == ("term" :> Rect(1, 0, 4, 2)) @@ ("edit" :> Rect(0, 1, 4, 2)) @@ ("about" :> Rect(2, 1, 4, 2))
MCIcon        == ("term" :> Rect(0, 0, 1, 1)) @@ ("edit" :> Rect(2, 0, 1, 1)) @@ ("about" :> Rect(5, 0, 1, 1))
MCStartButton == Rect(0, 3, 2, 1)
=============================================================================
