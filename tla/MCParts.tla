------------------------------ MODULE MCParts ------------------------------
(***************************************************************************)
(* Each part on a small instance.                                          *)
(***************************************************************************)
EXTENDS Parts

(* Two peers, one of which changes its network card.                       *)
MCMacs      == ("A" :> {"a1", "a2"}) @@ ("B" :> {"b"})

(* Motion to all sides, the largest negative one included.                 *)
MCReports   == {<<1, 1, 0>>, <<0, 3, 2>>, <<2, 2, 1>>, <<3, 0, 3>>}

(* Deleted and live entries, a name that occurs twice, and the end mark.   *)
MCEntryAt(c, s) == CASE <<c, s>> = <<2, 0>> -> "deleted" [] <<c, s>> = <<2, 1>> -> "a"
                     [] <<c, s>> = <<3, 0>> -> "a"       [] <<c, s>> = <<3, 1>> -> "b"
                     [] <<c, s>> = <<4, 0>> -> "volume"  [] OTHER -> "end"

MCClears    == <<"c">>
MCWelcome   == <<"W">>
MCHint      == <<"H", "n">>
MCOutput(cmd) == IF cmd = <<>> THEN <<>> ELSE IF Head(cmd) = "e" THEN Tail(cmd) \o <<"n">>
                                              ELSE <<"?">> \o cmd \o <<"n", "!", "n">>
MCSample    == <<"s", "\n">>
MCResults   == {<<"0">>, <<"-", "d">>, <<"d", ".", "d">>, <<"-", "d", ".", "d">>}

MCShellChars == {"c", "\t"}
MCPrompt     == <<">">>
MCBootText   == <<"B", "\n">>
MCClearLine  == <<"c">>
MCRebootLine == <<"c", "c">>
(* A line longer than the row.                                             *)
MCShellPrints(cmd) == <<"e", "c", "h", "o">> \o cmd \o <<"\n">>

MCStrings   == BoundedSeq({1, 2}, 3)
MCFormats   == {f \in BoundedSeq({"x", "%", "d", "5", "q"}, 4) :
                   Cardinality({i \in DOMAIN f : f[i] = "%"}) <= 2}
MCSegments  == {b \in BoundedSeq(0..3, 5) : Len(b) >= 3}
(* A, b and the period.                                                    *)
MCNames     == BoundedSeq({65, 98, 46}, 5) \ {<<>>}
(* a, the colon, the slash and the digit 8.                                *)
MCUrls      == BoundedSeq({97, 58, 47, 56}, 4)
MCInts      == -16..15
=============================================================================
