------------------------------ MODULE MCFiles ------------------------------
(***************************************************************************)
(* A file that two paths name, a directory, and a file of /proc.           *)
(***************************************************************************)
EXTENDS Vfs

MCStdDirs   == <<<<"tmp">>>>
MCProcPath  == <<"/", "proc">>
MCProcFiles == <<"version">> :> <<"v", "1">>
MCPaths     == {<<"/", "a">>, <<"/", "/", "/", "a">>, <<"/", "tmp">>, <<"/", "proc", "/", "version">>}
MCNewPaths   == {<<"/", "a">>}
MCWrites    == {<<"\n", "x">>}
=============================================================================
