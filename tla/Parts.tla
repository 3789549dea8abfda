------------------------------- MODULE Parts -------------------------------
(***************************************************************************)
(* The parts of croOS that share no state with others: the network,        *)
(* the mouse, the timer, the disk, the FAT16 reader, three applications,   *)
(* the console and the pure functions.  A behaviour is one of one of them, *)
(* the others stay as they start; vars are the variables of the network.   *)
(***************************************************************************)
EXTENDS Net, Drivers, Timer, Fat16, Apps, Library

VARIABLE part    \* the part that moves

partVars == <<part, vars, mouseVars, timerVars, ataVars, fatVars, termVars, teVars, calcVars, consoleVars, call>>

(* What a part may start with matters only if it is the one that moves.    *)
PartsInit ==
    /\ part \in {"net", "mouse", "timer", "ata", "fat", "term", "te", "calc", "console", "lib"}
    /\ Init /\ mouse_init /\ timer_init /\ ata_init /\ fat16_init /\ TermInit /\ TeInit /\ CalcInit /\ ConsoleInit
    /\ LibInit
    /\ part # "timer" => last = CHOOSE p \in Sleepers : TRUE
    /\ part # "ata" => present = {}
    /\ part # "fat" => fat_cache /\ \A c \in Clusters : fat[c] = EndOfChain

NetStep   == part = "net"   /\ Next      /\ UNCHANGED <<part, mouseVars, timerVars, ataVars, fatVars, termVars, teVars, calcVars, consoleVars, call>>
MouseStep == part = "mouse" /\ MouseNext /\ UNCHANGED <<part, vars, timerVars, ataVars, fatVars, termVars, teVars, calcVars, consoleVars, call>>
TimerStep == part = "timer" /\ TimerNext /\ UNCHANGED <<part, vars, mouseVars, ataVars, fatVars, termVars, teVars, calcVars, consoleVars, call>>
AtaStep   == part = "ata"   /\ AtaNext   /\ UNCHANGED <<part, vars, mouseVars, timerVars, fatVars, termVars, teVars, calcVars, consoleVars, call>>
FatStep   == part = "fat"   /\ FatNext   /\ UNCHANGED <<part, vars, mouseVars, timerVars, ataVars, termVars, teVars, calcVars, consoleVars, call>>
TermStep  == part = "term"  /\ TermNext  /\ UNCHANGED <<part, vars, mouseVars, timerVars, ataVars, fatVars, teVars, calcVars, consoleVars, call>>
TeStep    == part = "te"    /\ TeNext    /\ UNCHANGED <<part, vars, mouseVars, timerVars, ataVars, fatVars, termVars, calcVars, consoleVars, call>>
CalcStep  == part = "calc"  /\ CalcNext  /\ UNCHANGED <<part, vars, mouseVars, timerVars, ataVars, fatVars, termVars, teVars, consoleVars, call>>
ConsoleStep == part = "console" /\ ConsoleNext /\ UNCHANGED <<part, vars, mouseVars, timerVars, ataVars, fatVars, termVars, teVars, calcVars, call>>
LibStep   == part = "lib"   /\ LibNext   /\ UNCHANGED <<part, vars, mouseVars, timerVars, ataVars, fatVars, termVars, teVars, calcVars, consoleVars>>

PartsNext == NetStep \/ MouseStep \/ TimerStep \/ AtaStep \/ FatStep \/ TermStep \/ TeStep \/ CalcStep \/ ConsoleStep \/ LibStep

(* The timer ticks and its interrupt returns to the sleepers' loops; an    *)
(* operation on the file system that is running goes on.                   *)
PartsSpec ==
    /\ PartsInit /\ [][PartsNext]_partVars
    /\ part = "net" => Fairness
    /\ WF_timerVars(part = "timer" /\ timer_irq)
    /\ \A p \in Sleepers : WF_timerVars(timer_sleep_AtLeastOne(p)) /\ WF_timerVars(timer_sleep_Return(p))
    /\ WF_fatVars(fat16_read_sector \/ fat16_Finish \/ fat16_TakeBuffer(TRUE))
=============================================================================
