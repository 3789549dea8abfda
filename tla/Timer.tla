------------------------------- MODULE Timer -------------------------------
(***************************************************************************)
(* drivers/timer.c: the tick counter and timer_sleep.  All sleepers share  *)
(* one variable, sleep_ticks, which the interrupt counts down.  The store  *)
(* of sleep_ticks and the test for zero that follows it are separate       *)
(* steps: a tick, or another sleeper, may come in between.                 *)
(***************************************************************************)
EXTENDS Integers

CONSTANTS Sleepers, Ms,
          TickBits,   \* bits of the product of a sleep's milliseconds, 32
          TickWrap,   \* where the tick counter wraps, 2^32
          MaxSleeps

ASSUME TimerAssumption == Ms \subseteq Nat /\ 2^TickBits \in Nat \ {0}

VARIABLES ticks, sleep_ticks, sleeper,
          owed,   \* ticks each sleeper still has to be asleep
          last,   \* the sleeper that has stored sleep_ticks last
          sleeps  \* calls so far

timerVars == <<ticks, sleep_ticks, sleeper, owed, last, sleeps>>

timer_init ==
    /\ ticks = 0 /\ sleep_ticks = 0 /\ sleeps = 0
    /\ sleeper = [p \in Sleepers |-> "awake"]
    /\ owed = [p \in Sleepers |-> 0]
    /\ last \in Sleepers

Decremented_Double(n) == IF n > 1 THEN n - 2 ELSE 0
Decremented_Stuck(n)  == IF n > 1 THEN n - 1 ELSE n
Decremented(n)        == IF n > 0 THEN n - 1 ELSE 0

timer_irq ==
    /\ ticks' = (ticks + 1) % TickWrap
    /\ sleep_ticks' = Decremented(sleep_ticks)
    /\ owed' = [p \in Sleepers |-> IF owed[p] > 0 THEN owed[p] - 1 ELSE 0]
    /\ UNCHANGED <<sleeper, last, sleeps>>

(* (ms * 100) / 1000 on 32 bits, TickBits here.                            *)
Armed(ms) == ((ms * 100) % 2^TickBits) \div 1000

timer_sleep(p, ms) ==
    /\ sleeper[p] = "awake" /\ sleeps < MaxSleeps
    /\ sleep_ticks' = Armed(ms)
    /\ sleeper' = [sleeper EXCEPT ![p] = "stored"]
    /\ owed' = [owed EXCEPT ![p] = Armed(ms)]
    /\ last' = p
    /\ sleeps' = sleeps + 1
    /\ UNCHANGED ticks

timer_sleep_AtLeastOne(p) ==
    /\ sleeper[p] = "stored"
    /\ sleep_ticks' = IF sleep_ticks = 0 THEN 1 ELSE sleep_ticks
    /\ sleeper' = [sleeper EXCEPT ![p] = "halted"]
    /\ UNCHANGED <<ticks, owed, last, sleeps>>

timer_sleep_Return(p) ==
    /\ sleeper[p] = "halted" /\ sleep_ticks = 0
    /\ sleeper' = [sleeper EXCEPT ![p] = "awake"]
    /\ UNCHANGED <<ticks, sleep_ticks, owed, last, sleeps>>

TimerNext ==
    \/ timer_irq
    \/ \E p \in Sleepers : \/ \E ms \in Ms : timer_sleep(p, ms)
                           \/ timer_sleep_AtLeastOne(p)
                           \/ timer_sleep_Return(p)

TimerSpec == timer_init /\ [][TimerNext]_timerVars

-----------------------------------------------------------------------------
(* Whoever armed the shared countdown last sleeps at least the ticks it    *)
(* asked for, whatever the other sleepers do; an earlier sleeper may be    *)
(* woken early or late by a later one.                                     *)
LastSleeperServed ==
    [][\A p \in Sleepers :
          (p = last /\ sleeper[p] = "halted" /\ sleeper'[p] = "awake") => owed[p] = 0]_timerVars

(* Everyone who sleeps wakes up, although sleepers overwrite each other's  *)
(* countdown, as long as the calls come to an end.                         *)
SleepersWake == \A p \in Sleepers : sleeper[p] # "awake" ~> sleeper[p] = "awake"

(* Both: a sleep is long enough for the last to ask, and ends for all.     *)
SleepsServed == LastSleeperServed /\ SleepersWake
=============================================================================
