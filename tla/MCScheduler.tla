---------------------------- MODULE MCScheduler -----------------------------
(***************************************************************************)
(* TLC instance of Scheduler: days of two hours of three minutes.            *)
(***************************************************************************)
EXTENDS Scheduler

CONSTANTS atMidnight, atLast, startup1, startup2, atSunrise, noSun

MCEntries == {atMidnight, atLast, startup1, startup2, atSunrise}

MCKind == [e \in MCEntries |->
             CASE e \in {atMidnight, atLast}  -> "cron"
               [] e \in {startup1, startup2} -> "startup"
               [] e = atSunrise              -> "sun"]

MCMinutes == [e \in MCEntries |->
                CASE e = atMidnight -> {0}
                  [] e = atLast     -> {2, 5}
                  [] OTHER          -> {}]

\* The sun rises earlier each day, at midnight, and then not at all.
MCSunTime == [d \in 0 .. 14 |-> CASE d = 0 -> 4 [] d = 1 -> 2
                                [] d = 2 -> 0 [] OTHER -> noSun]

MCTables == {<<startup1, atMidnight, atSunrise>>,
             <<atLast, startup2, startup1, atLast>>}

============================================================================
