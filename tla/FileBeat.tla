----------------------------- MODULE FileBeat -------------------------------
(***************************************************************************)
(* The heartbeat file of one agent: the writer, the monitor and the alerts *)
(* of internal/heartbeat (writer.go, file_monitor.go, alerter.go).  Writer *)
(* and monitor start and stop alike: a loop that reads the current context *)
(* again each time, and a Stop that waits for all loops.  A tick is half a *)
(* minute.  The writer and the monitor are two programs, which share only  *)
(* the file.                                                               *)
(***************************************************************************)
EXTENDS Naturals, FiniteSets

CONSTANTS MaxWriters,   \* bound: the calls of Start of the writer
          MaxMonitors,  \* and of the monitor
          DegradedAge, UnresponsiveAge,
          MaxMisses      \* bound: the writes and reads that fail

Sides == {"writer", "monitor"}
MaxRuns(s) == IF s = "writer" THEN MaxWriters ELSE MaxMonitors
Runs(s) == 1 .. MaxRuns(s)

NoFile == UnresponsiveAge + 1

VARIABLES age,     \* the time since the one in the heartbeat file, or NoFile
          beating, \* per side: running, and the number of its context
          dropped, \* per side: the contexts that are cancelled
          beat,    \* per side and Start call: where it or its loop is
          stopper, \* per side: whether a Stop waits for the loops
          seen,  \* FileMonitor.agents: the state of the agent
          alerts,  \* the goroutines of onAlert that are still to run
          told,    \* whether it was told to be unresponsive since it was last seen healthy
          quiet,   \* Alerter.closed
          misses,  \* the writes and reads that have failed
          raced    \* history: per side, a Start came while a Stop waited

beatVars == <<age, beating, dropped, beat, stopper, seen, alerts, told, quiet, misses,
              raced>>

BeatInit ==
    /\ age = NoFile
    /\ beating = [s \in Sides |-> [running |-> FALSE, context |-> 0]]
    /\ dropped = [s \in Sides |-> {}]
    /\ beat = [s \in Sides |-> [n \in Runs(s) |-> "none"]]
    /\ stopper = [s \in Sides |-> FALSE]
    /\ seen = "unknown" /\ alerts = {} /\ told = FALSE /\ quiet = FALSE /\ misses = 0
    /\ raced = [s \in Sides |-> FALSE]

BeatAt(s, n, where) == beat' = [beat EXCEPT ![s][n] = where]
Loops(s) == {n \in Runs(s) : beat[s][n] = "wait"}

\* The later states are the worse ones.
Rank(state) == CASE state = "unknown" -> 0 [] state = "healthy" -> 1
                 [] state = "degraded" -> 2 [] OTHER -> 3

DetermineState(since) ==
    CASE since >= UnresponsiveAge -> "unresponsive"
      [] since >= DegradedAge -> "degraded"
      [] OTHER -> "healthy"

----------------------------------------------------------------------------
(* write and checkFile *)

WriteFile ==
    /\ age' = 0
    /\ UNCHANGED <<seen, alerts, told, misses>>

WriteMisses ==
    /\ misses < MaxMisses /\ misses' = misses + 1
    /\ UNCHANGED <<age, seen, alerts, told>>

\* Mutant: the alert is for the step from healthy only.
CheckFileOnce ==
    /\ UNCHANGED <<age, misses>>
    /\ IF age = NoFile THEN UNCHANGED <<seen, alerts, told>>
       ELSE LET new == DetermineState(age) IN
            /\ seen' = new /\ told' = (told /\ new # "healthy")
            /\ alerts' = IF Rank(seen) <= 1 /\ Rank(new) > 1 THEN alerts \cup {new} ELSE alerts

\* Every change to a state that is not healthy is an alert of its own goroutine.
CheckFile ==
    /\ UNCHANGED <<age, misses>>
    /\ IF age = NoFile THEN UNCHANGED <<seen, alerts, told>>
       ELSE LET new == DetermineState(age) IN
            /\ seen' = new /\ told' = (told /\ new # "healthy")
            /\ alerts' = IF new # seen /\ Rank(new) > 1 THEN alerts \cup {new} ELSE alerts

CheckMisses ==
    /\ misses < MaxMisses /\ misses' = misses + 1
    /\ UNCHANGED <<age, seen, alerts, told>>

Work(s) == IF s = "writer" THEN WriteFile \/ WriteMisses ELSE CheckFile \/ CheckMisses

----------------------------------------------------------------------------
(* Start, Stop and the loops *)

BeatStart(s) ==
    /\ beating[s].context < MaxRuns(s) /\ ~beating[s].running
    /\ \A n \in Runs(s) : beat[s][n] # "first"
    /\ LET n == beating[s].context + 1 IN
         /\ beating' = [beating EXCEPT ![s] = [running |-> TRUE, context |-> n]]
         /\ BeatAt(s, n, "first")
    /\ raced' = [raced EXCEPT ![s] = @ \/ stopper[s]]
    /\ UNCHANGED <<age, dropped, stopper, seen, alerts, told, quiet, misses>>

\* The first write or check is part of Start, which then makes the loop.  Without its
\* first write the writer says that it runs, but has none.
BeatFirst(s, n) ==
    /\ beat[s][n] = "first"
    /\ Work(s)
    /\ BeatAt(s, n, IF s = "writer" /\ misses' > misses THEN "end" ELSE "wait")
    /\ UNCHANGED <<beating, dropped, stopper, quiet, raced>>

\* Of the cases that are ready the one that ends the loop is taken: the other one only
\* puts it off.
BeatWork(s, n) ==
    /\ beat[s][n] = "wait" /\ beating[s].context \notin dropped[s]
    /\ Work(s)
    /\ UNCHANGED <<beating, beat, dropped, stopper, quiet, raced>>

BeatEnds(s, n) ==
    /\ beat[s][n] = "wait" /\ beating[s].context \in dropped[s]
    /\ BeatAt(s, n, "end")
    /\ UNCHANGED <<age, beating, dropped, stopper, seen, alerts, told, quiet, misses,
                   raced>>

BeatStop(s) ==
    /\ beating[s].running /\ ~stopper[s]
    /\ beating' = [beating EXCEPT ![s].running = FALSE]
    /\ dropped' = [dropped EXCEPT ![s] = @ \cup {beating[s].context}]
    /\ stopper' = [stopper EXCEPT ![s] = TRUE]
    /\ UNCHANGED <<age, beat, seen, alerts, told, quiet, misses, raced>>

\* Stop has waited for all loops, those of a later Start too.
BeatStopped(s) ==
    /\ stopper[s] /\ Loops(s) = {}
    /\ stopper' = [stopper EXCEPT ![s] = FALSE]
    /\ UNCHANGED <<age, beating, dropped, beat, seen, alerts, told, quiet, misses, raced>>

----------------------------------------------------------------------------
(* The alerts, which may come in another order, and the time *)

Alert(state) ==
    /\ state \in alerts /\ alerts' = alerts \ {state}
    /\ told' = (told \/ (~quiet /\ state = "unresponsive"))
    /\ UNCHANGED <<age, beating, dropped, beat, stopper, seen, quiet, misses, raced>>

CloseAlerter ==
    /\ ~quiet /\ quiet' = TRUE
    /\ UNCHANGED <<age, beating, dropped, beat, stopper, seen, alerts, told, misses, raced>>

\* Nothing bounds how late a loop is; what is unresponsive gets no older.
BeatTick ==
    /\ age < UnresponsiveAge /\ age' = age + 1
    /\ UNCHANGED <<beating, dropped, beat, stopper, seen, alerts, told, quiet, misses,
                   raced>>

BeatGoes(s, n) == BeatFirst(s, n) \/ BeatWork(s, n) \/ BeatEnds(s, n)

BeatNext ==
    \/ BeatTick \/ CloseAlerter
    \/ \E state \in {"degraded", "unresponsive"} : Alert(state)
    \/ \E s \in Sides :
        \/ BeatStart(s) \/ BeatStop(s) \/ BeatStopped(s)
        \/ \E n \in Runs(s) : BeatGoes(s, n)

----------------------------------------------------------------------------
(* Properties *)

\* Stop returns, unless a Start came while it waited.
InStop == \E s \in Sides : stopper[s] /\ ~raced[s]
BeatStopReturns == InStop ~> ~InStop


\* An agent that has been silent for long is told to be unresponsive, while the
\* monitor runs and unless the agent writes again: once since it was last seen
\* healthy.
Unnoticed ==
    /\ beating["monitor"].running /\ Loops("monitor") # {} /\ ~quiet
    /\ age = UnresponsiveAge /\ ~told
SilenceIsTold == Unnoticed ~> ~Unnoticed
=============================================================================
