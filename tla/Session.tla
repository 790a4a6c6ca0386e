------------------------------ MODULE Session -------------------------------
(***************************************************************************)
(* A session (internal/agent/session): Run calls the function again each   *)
(* time its context runs out, without waiting for the one it gave up, and  *)
(* Stop ends the context of them all.                                      *)
(***************************************************************************)
EXTENDS Naturals, FiniteSets

CONSTANT MaxRestarts \* Config.MaxRestarts, and the bound of the calls of the function

Iterations == 1 .. MaxRestarts

VARIABLES restarts, \* Session.restartCount
          run,      \* Run: where it is
          fn,       \* per iteration: the function's call: none, runs, ok or error
          spent,    \* the iterations whose context has ended
          halted    \* the context of the session has ended

sessionVars == <<restarts, run, fn, spent, halted>>

SessionInit ==
    /\ restarts = 0 /\ run = "idle" /\ halted = FALSE
    /\ fn = [i \in Iterations |-> "none"] /\ spent = {}

Called == {i \in Iterations : fn[i] # "none"}
Current == Cardinality(Called)

BeginRun ==
    /\ run = "idle" /\ run' = "next"
    /\ UNCHANGED <<restarts, fn, spent, halted>>

Iterate ==
    /\ run = "next"
    /\ IF restarts >= MaxRestarts THEN run' = "exceeded" /\ UNCHANGED fn
       ELSE run' = "select" /\ fn' = [fn EXCEPT ![restarts + 1] = "runs"]
    /\ UNCHANGED <<restarts, spent, halted>>

FunctionEnds(i) ==
    /\ fn[i] = "runs" /\ \E r \in {"ok", "error"} : fn' = [fn EXCEPT ![i] = r]
    /\ UNCHANGED <<restarts, run, spent, halted>>

TimeRunsOut ==
    /\ run = "select" /\ Current \notin spent
    /\ spent' = spent \cup {Current}
    /\ UNCHANGED <<restarts, run, fn, halted>>

SelectResult ==
    /\ run = "select" /\ fn[Current] \in {"ok", "error"}
    /\ run' = fn[Current]
    /\ UNCHANGED <<restarts, fn, spent, halted>>

\* Mutant: only a timeout is looked for.
SelectTimeoutOnly ==
    /\ run = "select" /\ Current \in spent
    /\ run' = "next" /\ restarts' = restarts + 1
    /\ UNCHANGED <<fn, spent, halted>>

\* The case may be taken although the function has ended too: its result is lost.
SelectTimeout ==
    /\ run = "select" /\ (halted \/ Current \in spent)
    /\ IF halted THEN run' = "stopped" /\ UNCHANGED restarts
       ELSE run' = "next" /\ restarts' = restarts + 1
    /\ UNCHANGED <<fn, spent, halted>>

Halt ==
    /\ ~halted /\ halted' = TRUE
    /\ UNCHANGED <<restarts, run, fn, spent>>

SessionStep == Iterate \/ SelectResult \/ SelectTimeout

SessionNext ==
    BeginRun \/ SessionStep \/ TimeRunsOut \/ Halt \/ \E i \in Iterations : FunctionEnds(i)

----------------------------------------------------------------------------
(* Properties *)

\* Run returns after Stop although the function goes on.
Overdue == halted /\ run \in {"next", "select"}
SessionEnds == Overdue ~> ~Overdue
=============================================================================
