----------------------------- MODULE AutoReset ------------------------------
(***************************************************************************)
(* The automatic reset of an agent after an error (internal/errorwatch,    *)
(* auto_reset.go).  Several goroutines may call HandleError; the lock is   *)
(* held to look at the cooldown and to record the outcome, not while the   *)
(* reset or the notification of PM runs, each of which ends within         *)
(* ResetTimeout when it heeds its context.                                 *)
(***************************************************************************)
EXTENDS Naturals, FiniteSets

CONSTANTS Handlers,     \* the goroutines that call HandleError
          Cooldown,     \* CooldownPeriod, in ticks
          ResetTimeout, \* in ticks
          MaxFailures,  \* MaxConsecutiveFailures
          FailLimit     \* bound: failures are counted up to it

VARIABLES entry,   \* the state of the agent: whether it is there, the age of the last
                   \* attempt up to Cooldown, the failures in a row
          reset,   \* per goroutine: where its HandleError is, how long its reset runs
          cleared, \* history: the state was cleared during a reset or a notification
          crashed  \* the program has panicked

resetVars == <<entry, reset, cleared, crashed>>

NoEntry == [there |-> FALSE, age |-> Cooldown, fails |-> 0]
Waiting == [at |-> "idle", time |-> 0]

ResetInit ==
    /\ entry = NoEntry /\ reset = [h \in Handlers |-> Waiting]
    /\ cleared = FALSE /\ crashed = FALSE

More(n) == IF n < FailLimit THEN n + 1 ELSE n

\* Mutant: the time of the attempt is kept when it ends only.
HandleErrorLate(h) ==
    /\ reset[h].at = "idle" /\ entry.age >= Cooldown
    /\ entry' = [entry EXCEPT !.there = TRUE]
    /\ reset' = [reset EXCEPT ![h] = [at |-> "reset", time |-> 0]]
    /\ UNCHANGED <<cleared, crashed>>

\* The error is one of the recoverable ones and the cooldown is over.
HandleError(h) ==
    /\ reset[h].at = "idle" /\ entry.age >= Cooldown
    /\ entry' = [entry EXCEPT !.there = TRUE, !.age = 0]
    /\ reset' = [reset EXCEPT ![h] = [at |-> "reset", time |-> 0]]
    /\ UNCHANGED <<cleared, crashed>>

\* The entry may be gone since: recordFailure and recordSuccess do not ask.
RecordFailure(h) ==
    /\ reset[h].at = "reset"
    /\ IF ~entry.there
       THEN crashed' = TRUE /\ UNCHANGED <<entry, reset>>
       ELSE /\ entry' = [entry EXCEPT !.fails = More(@)]
            /\ reset' = [reset EXCEPT ![h] = IF entry'.fails >= MaxFailures
                            THEN [at |-> "escalate", time |-> 0] ELSE Waiting]
            /\ UNCHANGED crashed
    /\ UNCHANGED cleared

RecordSuccess(h) ==
    /\ reset[h].at = "reset"
    /\ IF ~entry.there THEN crashed' = TRUE /\ UNCHANGED <<entry, reset>>
       ELSE /\ entry' = [entry EXCEPT !.fails = 0]
            /\ reset' = [reset EXCEPT ![h] = Waiting]
            /\ UNCHANGED crashed
    /\ UNCHANGED cleared

\* PM is told after the lock is let go.
Escalate(h) ==
    /\ reset[h].at = "escalate"
    /\ reset' = [reset EXCEPT ![h] = Waiting]
    /\ UNCHANGED <<entry, cleared, crashed>>

\* ResetState and ResetAllStates
ResetState ==
    /\ entry.there /\ entry' = NoEntry
    /\ cleared' = (cleared \/ \E h \in Handlers : reset[h].at # "idle")
    /\ UNCHANGED <<reset, crashed>>

\* A reset and a notification end within the timeout.
ResetTick ==
    /\ \A h \in Handlers : reset[h].at # "idle" => reset[h].time < ResetTimeout
    /\ entry' = [entry EXCEPT !.age = IF @ < Cooldown THEN @ + 1 ELSE @]
    /\ reset' = [h \in Handlers |-> IF reset[h].at = "idle" THEN reset[h]
                                    ELSE [reset[h] EXCEPT !.time = @ + 1]]
    /\ UNCHANGED <<cleared, crashed>>

ResetNext ==
    /\ ~crashed
    /\ \/ ResetState \/ ResetTick
       \/ \E h \in Handlers : HandleError(h) \/ RecordFailure(h) \/ RecordSuccess(h) \/ Escalate(h)

----------------------------------------------------------------------------
(* Properties *)

Busy == {h \in Handlers : reset[h].at # "idle"}

\* Unless its state is cleared meanwhile, an agent is reset by one goroutine at a time,
\* and PM is told of an agent only while its last resets have failed: the cooldown is
\* longer than a reset and a notification.
ResetsInTurn ==
    cleared \/ /\ Cardinality(Busy) <= 1
               /\ \A h \in Busy : reset[h].at = "escalate" => entry.fails >= MaxFailures
=============================================================================
