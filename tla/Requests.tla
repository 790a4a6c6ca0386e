------------------------------ MODULE Requests ------------------------------
(***************************************************************************)
(* What an agent worker promises to whoever asks it something: a request   *)
(* is asked at most once, and at most one response is ever put on its      *)
(* response channel.  internal/agent/worker/worker.go keeps this promise   *)
(* with two goroutines, buffered channels and contexts; Worker.tla shows   *)
(* how, and implements this specification.                                 *)
(***************************************************************************)

EXTENDS Sequences

CONSTANTS Req,        \* requests, one per call of SendChat or SendTask
          Verdict     \* the kinds of response

VARIABLES asked,      \* requests some goroutine has asked
          resp        \* what has been sent on each response channel

vars == <<asked, resp>>

Init ==
  /\ asked = {}
  /\ resp = [r \in Req |-> <<>>]

Ask(r) ==
  /\ r \notin asked
  /\ asked' = asked \union {r}
  /\ UNCHANGED resp

Answer(r) ==
  /\ r \in asked
  /\ resp[r] = <<>>
  /\ \E v \in Verdict : resp' = [resp EXCEPT ![r] = <<v>>]
  /\ UNCHANGED asked

Next == \E r \in Req : Ask(r) \/ Answer(r)

Spec == Init /\ [][Next]_vars

=============================================================================
