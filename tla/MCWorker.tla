------------------------------ MODULE MCWorker ------------------------------
(* Instances of Worker for TLC. *)
EXTENDS Worker, TLC
CONSTANTS c1, c2, c3, t1
ChatOne == {c1}
ChatTwo == {c1, c2}
ChatThree == {c1, c2, c3}
NoTasks == {}
TaskOne == {t1}
MonitorResets == {"monitor"}
NoResets == {}
BothReset == {"user", "monitor"}
ChatSymmetry == Permutations({c1, c2, c3})
=============================================================================
