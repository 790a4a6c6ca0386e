--------------------------- MODULE RecoveryProofs ---------------------------
(***************************************************************************)
(* Theorems of the heartbeat monitor and of the coordinator, for every set *)
(* of workers, agents, tasks and overlapping calls, every limit of the     *)
(* retries and every bound on registrations and records.                   *)
(***************************************************************************)
EXTENDS MCRecovery, TLAPS, FiniteSetTheorems

-----------------------------------------------------------------------------
(* The heartbeat monitor.                                                  *)

MonitorTypes ==
    /\ born \in [Workers -> H!Entries] /\ entry \in [Workers -> 0 .. MaxEntries]
    /\ DOMAIN health = Workers \X H!Entries
    /\ names \subseteq Workers
    /\ checked # H!NoCheck => checked \in Workers \X H!Entries

\* The loop holds a worker while it pings it and names between two pings only, and it
\* has ended when the monitor has.
LoopInTurn ==
    /\ loopPc = "ping" <=> checked # H!NoCheck
    /\ loopPc \in {"none", "select"} => names = {}
    /\ monitor \in {"new", "stopped"} => loopPc = "none"

MonitorInv == MonitorTypes /\ LoopInTurn

LEMMA MonitorInvStart == H!Init => MonitorInv
BY RecoveryAssumption DEF RecoveryAssumption, H!Init, MonitorInv, MonitorTypes, LoopInTurn,
   H!Entries, H!NoCheck

\* What is not about the monitor's loop.
LEMMA OthersKeepMonitor ==
  ASSUME MonitorInv, UNCHANGED <<born, entry, health, monitor, loopPc, names, checked>>
  PROVE  MonitorInv'
BY DEF MonitorInv, MonitorTypes, LoopInTurn

LEMMA RegistrationKeepsMonitor ==
  ASSUME MonitorInv, NEW w \in Workers,
         H!Register(w) \/ H!Unregister(w) \/ H!ResetFailCount(w)
  PROVE  MonitorInv'
<1> USE RecoveryAssumption DEF RecoveryAssumption, MonitorInv, MonitorTypes, H!Entries
<1>1. LoopInTurn'
  BY DEF LoopInTurn, H!Register, H!Unregister, H!ResetFailCount, H!monitorVars
<1>2. CASE H!Register(w)
  BY <1>1, <1>2 DEF H!Register, H!monitorVars
<1>3. CASE H!Unregister(w)
  BY <1>1, <1>3 DEF H!Unregister, H!monitorVars
<1>4. CASE H!ResetFailCount(w)
  BY <1>1, <1>4 DEF H!ResetFailCount, H!monitorVars
<1> QED
  BY <1>2, <1>3, <1>4

LEMMA LoopKeepsMonitor ==
  ASSUME MonitorInv, H!MonitorStart \/ H!MonitorStop \/ H!MonitorJoin \/ H!MonitorLoop
  PROVE  MonitorInv'
<1> USE DEF MonitorInv, LoopInTurn, H!Others, H!agentVars
<1>1. CASE H!MonitorStart
  BY <1>1 DEF H!MonitorStart, MonitorTypes
<1>2. CASE H!MonitorStop
  BY <1>2 DEF H!MonitorStop, MonitorTypes
<1>3. CASE H!MonitorJoin
  BY <1>3 DEF H!MonitorJoin, MonitorTypes
<1>4. CASE H!LoopExit
  BY <1>4 DEF H!LoopExit, MonitorTypes
<1>5. CASE H!LoopTick
  BY <1>5 DEF H!LoopTick, MonitorTypes
<1>6. CASE H!LoopTickDone
  BY <1>6 DEF H!LoopTickDone, MonitorTypes
<1>7. ASSUME NEW w \in Workers, H!CheckBegin(w) PROVE MonitorInv'
  <2>1. /\ names' = names \ {w} /\ loopPc = "checkAll"
        /\ UNCHANGED <<born, entry, health, monitor>>
    BY <1>7 DEF H!CheckBegin
  <2>2. CASE entry[w] = 0
    BY <1>7, <2>1, <2>2 DEF H!CheckBegin, MonitorTypes
  <2>3. CASE entry[w] # 0
    <3>1. loopPc' = "ping" /\ checked' = <<w, entry[w]>>
      BY <1>7, <2>3 DEF H!CheckBegin
    <3>2. entry[w] \in H!Entries
      BY <2>3, RecoveryAssumption DEF MonitorTypes, H!Entries, RecoveryAssumption
    <3>3. checked' \in Workers \X H!Entries /\ checked' # H!NoCheck
      BY <3>1, <3>2 DEF H!NoCheck
    <3> QED
      BY <2>1, <3>1, <3>3 DEF MonitorTypes
  <2> QED
    BY <2>2, <2>3
<1>8. CASE H!CheckEnd
  <2>1. /\ loopPc = "ping" /\ loopPc' = "checkAll" /\ checked' = H!NoCheck
        /\ DOMAIN health' = DOMAIN health
        /\ UNCHANGED <<born, entry, monitor, names>>
    BY <1>8 DEF H!CheckEnd
  <2> QED
    BY <2>1 DEF MonitorTypes
<1> QED
  BY <1>1, <1>2, <1>3, <1>4, <1>5, <1>6, <1>7, <1>8 DEF H!MonitorLoop

LEMMA MonitorInvStep == MonitorInv /\ [H!Next]_(H!vars) => MonitorInv'
<1> SUFFICES ASSUME MonitorInv, [H!Next]_(H!vars) PROVE MonitorInv'
  OBVIOUS
<1>1. ASSUME NEW w \in Workers, H!Agent(w) PROVE MonitorInv'
  BY <1>1, OthersKeepMonitor DEF H!Agent, H!monitorVars
<1>2. ASSUME NEW c \in callbacks, H!Handle(c) PROVE MonitorInv'
  BY <1>2, OthersKeepMonitor DEF H!Handle, H!HandleEnter, H!HandleRestart, H!HandleNotify,
     H!HandleEvent, H!monitorVars
<1>3. CASE H!ShowEvent
  BY <1>3, OthersKeepMonitor DEF H!ShowEvent, H!monitorVars
<1>4. CASE UNCHANGED H!vars
  BY <1>4, OthersKeepMonitor DEF H!vars, H!monitorVars
<1> QED
  BY <1>1, <1>2, <1>3, <1>4, RegistrationKeepsMonitor, LoopKeepsMonitor DEF H!Next

\* Only the end of a check lets go of the worker that is checked.
LEMMA StaleCheckStep ==
  ASSUME MonitorInv, [H!Next]_(H!vars),
         checked # H!NoCheck, checked' = H!NoCheck, checked[2] # entry[checked[1]],
         NEW w \in Workers, entry[w] # 0
  PROVE  health'[<<w, entry[w]>>] = health[<<w, entry[w]>>]
<1>1. loopPc = "ping" /\ checked' # checked
  BY DEF MonitorInv, LoopInTurn
<1>2. H!CheckEnd
  BY <1>1 DEF H!Next, H!vars, H!Agent, H!Register, H!Unregister, H!ResetFailCount,
     H!MonitorStart, H!MonitorStop, H!MonitorJoin, H!MonitorLoop, H!LoopExit, H!LoopTick,
     H!LoopTickDone, H!CheckBegin, H!Handle, H!HandleEnter, H!HandleRestart,
     H!HandleNotify, H!HandleEvent, H!ShowEvent, H!monitorVars
<1>3. <<w, entry[w]>> \in DOMAIN health /\ <<w, entry[w]>> # checked
  BY RecoveryAssumption
  DEF RecoveryAssumption, MonitorInv, MonitorTypes, H!Entries
<1>4. \E h : health' = [health EXCEPT ![checked] = h]
  BY <1>2 DEF H!CheckEnd
<1> QED
  BY <1>3, <1>4

-----------------------------------------------------------------------------
(* The coordinator.                                                        *)

Memories == [Agents -> [C!Records -> [state : C!States, fails : Nat, tried : Nat]]]
CallShapes == [pc : {"idle", "mark", "backoff", "recovered", "giveup", "tasks", "handover"},
               agent : Agents \cup {NoAgent}, rec : 0 .. MaxRecords, count : Nat,
               tasks : SUBSET Tasks, left : SUBSET Tasks, fresh : BOOLEAN]

CallTypes ==
    /\ current \in [Agents -> 0 .. MaxRecords]
    /\ call \in [Calls -> CallShapes]
    /\ \A c \in Calls : call[c].pc # "idle" => call[c].agent \in Agents /\ call[c].rec \in C!Records

\* The calls that will still try to recover an agent for a failure that its record counts.
Pending(a, k) ==
    {c \in Calls : /\ call[c].agent = a /\ call[c].rec = k /\ call[c].fresh
                   /\ call[c].pc \in {"mark", "backoff"}}

\* A record counts every failure that has led or will lead to a recovery.
Bounded(memory) ==
    \A a \in Agents, k \in C!Records :
        LET n == memory[a][k].tried + Cardinality(Pending(a, k))
        IN n <= memory[a][k].fails /\ n <= RetryLimit

RetryInv == info \in Memories /\ CallTypes /\ Bounded(info)

LEMMA PendingIsFinite ==
  ASSUME NEW a, NEW k
  PROVE  IsFiniteSet(Pending(a, k)) /\ Cardinality(Pending(a, k)) \in Nat
BY RecoveryAssumption, FS_Subset, FS_CardinalityType DEF RecoveryAssumption, Pending

LEMMA PendingIsFiniteNext ==
  ASSUME NEW a, NEW k
  PROVE  IsFiniteSet(Pending(a, k)') /\ Cardinality(Pending(a, k)') \in Nat
BY RecoveryAssumption, FS_Subset, FS_CardinalityType DEF RecoveryAssumption, Pending

LEMMA PendingShrinks ==
  ASSUME NEW a, NEW k, Pending(a, k)' \subseteq Pending(a, k)
  PROVE  Cardinality(Pending(a, k)') <= Cardinality(Pending(a, k))
BY PendingIsFinite, FS_Subset

\* A record nobody points to is blank, and no call is pending for it.
LEMMA CollectedIsBounded ==
  ASSUME NEW memory \in Memories, info' = C!Collected(memory),
         \A a \in Agents, k \in C!Records : C!Held(a, k)' =>
             LET n == memory[a][k].tried + Cardinality(Pending(a, k)')
             IN n <= memory[a][k].fails /\ n <= RetryLimit
  PROVE  info' \in Memories /\ Bounded(info)'
<1>1. \A a \in Agents, k \in C!Records :
        info'[a][k] = IF C!Held(a, k)' THEN memory[a][k] ELSE C!Blank
  BY DEF C!Collected
<1>2. info' \in Memories
  <2>1. C!Blank \in [state : C!States, fails : Nat, tried : Nat]
    BY DEF C!Blank, C!States
  <2>2. \A a \in Agents, k \in C!Records :
          (IF C!Held(a, k)' THEN memory[a][k] ELSE C!Blank)
              \in [state : C!States, fails : Nat, tried : Nat]
    BY <2>1 DEF Memories
  <2> QED
    BY <2>2 DEF C!Collected, Memories
<1>3. ASSUME NEW a \in Agents, NEW k \in C!Records, ~C!Held(a, k)'
      PROVE  Pending(a, k)' = {}
  BY <1>3 DEF C!Held, Pending
<1>4. Cardinality({}) = 0
  BY FS_EmptySet
<1>5. ASSUME NEW a \in Agents, NEW k \in C!Records
      PROVE  LET n == info'[a][k].tried + Cardinality(Pending(a, k)')
             IN n <= info'[a][k].fails /\ n <= RetryLimit
  <2>1. CASE C!Held(a, k)'
    BY <1>1, <2>1
  <2>2. CASE ~C!Held(a, k)'
    <3>1. info'[a][k] = C!Blank /\ Cardinality(Pending(a, k)') = 0
      BY <1>1, <1>3, <1>4, <2>2
    <3> QED
      BY <3>1, RecoveryAssumption DEF C!Blank, RecoveryAssumption
  <2> QED
    BY <2>1, <2>2
<1> QED
  BY <1>2, <1>5 DEF Bounded

\* It is enough that no call becomes pending and that counts stay.
LEMMA QuietStepIsBounded ==
  ASSUME RetryInv, NEW memory \in Memories, info' = C!Collected(memory),
         \A a \in Agents, k \in C!Records :
             /\ memory[a][k].tried = info[a][k].tried /\ memory[a][k].fails = info[a][k].fails
             /\ Pending(a, k)' \subseteq Pending(a, k)
  PROVE  info' \in Memories /\ Bounded(info)'
<1>1. ASSUME NEW a \in Agents, NEW k \in C!Records
      PROVE  LET n == memory[a][k].tried + Cardinality(Pending(a, k)')
             IN n <= memory[a][k].fails /\ n <= RetryLimit
  <2>1. /\ Cardinality(Pending(a, k)') <= Cardinality(Pending(a, k))
        /\ Cardinality(Pending(a, k)') \in Nat /\ Cardinality(Pending(a, k)) \in Nat
    BY PendingShrinks, PendingIsFinite, PendingIsFiniteNext
  <2>2. info[a][k].tried \in Nat /\ info[a][k].fails \in Nat /\ RetryLimit \in Nat
    BY RecoveryAssumption DEF RetryInv, Memories, RecoveryAssumption
  <2> QED
    BY <2>1, <2>2 DEF RetryInv, Bounded
<1> QED
  BY <1>1, CollectedIsBounded

LEMMA RetryInvStart == C!Init => RetryInv
<1> SUFFICES ASSUME C!Init PROVE RetryInv
  OBVIOUS
<1> USE DEF C!Init
<1>1. info \in Memories
  BY DEF Memories, C!Blank, C!States
<1>2. CallTypes
  <2>1. C!Idle \in CallShapes
    BY RecoveryAssumption DEF C!Idle, CallShapes, RecoveryAssumption
  <2> QED
    BY <2>1, RecoveryAssumption DEF CallTypes, C!Idle, RecoveryAssumption
<1>3. ASSUME NEW a \in Agents, NEW k \in C!Records
      PROVE  info[a][k].tried = 0 /\ info[a][k].fails = 0 /\ Pending(a, k) = {}
  BY DEF C!Blank, C!Idle, Pending
<1>4. Bounded(info)
  <2>1. Cardinality({}) = 0 /\ RetryLimit \in Nat
    BY FS_EmptySet, RecoveryAssumption DEF RecoveryAssumption
  <2>2. \A a \in Agents, k \in C!Records : Cardinality(Pending(a, k)) = 0
    BY <1>3, <2>1
  <2> QED
    BY <1>3, <2>1, <2>2 DEF Bounded
<1> QED
  BY <1>1, <1>2, <1>4 DEF RetryInv

\* A call that moves on, or returns.
LEMMA CallMoves ==
  ASSUME CallTypes, NEW c \in Calls, call[c].pc # "idle", current' \in [Agents -> 0 .. MaxRecords],
         \/ C!Return(c)
         \/ \E pc \in {"backoff", "recovered", "giveup", "tasks"} : C!Goto(c, pc)
  PROVE  /\ CallTypes'
         /\ C!Return(c) \/ C!Goto(c, "recovered") \/ C!Goto(c, "giveup") \/ C!Goto(c, "tasks")
            => \A a, k : Pending(a, k)' \subseteq Pending(a, k) \ {c}
         /\ C!Goto(c, "backoff") /\ call[c].pc = "mark"
            => \A a, k : Pending(a, k)' \subseteq Pending(a, k)
<1>1. C!Idle \in CallShapes
  BY RecoveryAssumption DEF C!Idle, CallShapes, RecoveryAssumption
<1>2. CASE C!Return(c)
  BY <1>1, <1>2 DEF CallTypes, C!Return, C!Idle, Pending, C!Goto
<1>3. ASSUME NEW pc \in {"backoff", "recovered", "giveup", "tasks"}, C!Goto(c, pc)
      PROVE  /\ CallTypes' /\ call' = [call EXCEPT ![c].pc = pc]
             /\ call'[c].pc = pc
  BY <1>3 DEF CallTypes, CallShapes, C!Goto
<1>4. C!Goto(c, "recovered") \/ C!Goto(c, "giveup") \/ C!Goto(c, "tasks")
      => \A a, k : Pending(a, k)' \subseteq Pending(a, k) \ {c}
  BY <1>3 DEF Pending, CallTypes, CallShapes
<1>5. C!Goto(c, "backoff") /\ call[c].pc = "mark"
      => \A a, k : Pending(a, k)' \subseteq Pending(a, k)
  BY <1>3 DEF Pending, CallTypes, CallShapes
<1>6. C!Return(c) => \A a, k : Pending(a, k)' \subseteq Pending(a, k) \ {c}
  BY DEF Pending, CallTypes, C!Return, C!Idle
<1> QED
  BY <1>2, <1>3, <1>4, <1>5, <1>6

LEMMA RegisterIsBounded ==
  ASSUME RetryInv, NEW a \in Agents, C!RegisterAgent(a) \/ C!UnregisterAgent(a)
  PROVE  RetryInv'
<1>1. call' = call
  BY DEF C!RegisterAgent, C!UnregisterAgent
<1>2. \A b, k : Pending(b, k)' = Pending(b, k)
  BY <1>1 DEF Pending
<1>3. current' \in [Agents -> 0 .. MaxRecords]
  <2>1. \E k \in 0 .. MaxRecords : current' = [current EXCEPT ![a] = k]
    <3>1. 0 \in 0 .. MaxRecords /\ C!Records \subseteq 0 .. MaxRecords
      BY RecoveryAssumption DEF C!Records, RecoveryAssumption
    <3>2. CASE C!RegisterAgent(a)
      BY <3>1, <3>2 DEF C!RegisterAgent
    <3>3. CASE C!UnregisterAgent(a)
      BY <3>1, <3>3 DEF C!UnregisterAgent
    <3> QED
      BY <3>2, <3>3
  <2> QED
    BY <2>1 DEF RetryInv, CallTypes
<1>4. CallTypes'
  BY <1>1, <1>3 DEF RetryInv, CallTypes
<1>5. CASE C!RegisterAgent(a)
  <2>1. PICK k \in C!Records :
          ~C!Held(a, k) /\ info' = C!Collected([info EXCEPT ![a][k] = C!Fresh])
    BY <1>5 DEF C!RegisterAgent, C!New
  <2> DEFINE memory == [info EXCEPT ![a][k] = C!Fresh]
  <2>2. C!Fresh \in [state : C!States, fails : Nat, tried : Nat]
    BY DEF C!Fresh, C!States
  <2>3. memory \in Memories
    BY <2>2 DEF RetryInv, Memories
  <2>4. Pending(a, k)' = {} /\ memory[a][k] = C!Fresh
    <3>1. Pending(a, k) = {}
      BY <2>1 DEF Pending, C!Held
    <3> QED
      BY <1>2, <3>1 DEF RetryInv, Memories
  <2>5. \A b \in Agents, j \in C!Records : b # a \/ j # k => memory[b][j] = info[b][j]
    BY DEF RetryInv, Memories
  <2> HIDE DEF memory
  <2>6. ASSUME NEW b \in Agents, NEW j \in C!Records
        PROVE  LET n == memory[b][j].tried + Cardinality(Pending(b, j)')
               IN n <= memory[b][j].fails /\ n <= RetryLimit
    <3>1. CASE b = a /\ j = k
      <4>1. Cardinality(Pending(b, j)') = 0 /\ memory[b][j] = C!Fresh
        BY <2>4, <3>1, FS_EmptySet
      <4> QED
        BY <4>1, RecoveryAssumption DEF C!Fresh, RecoveryAssumption
    <3>2. CASE b # a \/ j # k
      BY <1>2, <2>5, <3>2 DEF RetryInv, Bounded
    <3> QED
      BY <3>1, <3>2
  <2> QED
    BY <1>4, <2>1, <2>3, <2>6, CollectedIsBounded DEF memory, RetryInv
<1>6. CASE C!UnregisterAgent(a)
  BY <1>2, <1>4, <1>6, QuietStepIsBounded DEF C!UnregisterAgent, RetryInv
<1> QED
  BY <1>5, <1>6

\* A heartbeat: nothing is pending any more for the record it resets.
LEMMA BeatIsBounded ==
  ASSUME RetryInv, NEW a \in Agents, NEW calls \in [Calls -> CallShapes], C!Beat(a, calls),
         \A c \in Calls : calls[c] = call[c] \/ calls[c] = C!Idle
  PROVE  RetryInv'
<1>1. PICK k \in C!Records :
        /\ current' = [current EXCEPT ![a] = k]
        /\ call' = [c \in Calls |-> IF calls[c].agent = a /\ calls[c].rec = k
                                    THEN [calls[c] EXCEPT !.fresh = FALSE] ELSE calls[c]]
        /\ info' = C!Collected([info EXCEPT ![a][k] = C!Fresh])
  BY DEF C!Beat
<1> DEFINE memory == [info EXCEPT ![a][k] = C!Fresh]
<1>2. CallTypes'
  <2>1. current' \in [Agents -> 0 .. MaxRecords]
    BY <1>1, RecoveryAssumption DEF RetryInv, CallTypes, C!Records, RecoveryAssumption
  <2>2. call' \in [Calls -> CallShapes]
    BY <1>1, ZenonT(40) DEF CallShapes
  <2>3. ASSUME NEW c \in Calls, call'[c].pc # "idle"
        PROVE  call'[c].agent \in Agents /\ call'[c].rec \in C!Records
    <3>1. /\ call'[c].pc = calls[c].pc /\ call'[c].agent = calls[c].agent
          /\ call'[c].rec = calls[c].rec
      BY <1>1 DEF CallShapes
    <3> QED
      BY <2>3, <3>1 DEF RetryInv, CallTypes, C!Idle
  <2> QED
    BY <2>1, <2>2, <2>3 DEF CallTypes
<1>3. memory \in Memories
  <2>1. C!Fresh \in [state : C!States, fails : Nat, tried : Nat]
    BY DEF C!Fresh, C!States
  <2> QED
    BY <2>1 DEF RetryInv, Memories
<1>4. memory[a][k] = C!Fresh
      /\ \A b \in Agents, j \in C!Records : b # a \/ j # k => memory[b][j] = info[b][j]
  BY DEF RetryInv, Memories
<1>5. Pending(a, k)' = {}
  BY <1>1 DEF Pending, CallShapes
<1>6. \A b \in Agents, j \in C!Records : Pending(b, j)' \subseteq Pending(b, j)
  <2>1. ASSUME NEW c \in Calls, call'[c].fresh
        PROVE  call'[c] = call[c] \/ call'[c] = C!Idle
    BY <1>1, <2>1 DEF CallShapes
  <2> QED
    BY <2>1 DEF Pending, C!Idle
<1> HIDE DEF memory
<1>7. ASSUME NEW b \in Agents, NEW j \in C!Records
      PROVE  LET n == memory[b][j].tried + Cardinality(Pending(b, j)')
             IN n <= memory[b][j].fails /\ n <= RetryLimit
  <2>1. CASE b = a /\ j = k
    <3>1. Cardinality(Pending(b, j)') = 0 /\ memory[b][j] = C!Fresh
      BY <1>4, <1>5, <2>1, FS_EmptySet
    <3> QED
      BY <3>1, RecoveryAssumption DEF C!Fresh, RecoveryAssumption
  <2>2. CASE b # a \/ j # k
    <3>1. /\ Cardinality(Pending(b, j)') <= Cardinality(Pending(b, j))
          /\ Cardinality(Pending(b, j)') \in Nat /\ Cardinality(Pending(b, j)) \in Nat
      BY <1>6, PendingShrinks, PendingIsFinite, PendingIsFiniteNext
    <3>2. info[b][j].tried \in Nat /\ info[b][j].fails \in Nat /\ RetryLimit \in Nat
      BY RecoveryAssumption DEF RetryInv, Memories, RecoveryAssumption
    <3> QED
      BY <1>4, <2>2, <3>1, <3>2 DEF RetryInv, Bounded
  <2> QED
    BY <2>1, <2>2
<1> QED
  BY <1>1, <1>2, <1>3, <1>7, CollectedIsBounded DEF memory, RetryInv

\* A failure is counted, and the call becomes pending only for a count up to the limit.
LEMMA CountIsBounded ==
  ASSUME RetryInv, NEW c \in Calls, NEW a \in Agents, C!FailureCount(c, a)
  PROVE  RetryInv'
<1> DEFINE k == current[a]
           n == info[a][k].fails + 1
           pc == IF n <= RetryLimit THEN "mark" ELSE "giveup"
           rec == [C!Idle EXCEPT !.pc = pc, !.agent = a, !.rec = k, !.count = n, !.fresh = TRUE]
<1>1. k \in C!Records /\ k # 0 /\ n \in Nat /\ call[c].pc = "idle"
  BY RecoveryAssumption DEF RetryInv, CallTypes, Memories, C!FailureCount, C!Records, C!At,
     RecoveryAssumption
<1>2. /\ info' = [info EXCEPT ![a][k].state = "unresponsive", ![a][k].fails = n]
      /\ call' = [call EXCEPT ![c] = rec] /\ current' = current
  BY DEF C!FailureCount
<1>3. info' \in Memories
  BY <1>1, <1>2, SMTT(30) DEF RetryInv, Memories, C!States
<1>4. /\ rec \in CallShapes /\ rec.pc = pc /\ rec.agent = a /\ rec.rec = k
      /\ rec.count = n /\ rec.fresh
  <2>1. C!Idle \in CallShapes
    BY RecoveryAssumption DEF C!Idle, CallShapes, RecoveryAssumption
  <2>2. pc \in {"mark", "giveup"} /\ k \in 0 .. MaxRecords
    BY <1>1 DEF C!Records
  <2> HIDE DEF k, n, pc
  <2> QED
    BY <1>1, <2>1, <2>2 DEF CallShapes
<1> HIDE DEF rec
<1>5. CallTypes'
  BY <1>1, <1>2, <1>4 DEF RetryInv, CallTypes
<1>6. /\ info'[a][k].fails = n /\ info'[a][k].tried = info[a][k].tried
      /\ \A b \in Agents, j \in C!Records : b # a \/ j # k => info'[b][j] = info[b][j]
  BY <1>1, <1>2 DEF RetryInv, Memories
<1>7. call'[c] = rec /\ \A d \in Calls : d # c => call'[d] = call[d]
  BY <1>2 DEF RetryInv, CallTypes
<1>8. ASSUME NEW b \in Agents, NEW j \in C!Records
      PROVE  LET m == info'[b][j].tried + Cardinality(Pending(b, j)')
             IN m <= info'[b][j].fails /\ m <= RetryLimit
  <2>1. /\ info[b][j].tried \in Nat /\ info[b][j].fails \in Nat /\ RetryLimit \in Nat
        /\ Cardinality(Pending(b, j)) \in Nat /\ Cardinality(Pending(b, j)') \in Nat
        /\ info[b][j].tried + Cardinality(Pending(b, j)) <= info[b][j].fails
        /\ info[b][j].tried + Cardinality(Pending(b, j)) <= RetryLimit
    BY RecoveryAssumption, PendingIsFinite, PendingIsFiniteNext
    DEF RetryInv, Memories, Bounded, RecoveryAssumption
  <2>2. c \notin Pending(b, j)
    BY <1>1 DEF Pending
  <2>3. CASE b # a \/ j # k \/ n > RetryLimit
    <3>1. Pending(b, j)' \subseteq Pending(b, j)
      <4>1. rec.agent = a /\ rec.rec = k /\ (n > RetryLimit => rec.pc = "giveup")
        BY <1>1, <1>4, <2>1
      <4> HIDE DEF k, n
      <4>2. \A d \in Pending(b, j)' : d # c
        BY <1>7, <2>3, <4>1 DEF Pending
      <4> QED
        BY <1>7, <4>2 DEF Pending
    <3>2. Cardinality(Pending(b, j)') <= Cardinality(Pending(b, j))
      BY <3>1, PendingShrinks
    <3>3. info'[b][j].tried = info[b][j].tried /\ info'[b][j].fails >= info[b][j].fails
          /\ info'[b][j].fails \in Nat
      BY <1>1, <1>6, <2>1
    <3> HIDE DEF n
    <3> QED
      BY <2>1, <3>2, <3>3
  <2>4. CASE b = a /\ j = k /\ n <= RetryLimit
    <3>1. Pending(b, j)' \subseteq Pending(b, j) \cup {c}
      BY <1>7 DEF Pending
    <3>2. /\ Cardinality(Pending(b, j)') <= Cardinality(Pending(b, j) \cup {c})
          /\ Cardinality(Pending(b, j) \cup {c}) = Cardinality(Pending(b, j)) + 1
      BY <2>2, <3>1, PendingIsFinite, FS_AddElement, FS_Subset
    <3> QED
      BY <1>6, <2>1, <2>4, <3>2
  <2> QED
    BY <1>1, <2>1, <2>3, <2>4
<1> QED
  BY <1>3, <1>5, <1>8 DEF RetryInv, Bounded

LEMMA MarkedMemory ==
  ASSUME RetryInv, NEW c \in Calls, call[c].pc # "idle",
         NEW state \in C!States
  PROVE  LET memory == [info EXCEPT ![call[c].agent][call[c].rec].state = state]
         IN /\ memory \in Memories
            /\ \A a \in Agents, k \in C!Records : /\ memory[a][k].tried = info[a][k].tried
                                                  /\ memory[a][k].fails = info[a][k].fails
<1>1. call[c].agent \in Agents /\ call[c].rec \in C!Records
  BY DEF RetryInv, CallTypes
<1> QED
  BY <1>1 DEF RetryInv, Memories

\* A call marks the record or gives its agent up.
LEMMA MarkIsBounded ==
  ASSUME RetryInv, NEW c \in Calls, C!FailureMark(c) \/ C!FailureGiveUp(c)
  PROVE  RetryInv'
<1>1. PICK state \in C!States :
        info' = C!Collected([info EXCEPT ![call[c].agent][call[c].rec].state = state])
  BY DEF C!FailureMark, C!FailureGiveUp, C!SetState, C!States
<1>2. /\ call[c].pc # "idle" /\ current' = current
      /\ (C!Goto(c, "backoff") /\ call[c].pc = "mark") \/ C!Goto(c, "tasks")
  BY DEF C!FailureMark, C!FailureGiveUp, C!At
<1>3. CallTypes' /\ \A a, k : Pending(a, k)' \subseteq Pending(a, k)
  BY <1>2, CallMoves DEF RetryInv, CallTypes
<1> DEFINE memory == [info EXCEPT ![call[c].agent][call[c].rec].state = state]
<1>4. /\ memory \in Memories
      /\ \A a \in Agents, k \in C!Records : /\ memory[a][k].tried = info[a][k].tried
                                            /\ memory[a][k].fails = info[a][k].fails
  BY <1>2, MarkedMemory
<1>5. info' = C!Collected(memory)
  BY <1>1
<1> HIDE DEF memory
<1> QED
  BY <1>3, <1>4, <1>5, QuietStepIsBounded DEF RetryInv

\* A call returns without a recovery.
LEMMA ReturnIsBounded ==
  ASSUME RetryInv, NEW c \in Calls, C!FailureCancelled(c) \/ C!HandoverNotify(c)
  PROVE  RetryInv'
<1>1. /\ call[c].pc # "idle" /\ C!Return(c) /\ current' = current /\ info' = C!Collected(info)
  BY DEF C!FailureCancelled, C!HandoverNotify, C!At
<1>2. CallTypes' /\ \A a, k : Pending(a, k)' \subseteq Pending(a, k)
  BY <1>1, CallMoves DEF RetryInv, CallTypes
<1> QED
  BY <1>1, <1>2, QuietStepIsBounded DEF RetryInv

\* A recovery is counted when its call stops to be pending.
LEMMA RecoverIsBounded ==
  ASSUME RetryInv, NEW c \in Calls, C!FailureRecover(c)
  PROVE  RetryInv'
<1> DEFINE a == call[c].agent
           k == call[c].rec
           counted == [info EXCEPT ![a][k].tried = @ + 1]
           memory == IF call[c].fresh THEN counted ELSE info
<1>1. /\ call[c].pc = "backoff" /\ current' = current /\ info' = C!Collected(memory)
      /\ C!Return(c) \/ C!Goto(c, "recovered") \/ C!Goto(c, "giveup")
  BY DEF C!FailureRecover, C!At
<1>2. a \in Agents /\ k \in C!Records
  BY <1>1 DEF RetryInv, CallTypes
<1>3. CallTypes' /\ \A b, j : Pending(b, j)' \subseteq Pending(b, j) \ {c}
  BY <1>1, CallMoves DEF RetryInv, CallTypes
<1>4. /\ counted \in Memories
      /\ counted[a][k].tried = info[a][k].tried + 1 /\ counted[a][k].fails = info[a][k].fails
      /\ \A b \in Agents, j \in C!Records : b # a \/ j # k => counted[b][j] = info[b][j]
  <2>1. info \in Memories
    BY DEF RetryInv
  <2>2. counted[a][k].tried = info[a][k].tried + 1 /\ counted[a][k].fails = info[a][k].fails
    BY <1>2, <2>1 DEF Memories
  <2>3. \A b \in Agents, j \in C!Records : b # a \/ j # k => counted[b][j] = info[b][j]
    BY <1>2, <2>1 DEF Memories
  <2>4. counted \in Memories
    BY <1>2, <2>1 DEF Memories
  <2> QED
    BY <2>2, <2>3, <2>4
<1>5. call[c].fresh => c \in Pending(a, k)
  BY <1>1 DEF Pending
<1>6. memory \in Memories
  BY <1>4 DEF RetryInv
<1> HIDE DEF a, k, counted
<1>7. ASSUME NEW b \in Agents, NEW j \in C!Records
      PROVE  LET n == memory[b][j].tried + Cardinality(Pending(b, j)')
             IN n <= memory[b][j].fails /\ n <= RetryLimit
  <2>1. /\ info[b][j].tried \in Nat /\ info[b][j].fails \in Nat /\ RetryLimit \in Nat
        /\ Cardinality(Pending(b, j)) \in Nat /\ Cardinality(Pending(b, j)') \in Nat
        /\ info[b][j].tried + Cardinality(Pending(b, j)) <= info[b][j].fails
        /\ info[b][j].tried + Cardinality(Pending(b, j)) <= RetryLimit
    BY RecoveryAssumption, PendingIsFinite, PendingIsFiniteNext
    DEF RetryInv, Memories, Bounded, RecoveryAssumption
  <2>2. Cardinality(Pending(b, j)') <= Cardinality(Pending(b, j))
    BY <1>3, PendingShrinks
  <2>3. CASE call[c].fresh /\ b = a /\ j = k
    <3>1. /\ Cardinality(Pending(b, j)') <= Cardinality(Pending(b, j) \ {c})
          /\ Cardinality(Pending(b, j) \ {c}) = Cardinality(Pending(b, j)) - 1
      BY <1>3, <1>5, <2>3, PendingIsFinite, FS_RemoveElement, FS_Subset
    <3>2. memory[b][j].tried = info[b][j].tried + 1 /\ memory[b][j].fails = info[b][j].fails
      BY <1>4, <2>3
    <3> HIDE DEF memory
    <3> QED
      BY <2>1, <3>1, <3>2
  <2>4. CASE ~call[c].fresh \/ b # a \/ j # k
    <3>1. memory[b][j] = info[b][j]
      BY <1>4, <2>4
    <3> HIDE DEF memory
    <3> QED
      BY <2>1, <2>2, <3>1
  <2> QED
    BY <2>3, <2>4
<1> HIDE DEF memory
<1> QED
  BY <1>1, <1>3, <1>6, <1>7, CollectedIsBounded DEF RetryInv

LEMMA RecoveredIsBounded ==
  ASSUME RetryInv, NEW c \in Calls, C!FailureRecovered(c)
  PROVE  RetryInv'
<1> DEFINE calls == [call EXCEPT ![c] = C!Idle]
<1>1. call[c].agent \in Agents /\ C!Beat(call[c].agent, calls)
  BY DEF RetryInv, CallTypes, C!FailureRecovered, C!At
<1>2. C!Idle \in CallShapes
  BY RecoveryAssumption DEF C!Idle, CallShapes, RecoveryAssumption
<1>3. calls \in [Calls -> CallShapes] /\ \A d \in Calls : calls[d] = call[d] \/ calls[d] = C!Idle
  BY <1>2 DEF RetryInv, CallTypes
<1> HIDE DEF calls
<1> QED
  BY <1>1, <1>3, BeatIsBounded

\* What leaves the records alone.
LEMMA HandoverIsBounded ==
  ASSUME RetryInv, UNCHANGED <<info, current>>,
         \/ UNCHANGED call
         \/ \E c \in Calls : C!HandoverList(c) \/ C!HandoverAdd(c)
  PROVE  RetryInv'
<1>1. CallTypes' /\ \A a, k : Pending(a, k)' \subseteq Pending(a, k)
  <2>1. CASE UNCHANGED call
    BY <2>1 DEF RetryInv, CallTypes, Pending
  <2>2. ASSUME NEW c \in Calls, C!HandoverList(c)
        PROVE  CallTypes' /\ \A a, k : Pending(a, k)' \subseteq Pending(a, k)
    <3>1. PICK tasks \in SUBSET Tasks :
            call' = [call EXCEPT ![c].pc = "handover", ![c].tasks = tasks, ![c].left = tasks]
      BY <2>2 DEF C!HandoverList
    <3>2. call[c].pc = "tasks" /\ call \in [Calls -> CallShapes]
      BY <2>2 DEF C!HandoverList, C!At, RetryInv, CallTypes
    <3>3. /\ call' = [call EXCEPT ![c] = [call[c] EXCEPT !.pc = "handover", !.tasks = tasks,
                                                       !.left = tasks]]
          /\ call[c] \in CallShapes
      BY <3>1, <3>2
    <3>4. /\ [call[c] EXCEPT !.pc = "handover", !.tasks = tasks, !.left = tasks] \in CallShapes
          /\ \A d \in Calls : d # c => call'[d] = call[d]
          /\ call'[c].pc = "handover" /\ call'[c].agent = call[c].agent
          /\ call'[c].rec = call[c].rec
      BY <3>2, <3>3 DEF CallShapes
    <3>5. call' \in [Calls -> CallShapes]
      BY <3>2, <3>3, <3>4
    <3> QED
      BY <3>2, <3>4, <3>5 DEF RetryInv, CallTypes, Pending
  <2>3. ASSUME NEW c \in Calls, C!HandoverAdd(c)
        PROVE  CallTypes' /\ \A a, k : Pending(a, k)' \subseteq Pending(a, k)
    BY <2>3 DEF RetryInv, CallTypes, CallShapes, Pending, C!HandoverAdd, C!At
  <2> QED
    BY <2>1, <2>2, <2>3
<1>2. ASSUME NEW a \in Agents, NEW k \in C!Records
      PROVE  LET n == info'[a][k].tried + Cardinality(Pending(a, k)')
             IN n <= info'[a][k].fails /\ n <= RetryLimit
  <2>1. /\ Cardinality(Pending(a, k)') <= Cardinality(Pending(a, k))
        /\ Cardinality(Pending(a, k)') \in Nat /\ Cardinality(Pending(a, k)) \in Nat
    BY <1>1, PendingShrinks, PendingIsFinite, PendingIsFiniteNext
  <2>2. info[a][k].tried \in Nat /\ info[a][k].fails \in Nat /\ RetryLimit \in Nat
    BY RecoveryAssumption DEF RetryInv, Memories, RecoveryAssumption
  <2> QED
    BY <2>1, <2>2 DEF RetryInv, Bounded
<1> QED
  BY <1>1, <1>2 DEF RetryInv, Bounded

LEMMA RetryInvStep == RetryInv /\ [C!Next]_(C!vars) => RetryInv'
<1> SUFFICES ASSUME RetryInv, [C!Next]_(C!vars) PROVE RetryInv'
  OBVIOUS
<1>1. ASSUME NEW a \in Agents, C!HandleHeartbeat(a) PROVE RetryInv'
  <2>1. call \in [Calls -> CallShapes] /\ C!Beat(a, call)
    BY <1>1 DEF RetryInv, CallTypes, C!HandleHeartbeat
  <2> QED
    BY <2>1, BeatIsBounded
<1>2. ASSUME NEW c \in Calls, C!HandleFailure(c) PROVE RetryInv'
  BY <1>2, MarkIsBounded, ReturnIsBounded, RecoverIsBounded, RecoveredIsBounded,
     HandoverIsBounded DEF C!HandleFailure, C!HandoverList, C!HandoverAdd
<1>3. CASE \/ \E c \in Clients, t \in Tasks, to \in Agents : C!AssignCall(c, t, to)
           \/ \E m \in wire : C!AssignServe(m) \/ C!AssignLost(m)
           \/ \E c \in Clients : C!AssignTimeout(c)
           \/ \E t \in Tasks : C!CloseTask(t)
           \/ UNCHANGED C!vars
  <2>1. UNCHANGED <<info, current, call>>
    BY <1>3 DEF C!AssignCall, C!AssignServe, C!AssignLost, C!AssignTimeout, C!CloseTask,
       C!vars, C!callVars
  <2> QED
    BY <2>1, HandoverIsBounded
<1> QED
  BY <1>1, <1>2, <1>3, RegisterIsBounded, CountIsBounded DEF C!Next

\* Only the call itself marks and fails its record, which is not the new one.
LEMMA StaleFailureStep ==
  ASSUME RetryInv, [C!Next]_(C!vars), NEW c \in Calls, call[c].pc \in {"mark", "giveup"},
         call'[c].pc # call[c].pc, NEW a, a = call[c].agent, NEW k, k = current[a],
         k # 0, k # call[c].rec
  PROVE  call'[c].agent = a /\ current'[a] = k /\ info'[a][k] = info[a][k]
<1>1. a \in Agents /\ call[c].rec \in C!Records /\ k \in C!Records
  BY DEF RetryInv, CallTypes, C!Records
<1>2. C!FailureMark(c) \/ C!FailureGiveUp(c)
  <2>1. ASSUME NEW b \in Agents, NEW calls,
               C!Beat(b, calls), \A d \in Calls : d = c => calls[d] = call[d]
        PROVE  FALSE
    BY <2>1 DEF C!Beat, RetryInv, CallTypes, CallShapes
  <2>2. \A b \in Agents : ~C!HandleHeartbeat(b)
    BY <2>1 DEF C!HandleHeartbeat
  <2>3. \A b \in Agents, d \in Calls : ~C!FailureCount(d, b)
    BY DEF C!FailureCount, C!At, RetryInv, CallTypes
  <2>4. ASSUME NEW d \in Calls, C!HandleFailure(d), d # c PROVE FALSE
    <3>1. CASE C!FailureRecovered(d)
      <4>1. call[d].agent \in Agents
        BY <3>1 DEF RetryInv, CallTypes, C!FailureRecovered, C!At
      <4> QED
        <5> DEFINE calls == [call EXCEPT ![d] = C!Idle]
        <5>1. calls[c] = call[c] /\ C!Beat(call[d].agent, calls)
          BY <2>4, <3>1 DEF C!FailureRecovered, RetryInv, CallTypes
        <5> HIDE DEF calls
        <5> QED
          BY <2>1, <4>1, <5>1
    <3> QED
      BY <2>4, <3>1 DEF C!HandleFailure, C!FailureMark, C!FailureCancelled, C!FailureRecover,
         C!FailureGiveUp, C!HandoverList, C!HandoverAdd, C!HandoverNotify, C!Goto, C!Return,
         RetryInv, CallTypes
  <2>5. ASSUME NEW d \in Calls, C!HandleFailure(c)
        PROVE C!FailureMark(c) \/ C!FailureGiveUp(c)
    BY <2>5 DEF C!HandleFailure, C!FailureCancelled, C!FailureRecover, C!FailureRecovered,
       C!HandoverList, C!HandoverAdd, C!HandoverNotify, C!At
  <2>6. call' # call
    OBVIOUS
  <2> QED
    BY <2>2, <2>3, <2>4, <2>5, <2>6 DEF C!Next, C!vars, C!callVars, C!RegisterAgent,
       C!UnregisterAgent, C!AssignCall, C!AssignServe, C!AssignLost, C!AssignTimeout,
       C!CloseTask
<1>3. PICK state \in C!States :
        info' = C!Collected([info EXCEPT ![a][call[c].rec].state = state])
  BY <1>2 DEF C!FailureMark, C!FailureGiveUp, C!SetState, C!States
<1>4. current' = current
  BY <1>2 DEF C!FailureMark, C!FailureGiveUp
<1>5. C!Held(a, k)'
  BY <1>4 DEF C!Held
<1>6. info'[a][k] = info[a][k]
  <2>1. info'[a][k] = [info EXCEPT ![a][call[c].rec].state = state][a][k]
    <3> DEFINE memory == [info EXCEPT ![a][call[c].rec].state = state]
    <3>1. info' = C!Collected(memory)
      BY <1>3
    <3> HIDE DEF memory
    <3>2. info'[a][k] = memory[a][k]
      BY <1>1, <1>5, <3>1 DEF C!Collected
    <3> QED
      BY <3>2 DEF memory
  <2> QED
    BY <1>1, <2>1 DEF RetryInv, Memories
<1>7. call'[c].agent = a
  BY <1>2 DEF C!FailureMark, C!FailureGiveUp, C!Goto, RetryInv, CallTypes, CallShapes
<1> QED
  BY <1>4, <1>6, <1>7

-----------------------------------------------------------------------------
(* The two together, as the runs check them.                               *)

RecoveryInv == MonitorInv /\ RetryInv

LEMMA RecoveryStart == Init => RecoveryInv
BY MonitorInvStart, RetryInvStart DEF Init, RecoveryInv

LEMMA RecoveryStep == RecoveryInv /\ [Next]_vars => RecoveryInv' /\ [H!Next]_(H!vars)
                                                    /\ [C!Next]_(C!vars)
<1> SUFFICES ASSUME RecoveryInv, [Next]_vars
             PROVE  RecoveryInv' /\ [H!Next]_(H!vars) /\ [C!Next]_(C!vars)
  OBVIOUS
<1>1. [H!Next]_(H!vars)
  BY DEF Next, vars, heartbeatVars, H!vars, H!agentVars, H!monitorVars
<1>2. [C!Next]_(C!vars)
  BY DEF Next, vars, coordinatorVars, C!vars
<1> QED
  BY <1>1, <1>2, MonitorInvStep, RetryInvStep DEF RecoveryInv

LEMMA RecoveryAlways == Spec => []RecoveryInv
BY RecoveryStart, RecoveryStep, PTL DEF Spec

\* When Stop has returned the loop has ended and no check is under way (Monitor.Start,
\* Monitor.Stop, monitorLoop, checkAll).
THEOREM MonitorStops == Spec => []StopQuiesces
<1>1. RecoveryInv => StopQuiesces
  BY DEF RecoveryInv, MonitorInv, LoopInTurn, StopQuiesces, H!StopQuiesces
<1> QED
  BY <1>1, RecoveryAlways, PTL

\* However the calls of HandleFailure, heartbeats and registrations overlap, the failures
\* counted between two heartbeats lead to RetryLimit recoveries at most (coordinator.go).
THEOREM RecoveriesAreBounded == Spec => []RetriesAreBounded
<1>1. RecoveryInv => RetriesAreBounded
  <2> SUFFICES ASSUME RetryInv, NEW a \in Agents, NEW k \in C!Records
               PROVE  info[a][k].tried <= RetryLimit
    BY DEF RecoveryInv, RetriesAreBounded, C!RetriesAreBounded
  <2>1. info[a][k].tried \in Nat /\ Cardinality(Pending(a, k)) \in Nat /\ RetryLimit \in Nat
    BY PendingIsFinite, RecoveryAssumption DEF RetryInv, Memories, RecoveryAssumption
  <2> QED
    BY <2>1 DEF RetryInv, Bounded
<1> QED
  BY <1>1, RecoveryAlways, PTL

\* A check that was under way while its worker was unregistered or registered again
\* changes no registration that is current (checkWorker).
THEOREM StaleChecksAreHarmless == Spec => StaleCheckIsHarmless
<1>1. RecoveryInv /\ [Next]_vars =>
        [/\ checked # H!NoCheck /\ checked' = H!NoCheck
         /\ checked[2] # entry[checked[1]]
         => \A w \in Workers : entry[w] # 0 =>
              health'[<<w, entry[w]>>] = health[<<w, entry[w]>>]]_(H!vars)
  BY RecoveryStep, StaleCheckStep DEF RecoveryInv
<1> QED
  BY <1>1, RecoveryAlways, PTL DEF Spec, StaleCheckIsHarmless, H!StaleCheckIsHarmless

\* A call that counted in a record which is no longer the agent's marks or fails nothing
\* the agent shows (HandleFailure).
THEOREM StaleFailuresAreHarmless == Spec => StaleFailureIsHarmless
<1>1. RecoveryInv /\ [Next]_vars =>
        [\A c \in Calls :
            LET a == call[c].agent
            IN (/\ call[c].pc \in {"mark", "giveup"}
                /\ call'[c].pc # call[c].pc
                /\ current[a] # 0 /\ current[a] # call[c].rec)
               => C!Shown(a)' = C!Shown(a)]_(C!vars)
  <2> SUFFICES ASSUME RecoveryInv, [Next]_vars, NEW c \in Calls,
                      call[c].pc \in {"mark", "giveup"}, call'[c].pc # call[c].pc,
                      current[call[c].agent] # 0, current[call[c].agent] # call[c].rec
               PROVE  C!Shown(call[c].agent)' = C!Shown(call[c].agent)
    OBVIOUS
  <2>1. PICK a, k : a = call[c].agent /\ k = current[a]
    OBVIOUS
  <2>2. call'[c].agent = a /\ current'[a] = k /\ info'[a][k] = info[a][k]
    BY <2>1, RecoveryStep, StaleFailureStep DEF RecoveryInv
  <2> QED
    BY <2>1, <2>2 DEF C!Shown
<1> QED
  BY <1>1, RecoveryAlways, PTL DEF Spec, StaleFailureIsHarmless, C!StaleFailureIsHarmless
=============================================================================
