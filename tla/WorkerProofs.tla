---------------------------- MODULE WorkerProofs ----------------------------
(***************************************************************************)
(* Theorems of Worker, for every set of requests, channel capacity and     *)
(* number of generations.                                                  *)
(***************************************************************************)

EXTENDS Worker, TLAPS

USE DEF Req, Kinds, Gens, Procs, Loops, Chans, State, Verdict

-----------------------------------------------------------------------------
(* Types.  A Restart in progress has reserved the generation it creates,   *)
(* which is what keeps gen within Gens.                                    *)

TypeInv == TypeOK /\ gen + Claims <= MaxGen

LEMMA InitType == Init => TypeInv
<1> SUFFICES ASSUME Init PROVE TypeInv
  OBVIOUS
<1>1. 1 \in Gens /\ MaxGen >= 1 /\ ChanCap >= 1
  BY BoundsAssumption
<1>2. gen + Claims <= MaxGen
  BY <1>1, BoundsAssumption DEF Init, Claims, Resetting
<1>3. /\ chan \in [Chans -> Seq(Req)]
      /\ \A c \in Chans : Len(chan[c]) <= ChanCap
  BY <1>1, BoundsAssumption DEF Init
<1>4. /\ loopPc \in [Loops -> LoopPcs]
      /\ loopGen \in [Loops -> Gens]
      /\ loopReq \in [Loops -> Req \union {NoReq}]
  BY <1>1 DEF Init, LoopPcs
<1>5. /\ reqPc \in [Req -> ReqPcs]
      /\ reqChan \in [Req -> Gens]
      /\ reqCtx \in [Req -> Gens]
      /\ resp \in [Req -> Seq(Verdict)]
  BY <1>1 DEF Init, ReqPcs
<1>6. procPc \in [Procs -> ProcPcs]
  BY DEF Init, ProcPcs
<1> QED
  BY <1>1, <1>2, <1>3, <1>4, <1>5, <1>6 DEF Init, TypeInv, TypeOK

\* A reply keeps the types, whatever the request.
LEMMA ReplyType ==
  ASSUME NEW r, NEW v \in Verdict, Reply(r, v),
         resp \in [Req -> Seq(Verdict)], reqPc \in [Req -> ReqPcs]
  PROVE  resp' \in [Req -> Seq(Verdict)] /\ reqPc' \in [Req -> ReqPcs]
<1>1. CASE r \in Req
  BY <1>1 DEF Reply, ReqPcs
<1>2. CASE r \notin Req
  BY <1>2 DEF Reply, ReqPcs
<1> QED
  BY <1>1, <1>2

LEMMA StutterType == TypeInv /\ UNCHANGED vars => TypeInv'
BY DEF TypeInv, TypeOK, Claims, Resetting, vars, chanVars, stateVars, loopVars,
       reqVars, procVars

LEMMA SendType ==
  ASSUME NEW r \in Req, TypeInv, Send(r)
  PROVE  TypeInv'
<1> USE DEF TypeInv, TypeOK, Claims, Resetting, chanVars, stateVars, loopVars,
            reqVars, procVars, ReqPcs
<1>1. CASE SendCall(r)
  BY <1>1 DEF SendCall
<1>2. CASE SendEnqueue(r)
  <2> DEFINE c == <<KindOf(r), reqChan[r]>>
  <2>1. c \in Chans
    BY DEF KindOf
  <2>2. Append(chan[c], r) \in Seq(Req) /\ Len(Append(chan[c], r)) <= ChanCap
    BY <2>1, <1>2, BoundsAssumption DEF SendEnqueue, Room
  <2>3. /\ chan' \in [Chans -> Seq(Req)]
        /\ \A d \in Chans : Len(chan'[d]) <= ChanCap
    BY <2>1, <2>2, <1>2 DEF SendEnqueue
  <2> QED
    BY <2>3, <1>2 DEF SendEnqueue
<1>3. CASE SendCancelled(r)
  BY <1>3 DEF SendCancelled, Reply
<1>4. CASE SendBlock(r)
  BY <1>4 DEF SendBlock
<1>5. CASE SendClosed(r)
  BY <1>5 DEF SendClosed
<1> QED
  BY <1>1, <1>2, <1>3, <1>4, <1>5 DEF Send

LEMMA LoopType ==
  ASSUME NEW l \in Loops, TypeInv, LoopStep(l)
  PROVE  TypeInv'
<1> USE DEF TypeInv, TypeOK, Claims, Resetting, chanVars, stateVars, loopVars,
            reqVars, procVars, Goto, LoopPcs
<1>1. CASE LoopStart(l)
  BY <1>1 DEF LoopStart
<1>2. CASE LoopExit(l)
  BY <1>2 DEF LoopExit
<1>3. CASE LoopTake(l)
  <2> DEFINE c == LoopChan(l)
  <2>1. c \in Chans /\ chan[c] \in Seq(Req) /\ chan[c] # <<>>
    BY <1>3 DEF LoopTake, LoopChan
  <2>2. /\ Head(chan[c]) \in Req
        /\ Tail(chan[c]) \in Seq(Req)
        /\ Len(Tail(chan[c])) = Len(chan[c]) - 1
    BY <2>1
  <2>3. CASE /\ chan' = [chan EXCEPT ![c] = Tail(@)]
             /\ reqPc' = [reqPc EXCEPT ![Head(chan[c])] = "held"]
    <3>1. Len(Tail(chan[c])) <= ChanCap
      BY <2>1, <2>2, BoundsAssumption
    <3>2. chan' = [chan EXCEPT ![c] = Tail(chan[c])]
      BY <2>3
    <3>3. chan' \in [Chans -> Seq(Req)] /\ \A d \in Chans : Len(chan'[d]) <= ChanCap
      BY <2>1, <2>2, <3>1, <3>2
    <3> QED
      BY <1>3, <2>2, <2>3, <3>3 DEF LoopTake, ReqPcs
  <2>4. ASSUME NEW r \in Req,
               chan' = [chan EXCEPT ![c] = Append(Tail(chan[c]), r)],
               reqPc' = [reqPc EXCEPT ![Head(chan[c])] = "held", ![r] = "queued"]
        PROVE  TypeInv'
    <3>1. /\ Append(Tail(chan[c]), r) \in Seq(Req)
          /\ Len(Append(Tail(chan[c]), r)) <= ChanCap
      BY <2>1, <2>2, BoundsAssumption
    <3>2. chan' \in [Chans -> Seq(Req)] /\ \A d \in Chans : Len(chan'[d]) <= ChanCap
      BY <2>1, <2>4, <3>1
    <3> QED
      BY <1>3, <2>2, <2>4, <3>2 DEF LoopTake, ReqPcs
  <2> QED
    BY <1>3, <2>1, <2>3, <2>4 DEF LoopTake
<1>4. CASE LoopCheckStopped(l)
  <2>1. CASE Dismiss(l, "stopped")
    BY <1>4, <2>1, ReplyType DEF LoopCheckStopped, Dismiss, Reply
  <2>2. CASE Pass(l, "notStopped")
    BY <1>4, <2>2 DEF LoopCheckStopped, Pass
  <2> QED
    BY <1>4, <2>1, <2>2 DEF LoopCheckStopped
<1>5. CASE LoopCheckWorking(l)
  <2>1. CASE Dismiss(l, "busy")
    BY <1>5, <2>1, ReplyType DEF LoopCheckWorking, Dismiss, Reply
  <2>2. CASE Pass(l, "idleSeen")
    BY <1>5, <2>2 DEF LoopCheckWorking, Pass
  <2> QED
    BY <1>5, <2>1, <2>2 DEF LoopCheckWorking
<1>6. CASE LoopBegin(l)
  BY <1>6 DEF LoopBegin, StartTask
<1>7. CASE LoopReply(l)
  BY <1>7, ReplyType DEF LoopReply, Reply
<1>8. CASE LoopComplete(l)
  BY <1>8 DEF LoopComplete, CompleteTask
<1> QED
  BY <1>1, <1>2, <1>3, <1>4, <1>5, <1>6, <1>7, <1>8 DEF LoopStep

LEMMA ProcType ==
  ASSUME NEW p \in Procs, TypeInv, Reset(p) \/ ProcStep(p)
  PROVE  TypeInv'
<1> USE DEF TypeInv, TypeOK, Claims, Resetting, chanVars, stateVars, loopVars,
            reqVars, procVars, Move, ProcPcs
<1>1. CASE Reset(p)
  <2>1. gen + Claims' <= MaxGen
    BY <1>1, BoundsAssumption DEF Reset, KillCancel
  <2> QED
    BY <1>1, <2>1 DEF Reset, KillCancel
<1>2. CASE KillForce(p)
  BY <1>2 DEF KillForce, ForceStop
<1>3. CASE RestartWait(p)
  BY <1>3 DEF RestartWait
<1>4. CASE RestartWake(p)
  BY <1>4 DEF RestartWake
<1>5. CASE RestartPanic(p)
  BY <1>5 DEF RestartPanic
<1>6. CASE RestartLaunch(p)
  <2>1. Claims = Claims' + 1 /\ Claims' \in Nat
    BY <1>6 DEF RestartLaunch
  <2>2. gen' \in Gens /\ gen' + Claims' <= MaxGen
    BY <1>6, <2>1, BoundsAssumption DEF RestartLaunch
  <2>3. loopPc' \in [Loops -> LoopPcs] /\ procPc' \in [Procs -> ProcPcs]
    BY <1>6 DEF RestartLaunch, LoopPcs
  <2> QED
    BY <1>6, <2>2, <2>3 DEF RestartLaunch, ResumeState
<1> QED
  BY <1>1, <1>2, <1>3, <1>4, <1>5, <1>6 DEF ProcStep

LEMMA OwnerType ==
  ASSUME TypeInv, Owner \/ Quitting \/ MonitorExit
  PROVE  TypeInv'
<1> USE DEF TypeInv, TypeOK, Claims, Resetting, chanVars, stateVars, loopVars,
            reqVars, procVars, Move, ProcPcs
<1>1. CASE Pause
  BY <1>1 DEF Pause, RequestStop
<1>2. CASE Resume
  BY <1>2 DEF Resume, ResumeState
<1>3. CASE KillCommand
  BY <1>3 DEF KillCommand, KillCancel
<1>4. CASE QuitBegin
  BY <1>4 DEF QuitBegin
<1>5. CASE QuitCancel
  BY <1>5 DEF QuitCancel
<1>6. CASE QuitClose
  BY <1>6 DEF QuitClose
<1>7. CASE QuitJoin
  BY <1>7 DEF QuitJoin
<1>8. CASE MonitorExit
  BY <1>8 DEF MonitorExit
<1> QED
  BY <1>1, <1>2, <1>3, <1>4, <1>5, <1>6, <1>7, <1>8 DEF Owner, Quitting

LEMMA NextType == TypeInv /\ [Next]_vars => TypeInv'
BY StutterType, SendType, LoopType, ProcType, OwnerType DEF Next, Ended

\* Every variable keeps its type, a channel never holds more than its
\* capacity, and a Restart never runs out of generations.
THEOREM TypeCorrect == Spec => [](TypeOK /\ gen + Claims <= MaxGen)
<1>1. TypeInv => TypeOK /\ gen + Claims <= MaxGen
  BY DEF TypeInv
<1> QED
  BY <1>1, InitType, NextType, PTL DEF Spec

-----------------------------------------------------------------------------
(* Custody is inductive on its own, over typed states.                     *)

CustodyInv == TypeInv /\ Custody

\* The part of the types that Custody is about.
Shape ==
  /\ chan \in [Chans -> Seq(Req)]
  /\ loopPc \in [Loops -> LoopPcs]
  /\ loopReq \in [Loops -> Req \union {NoReq}]
  /\ reqPc \in [Req -> ReqPcs]
  /\ resp \in [Req -> Seq(Verdict)]

LEMMA ShapeFromType == TypeInv => Shape
BY DEF TypeInv, TypeOK, Shape

HIDE DEF Req, Kinds, Gens, Procs, Loops, Chans, Verdict

\* Steps that leave the queues and the requests alone, and put no loop in
\* possession of a request it did not hold.
LEMMA SameCustody ==
  ASSUME CustodyInv, TypeInv',
         UNCHANGED <<chan, reqPc, resp>>,
         \A l \in Loops : loopPc'[l] \in Holding =>
           loopPc[l] \in Holding /\ loopReq'[l] = loopReq[l]
  PROVE  Custody'
BY DEF CustodyInv, Custody, Holding

\* A request that is neither queued nor held moves to another such place, or
\* is answered by its own sender.
LEMMA SenderCustody ==
  ASSUME CustodyInv, TypeInv', NEW r \in Req,
         reqPc[r] \notin {"queued", "held"},
         UNCHANGED <<chan, loopPc, loopReq>>,
         \E pc \in {"calling", "blocked", "answered"} :
           reqPc' = [reqPc EXCEPT ![r] = pc],
         \A q \in Req : q # r => resp'[q] = resp[q],
         reqPc'[r] # "answered" => UNCHANGED resp /\ reqPc[r] # "answered"
  PROVE  Custody'
<1> USE DEF CustodyInv, TypeInv, TypeOK, Holding
<1>1. \A q \in Req : reqPc'[q] = "queued" <=> reqPc[q] = "queued"
  OBVIOUS
<1>2. \A q \in Req : reqPc'[q] = "held" <=> reqPc[q] = "held"
  OBVIOUS
<1>3. \A q \in Req : reqPc'[q] # "answered" => resp'[q] = <<>>
  BY DEF Custody
<1>4. \A c \in Chans : \A i \in DOMAIN chan[c] : chan[c][i] \in Req
  OBVIOUS
<1> QED
  BY <1>1, <1>2, <1>3, <1>4 DEF Custody

\* A loop answers the request it holds and lets go of it.
LEMMA LoopAnswerCustody ==
  ASSUME CustodyInv, TypeInv', NEW l \in Loops, NEW v, NEW pc,
         loopPc[l] \in Holding, pc \notin Holding,
         Reply(loopReq[l], v), Goto(l, pc),
         loopReq' = [loopReq EXCEPT ![l] = NoReq],
         UNCHANGED chan
  PROVE  Custody'
<1> DEFINE r == loopReq[l]
<1> USE DEF CustodyInv, TypeInv, TypeOK
<1>1. r \in Req /\ reqPc[r] = "held"
  BY DEF Custody
<1>2. \A q \in Req : q # r => reqPc'[q] = reqPc[q] /\ resp'[q] = resp[q]
  BY DEF Reply
<1>3. reqPc'[r] = "answered"
  BY <1>1 DEF Reply
<1>4. \A m \in Loops : loopPc'[m] \in Holding =>
        /\ m # l /\ loopPc[m] \in Holding
        /\ loopReq'[m] = loopReq[m] /\ loopReq[m] # r
  BY DEF Goto, Custody
<1>5. /\ \A m \in Loops : loopPc'[m] \in Holding =>
           loopReq'[m] \in Req /\ reqPc'[loopReq'[m]] = "held"
      /\ \A m, n \in Loops :
           /\ loopPc'[m] \in Holding /\ loopPc'[n] \in Holding
           /\ loopReq'[m] = loopReq'[n]
           => m = n
  BY <1>2, <1>4 DEF Custody
<1>6. \A c \in Chans : \A i \in DOMAIN chan'[c] : reqPc'[chan'[c][i]] = "queued"
  <2>1. \A c \in Chans : \A i \in DOMAIN chan[c] :
          chan[c][i] \in Req /\ reqPc[chan[c][i]] = "queued"
    BY DEF Custody
  <2> QED
    BY <2>1, <1>1, <1>2
<1>7. \A q \in Req : reqPc'[q] # "answered" => resp'[q] = <<>>
  BY <1>2, <1>3 DEF Custody
<1> QED
  BY <1>5, <1>6, <1>7 DEF Custody

\* A request that is nowhere in the queues or the loops is queued.
LEMMA EnqueueCustody ==
  ASSUME CustodyInv, TypeInv', NEW r \in Req, NEW c \in Chans,
         reqPc[r] \notin {"queued", "held", "answered"},
         chan' = [chan EXCEPT ![c] = Append(chan[c], r)],
         reqPc' = [reqPc EXCEPT ![r] = "queued"],
         UNCHANGED <<loopPc, loopReq, resp>>
  PROVE  Custody'
<1>0. Shape /\ Custody
  BY ShapeFromType DEF CustodyInv
<1>1. /\ chan[c] \in Seq(Req)
      /\ DOMAIN chan'[c] = 1..(Len(chan[c]) + 1)
      /\ \A i \in 1..Len(chan[c]) : chan'[c][i] = chan[c][i]
      /\ chan'[c][Len(chan[c]) + 1] = r
  BY <1>0 DEF Shape
<1>2. \A d \in Chans : d # c => chan'[d] = chan[d]
  BY <1>0 DEF Shape
<1>3. \A d \in Chans : \A i \in DOMAIN chan[d] :
        chan[d][i] \in Req /\ reqPc[chan[d][i]] = "queued" /\ chan[d][i] # r
  BY <1>0 DEF Shape, Custody
<1>4. \A d \in Chans : \A i \in DOMAIN chan'[d] :
        \/ i \in DOMAIN chan[d] /\ chan'[d][i] = chan[d][i]
        \/ d = c /\ i = Len(chan[c]) + 1 /\ chan'[d][i] = r
  BY <1>1, <1>2
<1>5. \A d \in Chans : \A i \in DOMAIN chan'[d] : reqPc'[chan'[d][i]] = "queued"
  BY <1>0, <1>3, <1>4 DEF Shape
<1>6. \A d, e \in Chans : \A i \in DOMAIN chan'[d], j \in DOMAIN chan'[e] :
        chan'[d][i] = chan'[e][j] => d = e /\ i = j
  BY <1>0, <1>3, <1>4 DEF Custody
<1>7. /\ \A l \in Loops : loopPc'[l] \in Holding =>
           loopReq'[l] \in Req /\ reqPc'[loopReq'[l]] = "held"
      /\ \A l, m \in Loops :
           /\ loopPc'[l] \in Holding /\ loopPc'[m] \in Holding
           /\ loopReq'[l] = loopReq'[m]
           => l = m
  BY <1>0 DEF Shape, Custody
<1>8. \A q \in Req : reqPc'[q] # "answered" => resp'[q] = <<>>
  BY <1>0 DEF Shape, Custody
<1> QED
  BY <1>5, <1>6, <1>7, <1>8 DEF Custody

\* A loop takes the head of its queue, which leaves the queue.
LEMMA DequeueCustody ==
  ASSUME CustodyInv, NEW l \in Loops, NEW c \in Chans,
         chan[c] # <<>>,
         loopPc[l] \notin Holding
  PROVE  LET h == Head(chan[c]) IN
         /\ h \in Req /\ reqPc[h] = "queued"
         /\ \A m \in Loops : loopPc[m] \in Holding => loopReq[m] # h
         /\ \A d \in Chans : \A i \in DOMAIN chan[d] :
              chan[d][i] = h => d = c /\ i = 1
<1>0. Shape /\ Custody
  BY ShapeFromType DEF CustodyInv
<1>1. chan[c] \in Seq(Req) /\ 1 \in DOMAIN chan[c] /\ Head(chan[c]) = chan[c][1]
  BY <1>0 DEF Shape
<1>2. Head(chan[c]) \in Req /\ reqPc[Head(chan[c])] = "queued"
  BY <1>0, <1>1 DEF Custody, Shape
<1>3. \A m \in Loops : loopPc[m] \in Holding => loopReq[m] # Head(chan[c])
  BY <1>0, <1>2 DEF Custody, Shape
<1>4. \A d \in Chans : \A i \in DOMAIN chan[d] :
        chan[d][i] = Head(chan[c]) => d = c /\ i = 1
  BY <1>0, <1>1 DEF Custody, Shape
<1> QED
  BY <1>2, <1>3, <1>4

\* What is left of a queue, with or without the request of a blocked sender.
LEMMA TakeCustody ==
  ASSUME CustodyInv, TypeInv', NEW l \in Loops, LoopTake(l)
  PROVE  Custody'
<1>0. Shape /\ Custody
  BY ShapeFromType DEF CustodyInv
<1> DEFINE c == LoopChan(l)
           h == Head(chan[c])
           n == Len(chan[c])
<1>1. /\ c \in Chans /\ chan[c] # <<>> /\ loopPc[l] \notin Holding
      /\ chan[c] \in Seq(Req) /\ n \in Nat /\ n >= 1
  <2>1. c \in Chans
    BY DEF LoopChan, CustodyInv, TypeInv, TypeOK, Chans, Loops
  <2> QED
    BY <2>1, <1>0 DEF LoopTake, Holding, Shape
<1>2. /\ h \in Req /\ reqPc[h] = "queued"
      /\ \A m \in Loops : loopPc[m] \in Holding => loopReq[m] # h
      /\ \A d \in Chans : \A i \in DOMAIN chan[d] :
           chan[d][i] = h => d = c /\ i = 1
  BY <1>1, DequeueCustody
<1>3. /\ loopPc' = [loopPc EXCEPT ![l] = "taken"]
      /\ loopReq' = [loopReq EXCEPT ![l] = h]
      /\ resp' = resp
  BY DEF LoopTake, Goto
<1>4. /\ Tail(chan[c]) \in Seq(Req) /\ Len(Tail(chan[c])) = n - 1
      /\ \A i \in 1..(n - 1) : Tail(chan[c])[i] = chan[c][i + 1]
  BY <1>1
<1>5. \A d \in Chans : \A i \in DOMAIN chan[d] :
        chan[d][i] \in Req /\ reqPc[chan[d][i]] = "queued"
  BY <1>0 DEF Custody, Shape
<1>6. ASSUME NEW q \in Req, q # h, \A r \in Req : reqPc[r] = "held" => r # q,
             NEW pc, reqPc' = [reqPc EXCEPT ![h] = "held", ![q] = pc]
      PROVE  /\ \A m \in Loops : loopPc'[m] \in Holding =>
                  loopReq'[m] \in Req /\ reqPc'[loopReq'[m]] = "held"
             /\ \A m, k \in Loops :
                  /\ loopPc'[m] \in Holding /\ loopPc'[k] \in Holding
                  /\ loopReq'[m] = loopReq'[k]
                  => m = k
  BY <1>0, <1>1, <1>2, <1>3, <1>6 DEF Custody, Shape, Holding
<1>7. CASE /\ chan' = [chan EXCEPT ![c] = Tail(chan[c])]
           /\ reqPc' = [reqPc EXCEPT ![h] = "held"]
  <2>1. \A d \in Chans : \A i \in DOMAIN chan'[d] :
          \/ d # c /\ i \in DOMAIN chan[d] /\ chan'[d][i] = chan[d][i]
          \/ d = c /\ i + 1 \in DOMAIN chan[c] /\ i \in Nat /\ i >= 1
             /\ chan'[d][i] = chan[c][i + 1]
    BY <1>0, <1>1, <1>4, <1>7 DEF Shape
  <2>2. \A d \in Chans : \A i \in DOMAIN chan'[d] : reqPc'[chan'[d][i]] = "queued"
    BY <1>0, <2>1, <1>1, <1>2, <1>5, <1>7 DEF Shape
  <2>3. \A d, e \in Chans : \A i \in DOMAIN chan'[d], j \in DOMAIN chan'[e] :
          chan'[d][i] = chan'[e][j] => d = e /\ i = j
    BY <1>0, <2>1, <1>1 DEF Custody
  <2>4. /\ \A m \in Loops : loopPc'[m] \in Holding =>
             loopReq'[m] \in Req /\ reqPc'[loopReq'[m]] = "held"
        /\ \A m, k \in Loops :
             /\ loopPc'[m] \in Holding /\ loopPc'[k] \in Holding
             /\ loopReq'[m] = loopReq'[k]
             => m = k
    BY <1>0, <1>1, <1>2, <1>3, <1>7 DEF Custody, Shape, Holding
  <2>5. \A r \in Req : reqPc'[r] # "answered" => resp'[r] = <<>>
    BY <1>0, <1>2, <1>3, <1>7 DEF Custody, Shape
  <2> QED
    BY <2>2, <2>3, <2>4, <2>5 DEF Custody
<1>8. ASSUME NEW q \in Req, reqPc[q] = "blocked",
             chan' = [chan EXCEPT ![c] = Append(Tail(chan[c]), q)],
             reqPc' = [reqPc EXCEPT ![h] = "held", ![q] = "queued"]
      PROVE  Custody'
  <2>1. \A d \in Chans : \A i \in DOMAIN chan[d] : chan[d][i] # q
    BY <1>5, <1>8
  <2>2. \A d \in Chans : \A i \in DOMAIN chan'[d] :
          \/ d # c /\ i \in DOMAIN chan[d] /\ chan'[d][i] = chan[d][i]
          \/ d = c /\ i + 1 \in DOMAIN chan[c] /\ i \in Nat /\ i >= 1
             /\ chan'[d][i] = chan[c][i + 1]
          \/ d = c /\ i = n /\ chan'[d][i] = q
    BY <1>0, <1>1, <1>4, <1>8 DEF Shape
  <2>3. \A d \in Chans : \A i \in DOMAIN chan'[d] : reqPc'[chan'[d][i]] = "queued"
    BY <1>0, <2>2, <1>1, <1>2, <1>5, <1>8 DEF Shape
  <2>4. \A d, e \in Chans : \A i \in DOMAIN chan'[d], j \in DOMAIN chan'[e] :
          chan'[d][i] = chan'[e][j] => d = e /\ i = j
    BY <1>0, <2>1, <2>2, <1>1 DEF Custody
  <2>5. q # h /\ \A r \in Req : reqPc[r] = "held" => r # q
    BY <1>2, <1>8
  <2>6. \A r \in Req : reqPc'[r] # "answered" => resp'[r] = <<>>
    BY <1>0, <1>2, <1>3, <1>8 DEF Custody, Shape
  <2> QED
    BY <2>3, <2>4, <2>5, <2>6, <1>6, <1>8 DEF Custody
<1> QED
  BY <1>0, <1>1, <1>7, <1>8 DEF LoopTake, Shape

LEMMA SendCustody ==
  ASSUME CustodyInv, TypeInv', NEW r \in Req, Send(r)
  PROVE  Custody'
<1>0. Shape /\ Custody
  BY ShapeFromType DEF CustodyInv
<1> USE DEF chanVars, loopVars, reqVars
<1>1. CASE SendCall(r)
  BY <1>0, <1>1, SenderCustody DEF SendCall, Shape
<1>2. CASE SendEnqueue(r)
  <2>1. <<KindOf(r), reqChan[r]>> \in Chans
    BY DEF CustodyInv, TypeInv, TypeOK, KindOf, Chans, Kinds
  <2> QED
    BY <2>1, <1>0, <1>2, EnqueueCustody DEF SendEnqueue, Shape
<1>3. CASE SendCancelled(r)
  BY <1>0, <1>3, SenderCustody DEF SendCancelled, Reply, Shape
<1>4. CASE SendBlock(r)
  BY <1>0, <1>4, SenderCustody DEF SendBlock, Shape
<1>5. CASE SendClosed(r)
  BY <1>5, SameCustody DEF SendClosed
<1> QED
  BY <1>1, <1>2, <1>3, <1>4, <1>5 DEF Send

LEMMA LoopCustody ==
  ASSUME CustodyInv, TypeInv', NEW l \in Loops, LoopStep(l)
  PROVE  Custody'
<1>0. Shape /\ Custody
  BY ShapeFromType DEF CustodyInv
<1> USE DEF chanVars, loopVars, reqVars
<1>a. ASSUME NEW v, NEW pc \in {"select", "replied"}, loopPc[l] \in Holding,
             Reply(loopReq[l], v), Goto(l, pc),
             loopReq' = [loopReq EXCEPT ![l] = NoReq], UNCHANGED chan
      PROVE  Custody'
  <2>1. pc \notin Holding
    BY <1>a DEF Holding
  <2> QED
    BY <1>a, <2>1, LoopAnswerCustody
<1>1. CASE LoopStart(l)
  BY <1>0, <1>1, SameCustody DEF LoopStart, Shape, Goto, Holding
<1>2. CASE LoopExit(l)
  BY <1>0, <1>2, SameCustody DEF LoopExit, Shape, Goto, Holding
<1>3. CASE LoopTake(l)
  BY <1>3, TakeCustody
<1>4. CASE LoopCheckStopped(l)
  <2>1. CASE Dismiss(l, "stopped")
    BY <1>4, <2>1, <1>a DEF LoopCheckStopped, Dismiss, Holding
  <2>2. CASE Pass(l, "notStopped")
    BY <1>0, <1>4, <2>2, SameCustody DEF LoopCheckStopped, Pass, Shape, Goto, Holding
  <2> QED
    BY <1>4, <2>1, <2>2 DEF LoopCheckStopped
<1>5. CASE LoopCheckWorking(l)
  <2>1. CASE Dismiss(l, "busy")
    BY <1>5, <2>1, <1>a DEF LoopCheckWorking, Dismiss, Holding
  <2>2. CASE Pass(l, "idleSeen")
    BY <1>0, <1>5, <2>2, SameCustody DEF LoopCheckWorking, Pass, Shape, Goto, Holding
  <2> QED
    BY <1>5, <2>1, <2>2 DEF LoopCheckWorking
<1>6. CASE LoopBegin(l)
  BY <1>0, <1>6, SameCustody DEF LoopBegin, Shape, Goto, Holding
<1>7. CASE LoopReply(l)
  BY <1>7, <1>a DEF LoopReply, Holding
<1>8. CASE LoopComplete(l)
  BY <1>0, <1>8, SameCustody DEF LoopComplete, Shape, Goto, Holding
<1> QED
  BY <1>1, <1>2, <1>3, <1>4, <1>5, <1>6, <1>7, <1>8 DEF LoopStep

LEMMA ProcCustody ==
  ASSUME CustodyInv, TypeInv', NEW p \in Procs, Reset(p) \/ ProcStep(p)
  PROVE  Custody'
<1>0. Shape
  BY ShapeFromType DEF CustodyInv
<1> USE DEF chanVars, loopVars, reqVars
<1>1. CASE RestartLaunch(p)
  BY <1>0, <1>1, SameCustody DEF RestartLaunch, Holding, Shape
<1>2. CASE ~RestartLaunch(p)
  BY <1>2, SameCustody DEF ProcStep, Reset, KillCancel, KillForce, RestartWait,
     RestartWake, RestartPanic
<1> QED
  BY <1>1, <1>2

LEMMA OwnerCustody ==
  ASSUME CustodyInv, TypeInv', Owner \/ Quitting \/ MonitorExit
  PROVE  Custody'
BY SameCustody DEF Owner, Pause, Resume, KillCommand, KillCancel, QuitBegin,
   Quitting, QuitCancel, QuitClose, QuitJoin, MonitorExit, chanVars, loopVars,
   reqVars

LEMMA StutterCustody ==
  ASSUME CustodyInv, TypeInv', UNCHANGED vars
  PROVE  Custody'
BY SameCustody DEF vars, chanVars, loopVars, reqVars

LEMMA InitCustody == Init => Custody
<1> SUFFICES ASSUME Init PROVE Custody
  OBVIOUS
<1>1. \A l \in Loops : loopPc[l] \notin Holding
  BY DEF Init, Holding
<1>2. \A c \in Chans : chan[c] = <<>> /\ DOMAIN chan[c] = {}
  BY DEF Init
<1>3. \A r \in Req : resp[r] = <<>>
  BY DEF Init
<1> QED
  BY <1>1, <1>2, <1>3 DEF Custody

LEMMA CustodyStep == CustodyInv /\ [Next]_vars => CustodyInv'
<1> SUFFICES ASSUME CustodyInv, [Next]_vars PROVE CustodyInv'
  OBVIOUS
<1>1. TypeInv'
  BY NextType DEF CustodyInv
<1>2. Custody'
  BY <1>1, SendCustody, LoopCustody, ProcCustody, OwnerCustody, StutterCustody
     DEF Next, Ended
<1> QED
  BY <1>1, <1>2 DEF CustodyInv

LEMMA CustodyAlways == Spec => []CustodyInv
<1>1. Init => CustodyInv
  BY InitType, InitCustody DEF CustodyInv
<1> QED
  BY <1>1, CustodyStep, PTL DEF Spec

\* A request is in one place only and is answered once, whatever the owner
\* and the session monitor do, even when both restart the worker at once
\* and its loops overlap.
THEOREM CustodyHolds == Spec => []Custody
<1>1. CustodyInv => Custody
  BY DEF CustodyInv
<1> QED
  BY <1>1, CustodyAlways, PTL

-----------------------------------------------------------------------------
(* The refinement of Requests: only the sender's call asks, only a reply   *)
(* answers, and Custody says that whoever replies holds a request that has *)
(* no answer yet.                                                          *)

LEMMA ReplyAnswers ==
  ASSUME Shape, Custody, NEW r \in Req, NEW v \in Verdict, Reply(r, v),
         reqPc[r] \notin {"new", "answered"}
  PROVE  Promise!Answer(r)
<1>1. resp[r] = <<>> /\ resp' = [resp EXCEPT ![r] = <<v>>]
  <2>1. resp[r] = <<>>
    BY DEF Custody
  <2>2. Append(<<>>, v) = <<v>>
    OBVIOUS
  <2> QED
    BY <2>1, <2>2 DEF Reply
<1>2. Asked' = Asked /\ r \in Asked
  BY DEF Asked, Reply, Shape
<1> QED
  BY <1>1, <1>2 DEF Promise!Answer

LEMMA NoAnswer ==
  ASSUME UNCHANGED resp,
         \A r \in Req : reqPc'[r] = "new" <=> reqPc[r] = "new"
  PROVE  UNCHANGED Promise!vars
BY DEF Promise!vars, Asked

LEMMA PromiseInit == Init => Promise!Init
BY DEF Init, Promise!Init, Asked

LEMMA SendPromise ==
  ASSUME Shape, Custody, NEW r \in Req, Send(r)
  PROVE  [Promise!Next]_(Promise!vars)
<1> USE DEF reqVars
<1>1. CASE SendCall(r)
  <2>1. Asked' = Asked \union {r} /\ r \notin Asked
    BY <1>1 DEF SendCall, Asked, Shape
  <2> QED
    BY <1>1, <2>1 DEF SendCall, Promise!Next, Promise!Ask
<1>2. CASE SendEnqueue(r)
  BY <1>2, NoAnswer DEF SendEnqueue, Shape
<1>3. CASE SendCancelled(r)
  <2>1. Promise!Answer(r)
    BY <1>3, ReplyAnswers DEF SendCancelled, Verdict
  <2> QED
    BY <2>1 DEF Promise!Next
<1>4. CASE SendBlock(r)
  BY <1>4, NoAnswer DEF SendBlock, Shape
<1>5. CASE SendClosed(r)
  BY <1>5, NoAnswer DEF SendClosed
<1> QED
  BY <1>1, <1>2, <1>3, <1>4, <1>5 DEF Send

LEMMA LoopPromise ==
  ASSUME CustodyInv, NEW l \in Loops, LoopStep(l)
  PROVE  [Promise!Next]_(Promise!vars)
<1>0. Shape /\ Custody
  BY ShapeFromType DEF CustodyInv
<1> USE DEF reqVars
<1>1. ASSUME NEW v \in Verdict, loopPc[l] \in Holding, Reply(loopReq[l], v)
      PROVE  Promise!Next
  <2>1. loopReq[l] \in Req /\ reqPc[loopReq[l]] = "held"
    BY <1>0, <1>1 DEF Custody
  <2> QED
    BY <1>0, <1>1, <2>1, ReplyAnswers DEF Promise!Next
<1>2. CASE LoopTake(l)
  <2>1. PICK c \in Chans : c = LoopChan(l)
    BY DEF LoopChan, CustodyInv, TypeInv, TypeOK, Chans, Loops
  <2>2. Head(chan[c]) \in Req /\ reqPc[Head(chan[c])] = "queued"
    BY <1>2, <2>1, DequeueCustody DEF LoopTake, Holding
  <2> QED
    BY <1>0, <1>2, <2>1, <2>2, NoAnswer DEF LoopTake, Shape
<1>3. CASE LoopCheckStopped(l)
  BY <1>1, <1>3, NoAnswer DEF LoopCheckStopped, Dismiss, Pass, Holding, Verdict
<1>4. CASE LoopCheckWorking(l)
  BY <1>1, <1>4, NoAnswer DEF LoopCheckWorking, Dismiss, Pass, Holding, Verdict
<1>5. CASE LoopReply(l)
  BY <1>1, <1>5 DEF LoopReply, Holding, Verdict
<1>6. CASE LoopStart(l) \/ LoopExit(l) \/ LoopBegin(l) \/ LoopComplete(l)
  BY <1>6, NoAnswer DEF LoopStart, LoopExit, LoopBegin, LoopComplete
<1> QED
  BY <1>2, <1>3, <1>4, <1>5, <1>6 DEF LoopStep

LEMMA OtherPromise ==
  ASSUME \/ \E p \in Procs : Reset(p) \/ ProcStep(p)
         \/ Owner \/ Quitting \/ MonitorExit \/ UNCHANGED vars
  PROVE  UNCHANGED Promise!vars
BY NoAnswer DEF Reset, ProcStep, KillCancel, KillForce, RestartWait, RestartWake,
   RestartPanic, RestartLaunch, Owner, Pause, Resume, KillCommand, QuitBegin,
   Quitting, QuitCancel, QuitClose, QuitJoin, MonitorExit, vars, reqVars

\* The worker implements Requests: a request is asked once and at most one
\* response is put on its channel, across pauses, kills and restarts.
THEOREM PromiseKept == Spec => PromiseSpec
<1>1. CustodyInv /\ [Next]_vars => [Promise!Next]_(Promise!vars)
  <2> SUFFICES ASSUME CustodyInv, [Next]_vars
               PROVE  [Promise!Next]_(Promise!vars)
    OBVIOUS
  <2>1. Shape /\ Custody
    BY ShapeFromType DEF CustodyInv
  <2>2. CASE \E r \in Req : Send(r)
    BY <2>1, <2>2, SendPromise
  <2>3. CASE \E l \in Loops : LoopStep(l)
    BY <2>3, LoopPromise
  <2>4. CASE \/ \E p \in Procs : Reset(p) \/ ProcStep(p)
             \/ Owner \/ Quitting \/ MonitorExit \/ UNCHANGED vars
    BY <2>4, OtherPromise
  <2> QED
    BY <2>2, <2>3, <2>4 DEF Next, Ended
<1> QED
  BY <1>1, PromiseInit, CustodyAlways, PTL DEF Spec, PromiseSpec, Promise!Spec

-----------------------------------------------------------------------------
(* The agent's state.  A Restart must not overwrite a loop that is running *)
(* the agent: the loops it spawns are those that were never born.          *)

Unborn == \A l \in Loops : l[2] > gen => loopPc[l] = "unborn"

StateInv == TypeInv /\ Unborn /\ WorkingHasRunner /\ StopRequestHasRunner

LEMMA LoopNumber == ASSUME NEW l \in Loops PROVE l[2] \in Nat
BY BoundsAssumption DEF Loops, Gens

\* The types that the agent's state is about.
StateShape ==
  /\ gen \in Nat
  /\ status \in State
  /\ stopReq \in BOOLEAN
  /\ loopPc \in [Loops -> LoopPcs]

LEMMA StateShapeFromType == TypeInv => StateShape
BY BoundsAssumption DEF TypeInv, TypeOK, StateShape, Gens

\* A step of a loop that neither starts nor ends a run of the agent.
LEMMA LoopMoves ==
  ASSUME StateInv, NEW l \in Loops, NEW pc,
         loopPc[l] # "unborn", loopPc[l] = "running" => pc = "replied",
         loopPc[l] # "replied",
         Goto(l, pc), UNCHANGED <<gen, status, stopReq>>
  PROVE  Unborn' /\ WorkingHasRunner' /\ StopRequestHasRunner'
BY StateShapeFromType
   DEF StateInv, Unborn, WorkingHasRunner, StopRequestHasRunner, Goto, StateShape

LEMMA LoopState ==
  ASSUME StateInv, NEW l \in Loops, LoopStep(l)
  PROVE  Unborn' /\ WorkingHasRunner' /\ StopRequestHasRunner'
<1>0. StateShape
  BY StateShapeFromType DEF StateInv
<1> USE DEF chanVars, stateVars, loopVars, reqVars
<1>1. CASE LoopStart(l)
  BY <1>1, LoopMoves DEF LoopStart
<1>2. CASE LoopExit(l)
  BY <1>2, LoopMoves DEF LoopExit
<1>3. CASE LoopTake(l)
  BY <1>3, LoopMoves DEF LoopTake
<1>4. CASE LoopCheckStopped(l)
  BY <1>4, LoopMoves DEF LoopCheckStopped, Dismiss, Pass
<1>5. CASE LoopCheckWorking(l)
  BY <1>5, LoopMoves DEF LoopCheckWorking, Dismiss, Pass
<1>6. CASE LoopBegin(l)
  BY <1>0, <1>6 DEF LoopBegin, StartTask, StateInv, Unborn, WorkingHasRunner,
     StopRequestHasRunner, Goto, StateShape
<1>7. CASE LoopReply(l)
  BY <1>7, LoopMoves DEF LoopReply
<1>8. CASE LoopComplete(l)
  BY <1>0, <1>8 DEF LoopComplete, CompleteTask, StateInv, Unborn,
     WorkingHasRunner, StopRequestHasRunner, Goto, StateShape
<1> QED
  BY <1>1, <1>2, <1>3, <1>4, <1>5, <1>6, <1>7, <1>8 DEF LoopStep

LEMMA ProcState ==
  ASSUME StateInv, NEW p \in Procs, Reset(p) \/ ProcStep(p)
  PROVE  Unborn' /\ WorkingHasRunner' /\ StopRequestHasRunner'
<1>0. StateShape
  BY StateShapeFromType DEF StateInv
<1> USE DEF chanVars, stateVars, loopVars, reqVars, StateInv, Unborn,
            WorkingHasRunner, StopRequestHasRunner
<1>1. CASE RestartLaunch(p)
  <2>1. \A l \in Loops : loopPc[l] # "unborn" => loopPc'[l] = loopPc[l]
    BY <1>0, <1>1, LoopNumber DEF RestartLaunch, StateShape
  <2>2. \A l \in Loops : l[2] > gen + 1 => loopPc'[l] = loopPc[l] /\ l[2] > gen
    BY <1>0, <1>1, LoopNumber DEF RestartLaunch, StateShape
  <2>3. Unborn'
    BY <1>1, <2>2 DEF RestartLaunch
  <2>4. WorkingHasRunner'
    BY <1>1, <2>1 DEF RestartLaunch, ResumeState
  <2>5. StopRequestHasRunner'
    BY <1>1 DEF RestartLaunch, ResumeState
  <2> QED
    BY <2>3, <2>4, <2>5
<1>2. CASE ~RestartLaunch(p)
  BY <1>2 DEF ProcStep, Reset, KillCancel, KillForce, ForceStop, RestartWait,
     RestartWake, RestartPanic
<1> QED
  BY <1>1, <1>2

LEMMA OwnerState ==
  ASSUME StateInv, Owner \/ Quitting \/ MonitorExit
  PROVE  Unborn' /\ WorkingHasRunner' /\ StopRequestHasRunner'
BY DEF StateInv, Unborn, WorkingHasRunner, StopRequestHasRunner, Owner, Pause,
   RequestStop, Resume, ResumeState, KillCommand, KillCancel, QuitBegin, Quitting,
   QuitCancel, QuitClose, QuitJoin, MonitorExit, chanVars, stateVars, loopVars

LEMMA IdleState ==
  ASSUME StateInv, UNCHANGED <<gen, stateVars, loopPc>>
  PROVE  Unborn' /\ WorkingHasRunner' /\ StopRequestHasRunner'
BY DEF StateInv, Unborn, WorkingHasRunner, StopRequestHasRunner, stateVars

LEMMA StateStep == StateInv /\ [Next]_vars => StateInv'
<1> SUFFICES ASSUME StateInv, [Next]_vars PROVE StateInv'
  OBVIOUS
<1>1. TypeInv'
  BY NextType DEF StateInv
<1>2. CASE (\E r \in Req : Send(r)) \/ UNCHANGED vars
  <2>1. UNCHANGED <<gen, stateVars, loopPc>>
    BY <1>2 DEF Send, SendCall, SendEnqueue, SendCancelled, SendBlock, SendClosed,
       vars, chanVars, loopVars
  <2> QED
    BY <1>1, <2>1, IdleState DEF StateInv
<1>3. CASE \/ \E l \in Loops : LoopStep(l)
           \/ \E p \in Procs : Reset(p) \/ ProcStep(p)
           \/ Owner \/ Quitting \/ MonitorExit
  BY <1>1, <1>3, LoopState, ProcState, OwnerState DEF StateInv
<1> QED
  BY <1>2, <1>3 DEF Next, Ended

LEMMA StateAlways == Spec => []StateInv
<1>1. Init => StateInv
  <2> SUFFICES ASSUME Init PROVE StateInv
    OBVIOUS
  <2>1. Unborn
    BY LoopNumber DEF Init, Unborn
  <2> QED
    BY <2>1, InitType DEF Init, StateInv, WorkingHasRunner, StopRequestHasRunner
<1> QED
  BY <1>1, StateStep, PTL DEF Spec

\* No interleaving of kills, pauses, resumes and restarts leaves the agent
\* shown as working with no loop to end it.
THEOREM WorkingEnds == Spec => []WorkingHasRunner
<1>1. StateInv => WorkingHasRunner
  BY DEF StateInv
<1> QED
  BY <1>1, StateAlways, PTL

\* A stop request never outlives the run it was made for.
THEOREM StopRequestIsSpent == Spec => []StopRequestHasRunner
<1>1. StateInv => StopRequestHasRunner
  BY DEF StateInv
<1> QED
  BY <1>1, StateAlways, PTL

-----------------------------------------------------------------------------
(* Generations, as long as one process restarts the worker.  Its Restart   *)
(* waits until no loop is alive, and nothing but its own RestartLaunch     *)
(* spawns loops, so the loops are those of the current generation; and it  *)
(* kills before it restarts, so all older generations are cancelled.       *)

OneResetter == \A p, q \in Resetters : p = q

OnlyResettersReset ==
  \A p \in Procs : /\ Resetting(p) => p \in Resetters
                   /\ procPc[p] # "woken"

ReplacingAlone == \A p \in Procs : procPc[p] = "replacing" => NoLoops

LoopsOnGen ==
  \A l \in Loops : Alive(l) => /\ l[2] = gen
                               /\ loopPc[l] # "starting" => loopGen[l] = gen

OldAreCancelled ==
  /\ \A g \in Gens : g < gen => g \in cancelled
  /\ closed \subseteq cancelled
  /\ \A p \in Procs : Resetting(p) => gen \in cancelled
  /\ StopsHeld => gen \in cancelled

LiveHasLoops ==
  gen \notin cancelled => \A l \in Loops : l[2] = gen => Alive(l)

NoFutureChan == \A r \in Req : reqChan[r] <= gen

GenParts == /\ OnlyResettersReset /\ ReplacingAlone /\ LoopsOnGen
            /\ OldAreCancelled /\ LiveHasLoops /\ NoFutureChan

GenInv == TypeInv /\ GenParts

\* The types that generations are about.
GenShape ==
  /\ gen \in Gens
  /\ cancelled \subseteq Gens
  /\ loopPc \in [Loops -> LoopPcs]
  /\ loopGen \in [Loops -> Gens]
  /\ reqChan \in [Req -> Gens]
  /\ procPc \in [Procs -> ProcPcs]

LEMMA GenShapeFromType == TypeInv => GenShape
BY DEF TypeInv, TypeOK, GenShape

\* A step of one loop.  It may exit only on a cancelled or closed generation.
LEMMA LoopGenStep ==
  ASSUME GenInv, NEW l \in Loops, NEW pc \in LoopPcs \ {"unborn", "starting"},
         Alive(l), Goto(l, pc),
         \/ loopPc[l] # "starting" /\ UNCHANGED loopGen
         \/ loopPc[l] = "starting" /\ loopGen' = [loopGen EXCEPT ![l] = gen],
         pc = "exited" => loopPc[l] # "starting" /\ loopGen[l] \in cancelled,
         UNCHANGED <<gen, cancelled, closed, procPc, reqChan>>
  PROVE  GenParts'
<1>0. GenShape
  BY GenShapeFromType DEF GenInv
<1>1. \A m \in Loops : Alive(m)' => Alive(m)
  BY <1>0 DEF Goto, Alive, GenShape
<1>2. OnlyResettersReset' /\ OldAreCancelled' /\ NoFutureChan'
  BY DEF GenInv, GenParts, OnlyResettersReset, OldAreCancelled, NoFutureChan,
     Resetting, StopsHeld
<1>3. ReplacingAlone'
  BY <1>1 DEF GenInv, GenParts, ReplacingAlone, NoLoops
<1>4. LoopsOnGen'
  BY <1>0, <1>1 DEF GenInv, GenParts, LoopsOnGen, Goto, Alive, GenShape
<1>5. LiveHasLoops'
  <2>1. pc = "exited" => gen \in cancelled
    BY DEF GenInv, GenParts, LoopsOnGen
  <2> QED
    BY <1>0, <2>1 DEF GenInv, GenParts, LiveHasLoops, Goto, Alive, GenShape
<1> QED
  BY <1>2, <1>3, <1>4, <1>5 DEF GenParts

LEMMA LoopGenerations ==
  ASSUME GenInv, NEW l \in Loops, LoopStep(l)
  PROVE  GenParts'
<1> USE DEF chanVars, loopVars, reqVars, procVars, LoopPcs, Alive
<1>1. CASE LoopStart(l)
  BY <1>1, LoopGenStep DEF LoopStart
<1>2. CASE LoopExit(l)
  <2>1. loopGen[l] \in cancelled
    BY <1>2 DEF LoopExit, GenInv, GenParts, OldAreCancelled
  <2> QED
    BY <1>2, <2>1, LoopGenStep DEF LoopExit
<1>3. CASE LoopTake(l)
  BY <1>3, LoopGenStep DEF LoopTake
<1>4. CASE LoopCheckStopped(l)
  BY <1>4, LoopGenStep DEF LoopCheckStopped, Dismiss, Pass, Reply
<1>5. CASE LoopCheckWorking(l)
  BY <1>5, LoopGenStep DEF LoopCheckWorking, Dismiss, Pass, Reply
<1>6. CASE LoopBegin(l)
  BY <1>6, LoopGenStep DEF LoopBegin
<1>7. CASE LoopReply(l)
  BY <1>7, LoopGenStep DEF LoopReply, Reply
<1>8. CASE LoopComplete(l)
  BY <1>8, LoopGenStep DEF LoopComplete
<1> QED
  BY <1>1, <1>2, <1>3, <1>4, <1>5, <1>6, <1>7, <1>8 DEF LoopStep

LEMMA SendGenerations ==
  ASSUME GenInv, NEW r \in Req, Send(r)
  PROVE  GenParts'
<1>0. GenShape
  BY GenShapeFromType DEF GenInv
<1>1. UNCHANGED <<gen, cancelled, closed, loopPc, loopGen, procPc>>
  BY DEF Send, SendCall, SendEnqueue, SendCancelled, SendBlock, SendClosed,
     chanVars, loopVars, procVars
<1>2. UNCHANGED reqChan \/ reqChan' = [reqChan EXCEPT ![r] = gen]
  BY DEF Send, SendCall, SendEnqueue, SendCancelled, SendBlock, SendClosed, Reply,
     reqVars
<1>3. NoFutureChan'
  BY <1>0, <1>1, <1>2, BoundsAssumption
     DEF GenInv, GenParts, NoFutureChan, GenShape, Gens
<1> QED
  BY <1>1, <1>3 DEF GenInv, GenParts, OnlyResettersReset, ReplacingAlone,
     LoopsOnGen, OldAreCancelled, LiveHasLoops, Resetting, StopsHeld, NoLoops, Alive

\* A step of the TUI goroutine or of the monitor that spawns no loop.
LEMMA ProcMoves ==
  ASSUME GenInv, NEW p \in Procs, NEW pc \in ProcPcs, Move(p, pc),
         pc \in {"resetting", "restarting", "blocked", "replacing"} =>
           p \in Resetters /\ gen \in cancelled',
         pc # "woken",
         pc = "replacing" => NoLoops,
         pc \in {"closing", "joining"} => gen \in cancelled',
         \/ UNCHANGED cancelled
         \/ cancelled' = cancelled \union {gen},
         \/ UNCHANGED closed
         \/ closed' = closed \union {gen} /\ gen \in cancelled,
         UNCHANGED <<gen, loopPc, loopGen, reqChan>>
  PROVE  GenParts'
<1>0. GenShape
  BY GenShapeFromType DEF GenInv
<1> USE DEF GenInv, GenParts, GenShape, Move, Alive, NoLoops
<1>1. OnlyResettersReset'
  BY <1>0 DEF OnlyResettersReset, Resetting
<1>2. ReplacingAlone'
  BY <1>0 DEF ReplacingAlone
<1>3. LoopsOnGen' /\ NoFutureChan'
  BY DEF LoopsOnGen, NoFutureChan
<1>4. OldAreCancelled'
  BY <1>0 DEF OldAreCancelled, Resetting, StopsHeld, Procs
<1>5. LiveHasLoops'
  BY DEF LiveHasLoops
<1> QED
  BY <1>1, <1>2, <1>3, <1>4, <1>5

LEMMA LaunchGenerations ==
  ASSUME OneResetter, GenInv, NEW p \in Procs, RestartLaunch(p)
  PROVE  GenParts'
<1>0. GenShape
  BY GenShapeFromType DEF GenInv
<1> USE DEF GenInv, GenParts, GenShape, chanVars, reqVars, Alive, NoLoops
<1>1. /\ gen \in Nat /\ gen' = gen + 1
      /\ UNCHANGED <<cancelled, closed, loopGen, reqChan>>
      /\ Resetting(p) /\ p \in Resetters /\ gen \in cancelled
      /\ \A l \in Loops : ~Alive(l)
  BY <1>0, BoundsAssumption DEF RestartLaunch, Resetting, OnlyResettersReset,
     ReplacingAlone, OldAreCancelled, Gens
<1>2. \A q \in Procs : q # p => ~Resetting(q) /\ procPc'[q] = procPc[q]
  <2> SUFFICES ASSUME NEW q \in Procs, q # p
               PROVE  ~Resetting(q) /\ procPc'[q] = procPc[q]
    OBVIOUS
  <2>1. ~Resetting(q)
    BY <1>1 DEF OneResetter, OnlyResettersReset
  <2>2. procPc[q] # "blocked"
    BY <2>1 DEF Resetting
  <2> QED
    BY <2>1, <2>2 DEF RestartLaunch
<1>3. procPc'[p] = "idle"
  BY DEF RestartLaunch
<1>4. OnlyResettersReset' /\ ReplacingAlone'
  BY <1>0, <1>2, <1>3 DEF OnlyResettersReset, ReplacingAlone, Resetting
<1>5. \A l \in Loops :
        \/ l[2] = gen + 1 /\ loopPc'[l] = "starting"
        \/ l[2] # gen + 1 /\ ~Alive(l)'
  BY <1>0, <1>1 DEF RestartLaunch
<1>6. LoopsOnGen' /\ LiveHasLoops'
  BY <1>1, <1>5 DEF LoopsOnGen, LiveHasLoops
<1>7. OldAreCancelled'
  <2>1. \A g \in Gens : g < gen + 1 => g < gen \/ g = gen
    BY <1>1 DEF Gens
  <2>2. ~StopsHeld' /\ \A q \in Procs : ~Resetting(q)'
    BY <1>2, <1>3 DEF RestartLaunch, StopsHeld, Resetting, Procs
  <2> QED
    BY <1>1, <2>1, <2>2 DEF OldAreCancelled
<1>8. NoFutureChan'
  BY <1>0, <1>1, BoundsAssumption DEF NoFutureChan, Gens
<1> QED
  BY <1>4, <1>6, <1>7, <1>8

LEMMA ProcGenerations ==
  ASSUME OneResetter, GenInv, NEW p \in Procs, Reset(p) \/ ProcStep(p)
  PROVE  GenParts'
<1>0. GenShape
  BY GenShapeFromType DEF GenInv
<1> USE DEF chanVars, loopVars, reqVars, procVars, ProcPcs
<1>1. CASE Reset(p)
  BY <1>1, ProcMoves DEF Reset, KillCancel
<1>2. CASE KillForce(p)
  <2>1. procPc[p] = "resetting" => p \in Resetters /\ gen \in cancelled
    BY DEF GenInv, GenParts, OnlyResettersReset, OldAreCancelled, Resetting
  <2> QED
    BY <1>2, <2>1, ProcMoves DEF KillForce
<1>3. CASE RestartWait(p)
  <2>1. p \in Resetters /\ gen \in cancelled
    BY <1>3 DEF RestartWait, GenInv, GenParts, OnlyResettersReset,
       OldAreCancelled, Resetting
  <2> QED
    BY <1>3, <2>1, ProcMoves DEF RestartWait
<1>4. CASE RestartWake(p)
  <2>1. p \in Resetters /\ gen \in cancelled
    BY <1>4 DEF RestartWake, GenInv, GenParts, OnlyResettersReset,
       OldAreCancelled, Resetting
  <2> QED
    BY <1>4, <2>1, ProcMoves DEF RestartWake
<1>5. CASE RestartPanic(p)
  BY <1>5 DEF RestartPanic, GenInv, GenParts, OnlyResettersReset
<1>6. CASE RestartLaunch(p)
  BY <1>6, LaunchGenerations
<1> QED
  BY <1>1, <1>2, <1>3, <1>4, <1>5, <1>6 DEF ProcStep

LEMMA SameGenerations ==
  ASSUME GenInv,
         UNCHANGED <<gen, cancelled, closed, loopPc, loopGen, procPc, reqChan>>
  PROVE  GenParts'
BY DEF GenInv, GenParts, OnlyResettersReset, ReplacingAlone, LoopsOnGen,
   OldAreCancelled, LiveHasLoops, NoFutureChan, Resetting, StopsHeld, NoLoops,
   Alive

LEMMA OwnerGenerations ==
  ASSUME GenInv, Owner \/ Quitting \/ MonitorExit
  PROVE  GenParts'
<1> USE DEF chanVars, loopVars, reqVars, procVars, ProcPcs
<1>0. GenShape /\ "user" \in Procs /\ "monitor" \in Procs
  BY GenShapeFromType DEF GenInv, Procs
<1>1. CASE Pause \/ Resume
  BY <1>1, SameGenerations DEF Pause, Resume
<1>2. CASE KillCommand
  BY <1>0, <1>2, ProcMoves DEF KillCommand, KillCancel
<1>3. CASE QuitBegin
  BY <1>0, <1>3, ProcMoves DEF QuitBegin
<1>4. CASE QuitCancel
  BY <1>0, <1>4, ProcMoves DEF QuitCancel
<1>5. CASE QuitClose
  <2>1. gen \in cancelled
    BY <1>5 DEF QuitClose, GenInv, GenParts, OldAreCancelled, StopsHeld
  <2> QED
    BY <1>0, <1>5, <2>1, ProcMoves DEF QuitClose
<1>6. CASE QuitJoin
  BY <1>0, <1>6, ProcMoves DEF QuitJoin
<1>7. CASE MonitorExit
  BY <1>0, <1>7, ProcMoves DEF MonitorExit
<1> QED
  BY <1>1, <1>2, <1>3, <1>4, <1>5, <1>6, <1>7 DEF Owner, Quitting

LEMMA GenInit == Init => GenParts
<1> SUFFICES ASSUME Init PROVE GenParts
  OBVIOUS
<1>1. \A l \in Loops : Alive(l) <=> l[2] = 1
  BY DEF Init, Alive
<1>2. LoopsOnGen /\ LiveHasLoops
  BY <1>1 DEF Init, LoopsOnGen, LiveHasLoops, Alive
<1>3. OnlyResettersReset /\ ReplacingAlone
  BY DEF Init, OnlyResettersReset, ReplacingAlone, Resetting
<1>4. OldAreCancelled /\ NoFutureChan
  BY BoundsAssumption
     DEF Init, OldAreCancelled, NoFutureChan, Resetting, StopsHeld, Gens, Procs
<1> QED
  BY <1>2, <1>3, <1>4 DEF GenParts

LEMMA GenStep ==
  ASSUME OneResetter
  PROVE  GenInv /\ [Next]_vars => GenInv'
<1> SUFFICES ASSUME GenInv, [Next]_vars PROVE GenInv'
  OBVIOUS
<1>1. TypeInv'
  BY NextType DEF GenInv
<1>2. CASE UNCHANGED vars
  BY <1>1, <1>2, SameGenerations
     DEF GenInv, vars, chanVars, loopVars, reqVars, procVars
<1>3. CASE \/ \E r \in Req : Send(r)
           \/ \E l \in Loops : LoopStep(l)
           \/ \E p \in Procs : Reset(p) \/ ProcStep(p)
           \/ Owner \/ Quitting \/ MonitorExit
  BY <1>1, <1>3, SendGenerations, LoopGenerations, ProcGenerations,
     OwnerGenerations DEF GenInv
<1> QED
  BY <1>2, <1>3 DEF Next, Ended

LEMMA StrandedFromGen == GenInv => StrandedOnlyByKill
<1> SUFFICES ASSUME GenInv, NEW r \in Req, reqChan[r] \notin cancelled
             PROVE  \E l \in Loops : l[1] = KindOf(r) /\ Serves(l, reqChan[r])
  BY DEF StrandedOnlyByKill
<1>0. GenShape
  BY GenShapeFromType DEF GenInv
<1>1. reqChan[r] = gen
  BY <1>0, BoundsAssumption
     DEF GenInv, GenParts, OldAreCancelled, NoFutureChan, GenShape, Gens
<1> DEFINE l == <<KindOf(r), gen>>
<1>2. l \in Loops /\ l[1] = KindOf(r) /\ l[2] = gen
  BY <1>0 DEF GenShape, Loops, Kinds, KindOf
<1>3. Alive(l)
  BY <1>1, <1>2 DEF GenInv, GenParts, LiveHasLoops
<1>4. Serves(l, gen)
  BY <1>2, <1>3 DEF GenInv, GenParts, LoopsOnGen, Serves
<1> QED
  BY <1>1, <1>2, <1>4

LEMMA GenAlways ==
  ASSUME OneResetter
  PROVE  Spec => []GenInv
<1>1. Init => GenInv
  BY InitType, GenInit DEF GenInv
<1>2. GenInv /\ [Next]_vars => GenInv'
  BY GenStep
<1> QED
  BY <1>1, <1>2, PTL DEF Spec

\* Restart waits for the loops it replaces: the loops alive are those of the current
\* generation, provided only one process restarts the worker (Pool.Restart).
THEOREM RestartReplacesLoops ==
  ASSUME OneResetter
  PROVE  Spec => []OnlyCurrentLoops
<1>1. GenInv => OnlyCurrentLoops
  BY DEF GenInv, GenParts, LoopsOnGen, OnlyCurrentLoops
<1> QED
  BY <1>1, GenAlways, PTL

\* A request stranded in a queue was stranded by a kill, under the same condition (the
\* select of both loops, handleChat and handleTask).
THEOREM OneResetterIsSafe ==
  ASSUME OneResetter
  PROVE  Spec => []StrandedOnlyByKill
<1>1. GenInv => StrandedOnlyByKill
  BY StrandedFromGen
<1> QED
  BY <1>1, GenAlways, PTL

=============================================================================
