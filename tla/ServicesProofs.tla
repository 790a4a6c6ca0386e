--------------------------- MODULE ServicesProofs ---------------------------
(***************************************************************************)
(* Theorems of the services beside the workers: the CI watcher, the        *)
(* automatic reset, the agent pool, and the process manager under the      *)
(* health monitor.                                                         *)
(***************************************************************************)
EXTENDS MCServices, TLAPS, FiniteSetTheorems, SequenceTheorems

-----------------------------------------------------------------------------
(* The CI watcher.                                                         *)

CITypes ==
    /\ watching \in [PRs -> 0 .. MaxWatches]
    /\ follower \in [C!Watches -> [pc : {"none", "wait", "send", "stop", "gone"},
                                   pr : PRs \cup {C!NoWatch},
                                   cancelled : BOOLEAN, cut : BOOLEAN]]
    /\ \A w \in C!Watches : follower[w].pc # "none" => follower[w].pr \in PRs

\* What is registered for a pull request was begun for it, so that no two pull requests
\* have one watch, and what ends a watch takes its registration with it.
Registered ==
    \A p \in PRs : watching[p] # C!NoWatch =>
        LET f == follower[watching[p]] IN
            /\ f.pr = p /\ f.pc # "none"
            /\ f.cut \/ (f.pc # "gone" /\ ~f.cancelled)

WatchInv == CITypes /\ Registered

LEMMA WatchNumbers == /\ C!Watches \subseteq Nat \ {0} /\ C!NoWatch = 0
                      /\ \A w \in C!Watches : w \in 0 .. MaxWatches
  BY ServicesAssumption DEF C!Watches, C!NoWatch

LEMMA WatchInit == C!CIInit => WatchInv
  BY ServicesAssumption
  DEF C!CIInit, WatchInv, CITypes, Registered, C!NewFollower, C!NoWatch, C!Watches

LEMMA WatchBegins ==
  ASSUME WatchInv, NEW p \in PRs, C!WatchPR(p)
  PROVE  WatchInv'
<1>1. PICK w \in C!Watches :
          /\ follower[w].pc = "none"
          /\ watching' = [watching EXCEPT ![p] = w]
          /\ follower' = [follower EXCEPT ![w] = [C!NewFollower EXCEPT !.pc = "wait", !.pr = p]]
  BY DEF C!WatchPR
<1>2. CITypes'
  BY <1>1, WatchNumbers DEF WatchInv, CITypes, C!NewFollower
<1>3. Registered'
  <2> SUFFICES ASSUME NEW q \in PRs, watching'[q] # C!NoWatch
               PROVE  LET f == follower'[watching'[q]] IN
                        /\ f.pr = q /\ f.pc # "none"
                        /\ f.cut \/ (f.pc # "gone" /\ ~f.cancelled)
    BY DEF Registered
  <2>1. CASE q = p
    BY <1>1, <2>1 DEF WatchInv, CITypes, C!NewFollower
  <2>2. CASE q # p
    <3>1. watching'[q] = watching[q] /\ follower[watching[q]].pc # "none"
      BY <1>1, <2>2 DEF WatchInv, CITypes, Registered
    <3>2. watching[q] \in C!Watches
      BY <3>1, WatchNumbers DEF WatchInv, CITypes, C!Watches
    <3>3. follower'[watching[q]] = follower[watching[q]]
      BY <1>1, <3>1, <3>2 DEF WatchInv, CITypes
    <3> QED
      BY <3>1, <3>3 DEF WatchInv, Registered
  <2> QED
    BY <2>1, <2>2
<1> QED
  BY <1>2, <1>3 DEF WatchInv

\* A watch that is cancelled, or ends, with the registration of its pull request.
LEMMA RegistrationGoes ==
  ASSUME WatchInv, NEW p \in PRs, CITypes',
         watching' = [watching EXCEPT ![p] = C!NoWatch],
         \A q \in PRs \ {p} : watching[q] # C!NoWatch =>
            follower'[watching[q]] = follower[watching[q]]
  PROVE  WatchInv'
  BY DEF WatchInv, CITypes, Registered

\* No two pull requests have one watch.
LEMMA OneRegistration ==
  ASSUME WatchInv, NEW q \in PRs, watching[q] # C!NoWatch
  PROVE  /\ watching[q] \in C!Watches /\ follower[watching[q]].pr = q
         /\ \A p \in PRs \ {q} : watching[p] # watching[q]
  BY WatchNumbers DEF WatchInv, CITypes, Registered, C!Watches

LEMMA WatchStops ==
  ASSUME WatchInv, NEW p \in PRs, C!StopWatching(p)
  PROVE  WatchInv'
<1>1. /\ watching' = [watching EXCEPT ![p] = C!NoWatch]
      /\ follower' = [follower EXCEPT ![watching[p]].cancelled = TRUE]
  BY DEF C!StopWatching, C!Forget
<1>2. watching[p] \in C!Watches
  BY OneRegistration DEF C!StopWatching
<1>3. CITypes'
  <2>1. watching' \in [PRs -> 0 .. MaxWatches]
    BY <1>1, ServicesAssumption DEF WatchInv, CITypes, C!NoWatch
  <2>2. follower' = [follower EXCEPT ![watching[p]] =
                        [follower[watching[p]] EXCEPT !.cancelled = TRUE]]
    BY <1>1
  <2> QED
    BY <1>2, <2>1, <2>2 DEF WatchInv, CITypes
<1>4. ASSUME NEW q \in PRs \ {p}, watching[q] # C!NoWatch
      PROVE  follower'[watching[q]] = follower[watching[q]]
  <2>1. watching[q] \in C!Watches /\ watching[q] # watching[p]
    BY <1>4, OneRegistration
  <2> QED
    BY <1>1, <2>1 DEF WatchInv, CITypes
<1> QED
  BY <1>1, <1>3, <1>4, RegistrationGoes

LEMMA FollowerMoves ==
  ASSUME WatchInv, NEW w \in C!Watches,
         C!FollowCancelled(w) \/ C!FollowPoll(w) \/ C!FollowTimeout(w) \/ C!FollowSend(w)
            \/ C!EndCaller(w)
  PROVE  WatchInv'
<1>1. PICK pc \in {"wait", "send", "stop", "gone"}, cancelled \in BOOLEAN, off \in BOOLEAN :
          /\ watching' = watching
          /\ follower[w].pc # "none"
          /\ follower' = [follower EXCEPT ![w] = [@ EXCEPT !.pc = pc, !.cancelled = cancelled,
                                                         !.cut = off]]
          /\ off \/ (pc # "gone" /\ cancelled = follower[w].cancelled /\ off = follower[w].cut)
             \/ (follower[w].cancelled /\ cancelled /\ off = follower[w].cut)
  <2>1. CASE C!EndCaller(w)
    <3>1. follower' = [follower EXCEPT ![w] = [@ EXCEPT !.pc = follower[w].pc,
                                                        !.cancelled = TRUE, !.cut = TRUE]]
      BY <2>1 DEF C!EndCaller, WatchInv, CITypes
    <3> QED
      BY <2>1, <3>1 DEF C!EndCaller, WatchInv, CITypes
  <2>2. CASE ~C!EndCaller(w)
    <3>1. PICK pc \in {"send", "stop", "gone"} :
            /\ C!FollowTo(w, pc) /\ watching' = watching
            /\ follower[w].pc \in {"wait", "send"}
            /\ pc = "gone" => follower[w].cancelled
      BY <2>2 DEF C!FollowCancelled, C!FollowPoll, C!FollowTimeout, C!FollowSend
    <3>2. follower' = [follower EXCEPT ![w] = [@ EXCEPT !.pc = pc,
                            !.cancelled = follower[w].cancelled, !.cut = follower[w].cut]]
      BY <3>1 DEF C!FollowTo, WatchInv, CITypes
    <3> QED
      BY <3>1, <3>2 DEF WatchInv, CITypes
  <2> QED
    BY <2>1, <2>2
<1>2. CITypes'
  BY <1>1, ZenonT(40) DEF WatchInv, CITypes
<1>3. Registered'
  <2> SUFFICES ASSUME NEW q \in PRs, watching[q] # C!NoWatch
               PROVE  LET f == follower'[watching[q]] IN
                        /\ f.pr = q /\ f.pc # "none"
                        /\ f.cut \/ (f.pc # "gone" /\ ~f.cancelled)
    BY <1>1 DEF Registered
  <2>1. watching[q] \in C!Watches
    BY OneRegistration
  <2>2. CASE watching[q] = w
    BY <1>1, <2>1, <2>2 DEF WatchInv, CITypes, Registered
  <2>3. CASE watching[q] # w
    BY <1>1, <2>1, <2>3 DEF WatchInv, CITypes, Registered
  <2> QED
    BY <2>2, <2>3
<1> QED
  BY <1>2, <1>3 DEF WatchInv

LEMMA FollowerStops ==
  ASSUME WatchInv, NEW w \in C!Watches, C!FollowStop(w)
  PROVE  WatchInv'
<1> DEFINE p == follower[w].pr
<1>1. /\ watching' = [watching EXCEPT ![p] = C!NoWatch]
      /\ follower' = [v \in C!Watches |->
            IF v = w THEN [follower[w] EXCEPT !.pc = "gone"]
            ELSE IF v = watching[p] THEN [follower[v] EXCEPT !.cancelled = TRUE]
            ELSE follower[v]]
  BY DEF C!FollowStop
<1>2. p \in PRs
  BY DEF C!FollowStop, WatchInv, CITypes
<1>3. CITypes'
  <2> HIDE DEF p
  <2>1. watching' \in [PRs -> 0 .. MaxWatches]
    BY <1>1, <1>2, ServicesAssumption DEF WatchInv, CITypes, C!NoWatch
  <2> USE DEF p
  <2>2. follower' \in [C!Watches -> [pc : {"none", "wait", "send", "stop", "gone"},
                                     pr : PRs \cup {C!NoWatch},
                                     cancelled : BOOLEAN, cut : BOOLEAN]]
    <3> DEFINE Shape == [pc : {"none", "wait", "send", "stop", "gone"},
                         pr : PRs \cup {C!NoWatch}, cancelled : BOOLEAN, cut : BOOLEAN]
    <3>1. \A v \in C!Watches : follower[v] \in Shape
      BY DEF WatchInv, CITypes
    <3>2. /\ [follower[w] EXCEPT !.pc = "gone"] \in Shape
          /\ \A v \in C!Watches : [follower[v] EXCEPT !.cancelled = TRUE] \in Shape
      BY <3>1
    <3> QED
      BY <1>1, <3>1, <3>2, Zenon
  <2>3. ASSUME NEW v \in C!Watches, follower'[v].pc # "none" PROVE follower'[v].pr \in PRs
    BY <1>1, <1>2, <2>3 DEF WatchInv, CITypes
  <2> QED
    BY <2>1, <2>2, <2>3 DEF CITypes
<1>4. ASSUME NEW q \in PRs \ {p}, watching[q] # C!NoWatch
      PROVE  follower'[watching[q]] = follower[watching[q]]
  <2>1. watching[q] \in C!Watches /\ watching[q] # w /\ watching[q] # watching[p]
    BY <1>2, <1>4, OneRegistration
  <2> QED
    BY <1>1, <2>1
<1> QED
  BY <1>1, <1>2, <1>3, <1>4, RegistrationGoes

LEMMA WatchStep == WatchInv /\ (C!CINext \/ UNCHANGED C!ciVars) => WatchInv'
<1> SUFFICES ASSUME WatchInv, C!CINext \/ UNCHANGED C!ciVars PROVE WatchInv'
  OBVIOUS
<1>1. ASSUME NEW p \in PRs, C!WatchPR(p) \/ C!StopWatching(p) PROVE WatchInv'
  BY <1>1, WatchBegins, WatchStops
<1>2. ASSUME NEW w \in C!Watches, C!Follow(w) \/ C!EndCaller(w) PROVE WatchInv'
  BY <1>2, FollowerMoves, FollowerStops DEF C!Follow
<1>3. CASE C!StartService \/ C!StopService
             \/ \E s \in C!Services : C!Pass(s) \/ C!PassExit(s)
  <2>1. UNCHANGED <<watching, follower>>
    BY <1>3 DEF C!StartService, C!StopService, C!Pass, C!PassTake, C!PassTell, C!PassExit
  <2> QED
    BY <2>1 DEF WatchInv, CITypes, Registered
<1>4. CASE UNCHANGED C!ciVars
  BY <1>4 DEF C!ciVars, WatchInv, CITypes, Registered
<1> QED
  BY <1>1, <1>2, <1>3, <1>4 DEF C!CINext

LEMMA WatchGivesFollowed == WatchInv => WatchIsFollowed
  BY DEF WatchInv, Registered, WatchIsFollowed, C!WatchIsFollowed

LEMMA PartOfWatch == [Next]_vars => C!CINext \/ UNCHANGED C!ciVars
  BY DEF Next, vars, ciVars, C!ciVars

\* A registered pull request is followed by a goroutine of its own that goes on, unless
\* the context of the one who registered it has ended, for any number of pull requests
\* and watches: WatchPR, StopWatching and watchLoop, of which the last stops whatever
\* watch has its number by then.
THEOREM WatchesAreFollowed == Spec => []WatchIsFollowed
<1>1. Init => WatchInv
  BY WatchInit DEF Init
<1>2. WatchInv /\ [Next]_vars => WatchInv'
  BY WatchStep, PartOfWatch
<1> QED
  BY <1>1, <1>2, WatchGivesFollowed, PTL DEF Spec

-----------------------------------------------------------------------------
(* The automatic reset.                                                    *)

ResetTypes ==
    /\ entry \in [there : BOOLEAN, age : 0 .. Cooldown, fails : Nat]
    /\ reset \in [Handlers -> [at : {"idle", "reset", "escalate"}, time : 0 .. ResetTimeout]]
    /\ cleared \in BOOLEAN

\* The age of the last attempt tells how long the goroutine that made it is at work,
\* which is less than the cooldown that keeps the others out.
OneAtWork ==
    cleared \/ /\ \A g, h \in R!Busy : g = h
               /\ \A h \in R!Busy :
                    /\ entry.there
                    /\ reset[h].at = "reset" => entry.age <= reset[h].time
                    /\ reset[h].at = "escalate" =>
                        /\ entry.age <= ResetTimeout + reset[h].time
                        /\ entry.fails >= MaxFailures

TurnInv == ResetTypes /\ OneAtWork

LEMMA TurnInit == R!ResetInit => TurnInv
<1> SUFFICES ASSUME R!ResetInit PROVE TurnInv
  OBVIOUS
<1>1. 0 \in 0 .. ResetTimeout /\ Cooldown \in 0 .. Cooldown
  BY ServicesAssumption
<1>2. ResetTypes
  BY <1>1 DEF R!ResetInit, R!NoEntry, R!Waiting, ResetTypes
<1>3. R!Busy = {}
  BY DEF R!ResetInit, R!Waiting, R!Busy
<1> QED
  BY <1>2, <1>3 DEF TurnInv, OneAtWork

\* Whoever begins finds nobody at work, since the last attempt is a cooldown ago.
LEMMA ErrorHandled ==
  ASSUME TurnInv, NEW h \in Handlers, R!HandleError(h)
  PROVE  TurnInv'
<1>1. ResetTypes'
  <2>1. 0 \in 0 .. ResetTimeout /\ 0 \in 0 .. Cooldown
    BY ServicesAssumption
  <2>2. entry' \in [there : BOOLEAN, age : 0 .. Cooldown, fails : Nat]
    BY <2>1 DEF TurnInv, ResetTypes, R!HandleError
  <2>3. reset' \in [Handlers -> [at : {"idle", "reset", "escalate"}, time : 0 .. ResetTimeout]]
    BY <2>1 DEF TurnInv, ResetTypes, R!HandleError
  <2> QED
    BY <2>2, <2>3 DEF TurnInv, ResetTypes, R!HandleError
<1>2. CASE ~cleared
  <2>1. R!Busy = {}
    <3>1. ASSUME NEW g \in R!Busy PROVE FALSE
      BY <1>2, <3>1, ServicesAssumption
      DEF TurnInv, ResetTypes, OneAtWork, R!HandleError, R!Busy
    <3> QED
      BY <3>1
  <2>2. R!Busy' = {h}
    BY <2>1 DEF R!HandleError, R!Busy, TurnInv, ResetTypes
  <2>3. reset'[h].at = "reset" /\ reset'[h].time = 0 /\ entry'.there /\ entry'.age = 0
    BY DEF R!HandleError, TurnInv, ResetTypes
  <2> QED
    BY <1>1, <2>2, <2>3 DEF TurnInv, OneAtWork
<1> QED
  BY <1>1, <1>2 DEF TurnInv, OneAtWork, R!HandleError

\* Of one at work, the others do not matter.
LEMMA Alone ==
  ASSUME TurnInv, ~cleared, NEW h \in Handlers, reset[h].at # "idle"
  PROVE  R!Busy = {h}
  BY DEF TurnInv, OneAtWork, R!Busy

LEMMA ResetEnds ==
  ASSUME TurnInv, NEW h \in Handlers, R!RecordFailure(h) \/ R!RecordSuccess(h)
  PROVE  TurnInv'
<1>1. CASE ~entry.there
  <2>1. UNCHANGED <<entry, reset, cleared>>
    BY <1>1 DEF R!RecordFailure, R!RecordSuccess
  <2> QED
    BY <2>1 DEF TurnInv, ResetTypes, OneAtWork, R!Busy
<1>2. CASE entry.there
  <2>1. PICK n \in Nat, r \in {R!Waiting, [at |-> "escalate", time |-> 0]} :
          /\ reset[h].at = "reset" /\ cleared' = cleared
          /\ entry' = [entry EXCEPT !.fails = n]
          /\ reset' = [reset EXCEPT ![h] = r]
          /\ r.at = "escalate" => n >= MaxFailures
    <3>1. CASE R!RecordFailure(h)
      <4>1. R!More(entry.fails) \in Nat
        BY DEF R!More, TurnInv, ResetTypes
      <4>2. entry'.fails = R!More(entry.fails)
        BY <1>2, <3>1 DEF R!RecordFailure, TurnInv, ResetTypes
      <4> QED
        BY <1>2, <3>1, <4>1, <4>2 DEF R!RecordFailure, R!Waiting
    <3>2. CASE R!RecordSuccess(h)
      BY <1>2, <3>2 DEF R!RecordSuccess, R!Waiting
    <3> QED
      BY <3>1, <3>2
  <2>2. ResetTypes'
    BY <2>1, ServicesAssumption DEF TurnInv, ResetTypes, R!Waiting
  <2>3. CASE ~cleared
    <3>1. R!Busy = {h} /\ entry.age <= reset[h].time
      BY <2>1, <2>3, Alone DEF TurnInv, OneAtWork
    <3>2. R!Busy' \subseteq {h}
      BY <2>1, <3>1 DEF R!Busy, TurnInv, ResetTypes
    <3>3. reset'[h] = r /\ entry'.age = entry.age /\ entry'.fails = n /\ entry'.there
      BY <1>2, <2>1 DEF TurnInv, ResetTypes
    <3>4. h \in R!Busy' => r.at = "escalate" /\ r.time = 0
      BY <2>1, <3>3 DEF R!Busy, R!Waiting
    <3>5. entry.age \in Nat /\ reset[h].time \in Nat /\ reset[h].time <= ResetTimeout
      BY ServicesAssumption DEF TurnInv, ResetTypes
    <3>6. ASSUME NEW g \in R!Busy'
          PROVE  /\ g = h /\ entry'.there /\ reset'[g].at = "escalate"
                 /\ entry'.age <= ResetTimeout + reset'[g].time
                 /\ entry'.fails >= MaxFailures
      <4>1. g = h /\ reset'[g].at = "escalate" /\ reset'[g].time = 0
        BY <3>2, <3>3, <3>4, <3>6
      <4> QED
        BY <2>1, <3>1, <3>3, <3>5, <4>1, ServicesAssumption
    <3> QED
      BY <2>2, <3>6 DEF TurnInv, OneAtWork
  <2> QED
    BY <2>1, <2>2, <2>3 DEF TurnInv, OneAtWork
<1> QED
  BY <1>1, <1>2

LEMMA PmIsTold ==
  ASSUME TurnInv, NEW h \in Handlers, R!Escalate(h)
  PROVE  TurnInv'
<1>1. ResetTypes'
  BY ServicesAssumption DEF TurnInv, ResetTypes, R!Escalate, R!Waiting
<1>2. R!Busy' \subseteq R!Busy /\ \A g \in R!Busy' : reset'[g] = reset[g]
  BY DEF TurnInv, ResetTypes, R!Escalate, R!Waiting, R!Busy
<1> QED
  BY <1>1, <1>2 DEF TurnInv, OneAtWork, R!Escalate

\* The state of an agent is cleared while somebody is at work, or nobody is.
LEMMA StateCleared == ASSUME TurnInv, R!ResetState PROVE TurnInv'
<1>1. ResetTypes'
  BY ServicesAssumption DEF TurnInv, ResetTypes, R!ResetState, R!NoEntry
<1>2. cleared' \/ R!Busy' = {}
  BY DEF R!ResetState, R!Busy, TurnInv, ResetTypes
<1> QED
  BY <1>1, <1>2 DEF TurnInv, OneAtWork

LEMMA TimeGoesOn == ASSUME TurnInv, R!ResetTick PROVE TurnInv'
<1>1. ResetTypes'
  <2>1. entry' \in [there : BOOLEAN, age : 0 .. Cooldown, fails : Nat]
    BY ServicesAssumption DEF TurnInv, ResetTypes, R!ResetTick
  <2>2. ASSUME NEW h \in Handlers
        PROVE  reset'[h] \in [at : {"idle", "reset", "escalate"}, time : 0 .. ResetTimeout]
    BY ServicesAssumption DEF TurnInv, ResetTypes, R!ResetTick
  <2> QED
    BY <2>1, <2>2 DEF TurnInv, ResetTypes, R!ResetTick
<1>2. R!Busy' = R!Busy
  BY DEF R!ResetTick, R!Busy, TurnInv, ResetTypes
<1>3. ASSUME NEW h \in R!Busy
      PROVE  /\ entry'.there = entry.there /\ entry'.fails = entry.fails
             /\ entry'.age \in {entry.age, entry.age + 1}
             /\ reset'[h].at = reset[h].at /\ reset'[h].time = reset[h].time + 1
             /\ entry.age \in Nat /\ reset[h].time \in Nat
  BY ServicesAssumption DEF R!ResetTick, R!Busy, TurnInv, ResetTypes
<1>4. OneAtWork'
  <2>1. cleared' = cleared
    BY DEF R!ResetTick
  <2>2. SUFFICES ASSUME ~cleared PROVE OneAtWork'
    BY <2>1 DEF OneAtWork
  <2>3. \A g, h \in R!Busy : g = h
    BY <2>2 DEF TurnInv, OneAtWork
  <2>4. ASSUME NEW h \in R!Busy
        PROVE  /\ entry'.there
               /\ reset'[h].at = "reset" => entry'.age <= reset'[h].time
               /\ reset'[h].at = "escalate" =>
                     /\ entry'.age <= ResetTimeout + reset'[h].time
                     /\ entry'.fails >= MaxFailures
    <3>1. ResetTimeout \in Nat
      BY ServicesAssumption
    <3>2. /\ entry.there
          /\ reset[h].at = "reset" => entry.age <= reset[h].time
          /\ reset[h].at = "escalate" =>
                /\ entry.age <= ResetTimeout + reset[h].time
                /\ entry.fails >= MaxFailures
      BY <2>2, <2>4 DEF TurnInv, OneAtWork
    <3>3. /\ entry'.there = entry.there /\ entry'.fails = entry.fails
          /\ entry'.age <= entry.age + 1
          /\ reset'[h].at = reset[h].at /\ reset'[h].time = reset[h].time + 1
          /\ entry.age \in Nat /\ entry'.age \in Nat /\ reset[h].time \in Nat
      BY <1>3, <2>4
    <3>4. reset'[h].at = "reset" => entry'.age <= reset'[h].time
      BY <3>2, <3>3
    <3>5. reset'[h].at = "escalate" => entry'.age <= ResetTimeout + reset'[h].time
      BY <3>1, <3>2, <3>3
    <3> QED
      BY <3>2, <3>3, <3>4, <3>5
  <2> QED
    BY <1>2, <2>3, <2>4 DEF OneAtWork
<1> QED
  BY <1>1, <1>4 DEF TurnInv

LEMMA TurnStep == TurnInv /\ (R!ResetNext \/ UNCHANGED R!resetVars) => TurnInv'
<1> SUFFICES ASSUME TurnInv, R!ResetNext \/ UNCHANGED R!resetVars PROVE TurnInv'
  OBVIOUS
<1>1. CASE UNCHANGED R!resetVars
  BY <1>1 DEF R!resetVars, TurnInv, ResetTypes, OneAtWork, R!Busy
<1> QED
  BY <1>1, ErrorHandled, ResetEnds, PmIsTold, StateCleared, TimeGoesOn DEF R!ResetNext

LEMMA TurnGivesTurns == TurnInv => R!ResetsInTurn
<1> SUFFICES ASSUME TurnInv, ~cleared PROVE R!ResetsInTurn
  BY DEF R!ResetsInTurn
<1>1. R!Busy = {} \/ \E h \in R!Busy : R!Busy = {h}
  BY DEF TurnInv, OneAtWork
<1>2. Cardinality(R!Busy) \in {0, 1}
  BY <1>1, FS_EmptySet, FS_Singleton
<1>3. R!Cardinality(R!Busy) <= 1
  <2>1. R!Cardinality(R!Busy) = Cardinality(R!Busy)
    BY Zenon DEF R!Cardinality, Cardinality
  <2> QED
    BY <1>2, <2>1
<1>4. \A h \in R!Busy : reset[h].at = "escalate" => entry.fails >= MaxFailures
  BY DEF TurnInv, OneAtWork
<1> QED
  BY <1>3, <1>4 DEF R!ResetsInTurn

-----------------------------------------------------------------------------
(* The agent pool.                                                         *)

PoolTypes ==
    /\ closed \in BOOLEAN /\ queue \in Seq(Clients) /\ chan \in {"none", "open", "closed"}
    /\ dispatch \in [Clients -> {"call", "initialize", "locking", "reread", "send", "wait",
                              "returned"}]
    /\ job \in [Workers -> Clients \cup {P!Ready, P!Done}]
    /\ result \subseteq Clients /\ runs \in [Clients -> {0, 1}]

Unsent == {"call", "initialize", "locking", "reread", "send"}

JobsOf(c) == {w \in Workers : job[w] = c}
PlacesOf(c) == {i \in DOMAIN queue : queue[i] = c}

\* A task is in the queue, with a worker or finished, in one place only, once its
\* client has sent it.
OnePlace ==
    \A c \in Clients :
        /\ \A v, w \in JobsOf(c) : v = w
        /\ \A i, j \in PlacesOf(c) : i = j
        /\ JobsOf(c) = {} \/ PlacesOf(c) = {}
        /\ runs[c] = 1 => JobsOf(c) = {} /\ PlacesOf(c) = {}
        /\ dispatch[c] \in Unsent =>
            JobsOf(c) = {} /\ PlacesOf(c) = {} /\ runs[c] = 0
        /\ dispatch[c] = "wait" => JobsOf(c) # {} \/ PlacesOf(c) # {} \/ c \in result

\* Nothing is sent without a channel; a worker leaves what is closed and empty only,
\* and Close waits for all of them.
Drained ==
    /\ chan = "none" =>
        queue = <<>> /\ \A c \in Clients : dispatch[c] \notin {"reread", "send", "wait"}
    /\ closer \in {"drains", "returned"} => closed
    /\ closed => chan # "open"
    /\ chan = "closed" => closed
    /\ \A w \in Workers : job[w] = P!Done => chan = "closed" /\ queue = <<>>
    /\ closer = "returned" => chan = "none" \/ \A w \in Workers : job[w] = P!Done

DrainInv == PoolTypes /\ OnePlace /\ Drained

LEMMA MarksAreNoClients == /\ P!Ready \notin Clients /\ P!Done \notin Clients
                           /\ P!Ready # P!Done
  BY ServicesAssumption DEF P!Ready, P!Done

LEMMA DrainInit == P!PoolInit => DrainInv
<1> SUFFICES ASSUME P!PoolInit PROVE DrainInv
  OBVIOUS
<1>1. PoolTypes
  <2>1. <<>> \in Seq(Clients)
    OBVIOUS
  <2>2. /\ dispatch \in [Clients -> {"call", "initialize", "locking", "reread", "send", "wait",
                              "returned"}]
        /\ job \in [Workers -> Clients \cup {P!Ready, P!Done}]
        /\ runs \in [Clients -> {0, 1}]
    BY DEF P!PoolInit
  <2> QED
    BY <2>1, <2>2 DEF P!PoolInit, PoolTypes
<1>2. \A c \in Clients : JobsOf(c) = {} /\ PlacesOf(c) = {}
  BY MarksAreNoClients DEF P!PoolInit, JobsOf, PlacesOf
<1>3. OnePlace
  BY <1>2 DEF P!PoolInit, OnePlace
<1>4. Drained
  BY MarksAreNoClients DEF P!PoolInit, Drained
<1> QED
  BY <1>1, <1>3, <1>4 DEF DrainInv

LEMMA QueueGrows ==
  ASSUME queue \in Seq(Clients), NEW c \in Clients, queue' = Append(queue, c)
  PROVE  /\ queue' \in Seq(Clients)
         /\ PlacesOf(c)' = PlacesOf(c) \cup {Len(queue) + 1}
         /\ \A d \in Clients \ {c} : PlacesOf(d)' = PlacesOf(d)
<1>1. /\ queue' \in Seq(Clients) /\ Len(queue) \in Nat
      /\ DOMAIN queue = 1 .. Len(queue) /\ DOMAIN queue' = 1 .. Len(queue) + 1
      /\ \A i \in 1 .. Len(queue) : queue'[i] = queue[i]
      /\ queue'[Len(queue) + 1] = c
  OBVIOUS
<1> QED
  BY <1>1 DEF PlacesOf

LEMMA QueueShrinks ==
  ASSUME queue \in Seq(Clients), queue # <<>>, queue' = Tail(queue)
  PROVE  /\ queue' \in Seq(Clients) /\ Head(queue) \in Clients
         /\ PlacesOf(Head(queue)) # {}
         /\ \A d \in Clients : \A i \in PlacesOf(d)' : i \in Nat /\ i + 1 \in PlacesOf(d) /\ i > 0
         /\ 1 \in PlacesOf(Head(queue))
         /\ \A d \in Clients \ {Head(queue)} : PlacesOf(d) # {} => PlacesOf(d)' # {}
<1>1. /\ queue' \in Seq(Clients) /\ Len(queue) \in Nat \ {0}
      /\ DOMAIN queue = 1 .. Len(queue) /\ DOMAIN queue' = 1 .. Len(queue) - 1
      /\ \A i \in 1 .. Len(queue) - 1 : queue'[i] = queue[i + 1]
      /\ Head(queue) = queue[1] /\ Head(queue) \in Clients
  BY HeadTailProperties, EmptySeq, LenProperties
<1>2. ASSUME NEW d \in Clients, NEW i \in PlacesOf(d)'
      PROVE  i \in Nat /\ i + 1 \in PlacesOf(d) /\ i > 0
  BY <1>1, <1>2 DEF PlacesOf
<1>3. 1 \in PlacesOf(Head(queue))
  BY <1>1 DEF PlacesOf
<1>4. ASSUME NEW d \in Clients \ {Head(queue)}, NEW i \in PlacesOf(d) PROVE i - 1 \in PlacesOf(d)'
  BY <1>1, <1>4 DEF PlacesOf
<1> QED
  BY <1>1, <1>2, <1>3, <1>4

\* A step of a Dispatch that puts nothing in the queue.
LEMMA DispatchGoesOn ==
  ASSUME DrainInv, NEW c \in Clients,
         \/ P!Lookup(c) \/ P!LockInitialize(c) \/ P!Initialize(c) \/ P!Reread(c)
         \/ P!Answered(c) \/ P!Abandon(c) \/ (P!Send(c) /\ queue' = queue)
  PROVE  DrainInv'
<1>1. PICK at \in Unsent \cup {"returned"} :
          /\ dispatch' = [dispatch EXCEPT ![c] = at]
          /\ UNCHANGED <<closed, queue, job, runs, closer>>
          /\ at = "returned" \/ dispatch[c] \in Unsent
          /\ at \in {"reread", "send"} => chan' # "none"
          /\ result' = result \/ (result' = result \ {c} /\ at = "returned")
          /\ chan' = chan \/ (chan' = "open" /\ ~closed)
  <2>1. CASE P!Lookup(c) \/ P!LockInitialize(c)
    BY <2>1 DEF P!Lookup, P!LockInitialize, P!To, Unsent
  <2>6. CASE P!Reread(c)
    BY <2>6 DEF P!Reread, P!To, DrainInv, Drained, Unsent
  <2>2. CASE P!Initialize(c)
    <3>1. CASE closed \/ c \in Strays
      BY <2>2, <3>1 DEF P!Initialize, P!To
    <3>2. CASE ~closed /\ c \notin Strays
      BY <2>2, <3>2 DEF P!Initialize, P!To, Unsent
    <3> QED
      BY <3>1, <3>2
  <2>3. CASE P!Answered(c) \/ P!Abandon(c)
    BY <2>3 DEF P!Answered, P!Abandon, P!To
  <2>4. CASE P!Send(c) /\ queue' = queue /\ chan = "closed"
    <3>1. dispatch' = [dispatch EXCEPT ![c] = "send"]
      BY <2>4 DEF P!Send, DrainInv, PoolTypes
    <3> QED
      BY <2>4, <3>1 DEF P!Send, Unsent
  <2>5. CASE P!Send(c) /\ queue' = queue /\ chan # "closed"
    <3>1. queue' # Append(queue, c)
      <4>1. Len(Append(queue, c)) = Len(queue) + 1 /\ Len(queue) \in Nat
        BY DEF DrainInv, PoolTypes
      <4> QED
        BY <2>5, <4>1
    <3> QED
      BY <2>5, <3>1 DEF P!Send, P!To
  <2> QED
    BY <2>1, <2>2, <2>3, <2>4, <2>5, <2>6
<1>2. PoolTypes'
  BY <1>1 DEF DrainInv, PoolTypes, Unsent
<1>3. \A d \in Clients : JobsOf(d)' = JobsOf(d) /\ PlacesOf(d)' = PlacesOf(d)
  BY <1>1 DEF JobsOf, PlacesOf
<1>4. OnePlace'
  <2> SUFFICES ASSUME NEW d \in Clients
               PROVE  /\ dispatch'[d] \in Unsent =>
                            JobsOf(d) = {} /\ PlacesOf(d) = {} /\ runs[d] = 0
                      /\ dispatch'[d] = "wait" =>
                            JobsOf(d) # {} \/ PlacesOf(d) # {} \/ d \in result'
    BY <1>1, <1>3 DEF DrainInv, OnePlace
  <2>1. CASE d = c
    BY <1>1, <2>1 DEF DrainInv, PoolTypes, OnePlace, Unsent
  <2>2. CASE d # c
    BY <1>1, <2>2 DEF DrainInv, PoolTypes, OnePlace
  <2> QED
    BY <2>1, <2>2
<1>5. Drained'
  BY <1>1 DEF DrainInv, PoolTypes, Drained, Unsent
<1> QED
  BY <1>2, <1>4, <1>5 DEF DrainInv

LEMMA TaskIsQueued ==
  ASSUME DrainInv, NEW c \in Clients, P!Send(c), queue' # queue
  PROVE  DrainInv'
<1>1. /\ chan # "closed" /\ dispatch[c] = "send"
      /\ queue' = Append(queue, c) /\ dispatch' = [dispatch EXCEPT ![c] = "wait"]
      /\ UNCHANGED <<closed, chan, job, result, runs, closer>>
  BY DEF P!Send, P!To
<1>2. /\ queue' \in Seq(Clients)
      /\ PlacesOf(c)' = PlacesOf(c) \cup {Len(queue) + 1}
      /\ \A d \in Clients \ {c} : PlacesOf(d)' = PlacesOf(d)
  BY <1>1, QueueGrows DEF DrainInv, PoolTypes
<1>3. PoolTypes'
  BY <1>1, <1>2 DEF DrainInv, PoolTypes
<1>4. OnePlace'
  <2>1. \A d \in Clients : JobsOf(d)' = JobsOf(d)
    BY <1>1 DEF JobsOf
  <2>2. JobsOf(c) = {} /\ PlacesOf(c) = {} /\ runs[c] = 0
    BY <1>1 DEF DrainInv, OnePlace, Unsent
  <2>3. ASSUME NEW d \in Clients \ {c} PROVE dispatch'[d] = dispatch[d]
    BY <1>1 DEF DrainInv, PoolTypes
  <2>4. dispatch'[c] = "wait"
    BY <1>1 DEF DrainInv, PoolTypes
  <2> SUFFICES ASSUME NEW d \in Clients
               PROVE  /\ \A u, v \in JobsOf(d) : u = v
                      /\ \A i, j \in PlacesOf(d)' : i = j
                      /\ JobsOf(d) = {} \/ PlacesOf(d)' = {}
                      /\ runs[d] = 1 => JobsOf(d) = {} /\ PlacesOf(d)' = {}
                      /\ dispatch'[d] \in Unsent =>
                            JobsOf(d) = {} /\ PlacesOf(d)' = {} /\ runs[d] = 0
                      /\ dispatch'[d] = "wait" =>
                            JobsOf(d) # {} \/ PlacesOf(d)' # {} \/ d \in result
    BY <1>1, <2>1 DEF OnePlace
  <2>5. CASE d = c
    BY <1>2, <2>2, <2>4, <2>5 DEF Unsent
  <2>6. CASE d # c
    <3>1. PlacesOf(d)' = PlacesOf(d)
      BY <1>2, <2>6
    <3> QED
      BY <2>3, <2>6, <3>1 DEF DrainInv, OnePlace
  <2> QED
    BY <2>5, <2>6
<1>5. Drained'
  BY <1>1 DEF DrainInv, PoolTypes, Drained
<1> QED
  BY <1>3, <1>4, <1>5 DEF DrainInv

LEMMA TaskIsTaken ==
  ASSUME DrainInv, NEW w \in Workers, P!TakeTask(w)
  PROVE  DrainInv'
<1>1. PICK c \in Clients :
          /\ c = Head(queue) /\ job[w] = P!Ready
          /\ job' = [job EXCEPT ![w] = c]
          /\ UNCHANGED <<closed, chan, dispatch, result, runs, closer>>
  BY QueueShrinks DEF P!TakeTask, DrainInv, PoolTypes
<1>2. /\ queue # <<>> /\ queue' \in Seq(Clients) /\ PlacesOf(c) # {}
      /\ \A d \in Clients : \A i \in PlacesOf(d)' : i \in Nat /\ i + 1 \in PlacesOf(d) /\ i > 0
      /\ 1 \in PlacesOf(c)
      /\ \A d \in Clients \ {c} : PlacesOf(d) # {} => PlacesOf(d)' # {}
  BY <1>1, QueueShrinks DEF P!TakeTask, DrainInv, PoolTypes
<1>3. PoolTypes'
  BY <1>1, <1>2 DEF DrainInv, PoolTypes
<1>4. JobsOf(c)' = JobsOf(c) \cup {w} /\ \A d \in Clients \ {c} : JobsOf(d)' = JobsOf(d)
  BY <1>1, <1>2, MarksAreNoClients DEF DrainInv, PoolTypes, JobsOf
<1>5. JobsOf(c) = {} /\ runs[c] # 1 /\ dispatch[c] \notin Unsent
  BY <1>2 DEF DrainInv, OnePlace
<1>6. PlacesOf(c)' = {}
  <2>1. ASSUME NEW i \in PlacesOf(c)' PROVE FALSE
    <3>1. i + 1 = 1 /\ i \in Nat /\ i > 0
      BY <1>2, <2>1 DEF DrainInv, OnePlace
    <3> QED
      BY <3>1
  <2> QED
    BY <2>1
<1>7. ASSUME NEW d \in Clients, NEW i \in PlacesOf(d)', NEW j \in PlacesOf(d)' PROVE i = j
  <2>1. i + 1 = j + 1 /\ i \in Nat /\ j \in Nat
    BY <1>2, <1>7 DEF DrainInv, OnePlace
  <2> QED
    BY <2>1
<1>8. ASSUME NEW d \in Clients, PlacesOf(d)' # {} PROVE PlacesOf(d) # {}
  BY <1>2, <1>8
<1>9. OnePlace'
  <2> SUFFICES ASSUME NEW d \in Clients
               PROVE  /\ \A u, v \in JobsOf(d)' : u = v
                      /\ \A i, j \in PlacesOf(d)' : i = j
                      /\ JobsOf(d)' = {} \/ PlacesOf(d)' = {}
                      /\ runs[d] = 1 => JobsOf(d)' = {} /\ PlacesOf(d)' = {}
                      /\ dispatch[d] \in Unsent =>
                            JobsOf(d)' = {} /\ PlacesOf(d)' = {} /\ runs[d] = 0
                      /\ dispatch[d] = "wait" =>
                            JobsOf(d)' # {} \/ PlacesOf(d)' # {} \/ d \in result
    BY <1>1 DEF OnePlace
  <2>1. CASE d = c
    BY <1>4, <1>5, <1>6, <2>1
  <2>2. CASE d # c
    <3>1. JobsOf(d)' = JobsOf(d)
      BY <1>4, <2>2
    <3> QED
      BY <1>2, <1>7, <1>8, <2>2, <3>1 DEF DrainInv, OnePlace
  <2> QED
    BY <2>1, <2>2
<1>10. Drained'
  <2>1. chan # "none" /\ \A v \in Workers : job[v] # P!Done /\ job'[v] # P!Done
    BY <1>1, <1>2, MarksAreNoClients DEF DrainInv, PoolTypes, Drained
  <2> QED
    BY <1>1, <2>1 DEF DrainInv, Drained
<1> QED
  BY <1>3, <1>9, <1>10 DEF DrainInv

LEMMA TaskIsRun ==
  ASSUME DrainInv, NEW w \in Workers, P!Finish(w)
  PROVE  DrainInv'
<1>1. PICK c \in Clients :
          /\ c = job[w] /\ result' = result \cup {c}
          /\ runs' = [runs EXCEPT ![c] = runs[c] + 1] /\ job' = [job EXCEPT ![w] = P!Ready]
          /\ UNCHANGED <<closed, queue, chan, dispatch, closer>>
  BY DEF P!Finish
<1>2. w \in JobsOf(c)
  BY <1>1 DEF JobsOf
<1>3. PlacesOf(c) = {} /\ runs[c] = 0 /\ JobsOf(c) = {w}
      /\ dispatch[c] \notin Unsent
  BY <1>1, <1>2 DEF DrainInv, PoolTypes, OnePlace
<1>4. PoolTypes'
  BY <1>1, <1>3 DEF DrainInv, PoolTypes
<1>5. JobsOf(c)' = {} /\ \A d \in Clients \ {c} : JobsOf(d)' = JobsOf(d)
  BY <1>1, <1>3, MarksAreNoClients DEF DrainInv, PoolTypes, JobsOf
<1>6. \A d \in Clients : PlacesOf(d)' = PlacesOf(d)
  BY <1>1 DEF PlacesOf
<1>7. OnePlace'
  <2>1. \A d \in Clients \ {c} : runs'[d] = runs[d]
    BY <1>1 DEF DrainInv, PoolTypes
  <2> QED
    BY <1>1, <1>3, <1>5, <1>6, <2>1 DEF DrainInv, OnePlace
<1>8. Drained'
  <2>1. \A v \in Workers : job'[v] = P!Done <=> v # w /\ job[v] = P!Done
    BY <1>1, MarksAreNoClients DEF DrainInv, PoolTypes
  <2>2. job[w] # P!Done
    BY <1>1, MarksAreNoClients
  <2> QED
    BY <1>1, <2>1, <2>2 DEF DrainInv, Drained
<1> QED
  BY <1>4, <1>7, <1>8 DEF DrainInv

LEMMA WorkerLeaves ==
  ASSUME DrainInv, NEW w \in Workers, P!WorkerEnds(w)
  PROVE  DrainInv'
<1>1. /\ job[w] = P!Ready /\ chan = "closed" /\ queue = <<>>
      /\ job' = [job EXCEPT ![w] = P!Done]
      /\ UNCHANGED <<closed, queue, chan, dispatch, result, runs, closer>>
  BY DEF P!WorkerEnds
<1>2. PoolTypes'
  BY <1>1 DEF DrainInv, PoolTypes
<1>3. \A d \in Clients : JobsOf(d)' = JobsOf(d) /\ PlacesOf(d)' = PlacesOf(d)
  BY <1>1, MarksAreNoClients DEF DrainInv, PoolTypes, JobsOf, PlacesOf
<1>4. OnePlace'
  BY <1>1, <1>3 DEF DrainInv, OnePlace
<1>5. Drained'
  BY <1>1 DEF DrainInv, PoolTypes, Drained
<1> QED
  BY <1>2, <1>4, <1>5 DEF DrainInv

LEMMA PoolCloses ==
  ASSUME DrainInv, P!ReadStats \/ P!StatsRead \/ P!CallClose \/ P!LockClose \/ P!CloseQueues
            \/ P!CloseReturns
  PROVE  DrainInv'
<1>1. UNCHANGED <<queue, dispatch, job, result, runs>>
  BY DEF P!ReadStats, P!StatsRead, P!CallClose, P!LockClose, P!CloseQueues, P!CloseReturns
<1>2. PoolTypes'
  BY <1>1 DEF DrainInv, PoolTypes, P!ReadStats, P!StatsRead, P!CallClose, P!LockClose,
     P!CloseQueues,
              P!CloseReturns
<1>3. OnePlace'
  BY <1>1 DEF DrainInv, OnePlace, JobsOf, PlacesOf
<1>4. Drained'
  <2>1. CASE P!ReadStats \/ P!StatsRead \/ P!CallClose \/ P!LockClose
    BY <1>1, <2>1 DEF DrainInv, Drained, P!ReadStats, P!StatsRead, P!CallClose, P!LockClose
  <2>2. CASE P!CloseQueues
    BY <1>1, <2>2 DEF DrainInv, PoolTypes, Drained, P!CloseQueues
  <2>3. CASE P!CloseReturns
    BY <1>1, <2>3 DEF DrainInv, Drained, P!CloseReturns
  <2> QED
    BY <2>1, <2>2, <2>3
<1> QED
  BY <1>2, <1>3, <1>4 DEF DrainInv

LEMMA DrainStep == DrainInv /\ (P!PoolNext \/ UNCHANGED P!poolVars) => DrainInv'
<1> SUFFICES ASSUME DrainInv, P!PoolNext \/ UNCHANGED P!poolVars PROVE DrainInv'
  OBVIOUS
<1>1. CASE UNCHANGED P!poolVars
  BY <1>1 DEF P!poolVars, DrainInv, PoolTypes, OnePlace, JobsOf, PlacesOf, Drained
<1>2. ASSUME NEW c \in Clients,
             \/ P!Lookup(c) \/ P!LockInitialize(c) \/ P!Initialize(c) \/ P!Reread(c)
             \/ P!Send(c) \/ P!Answered(c) \/ P!Abandon(c)
      PROVE  DrainInv'
  BY <1>2, DispatchGoesOn, TaskIsQueued
<1>3. ASSUME NEW w \in Workers, P!TakeTask(w) \/ P!Finish(w) \/ P!WorkerEnds(w)
      PROVE  DrainInv'
  BY <1>3, TaskIsTaken, TaskIsRun, WorkerLeaves
<1> QED
  BY <1>1, <1>2, <1>3, PoolCloses DEF P!PoolNext, P!PoolStep

LEMMA AtMostOne ==
  ASSUME NEW X, \A x, y \in X : x = y
  PROVE  /\ X = {} => P!Cardinality(X) = 0
         /\ P!Cardinality(X) \in {0, 1}
<1>1. P!Cardinality(X) = Cardinality(X)
  BY Zenon DEF P!Cardinality, Cardinality
<1>2. X = {} \/ \E x \in X : X = {x}
  OBVIOUS
<1> QED
  BY <1>1, <1>2, FS_EmptySet, FS_Singleton

LEMMA DrainGivesDrains == DrainInv => P!PoolDrains
<1> SUFFICES ASSUME DrainInv PROVE P!PoolDrains
  OBVIOUS
<1>1. ASSUME NEW c \in Clients
      PROVE  runs[c] + P!Cardinality({w \in Workers : job[w] = c})
                + P!Cardinality({i \in DOMAIN queue : queue[i] = c}) <= 1
  <2>1. /\ JobsOf(c) = {} => P!Cardinality(JobsOf(c)) = 0
        /\ P!Cardinality(JobsOf(c)) \in {0, 1}
        /\ PlacesOf(c) = {} => P!Cardinality(PlacesOf(c)) = 0
        /\ P!Cardinality(PlacesOf(c)) \in {0, 1}
    BY AtMostOne DEF DrainInv, OnePlace
  <2>2. runs[c] + P!Cardinality(JobsOf(c)) + P!Cardinality(PlacesOf(c)) <= 1
    BY <2>1 DEF DrainInv, PoolTypes, OnePlace
  <2> QED
    BY <2>2 DEF JobsOf, PlacesOf
<1>2. ASSUME closer = "returned"
      PROVE  queue = <<>> /\ \A c \in Clients : dispatch[c] = "wait" => c \in result
  <2>1. CASE chan = "none"
    BY <2>1 DEF DrainInv, Drained
  <2>2. CASE chan # "none"
    <3>1. PICK v \in Workers : job[v] = P!Done
      BY <1>2, <2>2, ServicesAssumption DEF DrainInv, Drained
    <3>2. queue = <<>>
      BY <3>1 DEF DrainInv, Drained
    <3>3. \A c \in Clients : JobsOf(c) = {} /\ PlacesOf(c) = {}
      BY <1>2, <2>2, <3>2, MarksAreNoClients DEF DrainInv, Drained, JobsOf, PlacesOf
    <3> QED
      BY <3>2, <3>3 DEF DrainInv, OnePlace
  <2> QED
    BY <2>1, <2>2
<1> QED
  BY <1>1, <1>2 DEF P!PoolDrains

-----------------------------------------------------------------------------
(* The process manager and the health monitor.                             *)

LoopShape == [at : {"none", "check", "report", "look", "select", "recover", "start", "delay", "end"},
              err : BOOLEAN, attempt : Nat]

HealthTypes ==
    /\ up \in BOOLEAN /\ late \in BOOLEAN
    /\ proc \in [state : {"idle", "running", "stopping", "down"}, cmd : 0 .. MaxProcs]
    /\ spared \subseteq H!Procs
    /\ holder \in Callers \cup {NoCaller}
    /\ os \in [H!Procs -> {"none", "alive", "hung", "killed", "gone"}]
    /\ waiting \subseteq H!Procs
    /\ call \in [Callers -> [op : {"none", "start", "stop"},
                             at : {"idle", "lock", "stop", "wait", "relock", "launch", "ok",
                                   "error"}]]
    /\ recoverer \in H!Loops \cup {NoCaller} /\ channel \in 0 .. MaxLoops
    /\ loop \in [H!Loops -> LoopShape]

\* Only the loop that holds the recovery lock starts the agent, and the operator only
\* stops it.
OneStarter ==
    /\ \A c \in Callers \ {Operator} :
        \/ call[c] = H!Idle
        \/ /\ c = recoverer /\ loop[c].at = "start"
           /\ call[c].op = "start" /\ call[c].at # "idle"
    /\ \A l \in H!Loops : loop[l].at \in {"start", "delay"} => recoverer = l
    /\ \A l \in H!Loops : l > channel => loop[l].at = "none"
    /\ \/ call[Operator] = H!Idle
       \/ call[Operator].op = "stop" /\ call[Operator].at \in {"stop", "wait"} \cup H!Answers

\* Who waits for the end of a process, or launches one, holds the lock; a start comes to
\* that only when no process lives.
LockHeld ==
    /\ \A c \in Callers : holder = c <=> call[c].at \in {"wait", "launch"}
    /\ proc.state = "stopping" => \E c \in Callers : call[c].at = "wait"
    /\ \A c \in Callers : call[c].at \in {"relock", "launch"} => H!Ours = {}

Owned ==
    /\ \A p \in H!Ours : p = proc.cmd /\ proc.state \in {"running", "stopping"} /\ p \in waiting
    /\ ~up /\ ~late =>
        /\ \A c \in Callers : call[c].op = "start" => call[c].at \in H!Answers
        /\ H!Ours = {} \/ call[Operator].at \in {"stop", "wait"}

OwnerInv == HealthTypes /\ OneStarter /\ LockHeld /\ Owned

LEMMA CallersApart == /\ H!Loops \subseteq Callers /\ Operator \in Callers
                      /\ Operator \notin H!Loops /\ NoCaller \notin Callers
  BY ServicesAssumption DEF H!Loops

LEMMA OwnerInit == H!HealthInit => OwnerInv
<1> SUFFICES ASSUME H!HealthInit PROVE OwnerInv
  OBVIOUS
<1>1. HealthTypes
  <2>1. 0 \in 0 .. MaxProcs /\ 0 \in 0 .. MaxLoops /\ 0 \in Nat
    BY ServicesAssumption
  <2> QED
    BY <2>1 DEF HealthTypes, LoopShape, H!HealthInit, H!ProcInit, H!Idle, H!NoLoop
<1>2. OneStarter
  BY CallersApart DEF OneStarter, H!HealthInit, H!ProcInit, H!NoLoop
<1>3. H!Ours = {}
  BY DEF H!Ours, H!Live, H!HealthInit, H!ProcInit
<1>4. LockHeld /\ Owned
  BY <1>3, CallersApart DEF LockHeld, Owned, H!HealthInit, H!ProcInit, H!Idle
<1> QED
  BY <1>1, <1>2, <1>4 DEF OwnerInv

-----------------------------------------------------------------------------
(* The loops of the monitor, which leave the processes alone.              *)

LEMMA LoopsMove ==
  ASSUME OwnerInv, HealthTypes', UNCHANGED H!procVars, recoverer' = recoverer,
         \A l \in H!Loops : l > channel' => loop'[l].at = "none",
         \A l \in H!Loops : loop'[l].at # loop[l].at =>
                loop[l].at \notin {"start", "delay"} /\ loop'[l].at \notin {"start", "delay"}
  PROVE  OwnerInv'
<1>1. OneStarter'
  <2>1. ASSUME NEW c \in Callers \ {Operator}
        PROVE  \/ call[c] = H!Idle
               \/ /\ c = recoverer /\ loop'[c].at = "start"
                  /\ call[c].op = "start" /\ call[c].at # "idle"
    BY <2>1, CallersApart DEF OwnerInv, HealthTypes, OneStarter
  <2>2. ASSUME NEW l \in H!Loops, loop'[l].at \in {"start", "delay"} PROVE recoverer = l
    BY <2>2 DEF OwnerInv, OneStarter
  <2> QED
    BY <2>1, <2>2 DEF OwnerInv, OneStarter, H!procVars
<1>2. LockHeld' /\ Owned'
  BY DEF OwnerInv, LockHeld, Owned, H!procVars, H!Ours, H!Live
<1> QED
  BY <1>1, <1>2 DEF OwnerInv

LEMMA MonitorStarts == ASSUME OwnerInv, H!StartMonitor PROVE OwnerInv'
<1>1. channel + 1 \in H!Loops /\ channel \in Nat
  BY ServicesAssumption DEF H!StartMonitor, H!Loops, OwnerInv, HealthTypes
<1>2. loop[channel + 1].at = "none"
  BY <1>1 DEF OwnerInv, OneStarter
<1>3. /\ UNCHANGED H!procVars /\ recoverer' = recoverer /\ channel' = channel + 1
      /\ loop' = [loop EXCEPT ![channel + 1] = [loop[channel + 1] EXCEPT !.at = "check"]]
  BY DEF H!StartMonitor
<1>4. channel' \in 0 .. MaxLoops
  BY <1>1, <1>3, ServicesAssumption DEF H!Loops
<1>5. HealthTypes'
  <2>1. [loop[channel + 1] EXCEPT !.at = "check"] \in LoopShape
    BY <1>1 DEF OwnerInv, HealthTypes, LoopShape
  <2> QED
    BY <1>1, <1>3, <1>4, <2>1 DEF OwnerInv, HealthTypes, H!procVars
<1>6. \A l \in H!Loops : l > channel' => loop'[l].at = "none"
  BY <1>1, <1>3 DEF OwnerInv, HealthTypes, OneStarter, H!Loops
<1>7. \A l \in H!Loops : l # channel + 1 => loop'[l].at = loop[l].at
  BY <1>3 DEF OwnerInv, HealthTypes
<1>8. loop'[channel + 1].at = "check"
  BY <1>1, <1>3 DEF OwnerInv, HealthTypes
<1> QED
  BY <1>2, <1>3, <1>5, <1>6, <1>7, <1>8, LoopsMove

LEMMA MonitorMoves ==
  ASSUME OwnerInv, NEW l \in H!Loops,
         H!StopMonitor \/ H!EndContext(l) \/ H!CheckAll(l) \/ H!UpdateHealth(l) \/ H!LookAtHealth(l)
            \/ H!SelectEnds(l) \/ H!SelectTick(l)
  PROVE  OwnerInv'
<1>1. UNCHANGED H!procVars /\ UNCHANGED <<recoverer, channel>>
  BY DEF H!StopMonitor, H!EndContext, H!CheckAll, H!UpdateHealth, H!LookAtHealth, H!SelectEnds,
         H!SelectTick
<1>2. \/ loop' = loop
      \/ \E r \in LoopShape :
            /\ loop[l].at \in {"check", "report", "look", "select"}
            /\ r.at \in {"check", "report", "look", "select", "recover", "end"}
            /\ loop' = [loop EXCEPT ![l] = r]
  <2> USE DEF LoopShape
  <2>1. CASE H!StopMonitor \/ H!EndContext(l)
    BY <2>1 DEF H!StopMonitor, H!EndContext
  <2>2. ASSUME NEW at \in {"select", "recover", "check", "end"}, H!LoopTo(l, at)
        PROVE  \E r \in LoopShape : r.at = at /\ loop' = [loop EXCEPT ![l] = r]
    <3>1. [loop[l] EXCEPT !.at = at] \in LoopShape /\ [loop[l] EXCEPT !.at = at].at = at
      BY DEF OwnerInv, HealthTypes
    <3>2. loop' = [loop EXCEPT ![l] = [loop[l] EXCEPT !.at = at]]
      BY <2>2 DEF H!LoopTo
    <3> QED
      BY <3>1, <3>2
  <2>3. CASE H!CheckAll(l) /\ (l \in ended \/ channel \in shut)
    BY <2>2, <2>3 DEF H!CheckAll
  <2>4. CASE H!CheckAll(l) /\ ~(l \in ended \/ channel \in shut)
    <3> DEFINE r == [loop[l] EXCEPT !.at = "report", !.err = ~H!Responds]
    <3>1. r \in LoopShape /\ r.at = "report"
      BY DEF OwnerInv, HealthTypes
    <3>2. loop' = [loop EXCEPT ![l] = r] /\ loop[l].at = "check"
      BY <2>4 DEF H!CheckAll
    <3> QED
      BY <3>1, <3>2
  <2>5. CASE H!UpdateHealth(l)
    <3>1. PICK at \in {"select", "look"} :
            loop' = [loop EXCEPT ![l] = [loop[l] EXCEPT !.err = FALSE, !.at = at]]
      BY <2>5 DEF H!UpdateHealth
    <3> DEFINE r == [loop[l] EXCEPT !.err = FALSE, !.at = at]
    <3>2. r \in LoopShape /\ r.at = at
      BY DEF OwnerInv, HealthTypes
    <3> QED
      BY <2>5, <3>1, <3>2 DEF H!UpdateHealth
  <2>7. CASE H!LookAtHealth(l)
    <3>1. PICK at \in {"select", "recover"} : H!LoopTo(l, at)
      BY <2>7 DEF H!LookAtHealth
    <3> QED
      BY <2>2, <2>7, <3>1 DEF H!LookAtHealth
  <2>6. CASE H!SelectEnds(l) \/ H!SelectTick(l)
    BY <2>2, <2>6 DEF H!SelectEnds, H!SelectTick
  <2> QED
    BY <2>1, <2>3, <2>4, <2>5, <2>6, <2>7
<1>3. HealthTypes'
  BY <1>1, <1>2 DEF OwnerInv, HealthTypes, H!procVars
<1>4. \A k \in H!Loops : loop'[k].at # loop[k].at =>
        /\ loop[k].at \in {"check", "report", "look", "select"}
        /\ loop'[k].at \in {"check", "report", "look", "select", "recover", "end"}
  BY <1>2 DEF OwnerInv, HealthTypes
<1>5. \A k \in H!Loops : k > channel' => loop'[k].at = "none"
  BY <1>1, <1>4 DEF OwnerInv, OneStarter
<1> QED
  BY <1>1, <1>3, <1>4, <1>5, LoopsMove

-----------------------------------------------------------------------------
(* Recoveries.                                                             *)

\* A call that begins or ends, while the processes stay as they are.
LEMMA CallChanges ==
  ASSUME OwnerInv, NEW l \in H!Loops,
         call[l].at \notin {"wait", "launch", "relock"},
         call'[l].at \in {"idle", "lock", "error"},
         call'[l].op = "start" /\ ~up => call'[l].at = "error",
         \A c \in Callers \ {l} : call'[c] = call[c],
         UNCHANGED <<up, proc, holder, os, waiting, late, spared>>
  PROVE  LockHeld' /\ Owned'
<1>1. H!Ours' = H!Ours
  BY DEF H!Ours, H!Live
<1>2. \A c \in Callers : call'[c].at \in {"wait", "launch", "relock"}
                            <=> call[c].at \in {"wait", "launch", "relock"}
  OBVIOUS
<1>3. \A c \in Callers : call'[c].at \in {"wait", "launch", "relock"} => call'[c] = call[c]
  OBVIOUS
<1>4. LockHeld'
  <2>1. ASSUME NEW c \in Callers PROVE holder = c <=> call'[c].at \in {"wait", "launch"}
    BY <1>2, <1>3, <2>1 DEF OwnerInv, LockHeld
  <2>2. proc.state = "stopping" => \E c \in Callers : call'[c].at = "wait"
    BY <1>2, <1>3, CallersApart DEF OwnerInv, LockHeld
  <2>3. \A c \in Callers : call'[c].at \in {"relock", "launch"} => H!Ours = {}
    BY <1>2, <1>3 DEF OwnerInv, LockHeld
  <2> QED
    BY <1>1, <2>1, <2>2, <2>3 DEF LockHeld
<1>5. Owned'
  <2>1. call'[Operator] = call[Operator]
    BY CallersApart
  <2> QED
    BY <1>1, <2>1, CallersApart DEF OwnerInv, Owned, H!Answers
<1> QED
  BY <1>4, <1>5

LEMMA RecoveryEffect ==
  ASSUME OwnerInv, NEW l \in H!Loops, NEW r \in LoopShape, NEW d \in [op : {"none", "start"},
                                                       at : {"idle", "lock", "error"}],
         loop[l].at # "none", recoverer \in {l, NoCaller}, call[l].at \in {"idle", "ok", "error"},
         UNCHANGED <<up, proc, holder, os, waiting, late, spared, channel>>,
         loop' = [loop EXCEPT ![l] = r], call' = [call EXCEPT ![l] = d],
         recoverer' = IF r.at = "select" THEN NoCaller ELSE l,
         \/ r.at \in {"start", "delay", "select"} /\ d = H!Idle
         \/ r.at = "start" /\ d.op = "start" /\ d.at = IF up THEN "lock" ELSE "error"
  PROVE  OwnerInv'
<1>1. /\ l \in Callers /\ l # Operator /\ l # NoCaller /\ ~(l > channel)
  BY CallersApart DEF OwnerInv, OneStarter
<1>2. /\ loop'[l] = r /\ call'[l] = d
      /\ \A k \in H!Loops \ {l} : loop'[k] = loop[k]
      /\ \A c \in Callers \ {l} : call'[c] = call[c]
  BY <1>1 DEF OwnerInv, HealthTypes
<1>3. HealthTypes'
  <2>1. call' \in [Callers -> [op : {"none", "start", "stop"},
                             at : {"idle", "lock", "stop", "wait", "relock", "launch", "ok",
                                   "error"}]]
    BY DEF OwnerInv, HealthTypes
  <2> QED
    BY <2>1 DEF OwnerInv, HealthTypes
<1>4. ASSUME NEW c \in Callers \ {Operator}
      PROVE  \/ call'[c] = H!Idle
             \/ /\ c = recoverer' /\ loop'[c].at = "start"
                /\ call'[c].op = "start" /\ call'[c].at # "idle"
  <2>1. CASE c = l
    BY <1>1, <1>2, <2>1 DEF H!Idle
  <2>2. CASE c # l
    BY <1>1, <1>2, <2>2, CallersApart DEF OwnerInv, OneStarter, H!Idle
  <2> QED
    BY <2>1, <2>2
<1>5. ASSUME NEW k \in H!Loops
      PROVE  /\ loop'[k].at \in {"start", "delay"} => recoverer' = k
             /\ k > channel => loop'[k].at = "none"
  <2>1. CASE k = l
    BY <1>1, <1>2, <2>1
  <2>2. CASE k # l
    BY <1>1, <1>2, <2>2, CallersApart DEF OwnerInv, OneStarter
  <2> QED
    BY <2>1, <2>2
<1>6. OneStarter'
  BY <1>1, <1>2, <1>4, <1>5, CallersApart DEF OwnerInv, OneStarter
<1>7. LockHeld' /\ Owned'
  BY <1>1, <1>2, CallChanges DEF H!Idle
<1> QED
  BY <1>3, <1>6, <1>7 DEF OwnerInv

LEMMA RecoveryTries ==
  ASSUME OwnerInv, NEW l \in H!Loops, H!LockRecovery(l) \/ H!AttemptAgain(l)
  PROVE  OwnerInv'
<1>1. PICK r \in LoopShape :
        /\ loop' = [loop EXCEPT ![l] = r] /\ r.at = "start"
        /\ recoverer' = l /\ recoverer \in {l, NoCaller} /\ loop[l].at \in {"recover", "delay"}
        /\ H!BeginStart(l) /\ channel' = channel
  <2>1. CASE H!LockRecovery(l)
    <3> DEFINE q == [loop[l] EXCEPT !.at = "start", !.attempt = 1]
    <3>1. q \in LoopShape /\ q.at = "start"
      BY DEF OwnerInv, HealthTypes, LoopShape
    <3>2. loop' = [loop EXCEPT ![l] = q]
      BY <2>1 DEF H!LockRecovery
    <3> QED
      BY <2>1, <3>1, <3>2 DEF H!LockRecovery
  <2>2. CASE H!AttemptAgain(l)
    <3> DEFINE q == [loop[l] EXCEPT !.at = "start", !.attempt = loop[l].attempt + 1]
    <3>1. q \in LoopShape /\ q.at = "start"
      <4>1. loop[l].attempt + 1 \in Nat /\ loop[l] \in LoopShape
        BY DEF OwnerInv, HealthTypes, LoopShape
      <4> QED
        BY <4>1 DEF LoopShape
    <3>2. loop' = [loop EXCEPT ![l] = q]
      BY <2>2 DEF H!AttemptAgain
    <3>3. recoverer = l
      BY <2>2 DEF H!AttemptAgain, OwnerInv, OneStarter
    <3> QED
      BY <2>2, <3>1, <3>2, <3>3 DEF H!AttemptAgain
  <2> QED
    BY <2>1, <2>2
<1> DEFINE d == [op |-> "start", at |-> IF up THEN "lock" ELSE "error"]
<1>3. d \in [op : {"none", "start"}, at : {"idle", "lock", "error"}]
  OBVIOUS
<1>4. /\ call[l].at = "idle" /\ call' = [call EXCEPT ![l] = d]
      /\ UNCHANGED <<up, proc, holder, os, waiting, late, spared>>
  BY <1>1 DEF H!BeginStart, H!At
<1>5. d.op = "start" /\ d.at = IF up THEN "lock" ELSE "error"
  OBVIOUS
<1> HIDE DEF d
<1>6. loop[l].at # "none" /\ recoverer' = IF r.at = "select" THEN NoCaller ELSE l
  BY <1>1
<1> QED
  BY <1>1, <1>3, <1>4, <1>5, <1>6, RecoveryEffect

LEMMA RecoveryPauses ==
  ASSUME OwnerInv, NEW l \in H!Loops,
         H!Recovered(l) \/ H!AttemptFails(l) \/ H!GiveUp(l)
  PROVE  OwnerInv'
<1>1. /\ UNCHANGED <<up, proc, holder, os, waiting, late, spared, channel>>
      /\ loop[l].at \in {"start", "delay"} /\ recoverer = l /\ l \in Callers \ {Operator}
  BY CallersApart DEF H!Recovered, H!AttemptFails, H!GiveUp, H!procVars, OwnerInv, OneStarter
<1>2. PICK r \in LoopShape :
          /\ loop' = [loop EXCEPT ![l] = r] /\ r.at \in {"delay", "select"}
          /\ recoverer' = IF r.at = "select" THEN NoCaller ELSE l
  <2> USE DEF LoopShape
  <2>1. CASE H!AttemptFails(l) /\ loop[l].attempt < MaxRecoveries
    <3>1. loop' = [loop EXCEPT ![l] = [loop[l] EXCEPT !.at = "delay"]] /\ recoverer' = l
      BY <1>1, <2>1 DEF H!AttemptFails, H!LoopTo
    <3>2. /\ [loop[l] EXCEPT !.at = "delay"] \in LoopShape
          /\ [loop[l] EXCEPT !.at = "delay"].at = "delay"
      BY DEF OwnerInv, HealthTypes
    <3> QED
      BY <3>1, <3>2
  <2>2. CASE \/ H!Recovered(l) \/ H!GiveUp(l)
             \/ H!AttemptFails(l) /\ ~(loop[l].attempt < MaxRecoveries)
    <3>1. /\ loop' = [loop EXCEPT ![l] = [loop[l] EXCEPT !.at = "select", !.attempt = 0]]
          /\ recoverer' = NoCaller
      BY <2>2 DEF H!Recovered, H!GiveUp, H!AttemptFails
    <3>2. /\ [loop[l] EXCEPT !.at = "select", !.attempt = 0] \in LoopShape
          /\ [loop[l] EXCEPT !.at = "select", !.attempt = 0].at = "select"
      BY DEF OwnerInv, HealthTypes
    <3> QED
      BY <3>1, <3>2
  <2> QED
    BY <2>1, <2>2
<1>3. call' = [call EXCEPT ![l] = H!Idle] /\ call[l].at \in {"idle", "ok", "error"}
  <2>1. CASE H!Recovered(l) \/ H!AttemptFails(l)
    BY <2>1 DEF H!Recovered, H!AttemptFails, H!Consume, H!At
  <2>2. CASE H!GiveUp(l)
    <3>1. call[l] = H!Idle /\ call' = call
      BY <1>1, <2>2 DEF H!GiveUp, H!procVars, OwnerInv, OneStarter
    <3>2. [call EXCEPT ![l] = H!Idle] = call
      BY <1>1, <3>1 DEF OwnerInv, HealthTypes
    <3> QED
      BY <3>1, <3>2 DEF H!Idle
  <2> QED
    BY <2>1, <2>2
<1>4. H!Idle \in [op : {"none", "start"}, at : {"idle", "lock", "error"}]
  BY DEF H!Idle
<1> QED
  BY <1>1, <1>2, <1>3, <1>4, RecoveryEffect

-----------------------------------------------------------------------------
(* StartAgent and StopAgent.                                               *)

\* Only the recovering loop starts, only the operator does not.
LEMMA Starter ==
  ASSUME OwnerInv, NEW c \in Callers, call[c].at # "idle"
  PROVE  /\ call[c].op = "start" =>
                /\ c = recoverer /\ c # Operator
                /\ \A d \in Callers \ {c, Operator} : call[d].at = "idle"
         /\ call[c].op # "start" =>
                c = Operator /\ call[c].op = "stop" /\ call[c].at \in {"stop", "wait", "ok", "error"}
         /\ call[c].at \in {"lock", "relock", "launch"} => call[c].op = "start"
         /\ ~up /\ ~late /\ call[c].op = "start" => call[c].at \in {"ok", "error"}
<1>1. \A d \in Callers \ {Operator} : call[d].at = "idle" \/ d = recoverer
  BY DEF OwnerInv, OneStarter, H!Idle
<1>2. c = Operator => call[c].op = "stop" /\ call[c].at \in {"stop", "wait", "ok", "error"}
  BY DEF OwnerInv, OneStarter, H!Idle, H!Answers
<1>3. c # Operator => c = recoverer /\ call[c].op = "start"
  BY DEF OwnerInv, OneStarter, H!Idle
<1>4. ~up /\ ~late /\ call[c].op = "start" => call[c].at \in {"ok", "error"}
  BY DEF OwnerInv, Owned, H!Answers
<1> QED
  BY <1>1, <1>2, <1>3, <1>4

\* A call that goes on to where it may be.
LEMMA CallMoves ==
  ASSUME OwnerInv, NEW c \in Callers,
         NEW x \in {"stop", "wait", "relock", "launch", "ok", "error"},
         call[c].at # "idle", call' = [call EXCEPT ![c].at = x],
         call[c].op # "start" => x \in {"stop", "wait", "ok", "error"},
         UNCHANGED <<loop, recoverer, channel>>
  PROVE  /\ OneStarter'
         /\ call' \in [Callers -> [op : {"none", "start", "stop"},
                                   at : {"idle", "lock", "stop", "wait", "relock", "launch",
                                         "ok", "error"}]]
         /\ call'[c].at = x /\ call'[c].op = call[c].op
         /\ \A d \in Callers \ {c} : call'[d] = call[d]
<1>1. /\ call' \in [Callers -> [op : {"none", "start", "stop"},
                                at : {"idle", "lock", "stop", "wait", "relock", "launch",
                                      "ok", "error"}]]
      /\ call'[c].at = x /\ call'[c].op = call[c].op
      /\ \A d \in Callers \ {c} : call'[d] = call[d]
  <2>1. call' = [call EXCEPT ![c] = [call[c] EXCEPT !.at = x]]
    OBVIOUS
  <2>2. /\ [call[c] EXCEPT !.at = x] \in [op : {"none", "start", "stop"},
                                           at : {"idle", "lock", "stop", "wait", "relock",
                                                 "launch", "ok", "error"}]
        /\ [call[c] EXCEPT !.at = x].at = x /\ [call[c] EXCEPT !.at = x].op = call[c].op
    BY DEF OwnerInv, HealthTypes
  <2> QED
    BY <2>1, <2>2 DEF OwnerInv, HealthTypes
<1>2. ASSUME NEW d \in Callers \ {Operator}
      PROVE  \/ call'[d] = H!Idle
             \/ /\ d = recoverer /\ loop[d].at = "start"
                /\ call'[d].op = "start" /\ call'[d].at # "idle"
  <2>1. CASE d = c
    BY <1>1, <2>1 DEF OwnerInv, OneStarter, H!Idle
  <2>2. CASE d # c
    BY <1>1, <2>2 DEF OwnerInv, OneStarter
  <2> QED
    BY <2>1, <2>2
<1>3. \/ call'[Operator] = H!Idle
      \/ call'[Operator].op = "stop" /\ call'[Operator].at \in {"stop", "wait"} \cup H!Answers
  <2>1. CASE c = Operator
    BY <1>1, <2>1, Starter DEF H!Answers
  <2>2. CASE c # Operator
    BY <1>1, <2>2, CallersApart DEF OwnerInv, OneStarter
  <2> QED
    BY <2>1, <2>2
<1> QED
  BY <1>1, <1>2, <1>3 DEF OwnerInv, OneStarter

LEMMA StartLocks ==
  ASSUME OwnerInv, NEW c \in Callers, H!LockToStart(c) \/ H!Relock(c), UNCHANGED monitorVars
  PROVE  OwnerInv'
<1>1. /\ call[c].at \in {"lock", "relock"} /\ holder = NoCaller
      /\ UNCHANGED <<up, proc, os, waiting, late, spared>>
      /\ UNCHANGED <<loop, recoverer, channel>>
  BY DEF H!LockToStart, H!Relock, H!At, monitorVars
<1>2. PICK x \in {"stop", "launch"} :
        /\ call' = [call EXCEPT ![c].at = x]
        /\ holder' = IF x = "launch" THEN c ELSE NoCaller
        /\ x = "launch" => call[c].at = "relock" \/ proc.state # "running"
  <2>1. CASE H!LockToStart(c) /\ proc.state = "running"
    BY <1>1, <2>1 DEF H!LockToStart, H!GoTo
  <2>2. CASE H!LockToStart(c) /\ proc.state # "running"
    BY <1>1, <2>2 DEF H!LockToStart, H!GoTo
  <2>3. CASE H!Relock(c)
    BY <1>1, <2>3 DEF H!Relock, H!GoTo, H!At
  <2> QED
    BY <2>1, <2>2, <2>3
<1>3. call[c].op = "start" /\ c = recoverer /\ c # Operator /\ ~(~up /\ ~late)
  BY <1>1, Starter
<1>4. /\ OneStarter' /\ call'[c].at = x
      /\ call' \in [Callers -> [op : {"none", "start", "stop"},
                                at : {"idle", "lock", "stop", "wait", "relock", "launch",
                                      "ok", "error"}]]
      /\ \A d \in Callers \ {c} : call'[d] = call[d]
  BY <1>1, <1>2, <1>3, CallMoves
<1>5. HealthTypes'
  BY <1>1, <1>2, <1>4 DEF OwnerInv, HealthTypes, monitorVars
<1>6. \A d \in Callers : call[d].at \notin {"wait", "launch"} /\ d # NoCaller
  BY <1>1, CallersApart DEF OwnerInv, LockHeld
<1>7. H!Ours' = H!Ours
  BY <1>1 DEF H!Ours, H!Live
<1>8. x = "launch" => H!Ours = {}
  BY <1>1, <1>2, <1>6 DEF OwnerInv, LockHeld, Owned, HealthTypes
<1>9. LockHeld'
  <2>1. \A d \in Callers : holder' = d <=> call'[d].at \in {"wait", "launch"}
    BY <1>2, <1>4, <1>6
  <2>2. proc.state # "stopping"
    BY <1>6 DEF OwnerInv, LockHeld
  <2>3. \A d \in Callers : call'[d].at \in {"relock", "launch"} => H!Ours = {}
    BY <1>4, <1>8 DEF OwnerInv, LockHeld
  <2> QED
    BY <1>1, <1>7, <2>1, <2>2, <2>3 DEF LockHeld
<1>10. Owned'
  BY <1>1, <1>3, <1>7 DEF OwnerInv, Owned
<1> QED
  BY <1>4, <1>5, <1>9, <1>10 DEF OwnerInv

LEMMA AgentLaunches ==
  ASSUME OwnerInv, NEW c \in Callers, H!Launch(c) \/ H!LaunchFails(c), UNCHANGED monitorVars
  PROVE  OwnerInv'
<1>1. /\ call[c].at = "launch" /\ holder' = NoCaller
      /\ UNCHANGED <<up, late, spared>> /\ UNCHANGED <<loop, recoverer, channel>>
  BY DEF H!Launch, H!LaunchFails, H!At, monitorVars
<1>2. PICK x \in {"ok", "error"} : call' = [call EXCEPT ![c].at = x]
  BY DEF H!Launch, H!LaunchFails, H!GoTo
<1>3. call[c].op = "start" /\ c # Operator /\ ~(~up /\ ~late) /\ holder = c /\ H!Ours = {}
  BY <1>1, Starter DEF OwnerInv, LockHeld
<1>4. /\ OneStarter' /\ call'[c].at = x
      /\ call' \in [Callers -> [op : {"none", "start", "stop"},
                                at : {"idle", "lock", "stop", "wait", "relock", "launch",
                                      "ok", "error"}]]
      /\ \A d \in Callers \ {c} : call'[d] = call[d]
  BY <1>1, <1>2, <1>3, CallMoves
<1>5. \A d \in Callers : call'[d].at \notin {"wait", "launch", "relock"} /\ d # NoCaller
  <2>1. ASSUME NEW d \in Callers \ {c} PROVE call'[d].at \notin {"wait", "launch", "relock"}
    <3>1. call[d].at \notin {"wait", "launch"}
      BY <1>3, <2>1 DEF OwnerInv, LockHeld
    <3>2. call[d].at # "relock"
      BY <1>1, <1>3, <2>1, Starter
    <3> QED
      BY <1>4, <3>1, <3>2
  <2> QED
    BY <1>4, <2>1, CallersApart
<1>6. \/ /\ os' = os /\ waiting' = waiting /\ proc' = [proc EXCEPT !.state = "down"]
      \/ \E p \in H!Procs : /\ os' = [os EXCEPT ![p] = "alive"]
                             /\ waiting' = waiting \cup {p}
                             /\ proc' = [state |-> "running", cmd |-> p]
  BY DEF H!Launch, H!LaunchFails
<1>7. HealthTypes'
  <2>1. H!Procs \subseteq 0 .. MaxProcs
    BY ServicesAssumption DEF H!Procs
  <2> QED
    BY <1>1, <1>4, <1>6, <2>1 DEF OwnerInv, HealthTypes, monitorVars
<1>8. \/ H!Ours' = {} /\ proc'.state # "stopping"
      \/ /\ H!Ours' \subseteq {proc'.cmd} /\ proc'.state = "running"
         /\ proc'.cmd \in waiting'
  <2>1. CASE os' = os /\ waiting' = waiting /\ proc' = [proc EXCEPT !.state = "down"]
    BY <1>1, <1>3, <2>1 DEF H!Ours, H!Live, OwnerInv, HealthTypes
  <2>2. ASSUME NEW p \in H!Procs, os' = [os EXCEPT ![p] = "alive"],
               waiting' = waiting \cup {p}, proc' = [state |-> "running", cmd |-> p]
        PROVE  H!Ours' \subseteq {proc'.cmd} /\ proc'.state = "running" /\ proc'.cmd \in waiting'
    BY <1>1, <1>3, <2>2 DEF H!Ours, H!Live, OwnerInv, HealthTypes
  <2> QED
    BY <1>6, <2>1, <2>2
<1>9. LockHeld' /\ Owned'
  BY <1>1, <1>3, <1>5, <1>8 DEF LockHeld, Owned
<1> QED
  BY <1>4, <1>7, <1>9 DEF OwnerInv

\* What a stop leaves behind: the one process that may live waits for its end, or none.
LEMMA AgentStops ==
  ASSUME OwnerInv, NEW c \in Callers,
         \/ H!SendTerm(c) \/ H!SeesEnd(c) \/ H!ForceKill(c) \/ H!KillFails(c)
         \/ H!StopCancelled(c),
         UNCHANGED monitorVars
  PROVE  OwnerInv'
<1>1. /\ call[c].at \in {"stop", "wait"}
      /\ UNCHANGED <<up, late, waiting>> /\ UNCHANGED <<loop, recoverer, channel>>
      /\ holder = NoCaller \/ (holder = c /\ call[c].at = "wait")
  BY DEF H!SendTerm, H!SeesEnd, H!ForceKill, H!KillFails, H!StopCancelled, H!At, monitorVars,
         OwnerInv, LockHeld
<1>2. PICK x \in {"wait", "relock", "ok", "error"}, s \in {"idle", "stopping", "down"} :
        /\ call' = [call EXCEPT ![c].at = x] /\ (x = "relock" => call[c].op = "start")
        /\ proc' = [proc EXCEPT !.state = s]
        /\ holder' = IF x = "wait" THEN c ELSE NoCaller
        /\ x = "wait" <=> s = "stopping"
        /\ x = "wait" => os' = os /\ proc.state = "running" /\ spared' = spared
        /\ spared \subseteq spared' /\ spared' \subseteq H!Procs
        /\ \/ os' = os
           \/ os' = [os EXCEPT ![proc.cmd] = IF @ = "gone" THEN @ ELSE "killed"]
        /\ x = "wait" \/ H!Ours' = {}
  <2>1. CASE H!SendTerm(c) /\ (proc.state # "running" \/ proc.cmd \notin waiting)
    <3>1. PICK x \in {"relock", "ok"} :
            call' = [call EXCEPT ![c].at = x] /\ (x = "relock" => call[c].op = "start")
      BY <2>1 DEF H!SendTerm, H!Stopped, H!GoTo
    <3>2. proc.state # "stopping"
      BY <2>1, CallersApart DEF H!SendTerm, OwnerInv, LockHeld
    <3>3. H!Ours = {}
      BY <2>1, <3>2 DEF OwnerInv, Owned
    <3> QED
      BY <2>1, <3>1, <3>2, <3>3 DEF H!SendTerm, H!Ours, H!Live, OwnerInv, HealthTypes
  <2>2. CASE H!SendTerm(c) /\ ~(proc.state # "running" \/ proc.cmd \notin waiting)
    BY <2>2 DEF H!SendTerm, H!GoTo, OwnerInv, HealthTypes
  <2>3. CASE H!SeesEnd(c)
    <3>1. PICK x \in {"relock", "ok"} :
            call' = [call EXCEPT ![c].at = x] /\ (x = "relock" => call[c].op = "start")
      BY <2>3 DEF H!SeesEnd, H!Stopped, H!GoTo
    <3>2. H!Ours' = {}
      BY <2>3 DEF H!SeesEnd, H!Ours, H!Live, OwnerInv, Owned
    <3> QED
      BY <2>3, <3>1, <3>2 DEF H!SeesEnd, OwnerInv, HealthTypes
  <2>4. CASE H!ForceKill(c) \/ H!StopCancelled(c)
    <3>1. PICK x \in {"relock", "ok", "error"} :
            call' = [call EXCEPT ![c].at = x] /\ (x = "relock" => call[c].op = "start")
      BY <2>4 DEF H!ForceKill, H!StopCancelled, H!Stopped, H!GoTo
    <3>2. H!Ours' = {}
      <4>1. ASSUME NEW p \in H!Procs \ spared, os'[p] \in {"alive", "hung"} PROVE FALSE
        <5>1. CASE p = proc.cmd
          BY <2>4, <4>1, <5>1 DEF H!ForceKill, H!StopCancelled, H!Kill, OwnerInv, HealthTypes
        <5>2. CASE p # proc.cmd
          BY <2>4, <4>1, <5>2
          DEF H!ForceKill, H!StopCancelled, H!Kill, H!Ours, H!Live, OwnerInv, HealthTypes, Owned
        <5> QED
          BY <5>1, <5>2
      <4> QED
        BY <2>4, <4>1 DEF H!ForceKill, H!StopCancelled, H!Ours, H!Live
    <3> QED
      BY <2>4, <3>1, <3>2 DEF H!ForceKill, H!StopCancelled, H!Kill, OwnerInv, HealthTypes
  <2>5. CASE H!KillFails(c)
    <3>1. H!Ours' = {}
      BY <2>5 DEF H!KillFails, H!Ours, H!Live, OwnerInv, HealthTypes, Owned
    <3> QED
      BY <2>5, <3>1 DEF H!KillFails, H!GoTo, H!Ours, H!Live, OwnerInv, HealthTypes
  <2> QED
    BY <2>1, <2>2, <2>3, <2>4, <2>5
<1>3. /\ OneStarter' /\ call'[c].at = x /\ call'[c].op = call[c].op
      /\ call' \in [Callers -> [op : {"none", "start", "stop"},
                                at : {"idle", "lock", "stop", "wait", "relock", "launch",
                                      "ok", "error"}]]
      /\ \A d \in Callers \ {c} : call'[d] = call[d]
  BY <1>1, <1>2, CallMoves
<1>4. HealthTypes'
  <2>1. os' \in [H!Procs -> {"none", "alive", "hung", "killed", "gone"}]
    BY <1>2 DEF OwnerInv, HealthTypes
  <2> QED
    BY <1>1, <1>2, <1>3, <2>1 DEF OwnerInv, HealthTypes, monitorVars
<1>5. \A d \in Callers \ {c} : call'[d].at \notin {"wait", "launch"}
  BY <1>1, <1>3, CallersApart DEF OwnerInv, LockHeld
<1>6. \A d \in Callers \ {c} : call'[d].at = "relock" => H!Ours' = {}
  BY <1>2, <1>3 DEF OwnerInv, LockHeld, H!Ours, H!Live
<1>7. proc'.state = s /\ proc'.cmd = proc.cmd
  BY <1>2 DEF OwnerInv, HealthTypes
<1>8. LockHeld'
  <2>1. \A d \in Callers : holder' = d <=> call'[d].at \in {"wait", "launch"}
    BY <1>2, <1>3, <1>5, CallersApart
  <2>2. proc'.state = "stopping" => \E d \in Callers : call'[d].at = "wait"
    BY <1>2, <1>3, <1>7
  <2>3. \A d \in Callers : call'[d].at \in {"relock", "launch"} => H!Ours' = {}
    BY <1>2, <1>3, <1>5, <1>6
  <2> QED
    BY <2>1, <2>2, <2>3 DEF LockHeld
<1>9. Owned'
  <2>1. \A p \in H!Ours' : p = proc'.cmd /\ proc'.state \in {"running", "stopping"} /\ p \in waiting'
    BY <1>1, <1>2, <1>7 DEF OwnerInv, Owned, H!Ours, H!Live
  <2>2. ASSUME ~up, ~late
        PROVE  /\ \A d \in Callers : call'[d].op = "start" => call'[d].at \in H!Answers
               /\ H!Ours' = {} \/ call'[Operator].at \in {"stop", "wait"}
    <3>1. c = Operator /\ call[c].op = "stop"
      BY <1>1, <2>2, Starter
    <3> QED
      BY <1>2, <1>3, <2>2, <3>1 DEF OwnerInv, Owned
  <2> QED
    BY <1>1, <2>1, <2>2 DEF Owned
<1> QED
  BY <1>3, <1>4, <1>8, <1>9 DEF OwnerInv

-----------------------------------------------------------------------------
(* Stop, monitorProcess and the processes themselves.                      *)

LEMMA ManagerStops ==
  ASSUME OwnerInv, H!StopManager(Operator), UNCHANGED monitorVars
  PROVE  OwnerInv'
<1>1. /\ call[Operator].at = "idle" /\ up' = FALSE
      /\ late' = \E o \in Callers : call[o].op = "start" /\ ~H!Returned(o)
      /\ UNCHANGED <<proc, holder, os, waiting, spared, loop, recoverer, channel>>
  BY DEF H!StopManager, H!At, monitorVars
<1>2. PICK x \in {"ok", "stop"} :
        /\ call' = [call EXCEPT ![Operator] = [op |-> "stop", at |-> x]]
        /\ x = "ok" <=> proc.state = "idle"
  BY DEF H!StopManager
<1>3. /\ call'[Operator].op = "stop" /\ call'[Operator].at = x
      /\ \A c \in Callers \ {Operator} : call'[c] = call[c]
  BY <1>2, CallersApart DEF OwnerInv, HealthTypes
<1>4. HealthTypes'
  <2>1. late' \in BOOLEAN
    BY <1>1
  <2>2. call' \in [Callers -> [op : {"none", "start", "stop"},
                              at : {"idle", "lock", "stop", "wait", "relock", "launch",
                                    "ok", "error"}]]
    BY <1>2 DEF OwnerInv, HealthTypes
  <2> QED
    BY <1>1, <2>1, <2>2 DEF OwnerInv, HealthTypes, monitorVars
<1>5. OneStarter'
  BY <1>1, <1>3, CallersApart DEF OwnerInv, OneStarter, H!Answers
<1>6. H!Ours' = H!Ours
  BY <1>1 DEF H!Ours, H!Live
<1>7. LockHeld'
  <2>1. \A c \in Callers : /\ call'[c].at \in {"wait", "launch"} <=> call[c].at \in {"wait", "launch"}
                           /\ call'[c].at \in {"wait", "launch", "relock"} => call'[c] = call[c]
                           /\ call[c].at \in {"wait", "launch"} => call'[c] = call[c]
    BY <1>1, <1>3
  <2> QED
    BY <1>1, <1>6, <2>1 DEF OwnerInv, LockHeld
<1>8. Owned'
  <2>1. \A p \in H!Ours' : p = proc'.cmd /\ proc'.state \in {"running", "stopping"} /\ p \in waiting'
    BY <1>1, <1>6 DEF OwnerInv, Owned
  <2>2. H!Ours = {} \/ x = "stop"
    BY <1>2 DEF OwnerInv, Owned
  <2>3. ~late' => \A c \in Callers : call'[c].op = "start" => call'[c].at \in H!Answers
    BY <1>1, <1>3 DEF H!Returned
  <2> QED
    BY <1>3, <1>6, <2>1, <2>2, <2>3 DEF Owned
<1> QED
  BY <1>4, <1>5, <1>7, <1>8 DEF OwnerInv

\* A process that is seen to be gone, or goes its way, is not one that comes to life.
LEMMA ProcessesMove ==
  ASSUME OwnerInv, NEW p \in H!Procs, H!MonitorProcess(p) \/ H!OwnWay(p), UNCHANGED monitorVars
  PROVE  OwnerInv'
<1>1. UNCHANGED <<up, holder, call, late, spared, loop, recoverer, channel>>
  BY DEF H!MonitorProcess, H!OwnWay, monitorVars
<1>2. HealthTypes' /\ OneStarter'
  <2>1. CASE H!MonitorProcess(p)
    BY <1>1, <2>1 DEF OwnerInv, HealthTypes, OneStarter, H!MonitorProcess, monitorVars
  <2>2. CASE H!OwnWay(p)
    BY <1>1, <2>2 DEF OwnerInv, HealthTypes, OneStarter, H!OwnWay, H!Hang, H!Exit, monitorVars
  <2> QED
    BY <2>1, <2>2
<1>3. /\ H!Ours' \subseteq H!Ours
      /\ proc'.state = "stopping" => proc.state = "stopping"
      /\ \A q \in H!Ours' : q \in waiting' /\ proc' = proc
  <2>1. CASE H!MonitorProcess(p)
    <3>1. os' = os /\ os[p] = "gone" /\ waiting' = waiting \ {p}
      BY <2>1 DEF H!MonitorProcess
    <3>2. proc.cmd = p => H!Ours = {}
      BY <3>1 DEF OwnerInv, Owned, H!Ours, H!Live
    <3>3. proc' = proc \/ (proc.cmd = p /\ proc'.state = "down")
      BY <2>1 DEF H!MonitorProcess, OwnerInv, HealthTypes
    <3> QED
      BY <1>1, <3>1, <3>2, <3>3 DEF OwnerInv, Owned, H!Ours, H!Live
  <2>2. CASE H!OwnWay(p)
    BY <2>2 DEF H!OwnWay, H!Hang, H!Exit, H!Ours, H!Live, OwnerInv, HealthTypes, Owned
  <2> QED
    BY <2>1, <2>2
<1>4. LockHeld' /\ Owned'
  BY <1>1, <1>3 DEF OwnerInv, LockHeld, Owned
<1> QED
  BY <1>2, <1>4 DEF OwnerInv

LEMMA OwnerStep == OwnerInv /\ (H!HealthNext \/ UNCHANGED healthVars) => OwnerInv'
<1> SUFFICES ASSUME OwnerInv, H!HealthNext \/ UNCHANGED healthVars PROVE OwnerInv'
  OBVIOUS
<1>1. CASE UNCHANGED healthVars
  <2>1. UNCHANGED <<up, proc, holder, os, waiting, call, late, spared, recoverer, channel, loop>>
    BY <1>1 DEF healthVars, monitorVars
  <2> QED
    BY <2>1 DEF OwnerInv, HealthTypes, OneStarter, LockHeld, Owned, H!Ours, H!Live
<1>2. ASSUME NEW l \in H!Loops, H!EndContext(l) \/ H!LoopStep(l) PROVE OwnerInv'
  <2>1. l \in Callers
    BY CallersApart
  <2>2. CASE (H!CallStep(l) \/ (l \in ended /\ H!StopCancelled(l))) /\ UNCHANGED H!monitorVars
    <3>1. UNCHANGED monitorVars
      BY <2>2 DEF monitorVars, H!monitorVars
    <3> QED
      BY <2>1, <2>2, <3>1, StartLocks, AgentLaunches, AgentStops DEF H!CallStep
  <2> QED
    BY <1>2, <2>2, MonitorMoves, RecoveryTries, RecoveryPauses DEF H!LoopStep
<1>3. CASE H!StopMonitor
  <2>1. UNCHANGED <<up, proc, holder, os, waiting, call, late, spared, recoverer, channel, loop>>
    BY <1>3 DEF H!StopMonitor, H!procVars
  <2> QED
    BY <2>1 DEF OwnerInv, HealthTypes, OneStarter, LockHeld, Owned, H!Ours, H!Live
<1>4. CASE (H!StopManager(Operator) \/ H!CallStep(Operator)) /\ UNCHANGED H!monitorVars
  <2>1. UNCHANGED monitorVars
    BY <1>4 DEF monitorVars, H!monitorVars
  <2> QED
    BY <1>4, <2>1, CallersApart, ManagerStops, StartLocks, AgentLaunches, AgentStops DEF
       H!CallStep
<1>5. ASSUME NEW p \in H!Procs, H!MonitorProcess(p) \/ H!OwnWay(p), UNCHANGED H!monitorVars
      PROVE  OwnerInv'
  BY <1>5, ProcessesMove DEF monitorVars, H!monitorVars
<1> QED
  BY <1>1, <1>2, <1>3, <1>4, <1>5, MonitorStarts DEF H!HealthNext

LEMMA OwnerGivesOwned == OwnerInv => H!ProcessesOwned
<1> SUFFICES ASSUME OwnerInv PROVE H!ProcessesOwned
  OBVIOUS
<1>1. \A p \in H!Ours : p = proc.cmd /\ proc.state \in {"running", "stopping"}
  BY DEF OwnerInv, Owned
<1>2. ASSUME ~up, ~late, \A c \in Callers : call[c].op = "none" \/ H!Returned(c)
      PROVE  H!Ours = {}
  <2>1. call[Operator].at \notin {"stop", "wait"}
    BY <1>2, CallersApart DEF H!Returned, H!Answers, H!Idle, OwnerInv, OneStarter
  <2> QED
    BY <1>2, <2>1 DEF OwnerInv, Owned
<1> QED
  BY <1>1, <1>2 DEF H!ProcessesOwned

-----------------------------------------------------------------------------
(* The services together.                                                  *)

LEMMA PartsStep ==
  [Next]_vars => /\ H!HealthNext \/ UNCHANGED healthVars
                 /\ P!PoolNext \/ UNCHANGED P!poolVars
                 /\ R!ResetNext \/ UNCHANGED R!resetVars
  BY DEF Next, vars, poolVars, resetVars, P!poolVars, R!resetVars

\* A process that lives is the one its manager knows, and none lives once the manager
\* has stopped; a task of the pool is run once, and all of them before Close returns; an
\* agent is reset by one goroutine at a time: for any number of callers, loops, workers,
\* tasks and handlers.
THEOREM ServicesKeepTurn == Spec => []KeptInTurn
<1>1. Init => OwnerInv /\ DrainInv /\ TurnInv
  BY OwnerInit, DrainInit, TurnInit DEF Init
<1>2. (OwnerInv /\ DrainInv /\ TurnInv) /\ [Next]_vars => (OwnerInv /\ DrainInv /\ TurnInv)'
  BY PartsStep, OwnerStep, DrainStep, TurnStep
<1>3. OwnerInv /\ DrainInv /\ TurnInv => KeptInTurn
  BY OwnerGivesOwned, DrainGivesDrains, TurnGivesTurns DEF KeptInTurn
<1> QED
  BY <1>1, <1>2, <1>3, PTL DEF Spec
=============================================================================
