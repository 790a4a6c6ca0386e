---------------------------- MODULE RecordsProofs ----------------------------
(***************************************************************************)
(* Theorems of the three watchers of GitHub: EventWatch, Feedback and      *)
(* Cleanup, for every set of issues, pull requests, comments and pieces of *)
(* work, every page size and every bound on the time that is looked at.    *)
(***************************************************************************)
EXTENDS MCRecords, TLAPS, FiniteSetTheorems, SequenceTheorems

-----------------------------------------------------------------------------
(* The event watcher.                                                      *)

EventTypes ==
    /\ tick \in Nat \ {0} /\ cursor \in Nat
    /\ when \in [E!Events -> Nat] /\ printed \in [E!Events -> Nat]
    /\ seen \subseteq E!Happened /\ check.events \subseteq seen
    /\ check \in [pc : E!Kinds \cup {"idle", "done"}, events : SUBSET E!Events,
                  late : SUBSET E!Events]
    /\ check.pc = "idle" => check.events = {}

\* What was seen was printed, is in hand or was dropped, and is one of these only.
SeenOnce ==
    \A e \in E!Events :
        /\ printed[e] <= 1
        /\ printed[e] = 1 => e \in seen /\ e \notin check.events
        /\ e \in seen => printed[e] = 1 \/ e \in check.events \/ e \in excused

\* What an event that may not be missed can still be: the next check asks for it.
Open(e) == e \notin seen /\ E!Stamp(when[e]) >= cursor

\* The events whose request the check has already made.
Asked(e) ==
    \/ check.pc = "pr" /\ e[1] = "issue"
    \/ check.pc = "merged" /\ e[1] \in {"issue", "pr"}
    \/ check.pc = "done"

NothingSlips ==
    \A e \in E!Happened \ excused :
        /\ printed[e] = 1 \/ e \in check.events \/ Open(e)
        /\ Asked(e) => printed[e] = 1 \/ e \in check.events \/ e \in check.late

EventInv == EventTypes /\ SeenOnce /\ NothingSlips

LEMMA EventStart == E!EventInit => EventInv
<1> SUFFICES ASSUME E!EventInit PROVE EventInv
  OBVIOUS
<1>1. E!Happened = {}
  BY DEF E!EventInit, E!Happened, E!NoTime
<1>2. EventTypes /\ SeenOnce
  BY <1>1 DEF E!EventInit, EventTypes, SeenOnce, E!NoCheck, E!NoTime, E!Happened
<1> QED
  BY <1>1, <1>2 DEF EventInv, NothingSlips

\* An event of the kind a request asks for is listed by it.
LEMMA HappenedIsListed ==
  ASSUME NEW kind \in E!Kinds, NEW e \in E!Happened, e[1] = kind
  PROVE  e \in E!Listed(kind)
BY DEF E!Kinds, E!Listed

LEMMA FetchEvents ==
  ASSUME EventInv, NEW kind \in E!Kinds, E!Fetch(kind)
  PROVE  EventInv'
<1> DEFINE new == E!Fresh(kind, E!Shown(kind))
<1>1. EventTypes'
  BY DEF EventInv, EventTypes, E!Fetch, E!Fresh, E!Shown, E!Page, E!Listed, E!Happened,
         E!githubVars, E!After, E!Kinds
<1>2. /\ \A e \in new : e \in E!Events /\ e \notin seen /\ e[1] = kind
      /\ seen' = seen \cup new /\ check'.events = check.events \cup new
      /\ check'.pc = E!After(kind) /\ check'.late = check.late /\ check.pc = kind
      /\ excused' = excused \cup E!Fresh(kind, E!Hidden(kind))
      /\ UNCHANGED <<printed, when, cursor>> /\ E!Happened' = E!Happened
  BY DEF EventInv, EventTypes, E!Fetch, E!Fresh, E!Shown, E!Page, E!Listed, E!Happened,
         E!githubVars
<1>3. SeenOnce'
  BY <1>2 DEF EventInv, EventTypes, SeenOnce
<1>4. ASSUME NEW e \in E!Happened \ excused', e[1] = kind
      PROVE  printed[e] = 1 \/ e \in check'.events
  <2>1. e \in E!Listed(kind) /\ e \notin excused
    BY <1>2, <1>4, HappenedIsListed
  <2>2. CASE printed[e] = 1 \/ e \in check.events
    BY <1>2, <2>2
  <2>3. CASE Open(e)
    <3>1. e \in new \/ e \in E!Fresh(kind, E!Hidden(kind))
      BY <1>4, <2>1, <2>3 DEF Open, E!Fresh, E!Shown, E!Hidden
    <3> QED
      BY <1>2, <1>4, <3>1
  <2> QED
    BY <2>1, <2>2, <2>3 DEF EventInv, NothingSlips
<1>5. ASSUME NEW e \in E!Happened' \ excused'
      PROVE  printed'[e] = 1 \/ e \in check'.events \/ Open(e)'
  BY <1>2 DEF EventInv, NothingSlips, Open
<1>6. ASSUME NEW e \in E!Happened' \ excused', Asked(e)'
      PROVE  printed'[e] = 1 \/ e \in check'.events \/ e \in check'.late
  <2>1. e[1] = kind \/ Asked(e)
    BY <1>2, <1>6 DEF Asked, E!After, E!Kinds, E!Events, E!Happened
  <2> QED
    BY <1>2, <1>4, <1>6, <2>1 DEF EventInv, NothingSlips
<1> QED
  BY <1>1, <1>3, <1>5, <1>6 DEF EventInv, NothingSlips

LEMMA FailedEvents ==
  ASSUME EventInv, E!FetchFails
  PROVE  EventInv'
<1>1. EventTypes'
  BY DEF EventInv, EventTypes, E!FetchFails, E!NoCheck, E!githubVars, E!Happened
<1>2. SeenOnce'
  BY DEF EventInv, SeenOnce, E!FetchFails, E!NoCheck, E!githubVars
<1>3. NothingSlips'
  BY DEF EventInv, NothingSlips, E!FetchFails, E!NoCheck, E!githubVars, E!Happened, Open, Asked
<1> QED
  BY <1>1, <1>2, <1>3 DEF EventInv

LEMMA DoneEvents ==
  ASSUME EventInv, E!CheckDone
  PROVE  EventInv'
<1>1. EventTypes'
  BY DEF EventInv, EventTypes, E!CheckDone, E!NoCheck, E!githubVars, E!Happened
<1>2. ASSUME NEW e \in E!Events
      PROVE  printed'[e] = IF e \in check.events /\ ~first THEN printed[e] + 1 ELSE printed[e]
  BY DEF EventInv, EventTypes, E!CheckDone
<1>3. SeenOnce'
  BY <1>2 DEF EventInv, EventTypes, SeenOnce, E!CheckDone, E!NoCheck, E!githubVars
<1>4. ASSUME NEW e \in E!Happened \ excused' PROVE printed'[e] = 1
  <2>1. e \in E!Events /\ e \notin excused /\ e \notin check.late /\ Asked(e)
    BY <1>4 DEF E!CheckDone, E!Happened, Asked
  <2>2. printed[e] = 1 \/ e \in check.events
    BY <1>4, <2>1 DEF EventInv, NothingSlips
  <2>3. e \in check.events => ~first /\ printed[e] = 0
    BY <1>4, <2>1 DEF EventInv, EventTypes, SeenOnce, E!CheckDone
  <2>4. printed[e] = 1 => e \notin check.events
    BY <2>1 DEF EventInv, SeenOnce
  <2> QED
    BY <1>2, <2>1, <2>2, <2>3, <2>4
<1>5. NothingSlips'
  BY <1>4 DEF NothingSlips, E!CheckDone, E!Happened, E!githubVars
<1> QED
  BY <1>1, <1>3, <1>5 DEF EventInv

LEMMA HappenEvents ==
  ASSUME EventInv, NEW e \in E!Events, E!Happen(e)
  PROVE  EventInv'
<1>1. /\ e \notin seen /\ E!Happened' = E!Happened \cup {e}
      /\ \A o \in E!Events : o # e => when'[o] = when[o]
      /\ when'[e] = tick
      /\ check'.pc = check.pc /\ check'.events = check.events
  BY DEF EventInv, EventTypes, E!Happen, E!Happened, E!NoTime
<1>2. EventTypes'
  BY <1>1 DEF EventInv, EventTypes, E!Happen
<1>3. SeenOnce'
  BY <1>1 DEF EventInv, EventTypes, SeenOnce, E!Happen
<1>4. ASSUME NEW o \in E!Happened' \ excused', o # e
      PROVE  /\ printed'[o] = 1 \/ o \in check'.events \/ Open(o)'
             /\ Asked(o)' => printed'[o] = 1 \/ o \in check'.events \/ o \in check'.late
  BY <1>1, <1>4 DEF EventInv, EventTypes, NothingSlips, E!Happen, Open, Asked, E!Happened,
     E!Stamp
<1>5. e \notin excused' => Open(e)'
  BY <1>1 DEF E!Happen, Open, E!Stamp, EventInv, EventTypes
<1>6. Asked(e)' => e \in check'.late
  BY <1>1 DEF E!Happen, Asked, EventInv, EventTypes, E!Events, E!Kinds
<1> QED
  BY <1>1, <1>2, <1>3, <1>4, <1>5, <1>6 DEF EventInv, NothingSlips

LEMMA EventStep == EventInv /\ [E!EventNext]_(E!eventVars) => EventInv'
<1> SUFFICES ASSUME EventInv, [E!EventNext]_(E!eventVars) PROVE EventInv'
  OBVIOUS
<1> USE DEF EventInv, EventTypes, SeenOnce, NothingSlips, E!Happened, Open, Asked
<1>1. CASE E!CheckBegin
  BY <1>1 DEF E!CheckBegin, E!Kinds, E!githubVars
<1>2. CASE E!Tick
  BY <1>2 DEF E!Tick, E!githubVars
<1>3. CASE UNCHANGED E!eventVars
  BY <1>3 DEF E!eventVars, E!githubVars
<1>4. ASSUME NEW p \in Pulls, E!Change(p) PROVE EventInv'
  BY <1>4 DEF E!Change
<1> HIDE DEF EventInv, EventTypes, SeenOnce, NothingSlips, E!Happened, Open, Asked
<1> QED
  BY <1>1, <1>2, <1>3, <1>4, FetchEvents, FailedEvents, DoneEvents, HappenEvents DEF E!EventNext

\* The event watcher prints an event at most once and misses one for the reasons that
\* E!excused collects only (CheckEvents and seenIDs in event_watcher.go).
THEOREM EventsAreKept == E!EventSpec => [](E!PrintedOnce /\ E!MissedForAReason)
<1>1. EventInv => E!PrintedOnce
  BY DEF EventInv, SeenOnce, E!PrintedOnce
<1>2. EventInv => E!MissedForAReason
  BY DEF EventInv, EventTypes, SeenOnce, NothingSlips, Open, E!MissedForAReason
<1> QED
  BY <1>1, <1>2, EventStart, EventStep, PTL DEF E!EventSpec

-----------------------------------------------------------------------------
(* The clean-up of merged branches.                                        *)

CleanupTypes ==
    /\ clock \in Nat /\ clock >= 2 /\ since \in Nat /\ since <= clock
    /\ mergedAt \in [C!Pulled -> Nat] /\ handled \in [C!Pulled -> Nat]
    /\ \A p \in C!Merged : mergedAt[p] >= 2 /\ mergedAt[p] <= clock
    /\ poll \in [pc : {"idle", "fetched", "handle"}, merges : SUBSET C!Pulled]
    /\ poll.merges \subseteq C!Merged
    /\ poll.pc = "idle" => poll.merges = {}
    /\ begun \subseteq Works /\ C!Merged \subseteq begun \cup Others

\* A merge that was handled, or is about to be, lies before the time of the last check.
MergesInTurn ==
    \A p \in C!Pulled :
        /\ handled[p] <= 1
        /\ handled[p] = 1 => p \in C!Merged /\ ~C!Recent(p) /\ p \notin poll.merges
        /\ poll.pc = "handle" /\ p \in poll.merges => ~C!Recent(p)

\* A merge that may not be missed was handled, is in hand or is asked for again.
MergesSlipNot ==
    \A p \in C!Merged \ spared :
        /\ poll.pc = "idle" => handled[p] = 1 \/ C!Recent(p)
        /\ poll.pc = "fetched" => handled[p] = 1 \/ (C!Recent(p) /\ p \in poll.merges)
        /\ poll.pc = "handle" => handled[p] = 1 \/ C!Recent(p) \/ p \in poll.merges

\* One piece of work is unmerged at a time, and it is the one in the worktree if there
\* is one; unless it is risky, no merge that the TUI knows or asks for is before it.
WorkInTurn ==
    /\ \A p \in begun \ C!Merged :
          /\ tree \in {0, p}
          /\ \A q \in begun \ C!Merged : p = q
          /\ p \notin risky => poll.merges = {} /\ \A q \in C!Merged : ~C!Recent(q)
    /\ tree \in begun \cup {0}
    /\ lost \subseteq risky

CleanupInv == CleanupTypes /\ MergesInTurn /\ MergesSlipNot /\ WorkInTurn

\* A timestamp cut to the second is not later, and is zero in the first second only.
LEMMA WholeSecondBounds ==
  ASSUME NEW n \in Nat
  PROVE  C!WholeSecond(n) \in Nat /\ C!WholeSecond(n) <= n /\ (n >= 2 => C!WholeSecond(n) > 0)
BY DEF C!WholeSecond

LEMMA CleanupStart == C!CleanupInit => CleanupInv
<1> SUFFICES ASSUME C!CleanupInit PROVE CleanupInv
  OBVIOUS
<1>1. C!Merged = {}
  BY DEF C!CleanupInit, C!Merged, C!Pulled
<1>2. CleanupTypes /\ MergesInTurn
  BY <1>1 DEF C!CleanupInit, CleanupTypes, MergesInTurn, C!AtRest, C!Pulled
<1> QED
  BY <1>1, <1>2 DEF C!CleanupInit, CleanupInv, MergesSlipNot, WorkInTurn

\* The clean-up goes through a request, a mark and the handling of what it found.
LEMMA PollStep ==
  ASSUME CleanupInv, C!PollFetch \/ C!PollFails \/ C!PollMark \/ C!PollHandle
  PROVE  CleanupInv'
<1> USE DEF CleanupInv, CleanupTypes, C!Merged, C!AtRest, C!historyVars, C!githubVars, C!Pulled
<1>0. C!Merged' = C!Merged
  BY DEF C!PollFetch, C!PollFails, C!PollMark, C!PollHandle
<1>1. CleanupTypes'
  <2>1. CASE C!PollFetch
    BY <2>1 DEF C!PollFetch
  <2>2. CASE C!PollFails
    BY <2>2 DEF C!PollFails
  <2>3. CASE C!PollMark
    BY <2>3 DEF C!PollMark
  <2>4. CASE C!PollHandle
    BY <2>4 DEF C!PollHandle
  <2> QED
    BY <2>1, <2>2, <2>3, <2>4
<1>2. CASE C!PollFetch
  <2>1. MergesInTurn' /\ MergesSlipNot'
    BY <1>0, <1>2 DEF C!PollFetch, MergesInTurn, MergesSlipNot, C!Recent
  <2>2. WorkInTurn'
    BY <1>0, <1>2 DEF C!PollFetch, WorkInTurn, C!Recent
  <2> QED
    BY <1>1, <2>1, <2>2
<1>3. CASE C!PollFails
  BY <1>0, <1>1, <1>3 DEF C!PollFails, MergesInTurn, MergesSlipNot, WorkInTurn, C!Recent
<1>4. CASE C!PollMark
  <2>1. ASSUME NEW p \in C!Merged PROVE ~C!Recent(p)'
    BY <1>4, <2>1, WholeSecondBounds DEF C!PollMark, C!Recent
  <2>2. MergesInTurn' /\ MergesSlipNot'
    BY <1>0, <1>4, <2>1 DEF C!PollMark, MergesInTurn, MergesSlipNot
  <2>3. WorkInTurn'
    BY <1>0, <1>4, <2>1 DEF C!PollMark, WorkInTurn
  <2> QED
    BY <1>1, <2>2, <2>3
<1>5. CASE C!PollHandle
  <2>1. /\ poll.pc = "handle" /\ poll'.merges = {} /\ poll'.pc = "idle"
        /\ \A p \in C!Pulled : handled'[p] = IF p \in poll.merges THEN handled[p] + 1 ELSE handled[p]
        /\ \A p \in C!Pulled : C!Recent(p)' = C!Recent(p)
    BY <1>5 DEF C!PollHandle, C!Recent
  <2>2. MergesInTurn'
    BY <1>0, <1>5, <2>1 DEF MergesInTurn
  <2>3. MergesSlipNot'
    BY <1>0, <1>5, <2>1 DEF C!PollHandle, MergesSlipNot, MergesInTurn
  <2>4. WorkInTurn'
    BY <1>0, <1>5, <2>1, NumbersAssumption DEF C!PollHandle, WorkInTurn, NumbersAssumption
  <2> QED
    BY <1>1, <2>2, <2>3, <2>4
<1> QED
  BY <1>2, <1>3, <1>4, <1>5

LEMMA RestartStep == ASSUME CleanupInv, C!Restart PROVE CleanupInv'
<1> USE DEF CleanupInv, CleanupTypes, C!Merged, C!Restart, C!AtRest, C!githubVars, C!Pulled
<1>1. CleanupTypes' /\ C!Merged' = C!Merged
  OBVIOUS
<1>2. ASSUME NEW p \in C!Merged PROVE C!Recent(p)'
  BY <1>2, WholeSecondBounds DEF C!Recent
<1>3. MergesInTurn' /\ MergesSlipNot'
  BY <1>1, <1>2 DEF MergesInTurn, MergesSlipNot
<1>4. WorkInTurn'
  BY <1>1 DEF WorkInTurn
<1> QED
  BY <1>1, <1>3, <1>4

LEMMA BeginStep ==
  ASSUME NEW p \in Works, CleanupInv, C!BeginWork(p)
  PROVE  CleanupInv'
<1> USE DEF CleanupInv, CleanupTypes, C!Merged, C!BeginWork, C!githubVars, C!Pulled
<1>1. CleanupTypes' /\ C!Merged' = C!Merged
  OBVIOUS
<1>2. MergesInTurn' /\ MergesSlipNot'
  BY <1>1 DEF MergesInTurn, MergesSlipNot, C!Recent
<1>3. begun' \ C!Merged' = {p} /\ risky \subseteq risky'
  BY <1>1, NumbersAssumption DEF NumbersAssumption
<1>4. p \notin risky' => poll'.merges = {} /\ \A q \in C!Merged' : ~C!Recent(q)'
  BY <1>1 DEF C!Recent
<1>5. WorkInTurn'
  BY <1>3, <1>4 DEF WorkInTurn
<1> QED
  BY <1>1, <1>2, <1>5

LEMMA MergeStep ==
  ASSUME NEW p \in C!Pulled, CleanupInv, C!Merge(p)
  PROVE  CleanupInv'
<1> USE DEF CleanupInv, CleanupTypes, C!Pulled
<1>1. /\ C!Merged' = C!Merged \cup {p} /\ p \in (begun \cup Others) \ C!Merged
      /\ \A q \in C!Pulled : q # p => mergedAt'[q] = mergedAt[q] /\ (C!Recent(q)' <=> C!Recent(q))
      /\ mergedAt'[p] = clock /\ p \notin poll.merges
  BY DEF C!Merge, C!Merged, C!Recent
<1>2. CleanupTypes'
  BY <1>1 DEF C!Merge
<1>3. MergesInTurn'
  BY <1>1 DEF MergesInTurn, C!Merge
<1>4. MergesSlipNot'
  BY <1>1, WholeSecondBounds DEF MergesSlipNot, C!Merge, C!Recent
<1>5. WorkInTurn'
  BY <1>1 DEF WorkInTurn, C!Merge
<1> QED
  BY <1>2, <1>3, <1>4, <1>5

LEMMA CleanupStep == CleanupInv /\ [C!CleanupNext]_(C!cleanupVars) => CleanupInv'
<1> SUFFICES ASSUME CleanupInv, [C!CleanupNext]_(C!cleanupVars) PROVE CleanupInv'
  OBVIOUS
<1> USE DEF CleanupInv, CleanupTypes, MergesInTurn, MergesSlipNot, WorkInTurn, C!Merged,
            C!Recent, C!historyVars, C!githubVars, C!Pulled
<1>1. CASE C!CleanupTick
  BY <1>1 DEF C!CleanupTick
<1>2. CASE UNCHANGED C!cleanupVars
  BY <1>2 DEF C!cleanupVars
<1>3. ASSUME NEW p \in C!Pulled, C!Touch(p) PROVE CleanupInv'
  BY <1>3 DEF C!Touch
<1> HIDE DEF CleanupInv, CleanupTypes, MergesInTurn, MergesSlipNot, WorkInTurn, C!Merged,
             C!Recent, C!historyVars, C!githubVars, C!Pulled
<1> QED
  BY <1>1, <1>2, <1>3, PollStep, RestartStep, BeginStep, MergeStep DEF C!CleanupNext

\* The TUI handles a merge once and misses one for the reasons of C!spared only, and
\* unmerged work loses its worktree only for those of C!risky (checkMergedPRs,
\* CleanupForBranch).
THEOREM MergesAreKept ==
  C!CleanupSpec => [](C!HandledOnce /\ C!HandledOrToCome /\ C!OnlyRiskyWorkIsLost)
<1>1. CleanupInv => C!HandledOnce /\ C!OnlyRiskyWorkIsLost
  BY DEF CleanupInv, MergesInTurn, WorkInTurn, C!HandledOnce, C!OnlyRiskyWorkIsLost
<1>2. CleanupInv => C!HandledOrToCome
  BY DEF CleanupInv, MergesSlipNot, C!HandledOrToCome
<1> QED
  BY <1>1, <1>2, CleanupStart, CleanupStep, PTL DEF C!CleanupSpec

-----------------------------------------------------------------------------
(* The feedback watcher.  Sequences of comments that hold each one once.   *)

Within(c, s) == \E i \in DOMAIN s : s[i] = c
Distinct(s) == \A i, j \in DOMAIN s : s[i] = s[j] => i = j

LEMMA TailIsDistinct ==
  ASSUME NEW s \in Seq(Comments), s # <<>>, Distinct(s)
  PROVE  /\ Tail(s) \in Seq(Comments) /\ Distinct(Tail(s))
         /\ Head(s) \in Comments /\ Within(Head(s), s)
         /\ \A c : Within(c, Tail(s)) <=> Within(c, s) /\ c # Head(s)
<1>1. /\ Tail(s) \in Seq(Comments) /\ DOMAIN Tail(s) = 1 .. Len(s) - 1
      /\ Len(s) \in Nat \ {0} /\ DOMAIN s = 1 .. Len(s)
      /\ \A i \in 1 .. Len(s) - 1 : Tail(s)[i] = s[i + 1]
  BY HeadTailProperties, LenProperties, EmptySeq
<1>2. Head(s) = s[1] /\ Head(s) \in Comments
  BY HeadTailProperties
<1>3. Distinct(Tail(s)) /\ Within(Head(s), s)
  BY <1>1, <1>2 DEF Distinct, Within
<1>4. ASSUME NEW c PROVE Within(c, Tail(s)) <=> Within(c, s) /\ c # Head(s)
  <2>1. ASSUME Within(c, Tail(s)) PROVE Within(c, s) /\ c # Head(s)
    BY <1>1, <1>2, <2>1 DEF Within, Distinct
  <2>2. ASSUME NEW i \in DOMAIN s, s[i] = c, c # Head(s) PROVE Within(c, Tail(s))
    <3>1. i - 1 \in 1 .. Len(s) - 1 /\ Tail(s)[i - 1] = c
      BY <1>1, <1>2, <2>2
    <3> QED
      BY <1>1, <3>1 DEF Within
  <2> QED
    BY <2>1, <2>2 DEF Within
<1> QED
  BY <1>1, <1>2, <1>3, <1>4

LEMMA AppendIsDistinct ==
  ASSUME NEW s \in Seq(Comments), NEW d \in Comments, Distinct(s), ~Within(d, s)
  PROVE  /\ Append(s, d) \in Seq(Comments) /\ Distinct(Append(s, d))
         /\ \A c : Within(c, Append(s, d)) <=> Within(c, s) \/ c = d
<1>1. /\ Append(s, d) \in Seq(Comments) /\ Len(s) \in Nat
      /\ DOMAIN s = 1 .. Len(s) /\ DOMAIN Append(s, d) = 1 .. Len(s) + 1
      /\ \A i \in 1 .. Len(s) : Append(s, d)[i] = s[i]
      /\ Append(s, d)[Len(s) + 1] = d
  OBVIOUS
<1>2. Distinct(Append(s, d))
  BY <1>1 DEF Distinct, Within
<1>3. ASSUME NEW c PROVE Within(c, Append(s, d)) <=> Within(c, s) \/ c = d
  BY <1>1 DEF Within
<1> QED
  BY <1>1, <1>2, <1>3

\* The comments of a set in the order of their numbers.
LEMMA InOrderIsDistinct ==
  ASSUME NEW S \in SUBSET Comments, NEW s \in F!InOrder(S)
  PROVE  /\ s \in Seq(Comments) /\ Distinct(s)
         /\ \A c : Within(c, s) <=> c \in S
<1>1. IsFiniteSet(S) /\ Cardinality(S) \in Nat
  BY NumbersAssumption, FS_Subset, FS_CardinalityType DEF NumbersAssumption
<1> DEFINE D == 1 .. Cardinality(S)
<1>2. s \in [D -> S] /\ \A i, j \in DOMAIN s : i < j => s[i] < s[j]
  <2>1. F!Cardinality(S) = Cardinality(S)
    BY Zenon DEF F!Cardinality, Cardinality
  <2> QED
    BY <2>1 DEF F!InOrder
<1>3. s \in Seq(Comments)
  BY <1>1, <1>2, SeqDef
<1>4. ASSUME NEW i \in D, NEW j \in D, i # j PROVE s[i] # s[j]
  <2>1. i \in Nat /\ j \in Nat /\ DOMAIN s = D
    BY <1>1, <1>2
  <2>3. s[i] \in Nat /\ s[j] \in Nat
    BY <1>2, NumbersAssumption DEF NumbersAssumption
  <2>2. i < j \/ j < i
    BY <1>4, <2>1
  <2> QED
    BY <1>2, <2>1, <2>2, <2>3
<1>5. s \in Injection(D, S)
  BY <1>2, <1>4 DEF Injection, IsInjective
<1>6. Cardinality(D) = Cardinality(S)
  BY <1>1, FS_Interval
<1>7. s \in Surjection(D, S)
  BY <1>1, <1>5, <1>6, FS_Injection
<1> QED
  BY <1>2, <1>3, <1>4, <1>7 DEF Distinct, Within, Surjection

CommentShapes == [at : Nat, holds : Contents \cup {{}}]

IssueTypes ==
    /\ now \in Nat \ {0}
    /\ comment \in [Comments -> CommentShapes]
    /\ \A c \in Comments : comment[c].at <= now
    /\ planned \in BOOLEAN
    /\ watchedAt \in Nat /\ watchedAt <= now /\ (planned <=> watchedAt # F!Unwatched)

Scans == [pc : {"idle", "fetch", "mark", "emit", "gone"}, since : Nat, events : Seq(Comments)]

ScanTypes ==
    /\ scan \in Scans
    /\ scan.pc \in {"idle", "fetch", "gone"} => scan.events = <<>>
    /\ scan.pc = "fetch" => scan.since <= now /\ (planned => scan.since <= watchedAt)

PollTypes ==
    /\ eventCh \in Seq(Comments) /\ taken \subseteq Comments
    /\ given \in [Comments -> Nat]

FeedbackTypes == IssueTypes /\ ScanTypes /\ PollTypes

\* A scan keeps its shape when a part of it changes.
LEMMA ScanShapes ==
  ASSUME NEW r \in Scans, NEW p \in {"idle", "fetch", "mark", "emit", "gone"}
  PROVE  /\ [r EXCEPT !.pc = p] \in Scans
         /\ \A t \in Nat : [r EXCEPT !.pc = p, !.since = t] \in Scans
         /\ \A s \in Seq(Comments) : /\ [r EXCEPT !.pc = p, !.events = s] \in Scans
                                     /\ [r EXCEPT !.events = s] \in Scans
BY DEF Scans

LEMMA NoScanShape == F!NoScan \in Scans /\ F!NoScan.pc = "idle" /\ F!NoScan.events = <<>>
BY EmptySeq DEF Scans, F!NoScan, F!Unwatched

\* A comment is in one place on its way from the request to the callback.
OnePlace ==
    /\ Distinct(scan.events) /\ Distinct(eventCh)
    /\ \A c \in Comments :
          /\ given[c] <= 1
          /\ Within(c, scan.events) => ~Within(c, eventCh) /\ c \notin taken /\ given[c] = 0
          /\ Within(c, eventCh) => c \notin taken /\ given[c] = 0
          /\ c \in taken => given[c] = 0

OnItsWay(c) ==
    Within(c, scan.events) \/ Within(c, eventCh) \/ c \in taken \/ given[c] = 1

\* Where the watcher will look from is after all that it has found.
FoundIsPast ==
    \A c \in Comments : OnItsWay(c) =>
        /\ comment[c].at > 0
        /\ scan.pc \in {"idle", "fetch", "emit"} /\ planned => comment[c].at <= watchedAt
        /\ scan.pc = "fetch" => comment[c].at <= scan.since

\* A comment that may not be missed is on its way, or after where the watcher looks from.
CommentsSlipNot ==
    /\ ~planned \/ scan.pc = "gone" => F!Made \subseteq pardoned
    /\ \A c \in F!Made \ pardoned : F!Wanted(c) =>
          OnItsWay(c) \/ (F!Second(comment[c].at) > watchedAt /\ scan.pc # "mark")

FeedbackInv == FeedbackTypes /\ OnePlace /\ FoundIsPast /\ CommentsSlipNot

LEMMA FeedbackStart == F!FeedbackInit => FeedbackInv
<1> SUFFICES ASSUME F!FeedbackInit PROVE FeedbackInv
  OBVIOUS
<1> USE DEF F!FeedbackInit, F!NoScan, F!NoComment, F!Unwatched
<1>1. FeedbackTypes
  <2>1. comment = [c \in Comments |-> [at |-> 0, holds |-> {}]]
    OBVIOUS
  <2>2. comment \in [Comments -> CommentShapes]
    <3>1. [at |-> 0, holds |-> {}] \in CommentShapes
      BY DEF CommentShapes
    <3> QED
      BY <2>1, <3>1
  <2>3. IssueTypes
    <3>1. \A c \in Comments : comment[c].at = 0
      BY <2>1
    <3>2. ~planned /\ planned \in BOOLEAN /\ watchedAt = 0 /\ now = 1
      OBVIOUS
    <3> QED
      BY <2>2, <3>1, <3>2 DEF IssueTypes
  <2>4. ScanTypes
    BY NoScanShape, ScanShapes DEF ScanTypes
  <2>5. PollTypes
    BY EmptySeq DEF PollTypes
  <2> QED
    BY <2>3, <2>4, <2>5 DEF FeedbackTypes
<1>2. OnePlace /\ \A c \in Comments : ~OnItsWay(c)
  BY DEF OnePlace, OnItsWay, Distinct, Within
<1>3. F!Made = {}
  BY DEF F!Made
<1> QED
  BY <1>1, <1>2, <1>3 DEF FeedbackInv, FoundIsPast, CommentsSlipNot

\* A comment's time cut to the second is not later.
LEMMA SecondBounds ==
  ASSUME NEW n \in Nat
  PROVE  F!Second(n) \in Nat /\ F!Second(n) <= n
BY DEF F!Second

LEMMA PlanFeedback ==
  ASSUME FeedbackInv, F!StartPlan \/ F!StopPlan
  PROVE  FeedbackInv'
<1> USE DEF F!StartPlan, F!StopPlan, F!Unwatched
<1>1. FeedbackTypes'
  <2>1. IssueTypes'
    <3>1. UNCHANGED <<now, comment>>
      OBVIOUS
    <3>2. watchedAt' \in Nat /\ watchedAt' <= now
          /\ (planned' <=> watchedAt' # F!Unwatched) /\ planned' \in BOOLEAN
      <4>1. CASE F!StartPlan
        BY <4>1 DEF FeedbackInv, FeedbackTypes, IssueTypes
      <4>2. CASE F!StopPlan
        <5>1. ~planned' /\ planned' \in BOOLEAN /\ watchedAt' = 0
          BY <4>2
        <5> QED
          BY <5>1 DEF FeedbackInv, FeedbackTypes, IssueTypes
      <4> QED
        BY <4>1, <4>2
    <3> QED
      BY <3>1, <3>2 DEF FeedbackInv, FeedbackTypes, IssueTypes
  <2>2. ScanTypes'
    <3>1. scan.since \in Nat
      BY DEF FeedbackInv, FeedbackTypes, ScanTypes, Scans
    <3> QED
      BY <3>1 DEF FeedbackInv, FeedbackTypes, IssueTypes, ScanTypes
  <2>3. PollTypes'
    BY DEF FeedbackInv, FeedbackTypes, PollTypes
  <2> QED
    BY <2>1, <2>2, <2>3 DEF FeedbackTypes
<1>2. OnePlace' /\ \A c \in Comments : OnItsWay(c)' <=> OnItsWay(c)
  BY DEF FeedbackInv, OnePlace, OnItsWay
<1>3. FoundIsPast'
  BY <1>2 DEF FeedbackInv, FeedbackTypes, IssueTypes, CommentShapes, ScanTypes, Scans,
     PollTypes, FoundIsPast
<1>4. CommentsSlipNot'
  BY <1>2 DEF FeedbackInv, FeedbackTypes, IssueTypes, CommentShapes, ScanTypes, Scans,
     PollTypes, CommentsSlipNot, F!Made
<1> QED
  BY <1>1, <1>2, <1>3, <1>4 DEF FeedbackInv

LEMMA ScanFeedback ==
  ASSUME FeedbackInv, F!ScanBegin \/ F!ScanFails \/ F!ScanMark
  PROVE  FeedbackInv'
<1> USE DEF F!ScanBegin, F!ScanFails, F!ScanMark, F!Unwatched
<1>1. scan \in Scans /\ scan'.events = scan.events /\ scan' \in Scans
  <2>1. scan \in Scans /\ watchedAt \in Nat
    BY DEF FeedbackInv, FeedbackTypes, ScanTypes, IssueTypes
  <2>2. CASE F!ScanBegin
    <3>1. scan' \in Scans
      BY <2>1, <2>2, NoScanShape, ScanShapes
    <3>2. scan'.events = <<>> /\ scan.pc = "idle"
      BY <2>2 DEF F!NoScan
    <3> QED
      BY <2>1, <3>1, <3>2 DEF FeedbackInv, FeedbackTypes, ScanTypes
  <2>3. CASE F!ScanFails
    BY <2>1, <2>3, NoScanShape, ScanShapes DEF FeedbackInv, FeedbackTypes, ScanTypes
  <2>4. CASE F!ScanMark
    <3>1. scan' = [scan EXCEPT !.pc = "emit"]
      BY <2>4
    <3>2. scan' \in Scans
      BY <2>1, <3>1, ScanShapes
    <3>3. scan'.events = scan.events
      BY <2>1, <3>1 DEF Scans
    <3> QED
      BY <2>1, <3>2, <3>3
  <2> QED
    BY <2>2, <2>3, <2>4
<1>2. FeedbackTypes'
  <2>1. IssueTypes' /\ PollTypes'
    BY DEF FeedbackInv, FeedbackTypes, IssueTypes, PollTypes
  <2>2. CASE F!ScanBegin
    BY <1>1, <2>1, <2>2 DEF FeedbackInv, FeedbackTypes, IssueTypes, ScanTypes, F!NoScan
  <2>3. CASE F!ScanFails
    BY <1>1, <2>1, <2>3 DEF FeedbackInv, FeedbackTypes, ScanTypes, F!NoScan
  <2>4. CASE F!ScanMark
    BY <1>1, <2>1, <2>4 DEF FeedbackInv, FeedbackTypes, ScanTypes, Scans
  <2> QED
    BY <2>2, <2>3, <2>4
<1>3. OnePlace' /\ \A c \in Comments : OnItsWay(c)' <=> OnItsWay(c)
  BY <1>1 DEF FeedbackInv, OnePlace, OnItsWay
<1>4. FoundIsPast'
  <2>1. CASE F!ScanBegin
    BY <1>3, <2>1 DEF FeedbackInv, FeedbackTypes, IssueTypes, FoundIsPast, F!NoScan
  <2>2. CASE F!ScanFails
    BY <1>3, <2>2 DEF FeedbackInv, FoundIsPast, F!NoScan
  <2>3. CASE F!ScanMark
    BY <1>1, <1>3, <2>3 DEF FeedbackInv, FeedbackTypes, IssueTypes, FoundIsPast, Scans
  <2> QED
    BY <2>1, <2>2, <2>3
<1>5. CommentsSlipNot'
  <2> USE DEF CommentsSlipNot, F!Made, F!Wanted, F!Kind
  <2>1. CASE F!ScanBegin
    BY <1>3, <2>1 DEF FeedbackInv, F!NoScan
  <2>2. CASE F!ScanFails
    BY <1>3, <2>2 DEF FeedbackInv, F!NoScan
  <2>3. CASE F!ScanMark
    BY <1>1, <1>3, <2>3 DEF FeedbackInv, Scans
  <2> QED
    BY <2>1, <2>2, <2>3
<1> QED
  BY <1>2, <1>3, <1>4, <1>5 DEF FeedbackInv

LEMMA FetchFeedback ==
  ASSUME FeedbackInv, F!ScanFetch
  PROVE  FeedbackInv'
<1>1. F!Found \in SUBSET Comments
  BY DEF F!Found, F!Made
<1>2. PICK events \in F!InOrder(F!Found) :
        scan' = [scan EXCEPT !.pc = "mark", !.events = events]
  BY DEF F!ScanFetch
<1>3. events \in Seq(Comments) /\ Distinct(events) /\ \A c : Within(c, events) <=> c \in F!Found
  BY <1>1, InOrderIsDistinct
<1>4. scan.pc = "fetch" /\ scan.events = <<>> /\ ~(\E c \in Comments : Within(c, scan.events))
  BY DEF F!ScanFetch, FeedbackInv, FeedbackTypes, IssueTypes, CommentShapes, ScanTypes,
         Scans, PollTypes, Within
<1>5. /\ UNCHANGED <<now, comment, planned, plans, watchedAt, eventCh, taken, given, pardoned>>
      /\ scan'.pc = "mark" /\ scan'.events = events
  BY <1>2 DEF F!ScanFetch, FeedbackInv, FeedbackTypes, IssueTypes, CommentShapes, ScanTypes,
     Scans, PollTypes
<1>6. FeedbackTypes'
  BY <1>2, <1>3, <1>5 DEF FeedbackInv, FeedbackTypes, IssueTypes, CommentShapes, ScanTypes,
     Scans, PollTypes
<1>7. ASSUME NEW c \in F!Found PROVE ~OnItsWay(c) /\ comment[c].at > 0
  <2>1. c \in Comments /\ comment[c].at \in Nat /\ scan.since \in Nat
        /\ F!Second(comment[c].at) > scan.since /\ comment[c].at > 0
    BY <1>7 DEF F!Found, F!Made, FeedbackInv, FeedbackTypes, IssueTypes, CommentShapes,
       ScanTypes, Scans, PollTypes
  <2>2. comment[c].at > scan.since
    BY <2>1, SecondBounds
  <2> QED
    BY <1>4, <2>1, <2>2 DEF FeedbackInv, FoundIsPast
<1>8. OnePlace'
  <2>1. Distinct(scan'.events) /\ Distinct(eventCh')
    BY <1>3, <1>5 DEF FeedbackInv, OnePlace
  <2>2. ASSUME NEW c \in Comments, Within(c, events)
        PROVE  ~Within(c, eventCh) /\ c \notin taken /\ given[c] # 1
    BY <1>3, <1>7, <2>2 DEF OnItsWay
  <2>3. ASSUME NEW c \in Comments PROVE given[c] \in Nat /\ given[c] <= 1
    BY <2>3 DEF FeedbackInv, FeedbackTypes, PollTypes, OnePlace
  <2> QED
    BY <1>5, <2>1, <2>2, <2>3 DEF FeedbackInv, OnePlace
<1>9. FoundIsPast'
  BY <1>3, <1>5, <1>7 DEF FeedbackInv, FoundIsPast, OnItsWay
<1>10. ASSUME NEW c \in F!Made \ pardoned, F!Wanted(c) PROVE OnItsWay(c)'
  <2>1. c \in Comments /\ planned /\ scan.since <= watchedAt
    BY <1>4, <1>10 DEF FeedbackInv, FeedbackTypes, IssueTypes, CommentShapes, ScanTypes,
       Scans, PollTypes, CommentsSlipNot, F!Made
  <2>2. CASE OnItsWay(c)
    BY <1>4, <1>5, <2>1, <2>2 DEF OnItsWay
  <2>3. CASE F!Second(comment[c].at) > watchedAt
    <3>1. F!Second(comment[c].at) > scan.since
      BY <2>1, <2>3, SecondBounds, SMTT(30) DEF FeedbackInv, FeedbackTypes, IssueTypes,
         CommentShapes,
         ScanTypes, Scans, PollTypes
    <3>2. c \in F!Found
      BY <1>10, <3>1 DEF F!Found, F!Wanted
    <3> QED
      BY <1>3, <1>5, <3>2 DEF OnItsWay
  <2> QED
    BY <1>10, <2>2, <2>3 DEF FeedbackInv, CommentsSlipNot
<1>11. CommentsSlipNot'
  BY <1>4, <1>5, <1>10 DEF FeedbackInv, CommentsSlipNot, F!Made, F!Wanted, F!Kind
<1> QED
  BY <1>6, <1>8, <1>9, <1>11 DEF FeedbackInv

LEMMA EmitFeedback ==
  ASSUME FeedbackInv, F!ScanEmit
  PROVE  FeedbackInv'
<1> USE DEF F!ScanEmit, F!NoScan
<1>1. CASE scan.events = <<>>
  <2>1. scan' = F!NoScan /\ scan'.events = <<>> /\ UNCHANGED eventCh
    BY <1>1
  <2>2. FeedbackTypes'
    <3>1. ScanTypes'
      BY <2>1, NoScanShape DEF ScanTypes
    <3> QED
      BY <2>1, <3>1 DEF FeedbackInv, FeedbackTypes, IssueTypes, PollTypes
  <2>3. OnePlace' /\ \A c \in Comments : OnItsWay(c)' <=> OnItsWay(c)
    BY <1>1, <2>1 DEF FeedbackInv, OnePlace, OnItsWay
  <2>4. FoundIsPast' /\ CommentsSlipNot'
    BY <2>1, <2>3 DEF FeedbackInv, FoundIsPast, CommentsSlipNot, F!Made, F!Wanted, F!Kind
  <2> QED
    BY <2>2, <2>3, <2>4 DEF FeedbackInv
<1>2. CASE scan.events # <<>>
  <2> DEFINE d == Head(scan.events)
  <2>1. /\ scan.events \in Seq(Comments) /\ eventCh \in Seq(Comments)
        /\ Distinct(scan.events) /\ Distinct(eventCh)
        /\ eventCh' = Append(eventCh, d) /\ scan' = [scan EXCEPT !.events = Tail(@)]
        /\ scan'.events = Tail(scan.events) /\ scan'.pc = scan.pc /\ scan'.since = scan.since
        /\ scan.pc = "emit"
    BY <1>2 DEF FeedbackInv, FeedbackTypes, IssueTypes, CommentShapes, ScanTypes, Scans,
       PollTypes, OnePlace
  <2>2. /\ Tail(scan.events) \in Seq(Comments) /\ Distinct(Tail(scan.events))
        /\ d \in Comments /\ Within(d, scan.events)
        /\ \A c : Within(c, Tail(scan.events)) <=> Within(c, scan.events) /\ c # d
    BY <1>2, <2>1, TailIsDistinct
  <2>3. ~Within(d, eventCh) /\ d \notin taken /\ given[d] = 0
    BY <2>2 DEF FeedbackInv, OnePlace
  <2>4. /\ eventCh' \in Seq(Comments) /\ Distinct(eventCh')
        /\ \A c : Within(c, eventCh') <=> Within(c, eventCh) \/ c = d
    BY <2>1, <2>2, <2>3, AppendIsDistinct
  <2>5. FeedbackTypes'
    BY <2>1, <2>2, <2>4 DEF FeedbackInv, FeedbackTypes, IssueTypes, CommentShapes,
       ScanTypes, Scans, PollTypes
  <2> HIDE DEF d
  <2>6. OnePlace' /\ \A c \in Comments : OnItsWay(c)' <=> OnItsWay(c)
    BY <2>1, <2>2, <2>3, <2>4 DEF FeedbackInv, OnePlace, OnItsWay
  <2>7. FoundIsPast' /\ CommentsSlipNot'
    BY <2>1, <2>6 DEF FeedbackInv, FoundIsPast, CommentsSlipNot, F!Made, F!Wanted, F!Kind
  <2> QED
    BY <2>5, <2>6, <2>7 DEF FeedbackInv
<1> QED
  BY <1>1, <1>2

\* The watcher's goroutine ends: what it has in hand is lost.
LEMMA EndFeedback ==
  ASSUME FeedbackInv, F!EndScan
  PROVE  FeedbackInv'
<1> USE DEF F!EndScan
<1>1. scan' \in Scans /\ scan'.events = <<>> /\ scan'.pc = "gone"
  <2>1. scan' = [F!NoScan EXCEPT !.pc = "gone"]
    OBVIOUS
  <2>2. scan' \in Scans
    BY <2>1, NoScanShape, ScanShapes
  <2> QED
    BY <2>1, <2>2 DEF F!NoScan
<1>2. FeedbackTypes'
  <2>1. ScanTypes'
    BY <1>1 DEF ScanTypes
  <2> QED
    BY <2>1 DEF FeedbackInv, FeedbackTypes, IssueTypes, PollTypes
<1>3. OnePlace' /\ \A c \in Comments : OnItsWay(c)' => OnItsWay(c)
  BY <1>1 DEF FeedbackInv, OnePlace, OnItsWay, Within, Distinct
<1>4. FoundIsPast' /\ CommentsSlipNot'
  BY <1>1, <1>3 DEF FeedbackInv, FoundIsPast, CommentsSlipNot, F!Made
<1> QED
  BY <1>2, <1>3, <1>4 DEF FeedbackInv

LEMMA TakeFeedback ==
  ASSUME FeedbackInv, F!PollTake
  PROVE  FeedbackInv'
<1> USE DEF F!PollTake
<1> DEFINE d == Head(eventCh)
<1>1. /\ eventCh \in Seq(Comments) /\ Distinct(eventCh) /\ eventCh # <<>>
      /\ eventCh' = Tail(eventCh)
  BY DEF FeedbackInv, FeedbackTypes, IssueTypes, CommentShapes, ScanTypes, Scans, PollTypes,
         OnePlace
<1>2. /\ Tail(eventCh) \in Seq(Comments) /\ Distinct(Tail(eventCh))
      /\ d \in Comments /\ Within(d, eventCh)
      /\ \A c : Within(c, Tail(eventCh)) <=> Within(c, eventCh) /\ c # d
  BY <1>1, TailIsDistinct
<1>3. /\ taken = {} /\ taken' \subseteq {d}
      /\ planned /\ F!Wanted(d) => taken' = {d}
  BY DEF F!Wanted
<1>4. FeedbackTypes'
  BY <1>1, <1>2, <1>3 DEF FeedbackInv, FeedbackTypes, IssueTypes, CommentShapes, ScanTypes,
     Scans, PollTypes
<1> HIDE DEF d
<1>5. OnePlace' /\ \A c \in Comments : OnItsWay(c)' => OnItsWay(c)
  BY <1>1, <1>2, <1>3 DEF FeedbackInv, OnePlace, OnItsWay
<1>6. FoundIsPast'
  BY <1>5 DEF FeedbackInv, FoundIsPast
<1>7. ASSUME NEW c \in Comments, OnItsWay(c), planned, F!Wanted(c) PROVE OnItsWay(c)'
  BY <1>1, <1>2, <1>3, <1>7 DEF OnItsWay
<1>8. CommentsSlipNot'
  BY <1>7 DEF FeedbackInv, CommentsSlipNot, F!Made, F!Wanted, F!Kind
<1> QED
  BY <1>4, <1>5, <1>6, <1>8 DEF FeedbackInv

LEMMA GiveFeedback ==
  ASSUME FeedbackInv, F!PollGive
  PROVE  FeedbackInv'
<1> USE DEF F!PollGive
<1>1. FeedbackTypes'
  BY SMTT(30) DEF FeedbackInv, FeedbackTypes, IssueTypes, CommentShapes, ScanTypes, Scans,
     PollTypes
<1>2. \A c \in Comments : given'[c] = IF c \in taken THEN given[c] + 1 ELSE given[c]
  BY DEF FeedbackInv, FeedbackTypes, IssueTypes, CommentShapes, ScanTypes, Scans, PollTypes
<1>3. OnePlace' /\ \A c \in Comments : OnItsWay(c)' <=> OnItsWay(c)
  BY <1>2 DEF FeedbackInv, FeedbackTypes, IssueTypes, CommentShapes, ScanTypes, Scans,
     PollTypes, OnePlace, OnItsWay
<1>4. FoundIsPast' /\ CommentsSlipNot'
  BY <1>3 DEF FeedbackInv, FoundIsPast, CommentsSlipNot, F!Made, F!Wanted, F!Kind
<1> QED
  BY <1>1, <1>3, <1>4 DEF FeedbackInv

LEMMA CommentFeedback ==
  ASSUME NEW c \in Comments, FeedbackInv, F!MakeComment(c)
  PROVE  FeedbackInv'
<1> USE DEF F!MakeComment, F!NoComment
<1>1. /\ \A d \in Comments : d # c => comment'[d] = comment[d]
      /\ comment[c].at = 0 /\ comment'[c].at = now /\ comment'[c].holds \in Contents
      /\ comment' \in [Comments -> CommentShapes]
  BY DEF FeedbackInv, FeedbackTypes, IssueTypes, CommentShapes, ScanTypes, Scans, PollTypes
<1>2. FeedbackTypes'
  BY <1>1 DEF FeedbackInv, FeedbackTypes, IssueTypes, CommentShapes, ScanTypes, Scans, PollTypes
<1>3. OnePlace' /\ \A d \in Comments : OnItsWay(d)' <=> OnItsWay(d)
  BY DEF FeedbackInv, OnePlace, OnItsWay
<1>4. ~OnItsWay(c)
  BY <1>1 DEF FeedbackInv, FoundIsPast
<1>5. FoundIsPast'
  BY <1>1, <1>3, <1>4 DEF FeedbackInv, FoundIsPast
<1>6. F!Made' = F!Made \cup {c}
  BY <1>1 DEF F!Made, FeedbackInv, FeedbackTypes, IssueTypes, CommentShapes, ScanTypes,
     Scans, PollTypes
<1>7. c \notin pardoned' => planned /\ scan.pc \notin {"mark", "gone"}
                            /\ F!Second(comment'[c].at) > watchedAt
  BY <1>1, SecondBounds DEF FeedbackInv, FeedbackTypes, IssueTypes, CommentShapes,
     ScanTypes, Scans, PollTypes, F!Second
<1>8. \A d \in F!Made : d # c => (F!Wanted(d)' <=> F!Wanted(d))
                                 /\ F!Second(comment'[d].at) = F!Second(comment[d].at)
  BY <1>1 DEF F!Wanted, F!Kind, F!Made
<1>9. CommentsSlipNot'
  <2>1. pardoned \subseteq pardoned' /\ UNCHANGED <<planned, scan, watchedAt>>
    OBVIOUS
  <2>2. (~planned \/ scan.pc = "gone" => F!Made \subseteq pardoned)'
    BY <1>6, <1>7, <2>1 DEF FeedbackInv, CommentsSlipNot
  <2>3. ASSUME NEW d \in F!Made', d \notin pardoned', F!Wanted(d)'
        PROVE  (OnItsWay(d) \/ (F!Second(comment[d].at) > watchedAt /\ scan.pc # "mark"))'
    <3>1. CASE d = c
      BY <1>7, <2>1, <2>3, <3>1 DEF F!Second
    <3>2. CASE d # c
      <4>1. d \in F!Made /\ d \in Comments /\ F!Wanted(d) /\ d \notin pardoned
        BY <1>6, <1>8, <2>1, <2>3, <3>2 DEF F!Made
      <4>2. OnItsWay(d) \/ (F!Second(comment[d].at) > watchedAt /\ scan.pc # "mark")
        BY <4>1 DEF FeedbackInv, CommentsSlipNot
      <4>3. comment'[d].at = comment[d].at
        BY <1>1, <3>2, <4>1
      <4> QED
        BY <1>3, <2>1, <4>1, <4>2, <4>3 DEF F!Second
    <3> QED
      BY <3>1, <3>2
  <2> QED
    BY <2>2, <2>3 DEF CommentsSlipNot
<1> QED
  BY <1>2, <1>3, <1>5, <1>9 DEF FeedbackInv

LEMMA FeedbackStep == FeedbackInv /\ [F!FeedbackNext]_(F!feedbackVars) => FeedbackInv'
<1> SUFFICES ASSUME FeedbackInv, [F!FeedbackNext]_(F!feedbackVars) PROVE FeedbackInv'
  OBVIOUS
<1> USE DEF FeedbackInv, FeedbackTypes, IssueTypes, CommentShapes, ScanTypes, Scans,
            PollTypes, OnePlace, OnItsWay, FoundIsPast, CommentsSlipNot,
            F!Made, F!Wanted, F!Kind
<1>1. CASE F!FeedbackTick
  BY <1>1 DEF F!FeedbackTick
<1>2. CASE UNCHANGED F!feedbackVars
  BY <1>2 DEF F!feedbackVars
<1> HIDE DEF FeedbackInv, FeedbackTypes, IssueTypes, CommentShapes, ScanTypes, Scans,
             PollTypes, OnePlace, OnItsWay, FoundIsPast, CommentsSlipNot,
             F!Made, F!Wanted, F!Kind
<1> QED
  BY <1>1, <1>2, PlanFeedback, ScanFeedback, FetchFeedback, EmitFeedback, EndFeedback,
     TakeFeedback, GiveFeedback, CommentFeedback DEF F!FeedbackNext

\* A comment reaches the callback at most once however plans come and go, and a question
\* or a wish is missed for the reasons of F!pardoned only (CheckOnce and Start of
\* feedback.go, StartFeedbackPolling of auto_plan.go).
THEOREM CommentsAreKept == F!FeedbackSpec => [](F!GivenOnce /\ F!GivenOrToCome)
<1>1. FeedbackInv => F!GivenOnce
  BY DEF FeedbackInv, OnePlace, F!GivenOnce
<1>2. FeedbackInv => F!GivenOrToCome
  BY DEF FeedbackInv, FeedbackTypes, IssueTypes, CommentShapes, ScanTypes, Scans, PollTypes,
         CommentsSlipNot, OnItsWay, Within, F!Made, F!GivenOrToCome
<1> QED
  BY <1>1, <1>2, FeedbackStart, FeedbackStep, PTL DEF F!FeedbackSpec

-----------------------------------------------------------------------------
(* The three together, as the run checks them.                             *)

LEMMA AllStep ==
  EventInv /\ FeedbackInv /\ CleanupInv /\ [Next]_vars => (EventInv /\ FeedbackInv /\ CleanupInv)'
<1> SUFFICES ASSUME EventInv, FeedbackInv, CleanupInv, [Next]_vars
             PROVE  EventInv' /\ FeedbackInv' /\ CleanupInv'
  OBVIOUS
<1>1. [E!EventNext]_(E!eventVars)
  BY DEF Next, vars, eventVars, E!eventVars, E!githubVars
<1>2. [F!FeedbackNext]_(F!feedbackVars)
  BY DEF Next, vars, feedbackVars, F!feedbackVars
<1>3. [C!CleanupNext]_(C!cleanupVars)
  BY DEF Next, vars, cleanupVars, C!cleanupVars, C!githubVars
<1> QED
  BY <1>1, <1>2, <1>3, EventStep, FeedbackStep, CleanupStep

LEMMA AllStart == Init => EventInv /\ FeedbackInv /\ CleanupInv
BY EventStart, FeedbackStart, CleanupStart DEF Init

\* No watcher reports twice what it found once.
THEOREM NothingIsReportedTwice == Spec => []ReportedOnce
<1>1. EventInv /\ FeedbackInv /\ CleanupInv => ReportedOnce
  BY DEF EventInv, SeenOnce, E!PrintedOnce, FeedbackInv, OnePlace, F!GivenOnce,
         CleanupInv, MergesInTurn, C!HandledOnce, ReportedOnce
<1> QED
  BY <1>1, AllStart, AllStep, PTL DEF Spec

\* What happened before the last look of a watcher was reported or was missed for one of
\* the reasons the watchers give (excused, pardoned, spared).
THEOREM NothingIsMissedButForAReason == Spec => []MissedForAReason
<1>1. EventInv => E!MissedForAReason
  BY DEF EventInv, EventTypes, SeenOnce, NothingSlips, Open, E!MissedForAReason
<1>2. FeedbackInv => F!GivenOrToCome
  BY DEF FeedbackInv, FeedbackTypes, IssueTypes, CommentShapes, ScanTypes, Scans, PollTypes,
         CommentsSlipNot, OnItsWay, Within, F!Made, F!GivenOrToCome
<1>3. CleanupInv => C!HandledOrToCome
  BY DEF CleanupInv, MergesSlipNot, C!HandledOrToCome
<1> QED
  BY <1>1, <1>2, <1>3, AllStart, AllStep, PTL DEF Spec, MissedForAReason

\* Work that is not merged loses its worktree for the reason of C!risky only
\* (CleanupForBranch).
THEOREM UnmergedWorkIsKept == Spec => []OnlyRiskyWorkIsLost
<1>1. CleanupInv => C!OnlyRiskyWorkIsLost
  BY DEF CleanupInv, WorkInTurn, C!OnlyRiskyWorkIsLost
<1> QED
  BY <1>1, AllStart, AllStep, PTL DEF Spec, OnlyRiskyWorkIsLost
=============================================================================
