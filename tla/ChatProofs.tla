----------------------------- MODULE ChatProofs -----------------------------
(***************************************************************************)
(* Theorems of the conversation: of Chain for every finite set of agents   *)
(* and every length of a chain, of Memory for every set of programs, of    *)
(* Slack for every number of posts, and those of Worker carried over.      *)
(***************************************************************************)
EXTENDS MCChat, TLAPS, FiniteSetTheorems, SequenceTheorems

-----------------------------------------------------------------------------
(* The chains of the TUI.  A command under way is an element of a bag.     *)

AskTypes == \A k \in DOMAIN asked : asked[k] \in Nat \ {0}

ChainInv == AskTypes /\ C!ThinkingIsAsked

LEMMA ChainStart == C!ChainInit => ChainInv
BY DEF C!ChainInit, ChainInv, AskTypes, C!ThinkingIsAsked, C!EmptyBag, C!SetToBag, C!BagToSet

LEMMA BagPlus ==
  ASSUME AskTypes, NEW more, \A k \in DOMAIN more : more[k] \in Nat \ {0},
         asked' = C!\oplus(asked, more)
  PROVE  AskTypes' /\ DOMAIN asked' = DOMAIN asked \cup DOMAIN more
BY DEF AskTypes, C!\oplus

LEMMA BagLess ==
  ASSUME AskTypes, NEW k \in DOMAIN asked,
         NEW rest, rest = C!\ominus(asked, C!SetToBag({k}))
  PROVE  /\ \A j \in DOMAIN rest : rest[j] \in Nat \ {0}
         /\ DOMAIN asked \ {k} \subseteq DOMAIN rest /\ DOMAIN rest \subseteq DOMAIN asked
BY DEF AskTypes, C!\ominus, C!SetToBag

\* Who is asked at the start of a chain is asked itself, not mei instead.
LEMMA FirstAsk == \A a : C!Ask(a, 0).by = a
BY DEF C!Ask, C!AskedOne, C!Intervenes

\* What is asked besides, by the owner or a timer.
LEMMA MoreAsked ==
  ASSUME ChainInv, NEW asks, asked' = C!\oplus(asked, C!SetToBag(asks)),
         processing' \subseteq processing \cup {k.by : k \in asks},
         UNCHANGED <<displaced, lost>>
  PROVE  ChainInv'
<1>1. AskTypes' /\ DOMAIN asked' = DOMAIN asked \cup asks
  <2>1. \A k \in DOMAIN C!SetToBag(asks) : C!SetToBag(asks)[k] \in Nat \ {0}
    BY DEF C!SetToBag
  <2>2. DOMAIN C!SetToBag(asks) = asks
    BY DEF C!SetToBag
  <2> QED
    BY <2>1, <2>2, BagPlus DEF ChainInv
<1> QED
  BY <1>1 DEF ChainInv, C!ThinkingIsAsked, C!BagToSet

\* The command of ask k is over: who else is thinking is asked or accounted for as
\* before, and so is who is asked next.
LEMMA NextAsked ==
  ASSUME ChainInv, NEW k \in DOMAIN asked, NEW depth,
         NEW targets, IsFiniteSet(targets), C!RunAgentAsync(k, targets, depth),
         processing' \subseteq (processing \ {k.by}) \cup targets
  PROVE  ChainInv'
<1> DEFINE rest == C!\ominus(asked, C!SetToBag({k}))
           asks == {C!Ask(a, depth) : a \in targets}
           more == [j \in asks |-> C!Cardinality({a \in targets : C!Ask(a, depth) = j})]
<1>1. asked' = C!\oplus(rest, more)
  BY DEF C!RunAgentAsync
<1>2. \A j \in DOMAIN more : more[j] \in Nat \ {0}
  <2> SUFFICES ASSUME NEW j \in asks
               PROVE  C!Cardinality({a \in targets : C!Ask(a, depth) = j}) \in Nat \ {0}
    OBVIOUS
  <2> DEFINE who == {a \in targets : C!Ask(a, depth) = j}
  <2>1. IsFiniteSet(who)
    BY FS_Subset
  <2>2. Cardinality(who) \in Nat /\ (Cardinality(who) = 0 <=> who = {})
    BY <2>1, FS_CardinalityType, FS_EmptySet
  <2>3. who # {}
    OBVIOUS
  <2>4. C!Cardinality(who) = Cardinality(who)
    BY Zenon DEF C!Cardinality, Cardinality
  <2> QED
    BY <2>2, <2>3, <2>4
<1>3. /\ \A j \in DOMAIN rest : rest[j] \in Nat \ {0}
      /\ DOMAIN asked \ {k} \subseteq DOMAIN rest
  BY BagLess DEF ChainInv
<1>4. AskTypes' /\ DOMAIN asked' = DOMAIN rest \cup asks
  <2> HIDE DEF rest
  <2>1. DOMAIN more = asks
    OBVIOUS
  <2> HIDE DEF more
  <2> QED
    BY <1>1, <1>2, <1>3, <2>1 DEF AskTypes, C!\oplus
<1>5. /\ displaced' = (displaced \ {k.by}) \cup {a \in targets : C!Intervenes(a, depth)}
      /\ lost' = lost \ {k.by}
  BY DEF C!RunAgentAsync
<1>6. ASSUME NEW a \in processing'
      PROVE  (\E j \in DOMAIN asked' : j.by = a) \/ a \in displaced' \/ a \in lost'
  <2>1. CASE a \in targets
    <3>1. C!Intervenes(a, depth) \/ C!Ask(a, depth).by = a
      BY DEF C!Ask, C!AskedOne
    <3> QED
      BY <1>4, <1>5, <2>1, <3>1
  <2>2. CASE a \in processing /\ a # k.by
    <3>1. (\E j \in DOMAIN asked : j.by = a) \/ a \in displaced \/ a \in lost
      BY <2>2 DEF ChainInv, C!ThinkingIsAsked, C!BagToSet
    <3>2. ASSUME NEW j \in DOMAIN asked, j.by = a PROVE j \in DOMAIN asked'
      BY <1>3, <1>4, <2>2, <3>2
    <3> QED
      BY <1>5, <2>2, <3>1, <3>2
  <2> QED
    BY <2>1, <2>2
<1> QED
  BY <1>4, <1>6 DEF ChainInv, C!ThinkingIsAsked, C!BagToSet

LEMMA ChainStep == ChainInv /\ [C!ChainNext]_(C!chainVars) => ChainInv'
<1> SUFFICES ASSUME ChainInv, [C!ChainNext]_(C!chainVars) PROVE ChainInv'
  OBVIOUS
<1>1. CASE \/ C!Clear \/ C!ChangeMode \/ C!ResetAuto \/ C!TimePasses \/ UNCHANGED C!chainVars
  <2>1. /\ asked' = asked
        /\ processing' = {} \/ UNCHANGED <<processing, displaced, lost>>
    BY <1>1 DEF C!Clear, C!ChangeMode, C!ResetAuto, C!TimePasses, C!chainVars
  <2> QED
    BY <2>1 DEF ChainInv, AskTypes, C!ThinkingIsAsked, C!BagToSet
<1>2. CASE C!Enter
  <2>1. PICK targets :
          /\ processing' = processing \cup targets
          /\ asked' = C!\oplus(asked, C!SetToBag({C!Ask(a, 0) : a \in targets}))
          /\ UNCHANGED <<displaced, lost>>
    BY <1>2, Zenon DEF C!Enter
  <2>2. targets \subseteq {k.by : k \in {C!Ask(a, 0) : a \in targets}}
    BY FirstAsk
  <2> QED
    BY <2>1, <2>2, MoreAsked
<1>3. CASE C!AnalysisTick
  <2> DEFINE k == [by |-> Amara, depth |-> 0, kind |-> "analysis"]
  <2>1. /\ processing' = processing \cup {k.by}
        /\ asked' = C!\oplus(asked, C!SetToBag({k})) /\ UNCHANGED <<displaced, lost>>
    BY <1>3 DEF C!AnalysisTick
  <2> QED
    BY <2>1, MoreAsked
<1>4. CASE C!IssueWatcherNotify
  BY <1>4, MoreAsked DEF C!IssueWatcherNotify
<1>5. ASSUME NEW k \in C!BagToSet(asked), C!AgentResponse(k)
      PROVE  ChainInv'
  <2>1. k \in DOMAIN asked
    BY <1>5 DEF C!BagToSet
  <2>2. CASE C!RespondError(k)
    <3>1. \/ C!RunAgentAsync(k, {Pm}, 0) /\ processing' = (processing \ {k.by}) \cup {Pm}
          \/ C!RunAgentAsync(k, {}, 0) /\ processing' = processing \ {k.by}
      BY <2>2 DEF C!RespondError
    <3> QED
      BY <2>1, <3>1, NextAsked, FS_EmptySet, FS_Singleton
  <2>3. CASE C!Respond(k)
    <3>1. PICK targets \in {{k.by}} \cup SUBSET Agents :
            /\ C!RunAgentAsync(k, targets, k.depth + 1)
            /\ processing' = (processing \ {k.by}) \cup targets
      <4>1. PICK named \in SUBSET Agents, mentions \in BOOLEAN :
              IF C!Retries(k.by, mentions)
              THEN /\ processing' = processing \cup {k.by}
                   /\ C!RunAgentAsync(k, {k.by}, k.depth + 1)
              ELSE LET others == processing \ {k.by}
                       next == C!DetectAgentMentions(k, named) \ others IN
                   /\ processing' = others \cup next
                   /\ C!RunAgentAsync(k, next, k.depth + 1)
        BY <2>3, Zenon DEF C!Respond
      <4>2. C!DetectAgentMentions(k, named) \subseteq Agents
        BY DEF C!DetectAgentMentions
      <4> QED
        BY <4>1, <4>2
    <3>2. IsFiniteSet(targets)
      BY FS_Singleton, FS_Subset, ChatAssumption
    <3> QED
      BY <2>1, <3>1, <3>2, NextAsked
  <2> QED
    BY <1>5, <2>2, <2>3 DEF C!AgentResponse
<1>6. ASSUME NEW k \in C!BagToSet(asked), C!Lose(k)
      PROVE  ChainInv'
  <2>1. k \in DOMAIN asked
    BY <1>6 DEF C!BagToSet
  <2>2. /\ asked' = C!\ominus(asked, C!SetToBag({k})) /\ lost' = lost \cup {k.by}
        /\ UNCHANGED <<processing, displaced>>
    BY <1>6 DEF C!Lose
  <2>3. AskTypes' /\ DOMAIN asked \ {k} \subseteq DOMAIN asked'
    BY <2>1, <2>2, BagLess DEF ChainInv, AskTypes
  <2> QED
    BY <2>2, <2>3 DEF ChainInv, C!ThinkingIsAsked, C!BagToSet
<1> QED
  BY <1>1, <1>2, <1>3, <1>4, <1>5, <1>6, Zenon DEF C!ChainNext

-----------------------------------------------------------------------------
(* The memory.  Between the write of the file beside the history and its   *)
(* renaming that file is the program's own as long as no other one runs.   *)

MemoryTypes ==
    /\ file \in {M!None, M!Torn} \/ file = M!Whole(file.messages)
    /\ tmp \in {M!None, M!Torn} \/ tmp = M!Whole(tmp.messages)
    /\ DOMAIN messages = Programs
    /\ saver \in [Programs -> {"off", "idle", "save", "write", "rename"}]
    /\ dirty \in [Programs -> BOOLEAN]

Saved ==
    ~shared =>
        /\ file # M!Torn
        /\ \A p, q \in M!Running : p = q
        /\ \A p \in Programs : saver[p] = "rename" => tmp = M!Whole(messages[p])
        /\ \A p \in Programs : saver[p] = "idle" /\ ~dirty[p] => file = M!Whole(messages[p])

MemoryInv == MemoryTypes /\ Saved

LEMMA FilesApart == /\ M!None # M!Torn
                    /\ \A all : M!Whole(all) \notin {M!None, M!Torn}
                    /\ \A all : M!Whole(all).messages = all
BY DEF M!None, M!Torn, M!Whole

LEMMA MemoryStart == M!MemoryInit => MemoryInv
BY FilesApart DEF M!MemoryInit, MemoryInv, MemoryTypes, Saved, M!Running

\* Steps that change the messages, and those that begin a write, finish it or give up.
LEMMA SaveSteps ==
  ASSUME MemoryInv, NEW p \in Programs,
         M!Add(p) \/ M!Clear(p) \/ M!TrimToSize(p) \/ M!WriteBegin(p) \/ M!WriteEnd(p)
           \/ M!WriteFails(p)
  PROVE  MemoryInv'
<1>1. /\ saver[p] # "off" /\ UNCHANGED <<file, shared>>
      /\ \A q \in Programs \ {p} : messages'[q] = messages[q]
      /\ DOMAIN messages' = Programs
      /\ \/ saver' = [saver EXCEPT ![p] = "save"] /\ UNCHANGED <<tmp, dirty>>
         \/ saver' = [saver EXCEPT ![p] = "write"] /\ tmp' = M!Torn /\ UNCHANGED dirty
         \/ /\ saver' = [saver EXCEPT ![p] = "rename"] /\ UNCHANGED <<messages, dirty>>
            /\ tmp' = M!Whole(messages[p])
         \/ /\ saver' = [saver EXCEPT ![p] = "idle"] /\ UNCHANGED <<messages, tmp>>
            /\ dirty' = [dirty EXCEPT ![p] = TRUE]
  BY DEF M!Add, M!Clear, M!TrimToSize, M!WriteBegin, M!WriteEnd, M!WriteFails, M!Changed,
         M!Settled, M!SaverAt, MemoryInv, MemoryTypes
<1>2. MemoryTypes'
  BY <1>1, FilesApart DEF MemoryInv, MemoryTypes
<1>3. ASSUME ~shared' PROVE \A q \in Programs \ {p} : saver[q] = "off" /\ saver'[q] = "off"
  BY <1>1, <1>3 DEF MemoryInv, MemoryTypes, Saved, M!Running
<1>4. M!Running' = M!Running
  BY <1>1 DEF MemoryInv, MemoryTypes, M!Running
<1> QED
  BY <1>1, <1>2, <1>3, <1>4 DEF MemoryInv, MemoryTypes, Saved

LEMMA RenameStep ==
  ASSUME MemoryInv, NEW p \in Programs, M!Rename(p)
  PROVE  MemoryInv'
<1>1. /\ saver[p] = "rename" /\ saver' = [saver EXCEPT ![p] = "idle"]
      /\ UNCHANGED <<messages, shared>>
      /\ \/ UNCHANGED <<file, tmp>> /\ dirty' = [dirty EXCEPT ![p] = TRUE]
         \/ file' = tmp /\ tmp' = M!None /\ dirty' = [dirty EXCEPT ![p] = FALSE]
  BY DEF M!Rename, M!Settled, M!SaverAt
<1>2. ASSUME ~shared PROVE \A q \in Programs \ {p} : saver[q] = "off"
  BY <1>1, <1>2 DEF MemoryInv, MemoryTypes, Saved, M!Running
<1>3. M!Running' = M!Running
  BY <1>1 DEF MemoryInv, MemoryTypes, M!Running
<1>4. ~shared => tmp = M!Whole(messages[p])
  BY <1>1 DEF MemoryInv, Saved
<1>5. MemoryTypes'
  BY <1>1, FilesApart DEF MemoryInv, MemoryTypes
<1> QED
  BY <1>1, <1>2, <1>3, <1>4, <1>5, FilesApart DEF MemoryInv, MemoryTypes, Saved

LEMMA OpenStep ==
  ASSUME MemoryInv, NEW p \in Programs, M!Open(p) \/ M!Crash(p) \/ M!BuildPrompt(p)
  PROVE  MemoryInv'
<1>1. CASE M!Open(p)
  <2>1. /\ saver[p] = "off" /\ file # M!Torn /\ UNCHANGED <<file, tmp>>
        /\ messages' = [messages EXCEPT ![p] = file.messages]
        /\ dirty' = [dirty EXCEPT ![p] = (file = M!None)]
        /\ saver' = [saver EXCEPT ![p] = "idle"]
        /\ shared' = (shared \/ M!Running # {})
    BY <1>1 DEF M!Open, M!SaverAt
  <2>2. file = M!None \/ file = M!Whole(file.messages)
    BY <2>1 DEF MemoryInv, MemoryTypes
  <2>3. ~shared' => ~shared /\ \A q \in Programs : saver[q] = "off"
    BY <2>1 DEF M!Running
  <2> QED
    BY <2>1, <2>2, <2>3 DEF MemoryInv, MemoryTypes, Saved, M!Running
<1>2. CASE M!Crash(p)
  BY <1>2 DEF M!Crash, M!SaverAt, MemoryInv, MemoryTypes, Saved, M!Running
<1>3. CASE M!BuildPrompt(p)
  BY <1>3 DEF M!BuildPrompt, MemoryInv, MemoryTypes, Saved, M!Running
<1> QED
  BY <1>1, <1>2, <1>3

LEMMA MemoryStep == MemoryInv /\ [M!MemoryNext]_(M!memoryVars) => MemoryInv'
<1> SUFFICES ASSUME MemoryInv, [M!MemoryNext]_(M!memoryVars) PROVE MemoryInv'
  OBVIOUS
<1>1. CASE UNCHANGED M!memoryVars
  BY <1>1 DEF M!memoryVars, MemoryInv, MemoryTypes, Saved, M!Running
<1>2. CASE M!MemoryNext
  BY <1>2, SaveSteps, RenameStep, OpenStep, Zenon DEF M!MemoryNext
<1> QED
  BY <1>1, <1>2

-----------------------------------------------------------------------------
(* The Slack bridge.  What is in a sequence is counted.                    *)

Places(s, i) == {k \in DOMAIN s : s[k] = i}
Count(s, i) == Cardinality(Places(s, i))

LEMMA CountType ==
  ASSUME NEW s \in Seq(Nat), NEW i
  PROVE  /\ IsFiniteSet(Places(s, i)) /\ Count(s, i) \in Nat
         /\ Count(s, i) = 0 <=> \A k \in DOMAIN s : s[k] # i
<1>1. DOMAIN s = 1 .. Len(s) /\ Len(s) \in Nat
  OBVIOUS
<1>2. IsFiniteSet(Places(s, i))
  <2>1. Places(s, i) \subseteq 1 .. Len(s)
    BY <1>1 DEF Places
  <2>2. IsFiniteSet(1 .. Len(s))
    BY <1>1, FS_Interval
  <2> QED
    BY <2>1, <2>2, FS_Subset
<1>3. Count(s, i) \in Nat /\ (Count(s, i) = 0 <=> Places(s, i) = {})
  BY <1>2, FS_CardinalityType, FS_EmptySet DEF Count
<1> QED
  BY <1>2, <1>3 DEF Places

LEMMA CountAppend ==
  ASSUME NEW s \in Seq(Nat), NEW m \in Nat, NEW i
  PROVE  Count(Append(s, m), i) = Count(s, i) + (IF m = i THEN 1 ELSE 0)
<1> DEFINE n == Len(s) + 1
<1>1. /\ DOMAIN s = 1 .. Len(s) /\ Len(s) \in Nat /\ DOMAIN Append(s, m) = 1 .. n
      /\ \A k \in 1 .. Len(s) : Append(s, m)[k] = s[k]
      /\ Append(s, m)[n] = m
  OBVIOUS
<1>2. IsFiniteSet(Places(s, i)) /\ Count(s, i) \in Nat
  BY CountType
<1> n \notin Places(s, i)
  BY <1>1 DEF Places
<1>3. CASE m = i
  <2>1. Places(Append(s, m), i) = Places(s, i) \cup {n}
    BY <1>1, <1>3 DEF Places
  <2> QED
    BY <1>2, <1>3, <2>1, FS_AddElement DEF Count
<1>4. CASE m # i
  <2>1. Places(Append(s, m), i) = Places(s, i)
    BY <1>1, <1>4 DEF Places
  <2> QED
    BY <1>2, <1>4, <2>1 DEF Count
<1> QED
  BY <1>3, <1>4

LEMMA CountTail ==
  ASSUME NEW s \in Seq(Nat), s # <<>>, NEW i
  PROVE  Count(s, i) = Count(Tail(s), i) + (IF Head(s) = i THEN 1 ELSE 0)
<1> DEFINE rest == Tail(s)
           later == Places(s, i) \ {1}
           move == [k \in Places(rest, i) |-> k + 1]
<1>1. /\ DOMAIN s = 1 .. Len(s) /\ Len(s) \in Nat \ {0} /\ rest \in Seq(Nat)
      /\ DOMAIN rest = 1 .. Len(s) - 1 /\ Head(s) = s[1]
      /\ \A k \in 1 .. Len(s) - 1 : rest[k] = s[k + 1]
  BY HeadTailProperties, EmptySeq
<1>2. IsFiniteSet(Places(rest, i)) /\ IsFiniteSet(Places(s, i)) /\ Count(rest, i) \in Nat
  BY <1>1, CountType
<1>3. move \in Bijection(Places(rest, i), later)
  <2>1. /\ move \in [Places(rest, i) -> later]
        /\ \A j, k \in DOMAIN move : move[j] = move[k] => j = k
    BY <1>1 DEF Places
  <2>2. ASSUME NEW k \in later PROVE \E j \in Places(rest, i) : move[j] = k
    <3>1. k - 1 \in Places(rest, i) /\ (k - 1) + 1 = k
      BY <1>1 DEF Places
    <3> QED
      BY <3>1
  <2> HIDE DEF move, later
  <2> QED
    BY <2>1, <2>2, Zenon DEF Bijection, Injection, IsInjective, Surjection
<1>4. IsFiniteSet(later) /\ Cardinality(later) = Count(rest, i)
  BY <1>2, <1>3, FS_Bijection DEF Count, ExistsBijection
<1>5. CASE Head(s) = i
  <2>1. Places(s, i) = later \cup {1} /\ 1 \notin later
    BY <1>1, <1>5 DEF Places
  <2> HIDE DEF later
  <2> QED
    BY <1>2, <1>4, <1>5, <2>1, FS_AddElement DEF Count
<1>6. CASE Head(s) # i
  <2>1. Places(s, i) = later
    BY <1>1, <1>6 DEF Places
  <2> HIDE DEF later
  <2> QED
    BY <1>2, <1>4, <1>6, <2>1 DEF Count
<1> QED
  BY <1>5, <1>6

LEMMA LongerSeq ==
  ASSUME NEW n \in Nat, NEW m \in Nat, n <= m, NEW s \in Seq(1 .. n)
  PROVE  s \in Seq(1 .. m) /\ s \in Seq(Nat)
<1>1. 1 .. n \subseteq 1 .. m /\ 1 .. n \subseteq Nat
  OBVIOUS
<1> QED
  BY <1>1, SeqMonotonic

Said == {posts[k] : k \in DOMAIN posts}

SlackTypes ==
    /\ posts \in Seq(Said) /\ Len(posts) <= MaxPosts /\ heard \in 0 .. Len(posts)
    /\ queue \in Seq(1 .. heard) /\ pending \in Seq(1 .. heard)
    /\ adder.saw \in Seq(1 .. heard)
    /\ \/ adder.at = "append" /\ adder.message \in 1 .. heard
       \/ adder.at \in {"idle", "ended"} /\ adder.message = 0
    /\ taken \in [S!Timers -> Seq(1 .. heard)]
    /\ answers \in [S!Messages -> Nat]
    /\ raced \in BOOLEAN

\* How often a message is with the bridge or was handed over.
Hands(i) == answers[i] + Count(queue, i) + Count(pending, i)
              + (IF adder.message = i THEN 1 ELSE 0)

InOneHand ==
    ~raced => \A i \in 1 .. heard : S!Accepted(posts[i]) => Hands(i) = 1

NotYet == \A i \in S!Messages : i > heard => answers[i] = 0

SlackInv == SlackTypes /\ InOneHand /\ NotYet

LEMMA MessagesAreNumbers == MaxPosts \in Nat /\ S!Messages = 1 .. MaxPosts
BY ChatAssumption DEF ChatAssumption, S!Messages

LEMMA SlackStart == S!SlackInit => SlackInv
<1> SUFFICES ASSUME S!SlackInit PROVE SlackInv
  OBVIOUS
<1>1. \A A : <<>> \in Seq(A)
  BY EmptySeq
<1>2. Len(posts) = 0 /\ heard = 0 /\ posts \in Seq(Said)
  BY <1>1 DEF S!SlackInit
<1>3. SlackTypes
  <2>1. /\ queue = <<>> /\ pending = <<>> /\ adder.saw = <<>> /\ adder.at = "idle"
        /\ adder.message = 0 /\ raced = FALSE /\ Len(posts) <= MaxPosts
        /\ taken = [t \in S!Timers |-> <<>>] /\ answers = [i \in S!Messages |-> 0]
    BY <1>2, MessagesAreNumbers DEF S!SlackInit, S!Idle
  <2>2. /\ queue \in Seq(1 .. heard) /\ pending \in Seq(1 .. heard)
        /\ adder.saw \in Seq(1 .. heard) /\ taken \in [S!Timers -> Seq(1 .. heard)]
    BY <1>1, <2>1
  <2>3. answers \in [S!Messages -> Nat] /\ heard \in 0 .. Len(posts)
    BY <1>2, <2>1
  <2> QED
    BY <1>2, <2>1, <2>2, <2>3 DEF SlackTypes
<1>4. InOneHand /\ NotYet
  BY <1>2 DEF S!SlackInit, InOneHand, NotYet
<1> QED
  BY <1>3, <1>4 DEF SlackInv

LEMMA SayFacts ==
  ASSUME SlackTypes, \/ posts' = posts
                     \/ \E m : posts' = Append(posts, m) /\ Len(posts) < MaxPosts
  PROVE  /\ posts' \in Seq(Said') /\ Len(posts') <= MaxPosts
         /\ Len(posts) \in Nat /\ Len(posts') \in Nat /\ Len(posts) <= Len(posts')
         /\ \A k \in 1 .. Len(posts) : posts'[k] = posts[k]
<1>1. CASE posts' = posts
  BY <1>1, LenProperties DEF SlackTypes, Said
<1>2. ASSUME NEW m, posts' = Append(posts, m), Len(posts) < MaxPosts
      PROVE  /\ posts' \in Seq(Said') /\ Len(posts') <= MaxPosts
             /\ Len(posts) \in Nat /\ Len(posts') \in Nat /\ Len(posts) <= Len(posts')
             /\ \A k \in 1 .. Len(posts) : posts'[k] = posts[k]
  <2>1. posts \in Seq(Said \cup {m})
    BY SeqMonotonic DEF SlackTypes
  <2>2. /\ Len(posts) \in Nat /\ posts' \in Seq(Said \cup {m}) /\ Len(posts') = Len(posts) + 1
        /\ \A k \in 1 .. Len(posts) : posts'[k] = posts[k]
    BY <1>2, <2>1, AppendProperties, LenProperties
  <2>3. DOMAIN posts' = 1 .. Len(posts') /\ posts' = [k \in 1 .. Len(posts') |-> posts'[k]]
    BY <2>2, LenProperties
  <2>4. posts' \in [1 .. Len(posts') -> Said']
    BY <2>3 DEF Said
  <2>5. posts' \in Seq(Said')
    BY <2>2, <2>4, SeqDef
  <2> QED
    BY <1>2, <2>2, <2>5, ChatAssumption
<1> QED
  BY <1>1, <1>2

\* Steps that move no message.
LEMMA NothingMoves ==
  ASSUME SlackInv, UNCHANGED <<heard, queue, pending, adder, answers, raced>>,
         taken' \in [S!Timers -> Seq(1 .. heard)],
         \/ posts' = posts
         \/ \E m : posts' = Append(posts, m) /\ Len(posts) < MaxPosts
  PROVE  SlackInv'
<1>1. SlackTypes'
  BY SayFacts DEF SlackInv, SlackTypes
<1>2. \A i \in 1 .. heard : posts'[i] = posts[i]
  BY SayFacts DEF SlackInv, SlackTypes
<1> QED
  BY <1>1, <1>2 DEF SlackInv, InOneHand, NotYet, Hands

LEMMA HandTypes ==
  ASSUME SlackInv, NEW i \in 1 .. heard
  PROVE  /\ i \in S!Messages /\ answers[i] \in Nat
         /\ Count(queue, i) \in Nat /\ Count(pending, i) \in Nat
<1>1. heard \in Nat /\ Len(posts) \in Nat
  BY LenProperties DEF SlackInv, SlackTypes
<1>2. i \in S!Messages
  BY <1>1, MessagesAreNumbers DEF SlackInv, SlackTypes
<1>3. queue \in Seq(Nat) /\ pending \in Seq(Nat)
  BY <1>1, LongerSeq DEF SlackInv, SlackTypes
<1> QED
  BY <1>2, <1>3, CountType DEF SlackInv, SlackTypes

\* The socket goroutine: what is taken up is in the queue, what is not is nowhere.
LEMMA EventComes == ASSUME SlackInv, S!HandleMessageEvent PROVE SlackInv'
<1> DEFINE n == heard + 1
<1>1. /\ heard \in Nat /\ n \in 1 .. Len(posts) /\ heard' = n /\ Len(posts) \in Nat
      /\ UNCHANGED <<posts, pending, adder, taken, answers, raced>>
      /\ queue' = IF S!Accepted(posts[n]) THEN Append(queue, n) ELSE queue
  BY LenProperties DEF S!HandleMessageEvent, SlackInv, SlackTypes
<1>2. /\ queue \in Seq(1 .. n) /\ queue \in Seq(Nat)
      /\ pending \in Seq(1 .. n) /\ pending \in Seq(Nat)
      /\ adder.saw \in Seq(1 .. n) /\ taken \in [S!Timers -> Seq(1 .. n)]
  BY <1>1, LongerSeq DEF SlackInv, SlackTypes
<1>3. queue' \in Seq(1 .. n)
  <2>1. n \in 1 .. n
    BY <1>1
  <2>2. Append(queue, n) \in Seq(1 .. n)
    BY <1>2, <2>1, AppendProperties
  <2> QED
    BY <1>1, <1>2, <2>2
<1>4. SlackTypes'
  BY <1>1, <1>2, <1>3 DEF SlackInv, SlackTypes, Said
<1>5. NotYet'
  BY <1>1, MessagesAreNumbers DEF SlackInv, NotYet
<1>6. ASSUME ~raced', NEW i \in 1 .. n, S!Accepted(posts[i])
      PROVE  Hands(i)' = 1
  <2>1. CASE i = n
    <3>1. n \in S!Messages /\ answers[n] = 0
      BY <1>1, MessagesAreNumbers DEF SlackInv, SlackTypes, NotYet
    <3>2. \A s \in Seq(1 .. heard) : s \in Seq(Nat) /\ \A k \in DOMAIN s : s[k] # n
      BY <1>1, LongerSeq
    <3>3. Count(queue, n) = 0 /\ Count(pending, n) = 0
      BY <3>2, CountType DEF SlackInv, SlackTypes
    <3>4. adder.message # n
      BY <1>1 DEF SlackInv, SlackTypes
    <3>5. Count(queue', n) = 1
      BY <1>1, <1>2, <1>6, <2>1, <3>3, CountAppend
    <3> QED
      BY <1>1, <2>1, <3>1, <3>3, <3>4, <3>5 DEF Hands
  <2>2. CASE i # n
    <3>1. Count(queue', i) = Count(queue, i)
      <4>1. n # i /\ n \in Nat
        BY <1>1, <2>2
      <4>2. Count(Append(queue, n), i) = Count(queue, i)
        BY <1>2, <4>1, CountAppend, CountType
      <4> QED
        BY <1>1, <4>2
    <3>2. i \in 1 .. heard
      BY <1>1, <2>2
    <3> QED
      BY <1>1, <1>6, <3>1, <3>2 DEF SlackInv, InOneHand, Hands
  <2> QED
    BY <2>1, <2>2
<1> QED
  BY <1>1, <1>4, <1>5, <1>6 DEF SlackInv, InOneHand, S!Accepted

\* The first of the queue goes to processMessages, which appends it to what it saw.
LEMMA MessagesWait ==
  ASSUME SlackInv, S!ProcessMessage \/ S!AppendMessage \/ S!ProcessEnds
  PROVE  SlackInv'
<1>1. /\ heard \in Nat /\ queue \in Seq(Nat) /\ pending \in Seq(Nat) /\ adder.saw \in Seq(Nat)
      /\ \A i \in 1 .. heard : Count(queue, i) \in Nat /\ Count(pending, i) \in Nat
  <2>1. heard \in Nat
    BY LenProperties DEF SlackInv, SlackTypes
  <2>2. queue \in Seq(Nat) /\ pending \in Seq(Nat) /\ adder.saw \in Seq(Nat)
    BY <2>1, LongerSeq DEF SlackInv, SlackTypes
  <2> QED
    BY <2>1, <2>2, CountType
<1>2. CASE S!ProcessMessage
  <2>1. /\ adder.at = "idle" /\ queue # <<>> /\ queue' = Tail(queue)
        /\ adder' = [at |-> "append", message |-> Head(queue), saw |-> pending]
        /\ UNCHANGED <<posts, heard, pending, taken, answers, raced>>
    BY <1>2 DEF S!ProcessMessage
  <2>2. queue' \in Seq(1 .. heard) /\ Head(queue) \in 1 .. heard
    BY <2>1, HeadTailProperties DEF SlackInv, SlackTypes
  <2>3. SlackTypes'
    BY <2>1, <2>2 DEF SlackInv, SlackTypes, Said
  <2>4. ASSUME NEW i \in 1 .. heard PROVE Hands(i)' = Hands(i)
    <3>1. Count(queue, i) = Count(queue', i) + (IF Head(queue) = i THEN 1 ELSE 0)
      BY <1>1, <2>1, CountTail
    <3>2. adder.message # i
      BY <2>1 DEF SlackInv, SlackTypes
    <3>3. queue' \in Seq(Nat) /\ Count(queue', i) \in Nat
      BY <1>1, <2>2, LongerSeq, CountType
    <3>4. answers[i] \in Nat /\ Count(pending, i) \in Nat
      BY <1>1, HandTypes
    <3> QED
      <4>1. adder'.message = Head(queue)
        BY <2>1
      <4> QED
        BY <2>1, <3>1, <3>2, <3>3, <3>4, <4>1 DEF Hands
  <2> QED
    BY <2>1, <2>3, <2>4 DEF SlackInv, InOneHand, NotYet
<1>3. CASE S!AppendMessage
  <2>1. /\ adder.at = "append" /\ adder' = S!Idle
        /\ pending' = Append(adder.saw, adder.message)
        /\ raced' = (raced \/ pending # adder.saw)
        /\ UNCHANGED <<posts, heard, queue, taken, answers>>
    BY <1>3 DEF S!AppendMessage
  <2>2. adder.message \in 1 .. heard
    BY <2>1 DEF SlackInv, SlackTypes
  <2>3. SlackTypes'
    <3>1. pending' \in Seq(1 .. heard) /\ <<>> \in Seq(1 .. heard)
      BY <2>1, <2>2, AppendProperties, EmptySeq DEF SlackInv, SlackTypes
    <3> QED
      BY <1>1, <2>1, <3>1 DEF SlackInv, SlackTypes, Said, S!Idle
  <2>4. ASSUME NEW i \in 1 .. heard, ~raced' PROVE ~raced /\ Hands(i)' = Hands(i)
    <3>1. ~raced /\ pending' = Append(pending, adder.message)
      BY <2>1, <2>4
    <3>2. Count(pending', i) = Count(pending, i) + (IF adder.message = i THEN 1 ELSE 0)
      BY <1>1, <2>2, <3>1, CountAppend, SMTT(30)
    <3> QED
      <4>1. adder'.message = 0
        BY <2>1 DEF S!Idle
      <4>2. /\ i # 0 /\ answers[i] \in Nat
            /\ Count(queue, i) \in Nat /\ Count(pending, i) \in Nat
        BY <1>1, HandTypes
      <4> QED
        BY <2>1, <3>1, <3>2, <4>1, <4>2 DEF Hands
  <2> QED
    BY <2>1, <2>3, <2>4 DEF SlackInv, InOneHand, NotYet
<1>4. CASE S!ProcessEnds
  <2>1. /\ adder.at = "idle" /\ adder' = [S!Idle EXCEPT !.at = "ended"]
        /\ UNCHANGED <<posts, heard, queue, pending, taken, answers, raced>>
    BY <1>4 DEF S!ProcessEnds
  <2>2. <<>> \in Seq(1 .. heard)
    BY EmptySeq
  <2>3. SlackTypes'
    BY <1>1, <2>1, <2>2 DEF SlackInv, SlackTypes, Said, S!Idle
  <2>4. adder.message = 0 /\ adder'.message = 0
    BY <2>1 DEF SlackInv, SlackTypes, S!Idle
  <2> QED
    BY <2>1, <2>3, <2>4 DEF SlackInv, InOneHand, NotYet, Hands
<1> QED
  BY <1>2, <1>3, <1>4

\* The function of a timer hands over what it has taken, which is what is pending, unless
\* processMessages has been there in between.
LEMMA HandedOver == ASSUME SlackInv, NEW t \in S!Timers, S!Forget(t) PROVE SlackInv'
<1>1. /\ pending' = <<>> /\ raced' = (raced \/ pending # taken[t])
      /\ answers' = [i \in S!Messages |-> answers[i]
                        + IF \E k \in DOMAIN taken[t] : taken[t][k] = i THEN 1 ELSE 0]
      /\ UNCHANGED <<posts, heard, queue, adder, taken>>
  BY DEF S!Forget
<1>2. /\ heard \in Nat /\ Len(posts) \in Nat /\ taken[t] \in Seq(1 .. heard)
      /\ \A k \in DOMAIN taken[t] : taken[t][k] \in 1 .. heard
  <2>1. heard \in Nat /\ Len(posts) \in Nat /\ taken[t] \in Seq(1 .. heard)
    BY LenProperties DEF SlackInv, SlackTypes
  <2> QED
    BY <2>1, ElementOfSeq, LenProperties
<1>3. SlackTypes'
  <2>1. answers' \in [S!Messages -> Nat]
    BY <1>1 DEF SlackInv, SlackTypes
  <2>2. <<>> \in Seq(1 .. heard)
    BY EmptySeq
  <2> QED
    BY <1>1, <2>1, <2>2 DEF SlackInv, SlackTypes, Said
<1>4. NotYet'
  BY <1>1, <1>2 DEF SlackInv, NotYet
<1>5. ASSUME ~raced', NEW i \in 1 .. heard, S!Accepted(posts[i])
      PROVE  Hands(i)' = 1
  <2>1. ~raced /\ pending = taken[t] /\ Hands(i) = 1
    BY <1>1, <1>5 DEF SlackInv, InOneHand
  <2>2. /\ queue \in Seq(Nat) /\ pending \in Seq(Nat) /\ <<>> \in Seq(Nat)
    BY <1>2, LongerSeq, EmptySeq DEF SlackInv, SlackTypes
  <2>3. /\ Count(pending, i) = 0 <=> \A k \in DOMAIN pending : pending[k] # i
        /\ Count(<<>>, i) = 0
    <3>1. DOMAIN <<>> = {}
      OBVIOUS
    <3> QED
      BY <2>2, <3>1, CountType
  <2>4. /\ i \in S!Messages /\ answers[i] \in Nat
        /\ Count(queue, i) \in Nat /\ Count(pending, i) \in Nat
    BY HandTypes
  <2>5. answers'[i] = answers[i] + IF Count(pending, i) = 0 THEN 0 ELSE 1
    BY <1>1, <2>1, <2>3, <2>4
  <2> QED
    BY <1>1, <2>1, <2>3, <2>4, <2>5 DEF Hands
<1> QED
  BY <1>1, <1>3, <1>4, <1>5 DEF SlackInv, InOneHand, S!Accepted

LEMMA SlackStep == SlackInv /\ [S!SlackNext]_(S!slackVars) => SlackInv'
<1> SUFFICES ASSUME SlackInv, [S!SlackNext]_(S!slackVars) PROVE SlackInv'
  OBVIOUS
<1>0. taken \in [S!Timers -> Seq(1 .. heard)] /\ pending \in Seq(1 .. heard)
  BY DEF SlackInv, SlackTypes
<1>1. CASE S!CustomerSays \/ S!Cancel \/ S!SocketEnds \/ UNCHANGED S!slackVars
  <2>1. /\ UNCHANGED <<heard, queue, pending, adder, answers, raced, taken>>
        /\ \/ posts' = posts
           \/ \E m : posts' = Append(posts, m) /\ Len(posts) < MaxPosts
    BY <1>1 DEF S!CustomerSays, S!Say, S!Cancel, S!SocketEnds, S!slackVars
  <2> QED
    BY <1>0, <2>1, NothingMoves
<1>2. CASE S!HandleMessageEvent \/ S!ProcessMessage \/ S!AppendMessage \/ S!ProcessEnds
  BY <1>2, EventComes, MessagesWait
<1>3. ASSUME NEW t \in S!Timers, S!TimerStep(t)
      PROVE  SlackInv'
  <2>1. CASE S!TimerFires(t) \/ S!Take(t) \/ S!HandleMessages(t)
    <3>1. /\ UNCHANGED <<heard, queue, pending, adder, answers, raced>>
          /\ taken' = taken \/ taken' = [taken EXCEPT ![t] = pending]
          /\ \/ posts' = posts
             \/ \E m : posts' = Append(posts, m) /\ Len(posts) < MaxPosts
      BY <2>1 DEF S!TimerFires, S!Take, S!HandleMessages, S!Say
    <3> QED
      BY <1>0, <3>1, NothingMoves
  <2> QED
    BY <1>3, <2>1, HandedOver DEF S!TimerStep
<1> QED
  BY <1>1, <1>2, <1>3, Zenon DEF S!SlackNext

LEMMA OnceInHand == SlackInv => S!HandledOnce
<1> SUFFICES ASSUME SlackInv, ~raced, NEW i \in 1 .. heard, S!Accepted(posts[i])
             PROVE  answers[i] + S!Cardinality({k \in DOMAIN queue : queue[k] = i})
                      + S!Cardinality({k \in DOMAIN pending : pending[k] = i})
                      + (IF adder.message = i THEN 1 ELSE 0) = 1
  BY DEF S!HandledOnce
<1>1. \A A : S!Cardinality(A) = Cardinality(A)
  BY Zenon DEF S!Cardinality, Cardinality
<1> QED
  BY <1>1 DEF SlackInv, InOneHand, Hands, Count, Places

-----------------------------------------------------------------------------
(* The worker that two processes restart.  Its theorems are those of       *)
(* WorkerProofs, whose definitions are the ones of W.                      *)

WP == INSTANCE WorkerProofs

LEMMA WorkerConstants == /\ ChatReqs \cap TaskReqs = {} /\ NoReq \notin WP!Req
                         /\ ChanCap \in Nat \ {0} /\ MaxGen \in Nat \ {0}
                         /\ Resetters \subseteq WP!Procs
BY ChatAssumption DEF ChatAssumption, WP!Req, WP!Procs

LEMMA SameWorker ==
  /\ W!Init <=> WP!Init
  /\ W!Next <=> WP!Next
  /\ W!Custody <=> WP!Custody
  /\ W!WorkingHasRunner <=> WP!WorkingHasRunner
BY Zenon
   DEF W!Kinds, W!Procs, W!Req, W!Gens, W!Loops, W!Chans, W!Verdict, W!KindOf, W!Holding,
       W!Alive, W!NoLoops, W!StopsHeld, W!Running, W!StartTask, W!CompleteTask, W!RequestStop,
       W!ResumeState, W!ForceStop, W!Room, W!Reply, W!SendCall, W!SendEnqueue, W!SendCancelled,
       W!SendBlock, W!SendClosed, W!Send, W!Goto, W!LoopChan, W!LoopStart, W!LoopExit,
       W!LoopTake, W!Dismiss, W!Pass, W!LoopCheckStopped, W!LoopCheckWorking, W!LoopBegin,
       W!LoopReply, W!LoopComplete, W!LoopStep, W!Move, W!Pause, W!Resume, W!KillCancel,
       W!KillCommand, W!Killing, W!Claims, W!Resetting, W!Reset, W!KillForce, W!RestartWait,
       W!RestartWake, W!RestartPanic, W!RestartLaunch, W!QuitBegin, W!MonitorExit,
       W!QuitCancel, W!QuitClose, W!QuitJoin, W!Ended, W!ProcStep, W!Owner, W!Quitting,
       W!stateVars, W!chanVars, W!loopVars, W!reqVars, W!procVars, W!vars, W!Init, W!Next,
       W!Custody, W!WorkingHasRunner, WP!Kinds, WP!Procs, WP!Req, WP!Gens, WP!Loops, WP!Chans,
       WP!Verdict, WP!KindOf, WP!Holding, WP!Alive, WP!NoLoops, WP!StopsHeld, WP!Running,
       WP!StartTask, WP!CompleteTask, WP!RequestStop, WP!ResumeState, WP!ForceStop, WP!Room,
       WP!Reply, WP!SendCall, WP!SendEnqueue, WP!SendCancelled, WP!SendBlock, WP!SendClosed,
       WP!Send, WP!Goto, WP!LoopChan, WP!LoopStart, WP!LoopExit, WP!LoopTake, WP!Dismiss,
       WP!Pass, WP!LoopCheckStopped, WP!LoopCheckWorking, WP!LoopBegin, WP!LoopReply,
       WP!LoopComplete, WP!LoopStep, WP!Move, WP!Pause, WP!Resume, WP!KillCancel,
       WP!KillCommand, WP!Killing, WP!Claims, WP!Resetting, WP!Reset, WP!KillForce,
       WP!RestartWait, WP!RestartWake, WP!RestartPanic, WP!RestartLaunch, WP!QuitBegin,
       WP!MonitorExit, WP!QuitCancel, WP!QuitClose, WP!QuitJoin, WP!Ended, WP!ProcStep,
       WP!Owner, WP!Quitting, WP!stateVars, WP!chanVars, WP!loopVars, WP!reqVars, WP!procVars,
       WP!vars, WP!Init, WP!Next, WP!Custody, WP!WorkingHasRunner

LEMMA WorkerPart == Spec => WP!Spec
<1>1. Init => WP!Init
  BY SameWorker DEF Init
<1>2. [Next]_vars => [WP!Next]_(WP!vars)
  <2> SUFFICES ASSUME [Next]_vars PROVE [WP!Next]_(WP!vars)
    OBVIOUS
  <2>1. W!Next \/ UNCHANGED workerVars
    BY DEF Next, vars
  <2> QED
    BY <2>1, SameWorker DEF workerVars, WP!vars, WP!chanVars, WP!stateVars, WP!loopVars,
       WP!reqVars, WP!procVars
<1> QED
  BY <1>1, <1>2, PTL DEF Spec, WP!Spec

-----------------------------------------------------------------------------
(* The theorems.                                                           *)

ChatInv == ChainInv /\ MemoryInv /\ SlackInv

LEMMA ChatStep == ChatInv /\ [Next]_vars => ChatInv'
<1> SUFFICES ASSUME ChatInv, [Next]_vars PROVE ChatInv'
  OBVIOUS
<1>1. [C!ChainNext]_(C!chainVars)
  BY DEF Next, vars, chainVars, C!chainVars
<1>2. [M!MemoryNext]_(M!memoryVars)
  BY DEF Next, vars, memoryVars, M!memoryVars
<1>3. [S!SlackNext]_(S!slackVars)
  BY DEF Next, vars, slackVars, S!slackVars
<1> QED
  BY <1>1, <1>2, <1>3, ChainStep, MemoryStep, SlackStep DEF ChatInv

LEMMA ChatAlways == Spec => []ChatInv
<1>1. Init => ChatInv
  BY ChainStart, MemoryStart, SlackStart DEF Init, ChatInv
<1> QED
  BY <1>1, ChatStep, PTL DEF Spec

\* An agent that is shown as thinking is asked, but for those whose turn mei has taken
\* and those that were killed meanwhile, for any number of agents, asks and hops of a
\* chain (runAgentAsync, agentResponseMsg); and a worker that is shown as working has a
\* loop that will end its work, however often it is restarted.
THEOREM ThinkingMeansAsked == Spec => []ThinkingIsAsked
<1>1. ChatInv => C!ThinkingIsAsked
  BY DEF ChatInv, ChainInv
<1>2. WP!Spec => []WP!WorkingHasRunner
  BY WP!WorkingEnds, WorkerConstants
<1>3. C!ThinkingIsAsked /\ WP!WorkingHasRunner => ThinkingIsAsked
  BY SameWorker DEF ThinkingIsAsked
<1> QED
  BY <1>1, <1>2, <1>3, ChatAlways, WorkerPart, PTL

\* One program at a time can read its history file again, which holds what it knew; a
\* message of Slack is handed over once, as long as nobody writes pendingMsgs in
\* between; and a request to a worker is in one place: for any number of programs,
\* messages and requests.
THEOREM MemoryLasts == Spec => []NothingIsForgotten
<1>1. ChatInv => M!HistorySurvives /\ S!HandledOnce
  BY OnceInHand DEF ChatInv, MemoryInv, Saved, M!HistorySurvives
<1>2. WP!Spec => []WP!Custody
  BY WP!CustodyHolds, WorkerConstants
<1>3. M!HistorySurvives /\ S!HandledOnce /\ WP!Custody => NothingIsForgotten
  BY SameWorker DEF NothingIsForgotten
<1> QED
  BY <1>1, <1>2, <1>3, ChatAlways, WorkerPart, PTL
=============================================================================
