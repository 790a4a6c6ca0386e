------------------------------ MODULE WsProofs ------------------------------
(***************************************************************************)
(* Theorems of the WebSocket hub, for every set of connections, every      *)
(* length of the history and of the buffers, and every number of starts of *)
(* the server.                                                             *)
(***************************************************************************)
EXTENDS MCWs, TLAPS, SequenceTheorems

-----------------------------------------------------------------------------
(* Sequences of chats.                                                     *)

LEMMA AppendFacts ==
  ASSUME NEW s \in Seq(Nat), NEW m \in Nat
  PROVE  /\ Append(s, m) \in Seq(Nat) /\ Len(s) \in Nat /\ Len(Append(s, m)) = Len(s) + 1
         /\ DOMAIN s = 1 .. Len(s) /\ DOMAIN Append(s, m) = 1 .. Len(s) + 1
         /\ \A i \in 1 .. Len(s) : Append(s, m)[i] = s[i]
         /\ Append(s, m)[Len(s) + 1] = m
         /\ H!ToSet(Append(s, m)) = H!ToSet(s) \cup {m}
<1>1. /\ Append(s, m) \in Seq(Nat) /\ Len(s) \in Nat /\ Len(Append(s, m)) = Len(s) + 1
      /\ DOMAIN s = 1 .. Len(s) /\ DOMAIN Append(s, m) = 1 .. Len(s) + 1
      /\ \A i \in 1 .. Len(s) : Append(s, m)[i] = s[i]
      /\ Append(s, m)[Len(s) + 1] = m
  OBVIOUS
<1>2. H!ToSet(Append(s, m)) = H!ToSet(s) \cup {m}
  BY <1>1 DEF H!ToSet
<1> QED
  BY <1>1, <1>2

LEMMA TailFacts ==
  ASSUME NEW s \in Seq(Nat), s # <<>>
  PROVE  /\ Tail(s) \in Seq(Nat) /\ Len(s) \in Nat \ {0} /\ Len(Tail(s)) = Len(s) - 1
         /\ DOMAIN s = 1 .. Len(s) /\ DOMAIN Tail(s) = 1 .. Len(s) - 1
         /\ \A i \in 1 .. Len(s) - 1 : Tail(s)[i] = s[i + 1]
         /\ Head(s) = s[1] /\ Head(s) \in Nat
         /\ H!ToSet(s) = H!ToSet(Tail(s)) \cup {Head(s)}
<1>1. /\ Tail(s) \in Seq(Nat) /\ Len(s) \in Nat \ {0} /\ Len(Tail(s)) = Len(s) - 1
      /\ DOMAIN s = 1 .. Len(s) /\ DOMAIN Tail(s) = 1 .. Len(s) - 1
      /\ \A i \in 1 .. Len(s) - 1 : Tail(s)[i] = s[i + 1]
      /\ Head(s) = s[1] /\ Head(s) \in Nat
  BY HeadTailProperties, EmptySeq, LenProperties
<1>2. ASSUME NEW i \in DOMAIN s PROVE s[i] \in H!ToSet(Tail(s)) \cup {Head(s)}
  <2>1. CASE i = 1
    BY <1>1, <2>1
  <2>2. CASE i # 1
    <3>1. i - 1 \in DOMAIN Tail(s) /\ Tail(s)[i - 1] = s[i]
      BY <1>1, <2>2
    <3> QED
      BY <3>1 DEF H!ToSet
  <2> QED
    BY <2>1, <2>2
<1>3. H!ToSet(Tail(s)) \cup {Head(s)} \subseteq H!ToSet(s)
  BY <1>1 DEF H!ToSet
<1>4. H!ToSet(s) \subseteq H!ToSet(Tail(s)) \cup {Head(s)}
  BY <1>2 DEF H!ToSet
<1> QED
  BY <1>1, <1>3, <1>4

LEMMA ConcatFacts ==
  ASSUME NEW s \in Seq(Nat), NEW t \in Seq(Nat)
  PROVE  /\ s \o t \in Seq(Nat) /\ Len(s) \in Nat /\ Len(t) \in Nat
         /\ DOMAIN s = 1 .. Len(s) /\ DOMAIN t = 1 .. Len(t)
         /\ DOMAIN (s \o t) = 1 .. Len(s) + Len(t) /\ Len(s \o t) = Len(s) + Len(t)
         /\ \A i \in 1 .. Len(s) + Len(t) :
               (s \o t)[i] = IF i <= Len(s) THEN s[i] ELSE t[i - Len(s)]
         /\ H!ToSet(s) \subseteq H!ToSet(s \o t) /\ H!ToSet(t) \subseteq H!ToSet(s \o t)
<1>1. /\ s \o t \in Seq(Nat) /\ Len(s) \in Nat /\ Len(t) \in Nat
      /\ DOMAIN s = 1 .. Len(s) /\ DOMAIN t = 1 .. Len(t)
      /\ DOMAIN (s \o t) = 1 .. Len(s) + Len(t) /\ Len(s \o t) = Len(s) + Len(t)
      /\ \A i \in 1 .. Len(s) + Len(t) :
            (s \o t)[i] = IF i <= Len(s) THEN s[i] ELSE t[i - Len(s)]
  BY ConcatProperties, LenProperties
<1>2. \A i \in DOMAIN s : i \in DOMAIN (s \o t) /\ (s \o t)[i] = s[i]
  BY <1>1
<1>3. \A i \in DOMAIN t : i + Len(s) \in DOMAIN (s \o t) /\ (s \o t)[i + Len(s)] = t[i]
  BY <1>1, SMTT(30)
<1>4. H!ToSet(s) \subseteq H!ToSet(s \o t)
  BY <1>2 DEF H!ToSet
<1>5. H!ToSet(t) \subseteq H!ToSet(s \o t)
  BY <1>3 DEF H!ToSet
<1> QED
  BY <1>1, <1>4, <1>5

\* LastOf(s, n) has the last n elements of s, or all of them.
LEMMA LastOfFacts ==
  ASSUME NEW s \in Seq(Nat), NEW n \in Nat
  PROVE  /\ H!LastOf(s, n) \in Seq(Nat)
         /\ Len(H!LastOf(s, n)) = IF Len(s) > n THEN n ELSE Len(s)
         /\ \A i \in 1 .. Len(H!LastOf(s, n)) :
               H!LastOf(s, n)[i] = s[Len(s) - Len(H!LastOf(s, n)) + i]
<1> DEFINE m == IF Len(s) > n THEN Len(s) - n + 1 ELSE 1
<1>1. Len(s) \in Nat /\ m \in Int /\ m >= 1 /\ \A i \in m .. Len(s) : s[i] \in Nat
  BY LenProperties, ElementOfSeq
<1>2. /\ SubSeq(s, m, Len(s)) \in Seq(Nat)
      /\ Len(SubSeq(s, m, Len(s))) = IF m <= Len(s) THEN Len(s) - m + 1 ELSE 0
      /\ \A i \in 1 .. Len(s) - m + 1 : SubSeq(s, m, Len(s))[i] = s[m + i - 1]
  <2> HIDE DEF m
  <2> QED
    BY <1>1, SubSeqProperties
<1>3. H!LastOf(s, n) = SubSeq(s, m, Len(s))
  BY DEF H!LastOf
<1>4. Len(H!LastOf(s, n)) = Len(s) - m + 1
      /\ Len(H!LastOf(s, n)) = IF Len(s) > n THEN n ELSE Len(s)
  <2>1. m <= Len(s) + 1 /\ Len(s) - m + 1 = IF Len(s) > n THEN n ELSE Len(s)
    BY <1>1
  <2> HIDE DEF m
  <2> QED
    BY <1>1, <1>2, <1>3, <2>1
<1>5. \A i \in 1 .. Len(s) - m + 1 : Len(s) - (Len(s) - m + 1) + i = m + i - 1
  <2> HIDE DEF m
  <2> QED
    BY <1>1
<1>6. ASSUME NEW i \in 1 .. Len(H!LastOf(s, n))
      PROVE  H!LastOf(s, n)[i] = s[Len(s) - Len(H!LastOf(s, n)) + i]
  <2>1. i \in 1 .. Len(s) - m + 1
    BY <1>4
  <2>2. SubSeq(s, m, Len(s))[i] = s[m + i - 1]
    BY <1>2, <2>1
  <2> QED
    BY <1>3, <1>4, <1>5, <2>1, <2>2
<1> HIDE DEF m
<1> QED
  BY <1>2, <1>3, <1>4, <1>6

-----------------------------------------------------------------------------
(* Types.                                                                  *)

LoopShapes == [pc : {"select", "insert", "store", "pass", "send"}, msg : Nat, todo : SUBSET Conns]
LinkShapes == [pc : {"away", "register", "joined", "history", "pumping", "leaving", "gone"},
               open : BOOLEAN, writer : BOOLEAN, asks : BOOLEAN, hist : Seq(Nat),
               joinedAt : Nat, readAt : Nat]

HubTypes ==
    /\ starts \in Nat /\ posted \in Nat
    /\ loop \in [H!Loops -> LoopShapes] /\ clients \subseteq Conns
    /\ closed \in [Conns -> BOOLEAN] /\ link \in [Conns -> LinkShapes]
    /\ inbox \in Seq(Nat) /\ history \in Seq(Nat) /\ log \in Seq(Nat)
    /\ sendQ \in [Conns -> Seq(Nat)] /\ got \in [Conns -> Seq(Nat)]
    /\ missed \in [Conns -> SUBSET Nat]

LEMMA LinkForms ==
  ASSUME NEW r \in LinkShapes,
         NEW p \in {"away", "register", "joined", "history", "pumping", "leaving", "gone"}
  PROVE  /\ [r EXCEPT !.pc = p] \in LinkShapes
         /\ \A n \in Nat : [r EXCEPT !.joinedAt = n] \in LinkShapes
         /\ \A n \in Nat, s \in Seq(Nat) :
               [r EXCEPT !.pc = p, !.hist = s, !.readAt = n] \in LinkShapes
         /\ \A b \in BOOLEAN : /\ [r EXCEPT !.pc = p, !.writer = b] \in LinkShapes
                               /\ [r EXCEPT !.pc = p, !.open = TRUE, !.asks = b] \in LinkShapes
         /\ [r EXCEPT !.writer = FALSE] \in LinkShapes /\ [r EXCEPT !.open = FALSE] \in LinkShapes
         /\ [r EXCEPT !.writer = FALSE, !.open = FALSE] \in LinkShapes
<1> USE DEF LinkShapes
<1>1. [r EXCEPT !.pc = p] \in LinkShapes
  OBVIOUS
<1>2. \A n \in Nat : [r EXCEPT !.joinedAt = n] \in LinkShapes
  OBVIOUS
<1>3. \A n \in Nat, s \in Seq(Nat) :
        [r EXCEPT !.pc = p, !.hist = s, !.readAt = n] \in LinkShapes
  OBVIOUS
<1>4. \A b \in BOOLEAN : [r EXCEPT !.pc = p, !.writer = b] \in LinkShapes
  OBVIOUS
<1>5. \A b \in BOOLEAN : [r EXCEPT !.pc = p, !.open = TRUE, !.asks = b] \in LinkShapes
  OBVIOUS
<1>6. [r EXCEPT !.writer = FALSE] \in LinkShapes /\ [r EXCEPT !.open = FALSE] \in LinkShapes
  OBVIOUS
<1>7. [r EXCEPT !.writer = FALSE, !.open = FALSE] \in LinkShapes
  OBVIOUS
<1> HIDE DEF LinkShapes
<1> QED
  BY <1>1, <1>2, <1>3, <1>4, <1>5, <1>6, <1>7

LEMMA TypesStart == H!HubInit => HubTypes
<1> SUFFICES ASSUME H!HubInit PROVE HubTypes
  OBVIOUS
<1>1. <<>> \in Seq(Nat)
  OBVIOUS
<1>2. H!NoLink \in LinkShapes
  BY <1>1 DEF H!NoLink, LinkShapes
<1>3. H!Select \in LoopShapes
  BY DEF H!Select, H!Notice, LoopShapes
<1> QED
  BY <1>1, <1>2, <1>3 DEF H!HubInit, HubTypes

LEMMA LoopTypes ==
  ASSUME HubTypes, NEW l \in H!Loops, H!HubStep(l)
  PROVE  HubTypes'
<1> USE DEF HubTypes, H!Notice
<1>1. CASE H!Take(l)
  <2>1. Head(inbox) \in Nat /\ Tail(inbox) \in Seq(Nat)
    BY <1>1, TailFacts DEF H!Take
  <2> QED
    BY <1>1, <2>1 DEF H!Take, LoopShapes
<1>2. CASE H!Store(l)
  <2>1. loop[l].msg \in Nat
    BY DEF LoopShapes
  <2>2. /\ Append(history, loop[l].msg) \in Seq(Nat) /\ Append(log, loop[l].msg) \in Seq(Nat)
        /\ H!LastOf(Append(history, loop[l].msg), MaxHistory) \in Seq(Nat)
    BY <2>1, AppendFacts, LastOfFacts, HubAssumption DEF HubAssumption
  <2>3. history' \in Seq(Nat) /\ log' \in Seq(Nat)
    BY <1>2, <2>2 DEF H!Store
  <2>4. loop' \in [H!Loops -> LoopShapes]
    BY <1>2, <2>1 DEF H!Store, H!Pass, LoopShapes
  <2> QED
    BY <1>2, <2>3, <2>4 DEF H!Store
<1>3. CASE H!Broadcast(l)
  BY <1>3, ZenonT(40) DEF H!Broadcast, LoopShapes
<1>4. CASE H!Sent(l)
  BY <1>4 DEF H!Sent, H!Select, LoopShapes
<1>5. ASSUME NEW c \in Conns, H!Register(l, c) PROVE HubTypes'
  <2>1. link' \in [Conns -> LinkShapes]
    <3>1. [link[c] EXCEPT !.pc = "joined"] \in LinkShapes
      BY LinkForms
    <3> QED
      BY <1>5, <3>1 DEF H!Register
  <2> QED
    BY <1>5, <2>1 DEF H!Register, LoopShapes
<1>8. ASSUME NEW c \in Conns, H!Insert(l, c) PROVE HubTypes'
  <2>1. Len(log) \in Nat
    BY LenProperties
  <2>2. link' \in [Conns -> LinkShapes]
    <3>1. [link[c] EXCEPT !.joinedAt = Len(log)] \in LinkShapes
      BY <2>1, LinkForms
    <3> QED
      BY <1>8, <3>1 DEF H!Insert
  <2> QED
    BY <1>8, <2>2 DEF H!Insert, H!Pass, LoopShapes
<1>6. ASSUME NEW c \in Conns, H!Unregister(l, c) PROVE HubTypes'
  <2>1. link' \in [Conns -> LinkShapes]
    BY <1>6, ZenonT(40) DEF H!Unregister, LinkShapes
  <2> QED
    BY <1>6, <2>1 DEF H!Unregister, H!Pass, LoopShapes
<1>7. ASSUME NEW c \in Conns, H!SendTo(l, c) PROVE HubTypes'
  <2>1. loop[l].msg \in Nat /\ loop' \in [H!Loops -> LoopShapes]
    BY <1>7 DEF H!SendTo, LoopShapes
  <2>2. Append(sendQ[c], loop[l].msg) \in Seq(Nat)
    BY <2>1, AppendFacts
  <2>3. sendQ' \in [Conns -> Seq(Nat)] /\ missed' \in [Conns -> SUBSET Nat]
    <3>1. sendQ' \in [Conns -> Seq(Nat)]
      BY <1>7, <2>2 DEF H!SendTo
    <3>2. missed[c] \cup {loop[l].msg} \in SUBSET Nat
      BY <2>1
    <3> QED
      BY <1>7, <3>1, <3>2 DEF H!SendTo
  <2> QED
    BY <1>7, <2>1, <2>3 DEF H!SendTo
<1> QED
  BY <1>1, <1>2, <1>3, <1>4, <1>5, <1>6, <1>7, <1>8 DEF H!HubStep

LEMMA PeerTypes ==
  ASSUME HubTypes, NEW c \in Conns, H!Dial(c) \/ H!Serve(c) \/ H!Drop(c)
  PROVE  HubTypes'
<1> USE DEF HubTypes, H!HubUnchanged
<1>1. CASE H!Dial(c)
  <2>1. H!NoLink \in LinkShapes
    BY EmptySeq DEF H!NoLink, LinkShapes
  <2>2. link' \in [Conns -> LinkShapes]
    <3>1. PICK asks \in BOOLEAN :
            link' = [link EXCEPT ![c] = [H!NoLink EXCEPT !.pc = "register", !.open = TRUE,
                                                         !.asks = asks]]
      BY <1>1 DEF H!Dial
    <3> DEFINE r == [H!NoLink EXCEPT !.pc = "register", !.open = TRUE, !.asks = asks]
    <3>2. r \in LinkShapes
      BY <2>1, LinkForms
    <3> HIDE DEF r
    <3> QED
      BY <3>1, <3>2 DEF r
  <2> QED
    BY <1>1, <2>2 DEF H!Dial
<1>2. CASE H!GetHistory(c)
  <2>1. Len(log) \in Nat
    BY LenProperties
  <2>2. link' \in [Conns -> LinkShapes]
    <3> DEFINE r == [link[c] EXCEPT !.pc = "history", !.hist = history, !.readAt = Len(log)]
    <3>1. r \in LinkShapes
      BY <2>1, LinkForms
    <3>2. link' = [link EXCEPT ![c] = r]
      BY <1>2 DEF H!GetHistory
    <3> HIDE DEF r
    <3> QED
      BY <3>1, <3>2
  <2> QED
    BY <1>2, <2>2 DEF H!GetHistory
<1>3. CASE H!StartPumps(c)
  <2>1. link' \in [Conns -> LinkShapes]
    <3> DEFINE r == [link[c] EXCEPT !.pc = "pumping", !.writer = TRUE]
    <3>1. r \in LinkShapes
      BY LinkForms
    <3>2. link' = [link EXCEPT ![c] = r]
      BY <1>3 DEF H!StartPumps
    <3> HIDE DEF r
    <3> QED
      BY <3>1, <3>2
  <2>4. link[c].hist \in Seq(Nat)
    BY DEF LinkShapes
  <2>2. got[c] \o link[c].hist \in Seq(Nat)
    BY <2>4, ConcatFacts
  <2>3. got' \in [Conns -> Seq(Nat)]
    BY <1>3, <2>2 DEF H!StartPumps
  <2> QED
    BY <1>3, <2>1, <2>3 DEF H!StartPumps
<1>4. CASE H!WriteNext(c)
  <2>1. Head(sendQ[c]) \in Nat /\ Tail(sendQ[c]) \in Seq(Nat)
    BY <1>4, TailFacts DEF H!WriteNext
  <2>2. Append(got[c], Head(sendQ[c])) \in Seq(Nat)
    BY <2>1, AppendFacts
  <2>3. got' \in [Conns -> Seq(Nat)] /\ sendQ' \in [Conns -> Seq(Nat)]
    BY <1>4, <2>1, <2>2 DEF H!WriteNext
  <2>4. link' \in [Conns -> LinkShapes]
    <3>1. [link[c] EXCEPT !.writer = FALSE] \in LinkShapes
      BY LinkForms
    <3>2. link' = link \/ link' = [link EXCEPT ![c] = [link[c] EXCEPT !.writer = FALSE]]
      BY <1>4 DEF H!WriteNext
    <3> QED
      BY <3>1, <3>2
  <2> QED
    BY <1>4, <2>3, <2>4 DEF H!WriteNext
<1>5. CASE H!StopWriting(c) \/ H!Drop(c) \/ H!StopReading(c)
  <2>1. link' \in [Conns -> LinkShapes]
    <3>1. \E r \in LinkShapes : link' = [link EXCEPT ![c] = r]
      <4>1. CASE H!StopWriting(c)
        BY <4>1, LinkForms DEF H!StopWriting
      <4>2. CASE H!Drop(c)
        BY <4>2, LinkForms DEF H!Drop
      <4>3. CASE H!StopReading(c)
        BY <4>3, LinkForms DEF H!StopReading
      <4> QED
        BY <1>5, <4>1, <4>2, <4>3
    <3> QED
      BY <3>1
  <2> QED
    BY <1>5, <2>1 DEF H!StopWriting, H!Drop, H!StopReading
<1> QED
  BY <1>1, <1>2, <1>3, <1>4, <1>5 DEF H!Serve

LEMMA TypesStep == HubTypes /\ [H!HubNext]_(H!hubVars) => HubTypes'
<1> SUFFICES ASSUME HubTypes, [H!HubNext]_(H!hubVars) PROVE HubTypes'
  OBVIOUS
<1>1. CASE H!Start \/ H!StopServer \/ UNCHANGED H!hubVars
  BY <1>1 DEF H!Start, H!StopServer, H!hubVars, HubTypes
<1>2. CASE H!Post
  <2>1. inbox' \in Seq(Nat) /\ posted' \in Nat
    BY <1>2, AppendFacts DEF H!Post, H!Notice, HubTypes
  <2> QED
    BY <1>2, <2>1 DEF H!Post, H!HubUnchanged, HubTypes
<1> QED
  BY <1>1, <1>2, LoopTypes, PeerTypes DEF H!HubNext

-----------------------------------------------------------------------------
(* What the steps do to a connection, and where a chat is.                 *)

\* A step of connection c touches no other.
Others(c) == \A d \in Conns \ {c} : link'[d] = link[d]

LEMMA RegisterLink ==
  ASSUME HubTypes, NEW l \in H!Loops, NEW c \in Conns, H!Register(l, c)
  PROVE  /\ Others(c) /\ link[c].pc = "register" /\ link'[c].pc = "joined"
         /\ link'[c].joinedAt = link[c].joinedAt
         /\ link'[c].open = link[c].open /\ link'[c].writer = link[c].writer
         /\ link'[c].asks = link[c].asks /\ link'[c].hist = link[c].hist
         /\ link'[c].readAt = link[c].readAt
BY DEF HubTypes, LinkShapes, H!Register, Others

LEMMA InsertLink ==
  ASSUME HubTypes, NEW l \in H!Loops, NEW c \in Conns, H!Insert(l, c)
  PROVE  /\ Others(c) /\ link'[c].pc = link[c].pc /\ link'[c].joinedAt = Len(log)
         /\ link'[c].open = link[c].open /\ link'[c].writer = link[c].writer
         /\ link'[c].asks = link[c].asks /\ link'[c].hist = link[c].hist
         /\ link'[c].readAt = link[c].readAt
BY DEF HubTypes, LinkShapes, H!Insert, Others

LEMMA UnregisterLink ==
  ASSUME HubTypes, NEW l \in H!Loops, NEW c \in Conns, H!Unregister(l, c)
  PROVE  /\ Others(c) /\ link'[c].pc = "gone" /\ link'[c].joinedAt = link[c].joinedAt
         /\ link'[c].open = link[c].open /\ link'[c].writer = link[c].writer
         /\ link'[c].asks = link[c].asks /\ link'[c].hist = link[c].hist
         /\ link'[c].readAt = link[c].readAt
BY DEF HubTypes, LinkShapes, H!Unregister, Others

LEMMA DialLink ==
  ASSUME HubTypes, NEW c \in Conns, H!Dial(c)
  PROVE  /\ Others(c) /\ link[c].pc = "away" /\ link'[c].pc = "register"
         /\ ~link'[c].writer /\ link'[c].hist = <<>>
BY DEF HubTypes, LinkShapes, H!Dial, H!At, H!NoLink, Others

LEMMA HistoryLink ==
  ASSUME HubTypes, NEW c \in Conns, H!GetHistory(c)
  PROVE  /\ Others(c) /\ link[c].pc = "joined" /\ link'[c].pc = "history" /\ link[c].asks
         /\ link'[c].hist = history /\ link'[c].readAt = Len(log)
         /\ link'[c].open = link[c].open /\ link'[c].writer = link[c].writer
         /\ link'[c].asks = link[c].asks /\ link'[c].joinedAt = link[c].joinedAt
BY DEF HubTypes, LinkShapes, H!GetHistory, H!At, Others

LEMMA PumpsLink ==
  ASSUME HubTypes, NEW c \in Conns, H!StartPumps(c)
  PROVE  /\ Others(c) /\ (link[c].pc = "history" \/ (link[c].pc = "joined" /\ ~link[c].asks))
         /\ link'[c].pc = "pumping" /\ link'[c].writer
         /\ link'[c].open = link[c].open /\ link'[c].asks = link[c].asks
         /\ link'[c].hist = link[c].hist /\ link'[c].readAt = link[c].readAt
         /\ link'[c].joinedAt = link[c].joinedAt
BY DEF HubTypes, LinkShapes, H!StartPumps, H!At, Others

LEMMA CloseLink ==
  ASSUME HubTypes, NEW c \in Conns,
         H!WriteNext(c) \/ H!StopWriting(c) \/ H!Drop(c) \/ H!StopReading(c)
  PROVE  /\ Others(c) /\ (link'[c].open => link[c].open /\ link' = link)
         /\ (link'[c].writer => link[c].writer)
         /\ link'[c].pc = link[c].pc \/ (link[c].pc = "pumping" /\ link'[c].pc = "leaving")
         /\ link'[c].asks = link[c].asks /\ link'[c].hist = link[c].hist
         /\ link'[c].readAt = link[c].readAt /\ link'[c].joinedAt = link[c].joinedAt
<1> USE DEF HubTypes, LinkShapes, Others
<1>1. CASE H!WriteNext(c)
  BY <1>1, ZenonT(40) DEF H!WriteNext
<1>2. CASE H!StopWriting(c)
  BY <1>2 DEF H!StopWriting
<1>3. CASE H!Drop(c)
  BY <1>3 DEF H!Drop
<1>4. CASE H!StopReading(c)
  BY <1>4 DEF H!StopReading, H!At
<1> QED
  BY <1>1, <1>2, <1>3, <1>4

\* Where a connection gets in a step.
LEMMA LinkMoves ==
  ASSUME HubTypes, [H!HubNext]_(H!hubVars), NEW c \in Conns
  PROVE  /\ link'[c].pc \in {"away", "register"} => link[c].pc \in {"away", "register"}
         /\ link[c].pc = "gone" => link'[c].pc = "gone"
         /\ link[c].pc = "away" => link'[c].pc \in {"away", "register"}
         /\ link[c].pc = "register" => link'[c].pc \in {"register", "joined"}
         /\ link'[c].pc = "joined" => \/ link[c].pc = "joined"
                                     \/ \E l \in H!Loops : H!Register(l, c)
<1>1. CASE UNCHANGED link
  BY <1>1
<1>2. ASSUME NEW l \in H!Loops, NEW d \in Conns,
             H!Register(l, d) \/ H!Insert(l, d) \/ H!Unregister(l, d)
      PROVE  /\ link'[c].pc \in {"away", "register"} => link[c].pc \in {"away", "register"}
             /\ link[c].pc = "gone" => link'[c].pc = "gone"
             /\ link[c].pc = "away" => link'[c].pc \in {"away", "register"}
             /\ link[c].pc = "register" => link'[c].pc \in {"register", "joined"}
             /\ link'[c].pc = "joined" => \/ link[c].pc = "joined" \/ H!Register(l, c)
  <2>1. H!Unregister(l, d) => link[d].pc = "leaving"
    BY DEF H!Unregister
  <2> QED
    BY <1>2, <2>1, RegisterLink, InsertLink, UnregisterLink DEF Others
<1>3. ASSUME NEW d \in Conns, H!Dial(d) \/ H!Serve(d) \/ H!Drop(d)
      PROVE  /\ link'[c].pc \in {"away", "register"} => link[c].pc \in {"away", "register"}
             /\ link[c].pc = "gone" => link'[c].pc = "gone"
             /\ link[c].pc = "away" => link'[c].pc \in {"away", "register"}
             /\ link[c].pc = "register" => link'[c].pc \in {"register", "joined"}
             /\ link'[c].pc = "joined" => link[c].pc = "joined"
  BY <1>3, DialLink, HistoryLink, PumpsLink, CloseLink DEF Others, H!Serve
<1>4. \/ UNCHANGED link \/ \E d \in Conns : H!Dial(d) \/ H!Serve(d) \/ H!Drop(d)
      \/ \E l \in H!Loops, d \in Conns :
            H!Register(l, d) \/ H!Insert(l, d) \/ H!Unregister(l, d)
  BY DEF H!HubNext, H!hubVars, H!Start, H!StopServer, H!HubStep, H!Take, H!Store, H!Broadcast,
     H!Sent, H!SendTo, H!Post, H!HubUnchanged
<1> QED
  BY <1>1, <1>2, <1>3, <1>4

-----------------------------------------------------------------------------
(* Channels of clients are closed under the lock.                          *)

\* Before a loop has a client from h.register nobody else has; what is closed has left the
\* set.  A client that leaves by another loop before its insertion stays in the set.
ClosedWhenGone ==
    \A c \in Conns :
        /\ closed[c] => link[c].pc = "gone" /\ c \notin clients
        /\ link[c].pc \in {"away", "register"} =>
              c \notin clients /\ \A l \in H!Loops : c \notin loop[l].todo

\* A loop that has a client to insert is the only one and the set does not have it yet.
InsertedOnce ==
    \A l \in H!Loops : loop[l].pc = "insert" =>
        /\ \A c \in loop[l].todo : c \notin clients
        /\ \A k \in H!Loops \ {l} : loop[k].todo \cap loop[l].todo = {}

\* Only a loop that holds the read lock, or has a client to insert, has clients to serve.
LockedWhileSending ==
    \A l \in H!Loops : /\ loop[l].pc \notin {"insert", "send"} => loop[l].todo = {}
                       /\ \A c \in loop[l].todo : ~closed[c]

CloseInv == ClosedWhenGone /\ InsertedOnce /\ LockedWhileSending

LEMMA CloseStart == H!HubInit => CloseInv
BY DEF H!HubInit, CloseInv, ClosedWhenGone, InsertedOnce, LockedWhileSending, H!NoLink, H!Select

LEMMA CloseStep == HubTypes /\ CloseInv /\ [H!HubNext]_(H!hubVars) => CloseInv'
<1> SUFFICES ASSUME HubTypes, CloseInv, [H!HubNext]_(H!hubVars) PROVE CloseInv'
  OBVIOUS
<1>1. \A c \in Conns : link'[c].pc \in {"away", "register"} => link[c].pc \in {"away", "register"}
  BY LinkMoves
<1>2. CASE UNCHANGED <<loop, clients, closed>>
  <2>1. \A c \in Conns : closed[c] => link'[c].pc = "gone"
    BY LinkMoves DEF CloseInv, ClosedWhenGone
  <2> QED
    BY <1>1, <1>2, <2>1 DEF CloseInv, ClosedWhenGone, InsertedOnce, LockedWhileSending, H!Loops
<1>3. ASSUME NEW l \in H!Loops, UNCHANGED <<clients, closed>>,
             loop'[l].pc # "insert", loop'[l].pc # "send" => loop'[l].todo = {},
             loop'[l].todo \subseteq loop[l].todo \cup clients,
             loop'[l].pc = loop[l].pc \/ loop[l].pc # "insert",
             \A k \in H!Loops \ {l} : loop'[k] = loop[k]
      PROVE  CloseInv'
  <2>1. \A c \in Conns : closed[c] => link'[c].pc = "gone"
    BY LinkMoves DEF CloseInv, ClosedWhenGone
  <2>2. \A c \in clients : ~closed[c] /\ \A k \in H!Loops : loop[k].pc = "insert" => c \notin loop[k].todo
    BY DEF CloseInv, ClosedWhenGone, InsertedOnce, HubTypes
  <2>3. ClosedWhenGone'
    BY <1>1, <1>3, <2>1 DEF CloseInv, ClosedWhenGone, H!Loops
  <2>4. InsertedOnce'
    <3>1. ASSUME NEW k \in H!Loops, loop'[k].pc = "insert"
          PROVE  /\ \A c \in loop'[k].todo : c \notin clients'
                 /\ \A j \in H!Loops \ {k} : loop'[j].todo \cap loop'[k].todo = {}
      <4>1. k # l /\ loop'[k] = loop[k] /\ \A c \in loop[k].todo : c \notin clients
        BY <1>3, <3>1 DEF CloseInv, InsertedOnce
      <4>2. ASSUME NEW j \in H!Loops \ {k} PROVE loop'[j].todo \cap loop'[k].todo = {}
        <5>1. loop[j].todo \cap loop[k].todo = {}
          BY <3>1, <4>1, <4>2 DEF CloseInv, InsertedOnce
        <5> QED
          BY <1>3, <4>1, <5>1
      <4> QED
        BY <1>3, <4>1, <4>2
    <3> QED
      BY <3>1 DEF InsertedOnce, H!Loops
  <2>5. LockedWhileSending'
    <3>1. ASSUME NEW k \in H!Loops
          PROVE  /\ loop'[k].pc \notin {"insert", "send"} => loop'[k].todo = {}
                 /\ \A c \in loop'[k].todo : ~closed'[c]
      <4>1. CASE k = l
        BY <1>3, <2>2, <4>1 DEF CloseInv, LockedWhileSending
      <4>2. CASE k # l
        BY <1>3, <4>2 DEF CloseInv, LockedWhileSending
      <4> QED
        BY <4>1, <4>2
    <3> QED
      BY <3>1 DEF LockedWhileSending, H!Loops
  <2> QED
    BY <2>3, <2>4, <2>5 DEF CloseInv
<1>4. ASSUME NEW l \in H!Loops, H!Take(l) \/ H!Store(l) \/ H!Broadcast(l) \/ H!Sent(l)
      PROVE  CloseInv'
  <2>1. /\ UNCHANGED <<clients, closed>> /\ \A k \in H!Loops \ {l} : loop'[k] = loop[k]
        /\ loop'[l].pc \in {"store", "pass", "send", "select"}
        /\ loop[l].pc # "insert"
    BY <1>4 DEF H!Take, H!Store, H!Broadcast, H!Sent, H!Pass, H!Select, HubTypes, LoopShapes
  <2>2. /\ loop'[l].pc # "send" => loop'[l].todo = {}
        /\ loop'[l].todo \subseteq loop[l].todo \cup clients
    BY <1>4 DEF H!Take, H!Store, H!Broadcast, H!Sent, H!Pass, H!Select, HubTypes, LoopShapes
  <2> QED
    BY <1>3, <2>1, <2>2
<1>5. ASSUME NEW l \in H!Loops, NEW c \in Conns, H!SendTo(l, c) PROVE CloseInv'
  <2>1. /\ UNCHANGED <<clients, closed>> /\ \A k \in H!Loops \ {l} : loop'[k] = loop[k]
        /\ loop'[l].pc = "send" /\ loop[l].pc = "send" /\ loop'[l].todo \subseteq loop[l].todo
    BY <1>5 DEF H!SendTo, HubTypes, LoopShapes
  <2> QED
    BY <1>3, <2>1
<1>6. ASSUME NEW l \in H!Loops, NEW c \in Conns, H!Register(l, c) PROVE CloseInv'
  <2>1. /\ UNCHANGED <<clients, closed>> /\ \A k \in H!Loops \ {l} : loop'[k] = loop[k]
        /\ loop'[l].pc = "insert" /\ loop'[l].todo = {c}
        /\ link[c].pc = "register" /\ link'[c].pc = "joined"
    BY <1>6, RegisterLink DEF H!Register, HubTypes, LoopShapes
  <2>2. c \notin clients /\ ~closed[c] /\ \A k \in H!Loops : c \notin loop[k].todo
    BY <2>1 DEF CloseInv, ClosedWhenGone
  <2>3. ClosedWhenGone'
    <3>1. \A d \in Conns : closed[d] => link'[d].pc = "gone"
      BY LinkMoves DEF CloseInv, ClosedWhenGone
    <3>2. \A d \in Conns : link'[d].pc \in {"away", "register"} => d # c
      BY <2>1
    <3>3. \A k \in H!Loops : loop'[k].todo \subseteq loop[k].todo \cup {c}
      BY <2>1
    <3>4. ASSUME NEW d \in Conns
          PROVE  /\ closed'[d] => link'[d].pc = "gone" /\ d \notin clients'
                 /\ link'[d].pc \in {"away", "register"} =>
                       d \notin clients' /\ \A k \in H!Loops : d \notin loop'[k].todo
      BY <1>1, <2>1, <3>1, <3>2, <3>3 DEF CloseInv, ClosedWhenGone
    <3> QED
      BY <3>4 DEF ClosedWhenGone, H!Loops
  <2>4. InsertedOnce'
    <3>1. ASSUME NEW k \in H!Loops, loop'[k].pc = "insert"
          PROVE  /\ \A d \in loop'[k].todo : d \notin clients'
                 /\ \A j \in H!Loops \ {k} : loop'[j].todo \cap loop'[k].todo = {}
      <4>1. CASE k = l
        BY <2>1, <2>2, <4>1
      <4>2. CASE k # l
        BY <2>1, <2>2, <3>1, <4>2 DEF CloseInv, InsertedOnce
      <4> QED
        BY <4>1, <4>2
    <3> QED
      BY <3>1 DEF InsertedOnce, H!Loops
  <2>5. LockedWhileSending'
    <3>1. ASSUME NEW k \in H!Loops
          PROVE  /\ loop'[k].pc \notin {"insert", "send"} => loop'[k].todo = {}
                 /\ \A d \in loop'[k].todo : ~closed'[d]
      BY <2>1, <2>2 DEF CloseInv, LockedWhileSending
    <3> QED
      BY <3>1 DEF LockedWhileSending, H!Loops
  <2> QED
    BY <2>3, <2>4, <2>5 DEF CloseInv
<1>7. ASSUME NEW l \in H!Loops, NEW c \in Conns, H!Insert(l, c) \/ H!Unregister(l, c)
      PROVE  CloseInv'
  <2>1. /\ \A k \in H!Loops \ {l} : loop'[k] = loop[k]
        /\ loop'[l].pc = "pass" /\ loop'[l].todo = {}
        /\ \A k \in H!Loops : loop[k].pc # "send"
        /\ \A k \in H!Loops : loop'[k].todo \subseteq loop[k].todo
        /\ \A k \in H!Loops : loop'[k].pc = "insert" => k # l
    <3>1. /\ loop' = [loop EXCEPT ![l] = [pc |-> "pass", msg |-> H!Notice, todo |-> {}]]
          /\ \A k \in H!Loops : loop[k].pc # "send"
      BY <1>7 DEF H!Insert, H!Unregister, H!Pass, H!Unlocked
    <3> QED
      BY <3>1 DEF HubTypes
  <2>2. CASE H!Insert(l, c)
    <3>1. /\ clients' = clients \cup {c} /\ closed' = closed
          /\ loop[l].pc = "insert" /\ c \in loop[l].todo
      BY <2>2 DEF H!Insert
    <3>2. ~closed[c] /\ link[c].pc \notin {"away", "register"}
          /\ \A k \in H!Loops \ {l} : c \notin loop[k].todo
      BY <3>1 DEF CloseInv, ClosedWhenGone, LockedWhileSending, InsertedOnce
    <3>3. \A d \in Conns : link'[d].pc = link[d].pc
      BY <2>2, InsertLink DEF Others
    <3>4. ClosedWhenGone'
      BY <2>1, <3>1, <3>2, <3>3 DEF CloseInv, ClosedWhenGone, H!Loops
    <3>5. InsertedOnce'
      BY <2>1, <3>1, <3>2 DEF CloseInv, InsertedOnce, H!Loops
    <3>6. LockedWhileSending'
      BY <2>1, <3>1 DEF CloseInv, LockedWhileSending, H!Loops
    <3> QED
      BY <3>4, <3>5, <3>6 DEF CloseInv
  <2>3. CASE H!Unregister(l, c)
    <3>1. /\ clients' = clients \ {c} /\ closed' = [closed EXCEPT ![c] = @ \/ c \in clients]
      BY <2>3 DEF H!Unregister
    <3>2. \A k \in H!Loops : c \in loop[k].todo => c \notin clients
      BY <2>1 DEF CloseInv, LockedWhileSending, InsertedOnce
    <3>3. link'[c].pc = "gone" /\ \A d \in Conns \ {c} : link'[d] = link[d]
      BY <2>3, UnregisterLink DEF Others
    <3>7. \A d \in Conns : closed'[d] => closed[d] \/ (d = c /\ c \in clients)
      BY <3>1 DEF HubTypes
    <3>4. ClosedWhenGone'
      BY <2>1, <3>1, <3>3, <3>7 DEF CloseInv, ClosedWhenGone, H!Loops
    <3>5. InsertedOnce'
      BY <2>1, <3>1 DEF CloseInv, InsertedOnce, H!Loops
    <3>6. LockedWhileSending'
      <4>1. \A k \in H!Loops : loop[k].todo \subseteq Conns
        BY DEF HubTypes, LoopShapes
      <4> QED
        BY <2>1, <3>2, <3>7, <4>1 DEF CloseInv, LockedWhileSending, H!Loops
    <3> QED
      BY <3>4, <3>5, <3>6 DEF CloseInv
  <2> QED
    BY <1>7, <2>2, <2>3
<1>8. \/ UNCHANGED <<loop, clients, closed>>
      \/ \E l \in H!Loops : \/ H!Take(l) \/ H!Store(l) \/ H!Broadcast(l) \/ H!Sent(l)
                           \/ \E c \in Conns : \/ H!Register(l, c) \/ H!Insert(l, c)
                                               \/ H!Unregister(l, c) \/ H!SendTo(l, c)
  BY DEF H!HubNext, H!hubVars, H!Start, H!StopServer, H!HubStep, H!Dial, H!Serve, H!GetHistory,
     H!StartPumps, H!WriteNext, H!StopWriting, H!StopReading, H!Drop, H!Post, H!HubUnchanged
<1> QED
  BY <1>2, <1>4, <1>5, <1>6, <1>7, <1>8

-----------------------------------------------------------------------------
(* No chat falls into a gap.                                               *)

\* The history is the end of what was stored, and no notice.
HistoryIsTail ==
    /\ Len(history) = IF Len(log) > MaxHistory THEN MaxHistory ELSE Len(log)
    /\ \A i \in 1 .. Len(history) : history[i] = log[Len(log) - Len(history) + i]
    /\ \A k \in 1 .. Len(log) : log[k] # H!Notice

Reached(c) == H!ToSet(got[c]) \cup H!ToSet(sendQ[c]) \cup H!OnTheWay(c) \cup missed[c]

\* A registered client gets what is stored from then on.
LiveArrives ==
    \A c \in clients :
        /\ link[c].joinedAt <= Len(log)
        /\ link[c].open =>
              \A k \in 1 .. Len(log) : k > link[c].joinedAt => log[k] \in Reached(c)

\* A client that has asked for the history gets what was kept when it was read.
PastArrives ==
    \A c \in Conns : link[c].asks /\ link[c].pc \in {"history", "pumping"} =>
        /\ link[c].readAt <= Len(log)
        /\ \A k \in 1 .. Len(log) : k <= link[c].readAt /\ k + MaxHistory > link[c].readAt =>
              /\ link[c].pc = "history" => log[k] \in H!ToSet(link[c].hist)
              /\ link[c].pc = "pumping" /\ link[c].open => log[k] \in H!ToSet(got[c])

GapInv == HistoryIsTail /\ LiveArrives /\ PastArrives

\* What the peer of c has received, it keeps.
LEMMA GotGrows ==
  ASSUME HubTypes, [H!HubNext]_(H!hubVars), NEW c \in Conns
  PROVE  H!ToSet(got[c]) \subseteq H!ToSet(got'[c])
<1> USE DEF HubTypes
<1>1. ASSUME NEW d \in Conns, H!StartPumps(d) PROVE H!ToSet(got[c]) \subseteq H!ToSet(got'[c])
  <2>1. link[d].hist \in Seq(Nat)
    BY DEF LinkShapes
  <2>2. H!ToSet(got[d]) \subseteq H!ToSet(got[d] \o link[d].hist)
    BY <2>1, ConcatFacts
  <2>3. got' = got \/ got' = [got EXCEPT ![d] = got[d] \o link[d].hist]
    BY <1>1 DEF H!StartPumps
  <2> QED
    BY <2>2, <2>3
<1>2. ASSUME NEW d \in Conns, H!WriteNext(d) PROVE H!ToSet(got[c]) \subseteq H!ToSet(got'[c])
  <2>1. Head(sendQ[d]) \in Nat
    BY <1>2, TailFacts DEF H!WriteNext
  <2>2. H!ToSet(got[d]) \subseteq H!ToSet(Append(got[d], Head(sendQ[d])))
    BY <2>1, AppendFacts
  <2>3. got' = got \/ got' = [got EXCEPT ![d] = Append(got[d], Head(sendQ[d]))]
    BY <1>2 DEF H!WriteNext
  <2> QED
    BY <2>2, <2>3
<1>3. got' = got \/ \E d \in Conns : H!StartPumps(d) \/ H!WriteNext(d)
  BY DEF H!HubNext, H!hubVars, H!Start, H!StopServer, H!HubStep, H!Take, H!Store,
     H!Broadcast, H!Sent, H!Register, H!Insert, H!Unregister, H!SendTo, H!Dial, H!Serve,
     H!GetHistory, H!StopWriting, H!StopReading, H!Drop, H!Post
<1> QED
  BY <1>1, <1>2, <1>3

\* A chat is not taken from a client before it is somewhere else for it.
LEMMA ReachedGrows ==
  ASSUME HubTypes, [H!HubNext]_(H!hubVars), NEW c \in clients, link'[c].open,
         NEW m \in Reached(c), m # H!Notice
  PROVE  m \in Reached(c)'
<1> USE DEF HubTypes
<1>1. c \in Conns
  OBVIOUS
<1>2. ASSUME m \in H!ToSet(got[c]) PROVE m \in H!ToSet(got'[c])
  BY <1>1, <1>2, GotGrows
<1>3. ASSUME m \in H!ToSet(sendQ[c]) PROVE m \in H!ToSet(sendQ'[c]) \cup H!ToSet(got'[c])
  <2>1. ASSUME NEW l \in H!Loops, NEW d \in Conns, H!SendTo(l, d)
        PROVE  H!ToSet(sendQ[c]) \subseteq H!ToSet(sendQ'[c])
    <3>1. loop[l].msg \in Nat
      BY DEF LoopShapes
    <3>2. H!ToSet(sendQ[d]) \subseteq H!ToSet(Append(sendQ[d], loop[l].msg))
      BY <3>1, AppendFacts
    <3>3. sendQ' = sendQ \/ sendQ' = [sendQ EXCEPT ![d] = Append(sendQ[d], loop[l].msg)]
      BY <2>1 DEF H!SendTo
    <3> QED
      BY <1>1, <3>2, <3>3
  <2>2. ASSUME NEW d \in Conns, H!WriteNext(d)
        PROVE  m \in H!ToSet(sendQ'[c]) \cup H!ToSet(got'[c])
    <3>1. CASE d # c
      BY <1>1, <1>3, <2>2, <3>1 DEF H!WriteNext
    <3>2. CASE d = c
      <4>1. link[c].open
        BY <1>1, <2>2, <3>2, CloseLink
      <4>2. /\ sendQ[c] # <<>> /\ sendQ'[c] = Tail(sendQ[c])
            /\ got'[c] = IF Head(sendQ[c]) = H!Notice THEN got[c]
                         ELSE Append(got[c], Head(sendQ[c]))
        BY <1>1, <2>2, <3>2, <4>1 DEF H!WriteNext
      <4>3. Head(sendQ[c]) \in Nat /\ m \in H!ToSet(Tail(sendQ[c])) \cup {Head(sendQ[c])}
        BY <1>1, <1>3, <4>2, TailFacts
      <4>4. Head(sendQ[c]) \in H!ToSet(Append(got[c], Head(sendQ[c])))
        BY <1>1, <4>3, AppendFacts
      <4> QED
        BY <4>2, <4>3, <4>4
    <3> QED
      BY <3>1, <3>2
  <2>3. \/ sendQ' = sendQ \/ \E d \in Conns : H!WriteNext(d)
        \/ \E l \in H!Loops, d \in Conns : H!SendTo(l, d)
    BY DEF H!HubNext, H!hubVars, H!Start, H!StopServer, H!HubStep, H!Take, H!Store,
       H!Broadcast, H!Sent, H!Register, H!Insert, H!Unregister, H!Dial, H!Serve,
       H!GetHistory, H!StartPumps, H!StopWriting, H!StopReading, H!Drop, H!Post
  <2> QED
    BY <1>3, <2>1, <2>2, <2>3
<1>4. ASSUME m \in missed[c] PROVE m \in missed'[c]
  <2>1. ASSUME NEW l \in H!Loops, NEW d \in Conns, H!SendTo(l, d)
        PROVE  missed[c] \subseteq missed'[c]
    BY <1>1, <2>1 DEF H!SendTo
  <2>2. missed' = missed \/ \E l \in H!Loops, d \in Conns : H!SendTo(l, d)
    BY DEF H!HubNext, H!hubVars, H!Start, H!StopServer, H!HubStep, H!Take, H!Store,
       H!Broadcast, H!Sent, H!Register, H!Insert, H!Unregister, H!Dial, H!Serve, H!WriteNext,
       H!GetHistory, H!StartPumps, H!StopWriting, H!StopReading, H!Drop, H!Post, H!HubUnchanged
  <2> QED
    BY <1>4, <2>1, <2>2
<1>5. ASSUME m \in H!OnTheWay(c) PROVE m \in Reached(c)'
  <2>1. PICK k \in H!Loops : /\ loop[k].msg = m
                             /\ loop[k].pc = "pass" \/ (loop[k].pc = "send" /\ c \in loop[k].todo)
    BY <1>5 DEF H!OnTheWay
  <2>2. CASE loop'[k] = loop[k]
    BY <2>1, <2>2 DEF Reached, H!OnTheWay
  <2>3. CASE H!Broadcast(k)
    <3>1. loop'[k].msg = m /\ loop'[k].pc = "send" /\ loop'[k].todo = clients
      BY <2>1, <2>3 DEF H!Broadcast, LoopShapes
    <3> QED
      BY <3>1 DEF Reached, H!OnTheWay
  <2>4. ASSUME NEW d \in Conns, H!SendTo(k, d) PROVE m \in Reached(c)'
    <3>1. loop'[k].msg = m /\ loop'[k].pc = "send" /\ loop'[k].todo = loop[k].todo \ {d}
      BY <2>1, <2>4 DEF H!SendTo, LoopShapes
    <3>2. CASE d # c
      BY <2>1, <2>4, <3>1, <3>2 DEF Reached, H!OnTheWay, H!SendTo
    <3>3. CASE d = c
      <4>1. m \in Nat /\ m \in H!ToSet(Append(sendQ[c], m))
        BY <1>1, <2>1, AppendFacts DEF LoopShapes
      <4>2. sendQ'[c] = Append(sendQ[c], m) \/ m \in missed'[c]
        BY <1>1, <2>1, <2>4, <3>3 DEF H!SendTo
      <4> QED
        BY <4>1, <4>2 DEF Reached
    <3> QED
      BY <3>2, <3>3
  <2>5. \/ loop'[k] = loop[k] \/ H!Broadcast(k) \/ \E d \in Conns : H!SendTo(k, d)
    <3>1. ASSUME NEW l \in H!Loops, l # k, H!HubStep(l) PROVE loop'[k] = loop[k]
      BY <3>1 DEF H!HubStep, H!Take, H!Store, H!Broadcast, H!Sent, H!Register, H!Insert, H!Unregister,
         H!SendTo, H!Pass
    <3>2. ~H!Take(k) /\ ~H!Store(k) /\ ~H!Sent(k)
          /\ \A d \in Conns : ~H!Register(k, d) /\ ~H!Insert(k, d) /\ ~H!Unregister(k, d)
      BY <2>1 DEF H!Take, H!Store, H!Sent, H!Register, H!Insert, H!Unregister
    <3> QED
      BY <3>1, <3>2 DEF H!HubNext, H!hubVars, H!Start, H!StopServer, H!HubStep, H!Dial,
         H!Serve, H!GetHistory, H!StartPumps, H!WriteNext, H!StopWriting, H!StopReading,
         H!Drop, H!Post, H!HubUnchanged
  <2> QED
    BY <2>2, <2>3, <2>4, <2>5
<1> QED
  BY <1>2, <1>3, <1>4, <1>5 DEF Reached

\* What becomes of the sequence of the chats stored.
LEMMA LogGrows ==
  ASSUME HubTypes, [H!HubNext]_(H!hubVars)
  PROVE  \/ log' = log /\ history' = history
         \/ \E l \in H!Loops : /\ H!Store(l) /\ loop[l].msg # H!Notice
                              /\ log' = Append(log, loop[l].msg)
                              /\ history' = H!LastOf(Append(history, loop[l].msg), MaxHistory)
<1>1. ASSUME NEW l \in H!Loops, H!Store(l)
      PROVE  \/ log' = log /\ history' = history
             \/ /\ loop[l].msg # H!Notice
                /\ log' = Append(log, loop[l].msg)
                /\ history' = H!LastOf(Append(history, loop[l].msg), MaxHistory)
  BY <1>1 DEF H!Store
<1>2. (log' = log /\ history' = history) \/ \E l \in H!Loops : H!Store(l)
  BY ZenonT(40) DEF H!HubNext, H!hubVars, H!Start, H!StopServer, H!HubStep, H!Take,
     H!Broadcast, H!Sent,
     H!Register, H!Insert, H!Unregister, H!SendTo, H!Dial, H!Serve, H!WriteNext, H!GetHistory,
     H!StartPumps, H!StopWriting, H!StopReading, H!Drop, H!Post, H!HubUnchanged
<1> QED
  BY <1>1, <1>2

LEMMA TailStep == HubTypes /\ HistoryIsTail /\ [H!HubNext]_(H!hubVars) => HistoryIsTail'
<1> SUFFICES ASSUME HubTypes, HistoryIsTail, [H!HubNext]_(H!hubVars) PROVE HistoryIsTail'
  OBVIOUS
<1>1. CASE log' = log /\ history' = history
  BY <1>1 DEF HistoryIsTail
<1>2. ASSUME NEW m \in Nat, m # H!Notice, log' = Append(log, m),
             history' = H!LastOf(Append(history, m), MaxHistory)
      PROVE  HistoryIsTail'
  <2> DEFINE a == Append(history, m)
  <2>1. /\ log \in Seq(Nat) /\ history \in Seq(Nat) /\ MaxHistory \in Nat
        /\ Len(log) \in Nat /\ Len(history) \in Nat
    BY LenProperties, HubAssumption DEF HubTypes, HubAssumption
  <2>2. /\ Len(log') = Len(log) + 1 /\ log'[Len(log) + 1] = m
        /\ \A i \in 1 .. Len(log) : log'[i] = log[i]
    BY <1>2, <2>1, AppendFacts
  <2>3. /\ a \in Seq(Nat) /\ Len(a) = Len(history) + 1 /\ a[Len(history) + 1] = m
        /\ \A i \in 1 .. Len(history) : a[i] = history[i]
    BY <1>2, <2>1, AppendFacts
  <2>4. /\ Len(history') = IF Len(a) > MaxHistory THEN MaxHistory ELSE Len(a)
        /\ \A i \in 1 .. Len(history') : history'[i] = a[Len(a) - Len(history') + i]
    BY <1>2, <2>1, <2>3, LastOfFacts
  <2> HIDE DEF a
  <2>5. Len(history) = IF Len(log) > MaxHistory THEN MaxHistory ELSE Len(log)
    BY DEF HistoryIsTail
  <2>6. Len(history') = IF Len(log') > MaxHistory THEN MaxHistory ELSE Len(log')
    BY <2>1, <2>2, <2>3, <2>4, <2>5
  <2>7. ASSUME NEW i \in 1 .. Len(history')
        PROVE  history'[i] = log'[Len(log') - Len(history') + i]
    <3>1. Len(history') \in Nat /\ Len(history') <= Len(history) + 1
      BY <2>1, <2>3, <2>4
    <3>5. history'[i] = a[Len(a) - Len(history') + i]
      BY <2>4
    <3>2. CASE i = Len(history')
      <4>1. Len(a) - Len(history') + i = Len(history) + 1
        BY <2>1, <2>3, <3>1, <3>2
      <4>2. Len(log') - Len(history') + i = Len(log) + 1
        BY <2>1, <2>2, <3>1, <3>2
      <4> QED
        BY <2>2, <2>3, <3>5, <4>1, <4>2
    <3>3. CASE i # Len(history')
      <4> DEFINE j == Len(history) + 1 - Len(history') + i
      <4>1. j \in 1 .. Len(history) /\ i \in Int
        BY <2>1, <3>1, <3>3
      <4>2. history'[i] = history[j]
        <5>1. Len(a) - Len(history') + i = j
          BY <2>1, <2>3, <3>1, <4>1
        <5> HIDE DEF j
        <5> QED
          BY <2>3, <3>5, <4>1, <5>1
      <4>3. history[j] = log[Len(log) - Len(history) + j]
        BY <4>1 DEF HistoryIsTail
      <4>4. Len(log) - Len(history) + j = Len(log') - Len(history') + i
        BY <2>1, <2>2, <3>1, <4>1
      <4>5. Len(log) - Len(history) + j \in 1 .. Len(log)
        BY <2>1, <2>5, <4>1
      <4> HIDE DEF j
      <4> QED
        BY <2>2, <4>2, <4>3, <4>4, <4>5
    <3> QED
      BY <3>2, <3>3
  <2>8. ASSUME NEW k \in 1 .. Len(log') PROVE log'[k] # H!Notice
    BY <1>2, <2>1, <2>2 DEF HistoryIsTail
  <2> QED
    BY <2>6, <2>7, <2>8 DEF HistoryIsTail
<1>3. \A l \in H!Loops : loop[l].msg \in Nat
  BY DEF HubTypes, LoopShapes
<1> QED
  BY <1>1, <1>2, <1>3, LogGrows

\* A chat keeps its place in the log.
LEMMA LogKeeps ==
  ASSUME HubTypes, [H!HubNext]_(H!hubVars)
  PROVE  /\ Len(log) \in Nat /\ Len(log') \in Nat /\ Len(log) <= Len(log')
         /\ \A k \in 1 .. Len(log) : log'[k] = log[k]
<1>1. log \in Seq(Nat) /\ \A l \in H!Loops : loop[l].msg \in Nat
  BY DEF HubTypes, LoopShapes
<1>2. Len(log) \in Nat
  BY <1>1, LenProperties
<1>3. CASE log' = log
  BY <1>2, <1>3
<1>4. ASSUME NEW m \in Nat, log' = Append(log, m)
      PROVE  /\ Len(log') \in Nat /\ Len(log) <= Len(log')
             /\ \A k \in 1 .. Len(log) : log'[k] = log[k]
  BY <1>1, <1>2, <1>4, AppendFacts
<1> QED
  BY <1>1, <1>2, <1>3, <1>4, LogGrows

\* A client gets into the set by its insertion.
LEMMA ClientsMove ==
  ASSUME [H!HubNext]_(H!hubVars), NEW c \in clients'
  PROVE  c \in clients \/ \E l \in H!Loops : H!Insert(l, c)
<1>1. ASSUME NEW l \in H!Loops, NEW d \in Conns, H!Insert(l, d) \/ H!Unregister(l, d)
      PROVE  c \in clients \/ H!Insert(l, c)
  BY <1>1 DEF H!Insert, H!Unregister
<1>2. \/ clients' = clients
      \/ \E l \in H!Loops, d \in Conns : H!Insert(l, d) \/ H!Unregister(l, d)
  BY DEF H!HubNext, H!hubVars, H!Start, H!StopServer, H!HubStep, H!Take, H!Store, H!Broadcast,
     H!Sent, H!SendTo, H!Register, H!Dial, H!Serve, H!WriteNext, H!GetHistory,
     H!StartPumps, H!StopWriting, H!StopReading, H!Drop, H!Post, H!HubUnchanged
<1> QED
  BY <1>1, <1>2

\* What a step may do to a connection.
LEMMA LinkKeeps ==
  ASSUME HubTypes, [H!HubNext]_(H!hubVars), NEW c \in Conns, link[c].pc # "away"
  PROVE  /\ (link'[c].open => link[c].open) /\ link'[c].asks = link[c].asks
         /\ link'[c].joinedAt = link[c].joinedAt \/ \E l \in H!Loops : H!Insert(l, c)
         /\ \/ link'[c].pc = link[c].pc \/ link'[c].pc \in {"joined", "leaving", "gone"}
            \/ H!GetHistory(c) \/ H!StartPumps(c)
         /\ H!GetHistory(c) \/ (link'[c].hist = link[c].hist /\ link'[c].readAt = link[c].readAt)
<1>1. CASE UNCHANGED link
  BY <1>1
<1>2. ASSUME NEW l \in H!Loops, NEW d \in Conns,
             H!Register(l, d) \/ H!Insert(l, d) \/ H!Unregister(l, d)
      PROVE  /\ link'[c].open = link[c].open /\ link'[c].asks = link[c].asks
             /\ link'[c].joinedAt = link[c].joinedAt \/ H!Insert(l, c)
             /\ link'[c].pc = link[c].pc \/ link'[c].pc \in {"joined", "gone"}
             /\ link'[c].hist = link[c].hist /\ link'[c].readAt = link[c].readAt
  BY <1>2, RegisterLink, InsertLink, UnregisterLink DEF Others
<1>3. ASSUME NEW d \in Conns, d # c, H!Dial(d) \/ H!Serve(d) \/ H!Drop(d)
      PROVE  link'[c] = link[c]
  BY <1>3, DialLink, HistoryLink, PumpsLink, CloseLink DEF Others, H!Serve
<1>4. ASSUME H!Serve(c) \/ H!Drop(c)
      PROVE  /\ (link'[c].open => link[c].open) /\ link'[c].asks = link[c].asks
             /\ link'[c].joinedAt = link[c].joinedAt
             /\ \/ link'[c].pc = link[c].pc \/ link'[c].pc = "leaving"
                \/ H!GetHistory(c) \/ H!StartPumps(c)
             /\ \/ H!GetHistory(c)
                \/ link'[c].hist = link[c].hist /\ link'[c].readAt = link[c].readAt
  BY <1>4, HistoryLink, PumpsLink, CloseLink DEF H!Serve
<1>5. ~H!Dial(c)
  BY DEF H!Dial, H!At
<1>6. \/ UNCHANGED link \/ \E d \in Conns : H!Dial(d) \/ H!Serve(d) \/ H!Drop(d)
      \/ \E l \in H!Loops, d \in Conns :
            H!Register(l, d) \/ H!Insert(l, d) \/ H!Unregister(l, d)
  BY DEF H!HubNext, H!hubVars, H!Start, H!StopServer, H!HubStep, H!Take, H!Store, H!Broadcast,
     H!Sent, H!SendTo, H!Post, H!HubUnchanged
<1> QED
  BY <1>1, <1>2, <1>3, <1>4, <1>5, <1>6

LEMMA LiveStep ==
  HubTypes /\ CloseInv /\ HistoryIsTail /\ LiveArrives /\ [H!HubNext]_(H!hubVars) => LiveArrives'
<1> SUFFICES ASSUME HubTypes, CloseInv, HistoryIsTail, LiveArrives, [H!HubNext]_(H!hubVars),
                    NEW c \in clients'
             PROVE  /\ link'[c].joinedAt <= Len(log')
                    /\ link'[c].open =>
                          \A k \in 1 .. Len(log') : k > link'[c].joinedAt => log'[k] \in Reached(c)'
  BY DEF LiveArrives
<1>1. c \in Conns /\ HubTypes' /\ CloseInv'
  <2>1. HubTypes' /\ CloseInv'
    BY TypesStep, CloseStep
  <2> QED
    BY <2>1 DEF HubTypes
<1>2. CASE \E l \in H!Loops : H!Insert(l, c)
  <2>1. PICK l \in H!Loops : H!Insert(l, c)
    BY <1>2
  <2>2. link'[c].joinedAt = Len(log) /\ log' = log
    BY <1>1, <2>1, InsertLink DEF H!Insert
  <2>3. Len(log) \in Nat
    BY LogKeeps
  <2> QED
    BY <2>2, <2>3
<1>3. CASE ~\E l \in H!Loops : H!Insert(l, c)
  <2>1. c \in clients /\ link[c].pc # "away"
    <3>1. c \in clients
      BY <1>3, ClientsMove
    <3> QED
      BY <1>1, <3>1 DEF CloseInv, ClosedWhenGone
  <2>2. link'[c].joinedAt = link[c].joinedAt /\ (link'[c].open => link[c].open)
    BY <1>1, <1>3, <2>1, LinkKeeps
  <2>3. /\ link[c].joinedAt <= Len(log)
        /\ link[c].open =>
              \A k \in 1 .. Len(log) : k > link[c].joinedAt => log[k] \in Reached(c)
    BY <2>1 DEF LiveArrives
  <2>4. link[c].joinedAt \in Nat
    BY <1>1 DEF HubTypes, LinkShapes
  <2>5. link'[c].joinedAt <= Len(log')
    BY <2>2, <2>3, <2>4, LogKeeps
  <2>6. ASSUME link'[c].open, NEW k \in 1 .. Len(log'), k > link'[c].joinedAt
        PROVE  log'[k] \in Reached(c)'
    <3>1. CASE k \in 1 .. Len(log)
      <4>1. log'[k] = log[k] /\ log[k] \in Reached(c) /\ log[k] # H!Notice
        BY <2>2, <2>3, <2>6, <3>1, LogKeeps DEF HistoryIsTail
      <4> QED
        BY <2>1, <2>6, <4>1, ReachedGrows
    <3>2. CASE k \notin 1 .. Len(log)
      <4>1. log \in Seq(Nat) /\ \A l \in H!Loops : loop[l].msg \in Nat
        BY DEF HubTypes, LoopShapes
      <4>2. log' # log
        BY <3>2
      <4>3. PICK l \in H!Loops : H!Store(l) /\ log' = Append(log, loop[l].msg)
        BY <4>2, LogGrows
      <4>4. log'[k] = loop[l].msg
        <5>1. /\ Len(log) \in Nat /\ Len(log') = Len(log) + 1
              /\ log'[Len(log) + 1] = loop[l].msg
          BY <4>1, <4>3, AppendFacts
        <5>2. k = Len(log) + 1
          BY <3>2, <5>1
        <5> QED
          BY <5>1, <5>2
      <4>5. loop'[l].msg = loop[l].msg /\ loop'[l].pc = "pass"
        BY <4>3 DEF H!Store, H!Pass, HubTypes
      <4>6. loop'[l].msg \in H!OnTheWay(c)'
        BY <4>5 DEF H!OnTheWay, H!Loops
      <4> QED
        BY <4>4, <4>5, <4>6 DEF Reached
    <3> QED
      BY <3>1, <3>2
  <2> QED
    BY <2>5, <2>6
<1> QED
  BY <1>2, <1>3

\* Of a log of which the history is the end, all that it can hold is in the history.
LEMMA HistoryHolds ==
  ASSUME HubTypes, HistoryIsTail, NEW k \in 1 .. Len(log), k + MaxHistory > Len(log)
  PROVE  log[k] \in H!ToSet(history)
<1> DEFINE i == k - Len(log) + Len(history)
<1>1. Len(log) \in Nat /\ Len(history) \in Nat /\ DOMAIN history = 1 .. Len(history)
      /\ MaxHistory \in Nat
  BY LenProperties, HubAssumption DEF HubTypes, HubAssumption
<1>2. i \in 1 .. Len(history)
  BY <1>1 DEF HistoryIsTail
<1>3. history[i] = log[k]
  <2>1. Len(log) - Len(history) + i = k
    BY <1>1
  <2> HIDE DEF i
  <2> QED
    BY <1>2, <2>1 DEF HistoryIsTail
<1> HIDE DEF i
<1> QED
  BY <1>1, <1>2, <1>3 DEF H!ToSet

LEMMA PastStep ==
  HubTypes /\ CloseInv /\ GapInv /\ [H!HubNext]_(H!hubVars) => PastArrives'
<1> SUFFICES ASSUME HubTypes, CloseInv, GapInv, [H!HubNext]_(H!hubVars), NEW c \in Conns,
                    link'[c].asks, link'[c].pc \in {"history", "pumping"}
             PROVE  /\ link'[c].readAt <= Len(log')
                    /\ \A k \in 1 .. Len(log') :
                         k <= link'[c].readAt /\ k + MaxHistory > link'[c].readAt =>
                           /\ link'[c].pc = "history" => log'[k] \in H!ToSet(link'[c].hist)
                           /\ link'[c].pc = "pumping" /\ link'[c].open =>
                                log'[k] \in H!ToSet(got'[c])
  BY DEF PastArrives
<1>1. /\ link[c].readAt \in Nat /\ Len(log) \in Nat /\ Len(log') \in Nat /\ Len(log) <= Len(log')
      /\ \A k \in 1 .. Len(log) : log'[k] = log[k]
  BY LogKeeps DEF HubTypes, LinkShapes
<1>2. CASE H!GetHistory(c)
  <2>1. /\ link[c].pc = "joined" /\ link'[c].pc = "history" /\ link'[c].hist = history
        /\ link'[c].readAt = Len(log) /\ log' = log
    BY <1>2, HistoryLink DEF H!GetHistory, H!HubUnchanged
  <2> QED
    BY <1>1, <2>1, HistoryHolds DEF GapInv
<1>3. CASE H!StartPumps(c)
  <2>1. /\ link[c].pc = "history" /\ link[c].asks /\ link'[c].pc = "pumping"
        /\ link'[c].open = link[c].open /\ link'[c].readAt = link[c].readAt /\ log' = log
    BY <1>3, PumpsLink DEF H!StartPumps, H!HubUnchanged
  <2>2. link[c].open => got'[c] = got[c] \o link[c].hist
    BY <1>3 DEF H!StartPumps, HubTypes
  <2>3. H!ToSet(link[c].hist) \subseteq H!ToSet(got[c] \o link[c].hist)
    BY ConcatFacts DEF HubTypes, LinkShapes
  <2> QED
    BY <1>1, <2>1, <2>2, <2>3 DEF GapInv, PastArrives
<1>4. CASE ~H!GetHistory(c) /\ ~H!StartPumps(c)
  <2>1. link[c].pc # "away"
    BY LinkMoves
  <2>2. /\ link'[c].pc = link[c].pc /\ link'[c].asks = link[c].asks
        /\ (link'[c].open => link[c].open)
        /\ link'[c].hist = link[c].hist /\ link'[c].readAt = link[c].readAt
    BY <1>4, <2>1, LinkKeeps
  <2>3. /\ link[c].readAt <= Len(log)
        /\ \A k \in 1 .. Len(log) : k <= link[c].readAt /\ k + MaxHistory > link[c].readAt =>
              /\ link[c].pc = "history" => log[k] \in H!ToSet(link[c].hist)
              /\ link[c].pc = "pumping" /\ link[c].open => log[k] \in H!ToSet(got[c])
    BY <2>2 DEF GapInv, PastArrives
  <2> QED
    BY <1>1, <2>2, <2>3, GotGrows, SMTT(30)
<1> QED
  BY <1>2, <1>3, <1>4

LEMMA GapStep == HubTypes /\ CloseInv /\ GapInv /\ [H!HubNext]_(H!hubVars) => GapInv'
BY TailStep, LiveStep, PastStep DEF GapInv

LEMMA GapStart == H!HubInit => GapInv
<1> SUFFICES ASSUME H!HubInit PROVE GapInv
  OBVIOUS
<1>1. HistoryIsTail
  BY HubAssumption DEF H!HubInit, HistoryIsTail, HubAssumption
<1>2. LiveArrives
  BY DEF H!HubInit, LiveArrives
<1>3. PastArrives
  BY DEF H!HubInit, PastArrives, H!NoLink
<1> QED
  BY <1>1, <1>2, <1>3 DEF GapInv

-----------------------------------------------------------------------------
(* A peer sees the chats in order, while one loop serves them.             *)

\* Numbers of chats: a notice has none.
Before(S, U) == \A x \in S, y \in U : x # H!Notice /\ y # H!Notice => x < y
Rising(s) ==
    \A i, j \in 1 .. Len(s) : i < j /\ s[i] # H!Notice /\ s[j] # H!Notice => s[i] < s[j]

\* The messages in the hands of a loop, those of them it has not stored, and those it has
\* not offered to c.
Held == {loop[l].msg : l \in {k \in H!Loops : loop[k].pc # "select"}}
Fresh == {loop[l].msg : l \in {k \in H!Loops : loop[k].pc = "store"}}
DueBy(l, c) ==
    loop[l].pc \in {"store", "pass"} \/ (loop[l].pc = "send" /\ c \in loop[l].todo)
Due(c) == {loop[l].msg : l \in {k \in H!Loops : DueBy(k, c)}}

\* What the peer of c has seen since it saw the history.
Live(c) == {got[c][i] : i \in {j \in 1 .. Len(got[c]) : j > Len(link[c].hist)}}

\* A loop that was not started waits; before its pumps a connection has shown nothing.
Idle ==
    /\ \A l \in H!Loops : l > starts => loop[l].pc = "select"
    /\ \A c \in Conns :
          /\ link[c].pc \in {"away", "register", "joined", "history"} =>
                got[c] = <<>> /\ ~link[c].writer
          /\ link[c].writer /\ link[c].open => Len(link[c].hist) <= Len(got[c])

HubRises ==
    /\ Rising(inbox) /\ Rising(log)
    /\ \A m \in H!ToSet(inbox) \cup Held \cup H!ToSet(log) : m <= posted
    /\ Before(Held, H!ToSet(inbox)) /\ Before(H!ToSet(log), H!ToSet(inbox) \cup Fresh)

QueueRises ==
    \A c \in Conns :
        /\ Rising(sendQ[c]) /\ \A m \in H!ToSet(sendQ[c]) \cup Live(c) : m <= posted
        /\ Before(H!ToSet(sendQ[c]), H!ToSet(inbox) \cup Due(c))
        /\ Before(Live(c), H!ToSet(sendQ[c]) \cup H!ToSet(inbox) \cup Due(c))

PeerSees ==
    \A c \in Conns :
        /\ Rising(link[c].hist) /\ H!Notice \notin H!ToSet(link[c].hist) \cup H!ToSet(got[c])
        /\ \A i, j \in 1 .. Len(got[c]) :
              i < j => \/ got[c][i] < got[c][j]
                       \/ i <= Len(link[c].hist) /\ j > Len(link[c].hist)

OrderInv == Idle /\ (starts <= 1 => HubRises /\ QueueRises /\ PeerSees)

LEMMA RisingAppend ==
  ASSUME NEW s \in Seq(Nat), NEW m \in Nat, Rising(s), Before(H!ToSet(s), {m})
  PROVE  Rising(Append(s, m))
<1>1. /\ Len(s) \in Nat /\ Len(Append(s, m)) = Len(s) + 1 /\ DOMAIN s = 1 .. Len(s)
      /\ \A i \in 1 .. Len(s) : Append(s, m)[i] = s[i]
      /\ Append(s, m)[Len(s) + 1] = m
  BY AppendFacts
<1>2. \A i \in 1 .. Len(s) : s[i] # H!Notice /\ m # H!Notice => s[i] < m
  BY <1>1 DEF Before, H!ToSet
<1> SUFFICES ASSUME NEW i \in 1 .. Len(s) + 1, NEW j \in 1 .. Len(s) + 1, i < j,
                    Append(s, m)[i] # H!Notice, Append(s, m)[j] # H!Notice
             PROVE  Append(s, m)[i] < Append(s, m)[j]
  BY <1>1 DEF Rising
<1>3. i \in 1 .. Len(s)
  BY <1>1
<1>4. CASE j \in 1 .. Len(s)
  BY <1>1, <1>3, <1>4 DEF Rising
<1>5. CASE j = Len(s) + 1
  BY <1>1, <1>2, <1>3, <1>5
<1> QED
  BY <1>1, <1>4, <1>5

LEMMA RisingTail ==
  ASSUME NEW s \in Seq(Nat), s # <<>>, Rising(s)
  PROVE  Rising(Tail(s)) /\ Before({Head(s)}, H!ToSet(Tail(s)))
<1>1. /\ Tail(s) \in Seq(Nat) /\ Len(s) \in Nat \ {0} /\ Len(Tail(s)) = Len(s) - 1
      /\ DOMAIN Tail(s) = 1 .. Len(s) - 1 /\ Head(s) = s[1]
      /\ \A i \in 1 .. Len(s) - 1 : Tail(s)[i] = s[i + 1]
  BY TailFacts
<1>2. ASSUME NEW i \in 1 .. Len(s) - 1, NEW j \in 1 .. Len(s) - 1, i < j,
             Tail(s)[i] # H!Notice, Tail(s)[j] # H!Notice
      PROVE  Tail(s)[i] < Tail(s)[j]
  <2>1. i + 1 \in 1 .. Len(s) /\ j + 1 \in 1 .. Len(s) /\ i + 1 < j + 1
    BY <1>1, <1>2
  <2> QED
    BY <1>1, <1>2, <2>1 DEF Rising
<1>3. ASSUME NEW j \in 1 .. Len(s) - 1, Head(s) # H!Notice, Tail(s)[j] # H!Notice
      PROVE  Head(s) < Tail(s)[j]
  <2>1. 1 \in 1 .. Len(s) /\ j + 1 \in 1 .. Len(s) /\ 1 < j + 1
    BY <1>1
  <2> QED
    BY <1>1, <1>3, <2>1 DEF Rising
<1>4. Rising(Tail(s))
  BY <1>1, <1>2 DEF Rising
<1>5. Before({Head(s)}, H!ToSet(Tail(s)))
  BY <1>1, <1>3 DEF Before, H!ToSet
<1> QED
  BY <1>4, <1>5

\* What the history holds is in order when the log is.
LEMMA RisingHistory ==
  ASSUME HubTypes, HistoryIsTail, Rising(log)
  PROVE  Rising(history) /\ H!Notice \notin H!ToSet(history)
<1>1. /\ Len(log) \in Nat /\ Len(history) \in Nat /\ MaxHistory \in Nat
      /\ DOMAIN history = 1 .. Len(history)
  BY LenProperties, HubAssumption DEF HubTypes, HubAssumption
<1>2. ASSUME NEW i \in 1 .. Len(history)
      PROVE  /\ Len(log) - Len(history) + i \in 1 .. Len(log)
             /\ history[i] = log[Len(log) - Len(history) + i]
             /\ history[i] # H!Notice
  <2>1. Len(log) - Len(history) + i \in 1 .. Len(log)
    BY <1>1 DEF HistoryIsTail
  <2> QED
    BY <2>1 DEF HistoryIsTail
<1>3. ASSUME NEW i \in 1 .. Len(history), NEW j \in 1 .. Len(history), i < j
      PROVE  history[i] < history[j]
  <2>1. Len(log) - Len(history) + i < Len(log) - Len(history) + j
    BY <1>1, <1>3
  <2> QED
    BY <1>2, <2>1 DEF Rising
<1> QED
  BY <1>1, <1>2, <1>3 DEF Rising, H!ToSet

-----------------------------------------------------------------------------
(* How a message moves.                                                    *)

LEMMA HubSteps ==
  ASSUME HubTypes, [H!HubNext]_(H!hubVars), NEW k \in H!Loops
  PROVE  loop'[k] = loop[k] \/ H!HubStep(k)
<1>1. ASSUME NEW l \in H!Loops, l # k, H!HubStep(l) PROVE loop'[k] = loop[k]
  BY <1>1 DEF HubTypes, H!HubStep, H!Take, H!Store, H!Broadcast, H!Sent, H!Register, H!Insert,
     H!Unregister, H!SendTo, H!Pass
<1>2. loop' = loop \/ \E l \in H!Loops : H!HubStep(l)
  BY DEF H!HubNext, H!hubVars, H!Start, H!StopServer, H!Dial, H!Serve, H!GetHistory,
     H!StartPumps, H!WriteNext, H!StopWriting, H!StopReading, H!Drop, H!Post, H!HubUnchanged
<1> QED
  BY <1>1, <1>2

\* The moves of loop k.
LEMMA LoopMoves ==
  ASSUME HubTypes, [H!HubNext]_(H!hubVars), NEW k \in H!Loops
  PROVE  \/ loop'[k] = loop[k]
         \/ /\ H!Take(k) /\ loop[k].pc = "select" /\ k <= starts
            /\ loop'[k].pc = "store" /\ loop'[k].msg = Head(inbox)
         \/ /\ H!Store(k) /\ loop[k].pc = "store"
            /\ loop'[k].pc = "pass" /\ loop'[k].msg = loop[k].msg
         \/ /\ loop[k].pc \in {"select", "insert"} /\ (loop[k].pc = "select" => k <= starts)
            /\ loop'[k].pc \in {"insert", "pass"} /\ loop'[k].msg = H!Notice
         \/ /\ loop[k].pc = "pass" /\ loop'[k].pc = "send" /\ loop'[k].msg = loop[k].msg
         \/ /\ loop[k].pc = "send" /\ loop'[k].pc = "send" /\ loop'[k].msg = loop[k].msg
            /\ \E d \in Conns : H!SendTo(k, d) /\ loop'[k].todo = loop[k].todo \ {d}
         \/ /\ loop[k].pc = "send" /\ loop'[k].pc = "select"
<1> USE DEF HubTypes, LoopShapes, H!Active, H!Pass
<1>1. loop'[k] = loop[k] \/ H!HubStep(k)
  BY HubSteps
<1>2. CASE H!Take(k)
  BY <1>2 DEF H!Take
<1>3. CASE H!Store(k)
  BY <1>3 DEF H!Store
<1>4. CASE H!Broadcast(k)
  BY <1>4 DEF H!Broadcast
<1>5. CASE H!Sent(k)
  BY <1>5 DEF H!Sent, H!Select
<1>6. ASSUME NEW d \in Conns, H!Register(k, d) \/ H!Insert(k, d) \/ H!Unregister(k, d)
      PROVE  /\ loop[k].pc \in {"select", "insert"} /\ (loop[k].pc = "select" => k <= starts)
             /\ loop'[k].pc \in {"insert", "pass"} /\ loop'[k].msg = H!Notice
  <2>1. CASE H!Register(k, d)
    BY <2>1 DEF H!Register
  <2>2. CASE H!Insert(k, d)
    BY <2>2 DEF H!Insert
  <2>3. CASE H!Unregister(k, d)
    BY <2>3 DEF H!Unregister
  <2> QED
    BY <1>6, <2>1, <2>2, <2>3
<1>7. ASSUME NEW d \in Conns, H!SendTo(k, d)
      PROVE  /\ loop[k].pc = "send" /\ loop'[k].pc = "send" /\ loop'[k].msg = loop[k].msg
             /\ loop'[k].todo = loop[k].todo \ {d}
  BY <1>7 DEF H!SendTo
<1> HIDE DEF HubTypes, LoopShapes, H!Active, H!Pass
<1> QED
  BY <1>1, <1>2, <1>3, <1>4, <1>5, <1>6, <1>7 DEF H!HubStep

\* The moves of the messages that wait for a loop.
LEMMA InboxMoves ==
  ASSUME HubTypes, [H!HubNext]_(H!hubVars)
  PROVE  \/ inbox' = inbox /\ posted' = posted /\ \A l \in H!Loops : ~H!Take(l)
         \/ /\ posted' = posted /\ inbox # <<>> /\ inbox' = Tail(inbox)
            /\ \E l \in H!Loops : H!Take(l)
         \/ /\ posted' = posted + 1 /\ UNCHANGED <<loop, log, sendQ, got, link>>
            /\ \E m \in {posted + 1, H!Notice} : inbox' = Append(inbox, m)
<1>1. ASSUME NEW l \in H!Loops, H!Take(l)
      PROVE  posted' = posted /\ inbox # <<>> /\ inbox' = Tail(inbox)
  BY <1>1 DEF H!Take
<1>2. CASE H!Post
  BY <1>2 DEF H!Post, H!HubUnchanged
<1>3. \/ inbox' = inbox /\ posted' = posted
      \/ H!Post \/ \E l \in H!Loops : H!Take(l)
  BY ZenonT(40) DEF H!HubNext, H!hubVars, H!Start, H!StopServer, H!HubStep, H!Store,
     H!Broadcast,
     H!Sent, H!Register, H!Insert, H!Unregister, H!SendTo, H!Dial, H!Serve, H!GetHistory,
     H!StartPumps, H!WriteNext, H!StopWriting, H!StopReading, H!Drop, H!HubUnchanged
<1> QED
  BY <1>1, <1>2, <1>3

LEMMA StartsGrow == HubTypes /\ [H!HubNext]_(H!hubVars) => starts \in Nat /\ starts <= starts'
<1> SUFFICES ASSUME HubTypes, [H!HubNext]_(H!hubVars) PROVE starts \in Nat /\ starts <= starts'
  OBVIOUS
<1>1. starts \in Nat /\ (starts' = starts \/ starts' = starts + 1)
  BY DEF HubTypes, H!HubNext, H!hubVars, H!Start, H!StopServer, H!HubStep, H!Take, H!Store,
         H!Broadcast,
     H!Sent, H!Register, H!Insert, H!Unregister, H!SendTo, H!Dial, H!Serve, H!GetHistory,
     H!StartPumps, H!WriteNext, H!StopWriting, H!StopReading, H!Drop, H!Post, H!HubUnchanged
<1> QED
  BY <1>1

Early == {"away", "register", "joined", "history"}

\* The moves of connection c and of what its peer has received.
LEMMA PeerMoves ==
  ASSUME HubTypes, [H!HubNext]_(H!hubVars), NEW c \in Conns
  PROVE  \/ /\ got'[c] = got[c] /\ link'[c].hist = link[c].hist
            /\ (link'[c].writer => link[c].writer) /\ (link'[c].open => link[c].open)
            /\ link'[c].pc \in Early => link[c].pc \in Early
         \/ /\ got'[c] = got[c] /\ link[c].pc \in {"away", "joined"}
            /\ (link'[c].writer => link[c].writer) /\ link'[c].pc \in {"register", "history"}
            /\ link'[c].hist \in {<<>>, history}
         \/ /\ link[c].pc \in Early /\ link'[c].pc = "pumping"
            /\ link'[c].hist = link[c].hist /\ link'[c].open = link[c].open
            /\ got'[c] = IF link[c].open THEN got[c] \o link[c].hist ELSE got[c]
         \/ /\ H!WriteNext(c) /\ link[c].writer /\ link[c].open /\ link'[c] = link[c]
            /\ sendQ[c] # <<>> /\ sendQ'[c] = Tail(sendQ[c])
            /\ got'[c] = IF Head(sendQ[c]) = H!Notice THEN got[c]
                         ELSE Append(got[c], Head(sendQ[c]))
<1>1. CASE UNCHANGED <<link, got>>
  BY <1>1
<1>2. ASSUME NEW l \in H!Loops, NEW d \in Conns,
             H!Register(l, d) \/ H!Insert(l, d) \/ H!Unregister(l, d)
      PROVE  /\ got' = got /\ link'[c].hist = link[c].hist
             /\ link'[c].writer = link[c].writer /\ link'[c].open = link[c].open
             /\ link'[c].pc \in Early => link[c].pc \in Early
  <2>1. got' = got
    BY <1>2 DEF H!Register, H!Insert, H!Unregister
  <2>2. CASE d # c
    BY <1>2, <2>1, <2>2, RegisterLink, InsertLink, UnregisterLink DEF Others
  <2>3. CASE d = c /\ H!Register(l, d)
    BY <2>1, <2>3, RegisterLink DEF Early
  <2>5. CASE d = c /\ H!Insert(l, d)
    BY <2>1, <2>5, InsertLink
  <2>4. CASE d = c /\ H!Unregister(l, d)
    BY <2>1, <2>4, UnregisterLink DEF Early
  <2> QED
    BY <1>2, <2>2, <2>3, <2>4, <2>5
<1>3. ASSUME NEW d \in Conns, d # c, H!Dial(d) \/ H!Serve(d) \/ H!Drop(d)
      PROVE  got'[c] = got[c] /\ link'[c] = link[c]
  <2>1. got'[c] = got[c]
    BY <1>3 DEF HubTypes, H!Dial, H!Serve, H!WriteNext, H!GetHistory, H!StartPumps,
       H!StopWriting, H!StopReading, H!Drop
  <2> QED
    BY <1>3, <2>1, DialLink, HistoryLink, PumpsLink, CloseLink DEF Others, H!Serve
<1>4. CASE H!Dial(c)
  <2>1. got' = got
    BY <1>4 DEF H!Dial
  <2> QED
    BY <1>4, <2>1, DialLink
<1>5. CASE H!GetHistory(c)
  <2>1. got' = got
    BY <1>5 DEF H!GetHistory
  <2> QED
    BY <1>5, <2>1, HistoryLink
<1>6. CASE H!StartPumps(c)
  <2>1. got'[c] = IF link[c].open THEN got[c] \o link[c].hist ELSE got[c]
    BY <1>6 DEF H!StartPumps, HubTypes
  <2> QED
    BY <1>6, <2>1, PumpsLink DEF Early
<1>7. CASE H!WriteNext(c) /\ link[c].open
  <2>1. /\ link[c].writer /\ link'[c] = link[c] /\ sendQ[c] # <<>> /\ sendQ'[c] = Tail(sendQ[c])
        /\ got'[c] = IF Head(sendQ[c]) = H!Notice THEN got[c]
                     ELSE Append(got[c], Head(sendQ[c]))
    BY <1>7 DEF H!WriteNext, HubTypes
  <2> QED
    BY <1>7, <2>1
<1>8. CASE (H!WriteNext(c) /\ ~link[c].open) \/ H!StopWriting(c) \/ H!StopReading(c) \/ H!Drop(c)
  <2>1. got' = got
    BY <1>8 DEF H!WriteNext, H!StopWriting, H!StopReading, H!Drop
  <2> QED
    BY <1>8, <2>1, CloseLink DEF Early
<1>9. \/ UNCHANGED <<link, got>> \/ \E d \in Conns : H!Dial(d) \/ H!Serve(d) \/ H!Drop(d)
      \/ \E l \in H!Loops, d \in Conns :
            H!Register(l, d) \/ H!Insert(l, d) \/ H!Unregister(l, d)
  BY DEF H!HubNext, H!hubVars, H!Start, H!StopServer, H!HubStep, H!Take, H!Store, H!Broadcast,
     H!Sent, H!SendTo, H!Post, H!HubUnchanged
<1> QED
  BY <1>1, <1>2, <1>3, <1>4, <1>5, <1>6, <1>7, <1>8, <1>9 DEF H!Serve

\* The moves of the buffer of c.
LEMMA QueueMoves ==
  ASSUME HubTypes, [H!HubNext]_(H!hubVars), NEW c \in Conns
  PROVE  \/ sendQ'[c] = sendQ[c]
         \/ /\ UNCHANGED <<got, link, inbox, posted, starts>>
            /\ \E l \in H!Loops : H!SendTo(l, c) /\ sendQ'[c] = Append(sendQ[c], loop[l].msg)
         \/ H!WriteNext(c) /\ sendQ[c] # <<>> /\ sendQ'[c] = Tail(sendQ[c])
<1>1. ASSUME NEW l \in H!Loops, NEW d \in Conns, H!SendTo(l, d)
      PROVE  \/ sendQ'[c] = sendQ[c]
             \/ /\ d = c /\ sendQ'[c] = Append(sendQ[c], loop[l].msg)
                /\ UNCHANGED <<got, link, inbox, posted, starts>>
  BY <1>1 DEF H!SendTo, HubTypes
<1>2. ASSUME NEW d \in Conns, H!WriteNext(d)
      PROVE  \/ sendQ'[c] = sendQ[c]
             \/ d = c /\ sendQ[c] # <<>> /\ sendQ'[c] = Tail(sendQ[c])
  BY <1>2 DEF H!WriteNext, HubTypes
<1>3. \/ sendQ' = sendQ \/ \E d \in Conns : H!WriteNext(d)
      \/ \E l \in H!Loops, d \in Conns : H!SendTo(l, d)
  BY DEF H!HubNext, H!hubVars, H!Start, H!StopServer, H!HubStep, H!Take, H!Store,
     H!Broadcast, H!Sent, H!Register, H!Insert, H!Unregister, H!Dial, H!Serve,
     H!GetHistory, H!StartPumps, H!StopWriting, H!StopReading, H!Drop, H!Post
<1> QED
  BY <1>1, <1>2, <1>3

LEMMA IdleStep == HubTypes /\ Idle /\ [H!HubNext]_(H!hubVars) => Idle'
<1> SUFFICES ASSUME HubTypes, Idle, [H!HubNext]_(H!hubVars) PROVE Idle'
  OBVIOUS
<1>1. ASSUME NEW k \in H!Loops, k > starts' PROVE loop'[k].pc = "select"
  <2>1. k \in Nat /\ ~(k <= starts) /\ starts' \in Nat
    BY <1>1, HubAssumption, StartsGrow, TypesStep DEF H!Loops, HubTypes
  <2>2. loop[k].pc = "select"
    BY <2>1, StartsGrow DEF Idle
  <2> QED
    BY <2>1, <2>2, LoopMoves
<1>2. ASSUME NEW c \in Conns
      PROVE  /\ link'[c].pc \in Early => got'[c] = <<>> /\ ~link'[c].writer
             /\ link'[c].writer /\ link'[c].open => Len(link'[c].hist) <= Len(got'[c])
  <2>1. /\ link[c].pc \in Early => got[c] = <<>> /\ ~link[c].writer
        /\ link[c].writer /\ link[c].open => Len(link[c].hist) <= Len(got[c])
    BY DEF Idle, Early
  <2>2. got[c] \in Seq(Nat) /\ link[c].hist \in Seq(Nat) /\ sendQ[c] \in Seq(Nat)
    BY DEF HubTypes, LinkShapes
  <2>3. CASE /\ got'[c] = got[c] /\ link'[c].hist = link[c].hist
             /\ (link'[c].writer => link[c].writer) /\ (link'[c].open => link[c].open)
             /\ link'[c].pc \in Early => link[c].pc \in Early
    BY <2>1, <2>3
  <2>4. CASE /\ got'[c] = got[c] /\ link[c].pc \in {"away", "joined"}
             /\ (link'[c].writer => link[c].writer) /\ link'[c].pc \in {"register", "history"}
    BY <2>1, <2>4 DEF Early
  <2>5. CASE /\ link[c].pc \in Early /\ link'[c].pc = "pumping"
             /\ link'[c].hist = link[c].hist /\ link'[c].open = link[c].open
             /\ got'[c] = IF link[c].open THEN got[c] \o link[c].hist ELSE got[c]
    <3>1. Len(got[c] \o link[c].hist) = Len(got[c]) + Len(link[c].hist)
          /\ Len(got[c]) \in Nat /\ Len(link[c].hist) \in Nat
      BY <2>2, ConcatFacts
    <3>2. link'[c].pc \notin Early
      BY <2>5 DEF Early
    <3>3. CASE link[c].open
      <4> DEFINE n == Len(got[c] \o link[c].hist)
                 g == Len(got[c])
                 h == Len(link[c].hist)
      <4>2. n = g + h /\ g \in Nat /\ h \in Nat
        BY <3>1
      <4>3. ASSUME n = g + h, g \in Nat, h \in Nat PROVE h <= n
        <5> HIDE DEF n, g, h
        <5> QED
          BY <4>3
      <4>1. Len(link[c].hist) <= Len(got[c] \o link[c].hist)
        BY <4>2, <4>3
      <4> QED
        BY <2>5, <3>2, <3>3, <4>1
    <3>4. CASE ~link[c].open
      BY <2>5, <3>2, <3>4
    <3> QED
      BY <3>3, <3>4
  <2>6. CASE /\ link[c].writer /\ link[c].open /\ link'[c] = link[c] /\ sendQ[c] # <<>>
             /\ got'[c] = IF Head(sendQ[c]) = H!Notice THEN got[c]
                          ELSE Append(got[c], Head(sendQ[c]))
    <3>1. Head(sendQ[c]) \in Nat
      BY <2>2, <2>6, TailFacts
    <3>2. Len(Append(got[c], Head(sendQ[c]))) = Len(got[c]) + 1 /\ Len(got[c]) \in Nat
      BY <2>2, <3>1, AppendFacts
    <3>3. Len(link[c].hist) \in Nat
      BY <2>2, LenProperties
    <3> QED
      BY <2>1, <2>6, <3>2, <3>3
  <2> QED
    BY <2>3, <2>4, <2>5, <2>6, PeerMoves
<1> QED
  BY <1>1, <1>2 DEF Idle, Early, H!Loops

\* The server was started once at most: it is the first loop that has a message.
LEMMA OnlyFirst ==
  ASSUME HubTypes, Idle, starts <= 1, NEW k \in H!Loops, loop[k].pc # "select"
  PROVE  k = 1
BY HubAssumption DEF HubTypes, Idle, HubAssumption, H!Loops

LEMMA HubRisesStep ==
  HubTypes /\ Idle /\ starts <= 1 /\ HubRises /\ [H!HubNext]_(H!hubVars) => HubRises'
<1> SUFFICES ASSUME HubTypes, Idle, starts <= 1, HubRises, [H!HubNext]_(H!hubVars)
             PROVE  HubRises'
  OBVIOUS
<1>1. /\ inbox \in Seq(Nat) /\ log \in Seq(Nat) /\ posted \in Nat
      /\ H!ToSet(inbox) \subseteq Nat /\ H!ToSet(log) \subseteq Nat
      /\ \A l \in H!Loops : loop[l].msg \in Nat
  <2>1. inbox \in Seq(Nat) /\ log \in Seq(Nat) /\ posted \in Nat
        /\ \A l \in H!Loops : loop[l].msg \in Nat
    BY DEF HubTypes, LoopShapes
  <2>2. \A s \in Seq(Nat) : H!ToSet(s) \subseteq Nat
    BY LenProperties, ElementOfSeq DEF H!ToSet
  <2> QED
    BY <2>1, <2>2
<1>2. Held \subseteq Nat
  BY <1>1 DEF Held
<1>3. CASE inbox' = inbox /\ posted' = posted /\ \A l \in H!Loops : ~H!Take(l)
  <2>1. Held' \subseteq Held \cup {H!Notice}
    <3>1. ASSUME NEW k \in H!Loops, loop'[k].pc # "select"
          PROVE  loop'[k].msg \in Held \cup {H!Notice}
      BY <1>3, <3>1, LoopMoves DEF Held
    <3> QED
      BY <3>1 DEF Held, H!Loops
  <2>2. Before(Held', H!ToSet(inbox'))
    BY <1>3, <2>1 DEF HubRises, Before
  <2>3. CASE log' = log
    <3>1. Fresh' \subseteq Fresh
      <4>1. ASSUME NEW k \in H!Loops, loop'[k].pc = "store" PROVE loop'[k] = loop[k]
        BY <1>3, <4>1, LoopMoves
      <4> QED
        BY <4>1 DEF Fresh, H!Loops
    <3>2. Before(H!ToSet(log'), H!ToSet(inbox') \cup Fresh')
      BY <1>3, <2>3, <3>1 DEF HubRises, Before
    <3>3. \A m \in H!ToSet(inbox') \cup Held' \cup H!ToSet(log') : m <= posted'
      BY <1>1, <1>3, <2>1, <2>3 DEF HubRises, H!Notice
    <3> QED
      BY <1>3, <2>2, <2>3, <3>2, <3>3 DEF HubRises
  <2>4. ASSUME NEW l \in H!Loops, H!Store(l), log' = Append(log, loop[l].msg)
        PROVE  HubRises'
    <3>1. loop[l].pc = "store" /\ loop'[l].pc = "pass"
      BY <2>4 DEF H!Store, H!Pass, HubTypes
    <3>2. loop[l].msg \in Fresh /\ loop[l].msg \in Held
      BY <3>1 DEF Fresh, Held
    <3>3. Fresh' = {}
      <4>1. ASSUME NEW k \in H!Loops, loop'[k].pc = "store" PROVE FALSE
        <5>1. loop[k].pc = "store"
          BY <1>3, <4>1, LoopMoves
        <5>2. k = 1 /\ l = 1
          BY <3>1, <5>1, OnlyFirst
        <5> QED
          BY <3>1, <4>1, <5>2
      <4> QED
        BY <4>1 DEF Fresh, H!Loops
    <3>4. H!ToSet(log') = H!ToSet(log) \cup {loop[l].msg}
      BY <1>1, <2>4, AppendFacts
    <3>5. Before(H!ToSet(log), {loop[l].msg})
      BY <3>2 DEF HubRises, Before
    <3>6. Rising(log')
      BY <1>1, <2>4, <3>5, RisingAppend DEF HubRises
    <3>7. Before(H!ToSet(log'), H!ToSet(inbox') \cup Fresh')
      BY <1>3, <3>2, <3>3, <3>4 DEF HubRises, Before
    <3>8. \A m \in H!ToSet(inbox') \cup Held' \cup H!ToSet(log') : m <= posted'
      BY <1>1, <1>3, <2>1, <3>2, <3>4 DEF HubRises, H!Notice
    <3> QED
      BY <1>3, <2>2, <3>6, <3>7, <3>8 DEF HubRises
  <2> QED
    BY <2>3, <2>4, LogGrows
<1>4. ASSUME posted' = posted, inbox # <<>>, inbox' = Tail(inbox),
             NEW l \in H!Loops, H!Take(l)
      PROVE  HubRises'
  <2>1. /\ H!ToSet(inbox) = H!ToSet(inbox') \cup {Head(inbox)}
        /\ Rising(inbox') /\ Before({Head(inbox)}, H!ToSet(inbox'))
    BY <1>1, <1>4, TailFacts, RisingTail DEF HubRises
  <2>2. log' = log
    BY <1>4 DEF H!Take
  <2>3. Held' \subseteq Held \cup {H!Notice, Head(inbox)}
    <3>1. ASSUME NEW k \in H!Loops, loop'[k].pc # "select"
          PROVE  loop'[k].msg \in Held \cup {H!Notice, Head(inbox)}
      BY <3>1, LoopMoves DEF Held
    <3> QED
      BY <3>1 DEF Held, H!Loops
  <2>4. Fresh' \subseteq Fresh \cup {Head(inbox)}
    <3>1. ASSUME NEW k \in H!Loops, loop'[k].pc = "store"
          PROVE  loop'[k].msg \in Fresh \cup {Head(inbox)}
      BY <3>1, LoopMoves DEF Fresh
    <3> QED
      BY <3>1 DEF Fresh, H!Loops
  <2>5. Before(Held', H!ToSet(inbox'))
    BY <2>1, <2>3 DEF HubRises, Before
  <2>6. Before(H!ToSet(log'), H!ToSet(inbox') \cup Fresh')
    BY <2>1, <2>2, <2>4 DEF HubRises, Before
  <2>7. \A m \in H!ToSet(inbox') \cup Held' \cup H!ToSet(log') : m <= posted'
    BY <1>1, <1>4, <2>1, <2>2, <2>3 DEF HubRises, H!Notice
  <2> QED
    BY <2>1, <2>2, <2>5, <2>6, <2>7 DEF HubRises
<1>5. ASSUME posted' = posted + 1, UNCHANGED <<loop, log>>,
             NEW m \in {posted + 1, H!Notice}, inbox' = Append(inbox, m)
      PROVE  HubRises'
  <2>1. m \in Nat
    BY <1>1 DEF H!Notice
  <2>2. H!ToSet(inbox') = H!ToSet(inbox) \cup {m}
    BY <1>1, <1>5, <2>1, AppendFacts
  <2>3. ASSUME NEW x \in H!ToSet(inbox) \cup Held \cup H!ToSet(log), m # H!Notice
        PROVE  x < m
    <3>1. x <= posted /\ x \in Nat /\ m = posted + 1
      BY <1>1, <1>2, <1>5, <2>3 DEF HubRises
    <3> QED
      BY <1>1, <3>1
  <2>4. Rising(inbox')
    <3>1. Before(H!ToSet(inbox), {m})
      BY <2>3 DEF Before
    <3> QED
      BY <1>1, <1>5, <2>1, <3>1, RisingAppend DEF HubRises
  <2>5. Held' = Held /\ Fresh' = Fresh /\ log' = log
    BY <1>5 DEF Held, Fresh, H!Loops
  <2>6. Before(Held', H!ToSet(inbox'))
    BY <2>2, <2>3, <2>5 DEF HubRises, Before
  <2>7. Before(H!ToSet(log'), H!ToSet(inbox') \cup Fresh')
    BY <2>2, <2>3, <2>5 DEF HubRises, Before
  <2>8. \A x \in H!ToSet(inbox') \cup Held' \cup H!ToSet(log') : x <= posted'
    <3>1. \A x \in H!ToSet(inbox) \cup Held \cup H!ToSet(log) : x <= posted /\ x \in Nat
      BY <1>1, <1>2 DEF HubRises
    <3> QED
      BY <1>1, <1>5, <2>1, <2>2, <2>5, <3>1 DEF H!Notice
  <2> QED
    BY <2>4, <2>5, <2>6, <2>7, <2>8 DEF HubRises
<1> QED
  BY <1>3, <1>4, <1>5, InboxMoves

\* What may still come to c: what could before, a notice, or a chat sent just now.
LEMMA DueMoves ==
  ASSUME HubTypes, [H!HubNext]_(H!hubVars), NEW c \in Conns,
         NEW m \in H!ToSet(inbox') \cup Due(c)'
  PROVE  \/ m \in H!ToSet(inbox) \cup Due(c) \cup {H!Notice}
         \/ m = posted + 1 /\ posted' = posted + 1
<1>1. inbox \in Seq(Nat) /\ posted \in Nat
  BY DEF HubTypes
<1>2. CASE m \in Due(c)'
  <2>1. PICK k \in H!Loops : DueBy(k, c)' /\ loop'[k].msg = m
    BY <1>2 DEF Due, H!Loops
  <2>2. CASE loop'[k] = loop[k] \/ DueBy(k, c) \/ loop'[k].msg = H!Notice
    BY <2>1, <2>2, LoopMoves DEF Due, DueBy
  <2>3. CASE loop[k].pc = "pass" \/ loop[k].pc = "store"
    BY <2>2, <2>3 DEF DueBy
  <2>4. CASE H!Take(k) /\ loop'[k].msg = Head(inbox)
    <3>1. Head(inbox) \in H!ToSet(inbox)
      BY <1>1, <2>4, TailFacts DEF H!Take
    <3> QED
      BY <2>1, <2>4, <3>1
  <2>5. ASSUME loop[k].pc = "send", NEW d \in Conns, loop'[k].todo = loop[k].todo \ {d},
               loop'[k].pc = "send"
        PROVE  DueBy(k, c)
    BY <2>1, <2>5 DEF DueBy
  <2> QED
    BY <2>1, <2>2, <2>3, <2>4, <2>5, LoopMoves DEF DueBy
<1>3. CASE m \in H!ToSet(inbox')
  <2>1. CASE inbox' = inbox
    BY <1>3, <2>1
  <2>2. CASE inbox # <<>> /\ inbox' = Tail(inbox)
    BY <1>1, <1>3, <2>2, TailFacts
  <2>3. ASSUME NEW n \in {posted + 1, H!Notice}, inbox' = Append(inbox, n), posted' = posted + 1
        PROVE  m \in H!ToSet(inbox) \cup {H!Notice} \/ (m = posted + 1 /\ posted' = posted + 1)
    BY <1>1, <1>3, <2>3, AppendFacts DEF H!Notice
  <2> QED
    BY <2>1, <2>2, <2>3, InboxMoves
<1> QED
  BY <1>2, <1>3

\* What the peer of c sees next comes from its buffer.
LEMMA LiveMoves ==
  ASSUME HubTypes, Idle, [H!HubNext]_(H!hubVars), NEW c \in Conns
  PROVE  \/ Live(c)' \subseteq Live(c)
         \/ /\ Live(c)' \subseteq Live(c) \cup {Head(sendQ[c])}
            /\ sendQ[c] # <<>> /\ sendQ'[c] = Tail(sendQ[c])
<1>1. got[c] \in Seq(Nat) /\ link[c].hist \in Seq(Nat) /\ sendQ[c] \in Seq(Nat)
  BY DEF HubTypes, LinkShapes
<1>2. CASE got'[c] = got[c] /\ link'[c].hist = link[c].hist
  BY <1>2 DEF Live
<1>3. CASE got'[c] = got[c] /\ link[c].pc \in Early
  BY <1>3 DEF Live, Idle, Early
<1>4. CASE /\ link[c].pc \in Early /\ link'[c].hist = link[c].hist
           /\ got'[c] = IF link[c].open THEN got[c] \o link[c].hist ELSE got[c]
  <2>1. got[c] = <<>>
    BY <1>4 DEF Idle, Early
  <2>2. got'[c] = <<>> \/ got'[c] = link[c].hist
    BY <1>1, <1>4, <2>1, ConcatEmptySeq
  <2>3. Live(c)' = {}
    <3>1. CASE got'[c] = <<>>
      BY <3>1 DEF Live
    <3>2. CASE got'[c] = link[c].hist
      <4>1. Len(link[c].hist) \in Nat
        BY <1>1, LenProperties
      <4>2. link'[c].hist = got'[c] /\ Len(got'[c]) \in Nat
        BY <1>4, <3>2, <4>1
      <4>3. \A j \in 1 .. Len(got'[c]) : ~(j > Len(got'[c]))
        BY <4>2
      <4> QED
        BY <4>2, <4>3 DEF Live
    <3> QED
      BY <2>2, <3>1, <3>2
  <2> QED
    BY <2>3
<1>5. CASE /\ link'[c] = link[c] /\ sendQ[c] # <<>> /\ sendQ'[c] = Tail(sendQ[c])
           /\ got'[c] = IF Head(sendQ[c]) = H!Notice THEN got[c]
                        ELSE Append(got[c], Head(sendQ[c]))
  <2>1. Head(sendQ[c]) \in Nat
    BY <1>1, <1>5, TailFacts
  <2>2. /\ Len(got[c]) \in Nat /\ Len(Append(got[c], Head(sendQ[c]))) = Len(got[c]) + 1
        /\ \A i \in 1 .. Len(got[c]) : Append(got[c], Head(sendQ[c]))[i] = got[c][i]
        /\ Append(got[c], Head(sendQ[c]))[Len(got[c]) + 1] = Head(sendQ[c])
    BY <1>1, <2>1, AppendFacts
  <2>3. ASSUME NEW i \in 1 .. Len(got'[c]), i > Len(link[c].hist)
        PROVE  got'[c][i] \in Live(c) \cup {Head(sendQ[c])}
    <3>1. CASE i \in 1 .. Len(got[c])
      BY <1>5, <2>2, <2>3, <3>1 DEF Live
    <3>2. CASE i \notin 1 .. Len(got[c])
      <4>1. got'[c] = Append(got[c], Head(sendQ[c])) /\ i = Len(got[c]) + 1
        BY <1>5, <2>2, <2>3, <3>2
      <4> QED
        BY <2>2, <4>1
    <3> QED
      BY <3>1, <3>2
  <2>4. Live(c)' \subseteq Live(c) \cup {Head(sendQ[c])}
    BY <1>5, <2>3 DEF Live
  <2> QED
    BY <1>5, <2>4
<1> QED
  BY <1>2, <1>3, <1>4, <1>5, PeerMoves DEF Early

LEMMA QueueRisesStep ==
  HubTypes /\ Idle /\ starts <= 1 /\ HubRises /\ QueueRises /\ [H!HubNext]_(H!hubVars)
  => QueueRises'
<1> SUFFICES ASSUME HubTypes, Idle, starts <= 1, HubRises, QueueRises,
                    [H!HubNext]_(H!hubVars), NEW c \in Conns
             PROVE  /\ Rising(sendQ'[c])
                    /\ \A m \in H!ToSet(sendQ'[c]) \cup Live(c)' : m <= posted'
                    /\ Before(H!ToSet(sendQ'[c]), H!ToSet(inbox') \cup Due(c)')
                    /\ Before(Live(c)', H!ToSet(sendQ'[c]) \cup H!ToSet(inbox') \cup Due(c)')
  BY DEF QueueRises
<1> DEFINE Q == H!ToSet(sendQ[c])
           L == Live(c)
           N == H!ToSet(inbox') \cup Due(c)'
<1>1. /\ sendQ[c] \in Seq(Nat) /\ posted \in Nat /\ Q \subseteq Nat /\ L \subseteq Nat
      /\ \A l \in H!Loops : loop[l].msg \in Nat
  <2>1. /\ sendQ[c] \in Seq(Nat) /\ got[c] \in Seq(Nat) /\ posted \in Nat
        /\ \A l \in H!Loops : loop[l].msg \in Nat
    BY DEF HubTypes, LoopShapes
  <2>2. H!ToSet(sendQ[c]) \subseteq Nat
    BY <2>1, LenProperties, ElementOfSeq DEF H!ToSet
  <2>3. Live(c) \subseteq Nat
    BY <2>1, ElementOfSeq DEF Live
  <2> QED
    BY <2>1, <2>2, <2>3
<1>2. /\ Rising(sendQ[c]) /\ \A m \in Q \cup L : m <= posted
      /\ Before(Q, H!ToSet(inbox) \cup Due(c)) /\ Before(L, Q)
      /\ Before(L, H!ToSet(inbox) \cup Due(c))
  BY DEF QueueRises, Before
<1>3. posted <= posted'
  BY <1>1, InboxMoves
<1>4. Before(Q \cup L, N)
  <2>1. ASSUME NEW x \in Q \cup L, NEW m \in N, x # H!Notice, m # H!Notice PROVE x < m
    <3>1. CASE m \in H!ToSet(inbox) \cup Due(c)
      BY <1>2, <2>1, <3>1 DEF Before
    <3>2. CASE m = posted + 1
      <4>1. x \in Nat /\ x <= posted
        BY <1>1, <1>2
      <4> HIDE DEF Q, L, N
      <4> QED
        BY <1>1, <3>2, <4>1
    <3> QED
      BY <2>1, <3>1, <3>2, DueMoves
  <2> QED
    BY <2>1 DEF Before
<1>5. \A m \in Q \cup L : m <= posted'
  <2> HIDE DEF Q, L
  <2>1. posted' \in Nat
    BY TypesStep DEF HubTypes
  <2> QED
    BY <1>1, <1>2, <1>3, <2>1
<1>6. CASE /\ Live(c)' \subseteq L \cup {Head(sendQ[c])}
           /\ sendQ[c] # <<>> /\ sendQ'[c] = Tail(sendQ[c])
  <2>1. /\ Q = H!ToSet(sendQ'[c]) \cup {Head(sendQ[c])}
        /\ Rising(sendQ'[c]) /\ Before({Head(sendQ[c])}, H!ToSet(sendQ'[c]))
    BY <1>1, <1>2, <1>6, TailFacts, RisingTail
  <2> HIDE DEF Q, L, N
  <2>2. Before(Live(c)', H!ToSet(sendQ'[c]))
    BY <1>2, <1>6, <2>1 DEF Before
  <2>3. Before(Live(c)', N) /\ Before(H!ToSet(sendQ'[c]), N)
    BY <1>4, <1>6, <2>1 DEF Before
  <2>4. \A m \in H!ToSet(sendQ'[c]) \cup Live(c)' : m <= posted'
    BY <1>5, <1>6, <2>1
  <2> QED
    BY <2>1, <2>2, <2>3, <2>4 DEF N, Before
<1>7. CASE Live(c)' \subseteq L /\ sendQ'[c] = sendQ[c]
  <2>1. Before(Live(c)', H!ToSet(sendQ'[c])) /\ Rising(sendQ'[c])
    BY <1>2, <1>7 DEF Before
  <2>2. Before(Live(c)', N) /\ Before(H!ToSet(sendQ'[c]), N)
    BY <1>4, <1>7 DEF Before
  <2>3. \A m \in H!ToSet(sendQ'[c]) \cup Live(c)' : m <= posted'
    BY <1>5, <1>7
  <2> QED
    BY <2>1, <2>2, <2>3 DEF Before
<1>8. CASE Live(c)' \subseteq L /\ sendQ[c] # <<>> /\ sendQ'[c] = Tail(sendQ[c])
  BY <1>6, <1>8
<1>9. ASSUME NEW l \in H!Loops, H!SendTo(l, c), sendQ'[c] = Append(sendQ[c], loop[l].msg),
             UNCHANGED <<got, link, inbox, posted, starts>>
      PROVE  /\ Rising(sendQ'[c])
             /\ \A m \in H!ToSet(sendQ'[c]) \cup Live(c)' : m <= posted'
             /\ Before(H!ToSet(sendQ'[c]), H!ToSet(inbox') \cup Due(c)')
             /\ Before(Live(c)', H!ToSet(sendQ'[c]) \cup H!ToSet(inbox') \cup Due(c)')
  <2> DEFINE m == loop[l].msg
  <2>1. /\ loop[l].pc = "send" /\ c \in loop[l].todo /\ loop'[l].pc = "send"
        /\ loop'[l].todo = loop[l].todo \ {c} /\ Live(c)' = L
    BY <1>9 DEF H!SendTo, HubTypes, LoopShapes, Live
  <2>2. m \in Due(c) /\ m \in Held /\ m \in Nat
    BY <1>1, <2>1 DEF Due, DueBy, Held
  <2>3. Due(c)' = {}
    <3>1. ASSUME NEW k \in H!Loops, DueBy(k, c)' PROVE FALSE
      <4>1. loop'[k].pc # "select"
        BY <3>1 DEF DueBy
      <4>2. k = 1 /\ l = 1
        <5>1. l = 1
          BY <2>1, OnlyFirst
        <5>2. loop'[k] = loop[k] \/ k = l
          BY <1>9 DEF H!SendTo, HubTypes
        <5> QED
          BY <4>1, <5>1, <5>2, OnlyFirst
      <4> QED
        BY <2>1, <3>1, <4>2 DEF DueBy
    <3> QED
      BY <3>1 DEF Due, H!Loops
  <2>4. H!ToSet(sendQ'[c]) = Q \cup {m}
    BY <1>1, <1>9, <2>2, AppendFacts
  <2>5. Before(Q, {m}) /\ Before(L, {m}) /\ Before({m}, H!ToSet(inbox'))
    BY <1>2, <1>9, <2>2 DEF Before, HubRises
  <2>6. Rising(sendQ'[c])
    BY <1>1, <1>2, <1>9, <2>2, <2>5, RisingAppend
  <2>7. m <= posted'
    BY <1>9, <2>2 DEF HubRises
  <2> HIDE DEF Q, L, m
  <2> QED
    BY <1>2, <1>4, <1>5, <2>1, <2>3, <2>4, <2>5, <2>6, <2>7 DEF Before
<1> QED
  BY <1>6, <1>7, <1>8, <1>9, LiveMoves, QueueMoves

\* The order in which a peer that was shown the history h has seen the chats s.
Seen(s, h) ==
    \A i, j \in 1 .. Len(s) : i < j => s[i] < s[j] \/ (i <= Len(h) /\ j > Len(h))

LEMMA PeerSeesStep ==
  HubTypes /\ HistoryIsTail /\ Idle /\ starts <= 1 /\ HubRises /\ QueueRises /\ PeerSees
  /\ [H!HubNext]_(H!hubVars) => PeerSees'
<1> SUFFICES ASSUME HubTypes, HistoryIsTail, Idle, starts <= 1, HubRises, QueueRises, PeerSees,
                    [H!HubNext]_(H!hubVars), NEW c \in Conns
             PROVE  /\ Rising(link'[c].hist) /\ H!Notice \notin H!ToSet(link'[c].hist)
                    /\ H!Notice \notin H!ToSet(got'[c]) /\ Seen(got'[c], link'[c].hist)
  BY DEF PeerSees, Seen
<1>1. /\ got[c] \in Seq(Nat) /\ link[c].hist \in Seq(Nat) /\ sendQ[c] \in Seq(Nat)
      /\ Len(got[c]) \in Nat /\ Len(link[c].hist) \in Nat
  BY LenProperties DEF HubTypes, LinkShapes
<1>2. /\ Rising(link[c].hist) /\ H!Notice \notin H!ToSet(link[c].hist)
      /\ H!Notice \notin H!ToSet(got[c]) /\ Seen(got[c], link[c].hist)
  BY DEF PeerSees, Seen
<1>3. CASE got'[c] = got[c] /\ link'[c].hist = link[c].hist
  BY <1>2, <1>3
<1>4. CASE got'[c] = got[c] /\ link[c].pc \in Early /\ link'[c].hist \in {<<>>, history}
  <2>1. got'[c] = <<>>
    BY <1>4 DEF Idle, Early
  <2>2. Rising(<<>>) /\ H!Notice \notin H!ToSet(<<>>) /\ \A h : Seen(<<>>, h)
    BY DEF Rising, Seen, H!ToSet
  <2>3. Rising(history) /\ H!Notice \notin H!ToSet(history)
    BY RisingHistory DEF HubRises
  <2> QED
    BY <1>4, <2>1, <2>2, <2>3
<1>5. CASE /\ link[c].pc \in Early /\ link'[c].hist = link[c].hist
           /\ got'[c] = IF link[c].open THEN got[c] \o link[c].hist ELSE got[c]
  <2>1. got[c] = <<>>
    BY <1>5 DEF Idle, Early
  <2>2. got'[c] = got[c] \/ got'[c] = link[c].hist
    BY <1>1, <1>5, <2>1, ConcatEmptySeq
  <2>3. Seen(link[c].hist, link[c].hist)
    <3>1. DOMAIN link[c].hist = 1 .. Len(link[c].hist)
      BY <1>1, LenProperties
    <3> QED
      BY <1>2, <3>1 DEF Rising, Seen, H!ToSet
  <2> QED
    BY <1>2, <1>5, <2>2, <2>3
<1>6. CASE /\ link'[c] = link[c] /\ link[c].writer /\ link[c].open /\ sendQ[c] # <<>>
           /\ got'[c] = Append(got[c], Head(sendQ[c])) /\ Head(sendQ[c]) # H!Notice
  <2> DEFINE m == Head(sendQ[c])
  <2>1. m \in Nat /\ m \in H!ToSet(sendQ[c])
    BY <1>1, <1>6, TailFacts
  <2>2. /\ Len(got'[c]) = Len(got[c]) + 1 /\ got'[c][Len(got[c]) + 1] = m
        /\ \A i \in 1 .. Len(got[c]) : got'[c][i] = got[c][i]
        /\ H!ToSet(got'[c]) = H!ToSet(got[c]) \cup {m}
        /\ DOMAIN got[c] = 1 .. Len(got[c])
    BY <1>1, <1>6, <2>1, AppendFacts
  <2>3. Len(link[c].hist) <= Len(got[c])
    BY <1>6 DEF Idle
  <2>4. ASSUME NEW i \in 1 .. Len(got[c]), i > Len(link[c].hist) PROVE got[c][i] < m
    <3>1. got[c][i] \in Live(c)
      BY <2>4 DEF Live
    <3>2. got[c][i] # H!Notice
      BY <1>2, <2>2 DEF H!ToSet
    <3> QED
      BY <1>6, <2>1, <3>1, <3>2 DEF QueueRises, Before
  <2>5. ASSUME NEW i \in 1 .. Len(got'[c]), NEW j \in 1 .. Len(got'[c]), i < j,
               ~(i <= Len(link[c].hist) /\ j > Len(link[c].hist))
        PROVE  got'[c][i] < got'[c][j]
    <3> HIDE DEF m
    <3>1. i \in 1 .. Len(got[c])
      BY <1>1, <2>2, <2>5
    <3>2. CASE j \in 1 .. Len(got[c])
      BY <1>2, <2>2, <2>5, <3>1, <3>2 DEF Seen
    <3>3. CASE j = Len(got[c]) + 1
      <4>1. i > Len(link[c].hist)
        BY <1>1, <2>3, <2>5, <3>1, <3>3
      <4> QED
        BY <2>2, <2>4, <3>1, <3>3, <4>1
    <3> QED
      BY <1>1, <2>2, <3>2, <3>3
  <2>6. Seen(got'[c], link'[c].hist)
    BY <1>6, <2>5 DEF Seen
  <2> QED
    BY <1>2, <1>6, <2>2, <2>6
<1> QED
  BY <1>3, <1>4, <1>5, <1>6, PeerMoves DEF Early

LEMMA OrderStart == H!HubInit => OrderInv
<1> SUFFICES ASSUME H!HubInit PROVE OrderInv
  OBVIOUS
<1>1. /\ inbox = <<>> /\ log = <<>> /\ posted = 0 /\ starts = 0
      /\ \A l \in H!Loops : loop[l].pc = "select"
      /\ \A c \in Conns : /\ sendQ[c] = <<>> /\ got[c] = <<>> /\ link[c].hist = <<>>
                          /\ ~link[c].writer
  BY DEF H!HubInit, H!NoLink, H!Select
<1>2. Rising(<<>>) /\ H!ToSet(<<>>) = {}
  BY DEF Rising, H!ToSet
<1>3. Held = {} /\ Fresh = {} /\ \A c \in Conns : Due(c) = {} /\ Live(c) = {}
  BY <1>1 DEF Held, Fresh, Due, DueBy, Live
<1>4. Idle
  BY <1>1 DEF Idle
<1>5. HubRises
  BY <1>1, <1>2, <1>3 DEF HubRises, Before
<1>6. QueueRises
  BY <1>1, <1>2, <1>3 DEF QueueRises, Before
<1>7. PeerSees
  <2>1. \A i, j \in 1 .. Len(<<>>) : FALSE
    OBVIOUS
  <2> QED
    BY <1>1, <1>2, <2>1 DEF PeerSees
<1> QED
  BY <1>4, <1>5, <1>6, <1>7 DEF OrderInv

LEMMA OrderStep == HubTypes /\ HistoryIsTail /\ OrderInv /\ [H!HubNext]_(H!hubVars) => OrderInv'
<1> SUFFICES ASSUME HubTypes, HistoryIsTail, OrderInv, [H!HubNext]_(H!hubVars) PROVE OrderInv'
  OBVIOUS
<1>1. Idle /\ Idle'
  BY IdleStep DEF OrderInv
<1>2. ASSUME starts' <= 1 PROVE HubRises' /\ QueueRises' /\ PeerSees'
  <2>1. starts <= 1
    BY <1>2, StartsGrow, TypesStep DEF HubTypes
  <2> QED
    BY <1>1, <2>1, HubRisesStep, QueueRisesStep, PeerSeesStep DEF OrderInv
<1> QED
  BY <1>1, <1>2 DEF OrderInv

-----------------------------------------------------------------------------
(* Nothing is stored between the history a client read and its insertion,  *)
(* while one loop has both to do.                                          *)

\* A client that was handed over is in the set, or a loop is about to insert it.
HandedOver ==
    \A c \in Conns : link[c].pc \in {"joined", "history", "pumping", "leaving"} =>
        c \in clients \/ \E l \in H!Loops : loop[l].pc = "insert" /\ loop[l].todo = {c}

\* What was stored before the insertion was stored before the history was read.
NothingStored ==
    starts <= 1 =>
        \A c \in Conns : link[c].asks /\ link[c].pc \in {"history", "pumping"} =>
            IF c \in clients THEN link[c].joinedAt <= link[c].readAt
                             ELSE link[c].readAt = Len(log)

LEMMA HandedStart == H!HubInit => HandedOver /\ NothingStored
BY DEF H!HubInit, H!NoLink, HandedOver, NothingStored

LEMMA ClientsLeave ==
  ASSUME [H!HubNext]_(H!hubVars)
  PROVE  clients \subseteq clients' \/ \E l \in H!Loops, d \in Conns : H!Unregister(l, d)
BY DEF H!HubNext, H!hubVars, H!Start, H!StopServer, H!HubStep, H!Take, H!Store, H!Broadcast,
   H!Sent, H!SendTo, H!Register, H!Insert, H!Dial, H!Serve, H!WriteNext, H!GetHistory,
   H!StartPumps, H!StopWriting, H!StopReading, H!Drop, H!Post, H!HubUnchanged

LEMMA HandedStep == HubTypes /\ HandedOver /\ [H!HubNext]_(H!hubVars) => HandedOver'
<1> SUFFICES ASSUME HubTypes, HandedOver, [H!HubNext]_(H!hubVars), NEW c \in Conns,
                    link'[c].pc \in {"joined", "history", "pumping", "leaving"}
             PROVE  c \in clients' \/ \E l \in H!Loops : loop'[l].pc = "insert" /\ loop'[l].todo = {c}
  BY DEF HandedOver, H!Loops
<1>1. CASE \E l \in H!Loops : H!Register(l, c)
  <2>1. PICK l \in H!Loops : H!Register(l, c)
    BY <1>1
  <2>2. loop'[l].pc = "insert" /\ loop'[l].todo = {c}
    BY <2>1 DEF H!Register, HubTypes
  <2> QED
    BY <2>2
<1>2. CASE ~\E l \in H!Loops : H!Register(l, c)
  <2>1. link[c].pc \in {"joined", "history", "pumping", "leaving"}
    BY <1>2, LinkMoves DEF HubTypes, LinkShapes
  <2>2. CASE c \in clients
    <3>1. ASSUME NEW l \in H!Loops, NEW d \in Conns, H!Unregister(l, d) PROVE d # c
      BY <3>1, UnregisterLink
    <3>2. \/ clients \subseteq clients'
          \/ \E l \in H!Loops, d \in Conns : H!Unregister(l, d)
      BY ClientsLeave
    <3> QED
      BY <2>2, <3>1, <3>2 DEF H!Unregister
  <2>3. ASSUME NEW l \in H!Loops, loop[l].pc = "insert", loop[l].todo = {c}
        PROVE  c \in clients' \/ (loop'[l].pc = "insert" /\ loop'[l].todo = {c})
    <3>1. CASE loop'[l] = loop[l]
      BY <2>3, <3>1
    <3>2. CASE H!HubStep(l)
      <4>1. PICK d \in Conns : H!Insert(l, d)
        BY <2>3, <3>2 DEF H!HubStep, H!Take, H!Store, H!Broadcast, H!Sent, H!Register,
           H!Unregister, H!SendTo
      <4> QED
        BY <2>3, <4>1 DEF H!Insert
    <3> QED
      BY <3>1, <3>2, HubSteps
  <2> QED
    BY <2>1, <2>2, <2>3 DEF HandedOver
<1> QED
  BY <1>1, <1>2

LEMMA StoredStep ==
  HubTypes /\ CloseInv /\ LiveArrives /\ HandedOver /\ NothingStored /\ Idle
  /\ [H!HubNext]_(H!hubVars) => NothingStored'
<1> SUFFICES ASSUME HubTypes, CloseInv, LiveArrives, HandedOver, NothingStored, Idle,
                    [H!HubNext]_(H!hubVars), starts' <= 1, NEW c \in Conns,
                    link'[c].asks, link'[c].pc \in {"history", "pumping"}
             PROVE  IF c \in clients' THEN link'[c].joinedAt <= link'[c].readAt
                                      ELSE link'[c].readAt = Len(log')
  BY DEF NothingStored
<1>1. starts <= 1 /\ Len(log) \in Nat /\ link[c].pc # "away"
  <2>1. starts \in Nat /\ starts' \in Nat /\ starts <= starts'
    BY StartsGrow, TypesStep DEF HubTypes
  <2>2. Len(log) \in Nat
    BY LogKeeps
  <2>3. link[c].pc # "away"
    BY LinkMoves
  <2> QED
    BY <2>1, <2>2, <2>3
<1>2. CASE H!GetHistory(c)
  <2>1. /\ link'[c].readAt = Len(log) /\ link'[c].joinedAt = link[c].joinedAt
        /\ log' = log /\ clients' = clients
    BY <1>2, HistoryLink DEF H!GetHistory, H!HubUnchanged
  <2> QED
    BY <2>1 DEF LiveArrives
<1>3. CASE ~H!GetHistory(c)
  <2>1. /\ link'[c].readAt = link[c].readAt /\ link[c].asks
        /\ link[c].pc \in {"history", "pumping"}
        /\ link'[c].joinedAt = link[c].joinedAt \/ \E l \in H!Loops : H!Insert(l, c)
    <3>1. link[c].asks
      BY <1>1, LinkKeeps
    <3>2. H!StartPumps(c) => link[c].pc = "history"
      BY <3>1, PumpsLink
    <3> QED
      BY <1>1, <1>3, <3>1, <3>2, LinkKeeps
  <2>2. IF c \in clients THEN link[c].joinedAt <= link[c].readAt ELSE link[c].readAt = Len(log)
    BY <1>1, <2>1 DEF NothingStored
  <2>3. CASE \E l \in H!Loops : H!Insert(l, c)
    <3>1. c \notin clients /\ c \in clients' /\ link'[c].joinedAt = Len(log)
      BY <2>3, InsertLink DEF H!Insert, CloseInv, InsertedOnce
    <3> QED
      BY <1>1, <2>1, <2>2, <3>1
  <2>4. CASE ~\E l \in H!Loops : H!Insert(l, c)
    <3>1. c \in clients <=> c \in clients'
      <4>1. ASSUME NEW l \in H!Loops, NEW d \in Conns, H!Unregister(l, d) PROVE d # c
        BY <4>1, UnregisterLink
      <4>2. \/ clients \subseteq clients'
            \/ \E l \in H!Loops, d \in Conns : H!Unregister(l, d)
        BY ClientsLeave
      <4> QED
        BY <2>4, <4>1, <4>2, ClientsMove DEF H!Unregister
    <3>2. CASE c \in clients
      BY <2>1, <2>2, <2>4, <3>1, <3>2
    <3>3. CASE c \notin clients
      <4>1. PICK k \in H!Loops : loop[k].pc = "insert"
        BY <2>1, <3>3 DEF HandedOver
      <4>2. ASSUME NEW l \in H!Loops, H!Store(l) PROVE FALSE
        <5>1. loop[l].pc = "store"
          BY <4>2 DEF H!Store
        <5>2. l = 1 /\ k = 1
          BY <1>1, <4>1, <5>1, OnlyFirst
        <5> QED
          BY <4>1, <5>1, <5>2
      <4>3. log' = log
        BY <4>2, LogGrows
      <4> QED
        BY <2>1, <2>2, <3>1, <3>3, <4>3
    <3> QED
      BY <3>2, <3>3
  <2> QED
    BY <2>3, <2>4
<1> QED
  BY <1>2, <1>3

LEMMA GapMeans ==
  HubTypes /\ GapInv /\ HandedOver /\ NothingStored => H!NoGap
<1> SUFFICES ASSUME HubTypes, GapInv, HandedOver, NothingStored, NEW c \in Conns,
                    H!At(c, "pumping"), link[c].open, link[c].asks, NEW k \in DOMAIN log,
                    H!Promised(c, k)
             PROVE  log[k] \in Reached(c)
  BY DEF H!NoGap, Reached
<1>1. /\ link[c].joinedAt \in Nat /\ link[c].readAt \in Nat /\ k \in 1 .. Len(log)
      /\ link[c].pc = "pumping" /\ Len(log) \in Nat
  BY LenProperties DEF HubTypes, LinkShapes, H!At
<1>2. CASE c \in clients /\ k > link[c].joinedAt
  BY <1>1, <1>2 DEF GapInv, LiveArrives
<1>3. CASE k <= link[c].readAt /\ k + MaxHistory > link[c].readAt
  BY <1>1, <1>3 DEF GapInv, PastArrives, Reached
<1>4. CASE k > link[c].readAt /\ starts <= 1
  <2>1. IF c \in clients THEN link[c].joinedAt <= link[c].readAt ELSE link[c].readAt = Len(log)
    BY <1>1, <1>4 DEF NothingStored
  <2>2. c \in clients /\ k > link[c].joinedAt
    BY <1>1, <1>4, <2>1
  <2> QED
    BY <1>2, <2>2
<1> QED
  BY <1>1, <1>2, <1>3, <1>4 DEF H!Promised

-----------------------------------------------------------------------------
(* The theorems.                                                           *)

HubInv ==
    HubTypes /\ CloseInv /\ GapInv /\ OrderInv /\ HandedOver /\ NothingStored

LEMMA HubStep == Spec => [][H!HubNext]_(H!hubVars) /\ H!HubInit
<1>1. Init => H!HubInit
  BY DEF Init
<1>2. [Next]_vars => [H!HubNext]_(H!hubVars)
  BY DEF Next, vars, hubVars, H!hubVars
<1> QED
  BY <1>1, <1>2, PTL DEF Spec

\* In every reachable state the connections are where CloseInv has them, and a chat is
\* where GapInv has it.
THEOREM HubStays == Spec => []HubInv
<1>1. H!HubInit => HubInv
  BY TypesStart, CloseStart, GapStart, OrderStart, HandedStart DEF HubInv
<1>2. HubInv /\ [H!HubNext]_(H!hubVars) => HubInv'
  BY TypesStep, CloseStep, GapStep, OrderStep, HandedStep, StoredStep
  DEF HubInv, GapInv, OrderInv
<1> QED
  BY <1>1, <1>2, HubStep, PTL

\* Hub.broadcastMessage never sends on a channel that Hub.Run has closed: a client leaves
\* the set under the lock before its channel is closed and does not get into it again, and
\* a loop that holds the read lock has only clients of the set before it, however many
\* loops the restarts of the server have left behind.
THEOREM NoClosedChannelIsSentOn == Spec => []NoSendOnClosed
<1>1. HubInv => NoSendOnClosed
  BY DEF HubInv, CloseInv, ClosedWhenGone, LockedWhileSending, NoSendOnClosed, H!NoSendOnClosed
<1> QED
  BY <1>1, HubStays, PTL

\* A peer that asked for the history has, or has coming, every chat that the history held
\* when it was read and every one stored since Hub.Run put it into the set, but for those
\* skipped because its buffer was full.  While the server has been started once nothing is
\* stored between the two, although the handler may read the history before the insertion:
\* then every chat from the history on arrives, and a peer sees the chats in the order in
\* which they were sent and each one once, but that what the history showed may come again.
THEOREM NoChatIsMissed == Spec => []HubShows
<1>1. HubInv => H!NoGap
  BY GapMeans DEF HubInv
<1>2. HubInv => H!InOrder
  <2> SUFFICES ASSUME HubInv, starts <= 1, NEW c \in Conns, NEW i \in DOMAIN got[c],
                      NEW j \in DOMAIN got[c], i < j
               PROVE  got[c][i] < got[c][j] \/ (i <= Len(link[c].hist) /\ j > Len(link[c].hist))
    BY DEF H!InOrder
  <2>1. DOMAIN got[c] = 1 .. Len(got[c])
    BY LenProperties DEF HubInv, HubTypes
  <2> QED
    BY <2>1 DEF HubInv, OrderInv, PeerSees
<1>3. HubInv => HubShows
  BY <1>1, <1>2 DEF HubShows, H!HubShows
<1> QED
  BY <1>3, HubStays, PTL
=============================================================================
