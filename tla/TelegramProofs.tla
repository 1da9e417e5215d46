--------------------------- MODULE TelegramProofs ---------------------------
(***************************************************************************)
(* The safety of the chat bridge and of the approval cards: for any number *)
(* of texts, taps, requests, crashes and failed writes.                    *)
(***************************************************************************)
EXTENDS TelegramBridge, FiniteSetTheorems, SequenceTheorems, TLAPS

-----------------------------------------------------------------------------
\* A card is rewritten after its request was resolved, and then nobody decides again.
CardsInv ==
  /\ CardsTypeOK
  /\ \A a \in editing : approval[a] = "resolved"
  /\ CardTellsVerdict

-----------------------------------------------------------------------------
Distinct(s) == \A i, j \in 1 .. Len(s) : s[i] = s[j] => i = j

\* The updates below a position of the inbox.
Below(n) == {inbox[i] : i \in 1 .. n}

\* The texts in memory.
Peeked == {peeked} \ {NoText}
Held == Items(queue) \cup Items(parts) \cup Items(extra) \cup Peeked

\* An update is in the inbox once; what the poller is busy with is the one below the
\* offset.
InboxOK ==
  /\ Distinct(inbox)
  /\ poll = "reading" => offset > 0 /\ Current \in Text

\* What was handled: with a state file that is whole, exactly what is below the offset.
HandledOK ==
  /\ \A u \in Update : taken[u] > 0 => u \in Items(inbox)
  /\ ~damaged => disk.offset = offset
  /\ ~damaged => \A i \in 1 .. Len(inbox) : i > offset => taken[inbox[i]] = 0
  /\ ~damaged => \A u \in Update : taken[u] <= 1

Replied == {t \in Text : replies[t] > 0}
HistoryOK == remembered \subseteq Replied /\ disk.history \subseteq Replied

\* The stages of the processor and its dispatch; a batch is let go of once its senders
\* were told, and nobody who is to merge into it forgets it.
StagesOK ==
  /\ proc = "idle" => parts = <<>>
  /\ proc \in {"idle", "gathering", "watching"} => extra = <<>>
  /\ proc \in {"idle", "gathering"} => dispatch = "none"
  /\ peeked # NoText => proc = "watching"
  /\ flag => proc = "stopping"
  /\ dispatch = "recording" => Items(parts) \subseteq told
  /\ dispatch = "done" /\ proc = "watching" => Items(parts) \subseteq told

\* A text is in memory in one place, and was taken in this life of the daemon.
PlacesOK ==
  /\ Distinct(queue) /\ Distinct(parts) /\ Distinct(extra)
  /\ Items(queue) \cap Items(parts) = {}
  /\ Items(queue) \cap Items(extra) = {}
  /\ Items(parts) \cap Items(extra) = {}
  /\ peeked \notin Items(queue) \cup Items(parts) \cup Items(extra)
  /\ Held \subseteq Below(offset)
  /\ poll = "reading" => Current \notin Held

Reading == IF poll = "reading" THEN {Current} ELSE {}

AccountedOK == \A t \in Text : taken[t] > 0 => t \in Held \cup Reading \cup told \cup lost

IInv ==
  /\ CardsInv /\ TypeOK
  /\ InboxOK /\ HandledOK /\ HistoryOK /\ StagesOK /\ PlacesOK /\ AccountedOK

-----------------------------------------------------------------------------
(***************************************************************************)
(* Sequences without a repetition.                                         *)
(***************************************************************************)
LEMMA EmptyItems == Items(<<>>) = {} /\ Distinct(<<>>)
BY DEF Items, Distinct

LEMMA ItemsOf ==
  ASSUME NEW S, NEW s \in Seq(S)
  PROVE  /\ Items(s) = {s[i] : i \in 1 .. Len(s)}
         /\ Items(s) \subseteq S
BY DEF Items

LEMMA AppendItems ==
  ASSUME NEW S, NEW s \in Seq(S), NEW x \in S
  PROVE  /\ Append(s, x) \in Seq(S)
         /\ Items(Append(s, x)) = Items(s) \cup {x}
         /\ Distinct(s) /\ x \notin Items(s) => Distinct(Append(s, x))
<1> DEFINE r == Append(s, x)
<1>1. /\ r \in Seq(S) /\ Len(r) = Len(s) + 1 /\ r[Len(s) + 1] = x
      /\ \A i \in 1 .. Len(s) : r[i] = s[i]
      /\ Len(s) \in Nat
  OBVIOUS
<1> HIDE DEF r
<1>2. Items(s) = {s[i] : i \in 1 .. Len(s)} /\ Items(r) = {r[i] : i \in 1 .. Len(r)}
  BY <1>1, ItemsOf
<1>3. \A i \in 1 .. Len(r) : i \in 1 .. Len(s) \/ i = Len(s) + 1
  BY <1>1
<1>4. 1 .. Len(s) \subseteq 1 .. Len(r) /\ Len(s) + 1 \in 1 .. Len(r)
  BY <1>1
<1>5. Items(r) = Items(s) \cup {x}
  BY <1>1, <1>2, <1>3, <1>4
<1>6. ASSUME Distinct(s), x \notin Items(s) PROVE Distinct(r)
  BY <1>1, <1>2, <1>3, <1>6 DEF Distinct
<1> QED
  BY <1>1, <1>5, <1>6 DEF r

LEMMA TailItems ==
  ASSUME NEW S, NEW s \in Seq(S), s # <<>>
  PROVE  /\ Head(s) \in Items(s) /\ Head(s) \in S /\ Tail(s) \in Seq(S)
         /\ Items(s) = Items(Tail(s)) \cup {Head(s)}
         /\ Distinct(s) => Distinct(Tail(s)) /\ Head(s) \notin Items(Tail(s))
<1> DEFINE r == Tail(s)
<1>1. /\ r \in Seq(S) /\ Len(s) = Len(r) + 1 /\ Head(s) = s[1] /\ Len(r) \in Nat
      /\ \A i \in 1 .. Len(r) : r[i] = s[i + 1]
  OBVIOUS
<1> HIDE DEF r
<1>2. Items(s) = {s[i] : i \in 1 .. Len(s)} /\ Items(r) = {r[i] : i \in 1 .. Len(r)}
  BY <1>1, ItemsOf
<1>3. \A i \in 1 .. Len(s) : i = 1 \/ (i - 1 \in 1 .. Len(r) /\ s[i] = r[i - 1])
  BY <1>1
<1>4. 1 \in 1 .. Len(s) /\ \A i \in 1 .. Len(r) : i + 1 \in 1 .. Len(s) /\ i + 1 # 1
  BY <1>1
<1>5. Items(s) = Items(r) \cup {Head(s)}
  BY <1>1, <1>2, <1>3, <1>4
<1>6. ASSUME Distinct(s) PROVE Distinct(r) /\ Head(s) \notin Items(r)
  <2>1. \A i, j \in 1 .. Len(r) : i + 1 = j + 1 => i = j
    BY <1>1
  <2>2. Distinct(r)
    BY <1>1, <1>4, <1>6, <2>1 DEF Distinct
  <2>3. Head(s) \notin Items(r)
    BY <1>1, <1>2, <1>4, <1>6 DEF Distinct
  <2> QED
    BY <2>2, <2>3
<1>7. Head(s) \in S
  OBVIOUS
<1> QED
  BY <1>1, <1>5, <1>6, <1>7 DEF r

LEMMA ConcatItems ==
  ASSUME NEW S, NEW s \in Seq(S), NEW r \in Seq(S)
  PROVE  /\ s \o r \in Seq(S)
         /\ Items(s \o r) = Items(s) \cup Items(r)
         /\ Distinct(s) /\ Distinct(r) /\ Items(s) \cap Items(r) = {} => Distinct(s \o r)
<1> DEFINE c == s \o r
<1>1. /\ c \in Seq(S) /\ Len(c) = Len(s) + Len(r) /\ Len(s) \in Nat /\ Len(r) \in Nat
      /\ \A i \in 1 .. Len(s) : c[i] = s[i]
      /\ \A i \in 1 .. Len(r) : c[Len(s) + i] = r[i]
  OBVIOUS
<1> HIDE DEF c
<1>2. /\ Items(s) = {s[i] : i \in 1 .. Len(s)} /\ Items(r) = {r[i] : i \in 1 .. Len(r)}
      /\ Items(c) = {c[i] : i \in 1 .. Len(c)}
  BY <1>1, ItemsOf
<1>3. ASSUME NEW i \in 1 .. Len(c), i \notin 1 .. Len(s)
      PROVE  i - Len(s) \in 1 .. Len(r) /\ c[i] = r[i - Len(s)]
  <2>1. i - Len(s) \in 1 .. Len(r) /\ Len(s) + (i - Len(s)) = i
    BY <1>1, <1>3
  <2> QED
    BY <1>1, <2>1
<1>4. /\ 1 .. Len(s) \subseteq 1 .. Len(c)
      /\ \A i \in 1 .. Len(r) : Len(s) + i \in 1 .. Len(c)
  BY <1>1
<1>5. Items(c) = Items(s) \cup Items(r)
  <2>1. ASSUME NEW x \in Items(c) PROVE x \in Items(s) \cup Items(r)
    BY <1>1, <1>2, <1>3, <2>1
  <2>2. ASSUME NEW x \in Items(s) \cup Items(r) PROVE x \in Items(c)
    BY <1>1, <1>2, <1>4, <2>2
  <2> QED
    BY <2>1, <2>2
<1>6. ASSUME Distinct(s), Distinct(r), Items(s) \cap Items(r) = {},
             NEW i \in 1 .. Len(c), NEW j \in 1 .. Len(c), c[i] = c[j]
      PROVE  i = j
  <2>1. CASE i \in 1 .. Len(s) /\ j \in 1 .. Len(s)
    BY <1>1, <1>6, <2>1 DEF Distinct
  <2>2. CASE i \in 1 .. Len(s) /\ j \notin 1 .. Len(s)
    <3>1. c[i] \in Items(s) /\ c[j] \in Items(r)
      BY <1>1, <1>2, <1>3, <2>2
    <3> QED
      BY <1>6, <3>1
  <2>3. CASE i \notin 1 .. Len(s) /\ j \in 1 .. Len(s)
    <3>1. c[j] \in Items(s) /\ c[i] \in Items(r)
      BY <1>1, <1>2, <1>3, <2>3
    <3> QED
      BY <1>6, <3>1
  <2>4. CASE i \notin 1 .. Len(s) /\ j \notin 1 .. Len(s)
    <3>1. i - Len(s) = j - Len(s)
      BY <1>3, <1>6, <2>4 DEF Distinct
    <3> QED
      BY <1>1, <3>1
  <2> QED
    BY <2>1, <2>2, <2>3, <2>4
<1> QED
  BY <1>1, <1>5, <1>6 DEF c, Distinct

LEMMA SingleItems ==
  ASSUME NEW S, NEW x \in S
  PROVE  <<x>> \in Seq(S) /\ Items(<<x>>) = {x} /\ Distinct(<<x>>)
BY DEF Items, Distinct

\* What the counting of the property comes to.
LEMMA CountOnce ==
  ASSUME NEW S, NEW s \in Seq(S), Distinct(s), NEW x
  PROVE  Count(x, s) = IF x \in Items(s) THEN 1 ELSE 0
<1> DEFINE D == {i \in DOMAIN s : s[i] = x}
<1>1. CASE x \in Items(s)
  <2>1. PICK i \in 1 .. Len(s) : s[i] = x
    BY <1>1, ItemsOf
  <2>2. D = {i}
    BY <2>1 DEF Distinct
  <2> QED
    BY <1>1, <2>2, FS_Singleton DEF Count
<1>2. CASE x \notin Items(s)
  <2>1. D = {}
    BY <1>2 DEF Items
  <2> QED
    BY <1>2, <2>1, FS_EmptySet DEF Count
<1> QED
  BY <1>1, <1>2

LEMMA TwoMax ==
  ASSUME NEW m \in Nat, NEW n \in Nat
  PROVE  Max({m, n}) = IF m >= n THEN m ELSE n
<1> DEFINE k == IF m >= n THEN m ELSE n
<1>1. k \in {m, n} /\ \A y \in {m, n} : k >= y
  OBVIOUS
<1>2. \A x \in {m, n} : (\A y \in {m, n} : x >= y) => x = k
  OBVIOUS
<1> QED
  BY <1>1, <1>2 DEF Max

-----------------------------------------------------------------------------
(***************************************************************************)
(* The cards.                                                              *)
(***************************************************************************)
CardMove ==
  \/ \E a \in Approval : CardStep(a) \/ Operator(a)
  \/ ForgetCards
  \/ UNCHANGED cardVars

LEMMA CardsStart == CardsInit => CardsInv
BY CardAssumptions DEF CardsInit, CardsInv, CardsTypeOK, CardTellsVerdict

LEMMA CardsKept ==
  ASSUME CardsInv, CardMove
  PROVE  CardsInv'
<1> USE CardAssumptions DEF CardsInv, CardsTypeOK, CardTellsVerdict
<1>1. ASSUME NEW a \in Approval, CardStep(a) PROVE CardsInv'
  <2>1. CASE SendCard(a)
    BY <2>1 DEF SendCard
  <2>2. CASE CardShown(a)
    BY <2>2 DEF CardShown
  <2>3. CASE CardSent(a)
    BY <2>3 DEF CardSent
  <2>4. CASE SendFails(a)
    BY <2>4 DEF SendFails
  <2>5. CASE DecisionFails(a)
    BY <2>5 DEF DecisionFails
  <2>6. CASE Resolved(a)
    BY <2>6 DEF Resolved
  <2>7. CASE CardClosed(a)
    BY <2>7 DEF CardClosed
  <2>8. CASE EditFails(a)
    BY <2>8 DEF EditFails
  <2> QED
    BY <1>1, <2>1, <2>2, <2>3, <2>4, <2>5, <2>6, <2>7, <2>8 DEF CardStep
<1>2. ASSUME NEW a \in Approval, Ask(a) PROVE CardsInv'
  BY <1>2 DEF Ask
<1>3. ASSUME NEW a \in Approval, NEW v \in Verdict, Decide(a, v) PROVE CardsInv'
  BY <1>3 DEF Decide
<1>4. CASE ForgetCards
  BY <1>4 DEF ForgetCards
<1>5. CASE UNCHANGED cardVars
  BY <1>5 DEF cardVars
<1> QED
  BY <1>1, <1>2, <1>3, <1>4, <1>5 DEF CardMove, Operator

LEMMA NextMovesCards == Next \/ UNCHANGED vars => CardMove
<1>1. ASSUME Poller PROVE CardMove
  <2>1. ASSUME NEW u \in Tap, TakeTap(u) PROVE CardMove
    BY <2>1, BridgeAssumptions DEF TakeTap, CardMove, Operator
  <2>2. ASSUME NEW t \in Text, TakeText(t) \/ TakeMedia(t) PROVE CardMove
    BY <2>2 DEF TakeText, TakeMedia, CardMove
  <2>3. CASE Poll \/ MediaRead \/ MediaRefused \/ TapDone
    BY <2>3 DEF Poll, MediaRead, MediaRefused, TapDone, CardMove
  <2> QED
    BY <1>1, <2>1, <2>2, <2>3 DEF Poller
<1>2. ASSUME Processor PROVE CardMove
  <2>1. ASSUME TakeFirst \/ Gather \/ WindowCloses \/ Peek \/ DispatchOver PROVE CardMove
    BY <2>1 DEF TakeFirst, Gather, WindowCloses, Peek, DispatchOver, Finish, Dispatch, CardMove
  <2>2. ASSUME FollowUp \/ Merge \/ Interrupt \/ Kill \/ Redispatch PROVE CardMove
    BY <2>2 DEF FollowUp, Merge, Interrupt, Kill, Redispatch, Dispatch, CardMove
  <2> QED
    BY <1>2, <2>1, <2>2 DEF Processor
<1>3. ASSUME Dispatching \/ PlanEnds \/ ForeignStarts \/ ForeignEnds PROVE CardMove
  BY <1>3 DEF Dispatching, Begin, Admitted, RunFails, Noted, RunReturns, ReplySent, Recorded,
     PlanEnds, ForeignStarts, ForeignEnds, CardMove
<1>4. ASSUME NEW u \in Update, Send(u) PROVE CardMove
  BY <1>4 DEF Send, CardMove
<1>5. ASSUME Crash PROVE CardMove
  BY <1>5 DEF Crash, CardMove
<1>6. ASSUME NEW a \in Approval, Cards(a) PROVE CardMove
  BY <1>6 DEF Cards, CardMove
<1>7. ASSUME UNCHANGED vars PROVE CardMove
  BY <1>7 DEF vars, CardMove
<1> QED
  BY <1>1, <1>2, <1>3, <1>4, <1>5, <1>6, <1>7 DEF Next

\* The cards are safe whatever the bridge does.
THEOREM CardsInvariance == Spec => []CardsInv
<1>1. Init => CardsInv
  BY CardsStart DEF Init
<1>2. CardsInv /\ [Next]_vars => CardsInv'
  BY CardsKept, NextMovesCards
<1> QED
  BY <1>1, <1>2, PTL DEF Spec

\* However many decide, and whichever of send, decision and edit comes first or fails:
\* a card without its buttons tells the decision that was taken (telegram_approvals.py,
\* _mark_resolved).
THEOREM CardTellsVerdictHolds == Spec => []CardTellsVerdict
<1>1. CardsInv => CardTellsVerdict
  BY DEF CardsInv
<1> QED
  BY <1>1, CardsInvariance, PTL

-----------------------------------------------------------------------------
(***************************************************************************)
(* The bridge.                                                             *)
(***************************************************************************)
BridgeTypeOK ==
  /\ inbox \in Seq(Update) /\ queue \in Seq(Text)
  /\ parts \in Seq(Text) /\ extra \in Seq(Text) /\ peeked \in Text \cup {NoText}
  /\ disk \in [offset: 0 .. Len(inbox), history: SUBSET Text]
  /\ confirmed <= offset /\ offset <= fetched /\ fetched <= Len(inbox)
  /\ {confirmed, offset, fetched} \subseteq Nat
  /\ poll \in {"polling", "reading", "tapping"}
  /\ proc \in {"idle", "gathering", "watching", "merging", "stopping"}
  /\ dispatch \in {"none", "new", "done"} \cup Awaiting
  /\ damaged \in BOOLEAN /\ flag \in BOOLEAN
  /\ captured \in {"nothing", "mine", "foreign"} /\ plan \in Holder
  /\ taken \in [Update -> 0 .. 2] /\ replies \in [Text -> 0 .. 2]
  /\ faults \in 0 .. MaxFaults
  /\ remembered \subseteq Text /\ told \subseteq Text /\ lost \subseteq Text

LEMMA TypesTogether == TypeOK <=> CardsTypeOK /\ BridgeTypeOK
BY DEF TypeOK, BridgeTypeOK

BridgeInv ==
  /\ BridgeTypeOK
  /\ InboxOK /\ HandledOK /\ HistoryOK /\ StagesOK /\ PlacesOK /\ AccountedOK

LEMMA BridgeStart == Init => BridgeInv
<1> SUFFICES ASSUME Init PROVE BridgeInv
  OBVIOUS
<1> USE DEF Init
<1>2. Len(inbox) = 0 /\ Distinct(<<>>) /\ Items(<<>>) = {} /\ Held = {}
  BY EmptyItems DEF Held, Peeked
<1>1. BridgeTypeOK
  <2>1. disk \in [offset: 0 .. Len(inbox), history: SUBSET Text]
    BY <1>2
  <2>2. MaxFaults \in Nat
    BY BridgeAssumptions
  <2>3. /\ inbox \in Seq(Update) /\ queue \in Seq(Text) /\ parts \in Seq(Text)
        /\ extra \in Seq(Text)
    OBVIOUS
  <2>4. taken \in [Update -> 0 .. 2] /\ replies \in [Text -> 0 .. 2]
    OBVIOUS
  <2>5. damaged \in BOOLEAN /\ flag \in BOOLEAN
    OBVIOUS
  <2>6. /\ confirmed <= offset /\ offset <= fetched /\ fetched <= Len(inbox)
        /\ {confirmed, offset, fetched} \subseteq Nat /\ faults \in 0 .. MaxFaults
    BY <1>2, <2>2
  <2>7. /\ peeked \in Text \cup {NoText} /\ captured = "nothing" /\ plan \in Holder
        /\ remembered = {} /\ told = {} /\ lost = {}
        /\ poll = "polling" /\ proc = "idle" /\ dispatch = "none"
    BY DEF Holder
  <2> HIDE DEF Init
  <2> QED
    BY <2>1, <2>3, <2>4, <2>5, <2>6, <2>7 DEF BridgeTypeOK
<1>3. InboxOK /\ HandledOK /\ HistoryOK
  BY <1>2 DEF InboxOK, HandledOK, HistoryOK
<1>4. StagesOK /\ PlacesOK
  BY <1>2 DEF StagesOK, PlacesOK
<1>5. AccountedOK
  BY DEF AccountedOK, Update
<1> QED
  BY <1>1, <1>3, <1>4, <1>5 DEF BridgeInv

\* What a part of the invariant is about.
LEMMA Frames ==
  ASSUME BridgeInv
  PROVE  /\ UNCHANGED <<inbox, poll, offset>> => InboxOK'
         /\ UNCHANGED <<taken, inbox, damaged, disk, offset>> => HandledOK'
         /\ UNCHANGED <<remembered, disk, replies>> => HistoryOK'
         /\ UNCHANGED <<proc, parts, extra, peeked, dispatch, flag, told>> => StagesOK'
         /\ UNCHANGED <<queue, parts, extra, peeked, offset, poll, inbox>> => PlacesOK'
         /\ UNCHANGED <<taken, queue, parts, extra, peeked, poll, inbox, offset, told, lost>>
              => AccountedOK'
<1>1. UNCHANGED <<inbox, poll, offset>> => InboxOK'
  BY DEF BridgeInv, InboxOK, Current, Distinct
<1>2. UNCHANGED <<taken, inbox, damaged, disk, offset>> => HandledOK'
  BY DEF BridgeInv, HandledOK, Items
<1>3. UNCHANGED <<remembered, disk, replies>> => HistoryOK'
  BY DEF BridgeInv, HistoryOK, Replied
<1>4. UNCHANGED <<proc, parts, extra, peeked, dispatch, flag, told>> => StagesOK'
  BY DEF BridgeInv, StagesOK, Items
<1>5. ASSUME UNCHANGED <<queue, parts, extra, peeked, offset, poll, inbox>> PROVE PlacesOK'
  <2>1. /\ Items(queue)' = Items(queue) /\ Items(parts)' = Items(parts)
        /\ Items(extra)' = Items(extra) /\ Held' = Held /\ Below(offset)' = Below(offset)
        /\ Current' = Current /\ peeked' = peeked /\ poll' = poll
    BY <1>5 DEF Items, Held, Peeked, Below, Current
  <2>2. Distinct(queue)' = Distinct(queue) /\ Distinct(parts)' = Distinct(parts)
        /\ Distinct(extra)' = Distinct(extra)
    BY <1>5 DEF Distinct
  <2> QED
    BY <2>1, <2>2 DEF BridgeInv, PlacesOK
<1>6. UNCHANGED <<taken, queue, parts, extra, peeked, poll, inbox, offset, told, lost>>
        => AccountedOK'
  BY DEF BridgeInv, AccountedOK, Held, Items, Peeked, Reading, Current
<1> QED
  BY <1>1, <1>2, <1>3, <1>4, <1>5, <1>6

\* Texts that move from one place in memory to another.
Moved ==
  /\ UNCHANGED <<inbox, poll, offset>>
  /\ Held' = Held
  /\ Distinct(queue)' /\ Distinct(parts)' /\ Distinct(extra)'
  /\ Items(queue)' \cap Items(parts)' = {}
  /\ Items(queue)' \cap Items(extra)' = {}
  /\ Items(parts)' \cap Items(extra)' = {}
  /\ peeked' \notin Items(queue)' \cup Items(parts)' \cup Items(extra)'

LEMMA MovedKeeps ==
  ASSUME BridgeInv, Moved
  PROVE  /\ InboxOK' /\ PlacesOK'
         /\ UNCHANGED <<taken, told, lost>> => AccountedOK'
<1>1. Below(offset)' = Below(offset) /\ Current' = Current /\ Reading' = Reading
  BY DEF Moved, Below, Current, Reading
<1>2. InboxOK'
  BY Frames DEF Moved
<1>3. PlacesOK'
  BY <1>1 DEF BridgeInv, PlacesOK, Moved
<1>4. UNCHANGED <<taken, told, lost>> => AccountedOK'
  BY <1>1 DEF BridgeInv, AccountedOK, Moved
<1> QED
  BY <1>2, <1>3, <1>4

LEMMA HeadType ==
  ASSUME BridgeInv, queue # <<>>
  PROVE  /\ Head(queue) \in Text /\ Head(queue) # NoText
         /\ Head(queue) \in Items(queue) /\ Tail(queue) \in Seq(Text)
         /\ Items(queue) = Items(Tail(queue)) \cup {Head(queue)}
         /\ Distinct(Tail(queue)) /\ Head(queue) \notin Items(Tail(queue))
         /\ Head(queue) \notin Items(parts) \cup Items(extra)
<1>1. queue \in Seq(Text) /\ Distinct(queue) /\ NoText \notin Text
  BY BridgeAssumptions DEF BridgeInv, BridgeTypeOK, PlacesOK
<1>2. /\ Head(queue) \in Text /\ Head(queue) \in Items(queue) /\ Tail(queue) \in Seq(Text)
      /\ Items(queue) = Items(Tail(queue)) \cup {Head(queue)}
      /\ Distinct(Tail(queue)) /\ Head(queue) \notin Items(Tail(queue))
  BY <1>1, TailItems
<1>3. Head(queue) \notin Items(parts) \cup Items(extra)
  BY <1>2 DEF BridgeInv, PlacesOK
<1> QED
  BY <1>1, <1>2, <1>3

-----------------------------------------------------------------------------
(***************************************************************************)
(* The processor.                                                          *)
(***************************************************************************)
LEMMA ProcessorTypes ==
  ASSUME BridgeInv, UNCHANGED pollVars, UNCHANGED diskVars, UNCHANGED outcomeVars,
         queue' \in Seq(Text), parts' \in Seq(Text), extra' \in Seq(Text),
         peeked' \in Text \cup {NoText},
         proc' \in {"idle", "gathering", "watching", "merging", "stopping"},
         dispatch' \in {"none", "new", "done"} \cup Awaiting, flag' \in BOOLEAN,
         captured' \in {"nothing", "mine", "foreign"}, plan' \in Holder
  PROVE  BridgeTypeOK'
BY DEF BridgeInv, BridgeTypeOK, pollVars, diskVars, outcomeVars

LEMMA TakeFirstKeeps ==
  ASSUME BridgeInv, TakeFirst
  PROVE  BridgeInv'
<1> DEFINE t == Head(queue)
           q == Tail(queue)
<1>1. /\ proc = "idle" /\ proc' = "gathering" /\ queue # <<>>
      /\ parts' = <<t>> /\ queue' = q /\ UNCHANGED <<extra, peeked>>
      /\ UNCHANGED pollVars /\ UNCHANGED dispatchVars /\ UNCHANGED diskVars
      /\ UNCHANGED outcomeVars
  BY DEF TakeFirst
<1>2. /\ t \in Text /\ t \in Items(queue) /\ q \in Seq(Text) /\ t # NoText
      /\ Items(queue) = Items(q) \cup {t} /\ Distinct(q) /\ t \notin Items(q)
      /\ t \notin Items(parts) \cup Items(extra)
  BY <1>1, HeadType
<1> HIDE DEF t, q
<1>3. <<t>> \in Seq(Text) /\ Items(<<t>>) = {t} /\ Distinct(<<t>>)
  BY <1>2, SingleItems
<1>4. parts = <<>> /\ extra = <<>> /\ peeked = NoText /\ Items(<<>>) = {} /\ Distinct(<<>>)
      /\ dispatch = "none" /\ ~flag
  BY <1>1, EmptyItems DEF BridgeInv, StagesOK
<1>5. BridgeTypeOK'
  BY <1>1, <1>2, <1>3 DEF BridgeInv, BridgeTypeOK, pollVars, dispatchVars, diskVars, outcomeVars
<1>6. Moved
  <2>1. NoText \notin Items(queue)
    BY <1>4 DEF BridgeInv, PlacesOK
  <2> QED
    BY <1>1, <1>2, <1>3, <1>4, <2>1 DEF Moved, Held, Peeked, pollVars
<1>7. StagesOK'
  BY <1>1, <1>4 DEF StagesOK, dispatchVars
<1> QED
  BY <1>1, <1>5, <1>6, <1>7, MovedKeeps, Frames DEF BridgeInv, pollVars, diskVars, outcomeVars

LEMMA GatherKeeps ==
  ASSUME BridgeInv, Gather
  PROVE  BridgeInv'
<1> DEFINE t == Head(queue)
           q == Tail(queue)
           p == Append(parts, t)
<1>1. /\ proc = "gathering" /\ queue # <<>>
      /\ parts' = p /\ queue' = q /\ UNCHANGED <<proc, extra, peeked>>
      /\ UNCHANGED pollVars /\ UNCHANGED dispatchVars /\ UNCHANGED diskVars
      /\ UNCHANGED outcomeVars
  BY DEF Gather
<1>2. /\ t \in Text /\ t \in Items(queue) /\ q \in Seq(Text) /\ t # NoText
      /\ Items(queue) = Items(q) \cup {t} /\ Distinct(q) /\ t \notin Items(q)
      /\ t \notin Items(parts) \cup Items(extra)
  BY <1>1, HeadType
<1> HIDE DEF t, q
<1>3. p \in Seq(Text) /\ Items(p) = Items(parts) \cup {t} /\ Distinct(p)
  BY <1>2, AppendItems DEF BridgeInv, BridgeTypeOK, PlacesOK
<1> HIDE DEF p
<1>4. extra = <<>> /\ peeked = NoText /\ Items(<<>>) = {} /\ Distinct(<<>>)
      /\ dispatch = "none" /\ ~flag
  BY <1>1, EmptyItems DEF BridgeInv, StagesOK
<1>5. BridgeTypeOK'
  BY <1>1, <1>2, <1>3 DEF BridgeInv, BridgeTypeOK, pollVars, dispatchVars, diskVars, outcomeVars
<1>6. Moved
  <2>1. Distinct(queue)' /\ Distinct(parts)' /\ Distinct(extra)'
    BY <1>1, <1>2, <1>3, <1>4
  <2>2. Items(queue) \cap Items(parts) = {} /\ NoText \notin Items(queue) \cup Items(parts)
    BY <1>4 DEF BridgeInv, PlacesOK
  <2> QED
    BY <1>1, <1>2, <1>3, <1>4, <2>1, <2>2 DEF Moved, Held, Peeked, pollVars
<1>7. StagesOK'
  BY <1>1, <1>4 DEF StagesOK, dispatchVars
<1> QED
  BY <1>1, <1>5, <1>6, <1>7, MovedKeeps, Frames DEF BridgeInv, pollVars, diskVars, outcomeVars

LEMMA WindowClosesKeeps ==
  ASSUME BridgeInv, WindowCloses
  PROVE  BridgeInv'
<1>1. /\ proc = "gathering" /\ proc' = "watching" /\ parts' = parts /\ extra' = <<>>
      /\ dispatch' = "new" /\ flag' = FALSE /\ captured' = "nothing"
      /\ UNCHANGED <<queue, peeked, plan>>
      /\ UNCHANGED pollVars /\ UNCHANGED diskVars /\ UNCHANGED outcomeVars
  BY DEF WindowCloses, Dispatch
<1>2. extra = <<>>
  BY <1>1 DEF BridgeInv, StagesOK
<1>3. BridgeTypeOK'
  <2>1. <<>> \in Seq(Text)
    OBVIOUS
  <2>3. flag' \in BOOLEAN
    BY <1>1
  <2>2. /\ queue' \in Seq(Text) /\ parts' \in Seq(Text) /\ peeked' \in Text \cup {NoText}
        /\ plan' \in Holder
    BY <1>1 DEF BridgeInv, BridgeTypeOK
  <2> QED
    BY <1>1, <2>1, <2>2, <2>3, ProcessorTypes
<1>4. StagesOK'
  BY <1>1 DEF StagesOK
<1> QED
  BY <1>1, <1>2, <1>3, <1>4, Frames DEF BridgeInv, pollVars, diskVars, outcomeVars

LEMMA RedispatchKeeps ==
  ASSUME BridgeInv, Redispatch
  PROVE  BridgeInv'
<1> DEFINE p == parts \o extra
<1>1. /\ proc = "stopping" /\ proc' = "watching" /\ parts' = p /\ extra' = <<>>
      /\ dispatch' = "new" /\ flag' = FALSE /\ captured' = "nothing"
      /\ UNCHANGED <<queue, peeked, plan>>
      /\ UNCHANGED pollVars /\ UNCHANGED diskVars /\ UNCHANGED outcomeVars
  BY DEF Redispatch, Dispatch
<1>2. p \in Seq(Text) /\ Items(p) = Items(parts) \cup Items(extra) /\ Distinct(p)
  BY ConcatItems DEF BridgeInv, BridgeTypeOK, PlacesOK
<1> HIDE DEF p
<1>3. BridgeTypeOK'
  <2>1. <<>> \in Seq(Text)
    OBVIOUS
  <2>3. flag' \in BOOLEAN
    BY <1>1
  <2>2. queue' \in Seq(Text) /\ peeked' \in Text \cup {NoText} /\ plan' \in Holder
    BY <1>1 DEF BridgeInv, BridgeTypeOK
  <2> QED
    BY <1>1, <1>2, <2>1, <2>2, <2>3, ProcessorTypes
<1>4. StagesOK'
  <2>1. peeked = NoText
    BY <1>1 DEF BridgeInv, StagesOK
  <2> QED
    BY <1>1, <2>1 DEF StagesOK
<1>5. Moved
  <2>1. Items(<<>>) = {} /\ Distinct(<<>>)
    BY EmptyItems
  <2>2. /\ Items(queue) \cap Items(p) = {} /\ peeked \notin Items(queue) \cup Items(p)
        /\ Distinct(queue)
    BY <1>2 DEF BridgeInv, PlacesOK
  <2> QED
    BY <1>1, <1>2, <2>1, <2>2 DEF Moved, Held, Peeked, pollVars
<1> QED
  BY <1>1, <1>3, <1>4, <1>5, MovedKeeps, Frames DEF BridgeInv, pollVars, diskVars, outcomeVars

LEMMA PeekKeeps ==
  ASSUME BridgeInv, Peek
  PROVE  BridgeInv'
<1> DEFINE t == Head(queue)
           q == Tail(queue)
<1>1. /\ proc = "watching" /\ peeked = NoText /\ queue # <<>>
      /\ peeked' = t /\ queue' = q /\ UNCHANGED <<proc, parts, extra>>
      /\ UNCHANGED pollVars /\ UNCHANGED dispatchVars /\ UNCHANGED diskVars
      /\ UNCHANGED outcomeVars
  BY DEF Peek
<1>2. /\ t \in Text /\ t \in Items(queue) /\ q \in Seq(Text) /\ t # NoText
      /\ Items(queue) = Items(q) \cup {t} /\ Distinct(q) /\ t \notin Items(q)
      /\ t \notin Items(parts) \cup Items(extra)
  BY <1>1, HeadType
<1> HIDE DEF t, q
<1>3. BridgeTypeOK'
  BY <1>1, <1>2 DEF BridgeInv, BridgeTypeOK, pollVars, dispatchVars, diskVars, outcomeVars
<1>4. Moved
  <2>1. /\ Items(queue) \cap Items(parts) = {} /\ Items(queue) \cap Items(extra) = {}
        /\ Items(parts) \cap Items(extra) = {} /\ Distinct(parts) /\ Distinct(extra)
    BY DEF BridgeInv, PlacesOK
  <2> QED
    BY <1>1, <1>2, <2>1 DEF Moved, Held, Peeked, pollVars
<1>5. StagesOK'
  BY <1>1 DEF BridgeInv, StagesOK, dispatchVars, outcomeVars
<1> QED
  BY <1>1, <1>3, <1>4, <1>5, MovedKeeps, Frames DEF BridgeInv, pollVars, diskVars, outcomeVars

LEMMA FollowUpKeeps ==
  ASSUME BridgeInv, FollowUp
  PROVE  BridgeInv'
<1> DEFINE x == <<peeked>>
<1>1. /\ proc = "watching" /\ proc' = "merging" /\ peeked # NoText /\ dispatch # "done"
      /\ extra' = x /\ peeked' = NoText /\ UNCHANGED <<queue, parts>>
      /\ UNCHANGED pollVars /\ UNCHANGED dispatchVars /\ UNCHANGED diskVars
      /\ UNCHANGED outcomeVars
  BY DEF FollowUp
<1>2. peeked \in Text /\ NoText \notin Text
  BY <1>1, BridgeAssumptions DEF BridgeInv, BridgeTypeOK
<1>3. x \in Seq(Text) /\ Items(x) = {peeked} /\ Distinct(x)
  BY <1>2, SingleItems
<1> HIDE DEF x
<1>4. BridgeTypeOK'
  BY <1>1, <1>3 DEF BridgeInv, BridgeTypeOK, pollVars, dispatchVars, diskVars, outcomeVars
<1>5. Moved
  <2>1. extra = <<>> /\ Items(<<>>) = {}
    BY <1>1, EmptyItems DEF BridgeInv, StagesOK
  <2>2. /\ Items(queue) \cap Items(parts) = {} /\ Distinct(queue) /\ Distinct(parts)
        /\ peeked \notin Items(queue) \cup Items(parts)
    BY DEF BridgeInv, PlacesOK
  <2>3. NoText \notin Items(queue) \cup Items(parts)
    BY <1>2, ItemsOf DEF BridgeInv, BridgeTypeOK
  <2> QED
    BY <1>1, <1>2, <1>3, <2>1, <2>2, <2>3 DEF Moved, Held, Peeked, pollVars
<1>6. StagesOK'
  BY <1>1 DEF BridgeInv, StagesOK, dispatchVars, outcomeVars
<1> QED
  BY <1>1, <1>4, <1>5, <1>6, MovedKeeps, Frames DEF BridgeInv, pollVars, diskVars, outcomeVars

LEMMA MergeKeeps ==
  ASSUME BridgeInv, Merge
  PROVE  BridgeInv'
<1> DEFINE t == Head(queue)
           q == Tail(queue)
           x == Append(extra, t)
<1>1. /\ proc = "merging" /\ queue # <<>>
      /\ extra' = x /\ queue' = q /\ UNCHANGED <<proc, parts, peeked>>
      /\ UNCHANGED pollVars /\ UNCHANGED dispatchVars /\ UNCHANGED diskVars
      /\ UNCHANGED outcomeVars
  BY DEF Merge
<1>2. /\ t \in Text /\ t \in Items(queue) /\ q \in Seq(Text) /\ t # NoText
      /\ Items(queue) = Items(q) \cup {t} /\ Distinct(q) /\ t \notin Items(q)
      /\ t \notin Items(parts) \cup Items(extra)
  BY <1>1, HeadType
<1> HIDE DEF t, q
<1>3. x \in Seq(Text) /\ Items(x) = Items(extra) \cup {t} /\ Distinct(x)
  BY <1>2, AppendItems DEF BridgeInv, BridgeTypeOK, PlacesOK
<1> HIDE DEF x
<1>4. BridgeTypeOK'
  BY <1>1, <1>2, <1>3 DEF BridgeInv, BridgeTypeOK, pollVars, dispatchVars, diskVars, outcomeVars
<1>5. Moved
  <2>1. /\ Items(queue) \cap Items(parts) = {} /\ Items(queue) \cap Items(extra) = {}
        /\ Items(parts) \cap Items(extra) = {} /\ Distinct(parts)
        /\ peeked \notin Items(queue) \cup Items(parts) \cup Items(extra)
    BY DEF BridgeInv, PlacesOK
  <2> QED
    BY <1>1, <1>2, <1>3, <2>1 DEF Moved, Held, Peeked, pollVars
<1>6. StagesOK'
  BY <1>1 DEF BridgeInv, StagesOK, dispatchVars, outcomeVars
<1> QED
  BY <1>1, <1>4, <1>5, <1>6, MovedKeeps, Frames DEF BridgeInv, pollVars, diskVars, outcomeVars

LEMMA DispatchOverKeeps ==
  ASSUME BridgeInv, DispatchOver
  PROVE  BridgeInv'
<1> DEFINE q == IF peeked = NoText THEN queue ELSE Append(queue, peeked)
<1>1. /\ proc = "watching" /\ dispatch = "done" /\ proc' = "idle" /\ parts' = <<>>
      /\ peeked' = NoText /\ dispatch' = "none" /\ flag' = FALSE /\ captured' = "nothing"
      /\ queue' = q /\ UNCHANGED <<extra, plan>>
      /\ UNCHANGED pollVars /\ UNCHANGED diskVars /\ UNCHANGED outcomeVars
  BY DEF DispatchOver, Finish
<1>2. /\ q \in Seq(Text) /\ Items(q) = Items(queue) \cup Peeked /\ Distinct(q)
  <2>1. CASE peeked = NoText
    BY <2>1 DEF BridgeInv, BridgeTypeOK, PlacesOK, Peeked
  <2>2. CASE peeked # NoText
    <3>1. peeked \in Text /\ peeked \notin Items(queue)
      BY <2>2 DEF BridgeInv, BridgeTypeOK, PlacesOK
    <3> QED
      BY <2>2, <3>1, AppendItems DEF BridgeInv, BridgeTypeOK, PlacesOK, Peeked
  <2> QED
    BY <2>1, <2>2
<1> HIDE DEF q
<1>3. /\ extra = <<>> /\ Items(<<>>) = {} /\ Distinct(<<>>) /\ NoText \notin Items(q)
      /\ Items(parts) \subseteq told
  <2>1. NoText \notin Items(q)
    BY <1>2, ItemsOf, BridgeAssumptions
  <2> QED
    BY <1>1, <2>1, EmptyItems DEF BridgeInv, StagesOK
<1>4. BridgeTypeOK'
  <2>1. <<>> \in Seq(Text)
    OBVIOUS
  <2>3. flag' \in BOOLEAN
    BY <1>1
  <2>2. extra' \in Seq(Text) /\ plan' \in Holder
    BY <1>1 DEF BridgeInv, BridgeTypeOK
  <2> QED
    BY <1>1, <1>2, <2>1, <2>2, <2>3, ProcessorTypes
<1>5. StagesOK'
  BY <1>1, <1>3 DEF StagesOK
<1>6. Held' = Items(q) /\ Held = Items(q) \cup Items(parts)
  BY <1>1, <1>2, <1>3 DEF Held, Peeked
<1>7. Below(offset)' = Below(offset) /\ Current' = Current /\ Reading' = Reading
  BY <1>1 DEF pollVars, Below, Current, Reading
<1>8. PlacesOK'
  BY <1>1, <1>2, <1>3, <1>6, <1>7 DEF BridgeInv, PlacesOK, pollVars
<1>9. AccountedOK'
  BY <1>1, <1>3, <1>6, <1>7 DEF BridgeInv, AccountedOK, pollVars, outcomeVars
<1> QED
  BY <1>1, <1>4, <1>5, <1>8, <1>9, Frames DEF BridgeInv, pollVars, diskVars, outcomeVars

LEMMA InterruptKeeps ==
  ASSUME BridgeInv, Interrupt
  PROVE  BridgeInv'
<1>1. /\ proc = "merging" /\ proc' = "stopping" /\ flag' \in BOOLEAN
      /\ UNCHANGED <<queue, parts, extra, peeked, dispatch, captured, plan>>
      /\ UNCHANGED pollVars /\ UNCHANGED diskVars /\ UNCHANGED outcomeVars
  BY DEF Interrupt, BridgeInv, BridgeTypeOK
<1>2. BridgeTypeOK'
  BY <1>1 DEF BridgeInv, BridgeTypeOK, pollVars, diskVars, outcomeVars
<1>3. StagesOK'
  BY <1>1 DEF BridgeInv, StagesOK, outcomeVars
<1> QED
  BY <1>1, <1>2, <1>3, Frames DEF BridgeInv, pollVars, diskVars, outcomeVars

-----------------------------------------------------------------------------
(***************************************************************************)
(* The dispatch and the orchestrator.                                      *)
(***************************************************************************)
LEMMA SaveType ==
  ASSUME BridgeInv, NEW o \in Nat, NEW h, Save(o, h)
  PROVE  /\ disk' \in {disk, [offset |-> o, history |-> h]}
         /\ damaged' \in BOOLEAN /\ faults' \in 0 .. MaxFaults
         /\ ~damaged' => ~damaged /\ disk' = [offset |-> o, history |-> h]
<1>1. damaged \in BOOLEAN /\ faults \in 0 .. MaxFaults /\ MaxFaults \in Nat
  BY BridgeAssumptions DEF BridgeInv, BridgeTypeOK
<1>2. CASE disk' = [offset |-> o, history |-> h] /\ UNCHANGED <<damaged, faults>>
  BY <1>1, <1>2
<1>3. CASE Fault /\ damaged' = TRUE /\ UNCHANGED disk
  <2>1. faults' = faults + 1 /\ faults < MaxFaults
    BY <1>3 DEF Fault
  <2>2. faults' \in 0 .. MaxFaults
    BY <1>1, <2>1
  <2> QED
    BY <1>3, <2>2
<1> QED
  BY <1>2, <1>3 DEF Save

LEMMA AnsweredType ==
  ASSUME BridgeInv
  PROVE  /\ Answered \in [Text -> 0 .. 2]
         /\ \A t \in Text : replies[t] > 0 \/ t \in Items(parts) => Answered[t] > 0
<1>1. \A t \in Text : replies[t] \in 0 .. 2 /\ Twice(replies[t]) \in 1 .. 2
  BY DEF BridgeInv, BridgeTypeOK, Twice
<1> QED
  BY <1>1 DEF Answered

\* The poller and the batch stay as they are: senders are told, or files written.
Settled ==
  /\ UNCHANGED pollVars /\ UNCHANGED <<queue, procVars, lost, remembered>>
  /\ UNCHANGED <<disk, damaged, faults>> \/ Save(offset, remembered)
  /\ told' \in {told, told \cup Items(parts)}
  /\ replies' \in {replies, Answered}

LEMMA SettledKeeps ==
  ASSUME BridgeInv, Settled
  PROVE  /\ InboxOK' /\ HandledOK' /\ HistoryOK' /\ PlacesOK' /\ AccountedOK'
         /\ disk' \in [offset: 0 .. Len(inbox), history: SUBSET Text]
         /\ damaged' \in BOOLEAN /\ faults' \in 0 .. MaxFaults
         /\ told' \subseteq Text /\ replies' \in [Text -> 0 .. 2]
         /\ told \subseteq told'
<1>1. /\ UNCHANGED <<inbox, poll, offset, taken, queue, parts, extra, peeked, lost, remembered>>
  BY DEF Settled, pollVars, procVars
<1>2. offset \in 0 .. Len(inbox) /\ offset \in Nat
  BY DEF BridgeInv, BridgeTypeOK
<1> DEFINE d == [offset |-> offset, history |-> remembered]
<1>3. /\ disk' \in {disk, d}
      /\ damaged' \in BOOLEAN /\ faults' \in 0 .. MaxFaults
      /\ ~damaged' => ~damaged /\ disk'.offset = offset
  <2>1. CASE UNCHANGED <<disk, damaged, faults>>
    BY <2>1 DEF BridgeInv, BridgeTypeOK, HandledOK
  <2>2. CASE Save(offset, remembered)
    BY <1>2, <2>2, SaveType
  <2> QED
    BY <2>1, <2>2 DEF Settled
<1>4. disk' \in [offset: 0 .. Len(inbox), history: SUBSET Text]
  BY <1>2, <1>3 DEF BridgeInv, BridgeTypeOK
<1>5. told' \subseteq Text /\ told \subseteq told'
  BY ItemsOf DEF Settled, BridgeInv, BridgeTypeOK
<1>6. replies' \in [Text -> 0 .. 2] /\ \A t \in Text : replies[t] > 0 => replies'[t] > 0
  BY AnsweredType DEF Settled, BridgeInv, BridgeTypeOK
<1>7. InboxOK' /\ PlacesOK'
  BY <1>1, Frames
<1>8. HandledOK'
  BY <1>1, <1>3 DEF BridgeInv, HandledOK, Items
<1>9. HistoryOK'
  <2>1. Replied \subseteq Replied'
    BY <1>6 DEF Replied
  <2>2. disk'.history \in {disk.history, remembered}
    BY <1>3
  <2> QED
    BY <1>1, <2>1, <2>2 DEF BridgeInv, HistoryOK
<1>10. AccountedOK'
  <2>1. Held' = Held /\ Reading' = Reading
    BY <1>1 DEF Held, Items, Peeked, Reading, Current
  <2> QED
    BY <1>1, <1>5, <2>1 DEF BridgeInv, AccountedOK
<1> QED
  BY <1>3, <1>4, <1>5, <1>6, <1>7, <1>8, <1>9, <1>10

LEMMA SettledTypes ==
  ASSUME BridgeInv, Settled, flag' = flag,
         dispatch' \in {"none", "new", "done"} \cup Awaiting,
         captured' \in {"nothing", "mine", "foreign"}, plan' \in Holder
  PROVE  BridgeTypeOK'
BY SettledKeeps DEF Settled, BridgeInv, BridgeTypeOK, pollVars, procVars

LEMMA KillKeeps ==
  ASSUME BridgeInv, Kill
  PROVE  BridgeInv'
<1>1. /\ proc = "stopping" /\ dispatch' = "done" /\ plan' \in Holder
      /\ UNCHANGED <<flag, captured, queue>>
      /\ UNCHANGED pollVars /\ UNCHANGED procVars /\ UNCHANGED diskVars
  BY DEF Kill, Free, BridgeInv, BridgeTypeOK, Holder
<1>2. Settled
  BY <1>1 DEF Kill, Settled, outcomeVars, procVars, diskVars
<1>3. BridgeTypeOK'
  BY <1>1, <1>2, SettledTypes DEF BridgeInv, BridgeTypeOK
<1>4. StagesOK'
  BY <1>1 DEF BridgeInv, StagesOK, procVars
<1> QED
  BY <1>2, <1>3, <1>4, SettledKeeps DEF BridgeInv

LEMMA OtherHolder == Free \in {plan, "nobody"} /\ {"nobody", "mine", "foreign"} \subseteq Holder
BY DEF Free, Holder

\* The run: nobody is told anything yet.
LEMMA RunKeeps ==
  ASSUME BridgeInv, Begin \/ Admitted \/ RunFails \/ RunReturns \/ PlanEnds \/ ForeignStarts
                    \/ ForeignEnds
  PROVE  BridgeInv'
<1>1. /\ dispatch' \in {"none", "new", "done"} \cup Awaiting
      /\ captured' \in {"nothing", "mine", "foreign"} /\ plan' \in Holder
      /\ dispatch' # dispatch => dispatch \in {"new", "waiting", "running"}
      /\ dispatch' # dispatch => dispatch' # "recording" /\ (dispatch' = "done" => flag)
      /\ UNCHANGED <<flag, queue>> /\ UNCHANGED pollVars /\ UNCHANGED procVars
      /\ UNCHANGED outcomeVars /\ UNCHANGED remembered
      /\ Save(offset, remembered) \/ UNCHANGED <<disk, damaged, faults>>
  <2> USE OtherHolder DEF BridgeInv, BridgeTypeOK, Awaiting, diskVars
  <2>1. CASE Begin
    BY <2>1 DEF Begin
  <2>2. CASE Admitted
    BY <2>2 DEF Admitted
  <2>3. CASE RunFails
    BY <2>3 DEF RunFails
  <2>4. CASE RunReturns
    BY <2>4 DEF RunReturns
  <2>5. CASE PlanEnds
    BY <2>5 DEF PlanEnds
  <2>6. CASE ForeignStarts
    BY <2>6 DEF ForeignStarts
  <2>7. CASE ForeignEnds
    BY <2>7 DEF ForeignEnds
  <2> QED
    BY <2>1, <2>2, <2>3, <2>4, <2>5, <2>6, <2>7
<1>2. Settled
  BY <1>1 DEF Settled, outcomeVars, procVars
<1>3. BridgeTypeOK'
  BY <1>1, <1>2, SettledTypes
<1>4. StagesOK'
  BY <1>1 DEF BridgeInv, StagesOK, procVars, outcomeVars
<1> QED
  BY <1>2, <1>3, <1>4, SettledKeeps DEF BridgeInv

\* The senders of the batch are told, before the dispatch is over.
LEMMA NotedKeeps ==
  ASSUME BridgeInv, Noted \/ Recorded
  PROVE  BridgeInv'
<1>1. /\ dispatch \in {"noting", "recording"} /\ dispatch' = "done"
      /\ Items(parts) \subseteq told'
      /\ UNCHANGED <<flag, captured, plan, queue, lost, remembered, replies>>
      /\ told' \in {told, told \cup Items(parts)}
      /\ UNCHANGED pollVars /\ UNCHANGED procVars
      /\ Save(offset, remembered) \/ UNCHANGED <<disk, damaged, faults>>
  BY DEF Noted, Recorded, BridgeInv, StagesOK, diskVars, outcomeVars
<1>2. Settled
  BY <1>1 DEF Settled, procVars
<1>3. BridgeTypeOK'
  BY <1>1, <1>2, SettledTypes DEF BridgeInv, BridgeTypeOK
<1>4. StagesOK'
  BY <1>1 DEF BridgeInv, StagesOK, procVars
<1> QED
  BY <1>2, <1>3, <1>4, SettledKeeps DEF BridgeInv

LEMMA ReplySentKeeps ==
  ASSUME BridgeInv, ReplySent
  PROVE  BridgeInv'
<1>1. /\ dispatch = "replying" /\ dispatch' = "recording"
      /\ told' = told \cup Items(parts) /\ replies' = Answered
      /\ remembered' = remembered \cup Items(parts)
      /\ UNCHANGED <<queue, flag, captured, plan, disk, damaged, faults, lost>>
      /\ UNCHANGED pollVars /\ UNCHANGED procVars
  BY DEF ReplySent
<1>2. Items(parts) \subseteq Text
  BY ItemsOf DEF BridgeInv, BridgeTypeOK
<1>3. BridgeTypeOK'
  BY <1>1, <1>2, AnsweredType DEF BridgeInv, BridgeTypeOK, Awaiting, pollVars, procVars
<1>4. StagesOK'
  BY <1>1 DEF BridgeInv, StagesOK, procVars
<1>5. HistoryOK'
  BY <1>1, <1>2, AnsweredType DEF BridgeInv, BridgeTypeOK, HistoryOK, Replied
<1>6. AccountedOK'
  <2>1. Held' = Held /\ Reading' = Reading /\ taken' = taken
    BY <1>1 DEF Held, Items, Peeked, Reading, Current, pollVars, procVars
  <2> QED
    BY <1>1, <2>1 DEF BridgeInv, AccountedOK
<1> QED
  BY <1>1, <1>3, <1>4, <1>5, <1>6, Frames DEF BridgeInv, pollVars, procVars

-----------------------------------------------------------------------------
(***************************************************************************)
(* The operator and the poller.                                            *)
(***************************************************************************)
LEMMA SendKeeps ==
  ASSUME BridgeInv, NEW u \in Update, Send(u)
  PROVE  BridgeInv'
<1> DEFINE b == Append(inbox, u)
<1>1. /\ u \notin Items(inbox) /\ inbox' = b
      /\ UNCHANGED <<confirmed, offset, fetched, poll, taken, queue>>
      /\ UNCHANGED procVars /\ UNCHANGED dispatchVars /\ UNCHANGED diskVars
      /\ UNCHANGED outcomeVars
  BY DEF Send
<1>2. /\ inbox \in Seq(Update) /\ Len(inbox) \in Nat /\ offset \in Nat
      /\ offset <= Len(inbox) /\ Distinct(inbox)
  BY DEF BridgeInv, BridgeTypeOK, InboxOK
<1>3. b \in Seq(Update) /\ Len(b) = Len(inbox) + 1 /\ b[Len(inbox) + 1] = u
      /\ \A i \in 1 .. Len(inbox) : b[i] = inbox[i]
  BY <1>2
<1>4. Items(b) = Items(inbox) \cup {u} /\ Distinct(b)
  BY <1>1, <1>2, AppendItems
<1> HIDE DEF b
<1>5. \A i \in 1 .. offset : inbox'[i] = inbox[i]
  BY <1>1, <1>2, <1>3
<1>6. Below(offset)' = Below(offset)
  BY <1>1, <1>5 DEF Below
<1>7. poll = "reading" => Current' = Current
  BY <1>1, <1>2, <1>5 DEF Current, BridgeInv, InboxOK
<1>8. Held' = Held /\ Reading' = Reading
  BY <1>1, <1>7 DEF Held, Items, Peeked, Reading, procVars
<1>9. BridgeTypeOK'
  <2>1. Len(inbox') = Len(inbox) + 1 /\ 0 .. Len(inbox) \subseteq 0 .. Len(inbox')
    BY <1>1, <1>2, <1>3
  <2>2. disk \in [offset: 0 .. Len(inbox'), history: SUBSET Text]
    BY <2>1 DEF BridgeInv, BridgeTypeOK
  <2>3. fetched <= Len(inbox')
    BY <1>2, <2>1 DEF BridgeInv, BridgeTypeOK
  <2> QED
    BY <1>1, <1>3, <2>2, <2>3 DEF BridgeInv, BridgeTypeOK, procVars, dispatchVars, diskVars,
       outcomeVars
<1>10. InboxOK'
  BY <1>1, <1>4, <1>7 DEF BridgeInv, InboxOK
<1>11. HandledOK'
  <2>1. taken[u] = 0
    <3>1. taken[u] \in 0 .. 2 /\ ~(taken[u] > 0)
      BY <1>1 DEF BridgeInv, BridgeTypeOK, HandledOK
    <3> QED
      BY <3>1
  <2>2. ASSUME NEW i \in 1 .. Len(inbox'), i > offset, ~damaged PROVE taken[inbox'[i]] = 0
    BY <1>1, <1>2, <1>3, <2>1, <2>2 DEF BridgeInv, HandledOK
  <2> QED
    BY <1>1, <1>4, <2>2 DEF BridgeInv, HandledOK, diskVars
<1>12. PlacesOK'
  BY <1>1, <1>6, <1>7, <1>8 DEF BridgeInv, PlacesOK, procVars
<1>13. AccountedOK'
  BY <1>1, <1>8 DEF BridgeInv, AccountedOK, outcomeVars
<1>14. HistoryOK' /\ StagesOK'
  BY <1>1, Frames DEF procVars, dispatchVars, diskVars, outcomeVars
<1> QED
  BY <1>9, <1>10, <1>11, <1>12, <1>13, <1>14 DEF BridgeInv

LEMMA PollKeeps ==
  ASSUME BridgeInv, Poll
  PROVE  BridgeInv'
<1>1. /\ confirmed' = offset /\ fetched' = Len(inbox)
      /\ UNCHANGED <<inbox, offset, poll, taken, queue>> /\ UNCHANGED procVars
      /\ UNCHANGED dispatchVars /\ UNCHANGED diskVars /\ UNCHANGED outcomeVars
  BY DEF Poll
<1>2. BridgeTypeOK'
  BY <1>1 DEF BridgeInv, BridgeTypeOK, procVars, dispatchVars, diskVars, outcomeVars
<1> QED
  BY <1>1, <1>2, Frames DEF BridgeInv, procVars, dispatchVars, diskVars, outcomeVars

\* What the poller takes was in nobody's hands.
LEMMA TakeEffect ==
  ASSUME BridgeInv, NEW u \in Update, Take(u), Save(offset', remembered)
  PROVE  /\ offset' = offset + 1 /\ offset' \in 1 .. fetched /\ offset + 1 \in 1 .. Len(inbox)
         /\ inbox' = inbox /\ Current' = u /\ u \notin Held /\ Reading = {}
         /\ UNCHANGED <<confirmed, fetched, remembered>>
         /\ Below(offset)' = Below(offset) \cup {u}
         /\ taken' \in [Update -> 0 .. 2]
         /\ \A w \in Update : w # u => taken'[w] = taken[w]
         /\ disk' \in [offset: 0 .. Len(inbox), history: SUBSET Text]
         /\ damaged' \in BOOLEAN /\ faults' \in 0 .. MaxFaults
         /\ HandledOK' /\ (UNCHANGED replies => HistoryOK')
<1>1. /\ poll = "polling" /\ offset < fetched /\ u = inbox[offset + 1] /\ offset' = offset + 1
      /\ taken' = [taken EXCEPT ![u] = Twice(@)]
      /\ UNCHANGED <<inbox, confirmed, fetched, remembered>>
  BY DEF Take
<1>2. /\ inbox \in Seq(Update) /\ Len(inbox) \in Nat /\ offset \in Nat /\ fetched \in Nat
      /\ fetched <= Len(inbox) /\ Distinct(inbox)
      /\ Items(inbox) = {inbox[i] : i \in 1 .. Len(inbox)}
  BY ItemsOf DEF BridgeInv, BridgeTypeOK, InboxOK
<1>3. offset' \in 1 .. fetched /\ offset + 1 \in 1 .. Len(inbox) /\ offset' \in Nat
  BY <1>1, <1>2
<1>4. Current' = u /\ Reading = {}
  BY <1>1 DEF Current, Reading
<1>5. /\ 1 .. offset' = 1 .. offset \cup {offset + 1} /\ 1 .. offset \subseteq 1 .. Len(inbox)
      /\ offset + 1 \notin 1 .. offset
  BY <1>1, <1>2, <1>3
<1>6. Below(offset)' = Below(offset) \cup {u}
  BY <1>1, <1>5 DEF Below
<1>7. u \notin Below(offset)
  BY <1>1, <1>2, <1>3, <1>5 DEF Below, Distinct
<1>8. u \notin Held
  BY <1>7 DEF BridgeInv, PlacesOK
<1>9. taken' \in [Update -> 0 .. 2] /\ \A w \in Update : w # u => taken'[w] = taken[w]
  <2>1. taken[u] \in 0 .. 2 /\ Twice(taken[u]) \in 0 .. 2
    BY DEF BridgeInv, BridgeTypeOK, Twice
  <2> QED
    BY <1>1, <2>1 DEF BridgeInv, BridgeTypeOK
<1> DEFINE d == [offset |-> offset', history |-> remembered]
<1>10. disk' \in {disk, d} /\ damaged' \in BOOLEAN /\ faults' \in 0 .. MaxFaults
       /\ (~damaged' => ~damaged /\ disk' = d)
  BY <1>3, SaveType
<1>11. disk' \in [offset: 0 .. Len(inbox), history: SUBSET Text]
  <2>1. offset' \in 0 .. Len(inbox)
    BY <1>2, <1>3
  <2> QED
    BY <1>10, <2>1 DEF BridgeInv, BridgeTypeOK
<1>12. HandledOK'
  <2>1. u \in Items(inbox)
    BY <1>1, <1>2, <1>3
  <2>2. ASSUME NEW w \in Update, taken'[w] > 0 PROVE w \in Items(inbox)
    BY <1>9, <2>1, <2>2 DEF BridgeInv, HandledOK
  <2>3. ASSUME ~damaged', NEW i \in 1 .. Len(inbox), i > offset' PROVE taken'[inbox[i]] = 0
    <3>1. i > offset /\ i # offset + 1
      BY <1>1, <1>2, <2>3
    <3>2. inbox[i] # u /\ inbox[i] \in Update
      BY <1>1, <1>2, <1>3, <3>1 DEF Distinct
    <3> QED
      BY <1>9, <1>10, <2>3, <3>1, <3>2 DEF BridgeInv, HandledOK
  <2>4. ASSUME ~damaged', NEW w \in Update PROVE taken'[w] <= 1
    <3>1. CASE w = u
      <4>1. ~damaged /\ offset + 1 \in 1 .. Len(inbox) /\ offset + 1 > offset
        BY <1>2, <1>3, <1>10, <2>4
      <4>2. taken[u] = 0
        BY <1>1, <4>1 DEF BridgeInv, HandledOK
      <4>3. taken'[u] = 1
        BY <1>1, <4>2 DEF BridgeInv, BridgeTypeOK, Twice
      <4> QED
        BY <3>1, <4>3
    <3>2. CASE w # u
      BY <1>9, <1>10, <2>4, <3>2 DEF BridgeInv, HandledOK
    <3> QED
      BY <3>1, <3>2
  <2> QED
    BY <1>1, <1>10, <2>2, <2>3, <2>4 DEF HandledOK
<1>13. UNCHANGED replies => HistoryOK'
  BY <1>1, <1>10 DEF BridgeInv, HistoryOK, Replied
<1> QED
  BY <1>1, <1>3, <1>4, <1>6, <1>8, <1>9, <1>10, <1>11, <1>12, <1>13

LEMMA TakeTextKeeps ==
  ASSUME BridgeInv, NEW t \in Text, TakeText(t)
  PROVE  BridgeInv'
<1> DEFINE q == Append(queue, t)
<1>1. /\ t \in Update /\ Take(t) /\ Save(offset', remembered) /\ queue' = q /\ poll' = poll
      /\ UNCHANGED procVars /\ UNCHANGED dispatchVars /\ UNCHANGED outcomeVars
      /\ poll = "polling"
  BY DEF TakeText, Take, Update
<1>2. /\ q \in Seq(Text) /\ Items(q) = Items(queue) \cup {t} /\ Distinct(q)
  BY <1>1, AppendItems, TakeEffect DEF BridgeInv, BridgeTypeOK, PlacesOK, Held
<1> HIDE DEF q
<1>3. BridgeTypeOK'
  BY <1>1, <1>2, TakeEffect DEF BridgeInv, BridgeTypeOK, procVars, dispatchVars, outcomeVars
<1>4. InboxOK'
  BY <1>1, TakeEffect DEF BridgeInv, InboxOK
<1>5. t \notin Held /\ t # NoText
  BY <1>1, TakeEffect, BridgeAssumptions
<1>6. Held' = Held \cup {t} /\ Reading' = {} /\ Reading = {}
  BY <1>1, <1>2, TakeEffect DEF Held, Peeked, Reading, procVars
<1>7. PlacesOK'
  <2>1. Below(offset)' = Below(offset) \cup {t}
    BY <1>1, TakeEffect
  <2>2. t \notin Items(parts) \cup Items(extra) /\ t # peeked
    BY <1>5 DEF Held, Peeked
  <2> QED
    BY <1>1, <1>2, <1>6, <2>1, <2>2 DEF BridgeInv, PlacesOK, procVars
<1>8. AccountedOK'
  <2>1. \A w \in Text : w # t => taken'[w] = taken[w]
    BY <1>1, TakeEffect DEF Update
  <2> QED
    BY <1>1, <1>6, <2>1 DEF BridgeInv, AccountedOK, outcomeVars
<1>9. StagesOK' /\ HandledOK' /\ HistoryOK'
  BY <1>1, TakeEffect, Frames DEF procVars, dispatchVars, outcomeVars
<1> QED
  BY <1>3, <1>4, <1>7, <1>8, <1>9 DEF BridgeInv

LEMMA TakeMediaKeeps ==
  ASSUME BridgeInv, NEW t \in Text, TakeMedia(t)
  PROVE  BridgeInv'
<1>1. /\ t \in Update /\ Take(t) /\ Save(offset', remembered) /\ queue' = queue
      /\ poll' = "reading"
      /\ UNCHANGED procVars /\ UNCHANGED dispatchVars /\ UNCHANGED outcomeVars
  BY DEF TakeMedia, Update
<1>2. BridgeTypeOK'
  BY <1>1, TakeEffect DEF BridgeInv, BridgeTypeOK, procVars, dispatchVars, outcomeVars
<1>3. InboxOK'
  BY <1>1, TakeEffect DEF BridgeInv, InboxOK
<1>4. Held' = Held /\ Reading' = {t} /\ Reading = {}
  BY <1>1, TakeEffect DEF Held, Peeked, Reading, procVars
<1>5. PlacesOK'
  <2>1. Below(offset)' = Below(offset) \cup {t} /\ Current' \notin Held
    BY <1>1, TakeEffect
  <2> QED
    BY <1>1, <1>4, <2>1 DEF BridgeInv, PlacesOK, procVars
<1>6. AccountedOK'
  <2>1. \A w \in Text : w # t => taken'[w] = taken[w]
    BY <1>1, TakeEffect DEF Update
  <2> QED
    BY <1>1, <1>4, <2>1 DEF BridgeInv, AccountedOK, outcomeVars
<1>7. StagesOK' /\ HandledOK' /\ HistoryOK'
  BY <1>1, TakeEffect, Frames DEF procVars, dispatchVars, outcomeVars
<1> QED
  BY <1>2, <1>3, <1>5, <1>6, <1>7 DEF BridgeInv

LEMMA TakeTapKeeps ==
  ASSUME BridgeInv, NEW u \in Tap, TakeTap(u)
  PROVE  BridgeInv'
<1>1. /\ u \in Update /\ u \notin Text /\ Take(u) /\ Save(offset', remembered)
      /\ queue' = queue /\ poll' \in {poll, "tapping"} /\ poll = "polling"
      /\ UNCHANGED procVars /\ UNCHANGED dispatchVars /\ UNCHANGED outcomeVars
  BY BridgeAssumptions DEF TakeTap, Take, Update
<1>2. BridgeTypeOK'
  BY <1>1, TakeEffect DEF BridgeInv, BridgeTypeOK, procVars, dispatchVars, outcomeVars
<1>3. InboxOK'
  BY <1>1, TakeEffect DEF BridgeInv, InboxOK
<1>4. Held' = Held /\ Reading' = {} /\ Reading = {}
  BY <1>1, TakeEffect DEF Held, Peeked, Reading, procVars
<1>5. PlacesOK'
  <2>1. Below(offset)' = Below(offset) \cup {u}
    BY <1>1, TakeEffect
  <2> QED
    BY <1>1, <1>4, <2>1 DEF BridgeInv, PlacesOK, procVars
<1>6. AccountedOK'
  <2>1. \A w \in Text : taken'[w] = taken[w]
    BY <1>1, TakeEffect DEF Update
  <2> QED
    BY <1>1, <1>4, <2>1 DEF BridgeInv, AccountedOK, outcomeVars
<1>7. StagesOK' /\ HandledOK' /\ HistoryOK'
  BY <1>1, TakeEffect, Frames DEF procVars, dispatchVars, outcomeVars
<1> QED
  BY <1>2, <1>3, <1>5, <1>6, <1>7 DEF BridgeInv

LEMMA MediaKeeps ==
  ASSUME BridgeInv, MediaRead \/ MediaRefused \/ TapDone
  PROVE  BridgeInv'
<1>1. /\ poll' = "polling" /\ UNCHANGED <<inbox, confirmed, offset, fetched, taken, replies>>
      /\ UNCHANGED procVars /\ UNCHANGED dispatchVars /\ UNCHANGED diskVars
      /\ Reading' = {} /\ Below(offset)' = Below(offset)
  BY DEF MediaRead, MediaRefused, TapDone, Reading, Below, outcomeVars
<1>2. InboxOK' /\ HandledOK' /\ HistoryOK'
  <2>1. HandledOK' /\ HistoryOK'
    BY <1>1, Frames DEF diskVars
  <2> QED
    BY <1>1, <2>1 DEF BridgeInv, InboxOK
<1>3. CASE MediaRead
  <2> DEFINE t == Current
             q == Append(queue, t)
  <2>1. poll = "reading" /\ queue' = q /\ told' = told /\ lost' = lost
    BY <1>3 DEF MediaRead, outcomeVars
  <2>2. t \in Text /\ t \notin Held /\ t \in Below(offset) /\ Reading = {t} /\ t # NoText
    BY <2>1, BridgeAssumptions
       DEF BridgeInv, InboxOK, PlacesOK, Below, BridgeTypeOK, Current, Reading
  <2> HIDE DEF t
  <2>3. q \in Seq(Text) /\ Items(q) = Items(queue) \cup {t} /\ Distinct(q)
    BY <2>2, AppendItems DEF BridgeInv, BridgeTypeOK, PlacesOK, Held
  <2> HIDE DEF q
  <2>4. BridgeTypeOK'
    BY <1>1, <2>1, <2>3 DEF BridgeInv, BridgeTypeOK, procVars, dispatchVars, diskVars
  <2>5. Held' = Held \cup {t}
    BY <1>1, <2>1, <2>3 DEF Held, Peeked, procVars
  <2>6. PlacesOK'
    <3>1. t \notin Items(parts) \cup Items(extra) /\ t # peeked
      BY <2>2 DEF Held, Peeked
    <3> QED
      BY <1>1, <2>1, <2>2, <2>3, <2>5, <3>1 DEF BridgeInv, PlacesOK, procVars
  <2>7. AccountedOK'
    BY <1>1, <2>1, <2>2, <2>5 DEF BridgeInv, AccountedOK
  <2>8. StagesOK'
    BY <1>1, <2>1, Frames DEF procVars, dispatchVars
  <2> QED
    BY <1>2, <2>4, <2>6, <2>7, <2>8 DEF BridgeInv
<1>4. CASE MediaRefused
  <2>1. /\ poll = "reading" /\ queue' = queue /\ told \subseteq told' /\ lost \subseteq lost'
        /\ told' \subseteq told \cup {Current} /\ lost' \subseteq lost \cup {Current}
        /\ Current \in told' \cup lost'
    BY <1>4 DEF MediaRefused
  <2>2. Current \in Text /\ Reading = {Current}
    BY <2>1 DEF BridgeInv, InboxOK, Reading
  <2>3. BridgeTypeOK'
    BY <1>1, <2>1, <2>2 DEF BridgeInv, BridgeTypeOK, procVars, dispatchVars, diskVars
  <2>4. Held' = Held
    BY <1>1, <2>1 DEF Held, Peeked, Items, procVars
  <2>5. PlacesOK'
    BY <1>1, <2>1, <2>4 DEF BridgeInv, PlacesOK, procVars
  <2>6. AccountedOK'
    BY <1>1, <2>1, <2>2, <2>4 DEF BridgeInv, AccountedOK
  <2>7. StagesOK'
    BY <1>1, <2>1 DEF BridgeInv, StagesOK, procVars, dispatchVars
  <2> QED
    BY <1>2, <2>3, <2>5, <2>6, <2>7 DEF BridgeInv
<1>5. CASE TapDone
  <2>1. poll = "tapping" /\ queue' = queue /\ told' = told /\ lost' = lost
    BY <1>5 DEF TapDone, outcomeVars
  <2>2. BridgeTypeOK'
    BY <1>1, <2>1 DEF BridgeInv, BridgeTypeOK, procVars, dispatchVars, diskVars
  <2>3. Held' = Held /\ Reading = {}
    BY <1>1, <2>1 DEF Held, Peeked, Items, Reading, procVars
  <2>4. PlacesOK'
    BY <1>1, <2>1, <2>3 DEF BridgeInv, PlacesOK, procVars
  <2>5. AccountedOK'
    BY <1>1, <2>1, <2>3 DEF BridgeInv, AccountedOK
  <2>6. StagesOK'
    BY <1>1, <2>1, Frames DEF procVars, dispatchVars
  <2> QED
    BY <1>2, <2>2, <2>4, <2>5, <2>6 DEF BridgeInv
<1> QED
  BY <1>3, <1>4, <1>5

-----------------------------------------------------------------------------
(***************************************************************************)
(* Crash and restart.                                                      *)
(***************************************************************************)
LEMMA PrefixItems ==
  ASSUME BridgeInv, NEW m \in 0 .. Len(inbox)
  PROVE  Items(SubSeq(inbox, 1, m)) = Below(m)
<1> DEFINE s == SubSeq(inbox, 1, m)
<1>1. Len(s) = m /\ (\A i \in 1 .. m : s[i] = inbox[i]) /\ DOMAIN s = 1 .. m
  <2>1. inbox \in Seq(Update) /\ Len(inbox) \in Nat /\ m \in Nat /\ m <= Len(inbox)
    BY DEF BridgeInv, BridgeTypeOK
  <2> QED
    BY <2>1, SubSeqProperties
<1> HIDE DEF s
<1>2. Items(s) = Below(m)
  BY <1>1 DEF Items, Below
<1> QED
  BY <1>2 DEF s

LEMMA LeftType ==
  ASSUME BridgeInv, NEW d \in Left
  PROVE  /\ d \in [offset: 0 .. Len(inbox), history: SUBSET Text]
         /\ d.history \subseteq Replied
         /\ ~(damaged \/ d.offset < disk.offset) => d.offset >= offset
<1> DEFINE next == [offset |-> offset + 1, history |-> remembered]
           none == [offset |-> 0, history |-> {}]
<1>1. /\ offset \in Nat /\ fetched \in Nat /\ Len(inbox) \in Nat /\ fetched <= Len(inbox)
      /\ disk \in [offset: 0 .. Len(inbox), history: SUBSET Text]
      /\ remembered \subseteq Text /\ remembered \subseteq Replied /\ disk.history \subseteq Replied
      /\ ~damaged => disk.offset = offset
  BY DEF BridgeInv, BridgeTypeOK, HistoryOK, HandledOK
<1>2. d \in {disk, none} \/ (offset < fetched /\ d = next)
  BY DEF Left
<1>3. CASE d = disk
  BY <1>1, <1>3
<1>4. CASE d = none
  <2>1. d.offset = 0 /\ d.history = {} /\ 0 \in 0 .. Len(inbox)
    BY <1>1, <1>4
  <2> QED
    BY <1>1, <1>4, <2>1
<1>5. CASE offset < fetched /\ d = next
  <2>1. d.offset = offset + 1 /\ d.history = remembered /\ offset + 1 \in 0 .. Len(inbox)
    BY <1>1, <1>5
  <2> QED
    BY <1>1, <1>5, <2>1
<1> QED
  BY <1>2, <1>3, <1>4, <1>5

LEMMA CrashKeeps ==
  ASSUME BridgeInv, Crash
  PROVE  BridgeInv'
<1>1. PICK d \in Left :
        /\ disk' = d /\ damaged' = (damaged \/ d.offset < disk.offset)
        /\ offset' = Max({d.offset, confirmed}) /\ fetched' = offset' /\ poll' = "polling"
        /\ remembered' = d.history
        /\ lost' = lost \cup ((Items(SubSeq(inbox, 1, Max({offset, offset'}))) \cap Text) \ told)
  BY DEF Crash
<1>2. /\ queue' = <<>> /\ proc' = "idle" /\ parts' = <<>> /\ extra' = <<>> /\ peeked' = NoText
      /\ dispatch' = "none" /\ flag' = FALSE /\ captured' = "nothing" /\ plan' = "nobody"
      /\ UNCHANGED <<inbox, confirmed, taken, replies, told>>
      /\ faults' = faults + 1 /\ faults < MaxFaults
  BY DEF Crash, Fault
<1>3. /\ d \in [offset: 0 .. Len(inbox), history: SUBSET Text]
      /\ d.history \subseteq Replied
      /\ ~damaged' => ~damaged /\ d.offset >= offset
  BY <1>1, LeftType
<1>4. /\ confirmed \in Nat /\ offset \in Nat /\ Len(inbox) \in Nat
      /\ confirmed <= offset /\ offset <= Len(inbox) /\ d.offset \in 0 .. Len(inbox)
  BY <1>3 DEF BridgeInv, BridgeTypeOK
<1>5. offset' = IF d.offset >= confirmed THEN d.offset ELSE confirmed
  BY <1>1, <1>4, TwoMax
<1>6. /\ offset' \in 0 .. Len(inbox) /\ offset' \in Nat /\ confirmed <= offset'
      /\ ~damaged' => offset' = d.offset /\ offset' >= offset
  BY <1>3, <1>4, <1>5
<1> DEFINE m == Max({offset, offset'})
<1>7. m \in 0 .. Len(inbox) /\ offset <= m
  BY <1>4, <1>6, TwoMax
<1> HIDE DEF m
<1>8. lost' = lost \cup ((Below(m) \cap Text) \ told)
  BY <1>1, <1>7, PrefixItems DEF m
<1>9. /\ Items(<<>>) = {} /\ Distinct(<<>>) /\ Held' = {} /\ Reading' = {}
  BY <1>1, <1>2, EmptyItems DEF Held, Peeked, Reading
<1>10. BridgeTypeOK'
  <2>1. faults' \in 0 .. MaxFaults
    BY <1>2, BridgeAssumptions DEF BridgeInv, BridgeTypeOK
  <2>2. offset' <= fetched' /\ fetched' <= Len(inbox') /\ confirmed' <= offset'
        /\ {confirmed, offset, fetched}' \subseteq Nat
    BY <1>1, <1>2, <1>4, <1>6
  <2>3. disk' \in [offset: 0 .. Len(inbox), history: SUBSET Text] /\ remembered' \subseteq Text
    BY <1>1, <1>3
  <2>4. queue' \in Seq(Text) /\ parts' \in Seq(Text) /\ extra' \in Seq(Text)
        /\ lost' \subseteq Text
    BY <1>2, <1>8 DEF BridgeInv, BridgeTypeOK
  <2> QED
    BY <1>1, <1>2, <2>1, <2>2, <2>3, <2>4 DEF BridgeInv, BridgeTypeOK, Holder
<1>11. InboxOK'
  BY <1>1, <1>2 DEF BridgeInv, InboxOK
<1>12. HandledOK'
  <2>1. ASSUME ~damaged', NEW i \in 1 .. Len(inbox), i > offset' PROVE taken[inbox[i]] = 0
    BY <1>3, <1>4, <1>6, <2>1 DEF BridgeInv, HandledOK
  <2> QED
    BY <1>1, <1>2, <1>6, <2>1 DEF BridgeInv, HandledOK
<1>13. HistoryOK'
  BY <1>1, <1>2, <1>3 DEF HistoryOK, Replied
<1>14. StagesOK'
  BY <1>2 DEF StagesOK
<1>15. PlacesOK'
  BY <1>1, <1>2, <1>9 DEF PlacesOK
<1>16. AccountedOK'
  <2>1. Below(offset) \subseteq Below(m)
    BY <1>4, <1>7 DEF Below
  <2>2. Held \cup Reading \subseteq Below(m)
    <3>1. Reading \subseteq Below(offset)
      BY <1>4 DEF Reading, Current, Below, BridgeInv, InboxOK
    <3> QED
      BY <2>1, <3>1 DEF BridgeInv, PlacesOK
  <2> QED
    BY <1>2, <1>8, <2>2 DEF BridgeInv, AccountedOK
<1> QED
  BY <1>10, <1>11, <1>12, <1>13, <1>14, <1>15, <1>16 DEF BridgeInv

LEMMA CardsOnly ==
  ASSUME BridgeInv,
         UNCHANGED <<pollVars, queue, procVars, dispatchVars, diskVars, outcomeVars>>
  PROVE  BridgeInv'
<1>1. BridgeTypeOK'
  BY DEF BridgeInv, BridgeTypeOK, pollVars, procVars, dispatchVars, diskVars, outcomeVars
<1> QED
  BY <1>1, Frames DEF BridgeInv, pollVars, procVars, dispatchVars, diskVars, outcomeVars

-----------------------------------------------------------------------------
(***************************************************************************)
(* The theorems.                                                           *)
(***************************************************************************)
LEMMA BridgeStep == BridgeInv /\ [Next]_vars => BridgeInv'
<1> SUFFICES ASSUME BridgeInv, [Next]_vars PROVE BridgeInv'
  OBVIOUS
<1>1. ASSUME NEW u \in Update, Send(u) PROVE BridgeInv'
  BY <1>1, SendKeeps
<1>2. CASE Poller
  <2>1. ASSUME NEW t \in Text, TakeText(t) \/ TakeMedia(t) PROVE BridgeInv'
    BY <2>1, TakeTextKeeps, TakeMediaKeeps
  <2>2. ASSUME NEW u \in Tap, TakeTap(u) PROVE BridgeInv'
    BY <2>2, TakeTapKeeps
  <2> QED
    BY <1>2, <2>1, <2>2, PollKeeps, MediaKeeps DEF Poller
<1>3. CASE Processor
  BY <1>3, TakeFirstKeeps, GatherKeeps, WindowClosesKeeps, PeekKeeps, DispatchOverKeeps,
     FollowUpKeeps, MergeKeeps, InterruptKeeps, KillKeeps, RedispatchKeeps DEF Processor
<1>4. CASE Dispatching \/ PlanEnds \/ ForeignStarts \/ ForeignEnds
  BY <1>4, RunKeeps, NotedKeeps, ReplySentKeeps DEF Dispatching
<1>5. ASSUME NEW a \in Approval, Cards(a) PROVE BridgeInv'
  BY <1>5, CardsOnly DEF Cards
<1>6. CASE Crash
  BY <1>6, CrashKeeps
<1>7. CASE UNCHANGED vars
  BY <1>7, CardsOnly DEF vars
<1> QED
  BY <1>1, <1>2, <1>3, <1>4, <1>5, <1>6, <1>7 DEF Next

\* The inductive invariant.
THEOREM Invariance == Spec => []IInv
<1>1. Init => BridgeInv
  BY BridgeStart
<1>2. BridgeInv /\ [Next]_vars => BridgeInv'
  BY BridgeStep
<1>3. CardsInv /\ BridgeInv => IInv
  BY TypesTogether DEF CardsInv, BridgeInv, IInv
<1> QED
  BY <1>1, <1>2, <1>3, CardsInvariance, PTL DEF Spec

\* The variables of the bridge and of the cards keep their types.
THEOREM TypeCorrect == Spec => []TypeOK
<1>1. IInv => TypeOK
  BY DEF IInv
<1> QED
  BY <1>1, Invariance, PTL

LEMMA OnePlace ==
  ASSUME IInv, NEW t \in Text
  PROVE  Places(t) = IF t \in Held THEN 1 ELSE 0
<1>1. /\ queue \in Seq(Text) /\ parts \in Seq(Text) /\ extra \in Seq(Text)
      /\ Distinct(queue) /\ Distinct(parts) /\ Distinct(extra)
  BY DEF IInv, TypeOK, PlacesOK
<1>2. /\ Count(t, queue) = IF t \in Items(queue) THEN 1 ELSE 0
      /\ Count(t, parts) = IF t \in Items(parts) THEN 1 ELSE 0
      /\ Count(t, extra) = IF t \in Items(extra) THEN 1 ELSE 0
  BY <1>1, CountOnce
<1>3. /\ t \in Items(queue) => t \notin Items(parts) /\ t \notin Items(extra) /\ t # peeked
      /\ t \in Items(parts) => t \notin Items(extra) /\ t # peeked
      /\ t \in Items(extra) => t # peeked
      /\ t \in Held <=> \/ t \in Items(queue) \/ t \in Items(parts) \/ t \in Items(extra)
                        \/ t = peeked
  BY BridgeAssumptions DEF IInv, PlacesOK, Held, Peeked
<1> HIDE DEF Count
<1> QED
  BY <1>2, <1>3 DEF Places

\* However texts, follow-ups, timeouts and the end of a dispatch fall: a text that was
\* taken is in one place, or its sender was told, or a crash, or the silent refusal of its
\* file, took it (telegram_bridge.py, _process_queue).
THEOREM NothingDroppedHolds == Spec => []NothingDropped
<1>1. ASSUME IInv PROVE NothingDropped
  <2> SUFFICES ASSUME NEW t \in Text
               PROVE  /\ taken[t] > 0 => \/ Places(t) = 1
                                         \/ t \in told \cup lost
                                         \/ poll = "reading" /\ Current = t
                      /\ taken[t] < 2 => Places(t) <= 1
    BY DEF NothingDropped
  <2>1. Places(t) = IF t \in Held THEN 1 ELSE 0
    BY <1>1, OnePlace
  <2>2. taken[t] > 0 => t \in Held \cup Reading \cup told \cup lost
    BY <1>1 DEF IInv, AccountedOK
  <2>3. Places(t) <= 1
    BY <2>1
  <2>4. taken[t] > 0 => \/ Places(t) = 1
                        \/ t \in told \cup lost
                        \/ poll = "reading" /\ Current = t
    BY <2>1, <2>2 DEF Reading
  <2> QED
    BY <2>3, <2>4
<1> QED
  BY <1>1, Invariance, PTL

\* With a state file that is whole nothing is handled twice, over any number of restarts,
\* and the history of the prompts holds only what was replied to (_save_state, _dispatch).
THEOREM StateFileHonestHolds == Spec => []StateFileHonest
<1>1. IInv => StateFileHonest
  BY DEF IInv, HandledOK, HistoryOK, Replied, StateFileHonest
<1> QED
  BY <1>1, Invariance, PTL
=============================================================================
