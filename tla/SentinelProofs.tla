--------------------------- MODULE SentinelProofs ---------------------------
(***************************************************************************)
(* The safety of the Sentinel, for any conditions, any number of           *)
(* coroutines that broadcast and any number of faults.                     *)
(***************************************************************************)
EXTENDS Sentinel, FiniteSetTheorems, SequenceTheorems, TLAPS

\* A scan works on a key of the window, between the incident and the end of its
\* announcements; a scan inside it is inside such an announcement.
FrameOK(f, keys, told) ==
  /\ (f.of = NoKey) <=> (f.at \in {"rules", "handling"})
  /\ f.of # NoKey => f.of \in keys
  /\ f.at = "escalating" => f.of \in told

FramesOK ==
  \A c \in Caller : \A i \in 1 .. Len(scans[c]) :
    /\ FrameOK(scans[c][i], window, announced)
    /\ i # Len(scans[c]) => scans[c][i].at \in {"announcing", "escalating"}

\* No two scans work on one key, of whatever coroutines they are.
Apart ==
  \A c, d \in Caller : \A i \in 1 .. Len(scans[c]), j \in 1 .. Len(scans[d]) :
    scans[c][i].of = scans[d][j].of /\ scans[c][i].of # NoKey => c = d /\ i = j

\* An incident is one of the window.
InWindow == \A k \in Key : raised[k] = 0 \/ (raised[k] = 1 /\ k \in window)

IInv == TypeOK /\ FramesOK /\ Apart /\ InWindow /\ IncidentAnnounced

-----------------------------------------------------------------------------
(***************************************************************************)
(* Stacks.                                                                 *)
(***************************************************************************)
LEMMA FrontFacts ==
  ASSUME NEW S, NEW s \in Seq(S), s # <<>>
  PROVE  /\ Len(s) \in Nat \ {0} /\ Last(s) = s[Len(s)] /\ Last(s) \in S
         /\ Front(s) \in Seq(S) /\ Len(Front(s)) = Len(s) - 1
         /\ \A i \in 1 .. Len(s) - 1 : Front(s)[i] = s[i]
<1>1. Len(s) \in Nat \ {0} /\ Last(s) = s[Len(s)] /\ Last(s) \in S
  BY EmptySeq, LenProperties DEF Last
<1>2. PICK n \in Nat : Len(s) = n + 1
  BY <1>1
<1>3. \A i \in 1 .. n : s[i] \in S
  BY <1>2, LenProperties
<1>4. Front(s) = SubSeq(s, 1, n)
  BY <1>2 DEF Front
<1>5. /\ Front(s) \in Seq(S) /\ Len(Front(s)) = IF 1 <= n THEN n - 1 + 1 ELSE 0
      /\ \A i \in 1 .. n - 1 + 1 : Front(s)[i] = s[1 + i - 1]
  BY <1>3, <1>4, SubSeqProperties
<1>6. Front(s) \in Seq(S) /\ Len(Front(s)) = n
  BY <1>5
<1>7. ASSUME NEW i \in 1 .. n PROVE Front(s)[i] = s[i]
  <2>1. i \in 1 .. n - 1 + 1 /\ 1 + i - 1 = i
    OBVIOUS
  <2>2. Front(s)[i] = s[1 + i - 1]
    BY <1>5, <2>1
  <2> QED
    BY <2>1, <2>2
<1>8. Len(s) - 1 = n
  BY <1>2
<1> QED
  BY <1>1, <1>6, <1>7, <1>8

LEMMA SwapFacts ==
  ASSUME NEW S, NEW s \in Seq(S), s # <<>>, NEW f \in S
  PROVE  LET t == Append(Front(s), f)
         IN  /\ t \in Seq(S) /\ Len(t) = Len(s) /\ Len(s) \in Nat \ {0} /\ t[Len(s)] = f
             /\ \A i \in 1 .. Len(s) - 1 : t[i] = s[i]
<1>1. /\ Front(s) \in Seq(S) /\ Len(Front(s)) = Len(s) - 1 /\ Len(s) \in Nat \ {0}
      /\ \A i \in 1 .. Len(s) - 1 : Front(s)[i] = s[i]
  BY FrontFacts
<1> HIDE DEF Front
<1> QED
  BY <1>1

\* A stack t in the place of c's: its frames are c's but for the last ones, which work on
\* the same key or on none or on one that nobody works on.
LEMMA StackKeeps ==
  ASSUME scans \in [Caller -> Seq(Frame)], FramesOK, Apart,
         window \subseteq window', announced \subseteq announced',
         NEW c \in Caller, NEW t \in Seq(Frame), scans' = [scans EXCEPT ![c] = t],
         \A i \in 1 .. Len(t) :
           /\ FrameOK(t[i], window', announced')
           /\ i # Len(t) => t[i].at \in {"announcing", "escalating"},
         \A i \in 1 .. Len(t) :
           \/ t[i].of = NoKey
           \/ i \in 1 .. Len(scans[c]) /\ t[i].of = scans[c][i].of
           \/ t[i].of \notin window /\ \A j \in 1 .. Len(t) : t[j].of = t[i].of => i = j
  PROVE  scans' \in [Caller -> Seq(Frame)] /\ FramesOK' /\ Apart'
<1>1. /\ scans' \in [Caller -> Seq(Frame)] /\ scans'[c] = t
      /\ \A d \in Caller \ {c} : scans'[d] = scans[d]
  OBVIOUS
<1>2. FramesOK'
  <2> SUFFICES ASSUME NEW d \in Caller, NEW i \in 1 .. Len(scans'[d])
               PROVE  /\ FrameOK(scans'[d][i], window', announced')
                      /\ i # Len(scans'[d]) => scans'[d][i].at \in {"announcing", "escalating"}
    BY DEF FramesOK
  <2>1. CASE d = c
    BY <1>1, <2>1 DEF FrameOK
  <2>2. CASE d # c
    BY <1>1, <2>2 DEF FramesOK, FrameOK
  <2> QED
    BY <2>1, <2>2
<1>3. Apart'
  <2> SUFFICES ASSUME NEW d \in Caller, NEW e \in Caller, NEW i \in 1 .. Len(scans'[d]),
                      NEW j \in 1 .. Len(scans'[e]),
                      scans'[d][i].of = scans'[e][j].of, scans'[d][i].of # NoKey
               PROVE  d = e /\ i = j
    BY DEF Apart
  <2>1. CASE d # c /\ e # c
    BY <1>1, <2>1 DEF Apart
  <2>2. CASE d = c /\ e = c
    BY <1>1, <2>2 DEF Apart, FramesOK, FrameOK
  <2>3. CASE d = c /\ e # c
    BY <1>1, <2>3 DEF Apart, FramesOK, FrameOK
  <2>4. CASE d # c /\ e = c
    BY <1>1, <2>4 DEF Apart, FramesOK, FrameOK
  <2> QED
    BY <2>1, <2>2, <2>3, <2>4
<1> QED
  BY <1>1, <1>2, <1>3

LEMMA PutKeeps ==
  ASSUME scans \in [Caller -> Seq(Frame)], FramesOK, Apart,
         window \subseteq window', announced \subseteq announced',
         NEW c \in Caller, scans[c] # <<>>, NEW f \in Frame, Put(c, f),
         FrameOK(f, window', announced'),
         f.of = NoKey \/ f.of = Top(c).of \/ f.of \notin window
  PROVE  scans' \in [Caller -> Seq(Frame)] /\ FramesOK' /\ Apart'
<1> DEFINE s == scans[c]
           t == Append(Front(s), f)
<1>1. s \in Seq(Frame) /\ s # <<>> /\ Top(c) = s[Len(s)]
  BY FrontFacts DEF Top
<1>2. /\ t \in Seq(Frame) /\ Len(t) = Len(s) /\ Len(s) \in Nat \ {0} /\ t[Len(s)] = f
      /\ \A i \in 1 .. Len(s) - 1 : t[i] = s[i]
  BY <1>1, SwapFacts
<1>3. scans' = [scans EXCEPT ![c] = t]
  BY DEF Put
<1> HIDE DEF t
<1>4. \A i \in 1 .. Len(s) - 1 :
        FrameOK(s[i], window, announced) /\ s[i].at \in {"announcing", "escalating"}
  BY <1>1, <1>2 DEF FramesOK
<1>5. \A i \in 1 .. Len(t) :
        /\ FrameOK(t[i], window', announced')
        /\ i # Len(t) => t[i].at \in {"announcing", "escalating"}
  <2> SUFFICES ASSUME NEW i \in 1 .. Len(t)
               PROVE  /\ FrameOK(t[i], window', announced')
                      /\ i # Len(t) => t[i].at \in {"announcing", "escalating"}
    OBVIOUS
  <2>1. CASE i = Len(s)
    BY <1>2, <2>1
  <2>2. CASE i \in 1 .. Len(s) - 1
    BY <1>2, <1>4, <2>2 DEF FrameOK
  <2> QED
    BY <1>2, <2>1, <2>2
<1>6. \A i \in 1 .. Len(t) :
        \/ t[i].of = NoKey
        \/ i \in 1 .. Len(s) /\ t[i].of = s[i].of
        \/ t[i].of \notin window /\ \A j \in 1 .. Len(t) : t[j].of = t[i].of => i = j
  <2>1. ASSUME f.of \notin window, f.of # NoKey, NEW j \in 1 .. Len(s) - 1 PROVE t[j].of # f.of
    BY <1>2, <1>4, <2>1 DEF FrameOK
  <2> QED
    BY <1>1, <1>2, <2>1
<1> QED
  BY <1>2, <1>3, <1>5, <1>6, StackKeeps

LEMMA BroadcastKeeps ==
  ASSUME scans \in [Caller -> Seq(Frame)], FramesOK, Apart,
         window' = window, announced \subseteq announced', holds \subseteq Key,
         NEW c \in Caller, scans[c] # <<>>, NEW f \in Frame, Broadcast(c, f),
         FrameOK(f, window', announced'), f.at \in {"announcing", "escalating"}, f.of = Top(c).of
  PROVE  scans' \in [Caller -> Seq(Frame)] /\ FramesOK' /\ Apart'
<1> DEFINE s == scans[c]
           w == Append(Front(s), f)
           t == Append(w, NewScan)
<1>1. s \in Seq(Frame) /\ s # <<>> /\ Top(c) = s[Len(s)]
  BY FrontFacts DEF Top
<1>2. /\ w \in Seq(Frame) /\ Len(w) = Len(s) /\ Len(s) \in Nat \ {0} /\ w[Len(s)] = f
      /\ \A i \in 1 .. Len(s) - 1 : w[i] = s[i]
  BY <1>1, SwapFacts
<1>3. NewScan \in Frame /\ NewScan.of = NoKey /\ NewScan.at = "rules"
  BY DEF NewScan, Frame, At
<1>4. scans' = [scans EXCEPT ![c] = t]
  BY DEF Broadcast
<1> HIDE DEF w, NewScan
<1>5. /\ t \in Seq(Frame) /\ Len(t) = Len(s) + 1 /\ t[Len(s) + 1] = NewScan
      /\ \A i \in 1 .. Len(s) : t[i] = w[i]
  BY <1>2, <1>3
<1> HIDE DEF t
<1>6. \A i \in 1 .. Len(s) :
        t[i].of = s[i].of /\ FrameOK(t[i], window', announced') /\ t[i].at \in {"announcing", "escalating"}
  BY SMTT(20), <1>1, <1>2, <1>5 DEF FramesOK, FrameOK
<1>7. \A i \in 1 .. Len(t) :
        /\ FrameOK(t[i], window', announced')
        /\ i # Len(t) => t[i].at \in {"announcing", "escalating"}
  BY <1>2, <1>3, <1>5, <1>6 DEF FrameOK
<1>8. \A i \in 1 .. Len(t) :
        t[i].of = NoKey \/ (i \in 1 .. Len(s) /\ t[i].of = s[i].of)
  BY <1>2, <1>3, <1>5, <1>6
<1> QED
  BY <1>4, <1>5, <1>7, <1>8, StackKeeps

LEMMA PopKeeps ==
  ASSUME scans \in [Caller -> Seq(Frame)], FramesOK, Apart,
         window \subseteq window', announced \subseteq announced',
         NEW c \in Caller, scans[c] # <<>>, Pop(c)
  PROVE  scans' \in [Caller -> Seq(Frame)] /\ FramesOK' /\ Apart'
<1> DEFINE s == scans[c]
           t == Front(s)
<1>1. /\ s \in Seq(Frame) /\ t \in Seq(Frame) /\ Len(t) = Len(s) - 1 /\ Len(s) \in Nat \ {0}
      /\ \A i \in 1 .. Len(s) - 1 : t[i] = s[i]
  BY FrontFacts
<1>2. scans' = [scans EXCEPT ![c] = t]
  BY DEF Pop
<1> HIDE DEF t
<1>3. \A i \in 1 .. Len(t) :
        /\ FrameOK(t[i], window', announced')
        /\ i # Len(t) => t[i].at \in {"announcing", "escalating"}
  <2> SUFFICES ASSUME NEW i \in 1 .. Len(t)
               PROVE  /\ FrameOK(t[i], window', announced')
                      /\ i # Len(t) => t[i].at \in {"announcing", "escalating"}
    OBVIOUS
  <2>1. i \in 1 .. Len(s) /\ i # Len(s) /\ t[i] = s[i]
    BY <1>1
  <2>2. FrameOK(s[i], window, announced) /\ s[i].at \in {"announcing", "escalating"}
    BY <2>1 DEF FramesOK
  <2> QED
    BY <2>1, <2>2 DEF FrameOK
<1>4. \A i \in 1 .. Len(t) : i \in 1 .. Len(s) /\ t[i].of = s[i].of
  BY <1>1
<1> QED
  BY <1>1, <1>2, <1>3, <1>4, StackKeeps

\* The keys somebody works on.
LEMMA ScanningFacts ==
  ASSUME scans \in [Caller -> Seq(Frame)], NEW k
  PROVE  Scanning(k) <=> \E c \in Caller : \E i \in 1 .. Len(scans[c]) : scans[c][i].of = k
BY DEF Scanning

\* Of the keys somebody works on, a step of c's last frame drops its key at most.
LEMMA StillScanning ==
  ASSUME scans \in [Caller -> Seq(Frame)], scans' \in [Caller -> Seq(Frame)],
         NEW c \in Caller, scans[c] # <<>>, NEW k, Scanning(k),
         \A d \in Caller \ {c} : scans'[d] = scans[d],
         Len(scans'[c]) >= Len(scans[c]) - 1,
         \A i \in 1 .. Len(scans[c]) - 1 : scans'[c][i] = scans[c][i],
         Top(c).of # k \/ (Len(scans'[c]) >= Len(scans[c]) /\ scans'[c][Len(scans[c])].of = k)
  PROVE  Scanning(k)'
<1>1. PICK d \in Caller : \E i \in 1 .. Len(scans[d]) : scans[d][i].of = k
  BY ScanningFacts
<1>2. PICK i \in 1 .. Len(scans[d]) : scans[d][i].of = k
  BY <1>1
<1>3. Scanning(k)' <=> \E e \in Caller : \E j \in 1 .. Len(scans'[e]) : scans'[e][j].of = k
  BY DEF Scanning
<1>4. CASE d # c
  BY <1>2, <1>3, <1>4
<1>5. CASE d = c
  <2>1. Len(scans[c]) \in Nat \ {0} /\ Top(c) = scans[c][Len(scans[c])]
    BY FrontFacts DEF Top
  <2>2. Len(scans'[c]) \in Nat
    OBVIOUS
  <2>3. CASE i = Len(scans[c])
    <3>1. Len(scans[c]) \in 1 .. Len(scans'[c]) /\ scans'[c][Len(scans[c])].of = k
      BY <1>2, <1>5, <2>1, <2>2, <2>3
    <3> QED
      BY <1>3, <3>1
  <2>4. CASE i # Len(scans[c])
    <3>1. i \in 1 .. Len(scans'[c]) /\ scans'[c][i].of = k
      BY <1>2, <1>5, <2>1, <2>2, <2>4
    <3> QED
      BY <1>3, <3>1
  <2> QED
    BY <2>3, <2>4
<1> QED
  BY <1>4, <1>5

LEMMA PutScans ==
  ASSUME scans \in [Caller -> Seq(Frame)], NEW c \in Caller, scans[c] # <<>>,
         NEW f \in Frame, Put(c, f), NEW k
  PROVE  /\ f.of = k => Scanning(k)'
         /\ Scanning(k) /\ Top(c).of # k => Scanning(k)'
<1> DEFINE t == Append(Front(scans[c]), f)
<1>1. /\ t \in Seq(Frame) /\ Len(t) = Len(scans[c]) /\ Len(scans[c]) \in Nat \ {0}
      /\ t[Len(scans[c])] = f /\ \A i \in 1 .. Len(scans[c]) - 1 : t[i] = scans[c][i]
  BY SwapFacts
<1>2. scans' = [scans EXCEPT ![c] = t]
  BY DEF Put
<1> HIDE DEF t
<1>3. /\ scans' \in [Caller -> Seq(Frame)] /\ scans'[c] = t
      /\ \A d \in Caller \ {c} : scans'[d] = scans[d]
  BY <1>1, <1>2
<1>4. f.of = k => Scanning(k)'
  BY <1>1, <1>3 DEF Scanning
<1> QED
  BY SMTT(20), <1>1, <1>3, <1>4, StillScanning

LEMMA BroadcastScans ==
  ASSUME scans \in [Caller -> Seq(Frame)], NEW c \in Caller, scans[c] # <<>>,
         NEW f \in Frame, Broadcast(c, f), f.of = Top(c).of, holds \subseteq Key,
         NEW k, Scanning(k)
  PROVE  Scanning(k)'
<1> DEFINE w == Append(Front(scans[c]), f)
           t == Append(w, NewScan)
<1>1. /\ w \in Seq(Frame) /\ Len(w) = Len(scans[c]) /\ Len(scans[c]) \in Nat \ {0}
      /\ w[Len(scans[c])] = f /\ \A i \in 1 .. Len(scans[c]) - 1 : w[i] = scans[c][i]
  BY SwapFacts
<1>2. NewScan \in Frame
  BY DEF NewScan, Frame, At
<1>3. scans' = [scans EXCEPT ![c] = t]
  BY DEF Broadcast
<1> HIDE DEF w, NewScan
<1>4. /\ t \in Seq(Frame) /\ Len(t) = Len(scans[c]) + 1
      /\ \A i \in 1 .. Len(scans[c]) : t[i] = w[i]
  BY <1>1, <1>2
<1> HIDE DEF t
<1>5. /\ scans' \in [Caller -> Seq(Frame)] /\ scans'[c] = t
      /\ \A d \in Caller \ {c} : scans'[d] = scans[d]
  BY <1>3, <1>4
<1>6. /\ \A i \in 1 .. Len(scans[c]) - 1 : scans'[c][i] = scans[c][i]
      /\ Len(scans'[c]) >= Len(scans[c]) /\ Len(scans'[c]) >= Len(scans[c]) - 1
      /\ scans'[c][Len(scans[c])] = f
  <2>1. \A i \in 1 .. Len(scans[c]) - 1 : i \in 1 .. Len(scans[c])
    BY <1>1
  <2>2. \A i \in 1 .. Len(scans[c]) - 1 : t[i] = scans[c][i]
    BY <1>1, <1>4, <2>1
  <2>3. Len(t) >= Len(scans[c]) /\ Len(t) >= Len(scans[c]) - 1
    BY <1>1, <1>4
  <2>4. Len(scans[c]) \in 1 .. Len(scans[c])
    BY <1>1
  <2> QED
    BY <1>1, <1>4, <1>5, <2>2, <2>3, <2>4
<1> QED
  BY <1>5, <1>6, StillScanning

LEMMA PopScans ==
  ASSUME scans \in [Caller -> Seq(Frame)], NEW c \in Caller, scans[c] # <<>>, Pop(c),
         NEW k, Scanning(k), Top(c).of # k
  PROVE  Scanning(k)'
<1> DEFINE t == Front(scans[c])
<1>1. /\ t \in Seq(Frame) /\ Len(t) = Len(scans[c]) - 1
      /\ \A i \in 1 .. Len(scans[c]) - 1 : t[i] = scans[c][i]
  BY FrontFacts
<1>2. scans' = [scans EXCEPT ![c] = t]
  BY DEF Pop
<1> HIDE DEF t
<1>3. /\ scans' \in [Caller -> Seq(Frame)] /\ scans'[c] = t
      /\ \A d \in Caller \ {c} : scans'[d] = scans[d]
  BY <1>1, <1>2
<1>4. Len(scans'[c]) >= Len(scans[c]) - 1
  BY <1>1, <1>3
<1> QED
  BY <1>1, <1>3, <1>4, StillScanning

-----------------------------------------------------------------------------
(***************************************************************************)
(* Steps.                                                                  *)
(***************************************************************************)
LEMMA InvInit == Init => IInv
<1> SUFFICES ASSUME Init PROVE IInv
  OBVIOUS
<1>1. TypeOK
  BY FaultAssumptions DEF Init, FaultsInit, TypeOK, FaultsTypeOK
<1>2. FramesOK /\ Apart /\ InWindow /\ IncidentAnnounced
  BY DEF Init, FramesOK, Apart, InWindow, IncidentAnnounced
<1> QED
  BY <1>1, <1>2 DEF IInv

LEMMA TopFacts ==
  ASSUME IInv, NEW c \in Caller, scans[c] # <<>>
  PROVE  scans \in [Caller -> Seq(Frame)] /\ Top(c) \in Frame /\ FrameOK(Top(c), window, announced)
<1>1. /\ scans \in [Caller -> Seq(Frame)] /\ Len(scans[c]) \in Nat \ {0}
      /\ Top(c) = scans[c][Len(scans[c])] /\ Top(c) \in Frame
  BY FrontFacts DEF IInv, TypeOK, Top
<1> QED
  BY <1>1 DEF IInv, FramesOK

\* What a step owes that leaves the window's incidents as they are.
LEMMA Unannounced ==
  ASSUME IInv, UNCHANGED raised, announced \subseteq announced', cut \subseteq cut',
         \A k \in Key : Scanning(k) => Scanning(k)' \/ k \in announced' \cup cut'
  PROVE  IncidentAnnounced'
BY DEF IInv, IncidentAnnounced

LEMMA FaultType == ASSUME FaultsTypeOK, Fault \/ UNCHANGED faults PROVE FaultsTypeOK'
BY FaultAssumptions DEF FaultsTypeOK, Fault

LEMMA BeginKeeps ==
  ASSUME IInv, NEW c \in Caller, Begin(c)
  PROVE  IInv'
<1>1. /\ scans \in [Caller -> Seq(Frame)] /\ scans[c] = <<>>
      /\ scans' = [scans EXCEPT ![c] = <<NewScan>>]
      /\ UNCHANGED <<holds, window, loop, orch, tasks, raised, announced, cut, skipped, faults>>
      /\ holds \subseteq Key
  BY DEF Begin, IInv, TypeOK
<1>2. NewScan \in Frame /\ NewScan.of = NoKey /\ NewScan.at = "rules"
  BY <1>1 DEF NewScan, Frame, At
<1> HIDE DEF NewScan
<1>3. <<NewScan>> \in Seq(Frame) /\ Len(<<NewScan>>) = 1 /\ <<NewScan>>[1] = NewScan
  BY <1>2
<1>4. scans' \in [Caller -> Seq(Frame)] /\ FramesOK' /\ Apart'
  <2> DEFINE t == <<NewScan>>
  <2>1. t[1].of = NoKey /\ FrameOK(t[1], window', announced') /\ Len(t) = 1 /\ t \in Seq(Frame)
    BY <1>2, <1>3 DEF FrameOK
  <2>2. scans' = [scans EXCEPT ![c] = t]
    BY <1>1
  <2> HIDE DEF t
  <2>3. \A i \in 1 .. Len(t) : i = 1
    BY <2>1
  <2>4. FramesOK /\ Apart /\ window \subseteq window' /\ announced \subseteq announced'
    BY <1>1 DEF IInv
  <2> QED
    BY <1>1, <2>1, <2>2, <2>3, <2>4, StackKeeps
<1>5. IncidentAnnounced'
  <2>1. \A d \in Caller \ {c} : scans'[d] = scans[d]
    BY <1>1
  <2>2. \A k \in Key : Scanning(k) => Scanning(k)'
    BY <1>1, <2>1 DEF Scanning
  <2> QED
    BY <1>1, <2>2, Unannounced
<1>6. TypeOK' /\ InWindow'
  BY <1>1, <1>4 DEF IInv, TypeOK, InWindow, FaultsTypeOK
<1> QED
  BY <1>4, <1>5, <1>6 DEF IInv

LEMMA PutStepKeeps ==
  ASSUME IInv, NEW c \in Caller, scans[c] # <<>>, NEW f \in Frame, Put(c, f),
         FrameOK(f, window', announced'), f.of = NoKey \/ f.of = Top(c).of,
         f.of = Top(c).of \/ Top(c).of \in announced' \cup {NoKey},
         UNCHANGED <<holds, window, loop, orch, raised, cut>>,
         tasks' \subseteq Key, announced' \subseteq Key, announced \subseteq announced',
         skipped' \subseteq Key, Fault \/ UNCHANGED faults
  PROVE  IInv'
<1>1. scans \in [Caller -> Seq(Frame)]
  BY TopFacts
<1>2. scans' \in [Caller -> Seq(Frame)] /\ FramesOK' /\ Apart'
  BY <1>1, PutKeeps DEF IInv
<1>3. IncidentAnnounced'
  <2>1. ASSUME NEW k \in Key, Scanning(k) PROVE Scanning(k)' \/ k \in announced'
    BY <1>1, <2>1, PutScans, SentinelAssumptions
  <2> QED
    BY <2>1, Unannounced
<1>4. TypeOK' /\ InWindow'
  BY <1>2, FaultType DEF IInv, TypeOK, InWindow
<1> QED
  BY <1>2, <1>3, <1>4 DEF IInv


LEMMA BroadcastStepKeeps ==
  ASSUME IInv, NEW c \in Caller, scans[c] # <<>>, NEW f \in Frame, Broadcast(c, f),
         FrameOK(f, window', announced'), f.at \in {"announcing", "escalating"},
         f.of = Top(c).of,
         UNCHANGED <<holds, window, loop, orch, tasks, raised, cut, skipped, faults>>,
         announced' \subseteq Key, announced \subseteq announced'
  PROVE  IInv'
<1>1. scans \in [Caller -> Seq(Frame)] /\ holds \subseteq Key
  BY DEF IInv, TypeOK
<1>2. scans' \in [Caller -> Seq(Frame)] /\ FramesOK' /\ Apart'
  BY <1>1, BroadcastKeeps DEF IInv
<1>3. IncidentAnnounced'
  <2>1. ASSUME NEW k \in Key, Scanning(k) PROVE Scanning(k)'
    BY <1>1, <2>1, BroadcastScans
  <2> QED
    BY <2>1, Unannounced
<1>4. TypeOK' /\ InWindow'
  BY <1>2 DEF IInv, TypeOK, InWindow, FaultsTypeOK
<1> QED
  BY <1>2, <1>3, <1>4 DEF IInv

LEMMA PopStepKeeps ==
  ASSUME IInv, NEW c \in Caller, scans[c] # <<>>, Pop(c), Fault \/ UNCHANGED faults,
         UNCHANGED <<holds, loop, orch, tasks, raised, announced, skipped>>,
         window \subseteq window', window' \subseteq Key, cut \subseteq cut', cut' \subseteq Key,
         Top(c).of \in cut' \cup {NoKey}
  PROVE  IInv'
<1>1. scans \in [Caller -> Seq(Frame)]
  BY DEF IInv, TypeOK
<1>2. scans' \in [Caller -> Seq(Frame)] /\ FramesOK' /\ Apart'
  BY <1>1, PopKeeps DEF IInv
<1>3. IncidentAnnounced'
  <2>1. ASSUME NEW k \in Key, Scanning(k) PROVE Scanning(k)' \/ k \in cut'
    BY <1>1, <2>1, PopScans, SentinelAssumptions
  <2> QED
    BY <2>1, Unannounced
<1>4. TypeOK' /\ InWindow'
  BY <1>2, FaultType DEF IInv, TypeOK, InWindow
<1> QED
  BY <1>2, <1>3, <1>4 DEF IInv

\* A key that is not in the window has no incident, and nobody works on it.
LEMMA RaiseKeeps ==
  ASSUME IInv, NEW c \in Caller, NEW k \in Key, Raise(c, k)
  PROVE  IInv'
<1> DEFINE f == [Top(c) EXCEPT !.at = "notifying", !.todo = @ \ {k}, !.of = k]
<1>1. /\ scans[c] # <<>> /\ Top(c).at = "handling" /\ k \notin window /\ Put(c, f)
      /\ raised' = [raised EXCEPT ![k] = @ + 1] /\ window' = window \cup {k}
      /\ skipped' = skipped \ {k}
      /\ UNCHANGED <<holds, loop, orch, tasks, announced, cut, faults>>
  BY DEF Raise, Raising, Finds, IsAt
<1>2. scans \in [Caller -> Seq(Frame)] /\ Top(c) \in Frame /\ FrameOK(Top(c), window, announced)
  BY <1>1, TopFacts
<1>3. f \in Frame /\ f.of = k /\ f.at = "notifying" /\ Top(c).of = NoKey
  BY <1>1, <1>2 DEF Frame, FrameOK, At
<1>4. FrameOK(f, window', announced')
  BY <1>1, <1>3, SentinelAssumptions DEF FrameOK
<1> HIDE DEF f
<1>5. scans' \in [Caller -> Seq(Frame)] /\ FramesOK' /\ Apart'
  BY <1>1, <1>2, <1>3, <1>4, PutKeeps DEF IInv
<1>6. raised[k] = 0 /\ raised \in [Key -> 0 .. 2]
  BY <1>1 DEF IInv, InWindow, TypeOK
<1>7. IncidentAnnounced'
  <2>1. ASSUME NEW i \in Key, raised'[i] > 0, i # k PROVE i \in announced \cup cut \/ Scanning(i)'
    <3>1. raised[i] > 0
      BY <1>1, <1>6, <2>1
    <3>2. Scanning(i) => Scanning(i)'
      BY <1>1, <1>2, <1>3, PutScans, SentinelAssumptions
    <3> QED
      BY <3>1, <3>2 DEF IInv, IncidentAnnounced
  <2>2. Scanning(k)'
    BY <1>1, <1>2, <1>3, PutScans
  <2> QED
    BY <1>1, <2>1, <2>2 DEF IncidentAnnounced
<1>8. InWindow'
  BY <1>1, <1>6 DEF IInv, InWindow
<1>9. TypeOK'
  BY <1>1, <1>5, <1>6 DEF IInv, TypeOK, FaultsTypeOK
<1> QED
  BY <1>5, <1>7, <1>8, <1>9 DEF IInv

LEMMA ScanKeeps ==
  ASSUME IInv, NEW c \in Caller, Scan(c)
  PROVE  IInv'
<1>1. /\ holds \subseteq Key /\ window \subseteq Key /\ cut \subseteq Key
      /\ tasks \subseteq Key /\ announced \subseteq Key /\ skipped \subseteq Key
  BY DEF IInv, TypeOK
<1>2. scans[c] # <<>> => Top(c) \in Frame /\ FrameOK(Top(c), window, announced)
  BY TopFacts
<1>3. CASE \/ RulesRead(c) \/ RulesFail(c) \/ Escalated(c)
           \/ \E k \in Key : Duplicate(c, k)
           \/ Announced(c) /\ Top(c).of \notin Severe
  <2>1. /\ scans[c] # <<>> /\ UNCHANGED <<holds, window, loop, orch, raised, cut>>
        /\ Fault \/ UNCHANGED faults
    BY <1>3
    DEF RulesRead, RulesFail, Escalated, Duplicate, Announced, Finds, IsAt
  <2>2. /\ tasks' \subseteq Key /\ announced' \subseteq Key /\ skipped' \subseteq Key
        /\ announced \subseteq announced'
    <3>1. CASE Escalated(c) \/ Announced(c)
      <4>1. Top(c).at \in {"escalating", "announcing"}
        BY <3>1 DEF Escalated, Announced, IsAt
      <4>2. Top(c).of \in Key
        BY <1>1, <1>2, <2>1, <4>1 DEF FrameOK
      <4> QED
        BY <1>1, <3>1, <4>2 DEF Escalated, Announced
    <3>2. CASE RulesRead(c) \/ RulesFail(c) \/ \E k \in Key : Duplicate(c, k)
      BY <1>1, <3>2 DEF RulesRead, RulesFail, Duplicate
    <3> QED
      BY <1>3, <3>1, <3>2
  <2>3. \E f \in Frame :
          /\ Put(c, f) /\ FrameOK(f, window', announced')
          /\ f.of = NoKey \/ f.of = Top(c).of
          /\ f.of = Top(c).of \/ Top(c).of \in announced' \cup {NoKey}
    <3>1. CASE RulesRead(c) \/ RulesFail(c)
      <4> DEFINE f(d) == [Top(c) EXCEPT !.at = "handling", !.todo = d]
      <4>1. PICK d \in SUBSET Key : Put(c, f(d)) /\ Top(c).at = "rules"
        <5>1. Top(c).todo \in SUBSET Key
          BY <1>2, <2>1 DEF Frame
        <5>2. CASE RulesRead(c)
          <6>1. Put(c, f(Top(c).todo \cup (holds \cap Intel))) /\ Top(c).at = "rules"
            BY <5>2 DEF RulesRead, IsAt
          <6>2. Top(c).todo \cup (holds \cap Intel) \in SUBSET Key
            BY <1>1, <5>1
          <6> QED
            BY <6>1, <6>2
        <5>3. CASE RulesFail(c)
          <6>1. [Top(c) EXCEPT !.at = "handling"] = f(Top(c).todo)
            BY <1>2, <2>1 DEF Frame
          <6>2. Put(c, f(Top(c).todo)) /\ Top(c).at = "rules"
            BY <5>3, <6>1 DEF RulesFail, IsAt
          <6> QED
            BY <5>1, <6>2
        <5> QED
          BY <3>1, <5>2, <5>3
      <4>2. f(d) \in Frame /\ f(d).of = Top(c).of /\ f(d).at = "handling"
        BY <1>2, <2>1 DEF Frame, At
      <4> QED
        BY <1>2, <2>1, <2>2, <4>1, <4>2 DEF FrameOK
    <3>2. ASSUME NEW k \in Key, Duplicate(c, k) PROVE <2>3
      <4> DEFINE f == [Top(c) EXCEPT !.todo = @ \ {k}]
      <4>1. f \in Frame /\ f.of = Top(c).of /\ f.at = Top(c).at
        BY <1>2, <2>1 DEF Frame
      <4>2. Put(c, f)
        BY <3>2 DEF Duplicate
      <4> HIDE DEF f
      <4> QED
        BY <1>2, <2>1, <2>2, <4>1, <4>2 DEF FrameOK
    <3>3. CASE Escalated(c) \/ (Announced(c) /\ Top(c).of \notin Severe)
      <4> DEFINE f == [Top(c) EXCEPT !.at = "handling", !.of = NoKey]
      <4>1. f \in Frame /\ f.of = NoKey /\ f.at = "handling"
        BY <1>2, <2>1 DEF Frame, At
      <4>2. Put(c, f)
        BY <3>3 DEF Escalated, Announced
      <4>3. Top(c).of \in announced'
        BY <1>2, <3>3, <2>1 DEF Escalated, Announced, IsAt, FrameOK
      <4> HIDE DEF f
      <4> QED
        BY <4>1, <4>2, <4>3 DEF FrameOK
    <3> QED
      BY <1>3, <3>1, <3>2, <3>3
  <2> QED
    BY <2>1, <2>2, <2>3, PutStepKeeps
<1>4. CASE \E k \in Key : Raise(c, k)
  BY <1>4, RaiseKeeps
<1>5. CASE ScanOver(c) \/ NotifyRaises(c) \/ \E k \in Key : CreateRaises(c, k)
  <2>1. /\ scans[c] # <<>> /\ Pop(c) /\ (Fault \/ UNCHANGED faults)
        /\ UNCHANGED <<holds, loop, orch, tasks, raised, announced, skipped>>
    BY <1>5 DEF ScanOver, NotifyRaises, CreateRaises, Finds, IsAt
  <2>2. /\ window \subseteq window' /\ window' \subseteq Key
        /\ cut \subseteq cut' /\ cut' \subseteq Key /\ Top(c).of \in cut' \cup {NoKey}
    BY <1>1, <1>2, <1>5, <2>1 DEF ScanOver, NotifyRaises, CreateRaises, Finds, IsAt, FrameOK
  <2> QED
    BY <2>1, <2>2, PopStepKeeps
<1>6. CASE Announce(c) \/ (Announced(c) /\ Top(c).of \in Severe)
  <2> DEFINE f(at) == [Top(c) EXCEPT !.at = at]
  <2>1. PICK at \in {"announcing", "escalating"} :
          Broadcast(c, f(at)) /\ (at = "escalating" => Announced(c))
    BY <1>6 DEF Announce, Announced
  <2>2. /\ scans[c] # <<>> /\ Top(c).at \in {"notifying", "announcing"}
        /\ UNCHANGED <<holds, window, loop, orch, tasks, raised, cut, skipped, faults>>
        /\ announced \subseteq announced'
    BY <1>6 DEF Announce, Announced, IsAt
  <2>3. f(at) \in Frame /\ f(at).of = Top(c).of /\ f(at).at = at
    BY <1>2, <2>2 DEF Frame, At
  <2>4. Top(c).of \in window /\ Top(c).of # NoKey
    BY <1>2, <2>2 DEF FrameOK
  <2>5. announced' \subseteq Key
    BY <1>1, <1>6, <2>4 DEF Announce, Announced
  <2>6. at = "escalating" => Top(c).of \in announced'
    BY <2>1 DEF Announced
  <2> DEFINE g == f(at)
  <2>7. /\ g \in Frame /\ Broadcast(c, g) /\ FrameOK(g, window', announced')
        /\ g.at \in {"announcing", "escalating"} /\ g.of = Top(c).of
    BY <2>1, <2>2, <2>3, <2>4, <2>6 DEF FrameOK
  <2> HIDE DEF g
  <2> QED
    BY <2>2, <2>5, <2>7, BroadcastStepKeeps
<1> QED
  BY <1>3, <1>4, <1>5, <1>6 DEF Scan

\* What does not touch the scans or the window.
LEMMA WorldKeeps ==
  ASSUME IInv, NEW k \in Key, Appear(k) \/ Recover(k) \/ EscalationBegins(k)
  PROVE  IInv'
<1>1. UNCHANGED <<window, scans, loop, raised, announced, cut, faults>>
  BY DEF Appear, Recover, EscalationBegins
<1>2. /\ holds' \subseteq Key /\ orch' \in {"free", "busy"} /\ tasks' \subseteq Key
      /\ skipped' \subseteq Key
  BY DEF IInv, TypeOK, Appear, Recover, EscalationBegins
<1>3. TypeOK'
  BY <1>1, <1>2 DEF IInv, TypeOK, FaultsTypeOK
<1>4. FramesOK' /\ Apart' /\ InWindow'
  BY <1>1 DEF IInv, FramesOK, Apart, InWindow
<1>5. IncidentAnnounced'
  BY <1>1 DEF IInv, IncidentAnnounced, Scanning
<1> QED
  BY <1>3, <1>4, <1>5 DEF IInv

\* A window ends for a key nobody works on.
LEMMA ExpireKeeps ==
  ASSUME IInv, NEW k \in Key, Expire(k)
  PROVE  IInv'
<1>1. /\ ~Scanning(k) /\ window' = window \ {k} /\ raised' = [raised EXCEPT ![k] = 0]
      /\ announced' = announced \ {k} /\ cut' = cut \ {k}
      /\ UNCHANGED <<holds, scans, loop, orch, tasks, skipped, faults>>
  BY DEF Expire
<1>2. scans \in [Caller -> Seq(Frame)] /\ raised \in [Key -> 0 .. 2]
  BY DEF IInv, TypeOK
<1>3. \A c \in Caller : \A i \in 1 .. Len(scans[c]) : scans[c][i].of # k
  BY <1>1, <1>2 DEF Scanning
<1>4. FramesOK'
  BY <1>1, <1>3 DEF IInv, FramesOK, FrameOK
<1>5. Apart'
  BY <1>1 DEF IInv, Apart
<1>6. InWindow'
  BY <1>1, <1>2 DEF IInv, InWindow
<1>7. IncidentAnnounced'
  BY <1>1, <1>2 DEF IInv, IncidentAnnounced, Scanning
<1>8. TypeOK'
  BY <1>1, <1>2 DEF IInv, TypeOK, FaultsTypeOK
<1> QED
  BY <1>4, <1>5, <1>6, <1>7, <1>8 DEF IInv

\* What a cancelled coroutine worked on is announced, or it is cut off with it.
LEMMA CancelKeeps ==
  ASSUME IInv, NEW c \in Caller, Cancel(c)
  PROVE  IInv'
<1>1. /\ scans' = [scans EXCEPT ![c] = <<>>] /\ cut' = cut \cup Pending(c)
      /\ UNCHANGED <<holds, window, loop, orch, tasks, raised, announced, skipped, faults>>
  BY DEF Cancel
<1>2. scans \in [Caller -> Seq(Frame)]
  BY DEF IInv, TypeOK
<1>3. scans' \in [Caller -> Seq(Frame)] /\ FramesOK' /\ Apart'
  <2> DEFINE t == <<>>
  <2>1. t \in Seq(Frame) /\ \A i \in 1 .. Len(t) : FALSE
    OBVIOUS
  <2>2. scans' = [scans EXCEPT ![c] = t] /\ window \subseteq window' /\ announced \subseteq announced'
    BY <1>1
  <2> HIDE DEF t
  <2> QED
    BY <1>2, <2>1, <2>2, StackKeeps DEF IInv
<1>4. ASSUME NEW i \in 1 .. Len(scans[c])
      PROVE  /\ scans[c][i] \in Frame /\ FrameOK(scans[c][i], window, announced)
             /\ scans[c][i].at \in {"notifying", "announcing"} => scans[c][i].of \in Pending(c)
  <2>1. i \in DOMAIN scans[c] /\ scans[c][i] \in Frame
    BY <1>2
  <2> QED
    BY <2>1 DEF Pending, IInv, FramesOK
<1>5. Pending(c) \subseteq Key
  <2> SUFFICES ASSUME NEW k \in Pending(c) PROVE k \in Key
    OBVIOUS
  <2>1. PICK i \in DOMAIN scans[c] : scans[c][i].at \in {"notifying", "announcing"} /\ scans[c][i].of = k
    BY DEF Pending
  <2>2. i \in 1 .. Len(scans[c])
    BY <1>2
  <2> QED
    BY <1>4, <2>1, <2>2 DEF FrameOK, IInv, TypeOK
<1>6. ASSUME NEW k \in Key, Scanning(k) PROVE Scanning(k)' \/ k \in announced' \cup cut'
  <2>1. PICK d \in Caller : \E i \in 1 .. Len(scans[d]) : scans[d][i].of = k
    BY <1>2, <1>6, ScanningFacts
  <2>2. PICK i \in 1 .. Len(scans[d]) : scans[d][i].of = k
    BY <2>1
  <2>3. CASE d # c
    <3>1. scans'[d] = scans[d]
      BY <1>1, <1>2, <2>3
    <3>2. i \in DOMAIN scans'[d]
      BY <1>2, <2>2, <3>1
    <3> QED
      BY <2>2, <3>1, <3>2 DEF Scanning
  <2>4. CASE d = c
    <3>1. k # NoKey
      BY SentinelAssumptions
    <3>2. scans[c][i].at \in {"notifying", "announcing", "escalating"}
      BY <1>4, <2>2, <2>4, <3>1 DEF FrameOK, Frame, At
    <3>3. scans[c][i].at = "escalating" => k \in announced
      BY <1>4, <2>2, <2>4 DEF FrameOK
    <3> QED
      BY <1>1, <1>4, <2>2, <2>4, <3>2, <3>3
  <2> QED
    BY <2>3, <2>4
<1>7. IncidentAnnounced'
  BY <1>1, <1>6 DEF IInv, IncidentAnnounced
<1>8. TypeOK' /\ InWindow'
  BY <1>1, <1>3, <1>5 DEF IInv, TypeOK, InWindow, FaultsTypeOK
<1> QED
  BY <1>3, <1>7, <1>8 DEF IInv

LEMMA RestartKeeps == ASSUME IInv, Restart PROVE IInv'
<1>1. /\ Fault /\ window' = {} /\ scans' = [c \in Caller |-> <<>>] /\ loop' = "alive"
      /\ orch' = "free" /\ tasks' = {} /\ holds' = holds
      /\ raised' = [k \in Key |-> 0] /\ announced' = {} /\ cut' = {} /\ skipped' = {}
  BY DEF Restart
<1>2. FramesOK' /\ Apart' /\ InWindow' /\ IncidentAnnounced'
  BY <1>1 DEF FramesOK, Apart, InWindow, IncidentAnnounced
<1>3. TypeOK'
  BY <1>1, FaultType DEF IInv, TypeOK
<1> QED
  BY <1>2, <1>3 DEF IInv

LEMMA InvStep == IInv /\ [Next]_vars => IInv'
<1> SUFFICES ASSUME IInv, [Next]_vars PROVE IInv'
  OBVIOUS
<1>1. ASSUME NEW k \in Key, Appear(k) \/ Recover(k) \/ EscalationBegins(k) PROVE IInv'
  BY <1>1, WorldKeeps
<1>2. ASSUME NEW k \in Key, Expire(k) PROVE IInv'
  BY <1>2, ExpireKeeps
<1>3. ASSUME NEW c \in Caller, Begin(c) PROVE IInv'
  BY <1>3, BeginKeeps
<1>4. ASSUME NEW c \in Caller, Scan(c) PROVE IInv'
  BY <1>4, ScanKeeps
<1>5. CASE PlanBeginsOrEnds \/ UNCHANGED vars
  <2>1. UNCHANGED <<holds, window, scans, loop, tasks, raised, announced, cut, skipped, faults>>
    BY <1>5 DEF PlanBeginsOrEnds, vars
  <2>2. orch' \in {"free", "busy"}
    BY <1>5 DEF IInv, TypeOK, PlanBeginsOrEnds, vars
  <2>3. TypeOK'
    BY <2>1, <2>2 DEF IInv, TypeOK, FaultsTypeOK
  <2>4. FramesOK' /\ Apart' /\ InWindow' /\ IncidentAnnounced'
    BY <2>1 DEF IInv, FramesOK, Apart, InWindow, IncidentAnnounced, Scanning
  <2> QED
    BY <2>3, <2>4 DEF IInv
<1>6. CASE Restart
  BY <1>6, RestartKeeps
<1>7. ASSUME NEW c \in Source, Cancel(c) PROVE IInv'
  BY <1>7, CancelKeeps DEF Caller
<1> QED
  BY <1>1, <1>2, <1>3, <1>4, <1>5, <1>6, <1>7 DEF Next

\* The scans of a coroutine that are inside an announcement work on keys of their own.
LEMMA Depth ==
  ASSUME IInv, NEW c \in Caller
  PROVE  Len(scans[c]) <= Cardinality(Key) + 1
<1> DEFINE n == Len(scans[c]) - 1
           own == [i \in 1 .. n |-> scans[c][i].of]
<1>1. scans[c] \in Seq(Frame) /\ Len(scans[c]) \in Nat
  BY DEF IInv, TypeOK
<1>2. IsFiniteSet(Key) /\ Cardinality(Key) \in Nat
  BY SentinelAssumptions, FS_CardinalityType
<1>3. CASE Len(scans[c]) = 0
  BY <1>2, <1>3
<1>4. CASE Len(scans[c]) # 0
  <2>1. n \in Nat
    BY <1>1, <1>4
  <2>2. \A i \in 1 .. n : i \in 1 .. Len(scans[c]) /\ i # Len(scans[c])
    BY <1>1, <2>1
  <2>3. ASSUME NEW i \in 1 .. n PROVE scans[c][i].of \in Key /\ scans[c][i].of # NoKey
    <3>1. FrameOK(scans[c][i], window, announced) /\ scans[c][i].at \in {"announcing", "escalating"}
      BY <2>2 DEF IInv, FramesOK
    <3> QED
      BY <3>1 DEF FrameOK, IInv, TypeOK
  <2>4. \A i, j \in 1 .. n : scans[c][i].of = scans[c][j].of => i = j
    BY <2>2, <2>3 DEF IInv, Apart
  <2>5. /\ own \in [1 .. n -> Key]
        /\ \A i, j \in 1 .. n : own[i] = own[j] => i = j
    BY <2>3, <2>4
  <2>6. IsFiniteSet(1 .. n) /\ Cardinality(1 .. n) = n
    BY <2>1, FS_Interval
  <2> HIDE DEF own, n
  <2>7. ~(n > Cardinality(Key))
    <3>1. SUFFICES ASSUME Cardinality(1 .. n) > Cardinality(Key) PROVE FALSE
      BY <2>6
    <3>2. \E x, y \in 1 .. n : x # y /\ own[x] = own[y]
      BY <1>2, <2>5, <2>6, <3>1, FS_PigeonHole
    <3> QED
      BY <2>5, <3>2
  <2> QED
    BY <1>1, <1>2, <2>1, <2>7 DEF n
<1> QED
  BY <1>3, <1>4

-----------------------------------------------------------------------------
(***************************************************************************)
(* Theorems.                                                               *)
(***************************************************************************)
\* The invariant the others follow from: who works on which key, and that no two do.
THEOREM Invariance == Spec => []IInv
BY InvInit, InvStep, PTL DEF Spec

\* Every variable stays in its type: whatever is pushed on a coroutine's stack and popped
\* from it, what a scan works on is a key of the rules.
THEOREM TypeCorrect == Spec => []TypeOK
<1>1. IInv => TypeOK
  BY DEF IInv
<1> QED
  BY <1>1, Invariance, PTL

\* One incident for a key and window of supervisor._dedupe, however the scans of the
\* loop and of the coroutines that broadcast overlap; and a scan inside an announcement
\* inside a scan is never deeper than there are keys.
THEOREM OncePerWindowHolds == Spec => []OncePerWindow
<1>1. IInv => \A k \in Key : raised[k] <= 1
  BY DEF IInv, InWindow
<1>2. IInv => OncePerWindow
  BY <1>1, Depth DEF OncePerWindow
<1> QED
  BY <1>2, Invariance, PTL

\* An incident of a window is announced on the hub, or a scan is about to announce it,
\* or it was cut off with the coroutine that was announcing it: its webhook or INSERT
\* raised, or wait_for cancelled it.  No other coroutine's exception, cancellation or
\* finished scan costs it its announcement.
THEOREM IncidentAnnouncedHolds == Spec => []IncidentAnnounced
<1>1. IInv => IncidentAnnounced
  BY DEF IInv
<1> QED
  BY <1>1, Invariance, PTL
=============================================================================
