------------------------- MODULE IntelligenceProofs -------------------------
(***************************************************************************)
(* The safety of the intelligence engine, for any sources, articles and    *)
(* requests and any number of faults.                                      *)
(***************************************************************************)
EXTENDS Intelligence, TLAPS

\* Where job i stands with its article, when the tables are s, sc and d.
JobOK(i, f, s, sc, d) ==
  /\ f.at \in {"waiting", "fetch"} => f.src \in Source
  /\ f.at \in {"insert", "score", "write"} => f.of \in Article
  /\ f.at = "score" => <<i, f.of>> \in s /\ (f.kind = "dry" => <<i, f.of>> \in d)
  /\ f.at = "write" => <<i, f.of>> \in sc

JobsOK == \A i \in Job : JobOK(i, job[i], stored, scored, dry)

\* A poll that is not idle belongs to the tick the daemon waits for, or to one that a
\* statement that raised has ended.
WavesOK ==
  /\ gathering <= faults + 1
  /\ \A i \in Source \X Wave : i[2] > faults => job[i].at = "idle" \/ gathering = i[2]

UnaskedIdle == \A r \in unasked : job[r].at = "idle"

IInv == TypeOK /\ JobsOK /\ WavesOK /\ UnaskedIdle /\ ArticleKept

\* What ArticleKept says of row x, whose job is f.
RowKept(x, f, sc, n, d) ==
  LET at == IF f.of = x[2] THEN f.at ELSE "idle" IN
  /\ x \in sc \/ at = "score"
  /\ x[2] \in Hot /\ x \notin d => x \in n \/ at \in {"score", "write"}

-----------------------------------------------------------------------------
LEMMA IdleFacts ==
  /\ Idle \in Jobs /\ Idle.at = "idle" /\ Idle.of = NoArticle
  /\ \A i, s, sc, d : JobOK(i, Idle, s, sc, d)
BY DEF Idle, Jobs, At, Kind, JobOK

LEMMA InvInit == Init => IInv
<1> SUFFICES ASSUME Init PROVE IInv
  OBVIOUS
<1>1. /\ faults = 0 /\ job = [j \in Job |-> Idle] /\ gathering = 0 /\ unasked = Request
      /\ due = Source /\ stored = {} /\ scored = {} /\ noted = {} /\ cut = {} /\ dry = {}
  BY DEF Init, FaultsInit
<1>2. \A j \in Job : job[j] = Idle
  BY <1>1
<1>3. TypeOK
  BY <1>1, IdleFacts, FaultAssumptions DEF TypeOK, FaultsTypeOK
<1>4. JobsOK
  BY <1>2, IdleFacts DEF JobsOK
<1>5. UnaskedIdle
  BY <1>1, <1>2, IdleFacts DEF UnaskedIdle, Job
<1>6. WavesOK
  BY <1>1, <1>2, IdleFacts DEF WavesOK, Job
<1> QED
  BY <1>1, <1>3, <1>4, <1>5, <1>6 DEF IInv, ArticleKept

LEMMA FaultType ==
  ASSUME FaultsTypeOK, Fault \/ UNCHANGED faults
  PROVE  /\ FaultsTypeOK' /\ faults \in Nat /\ faults' \in Nat /\ MaxFaults \in Nat
         /\ faults <= MaxFaults /\ faults <= faults' /\ (Fault => faults' = faults + 1)
BY FaultAssumptions DEF FaultsTypeOK, Fault

\* The rows of one job depend on that job alone.
LEMMA JobMoves ==
  ASSUME IInv, NEW j \in Job, NEW r \in Jobs, job' = [job EXCEPT ![j] = r],
         JobOK(j, r, stored', scored', dry'),
         stored \subseteq stored', scored \subseteq scored', noted \subseteq noted',
         dry \subseteq dry', cut \subseteq cut',
         noted' \subseteq scored', scored' \subseteq stored', stored' \subseteq Job \X Article,
         cut' \subseteq stored', dry' \subseteq stored',
         \A x \in stored' \ stored : x[1] = j,
         \A x \in stored' \ cut' : x[1] = j => RowKept(x, r, scored', noted', dry'),
         unasked' \subseteq unasked, j \notin unasked', due' \subseteq Source,
         FaultsTypeOK', gathering' \in 0 .. MaxFaults + 1, WavesOK'
  PROVE  IInv'
<1>1. job \in [Job -> Jobs] /\ unasked \subseteq Request
  BY DEF IInv, TypeOK
<1>2. /\ job' \in [Job -> Jobs] /\ job'[j] = r
      /\ \A i \in Job \ {j} : job'[i] = job[i]
  BY <1>1
<1>3. TypeOK'
  BY <1>1, <1>2 DEF TypeOK
<1>4. JobsOK'
  <2>1. ASSUME NEW i \in Job \ {j} PROVE JobOK(i, job'[i], stored', scored', dry')
    BY <1>2, <2>1 DEF IInv, JobsOK, JobOK
  <2> QED
    BY <1>2, <2>1 DEF JobsOK
<1>5. UnaskedIdle'
  BY <1>1, <1>2 DEF IInv, UnaskedIdle, Job
<1>6. ArticleKept'
  <2>1. ASSUME NEW x \in stored' \ cut' PROVE RowKept(x, job'[x[1]], scored', noted', dry')
    <3>1. CASE x[1] = j
      BY <1>2, <3>1
    <3>2. CASE x[1] # j
      <4>1. x \in stored \ cut /\ x[1] \in Job
        BY <3>2
      <4>2. job'[x[1]] = job[x[1]]
        BY <1>2, <3>2, <4>1
      <4>3. RowKept(x, job[x[1]], scored, noted, dry)
        BY <4>1 DEF IInv, ArticleKept, RowKept
      <4> QED
        BY <4>2, <4>3 DEF RowKept
    <3> QED
      BY <3>1, <3>2
  <2> QED
    BY <2>1 DEF ArticleKept, RowKept
<1> QED
  BY <1>3, <1>4, <1>5, <1>6 DEF IInv

LEMMA WavesMove ==
  ASSUME IInv, NEW j \in Job, NEW r \in Jobs, job' = [job EXCEPT ![j] = r],
         \/ /\ UNCHANGED gathering /\ (Fault \/ UNCHANGED faults)
            /\ job[j].at # "idle" \/ j \in Request
         \/ /\ r = Idle /\ (Fault \/ UNCHANGED faults)
            /\ gathering' = IF gathering # 0 /\ GatherOver(gathering, job') THEN 0 ELSE gathering
         \/ /\ r = Idle /\ Fault
            /\ IF j \in Source \X {gathering} THEN gathering' = 0 ELSE UNCHANGED gathering
  PROVE  /\ WavesOK' /\ FaultsTypeOK' /\ gathering' \in 0 .. MaxFaults + 1
         /\ faults' \in Nat
<1>1. /\ job \in [Job -> Jobs] /\ gathering \in 0 .. MaxFaults + 1 /\ FaultsTypeOK
      /\ Fault \/ UNCHANGED faults
  BY DEF IInv, TypeOK
<1>2. /\ FaultsTypeOK' /\ faults \in Nat /\ faults' \in Nat /\ MaxFaults \in Nat
      /\ faults <= faults' /\ (Fault => faults' = faults + 1)
  BY <1>1, FaultType
<1>3. job'[j] = r /\ \A i \in Job \ {j} : job'[i] = job[i]
  BY <1>1
<1>4. gathering' \in 0 .. MaxFaults + 1 /\ gathering' <= faults' + 1
  BY <1>1, <1>2 DEF IInv, WavesOK
<1>5. ASSUME NEW i \in Source \X Wave, i[2] > faults'
      PROVE  job'[i].at = "idle" \/ gathering' = i[2]
  <2>1. i \in Job /\ i[2] \in Nat /\ i[2] > faults /\ i = <<i[1], i[2]>> /\ i[1] \in Source
    BY <1>2, <1>5 DEF Wave, Job
  <2>2. job[i].at = "idle" \/ gathering = i[2]
    BY <1>5, <2>1 DEF IInv, WavesOK
  <2>3. CASE UNCHANGED gathering /\ (job[j].at # "idle" \/ j \in Request)
    BY <1>3, <1>5, <2>1, <2>2, <2>3, IntelligenceAssumptions
  <2>4. CASE r = Idle /\ UNCHANGED gathering
    BY <1>3, <2>1, <2>2, <2>4, IdleFacts
  <2>5. CASE r = Idle /\ gathering # 0 /\ GatherOver(gathering, job')
    <3>1. gathering = i[2] => job'[i].at = "idle"
      BY <2>1, <2>5 DEF GatherOver
    <3> QED
      BY <1>3, <2>1, <2>2, <2>5, <3>1, IdleFacts
  <2>6. CASE Fault /\ r = Idle
    <3>1. i[2] > faults + 1
      BY <1>2, <1>5, <2>6
    <3>2. gathering # i[2]
      BY <1>1, <1>2, <2>1, <3>1 DEF IInv, WavesOK
    <3> QED
      BY <1>3, <2>1, <2>2, <2>6, <3>2, IdleFacts
  <2> QED
    BY <2>3, <2>4, <2>5, <2>6
<1> QED
  BY <1>2, <1>4, <1>5 DEF WavesOK

-----------------------------------------------------------------------------
(***************************************************************************)
(* The daemon and the requests.                                            *)
(***************************************************************************)
LEMMA TickKeeps == ASSUME IInv, Tick PROVE IInv'
<1>1. /\ gathering = 0 /\ gathering' = faults + 1
      /\ job' = [i \in Job |-> IF i \in due \X {faults + 1}
                               THEN [Idle EXCEPT !.at = "waiting", !.src = i[1]] ELSE job[i]]
      /\ UNCHANGED <<unasked, due, stored, scored, noted, cut, dry, faults>>
  BY DEF Tick, BeginPolls, tables
<1>2. /\ job \in [Job -> Jobs] /\ due \subseteq Source /\ FaultsTypeOK /\ unasked \subseteq Request
  BY DEF IInv, TypeOK
<1>3. /\ faults \in Nat /\ MaxFaults \in Nat /\ faults <= MaxFaults
      /\ faults + 1 \in 0 .. MaxFaults + 1 /\ faults + 1 # 0 /\ faults' = faults
  <2>1. faults' = faults
    BY <1>1
  <2>2. faults \in Nat /\ MaxFaults \in Nat /\ faults <= MaxFaults
    BY <1>2, <2>1, FaultType
  <2> QED
    BY <2>1, <2>2
<1> DEFINE due1 == due \X {faults + 1}
           w(s) == [Idle EXCEPT !.at = "waiting", !.src = s]
<1>4. \A s \in Source : w(s) \in Jobs /\ w(s).at = "waiting" /\ w(s).src = s
  BY DEF Idle, Jobs, At, Kind
<1>5. /\ due1 \subseteq Source \X Wave /\ due1 \subseteq Job
      /\ \A i \in due1 : i[1] \in Source /\ i[2] = faults + 1
  BY <1>2, <1>3 DEF Wave, Job
<1>6. /\ \A i \in due1 : job'[i] = w(i[1])
      /\ \A i \in Job \ due1 : job'[i] = job[i]
  BY <1>1, <1>5
<1> HIDE DEF w, due1
<1>7. job' \in [Job -> Jobs]
  <2>1. \A i \in Job : job'[i] \in Jobs
    BY <1>2, <1>4, <1>5, <1>6
  <2>2. DOMAIN job' = Job /\ job' = [i \in Job |-> job'[i]]
    BY <1>1
  <2> QED
    BY <2>1, <2>2
<1>8. TypeOK'
  BY <1>1, <1>3, <1>7 DEF IInv, TypeOK, FaultsTypeOK
<1>9. JobsOK'
  <2>1. ASSUME NEW i \in Job PROVE JobOK(i, job'[i], stored, scored, dry)
    <3>1. CASE i \in due1
      BY <1>4, <1>5, <1>6, <3>1 DEF JobOK
    <3>2. CASE i \notin due1
      BY <1>6, <3>2 DEF IInv, JobsOK
    <3> QED
      BY <3>1, <3>2
  <2> QED
    BY <1>1, <2>1 DEF JobsOK
<1>10. WavesOK'
  <2>1. ASSUME NEW i \in Source \X Wave, i[2] > faults
        PROVE  job'[i].at = "idle" \/ gathering' = i[2]
    <3>1. i \in Job
      BY DEF Job
    <3>2. CASE i \in due1
      BY <1>1, <1>5, <3>2
    <3>3. CASE i \notin due1
      <4>1. job[i].at = "idle"
        <5>1. i[2] # 0
          BY <1>3, <2>1
        <5> QED
          BY <1>1, <2>1, <5>1 DEF IInv, WavesOK
      <4> QED
        BY <1>6, <3>1, <3>3, <4>1
    <3> QED
      BY <3>2, <3>3
  <2>2. gathering' <= faults' + 1
    <3>1. gathering' = faults + 1
      BY <1>1
    <3> QED
      BY <1>3, <3>1
  <2> QED
    BY <1>1, <2>1, <2>2 DEF WavesOK
<1>11. UnaskedIdle'
  BY <1>1, <1>2, <1>5, <1>6, IntelligenceAssumptions DEF IInv, UnaskedIdle, Job
<1>12. ArticleKept'
  <2>1. ASSUME NEW x \in stored \ cut PROVE RowKept(x, job'[x[1]], scored, noted, dry)
    <3>1. RowKept(x, job[x[1]], scored, noted, dry) /\ x[1] \in Job
      BY DEF IInv, TypeOK, ArticleKept, RowKept
    <3>2. CASE x[1] \in due1
      <4>1. x[1] \in Source \X Wave /\ x[1][2] = faults + 1
        BY <1>5, <3>2
      <4>2. x[1][2] > faults /\ x[1][2] # 0
        BY <1>3, <4>1
      <4>3. job[x[1]].at = "idle"
        BY <1>1, <4>1, <4>2 DEF IInv, WavesOK
      <4> QED
        BY <3>1, <4>3 DEF RowKept
    <3>3. CASE x[1] \notin due1
      BY <1>6, <3>1, <3>3
    <3> QED
      BY <3>2, <3>3
  <2> QED
    BY <1>1, <2>1 DEF ArticleKept, RowKept
<1> QED
  BY <1>8, <1>9, <1>10, <1>11, <1>12 DEF IInv

LEMMA RestartKeeps == ASSUME IInv, Restart PROVE IInv'
<1>1. /\ Fault /\ job' = [i \in Job |-> Idle] /\ gathering' = 0
      /\ cut' = cut \cup {x \in stored : /\ x[1] \in Job /\ job[x[1]].of = x[2]
                                        /\ job[x[1]].at \in {"score", "write"}}
      /\ UNCHANGED <<unasked, due, stored, scored, noted, dry>>
  BY DEF Restart, CutOff, tables
<1>2. /\ TypeOK /\ \A i \in Job : job'[i] = Idle
  BY <1>1 DEF IInv
<1>3. FaultsTypeOK' /\ faults' \in Nat /\ MaxFaults \in Nat
  BY <1>1, <1>2, FaultType DEF TypeOK
<1>4. TypeOK'
  BY <1>1, <1>2, <1>3, IdleFacts DEF TypeOK
<1>5. JobsOK' /\ WavesOK' /\ UnaskedIdle'
  <2>1. JobsOK'
    BY <1>2, IdleFacts DEF JobsOK
  <2>2. WavesOK'
    <3>1. gathering' <= faults' + 1
      <4>1. gathering' = 0
        BY <1>1
      <4>2. faults' \in Nat
        BY <1>3
      <4>3. \A n \in Nat : 0 <= n + 1
        OBVIOUS
      <4> QED
        BY <4>1, <4>2, <4>3
    <3> QED
      BY <1>2, <3>1, IdleFacts DEF WavesOK, Job
  <2>3. UnaskedIdle'
    BY <1>1, <1>2, IdleFacts DEF UnaskedIdle, TypeOK, Job
  <2> QED
    BY <2>1, <2>2, <2>3
<1>6. ArticleKept'
  <2>1. ASSUME NEW x \in stored \ cut' PROVE RowKept(x, Idle, scored, noted, dry)
    <3>1. RowKept(x, job[x[1]], scored, noted, dry) /\ x[1] \in Job
      BY <1>1 DEF IInv, TypeOK, ArticleKept, RowKept
    <3> QED
      BY <1>1, <3>1, IdleFacts DEF RowKept
  <2>2. \A x \in stored : x[1] \in Job
    BY <1>2 DEF TypeOK
  <2> QED
    BY <1>1, <1>2, <2>1, <2>2 DEF ArticleKept, RowKept
<1> QED
  BY <1>4, <1>5, <1>6 DEF IInv

LEMMA FallDueKeeps == ASSUME IInv, NEW s \in Source, FallDue(s) PROVE IInv'
<1>1. /\ due' = due \cup {s}
      /\ UNCHANGED <<unasked, job, gathering, stored, scored, noted, cut, dry, faults>>
  BY DEF FallDue, tables
<1>2. TypeOK'
  BY <1>1 DEF IInv, TypeOK, FaultsTypeOK
<1>3. JobsOK' /\ WavesOK' /\ UnaskedIdle' /\ ArticleKept'
  BY <1>1 DEF IInv, JobsOK, WavesOK, UnaskedIdle, ArticleKept
<1> QED
  BY <1>2, <1>3 DEF IInv

\* A job that leaves the tables alone, on its way to what is no half of an article.
LEMMA QuietMove ==
  ASSUME IInv, NEW j \in Job, NEW r \in Jobs, job' = [job EXCEPT ![j] = r],
         UNCHANGED <<stored, scored, noted, dry>>,
         cut \subseteq cut', cut' \subseteq stored,
         \A x \in stored \ cut' : x[1] = j /\ job[j].of = x[2] => job[j].at \notin {"score", "write"},
         r.at \in {"waiting", "fetch"} => r.src \in Source,
         r.at = "insert" => r.of \in Article, r.at \notin {"score", "write"},
         unasked' \subseteq unasked, j \notin unasked', due' \subseteq Source,
         FaultsTypeOK', gathering' \in 0 .. MaxFaults + 1, WavesOK'
  PROVE  IInv'
<1>1. JobOK(j, r, stored', scored', dry')
  BY DEF JobOK
<1>2. \A x \in stored' \ cut' : x[1] = j => RowKept(x, r, scored', noted', dry')
  <2>1. ASSUME NEW x \in stored \ cut', x[1] = j PROVE RowKept(x, r, scored, noted, dry)
    <3>1. RowKept(x, job[j], scored, noted, dry)
      BY <2>1 DEF IInv, ArticleKept, RowKept
    <3> QED
      BY <2>1, <3>1 DEF RowKept
  <2> QED
    BY <2>1
<1>3. TypeOK
  BY DEF IInv
<1> QED
  BY <1>1, <1>2, <1>3, JobMoves DEF TypeOK

LEMMA RequestKeeps ==
  ASSUME IInv, NEW r \in Request,
         \/ \E s \in Source, kind \in Kind : Refresh(r, s, kind)
         \/ \E a \in Article : Submit(r, a)
  PROVE  IInv'
<1>1. /\ r \in unasked /\ unasked' = unasked \ {r}
      /\ UNCHANGED <<due, gathering, stored, scored, noted, cut, dry, faults>>
  BY DEF Refresh, Submit, tables
<1> DEFINE Opens(f) ==
             /\ job' = [job EXCEPT ![r] = f]
             /\ f.at \in {"fetch", "items"} /\ (f.at = "fetch" => f.src \in Source)
<1>2. PICK f \in Jobs : Opens(f)
  <2>1. ASSUME NEW s \in Source, NEW kind \in Kind, Refresh(r, s, kind) PROVE \E f \in Jobs : Opens(f)
    <3> DEFINE f == [Idle EXCEPT !.at = "fetch", !.kind = kind, !.src = s]
    <3>1. f \in Jobs /\ f.at = "fetch" /\ f.src = s
      BY DEF Idle, Jobs, At, Kind
    <3>2. job' = [job EXCEPT ![r] = f]
      BY <2>1 DEF Refresh
    <3> HIDE DEF f
    <3> QED
      BY <3>1, <3>2
  <2>2. ASSUME NEW a \in Article, Submit(r, a) PROVE \E f \in Jobs : Opens(f)
    <3> DEFINE f == [Idle EXCEPT !.at = "items", !.kind = "manual", !.todo = {a}]
    <3>1. f \in Jobs /\ f.at = "items"
      BY DEF Idle, Jobs, At, Kind
    <3>2. job' = [job EXCEPT ![r] = f]
      BY <2>2 DEF Submit
    <3> HIDE DEF f
    <3> QED
      BY <3>1, <3>2
  <2> QED
    BY <2>1, <2>2
<1>3. r \in Job /\ TypeOK
  BY DEF Job, IInv
<1>4. WavesOK' /\ FaultsTypeOK' /\ gathering' \in 0 .. MaxFaults + 1
  BY <1>1, <1>2, <1>3, WavesMove
<1>5. job[r].at = "idle"
  BY <1>1 DEF IInv, UnaskedIdle
<1> QED
  BY <1>1, <1>2, <1>3, <1>4, <1>5, QuietMove DEF TypeOK

-----------------------------------------------------------------------------
(***************************************************************************)
(* run_source.                                                             *)
(***************************************************************************)
LEMMA JobFacts ==
  ASSUME IInv, NEW j \in Job
  PROVE  /\ job \in [Job -> Jobs] /\ job[j] \in Jobs /\ TypeOK
         /\ JobOK(j, job[j], stored, scored, dry)
         /\ job[j].at # "idle" => j \notin unasked
BY DEF IInv, TypeOK, JobsOK, UnaskedIdle

\* Where a job may go without a change to the tables.
QuietTo(j, r) ==
  /\ job' = [job EXCEPT ![j] = r]
  /\ r.at \in {"waiting", "fetch"} => r.src \in Source
  /\ r.at = "insert" => r.of \in Article
  /\ r.at \notin {"score", "write"}

LEMMA GoesTo ==
  ASSUME IInv, NEW j \in Job, NEW at \in At \ {"waiting", "insert", "score", "write"},
         at = "fetch" => job[j].at = "waiting",
         job' = [job EXCEPT ![j].at = at]
  PROVE  \E r \in Jobs : QuietTo(j, r) /\ r.at = at
<1> DEFINE r == [job[j] EXCEPT !.at = at]
<1>1. job \in [Job -> Jobs] /\ job[j] \in Jobs /\ JobOK(j, job[j], stored, scored, dry)
  BY JobFacts
<1>2. r \in Jobs /\ r.at = at /\ r.src = job[j].src /\ job' = [job EXCEPT ![j] = r]
  BY <1>1 DEF Jobs
<1> HIDE DEF r
<1> QED
  BY <1>1, <1>2 DEF QuietTo, JobOK

LEMMA QuietWorkKeeps ==
  ASSUME IInv, NEW j \in Job, NEW r \in Jobs, QuietTo(j, r),
         job[j].at \notin {"idle", "score", "write"},
         \/ UNCHANGED gathering
         \/ /\ r = Idle
            /\ gathering' = IF gathering # 0 /\ GatherOver(gathering, job') THEN 0 ELSE gathering,
         UNCHANGED <<unasked, stored, scored, noted, cut, dry, faults>>, due' \subseteq due
  PROVE  IInv'
<1>1. /\ WavesOK' /\ FaultsTypeOK' /\ gathering' \in 0 .. MaxFaults + 1
  BY WavesMove DEF QuietTo
<1>2. /\ j \notin unasked /\ TypeOK
  BY JobFacts
<1> QED
  BY <1>1, <1>2, QuietMove DEF QuietTo, TypeOK

LEMMA LookUpKeeps ==
  ASSUME IInv, NEW j \in Job, NEW a \in Article, LookUp(j, a)
  PROVE  IInv'
<1>1. /\ job[j].at = "items" /\ a \in job[j].todo
      /\ UNCHANGED <<unasked, due, stored, scored, noted, cut, dry, faults>>
  BY DEF LookUp, tables
<1>2. job \in [Job -> Jobs] /\ job[j] \in Jobs
  BY JobFacts
<1>3. \/ \E r \in Jobs : QuietTo(j, r) /\ UNCHANGED gathering
      \/ QuietTo(j, Idle) /\ Return(j)
  <2>1. CASE ~InTable(a)
    <3> DEFINE r == [job[j] EXCEPT !.at = "insert", !.of = a, !.todo = @ \ {a}]
    <3>1. r \in Jobs /\ r.at = "insert" /\ r.of = a
      BY <1>2 DEF Jobs, At
    <3>2. job' = [job EXCEPT ![j] = r] /\ UNCHANGED gathering
      BY <1>2, <2>1 DEF LookUp, Jobs
    <3> HIDE DEF r
    <3> QED
      BY <3>1, <3>2 DEF QuietTo
  <2>2. CASE InTable(a) /\ job[j].kind = "manual"
    BY <2>2, IdleFacts DEF LookUp, Return, QuietTo
  <2>3. CASE InTable(a) /\ job[j].kind # "manual"
    <3> DEFINE r == [job[j] EXCEPT !.todo = @ \ {a}]
    <3>1. r \in Jobs /\ r.at = "items"
      BY <1>1, <1>2 DEF Jobs
    <3>2. job' = [job EXCEPT ![j] = r] /\ UNCHANGED gathering
      BY <1>2, <2>3 DEF LookUp, Jobs
    <3> HIDE DEF r
    <3> QED
      BY <3>1, <3>2 DEF QuietTo
  <2> QED
    BY <2>1, <2>2, <2>3
<1>4. CASE \E r \in Jobs : QuietTo(j, r) /\ UNCHANGED gathering
  BY <1>1, <1>4, QuietWorkKeeps
<1>5. CASE QuietTo(j, Idle) /\ Return(j)
  <2>1. gathering' = IF gathering # 0 /\ GatherOver(gathering, job') THEN 0 ELSE gathering
    BY <1>5 DEF Return
  <2> QED
    BY <1>1, <1>5, <2>1, IdleFacts, QuietWorkKeeps
<1> QED
  BY <1>3, <1>4, <1>5

LEMMA QuietWorksKeep ==
  ASSUME IInv, NEW j \in Job,
         TakePermit(j) \/ FetchFails(j) \/ Fetch(j) \/ ItemsOver(j) \/ Record(j)
  PROVE  IInv'
<1>1. job \in [Job -> Jobs] /\ job[j] \in Jobs /\ JobOK(j, job[j], stored, scored, dry)
  BY JobFacts
<1>2. /\ job[j].at \notin {"idle", "score", "write"} /\ due' \subseteq due
      /\ UNCHANGED <<unasked, stored, scored, noted, cut, dry, faults>>
  BY DEF TakePermit, FetchFails, Fetch, ItemsOver, Record, tables
<1>3. CASE TakePermit(j) \/ FetchFails(j) \/ ItemsOver(j)
  <2>1. PICK at \in {"fetch", "recordfetch", "record"} :
          /\ at = "fetch" => job[j].at = "waiting"
          /\ job' = [job EXCEPT ![j].at = at] /\ UNCHANGED gathering
    BY <1>3 DEF TakePermit, FetchFails, ItemsOver, Go
  <2>2. \E r \in Jobs : QuietTo(j, r)
    BY <2>1, GoesTo DEF At
  <2> QED
    BY <1>2, <2>1, <2>2, QuietWorkKeeps
<1>4. CASE Fetch(j)
  <2> DEFINE r == [job[j] EXCEPT !.at = "items", !.todo = Feed[job[j].src]]
  <2>1. Feed[job[j].src] \in SUBSET Article
    BY <1>1, <1>4, IntelligenceAssumptions DEF Fetch, JobOK
  <2>2. r \in Jobs /\ r.at = "items"
    BY <1>1, <2>1 DEF Jobs, At
  <2>3. job' = [job EXCEPT ![j] = r] /\ UNCHANGED gathering
    BY <1>1, <1>4 DEF Fetch, Jobs
  <2> HIDE DEF r
  <2>4. QuietTo(j, r)
    BY <2>2, <2>3 DEF QuietTo
  <2> QED
    BY <1>2, <2>2, <2>3, <2>4, QuietWorkKeeps
<1>5. CASE Record(j)
  <2>1. /\ job' = [job EXCEPT ![j] = Idle]
        /\ gathering' = IF gathering # 0 /\ GatherOver(gathering, job') THEN 0 ELSE gathering
    BY <1>5 DEF Record, Return
  <2>2. QuietTo(j, Idle)
    BY <2>1, IdleFacts DEF QuietTo
  <2> QED
    BY <1>2, <2>1, <2>2, IdleFacts, QuietWorkKeeps
<1> QED
  BY <1>3, <1>4, <1>5

-----------------------------------------------------------------------------
(***************************************************************************)
(* The three writes of an article.                                         *)
(***************************************************************************)
LEMMA InsertKeeps == ASSUME IInv, NEW j \in Job, Insert(j) PROVE IInv'
<1> DEFINE r == [job[j] EXCEPT !.at = "score"]
           row == <<j, job[j].of>>
<1>1. /\ job[j].at = "insert" /\ UNCHANGED gathering
      /\ stored' = stored \cup {row}
      /\ dry' = IF job[j].kind = "dry" THEN dry \cup {row} ELSE dry
      /\ UNCHANGED <<unasked, due, scored, noted, cut, faults>>
  BY DEF Insert, Go
<1>2. job \in [Job -> Jobs] /\ job[j] \in Jobs /\ TypeOK /\ j \notin unasked /\ job[j].of \in Article
  BY <1>1, JobFacts DEF JobOK
<1>3. /\ r \in Jobs /\ r.at = "score" /\ r.of = job[j].of /\ r.kind = job[j].kind
      /\ job' = [job EXCEPT ![j] = r]
  BY <1>2 DEF Insert, Go, Jobs, At
<1> HIDE DEF r
<1>4. WavesOK' /\ FaultsTypeOK' /\ gathering' \in 0 .. MaxFaults + 1
  BY <1>1, <1>3, WavesMove
<1>5. JobOK(j, r, stored', scored', dry')
  BY <1>1, <1>2, <1>3 DEF JobOK
<1>6. ASSUME NEW x \in stored' \ cut', x[1] = j
      PROVE  RowKept(x, r, scored', noted', dry')
  <2>1. CASE x = row
    BY <1>3, <2>1 DEF RowKept
  <2>2. CASE x # row
    <3>1. x \in stored \ cut /\ x = <<x[1], x[2]>>
      BY <1>1, <1>2, <2>2 DEF TypeOK
    <3>2. RowKept(x, job[j], scored, noted, dry) /\ x[2] # job[j].of
      BY <1>6, <2>2, <3>1 DEF IInv, ArticleKept, RowKept
    <3> QED
      BY <1>1, <1>3, <3>2 DEF RowKept
  <2> QED
    BY <2>1, <2>2
<1>7. row \in Job \X Article /\ row[1] = j
  BY <1>2
<1> HIDE DEF row
<1>8. /\ stored \subseteq stored' /\ dry \subseteq dry' /\ dry' \subseteq stored'
      /\ stored' \subseteq Job \X Article /\ \A x \in stored' \ stored : x[1] = j
  BY <1>1, <1>2, <1>7 DEF TypeOK
<1>9. /\ noted' \subseteq scored' /\ scored' \subseteq stored' /\ cut' \subseteq stored'
      /\ due' \subseteq Source
  BY <1>1, <1>2, <1>8 DEF TypeOK
<1> QED
  BY <1>1, <1>2, <1>3, <1>4, <1>5, <1>6, <1>8, <1>9, JobMoves

\* The end of an article, as far as gathering goes.
LEMMA ArticleOverFacts ==
  ASSUME IInv, NEW j \in Job, ArticleOver(j), Fault \/ UNCHANGED faults,
         job[j].at # "idle"
  PROVE  \E r \in Jobs : /\ QuietTo(j, r) /\ r.at \in {"idle", "items"}
                         /\ WavesOK' /\ FaultsTypeOK' /\ gathering' \in 0 .. MaxFaults + 1
<1>1. job \in [Job -> Jobs] /\ job[j] \in Jobs
  BY JobFacts
<1>2. CASE job[j].kind = "manual"
  <2>1. /\ job' = [job EXCEPT ![j] = Idle]
        /\ gathering' = IF gathering # 0 /\ GatherOver(gathering, job') THEN 0 ELSE gathering
    BY <1>2 DEF ArticleOver, Return
  <2>2. WavesOK' /\ FaultsTypeOK' /\ gathering' \in 0 .. MaxFaults + 1
    BY <2>1, IdleFacts, WavesMove
  <2> QED
    BY <2>1, <2>2, IdleFacts DEF QuietTo
<1>3. CASE job[j].kind # "manual"
  <2> DEFINE r == [job[j] EXCEPT !.at = "items", !.of = NoArticle]
  <2>1. r \in Jobs /\ r.at = "items" /\ job' = [job EXCEPT ![j] = r] /\ UNCHANGED gathering
    BY <1>1, <1>3 DEF ArticleOver, Jobs, At
  <2> HIDE DEF r
  <2>2. WavesOK' /\ FaultsTypeOK' /\ gathering' \in 0 .. MaxFaults + 1
    BY <2>1, WavesMove
  <2> QED
    BY <2>1, <2>2 DEF QuietTo
<1> QED
  BY <1>2, <1>3

LEMMA WriteNoteKeeps == ASSUME IInv, NEW j \in Job, WriteNote(j) PROVE IInv'
<1> DEFINE row == <<j, job[j].of>>
<1>1. /\ job[j].at = "write" /\ ArticleOver(j) /\ noted' = noted \cup {row}
      /\ UNCHANGED <<unasked, due, stored, scored, cut, dry, faults>>
  BY DEF WriteNote
<1>2. TypeOK /\ j \notin unasked /\ row \in scored
  BY <1>1, JobFacts DEF JobOK
<1>3. PICK r \in Jobs : /\ QuietTo(j, r) /\ r.at \in {"idle", "items"}
                        /\ WavesOK' /\ FaultsTypeOK' /\ gathering' \in 0 .. MaxFaults + 1
  BY <1>1, ArticleOverFacts
<1>4. job' = [job EXCEPT ![j] = r] /\ JobOK(j, r, stored', scored', dry')
  BY <1>3 DEF QuietTo, JobOK
<1>5. ASSUME NEW x \in stored \ cut, x[1] = j
      PROVE  RowKept(x, r, scored, noted', dry)
  <2>1. x = <<x[1], x[2]>>
    BY <1>2 DEF TypeOK
  <2>2. RowKept(x, job[j], scored, noted, dry)
    BY <1>5 DEF IInv, ArticleKept, RowKept
  <2> QED
    BY <1>1, <1>2, <1>5, <2>1, <2>2 DEF RowKept
<1> HIDE DEF row
<1> QED
  BY <1>1, <1>2, <1>3, <1>4, <1>5, JobMoves DEF TypeOK

LEMMA ApplyScoreKeeps == ASSUME IInv, NEW j \in Job, ApplyScore(j) PROVE IInv'
<1> DEFINE row == <<j, job[j].of>>
<1>1. /\ job[j].at = "score" /\ scored' = scored \cup {row}
      /\ UNCHANGED <<unasked, due, stored, noted, cut, dry, faults>>
  BY DEF ApplyScore
<1>2. /\ TypeOK /\ j \notin unasked /\ row \in stored /\ (job[j].kind = "dry" => row \in dry)
      /\ job[j] \in Jobs /\ job[j].of \in Article /\ job \in [Job -> Jobs]
  BY <1>1, JobFacts DEF JobOK
<1>3. PICK r \in Jobs :
        /\ job' = [job EXCEPT ![j] = r] /\ JobOK(j, r, stored', scored', dry')
        /\ \/ r.at = "write" /\ r.of = job[j].of
           \/ r.at \in {"idle", "items"} /\ ~WritesNote(j)
        /\ WavesOK' /\ FaultsTypeOK' /\ gathering' \in 0 .. MaxFaults + 1
  <2>1. CASE WritesNote(j)
    <3> DEFINE r == [job[j] EXCEPT !.at = "write"]
    <3>1. /\ r \in Jobs /\ r.at = "write" /\ r.of = job[j].of /\ job' = [job EXCEPT ![j] = r]
          /\ UNCHANGED gathering
      BY <1>2, <2>1 DEF ApplyScore, Go, Jobs, At
    <3> HIDE DEF r
    <3>2. WavesOK' /\ FaultsTypeOK' /\ gathering' \in 0 .. MaxFaults + 1
      BY <1>1, <3>1, WavesMove
    <3>3. JobOK(j, r, stored', scored', dry')
      BY <1>1, <1>2, <3>1 DEF JobOK
    <3> QED
      BY <3>1, <3>2, <3>3
  <2>2. CASE ~WritesNote(j)
    <3>1. ArticleOver(j)
      BY <2>2 DEF ApplyScore
    <3>2. PICK r \in Jobs : /\ QuietTo(j, r) /\ r.at \in {"idle", "items"}
                            /\ WavesOK' /\ FaultsTypeOK' /\ gathering' \in 0 .. MaxFaults + 1
      BY <1>1, <3>1, ArticleOverFacts
    <3> QED
      BY <2>2, <3>2 DEF QuietTo, JobOK
  <2> QED
    BY <2>1, <2>2
<1>4. ASSUME NEW x \in stored \ cut, x[1] = j
      PROVE  RowKept(x, r, scored', noted, dry)
  <2>1. x = <<x[1], x[2]>>
    BY <1>2 DEF TypeOK
  <2>2. RowKept(x, job[j], scored, noted, dry)
    BY <1>4 DEF IInv, ArticleKept, RowKept
  <2>3. CASE x[2] = job[j].of
    <3>1. x = row
      BY <1>4, <2>1, <2>3
    <3>2. x[2] \in Hot /\ x \notin dry => WritesNote(j)
      BY <1>2, <2>3, <3>1 DEF WritesNote
    <3> QED
      BY <1>1, <1>3, <2>3, <3>1, <3>2 DEF RowKept
  <2>4. CASE x[2] # job[j].of
    BY <1>1, <2>2, <2>4 DEF RowKept
  <2> QED
    BY <2>3, <2>4
<1> HIDE DEF row
<1> QED
  BY <1>1, <1>2, <1>3, <1>4, JobMoves DEF TypeOK

-----------------------------------------------------------------------------
(***************************************************************************)
(* Statements that raise.                                                  *)
(***************************************************************************)
LEMMA RaisesKeep == ASSUME IInv, NEW j \in Job, Raises(j) PROVE IInv'
<1>1. /\ Fault /\ UNCHANGED <<unasked, due, stored, scored, noted, dry>> /\ job[j].at # "idle"
      /\ cut' = cut \cup {x \in stored : /\ x[1] \in {j} /\ job[x[1]].of = x[2]
                                        /\ job[x[1]].at \in {"score", "write"}}
  BY DEF Raises, SwallowedRaise, CaughtRaise, EscapingRaise, CutOff, tables
<1>2. job \in [Job -> Jobs] /\ job[j] \in Jobs /\ TypeOK /\ j \notin unasked
  BY <1>1, JobFacts
<1>3. /\ cut \subseteq cut' /\ cut' \subseteq stored
      /\ \A x \in stored \ cut' : x[1] = j /\ job[j].of = x[2] => job[j].at \notin {"score", "write"}
  BY <1>1, <1>2 DEF TypeOK
<1>4. \E r \in Jobs : /\ QuietTo(j, r)
                      /\ WavesOK' /\ FaultsTypeOK' /\ gathering' \in 0 .. MaxFaults + 1
  <2>1. CASE ArticleOver(j)
    BY <1>1, <2>1, ArticleOverFacts
  <2>2. ASSUME NEW a, job' = [job EXCEPT ![j].todo = @ \ {a}], job[j].at = "items",
               UNCHANGED gathering
        PROVE  <1>4
    <3> DEFINE r == [job[j] EXCEPT !.todo = @ \ {a}]
    <3>1. r \in Jobs /\ r.at = "items" /\ job' = [job EXCEPT ![j] = r]
      BY <1>2, <2>2 DEF Jobs
    <3> HIDE DEF r
    <3>2. WavesOK' /\ FaultsTypeOK' /\ gathering' \in 0 .. MaxFaults + 1
      BY <1>1, <2>2, <3>1, WavesMove
    <3> QED
      BY <3>1, <3>2 DEF QuietTo
  <2>3. CASE CaughtRaise(j)
    <3>1. job' = [job EXCEPT ![j].at = "recordfail"] /\ UNCHANGED gathering
      BY <2>3 DEF CaughtRaise, Go
    <3>2. PICK r \in Jobs : QuietTo(j, r)
      BY <3>1, GoesTo DEF At
    <3>3. WavesOK' /\ FaultsTypeOK' /\ gathering' \in 0 .. MaxFaults + 1
      BY <1>1, <3>1, <3>2, WavesMove DEF QuietTo
    <3> QED
      BY <3>2, <3>3
  <2>4. CASE EscapingRaise(j)
    <3>1. /\ job' = [job EXCEPT ![j] = Idle]
          /\ IF j \in Source \X {gathering} THEN gathering' = 0 ELSE UNCHANGED gathering
      BY <2>4 DEF EscapingRaise, Escapes
    <3>2. WavesOK' /\ FaultsTypeOK' /\ gathering' \in 0 .. MaxFaults + 1
      BY <1>1, <3>1, IdleFacts, WavesMove
    <3> QED
      BY <3>1, <3>2, IdleFacts DEF QuietTo
  <2> QED
    BY <2>1, <2>2, <2>3, <2>4 DEF Raises, SwallowedRaise
<1> QED
  BY <1>1, <1>2, <1>3, <1>4, QuietMove DEF QuietTo, TypeOK

LEMMA InvStep == IInv /\ [Next]_vars => IInv'
<1> SUFFICES ASSUME IInv, [Next]_vars PROVE IInv'
  OBVIOUS
<1>1. CASE Tick
  BY <1>1, TickKeeps
<1>2. CASE Restart
  BY <1>2, RestartKeeps
<1>3. ASSUME NEW s \in Source, FallDue(s) PROVE IInv'
  BY <1>3, FallDueKeeps
<1>4. ASSUME NEW r \in Request,
             \/ \E s \in Source, kind \in Kind : Refresh(r, s, kind)
             \/ \E a \in Article : Submit(r, a)
      PROVE  IInv'
  BY <1>4, RequestKeeps
<1>5. ASSUME NEW j \in Job, Works(j) PROVE IInv'
  BY <1>5, LookUpKeeps, QuietWorksKeep, InsertKeeps, ApplyScoreKeeps, WriteNoteKeeps DEF Works
<1>6. ASSUME NEW j \in Job, Raises(j) PROVE IInv'
  BY <1>6, RaisesKeep
<1>7. CASE UNCHANGED vars
  <2>1. UNCHANGED <<unasked, due, job, gathering, stored, scored, noted, cut, dry, faults>>
    BY <1>7 DEF vars
  <2>2. TypeOK' /\ JobsOK' /\ WavesOK' /\ UnaskedIdle' /\ ArticleKept'
    BY <2>1 DEF IInv, TypeOK, FaultsTypeOK, JobsOK, WavesOK, UnaskedIdle, ArticleKept
  <2> QED
    BY <2>2 DEF IInv
<1> QED
  BY <1>1, <1>2, <1>3, <1>4, <1>5, <1>6, <1>7 DEF Next

-----------------------------------------------------------------------------
(***************************************************************************)
(* Theorems.                                                               *)
(***************************************************************************)
\* The invariant the others follow from: where each job stands with its article, and
\* which polls may still be running.
THEOREM Invariance == Spec => []IInv
BY InvInit, InvStep, PTL DEF Spec

\* Every variable stays in its type: no score without a row, and no note without a
\* score, whatever raises between the writes.
THEOREM TypeCorrect == Spec => []TypeOK
<1>1. IInv => TypeOK
  BY DEF IInv
<1> QED
  BY <1>1, Invariance, PTL

\* An article that upsert_fetched stored is scored, and noted when it is worth a note,
\* or its job is still at it or was cut off between the writes; however polls, refreshes,
\* dry runs and submissions of the same article overlap.
THEOREM ArticleKeptHolds == Spec => []ArticleKept
<1>1. IInv => ArticleKept
  BY DEF IInv
<1> QED
  BY <1>1, Invariance, PTL
=============================================================================
