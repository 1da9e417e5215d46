---------------------------- MODULE Intelligence ----------------------------
(***************************************************************************)
(* The intelligence engine of core/intelligence: a daemon polls the        *)
(* sources that are due, a few at a time; a fetch stores each article it   *)
(* does not find in the table, scores it, and writes a note of it into the *)
(* vault when the score is high enough.  The endpoints refresh a source    *)
(* (also as a dry run, which writes no note) and take single articles.     *)
(*                                                                         *)
(* An article is what canonical_url makes of its address.  A poll is named *)
(* by its source and by the tick that began it, as far as ticks overlap:   *)
(* an exception that escapes from a poll ends the tick and leaves the      *)
(* tick's other polls running.                                             *)
(***************************************************************************)
EXTENDS Faults, FiniteSets

CONSTANTS
  Source,         \* what the daemon polls
  Article,
  Feed,           \* the articles a source offers
  Hot,            \* articles whose score reaches the threshold
  Request,        \* bound: the requests ever made
  MaxConcurrent   \* polls of one tick that run at once

Wave == 1 .. MaxFaults + 1
Job == (Source \X Wave) \cup Request

ASSUME IntelligenceAssumptions ==
  /\ Feed \in [Source -> SUBSET Article] /\ Hot \subseteq Article
  /\ (Source \X Wave) \cap Request = {}
  /\ MaxConcurrent \in Nat \ {0}

VARIABLES
  unasked,    \* requests that were not made yet
  due,        \* sources whose interval since last_checked_at is over
  job,        \* the fetches and submissions under way
  gathering,  \* the wave the daemon waits for, or 0 while it sleeps
  stored,     \* intel_items: which job inserted a row of which article
  scored,     \* those that have a score
  noted,      \* those with a note in the vault
  cut,        \* history: rows whose job was cut off before it was done with them
  dry         \* history: rows a dry run inserted

vars == <<unasked, due, job, gathering, stored, scored, noted, cut, dry, faults>>
tables == <<stored, scored, noted>>

At == {"idle", "waiting", "fetch", "items", "insert", "score", "write",
       "record", "recordfetch", "recordfail"}
Kind == {"poll", "refresh", "dry", "manual"}
NoArticle == "none"
NoSource == "none"

Jobs == [at: At, kind: Kind, src: Source \cup {NoSource}, todo: SUBSET Article,
         of: Article \cup {NoArticle}]
Idle == [at |-> "idle", kind |-> "poll", src |-> NoSource, todo |-> {}, of |-> NoArticle]

TypeOK ==
  /\ FaultsTypeOK /\ unasked \subseteq Request
  /\ due \subseteq Source /\ job \in [Job -> Jobs] /\ gathering \in 0 .. MaxFaults + 1
  /\ noted \subseteq scored /\ scored \subseteq stored /\ stored \subseteq Job \X Article
  /\ cut \subseteq stored /\ dry \subseteq stored

\* A source that was never checked is due.
Init ==
  /\ FaultsInit /\ unasked = Request
  /\ due = Source
  /\ job = [j \in Job |-> Idle] /\ gathering = 0
  /\ stored = {} /\ scored = {} /\ noted = {} /\ cut = {} /\ dry = {}

-----------------------------------------------------------------------------
(***************************************************************************)
(* The world and the operator.                                             *)
(***************************************************************************)
\* The interval is the source's own, or a longer one while it keeps failing;
\* both are bounded.
FallDue(s) ==
  /\ s \notin due /\ due' = due \cup {s}
  /\ UNCHANGED <<unasked, job, gathering, tables, cut, dry, faults>>

Refresh(r, s, kind) ==
  /\ r \in unasked /\ unasked' = unasked \ {r} /\ kind \in {"refresh", "dry"}
  /\ job' = [job EXCEPT ![r] = [Idle EXCEPT !.at = "fetch", !.kind = kind, !.src = s]]
  /\ UNCHANGED <<due, gathering, tables, cut, dry, faults>>

Submit(r, a) ==
  /\ r \in unasked /\ unasked' = unasked \ {r}
  /\ job' = [job EXCEPT ![r] = [Idle EXCEPT !.at = "items", !.kind = "manual", !.todo = {a}]]
  /\ UNCHANGED <<due, gathering, tables, cut, dry, faults>>

-----------------------------------------------------------------------------
(***************************************************************************)
(* The daemon.                                                             *)
(***************************************************************************)
BeginPolls ==
  /\ gathering' = faults + 1
  /\ job' = [j \in Job |-> IF j \in due \X {faults + 1}
                           THEN [Idle EXCEPT !.at = "waiting", !.src = j[1]] ELSE job[j]]
  /\ UNCHANGED <<unasked, due, tables, cut, dry, faults>>

Tick == gathering = 0 /\ due # {} /\ BeginPolls

Running(w) == {j \in Source \X {w} : job[j].at \notin {"idle", "waiting"}}

TakePermit(j) ==
  /\ j \in Source \X Wave /\ job[j].at = "waiting"
  /\ Cardinality(Running(j[2])) < MaxConcurrent
  /\ job' = [job EXCEPT ![j].at = "fetch"]
  /\ UNCHANGED <<unasked, due, gathering, tables, cut, dry, faults>>

\* gather() returns when the last poll of the tick has ended.
GatherOver(w, idle) == \A j \in Source \X {w} : idle[j].at = "idle"

Return(j) ==
  /\ job' = [job EXCEPT ![j] = Idle]
  /\ gathering' = IF gathering # 0 /\ GatherOver(gathering, job') THEN 0 ELSE gathering

-----------------------------------------------------------------------------
(***************************************************************************)
(* run_source, from one await to the next.                                 *)
(***************************************************************************)
Go(j, at) == job' = [job EXCEPT ![j].at = at] /\ UNCHANGED gathering

FetchFails(j) ==
  /\ job[j].at = "fetch" /\ Go(j, "recordfetch")
  /\ UNCHANGED <<unasked, due, tables, cut, dry, faults>>

Fetch(j) ==
  /\ job[j].at = "fetch"
  /\ job' = [job EXCEPT ![j].at = "items", ![j].todo = Feed[job[j].src]]
  /\ UNCHANGED <<unasked, due, gathering, tables, cut, dry, faults>>

(* A submission ends with its one article; a fetch goes on to the next.   *)
ArticleOver(j) ==
  IF job[j].kind = "manual" THEN Return(j)
  ELSE job' = [job EXCEPT ![j].at = "items", ![j].of = NoArticle] /\ UNCHANGED gathering

InTable(a) == \E j \in Job : <<j, a>> \in stored

\* upsert_fetched looks the article up; the last lookup is the one by address.
LookUp(j, a) ==
  /\ job[j].at = "items" /\ a \in job[j].todo
  /\ IF ~InTable(a)
     THEN /\ job' = [job EXCEPT ![j].at = "insert", ![j].of = a, ![j].todo = @ \ {a}]
          /\ UNCHANGED gathering
     ELSE IF job[j].kind = "manual" THEN Return(j)
          ELSE job' = [job EXCEPT ![j].todo = @ \ {a}] /\ UNCHANGED gathering
  /\ UNCHANGED <<unasked, due, tables, cut, dry, faults>>

Insert(j) ==
  /\ job[j].at = "insert" /\ Go(j, "score")
  /\ stored' = stored \cup {<<j, job[j].of>>}
  /\ dry' = IF job[j].kind = "dry" THEN dry \cup {<<j, job[j].of>>} ELSE dry
  /\ UNCHANGED <<unasked, due, scored, noted, cut, faults>>

WritesNote(j) == job[j].of \in Hot /\ job[j].kind # "dry"

\* Faulty variant: a poll of a low-scoring article does not write its score.
ApplyScoreToHot(j) ==
  /\ job[j].at = "score"
  /\ IF WritesNote(j) THEN scored' = scored \cup {<<j, job[j].of>>} /\ Go(j, "write")
     ELSE UNCHANGED scored /\ ArticleOver(j)
  /\ UNCHANGED <<unasked, due, stored, noted, cut, dry, faults>>

ApplyScore(j) ==
  /\ job[j].at = "score" /\ scored' = scored \cup {<<j, job[j].of>>}
  /\ IF WritesNote(j) THEN Go(j, "write") ELSE ArticleOver(j)
  /\ UNCHANGED <<unasked, due, stored, noted, cut, dry, faults>>

WriteNote(j) ==
  /\ job[j].at = "write" /\ ArticleOver(j)
  /\ noted' = noted \cup {<<j, job[j].of>>}
  /\ UNCHANGED <<unasked, due, stored, scored, cut, dry, faults>>

ItemsOver(j) ==
  /\ job[j].at = "items" /\ job[j].todo = {} /\ Go(j, "record")
  /\ UNCHANGED <<unasked, due, tables, cut, dry, faults>>

\* Faulty variant: a fetch that failed is not booked as a check.
RecordSuccess(j) ==
  /\ job[j].at \in {"record", "recordfetch", "recordfail"} /\ Return(j)
  /\ due' = IF job[j].at = "record" THEN due \ {job[j].src} ELSE due
  /\ UNCHANGED <<unasked, tables, cut, dry, faults>>

(* record_fetch_outcome, after which run_source returns.                  *)
Record(j) ==
  /\ job[j].at \in {"record", "recordfetch", "recordfail"}
  /\ due' = due \ {job[j].src} /\ Return(j)
  /\ UNCHANGED <<unasked, tables, cut, dry, faults>>

-----------------------------------------------------------------------------
(***************************************************************************)
(* Statements that raise.                                                  *)
(***************************************************************************)
CutOff(js) ==
  cut' = cut \cup {x \in stored : /\ x[1] \in js /\ job[x[1]].of = x[2]
                                 /\ job[x[1]].at \in {"score", "write"}}

Escapes(j) ==
  /\ job' = [job EXCEPT ![j] = Idle]
  /\ IF j \in Source \X {gathering} THEN gathering' = 0 ELSE UNCHANGED gathering

(* Storing an article and writing its note may fail: the fetch goes on,   *)
(* and so does a submission whose note fails.                              *)
SwallowedRaise(j) ==
  /\ Fault
  /\ \/ job[j].kind # "manual" /\ job[j].at = "items"
        /\ \E a \in job[j].todo : job' = [job EXCEPT ![j].todo = @ \ {a}]
        /\ UNCHANGED gathering
     \/ job[j].kind # "manual" /\ job[j].at = "insert" /\ ArticleOver(j)
     \/ job[j].at = "write" /\ ArticleOver(j)
  /\ CutOff({j}) /\ UNCHANGED <<unasked, due, tables, dry>>

(* Any other statement ends the fetch, which is then booked as failed.  It *)
(* reads the topics before the first article.                              *)
CaughtRaise(j) ==
  /\ Fault /\ job[j].kind # "manual"
  /\ \/ job[j].at \in {"fetch", "score", "record", "recordfetch"}
     \/ job[j].at = "items" /\ job[j].todo = Feed[job[j].src]
  /\ Go(j, "recordfail") /\ CutOff({j})
  /\ UNCHANGED <<unasked, due, tables, dry>>

(* Only opening the fetch's row and booking the failure may raise out of a *)
(* fetch; a submission guards nothing but its note.                        *)
EscapingRaise(j) ==
  /\ Fault
  /\ \/ job[j].at \in {"fetch", "recordfail"}
     \/ job[j].kind = "manual" /\ job[j].at \in {"items", "insert", "score"}
  /\ Escapes(j) /\ CutOff({j})
  /\ UNCHANGED <<unasked, due, tables, dry>>

Restart ==
  /\ Fault /\ CutOff(Job)
  /\ job' = [j \in Job |-> Idle] /\ gathering' = 0
  /\ UNCHANGED <<unasked, due, tables, dry>>

-----------------------------------------------------------------------------
Works(j) ==
  \/ TakePermit(j) \/ FetchFails(j) \/ Fetch(j)
  \/ \E a \in Article : LookUp(j, a)
  \/ Insert(j) \/ ApplyScore(j) \/ WriteNote(j)
  \/ ItemsOver(j) \/ Record(j)

Raises(j) == SwallowedRaise(j) \/ CaughtRaise(j) \/ EscapingRaise(j)

Next ==
  \/ Tick \/ Restart \/ \E s \in Source : FallDue(s)
  \/ \E r \in Request : \/ \E s \in Source, kind \in Kind : Refresh(r, s, kind)
                        \/ \E a \in Article : Submit(r, a)
  \/ \E j \in Job : Works(j) \/ Raises(j)

Spec == Init /\ [][Next]_vars

(* The event loop runs every coroutine that can go on, and the daemon's    *)
(* sleep ends.  Nothing makes operators ask or statements raise.           *)
Fairness == WF_vars(Tick) /\ \A j \in Job : WF_vars(Works(j))
FairSpec == Spec /\ Fairness

-----------------------------------------------------------------------------
(* No article is lost half way: a stored article is scored, and noted when *)
(* it is worth a note and no dry run took it in, or its job is still at    *)
(* it, or that very job was cut off.  Later fetches pass it by as known.   *)
ArticleKept ==
  \A x \in stored \ cut :
    LET at == IF job[x[1]].of = x[2] THEN job[x[1]].at ELSE "idle" IN
    /\ x \in scored \/ at = "score"
    /\ x[2] \in Hot /\ x \notin dry => x \in noted \/ at \in {"score", "write"}

(* A source that stays enabled is checked again and again, through errors, *)
(* backing off, raising statements and restarts.                           *)
SourcesPolled == \A s \in Source : s \in due ~> s \notin due

(* "avoid storing the same article five times when five aggregators       *)
(* republish it" (core/intelligence/dedup.py:4).                          *)
StoredOnce == \A x, y \in stored : x[2] = y[2] => x = y
=============================================================================
