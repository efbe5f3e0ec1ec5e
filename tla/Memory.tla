------------------------------- MODULE Memory -------------------------------
(***************************************************************************)
(* The memory pipeline of one seat (crates/slc-core/src/memory.rs): the    *)
(* diary of events, their compression into daily summaries, weekly digests *)
(* and one document of insights, and the harvest of facts from them.       *)
(*                                                                         *)
(* The two timers of the seat and the tools compress_now and               *)
(* consolidate_now run the same code without a lock; each call to the store*)
(* or to the language model is one step.  What a document says is left     *)
(* out: `of' are the events of the batches it was made of.  The prompt is  *)
(* cut (memory.rs:240, 476), so a summary need not mention all of them.    *)
(*                                                                         *)
(* ConsumesAll is a deliberate mistake.                                    *)
(***************************************************************************)
EXTENDS Naturals, FiniteSets

CONSTANTS
    MemFact,      \* facts the model may find in summaries
    MemRunner,    \* a timer task, a tool call
    MemSettings   \* sizes and limits, one of them in each behaviour

MemSetting ==
    [ events : Nat,    \* events remembered (bound)
      week : Nat,      \* daily summaries to a digest (7)
      month : Nat,     \* digests to a merge of insights (4)
      newest : Nat,    \* documents a consolidation looks at (20)
      lists : Nat,     \* events a compression looks at (500)
      looks : Nat,     \* documents among which it looks for the insights (100)
      facts : Nat,     \* MAX_LEARNED_FACTS
      last : Nat,      \* days (bound)
      faults : Nat,    \* times the service stops (bound)
      lenient : BOOLEAN,      \* SQLite, not a vault: without the flag a document is not archived
      runners : SUBSET MemRunner,
      harvests : BOOLEAN ]    \* whether consolidations run

ASSUME MemoryAssumption == MemSettings \subseteq MemSetting

\* A merge of insights is reached only where nothing runs beside it: the timer and
\* the tools do not compress one seat at once, or the digests of these days are too
\* few, or the store finds none.
ASSUME MergesAlone ==
    \A x \in MemSettings :
       \/ \E r \in MemRunner : x.runners \subseteq {r}
       \/ ~x.lenient \/ x.last + 1 < x.month

\* In a vault, where a look for a document and its write are apart, the events of
\* a day are few enough to be listed.
ASSUME DaysAreListed == \A x \in MemSettings : x.lenient \/ x.events <= x.lists

VARIABLES
    sizes,     \* the setting of this behaviour
    today,
    diary,     \* the documents of the episodic store
    learned,   \* facts in the knowledge base, and whether they have an embedding
    run,       \* what each runner is at
    cuts       \* times the service stopped

memVars == <<sizes, today, diary, learned, run, cuts>>

\* A document is named by its level and its event or date.
Insights == <<4, 0>>
MemLevel(d) == d[1]
Docs == DOMAIN diary

\* used: archived with a compression batch; harvested: consolidated.
Page(day, of) ==
    [day |-> day, age |-> Cardinality(Docs), used |-> FALSE, harvested |-> FALSE, of |-> of]
Written(d, page) == diary' = [x \in Docs \cup {d} |-> IF x = d THEN page ELSE diary[x]]
Older(S, x) == {y \in S : diary[y].age < diary[x].age}
Newer(S, x) == {y \in S : diary[y].age > diary[x].age}
Oldest(S, n) == {x \in S : Cardinality(Older(S, x)) < n}
Newest(S, n) == {x \in S : Cardinality(Newer(S, x)) < n}
EventsOf(S) == UNION {diary[x].of : x \in S}

Rest == [at |-> "rest"]
Steps(r, state) == run' = [run EXCEPT ![r] = state]
NextLevel(n) == IF n = 3 THEN Rest ELSE [at |-> "find", level |-> n + 1]

----------------------------------------------------------------------------
(* remember *)

\* Events are numbered as they come.
Events == {d \in Docs : MemLevel(d) = 1}
Remember ==
    LET next == Cardinality(Events) + 1
    IN  /\ next <= sizes.events
        /\ Written(<<1, next>>, Page(today, {next}))
        /\ UNCHANGED <<sizes, today, learned, run, cuts>>

----------------------------------------------------------------------------
(* HistoryCompressor *)

BeginCompress(r) ==
    /\ run[r] = Rest
    /\ Steps(r, [at |-> "find", level |-> 1])
    /\ UNCHANGED <<sizes, today, diary, learned, cuts>>

\* Yesterday's events, the oldest daily summaries, the oldest digests.  The latter
\* two are asked for with archived: Some(false), which nothing ever writes: only
\* SQLite finds them, the vault and MongoDB want the flag to be there.
Unused(n) == {d \in Docs : MemLevel(d) = n /\ ~diary[d].used}
Found(n) == IF sizes.lenient THEN Unused(n) ELSE {}
Sources(n) ==
    CASE n = 1 -> {d \in Oldest(Unused(1), sizes.lists) : diary[d].day + 1 = today}
      [] n = 2 -> IF Cardinality(Found(2)) < sizes.week THEN {} ELSE Oldest(Found(2), sizes.week)
      [] n = 3 -> IF Cardinality(Found(3)) < sizes.month THEN {} ELSE Oldest(Found(3), sizes.month)

FirstDay(S) == CHOOSE n \in {diary[d].day : d \in S} : \A d \in S : n <= diary[d].day
Find(r) ==
    /\ run[r].at = "find"
    /\ LET lv == run[r].level
           S == Sources(lv)
       IN  Steps(r, IF S = {} THEN NextLevel(lv)
                    ELSE [at |-> IF lv = 3 THEN "insights" ELSE "ask", level |-> lv, from |-> S,
                          day |-> FirstDay(S), known |-> FALSE, old |-> {}])
    /\ UNCHANGED <<sizes, today, diary, learned, cuts>>

\* The insights are looked for among the oldest documents of the seat.
FindInsights(r) ==
    /\ run[r].at = "insights"
    /\ LET known == Insights \in Oldest(Docs, sizes.looks)
       IN  Steps(r, [run[r] EXCEPT !.at = "ask", !.known = known,
                                   !.old = IF known THEN diary[Insights].of ELSE {}])
    /\ UNCHANGED <<sizes, today, diary, learned, cuts>>

\* Without an answer the level is left for another run.
Summarise(r) ==
    /\ run[r].at = "ask"
    /\ \/ Steps(r, [run[r] EXCEPT !.at = "write"])
       \/ Steps(r, NextLevel(run[r].level))
    /\ UNCHANGED <<sizes, today, diary, learned, cuts>>

\* A summary is inserted, which is refused when there is one; insights that were
\* found are replaced in place.  The vault looks for the document and then writes it.
Summary(r) == IF run[r].level = 3 THEN Insights ELSE <<run[r].level + 1, run[r].day>>
Refused(r) == Summary(r) \in Docs /\ ~run[r].known
Made(r) ==
    LET new == Page(run[r].day, EventsOf(run[r].from) \cup run[r].old)
    IN  IF run[r].known THEN [new EXCEPT !.age = diary[Insights].age] ELSE new
Stored(r) ==
    /\ Written(Summary(r), Made(r))
    /\ Steps(r, [at |-> "select", level |-> run[r].level, from |-> run[r].from])
WriteSummary(r) ==
    /\ run[r].at = "write"
    /\ \/ Refused(r) /\ Steps(r, Rest) /\ UNCHANGED diary
       \/ ~Refused(r) /\ sizes.lenient /\ Stored(r)
       \/ ~Refused(r) /\ ~sizes.lenient /\ Steps(r, [run[r] EXCEPT !.at = "put"]) /\ UNCHANGED diary
    /\ UNCHANGED <<sizes, today, learned, cuts>>

PutSummary(r) ==
    /\ run[r].at = "put" /\ Stored(r)
    /\ UNCHANGED <<sizes, today, learned, cuts>>

ConsumesAll(r) == Unused(run[r].level)

\* "Mark the EXACT sources consumed" (memory.rs:121).
Consumes(r) == run[r].from

Select(r) ==
    /\ run[r].at = "select"
    /\ Steps(r, [at |-> "mark", level |-> run[r].level, todo |-> Consumes(r)])
    /\ UNCHANGED <<sizes, today, diary, learned, cuts>>

----------------------------------------------------------------------------
(* MemoryConsolidator *)

\* The newest documents of any level, of which the summaries and digests count.
Unharvested == {d \in Docs : ~diary[d].harvested}
BeginConsolidate(r) ==
    /\ run[r] = Rest /\ sizes.harvests
    /\ LET S == {d \in Newest(Unharvested, sizes.newest) : MemLevel(d) \in {2, 3}}
       IN  S # {} /\ Steps(r, [at |-> "extract", from |-> S])
    /\ UNCHANGED <<sizes, today, diary, learned, cuts>>

Extract(r) ==
    /\ run[r].at = "extract"
    /\ \/ Steps(r, Rest)
       \/ \E F \in SUBSET MemFact : Steps(r, [at |-> "facts", from |-> run[r].from, facts |-> F])
    /\ UNCHANGED <<sizes, today, diary, learned, cuts>>

\* Each fact is counted, compared with the embeddings and stored, in separate calls.
Full == Cardinality({f \in MemFact : learned[f] # "no"}) >= sizes.facts
TakeFact(r) ==
    /\ run[r].at = "facts"
    /\ IF run[r].facts = {} \/ Full THEN Steps(r, [at |-> "harvested", from |-> run[r].from])
       ELSE \E f \in run[r].facts :
              Steps(r, [at |-> "store", from |-> run[r].from, facts |-> run[r].facts \ {f}, fact |-> f])
    /\ UNCHANGED <<sizes, today, diary, learned, cuts>>

\* A fact that cannot be compared counts as new; a stored one is refused by its id.
StoreFact(r) ==
    /\ run[r].at = "store"
    /\ LET f == run[r].fact
       IN  \/ /\ learned[f] = "embedded"
              /\ Steps(r, [at |-> "facts", from |-> run[r].from, facts |-> run[r].facts])
              /\ UNCHANGED learned
           \/ /\ learned[f] # "no"
              /\ Steps(r, Rest) /\ UNCHANGED learned
           \/ /\ learned[f] = "no"
              /\ learned' = [learned EXCEPT ![f] = "stored"]
              /\ Steps(r, [run[r] EXCEPT !.at = "embed"])
    /\ UNCHANGED <<sizes, today, diary, cuts>>

EmbedFact(r) ==
    /\ run[r].at = "embed"
    /\ learned' \in {learned, [learned EXCEPT ![run[r].fact] = "embedded"]}
    /\ Steps(r, [at |-> "facts", from |-> run[r].from, facts |-> run[r].facts])
    /\ UNCHANGED <<sizes, today, diary, cuts>>

\* Every document of the seat is marked, not only the sources.
SelectHarvested(r) ==
    /\ run[r].at = "harvested"
    /\ Steps(r, [at |-> "mark", level |-> 0, todo |-> Docs])
    /\ UNCHANGED <<sizes, today, diary, learned, cuts>>

----------------------------------------------------------------------------
(* episodic_patch_meta reads each document and writes its copy back. *)

Copy(r) ==
    /\ run[r].at = "mark" /\ run[r].todo # {}
    /\ \E d \in run[r].todo :
         Steps(r, [at |-> "patch", level |-> run[r].level, todo |-> run[r].todo \ {d},
                   doc |-> d, copy |-> diary[d]])
    /\ UNCHANGED <<sizes, today, diary, learned, cuts>>

Patch(r) ==
    /\ run[r].at = "patch"
    /\ Written(run[r].doc, IF run[r].level = 0 THEN [run[r].copy EXCEPT !.harvested = TRUE]
                           ELSE [run[r].copy EXCEPT !.used = TRUE])
    /\ Steps(r, [at |-> "mark", level |-> run[r].level, todo |-> run[r].todo])
    /\ UNCHANGED <<sizes, today, learned, cuts>>

Marked(r) ==
    /\ run[r].at = "mark" /\ run[r].todo = {}
    /\ Steps(r, IF run[r].level = 0 THEN Rest ELSE NextLevel(run[r].level))
    /\ UNCHANGED <<sizes, today, diary, learned, cuts>>

----------------------------------------------------------------------------

NextDay ==
    /\ today < sizes.last /\ today' = today + 1
    /\ UNCHANGED <<sizes, diary, learned, run, cuts>>

\* The service stops; documents and facts stay.
StopMemory ==
    /\ cuts < sizes.faults /\ cuts' = cuts + 1
    /\ run' = [r \in MemRunner |-> Rest]
    /\ UNCHANGED <<sizes, today, diary, learned>>

MemInit ==
    /\ sizes \in MemSettings
    /\ today = 0 /\ cuts = 0
    /\ diary = [d \in {} |-> {}]
    /\ learned = [f \in MemFact |-> "no"]
    /\ run = [r \in MemRunner |-> Rest]

MemNext ==
    \/ Remember
    \/ \E r \in sizes.runners :
         \/ BeginCompress(r) \/ Find(r) \/ FindInsights(r) \/ Summarise(r) \/ WriteSummary(r)
         \/ PutSummary(r) \/ Select(r) \/ BeginConsolidate(r) \/ Extract(r) \/ TakeFact(r) \/ StoreFact(r)
         \/ EmbedFact(r) \/ SelectHarvested(r) \/ Copy(r) \/ Patch(r) \/ Marked(r)
    \/ NextDay
    \/ StopMemory

MemSpec == MemInit /\ [][MemNext]_memVars

----------------------------------------------------------------------------
(* Properties *)

\* No event is skipped: one that is archived was in a batch of which a summary is
\* stored, and so was that summary if it is archived itself, wherever runs overlap or
\* stop ("tomorrow's run would skip them -> loss", memory.rs:121).
NothingSkipped ==
    \A x \in Events : \E d \in Docs : ~diary[d].used /\ diary[x].of \subseteq diary[d].of

\* "7 un-archived L2 daily summaries" make "one L3 weekly digest" (memory.rs:138): a
\* compression that comes to as many of them makes it or has no answer from the model.
WeekDigested ==
    [][\A r \in MemRunner :
          run[r].at = "find" /\ run[r].level = 2 /\ Cardinality(Unused(2)) >= sizes.week
             => run'[r] = run[r] \/ run'[r].at = "ask"]_memVars
=============================================================================
