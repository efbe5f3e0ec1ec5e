-------------------------------- MODULE Search --------------------------------
(***************************************************************************)
(* Search over the knowledge base (crates/slc-core/src/search.rs) and the  *)
(* vectors it uses (lib.rs): every await is a step, and documents change   *)
(* between them.  A search finds by vectors, falls back to words when the  *)
(* model or the store fails it, and merges the two; the first search that  *)
(* gets as far embeds again what another model has embedded.               *)
(*                                                                         *)
(* A content is what a query makes of it: SrNear is the tenfold of its     *)
(* similarity, SrWords its score by words.  A chunk of documents that the  *)
(* model embeds at once is all of them.  AnyDocument is a deliberate       *)
(* mistake.                                                                *)
(***************************************************************************)
EXTENDS Naturals, FiniteSetsExt

CONSTANTS
    SrId, SrContent,
    SrSeat, SrPublic,     \* owners, and the owner of a public document
    SrNobody,             \* who searches from the command line: everything is visible
    SrClient,
    SrNear, SrWords,      \* what the query finds in a content, from 0 to 10
    SrSettings,           \* who writes and who searches, how and how often, one of
                          \* them in each behaviour
    SrLimit,              \* hits asked for
    MaxSrFaults, NoSrDoc  \* a bound

SrOwner == SrSeat \cup {SrPublic}
SrDoc == [content : SrContent, owner : SrOwner, dead : BOOLEAN, at : Nat]

ASSUME SearchAssumption ==
    /\ SrNear \in [SrContent -> 0..10] /\ SrWords \in [SrContent -> 0..10]
    /\ IsFiniteSet(SrId) /\ SrLimit \in Nat \ {0} /\ NoSrDoc \notin SrDoc
    /\ \A x \in SrSettings :
          /\ x.docs \in [SrId -> SrDoc \cup {NoSrDoc}] /\ x.seat \in [SrClient -> SrSeat \cup {SrNobody}]
          /\ x.stale \in BOOLEAN
          /\ \A i \in SrId : x.docs[i] # NoSrDoc => x.docs[i].at = 0

VARIABLES
    srSetting,
    srDocs,      \* the documents
    srVectors,   \* records of each document: whose content, in which scope, of which model
    refreshed,   \* the one-shot flag of the process
    srJob,       \* where each client is
    srSince,     \* what each id has been since the search of each client began
    srPuts, srSearches, srFaults

srVars == <<srSetting, srDocs, srVectors, refreshed, srJob, srSince, srPuts, srSearches, srFaults>>

SrIdle == [at |-> "idle"]
SrGoes(k, job) == srJob' = [srJob EXCEPT ![k] = job]
SrAt(k, there) == SrGoes(k, [srJob[k] EXCEPT !.at = there])
SrSeatOf(k) == srSetting.seat[k]
Searching(k) == "hits" \in DOMAIN srJob[k]

\* Who searches, searches while this is d.
SrBecomes(i, d) ==
    srSince' = [k \in SrClient |-> IF Searching(k) THEN [srSince[k] EXCEPT ![i] = @ \cup {d}] ELSE srSince[k]]

\* DocFilter::visible_to
SrVisible(k, d) == SrSeatOf(k) = SrNobody \/ d.owner \in {SrPublic, SrSeatOf(k)}

AnyDocument(k, d) == TRUE

\* filter_matches_doc, of what kb_get has returned.
filter_matches_doc(k, d) == SrVisible(k, d)

\* kb_get; MongoDB does not look at deleted_at.
SrGot(i) == srDocs[i] # NoSrDoc /\ (srDocs[i].dead => srSetting.mongo)

\* The best m of S: none that is left out is better than one of them.
Bests(S, m, Value(_)) ==
    {T \in kSubset(IF Cardinality(S) < m THEN Cardinality(S) ELSE m, S) :
        \A x \in T, y \in S \ T : Value(x) >= Value(y)}

----------------------------------------------------------------------------
(* Documents change *)

\* add_document and update_document, in one step up to the vectors; then the document
\* is read again and embedded.
SrPut(k, i, content, owner) ==
    /\ k \in srSetting.writers /\ srJob[k] = SrIdle /\ srPuts < srSetting.puts
    /\ LET d == [content |-> content, owner |-> owner, dead |-> FALSE, at |-> srPuts + 1]
       IN  srDocs' = [srDocs EXCEPT ![i] = d] /\ SrBecomes(i, d)
    /\ srPuts' = srPuts + 1 /\ SrGoes(k, [at |-> "read", id |-> i])
    /\ UNCHANGED <<srSetting, srVectors, refreshed, srSearches, srFaults>>

\* delete_document leaves the vectors where they are.
SrDelete(k, i) ==
    /\ k \in srSetting.writers /\ srJob[k] = SrIdle /\ srPuts < srSetting.puts
    /\ SrGot(i) /\ ~srDocs[i].dead
    /\ srDocs' = [srDocs EXCEPT ![i].dead = TRUE] /\ SrBecomes(i, srDocs'[i])
    /\ srPuts' = srPuts + 1
    /\ UNCHANGED <<srSetting, srVectors, refreshed, srJob, srSearches, srFaults>>

\* reembed_document
SrRead(k) ==
    /\ srJob[k].at = "read"
    /\ LET i == srJob[k].id
       IN  IF SrGot(i) THEN SrGoes(k, [at |-> "embed", todo |-> {[id |-> i, doc |-> srDocs[i]]}, now |-> NoSrDoc])
           ELSE SrGoes(k, SrIdle)
    /\ UNCHANGED <<srSetting, srDocs, srVectors, refreshed, srSince, srPuts, srSearches, srFaults>>

----------------------------------------------------------------------------
(* Vectors are made *)

\* reindex_embeddings, of all documents or of one seat's.
Reindex(k, owners) ==
    /\ k \in srSetting.writers /\ srJob[k] = SrIdle /\ srPuts < srSetting.puts
    /\ srPuts' = srPuts + 1
    /\ SrGoes(k, [at |-> "embed", todo |-> {[id |-> i, doc |-> srDocs[i]] :
                     i \in {j \in SrId : srDocs[j] # NoSrDoc /\ ~srDocs[j].dead /\ srDocs[j].owner \in owners}},
                now |-> NoSrDoc])
    /\ UNCHANGED <<srSetting, srDocs, srVectors, refreshed, srSince, srSearches, srFaults>>

\* The model does not answer, or answers with an error or with something else.
ModelFails == srFaults < MaxSrFaults /\ srFaults' = srFaults + 1

\* A search goes on where it has been, whatever became of the vectors.
After(k) == IF Searching(k) THEN [srJob[k] EXCEPT !.at = "public", !.todo = {}] ELSE SrIdle

\* The model embeds the contents that were read, or the attempt is over.
Embeds(k) ==
    /\ srJob[k].at = "embed"
    /\ \/ srJob[k].todo # {} /\ SrAt(k, "drop") /\ UNCHANGED srFaults
       \/ srJob[k].todo = {} /\ SrGoes(k, After(k)) /\ UNCHANGED srFaults
       \/ ModelFails /\ SrGoes(k, After(k))
    /\ UNCHANGED <<srSetting, srDocs, srVectors, refreshed, srSince, srPuts, srSearches>>

\* The old records are deleted,
Drops(k, x) ==
    /\ srJob[k].at = "drop" /\ x \in srJob[k].todo
    /\ srVectors' = [srVectors EXCEPT ![x.id] = {}]
    /\ SrGoes(k, [srJob[k] EXCEPT !.at = "insert", !.todo = @ \ {x}, !.now = x])
    /\ UNCHANGED <<srSetting, srDocs, refreshed, srSince, srPuts, srSearches, srFaults>>

\* and the new one is put, in the scope the document had when it was read.
Inserts(k) ==
    /\ srJob[k].at = "insert"
    /\ LET x == srJob[k].now
       IN  srVectors' = [srVectors EXCEPT ![x.id] =
                           @ \cup {[content |-> x.doc.content, owner |-> x.doc.owner, stale |-> FALSE]}]
    /\ IF srJob[k].todo = {} THEN SrGoes(k, After(k)) ELSE SrAt(k, "drop")
    /\ UNCHANGED <<srSetting, srDocs, refreshed, srSince, srPuts, srSearches, srFaults>>

----------------------------------------------------------------------------
(* search *)

\* The query is embedded; without that the search is by words alone.
SrBegin(k) ==
    /\ k \in srSetting.searchers /\ srJob[k] = SrIdle /\ srSearches < srSetting.searches
    /\ srSearches' = srSearches + 1
    /\ srSince' = [srSince EXCEPT ![k] = [i \in SrId |-> {srDocs[i]}]]
    /\ LET job == [at |-> "flag", todo |-> {}, best |-> [i \in SrId |-> 0], found |-> {}, hits |-> {},
                now |-> NoSrDoc]
       IN  \/ SrGoes(k, job) /\ UNCHANGED srFaults
           \/ ModelFails /\ SrGoes(k, [job EXCEPT !.at = "words"])
    /\ UNCHANGED <<srSetting, srDocs, srVectors, refreshed, srPuts>>

\* The records of a scope that a search may see.
ScopeOf(k, scope) ==
    IF scope = "public" THEN {SrPublic}
    ELSE IF SrSeatOf(k) = SrNobody THEN SrSeat ELSE {SrSeatOf(k)}

\* refresh_stale_embeddings: the flag is set before the documents are read, and stays
\* set whatever becomes of them.
RefreshStale(k) ==
    /\ srJob[k].at = "flag" /\ refreshed' = TRUE
    /\ LET stale == {i \in SrId : /\ SrGot(i)
                                  /\ \E r \in srVectors[i] :
                                       r.stale /\ r.owner \in ScopeOf(k, "public") \cup ScopeOf(k, "private")}
       IN  SrGoes(k, IF refreshed \/ stale = {} THEN [srJob[k] EXCEPT !.at = "public"]
                     ELSE [srJob[k] EXCEPT !.at = "embed", !.todo = {[id |-> i, doc |-> srDocs[i]] : i \in stale}])
    /\ UNCHANGED <<srSetting, srDocs, srVectors, srSince, srPuts, srSearches, srFaults>>

\* cosine_similarity of the query and a record; those of another model are incomparable.
Similarity(r) == SrNear[r.content]
Comparable(i) == {r \in srVectors[i] : ~r.stale}

\* all_embeddings of one scope.
Scores(k, scope, next) ==
    /\ srJob[k].at = scope
    /\ LET Seen(i) == {Similarity(r) : r \in {x \in Comparable(i) : x.owner \in ScopeOf(k, scope)}}
           best == [i \in SrId |-> Max({srJob[k].best[i]} \cup Seen(i))]
       IN  SrGoes(k, [srJob[k] EXCEPT !.at = next, !.best = best,
                         !.todo = @ \cup {i \in SrId : Seen(i) # {}}])
    /\ UNCHANGED <<srSetting, srDocs, srVectors, refreshed, srSince, srPuts, srSearches, srFaults>>

\* The best of them are read one after the other.
Narrows(k) ==
    /\ srJob[k].at = "narrow"
    /\ LET Closest(i) == srJob[k].best[i]
       IN  \E T \in Bests(srJob[k].todo, 2 * SrLimit, Closest) :
             SrGoes(k, [srJob[k] EXCEPT !.at = "fetch", !.todo = T])
    /\ UNCHANGED <<srSetting, srDocs, srVectors, refreshed, srSince, srPuts, srSearches, srFaults>>

Fetches(k) ==
    /\ srJob[k].at = "fetch"
    /\ \/ \E i \in srJob[k].todo :
            /\ SrGoes(k, [srJob[k] EXCEPT !.todo = @ \ {i},
                   !.found = IF SrGot(i) /\ filter_matches_doc(k, srDocs[i])
                             THEN @ \cup {[id |-> i, doc |-> srDocs[i]]} ELSE @])
            /\ UNCHANGED srFaults
       \/ srJob[k].todo = {} /\ SrAt(k, "words") /\ UNCHANGED srFaults
       \/ /\ srFaults < MaxSrFaults /\ srFaults' = srFaults + 1
          /\ SrGoes(k, [srJob[k] EXCEPT !.at = "words", !.found = {}])
    /\ UNCHANGED <<srSetting, srDocs, srVectors, refreshed, srSince, srPuts, srSearches>>

\* bm25 of a content.
Words(i) == SrWords[srDocs[i].content]

\* text_search: of the documents that were changed last, as many as are read, those
\* with the words, the best of them.
TextHits(k) ==
    LET Age(i) == srDocs[i].at
        seen == {i \in SrId : srDocs[i] # NoSrDoc /\ ~srDocs[i].dead /\ SrVisible(k, srDocs[i])}
    IN  UNION {Bests({i \in T : Words(i) > 0}, 2 * SrLimit, Words) : T \in Bests(seen, 6 * SrLimit, Age)}

\* In hundredths: 70 for the similarity, 30 for the words compared to the best of them.
Score(k, W, x) ==
    (IF x \in srJob[k].found THEN 7 * srJob[k].best[x.id] ELSE 0)
      + (IF x.id \in W THEN (30 * Words(x.id)) \div Max({1} \cup {Words(i) : i \in W}) ELSE 0)

\* A document that both have found is the one that was found by similarity.
Merged(k, W) ==
    LET near == srJob[k].found
    IN  near \cup {[id |-> i, doc |-> srDocs[i]] : i \in {j \in W : \A x \in near : x.id # j}}

\* At least 20, and 60 in a hundred of the best.
Relevant(k, W) ==
    LET top == Max({0} \cup {Score(k, W, x) : x \in Merged(k, W)})
    IN  IF top < 20 THEN {} ELSE {x \in Merged(k, W) : 100 * Score(k, W, x) >= 60 * top}

\* rerank_inverted, if it is on, may prefer any document for what else it has.
RankScore(k, W, x) == IF srSetting.rerank THEN 0 ELSE Score(k, W, x)

Ranks(k) ==
    /\ srJob[k].at = "words"
    /\ \E W \in TextHits(k) :
         LET Rank(x) == RankScore(k, W, x)
         IN  \E H \in Bests(Relevant(k, W), SrLimit, Rank) :
               SrGoes(k, [srJob[k] EXCEPT !.at = "answered", !.hits = H])
    /\ UNCHANGED <<srSetting, srDocs, srVectors, refreshed, srSince, srPuts, srSearches, srFaults>>

SrDone(k) ==
    /\ srJob[k].at = "answered" /\ SrGoes(k, SrIdle)
    /\ srSince' = [srSince EXCEPT ![k] = [i \in SrId |-> {}]]
    /\ UNCHANGED <<srSetting, srDocs, srVectors, refreshed, srPuts, srSearches, srFaults>>

\* The server restarts, perhaps with another model: records of the old one are stale.
SrRestart(other) ==
    /\ srFaults < MaxSrFaults /\ srFaults' = srFaults + 1
    /\ refreshed' = FALSE /\ srJob' = [k \in SrClient |-> SrIdle]
    /\ srSince' = [k \in SrClient |-> [i \in SrId |-> {}]]
    /\ srVectors' = IF ~other THEN srVectors
                    ELSE [i \in SrId |-> {[r EXCEPT !.stale = TRUE] : r \in srVectors[i]}]
    /\ UNCHANGED <<srSetting, srDocs, srPuts, srSearches>>

SrInit ==
    /\ srSetting \in SrSettings
    /\ srDocs = srSetting.docs
    /\ srVectors = [i \in SrId |-> IF srDocs[i] = NoSrDoc THEN {}
                                   ELSE {[content |-> srDocs[i].content, owner |-> srDocs[i].owner,
                                          stale |-> srSetting.stale]}]
    /\ refreshed = FALSE /\ srJob = [k \in SrClient |-> SrIdle]
    /\ srSince = [k \in SrClient |-> [i \in SrId |-> {}]]
    /\ srPuts = 0 /\ srSearches = 0 /\ srFaults = 0

SrNext ==
    \/ \E k \in SrClient :
         \/ \E i \in SrId, content \in SrContent, owner \in SrOwner : SrPut(k, i, content, owner)
         \/ \E i \in SrId : SrDelete(k, i)
         \/ \E owners \in {SrOwner} \cup {{s} : s \in SrSeat} : Reindex(k, owners)
         \/ SrRead(k) \/ Embeds(k) \/ Inserts(k) \/ SrBegin(k) \/ RefreshStale(k)
         \/ srJob[k].at = "drop" /\ \E x \in srJob[k].todo : Drops(k, x)
         \/ Scores(k, "public", "private") \/ Scores(k, "private", "narrow")
         \/ Narrows(k) \/ Fetches(k) \/ Ranks(k) \/ SrDone(k)
    \/ \E other \in BOOLEAN : SrRestart(other)

SrSpec == SrInit /\ [][SrNext]_srVars

----------------------------------------------------------------------------
(* Property *)

\* A hit is a document as it was at some moment since the search began, that its
\* seat could see then ("Visibility: public docs (no owner) or owned by seat_id",
\* storage/mod.rs:63) and, but for MongoDB, that nobody had deleted: vectors are
\* left behind by documents that were deleted, rewritten or given to another seat
\* meanwhile.  And no failure of the model or of a vector hides everything: if a
\* document with the words could be seen all the time, there is a hit, as long as
\* there are no more documents than a search for words reads.
SearchServes ==
    \A k \in SrClient : srJob[k].at = "answered" =>
        /\ \A x \in srJob[k].hits :
             x.doc \in srSince[k][x.id] /\ SrVisible(k, x.doc) /\ (x.doc.dead => srSetting.mongo)
        /\ Cardinality(SrId) <= 6 * SrLimit
             /\ (\E i \in SrId : /\ srSince[k][i] = {srDocs[i]} /\ srDocs[i] # NoSrDoc /\ ~srDocs[i].dead
                                 /\ SrVisible(k, srDocs[i]) /\ SrWords[srDocs[i].content] > 0)
             => srJob[k].hits # {}
=============================================================================
