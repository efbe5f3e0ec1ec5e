--------------------------------- MODULE Pages ---------------------------------
(***************************************************************************)
(* Tool calls with large answers (crates/slc-mcp/src/server.rs, tools_call)*)
(* and the pages such an answer is cut into (crates/slc-core/src/          *)
(* pagination.rs).  A call acts, reads the page limit, stores the pages    *)
(* and then what is known about them, and answers with the first page.     *)
(* The client fetches the rest page by page, while other clients change    *)
(* the limit or delete, and the sweep removes what is old.                 *)
(*                                                                         *)
(* A unit of length stands for 200 characters, the least length of a part. *)
(*                                                                         *)
(* PackUnflushed and ExpiredUnmarked are deliberate mistakes.              *)
(***************************************************************************)
EXTENDS Naturals, SequencesExt

CONSTANTS
    PgClient,    \* tool calls in flight, each of a client that reads its answer
    PgAnswers,   \* answers of tools: sequences of items, or one object
    PgLimits,    \* page limits, in units of length
    PgOwn,       \* the limit of a client's connection, 0 for the stored one
    PgTtl,       \* age at which pages may be removed
    MaxPgCalls, MaxPgFaults, MaxPgClock    \* bounds

\* An item's length, and that of its content in it, which is 0 when it has none.
PgItem == {item \in [size : Nat \ {0}, body : Nat] : item.body <= item.size}

ASSUME PagesAssumption ==
    /\ \A x \in PgAnswers : x.list \in BOOLEAN /\ x.items \in Seq(PgItem) /\ Len(x.items) > 0
    /\ \A x \in PgAnswers : x.list \/ Len(x.items) = 1
    /\ PgLimits \subseteq Nat \ {0} /\ PgOwn \in [PgClient -> Nat] /\ PgTtl \in Nat
    /\ MaxPgCalls \in Nat

VARIABLES
    pages,      \* `{response_id}:pages`, the pages of each response
    meta,       \* `{response_id}:meta`, when it was stored
    pgLimit,    \* the stored limit of a page
    pgJob,      \* where each client is
    sweeping,   \* responses the sweep has found old, and one of which only the pages are removed
    deleted,    \* responses that clients deleted
    pgClock, pgCalls, pgFaults

pgVars == <<pages, meta, pgLimit, pgJob, sweeping, deleted, pgClock, pgCalls, pgFaults>>

Resp == 1..MaxPgCalls       \* ids of responses: each is used once
Gone == <<>>
PgIdle == [at |-> "idle"]
NoSweep == [left |-> {}, half |-> 0]
PgStored == <<pages, meta, pgLimit>>
PgGoes(c, x) == pgJob' = [pgJob EXCEPT ![c] = x]
Other == <<sweeping, deleted, pgClock, pgCalls, pgFaults>>

----------------------------------------------------------------------------
(* Cutting an answer into pages *)

Ceil(x, y) == (x + y - 1) \div y
ChunkLimit(limit) == IF limit > 2 THEN limit - 1 ELSE 1

\* split_item: the pieces of the item at position k.
SplitItem(item, k, chunk) ==
    IF item.body <= chunk THEN <<[item |-> k, part |-> 1, of |-> 1, size |-> item.size]>>
    ELSE [p \in 1..Ceil(item.body, chunk) |->
             [item |-> k, part |-> p, of |-> Ceil(item.body, chunk), size |-> item.size - item.body +
                 (IF p * chunk > item.body THEN item.body % chunk ELSE chunk)]]

Flush(s) ==
    IF s.current = <<>> THEN s
    ELSE [s EXCEPT !.pages = Append(@, s.current), !.current = <<>>, !.chars = 0]
Push(s, piece) == [s EXCEPT !.current = Append(@, piece), !.chars = @ + piece.size]

\* Each part of a split item is a page.
Alone(pieces) == [p \in 1..Len(pieces) |-> <<pieces[p]>>]

\* The loop body of paginate_with_limit for item k.
PackUnflushed(items, limit, s, k) ==
    IF items[k].size > limit
    THEN [s EXCEPT !.pages = @ \o Alone(SplitItem(items[k], k, ChunkLimit(limit)))]
    ELSE Push(IF s.chars + items[k].size > limit THEN Flush(s) ELSE s, SplitItem(items[k], k, items[k].size)[1])
PackItem(items, limit, s, k) ==
    IF items[k].size > limit
    THEN [Flush(s) EXCEPT !.pages = @ \o Alone(SplitItem(items[k], k, ChunkLimit(limit)))]
    ELSE Push(IF s.chars + items[k].size > limit THEN Flush(s) ELSE s, SplitItem(items[k], k, items[k].size)[1])

\* What is packed after each item.
Packing(items, limit) ==
    LET packed[k \in 0..Len(items)] ==
            IF k = 0 THEN [pages |-> <<>>, current |-> <<>>, chars |-> 0]
            ELSE PackItem(items, limit, packed[k - 1], k)
    IN  packed

ListPages(items, limit) == Flush(Packing(items, limit)[Len(items)]).pages

\* One object is cut by its content, and not stored when that fits.
ObjectPages(item, limit) == Alone(SplitItem(item, 1, ChunkLimit(limit)))
Paged(x, limit) == x.list \/ x.items[1].body > limit
PagesOf(x, limit) == IF x.list THEN ListPages(x.items, limit) ELSE ObjectPages(x.items[1], limit)
WholePage(x) == [k \in 1..Len(x.items) |-> SplitItem(x.items[k], k, x.items[k].size)[1]]

Total(x) == FoldLeft(LAMBDA n, it : n + it.size, 0, x.items)

----------------------------------------------------------------------------
(* A call of a tool *)

PgInit ==
    /\ pages = [r \in Resp |-> Gone] /\ meta = [r \in Resp |-> 0]
    /\ pgLimit \in PgLimits
    /\ pgJob = [c \in PgClient |-> PgIdle]
    /\ sweeping = NoSweep /\ deleted = {}
    /\ pgClock = 1 /\ pgCalls = 0 /\ pgFaults = 0

\* The tool's own work, of which the answer is what matters here; its use is recorded.
Acts(c) == \E x \in PgAnswers :
    /\ pgJob[c].at = "idle" /\ pgCalls < MaxPgCalls
    /\ pgCalls' = pgCalls + 1
    /\ PgGoes(c, [at |-> "limit", resp |-> pgCalls + 1, x |-> x])
    /\ UNCHANGED <<PgStored, sweeping, deleted, pgClock, pgFaults>>

\* An answer longer than the limit of its connection, or the one stored now, is
\* cut at that limit; another one is sent as it is.
ReadsLimit(c) ==
    LET limit == IF PgOwn[c] # 0 THEN PgOwn[c] ELSE pgLimit
        x == pgJob[c].x IN
    /\ pgJob[c].at = "limit"
    /\ IF Total(x) > limit /\ Paged(x, limit)
       THEN PgGoes(c, [at |-> "put", resp |-> pgJob[c].resp, x |-> x, pages |-> PagesOf(x, limit)])
       ELSE PgGoes(c, [at |-> "read", x |-> x, got |-> WholePage(x)])
    /\ UNCHANGED <<PgStored, Other>>

PutsPages(c) == LET j == pgJob[c] IN
    /\ j.at = "put"
    /\ pages' = [pages EXCEPT ![j.resp] = j.pages]
    /\ PgGoes(c, [j EXCEPT !.at = "meta"])
    /\ UNCHANGED <<meta, pgLimit, Other>>

PutsMeta(c) == LET j == pgJob[c] IN
    /\ j.at = "meta"
    /\ meta' = [meta EXCEPT ![j.resp] = pgClock]
    /\ PgGoes(c, [at |-> IF Len(j.pages) = 1 THEN "read" ELSE "more", resp |-> j.resp, x |-> j.x,
                page |-> 1, got |-> j.pages[1], born |-> pgClock])
    /\ UNCHANGED <<pages, pgLimit, Other>>

\* Reading the limit or storing fails: the caller is answered with an error.
CallFails(c) ==
    /\ pgJob[c].at \in {"limit", "put", "meta"} /\ pgFaults < MaxPgFaults
    /\ pgFaults' = pgFaults + 1
    /\ PgGoes(c, PgIdle)
    /\ UNCHANGED <<PgStored, sweeping, deleted, pgClock, pgCalls>>

----------------------------------------------------------------------------
(* get_page, delete_response and set_page_limit *)

\* The client runs the command at the end of each page; it is told of the end.
GetPage(c) == LET j == pgJob[c] IN
    /\ j.at = "more"
    /\ IF pages[j.resp] = Gone \/ j.page + 1 > Len(pages[j.resp])
       THEN PgGoes(c, [at |-> "refused", resp |-> j.resp, born |-> j.born])
       ELSE PgGoes(c, [j EXCEPT !.at = IF j.page + 1 = Len(pages[j.resp]) THEN "read" ELSE "more",
                              !.page = @ + 1, !.got = @ \o pages[j.resp][j.page + 1]])
    /\ UNCHANGED <<PgStored, Other>>

\* A client that has read, or was refused, or gives up, does something else.
Leaves(c) ==
    /\ pgJob[c].at \in {"more", "read", "refused"} /\ PgGoes(c, PgIdle)
    /\ UNCHANGED <<PgStored, Other>>

\* delete_response takes any response id: the pages go, then what is known of them.
DeleteResponse(c) == \E r \in Resp :
    /\ pgJob[c].at = "idle" /\ meta[r] # 0
    /\ pages' = [pages EXCEPT ![r] = Gone]
    /\ deleted' = deleted \cup {r}
    /\ PgGoes(c, [at |-> "unmeta", resp |-> r])
    /\ UNCHANGED <<meta, pgLimit, sweeping, pgClock, pgCalls, pgFaults>>
DeleteMeta(c) ==
    /\ pgJob[c].at = "unmeta"
    /\ meta' = [meta EXCEPT ![pgJob[c].resp] = 0]
    /\ PgGoes(c, PgIdle)
    /\ UNCHANGED <<pages, pgLimit, Other>>

SetPageLimit(c) ==
    /\ pgJob[c].at = "idle" /\ pgLimit' \in PgLimits \ {pgLimit}
    /\ UNCHANGED <<pages, meta, pgJob, Other>>

----------------------------------------------------------------------------
(* The sweep, time and restarts *)

\* created_at < now - ttl
Expired(r) == meta[r] # 0 /\ meta[r] + PgTtl < pgClock

ExpiredUnmarked(r) == Expired(r) \/ (pages[r] # Gone /\ meta[r] = 0)

\* cleanup goes by what is known of the responses: one listing, then each of
\* the old ones, its pages first.  A failure ends it.
Sweepable(r) == Expired(r)
SweepLists ==
    /\ sweeping = NoSweep /\ \E r \in Resp : Sweepable(r)
    /\ sweeping' = [left |-> {r \in Resp : Sweepable(r)}, half |-> 0]
    /\ UNCHANGED <<PgStored, pgJob, deleted, pgClock, pgCalls, pgFaults>>
SweepPages == \E r \in sweeping.left :
    /\ sweeping.half = 0
    /\ pages' = [pages EXCEPT ![r] = Gone]
    /\ sweeping' = [left |-> sweeping.left \ {r}, half |-> r]
    /\ UNCHANGED <<meta, pgLimit, pgJob, deleted, pgClock, pgCalls, pgFaults>>
SweepMeta ==
    /\ sweeping.half # 0
    /\ meta' = [meta EXCEPT ![sweeping.half] = 0]
    /\ sweeping' = [sweeping EXCEPT !.half = 0]
    /\ UNCHANGED <<pages, pgLimit, pgJob, deleted, pgClock, pgCalls, pgFaults>>
SweepFails ==
    /\ sweeping # NoSweep /\ pgFaults < MaxPgFaults /\ pgFaults' = pgFaults + 1
    /\ sweeping' = NoSweep
    /\ UNCHANGED <<PgStored, pgJob, deleted, pgClock, pgCalls>>

PgTick ==
    /\ pgClock < MaxPgClock /\ pgClock' = pgClock + 1
    /\ UNCHANGED <<PgStored, pgJob, sweeping, deleted, pgCalls, pgFaults>>

PgCrash ==
    /\ pgFaults < MaxPgFaults /\ pgFaults' = pgFaults + 1
    /\ pgJob' = [c \in PgClient |-> IF pgJob[c].at \in {"more", "read", "refused"} THEN pgJob[c] ELSE PgIdle]
    /\ sweeping' = NoSweep
    /\ UNCHANGED <<PgStored, deleted, pgClock, pgCalls>>

PgNext ==
    \/ \E c \in PgClient :
          \/ Acts(c) \/ ReadsLimit(c) \/ PutsPages(c) \/ PutsMeta(c) \/ CallFails(c)
          \/ GetPage(c) \/ Leaves(c) \/ DeleteResponse(c) \/ DeleteMeta(c) \/ SetPageLimit(c)
    \/ SweepLists \/ SweepPages \/ SweepMeta \/ SweepFails \/ PgTick \/ PgCrash

PgSpec == PgInit /\ [][PgNext]_pgVars

----------------------------------------------------------------------------
(* Properties *)

\* A client that is told that it has read everything has each item of the
\* answer, in its order and with all parts of its content, although the limit
\* changed while it read (split_item: "Not truncation").
AnswerWhole == \A c \in PgClient : pgJob[c].at = "read" =>
    LET got == pgJob[c].got x == pgJob[c].x IN
    /\ \A k \in 1..Len(x.items) : \E q \in 1..Len(got) : got[q].item = k /\ got[q].part = got[q].of
    /\ got[1].item = 1 /\ got[1].part = 1
    /\ \A q \in 1..Len(got) - 1 :
          IF got[q].part < got[q].of
          THEN got[q + 1] \in [item : {got[q].item}, part : {got[q].part + 1}, of : {got[q].of}, size : Nat]
          ELSE got[q + 1].item = got[q].item + 1 /\ got[q + 1].part = 1

\* A client is refused a page only of a response that is old or was deleted:
\* what an answer announces can be fetched (TTL_SECONDS).
FreshServed == \A c \in PgClient : pgJob[c].at = "refused" =>
    pgJob[c].resp \in deleted \/ pgJob[c].born + PgTtl < pgClock
=============================================================================
