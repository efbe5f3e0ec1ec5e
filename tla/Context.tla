------------------------------- MODULE Context --------------------------------
(***************************************************************************)
(* update_context and save_context (build_context of                       *)
(* crates/slc-mcp/src/server.rs): what of a seat's active document, of     *)
(* the documents linked to it, of its profiles and of the base documents   *)
(* is answered within a limit of tokens.  Every read is a step, between    *)
(* which other calls change the documents; a read may fail, and then what  *)
(* it would have found is left out.                                        *)
(*                                                                         *)
(* A content is its number of tokens; id and category of a linked document *)
(* count CxHeader more.  FewerLinks is a deliberate mistake.               *)
(***************************************************************************)
EXTENDS Naturals, SequencesExt

CONSTANTS
    CxDoc, NoCxDoc,
    CxBase,         \* the four core documents, in the order they are looked up
    CxWorlds,       \* what a behaviour starts from (see CxInit)
    CxLinkLimit,    \* CONTEXT_AUTO_LOAD_LINK_LIMIT
    CxHeader,       \* tokens of an id and a category
    CxFocuses,      \* tokens of the block of focuses: to_tokens(32)
    CxLeast,        \* tokens below which nothing is summarised
    CxSizes,        \* what a model may answer with, in tokens
    MaxCxCalls, MaxCxEdits      \* bounds

CxDocs == [size : Nat, open : BOOLEAN, links : Seq(CxDoc)]
CxLabels == {"focuses", "seat_profile", "user_profile"}     \* what is not a document in an answer
CxBlocks == [id : CxDoc \cup CxLabels, size : Nat, whole : BOOLEAN]
CxSeats ==
    [ active : CxDoc \cup {NoCxDoc}, policy : CxDoc \cup {NoCxDoc}, focuses : BOOLEAN, own : Nat,
      seatLimit : Nat, default : Nat, profiles : Seq([id : CxLabels, size : Nat, whole : {TRUE}]) ]

\* "active_focuses", "seat_profile:.." and "user_profile" are no ids of documents; a
\* document may link to one that is not there.
ASSUME ContextAssumption ==
    /\ NoCxDoc \notin CxDoc /\ CxLabels \cap CxDoc = {} /\ NoCxDoc \notin CxDocs
    /\ CxBase \in Seq(CxDoc) /\ CxSizes \subseteq Nat
    /\ \A x \in CxWorlds : x.seat \in CxSeats /\ x.docs \in [CxDoc -> CxDocs \cup {NoCxDoc}]

VARIABLES
    cxWorld,     \* active and policy document, profiles, focuses and limit of the seat
    cxDocs,      \* each document: its tokens, its auto_load, whether the seat may read it
    cxBuild,     \* the call that is being answered
    cxSnapshots, \* snapshots saved in the diary
    cxCalls, cxEdits

cxVars == <<cxWorld, cxDocs, cxBuild, cxSnapshots, cxCalls, cxEdits>>

----------------------------------------------------------------------------
(* The limits *)

\* The connection's own limit, else the seat's in tokens, else in characters, else
\* the configured one.
context_limit_for(w) == IF w.seatLimit # 0 THEN w.seatLimit ELSE w.default
effective_context_token_limit(w) == IF w.own # 0 THEN w.own ELSE context_limit_for(w)

Limit == effective_context_token_limit(cxWorld)
Left(b) == IF b.used >= Limit THEN 0 ELSE Limit - b.used
Less(m, n) == IF m <= n THEN 0 ELSE m - n

Readable(d) == cxDocs[d] # NoCxDoc /\ cxDocs[d].open

\* context_document_block
Block(id, size) == [id |-> id, size |-> size, whole |-> TRUE]

----------------------------------------------------------------------------
(* context_dependencies *)

\* A link is looked at until the limit is reached; a new one is queued.  The chain of
\* the policy document is trusted, and keeps the trust it was queued with.
Look(x, id, trusted) ==
    IF x.inspected = CxLinkLimit THEN [x EXCEPT !.limited = TRUE]
    ELSE IF id \in x.seen THEN [x EXCEPT !.inspected = @ + 1]
    ELSE [x EXCEPT !.inspected = @ + 1, !.seen = @ \cup {id},
                   !.queue = Append(@, <<id, trusted \/ cxWorld.policy = id>>)]

\* What there is after each link, in order.
Looking(b, links, trusted) ==
    LET looked[k \in 0..Len(links)] ==
            IF k = 0 THEN b ELSE Look(looked[k - 1], links[k], trusted)
    IN  looked

Enqueue(b, links, trusted) == Looking(b, links, trusted)[Len(links)]

FewerLinks(d, fits) == IF fits THEN d.links ELSE <<>>

\* "A large parent need not exclude a small, useful child."
LinksOf(d, fits) == d.links

\* The active document, if it may still be read, and the focuses come first.  A failed
\* read of either (`.ok()`, `if let Ok`) is as if there were none.
Start(saves, reads, lists) ==
    /\ cxBuild.at = "idle" /\ cxCalls < MaxCxCalls
    /\ cxSnapshots' = IF saves THEN cxSnapshots + 1 ELSE cxSnapshots
    /\ LET w == cxWorld
           has == reads /\ w.active # NoCxDoc /\ Readable(w.active)
           shown == IF has THEN <<Block(w.active, cxDocs[w.active].size)>> ELSE <<>>
           focuses == IF lists /\ w.focuses THEN <<Block("focuses", 0)>> ELSE <<>>
           used == (IF has THEN cxDocs[w.active].size + CxHeader ELSE 0)
                     + (IF lists /\ w.focuses THEN CxFocuses ELSE 0)
           empty == [ at |-> "links", used |-> used, head |-> shown \o focuses, deps |-> <<>>, profiles |-> <<>>,
                      base |-> <<>>, omitted |-> {}, summed |-> {}, queue |-> <<>>, inspected |-> 0,
                      seen |-> IF has THEN {w.active} ELSE {}, limited |-> FALSE, next |-> 1, dirty |-> {},
                      unread |-> {}, ask |-> IF has THEN w.active ELSE NoCxDoc ]
       IN  cxBuild' = IF has THEN Enqueue(empty, cxDocs[w.active].links, w.active = w.policy) ELSE empty
    /\ cxCalls' = cxCalls + 1
    /\ UNCHANGED <<cxWorld, cxDocs, cxEdits>>

\* A linked document that may not be read leaves no trace, nor does one whose read
\* fails (`unread` is the model's own): its links are not followed either.
Visit(reads) ==
    /\ cxBuild.at = "links" /\ cxBuild.queue # <<>>
    /\ LET id == cxBuild.queue[1][1]
           trusted == cxBuild.queue[1][2]
           b == [cxBuild EXCEPT !.queue = Tail(@)]
           d == cxDocs[id]
           fits == d.size + CxHeader <= Left(b)
           more == IF fits THEN [b EXCEPT !.used = @ + d.size + CxHeader, !.deps = Append(@, Block(id, d.size))]
                   ELSE [b EXCEPT !.omitted = @ \cup {id}]
       IN  cxBuild' = IF ~reads THEN [b EXCEPT !.unread = @ \cup {id}]
                      ELSE IF d = NoCxDoc \/ (~trusted /\ ~Readable(id)) THEN b
                      ELSE Enqueue(more, LinksOf(d, fits), trusted)
    /\ UNCHANGED <<cxWorld, cxDocs, cxSnapshots, cxCalls, cxEdits>>

\* The profiles, of the seat and of the user: one whose read fails leaves no trace.
Profile(reads) ==
    /\ cxBuild.at = "links" /\ cxBuild.queue = <<>> /\ cxBuild.next <= Len(cxWorld.profiles)
    /\ LET p == cxWorld.profiles[cxBuild.next]
           b == [cxBuild EXCEPT !.next = @ + 1]
       IN  cxBuild' = IF reads THEN [b EXCEPT !.profiles = Append(@, p), !.used = @ + p.size]
                      ELSE [b EXCEPT !.unread = @ \cup {p.id}]
    /\ UNCHANGED <<cxWorld, cxDocs, cxSnapshots, cxCalls, cxEdits>>

Profiles ==
    /\ cxBuild.at = "links" /\ cxBuild.queue = <<>> /\ cxBuild.next > Len(cxWorld.profiles)
    /\ cxBuild' = [cxBuild EXCEPT !.at = "base", !.next = 1]
    /\ UNCHANGED <<cxWorld, cxDocs, cxSnapshots, cxCalls, cxEdits>>

\* A base document that is not there as a linked one already, if its read succeeds.
Base(include, reads) ==
    /\ cxBuild.at = "base" /\ cxBuild.next <= Len(CxBase)
    /\ LET id == CxBase[cxBuild.next]
           there == id = cxBuild.ask \/ \E i \in DOMAIN cxBuild.deps : cxBuild.deps[i].id = id
           b == [cxBuild EXCEPT !.next = @ + 1]
       IN  cxBuild' = IF ~include THEN [b EXCEPT !.next = Len(CxBase) + 1]
                      ELSE IF there \/ ~reads \/ ~Readable(id) THEN b
                      ELSE [b EXCEPT !.base = Append(@, Block(id, cxDocs[id].size)),
                                     !.used = @ + cxDocs[id].size]
    /\ UNCHANGED <<cxWorld, cxDocs, cxSnapshots, cxCalls, cxEdits>>

\* drop_while_overflow: the last block goes first, and is named.
Drop(x, kind) ==
    IF x.used <= Limit \/ x[kind] = <<>> THEN x
    ELSE [x EXCEPT !.used = Less(@, Last(x[kind]).size),
                   !.omitted = @ \cup {Last(x[kind]).id},
                   ![kind] = Front(@)]
Dropping(b, kind) ==
    LET left[k \in 0..Len(b[kind])] == IF k = 0 THEN b ELSE Drop(left[k - 1], kind)
    IN  left
Dropped(b, kind) == Dropping(b, kind)[Len(b[kind])]

Compress ==
    /\ cxBuild.at = "base" /\ cxBuild.next > Len(CxBase)
    /\ LET b == Dropped(Dropped(cxBuild, "profiles"), "base")
           blocks == b.head \o b.deps \o b.profiles \o b.base
       IN  cxBuild' = [b EXCEPT !.at = "model", !.deps = blocks, !.next = Len(blocks)]
    /\ UNCHANGED <<cxWorld, cxDocs, cxSnapshots, cxCalls, cxEdits>>

\* What is still too much is summarised from the end, if the model answers with less.
Summarise(size) ==
    /\ cxBuild.at = "model" /\ cxBuild.next > 0 /\ cxBuild.used > Limit
    /\ LET b == cxBuild.deps[cxBuild.next]
           budget == IF Limit \div 2 > CxLeast THEN Limit \div 2 ELSE CxLeast
       IN  cxBuild' = IF b.size <= budget \/ size >= b.size THEN [cxBuild EXCEPT !.next = @ - 1]
                      ELSE [cxBuild EXCEPT !.next = @ - 1, !.summed = @ \cup {b.id},
                              !.used = Less(@, b.size) + size,
                              !.deps[cxBuild.next] = [b EXCEPT !.size = size, !.whole = FALSE]]
    /\ UNCHANGED <<cxWorld, cxDocs, cxSnapshots, cxCalls, cxEdits>>

\* The warning names what was left out and what was summarised.
Answered ==
    /\ cxBuild.at = "model" /\ (cxBuild.next = 0 \/ cxBuild.used <= Limit)
    /\ cxBuild' = [cxBuild EXCEPT !.at = "answered"]
    /\ UNCHANGED <<cxWorld, cxDocs, cxSnapshots, cxCalls, cxEdits>>

Done ==
    /\ cxBuild.at = "answered" /\ cxBuild' = [at |-> "idle"]
    /\ UNCHANGED <<cxWorld, cxDocs, cxSnapshots, cxCalls, cxEdits>>

\* Another call changes a document, its owner or its links.
ChangeDocument(id, d) ==
    /\ cxEdits < MaxCxEdits /\ cxDocs[id] # d
    /\ cxEdits' = cxEdits + 1 /\ cxDocs' = [cxDocs EXCEPT ![id] = d]
    /\ cxBuild' = IF cxBuild.at = "idle" THEN cxBuild ELSE [cxBuild EXCEPT !.dirty = @ \cup {id}]
    /\ UNCHANGED <<cxWorld, cxSnapshots, cxCalls>>

\* set_seat_limit, whose value the next call takes.
ChangeLimit ==
    /\ cxBuild.at = "idle" /\ cxEdits < MaxCxEdits /\ cxEdits' = cxEdits + 1
    /\ cxWorld' = [cxWorld EXCEPT !.seatLimit = IF @ = 0 THEN 1 ELSE 0]
    /\ UNCHANGED <<cxDocs, cxBuild, cxSnapshots, cxCalls>>

CxInit ==
    \E w \in CxWorlds :
        /\ cxWorld = w.seat /\ cxDocs = w.docs
        /\ cxBuild = [at |-> "idle"] /\ cxSnapshots = 0 /\ cxCalls = 0 /\ cxEdits = 0

CxNext ==
    \/ \E saves, reads, lists \in BOOLEAN : Start(saves, reads, lists)
    \/ \E reads \in BOOLEAN : Visit(reads) \/ Profile(reads)
    \/ Profiles \/ Compress \/ Answered \/ Done \/ ChangeLimit
    \/ \E include, reads \in BOOLEAN : Base(include, reads)
    \/ \E size \in CxSizes : Summarise(size)
    \/ \E id \in CxDoc, d \in UNION {{x.docs[i] : i \in CxDoc} : x \in CxWorlds} : ChangeDocument(id, d)

CxSpec == CxInit /\ [][CxNext]_cxVars

----------------------------------------------------------------------------
(* Property *)

\* The documents that links lead to from the active one, if that was read, over documents
\* that the seat may read, whose read did not fail and that nobody has changed since the
\* call began: those in every set that holds the active one and, with a document, what it
\* links to.
Linked ==
    LET b == cxBuild
        Open(id) == Readable(id) /\ id \notin b.dirty \cup b.unread
        Closed(S) ==
            /\ b.ask \in CxDoc /\ Open(b.ask) => b.ask \in S
            /\ \A u \in S, id \in CxDoc :
                 Open(u) /\ Open(id) /\ (\E i \in DOMAIN cxDocs[u].links : cxDocs[u].links[i] = id) => id \in S
    IN  {id \in CxDoc : \A S \in SUBSET CxDoc : Closed(S) => id \in S}

\* "Warn the model about the compression (never silent)" (server.rs:1702): what the
\* seat's links reach over reads that succeed is answered whole or named as left out or
\* summarised, unless the warning says that not all links were followed; a profile that
\* is read likewise; and a document that may not be read, and no trusted chain leads to,
\* is not named.  Only compression is never silent: what a failed read leaves out, with
\* all that only it links to, is not named (server.rs:1455, 1561-1566, 1599-1603).
NothingSilent ==
    cxBuild.at = "answered" =>
        LET b == cxBuild
            whole == {b.deps[i].id : i \in {j \in DOMAIN b.deps : b.deps[j].whole}}
            named == b.omitted \cup b.summed
        IN  /\ b.limited \/ Linked \subseteq whole \cup named
            /\ \A i \in DOMAIN cxWorld.profiles : cxWorld.profiles[i].id \in whole \cup named \cup b.unread
            /\ cxWorld.policy = NoCxDoc =>
                 \A id \in CxDoc \cap (whole \cup named) : Readable(id) \/ id \in b.dirty
=============================================================================
