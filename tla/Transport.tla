------------------------------ MODULE Transport -------------------------------
(***************************************************************************)
(* JSON-RPC over HTTP (crates/slc-mcp/src/server.rs: sse_endpoint,         *)
(* messages, mcp, mcp_request; crates/slc-core/src/auth.rs).  A client     *)
(* posts to /messages, where an answer goes to the event streams of its    *)
(* seat and into the body as well, or to /mcp, where it is in the body     *)
(* only.  All streams hang on one broadcast channel that keeps the last    *)
(* events; each hands on those of its seat.                                *)
(*                                                                         *)
(* What a tool does is in the other modules; here it may put one event on  *)
(* the channel.  Numbers are the ids of a client's requests: clients of    *)
(* different seats use the same ones.  EverySeat is a deliberate mistake.  *)
(***************************************************************************)
EXTENDS Naturals, Sequences

CONSTANTS
    TrClient, TrSeat,
    NoSeat,        \* no header, no parameter
    TrSettings,    \* the mode of the server and what each client is like, one of them
                   \* in each behaviour, with the bounds: posts of a client, streams
                   \* opened and closed, letters, faults
    TrLag          \* events the channel keeps

TrWants ==
    [ header : TrSeat \cup {NoSeat}, query : TrSeat \cup {NoSeat}, tokens : SUBSET TrSeat,
      route : {"messages", "mcp"}, reads : BOOLEAN, kinds : SUBSET {"open", "call", "reply"},
      base : Nat, posts : Nat ]

ASSUME TransportAssumption ==
    /\ TrSettings \subseteq [ mode : {"legacy", "bearer", "embedded"}, clients : [TrClient -> TrWants],
                              links : Nat, letters : Nat, faults : Nat ]
    /\ TrLag \in Nat \ {0} /\ NoSeat \notin TrSeat

\* The ids a client gives its requests, and the seat it names to the stream.
Numbers(client) == client.base + 1 .. client.base + client.posts
SeatOf(client) == IF client.header # NoSeat THEN client.header ELSE client.query

\* Clients that hear of the same seat number their requests apart: an answer names
\* the seat and the id of its request, and nothing else.
ASSUME NumbersApart ==
    \A x \in TrSettings : \A c, d \in TrClient :
        c # d /\ x.clients[d].header = SeatOf(x.clients[c])
            => Numbers(x.clients[c]) \cap Numbers(x.clients[d]) = {}

VARIABLES
    trSetting,
    trSession,    \* clients that have been given a session
    trLink,       \* each client's stream, with the events it has not handed on
    trCalls,      \* requests in progress
    trPending,    \* ids each client waits for
    trTaken,      \* the answers each client has taken for its requests
    trOwed,       \* ids of requests posted under an open stream, until it shows or loses the answer
    trPosts, trLinks, trLetters, trFaults

trVars == <<trSetting, trSession, trLink, trCalls, trPending, trTaken, trOwed,
            trPosts, trLinks, trLetters, trFaults>>
trBounds == <<trSetting, trPosts, trLinks, trLetters, trFaults>>

NoLink == [open |-> FALSE, told |-> FALSE, queue |-> <<>>]
Client(c) == trSetting.clients[c]
Header(c) == Client(c).header
Streamed(c) == Client(c).route = "messages"    \* it posts to /messages

\* X-Seat-ID, or ?seat= without it.
StreamSeat(c) == SeatOf(Client(c))

\* authenticate: a seat, and with "bearer" a token that is bound to it (or to all).
authenticate(c, seat) ==
    /\ seat # NoSeat
    /\ trSetting.mode = "bearer" => seat \in Client(c).tokens

----------------------------------------------------------------------------
(* Streams *)

EverySeat(e, c) == TRUE

\* seat_matches_event
Addressed(e, c) == e.seat = StreamSeat(c)

Hangs(c) == trLink[c].open

\* Each open stream gets the event; one that has not kept up loses the oldest.
Lags(c) == Hangs(c) /\ Len(trLink[c].queue) = TrLag
Publish(e) ==
    /\ trLink' = [c \in TrClient |->
          IF ~Hangs(c) THEN trLink[c]
          ELSE [trLink[c] EXCEPT !.queue = Append(IF Lags(c) THEN Tail(@) ELSE @, e)]]
    /\ trOwed' = [c \in TrClient |->
          IF Lags(c) /\ Addressed(Head(trLink[c].queue), c)
          THEN trOwed[c] \ {Head(trLink[c].queue).id} ELSE trOwed[c]]

\* sse_endpoint hangs the stream on the channel
OpensStream(c) ==
    /\ ~Hangs(c) /\ trLinks < trSetting.links
    /\ trSetting.mode = "bearer" => authenticate(c, StreamSeat(c))
    /\ Streamed(c) \/ c \in trSession
    /\ trLinks' = trLinks + 1
    /\ trLink' = [trLink EXCEPT ![c].open = TRUE]
    /\ UNCHANGED <<trSetting, trSession, trCalls, trPending, trTaken, trOwed, trPosts, trLetters, trFaults>>

\* before it tells the client where to post.
TellsEndpoint(c) ==
    /\ Hangs(c) /\ ~trLink[c].told
    /\ trLink' = [trLink EXCEPT ![c].told = TRUE]
    /\ UNCHANGED <<trSession, trCalls, trPending, trTaken, trOwed, trBounds>>

\* A client takes an answer to what it waits for and ignores any other.
TakesAnswer(c, answer) ==
    /\ trPending' = [trPending EXCEPT ![c] = @ \ {answer.id}]
    /\ trTaken' = IF answer.id \in trPending[c] THEN [trTaken EXCEPT ![c] = @ \cup {answer}] ELSE trTaken

\* sse_delivery: an answer is handed on as it is, anything else as a notification.
ShowsEvent(c) ==
    /\ trLink[c].told /\ trLink[c].queue # <<>>
    /\ trLink' = [trLink EXCEPT ![c].queue = Tail(@)]
    /\ LET e == Head(trLink[c].queue)
       IN  IF Addressed(e, c) /\ e.type = "rpc_response"
           THEN TakesAnswer(c, e.answer) /\ trOwed' = [trOwed EXCEPT ![c] = @ \ {e.id}]
           ELSE UNCHANGED <<trPending, trTaken, trOwed>>
    /\ UNCHANGED <<trSession, trCalls, trBounds>>

ClosesStream(c) ==
    /\ Hangs(c) /\ trLinks < trSetting.links /\ trLinks' = trLinks + 1
    /\ trLink' = [trLink EXCEPT ![c] = NoLink] /\ trOwed' = [trOwed EXCEPT ![c] = {}]
    /\ UNCHANGED <<trSetting, trSession, trCalls, trPending, trTaken, trPosts, trLetters, trFaults>>

----------------------------------------------------------------------------
(* Requests *)

\* "open" are initialize, ping and the lists; "call" is a tool call; "reply" a client's
\* answer to a request of the server.  A legacy client waits to be told where to post.
PostsRequest(c, kind) ==
    /\ trPosts[c] < Client(c).posts /\ kind \in Client(c).kinds
    /\ Client(c).reads \/ trLink[c].told
    /\ LET id == Client(c).base + trPosts[c] + 1
       IN  /\ trCalls' = trCalls \cup {[by |-> c, id |-> id, kind |-> kind, at |-> "enter"]}
           /\ trPending' = IF kind = "reply" THEN trPending ELSE [trPending EXCEPT ![c] = @ \cup {id}]
           /\ trOwed' = IF Streamed(c) /\ trLink[c].told /\ Header(c) = StreamSeat(c) /\ kind # "reply"
                        THEN [trOwed EXCEPT ![c] = @ \cup {id}] ELSE trOwed
    /\ trPosts' = [trPosts EXCEPT ![c] = @ + 1]
    /\ UNCHANGED <<trSetting, trSession, trLink, trTaken, trLinks, trLetters, trFaults>>

CallGoes(x, where) == trCalls' = (trCalls \ {x}) \cup {[x EXCEPT !.at = where]}

\* mcp_request: what is not open to everybody needs a seat; a refusal is an answer too.
EntersRequest(x) ==
    /\ x.at = "enter"
    /\ CallGoes(x, IF x.kind # "open" /\ authenticate(x.by, Header(x.by)) THEN "run" ELSE "answer")
    /\ UNCHANGED <<trSession, trLink, trPending, trTaken, trOwed, trBounds>>

\* call_tool, with an event for some seat or without one; a reply that nothing waits for is
\* an unknown method, any other ends here with an empty body.
RunsTool(x, to) ==
    /\ x.at = "run"
    /\ x.kind = "call" => CallGoes(x, "answer")
    /\ x.kind = "reply" => CallGoes(x, "answer") \/ CallGoes(x, "body")
    /\ \/ to = NoSeat /\ UNCHANGED <<trLink, trOwed, trLetters>>
       \/ /\ to # NoSeat /\ x.kind = "call" /\ trLetters < trSetting.letters
          /\ trLetters' = trLetters + 1
          /\ Publish([type |-> "letter", seat |-> to, id |-> 0])
    /\ UNCHANGED <<trSetting, trSession, trPending, trTaken, trPosts, trLinks, trFaults>>

\* messages: the answer goes on the channel, for the seat of the header,
PublishesAnswer(x) ==
    /\ x.at = "answer" /\ Streamed(x.by)
    /\ CallGoes(x, "body")
    /\ Publish([type |-> "rpc_response", seat |-> Header(x.by), id |-> x.id,
                answer |-> [by |-> x.by, id |-> x.id]])
    /\ UNCHANGED <<trSession, trPending, trTaken, trBounds>>

\* and into the body.  mcp: initialize is given a session.
AnswersRequest(x) ==
    /\ x.at = "body" \/ (x.at = "answer" /\ ~Streamed(x.by))
    /\ trCalls' = trCalls \ {x}
    /\ trSession' = IF x.kind = "open" /\ ~Streamed(x.by) THEN trSession \cup {x.by} ELSE trSession
    /\ IF Client(x.by).reads THEN TakesAnswer(x.by, [by |-> x.by, id |-> x.id]) ELSE UNCHANGED <<trPending, trTaken>>
    /\ UNCHANGED <<trLink, trOwed, trBounds>>

\* A connection breaks: its handler is dropped where it waits.
BreaksRequest(x) ==
    /\ trFaults < trSetting.faults /\ trFaults' = trFaults + 1
    /\ trCalls' = trCalls \ {x}
    /\ trPending' = [trPending EXCEPT ![x.by] = @ \ {x.id}]
    /\ trOwed' = IF x.at = "body" THEN trOwed ELSE [trOwed EXCEPT ![x.by] = @ \ {x.id}]
    /\ UNCHANGED <<trSetting, trSession, trLink, trTaken, trPosts, trLinks, trLetters>>

RestartTransport ==
    /\ trFaults < trSetting.faults /\ trFaults' = trFaults + 1
    /\ trLink' = [c \in TrClient |-> NoLink] /\ trCalls' = {}
    /\ trPending' = [c \in TrClient |-> {}] /\ trOwed' = [c \in TrClient |-> {}]
    /\ UNCHANGED <<trSetting, trSession, trTaken, trPosts, trLinks, trLetters>>

----------------------------------------------------------------------------

TrInit ==
    /\ trSetting \in TrSettings
    /\ trSession = {} /\ trCalls = {}
    /\ trLink = [c \in TrClient |-> NoLink]
    /\ trPending = [c \in TrClient |-> {}] /\ trTaken = [c \in TrClient |-> {}]
    /\ trOwed = [c \in TrClient |-> {}]
    /\ trPosts = [c \in TrClient |-> 0] /\ trLinks = 0 /\ trLetters = 0 /\ trFaults = 0

TrNext ==
    \/ \E c \in TrClient :
         \/ OpensStream(c) \/ TellsEndpoint(c) \/ ShowsEvent(c) \/ ClosesStream(c)
         \/ \E kind \in {"open", "call", "reply"} : PostsRequest(c, kind)
    \/ \E x \in trCalls :
         \/ EntersRequest(x) \/ PublishesAnswer(x) \/ AnswersRequest(x) \/ BreaksRequest(x)
         \/ \E to \in TrSeat \cup {NoSeat} : RunsTool(x, to)
    \/ RestartTransport

TrSpec == TrInit /\ [][TrNext]_trVars

----------------------------------------------------------------------------
(* Property *)

\* What a client takes for an answer to its request is one, although clients of other
\* seats number theirs alike ("Deny-by-default", seat_matches_event).  And an answer that
\* a client was told to expect on its stream is being worked out or is on the stream,
\* whatever is refused, breaks or is closed around it, unless the channel has dropped
\* it: between the subscription and the post nothing is missed ("legacy-SSE clients ignore
\* the POST body and await the response there", messages).
AnswersFind ==
    \A c \in TrClient :
      /\ \A answer \in trTaken[c] : answer.by = c
      /\ \A id \in trOwed[c] :
           \/ \E x \in trCalls : x.by = c /\ x.id = id /\ x.at # "body"
           \/ \E i \in 1 .. Len(trLink[c].queue) :
                LET e == trLink[c].queue[i]
                IN  e.type = "rpc_response" /\ e.answer.by = c /\ e.id = id /\ Addressed(e, c)
=============================================================================
