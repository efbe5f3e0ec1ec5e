------------------------------- MODULE Sampling --------------------------------
(***************************************************************************)
(* Reasoning done by the MCP client (crates/slc-core/src/llm.rs,           *)
(* McpSamplingLlm, and crates/slc-mcp/src/server.rs): a call registers     *)
(* itself, sends a request through a bounded channel to a forwarder, which *)
(* puts it on the broadcast channel of all event streams; each stream      *)
(* hands its seat's requests to its client; the client posts a reply.  The *)
(* call waits for it, for a minute, or is dropped by its own caller.       *)
(*                                                                         *)
(* ForwardHeard is a deliberate mistake.                                   *)
(***************************************************************************)
EXTENDS Naturals, Sequences, FiniteSets

CONSTANTS
    SmCaller,      \* calls in flight
    SmStream,      \* event streams
    SmSeatOf,      \* the seat of each caller and of each stream
    OutboundSize,  \* capacity of the channel to the forwarder
    BroadcastSize, \* events a stream may lag behind
    MaxSmCalls, MaxSmLinks    \* bounds: requests, streams opened or closed

ASSUME SamplingAssumption ==
    /\ OutboundSize \in Nat \ {0} /\ BroadcastSize \in Nat \ {0}
    /\ MaxSmCalls \in Nat /\ MaxSmLinks \in Nat

VARIABLES
    smJob,     \* where each call is
    awaited,   \* ids in the map of pending requests
    slot,      \* replies in the channels of capacity one, by id
    outbound,  \* requests on their way to the forwarder
    stream,    \* events an open stream has not taken yet; Closed when it is closed
    posting,   \* ids clients have received and are to reply to
    smCalls, smLinks

smVars == <<smJob, awaited, slot, outbound, stream, posting, smCalls, smLinks>>

SmIdle == [at |-> "idle", id |-> 0]
Closed == <<[id |-> 0, seat |-> 0]>>
Open(s) == stream[s] # Closed
SmGoes(c, where) == smJob' = [smJob EXCEPT ![c].at = where]

----------------------------------------------------------------------------
(* The call *)

SmInit ==
    /\ smJob = [c \in SmCaller |-> SmIdle]
    /\ awaited = {} /\ slot = {} /\ outbound = <<>> /\ posting = {}
    /\ stream = [s \in SmStream |-> Closed]
    /\ smCalls = 0 /\ smLinks = 0

\* reason_for: a fresh id, a channel of its own, the entry in the map.
Registers(c) ==
    /\ smJob[c] = SmIdle /\ smCalls < MaxSmCalls
    /\ smCalls' = smCalls + 1
    /\ smJob' = [smJob EXCEPT ![c] = [at |-> "send", id |-> smCalls + 1]]
    /\ awaited' = awaited \cup {smCalls + 1}
    /\ UNCHANGED <<slot, outbound, stream, posting, smLinks>>

\* Waits for room in the channel; this wait has no time limit.
Sends(c) ==
    /\ smJob[c].at = "send" /\ Len(outbound) < OutboundSize
    /\ outbound' = Append(outbound, [id |-> smJob[c].id, seat |-> SmSeatOf[c]])
    /\ SmGoes(c, "wait")
    /\ UNCHANGED <<awaited, slot, stream, posting, smCalls, smLinks>>

\* PendingGuard: on every exit the entry is removed, and then the channel.
Dropped(id) == awaited' = awaited \ {id} /\ slot' = slot \ {id}

Answered(c) ==
    /\ smJob[c].at = "wait" /\ smJob[c].id \in slot
    /\ slot' = slot \ {smJob[c].id}
    /\ smJob' = [smJob EXCEPT ![c] = SmIdle]
    /\ UNCHANGED <<awaited, outbound, stream, posting, smCalls, smLinks>>

\* After a minute; a reply that is there already is taken first.
TimesOut(c) ==
    /\ smJob[c].at = "wait" /\ smJob[c].id \notin slot
    /\ Dropped(smJob[c].id)
    /\ smJob' = [smJob EXCEPT ![c] = SmIdle]
    /\ UNCHANGED <<outbound, stream, posting, smCalls, smLinks>>

\* The caller's own connection breaks: the call is dropped where it waits.
Abandoned(c) ==
    /\ smJob[c] # SmIdle
    /\ Dropped(smJob[c].id)
    /\ smJob' = [smJob EXCEPT ![c] = SmIdle]
    /\ UNCHANGED <<outbound, stream, posting, smCalls, smLinks>>

----------------------------------------------------------------------------
(* The streams *)

\* A stream that lags misses the oldest events.
Publish(e) == stream' = [s \in SmStream |->
    IF ~Open(s) THEN Closed
    ELSE IF Len(stream[s]) = BroadcastSize THEN Append(Tail(stream[s]), e) ELSE Append(stream[s], e)]

ForwardHeard ==
    /\ \E s \in SmStream : Open(s)
    /\ Publish(Head(outbound)) /\ outbound' = Tail(outbound)

\* An event that no stream is there for is dropped.
Forwarded == Publish(Head(outbound)) /\ outbound' = Tail(outbound)
Forwards ==
    /\ outbound # <<>> /\ Forwarded
    /\ UNCHANGED <<smJob, awaited, slot, posting, smCalls, smLinks>>

\* A client opens a stream, which shows it what is published from then on.
Opens(s) ==
    /\ ~Open(s) /\ smLinks < MaxSmLinks /\ smLinks' = smLinks + 1
    /\ stream' = [stream EXCEPT ![s] = <<>>]
    /\ UNCHANGED <<smJob, awaited, slot, outbound, posting, smCalls>>
Closes(s) ==
    /\ Open(s) /\ smLinks < MaxSmLinks /\ smLinks' = smLinks + 1
    /\ stream' = [stream EXCEPT ![s] = Closed]
    /\ UNCHANGED <<smJob, awaited, slot, outbound, posting, smCalls>>

\* An event goes to the streams of its seat only.
Addressed(e, s) == e.seat = SmSeatOf[s]

Shown(s) ==
    /\ Open(s) /\ stream[s] # <<>>
    /\ stream' = [stream EXCEPT ![s] = Tail(@)]
    /\ posting' = posting \cup
          (IF Addressed(Head(stream[s]), s) THEN {[id |-> Head(stream[s]).id, by |-> s]} ELSE {})
    /\ UNCHANGED <<smJob, awaited, slot, outbound, smCalls, smLinks>>

\* A reply resolves a request that still waits; any other is refused.  An error
\* of the client resolves it too, with an empty text.
Replies(p) ==
    /\ p \in posting /\ posting' = posting \ {p}
    /\ awaited' = awaited \ {p.id}
    /\ slot' = IF p.id \in awaited THEN slot \cup {p.id} ELSE slot
    /\ UNCHANGED <<smJob, outbound, stream, smCalls, smLinks>>

----------------------------------------------------------------------------

SmNext ==
    \/ \E c \in SmCaller : Registers(c) \/ Sends(c) \/ Answered(c) \/ TimesOut(c) \/ Abandoned(c)
    \/ \E s \in SmStream : Opens(s) \/ Closes(s) \/ Shown(s)
    \/ \E p \in posting : Replies(p)
    \/ Forwards

SmSpec == SmInit /\ [][SmNext]_smVars

\* The forwarder is a task of its own and never waits for a stream; a call is
\* polled when there is room, a reply or the minute is over.  Nothing is asked
\* of clients.
SmFair ==
    /\ WF_smVars(Forwards)
    /\ \A c \in SmCaller : WF_smVars(Sends(c)) /\ WF_smVars(Answered(c) \/ TimesOut(c))

----------------------------------------------------------------------------
(* Properties *)

\* A call ends, whether clients listen, answer, or stay away.
SamplingEnds == \A c \in SmCaller : [](smJob[c] # SmIdle => <>(smJob[c] = SmIdle))
=============================================================================
