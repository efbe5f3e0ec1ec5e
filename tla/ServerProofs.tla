---------------------------- MODULE ServerProofs ----------------------------
(***************************************************************************)
(* What the server promises a caller, for any callers, calls and faults: an*)
(* answer finds the client that asked for it, a delegated root keeps one   *)
(* task per identity, only the first task of a lane is woken, a report that*)
(* wakes nobody is seen by who polls, and what an answered request stored  *)
(* of users and rules stays in the files.                                  *)
(***************************************************************************)
EXTENDS FiniteSetTheorems, WellFoundedInduction, Transport, Delegation, Accounts, TLAPS

\* A set of numbers that has one has a least one.
LEMMA Least == ASSUME NEW S \in SUBSET Nat, S # {} PROVE \E n \in S : \A m \in S : n <= m
<1> DEFINE R == {ss \in Nat \X Nat : ss[1] < ss[2]}
<1>1. R = OpToRel(<, Nat)
  BY DEF OpToRel
<1>2. IsWellFoundedOn(R, Nat)
  BY <1>1, NatLessThanWellFounded
<1>3. \A m, n \in Nat : m < n => <<m, n>> \in R
  OBVIOUS
<1> HIDE DEF R
<1>4. PICK n \in S : \A m \in S : ~(<<m, n>> \in R)
  BY <1>2, WFMin
<1>5. \A m \in S : ~(m < n)
  BY <1>3, <1>4
<1> QED BY <1>5

----------------------------------------------------------------------------
(* Transport *)

TrCall == [by : TrClient, id : Nat, kind : {"open", "call", "reply"}, at : {"enter", "run", "answer", "body"}]
Letter == [type : {"letter"}, seat : TrSeat, id : {0}]
Response == [type : {"rpc_response"}, seat : TrSeat \cup {NoSeat}, id : Nat,
             answer : [by : TrClient, id : Nat]]

\* The client numbers its requests so.
Given(c, id) == id \in Numbers(Client(c))

\* What the channel carries: letters, and answers for the seat of their request.
Events == Letter \cup {e \in Response : /\ e.id = e.answer.id /\ e.seat = Header(e.answer.by)
                                        /\ Given(e.answer.by, e.id)}

Answering(c, id) ==
    {e \in Events : e.type = "rpc_response" /\ e.answer.by = c /\ e.id = id /\ Addressed(e, c)}

Link(c) ==
    /\ trLink[c] \in [open : BOOLEAN, told : BOOLEAN, queue : Seq(Events)]
    /\ trLink[c].told => trLink[c].open

\* An answer that is expected on the stream, and is not there yet or is.
Coming(c, id) == \E x \in trCalls : x.by = c /\ x.id = id /\ x.at # "body" /\ x.kind # "reply"
InQueue(c, id) == \E i \in 1 .. Len(trLink[c].queue) : trLink[c].queue[i] \in Answering(c, id)

Owed(c) ==
    /\ trOwed[c] # {} => Hangs(c) /\ Streamed(c) /\ Header(c) = StreamSeat(c)
    /\ \A id \in trOwed[c] : Coming(c, id) \/ InQueue(c, id)

\* Only what is not open to everybody reaches a tool.
CallOK(x) == Given(x.by, x.id) /\ (x.at = "run" => x.kind # "open")

TrKnown(c) ==
    /\ \A id \in trPending[c] : Given(c, id)
    /\ \A answer \in trTaken[c] : answer.by = c

TrTypes ==
    /\ trSetting \in TrSettings /\ trPosts \in [TrClient -> Nat]
    /\ trLink = [c \in TrClient |-> trLink[c]] /\ trTaken = [c \in TrClient |-> trTaken[c]]
    /\ trOwed = [c \in TrClient |-> trOwed[c]] /\ trPending = [c \in TrClient |-> trPending[c]]
    /\ trCalls \subseteq TrCall
    /\ \A x \in trCalls : CallOK(x)

TrInv == TrTypes /\ \A c \in TrClient : TrKnown(c) /\ Link(c) /\ Owed(c)

LEMMA SettingType ==
    ASSUME trSetting \in TrSettings
    PROVE  /\ trSetting.clients \in [TrClient -> TrWants]
           /\ \A c \in TrClient : /\ Client(c) \in TrWants /\ Client(c).base \in Nat /\ Client(c).posts \in Nat
                                  /\ Header(c) \in TrSeat \cup {NoSeat}
                                  /\ \A id : Given(c, id) => id \in Nat
<1>1. trSetting.clients \in [TrClient -> TrWants]
  BY TransportAssumption
<1>2. \A c \in TrClient : Client(c) \in TrWants
  BY <1>1 DEF Client
<1>3. \A c \in TrClient : /\ Client(c).base \in Nat /\ Client(c).posts \in Nat
                          /\ Client(c).header \in TrSeat \cup {NoSeat}
  BY <1>2 DEF TrWants
<1> QED BY <1>1, <1>2, <1>3 DEF Given, Numbers, Header

LEMMA SettingKept ==
    ASSUME trSetting' = trSetting
    PROVE  /\ Events' = Events /\ \A c, id : Answering(c, id)' = Answering(c, id)
           /\ \A c, id : Given(c, id)' = Given(c, id)
           /\ \A c : /\ Streamed(c)' = Streamed(c) /\ Header(c)' = Header(c)
                     /\ StreamSeat(c)' = StreamSeat(c)
<1>1. /\ \A c, id : Given(c, id)' = Given(c, id)
      /\ \A c : /\ Streamed(c)' = Streamed(c) /\ Header(c)' = Header(c)
                /\ StreamSeat(c)' = StreamSeat(c)
  BY DEF Given, Client, Streamed, Header, StreamSeat
<1>2. Events' = Events
  BY DEF Events, Given, Header, Client
<1>3. \A c, id : Answering(c, id)' = Answering(c, id)
  BY <1>1, <1>2 DEF Answering, Addressed
<1> QED BY <1>1, <1>2, <1>3

\* An event is put behind those of a stream, and pushes out the oldest at most.
LEMMA Pushed ==
    ASSUME NEW S, NEW q \in Seq(S), NEW e \in S, NEW r, r = Append(q, e)
    PROVE  /\ r \in Seq(S) /\ Len(r) > 0 /\ r[Len(r)] = e
           /\ \A i \in 1 .. Len(q) : \E j \in 1 .. Len(r) : r[j] = q[i]
<1>1. r \in Seq(S) /\ Len(r) = Len(q) + 1 /\ r[Len(r)] = e /\ \A i \in 1 .. Len(q) : r[i] = q[i]
  OBVIOUS
<1> QED BY <1>1

LEMMA Shifted ==
    ASSUME NEW S, NEW q \in Seq(S), NEW e \in S, Len(q) > 0, NEW r, r = Append(Tail(q), e)
    PROVE  /\ r \in Seq(S) /\ Len(r) > 0 /\ r[Len(r)] = e
           /\ \A i \in 1 .. Len(q) : q[i] = Head(q) \/ \E j \in 1 .. Len(r) : r[j] = q[i]
<1> DEFINE t == Tail(q)
<1>1. t \in Seq(S) /\ Len(t) = Len(q) - 1 /\ \A i \in 1 .. Len(t) : t[i] = q[i + 1]
  OBVIOUS
<1>2. r = Append(t, e) /\ Head(q) = q[1]
  OBVIOUS
<1> HIDE DEF t
<1>3. /\ r \in Seq(S) /\ Len(r) > 0 /\ r[Len(r)] = e
      /\ \A i \in 1 .. Len(t) : \E j \in 1 .. Len(r) : r[j] = t[i]
  BY <1>1, <1>2, Pushed, SMTT(30)
<1>4. ASSUME NEW i \in 1 .. Len(q), i # 1 PROVE \E j \in 1 .. Len(r) : r[j] = q[i]
  <2>1. i - 1 \in 1 .. Len(t)
    BY <1>1, <1>4
  <2>2. t[i - 1] = q[i]
    BY <1>1, <2>1
  <2> QED BY <1>3, <2>1, <2>2
<1> QED BY <1>2, <1>3, <1>4

LEMMA PublishLinks ==
    ASSUME TrInv, trSetting' = trSetting, NEW e \in Events, Publish(e), NEW c \in TrClient
    PROVE  /\ trLink' = [k \in TrClient |-> trLink'[k]] /\ trOwed' = [k \in TrClient |-> trOwed'[k]]
           /\ Link(c)' /\ trOwed'[c] \subseteq trOwed[c] /\ Hangs(c)' = Hangs(c)
           /\ \A id \in trOwed'[c] : InQueue(c, id) => InQueue(c, id)'
           /\ Hangs(c) => trLink'[c].queue[Len(trLink'[c].queue)] = e /\ Len(trLink'[c].queue) > 0
<1> DEFINE q == trLink[c].queue
           r == Append(IF Lags(c) THEN Tail(q) ELSE q, e)
<1>1. /\ trLink[c] \in [open : BOOLEAN, told : BOOLEAN, queue : Seq(Events)]
      /\ q \in Seq(Events) /\ (trLink[c].told => trLink[c].open) /\ Lags(c) \in BOOLEAN
  BY DEF TrInv, Link, Lags, Hangs
<1>2. Lags(c) => Len(q) > 0
  BY TransportAssumption DEF Lags
<1>3. /\ r \in Seq(Events) /\ Len(r) > 0 /\ r[Len(r)] = e
      /\ \A i \in 1 .. Len(q) : (Lags(c) /\ q[i] = Head(q)) \/ \E j \in 1 .. Len(r) : r[j] = q[i]
  <2>1. Lags(c) => r = Append(Tail(q), e)
    OBVIOUS
  <2>2. ~Lags(c) => r = Append(q, e)
    OBVIOUS
  <2>3. q \in Seq(Events)
    BY <1>1
  <2> HIDE DEF q, r
  <2> QED BY <1>2, <2>1, <2>2, <2>3, Pushed, Shifted
<1>4. trLink'[c] = IF ~Hangs(c) THEN trLink[c] ELSE [trLink[c] EXCEPT !.queue = r]
  BY DEF Publish
<1>5. trOwed'[c] = IF Lags(c) /\ Addressed(Head(q), c) THEN trOwed[c] \ {Head(q).id} ELSE trOwed[c]
  BY DEF Publish
<1>6. ~Hangs(c) => trLink'[c] = trLink[c] /\ ~Lags(c)
  BY <1>4 DEF Lags
<1>7. Hangs(c) => /\ trLink'[c].queue = r /\ trLink'[c].open = trLink[c].open
                  /\ trLink'[c].told = trLink[c].told
                  /\ trLink'[c] \in [open : BOOLEAN, told : BOOLEAN, queue : Seq(Events)]
  <2> HIDE DEF r
  <2> QED BY <1>1, <1>3, <1>4
<1>8. Link(c)' /\ Hangs(c)' = Hangs(c)
  BY <1>1, <1>6, <1>7, SettingKept DEF Link, Hangs
<1>9. ASSUME NEW id \in trOwed'[c], InQueue(c, id) PROVE InQueue(c, id)'
  <2>1. PICK i \in 1 .. Len(q) : q[i] \in Answering(c, id)
    BY <1>9 DEF InQueue
  <2>2. CASE ~Hangs(c)
    BY <1>6, <1>9, <2>2, SettingKept DEF InQueue
  <2>3. CASE Hangs(c)
    <3>1. ~(Lags(c) /\ q[i] = Head(q))
      BY <1>5, <1>9, <2>1 DEF Answering
    <3>2. PICK j \in 1 .. Len(r) : r[j] = q[i]
      BY <1>3, <3>1
    <3>3. trLink'[c].queue[j] \in Answering(c, id) /\ j \in 1 .. Len(trLink'[c].queue)
      BY <1>7, <2>1, <2>3, <3>2
    <3> HIDE DEF q, r
    <3> QED BY <3>3, SettingKept DEF InQueue
  <2> QED BY <2>2, <2>3
<1>10. trLink' = [k \in TrClient |-> trLink'[k]] /\ trOwed' = [k \in TrClient |-> trOwed'[k]]
  BY DEF Publish
<1> HIDE DEF q, r
<1> QED BY <1>3, <1>5, <1>7, <1>8, <1>9, <1>10
\* What a client takes is an answer to its own request, if the answer is for its seat.
LEMMA AnswerTaken ==
    ASSUME TrInv, trSetting' = trSetting, NEW c \in TrClient, NEW answer, TakesAnswer(c, answer),
           answer.by \in TrClient, Given(answer.by, answer.id),
           answer.by = c \/ Header(answer.by) = StreamSeat(c)
    PROVE  /\ \A k \in TrClient : TrKnown(k)'
           /\ trTaken' = [k \in TrClient |-> trTaken'[k]]
           /\ trPending' = [k \in TrClient |-> trPending'[k]]
<1>1. /\ trPending' = [trPending EXCEPT ![c] = @ \ {answer.id}]
      /\ trTaken' = IF answer.id \in trPending[c] THEN [trTaken EXCEPT ![c] = @ \cup {answer}] ELSE trTaken
  BY DEF TakesAnswer
<1>2. answer.id \in trPending[c] => answer.by = c
  <2> SUFFICES ASSUME answer.id \in trPending[c], answer.by # c PROVE FALSE
    OBVIOUS
  <2>1. trSetting \in TrSettings /\ Given(c, answer.id)
    BY DEF TrInv, TrTypes, TrKnown
  <2>2. trSetting.clients[answer.by].header = SeatOf(trSetting.clients[c])
    BY DEF Header, StreamSeat, Client
  <2>3. Numbers(trSetting.clients[c]) \cap Numbers(trSetting.clients[answer.by]) = {}
    BY <2>1, <2>2, NumbersApart
  <2> QED BY <2>1, <2>3 DEF Given, Client
<1>3. ASSUME NEW k \in TrClient PROVE TrKnown(k)'
  <2>1. \A id \in trPending'[k] : id \in trPending[k]
    BY <1>1 DEF TrInv, TrTypes
  <2>2. \A x \in trTaken'[k] : x \in trTaken[k] \/ x.by = k
    BY <1>1, <1>2 DEF TrInv, TrTypes
  <2> QED BY <2>1, <2>2, SettingKept DEF TrInv, TrKnown
<1>4. /\ trTaken' = [k \in TrClient |-> trTaken'[k]]
      /\ trPending' = [k \in TrClient |-> trPending'[k]]
  BY <1>1 DEF TrInv, TrTypes
<1> QED BY <1>3, <1>4

LEMMA TrGoes ==
    ASSUME TrInv, trSetting' = trSetting, NEW x \in trCalls,
           NEW where \in {"run", "answer", "body"}, CallGoes(x, where),
           where = "run" => x.kind # "open"
    PROVE  /\ trCalls' \subseteq TrCall /\ \A y \in trCalls' : CallOK(y)'
           /\ \A c \in TrClient, id \in Nat :
                 /\ Coming(c, id)
                 /\ where = "body" => x.kind = "reply" \/ x.by # c \/ x.id # id
                 => Coming(c, id)'
<1> DEFINE z == [x EXCEPT !.at = where]
<1>1. x \in TrCall /\ CallOK(x)
  BY DEF TrInv, TrTypes
<1>2. z \in TrCall /\ z.by = x.by /\ z.id = x.id /\ z.kind = x.kind /\ z.at = where
  BY <1>1 DEF TrCall
<1>3. trCalls' = (trCalls \ {x}) \cup {z}
  BY DEF CallGoes
<1> HIDE DEF z
<1>4. \A y \in trCalls' : CallOK(y)'
  <2>1. \A y \in trCalls' : CallOK(y)
    BY <1>1, <1>2, <1>3 DEF TrInv, TrTypes, CallOK
  <2> QED BY <2>1, SettingKept DEF CallOK
<1>5. ASSUME NEW c \in TrClient, NEW id \in Nat, Coming(c, id),
             where = "body" => x.kind = "reply" \/ x.by # c \/ x.id # id
      PROVE  Coming(c, id)'
  <2>1. PICK y \in trCalls : y.by = c /\ y.id = id /\ y.at # "body" /\ y.kind # "reply"
    BY <1>5 DEF Coming
  <2> QED BY <1>2, <1>3, <1>5, <2>1 DEF Coming
<1> QED BY <1>1, <1>2, <1>3, <1>4, <1>5 DEF TrInv, TrTypes

LEMMA OwedIds == ASSUME TrInv, NEW c \in TrClient, NEW id \in trOwed[c] PROVE id \in Nat
<1>1. Coming(c, id) => id \in Nat
  BY DEF Coming, TrInv, TrTypes, TrCall
<1>2. InQueue(c, id) => id \in Nat
  <2>1. \A e \in Answering(c, id) : id \in Nat
    BY DEF Answering, Events, Letter, Response
  <2> QED BY <2>1 DEF InQueue
<1> QED BY <1>1, <1>2 DEF TrInv, Owed

\* Nothing happens on a stream, to what is expected there, or to the answers taken.
LEMMA StreamsKept ==
    ASSUME TrInv, trSetting' = trSetting, trLink' = trLink, trOwed' = trOwed,
           \A c \in TrClient, id \in Nat : id \in trOwed[c] /\ Coming(c, id) => Coming(c, id)' \/ InQueue(c, id)
    PROVE  \A c \in TrClient : Link(c)' /\ Owed(c)'
<1> SUFFICES ASSUME NEW c \in TrClient PROVE Link(c)' /\ Owed(c)'
  OBVIOUS
<1>1. Link(c)'
  BY SettingKept DEF TrInv, Link
<1>2. \A id : InQueue(c, id)' = InQueue(c, id)
  BY SettingKept DEF InQueue
<1>3. \A id \in trOwed'[c] : Coming(c, id)' \/ InQueue(c, id)'
  BY <1>2, OwedIds DEF TrInv, Owed
<1>4. trOwed'[c] # {} => Hangs(c)' /\ Streamed(c)' /\ Header(c)' = StreamSeat(c)'
  BY SettingKept DEF TrInv, Owed, Hangs
<1> QED BY <1>1, <1>3, <1>4 DEF Owed

LEMMA KnownKept ==
    ASSUME TrInv, trSetting' = trSetting, trTaken' = trTaken, trPending' = trPending
    PROVE  \A c \in TrClient : TrKnown(c)'
  BY SettingKept DEF TrInv, TrKnown

LEMMA CallsKept ==
    ASSUME TrInv, trSetting' = trSetting, trCalls' \subseteq trCalls
    PROVE  trCalls' \subseteq TrCall /\ \A y \in trCalls' : CallOK(y)'
<1>1. \A y \in trCalls' : CallOK(y)
  BY DEF TrInv, TrTypes
<1> QED BY <1>1, SettingKept DEF TrInv, TrTypes, CallOK

LEMMA EntersKeeps == ASSUME TrInv, NEW x \in trCalls, EntersRequest(x) PROVE TrInv'
<1>1. /\ trSetting' = trSetting /\ trLink' = trLink /\ trOwed' = trOwed /\ trTaken' = trTaken
      /\ trPending' = trPending /\ trPosts' = trPosts
  BY DEF EntersRequest, trBounds
<1>2. PICK where \in {"run", "answer"} : CallGoes(x, where) /\ (where = "run" => x.kind # "open")
  BY DEF EntersRequest
<1>3. /\ trCalls' \subseteq TrCall /\ \A y \in trCalls' : CallOK(y)'
      /\ \A c \in TrClient, id \in Nat : Coming(c, id) => Coming(c, id)'
  BY <1>1, <1>2, TrGoes
<1> QED BY <1>1, <1>3, StreamsKept, KnownKept DEF TrInv, TrTypes

LEMMA PublishKeeps ==
    ASSUME TrInv, trSetting' = trSetting, NEW e \in Events, Publish(e), NEW x \in trCalls,
           NEW where \in {"answer", "body"}, CallGoes(x, where),
           where = "body" => \/ x.kind = "reply" \/ ~Streamed(x.by) \/ Header(x.by) # StreamSeat(x.by)
                             \/ Hangs(x.by) => e \in Answering(x.by, x.id)
    PROVE  \A c \in TrClient : Link(c)' /\ Owed(c)'
<1> SUFFICES ASSUME NEW c \in TrClient PROVE Link(c)' /\ Owed(c)'
  OBVIOUS
<1>1. /\ Link(c)' /\ trOwed'[c] \subseteq trOwed[c] /\ Hangs(c)' = Hangs(c)
      /\ \A id \in trOwed'[c] : InQueue(c, id) => InQueue(c, id)'
      /\ Hangs(c) => trLink'[c].queue[Len(trLink'[c].queue)] = e /\ Len(trLink'[c].queue) > 0
  BY PublishLinks
<1>2. trOwed'[c] # {} => Hangs(c)' /\ Streamed(c)' /\ Header(c)' = StreamSeat(c)'
  BY <1>1, SettingKept DEF TrInv, Owed
<1>3. ASSUME NEW id \in trOwed'[c] PROVE Coming(c, id)' \/ InQueue(c, id)'
  <2>1. id \in trOwed[c] /\ id \in Nat /\ Hangs(c) /\ Streamed(c) /\ Header(c) = StreamSeat(c)
    BY <1>1, OwedIds DEF TrInv, Owed
  <2>2. CASE InQueue(c, id)
    BY <1>1, <2>2
  <2>3. CASE Coming(c, id) /\ (where = "body" => x.kind = "reply" \/ x.by # c \/ x.id # id)
    BY <2>1, <2>3, TrGoes
  <2>4. CASE where = "body" /\ x.kind # "reply" /\ x.by = c /\ x.id = id
    <3>1. e \in Answering(c, id)
      BY <2>1, <2>4
    <3>2. Len(trLink'[c].queue) \in 1 .. Len(trLink'[c].queue)
      BY <1>1, <2>1 DEF Link
    <3>3. \E i \in 1 .. Len(trLink'[c].queue) : trLink'[c].queue[i] \in Answering(c, id)
      BY <1>1, <2>1, <3>1, <3>2
    <3> QED BY <3>3, SettingKept DEF InQueue
  <2> QED BY <2>1, <2>2, <2>3, <2>4 DEF TrInv, Owed
<1> QED BY <1>1, <1>2, <1>3 DEF Owed

LEMMA RunsKeeps ==
    ASSUME TrInv, NEW x \in trCalls, NEW to \in TrSeat \cup {NoSeat}, RunsTool(x, to) PROVE TrInv'
<1>1. /\ trSetting' = trSetting /\ trTaken' = trTaken /\ trPending' = trPending /\ trPosts' = trPosts
  BY DEF RunsTool
<1>2. PICK where \in {"answer", "body"} : CallGoes(x, where) /\ (where = "body" => x.kind = "reply")
  <2>1. x.kind \in {"call", "reply"}
    BY DEF TrInv, TrTypes, TrCall, CallOK, RunsTool
  <2> QED BY <2>1 DEF RunsTool
<1>3. /\ trCalls' \subseteq TrCall /\ \A y \in trCalls' : CallOK(y)'
      /\ \A c \in TrClient, id \in Nat : Coming(c, id) => Coming(c, id)'
  BY <1>1, <1>2, TrGoes
<1>4. \A c \in TrClient : TrKnown(c)'
  BY <1>1, KnownKept
<1>5. CASE trLink' = trLink /\ trOwed' = trOwed
  BY <1>1, <1>3, <1>4, <1>5, StreamsKept DEF TrInv, TrTypes
<1>6. CASE to # NoSeat /\ Publish([type |-> "letter", seat |-> to, id |-> 0])
  <2>1. [type |-> "letter", seat |-> to, id |-> 0] \in Events
    BY <1>6 DEF Events, Letter
  <2>2. \A c \in TrClient : Link(c)' /\ Owed(c)'
    BY <1>1, <1>2, <1>6, <2>1, PublishKeeps
  <2>3. trLink' = [k \in TrClient |-> trLink'[k]] /\ trOwed' = [k \in TrClient |-> trOwed'[k]]
    BY <1>6 DEF Publish
  <2> QED BY <1>1, <1>3, <1>4, <2>2, <2>3 DEF TrInv, TrTypes
<1> QED BY <1>5, <1>6 DEF RunsTool

LEMMA PublishesKeeps == ASSUME TrInv, NEW x \in trCalls, PublishesAnswer(x) PROVE TrInv'
<1> DEFINE e == [type |-> "rpc_response", seat |-> Header(x.by), id |-> x.id,
                 answer |-> [by |-> x.by, id |-> x.id]]
<1>1. /\ trSetting' = trSetting /\ trTaken' = trTaken /\ trPending' = trPending /\ trPosts' = trPosts
      /\ CallGoes(x, "body") /\ Publish(e)
  BY DEF PublishesAnswer, trBounds
<1>2. x \in TrCall /\ Given(x.by, x.id)
  BY DEF TrInv, TrTypes, CallOK
<1>3. e \in Events
  <2>1. x.by \in TrClient /\ x.id \in Nat /\ Header(x.by) \in TrSeat \cup {NoSeat}
    BY <1>2, SettingType DEF TrInv, TrTypes, TrCall
  <2> QED BY <1>2, <2>1 DEF Events, Response
<1>4. Header(x.by) = StreamSeat(x.by) => e \in Answering(x.by, x.id)
  BY <1>3 DEF Answering, Addressed
<1> HIDE DEF e
<1>5. trCalls' \subseteq TrCall /\ \A y \in trCalls' : CallOK(y)'
  BY <1>1, TrGoes
<1>6. \A c \in TrClient : Link(c)' /\ Owed(c)'
  BY <1>1, <1>3, <1>4, PublishKeeps
<1>7. trLink' = [k \in TrClient |-> trLink'[k]] /\ trOwed' = [k \in TrClient |-> trOwed'[k]]
  BY <1>1 DEF Publish
<1> QED BY <1>1, <1>5, <1>6, <1>7, KnownKept DEF TrInv, TrTypes

LEMMA TrAnswersKeeps == ASSUME TrInv, NEW x \in trCalls, AnswersRequest(x) PROVE TrInv'
<1>1. /\ trSetting' = trSetting /\ trLink' = trLink /\ trOwed' = trOwed /\ trPosts' = trPosts
      /\ trCalls' = trCalls \ {x}
  BY DEF AnswersRequest, trBounds
<1>2. x \in TrCall /\ Given(x.by, x.id)
  BY DEF TrInv, TrTypes, CallOK
<1>3. /\ \A k \in TrClient : TrKnown(k)'
      /\ trTaken' = [k \in TrClient |-> trTaken'[k]]
      /\ trPending' = [k \in TrClient |-> trPending'[k]]
  <2>1. CASE TakesAnswer(x.by, [by |-> x.by, id |-> x.id])
    <3> DEFINE answer == [by |-> x.by, id |-> x.id]
    <3>1. answer.by = x.by /\ answer.id = x.id /\ x.by \in TrClient
      BY <1>2 DEF TrCall
    <3> HIDE DEF answer
    <3> QED BY <1>1, <1>2, <2>1, <3>1, AnswerTaken DEF answer
  <2>2. CASE UNCHANGED <<trPending, trTaken>>
    BY <1>1, <2>2, KnownKept DEF TrInv, TrTypes
  <2> QED BY <2>1, <2>2 DEF AnswersRequest
<1>4. \A c \in TrClient, id \in Nat : id \in trOwed[c] /\ Coming(c, id) => Coming(c, id)'
  <2> SUFFICES ASSUME NEW c \in TrClient, NEW id \in Nat, id \in trOwed[c], Coming(c, id)
               PROVE  Coming(c, id)'
    OBVIOUS
  <2>1. PICK y \in trCalls : y.by = c /\ y.id = id /\ y.at # "body" /\ y.kind # "reply"
    BY DEF Coming
  <2>2. Streamed(c)
    BY DEF TrInv, Owed
  <2>3. y # x
    BY <2>1, <2>2 DEF AnswersRequest
  <2> QED BY <1>1, <2>1, <2>3 DEF Coming
<1>5. \A c \in TrClient : Link(c)' /\ Owed(c)'
  BY <1>1, <1>4, StreamsKept
<1> QED BY <1>1, <1>3, <1>5, CallsKept DEF TrInv, TrTypes

\* Requests and what is expected of them go away together.
LEMMA BreaksKeeps == ASSUME TrInv, NEW x \in trCalls, BreaksRequest(x) PROVE TrInv'
<1>1. /\ trSetting' = trSetting /\ trLink' = trLink /\ trTaken' = trTaken /\ trPosts' = trPosts
      /\ trCalls' = trCalls \ {x}
      /\ trPending' = [trPending EXCEPT ![x.by] = @ \ {x.id}]
      /\ trOwed' = IF x.at = "body" THEN trOwed ELSE [trOwed EXCEPT ![x.by] = @ \ {x.id}]
  BY DEF BreaksRequest
<1>2. \A c \in TrClient : TrKnown(c)'
  BY <1>1, SettingKept DEF TrInv, TrTypes, TrKnown
<1>3. ASSUME NEW c \in TrClient PROVE Link(c)' /\ Owed(c)'
  <2>1. Link(c)'
    BY <1>1, SettingKept DEF TrInv, Link
  <2>2. /\ trOwed'[c] \subseteq trOwed[c]
        /\ (x.by = c /\ x.at # "body") => x.id \notin trOwed'[c]
    BY <1>1 DEF TrInv, TrTypes
  <2>3. ASSUME NEW id \in trOwed'[c] PROVE Coming(c, id)' \/ InQueue(c, id)'
    <3>1. CASE Coming(c, id)
      BY <1>1, <2>2, <2>3, <3>1 DEF Coming
    <3>2. CASE InQueue(c, id)
      BY <1>1, <3>2, SettingKept DEF InQueue
    <3> QED BY <2>2, <3>1, <3>2 DEF TrInv, Owed
  <2> QED BY <1>1, <2>1, <2>2, <2>3, SettingKept DEF TrInv, Owed, Hangs
<1>4. trOwed' = [k \in TrClient |-> trOwed'[k]] /\ trPending' = [k \in TrClient |-> trPending'[k]]
  BY <1>1 DEF TrInv, TrTypes
<1> QED BY <1>1, <1>2, <1>3, <1>4, CallsKept DEF TrInv, TrTypes

LEMMA PostsKeeps ==
    ASSUME TrInv, NEW c \in TrClient, NEW kind \in {"open", "call", "reply"}, PostsRequest(c, kind)
    PROVE  TrInv'
<1> DEFINE id == Client(c).base + trPosts[c] + 1
           x == [by |-> c, id |-> id, kind |-> kind, at |-> "enter"]
<1>1. /\ trSetting' = trSetting /\ trLink' = trLink /\ trTaken' = trTaken
      /\ trPosts' = [trPosts EXCEPT ![c] = @ + 1]
      /\ trCalls' = trCalls \cup {x}
      /\ trPending' = IF kind = "reply" THEN trPending ELSE [trPending EXCEPT ![c] = @ \cup {id}]
      /\ trOwed' = IF Streamed(c) /\ trLink[c].told /\ Header(c) = StreamSeat(c) /\ kind # "reply"
                   THEN [trOwed EXCEPT ![c] = @ \cup {id}] ELSE trOwed
  BY DEF PostsRequest
<1>2. id \in Nat /\ Given(c, id)
  <2>1. Client(c).base \in Nat /\ Client(c).posts \in Nat /\ trPosts[c] \in Nat /\ trPosts[c] < Client(c).posts
    BY SettingType DEF TrInv, TrTypes, PostsRequest
  <2> QED BY <2>1 DEF Given, Numbers
<1>3. x \in TrCall /\ CallOK(x) /\ x.by = c /\ x.id = id /\ x.at = "enter" /\ x.kind = kind
  BY <1>2 DEF TrCall, CallOK
<1>4. trPosts' \in [TrClient -> Nat]
  BY <1>1 DEF TrInv, TrTypes
<1> HIDE DEF id, x
<1>5. trCalls' \subseteq TrCall /\ \A y \in trCalls' : CallOK(y)'
  <2>1. \A y \in trCalls' : CallOK(y)
    BY <1>1, <1>3 DEF TrInv, TrTypes
  <2> QED BY <1>1, <1>3, <2>1, SettingKept DEF TrInv, TrTypes, CallOK
<1>6. ASSUME NEW k \in TrClient PROVE TrKnown(k)' /\ Link(k)' /\ Owed(k)'
  <2>1. \A n \in trPending'[k] : n \in trPending[k] \/ (k = c /\ n = id)
    BY <1>1 DEF TrInv, TrTypes
  <2>2. TrKnown(k)'
    BY <1>1, <1>2, <2>1, SettingKept DEF TrInv, TrKnown
  <2>3. Link(k)'
    BY <1>1, SettingKept DEF TrInv, Link
  <2>4. \A n \in trOwed'[k] : n \in trOwed[k] \/ (k = c /\ n = id /\ kind # "reply")
    BY <1>1 DEF TrInv, TrTypes
  <2>5. ASSUME NEW n \in trOwed'[k] PROVE Coming(k, n)' \/ InQueue(k, n)'
    <3>1. CASE k = c /\ n = id /\ kind # "reply"
      BY <1>1, <1>3, <3>1 DEF Coming
    <3>2. CASE n \in trOwed[k] /\ Coming(k, n)
      BY <1>1, <3>2 DEF Coming
    <3>3. CASE n \in trOwed[k] /\ InQueue(k, n)
      BY <1>1, <3>3, SettingKept DEF InQueue
    <3> QED BY <2>4, <2>5, <3>1, <3>2, <3>3 DEF TrInv, Owed
  <2>6. trOwed'[k] # {} => Hangs(k)' /\ Streamed(k)' /\ Header(k)' = StreamSeat(k)'
    <3>1. trOwed'[k] # {} => Hangs(k) /\ Streamed(k) /\ Header(k) = StreamSeat(k)
      BY <1>1 DEF TrInv, TrTypes, Owed, Link, Hangs
    <3> QED BY <1>1, <3>1, SettingKept DEF Hangs
  <2> QED BY <2>2, <2>3, <2>5, <2>6 DEF Owed
<1>7. trOwed' = [k \in TrClient |-> trOwed'[k]] /\ trPending' = [k \in TrClient |-> trPending'[k]]
  BY <1>1 DEF TrInv, TrTypes
<1> QED BY <1>1, <1>4, <1>5, <1>6, <1>7 DEF TrInv, TrTypes

\* A stream is opened, told or closed: nobody expects anything on it before.
LEMMA OpensKeeps ==
    ASSUME TrInv, NEW c \in TrClient, OpensStream(c) \/ TellsEndpoint(c) \/ ClosesStream(c)
    PROVE  TrInv'
<1>1. /\ trSetting' = trSetting /\ trCalls' = trCalls /\ trPosts' = trPosts
      /\ trTaken' = trTaken /\ trPending' = trPending
  BY DEF OpensStream, TellsEndpoint, ClosesStream, trBounds
<1>2. trLink[c] \in [open : BOOLEAN, told : BOOLEAN, queue : Seq(Events)]
  BY DEF TrInv, Link
<1>3. /\ trLink' = [k \in TrClient |-> trLink'[k]] /\ trOwed' = [k \in TrClient |-> trOwed'[k]]
      /\ \A k \in TrClient \ {c} : trLink'[k] = trLink[k] /\ trOwed'[k] = trOwed[k]
      /\ trLink'[c] \in [open : BOOLEAN, told : BOOLEAN, queue : Seq(Events)]
      /\ trLink'[c].told => trLink'[c].open
      /\ \/ trOwed'[c] = {}
         \/ trOwed'[c] = trOwed[c] /\ trLink'[c].open = trLink[c].open /\ trLink'[c].queue = trLink[c].queue
  <2>1. CASE OpensStream(c)
    <3>1. trLink' = [trLink EXCEPT ![c].open = TRUE] /\ trOwed' = trOwed /\ ~Hangs(c)
      BY <2>1 DEF OpensStream
    <3>2. trOwed'[c] = {}
      BY <3>1 DEF TrInv, Owed
    <3>3. trLink'[c] = [trLink[c] EXCEPT !.open = TRUE]
      BY <3>1 DEF TrInv, TrTypes
    <3>4. trLink'[c] \in [open : BOOLEAN, told : BOOLEAN, queue : Seq(Events)] /\ trLink'[c].open = TRUE
      BY <1>2, <3>3
    <3> QED BY <3>1, <3>2, <3>4 DEF TrInv, TrTypes
  <2>2. CASE TellsEndpoint(c)
    <3>1. trLink' = [trLink EXCEPT ![c].told = TRUE] /\ trOwed' = trOwed /\ Hangs(c)
      BY <2>2 DEF TellsEndpoint
    <3>2. trLink'[c] = [trLink[c] EXCEPT !.told = TRUE]
      BY <3>1 DEF TrInv, TrTypes
    <3>3. /\ trLink'[c] \in [open : BOOLEAN, told : BOOLEAN, queue : Seq(Events)]
          /\ trLink'[c].open = trLink[c].open /\ trLink'[c].queue = trLink[c].queue
      BY <1>2, <3>2
    <3> QED BY <3>1, <3>3 DEF TrInv, TrTypes, Hangs
  <2>3. CASE ClosesStream(c)
    <3>1. trLink' = [trLink EXCEPT ![c] = NoLink] /\ trOwed' = [trOwed EXCEPT ![c] = {}]
      BY <2>3 DEF ClosesStream
    <3>2. NoLink \in [open : BOOLEAN, told : BOOLEAN, queue : Seq(Events)] /\ ~NoLink.told
      BY DEF NoLink
    <3> QED BY <3>1, <3>2 DEF TrInv, TrTypes
  <2> QED BY <2>1, <2>2, <2>3
<1>4. ASSUME NEW k \in TrClient PROVE Link(k)' /\ Owed(k)'
  <2>1. Link(k)'
    BY <1>1, <1>3, SettingKept DEF TrInv, Link
  <2>2. trOwed'[k] # {} => /\ trOwed'[k] = trOwed[k] /\ trLink'[k].open = trLink[k].open
                           /\ trLink'[k].queue = trLink[k].queue
    BY <1>3
  <2>3. trOwed'[k] # {} => Hangs(k)' /\ Streamed(k)' /\ Header(k)' = StreamSeat(k)'
    BY <1>1, <2>2, SettingKept DEF TrInv, Owed, Hangs
  <2>4. ASSUME NEW id \in trOwed'[k] PROVE Coming(k, id)' \/ InQueue(k, id)'
    <3>1. Coming(k, id)' = Coming(k, id)
      BY <1>1 DEF Coming
    <3>2. InQueue(k, id)' = InQueue(k, id)
      BY <1>1, <2>2, <2>4, SettingKept DEF InQueue
    <3> QED BY <2>2, <2>4, <3>1, <3>2 DEF TrInv, Owed
  <2> QED BY <2>1, <2>3, <2>4 DEF Owed
<1> QED BY <1>1, <1>3, <1>4, KnownKept, CallsKept DEF TrInv, TrTypes

LEMMA ShowsKeeps == ASSUME TrInv, NEW c \in TrClient, ShowsEvent(c) PROVE TrInv'
<1> DEFINE q == trLink[c].queue
           e == Head(q)
<1>1. /\ trSetting' = trSetting /\ trCalls' = trCalls /\ trPosts' = trPosts
      /\ trLink' = [trLink EXCEPT ![c].queue = Tail(@)] /\ q # <<>>
      /\ IF Addressed(e, c) /\ e.type = "rpc_response"
         THEN TakesAnswer(c, e.answer) /\ trOwed' = [trOwed EXCEPT ![c] = @ \ {e.id}]
         ELSE UNCHANGED <<trPending, trTaken, trOwed>>
  BY DEF ShowsEvent, trBounds
<1>2. /\ trLink[c] \in [open : BOOLEAN, told : BOOLEAN, queue : Seq(Events)] /\ q \in Seq(Events)
      /\ trLink'[c] = [trLink[c] EXCEPT !.queue = Tail(q)]
  BY <1>1 DEF TrInv, TrTypes, Link
<1>3. /\ e \in Events /\ e = q[1] /\ Tail(q) \in Seq(Events) /\ Len(Tail(q)) = Len(q) - 1
      /\ \A i \in 1 .. Len(q) - 1 : Tail(q)[i] = q[i + 1]
  <2> HIDE DEF q
  <2> QED BY <1>1, <1>2
<1>4. /\ trLink'[c] \in [open : BOOLEAN, told : BOOLEAN, queue : Seq(Events)]
      /\ trLink'[c].open = trLink[c].open /\ trLink'[c].told = trLink[c].told
      /\ trLink'[c].queue = Tail(q)
  <2> HIDE DEF q
  <2> QED BY <1>2, <1>3
<1> DEFINE answers == Addressed(e, c) /\ e.type = "rpc_response"
<1>5. answers => /\ e.answer.by \in TrClient /\ e.answer.id = e.id /\ Given(e.answer.by, e.answer.id)
                 /\ Header(e.answer.by) = StreamSeat(c)
  <2> HIDE DEF q, e
  <2> QED BY <1>3 DEF Events, Letter, Response, Addressed
<1> HIDE DEF q, e
<1>6. /\ \A k \in TrClient : TrKnown(k)'
      /\ trTaken' = [k \in TrClient |-> trTaken'[k]]
      /\ trPending' = [k \in TrClient |-> trPending'[k]]
  <2>1. CASE answers
    <3>1. TakesAnswer(c, e.answer)
      BY <1>1, <2>1
    <3>2. e.answer.by \in TrClient /\ Given(e.answer.by, e.answer.id) /\ Header(e.answer.by) = StreamSeat(c)
      BY <1>5, <2>1
    <3> DEFINE a == e.answer
    <3> HIDE DEF a
    <3>3. TakesAnswer(c, a) /\ a.by \in TrClient /\ Given(a.by, a.id) /\ Header(a.by) = StreamSeat(c)
      BY <3>1, <3>2 DEF a
    <3> QED BY <1>1, <3>3, AnswerTaken
  <2>2. CASE ~answers
    BY <1>1, <2>2, KnownKept DEF TrInv, TrTypes
  <2> QED BY <2>1, <2>2
<1>7. /\ trOwed' = [k \in TrClient |-> trOwed'[k]] /\ \A k \in TrClient : trOwed'[k] \subseteq trOwed[k]
      /\ answers => e.id \notin trOwed'[c]
  BY <1>1 DEF TrInv, TrTypes
<1>8. /\ trLink' = [k \in TrClient |-> trLink'[k]] /\ \A k \in TrClient \ {c} : trLink'[k] = trLink[k]
  BY <1>1 DEF TrInv, TrTypes
<1>9. ASSUME NEW k \in TrClient PROVE Link(k)' /\ Owed(k)'
  <2>1. Link(k)'
    BY <1>1, <1>4, <1>8, SettingKept DEF TrInv, Link
  <2>2. trOwed'[k] # {} => Hangs(k)' /\ Streamed(k)' /\ Header(k)' = StreamSeat(k)'
    BY <1>1, <1>4, <1>7, <1>8, SettingKept DEF TrInv, Owed, Hangs
  <2>3. ASSUME NEW id \in trOwed'[k] PROVE Coming(k, id)' \/ InQueue(k, id)'
    <3>1. Coming(k, id)' = Coming(k, id)
      BY <1>1 DEF Coming
    <3>2. CASE k # c
      <4>1. InQueue(k, id)' = InQueue(k, id)
        BY <1>1, <1>8, <3>2, SettingKept DEF InQueue
      <4> QED BY <1>7, <2>3, <3>1, <4>1 DEF TrInv, Owed
    <3>3. ASSUME k = c, InQueue(c, id) PROVE InQueue(c, id)'
      <4>1. PICK i \in 1 .. Len(q) : q[i] \in Answering(c, id)
        BY <3>3 DEF InQueue, q
      <4>2. i # 1
        BY <1>3, <1>7, <2>3, <3>3, <4>1 DEF Answering
      <4>3. i - 1 \in 1 .. Len(Tail(q)) /\ Tail(q)[i - 1] = q[i]
        BY <1>2, <1>3, <4>1, <4>2
      <4> QED BY <1>1, <1>4, <4>1, <4>3, SettingKept DEF InQueue
    <3> QED BY <1>7, <2>3, <3>1, <3>2, <3>3 DEF TrInv, Owed
  <2> QED BY <2>1, <2>2, <2>3 DEF Owed
<1> QED BY <1>1, <1>6, <1>7, <1>8, <1>9, CallsKept DEF TrInv, TrTypes

LEMMA RestartKeeps == TrInv /\ RestartTransport => TrInv'
<1> SUFFICES ASSUME TrInv, RestartTransport PROVE TrInv'
  OBVIOUS
<1>1. /\ trSetting' = trSetting /\ trCalls' = {} /\ trPosts' = trPosts /\ trTaken' = trTaken
      /\ trLink' = [c \in TrClient |-> NoLink]
      /\ trPending' = [c \in TrClient |-> {}] /\ trOwed' = [c \in TrClient |-> {}]
  BY DEF RestartTransport
<1>2. NoLink \in [open : BOOLEAN, told : BOOLEAN, queue : Seq(Events)] /\ ~NoLink.told
  BY DEF NoLink
<1>3. \A c \in TrClient : TrKnown(c)' /\ Link(c)' /\ Owed(c)'
  BY <1>1, <1>2, SettingKept DEF TrInv, TrKnown, Link, Owed
<1> QED BY <1>1, <1>3 DEF TrInv, TrTypes

LEMMA TrStarts == TrInit => TrInv
<1>1. NoLink \in [open : BOOLEAN, told : BOOLEAN, queue : Seq(Events)] /\ ~NoLink.told
  BY DEF NoLink
<1> QED BY <1>1 DEF TrInit, TrInv, TrTypes, TrKnown, Link, Owed

LEMMA TrSteps == TrInv /\ [TrNext]_trVars => TrInv'
<1> SUFFICES ASSUME TrInv, [TrNext]_trVars PROVE TrInv'
  OBVIOUS
<1>1. CASE TrNext
  BY <1>1, OpensKeeps, ShowsKeeps, PostsKeeps, EntersKeeps, PublishesKeeps, TrAnswersKeeps, BreaksKeeps,
     RunsKeeps, RestartKeeps DEF TrNext
<1>2. CASE UNCHANGED trVars
  <2>1. /\ trSetting' = trSetting /\ trLink' = trLink /\ trOwed' = trOwed /\ trPosts' = trPosts
        /\ trTaken' = trTaken /\ trPending' = trPending /\ trCalls' = trCalls
    BY <1>2 DEF trVars
  <2>2. \A c \in TrClient, id \in Nat : Coming(c, id) => Coming(c, id)'
    BY <2>1 DEF Coming
  <2> QED BY <2>1, <2>2, StreamsKept, KnownKept, CallsKept DEF TrInv, TrTypes
<1> QED BY <1>1, <1>2

\* For any clients, seats, channel, streams and numbers of requests: no client takes
\* another's answer for one to its request, and what it was told to expect on its
\* stream is being worked out or is there (server.rs, sse_endpoint, messages).
THEOREM AnswersReach == TrSpec => []AnswersFind
<1>1. TrInv => AnswersFind
  <2> SUFFICES ASSUME TrInv, NEW c \in TrClient
               PROVE  /\ \A answer \in trTaken[c] : answer.by = c
                      /\ \A id \in trOwed[c] :
                            \/ \E x \in trCalls : x.by = c /\ x.id = id /\ x.at # "body"
                            \/ \E i \in 1 .. Len(trLink[c].queue) :
                                 LET e == trLink[c].queue[i]
                                 IN  e.type = "rpc_response" /\ e.answer.by = c /\ e.id = id /\ Addressed(e, c)
    BY DEF AnswersFind
  <2> QED BY DEF TrInv, TrKnown, Owed, Coming, InQueue, Answering
<1> QED BY <1>1, TrStarts, TrSteps, PTL DEF TrSpec

----------------------------------------------------------------------------
(* Delegation *)

Works == [DgTask -> DgWork \cup {NoDgTask}]

\* Who has been given a task is first in its lane.
InFront(W) ==
    \A t, u \in DgTask :
        /\ W[t] # NoDgTask /\ W[u] # NoDgTask /\ W[t].assignee = W[u].assignee
        /\ W[t].state \in {"ready", "running"} /\ W[u].state # "done"
        => W[t].order <= W[u].order

Apart(W) ==
    \A t, u \in DgTask : W[t] # NoDgTask /\ W[u] # NoDgTask /\ t # u => W[t].order # W[u].order

CallOf(c) ==
    \/ call[c] = Resting
    \/ /\ call[c].at \in {"created", "assigned"} /\ call[c].task \in Accepted
       /\ work[call[c].task].assignee \notin onHold

WorkInv ==
    /\ dgSetting \in DgSettings /\ work \in Works
    /\ Cardinality(Accepted) <= dgSetting.tasks
    /\ \A t \in Accepted : /\ work[t].request.assignee = work[t].assignee
                           /\ work[t].order < Cardinality(Accepted)
    /\ Apart(work) /\ IdentityOnce

DgInv ==
    /\ WorkInv /\ InFront(work) /\ current \in Nat
    /\ \A x \in DOMAIN keyed : keyed[x] \in Accepted
    /\ call = [c \in DgClient |-> call[c]] /\ \A c \in DgClient : CallOf(c)
    /\ WakesHeads

\* What a task never changes, and what only an edit does.
Follows(x, y) ==
    /\ y.assignee = x.assignee /\ y.order = x.order /\ y.request = x.request
    /\ y.issuer = x.issuer /\ y.parent = x.parent /\ y.site = x.site
    /\ ~y.edited => ~x.edited /\ y.project = x.project /\ y.attempt = x.attempt

Later(W, V) ==
    /\ V \in Works
    /\ \A t \in DgTask : /\ (V[t] = NoDgTask) = (W[t] = NoDgTask)
                         /\ W[t] # NoDgTask => Follows(W[t], V[t])

LEMMA TasksFinite ==
    \A S \in SUBSET DgTask : IsFiniteSet(S) /\ Cardinality(S) \in Nat
  BY DelegationAssumption, FS_Subset, FS_CardinalityType

LEMMA HeadIsFirst ==
    ASSUME NEW W \in Works, NEW p, LaneOf(W, p) # {}
    PROVE  /\ HeadOf(W, p) \in LaneOf(W, p)
           /\ \A u \in LaneOf(W, p) : W[HeadOf(W, p)].order <= W[u].order
<1> DEFINE S == {W[t].order : t \in LaneOf(W, p)}
<1>1. \A t \in LaneOf(W, p) : W[t].order \in Nat
  BY DEF LaneOf, Works, DgWork
<1>2. S \in SUBSET Nat /\ S # {}
  BY <1>1
<1> HIDE DEF S
<1>3. PICK n \in S : \A m \in S : n <= m
  BY <1>2, Least
<1>4. \E t \in LaneOf(W, p) : \A u \in LaneOf(W, p) : W[t].order <= W[u].order
  BY <1>3 DEF S
<1> QED BY <1>4 DEF HeadOf

LEMMA ReadyIsHead ==
    ASSUME NEW W \in Works, InFront(W), Apart(W), NEW t \in DgTask,
           W[t] # NoDgTask, W[t].state = "ready"
    PROVE  t = HeadOf(W, W[t].assignee)
<1> DEFINE p == W[t].assignee  h == HeadOf(W, p)
<1>1. t \in LaneOf(W, p)
  BY DEF LaneOf
<1>2. h \in LaneOf(W, p) /\ W[h].order <= W[t].order
  BY <1>1, HeadIsFirst
<1>3. W[t].order <= W[h].order
  BY <1>2 DEF InFront, LaneOf
<1>4. W[t] \in DgWork /\ W[h] \in DgWork
  BY <1>2 DEF LaneOf, Works
<1>5. W[t].order = W[h].order
  BY <1>2, <1>3, <1>4 DEF DgWork
<1> QED BY <1>2, <1>5 DEF Apart, LaneOf

\* One field of one task changes.
LEMMA StateChanges ==
    ASSUME NEW W \in Works, NEW t \in DgTask, W[t] # NoDgTask, NEW V \in Works, V[t] \in DgWork,
           \A u \in DgTask \ {t} : V[u] = W[u], Follows(W[t], V[t])
    PROVE  Later(W, V)
<1>1. V[t] # NoDgTask
  BY DelegationAssumption
<1>2. \A u \in DgTask : W[u] # NoDgTask => Follows(W[u], W[u])
  BY DEF Follows
<1> QED BY <1>1, <1>2 DEF Later

LEMMA LaterTwice ==
    ASSUME NEW U \in Works, NEW W, NEW V, Later(U, W), Later(W, V) PROVE Later(U, V)
  BY DEF Later, Follows

LEMMA LaterSelf == ASSUME NEW W \in Works PROVE Later(W, W)
  BY DEF Later, Follows

LEMMA PromotedLater ==
    ASSUME NEW W \in Works, NEW p, NEW V, V = Promoted(W, p)
    PROVE  /\ Later(W, V) /\ (InFront(W) => InFront(V))
           /\ \A t \in DgTask : W[t] # NoDgTask /\ W[t].state = "done" => V[t] = W[t]
<1>1. CASE V = W
  BY <1>1, LaterSelf
<1>2. CASE V # W
  <2> DEFINE h == HeadOf(W, p)
             x == [W[h] EXCEPT !.state = "ready"]
  <2>1. /\ LaneOf(W, p) # {} /\ \A t \in LaneOf(W, p) : W[t].state = "queued"
        /\ V = [W EXCEPT ![h].state = "ready"]
    BY <1>2 DEF Promoted
  <2>2. h \in LaneOf(W, p) /\ \A u \in LaneOf(W, p) : W[h].order <= W[u].order
    BY <2>1, HeadIsFirst
  <2>3. h \in DgTask /\ W[h] # NoDgTask /\ W[h] \in DgWork /\ W[h].assignee = p
    BY <2>2 DEF LaneOf, Works
  <2>4. x \in DgWork /\ x.state = "ready" /\ Follows(W[h], x)
    <3> HIDE DEF h
    <3> QED BY <2>3 DEF DgWork, Follows
  <2>5. V = [W EXCEPT ![h] = x]
    BY <2>1
  <2> HIDE DEF h, x
  <2>6. Later(W, V) /\ V[h] = x /\ \A u \in DgTask \ {h} : V[u] = W[u]
    <3>1. V \in Works /\ V[h] = x /\ \A u \in DgTask \ {h} : V[u] = W[u]
      BY <2>3, <2>4, <2>5 DEF Works
    <3> QED BY <2>3, <2>4, <3>1, StateChanges
  <2>7. ASSUME InFront(W) PROVE InFront(V)
    <3> SUFFICES ASSUME NEW t \in DgTask, NEW u \in DgTask, V[t] # NoDgTask, V[u] # NoDgTask,
                        V[t].assignee = V[u].assignee, V[t].state \in {"ready", "running"},
                        V[u].state # "done"
                 PROVE  V[t].order <= V[u].order
      BY DEF InFront
    <3>1. /\ W[t] # NoDgTask /\ W[u] # NoDgTask /\ W[t].assignee = W[u].assignee
          /\ W[t].order = V[t].order /\ W[u].order = V[u].order /\ W[u].state # "done"
      BY <2>2, <2>4, <2>6 DEF Later, Follows, LaneOf
    <3>2. CASE t = h
      BY <2>2, <2>3, <3>1, <3>2 DEF LaneOf
    <3>3. CASE t # h
      BY <2>6, <2>7, <3>1, <3>3 DEF InFront
    <3> QED BY <3>2, <3>3
  <2>8. W[h].state # "done"
    BY <2>2 DEF LaneOf
  <2> QED BY <2>6, <2>7, <2>8
<1> QED BY <1>1, <1>2

\* Identities stay unique while tasks are neither made nor lost.
LEMMA WorkStays ==
    ASSUME WorkInv, dgSetting' = dgSetting, Later(work, work')
    PROVE  WorkInv' /\ Accepted' = Accepted
<1>1. Accepted' = Accepted
  BY DEF Accepted, Later
<1>2. \A t \in Accepted : t \in DgTask /\ work[t] # NoDgTask /\ Follows(work[t], work'[t])
  BY DEF Accepted, Later
<1>3. work' \in Works
  BY DEF Later
<1>4. \A t \in Accepted : /\ work'[t].request.assignee = work'[t].assignee
                          /\ work'[t].order < Cardinality(Accepted)
  BY <1>2 DEF WorkInv, Follows
<1>5. Apart(work)'
  BY <1>1, <1>2, <1>3 DEF WorkInv, Apart, Follows, Accepted
<1>6. ASSUME NEW t \in DgTask, IsRoot(t)', ~work'[t].edited
      PROVE  IsRoot(t) /\ ~work[t].edited /\ work[t].site = work'[t].site /\ work[t].attempt = work'[t].attempt
  BY <1>1, <1>2, <1>6 DEF IsRoot, Follows, Accepted
<1>7. IdentityOnce'
  BY <1>6 DEF WorkInv, IdentityOnce
<1> QED BY <1>1, <1>3, <1>4, <1>5, <1>7 DEF WorkInv

\* A task goes on: it is given out, started or done only from where it stands in front.
LEMMA Advances ==
    ASSUME NEW W \in Works, NEW t \in DgTask, W[t] # NoDgTask, NEW x \in DgWork, Follows(W[t], x),
           x.state \in {"ready", "running"} => W[t].state \in {"ready", "running"},
           x.state # "done" => W[t].state # "done",
           NEW V, V = [W EXCEPT ![t] = x]
    PROVE  Later(W, V) /\ (InFront(W) => InFront(V)) /\ V[t] = x
<1>1. V \in Works /\ V[t] = x /\ \A u \in DgTask \ {t} : V[u] = W[u]
  BY DEF Works
<1>2. Later(W, V)
  BY <1>1, StateChanges
<1>3. ASSUME InFront(W) PROVE InFront(V)
  <2> SUFFICES ASSUME NEW a \in DgTask, NEW b \in DgTask, V[a] # NoDgTask, V[b] # NoDgTask,
                      V[a].assignee = V[b].assignee, V[a].state \in {"ready", "running"},
                      V[b].state # "done"
               PROVE  V[a].order <= V[b].order
    BY DEF InFront
  <2>1. /\ W[a] # NoDgTask /\ W[b] # NoDgTask /\ W[a].assignee = W[b].assignee
        /\ W[a].order = V[a].order /\ W[b].order = V[b].order
        /\ W[a].state \in {"ready", "running"} /\ W[b].state # "done"
    BY <1>1, <1>2 DEF Later, Follows
  <2> QED BY <1>3, <2>1 DEF InFront
<1> QED BY <1>1, <1>2, <1>3

\* Calls of one step of an action that makes no task.
Goes(c) ==
    \/ call'[c] = call[c] \/ call'[c] = Resting
    \/ /\ call'[c].at \in {"created", "assigned"} /\ call'[c].task \in Accepted
       /\ work[call'[c].task].assignee \notin onHold

LEMMA DgStep ==
    ASSUME DgInv, dgSetting' = dgSetting, onHold' = onHold, current' \in Nat,
           Later(work, work'), InFront(work'),
           \A x \in DOMAIN keyed' : keyed'[x] \in Accepted,
           call' = [c \in DgClient |-> call'[c]], \A c \in DgClient : Goes(c),
           \A t \in woken'.starts : /\ t \in Accepted /\ work'[t].state = "ready"
                                    /\ work[t].assignee \notin onHold
    PROVE  DgInv'
<1>1. WorkInv' /\ Accepted' = Accepted
  BY WorkStays DEF DgInv
<1>2. \A t \in Accepted : t \in DgTask /\ work'[t] # NoDgTask /\ work'[t].assignee = work[t].assignee
  BY DEF Accepted, Later, Follows
<1>3. InFront(work)' /\ Apart(work') /\ work' \in Works
  BY <1>1 DEF InFront, WorkInv, Apart
<1>4. \A c \in DgClient : CallOf(c)'
  BY <1>1, <1>2 DEF DgInv, CallOf, Goes
<1>5. WakesHeads'
  <2>1. ASSUME NEW t \in woken'.starts
        PROVE  /\ work'[t].state = "ready" /\ t = HeadOf(work', work'[t].assignee)
               /\ work'[t].assignee \notin onHold'
    <3>1. t \in DgTask /\ work'[t] # NoDgTask /\ work'[t].state = "ready" /\ work'[t].assignee \notin onHold'
      BY <1>2
    <3> DEFINE W == work'
    <3>2. W \in Works /\ InFront(W) /\ Apart(W) /\ W[t] # NoDgTask /\ W[t].state = "ready"
      BY <1>3, <3>1
    <3> HIDE DEF W
    <3>3. t = HeadOf(W, W[t].assignee)
      BY <3>1, <3>2, ReadyIsHead
    <3> QED BY <3>1, <3>3 DEF W
  <2> QED BY <2>1 DEF WakesHeads, HeadOf, LaneOf
<1> QED BY <1>1, <1>3, <1>4, <1>5 DEF DgInv

LEMMA AcceptedWork ==
    ASSUME DgInv, NEW t \in Accepted
    PROVE  t \in DgTask /\ work[t] # NoDgTask /\ work[t] \in DgWork
  BY DEF DgInv, WorkInv, Works, Accepted

LEMMA ReplaysKeeps ==
    ASSUME DgInv, NEW c \in DgClient, NEW k \in dgSetting.keys, NEW r \in Requests(c), Replays(c, r, k)
    PROVE  DgInv'
<1> DEFINE p == PrincipalOf[c]
<1>1. /\ dgSetting' = dgSetting /\ onHold' = onHold /\ current' = current /\ woken' = Silent
      /\ r.assignee \notin onHold
  BY DEF Replays, Assignable
<1>2. PICK t \in Known(p, r, k) :
             /\ SameRequest(t, r) /\ IsCurrent(work[t])
             /\ keyed' = [x \in DOMAIN keyed \cup {<<p, k>>} |-> IF x = <<p, k>> THEN t ELSE keyed[x]]
             /\ work' = IF work[t].state = "done" THEN work ELSE Promoted(work, r.assignee)
             /\ call' = [call EXCEPT ![c] = [at |-> "assigned", task |-> t, ready |-> work'[t].state = "ready"]]
  BY DEF Replays
<1>3. t \in Accepted
  BY <1>2 DEF Known, DgInv
<1>4. work[t].assignee = r.assignee
  <2>1. "assignee" \in DOMAIN r
    BY DEF Requests
  <2>2. work[t].request.assignee = r.assignee
    BY <1>2, <2>1 DEF SameRequest
  <2> QED BY <1>3, <2>2 DEF DgInv, WorkInv
<1>5. Later(work, work') /\ InFront(work')
  <2>1. work \in Works /\ InFront(work)
    BY DEF DgInv, WorkInv
  <2> QED BY <1>2, <2>1, LaterSelf, PromotedLater
<1>6. \A x \in DOMAIN keyed' : keyed'[x] \in Accepted
  BY <1>2, <1>3 DEF DgInv
<1>7. call' = [d \in DgClient |-> call'[d]] /\ \A d \in DgClient : Goes(d)
  <2>1. /\ call' = [d \in DgClient |-> call'[d]]
        /\ \A d \in DgClient \ {c} : call'[d] = call[d]
        /\ call'[c].at = "assigned" /\ call'[c].task = t
    BY <1>2 DEF DgInv
  <2> QED BY <1>1, <1>3, <1>4, <2>1 DEF Goes
<1>8. woken'.starts = {}
  BY <1>1 DEF Silent
<1> QED BY <1>1, <1>5, <1>6, <1>7, <1>8, DgStep DEF DgInv

LEMMA IndexesKeeps == ASSUME DgInv, NEW c \in DgClient, Indexes(c) PROVE DgInv'
<1> DEFINE t == call[c].task  p == PrincipalOf[c]  k == call[c].key
<1>1. /\ dgSetting' = dgSetting /\ onHold' = onHold /\ current' = current /\ woken' = Silent
      /\ call[c].at = "created"
      /\ keyed' = IF k = NoDgKey THEN keyed
                  ELSE [x \in DOMAIN keyed \cup {<<p, k>>} |-> IF x = <<p, k>> THEN t ELSE keyed[x]]
      /\ work' = Promoted(work, work[t].assignee)
      /\ call' = [call EXCEPT ![c] = [at |-> "assigned", task |-> t, ready |-> work'[t].state = "ready"]]
  BY DEF Indexes
<1>2. t \in Accepted /\ work[t].assignee \notin onHold
  BY <1>1 DEF DgInv, CallOf, Resting
<1> HIDE DEF t, p, k
<1>3. Later(work, work') /\ InFront(work')
  BY <1>1, PromotedLater DEF DgInv, WorkInv
<1>4. \A x \in DOMAIN keyed' : keyed'[x] \in Accepted
  BY <1>1, <1>2 DEF DgInv
<1>5. call' = [d \in DgClient |-> call'[d]] /\ \A d \in DgClient : Goes(d)
  <2>1. /\ call' = [d \in DgClient |-> call'[d]]
        /\ \A d \in DgClient \ {c} : call'[d] = call[d]
        /\ call'[c].at = "assigned" /\ call'[c].task = t
    BY <1>1 DEF DgInv
  <2> QED BY <1>2, <2>1 DEF Goes
<1>6. woken'.starts = {}
  BY <1>1 DEF Silent
<1> QED BY <1>1, <1>3, <1>4, <1>5, <1>6, DgStep DEF DgInv

\* An answer starts ready tasks only, of principals that are not held.
LEMMA AnswersKeeps ==
    ASSUME DgInv, NEW c \in DgClient, NEW starts, NEW calls, Answers(c, starts, calls),
           dgSetting' = dgSetting, onHold' = onHold, current' = current, keyed' = keyed,
           Later(work, work'), InFront(work'),
           \A t \in starts : t \in Accepted /\ work'[t].state = "ready" /\ work[t].assignee \notin onHold
    PROVE  DgInv'
<1>1. call' = [d \in DgClient |-> call'[d]] /\ \A d \in DgClient : Goes(d)
  BY DEF DgInv, Answers, Goes
<1>2. woken'.starts \subseteq starts
  BY DEF Answers
<1> QED BY <1>1, <1>2, DgStep DEF DgInv

LEMMA AssignedKeeps == ASSUME DgInv, NEW c \in DgClient, Assigned(c) PROVE DgInv'
<1> DEFINE t == call[c].task
           starts == IF call[c].ready /\ StillReady(t, work') THEN {t} ELSE {}
<1>1. /\ dgSetting' = dgSetting /\ onHold' = onHold /\ current' = current /\ keyed' = keyed
      /\ call[c].at = "assigned"
      /\ work' = Promoted(work, work[t].assignee) /\ Answers(c, starts, {})
  BY DEF Assigned
<1>2. t \in Accepted /\ work[t].assignee \notin onHold
  BY <1>1 DEF DgInv, CallOf, Resting
<1>3. Later(work, work') /\ InFront(work')
  BY <1>1, PromotedLater DEF DgInv, WorkInv
<1>4. \A u \in starts : u \in Accepted /\ work'[u].state = "ready" /\ work[u].assignee \notin onHold
  BY <1>2 DEF StillReady, ReadyId, ReadyIn
<1> HIDE DEF t, starts
<1>5. Answers(c, starts, {})
  BY <1>1
<1> QED BY <1>1, <1>3, <1>4, <1>5, AnswersKeeps

LEMMA StartKeeps ==
    ASSUME DgInv, NEW c \in DgClient, NEW t \in DgTask, StartTask(c, t) PROVE DgInv'
<1> DEFINE p == PrincipalOf[c]  W == Promoted(work, p)  x == [W[t] EXCEPT !.state = "running"]
<1>1. /\ dgSetting' = dgSetting /\ onHold' = onHold /\ current' = current /\ keyed' = keyed
      /\ t \in Accepted /\ W[t].state = "ready"
      /\ work' = [W EXCEPT ![t].state = "running"] /\ Answers(c, {}, {})
  BY DEF StartTask
<1>2. Later(work, W) /\ InFront(W) /\ work \in Works
  BY PromotedLater DEF DgInv, WorkInv
<1>3. W \in Works /\ W[t] # NoDgTask /\ W[t] \in DgWork
  BY <1>1, <1>2 DEF Later, Works, Accepted
<1>4. x \in DgWork /\ Follows(W[t], x) /\ x.state = "running"
  <2> HIDE DEF W
  <2> QED BY <1>3 DEF DgWork, Follows
<1>5. work' = [W EXCEPT ![t] = x]
  BY <1>1
<1> HIDE DEF W, x
<1>6. Later(W, work') /\ InFront(work')
  BY <1>1, <1>2, <1>3, <1>4, <1>5, Advances
<1>7. Later(work, work')
  BY <1>2, <1>6, LaterTwice
<1>8. /\ dgSetting' = dgSetting /\ onHold' = onHold /\ current' = current /\ keyed' = keyed
      /\ Answers(c, {}, {})
  BY <1>1
<1> QED BY <1>6, <1>7, <1>8, AnswersKeeps

LEMMA ReportKeeps ==
    ASSUME DgInv, NEW c \in DgClient, NEW t \in DgTask, NEW status \in {"COMPLETED", "BLOCKED"},
           ReportTask(c, t, status)
    PROVE  DgInv'
<1> DEFINE p == PrincipalOf[c]
           x == [work[t] EXCEPT !.state = "done", !.status = status]
           W == [work EXCEPT ![t].state = "done", ![t].status = status]
<1>1. /\ dgSetting' = dgSetting /\ onHold' = onHold /\ current' = current /\ keyed' = keyed
      /\ t \in Accepted /\ work' = Promoted(W, p) /\ Answers(c, {}, Fenced(t, Called(work[t])))
  BY DEF ReportTask
<1>2. work[t] \in DgWork /\ work[t] # NoDgTask /\ work \in Works /\ InFront(work)
  BY <1>1, AcceptedWork DEF DgInv, WorkInv
<1>3. x \in DgWork /\ Follows(work[t], x) /\ x.state = "done"
  BY <1>2 DEF DgWork, Follows
<1>4. W = [work EXCEPT ![t] = x]
  BY <1>2 DEF Works
<1> HIDE DEF W, x
<1>5. Later(work, W) /\ InFront(W)
  BY <1>2, <1>3, <1>4, Advances
<1>6. W \in Works
  BY <1>5 DEF Later
<1>7. Later(W, work') /\ InFront(work')
  BY <1>1, <1>5, <1>6, PromotedLater
<1>8. Later(work, work')
  BY <1>2, <1>5, <1>7, LaterTwice
<1> QED BY <1>1, <1>7, <1>8, AnswersKeeps

LEMMA CancelKeeps ==
    ASSUME DgInv, NEW c \in DgClient, NEW t \in DgTask, CancelTask(c, t) PROVE DgInv'
<1> DEFINE q == work[t].assignee
           x == [work[t] EXCEPT !.state = "done", !.status = "CANCELLED"]
           W == [work EXCEPT ![t].state = "done", ![t].status = "CANCELLED"]
           starts == IF work[t].state = "ready" /\ q \notin onHold THEN ReadyIn(work', q) ELSE {}
<1>1. /\ dgSetting' = dgSetting /\ onHold' = onHold /\ current' = current /\ keyed' = keyed
      /\ t \in Accepted /\ work' = Promoted(W, q) /\ Answers(c, starts, {})
  BY DEF CancelTask
<1>2. work[t] \in DgWork /\ work[t] # NoDgTask /\ work \in Works /\ InFront(work)
  BY <1>1, AcceptedWork DEF DgInv, WorkInv
<1>3. x \in DgWork /\ Follows(work[t], x) /\ x.state = "done"
  BY <1>2 DEF DgWork, Follows
<1>4. W = [work EXCEPT ![t] = x]
  BY <1>2 DEF Works
<1> HIDE DEF W, x
<1>5. Later(work, W) /\ InFront(W)
  BY <1>2, <1>3, <1>4, Advances
<1>6. W \in Works
  BY <1>5 DEF Later
<1>7. Later(W, work') /\ InFront(work')
  BY <1>1, <1>5, <1>6, PromotedLater
<1>8. Later(work, work')
  BY <1>2, <1>5, <1>7, LaterTwice
<1>9. \A u \in starts : u \in Accepted /\ work'[u].state = "ready" /\ work[u].assignee \notin onHold
  BY <1>8 DEF ReadyIn, LaneOf, Later, Follows, Accepted
<1> HIDE DEF starts
<1> QED BY <1>1, <1>7, <1>8, <1>9, AnswersKeeps

LEMMA OthersKeep ==
    ASSUME DgInv, NEW c \in DgClient,
           \/ \E t \in DgTask, to \in DgPrincipal : TaskMessage(c, t, to)
           \/ \E q \in DgPrincipal : ReconcileTaskQueue(c, q)
    PROVE  DgInv'
<1>1. work \in Works /\ InFront(work)
  BY DEF DgInv, WorkInv
<1>2. ASSUME NEW t \in DgTask, NEW to \in DgPrincipal, TaskMessage(c, t, to) PROVE DgInv'
  <2>1. /\ dgSetting' = dgSetting /\ onHold' = onHold /\ current' = current /\ keyed' = keyed
        /\ work' = work /\ Answers(c, {}, Fenced(t, {to} \ onHold))
    BY <1>2 DEF TaskMessage
  <2> QED BY <1>1, <2>1, LaterSelf, AnswersKeeps
<1>3. ASSUME NEW q \in DgPrincipal, ReconcileTaskQueue(c, q) PROVE DgInv'
  <2>1. /\ dgSetting' = dgSetting /\ onHold' = onHold /\ current' = current /\ keyed' = keyed
        /\ work' = Promoted(work, q) /\ Answers(c, ReadyIn(work', q), {}) /\ q \notin onHold
    BY <1>3 DEF ReconcileTaskQueue
  <2>2. Later(work, work') /\ InFront(work')
    BY <1>1, <2>1, PromotedLater
  <2>3. \A u \in ReadyIn(work', q) :
           u \in Accepted /\ work'[u].state = "ready" /\ work[u].assignee \notin onHold
    BY <2>1, <2>2 DEF ReadyIn, LaneOf, Later, Follows, Accepted
  <2> QED BY <2>1, <2>2, <2>3, AnswersKeeps
<1> QED BY <1>2, <1>3

LEMMA EditKeeps ==
    ASSUME DgInv, NEW c \in DgClient, NEW t \in DgTask, EditWork(c, t) PROVE DgInv'
<1>1. /\ dgSetting' = dgSetting /\ onHold' = onHold /\ current' = current /\ keyed' = keyed
      /\ call' = call /\ woken' = Silent /\ t \in Accepted
  BY DEF EditWork
<1>2. work[t] \in DgWork /\ work[t] # NoDgTask /\ work \in Works /\ InFront(work)
  BY <1>1, AcceptedWork DEF DgInv, WorkInv
<1>3. PICK x \in DgWork : work' = [work EXCEPT ![t] = x] /\ Follows(work[t], x) /\ x.state = work[t].state
  <2>1. CASE work' = [work EXCEPT ![t].project = ~@, ![t].edited = TRUE]
    <3> DEFINE x == [work[t] EXCEPT !.project = ~@, !.edited = TRUE]
    <3>1. x \in DgWork /\ Follows(work[t], x) /\ x.state = work[t].state
      BY <1>2 DEF DgWork, Follows
    <3>2. work' = [work EXCEPT ![t] = x]
      BY <1>2, <2>1 DEF Works
    <3> HIDE DEF x
    <3> QED BY <3>1, <3>2
  <2>2. ASSUME NEW n \in 1..MaxAttempt, work' = [work EXCEPT ![t].attempt = n, ![t].edited = TRUE]
        PROVE  \E x \in DgWork : work' = [work EXCEPT ![t] = x] /\ Follows(work[t], x) /\ x.state = work[t].state
    <3> DEFINE x == [work[t] EXCEPT !.attempt = n, !.edited = TRUE]
    <3>0. n \in 0..MaxAttempt
      BY DelegationAssumption
    <3>1. x \in DgWork /\ Follows(work[t], x) /\ x.state = work[t].state
      BY <1>2, <3>0 DEF DgWork, Follows
    <3>2. work' = [work EXCEPT ![t] = x]
      BY <1>2, <2>2 DEF Works
    <3> HIDE DEF x
    <3> QED BY <3>1, <3>2
  <2> QED BY <2>1, <2>2 DEF EditWork
<1>4. Later(work, work') /\ InFront(work')
  BY <1>1, <1>2, <1>3, Advances
<1>5. woken'.starts = {} /\ \A d \in DgClient : Goes(d)
  BY <1>1 DEF Silent, Goes
<1> QED BY <1>1, <1>4, <1>5, DgStep DEF DgInv

\* A new task comes last.
LEMMA NewTask ==
    ASSUME NEW W \in Works, NEW t \in DgTask, W[t] = NoDgTask, NEW y \in DgWork, y.state = "queued",
           \A u \in DgTask : W[u] # NoDgTask => W[u].order < y.order,
           NEW V \in Works, V[t] = y, \A u \in DgTask \ {t} : V[u] = W[u], InFront(W), Apart(W)
    PROVE  InFront(V) /\ Apart(V)
<1>1. V \in Works /\ V[t] = y /\ \A u \in DgTask \ {t} : V[u] = W[u]
  OBVIOUS
<1>2. \A u \in DgTask : W[u] # NoDgTask => W[u].order \in Nat
  BY DEF Works, DgWork
<1>3. y.order \in Nat
  BY DEF DgWork
<1>4. InFront(V)
  <2> SUFFICES ASSUME NEW a \in DgTask, NEW b \in DgTask, V[a] # NoDgTask, V[b] # NoDgTask,
                      V[a].assignee = V[b].assignee, V[a].state \in {"ready", "running"},
                      V[b].state # "done"
               PROVE  V[a].order <= V[b].order
    BY DEF InFront
  <2>1. a # t /\ V[a] = W[a]
    BY <1>1
  <2>2. CASE b = t
    BY <1>1, <1>2, <1>3, <2>1, <2>2
  <2>3. CASE b # t
    BY <1>1, <2>1, <2>3 DEF InFront
  <2> QED BY <2>2, <2>3
<1>5. Apart(V)
  <2> SUFFICES ASSUME NEW a \in DgTask, NEW b \in DgTask, V[a] # NoDgTask, V[b] # NoDgTask, a # b
               PROVE  V[a].order # V[b].order
    BY DEF Apart
  <2>1. CASE a = t
    BY <1>1, <1>2, <1>3, <2>1
  <2>2. CASE b = t
    BY <1>1, <1>2, <1>3, <2>2
  <2>3. CASE a # t /\ b # t
    BY <1>1, <2>3 DEF Apart
  <2> QED BY <2>1, <2>2, <2>3
<1> QED BY <1>1, <1>4, <1>5

\* The portfolio's listing has every task of the project, while it fits.
LEMMA RootsAreListed ==
    ASSUME WorkInv, Cardinality(Accepted) < dgSetting.tasks, NEW u \in Accepted, IsRoot(u)
    PROVE  u \in Listed
<1> DEFINE S == {v \in Accepted : work[v].project /\ work[v].order < work[u].order}
<1>1. Accepted \in SUBSET DgTask /\ S \in SUBSET DgTask /\ S \subseteq Accepted
  BY DEF Accepted
<1>2. Cardinality(S) <= Cardinality(Accepted) /\ Cardinality(S) \in Nat /\ Cardinality(Accepted) \in Nat
  BY <1>1, TasksFinite, FS_Subset
<1>3. dgSetting.tasks <= PortfolioDepth /\ dgSetting.tasks \in Nat /\ PortfolioDepth \in Nat
  BY PortfolioFits, DelegationAssumption DEF WorkInv
<1>4. Cardinality(S) < PortfolioDepth
  BY <1>2, <1>3
<1> QED BY <1>4 DEF Listed, IsRoot

LEMMA CreatesKeeps ==
    ASSUME DgInv, NEW c \in DgClient, NEW k \in dgSetting.keys, NEW r \in Requests(c), Creates(c, r, k)
    PROVE  DgInv'
<1> DEFINE p == PrincipalOf[c]
           W == Promoted(work, r.assignee)
           y == [ state |-> "queued", status |-> "none", issuer |-> p, assignee |-> r.assignee,
                  project |-> r.project, parent |-> r.parent, site |-> r.site,
                  attempt |-> r.attempt, order |-> Cardinality(Accepted), generation |-> current,
                  key |-> <<p, k>>, request |-> r, edited |-> FALSE ]
<1>1. PICK t :
      /\ t = (CHOOSE u \in DgTask : u \notin Accepted)
      /\ dgSetting' = dgSetting /\ onHold' = onHold /\ current' = current /\ keyed' = keyed /\ woken' = Silent
      /\ r.assignee \notin onHold
      /\ (OfPortfolio(p, r) /\ r.parent = NoDgTask) => ~Taken(r.site, r.attempt)
      /\ Cardinality(Accepted) < dgSetting.tasks
      /\ work' = [W EXCEPT ![t] = y]
      /\ call' = [call EXCEPT ![c] = [at |-> "created", task |-> t, key |-> k]]
  BY DEF Creates, Assignable
<1>2. WorkInv /\ work \in Works /\ InFront(work) /\ Apart(work) /\ dgSetting \in DgSettings /\ current \in Nat
  BY DEF DgInv, WorkInv
<1>3. Accepted \in SUBSET DgTask /\ Cardinality(Accepted) \in Nat /\ IsFiniteSet(Accepted)
  <2>1. Accepted \in SUBSET DgTask
    BY DEF Accepted
  <2> QED BY <2>1, TasksFinite
<1>4. t \in DgTask /\ t \notin Accepted /\ work[t] = NoDgTask
  <2>1. dgSetting.tasks <= Cardinality(DgTask) /\ dgSetting.tasks \in Nat /\ Cardinality(DgTask) \in Nat
    BY <1>2, TasksFinite, DelegationAssumption
  <2>2. Accepted # DgTask
    BY <1>1, <1>3, <2>1
  <2>3. \E u \in DgTask : u \notin Accepted
    BY <1>3, <2>2
  <2>4. t \in DgTask /\ t \notin Accepted
    BY <1>1, <2>3
  <2> QED BY <2>4 DEF Accepted
<1>5. r \in DgAsk
  <2>1. dgSetting.asks[c] \subseteq DgPrincipal
    BY <1>2, DelegationAssumption
  <2> QED BY <1>3, <2>1 DEF Requests, DgAsk
<1>6. k \in DgKey \cup {NoDgKey} /\ p \in DgPrincipal
  BY <1>2, DelegationAssumption
<1>7. y \in DgWork
  BY <1>2, <1>3, <1>5, <1>6 DEF DgWork, DgAsk
<1>8. /\ y.state = "queued" /\ y.issuer = p /\ y.project = r.project /\ y.parent = r.parent /\ y.site = r.site
      /\ y.attempt = r.attempt /\ y.request = r /\ y.assignee = r.assignee /\ y.order = Cardinality(Accepted)
  OBVIOUS
<1>9. Later(work, W) /\ InFront(W)
  BY <1>2, PromotedLater
<1> HIDE DEF p, W, y
<1>10. /\ W \in Works /\ W[t] = NoDgTask
       /\ \A u \in DgTask : W[u] # NoDgTask <=> u \in Accepted
       /\ \A u \in Accepted : Follows(work[u], W[u])
  BY <1>3, <1>4, <1>9 DEF Later, Accepted
<1>11. \A u \in DgTask : W[u] # NoDgTask => W[u].order < y.order
  BY <1>2, <1>8, <1>10 DEF WorkInv, Follows
<1>12. Apart(W)
  BY <1>2, <1>3, <1>10 DEF Apart, Follows, Accepted
<1>13. /\ work' \in Works /\ work'[t] = y /\ \A u \in DgTask \ {t} : work'[u] = W[u]
       /\ InFront(work') /\ Apart(work')
  <2>1. work' \in Works /\ work'[t] = y /\ \A u \in DgTask \ {t} : work'[u] = W[u]
    BY <1>1, <1>4, <1>7, <1>10 DEF Works
  <2>2. W \in Works /\ W[t] = NoDgTask /\ InFront(W) /\ t \in DgTask /\ y.state = "queued"
    BY <1>4, <1>8, <1>9, <1>10
  <2> QED BY <1>7, <1>11, <1>12, <2>1, <2>2, NewTask
<1>14. y # NoDgTask
  BY <1>7, DelegationAssumption
<1>15. Accepted' = Accepted \cup {t}
  BY <1>3, <1>4, <1>10, <1>13, <1>14 DEF Accepted
<1>16. Cardinality(Accepted)' = Cardinality(Accepted) + 1
  BY <1>3, <1>4, <1>15, FS_AddElement
<1>17. \A u \in Accepted : u \in DgTask /\ u # t /\ work'[u] = W[u] /\ Follows(work[u], work'[u])
  BY <1>3, <1>4, <1>10, <1>13
<1>18. WorkInv'
  <2>1. Cardinality(Accepted)' <= dgSetting.tasks
    <3>1. dgSetting.tasks \in Nat
      BY <1>2, DelegationAssumption
    <3> QED BY <1>1, <1>3, <1>16, <3>1
  <2>2. ASSUME NEW u \in Accepted'
        PROVE  work'[u].request.assignee = work'[u].assignee /\ work'[u].order < Cardinality(Accepted)'
    <3>1. CASE u = t
      BY <1>3, <1>8, <1>13, <1>16, <3>1
    <3>2. CASE u # t
      <4>1. u \in Accepted /\ Follows(work[u], work'[u])
        BY <1>15, <1>17, <3>2
      <4>2. work[u].order < Cardinality(Accepted) /\ work[u].order \in Nat
        BY <1>2, <4>1 DEF WorkInv, Works, DgWork, Accepted
      <4> QED BY <1>2, <1>3, <1>16, <4>1, <4>2 DEF WorkInv, Follows
    <3> QED BY <3>1, <3>2
  <2>3. ASSUME NEW u \in DgTask, IsRoot(u)', ~work'[u].edited, u # t
        PROVE  /\ u \in Accepted /\ IsRoot(u) /\ ~work[u].edited
               /\ work[u].site = work'[u].site /\ work[u].attempt = work'[u].attempt
    <3>1. u \in Accepted
      BY <1>15, <2>3 DEF IsRoot, Accepted
    <3> QED BY <1>17, <2>3, <3>1 DEF IsRoot, Follows, Accepted
  <2>4. IsRoot(t)' => ~Taken(r.site, r.attempt) /\ work'[t].site = r.site /\ work'[t].attempt = r.attempt
    BY <1>1, <1>8, <1>13 DEF IsRoot, OfPortfolio
  <2>5. ASSUME NEW u \in DgTask, u # t, IsRoot(u)', ~work'[u].edited, IsRoot(t)'
        PROVE  <<work'[u].site, work'[u].attempt>> # <<work'[t].site, work'[t].attempt>>
    <3>1. u \in Accepted /\ IsRoot(u) /\ work[u].site = work'[u].site /\ work[u].attempt = work'[u].attempt
      BY <2>3, <2>5
    <3>2. u \in Listed
      BY <1>1, <1>2, <3>1, RootsAreListed
    <3> QED BY <2>4, <2>5, <3>1, <3>2 DEF Taken
  <2>6. IdentityOnce'
    <3> SUFFICES ASSUME NEW a \in DgTask, NEW b \in DgTask, IsRoot(a)', IsRoot(b)', ~work'[a].edited,
                        ~work'[b].edited, a # b
                 PROVE  <<work'[a].site, work'[a].attempt>> # <<work'[b].site, work'[b].attempt>>
      BY DEF IdentityOnce
    <3>1. CASE a = t
      BY <2>5, <3>1
    <3>2. CASE b = t
      BY <2>5, <3>2
    <3>3. CASE a # t /\ b # t
      BY <1>2, <2>3, <3>3 DEF WorkInv, IdentityOnce
    <3> QED BY <3>1, <3>2, <3>3
  <2>7. Apart(work)'
    BY <1>13 DEF Apart
  <2> QED BY <1>1, <1>2, <1>13, <2>1, <2>2, <2>6, <2>7 DEF WorkInv
<1>19. \A d \in DgClient : CallOf(d)'
  <2>1. /\ call'[c].at = "created" /\ call'[c].task = t
        /\ \A d \in DgClient \ {c} : call'[d] = call[d]
    BY <1>1 DEF DgInv
  <2>2. work'[t].assignee \notin onHold'
    BY <1>1, <1>8, <1>13
  <2>3. \A u \in Accepted : work'[u].assignee = work[u].assignee
    BY <1>17 DEF Follows
  <2> QED BY <1>1, <1>15, <2>1, <2>2, <2>3 DEF DgInv, CallOf
<1>20. call' = [d \in DgClient |-> call'[d]]
  BY <1>1 DEF DgInv
<1>21. WakesHeads'
  BY <1>1 DEF WakesHeads, Silent
<1>22. InFront(work)'
  BY <1>13 DEF InFront
<1> QED BY <1>1, <1>2, <1>15, <1>18, <1>19, <1>20, <1>21, <1>22 DEF DgInv

LEMMA CutsKeep == ASSUME DgInv, (\E c \in DgClient : CutCall(c)) \/ RestartServer PROVE DgInv'
<1>1. /\ dgSetting' = dgSetting /\ work' = work /\ keyed' = keyed /\ woken' = Silent
      /\ \A d \in DgClient : call'[d] = Resting \/ (call'[d] = call[d] /\ onHold' = onHold)
      /\ call' = [d \in DgClient |-> call'[d]] /\ current' \in Nat
  BY DEF DgInv, CutCall, RestartServer
<1>2. work \in Works /\ WorkInv
  BY DEF DgInv, WorkInv
<1>3. WorkInv' /\ Accepted' = Accepted
  BY <1>1, <1>2, LaterSelf, WorkStays
<1>4. \A d \in DgClient : CallOf(d)'
  BY <1>1, <1>3 DEF DgInv, CallOf
<1>5. WakesHeads'
  BY <1>1 DEF WakesHeads, Silent
<1>6. InFront(work)'
  BY <1>1 DEF DgInv, InFront
<1> QED BY <1>1, <1>3, <1>4, <1>5, <1>6 DEF DgInv

LEMMA DgStarts == DgInit => DgInv
<1> SUFFICES ASSUME DgInit PROVE DgInv
  OBVIOUS
<1>1. /\ dgSetting \in DgSettings /\ work = [t \in DgTask |-> NoDgTask] /\ keyed = [x \in {} |-> NoDgTask]
      /\ current = 0 /\ call = [c \in DgClient |-> Resting] /\ woken = Silent
  BY DEF DgInit
<1>2. Accepted = {} /\ work \in Works /\ \A t \in DgTask : work[t] = NoDgTask
  BY <1>1 DEF Accepted, Works
<1>3. Cardinality(Accepted) <= dgSetting.tasks
  BY <1>1, <1>2, FS_EmptySet, DelegationAssumption
<1>4. WorkInv
  BY <1>1, <1>2, <1>3 DEF WorkInv, Apart, IdentityOnce, IsRoot
<1> QED BY <1>1, <1>2, <1>4 DEF DgInv, InFront, CallOf, WakesHeads, Silent

LEMMA DgSteps == DgInv /\ [DgNext]_dgVars => DgInv'
<1> SUFFICES ASSUME DgInv, [DgNext]_dgVars PROVE DgInv'
  OBVIOUS
<1>1. CASE UNCHANGED dgVars
  <2>1. /\ dgSetting' = dgSetting /\ onHold' = onHold /\ current' = current /\ keyed' = keyed
        /\ work' = work /\ call' = call /\ woken' = woken
    BY <1>1 DEF dgVars
  <2>2. Accepted' = Accepted
    BY <2>1 DEF Accepted
  <2>3. WorkInv'
    BY <2>1, LaterSelf, WorkStays DEF DgInv, WorkInv
  <2>4. WakesHeads'
    BY <2>1 DEF DgInv, WakesHeads, HeadOf, LaneOf
  <2> QED BY <2>1, <2>2, <2>3, <2>4 DEF DgInv, InFront, CallOf
<1>2. CASE DgNext
  BY <1>2, ReplaysKeeps, CreatesKeeps, IndexesKeeps, AssignedKeeps, CutsKeep, StartKeeps, CancelKeeps,
     EditKeeps, ReportKeeps, OthersKeep DEF DgNext
<1> QED BY <1>1, <1>2

LEMMA DgKept == DgSpec => []DgInv
<1>1. DgInit => DgInv
  BY DgStarts
<1>2. DgInv /\ [DgNext]_dgVars => DgInv'
  BY DgSteps
<1> QED BY <1>1, <1>2, PTL DEF DgSpec

\* "Each historical root (slug, stage, attempt) is unique even after terminal
\* state" (server.rs:735), for any clients, keys, tasks and cuts, while the
\* portfolio fits its listing: the search for the identity and the write of the
\* task are one hold of the lock, and keys and lanes need not agree with it.
THEOREM IdentitiesStayUnique == DgSpec => []IdentityOnce
<1>1. DgInv => IdentityOnce
  BY DEF DgInv, WorkInv
<1> QED BY <1>1, DgKept, PTL

\* An answer recommends to start only what is ready and first in its lane, of a
\* principal that is not held (ready_task_id, server.rs): in a lane, what is given
\* out or running is never behind what waits.
THEOREM HeadsOnly == DgSpec => []WakesHeads
<1>1. DgInv => WakesHeads
  BY DEF DgInv
<1> QED BY <1>1, DgKept, PTL

\* What a promotion changes.
LEMMA PromotedState ==
    ASSUME NEW W \in Works, NEW p, NEW u \in DgTask, W[u] # NoDgTask
    PROVE  \/ Promoted(W, p)[u] = W[u]
           \/ W[u].state = "queued" /\ Promoted(W, p)[u] = [W[u] EXCEPT !.state = "ready"]
<1> DEFINE h == HeadOf(W, p)
<1>1. CASE Promoted(W, p) = W
  BY <1>1
<1>2. CASE Promoted(W, p) # W
  <2>1. /\ LaneOf(W, p) # {} /\ \A t \in LaneOf(W, p) : W[t].state = "queued"
        /\ Promoted(W, p) = [W EXCEPT ![h].state = "ready"]
    BY <1>2 DEF Promoted
  <2>2. h \in LaneOf(W, p) /\ h \in DgTask
    BY <2>1, HeadIsFirst DEF LaneOf
  <2> HIDE DEF h
  <2>3. CASE u = h
    BY <2>1, <2>2, <2>3 DEF Works
  <2>4. CASE u # h
    BY <2>1, <2>2, <2>4 DEF Works
  <2> QED BY <2>3, <2>4
<1> QED BY <1>1, <1>2

\* How a task moves: what is done stays so, a status comes with the end.
Moves(x, y) == y.state = "done" \/ (x.state # "done" /\ y.status = x.status)

OpenHasNone == \A t \in Accepted : work[t].state # "done" => work[t].status = "none"

LEMMA PromotedMoves ==
    ASSUME NEW W \in Works, NEW p, NEW u \in DgTask, W[u] # NoDgTask
    PROVE  /\ Promoted(W, p)[u].status = W[u].status
           /\ Promoted(W, p)[u].project = W[u].project /\ Promoted(W, p)[u].order = W[u].order
           /\ \/ Promoted(W, p)[u].state = W[u].state
              \/ W[u].state = "queued" /\ Promoted(W, p)[u].state = "ready"
<1>1. W[u] \in DgWork
  BY DEF Works
<1>2. /\ [W[u] EXCEPT !.state = "ready"].state = "ready"
      /\ [W[u] EXCEPT !.state = "ready"].status = W[u].status
      /\ [W[u] EXCEPT !.state = "ready"].project = W[u].project
      /\ [W[u] EXCEPT !.state = "ready"].order = W[u].order
  BY <1>1 DEF DgWork
<1> DEFINE x == [W[u] EXCEPT !.state = "ready"]  y == Promoted(W, p)[u]
<1>3. y = W[u] \/ (W[u].state = "queued" /\ y = x)
  BY PromotedState
<1> HIDE DEF x, y
<1>4. CASE y = W[u]
  BY <1>4 DEF y
<1>5. CASE W[u].state = "queued" /\ y = x
  <2>1. /\ x.state = "ready" /\ x.status = W[u].status
        /\ x.project = W[u].project /\ x.order = W[u].order
    BY <1>2 DEF x
  <2> QED BY <1>5, <2>1 DEF y
<1> QED BY <1>3, <1>4, <1>5

\* A task that is running ends by a report.
RunsOn(t) ==
    work[t].state = "running" =>
        \/ work'[t].state = "running"
        \/ \E c \in DgClient, s \in {"COMPLETED", "BLOCKED"} : ReportTask(c, t, s)

\* A task of another lane, or one behind, is promoted at most.
Stays(x, y) ==
    y.status = x.status /\ (y.state = x.state \/ (x.state = "queued" /\ y.state = "ready"))

LEMMA PromotedGoes ==
    ASSUME DgInv, NEW t \in Accepted, NEW p, work' = Promoted(work, p)
    PROVE  Moves(work[t], work'[t]) /\ RunsOn(t)
<1>1. work \in Works /\ t \in DgTask /\ work[t] # NoDgTask
  BY DEF DgInv, WorkInv, Accepted
<1>2. work'[t].status = work[t].status /\ \/ work'[t].state = work[t].state
                                          \/ work[t].state = "queued" /\ work'[t].state = "ready"
  BY <1>1, PromotedMoves
<1> QED BY <1>2 DEF Moves, RunsOn

LEMMA SameGoes == ASSUME DgInv, NEW t \in Accepted, work' = work PROVE Moves(work[t], work'[t]) /\ RunsOn(t)
  BY DEF Moves, RunsOn

LEMMA StartGoes ==
    ASSUME DgInv, NEW t \in Accepted, NEW c \in DgClient, NEW u \in DgTask, StartTask(c, u)
    PROVE  Moves(work[t], work'[t]) /\ RunsOn(t)
<1> DEFINE W == Promoted(work, PrincipalOf[c])
<1>1. work \in Works /\ t \in DgTask /\ work[t] # NoDgTask
  BY DEF DgInv, WorkInv, Accepted
<1>2. W[t].status = work[t].status /\ \/ W[t].state = work[t].state
                                      \/ work[t].state = "queued" /\ W[t].state = "ready"
  BY <1>1, PromotedMoves
<1>3. W[u].state = "ready" /\ work' = [W EXCEPT ![u].state = "running"]
  BY DEF StartTask
<1>4. W \in Works /\ W[t] \in DgWork
  BY <1>1, PromotedLater DEF Later, Works
<1> HIDE DEF W
<1>5. work'[t].status = W[t].status /\ work'[t].state = IF t = u THEN "running" ELSE W[t].state
  BY <1>1, <1>3, <1>4 DEF Works, DgWork
<1> QED BY <1>2, <1>3, <1>5 DEF Moves, RunsOn

\* An end of a task, and the promotion behind it.
LEMMA EndGoes ==
    ASSUME DgInv, NEW t \in Accepted, NEW u \in Accepted, NEW p, NEW s \in {"COMPLETED", "BLOCKED", "CANCELLED"},
           work' = Promoted([work EXCEPT ![u].state = "done", ![u].status = s], p)
    PROVE  /\ t = u => work'[t].state = "done"
           /\ t # u => Stays(work[t], work'[t])
           /\ work'[t].project = work[t].project /\ work'[t].order = work[t].order
<1> DEFINE W == [work EXCEPT ![u].state = "done", ![u].status = s]
<1>1. work \in Works /\ t \in DgTask /\ u \in DgTask /\ work[t] \in DgWork /\ work[u] \in DgWork
  BY AcceptedWork DEF DgInv, WorkInv, Accepted
<1>2. /\ W = [work EXCEPT ![u] = [work[u] EXCEPT !.state = "done", !.status = s]]
      /\ [work[u] EXCEPT !.state = "done", !.status = s] \in DgWork
  BY <1>1 DEF Works, DgWork
<1>3. W \in Works /\ W[t] # NoDgTask
  BY <1>1, <1>2, DelegationAssumption DEF Works
<1>4. /\ W[t].project = work[t].project /\ W[t].order = work[t].order
      /\ t # u => W[t] = work[t]
      /\ t = u => W[t].state = "done"
  BY <1>1, <1>2 DEF Works, DgWork
<1> HIDE DEF W
<1>5. work' = Promoted(W, p)
  BY DEF W
<1>6. /\ work'[t].status = W[t].status /\ work'[t].project = W[t].project /\ work'[t].order = W[t].order
      /\ work'[t].state = W[t].state \/ (W[t].state = "queued" /\ work'[t].state = "ready")
  BY <1>1, <1>3, <1>5, PromotedMoves
<1> QED BY <1>4, <1>6 DEF Stays

LEMMA CancelGoes ==
    ASSUME DgInv, OpenHasNone, NEW t \in Accepted, NEW c \in DgClient, NEW u \in DgTask, CancelTask(c, u)
    PROVE  Moves(work[t], work'[t]) /\ RunsOn(t)
<1>1. /\ u \in Accepted
      /\ work[u].state \in {"queued", "ready"} \/ work[u].status = "CANCELLED"
      /\ work' = Promoted([work EXCEPT ![u].state = "done", ![u].status = "CANCELLED"], work[u].assignee)
  BY DEF CancelTask
<1>2. u \in Accepted
  BY DEF CancelTask
<1>3. work[u].state # "running"
  BY <1>1, <1>2 DEF OpenHasNone
<1>4. /\ t = u => work'[t].state = "done"
      /\ t # u => Stays(work[t], work'[t])
  BY <1>1, <1>2, EndGoes
<1> QED BY <1>3, <1>4 DEF Moves, RunsOn, Stays

LEMMA ReportGoes ==
    ASSUME DgInv, NEW t \in Accepted, NEW c \in DgClient, NEW u \in DgTask, NEW s \in {"COMPLETED", "BLOCKED"},
           ReportTask(c, u, s)
    PROVE  Moves(work[t], work'[t]) /\ RunsOn(t)
<1>1. u \in Accepted /\ work' = Promoted([work EXCEPT ![u].state = "done", ![u].status = s], PrincipalOf[c])
  BY DEF ReportTask
<1>2. /\ t = u => work'[t].state = "done"
      /\ t # u => Stays(work[t], work'[t])
  BY <1>1, EndGoes
<1> QED BY <1>2 DEF Moves, RunsOn, Stays

LEMMA EditGoes ==
    ASSUME DgInv, NEW t \in Accepted, NEW c \in DgClient, NEW u \in DgTask, EditWork(c, u)
    PROVE  Moves(work[t], work'[t]) /\ RunsOn(t)
<1>1. work \in Works /\ t \in DgTask /\ work[t] \in DgWork
  BY AcceptedWork DEF DgInv, WorkInv, Accepted
<1>2. work'[t].state = work[t].state /\ work'[t].status = work[t].status
  <2>1. CASE work' = [work EXCEPT ![u].project = ~@, ![u].edited = TRUE]
    BY <1>1, <2>1 DEF Works, DgWork
  <2>2. ASSUME NEW n, work' = [work EXCEPT ![u].attempt = n, ![u].edited = TRUE]
        PROVE  work'[t].state = work[t].state /\ work'[t].status = work[t].status
    BY <1>1, <2>2 DEF Works, DgWork
  <2> QED BY <2>1, <2>2 DEF EditWork
<1> QED BY <1>2 DEF Moves, RunsOn

LEMMA CreateGoes ==
    ASSUME DgInv, NEW c \in DgClient, NEW r, NEW k, Creates(c, r, k)
    PROVE  /\ \A t \in Accepted : Moves(work[t], work'[t]) /\ RunsOn(t)
           /\ \A t \in Accepted' \ Accepted : work'[t].status = "none"
<1> DEFINE n == CHOOSE u \in DgTask : u \notin Accepted
           W == Promoted(work, r.assignee)
<1>1. PICK x : x.status = "none" /\ x.state = "queued" /\ work' = [W EXCEPT ![n] = x]
  BY DEF Creates
<1>2. Cardinality(Accepted) < dgSetting.tasks
  BY DEF Creates
<1>3. work \in Works
  BY DEF DgInv, WorkInv
<1>4. n \in DgTask /\ n \notin Accepted
  <2>1. Cardinality(Accepted) < Cardinality(DgTask) /\ Accepted \subseteq DgTask
    BY <1>2, TasksFinite, DelegationAssumption DEF DgInv, WorkInv, Accepted
  <2>2. \E u \in DgTask : u \notin Accepted
    BY <2>1, TasksFinite
  <2> QED BY <2>2
<1>5. W \in Works /\ \A t \in DgTask : (W[t] = NoDgTask) = (work[t] = NoDgTask)
  BY <1>3, PromotedLater DEF Later
<1> HIDE DEF n
<1>6. ASSUME NEW t \in Accepted PROVE Moves(work[t], work'[t]) /\ RunsOn(t)
  <2>1. t \in DgTask /\ t # n /\ work[t] # NoDgTask
    BY <1>4 DEF Accepted
  <2>2. work'[t] = W[t]
    BY <1>1, <1>5, <2>1 DEF Works
  <2>3. W[t].status = work[t].status /\ \/ W[t].state = work[t].state
                                        \/ work[t].state = "queued" /\ W[t].state = "ready"
    BY <1>3, <2>1, PromotedMoves
  <2> QED BY <2>2, <2>3 DEF Moves, RunsOn
<1>7. ASSUME NEW t \in Accepted' \ Accepted PROVE work'[t].status = "none"
  <2>1. t \in DgTask /\ work'[t] # NoDgTask /\ work[t] = NoDgTask
    BY DEF Accepted
  <2>2. t = n
    <3> HIDE DEF W
    <3> QED BY <1>1, <1>5, <2>1 DEF Works
  <2> QED BY <1>1, <1>4, <1>5, <2>2 DEF Works
<1> QED BY <1>6, <1>7

LEMMA EndsOnly ==
    ASSUME DgInv, NEW u \in Accepted, NEW t \in DgTask, work[t] = NoDgTask, NEW p,
           NEW s \in {"COMPLETED", "BLOCKED", "CANCELLED"},
           work' = Promoted([work EXCEPT ![u].state = "done", ![u].status = s], p)
    PROVE  work'[t] = NoDgTask
<1> DEFINE W == [work EXCEPT ![u].state = "done", ![u].status = s]
<1>1. work \in Works /\ u \in DgTask /\ work[u] \in DgWork /\ u # t
  BY AcceptedWork DEF DgInv, WorkInv
<1>2. /\ W = [work EXCEPT ![u] = [work[u] EXCEPT !.state = "done", !.status = s]]
      /\ [work[u] EXCEPT !.state = "done", !.status = s] \in DgWork
  BY <1>1 DEF Works, DgWork
<1>3. W \in Works /\ W[t] = NoDgTask
  BY <1>1, <1>2 DEF Works
<1> HIDE DEF W
<1>4. work' = Promoted(W, p)
  BY DEF W
<1> QED BY <1>3, <1>4, PromotedLater DEF Later

\* Only an assignment makes a task.
LEMMA NothingNew ==
    ASSUME DgInv, NEW t \in DgTask, work[t] = NoDgTask, [DgNext]_dgVars,
           ~ \E c \in DgClient, k \in dgSetting.keys : \E r \in Requests(c) : Creates(c, r, k)
    PROVE  work'[t] = NoDgTask
<1>1. work \in Works
  BY DEF DgInv, WorkInv
<1>2. \A p : Promoted(work, p) \in Works /\ Promoted(work, p)[t] = NoDgTask
  BY <1>1, PromotedLater DEF Later
<1>3. CASE work' = work \/ \E p : work' = Promoted(work, p)
  BY <1>2, <1>3
<1>4. ASSUME NEW c \in DgClient, NEW u \in DgTask,
             StartTask(c, u) \/ CancelTask(c, u) \/ EditWork(c, u) \/ \E s \in {"COMPLETED", "BLOCKED"} : ReportTask(c, u, s)
      PROVE  work'[t] = NoDgTask
  <2>1. u \in Accepted /\ u # t /\ work[u] \in DgWork
    <3>1. u \in Accepted
      BY <1>4 DEF StartTask, CancelTask, EditWork, ReportTask
    <3> QED BY <3>1, AcceptedWork
  <2>2. CASE StartTask(c, u)
    BY <1>2, <2>1, <2>2 DEF StartTask, Works
  <2>4. CASE CancelTask(c, u)
    BY <2>1, <2>4, EndsOnly DEF CancelTask
  <2>5. CASE \E s \in {"COMPLETED", "BLOCKED"} : ReportTask(c, u, s)
    BY <2>1, <2>5, EndsOnly DEF ReportTask
  <2>6. CASE EditWork(c, u)
    BY <1>1, <2>1, <2>6 DEF EditWork, Works
  <2> QED BY <1>4, <2>2, <2>4, <2>5, <2>6
<1>5. ASSUME NEW c \in DgClient, NEW k, NEW r, Replays(c, r, k)
      PROVE  work' = work \/ \E p : work' = Promoted(work, p)
  BY <1>5 DEF Replays
<1>6. ASSUME NEW c \in DgClient, NEW u, NEW p,
             \/ Indexes(c) \/ Assigned(c) \/ CutCall(c)
             \/ TaskMessage(c, u, p) \/ ReconcileTaskQueue(c, p)
      PROVE  work' = work \/ \E q : work' = Promoted(work, q)
  BY <1>6 DEF Indexes, Assigned, CutCall, TaskMessage, ReconcileTaskQueue
<1>7. RestartServer \/ UNCHANGED dgVars => work' = work
  BY DEF RestartServer, dgVars
<1> QED BY <1>3, <1>4, <1>5, <1>6, <1>7 DEF DgNext

LEMMA StepGoes ==
    ASSUME DgInv, OpenHasNone, [DgNext]_dgVars
    PROVE  /\ \A t \in Accepted : Moves(work[t], work'[t]) /\ RunsOn(t)
           /\ \A t \in Accepted' \ Accepted : work'[t].status = "none"
<1>1. ASSUME NEW c \in DgClient, NEW k \in dgSetting.keys, NEW r \in Requests(c), Creates(c, r, k)
      PROVE  /\ \A t \in Accepted : Moves(work[t], work'[t]) /\ RunsOn(t)
             /\ \A t \in Accepted' \ Accepted : work'[t].status = "none"
  BY <1>1, CreateGoes
<1>2. ASSUME ~ \E c \in DgClient, k \in dgSetting.keys : \E r \in Requests(c) : Creates(c, r, k)
      PROVE  \A t \in Accepted : Moves(work[t], work'[t]) /\ RunsOn(t)
  <2> TAKE t \in Accepted
  <2>1. CASE work' = work \/ \E p : work' = Promoted(work, p)
    BY <2>1, SameGoes, PromotedGoes
  <2>2. CASE \E c \in DgClient, u \in DgTask : \/ StartTask(c, u) \/ CancelTask(c, u) \/ EditWork(c, u)
                                              \/ \E s \in {"COMPLETED", "BLOCKED"} : ReportTask(c, u, s)
    BY <2>2, StartGoes, CancelGoes, EditGoes, ReportGoes
  <2>3. ASSUME NEW c \in DgClient, NEW k, NEW r, Replays(c, r, k)
        PROVE  work' = work \/ \E p : work' = Promoted(work, p)
    BY <2>3 DEF Replays
  <2>4. ASSUME NEW c \in DgClient, Indexes(c) \/ Assigned(c) \/ CutCall(c) \/ RestartServer \/ UNCHANGED dgVars
        PROVE  work' = work \/ \E p : work' = Promoted(work, p)
    BY <2>4 DEF Indexes, Assigned, CutCall, RestartServer, dgVars
  <2>5. ASSUME NEW c \in DgClient, NEW u, NEW p, TaskMessage(c, u, p) \/ ReconcileTaskQueue(c, p)
        PROVE  work' = work \/ \E q : work' = Promoted(work, q)
    BY <2>5 DEF TaskMessage, ReconcileTaskQueue
  <2>6. RestartServer \/ UNCHANGED dgVars => work' = work
    BY DEF RestartServer, dgVars
  <2> QED BY <1>2, <2>1, <2>2, <2>3, <2>4, <2>5, <2>6 DEF DgNext
<1>3. ASSUME ~ \E c \in DgClient, k \in dgSetting.keys : \E r \in Requests(c) : Creates(c, r, k)
      PROVE  \A t \in Accepted' \ Accepted : work'[t].status = "none"
  BY <1>3, NothingNew DEF Accepted
<1> QED BY <1>1, <1>2, <1>3

LEMMA NoneStays == DgInv /\ OpenHasNone /\ [DgNext]_dgVars => OpenHasNone'
<1> SUFFICES ASSUME DgInv, OpenHasNone, [DgNext]_dgVars, NEW t \in Accepted', work'[t].state # "done"
             PROVE  work'[t].status = "none"
  BY DEF OpenHasNone
<1> QED BY StepGoes DEF OpenHasNone, Moves

LEMMA TasksAreListed ==
    ASSUME WorkInv, NEW u \in Accepted, work[u].project
    PROVE  u \in Listed
<1> DEFINE S == {v \in Accepted : work[v].project /\ work[v].order < work[u].order}
<1>1. /\ Accepted \in SUBSET DgTask /\ S \subseteq Accepted \ {u} /\ Accepted \ {u} \in SUBSET DgTask
  <2>1. work[u] \in DgWork
    BY DEF WorkInv, Works, Accepted
  <2>2. ~(work[u].order < work[u].order)
    BY <2>1 DEF DgWork
  <2> QED BY <2>2 DEF Accepted
<1>2. /\ Cardinality(S) <= Cardinality(Accepted \ {u}) /\ Cardinality(S) \in Nat /\ Cardinality(Accepted) \in Nat
      /\ Cardinality(Accepted \ {u}) = Cardinality(Accepted) - 1
  BY <1>1, TasksFinite, FS_Subset, FS_RemoveElement
<1>3. /\ dgSetting.tasks <= PortfolioDepth /\ dgSetting.tasks \in Nat /\ PortfolioDepth \in Nat
      /\ Cardinality(Accepted) <= dgSetting.tasks
  BY PortfolioFits, DelegationAssumption DEF WorkInv
<1>4. Cardinality(S) < PortfolioDepth
  BY <1>2, <1>3
<1> QED BY <1>4 DEF Listed

\* The tasks of the index that are in work.
InWork == {t \in Counted : StatusOf(work[t]) = "IN_WORK"}

LEMMA ReportShows ==
    ASSUME DgInv, DgInv', NEW c \in DgClient, NEW t \in Accepted, NEW s \in {"COMPLETED", "BLOCKED"},
           ReportTask(c, t, s), work[t].state = "running", IsCurrent(work[t]),
           work[t].issuer \notin onHold \cup woken'.calls
    PROVE  PortfolioIndex' # PortfolioIndex
<1>1. /\ work' = Promoted([work EXCEPT ![t].state = "done", ![t].status = s], PrincipalOf[c])
      /\ woken'.calls = Called(work[t])
  BY DEF ReportTask, Answers, Fenced
<1>2. work[t].project
  BY <1>1 DEF Called, Polled
<1>0. Accepted' \subseteq Accepted
  <2>1. ASSUME NEW u \in DgTask, work[u] = NoDgTask PROVE work'[u] = NoDgTask
    BY <1>1, <2>1, EndsOnly
  <2> QED BY <2>1 DEF Accepted
<1>3. t \in Listed /\ t \in InWork
  BY <1>2, TasksAreListed DEF InWork, Counted, StatusOf, DgInv
<1>4. InWork' \subseteq InWork \ {t}
  <2> SUFFICES ASSUME NEW u \in InWork' PROVE u \in InWork \ {t}
    OBVIOUS
  <2>1. u \in Accepted' /\ work'[u].project /\ StatusOf(work'[u]) = "IN_WORK"
    BY DEF InWork, Counted, Listed
  <2>2. u \in Accepted
    BY <1>0, <2>1
  <2>3. work'[u] \in DgWork
    BY <2>1, AcceptedWork DEF DgInv, WorkInv, Works, Accepted
  <2>4. work'[u].state = "running"
    BY <2>1, <2>3 DEF StatusOf, DgWork
  <2>5. u # t /\ Stays(work[u], work'[u]) /\ work'[u].project = work[u].project
    BY <1>1, <2>2, <2>4, EndGoes
  <2>6. work[u].state = "running" /\ work[u].project
    BY <2>1, <2>4, <2>5 DEF Stays
  <2>7. u \in Listed
    BY <2>2, <2>6, TasksAreListed DEF DgInv
  <2> QED BY <2>5, <2>6, <2>7 DEF InWork, Counted, StatusOf
<1>5. InWork \in SUBSET DgTask /\ InWork \ {t} \in SUBSET DgTask
  BY DEF InWork, Counted, Listed, Accepted
<1>6. Cardinality(InWork \ {t}) = Cardinality(InWork) - 1 /\ Cardinality(InWork) \in Nat
  BY <1>3, <1>5, TasksFinite, FS_RemoveElement
<1>7. IsFiniteSet(InWork \ {t})
  BY <1>5, TasksFinite
<1>8. Cardinality(InWork') <= Cardinality(InWork \ {t}) /\ Cardinality(InWork') \in Nat
  BY <1>4, <1>7, FS_Subset, FS_CardinalityType
<1>9. Cardinality(InWork') # Cardinality(InWork)
  BY <1>6, <1>8
<1>10. /\ PortfolioIndex.counts["IN_WORK"] = Cardinality(InWork)
       /\ PortfolioIndex'.counts["IN_WORK"] = Cardinality(InWork')
  BY DEF PortfolioIndex, InWork
<1> QED BY <1>9, <1>10

\* A terminal report of a task of the current generation for which the issuer is not woken
\* shows in the index that it polls (polled_manager_portfolio): it counts one task less in work, as that index
\* lists every task of a portfolio that fits.
THEOREM ReportsArePolled == DgSpec => PolledSeen
<1>1. DgInv /\ DgInv' /\ OpenHasNone /\ [DgNext]_dgVars =>
        [\A t \in DgTask :
           /\ t \in Accepted /\ work[t].state = "running" /\ work'[t].state = "done"
           /\ IsCurrent(work[t]) /\ work[t].issuer \notin onHold \cup woken'.calls
           => PortfolioIndex' # PortfolioIndex]_dgVars
  <2> SUFFICES ASSUME DgInv, DgInv', OpenHasNone, [DgNext]_dgVars, NEW t \in Accepted,
                      work[t].state = "running", work'[t].state = "done", IsCurrent(work[t]),
                      work[t].issuer \notin onHold \cup woken'.calls
               PROVE  PortfolioIndex' # PortfolioIndex
    OBVIOUS
  <2>1. PICK c \in DgClient, s \in {"COMPLETED", "BLOCKED"} : ReportTask(c, t, s)
    BY StepGoes DEF RunsOn
  <2> QED BY <2>1, ReportShows
<1>2. DgInit => OpenHasNone
  BY DelegationAssumption DEF DgInit, OpenHasNone, Accepted
<1>3. OpenHasNone /\ DgInv /\ [DgNext]_dgVars => OpenHasNone'
  BY NoneStays
<1> QED BY <1>1, <1>2, <1>3, DgKept, PTL DEF DgSpec, PolledSeen

----------------------------------------------------------------------------
(* Accounts: what was answered is in the files *)

AcUser == [id : Nat, name : AcName, oauth : BOOLEAN, active : BOOLEAN, groups : {0, 1}, rotated : Nat]
AcRule == [id : Nat, name : AcName]

\* Handlers between what they read and what they write.
WithUser(r) == acJob[r].at \in {"insert", "oauthInsert", "update"}
WithRule(r) == acJob[r].at \in {"addRule", "setRule", "dropRule"}

HandlerOK(r) ==
    /\ acJob[r].at \in {"idle", "insert", "oauthInsert", "update", "addRule", "setRule", "dropRule", "save"}
    /\ WithUser(r) => acJob[r].x \in AcUser
    /\ WithRule(r) => acJob[r].x \in AcRule /\ acJob[r].x.id <= acOps
    /\ acJob[r].at = "addRule" => acJob[r].x.id \notin RuleIds(rules) \cup RuleIds(rulesFile) \cup dropped
    /\ acJob[r].at = "save" /\ acJob[r].list = "users" => HasId(users, acJob[r].x.id)
    /\ acJob[r].at = "save" /\ acJob[r].list # "users" =>
          IF acJob[r].makes = "gone"
          THEN acJob[r].x.id \in dropped /\ acJob[r].x.id \notin RuleIds(rules)
          ELSE acJob[r].x.id \in RuleIds(rules) \cup dropped

AcInv ==
    /\ users \in Seq(AcUser) /\ usersFile \in Seq(AcUser)
    /\ rules \subseteq AcRule /\ rulesFile \subseteq AcRule
    /\ acOps \in Nat /\ acClock \in Nat
    /\ acJob = [r \in AcRequest |-> acJob[r]]
    /\ \A id \in keptUsers : HasId(users, id) /\ HasId(usersFile, id)
    /\ \A id \in keptRules \ dropped : id \in RuleIds(rules) /\ id \in RuleIds(rulesFile)
    /\ goneRules \subseteq dropped
    /\ goneRules \cap (RuleIds(rules) \cup RuleIds(rulesFile)) = {}
    /\ \A id \in RuleIds(rules) \cup RuleIds(rulesFile) \cup dropped : id \in Nat /\ id <= acOps
    /\ \A r \in AcRequest : HandlerOK(r)
    /\ \A r, d \in AcRequest : r # d /\ acJob[r].at = "addRule" /\ WithRule(d) =>
          acJob[r].x.id # acJob[d].x.id

LEMMA Lengthens ==
    ASSUME NEW list \in Seq(AcUser), NEW u \in AcUser
    PROVE  /\ Append(list, u) \in Seq(AcUser) /\ HasId(Append(list, u), u.id)
           /\ \A id : HasId(list, id) => HasId(Append(list, u), id)
<1> DEFINE longer == Append(list, u)
<1>1. /\ longer \in Seq(AcUser) /\ Len(list) \in Nat /\ Len(longer) = Len(list) + 1
      /\ longer[Len(list) + 1] = u /\ \A k \in 1 .. Len(list) : longer[k] = list[k]
  OBVIOUS
<1>2. HasId(longer, u.id)
  BY <1>1 DEF HasId
<1>3. ASSUME NEW id, HasId(list, id) PROVE HasId(longer, id)
  BY <1>1, <1>3 DEF HasId
<1> QED BY <1>1, <1>2, <1>3

LEMMA ReplacedKeeps ==
    ASSUME NEW list \in Seq(AcUser), NEW u \in AcUser
    PROVE  /\ Replaced(list, u) \in Seq(AcUser)
           /\ \A id : HasId(list, id) => HasId(Replaced(list, u), id)
<1> DEFINE new == Replaced(list, u)
<1>1. /\ Len(list) \in Nat /\ new = [k \in 1 .. Len(list) |-> IF list[k].id = u.id THEN u ELSE list[k]]
      /\ \A k \in 1 .. Len(list) : list[k] \in AcUser
  BY DEF Replaced
<1>2. new \in Seq(AcUser) /\ Len(new) = Len(list)
  BY <1>1
<1>3. \A k \in 1 .. Len(list) : new[k].id = list[k].id
  BY <1>1
<1>4. ASSUME NEW id, HasId(list, id) PROVE HasId(new, id)
  <2>1. PICK k \in 1 .. Len(list) : list[k].id = id
    BY <1>4 DEF HasId
  <2>2. k \in 1 .. Len(new) /\ new[k].id = id
    BY <1>2, <1>3, <2>1
  <2> QED BY <2>2 DEF HasId
<1> QED BY <1>2, <1>4

LEMMA RuleIdsOf == ASSUME NEW S, NEW T PROVE RuleIds(S \cup T) = RuleIds(S) \cup RuleIds(T)
  BY DEF RuleIds

LEMMA RuleIdsWithout == ASSUME NEW S, NEW id PROVE RuleIds(Without(S, id)) = RuleIds(S) \ {id}
  BY DEF RuleIds, Without

LEMMA HandlerIs == ASSUME AcInv, NEW r \in AcRequest, NEW x, AcGoes(r, x)
    PROVE  /\ acJob' = [d \in AcRequest |-> acJob'[d]] /\ acJob'[r] = x
           /\ \A d \in AcRequest \ {r} : acJob'[d] = acJob[d]
  BY DEF AcInv, AcGoes

LEMMA HandlerStays ==
    ASSUME AcInv, NEW d \in AcRequest, acJob'[d] = acJob[d],
           acOps \in Nat, acOps' \in Nat, acOps <= acOps', dropped \subseteq dropped',
           acJob[d].at = "addRule" =>
               acJob[d].x.id \notin RuleIds(rules') \cup RuleIds(rulesFile') \cup dropped',
           \A id : HasId(users, id) => HasId(users', id),
           \A id \in RuleIds(rules) : id \in RuleIds(rules') \cup dropped',
           \A id \in dropped : id \notin RuleIds(rules) => id \notin RuleIds(rules')
    PROVE  HandlerOK(d)'
<1>1. HandlerOK(d)
  BY DEF AcInv
<1>2. WithRule(d) => acJob[d].x.id \in Nat
  BY <1>1 DEF HandlerOK, AcRule
<1>3. WithRule(d) => acJob[d].x.id <= acOps'
  BY <1>1, <1>2 DEF HandlerOK
<1>4. WithUser(d)' = WithUser(d) /\ WithRule(d)' = WithRule(d)
  BY DEF WithUser, WithRule
<1>5. HandlerOK(d)!1' /\ HandlerOK(d)!2' /\ HandlerOK(d)!3' /\ HandlerOK(d)!4'
  BY <1>1, <1>3, <1>4 DEF HandlerOK
<1>6. HandlerOK(d)!5' /\ HandlerOK(d)!6'
  BY <1>1 DEF HandlerOK
<1> QED BY <1>5, <1>6 DEF HandlerOK

\* A handler that only reads, and goes on with a user or a rule of its own.
LEMMA HandlerReads ==
    ASSUME AcInv, NEW r \in AcRequest, NEW x, AcGoes(r, x), UNCHANGED <<Lists, AcKept>>,
           acOps' \in Nat, acOps <= acOps', acClock' \in Nat,
           x.at \in {"idle", "insert", "oauthInsert", "update", "addRule", "setRule", "dropRule"},
           x.at \in {"insert", "oauthInsert", "update"} => x.x \in AcUser,
           x.at \in {"addRule", "setRule", "dropRule"} => x.x \in AcRule,
           x.at \in {"setRule", "dropRule"} => x.x.id \in RuleIds(rules),
           x.at = "addRule" => x.x.id = acOps' /\ acOps' = acOps + 1
    PROVE  AcInv'
<1>1. /\ users' = users /\ rules' = rules /\ usersFile' = usersFile /\ rulesFile' = rulesFile
      /\ keptUsers' = keptUsers /\ keptRules' = keptRules /\ dropped' = dropped /\ goneRules' = goneRules
      /\ acOps \in Nat
  BY DEF Lists, AcKept, AcInv
<1>2. /\ acJob' = [d \in AcRequest |-> acJob'[d]] /\ acJob'[r] = x
      /\ \A d \in AcRequest \ {r} : acJob'[d] = acJob[d]
  BY HandlerIs
<1>3. \A id \in RuleIds(rules) \cup RuleIds(rulesFile) \cup dropped : id \in Nat /\ id <= acOps
  BY DEF AcInv
<1>4. HandlerOK(r)'
  BY <1>1, <1>2, <1>3 DEF HandlerOK, WithUser, WithRule
<1>5. ASSUME NEW d \in AcRequest \ {r} PROVE HandlerOK(d)'
  <2>1. HandlerOK(d)
    BY DEF AcInv
  <2> QED BY <1>1, <1>2, <2>1, HandlerStays DEF HandlerOK
<1>6. \A d \in AcRequest : WithRule(d) => acJob[d].x.id \in Nat /\ acJob[d].x.id <= acOps
  BY DEF AcInv, HandlerOK, AcRule
<1>7. ASSUME NEW d \in AcRequest, NEW e \in AcRequest, d # e,
             (acJob[d].at = "addRule")', WithRule(e)'
      PROVE  acJob'[d].x.id # acJob'[e].x.id
  <2>1. CASE d # r /\ e # r
    BY <1>2, <1>7, <2>1 DEF AcInv, WithRule
  <2>2. CASE d = r
    <3>1. x.x.id = acOps + 1 /\ acJob'[e] = acJob[e]
      BY <1>2, <1>7, <2>2
    <3>2. acJob[e].x.id \in Nat /\ acJob[e].x.id <= acOps
      BY <1>6, <1>7, <3>1 DEF WithRule
    <3> QED BY <1>1, <1>2, <2>2, <3>1, <3>2
  <2>3. CASE e = r
    <3>1. acJob'[d] = acJob[d] /\ acJob[d].at = "addRule" /\ HandlerOK(d)
      BY <1>2, <1>7, <2>3 DEF AcInv
    <3>2. acJob[d].x.id \notin RuleIds(rules) /\ acJob[d].x.id \in Nat /\ acJob[d].x.id <= acOps
      BY <1>6, <3>1 DEF HandlerOK, WithRule
    <3>3. x.at \in {"addRule", "setRule", "dropRule"}
      BY <1>2, <1>7, <2>3 DEF WithRule
    <3> QED BY <1>1, <1>2, <2>3, <3>1, <3>2, <3>3
  <2> QED BY <2>1, <2>2, <2>3
<1>8. \A id \in RuleIds(rules) \cup RuleIds(rulesFile) \cup dropped : id \in Nat /\ id <= acOps'
  BY <1>1, <1>3
<1> QED BY <1>1, <1>2, <1>4, <1>5, <1>7, <1>8 DEF AcInv

LEMMA FirstIsOne ==
    ASSUME NEW list \in Seq(AcUser), NEW ks \in SUBSET (1 .. Len(list)), ks # {}
    PROVE  FirstOf(list, ks) \in AcUser
<1>1. PICK k \in ks : \A m \in ks : k <= m
  <2>1. ks \in SUBSET Nat
    OBVIOUS
  <2> QED BY <2>1, Least
<1>2. PICK f : f = CHOOSE i \in ks : \A m \in ks : i <= m
  OBVIOUS
<1>3. f \in 1 .. Len(list)
  BY <1>1, <1>2
<1>4. list[f] \in AcUser
  BY <1>3
<1> QED BY <1>2, <1>4 DEF FirstOf

LEMMA AskedIs == ASSUME AcInv, NEW r \in AcRequest, NEW kind, AcAsked(r, kind)
    PROVE  /\ UNCHANGED <<Lists, AcKept>> /\ acOps' = acOps + 1 /\ acOps' \in Nat /\ acOps <= acOps'
           /\ acClock' \in Nat
  BY DEF AcInv, AcAsked

LEMMA IdleGoes ==
    ASSUME AcInv, NEW r \in AcRequest, AcGoes(r, AcIdle), UNCHANGED <<Lists, AcKept>>,
           acOps' \in Nat, acOps <= acOps', acClock' \in Nat
    PROVE  AcInv'
<1>1. AcIdle.at = "idle"
  BY DEF AcIdle
<1> QED BY <1>1, HandlerReads

LEMMA UpdateGoes ==
    ASSUME AcInv, NEW r \in AcRequest, NEW u \in AcUser, NEW makes,
           AcGoes(r, [at |-> "update", x |-> u, makes |-> makes]), UNCHANGED <<Lists, AcKept>>,
           acOps' \in Nat, acOps <= acOps', acClock' \in Nat
    PROVE  AcInv'
<1> DEFINE x == [at |-> "update", x |-> u, makes |-> makes]
<1>1. x.at = "update" /\ x.x \in AcUser
  OBVIOUS
<1>2. AcGoes(r, x)
  OBVIOUS
<1> HIDE DEF x
<1> QED BY <1>1, <1>2, HandlerReads

LEMMA InsertGoes ==
    ASSUME AcInv, NEW r \in AcRequest, NEW at \in {"insert", "oauthInsert"}, NEW n \in AcName,
           NEW oauth \in BOOLEAN, AcGoes(r, [at |-> at, x |-> NewUser(n, oauth)]),
           UNCHANGED <<Lists, AcKept>>, acOps' \in Nat, acOps <= acOps', acClock' \in Nat
    PROVE  AcInv'
<1> DEFINE x == [at |-> at, x |-> NewUser(n, oauth)]
<1>1. x.at \in {"insert", "oauthInsert"} /\ x.x \in AcUser
  BY DEF NewUser, AcUser
<1>2. AcGoes(r, x)
  OBVIOUS
<1> HIDE DEF x
<1> QED BY <1>1, <1>2, HandlerReads

LEMMA RegisterKeeps == ASSUME AcInv, NEW r \in AcRequest, NEW n \in AcName, Register(r, n) PROVE AcInv'
<1>1. AcAsked(r, "register")
  BY DEF Register
<1>2. \/ AcGoes(r, AcIdle)
      \/ AcGoes(r, [at |-> "insert", x |-> NewUser(n, FALSE)])
  BY DEF Register, GoesIf
<1> QED BY <1>1, <1>2, AskedIs, IdleGoes, InsertGoes

LEMMA LoginKeeps == ASSUME AcInv, NEW r \in AcRequest, NEW n \in AcName, Login(r, n) PROVE AcInv'
<1> DEFINE ks == Named(users, n)
<1>1. AcAsked(r, "login")
  BY DEF Login
<1>2. \/ AcGoes(r, AcIdle)
      \/ ks # {} /\ AcGoes(r, [at |-> "update", x |-> FirstOf(users, ks), makes |-> "tokens"])
  BY DEF Login
<1>3. ks \in SUBSET (1 .. Len(users)) /\ users \in Seq(AcUser)
  BY DEF Named, AcInv
<1>4. ks # {} => FirstOf(users, ks) \in AcUser
  BY <1>3, FirstIsOne
<1> QED BY <1>1, <1>2, <1>4, AskedIs, IdleGoes, UpdateGoes

LEMMA RefreshKeeps == ASSUME AcInv, NEW r \in AcRequest, Refresh(r) PROVE AcInv'
<1>1. PICK k \in 1 .. Len(users) :
         /\ AcAsked(r, "refresh")
         /\ \/ AcGoes(r, AcIdle)
            \/ AcGoes(r, [at |-> "update", x |-> [users[k] EXCEPT !.rotated = 0], makes |-> "error"])
            \/ AcGoes(r, [at |-> "update", x |-> [users[k] EXCEPT !.rotated = acClock], makes |-> "tokens"])
  BY DEF Refresh
<1>2. users[k] \in AcUser /\ acClock \in Nat
  BY DEF AcInv
<1>3. [users[k] EXCEPT !.rotated = 0] \in AcUser /\ [users[k] EXCEPT !.rotated = acClock] \in AcUser
  BY <1>2 DEF AcUser
<1> QED BY <1>1, <1>3, AskedIs, IdleGoes, UpdateGoes

LEMMA AdministerKeeps == ASSUME AcInv, NEW r \in AcRequest, Administer(r) PROVE AcInv'
<1>1. PICK k \in 1 .. Len(users), kind \in {"active", "groups"} :
         /\ AcAsked(r, kind)
         /\ AcGoes(r, [at |-> "update", makes |-> "done",
                       x |-> IF kind = "active" THEN [users[k] EXCEPT !.active = ~@]
                             ELSE [users[k] EXCEPT !.groups = 1 - @]])
  BY DEF Administer
<1>2. users[k] \in AcUser
  BY DEF AcInv
<1>3. users[k].active \in BOOLEAN /\ users[k].groups \in {0, 1}
  BY <1>2 DEF AcUser
<1>4. (~users[k].active) \in BOOLEAN /\ 1 - users[k].groups \in {0, 1}
  BY <1>3
<1>5. [users[k] EXCEPT !.active = ~@] \in AcUser
  BY <1>2, Zenon DEF AcUser
<1>6. [users[k] EXCEPT !.groups = 1 - @] \in AcUser
  BY <1>2, <1>4 DEF AcUser
<1> DEFINE u == IF kind = "active" THEN [users[k] EXCEPT !.active = ~@]
                ELSE [users[k] EXCEPT !.groups = 1 - @]
<1>7. u \in AcUser
  BY <1>5, <1>6
<1>8. AcGoes(r, [at |-> "update", x |-> u, makes |-> "done"])
  <2>1. [at |-> "update", x |-> u, makes |-> "done"] = [at |-> "update", makes |-> "done", x |-> u]
    OBVIOUS
  <2> QED BY <1>1, <2>1
<1> HIDE DEF u
<1> QED BY <1>1, <1>7, <1>8, AskedIs, UpdateGoes

LEMMA CallbackKeeps == ASSUME AcInv, NEW r \in AcRequest, NEW n \in AcName, Callback(r, n) PROVE AcInv'
<1> DEFINE ks == {k \in Named(users, n) : users[k].oauth}
<1>1. AcAsked(r, "callback")
  BY DEF Callback
<1>2. \/ AcGoes(r, AcIdle)
      \/ AcGoes(r, [at |-> "oauthInsert", x |-> NewUser(n, TRUE)])
      \/ ks # {} /\ AcGoes(r, [at |-> "update", x |-> FirstOf(users, ks), makes |-> "code"])
  BY DEF Callback
<1>3. ks \in SUBSET (1 .. Len(users)) /\ users \in Seq(AcUser)
  BY DEF Named, AcInv
<1>4. ks # {} => FirstOf(users, ks) \in AcUser
  BY <1>3, FirstIsOne
<1> HIDE DEF ks
<1> QED BY <1>1, <1>2, <1>4, AskedIs, IdleGoes, UpdateGoes, InsertGoes

LEMMA RulesKeep ==
    ASSUME AcInv, NEW r \in AcRequest,
           DropRule(r) \/ \E n \in AcName : AddRule(r, n) \/ UpdateRule(r, n)
    PROVE  AcInv'
<1>0. /\ rules \subseteq AcRule /\ \A v \in rules : v.id \in RuleIds(rules)
  BY DEF AcInv, RuleIds
<1>1. ASSUME NEW n \in AcName, AddRule(r, n) PROVE AcInv'
  <2> DEFINE x == [at |-> "addRule", x |-> [id |-> acOps', name |-> n]]
  <2>1. AcAsked(r, "addRule") /\ (AcGoes(r, AcIdle) \/ AcGoes(r, x))
    BY <1>1 DEF AddRule, GoesIf
  <2>2. acOps' \in Nat
    BY <2>1, AskedIs
  <2>3. x.at = "addRule" /\ x.x \in AcRule /\ x.x.id = acOps'
    BY <2>2 DEF AcRule
  <2> HIDE DEF x
  <2> QED BY <2>1, <2>3, AskedIs, IdleGoes, HandlerReads
<1>2. ASSUME NEW n \in AcName, UpdateRule(r, n) PROVE AcInv'
  <2>1. PICK v \in rules : /\ AcAsked(r, "updateRule")
                           /\ AcGoes(r, [at |-> "setRule", x |-> [v EXCEPT !.name = n]])
    BY <1>2 DEF UpdateRule
  <2> DEFINE x == [at |-> "setRule", x |-> [v EXCEPT !.name = n]]
  <2>2. x.at = "setRule" /\ x.x \in AcRule /\ x.x.id = v.id
    BY <1>0 DEF AcRule
  <2>3. AcGoes(r, x)
    BY <2>1
  <2> HIDE DEF x
  <2> QED BY <1>0, <2>1, <2>2, <2>3, AskedIs, HandlerReads
<1>3. CASE DropRule(r)
  <2>1. PICK v \in rules : AcAsked(r, "dropRule") /\ AcGoes(r, [at |-> "dropRule", x |-> v])
    BY <1>3 DEF DropRule
  <2> DEFINE x == [at |-> "dropRule", x |-> v]
  <2>2. x.at = "dropRule" /\ x.x \in AcRule /\ x.x.id = v.id
    BY <1>0
  <2>3. AcGoes(r, x)
    BY <2>1
  <2> HIDE DEF x
  <2> QED BY <1>0, <2>1, <2>2, <2>3, AskedIs, HandlerReads
<1> QED BY <1>1, <1>2, <1>3

\* Steps that change no handler.
LEMMA SameHandlers ==
    ASSUME AcInv, UNCHANGED <<Lists, AcKept, acJob>>, acOps' \in Nat, acOps <= acOps', acClock' \in Nat
    PROVE  AcInv'
<1>1. /\ users' = users /\ rules' = rules /\ usersFile' = usersFile /\ rulesFile' = rulesFile
      /\ keptUsers' = keptUsers /\ keptRules' = keptRules /\ dropped' = dropped /\ goneRules' = goneRules
      /\ acJob' = acJob /\ acOps \in Nat
  BY DEF Lists, AcKept, AcInv
<1>2. \A d \in AcRequest : HandlerOK(d)'
  <2> SUFFICES ASSUME NEW d \in AcRequest PROVE HandlerOK(d)'
    OBVIOUS
  <2>1. HandlerOK(d)
    BY DEF AcInv
  <2> QED BY <1>1, <2>1, HandlerStays DEF HandlerOK
<1>3. \A id \in RuleIds(rules) \cup RuleIds(rulesFile) \cup dropped : id \in Nat /\ id <= acOps'
  BY <1>1 DEF AcInv
<1> QED BY <1>1, <1>2, <1>3 DEF AcInv, WithRule

LEMMA AsksKeep ==
    ASSUME AcInv, NEW r \in AcRequest, Authorize(r) \/ Exchange(r) \/ AcSaveFails(r)
    PROVE  AcInv'
<1>0. acOps \in Nat /\ acClock \in Nat
  BY DEF AcInv
<1>1. CASE Authorize(r)
  BY <1>0, <1>1, SameHandlers, AskedIs DEF Authorize
<1>2. CASE Exchange(r)
  BY <1>0, <1>2, SameHandlers DEF Exchange
<1>3. CASE AcSaveFails(r)
  BY <1>0, <1>3, IdleGoes DEF AcSaveFails
<1> QED BY <1>1, <1>2, <1>3

----------------------------------------------------------------------------

\* A change of the users in memory.
LEMMA UserWritten ==
    ASSUME AcInv, NEW r \in AcRequest, NEW u, NEW makes, users' \in Seq(AcUser),
           \A id : HasId(users, id) => HasId(users', id), HasId(users', u.id),
           Saving(r, "users", u, makes),
           UNCHANGED <<rules, dropped, usersFile, rulesFile, keptUsers, keptRules, goneRules, acOps, acClock>>
    PROVE  AcInv'
<1> DEFINE x == [at |-> "save", list |-> "users", x |-> u, makes |-> makes, read |-> users]
<1>1. AcGoes(r, x)
  BY DEF Saving
<1>2. x.at = "save" /\ x.list = "users" /\ x.x = u
  OBVIOUS
<1> HIDE DEF x
<1>3. /\ acJob' = [d \in AcRequest |-> acJob'[d]] /\ acJob'[r] = x
      /\ \A d \in AcRequest \ {r} : acJob'[d] = acJob[d]
  BY <1>1, HandlerIs
<1>4. HandlerOK(r)'
  BY <1>2, <1>3 DEF HandlerOK, WithUser, WithRule
<1>5. ASSUME NEW d \in AcRequest \ {r} PROVE HandlerOK(d)'
  <2>1. HandlerOK(d) /\ acOps \in Nat
    BY DEF AcInv
  <2> QED BY <1>3, <2>1, HandlerStays DEF HandlerOK
<1>6. ~WithRule(r)' /\ (acJob[r].at # "addRule")'
  BY <1>2, <1>3 DEF WithRule
<1>7. \A d, e \in AcRequest : d # e /\ acJob'[d].at = "addRule" /\ WithRule(e)' =>
          acJob'[d].x.id # acJob'[e].x.id
  BY <1>3, <1>6 DEF AcInv, WithRule
<1> QED BY <1>3, <1>4, <1>5, <1>7 DEF AcInv

\* A change of the rules in memory, by a handler that has the rule x.
LEMMA RuleWritten ==
    ASSUME AcInv, NEW r \in AcRequest, WithRule(r), NEW x, x = acJob[r].x, NEW j, AcGoes(r, j),
           rules' \subseteq AcRule,
           RuleIds(rules) \subseteq RuleIds(rules') \cup dropped',
           RuleIds(rules') \subseteq RuleIds(rules) \cup {x.id},
           x.id \in RuleIds(rules') => x.id \in RuleIds(rules) \/ x.id \notin dropped,
           dropped \subseteq dropped', dropped' \subseteq dropped \cup {x.id},
           \/ j.at = "idle"
           \/ /\ j.at = "save" /\ j.list = "rules" /\ j.x = x
              /\ IF j.makes = "gone" THEN x.id \in dropped' /\ x.id \notin RuleIds(rules')
                 ELSE x.id \in RuleIds(rules'),
           UNCHANGED <<users, usersFile, rulesFile, keptUsers, keptRules, goneRules, acOps, acClock>>
    PROVE  AcInv'
<1>1. /\ acJob' = [d \in AcRequest |-> acJob'[d]] /\ acJob'[r] = j
      /\ \A d \in AcRequest \ {r} : acJob'[d] = acJob[d]
  BY HandlerIs
<1>2. x \in AcRule /\ x.id \in Nat /\ x.id <= acOps /\ acOps \in Nat
  BY DEF AcInv, HandlerOK, AcRule
<1>3. HandlerOK(r)'
  BY <1>1 DEF HandlerOK, WithUser, WithRule
<1>4. ASSUME NEW d \in AcRequest \ {r} PROVE HandlerOK(d)'
  <2>1. HandlerOK(d) /\ (acJob[d].at = "addRule" => acJob[d].x.id # x.id)
    BY DEF AcInv
  <2>2. acJob[d].at = "addRule" =>
            acJob[d].x.id \notin RuleIds(rules') \cup RuleIds(rulesFile') \cup dropped'
    BY <2>1 DEF HandlerOK
  <2> QED BY <1>1, <1>2, <2>2, HandlerStays
<1>5. ~WithRule(r)' /\ (acJob[r].at # "addRule")'
  BY <1>1 DEF WithRule
<1>6. \A d, e \in AcRequest : d # e /\ acJob'[d].at = "addRule" /\ WithRule(e)' =>
          acJob'[d].x.id # acJob'[e].x.id
  BY <1>1, <1>5 DEF AcInv, WithRule
<1>7. goneRules \cap (RuleIds(rules') \cup RuleIds(rulesFile)) = {}
  BY DEF AcInv
<1>8. \A id \in RuleIds(rules') \cup RuleIds(rulesFile) \cup dropped' : id \in Nat /\ id <= acOps
  BY <1>2 DEF AcInv
<1>9. \A id \in keptRules \ dropped' : id \in RuleIds(rules') /\ id \in RuleIds(rulesFile)
  BY DEF AcInv
<1> QED BY <1>1, <1>3, <1>4, <1>6, <1>7, <1>8, <1>9 DEF AcInv

LEMMA WritesKeep == ASSUME AcInv, NEW r \in AcRequest, AcWrites(r) PROVE AcInv'
<1> DEFINE x == acJob[r].x
<1>1. /\ usersFile' = usersFile /\ rulesFile' = rulesFile /\ keptUsers' = keptUsers
      /\ keptRules' = keptRules /\ goneRules' = goneRules /\ acOps' = acOps /\ acClock' = acClock
  BY DEF AcWrites, AcBounds
<1>2. /\ users \in Seq(AcUser) /\ rules \subseteq AcRule
      /\ goneRules \subseteq dropped /\ HandlerOK(r)
  BY DEF AcInv
<1>3. ASSUME NEW makes, InsertUser(r, x, makes), rules' = rules, dropped' = dropped, x \in AcUser PROVE AcInv'
  BY <1>1, <1>2, <1>3, Lengthens, UserWritten DEF InsertUser
<1>4. ASSUME NEW makes, UpdateUser(r, x, makes), rules' = rules, dropped' = dropped, x \in AcUser PROVE AcInv'
  <2>1. CASE HasId(users, x.id)
    BY <1>1, <1>2, <1>4, <2>1, ReplacedKeeps, UserWritten DEF UpdateUser
  <2>2. CASE ~HasId(users, x.id)
    BY <1>1, <1>2, <1>4, <2>2, Lengthens, UserWritten DEF UpdateUser
  <2> QED BY <2>1, <2>2
<1>5. CASE AcAt(r, "addRule") /\ rules' = rules \cup {x} /\ Saving(r, "rules", x, "done")
           /\ users' = users /\ dropped' = dropped
  <2> DEFINE j == [at |-> "save", list |-> "rules", x |-> x, makes |-> "done", read |-> rules]
  <2>1. AcGoes(r, j) /\ j.at = "save" /\ j.list = "rules" /\ j.x = x /\ j.makes = "done"
    BY <1>5 DEF Saving
  <2> HIDE DEF j
  <2>2. WithRule(r) /\ x \in AcRule /\ x.id \notin dropped
    BY <1>2, <1>5 DEF HandlerOK, WithRule, AcAt
  <2>3. RuleIds({x}) = {x.id}
    BY DEF RuleIds
  <2>4. RuleIds(rules') = RuleIds(rules) \cup {x.id}
    BY <1>5, <2>3, RuleIdsOf
  <2>5. rules' \subseteq AcRule
    BY <1>2, <1>5, <2>2
  <2> HIDE DEF x
  <2>6. x = acJob[r].x
    BY DEF x
  <2> QED BY <1>1, <1>5, <2>1, <2>2, <2>4, <2>5, <2>6, RuleWritten
<1>6. CASE /\ AcAt(r, "setRule") /\ users' = users /\ dropped' = dropped
           /\ IF x.id \in RuleIds(rules)
              THEN rules' = Without(rules, x.id) \cup {x} /\ Saving(r, "rules", x, "done")
              ELSE rules' = rules /\ AcGoes(r, AcIdle)
  <2>1. WithRule(r) /\ x \in AcRule
    BY <1>2, <1>6 DEF HandlerOK, WithRule, AcAt
  <2>2. CASE x.id \in RuleIds(rules)
    <3> DEFINE j == [at |-> "save", list |-> "rules", x |-> x, makes |-> "done", read |-> rules]
    <3>1. AcGoes(r, j) /\ j.at = "save" /\ j.list = "rules" /\ j.x = x /\ j.makes = "done"
      BY <1>6, <2>2 DEF Saving
    <3> HIDE DEF j
    <3>2. RuleIds({x}) = {x.id}
      BY DEF RuleIds
    <3>a. rules' = Without(rules, x.id) \cup {x}
      BY <1>6, <2>2
    <3>b. RuleIds(rules') = RuleIds(Without(rules, x.id)) \cup RuleIds({x})
      BY <3>a, RuleIdsOf
    <3>c. RuleIds(Without(rules, x.id)) = RuleIds(rules) \ {x.id}
      BY RuleIdsWithout
    <3>3. RuleIds(rules') = RuleIds(rules)
      BY <2>2, <3>2, <3>b, <3>c
    <3>4. rules' \subseteq AcRule
      BY <1>2, <1>6, <2>1, <2>2 DEF Without
    <3> HIDE DEF x
    <3>5. x = acJob[r].x
      BY DEF x
    <3> QED BY <1>1, <1>6, <2>1, <2>2, <3>1, <3>3, <3>4, <3>5, RuleWritten
  <2>3. CASE x.id \notin RuleIds(rules)
    <3>1. rules' = rules /\ AcGoes(r, AcIdle) /\ AcIdle.at = "idle"
      BY <1>6, <2>3 DEF AcIdle
    <3> HIDE DEF x
    <3>2. x = acJob[r].x
      BY DEF x
    <3> QED BY <1>1, <1>2, <1>6, <2>1, <2>3, <3>1, <3>2, RuleWritten
  <2> QED BY <2>2, <2>3
<1>7. CASE /\ AcAt(r, "dropRule") /\ users' = users /\ dropped' = dropped \cup {x.id}
           /\ rules' = Without(rules, x.id)
           /\ IF x.id \in RuleIds(rules) THEN Saving(r, "rules", x, "gone") ELSE AcGoes(r, AcIdle)
  <2>1. WithRule(r) /\ x \in AcRule
    BY <1>2, <1>7 DEF HandlerOK, WithRule, AcAt
  <2>2. RuleIds(rules') = RuleIds(rules) \ {x.id}
    BY <1>7, RuleIdsWithout
  <2>3. rules' \subseteq AcRule
    BY <1>2, <1>7 DEF Without
  <2>4. PICK j : /\ AcGoes(r, j)
                 /\ \/ j.at = "idle"
                    \/ j.at = "save" /\ j.list = "rules" /\ j.x = x /\ j.makes = "gone"
    <3>1. CASE x.id \in RuleIds(rules)
      <4> DEFINE j == [at |-> "save", list |-> "rules", x |-> x, makes |-> "gone", read |-> rules]
      <4>1. AcGoes(r, j) /\ j.at = "save" /\ j.list = "rules" /\ j.x = x /\ j.makes = "gone"
        BY <1>7, <3>1 DEF Saving
      <4> HIDE DEF j
      <4> QED BY <4>1
    <3>2. CASE x.id \notin RuleIds(rules)
      <4>1. AcGoes(r, AcIdle) /\ AcIdle.at = "idle"
        BY <1>7, <3>2 DEF AcIdle
      <4> QED BY <4>1
    <3> QED BY <3>1, <3>2
  <2> HIDE DEF x
  <2>5. x = acJob[r].x
    BY DEF x
  <2> QED BY <1>1, <1>7, <2>1, <2>2, <2>3, <2>4, <2>5, RuleWritten
<1>8. AcAt(r, "insert") \/ AcAt(r, "oauthInsert") \/ AcAt(r, "update") => x \in AcUser
  BY <1>2 DEF HandlerOK, WithUser, AcAt
<1> QED BY <1>3, <1>4, <1>5, <1>6, <1>7, <1>8 DEF AcWrites

LEMMA SaveKeeps == ASSUME AcInv, NEW r \in AcRequest, AcSave(r) PROVE AcInv'
<1> DEFINE id == acJob[r].x.id
<1>1. /\ users' = users /\ rules' = rules /\ dropped' = dropped /\ acOps' = acOps /\ acClock' = acClock
      /\ AcGoes(r, AcIdle) /\ acJob[r].at = "save"
  BY DEF AcSave, AcBounds, AcAt
<1>2. acOps \in Nat /\ HandlerOK(r)
  BY DEF AcInv
<1>3. /\ acJob' = [d \in AcRequest |-> acJob'[d]] /\ acJob'[r].at = "idle"
      /\ \A d \in AcRequest \ {r} : acJob'[d] = acJob[d]
  BY <1>1, HandlerIs DEF AcIdle
<1>4. \/ /\ usersFile' = users /\ rulesFile' = rulesFile
         /\ keptUsers' = keptUsers \cup {id} /\ HasId(users, id)
         /\ keptRules' = keptRules /\ goneRules' = goneRules
      \/ /\ usersFile' = usersFile /\ rulesFile' = rules /\ keptUsers' = keptUsers
         /\ \/ /\ goneRules' = goneRules \cup {id} /\ keptRules' = keptRules
               /\ id \in dropped /\ id \notin RuleIds(rules)
            \/ /\ keptRules' = keptRules \cup {id} /\ goneRules' = goneRules
               /\ id \in RuleIds(rules) \cup dropped
  <2>1. CASE acJob[r].list = "users"
    BY <1>1, <1>2, <2>1 DEF AcSave, Saved, HandlerOK
  <2>2. CASE acJob[r].list # "users"
    <3>1. usersFile' = usersFile /\ rulesFile' = rules /\ keptUsers' = keptUsers
      BY <2>2 DEF AcSave, Saved
    <3>2. CASE acJob[r].makes = "gone"
      BY <1>1, <1>2, <2>2, <3>1, <3>2 DEF AcSave, HandlerOK
    <3>3. CASE acJob[r].makes # "gone"
      BY <1>1, <1>2, <2>2, <3>1, <3>3 DEF AcSave, HandlerOK
    <3> QED BY <3>2, <3>3
  <2> QED BY <2>1, <2>2
<1> HIDE DEF id
<1>5. HandlerOK(r)'
  BY <1>3 DEF HandlerOK, WithUser, WithRule
<1>6. ASSUME NEW d \in AcRequest \ {r} PROVE HandlerOK(d)'
  <2>1. HandlerOK(d) /\ RuleIds(rulesFile') \in {RuleIds(rules), RuleIds(rulesFile)}
    BY <1>4 DEF AcInv
  <2>2. acJob[d].at = "addRule" =>
            acJob[d].x.id \notin RuleIds(rules) \cup RuleIds(rulesFile') \cup dropped
    BY <2>1 DEF HandlerOK
  <2> QED BY <1>1, <1>2, <1>3, <2>2, HandlerStays
<1>7. ~WithRule(r)' /\ (acJob[r].at # "addRule")'
  BY <1>3 DEF WithRule
<1>8. \A d, e \in AcRequest : d # e /\ acJob'[d].at = "addRule" /\ WithRule(e)' =>
          acJob'[d].x.id # acJob'[e].x.id
  BY <1>3, <1>7 DEF AcInv, WithRule
<1>9. /\ usersFile' \in Seq(AcUser) /\ rulesFile' \subseteq AcRule
      /\ \A k \in keptUsers' : HasId(users, k) /\ HasId(usersFile', k)
  BY <1>4 DEF AcInv
<1>10. /\ \A k \in keptRules' \ dropped : k \in RuleIds(rules) /\ k \in RuleIds(rulesFile')
       /\ goneRules' \subseteq dropped
       /\ goneRules' \cap (RuleIds(rules) \cup RuleIds(rulesFile')) = {}
       /\ \A k \in RuleIds(rules) \cup RuleIds(rulesFile') \cup dropped : k \in Nat /\ k <= acOps
  <2>1. RuleIds(rulesFile') \in {RuleIds(rules), RuleIds(rulesFile)}
    BY <1>4
  <2> QED BY <1>4, <2>1 DEF AcInv
<1> QED BY <1>1, <1>3, <1>5, <1>6, <1>8, <1>9, <1>10 DEF AcInv

LEMMA RestartKeepsFiles == ASSUME AcInv, AcCrash PROVE AcInv'
<1>1. /\ users' = usersFile /\ rules' = rulesFile /\ usersFile' = usersFile /\ rulesFile' = rulesFile
      /\ keptUsers' = keptUsers /\ keptRules' = keptRules /\ dropped' = dropped /\ goneRules' = goneRules
      /\ acOps' = acOps /\ acClock' = acClock /\ acJob' = [d \in AcRequest |-> AcIdle]
  BY DEF AcCrash, AcKept
<1>2. acJob' = [d \in AcRequest |-> acJob'[d]] /\ \A d \in AcRequest : acJob'[d].at = "idle"
  BY <1>1 DEF AcIdle
<1>3. \A d \in AcRequest : HandlerOK(d)'
  BY <1>2 DEF HandlerOK, WithUser, WithRule
<1> QED BY <1>1, <1>2, <1>3 DEF AcInv, WithRule

LEMMA AcStarts == ASSUME AcInit PROVE AcInv
<1>1. acJob = [d \in AcRequest |-> AcIdle]
  BY DEF AcInit
<1>2. acJob = [d \in AcRequest |-> acJob[d]] /\ \A d \in AcRequest : acJob[d].at = "idle"
  BY <1>1 DEF AcIdle
<1>3. RuleIds({}) = {}
  BY DEF RuleIds
<1> QED BY <1>2, <1>3 DEF AcInit, AcInv, HandlerOK, WithUser, WithRule

LEMMA AcSteps == AcInv /\ [AcNext]_acVars => AcInv'
<1> SUFFICES ASSUME AcInv, [AcNext]_acVars PROVE AcInv'
  OBVIOUS
<1>1. CASE UNCHANGED acVars
  BY <1>1 DEF AcInv, HandlerOK, WithUser, WithRule, acVars, Lists, AcKept, AcBounds
<1>2. CASE AcTick
  BY <1>2, SameHandlers DEF AcTick, AcInv
<1>3. CASE AcNext /\ ~AcTick /\ ~AcCrash
  <2>1. PICK r \in AcRequest :
           \/ \E n \in AcName : \/ Register(r, n) \/ Login(r, n) \/ Callback(r, n)
                                \/ AddRule(r, n) \/ UpdateRule(r, n)
           \/ Refresh(r) \/ Administer(r) \/ Authorize(r) \/ Exchange(r) \/ DropRule(r)
           \/ AcWrites(r) \/ AcSave(r) \/ AcSaveFails(r)
    BY <1>3 DEF AcNext
  <2> QED BY <2>1, RegisterKeeps, LoginKeeps, CallbackKeeps, RulesKeep, RefreshKeeps, AdministerKeeps,
             AsksKeep, WritesKeep, SaveKeeps
<1> QED BY <1>1, <1>2, <1>3, RestartKeepsFiles DEF AcNext

\* For every number of handlers, names, attempts and faults: what an answered
\* request stored is in the file and stays there, no user is lost, no rule is
\* lost before its deletion begins, and a rule whose deletion was answered is
\* gone for good, although handlers change the same list and write the same
\* file (auth/store.rs, save_users and save_rules).
THEOREM AnsweredStay == AcSpec => []AnsweredSaved
<1>1. AcInv => AnsweredSaved
  BY DEF AcInv, AnsweredSaved
<1> QED BY <1>1, AcStarts, AcSteps, PTL DEF AcSpec
=============================================================================
