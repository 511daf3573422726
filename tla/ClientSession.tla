---------------------------- MODULE ClientSession ----------------------------
(***************************************************************************)
(* One DatabaseClient and the server's end of its connection: the calls of *)
(* network/client.cpp, the messages of network/protocol.cpp, and the       *)
(* framing on both sides (a length word, then the message).  The two byte  *)
(* streams of the connection are up and down; what the database answers is *)
(* chosen freely (RequestHandler has the rest of the server).              *)
(*                                                                         *)
(* The client is one thread and has one call under way.  No call compares  *)
(* the id of a response with the id of its request, connected_ stays true  *)
(* after every error, and a response above MAX_MESSAGE_SIZE leaves its     *)
(* body in the stream.  write_response hands async_write buffers that die  *)
(* when it returns: what does not go out in the first transfer is read     *)
(* from freed memory.                                                      *)
(*                                                                         *)
(* served and oversized are history variables: the last answer of the      *)
(* database, and whether this connection has carried a response above the  *)
(* limit.                                                                  *)
(***************************************************************************)
EXTENDS ByteFormat

CONSTANTS
    MAX_MESSAGE_SIZE, MAX_KEY_SIZE, MAX_VALUE_SIZE,
    TransferSize, \* bytes that one transfer of async_write sends (64 KB)
    Junk,         \* what freed memory may hold
    Operations,   \* the calls of the client: type, key, value, limit of a scan
    Found,        \* values that GET may find
    Pairs,        \* results that SCAN may have: sequences of keys with values
    MaxCalls      \* bound: calls per client

VARIABLES
    connected,  \* connected_
    link,       \* socket_: "none" (not open), "open", or "shut" (the peer is gone)
    up, down,   \* bytes on their way to the server, and to the client
    request_id, \* request_id_
    call,       \* the call under way, or NoCall
    result,     \* how the last call ended
    served, oversized

vars == <<connected, link, up, down, request_id, call, result, served, oversized>>

\* MessageType.
GET == 1
PUT == 2
DELETE == 3
SCAN == 4
PING == 5
PONG == 6
ERROR == 7
SUCCESS == 8

NoCall == [type |-> 0]
NoResult == [kind |-> "none"]

ASSUME LimitsAssumption ==
    /\ {MAX_MESSAGE_SIZE, MAX_KEY_SIZE, MAX_VALUE_SIZE, TransferSize} \subseteq Nat
    /\ MAX_VALUE_SIZE <= MAX_MESSAGE_SIZE
    /\ MAX_MESSAGE_SIZE < Base * Base
    /\ MaxCalls < Base * Base

-----------------------------------------------------------------------------
(* Message.                                                                *)

HeaderSize == 1 + 3 * WordSize

serialize(m) ==
    <<m.type>> \o Word(m.id) \o Word(Len(m.key)) \o Word(Len(m.value)) \o m.key \o m.value

KeyLength(bytes) == WordAt(bytes, 1 + WordSize)
ValueLength(bytes) == WordAt(bytes, 1 + 2 * WordSize)

\* deserialize does not throw.
Valid(bytes) ==
    /\ Len(bytes) >= HeaderSize
    /\ KeyLength(bytes) <= MAX_KEY_SIZE
    /\ ValueLength(bytes) <= MAX_VALUE_SIZE
    /\ Len(bytes) >= HeaderSize + KeyLength(bytes) + ValueLength(bytes)

\* Mutant of deserialize: the value is read from the last byte of the header on.
DeserializeInHeader(bytes) ==
    [type  |-> bytes[1],
     id    |-> WordAt(bytes, 1),
     key   |-> Bytes(bytes, HeaderSize, KeyLength(bytes)),
     value |-> Bytes(bytes, HeaderSize - 1, ValueLength(bytes))]

deserialize(bytes) ==
    [type  |-> bytes[1],
     id    |-> WordAt(bytes, 1),
     key   |-> Bytes(bytes, HeaderSize, KeyLength(bytes)),
     value |-> Bytes(bytes, HeaderSize + KeyLength(bytes), ValueLength(bytes))]

Framed(m) == Word(Len(serialize(m))) \o serialize(m)

\* A transfer is never so small that it cuts the header of a response.
ASSUME TransferAssumption == TransferSize >= WordSize + HeaderSize

-----------------------------------------------------------------------------
(* The text of a scan result: [{"key":"k","value":"v"},...].  A character  *)
(* is a byte above 1; {"key":" and "value":" are one character each.       *)

Quote == 2
KeyTag == 3
ValueTag == 4
Comma == 5
Brace == 6
Opening == 7
Closing == 8

\* Texts that do not hold one of the two tags themselves.
Text == Seq(Nat \ {KeyTag, ValueTag})

ASSUME DataAssumption ==
    /\ \A op \in Operations :
          op \in [type : {GET, PUT, DELETE, SCAN, PING}, key : Seq(Nat), value : Seq(Nat), limit : Nat]
    /\ Found \subseteq Seq(Nat)
    /\ Pairs \subseteq Seq(Seq(Nat) \X Seq(Nat))
    /\ Junk \subseteq Nat

Item(p) == <<KeyTag>> \o p[1] \o <<Quote, Comma, ValueTag>> \o p[2] \o <<Quote, Brace>>

\* The text of the pairs from the i-th on.
TextFrom(pairs) ==
    LET text[i \in Nat] ==
            IF i > Len(pairs) THEN <<Closing>>
            ELSE Item(pairs[i]) \o (IF i < Len(pairs) THEN <<Comma>> ELSE << >>) \o text[i + 1]
    IN  text

ScanText(pairs) == <<Opening>> \o TextFrom(pairs)[1]

\* std::string::find: the first c of text at or after from, or 0.
Find(text, c, from) ==
    IF \E i \in from .. Len(text) : text[i] = c
    THEN CHOOSE i \in from .. Len(text) :
            text[i] = c /\ \A j \in from .. i - 1 : text[j] # c
    ELSE 0

\* The client's loop over the text: the pairs it finds from character pos on.
PairsFrom(text) ==
    LET parse[pos \in Nat] ==
            LET key       == Find(text, KeyTag, pos)
                key_end   == Find(text, Quote, key + 1)
                value     == Find(text, ValueTag, key_end)
                value_end == Find(text, Quote, value + 1)
            IN  IF key = 0 \/ key_end = 0 \/ value = 0 \/ value_end = 0 THEN << >>
                ELSE <<<<SubSeq(text, key + 1, key_end - 1), SubSeq(text, value + 1, value_end - 1)>>>>
                       \o parse[value_end]
    IN  parse

\* It looks at the limit after it has added a pair.
Parse(text, limit) ==
    LET all  == PairsFrom(text)[1]
        most == IF limit = 0 THEN 1 ELSE limit
    IN  SubSeq(all, 1, IF Len(all) < most THEN Len(all) ELSE most)

-----------------------------------------------------------------------------
Init ==
    /\ connected = FALSE
    /\ link = "none"
    /\ up = << >>
    /\ down = << >>
    /\ request_id = 0
    /\ call = NoCall
    /\ result = NoResult
    /\ served = NoResult
    /\ oversized = FALSE

(* The client.                                                             *)

\* connect on a new or a used socket.
Connect ==
    /\ call = NoCall
    /\ connected' = TRUE
    /\ link' = "open"
    /\ up' = << >>
    /\ down' = << >>
    /\ result' = NoResult
    /\ oversized' = FALSE
    /\ UNCHANGED <<request_id, call, served>>

\* It fails after it has closed the socket and opened it again, or before it has
\* touched the socket, when the host is not resolved.
ConnectFails ==
    /\ call = NoCall
    /\ \/ /\ link' = "shut"
          /\ up' = << >>
          /\ down' = << >>
          /\ oversized' = FALSE
       \/ UNCHANGED <<link, up, down, oversized>>
    /\ result' = NoResult
    /\ UNCHANGED <<connected, request_id, call, served>>

disconnect ==
    /\ call = NoCall
    /\ connected
    /\ link # "none"
    /\ connected' = FALSE
    /\ link' = "none"
    /\ UNCHANGED <<up, down, request_id, call, result, served, oversized>>

is_connected == connected /\ link # "none"

Throw == result' = [kind |-> "thrown", type |-> 0]

\* The message of a call (limit stays with the client).
Request(op) ==
    [type |-> op.type, id |-> request_id + 1, key |-> op.key, value |-> op.value, limit |-> op.limit]

\* get, put, del, scan and ping up to the end of send_message.
Send(op) ==
    /\ call = NoCall
    /\ request_id < MaxCalls
    /\ request_id' = request_id + 1
    /\ \/ /\ is_connected
          /\ call' = Request(op)
          /\ up' = IF link = "open" THEN up \o Framed(Request(op)) ELSE up
          /\ result' = NoResult
       \/ /\ ~is_connected \/ link = "shut"
          /\ Throw
          /\ UNCHANGED <<call, up>>
    /\ UNCHANGED <<connected, link, down, served, oversized>>

\* What the call makes of its response.
Returned(response) ==
    CASE call.type \in {PUT, DELETE} -> response.type = SUCCESS
      [] call.type = PING            -> response.type = PONG
      [] call.type = GET             -> response.value
      [] call.type = SCAN            -> Parse(response.value, call.limit)

\* get and scan throw the text of an error.
Refused(response) == call.type \in {GET, SCAN} /\ response.type # SUCCESS

Return(response) ==
    IF Refused(response) THEN Throw
    ELSE result' = [kind |-> "returned", type |-> call.type, id |-> call.id, limit |-> call.limit,
                    answer |-> Returned(response)]

\* receive_message, once its reads are satisfied.
receive_message ==
    /\ call # NoCall
    /\ Len(down) >= WordSize
    /\ LET n    == WordAt(down, 0)
           body == Bytes(down, WordSize, n)
       IN  \/ /\ n > MAX_MESSAGE_SIZE
              /\ Throw
              /\ down' = SubSeq(down, WordSize + 1, Len(down))
           \/ /\ n <= MAX_MESSAGE_SIZE
              /\ Len(down) >= WordSize + n
              /\ IF Valid(body) THEN Return(deserialize(body)) ELSE Throw
              /\ down' = SubSeq(down, WordSize + n + 1, Len(down))
    /\ call' = NoCall
    /\ UNCHANGED <<connected, link, up, request_id, served, oversized>>

\* The connection ends before they are.
ReceiveFails ==
    /\ call # NoCall
    /\ link = "shut"
    /\ Len(down) >= WordSize =>
          /\ WordAt(down, 0) <= MAX_MESSAGE_SIZE
          /\ Len(down) < WordSize + WordAt(down, 0)
    /\ Throw
    /\ down' = << >>
    /\ call' = NoCall
    /\ UNCHANGED <<connected, link, up, request_id, served, oversized>>

-----------------------------------------------------------------------------
(* The server's end.                                                       *)

\* What the database may answer.
Answers(request) ==
    CASE request.type = GET  -> {[type |-> SUCCESS, data |-> v] : v \in Found}
                                  \cup {[type |-> ERROR, data |-> << >>]}
      [] request.type = SCAN -> {[type |-> SUCCESS, data |-> ps] : ps \in Pairs}
                                  \cup {[type |-> ERROR, data |-> << >>]}
      [] request.type = PING -> {[type |-> PONG, data |-> << >>]}
      [] OTHER               -> [type : {SUCCESS, ERROR}, data : {<< >>}]

Response(request, a) ==
    [type |-> a.type, id |-> request.id, key |-> << >>,
     value |-> IF request.type = SCAN /\ a.type = SUCCESS THEN ScanText(a.data) ELSE a.data]

\* What async_write may send of bytes.
Sent(bytes) ==
    {bytes} \cup {[i \in DOMAIN bytes |-> IF i <= TransferSize THEN bytes[i] ELSE j] : j \in Junk}

Message == Bytes(up, WordSize, WordAt(up, 0))

\* The checks of read_header and deserialize.
Acceptable == WordAt(up, 0) <= MAX_MESSAGE_SIZE /\ Valid(Message)

\* read_header, read_body, the request and write_response.
Answer ==
    /\ link = "open"
    /\ Len(up) >= WordSize
    /\ Acceptable
    /\ LET request == deserialize(Message)
       IN  \E a \in Answers(request) :
              LET bytes == Framed(Response(request, a))
              IN  /\ \E sent \in Sent(bytes) : down' = down \o sent
                  /\ served' = [type |-> a.type, data |-> a.data, id |-> request.id,
                                fits |-> Len(bytes) <= TransferSize]
                  /\ oversized' = (oversized \/ Len(bytes) > WordSize + MAX_MESSAGE_SIZE)
    /\ up' = SubSeq(up, WordSize + Len(Message) + 1, Len(up))
    /\ UNCHANGED <<connected, link, request_id, call, result>>

\* Mutant of Reject: on_disconnect_ only counts, and the handler lives on.
RejectKeepsSocket ==
    /\ link = "open"
    /\ Len(up) >= WordSize
    /\ ~Acceptable
    /\ up' = << >>
    /\ UNCHANGED <<connected, link, down, request_id, call, result, served, oversized>>

\* A request that is too long or malformed: the handler is dropped and closes
\* its socket.
Reject ==
    /\ link = "open"
    /\ Len(up) >= WordSize
    /\ ~Acceptable
    /\ link' = "shut"
    /\ up' = << >>
    /\ UNCHANGED <<connected, down, request_id, call, result, served, oversized>>

\* The connection breaks, or the server stops, or was full when it accepted:
\* some of what was sent is lost.
Break ==
    /\ link = "open"
    /\ link' = "shut"
    /\ up' = << >>
    /\ \E n \in 0 .. Len(down) : down' = SubSeq(down, 1, n)
    /\ UNCHANGED <<connected, request_id, call, result, served, oversized>>

-----------------------------------------------------------------------------
Progress == receive_message \/ ReceiveFails \/ Answer \/ Reject

Next ==
    \/ Connect \/ ConnectFails \/ disconnect
    \/ \E op \in Operations : Send(op)
    \/ Progress
    \/ Break

Spec == Init /\ [][Next]_vars

\* Both ends run; the network need not break.
FairSpec == Spec /\ WF_vars(Progress)

-----------------------------------------------------------------------------
(* Properties.                                                             *)

Cut(text) == SubSeq(text, 1, (IF Find(text, Quote, 1) = 0 THEN Len(text) + 1
                              ELSE Find(text, Quote, 1)) - 1)

\* A call that returns has the database's answer to its own request, although
\* no id is compared: no error, lost connection or second connect leaves an
\* old response to be taken for a later one.  If the response went out in one
\* transfer, the value of a get is exact, and so are the pairs of a scan up to
\* its limit (a limit of 0 is one of 1), but that each text ends at its first
\* quote; a key or a value that holds a tag itself is not told from another
\* pair.  What this rests on is that no response above 1 MB was sent: the body
\* of one stays in the stream (receive_message, client.cpp).
AnswersMatch ==
    result.kind = "returned" /\ ~oversized =>
        /\ served.id = result.id
        /\ result.type \in {PUT, DELETE, PING} => (result.answer <=> served.type # ERROR)
        /\ result.type = GET /\ served.fits => result.answer = served.data
        /\ result.type = SCAN /\ served.fits /\ served.data \in Seq(Text \X Text) =>
              /\ LET most == IF result.limit = 0 THEN 1 ELSE result.limit
                 IN  Len(result.answer) = IF Len(served.data) < most THEN Len(served.data) ELSE most
              /\ \A i \in DOMAIN result.answer :
                    /\ result.answer[i][1] = Cut(served.data[i][1])
                    /\ result.answer[i][2] = Cut(served.data[i][2])

\* Every call returns or throws, whatever request it made and whenever the
\* connection breaks (send_request): the server answers or closes, and never
\* does neither.
CallsEnd == call # NoCall ~> (call = NoCall \/ oversized)
=============================================================================
