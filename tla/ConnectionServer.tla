--------------------------- MODULE ConnectionServer ---------------------------
(***************************************************************************)
(* Connections: the accept loop of DatabaseServer and the state machine of *)
(* each ConnectionHandler (network/server.cpp), run by the threads of the  *)
(* io_context.                                                             *)
(*                                                                         *)
(* Completion handlers of different connections, and that of the acceptor, *)
(* run in parallel; one connection has at most one operation under way, so *)
(* its own handlers follow each other.  handle_accept reads                *)
(* connection_count_ and increments it in two steps, between which other   *)
(* connections may end.  ConnectionHandler::stop() has no caller: active_  *)
(* stays true and no operation of a connection is ever aborted.            *)
(*                                                                         *)
(* What is in a request, and what the database answers, is not part of     *)
(* this module; a request is well formed, too long or malformed.           *)
(***************************************************************************)
EXTENDS Integers, FiniteSets

CONSTANTS
    Clients,         \* the connections that clients may try to open
    NoClient,
    MAX_CONNECTIONS,
    MaxUnread        \* bound: headers and bodies a client sends ahead

ASSUME ServerAssumption ==
    /\ IsFiniteSet(Clients)
    /\ NoClient \notin Clients
    /\ MAX_CONNECTIONS \in Nat
    /\ MaxUnread \in Nat

VARIABLES
    running,  \* running_
    closed,   \* acceptor_ is closed
    acceptor, \* "pending" (async_accept is under way), "counting" (handle_accept
              \* found room), "finishing" (its last lines) or "off"
    incoming, \* the socket handle_accept is about
    connection_count, \* connection_count_
    conn,     \* the server's end of each connection: "none", "backlog", "accepted",
              \* "header", "body" and "write" (the operation under way) or "gone"
    peer,     \* the client's end of each connection: "open" or "closed"
    unread    \* headers and bodies the client has sent and nobody has read

clientVars == <<peer, unread>>
vars == <<running, closed, acceptor, incoming, connection_count, conn, clientVars>>

\* After start(), whose last step is start_accept.
Init ==
    /\ running = TRUE
    /\ closed = FALSE
    /\ acceptor = "pending"
    /\ incoming = NoClient
    /\ connection_count = 0
    /\ conn = [c \in Clients |-> "none"]
    /\ peer = [c \in Clients |-> "open"]
    /\ unread = [c \in Clients |-> 0]

Become(c, state) == conn' = [conn EXCEPT ![c] = state]

-----------------------------------------------------------------------------
(* The clients (external).                                                 *)

Connect(c) ==
    /\ conn[c] = "none"
    /\ ~closed
    /\ Become(c, "backlog")
    /\ UNCHANGED <<running, closed, acceptor, incoming, connection_count, clientVars>>

Send(c) ==
    /\ conn[c] \notin {"none", "gone"}
    /\ peer[c] = "open"
    /\ unread[c] < MaxUnread
    /\ unread' = [unread EXCEPT ![c] = @ + 1]
    /\ UNCHANGED <<running, closed, acceptor, incoming, connection_count, conn, peer>>

\* What was sent before can still be read.
Hangup(c) ==
    /\ conn[c] \notin {"none", "gone"}
    /\ peer[c] = "open"
    /\ peer' = [peer EXCEPT ![c] = "closed"]
    /\ UNCHANGED <<running, closed, acceptor, incoming, connection_count, conn, unread>>

-----------------------------------------------------------------------------
(* handle_accept.                                                          *)

\* Mutant of Accept: the count is compared with > in place of >=.
AcceptOneMore(c) ==
    /\ acceptor = "pending"
    /\ ~closed
    /\ conn[c] = "backlog"
    /\ IF running /\ connection_count <= MAX_CONNECTIONS
       THEN /\ acceptor' = "counting"
            /\ incoming' = c
            /\ Become(c, "accepted")
       ELSE /\ acceptor' = "finishing"
            /\ UNCHANGED incoming
            /\ Become(c, "gone")
    /\ UNCHANGED <<running, closed, connection_count, clientVars>>

\* It is called with a socket, looks at running_ and reads the count.
Accept(c) ==
    /\ acceptor = "pending"
    /\ ~closed
    /\ conn[c] = "backlog"
    /\ IF running /\ connection_count < MAX_CONNECTIONS
       THEN /\ acceptor' = "counting"
            /\ incoming' = c
            /\ Become(c, "accepted")
       ELSE /\ acceptor' = "finishing"
            /\ UNCHANGED incoming
            /\ Become(c, "gone")
    /\ UNCHANGED <<running, closed, connection_count, clientVars>>

\* It is called with an error: the acceptor was closed, or accept failed.
AcceptFails ==
    /\ acceptor = "pending"
    /\ acceptor' = "finishing"
    /\ UNCHANGED <<running, closed, incoming, connection_count, conn, clientVars>>

\* The count goes up and the handler starts to read.
Count ==
    /\ acceptor = "counting"
    /\ connection_count' = connection_count + 1
    /\ acceptor' = "finishing"
    /\ incoming' = NoClient
    /\ Become(incoming, "header")
    /\ UNCHANGED <<running, closed, clientVars>>

\* Mutant of AcceptAgain: only an accept that left room is followed by another.
AcceptUntilFull ==
    /\ acceptor = "finishing"
    /\ acceptor' = IF running /\ connection_count < MAX_CONNECTIONS THEN "pending" ELSE "off"
    /\ UNCHANGED <<running, closed, incoming, connection_count, conn, clientVars>>

AcceptAgain ==
    /\ acceptor = "finishing"
    /\ acceptor' = IF running THEN "pending" ELSE "off"
    /\ UNCHANGED <<running, closed, incoming, connection_count, conn, clientVars>>

-----------------------------------------------------------------------------
(* ConnectionHandler.                                                      *)

\* on_disconnect_ is called and no operation is started: the last reference
\* to the handler goes, and its socket is closed.
Disconnect(c) ==
    /\ connection_count' = connection_count - 1
    /\ Become(c, "gone")
    /\ UNCHANGED <<running, closed, acceptor, incoming, clientVars>>

\* async_read completes with data.
Consume(c) ==
    /\ unread[c] > 0
    /\ unread' = [unread EXCEPT ![c] = @ - 1]
    /\ UNCHANGED peer

\* It completes with data that are refused, or with an error.
Unusable(c) == unread[c] > 0 \/ peer[c] = "closed"

\* read_header: a length within MAX_MESSAGE_SIZE.
HeaderRead(c) ==
    /\ conn[c] = "header"
    /\ Consume(c)
    /\ Become(c, "body")
    /\ UNCHANGED <<running, closed, acceptor, incoming, connection_count>>

\* Mutant of HeaderFails: an error leaves the connection as it is.
HeaderErrorIgnored(c) ==
    /\ conn[c] = "header"
    /\ unread[c] > 0
    /\ Disconnect(c)

\* read_header: a length above it, or an error.
HeaderFails(c) ==
    /\ conn[c] = "header"
    /\ Unusable(c)
    /\ Disconnect(c)

\* read_body: a request that deserializes; it is answered by
\* process_request_sync, and write_response starts to send.
BodyRead(c) ==
    /\ conn[c] = "body"
    /\ Consume(c)
    /\ Become(c, "write")
    /\ UNCHANGED <<running, closed, acceptor, incoming, connection_count>>

\* Mutant of BodyFails: on_disconnect_ is called twice.
BodyFailsTwice(c) ==
    /\ conn[c] = "body"
    /\ Unusable(c)
    /\ connection_count' = connection_count - 2
    /\ Become(c, "gone")
    /\ UNCHANGED <<running, closed, acceptor, incoming, clientVars>>

\* Mutant of BodyFails: on_disconnect_ is not called.
BodyForgotten(c) ==
    /\ conn[c] = "body"
    /\ Unusable(c)
    /\ Become(c, "gone")
    /\ UNCHANGED <<running, closed, acceptor, incoming, connection_count, clientVars>>

\* read_body: a malformed request, or an error.
BodyFails(c) ==
    /\ conn[c] = "body"
    /\ Unusable(c)
    /\ Disconnect(c)

\* write_response: sent, and the next request is read.
Written(c) ==
    /\ conn[c] = "write"
    /\ Become(c, "header")
    /\ UNCHANGED <<running, closed, acceptor, incoming, connection_count, clientVars>>

\* write_response: an error.
WriteFails(c) ==
    /\ conn[c] = "write"
    /\ peer[c] = "closed"
    /\ Disconnect(c)

-----------------------------------------------------------------------------
(* stop(), as far as connections go: those that are open stay open.        *)

StopClear ==
    /\ running
    /\ running' = FALSE
    /\ UNCHANGED <<closed, acceptor, incoming, connection_count, conn, clientVars>>

\* acceptor_.close(): connections that were not accepted are refused.
StopClose ==
    /\ ~running
    /\ ~closed
    /\ closed' = TRUE
    /\ conn' = [c \in Clients |-> IF conn[c] = "backlog" THEN "gone" ELSE conn[c]]
    /\ UNCHANGED <<running, acceptor, incoming, connection_count, clientVars>>

-----------------------------------------------------------------------------
Reading(c) == HeaderRead(c) \/ HeaderFails(c) \/ BodyRead(c) \/ BodyFails(c)

Writing(c) == Written(c) \/ WriteFails(c)

Next ==
    \/ \E c \in Clients : \/ Connect(c) \/ Send(c) \/ Hangup(c)
                        \/ Accept(c) \/ Reading(c) \/ Writing(c)
    \/ AcceptFails \/ Count \/ AcceptAgain
    \/ StopClear \/ StopClose

Spec == Init /\ [][Next]_vars

\* The io threads run what is ready, and stop() once begun goes on.  accept
\* does not fail for ever, and the kernel keeps the backlog in order (SF).  A
\* client that is there need neither send nor read; to one that has gone, a
\* write ends one way or the other.
FairSpec ==
    /\ Spec
    /\ \A c \in Clients : /\ SF_vars(Accept(c))
                          /\ WF_vars(Reading(c))
                          /\ WF_vars(peer[c] = "closed" /\ Writing(c))
    /\ WF_vars(Count \/ AcceptAgain)
    /\ WF_vars(StopClose)

-----------------------------------------------------------------------------
(* Properties.                                                             *)

TypeOK ==
    /\ running \in BOOLEAN
    /\ closed \in BOOLEAN
    /\ acceptor \in {"pending", "counting", "finishing", "off"}
    /\ incoming \in Clients \cup {NoClient}
    /\ connection_count \in Nat
    /\ conn \in [Clients -> {"none", "backlog", "accepted", "header", "body", "write", "gone"}]
    /\ peer \in [Clients -> {"open", "closed"}]
    /\ unread \in [Clients -> 0 .. MaxUnread]

Live == {c \in Clients : conn[c] \in {"header", "body", "write"}}

\* connection_count_ is the number of handlers with an operation under way:
\* each path out of a handler calls on_disconnect_ exactly once, or else slots
\* leak or the unsigned counter wraps around.
CountIsExact == connection_count = Cardinality(Live)

\* The limit holds although it is tested before the increment: no other
\* accept runs between the two.
WithinLimit == connection_count <= MAX_CONNECTIONS

\* Nobody waits for ever to be accepted: a client in the backlog gets a handler
\* that reads its requests, or its connection is closed.  The loop must go on
\* after an accept that failed and after one that was turned away because the
\* server is full, and a stop() while handle_accept runs must not leave the
\* backlog to nobody.
BacklogServed == \A c \in Clients : conn[c] = "backlog" ~> conn[c] \in {"header", "gone"}

\* The slot of a client that hung up is given back, wherever its connection
\* was at that moment.
SlotsReclaimed == \A c \in Clients : peer[c] = "closed" ~> conn[c] = "gone"
=============================================================================
