----------------------- MODULE ConnectionServer_proofs -----------------------
(***************************************************************************)
(* Proofs about ConnectionServer, for any number of clients and any limit. *)
(***************************************************************************)
EXTENDS ConnectionServer, FiniteSetTheorems, TLAPS

USE ServerAssumption

\* Between the test of the limit and the increment there is still room, and
\* the socket belongs to nobody else.
CountingInv ==
    acceptor = "counting" =>
        /\ connection_count < MAX_CONNECTIONS
        /\ incoming \in Clients
        /\ conn[incoming] = "accepted"

IInv == TypeOK /\ CountIsExact /\ WithinLimit /\ CountingInv

-----------------------------------------------------------------------------
(* The number of live handlers.                                            *)

LEMMA LiveFinite == IsFiniteSet(Live) /\ Cardinality(Live) \in Nat
<1>1. Live \subseteq Clients
  BY DEF Live
<1> QED
  BY <1>1, FS_Subset, FS_CardinalityType

\* A connection that does not start or end leaves the number as it is.
LEMMA LiveSame ==
    ASSUME CountIsExact, UNCHANGED connection_count,
           \A c \in Clients : conn'[c] \in {"header", "body", "write"}
                                <=> conn[c] \in {"header", "body", "write"}
    PROVE  CountIsExact'
<1>1. Live' = Live
  BY DEF Live
<1> QED
  BY <1>1 DEF CountIsExact

\* on_client_disconnect undoes one increment, and there is one to undo.
LEMMA DisconnectStep ==
    ASSUME IInv, NEW c \in Clients, conn[c] \in {"header", "body", "write"}, Disconnect(c)
    PROVE  IInv'
<1> USE DEF Disconnect, Become
<1>1. /\ conn'[c] = "gone"
      /\ \A d \in Clients : d # c => conn'[d] = conn[d]
  BY DEF IInv, TypeOK
<1>2. c \in Live /\ Live' = Live \ {c}
  BY <1>1 DEF Live
<1>3. /\ Cardinality(Live \ {c}) = Cardinality(Live) - 1
      /\ Cardinality(Live \ {c}) \in Nat
  BY <1>2, LiveFinite, FS_RemoveElement, FS_CardinalityType
<1>4. CountIsExact' /\ connection_count' \in Nat
  BY <1>2, <1>3 DEF IInv, CountIsExact
<1>5. TypeOK'
  BY <1>4 DEF IInv, TypeOK, clientVars
<1>6. WithinLimit' /\ CountingInv'
  BY <1>1 DEF IInv, TypeOK, WithinLimit, CountingInv
<1> QED
  BY <1>4, <1>5, <1>6 DEF IInv

\* handle_accept adds the connection and the count together.
LEMMA CountStep == IInv /\ Count => IInv'
<1> SUFFICES ASSUME IInv, Count PROVE IInv'
  OBVIOUS
<1> USE DEF Count, Become
<1>1. /\ incoming \in Clients /\ conn[incoming] = "accepted"
      /\ connection_count < MAX_CONNECTIONS
  BY DEF IInv, CountingInv
<1>2. /\ conn'[incoming] = "header"
      /\ \A d \in Clients : d # incoming => conn'[d] = conn[d]
  BY <1>1 DEF IInv, TypeOK
<1>3. incoming \notin Live /\ Live' = Live \cup {incoming}
  BY <1>1, <1>2 DEF Live
<1>4. Cardinality(Live \cup {incoming}) = Cardinality(Live) + 1
  BY <1>3, LiveFinite, FS_AddElement
<1>5. CountIsExact'
  BY <1>3, <1>4 DEF IInv, CountIsExact
<1>6. TypeOK'
  <2>1. connection_count' \in Nat
    BY DEF IInv, TypeOK
  <2>2. conn' \in [Clients -> {"none", "backlog", "accepted", "header", "body", "write", "gone"}]
    BY DEF IInv, TypeOK
  <2> QED
    BY <2>1, <2>2 DEF IInv, TypeOK, clientVars
<1>7. WithinLimit' /\ CountingInv'
  BY <1>1 DEF IInv, TypeOK, WithinLimit, CountingInv
<1> QED
  BY <1>5, <1>6, <1>7 DEF IInv

-----------------------------------------------------------------------------
LEMMA IInvStep == IInv /\ [Next]_vars => IInv'
<1> SUFFICES ASSUME IInv, [Next]_vars PROVE IInv'
  OBVIOUS
<1>1. ASSUME NEW c \in Clients, Connect(c) \/ Send(c) \/ Hangup(c) PROVE IInv'
  <2> USE <1>1 DEF Connect, Send, Hangup, Become, clientVars
  <2>1. TypeOK'
    BY DEF IInv, TypeOK
  <2>2. CountIsExact'
    BY LiveSame DEF IInv, TypeOK
  <2>3. WithinLimit' /\ CountingInv'
    BY DEF IInv, TypeOK, WithinLimit, CountingInv
  <2> QED
    BY <2>1, <2>2, <2>3 DEF IInv
<1>2. ASSUME NEW c \in Clients, Accept(c) PROVE IInv'
  <2> USE <1>2 DEF Accept, Become, clientVars
  <2>1. TypeOK'
    BY DEF IInv, TypeOK
  <2>2. CountIsExact'
    BY LiveSame DEF IInv, TypeOK
  <2>3. WithinLimit' /\ CountingInv'
    BY DEF IInv, TypeOK, WithinLimit, CountingInv
  <2> QED
    BY <2>1, <2>2, <2>3 DEF IInv
<1>3. ASSUME NEW c \in Clients, HeaderRead(c) \/ BodyRead(c) \/ Written(c) PROVE IInv'
  <2> USE <1>3 DEF HeaderRead, BodyRead, Written, Become, Consume, clientVars
  <2>1. TypeOK'
    BY DEF IInv, TypeOK
  <2>2. CountIsExact'
    BY LiveSame DEF IInv, TypeOK
  <2>3. WithinLimit' /\ CountingInv'
    BY DEF IInv, TypeOK, WithinLimit, CountingInv
  <2> QED
    BY <2>1, <2>2, <2>3 DEF IInv
<1>4. ASSUME NEW c \in Clients, HeaderFails(c) \/ BodyFails(c) \/ WriteFails(c) PROVE IInv'
  BY <1>4, DisconnectStep DEF HeaderFails, BodyFails, WriteFails
<1>5. CASE Count
  BY <1>5, CountStep
<1>6. CASE AcceptFails \/ AcceptAgain \/ StopClear \/ UNCHANGED vars
  <2> USE <1>6 DEF AcceptFails, AcceptAgain, StopClear, vars, clientVars
  <2>1. TypeOK' /\ CountIsExact'
    BY LiveSame DEF IInv, TypeOK
  <2>2. WithinLimit' /\ CountingInv'
    BY DEF IInv, WithinLimit, CountingInv
  <2> QED
    BY <2>1, <2>2 DEF IInv
<1>7. CASE StopClose
  <2> USE <1>7 DEF StopClose, clientVars
  <2>1. TypeOK'
    BY DEF IInv, TypeOK
  <2>2. CountIsExact'
    BY LiveSame DEF IInv, TypeOK
  <2>3. WithinLimit' /\ CountingInv'
    BY DEF IInv, TypeOK, WithinLimit, CountingInv
  <2> QED
    BY <2>1, <2>2, <2>3 DEF IInv
<1> QED
  BY <1>1, <1>2, <1>3, <1>4, <1>5, <1>6, <1>7 DEF Next, Reading, Writing

LEMMA InductiveInvariant == Spec => []IInv
<1>1. Init => IInv
  <2> SUFFICES ASSUME Init PROVE IInv
    OBVIOUS
  <2>1. TypeOK /\ WithinLimit /\ CountingInv
    <3>1. unread \in [Clients -> 0 .. MaxUnread]
      BY DEF Init
    <3>2. /\ conn \in [Clients -> {"none", "backlog", "accepted", "header", "body", "write", "gone"}]
          /\ peer \in [Clients -> {"open", "closed"}]
      BY DEF Init
    <3>3. TypeOK
      BY <3>1, <3>2 DEF Init, TypeOK
    <3> QED
      BY <3>3 DEF Init, WithinLimit, CountingInv
  <2>2. Live = {}
    BY DEF Init, Live
  <2>3. CountIsExact
    BY <2>2, FS_EmptySet DEF Init, CountIsExact
  <2> QED
    BY <2>1, <2>3 DEF IInv
<1> QED
  BY <1>1, IInvStep, PTL DEF Spec

\* The state of the accept loop and of the connections is well typed; the count
\* is never negative, whatever order connections end in.
THEOREM TypeCorrect == Spec => []TypeOK
<1>1. IInv => TypeOK
  BY DEF IInv
<1> QED
  BY <1>1, InductiveInvariant, PTL

\* connection_count_ is at every moment the number of live connections, for
\* any number of clients: no slot leaks and the counter never wraps.
THEOREM CountStaysExact == Spec => []CountIsExact
<1>1. IInv => CountIsExact
  BY DEF IInv
<1> QED
  BY <1>1, InductiveInvariant, PTL

\* The limit on connections holds for any limit.
THEOREM LimitHolds == Spec => []WithinLimit
<1>1. IInv => WithinLimit
  BY DEF IInv
<1> QED
  BY <1>1, InductiveInvariant, PTL
=============================================================================
