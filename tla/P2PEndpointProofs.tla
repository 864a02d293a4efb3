------------------------- MODULE P2PEndpointProofs -------------------------
(***************************************************************************)
(* Proofs about the QUIC endpoint, for any number of commands, starts and  *)
(* connections.                                                            *)
(***************************************************************************)
EXTENDS P2PEndpointProps, FiniteSetTheorems, SequenceTheorems, TLAPS

\* The types the counting and the guards rest on.
EndpointTypeOK ==
    /\ endpoint \in BOOLEAN
    /\ loop \in [Gens -> LoopStates]
    /\ active \in Nat
    /\ open \in Nat

EndpointInv == EndpointTypeOK /\ AcceptsOnOpenEndpoint /\ CountCoversIncoming

\* The generations are finite, so the loops in a handshake can be counted.
LEMMA HandshakingFinite ==
    /\ IsFiniteSet(Handshaking)
    /\ Cardinality(Handshaking) \in Nat
  <1>1. MaxStarts \in Nat
    BY ConstAssumption
  <1>2. IsFiniteSet(Gens)
    BY <1>1, FS_Interval DEF Gens
  <1>3. Handshaking \in SUBSET Gens
    BY DEF Handshaking
  <1> QED
    BY <1>2, <1>3, FS_Subset, FS_CardinalityType

LEMMA InitEndpointInv == Init => EndpointInv
  <1> SUFFICES ASSUME Init PROVE EndpointInv
    OBVIOUS
  <1>1. Handshaking = {}
    BY DEF Init, Handshaking
  <1>2. Cardinality(Handshaking) = 0
    BY <1>1, FS_EmptySet
  <1>3. EndpointTypeOK
    BY DEF Init, EndpointTypeOK, LoopStates
  <1>4. AcceptsOnOpenEndpoint
    BY DEF Init, AcceptsOnOpenEndpoint
  <1>5. CountCoversIncoming
    BY <1>2 DEF Init, CountCoversIncoming
  <1> QED
    BY <1>3, <1>4, <1>5 DEF EndpointInv

\* A step that moves no loop into or out of a handshake or an accept, and leaves
\* the endpoint, the guards and the counters alone, or only counts more.
LEMMA CommandKeepsInv ==
    ASSUME EndpointInv, NEW c \in Callers, Begin(c) \/ Acquires(c) \/ Proceeds(c)
    PROVE  EndpointInv'
  <1>1. /\ UNCHANGED <<guards, loop, active, open>>
        /\ endpoint' = endpoint \/ guards = {}
        /\ endpoint' \in BOOLEAN
    BY DEF EndpointInv, EndpointTypeOK, Acquires, Proceeds, Begin, Bind, Close,
           RefusedStart, DaemonStart, DaemonStop, RoleStop, ServerCommand,
           ServerReturns, Ask, Answered, Addressed, Bound, BindFails, Stored, WriteTurn,
           countVars
  <1>2. Handshaking' = Handshaking
    BY <1>1 DEF Handshaking
  <1> QED
    BY <1>1, <1>2 DEF EndpointInv, EndpointTypeOK, AcceptsOnOpenEndpoint,
                      CountCoversIncoming

\* A step of generation g that leaves the counters alone and does not enter a
\* handshake.
LEMMA UncountedStep ==
    ASSUME EndpointInv, NEW g \in Gens,
           NEW s \in LoopStates, s # "handshaking",
           loop' = [loop EXCEPT ![g] = s],
           UNCHANGED <<endpoint, active, open>>,
           guards \ {g} \subseteq guards',
           s = "accepting" => endpoint /\ g \in guards'
    PROVE  EndpointInv'
  <1>1. EndpointTypeOK'
    BY DEF EndpointInv, EndpointTypeOK
  <1>2. AcceptsOnOpenEndpoint'
    BY DEF EndpointInv, EndpointTypeOK, AcceptsOnOpenEndpoint
  <1>3. Handshaking' = Handshaking \ {g}
    BY DEF EndpointInv, EndpointTypeOK, Handshaking
  <1>4. /\ Cardinality(Handshaking') \in Nat
        /\ Cardinality(Handshaking') <= Cardinality(Handshaking)
    <2>1. Handshaking' \in SUBSET Handshaking
      BY <1>3
    <2> QED
      BY <2>1, HandshakingFinite, FS_Subset, FS_CardinalityType
  <1>5. CountCoversIncoming'
    BY <1>4, HandshakingFinite DEF EndpointInv, EndpointTypeOK, CountCoversIncoming
  <1> QED
    BY <1>1, <1>2, <1>5 DEF EndpointInv

\* The daemon's outer task as far as it moves the accept loop.
LEMMA BootKeepsInv ==
    ASSUME EndpointInv, NEW g \in Gens, Boots(g)
    PROVE  EndpointInv'
  <1>1. CASE Boot(g)
    BY <1>1, UncountedStep DEF Boot, countVars, LoopStates
  <1>2. CASE ClientUp(g)
    <2>1. UNCHANGED <<endpoint, guards, loop, active, open>>
      BY <1>2 DEF ClientUp, countVars
    <2>2. Handshaking' = Handshaking
      BY <2>1 DEF Handshaking
    <2> QED
      BY <2>1, <2>2 DEF EndpointInv, EndpointTypeOK, AcceptsOnOpenEndpoint,
                        CountCoversIncoming
  <1>3. CASE ClientExit(g)
    BY <1>3, UncountedStep DEF ClientExit, countVars, LoopStates
  <1> QED
    BY <1>1, <1>2, <1>3 DEF Boots

\* The steps of an accept loop before a connection comes in.
LEMMA LoopKeepsInv ==
    ASSUME EndpointInv, NEW g \in Gens,
           LoopAsks(g) \/ LoopEnters(g) \/ LoopChecks(g) \/ LoopWakes(g)
    PROVE  EndpointInv'
  <1>1. CASE LoopAsks(g)
    <2>1. \E s \in {"asking", "checking"} : loop' = [loop EXCEPT ![g] = s]
      BY <1>1 DEF LoopAsks
    <2> QED
      BY <1>1, <2>1, UncountedStep DEF LoopAsks, countVars, LoopStates
  <1>2. CASE LoopEnters(g)
    BY <1>2, UncountedStep DEF LoopEnters, countVars, LoopStates
  <1>3. CASE LoopChecks(g)
    BY <1>3, UncountedStep DEF LoopChecks, countVars, LoopStates
  <1>4. CASE LoopWakes(g)
    BY <1>4, UncountedStep DEF LoopWakes, countVars, LoopStates
  <1> QED
    BY <1>1, <1>2, <1>3, <1>4

\* A connection comes in: the loop enters its handshake and is counted.
LEMMA AcceptKeepsInv ==
    ASSUME EndpointInv, NEW g \in Gens, LoopAccepts(g)
    PROVE  EndpointInv'
  <1>1. /\ UNCHANGED <<endpoint, open>>
        /\ active' = active + 1
        /\ guards' = guards \ {g}
        /\ loop' = [loop EXCEPT ![g] = "handshaking"]
    BY DEF LoopAccepts, CountIncoming
  <1>2. EndpointTypeOK'
    BY <1>1 DEF EndpointInv, EndpointTypeOK, LoopStates
  <1>3. AcceptsOnOpenEndpoint'
    BY <1>1 DEF EndpointInv, EndpointTypeOK, AcceptsOnOpenEndpoint
  <1>4. Handshaking' = Handshaking \cup {g}
    BY <1>1 DEF EndpointInv, EndpointTypeOK, Handshaking
  <1>5. Cardinality(Handshaking') <= Cardinality(Handshaking) + 1
    BY <1>4, HandshakingFinite, FS_AddElement
  <1>6. Cardinality(Handshaking') \in Nat
    BY <1>4, HandshakingFinite, FS_AddElement, FS_CardinalityType
  <1>7. CountCoversIncoming'
    BY <1>1, <1>5, <1>6, HandshakingFinite
       DEF EndpointInv, EndpointTypeOK, CountCoversIncoming
  <1> QED
    BY <1>2, <1>3, <1>7 DEF EndpointInv

\* The handshake is over: the connection is open, or counted no longer.
LEMMA HandshakeKeepsInv ==
    ASSUME EndpointInv, NEW g \in Gens, LoopHandshakes(g)
    PROVE  EndpointInv'
  <1>1. /\ UNCHANGED <<endpoint, guards>>
        /\ loop[g] = "handshaking"
        /\ loop' = [loop EXCEPT ![g] = "top"]
        /\ \/ open' = open + 1 /\ active' = active
           \/ active' = active - 1 /\ open' = open
    BY DEF LoopHandshakes
  <1>2. Handshaking' = Handshaking \ {g} /\ g \in Handshaking
    BY <1>1 DEF EndpointInv, EndpointTypeOK, Handshaking
  <1>3. Cardinality(Handshaking') = Cardinality(Handshaking) - 1
    BY <1>2, HandshakingFinite, FS_RemoveElement
  <1>4. Cardinality(Handshaking') \in Nat
    BY <1>2, HandshakingFinite, FS_RemoveElement, FS_CardinalityType
  <1>5. active >= open + 1
    BY <1>3, <1>4, HandshakingFinite
       DEF EndpointInv, EndpointTypeOK, CountCoversIncoming
  <1>6. EndpointTypeOK'
    BY <1>1, <1>5 DEF EndpointInv, EndpointTypeOK, LoopStates
  <1>7. AcceptsOnOpenEndpoint'
    BY <1>1 DEF EndpointInv, EndpointTypeOK, AcceptsOnOpenEndpoint
  <1>8. CountCoversIncoming'
    BY <1>1, <1>3, <1>4, HandshakingFinite
       DEF EndpointInv, EndpointTypeOK, CountCoversIncoming
  <1> QED
    BY <1>6, <1>7, <1>8 DEF EndpointInv

\* Connections that end, and the ones the consumer side opens.
LEMMA ConnectionKeepsInv ==
    ASSUME EndpointInv, ConnectionEnds \/ Dial
    PROVE  EndpointInv'
  <1>1. /\ UNCHANGED <<endpoint, guards, loop>>
        /\ \/ open > 0 /\ open' = open - 1 /\ active' = active - 1
           \/ open' = open /\ active' = active + 1
    BY DEF ConnectionEnds, Dial
  <1>2. Handshaking' = Handshaking
    BY <1>1 DEF Handshaking
  <1> QED
    BY <1>1, <1>2, HandshakingFinite
       DEF EndpointInv, EndpointTypeOK, AcceptsOnOpenEndpoint, CountCoversIncoming

LEMMA NextEndpointInv == EndpointInv /\ [Next]_vars => EndpointInv'
  <1> SUFFICES ASSUME EndpointInv, [Next]_vars PROVE EndpointInv'
    OBVIOUS
  <1>1. CASE \E c \in Callers : Begin(c) \/ Acquires(c) \/ Proceeds(c)
    BY <1>1, CommandKeepsInv
  <1>2. CASE \E g \in Gens : Boots(g)
    BY <1>2, BootKeepsInv
  <1>3. CASE \E g \in Gens : LoopMoves(g)
    BY <1>3, LoopKeepsInv, HandshakeKeepsInv DEF LoopMoves
  <1>4. CASE \E g \in Gens : LoopAccepts(g)
    BY <1>4, AcceptKeepsInv
  <1>5. CASE ConnectionEnds \/ Dial
    BY <1>5, ConnectionKeepsInv
  <1>6. CASE UNCHANGED vars
    <2>1. Handshaking' = Handshaking
      BY <1>6 DEF Handshaking, vars
    <2> QED
      BY <1>6, <2>1 DEF EndpointInv, EndpointTypeOK, AcceptsOnOpenEndpoint,
                        CountCoversIncoming, vars, countVars
  <1> QED
    BY <1>1, <1>2, <1>3, <1>4, <1>5, <1>6 DEF Next

\* An accept loop waits under its guard on an endpoint that is open
\* (P2PConnectionManager::accept_incoming, start, shutdown).
THEOREM AcceptsSafely == Spec => []AcceptsOnOpenEndpoint
  <1>1. EndpointInv => AcceptsOnOpenEndpoint
    BY DEF EndpointInv
  <1> QED
    BY <1>1, InitEndpointInv, NextEndpointInv, PTL DEF Spec

\* The counter covers every accepted connection, so it never wraps
\* (P2PConnectionManager::accept_incoming, peer_disconnected).
THEOREM CounterCovers == Spec => []CountCoversIncoming
  <1>1. EndpointInv => CountCoversIncoming
    BY DEF EndpointInv
  <1> QED
    BY <1>1, InitEndpointInv, NextEndpointInv, PTL DEF Spec

----------------------------------------------------------------------------
(* The queue of the lock.                                                  *)

Waiters == Callers \union Gens
Kinds == {"read", "write"}
Asked == [who : Waiters, kind : Kinds]

\* Who waits for what, by where it stands.
Waits(w, k) ==
    \/ w \in Callers /\ k = "read" /\ pc[w] \in {"asking", "addresses"}
    \/ w \in Callers /\ k = "write" /\ pc[w] \in {"opening", "closing"}
    \/ w \in Gens /\ k = "read" /\ loop[w] \in {"asking", "checking"}

Has(s, w, k) == \E i \in 1 .. Len(s) : s[i].who = w /\ s[i].kind = k
Single(s) == \A i, j \in 1 .. Len(s) : s[i].who = s[j].who => i = j

\* The queue has one request of everybody who waits and of nobody else.
QueueHoldsWaiters ==
    /\ Single(queue)
    /\ \A w \in Waiters, k \in Kinds : Has(queue, w, k) <=> Waits(w, k)

QueueInv == queue \in Seq(Asked) /\ QueueHoldsWaiters

LEMMA AppendRequest ==
    ASSUME NEW s \in Seq(Asked), NEW w \in Waiters, NEW k \in Kinds, Single(s),
           \A x \in Kinds : ~Has(s, w, x)
    PROVE  LET t == Append(s, [who |-> w, kind |-> k]) IN
           /\ t \in Seq(Asked) /\ Single(t)
           /\ \A v \in Waiters, x \in Kinds :
                Has(t, v, x) <=> IF v = w THEN x = k ELSE Has(s, v, x)
  <1> DEFINE r == [who |-> w, kind |-> k]
             t == Append(s, r)
  <1>1. r \in Asked
    BY DEF Asked
  <1>2. /\ t \in Seq(Asked) /\ Len(t) = Len(s) + 1 /\ Len(s) \in Nat
        /\ t[Len(s) + 1] = r /\ \A i \in 1 .. Len(s) : t[i] = s[i]
    BY <1>1, AppendProperties, LenProperties
  <1>3. \A i \in 1 .. Len(s) : s[i].who # w
    <2>1. \A i \in 1 .. Len(s) : s[i] \in Asked
      BY ElementOfSeq
    <2>2. \A i \in 1 .. Len(s) : s[i].kind \in Kinds
      BY <2>1 DEF Asked
    <2> QED
      BY <2>2 DEF Has
  <1>4. r.who = w /\ r.kind = k
    OBVIOUS
  <1> HIDE DEF r, t
  <1>5. Single(t)
    BY <1>2, <1>3, <1>4 DEF Single
  <1>6. ASSUME NEW v \in Waiters, NEW x \in Kinds
        PROVE  Has(t, v, x) <=> IF v = w THEN x = k ELSE Has(s, v, x)
    <2>1. 1 .. Len(t) = (1 .. Len(s)) \union {Len(s) + 1}
      BY <1>2
    <2>2. Has(t, v, x) <=> Has(s, v, x) \/ (w = v /\ k = x)
      BY <1>2, <1>4, <2>1 DEF Has
    <2>3. ~Has(s, w, x)
      OBVIOUS
    <2> QED
      BY <2>2, <2>3
  <1>7. t \in Seq(Asked)
    BY <1>2
  <1> QED
    BY <1>5, <1>6, <1>7 DEF t, r

LEMMA WithoutRequest ==
    ASSUME queue \in Seq(Asked), Single(queue), NEW w \in Waiters
    PROVE  /\ Without(w) \in Seq(Asked) /\ Single(Without(w))
           /\ \A v \in Waiters, x \in Kinds :
                Has(Without(w), v, x) <=> v # w /\ Has(queue, v, x)
  <1>1. DOMAIN queue = 1 .. Len(queue) /\ Len(queue) \in Nat
    BY LenProperties
  <1>2. CASE Requests(w) = {}
    <2>1. Without(w) = queue
      BY <1>2 DEF Without
    <2>2. \A i \in 1 .. Len(queue) : queue[i].who # w
      BY <1>1, <1>2 DEF Requests
    <2> QED
      BY <2>1, <2>2 DEF Has
  <1>3. CASE Requests(w) # {}
    <2> DEFINE n == CHOOSE i \in Requests(w) : TRUE
    <2>1. n \in 1 .. Len(queue) /\ queue[n].who = w
      BY <1>1, <1>3 DEF Requests
    <2>2. Without(w) = RemoveAt(queue, n)
      BY <1>3 DEF Without
    <2> HIDE DEF n
    <2>3. PICK i \in 1 .. Len(queue) : i = n
      BY <2>1
    <2> DEFINE a == SubSeq(queue, 1, i - 1)
               b == SubSeq(queue, i + 1, Len(queue))
               t == a \o b
    <2>4. Without(w) = t
      BY <2>2, <2>3 DEF RemoveAt
    <2>5. \A j \in 1 .. Len(queue) : queue[j] \in Asked
      BY ElementOfSeq
    <2>6. /\ a \in Seq(Asked) /\ Len(a) = i - 1
          /\ \A j \in 1 .. i - 1 : a[j] = queue[j]
      <3>1. 1 \in Int /\ i - 1 \in Int /\ \A j \in 1 .. i - 1 : queue[j] \in Asked
        BY <1>1, <2>5
      <3>2. /\ a \in Seq(Asked)
            /\ Len(a) = IF 1 <= i - 1 THEN (i - 1) - 1 + 1 ELSE 0
            /\ \A j \in 1 .. (i - 1) - 1 + 1 : a[j] = queue[1 + j - 1]
        BY <3>1, SubSeqProperties
      <3>3. \A j \in 1 .. i - 1 : j \in 1 .. (i - 1) - 1 + 1 /\ 1 + j - 1 = j
        BY <1>1
      <3>4. Len(a) = i - 1
        BY <1>1, <3>2
      <3> QED
        BY <3>2, <3>3, <3>4
    <2>7. /\ b \in Seq(Asked) /\ Len(b) = Len(queue) - i
          /\ \A j \in 1 .. Len(queue) - i : b[j] = queue[i + j]
      <3>1. i + 1 \in Int /\ Len(queue) \in Int /\ \A j \in i + 1 .. Len(queue) : queue[j] \in Asked
        BY <1>1, <2>5
      <3>2. /\ b \in Seq(Asked)
            /\ Len(b) = IF i + 1 <= Len(queue) THEN Len(queue) - (i + 1) + 1 ELSE 0
            /\ \A j \in 1 .. Len(queue) - (i + 1) + 1 : b[j] = queue[i + 1 + j - 1]
        BY <3>1, SubSeqProperties
      <3>3. \A j \in 1 .. Len(queue) - i :
                j \in 1 .. Len(queue) - (i + 1) + 1 /\ i + 1 + j - 1 = i + j
        BY <1>1
      <3>4. i \in Nat /\ i <= Len(queue)
        BY <1>1
      <3>5. CASE i < Len(queue)
        <4>1. i + 1 <= Len(queue) /\ Len(queue) - (i + 1) + 1 = Len(queue) - i
          BY <1>1, <3>4, <3>5
        <4> QED
          BY <3>2, <3>3, <4>1
      <3>6. CASE ~(i < Len(queue))
        <4> PICK l \in Nat : l = Len(queue)
          BY <1>1
        <4>1. ~(i + 1 <= l) /\ l - i = 0
          BY <3>4, <3>6
        <4>2. Len(b) = Len(queue) - i
          BY <3>2, <4>1
        <4> QED
          BY <3>2, <3>3, <4>2
      <3> QED
        BY <3>5, <3>6, Zenon
    <2> HIDE DEF a, b
    <2>8. /\ t \in Seq(Asked) /\ Len(t) = Len(queue) - 1
          /\ \A j \in 1 .. Len(queue) - 1 : t[j] = IF j < i THEN queue[j] ELSE queue[j + 1]
      <3>1. /\ t \in Seq(Asked) /\ Len(t) = Len(a) + Len(b)
            /\ \A j \in 1 .. Len(a) + Len(b) :
                    t[j] = IF j <= Len(a) THEN a[j] ELSE b[j - Len(a)]
        BY <2>6, <2>7, ConcatProperties
      <3>2. Len(a) + Len(b) = Len(queue) - 1
        BY <1>1, <2>6, <2>7
      <3>3. ASSUME NEW j \in 1 .. Len(queue) - 1, j < i PROVE t[j] = queue[j]
        <4>1. j \in 1 .. i - 1 /\ j <= Len(a)
          BY <1>1, <2>6, <3>3
        <4> QED
          BY <2>6, <3>1, <3>2, <4>1
      <3>4. ASSUME NEW j \in 1 .. Len(queue) - 1, ~(j < i) PROVE t[j] = queue[j + 1]
        <4>1. j - Len(a) \in 1 .. Len(queue) - i /\ ~(j <= Len(a)) /\ i + (j - Len(a)) = j + 1
          BY <1>1, <2>6, <3>4
        <4>2. t[j] = b[j - Len(a)]
          BY <3>1, <3>2, <4>1
        <4> QED
          BY <2>7, <4>1, <4>2
      <3> QED
        BY <3>1, <3>2, <3>3, <3>4
    <2> HIDE DEF t
    <2>9. \A j \in 1 .. Len(queue) : j # i => queue[j].who # w
      BY <2>1, <2>3 DEF Single
    <2>10. ASSUME NEW j \in 1 .. Len(t)
           PROVE  \E k \in 1 .. Len(queue) : k # i /\ t[j] = queue[k] /\ (k = j \/ k = j + 1)
      <3>1. CASE j < i
        BY <1>1, <2>8, <3>1
      <3>2. CASE ~(j < i)
        <4>1. j + 1 \in 1 .. Len(queue) /\ j + 1 # i
          BY <1>1, <2>8, <3>2
        <4> QED
          BY <2>8, <3>2, <4>1
      <3> QED
        BY <3>1, <3>2
    <2>11. ASSUME NEW k \in 1 .. Len(queue), k # i
           PROVE  \E j \in 1 .. Len(t) : t[j] = queue[k]
      <3>1. CASE k < i
        <4>1. k \in 1 .. Len(t)
          BY <1>1, <2>8, <3>1
        <4> QED
          BY <2>8, <3>1, <4>1
      <3>2. CASE k > i
        <4>1. k - 1 \in 1 .. Len(t) /\ ~(k - 1 < i) /\ (k - 1) + 1 = k
          BY <1>1, <2>8, <3>2
        <4> QED
          BY <2>8, <4>1
      <3> QED
        BY <2>11, <3>1, <3>2
    <2>12. Single(t)
      <3> SUFFICES ASSUME NEW j \in 1 .. Len(t), NEW l \in 1 .. Len(t), t[j].who = t[l].who
                   PROVE  j = l
        BY DEF Single
      <3>1. CASE j < i /\ l < i
        BY <1>1, <2>8, <3>1 DEF Single
      <3>2. CASE ~(j < i) /\ ~(l < i)
        <4>1. j + 1 \in 1 .. Len(queue) /\ l + 1 \in 1 .. Len(queue)
          BY <1>1, <2>8
        <4>2. queue[j + 1].who = queue[l + 1].who
          BY <2>8, <3>2
        <4>3. j + 1 = l + 1
          BY <4>1, <4>2 DEF Single
        <4> QED
          BY <2>8, <4>3
      <3>3. ASSUME NEW p \in 1 .. Len(t), NEW q \in 1 .. Len(t), p < i, ~(q < i)
            PROVE  t[p].who # t[q].who
        <4>1. p \in 1 .. Len(queue) /\ q + 1 \in 1 .. Len(queue) /\ p # q + 1
          BY <1>1, <2>8, <3>3
        <4>2. t[p] = queue[p] /\ t[q] = queue[q + 1]
          BY <2>8, <3>3
        <4> QED
          BY <4>1, <4>2 DEF Single
      <3> QED
        BY <3>1, <3>2, <3>3
    <2>13. ASSUME NEW v \in Waiters, NEW x \in Kinds
           PROVE  Has(t, v, x) <=> v # w /\ Has(queue, v, x)
      <3>1. Has(t, v, x) => v # w /\ Has(queue, v, x)
        BY <2>9, <2>10 DEF Has
      <3>2. v # w /\ Has(queue, v, x) => Has(t, v, x)
        <4> SUFFICES ASSUME v # w, NEW k \in 1 .. Len(queue), queue[k].who = v, queue[k].kind = x
                     PROVE  Has(t, v, x)
          BY DEF Has
        <4>1. k # i
          BY <2>1, <2>3
        <4> QED
          BY <2>11, <4>1 DEF Has
      <3> QED
        BY <3>1, <3>2
    <2> QED
      BY <2>4, <2>8, <2>12, <2>13
  <1> QED
    BY <1>2, <1>3

\* A step after which w waits anew, waits no longer, or waits for something else.
LEMMA Joins ==
    ASSUME QueueInv, NEW w \in Waiters, NEW k \in Kinds, Request(w, k),
           \A x \in Kinds : ~Waits(w, x),
           \A v \in Waiters, x \in Kinds : Waits(v, x)' <=> IF v = w THEN x = k ELSE Waits(v, x)
    PROVE  QueueInv'
  <1>1. queue \in Seq(Asked) /\ Single(queue) /\ \A x \in Kinds : ~Has(queue, w, x)
    BY DEF QueueInv, QueueHoldsWaiters
  <1>2. /\ queue' \in Seq(Asked) /\ Single(queue')
        /\ \A v \in Waiters, x \in Kinds :
                Has(queue', v, x) <=> IF v = w THEN x = k ELSE Has(queue, v, x)
    BY <1>1, AppendRequest DEF Request
  <1> QED
    BY <1>2 DEF QueueInv, QueueHoldsWaiters, Has, Single

LEMMA Leaves ==
    ASSUME QueueInv, NEW w \in Waiters, Leave(w),
           \A v \in Waiters, x \in Kinds : Waits(v, x)' <=> v # w /\ Waits(v, x)
    PROVE  QueueInv'
  <1>1. queue \in Seq(Asked) /\ Single(queue)
    BY DEF QueueInv, QueueHoldsWaiters
  <1>2. /\ queue' \in Seq(Asked) /\ Single(queue')
        /\ \A v \in Waiters, x \in Kinds :
                Has(queue', v, x) <=> v # w /\ Has(queue, v, x)
    BY <1>1, WithoutRequest DEF Leave
  <1> QED
    BY <1>2 DEF QueueInv, QueueHoldsWaiters

LEMMA AsksAgain ==
    ASSUME QueueInv, NEW w \in Waiters, NEW k \in Kinds, AskAgain(w, k),
           \A v \in Waiters, x \in Kinds : Waits(v, x)' <=> IF v = w THEN x = k ELSE Waits(v, x)
    PROVE  QueueInv'
  <1>1. queue \in Seq(Asked) /\ Single(queue)
    BY DEF QueueInv, QueueHoldsWaiters
  <1>2. /\ Without(w) \in Seq(Asked) /\ Single(Without(w))
        /\ \A v \in Waiters, x \in Kinds :
                Has(Without(w), v, x) <=> v # w /\ Has(queue, v, x)
    BY <1>1, WithoutRequest
  <1>3. PICK s \in Seq(Asked) : s = Without(w)
    BY <1>2
  <1>4. Single(s) /\ \A x \in Kinds : ~Has(s, w, x)
    BY <1>2, <1>3
  <1>5. queue' = Append(s, [who |-> w, kind |-> k])
    BY <1>3 DEF AskAgain
  <1>6. /\ queue' \in Seq(Asked) /\ Single(queue')
        /\ \A v \in Waiters, x \in Kinds :
                Has(queue', v, x) <=> IF v = w THEN x = k ELSE Has(s, v, x)
    BY <1>4, <1>5, AppendRequest
  <1>7. \A v \in Waiters, x \in Kinds :
            Has(queue', v, x) <=> IF v = w THEN x = k ELSE Has(queue, v, x)
    BY <1>2, <1>3, <1>6
  <1> QED
    BY <1>6, <1>7 DEF QueueInv, QueueHoldsWaiters

LEMMA Keeps ==
    ASSUME QueueInv, UNCHANGED queue,
           \A v \in Waiters, x \in Kinds : Waits(v, x)' <=> Waits(v, x)
    PROVE  QueueInv'
  BY DEF QueueInv, QueueHoldsWaiters

\* Where a command waits, and where an accept loop does.
StepWaits(p, k) ==
    (k = "read" /\ p \in {"asking", "addresses"}) \/ (k = "write" /\ p \in {"opening", "closing"})
LoopWaits(l, k) == k = "read" /\ l \in {"asking", "checking"}

\* The types of the variables but the counters and the queue.
PlaceTypeOK ==
    /\ op \in [Callers -> Ops \union {"none"}]
    /\ pc \in [Callers -> Steps]
    /\ daemonLock \in Callers \union {NoCaller}
    /\ running \in BOOLEAN
    /\ starts \in 0 .. MaxStarts
    /\ client \in [Gens -> ClientStates]
    /\ guards \in SUBSET Gens
    /\ loop \in [Gens -> LoopStates]
    /\ dials \in 0 .. MaxDials

LEMMA CallerMoves ==
    ASSUME PlaceTypeOK, NEW c \in Callers, NEW p \in Steps, At(c, p), UNCHANGED loop
    PROVE  \A v \in Waiters, x \in Kinds :
                Waits(v, x)' <=> IF v = c THEN StepWaits(p, x) ELSE Waits(v, x)
  <1>1. c \notin Gens
    BY CallerAssumption
  <1>2. pc' = [pc EXCEPT ![c] = p] /\ pc'[c] = p /\ \A v \in Callers : v # c => pc'[v] = pc[v]
    BY DEF At, PlaceTypeOK
  <1> QED
    BY <1>1, <1>2 DEF Waits, StepWaits

LEMMA LoopMovesOn ==
    ASSUME PlaceTypeOK, NEW g \in Gens, NEW l \in LoopStates,
           loop' = [loop EXCEPT ![g] = l], UNCHANGED pc
    PROVE  \A v \in Waiters, x \in Kinds :
                Waits(v, x)' <=> IF v = g THEN LoopWaits(l, x) ELSE Waits(v, x)
  <1>1. g \notin Callers
    BY CallerAssumption
  <1>2. loop'[g] = l /\ \A v \in Gens : v # g => loop'[v] = loop[v]
    BY DEF PlaceTypeOK
  <1> QED
    BY <1>1, <1>2 DEF Waits, LoopWaits

LEMMA InitQueueInv == Init => PlaceTypeOK /\ QueueInv
  <1> SUFFICES ASSUME Init PROVE PlaceTypeOK /\ QueueInv
    OBVIOUS
  <1>1. PlaceTypeOK
    <2>1. 0 \in 0 .. MaxStarts /\ 0 \in 0 .. MaxDials
      BY ConstAssumption
    <2> QED
      BY <2>1 DEF Init, PlaceTypeOK, Steps, LoopStates, ClientStates
  <1>2. queue \in Seq(Asked) /\ \A i \in 1 .. Len(queue) : FALSE
    BY DEF Init
  <1>3. \A w \in Waiters, k \in Kinds : ~Waits(w, k)
    BY DEF Init, Waits
  <1> QED
    BY <1>1, <1>2, <1>3 DEF QueueInv, QueueHoldsWaiters, Has, Single

\* A command that goes from one place to another where it waits for nothing.
LEMMA Passes ==
    ASSUME PlaceTypeOK, QueueInv, NEW c \in Callers, NEW p \in Steps, At(c, p),
           UNCHANGED <<queue, loop>>,
           pc[c] \in {"idle", "begun", "ask", "bind"}, p \in {"idle", "begun", "ask", "bind"}
    PROVE  QueueInv'
  <1>1. \A x \in Kinds : ~StepWaits(p, x) /\ ~Waits(c, x)
    BY CallerAssumption DEF StepWaits, Waits
  <1>2. \A v \in Waiters, x \in Kinds : Waits(v, x)' <=> Waits(v, x)
    BY <1>1, CallerMoves
  <1> QED
    BY <1>2, Keeps

\* A command that starts to wait.
LEMMA Enters ==
    ASSUME PlaceTypeOK, QueueInv, NEW c \in Callers, NEW p \in Steps, At(c, p),
           NEW k \in Kinds, Request(c, k), UNCHANGED loop,
           pc[c] \in {"idle", "begun", "ask", "bind"},
           \A x \in Kinds : StepWaits(p, x) <=> x = k
    PROVE  QueueInv'
  <1>1. c \in Waiters /\ \A x \in Kinds : ~Waits(c, x)
    BY CallerAssumption DEF Waits, Waiters
  <1>2. \A v \in Waiters, x \in Kinds : Waits(v, x)' <=> IF v = c THEN x = k ELSE Waits(v, x)
    BY CallerMoves
  <1> QED
    BY <1>1, <1>2, Joins

\* A command whose request is granted and that waits for nothing more.
LEMMA Granted ==
    ASSUME PlaceTypeOK, QueueInv, NEW c \in Callers, NEW p \in Steps, At(c, p),
           Leave(c), UNCHANGED loop, p \in {"idle", "bind"}
    PROVE  QueueInv'
  <1>1. c \in Waiters /\ \A x \in Kinds : ~StepWaits(p, x)
    BY DEF StepWaits, Waiters
  <1>2. \A v \in Waiters, x \in Kinds : Waits(v, x)' <=> v # c /\ Waits(v, x)
    BY <1>1, CallerMoves
  <1> QED
    BY <1>1, <1>2, Leaves

LEMMA GrantedAgain ==
    ASSUME PlaceTypeOK, QueueInv, NEW c \in Callers, NEW p \in Steps, At(c, p),
           NEW k \in Kinds, AskAgain(c, k), UNCHANGED loop,
           \A x \in Kinds : StepWaits(p, x) <=> x = k
    PROVE  QueueInv'
  <1>1. c \in Waiters
    BY DEF Waiters
  <1>2. \A v \in Waiters, x \in Kinds : Waits(v, x)' <=> IF v = c THEN x = k ELSE Waits(v, x)
    BY CallerMoves
  <1> QED
    BY <1>1, <1>2, AsksAgain

LEMMA CommandKeepsQueue ==
    ASSUME PlaceTypeOK, QueueInv, NEW c \in Callers, Begin(c) \/ Acquires(c) \/ Proceeds(c)
    PROVE  QueueInv'
  <1>1. Steps = {"idle", "begun", "ask", "asking", "addresses", "bind", "opening", "closing"}
        /\ Kinds = {"read", "write"}
    BY DEF Steps, Kinds
  <1>2. CASE Begin(c)
    BY <1>1, <1>2, Passes DEF Begin
  <1>3. CASE RefusedStart(c) \/ DaemonStart(c) \/ DaemonStop(c) \/ RoleStop(c)
    BY <1>1, <1>3, Passes DEF RefusedStart, DaemonStart, DaemonStop, RoleStop, Return
  <1>4. CASE Bind(c) \/ ServerCommand(c) \/ ServerReturns(c) \/ BindFails(c)
    BY <1>1, <1>4, Passes DEF Bind, ServerCommand, ServerReturns, BindFails, Return
  <1>5. CASE Close(c)
    BY <1>1, <1>5, Enters DEF Close, StepWaits
  <1>6. CASE Ask(c)
    BY <1>1, <1>6, Enters DEF Ask, StepWaits
  <1>7. CASE Bound(c)
    BY <1>1, <1>7, Enters DEF Bound, StepWaits
  <1>8. CASE Answered(c)
    <2>1. CASE Leave(c) /\ At(c, "bind")
      BY <1>1, <1>8, <2>1, Granted DEF Answered
    <2>2. CASE Leave(c) /\ Return(c)
      BY <1>1, <1>8, <2>2, Granted DEF Answered, Return
    <2>3. CASE AskAgain(c, "write") /\ At(c, "closing")
      BY <1>1, <1>8, <2>3, GrantedAgain DEF Answered, StepWaits
    <2>4. CASE AskAgain(c, "read") /\ At(c, "addresses")
      BY <1>1, <1>8, <2>4, GrantedAgain DEF Answered, StepWaits
    <2> QED
      BY <1>8, <2>1, <2>2, <2>3, <2>4 DEF Answered
  <1>9. CASE Addressed(c)
    BY <1>1, <1>9, Granted DEF Addressed, Return
  <1>10. CASE Stored(c)
    BY <1>1, <1>10, Granted DEF Stored, Return
  <1> QED
    BY <1>2, <1>3, <1>4, <1>5, <1>6, <1>7, <1>8, <1>9, <1>10 DEF Acquires, Proceeds

LEMMA LoopKeepsQueue ==
    ASSUME PlaceTypeOK, QueueInv, NEW g \in Gens,
           Boots(g) \/ LoopMoves(g) \/ LoopAccepts(g), Boot(g) => loop[g] = "none"
    PROVE  QueueInv'
  <1>1. g \in Waiters /\ g \notin Callers /\ Kinds = {"read", "write"}
    BY CallerAssumption DEF Waiters, Kinds
  <1>2. UNCHANGED pc
    BY DEF Boots, LoopMoves, Boot, ClientUp, ClientExit, LoopAsks, LoopEnters, LoopChecks,
           LoopWakes, LoopHandshakes, LoopAccepts, commandVars
  <1>3. ASSUME NEW l \in LoopStates, loop' = [loop EXCEPT ![g] = l],
               l \notin {"asking", "checking"}
        PROVE  /\ loop[g] \notin {"asking", "checking"} /\ UNCHANGED queue => QueueInv'
               /\ Leave(g) => QueueInv'
    <2>1. \A x \in Kinds : ~LoopWaits(l, x)
      BY <1>3 DEF LoopWaits
    <2>2. \A v \in Waiters, x \in Kinds : Waits(v, x)' <=> v # g /\ Waits(v, x)
      BY <1>2, <1>3, <2>1, LoopMovesOn
    <2>3. Leave(g) => QueueInv'
      BY <1>1, <2>2, Leaves
    <2>4. ASSUME loop[g] \notin {"asking", "checking"}, UNCHANGED queue PROVE QueueInv'
      <3>1. \A x \in Kinds : ~Waits(g, x)
        BY <1>1, <2>4 DEF Waits
      <3>2. \A v \in Waiters, x \in Kinds : Waits(v, x)' <=> Waits(v, x)
        BY <2>2, <3>1
      <3> QED
        BY <2>4, <3>2, Keeps
    <2> QED
      BY <2>3, <2>4
  <1>4. CASE Boot(g)
    <2>1. loop' = [loop EXCEPT ![g] = "top"] /\ UNCHANGED queue /\ loop[g] = "none"
      BY <1>4 DEF Boot
    <2> QED
      BY <1>3, <2>1 DEF LoopStates
  <1>5. CASE ClientUp(g)
    <2>1. UNCHANGED <<queue, loop, pc>>
      BY <1>2, <1>5 DEF ClientUp
    <2>2. \A v \in Waiters, x \in Kinds : Waits(v, x)' <=> Waits(v, x)
      BY <2>1 DEF Waits
    <2> QED
      BY <2>1, <2>2, Keeps
  <1>6. CASE ClientExit(g)
    <2>1. loop' = [loop EXCEPT ![g] = "ended"] /\ Leave(g)
      BY <1>6 DEF ClientExit
    <2> QED
      BY <1>3, <2>1 DEF LoopStates
  <1>7. CASE LoopAsks(g)
    <2>1. PICK l \in {"asking", "checking"} : loop' = [loop EXCEPT ![g] = l]
      BY <1>7 DEF LoopAsks
    <2>2. \A x \in Kinds : ~Waits(g, x)
      BY <1>1, <1>7 DEF Waits, LoopAsks
    <2>3. \A x \in Kinds : LoopWaits(l, x) <=> x = "read"
      BY DEF LoopWaits
    <2>4. \A v \in Waiters, x \in Kinds :
            Waits(v, x)' <=> IF v = g THEN x = "read" ELSE Waits(v, x)
      <3>1. l \in LoopStates
        BY DEF LoopStates
      <3>2. \A v \in Waiters, x \in Kinds :
                Waits(v, x)' <=> IF v = g THEN LoopWaits(l, x) ELSE Waits(v, x)
        BY <1>2, <2>1, <3>1, LoopMovesOn
      <3> QED
        BY <2>3, <3>2
    <2>5. Request(g, "read") /\ "read" \in Kinds
      BY <1>1, <1>7 DEF LoopAsks
    <2> QED
      BY <1>1, <2>2, <2>4, <2>5, Joins
  <1>8. CASE LoopEnters(g) \/ LoopChecks(g)
    <2>1. /\ Leave(g)
          /\ \E l \in {"accepting", "failed", "sleeping", "ended"} : loop' = [loop EXCEPT ![g] = l]
      BY <1>8 DEF LoopEnters, LoopChecks
    <2> QED
      BY <1>3, <2>1 DEF LoopStates
  <1>9. CASE LoopWakes(g) \/ LoopHandshakes(g) \/ LoopAccepts(g)
    <2>1. /\ UNCHANGED queue /\ loop[g] \notin {"asking", "checking"}
          /\ \E l \in {"top", "handshaking"} : loop' = [loop EXCEPT ![g] = l]
      BY <1>9 DEF LoopWakes, LoopHandshakes, LoopAccepts
    <2> QED
      BY <1>3, <2>1 DEF LoopStates
  <1> QED
    BY <1>4, <1>5, <1>6, <1>7, <1>8, <1>9 DEF Boots, LoopMoves

\* A generation that has not been polled has no accept loop yet.
ClientInv ==
    \A g \in Gens :
        /\ g > starts => client[g] = "none"
        /\ client[g] \in {"none", "spawned"} => loop[g] = "none"

LEMMA CommandKeepsPlaces ==
    ASSUME PlaceTypeOK, ClientInv, NEW c \in Callers, Begin(c) \/ Acquires(c) \/ Proceeds(c)
    PROVE  PlaceTypeOK' /\ ClientInv'
  <1>1. /\ UNCHANGED <<guards, loop, dials>>
        /\ \E p \in Steps : pc' = [pc EXCEPT ![c] = p]
    BY DEF Begin, Acquires, Proceeds, Bind, Close, RefusedStart, DaemonStart, DaemonStop,
           RoleStop, ServerCommand, ServerReturns, Ask, Answered, Addressed, Bound, BindFails, Stored,
           Return, At, Steps, countVars
  <1>2. \E o \in Ops \union {"none"} : op' = op \/ op' = [op EXCEPT ![c] = o]
    BY DEF Begin, Acquires, Proceeds, Bind, Close, RefusedStart, DaemonStart, DaemonStop,
           RoleStop, ServerCommand, ServerReturns, Ask, Answered, Addressed, Bound, BindFails, Stored,
           Return
  <1>3. daemonLock' \in {daemonLock, c, NoCaller}
    BY DEF Begin, Acquires, Proceeds, Bind, Close, RefusedStart, DaemonStart, DaemonStop,
           RoleStop, ServerCommand, ServerReturns, Ask, Answered, Addressed, Bound, BindFails, Stored,
           Return
  <1>4. \/ DaemonStart(c) \/ DaemonStop(c) \/ RoleStop(c)
        \/ UNCHANGED <<running, starts, client>>
    BY DEF Begin, Acquires, Proceeds, Bind, Close, RefusedStart,
           ServerCommand, ServerReturns, Ask, Answered, Addressed, Bound, BindFails, Stored,
           daemonVars
  <1>5. MaxStarts \in Nat /\ starts \in Nat
    BY ConstAssumption DEF PlaceTypeOK
  <1>6. /\ running' \in BOOLEAN /\ starts' \in 0 .. MaxStarts
        /\ client' \in [Gens -> ClientStates] /\ ClientInv'
    <2>1. CASE DaemonStart(c)
      <3>1. /\ running' = TRUE /\ starts' = starts + 1 /\ starts < MaxStarts
            /\ client' = [client EXCEPT ![starts + 1] = "spawned"]
        BY <2>1 DEF DaemonStart
      <3>2. starts' \in 0 .. MaxStarts /\ starts + 1 \in Gens /\ starts + 1 > starts
        BY <1>5, <3>1 DEF Gens
      <3>3. client' \in [Gens -> ClientStates]
        BY <3>1 DEF PlaceTypeOK, ClientStates
      <3>4. client[starts + 1] = "none" /\ loop[starts + 1] = "none"
        BY <3>2 DEF ClientInv
      <3>5. ASSUME NEW g \in Gens
            PROVE  /\ g > starts' => client'[g] = "none"
                   /\ client'[g] \in {"none", "spawned"} => loop'[g] = "none"
        <4>1. CASE g = starts + 1
          BY <1>1, <1>5, <3>1, <3>4, <4>1
        <4>2. CASE g # starts + 1
          <5>1. client'[g] = client[g]
            BY <3>1, <4>2 DEF PlaceTypeOK
          <5>2. g > starts' => g > starts
            BY <1>5, <3>1 DEF Gens
          <5> QED
            BY <1>1, <5>1, <5>2 DEF ClientInv
        <4> QED
          BY <4>1, <4>2
      <3> QED
        BY <3>1, <3>2, <3>3, <3>5 DEF ClientInv
    <2>2. CASE DaemonStop(c) \/ RoleStop(c)
      <3>1. running' = FALSE /\ starts' = starts
            /\ (client' = client \/ client' = [client EXCEPT ![starts] = "gone"])
        BY <2>2 DEF DaemonStop, RoleStop, Stopped
      <3>2. client' \in [Gens -> ClientStates]
        BY <3>1 DEF PlaceTypeOK, ClientStates
      <3>3. ASSUME NEW g \in Gens
            PROVE  client'[g] = client[g] \/ (g = starts /\ client'[g] = "gone")
        BY <3>1 DEF PlaceTypeOK
      <3>4. \A g \in Gens : ~(g = starts /\ g > starts)
        BY <1>5
      <3>5. ClientInv'
        BY <1>1, <3>1, <3>3, <3>4 DEF ClientInv
      <3> QED
        BY <3>1, <3>2, <3>5 DEF PlaceTypeOK
    <2>3. CASE UNCHANGED <<running, starts, client>>
      BY <1>1, <2>3 DEF ClientInv, PlaceTypeOK
    <2> QED
      BY <1>4, <2>1, <2>2, <2>3
  <1>7. op' \in [Callers -> Ops \union {"none"}] /\ pc' \in [Callers -> Steps]
    BY <1>1, <1>2 DEF PlaceTypeOK
  <1>8. /\ daemonLock' \in Callers \union {NoCaller} /\ guards' \in SUBSET Gens
        /\ loop' \in [Gens -> LoopStates] /\ dials' \in 0 .. MaxDials
    BY <1>1, <1>3 DEF PlaceTypeOK
  <1> QED
    BY <1>6, <1>7, <1>8 DEF PlaceTypeOK

LEMMA LoopKeepsPlaces ==
    ASSUME PlaceTypeOK, ClientInv, NEW g \in Gens, Boots(g) \/ LoopMoves(g) \/ LoopAccepts(g)
    PROVE  PlaceTypeOK' /\ ClientInv'
  <1>1. UNCHANGED <<op, pc, daemonLock, starts, dials>>
    BY DEF Boots, LoopMoves, Boot, ClientUp, ClientExit, LoopAsks, LoopEnters, LoopChecks,
           LoopWakes, LoopHandshakes, LoopAccepts, commandVars, daemonVars, countVars
  <1>2. running' \in {running, FALSE} /\ guards' \in {guards, guards \ {g}, guards \union {g}}
    BY DEF Boots, LoopMoves, Boot, ClientUp, ClientExit, LoopAsks, LoopEnters, LoopChecks,
           LoopWakes, LoopHandshakes, LoopAccepts, daemonVars
  <1>3. \/ /\ client[g] \in {"spawned", "booted"}
           /\ \E s \in {"booted", "up", "gone"} : client' = [client EXCEPT ![g] = s]
        \/ client' = client /\ loop[g] # "none"
    BY DEF Boots, LoopMoves, Boot, ClientUp, ClientExit, LoopAsks, LoopEnters, LoopChecks,
           LoopWakes, LoopHandshakes, LoopAccepts, daemonVars
  <1>4. loop' = loop \/ \E l \in LoopStates : loop' = [loop EXCEPT ![g] = l]
    BY DEF Boots, LoopMoves, Boot, ClientUp, ClientExit, LoopAsks, LoopEnters, LoopChecks,
           LoopWakes, LoopHandshakes, LoopAccepts, LoopStates
  <1>5. client' \in [Gens -> ClientStates] /\ loop' \in [Gens -> LoopStates]
    BY <1>3, <1>4 DEF PlaceTypeOK, ClientStates
  <1>6. PlaceTypeOK'
    BY <1>1, <1>2, <1>5 DEF PlaceTypeOK
  <1>7. \A h \in Gens : h # g => client'[h] = client[h] /\ loop'[h] = loop[h]
    BY <1>3, <1>4 DEF PlaceTypeOK
  <1>8. /\ g > starts => client'[g] = "none"
        /\ client'[g] \in {"none", "spawned"} => loop'[g] = "none"
    <2>1. client'[g] \in {"booted", "up", "gone"} \/ (client'[g] = client[g] /\ loop[g] # "none")
      BY <1>3 DEF PlaceTypeOK
    <2>2. ~(g > starts)
      BY <1>3 DEF ClientInv
    <2> QED
      BY <2>1, <2>2 DEF ClientInv
  <1>9. ClientInv'
    BY <1>1, <1>7, <1>8 DEF ClientInv
  <1> QED
    BY <1>6, <1>9

LEMMA ConnectionKeepsPlaces ==
    ASSUME PlaceTypeOK, ClientInv, QueueInv, ConnectionEnds \/ Dial \/ UNCHANGED vars
    PROVE  PlaceTypeOK' /\ ClientInv' /\ QueueInv'
  <1>1. /\ UNCHANGED <<op, pc, daemonLock, running, starts, client, queue, guards, loop>>
        /\ dials' = dials \/ (dials < MaxDials /\ dials' = dials + 1)
    BY DEF ConnectionEnds, Dial, vars, commandVars, daemonVars, countVars
  <1>2. dials' \in 0 .. MaxDials
    BY <1>1, ConstAssumption DEF PlaceTypeOK
  <1>3. \A v \in Waiters, x \in Kinds : Waits(v, x)' <=> Waits(v, x)
    BY <1>1 DEF Waits
  <1> QED
    BY <1>1, <1>2, <1>3, Keeps DEF PlaceTypeOK, ClientInv

LockInv == EndpointInv /\ PlaceTypeOK /\ ClientInv /\ QueueInv

LEMMA InitLockInv == Init => LockInv
  <1>1. Init => ClientInv
    BY DEF Init, ClientInv
  <1> QED
    BY <1>1, InitEndpointInv, InitQueueInv DEF LockInv

LEMMA NextLockInv == LockInv /\ [Next]_vars => LockInv'
  <1> SUFFICES ASSUME LockInv, [Next]_vars PROVE LockInv'
    OBVIOUS
  <1> USE DEF LockInv
  <1>1. EndpointInv'
    BY NextEndpointInv
  <1>2. CASE \E c \in Callers : Begin(c) \/ Acquires(c) \/ Proceeds(c)
    BY <1>1, <1>2, CommandKeepsQueue, CommandKeepsPlaces
  <1>3. CASE \E g \in Gens : Boots(g) \/ LoopMoves(g) \/ LoopAccepts(g)
    <2>1. PICK g \in Gens : Boots(g) \/ LoopMoves(g) \/ LoopAccepts(g)
      BY <1>3
    <2>2. Boot(g) => loop[g] = "none"
      BY DEF Boot, ClientInv
    <2> QED
      BY <1>1, <2>1, <2>2, LoopKeepsQueue, LoopKeepsPlaces
  <1>4. CASE ConnectionEnds \/ Dial \/ UNCHANGED vars
    BY <1>1, <1>4, ConnectionKeepsPlaces
  <1> QED
    BY <1>2, <1>3, <1>4 DEF Next

\* Commands, accept loops, queue and counters keep their types; the connection counter
\* never goes below zero (P2PConnectionManager, accept_loop).
THEOREM TypeCorrect == Spec => []TypeOK
  <1>1. LockInv => TypeOK
    BY DEF LockInv, EndpointInv, EndpointTypeOK, PlaceTypeOK, QueueInv, TypeOK, Asked, Waiters, Kinds
  <1> QED
    BY <1>1, InitLockInv, NextLockInv, PTL DEF Spec

\* Everybody who waits for the lock of the endpoint has exactly one request in its
\* queue, and nobody else has one: a granted request leaves it, and so does one whose
\* future is dropped with its accept loop (tokio RwLock as P2PConnectionManager uses it).
THEOREM NobodyWaitsTwice == Spec => []QueueHoldsWaiters
  <1>1. LockInv => QueueHoldsWaiters
    BY DEF LockInv, QueueInv
  <1> QED
    BY <1>1, InitLockInv, NextLockInv, PTL DEF Spec
=============================================================================
