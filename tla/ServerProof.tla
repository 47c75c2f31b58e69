----------------------------- MODULE ServerProof -----------------------------
(***************************************************************************)
(* Proofs about Server, for every size of the table of subscriptions, every *)
(* set of topics and requests, any number of answers, publications and     *)
(* connections, any range of sequence numbers and any history.             *)
(*                                                                         *)
(* A handler of the robot is a chain of functions from context to context, *)
(* and each link of the chain may reset the protocol under the ones before *)
(* it.  What a chain makes of a context is therefore summed up twice: as   *)
(* what it can do without a SYN (Moves: keep the connection or start over, *)
(* send nothing but packets and NAKs, carry subscriptions along or enter   *)
(* new ones), which composes, and as what it makes of a frame (Handled).   *)
(* The loops of the code are gone through by sets of numbers (Reaches),    *)
(* since the provers know no induction.                                    *)
(*                                                                         *)
(* On these rest three invariants: Settled, the types and the agreement of *)
(* server and link; Session, what is on the line and on either side of it  *)
(* when the client connects only while nothing is under way; Asked, the    *)
(* subscriptions.                                                          *)
(***************************************************************************)
EXTENDS Server, SfpProof

-----------------------------------------------------------------------------
(* Repetition.  The loops of the code are functions on an interval         *)
(* that are recursive in their argument.                                   *)

\* What 0 has, and every number inherits from the one before it, n has.
LEMMA Reaches ==
  ASSUME NEW n \in Nat, NEW T, 0 \in T, \A i \in 1 .. n : i - 1 \in T => i \in T
  PROVE  n \in T
  <1> DEFINE M == {i \in 0 .. n : i \notin T}
  <1>1. SUFFICES ASSUME n \notin T PROVE FALSE
    OBVIOUS
  <1>2. M \in SUBSET Nat /\ M # {}
    BY <1>1
  <1>3. PICK m \in M : \A k \in M : m <= k
    BY <1>2, LeastNatural, Zenon
  <1>4. m \in 0 .. n /\ m \notin T
    BY <1>3, Zenon
  <1>5. m \in 1 .. n /\ m - 1 \in 0 .. n /\ m - 1 < m
    BY <1>4
  <1>6. m - 1 \in M
    BY <1>4, <1>5
  <1> HIDE DEF M
  <1> QED BY <1>3, <1>5, <1>6

\* The bodies of a loop of n steps from D into D, and what a loop goes through.
Bodies(n, D) == [1 .. n -> [D -> D]]
Runs(n, D, s, F, g) ==
  g \in [0 .. n -> D] /\ g[0] = s /\ \A i \in 1 .. n : g[i] = F[i][g[i - 1]]

\* A loop whose every step leads from D into D can be gone through to the end.
LEMMA LoopExists ==
  ASSUME NEW n \in Nat, NEW D, NEW s \in D, NEW F \in Bodies(n, D)
  PROVE  \E g : Runs(n, D, s, F, g)
  <1> USE DEF Bodies
  <1> DEFINE Goes(k, g) == g[0] = s /\ \A i \in 1 .. k : g[i] = F[i][g[i - 1]]
             T == {k \in 0 .. n : \E g \in [0 .. n -> D] : Goes(k, g)}
  <1>1. 0 \in T
    <2>1. [i \in 0 .. n |-> s] \in [0 .. n -> D] /\ Goes(0, [i \in 0 .. n |-> s])
      OBVIOUS
    <2> HIDE DEF Goes
    <2> QED BY <2>1
  <1>2. ASSUME NEW i \in 1 .. n, i - 1 \in T
        PROVE  i \in T
    <2>1. PICK g \in [0 .. n -> D] : Goes(i - 1, g)
      BY <1>2
    <2> DEFINE h == [g EXCEPT ![i] = F[i][g[i - 1]]]
    <2>2. i - 1 \in 0 .. n /\ i \in 0 .. n /\ i \in Nat
      OBVIOUS
    <2>3. F[i] \in [D -> D] /\ g[i - 1] \in D
      BY <2>2
    <2>4. h \in [0 .. n -> D]
      BY <2>2, <2>3
    <2>5. \A j \in 0 .. (i - 1) : h[j] = g[j]
      BY <2>2
    <2>6. h[i] = F[i][h[i - 1]]
      BY <2>2, <2>5
    <2> HIDE DEF h
    <2>7. h[0] = s
      BY <2>1, <2>2, <2>5
    <2>8. ASSUME NEW j \in 1 .. i
          PROVE  h[j] = F[j][h[j - 1]]
      <3>1. CASE j = i
        BY <2>6, <3>1
      <3>2. CASE j # i
        <4>1. j \in 1 .. (i - 1) /\ j \in 0 .. (i - 1) /\ j - 1 \in 0 .. (i - 1)
          BY <3>2
        <4> QED BY <2>1, <2>5, <4>1
      <3> QED BY <3>1, <3>2
    <2>9. Goes(i, h)
      BY <2>7, <2>8
    <2> HIDE DEF Goes
    <2> QED BY <2>2, <2>4, <2>9
  <1> HIDE DEF T
  <1>3. n \in T
    BY <1>1, <1>2, Reaches, Zenon
  <1> QED BY <1>3 DEF T, Runs

\* What a loop starts with and every step keeps, it ends with.
LEMMA LoopKeeps ==
  ASSUME NEW n \in Nat, NEW D, NEW g, g[0] \in D, \A i \in 1 .. n : g[i - 1] \in D => g[i] \in D
  PROVE  g[n] \in D
  <1> DEFINE T == {i \in 0 .. n : g[i] \in D}
  <1>1. 0 \in T
    OBVIOUS
  <1>2. \A i \in 1 .. n : i - 1 \in T => i \in T
    OBVIOUS
  <1> HIDE DEF T
  <1>3. n \in T
    BY <1>1, <1>2, Reaches, Zenon
  <1> QED BY <1>3 DEF T

-----------------------------------------------------------------------------
(* The contexts of the robot and what a callback makes of them.            *)

\* A transmit history within its capacity, a table of subscriptions.
Histories == {h \in Seq(Packet) : Len(h) <= HISTORY}
Subscription == {NoSub} \cup {Sub(r, t, n) : r \in ReqIds, t \in Topics, n \in Nat}
Tables == [SubSlot -> Subscription]

Ctx ==
  [connectState : States, rx : Seq6, tx : Seq6, history : Histories,
   stream : Nat, written : Nat, last : Packet,
   state : {"Connected", "Disconnected"}, subs : Tables,
   expired : BOOLEAN, fresh : BOOLEAN, dropped : BOOLEAN, torn : BOOLEAN, moved : BOOLEAN,
   out : Seq(Frame)]

\* Server and link agree.
Agree(s) == s.state = "Connected" <=> s.connectState = "CONNECTED"

\* The robot keeps the connection as it is, but that the server may notice it; ...
Kept(s, t) ==
  /\ t.connectState = s.connectState /\ t.last = s.last /\ t.dropped = s.dropped
  /\ t.state = s.state \/ (t.state = "Connected" /\ s.connectState = "CONNECTED")

\* ... it has started over, by itself if there was a connection.
Reset(s, t) ==
  /\ t.connectState = "DISCONNECTED" /\ t.last = NoPacket /\ t.state = "Disconnected"
  /\ \A i \in SubSlot : ~ t.subs[i].active
  /\ (s.dropped \/ s.connectState = "CONNECTED") => t.dropped

\* What is sent between s and t are packets and NAKs.
Plainly(s, t) ==
  \A f \in Frame : /\ In(s.out, f) => In(t.out, f)
                   /\ In(t.out, f) => (In(s.out, f) \/ f.type # "SYN")

\* Subscriptions of t are those of s or new ones from a stream in from.
Carries(s, t, from) ==
  \A i \in SubSlot : t.subs[i].active => (t.subs[i] = s.subs[i] \/ t.subs[i].from \in from)

\* What the robot may do between two contexts without a SYN.
Moves(s, t, from) == (Kept(s, t) \/ Reset(s, t)) /\ Plainly(s, t) /\ Carries(s, t, from)

\* The fields of a subscription.
LEMMA SubFields ==
  /\ ~ NoSub.active
  /\ \A r, t, n : /\ Sub(r, t, n).active /\ Sub(r, t, n).req_id = r
                  /\ Sub(r, t, n).topic = t /\ Sub(r, t, n).from = n
  BY DEF NoSub, Sub

\* The empty table.
LEMMA EmptyTable ==
  NoSubs \in Tables /\ \A i \in SubSlot : ~ NoSubs[i].active
  BY SubFields DEF NoSubs, Tables, Subscription

\* An active slot holds a subscription.
LEMMA ActiveSub ==
  ASSUME NEW tab \in Tables, NEW i \in SubSlot, tab[i].active
  PROVE  \E r \in ReqIds, t \in Topics, n \in Nat : tab[i] = Sub(r, t, n)
  BY SubFields DEF Tables, Subscription

\* Writing one slot of a table.
LEMMA TableSlot ==
  ASSUME NEW tab \in Tables, NEW k \in SubSlot, NEW x \in Subscription
  PROVE  /\ [tab EXCEPT ![k] = x] \in Tables
         /\ \A i \in SubSlot : [tab EXCEPT ![k] = x][i] = IF i = k THEN x ELSE tab[i]
  BY DEF Tables

\* The empty history.
LEMMA NoHistory ==
  <<>> \in Histories /\ NoPacket \in Packet /\ NoPacket.stream = 0 /\ 0 \in Seq6
  BY Constants DEF Histories, NoPacket, Packet

\* The contexts that the functions of the server build from a context.
LEMMA ClearedFields ==
  ASSUME NEW s \in Ctx
  PROVE  /\ Cleared(s) \in Ctx
         /\ Cleared(s).connectState = s.connectState /\ Cleared(s).last = NoPacket
         /\ Cleared(s).state = s.state /\ Cleared(s).subs = s.subs /\ Cleared(s).out = s.out
         /\ Cleared(s).dropped = s.dropped /\ Cleared(s).expired = s.expired
  <1>1. /\ s.stream + 1 \in Nat /\ 0 \in Nat /\ s.stream \in Nat
    BY DEF Ctx
  <1>2. Cleared(s) \in Ctx
    BY <1>1, NoHistory DEF Ctx, Cleared
  <1>3. /\ Cleared(s).connectState = s.connectState /\ Cleared(s).last = NoPacket
        /\ Cleared(s).state = s.state /\ Cleared(s).subs = s.subs /\ Cleared(s).out = s.out
    BY DEF Ctx, Cleared
  <1>4. Cleared(s).dropped = s.dropped /\ Cleared(s).expired = s.expired
    BY DEF Ctx, Cleared
  <1> QED BY <1>2, <1>3, <1>4

\* serverReset clears the link, the server and the table, and no more.
LEMMA ResetFields ==
  ASSUME NEW s \in Ctx
  PROVE  /\ serverReset(s) \in Ctx
         /\ serverReset(s).connectState = "DISCONNECTED" /\ serverReset(s).last = NoPacket
         /\ serverReset(s).state = "Disconnected" /\ serverReset(s).subs = NoSubs
         /\ serverReset(s).out = s.out /\ serverReset(s).dropped = s.dropped
  <1> DEFINE c == Cleared(s)
  <1>1. /\ c \in Ctx /\ c.last = NoPacket /\ c.out = s.out /\ c.dropped = s.dropped
    BY ClearedFields
  <1>2. serverReset(s) = [c EXCEPT !.connectState = "DISCONNECTED", !.state = "Disconnected", !.subs = NoSubs]
    BY DEF serverReset
  <1> HIDE DEF c
  <1>3. "DISCONNECTED" \in States
    BY DEF States
  <1>4. serverReset(s) \in Ctx
    BY <1>1, <1>2, <1>3, EmptyTable DEF Ctx
  <1>5. /\ serverReset(s).connectState = "DISCONNECTED" /\ serverReset(s).state = "Disconnected"
        /\ serverReset(s).subs = NoSubs
    BY <1>1, <1>2 DEF Ctx
  <1>6. serverReset(s).last = c.last /\ serverReset(s).out = c.out
    BY <1>1, <1>2 DEF Ctx
  <1>7. serverReset(s).dropped = c.dropped
    BY <1>1, <1>2 DEF Ctx
  <1> QED BY <1>1, <1>4, <1>5, <1>6, <1>7

\* serverReset is one way to move.
LEMMA ResetMoves ==
  ASSUME NEW s \in Ctx, NEW d \in BOOLEAN, s.dropped => d, s.connectState = "CONNECTED" => d,
         NEW t, t = [serverReset(s) EXCEPT !.dropped = d]
  PROVE  t \in Ctx /\ Agree(t) /\ Moves(s, t, {})
  <1> DEFINE r == serverReset(s)
  <1>1. /\ r \in Ctx /\ r.connectState = "DISCONNECTED" /\ r.last = NoPacket
        /\ r.state = "Disconnected" /\ r.subs = NoSubs /\ r.out = s.out
    BY ResetFields
  <1>2. t = [r EXCEPT !.dropped = d]
    OBVIOUS
  <1> HIDE DEF r
  <1>3. t \in Ctx
    BY <1>1, <1>2 DEF Ctx
  <1>4. /\ t.connectState = "DISCONNECTED" /\ t.last = NoPacket
        /\ t.state = "Disconnected" /\ t.subs = NoSubs /\ t.out = s.out
    BY <1>1, <1>2 DEF Ctx
  <1>5. t.dropped = d
    BY <1>1, <1>2, Zenon DEF Ctx
  <1>6. Reset(s, t)
    BY <1>4, <1>5, EmptyTable, Zenon DEF Reset
  <1>7. Plainly(s, t) /\ Carries(s, t, {})
    BY <1>4, EmptyTable, Zenon DEF Plainly, Carries
  <1>8. Agree(t)
    BY <1>4 DEF Agree
  <1> QED BY <1>3, <1>6, <1>7, <1>8, Zenon DEF Moves

\* serverCheckConnection keeps the connection or starts over, and leaves the
\* server and the link in agreement, whatever it found.
LEMMA CheckMoves ==
  ASSUME NEW s \in Ctx
  PROVE  LET t == serverCheckConnection(s) IN t \in Ctx /\ Agree(t) /\ Moves(s, t, {})
  <1> DEFINE t == serverCheckConnection(s)
  <1> SUFFICES t \in Ctx /\ Agree(t) /\ Moves(s, t, {})
    OBVIOUS
  <1>0. /\ s.connectState \in States /\ s.state \in {"Connected", "Disconnected"}
        /\ s.expired \in BOOLEAN /\ s.dropped \in BOOLEAN
    BY DEF Ctx
  <1>1. CASE s.state = "Disconnected" /\ s.connectState = "CONNECTED"
    <2>1. t = [s EXCEPT !.state = "Connected", !.subs = NoSubs, !.expired = FALSE, !.fresh = TRUE]
      BY <1>1 DEF serverCheckConnection
    <2> HIDE DEF t
    <2>2. t \in Ctx
      BY <2>1, EmptyTable DEF Ctx
    <2>3. /\ t.connectState = s.connectState /\ t.last = s.last /\ t.state = "Connected"
          /\ t.subs = NoSubs /\ t.out = s.out
      BY <2>1 DEF Ctx
    <2>4. t.dropped = s.dropped
      BY <2>1 DEF Ctx
    <2>5. Kept(s, t) /\ Plainly(s, t) /\ Carries(s, t, {})
      BY <1>1, <2>3, <2>4, EmptyTable, Zenon DEF Kept, Plainly, Carries
    <2>6. Agree(t)
      BY <1>1, <2>3 DEF Agree
    <2> QED BY <2>2, <2>5, <2>6, Zenon DEF Moves, t
  <1>2. ASSUME t = s, Agree(s)
        PROVE  t \in Ctx /\ Agree(t) /\ Moves(s, t, {})
    BY <1>2, Zenon DEF Moves, Kept, Plainly, Carries
  <1>3. CASE s.state = "Disconnected" /\ s.connectState # "CONNECTED"
    <2>1. t = s /\ Agree(s)
      BY <1>3 DEF serverCheckConnection, Agree
    <2> QED BY <1>2, <2>1, Zenon
  <1>4. CASE s.state = "Connected" /\ s.connectState = "CONNECTED" /\ ~ s.expired
    <2>1. t = s /\ Agree(s)
      BY <1>4 DEF serverCheckConnection, Agree
    <2> QED BY <1>2, <2>1, Zenon
  <1>5. CASE s.state = "Connected" /\ (s.connectState # "CONNECTED" \/ s.expired)
    <2> DEFINE d == s.dropped \/ s.expired
    <2>1. t = [serverReset(s) EXCEPT !.dropped = @ \/ s.expired]
      BY <1>5 DEF serverCheckConnection
    <2>2. t = [serverReset(s) EXCEPT !.dropped = d]
      <3>1. serverReset(s).dropped = s.dropped
        BY ResetFields
      <3> QED BY <2>1, <3>1, Zenon
    <2>3. d \in BOOLEAN /\ (s.dropped => d) /\ (s.connectState = "CONNECTED" => d)
      BY <1>5, Zenon
    <2> HIDE DEF d, t
    <2> QED BY <2>2, <2>3, ResetMoves, Zenon DEF t
  <1>6. (s.state = "Connected" \/ s.state = "Disconnected") /\ (s.expired \/ ~ s.expired)
    BY <1>0
  <1> HIDE DEF t
  <1> QED BY <1>1, <1>3, <1>4, <1>5, <1>6, Zenon

\* Moves can be composed.
LEMMA MovesOn ==
  ASSUME NEW s, NEW t, NEW u, NEW from, Moves(s, t, from), Moves(t, u, {})
  PROVE  Moves(s, u, from)
  <1>1. Plainly(s, u)
    BY Zenon DEF Moves, Plainly
  <1>2. Carries(s, u, from)
    BY DEF Moves, Carries
  <1>3. CASE Kept(s, t) /\ Kept(t, u)
    <2>1. Kept(s, u)
      BY <1>3 DEF Kept
    <2> QED BY <1>1, <1>2, <2>1 DEF Moves
  <1>4. CASE Kept(s, t) /\ Reset(t, u)
    <2>1. Reset(s, u)
      BY <1>4, Zenon DEF Kept, Reset
    <2> QED BY <1>1, <1>2, <2>1 DEF Moves
  <1>5. CASE Reset(s, t) /\ Reset(t, u)
    <2>1. Reset(s, u)
      BY <1>5, Zenon DEF Reset
    <2> QED BY <1>1, <1>2, <2>1 DEF Moves
  <1>6. CASE Reset(s, t) /\ Kept(t, u)
    <2>1. \A i \in SubSlot : ~ u.subs[i].active
      BY <1>6, Zenon DEF Moves, Carries, Reset
    <2>2. u.state = "Disconnected" /\ u.connectState = "DISCONNECTED" /\ u.last = NoPacket
      BY <1>6 DEF Reset, Kept
    <2>3. u.dropped = t.dropped
      BY <1>6 DEF Kept
    <2>4. Reset(s, u)
      BY <1>6, <2>1, <2>2, <2>3, Zenon DEF Reset
    <2> QED BY <1>1, <1>2, <2>4 DEF Moves
  <1> QED BY <1>3, <1>4, <1>5, <1>6, Zenon DEF Moves

\* A context moves to one that differs in other fields only.
LEMMA MovesSame ==
  ASSUME NEW s, NEW t, t.connectState = s.connectState, t.last = s.last, t.state = s.state,
         t.subs = s.subs, t.out = s.out, t.dropped = s.dropped
  PROVE  Moves(s, t, {})
  BY Zenon DEF Moves, Kept, Plainly, Carries

-----------------------------------------------------------------------------
(* Transmission.                                                           *)

\* The context in which serverWrite is called back with a frame.
Sent(s, f) == [s EXCEPT !.out = Append(@, f)]

\* It differs in what is sent.
LEMMA SentFields ==
  ASSUME NEW s \in Ctx, NEW f \in Frame
  PROVE  /\ Sent(s, f) \in Ctx
         /\ Sent(s, f).connectState = s.connectState /\ Sent(s, f).last = s.last
         /\ Sent(s, f).state = s.state /\ Sent(s, f).subs = s.subs /\ Sent(s, f).dropped = s.dropped
         /\ \A g \in Frame : In(Sent(s, f).out, g) <=> (In(s.out, g) \/ g = f)
  <1>1. s.out \in Seq(Frame)
    BY DEF Ctx
  <1>2. Append(s.out, f) \in Seq(Frame) /\ Append(s.out, f) = s.out \o <<f>>
    BY <1>1, AppendConcat
  <1>3. \A g \in Frame : In(Append(s.out, f), g) <=> (In(s.out, g) \/ g = f)
    <2>1. \A g \in Frame : In(<<f>>, g) <=> g = f
      BY OneFrame
    <2>2. \A g \in Frame : In(s.out \o <<f>>, g) <=> (In(s.out, g) \/ In(<<f>>, g))
      BY <1>1, ConcatLine, OneFrame
    <2> QED BY <1>2, <2>1, <2>2, Zenon
  <1> DEFINE o == Append(s.out, f)
  <1> HIDE DEF o
  <1>4. Sent(s, f) = [s EXCEPT !.out = o]
    BY DEF Sent, o
  <1>5. o \in Seq(Frame)
    BY <1>2 DEF o
  <1>6. Sent(s, f) \in Ctx
    BY <1>4, <1>5 DEF Ctx
  <1>7. /\ Sent(s, f).connectState = s.connectState /\ Sent(s, f).last = s.last
        /\ Sent(s, f).state = s.state /\ Sent(s, f).subs = s.subs /\ Sent(s, f).out = o
        /\ Sent(s, f).dropped = s.dropped
    BY <1>4 DEF Ctx
  <1> QED BY <1>3, <1>6, <1>7, Zenon DEF o

\* A frame is sent, and the server looks at the connection.
LEMMA TransmitMoves ==
  ASSUME NEW s \in Ctx, NEW f \in Frame
  PROVE  /\ Transmit(s, f) \in Ctx /\ Agree(Transmit(s, f))
         /\ Moves(Sent(s, f), Transmit(s, f), {})
         /\ f.type # "SYN" => Moves(s, Transmit(s, f), {})
  <1>1. Transmit(s, f) = serverCheckConnection(Sent(s, f))
    BY DEF Transmit, Sent
  <1>2. Sent(s, f) \in Ctx
    BY SentFields
  <1> DEFINE t == serverCheckConnection(Sent(s, f))
  <1>3. t \in Ctx /\ Agree(t) /\ Moves(Sent(s, f), t, {})
    BY <1>2, CheckMoves, Zenon
  <1>4. ASSUME f.type # "SYN"
        PROVE  Moves(s, Sent(s, f), {})
    BY <1>4, SentFields, Zenon DEF Moves, Kept, Plainly, Carries
  <1> HIDE DEF t
  <1>5. f.type # "SYN" => Moves(s, t, {})
    BY <1>3, <1>4, MovesOn, Zenon
  <1> QED BY <1>1, <1>3, <1>5, Zenon DEF t

\* A packet is sent.
LEMMA TransmitPacketMoves ==
  ASSUME NEW s \in Ctx, NEW type \in {"USR", "RTX"}, NEW packet \in Packet
  PROVE  LET t == TransmitPacket(s, type, packet) IN t \in Ctx /\ Agree(t) /\ Moves(s, t, {})
  <1> DEFINE f == [type |-> type, seq |-> s.tx, packet |-> packet]
             u == Transmit(s, f)
             t == TransmitPacket(s, type, packet)
  <1>1. f \in Frame /\ f.type # "SYN"
    BY DEF Ctx, Frame
  <1> HIDE DEF f
  <1>2. u \in Ctx /\ Agree(u) /\ Moves(s, u, {})
    BY <1>1, TransmitMoves, Zenon
  <1>3. t = [u EXCEPT !.tx = Plus(@, 1)]
    BY DEF TransmitPacket, f
  <1> HIDE DEF u, t
  <1>4. Plus(u.tx, 1) \in Seq6
    <2>1. u.tx \in Int /\ 1 \in Int
      BY <1>2, Constants DEF Ctx
    <2> QED BY <2>1, PlusType
  <1>5. t = [u EXCEPT !.tx = Plus(u.tx, 1)]
    BY <1>2, <1>3 DEF Ctx
  <1> DEFINE n == Plus(u.tx, 1)
  <1> HIDE DEF n
  <1>6. t \in Ctx
    BY <1>2, <1>4, <1>5 DEF Ctx, n
  <1>7. /\ t.connectState = u.connectState /\ t.last = u.last /\ t.state = u.state
        /\ t.subs = u.subs /\ t.out = u.out /\ t.dropped = u.dropped
    BY <1>2, <1>5 DEF Ctx, n
  <1>8. Moves(u, t, {})
    BY <1>7, MovesSame, Zenon
  <1>9. Agree(t)
    BY <1>2, <1>7 DEF Agree
  <1> QED BY <1>2, <1>6, <1>8, <1>9, MovesOn, Zenon DEF t

\* A set of naturals with a bound has a greatest element, and a set that is not
\* empty a least.
LEMMA GreatestLeast ==
  ASSUME NEW m \in Nat, NEW T \in SUBSET (0 .. m), T # {}
  PROVE  Max(T) \in T /\ Min(T) \in T
  <1>1. T \in SUBSET Nat
    OBVIOUS
  <1>2. PICK x \in T : \A y \in T : x <= y
    BY <1>1, LeastNatural, Zenon
  <1>3. Min(T) \in T
    BY <1>2, Zenon DEF Min
  <1> DEFINE R == {k \in 0 .. m : m - k \in T}
  <1>4. R \in SUBSET Nat /\ R # {}
    <2>1. m - x \in 0 .. m /\ m - (m - x) = x
      OBVIOUS
    <2> QED BY <2>1
  <1>5. PICK k \in R : \A j \in R : k <= j
    BY <1>4, LeastNatural, Zenon
  <1>6. k \in 0 .. m /\ m - k \in T
    BY <1>5
  <1>7. ASSUME NEW y \in T
        PROVE  m - k >= y
    <2>1. y \in 0 .. m /\ m - y \in 0 .. m /\ m - (m - y) = y
      OBVIOUS
    <2>2. m - y \in R
      BY <2>1
    <2>3. k <= m - y
      BY <1>5, <2>2
    <2> QED BY <1>6, <2>1, <2>3
  <1>8. Max(T) \in T
    BY <1>6, <1>7, Zenon DEF Max
  <1> QED BY <1>3, <1>8

\* What is read from a ring that was emptied is a packet or the empty one.
LEMMA StoredType ==
  ASSUME NEW s \in Ctx, NEW i
  PROVE  Stored(s, i) \in Packet
  <1> DEFINE nums == {n \in 1 .. s.written : (n - 1) % HISTORY = i - 1}
  <1>1. s.written \in Nat /\ s.stream \in Nat
    BY DEF Ctx
  <1>2. nums \in SUBSET (0 .. s.written)
    BY <1>1
  <1>3. Stored(s, i) = IF nums = {} THEN NoPacket ELSE [stream |-> s.stream, num |-> Max(nums)]
    BY DEF Stored
  <1> HIDE DEF nums
  <1>4. CASE nums = {}
    BY <1>3, <1>4, NoHistory
  <1>5. CASE nums # {}
    <2>1. Max(nums) \in nums
      BY <1>1, <1>2, <1>5, GreatestLeast
    <2>2. Max(nums) \in Nat
      <3>1. nums \subseteq Nat
        BY <1>1, <1>2
      <3> QED BY <2>1, <3>1, Zenon
    <2> QED BY <1>1, <1>3, <1>5, <2>2 DEF Packet
  <1> QED BY <1>4, <1>5

\* One packet of a retransmission is sent.
LEMMA ResendMoves ==
  ASSUME NEW s \in Ctx, NEW t \in Ctx, NEW i \in Nat \ {0}
  PROVE  LET u == Resend(s, t, i) IN u \in Ctx /\ Agree(u) /\ Moves(t, u, {})
  <1> DEFINE p == IF i <= Len(t.history) THEN t.history[i] ELSE Stored(s, i)
  <1>1. t.history \in Seq(Packet)
    BY DEF Ctx, Histories
  <1>2. p \in Packet
    BY <1>1, StoredType
  <1>3. Resend(s, t, i) = TransmitPacket(t, "RTX", p)
    BY DEF Resend
  <1> HIDE DEF p
  <1>4. "RTX" \in {"USR", "RTX"}
    OBVIOUS
  <1>5. LET u == TransmitPacket(t, "RTX", p) IN u \in Ctx /\ Agree(u) /\ Moves(t, u, {})
    BY <1>2, <1>4, TransmitPacketMoves, Zenon
  <1> QED BY <1>3, <1>5, Zenon

\* A retransmission.
LEMMA HistoryMoves ==
  ASSUME NEW s \in Ctx, NEW to \in Seq6
  PROVE  LET t == TransmitHistoryFromSeq(s, to) IN t \in Ctx /\ Moves(s, t, {})
  <1> DEFINE h == Rewound(s.history, s.tx, to)
             u == [s EXCEPT !.history = h, !.tx = to]
             n == Len(h)
             sent == CHOOSE g : g = [i \in 0 .. n |-> IF i = 0 THEN u ELSE Resend(s, g[i - 1], i)]
  <1>1. TransmitHistoryFromSeq(s, to) = sent[n]
    BY DEF TransmitHistoryFromSeq
  <1>2. h \in Histories /\ n \in Nat
    <2>1. s.history \in Seq(Packet) /\ s.tx \in Seq6 /\ Len(s.history) <= HISTORY
      BY DEF Ctx, Histories
    <2>2. h \in Seq(Packet) /\ Len(h) <= Len(s.history)
      BY <2>1, RewoundType
    <2> HIDE DEF h
    <2>3. Len(h) \in Nat /\ Len(s.history) \in Nat /\ HISTORY \in Nat
      BY <2>1, <2>2, Constants
    <2>4. Len(h) <= HISTORY
      BY <2>1, <2>2, <2>3
    <2> QED BY <2>2, <2>3, <2>4 DEF Histories
  <1> HIDE DEF h
  <1>3. u \in Ctx
    BY <1>2 DEF Ctx
  <1>4. Moves(s, u, {})
    <2>1. /\ u.connectState = s.connectState /\ u.last = s.last /\ u.state = s.state
          /\ u.subs = s.subs /\ u.out = s.out /\ u.dropped = s.dropped
      BY DEF Ctx
    <2> HIDE DEF u
    <2> QED BY <2>1, MovesSame, Zenon
  <1> HIDE DEF u, n
  <1> DEFINE D == {t \in Ctx : Moves(s, t, {})}
  <1>5. u \in D
    BY <1>3, <1>4
  <1>6. ASSUME NEW t \in D, NEW i \in 1 .. n
        PROVE  Resend(s, t, i) \in D
    <2>1. i \in Nat \ {0}
      BY <1>2
    <2>2. t \in Ctx /\ Moves(s, t, {})
      OBVIOUS
    <2>3. Resend(s, t, i) \in Ctx /\ Moves(t, Resend(s, t, i), {})
      BY <2>1, <2>2, ResendMoves, Zenon
    <2> QED BY <2>2, <2>3, MovesOn, Zenon
  <1> DEFINE F == [i \in 1 .. n |-> [t \in D |-> Resend(s, t, i)]]
  <1> HIDE DEF D
  <1>7. F \in Bodies(n, D)
    BY <1>6 DEF Bodies
  <1>8. \A i \in 1 .. n : \A t \in D : F[i][t] = Resend(s, t, i)
    OBVIOUS
  <1> HIDE DEF F
  <1>9. PICK g : Runs(n, D, u, F, g)
    BY <1>2, <1>5, <1>7, LoopExists, Zenon
  <1>10. g = [i \in 0 .. n |-> IF i = 0 THEN u ELSE Resend(s, g[i - 1], i)]
    <2>1. ASSUME NEW i \in 0 .. n
          PROVE  g[i] = IF i = 0 THEN u ELSE Resend(s, g[i - 1], i)
      <3>1. CASE i = 0
        BY <1>9, <3>1 DEF Runs
      <3>2. CASE i # 0
        <4>1. i \in 1 .. n /\ i - 1 \in 0 .. n
          BY <1>2, <3>2
        <4>2. g[i] = F[i][g[i - 1]] /\ g[i - 1] \in D
          BY <1>9, <4>1 DEF Runs
        <4>3. g[i] = Resend(s, g[i - 1], i)
          BY <1>8, <4>1, <4>2, Zenon
        <4> QED BY <3>2, <4>3
      <3> QED BY <3>1, <3>2
    <2> QED BY <1>9, <2>1 DEF Runs
  <1>11. sent = [i \in 0 .. n |-> IF i = 0 THEN u ELSE Resend(s, sent[i - 1], i)]
    BY <1>10, Zenon
  <1> HIDE DEF sent
  <1>12. sent[0] \in D
    <2>1. 0 \in 0 .. n
      BY <1>2
    <2>2. sent[0] = u
      BY <1>11, <2>1
    <2> QED BY <1>5, <2>2
  <1>13. ASSUME NEW i \in 1 .. n, sent[i - 1] \in D
         PROVE  sent[i] \in D
    <2>1. i \in 0 .. n /\ i # 0
      BY <1>2
    <2>2. sent[i] = Resend(s, sent[i - 1], i)
      BY <1>11, <2>1
    <2> QED BY <1>6, <1>13, <2>2
  <1>14. sent[n] \in D
    BY <1>2, <1>12, <1>13, LoopKeeps, Zenon
  <1> QED BY <1>1, <1>14 DEF D

\* rpcSend.
LEMMA RpcSendMoves ==
  ASSUME NEW s \in Ctx
  PROVE  LET t == rpcSend(s) IN t \in Ctx /\ Agree(t) /\ Moves(s, t, {})
  <1> DEFINE p == [stream |-> s.stream, num |-> s.written + 1]
             u == [s EXCEPT !.history = PushBack(@, p), !.written = @ + 1]
  <1>1. p \in Packet /\ s.history \in Seq(Packet) /\ Len(s.history) <= HISTORY /\ s.written + 1 \in Nat
    BY DEF Ctx, Histories, Packet
  <1> DEFINE h == PushBack(s.history, p)
  <1>2. rpcSend(s) = TransmitPacket(u, "USR", p)
    BY DEF rpcSend
  <1> HIDE DEF p
  <1>3. h \in Histories
    BY <1>1, PushBackResult DEF Histories
  <1>4. u = [s EXCEPT !.history = h, !.written = s.written + 1]
    BY DEF Ctx
  <1> DEFINE w == s.written + 1
  <1> HIDE DEF h, w, u
  <1>5. u \in Ctx
    BY <1>1, <1>3, <1>4 DEF Ctx, w
  <1>6. /\ u.connectState = s.connectState /\ u.last = s.last /\ u.state = s.state
        /\ u.subs = s.subs /\ u.out = s.out /\ u.dropped = s.dropped
    BY <1>4 DEF Ctx
  <1>7. Moves(s, u, {})
    BY <1>6, MovesSame, Zenon
  <1>8. "USR" \in {"USR", "RTX"}
    OBVIOUS
  <1>9. LET t == TransmitPacket(u, "USR", p) IN t \in Ctx /\ Agree(t) /\ Moves(u, t, {})
    BY <1>1, <1>5, <1>8, TransmitPacketMoves, Zenon
  <1> QED BY <1>2, <1>7, <1>9, MovesOn, Zenon

-----------------------------------------------------------------------------
(* The messages of the client and the publications.                        *)

\* What a message holds.
LEMMA MessageFields ==
  ASSUME NEW m \in Message
  PROVE  /\ m.op \in {"unknown", "request", "subscribe", "unsubscribe"}
         /\ m.op = "request" => m.answers \in Nat
         /\ m.op = "subscribe" => (m.req_id \in ReqIds /\ m.topic \in Topics)
  BY ServerAssumption DEF Message

\* The answers to a request.
LEMMA ReplyMoves ==
  ASSUME NEW s \in Ctx, NEW m, m.answers \in Nat
  PROVE  LET t == rpcReply(s, m) IN t \in Ctx /\ Moves(s, t, {})
  <1> DEFINE n == m.answers
             replied == CHOOSE g : g = [i \in 0 .. n |-> IF i = 0 THEN s ELSE rpcSend(g[i - 1])]
             D == {t \in Ctx : Moves(s, t, {})}
  <1>1. rpcReply(s, m) = replied[n]
    BY DEF rpcReply
  <1>2. n \in Nat
    OBVIOUS
  <1> HIDE DEF n
  <1>3. s \in D
    BY MovesSame, Zenon
  <1>4. ASSUME NEW t \in D
        PROVE  rpcSend(t) \in D
    <2>1. t \in Ctx /\ Moves(s, t, {})
      OBVIOUS
    <2>2. rpcSend(t) \in Ctx /\ Moves(t, rpcSend(t), {})
      BY <2>1, RpcSendMoves, Zenon
    <2> QED BY <2>1, <2>2, MovesOn, Zenon
  <1> DEFINE F == [i \in 1 .. n |-> [t \in D |-> rpcSend(t)]]
  <1> HIDE DEF D
  <1>5. F \in Bodies(n, D)
    BY <1>4 DEF Bodies
  <1>6. \A i \in 1 .. n : \A t \in D : F[i][t] = rpcSend(t)
    OBVIOUS
  <1> HIDE DEF F
  <1>7. PICK g : Runs(n, D, s, F, g)
    BY <1>2, <1>3, <1>5, LoopExists, Zenon
  <1>8. g = [i \in 0 .. n |-> IF i = 0 THEN s ELSE rpcSend(g[i - 1])]
    <2>1. ASSUME NEW i \in 0 .. n
          PROVE  g[i] = IF i = 0 THEN s ELSE rpcSend(g[i - 1])
      <3>1. CASE i = 0
        BY <1>7, <3>1 DEF Runs
      <3>2. CASE i # 0
        <4>1. i \in 1 .. n /\ i - 1 \in 0 .. n
          BY <1>2, <3>2
        <4>2. g[i] = F[i][g[i - 1]] /\ g[i - 1] \in D
          BY <1>7, <4>1 DEF Runs
        <4>3. g[i] = rpcSend(g[i - 1])
          BY <1>6, <4>1, <4>2, Zenon
        <4> QED BY <3>2, <4>3
      <3> QED BY <3>1, <3>2
    <2> QED BY <1>7, <2>1 DEF Runs
  <1>9. replied = [i \in 0 .. n |-> IF i = 0 THEN s ELSE rpcSend(replied[i - 1])]
    BY <1>8, Zenon
  <1> HIDE DEF replied
  <1>10. replied[0] \in D
    <2>1. 0 \in 0 .. n
      BY <1>2
    <2>2. replied[0] = s
      BY <1>9, <2>1
    <2> QED BY <1>3, <2>2
  <1>11. ASSUME NEW i \in 1 .. n, replied[i - 1] \in D
         PROVE  replied[i] \in D
    <2>1. i \in 0 .. n /\ i # 0
      BY <1>2
    <2>2. replied[i] = rpcSend(replied[i - 1])
      BY <1>9, <2>1
    <2> QED BY <1>4, <1>11, <2>2
  <1>12. replied[n] \in D
    BY <1>2, <1>10, <1>11, LoopKeeps, Zenon
  <1> QED BY <1>1, <1>12 DEF D

\* Writing one slot of the table of a context.
LEMMA SlotFields ==
  ASSUME NEW s \in Ctx, NEW k \in SubSlot, NEW x \in Subscription
  PROVE  LET t == [s EXCEPT !.subs[k] = x] IN
         /\ t \in Ctx
         /\ t.connectState = s.connectState /\ t.last = s.last /\ t.state = s.state
         /\ t.out = s.out /\ t.dropped = s.dropped
         /\ \A i \in SubSlot : t.subs[i] = IF i = k THEN x ELSE s.subs[i]
  <1> DEFINE tab == [s.subs EXCEPT ![k] = x]
             t == [s EXCEPT !.subs[k] = x]
  <1>1. tab \in Tables /\ \A i \in SubSlot : tab[i] = IF i = k THEN x ELSE s.subs[i]
    BY TableSlot DEF Ctx
  <1>2. t = [s EXCEPT !.subs = tab]
    BY DEF Ctx
  <1> HIDE DEF tab, t
  <1>3. t \in Ctx
    BY <1>1, <1>2 DEF Ctx
  <1>4. /\ t.connectState = s.connectState /\ t.last = s.last /\ t.state = s.state
        /\ t.out = s.out /\ t.dropped = s.dropped /\ t.subs = tab
    BY <1>2 DEF Ctx
  <1> QED BY <1>1, <1>3, <1>4, Zenon DEF t

\* The end of a subscription.
LEMMA EndMoves ==
  ASSUME NEW s \in Ctx, NEW k \in SubSlot
  PROVE  LET t == [s EXCEPT !.subs[k] = NoSub] IN
         t \in Ctx /\ (Agree(s) => Agree(t)) /\ Moves(s, t, {})
  <1> DEFINE t == [s EXCEPT !.subs[k] = NoSub]
  <1>1. NoSub \in Subscription
    BY DEF Subscription
  <1>2. /\ t \in Ctx
        /\ t.connectState = s.connectState /\ t.last = s.last /\ t.state = s.state
        /\ t.out = s.out /\ t.dropped = s.dropped
        /\ \A i \in SubSlot : t.subs[i] = IF i = k THEN NoSub ELSE s.subs[i]
    BY <1>1, SlotFields, Zenon
  <1> HIDE DEF t
  <1>3. Kept(s, t) /\ Plainly(s, t) /\ (Agree(s) => Agree(t))
    BY <1>2, Zenon DEF Kept, Plainly, Agree
  <1>4. Carries(s, t, {})
    BY <1>2, SubFields DEF Carries
  <1> QED BY <1>2, <1>3, <1>4, Zenon DEF Moves, t

\* The slots that are looked up in the table are slots.
LEMMA SlotsFound ==
  ASSUME NEW s \in Ctx, NEW r
  PROVE  /\ Free(s) # {} => Min(Free(s)) \in SubSlot
         /\ Found(s, r) # {} => Min(Found(s, r)) \in SubSlot
  <1>1. SUB_MAX \in Nat
    BY ServerAssumption
  <1>2. ASSUME NEW T \in SUBSET SubSlot, T # {}
        PROVE  Min(T) \in SubSlot
    <2>1. T \in SUBSET (0 .. SUB_MAX)
      BY <1>1 DEF SubSlot
    <2>2. Min(T) \in T
      BY <1>1, <1>2, <2>1, GreatestLeast
    <2> QED BY <2>2
  <1>3. Free(s) \in SUBSET SubSlot /\ Found(s, r) \in SUBSET SubSlot
    BY DEF Free, Found
  <1> QED BY <1>2, <1>3, Zenon

\* More subscriptions may be new.
LEMMA MovesMore ==
  ASSUME NEW s, NEW t, NEW from, Moves(s, t, {})
  PROVE  Moves(s, t, from)
  BY DEF Moves, Carries

\* rpcRecvSubscribe.
LEMMA SubscribeMoves ==
  ASSUME NEW s \in Ctx, NEW m, m.req_id \in ReqIds, m.topic \in Topics
  PROVE  LET t == rpcRecvSubscribe(s, m) IN t \in Ctx /\ Moves(s, t, {s.last.stream})
  <1> DEFINE t == rpcRecvSubscribe(s, m)
             k == Min(Free(s))
             x == Sub(m.req_id, m.topic, s.last.stream)
  <1>1. CASE Free(s) = {}
    <2>1. t = rpcSend(s)
      BY <1>1 DEF rpcRecvSubscribe
    <2> HIDE DEF t
    <2>2. t \in Ctx /\ Moves(s, t, {})
      BY <2>1, RpcSendMoves, Zenon
    <2> QED BY <2>2, MovesMore, Zenon DEF t
  <1>2. CASE Free(s) # {}
    <2>1. t = [s EXCEPT !.subs[k] = x]
      BY <1>2 DEF rpcRecvSubscribe
    <2>2. k \in SubSlot
      BY <1>2, SlotsFound
    <2>3. s.last.stream \in Nat
      BY DEF Ctx, Packet
    <2>4. x \in Subscription /\ x.from = s.last.stream
      BY <2>3, SubFields DEF Subscription
    <2> HIDE DEF k, x, t
    <2>5. /\ t \in Ctx
          /\ t.connectState = s.connectState /\ t.last = s.last /\ t.state = s.state
          /\ t.out = s.out /\ t.dropped = s.dropped
          /\ \A i \in SubSlot : t.subs[i] = IF i = k THEN x ELSE s.subs[i]
      BY <2>1, <2>2, <2>4, SlotFields, Zenon
    <2>6. Kept(s, t) /\ Plainly(s, t)
      BY <2>5, Zenon DEF Kept, Plainly
    <2>7. Carries(s, t, {s.last.stream})
      BY <2>4, <2>5 DEF Carries
    <2> QED BY <2>5, <2>6, <2>7, Zenon DEF Moves, t
  <1> QED BY <1>1, <1>2, Zenon

\* rpcRecvUnsubscribe.
LEMMA UnsubscribeMoves ==
  ASSUME NEW s \in Ctx, NEW m
  PROVE  LET t == rpcRecvUnsubscribe(s, m) IN t \in Ctx /\ Moves(s, t, {})
  <1> DEFINE t == rpcRecvUnsubscribe(s, m)
             u == rpcSend(s)
             k == Min(Found(s, m.req_id))
  <1>1. u \in Ctx /\ Moves(s, u, {})
    BY RpcSendMoves, Zenon
  <1>2. CASE Found(s, m.req_id) = {}
    <2>1. t = rpcSend(u)
      BY <1>2 DEF rpcRecvUnsubscribe
    <2> HIDE DEF t, u
    <2>2. t \in Ctx /\ Moves(u, t, {})
      BY <1>1, <2>1, RpcSendMoves, Zenon
    <2> QED BY <1>1, <2>2, MovesOn, Zenon DEF t
  <1>3. CASE Found(s, m.req_id) # {}
    <2>1. t = [u EXCEPT !.subs[k] = NoSub]
      BY <1>3 DEF rpcRecvUnsubscribe
    <2>2. k \in SubSlot
      BY <1>3, SlotsFound
    <2> HIDE DEF t, u, k
    <2>3. t \in Ctx /\ Moves(u, t, {})
      BY <1>1, <2>1, <2>2, EndMoves, Zenon
    <2> QED BY <1>1, <2>3, MovesOn, Zenon DEF t
  <1> QED BY <1>2, <1>3, Zenon

\* rpcRecv, for every message: what it enters in the table is from the stream
\* of the packet that is being delivered.
LEMMA RecvMoves ==
  ASSUME NEW s \in Ctx, NEW m \in Message
  PROVE  LET t == rpcRecv(s, m) IN t \in Ctx /\ Moves(s, t, {s.last.stream})
  <1> DEFINE from == {s.last.stream}
  <1>1. /\ m.op \in {"unknown", "request", "subscribe", "unsubscribe"}
        /\ m.op = "request" => m.answers \in Nat
        /\ m.op = "subscribe" => (m.req_id \in ReqIds /\ m.topic \in Topics)
    BY MessageFields
  <1> HIDE DEF from
  <1>2. ASSUME NEW t \in Ctx, Moves(s, t, from),
               rpcRecv(s, m) = [t EXCEPT !.expired = FALSE, !.fresh = TRUE]
        PROVE  rpcRecv(s, m) \in Ctx /\ Moves(s, rpcRecv(s, m), from)
    <2> DEFINE u == [t EXCEPT !.expired = FALSE, !.fresh = TRUE]
    <2>1. u \in Ctx
      BY DEF Ctx
    <2>2. /\ u.connectState = t.connectState /\ u.last = t.last /\ u.state = t.state
          /\ u.subs = t.subs /\ u.out = t.out /\ u.dropped = t.dropped
      BY DEF Ctx
    <2>3. rpcRecv(s, m) = u
      BY <1>2
    <2> HIDE DEF u
    <2>4. Moves(t, u, {})
      BY <2>2, MovesSame, Zenon
    <2> QED BY <1>2, <2>1, <2>3, <2>4, MovesOn, Zenon
  <1>3. CASE m.op = "request"
    <2> DEFINE t == rpcReply(s, m)
    <2>1. rpcRecv(s, m) = [t EXCEPT !.expired = FALSE, !.fresh = TRUE]
      BY <1>3 DEF rpcRecv
    <2> HIDE DEF t
    <2>2. t \in Ctx /\ Moves(s, t, {})
      BY <1>1, <1>3, ReplyMoves, Zenon DEF t
    <2> QED BY <1>2, <2>1, <2>2, MovesMore, Zenon DEF from
  <1>4. CASE m.op = "subscribe"
    <2> DEFINE t == rpcRecvSubscribe(s, m)
    <2>1. rpcRecv(s, m) = [t EXCEPT !.expired = FALSE, !.fresh = TRUE]
      BY <1>4 DEF rpcRecv
    <2> HIDE DEF t
    <2>2. t \in Ctx /\ Moves(s, t, from)
      BY <1>1, <1>4, SubscribeMoves, Zenon DEF t, from
    <2> QED BY <1>2, <2>1, <2>2, Zenon DEF from
  <1>5. CASE m.op = "unsubscribe"
    <2> DEFINE t == rpcRecvUnsubscribe(s, m)
    <2>1. rpcRecv(s, m) = [t EXCEPT !.expired = FALSE, !.fresh = TRUE]
      BY <1>5 DEF rpcRecv
    <2> HIDE DEF t
    <2>2. t \in Ctx /\ Moves(s, t, {})
      BY UnsubscribeMoves, Zenon DEF t
    <2> QED BY <1>2, <2>1, <2>2, MovesMore, Zenon DEF from
  <1>6. CASE m.op = "unknown"
    <2>1. rpcRecv(s, m) = s
      BY <1>6 DEF rpcRecv
    <2>2. Moves(s, s, {})
      BY MovesSame, Zenon
    <2> QED BY <2>1, <2>2, MovesMore, Zenon DEF from
  <1> QED BY <1>1, <1>3, <1>4, <1>5, <1>6

\* serverRead.
LEMMA ReadMoves ==
  ASSUME NEW s \in Ctx, NEW m \in Message
  PROVE  LET t == serverRead(s, m) IN t \in Ctx /\ Agree(t) /\ Moves(s, t, {s.last.stream})
  <1> DEFINE u == rpcRecv(s, m)
             t == serverRead(s, m)
  <1>1. u \in Ctx /\ Moves(s, u, {s.last.stream})
    BY RecvMoves, Zenon
  <1>2. t = serverCheckConnection(u)
    BY DEF serverRead
  <1> HIDE DEF u, t
  <1>3. t \in Ctx /\ Agree(t) /\ Moves(u, t, {})
    BY <1>1, <1>2, CheckMoves, Zenon
  <1> QED BY <1>1, <1>3, MovesOn, Zenon DEF t

\* rpcPublishMotor.
LEMMA MotorMoves ==
  ASSUME NEW s \in Ctx, Agree(s)
  PROVE  LET t == rpcPublishMotor(s) IN t \in Ctx /\ Agree(t) /\ Moves(s, t, {})
  <1> DEFINE u == [s EXCEPT !.moved = FALSE]
  <1>1. CASE s.moved
    <2>1. rpcPublishMotor(s) = rpcSend(u)
      BY <1>1 DEF rpcPublishMotor
    <2>2. u \in Ctx
      BY DEF Ctx
    <2>3. /\ u.connectState = s.connectState /\ u.last = s.last /\ u.state = s.state
          /\ u.subs = s.subs /\ u.out = s.out /\ u.dropped = s.dropped
      BY DEF Ctx
    <2> HIDE DEF u
    <2>4. Moves(s, u, {})
      BY <2>3, MovesSame, Zenon
    <2>5. LET t == rpcSend(u) IN t \in Ctx /\ Agree(t) /\ Moves(u, t, {})
      BY <2>2, RpcSendMoves, Zenon
    <2> QED BY <2>1, <2>4, <2>5, MovesOn, Zenon
  <1>2. CASE ~ s.moved
    <2>1. rpcPublishMotor(s) = s
      BY <1>2 DEF rpcPublishMotor
    <2> QED BY <2>1, MovesSame, Zenon
  <1> QED BY <1>1, <1>2, Zenon

\* rpcPublish.
LEMMA PublishMoves ==
  ASSUME NEW s \in Ctx, Agree(s), NEW k \in SubSlot
  PROVE  LET t == rpcPublish(s, k) IN t \in Ctx /\ Agree(t) /\ Moves(s, t, {})
  <1> DEFINE t == rpcPublish(s, k)
             u == rpcSend(s)
  <1> SUFFICES t \in Ctx /\ Agree(t) /\ Moves(s, t, {})
    OBVIOUS
  <1>1. u \in Ctx /\ Agree(u) /\ Moves(s, u, {})
    BY RpcSendMoves, Zenon
  <1>2. CASE ~ s.subs[k].active
    <2>1. t = s
      BY <1>2 DEF rpcPublish
    <2> HIDE DEF t
    <2> QED BY <2>1, MovesSame, Zenon
  <1>3. CASE s.subs[k].active
    <2>1. s.subs[k].topic \in {"clock", "motor", "all", "bad"}
      <3>1. PICK r \in ReqIds, x \in Topics, n \in Nat : s.subs[k] = Sub(r, x, n)
        BY <1>3, ActiveSub DEF Ctx
      <3> QED BY <3>1, SubFields, ServerAssumption
    <2>2. CASE s.subs[k].topic = "clock"
      <3>1. t = u
        BY <1>3, <2>2 DEF rpcPublish
      <3> HIDE DEF t, u
      <3> QED BY <1>1, <3>1
    <2>3. CASE s.subs[k].topic = "motor"
      <3>1. t = rpcPublishMotor(s)
        BY <1>3, <2>3 DEF rpcPublish
      <3> HIDE DEF t
      <3> QED BY <3>1, MotorMoves, Zenon
    <2>4. CASE s.subs[k].topic = "all"
      <3>1. t = rpcPublishMotor(u)
        BY <1>3, <2>4 DEF rpcPublish
      <3> HIDE DEF t, u
      <3>2. t \in Ctx /\ Agree(t) /\ Moves(u, t, {})
        BY <1>1, <3>1, MotorMoves, Zenon
      <3> QED BY <1>1, <3>2, MovesOn, Zenon
    <2>5. CASE s.subs[k].topic = "bad"
      <3>1. t = [u EXCEPT !.subs[k] = NoSub]
        BY <1>3, <2>5 DEF rpcPublish
      <3> HIDE DEF t, u
      <3>2. t \in Ctx /\ Agree(t) /\ Moves(u, t, {})
        BY <1>1, <3>1, EndMoves, Zenon
      <3> QED BY <1>1, <3>2, MovesOn, Zenon
    <2> QED BY <2>1, <2>2, <2>3, <2>4, <2>5
  <1> QED BY <1>2, <1>3, Zenon

\* rpcLoop: the slots are gone through in order, and a subscription that ends,
\* or a connection that is given up, on the way is not published any more.
LEMMA LoopMoves ==
  ASSUME NEW s \in Ctx, Agree(s), NEW publish \in BOOLEAN, NEW info \in BOOLEAN
  PROVE  LET t == rpcLoop(s, publish, info) IN t \in Ctx /\ Agree(t) /\ Moves(s, t, {})
  <1> DEFINE n == SUB_MAX
             published == CHOOSE g : g = [i \in 0 .. n |-> IF i = 0 THEN s ELSE rpcPublish(g[i - 1], i)]
             u == IF publish THEN published[n] ELSE s
             D == {t \in Ctx : Agree(t) /\ Moves(s, t, {})}
  <1>1. rpcLoop(s, publish, info) = IF info THEN rpcSend(u) ELSE u
    BY DEF rpcLoop
  <1>2. n \in Nat /\ SubSlot = 1 .. n
    BY ServerAssumption DEF SubSlot
  <1> HIDE DEF n
  <1>3. s \in D
    BY MovesSame, Zenon
  <1>4. ASSUME NEW t \in D, NEW i \in 1 .. n
        PROVE  rpcPublish(t, i) \in D
    <2>1. t \in Ctx /\ Agree(t) /\ Moves(s, t, {}) /\ i \in SubSlot
      BY <1>2
    <2>2. rpcPublish(t, i) \in Ctx /\ Agree(rpcPublish(t, i)) /\ Moves(t, rpcPublish(t, i), {})
      BY <2>1, PublishMoves, Zenon
    <2> QED BY <2>1, <2>2, MovesOn, Zenon
  <1> DEFINE F == [i \in 1 .. n |-> [t \in D |-> rpcPublish(t, i)]]
  <1> HIDE DEF D
  <1>5. F \in Bodies(n, D)
    BY <1>4 DEF Bodies
  <1>6. \A i \in 1 .. n : \A t \in D : F[i][t] = rpcPublish(t, i)
    OBVIOUS
  <1> HIDE DEF F
  <1>7. PICK g : Runs(n, D, s, F, g)
    BY <1>2, <1>3, <1>5, LoopExists, Zenon
  <1>8. g = [i \in 0 .. n |-> IF i = 0 THEN s ELSE rpcPublish(g[i - 1], i)]
    <2>1. ASSUME NEW i \in 0 .. n
          PROVE  g[i] = IF i = 0 THEN s ELSE rpcPublish(g[i - 1], i)
      <3>1. CASE i = 0
        BY <1>7, <3>1 DEF Runs
      <3>2. CASE i # 0
        <4>1. i \in 1 .. n /\ i - 1 \in 0 .. n
          BY <1>2, <3>2
        <4>2. g[i] = F[i][g[i - 1]] /\ g[i - 1] \in D
          BY <1>7, <4>1 DEF Runs
        <4>3. g[i] = rpcPublish(g[i - 1], i)
          BY <1>6, <4>1, <4>2, Zenon
        <4> QED BY <3>2, <4>3
      <3> QED BY <3>1, <3>2
    <2> QED BY <1>7, <2>1 DEF Runs
  <1>9. published = [i \in 0 .. n |-> IF i = 0 THEN s ELSE rpcPublish(published[i - 1], i)]
    BY <1>8, Zenon
  <1> HIDE DEF published
  <1>10. published[0] \in D
    <2>1. 0 \in 0 .. n
      BY <1>2
    <2>2. published[0] = s
      BY <1>9, <2>1
    <2> QED BY <1>3, <2>2
  <1>11. ASSUME NEW i \in 1 .. n, published[i - 1] \in D
         PROVE  published[i] \in D
    <2>1. i \in 0 .. n /\ i # 0
      BY <1>2
    <2>2. published[i] = rpcPublish(published[i - 1], i)
      BY <1>9, <2>1
    <2> QED BY <1>4, <1>11, <2>2
  <1>12. published[n] \in D
    BY <1>2, <1>10, <1>11, LoopKeeps, Zenon
  <1>13. u \in D
    BY <1>3, <1>12
  <1> HIDE DEF u
  <1>14. u \in Ctx /\ Agree(u) /\ Moves(s, u, {})
    BY <1>13 DEF D
  <1>15. CASE info
    <2>1. rpcSend(u) \in Ctx /\ Agree(rpcSend(u)) /\ Moves(u, rpcSend(u), {})
      BY <1>14, RpcSendMoves, Zenon
    <2>2. rpcLoop(s, publish, info) = rpcSend(u)
      BY <1>1, <1>15
    <2> QED BY <1>14, <2>1, <2>2, MovesOn, Zenon
  <1>16. CASE ~ info
    <2>1. rpcLoop(s, publish, info) = u
      BY <1>1, <1>16
    <2> QED BY <1>14, <2>1, Zenon
  <1> QED BY <1>15, <1>16, Zenon

-----------------------------------------------------------------------------
(* The handlers of the robot.                                              *)

\* What the robot answers to a frame it has no connection for.
AnswerOf(c) == IF c = "DISCONNECTED" THEN DIS ELSE IF c = "SENT_SYN0" THEN SYN0 ELSE SYN1

\* A context s after a packet has been taken to be delivered, with connectState c.
Taking(s, p) == [s EXCEPT !.last = p]
WithState(s, c) == [s EXCEPT !.connectState = c]

\* What the robot makes of a frame, by what the frame is and the state it is in.
Disregards(s, f, t) ==
  f.type # "SYN" /\ (Data(f) => s.connectState = "CONNECTED") /\ Moves(s, t, {})
Delivers(s, f, t) ==
  /\ Data(f) /\ s.connectState = "CONNECTED"
  /\ Agree(t) /\ Moves(Taking(s, f.packet), t, {f.packet.stream})
AnswersSyn(s, f, t) ==
  /\ s.connectState # "CONNECTED"
  /\ f.type \in {"USR", "RTX", "NAK"} \/ Syn(f, SYN2)
  /\ Syn(f, SYN2) => s.connectState # "SENT_SYN1"
  /\ Moves(Sent(s, Control("SYN", AnswerOf(s.connectState))), t, {})
AnswersSyn0(s, f, t) ==
  /\ Syn(f, SYN0)
  /\ \E u \in Ctx : /\ Agree(u) /\ Moves(Sent(Cleared(s), Control("SYN", SYN1)), u, {})
                    /\ t = WithState(u, "SENT_SYN1")
Reconnects(s, f, t) ==
  /\ Syn(f, SYN2) /\ s.connectState \in {"SENT_SYN1", "CONNECTED"}
  /\ \E u \in Ctx : /\ Moves(s, u, {})
                    /\ t.connectState = "CONNECTED" /\ t.last = u.last /\ t.state = u.state
                    /\ t.subs = u.subs /\ t.out = u.out /\ t.dropped = u.dropped
Disconnects(s, f, t) == Syn(f, DIS) /\ t = WithState(s, "DISCONNECTED")

Handled(s, f, t) == \/ Disregards(s, f, t) \/ Delivers(s, f, t) \/ AnswersSyn(s, f, t)
                    \/ AnswersSyn0(s, f, t) \/ Reconnects(s, f, t) \/ Disconnects(s, f, t)
                    \/ Syn(f, SYN1)

\* A context with another state of the link.
LEMMA StateFields ==
  ASSUME NEW s \in Ctx, NEW c \in States
  PROVE  LET t == WithState(s, c) IN
         /\ t \in Ctx /\ t.connectState = c
         /\ t.last = s.last /\ t.state = s.state
         /\ t.subs = s.subs /\ t.out = s.out /\ t.dropped = s.dropped
  BY DEF Ctx, WithState

\* A context in which a packet has been taken to be delivered.
LEMMA TakingFields ==
  ASSUME NEW s \in Ctx, NEW p \in Packet
  PROVE  LET t == Taking(s, p) IN
         /\ t \in Ctx /\ t.last = p
         /\ t.connectState = s.connectState /\ t.state = s.state
         /\ t.subs = s.subs /\ t.out = s.out /\ t.dropped = s.dropped
  BY DEF Ctx, Taking

\* HandleWhileNotConnected.
LEMMA AnswerMoves ==
  ASSUME NEW s \in Ctx, s.connectState # "CONNECTED"
  PROVE  LET t == HandleWhileNotConnected(s) IN
         t \in Ctx /\ Moves(Sent(s, Control("SYN", AnswerOf(s.connectState))), t, {})
  <1> DEFINE n == AnswerOf(s.connectState)
  <1>1. s.connectState \in {"DISCONNECTED", "SENT_SYN0", "SENT_SYN1"}
    BY DEF Ctx, States
  <1>2. HandleWhileNotConnected(s) = Transmit(s, Control("SYN", n))
    BY <1>1 DEF HandleWhileNotConnected, AnswerOf
  <1>3. n \in Seq6
    BY SynNumbers DEF AnswerOf
  <1> HIDE DEF n
  <1>4. Control("SYN", n) \in Frame
    BY <1>3, ControlFrame
  <1>5. /\ Transmit(s, Control("SYN", n)) \in Ctx
        /\ Moves(Sent(s, Control("SYN", n)), Transmit(s, Control("SYN", n)), {})
    BY <1>4, TransmitMoves, Zenon
  <1> QED BY <1>2, <1>5, Zenon DEF n

\* A NAK is sent.
LEMMA NakMoves ==
  ASSUME NEW s \in Ctx
  PROVE  LET t == Transmit(s, Control("NAK", s.rx)) IN t \in Ctx /\ Moves(s, t, {})
  <1> DEFINE f == Control("NAK", s.rx)
  <1>1. s.rx \in Seq6
    BY DEF Ctx
  <1>2. f \in Frame /\ f.type = "NAK"
    BY <1>1, ControlFrame
  <1> HIDE DEF f
  <1>3. f.type # "SYN"
    BY <1>2
  <1>4. Transmit(s, f) \in Ctx /\ Moves(s, Transmit(s, f), {})
    BY <1>2, <1>3, TransmitMoves, Zenon
  <1> QED BY <1>4, Zenon DEF f

\* sfpHandleUSR.
LEMMA UsrHandled ==
  ASSUME NEW s \in Ctx, NEW f \in Frame, NEW m \in Message, Data(f), s.connectState = "CONNECTED"
  PROVE  LET t == HandleUSR(s, f, m) IN t \in Ctx /\ (Disregards(s, f, t) \/ Delivers(s, f, t))
  <1> DEFINE t == HandleUSR(s, f, m)
  <1> SUFFICES t \in Ctx /\ (Disregards(s, f, t) \/ Delivers(s, f, t))
    OBVIOUS
  <1>1. f.type # "SYN"
    BY DEF Data
  <1>2. CASE f.seq = s.rx
    <2> DEFINE u == serverRead(Taking(s, f.packet), m)
    <2>1. t = [u EXCEPT !.rx = Plus(@, 1)]
      BY <1>2 DEF HandleUSR, Taking
    <2>2. f.packet \in Packet
      BY FrameFields
    <2>3. Taking(s, f.packet) \in Ctx /\ Taking(s, f.packet).last = f.packet
      BY <2>2, TakingFields, Zenon
    <2>4. u \in Ctx /\ Agree(u) /\ Moves(Taking(s, f.packet), u, {f.packet.stream})
      BY <2>3, ReadMoves, Zenon
    <2> HIDE DEF u, t
    <2>5. u.rx \in Int /\ 1 \in Int
      BY <2>4, Constants DEF Ctx
    <2> DEFINE n == Plus(u.rx, 1)
    <2>6. n \in Seq6 /\ t = [u EXCEPT !.rx = n]
      BY <2>1, <2>4, <2>5, PlusType DEF Ctx
    <2> HIDE DEF n
    <2>7. t \in Ctx
      BY <2>4, <2>6 DEF Ctx
    <2>8. /\ t.connectState = u.connectState /\ t.last = u.last /\ t.state = u.state
          /\ t.subs = u.subs /\ t.out = u.out /\ t.dropped = u.dropped
      BY <2>4, <2>6 DEF Ctx
    <2>9. Moves(u, t, {}) /\ Agree(t)
      BY <2>4, <2>8, MovesSame, Zenon DEF Agree
    <2>10. Moves(Taking(s, f.packet), t, {f.packet.stream})
      BY <2>4, <2>9, MovesOn, Zenon
    <2> QED BY <2>7, <2>9, <2>10, Zenon DEF Delivers
  <1>3. CASE f.seq # s.rx /\ f.type = "USR"
    <2>1. t = Transmit(s, Control("NAK", s.rx))
      BY <1>3 DEF HandleUSR
    <2> HIDE DEF t
    <2> QED BY <1>1, <2>1, NakMoves, Zenon DEF Disregards
  <1>4. CASE f.seq # s.rx /\ f.type # "USR"
    <2>1. t = s
      BY <1>4 DEF HandleUSR
    <2> HIDE DEF t
    <2> QED BY <1>1, <2>1, MovesSame, Zenon DEF Disregards
  <1> QED BY <1>2, <1>3, <1>4, Zenon

\* sfpHandleNAK.
LEMMA NakHandled ==
  ASSUME NEW s \in Ctx, NEW f \in Frame
  PROVE  LET t == ServerHandleNAK(s, f) IN t \in Ctx /\ Moves(s, t, {})
  <1>1. f.seq \in Seq6
    BY FrameFields
  <1>2. CASE f.seq = s.tx
    <2>1. ServerHandleNAK(s, f) = s
      BY <1>2 DEF ServerHandleNAK
    <2> QED BY <2>1, MovesSame, Zenon
  <1>3. CASE f.seq # s.tx
    <2>1. ServerHandleNAK(s, f) = TransmitHistoryFromSeq(s, f.seq)
      BY <1>3 DEF ServerHandleNAK
    <2>2. LET t == TransmitHistoryFromSeq(s, f.seq) IN t \in Ctx /\ Moves(s, t, {})
      BY <1>1, HistoryMoves, Zenon
    <2> QED BY <2>1, <2>2, Zenon
  <1> QED BY <1>2, <1>3, Zenon

\* sfpHandleSYN0.
LEMMA Syn0Handled ==
  ASSUME NEW s \in Ctx, NEW f, Syn(f, SYN0)
  PROVE  LET t == ServerSYN0(s) IN t \in Ctx /\ AnswersSyn0(s, f, t)
  <1> DEFINE c == Cleared(s)
             g == Control("SYN", SYN1)
             u == Transmit(c, g)
  <1>1. c \in Ctx
    BY ClearedFields
  <1>2. g \in Frame
    BY SynNumbers, ControlFrame
  <1>3. ServerSYN0(s) = WithState(u, "SENT_SYN1")
    BY DEF ServerSYN0, WithState
  <1> HIDE DEF c, g
  <1>4. u \in Ctx /\ Agree(u) /\ Moves(Sent(c, g), u, {})
    BY <1>1, <1>2, TransmitMoves, Zenon
  <1> HIDE DEF u
  <1>5. "SENT_SYN1" \in States
    BY DEF States
  <1>6. WithState(u, "SENT_SYN1") \in Ctx
    BY <1>4, <1>5, StateFields, Zenon
  <1> QED BY <1>3, <1>4, <1>6, Zenon DEF AnswersSyn0, c, g

\* The end of sfpHandleSYN1 and sfpHandleSYN2.
LEMMA CatchUpMoves ==
  ASSUME NEW s \in Ctx
  PROVE  LET t == CatchUp(s) IN
         /\ t \in Ctx
         /\ \E u \in Ctx : /\ Moves(s, u, {})
                           /\ t.connectState = "CONNECTED" /\ t.last = u.last /\ t.state = u.state
                           /\ t.subs = u.subs /\ t.out = u.out /\ t.dropped = u.dropped
  <1> DEFINE u == IF s.tx = 0 THEN s ELSE TransmitHistoryFromSeq(s, 0)
             d == u.torn \/ u.stream # s.stream
             t == CatchUp(s)
  <1>1. u \in Ctx /\ Moves(s, u, {})
    <2>1. 0 \in Seq6
      BY NoHistory
    <2>2. LET x == TransmitHistoryFromSeq(s, 0) IN x \in Ctx /\ Moves(s, x, {})
      BY <2>1, HistoryMoves, Zenon
    <2>3. Moves(s, s, {})
      BY MovesSame, Zenon
    <2> QED BY <2>2, <2>3, Zenon
  <1>2. t = [u EXCEPT !.connectState = "CONNECTED", !.torn = d]
    <2>1. t = [u EXCEPT !.connectState = "CONNECTED", !.torn = @ \/ u.stream # s.stream]
      BY DEF CatchUp
    <2> HIDE DEF u, t
    <2> QED BY <1>1, <2>1, Zenon DEF Ctx
  <1>3. d \in BOOLEAN
    BY Zenon
  <1> HIDE DEF d, u, t
  <1>4. "CONNECTED" \in States
    BY DEF States
  <1>5. t \in Ctx
    BY <1>1, <1>2, <1>3, <1>4 DEF Ctx
  <1>6. /\ t.connectState = "CONNECTED" /\ t.last = u.last /\ t.state = u.state
        /\ t.subs = u.subs /\ t.out = u.out /\ t.dropped = u.dropped
    BY <1>1, <1>2 DEF Ctx
  <1> QED BY <1>1, <1>5, <1>6, Zenon DEF t

\* sfpHandleSYN.
LEMMA SynHandled ==
  ASSUME NEW s \in Ctx, NEW f, f.type = "SYN", f.seq \in {SYN0, SYN1, SYN2, DIS}
  PROVE  LET t == ServerSYN(s, f.seq) IN t \in Ctx /\ Handled(s, f, t)
  <1> DEFINE t == ServerSYN(s, f.seq)
  <1> SUFFICES t \in Ctx /\ Handled(s, f, t)
    OBVIOUS
  <1>0. s.connectState \in States
    BY DEF Ctx
  <1>1. CASE f.seq = SYN0
    <2>1. t = ServerSYN0(s)
      BY <1>1, SynNumbers DEF ServerSYN
    <2>2. Syn(f, SYN0)
      BY <1>1 DEF Syn
    <2> HIDE DEF t
    <2>3. LET x == ServerSYN0(s) IN x \in Ctx /\ AnswersSyn0(s, f, x)
      BY <2>2, Syn0Handled, Zenon
    <2> QED BY <2>1, <2>3, Zenon DEF Handled
  <1>2. CASE f.seq = SYN1
    <2>1. Syn(f, SYN1)
      BY <1>2 DEF Syn
    <2>2. CASE s.connectState = "DISCONNECTED"
      <3>1. t = Transmit(s, Control("SYN", DIS))
        BY <1>2, <2>2, SynNumbers DEF ServerSYN
      <3>2. Control("SYN", DIS) \in Frame
        BY SynNumbers, ControlFrame
      <3> HIDE DEF t
      <3> QED BY <2>1, <3>1, <3>2, TransmitMoves, Zenon DEF Handled
    <2>3. CASE s.connectState # "DISCONNECTED"
      <3> DEFINE u == Transmit(s, Control("SYN", SYN2))
      <3>1. t = CatchUp(u)
        BY <1>2, <2>3, SynNumbers DEF ServerSYN
      <3>2. Control("SYN", SYN2) \in Frame
        BY SynNumbers, ControlFrame
      <3>3. u \in Ctx
        BY <3>2, TransmitMoves, Zenon
      <3> HIDE DEF t, u
      <3>4. t \in Ctx
        BY <3>1, <3>3, CatchUpMoves, Zenon
      <3> QED BY <2>1, <3>4, Zenon DEF Handled
    <2> QED BY <2>2, <2>3, Zenon
  <1>3. CASE f.seq = SYN2
    <2>1. Syn(f, SYN2)
      BY <1>3 DEF Syn
    <2>2. CASE s.connectState \in {"DISCONNECTED", "SENT_SYN0"}
      <3>1. t = HandleWhileNotConnected(s)
        BY <1>3, <2>2, SynNumbers DEF ServerSYN
      <3>2. s.connectState # "CONNECTED" /\ s.connectState # "SENT_SYN1"
        BY <2>2
      <3> HIDE DEF t
      <3>3. t \in Ctx /\ Moves(Sent(s, Control("SYN", AnswerOf(s.connectState))), t, {})
        BY <3>1, <3>2, AnswerMoves, Zenon
      <3> QED BY <2>1, <3>2, <3>3, Zenon DEF Handled, AnswersSyn
    <2>3. CASE s.connectState \in {"SENT_SYN1", "CONNECTED"}
      <3>1. t = CatchUp(s)
        BY <1>3, <2>3, SynNumbers DEF ServerSYN
      <3> HIDE DEF t
      <3>2. /\ t \in Ctx
            /\ \E u \in Ctx : /\ Moves(s, u, {})
                              /\ t.connectState = "CONNECTED" /\ t.last = u.last /\ t.state = u.state
                              /\ t.subs = u.subs /\ t.out = u.out /\ t.dropped = u.dropped
        BY <3>1, CatchUpMoves, Zenon
      <3> QED BY <2>1, <2>3, <3>2, Zenon DEF Handled, Reconnects
    <2> QED BY <1>0, <2>2, <2>3 DEF States
  <1>4. CASE f.seq = DIS
    <2>1. t = WithState(s, "DISCONNECTED")
      BY <1>4, SynNumbers DEF ServerSYN, WithState
    <2>2. "DISCONNECTED" \in States /\ Syn(f, DIS)
      BY <1>4 DEF States, Syn
    <2> HIDE DEF t
    <2>3. t \in Ctx
      BY <2>1, <2>2, StateFields, Zenon
    <2> QED BY <2>1, <2>2, <2>3, Zenon DEF Handled, Disconnects
  <1> QED BY <1>1, <1>2, <1>3, <1>4

\* sfpHandleFrame of the robot.
LEMMA FrameHandled ==
  ASSUME NEW s \in Ctx, NEW f \in Frame, NEW m \in Message,
         f.type = "SYN" => f.seq \in {SYN0, SYN1, SYN2, DIS}
  PROVE  LET t == HandleFrame(s, f, m) IN t \in Ctx /\ Handled(s, f, t)
  <1> DEFINE t == HandleFrame(s, f, m)
  <1> SUFFICES t \in Ctx /\ Handled(s, f, t)
    OBVIOUS
  <1>0. f.type \in {"USR", "RTX", "NAK", "SYN", "BAD"}
    BY DEF Frame
  <1>1. CASE f.type = "BAD"
    <2>1. t = Transmit(s, Control("NAK", s.rx)) /\ f.type # "SYN" /\ ~ Data(f)
      BY <1>1 DEF HandleFrame, Data
    <2> HIDE DEF t
    <2> QED BY <2>1, NakMoves, Zenon DEF Handled, Disregards
  <1>2. CASE f.type = "SYN"
    <2>1. t = ServerSYN(s, f.seq)
      BY <1>2 DEF HandleFrame
    <2> HIDE DEF t
    <2> QED BY <1>2, <2>1, SynHandled, Zenon
  <1>3. CASE f.type \in {"USR", "RTX", "NAK"} /\ s.connectState # "CONNECTED"
    <2>1. t = HandleWhileNotConnected(s) /\ ~ Syn(f, SYN2)
      BY <1>3 DEF HandleFrame, Syn
    <2> HIDE DEF t
    <2>2. t \in Ctx /\ Moves(Sent(s, Control("SYN", AnswerOf(s.connectState))), t, {})
      BY <1>3, <2>1, AnswerMoves, Zenon
    <2> QED BY <1>3, <2>1, <2>2, Zenon DEF Handled, AnswersSyn
  <1>4. CASE f.type \in {"USR", "RTX"} /\ s.connectState = "CONNECTED"
    <2>1. t = HandleUSR(s, f, m)
      BY <1>4 DEF HandleFrame
    <2>2. Data(f)
      BY <1>4 DEF Data
    <2> HIDE DEF t
    <2>3. t \in Ctx /\ (Disregards(s, f, t) \/ Delivers(s, f, t))
      BY <1>4, <2>1, <2>2, UsrHandled, Zenon
    <2> QED BY <2>3, Zenon DEF Handled
  <1>5. CASE f.type = "NAK" /\ s.connectState = "CONNECTED"
    <2>1. t = ServerHandleNAK(s, f) /\ f.type # "SYN" /\ ~ Data(f)
      BY <1>5 DEF HandleFrame, Data
    <2> HIDE DEF t
    <2> QED BY <2>1, NakHandled, Zenon DEF Handled, Disregards
  <1> QED BY <1>0, <1>1, <1>2, <1>3, <1>4, <1>5

-----------------------------------------------------------------------------
(* The robot's steps.                                                      *)

\* The types of the state: what ServerTypeOK says, that the table is a table,
\* that no SYN on the way to the robot has a number of its own, and that what is
\* left to deliver is on the line.
Numbered(q) == \A f \in Frame : (In(q, f) /\ f.type = "SYN") => f.seq \in {SYN0, SYN1, SYN2, DIS}

RobotTypes ==
  /\ TypeOK /\ subs \in Tables /\ Numbered(line[B])
  /\ state \in {"Connected", "Disconnected"}
  /\ expired \in BOOLEAN /\ fresh \in BOOLEAN /\ dropped \in BOOLEAN /\ torn \in BOOLEAN
  /\ pc \in {"asleep", "deliver", "publish", "ended"} /\ left \in Nat /\ drops \in 0 .. MAX_DROPS
  /\ left <= Len(line[B])

\* The invariant says what the property says.
LEMMA RobotTypesOK ==
  ASSUME RobotTypes
  PROVE  ServerTypeOK
  <1>1. DOMAIN subs = SubSlot
    BY DEF RobotTypes, Tables
  <1>2. ASSUME NEW i \in SubSlot
        PROVE  subs[i] = NoSub \/ \E r \in ReqIds, t \in Topics : subs[i] = Sub(r, t, subs[i].from)
    <2>1. subs[i] \in Subscription
      BY DEF RobotTypes, Tables
    <2>2. CASE subs[i] # NoSub
      <3>1. PICK r \in ReqIds, t \in Topics, n \in Nat : subs[i] = Sub(r, t, n)
        BY <2>1, <2>2 DEF Subscription
      <3>2. subs[i].from = n
        BY <3>1, SubFields
      <3> QED BY <3>1, <3>2, Zenon
    <2> QED BY <2>2
  <1>3. {expired, fresh, dropped, torn} \subseteq BOOLEAN
    BY Zenon DEF RobotTypes
  <1> QED BY <1>1, <1>2, <1>3, Zenon DEF RobotTypes, ServerTypeOK

\* The robot is one endpoint, the client the other.
LEMMA BothEnds ==
  A \in Endpoints /\ B \in Endpoints /\ A # B /\ Peer(A) = B /\ Peer(B) = A
  BY SfpAssumption DEF Endpoints, Peer

\* The context of the robot.
LEMMA ContextFields ==
  ASSUME RobotTypes
  PROVE  /\ Context \in Ctx
         /\ Context.connectState = connectState[B] /\ Context.last = last[B]
         /\ Context.state = state /\ Context.subs = subs /\ Context.dropped = dropped
         /\ Context.out = <<>>
  <1>1. /\ connectState[B] \in States /\ rxSeq[B] \in Seq6 /\ txSeq[B] \in Seq6
        /\ history[B] \in Histories /\ stream[B] \in Nat /\ written[B] \in Nat /\ last[B] \in Packet
    BY BothEnds DEF RobotTypes, TypeOK, States, Histories
  <1>2. <<>> \in Seq(Frame)
    BY NoFrame
  <1>3. /\ state \in {"Connected", "Disconnected"} /\ subs \in Tables
        /\ expired \in BOOLEAN /\ fresh \in BOOLEAN /\ dropped \in BOOLEAN /\ torn \in BOOLEAN
        /\ FALSE \in BOOLEAN
    BY Zenon DEF RobotTypes
  <1>4. Context \in Ctx
    BY <1>1, <1>2, <1>3 DEF Ctx, Context
  <1>5. /\ Context.connectState = connectState[B] /\ Context.last = last[B]
        /\ Context.state = state /\ Context.subs = subs /\ Context.out = <<>>
    BY DEF Context
  <1>6. Context.dropped = dropped
    BY DEF Context
  <1> QED BY <1>4, <1>5, <1>6

\* What is left of a line when its head, or nothing, is taken.
LEMMA TakenLine ==
  ASSUME NEW q \in Seq(Frame)
  PROVE  /\ SubSeq(q, 0 + 1, Len(q)) = q
         /\ q # <<>> => SubSeq(q, 1 + 1, Len(q)) = Tail(q)
  OBVIOUS

\* Numbers are kept by what a line loses.
LEMMA NumberedTail ==
  ASSUME NEW q \in Seq(Frame), q # <<>>, Numbered(q)
  PROVE  Numbered(Tail(q)) /\ (Head(q).type = "SYN" => Head(q).seq \in {SYN0, SYN1, SYN2, DIS})
  BY TailLine, Zenon DEF Numbered

\* Numbers are kept by what is sent with a number.
LEMMA NumberedConcat ==
  ASSUME NEW q \in Seq(Frame), NEW r \in Seq(Frame), Numbered(q), Numbered(r)
  PROVE  Numbered(q \o r)
  BY ConcatLine, Zenon DEF Numbered

\* What becomes of the variables when the robot's context becomes s.
LEMMA BecomeEffect ==
  ASSUME RobotTypes, NEW s \in Ctx, NEW k \in {0, 1}, k = 1 => line[B] # <<>>, Become(s, k)
  PROVE  /\ connectState'[B] = s.connectState /\ connectState'[A] = connectState[A]
         /\ last'[B] = s.last
         /\ stream'[A] = stream[A] /\ history'[A] = history[A]
         /\ line'[A] = line[A] \o s.out
         /\ line'[B] = IF k = 1 THEN Tail(line[B]) ELSE line[B]
         /\ state' = s.state /\ subs' = s.subs /\ (dropped' <=> s.dropped)
         /\ TypeOK' /\ subs' \in Tables /\ Numbered(line[B])'
         /\ state' \in {"Connected", "Disconnected"}
         /\ expired' \in BOOLEAN /\ fresh' \in BOOLEAN /\ dropped' \in BOOLEAN /\ torn' \in BOOLEAN
  <1>1. /\ connectState \in [Endpoints -> States] /\ rxSeq \in [Endpoints -> Seq6]
        /\ txSeq \in [Endpoints -> Seq6] /\ history \in [Endpoints -> Seq(Packet)]
        /\ \A e \in Endpoints : Len(history[e]) <= HISTORY
        /\ line \in [Endpoints -> Seq(Frame)] /\ stream \in [Endpoints -> Nat]
        /\ written \in [Endpoints -> Nat] /\ last \in [Endpoints -> Packet]
        /\ intact \in [Endpoints -> BOOLEAN] /\ starts \in Nat /\ faults \in Nat
    BY Zenon DEF RobotTypes, TypeOK, States
  <1>2. /\ s.connectState \in States /\ s.rx \in Seq6 /\ s.tx \in Seq6
        /\ s.history \in Seq(Packet) /\ Len(s.history) <= HISTORY
        /\ s.stream \in Nat /\ s.written \in Nat /\ s.last \in Packet
        /\ s.out \in Seq(Frame)
    BY DEF Ctx, Histories
  <1>3. /\ connectState' = [connectState EXCEPT ![B] = s.connectState]
        /\ rxSeq' = [rxSeq EXCEPT ![B] = s.rx] /\ txSeq' = [txSeq EXCEPT ![B] = s.tx]
        /\ history' = [history EXCEPT ![B] = s.history]
        /\ stream' = [stream EXCEPT ![B] = s.stream]
        /\ written' = [written EXCEPT ![B] = s.written]
        /\ last' = [last EXCEPT ![B] = s.last]
        /\ line' = [line EXCEPT ![A] = @ \o s.out, ![B] = SubSeq(@, k + 1, Len(@))]
        /\ UNCHANGED <<intact, starts, faults>>
    BY Zenon DEF Become
  <1>4. /\ connectState'[B] = s.connectState /\ connectState'[A] = connectState[A]
        /\ last'[B] = s.last
        /\ stream'[A] = stream[A] /\ history'[A] = history[A] /\ history'[B] = s.history
    BY <1>1, <1>3, BothEnds
  <1>5. line[A] \in Seq(Frame) /\ line[B] \in Seq(Frame)
    BY <1>1, BothEnds
  <1> DEFINE t == IF k = 1 THEN Tail(line[B]) ELSE line[B]
  <1>6. SubSeq(line[B], k + 1, Len(line[B])) = t
    BY <1>5, TakenLine
  <1>7. t \in Seq(Frame) /\ Numbered(t)
    BY <1>5, TailLine, NumberedTail DEF RobotTypes
  <1>8. line[A] \o s.out \in Seq(Frame)
    BY <1>2, <1>5, ConcatLine
  <1>9. line' = [line EXCEPT ![A] = line[A] \o s.out, ![B] = t]
    <2>1. line' = [line EXCEPT ![A] = line[A] \o s.out, ![B] = SubSeq(line[B], k + 1, Len(line[B]))]
      BY <1>1, <1>3, BothEnds
    <2> QED BY <1>6, <2>1, Zenon
  <1> DEFINE a == line[A] \o s.out
  <1> HIDE DEF t, a
  <1>10. line'[A] = a /\ line'[B] = t /\ line' \in [Endpoints -> Seq(Frame)]
    <2>1. a \in Seq(Frame) /\ line' = [line EXCEPT ![A] = a, ![B] = t]
      BY <1>8, <1>9 DEF a
    <2> QED BY <1>1, <1>7, <2>1, BothEnds
  <1>11. TypeOK'
    <2>1. /\ connectState' \in [Endpoints -> States] /\ rxSeq' \in [Endpoints -> Seq6]
          /\ txSeq' \in [Endpoints -> Seq6] /\ history' \in [Endpoints -> Seq(Packet)]
          /\ stream' \in [Endpoints -> Nat]
          /\ written' \in [Endpoints -> Nat] /\ last' \in [Endpoints -> Packet]
      BY <1>1, <1>2, <1>3, BothEnds
    <2>2. \A e \in Endpoints : Len(history'[e]) <= HISTORY
      BY <1>1, <1>2, <1>3, BothEnds
    <2>3. intact' \in [Endpoints -> BOOLEAN] /\ starts' \in Nat /\ faults' \in Nat
      BY <1>1, <1>3, Zenon
    <2> QED BY <1>10, <2>1, <2>2, <2>3, Zenon DEF TypeOK, States
  <1>12. /\ state' = s.state /\ subs' = s.subs /\ (dropped' <=> s.dropped)
         /\ expired' = s.expired /\ fresh' = s.fresh /\ dropped' = s.dropped /\ torn' = s.torn
    BY Zenon DEF Become
  <1>13. /\ subs' \in Tables /\ state' \in {"Connected", "Disconnected"}
         /\ expired' \in BOOLEAN /\ fresh' \in BOOLEAN /\ dropped' \in BOOLEAN /\ torn' \in BOOLEAN
    BY <1>12, Zenon DEF Ctx
  <1>14. Numbered(line[B])'
    BY <1>7, <1>10, Zenon
  <1> QED BY <1>4, <1>10, <1>11, <1>12, <1>13, <1>14, Zenon DEF t, a

\* A frame is delivered.
LEMMA DeliverStep ==
  ASSUME RobotTypes, ServerDeliver
  PROVE  /\ line[B] # <<>> /\ left' = left - 1 /\ pc = "deliver" /\ RobotTypes'
         /\ \E s \in Ctx : Handled(Context, Head(line[B]), s) /\ Become(s, 1)
  <1> DEFINE f == Head(line[B])
  <1>1. /\ pc = "deliver" /\ left > 0 /\ left' = left - 1 /\ pc' = pc /\ drops' = drops
    BY DEF ServerDeliver
  <1>2. line[B] \in Seq(Frame) /\ left \in Nat /\ left <= Len(line[B])
    BY BothEnds DEF RobotTypes, TypeOK
  <1>3. line[B] # <<>> /\ left' \in Nat /\ Len(Tail(line[B])) = Len(line[B]) - 1 /\ left' <= Len(Tail(line[B]))
    BY <1>1, <1>2
  <1>4. f \in Frame /\ (f.type = "SYN" => f.seq \in {SYN0, SYN1, SYN2, DIS})
    BY <1>2, <1>3, TailLine, NumberedTail DEF RobotTypes
  <1>5. PICK m \in Message : \E s \in {HandleFrame(Context, f, m)} : Become(s, 1)
    BY DEF ServerDeliver
  <1> DEFINE s == HandleFrame(Context, f, m)
  <1>6. Become(s, 1)
    BY <1>5, Zenon
  <1> HIDE DEF f
  <1>7. s \in Ctx /\ Handled(Context, f, s)
    BY <1>4, ContextFields, FrameHandled, Zenon
  <1> HIDE DEF s
  <1>8. 1 \in {0, 1} /\ 1 = 1
    OBVIOUS
  <1>9. /\ line'[B] = IF 1 = 1 THEN Tail(line[B]) ELSE line[B]
        /\ TypeOK' /\ subs' \in Tables /\ Numbered(line[B])'
        /\ state' \in {"Connected", "Disconnected"}
        /\ expired' \in BOOLEAN /\ fresh' \in BOOLEAN /\ dropped' \in BOOLEAN /\ torn' \in BOOLEAN
    BY <1>3, <1>6, <1>7, <1>8, BecomeEffect, Zenon
  <1>10. line'[B] = Tail(line[B])
    BY <1>9
  <1>11. left' \in Nat /\ left' <= Len(line'[B])
    BY <1>3, <1>10
  <1>12. pc' \in {"asleep", "deliver", "publish", "ended"} /\ drops' \in 0 .. MAX_DROPS
    BY <1>1 DEF RobotTypes
  <1>13. RobotTypes'
    BY <1>9, <1>11, <1>12, Zenon DEF RobotTypes
  <1> QED BY <1>1, <1>3, <1>6, <1>7, <1>13, Zenon DEF f

\* The connection is looked at when everything has been delivered, or something
\* is published: the robot moves, and afterwards server and link agree.
LEMMA LoopStep ==
  ASSUME RobotTypes, ServerCheck \/ (ServerLoop /\ Agree(Context))
  PROVE  /\ RobotTypes' /\ pc' # "deliver"
         /\ \E s \in Ctx : Agree(s) /\ Moves(Context, s, {}) /\ Become(s, 0)
  <1>0. Context \in Ctx
    BY ContextFields
  <1>1. \E s \in Ctx : Agree(s) /\ Moves(Context, s, {}) /\ Become(s, 0)
    <2>1. CASE ServerCheck
      <3> DEFINE s == serverCheckConnection(Context)
      <3>1. Become(s, 0)
        BY <2>1, Zenon DEF ServerCheck
      <3>2. s \in Ctx /\ Agree(s) /\ Moves(Context, s, {})
        BY <1>0, CheckMoves, Zenon
      <3> HIDE DEF s
      <3> QED BY <3>1, <3>2, Zenon
    <2>2. CASE ServerLoop /\ Agree(Context)
      <3>1. PICK publish \in BOOLEAN, info \in BOOLEAN, moved \in BOOLEAN :
              \E s \in {rpcLoop([Context EXCEPT !.moved = moved], publish, info)} : Become(s, 0)
        BY <2>2, Zenon DEF ServerLoop
      <3> DEFINE c == [Context EXCEPT !.moved = moved]
                 s == rpcLoop(c, publish, info)
      <3>2. Become(s, 0)
        BY <3>1, Zenon
      <3> DEFINE x == Context
      <3> HIDE DEF x
      <3>3. x \in Ctx /\ Agree(x) /\ c = [x EXCEPT !.moved = moved]
        BY <1>0, <2>2 DEF x
      <3> HIDE DEF c
      <3>4. c \in Ctx
        BY <3>3 DEF Ctx
      <3>5. /\ c.connectState = x.connectState /\ c.last = x.last /\ c.state = x.state
            /\ c.subs = x.subs /\ c.out = x.out /\ c.dropped = x.dropped
        BY <3>3 DEF Ctx
      <3>6. Agree(c) /\ Moves(x, c, {})
        BY <3>3, <3>5, MovesSame, Zenon DEF Agree
      <3>7. s \in Ctx /\ Agree(s) /\ Moves(c, s, {})
        BY <3>4, <3>6, LoopMoves, Zenon
      <3> HIDE DEF s
      <3> QED BY <3>2, <3>6, <3>7, MovesOn, Zenon DEF x
    <2> QED BY <2>1, <2>2
  <1>2. PICK s \in Ctx : Agree(s) /\ Moves(Context, s, {}) /\ Become(s, 0)
    BY <1>1, Zenon
  <1>3. 0 \in {0, 1} /\ 0 # 1
    OBVIOUS
  <1>4. /\ line'[B] = IF 0 = 1 THEN Tail(line[B]) ELSE line[B]
        /\ TypeOK' /\ subs' \in Tables /\ Numbered(line[B])'
        /\ state' \in {"Connected", "Disconnected"}
        /\ expired' \in BOOLEAN /\ fresh' \in BOOLEAN /\ dropped' \in BOOLEAN /\ torn' \in BOOLEAN
    BY <1>2, <1>3, BecomeEffect, Zenon
  <1>5. /\ left' = left /\ drops' = drops /\ pc' \in {"asleep", "publish"}
    BY DEF ServerCheck, ServerLoop
  <1>6. /\ left' \in Nat /\ left' <= Len(line'[B]) /\ drops' \in 0 .. MAX_DROPS
        /\ pc' \in {"asleep", "deliver", "publish", "ended"}
    BY <1>4, <1>5 DEF RobotTypes
  <1>7. RobotTypes'
    BY <1>4, <1>6, Zenon DEF RobotTypes
  <1> QED BY <1>1, <1>5, <1>7

-----------------------------------------------------------------------------
(* The client's steps.                                                     *)

\* The packets of a history, the data on a line, are all from stream n.
OfStream(h, n) == \A i \in 1 .. Len(h) : h[i].stream = n
DataOf(q, n) == \A f \in Frame : (In(q, f) /\ Data(f)) => f.packet.stream = n
NoSyn(q) == \A f \in Frame : In(q, f) => f.type # "SYN"

\* Going back keeps to the stream.
LEMMA RewoundStream ==
  ASSUME NEW h \in Seq(Packet), NEW tx \in Seq6, NEW to \in Seq6, NEW n, OfStream(h, n)
  PROVE  OfStream(Rewound(h, tx, to), n)
  <1> DEFINE ff == (to - (tx - Len(h))) % SEQ_RANGE
  <1>1. Len(h) \in Nat /\ to - (tx - Len(h)) \in Int /\ SEQ_RANGE \in Nat \ {0}
    BY Constants
  <1>2. ff \in 0 .. (SEQ_RANGE - 1)
    BY <1>1
  <1>3. Rewound(h, tx, to) = IF Len(h) > ff THEN SubSeq(h, ff + 1, Len(h)) ELSE h
    BY DEF Rewound
  <1> HIDE DEF ff
  <1>4. ff \in Nat
    BY <1>1, <1>2
  <1>5. CASE Len(h) > ff
    <2>1. /\ Len(SubSeq(h, ff + 1, Len(h))) = Len(h) - ff
          /\ \A i \in 1 .. (Len(h) - ff) : SubSeq(h, ff + 1, Len(h))[i] = h[ff + i]
      BY <1>1, <1>4, <1>5
    <2>2. \A i \in 1 .. (Len(h) - ff) : ff + i \in 1 .. Len(h)
      BY <1>1, <1>4
    <2> QED BY <1>3, <1>5, <2>1, <2>2 DEF OfStream
  <1>6. CASE ~ (Len(h) > ff)
    BY <1>3, <1>6
  <1> QED BY <1>5, <1>6

\* What is sent again is of the stream of the history.
LEMMA ResentStream ==
  ASSUME NEW h \in Seq(Packet), NEW to \in Seq6
  PROVE  /\ Resent(h, to) \in Seq(Frame) /\ NoSyn(Resent(h, to))
         /\ \A n : OfStream(h, n) => DataOf(Resent(h, to), n)
  <1>1. Resent(h, to) \in Seq(Frame)
    BY ResentFrames
  <1>2. \A f \in Frame : In(Resent(h, to), f) =>
              \E i \in 1 .. Len(h) : f.type = "RTX" /\ f.packet = h[i]
    BY ResentFrames
  <1> DEFINE r == Resent(h, to)
  <1> HIDE DEF r
  <1>3. NoSyn(r)
    BY <1>2 DEF NoSyn, r
  <1>4. ASSUME NEW n, OfStream(h, n)
        PROVE  DataOf(r, n)
    BY <1>2, <1>4 DEF OfStream, DataOf, r
  <1> QED BY <1>1, <1>3, <1>4, Zenon DEF r

\* Lines of no frame, of one SYN, of one NAK.
LEMMA ShortLines ==
  /\ <<>> \in Seq(Frame) /\ NoSyn(<<>>) /\ \A n : DataOf(<<>>, n)
  /\ \A k \in Seq6 : LET s == <<Control("NAK", k)>> IN
        s \in Seq(Frame) /\ NoSyn(s) /\ \A n : DataOf(s, n)
  /\ \A k \in {SYN0, SYN1, SYN2, DIS} : LET s == <<Control("SYN", k)>> IN
        s \in Seq(Frame) /\ Numbered(s) /\ \A n : DataOf(s, n)
  <1>1. /\ <<>> \in Seq(Frame) /\ NoSyn(<<>>) /\ \A n : DataOf(<<>>, n)
    BY NoFrame, Zenon DEF NoSyn, DataOf
  <1>2. ASSUME NEW f \in Frame, ~ Data(f)
        PROVE  /\ <<f>> \in Seq(Frame) /\ \A n : DataOf(<<f>>, n)
               /\ f.type # "SYN" => NoSyn(<<f>>)
               /\ (f.type = "SYN" => f.seq \in {SYN0, SYN1, SYN2, DIS}) => Numbered(<<f>>)
    BY <1>2, OneFrame, Zenon DEF NoSyn, DataOf, Numbered
  <1>3. ASSUME NEW k \in Seq6
        PROVE  LET s == <<Control("NAK", k)>> IN s \in Seq(Frame) /\ NoSyn(s) /\ \A n : DataOf(s, n)
    <2> DEFINE f == Control("NAK", k)
    <2>1. f \in Frame /\ f.type # "SYN" /\ ~ Data(f)
      BY ControlFrame DEF Data
    <2> HIDE DEF f
    <2> QED BY <1>2, <2>1, Zenon DEF f
  <1>4. ASSUME NEW k \in {SYN0, SYN1, SYN2, DIS}
        PROVE  LET s == <<Control("SYN", k)>> IN s \in Seq(Frame) /\ Numbered(s) /\ \A n : DataOf(s, n)
    <2> DEFINE f == Control("SYN", k)
    <2>1. f \in Frame /\ ~ Data(f) /\ f.seq \in {SYN0, SYN1, SYN2, DIS}
      BY SynNumbers, ControlFrame DEF Data
    <2> HIDE DEF f
    <2> QED BY <1>2, <2>1, Zenon DEF f
  <1> QED BY <1>1, <1>3, <1>4

\* What the client makes of the frame f at the head of its line, if it sends fs.
Still == connectState'[A] = connectState[A] /\ stream'[A] = stream[A] /\ history'[A] = history[A]
ClientPasses(f, fs) ==
  /\ f.type # "SYN" /\ connectState'[A] = connectState[A] /\ stream'[A] = stream[A]
  /\ NoSyn(fs) /\ (connectState[A] # "CONNECTED" => NoData(fs))
  /\ \A n : OfStream(history[A], n) => (OfStream(history'[A], n) /\ DataOf(fs, n))
ClientRefuses(f, fs) ==
  /\ connectState[A] # "CONNECTED" /\ Still /\ f.type # "SYN"
  /\ fs = <<Control("SYN", AnswerOf(connectState[A]))>>
ClientDeclines(f, fs) ==
  /\ Syn(f, SYN1) /\ connectState[A] = "DISCONNECTED" /\ Still
  /\ fs = <<Control("SYN", DIS)>>
ClientOpens(f, fs) ==
  /\ Syn(f, SYN1) /\ connectState[A] # "DISCONNECTED"
  /\ connectState'[A] = "CONNECTED" /\ stream'[A] = stream[A]
  /\ \E r \in Seq(Frame) :
       /\ fs = <<Control("SYN", SYN2)>> \o r /\ NoSyn(r)
       /\ \A n : OfStream(history[A], n) => (OfStream(history'[A], n) /\ DataOf(r, n))
ClientCloses(f, fs) ==
  /\ Syn(f, DIS) /\ connectState'[A] = "DISCONNECTED" /\ fs = <<>>
  /\ stream'[A] = stream[A] /\ history'[A] = history[A]

ClientDoes(f, fs) == \/ ClientPasses(f, fs) \/ ClientRefuses(f, fs) \/ ClientDeclines(f, fs)
                     \/ ClientOpens(f, fs) \/ ClientCloses(f, fs)
                     \/ Syn(f, SYN0) \/ Syn(f, SYN2)

\* Frames without a SYN have no SYN of any number.
LEMMA NoSynHas ==
  ASSUME NEW q, NoSyn(q)
  PROVE  Numbered(q) /\ \A n : ~ Has(q, n)
  BY Zenon DEF NoSyn, Numbered, Has, Syn

\* A retransmission by the client, behind the frames first.
LEMMA ClientResync ==
  ASSUME TypeOK, line[A] # <<>>, NEW to \in Seq6, NEW first \in Seq(Frame), Resynchronize(A, to, first)
  PROVE  \E r \in Seq(Frame) :
           /\ line'[A] = Tail(line[A]) /\ line'[B] = line[B] \o (first \o r)
           /\ NoSyn(r)
           /\ \A n : OfStream(history[A], n) => (OfStream(history'[A], n) /\ DataOf(r, n))
  <1> DEFINE g == Rewound(history[A], txSeq[A], to)
  <1>1. /\ history' = [history EXCEPT ![A] = g]
        /\ line'[A] = Tail(line[A]) /\ line'[B] = line[B] \o (first \o Resent(g, to))
    BY BothEnds, ResynchronizeType
  <1>2. /\ history[A] \in Seq(Packet) /\ txSeq[A] \in Seq6
        /\ history \in [Endpoints -> Seq(Packet)]
    BY BothEnds DEF TypeOK
  <1>3. g \in Seq(Packet)
    BY <1>2, RewoundType
  <1>4. \A n : OfStream(history[A], n) => OfStream(g, n)
    BY <1>2, RewoundStream
  <1> HIDE DEF g
  <1>5. history'[A] = g
    BY <1>1, <1>2, BothEnds
  <1>6. /\ Resent(g, to) \in Seq(Frame) /\ NoSyn(Resent(g, to))
        /\ \A n : OfStream(g, n) => DataOf(Resent(g, to), n)
    BY <1>3, ResentStream, Zenon
  <1>7. \A n : OfStream(history[A], n) => (OfStream(history'[A], n) /\ DataOf(Resent(g, to), n))
    BY <1>4, <1>5, <1>6, Zenon
  <1> QED BY <1>1, <1>6, <1>7, Zenon

\* sfpHandleFrame of the client.
LEMMA ClientHandles ==
  ASSUME TypeOK, sfpHandleFrame(A)
  PROVE  /\ line[A] # <<>> /\ line'[A] = Tail(line[A])
         /\ connectState'[B] = connectState[B] /\ last'[B] = last[B]
         /\ \E fs \in Seq(Frame) :
              line'[B] = line[B] \o fs /\ Numbered(fs) /\ ClientDoes(Head(line[A]), fs)
  <1> DEFINE f == Head(line[A])
             Done(fs) == /\ line'[A] = Tail(line[A]) /\ line'[B] = line[B] \o fs
                         /\ Numbered(fs) /\ ClientDoes(f, fs)
  <1>0. f = Got(A)
    BY DEF Got
  <1>1. line[A] # <<>>
    BY DEF sfpHandleFrame, HandleBad, HandleNotConnected, DeliverUSR, RefuseUSR, Accepts, IsData, HandleNAK,
           HandleSYN0, HandleSYN1, HandleSYN2, HandleDIS, ArrivesSYN, Arrives
  <1>2. f \in Frame /\ f.seq \in Seq6
    BY <1>0, <1>1, BothEnds, Arrived
  <1>3. \A s \in Seq(Frame) : Reply(A, s) => (line'[A] = Tail(line[A]) /\ line'[B] = line[B] \o s)
    BY <1>1, BothEnds, ReplyType
  <1>4. /\ connectState \in [Endpoints -> States] /\ last \in [Endpoints -> Packet]
        /\ stream \in [Endpoints -> Nat] /\ history \in [Endpoints -> Seq(Packet)]
        /\ connectState[A] \in States /\ rxSeq[A] \in Seq6
    BY BothEnds DEF TypeOK, States
  <1>5. connectState'[B] = connectState[B] /\ last'[B] = last[B]
    BY <1>4, BothEnds DEF sfpHandleFrame, HandleBad, HandleNotConnected, DeliverUSR, RefuseUSR, HandleNAK,
           HandleSYN0, HandleSYN1, HandleSYN2, HandleDIS, StartOver, Connected, Refused
  <1>6. \E fs \in Seq(Frame) : Done(fs)
    <2> DEFINE nak == <<Control("NAK", rxSeq[A])>>
    <2>1. /\ <<>> \in Seq(Frame) /\ NoSyn(<<>>) /\ Numbered(<<>>) /\ NoData(<<>>) /\ \A n : DataOf(<<>>, n)
      BY ShortLines, NoSynHas, EmptySummary
    <2>2. /\ nak \in Seq(Frame) /\ NoSyn(nak) /\ Numbered(nak) /\ NoData(nak) /\ \A n : DataOf(nak, n)
      BY <1>4, ShortLines, NoSynHas, NakSummary
    <2> HIDE DEF nak
    <2>3. ASSUME NEW s \in Seq(Frame), NoSyn(s), NoData(s) \/ connectState[A] = "CONNECTED", \A n : DataOf(s, n),
                 Reply(A, s), f.type # "SYN", UNCHANGED <<connectState, stream, history>>
          PROVE  Done(s)
      <3>1. line'[A] = Tail(line[A]) /\ line'[B] = line[B] \o s
        BY <1>3, <2>3
      <3>2. Numbered(s)
        BY <2>3, NoSynHas
      <3> HIDE DEF f
      <3>3. connectState'[A] = connectState[A] /\ stream'[A] = stream[A] /\ history'[A] = history[A]
        BY <2>3, Zenon
      <3>4. ClientPasses(f, s)
        BY <2>3, <3>3, Zenon DEF ClientPasses
      <3> QED BY <3>1, <3>2, <3>4, Zenon DEF ClientDoes
    <2>4. CASE HandleBad(A)
      <3>1. Reply(A, nak) /\ f.type # "SYN" /\ UNCHANGED <<connectState, stream, history>>
        BY <1>0, <2>4 DEF HandleBad, Arrives, Got, nak
      <3> HIDE DEF f, Done
      <3> QED BY <2>2, <2>3, <3>1, Zenon
    <2>5. CASE DeliverUSR(A) \/ RefuseUSR(A)
      <3>1. /\ Reply(A, <<>>) \/ Reply(A, nak)
            /\ f.type # "SYN" /\ connectState[A] = "CONNECTED" /\ UNCHANGED <<connectState, stream, history>>
        BY <1>0, <2>5 DEF DeliverUSR, RefuseUSR, Accepts, IsData, Arrives, Got, nak
      <3> HIDE DEF f, Done
      <3> QED BY <2>1, <2>2, <2>3, <3>1, Zenon
    <2>6. CASE HandleNAK(A)
      <3>1. /\ f.type # "SYN" /\ connectState[A] = "CONNECTED" /\ UNCHANGED <<connectState, stream>>
            /\ (Reply(A, <<>>) /\ UNCHANGED history) \/ Resynchronize(A, f.seq, <<>>)
        BY <1>0, <2>6 DEF HandleNAK, Arrives, Got
      <3>2. CASE Reply(A, <<>>) /\ UNCHANGED history
        <4> HIDE DEF f, Done
        <4>1. UNCHANGED <<connectState, stream, history>>
          BY <3>1, <3>2
        <4> QED BY <2>1, <2>3, <3>1, <3>2, <4>1, Zenon
      <3>3. CASE Resynchronize(A, f.seq, <<>>)
        <4> HIDE DEF f
        <4>1. PICK r \in Seq(Frame) :
                 /\ line'[A] = Tail(line[A]) /\ line'[B] = line[B] \o (<<>> \o r)
                 /\ NoSyn(r)
                 /\ \A n : OfStream(history[A], n) => (OfStream(history'[A], n) /\ DataOf(r, n))
          BY <1>1, <1>2, <2>1, <3>3, ClientResync
        <4>2. <<>> \o r = r
          OBVIOUS
        <4>3. connectState'[A] = connectState[A] /\ stream'[A] = stream[A]
          BY <3>1, Zenon
        <4>4. ClientPasses(f, r)
          BY <3>1, <4>1, <4>3, Zenon DEF ClientPasses
        <4>5. Numbered(r)
          BY <4>1, NoSynHas, Zenon
        <4> QED BY <4>1, <4>2, <4>4, <4>5, Zenon DEF ClientDoes
      <3> QED BY <3>1, <3>2, <3>3, Zenon
    <2>7. ASSUME NEW k \in {SYN0, SYN1, SYN2, DIS}, Reply(A, <<Control("SYN", k)>>),
                 ClientDoes(f, <<Control("SYN", k)>>)
          PROVE  \E fs \in Seq(Frame) : Done(fs)
      <3> DEFINE s == <<Control("SYN", k)>>
      <3>1. s \in Seq(Frame) /\ Numbered(s) /\ Reply(A, s) /\ ClientDoes(f, s)
        BY <2>7, ShortLines, Zenon
      <3> HIDE DEF s, f
      <3> QED BY <1>3, <3>1, Zenon
    <2>8. CASE HandleNotConnected(A)
      <3> DEFINE k == AnswerOf(connectState[A])
      <3>1. /\ connectState[A] # "CONNECTED" /\ f.type # "SYN"
            /\ Reply(A, <<NotConnectedReply(A)>>) /\ UNCHANGED <<connectState, stream, history>>
        BY <1>0, <2>8 DEF HandleNotConnected, Arrives, Got
      <3>2. NotConnectedReply(A) = Control("SYN", k) /\ k \in {SYN0, SYN1, SYN2, DIS}
        BY <1>4, <3>1 DEF NotConnectedReply, AnswerOf, States
      <3>3. ClientRefuses(f, <<Control("SYN", k)>>)
        BY <3>1, Zenon DEF ClientRefuses, Still
      <3> HIDE DEF f, k, Done
      <3> QED BY <2>7, <3>1, <3>2, <3>3, Zenon DEF ClientDoes
    <2>9. CASE HandleSYN0(A)
      <3>1. Reply(A, <<Control("SYN", SYN1)>>) /\ Syn(f, SYN0)
        BY <1>0, <2>9 DEF HandleSYN0, ArrivesSYN, Arrives, Got, Syn
      <3> HIDE DEF f, Done
      <3> QED BY <2>7, <3>1, Zenon DEF ClientDoes
    <2>10. CASE HandleSYN1(A)
      <3>1. Syn(f, SYN1) /\ UNCHANGED stream
        BY <1>0, <2>10 DEF HandleSYN1, ArrivesSYN, Arrives, Got, Syn
      <3>2. CASE connectState[A] = "DISCONNECTED"
        <4>1. Reply(A, <<Control("SYN", DIS)>>) /\ UNCHANGED <<connectState, history>>
          BY <2>10, <3>2 DEF HandleSYN1, Refused
        <4>2. ClientDeclines(f, <<Control("SYN", DIS)>>)
          BY <3>1, <3>2, <4>1, Zenon DEF ClientDeclines, Still
        <4> HIDE DEF f, Done
        <4> QED BY <2>7, <4>1, <4>2, Zenon DEF ClientDoes
      <3>3. CASE connectState[A] # "DISCONNECTED"
        <4> DEFINE s == <<Control("SYN", SYN2)>>
        <4>1. Connected(A, s)
          BY <2>10, <3>3 DEF HandleSYN1
        <4>2. s \in Seq(Frame) /\ Numbered(s)
          BY ShortLines
        <4>3. connectState'[A] = "CONNECTED"
          BY <1>4, <4>1, BothEnds DEF Connected
        <4>4. \E r \in Seq(Frame) :
                 /\ line'[A] = Tail(line[A]) /\ line'[B] = line[B] \o (s \o r)
                 /\ NoSyn(r)
                 /\ \A n : OfStream(history[A], n) => (OfStream(history'[A], n) /\ DataOf(r, n))
          <5> HIDE DEF s
          <5>1. CASE Reply(A, s) /\ UNCHANGED <<history, txSeq>>
            <6>1. s \o <<>> = s
              BY <4>2
            <6>2. line'[A] = Tail(line[A]) /\ line'[B] = line[B] \o s /\ history'[A] = history[A]
              BY <1>3, <4>2, <5>1
            <6> QED BY <2>1, <6>1, <6>2, Zenon
          <5>2. CASE Resynchronize(A, 0, s)
            <6>1. 0 \in Seq6
              BY NoHistory
            <6> QED BY <1>1, <4>2, <5>2, <6>1, ClientResync
          <5> QED BY <4>1, <5>1, <5>2 DEF Connected
        <4>5. PICK r \in Seq(Frame) :
                 /\ line'[A] = Tail(line[A]) /\ line'[B] = line[B] \o (s \o r)
                 /\ NoSyn(r)
                 /\ \A n : OfStream(history[A], n) => (OfStream(history'[A], n) /\ DataOf(r, n))
          BY <4>4
        <4> HIDE DEF f
        <4>6. stream'[A] = stream[A]
          BY <3>1, Zenon
        <4>7. ClientOpens(f, s \o r)
          BY <3>1, <3>3, <4>3, <4>5, <4>6, Zenon DEF ClientOpens
        <4> HIDE DEF s
        <4>8. Numbered(s \o r) /\ s \o r \in Seq(Frame)
          BY <4>2, <4>5, NoSynHas, NumberedConcat, ConcatLine
        <4> QED BY <4>5, <4>7, <4>8, Zenon DEF ClientDoes
      <3> QED BY <3>2, <3>3, Zenon
    <2>11. CASE HandleSYN2(A)
      <3>1. Syn(f, SYN2)
        BY <1>0, <2>11 DEF HandleSYN2, ArrivesSYN, Arrives, Got, Syn
      <3>2. CASE Refused(A, DIS) \/ Refused(A, SYN0)
        <4>1. Reply(A, <<Control("SYN", DIS)>>) \/ Reply(A, <<Control("SYN", SYN0)>>)
          BY <3>2 DEF Refused
        <4> HIDE DEF f, Done
        <4> QED BY <2>7, <3>1, <4>1, Zenon DEF ClientDoes
      <3>3. CASE Connected(A, <<>>)
        <4>1. CASE Reply(A, <<>>)
          <5> HIDE DEF f
          <5> QED BY <1>3, <2>1, <3>1, <4>1, Zenon DEF ClientDoes
        <4>2. CASE Resynchronize(A, 0, <<>>)
          <5> HIDE DEF f
          <5>1. 0 \in Seq6
            BY NoHistory
          <5>2. PICK r \in Seq(Frame) : /\ line'[A] = Tail(line[A]) /\ line'[B] = line[B] \o (<<>> \o r)
                                        /\ NoSyn(r)
            BY <1>1, <2>1, <4>2, <5>1, ClientResync
          <5>3. <<>> \o r = r /\ Numbered(r)
            BY <5>2, NoSynHas
          <5> QED BY <3>1, <5>2, <5>3, Zenon DEF ClientDoes
        <4> QED BY <3>3, <4>1, <4>2 DEF Connected
      <3> QED BY <2>11, <3>2, <3>3 DEF HandleSYN2
    <2>12. CASE HandleDIS(A)
      <3>1. Syn(f, DIS) /\ Reply(A, <<>>) /\ UNCHANGED <<stream, history>>
        BY <1>0, <2>12 DEF HandleDIS, ArrivesSYN, Arrives, Got, Syn
      <3>2. connectState'[A] = "DISCONNECTED"
        BY <1>4, <2>12, BothEnds DEF HandleDIS
      <3> HIDE DEF f
      <3>3. ClientCloses(f, <<>>)
        BY <3>1, <3>2, Zenon DEF ClientCloses
      <3> QED BY <1>3, <2>1, <3>1, <3>3, Zenon DEF ClientDoes
    <2> HIDE DEF Done, f
    <2> QED BY <2>1, <2>2, <2>4, <2>5, <2>6, <2>8, <2>9, <2>10, <2>11, <2>12, Zenon DEF sfpHandleFrame
  <1> QED BY <1>1, <1>5, <1>6

-----------------------------------------------------------------------------
(* Types, and the agreement of server and link.                            *)

\* What holds of types and agreement at once: between two rounds of deliveries
\* server and link agree.
Settled == RobotTypes /\ (pc # "deliver" => Agree(Context))

\* It holds initially, ...
LEMMA SettledInit ==
  ASSUME ServerInit
  PROVE  Settled
  <1>1. TypeOK
    BY TypeInit DEF ServerInit
  <1>2. line[B] = <<>> /\ connectState[B] = "DISCONNECTED"
    BY BothEnds DEF ServerInit, Init
  <1>3. Numbered(line[B]) /\ 0 <= Len(line[B])
    BY <1>2, ShortLines, NoSynHas
  <1>4. 0 \in 0 .. MAX_DROPS
    BY ServerAssumption
  <1>5. RobotTypes
    BY <1>1, <1>3, <1>4, EmptyTable DEF ServerInit, RobotTypes
  <1>6. Agree(Context)
    BY <1>2, <1>5, ContextFields DEF Agree, ServerInit
  <1> QED BY <1>5, <1>6 DEF Settled

\* The context of the next state.
LEMMA ContextNext ==
  ASSUME RobotTypes'
  PROVE  /\ Context'.connectState = connectState'[B] /\ Context'.state = state'
  BY DEF Context

\* The client appends frames to the robot's line and lets the robot alone.
LEMMA ClientStep ==
  ASSUME RobotTypes, ClientConnects \/ ClientGivesUp \/ ClientWrites \/ ClientReceives
  PROVE  /\ RobotTypes'
         /\ connectState'[B] = connectState[B] /\ last'[B] = last[B]
         /\ UNCHANGED <<state, subs, expired, fresh, pc, left, torn, drops>>
         /\ \E fs \in Seq(Frame) : line'[B] = line[B] \o fs
  <1>1. TypeOK
    BY DEF RobotTypes
  <1>2. /\ connectState \in [Endpoints -> States] /\ last \in [Endpoints -> Packet]
        /\ line \in [Endpoints -> Seq(Frame)] /\ line[B] \in Seq(Frame)
    BY <1>1, BothEnds DEF TypeOK, States
  <1>3. UNCHANGED <<state, subs, expired, fresh, pc, left, torn, drops>>
    BY DEF ClientConnects, ClientGivesUp, ClientWrites, ClientReceives, srvVars
  <1>4. dropped' \in BOOLEAN
    <2>1. dropped' = FALSE \/ dropped' = dropped
      BY Zenon DEF ClientConnects, ClientGivesUp, ClientWrites, ClientReceives, srvVars
    <2> QED BY <2>1, Zenon DEF RobotTypes
  <1>5. /\ TypeOK' /\ connectState'[B] = connectState[B] /\ last'[B] = last[B]
        /\ \E fs \in Seq(Frame) : line'[B] = line[B] \o fs /\ Numbered(fs)
    <2>1. CASE ClientConnects
      <3>1. sfpConnect(A)
        BY <2>1 DEF ClientConnects
      <3>2. TypeOK'
        BY <1>1, <3>1, BothEnds, TypeConnect
      <3>3. connectState'[B] = connectState[B] /\ last'[B] = last[B]
        BY <1>2, <3>1, BothEnds DEF sfpConnect, StartOver
      <3> DEFINE f == Control("SYN", SYN0)
      <3>4. line'[B] = Append(line[B], f)
        BY <1>2, <3>1, BothEnds DEF sfpConnect
      <3>5. f \in Frame
        BY SynNumbers, ControlFrame
      <3>6. <<f>> \in Seq(Frame) /\ Numbered(<<f>>)
        BY ShortLines
      <3> HIDE DEF f
      <3>7. line'[B] = line[B] \o <<f>>
        BY <1>2, <3>4, <3>5, AppendConcat
      <3> QED BY <3>2, <3>3, <3>6, <3>7
    <2>2. CASE ClientGivesUp
      <3>1. sfpInit(A)
        BY <2>2 DEF ClientGivesUp
      <3>2. TypeOK'
        BY <1>1, <3>1, BothEnds, TypeConnect
      <3>3. connectState'[B] = connectState[B] /\ last'[B] = last[B] /\ line'[B] = line[B]
        BY <1>2, <3>1, BothEnds DEF sfpInit, StartOver
      <3>4. line[B] = line[B] \o <<>> /\ <<>> \in Seq(Frame) /\ Numbered(<<>>)
        BY <1>2, ShortLines, NoSynHas
      <3> QED BY <3>2, <3>3, <3>4
    <2>3. CASE ClientWrites
      <3>1. sfpWritePacket(A)
        BY <2>3 DEF ClientWrites
      <3>2. TypeOK'
        BY <1>1, <3>1, BothEnds, TypeWrite
      <3>3. connectState'[B] = connectState[B] /\ last'[B] = last[B]
        BY <3>1 DEF sfpWritePacket
      <3> DEFINE p == [stream |-> stream[A], num |-> written[A] + 1]
                 f == [type |-> "USR", seq |-> txSeq[A], packet |-> p]
      <3>4. line'[B] = Append(line[B], f)
        BY <1>2, <3>1, BothEnds DEF sfpWritePacket
      <3>5. f \in Frame /\ f.type # "SYN"
        BY <1>1, BothEnds DEF TypeOK, Packet, Frame
      <3> HIDE DEF f
      <3>6. <<f>> \in Seq(Frame) /\ Numbered(<<f>>)
        BY <3>5, OneFrame DEF Numbered
      <3>7. line'[B] = line[B] \o <<f>>
        BY <1>2, <3>4, <3>5, AppendConcat
      <3> QED BY <3>2, <3>3, <3>6, <3>7
    <2>4. CASE ClientReceives
      <3>1. sfpHandleFrame(A)
        BY <2>4 DEF ClientReceives
      <3>2. TypeOK'
        BY <1>1, <3>1, BothEnds, TypeHandle
      <3> QED BY <1>1, <3>1, <3>2, ClientHandles
    <2> QED BY <2>1, <2>2, <2>3, <2>4
  <1>6. PICK fs \in Seq(Frame) : line'[B] = line[B] \o fs /\ Numbered(fs)
    BY <1>5
  <1>7. Numbered(line[B])' /\ left' <= Len(line'[B])
    <2>1. Numbered(line[B] \o fs)
      BY <1>2, <1>6, NumberedConcat DEF RobotTypes
    <2>2. left \in Nat /\ left <= Len(line[B]) /\ left' = left /\ Len(fs) \in Nat /\ Len(line[B]) \in Nat
      BY <1>2, <1>3 DEF RobotTypes
    <2>3. Len(line[B] \o fs) = Len(line[B]) + Len(fs)
      BY <1>2
    <2> QED BY <1>6, <2>1, <2>2, <2>3
  <1>8. RobotTypes'
    BY <1>3, <1>4, <1>5, <1>7 DEF RobotTypes
  <1> QED BY <1>3, <1>5, <1>8

\* Steps that only the thread or the clock takes: the link, the line and the
\* server's state stay as they are.
LEMMA IdleStep ==
  ASSUME Settled,
         ServerWake \/ HeartbeatExpires \/ ServerEnds \/ serverStart \/ UNCHANGED allVars
  PROVE  /\ Settled'
         /\ UNCHANGED <<vars, state, subs, dropped>>
         /\ (pc' = "deliver") => (left' = left /\ pc = "deliver") \/ pc = "asleep"
         /\ pc = "deliver" => pc' = "deliver"
  <1>1. /\ UNCHANGED <<vars, state, subs, dropped, torn>>
        /\ (pc' = "deliver") => (left' = left /\ pc = "deliver") \/ pc = "asleep"
        /\ pc = "deliver" => pc' = "deliver"
    BY DEF ServerWake, HeartbeatExpires, ServerEnds, serverStart, allVars, srvVars, Drop, Settled, RobotTypes
  <1>2. TypeOK'
    <2>1. TypeOK /\ UNCHANGED vars
      BY <1>1 DEF Settled, RobotTypes
    <2> QED BY <2>1 DEF vars, TypeOK
  <1>3. line[B] \in Seq(Frame) /\ line' = line /\ connectState' = connectState
    BY <1>1, BothEnds DEF vars, Settled, RobotTypes, TypeOK
  <1>4. left' \in Nat /\ left' <= Len(line[B])
    <2>1. Len(line[B]) \in Nat /\ left \in Nat /\ left <= Len(line[B])
      BY <1>3 DEF Settled, RobotTypes
    <2>2. left' = left \/ left' \in 0 .. Len(line[B])
      BY DEF ServerWake, HeartbeatExpires, ServerEnds, serverStart, allVars, srvVars
    <2> QED BY <2>1, <2>2
  <1>5. /\ pc' \in {"asleep", "deliver", "publish", "ended"}
        /\ drops' \in 0 .. MAX_DROPS
    <2>1. drops' = drops \/ (drops < MAX_DROPS /\ drops' = drops + 1)
      BY DEF ServerWake, HeartbeatExpires, ServerEnds, serverStart, allVars, srvVars, Drop
    <2>2. pc' = pc \/ pc' \in {"asleep", "deliver", "ended"}
      BY DEF ServerWake, HeartbeatExpires, ServerEnds, serverStart, allVars, srvVars
    <2> QED BY <2>1, <2>2, ServerAssumption DEF Settled, RobotTypes
  <1>6. expired' \in BOOLEAN /\ fresh' \in BOOLEAN
    <2>1. (expired' = expired \/ expired' = TRUE \/ expired' = FALSE) /\ (fresh' = fresh \/ fresh' = FALSE)
      BY Zenon DEF ServerWake, HeartbeatExpires, ServerEnds, serverStart, allVars, srvVars
    <2> QED BY <2>1, Zenon DEF Settled, RobotTypes
  <1>7. dropped' \in BOOLEAN /\ torn' \in BOOLEAN
    BY <1>1, Zenon DEF Settled, RobotTypes
  <1>8. subs' \in Tables /\ Numbered(line[B])' /\ state' \in {"Connected", "Disconnected"}
    BY <1>1, <1>3 DEF Settled, RobotTypes
  <1>9. RobotTypes'
    BY <1>2, <1>3, <1>4, <1>5, <1>6, <1>7, <1>8, Zenon DEF RobotTypes
  <1>10. pc' # "deliver" => Agree(Context)'
    <2>1. pc' # "deliver" => Agree(Context)
      BY <1>1 DEF Settled
    <2>2. Context'.connectState = Context.connectState /\ Context'.state = Context.state
      BY <1>1, <1>3, <1>9, ContextFields, ContextNext DEF Settled
    <2> QED BY <2>1, <2>2 DEF Agree
  <1> QED BY <1>1, <1>9, <1>10 DEF Settled

\* ... and every step keeps it.
LEMMA SettledNext ==
  ASSUME Settled, [ServerNext]_allVars
  PROVE  Settled'
  <1>1. RobotTypes /\ (pc # "deliver" => Agree(Context))
    BY DEF Settled
  <1>2. CASE ServerDeliver
    <2>1. RobotTypes' /\ pc = "deliver"
      BY <1>1, <1>2, DeliverStep
    <2>2. pc' = pc
      BY <1>2 DEF ServerDeliver
    <2> QED BY <2>1, <2>2 DEF Settled
  <1>3. CASE ServerCheck \/ ServerLoop
    <2>1. ServerCheck \/ (ServerLoop /\ Agree(Context))
      BY <1>1, <1>3 DEF ServerLoop
    <2>2. RobotTypes'
      BY <1>1, <2>1, LoopStep
    <2>3. PICK s \in Ctx : Agree(s) /\ Become(s, 0)
      BY <1>1, <2>1, LoopStep
    <2>4. 0 \in {0, 1} /\ 0 # 1
      OBVIOUS
    <2>5. connectState'[B] = s.connectState /\ state' = s.state
      BY <1>1, <2>3, <2>4, BecomeEffect, Zenon
    <2>6. Agree(Context)'
      BY <2>2, <2>3, <2>5, ContextNext DEF Agree
    <2> QED BY <2>2, <2>6 DEF Settled
  <1>4. CASE ClientConnects \/ ClientGivesUp \/ ClientWrites \/ ClientReceives
    <2>1. RobotTypes' /\ connectState'[B] = connectState[B] /\ state' = state /\ pc' = pc
      BY <1>1, <1>4, ClientStep
    <2>2. Context'.connectState = Context.connectState /\ Context'.state = Context.state
      BY <1>1, <2>1, ContextFields, ContextNext
    <2> QED BY <1>1, <2>1, <2>2 DEF Settled, Agree
  <1>5. CASE ServerWake \/ HeartbeatExpires \/ ServerEnds \/ serverStart \/ UNCHANGED allVars
    BY <1>5, IdleStep
  <1> QED BY <1>2, <1>3, <1>4, <1>5 DEF ServerNext

\* Types and agreement are an invariant of the server on its link.
LEMMA SettledAlways ==
  ServerSpec => []Settled
  <1>1. ServerInit => Settled
    BY SettledInit
  <1>2. Settled /\ [ServerNext]_allVars => Settled'
    BY SettledNext
  <1> QED BY <1>1, <1>2, PTL DEF ServerSpec

\* Every variable of the server keeps its type, whatever the link's callbacks do
\* in the middle of its handlers: the table of subscriptions has SUB_MAX slots and
\* every active one holds a request id, a topic and the stream it was asked for on.
THEOREM ServerTypesCorrect == ServerSpec => []ServerTypeOK
  <1>1. Settled => ServerTypeOK
    BY RobotTypesOK DEF Settled
  <1> QED BY <1>1, SettledAlways, PTL

\* When the server's thread sleeps, the server believes in a connection if and only
\* if the link does, for every heart beat, every message and any size of history
\* and table: serverCheckConnection repairs every disagreement a handler leaves.
THEOREM ServerFollowsTheLink == ServerSpec => []ServerFollowsLink
  <1>1. Settled => ServerFollowsLink
    <2> SUFFICES ASSUME Settled, pc = "asleep"
                 PROVE  state = "Connected" <=> connectState[B] = "CONNECTED"
      BY DEF ServerFollowsLink
    <2>1. RobotTypes /\ Agree(Context)
      BY DEF Settled
    <2> QED BY <2>1, ContextFields DEF Agree
  <1> QED BY <1>1, SettledAlways, PTL

-----------------------------------------------------------------------------
(* The connection, when the client connects only while the line is quiet.  *)

\* A line behind its head has what the line has, but for the head.
LEMMA BehindHead ==
  ASSUME NEW q \in Seq(Frame), q # <<>>
  PROVE  /\ \A n : (Has(q, n) /\ ~ Syn(Head(q), n)) => Has(Tail(q), n)
         /\ (~ NoData(q) /\ ~ Data(Head(q))) => ~ NoData(Tail(q))
         /\ \A n : DataOf(q, n) => DataOf(Tail(q), n)
         /\ \A n : (DataOf(q, n) /\ Data(Head(q))) => Head(q).packet.stream = n
  <1>1. Len(q) \in Nat /\ Len(Tail(q)) = Len(q) - 1 /\ Head(q) = q[1]
        /\ \A i \in 1 .. Len(Tail(q)) : Tail(q)[i] = q[i + 1]
    OBVIOUS
  <1>2. ASSUME NEW f \in Frame, In(q, f), f # Head(q)
        PROVE  In(Tail(q), f)
    <2>1. PICK i \in 1 .. Len(q) : q[i] = f
      BY <1>2 DEF In
    <2>2. i # 1 /\ i - 1 \in 1 .. Len(Tail(q)) /\ (i - 1) + 1 = i
      BY <1>1, <1>2, <2>1
    <2>3. Tail(q)[i - 1] = f
      BY <1>1, <2>1, <2>2
    <2> QED BY <2>2, <2>3 DEF In
  <1>3. \A n : (Has(q, n) /\ ~ Syn(Head(q), n)) => Has(Tail(q), n)
    BY <1>2, Zenon DEF Has
  <1>4. (~ NoData(q) /\ ~ Data(Head(q))) => ~ NoData(Tail(q))
    BY <1>2, Zenon DEF NoData
  <1>5. \A n : DataOf(q, n) => DataOf(Tail(q), n)
    BY TailLine, Zenon DEF DataOf
  <1>6. \A n : (DataOf(q, n) /\ Data(Head(q))) => Head(q).packet.stream = n
    BY TailLine, Zenon DEF DataOf
  <1> QED BY <1>3, <1>4, <1>5, <1>6

\* What has been sent besides what the line had before.
LEMMA SentBesides ==
  ASSUME NEW s \in Ctx, NEW t \in Ctx, Plainly(s, t)
  PROVE  \A n : Has(t.out, n) <=> Has(s.out, n)
  <1>1. s.out \in Seq(Frame) /\ t.out \in Seq(Frame)
    BY DEF Ctx
  <1>2. ASSUME NEW n, Has(t.out, n)
        PROVE  Has(s.out, n)
    BY <1>2, Zenon DEF Has, Syn, Plainly
  <1>3. ASSUME NEW n, Has(s.out, n)
        PROVE  Has(t.out, n)
    BY <1>3, Zenon DEF Has, Syn, Plainly
  <1> QED BY <1>2, <1>3, Zenon

\* The client never waits for a SYN2 and the robot never for a SYN1, each SYN
\* travels one way only.
OneWay ==
  /\ connectState[A] # "SENT_SYN1" /\ connectState[B] # "SENT_SYN0"
  /\ ~ Has(line[B], SYN1) /\ ~ Has(line[A], SYN0) /\ ~ Has(line[A], SYN2)

\* All data on the way to the robot, and all that the client may send again,
\* is from the client's stream.
OneStream ==
  /\ stream[A] \in Nat /\ stream[A] >= 1
  /\ OfStream(history[A], stream[A]) /\ DataOf(line[B], stream[A])

\* While a connection is up or coming up, what the robot has been delivered since
\* its receiver started over is from the client's stream.
Underway == \/ connectState[A] = "CONNECTED" \/ connectState[B] = "SENT_SYN1"
            \/ Has(line[A], SYN1) \/ Has(line[B], SYN2) \/ ~ NoData(line[B])
OneDelivery ==
  /\ Underway => (last[B] = NoPacket \/ last[B].stream = stream[A])
  /\ connectState[B] = "SENT_SYN1" => last[B] = NoPacket

\* Ahead of a SYN0 nothing is left of an earlier connection, nor is anything on
\* the line of a client that waits for the answer to one.
NothingAhead ==
  /\ Pure(line[B])
  /\ connectState[A] = "SENT_SYN0" => (~ Has(line[B], SYN2) /\ NoData(line[B]))
  /\ (connectState[B] = "CONNECTED" /\ (Has(line[B], SYN0) \/ connectState[A] = "SENT_SYN0"))
       => (~ Has(line[B], SYN2) /\ ~ Has(line[A], SYN1))
  /\ connectState[A] # "DISCONNECTED" => ~ Has(line[B], DIS)

\* A client that wrongly believes in a connection the server has not given up by
\* itself will be told so, or the robot will be connected: something is under way.
Told ==
  (connectState[A] = "CONNECTED" /\ ~ dropped /\ connectState[B] # "CONNECTED")
    => (Has(line[B], SYN2) \/ Has(line[A], SYN1) \/ Has(line[A], DIS) \/ ~ NoData(line[B]))

Session == OneWay /\ OneStream /\ OneDelivery /\ NothingAhead /\ Told

\* A line that has lost its head.
LEMMA TakenSummary ==
  ASSUME NEW q \in Seq(Frame), q # <<>>, NEW t, t = Tail(q), NEW f, f = Head(q)
  PROVE  /\ \A n : Has(t, n) => Has(q, n)
         /\ \A n : (Has(q, n) /\ ~ Syn(f, n)) => Has(t, n)
         /\ NoData(q) => NoData(t)
         /\ (NoData(t) /\ ~ Data(f)) => NoData(q)
         /\ Pure(q) => Pure(t)
         /\ \A n : DataOf(q, n) => DataOf(t, n)
         /\ \A n : (DataOf(q, n) /\ Data(f)) => f.packet.stream = n
  <1>1. \A n : Has(t, n) => Has(q, n)
    BY TailLine, Zenon DEF Has
  <1> QED BY <1>1, BehindHead, TailSummary, Zenon

\* A line that has been sent on.
LEMMA LongerSummary ==
  ASSUME NEW q \in Seq(Frame), NEW r \in Seq(Frame), NEW t, t = q \o r
  PROVE  /\ \A n : Has(t, n) <=> (Has(q, n) \/ Has(r, n))
         /\ NoData(t) <=> (NoData(q) /\ NoData(r))
         /\ (Pure(q) /\ Pure(r) /\ ~ Has(r, SYN0)) => Pure(t)
         /\ (Pure(q) /\ Pure(r) /\ NoData(q) /\ ~ Has(q, SYN1) /\ ~ Has(q, SYN2) /\ ~ Has(q, DIS))
              => Pure(t)
         /\ \A n : (DataOf(q, n) /\ DataOf(r, n)) => DataOf(t, n)
  <1>1. \A n : (DataOf(q, n) /\ DataOf(r, n)) => DataOf(t, n)
    BY ConcatLine, Zenon DEF DataOf
  <1> QED BY <1>1, ConcatSummary, Zenon

\* Frames without a SYN0 are pure.
LEMMA NoSynPure ==
  ASSUME NEW q, ~ Has(q, SYN0)
  PROVE  Pure(q)
  BY BeforeIn, Zenon DEF Pure, Has

\* What a client's line to the robot keeps when a frame has been handled.
LEMMA ClientHears ==
  ASSUME RobotTypes, Session, line[A] # <<>>, line'[A] = Tail(line[A]),
         NEW fs \in Seq(Frame), line'[B] = line[B] \o fs, ClientDoes(Head(line[A]), fs),
         connectState'[B] = connectState[B], last'[B] = last[B], dropped' = dropped
  PROVE  Session'
  <1> DEFINE f == Head(line[A])
  <1>1. line[A] \in Seq(Frame) /\ line[B] \in Seq(Frame)
    BY BothEnds DEF RobotTypes, TypeOK
  <1>2. /\ \A n : Has(line'[A], n) => Has(line[A], n)
        /\ \A n : (Has(line[A], n) /\ ~ Syn(f, n)) => Has(line'[A], n)
    BY <1>1, TakenSummary, Zenon
  <1>3. /\ \A n : Has(line'[B], n) <=> (Has(line[B], n) \/ Has(fs, n))
        /\ NoData(line'[B]) <=> (NoData(line[B]) /\ NoData(fs))
        /\ (Pure(line[B]) /\ Pure(fs) /\ ~ Has(fs, SYN0)) => Pure(line'[B])
        /\ (/\ Pure(line[B]) /\ Pure(fs) /\ NoData(line[B])
            /\ ~ Has(line[B], SYN1) /\ ~ Has(line[B], SYN2) /\ ~ Has(line[B], DIS)) => Pure(line'[B])
        /\ \A n : (DataOf(line[B], n) /\ DataOf(fs, n)) => DataOf(line'[B], n)
    BY <1>1, LongerSummary, Zenon
  <1>4. OneWay /\ OneStream /\ OneDelivery /\ NothingAhead /\ Told
    BY Zenon DEF Session
  <1>5. /\ \A n : Syn(f, n) => Has(line[A], n)
        /\ \A n, m : (Syn(f, n) /\ Syn(f, m)) => n = m
    BY <1>1, HeadSummary, Zenon DEF Syn
  <1>6. SYN0 # SYN1 /\ SYN0 # SYN2 /\ SYN0 # DIS /\ SYN1 # SYN2 /\ SYN1 # DIS /\ SYN2 # DIS
    BY DEF SYN0, SYN1, SYN2, DIS
  <1> HIDE DEF f
  <1>7. CASE ClientPasses(f, fs)
    <2>1. /\ \A n : ~ Has(fs, n)
          /\ \A n : ~ Syn(f, n)
          /\ (connectState[A] # "CONNECTED" => NoData(fs))
          /\ connectState'[A] = connectState[A] /\ stream'[A] = stream[A]
          /\ \A n : OfStream(history[A], n) => (OfStream(history'[A], n) /\ DataOf(fs, n))
      BY <1>7, NoSynHas, Zenon DEF ClientPasses, Syn
    <2>2. OneWay'
      BY <1>2, <1>3, <1>4, <2>1, Zenon DEF OneWay
    <2>3. OneStream'
      BY <1>3, <1>4, <2>1, Zenon DEF OneStream
    <2>4. OneDelivery'
      BY <1>2, <1>3, <1>4, <2>1, Zenon DEF OneDelivery, Underway
    <2>5. NothingAhead'
      BY <1>2, <1>3, <1>4, <2>1, NoSynPure, Zenon DEF NothingAhead
    <2>6. Told'
      BY <1>2, <1>3, <1>4, <2>1, Zenon DEF Told
    <2> QED BY <2>2, <2>3, <2>4, <2>5, <2>6 DEF Session
  <1>8. ASSUME Still, connectState[A] # "CONNECTED", fs = <<Control("SYN", AnswerOf(connectState[A]))>>
        PROVE  Session'
    <2>1. /\ connectState[A] = "DISCONNECTED" => AnswerOf(connectState[A]) = DIS
          /\ connectState[A] = "SENT_SYN0" => AnswerOf(connectState[A]) = SYN0
          /\ connectState[A] \in {"DISCONNECTED", "SENT_SYN0"}
      <3>1. connectState[A] \in States
        BY BothEnds DEF RobotTypes, TypeOK, States
      <3> QED BY <1>4, <1>8, <3>1 DEF OneWay, AnswerOf, States
    <2>2. /\ NoData(fs) /\ Pure(fs) /\ \A n : DataOf(fs, n)
          /\ \A n : Has(fs, n) <=> n = AnswerOf(connectState[A])
      <3>1. AnswerOf(connectState[A]) \in {SYN0, SYN1, SYN2, DIS} /\ AnswerOf(connectState[A]) \in Seq6
        BY <2>1, SynNumbers
      <3> QED BY <1>8, <3>1, SynSummary, ShortLines, Zenon
    <2>3. OneWay'
      BY <1>2, <1>3, <1>4, <1>6, <1>8, <2>1, <2>2 DEF OneWay, Still
    <2>4. OneStream'
      BY <1>3, <1>4, <1>8, <2>2, Zenon DEF OneStream, Still
    <2>5. OneDelivery'
      BY <1>2, <1>3, <1>4, <1>6, <1>8, <2>1, <2>2 DEF OneDelivery, Underway, Still
    <2>6. NothingAhead'
      <3>1. CASE connectState[A] = "DISCONNECTED"
        BY <1>2, <1>3, <1>4, <1>6, <1>8, <2>1, <2>2, <3>1 DEF NothingAhead, Still
      <3>2. CASE connectState[A] = "SENT_SYN0"
        BY <1>2, <1>3, <1>4, <1>6, <1>8, <2>1, <2>2, <3>2 DEF NothingAhead, OneWay, Still
      <3> QED BY <2>1, <3>1, <3>2
    <2>7. Told'
      BY <1>8, Zenon DEF Told, Still
    <2> QED BY <2>3, <2>4, <2>5, <2>6, <2>7 DEF Session
  <1>9. CASE ClientRefuses(f, fs) \/ ClientDeclines(f, fs)
    <2>1. /\ Still /\ connectState[A] # "CONNECTED"
          /\ fs = <<Control("SYN", AnswerOf(connectState[A]))>>
      BY <1>9 DEF ClientRefuses, ClientDeclines, AnswerOf
    <2> QED BY <1>2, <1>8, <2>1, Zenon
  <1>10. CASE ClientOpens(f, fs)
    <2>1. /\ Syn(f, SYN1) /\ connectState[A] # "DISCONNECTED"
          /\ connectState'[A] = "CONNECTED" /\ stream'[A] = stream[A]
      BY <1>10 DEF ClientOpens
    <2>2. PICK r \in Seq(Frame) :
            /\ fs = <<Control("SYN", SYN2)>> \o r /\ NoSyn(r)
            /\ \A n : OfStream(history[A], n) => (OfStream(history'[A], n) /\ DataOf(r, n))
      BY <1>10, Zenon DEF ClientOpens
    <2>3. /\ \A n : Has(fs, n) <=> n = SYN2
          /\ \A n : DataOf(r, n) => DataOf(fs, n)
      <3> DEFINE s == <<Control("SYN", SYN2)>>
      <3>1. s \in Seq(Frame) /\ (\A n : DataOf(s, n)) /\ \A n : Has(s, n) <=> n = SYN2
        BY SynNumbers, SynSummary, ShortLines
      <3>2. fs = s \o r /\ \A n : ~ Has(r, n)
        BY <2>2, NoSynHas
      <3> HIDE DEF s
      <3>3. /\ \A n : Has(fs, n) <=> (Has(s, n) \/ Has(r, n))
            /\ \A n : (DataOf(s, n) /\ DataOf(r, n)) => DataOf(fs, n)
        BY <3>1, <3>2, LongerSummary, Zenon
      <3> QED BY <3>1, <3>2, <3>3, Zenon
    <2>4. Has(fs, SYN2) /\ ~ Has(fs, SYN0) /\ ~ Has(fs, SYN1) /\ ~ Has(fs, DIS) /\ Pure(fs)
      BY <1>6, <2>3, NoSynPure
    <2>5. Has(line[A], SYN1)
      BY <1>5, <2>1, Zenon
    <2>6. OneWay'
      BY <1>2, <1>3, <1>4, <2>1, <2>4 DEF OneWay
    <2>7. OneStream'
      BY <1>3, <1>4, <2>1, <2>2, <2>3, Zenon DEF OneStream
    <2>8. OneDelivery'
      BY <1>4, <2>1, <2>5, Zenon DEF OneDelivery, Underway
    <2>9. NothingAhead'
      BY <1>2, <1>3, <1>4, <2>1, <2>4, <2>5 DEF NothingAhead
    <2>10. Told'
      BY <1>3, <2>4, Zenon DEF Told
    <2> QED BY <2>6, <2>7, <2>8, <2>9, <2>10 DEF Session
  <1>11. CASE ClientCloses(f, fs)
    <2>1. /\ Syn(f, DIS) /\ connectState'[A] = "DISCONNECTED" /\ fs = <<>>
          /\ stream'[A] = stream[A] /\ history'[A] = history[A]
      BY <1>11 DEF ClientCloses
    <2>2. line'[B] = line[B]
      BY <1>1, <2>1
    <2>3. OneWay'
      BY <1>2, <1>4, <2>1, <2>2 DEF OneWay
    <2>4. OneStream'
      BY <1>4, <2>1, <2>2, Zenon DEF OneStream
    <2>5. OneDelivery'
      BY <1>2, <1>4, <2>1, <2>2 DEF OneDelivery, Underway
    <2>6. NothingAhead'
      BY <1>2, <1>4, <2>1, <2>2 DEF NothingAhead
    <2>7. Told'
      BY <2>1 DEF Told
    <2> QED BY <2>3, <2>4, <2>5, <2>6, <2>7 DEF Session
  <1>12. ~ Syn(f, SYN0) /\ ~ Syn(f, SYN2)
    BY <1>4, <1>5, Zenon DEF OneWay
  <1> QED BY <1>7, <1>9, <1>10, <1>11, <1>12, Zenon DEF ClientDoes, f

\* The client connects or gives up, with nothing on the line.
LEMMA ClientStarts ==
  ASSUME RobotTypes, Session, Careful, ClientConnects \/ ClientGivesUp
  PROVE  Session'
  <1>1. /\ connectState \in [Endpoints -> States] /\ last \in [Endpoints -> Packet]
        /\ line \in [Endpoints -> Seq(Frame)] /\ stream \in [Endpoints -> Nat]
        /\ history \in [Endpoints -> Seq(Packet)]
    BY DEF RobotTypes, TypeOK, States
  <1>2. line[A] = <<>> /\ line[B] = <<>> /\ StartOver(A)
    BY BothEnds DEF ClientConnects, ClientGivesUp, sfpConnect, sfpInit, Start
  <1>3. /\ stream'[A] = stream[A] + 1 /\ history'[A] = <<>> /\ last'[B] = last[B]
    BY <1>1, <1>2, BothEnds DEF StartOver
  <1>4. OneWay /\ OneStream /\ OneDelivery /\ NothingAhead /\ Told
    BY Zenon DEF Session
  <1>5. OfStream(history'[A], stream'[A]) /\ stream'[A] \in Nat /\ stream'[A] >= 1
    <2>1. stream[A] \in Nat
      BY <1>1, BothEnds
    <2> QED BY <1>3, <2>1 DEF OfStream
  <1>6. SYN0 # SYN1 /\ SYN0 # SYN2 /\ SYN0 # DIS /\ SYN0 \in Seq6
    BY SynNumbers
  <1>7. CASE ClientConnects
    <2> DEFINE c == Control("SYN", SYN0)
    <2>1. /\ connectState'[A] = "SENT_SYN0" /\ connectState'[B] = connectState[B]
          /\ line'[A] = <<>> /\ line'[B] = Append(<<>>, c)
      BY <1>1, <1>2, <1>7, BothEnds DEF ClientConnects, sfpConnect
    <2>2. line'[B] = <<c>>
      BY <2>1
    <2>3. /\ \A n : Has(line'[B], n) <=> n = SYN0
          /\ NoData(line'[B]) /\ Pure(line'[B]) /\ \A n : DataOf(line'[B], n)
      BY <1>6, <2>2, SynSummary, ShortLines
    <2>4. \A n : ~ Has(line'[A], n)
      BY <2>1, EmptySummary
    <2> HIDE DEF c
    <2>5. OneWay'
      BY <1>4, <1>6, <2>1, <2>3, <2>4 DEF OneWay
    <2>6. OneStream'
      BY <1>5, <2>3, Zenon DEF OneStream
    <2>7. OneDelivery'
      BY <1>3, <1>4, <1>6, <2>1, <2>3, <2>4 DEF OneDelivery, Underway
    <2>8. NothingAhead'
      BY <1>6, <2>1, <2>3, <2>4 DEF NothingAhead
    <2>9. Told'
      BY <2>1 DEF Told
    <2> QED BY <2>5, <2>6, <2>7, <2>8, <2>9 DEF Session
  <1>8. CASE ClientGivesUp
    <2>1. /\ connectState'[A] = "DISCONNECTED" /\ connectState'[B] = connectState[B]
          /\ line'[A] = <<>> /\ line'[B] = <<>>
      BY <1>1, <1>2, <1>8, BothEnds DEF ClientGivesUp, sfpInit
    <2>2. /\ \A n : ~ Has(<<>>, n)
          /\ NoData(<<>>) /\ Pure(<<>>) /\ \A n : DataOf(<<>>, n)
      BY EmptySummary, ShortLines
    <2>3. OneWay'
      BY <1>4, <2>1, <2>2 DEF OneWay
    <2>4. OneStream'
      BY <1>5, <2>1, <2>2, Zenon DEF OneStream
    <2>5. OneDelivery'
      BY <1>3, <1>4, <2>1, <2>2 DEF OneDelivery, Underway
    <2>6. NothingAhead'
      BY <2>1, <2>2 DEF NothingAhead
    <2>7. Told'
      BY <2>1 DEF Told
    <2> QED BY <2>3, <2>4, <2>5, <2>6, <2>7 DEF Session
  <1> QED BY <1>7, <1>8

\* The client writes a packet from its stream.
LEMMA ClientWritesOn ==
  ASSUME RobotTypes, Session, ClientWrites
  PROVE  Session'
  <1>1. TypeOK /\ sfpWritePacket(A)
    BY DEF RobotTypes, ClientWrites
  <1>2. /\ line \in [Endpoints -> Seq(Frame)] /\ line[A] \in Seq(Frame) /\ line[B] \in Seq(Frame)
        /\ history[A] \in Seq(Packet) /\ stream[A] \in Nat /\ written[A] \in Nat /\ txSeq[A] \in Seq6
        /\ history \in [Endpoints -> Seq(Packet)]
    BY <1>1, BothEnds DEF TypeOK
  <1> DEFINE p == [stream |-> stream[A], num |-> written[A] + 1]
             f == [type |-> "USR", seq |-> txSeq[A], packet |-> p]
             h == history[A]
  <1>3. /\ connectState[A] = "CONNECTED" /\ connectState' = connectState
        /\ last' = last /\ stream' = stream
        /\ history'[A] = PushBack(h, p)
        /\ line'[A] = line[A] /\ line'[B] = Append(line[B], f)
    BY <1>1, <1>2, BothEnds DEF sfpWritePacket
  <1>4. f \in Frame /\ f.packet.stream = stream[A] /\ Data(f) /\ p \in Packet /\ p.stream = stream[A]
    BY <1>2 DEF Packet, Frame, Data
  <1>5. OneWay /\ OneStream /\ OneDelivery /\ NothingAhead /\ Told
    BY Zenon DEF Session
  <1>6. OfStream(history'[A], stream[A])
    <2> HIDE DEF p
    <2>1. OfStream(h, stream[A]) /\ h \in Seq(Packet)
      BY <1>2, <1>5 DEF OneStream
    <2> HIDE DEF h
    <2>2. OfStream(Append(h, p), stream[A])
      BY <1>4, <2>1 DEF OfStream
    <2>3. h # <<>> => OfStream(Append(Tail(h), p), stream[A])
      <3> SUFFICES ASSUME h # <<>>
                   PROVE  OfStream(Append(Tail(h), p), stream[A])
        OBVIOUS
      <3>1. /\ Tail(h) \in Seq(Packet) /\ Len(Tail(h)) = Len(h) - 1 /\ Len(h) \in Nat
            /\ \A i \in 1 .. Len(Tail(h)) : Tail(h)[i] = h[i + 1]
        BY <2>1
      <3>2. \A i \in 1 .. Len(Tail(h)) : Tail(h)[i].stream = stream[A]
        BY <2>1, <3>1 DEF OfStream
      <3> DEFINE g == Tail(h)
      <3> HIDE DEF g
      <3>3. g \in Seq(Packet) /\ \A i \in 1 .. Len(g) : g[i].stream = stream[A]
        BY <3>1, <3>2 DEF g
      <3>4. OfStream(Append(g, p), stream[A])
        BY <1>4, <3>3 DEF OfStream
      <3> QED BY <3>4 DEF g
    <2>4. Len(h) = HISTORY => h # <<>>
      BY <2>1, SfpAssumption
    <2> QED BY <1>3, <2>2, <2>3, <2>4 DEF PushBack
  <1> HIDE DEF f, h, p
  <1>7. <<f>> \in Seq(Frame) /\ line'[B] = line[B] \o <<f>> /\ \A g \in Frame : In(<<f>>, g) <=> g = f
    BY <1>2, <1>3, <1>4, OneFrame, AppendConcat
  <1>8. /\ \A n : ~ Has(<<f>>, n)
        /\ Pure(<<f>>) /\ ~ NoData(<<f>>) /\ DataOf(<<f>>, stream[A])
    <2>1. (\A n : ~ Has(<<f>>, n)) /\ Pure(<<f>>)
      BY <1>4, <1>7, DataSummary, Zenon
    <2>2. ~ NoData(<<f>>)
      BY <1>4, <1>7, Zenon DEF NoData
    <2>3. DataOf(<<f>>, stream[A])
      BY <1>4, <1>7, Zenon DEF DataOf
    <2> QED BY <2>1, <2>2, <2>3
  <1>9. /\ \A n : Has(line'[B], n) <=> Has(line[B], n)
        /\ ~ NoData(line'[B]) /\ (Pure(line[B]) => Pure(line'[B]))
        /\ DataOf(line[B], stream[A]) => DataOf(line'[B], stream[A])
    <2> DEFINE r == <<f>>
    <2>1. /\ r \in Seq(Frame) /\ line'[B] = line[B] \o r /\ line[B] \in Seq(Frame)
          /\ (\A n : ~ Has(r, n)) /\ Pure(r) /\ ~ NoData(r) /\ DataOf(r, stream[A])
      BY <1>2, <1>7, <1>8
    <2> HIDE DEF r
    <2> QED BY <2>1, LongerSummary, Zenon
  <1>10. OneWay'
    BY <1>3, <1>5, <1>9, Zenon DEF OneWay
  <1>11. OneStream'
    BY <1>3, <1>5, <1>6, <1>9, Zenon DEF OneStream
  <1>12. OneDelivery'
    BY <1>3, <1>5, Zenon DEF OneDelivery, Underway
  <1>13. NothingAhead'
    BY <1>3, <1>5, <1>9 DEF NothingAhead
  <1>14. Told'
    BY <1>9, Zenon DEF Told
  <1> QED BY <1>10, <1>11, <1>12, <1>13, <1>14 DEF Session

\* What Moves says of the connection: it is kept, or the robot starts over.
LEMMA MovesEffect ==
  ASSUME NEW s \in Ctx, NEW t \in Ctx, NEW from, Moves(s, t, from)
  PROVE  /\ \A n : Has(t.out, n) <=> Has(s.out, n)
         /\ \/ /\ t.connectState = s.connectState /\ t.last = s.last
               /\ t.dropped = s.dropped
            \/ /\ t.connectState = "DISCONNECTED" /\ t.last = NoPacket
               /\ (s.dropped \/ s.connectState = "CONNECTED") => t.dropped
  <1>1. \A n : Has(t.out, n) <=> Has(s.out, n)
    BY SentBesides, Zenon DEF Moves
  <1> QED BY <1>1, Zenon DEF Moves, Kept, Reset

\* What becomes of the link when the robot's context becomes s.
LEMMA BecomeSummary ==
  ASSUME RobotTypes, Session, NEW s \in Ctx, NEW k \in {0, 1}, k = 1 => line[B] # <<>>, Become(s, k)
  PROVE  /\ connectState'[B] = s.connectState /\ connectState'[A] = connectState[A]
         /\ last'[B] = s.last /\ stream'[A] = stream[A]
         /\ (dropped' <=> s.dropped)
         /\ \A n : Has(line'[A], n) <=> (Has(line[A], n) \/ Has(s.out, n))
         /\ \A n : Has(line'[B], n) => Has(line[B], n)
         /\ \A n : (Has(line[B], n) /\ (k = 1 => ~ Syn(Head(line[B]), n))) => Has(line'[B], n)
         /\ NoData(line[B]) => NoData(line'[B])
         /\ (NoData(line'[B]) /\ (k = 1 => ~ Data(Head(line[B])))) => NoData(line[B])
         /\ Pure(line'[B]) /\ OneStream'
  <1>1. line[A] \in Seq(Frame) /\ line[B] \in Seq(Frame) /\ s.out \in Seq(Frame)
    BY BothEnds DEF RobotTypes, TypeOK, Ctx
  <1>2. /\ connectState'[B] = s.connectState /\ connectState'[A] = connectState[A]
        /\ last'[B] = s.last
        /\ stream'[A] = stream[A] /\ history'[A] = history[A]
        /\ line'[A] = line[A] \o s.out
        /\ line'[B] = IF k = 1 THEN Tail(line[B]) ELSE line[B]
        /\ (dropped' <=> s.dropped)
    BY BecomeEffect, Zenon
  <1>3. \A n : Has(line'[A], n) <=> (Has(line[A], n) \/ Has(s.out, n))
    BY <1>1, <1>2, LongerSummary, Zenon
  <1>4. OneStream /\ Pure(line[B])
    BY DEF Session, NothingAhead
  <1>5. /\ \A n : Has(line'[B], n) => Has(line[B], n)
        /\ \A n : (Has(line[B], n) /\ (k = 1 => ~ Syn(Head(line[B]), n))) => Has(line'[B], n)
        /\ NoData(line[B]) => NoData(line'[B])
        /\ (NoData(line'[B]) /\ (k = 1 => ~ Data(Head(line[B])))) => NoData(line[B])
        /\ Pure(line'[B])
        /\ \A n : DataOf(line[B], n) => DataOf(line'[B], n)
    <2>1. CASE k = 1
      <3>1. line'[B] = Tail(line[B]) /\ line[B] # <<>>
        BY <1>2, <2>1
      <3> QED BY <1>1, <1>4, <2>1, <3>1, TakenSummary, Zenon
    <2>2. CASE k = 0
      <3>1. line'[B] = line[B] /\ k # 1
        BY <1>2, <2>2
      <3> QED BY <1>4, <3>1, Zenon
    <2> QED BY <2>1, <2>2
  <1>6. OneStream'
    BY <1>2, <1>4, <1>5, Zenon DEF OneStream
  <1> QED BY <1>2, <1>3, <1>5, <1>6, Zenon

\* The robot moves without a frame.
LEMMA LoopSession ==
  ASSUME RobotTypes, Session, NEW s \in Ctx, Moves(Context, s, {}), Become(s, 0)
  PROVE  Session'
  <1> DEFINE c == Context
  <1>1. /\ c \in Ctx /\ c.connectState = connectState[B] /\ c.last = last[B]
        /\ c.dropped = dropped /\ \A n : ~ Has(c.out, n)
    BY ContextFields, EmptySummary
  <1> HIDE DEF c
  <1>2. /\ \A n : ~ Has(s.out, n)
        /\ \/ /\ s.connectState = connectState[B] /\ s.last = last[B] /\ s.dropped = dropped
           \/ /\ s.connectState = "DISCONNECTED" /\ s.last = NoPacket
              /\ (dropped \/ connectState[B] = "CONNECTED") => s.dropped
    BY <1>1, MovesEffect, Zenon DEF c
  <1>3. 0 \in {0, 1} /\ 0 # 1
    OBVIOUS
  <1>4. /\ connectState'[B] = s.connectState /\ connectState'[A] = connectState[A]
        /\ last'[B] = s.last /\ stream'[A] = stream[A]
        /\ (dropped' <=> s.dropped)
        /\ \A n : Has(line'[A], n) <=> Has(line[A], n)
        /\ \A n : Has(line'[B], n) <=> Has(line[B], n)
        /\ NoData(line[B]) <=> NoData(line'[B])
        /\ Pure(line'[B]) /\ OneStream'
    BY <1>2, <1>3, BecomeSummary, Zenon
  <1>5. OneWay /\ OneStream /\ OneDelivery /\ NothingAhead /\ Told
    BY Zenon DEF Session
  <1>6. OneWay'
    BY <1>2, <1>4, <1>5 DEF OneWay
  <1>7. OneDelivery'
    BY <1>2, <1>4, <1>5 DEF OneDelivery, Underway
  <1>8. NothingAhead'
    BY <1>2, <1>4, <1>5 DEF NothingAhead
  <1>9. Told'
    BY <1>2, <1>4, <1>5, Zenon DEF Told
  <1> QED BY <1>4, <1>6, <1>7, <1>8, <1>9 DEF Session

\* A SYN is sent besides what has been sent before.
LEMMA SentSyn ==
  ASSUME NEW s \in Ctx, NEW k \in Seq6, NEW t \in Ctx, Moves(Sent(s, Control("SYN", k)), t, {})
  PROVE  /\ \A n : Has(t.out, n) <=> (Has(s.out, n) \/ n = k)
         /\ \/ /\ t.connectState = s.connectState /\ t.last = s.last
               /\ t.dropped = s.dropped
            \/ /\ t.connectState = "DISCONNECTED" /\ t.last = NoPacket
               /\ (s.dropped \/ s.connectState = "CONNECTED") => t.dropped
  <1> DEFINE f == Control("SYN", k)
             u == Sent(s, f)
  <1>1. f \in Frame /\ \A n : Syn(f, n) <=> n = k
    BY ControlFrame DEF Syn
  <1> HIDE DEF f
  <1>2. /\ u \in Ctx /\ u.connectState = s.connectState /\ u.last = s.last
        /\ u.dropped = s.dropped
        /\ \A g \in Frame : In(u.out, g) <=> (In(s.out, g) \/ g = f)
    BY <1>1, SentFields, Zenon
  <1>3. \A n : Has(u.out, n) <=> (Has(s.out, n) \/ n = k)
    BY <1>1, <1>2, Zenon DEF Has
  <1>4. Moves(u, t, {})
    BY Zenon DEF f
  <1> HIDE DEF u
  <1>5. /\ \A n : Has(t.out, n) <=> Has(u.out, n)
        /\ \/ t.connectState = u.connectState /\ t.last = u.last /\ t.dropped = u.dropped
           \/ /\ t.connectState = "DISCONNECTED" /\ t.last = NoPacket
              /\ (u.dropped \/ u.connectState = "CONNECTED") => t.dropped
    BY <1>2, <1>4, MovesEffect, Zenon
  <1>6. \A n : Has(t.out, n) <=> (Has(s.out, n) \/ n = k)
    BY <1>3, <1>5, Zenon
  <1>7. \/ t.connectState = s.connectState /\ t.last = s.last /\ t.dropped = s.dropped
        \/ /\ t.connectState = "DISCONNECTED" /\ t.last = NoPacket
           /\ (s.dropped \/ s.connectState = "CONNECTED") => t.dropped
    BY <1>2, <1>5, Zenon
  <1> QED BY <1>6, <1>7, Zenon

\* A frame is handled by the robot.
LEMMA DeliverSession ==
  ASSUME RobotTypes, Session, line[B] # <<>>, NEW s \in Ctx,
         Handled(Context, Head(line[B]), s), Become(s, 1)
  PROVE  Session'
  <1> DEFINE c == Context
             f == Head(line[B])
  <1>1. /\ c \in Ctx /\ c.connectState = connectState[B] /\ c.last = last[B]
        /\ c.dropped = dropped /\ \A n : ~ Has(c.out, n)
    BY ContextFields, EmptySummary
  <1>2. f \in Frame /\ f.packet \in Packet /\ line[B] \in Seq(Frame)
    <2>1. line[B] \in Seq(Frame)
      BY BothEnds DEF RobotTypes, TypeOK
    <2> QED BY <2>1, TailLine, FrameFields
  <1>3. /\ \A n : Syn(f, n) => Has(line[B], n)
        /\ Data(f) => ~ NoData(line[B])
        /\ \A n, m : (Syn(f, n) /\ Syn(f, m)) => n = m
        /\ f.type # "SYN" => \A n : ~ Syn(f, n)
        /\ \A n : Syn(f, n) => ~ Data(f)
    BY <1>2, HeadSummary DEF Syn, Data
  <1>4. OneWay /\ OneStream /\ OneDelivery /\ NothingAhead /\ Told
    BY Zenon DEF Session
  <1>5. SYN0 # SYN1 /\ SYN0 # SYN2 /\ SYN0 # DIS /\ SYN1 # SYN2 /\ SYN1 # DIS /\ SYN2 # DIS
    BY SynNumbers
  <1>6. {SYN0, SYN1, SYN2, DIS} \subseteq Seq6
    BY SynNumbers
  <1>7. Handled(c, f, s)
    OBVIOUS
  <1>8. 1 \in {0, 1} /\ 1 = 1
    OBVIOUS
  <1>9. /\ connectState'[B] = s.connectState /\ connectState'[A] = connectState[A]
        /\ last'[B] = s.last /\ stream'[A] = stream[A]
        /\ (dropped' <=> s.dropped)
        /\ \A n : Has(line'[A], n) <=> (Has(line[A], n) \/ Has(s.out, n))
        /\ \A n : Has(line'[B], n) => Has(line[B], n)
        /\ \A n : (Has(line[B], n) /\ ~ Syn(f, n)) => Has(line'[B], n)
        /\ NoData(line[B]) => NoData(line'[B])
        /\ (NoData(line'[B]) /\ ~ Data(f)) => NoData(line[B])
        /\ Pure(line'[B]) /\ OneStream'
    BY <1>8, BecomeSummary, Zenon
  <1>10. Syn(f, SYN2) => ~ Has(line'[B], SYN0)
    <2>1. 1 = 1 /\ line'[B] = IF 1 = 1 THEN Tail(line[B]) ELSE line[B]
      BY <1>8, BecomeEffect, Zenon
    <2>2. line'[B] = Tail(line[B])
      BY <2>1
    <2> QED BY <1>2, <1>4, <2>2, HeadSummary, Zenon DEF NothingAhead
  <1> HIDE DEF c, f
  <1>11. CASE Disregards(c, f, s)
    <2>1. /\ \A n : ~ Has(s.out, n)
          /\ \A n : ~ Syn(f, n)
          /\ Data(f) => connectState[B] = "CONNECTED"
          /\ \/ s.connectState = connectState[B] /\ s.last = last[B] /\ s.dropped = dropped
             \/ /\ s.connectState = "DISCONNECTED" /\ s.last = NoPacket
                /\ (dropped \/ connectState[B] = "CONNECTED") => s.dropped
      BY <1>1, <1>3, <1>11, MovesEffect, Zenon DEF Disregards
    <2>2. OneWay'
      BY <1>4, <1>9, <2>1 DEF OneWay
    <2>3. OneDelivery'
      BY <1>4, <1>9, <2>1 DEF OneDelivery, Underway
    <2>4. NothingAhead'
      BY <1>4, <1>9, <2>1 DEF NothingAhead
    <2>5. Told'
      BY <1>4, <1>9, <2>1, Zenon DEF Told
    <2> QED BY <1>9, <2>2, <2>3, <2>4, <2>5 DEF Session
  <1>12. CASE Delivers(c, f, s)
    <2>1. /\ Data(f) /\ connectState[B] = "CONNECTED"
          /\ Moves(Taking(c, f.packet), s, {f.packet.stream})
      BY <1>1, <1>12, Zenon DEF Delivers
    <2> DEFINE u == Taking(c, f.packet)
    <2>2. /\ u \in Ctx /\ u.last = f.packet /\ u.connectState = c.connectState
          /\ u.out = c.out /\ u.dropped = c.dropped
      BY <1>1, <1>2, TakingFields, Zenon
    <2>0. Moves(u, s, {f.packet.stream})
      BY <2>1, Zenon
    <2> HIDE DEF u
    <2>3. /\ \A n : Has(s.out, n) <=> Has(u.out, n)
          /\ \/ s.connectState = u.connectState /\ s.last = u.last /\ s.dropped = u.dropped
             \/ /\ s.connectState = "DISCONNECTED" /\ s.last = NoPacket
                /\ (u.dropped \/ u.connectState = "CONNECTED") => s.dropped
      BY <2>0, <2>2, MovesEffect, Zenon
    <2>4. /\ \A n : ~ Has(s.out, n)
          /\ \/ s.connectState = "CONNECTED" /\ s.last = f.packet
             \/ s.connectState = "DISCONNECTED" /\ s.last = NoPacket /\ s.dropped
      BY <1>1, <2>1, <2>2, <2>3, Zenon
    <2>5. f.packet.stream = stream[A]
      <3>1. DataOf(line[B], stream[A])
        BY <1>4 DEF OneStream
      <3> QED BY <1>2, <2>1, <3>1, BehindHead, Zenon DEF f
    <2>6. \A n : ~ Syn(f, n)
      BY <1>3, <2>1, Zenon
    <2>7. OneWay'
      BY <1>4, <1>9, <2>4 DEF OneWay
    <2>8. OneDelivery'
      BY <1>9, <2>4, <2>5 DEF OneDelivery
    <2>9. NothingAhead'
      BY <1>4, <1>9, <2>1, <2>4 DEF NothingAhead
    <2>10. Told'
      BY <1>9, <2>4 DEF Told
    <2> QED BY <1>9, <2>7, <2>8, <2>9, <2>10 DEF Session
  <1>13. CASE AnswersSyn(c, f, s)
    <2> DEFINE k == AnswerOf(connectState[B])
    <2>1. /\ connectState[B] # "CONNECTED"
          /\ f.type \in {"USR", "RTX", "NAK"} \/ Syn(f, SYN2)
          /\ Syn(f, SYN2) => connectState[B] # "SENT_SYN1"
          /\ Moves(Sent(c, Control("SYN", k)), s, {})
      BY <1>1, <1>13, Zenon DEF AnswersSyn
    <2>2. connectState[B] \in {"DISCONNECTED", "SENT_SYN1"}
      <3>1. connectState[B] \in States
        BY BothEnds DEF RobotTypes, TypeOK, States
      <3> QED BY <1>4, <2>1, <3>1 DEF OneWay, States
    <2>3. /\ connectState[B] = "DISCONNECTED" => k = DIS
          /\ connectState[B] = "SENT_SYN1" => k = SYN1
          /\ k \in Seq6
      BY <1>6, <2>2 DEF AnswerOf
    <2> HIDE DEF k
    <2>4. /\ \A n : Has(s.out, n) <=> n = k
          /\ \/ s.connectState = connectState[B] /\ s.last = last[B] /\ s.dropped = dropped
             \/ /\ s.connectState = "DISCONNECTED" /\ s.last = NoPacket
                /\ (dropped \/ connectState[B] = "CONNECTED") => s.dropped
      <3>1. /\ \A n : Has(s.out, n) <=> (Has(c.out, n) \/ n = k)
            /\ \/ s.connectState = c.connectState /\ s.last = c.last /\ s.dropped = c.dropped
               \/ /\ s.connectState = "DISCONNECTED" /\ s.last = NoPacket
                  /\ (c.dropped \/ c.connectState = "CONNECTED") => s.dropped
        BY <1>1, <2>1, <2>3, SentSyn, Zenon
      <3> QED BY <1>1, <3>1, Zenon
    <2>5. OneWay'
      BY <1>4, <1>5, <1>9, <2>2, <2>3, <2>4 DEF OneWay
    <2>6. OneDelivery'
      BY <1>4, <1>5, <1>9, <2>2, <2>3, <2>4 DEF OneDelivery, Underway
    <2>7. NothingAhead'
      BY <1>4, <1>9, <2>2, <2>4 DEF NothingAhead
    <2>8. Told'
      BY <1>9, <2>2, <2>3, <2>4 DEF Told
    <2> QED BY <1>9, <2>5, <2>6, <2>7, <2>8 DEF Session
  <1>14. CASE AnswersSyn0(c, f, s)
    <2>1. PICK u \in Ctx : /\ Moves(Sent(Cleared(c), Control("SYN", SYN1)), u, {})
                           /\ s = WithState(u, "SENT_SYN1")
      BY <1>14, Zenon DEF AnswersSyn0
    <2> DEFINE x == Cleared(c)
    <2>2. x \in Ctx /\ x.last = NoPacket /\ x.out = c.out
      BY <1>1, ClearedFields, Zenon
    <2> HIDE DEF x
    <2>3. SYN1 \in Seq6 /\ "SENT_SYN1" \in States
      BY <1>6 DEF States
    <2>4. (\A n : Has(u.out, n) <=> n = SYN1) /\ u.last = NoPacket
      BY <1>1, <2>1, <2>2, <2>3, SentSyn, Zenon DEF x
    <2>5. s.connectState = "SENT_SYN1" /\ s.last = u.last /\ s.out = u.out
      BY <2>1, <2>3, StateFields, Zenon
    <2>6. /\ connectState'[B] = "SENT_SYN1" /\ last'[B] = NoPacket
          /\ \A n : Has(line'[A], n) <=> (Has(line[A], n) \/ n = SYN1)
      BY <1>9, <2>4, <2>5
    <2>7. OneWay'
      BY <1>4, <1>5, <1>9, <2>6 DEF OneWay
    <2>8. OneDelivery'
      BY <2>6 DEF OneDelivery
    <2>9. NothingAhead'
      BY <1>4, <1>9, <2>6 DEF NothingAhead
    <2>10. Told'
      BY <2>6, Zenon DEF Told
    <2> QED BY <1>9, <2>7, <2>8, <2>9, <2>10 DEF Session
  <1>15. CASE Reconnects(c, f, s)
    <2>1. PICK u \in Ctx : /\ Moves(c, u, {})
                           /\ s.connectState = "CONNECTED" /\ s.last = u.last
                           /\ s.out = u.out
      BY <1>15, Zenon DEF Reconnects
    <2>2. Syn(f, SYN2) /\ Has(line[B], SYN2)
      BY <1>3, <1>15, Zenon DEF Reconnects
    <2>3. (\A n : ~ Has(u.out, n)) /\ (u.last = last[B] \/ u.last = NoPacket)
      BY <1>1, <2>1, MovesEffect, Zenon
    <2>4. /\ connectState'[B] = "CONNECTED" /\ (last'[B] = last[B] \/ last'[B] = NoPacket)
          /\ \A n : Has(line'[A], n) <=> Has(line[A], n)
      BY <1>9, <2>1, <2>3
    <2>5. OneWay'
      BY <1>4, <1>9, <2>4 DEF OneWay
    <2>6. OneDelivery'
      BY <1>4, <1>9, <2>2, <2>4 DEF OneDelivery, Underway
    <2>7. NothingAhead'
      BY <1>4, <1>9, <1>10, <2>2, <2>4 DEF NothingAhead
    <2>8. Told'
      BY <2>4 DEF Told
    <2> QED BY <1>9, <2>5, <2>6, <2>7, <2>8 DEF Session
  <1>16. CASE Disconnects(c, f, s)
    <2>1. Syn(f, DIS) /\ Has(line[B], DIS) /\ s = WithState(c, "DISCONNECTED")
      BY <1>3, <1>16, Zenon DEF Disconnects
    <2>2. "DISCONNECTED" \in States
      BY DEF States
    <2>3. s.connectState = "DISCONNECTED" /\ s.last = c.last /\ s.out = c.out
      BY <1>1, <2>1, <2>2, StateFields, Zenon
    <2>4. /\ connectState'[B] = "DISCONNECTED" /\ last'[B] = last[B]
          /\ connectState[A] = "DISCONNECTED"
          /\ \A n : Has(line'[A], n) <=> Has(line[A], n)
      BY <1>1, <1>4, <1>9, <2>1, <2>3 DEF NothingAhead
    <2>5. OneWay'
      BY <1>4, <1>9, <2>4 DEF OneWay
    <2>6. OneDelivery'
      BY <1>4, <1>9, <2>4 DEF OneDelivery, Underway
    <2>7. NothingAhead'
      BY <1>4, <1>9, <2>4 DEF NothingAhead
    <2>8. Told'
      BY <1>9, <2>4 DEF Told
    <2> QED BY <1>9, <2>5, <2>6, <2>7, <2>8 DEF Session
  <1>17. ~ Syn(f, SYN1)
    BY <1>3, <1>4, Zenon DEF OneWay
  <1> QED BY <1>7, <1>11, <1>12, <1>13, <1>14, <1>15, <1>16, <1>17, Zenon DEF Handled

\* The session holds initially, ...
LEMMA SessionInit ==
  ASSUME ServerInit
  PROVE  Session
  <1>1. /\ connectState[A] = "DISCONNECTED" /\ connectState[B] = "DISCONNECTED"
        /\ line[A] = <<>> /\ line[B] = <<>> /\ history[A] = <<>> /\ stream[A] = 1
    BY BothEnds DEF ServerInit, Init
  <1>2. /\ \A n : ~ Has(<<>>, n)
        /\ NoData(<<>>) /\ Pure(<<>>) /\ \A n : DataOf(<<>>, n)
    BY EmptySummary, ShortLines
  <1>3. OfStream(history[A], stream[A]) /\ stream[A] \in Nat /\ stream[A] >= 1
    BY <1>1 DEF OfStream
  <1>4. OneWay
    BY <1>1, <1>2 DEF OneWay
  <1>5. OneStream
    BY <1>1, <1>2, <1>3, Zenon DEF OneStream
  <1>6. OneDelivery
    BY <1>1, <1>2 DEF OneDelivery, Underway
  <1>7. NothingAhead
    BY <1>1, <1>2 DEF NothingAhead
  <1>8. Told
    BY <1>1 DEF Told
  <1> QED BY <1>4, <1>5, <1>6, <1>7, <1>8 DEF Session

\* ... and every step keeps it.
LEMMA SessionNext ==
  ASSUME Careful, Settled, Session, [ServerNext]_allVars
  PROVE  Session'
  <1>1. RobotTypes /\ (pc # "deliver" => Agree(Context))
    BY DEF Settled
  <1>2. CASE ServerDeliver
    <2>1. line[B] # <<>> /\ \E s \in Ctx : Handled(Context, Head(line[B]), s) /\ Become(s, 1)
      BY <1>1, <1>2, DeliverStep, Zenon
    <2> QED BY <1>1, <2>1, DeliverSession, Zenon
  <1>3. CASE ServerCheck \/ ServerLoop
    <2>1. ServerCheck \/ (ServerLoop /\ Agree(Context))
      BY <1>1, <1>3 DEF ServerLoop
    <2>2. \E s \in Ctx : Agree(s) /\ Moves(Context, s, {}) /\ Become(s, 0)
      BY <1>1, <2>1, LoopStep, Zenon
    <2> QED BY <1>1, <2>2, LoopSession, Zenon
  <1>4. CASE ClientReceives
    <2>1. TypeOK /\ sfpHandleFrame(A) /\ dropped' = dropped
      BY <1>1, <1>4 DEF RobotTypes, ClientReceives, srvVars
    <2> QED BY <1>1, <2>1, ClientHandles, ClientHears, Zenon
  <1>5. CASE ClientConnects \/ ClientGivesUp \/ ClientWrites
    BY <1>1, <1>5, ClientStarts, ClientWritesOn, Zenon
  <1>6. CASE ServerWake \/ HeartbeatExpires \/ ServerEnds \/ serverStart \/ UNCHANGED allVars
    <2>1. UNCHANGED <<vars, dropped>>
      BY <1>6, IdleStep, Zenon
    <2> QED BY <2>1 DEF vars, Session, OneWay, OneStream, OneDelivery, Underway, NothingAhead, Told
  <1> QED BY <1>2, <1>3, <1>4, <1>5, <1>6 DEF ServerNext

\* Nothing is under way on a quiet line: the client is told the truth.
LEMMA QuietSession ==
  ASSUME Session
  PROVE  QuietAgreement
  <1> SUFFICES ASSUME \A e \in Endpoints : line[e] = <<>>, ~ dropped, connectState[A] = "CONNECTED"
               PROVE  connectState[B] = "CONNECTED"
    BY DEF QuietAgreement
  <1>1. line[A] = <<>> /\ line[B] = <<>>
    BY BothEnds
  <1>2. Told
    BY DEF Session
  <1> QED BY <1>1, <1>2, EmptySummary DEF Told

\* If the client connects, or gives a connection up, only when nothing is under
\* way, then a client that believes in a connection on a quiet line has one, unless
\* the server has given it up by itself since: for any number of packets, requests
\* and publications, any history, and heart beats that run out at any frame.
THEOREM ClientIsTold ==
  ASSUME Careful
  PROVE  ServerSpec => []QuietAgreement
  <1>1. ServerInit => Session
    BY SessionInit
  <1>2. Settled /\ Session /\ [ServerNext]_allVars => Session'
    BY SessionNext
  <1>3. Session => QuietAgreement
    BY QuietSession
  <1> QED BY <1>1, <1>2, <1>3, SettledAlways, PTL DEF ServerSpec

-----------------------------------------------------------------------------
(* The subscriptions.                                                      *)

\* The first n frames of a line hold no SYN2.
NoSyn2(q, n) == \A j \in 1 .. n : ~ Syn(q[j], SYN2)

\* Every subscription is from the connection the robot has.  In the middle of
\* a batch of frames it may be from one the robot has just lost, without the server
\* having noticed; then nothing in the batch connects the robot again before the
\* server looks.
AskedNow(sub) ==
  /\ state = "Connected" /\ sub.from \in Nat /\ sub.from >= 1
  /\ \/ connectState[B] = "CONNECTED" /\ sub.from = last[B].stream
     \/ /\ connectState[B] # "CONNECTED" /\ pc = "deliver"
        /\ connectState[B] = "SENT_SYN1" => NoSyn2(line[B], left)
Asked == \A i \in SubSlot : subs[i].active => AskedNow(subs[i])

\* What is behind the head of a line without a SYN2.
LEMMA NoSyn2Tail ==
  ASSUME NEW q \in Seq(Frame), q # <<>>, NEW n \in Nat, n <= Len(q), n >= 1
  PROVE  /\ NoSyn2(q, n) => (NoSyn2(Tail(q), n - 1) /\ ~ Syn(Head(q), SYN2))
         /\ ~ Has(q, SYN2) => NoSyn2(Tail(q), n - 1)
  <1>1. /\ Tail(q) \in Seq(Frame) /\ Head(q) = q[1] /\ Len(q) \in Nat
        /\ \A j \in 1 .. (n - 1) : Tail(q)[j] = q[j + 1] /\ j + 1 \in 1 .. n /\ j + 1 \in 1 .. Len(q)
    OBVIOUS
  <1>2. NoSyn2(q, n) => (NoSyn2(Tail(q), n - 1) /\ ~ Syn(Head(q), SYN2))
    <2>1. 1 \in 1 .. n
      OBVIOUS
    <2> QED BY <1>1, <2>1, Zenon DEF NoSyn2
  <1>3. ASSUME ~ Has(q, SYN2), NEW j \in 1 .. (n - 1)
        PROVE  ~ Syn(Tail(q)[j], SYN2)
    <2>1. q[j + 1] \in Frame /\ Tail(q)[j] = q[j + 1] /\ In(q, q[j + 1])
      BY <1>1 DEF In
    <2> QED BY <1>3, <2>1, Zenon DEF Has
  <1> QED BY <1>2, <1>3, Zenon DEF NoSyn2

\* Frames that are sent come behind what is left to deliver.
LEMMA NoSyn2Concat ==
  ASSUME NEW q \in Seq(Frame), NEW r \in Seq(Frame), NEW n \in Nat, n <= Len(q), NoSyn2(q, n)
  PROVE  NoSyn2(q \o r, n)
  <1>1. \A j \in 1 .. n : (q \o r)[j] = q[j]
    OBVIOUS
  <1> QED BY <1>1, Zenon DEF NoSyn2

\* The client lets the subscriptions alone.
LEMMA AskedClient ==
  ASSUME RobotTypes, Asked, ClientConnects \/ ClientGivesUp \/ ClientWrites \/ ClientReceives
  PROVE  Asked'
  <1>1. /\ connectState'[B] = connectState[B] /\ last'[B] = last[B]
        /\ UNCHANGED <<state, subs, pc, left>>
        /\ \E fs \in Seq(Frame) : line'[B] = line[B] \o fs
    BY ClientStep
  <1>2. line[B] \in Seq(Frame) /\ left \in Nat /\ left <= Len(line[B])
    BY BothEnds DEF RobotTypes, TypeOK
  <1>3. NoSyn2(line[B], left) => NoSyn2(line'[B], left')
    BY <1>1, <1>2, NoSyn2Concat
  <1>4. ASSUME NEW i \in SubSlot, subs'[i].active
        PROVE  AskedNow(subs[i])'
    <2>1. AskedNow(subs[i]) /\ subs'[i] = subs[i]
      BY <1>1, <1>4 DEF Asked
    <2> QED BY <1>1, <1>3, <2>1 DEF AskedNow
  <1> QED BY <1>4 DEF Asked

\* The robot without a frame.
LEMMA AskedLoop ==
  ASSUME RobotTypes, Asked, NEW s \in Ctx, Agree(s), Moves(Context, s, {}), Become(s, 0)
  PROVE  Asked'
  <1> DEFINE c == Context
  <1>1. /\ c.connectState = connectState[B] /\ c.last = last[B]
        /\ c.state = state /\ c.subs = subs
    BY ContextFields
  <1>2. 0 \in {0, 1} /\ 0 # 1
    OBVIOUS
  <1>3. /\ connectState'[B] = s.connectState /\ last'[B] = s.last
        /\ state' = s.state /\ subs' = s.subs
    BY <1>2, BecomeEffect, Zenon
  <1>4. Moves(c, s, {})
    OBVIOUS
  <1> HIDE DEF c
  <1>5. ASSUME NEW i \in SubSlot, subs'[i].active
        PROVE  AskedNow(subs[i])'
    <2>1. s.subs[i] = subs[i] /\ subs[i].active /\ Kept(c, s)
      BY <1>1, <1>3, <1>4, <1>5 DEF Moves, Carries, Reset
    <2>2. AskedNow(subs[i]) /\ subs'[i] = subs[i]
      BY <1>3, <2>1 DEF Asked
    <2>3. state' = "Connected" /\ connectState'[B] = connectState[B] /\ last'[B] = last[B]
      BY <1>1, <1>3, <2>1, <2>2 DEF AskedNow, Kept
    <2>4. connectState'[B] = "CONNECTED"
      BY <1>3, <2>3 DEF Agree
    <2> QED BY <2>2, <2>3, <2>4 DEF AskedNow
  <1> QED BY <1>5 DEF Asked

\* A subscription the robot keeps while it handles a frame.
LEMMA AskedDeliver ==
  ASSUME RobotTypes, RobotTypes', Session, Asked, line[B] # <<>>, NEW s \in Ctx,
         Handled(Context, Head(line[B]), s), Become(s, 1), pc = "deliver", pc' = pc, left > 0, left' = left - 1
  PROVE  Asked'
  <1> DEFINE c == Context
             f == Head(line[B])
  <1>1. /\ c \in Ctx /\ c.connectState = connectState[B] /\ c.last = last[B]
        /\ c.state = state /\ c.subs = subs
    BY ContextFields
  <1>2. /\ line[B] \in Seq(Frame) /\ left \in Nat /\ left <= Len(line[B])
    BY BothEnds DEF RobotTypes, TypeOK
  <1>3. f \in Frame /\ f.packet \in Packet
    BY <1>2, TailLine, FrameFields
  <1>4. Handled(c, f, s)
    OBVIOUS
  <1>5. 1 \in {0, 1} /\ 1 = 1
    OBVIOUS
  <1>6. /\ connectState'[B] = s.connectState /\ last'[B] = s.last
        /\ state' = s.state /\ subs' = s.subs
        /\ line'[B] = IF 1 = 1 THEN Tail(line[B]) ELSE line[B]
    BY <1>5, BecomeEffect, Zenon
  <1>7. /\ NoSyn2(line[B], left) => (NoSyn2(line'[B], left') /\ ~ Syn(f, SYN2))
        /\ ~ Has(line[B], SYN2) => NoSyn2(line'[B], left')
    BY <1>2, <1>6, NoSyn2Tail
  <1>8. OneWay /\ OneStream /\ OneDelivery /\ NothingAhead
    BY Zenon DEF Session
  <1>9. /\ \A n : Syn(f, n) => Has(line[B], n)
        /\ Data(f) => ~ NoData(line[B])
        /\ Data(f) => f.packet.stream = stream[A]
    BY <1>2, <1>8, HeadSummary, BehindHead, Zenon DEF OneStream
  <1> HIDE DEF c, f
  <1>10. ASSUME NEW i \in SubSlot, subs'[i].active, s.subs[i] = subs[i], Kept(c, s)
         PROVE  AskedNow(subs[i])'
    <2>1. AskedNow(subs[i]) /\ subs'[i] = subs[i]
      BY <1>6, <1>10 DEF Asked
    <2>2. state' = "Connected" /\ connectState'[B] = connectState[B] /\ last'[B] = last[B]
      BY <1>1, <1>6, <1>10, <2>1 DEF AskedNow, Kept
    <2> QED BY <1>7, <2>1, <2>2 DEF AskedNow
  <1>11. CASE Disregards(c, f, s)
    <2>1. ASSUME NEW i \in SubSlot, subs'[i].active
          PROVE  AskedNow(subs[i])'
      <3>1. s.subs[i] = subs[i] /\ Kept(c, s)
        BY <1>1, <1>6, <1>11, <2>1 DEF Disregards, Moves, Carries, Reset
      <3> QED BY <1>10, <2>1, <3>1
    <2> QED BY <2>1 DEF Asked
  <1>12. CASE Delivers(c, f, s)
    <2> DEFINE u == Taking(c, f.packet)
    <2>1. /\ Data(f) /\ connectState[B] = "CONNECTED" /\ Agree(s)
          /\ Moves(u, s, {f.packet.stream})
      BY <1>1, <1>12, Zenon DEF Delivers
    <2>2. /\ u.last = f.packet /\ u.connectState = c.connectState /\ u.subs = c.subs
      BY <1>1, <1>3, TakingFields, Zenon
    <2> HIDE DEF u
    <2>3. f.packet.stream = stream[A] /\ stream[A] \in Nat /\ stream[A] >= 1
      BY <1>8, <1>9, <2>1 DEF OneStream
    <2>4. ASSUME NEW i \in SubSlot, subs'[i].active
          PROVE  AskedNow(subs[i])'
      <3>1. Kept(u, s) /\ (s.subs[i] = subs[i] \/ s.subs[i].from = stream[A])
        BY <1>1, <1>6, <2>1, <2>2, <2>3, <2>4 DEF Moves, Carries, Reset
      <3>2. connectState'[B] = "CONNECTED" /\ last'[B] = f.packet
        BY <1>1, <1>6, <2>1, <2>2, <3>1 DEF Kept
      <3>3. state' = "Connected"
        BY <1>6, <2>1, <3>2 DEF Agree
      <3>4. subs'[i].from = stream[A]
        <4>1. CASE s.subs[i] = subs[i]
          <5>1. AskedNow(subs[i]) /\ subs'[i] = subs[i]
            BY <1>6, <2>4, <4>1 DEF Asked
          <5>2. subs[i].from = last[B].stream /\ subs[i].from >= 1
            BY <2>1, <5>1 DEF AskedNow
          <5>3. last[B] # NoPacket
            BY <5>2 DEF NoPacket
          <5>4. last[B].stream = stream[A]
            BY <1>8, <1>9, <2>1, <5>3 DEF OneDelivery, Underway
          <5> QED BY <5>1, <5>2, <5>4
        <4> QED BY <1>6, <3>1, <4>1
      <3> QED BY <2>3, <3>2, <3>3, <3>4 DEF AskedNow
    <2> QED BY <2>4 DEF Asked
  <1>13. CASE AnswersSyn(c, f, s)
    <2> DEFINE u == Sent(c, Control("SYN", AnswerOf(connectState[B])))
    <2>1. Moves(u, s, {})
      BY <1>1, <1>13, Zenon DEF AnswersSyn
    <2>2. /\ u.connectState = c.connectState /\ u.last = c.last /\ u.subs = c.subs /\ u.state = c.state
          /\ u.dropped = c.dropped
      <3>1. AnswerOf(connectState[B]) \in Seq6
        BY SynNumbers DEF AnswerOf
      <3>2. Control("SYN", AnswerOf(connectState[B])) \in Frame
        BY <3>1, ControlFrame
      <3> DEFINE g == Control("SYN", AnswerOf(connectState[B]))
      <3>3. c \in Ctx /\ g \in Frame /\ u = Sent(c, g)
        BY <1>1, <3>2, Zenon
      <3> HIDE DEF c, g, u
      <3>4. /\ u.connectState = c.connectState /\ u.last = c.last /\ u.state = c.state
            /\ u.subs = c.subs
        BY <3>3, SentFields, Zenon
      <3>5. u.dropped = c.dropped
        BY <3>3, SentFields, Zenon
      <3> QED BY <3>4, <3>5, Zenon
    <2> HIDE DEF u
    <2>3. ASSUME NEW i \in SubSlot, subs'[i].active
          PROVE  AskedNow(subs[i])'
      <3>1. s.subs[i] = subs[i] /\ Kept(u, s)
        BY <1>1, <1>6, <2>1, <2>2, <2>3 DEF Moves, Carries, Reset
      <3>2. Kept(c, s)
        BY <2>2, <3>1, Zenon DEF Kept
      <3> QED BY <1>10, <2>3, <3>1, <3>2
    <2> QED BY <2>3 DEF Asked
  <1>14. CASE AnswersSyn0(c, f, s)
    <2>1. PICK v \in Ctx : /\ Agree(v) /\ Moves(Sent(Cleared(c), Control("SYN", SYN1)), v, {})
                           /\ s = WithState(v, "SENT_SYN1")
      BY <1>14, Zenon DEF AnswersSyn0
    <2> DEFINE x == Cleared(c)
               u == Sent(x, Control("SYN", SYN1))
    <2>2. x \in Ctx /\ x.subs = c.subs /\ x.connectState = c.connectState /\ x.state = c.state
      BY <1>1, ClearedFields, Zenon
    <2> HIDE DEF x
    <2>3. u.subs = c.subs /\ u.connectState = c.connectState /\ u.state = c.state
      <3>1. Control("SYN", SYN1) \in Frame
        BY SynNumbers, ControlFrame
      <3> QED BY <2>2, <3>1, SentFields, Zenon
    <2>4. Moves(u, v, {})
      BY <2>1, Zenon DEF x
    <2> HIDE DEF u
    <2>5. s.connectState = "SENT_SYN1" /\ s.subs = v.subs /\ s.state = v.state
      <3>1. "SENT_SYN1" \in States
        BY DEF States
      <3> QED BY <2>1, <3>1, StateFields, Zenon
    <2>6. ASSUME NEW i \in SubSlot, subs'[i].active
          PROVE  AskedNow(subs[i])'
      <3>1. v.subs[i] = subs[i] /\ Kept(u, v)
        BY <1>1, <1>6, <2>3, <2>4, <2>5, <2>6 DEF Moves, Carries, Reset
      <3>2. AskedNow(subs[i]) /\ subs'[i] = subs[i]
        BY <1>6, <2>5, <2>6, <3>1 DEF Asked
      <3>3. v.state = "Connected"
        BY <1>1, <2>3, <3>1, <3>2 DEF AskedNow, Kept
      <3>4. connectState[B] = "CONNECTED"
        BY <1>1, <2>1, <2>3, <3>1, <3>3 DEF Agree, Kept
      <3>5. Has(line[B], SYN0)
        BY <1>9, <1>14, Zenon DEF AnswersSyn0
      <3>6. NoSyn2(line'[B], left')
        BY <1>7, <1>8, <3>4, <3>5 DEF NothingAhead
      <3>7. connectState'[B] = "SENT_SYN1" /\ state' = "Connected" /\ pc' = "deliver"
        BY <1>6, <2>5, <3>3
      <3> QED BY <3>2, <3>6, <3>7 DEF AskedNow
    <2> QED BY <2>6 DEF Asked
  <1>15. CASE Reconnects(c, f, s)
    <2>1. PICK u \in Ctx : /\ Moves(c, u, {})
                           /\ s.connectState = "CONNECTED" /\ s.last = u.last /\ s.state = u.state
                           /\ s.subs = u.subs
      BY <1>15, Zenon DEF Reconnects
    <2>2. Syn(f, SYN2) /\ connectState[B] \in {"SENT_SYN1", "CONNECTED"}
      BY <1>1, <1>15, Zenon DEF Reconnects
    <2>3. ASSUME NEW i \in SubSlot, subs'[i].active
          PROVE  AskedNow(subs[i])'
      <3>1. u.subs[i] = subs[i] /\ Kept(c, u)
        BY <1>1, <1>6, <2>1, <2>3 DEF Moves, Carries, Reset
      <3>2. AskedNow(subs[i]) /\ subs'[i] = subs[i]
        BY <1>6, <2>1, <2>3, <3>1 DEF Asked
      <3>3. connectState[B] = "CONNECTED"
        BY <1>7, <2>2, <3>2 DEF AskedNow
      <3>4. state' = "Connected" /\ connectState'[B] = "CONNECTED" /\ last'[B] = last[B]
        BY <1>1, <1>6, <2>1, <3>1, <3>2 DEF AskedNow, Kept
      <3> QED BY <3>2, <3>3, <3>4 DEF AskedNow
    <2> QED BY <2>3 DEF Asked
  <1>16. CASE Disconnects(c, f, s)
    <2>1. s = WithState(c, "DISCONNECTED") /\ "DISCONNECTED" \in States
      BY <1>16 DEF Disconnects, States
    <2>2. s.connectState = "DISCONNECTED" /\ s.subs = subs /\ s.state = state
      BY <1>1, <2>1, StateFields, Zenon
    <2>3. ASSUME NEW i \in SubSlot, subs'[i].active
          PROVE  AskedNow(subs[i])'
      <3>1. AskedNow(subs[i]) /\ subs'[i] = subs[i]
        BY <1>6, <2>2, <2>3 DEF Asked
      <3> QED BY <1>6, <2>2, <3>1 DEF AskedNow
    <2> QED BY <2>3 DEF Asked
  <1>17. ~ Syn(f, SYN1)
    BY <1>8, <1>9, Zenon DEF OneWay
  <1> QED BY <1>4, <1>11, <1>12, <1>13, <1>14, <1>15, <1>16, <1>17, Zenon DEF Handled

\* The subscriptions are asked for now: initially there are none, ...
LEMMA AskedInit ==
  ASSUME ServerInit
  PROVE  Asked
  BY EmptyTable, Zenon DEF ServerInit, Asked

\* ... and every step keeps this.
LEMMA AskedNext ==
  ASSUME Settled, Session, Asked, [ServerNext]_allVars
  PROVE  Asked'
  <1>1. RobotTypes /\ (pc # "deliver" => Agree(Context)) /\ RobotTypes'
    BY SettledNext DEF Settled
  <1>2. CASE ServerDeliver
    <2>1. /\ line[B] # <<>> /\ pc = "deliver" /\ pc' = pc /\ left > 0 /\ left' = left - 1
          /\ \E s \in Ctx : Handled(Context, Head(line[B]), s) /\ Become(s, 1)
      BY <1>1, <1>2, DeliverStep DEF ServerDeliver
    <2> QED BY <1>1, <2>1, AskedDeliver, Zenon
  <1>3. CASE ServerCheck \/ ServerLoop
    <2>1. ServerCheck \/ (ServerLoop /\ Agree(Context))
      BY <1>1, <1>3 DEF ServerLoop
    <2>2. \E s \in Ctx : Agree(s) /\ Moves(Context, s, {}) /\ Become(s, 0)
      BY <1>1, <2>1, LoopStep, Zenon
    <2> QED BY <1>1, <2>2, AskedLoop, Zenon
  <1>4. CASE ClientConnects \/ ClientGivesUp \/ ClientWrites \/ ClientReceives
    BY <1>1, <1>4, AskedClient
  <1>5. CASE ServerWake \/ HeartbeatExpires \/ ServerEnds \/ serverStart \/ UNCHANGED allVars
    <2>1. /\ UNCHANGED <<vars, state, subs>>
          /\ (pc' = "deliver") => (left' = left /\ pc = "deliver") \/ pc = "asleep"
          /\ pc = "deliver" => pc' = "deliver"
      BY <1>5, IdleStep
    <2>2. connectState' = connectState /\ last' = last /\ line' = line /\ subs' = subs /\ state' = state
      BY <2>1 DEF vars
    <2>3. ASSUME NEW i \in SubSlot, subs'[i].active
          PROVE  AskedNow(subs[i])'
      <3>1. AskedNow(subs[i])
        BY <2>2, <2>3 DEF Asked
      <3> QED BY <2>1, <2>2, <3>1 DEF AskedNow
    <2> QED BY <2>3 DEF Asked
  <1> QED BY <1>2, <1>3, <1>4, <1>5 DEF ServerNext

\* If the client connects, or gives a connection up, only when nothing is under
\* way, then every subscription was asked for on the connection the robot has when
\* its thread sleeps: for every table and history, although a disconnection and a
\* new handshake in one batch are not noticed by the server between the two.
THEOREM SubscriptionsAreOfThisConnection ==
  ASSUME Careful
  PROVE  ServerSpec => []SubscriptionsOfThisConnection
  <1>1. ServerInit => Session /\ Asked
    BY SessionInit, AskedInit
  <1>2. Settled /\ Session /\ Asked /\ [ServerNext]_allVars => Session' /\ Asked'
    BY SessionNext, AskedNext
  <1>3. Asked => SubscriptionsOfThisConnection
    BY DEF Asked, AskedNow, SubscriptionsOfThisConnection
  <1> QED BY <1>1, <1>2, <1>3, SettledAlways, PTL DEF ServerSpec
==============================================================================
