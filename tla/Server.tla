------------------------------- MODULE Server -------------------------------
(***************************************************************************)
(* The robot's server (src/src/server.c) and the subscriptions of its RPC  *)
(* system (src/src/rpc.c) on top of the serial framing protocol: B is the  *)
(* robot, A the computer at the other end of the line.                     *)
(*                                                                         *)
(* The protocol calls the server back, for every frame it transmits        *)
(* (serverWrite) and every packet it delivers (serverRead).  Both look at  *)
(* the connection and may start the protocol over while one of its own     *)
(* handlers is at work; the handler then goes on with what it finds and    *)
(* stores what it had in mind.  So the robot's side is here a chain of     *)
(* functions from context to context that follows the code call by call.   *)
(*                                                                         *)
(* The heart beat may run out between two frames or before the             *)
(* publications, not within a handler.  The line is sound: Sfp is about    *)
(* damage.                                                                 *)
(***************************************************************************)
EXTENDS Sfp

CONSTANTS SUB_MAX,       \* RPC_SUB_MAX, 10
          ReqIds,        \* request ids the client uses
          Topics,        \* topics it subscribes to
          Answers,       \* numbers of messages a request is answered with
          MAX_PUBLISHED, \* bounds: packets after which nothing more is published,
          MAX_DROPS      \*   times the heart beat runs out or the thread ends

ASSUME ServerAssumption ==
  /\ SUB_MAX \in Nat \ {0} /\ Answers \subseteq Nat /\ {MAX_PUBLISHED, MAX_DROPS} \subseteq Nat
  /\ Topics \subseteq {"clock", "motor", "all", "bad"}

VARIABLES
  state,     \* server.state
  subs,      \* rpc.subs
  expired,   \* more than 5000 ms since rpc.heartbeat
  fresh,     \* rpc.heartbeat is from this round of the thread
  pc,        \* the server's thread: where it is in its loop, or "ended"
  left,      \* frames left of what sdAsynchronousRead returned
  dropped,   \* the server has given the connection up by itself since the
             \* client connected or wrote last
  torn,      \* it has done so under a handler that then declared the link
             \* connected
  drops

srvVars == <<state, subs, expired, fresh, pc, left, dropped, torn, drops>>
allVars == <<vars, srvVars>>

SubSlot == 1 .. SUB_MAX

\* A subscription; from is the stream of the client that asked for it.
NoSub == [active |-> FALSE]
Sub(r, t, from) == [active |-> TRUE, req_id |-> r, topic |-> t, from |-> from]
NoSubs == [i \in SubSlot |-> NoSub]

\* Messages, by what rpcRecv does with them: a "request" (ping, pong, info,
\* data, read, write) is answered a number of times, an "unknown" message is
\* one that rpcRecv does not know or message_deserialize refuses.
Message == [op : {"unknown"}] \cup [op : {"request"}, answers : Answers]
             \cup [op : {"subscribe"}, req_id : ReqIds, topic : Topics]
             \cup [op : {"unsubscribe"}, req_id : ReqIds]

ServerTypeOK ==
  /\ TypeOK
  /\ state \in {"Connected", "Disconnected"}
  /\ DOMAIN subs = SubSlot
  /\ \A i \in SubSlot : \/ subs[i] = NoSub
                        \/ \E r \in ReqIds, t \in Topics : subs[i] = Sub(r, t, subs[i].from)
  /\ {expired, fresh, dropped, torn} \subseteq BOOLEAN
  /\ pc \in {"asleep", "deliver", "publish", "ended"} /\ left \in Nat /\ drops \in 0 .. MAX_DROPS

-----------------------------------------------------------------------------
(* The context of the robot: its SFPcontext, its server_t, what it sends.  *)

Context ==
  [connectState |-> connectState[B], rx |-> rxSeq[B], tx |-> txSeq[B], history |-> history[B],
   stream |-> stream[B], written |-> written[B], last |-> last[B],
   state |-> state, subs |-> subs, expired |-> expired, fresh |-> fresh, dropped |-> dropped, torn |-> torn,
   moved |-> FALSE, out |-> <<>>]

\* The robot's variables are those of context s, its line has lost taken frames.
Become(s, taken) ==
  /\ connectState' = [connectState EXCEPT ![B] = s.connectState]
  /\ rxSeq' = [rxSeq EXCEPT ![B] = s.rx] /\ txSeq' = [txSeq EXCEPT ![B] = s.tx]
  /\ history' = [history EXCEPT ![B] = s.history]
  /\ stream' = [stream EXCEPT ![B] = s.stream]
  /\ written' = [written EXCEPT ![B] = s.written]
  /\ last' = [last EXCEPT ![B] = s.last]
  /\ line' = [line EXCEPT ![A] = @ \o s.out, ![B] = SubSeq(@, taken + 1, Len(@))]
  /\ state' = s.state /\ subs' = s.subs /\ expired' = s.expired /\ fresh' = s.fresh
  /\ dropped' = s.dropped /\ torn' = s.torn
  /\ UNCHANGED <<intact, starts, faults>>

\* Mutant of Cleared: the sender goes on where it was.
ClearedKeepsSender(s) == [s EXCEPT !.rx = 0, !.stream = @ + 1, !.written = 0, !.last = NoPacket,
                                   !.torn = FALSE]

\* rx.seq, tx.seq and the history start over.
Cleared(s) == [s EXCEPT !.rx = 0, !.tx = 0, !.history = <<>>,
                        !.stream = @ + 1, !.written = 0, !.last = NoPacket, !.torn = FALSE]

\* serverReset, sfpInit included.
serverReset(s) == [Cleared(s) EXCEPT !.connectState = "DISCONNECTED",
                                     !.state = "Disconnected", !.subs = NoSubs]

\* Mutant of serverCheckConnection: the link is not looked at again.
serverCheckConnectionOnce(s) ==
  IF s.state = "Disconnected"
  THEN IF s.connectState = "CONNECTED"
       THEN [s EXCEPT !.state = "Connected", !.subs = NoSubs, !.expired = FALSE, !.fresh = TRUE] ELSE s
  ELSE IF s.expired THEN [serverReset(s) EXCEPT !.dropped = TRUE] ELSE s

\* Mutant of serverCheckConnection: the table of subscriptions is kept.
serverCheckConnectionKeepsSubs(s) ==
  IF s.state = "Disconnected"
  THEN IF s.connectState = "CONNECTED" THEN [s EXCEPT !.state = "Connected", !.expired = FALSE, !.fresh = TRUE] ELSE s
  ELSE IF s.connectState # "CONNECTED" \/ s.expired
       THEN [serverReset(s) EXCEPT !.dropped = @ \/ s.expired, !.subs = s.subs] ELSE s

\* serverCheckConnection.  (That rpc.timestamp is 24 days old is left out.)
serverCheckConnection(s) ==
  IF s.state = "Disconnected"
  THEN IF s.connectState = "CONNECTED"
       THEN [s EXCEPT !.state = "Connected", !.subs = NoSubs, !.expired = FALSE, !.fresh = TRUE] ELSE s
  ELSE IF s.connectState # "CONNECTED" \/ s.expired
       THEN [serverReset(s) EXCEPT !.dropped = @ \/ s.expired] ELSE s

-----------------------------------------------------------------------------
(* Transmission, with serverWrite called back at the end of every frame.   *)

Transmit(s, frame) == serverCheckConnection([s EXCEPT !.out = Append(@, frame)])

\* sfpTransmitFrameImpl: the sequence number is read before the frame is sent
\* and counted up after.
TransmitPacket(s, type, packet) ==
  LET t == Transmit(s, [type |-> type, seq |-> s.tx, packet |-> packet])
  IN  [t EXCEPT !.tx = Plus(@, 1)]

\* What potRingbufferAt finds at place i of a ring that potRingbufferInit has
\* emptied: the packet that was stored there last, in context s.
Stored(s, i) ==
  LET nums == {n \in 1 .. s.written : (n - 1) % HISTORY = i - 1}
  IN  IF nums = {} THEN NoPacket ELSE [stream |-> s.stream, num |-> Max(nums)]

\* The packet at place i of the history, in a retransmission that began in
\* context s and is in context t by now, is sent.
Resend(s, t, i) ==
  TransmitPacket(t, "RTX", IF i <= Len(t.history) THEN t.history[i] ELSE Stored(s, i))

\* sfpTransmitHistoryFromSeq: the number of frames is settled beforehand, even
\* if the history is cleared on the way.
TransmitHistoryFromSeq(s, seq) ==
  LET h == Rewound(s.history, s.tx, seq)
      sent[i \in 0 .. Len(h)] ==
        IF i = 0 THEN [s EXCEPT !.history = h, !.tx = seq] ELSE Resend(s, sent[i - 1], i)
  IN  sent[Len(h)]

\* rpcSend and sfpWritePacket: nobody asks whether there still is a connection.
rpcSend(s) ==
  LET packet == [stream |-> s.stream, num |-> s.written + 1]
  IN  TransmitPacket([s EXCEPT !.history = PushBack(@, packet), !.written = @ + 1], "USR", packet)

-----------------------------------------------------------------------------
(* rpc.c                                                                   *)

\* rpcSubFind and rpcSubFree: the slots with a request id, the free slots.
Found(s, r) == {i \in SubSlot : s.subs[i].active /\ s.subs[i].req_id = r}
Free(s) == {i \in SubSlot : ~ s.subs[i].active}

\* Mutant of rpcRecvSubscribe: a full table is not noticed.
rpcRecvSubscribeAnyway(s, m) ==
  LET sub == Sub(m.req_id, m.topic, s.last.stream)
  IN  IF Free(s) = {} THEN [s EXCEPT !.subs = Append(@, sub)]
      ELSE [s EXCEPT !.subs[Min(Free(s))] = sub]

\* rpcRecvSubscribe: rpcSubFind, called without a place for its result, finds
\* nothing, so a request id may be taken twice.
rpcRecvSubscribe(s, m) ==
  IF Free(s) = {} THEN rpcSend(s)
  ELSE [s EXCEPT !.subs[Min(Free(s))] = Sub(m.req_id, m.topic, s.last.stream)]

\* rpcRecvUnsubscribe: "bad request id" is followed by the end of the
\* subscription that does not exist.
rpcRecvUnsubscribe(s, m) ==
  IF Found(s, m.req_id) = {} THEN rpcSend(rpcSend(s))
  ELSE [rpcSend(s) EXCEPT !.subs[Min(Found(s, m.req_id))] = NoSub]

\* The answers to a request.
rpcReply(s, m) ==
  LET replied[i \in 0 .. m.answers] == IF i = 0 THEN s ELSE rpcSend(replied[i - 1])
  IN  replied[m.answers]

\* rpcRecv: the heart beat is renewed after the message has been answered.
rpcRecv(s, m) ==
  LET t == CASE m.op = "request" -> rpcReply(s, m)
             [] m.op = "subscribe" -> rpcRecvSubscribe(s, m)
             [] m.op = "unsubscribe" -> rpcRecvUnsubscribe(s, m)
             [] m.op = "unknown" -> s
  IN  IF m.op = "unknown" THEN t ELSE [t EXCEPT !.expired = FALSE, !.fresh = TRUE]

\* rpcPublishMotor: motor values are sent if they differ from those sent last,
\* so only the first subscriber gets them.
rpcPublishMotor(s) == IF s.moved THEN rpcSend([s EXCEPT !.moved = FALSE]) ELSE s

\* rpcPublish for the subscription in slot i, if it is (still) active.
rpcPublish(s, i) ==
  IF ~ s.subs[i].active THEN s
  ELSE CASE s.subs[i].topic = "clock" -> rpcSend(s)
         [] s.subs[i].topic = "motor" -> rpcPublishMotor(s)
         [] s.subs[i].topic = "all" -> rpcPublishMotor(rpcSend(s))
         [] s.subs[i].topic = "bad" -> [rpcSend(s) EXCEPT !.subs[i] = NoSub]

\* rpcLoop, when the publications, the information on the robot are due.
rpcLoop(s, publish, info) ==
  LET published[i \in 0 .. SUB_MAX] == IF i = 0 THEN s ELSE rpcPublish(published[i - 1], i)
      t == IF publish THEN published[SUB_MAX] ELSE s
  IN  IF info THEN rpcSend(t) ELSE t

-----------------------------------------------------------------------------
(* sfpHandleFrame of the robot; m is the message a packet holds.           *)

serverRead(s, m) == serverCheckConnection(rpcRecv(s, m))

\* Mutant of HandleWhileNotConnected: a frame without a connection is ignored.
HandleWhileNotConnectedSilent(s) == s

\* sfpHandleUSR and sfpHandleNAK without a connection.
HandleWhileNotConnected(s) ==
  CASE s.connectState = "DISCONNECTED" -> Transmit(s, Control("SYN", DIS))
    [] s.connectState = "SENT_SYN0" -> Transmit(s, Control("SYN", SYN0))
    [] s.connectState = "SENT_SYN1" -> Transmit(s, Control("SYN", SYN1))

\* sfpHandleUSR: rx.seq is advanced after the packet has been delivered,
\* whatever the delivery made of it.
HandleUSR(s, f, m) ==
  IF f.seq = s.rx
  THEN [serverRead([s EXCEPT !.last = f.packet], m) EXCEPT !.rx = Plus(@, 1)]
  ELSE IF f.type = "USR" THEN Transmit(s, Control("NAK", s.rx)) ELSE s

ServerHandleNAK(s, f) == IF f.seq = s.tx THEN s ELSE TransmitHistoryFromSeq(s, f.seq)

\* sfpHandleSYN0: the state is set last, over a reset by serverWrite.
ServerSYN0(s) ==
  [Transmit(Cleared(s), Control("SYN", SYN1)) EXCEPT !.connectState = "SENT_SYN1"]

\* The end of sfpHandleSYN1 and sfpHandleSYN2.
CatchUp(s) ==
  LET t == IF s.tx = 0 THEN s ELSE TransmitHistoryFromSeq(s, 0)
  IN  [t EXCEPT !.connectState = "CONNECTED", !.torn = @ \/ t.stream # s.stream]

\* sfpHandleSYN.
ServerSYN(s, n) ==
  CASE n = SYN0 -> ServerSYN0(s)
    [] n = SYN1 -> IF s.connectState = "DISCONNECTED" THEN Transmit(s, Control("SYN", DIS))
                   ELSE CatchUp(Transmit(s, Control("SYN", SYN2)))
    [] n = SYN2 -> IF s.connectState \in {"DISCONNECTED", "SENT_SYN0"}
                   THEN HandleWhileNotConnected(s) ELSE CatchUp(s)
    [] n = DIS -> [s EXCEPT !.connectState = "DISCONNECTED"]

HandleFrame(s, f, m) ==
  CASE f.type = "BAD" -> Transmit(s, Control("NAK", s.rx))
    [] f.type = "SYN" -> ServerSYN(s, f.seq)
    [] f.type \in {"USR", "RTX", "NAK"} /\ s.connectState # "CONNECTED" -> HandleWhileNotConnected(s)
    [] f.type \in {"USR", "RTX"} /\ s.connectState = "CONNECTED" -> HandleUSR(s, f, m)
    [] f.type = "NAK" /\ s.connectState = "CONNECTED" -> ServerHandleNAK(s, f)

-----------------------------------------------------------------------------
(* serverThread.                                                           *)

\* The thread wakes up and reads what has arrived.
ServerWake ==
  /\ pc = "asleep" /\ pc' = "deliver"
  /\ left' \in 0 .. Len(line[B])
  /\ fresh' = FALSE
  /\ UNCHANGED <<vars, state, subs, expired, dropped, torn, drops>>

ServerDeliver ==
  /\ pc = "deliver" /\ left > 0 /\ left' = left - 1
  /\ \E m \in Message : \E s \in {HandleFrame(Context, Head(line[B]), m)} : Become(s, 1)
  /\ UNCHANGED <<pc, drops>>

\* Everything has been delivered.
ServerCheck ==
  /\ pc = "deliver" /\ left = 0
  /\ \E s \in {serverCheckConnection(Context)} : Become(s, 0)
  /\ pc' = IF state' = "Connected" THEN "publish" ELSE "asleep"
  /\ UNCHANGED <<left, drops>>

ServerLoop ==
  /\ pc = "publish" /\ pc' = "asleep"
  /\ \E publish, info, moved \in BOOLEAN :
       /\ publish \/ info => written[B] < MAX_PUBLISHED
       /\ moved => publish
       /\ \E s \in {rpcLoop([Context EXCEPT !.moved = moved], publish, info)} : Become(s, 0)
  /\ UNCHANGED <<left, drops>>

Drop == drops < MAX_DROPS /\ drops' = drops + 1

\* Nothing has been received for 5000 ms, which is longer than a round takes.
HeartbeatExpires ==
  /\ Drop
  /\ state = "Connected" /\ ~ expired /\ expired' = TRUE
  /\ pc = "asleep" \/ ~ fresh
  /\ UNCHANGED <<vars, state, subs, fresh, pc, left, dropped, torn>>

\* A phase of the competition ends: the thread ends in its vexSleep, so the
\* serverReset behind its loop is never reached and all is left as it is ...
ServerEnds ==
  /\ Drop
  /\ pc = "asleep" /\ pc' = "ended"
  /\ UNCHANGED <<vars, state, subs, expired, fresh, left, dropped, torn>>

\* ... until the program starts it again, with a new heart beat.
serverStart ==
  /\ pc = "ended" /\ pc' = "asleep"
  /\ expired' = FALSE
  /\ UNCHANGED <<vars, state, subs, fresh, left, dropped, torn, drops>>

-----------------------------------------------------------------------------
(* The client.                                                             *)

ClientConnects ==
  /\ pc # "deliver" /\ sfpConnect(A)
  /\ dropped' = FALSE
  /\ UNCHANGED <<state, subs, expired, fresh, pc, left, torn, drops>>

ClientGivesUp == pc # "deliver" /\ sfpInit(A) /\ UNCHANGED srvVars

ClientWrites ==
  /\ sfpWritePacket(A)
  /\ dropped' = FALSE
  /\ UNCHANGED <<state, subs, expired, fresh, pc, left, torn, drops>>

ClientReceives == sfpHandleFrame(A) /\ UNCHANGED srvVars

ServerInit ==
  /\ Init
  /\ state = "Disconnected" /\ subs = NoSubs
  /\ expired = FALSE /\ fresh = FALSE /\ dropped = FALSE /\ torn = FALSE
  /\ pc = "asleep" /\ left = 0 /\ drops = 0

ServerNext ==
  \/ ServerWake \/ ServerDeliver \/ ServerCheck \/ ServerLoop
  \/ HeartbeatExpires \/ ServerEnds \/ serverStart
  \/ ClientConnects \/ ClientGivesUp \/ ClientWrites \/ ClientReceives

ServerSpec == ServerInit /\ [][ServerNext]_allVars

-----------------------------------------------------------------------------
(* Properties.                                                             *)

\* When the thread sleeps, server and link agree on whether there is a
\* connection, although the server's callbacks reset the link in the middle of
\* its handlers, which then overwrite connectState.
ServerFollowsLink ==
  pc = "asleep" => (state = "Connected" <=> connectState[B] = "CONNECTED")

\* Every subscription was asked for on the connection the robot now has:
\* none is carried over to a client that comes back, none outlives a
\* connection.
SubscriptionsOfThisConnection ==
  pc = "asleep" =>
    \A i \in SubSlot : subs[i].active => state = "Connected" /\ subs[i].from = last[B].stream

\* While both sides hold the connection, packets are delivered in order, none
\* left out and none twice: not even the sequence number that sfpHandleUSR
\* advances after the delivery has reset it, or the frames sfpTransmitHistory
\* reads from a history that was cleared under it, spoil the next connection.
\* (A robot that has just given up still sends what rpcLoop has left to send,
\* from a new history; a client may take some of it for the old stream.  And
\* a robot that gives up while it answers a late second SYN2 is connected
\* afterwards, with sequence numbers that start over: torn.)
DeliveryOnLiveConnection ==
  \A e \in Endpoints :
    Accepts(e) /\ connectState[Peer(e)] = "CONNECTED" /\ ~ torn => Follows(Got(e).packet, last[e])

\* A client that believes in a connection, and the robot, do not differ about
\* it once the line is quiet, unless the server has given it up since the
\* client connected or wrote last (then the next packet tells the client).
QuietAgreement ==
  (\A e \in Endpoints : line[e] = <<>>) /\ ~ dropped /\ connectState[A] = "CONNECTED"
    => connectState[B] = "CONNECTED"
=============================================================================
