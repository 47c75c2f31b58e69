--------------------------------- MODULE Sfp ---------------------------------
(***************************************************************************)
(* Two endpoints of the serial framing protocol of                         *)
(* src/src/serial_framing_protocol.c at the ends of a serial line.         *)
(*                                                                         *)
(* A frame is one step: sfpDeliverOctet keeps no state from one frame to   *)
(* the next but what is modelled here.  The line keeps frames in order and *)
(* may damage them; damage to an octet makes the CRC or the length wrong   *)
(* (the receiver answers NAK), damage to both flags or an overlong packet  *)
(* makes the frame vanish.  The transmit history is the abstract queue     *)
(* that PotRingbuffer is shown to implement.                               *)
(***************************************************************************)
EXTENDS Integers, Sequences, SequencesExt

CONSTANTS A, B,            \* the endpoints
          SEQ_RANGE,       \* SFP_SEQ_RANGE, 64
          HISTORY,         \* SFP_CONFIG_HISTORY_CAPACITY, 8
          Careful,         \* do the applications keep within the history?
          MAX_PACKETS,     \* bounds: packets an endpoint writes,
          MAX_STARTS,      \*   calls of sfpConnect and sfpInit,
          MAX_FAULTS       \*   frames the line damages

Endpoints == {A, B}
Seq6 == 0 .. (SEQ_RANGE - 1)

\* The SYN frames need four sequence numbers.
ASSUME SfpAssumption == /\ A # B
                        /\ SEQ_RANGE \in Nat /\ SEQ_RANGE >= 4
                        /\ HISTORY \in 1 .. (SEQ_RANGE - 1)
                        /\ Careful \in BOOLEAN
                        /\ {MAX_PACKETS, MAX_STARTS, MAX_FAULTS} \subseteq Nat

VARIABLES
  connectState,  \* connectState[e]
  rxSeq, txSeq,  \* rx.seq and tx.seq
  history,       \* tx.history
  line,          \* line[e]: the frames on their way to e
  stream,        \* stream[e]: how often e started over with tx.seq = 0
  written,       \* written[e]: packets written since
  last,          \* last[e]: the packet last delivered to e since rx.seq was 0
  intact,        \* intact[e]: no frame has vanished since e's last packet, and no
                 \* request for a retransmission by e has been spoilt
  starts, faults

vars == <<connectState, rxSeq, txSeq, history, line, stream, written, last, intact, starts, faults>>

Peer(e) == IF e = A THEN B ELSE A

\* A packet is known by the stream it was written in and its place there.
Packet == [stream : Nat, num : Nat]
NoPacket == [stream |-> 0, num |-> 0]

SYN0 == 0
SYN1 == 1
SYN2 == 2
DIS == 3

Frame == [type : {"USR", "RTX", "NAK", "SYN", "BAD"}, seq : Seq6, packet : Packet]

Control(type, seq) == [type |-> type, seq |-> seq, packet |-> NoPacket]

TypeOK ==
  /\ connectState \in [Endpoints -> {"DISCONNECTED", "SENT_SYN0", "SENT_SYN1", "CONNECTED"}]
  /\ rxSeq \in [Endpoints -> Seq6]
  /\ txSeq \in [Endpoints -> Seq6]
  /\ history \in [Endpoints -> Seq(Packet)]
  /\ \A e \in Endpoints : Len(history[e]) <= HISTORY
  /\ line \in [Endpoints -> Seq(Frame)]
  /\ stream \in [Endpoints -> Nat]
  /\ written \in [Endpoints -> Nat]
  /\ last \in [Endpoints -> Packet]
  /\ intact \in [Endpoints -> BOOLEAN]
  /\ starts \in Nat /\ faults \in Nat

-----------------------------------------------------------------------------
(* Transmission.                                                           *)

Plus(seq, n) == (seq + n) % SEQ_RANGE

\* e takes the frame at the head of its line and sends frames to its peer.
Reply(e, frames) ==
  line' = [line EXCEPT ![e] = Tail(@), ![Peer(e)] = @ \o frames]

\* Mutant of PushBack: the history grows.
PushBackGrows(h, packet) == Append(h, packet)

\* potRingbufferPushBack: a full history loses its oldest packet.
PushBack(h, packet) == IF Len(h) = HISTORY THEN Append(Tail(h), packet) ELSE Append(h, packet)

\* Mutant of Rewound: the packets the peer has are sent again.
RewoundNot(h, tx, seq) == h

\* sfpTransmitHistoryFromSeq: what is left of a history of a sender at seq
\* number tx when it goes back to seq ...
Rewound(h, tx, seq) ==
  LET fastforward == (seq - (tx - Len(h))) % SEQ_RANGE
  IN  IF Len(h) > fastforward THEN SubSeq(h, fastforward + 1, Len(h)) ELSE h

\* ... and the frames it sends from there.
Resent(h, seq) ==
  [i \in 1 .. Len(h) |-> [type |-> "RTX", seq |-> Plus(seq, i - 1), packet |-> h[i]]]

\* The reply and the state of e after a retransmission from seq, behind the
\* frames sent first.
Resynchronize(e, seq, first) ==
  LET h == Rewound(history[e], txSeq[e], seq) IN
  /\ history' = [history EXCEPT ![e] = h]
  /\ txSeq' = [txSeq EXCEPT ![e] = Plus(seq, Len(h))]
  /\ Reply(e, first \o Resent(h, seq))

\* rx.seq, tx.seq and the history start over (sfpInit, sfpConnect, SYN0).
StartOver(e) ==
  /\ rxSeq' = [rxSeq EXCEPT ![e] = 0]
  /\ txSeq' = [txSeq EXCEPT ![e] = 0]
  /\ history' = [history EXCEPT ![e] = <<>>]
  /\ stream' = [stream EXCEPT ![e] = @ + 1]
  /\ written' = [written EXCEPT ![e] = 0]
  /\ last' = [last EXCEPT ![e] = NoPacket]

\* A careful application connects, or gives a connection up, only when nothing
\* is under way.
Start == /\ starts < MAX_STARTS /\ starts' = starts + 1
         /\ Careful => \A e \in Endpoints : line[e] = <<>>

sfpInit(e) ==
  /\ Start
  /\ StartOver(e)
  /\ connectState' = [connectState EXCEPT ![e] = "DISCONNECTED"]
  /\ UNCHANGED <<line, intact, faults>>

sfpConnect(e) ==
  /\ Start
  /\ StartOver(e)
  /\ line' = [line EXCEPT ![Peer(e)] = Append(@, Control("SYN", SYN0))]
  /\ connectState' = [connectState EXCEPT ![e] = "SENT_SYN0"]
  /\ UNCHANGED <<intact, faults>>

\* How many packets e may yet be asked to go back: the distance to what its
\* peer expects, to a NAK on the way, to a SYN1 or SYN2 on the way.
Behind(e) ==
  LET asked == {line[e][i] : i \in 1 .. Len(line[e])}
      from == {rxSeq[Peer(e)]}
                \cup {f.seq : f \in {g \in asked : g.type = "NAK"}}
                \cup {0 : f \in {g \in asked : g.type = "SYN" /\ g.seq \in {SYN1, SYN2}}}
  IN  {(txSeq[e] - s) % SEQ_RANGE : s \in from}

\* sfpWritePacket asks for nothing; its caller server.c asks for a connection.
\* Nobody asks how far behind the peer is; a careful application would.
sfpWritePacket(e) ==
  /\ written[e] < MAX_PACKETS
  /\ connectState[e] = "CONNECTED"
  /\ Careful => \A d \in Behind(e) : d < HISTORY
  /\ LET packet == [stream |-> stream[e], num |-> written[e] + 1]
     IN  /\ history' = [history EXCEPT ![e] = PushBack(@, packet)]
         /\ line' = [line EXCEPT ![Peer(e)] =
                       Append(@, [type |-> "USR", seq |-> txSeq[e], packet |-> packet])]
  /\ txSeq' = [txSeq EXCEPT ![e] = Plus(@, 1)]
  /\ written' = [written EXCEPT ![e] = @ + 1]
  /\ intact' = [intact EXCEPT ![e] = TRUE]
  /\ UNCHANGED <<connectState, rxSeq, stream, last, starts, faults>>

-----------------------------------------------------------------------------
(* Reception (sfpHandleFrame).                                             *)

Arrives(e, type) == line[e] # <<>> /\ Head(line[e]).type = type
Got(e) == Head(line[e])

\* What an endpoint that is not connected answers to anything but a SYN.
NotConnectedReply(e) ==
  CASE connectState[e] = "DISCONNECTED" -> Control("SYN", DIS)
    [] connectState[e] = "SENT_SYN0" -> Control("SYN", SYN0)
    [] connectState[e] = "SENT_SYN1" -> Control("SYN", SYN1)

HandleNotConnected(e) ==
  /\ connectState[e] # "CONNECTED"
  /\ Arrives(e, "USR") \/ Arrives(e, "RTX") \/ Arrives(e, "NAK")
  /\ Reply(e, <<NotConnectedReply(e)>>)
  /\ UNCHANGED <<connectState, rxSeq, txSeq, history, stream, written, last, intact, starts, faults>>

\* A frame that fails the check of its length or CRC, in any state.
HandleBad(e) ==
  /\ Arrives(e, "BAD")
  /\ Reply(e, <<Control("NAK", rxSeq[e])>>)
  /\ UNCHANGED <<connectState, rxSeq, txSeq, history, stream, written, last, intact, starts, faults>>

IsData(e) == Arrives(e, "USR") \/ Arrives(e, "RTX")

\* A packet with the expected number is delivered.
Accepts(e) == connectState[e] = "CONNECTED" /\ IsData(e) /\ Got(e).seq = rxSeq[e]

DeliverUSR(e) ==
  /\ Accepts(e)
  /\ last' = [last EXCEPT ![e] = Got(e).packet]
  /\ rxSeq' = [rxSeq EXCEPT ![e] = Plus(@, 1)]
  /\ Reply(e, <<>>)
  /\ UNCHANGED <<connectState, txSeq, history, stream, written, intact, starts, faults>>

\* Mutant of RefuseUSR: the gap is not reported.
RefuseUSRSilently(e) ==
  /\ connectState[e] = "CONNECTED" /\ IsData(e) /\ ~ Accepts(e)
  /\ Reply(e, <<>>)
  /\ UNCHANGED <<connectState, rxSeq, txSeq, history, stream, written, last, intact, starts, faults>>

\* Any other is dropped; a retransmission silently.
RefuseUSR(e) ==
  /\ connectState[e] = "CONNECTED" /\ IsData(e) /\ ~ Accepts(e)
  /\ Reply(e, IF Arrives(e, "USR") THEN <<Control("NAK", rxSeq[e])>> ELSE <<>>)
  /\ UNCHANGED <<connectState, rxSeq, txSeq, history, stream, written, last, intact, starts, faults>>

HandleNAK(e) ==
  /\ connectState[e] = "CONNECTED" /\ Arrives(e, "NAK")
  /\ IF Got(e).seq = txSeq[e]
     THEN Reply(e, <<>>) /\ UNCHANGED <<history, txSeq>>
     ELSE Resynchronize(e, Got(e).seq, <<>>)
  /\ UNCHANGED <<connectState, rxSeq, stream, written, last, intact, starts, faults>>

ArrivesSYN(e, n) == Arrives(e, "SYN") /\ Got(e).seq = n

HandleSYN0(e) ==
  /\ ArrivesSYN(e, SYN0)
  /\ StartOver(e)
  /\ Reply(e, <<Control("SYN", SYN1)>>)
  /\ connectState' = [connectState EXCEPT ![e] = "SENT_SYN1"]
  /\ UNCHANGED <<intact, starts, faults>>

\* SYN1 and SYN2 connect; what has been written meanwhile is sent again.
Connected(e, first) ==
  /\ IF txSeq[e] = 0
     THEN Reply(e, first) /\ UNCHANGED <<history, txSeq>>
     ELSE Resynchronize(e, 0, first)
  /\ connectState' = [connectState EXCEPT ![e] = "CONNECTED"]

Refused(e, n) ==
  /\ Reply(e, <<Control("SYN", n)>>)
  /\ UNCHANGED <<connectState, history, txSeq>>

HandleSYN1(e) ==
  /\ ArrivesSYN(e, SYN1)
  /\ IF connectState[e] = "DISCONNECTED"
     THEN Refused(e, DIS)
     ELSE Connected(e, <<Control("SYN", SYN2)>>)
  /\ UNCHANGED <<rxSeq, stream, written, last, intact, starts, faults>>

HandleSYN2(e) ==
  /\ ArrivesSYN(e, SYN2)
  /\ IF connectState[e] = "DISCONNECTED" THEN Refused(e, DIS)
     ELSE IF connectState[e] = "SENT_SYN0" THEN Refused(e, SYN0)
     ELSE Connected(e, <<>>)
  /\ UNCHANGED <<rxSeq, stream, written, last, intact, starts, faults>>

\* Mutant of HandleDIS: it is answered like any other frame.
HandleDISAnswered(e) ==
  /\ ArrivesSYN(e, DIS)
  /\ connectState' = [connectState EXCEPT ![e] = "DISCONNECTED"]
  /\ Reply(e, IF connectState[e] = "DISCONNECTED" THEN <<Control("SYN", DIS)>> ELSE <<>>)
  /\ UNCHANGED <<rxSeq, txSeq, history, stream, written, last, intact, starts, faults>>

HandleDIS(e) ==
  /\ ArrivesSYN(e, DIS)
  /\ connectState' = [connectState EXCEPT ![e] = "DISCONNECTED"]
  /\ Reply(e, <<>>)
  /\ UNCHANGED <<rxSeq, txSeq, history, stream, written, last, intact, starts, faults>>

sfpHandleFrame(e) == \/ HandleBad(e) \/ HandleNotConnected(e)
                     \/ DeliverUSR(e) \/ RefuseUSR(e) \/ HandleNAK(e)
                     \/ HandleSYN0(e) \/ HandleSYN1(e) \/ HandleSYN2(e) \/ HandleDIS(e)

-----------------------------------------------------------------------------
(* The line.                                                               *)

Damage(e, damaged) ==
  /\ faults < MAX_FAULTS /\ faults' = faults + 1
  /\ line' = [line EXCEPT ![e] = damaged]
  /\ UNCHANGED <<connectState, rxSeq, txSeq, history, stream, written, last, starts>>

Lose(e) ==
  /\ \E i \in 1 .. Len(line[e]) : Damage(e, RemoveAt(line[e], i))
  /\ intact' = [d \in Endpoints |-> FALSE]

Corrupt(e) ==
  \E i \in 1 .. Len(line[e]) :
    /\ Damage(e, [line[e] EXCEPT ![i] = Control("BAD", 0)])
    /\ intact' = [intact EXCEPT ![e] = @ /\ line[e][i].type # "NAK"]

-----------------------------------------------------------------------------
Init ==
  /\ connectState = [e \in Endpoints |-> "DISCONNECTED"]
  /\ rxSeq = [e \in Endpoints |-> 0]
  /\ txSeq = [e \in Endpoints |-> 0]
  /\ history = [e \in Endpoints |-> <<>>]
  /\ line = [e \in Endpoints |-> <<>>]
  /\ stream = [e \in Endpoints |-> 1]
  /\ written = [e \in Endpoints |-> 0]
  /\ last = [e \in Endpoints |-> NoPacket]
  /\ intact = [e \in Endpoints |-> TRUE]
  /\ starts = 0 /\ faults = 0

Next == \E e \in Endpoints : \/ sfpInit(e) \/ sfpConnect(e) \/ sfpWritePacket(e)
                             \/ sfpHandleFrame(e)
                             \/ Lose(e) \/ Corrupt(e)

Spec == Init /\ [][Next]_vars

\* Frames that are on the line are handled.  Nobody has to write or connect.
FairSpec == Spec /\ \A e \in Endpoints : WF_vars(sfpHandleFrame(e))

-----------------------------------------------------------------------------
(* Properties.                                                             *)

\* Follows(p, q): packet p is the one to be delivered after q.
Follows(p, q) == IF q.stream = p.stream THEN p.num = q.num + 1 ELSE p.num = 1

\* Packets are delivered in the order they were written, none left out and
\* none twice: the frame an endpoint is about to accept holds the successor of
\* the packet it delivered last.
ExactDelivery ==
  \A e \in Endpoints : Accepts(e) => Follows(Got(e).packet, last[e])

\* "Good user frame received and accepted": a packet that was delivered
\* is never delivered again.
NoDuplicate ==
  \A e \in Endpoints :
    Accepts(e) /\ Got(e).packet.stream = last[e].stream => Got(e).packet.num > last[e].num

\* Damage is repaired by the traffic that follows it: once a connection is
\* quiet, every packet has been delivered, unless a frame vanished or a NAK was
\* spoilt after the last packet was written - there is no timer that would
\* notice.
QuietMeansDelivered ==
  (\A e \in Endpoints : line[e] = <<>> /\ connectState[e] = "CONNECTED") =>
    \A e \in Endpoints :
      intact[e] /\ written[e] > 0
        => last[Peer(e)] = [stream |-> stream[e], num |-> written[e]]

\* Retransmission requests do not feed on each other: when nothing more is
\* written, connected or damaged, the line falls silent.
LineFallsSilent == <>[](\A e \in Endpoints : line[e] = <<>>)
=============================================================================
