------------------------------- MODULE Link --------------------------------
(***************************************************************************)
(* The data link layer of every node (src/link.c) and the wireless medium  *)
(* between the nodes.  An event handler runs to completion before cnet     *)
(* raises the next event, so each handler is one action:                   *)
(*   LinkSendData, LinkSendInfo - calls from the network and oracle layers *)
(*   Send      - EV_TIMER2          Timeout - EV_TIMER1                    *)
(*   Receive   - EV_PHYSICALREADY   Collision - EV_FRAMECOLLISION          *)
(* A frame is queued in buf, announced with an RTS, sent as DATA when a    *)
(* CTS comes back, and acknowledged with an ACK.                           *)
(*                                                                         *)
(* A data frame is the position of its link_send_data call in accepted, a  *)
(* history of those calls.  A beacon has no identity here.                 *)
(***************************************************************************)
EXTENDS Integers, Sequences, Functions, CnetTimer

CONSTANTS
  Node,        \* the nodes
  Route,       \* the pairs <<n, d>> such that n's network layer sends to d
  InRange,     \* the pairs <<n, m>> such that m may hear n
  Beaconing,   \* the nodes whose oracle sends beacons
  Undefined,   \* what a build may make of reading an uninitialised frame
  MaxFrames,   \* bound: link_send_data calls in a behaviour
  MaxAir,      \* bound: frames on their way to one receiver
  MaxBackoff   \* bound: collisions in a row that backoff counts

ASSUME LinkAssumption ==
  /\ Route \subseteq {r \in Node \X Node : r[1] # r[2]}
  /\ InRange \subseteq {r \in Node \X Node : r[1] # r[2]}
  /\ Beaconing \subseteq Node
  /\ Undefined \subseteq {"abort", "junk", "stale"}
  /\ MaxFrames \in Nat
  /\ MaxAir \in Nat
  /\ MaxBackoff \in Nat

VARIABLES
  buf,          \* [n] queue of data frames not yet transmitted
  info,         \* [n] a beacon is stored in info
  sent_info,    \* [n] the stored beacon has been sent
  sending_data, \* [n] an RTS is out and the exchange has not ended
  numTimeouts,  \* [n] expired EV_TIMER1 timers since the last give-up
  backoff,      \* [n] collisions since the carrier was last sensed idle
  local_timer,  \* [n] the EV_TIMER1 timers
  sendTimer,    \* [n] the EV_TIMER2 timers
  air,          \* [n] frames that will reach n, in order of arrival
  accepted,     \* history: the frames passed to link_send_data
  transmitted,  \* history: the frames sent as DATA
  dropped,      \* history: the frames that timeout dequeued
  delivered,    \* history: [n] the frames passed up to net_recv
  undef,        \* history: an uninitialised frame has been read
  halted        \* an assert or a CHECK has failed and ended the simulation

history == <<transmitted, dropped>>
queues  == <<buf, info, sent_info, accepted>>
flags   == <<sending_data, numTimeouts, backoff>>
timers  == <<local_timer, sendTimer>>
faults  == <<undef, halted>>
vars    == <<history, queues, flags, timers, faults, air, delivered>>

-----------------------------------------------------------------------------
(* Frames *)

Control(type, n, d) == [type |-> type, src |-> n, dest |-> d, id |-> 0]
Beacon(n)  == Control("BEACON", n, n)     \* dest is ALLNODES, never tested
Junk(n, d) == Control("DATA", n, d)       \* bytes that nobody queued
Data(i) == [type |-> "DATA", src |-> accepted[i].src,
            dest |-> accepted[i].dest, id |-> i]

FrameType == {"BEACON", "RTS", "CTS", "DATA", "ACK"}
FrameId   == 1 .. Len(accepted)
Frame     == [type : FrameType, src : Node, dest : Node, id : Nat]

(* CNET_write_physical by n: any of the nodes in range may hear the frame. *)
(* The rest have moved away, or get it with a bad checksum, or a collision *)
(* destroys it.  Frames that overlap at a receiver destroy each other, so  *)
(* those that survive arrive in the order they were sent.                  *)
Broadcast(a, n, f) ==
  {[m \in Node |-> IF m \in R THEN Append(a[m], f) ELSE a[m]] :
     R \in SUBSET {m \in Node : <<n, m>> \in InRange /\ Len(a[m]) < MaxAir}}

-----------------------------------------------------------------------------
Init ==
  /\ buf          = [n \in Node |-> <<>>]
  /\ info         = [n \in Node |-> FALSE]
  /\ sent_info    = [n \in Node |-> FALSE]
  /\ sending_data = [n \in Node |-> FALSE]
  /\ numTimeouts  = [n \in Node |-> 0]
  /\ backoff      = [n \in Node |-> 0]
  /\ local_timer  = [n \in Node |-> NoTimer]
  /\ sendTimer    = [n \in Node |-> Start(NoTimer)]
  /\ air          = [n \in Node |-> <<>>]
  /\ accepted     = <<>>
  /\ transmitted  = {}
  /\ dropped      = {}
  /\ delivered    = [n \in Node |-> <<>>]
  /\ undef        = FALSE
  /\ halted       = FALSE

-----------------------------------------------------------------------------
(* Calls from the layers above *)

EnqueueInFront(n, d) ==                                \* a faulty variant
  /\ <<n, d>> \in Route
  /\ Len(accepted) < MaxFrames
  /\ accepted' = Append(accepted, [src |-> n, dest |-> d])
  /\ buf' = [buf EXCEPT ![n] = <<Len(accepted) + 1>> \o @]

(* link_send_data(msg, len, d) at n: append a data frame to buf. *)
Enqueue(n, d) ==
  /\ <<n, d>> \in Route
  /\ Len(accepted) < MaxFrames
  /\ accepted' = Append(accepted, [src |-> n, dest |-> d])
  /\ buf' = [buf EXCEPT ![n] = Append(@, Len(accepted) + 1)]

LinkSendData(n, d) ==
  /\ Enqueue(n, d)
  /\ UNCHANGED <<history, info, sent_info, flags, timers, faults, air,
                 delivered>>

(* A frame passed up may come back down: net_recv forwards a packet, and   *)
(* oracle_recv flushes the network layer's buffer.  The flush may queue    *)
(* several frames; LinkSendData steps stand for those after the first.     *)
UpcallSends(n) ==
  \/ UNCHANGED <<accepted, buf>>
  \/ \E d \in Node : Enqueue(n, d)

(* link_send_info: the latest beacon replaces one that is still waiting. *)
LinkSendInfo(n) ==
  /\ n \in Beaconing
  /\ info' = [info EXCEPT ![n] = TRUE]
  /\ sent_info' = [sent_info EXCEPT ![n] = FALSE]
  /\ UNCHANGED <<history, buf, accepted, flags, timers, faults, air,
                 delivered>>

-----------------------------------------------------------------------------
(* send: the handler of EV_TIMER2.  Each alternative ends by arming the    *)
(* next send timer.                                                        *)

SendTimerFires(n) ==
  \E t \in Expired(sendTimer[n]) :
    sendTimer' = [sendTimer EXCEPT ![n] = Start(t)]

CarrierIdle(n) == backoff' = [backoff EXCEPT ![n] = 0]

InfoWaiting(n) == ~sent_info[n] /\ info[n]
DataWaiting(n) == ~sending_data[n] /\ buf[n] # <<>>

SendBeacon(n) ==
  /\ InfoWaiting(n)
  /\ SendTimerFires(n)
  /\ CarrierIdle(n)
  /\ air' \in Broadcast(air, n, Beacon(n))
  /\ info' = [info EXCEPT ![n] = FALSE]
  /\ sent_info' = [sent_info EXCEPT ![n] = TRUE]
  /\ UNCHANGED <<history, buf, accepted, sending_data, numTimeouts,
                 local_timer, faults, delivered>>

SendRts(n) ==
  /\ ~InfoWaiting(n)
  /\ DataWaiting(n)
  /\ SendTimerFires(n)
  /\ CarrierIdle(n)
  /\ air' \in Broadcast(air, n, Control("RTS", n, Data(Head(buf[n])).dest))
  /\ sending_data' = [sending_data EXCEPT ![n] = TRUE]
  /\ local_timer' = [local_timer EXCEPT ![n] = Start(@)]
  /\ UNCHANGED <<history, queues, numTimeouts, faults, delivered>>

SendNothingForgets(n) ==                               \* a faulty variant
  /\ \E t \in Expired(sendTimer[n]) : sendTimer' = [sendTimer EXCEPT ![n] = t]
  /\ UNCHANGED <<history, queues, flags, local_timer, faults, air, delivered>>

(* The carrier is busy, or there is nothing to send. *)
SendNothing(n) ==
  /\ SendTimerFires(n)
  /\ \/ UNCHANGED backoff
     \/ ~InfoWaiting(n) /\ ~DataWaiting(n) /\ CarrierIdle(n)
  /\ UNCHANGED <<history, queues, sending_data, numTimeouts, local_timer,
                 faults, air, delivered>>

Send(n) == SendBeacon(n) \/ SendRts(n) \/ SendNothing(n)

(* collision: the handler of EV_FRAMECOLLISION.  CHECK ends the simulation *)
(* if sendTimer names no running timer.                                    *)
Collision(n) ==
  /\ backoff[n] < MaxBackoff
  /\ halted' = ~sendTimer[n].named
  /\ sendTimer' = [sendTimer EXCEPT ![n] = Start(Stop(@))]
  /\ backoff' = [backoff EXCEPT ![n] = @ + 1]
  /\ UNCHANGED <<history, queues, sending_data, numTimeouts, local_timer,
                 undef, air, delivered>>

-----------------------------------------------------------------------------
(* timeout: the handler of EV_TIMER1.  The fourth expiry since the last    *)
(* give-up drops the head of buf, whatever the timer had been started for. *)

GiveUpKeepsCount(n) ==                                 \* a faulty variant
  /\ numTimeouts' = [numTimeouts EXCEPT ![n] = @ + 1]
  /\ IF buf[n] = <<>>
       THEN UNCHANGED <<buf, dropped>>
       ELSE /\ buf' = [buf EXCEPT ![n] = Tail(@)]
            /\ dropped' = dropped \cup {Head(buf[n])}

GiveUp(n) ==
  /\ numTimeouts' = [numTimeouts EXCEPT ![n] = 0]
  /\ IF buf[n] = <<>>
       THEN UNCHANGED <<buf, dropped>>
       ELSE /\ buf' = [buf EXCEPT ![n] = Tail(@)]
            /\ dropped' = dropped \cup {Head(buf[n])}

Retry(n) ==
  /\ numTimeouts' = [numTimeouts EXCEPT ![n] = @ + 1]
  /\ UNCHANGED <<buf, dropped>>

Timeout(n) ==
  /\ \E t \in Expired(local_timer[n]) :
       local_timer' = [local_timer EXCEPT ![n] = t]
  /\ IF numTimeouts[n] + 1 > 3 THEN GiveUp(n) ELSE Retry(n)
  /\ sending_data' = [sending_data EXCEPT ![n] = FALSE]
  /\ sendTimer' = [sendTimer EXCEPT ![n] = Start(Stop(@))]
  /\ UNCHANGED <<transmitted, info, sent_info, accepted, backoff,
                 faults, air, delivered>>

-----------------------------------------------------------------------------
(* receive: the handler of EV_PHYSICALREADY, by type of the arriving frame *)

Arrives(n, type) == air[n] # <<>> /\ Head(air[n]).type = type
Arrived(n)       == Head(air[n])
Taken(n)         == [air EXCEPT ![n] = Tail(@)]
ForMe(n)         == Arrived(n).dest = n

ReceiveBeacon(n) ==
  /\ Arrives(n, "BEACON")
  /\ air' = Taken(n)
  /\ UpcallSends(n)
  /\ UNCHANGED <<history, info, sent_info, flags, timers, faults, delivered>>

ReceiveRts(n) ==
  /\ Arrives(n, "RTS")
  /\ IF ForMe(n)
       THEN air' \in Broadcast(Taken(n), n, Control("CTS", n, Arrived(n).src))
       ELSE air' = Taken(n)
  /\ local_timer' = [local_timer EXCEPT ![n] = Start(@)]
  /\ UNCHANGED <<history, queues, flags, sendTimer, faults, delivered>>

OverhearCtsStops(n) ==                                 \* a faulty variant
  /\ Arrives(n, "CTS")
  /\ ~ForMe(n)
  /\ air' = Taken(n)
  /\ local_timer' = [local_timer EXCEPT ![n] = Stop(@)]
  /\ UNCHANGED <<history, queues, flags, sendTimer, faults, delivered>>

OverhearCts(n) ==
  /\ Arrives(n, "CTS")
  /\ ~ForMe(n)
  /\ air' = Taken(n)
  /\ local_timer' = [local_timer EXCEPT ![n] = Start(@)]
  /\ UNCHANGED <<history, queues, flags, sendTimer, faults, delivered>>

ReceiveCtsKeeps(n) ==                                  \* a faulty variant
  /\ Arrives(n, "CTS")
  /\ ForMe(n)
  /\ buf[n] # <<>>
  /\ air' \in Broadcast(Taken(n), n, Data(Head(buf[n])))
  /\ transmitted' = transmitted \cup {Head(buf[n])}
  /\ local_timer' = [local_timer EXCEPT ![n] = Start(Stop(@))]
  /\ UNCHANGED <<dropped, queues, flags, sendTimer, faults,
                 delivered>>

(* Clear to send: transmit and forget the head of buf. *)
ReceiveCts(n) ==
  /\ Arrives(n, "CTS")
  /\ ForMe(n)
  /\ buf[n] # <<>>
  /\ buf' = [buf EXCEPT ![n] = Tail(@)]
  /\ air' \in Broadcast(Taken(n), n, Data(Head(buf[n])))
  /\ transmitted' = transmitted \cup {Head(buf[n])}
  /\ local_timer' = [local_timer EXCEPT ![n] = Start(Stop(@))]
  /\ UNCHANGED <<dropped, info, sent_info, accepted, flags,
                 sendTimer, faults, delivered>>

(* Clear to send, but dequeue finds buf empty and its result is ignored:   *)
(* the local variable next is read uninitialised.  Its length may fail     *)
(* send_frame's assertion, or its bytes go out: junk, or what an earlier   *)
(* frame of n left on the stack.                                           *)
Uninitialised(n) ==
  (IF "junk" \in Undefined THEN {Junk(n, d) : d \in Node} ELSE {}) \cup
  (IF "stale" \in Undefined
     THEN {Data(i) : i \in {j \in FrameId : accepted[j].src = n}} ELSE {})

ReceiveCtsNoData(n) ==
  /\ Arrives(n, "CTS")
  /\ ForMe(n)
  /\ buf[n] = <<>>
  /\ undef' = TRUE
  /\ \/ /\ "abort" \in Undefined
        /\ halted' = TRUE
        /\ UNCHANGED <<air, local_timer>>
     \/ /\ \E f \in Uninitialised(n) : air' \in Broadcast(Taken(n), n, f)
        /\ local_timer' = [local_timer EXCEPT ![n] = Start(Stop(@))]
        /\ UNCHANGED halted
  /\ UNCHANGED <<history, queues, flags, sendTimer, delivered>>

OverhearData(n) ==
  /\ Arrives(n, "DATA")
  /\ ~ForMe(n)
  /\ air' = Taken(n)
  /\ local_timer' = [local_timer EXCEPT ![n] = Start(@)]
  /\ UNCHANGED <<history, queues, flags, sendTimer, faults, delivered>>

(* Pass the packet up, acknowledge it, and start a timer all the same. *)
ReceiveData(n) ==
  /\ Arrives(n, "DATA")
  /\ ForMe(n)
  /\ delivered' = [delivered EXCEPT ![n] = Append(@, Arrived(n).id)]
  /\ UpcallSends(n)
  /\ air' \in Broadcast(Taken(n), n, Control("ACK", n, Arrived(n).src))
  /\ local_timer' = [local_timer EXCEPT ![n] = Start(Stop(@))]
  /\ UNCHANGED <<history, info, sent_info, flags, sendTimer, faults>>

OverhearAck(n) ==
  /\ Arrives(n, "ACK")
  /\ ~ForMe(n)
  /\ air' = Taken(n)
  /\ local_timer' = [local_timer EXCEPT ![n] = Stop(@)]
  /\ UNCHANGED <<history, queues, flags, sendTimer, faults, delivered>>

ReceiveAckStillSending(n) ==                           \* a faulty variant
  /\ Arrives(n, "ACK")
  /\ ForMe(n)
  /\ air' = Taken(n)
  /\ sendTimer' = [sendTimer EXCEPT ![n] = Start(@)]
  /\ local_timer' = [local_timer EXCEPT ![n] = Stop(@)]
  /\ UNCHANGED <<history, queues, flags, faults, delivered>>

(* reset_send_timer starts a timer without stopping the one that runs. *)
ReceiveAck(n) ==
  /\ Arrives(n, "ACK")
  /\ ForMe(n)
  /\ air' = Taken(n)
  /\ sending_data' = [sending_data EXCEPT ![n] = FALSE]
  /\ sendTimer' = [sendTimer EXCEPT ![n] = Start(@)]
  /\ local_timer' = [local_timer EXCEPT ![n] = Stop(@)]
  /\ UNCHANGED <<history, queues, numTimeouts, backoff, faults, delivered>>

Receive(n) ==
  \/ ReceiveBeacon(n)
  \/ ReceiveRts(n)
  \/ OverhearCts(n) \/ ReceiveCts(n) \/ ReceiveCtsNoData(n)
  \/ OverhearData(n) \/ ReceiveData(n)
  \/ OverhearAck(n) \/ ReceiveAck(n)

-----------------------------------------------------------------------------
Handler(n) ==
  \/ LinkSendInfo(n)
  \/ \E d \in Node : LinkSendData(n, d)
  \/ Send(n)
  \/ Collision(n)
  \/ Timeout(n)
  \/ Receive(n)

(* abort() ended the simulation. *)
Stopped == halted /\ UNCHANGED vars

Next ==
  \/ ~halted /\ \E n \in Node : Handler(n)
  \/ Stopped

Spec == Init /\ [][Next]_vars

(* Timers expire and frames arrive: weak fairness.  The carrier is idle    *)
(* again and again, and the send timer (1 s at most) fires more often than *)
(* the oracle replaces the beacon (3 s), so a waiting data frame gets its  *)
(* turn between beacons: strong fairness.                                  *)
Fairness ==
  \A n \in Node :
    /\ WF_vars(~halted /\ Timeout(n))
    /\ WF_vars(~halted /\ Receive(n))
    /\ WF_vars(~halted /\ SendBeacon(n))
    /\ SF_vars(~halted /\ SendRts(n))

FairSpec == Spec /\ Fairness

-----------------------------------------------------------------------------
(* Properties *)

QueueTypes ==
  /\ accepted \in Seq([src : Node, dest : Node])
  /\ buf \in [Node -> Seq(FrameId)]
  /\ info \in [Node -> BOOLEAN]
  /\ sent_info \in [Node -> BOOLEAN]

FlagTypes ==
  /\ sending_data \in [Node -> BOOLEAN]
  /\ numTimeouts \in [Node -> 0 .. 3]
  /\ backoff \in [Node -> 0 .. MaxBackoff]

TimerTypes ==
  /\ local_timer \in [Node -> Timer]
  /\ sendTimer \in [Node -> Timer]

MediumTypes ==
  /\ air \in [Node -> Seq(Frame)]
  /\ delivered \in [Node -> Seq(Nat)]

HistoryTypes ==
  /\ transmitted \subseteq Nat
  /\ dropped \subseteq Nat

(* The types of the variables.  Queued frames are frames that have been    *)
(* accepted, and between events numTimeouts is at most 3, because the      *)
(* fourth expiry of EV_TIMER1 resets it.                                   *)
TypeOK ==
  /\ QueueTypes
  /\ FlagTypes
  /\ TimerTypes
  /\ MediumTypes
  /\ HistoryTypes
  /\ undef \in BOOLEAN
  /\ halted \in BOOLEAN

(* The send loop of a node never dies: whatever handlers ran, sendTimer    *)
(* names a running timer, so the CHECK on stopping it in collision never   *)
(* ends the simulation.  Only an uninitialised frame can do that.          *)
SendLoopAlive ==
  /\ \A n \in Node : sendTimer[n].named
  /\ halted => undef

Waiting == UNION {Range(buf[n]) : n \in Node}

(* No frame is copied or forgotten: until an uninitialised frame is read,  *)
(* every accepted frame waits in its sender's buf, or has been sent, or    *)
(* has been dropped by a timeout, and only one of these.                   *)
OnePlace ==
  ~undef =>
    /\ FrameId = Waiting \cup transmitted \cup dropped
    /\ Waiting \cap (transmitted \cup dropped) = {}
    /\ transmitted \cap dropped = {}
    /\ \A n \in Node : /\ Range(delivered[n]) \subseteq transmitted
                       /\ \A i \in Range(buf[n]) : accepted[i].src = n

(* The promise of the link layer to the network layer. *)
InFlight(i) == Data(i) \in Range(air[accepted[i].dest])

Pending ==
  {i \in FrameId : i \in Range(buf[accepted[i].src]) \/ InFlight(i)}

Channel == INSTANCE LinkChannel WITH pending <- Pending

(* Exchanges, losses, timeouts and collisions together implement a channel *)
(* that delivers at most once, in order and to the addressee, in a build   *)
(* where reading the uninitialised frame ends the simulation.              *)
ImplementsChannel == Channel!Spec

(* The same promise in every build, until an uninitialised frame is read. *)
InOrderOnce == undef \/ Channel!InOrderOnce

(* A node that waits for the answer to its RTS with no EV_TIMER1 running   *)
(* waits for ever, unless another frame comes its way.                     *)
Stalled(n) == sending_data[n] /\ ~Running(local_timer[n])

(* A node stalls only where receive stops local_timer on an ACK that is    *)
(* addressed to another node (link.c:338): every other handler that stops  *)
(* the timer either ends the exchange or starts the timer again, and every *)
(* expiry ends the exchange.                                               *)
OnlyForeignAckStalls ==
  [][\A n \in Node : Stalled(n)' => Stalled(n) \/ OverhearAck(n)]_vars

(* A queued frame does not wait for ever: it is sent, or dropped after     *)
(* four timeouts, in a network of two nodes (no foreign ACKs), unless the  *)
(* simulation ends.                                                        *)
FramesLeaveBuffer ==
  \A i \in 1 .. MaxFrames : i \in Waiting ~> (i \notin Waiting \/ halted)

-----------------------------------------------------------------------------
(* What the comments and assertions of link.c say, and the code does not   *)

(* link.c:3, "buffers and retries data to be sent": a data frame waiting   *)
(* in buf gets another turn until it is sent or given up.                  *)
RetriesUntilSent == FramesLeaveBuffer
=============================================================================
