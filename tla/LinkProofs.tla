---------------------------- MODULE LinkProofs -----------------------------
(***************************************************************************)
(* Theorems about the data link layer, for any set of nodes, any routes    *)
(* and any number of frames.                                               *)
(***************************************************************************)
EXTENDS Link, SeqOrder

-----------------------------------------------------------------------------
(* Timers and the medium *)

LEMMA TimerFacts ==
  /\ NoTimer \in Timer
  /\ \A t \in Timer :
       /\ Start(t) \in Timer /\ Start(t).named /\ Running(Start(t))
       /\ Stop(t) \in Timer
       /\ \A u \in Expired(t) : u \in Timer
<1>1. NoTimer \in Timer
  BY DEF Timer, NoTimer
<1>2. ASSUME NEW t \in Timer
      PROVE  Start(t) \in Timer /\ Start(t).named /\ Running(Start(t))
  BY DEF Timer, Start, Running
<1>3. ASSUME NEW t \in Timer
      PROVE  Stop(t) \in Timer
  BY DEF Timer, Stop
<1>4. ASSUME NEW t \in Timer, NEW u \in Expired(t)
      PROVE  u \in Timer
  <2>1. CASE t.named /\ u = Stop(t)
    BY <1>3, <2>1
  <2>2. CASE t.stray > 0 /\ u = [t EXCEPT !.stray = @ - 1]
    BY <2>2 DEF Timer
  <2> QED
    BY <1>4, <2>1, <2>2 DEF Expired
<1> QED
  BY <1>1, <1>2, <1>3, <1>4

LEMMA BroadcastType ==
  ASSUME NEW a \in [Node -> Seq(Frame)], NEW n \in Node, NEW f \in Frame,
         NEW b \in Broadcast(a, n, f)
  PROVE  b \in [Node -> Seq(Frame)]
<1>1. \A m \in Node : a[m] \in Seq(Frame) /\ Append(a[m], f) \in Seq(Frame)
  OBVIOUS
<1>2. PICK R \in SUBSET Node :
         b = [m \in Node |-> IF m \in R THEN Append(a[m], f) ELSE a[m]]
  BY DEF Broadcast
<1> QED
  BY <1>1, <1>2

LEMMA ControlType ==
  ASSUME NEW n \in Node, NEW d \in Node
  PROVE  /\ Beacon(n) \in Frame
         /\ Junk(n, d) \in Frame
         /\ \A type \in FrameType : Control(type, n, d) \in Frame
BY DEF Beacon, Junk, Control, Frame, FrameType

LEMMA DataType ==
  ASSUME QueueTypes, NEW i \in FrameId
  PROVE  /\ Data(i) \in Frame
         /\ Data(i).dest \in Node
         /\ Data(i).src \in Node
         /\ Data(i).id = i
<1>1. accepted[i] \in [src : Node, dest : Node]
  BY ElementOfSeq DEF FrameId, QueueTypes
<1> QED
  BY <1>1 DEF Data, Frame, FrameType, FrameId

LEMMA FrameIdType ==
  ASSUME QueueTypes
  PROVE  FrameId \subseteq Nat
<1>1. Len(accepted) \in Nat
  BY LenProperties DEF QueueTypes
<1> QED
  BY <1>1 DEF FrameId

-----------------------------------------------------------------------------
(* Type correctness *)

LEMMA SameTypes ==
  ASSUME TypeOK
  PROVE  /\ UNCHANGED queues => QueueTypes'
         /\ UNCHANGED flags => FlagTypes'
         /\ UNCHANGED timers => TimerTypes'
         /\ UNCHANGED history => HistoryTypes'
<1>1. UNCHANGED queues => QueueTypes'
  BY DEF TypeOK, QueueTypes, FrameId, queues
<1>2. UNCHANGED flags => FlagTypes'
  BY DEF TypeOK, FlagTypes, flags
<1>3. UNCHANGED timers => TimerTypes'
  BY DEF TypeOK, TimerTypes, timers
<1>4. UNCHANGED history => HistoryTypes'
  BY DEF TypeOK, HistoryTypes, history
<1> QED
  BY <1>1, <1>2, <1>3, <1>4

LEMMA EnqueueType ==
  ASSUME TypeOK, NEW n \in Node, NEW d \in Node, Enqueue(n, d),
         UNCHANGED <<info, sent_info>>
  PROVE  QueueTypes'
<1>1. /\ accepted \in Seq([src : Node, dest : Node])
      /\ accepted' = Append(accepted, [src |-> n, dest |-> d])
      /\ buf \in [Node -> Seq(FrameId)]
      /\ buf' = [buf EXCEPT ![n] = Append(@, Len(accepted) + 1)]
  BY DEF Enqueue, TypeOK, QueueTypes
<1>2. /\ accepted' \in Seq([src : Node, dest : Node])
      /\ Len(accepted') = Len(accepted) + 1
      /\ Len(accepted) \in Nat
  BY <1>1
<1>3. FrameId \subseteq FrameId' /\ Len(accepted) + 1 \in FrameId'
  BY <1>2 DEF FrameId
<1>4. \A m \in Node : buf[m] \in Seq(FrameId')
  BY <1>1, <1>3, SeqMonotonic
<1>5. Append(buf[n], Len(accepted) + 1) \in Seq(FrameId')
  BY <1>3, <1>4
<1>6. buf' \in [Node -> Seq(FrameId')]
  BY <1>1, <1>4, <1>5
<1> QED
  BY <1>2, <1>6 DEF TypeOK, QueueTypes

LEMMA UpcallType ==
  ASSUME TypeOK, NEW n \in Node, UpcallSends(n), UNCHANGED <<info, sent_info>>
  PROVE  QueueTypes'
<1>1. CASE UNCHANGED <<accepted, buf>>
  BY <1>1, SameTypes DEF queues
<1>2. CASE \E d \in Node : Enqueue(n, d)
  BY <1>2, EnqueueType
<1> QED
  BY <1>1, <1>2 DEF UpcallSends

LEMMA DequeueType ==
  ASSUME TypeOK, NEW n \in Node, buf[n] # <<>>,
         buf' = [buf EXCEPT ![n] = Tail(@)],
         UNCHANGED <<accepted, info, sent_info>>
  PROVE  QueueTypes' /\ Head(buf[n]) \in FrameId
<1>1. Head(buf[n]) \in FrameId /\ Tail(buf[n]) \in Seq(FrameId)
  BY HeadTail DEF TypeOK, QueueTypes
<1>2. buf' \in [Node -> Seq(FrameId)]
  BY <1>1 DEF TypeOK, QueueTypes
<1> QED
  BY <1>1, <1>2 DEF TypeOK, QueueTypes, FrameId

LEMMA TakenType ==
  ASSUME TypeOK, NEW n \in Node, NEW type, Arrives(n, type)
  PROVE  Taken(n) \in [Node -> Seq(Frame)] /\ Arrived(n) \in Frame
<1>1. Head(air[n]) \in Frame /\ Tail(air[n]) \in Seq(Frame)
  BY HeadTail DEF TypeOK, MediumTypes, Arrives
<1> QED
  BY <1>1 DEF TypeOK, MediumTypes, Taken, Arrived

(* Every kind of step keeps the types. *)
LEMMA TypeInit == Init => TypeOK
<1> SUFFICES ASSUME Init PROVE TypeOK
  OBVIOUS
<1>1. QueueTypes
  BY DEF Init, QueueTypes, FrameId
<1>2. FlagTypes
  BY LinkAssumption DEF Init, FlagTypes, LinkAssumption
<1>3. TimerTypes
  BY TimerFacts DEF Init, TimerTypes
<1>4. MediumTypes
  BY DEF Init, MediumTypes
<1>5. HistoryTypes
  BY DEF Init, HistoryTypes
<1> QED
  BY <1>1, <1>2, <1>3, <1>4, <1>5 DEF Init, TypeOK

LEMMA TypeCalls ==
  ASSUME TypeOK, NEW n \in Node,
         LinkSendInfo(n) \/ \E d \in Node : LinkSendData(n, d)
  PROVE  TypeOK'
<1>1. /\ UNCHANGED <<flags, timers, history, faults, air, delivered>>
      /\ QueueTypes'
  <2>1. CASE LinkSendInfo(n)
    BY <2>1 DEF LinkSendInfo, TypeOK, QueueTypes, FrameId
  <2>2. ASSUME NEW d \in Node, LinkSendData(n, d)
        PROVE  /\ UNCHANGED <<flags, timers, history, faults, air, delivered>>
               /\ QueueTypes'
    BY <2>2, EnqueueType DEF LinkSendData
  <2> QED
    BY <2>1, <2>2
<1> QED
  BY <1>1, SameTypes DEF TypeOK, MediumTypes, faults

LEMMA TypeSend ==
  ASSUME TypeOK, NEW n \in Node, Send(n)
  PROVE  TypeOK'
<1>1. sendTimer' \in [Node -> Timer]
  <2>1. PICK t \in Expired(sendTimer[n]) :
          sendTimer' = [sendTimer EXCEPT ![n] = Start(t)]
    BY DEF Send, SendBeacon, SendRts, SendNothing, SendTimerFires
  <2>2. Start(t) \in Timer
    BY <2>1, TimerFacts DEF TypeOK, TimerTypes
  <2> QED
    BY <2>1, <2>2 DEF TypeOK, TimerTypes
<1>2. backoff' \in [Node -> 0 .. MaxBackoff]
  BY LinkAssumption
  DEF Send, SendBeacon, SendRts, SendNothing, CarrierIdle, TypeOK, FlagTypes,
      LinkAssumption
<1>3. CASE SendBeacon(n)
  <2>1. air' \in [Node -> Seq(Frame)]
    BY <1>3, BroadcastType, ControlType DEF SendBeacon, TypeOK, MediumTypes
  <2>2. QueueTypes'
    BY <1>3 DEF SendBeacon, TypeOK, QueueTypes, FrameId
  <2> QED
    BY <1>1, <1>2, <1>3, <2>1, <2>2, SameTypes
    DEF SendBeacon, TypeOK, FlagTypes, TimerTypes, MediumTypes, faults
<1>4. CASE SendRts(n)
  <2>1. Head(buf[n]) \in FrameId
    BY <1>4, HeadTail DEF SendRts, DataWaiting, TypeOK, QueueTypes
  <2>2. air' \in [Node -> Seq(Frame)]
    <3>1. Control("RTS", n, Data(Head(buf[n])).dest) \in Frame
      BY <2>1, DataType, ControlType DEF FrameType, TypeOK
    <3> QED
      BY <1>4, <3>1, BroadcastType DEF SendRts, TypeOK, MediumTypes
  <2>3. local_timer' \in [Node -> Timer]
    BY <1>4, TimerFacts DEF SendRts, TypeOK, TimerTypes
  <2> QED
    BY <1>1, <1>2, <1>4, <2>2, <2>3, SameTypes
    DEF SendRts, TypeOK, FlagTypes, TimerTypes, MediumTypes, faults
<1>5. CASE SendNothing(n)
  BY <1>1, <1>2, <1>5, SameTypes
  DEF SendNothing, TypeOK, FlagTypes, TimerTypes, MediumTypes, faults
<1> QED
  BY <1>3, <1>4, <1>5 DEF Send

LEMMA TypeTimers ==
  ASSUME TypeOK, NEW n \in Node, Collision(n) \/ Timeout(n)
  PROVE  TypeOK'
<1>1. CASE Collision(n)
  <2>1. TimerTypes'
    BY <1>1, TimerFacts DEF Collision, TypeOK, TimerTypes
  <2>2. FlagTypes'
    BY <1>1, LinkAssumption DEF Collision, TypeOK, FlagTypes, LinkAssumption
  <2> QED
    BY <1>1, <2>1, <2>2, SameTypes DEF Collision, TypeOK, MediumTypes
<1>2. CASE Timeout(n)
  <2>1. TimerTypes'
    <3>1. PICK t \in Expired(local_timer[n]) :
            local_timer' = [local_timer EXCEPT ![n] = t]
      BY <1>2 DEF Timeout
    <3>2. t \in Timer
      BY <3>1, TimerFacts DEF TypeOK, TimerTypes
    <3>3. sendTimer' \in [Node -> Timer]
      BY <1>2, TimerFacts DEF Timeout, TypeOK, TimerTypes
    <3> QED
      BY <3>1, <3>2, <3>3 DEF TypeOK, TimerTypes
  <2>2. QueueTypes' /\ numTimeouts' \in [Node -> 0 .. 3] /\ HistoryTypes'
    <3>1. CASE numTimeouts[n] + 1 > 3 /\ buf[n] # <<>>
      <4>1. QueueTypes' /\ Head(buf[n]) \in Nat
        BY <1>2, <3>1, DequeueType, FrameIdType DEF Timeout, GiveUp, TypeOK
      <4>2. HistoryTypes'
        BY <1>2, <3>1, <4>1 DEF Timeout, GiveUp, TypeOK, HistoryTypes
      <4>3. numTimeouts' \in [Node -> 0 .. 3]
        BY <1>2, <3>1 DEF Timeout, GiveUp, TypeOK, FlagTypes
      <4> QED
        BY <4>1, <4>2, <4>3
    <3>2. CASE numTimeouts[n] + 1 > 3 /\ buf[n] = <<>>
      BY <1>2, <3>2, SameTypes
      DEF Timeout, GiveUp, TypeOK, FlagTypes, queues, history
    <3>3. CASE ~(numTimeouts[n] + 1 > 3)
      BY <1>2, <3>3, SameTypes
      DEF Timeout, Retry, TypeOK, FlagTypes, queues, history
    <3> QED
      BY <3>1, <3>2, <3>3
  <2>3. FlagTypes'
    BY <1>2, <2>2 DEF Timeout, TypeOK, FlagTypes
  <2> QED
    BY <1>2, <2>1, <2>2, <2>3 DEF Timeout, TypeOK, MediumTypes, faults
<1> QED
  BY <1>1, <1>2

LEMMA TypeReceive ==
  ASSUME TypeOK, NEW n \in Node, Receive(n)
  PROVE  TypeOK'
<1>1. ASSUME NEW type, Arrives(n, type)
      PROVE  /\ Taken(n) \in [Node -> Seq(Frame)]
             /\ Arrived(n).src \in Node
             /\ Arrived(n).id \in Nat
  BY <1>1, TakenType DEF Frame
<1>2. ASSUME NEW f \in Frame, NEW type, Arrives(n, type),
             NEW b \in Broadcast(Taken(n), n, f)
      PROVE  b \in [Node -> Seq(Frame)]
  BY <1>1, <1>2, BroadcastType
<1>3. ASSUME NEW d \in Node, NEW type \in FrameType
      PROVE  Control(type, n, d) \in Frame
  BY <1>3, ControlType
<1>4. /\ [local_timer EXCEPT ![n] = Start(@)] \in [Node -> Timer]
      /\ [local_timer EXCEPT ![n] = Stop(@)] \in [Node -> Timer]
      /\ [local_timer EXCEPT ![n] = Start(Stop(@))] \in [Node -> Timer]
  BY TimerFacts DEF TypeOK, TimerTypes
<1>5. CASE ReceiveBeacon(n)
  <2>1. QueueTypes' /\ MediumTypes'
    BY <1>1, <1>5, UpcallType DEF ReceiveBeacon, TypeOK, MediumTypes
  <2> QED
    BY <1>5, <2>1, SameTypes DEF ReceiveBeacon, TypeOK, faults
<1>6. CASE ReceiveRts(n)
  <2>1. MediumTypes'
    BY <1>1, <1>2, <1>3, <1>6
    DEF ReceiveRts, TypeOK, MediumTypes, FrameType
  <2>2. TimerTypes'
    BY <1>4, <1>6 DEF ReceiveRts, TypeOK, TimerTypes
  <2> QED
    BY <1>6, <2>1, <2>2, SameTypes DEF ReceiveRts, TypeOK, faults
<1>7. CASE OverhearCts(n) \/ OverhearData(n) \/ OverhearAck(n)
  <2>1. MediumTypes'
    BY <1>1, <1>7 DEF OverhearCts, OverhearData, OverhearAck, TypeOK,
                      MediumTypes
  <2>2. TimerTypes'
    BY <1>4, <1>7 DEF OverhearCts, OverhearData, OverhearAck, TypeOK,
                      TimerTypes
  <2> QED
    BY <1>7, <2>1, <2>2, SameTypes
    DEF OverhearCts, OverhearData, OverhearAck, TypeOK, faults
<1>8. CASE ReceiveCts(n)
  <2>1. QueueTypes' /\ Head(buf[n]) \in FrameId
    BY <1>8, DequeueType DEF ReceiveCts
  <2>2. MediumTypes'
    <3>1. Data(Head(buf[n])) \in Frame
      BY <2>1, DataType DEF TypeOK
    <3> QED
      BY <1>2, <1>8, <3>1 DEF ReceiveCts, TypeOK, MediumTypes
  <2>3. TimerTypes'
    BY <1>4, <1>8 DEF ReceiveCts, TypeOK, TimerTypes
  <2>4. HistoryTypes'
    BY <1>8, <2>1, FrameIdType DEF ReceiveCts, TypeOK, HistoryTypes
  <2> QED
    BY <1>8, <2>1, <2>2, <2>3, <2>4, SameTypes DEF ReceiveCts, TypeOK, faults
<1>9. CASE ReceiveCtsNoData(n)
  <2>1. \A f \in Uninitialised(n) : f \in Frame
    BY ControlType, DataType DEF Uninitialised, TypeOK
  <2>2. MediumTypes' /\ TimerTypes'
    BY <1>2, <1>4, <1>9, <2>1
    DEF ReceiveCtsNoData, TypeOK, MediumTypes, TimerTypes
  <2> QED
    BY <1>9, <2>2, SameTypes DEF ReceiveCtsNoData, TypeOK
<1>10. CASE ReceiveData(n)
  <2>1. QueueTypes'
    BY <1>10, UpcallType DEF ReceiveData
  <2>2. air' \in [Node -> Seq(Frame)]
    BY <1>1, <1>2, <1>3, <1>10 DEF ReceiveData, FrameType
  <2>3. delivered' \in [Node -> Seq(Nat)]
    BY <1>1, <1>10 DEF ReceiveData, TypeOK, MediumTypes
  <2>4. TimerTypes'
    BY <1>4, <1>10 DEF ReceiveData, TypeOK, TimerTypes
  <2> QED
    BY <1>10, <2>1, <2>2, <2>3, <2>4, SameTypes
    DEF ReceiveData, TypeOK, MediumTypes, faults
<1>11. CASE ReceiveAck(n)
  <2>1. MediumTypes'
    BY <1>1, <1>11 DEF ReceiveAck, TypeOK, MediumTypes
  <2>2. TimerTypes'
    BY <1>4, <1>11, TimerFacts DEF ReceiveAck, TypeOK, TimerTypes
  <2>3. FlagTypes'
    BY <1>11 DEF ReceiveAck, TypeOK, FlagTypes
  <2> QED
    BY <1>11, <2>1, <2>2, <2>3, SameTypes DEF ReceiveAck, TypeOK, faults
<1> QED
  BY <1>5, <1>6, <1>7, <1>8, <1>9, <1>10, <1>11 DEF Receive

LEMMA TypeStep == TypeOK /\ [Next]_vars => TypeOK'
<1> SUFFICES ASSUME TypeOK, [Next]_vars PROVE TypeOK'
  OBVIOUS
<1>1. CASE UNCHANGED vars
  BY <1>1, SameTypes DEF vars, TypeOK, MediumTypes, faults
<1>2. CASE \E n \in Node : Handler(n)
  BY <1>2, TypeCalls, TypeSend, TypeTimers, TypeReceive DEF Handler
<1> QED
  BY <1>1, <1>2 DEF Next, Stopped

(* The state of every node, and of the medium, always has its type. *)
THEOREM TypeCorrect == Spec => []TypeOK
BY TypeInit, TypeStep, PTL DEF Spec

-----------------------------------------------------------------------------
(* The timers *)

LEMMA StartNames ==
  ASSUME NEW timer, NEW n \in Node, NEW t, DOMAIN timer = Node,
         \A m \in Node : timer[m].named
  PROVE  \A m \in Node : [timer EXCEPT ![n] = Start(t)][m].named
BY DEF Start

LEMMA SendLoopStep == TypeOK /\ SendLoopAlive /\ [Next]_vars => SendLoopAlive'
<1> SUFFICES ASSUME TypeOK, SendLoopAlive, [Next]_vars
             PROVE  SendLoopAlive'
  OBVIOUS
<1>1. DOMAIN sendTimer = Node /\ \A m \in Node : sendTimer[m].named
  BY DEF TypeOK, TimerTypes, SendLoopAlive
<1>2. CASE UNCHANGED vars
  BY <1>2 DEF vars, timers, faults, SendLoopAlive
<1>3. ASSUME NEW n \in Node, Handler(n)
      PROVE  SendLoopAlive'
  <2>1. CASE UNCHANGED sendTimer /\ UNCHANGED faults
    BY <2>1 DEF faults, SendLoopAlive
  <2>2. CASE (\E t : sendTimer' = [sendTimer EXCEPT ![n] = Start(t)])
             /\ UNCHANGED faults
    BY <1>1, <2>2, StartNames DEF faults, SendLoopAlive
  <2>3. CASE Collision(n)
    BY <1>1, <2>3, StartNames DEF Collision, SendLoopAlive
  <2>4. CASE ReceiveCtsNoData(n)
    BY <2>4 DEF ReceiveCtsNoData, SendLoopAlive
  <2>5. CASE LinkSendInfo(n) \/ \E d \in Node : LinkSendData(n, d)
    BY <2>1, <2>5 DEF LinkSendInfo, LinkSendData, timers
  <2>6. CASE Send(n)
    BY <2>2, <2>6
    DEF Send, SendBeacon, SendRts, SendNothing, SendTimerFires
  <2>7. CASE Timeout(n) \/ ReceiveAck(n)
    BY <2>2, <2>7 DEF Timeout, ReceiveAck
  <2>8. CASE \/ ReceiveBeacon(n) \/ ReceiveRts(n) \/ OverhearCts(n)
             \/ ReceiveCts(n) \/ OverhearData(n) \/ ReceiveData(n)
             \/ OverhearAck(n)
    BY <2>1, <2>8
    DEF ReceiveBeacon, ReceiveRts, OverhearCts, ReceiveCts, OverhearData,
        ReceiveData, OverhearAck, timers
  <2> QED
    BY <1>3, <2>3, <2>4, <2>5, <2>6, <2>7, <2>8 DEF Handler, Receive
<1> QED
  BY <1>2, <1>3 DEF Next, Stopped

(* In any network the send loop of no node dies, and only an uninitialised *)
(* frame can end the simulation: the CHECK in collision never fails.       *)
THEOREM SendLoopLives == Spec => []SendLoopAlive
<1>1. Init => SendLoopAlive
  BY DEF Init, SendLoopAlive, Start
<1> QED
  BY <1>1, TypeCorrect, SendLoopStep, PTL DEF Spec

(* A step that leaves the exchange of m without a timer.                   *)
LEMMA StallStep ==
  ASSUME TypeOK, [Next]_vars, NEW m \in Node, Stalled(m)', ~Stalled(m)
  PROVE  OverhearAck(m)
<1>1. /\ sending_data'[m]
      /\ ~Running(local_timer'[m])
      /\ sending_data[m] => Running(local_timer[m])
  BY DEF Stalled, Running
<1>2. /\ DOMAIN local_timer = Node /\ DOMAIN sending_data = Node
      /\ local_timer[m] \in Timer
  BY DEF TypeOK, TimerTypes, FlagTypes
<1>3. ~(UNCHANGED <<sending_data, local_timer>>)
  BY <1>1
<1>4. PICK n \in Node : Handler(n)
  BY <1>3 DEF Next, Stopped, vars, flags, timers
<1>5. \A t : Running(Start(t))
  BY DEF Running, Start
<1>6. ~(/\ UNCHANGED sending_data
        /\ \E t : local_timer' = [local_timer EXCEPT ![n] = Start(t)])
  BY <1>1, <1>2, <1>5
<1>7. ~(LinkSendInfo(n) \/ \E d \in Node : LinkSendData(n, d))
  BY <1>3 DEF LinkSendInfo, LinkSendData, flags, timers
<1>8. ~(SendBeacon(n) \/ SendNothing(n) \/ Collision(n))
  BY <1>3 DEF SendBeacon, SendNothing, Collision
<1>9. ~SendRts(n)
  BY <1>1, <1>2, <1>5 DEF SendRts
<1>10. ~Timeout(n)
  BY <1>1, <1>2 DEF Timeout
<1>11. ~(ReceiveBeacon(n) \/ ReceiveRts(n) \/ OverhearCts(n)
         \/ ReceiveCts(n) \/ ReceiveCtsNoData(n) \/ OverhearData(n)
         \/ ReceiveData(n))
  BY <1>3, <1>6
  DEF ReceiveBeacon, ReceiveRts, OverhearCts, ReceiveCts, ReceiveCtsNoData,
      OverhearData, ReceiveData, flags, timers
<1>12. ~ReceiveAck(n)
  BY <1>1, <1>2 DEF ReceiveAck
<1>13. OverhearAck(n)
  BY <1>4, <1>7, <1>8, <1>9, <1>10, <1>11, <1>12
  DEF Handler, Send, Receive
<1>14. n = m
  BY <1>1, <1>2, <1>13 DEF OverhearAck, flags
<1> QED
  BY <1>13, <1>14

(* In any network, only overhearing an ACK for another node leaves a node  *)
(* waiting for an answer with no timer running.                            *)
THEOREM ForeignAckStalls == Spec => OnlyForeignAckStalls
<1>1. TypeOK /\ [Next]_vars
      => [\A n \in Node : Stalled(n)' => Stalled(n) \/ OverhearAck(n)]_vars
  BY StallStep
<1> QED
  BY <1>1, TypeCorrect, PTL DEF Spec, OnlyForeignAckStalls

-----------------------------------------------------------------------------
(* The order of the frames.                                                *)
(*                                                                         *)
(* InOrderOnce speaks of delivered alone and is not inductive: it needs    *)
(* that the frames of one sender are ordered all along their way, those it *)
(* has had delivered before those on the air before those in its buf.      *)
(* Ordered says so of four values acc, q, a and d, which stand for         *)
(* accepted, buf, air and delivered; each lemma below changes some of them *)
(* the way one part of a handler does.                                     *)

DataOf(acc, i) ==
  [type |-> "DATA", src |-> acc[i].src, dest |-> acc[i].dest, id |-> i]

IdsOf(acc) == 1 .. Len(acc)

EarlierId(acc) ==
  {p \in IdsOf(acc) \X IdsOf(acc) :
     acc[p[1]].src = acc[p[2]].src => p[1] < p[2]}

SameSource(f, g) == f.type = "DATA" /\ g.type = "DATA" /\ f.src = g.src

EarlierData ==
  {p \in Frame \X Frame : SameSource(p[1], p[2]) => p[1].id < p[2].id}

Typed(acc, q, a, d) ==
  /\ acc \in Seq([src : Node, dest : Node])
  /\ q \in [Node -> Seq(IdsOf(acc))]
  /\ a \in [Node -> Seq(Frame)]
  /\ d \in [Node -> Seq(Nat)]

BufOrdered(acc, q) ==
  \A n \in Node :
    /\ Chain(q[n], EarlierId(acc))
    /\ \A i \in Range(q[n]) : acc[i].src = n

AirOrdered(acc, q, a) ==
  \A n \in Node :
    /\ Chain(a[n], EarlierData)
    /\ \A f \in Range(a[n]) :
         f.type = "DATA" =>
           /\ f.id \in IdsOf(acc)
           /\ f = DataOf(acc, f.id)
           /\ \A j \in Range(q[f.src]) : f.id < j

DeliveredOrdered(acc, q, a, d) ==
  \A n \in Node :
    /\ Chain(d[n], EarlierId(acc))
    /\ \A i \in Range(d[n]) :
         /\ i \in IdsOf(acc)
         /\ acc[i].dest = n
         /\ \A j \in Range(q[acc[i].src]) : i < j
         /\ \A f \in Range(a[n]) :
              f.type = "DATA" /\ f.src = acc[i].src => i < f.id

Ordered(acc, q, a, d) ==
  /\ Typed(acc, q, a, d)
  /\ BufOrdered(acc, q)
  /\ AirOrdered(acc, q, a)
  /\ DeliveredOrdered(acc, q, a, d)

(* enqueue *)
LEMMA OrderedEnqueue ==
  ASSUME NEW acc, NEW q, NEW a, NEW d, Ordered(acc, q, a, d),
         NEW n \in Node, NEW m \in Node
  PROVE  Ordered(Append(acc, [src |-> n, dest |-> m]),
                 [q EXCEPT ![n] = Append(@, Len(acc) + 1)], a, d)
<1> DEFINE bcc == Append(acc, [src |-> n, dest |-> m])
           new == Len(acc) + 1
           r   == [q EXCEPT ![n] = Append(@, new)]
<1>1. /\ acc \in Seq([src : Node, dest : Node])
      /\ q \in [Node -> Seq(IdsOf(acc))]
      /\ \A i \in IdsOf(acc) : acc[i].src \in Node
  <2>1. /\ acc \in Seq([src : Node, dest : Node])
        /\ q \in [Node -> Seq(IdsOf(acc))]
    BY DEF Ordered, Typed
  <2>2. \A i \in IdsOf(acc) : acc[i] \in [src : Node, dest : Node]
    BY <2>1, ElementOfSeq DEF IdsOf
  <2> QED
    BY <2>1, <2>2
<1>2. /\ bcc \in Seq([src : Node, dest : Node])
      /\ Len(acc) \in Nat
      /\ Len(bcc) = new
      /\ \A i \in IdsOf(acc) : bcc[i] = acc[i]
      /\ bcc[new] = [src |-> n, dest |-> m]
  BY <1>1, AppendProperties, LenProperties DEF IdsOf
<1>3. /\ IdsOf(bcc) = IdsOf(acc) \cup {new}
      /\ \A i \in IdsOf(acc) : i \in Nat /\ i < new
      /\ new \in Nat
  BY <1>2 DEF IdsOf
<1>4. EarlierId(acc) \subseteq EarlierId(bcc)
  BY <1>2, <1>3 DEF EarlierId
<1>5. \A k \in Node : /\ q[k] \in Seq(IdsOf(bcc))
                     /\ Range(q[k]) \subseteq IdsOf(acc)
  BY <1>1, <1>3, SeqMonotonic, RangeOfSeq
<1>6. /\ r \in [Node -> Seq(IdsOf(bcc))]
      /\ r[n] = Append(q[n], new)
      /\ Range(r[n]) = Range(q[n]) \cup {new}
      /\ \A k \in Node \ {n} : r[k] = q[k]
  <2>1. q[n] \in Seq(IdsOf(bcc)) /\ new \in IdsOf(bcc)
    BY <1>3, <1>5
  <2>2. /\ Append(q[n], new) \in Seq(IdsOf(bcc))
        /\ Range(Append(q[n], new)) = Range(q[n]) \cup {new}
    <3> HIDE DEF bcc, new
    <3> QED
      BY <2>1, RangeAppend
  <2> HIDE DEF bcc, new
  <2> QED
    BY <1>1, <1>5, <2>2
<1> HIDE DEF bcc, new, r
<1>7. Typed(bcc, r, a, d)
  BY <1>2, <1>6 DEF Ordered, Typed
<1>8. BufOrdered(bcc, r)
  <2>1. \A k \in Node : Chain(q[k], EarlierId(bcc))
    BY <1>4, ChainMonotonic DEF Ordered, BufOrdered
  <2>2. \A y \in Range(q[n]) : <<y, new>> \in EarlierId(bcc)
    BY <1>3, <1>5 DEF EarlierId
  <2>3. Chain(r[n], EarlierId(bcc))
    <3>1. q[n] \in Seq(IdsOf(bcc)) /\ new \in IdsOf(bcc)
      BY <1>3, <1>5
    <3>2. Chain(Append(q[n], new), EarlierId(bcc))
      BY <2>1, <2>2, <3>1, ChainAppend
    <3> QED
      BY <1>6, <3>2
  <2>4. \A k \in Node : \A i \in Range(q[k]) :
          i \in IdsOf(acc) /\ acc[i].src = k
    BY <1>5 DEF Ordered, BufOrdered
  <2>5. ASSUME NEW k \in Node, NEW i \in Range(r[k])
        PROVE  bcc[i].src = k
    <3>1. CASE i = new /\ k = n
      BY <1>2, <3>1
    <3>2. CASE i \in Range(q[k])
      BY <1>2, <2>4, <3>2
    <3> QED
      BY <1>6, <2>5, <3>1, <3>2
  <2> QED
    BY <1>6, <2>1, <2>3, <2>5 DEF BufOrdered
<1>9. AirOrdered(bcc, r, a)
  <2>1. ASSUME NEW k \in Node, NEW f \in Range(a[k]), f.type = "DATA"
        PROVE  /\ f.id \in IdsOf(bcc)
               /\ f = DataOf(bcc, f.id)
               /\ \A j \in Range(r[f.src]) : f.id < j
    <3>1. /\ f.id \in IdsOf(acc)
          /\ f = DataOf(acc, f.id)
          /\ \A j \in Range(q[f.src]) : f.id < j
      BY <2>1 DEF Ordered, AirOrdered
    <3>2. f.src \in Node
      BY <1>1, <3>1 DEF DataOf
    <3>3. bcc[f.id] = acc[f.id]
      BY <1>2, <3>1
    <3>4. f = DataOf(bcc, f.id)
      BY <3>1, <3>3 DEF DataOf
    <3>5. \A j \in Range(r[f.src]) : f.id < j
      BY <1>3, <1>6, <3>1, <3>2
    <3> QED
      BY <1>3, <3>1, <3>4, <3>5
  <2> QED
    BY <2>1 DEF Ordered, AirOrdered
<1>10. DeliveredOrdered(bcc, r, a, d)
  <2>1. \A k \in Node : Chain(d[k], EarlierId(bcc))
    BY <1>4, ChainMonotonic DEF Ordered, DeliveredOrdered
  <2>2. ASSUME NEW k \in Node, NEW i \in Range(d[k])
        PROVE  /\ i \in IdsOf(bcc)
               /\ bcc[i].dest = k
               /\ \A j \in Range(r[bcc[i].src]) : i < j
               /\ \A f \in Range(a[k]) :
                    f.type = "DATA" /\ f.src = bcc[i].src => i < f.id
    <3>1. /\ i \in IdsOf(acc)
          /\ acc[i].dest = k
          /\ \A j \in Range(q[acc[i].src]) : i < j
          /\ \A f \in Range(a[k]) :
               f.type = "DATA" /\ f.src = acc[i].src => i < f.id
      BY <2>2 DEF Ordered, DeliveredOrdered
    <3>2. /\ acc[i].src \in Node
          /\ bcc[i] = acc[i]
          /\ i \in IdsOf(bcc)
          /\ i < new
      BY <1>1, <1>2, <1>3, <3>1
    <3>3. \A j \in Range(r[acc[i].src]) : i < j
      BY <1>6, <3>1, <3>2
    <3> QED
      BY <3>1, <3>2, <3>3
  <2> QED
    BY <2>1, <2>2 DEF DeliveredOrdered
<1> QED
  BY <1>7, <1>8, <1>9, <1>10 DEF Ordered, bcc, new, r

(* Data frames may disappear from the air, and control frames appear. *)
LEMMA OrderedAir ==
  ASSUME NEW acc, NEW q, NEW a, NEW d, Ordered(acc, q, a, d),
         NEW b \in [Node -> Seq(Frame)],
         \A m \in Node :
           /\ Chain(b[m], EarlierData)
           /\ \A f \in Range(b[m]) : f.type = "DATA" => f \in Range(a[m])
  PROVE  Ordered(acc, q, b, d)
<1>1. Typed(acc, q, b, d)
  BY DEF Ordered, Typed
<1>2. AirOrdered(acc, q, b)
  BY DEF Ordered, AirOrdered
<1>3. DeliveredOrdered(acc, q, b, d)
  BY DEF Ordered, DeliveredOrdered
<1> QED
  BY <1>1, <1>2, <1>3 DEF Ordered

LEMMA OrderedTake ==
  ASSUME NEW acc, NEW q, NEW a, NEW d, Ordered(acc, q, a, d),
         NEW n \in Node, a[n] # <<>>
  PROVE  Ordered(acc, q, [a EXCEPT ![n] = Tail(@)], d)
<1> DEFINE b == [a EXCEPT ![n] = Tail(@)]
<1>1. a \in [Node -> Seq(Frame)] /\ \A m \in Node : Chain(a[m], EarlierData)
  BY DEF Ordered, Typed, AirOrdered
<1>2. /\ Tail(a[n]) \in Seq(Frame)
      /\ Range(Tail(a[n])) \subseteq Range(a[n])
      /\ Chain(Tail(a[n]), EarlierData)
  BY <1>1, HeadTail, ChainTail
<1>3. /\ b \in [Node -> Seq(Frame)]
      /\ \A m \in Node : /\ Chain(b[m], EarlierData)
                         /\ Range(b[m]) \subseteq Range(a[m])
  BY <1>1, <1>2
<1> HIDE DEF b
<1>4. Ordered(acc, q, b, d)
  BY <1>3, OrderedAir
<1> QED
  BY <1>4 DEF b

(* What a broadcast leaves on the air for a node. *)
MayHear(s, f, t) ==
  \/ t = s
  \/ /\ t = Append(s, f)
     /\ Range(t) = Range(s) \cup {f}

LEMMA BroadcastCases ==
  ASSUME NEW a \in [Node -> Seq(Frame)], NEW n \in Node, NEW f \in Frame,
         NEW b \in Broadcast(a, n, f)
  PROVE  \A m \in Node : MayHear(a[m], f, b[m])
<1> SUFFICES ASSUME NEW m \in Node PROVE MayHear(a[m], f, b[m])
  OBVIOUS
<1>1. b[m] = a[m] \/ b[m] = Append(a[m], f)
  BY DEF Broadcast
<1>2. a[m] \in Seq(Frame)
  OBVIOUS
<1>3. Range(Append(a[m], f)) = Range(a[m]) \cup {f}
  BY <1>2, RangeAppend
<1> QED
  BY <1>1, <1>3 DEF MayHear

LEMMA OrderedControl ==
  ASSUME NEW acc, NEW q, NEW a, NEW d, Ordered(acc, q, a, d),
         NEW n \in Node, NEW f \in Frame, f.type # "DATA",
         NEW b \in Broadcast(a, n, f)
  PROVE  Ordered(acc, q, b, d)
<1>1. a \in [Node -> Seq(Frame)] /\ \A m \in Node : Chain(a[m], EarlierData)
  BY DEF Ordered, Typed, AirOrdered
<1>2. b \in [Node -> Seq(Frame)]
  BY <1>1, BroadcastType
<1>3. ASSUME NEW m \in Node
      PROVE  /\ Chain(b[m], EarlierData)
             /\ \A g \in Range(b[m]) : g.type = "DATA" => g \in Range(a[m])
  <2>1. CASE b[m] = a[m]
    BY <1>1, <2>1
  <2>2. CASE b[m] = Append(a[m], f) /\ Range(b[m]) = Range(a[m]) \cup {f}
    <3>1. a[m] \in Seq(Frame) /\ Range(a[m]) \subseteq Frame
      BY <1>1, RangeOfSeq
    <3>2. \A y \in Range(a[m]) : <<y, f>> \in EarlierData
      BY <3>1 DEF EarlierData, SameSource
    <3>3. Chain(Append(a[m], f), EarlierData)
      BY <1>1, <3>1, <3>2, ChainAppend
    <3> QED
      BY <2>2, <3>3
  <2>3. MayHear(a[m], f, b[m])
    BY <1>1, BroadcastCases
  <2> QED
    BY <2>1, <2>2, <2>3 DEF MayHear
<1> QED
  BY <1>2, <1>3, OrderedAir

(* dequeue *)
LEMMA OrderedDequeue ==
  ASSUME NEW acc, NEW q, NEW a, NEW d, Ordered(acc, q, a, d),
         NEW n \in Node, q[n] # <<>>
  PROVE  Ordered(acc, [q EXCEPT ![n] = Tail(@)], a, d)
<1> DEFINE r == [q EXCEPT ![n] = Tail(@)]
<1>1. /\ q \in [Node -> Seq(IdsOf(acc))]
      /\ \A m \in Node : Chain(q[m], EarlierId(acc))
  BY DEF Ordered, Typed, BufOrdered
<1>2. /\ Tail(q[n]) \in Seq(IdsOf(acc))
      /\ Range(Tail(q[n])) \subseteq Range(q[n])
      /\ Chain(Tail(q[n]), EarlierId(acc))
  BY <1>1, HeadTail, ChainTail
<1>3. /\ r \in [Node -> Seq(IdsOf(acc))]
      /\ \A m \in Node : /\ Chain(r[m], EarlierId(acc))
                         /\ Range(r[m]) \subseteq Range(q[m])
  BY <1>1, <1>2
<1> HIDE DEF r
<1>4. Typed(acc, r, a, d)
  BY <1>3 DEF Ordered, Typed
<1>5. BufOrdered(acc, r)
  BY <1>3 DEF Ordered, BufOrdered
<1>6. \A i \in IdsOf(acc) : acc[i].src \in Node
  <2>1. acc \in Seq([src : Node, dest : Node])
    BY DEF Ordered, Typed
  <2>2. \A i \in IdsOf(acc) : acc[i] \in [src : Node, dest : Node]
    BY <2>1, ElementOfSeq DEF IdsOf
  <2> QED
    BY <2>2
<1>7. AirOrdered(acc, r, a)
  <2>1. ASSUME NEW m \in Node, NEW f \in Range(a[m]), f.type = "DATA"
        PROVE  \A j \in Range(r[f.src]) : f.id < j
    <3>1. /\ f.id \in IdsOf(acc)
          /\ f = DataOf(acc, f.id)
          /\ \A j \in Range(q[f.src]) : f.id < j
      BY <2>1 DEF Ordered, AirOrdered
    <3>2. f.src \in Node
      BY <1>6, <3>1 DEF DataOf
    <3> QED
      BY <1>3, <3>1, <3>2
  <2> QED
    BY <2>1 DEF Ordered, AirOrdered
<1>8. DeliveredOrdered(acc, r, a, d)
  <2>1. ASSUME NEW m \in Node, NEW i \in Range(d[m])
        PROVE  \A j \in Range(r[acc[i].src]) : i < j
    BY <1>3, <1>6 DEF Ordered, DeliveredOrdered
  <2> QED
    BY <2>1 DEF Ordered, DeliveredOrdered
<1>9. Ordered(acc, r, a, d)
  BY <1>4, <1>5, <1>7, <1>8 DEF Ordered
<1> QED
  BY <1>9 DEF r

(* A CTS releases the head of buf. *)
LEMMA OrderedData ==
  ASSUME NEW acc, NEW q, NEW a, NEW d, Ordered(acc, q, a, d),
         NEW n \in Node, q[n] # <<>>,
         NEW b \in Broadcast(a, n, DataOf(acc, Head(q[n])))
  PROVE  Ordered(acc, [q EXCEPT ![n] = Tail(@)], b, d)
<1> DEFINE i == Head(q[n])
           f == DataOf(acc, i)
           r == [q EXCEPT ![n] = Tail(@)]
<1>1. /\ q \in [Node -> Seq(IdsOf(acc))]
      /\ a \in [Node -> Seq(Frame)]
      /\ acc \in Seq([src : Node, dest : Node])
  BY DEF Ordered, Typed
<1>2. /\ i \in IdsOf(acc)
      /\ i \in Range(q[n])
      /\ r \in [Node -> Seq(IdsOf(acc))]
      /\ Chain(q[n], EarlierId(acc))
      /\ Range(Tail(q[n])) \subseteq Range(q[n])
      /\ \A j \in Range(Tail(q[n])) : <<i, j>> \in EarlierId(acc)
  BY <1>1, HeadTail, ChainTail DEF Ordered, BufOrdered
<1>3. \A j \in Range(r[n]) : i < j
  <2>1. \A j \in Range(q[n]) : acc[j].src = n
    BY DEF Ordered, BufOrdered
  <2> QED
    BY <1>1, <1>2, <2>1 DEF EarlierId
<1>4. f \in Frame /\ f.src = n /\ f.type = "DATA" /\ f.id = i
  <2>1. acc[i] \in [src : Node, dest : Node] /\ acc[i].src = n
    BY <1>1, <1>2, ElementOfSeq DEF IdsOf, Ordered, BufOrdered
  <2>2. i \in Nat
    <3>1. Len(acc) \in Nat
      BY <1>1, LenProperties
    <3> QED
      BY <1>2, <3>1 DEF IdsOf
  <2> QED
    BY <2>1, <2>2 DEF DataOf, Frame, FrameType
<1>5. Ordered(acc, r, a, d)
  BY OrderedDequeue
<1>6. \A m \in Node : MayHear(a[m], f, b[m])
  BY <1>1, <1>4, BroadcastCases
<1>7. b \in [Node -> Seq(Frame)]
  BY <1>1, <1>4, BroadcastType
<1>8. f = DataOf(acc, i)
  OBVIOUS
<1> HIDE DEF i, f, r
<1>9. AirOrdered(acc, r, b)
  <2>1. ASSUME NEW m \in Node
        PROVE  Chain(b[m], EarlierData)
    <3>1. /\ a[m] \in Seq(Frame)
          /\ Chain(a[m], EarlierData)
          /\ Range(a[m]) \subseteq Frame
      BY <1>1, RangeOfSeq DEF Ordered, AirOrdered
    <3>2. \A y \in Range(a[m]) : y.type = "DATA" /\ y.src = n => y.id < i
      BY <1>2 DEF Ordered, AirOrdered
    <3>3. \A y \in Range(a[m]) : <<y, f>> \in EarlierData
      BY <1>4, <3>1, <3>2 DEF EarlierData, SameSource
    <3>4. Chain(Append(a[m], f), EarlierData)
      BY <1>4, <3>1, <3>3, ChainAppend
    <3> QED
      BY <1>6, <3>1, <3>4 DEF MayHear
  <2>2. ASSUME NEW m \in Node, NEW g \in Range(b[m]), g.type = "DATA"
        PROVE  /\ g.id \in IdsOf(acc)
               /\ g = DataOf(acc, g.id)
               /\ \A j \in Range(r[g.src]) : g.id < j
    <3>1. CASE g = f
      BY <1>2, <1>3, <1>4, <1>8, <3>1
    <3>2. CASE g \in Range(a[m])
      BY <1>5, <2>2, <3>2 DEF Ordered, AirOrdered
    <3> QED
      BY <1>6, <2>2, <3>1, <3>2 DEF MayHear
  <2> QED
    BY <2>1, <2>2 DEF AirOrdered
<1>10. DeliveredOrdered(acc, r, b, d)
  <2>1. ASSUME NEW m \in Node, NEW k \in Range(d[m]), NEW g \in Range(b[m]),
               g.type = "DATA", g.src = acc[k].src
        PROVE  k < g.id
    <3>1. CASE g = f
      <4>1. \A j \in Range(q[acc[k].src]) : k < j
        BY <2>1 DEF Ordered, DeliveredOrdered
      <4> QED
        BY <1>2, <1>4, <2>1, <3>1, <4>1
    <3>2. CASE g \in Range(a[m])
      BY <2>1, <3>2 DEF Ordered, DeliveredOrdered
    <3> QED
      BY <1>6, <2>1, <3>1, <3>2 DEF MayHear
  <2> QED
    BY <1>5, <2>1 DEF Ordered, DeliveredOrdered
<1>11. Ordered(acc, r, b, d)
  BY <1>5, <1>7, <1>9, <1>10 DEF Ordered, Typed
<1> QED
  BY <1>11 DEF r

(* The head of the air reaches the node it is for. *)
LEMMA OrderedDeliver ==
  ASSUME NEW acc, NEW q, NEW a, NEW d, Ordered(acc, q, a, d),
         NEW n \in Node, a[n] # <<>>,
         Head(a[n]).type = "DATA", Head(a[n]).dest = n
  PROVE  Ordered(acc, q, [a EXCEPT ![n] = Tail(@)],
                 [d EXCEPT ![n] = Append(@, Head(a[n]).id)])
<1> DEFINE f == Head(a[n])
           i == f.id
           b == [a EXCEPT ![n] = Tail(@)]
           e == [d EXCEPT ![n] = Append(@, i)]
<1>1. /\ a \in [Node -> Seq(Frame)]
      /\ d \in [Node -> Seq(Nat)]
      /\ acc \in Seq([src : Node, dest : Node])
      /\ Chain(a[n], EarlierData)
      /\ Chain(d[n], EarlierId(acc))
  BY DEF Ordered, Typed, AirOrdered, DeliveredOrdered
<1>2. /\ f \in Frame
      /\ f \in Range(a[n])
      /\ Range(Tail(a[n])) \subseteq Range(a[n])
      /\ \A g \in Range(Tail(a[n])) : <<f, g>> \in EarlierData
  BY <1>1, HeadTail, ChainTail
<1>3. /\ i \in IdsOf(acc)
      /\ i \in Nat
      /\ acc[i].dest = n
      /\ acc[i].src = f.src
      /\ \A j \in Range(q[f.src]) : i < j
  BY <1>2 DEF Ordered, AirOrdered, DataOf, Frame
<1>4. Ordered(acc, q, b, d)
  BY OrderedTake
<1>5. /\ e \in [Node -> Seq(Nat)]
      /\ \A m \in Node \ {n} : e[m] = d[m] /\ b[m] = a[m]
      /\ e[n] = Append(d[n], i)
      /\ b[n] = Tail(a[n])
      /\ Range(e[n]) = Range(d[n]) \cup {i}
  <2>1. d[n] \in Seq(Nat)
    BY <1>1
  <2>2. /\ Append(d[n], i) \in Seq(Nat)
        /\ Range(Append(d[n], i)) = Range(d[n]) \cup {i}
    BY <1>3, <2>1, RangeAppend
  <2> QED
    BY <1>1, <2>2
<1>6. f.type = "DATA" /\ f.id = i
  OBVIOUS
<1> HIDE DEF f, i, b, e
<1>7. ASSUME NEW m \in Node
      PROVE  Chain(e[m], EarlierId(acc))
  <2>1. d[n] \in Seq(Nat) /\ \A k \in Range(d[n]) : k \in IdsOf(acc)
    BY <1>1 DEF Ordered, DeliveredOrdered
  <2>2. \A k \in Range(d[n]) : acc[k].src = acc[i].src => k < i
    BY <1>2, <1>3, <1>6 DEF Ordered, DeliveredOrdered
  <2>3. \A k \in Range(d[n]) : <<k, i>> \in EarlierId(acc)
    BY <1>3, <2>1, <2>2 DEF EarlierId
  <2>4. Chain(Append(d[n], i), EarlierId(acc))
    BY <1>1, <1>3, <2>1, <2>3, ChainAppend
  <2> QED
    BY <1>5, <2>4 DEF Ordered, DeliveredOrdered
<1>8. ASSUME NEW m \in Node, NEW k \in Range(e[m])
      PROVE  /\ k \in IdsOf(acc)
             /\ acc[k].dest = m
             /\ \A j \in Range(q[acc[k].src]) : k < j
             /\ \A g \in Range(b[m]) :
                  g.type = "DATA" /\ g.src = acc[k].src => k < g.id
  <2>1. CASE k \in Range(d[m])
    BY <1>4, <2>1 DEF Ordered, DeliveredOrdered
  <2>2. CASE m = n /\ k = i
    <3>1. \A g \in Range(b[n]) : <<f, g>> \in EarlierData
      BY <1>2, <1>5
    <3>2. \A g \in Range(b[n]) : g.type = "DATA" /\ g.src = f.src => i < g.id
      BY <1>6, <3>1 DEF EarlierData, SameSource
    <3> QED
      BY <1>3, <2>2, <3>2
  <2> QED
    BY <1>5, <1>8, <2>1, <2>2
<1>9. DeliveredOrdered(acc, q, b, e)
  BY <1>7, <1>8 DEF DeliveredOrdered
<1>10. Ordered(acc, q, b, e)
  BY <1>4, <1>5, <1>9 DEF Ordered, Typed
<1> QED
  BY <1>10 DEF b, e, i, f

OrderInv == Ordered(accepted, buf, air, delivered)

LEMMA OrderInit == Init => OrderInv
<1> SUFFICES ASSUME Init PROVE OrderInv
  OBVIOUS
<1>1. \A n \in Node : buf[n] = <<>> /\ air[n] = <<>> /\ delivered[n] = <<>>
  BY DEF Init
<1>2. Range(<<>>) = {} /\ \A P : Chain(<<>>, P)
  BY DEF Range, Chain
<1>3. Typed(accepted, buf, air, delivered)
  BY DEF Init, Typed, IdsOf
<1> QED
  BY <1>1, <1>2, <1>3
  DEF OrderInv, Ordered, BufOrdered, AirOrdered, DeliveredOrdered

(* A handler's upcall, given what is on the air and delivered after it. *)
LEMMA OrderUpcall ==
  ASSUME NEW a, NEW d, Ordered(accepted, buf, a, d),
         NEW n \in Node, UpcallSends(n)
  PROVE  Ordered(accepted', buf', a, d)
<1>1. CASE UNCHANGED <<accepted, buf>>
  BY <1>1
<1>2. ASSUME NEW m \in Node, Enqueue(n, m)
      PROVE  Ordered(accepted', buf', a, d)
  BY <1>2, OrderedEnqueue DEF Enqueue
<1> QED
  BY <1>1, <1>2 DEF UpcallSends

LEMMA OrderStep == TypeOK /\ OrderInv /\ [Next]_vars => undef' \/ OrderInv'
<1> SUFFICES ASSUME TypeOK, OrderInv, [Next]_vars, ~undef'
             PROVE  Ordered(accepted', buf', air', delivered')
  BY DEF OrderInv
<1>1. Ordered(accepted, buf, air, delivered)
  BY DEF OrderInv
<1>2. CASE UNCHANGED <<accepted, buf, air, delivered>>
  BY <1>1, <1>2
<1>3. ASSUME NEW n \in Node, Handler(n)
      PROVE  Ordered(accepted', buf', air', delivered')
  <2>1. ASSUME NEW type, Arrives(n, type)
        PROVE  /\ Ordered(accepted, buf, Taken(n), delivered)
               /\ Arrived(n) \in Frame
    BY <1>1, <2>1, OrderedTake, TakenType DEF Arrives, Taken
  <2>2. ASSUME NEW f \in Frame, f.type # "DATA",
               UNCHANGED <<accepted, buf, delivered>>,
               air' \in Broadcast(air, n, f)
        PROVE  Ordered(accepted', buf', air', delivered')
    BY <1>1, <2>2, OrderedControl
  <2>3. ASSUME NEW m \in Node, NEW type \in FrameType \ {"DATA"}
        PROVE  /\ Control(type, n, m) \in Frame
               /\ Control(type, n, m).type # "DATA"
    BY <2>3, ControlType DEF Control
  <2>4. CASE \E m \in Node : LinkSendData(n, m)
    <3>1. UpcallSends(n) /\ UNCHANGED <<air, delivered>>
      BY <2>4 DEF LinkSendData, UpcallSends
    <3> QED
      BY <1>1, <3>1, OrderUpcall
  <2>5. CASE LinkSendInfo(n) \/ SendNothing(n) \/ Collision(n)
    BY <1>2, <2>5 DEF LinkSendInfo, SendNothing, Collision, queues
  <2>6. CASE SendBeacon(n)
    <3>1. Beacon(n) \in Frame /\ Beacon(n).type # "DATA"
      BY ControlType DEF Beacon, Control
    <3> QED
      BY <2>2, <2>6, <3>1 DEF SendBeacon
  <2>7. CASE SendRts(n)
    <3>1. Data(Head(buf[n])).dest \in Node
      BY <2>7, DataType, HeadTail
      DEF SendRts, DataWaiting, TypeOK, QueueTypes
    <3>2. /\ air' \in
              Broadcast(air, n, Control("RTS", n, Data(Head(buf[n])).dest))
          /\ UNCHANGED <<accepted, buf, delivered>>
      BY <2>7 DEF SendRts, queues
    <3> QED
      BY <2>2, <2>3, <3>1, <3>2 DEF FrameType
  <2>8. CASE Timeout(n)
    <3>1. CASE UNCHANGED buf
      BY <1>2, <2>8, <3>1 DEF Timeout
    <3>2. CASE buf[n] # <<>> /\ buf' = [buf EXCEPT ![n] = Tail(@)]
      BY <1>1, <2>8, <3>2, OrderedDequeue DEF Timeout
    <3> QED
      BY <2>8, <3>1, <3>2 DEF Timeout, GiveUp, Retry
  <2>9. CASE ReceiveBeacon(n)
    BY <2>1, <2>9, OrderUpcall DEF ReceiveBeacon
  <2>10. CASE /\ UNCHANGED <<accepted, buf, delivered>>
              /\ air' = Taken(n)
              /\ \E type : Arrives(n, type)
    BY <2>1, <2>10
  <2>11. CASE OverhearCts(n) \/ OverhearData(n)
           \/ OverhearAck(n) \/ ReceiveAck(n)
    BY <2>10, <2>11
    DEF OverhearCts, OverhearData, OverhearAck, ReceiveAck, queues
  <2>12. CASE ReceiveRts(n)
    <3>1. CASE air' = Taken(n)
      BY <2>10, <2>12, <3>1 DEF ReceiveRts, queues
    <3>2. CASE air' \in
                Broadcast(Taken(n), n, Control("CTS", n, Arrived(n).src))
      <4>1. /\ Arrived(n).src \in Node
            /\ Ordered(accepted, buf, Taken(n), delivered)
        BY <2>1, <2>12 DEF ReceiveRts, Frame
      <4>2. /\ Control("CTS", n, Arrived(n).src) \in Frame
            /\ Control("CTS", n, Arrived(n).src).type # "DATA"
        BY <2>3, <4>1 DEF FrameType
      <4>3. Ordered(accepted, buf, air', delivered)
        BY <3>2, <4>1, <4>2, OrderedControl
      <4> QED
        BY <2>12, <4>3 DEF ReceiveRts, queues
    <3> QED
      BY <2>12, <3>1, <3>2 DEF ReceiveRts
  <2>13. CASE ReceiveCts(n)
    <3>1. Ordered(accepted, buf, Taken(n), delivered)
      BY <2>1, <2>13 DEF ReceiveCts
    <3>2. /\ buf[n] # <<>>
          /\ buf' = [buf EXCEPT ![n] = Tail(@)]
          /\ air' \in Broadcast(Taken(n), n, DataOf(accepted, Head(buf[n])))
          /\ UNCHANGED <<accepted, delivered>>
      BY <2>13 DEF ReceiveCts, Data, DataOf
    <3> QED
      BY <3>1, <3>2, OrderedData
  <2>14. CASE ReceiveCtsNoData(n)
    BY <2>14 DEF ReceiveCtsNoData
  <2>15. CASE ReceiveData(n)
    <3>1. /\ Ordered(accepted, buf, Taken(n), delivered')
          /\ Arrived(n).src \in Node
      BY <1>1, <2>1, <2>15, OrderedDeliver
      DEF ReceiveData, Arrives, Taken, Arrived, ForMe, Frame
    <3>2. Ordered(accepted', buf', Taken(n), delivered')
      BY <2>15, <3>1, OrderUpcall DEF ReceiveData
    <3>3. /\ Control("ACK", n, Arrived(n).src) \in Frame
          /\ Control("ACK", n, Arrived(n).src).type # "DATA"
      BY <2>3, <3>1 DEF FrameType
    <3> QED
      BY <2>15, <3>2, <3>3, OrderedControl DEF ReceiveData
  <2> QED
    BY <1>3, <2>4, <2>5, <2>6, <2>7, <2>8, <2>9, <2>11, <2>12, <2>13, <2>14,
       <2>15 DEF Handler, Send, Receive
<1> QED
  BY <1>2, <1>3 DEF Next, Stopped, vars, queues

LEMMA OrderImplies == OrderInv => InOrderOnce
<1> SUFFICES ASSUME OrderInv PROVE Channel!InOrderOnce
  BY DEF InOrderOnce
<1>1. DeliveredOrdered(accepted, buf, air, delivered)
  BY DEF OrderInv, Ordered
<1>2. DOMAIN accepted = IdsOf(accepted)
  BY LenProperties DEF OrderInv, Ordered, Typed, IdsOf
<1>3. ASSUME NEW r \in Node, NEW k \in DOMAIN delivered[r]
      PROVE  /\ delivered[r][k] \in DOMAIN accepted
             /\ accepted[delivered[r][k]].dest = r
  <2>1. delivered[r][k] \in Range(delivered[r])
    BY <1>3 DEF Range
  <2> QED
    BY <1>1, <1>2, <2>1 DEF DeliveredOrdered
<1>4. ASSUME NEW r \in Node, NEW k \in DOMAIN delivered[r],
             NEW l \in DOMAIN delivered[r], k < l,
             accepted[delivered[r][k]].src = accepted[delivered[r][l]].src
      PROVE  delivered[r][k] < delivered[r][l]
  BY <1>1, <1>4 DEF DeliveredOrdered, Chain, EarlierId
<1> QED
  BY <1>3, <1>4 DEF Channel!InOrderOnce

LEMMA UndefStays == undef /\ [Next]_vars => undef'
BY DEF Next, Stopped, vars, faults, Handler, LinkSendInfo, LinkSendData,
       Send, SendBeacon, SendRts, SendNothing, Collision, Timeout,
       Receive, ReceiveBeacon, ReceiveRts, OverhearCts, ReceiveCts,
       ReceiveCtsNoData, OverhearData, ReceiveData, OverhearAck, ReceiveAck

(* Whatever is lost and however timers and collisions interleave, in any   *)
(* network the frames of one sender reach a receiver in order and at most  *)
(* once, until an uninitialised frame is read.                             *)
THEOREM DeliversInOrderOnce == Spec => []InOrderOnce
<1>1. Init => OrderInv
  BY OrderInit
<1>2. undef \/ OrderInv => InOrderOnce
  BY OrderImplies DEF InOrderOnce
<1>3. TypeOK /\ (undef \/ OrderInv) /\ [Next]_vars => (undef \/ OrderInv)'
  BY UndefStays, OrderStep
<1> QED
  BY <1>1, <1>2, <1>3, TypeCorrect, PTL DEF Spec

-----------------------------------------------------------------------------
(* Where the frames are.                                                   *)
(*                                                                         *)
(* OnePlace is inductive together with OrderInv, by which no frame is      *)
(* twice in the queues, and with the fact that a data frame on the air has *)
(* been transmitted.                                                       *)

Queued(q) == UNION {Range(q[n]) : n \in Node}

Placed(acc, q, out, drop) ==
  /\ IdsOf(acc) = Queued(q) \cup out \cup drop
  /\ Queued(q) \cap (out \cup drop) = {}
  /\ out \cap drop = {}

WasSent(a, d, out) ==
  \A n \in Node :
    /\ Range(d[n]) \subseteq out
    /\ \A f \in Range(a[n]) : f.type = "DATA" => f.id \in out

PlaceInv ==
  /\ OrderInv
  /\ Placed(accepted, buf, transmitted, dropped)
  /\ WasSent(air, delivered, transmitted)

LEMMA PlacedEnqueue ==
  ASSUME NEW acc \in Seq([src : Node, dest : Node]),
         NEW q \in [Node -> Seq(IdsOf(acc))], NEW out, NEW drop,
         Placed(acc, q, out, drop), NEW n \in Node, NEW m \in Node
  PROVE  Placed(Append(acc, [src |-> n, dest |-> m]),
                [q EXCEPT ![n] = Append(@, Len(acc) + 1)], out, drop)
<1> DEFINE bcc == Append(acc, [src |-> n, dest |-> m])
           new == Len(acc) + 1
           r   == [q EXCEPT ![n] = Append(@, new)]
<1>1. Len(acc) \in Nat /\ Len(bcc) = new
  BY AppendProperties, LenProperties
<1>2. IdsOf(bcc) = IdsOf(acc) \cup {new} /\ new \notin IdsOf(acc)
  BY <1>1 DEF IdsOf
<1>3. r[n] = Append(q[n], new) /\ \A k \in Node \ {n} : r[k] = q[k]
  OBVIOUS
<1>4. Range(Append(q[n], new)) = Range(q[n]) \cup {new}
  <2>1. q[n] \in Seq(IdsOf(bcc)) /\ new \in IdsOf(bcc)
    BY <1>2, SeqMonotonic
  <2> HIDE DEF bcc, new
  <2> QED
    BY <2>1, RangeAppend
<1> HIDE DEF bcc, new, r
<1>5. Queued(r) = Queued(q) \cup {new}
  BY <1>3, <1>4 DEF Queued
<1>6. Placed(bcc, r, out, drop)
  BY <1>2, <1>5 DEF Placed
<1> QED
  BY <1>6 DEF bcc, new, r

LEMMA PlacedDequeue ==
  ASSUME NEW acc, NEW q \in [Node -> Seq(IdsOf(acc))], BufOrdered(acc, q),
         NEW out, NEW drop, Placed(acc, q, out, drop),
         NEW n \in Node, q[n] # <<>>
  PROVE  LET h == Head(q[n])
             r == [q EXCEPT ![n] = Tail(@)]
         IN  /\ Placed(acc, r, out \cup {h}, drop)
             /\ Placed(acc, r, out, drop \cup {h})
<1> DEFINE h == Head(q[n])
           r == [q EXCEPT ![n] = Tail(@)]
<1>1. /\ h \in IdsOf(acc) /\ h \in Range(q[n])
      /\ Range(q[n]) = {h} \cup Range(Tail(q[n]))
  BY HeadTail
<1>2. \A y \in Range(Tail(q[n])) : <<h, y>> \in EarlierId(acc)
  BY ChainTail DEF BufOrdered
<1>3. r[n] = Tail(q[n]) /\ \A k \in Node \ {n} : r[k] = q[k]
  OBVIOUS
<1>4. \A k \in Node : \A i \in Range(q[k]) : acc[i].src = k
  BY DEF BufOrdered
<1> HIDE DEF h, r
<1>5. h \notin Range(r[n])
  <2>1. SUFFICES ASSUME h \in Range(Tail(q[n])) PROVE FALSE
    BY <1>3
  <2>2. <<h, h>> \in EarlierId(acc)
    BY <1>2, <2>1
  <2>3. h < h
    BY <2>2 DEF EarlierId
  <2>4. h \in Int
    BY <1>1 DEF IdsOf
  <2> QED
    BY <2>3, <2>4
<1>6. ASSUME NEW k \in Node \ {n}
      PROVE  h \notin Range(r[k])
  BY <1>1, <1>3, <1>4
<1>7. h \notin Queued(r)
  BY <1>5, <1>6 DEF Queued
<1>8. Queued(q) = Queued(r) \cup {h}
  BY <1>1, <1>3 DEF Queued
<1>9. /\ Placed(acc, r, out \cup {h}, drop)
      /\ Placed(acc, r, out, drop \cup {h})
  BY <1>7, <1>8 DEF Placed
<1> QED
  BY <1>9 DEF h, r

LEMMA WasSentTake ==
  ASSUME NEW a \in [Node -> Seq(Frame)], NEW d, NEW out,
         WasSent(a, d, out), NEW n \in Node, a[n] # <<>>
  PROVE  WasSent([a EXCEPT ![n] = Tail(@)], d, out)
<1> DEFINE b == [a EXCEPT ![n] = Tail(@)]
<1>1. Range(Tail(a[n])) \subseteq Range(a[n])
  BY HeadTail
<1>2. \A k \in Node : Range(b[k]) \subseteq Range(a[k])
  BY <1>1
<1> HIDE DEF b
<1>3. WasSent(b, d, out)
  BY <1>2 DEF WasSent
<1> QED
  BY <1>3 DEF b

LEMMA WasSentBroadcast ==
  ASSUME NEW a \in [Node -> Seq(Frame)], NEW d, NEW out,
         WasSent(a, d, out), NEW n \in Node, NEW f \in Frame,
         f.type = "DATA" => f.id \in out,
         NEW b \in Broadcast(a, n, f)
  PROVE  WasSent(b, d, out)
<1>1. ASSUME NEW k \in Node
      PROVE  Range(b[k]) \subseteq Range(a[k]) \cup {f}
  <2>1. MayHear(a[k], f, b[k])
    BY BroadcastCases
  <2> QED
    BY <2>1 DEF MayHear
<1> QED
  BY <1>1 DEF WasSent

LEMMA WasSentDeliver ==
  ASSUME NEW a \in [Node -> Seq(Frame)], NEW d \in [Node -> Seq(Nat)],
         NEW out, WasSent(a, d, out), NEW n \in Node, a[n] # <<>>,
         Head(a[n]).type = "DATA"
  PROVE  WasSent(a, [d EXCEPT ![n] = Append(@, Head(a[n]).id)], out)
<1> DEFINE f == Head(a[n])
           e == [d EXCEPT ![n] = Append(@, f.id)]
<1>1. f \in Range(a[n]) /\ f \in Frame
  BY HeadTail
<1>2. f.id \in Nat /\ f.id \in out
  BY <1>1 DEF WasSent, Frame
<1>3. e[n] = Append(d[n], f.id) /\ \A k \in Node \ {n} : e[k] = d[k]
  OBVIOUS
<1> HIDE DEF e
<1>4. Range(e[n]) = Range(d[n]) \cup {f.id}
  <2>1. d[n] \in Seq(Nat)
    OBVIOUS
  <2> HIDE DEF f
  <2> QED
    BY <1>2, <1>3, <2>1, RangeAppend
<1>5. \A k \in Node : Range(e[k]) \subseteq Range(d[k]) \cup out
  BY <1>2, <1>3, <1>4
<1>6. WasSent(a, e, out)
  BY <1>5 DEF WasSent
<1> QED
  BY <1>6 DEF e

LEMMA PlaceInit == Init => PlaceInv
<1> SUFFICES ASSUME Init PROVE PlaceInv
  OBVIOUS
<1>1. /\ accepted = <<>> /\ transmitted = {} /\ dropped = {}
      /\ \A n \in Node : buf[n] = <<>> /\ air[n] = <<>> /\ delivered[n] = <<>>
  BY DEF Init
<1>2. Range(<<>>) = {}
  BY DEF Range
<1>3. IdsOf(accepted) = {}
  BY <1>1 DEF IdsOf
<1>4. Queued(buf) = {}
  BY <1>1, <1>2 DEF Queued
<1>5. Placed(accepted, buf, transmitted, dropped)
  BY <1>1, <1>3, <1>4 DEF Placed
<1>6. WasSent(air, delivered, transmitted)
  BY <1>1, <1>2 DEF WasSent
<1> QED
  BY <1>5, <1>6, OrderInit DEF PlaceInv

LEMMA PlaceUpcall ==
  ASSUME NEW out, NEW drop, OrderInv, Placed(accepted, buf, out, drop),
         NEW n \in Node, UpcallSends(n)
  PROVE  Placed(accepted', buf', out, drop)
<1>1. CASE UNCHANGED <<accepted, buf>>
  BY <1>1
<1>2. ASSUME NEW m \in Node, Enqueue(n, m)
      PROVE  Placed(accepted', buf', out, drop)
  <2>1. /\ accepted \in Seq([src : Node, dest : Node])
        /\ buf \in [Node -> Seq(IdsOf(accepted))]
    BY DEF OrderInv, Ordered, Typed
  <2> QED
    BY <1>2, <2>1, PlacedEnqueue DEF Enqueue
<1> QED
  BY <1>1, <1>2 DEF UpcallSends

LEMMA PlaceStep ==
  TypeOK /\ PlaceInv /\ [Next]_vars => undef' \/ PlaceInv'
<1> SUFFICES ASSUME TypeOK, PlaceInv, [Next]_vars, ~undef'
             PROVE  PlaceInv'
  OBVIOUS
<1> DEFINE P == Placed(accepted', buf', transmitted', dropped')
           W == WasSent(air', delivered', transmitted')
<1>1. /\ Placed(accepted, buf, transmitted, dropped)
      /\ WasSent(air, delivered, transmitted)
      /\ air \in [Node -> Seq(Frame)] /\ delivered \in [Node -> Seq(Nat)]
      /\ buf \in [Node -> Seq(IdsOf(accepted))] /\ BufOrdered(accepted, buf)
  BY DEF PlaceInv, OrderInv, Ordered, Typed
<1>2. OrderInv /\ OrderInv'
  BY OrderStep DEF PlaceInv
<1>3. UNCHANGED <<accepted, buf, transmitted, dropped>> => P
  BY <1>1
<1>4. UNCHANGED <<air, delivered, transmitted>> => W
  BY <1>1
<1>5. ASSUME NEW n \in Node, Handler(n)
      PROVE  P /\ W
  <2>1. ASSUME NEW type, Arrives(n, type)
        PROVE  /\ WasSent(Taken(n), delivered, transmitted)
               /\ Taken(n) \in [Node -> Seq(Frame)]
               /\ Arrived(n) \in Frame
    BY <1>1, <2>1, WasSentTake, TakenType DEF Arrives, Taken
  <2>2. ASSUME NEW m \in Node, NEW type \in FrameType \ {"DATA"}
        PROVE  /\ Control(type, n, m) \in Frame
               /\ Control(type, n, m).type # "DATA"
    BY <2>2, ControlType DEF Control
  <2>3. ASSUME UNCHANGED <<accepted, buf, transmitted, dropped, delivered>>,
               air' = Taken(n), NEW type, Arrives(n, type)
        PROVE  P /\ W
    BY <1>3, <2>1, <2>3
  <2>4. CASE \E m \in Node : LinkSendData(n, m)
    <3>1. /\ UpcallSends(n)
          /\ UNCHANGED <<air, delivered, transmitted, dropped>>
      BY <2>4 DEF LinkSendData, UpcallSends, history
    <3> QED
      BY <1>1, <1>2, <1>4, <3>1, PlaceUpcall
  <2>5. CASE LinkSendInfo(n) \/ SendNothing(n) \/ Collision(n)
    BY <1>3, <1>4, <2>5
    DEF LinkSendInfo, SendNothing, Collision, queues, history
  <2>6. CASE SendBeacon(n)
    <3>1. Beacon(n) \in Frame /\ Beacon(n).type # "DATA"
      BY ControlType DEF Beacon, Control
    <3>2. /\ air' \in Broadcast(air, n, Beacon(n))
          /\ UNCHANGED <<accepted, buf, transmitted, dropped, delivered>>
      BY <2>6 DEF SendBeacon, history
    <3>3. WasSent(air', delivered, transmitted)
      BY <1>1, <3>1, <3>2, WasSentBroadcast
    <3> QED
      BY <1>3, <3>2, <3>3
  <2>7. CASE SendRts(n)
    <3>1. Data(Head(buf[n])).dest \in Node
      BY <2>7, DataType, HeadTail
      DEF SendRts, DataWaiting, TypeOK, QueueTypes
    <3> DEFINE f == Control("RTS", n, Data(Head(buf[n])).dest)
    <3>2. /\ air' \in Broadcast(air, n, f)
          /\ UNCHANGED <<accepted, buf, transmitted, dropped, delivered>>
      BY <2>7 DEF SendRts, queues, history
    <3>3. f \in Frame /\ f.type # "DATA"
      BY <2>2, <3>1 DEF FrameType
    <3> HIDE DEF f
    <3>4. WasSent(air', delivered, transmitted)
      BY <1>1, <3>2, <3>3, WasSentBroadcast
    <3> QED
      BY <1>3, <3>2, <3>4
  <2>8. CASE Timeout(n)
    <3>1. UNCHANGED <<accepted, air, delivered, transmitted>>
      BY <2>8 DEF Timeout
    <3>2. CASE UNCHANGED <<buf, dropped>>
      BY <1>3, <1>4, <3>1, <3>2
    <3>3. CASE /\ buf[n] # <<>>
               /\ buf' = [buf EXCEPT ![n] = Tail(@)]
               /\ dropped' = dropped \cup {Head(buf[n])}
      <4>1. P
        BY <1>1, <3>1, <3>3, PlacedDequeue
      <4> QED
        BY <1>4, <3>1, <4>1
    <3> QED
      BY <2>8, <3>2, <3>3 DEF Timeout, GiveUp, Retry
  <2>9. CASE ReceiveBeacon(n)
    <3>1. /\ UpcallSends(n) /\ Arrives(n, "BEACON") /\ air' = Taken(n)
          /\ UNCHANGED <<transmitted, dropped, delivered>>
      BY <2>9 DEF ReceiveBeacon, history
    <3> QED
      BY <1>1, <1>2, <2>1, <3>1, PlaceUpcall
  <2>10. CASE OverhearCts(n)
    BY <2>3, <2>10 DEF OverhearCts, queues, history
  <2>11. CASE OverhearData(n)
    BY <2>3, <2>11 DEF OverhearData, queues, history
  <2>12. CASE OverhearAck(n)
    BY <2>3, <2>12 DEF OverhearAck, queues, history
  <2>13. CASE ReceiveAck(n)
    BY <2>3, <2>13 DEF ReceiveAck, queues, history
  <2>14. CASE ReceiveRts(n)
    <3>1. /\ Arrives(n, "RTS")
          /\ UNCHANGED <<accepted, buf, transmitted, dropped, delivered>>
      BY <2>14 DEF ReceiveRts, queues, history
    <3>2. CASE air' = Taken(n)
      BY <2>3, <3>1, <3>2
    <3>3. CASE air' \in
                 Broadcast(Taken(n), n, Control("CTS", n, Arrived(n).src))
      <4>1. /\ Arrived(n).src \in Node
            /\ WasSent(Taken(n), delivered, transmitted)
            /\ Taken(n) \in [Node -> Seq(Frame)]
        BY <2>1, <3>1 DEF Frame
      <4> DEFINE f == Control("CTS", n, Arrived(n).src)
      <4>2. f \in Frame /\ f.type # "DATA"
        BY <2>2, <4>1 DEF FrameType
      <4> HIDE DEF f
      <4>3. WasSent(air', delivered, transmitted)
        BY <3>3, <4>1, <4>2, WasSentBroadcast DEF f
      <4> QED
        BY <1>3, <3>1, <4>3
    <3> QED
      BY <2>14, <3>2, <3>3 DEF ReceiveRts
  <2>15. CASE ReceiveCts(n)
    <3> DEFINE h == Head(buf[n])
    <3>1. /\ buf[n] # <<>> /\ Arrives(n, "CTS")
          /\ buf' = [buf EXCEPT ![n] = Tail(@)]
          /\ air' \in Broadcast(Taken(n), n, Data(h))
          /\ transmitted' = transmitted \cup {h}
          /\ UNCHANGED <<accepted, dropped, delivered>>
      BY <2>15 DEF ReceiveCts
    <3>2. P
      BY <1>1, <3>1, PlacedDequeue
    <3>3. Data(h) \in Frame /\ Data(h).id = h
      BY <3>1, DataType, HeadTail DEF TypeOK, QueueTypes
    <3>4. /\ WasSent(Taken(n), delivered, transmitted')
          /\ Taken(n) \in [Node -> Seq(Frame)]
      BY <2>1, <3>1 DEF WasSent
    <3>5. h \in transmitted'
      BY <3>1
    <3> HIDE DEF h
    <3>6. WasSent(air', delivered, transmitted')
      BY <3>1, <3>3, <3>4, <3>5, WasSentBroadcast
    <3> QED
      BY <3>1, <3>2, <3>6
  <2>16. CASE ReceiveCtsNoData(n)
    BY <2>16 DEF ReceiveCtsNoData
  <2>17. CASE ReceiveData(n)
    <3>1. /\ Arrives(n, "DATA") /\ UpcallSends(n)
          /\ delivered' = [delivered EXCEPT ![n] = Append(@, Arrived(n).id)]
          /\ air' \in Broadcast(Taken(n), n,
                                Control("ACK", n, Arrived(n).src))
          /\ UNCHANGED <<transmitted, dropped>>
      BY <2>17 DEF ReceiveData, history
    <3>2. P
      BY <1>1, <1>2, <3>1, PlaceUpcall
    <3>3. WasSent(air, delivered', transmitted)
      BY <1>1, <3>1, WasSentDeliver DEF Arrives, Arrived
    <3>4. WasSent(Taken(n), delivered', transmitted)
      BY <1>1, <3>1, <3>3, WasSentTake DEF Arrives, Taken
    <3>5. Taken(n) \in [Node -> Seq(Frame)] /\ Arrived(n).src \in Node
      BY <2>1, <3>1 DEF Frame
    <3> DEFINE f == Control("ACK", n, Arrived(n).src)
    <3>6. f \in Frame /\ f.type # "DATA"
      BY <2>2, <3>5 DEF FrameType
    <3> HIDE DEF f
    <3>7. WasSent(air', delivered', transmitted)
      BY <3>1, <3>4, <3>5, <3>6, WasSentBroadcast DEF f
    <3> QED
      BY <3>1, <3>2, <3>7
  <2> QED
    BY <1>5, <2>4, <2>5, <2>6, <2>7, <2>8, <2>9, <2>10, <2>11, <2>12, <2>13,
       <2>14, <2>15, <2>16, <2>17 DEF Handler, Send, Receive
<1>6. ASSUME UNCHANGED <<accepted, buf, transmitted, dropped, air, delivered>>
      PROVE  P /\ W
  <2>1. P
    BY <1>3, <1>6
  <2>2. W
    BY <1>4, <1>6
  <2> QED
    BY <2>1, <2>2
<1>7. P /\ W
  BY <1>5, <1>6 DEF Next, Stopped, vars, history, queues
<1> QED
  BY <1>2, <1>7 DEF PlaceInv

LEMMA PlaceImplies == TypeOK /\ PlaceInv => OnePlace
<1> SUFFICES ASSUME TypeOK, PlaceInv PROVE OnePlace
  OBVIOUS
<1>1. FrameId = IdsOf(accepted) /\ Waiting = Queued(buf)
  BY DEF FrameId, IdsOf, Waiting, Queued
<1>2. \A n \in Node : \A i \in Range(buf[n]) : accepted[i].src = n
  BY DEF PlaceInv, OrderInv, Ordered, BufOrdered
<1> QED
  BY <1>1, <1>2 DEF PlaceInv, Placed, WasSent, OnePlace

(* In any network, until an uninitialised frame is read, every frame that  *)
(* link_send_data (link.c:193) accepted waits in the buf of its sender,    *)
(* has been sent, or has been dropped by timeout, and only one of these.   *)
THEOREM OnePlaceHolds == Spec => []OnePlace
<1>1. Init => PlaceInv
  BY PlaceInit
<1>2. TypeOK /\ (undef \/ PlaceInv) => OnePlace
  BY PlaceImplies DEF OnePlace
<1>3. TypeOK /\ (undef \/ PlaceInv) /\ [Next]_vars => (undef \/ PlaceInv)'
  BY UndefStays, PlaceStep
<1> QED
  BY <1>1, <1>2, <1>3, TypeCorrect, PTL DEF Spec

-----------------------------------------------------------------------------
(* The abstract channel.  A frame is pending while it is in its sender's   *)
(* buf or on the air to its receiver.                                      *)

PendingOf(acc, q, a) ==
  {i \in IdsOf(acc) : \/ i \in Range(q[acc[i].src])
                      \/ DataOf(acc, i) \in Range(a[acc[i].dest])}

LEMMA EndsOf ==
  ASSUME NEW acc, NEW q, NEW a, NEW d, Ordered(acc, q, a, d)
  PROVE  \A i \in IdsOf(acc) : acc[i].src \in Node /\ acc[i].dest \in Node
<1>1. acc \in Seq([src : Node, dest : Node])
  BY DEF Ordered, Typed
<1>2. \A i \in IdsOf(acc) : acc[i] \in [src : Node, dest : Node]
  BY <1>1, ElementOfSeq DEF IdsOf
<1> QED
  BY <1>2

LEMMA PendingControl ==
  ASSUME NEW acc, NEW q, NEW a, NEW d, Ordered(acc, q, a, d),
         NEW n \in Node, NEW f \in Frame, f.type # "DATA",
         NEW b \in Broadcast(a, n, f)
  PROVE  PendingOf(acc, q, b) = PendingOf(acc, q, a)
<1>1. \A m \in Node : MayHear(a[m], f, b[m])
  BY BroadcastCases DEF Ordered, Typed
<1>2. \A i : DataOf(acc, i) # f
  BY DEF DataOf
<1>3. \A m \in Node, i \in IdsOf(acc) :
        DataOf(acc, i) \in Range(b[m]) <=> DataOf(acc, i) \in Range(a[m])
  BY <1>1, <1>2 DEF MayHear
<1> QED
  BY <1>3, EndsOf DEF PendingOf

(* The queue or the air of n without its head. *)
Popped(f, n) == [f EXCEPT ![n] = Tail(@)]

(* A frame that is taken off the air by a node it is not meant for. *)
LEMMA PendingTake ==
  ASSUME NEW acc, NEW q, NEW a, NEW d, Ordered(acc, q, a, d),
         NEW n \in Node, a[n] # <<>>,
         Head(a[n]).type # "DATA" \/ Head(a[n]).dest # n
  PROVE  PendingOf(acc, q, Popped(a, n)) = PendingOf(acc, q, a)
<1> DEFINE b == Popped(a, n)
<1>1. a \in [Node -> Seq(Frame)]
  BY DEF Ordered, Typed
<1>2. /\ b[n] = Tail(a[n])
      /\ \A m \in Node \ {n} : b[m] = a[m]
      /\ Range(a[n]) = {Head(a[n])} \cup Range(b[n])
  BY <1>1, HeadTail DEF Popped
<1> HIDE DEF b
<1>3. ASSUME NEW i \in IdsOf(acc)
      PROVE  DataOf(acc, i) \in Range(b[acc[i].dest])
             <=> DataOf(acc, i) \in Range(a[acc[i].dest])
  <2>1. acc[i].dest \in Node
    BY EndsOf
  <2>2. acc[i].dest = n => DataOf(acc, i) # Head(a[n])
    BY DEF DataOf
  <2> QED
    BY <1>2, <2>1, <2>2
<1>4. PendingOf(acc, q, b) = PendingOf(acc, q, a)
  BY <1>3 DEF PendingOf
<1> QED
  BY <1>4 DEF b

LEMMA PendingDequeue ==
  ASSUME NEW acc, NEW q, NEW a, NEW d, Ordered(acc, q, a, d),
         NEW n \in Node, q[n] # <<>>
  PROVE  /\ Head(q[n]) \in PendingOf(acc, q, a)
         /\ PendingOf(acc, Popped(q, n), a)
            = PendingOf(acc, q, a) \ {Head(q[n])}
<1> DEFINE i == Head(q[n])
           r == Popped(q, n)
<1>1. q \in [Node -> Seq(IdsOf(acc))] /\ Chain(q[n], EarlierId(acc))
  BY DEF Ordered, Typed, BufOrdered
<1>2. /\ i \in IdsOf(acc)
      /\ Range(q[n]) = {i} \cup Range(r[n])
      /\ \A m \in Node \ {n} : r[m] = q[m]
      /\ \A j \in Range(r[n]) : <<i, j>> \in EarlierId(acc)
  BY <1>1, HeadTail, ChainTail DEF Popped
<1> HIDE DEF i, r
<1>3. \A j \in Range(q[n]) : acc[j].src = n
  BY DEF Ordered, BufOrdered
<1>4. ~(i < i)
  <2>1. Len(acc) \in Nat
    BY LenProperties DEF Ordered, Typed
  <2> QED
    BY <1>2, <2>1 DEF IdsOf
<1>5. i \notin Range(r[n])
  <2>1. \A j \in Range(r[n]) : acc[i].src = acc[j].src => i < j
    BY <1>2 DEF EarlierId
  <2> QED
    BY <1>4, <2>1
<1>6. \A m \in Node : DataOf(acc, i) \notin Range(a[m])
  <2>1. SUFFICES ASSUME NEW m \in Node, DataOf(acc, i) \in Range(a[m])
                 PROVE  FALSE
    OBVIOUS
  <2>2. \A j \in Range(q[n]) : i < j
    BY <1>2, <1>3, <2>1 DEF Ordered, AirOrdered, DataOf
  <2> QED
    BY <1>2, <1>4, <2>2
<1>7. i \in PendingOf(acc, q, a)
  BY <1>2, <1>3 DEF PendingOf
<1>8. ASSUME NEW j \in IdsOf(acc)
      PROVE  j \in PendingOf(acc, r, a) <=> j \in PendingOf(acc, q, a) /\ j # i
  <2>1. acc[j].src \in Node /\ acc[j].dest \in Node
    BY EndsOf
  <2>2. CASE j = i
    BY <1>2, <1>3, <1>5, <1>6, <2>1, <2>2 DEF PendingOf
  <2>3. CASE j # i
    BY <1>2, <2>1, <2>3 DEF PendingOf
  <2> QED
    BY <2>2, <2>3
<1>9. PendingOf(acc, r, a) = PendingOf(acc, q, a) \ {i}
  BY <1>8 DEF PendingOf
<1> QED
  BY <1>7, <1>9 DEF i, r

(* The head of buf is broadcast: it is still pending, or it is lost. *)
LEMMA PendingData ==
  ASSUME NEW acc, NEW q, NEW a, NEW d, Ordered(acc, q, a, d),
         NEW n \in Node, q[n] # <<>>,
         NEW b \in Broadcast(a, n, DataOf(acc, Head(q[n])))
  PROVE  /\ Head(q[n]) \in PendingOf(acc, q, a)
         /\ \/ PendingOf(acc, Popped(q, n), b) = PendingOf(acc, q, a)
            \/ PendingOf(acc, Popped(q, n), b)
               = PendingOf(acc, q, a) \ {Head(q[n])}
<1> DEFINE i == Head(q[n])
           r == Popped(q, n)
<1>1. /\ i \in PendingOf(acc, q, a)
      /\ PendingOf(acc, r, a) = PendingOf(acc, q, a) \ {i}
  BY PendingDequeue
<1>2. i \in IdsOf(acc)
  BY <1>1 DEF PendingOf
<1>3. DataOf(acc, i) \in Frame
  <2>1. acc \in Seq([src : Node, dest : Node])
    BY DEF Ordered, Typed
  <2>2. i \in Nat
    <3>1. Len(acc) \in Nat
      BY <2>1, LenProperties
    <3> QED
      BY <1>2, <3>1 DEF IdsOf
  <2> QED
    BY <1>2, <2>2, EndsOf DEF DataOf, Frame, FrameType
<1>4. \A m \in Node : MayHear(a[m], DataOf(acc, i), b[m])
  BY <1>3, BroadcastCases DEF Ordered, Typed
<1> HIDE DEF i, r
<1>5. ASSUME NEW j \in IdsOf(acc), j # i
      PROVE  j \in PendingOf(acc, r, b) <=> j \in PendingOf(acc, r, a)
  <2>1. acc[j].dest \in Node /\ DataOf(acc, j) # DataOf(acc, i)
    BY <1>5, EndsOf DEF DataOf
  <2> QED
    BY <1>4, <2>1 DEF MayHear, PendingOf
<1>6. CASE i \in PendingOf(acc, r, b)
  <2>1. PendingOf(acc, r, b) = PendingOf(acc, q, a)
    BY <1>1, <1>5, <1>6 DEF PendingOf
  <2> QED
    BY <1>1, <2>1 DEF i, r
<1>7. CASE i \notin PendingOf(acc, r, b)
  <2>1. PendingOf(acc, r, b) = PendingOf(acc, q, a) \ {i}
    BY <1>1, <1>5, <1>7 DEF PendingOf
  <2> QED
    BY <1>1, <2>1 DEF i, r
<1> QED
  BY <1>6, <1>7

(* The receiver takes the oldest pending frame of its sender. *)
LEMMA PendingDeliver ==
  ASSUME NEW acc, NEW q, NEW a, NEW d, Ordered(acc, q, a, d),
         NEW n \in Node, a[n] # <<>>,
         NEW i, i = Head(a[n]).id,
         Head(a[n]).type = "DATA", Head(a[n]).dest = n
  PROVE  /\ i \in PendingOf(acc, q, a)
         /\ acc[i].dest = n
         /\ \A j \in PendingOf(acc, q, a) : acc[j] = acc[i] => i <= j
         /\ PendingOf(acc, q, Popped(a, n)) = PendingOf(acc, q, a) \ {i}
<1> DEFINE f == Head(a[n])
           b == Popped(a, n)
<1>1. a \in [Node -> Seq(Frame)] /\ Chain(a[n], EarlierData)
  BY DEF Ordered, Typed, AirOrdered
<1>2. /\ f \in Range(a[n])
      /\ Range(a[n]) = {f} \cup Range(b[n])
      /\ b[n] = Tail(a[n])
      /\ \A m \in Node \ {n} : b[m] = a[m]
      /\ \A g \in Range(b[n]) : <<f, g>> \in EarlierData
  BY <1>1, HeadTail, ChainTail DEF Popped
<1>3. /\ i \in IdsOf(acc)
      /\ f = DataOf(acc, i)
      /\ \A j \in Range(q[acc[i].src]) : i < j
      /\ acc[i].dest = n
      /\ acc[i].src \in Node
  <2>1. i \in IdsOf(acc) /\ f = DataOf(acc, i)
    BY <1>2 DEF Ordered, AirOrdered
  <2>2. f.src = acc[i].src /\ f.dest = acc[i].dest
    BY <2>1 DEF DataOf
  <2> QED
    BY <1>2, <2>1, <2>2, EndsOf DEF Ordered, AirOrdered
<1>4. i \in Int /\ ~(i < i)
  <2>1. Len(acc) \in Nat
    BY LenProperties DEF Ordered, Typed
  <2> QED
    BY <1>3, <2>1 DEF IdsOf
<1> HIDE DEF f, b
<1>5. ASSUME NEW j, DataOf(acc, j) \in Range(b[n]), acc[j].src = acc[i].src
      PROVE  i < j
  <2>1. <<f, DataOf(acc, j)>> \in EarlierData
    BY <1>2, <1>5
  <2> QED
    BY <1>3, <1>5, <2>1 DEF EarlierData, SameSource, DataOf
<1>6. i \in PendingOf(acc, q, a)
  BY <1>2, <1>3 DEF PendingOf
<1>7. ASSUME NEW j \in PendingOf(acc, q, a), acc[j] = acc[i], j # i
      PROVE  i < j
  <2>1. CASE j \in Range(q[acc[j].src])
    BY <1>3, <1>7, <2>1
  <2>2. CASE DataOf(acc, j) \in Range(a[n])
    <3>1. DataOf(acc, j) # f
      BY <1>3, <1>7 DEF DataOf
    <3> QED
      BY <1>2, <1>5, <1>7, <2>2, <3>1
  <2> QED
    BY <1>3, <1>7, <2>1, <2>2 DEF PendingOf
<1>8. i \notin PendingOf(acc, q, b)
  BY <1>3, <1>4, <1>5 DEF PendingOf
<1>9. ASSUME NEW j \in IdsOf(acc), j # i
      PROVE  j \in PendingOf(acc, q, b) <=> j \in PendingOf(acc, q, a)
  <2>1. acc[j].dest \in Node /\ DataOf(acc, j) # f
    BY <1>3, <1>9, EndsOf DEF DataOf
  <2> QED
    BY <1>2, <2>1 DEF PendingOf
<1>10. PendingOf(acc, q, b) = PendingOf(acc, q, a) \ {i}
  BY <1>8, <1>9 DEF PendingOf
<1>11. \A j \in PendingOf(acc, q, a) : acc[j] = acc[i] => i <= j
  <2>1. Len(acc) \in Nat
    BY LenProperties DEF Ordered, Typed
  <2>2. \A j \in PendingOf(acc, q, a) : j \in Int
    BY <2>1 DEF PendingOf, IdsOf
  <2> QED
    BY <1>4, <1>7, <2>2
<1> QED
  BY <1>3, <1>6, <1>10, <1>11 DEF b

Accepting(acc, n, m) == Append(acc, [src |-> n, dest |-> m])
Queueing(q, n, i)    == [q EXCEPT ![n] = Append(@, i)]

LEMMA PendingEnqueue ==
  ASSUME NEW acc, NEW q, NEW a, NEW d, Ordered(acc, q, a, d),
         NEW n \in Node, NEW m \in Node
  PROVE  PendingOf(Accepting(acc, n, m), Queueing(q, n, Len(acc) + 1), a)
         = PendingOf(acc, q, a) \cup {Len(acc) + 1}
<1> DEFINE new == Len(acc) + 1
           bcc == Accepting(acc, n, m)
           r   == Queueing(q, n, new)
<1>1. /\ acc \in Seq([src : Node, dest : Node])
      /\ q \in [Node -> Seq(IdsOf(acc))]
      /\ Len(acc) \in Nat
  BY LenProperties DEF Ordered, Typed
<1>2. /\ Len(bcc) = new
      /\ \A i \in IdsOf(acc) : bcc[i] = acc[i]
      /\ bcc[new] = [src |-> n, dest |-> m]
  BY <1>1, AppendProperties DEF IdsOf, Accepting
<1>3. IdsOf(bcc) = IdsOf(acc) \cup {new} /\ new \notin IdsOf(acc)
  BY <1>1, <1>2 DEF IdsOf
<1>4. q[n] \in Seq(IdsOf(bcc)) /\ new \in IdsOf(bcc)
  BY <1>1, <1>3, SeqMonotonic
<1>5. /\ Range(r[n]) = Range(q[n]) \cup {new}
      /\ \A k \in Node \ {n} : r[k] = q[k]
  BY <1>1, <1>4, RangeAppend DEF Queueing
<1> HIDE DEF new, bcc, r
<1>6. ASSUME NEW i \in IdsOf(acc)
      PROVE  i \in PendingOf(bcc, r, a) <=> i \in PendingOf(acc, q, a)
  <2>1. /\ bcc[i] = acc[i] /\ i # new /\ i \in IdsOf(bcc)
        /\ acc[i].src \in Node
        /\ DataOf(bcc, i) = DataOf(acc, i)
    BY <1>2, <1>3, EndsOf DEF DataOf
  <2>2. i \in Range(r[bcc[i].src]) <=> i \in Range(q[acc[i].src])
    <3>1. CASE acc[i].src = n
      BY <1>5, <2>1, <3>1
    <3>2. CASE acc[i].src # n
      BY <1>5, <2>1, <3>2
    <3> QED
      BY <3>1, <3>2
  <2> QED
    BY <2>1, <2>2 DEF PendingOf
<1>7. new \in PendingOf(bcc, r, a)
  BY <1>2, <1>3, <1>5 DEF PendingOf
<1>8. PendingOf(bcc, r, a) = PendingOf(acc, q, a) \cup {new}
  BY <1>3, <1>6, <1>7 DEF PendingOf
<1> QED
  BY <1>8 DEF new, bcc, r

LEMMA ChannelInit == Init => Channel!Init
<1> SUFFICES ASSUME Init PROVE Channel!Init
  OBVIOUS
<1>1. FrameId = {}
  BY DEF Init, FrameId
<1>2. Pending = {}
  BY <1>1 DEF Pending
<1> QED
  BY <1>2 DEF Init, Channel!Init

(* An upcall, after the part of the handler that left a on the air. *)
LEMMA ChannelUpcall ==
  ASSUME NEW a, NEW d, Ordered(accepted, buf, a, d),
         NEW n \in Node, UpcallSends(n)
  PROVE  \/ /\ UNCHANGED accepted
            /\ PendingOf(accepted', buf', a) = PendingOf(accepted, buf, a)
         \/ \E r \in Route :
              /\ accepted' = Append(accepted, [src |-> r[1], dest |-> r[2]])
              /\ PendingOf(accepted', buf', a)
                 = PendingOf(accepted, buf, a) \cup {Len(accepted) + 1}
<1>1. CASE UNCHANGED <<accepted, buf>>
  BY <1>1
<1>2. ASSUME NEW m \in Node, Enqueue(n, m)
      PROVE  \E r \in Route :
              /\ accepted' = Append(accepted, [src |-> r[1], dest |-> r[2]])
              /\ PendingOf(accepted', buf', a)
                 = PendingOf(accepted, buf, a) \cup {Len(accepted) + 1}
  <2>1. /\ <<n, m>> \in Route
        /\ accepted' = Accepting(accepted, n, m)
        /\ buf' = Queueing(buf, n, Len(accepted) + 1)
    BY <1>2 DEF Enqueue, Accepting, Queueing
  <2>2. PendingOf(accepted', buf', a)
        = PendingOf(accepted, buf, a) \cup {Len(accepted) + 1}
    BY <2>1, PendingEnqueue
  <2> QED
    BY <2>1, <2>2 DEF Accepting
<1> QED
  BY <1>1, <1>2 DEF UpcallSends

LEMMA ChannelStep ==
  ASSUME TypeOK, OrderInv, [Next]_vars, ~undef'
  PROVE  [Channel!Next]_<<accepted, Pending, delivered>>
<1>1. Ordered(accepted, buf, air, delivered)
  BY DEF OrderInv
<1>2. /\ Pending = PendingOf(accepted, buf, air)
      /\ Pending' = PendingOf(accepted', buf', air')
  BY DEF Pending, PendingOf, InFlight, Data, DataOf, FrameId, IdsOf
<1>3. CASE UNCHANGED <<accepted, delivered>> /\ Pending' = Pending
  BY <1>3
<1>4. CASE UNCHANGED <<accepted, buf, air, delivered>>
  BY <1>2, <1>3, <1>4
<1>5. ASSUME NEW i \in Pending, Pending' = Pending \ {i},
             UNCHANGED <<accepted, delivered>>
      PROVE  Channel!Next
  BY <1>5 DEF Channel!Next, Channel!Lose
<1>6. ASSUME NEW n \in Node, Handler(n)
      PROVE  [Channel!Next]_<<accepted, Pending, delivered>>
  <2>1. ASSUME NEW type \in FrameType, Arrives(n, type),
               type # "DATA" \/ ~ForMe(n)
        PROVE  /\ Ordered(accepted, buf, Taken(n), delivered)
               /\ PendingOf(accepted, buf, Taken(n)) = Pending
               /\ Arrived(n) \in Frame
    BY <1>1, <1>2, <2>1, OrderedTake, PendingTake, TakenType
    DEF Arrives, Arrived, ForMe, Taken, Popped
  <2>2. ASSUME NEW m \in Node, NEW type \in FrameType \ {"DATA"}
        PROVE  /\ Control(type, n, m) \in Frame
               /\ Control(type, n, m).type # "DATA"
    BY <2>2, ControlType DEF Control
  <2>3. ASSUME NEW a, NEW d, Ordered(accepted, buf, a, d), UpcallSends(n),
               PendingOf(accepted, buf, a) = Pending,
               air' = a, UNCHANGED delivered
        PROVE  [Channel!Next]_<<accepted, Pending, delivered>>
    <3>1. CASE UNCHANGED accepted /\ Pending' = Pending
      BY <1>3, <2>3, <3>1
    <3>2. CASE \E r \in Route :
              /\ accepted' = Append(accepted, [src |-> r[1], dest |-> r[2]])
              /\ Pending' = Pending \cup {Len(accepted) + 1}
      BY <2>3, <3>2 DEF Channel!Next, Channel!Accept
    <3> QED
      BY <1>2, <2>3, <3>1, <3>2, ChannelUpcall
  <2>4. CASE \E m \in Node : LinkSendData(n, m)
    <3>1. UpcallSends(n) /\ UNCHANGED <<air, delivered>>
      BY <2>4 DEF LinkSendData, UpcallSends
    <3> QED
      BY <1>1, <1>2, <2>3, <3>1
  <2>5. CASE LinkSendInfo(n) \/ SendNothing(n) \/ Collision(n)
    BY <1>4, <2>5 DEF LinkSendInfo, SendNothing, Collision, queues
  <2>6. CASE SendBeacon(n)
    <3>1. Beacon(n) \in Frame /\ Beacon(n).type # "DATA"
      BY ControlType DEF Beacon, Control
    <3>2. /\ air' \in Broadcast(air, n, Beacon(n))
          /\ UNCHANGED <<accepted, buf, delivered>>
      BY <2>6 DEF SendBeacon
    <3>3. PendingOf(accepted, buf, air') = PendingOf(accepted, buf, air)
      BY <1>1, <3>1, <3>2, PendingControl
    <3> QED
      BY <1>2, <1>3, <3>2, <3>3
  <2>7. CASE SendRts(n)
    <3>1. Data(Head(buf[n])).dest \in Node
      BY <2>7, DataType, HeadTail
      DEF SendRts, DataWaiting, TypeOK, QueueTypes
    <3>2. /\ air' \in
              Broadcast(air, n, Control("RTS", n, Data(Head(buf[n])).dest))
          /\ UNCHANGED <<accepted, buf, delivered>>
      BY <2>7 DEF SendRts, queues
    <3>3. PendingOf(accepted, buf, air') = PendingOf(accepted, buf, air)
      BY <1>1, <2>2, <3>1, <3>2, PendingControl DEF FrameType
    <3> QED
      BY <1>2, <1>3, <3>2, <3>3
  <2>8. CASE Timeout(n)
    <3>1. CASE UNCHANGED buf
      BY <1>4, <2>8, <3>1 DEF Timeout
    <3>2. CASE buf[n] # <<>> /\ buf' = Popped(buf, n)
      <4>1. /\ Head(buf[n]) \in Pending
            /\ Pending' = Pending \ {Head(buf[n])}
        BY <1>1, <1>2, <2>8, <3>2, PendingDequeue DEF Timeout
      <4> QED
        BY <1>5, <2>8, <4>1 DEF Timeout
    <3> QED
      BY <2>8, <3>1, <3>2 DEF Timeout, GiveUp, Retry, Popped
  <2>9. CASE ReceiveBeacon(n)
    BY <2>1, <2>3, <2>9 DEF ReceiveBeacon, FrameType
  <2>10. CASE OverhearCts(n) \/ OverhearData(n)
           \/ OverhearAck(n) \/ ReceiveAck(n)
    <3>1. /\ UNCHANGED <<accepted, buf, delivered>>
          /\ air' = Taken(n)
          /\ \E type \in FrameType :
               Arrives(n, type) /\ (type # "DATA" \/ ~ForMe(n))
      BY <2>10
      DEF OverhearCts, OverhearData, OverhearAck, ReceiveAck, queues, FrameType
    <3> QED
      BY <1>2, <1>3, <2>1, <3>1
  <2>11. CASE ReceiveRts(n)
    <3>1. /\ Ordered(accepted, buf, Taken(n), delivered)
          /\ PendingOf(accepted, buf, Taken(n)) = Pending
          /\ Arrived(n).src \in Node
          /\ UNCHANGED <<accepted, buf, delivered>>
      BY <2>1, <2>11 DEF ReceiveRts, FrameType, Frame, queues
    <3>2. CASE air' = Taken(n)
      BY <1>2, <1>3, <3>1, <3>2
    <3>3. CASE air' \in
                Broadcast(Taken(n), n, Control("CTS", n, Arrived(n).src))
      <4>1. PendingOf(accepted, buf, air') = PendingOf(accepted, buf, Taken(n))
        BY <2>2, <3>1, <3>3, PendingControl DEF FrameType
      <4> QED
        BY <1>2, <1>3, <3>1, <4>1
    <3> QED
      BY <2>11, <3>2, <3>3 DEF ReceiveRts
  <2>12. CASE ReceiveCts(n)
    <3>1. /\ Ordered(accepted, buf, Taken(n), delivered)
          /\ PendingOf(accepted, buf, Taken(n)) = Pending
      BY <2>1, <2>12 DEF ReceiveCts, FrameType
    <3>2. /\ buf[n] # <<>>
          /\ buf' = Popped(buf, n)
          /\ air' \in Broadcast(Taken(n), n, DataOf(accepted, Head(buf[n])))
          /\ UNCHANGED <<accepted, delivered>>
      BY <2>12 DEF ReceiveCts, Data, DataOf, Popped
    <3>3. /\ Head(buf[n]) \in Pending
          /\ \/ Pending' = Pending
             \/ Pending' = Pending \ {Head(buf[n])}
      BY <1>2, <3>1, <3>2, PendingData
    <3> QED
      BY <1>3, <1>5, <3>2, <3>3
  <2>13. CASE ReceiveCtsNoData(n)
    BY <2>13 DEF ReceiveCtsNoData
  <2>14. CASE ReceiveData(n)
    <3> DEFINE i == Arrived(n).id
    <3>1. /\ air[n] # <<>>
          /\ Head(air[n]).type = "DATA"
          /\ Head(air[n]).dest = n
          /\ i = Head(air[n]).id
          /\ Taken(n) = Popped(air, n)
          /\ delivered' = [delivered EXCEPT ![n] = Append(@, i)]
          /\ UpcallSends(n)
      BY <2>14 DEF ReceiveData, Arrives, ForMe, Arrived, Taken, Popped
    <3>2. /\ i \in Pending
          /\ accepted[i].dest = n
          /\ \A j \in Pending : accepted[j] = accepted[i] => i <= j
          /\ PendingOf(accepted, buf, Taken(n)) = Pending \ {i}
      BY <1>1, <1>2, <3>1, PendingDeliver
    <3>3. /\ Ordered(accepted, buf, Taken(n), delivered')
          /\ Arrived(n).src \in Node
      BY <1>1, <2>14, OrderedDeliver, TakenType
      DEF ReceiveData, Arrives, Taken, Arrived, ForMe, Frame
    <3>4. Ordered(accepted', buf', Taken(n), delivered')
      BY <3>1, <3>3, OrderUpcall
    <3>5. Pending' = PendingOf(accepted', buf', Taken(n))
      <4>1. air' \in Broadcast(Taken(n), n, Control("ACK", n, Arrived(n).src))
        BY <2>14 DEF ReceiveData
      <4> QED
        BY <1>2, <2>2, <3>3, <3>4, <4>1, PendingControl DEF FrameType
    <3>6. \/ UNCHANGED accepted /\ Pending' = Pending \ {i}
          \/ \E r \in Route :
               /\ accepted' = Append(accepted, [src |-> r[1], dest |-> r[2]])
               /\ Pending' = (Pending \ {i}) \cup {Len(accepted) + 1}
      BY <3>1, <3>2, <3>3, <3>5, ChannelUpcall
    <3> HIDE DEF i
    <3> QED
      BY <3>1, <3>2, <3>6
      DEF Channel!Next, Channel!Deliver, Channel!Oldest, Channel!Accept
  <2> QED
    BY <1>6, <2>4, <2>5, <2>6, <2>7, <2>8, <2>9, <2>10, <2>11, <2>12, <2>13,
       <2>14 DEF Handler, Send, Receive
<1> QED
  BY <1>4, <1>6 DEF Next, Stopped, vars, queues

(* In a build where reading the uninitialised frame ends the simulation,   *)
(* nothing happens after that read.                                        *)
UndefHalts == undef => halted

LEMMA HaltStep ==
  ASSUME Undefined \subseteq {"abort"}, UndefHalts, [Next]_vars
  PROVE  /\ UndefHalts'
         /\ undef' => UNCHANGED <<accepted, buf, air, delivered>>
<1>1. CASE UNCHANGED vars
  BY <1>1 DEF UndefHalts, vars, faults, queues
<1>2. ASSUME ~halted, NEW n \in Node, Handler(n)
      PROVE  /\ UndefHalts'
             /\ undef' => UNCHANGED <<accepted, buf, air, delivered>>
  <2>1. ~undef
    BY <1>2 DEF UndefHalts
  <2>2. CASE ReceiveCtsNoData(n)
    <3>1. Uninitialised(n) = {}
      BY DEF Uninitialised
    <3> QED
      BY <2>2, <3>1 DEF ReceiveCtsNoData, UndefHalts, queues
  <2>3. CASE UNCHANGED undef
    BY <2>1, <2>3 DEF UndefHalts
  <2> QED
    BY <1>2, <2>2, <2>3
    DEF Handler, Send, Receive, faults, LinkSendInfo, LinkSendData,
        SendBeacon, SendRts, SendNothing, Collision, Timeout, ReceiveBeacon,
        ReceiveRts, OverhearCts, ReceiveCts, OverhearData, ReceiveData,
        OverhearAck, ReceiveAck
<1> QED
  BY <1>1, <1>2 DEF Next, Stopped

(* In any network whose builds end the simulation at that read, the link   *)
(* layer implements the lossy, ordered, at-most-once channel.              *)
THEOREM LinkImplementsChannel ==
  ASSUME Undefined \subseteq {"abort"}
  PROVE  Spec => ImplementsChannel
<1>1. Init => Channel!Init /\ OrderInv /\ UndefHalts
  BY ChannelInit, OrderInit DEF Init, UndefHalts
<1>2. TypeOK /\ (undef \/ OrderInv) /\ UndefHalts /\ [Next]_vars
      => (undef \/ OrderInv)' /\ UndefHalts'
  BY HaltStep, OrderStep, UndefStays
<1>3. TypeOK /\ (undef \/ OrderInv) /\ UndefHalts /\ [Next]_vars
      => [Channel!Next]_(Channel!channel)
  <2> SUFFICES ASSUME TypeOK, undef \/ OrderInv, UndefHalts, [Next]_vars
               PROVE  [Channel!Next]_<<accepted, Pending, delivered>>
    BY DEF Channel!channel
  <2>1. CASE undef'
    <3>1. UNCHANGED <<accepted, buf, air, delivered>>
      BY <2>1, HaltStep
    <3>2. Pending' = Pending
      BY <3>1 DEF Pending, InFlight, Data, FrameId
    <3> QED
      BY <3>1, <3>2
  <2>2. CASE ~undef'
    BY <2>2, ChannelStep, UndefStays
  <2> QED
    BY <2>1, <2>2
<1> QED
  BY <1>1, <1>2, <1>3, TypeCorrect, PTL
  DEF Spec, ImplementsChannel, Channel!Spec
=============================================================================
