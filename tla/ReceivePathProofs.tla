-------------------------- MODULE ReceivePathProofs --------------------------
(***************************************************************************)
(* The receive path for any ring, queue and number of frames.              *)
(***************************************************************************)
EXTENDS ReceivePath, Integers, SequenceTheorems, TLAPS

\* add_event keeps NET_EVENTS a bounded queue of events.
LEMMA AddEventType ==
  ASSUME NEW q \in Seq({"Queue", "ConfigChange"}), Len(q) <= EventCap,
         NEW e \in {"Queue", "ConfigChange"}
  PROVE  /\ add_event(q, e) \in Seq({"Queue", "ConfigChange"})
         /\ Len(add_event(q, e)) <= EventCap
BY BoundAssumption DEF add_event

\* And so does an interrupt that carries both.
LEMMA AcknowledgeType ==
  ASSUME TypeOK
  PROVE  /\ Acknowledge(events) \in Seq({"Queue", "ConfigChange"})
         /\ Len(Acknowledge(events)) <= EventCap
BY AddEventType DEF Acknowledge, TypeOK

\* Types, the bound of NET_EVENTS, and where every buffer is: together they are
\* inductive.
RingInv == TypeOK /\ BuffersConserved /\ (pc \in {"publish", "process", "recycle"} => popped > 0)

\* It holds of a ring the driver has just filled.
LEMMA RingInit == Init => RingInv
<1> SUFFICES ASSUME Init PROVE RingInv
  OBVIOUS
<1>1. TypeOK
  <2>1. events \in Seq({"Queue", "ConfigChange"}) /\ Len(events) <= EventCap
    BY BoundAssumption DEF Init
  <2>2. done \in Seq(Frame)
    BY DEF Init
  <2>3. event_idx \in BOOLEAN /\ opened \in BOOLEAN
    BY Zenon DEF Init
  <2> QED
    BY <2>1, <2>2, <2>3, BoundAssumption DEF Init, TypeOK
<1>2. BuffersConserved
  BY BoundAssumption DEF Init, BuffersConserved
<1> QED
  BY <1>1, <1>2 DEF Init, RingInv

\* Every step of card, handler and task keeps it.
LEMMA RingStep == RingInv /\ [Next]_vars => RingInv'
<1> SUFFICES ASSUME RingInv, [Next]_vars PROVE RingInv'
  OBVIOUS
<1> USE BoundAssumption DEF RingInv, TypeOK, BuffersConserved
<1>1. CASE Arrive
  BY <1>1 DEF Arrive
<1>2. CASE ChangeConfig
  BY <1>2 DEF ChangeConfig
<1>3. CASE virtio_irq
  BY <1>3, AcknowledgeType DEF virtio_irq
<1>4. CASE NewStream
  BY <1>4 DEF NewStream, devVars
<1>5. CASE InitInterface
  BY <1>5 DEF InitInterface, Transmit
<1>6. CASE NextEvent
  BY <1>6 DEF NextEvent, devVars
<1>7. CASE Receive
  BY <1>7 DEF Receive
<1>8. CASE Publish
  BY <1>8 DEF Publish
<1>9. CASE process_rx
  <2>1. popped \in Frame /\ popped' = popped
    BY <1>9 DEF process_rx, Frame
  <2>2. done' \in Seq(Frame)
    <3>1. CASE popped \in Rejected
      BY <1>9, <3>1 DEF process_rx
    <3>2. CASE popped \notin Rejected
      BY <1>9, <2>1, <3>2 DEF process_rx
    <3> QED BY <3>1, <3>2
  <2>3. isr' \subseteq {"Queue", "ConfigChange"}
    BY <1>9 DEF process_rx, Transmit
  <2> QED
    BY <1>9, <2>1, <2>2, <2>3 DEF process_rx
<1>10. CASE Recycle
  BY <1>10 DEF Recycle
<1>11. CASE UNCHANGED vars
  BY <1>11 DEF vars, devVars
<1> QED
  BY <1>1, <1>2, <1>3, <1>4, <1>5, <1>6, <1>7, <1>8, <1>9, <1>10, <1>11
  DEF Next, network_task

\* Every variable has its type, NET_EVENTS its bound, and the driver is never ahead
\* of the card.
THEOREM TypeCorrect == Spec => []TypeOK
<1>1. RingInv => TypeOK
  BY DEF RingInv
<1> QED
  BY <1>1, RingInit, RingStep, PTL DEF Spec

\* No receive buffer leaks, whatever is done with the frames.
THEOREM NoBufferLeaks == Spec => []BuffersConserved
<1>1. RingInv => BuffersConserved
  BY DEF RingInv
<1> QED
  BY <1>1, RingInit, RingStep, PTL DEF Spec

-----------------------------------------------------------------------------
(* No frame is stranded *)

Event == {"Queue", "ConfigChange"}

\* A run of configuration changes at the end of q is at most n long.
Counted(q, n) ==
  \A k \in 0 .. Len(q) :
    (\A i \in k + 1 .. Len(q) : q[i] = "ConfigChange") => Len(q) - k <= n

Reported == IF "ConfigChange" \in isr THEN 1 ELSE 0

\* ConfigsCounted in these terms.
LEMMA CountedEvents ==
  ASSUME TypeOK PROVE ConfigsCounted <=> Counted(events, configs - Reported)
BY DEF TypeOK, ConfigsCounted, Counted, Reported

\* add_event only ever appends.
LEMMA AddEventKeeps ==
  ASSUME NEW q \in Seq(Event), NEW e \in Event
  PROVE  /\ add_event(q, e) \in Seq(Event)
         /\ DOMAIN q \subseteq DOMAIN add_event(q, e)
         /\ \A i \in DOMAIN q : add_event(q, e)[i] = q[i]
BY DEF add_event

\* A queue event starts a new run, a configuration change lengthens the last.
LEMMA AddEventCounted ==
  ASSUME NEW q \in Seq(Event), NEW n \in Int, Counted(q, n)
  PROVE  /\ Counted(add_event(q, "Queue"), n)
         /\ Counted(add_event(q, "ConfigChange"), n + 1)
<1>0. 0 <= n
  <2>1. Len(q) \in 0 .. Len(q) /\ \A i \in Len(q) + 1 .. Len(q) : q[i] = "ConfigChange"
    OBVIOUS
  <2>2. Len(q) - Len(q) <= n
    BY <2>1 DEF Counted
  <2> QED BY <2>2
<1>1. ASSUME NEW e \in Event, add_event(q, e) = q
      PROVE  Counted(add_event(q, e), n) /\ Counted(add_event(q, e), n + 1)
  BY <1>1 DEF Counted
<1>2. ASSUME NEW e \in Event, add_event(q, e) = Append(q, e)
      PROVE  Counted(add_event(q, e), IF e = "Queue" THEN n ELSE n + 1)
  <2> DEFINE p == Append(q, e)
  <2> SUFFICES ASSUME NEW k \in 0 .. Len(p),
                      \A i \in k + 1 .. Len(p) : p[i] = "ConfigChange"
               PROVE  Len(p) - k <= IF e = "Queue" THEN n ELSE n + 1
    BY <1>2 DEF Counted
  <2>1. Len(p) = Len(q) + 1 /\ p[Len(q) + 1] = e /\ \A i \in 1 .. Len(q) : p[i] = q[i]
    OBVIOUS
  <2>2. CASE k = Len(p)
    BY <1>0, <2>1, <2>2
  <2>3. CASE k # Len(p)
    <3>1. k \in 0 .. Len(q) /\ Len(q) + 1 \in k + 1 .. Len(p)
      BY <2>1, <2>3
    <3>2. e = "ConfigChange"
      BY <2>1, <3>1
    <3>3. \A i \in k + 1 .. Len(q) : q[i] = "ConfigChange"
      BY <2>1, <3>1
    <3>4. Len(q) - k <= n
      BY <3>1, <3>3 DEF Counted
    <3> QED BY <2>1, <3>1, <3>2, <3>4
  <2> QED BY <2>2, <2>3
<1>3. \A e : add_event(q, e) = q \/ add_event(q, e) = Append(q, e)
  BY DEF add_event
<1>4. "Queue" \in Event /\ "ConfigChange" \in Event
  BY DEF Event
<1>5. Counted(add_event(q, "Queue"), n)
  BY <1>1, <1>2, <1>3, <1>4
<1>6. Counted(add_event(q, "ConfigChange"), n + 1)
  BY <1>1, <1>2, <1>3, <1>4
<1> QED BY <1>5, <1>6

\* Taking the first event out changes no run but, perhaps, its own.
LEMMA TailCounted ==
  ASSUME NEW q \in Seq(Event), q # <<>>, NEW n \in Int, Counted(q, n)
  PROVE  Counted(Tail(q), n)
<1> SUFFICES ASSUME NEW k \in 0 .. Len(Tail(q)),
                    \A i \in k + 1 .. Len(Tail(q)) : Tail(q)[i] = "ConfigChange"
             PROVE  Len(Tail(q)) - k <= n
  BY DEF Counted
<1>1. Len(Tail(q)) = Len(q) - 1 /\ \A i \in 2 .. Len(q) : q[i] = Tail(q)[i - 1]
  OBVIOUS
<1>2. k + 1 \in 0 .. Len(q)
  BY <1>1
<1>3. \A i \in (k + 1) + 1 .. Len(q) : q[i] = "ConfigChange"
  BY <1>1
<1>4. Len(q) - (k + 1) <= n
  BY <1>2, <1>3 DEF Counted
<1> QED BY <1>1, <1>4

\* What an interrupt leaves in NET_EVENTS: everything that was there, and runs no
\* longer than the configuration changes so far.
LEMMA AcknowledgeCounted ==
  ASSUME TypeOK, ConfigsCounted
  PROVE  Counted(Acknowledge(events), configs)
<1>1. events \in Seq(Event) /\ configs \in Int /\ Counted(events, configs - Reported)
  BY CountedEvents DEF TypeOK, Event
<1> DEFINE q1 == IF "Queue" \in isr THEN add_event(events, "Queue") ELSE events
<1>2. Counted(q1, configs - Reported) /\ q1 \in Seq(Event)
  <2>1. configs - Reported \in Int /\ "Queue" \in Event
    BY <1>1 DEF Reported, Event
  <2> QED BY <1>1, <2>1, AddEventCounted, AddEventKeeps
<1>3. CASE "ConfigChange" \in isr
  <2>1. Reported = 1 /\ configs - 1 \in Int /\ (configs - 1) + 1 = configs
    BY <1>1, <1>3 DEF Reported
  <2>2. Counted(add_event(q1, "ConfigChange"), (configs - 1) + 1)
    BY <1>2, <2>1, AddEventCounted
  <2> QED BY <1>3, <2>1, <2>2 DEF Acknowledge
<1>4. CASE "ConfigChange" \notin isr
  <2>1. configs - Reported = configs
    BY <1>1, <1>4 DEF Reported
  <2> QED BY <1>2, <1>4, <2>1 DEF Acknowledge
<1> QED BY <1>3, <1>4

\* An interrupt for a queue leaves a queue event in NET_EVENTS: if it found the
\* queue full, there was one.
LEMMA AcknowledgeQueue ==
  ASSUME TypeOK, ConfigsCounted, opened, Roomy, "Queue" \in isr \/ QueueEvent
  PROVE  \E i \in DOMAIN Acknowledge(events) : Acknowledge(events)[i] = "Queue"
<1> DEFINE q1 == IF "Queue" \in isr THEN add_event(events, "Queue") ELSE events
<1>1. events \in Seq(Event) /\ "Queue" \in Event /\ "ConfigChange" \in Event
  BY DEF TypeOK, Event
<1>2. CASE QueueEvent
  <2>1. PICK i \in DOMAIN events : events[i] = "Queue"
    BY <1>2 DEF QueueEvent
  <2>2. i \in DOMAIN q1 /\ q1[i] = "Queue" /\ q1 \in Seq(Event)
    BY <1>1, <2>1, AddEventKeeps
  <2>3. i \in DOMAIN Acknowledge(events) /\ Acknowledge(events)[i] = "Queue"
    BY <1>1, <2>2, AddEventKeeps DEF Acknowledge
  <2> QED BY <2>3
<1>3. CASE ~QueueEvent
  <2>1. "Queue" \in isr
    BY <1>3
  <2>2. Len(events) < EventCap
    <3>1. \A i \in 0 + 1 .. Len(events) : events[i] = "ConfigChange"
      BY <1>1, <1>3 DEF QueueEvent, Event
    <3>2. Len(events) \in Nat /\ 0 \in 0 .. Len(events)
      BY <1>1
    <3>3. Len(events) - 0 + (IF "ConfigChange" \in isr THEN 1 ELSE 0) <= configs
      BY <3>1, <3>2 DEF ConfigsCounted
    <3> QED BY <3>2, <3>3, BoundAssumption DEF Roomy, TypeOK
  <2>3. q1 = Append(events, "Queue")
    BY <2>1, <2>2 DEF add_event
  <2>4. Len(events) + 1 \in DOMAIN q1 /\ q1[Len(events) + 1] = "Queue" /\ q1 \in Seq(Event)
    BY <1>1, <2>3
  <2>5. Len(events) + 1 \in DOMAIN Acknowledge(events)
        /\ Acknowledge(events)[Len(events) + 1] = "Queue"
    BY <1>1, <2>4, AddEventKeeps DEF Acknowledge
  <2> QED BY <2>5
<1> QED BY <1>2, <1>3

\* Steps that leave events and their counts alone.
LEMMA SameCount ==
  ASSUME TypeOK, TypeOK', ConfigsCounted, events' = events,
         \/ isr' = isr /\ configs' = configs
         \/ isr' = isr \cup {"Queue"} /\ configs' = configs
         \/ isr' = isr \cup {"ConfigChange"} /\ configs' = configs + 1
  PROVE  ConfigsCounted'
<1>1. \A k \in 0 .. Len(events) : Len(events) - k \in Int /\ configs \in Int
  BY DEF TypeOK
<1> QED BY <1>1 DEF ConfigsCounted

\* Every step keeps a queue event on its way to a waiting task with a frame.
LEMMA EventStep == RingInv /\ EventInv /\ [Next]_vars => EventInv'
<1> SUFFICES ASSUME RingInv, EventInv, [Next]_vars PROVE EventInv'
  OBVIOUS
<1> USE BoundAssumption
<1>0. TypeOK /\ TypeOK' /\ ConfigsCounted
  BY RingStep DEF RingInv, EventInv
<1>1. CASE Arrive
  <2>1. ConfigsCounted'
    BY <1>0, <1>1, SameCount DEF Arrive
  <2>2. ASSUME Roomy, pc = "next" PROVE "Queue" \in isr' \/ QueueEvent'
    <3>1. CASE popped < arrived
      BY <1>1, <2>2, <3>1 DEF Arrive, EventInv, NoFrameStranded, QueueEvent
    <3>2. CASE ~(popped < arrived)
      BY <1>0, <1>1, <2>2, <3>2 DEF Arrive, Notified, EventInv, TypeOK
    <3> QED BY <3>1, <3>2
  <2> QED
    BY <1>1, <2>1, <2>2 DEF Arrive, EventInv, NoFrameStranded, Roomy
<1>2. CASE ChangeConfig
  <2>1. ConfigsCounted'
    BY <1>0, <1>2, SameCount DEF ChangeConfig
  <2> QED
    BY <1>0, <1>2, <2>1 DEF ChangeConfig, EventInv, NoFrameStranded, Roomy, QueueEvent, TypeOK
<1>3. CASE virtio_irq
  <2>1. Counted(events', configs') /\ isr' = {} /\ Len(events') \in Nat /\ configs' \in Nat
    BY <1>0, <1>3, AcknowledgeCounted DEF virtio_irq, TypeOK
  <2>2. ConfigsCounted'
    BY <2>1 DEF ConfigsCounted, Counted
  <2>3. ASSUME Roomy, pc = "next", popped < arrived PROVE QueueEvent'
    <3>1. opened /\ ("Queue" \in isr \/ QueueEvent)
      BY <2>3 DEF EventInv, NoFrameStranded
    <3> QED BY <1>0, <1>3, <2>3, <3>1, AcknowledgeQueue DEF virtio_irq, QueueEvent
  <2> QED
    BY <1>3, <2>2, <2>3 DEF virtio_irq, EventInv, NoFrameStranded, Roomy
<1>4. CASE NewStream \/ UNCHANGED vars
  BY <1>4 DEF NewStream, EventInv, ConfigsCounted, NoFrameStranded, Roomy, QueueEvent,
      vars, devVars
<1>5. CASE InitInterface
  <2>1. ConfigsCounted'
    BY <1>0, <1>5, SameCount DEF InitInterface, Transmit
  <2> QED
    BY <1>5, <2>1 DEF InitInterface, Transmit, EventInv, NoFrameStranded
<1>6. CASE NextEvent
  <2>1. events \in Seq(Event) /\ events # <<>> /\ events' = Tail(events)
    BY <1>0, <1>6 DEF NextEvent, TypeOK, Event
  <2>2. ConfigsCounted'
    <3>1. configs - Reported \in Int /\ Counted(events, configs - Reported)
      BY <1>0, CountedEvents DEF TypeOK, Reported
    <3>2. Counted(events', configs - Reported)
      BY <2>1, <3>1, TailCounted
    <3>3. UNCHANGED <<isr, configs>>
      BY <1>6 DEF NextEvent, devVars
    <3> QED BY <1>0, <3>2, <3>3 DEF ConfigsCounted, Counted, Reported, TypeOK
  <2>3. ASSUME QueueEvent, Head(events) # "Queue" PROVE QueueEvent'
    <3>1. PICK i \in DOMAIN events : events[i] = "Queue"
      BY <2>3 DEF QueueEvent
    <3>2. i # 1 /\ i - 1 \in DOMAIN Tail(events) /\ Tail(events)[i - 1] = "Queue"
      BY <2>1, <2>3, <3>1
    <3> QED BY <2>1, <3>2 DEF QueueEvent
  <2> QED
    BY <1>6, <2>2, <2>3 DEF NextEvent, EventInv, NoFrameStranded, Roomy, devVars
<1>7. CASE Receive
  <2>1. ConfigsCounted'
    BY <1>0, <1>7, SameCount DEF Receive
  <2> QED BY <1>7, <2>1 DEF Receive, EventInv, NoFrameStranded
<1>8. CASE Publish \/ Recycle
  <2>1. ConfigsCounted'
    BY <1>0, <1>8, SameCount DEF Publish, Recycle
  <2> QED BY <1>8, <2>1 DEF Publish, Recycle, EventInv, NoFrameStranded
<1>9. CASE process_rx
  <2>1. ConfigsCounted'
    BY <1>0, <1>9, SameCount DEF process_rx, Transmit
  <2> QED BY <1>9, <2>1 DEF process_rx, EventInv, NoFrameStranded
<1> QED
  BY <1>1, <1>2, <1>3, <1>4, <1>5, <1>6, <1>7, <1>8, <1>9 DEF Next, network_task

\* No frame is stranded: while fewer configuration changes than NET_EVENTS holds
\* have happened, a waiting task with a frame in the ring has a queue event coming.
THEOREM FramesNotStranded == Spec => []NoFrameStranded
<1>1. Init => EventInv
  BY BoundAssumption DEF Init, EventInv, ConfigsCounted, NoFrameStranded
<1>2. EventInv => NoFrameStranded
  BY DEF EventInv
<1> QED
  BY <1>1, <1>2, EventStep, RingInit, RingStep, PTL DEF Spec

-----------------------------------------------------------------------------
(* The refinement of FrameChannel, its safety part *)

\* The frames from a to b, in order of arrival.
Interval(a, b) == [i \in 1 .. b + 1 - a |-> a + i - 1]

\* A frame that arrives is the last of them, the one handled the first.
LEMMA IntervalFacts ==
  ASSUME NEW a \in Nat, NEW b \in Nat, a <= b + 1
  PROVE  /\ Interval(a, b) \in Seq(Nat)
         /\ Len(Interval(a, b)) = b + 1 - a
         /\ Append(Interval(a, b), b + 1) = Interval(a, b + 1)
         /\ a <= b => /\ Interval(a, b) # <<>>
                      /\ Head(Interval(a, b)) = a
                      /\ Tail(Interval(a, b)) = Interval(a + 1, b)
<1>1. b + 1 - a \in Nat
  OBVIOUS
<1>2. Interval(a, b) \in Seq(Nat) /\ Len(Interval(a, b)) = b + 1 - a
  BY <1>1 DEF Interval
<1>3. Append(Interval(a, b), b + 1) = Interval(a, b + 1)
  BY <1>1 DEF Interval
<1>4. ASSUME a <= b
      PROVE  /\ Interval(a, b) # <<>> /\ Head(Interval(a, b)) = a
             /\ Tail(Interval(a, b)) = Interval(a + 1, b)
  <2>1. Interval(a, b) # <<>> /\ Head(Interval(a, b)) = a
    BY <1>2, <1>4 DEF Interval
  <2>2. Tail(Interval(a, b)) = Interval(a + 1, b)
    <3>1. /\ Tail(Interval(a, b)) \in Seq(Nat)
          /\ Len(Tail(Interval(a, b))) = b - a /\ b - a \in Nat
          /\ \A i \in 1 .. b - a : Tail(Interval(a, b))[i] = Interval(a, b)[i + 1]
      BY <1>2, <1>4, <2>1
    <3>2. \A i \in 1 .. b - a : Interval(a, b)[i + 1] = a + i
      BY <1>4 DEF Interval
    <3>3. /\ Interval(a + 1, b) \in Seq(Nat) /\ Len(Interval(a + 1, b)) = b - a
          /\ \A i \in 1 .. b - a : Interval(a + 1, b)[i] = a + i
      BY <3>1 DEF Interval
    <3>4. /\ Len(Tail(Interval(a, b))) = Len(Interval(a + 1, b))
          /\ \A i \in 1 .. Len(Tail(Interval(a, b))) :
               Tail(Interval(a, b))[i] = Interval(a + 1, b)[i]
      BY <3>1, <3>2, <3>3
    <3> QED BY <3>1, <3>3, <3>4, SeqEqual
  <2> QED BY <2>1, <2>2
<1> QED BY <1>2, <1>3, <1>4

\* Every step of card, handler and task is a step of the channel, or none.
LEMMA ChannelStep == RingInv /\ [Next]_vars => [Channel!Next]_(Channel!chanVars)
<1> SUFFICES ASSUME RingInv, [Next]_vars PROVE [Channel!Next]_(Channel!chanVars)
  OBVIOUS
<1> DEFINE first == IF pc \in {"publish", "process"} THEN popped ELSE popped + 1
<1>0. /\ first \in Nat /\ arrived \in Nat /\ first <= arrived + 1 /\ popped \in Nat
      /\ Unseen = Interval(first, arrived)
  BY BoundAssumption DEF RingInv, TypeOK, Unseen, Interval
<1>1. CASE Arrive
  <2>1. Unseen' = Interval(first, arrived + 1) /\ UNCHANGED done
    BY <1>1 DEF Arrive, Unseen, Interval
  <2>2. Unseen' = Append(Unseen, arrived + 1)
    BY <1>0, <2>1, IntervalFacts
  <2>3. Len(Unseen) < RingSize
    <3>1. Len(Unseen) = arrived + 1 - first
      BY <1>0, IntervalFacts
    <3>2. avail \in Nat /\ avail > 0
      BY <1>1, BoundAssumption DEF Arrive, RingInv, TypeOK
    <3>3. CASE pc \in {"publish", "process"}
      BY <1>0, <3>1, <3>2, <3>3 DEF RingInv, BuffersConserved
    <3>4. CASE pc \notin {"publish", "process"}
      BY <1>0, <3>1, <3>2, <3>4 DEF RingInv, BuffersConserved
    <3> QED BY <3>3, <3>4
  <2>4. arrived + 1 \in Frame
    BY <1>0, <1>1, BoundAssumption DEF Arrive, Frame
  <2>5. Channel!Accept(arrived + 1)
    BY <2>1, <2>2, <2>3 DEF Channel!Accept
  <2> QED BY <2>4, <2>5 DEF Channel!Next
<1>2. CASE process_rx
  <2>1. /\ first = popped /\ popped <= arrived
        /\ Unseen' = Interval(first + 1, arrived)
    BY <1>0, <1>2 DEF process_rx, Unseen, Interval, RingInv, TypeOK
  <2>2. Unseen # <<>> /\ Head(Unseen) = popped /\ Unseen' = Tail(Unseen)
    BY <1>0, <2>1, IntervalFacts
  <2>3. done' = IF popped \in Rejected THEN done ELSE Append(done, popped)
    BY <1>2 DEF process_rx
  <2>4. Channel!Handle
    BY <2>2, <2>3 DEF Channel!Handle
  <2> QED BY <2>4 DEF Channel!Next
<1>3. CASE UNCHANGED <<Unseen, done>>
  BY <1>3 DEF Channel!chanVars
<1>4. CASE Receive
  <2>1. UNCHANGED <<Unseen, done>>
    BY <1>0, <1>4 DEF Receive, Unseen
  <2> QED BY <2>1, <1>3
<1>5. CASE \/ ChangeConfig \/ virtio_irq \/ NewStream \/ InitInterface \/ NextEvent
           \/ Publish \/ Recycle \/ UNCHANGED vars
  <2>1. UNCHANGED <<arrived, popped, done>>
        /\ (pc \in {"publish", "process"} <=> pc' \in {"publish", "process"})
    BY <1>5 DEF ChangeConfig, virtio_irq, NewStream, InitInterface, NextEvent, Publish,
        Recycle, vars, devVars
  <2>2. UNCHANGED <<Unseen, done>>
    BY <2>1 DEF Unseen
  <2> QED BY <2>2, <1>3
<1> QED
  BY <1>1, <1>2, <1>4, <1>5 DEF Next, network_task

\* The receive path implements the channel: accepted frames are looked at once and
\* in order of arrival, for every ring, queue and number of frames.
THEOREM ReceivesInOrder == Spec => Channel!Spec
<1>1. Init => Channel!Init
  <2> SUFFICES ASSUME Init PROVE Unseen = <<>> /\ done = <<>>
    BY DEF Channel!Init
  <2>1. Unseen = [i \in 1 .. 0 |-> i] /\ done = <<>>
    BY DEF Init, Unseen
  <2> QED BY <2>1
<1> QED
  BY <1>1, ChannelStep, RingInit, RingStep, PTL DEF Spec, Channel!Spec

=============================================================================
