----------------------------- MODULE ReceivePath -----------------------------
(***************************************************************************)
(* How a frame gets from the network card to the network interface: the    *)
(* card's receive ring and interrupt status, virtio_irq                    *)
(* (kernel/src/interrupts.rs), NET_EVENTS and network_task                 *)
(* (kernel/src/task/network.rs).                                           *)
(*                                                                         *)
(* The card and its driver are the virtio-drivers crate's and are modelled *)
(* from how the kernel uses them.  The card fills ring buffers and raises  *)
(* a level-triggered line for as long as a status bit is set; with         *)
(* VIRTIO_F_EVENT_IDX it sets the queue bit only for the used index the    *)
(* driver asked for when it last took a buffer out.                        *)
(*                                                                         *)
(* The executor is left out: Executor shows that a suspended task is       *)
(* polled again whenever its queue holds an event, so here the task simply *)
(* goes on when NET_EVENTS is not empty.                                   *)
(***************************************************************************)
EXTENDS Naturals, Sequences

CONSTANTS
  RingSize,   \* buffers in the receive ring (8)
  EventCap,   \* capacity of NET_EVENTS (100)
  Rejected,   \* frames that process_rx drops: too short, or malformed
  MaxFrames,  \* bound: frames that arrive
  MaxConfig   \* bound: configuration changes

ASSUME BoundAssumption ==
  /\ RingSize \in Nat \ {0} /\ EventCap \in Nat \ {0}
  /\ MaxFrames \in Nat /\ MaxConfig \in Nat
  /\ Rejected \subseteq 1 .. MaxFrames

\* Frames are named by their order of arrival.
Frame == 1 .. MaxFrames

VARIABLES
  event_idx,  \* VIRTIO_F_EVENT_IDX was negotiated
  avail,      \* buffers the card may fill
  arrived,    \* the ring's used index: frames the card has put there
  popped,     \* last_used_idx: frames the driver has taken out
  used_event, \* the used index at which the driver wants an interrupt
  isr,        \* the card's interrupt status
  opened,     \* NET_EVENTS is initialised
  events,     \* NET_EVENTS
  pc,         \* where network_task is
  done,       \* frames passed to handle_packet, in order
  configs     \* configuration changes so far

devVars == <<event_idx, avail, arrived, popped, used_event, isr>>
vars == <<devVars, opened, events, pc, done, configs>>

Init ==
  /\ event_idx \in BOOLEAN
  /\ avail = RingSize /\ arrived = 0 /\ popped = 0 /\ used_event = 0
  /\ isr = {}
  /\ opened = FALSE /\ events = <<>>
  /\ pc = "start"
  /\ done = <<>>
  /\ configs = 0

-----------------------------------------------------------------------------
(* The card *)

\* The driver left its interrupts enabled (enable_interrupts).
Notified == ~event_idx \/ used_event = arrived

\* A frame arrives; without a free buffer the card drops it.
Arrive ==
  /\ arrived < MaxFrames /\ avail > 0
  /\ arrived' = arrived + 1
  /\ avail' = avail - 1
  /\ isr' = IF Notified THEN isr \cup {"Queue"} ELSE isr
  /\ UNCHANGED <<event_idx, popped, used_event, opened, events, pc, done,
                 configs>>

ChangeConfig ==
  /\ configs < MaxConfig
  /\ configs' = configs + 1
  /\ isr' = isr \cup {"ConfigChange"}
  /\ UNCHANGED <<event_idx, avail, arrived, popped, used_event, opened, events,
                 pc, done>>

\* The driver's send waits for the card to use the buffer, and the card then
\* sets the queue bit for the transmit queue.
Transmit == isr' = isr \cup {"Queue"}

-----------------------------------------------------------------------------
(* virtio_irq *)

\* An event is dropped when the stream is not there yet or the queue is full.
add_event(q, e) ==
  IF opened /\ Len(q) < EventCap THEN Append(q, e) ELSE q

\* Mutant: one kind of event per interrupt, although ack_interrupt has cleared
\* both bits.
OneEvent(q) ==
  IF "ConfigChange" \in isr THEN add_event(q, "ConfigChange")
                            ELSE add_event(q, "Queue")

\* The events of one interrupt, in the handler's order.
Acknowledge(q) ==
  LET q1 == IF "Queue" \in isr THEN add_event(q, "Queue") ELSE q
  IN  IF "ConfigChange" \in isr THEN add_event(q1, "ConfigChange") ELSE q1

\* The driver's lock masks interrupts while a buffer is taken out.
virtio_irq ==
  /\ isr # {} /\ pc # "publish"
  /\ isr' = {}
  /\ events' = Acknowledge(events)
  /\ UNCHANGED <<event_idx, avail, arrived, popped, used_event, opened, pc,
                 done, configs>>

-----------------------------------------------------------------------------
(* network_task *)

\* NetworkStream::new
NewStream ==
  /\ pc = "start"
  /\ opened' = TRUE
  /\ pc' = "init"
  /\ UNCHANGED <<devVars, events, done, configs>>

\* init_network_interface, which ends by sending a discover.
InitInterface ==
  /\ pc = "init"
  /\ Transmit
  /\ pc' = "next"
  /\ UNCHANGED <<event_idx, avail, arrived, popped, used_event, opened, events,
                 done, configs>>

\* stream.next().await: a queue event starts handle_queue_interrupt, a
\* configuration change is only reported.
NextEvent ==
  /\ pc = "next" /\ events # <<>>
  /\ events' = Tail(events)
  /\ pc' = IF Head(events) = "Queue" THEN "receive" ELSE "next"
  /\ UNCHANGED <<devVars, opened, done, configs>>

\* driver.receive(), up to taking a buffer out of the used ring; with none
\* there it is Err(NotReady) and the loop ends.
Receive ==
  /\ pc = "receive"
  /\ IF popped < arrived
     THEN popped' = popped + 1 /\ pc' = "publish"
     ELSE pc' = "next" /\ UNCHANGED popped
  /\ UNCHANGED <<event_idx, avail, arrived, used_event, isr, opened, events,
                 done, configs>>

\* The rest of driver.receive(): the card learns how far the driver has got.
Publish ==
  /\ pc = "publish"
  /\ used_event' = popped
  /\ pc' = "process"
  /\ UNCHANGED <<event_idx, avail, arrived, popped, isr, opened, events, done,
                 configs>>

\* Mutant: a rejected frame ends the loop's turn, without its recycling.
RejectedKept ==
  /\ pc = "process"
  /\ IF popped \in Rejected
     THEN pc' = "receive" /\ UNCHANGED <<done, isr>>
     ELSE /\ done' = Append(done, popped)
          /\ Transmit \/ UNCHANGED isr
          /\ pc' = "recycle"
  /\ UNCHANGED <<event_idx, avail, arrived, popped, used_event, opened, events,
                 configs>>

\* process_rx: the frame goes to handle_packet, which may answer it, unless it
\* is too short or malformed.
process_rx ==
  /\ pc = "process"
  /\ pc' = "recycle"
  /\ IF popped \in Rejected
     THEN UNCHANGED <<done, isr>>
     ELSE /\ done' = Append(done, popped)
          /\ Transmit \/ UNCHANGED isr
  /\ UNCHANGED <<event_idx, avail, arrived, popped, used_event, opened, events,
                 configs>>

\* Mutant: one frame per event instead of a loop.
RecycleAndWait ==
  /\ pc = "recycle"
  /\ avail' = avail + 1
  /\ pc' = "next"
  /\ UNCHANGED <<event_idx, arrived, popped, used_event, isr, opened, events,
                 done, configs>>

\* driver.recycle_rx_buffer(packet), and round the loop.
Recycle ==
  /\ pc = "recycle"
  /\ avail' = avail + 1
  /\ pc' = "receive"
  /\ UNCHANGED <<event_idx, arrived, popped, used_event, isr, opened, events,
                 done, configs>>

network_task ==
  \/ NewStream \/ InitInterface \/ NextEvent
  \/ Receive \/ Publish \/ process_rx \/ Recycle

Next == Arrive \/ ChangeConfig \/ virtio_irq \/ network_task

(***************************************************************************)
(* An asserted line is served once interrupts are on, which they are       *)
(* outside short critical sections, and a task with an event is polled     *)
(* (Executor's InputConsumed).  Nothing makes a frame arrive.              *)
(***************************************************************************)
Fairness == WF_vars(virtio_irq) /\ WF_vars(network_task)

Spec == Init /\ [][Next]_vars /\ Fairness

-----------------------------------------------------------------------------
(* Properties *)

\* Every variable has its type.
TypeOK ==
  /\ event_idx \in BOOLEAN
  /\ avail \in 0 .. RingSize
  /\ arrived \in 0 .. MaxFrames /\ popped \in 0 .. arrived
  /\ used_event \in 0 .. popped
  /\ isr \subseteq {"Queue", "ConfigChange"}
  /\ opened \in BOOLEAN
  /\ events \in Seq({"Queue", "ConfigChange"}) /\ Len(events) <= EventCap
  /\ pc \in {"start", "init", "next", "receive", "publish", "process",
             "recycle"}
  /\ done \in Seq(Frame)
  /\ configs \in 0 .. MaxConfig

QueueEvent == \E i \in DOMAIN events : events[i] = "Queue"

\* A full NET_EVENTS drops what comes next, the queue event too.  That is harmless
\* with fewer configuration changes than slots: a queue event is then queued already.
Roomy == configs < EventCap

\* No frame is stranded (handle_queue_interrupt against the card): whenever the
\* task waits for an event and the ring holds a frame, a queue event is on its
\* way, although events were dropped before the stream existed, one event
\* stands for many frames, and the card may stay silent about a frame that
\* arrives while the loop runs.
NoFrameStranded ==
  Roomy /\ pc = "next" /\ popped < arrived => "Queue" \in isr \/ QueueEvent

\* No buffer leaks: whatever became of the frames, every buffer is the card's
\* to fill, holds a frame that waits, or is the one being processed.
BuffersConserved ==
  avail + (arrived - popped)
    + (IF pc \in {"publish", "process", "recycle"} THEN 1 ELSE 0) = RingSize

-----------------------------------------------------------------------------
(* The refinement *)

\* Frames the driver has not yet handed to process_rx.
Unseen ==
  LET first == IF pc \in {"publish", "process"} THEN popped ELSE popped + 1
  IN  [i \in 1 .. arrived + 1 - first |-> first + i - 1]

Channel == INSTANCE FrameChannel WITH
             Ignored <- Rejected, Capacity <- RingSize, pending <- Unseen

\* The receive path is a FrameChannel: accepted frames are looked at once, in
\* order, whatever add_event drops; and each one eventually is, unless
\* configuration changes could fill NET_EVENTS.
DeliversFrames == Channel!Spec /\ ([]Roomy => Channel!Live)

-----------------------------------------------------------------------------
(* The inductive invariant behind NoFrameStranded *)

\* A run of configuration changes at the end of NET_EVENTS, with the one the card
\* is about to report, is no longer than the number of them so far: a full queue
\* in a Roomy state holds a queue event.
ConfigsCounted ==
  \A k \in 0 .. Len(events) :
    (\A i \in k + 1 .. Len(events) : events[i] = "ConfigChange") =>
      Len(events) - k + (IF "ConfigChange" \in isr THEN 1 ELSE 0) <= configs

\* Outside driver.receive() the card has been told how far the driver got, so it
\* speaks up about the next frame.
EventInv ==
  /\ pc # "start" => opened
  /\ pc # "publish" => used_event = popped
  /\ ConfigsCounted
  /\ NoFrameStranded

=============================================================================
