------------------------------- MODULE Events -------------------------------
(***************************************************************************)
(* The event queue of the window manager (src/kernel/core/input_event.cpp) *)
(* with its one consumer, SYS_GET_EVENT of the window manager itself, and  *)
(* its producers: SYS_POST_EVENT of any process, and pump_events, which    *)
(* every SYS_GET_EVENT runs first to turn pending input into events.       *)
(* event_push takes no lock; a producer can be preempted between reading   *)
(* the tail, storing the event, moving the tail and waking the consumer.   *)
(* Two pushes that overlap can overwrite each other's event; overlap, which *)
(* is not in the code, remembers that this may have happened.              *)
(***************************************************************************)
EXTENDS Integers, Sequences

CONSTANTS Posters,              \* processes that post events
          Wm,                   \* the window manager
          EVENT_QUEUE_SIZE,
          MaxInput              \* bound on the input pending in the device buffers

VARIABLES events, head, tail,   \* the EventQueue
          input,                \* input items not yet turned into events
          pc,                   \* process -> where it is: [at, event, pos]
          overlap               \* some push began before another had ended

vars == <<events, head, tail, input, pc, overlap>>

Procs   == Posters \cup {Wm}
Payload == {"post", "input"}
Idle    == [at |-> "idle"]
Cells   == 0 .. EVENT_QUEUE_SIZE - 1
After(i) == (i + 1) % EVENT_QUEUE_SIZE

event_init ==
    /\ events = [i \in Cells |-> "input"] /\ head = 0 /\ tail = 0
    /\ input = 0
    /\ pc = [p \in Procs |-> Idle]
    /\ overlap = FALSE

(* event_push, in four steps: a full queue drops the event. *)
Pushing(p) == pc[p].at \in {"push", "store", "publish", "notify"}
Push(p, e) ==
    /\ pc' = [pc EXCEPT ![p] = [at |-> "push", event |-> e]]
    /\ overlap' = (overlap \/ \E q \in Procs : Pushing(q))
Done(p)    == IF p = Wm THEN [at |-> "pump"] ELSE Idle

Full == After(tail) = head

event_push(p) ==
    /\ pc[p].at = "push"
    /\ pc' = [pc EXCEPT ![p] = IF Full THEN Done(p)
                               ELSE [at |-> "store", event |-> @.event, pos |-> tail]]
    /\ UNCHANGED <<events, head, tail, input, overlap>>

(* Mutant: the event goes to the head's cell. *)
event_store_at_head(p) ==
    /\ pc[p].at = "store"
    /\ events' = [events EXCEPT ![head] = pc[p].event]
    /\ pc' = [pc EXCEPT ![p].at = "publish"]
    /\ UNCHANGED <<head, tail, input, overlap>>
event_store(p) ==
    /\ pc[p].at = "store"
    /\ events' = [events EXCEPT ![pc[p].pos] = pc[p].event]
    /\ pc' = [pc EXCEPT ![p].at = "publish"]
    /\ UNCHANGED <<head, tail, input, overlap>>

(* Mutant: the tail does not wrap. *)
event_publish_no_wrap(p) ==
    /\ pc[p].at = "publish"
    /\ tail' = pc[p].pos + 1
    /\ pc' = [pc EXCEPT ![p].at = "notify"]
    /\ UNCHANGED <<events, head, input, overlap>>
event_publish(p) ==
    /\ pc[p].at = "publish"
    /\ tail' = After(pc[p].pos)
    /\ pc' = [pc EXCEPT ![p].at = "notify"]
    /\ UNCHANGED <<events, head, input, overlap>>

(* scheduler_notify_input_waiters. *)
Notified(f) == [p \in Procs |-> IF f[p].at = "sleep" THEN [at |-> "pump"] ELSE f[p]]
notify(p) ==
    /\ pc[p].at = "notify"
    /\ pc' = Notified([pc EXCEPT ![p] = Done(p)])
    /\ UNCHANGED <<events, head, tail, input, overlap>>

(* SYS_POST_EVENT, and pump_events in the SYS_GET_EVENT of another         *)
(* process, which also feeds the window manager's queue.                   *)
post_event(p) ==
    /\ p # Wm /\ pc[p] = Idle /\ Push(p, "post")
    /\ UNCHANGED <<events, head, tail, input>>
pump_events(p) ==
    /\ input > 0
    /\ pc[p] = IF p = Wm THEN [at |-> "pump"] ELSE Idle
    /\ Push(p, "input")
    /\ input' = input - 1
    /\ UNCHANGED <<events, head, tail>>

(* A device interrupt: input is pending, waiters are woken. *)
irq ==
    /\ input < MaxInput
    /\ input' = input + 1
    /\ pc' = Notified(pc)
    /\ UNCHANGED <<events, head, tail, overlap>>

-----------------------------------------------------------------------------
(* SYS_GET_EVENT of the window manager: pump, poll, and poll once more     *)
(* with interrupts off before it sleeps.                                   *)
get_event ==
    /\ pc[Wm] = Idle
    /\ pc' = [pc EXCEPT ![Wm] = [at |-> "pump"]]
    /\ UNCHANGED <<events, head, tail, input, overlap>>
pumped ==
    /\ pc[Wm] = [at |-> "pump"] /\ input = 0
    /\ pc' = [pc EXCEPT ![Wm] = [at |-> "poll"]]
    /\ UNCHANGED <<events, head, tail, input, overlap>>

event_poll ==
    /\ head # tail
    /\ head' = After(head)
    /\ pc' = [pc EXCEPT ![Wm] = Idle]
    /\ UNCHANGED <<events, tail, input, overlap>>
event_empty(next) ==
    /\ head = tail
    /\ pc' = [pc EXCEPT ![Wm] = [at |-> next]]
    /\ UNCHANGED <<events, head, tail, input, overlap>>

(* Mutant: an event found by the first poll sends the loop round. *)
poll_spins ==
    /\ pc[Wm].at = "poll"
    /\ \/ event_empty("off")
       \/ /\ head # tail
          /\ pc' = [pc EXCEPT ![Wm] = [at |-> "pump"]]
          /\ UNCHANGED <<events, head, tail, input, overlap>>
poll == pc[Wm].at = "poll" /\ (event_poll \/ event_empty("off"))

(* Mutant: no second poll. *)
poll_or_sleep_unchecked ==
    /\ pc[Wm].at = "off"
    /\ pc' = [pc EXCEPT ![Wm] = [at |-> "sleep"]]
    /\ UNCHANGED <<events, head, tail, input, overlap>>
poll_or_sleep == pc[Wm].at = "off" /\ (event_poll \/ event_empty("sleep"))

Started(p) == post_event(p) \/ pump_events(p)
Steps == \/ \E p \in Procs : event_push(p) \/ event_store(p) \/ event_publish(p) \/ notify(p)
         \/ get_event \/ pumped \/ poll \/ poll_or_sleep \/ irq

Next == Steps \/ \E p \in Procs : Started(p)

(* A producer finishes its push and a window manager inside the call goes  *)
(* on; nothing is asked of devices, or of when a call is made.             *)
Fairness ==
    /\ WF_vars(pumped \/ poll \/ poll_or_sleep \/ pump_events(Wm))
    /\ \A p \in Procs : WF_vars(event_push(p) \/ event_store(p) \/ event_publish(p) \/ notify(p))
Spec == event_init /\ [][Next]_vars /\ Fairness

-----------------------------------------------------------------------------
TypeOK ==
    /\ events \in [Cells -> Payload] /\ head \in Cells /\ tail \in Cells
    /\ input \in 0 .. MaxInput /\ overlap \in BOOLEAN
    /\ \A p \in Procs : pc[p].at \in
          {"idle", "push", "store", "publish", "notify", "pump", "poll", "off", "sleep"}

(* The consumer sleeps on a queue that is not empty only as long as a      *)
(* producer still has to wake it, however many producers race.             *)
NoMissedEvent ==
    pc[Wm].at = "sleep" => head = tail \/ \E p \in Procs : pc[p].at = "notify"

(* The queue as a sequence. *)
Length   == (tail - head) % EVENT_QUEUE_SIZE
Contents == [i \in 1 .. Length |-> events[(head + i - 1) % EVENT_QUEUE_SIZE]]

(* As long as no pushes have overlapped, the queue is first-in first-out:  *)
(* a push adds the event it was given at the end, a poll takes the first,  *)
(* nothing else changes what is in it.                                     *)
FirstInFirstOut ==
    [][\/ overlap
       \/ Contents' = Contents
       \/ \E p \in Procs : event_publish(p) /\ Contents' = Append(Contents, pc[p].event)
       \/ Contents # <<>> /\ Contents' = Tail(Contents) /\ pc[Wm].at \in {"poll", "off"}]_vars

(* Once the devices are quiet, a window manager that has asked for an      *)
(* event does not stay in the call while its queue has one: no wakeup is   *)
(* lost between its last poll and its sleep.  (A push that overlapped      *)
(* another can move the tail back and make events disappear.)              *)
EventIsDelivered ==
    <>[](input = 0) => (head # tail /\ pc[Wm].at # "idle" ~> pc[Wm].at = "idle" \/ overlap)
=============================================================================
