--------------------------- MODULE AsyncGenerator ---------------------------
(***************************************************************************)
(* async_generator: the stream that a task's yield_s are turned into. The  *)
(* consumer polls the stream, and every poll polls the task; the two share *)
(* a channel of capacity 0, which takes one item and makes its sender wait *)
(* until it is received.                                                   *)
(*                                                                         *)
(* The task is any task: it may wait for something else, drop its Yield,   *)
(* or give up a yield_ whose item is already in the channel.               *)
(***************************************************************************)
EXTENDS Naturals, Sequences

CONSTANT MaxItems           \* bound on the items yielded

ASSUME MaxItemsAssumption == MaxItems \in Nat

VARIABLES
    task,       \* the task: "ready" to run, "sending" (its yield_ waits for the
                \* item to be received), "blocked" (a further yield_ waits for
                \* room), "waiting" for something else, or "done"
    closed,     \* the Yield has been dropped
    channel,    \* the items sent and not received
    ended,      \* stream.is_terminated(): it has returned None
    res,        \* is the task's result stored
    waker,      \* will an event the task waits for wake the consumer
    consumer,   \* "polling", "asleep" after a Pending, "finished" after a None
    sent,       \* history: the number of items yielded
    out         \* history: what the stream has returned

vars == <<task, closed, channel, ended, res, waker, consumer, sent, out>>

\* GeneratorState: Yielded(item) is the item's number, Complete is 0.
Complete == 0

\* generate()
Init ==
    /\ task = "ready"
    /\ closed = FALSE
    /\ channel = <<>>
    /\ ended = FALSE
    /\ res = FALSE
    /\ waker = FALSE
    /\ consumer = "polling"
    /\ sent = 0
    /\ out = <<>>

-----------------------------------------------------------------------------

\* The task goes on when it is polled, unless it waits.
Runs == \/ task = "ready"
        \/ task \in {"sending", "blocked"} /\ channel = <<>>

\* Where one poll may leave the task: it has put at most one item into the
\* channel, and has ended, dropped its Yield, or come to wait.
Outcomes ==
    {o \in [task : {"sending", "blocked", "waiting", "done"},
            yields : BOOLEAN, closed : BOOLEAN] :
       /\ o.yields => ~closed /\ sent < MaxItems
       /\ task = "blocked" => o.yields
       /\ o.task = "sending" => o.yields /\ ~o.closed
       /\ o.task = "blocked" => o.yields /\ ~o.closed /\ sent + 1 < MaxItems
       /\ closed \/ o.task = "done" => o.closed}

\* The task's poll; a finished task is not polled (Fuse).
PollTask ==
    IF Runs THEN Outcomes
            ELSE {[task |-> task, yields |-> FALSE, closed |-> closed]}

\* Mutant: an item is sent a second time.
ContentsTwice(o) ==
    IF o.yields THEN channel \o <<sent + 1, sent + 1>> ELSE channel

\* The channel after the task's poll.
Contents(o) == IF o.yields THEN Append(channel, sent + 1) ELSE channel

\* Mutant: a Pending of the stream is returned without polling the task.
PollNextStreamFirst(o) ==
    /\ consumer = "polling"
    /\ ~closed
    /\ consumer' = "asleep"
    /\ UNCHANGED <<task, closed, channel, ended, res, waker, sent, out>>

\* poll_next: the task, whose poll comes out as o, then the channel, then the
\* stored result.
PollNext(o) ==
    LET items == Contents(o)
        done == o.task = "done"
        result == res \/ (done /\ task # "done")
        over == ended \/ (items = <<>> /\ o.closed)
    IN /\ consumer = "polling"
       /\ task' = o.task
       /\ closed' = o.closed
       /\ sent' = sent + (IF o.yields THEN 1 ELSE 0)
       /\ waker' = (o.task # "done")
       /\ ended' = over
       /\ \/ /\ items # <<>>                       \* Yielded
             /\ channel' = Tail(items)
             /\ out' = Append(out, Head(items))
             /\ res' = result
             /\ consumer' = "polling"
          \/ /\ items = <<>> /\ ~(over /\ done)    \* Pending
             /\ channel' = items
             /\ res' = result
             /\ consumer' = "asleep"
             /\ UNCHANGED out
          \/ /\ over /\ done /\ result             \* Complete
             /\ channel' = items
             /\ out' = Append(out, Complete)
             /\ res' = FALSE
             /\ consumer' = "polling"
          \/ /\ over /\ done /\ ~result            \* the end of the stream
             /\ channel' = items
             /\ res' = FALSE
             /\ consumer' = "finished"
             /\ UNCHANGED out

\* What the task waits for happens; whoever polled the task last is woken.
EventHappens ==
    /\ task = "waiting"
    /\ task' = "ready"
    /\ consumer' = IF waker /\ consumer = "asleep" THEN "polling" ELSE consumer
    /\ waker' = FALSE
    /\ UNCHANGED <<closed, channel, ended, res, sent, out>>

\* A consumer that also waits for something else (select!) may poll a stream
\* that is not ready.
PolledAnyway ==
    /\ consumer = "asleep"
    /\ consumer' = "polling"
    /\ UNCHANGED <<task, closed, channel, ended, res, waker, sent, out>>

\* The stream has ended.
Finished == consumer = "finished" /\ UNCHANGED vars

Poll == \E o \in PollTask : PollNext(o)

Next == Poll \/ EventHappens \/ PolledAnyway \/ Finished

\* A stream over any task.
Spec == Init /\ [][Next]_vars

\* What into_yielded and into_complete keep of the stream: the places of its
\* items, and of its results, of which the first is unwrapped.
IntoYielded == {i \in 1..Len(out) : out[i] # Complete}
IntoComplete == {i \in 1..Len(out) : out[i] = Complete}

-----------------------------------------------------------------------------
(***************************************************************************)
(* Properties                                                              *)
(***************************************************************************)

\* generate: the stream is "all yielded items", in order and each once,
\* "followed by a single GeneratorState::Complete variant", which overtakes no
\* item, also when the task ends with an item still in the channel, and which
\* into_complete, that unwraps it, finds before the stream ends.
ItemsThenComplete ==
    /\ \A i \in IntoYielded : out[i] = i
    /\ \A i \in IntoComplete : i = Len(out) /\ task = "done" /\ Len(out) = sent + 1
    /\ consumer = "finished" => IntoComplete = {Len(out)}

\* No wake-up is lost: a task that can run is run, whatever it yields is
\* received, and once it is done its result and the end of the stream follow.
EverythingArrives ==
    /\ (task = "ready") ~> (task # "ready")
    /\ \A n \in 1..MaxItems : (sent >= n) ~> (\E i \in IntoYielded : out[i] = n)
    /\ (task = "done") ~> (consumer = "finished")
=============================================================================
