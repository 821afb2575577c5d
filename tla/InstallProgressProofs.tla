----------------------- MODULE InstallProgressProofs -----------------------
(***************************************************************************)
(* Proofs about AsyncGenerator and InstallProgress, for any number of      *)
(* items and reports: what the stream returns for any task, that the       *)
(* machine's installing task is one, and that it yields every report.      *)
(***************************************************************************)
EXTENDS InstallProgress, TLAPS, SequenceTheorems

\* What the stream keeps: nothing stays in the channel from one poll to the
\* next, a stream that has ended has lost its sender, and a result is stored
\* only by a task that is done.
Kept ==
    /\ task \in {"ready", "sending", "blocked", "waiting", "done"}
    /\ closed \in BOOLEAN /\ ended \in BOOLEAN /\ res \in BOOLEAN
    /\ consumer \in {"polling", "asleep", "finished"}
    /\ channel = <<>>
    /\ sent \in 0..MaxItems
    /\ out \in Seq(Nat)
    /\ ended => closed
    /\ res => task = "done"

\* What the stream has returned: every item yielded, and after them the result,
\* once the task that is done has it stored no longer.
Returned ==
    /\ \A i \in 1..sent : i \in 1..Len(out) /\ out[i] = i
    /\ IF task = "done" /\ ~res
         THEN Len(out) = sent + 1 /\ out[sent + 1] = Complete
         ELSE Len(out) = sent
    /\ consumer = "finished" => task = "done" /\ ~res

GeneratorInv == Kept /\ Returned

-----------------------------------------------------------------------------
(***************************************************************************)
(* Any task                                                                *)
(***************************************************************************)

\* A new generator has returned nothing.
LEMMA GeneratorInit == Init => GeneratorInv
  <1> SUFFICES ASSUME Init PROVE GeneratorInv
    OBVIOUS
  <1>1. closed \in BOOLEAN /\ ended \in BOOLEAN /\ res \in BOOLEAN /\ ~res /\ ~ended
    BY Zenon DEF Init
  <1>2. Kept
    BY <1>1, MaxItemsAssumption DEF Init, Kept
  <1>3. Returned
    BY DEF Init, Returned
  <1>4. QED
    BY <1>2, <1>3 DEF GeneratorInv

\* What a poll of the task may come to: it yields only while it has its Yield
\* and there is room, and a task that is done stays done.
LEMMA TaskPolled ==
  ASSUME Kept, NEW o \in PollTask
  PROVE  /\ o.task \in {"ready", "sending", "blocked", "waiting", "done"}
         /\ o.yields \in BOOLEAN /\ o.closed \in BOOLEAN
         /\ o.yields => ~closed /\ sent < MaxItems /\ task # "done"
         /\ closed => o.closed
         /\ task = "done" => o.task = "done"
  <1>1. CASE Runs
    <2>1. o \in Outcomes /\ task # "done"
      BY <1>1 DEF PollTask, Runs
    <2>2. QED
      BY <2>1 DEF Outcomes
  <1>2. CASE ~Runs
    <2>1. o = [task |-> task, yields |-> FALSE, closed |-> closed]
      BY <1>2 DEF PollTask
    <2>2. o.task = task /\ o.yields = FALSE /\ o.closed = closed
      BY <2>1
    <2>3. QED
      BY <2>2 DEF Kept
  <1>3. QED
    BY <1>1, <1>2

\* One poll of the stream.
LEMMA GeneratorPolls ==
  ASSUME GeneratorInv, NEW o \in PollTask, PollNext(o)
  PROVE  GeneratorInv'
  <1> DEFINE items == Contents(o)
             result == res \/ (o.task = "done" /\ task # "done")
             over == ended \/ (items = <<>> /\ o.closed)
  <1>0. Kept /\ Returned
    BY DEF GeneratorInv
  <1>1. /\ o.task \in {"ready", "sending", "blocked", "waiting", "done"}
        /\ o.yields \in BOOLEAN /\ o.closed \in BOOLEAN
        /\ o.yields => ~closed /\ sent < MaxItems /\ task # "done"
        /\ closed => o.closed
        /\ task = "done" => o.task = "done"
    BY <1>0, TaskPolled
  <1>2. /\ task' = o.task
        /\ closed' = o.closed
        /\ sent' = sent + (IF o.yields THEN 1 ELSE 0)
        /\ ended' = over
    BY DEF PollNext
  <1>3. sent' \in 0..MaxItems
    BY <1>0, <1>1, <1>2, MaxItemsAssumption DEF Kept
  <1>4. ended' \in BOOLEAN /\ (ended' => closed')
    <2>1. over \in BOOLEAN
      BY <1>0, Zenon DEF Kept
    <2>2. over => o.closed
      BY <1>0, <1>1 DEF Kept
    <2>3. QED
      BY <1>2, <2>1, <2>2
  <1>5. result \in BOOLEAN /\ (result => o.task = "done")
    <2>1. result \in BOOLEAN
      BY <1>0, Zenon DEF Kept
    <2>2. QED
      BY <2>1, <1>0, <1>1 DEF Kept
  <1>6. items = IF o.yields THEN <<sent + 1>> ELSE <<>>
    BY <1>0 DEF Kept, Contents
  <1>7. CASE items # <<>>
    <2>1. o.yields /\ items = <<sent + 1>> /\ task # "done" /\ ~res /\ ~ended /\ ~closed
      BY <1>0, <1>1, <1>6, <1>7 DEF Kept
    <2>2. channel' = Tail(items) /\ out' = Append(out, Head(items)) /\ res' = result
          /\ consumer' = "polling"
      BY <1>7, <2>1 DEF PollNext
    <2>3. channel' = <<>> /\ out' = Append(out, sent + 1)
      BY <2>1, <2>2
    <2>4. sent' = sent + 1 /\ sent \in Nat
      BY <1>0, <1>2, <2>1, MaxItemsAssumption DEF Kept
    <2>5. Len(out) = sent /\ \A i \in 1..sent : out[i] = i
      BY <1>0, <2>1 DEF Returned
    <2>6. Kept'
      BY <1>0, <1>1, <1>2, <1>3, <1>4, <1>5, <2>2, <2>3, <2>4 DEF Kept
    <2>7. /\ Len(out') = sent'
          /\ \A i \in 1..sent' : i \in 1..Len(out') /\ out'[i] = i
      BY <1>0, <2>3, <2>4, <2>5 DEF Kept
    <2>8. task' = "done" => res'
      BY <1>2, <2>1, <2>2
    <2>9. Returned'
      BY <2>2, <2>7, <2>8 DEF Returned
    <2>10. QED
      BY <2>6, <2>9 DEF GeneratorInv
  <1>8. CASE items = <<>>
    <2>1. ~o.yields /\ sent' = sent
      BY <1>0, <1>1, <1>2, <1>6, <1>8, MaxItemsAssumption DEF Kept
    <2>2. CASE ~(over /\ o.task = "done")
      <3>1. channel' = items /\ res' = result /\ consumer' = "asleep" /\ out' = out
        BY <1>8, <2>2 DEF PollNext
      <3>2. Kept'
        BY <1>0, <1>1, <1>2, <1>3, <1>4, <1>5, <1>8, <3>1 DEF Kept
      <3>3. (task' = "done" /\ ~res') <=> (task = "done" /\ ~res)
        BY <1>0, <1>1, <1>2, <3>1 DEF Kept
      <3>4. Returned'
        BY <1>0, <2>1, <3>1, <3>3 DEF Returned
      <3>5. QED
        BY <3>2, <3>4 DEF GeneratorInv
    <2>3. CASE over /\ o.task = "done" /\ result
      <3>1. channel' = items /\ res' = FALSE /\ consumer' = "polling"
            /\ out' = Append(out, Complete)
        BY <1>8, <2>3 DEF PollNext
      <3>2. ~(task = "done" /\ ~res)
        BY <2>3
      <3>3. Len(out) = sent /\ sent \in Nat
        BY <1>0, <3>2, MaxItemsAssumption DEF Returned, Kept
      <3>4. Kept'
        <4>1. out' \in Seq(Nat)
          BY <1>0, <3>1 DEF Kept, Complete
        <4>2. QED
          BY <1>1, <1>2, <1>3, <1>4, <1>8, <3>1, <4>1 DEF Kept
      <3>5. /\ Len(out') = sent' + 1 /\ out'[sent' + 1] = Complete
            /\ \A i \in 1..sent' : i \in 1..Len(out') /\ out'[i] = i
        BY <1>0, <2>1, <3>1, <3>3 DEF Kept, Returned
      <3>6. task' = "done" /\ ~res'
        BY <1>2, <2>3, <3>1
      <3>7. Returned'
        BY <3>1, <3>5, <3>6 DEF Returned
      <3>8. QED
        BY <3>4, <3>7 DEF GeneratorInv
    <2>4. CASE over /\ o.task = "done" /\ ~result
      <3>1. channel' = items /\ res' = FALSE /\ consumer' = "finished" /\ out' = out
        BY <1>8, <2>4 DEF PollNext
      <3>2. task = "done" /\ ~res
        BY <2>4
      <3>3. Kept'
        BY <1>0, <1>1, <1>2, <1>3, <1>4, <1>8, <3>1 DEF Kept
      <3>4. task' = "done" /\ ~res'
        BY <1>2, <2>4, <3>1
      <3>5. Returned'
        BY <1>0, <2>1, <3>1, <3>2, <3>4 DEF Returned
      <3>6. QED
        BY <3>3, <3>5 DEF GeneratorInv
    <2>5. QED
      BY <2>2, <2>3, <2>4
  <1>9. QED
    BY <1>7, <1>8

\* No step of a generator leaves the invariant.
LEMMA GeneratorNext == GeneratorInv /\ [Next]_vars => GeneratorInv'
  <1> SUFFICES ASSUME GeneratorInv, [Next]_vars
               PROVE  GeneratorInv'
    OBVIOUS
  <1>1. CASE Poll
    BY <1>1, GeneratorPolls DEF Poll
  <1>2. CASE EventHappens
    <2>1. /\ task = "waiting" /\ task' = "ready"
          /\ consumer' = IF waker /\ consumer = "asleep" THEN "polling" ELSE consumer
          /\ UNCHANGED <<closed, channel, ended, res, sent, out>>
      BY <1>2 DEF EventHappens
    <2>2. consumer' \in {"polling", consumer}
      BY <2>1
    <2>3. QED
      BY <2>1, <2>2 DEF GeneratorInv, Kept, Returned
  <1>3. CASE PolledAnyway
    BY <1>3 DEF PolledAnyway, GeneratorInv, Kept, Returned
  <1>4. CASE UNCHANGED vars
    BY <1>4 DEF vars, GeneratorInv, Kept, Returned
  <1>5. QED
    BY <1>1, <1>2, <1>3, <1>4 DEF Next, Finished

\* The stream's order follows from what has been returned.
LEMMA GeneratorOrder == GeneratorInv => ItemsThenComplete
  <1> SUFFICES ASSUME GeneratorInv PROVE ItemsThenComplete
    OBVIOUS
  <1>0. sent \in Nat /\ Len(out) \in Nat
    BY MaxItemsAssumption DEF GeneratorInv, Kept
  <1>1. CASE task = "done" /\ ~res
    <2>1. /\ Len(out) = sent + 1 /\ out[sent + 1] = Complete
          /\ \A i \in 1..sent : out[i] = i
      BY <1>1 DEF GeneratorInv, Returned
    <2>2. \A i \in 1..Len(out) : i = sent + 1 \/ (i \in 1..sent /\ out[i] = i /\ i # 0)
      BY <1>0, <2>1
    <2>3. IntoComplete = {Len(out)}
      BY <1>0, <2>1, <2>2 DEF IntoComplete, Complete
    <2>4. QED
      BY <1>1, <2>1, <2>2, <2>3 DEF ItemsThenComplete, IntoYielded, Complete
  <1>2. CASE ~(task = "done" /\ ~res)
    <2>1. Len(out) = sent /\ \A i \in 1..sent : out[i] = i
      BY <1>2 DEF GeneratorInv, Returned
    <2>2. IntoComplete = {}
      BY <1>0, <2>1 DEF IntoComplete, Complete
    <2>3. consumer # "finished"
      BY <1>2 DEF GeneratorInv, Returned
    <2>4. QED
      BY <2>1, <2>2, <2>3 DEF ItemsThenComplete, IntoYielded
  <1>3. QED
    BY <1>1, <1>2
\* The stream that generate() makes of any task is its items, in order and each
\* once, followed by its result; and it does not end before that.
THEOREM AnyTaskItemsThenComplete == Spec => []ItemsThenComplete
  <1>1. GeneratorInv /\ [Next]_vars => GeneratorInv'
    BY GeneratorNext
  <1>2. QED
    BY <1>1, GeneratorInit, GeneratorOrder, PTL DEF Spec

-----------------------------------------------------------------------------
(***************************************************************************)
(* The task that installs                                                  *)
(***************************************************************************)

\* The join: where the task may be while it installs, that its Yield is at
\* hand, and that there is room for what the installer has reported. A task
\* that waits has an installer that does, and has yielded its reports.
Joined ==
    /\ phase \in {"before", "installing", "after"}
    /\ installer \in {"ready", "awaiting", "reporting", "returned"}
    /\ phase = "before" => installer = "ready"
    /\ phase # "installing" => reports = <<>>
    /\ phase = "installing" =>
         /\ task \in {"ready", "sending", "waiting"}
         /\ ~closed
         /\ task = "waiting" => installer = "awaiting" /\ reports = <<>>
    /\ sent + Len(reports) <= MaxItems

\* The reports are the numbers from 1, first those yielded and then those that
\* wait in the channel.
Counted ==
    /\ reports \in Seq(Nat) /\ progress \in Seq(Nat)
    /\ reported = Len(progress) + Len(reports)
    /\ \A n \in 1..Len(progress) : progress[n] = n
    /\ \A n \in 1..Len(reports) : reports[n] = Len(progress) + n

InstallInv == Kept /\ Joined /\ Counted

\* Nothing has been reported before the installation.
LEMMA InstallInvInit == InstallInit => InstallInv
  <1> SUFFICES ASSUME InstallInit PROVE InstallInv
    OBVIOUS
  <1>1. Kept /\ sent = 0
    BY GeneratorInit DEF InstallInit, GeneratorInv, Init
  <1>2. Joined
    BY <1>1, MaxItemsAssumption DEF InstallInit, Joined
  <1>3. Counted
    BY DEF InstallInit, Counted
  <1>4. QED
    BY <1>1, <1>2, <1>3 DEF InstallInv

\* What the queue holds when the installer has been polled.
LEMMA QueueIs ==
  ASSUME Counted, NEW made \in Nat
  PROVE  LET queue == reports \o [n \in 1..made |-> reported + n]
         IN /\ queue \in Seq(Nat)
            /\ Len(queue) = Len(reports) + made
            /\ \A n \in 1..Len(queue) : queue[n] = Len(progress) + n
  <1> DEFINE more == [n \in 1..made |-> reported + n]
             queue == reports \o more
  <1>1. Len(reports) \in Nat /\ Len(progress) \in Nat /\ reported \in Nat
    BY DEF Counted
  <1>2. more \in Seq(Nat) /\ Len(more) = made /\ \A n \in 1..made : more[n] = reported + n
    BY <1>1
  <1> HIDE DEF more
  <1>3. queue \in Seq(Nat) /\ Len(queue) = Len(reports) + made
    <2>1. reports \in Seq(Nat)
      BY DEF Counted
    <2>2. QED
      BY <1>2, <2>1, ConcatProperties
  <1>4. ASSUME NEW n \in 1..Len(queue)
        PROVE  queue[n] = Len(progress) + n
    <2>1. CASE n <= Len(reports)
      BY <1>1, <1>2, <1>3, <1>4, <2>1 DEF Counted
    <2>2. CASE n > Len(reports)
      <3>1. queue[n] = more[n - Len(reports)] /\ n - Len(reports) \in 1..made
        BY <1>1, <1>2, <1>3, <1>4, <2>2 DEF Counted
      <3>2. QED
        BY <1>1, <1>2, <3>1 DEF Counted
    <2>3. QED
      BY <1>1, <2>1, <2>2
  <1>5. QED
    BY <1>3, <1>4 DEF more

\* What a poll of the installer may come to.
LEMMA InstallerPolled ==
  ASSUME Kept, Joined, Counted, NEW i \in InstallerPolls
  PROVE  /\ i.state \in {"awaiting", "reporting", "returned"}
         /\ i.made \in Nat
         /\ sent + Len(reports) + i.made <= MaxItems
         /\ i.state = "reporting" => Len(reports) + i.made > 0
         /\ installer = "awaiting" => i.state = "awaiting" /\ i.made = 0
  <1>0. Len(reports) \in Nat /\ (Len(reports) = 0 <=> reports = <<>>) /\ sent \in Nat
    BY MaxItemsAssumption DEF Counted, Kept
  <1>1. CASE InstallerRuns
    BY <1>0, <1>1, ReportsAssumption DEF InstallerPolls, InstallerRuns
  <1>2. CASE ~InstallerRuns
    <2>1. i = [state |-> installer, made |-> 0]
      BY <1>2 DEF InstallerPolls
    <2>2. i.state = installer /\ i.made = 0
      BY <2>1
    <2>3. installer # "ready" /\ (installer = "reporting" => reports # <<>>)
      BY <1>2 DEF InstallerRuns
    <2>4. QED
      BY <1>0, <2>2, <2>3, MaxItemsAssumption DEF Joined
  <1>3. QED
    BY <1>1, <1>2
\* A poll of the installing task is the poll of a task as generate() expects
\* it: it yields at most once, and not while its last yield_ waits for room.
LEMMA InstallIsPoll ==
  ASSUME InstallInv, NEW i \in InstallerPolls, PollInstall(i)
  PROVE  Poll
  <1> DEFINE queue == reports \o [n \in 1..i.made |-> reported + n]
             yields == [task |-> "sending", yields |-> TRUE, closed |-> FALSE]
             waits == [task |-> "waiting", yields |-> FALSE, closed |-> FALSE]
  <1>0. Kept /\ Joined /\ Counted
    BY DEF InstallInv
  <1>1. /\ i.state \in {"awaiting", "reporting", "returned"}
        /\ i.made \in Nat
        /\ sent + Len(reports) + i.made <= MaxItems
        /\ i.state = "reporting" => Len(reports) + i.made > 0
        /\ installer = "awaiting" => i.state = "awaiting" /\ i.made = 0
    BY <1>0, InstallerPolled
  <1>2. queue \in Seq(Nat) /\ Len(queue) = Len(reports) + i.made
    BY <1>0, <1>1, QueueIs
  <1>3. sent \in Nat /\ Len(reports) \in Nat /\ closed = FALSE /\ task # "blocked"
    <2>1. phase = "installing" \/ Starts
      BY DEF PollInstall
    <2>2. QED
      BY <1>0, <2>1, MaxItemsAssumption DEF Kept, Joined, Counted, Starts
  <1>4. Runs \/ (task = "waiting" /\ installer = "awaiting" /\ reports = <<>>)
    <2>1. phase = "installing" \/ Starts
      BY DEF PollInstall
    <2>2. QED
      BY <1>0, <2>1 DEF Kept, Joined, Starts, Runs
  <1>5. ~Runs => i.state = "awaiting" /\ Len(queue) = 0 /\ ~JoinOver(i, queue) /\ queue = <<>>
    BY <1>1, <1>2, <1>4 DEF JoinOver
  <1> HIDE DEF queue
  <1>6. CASE \E o \in Outcomes : PollNext(o) /\ JoinOver(i, queue)
    BY <1>5, <1>6 DEF Poll, PollTask
  <1>7. CASE queue # <<>> /\ PollNext(yields)
    <2>1. Runs /\ Len(queue) > 0
      BY <1>2, <1>5, <1>7
    <2>2. sent < MaxItems
      BY <1>1, <1>2, <1>3, <2>1, MaxItemsAssumption
    <2>3. yields \in Outcomes
      BY <1>3, <2>2 DEF Outcomes
    <2>4. QED
      BY <1>7, <2>1, <2>3 DEF Poll, PollTask
  <1>8. CASE queue = <<>> /\ PollNext(waits)
    <2>1. CASE Runs
      <3>1. waits \in Outcomes
        BY <1>3 DEF Outcomes
      <3>2. QED
        BY <1>8, <2>1, <3>1 DEF Poll, PollTask
    <2>2. CASE ~Runs
      <3>1. waits = [task |-> task, yields |-> FALSE, closed |-> closed]
        BY <1>3, <1>4, <2>2
      <3>2. waits \in PollTask
        BY <2>2, <3>1 DEF PollTask
      <3>3. QED
        BY <1>8, <3>2 DEF Poll
    <2>3. QED
      BY <2>1, <2>2
  <1>9. QED
    BY <1>6, <1>7, <1>8 DEF PollInstall, queue

\* A poll that yields puts one item more into the stream, and hands it on at
\* once.
LEMMA PollSends ==
  ASSUME Kept, NEW o, PollNext(o)
  PROVE  /\ task' = o.task /\ closed' = o.closed
         /\ o.yields = TRUE => sent' = sent + 1
         /\ o.yields = FALSE => sent' = sent
  BY MaxItemsAssumption DEF PollNext, Kept

\* One poll keeps the join in order: the installer runs, and one of its
\* reports is yielded, or none is left.
LEMMA InstallPolled ==
  ASSUME InstallInv, Kept', NEW i \in InstallerPolls, PollInstall(i)
  PROVE  InstallInv'
  <1> DEFINE queue == reports \o [n \in 1..i.made |-> reported + n]
             yields == [task |-> "sending", yields |-> TRUE, closed |-> FALSE]
             waits == [task |-> "waiting", yields |-> FALSE, closed |-> FALSE]
  <1>0. Kept /\ Joined /\ Counted /\ MaxItems \in Nat
    BY MaxItemsAssumption DEF InstallInv
  <1>1. /\ i.state \in {"awaiting", "reporting", "returned"}
        /\ i.made \in Nat
        /\ sent + Len(reports) + i.made <= MaxItems
        /\ i.state = "reporting" => Len(reports) + i.made > 0
    BY <1>0, InstallerPolled
  <1>2. /\ queue \in Seq(Nat)
        /\ Len(queue) = Len(reports) + i.made
        /\ \A n \in 1..Len(queue) : queue[n] = Len(progress) + n
    BY <1>0, <1>1, QueueIs
  <1>3. installer' = i.state /\ reported' = reported + i.made
    BY DEF PollInstall
  <1>4. /\ sent \in Nat /\ sent' \in Nat /\ sent' <= MaxItems
        /\ Len(reports) \in Nat /\ Len(progress) \in Nat /\ reported \in Nat
    BY <1>0 DEF Kept, Counted
  <1> HIDE DEF queue, yields, waits
  <1>5. CASE JoinOver(i, queue) /\ phase' = "after" /\ UNCHANGED <<reports, progress>>
    <2>1. i.made = 0 /\ reports = <<>>
      BY <1>0, <1>1, <1>2, <1>4, <1>5 DEF JoinOver, Counted
    <2>2. Joined'
      <3>1. reports' = <<>> /\ Len(reports') = 0
        BY <1>5, <2>1
      <3>2. sent' + Len(reports') <= MaxItems
        BY <1>4, <3>1
      <3>3. QED
        BY <1>1, <1>3, <1>5, <3>1, <3>2 DEF Joined
    <2>3. Counted'
      BY <1>0, <1>3, <1>4, <1>5, <2>1 DEF Counted
    <2>4. QED
      BY <2>2, <2>3 DEF InstallInv
  <1>6. CASE /\ queue # <<>> /\ PollNext(yields)
             /\ phase' = "installing"
             /\ reports' = Tail(queue) /\ progress' = Append(progress, Head(queue))
    <2>1. Len(queue) > 0 /\ Head(queue) = Len(progress) + 1
      BY <1>2, <1>4, <1>6
    <2>2. task' = "sending" /\ closed' = FALSE /\ sent' = sent + 1
      <3>1. yields.task = "sending" /\ yields.closed = FALSE /\ yields.yields = TRUE
        BY DEF yields
      <3>2. QED
        BY <1>0, <1>6, <3>1, PollSends
    <2>3. /\ reports' \in Seq(Nat) /\ Len(reports') = Len(queue) - 1
          /\ \A n \in 1..Len(reports') : reports'[n] = queue[n + 1]
      BY <1>2, <1>6, <2>1
    <2>4. /\ progress' \in Seq(Nat) /\ Len(progress') = Len(progress) + 1
          /\ \A n \in 1..Len(progress') : progress'[n] = n
      BY <1>0, <1>4, <1>6, <2>1 DEF Counted
    <2>5. \A n \in 1..Len(reports') : reports'[n] = Len(progress') + n
      BY <1>2, <1>4, <2>3, <2>4
    <2>6. Counted'
      <3>1. reported = Len(progress) + Len(reports)
        BY <1>0 DEF Counted
      <3>2. reported' = Len(progress') + Len(reports')
        <4>1. Len(reports') = Len(queue) - 1 /\ Len(progress') = Len(progress) + 1
          BY <2>3, <2>4
        <4>2. Len(queue) = Len(reports) + i.made /\ i.made \in Nat
          BY <1>1, <1>2
        <4>3. Len(reports) \in Nat /\ Len(progress) \in Nat
          BY <1>4
        <4>4. reported' = (Len(progress) + Len(reports)) + i.made
          BY <1>3, <3>1
        <4>5. \A p, r, m \in Nat : (p + r) + m = (p + 1) + ((r + m) - 1)
          OBVIOUS
        <4>6. reported' = (Len(progress) + 1) + ((Len(reports) + i.made) - 1)
          BY <4>2, <4>3, <4>4, <4>5, Zenon
        <4>7. QED
          BY <4>1, <4>2, <4>6, Zenon
      <3>3. QED
        BY <2>3, <2>4, <2>5, <3>2 DEF Counted
    <2>7. sent' + Len(reports') <= MaxItems
      BY <1>0, <1>1, <1>2, <1>4, <2>2, <2>3
    <2>8. Joined'
      BY <1>1, <1>3, <1>6, <2>2, <2>7 DEF Joined
    <2>9. QED
      BY <2>6, <2>8 DEF InstallInv
  <1>7. CASE /\ ~JoinOver(i, queue) /\ queue = <<>> /\ PollNext(waits)
             /\ phase' = "installing"
             /\ reports' = queue /\ progress' = progress
    <2>1. i.made = 0 /\ reports = <<>> /\ i.state = "awaiting"
      BY <1>0, <1>1, <1>2, <1>4, <1>7 DEF JoinOver, Counted
    <2>2. task' = "waiting" /\ closed' = FALSE /\ sent' = sent
      <3>1. waits.task = "waiting" /\ waits.closed = FALSE /\ waits.yields = FALSE
        BY DEF waits
      <3>2. QED
        BY <1>0, <1>7, <3>1, PollSends
    <2>3. Joined'
      BY <1>1, <1>3, <1>4, <1>7, <2>1, <2>2, <1>0 DEF Joined
    <2>4. Counted'
      BY <1>0, <1>3, <1>4, <1>7, <2>1 DEF Counted
    <2>5. QED
      BY <2>3, <2>4 DEF InstallInv
  <1>8. QED
    BY <1>5, <1>6, <1>7 DEF PollInstall, queue, yields, waits

\* Every step of the installing task is a step of a generator's task, or none.
LEMMA InstallStep ==
  ASSUME InstallInv, [InstallNext]_installVars
  PROVE  [Next]_vars
  <1>1. CASE \E i \in InstallerPolls : PollInstall(i)
    BY <1>1, InstallIsPoll DEF Next
  <1>2. CASE PollOther
    BY <1>2 DEF PollOther, Next
  <1>3. CASE InstallerEvent
    BY <1>3 DEF InstallerEvent, Next
  <1>4. CASE OtherEvent
    BY <1>4 DEF OtherEvent, Next
  <1>5. CASE PolledAnyway \/ Finished
    BY <1>5 DEF Next
  <1>6. CASE UNCHANGED installVars
    BY <1>6 DEF installVars
  <1>7. QED
    BY <1>1, <1>2, <1>3, <1>4, <1>5, <1>6 DEF InstallNext, InstallPoll

\* No step of the installing task leaves the invariant.
LEMMA InstallInvNext ==
  ASSUME InstallInv, GeneratorInv, [InstallNext]_installVars
  PROVE  InstallInv' /\ GeneratorInv'
  <1>1. GeneratorInv' /\ Kept'
    BY InstallStep, GeneratorNext DEF GeneratorInv
  <1>2. CASE \E i \in InstallerPolls : PollInstall(i)
    BY <1>1, <1>2, InstallPolled
  <1>3. ASSUME phase # "installing", UNCHANGED installation
        PROVE  InstallInv'
    <2>1. reports' = <<>> /\ Len(reports') = 0 /\ sent' <= MaxItems /\ sent' \in Nat
      BY <1>1, <1>3, MaxItemsAssumption DEF InstallInv, Joined, installation, Kept
    <2>2. Joined'
      <3>1. sent' + Len(reports') <= MaxItems
        BY <2>1
      <3>2. QED
        BY <1>3, <2>1, <3>1 DEF InstallInv, Joined, installation
    <2>3. Counted'
      BY <1>3 DEF InstallInv, Counted, installation
    <2>4. QED
      BY <1>1, <2>2, <2>3 DEF InstallInv
  <1>4. CASE PollOther \/ OtherEvent
    BY <1>1, <1>3, <1>4 DEF PollOther, OtherEvent
  <1>5. CASE InstallerEvent
    <2>1. /\ phase = "installing" /\ installer = "awaiting" /\ installer' = "ready"
          /\ UNCHANGED <<phase, reports, reported, progress, closed, sent>>
          /\ task' = IF task = "waiting" THEN "ready" ELSE task
      BY <1>5 DEF InstallerEvent, EventHappens, vars
    <2>2. Joined'
      BY <2>1 DEF InstallInv, Joined
    <2>3. Counted'
      BY <2>1 DEF InstallInv, Counted
    <2>4. QED
      BY <1>1, <2>2, <2>3 DEF InstallInv
  <1>6. CASE UNCHANGED <<task, closed, sent, installation>>
    <2>1. Joined' /\ Counted'
      BY <1>6 DEF InstallInv, Joined, Counted, installation
    <2>2. QED
      BY <1>1, <2>1 DEF InstallInv
  <1>7. QED
    BY <1>1, <1>2, <1>4, <1>5, <1>6
    DEF InstallNext, InstallPoll, PolledAnyway, Finished, vars, installVars

\* Both invariants of the installing task.
LEMMA InstallInvariant == InstallSpec => [](InstallInv /\ GeneratorInv)
  <1>1. InstallInit => InstallInv /\ GeneratorInv
    BY InstallInvInit, GeneratorInit DEF InstallInit
  <1>2. InstallInv /\ GeneratorInv /\ [InstallNext]_installVars => (InstallInv /\ GeneratorInv)'
    BY InstallInvNext
  <1>3. QED
    BY <1>1, <1>2, PTL DEF InstallSpec

\* perform_update_check, with an installer and a loop over its reports that
\* wait for each other in one task, is a task as generate() expects it.
THEOREM InstallIsGeneratorTask == InstallSpec => IsGeneratorTask
  <1>1. InstallInit => Init
    BY DEF InstallInit
  <1>2. InstallInv /\ [InstallNext]_installVars => [Next]_vars
    BY InstallStep
  <1>3. QED
    BY <1>1, <1>2, InstallInvariant, PTL DEF InstallSpec, IsGeneratorTask, Spec

\* So its stream, too, is its items in order and then its result.
THEOREM StreamInOrder == InstallSpec => []ItemsThenComplete
  BY InstallInvariant, GeneratorOrder, PTL

\* Observers see every report of the installer, in order and once, before
\* whatever comes after the installation.
THEOREM ProgressIsComplete == InstallSpec => []ProgressComplete
  <1>1. InstallInv => ProgressComplete
    <2> SUFFICES ASSUME InstallInv PROVE ProgressComplete
      OBVIOUS
    <2>1. phase = "after" => Len(progress) = reported
      BY DEF InstallInv, Joined, Counted
    <2>2. QED
      BY <2>1 DEF InstallInv, Counted, ProgressComplete
  <1>2. QED
    BY <1>1, InstallInvariant, PTL
=============================================================================
