--------------------------- MODULE PipelineProofs ---------------------------
(***************************************************************************)
(* Theorems about Pipeline, for any number of requests, relays and         *)
(* workers.                                                                *)
(*                                                                         *)
(* A behaviour of the pipeline is one of each component, so that the       *)
(* components' theorems hold in it.  What remains is how the components    *)
(* agree: BridgeInv relates the outbox to the worker's inbox, what the     *)
(* worker announced to the api's inbox, and both to the tables of the api. *)
(* It holds without any hypothesis, and with it every step is one of       *)
(* UserReports or changes nothing it sees.  With one delivery of each      *)
(* request (OneDelivery) what is shown is also true, and with one api pod  *)
(* as well (SinglePod) every step is one of UserPromise; the findings show *)
(* what fails without them.                                                *)
(***************************************************************************)
EXTENDS Pipeline, TLAPS

BoxP == INSTANCE OutboxProofs WITH published <- requested, pc <- relayPc
WorkP == INSTANCE SerialExecutionProofs WITH
             Messages <- WorkMessages, MaxReceives <- WorkReceives,
             published <- announced, inbox <- workInbox, receives <- workReceives,
             pc <- workPc, current <- workCurrent
TrackP == INSTANCE ProcessTrackingProofs WITH
              Messages <- ApiMessages, MaxReceives <- ApiReceives,
              inbox <- apiInbox, receives <- apiReceives, pc <- apiPc, current <- apiCurrent

-----------------------------------------------------------------------------
(* The components of the pipeline are those the theorems are about. *)

LEMMA SameCardinality ==
    \A S : Box!Cardinality(S) = BoxP!Cardinality(S) /\ Track!Cardinality(S) = TrackP!Cardinality(S)
BY DEF Box!Cardinality, BoxP!Cardinality, Track!Cardinality, TrackP!Cardinality

LEMMA SameBox ==
    /\ Box!Init = BoxP!Init
    /\ \A r \in Requests : Box!Insert(r) = BoxP!Insert(r) /\ Box!Commit(r) = BoxP!Commit(r)
                          /\ Box!Rollback(r) = BoxP!Rollback(r)
    /\ \A x \in Relays :
          /\ Box!PendingEvents(x) = BoxP!PendingEvents(x)
          /\ Box!Publish(x) = BoxP!Publish(x)
          /\ Box!PublishFails(x) = BoxP!PublishFails(x)
          /\ Box!MarkPublished(x) = BoxP!MarkPublished(x)
          /\ Box!MarkFails(x) = BoxP!MarkFails(x)
          /\ Box!Crash(x) = BoxP!Crash(x)
BY SameCardinality DEF Box!Init, BoxP!Init, Box!Insert, BoxP!Insert, Box!Commit, BoxP!Commit,
   Box!Rollback, BoxP!Rollback, Box!PendingEvents, BoxP!PendingEvents, Box!Publish, BoxP!Publish,
   Box!PublishFails, BoxP!PublishFails, Box!MarkPublished, BoxP!MarkPublished, Box!MarkFails,
   BoxP!MarkFails, Box!Crash, BoxP!Crash, Box!Finish, BoxP!Finish, Box!NextRow, BoxP!NextRow,
   Box!FirstOf, BoxP!FirstOf, Box!Unpublished, BoxP!Unpublished, Box!Committed, BoxP!Committed,
   Box!table, BoxP!table, Box!relays, BoxP!relays

LEMMA SameWork ==
    /\ Work!Init = WorkP!Init
    /\ \A m \in WorkMessages : Work!Arrive(m) = WorkP!Arrive(m) /\ Work!Expire(m) = WorkP!Expire(m)
                              /\ Work!DeadLetter(m) = WorkP!DeadLetter(m)
    /\ \A w \in Workers :
          /\ Work!Receive(w) = WorkP!Receive(w)
          /\ Work!FindExecution(w) = WorkP!FindExecution(w)
          /\ Work!SaveRunning(w) = WorkP!SaveRunning(w)
          /\ Work!PublishStarted(w) = WorkP!PublishStarted(w)
          /\ Work!Download(w) = WorkP!Download(w)
          /\ Work!Extract(w) = WorkP!Extract(w)
          /\ Work!Pack(w) = WorkP!Pack(w)
          /\ Work!Upload(w) = WorkP!Upload(w)
          /\ Work!SaveOutcome(w) = WorkP!SaveOutcome(w)
          /\ Work!PublishOutcome(w) = WorkP!PublishOutcome(w)
          /\ Work!WasNotified(w) = WorkP!WasNotified(w)
          /\ Work!Send(w) = WorkP!Send(w)
          /\ Work!MarkNotified(w) = WorkP!MarkNotified(w)
          /\ Work!CallFails(w) = WorkP!CallFails(w)
          /\ Work!Finish(w) = WorkP!Finish(w)
          /\ Work!Crash(w) = WorkP!Crash(w)
          /\ Work!Started(Work!Request(w), exec[w].attempt)
                 = WorkP!Started(WorkP!Request(w), exec[w].attempt)
          /\ Work!Announcement(Work!Request(w), exec[w])
                 = WorkP!Announcement(WorkP!Request(w), exec[w])
BY DEF Work!Init, WorkP!Init, Work!NoExecution, WorkP!NoExecution, Work!Arrive, WorkP!Arrive,
   Work!Expire, WorkP!Expire, Work!DeadLetter, WorkP!DeadLetter, Work!Holds, WorkP!Holds,
   Work!Receive, WorkP!Receive, Work!Continue, WorkP!Continue, Work!FindExecution,
   WorkP!FindExecution, Work!SaveExecution, WorkP!SaveExecution, Work!SaveRunning,
   WorkP!SaveRunning, Work!PublishStarted, WorkP!PublishStarted, Work!Definitive,
   WorkP!Definitive, Work!Ends, WorkP!Ends, Work!Fails, WorkP!Fails, Work!RunStep, WorkP!RunStep,
   Work!Download, WorkP!Download, Work!Extract, WorkP!Extract, Work!Pack, WorkP!Pack,
   Work!Upload, WorkP!Upload, Work!SaveOutcome, WorkP!SaveOutcome, Work!PublishOutcome,
   WorkP!PublishOutcome, Work!WasNotified, WorkP!WasNotified, Work!Send, WorkP!Send,
   Work!MarkNotified, WorkP!MarkNotified, Work!CallFails, WorkP!CallFails, Work!Return,
   WorkP!Return, Work!Release, WorkP!Release, Work!DeleteMessage, WorkP!DeleteMessage,
   Work!RetryMessage, WorkP!RetryMessage, Work!Finish, WorkP!Finish, Work!Crash, WorkP!Crash,
   Work!Request, WorkP!Request, Work!Announcement, WorkP!Announcement, Work!Started,
   WorkP!Started, Work!Final, WorkP!Final, Work!records, WorkP!records, Work!outside,
   WorkP!outside, Work!queue, WorkP!queue, Work!handlers, WorkP!handlers

LEMMA SameTrack ==
    /\ Track!Init = TrackP!Init
    /\ \A m \in ApiMessages : /\ \A ev \in Traffic : Track!Arrive(m, ev) = TrackP!Arrive(m, ev)
                             /\ Track!Expire(m) = TrackP!Expire(m)
                             /\ Track!DeadLetter(m) = TrackP!DeadLetter(m)
    /\ \A c \in Consumers : /\ Track!Receive(c) = TrackP!Receive(c)
                           /\ Track!Handle(c) = TrackP!Handle(c)
                           /\ Track!CallFails(c) = TrackP!CallFails(c)
                           /\ Track!Crash(c) = TrackP!Crash(c)
BY SameCardinality DEF Track!Init, TrackP!Init, Track!NewRow, TrackP!NewRow, Track!Refused,
   TrackP!Refused, Track!NoEvent, TrackP!NoEvent, Track!Arrive, TrackP!Arrive, Track!Expire,
   TrackP!Expire, Track!DeadLetter, TrackP!DeadLetter, Track!Receivable, TrackP!Receivable,
   Track!Receive, TrackP!Receive, Track!Event, TrackP!Event, Track!Return, TrackP!Return,
   Track!Take, TrackP!Take, Track!WasEventProcessed, TrackP!WasEventProcessed, Track!FindRequest,
   TrackP!FindRequest, Track!Commit, TrackP!Commit, Track!ApplyEvent, TrackP!ApplyEvent,
   Track!ApplyFails, TrackP!ApplyFails, Track!DeleteMessage, TrackP!DeleteMessage,
   Track!Handle, TrackP!Handle, Track!CallFails, TrackP!CallFails, Track!Crash, TrackP!Crash,
   Track!Change, TrackP!Change, Track!StartProcessing, TrackP!StartProcessing,
   Track!CompleteProcessing, TrackP!CompleteProcessing, Track!FailProcessing,
   TrackP!FailProcessing, Track!Transition, TrackP!Transition, Track!Larger, TrackP!Larger,
   Track!allowedTransitions, TrackP!allowedTransitions, Track!Status, TrackP!Status,
   Track!TerminalStatus, TrackP!TerminalStatus, Track!tables, TrackP!tables, Track!queue,
   TrackP!queue, Track!handlers, TrackP!handlers

-----------------------------------------------------------------------------
(* A behaviour of the pipeline is one of each component. *)

LEMMA Assumed ==
    /\ BoxP!OutboxAssumption
    /\ WorkP!ExecutionAssumption
    /\ TrackP!TrafficAssumption /\ TrackP!BoundsAssumption
BY PipelineAssumption DEF Work!RunKinds, Work!FaultKinds, WorkP!RunKinds, WorkP!FaultKinds, Traffic,
   TrackP!EventTypes, TrackP!Dispatched

LEMMA BoxSteps == [Next]_vars => [BoxP!Next]_(BoxP!vars)
<1> SUFFICES ASSUME [Next]_vars PROVE BoxP!Next \/ UNCHANGED BoxP!vars
  OBVIOUS
<1>1. ASSUME NEW r \in Requests, Create(r) PROVE BoxP!Next
  BY <1>1, SameBox DEF Create, OnlyBox, BoxP!Next
<1>2. ASSUME NEW x \in Relays, RelayStep(x) \/ RelayPublishes(x) \/ RelayFails(x) PROVE BoxP!Next
  BY <1>2, SameBox DEF RelayStep, OnlyBox, RelayPublishes, RelayFails, BoxP!Next
<1>3. UNCHANGED boxVars => UNCHANGED BoxP!vars
  BY DEF boxVars, BoxP!vars, BoxP!table, BoxP!relays
<1>4. QED
  BY <1>1, <1>2, <1>3 DEF Next, vars, WorkerQueue, OnlyWork, WorkerStep, WorkerPublishes,
     TrackQueue, TrackStep, OnlyTrack

(* The worker's part of a step of it that publishes nothing.               *)
LEMMA WorkerMoves ==
    /\ \A m \in WorkMessages :
          WorkerQueue(m) => (WorkP!Expire(m) \/ WorkP!DeadLetter(m)) /\ UNCHANGED <<boxVars, trackVars>>
    /\ \A w \in Workers :
          WorkerStep(w) =>
              /\ UNCHANGED <<boxVars, trackVars, announced>>
              /\ WorkP!Receive(w) \/ WorkP!Execute(w) \/ WorkP!Finish(w) \/ WorkP!CallFails(w)
                 \/ WorkP!Crash(w)
    /\ \A w \in Workers :
          WorkerPublishes(w) => WorkP!Execute(w) /\ UNCHANGED boxVars
<1>1. ASSUME NEW m \in WorkMessages, WorkerQueue(m)
      PROVE  (WorkP!Expire(m) \/ WorkP!DeadLetter(m)) /\ UNCHANGED <<boxVars, trackVars>>
  BY <1>1, SameWork DEF WorkerQueue, OnlyWork
<1>2. ASSUME NEW w \in Workers, WorkerPublishes(w)
      PROVE  WorkP!Execute(w) /\ UNCHANGED boxVars
  BY <1>2, SameWork DEF WorkerPublishes, WorkP!Execute
<1>3. ASSUME NEW w \in Workers, WorkerStep(w)
      PROVE  /\ UNCHANGED <<boxVars, trackVars>>
             /\ \/ WorkP!Receive(w) \/ WorkP!Finish(w) \/ WorkP!CallFails(w) \/ WorkP!Crash(w)
                \/ WorkP!FindExecution(w) \/ WorkP!SaveRunning(w) \/ WorkP!Download(w)
                \/ WorkP!Extract(w) \/ WorkP!Pack(w) \/ WorkP!Upload(w) \/ WorkP!SaveOutcome(w)
                \/ WorkP!WasNotified(w) \/ WorkP!Send(w) \/ WorkP!MarkNotified(w)
  BY <1>3, SameWork DEF WorkerStep, OnlyWork
<1>4. ASSUME NEW w \in Workers, WorkerStep(w)
      PROVE  UNCHANGED announced
  BY <1>3, <1>4 DEF WorkP!Receive, WorkP!Finish, WorkP!DeleteMessage, WorkP!RetryMessage,
     WorkP!CallFails, WorkP!Crash, WorkP!FindExecution, WorkP!SaveRunning, WorkP!Download,
     WorkP!Extract, WorkP!Pack, WorkP!RunStep, WorkP!Upload, WorkP!SaveOutcome, WorkP!WasNotified,
     WorkP!Send, WorkP!MarkNotified, WorkP!outside
<1>5. QED
  BY <1>1, <1>2, <1>3, <1>4 DEF WorkP!Execute

(* The worker's part of a publication of the relay.                        *)
LEMMA Delivers ==
    ASSUME NEW x \in Relays, RelayPublishes(x) \/ RelayFails(x)
    PROVE  /\ BoxP!Next /\ UNCHANGED <<tx, trackVars>>
           /\ \/ UNCHANGED workVars
              \/ \E m \in WorkMessages : WorkP!Arrive(m) /\ RequestOf[m] \in pending[x]
<1>1. BoxP!Publish(x) \/ BoxP!PublishFails(x)
  BY SameBox DEF RelayPublishes, RelayFails
<1>2. BoxP!Next /\ UNCHANGED tx
  BY <1>1 DEF BoxP!Next, BoxP!Publish, BoxP!PublishFails, BoxP!table
<1>3. Deliver(x) => \E m \in WorkMessages : WorkP!Arrive(m) /\ RequestOf[m] \in pending[x]
  BY SameWork DEF Deliver, Box!NextRow
<1>4. QED
  BY <1>2, <1>3 DEF RelayPublishes, RelayFails

LEMMA WorkSteps == [Next]_vars => [WorkP!Next]_(WorkP!vars)
<1> SUFFICES ASSUME [Next]_vars PROVE WorkP!Next \/ UNCHANGED WorkP!vars
  OBVIOUS
<1>1. UNCHANGED workVars => UNCHANGED WorkP!vars
  BY DEF workVars, WorkP!vars, WorkP!records, WorkP!outside, WorkP!queue, WorkP!handlers
<1>2. ASSUME NEW x \in Relays, RelayPublishes(x) \/ RelayFails(x)
      PROVE  WorkP!Next \/ UNCHANGED workVars
  BY <1>2, Delivers DEF WorkP!Next
<1>3. ASSUME \/ \E m \in WorkMessages : WorkerQueue(m)
             \/ \E w \in Workers : WorkerStep(w) \/ WorkerPublishes(w)
      PROVE  WorkP!Next
  BY <1>3, WorkerMoves DEF WorkP!Next
<1>4. QED
  BY <1>1, <1>2, <1>3 DEF Next, vars, Create, RelayStep, OnlyBox, TrackQueue, TrackStep, OnlyTrack

(* The event a goroutine publishes, and the message that brings it to the  *)
(* api.                                                                    *)
Published(w, ev) ==
    \/ WorkP!PublishStarted(w) /\ ev = WorkP!Started(WorkP!Request(w), exec[w].attempt)
    \/ WorkP!PublishOutcome(w) /\ ev = WorkP!Announcement(WorkP!Request(w), exec[w])

LEMMA PublishedEvent ==
    ASSUME WorkP!ExecutionInv, NEW w \in Workers, WorkerPublishes(w)
    PROVE  \E ev \in WorkP!Events :
               /\ Published(w, ev)
               /\ WorkP!Handles(w, ev.request)
               /\ announced' = announced \cup {ev}
               /\ ev.type = "Completed" => stored[ev.request]
               /\ \E m \in ApiMessages :
                     TrackP!Arrive(m, [event |-> m, type |-> ev.type, request |-> ev.request,
                                       retryable |-> ev.retryable, attempt |-> ev.attempt])
<1>1. PICK ev : Published(w, ev) /\ Notify(ev)
  BY SameWork DEF WorkerPublishes, Published
<1>2. workPc[w] \in {"started", "publish"}
  BY <1>1 DEF Published, WorkP!PublishStarted, WorkP!PublishOutcome, WorkP!Continue
<1>3. WorkP!Handles(w, WorkP!Request(w)) /\ exec[w] \in WorkP!Copies
  BY <1>2, Assumed, WorkP!HandlesOne, WorkP!AtHand DEF WorkP!ExecutionInv
<1>4. ev \in WorkP!Events /\ ev.request = WorkP!Request(w)
  <2>1. WorkP!Request(w) \in Requests
    BY <1>3 DEF WorkP!Handles
  <2>2. CASE ev = WorkP!Started(WorkP!Request(w), exec[w].attempt)
    BY <1>3, <2>1, <2>2 DEF WorkP!Started, WorkP!Events, WorkP!Copies
  <2>3. CASE ev = WorkP!Announcement(WorkP!Request(w), exec[w])
    <3>1. ev \in WorkP!Events
      BY <1>3, <2>1, <2>3, Assumed, WorkP!AnnouncementTyped
    <3>2. ev.request = WorkP!Request(w)
      BY <2>3 DEF WorkP!Announcement
    <3>3. QED
      BY <3>1, <3>2
  <2>4. QED
    BY <1>1, <2>2, <2>3 DEF Published
<1>5. announced' = announced \cup {ev}
  BY <1>1 DEF Published, WorkP!PublishStarted, WorkP!PublishOutcome
<1>6. ASSUME NEW m \in ApiMessages
      PROVE  [event |-> m, type |-> ev.type, request |-> ev.request,
              retryable |-> ev.retryable, attempt |-> ev.attempt] \in Traffic
  BY <1>4 DEF Traffic, WorkP!Events
<1>7. ev.type = "Completed" => stored[ev.request]
  BY <1>1, <1>2, <1>3, <1>4 DEF Published, WorkP!Started, WorkP!Announcement, WorkP!Handles,
     WorkP!ExecutionInv, WorkP!ZipInv, WorkP!CopyHasZip
<1>8. QED
  BY <1>1, <1>3, <1>4, <1>5, <1>6, <1>7, SameTrack DEF Notify

LEMMA TrackSteps == WorkP!ExecutionInv /\ [Next]_vars => [TrackP!Next]_(TrackP!vars)
<1> SUFFICES ASSUME WorkP!ExecutionInv, [Next]_vars PROVE TrackP!Next \/ UNCHANGED TrackP!vars
  OBVIOUS
<1>1. UNCHANGED trackVars => UNCHANGED TrackP!vars
  BY DEF trackVars, TrackP!vars, TrackP!tables, TrackP!queue, TrackP!handlers
<1>2. ASSUME NEW w \in Workers, WorkerPublishes(w) PROVE TrackP!Next
  <2>1. PICK ev \in WorkP!Events, m \in ApiMessages :
            TrackP!Arrive(m, [event |-> m, type |-> ev.type, request |-> ev.request,
                              retryable |-> ev.retryable, attempt |-> ev.attempt])
    BY <1>2, PublishedEvent
  <2>2. [event |-> m, type |-> ev.type, request |-> ev.request,
         retryable |-> ev.retryable, attempt |-> ev.attempt] \in Traffic
    BY DEF Traffic, WorkP!Events
  <2>3. QED
    BY <2>1, <2>2 DEF TrackP!Next
<1>3. ASSUME (\E m \in ApiMessages : TrackQueue(m)) \/ (\E c \in Consumers : TrackStep(c))
      PROVE  TrackP!Next
  BY <1>3, SameTrack DEF TrackQueue, TrackStep, OnlyTrack, TrackP!Next
<1>4. QED
  BY <1>1, <1>2, <1>3 DEF Next, vars, Create, RelayStep, OnlyBox, RelayPublishes, RelayFails,
     WorkerQueue, WorkerStep, OnlyWork

(***************************************************************************)
(* The components' invariants.                                             *)
(***************************************************************************)

ComponentsInv ==
    /\ BoxP!TypeOK
    /\ WorkP!ExecutionInv
    /\ TrackP!TrackInv

LEMMA ComponentSpecs == Spec => BoxP!Spec /\ WorkP!Spec /\ TrackP!Spec
<1>1. Init => BoxP!Init /\ WorkP!Init /\ TrackP!Init
  BY SameBox, SameWork, SameTrack DEF Init
<1>2. Spec => BoxP!Spec /\ WorkP!Spec
  BY <1>1, BoxSteps, WorkSteps, PTL DEF Spec, BoxP!Spec, WorkP!Spec
<1>3. Spec => []WorkP!ExecutionInv
  BY <1>2, Assumed, WorkP!ExecutionInvariant, PTL
<1>4. Spec => TrackP!Spec
  BY <1>1, <1>3, TrackSteps, PTL DEF Spec, TrackP!Spec
<1>5. QED
  BY <1>2, <1>4

(* The theorems about the components hold in the pipeline.                 *)
LEMMA Components == Spec => []ComponentsInv
BY ComponentSpecs, Assumed, BoxP!OutboxTyped, WorkP!ExecutionInvariant, TrackP!TrackInvariant, PTL
   DEF ComponentsInv

(* Types of what the components share. *)
LEMMA ComponentsTyped ==
    ASSUME ComponentsInv
    PROVE  /\ tx \in [Requests -> {"none", "open", "committed"}]
           /\ execution \in [Requests -> WorkP!Copies]
           /\ stored \in [Requests -> BOOLEAN]
           /\ announced \subseteq WorkP!Events
           /\ mails \in [Requests -> [Terminal -> Nat]]
           /\ workInbox \in [WorkMessages -> WorkP!Places]
           /\ request \in [Requests -> TrackP!Rows] /\ result \in [Requests -> TrackP!Results]
           /\ apiInbox \in [ApiMessages -> TrackP!Places] /\ DOMAIN body = ApiMessages
<1>1. BoxP!TypeOK /\ WorkP!TypeInv /\ TrackP!TypeOK
  BY DEF ComponentsInv, WorkP!ExecutionInv, TrackP!TrackInv, TrackP!SettleInv, TrackP!TypeInv
<1>2. QED
  BY <1>1 DEF BoxP!TypeOK, WorkP!TypeInv, WorkP!RecordsTyped, WorkP!OutsideTyped,
     WorkP!QueueTyped, WorkP!Final, Terminal, TrackP!TypeOK

(***************************************************************************)
(* The steps of the pipeline, by the components they move.                 *)
(***************************************************************************)

BoxMoves == UNCHANGED <<workVars, trackVars>>

RelayDelivers ==
    /\ UNCHANGED <<tx, trackVars>>
    /\ \E m \in WorkMessages : WorkP!Arrive(m) /\ RequestOf[m] \in BoxP!Committed

WorkMoves ==
    /\ UNCHANGED <<boxVars, trackVars, announced>>
    /\ \/ \E m \in WorkMessages : WorkP!Expire(m) \/ WorkP!DeadLetter(m)
       \/ \E w \in Workers : WorkP!Receive(w) \/ WorkP!Execute(w) \/ WorkP!Finish(w)
                             \/ WorkP!CallFails(w) \/ WorkP!Crash(w)

Message(m, ev) == [event |-> m, type |-> ev.type, request |-> ev.request,
                   retryable |-> ev.retryable, attempt |-> ev.attempt]

Publishes(w, ev, m) ==
    /\ UNCHANGED <<boxVars, execution, stored, mails>>
    /\ WorkP!Execute(w)
    /\ WorkP!Handles(w, ev.request)
    /\ announced' = announced \cup {ev}
    /\ ev.type = "Completed" => stored[ev.request]
    /\ TrackP!Arrive(m, Message(m, ev))

TrackMoves ==
    /\ UNCHANGED <<boxVars, workVars>>
    /\ \/ \E m \in ApiMessages : TrackP!Expire(m) \/ TrackP!DeadLetter(m)
       \/ \E c \in Consumers : TrackP!Receive(c) \/ TrackP!Handle(c) \/ TrackP!CallFails(c)
                               \/ TrackP!Crash(c)

LEMMA StepKinds ==
    ASSUME ComponentsInv, [Next]_vars
    PROVE  \/ BoxMoves
           \/ RelayDelivers
           \/ WorkMoves
           \/ \E w \in Workers, ev \in WorkP!Events, m \in ApiMessages : Publishes(w, ev, m)
           \/ TrackMoves
<1>1. CASE UNCHANGED vars
  BY <1>1 DEF vars, BoxMoves
<1>2. ASSUME NEW r \in Requests, Create(r)
      PROVE  BoxMoves
  BY <1>2 DEF Create, OnlyBox, BoxMoves
<1>3. ASSUME NEW x \in Relays, RelayStep(x)
      PROVE  BoxMoves
  BY <1>3 DEF RelayStep, OnlyBox, BoxMoves
<1>4. ASSUME NEW x \in Relays, RelayPublishes(x) \/ RelayFails(x)
      PROVE  BoxMoves \/ RelayDelivers
  <2>1. pending[x] \subseteq BoxP!Committed
    BY DEF ComponentsInv, BoxP!TypeOK
  <2>2. /\ UNCHANGED <<tx, trackVars>>
        /\ UNCHANGED workVars \/ \E m \in WorkMessages : WorkP!Arrive(m) /\ RequestOf[m] \in pending[x]
    BY <1>4, Delivers
  <2>3. QED
    BY <2>1, <2>2 DEF BoxMoves, RelayDelivers
<1>5. ASSUME \/ \E m \in WorkMessages : WorkerQueue(m)
             \/ \E w \in Workers : WorkerStep(w)
      PROVE  WorkMoves
  <2>1. CASE \E m \in WorkMessages : WorkerQueue(m)
    <3>1. PICK m \in WorkMessages : WorkerQueue(m)
      BY <2>1
    <3>2. (WorkP!Expire(m) \/ WorkP!DeadLetter(m)) /\ UNCHANGED <<boxVars, trackVars>>
      BY <3>1, WorkerMoves
    <3>3. UNCHANGED announced
      BY <3>2 DEF WorkP!Expire, WorkP!DeadLetter, WorkP!outside
    <3>4. QED
      BY <3>2, <3>3 DEF WorkMoves
  <2>2. CASE \E w \in Workers : WorkerStep(w)
    BY <2>2, WorkerMoves DEF WorkMoves
  <2>3. QED
    BY <1>5, <2>1, <2>2
<1>6. ASSUME NEW w \in Workers, WorkerPublishes(w)
      PROVE  \E ev \in WorkP!Events, m \in ApiMessages : Publishes(w, ev, m)
  <2>1. WorkP!ExecutionInv
    BY DEF ComponentsInv
  <2>2. PICK ev \in WorkP!Events :
            /\ Published(w, ev)
            /\ WorkP!Handles(w, ev.request)
            /\ announced' = announced \cup {ev}
            /\ ev.type = "Completed" => stored[ev.request]
            /\ \E m \in ApiMessages : TrackP!Arrive(m, Message(m, ev))
    BY <1>6, <2>1, PublishedEvent DEF Message
  <2>3. WorkP!Execute(w) /\ UNCHANGED boxVars
    BY <1>6, WorkerMoves
  <2>4. UNCHANGED <<execution, stored, mails>>
    BY <2>2 DEF Published, WorkP!PublishStarted, WorkP!PublishOutcome, WorkP!records
  <2>5. QED
    BY <2>2, <2>3, <2>4 DEF Publishes
<1>7. ASSUME (\E m \in ApiMessages : TrackQueue(m)) \/ (\E c \in Consumers : TrackStep(c))
      PROVE  TrackMoves
  <2>1. UNCHANGED <<boxVars, workVars>>
    BY <1>7 DEF TrackQueue, TrackStep, OnlyTrack
  <2>2. \A m \in ApiMessages : TrackQueue(m) => TrackP!Expire(m) \/ TrackP!DeadLetter(m)
    BY SameTrack DEF TrackQueue, OnlyTrack
  <2>3. \A c \in Consumers : TrackStep(c) =>
            TrackP!Receive(c) \/ TrackP!Handle(c) \/ TrackP!CallFails(c) \/ TrackP!Crash(c)
    BY SameTrack DEF TrackStep, OnlyTrack
  <2>4. QED
    BY <1>7, <2>1, <2>2, <2>3 DEF TrackMoves
<1>8. QED
  BY <1>1, <1>2, <1>3, <1>4, <1>5, <1>6, <1>7 DEF Next

(***************************************************************************)
(* What the components know of each other.                                 *)
(***************************************************************************)

(* The event a message brings, without the id it has as an event.          *)
Carried(m) == [type |-> body[m].type, request |-> body[m].request,
               retryable |-> body[m].retryable, attempt |-> body[m].attempt]

IsOutcome(ev) == ev.type = "Completed" \/ (ev.type = "Failed" /\ ~ ev.retryable)

(* The worker is only asked for, and only speaks of, committed requests.   *)
RequestsCommitted ==
    /\ \A m \in WorkMessages : workInbox[m] # "absent" => RequestOf[m] \in BoxP!Committed
    /\ \A ev \in announced : ev.request \in BoxP!Committed

(* The api's inbox brings what was announced, and all of it.               *)
EventsDelivered ==
    /\ \A m \in ApiMessages :
          apiInbox[m] # "absent" => body[m].event = m /\ Carried(m) \in announced
    /\ \A ev \in announced : \E m \in ApiMessages : apiInbox[m] # "absent" /\ Carried(m) = ev

OnlyArrivedProcessed == \A m \in processed : m \in ApiMessages /\ apiInbox[m] # "absent"

(* An event that ends its request has left a result when it was processed. *)
OutcomesKept == \A m \in processed : IsOutcome(body[m]) => result[body[m].request] # "none"

BridgeInv ==
    /\ RequestsCommitted
    /\ EventsDelivered
    /\ OnlyArrivedProcessed
    /\ OutcomesKept

LEMMA InitBridges == Init => BridgeInv
<1> SUFFICES ASSUME Init PROVE BridgeInv
  OBVIOUS
<1>1. WorkP!Init /\ TrackP!Init
  BY SameWork, SameTrack DEF Init
<1>2. QED
  BY <1>1 DEF WorkP!Init, TrackP!Init, BridgeInv, RequestsCommitted, EventsDelivered,
     OnlyArrivedProcessed, OutcomesKept

LEMMA StepCommitted ==
    ASSUME ComponentsInv, RequestsCommitted, [Next]_vars
    PROVE  RequestsCommitted'
<1>1. BoxP!Committed \subseteq BoxP!Committed'
  BY BoxSteps, Assumed, BoxP!CommittedStays DEF ComponentsInv
<1>2. WorkP!TypeInv
  BY DEF ComponentsInv, WorkP!ExecutionInv
<1> USE DEF RequestsCommitted
<1>3. CASE BoxMoves \/ TrackMoves
  BY <1>1, <1>3 DEF BoxMoves, TrackMoves, workVars
<1>4. CASE RelayDelivers
  <2>1. PICK m \in WorkMessages : WorkP!Arrive(m) /\ RequestOf[m] \in BoxP!Committed
    BY <1>4 DEF RelayDelivers
  <2>2. workInbox' = [workInbox EXCEPT ![m] = "visible"] /\ UNCHANGED announced
    BY <2>1 DEF WorkP!Arrive, WorkP!outside
  <2>3. \A n \in WorkMessages : n # m => workInbox'[n] = workInbox[n]
    BY <1>2, <2>2 DEF WorkP!TypeInv, WorkP!QueueTyped
  <2>4. QED
    BY <1>1, <2>1, <2>2, <2>3
<1>5. CASE WorkMoves
  <2>1. \A m \in WorkMessages : workInbox[m] = "absent" => workInbox'[m] = "absent"
    BY <1>2, <1>5, WorkP!AbsentStays, Assumed DEF WorkMoves
  <2>2. UNCHANGED announced
    BY <1>5 DEF WorkMoves
  <2>3. QED
    BY <1>1, <2>1, <2>2
<1>6. ASSUME NEW w \in Workers, NEW ev \in WorkP!Events, NEW m \in ApiMessages, Publishes(w, ev, m)
      PROVE  RequestsCommitted'
  <2>1. \A n \in WorkMessages : workInbox[n] = "absent" => workInbox'[n] = "absent"
    BY <1>2, <1>6, WorkP!AbsentStays, Assumed DEF Publishes
  <2>2. announced' = announced \cup {ev} /\ ev.request \in BoxP!Committed
    BY <1>6 DEF Publishes, WorkP!Handles
  <2>3. QED
    BY <1>1, <2>1, <2>2
<1>7. QED
  BY <1>3, <1>4, <1>5, <1>6, StepKinds

(* What a publication brings to the api's inbox.                           *)
LEMMA PublishArrives ==
    ASSUME ComponentsInv, NEW w \in Workers, NEW ev \in WorkP!Events, NEW m \in ApiMessages,
           Publishes(w, ev, m)
    PROVE  /\ apiInbox[m] = "absent" /\ apiInbox'[m] = "visible"
           /\ body'[m].event = m /\ Carried(m)' = ev
           /\ \A n \in ApiMessages : n # m => UNCHANGED <<apiInbox[n], body[n]>>
           /\ UNCHANGED <<request, result, processed>>
<1>1. /\ apiInbox[m] = "absent"
      /\ apiInbox' = [apiInbox EXCEPT ![m] = "visible"]
      /\ body' = [body EXCEPT ![m] = Message(m, ev)]
      /\ UNCHANGED <<request, result, processed>>
  BY DEF Publishes, TrackP!Arrive, TrackP!tables
<1>2. apiInbox \in [ApiMessages -> TrackP!Places] /\ DOMAIN body = ApiMessages
  BY ComponentsTyped
<1>3. body'[m] = Message(m, ev) /\ apiInbox'[m] = "visible"
  BY <1>1, <1>2
<1>4. \A n \in ApiMessages : n # m => UNCHANGED <<apiInbox[n], body[n]>>
  BY <1>1, <1>2
<1>5. Carried(m)' = [type |-> ev.type, request |-> ev.request, retryable |-> ev.retryable,
                     attempt |-> ev.attempt]
  BY <1>3 DEF Carried, Message
<1>6. Carried(m)' = ev
  BY <1>5 DEF WorkP!Events
<1>7. body'[m].event = m
  BY <1>3 DEF Message
<1>8. QED
  BY <1>1, <1>3, <1>4, <1>6, <1>7

(* The api neither gets messages by what it does nor touches the worker.   *)
LEMMA TrackKeeps ==
    ASSUME ComponentsInv, TrackMoves
    PROVE  /\ UNCHANGED <<body, announced, execution>>
           /\ \A m \in ApiMessages : apiInbox'[m] = "absent" <=> apiInbox[m] = "absent"
<1>1. TrackP!TypeInv
  BY DEF ComponentsInv, TrackP!TrackInv, TrackP!SettleInv
<1>2. /\ UNCHANGED body
      /\ \A m \in ApiMessages : apiInbox'[m] = "absent" <=> apiInbox[m] = "absent"
  BY <1>1, Assumed, TrackP!ArrivalsStay DEF TrackMoves
<1>3. QED
  BY <1>2 DEF TrackMoves, workVars

(* An event that is applied has arrived; its outcome is shown with its     *)
(* result, or a status is written and the result left, which is there if   *)
(* the status is terminal.                                                 *)
Writes(m, next) ==
    LET r == body[m].request
    IN  /\ m \in ApiMessages /\ apiInbox[m] # "absent" /\ r \in Requests
        /\ request' = [request EXCEPT ![r] = next.row]
        /\ result' = [result EXCEPT ![r] = IF next.result = "none" THEN @ ELSE next.result]
        /\ processed' = processed \cup {m}
        /\ next.row.status \in {"PROCESSING", "COMPLETED", "FAILED"}
        /\ next.result \in {"none", TrackP!ResultOf(next.row.status)}
        /\ next.row.status \in Terminal => next.result # "none" \/ result[r] # "none"
        /\ IsOutcome(body[m]) => next.row.status \in Terminal

LEMMA TrackWrites ==
    ASSUME ComponentsInv, BridgeInv, TrackMoves
    PROVE  \/ UNCHANGED <<request, result, processed>>
           \/ \E m \in ApiMessages, next \in TrackP!Changes : Writes(m, next)
<1>1. CASE ~ \E c \in Consumers : TrackP!ApplyEvent(c)
  <2>1. TrackP!Next
    BY DEF TrackMoves, TrackP!Next
  <2>2. QED
    BY <1>1, <2>1, TrackP!OnlyApplyWrites, Assumed
<1>2. ASSUME NEW c \in Consumers, TrackP!ApplyEvent(c)
      PROVE  \E m \in ApiMessages, next \in TrackP!Changes : Writes(m, next)
  <2>1. PICK m \in ApiMessages, next \in TrackP!Changes :
            LET ev == body[m]
            IN  /\ TrackP!Arrived(m)
                /\ ev.request \in Requests
                /\ request' = [request EXCEPT ![ev.request] = next.row]
                /\ result' = [result EXCEPT ![ev.request] =
                                  IF next.result = "none" THEN @ ELSE next.result]
                /\ processed' = processed \cup {ev.event}
                /\ next.row.status \in {"PROCESSING", "COMPLETED", "FAILED"}
                /\ next.result \in {"none", TrackP!ResultOf(next.row.status)}
                /\ next.row.status \in TrackP!TerminalStatus =>
                       next.result # "none" \/ TrackP!Recorded(ev.request)
                /\ TrackP!Ends(ev) => next.row.status \in TrackP!TerminalStatus
    BY <1>2, TrackP!ApplyWrites, Assumed DEF ComponentsInv
  <2>2. apiInbox[m] # "absent" /\ body[m].event = m
    BY <2>1 DEF TrackP!Arrived, BridgeInv, EventsDelivered
  <2>3. Writes(m, next)
    BY <2>1, <2>2 DEF Writes, IsOutcome, TrackP!Ends, TrackP!Recorded, TrackP!TerminalStatus, Terminal
  <2>4. QED
    BY <2>3
<1>3. QED
  BY <1>1, <1>2

LEMMA StepDelivered ==
    ASSUME ComponentsInv, BridgeInv, [Next]_vars
    PROVE  EventsDelivered' /\ OnlyArrivedProcessed'
<1> USE DEF BridgeInv, EventsDelivered, OnlyArrivedProcessed
<1>1. CASE BoxMoves \/ RelayDelivers \/ WorkMoves
  <2>1. UNCHANGED <<apiInbox, body, processed, announced>>
    BY <1>1 DEF BoxMoves, RelayDelivers, WorkMoves, workVars, trackVars, WorkP!Arrive, WorkP!outside
  <2>2. QED
    BY <2>1 DEF Carried
<1>2. ASSUME NEW w \in Workers, NEW ev \in WorkP!Events, NEW m \in ApiMessages, Publishes(w, ev, m)
      PROVE  EventsDelivered' /\ OnlyArrivedProcessed'
  <2>1. /\ apiInbox[m] = "absent" /\ apiInbox'[m] = "visible"
        /\ body'[m].event = m /\ Carried(m)' = ev
        /\ \A n \in ApiMessages : n # m => UNCHANGED <<apiInbox[n], body[n]>>
        /\ UNCHANGED processed
    BY <1>2, PublishArrives
  <2>2. announced' = announced \cup {ev}
    BY <1>2 DEF Publishes
  <2>3. \A n \in ApiMessages : n # m => Carried(n)' = Carried(n)
    BY <2>1 DEF Carried
  <2>4. QED
    BY <2>1, <2>2, <2>3
<1>3. CASE TrackMoves
  <2>1. UNCHANGED <<body, announced>>
        /\ \A m \in ApiMessages : apiInbox'[m] = "absent" <=> apiInbox[m] = "absent"
    BY <1>3, TrackKeeps
  <2>2. EventsDelivered'
    BY <2>1 DEF Carried
  <2>3. UNCHANGED processed \/ \E m \in ApiMessages : apiInbox[m] # "absent" /\ processed' = processed \cup {m}
    BY <1>3, TrackWrites DEF Writes
  <2>4. OnlyArrivedProcessed'
    BY <2>1, <2>3
  <2>5. QED
    BY <2>2, <2>4
<1>4. QED
  BY <1>1, <1>2, <1>3, StepKinds

(* Messages that arrived bring events of the traffic.                      *)
LEMMA BodyTyped ==
    ASSUME ComponentsInv, BridgeInv, NEW m \in ApiMessages, apiInbox[m] # "absent"
    PROVE  body[m] \in Traffic
BY DEF ComponentsInv, TrackP!TrackInv, TrackP!SettleInv, TrackP!TypeInv, TrackP!Handling

LEMMA StepKept ==
    ASSUME ComponentsInv, BridgeInv, [Next]_vars
    PROVE  OutcomesKept'
<1> USE DEF BridgeInv, OutcomesKept
<1>1. CASE BoxMoves \/ RelayDelivers \/ WorkMoves
  <2>1. UNCHANGED <<body, processed, result>>
    BY <1>1 DEF BoxMoves, RelayDelivers, WorkMoves, trackVars
  <2>2. QED
    BY <2>1
<1>2. ASSUME NEW w \in Workers, NEW ev \in WorkP!Events, NEW m \in ApiMessages, Publishes(w, ev, m)
      PROVE  OutcomesKept'
  <2>1. /\ apiInbox[m] = "absent"
        /\ \A n \in ApiMessages : n # m => UNCHANGED body[n]
        /\ UNCHANGED <<result, processed>>
    BY <1>2, PublishArrives
  <2>2. \A n \in processed : n \in ApiMessages /\ n # m
    BY <2>1 DEF OnlyArrivedProcessed
  <2>3. QED
    BY <2>1, <2>2
<1>3. CASE TrackMoves
  <2>1. UNCHANGED body
    BY <1>3, TrackKeeps
  <2>2. CASE UNCHANGED <<request, result, processed>>
    BY <2>1, <2>2
  <2>3. ASSUME NEW m \in ApiMessages, NEW next \in TrackP!Changes, Writes(m, next),
               NEW n \in processed', IsOutcome(body[n])
        PROVE  result'[body[n].request] # "none"
    <3>1. body[n].request \in Requests
      <4>1. n \in ApiMessages /\ apiInbox[n] # "absent"
        BY <2>3 DEF Writes, OnlyArrivedProcessed
      <4>2. QED
        BY <4>1, BodyTyped DEF Traffic
    <3>2. \A r \in Requests : result[r] # "none" => result'[r] # "none"
      BY <2>3, ComponentsTyped DEF Writes
    <3>3. CASE n \in processed
      BY <2>3, <3>1, <3>2, <3>3
    <3>4. CASE n = m
      <4>1. next.result # "none" \/ result[body[m].request] # "none"
        BY <2>3, <3>4 DEF Writes
      <4>2. result'[body[m].request] # "none"
        BY <2>3, <4>1, ComponentsTyped DEF Writes
      <4>3. QED
        BY <3>4, <4>2
    <3>5. QED
      BY <2>3, <3>3, <3>4 DEF Writes
  <2>4. QED
    BY <1>3, <2>1, <2>2, <2>3, TrackWrites
<1>4. QED
  BY <1>1, <1>2, <1>3, StepKinds

LEMMA Bridge == Spec => [](ComponentsInv /\ BridgeInv)
<1>1. ComponentsInv /\ BridgeInv /\ [Next]_vars => BridgeInv'
  BY StepCommitted, StepDelivered, StepKept DEF BridgeInv
<1>2. QED
  BY <1>1, Components, InitBridges, PTL DEF Spec

(* What arrived at the api of a request: it was asked for, and an outcome  *)
(* was announced.                                                          *)
LEMMA ArrivedIsAnnounced ==
    ASSUME ComponentsInv, BridgeInv, NEW m \in ApiMessages, apiInbox[m] # "absent"
    PROVE  /\ body[m].request \in Requests /\ body[m].request \in BoxP!Committed
           /\ body[m].type = "Completed" => WorkP!Announced(body[m].request, "COMPLETED")
           /\ body[m].type = "Failed" /\ ~ body[m].retryable =>
                  WorkP!Announced(body[m].request, "FAILED")
<1>1. Carried(m) \in announced /\ body[m].request \in Requests
  BY BodyTyped DEF BridgeInv, EventsDelivered, Traffic
<1>2. Carried(m).request = body[m].request /\ Carried(m).type = body[m].type
      /\ Carried(m).retryable = body[m].retryable
  BY DEF Carried
<1>3. QED
  BY <1>1, <1>2 DEF BridgeInv, RequestsCommitted, WorkP!Announced

(* The other way round: the event of an announced outcome is in the inbox, *)
(* or was.                                                                 *)
LEMMA AnnouncedArrives ==
    ASSUME ComponentsInv, BridgeInv, NEW r \in Requests, NEW o \in Terminal, WorkP!Announced(r, o)
    PROVE  \E m \in ApiMessages :
               /\ apiInbox[m] # "absent" /\ body[m].event = m /\ body[m].request = r
               /\ \/ o = "COMPLETED" /\ body[m].type = "Completed"
                  \/ o = "FAILED" /\ body[m].type = "Failed" /\ ~ body[m].retryable
<1>1. PICK ev \in announced :
          /\ ev.request = r
          /\ \/ o = "COMPLETED" /\ ev.type = "Completed"
             \/ o = "FAILED" /\ ev.type = "Failed" /\ ~ ev.retryable
  BY DEF WorkP!Announced
<1>2. PICK m \in ApiMessages : apiInbox[m] # "absent" /\ Carried(m) = ev
  BY DEF BridgeInv, EventsDelivered
<1>3. QED
  BY <1>1, <1>2 DEF Carried, BridgeInv, EventsDelivered

(* A terminal status and a result are those of outcomes that were          *)
(* announced, and a terminal status has a result.                          *)
ShownIsTold ==
    \A r \in Requests :
        /\ request[r].status = "COMPLETED" \/ result[r] = "zip" => WorkP!Announced(r, "COMPLETED")
        /\ request[r].status = "FAILED" \/ result[r] = "reason" => WorkP!Announced(r, "FAILED")
        /\ request[r].status \in Terminal => result[r] # "none"

LEMMA ShownWasTold ==
    ASSUME ComponentsInv, BridgeInv
    PROVE  ShownIsTold
<1> SUFFICES ASSUME NEW r \in Requests
             PROVE  /\ request[r].status = "COMPLETED" \/ result[r] = "zip" =>
                           WorkP!Announced(r, "COMPLETED")
                    /\ request[r].status = "FAILED" \/ result[r] = "reason" =>
                           WorkP!Announced(r, "FAILED")
                    /\ request[r].status \in Terminal => result[r] # "none"
  BY DEF ShownIsTold
<1>1. request[r].status \in Terminal => result[r] # "none"
  BY DEF ComponentsInv, TrackP!TrackInv, TrackP!SettleInv, TrackP!OutcomesRecorded,
     TrackP!Recorded, TrackP!TerminalStatus, Terminal
<1>2. TrackP!Explained(r, request[r], result[r], processed)
  BY DEF ComponentsInv, TrackP!TrackInv, TrackP!ExplainInv, TrackP!StatusIsExplained
<1>3. ASSUME NEW ev \in TrackP!Applied(r, processed)
      PROVE  \E m \in ApiMessages : apiInbox[m] # "absent" /\ body[m] = ev /\ body[m].request = r
  BY <1>3 DEF TrackP!Applied
<1>4. ASSUME request[r].status = "COMPLETED" \/ result[r] = "zip"
      PROVE  WorkP!Announced(r, "COMPLETED")
  <2>1. \E ev \in TrackP!Applied(r, processed) : ev.type = "Completed"
    BY <1>2, <1>4 DEF TrackP!Explained
  <2>2. PICK m \in ApiMessages :
            apiInbox[m] # "absent" /\ body[m].request = r /\ body[m].type = "Completed"
    BY <1>3, <2>1
  <2>3. QED
    BY <2>2, ArrivedIsAnnounced
<1>5. ASSUME request[r].status = "FAILED" \/ result[r] = "reason"
      PROVE  WorkP!Announced(r, "FAILED")
  <2>1. \E ev \in TrackP!Applied(r, processed) : ev.type = "Failed" /\ ~ ev.retryable
    BY <1>2, <1>5 DEF TrackP!Explained
  <2>2. PICK m \in ApiMessages :
            /\ apiInbox[m] # "absent" /\ body[m].request = r
            /\ body[m].type = "Failed" /\ ~ body[m].retryable
    BY <1>3, <2>1
  <2>3. QED
    BY <2>2, ArrivedIsAnnounced
<1>6. QED
  BY <1>1, <1>4, <1>5

(***************************************************************************)
(* The theorems, first those without any hypothesis.                       *)
(***************************************************************************)

LEMMA MailedOrWaiting ==
    ASSUME ComponentsInv, BridgeInv
    PROVE  MailedIsRecorded
<1> SUFFICES ASSUME NEW r \in Requests, NEW o \in Terminal, mails[r][o] > 0
             PROVE  result[r] # "none" \/ Waits(r, o)
  BY DEF MailedIsRecorded
<1>1. WorkP!Announced(r, o)
  BY DEF ComponentsInv, WorkP!ExecutionInv, WorkP!MailedIsAnnounced, WorkP!Final, Terminal
<1>2. PICK m \in ApiMessages :
          /\ apiInbox[m] # "absent" /\ body[m].event = m /\ body[m].request = r
          /\ \/ o = "COMPLETED" /\ body[m].type = "Completed"
             \/ o = "FAILED" /\ body[m].type = "Failed" /\ ~ body[m].retryable
  BY <1>1, AnnouncedArrives
<1>3. CASE apiInbox[m] = "deleted"
  <2>1. TrackP!Tracked(body[m])
    BY <1>2 DEF TrackP!Tracked, TrackP!Dispatched
  <2>2. m \in processed \/ result[r] # "none"
    BY <1>2, <1>3, <2>1 DEF ComponentsInv, TrackP!TrackInv, TrackP!SettleInv,
       TrackP!DeletesAccounted, TrackP!Accounted, TrackP!OutcomeRecorded
  <2>3. m \in processed => result[r] # "none"
    BY <1>2 DEF BridgeInv, OutcomesKept, IsOutcome
  <2>4. QED
    BY <2>2, <2>3
<1>4. CASE apiInbox[m] # "deleted"
  <2>1. apiInbox[m] \in {"visible", "inflight", "dead"}
    BY <1>2, <1>4, ComponentsTyped DEF TrackP!Places
  <2>2. QED
    BY <1>2, <2>1 DEF Waits
<1>5. QED
  BY <1>3, <1>4

(* However many pods run, however often a request is delivered, whichever  *)
(* heartbeats lapse: of no outcome that was mailed is the event lost; it   *)
(* left a result in the api's tables, or waits in its inbox or its DLQ.    *)
THEOREM MailedOutcomesRecorded == Spec => []MailedIsRecorded
BY Bridge, MailedOrWaiting, PTL

(* Nor is any event of the worker applied twice, by however many pods.     *)
THEOREM EventsOnce == Spec => AppliedOnce
<1>1. TrackP!AppliedOnce <=> AppliedOnce
  BY DEF AppliedOnce, TrackP!AppliedOnce, Track!AppliedOnce, TrackP!vars, Track!vars,
         TrackP!tables, Track!tables, TrackP!queue, Track!queue, TrackP!handlers, Track!handlers
<1> QED
  BY <1>1, ComponentSpecs, Assumed, TrackP!EventsAppliedOnce, PTL

(* The state of UserReports and UserPromise that a state of the pipeline   *)
(* stands for.                                                             *)
Asked == {r \in Requests : tx[r] = "committed"}
Told == [r \in Requests |-> {o \in Terminal : Work!Announced(r, o)}]
Zips == {r \in Requests : stored[r]}
Shown == [r \in Requests |-> [status |-> request[r].status, result |-> result[r]]]
Mailed == [r \in Requests |-> {o \in Terminal : mails[r][o] > 0}]

ReportsInv == ComponentsInv /\ BridgeInv /\ ShownIsTold

LEMMA SameAnnounced ==
    \A r \in Requests, o \in Terminal : Work!Announced(r, o) <=> WorkP!Announced(r, o)
BY DEF Work!Announced, WorkP!Announced

LEMMA OneCommits ==
    ASSUME ComponentsInv, [Next]_vars
    PROVE  Asked' = Asked \/ \E r \in Requests : Asked' = Asked \cup {r}
<1>1. tx \in [Requests -> {"none", "open", "committed"}]
  BY DEF ComponentsInv, BoxP!TypeOK
<1>2. BoxP!Next \/ UNCHANGED tx
  BY BoxSteps DEF BoxP!vars, BoxP!table
<1>3. ASSUME NEW r \in Requests, BoxP!Insert(r) \/ BoxP!Rollback(r)
      PROVE  Asked' = Asked
  BY <1>1, <1>3 DEF BoxP!Insert, BoxP!Rollback, Asked
<1>4. ASSUME NEW r \in Requests, BoxP!Commit(r)
      PROVE  Asked' = Asked \cup {r}
  BY <1>1, <1>4 DEF BoxP!Commit, Asked
<1>5. ASSUME NEW x \in Relays,
             BoxP!PendingEvents(x) \/ BoxP!Publish(x) \/ BoxP!PublishFails(x)
             \/ BoxP!MarkPublished(x) \/ BoxP!MarkFails(x) \/ BoxP!Crash(x)
      PROVE  UNCHANGED tx
  BY <1>5 DEF BoxP!PendingEvents, BoxP!Publish, BoxP!PublishFails, BoxP!MarkPublished,
     BoxP!MarkFails, BoxP!Crash, BoxP!table
<1>6. UNCHANGED tx => Asked' = Asked
  BY DEF Asked
<1>7. QED
  BY <1>2, <1>3, <1>4, <1>5, <1>6 DEF BoxP!Next

(* What the worker publishes is told, and the zip of what it announces     *)
(* COMPLETED is there.                                                     *)
LEMMA WorkerTells ==
    ASSUME ReportsInv, NEW w \in Workers, NEW ev \in WorkP!Events, NEW m \in ApiMessages,
           Publishes(w, ev, m)
    PROVE  UNCHANGED <<Asked, Told, Zips, Shown, Mailed>> \/ Reports!Next
<1>1. PICK r \in Requests : r = ev.request
  BY DEF WorkP!Events
<1>2. r \in Asked
  BY <1>1 DEF Publishes, ReportsInv, BridgeInv, RequestsCommitted, WorkP!Handles, BoxP!Committed, Asked
<1>3. UNCHANGED <<Asked, Zips, Shown, Mailed>>
  <2>1. UNCHANGED <<tx, stored, mails, request, result>>
    BY PublishArrives DEF ReportsInv, Publishes, boxVars
  <2>2. QED
    BY <2>1 DEF Asked, Zips, Shown, Mailed
<1>4. ASSUME NEW q \in Requests, NEW o \in Terminal
      PROVE  WorkP!Announced(q, o)' <=>
                 \/ WorkP!Announced(q, o)
                 \/ /\ q = r
                    /\ \/ o = "COMPLETED" /\ ev.type = "Completed"
                       \/ o = "FAILED" /\ ev.type = "Failed" /\ ~ ev.retryable
  BY <1>1 DEF Publishes, WorkP!Announced
<1>5. \A q \in Requests, o \in Terminal : Work!Announced(q, o)' <=> WorkP!Announced(q, o)'
  BY DEF Work!Announced, WorkP!Announced
<1>6. CASE IsOutcome(ev)
  <2>1. PICK o \in Terminal :
            \/ o = "COMPLETED" /\ ev.type = "Completed"
            \/ o = "FAILED" /\ ev.type = "Failed" /\ ~ ev.retryable
    BY <1>6 DEF IsOutcome, Terminal
  <2>2. \A q \in Requests, p \in Terminal :
            Work!Announced(q, p)' <=> Work!Announced(q, p) \/ (q = r /\ p = o)
    BY <1>4, <1>5, <2>1, SameAnnounced
  <2>3. Told' = [Told EXCEPT ![r] = @ \cup {o}]
    BY <2>2 DEF Told
  <2>4. o = "COMPLETED" => r \in Zips
    BY <1>1, <2>1 DEF Publishes, Zips
  <2>5. Reports!Tell(r)
    BY <1>2, <1>3, <2>3, <2>4
       DEF Reports!Tell, Reports!Final, Terminal, Asked, Told, Zips, Shown, Mailed
  <2>6. QED
    BY <2>5 DEF Reports!Next
<1>7. CASE ~ IsOutcome(ev)
  <2>1. \A q \in Requests, p \in Terminal : Work!Announced(q, p)' <=> Work!Announced(q, p)
    BY <1>4, <1>5, <1>7, SameAnnounced DEF IsOutcome
  <2>2. Told' = Told
    BY <2>1 DEF Told
  <2>3. QED
    BY <1>3, <2>2
<1>8. QED
  BY <1>6, <1>7

(* What else the worker does uploads a zip or sends an e-mail, or changes  *)
(* nothing the User has.                                                   *)
LEMMA WorkerReports ==
    ASSUME ReportsInv, [Next]_vars, WorkMoves
    PROVE  UNCHANGED <<Asked, Told, Zips, Shown, Mailed>> \/ Reports!Next
<1>1. UNCHANGED <<Asked, Told, Shown>>
  BY DEF WorkMoves, boxVars, trackVars, Asked, Told, Shown, Work!Announced
<1>2. stored \in [Requests -> BOOLEAN] /\ mails \in [Requests -> [Terminal -> Nat]]
  BY ComponentsTyped DEF ReportsInv
<1>3. \/ UNCHANGED <<stored, mails>>
      \/ \E w \in Workers, r \in Requests :
            /\ WorkP!Handles(w, r)
            /\ WorkP!Uploads(r) \/ \E o \in WorkP!Final : WorkP!Mails(r, o)
  BY WorkSteps, WorkP!StepOutside, Assumed DEF ReportsInv, ComponentsInv
<1>4. CASE UNCHANGED <<stored, mails>>
  BY <1>1, <1>4 DEF Zips, Mailed
<1>5. ASSUME NEW w \in Workers, NEW r \in Requests, WorkP!Handles(w, r), WorkP!Uploads(r)
      PROVE  Reports!Next
  <2>1. r \in Asked
    BY <1>5 DEF ReportsInv, BridgeInv, RequestsCommitted, WorkP!Handles, BoxP!Committed, Asked
  <2>2. Zips' = Zips \cup {r} /\ UNCHANGED Mailed
    BY <1>2, <1>5 DEF WorkP!Uploads, Zips, Mailed
  <2>3. Reports!Pack(r)
    BY <1>1, <2>1, <2>2 DEF Reports!Pack, Asked, Told, Zips, Shown, Mailed
  <2>4. QED
    BY <2>3 DEF Reports!Next
<1>6. ASSUME NEW r \in Requests, NEW o \in WorkP!Final, WorkP!Mails(r, o)
      PROVE  Reports!Next
  <2>1. o \in Terminal /\ UNCHANGED Zips /\ mails' = [mails EXCEPT ![r][o] = @ + 1]
    BY <1>6 DEF WorkP!Mails, WorkP!Final, Terminal, Zips
  <2>2. o \in Told[r]
    BY <1>6, <2>1, SameAnnounced DEF WorkP!Mails, Told
  <2>3. \A p \in Terminal : mails'[r][p] > 0 <=> mails[r][p] > 0 \/ p = o
    BY <1>2, <2>1
  <2>4. \A q \in Requests : q # r => mails'[q] = mails[q]
    BY <1>2, <2>1
  <2>5. Mailed' = [Mailed EXCEPT ![r] = @ \cup {o}]
    BY <2>1, <2>3, <2>4 DEF Mailed
  <2>6. Reports!Mail(r)
    BY <1>1, <2>1, <2>2, <2>5 DEF Reports!Mail, Reports!Final, Terminal, Asked, Told, Zips, Shown, Mailed
  <2>7. QED
    BY <2>6 DEF Reports!Next
<1>7. QED
  BY <1>3, <1>4, <1>5, <1>6

(* An outcome is shown with its result, or a status alone.                 *)
LEMMA ApiReports ==
    ASSUME ReportsInv, ReportsInv', TrackMoves
    PROVE  UNCHANGED <<Asked, Told, Zips, Shown, Mailed>> \/ Reports!Next
<1>1. UNCHANGED <<Asked, Told, Zips, Mailed>>
  BY DEF TrackMoves, boxVars, workVars, Asked, Told, Zips, Mailed, Work!Announced
<1>2. CASE UNCHANGED <<request, result, processed>>
  BY <1>1, <1>2 DEF Shown
<1>3. ASSUME NEW m \in ApiMessages, NEW next \in TrackP!Changes, Writes(m, next)
      PROVE  Reports!Next
  <2>1. PICK r \in Requests : r = body[m].request /\ apiInbox[m] # "absent"
    BY <1>3 DEF Writes
  <2>2. r \in Asked
    BY <2>1, ArrivedIsAnnounced DEF ReportsInv, BoxP!Committed, Asked
  <2>3. PICK s \in {"PROCESSING", "COMPLETED", "FAILED"} : s = next.row.status
    BY <1>3 DEF Writes
  <2>4. /\ request'[r].status = s
        /\ result'[r] = IF next.result = "none" THEN result[r] ELSE next.result
        /\ \A q \in Requests : q # r => request'[q] = request[q] /\ result'[q] = result[q]
    BY <1>3, <2>1, <2>3, ComponentsTyped DEF Writes, ReportsInv
  <2>5. ASSUME s \in Terminal
        PROVE  s \in Told[r]
    <3>1. WorkP!Announced(r, s)'
      BY <2>4, <2>5 DEF ReportsInv, ShownIsTold, Terminal
    <3>2. WorkP!Announced(r, s)
      BY <3>1 DEF TrackMoves, workVars, WorkP!Announced
    <3>3. QED
      BY <2>5, <3>2, SameAnnounced DEF Told
  <2>6. CASE next.result # "none"
    <3>1. s \in Terminal /\ result'[r] = Reports!ResultOf[s]
      BY <1>3, <2>3, <2>4, <2>6 DEF Writes, TrackP!ResultOf, Reports!ResultOf, Terminal
    <3>2. Shown' = [Shown EXCEPT ![r] = [status |-> s, result |-> Reports!ResultOf[s]]]
      BY <2>4, <3>1 DEF Shown
    <3>3. Reports!Conclude(r)
      BY <1>1, <2>5, <3>1, <3>2 DEF Reports!Conclude, Asked, Told, Zips, Shown, Mailed
    <3>4. QED
      BY <3>3 DEF Reports!Next
  <2>7. CASE next.result = "none"
    <3>1. Shown' = [Shown EXCEPT ![r].status = s]
      BY <2>4, <2>7 DEF Shown
    <3>2. s \in {"PROCESSING"} \cup Told[r]
      BY <2>3, <2>5 DEF Terminal
    <3>3. s \in Terminal => Shown[r].result # "none"
      BY <1>3, <2>1, <2>3, <2>7 DEF Writes, Shown
    <3>4. Reports!Report(r)
      BY <1>1, <2>2, <3>1, <3>2, <3>3
         DEF Reports!Report, Reports!Final, Terminal, Asked, Told, Zips, Shown, Mailed
    <3>5. QED
      BY <3>4 DEF Reports!Next
  <2>8. QED
    BY <2>6, <2>7
<1>4. QED
  BY <1>2, <1>3, TrackWrites DEF ReportsInv

(* The outbox and its relay change nothing the User knows of but what was  *)
(* asked.                                                                  *)
LEMMA RelayAsks ==
    ASSUME ComponentsInv, [Next]_vars, BoxMoves \/ RelayDelivers
    PROVE  /\ UNCHANGED <<execution, Told, Zips, Shown, Mailed>>
           /\ Asked' = Asked \/ \E r \in Requests : Asked' = Asked \cup {r}
<1>1. UNCHANGED <<execution, announced, stored, mails, request, result>>
  BY DEF BoxMoves, RelayDelivers, workVars, trackVars, WorkP!Arrive, WorkP!records, WorkP!outside
<1>2. QED
  BY <1>1, OneCommits DEF Told, Work!Announced, Zips, Shown, Mailed

(* Whatever runs twice or at once, the User is told no more than           *)
(* UserReports allows: for any number of requests, relays, goroutines and  *)
(* api pods, every redelivery, lapsed heartbeat, failing call and crash.   *)
THEOREM ReportsHonest == Spec => ReportsHonestly
<1>1. Init => Reports!Init
  <2> SUFFICES ASSUME Init PROVE Reports!Init
    OBVIOUS
  <2>1. /\ tx = [r \in Requests |-> "none"]
        /\ announced = {}
        /\ stored = [r \in Requests |-> FALSE]
        /\ mails = [r \in Requests |-> [o \in WorkP!Final |-> 0]]
        /\ request = [r \in Requests |-> TrackP!NewRow]
        /\ result = [r \in Requests |-> "none"]
    BY SameBox, SameWork, SameTrack DEF Init, BoxP!Init, WorkP!Init, TrackP!Init
  <2>2. Asked = {} /\ Zips = {}
    BY <2>1 DEF Asked, Zips
  <2>3. Told = [r \in Requests |-> {}]
    BY <2>1 DEF Told, Work!Announced
  <2>4. Shown = [r \in Requests |-> [status |-> "PENDING", result |-> "none"]]
    BY <2>1 DEF Shown, TrackP!NewRow
  <2>5. Mailed = [r \in Requests |-> {}]
    BY <2>1 DEF Mailed, WorkP!Final, Terminal
  <2>6. QED
    BY <2>2, <2>3, <2>4, <2>5 DEF Reports!Init, Asked, Told, Zips, Shown, Mailed
<1>2. ReportsInv /\ ReportsInv' /\ [Next]_vars => [Reports!Next]_(Reports!vars)
  <2> SUFFICES ASSUME ReportsInv, ReportsInv', [Next]_vars
               PROVE  Reports!Next \/ UNCHANGED Reports!vars
    OBVIOUS
  <2>1. ASSUME BoxMoves \/ RelayDelivers
        PROVE  UNCHANGED <<Asked, Told, Zips, Shown, Mailed>> \/ Reports!Next
    <3>1. /\ UNCHANGED <<Told, Zips, Shown, Mailed>>
          /\ Asked' = Asked \/ \E r \in Requests : Asked' = Asked \cup {r}
      BY <2>1, RelayAsks DEF ReportsInv
    <3>2. ASSUME NEW r \in Requests, Asked' = Asked \cup {r}
          PROVE  Reports!Ask(r)
      BY <3>1, <3>2 DEF Reports!Ask, Asked, Told, Zips, Shown, Mailed
    <3>3. QED
      BY <3>1, <3>2 DEF Reports!Next
  <2>2. UNCHANGED <<Asked, Told, Zips, Shown, Mailed>> \/ Reports!Next
    BY <2>1, StepKinds, WorkerTells, WorkerReports, ApiReports DEF ReportsInv
  <2>3. QED
    BY <2>2 DEF Reports!vars, Asked, Told, Zips, Shown, Mailed
<1>3. Spec => []ReportsInv
  BY Bridge, ShownWasTold, PTL DEF ReportsInv
<1>4. QED
  BY <1>1, <1>2, <1>3, PTL DEF Spec, ReportsHonestly, Reports!Spec

(***************************************************************************)
(* One delivery of each request.                                           *)
(***************************************************************************)

LEMMA TerminalWasSettled ==
    ASSUME ComponentsInv, BridgeInv, ShownIsTold, WorkP!SerialInv
    PROVE  TerminalIsTrue
<1> SUFFICES ASSUME NEW r \in Requests, request[r].status \in Terminal
             PROVE  /\ execution[r].outcome = request[r].status
                    /\ result[r] = IF request[r].status = "COMPLETED" THEN "zip" ELSE "reason"
                    /\ request[r].status = "COMPLETED" => stored[r]
  BY DEF TerminalIsTrue
<1>1. \A o \in Terminal : WorkP!Announced(r, o) => execution[r].outcome = o
  BY DEF WorkP!SerialInv, WorkP!AgreeInv, WorkP!AnnouncedIsFinal, WorkP!Final, Terminal
<1>2. WorkP!Announced(r, request[r].status)
  BY DEF ShownIsTold, Terminal
<1>3. request[r].status = "COMPLETED" => stored[r]
  BY <1>2 DEF ComponentsInv, WorkP!ExecutionInv, WorkP!ZipInv, WorkP!CompletedHasZip
<1>4. result[r] \in {"zip", "reason"}
  BY ComponentsTyped DEF ShownIsTold, TrackP!Results
<1>5. /\ result[r] = "zip" => execution[r].outcome = "COMPLETED"
      /\ result[r] = "reason" => execution[r].outcome = "FAILED"
  BY <1>1 DEF ShownIsTold, Terminal
<1>6. QED
  BY <1>1, <1>2, <1>3, <1>4, <1>5 DEF Terminal

(* With one delivery of each request and any number of api pods, a status  *)
(* that says the request has ended says how the worker settled it, with    *)
(* its result, and the zip of a COMPLETED one is there.                    *)
THEOREM TerminalsAreTrue ==
    ASSUME WorkP!OneDelivery
    PROVE  Spec => []TerminalIsTrue
<1>1. Spec => []WorkP!SerialInv
  BY ComponentSpecs, Assumed, WorkP!SerialInvariant, PTL
<1>2. QED
  BY <1>1, Bridge, ShownWasTold, TerminalWasSettled, PTL

(***************************************************************************)
(* One delivery of each request and one api pod.                           *)
(***************************************************************************)

OrderlyInv ==
    /\ ComponentsInv /\ BridgeInv
    /\ WorkP!SerialInv
    /\ TrackP!SerialInv
    /\ TerminalIsTrue

LEMMA Orderly ==
    ASSUME WorkP!OneDelivery, TrackP!SinglePod
    PROVE  Spec => []OrderlyInv
<1>1. Spec => []WorkP!SerialInv /\ []TrackP!SerialInv
  BY ComponentSpecs, Assumed, WorkP!SerialInvariant, TrackP!SerialInvariant, PTL
<1>2. QED
  BY <1>1, Bridge, TerminalsAreTrue, PTL DEF OrderlyInv

(* Whoever was mailed an outcome is shown it, or will be when the message  *)
(* that waits in the api's inbox (or in its DLQ) is handled.               *)
THEOREM MailedOutcomesShown ==
    ASSUME WorkP!OneDelivery, TrackP!SinglePod
    PROVE  Spec => []MailedIsShown
<1>1. OrderlyInv /\ MailedIsRecorded => MailedIsShown
  <2> SUFFICES ASSUME OrderlyInv, MailedIsRecorded,
                      NEW r \in Requests, NEW o \in Terminal, mails[r][o] > 0
               PROVE  request[r].status = o \/ Waits(r, o)
    BY DEF MailedIsShown
  <2>1. CASE Waits(r, o)
    BY <2>1
  <2>2. CASE result[r] # "none"
    <3>1. request[r].status \in Terminal
      BY <2>2 DEF OrderlyInv, TrackP!SerialInv, TrackP!ResultMatchesStatus, TrackP!ResultOf, Terminal
    <3>2. request[r].status = execution[r].outcome
      BY <3>1 DEF OrderlyInv, TerminalIsTrue
    <3>3. execution[r].outcome = o
      BY DEF OrderlyInv, WorkP!SerialInv, WorkP!ExecutionInv, WorkP!MailedIsAnnounced,
         WorkP!AgreeInv, WorkP!AnnouncedIsFinal, WorkP!Final, Terminal
    <3>4. QED
      BY <3>2, <3>3
  <2>3. QED
    BY <2>1, <2>2 DEF MailedIsRecorded
<1>2. QED
  BY <1>1, Orderly, MailedOutcomesRecorded, PTL

(* An applied event is one that arrived, and the status becomes what it    *)
(* says, unless it is settled already.                                     *)
Applies(m) ==
    LET r == body[m].request
    IN  /\ m \in ApiMessages /\ apiInbox[m] # "absent" /\ r \in Requests
        /\ processed' = processed \cup {m}
        /\ \A q \in Requests : q # r => request'[q] = request[q] /\ result'[q] = result[q]
        /\ DOMAIN request' = Requests /\ DOMAIN result' = Requests
        /\ \/ request[r].status \in Terminal /\ request'[r] = request[r] /\ result'[r] = result[r]
           \/ /\ request[r].status \notin Terminal
              /\ result'[r] = TrackP!ResultOf(request'[r].status)
              /\ \/ request'[r].status = "PROCESSING" /\ ~ IsOutcome(body[m])
                 \/ request'[r].status = "COMPLETED" /\ body[m].type = "Completed"
                 \/ request'[r].status = "FAILED" /\ body[m].type = "Failed" /\ ~ body[m].retryable

LEMMA TrackApplies ==
    ASSUME OrderlyInv, TrackMoves
    PROVE  UNCHANGED <<request, result, processed>> \/ \E m \in ApiMessages : Applies(m)
<1>1. TrackP!TypeInv /\ TrackP!TypeOK
  BY DEF OrderlyInv, TrackP!SerialInv, TrackP!TypeInv
<1>2. CASE ~ \E c \in Consumers : TrackP!ApplyEvent(c)
  <2>1. TrackP!Next
    BY DEF TrackMoves, TrackP!Next
  <2>2. QED
    BY <1>2, <2>1, TrackP!OnlyApplyWrites, Assumed
<1>3. ASSUME NEW c \in Consumers, TrackP!ApplyEvent(c)
      PROVE  \E m \in ApiMessages : Applies(m)
  <2> DEFINE m == apiCurrent[c]
             ev == body[m]
             r == ev.request
             next == TrackP!Change(request[r], ev)
  <2>1. TrackP!Effect(c) /\ TrackP!Event(c) = ev
    BY <1>3, TrackP!ApplyEffect, Assumed DEF OrderlyInv, TrackP!Event
  <2>2. /\ ev \in Traffic /\ r \in Requests /\ next.ok
        /\ request' = [request EXCEPT ![r] = next.row]
        /\ result' = [result EXCEPT ![r] = IF next.result = "none" THEN @ ELSE next.result]
    BY <2>1 DEF TrackP!Effect
  <2>3. m \in ApiMessages /\ apiInbox[m] # "absent"
    BY <1>1, <1>3 DEF TrackP!TypeInv, TrackP!Handling, TrackP!HandlesArrived, TrackP!Arrived,
       TrackP!ApplyEvent
  <2>4. processed' = processed \cup {m}
    BY <1>3, <2>1, <2>3 DEF TrackP!ApplyEvent, TrackP!Commit, OrderlyInv, BridgeInv, EventsDelivered
  <2>5. request \in [Requests -> TrackP!Rows] /\ result \in [Requests -> TrackP!Results]
    BY <1>1 DEF TrackP!TypeOK
  <2>6. /\ request[r].status \in Terminal => next.row = request[r] /\ next.result = "none"
        /\ request[r].status \notin Terminal =>
               /\ next.result = TrackP!ResultOf(next.row.status)
               /\ \/ next.row.status = "PROCESSING" /\ ~ IsOutcome(ev)
                  \/ next.row.status = "COMPLETED" /\ ev.type = "Completed"
                  \/ next.row.status = "FAILED" /\ ev.type = "Failed" /\ ~ ev.retryable
    BY <2>2, <2>5, TrackP!ChangeFacts, Assumed DEF TrackP!TerminalStatus, Terminal, IsOutcome
  <2>7. TrackP!ResultMatchesStatus
    BY DEF OrderlyInv, TrackP!SerialInv
  <2> HIDE DEF next
  <2>8. request'[r] = next.row /\ \A q \in Requests : q # r => request'[q] = request[q] /\ result'[q] = result[q]
    BY <2>2, <2>5
  <2>9. result'[r] = IF next.result = "none" THEN result[r] ELSE next.result
    BY <2>2, <2>5
  <2>10. request[r].status \notin Terminal => result'[r] = TrackP!ResultOf(request'[r].status)
    <3>1. SUFFICES ASSUME request[r].status \notin Terminal
                   PROVE  result'[r] = TrackP!ResultOf(next.row.status)
      BY <2>8
    <3>2. result[r] = "none"
      BY <2>2, <2>7, <3>1 DEF TrackP!ResultMatchesStatus, TrackP!ResultOf, Terminal
    <3>3. QED
      BY <2>6, <2>9, <3>1, <3>2
  <2>11. DOMAIN request' = Requests /\ DOMAIN result' = Requests
    BY <2>2, <2>5
  <2>12. request[r].status \in Terminal => request'[r] = request[r] /\ result'[r] = result[r]
    BY <2>6, <2>8, <2>9
  <2>13. request[r].status \notin Terminal =>
            \/ request'[r].status = "PROCESSING" /\ ~ IsOutcome(ev)
            \/ request'[r].status = "COMPLETED" /\ ev.type = "Completed"
            \/ request'[r].status = "FAILED" /\ ev.type = "Failed" /\ ~ ev.retryable
    BY <2>6, <2>8
  <2>14. Applies(m)
    BY <2>2, <2>3, <2>4, <2>8, <2>10, <2>11, <2>12, <2>13, Zenon DEF Applies
  <2>15. QED
    BY <2>3, <2>14
<1>4. QED
  BY <1>2, <1>3

(* The outcome of each request, for UserPromise.                           *)
Outcome == [r \in Requests |->
               IF execution[r].outcome \in Terminal THEN execution[r].outcome ELSE "none"]

(* What the worker does to the records of a committed request it settles,  *)
(* packs or mails.                                                         *)
LEMMA WorkerKeepsPromise ==
    ASSUME OrderlyInv, [Next]_vars, WorkMoves
    PROVE  UNCHANGED <<Asked, Outcome, Zips, Shown, Mailed>> \/ Promise!Next
<1>1. UNCHANGED <<Asked, Shown>>
  BY DEF WorkMoves, boxVars, trackVars, Asked, Shown
<1>2. /\ execution \in [Requests -> WorkP!Copies]
      /\ stored \in [Requests -> BOOLEAN]
      /\ mails \in [Requests -> [Terminal -> Nat]]
  BY ComponentsTyped DEF OrderlyInv
<1>3. CASE UNCHANGED <<execution, stored, mails>>
  BY <1>1, <1>3 DEF Outcome, Zips, Mailed
<1>4. ASSUME NEW w \in Workers, NEW r \in Requests, WorkP!Handles(w, r),
             WorkP!Saves(r) \/ WorkP!Stores(r) \/ WorkP!MailsOutcome(r)
      PROVE  UNCHANGED <<Asked, Outcome, Zips, Shown, Mailed>> \/ Promise!Next
  <2>1. r \in Asked
    BY <1>4 DEF OrderlyInv, BridgeInv, RequestsCommitted, WorkP!Handles, BoxP!Committed, Asked
  <2>2. CASE WorkP!Saves(r)
    <3>1. PICK e \in WorkP!Copies : /\ execution' = [execution EXCEPT ![r] = e]
                                    /\ e.outcome = "COMPLETED" => stored[r]
      BY <2>2 DEF WorkP!Saves
    <3>2. Outcome[r] = "none" /\ UNCHANGED <<Zips, Mailed>>
      BY <2>2 DEF WorkP!Saves, WorkP!Final, Terminal, Outcome, Zips, Mailed
    <3>3. CASE e.outcome \in Terminal
      <4>1. Outcome' = [Outcome EXCEPT ![r] = e.outcome]
        BY <1>2, <3>1, <3>3 DEF Outcome
      <4>2. e.outcome = "COMPLETED" => r \in Zips
        BY <3>1 DEF Zips
      <4>3. Promise!Settle(r)
        BY <1>1, <2>1, <3>2, <3>3, <4>1, <4>2
           DEF Promise!Settle, Promise!Final, Terminal, Asked, Outcome, Zips, Shown, Mailed
      <4>4. QED
        BY <4>3 DEF Promise!Next
    <3>4. CASE e.outcome \notin Terminal
      <4>1. Outcome' = Outcome
        BY <1>2, <2>2, <3>1, <3>4 DEF Outcome, WorkP!Saves, WorkP!Final, Terminal
      <4>2. QED
        BY <1>1, <3>2, <4>1
    <3>5. QED
      BY <3>3, <3>4
  <2>3. CASE WorkP!Stores(r)
    <3>1. Zips' = Zips \cup {r}
      BY <1>2, <2>3 DEF WorkP!Stores, Zips
    <3>2. Outcome[r] = "none" /\ UNCHANGED <<Outcome, Mailed>>
      BY <2>3 DEF WorkP!Stores, WorkP!Final, Terminal, Outcome, Mailed
    <3>3. Promise!Pack(r)
      BY <1>1, <2>1, <3>1, <3>2 DEF Promise!Pack, Asked, Outcome, Zips, Shown, Mailed
    <3>4. QED
      BY <3>3 DEF Promise!Next
  <2>4. CASE WorkP!MailsOutcome(r)
    <3> DEFINE o == execution[r].outcome
    <3>1. /\ mails' = [mails EXCEPT ![r][o] = @ + 1]
          /\ o \in Terminal /\ UNCHANGED <<execution, stored>>
      BY <2>4 DEF WorkP!MailsOutcome, WorkP!Final, Terminal
    <3>2. Outcome[r] = o /\ UNCHANGED <<Outcome, Zips>>
      BY <3>1 DEF Outcome, Zips
    <3>3. \A p \in Terminal : mails[r][p] > 0 => p = o
      BY DEF OrderlyInv, WorkP!SerialInv, WorkP!ExecutionInv, WorkP!MailedIsAnnounced,
         WorkP!AgreeInv, WorkP!AnnouncedIsFinal, WorkP!Final, Terminal
    <3>4. \A p \in Terminal : mails'[r][p] > 0 <=> p = o
      BY <1>2, <3>1, <3>3
    <3>5. \A q \in Requests : q # r => mails'[q] = mails[q]
      BY <1>2, <3>1
    <3> HIDE DEF o
    <3>6. Mailed'[r] = {o} /\ \A q \in Requests : q # r => Mailed'[q] = Mailed[q]
      BY <3>1, <3>4, <3>5 DEF Mailed
    <3>7. Mailed' = [Mailed EXCEPT ![r] = {Outcome[r]}]
      BY <3>2, <3>6 DEF Mailed
    <3>8. Outcome[r] # "none"
      BY <3>1, <3>2 DEF Terminal
    <3>9. Promise!Mail(r)
      BY <1>1, <3>2, <3>7, <3>8 DEF Promise!Mail, Asked, Outcome, Zips, Shown, Mailed
    <3>10. QED
      BY <3>9 DEF Promise!Next
  <2>5. QED
    BY <1>4, <2>2, <2>3, <2>4
<1>5. \/ UNCHANGED <<execution, stored, mails>>
      \/ \E w \in Workers, r \in Requests :
            WorkP!Handles(w, r) /\ (WorkP!Saves(r) \/ WorkP!Stores(r) \/ WorkP!MailsOutcome(r))
  BY WorkSteps, WorkP!StepRecords, Assumed DEF OrderlyInv
<1>6. QED
  BY <1>3, <1>4, <1>5

(* What the api shows is what was announced of a committed request. *)
LEMMA ApiKeepsPromise ==
    ASSUME OrderlyInv, TrackMoves
    PROVE  UNCHANGED <<Asked, Outcome, Zips, Shown, Mailed>> \/ Promise!Next
<1>1. UNCHANGED <<Asked, Outcome, Zips, Mailed>>
  BY DEF TrackMoves, boxVars, workVars, Asked, Outcome, Zips, Mailed
<1>2. CASE UNCHANGED <<request, result, processed>>
  BY <1>1, <1>2 DEF Shown
<1>3. ASSUME NEW m \in ApiMessages, Applies(m)
      PROVE  UNCHANGED <<Asked, Outcome, Zips, Shown, Mailed>> \/ Promise!Next
  <2>1. PICK r \in Requests : r = body[m].request /\ apiInbox[m] # "absent"
    BY <1>3 DEF Applies
  <2> DEFINE s == request'[r].status
  <2>2. r \in Asked
    BY <2>1, ArrivedIsAnnounced DEF OrderlyInv, BoxP!Committed, Asked
  <2>3. \A q \in Requests : q # r => Shown'[q] = Shown[q]
    BY <1>3, <2>1 DEF Applies, Shown
  <2>4. CASE request[r].status \in Terminal
    <3>1. Shown'[r] = Shown[r]
      BY <1>3, <2>1, <2>4 DEF Applies, Shown
    <3>2. Shown' = Shown
      BY <2>3, <3>1 DEF Shown
    <3>3. QED
      BY <1>1, <3>2
  <2>5. CASE request[r].status \notin Terminal
    <3>1. /\ result'[r] = TrackP!ResultOf(s)
          /\ \/ s = "PROCESSING"
             \/ s = "COMPLETED" /\ body[m].type = "Completed"
             \/ s = "FAILED" /\ body[m].type = "Failed" /\ ~ body[m].retryable
      BY <1>3, <2>1, <2>5 DEF Applies
    <3>2. s \in {"PROCESSING", Outcome[r]} \ {"none"}
      <4>1. s \in Terminal => WorkP!Announced(r, s)
        BY <2>1, <3>1, ArrivedIsAnnounced DEF OrderlyInv, Terminal
      <4>2. s \in Terminal => execution[r].outcome = s
        BY <4>1 DEF OrderlyInv, WorkP!SerialInv, WorkP!AgreeInv, WorkP!AnnouncedIsFinal,
           WorkP!Final, Terminal
      <4>3. QED
        BY <3>1, <4>2 DEF Outcome, Terminal
    <3>3. result'[r] = Promise!ResultOf[s]
      BY <3>1 DEF TrackP!ResultOf, Promise!ResultOf
    <3> HIDE DEF s
    <3>4. Shown'[r] = Promise!Seen(s)
      BY <2>1, <3>3 DEF Shown, Promise!Seen, s
    <3>5. Shown' = [Shown EXCEPT ![r] = Promise!Seen(s)]
      BY <2>3, <3>4 DEF Shown
    <3>6. Shown[r].status \notin Terminal
      BY <2>1, <2>5 DEF Shown
    <3>7. Promise!Show(r)
      BY <1>1, <2>2, <3>2, <3>5, <3>6
         DEF Promise!Show, Promise!Final, Terminal, Asked, Outcome, Zips, Shown, Mailed
    <3>8. QED
      BY <3>7 DEF Promise!Next
  <2>6. QED
    BY <2>4, <2>5
<1>4. QED
  BY <1>2, <1>3, TrackApplies

(* The services keep the platform's promise: for any number of requests,   *)
(* relays and goroutines, whatever fails and whichever pods die, the       *)
(* User is shown and mailed the one outcome of the request that was asked  *)
(* for.                                                                    *)
THEOREM PromiseKept ==
    ASSUME WorkP!OneDelivery, TrackP!SinglePod
    PROVE  Spec => KeepsPromise
<1>1. Init => Promise!Init
  <2> SUFFICES ASSUME Init PROVE Promise!Init
    OBVIOUS
  <2>1. /\ tx = [r \in Requests |-> "none"]
        /\ execution = [r \in Requests |-> WorkP!NoExecution]
        /\ stored = [r \in Requests |-> FALSE]
        /\ mails = [r \in Requests |-> [o \in WorkP!Final |-> 0]]
        /\ request = [r \in Requests |-> TrackP!NewRow]
        /\ result = [r \in Requests |-> "none"]
    BY SameBox, SameWork, SameTrack DEF Init, BoxP!Init, WorkP!Init, TrackP!Init
  <2>2. Asked = {} /\ Zips = {}
    BY <2>1 DEF Asked, Zips
  <2>3. Outcome = [r \in Requests |-> "none"]
    BY <2>1 DEF Outcome, WorkP!NoExecution, Terminal
  <2>4. Shown = [r \in Requests |-> Promise!Seen("PENDING")]
    BY <2>1 DEF Shown, TrackP!NewRow, Promise!Seen, Promise!ResultOf
  <2>5. Mailed = [r \in Requests |-> {}]
    BY <2>1 DEF Mailed, WorkP!Final, Terminal
  <2>6. QED
    BY <2>2, <2>3, <2>4, <2>5 DEF Promise!Init, Asked, Outcome, Zips, Shown, Mailed
<1>2. OrderlyInv /\ [Next]_vars => [Promise!Next]_(Promise!vars)
  <2> SUFFICES ASSUME OrderlyInv, [Next]_vars
               PROVE  Promise!Next \/ UNCHANGED Promise!vars
    OBVIOUS
  <2>1. ASSUME BoxMoves \/ RelayDelivers
        PROVE  UNCHANGED <<Asked, Outcome, Zips, Shown, Mailed>> \/ Promise!Next
    <3>1. /\ UNCHANGED <<execution, Zips, Shown, Mailed>>
          /\ Asked' = Asked \/ \E r \in Requests : Asked' = Asked \cup {r}
      BY <2>1, RelayAsks DEF OrderlyInv
    <3>2. UNCHANGED Outcome
      BY <3>1 DEF Outcome
    <3>3. ASSUME NEW r \in Requests, Asked' = Asked \cup {r}
          PROVE  Promise!Ask(r)
      BY <3>1, <3>2, <3>3 DEF Promise!Ask, Asked, Outcome, Zips, Shown, Mailed
    <3>4. QED
      BY <3>1, <3>2, <3>3 DEF Promise!Next
  <2>2. ASSUME NEW w \in Workers, NEW ev \in WorkP!Events, NEW m \in ApiMessages, Publishes(w, ev, m)
        PROVE  UNCHANGED <<Asked, Outcome, Zips, Shown, Mailed>>
    BY <2>2, PublishArrives
       DEF OrderlyInv, Publishes, boxVars, Asked, Outcome, Zips, Shown, Mailed
  <2>3. UNCHANGED <<Asked, Outcome, Zips, Shown, Mailed>> \/ Promise!Next
    BY <2>1, <2>2, StepKinds, WorkerKeepsPromise, ApiKeepsPromise DEF OrderlyInv
  <2>4. QED
    BY <2>3 DEF Promise!vars, Asked, Outcome, Zips, Shown, Mailed
<1>3. QED
  BY <1>1, <1>2, Orderly, PTL DEF Spec, KeepsPromise, Promise!Spec
=============================================================================
