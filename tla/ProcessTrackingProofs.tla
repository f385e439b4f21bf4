----------------------- MODULE ProcessTrackingProofs -----------------------
(***************************************************************************)
(* Machine-checked theorems about ProcessTracking, for every set of        *)
(* requests, events, messages and pods.                                    *)
(***************************************************************************)
EXTENDS ProcessTracking, TLAPS

(***************************************************************************)
(* What the change functions return.                                       *)
(***************************************************************************)

(* The result that comes with a status.                                    *)
ResultOf(status) ==
    IF status = "COMPLETED" THEN "zip"
    ELSE IF status = "FAILED" THEN "reason"
    ELSE "none"

(* A change computed from a row of the table is a well-formed change.      *)
LEMMA ChangeType ==
    ASSUME NEW row \in Rows, NEW ev \in Traffic
    PROVE  Change(row, ev) \in Changes
<1>1. ev.attempt \in Nat /\ ev.type \in EventTypes
  BY TrafficAssumption
<1>2. Larger(row.attempts, ev.attempt) \in Nat
  BY <1>1 DEF Rows, Larger
<1>3. Refused \in Changes
  BY DEF Refused, Changes, NewRow, Rows, Status, Results
<1>4. ASSUME NEW to \in Status, NEW n \in Nat, NEW res \in Results
      PROVE  Transition(row, to, n, res) \in Changes
  BY <1>3 DEF Transition, Changes, Rows, Results
<1>5. StartProcessing(row, ev.attempt) \in Changes
  BY <1>2, <1>4 DEF StartProcessing, Changes, Status, Results
<1>6. CompleteProcessing(row) \in Changes
  BY <1>4 DEF CompleteProcessing, Rows, Status, Results
<1>7. FailProcessing(row, ev.retryable, ev.attempt) \in Changes
  BY <1>2, <1>4 DEF FailProcessing, Status, Results
<1>8. QED
  BY <1>1, <1>3, <1>5, <1>6, <1>7 DEF Change, EventTypes, Dispatched

(* The only change that is refused to an event that dispatch accepts is    *)
(* that of a terminal row, and a terminal row never changes.               *)
LEMMA ChangeFacts ==
    ASSUME NEW row \in Rows, NEW ev \in Traffic
    PROVE  LET next == Change(row, ev)
           IN  /\ ~ next.ok /\ ev.type \in Dispatched => row.status \in TerminalStatus
               /\ next.ok => ev.type \in Dispatched
               /\ next.ok /\ row.status \in TerminalStatus =>
                      next.row = row /\ next.result = "none"
               /\ next.ok /\ row.status \notin TerminalStatus =>
                      /\ next.result = ResultOf(next.row.status)
                      /\ \/ /\ next.row.status = "PROCESSING"
                            /\ ev.type \in {"Started", "Failed"}
                            /\ ev.type = "Failed" => ev.retryable
                         \/ /\ next.row.status = "COMPLETED"
                            /\ ev.type = "Completed"
                            /\ next.row.attempts = row.attempts
                         \/ /\ next.row.status = "FAILED"
                            /\ ev.type = "Failed" /\ ~ ev.retryable
                      /\ next.row.attempts \in {row.attempts, ev.attempt}
                      /\ next.row.attempts >= row.attempts
<1>1. ev.attempt \in Nat /\ ev.type \in EventTypes /\ row.attempts \in Nat /\ row.status \in Status
  BY TrafficAssumption DEF Rows
<1>2. CASE ev.type = "Started"
  BY <1>1, <1>2 DEF Change, StartProcessing, Transition, allowedTransitions, Refused, Larger,
       TerminalStatus, Status, ResultOf, Dispatched
<1>3. CASE ev.type = "Completed"
  BY <1>1, <1>3 DEF Change, CompleteProcessing, Transition, allowedTransitions, Refused,
       TerminalStatus, Status, ResultOf, Dispatched
<1>4. CASE ev.type = "Failed"
  BY <1>1, <1>4 DEF Change, FailProcessing, Transition, allowedTransitions, Refused, Larger,
       TerminalStatus, Status, ResultOf, Dispatched
<1>5. CASE ev.type \notin Dispatched
  BY <1>1, <1>5 DEF Change, Refused, Dispatched
<1>6. QED
  BY <1>1, <1>2, <1>3, <1>4, <1>5 DEF Dispatched

(***************************************************************************)
(* Typing.  To type the row that a handler writes one must know that it    *)
(* handles a message that has arrived, whose event is of the traffic, and  *)
(* that it reaches ApplyEvent only with a change of a known request.       *)
(***************************************************************************)

Arrived(m) == m \in Messages /\ inbox[m] # "absent" /\ body[m] \in Traffic

HandlesArrived(c) ==
    /\ \A m \in batch[c] : Arrived(m)
    /\ pc[c] # "idle" => Arrived(current[c])
    /\ pc[c] \in {"check", "find", "apply"} => Event(c).type \in Dispatched
    /\ pc[c] = "apply" => Event(c).request \in Requests /\ change[c].ok

Handling ==
    /\ \A m \in Messages : inbox[m] # "absent" => body[m] \in Traffic
    /\ \A c \in Consumers : HandlesArrived(c)

TypeInv == TypeOK /\ Handling

LEMMA InitTyped == Init => TypeInv
<1>1. NewRow \in Rows /\ Refused \in Changes
  BY DEF NewRow, Rows, Refused, Changes, Status, Results
<1>2. QED
  BY <1>1 DEF Init, TypeInv, TypeOK, Handling, HandlesArrived, Results, Places, Calls

(* Typing is inductive.                                                    *)
LEMMA StepTyped == TypeInv /\ [Next]_vars => TypeInv'
<1> SUFFICES ASSUME TypeInv, [Next]_vars
             PROVE  TypeInv'
  OBVIOUS
<1> USE DEF TypeInv
<1>0. Refused \in Changes
  BY DEF NewRow, Rows, Refused, Changes, Status, Results
<1>1. ASSUME NEW m \in Messages, NEW ev \in Traffic, Arrive(m, ev)
      PROVE  TypeInv'
  BY <1>1 DEF Arrive, TypeOK, Handling, HandlesArrived, Arrived, Event, tables, handlers, Places
<1>2. ASSUME NEW m \in Messages, Expire(m) \/ DeadLetter(m)
      PROVE  TypeInv'
  BY <1>2 DEF Expire, DeadLetter, TypeOK, Handling, HandlesArrived, Arrived, Event, tables,
       handlers, Places
<1>3. ASSUME NEW c \in Consumers, Receive(c)
      PROVE  TypeInv'
  BY <1>3 DEF Receive, Receivable, TypeOK, Handling, HandlesArrived, Arrived, Event, tables, Places
<1>4. ASSUME NEW c \in Consumers, Take(c)
      PROVE  TypeInv'
  <2>1. PICK m \in batch[c] :
            /\ batch' = [batch EXCEPT ![c] = @ \ {m}]
            /\ \/ /\ body[m].type # "BadPayload"
                  /\ current' = [current EXCEPT ![c] = m]
                  /\ pc' = [pc EXCEPT ![c] = IF body[m].type = "Malformed" THEN "delete"
                                            ELSE "check"]
               \/ /\ body[m].type = "BadPayload"
                  /\ UNCHANGED <<pc, current>>
    BY <1>4 DEF Take
  <2>2. UNCHANGED <<request, result, processed, inbox, receives, body, change>> /\ pc[c] = "idle"
    BY <1>4 DEF Take, tables, queue
  <2>3. Arrived(m) /\ body[m].type \in EventTypes
    BY TrafficAssumption DEF Handling, HandlesArrived, Arrived
  <2>4. CASE body[m].type = "BadPayload"
    <3>1. batch' = [batch EXCEPT ![c] = @ \ {m}] /\ UNCHANGED <<pc, current>>
      BY <2>1, <2>4
    <3>2. QED
      BY <3>1, <2>2 DEF TypeOK, Handling, HandlesArrived, Arrived, Event, Calls
  <2>5. CASE body[m].type # "BadPayload"
    <3>1. /\ batch' = [batch EXCEPT ![c] = @ \ {m}]
          /\ current' = [current EXCEPT ![c] = m]
      BY <2>1, <2>5
    <3>2. /\ pc' = [pc EXCEPT ![c] = pc'[c]]
          /\ pc'[c] \in {"delete", "check"}
          /\ pc'[c] = "check" => body[m].type \in Dispatched
      BY <2>1, <2>3, <2>5 DEF TypeOK, EventTypes, Dispatched
    <3>3. QED
      BY <3>1, <3>2, <2>2, <2>3 DEF TypeOK, Handling, HandlesArrived, Arrived, Event, Calls
  <2>6. QED
    BY <2>4, <2>5
<1>5. ASSUME NEW c \in Consumers, WasEventProcessed(c)
      PROVE  TypeInv'
  BY <1>5 DEF WasEventProcessed, TypeOK, Handling, HandlesArrived, Arrived, Event, tables, queue, Calls
<1>6. ASSUME NEW c \in Consumers, FindRequest(c)
      PROVE  TypeInv'
  <2> DEFINE next == Change(request[Event(c).request], Event(c))
  <2>1. Event(c).request \in Requests => next \in Changes
    BY <1>6, ChangeType DEF FindRequest, TypeOK, Handling, HandlesArrived, Arrived, Event
  <2>2. CASE Event(c).request \notin Requests \/ ~ next.ok
    BY <1>6, <2>2 DEF FindRequest, TypeOK, Handling, HandlesArrived, Arrived, Event, tables,
         queue, Calls
  <2>3. CASE Event(c).request \in Requests /\ next.ok
    <3> HIDE DEF next
    <3>1. /\ pc' = [pc EXCEPT ![c] = "apply"]
          /\ change' = [change EXCEPT ![c] = next]
          /\ UNCHANGED <<tables, queue, batch, current>>
      BY <1>6, <2>3 DEF FindRequest, next
    <3>2. QED
      BY <1>6, <3>1, <2>1, <2>3 DEF FindRequest, TypeOK, Handling, HandlesArrived, Arrived,
           Event, tables, queue, Calls
  <2>4. QED
    BY <2>2, <2>3
<1>7. ASSUME NEW c \in Consumers, ApplyEvent(c)
      PROVE  TypeInv'
  <2>1. Event(c) \in Traffic /\ Event(c).request \in Requests /\ change[c] \in Changes
    BY <1>7 DEF ApplyEvent, TypeOK, Handling, HandlesArrived, Arrived, Event
  <2>2. /\ request' \in [Requests -> Rows]
        /\ result' \in [Requests -> Results]
        /\ processed' \subseteq Events
    BY <1>7, <2>1 DEF ApplyEvent, Commit, TypeOK, Changes, Events
  <2>3. QED
    BY <1>0, <1>7, <2>2 DEF ApplyEvent, Return, TypeOK, Handling, HandlesArrived, Arrived, Event,
         queue, Calls
<1>8. ASSUME NEW c \in Consumers, ApplyFails(c) \/ CallFails(c) \/ Crash(c)
      PROVE  TypeInv'
  BY <1>0, <1>8 DEF ApplyFails, CallFails, Crash, Return, TypeOK, Handling, HandlesArrived,
       Arrived, Event, tables, queue, Calls
<1>9. ASSUME NEW c \in Consumers, DeleteMessage(c)
      PROVE  TypeInv'
  BY <1>0, <1>9 DEF DeleteMessage, Return, TypeOK, Handling, HandlesArrived, Arrived, Event,
       tables, Calls, Places
<1>10. CASE UNCHANGED vars
  BY <1>10 DEF vars, tables, queue, handlers, TypeOK, Handling, HandlesArrived, Arrived, Event
<1>11. QED
  BY <1>1, <1>2, <1>3, <1>4, <1>5, <1>6, <1>7, <1>8, <1>9, <1>10 DEF Next, Handle

(* Every variable keeps its type, for any number of pods.                  *)
THEOREM TypeCorrect == Spec => []TypeOK
<1>1. Spec => []TypeInv
  BY InitTyped, StepTyped, PTL DEF Spec
<1>2. QED
  BY <1>1, PTL DEF TypeInv

(***************************************************************************)
(* No event is lost.  A terminal row always has a result, so a refusal     *)
(* (ErrInvalidTransition) proves that an outcome was recorded; results are *)
(* never removed, so this still holds when the message is deleted, however *)
(* stale the row was by then.                                              *)
(***************************************************************************)

Recorded(r) == result[r] # "none"

OutcomesRecorded ==
    /\ \A r \in Requests : request[r].status \in TerminalStatus => Recorded(r)
    /\ \A c \in Consumers :
          pc[c] = "apply" /\ change[c].row.status \in TerminalStatus =>
              change[c].result # "none" \/ Recorded(Event(c).request)

Accounted(ev) == Tracked(ev) => ev.event \in processed \/ OutcomeRecorded(ev)

DeletesAccounted ==
    /\ \A c \in Consumers : pc[c] = "delete" => Accounted(Event(c))
    /\ \A m \in Messages : inbox[m] = "deleted" => Accounted(body[m])

SettleInv == TypeInv /\ OutcomesRecorded /\ DeletesAccounted

(* Steps that leave the three tables alone and start no call of the three  *)
(* that matter keep the invariant; the handlers' steps are taken one by    *)
(* one.                                                                    *)
LEMMA StepSettled == SettleInv /\ [Next]_vars => SettleInv'
<1> SUFFICES ASSUME SettleInv, [Next]_vars
             PROVE  OutcomesRecorded' /\ DeletesAccounted'
  BY StepTyped DEF SettleInv
<1> USE DEF SettleInv, TypeInv
<1>1. ASSUME NEW m \in Messages, NEW ev \in Traffic, Arrive(m, ev)
      PROVE  OutcomesRecorded' /\ DeletesAccounted'
  BY <1>1 DEF Arrive, TypeOK, Handling, HandlesArrived, Arrived, Event, tables, handlers,
       OutcomesRecorded, DeletesAccounted, Accounted, Recorded, Tracked, OutcomeRecorded
<1>2. ASSUME NEW m \in Messages, Expire(m) \/ DeadLetter(m)
      PROVE  OutcomesRecorded' /\ DeletesAccounted'
  BY <1>2 DEF Expire, DeadLetter, TypeOK, Event, tables, handlers,
       OutcomesRecorded, DeletesAccounted, Accounted, Recorded, Tracked, OutcomeRecorded
<1>3. ASSUME NEW c \in Consumers, Receive(c)
      PROVE  OutcomesRecorded' /\ DeletesAccounted'
  BY <1>3 DEF Receive, Receivable, TypeOK, Event, tables,
       OutcomesRecorded, DeletesAccounted, Accounted, Recorded, Tracked, OutcomeRecorded
<1>4. ASSUME NEW c \in Consumers, Take(c)
      PROVE  OutcomesRecorded' /\ DeletesAccounted'
  BY <1>4 DEF Take, TypeOK, Event, tables, queue, Dispatched,
       OutcomesRecorded, DeletesAccounted, Accounted, Recorded, Tracked, OutcomeRecorded
<1>5. ASSUME NEW c \in Consumers, WasEventProcessed(c)
      PROVE  OutcomesRecorded' /\ DeletesAccounted'
  BY <1>5 DEF WasEventProcessed, TypeOK, Event, tables, queue,
       OutcomesRecorded, DeletesAccounted, Accounted, Recorded, Tracked, OutcomeRecorded
<1>6. ASSUME NEW c \in Consumers, FindRequest(c)
      PROVE  OutcomesRecorded' /\ DeletesAccounted'
  <2> DEFINE ev == Event(c)
             next == Change(request[ev.request], ev)
  <2>1. ev \in Traffic
    BY <1>6 DEF FindRequest, Handling, HandlesArrived, Arrived, Event
  <2>2. CASE ev.request \notin Requests
    BY <1>6, <2>2 DEF FindRequest, TypeOK, Event, tables, queue,
         OutcomesRecorded, DeletesAccounted, Accounted, Recorded, Tracked, OutcomeRecorded
  <2>3. CASE ev.request \in Requests /\ ~ next.ok
    <3>1. ev.type \in Dispatched => Recorded(ev.request)
      BY <2>1, <2>3, ChangeFacts DEF TypeOK, OutcomesRecorded
    <3>2. QED
      BY <1>6, <2>3, <3>1 DEF FindRequest, TypeOK, Event, tables, queue,
           OutcomesRecorded, DeletesAccounted, Accounted, Recorded, Tracked, OutcomeRecorded
  <2>4. CASE ev.request \in Requests /\ next.ok
    <3>1. next.row.status \in TerminalStatus => next.result # "none" \/ Recorded(ev.request)
      BY <2>1, <2>4, ChangeFacts DEF TypeOK, OutcomesRecorded, TerminalStatus, ResultOf
    <3>2. /\ pc' = [pc EXCEPT ![c] = "apply"]
          /\ change' = [change EXCEPT ![c] = next]
          /\ UNCHANGED <<tables, queue, batch, current>>
      BY <1>6, <2>4 DEF FindRequest
    <3> HIDE DEF next
    <3>3. QED
      BY <3>1, <3>2 DEF TypeOK, Event, tables, queue,
           OutcomesRecorded, DeletesAccounted, Accounted, Recorded, Tracked, OutcomeRecorded
  <2>5. QED
    BY <2>2, <2>3, <2>4
<1>7. ASSUME NEW c \in Consumers, ApplyEvent(c)
      PROVE  OutcomesRecorded' /\ DeletesAccounted'
  <2> DEFINE ev == Event(c)
  <2>1. ev \in Traffic /\ ev.request \in Requests /\ change[c] \in Changes
    BY <1>7 DEF ApplyEvent, TypeOK, Handling, HandlesArrived, Arrived, Event
  <2>2. /\ \A r \in Requests : result[r] # "none" => result'[r] # "none"
        /\ change[c].result # "none" => result'[ev.request] # "none"
        /\ processed' = processed \cup {ev.event}
        /\ \A r \in Requests : r # ev.request => request'[r] = request[r]
        /\ request'[ev.request] = change[c].row
    BY <1>7, <2>1 DEF ApplyEvent, Commit, TypeOK, Recorded
  <2>3. /\ \A d \in Consumers : pc'[d] = "apply" =>
               pc[d] = "apply" /\ change'[d] = change[d] /\ Event(d)' = Event(d)
        /\ \A d \in Consumers : pc'[d] = "delete" =>
               Event(d)' = Event(d) /\ (pc[d] = "delete" \/ d = c)
    BY <1>7 DEF ApplyEvent, Return, TypeOK, Event, queue
  <2>4. OutcomesRecorded'
    BY <1>7, <2>1, <2>2, <2>3 DEF ApplyEvent, OutcomesRecorded, Recorded, TypeOK, Handling,
         HandlesArrived
  <2>5. DeletesAccounted'
    BY <1>7, <2>1, <2>2, <2>3 DEF ApplyEvent, DeletesAccounted, Accounted, Tracked,
         OutcomeRecorded, Recorded, queue
  <2>6. QED
    BY <2>4, <2>5
<1>8. ASSUME NEW c \in Consumers, ApplyFails(c) \/ CallFails(c) \/ Crash(c)
      PROVE  OutcomesRecorded' /\ DeletesAccounted'
  BY <1>8 DEF ApplyFails, CallFails, Crash, Return, TypeOK, Event, tables, queue,
       OutcomesRecorded, DeletesAccounted, Accounted, Recorded, Tracked, OutcomeRecorded
<1>9. ASSUME NEW c \in Consumers, DeleteMessage(c)
      PROVE  OutcomesRecorded' /\ DeletesAccounted'
  BY <1>9 DEF DeleteMessage, Return, TypeOK, Event, tables,
       OutcomesRecorded, DeletesAccounted, Accounted, Recorded, Tracked, OutcomeRecorded
<1>10. CASE UNCHANGED vars
  BY <1>10 DEF vars, tables, queue, handlers, Event,
       OutcomesRecorded, DeletesAccounted, Accounted, Recorded, Tracked, OutcomeRecorded
<1>11. QED
  BY <1>1, <1>2, <1>3, <1>4, <1>5, <1>6, <1>7, <1>8, <1>9, <1>10 DEF Next, Handle

(* An acknowledged event was applied, or an outcome of its request had     *)
(* been recorded: for any number of pods, crashes and redeliveries.        *)
THEOREM AcknowledgedEventsSettled == Spec => []AcknowledgedIsSettled
<1>1. Init => SettleInv
  BY InitTyped DEF Init, SettleInv, OutcomesRecorded, DeletesAccounted, Accounted, Recorded,
       NewRow, TerminalStatus
<1>2. SettleInv => AcknowledgedIsSettled
  BY DEF SettleInv, DeletesAccounted, Accounted, AcknowledgedIsSettled
<1>3. QED
  BY <1>1, <1>2, StepSettled, PTL DEF Spec

(***************************************************************************)
(* What the User sees is explained by the events that arrived and were     *)
(* processed.  A change waiting to be written is explained by what was     *)
(* processed when its row was read and by its own event; arrived messages  *)
(* keep their events and processed events are never removed, so this stays *)
(* true while other pods commit.                                           *)
(***************************************************************************)

(* The inbox gets and loses no message by what the api and SQS do.         *)
LEMMA ArrivalsStay ==
    ASSUME TypeInv,
           \/ \E n \in Messages : Expire(n) \/ DeadLetter(n)
           \/ \E c \in Consumers : Receive(c) \/ Handle(c) \/ CallFails(c) \/ Crash(c)
    PROVE  /\ UNCHANGED body
           /\ \A m \in Messages : inbox'[m] = "absent" <=> inbox[m] = "absent"
<1> USE DEF TypeInv, TypeOK
<1>1. ASSUME NEW n \in Messages, Expire(n) \/ DeadLetter(n)
      PROVE  /\ UNCHANGED body
             /\ \A m \in Messages : inbox'[m] = "absent" <=> inbox[m] = "absent"
  BY <1>1 DEF Expire, DeadLetter
<1>2. ASSUME NEW c \in Consumers, Receive(c)
      PROVE  /\ UNCHANGED body
             /\ \A m \in Messages : inbox'[m] = "absent" <=> inbox[m] = "absent"
  BY <1>2 DEF Receive, Receivable
<1>3. ASSUME NEW c \in Consumers, DeleteMessage(c)
      PROVE  /\ UNCHANGED body
             /\ \A m \in Messages : inbox'[m] = "absent" <=> inbox[m] = "absent"
  BY <1>3 DEF DeleteMessage
<1>4. ASSUME NEW c \in Consumers, Handle(c) \/ CallFails(c) \/ Crash(c), ~ DeleteMessage(c)
      PROVE  UNCHANGED <<body, inbox>>
  BY <1>4 DEF Handle, Take, WasEventProcessed, FindRequest, ApplyEvent, ApplyFails,
     CallFails, Crash, queue
<1>5. QED
  BY <1>1, <1>2, <1>3, <1>4

(* No step takes a message's event away.                                   *)
LEMMA ArrivedStays ==
    ASSUME TypeInv, [Next]_vars, NEW m \in Messages, inbox[m] # "absent"
    PROVE  inbox'[m] # "absent" /\ body'[m] = body[m]
<1>1. ASSUME NEW n \in Messages, NEW ev \in Traffic, Arrive(n, ev)
      PROVE  inbox'[m] # "absent" /\ body'[m] = body[m]
  BY <1>1 DEF Arrive, TypeInv, TypeOK
<1>2. CASE UNCHANGED vars
  BY <1>2 DEF vars, queue
<1>3. QED
  BY <1>1, <1>2, ArrivalsStay DEF Next

LEMMA AppliedGrows ==
    ASSUME TypeInv, [Next]_vars, NEW r, NEW ids, NEW more, ids \subseteq more
    PROVE  Applied(r, ids) \subseteq Applied(r, more)'
<1> SUFFICES ASSUME NEW m \in Messages, inbox[m] # "absent", body[m].event \in ids, body[m].request = r
             PROVE  body[m] \in Applied(r, more)'
  BY DEF Applied
<1>1. inbox'[m] # "absent" /\ body'[m] = body[m]
  BY ArrivedStays
<1>2. QED
  BY <1>1 DEF Applied

LEMMA ExplainedGrows ==
    ASSUME TypeInv, [Next]_vars, NEW r, NEW row, NEW res, NEW ids, NEW more,
           ids \subseteq more, Explained(r, row, res, ids)
    PROVE  Explained(r, row, res, more)'
<1>1. Applied(r, ids) \subseteq Applied(r, more)'
  BY AppliedGrows
<1>2. QED
  BY <1>1 DEF Explained

(* An event that ends its request, and the status it sets.                 *)
Ends(ev) == ev.type = "Completed" \/ (ev.type = "Failed" /\ ~ ev.retryable)

(* A change that waits to be written: explained, never back to PENDING;    *)
(* its result, if any, is that of its status; and terminal if its event    *)
(* ends the request.                                                       *)
ChangesExplained ==
    \A c \in Consumers : pc[c] = "apply" =>
        LET next == change[c]
        IN  /\ Explained(Event(c).request, next.row, next.result, processed \cup {Event(c).event})
            /\ next.row.status # "PENDING"
            /\ next.result \in {"none", ResultOf(next.row.status)}
            /\ Ends(Event(c)) => next.row.status \in TerminalStatus

ExplainInv == TypeInv /\ StatusIsExplained /\ ChangesExplained

LEMMA ChangeExplained ==
    ASSUME NEW m \in Messages, Arrived(m), NEW ev \in Traffic, ev = body[m], NEW row \in Rows,
           NEW res, NEW ids, Explained(ev.request, row, res, ids), Change(row, ev).ok
    PROVE  LET next == Change(row, ev)
           IN  /\ Explained(ev.request, next.row, next.result, ids \cup {ev.event})
               /\ next.row.status # "PENDING"
               /\ next.result \in {"none", ResultOf(next.row.status)}
               /\ Ends(ev) => next.row.status \in TerminalStatus
<1> DEFINE next == Change(row, ev)
<1>1. /\ Applied(ev.request, ids) \subseteq Applied(ev.request, ids \cup {ev.event})
      /\ ev \in Applied(ev.request, ids \cup {ev.event})
  BY DEF Applied, Arrived
<1>2. CASE row.status \in TerminalStatus
  <2>1. next.row = row /\ next.result = "none"
    BY <1>2, ChangeFacts
  <2> HIDE DEF next
  <2>2. QED
    BY <1>1, <1>2, <2>1 DEF Explained, TerminalStatus, next
<1>3. CASE row.status \notin TerminalStatus
  <2>1. /\ next.result = ResultOf(next.row.status)
        /\ \/ /\ next.row.status = "PROCESSING"
              /\ ev.type \in {"Started", "Failed"}
              /\ ev.type = "Failed" => ev.retryable
           \/ next.row.status = "COMPLETED" /\ ev.type = "Completed"
           \/ next.row.status = "FAILED" /\ ev.type = "Failed" /\ ~ ev.retryable
        /\ next.row.attempts \in {row.attempts, ev.attempt}
    BY <1>3, ChangeFacts
  <2> HIDE DEF next
  <2>2. Explained(ev.request, next.row, next.result, ids \cup {ev.event})
    BY <1>1, <2>1 DEF Explained, ResultOf
  <2>3. QED
    BY <2>1, <2>2 DEF Ends, TerminalStatus, next
<1>4. QED
  BY <1>2, <1>3

LEMMA StepExplained == ExplainInv /\ [Next]_vars => ExplainInv'
<1> SUFFICES ASSUME ExplainInv, [Next]_vars
             PROVE  StatusIsExplained' /\ ChangesExplained'
  BY StepTyped DEF ExplainInv
<1> USE DEF ExplainInv, TypeInv
<1>a. PICK ids : ids = processed'
  OBVIOUS
<1>b. ASSUME NEW r, NEW row, NEW res, Explained(r, row, res, processed), processed \subseteq ids
      PROVE  Explained(r, row, res, processed)'
  <2>1. Explained(r, row, res, ids)'
    BY <1>b, ExplainedGrows
  <2>2. QED
    BY <1>a, <2>1 DEF Explained, Applied
<1>c. ASSUME NEW d \in Consumers, pc[d] = "apply", processed \subseteq ids,
             pc'[d] = "apply", change'[d] = change[d], Event(d)' = Event(d)
      PROVE  Explained(Event(d).request, change[d].row, change[d].result,
                       processed \cup {Event(d).event})'
  <2>1. PICK ev, row, res : ev = Event(d) /\ row = change[d].row /\ res = change[d].result
    OBVIOUS
  <2>2. Explained(ev.request, row, res, processed \cup {ev.event})
    BY <1>c, <2>1 DEF ChangesExplained
  <2>3. Explained(ev.request, row, res, ids \cup {ev.event})'
    BY <1>c, <2>2, ExplainedGrows
  <2>4. QED
    BY <1>a, <1>c, <2>1, <2>3 DEF Explained, Applied
<1>1. ASSUME UNCHANGED <<request, result, processed>>,
             \A d \in Consumers : pc'[d] = "apply" =>
                 pc[d] = "apply" /\ change'[d] = change[d] /\ Event(d)' = Event(d)
      PROVE  StatusIsExplained' /\ ChangesExplained'
  <2>1. ASSUME NEW r \in Requests
        PROVE  Explained(r, request[r], result[r], processed)'
    <3>1. PICK row, res : row = request[r] /\ res = result[r]
      OBVIOUS
    <3>2. Explained(r, row, res, processed)'
      BY <1>1, <1>a, <1>b, <3>1 DEF StatusIsExplained
    <3>3. QED
      BY <1>1, <3>1, <3>2
  <2>2. ChangesExplained'
    BY <1>1, <1>a, <1>c DEF ChangesExplained
  <2>3. QED
    BY <2>1, <2>2 DEF StatusIsExplained
<1>2. ASSUME NEW m \in Messages, NEW ev \in Traffic, Arrive(m, ev)
      PROVE  StatusIsExplained' /\ ChangesExplained'
  BY <1>1, <1>2 DEF Arrive, TypeOK, Handling, HandlesArrived, Arrived, Event, tables, handlers
<1>3. ASSUME NEW m \in Messages, Expire(m) \/ DeadLetter(m)
      PROVE  StatusIsExplained' /\ ChangesExplained'
  BY <1>1, <1>3 DEF Expire, DeadLetter, Event, tables, handlers
<1>4. ASSUME NEW c \in Consumers, Receive(c) \/ Take(c) \/ WasEventProcessed(c)
      PROVE  StatusIsExplained' /\ ChangesExplained'
  BY <1>1, <1>4 DEF Receive, Take, WasEventProcessed, TypeOK, Event, tables, queue
<1>5. ASSUME NEW c \in Consumers, FindRequest(c)
      PROVE  StatusIsExplained' /\ ChangesExplained'
  <2> DEFINE ev == Event(c)
             next == Change(request[ev.request], ev)
  <2>1. CASE ev.request \notin Requests \/ ~ next.ok
    BY <1>1, <1>5, <2>1 DEF FindRequest, TypeOK, Event, tables, queue
  <2>2. CASE ev.request \in Requests /\ next.ok
    <3>1. /\ Explained(ev.request, next.row, next.result, processed \cup {ev.event})
          /\ next.row.status # "PENDING"
          /\ next.result \in {"none", ResultOf(next.row.status)}
          /\ Ends(ev) => next.row.status \in TerminalStatus
      BY <1>5, <2>2, ChangeExplained DEF FindRequest, TypeOK, StatusIsExplained, Handling,
         HandlesArrived, Arrived, Event
    <3>2. /\ pc' = [pc EXCEPT ![c] = "apply"]
          /\ change' = [change EXCEPT ![c] = next]
          /\ UNCHANGED <<tables, queue, batch, current>>
      BY <1>5, <2>2 DEF FindRequest
    <3> HIDE DEF next
    <3>3. StatusIsExplained'
      BY <3>2 DEF StatusIsExplained, Explained, Applied, tables, queue
    <3>4. ASSUME NEW d \in Consumers, pc'[d] = "apply"
          PROVE  /\ Explained(Event(d).request, change[d].row, change[d].result,
                              processed \cup {Event(d).event})'
                 /\ change'[d].row.status # "PENDING"
                 /\ change'[d].result \in {"none", ResultOf(change'[d].row.status)}
                 /\ Ends(Event(d)') => change'[d].row.status \in TerminalStatus
      <4>1. CASE d = c
        <5>1. change'[d] = next /\ Event(d)' = ev
          BY <3>2, <4>1 DEF TypeOK, Event, queue
        <5>2. QED
          BY <3>1, <3>2, <5>1 DEF Explained, Applied, tables, queue
      <4>2. CASE d # c
        <5>1. pc[d] = "apply" /\ change'[d] = change[d] /\ Event(d)' = Event(d)
          BY <3>2, <3>4, <4>2 DEF TypeOK, Event, queue
        <5>2. QED
          BY <1>a, <1>c, <3>2, <3>4, <5>1 DEF ChangesExplained, tables
      <4>3. QED
        BY <4>1, <4>2
    <3>5. QED
      BY <3>3, <3>4 DEF ChangesExplained
  <2>3. QED
    BY <2>1, <2>2
<1>6. ASSUME NEW c \in Consumers, ApplyEvent(c)
      PROVE  StatusIsExplained' /\ ChangesExplained'
  <2>1. PICK ev, next : ev = Event(c) /\ next = change[c]
    OBVIOUS
  <2>2. ev \in Traffic /\ ev.request \in Requests
    BY <1>6, <2>1 DEF ApplyEvent, Handling, HandlesArrived, Arrived, Event
  <2>3. /\ request' = [request EXCEPT ![ev.request] = next.row]
        /\ result' = [result EXCEPT ![ev.request] = IF next.result = "none" THEN @ ELSE next.result]
        /\ ids = processed \cup {ev.event}
    BY <1>6, <1>a, <2>1 DEF ApplyEvent, Commit
  <2>4. \A d \in Consumers : pc'[d] = "apply" =>
            pc[d] = "apply" /\ change'[d] = change[d] /\ Event(d)' = Event(d)
    BY <1>6 DEF ApplyEvent, Return, TypeOK, Event, queue
  <2>5. Explained(ev.request, next.row, next.result, ids)'
    <3>1. Explained(ev.request, next.row, next.result, processed \cup {ev.event})
      BY <1>6, <2>1 DEF ApplyEvent, ChangesExplained
    <3>2. QED
      BY <2>3, <3>1, ExplainedGrows
  <2>6. ASSUME NEW r \in Requests
        PROVE  Explained(r, request[r], result[r], processed)'
    <3>1. PICK row, res, row1, res1 : /\ row = request[r] /\ res = result[r]
                                      /\ row1 = request'[r] /\ res1 = result'[r]
      OBVIOUS
    <3>2. Explained(r, row, res, ids)'
      BY <2>3, <3>1, ExplainedGrows DEF StatusIsExplained
    <3>3. CASE r = ev.request
      <4>1. row1 = next.row /\ res1 \in {res, next.result}
        BY <2>3, <3>1, <3>3 DEF TypeOK
      <4>2. Explained(r, row1, res1, ids)'
        BY <2>5, <3>2, <3>3, <4>1 DEF Explained
      <4>3. QED
        BY <1>a, <3>1, <4>2 DEF Explained, Applied
    <3>4. CASE r # ev.request
      <4>1. row1 = row /\ res1 = res
        BY <2>3, <3>1, <3>4 DEF TypeOK
      <4>2. QED
        BY <1>a, <3>1, <3>2, <4>1 DEF Explained, Applied
    <3>5. QED
      BY <3>3, <3>4
  <2>7. ChangesExplained'
    BY <1>c, <2>3, <2>4 DEF ChangesExplained
  <2>8. QED
    BY <2>6, <2>7 DEF StatusIsExplained
<1>7. ASSUME NEW c \in Consumers,
             ApplyFails(c) \/ CallFails(c) \/ Crash(c) \/ DeleteMessage(c)
      PROVE  StatusIsExplained' /\ ChangesExplained'
  BY <1>1, <1>7 DEF ApplyFails, CallFails, Crash, DeleteMessage, Return, TypeOK, Event,
       tables, queue
<1>8. CASE UNCHANGED vars
  BY <1>1, <1>8 DEF vars, tables, queue, handlers, Event
<1>9. QED
  BY <1>2, <1>3, <1>4, <1>5, <1>6, <1>7, <1>8 DEF Next, Handle

(* Status, attempts and result a User sees are backed by processed events, *)
(* for any number of pods.                                                 *)
THEOREM StatusExplained == Spec => []StatusIsExplained
<1>1. Init => ExplainInv
  BY InitTyped DEF Init, ExplainInv, StatusIsExplained, ChangesExplained, Explained, NewRow
<1>2. ExplainInv => StatusIsExplained
  BY DEF ExplainInv
<1>3. QED
  BY <1>1, <1>2, StepExplained, PTL DEF Spec

(* What holds however many pods there are.                                 *)
TrackInv == SettleInv /\ ExplainInv

LEMMA TrackInvariant == Spec => []TrackInv
<1>1. Init => TrackInv
  BY InitTyped DEF Init, TrackInv, SettleInv, OutcomesRecorded, DeletesAccounted, Accounted,
     Recorded, NewRow, TerminalStatus, ExplainInv, StatusIsExplained, ChangesExplained, Explained
<1>2. TrackInv /\ [Next]_vars => TrackInv'
  BY StepSettled, StepExplained DEF TrackInv
<1>3. QED
  BY <1>1, <1>2, PTL DEF Spec

(* What an event that is applied does to the tables, whatever happened     *)
(* since its row was read: it shows its outcome and its result, or it      *)
(* writes a status and leaves the result, which is there if the status is  *)
(* terminal.                                                               *)
LEMMA ApplyWrites ==
    ASSUME TrackInv, NEW c \in Consumers, ApplyEvent(c)
    PROVE  \E m \in Messages, next \in Changes :
               LET ev == body[m]
               IN  /\ Arrived(m)
                   /\ ev.request \in Requests
                   /\ request' = [request EXCEPT ![ev.request] = next.row]
                   /\ result' = [result EXCEPT ![ev.request] =
                                     IF next.result = "none" THEN @ ELSE next.result]
                   /\ processed' = processed \cup {ev.event}
                   /\ next.row.status \in {"PROCESSING", "COMPLETED", "FAILED"}
                   /\ next.result \in {"none", ResultOf(next.row.status)}
                   /\ next.row.status \in TerminalStatus =>
                          next.result # "none" \/ Recorded(ev.request)
                   /\ Ends(ev) => next.row.status \in TerminalStatus
<1> USE DEF TrackInv, SettleInv, ExplainInv, TypeInv
<1>1. Arrived(current[c]) /\ Event(c).request \in Requests /\ change[c] \in Changes
  BY DEF ApplyEvent, TypeOK, Handling, HandlesArrived
<1>2. /\ change[c].row.status \in {"PROCESSING", "COMPLETED", "FAILED"}
      /\ change[c].result \in {"none", ResultOf(change[c].row.status)}
      /\ Ends(Event(c)) => change[c].row.status \in TerminalStatus
  BY <1>1 DEF ApplyEvent, ChangesExplained, Changes, Rows, Status
<1>3. change[c].row.status \in TerminalStatus =>
          change[c].result # "none" \/ Recorded(Event(c).request)
  BY DEF ApplyEvent, OutcomesRecorded
<1>4. QED
  BY <1>1, <1>2, <1>3 DEF ApplyEvent, Commit, Event, Arrived

(***************************************************************************)
(* One pod.  What follows is false with two (run tracking_pair_terminal):  *)
(* only when no other consumer writes between FindRequest and ApplyEvent   *)
(* is the change about to be written the change of the row in the table.   *)
(***************************************************************************)

SinglePod == \A c, d \in Consumers : c = d

ResultMatchesStatus == \A r \in Requests : result[r] = ResultOf(request[r].status)

ChangesCurrent ==
    \A c \in Consumers : pc[c] = "apply" =>
        change[c] = Change(request[Event(c).request], Event(c))

SerialInv == TypeInv /\ ResultMatchesStatus /\ ChangesCurrent

(* What an applied event does to the tables when its change is current.    *)
Effect(c) ==
    LET ev == Event(c)
        next == Change(request[ev.request], ev)
    IN  /\ ev \in Traffic
        /\ ev.request \in Requests
        /\ next.ok
        /\ request' = [request EXCEPT ![ev.request] = next.row]
        /\ result' = [result EXCEPT ![ev.request] = IF next.result = "none" THEN @
                                                    ELSE next.result]

LEMMA ApplyEffect ==
    ASSUME SerialInv, NEW c \in Consumers, ApplyEvent(c)
    PROVE  Effect(c)
BY DEF SerialInv, TypeInv, ChangesCurrent, ApplyEvent, Commit, Effect, Handling, HandlesArrived,
       Arrived, Event

(* Only ApplyEvent writes the tables.                                      *)
LEMMA OnlyApplyWrites ==
    ASSUME [Next]_vars
    PROVE  (\E c \in Consumers : ApplyEvent(c)) \/ UNCHANGED <<request, result, processed>>
BY DEF Next, Handle, Arrive, Expire, DeadLetter, Receive, Take, WasEventProcessed, FindRequest,
       ApplyFails, CallFails, DeleteMessage, Crash, vars, tables

(* However many pods have read the same event as new, one of them applies  *)
(* it: no row changes without an event that is recorded for the first time. *)
THEOREM EventsAppliedOnce == Spec => AppliedOnce
<1> DEFINE Fresh ==
      \A r \in Requests :
          request'[r] # request[r] \/ result'[r] # result[r] =>
              \E m \in Messages : /\ body[m].request = r
                                  /\ body[m].event \in processed' \ processed
<1>1. ASSUME TypeInv, [Next]_vars PROVE [Fresh]_vars
  <2>1. CASE UNCHANGED <<request, result, processed>>
    BY <2>1
  <2>2. ASSUME NEW c \in Consumers, ApplyEvent(c) PROVE Fresh
    <3>1. current[c] \in Messages /\ body[current[c]] = Event(c)
      BY <1>1, <2>2 DEF ApplyEvent, TypeInv, TypeOK, Handling, HandlesArrived, Arrived, Event
    <3>2. Event(c).event \in processed' \ processed
      BY <2>2 DEF ApplyEvent, Commit
    <3>3. \A r \in Requests \ {Event(c).request} :
             request'[r] = request[r] /\ result'[r] = result[r]
      BY <1>1, <2>2 DEF ApplyEvent, Commit, TypeInv, TypeOK
    <3> QED
      BY <3>1, <3>2, <3>3
  <2> QED
    BY <1>1, <2>1, <2>2, OnlyApplyWrites
<1>2. Spec => []TypeInv
  BY InitTyped, StepTyped, PTL DEF Spec
<1> QED
  BY <1>1, <1>2, PTL DEF Spec, AppliedOnce

LEMMA StepSerial ==
    ASSUME SinglePod
    PROVE  SerialInv /\ [Next]_vars => SerialInv'
<1> SUFFICES ASSUME SerialInv, [Next]_vars
             PROVE  ResultMatchesStatus' /\ ChangesCurrent'
  BY StepTyped DEF SerialInv
<1> USE DEF SerialInv, TypeInv
<1>1. ASSUME UNCHANGED <<request, result>>,
             \A d \in Consumers : pc'[d] = "apply" =>
                 pc[d] = "apply" /\ change'[d] = change[d] /\ Event(d)' = Event(d)
      PROVE  ResultMatchesStatus' /\ ChangesCurrent'
  BY <1>1 DEF ResultMatchesStatus, ChangesCurrent
<1>2. ASSUME NEW m \in Messages, NEW ev \in Traffic, Arrive(m, ev)
      PROVE  ResultMatchesStatus' /\ ChangesCurrent'
  BY <1>1, <1>2 DEF Arrive, TypeOK, Handling, HandlesArrived, Arrived, Event, tables, handlers
<1>3. ASSUME NEW m \in Messages, Expire(m) \/ DeadLetter(m)
      PROVE  ResultMatchesStatus' /\ ChangesCurrent'
  BY <1>1, <1>3 DEF Expire, DeadLetter, Event, tables, handlers
<1>4. ASSUME NEW c \in Consumers, Receive(c) \/ Take(c) \/ WasEventProcessed(c)
      PROVE  ResultMatchesStatus' /\ ChangesCurrent'
  BY <1>1, <1>4 DEF Receive, Take, WasEventProcessed, TypeOK, Event, tables, queue
<1>5. ASSUME NEW c \in Consumers, FindRequest(c)
      PROVE  ResultMatchesStatus' /\ ChangesCurrent'
  <2> DEFINE ev == Event(c)
             next == Change(request[ev.request], ev)
  <2>1. CASE ev.request \notin Requests \/ ~ next.ok
    BY <1>1, <1>5, <2>1 DEF FindRequest, TypeOK, Event, tables, queue
  <2>2. CASE ev.request \in Requests /\ next.ok
    <3>1. /\ pc' = [pc EXCEPT ![c] = "apply"]
          /\ change' = [change EXCEPT ![c] = next]
          /\ UNCHANGED <<tables, queue, batch, current>>
      BY <1>5, <2>2 DEF FindRequest
    <3>2. Event(c)' = ev /\ request' = request /\ result' = result
      BY <3>1 DEF Event, tables, queue
    <3>3. ResultMatchesStatus'
      BY <3>2 DEF ResultMatchesStatus
    <3>4. ASSUME NEW d \in Consumers
          PROVE  change'[d] = Change(request'[Event(d)'.request], Event(d)')
      <4>1. d = c
        BY SinglePod DEF SinglePod
      <4>2. change'[c] = next
        BY <3>1 DEF TypeOK
      <4>3. QED
        BY <3>2, <4>1, <4>2
    <3>5. QED
      BY <3>3, <3>4 DEF ChangesCurrent
  <2>3. QED
    BY <2>1, <2>2
<1>6. ASSUME NEW c \in Consumers, ApplyEvent(c)
      PROVE  ResultMatchesStatus' /\ ChangesCurrent'
  <2> DEFINE r == Event(c).request
             next == Change(request[r], Event(c))
  <2>1. Effect(c)
    BY <1>6, ApplyEffect
  <2>2. ResultMatchesStatus'
    <3>1. \/ request[r].status \in TerminalStatus /\ next.row = request[r] /\ next.result = "none"
          \/ /\ request[r].status \notin TerminalStatus
             /\ next.result = ResultOf(next.row.status)
      BY <2>1, ChangeFacts DEF Effect, TypeOK
    <3>2. request' = [request EXCEPT ![r] = next.row]
          /\ result' = [result EXCEPT ![r] = IF next.result = "none" THEN @ ELSE next.result]
          /\ r \in Requests
      BY <2>1 DEF Effect
    <3> HIDE DEF next, r
    <3>3. QED
      BY <3>1, <3>2 DEF ResultMatchesStatus, ResultOf, TerminalStatus, TypeOK
  <2>3. \A d \in Consumers : pc'[d] # "apply"
    <3>1. pc'[c] # "apply"
      BY <1>6 DEF ApplyEvent, Return, TypeOK
    <3>2. QED
      BY <3>1, SinglePod DEF SinglePod
  <2>4. QED
    BY <2>2, <2>3 DEF ChangesCurrent
<1>7. ASSUME NEW c \in Consumers,
             ApplyFails(c) \/ CallFails(c) \/ Crash(c) \/ DeleteMessage(c)
      PROVE  ResultMatchesStatus' /\ ChangesCurrent'
  BY <1>1, <1>7 DEF ApplyFails, CallFails, Crash, DeleteMessage, Return, TypeOK, Event,
       tables, queue
<1>8. CASE UNCHANGED vars
  BY <1>1, <1>8 DEF vars, tables, queue, handlers, Event
<1>9. QED
  BY <1>2, <1>3, <1>4, <1>5, <1>6, <1>7, <1>8 DEF Next, Handle

LEMMA SerialInvariant ==
    ASSUME SinglePod
    PROVE  Spec => []SerialInv
<1>1. Init => SerialInv
  BY InitTyped DEF Init, SerialInv, ResultMatchesStatus, ResultOf, ChangesCurrent, NewRow
<1>2. SerialInv /\ [Next]_vars => SerialInv'
  BY StepSerial
<1>3. QED
  BY <1>1, <1>2, PTL DEF Spec

(* With one pod a terminal status is never left (F11).                     *)
THEOREM TerminalStaysFinal ==
    ASSUME SinglePod
    PROVE  Spec => TerminalIsFinal
<1>1. SerialInv /\ [Next]_vars =>
          [\A r \in Requests : request[r].status \in TerminalStatus =>
               request'[r].status = request[r].status]_vars
  <2> SUFFICES ASSUME SerialInv, [Next]_vars, NEW r \in Requests,
                      request[r].status \in TerminalStatus
               PROVE  request'[r].status = request[r].status
    OBVIOUS
  <2>1. CASE \E c \in Consumers : ApplyEvent(c)
    <3>1. PICK c \in Consumers : ApplyEvent(c)
      BY <2>1
    <3>2. Effect(c)
      BY <3>1, ApplyEffect
    <3>3. r = Event(c).request => Change(request[r], Event(c)).row = request[r]
      BY <3>2, ChangeFacts DEF Effect, SerialInv, TypeInv, TypeOK
    <3>4. QED
      BY <3>2, <3>3 DEF Effect, SerialInv, TypeInv, TypeOK
  <2>2. QED
    BY <2>1, OnlyApplyWrites
<1>2. QED
  BY <1>1, SerialInvariant, PTL DEF Spec, TerminalIsFinal

(* With one pod the tables implement the documented status diagram.        *)
THEOREM LifecycleImplemented ==
    ASSUME SinglePod
    PROVE  Spec => ImplementsLifecycle
<1> USE DEF Lifecycle!vars
<1>1. Init => Lifecycle!Init
  BY DEF Init, Lifecycle!Init, NewRow, Lifecycle!NewRow
<1>2. SerialInv /\ StatusIsExplained /\ [Next]_vars => [Lifecycle!Next]_(Lifecycle!vars)
  <2> SUFFICES ASSUME SerialInv, StatusIsExplained, [Next]_vars,
                      ~ UNCHANGED <<request, result>>
               PROVE  Lifecycle!Next
    OBVIOUS
  <2>1. PICK c \in Consumers : ApplyEvent(c)
    BY OnlyApplyWrites
  <2> DEFINE ev == Event(c)
             r == ev.request
             row == request[r]
             next == Change(row, ev)
  <2>2. Effect(c)
    BY <2>1, ApplyEffect
  <2>3. /\ ev \in Traffic /\ r \in Requests /\ row \in Rows /\ next \in Changes
        /\ request' = [request EXCEPT ![r] = next.row]
        /\ result' = [result EXCEPT ![r] = IF next.result = "none" THEN @ ELSE next.result]
        /\ result[r] = ResultOf(row.status)
    BY <2>2, ChangeType DEF Effect, SerialInv, TypeInv, TypeOK, ResultMatchesStatus
  <2>4. CASE row.status \in TerminalStatus
    <3>1. next.row = row /\ next.result = "none"
      BY <2>2, <2>3, <2>4, ChangeFacts DEF Effect
    <3>2. request' = request /\ result' = result
      BY <2>3, <3>1 DEF SerialInv, TypeInv, TypeOK
    <3>3. QED
      BY <3>2
  <2>5. CASE row.status \notin TerminalStatus
    <3>1. Lifecycle!Open(r)
      BY <2>3, <2>5 DEF Lifecycle!Open, Rows, Status, TerminalStatus
    <3>2. /\ next.result = ResultOf(next.row.status)
          /\ \/ next.row.status = "PROCESSING"
             \/ next.row.status = "COMPLETED" /\ next.row.attempts = row.attempts
             \/ next.row.status = "FAILED"
          /\ next.row.attempts \in {row.attempts, ev.attempt}
          /\ next.row.attempts >= row.attempts
      BY <2>2, <2>3, <2>5, ChangeFacts DEF Effect
    <3>3. result' = [result EXCEPT ![r] = ResultOf(next.row.status)]
      BY <2>3, <2>5, <3>2 DEF ResultOf, TerminalStatus, SerialInv, TypeInv, TypeOK, Rows, Status
    <3> DEFINE n == next.row.attempts
               Numbers == {e.attempt : e \in Traffic} \cup {0}
    <3>4. row.attempts \in Numbers
      <4>1. \A e \in Applied(r, processed) : e \in Traffic
        BY DEF Applied, SerialInv, TypeInv, Handling
      <4>2. QED
        BY <2>3, <4>1 DEF StatusIsExplained, Explained
    <3>5. n \in Numbers /\ n >= row.attempts
      BY <2>3, <3>2, <3>4
    <3>6. next.row = [status |-> next.row.status, attempts |-> n]
      BY <2>3 DEF Changes, Rows
    <3>7. Lifecycle!Become(r, next.row.status, n, ResultOf(next.row.status))
      BY <2>3, <3>3, <3>6 DEF Lifecycle!Become
    <3> HIDE DEF r, row, next
    <3>8. Lifecycle!Progress(r) \/ Lifecycle!Complete(r) \/ Lifecycle!Fail(r)
      BY <3>1, <3>2, <3>5, <3>7 DEF Lifecycle!Progress, Lifecycle!Complete, Lifecycle!Fail,
           ResultOf, row
    <3>9. QED
      BY <2>3, <3>8 DEF Lifecycle!Next
  <2>6. QED
    BY <2>4, <2>5
<1>3. QED
  BY <1>1, <1>2, SerialInvariant, StatusExplained, PTL DEF Spec, ImplementsLifecycle, Lifecycle!Spec
=============================================================================
