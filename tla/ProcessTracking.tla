-------------------------- MODULE ProcessTracking --------------------------
(***************************************************************************)
(* The status tracking of video-processor-api: the goroutines that consume *)
(* the worker's events from the api's SQS inbox, and the three tables they *)
(* write.  One consumer per running pod (app.go starts one in each).       *)
(*                                                                         *)
(* A handler is three separate database calls (WasEventProcessed,          *)
(* FindRequest, ApplyEvent) and a DeleteMessage: one action each, so that  *)
(* the calls of two pods interleave.  ApplyEvent is one transaction.       *)
(***************************************************************************)
EXTENDS ProcessRequest, FiniteSets

CONSTANTS
    Requests,     \* process requests that exist in the database
    Traffic,      \* the events the worker publishes, over the whole behaviour
    Messages,     \* SQS messages that carry them to the inbox
    Consumers,    \* running api pods
    NoMessage,    \* "no message at hand"
    BatchSize,    \* MaxNumberOfMessages of one receive
    MaxReceives   \* maxReceiveCount of the inbox' redrive policy

Events == {ev.event : ev \in Traffic}

ASSUME TrafficAssumption ==
    \A ev \in Traffic : /\ ev.type \in EventTypes
                        /\ ev.retryable \in BOOLEAN
                        /\ ev.attempt \in Nat

ASSUME BoundsAssumption ==
    /\ NoMessage \notin Messages
    /\ BatchSize \in Nat \ {0}
    /\ MaxReceives \in Nat \ {0}

VARIABLES
    request,      \* video_process_request: status and attempts of each request
    result,       \* video_process_result
    processed,    \* processed_event: the event ids already applied
    inbox,        \* where each message is
    receives,     \* ApproximateReceiveCount of each message
    body,         \* the event each message carries
    batch,        \* messages a consumer has received and not yet handled
    pc,           \* the call a consumer makes next
    current,      \* the message it is handling
    change        \* what the change function computed from the row it read

tables == <<request, result, processed>>
queue == <<inbox, receives, body>>
handlers == <<batch, pc, current, change>>
vars == <<tables, queue, handlers>>

Places == {"absent", "visible", "inflight", "deleted", "dead"}
Calls == {"idle", "check", "find", "apply", "delete"}

NoEvent == [event |-> "none", type |-> "Malformed", request |-> "none",
            retryable |-> FALSE, attempt |-> 0]

Init ==
    /\ request = [r \in Requests |-> NewRow]
    /\ result = [r \in Requests |-> "none"]
    /\ processed = {}
    /\ inbox = [m \in Messages |-> "absent"]
    /\ receives = [m \in Messages |-> 0]
    /\ body = [m \in Messages |-> NoEvent]
    /\ batch = [c \in Consumers |-> {}]
    /\ pc = [c \in Consumers |-> "idle"]
    /\ current = [c \in Consumers |-> NoMessage]
    /\ change = [c \in Consumers |-> Refused]

-----------------------------------------------------------------------------
(* The queue.  SNS and SQS promise at-least-once delivery and no order: any *)
(* event of the traffic may arrive at any time, and in several messages.   *)

Arrive(m, ev) ==
    /\ inbox[m] = "absent"
    /\ inbox' = [inbox EXCEPT ![m] = "visible"]
    /\ body' = [body EXCEPT ![m] = ev]
    /\ UNCHANGED <<tables, receives, handlers>>

(* The 30 s visibility timeout runs from the receive of the whole batch,   *)
(* and the consumer never extends it.                                      *)
Expire(m) ==
    /\ inbox[m] = "inflight"
    /\ inbox' = [inbox EXCEPT ![m] = "visible"]
    /\ UNCHANGED <<tables, receives, body, handlers>>

DeadLetter(m) ==
    /\ inbox[m] = "visible"
    /\ receives[m] >= MaxReceives
    /\ inbox' = [inbox EXCEPT ![m] = "dead"]
    /\ UNCHANGED <<tables, receives, body, handlers>>

-----------------------------------------------------------------------------
(* The consumer. *)

Receivable == {m \in Messages : inbox[m] = "visible" /\ receives[m] < MaxReceives}

Receive(c) ==
    /\ pc[c] = "idle"
    /\ batch[c] = {}
    /\ \E S \in SUBSET Receivable :
          /\ S # {}
          /\ Cardinality(S) <= BatchSize
          /\ batch' = [batch EXCEPT ![c] = S]
          /\ inbox' = [m \in Messages |-> IF m \in S THEN "inflight" ELSE inbox[m]]
          /\ receives' = [m \in Messages |-> IF m \in S THEN receives[m] + 1 ELSE receives[m]]
    /\ UNCHANGED <<tables, body, pc, current, change>>

(* Handle the next message of the batch.  A malformed body is discarded,   *)
(* that is, deleted without a database call; the error of a payload that   *)
(* does not decode is not discardable, and the message is left alone.      *)
Take(c) ==
    /\ pc[c] = "idle"
    /\ \E m \in batch[c] :
          /\ batch' = [batch EXCEPT ![c] = @ \ {m}]
          /\ \/ /\ body[m].type # "BadPayload"
                /\ current' = [current EXCEPT ![c] = m]
                /\ pc' = [pc EXCEPT ![c] = IF body[m].type = "Malformed" THEN "delete"
                                          ELSE "check"]
             \/ /\ body[m].type = "BadPayload"
                /\ UNCHANGED <<pc, current>>
    /\ UNCHANGED <<tables, queue, change>>

Event(c) == body[current[c]]

(* The handler returns: nothing is kept of the message. *)
Return(c) ==
    /\ pc' = [pc EXCEPT ![c] = "idle"]
    /\ current' = [current EXCEPT ![c] = NoMessage]
    /\ change' = [change EXCEPT ![c] = Refused]

WasEventProcessed(c) ==
    /\ pc[c] = "check"
    /\ pc' = [pc EXCEPT ![c] = IF Event(c).event \in processed THEN "delete" ELSE "find"]
    /\ UNCHANGED <<tables, queue, batch, current, change>>

(* FindRequest and the change function on the row it returns.  ErrNotFound *)
(* and ErrInvalidTransition are discardable: the message is deleted.       *)
FindRequest(c) ==
    /\ pc[c] = "find"
    /\ \/ /\ Event(c).request \notin Requests
          /\ pc' = [pc EXCEPT ![c] = "delete"]
          /\ UNCHANGED change
       \/ /\ Event(c).request \in Requests
          /\ LET next == Change(request[Event(c).request], Event(c))
             IN  IF next.ok
                 THEN /\ pc' = [pc EXCEPT ![c] = "apply"]
                      /\ change' = [change EXCEPT ![c] = next]
                 ELSE /\ pc' = [pc EXCEPT ![c] = "delete"]
                      /\ UNCHANGED change
    /\ UNCHANGED <<tables, queue, batch, current>>

(* Mutants of Commit: the processed event is left out; it is recorded      *)
(* under the id of the SQS message; a nil result clears the stored one.    *)
CommitUnfenced(c) ==
    LET r == Event(c).request
    IN  /\ request' = [request EXCEPT ![r] = change[c].row]
        /\ result' = [result EXCEPT ![r] = IF change[c].result = "none" THEN @
                                           ELSE change[c].result]
        /\ UNCHANGED processed
CommitByMessage(c) ==
    LET r == Event(c).request
    IN  /\ request' = [request EXCEPT ![r] = change[c].row]
        /\ result' = [result EXCEPT ![r] = IF change[c].result = "none" THEN @
                                           ELSE change[c].result]
        /\ processed' = processed \cup {current[c]}
CommitClearing(c) ==
    LET r == Event(c).request
    IN  /\ request' = [request EXCEPT ![r] = change[c].row]
        /\ result' = [result EXCEPT ![r] = change[c].result]
        /\ processed' = processed \cup {Event(c).event}

(* The transaction of ApplyEvent: an UPDATE that does not look at the row  *)
(* it overwrites, the result if there is one, and the processed event.     *)
Commit(c) ==
    LET r == Event(c).request
    IN  /\ request' = [request EXCEPT ![r] = change[c].row]
        /\ result' = [result EXCEPT ![r] = IF change[c].result = "none" THEN @
                                           ELSE change[c].result]
        /\ processed' = processed \cup {Event(c).event}

(* Mutant of ApplyEvent: processed_event has no primary key.               *)
ApplyEventTwice(c) ==
    /\ pc[c] = "apply"
    /\ Commit(c)
    /\ \/ /\ pc' = [pc EXCEPT ![c] = "delete"]
          /\ change' = [change EXCEPT ![c] = Refused]
          /\ UNCHANGED current
       \/ Return(c)
    /\ UNCHANGED <<queue, batch>>

ApplyEvent(c) ==
    /\ pc[c] = "apply"
    /\ Event(c).event \notin processed
    /\ Commit(c)
    /\ \/ /\ pc' = [pc EXCEPT ![c] = "delete"]
          /\ change' = [change EXCEPT ![c] = Refused]
          /\ UNCHANGED current
       \/ Return(c)                       \* committed, but the answer was lost
    /\ UNCHANGED <<queue, batch>>

(* The transaction of ApplyEvent is rolled back, because the primary key   *)
(* of processed_event refuses an event that was applied since it was       *)
(* looked up, or because a statement fails: an error that is not           *)
(* discardable either way, the message stays.                              *)
ApplyFails(c) ==
    /\ pc[c] = "apply"
    /\ Return(c)
    /\ UNCHANGED <<tables, queue, batch>>

(* Mutant of CallFails: any error is discardable.                          *)
CallFailsDiscarded(c) ==
    /\ pc[c] \in {"check", "find"}
    /\ pc' = [pc EXCEPT ![c] = "delete"]
    /\ UNCHANGED <<tables, queue, batch, current, change>>

(* A read fails: the message is left for redelivery.                       *)
CallFails(c) ==
    /\ pc[c] \in {"check", "find"}
    /\ Return(c)
    /\ UNCHANGED <<tables, queue, batch>>

(* DeleteMessage may fail, or be ignored for an old receipt handle; the    *)
(* error is only logged.                                                   *)
DeleteMessage(c) ==
    /\ pc[c] = "delete"
    /\ \/ /\ inbox[current[c]] \in {"visible", "inflight"}
          /\ inbox' = [inbox EXCEPT ![current[c]] = "deleted"]
       \/ UNCHANGED inbox
    /\ Return(c)
    /\ UNCHANGED <<tables, receives, body, batch>>

(* The pod dies or is replaced: batch and handler are gone. *)
Crash(c) ==
    /\ pc[c] # "idle" \/ batch[c] # {}
    /\ batch' = [batch EXCEPT ![c] = {}]
    /\ Return(c)
    /\ UNCHANGED <<tables, queue>>

-----------------------------------------------------------------------------
Handle(c) ==
    \/ Take(c)
    \/ WasEventProcessed(c)
    \/ FindRequest(c)
    \/ ApplyEvent(c)
    \/ ApplyFails(c)
    \/ DeleteMessage(c)

Next ==
    \/ \E m \in Messages, ev \in Traffic : Arrive(m, ev)
    \/ \E m \in Messages : Expire(m) \/ DeadLetter(m)
    \/ \E c \in Consumers : Receive(c) \/ Handle(c) \/ CallFails(c) \/ Crash(c)

Spec == Init /\ [][Next]_vars

(* Timers fire, SQS moves exhausted messages to the DLQ, and a pod that is *)
(* up (or restarted by Kubernetes) keeps polling and handling its batch.   *)
Fairness ==
    /\ \A m \in Messages : WF_vars(Expire(m)) /\ WF_vars(DeadLetter(m))
    /\ \A c \in Consumers : WF_vars(Receive(c)) /\ WF_vars(Handle(c))

FairSpec == Spec /\ Fairness
-----------------------------------------------------------------------------
(* Properties. *)

(* Types: every consumer handles a message only between Take and Return.   *)
TypeOK ==
    /\ request \in [Requests -> Rows]
    /\ result \in [Requests -> Results]
    /\ processed \subseteq Events
    /\ inbox \in [Messages -> Places]
    /\ receives \in [Messages -> Nat]
    /\ body \in [Messages -> Traffic \cup {NoEvent}]
    /\ batch \in [Consumers -> SUBSET Messages]
    /\ pc \in [Consumers -> Calls]
    /\ current \in [Consumers -> Messages \cup {NoMessage}]
    /\ change \in [Consumers -> Changes]

(* Events of known requests that reach the service. *)
Tracked(ev) == ev.type \in Dispatched /\ ev.request \in Requests

(* Whether the request of an event has ever had an outcome recorded: the   *)
(* only reason for which a tracked event may be discarded.                 *)
OutcomeRecorded(ev) == result[ev.request] # "none"

(* No event is lost by an early acknowledgement: a message that was        *)
(* deleted from the inbox carried an event that was applied, or one that   *)
(* the consumer may discard, whatever crashes, failed calls, lost answers, *)
(* redeliveries and other consumers came in between.                       *)
AcknowledgedIsSettled ==
    \A m \in Messages :
        inbox[m] = "deleted" /\ Tracked(body[m]) =>
            body[m].event \in processed \/ OutcomeRecorded(body[m])

(* The events of r that arrived and have one of the given ids. *)
Applied(r, ids) ==
    {body[m] : m \in {n \in Messages : /\ inbox[n] # "absent"
                                      /\ body[n].event \in ids
                                      /\ body[n].request = r}}

Explained(r, row, res, ids) ==
    LET evs == Applied(r, ids)
    IN  /\ row.status = "PROCESSING" =>
               \E ev \in evs : ev.type = "Started" \/ (ev.type = "Failed" /\ ev.retryable)
        /\ row.status = "COMPLETED" \/ res = "zip" => \E ev \in evs : ev.type = "Completed"
        /\ row.status = "FAILED" \/ res = "reason" =>
               \E ev \in evs : ev.type = "Failed" /\ ~ ev.retryable
        /\ row.attempts = 0 \/ \E ev \in evs : ev.attempt = row.attempts

(* What the User sees is always backed by events recorded as processed:    *)
(* status, attempts and result never run ahead of processed_event, so an   *)
(* event that took effect can never be applied again as if it were new.    *)
StatusIsExplained ==
    \A r \in Requests : Explained(r, request[r], result[r], processed)

(* The same event, delivered to two pods, passes WasEventProcessed in both *)
(* before either has committed: only the first to commit may touch the     *)
(* row.  Whatever changes the row of a request records, in the same        *)
(* transaction, an event of it that was not recorded before.               *)
AppliedOnce ==
    [][\A r \in Requests :
           request'[r] # request[r] \/ result'[r] # result[r] =>
               \E m \in Messages : /\ body[m].request = r
                                   /\ body[m].event \in processed' \ processed]_vars

(* "COMPLETED e FAILED são terminais: qualquer evento posterior é          *)
(* descartado (F11)": no event changes a terminal status.                  *)
TerminalIsFinal ==
    [][\A r \in Requests : request[r].status \in TerminalStatus =>
           request'[r].status = request[r].status]_vars

(* The api's tables behave as the status diagram says. *)
Lifecycle == INSTANCE RequestLifecycle
                 WITH Attempts <- {ev.attempt : ev \in Traffic} \cup {0}

ImplementsLifecycle == Lifecycle!Spec

Settled(ev) == ev.request \in Requests /\ request[ev.request].status \in TerminalStatus

(* An outcome that is published reaches the User: the request of a         *)
(* Completed event becomes terminal, even when Completed overtakes Started *)
(* (F11), unless its message ends in the DLQ.                              *)
OutcomeSurfaces ==
    \A m \in Messages :
        Tracked(body[m]) /\ body[m].type = "Completed" ~>
            Settled(body[m]) \/ inbox[m] = "dead"
=============================================================================
