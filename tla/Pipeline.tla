------------------------------ MODULE Pipeline ------------------------------
(***************************************************************************)
(* The life of a Process Request across the services: the outbox of the    *)
(* api, the worker and the api's status tracking, composed through the two *)
(* SNS topics and SQS inboxes.  The components are the modules Outbox,     *)
(* Execution and ProcessTracking; what is added here is only that          *)
(*   - each acceptance of a request's event by SNS puts one message in the *)
(*     worker's inbox (a second one when the relay publishes again), and   *)
(*   - each event the worker publishes puts one message, with an event id  *)
(*     of its own, in the api's inbox.                                     *)
(* Both inboxes are unordered.                                             *)
(***************************************************************************)
EXTENDS Integers, FiniteSets

CONSTANTS
    Requests, Relays, Batch, MaxId,
    WorkMessages, RequestOf, Workers, RunErrors, MaxAttempts, Faults,
    ApiMessages, Consumers, BatchSize,
    NoMessage, WorkReceives, ApiReceives

VARIABLES
    lastId, tx, id, before, marked, requested, relayPc, pending, sent,
    execution, notified, stored, announced, mails,
    workInbox, workReceives, workPc, workCurrent, exec,
    request, result, processed,
    apiInbox, apiReceives, body, batch, apiPc, apiCurrent, change

boxVars == <<lastId, tx, id, before, marked, requested, relayPc, pending, sent>>
workVars == <<execution, notified, stored, announced, mails,
              workInbox, workReceives, workPc, workCurrent, exec>>
trackVars == <<request, result, processed,
               apiInbox, apiReceives, body, batch, apiPc, apiCurrent, change>>
vars == <<boxVars, workVars, trackVars>>

(* Event ids are the messages that carry the events. *)
Traffic == [event : ApiMessages, type : {"Started", "Completed", "Failed"},
            request : Requests, retryable : BOOLEAN, attempt : Nat]

Box == INSTANCE Outbox WITH published <- requested, pc <- relayPc
Work == INSTANCE Execution WITH Messages <- WorkMessages, MaxReceives <- WorkReceives,
            published <- announced, inbox <- workInbox, receives <- workReceives,
            pc <- workPc, current <- workCurrent
Track == INSTANCE ProcessTracking WITH Messages <- ApiMessages, MaxReceives <- ApiReceives,
            inbox <- apiInbox, receives <- apiReceives, pc <- apiPc, current <- apiCurrent

ASSUME PipelineAssumption ==
    /\ Batch \in Nat \ {0} /\ MaxId \in Nat
    /\ RunErrors \subseteq Work!RunKinds /\ Faults \subseteq Work!FaultKinds
    /\ MaxAttempts \in Nat \ {0} /\ BatchSize \in Nat \ {0}
    /\ WorkReceives \in Nat \ {0} /\ ApiReceives \in Nat \ {0}
    /\ NoMessage \notin WorkMessages \cup ApiMessages

Init == Box!Init /\ Work!Init /\ Track!Init

-----------------------------------------------------------------------------
OnlyBox(A) == A /\ UNCHANGED <<workVars, trackVars>>
OnlyWork(A) == A /\ UNCHANGED <<boxVars, trackVars>>
OnlyTrack(A) == A /\ UNCHANGED <<boxVars, workVars>>

Create(r) == OnlyBox(Box!Insert(r) \/ Box!Commit(r) \/ Box!Rollback(r))

RelayStep(x) ==
    OnlyBox(\/ Box!PendingEvents(x)
            \/ Box!MarkPublished(x)
            \/ Box!MarkFails(x)
            \/ Box!Crash(x))

(* SNS accepts the event of the relay's next row and delivers it. *)
Deliver(x) ==
    \E r \in Requests, m \in WorkMessages :
        /\ Box!NextRow(x, r)
        /\ RequestOf[m] = r
        /\ Work!Arrive(m)
        /\ requested' = requested \cup {r}

RelayPublishes(x) ==
    /\ Box!Publish(x)
    /\ Deliver(x)
    /\ UNCHANGED trackVars

RelayFails(x) ==
    /\ Box!PublishFails(x)
    /\ \/ Deliver(x)
       \/ requested' = requested /\ UNCHANGED workVars
    /\ UNCHANGED trackVars

(* The worker's queue, and every call of it but the publications. *)
WorkerQueue(m) == OnlyWork(Work!Expire(m) \/ Work!DeadLetter(m))

WorkerStep(w) ==
    OnlyWork(\/ Work!Receive(w)
             \/ Work!FindExecution(w)
             \/ Work!SaveRunning(w)
             \/ Work!Download(w)
             \/ Work!Extract(w)
             \/ Work!Pack(w)
             \/ Work!Upload(w)
             \/ Work!SaveOutcome(w)
             \/ Work!WasNotified(w)
             \/ Work!Send(w)
             \/ Work!MarkNotified(w)
             \/ Work!CallFails(w)
             \/ Work!Finish(w)
             \/ Work!Crash(w))

(* The api's topic subscription delivers an event of the worker; messages  *)
(* are numbered in the order of their publication.                         *)
Notify(ev) ==
    \E m \in ApiMessages :
        /\ \A n \in ApiMessages : n < m => apiInbox[n] # "absent"
        /\ Track!Arrive(m, [event |-> m, type |-> ev.type, request |-> ev.request,
                            retryable |-> ev.retryable, attempt |-> ev.attempt])

WorkerPublishes(w) ==
    /\ \/ /\ Work!PublishStarted(w)
          /\ Notify(Work!Started(Work!Request(w), exec[w].attempt))
       \/ /\ Work!PublishOutcome(w)
          /\ Notify(Work!Announcement(Work!Request(w), exec[w]))
    /\ UNCHANGED boxVars

TrackQueue(m) == OnlyTrack(Track!Expire(m) \/ Track!DeadLetter(m))

TrackStep(c) ==
    OnlyTrack(Track!Receive(c) \/ Track!Handle(c) \/ Track!CallFails(c) \/ Track!Crash(c))

-----------------------------------------------------------------------------
Next ==
    \/ \E r \in Requests : Create(r)
    \/ \E x \in Relays : RelayStep(x) \/ RelayPublishes(x) \/ RelayFails(x)
    \/ \E m \in WorkMessages : WorkerQueue(m)
    \/ \E w \in Workers : WorkerStep(w) \/ WorkerPublishes(w)
    \/ \E m \in ApiMessages : TrackQueue(m)
    \/ \E c \in Consumers : TrackStep(c)

Spec == Init /\ [][Next]_vars

(* The components' fairness, the publications included. *)
Fairness ==
    /\ \A r \in Requests : WF_vars(OnlyBox(Box!Commit(r)))
    /\ \A x \in Relays :
          /\ WF_vars(OnlyBox(Box!PendingEvents(x)))
          /\ \A n \in 1..Batch : SF_vars(RelayPublishes(x) /\ Cardinality(pending[x]) = n)
          /\ SF_vars(OnlyBox(Box!MarkPublished(x) /\ sent[x] # {}))
          /\ WF_vars(OnlyBox(Box!MarkPublished(x)))
    /\ \A m \in WorkMessages : WF_vars(WorkerQueue(m))
    /\ \A w \in Workers : WF_vars(WorkerStep(w) \/ WorkerPublishes(w))
    /\ \A m \in ApiMessages : WF_vars(TrackQueue(m))
    /\ \A c \in Consumers : WF_vars(OnlyTrack(Track!Receive(c) \/ Track!Handle(c)))

FairSpec == Spec /\ Fairness

-----------------------------------------------------------------------------
(* Properties. *)

Terminal == {"COMPLETED", "FAILED"}

(* The event of outcome o of r waits in the api's inbox or, given up, in   *)
(* its DLQ.                                                                *)
Waits(r, o) ==
    \E m \in ApiMessages :
        /\ apiInbox[m] \in {"visible", "inflight", "dead"}
        /\ body[m].request = r
        /\ \/ o = "COMPLETED" /\ body[m].type = "Completed"
           \/ o = "FAILED" /\ body[m].type = "Failed" /\ ~ body[m].retryable

(* The status of a mailed outcome is shown or on its way: the User was     *)
(* mailed an outcome only if the request has that status, or the event     *)
(* that sets it waits.                                                     *)
MailedIsShown ==
    \A r \in Requests, o \in Terminal : mails[r][o] > 0 =>
        request[r].status = o \/ Waits(r, o)

(* The composition keeps the platform's promise (UserPromise): through two *)
(* databases, two inboxes and the storage, the status and the result that  *)
(* are shown and the e-mails that are sent are those of the one outcome of *)
(* the request, whose zip is there; and nothing happens, is shown or is    *)
(* discarded as unknown (ErrNotFound) before the request was committed.    *)
Promise == INSTANCE UserPromise WITH
    asked <- {r \in Requests : tx[r] = "committed"},
    outcome <- [r \in Requests |->
                   IF execution[r].outcome \in Terminal THEN execution[r].outcome ELSE "none"],
    zips <- {r \in Requests : stored[r]},
    shown <- [r \in Requests |-> [status |-> request[r].status, result |-> result[r]]],
    mailed <- [r \in Requests |-> {o \in Terminal : mails[r][o] > 0}]

KeepsPromise == Promise!Spec

(* Whatever runs twice or at once, nobody is told more than UserReports    *)
(* allows: any number of pods, deliveries and lapsing heartbeats.          *)
Reports == INSTANCE UserReports WITH
    asked <- {r \in Requests : tx[r] = "committed"},
    told <- [r \in Requests |-> {o \in Terminal : Work!Announced(r, o)}],
    zips <- {r \in Requests : stored[r]},
    shown <- [r \in Requests |-> [status |-> request[r].status, result |-> result[r]]],
    mailed <- [r \in Requests |-> {o \in Terminal : mails[r][o] > 0}]

ReportsHonestly == Reports!Spec

(* With several pods a terminal status may be taken back, but it is never  *)
(* a wrong one: whenever a request is shown COMPLETED or FAILED, that is   *)
(* how the worker settled it, its result is the one of that outcome, and   *)
(* the zip of a COMPLETED one is there to sign a link for.                 *)
TerminalIsTrue ==
    \A r \in Requests : request[r].status \in Terminal =>
        /\ execution[r].outcome = request[r].status
        /\ result[r] = IF request[r].status = "COMPLETED" THEN "zip" ELSE "reason"
        /\ request[r].status = "COMPLETED" => stored[r]

(* No outcome that was mailed is lost on the way to the api, even if its   *)
(* status is: a result of the request is recorded, or the event waits in   *)
(* the inbox or, given up, in its DLQ.                                     *)
MailedIsRecorded ==
    \A r \in Requests, o \in Terminal : mails[r][o] > 0 =>
        \/ result[r] # "none"
        \/ Waits(r, o)

(* Two pods that were both brought the same event, and found it new, do    *)
(* not both apply it: what the second computed may be of a row that is     *)
(* long gone (ProcessTracking).                                            *)
AppliedOnce == Track!AppliedOnce

(* Every committed request ends: its status becomes terminal, or one of    *)
(* its messages is in a DLQ (F12).  That is so with one api pod: with two, *)
(* the last word may be a PROCESSING written over the outcome              *)
(* (ProcessTracking!TerminalIsFinal).                                      *)
EveryRequestEnds ==
    \A r \in Requests :
        tx[r] = "committed" ~>
            \/ request[r].status \in Terminal
            \/ \E m \in WorkMessages : RequestOf[m] = r /\ workInbox[m] = "dead"
            \/ \E m \in ApiMessages : body[m].request = r /\ apiInbox[m] = "dead"
=============================================================================
