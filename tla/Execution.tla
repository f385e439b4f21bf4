----------------------------- MODULE Execution -----------------------------
(***************************************************************************)
(* video-processor-worker: the goroutines that take VideoProcessingRequested *)
(* messages from the worker's SQS inbox one at a time, and what            *)
(* ExecuteProcessRequest does for each: the Execution table, the result    *)
(* object, the outcome events and the Notification e-mail.                 *)
(*                                                                         *)
(* Every call to the database, to SNS, to the e-mail provider and to SQS   *)
(* is an action, in the order of the code.  Each may fail without effect   *)
(* or take effect and lose its answer; a pod may die between two calls.    *)
(* Which of these a run allows is the constant Faults.                     *)
(***************************************************************************)
EXTENDS Integers, FiniteSets

CONSTANTS
    Requests,     \* process requests
    Messages,     \* SQS messages of the worker's inbox
    RequestOf,    \* the request of each message; not in Requests: malformed
    Workers,      \* consumer goroutines: pods x WORKER_CONCURRENCY
    NoMessage,    \* "no message at hand"
    RunErrors,    \* how download, ffmpeg, zip and upload may fail
    MaxAttempts,  \* Attempts after which a transient failure is definitive
    MaxReceives,  \* maxReceiveCount of the inbox' redrive policy
    Faults        \* infrastructure faults of this instance

RunKinds == {"transient", "unprocessable", "missing"}
FaultKinds == {"call", "lost", "crash", "lapse"}

ASSUME ExecutionAssumption ==
    /\ NoMessage \notin Messages
    /\ RunErrors \subseteq RunKinds
    /\ MaxAttempts \in Nat \ {0}
    /\ MaxReceives \in Nat \ {0}
    /\ Faults \subseteq FaultKinds

VARIABLES
    execution,    \* processing_execution: outcome and attempt of each request
    notified,     \* notification_log: outcomes already notified
    stored,       \* whether results/<request>.zip was uploaded
    published,    \* the events published so far
    mails,        \* how many e-mails of each outcome the User was sent
    inbox,        \* where each message is
    receives,     \* ApproximateReceiveCount of each message
    pc,           \* the call a goroutine makes next
    current,      \* the message it is handling
    exec          \* its copy of the Execution

records == <<execution, notified>>
outside == <<stored, published, mails>>
queue == <<inbox, receives>>
handlers == <<pc, current, exec>>
vars == <<records, outside, queue, handlers>>

Final == {"COMPLETED", "FAILED"}
Outcomes == {"NONE", "RUNNING", "RETRYING"} \cup Final
Places == {"absent", "visible", "inflight", "deleted", "dead"}
Calls == {"idle", "find", "running", "started", "download", "extract", "pack", "upload",
          "save", "publish", "lookup", "send", "mark", "delete", "retry"}

NoExecution == [outcome |-> "NONE", attempt |-> 0]

Init ==
    /\ execution = [r \in Requests |-> NoExecution]
    /\ notified = [r \in Requests |-> {}]
    /\ stored = [r \in Requests |-> FALSE]
    /\ published = {}
    /\ mails = [r \in Requests |-> [o \in Final |-> 0]]
    /\ inbox = [m \in Messages |-> "absent"]
    /\ receives = [m \in Messages |-> 0]
    /\ pc = [w \in Workers |-> "idle"]
    /\ current = [w \in Workers |-> NoMessage]
    /\ exec = [w \in Workers |-> NoExecution]

Request(w) == RequestOf[current[w]]

(* The event that announces an Execution: PublishCompleted carries no      *)
(* attempt, PublishFailed is retryable unless the failure is definitive.   *)
Announcement(r, e) ==
    IF e.outcome = "COMPLETED"
    THEN [type |-> "Completed", request |-> r, retryable |-> FALSE, attempt |-> 0]
    ELSE [type |-> "Failed", request |-> r, retryable |-> e.outcome = "RETRYING",
          attempt |-> e.attempt]

Started(r, n) == [type |-> "Started", request |-> r, retryable |-> FALSE, attempt |-> n]

-----------------------------------------------------------------------------
(* The queue. *)

(* The topic delivers a message: the outbox relay published its request,   *)
(* possibly for the second time.                                           *)
Arrive(m) ==
    /\ inbox[m] = "absent"
    /\ inbox' = [inbox EXCEPT ![m] = "visible"]
    /\ UNCHANGED <<records, outside, receives, handlers>>

Holds(w, m) == pc[w] # "idle" /\ current[w] = m

(* The 5 min visibility runs out: the heartbeat that extends it every      *)
(* minute stops with its pod, or lapses when its calls keep failing.       *)
Expire(m) ==
    /\ inbox[m] = "inflight"
    /\ "lapse" \in Faults \/ \A w \in Workers : ~ Holds(w, m)
    /\ inbox' = [inbox EXCEPT ![m] = "visible"]
    /\ UNCHANGED <<records, outside, receives, handlers>>

DeadLetter(m) ==
    /\ inbox[m] = "visible"
    /\ receives[m] >= MaxReceives
    /\ inbox' = [inbox EXCEPT ![m] = "dead"]
    /\ UNCHANGED <<records, outside, receives, handlers>>

(* One message per receive; a malformed one is deleted at once.  The       *)
(* receive count becomes the Attempt.                                      *)
Receive(w) ==
    /\ pc[w] = "idle"
    /\ \E m \in Messages :
          /\ inbox[m] = "visible"
          /\ receives[m] < MaxReceives
          /\ inbox' = [inbox EXCEPT ![m] = "inflight"]
          /\ receives' = [receives EXCEPT ![m] = @ + 1]
          /\ current' = [current EXCEPT ![w] = m]
          /\ pc' = [pc EXCEPT ![w] = IF RequestOf[m] \in Requests THEN "find" ELSE "delete"]
          /\ exec' = [exec EXCEPT ![w] = [outcome |-> "RUNNING", attempt |-> receives[m] + 1]]
    /\ UNCHANGED <<records, outside>>

-----------------------------------------------------------------------------
(* ExecuteProcessRequest.  A call leads to the next one, or, when its      *)
(* answer is lost, to the retry of the message.                            *)

Continue(w, from, to) ==
    /\ pc[w] = from
    /\ \/ pc' = [pc EXCEPT ![w] = to]
       \/ "lost" \in Faults /\ pc' = [pc EXCEPT ![w] = "retry"]
    /\ UNCHANGED <<queue, current>>

(* Mutants of FindExecution: a FAILED Execution is run again; a RUNNING    *)
(* one is left to whoever runs it.                                         *)
FindExecutionRerunsFailed(w) ==
    LET previous == execution[Request(w)]
    IN  /\ Continue(w, "find", IF previous.outcome = "COMPLETED" THEN "publish" ELSE "running")
        /\ exec' = [exec EXCEPT ![w] = IF previous.outcome = "COMPLETED" THEN previous ELSE @]
        /\ UNCHANGED <<records, outside>>
FindExecutionSkipsRunning(w) ==
    LET previous == execution[Request(w)]
    IN  /\ Continue(w, "find", IF previous.outcome \in Final THEN "publish"
                               ELSE IF previous.outcome = "RUNNING" THEN "delete" ELSE "running")
        /\ exec' = [exec EXCEPT ![w] = IF previous.outcome \in Final THEN previous ELSE @]
        /\ UNCHANGED <<records, outside>>

FindExecution(w) ==
    LET previous == execution[Request(w)]
    IN  /\ Continue(w, "find", IF previous.outcome \in Final THEN "publish" ELSE "running")
        /\ exec' = [exec EXCEPT ![w] = IF previous.outcome \in Final THEN previous ELSE @]
        /\ UNCHANGED <<records, outside>>

(* SaveExecution is an upsert: it overwrites whatever is there. *)
SaveExecution(w) == execution' = [execution EXCEPT ![Request(w)] = exec[w]]

SaveRunning(w) ==
    /\ Continue(w, "running", "started")
    /\ SaveExecution(w)
    /\ UNCHANGED <<notified, outside, exec>>

PublishStarted(w) ==
    /\ Continue(w, "started", "download")
    /\ published' = published \cup {Started(Request(w), exec[w].attempt)}
    /\ UNCHANGED <<records, stored, mails, exec>>

(* Mutant of Definitive: the last Attempt is retried.                      *)
DefinitiveLate(err, attempt) ==
    \/ err \in {"unprocessable", "missing"}
    \/ attempt > MaxAttempts

(* fail(): a defect of the video, a missing object, or the last Attempt.   *)
Definitive(err, attempt) ==
    \/ err \in {"unprocessable", "missing"}
    \/ attempt >= MaxAttempts

(* run(): four steps, each of which may fail with one of the given errors. *)
Ends(w, outcome) ==
    /\ pc' = [pc EXCEPT ![w] = "save"]
    /\ exec' = [exec EXCEPT ![w].outcome = outcome]

Fails(w, errors) ==
    \E err \in errors \cap RunErrors :
        Ends(w, IF Definitive(err, exec[w].attempt) THEN "FAILED" ELSE "RETRYING")

RunStep(w, from, to, errors) ==
    /\ pc[w] = from
    /\ \/ pc' = [pc EXCEPT ![w] = to] /\ UNCHANGED exec
       \/ Fails(w, errors)
    /\ UNCHANGED <<records, outside, queue, current>>

(* The User's object may be gone; S3 and the disk may fail.                *)
Download(w) == RunStep(w, "download", "extract", {"missing", "transient"})

(* ffmpeg that exits with an error, or extracts nothing, blames the video. *)
Extract(w) == RunStep(w, "extract", "pack", {"unprocessable", "transient"})

Pack(w) == RunStep(w, "pack", "upload", {"transient"})

(* Mutant of Upload: an upload that fails is ignored.                      *)
UploadIgnored(w) ==
    /\ pc[w] = "upload"
    /\ Ends(w, "COMPLETED")
    /\ \E ok \in BOOLEAN : stored' = [stored EXCEPT ![Request(w)] = @ \/ ok]
    /\ UNCHANGED <<records, published, mails, queue, current>>

(* The PutObject may have taken effect although it is answered by an error. *)
Upload(w) ==
    /\ pc[w] = "upload"
    /\ \/ /\ Ends(w, "COMPLETED")
          /\ stored' = [stored EXCEPT ![Request(w)] = TRUE]
       \/ /\ Fails(w, {"transient"})
          /\ UNCHANGED stored
       \/ /\ "lost" \in Faults
          /\ Fails(w, {"transient"})
          /\ stored' = [stored EXCEPT ![Request(w)] = TRUE]
    /\ UNCHANGED <<records, published, mails, queue, current>>

SaveOutcome(w) ==
    /\ Continue(w, "save", "publish")
    /\ SaveExecution(w)
    /\ UNCHANGED <<notified, outside, exec>>

(* announceCompleted, the publish of fail, and republish. *)
PublishOutcome(w) ==
    /\ Continue(w, "publish", IF exec[w].outcome = "RETRYING" THEN "retry" ELSE "lookup")
    /\ published' = published \cup {Announcement(Request(w), exec[w])}
    /\ UNCHANGED <<records, stored, mails, exec>>

WasNotified(w) ==
    /\ Continue(w, "lookup",
                IF exec[w].outcome \in notified[Request(w)] THEN "delete" ELSE "send")
    /\ UNCHANGED <<records, outside, exec>>

Send(w) ==
    /\ Continue(w, "send", "mark")
    /\ mails' = [mails EXCEPT ![Request(w)][exec[w].outcome] = @ + 1]
    /\ UNCHANGED <<records, stored, published, exec>>

MarkNotified(w) ==
    /\ Continue(w, "mark", "delete")
    /\ notified' = [notified EXCEPT ![Request(w)] = @ \cup {exec[w].outcome}]
    /\ UNCHANGED <<execution, outside, exec>>

(* Mutants of CallFails: an Execution that cannot be saved is announced    *)
(* all the same; an error acknowledges the message.                        *)
CallFailsUnsaved(w) ==
    /\ "call" \in Faults
    /\ pc[w] \in {"find", "running", "started", "save", "publish", "lookup", "send", "mark"}
    /\ pc' = [pc EXCEPT ![w] = IF pc[w] = "save" THEN "publish" ELSE "retry"]
    /\ UNCHANGED <<records, outside, queue, current, exec>>

CallFailsDropped(w) ==
    /\ "call" \in Faults
    /\ pc[w] \in {"find", "running", "started", "save", "publish", "lookup", "send", "mark"}
    /\ pc' = [pc EXCEPT ![w] = "delete"]
    /\ UNCHANGED <<records, outside, queue, current, exec>>

(* A call fails without effect: ErrRetryLater. *)
CallFails(w) ==
    /\ "call" \in Faults
    /\ pc[w] \in {"find", "running", "started", "save", "publish", "lookup", "send", "mark"}
    /\ pc' = [pc EXCEPT ![w] = "retry"]
    /\ UNCHANGED <<records, outside, queue, current, exec>>

-----------------------------------------------------------------------------
(* The end of consume. *)

(* Mutant of Return: the message stays at hand.                            *)
ReturnHolding(w) ==
    /\ pc' = [pc EXCEPT ![w] = "idle"]
    /\ exec' = [exec EXCEPT ![w] = NoExecution]
    /\ UNCHANGED current

Return(w) ==
    /\ pc' = [pc EXCEPT ![w] = "idle"]
    /\ current' = [current EXCEPT ![w] = NoMessage]
    /\ exec' = [exec EXCEPT ![w] = NoExecution]

(* The acknowledgement and the visibility change may fail too, and do      *)
(* nothing to a message that is no longer in flight; the error is logged.  *)
Release(w, place) ==
    \/ /\ inbox[current[w]] \in {"inflight", "visible"}
       /\ inbox' = [inbox EXCEPT ![current[w]] = place]
    \/ /\ "call" \in Faults \/ inbox[current[w]] # "inflight"
       /\ UNCHANGED inbox

DeleteMessage(w) ==
    /\ pc[w] = "delete"
    /\ Release(w, "deleted")
    /\ Return(w)
    /\ UNCHANGED <<records, outside, receives>>

(* ChangeMessageVisibility(RetryDelay): the message comes back. *)
RetryMessage(w) ==
    /\ pc[w] = "retry"
    /\ Release(w, "visible")
    /\ Return(w)
    /\ UNCHANGED <<records, outside, receives>>

Crash(w) ==
    /\ "crash" \in Faults
    /\ pc[w] # "idle"
    /\ Return(w)
    /\ UNCHANGED <<records, outside, queue>>

-----------------------------------------------------------------------------
Execute(w) ==
    \/ FindExecution(w)
    \/ SaveRunning(w)
    \/ PublishStarted(w)
    \/ Download(w)
    \/ Extract(w)
    \/ Pack(w)
    \/ Upload(w)
    \/ SaveOutcome(w)
    \/ PublishOutcome(w)
    \/ WasNotified(w)
    \/ Send(w)
    \/ MarkNotified(w)

Finish(w) == DeleteMessage(w) \/ RetryMessage(w)

Next ==
    \/ \E m \in Messages : Arrive(m) \/ Expire(m) \/ DeadLetter(m)
    \/ \E w \in Workers : Receive(w) \/ Execute(w) \/ Finish(w) \/ CallFails(w) \/ Crash(w)

Spec == Init /\ [][Next]_vars

(* Visibility timers fire, the redrive policy is applied, goroutines poll  *)
(* and every call returns (ffmpeg's too: a killed pod is a Crash).         *)
Fairness ==
    /\ \A m \in Messages : WF_vars(Expire(m)) /\ WF_vars(DeadLetter(m))
    /\ \A w \in Workers : WF_vars(Receive(w)) /\ WF_vars(Execute(w) \/ Finish(w))

FairSpec == Spec /\ Fairness

-----------------------------------------------------------------------------
(* Properties. *)

(* Types: a goroutine holds a message exactly while it handles one.        *)
TypeOK ==
    /\ execution \in [Requests -> [outcome : Outcomes, attempt : Nat]]
    /\ notified \in [Requests -> SUBSET Final]
    /\ stored \in [Requests -> BOOLEAN]
    /\ published \subseteq [type : {"Started", "Completed", "Failed"}, request : Requests,
                            retryable : BOOLEAN, attempt : Nat]
    /\ mails \in [Requests -> [Final -> Nat]]
    /\ inbox \in [Messages -> Places]
    /\ receives \in [Messages -> Nat]
    /\ pc \in [Workers -> Calls]
    /\ current \in [Workers -> Messages \cup {NoMessage}]
    /\ \A w \in Workers : pc[w] = "idle" <=> current[w] = NoMessage
    /\ exec \in [Workers -> [outcome : Outcomes, attempt : Nat]]

Announced(r, outcome) ==
    \E ev \in published :
        /\ ev.request = r
        /\ \/ outcome = "COMPLETED" /\ ev.type = "Completed"
           \/ outcome = "FAILED" /\ ev.type = "Failed" /\ ~ ev.retryable

(* The User and the api have been told of an outcome, and it is on record. *)
Delivered(r, outcome) ==
    /\ Announced(r, outcome)
    /\ mails[r][outcome] > 0
    /\ outcome \in notified[r]

(* "publica o desfecho, envia a Notification e só então apaga a mensagem   *)
(* da fila" (README): a message is deleted only after a final outcome of   *)
(* its request was announced, mailed and logged, whatever failed, crashed  *)
(* or was delivered twice on the way.                                      *)
DeletedIsDelivered ==
    \A m \in Messages :
        inbox[m] = "deleted" /\ RequestOf[m] \in Requests =>
            \E o \in Final : Delivered(RequestOf[m], o)

(* An outcome is recorded before it is announced and announced before it   *)
(* is mailed, and the zip is in storage by then: what the api and the User *)
(* are told is what the table says, and says for good.                     *)
AnnouncedIsRecorded ==
    \A r \in Requests : \A o \in Final :
        /\ Announced(r, o) => /\ execution[r].outcome = o
                              /\ o = "COMPLETED" => stored[r]
        /\ mails[r][o] > 0 => Announced(r, o)

(* A Completed event is never published for a zip that was not uploaded,   *)
(* even with duplicate messages and lapsed heartbeats.                     *)
CompletedHasZip == \A r \in Requests : Announced(r, "COMPLETED") => stored[r]

(* A duplicate delivery "encontra a Execution terminal e apenas republica" *)
(* (README), "é absorvida pela tabela processing_execution" (ADR 0001): a  *)
(* final Execution is never overwritten.                                   *)
OutcomeIsFinal ==
    [][\A r \in Requests :
           execution[r].outcome \in Final => execution'[r] = execution[r]]_vars

(* The Attempt of an Execution only grows, and the request is not executed *)
(* again once its outcome has been announced, whatever fails after that    *)
(* (F9): no Started follows a Completed or a definitive Failed.            *)
AttemptsAdvance ==
    [][\A r \in Requests :
           /\ execution'[r].attempt >= execution[r].attempt
           /\ (\E o \in Final : Announced(r, o)) =>
                  \A ev \in published' \ published : ev.request = r => ev.type # "Started"]_vars

(* "notification_log impede e-mail duplicado" (F10).                       *)
OneMail == \A r \in Requests : mails[r]["COMPLETED"] + mails[r]["FAILED"] <= 1

(* Whatever a message meets on its way, its request is not left untold:    *)
(* in the end an outcome of it is announced, mailed and logged, or the     *)
(* message is in the DLQ.  An error that acknowledged a message before     *)
(* that would lose the request silently.                                   *)
EveryOutcomeIsTold ==
    \A m \in Messages :
        inbox[m] = "visible" /\ RequestOf[m] \in Requests ~>
            inbox[m] = "dead" \/ \E o \in Final : Delivered(RequestOf[m], o)

(* Attempts and deliveries are counted alike (MAX_ATTEMPTS, and            *)
(* maxReceiveCount of the queue): a failure is announced as retryable, and *)
(* nobody is mailed, only while the queue has another delivery to give;    *)
(* the last one, if it gets as far as an outcome, is settled for good.     *)
RetryIsDelivered ==
    \A ev \in published :
        ev.type = "Failed" /\ ev.retryable => ev.attempt < MaxReceives
=============================================================================
