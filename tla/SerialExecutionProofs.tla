------------------------ MODULE SerialExecutionProofs ------------------------
(***************************************************************************)
(* What holds of Execution when each request comes in one message and no   *)
(* heartbeat lapses, so that a request is executed by one goroutine at a   *)
(* time: its outcome is final, and what is announced is what the table     *)
(* says.  Calls may fail, lose their answers, and pods may die.  The run   *)
(* exec_duplicate_final shows that a second message is enough to break it. *)
(***************************************************************************)
EXTENDS ExecutionProofs

OneDelivery ==
    /\ "lapse" \notin Faults
    /\ \A m, n \in Messages : RequestOf[m] \in Requests /\ RequestOf[m] = RequestOf[n] => m = n

(***************************************************************************)
(* One goroutine holds a message, and holds it invisible.                  *)
(***************************************************************************)

Holding == \A w \in Workers : pc[w] # "idle" => inbox[current[w]] = "inflight"

Alone ==
    \A v, w \in Workers :
        pc[v] # "idle" /\ pc[w] # "idle" /\ current[v] = current[w] => v = w

HoldInv == TypeInv /\ Holding /\ Alone

(* A message nobody holds may become visible, and then be received.        *)
LEMMA HeldStays ==
    ASSUME HoldInv, NEW m \in Messages, \A w \in Workers : ~ Holds(w, m),
           NEW place, inbox' = [inbox EXCEPT ![m] = place], UNCHANGED <<pc, current>>
    PROVE  Holding' /\ Alone'
BY DEF HoldInv, TypeInv, HandlersTyped, QueueTyped, Holding, Alone, Holds

LEMMA ReceiveHolds ==
    ASSUME HoldInv, NEW w \in Workers, Receive(w)
    PROVE  Holding' /\ Alone'
<1>1. PICK m \in Messages :
          /\ inbox[m] = "visible"
          /\ inbox' = [inbox EXCEPT ![m] = "inflight"]
          /\ current' = [current EXCEPT ![w] = m]
          /\ \E to \in {"find", "delete"} : pc' = [pc EXCEPT ![w] = to]
  BY DEF Receive
<1>2. pc[w] = "idle"
  BY DEF Receive
<1>3. ASSUME NEW v \in Workers, v # w
      PROVE  UNCHANGED <<pc[v], current[v]>> /\ (pc[v] # "idle" => current[v] # m)
  BY <1>1, <1>3 DEF HoldInv, TypeInv, HandlersTyped, Holding
<1>4. current'[w] = m /\ inbox'[m] = "inflight"
  BY <1>1 DEF HoldInv, TypeInv, HandlersTyped, QueueTyped
<1>5. Holding'
  BY <1>1, <1>3, <1>4 DEF HoldInv, TypeInv, HandlersTyped, QueueTyped, Holding
<1>6. Alone'
  BY <1>3, <1>4 DEF HoldInv, Alone
<1>7. QED
  BY <1>5, <1>6

LEMMA ExecuteHolds ==
    ASSUME HoldInv, NEW w \in Workers, Execute(w) \/ CallFails(w)
    PROVE  Holding' /\ Alone'
<1>1. UNCHANGED inbox
  BY DEF Execute, FindExecution, SaveRunning, PublishStarted, Download, Extract, Pack, RunStep,
     Upload, SaveOutcome, PublishOutcome, WasNotified, Send, MarkNotified, Continue, CallFails, queue
<1>2. pc[w] # "idle" /\ UNCHANGED current /\ \E to : pc' = [pc EXCEPT ![w] = to]
  BY ExecuteMoves DEF HoldInv, Moves
<1>3. \A v \in Workers : pc'[v] # "idle" => pc[v] # "idle"
  BY <1>2 DEF HoldInv, TypeInv, HandlersTyped
<1>4. QED
  BY <1>1, <1>2, <1>3 DEF HoldInv, Holding, Alone

LEMMA ReturnHolds ==
    ASSUME HoldInv, NEW w \in Workers, Finish(w) \/ Crash(w)
    PROVE  Holding' /\ Alone'
<1>1. pc[w] # "idle" /\ Return(w)
  BY DEF Finish, DeleteMessage, RetryMessage, Crash
<1>2. \E place : inbox' = [inbox EXCEPT ![current[w]] = place] \/ UNCHANGED inbox
  BY DEF Finish, DeleteMessage, RetryMessage, Release, Crash, queue
<1>3. ASSUME NEW v \in Workers, pc'[v] # "idle"
      PROVE  v # w /\ pc[v] # "idle" /\ UNCHANGED current[v]
  BY <1>1, <1>3 DEF Return, HoldInv, TypeInv, HandlersTyped
<1>4. ASSUME NEW v \in Workers, pc'[v] # "idle"
      PROVE  inbox'[current'[v]] = "inflight"
  <2>1. current[v] # current[w] /\ inbox[current[v]] = "inflight"
    BY <1>1, <1>3, <1>4 DEF HoldInv, Holding, Alone
  <2>2. current[v] \in Messages
    BY <1>3, <1>4 DEF HoldInv, TypeInv, HandlersTyped
  <2>3. QED
    BY <1>2, <1>3, <1>4, <2>1, <2>2 DEF HoldInv, TypeInv, QueueTyped
<1>5. QED
  BY <1>3, <1>4 DEF HoldInv, Holding, Alone

LEMMA StepHolds == OneDelivery /\ HoldInv /\ [Next]_vars => HoldInv'
<1> SUFFICES ASSUME OneDelivery, HoldInv, [Next]_vars
             PROVE  HoldInv'
  OBVIOUS
<1>1. TypeInv'
  BY StepTyped DEF HoldInv
<1>2. ASSUME NEW m \in Messages, Arrive(m) \/ Expire(m) \/ DeadLetter(m)
      PROVE  Holding' /\ Alone'
  <2>1. \A w \in Workers : ~ Holds(w, m)
    BY <1>2 DEF Arrive, Expire, DeadLetter, Holds, OneDelivery, HoldInv, Holding
  <2>2. UNCHANGED <<pc, current>> /\ \E place : inbox' = [inbox EXCEPT ![m] = place]
    BY <1>2 DEF Arrive, Expire, DeadLetter, handlers
  <2>3. QED
    BY <2>1, <2>2, HeldStays
<1>3. ASSUME UNCHANGED vars
      PROVE  Holding' /\ Alone'
  <2>1. UNCHANGED <<inbox, pc, current>>
    BY <1>3 DEF vars, queue, handlers
  <2>2. QED
    BY <2>1 DEF HoldInv, Holding, Alone
<1>4. ASSUME NEW w \in Workers, Receive(w) \/ Execute(w) \/ Finish(w) \/ CallFails(w) \/ Crash(w)
      PROVE  Holding' /\ Alone'
  BY <1>4, ReceiveHolds, ExecuteHolds, ReturnHolds
<1>5. QED
  BY <1>1, <1>2, <1>3, <1>4 DEF HoldInv, Next

(***************************************************************************)
(* The copy of the one goroutine that executes a request agrees with the   *)
(* table.                                                                  *)
(***************************************************************************)

Running == {"running", "started", "download", "extract", "pack", "upload"}

(* Until it has saved the outcome, a goroutine executes the Attempt it     *)
(* received of a request that is not settled; from then on its copy is the *)
(* Execution in the table.                                                 *)
CopyAgrees(w) ==
    /\ pc[w] \in Running \cup {"find", "save"} => exec[w].attempt = receives[current[w]]
    /\ pc[w] \in Running \cup {"find"} => exec[w].outcome = "RUNNING"
    /\ pc[w] \in Running \cup {"save"} => execution[Request(w)].outcome \notin Final
    /\ pc[w] \in Notifying \cup {"publish"} => execution[Request(w)] = exec[w]

AnnouncedIsFinal ==
    \A r \in Requests, o \in Final : Announced(r, o) => execution[r].outcome = o

AttemptsReceived ==
    \A m \in Messages :
        RequestOf[m] \in Requests => execution[RequestOf[m]].attempt <= receives[m]

AgreeInv ==
    /\ HoldInv
    /\ \A w \in Workers : CopyAgrees(w)
    /\ AnnouncedIsFinal
    /\ AttemptsReceived

(* The Execution in the table is saved by a goroutine that executes it.    *)
LEMMA SavedWhileExecuting ==
    ASSUME AgreeInv, Next, NEW r \in Requests, execution'[r] # execution[r]
    PROVE  /\ execution[r].outcome \notin Final
           /\ UNCHANGED <<published, receives>>
           /\ \E w \in Workers :
                  /\ current[w] \in Messages /\ RequestOf[current[w]] = r /\ pc'[w] # pc[w]
                  /\ execution'[r].attempt = receives[current[w]]
<1>1. PICK w \in Workers :
          /\ SaveRunning(w) \/ SaveOutcome(w)
          /\ Request(w) = r /\ execution'[r] = exec[w]
  BY ExecutionIsSaved DEF AgreeInv, HoldInv
<1>2. pc[w] \in {"running", "save"} /\ UNCHANGED <<published, receives>>
  BY <1>1 DEF SaveRunning, SaveOutcome, Continue, queue, outside
<1>3. pc'[w] \in {"started", "publish", "retry"}
  BY <1>1 DEF SaveRunning, SaveOutcome, Continue, AgreeInv, HoldInv, TypeInv, HandlersTyped
<1>4. current[w] \in Messages /\ Request(w) = RequestOf[current[w]]
  BY <1>2, AtHand DEF AgreeInv, HoldInv
<1>5. exec[w].attempt = receives[current[w]] /\ execution[Request(w)].outcome \notin Final
  BY <1>2 DEF AgreeInv, CopyAgrees, Running
<1>6. QED
  BY <1>1, <1>2, <1>3, <1>4, <1>5

(* What another goroutine does leaves a copy in agreement.                 *)
LEMMA OtherAgrees ==
    ASSUME OneDelivery, AgreeInv, Next, NEW v \in Workers,
           UNCHANGED <<pc[v], current[v], exec[v]>>
    PROVE  CopyAgrees(v)'
<1> USE DEF AgreeInv, HoldInv
<1>1. CASE pc[v] \in {"idle", "delete", "retry"}
  BY <1>1 DEF CopyAgrees, Running, Notifying
<1>2. CASE pc[v] \notin {"idle", "delete", "retry"}
  <2>1. current[v] \in Messages /\ Request(v) \in Requests /\ Request(v) = RequestOf[current[v]]
    BY <1>2, AtHand
  <2>2. UNCHANGED execution[Request(v)]
    <3>1. SUFFICES ASSUME execution'[Request(v)] # execution[Request(v)]
                   PROVE  FALSE
      BY DEF Request
    <3>2. PICK w \in Workers :
              current[w] \in Messages /\ RequestOf[current[w]] = Request(v) /\ pc'[w] # pc[w]
      BY <2>1, <3>1, SavedWhileExecuting
    <3>3. current[w] = current[v]
      BY <2>1, <3>2 DEF OneDelivery
    <3>4. pc[w] # "idle"
      BY <3>2, ExecutionAssumption DEF TypeInv, HandlersTyped
    <3>5. QED
      BY <1>2, <3>2, <3>3, <3>4 DEF Alone
  <2>3. UNCHANGED receives[current[v]]
    <3>1. inbox[current[v]] = "inflight"
      BY <1>2 DEF Holding
    <3>2. ASSUME NEW w \in Workers, Receive(w)
          PROVE  UNCHANGED receives[current[v]]
      BY <2>1, <3>1, <3>2 DEF Receive, TypeInv, QueueTyped
    <3>3. ASSUME NEW m \in Messages, Arrive(m) \/ Expire(m) \/ DeadLetter(m)
          PROVE  UNCHANGED receives[current[v]]
      BY <3>3 DEF Arrive, Expire, DeadLetter
    <3>4. ASSUME NEW w \in Workers, Execute(w) \/ Finish(w) \/ CallFails(w) \/ Crash(w)
          PROVE  UNCHANGED receives[current[v]]
      BY <3>4 DEF Execute, FindExecution, SaveRunning, PublishStarted, Download, Extract, Pack,
         RunStep, Upload, SaveOutcome, PublishOutcome, WasNotified, Send, MarkNotified, Continue,
         CallFails, Crash, Finish, DeleteMessage, RetryMessage, queue
    <3>5. QED
      BY <3>2, <3>3, <3>4 DEF Next
  <2>4. UNCHANGED Request(v)
    BY DEF Request
  <2>5. CopyAgrees(v)
    OBVIOUS
  <2>6. QED
    BY <2>2, <2>3, <2>4, <2>5 DEF CopyAgrees
<1>3. QED
  BY <1>1, <1>2

(* The calls of ExecuteProcessRequest keep the agreement of their copy.    *)
LEMMA ExecuteAgrees ==
    ASSUME AgreeInv, NEW w \in Workers, Execute(w) \/ CallFails(w)
    PROVE  CopyAgrees(w)'
<1> USE DEF AgreeInv, HoldInv
<1>1. pc[w] \notin {"idle", "delete"}
  BY DEF Execute, FindExecution, SaveRunning, PublishStarted, Download, Extract, Pack, RunStep,
     Upload, SaveOutcome, PublishOutcome, WasNotified, Send, MarkNotified, Continue, CallFails
<1>2. /\ UNCHANGED <<current[w], receives[current[w]], Request(w)>>
      /\ current[w] \in Messages /\ Request(w) \in Requests /\ exec[w] \in Copies
  <2>1. UNCHANGED current
    BY ExecuteMoves DEF Moves
  <2>2. UNCHANGED receives
    BY DEF Execute, FindExecution, SaveRunning, PublishStarted, Download, Extract, Pack, RunStep,
       Upload, SaveOutcome, PublishOutcome, WasNotified, Send, MarkNotified, Continue, CallFails,
       queue
  <2>3. QED
    BY <1>1, <2>1, <2>2, AtHand DEF Request
<1>3. CopyAgrees(w)
  OBVIOUS
<1>4. ASSUME UNCHANGED <<exec[w], execution>>,
             \/ pc'[w] \in {"delete", "retry"}
             \/ pc[w] \in Running \cup {"find"} /\ pc'[w] \in Running /\ execution[Request(w)].outcome \notin Final
             \/ pc[w] \in Notifying \cup {"publish"} /\ pc'[w] \in Notifying
      PROVE  CopyAgrees(w)'
  BY <1>2, <1>3, <1>4 DEF CopyAgrees, Running, Notifying
<1>5. ASSUME NEW o, Ends(w, o), UNCHANGED execution, pc[w] \in Running
      PROVE  CopyAgrees(w)'
  <2>1. pc'[w] = "save" /\ exec'[w].attempt = exec[w].attempt
    BY <1>5 DEF Ends, TypeInv, HandlersTyped, Copies
  <2>2. QED
    BY <1>2, <1>3, <1>5, <2>1 DEF CopyAgrees, Running, Notifying
<1>6. CASE FindExecution(w)
  <2> DEFINE previous == execution[Request(w)]
  <2>1. pc[w] = "find" /\ UNCHANGED execution
    BY <1>6 DEF FindExecution, Continue, records
  <2>2. CASE previous.outcome \in Final
    <3>1. exec'[w] = previous /\ pc'[w] \in {"publish", "retry"}
      BY <1>6, <2>2 DEF FindExecution, Continue, TypeInv, HandlersTyped
    <3>2. QED
      BY <1>2, <2>1, <3>1 DEF CopyAgrees, Running, Notifying
  <2>3. CASE previous.outcome \notin Final
    <3>1. exec'[w] = exec[w] /\ pc'[w] \in {"running", "retry"}
      BY <1>6, <2>3 DEF FindExecution, Continue, TypeInv, HandlersTyped
    <3>2. QED
      BY <1>4, <2>1, <2>3, <3>1 DEF Running
  <2>4. QED
    BY <2>2, <2>3
<1>7. CASE SaveRunning(w)
  <2>1. pc[w] = "running" /\ pc'[w] \in {"started", "retry"} /\ UNCHANGED exec
        /\ execution' = [execution EXCEPT ![Request(w)] = exec[w]]
    BY <1>7 DEF SaveRunning, SaveExecution, Continue, TypeInv, HandlersTyped
  <2>2. execution'[Request(w)] = exec[w] /\ exec[w].outcome = "RUNNING"
    BY <1>2, <1>3, <2>1 DEF TypeInv, RecordsTyped, CopyAgrees, Running
  <2>3. QED
    BY <1>2, <1>3, <2>1, <2>2 DEF CopyAgrees, Running, Notifying, Final
<1>8. CASE PublishStarted(w)
  <2>1. pc[w] = "started" /\ pc'[w] \in {"download", "retry"} /\ UNCHANGED <<exec, execution>>
    BY <1>8 DEF PublishStarted, Continue, records, TypeInv, HandlersTyped
  <2>2. QED
    BY <1>3, <1>4, <2>1 DEF CopyAgrees, Running
<1>9. CASE Download(w) \/ Extract(w) \/ Pack(w)
  <2>1. pc[w] \in {"download", "extract", "pack"} /\ UNCHANGED execution
    BY <1>9 DEF Download, Extract, Pack, RunStep, records
  <2>2. \/ pc'[w] \in {"extract", "pack", "upload"} /\ UNCHANGED exec
        \/ \E o \in {"FAILED", "RETRYING"} : Ends(w, o)
    BY <1>9, FailsEnds DEF Download, Extract, Pack, RunStep, TypeInv, HandlersTyped
  <2>3. QED
    BY <1>3, <1>4, <1>5, <2>1, <2>2 DEF CopyAgrees, Running
<1>10. CASE Upload(w)
  <2>1. pc[w] = "upload" /\ UNCHANGED execution /\ \E o : Ends(w, o)
    BY <1>10, FailsEnds DEF Upload, records
  <2>2. QED
    BY <1>5, <2>1 DEF Running
<1>11. CASE SaveOutcome(w)
  <2>1. pc[w] = "save" /\ pc'[w] \in {"publish", "retry"} /\ UNCHANGED exec
        /\ execution' = [execution EXCEPT ![Request(w)] = exec[w]]
    BY <1>11 DEF SaveOutcome, SaveExecution, Continue, TypeInv, HandlersTyped
  <2>2. execution'[Request(w)] = exec[w]
    BY <1>2, <2>1 DEF TypeInv, RecordsTyped
  <2>3. QED
    BY <1>2, <2>1, <2>2 DEF CopyAgrees, Running, Notifying
<1>12. CASE PublishOutcome(w) \/ WasNotified(w) \/ Send(w) \/ MarkNotified(w)
  <2>1. pc[w] \in {"publish", "lookup", "send", "mark"} /\ UNCHANGED <<exec, execution>>
    BY <1>12 DEF PublishOutcome, WasNotified, Send, MarkNotified, Continue, records
  <2>2. pc'[w] \in {"lookup", "send", "mark", "delete", "retry"}
    BY <1>12 DEF PublishOutcome, WasNotified, Send, MarkNotified, Continue, TypeInv, HandlersTyped
  <2>3. QED
    BY <1>4, <2>1, <2>2 DEF Notifying
<1>13. CASE CallFails(w)
  <2>1. pc'[w] = "retry" /\ UNCHANGED <<exec, execution>>
    BY <1>13 DEF CallFails, records, TypeInv, HandlersTyped
  <2>2. QED
    BY <1>4, <2>1
<1>14. QED
  BY <1>6, <1>7, <1>8, <1>9, <1>10, <1>11, <1>12, <1>13 DEF Execute

LEMMA ReceiveAgrees ==
    ASSUME AgreeInv, NEW w \in Workers, Receive(w)
    PROVE  CopyAgrees(w)'
<1>1. PICK m \in Messages :
          /\ receives' = [receives EXCEPT ![m] = @ + 1]
          /\ current' = [current EXCEPT ![w] = m]
          /\ pc' = [pc EXCEPT ![w] = IF RequestOf[m] \in Requests THEN "find" ELSE "delete"]
          /\ exec' = [exec EXCEPT ![w] = [outcome |-> "RUNNING", attempt |-> receives[m] + 1]]
  BY DEF Receive
<1>2. /\ pc'[w] \in {"find", "delete"} /\ current'[w] = m /\ receives'[m] = receives[m] + 1
      /\ exec'[w] = [outcome |-> "RUNNING", attempt |-> receives[m] + 1]
  BY <1>1 DEF AgreeInv, HoldInv, TypeInv, HandlersTyped, QueueTyped
<1>3. QED
  BY <1>2 DEF CopyAgrees, Running, Notifying

(* What was announced is still the outcome in the table, and what a step   *)
(* announces is: only the executing goroutine writes, and it announces     *)
(* after it has written.                                                   *)
LEMMA StepAnnounces ==
    ASSUME AgreeInv, Next
    PROVE  AnnouncedIsFinal'
<1> USE DEF AgreeInv, HoldInv
<1> SUFFICES ASSUME NEW r \in Requests, NEW o \in Final, Announced(r, o)'
             PROVE  execution'[r].outcome = o
  BY DEF AnnouncedIsFinal
<1>1. CASE execution'[r] # execution[r]
  <2>1. execution[r].outcome \notin Final /\ UNCHANGED published
    BY <1>1, SavedWhileExecuting
  <2>2. Announced(r, o)
    BY <2>1 DEF Announced
  <2>3. QED
    BY <2>1, <2>2 DEF AnnouncedIsFinal
<1>2. CASE execution'[r] = execution[r] /\ Announced(r, o)
  BY <1>2 DEF AnnouncedIsFinal
<1>3. CASE execution'[r] = execution[r] /\ ~ Announced(r, o)
  <2>1. PICK w \in Workers : PublishOutcome(w) /\ Request(w) = r /\ exec[w].outcome = o
    BY <1>3, AnnouncedByPublish
  <2>2. execution[r] = exec[w]
    BY <2>1 DEF PublishOutcome, Continue, CopyAgrees
  <2>3. QED
    BY <1>3, <2>1, <2>2
<1>4. QED
  BY <1>1, <1>2, <1>3

LEMMA ReceivesGrow ==
    ASSUME TypeInv, Next, NEW m \in Messages
    PROVE  receives[m] <= receives'[m]
<1>1. receives[m] \in Nat
  BY DEF TypeInv, QueueTyped
<1>2. ASSUME UNCHANGED receives
      PROVE  receives[m] <= receives'[m]
  BY <1>1, <1>2
<1>3. ASSUME NEW w \in Workers, Receive(w)
      PROVE  receives[m] <= receives'[m]
  BY <1>1, <1>3 DEF Receive, TypeInv, QueueTyped
<1>4. ASSUME NEW n \in Messages, Arrive(n) \/ Expire(n) \/ DeadLetter(n)
      PROVE  receives[m] <= receives'[m]
  BY <1>2, <1>4 DEF Arrive, Expire, DeadLetter
<1>5. ASSUME NEW w \in Workers, Execute(w) \/ Finish(w) \/ CallFails(w) \/ Crash(w)
      PROVE  receives[m] <= receives'[m]
  BY <1>2, <1>5 DEF Execute, FindExecution, SaveRunning, PublishStarted, Download, Extract, Pack,
     RunStep, Upload, SaveOutcome, PublishOutcome, WasNotified, Send, MarkNotified, Continue,
     CallFails, Crash, Finish, DeleteMessage, RetryMessage, queue
<1>6. QED
  BY <1>3, <1>4, <1>5 DEF Next

LEMMA StepReceives ==
    ASSUME OneDelivery, AgreeInv, Next
    PROVE  AttemptsReceived'
<1> USE DEF AgreeInv, HoldInv
<1> SUFFICES ASSUME NEW m \in Messages, RequestOf[m] \in Requests
             PROVE  execution'[RequestOf[m]].attempt <= receives'[m]
  BY DEF AttemptsReceived
<1> DEFINE r == RequestOf[m]
<1>1. receives[m] \in Nat /\ receives'[m] \in Nat /\ execution[r].attempt \in Nat
  BY StepTyped DEF TypeInv, QueueTyped, RecordsTyped, Copies
<1>2. CASE execution'[r] = execution[r]
  BY <1>1, <1>2, ReceivesGrow DEF AttemptsReceived
<1>3. CASE execution'[r] # execution[r]
  <2>1. PICK w \in Workers :
            /\ current[w] \in Messages /\ RequestOf[current[w]] = r
            /\ execution'[r].attempt = receives[current[w]]
    BY <1>3, SavedWhileExecuting
  <2>2. current[w] = m
    BY <2>1 DEF OneDelivery
  <2>3. QED
    BY <1>1, <2>1, <2>2, ReceivesGrow
<1>4. QED
  BY <1>2, <1>3

LEMMA StepAgrees == OneDelivery /\ AgreeInv /\ [Next]_vars => AgreeInv'
<1> SUFFICES ASSUME OneDelivery, AgreeInv, [Next]_vars
             PROVE  AgreeInv'
  OBVIOUS
<1>1. HoldInv'
  BY StepHolds DEF AgreeInv
<1>2. CASE Next
  <2>1. ASSUME NEW m \in Messages, Arrive(m) \/ Expire(m) \/ DeadLetter(m), NEW v \in Workers
        PROVE  CopyAgrees(v)'
    BY <1>2, <2>1, OtherAgrees DEF Arrive, Expire, DeadLetter, handlers
  <2>2. ASSUME NEW w \in Workers, Receive(w), NEW v \in Workers
        PROVE  CopyAgrees(v)'
    <3>1. CASE v = w
      BY <2>2, <3>1, ReceiveAgrees
    <3>2. CASE v # w
      <4>1. UNCHANGED <<pc[v], current[v], exec[v]>>
        BY <2>2, <3>2 DEF Receive, AgreeInv, HoldInv, TypeInv, HandlersTyped
      <4>2. QED
        BY <1>2, <4>1, OtherAgrees
    <3>3. QED
      BY <3>1, <3>2
  <2>3. ASSUME NEW w \in Workers, Execute(w) \/ CallFails(w), NEW v \in Workers
        PROVE  CopyAgrees(v)'
    <3>1. CASE v = w
      BY <2>3, <3>1, ExecuteAgrees
    <3>2. CASE v # w
      <4>1. UNCHANGED <<pc[v], current[v], exec[v]>>
        BY <2>3, <3>2, ExecuteMoves, OthersStay DEF AgreeInv, HoldInv, TypeInv
      <4>2. QED
        BY <1>2, <4>1, OtherAgrees
    <3>3. QED
      BY <3>1, <3>2
  <2>4. ASSUME NEW w \in Workers, Finish(w) \/ Crash(w), NEW v \in Workers
        PROVE  CopyAgrees(v)'
    <3>1. Return(w)
      BY <2>4 DEF Finish, DeleteMessage, RetryMessage, Crash
    <3>2. CASE v = w
      BY <3>1, <3>2 DEF Return, CopyAgrees, Running, Notifying, AgreeInv, HoldInv, TypeInv, HandlersTyped
    <3>3. CASE v # w
      <4>1. UNCHANGED <<pc[v], current[v], exec[v]>>
        BY <3>1, <3>3 DEF Return, AgreeInv, HoldInv, TypeInv, HandlersTyped
      <4>2. QED
        BY <1>2, <4>1, OtherAgrees
    <3>4. QED
      BY <3>2, <3>3
  <2>5. \A v \in Workers : CopyAgrees(v)'
    BY <1>2, <2>1, <2>2, <2>3, <2>4 DEF Next
  <2>6. QED
    BY <1>1, <1>2, <2>5, StepAnnounces, StepReceives DEF AgreeInv
<1>3. CASE UNCHANGED vars
  <2>1. UNCHANGED <<execution, published, receives, pc, current, exec>>
    BY <1>3 DEF vars, records, outside, queue, handlers
  <2>2. (\A w \in Workers : CopyAgrees(w)') /\ AnnouncedIsFinal' /\ AttemptsReceived'
    BY <2>1 DEF AgreeInv, CopyAgrees, Request, AnnouncedIsFinal, Announced, AttemptsReceived
  <2>3. QED
    BY <1>1, <2>2 DEF AgreeInv
<1>4. QED
  BY <1>2, <1>3

LEMMA Agreement ==
    ASSUME OneDelivery
    PROVE  Spec => []AgreeInv
<1>1. Init => AgreeInv
  <2> SUFFICES ASSUME Init PROVE AgreeInv
    OBVIOUS
  <2>1. HoldInv
    BY InitTyped DEF Init, HoldInv, Holding, Alone
  <2>2. \A w \in Workers : CopyAgrees(w)
    BY DEF Init, CopyAgrees, Running, Notifying
  <2>3. AnnouncedIsFinal /\ AttemptsReceived
    BY DEF Init, AnnouncedIsFinal, Announced, AttemptsReceived, NoExecution
  <2>4. QED
    BY <2>1, <2>2, <2>3 DEF AgreeInv
<1>2. AgreeInv /\ [Next]_vars => AgreeInv'
  BY StepAgrees
<1>3. QED
  BY <1>1, <1>2, PTL DEF Spec

(***************************************************************************)
(* The theorems.                                                           *)
(***************************************************************************)

(* All of the above, together.                                             *)
SerialInv == AgreeInv /\ ExecutionInv

LEMMA SerialInvariant ==
    ASSUME OneDelivery
    PROVE  Spec => []SerialInv
BY ExecutionInvariant, Agreement, PTL DEF SerialInv

(* What the api and the User are told is what the table says, for good,    *)
(* and the zip is there: for any number of goroutines and requests,        *)
(* whatever calls fail or lose their answer and whatever pods die, as long *)
(* as each request comes in one message and the heartbeats hold.           *)
THEOREM AnnouncementsTrue ==
    ASSUME OneDelivery
    PROVE  Spec => []AnnouncedIsRecorded
<1>1. SerialInv => AnnouncedIsRecorded
  BY DEF SerialInv, ExecutionInv, AgreeInv, AnnouncedIsFinal, ZipInv, CompletedHasZip,
     MailedIsAnnounced, AnnouncedIsRecorded
<1>2. QED
  BY <1>1, SerialInvariant, PTL

(* A final Execution is never overwritten, under the same assumption.      *)
THEOREM FinalStaysFinal ==
    ASSUME OneDelivery
    PROVE  Spec => OutcomeIsFinal
<1>1. AgreeInv /\ [Next]_vars =>
          [\A r \in Requests :
               execution[r].outcome \in Final => execution'[r] = execution[r]]_vars
  BY SavedWhileExecuting
<1>2. QED
  BY <1>1, Agreement, PTL DEF Spec, OutcomeIsFinal

(* Attempts only grow, and an announced request is not executed again,     *)
(* under the same assumption.                                              *)
THEOREM AttemptsOnlyAdvance ==
    ASSUME OneDelivery
    PROVE  Spec => AttemptsAdvance
<1>1. AgreeInv /\ [Next]_vars =>
          [\A r \in Requests :
               /\ execution'[r].attempt >= execution[r].attempt
               /\ (\E o \in Final : Announced(r, o)) =>
                      \A ev \in published' \ published : ev.request = r => ev.type # "Started"]_vars
  <2> SUFFICES ASSUME AgreeInv, Next, NEW r \in Requests
               PROVE  /\ execution'[r].attempt >= execution[r].attempt
                      /\ (\E o \in Final : Announced(r, o)) =>
                             \A ev \in published' \ published : ev.request = r => ev.type # "Started"
    OBVIOUS
  <2>1. execution[r].attempt \in Nat
    BY DEF AgreeInv, HoldInv, TypeInv, RecordsTyped, Copies
  <2>2. execution'[r].attempt >= execution[r].attempt
    <3>1. CASE execution'[r] = execution[r]
      BY <2>1, <3>1
    <3>2. CASE execution'[r] # execution[r]
      <4>1. PICK w \in Workers :
                /\ current[w] \in Messages /\ RequestOf[current[w]] = r
                /\ execution'[r].attempt = receives[current[w]]
        BY <3>2, SavedWhileExecuting
      <4>2. receives[current[w]] \in Nat
        BY <4>1 DEF AgreeInv, HoldInv, TypeInv, QueueTyped
      <4>3. QED
        BY <2>1, <4>1, <4>2 DEF AgreeInv, AttemptsReceived
    <3>3. QED
      BY <3>1, <3>2
  <2>3. ASSUME NEW o \in Final, Announced(r, o),
               NEW ev \in published' \ published, ev.request = r
        PROVE  ev.type # "Started"
    <3>1. PICK w \in Workers :
              \/ PublishStarted(w) /\ ev = Started(Request(w), exec[w].attempt)
              \/ PublishOutcome(w) /\ ev = Announcement(Request(w), exec[w])
      BY <2>3, EventIsPublished DEF AgreeInv, HoldInv
    <3>2. CASE PublishStarted(w) /\ ev = Started(Request(w), exec[w].attempt)
      <4>1. Request(w) = r
        BY <2>3, <3>2 DEF Started
      <4>2. execution[r].outcome \notin Final
        BY <3>2, <4>1 DEF PublishStarted, Continue, AgreeInv, CopyAgrees, Running
      <4>3. QED
        BY <2>3, <4>2 DEF AgreeInv, AnnouncedIsFinal
    <3>3. CASE PublishOutcome(w) /\ ev = Announcement(Request(w), exec[w])
      BY <3>3 DEF Announcement
    <3>4. QED
      BY <3>1, <3>2, <3>3
  <2>4. QED
    BY <2>2, <2>3
<1>2. QED
  BY <1>1, Agreement, PTL DEF Spec, AttemptsAdvance

(***************************************************************************)
(* What a step does to the records, for those who compose the worker with  *)
(* the services it talks to.                                               *)
(***************************************************************************)

Saves(r) ==
    /\ execution[r].outcome \notin Final
    /\ \E e \in Copies : /\ execution' = [execution EXCEPT ![r] = e]
                         /\ e.outcome = "COMPLETED" => stored[r]
    /\ UNCHANGED <<stored, mails>>

Stores(r) ==
    /\ execution[r].outcome \notin Final
    /\ stored' = [stored EXCEPT ![r] = TRUE]
    /\ UNCHANGED <<execution, mails>>

MailsOutcome(r) ==
    /\ mails' = [mails EXCEPT ![r][execution[r].outcome] = @ + 1]
    /\ execution[r].outcome \in Final
    /\ UNCHANGED <<execution, stored>>

LEMMA StepRecords ==
    ASSUME SerialInv, [Next]_vars
    PROVE  \/ UNCHANGED <<execution, stored, mails>>
           \/ \E w \in Workers, r \in Requests :
                 Handles(w, r) /\ (Saves(r) \/ Stores(r) \/ MailsOutcome(r))
<1> USE DEF SerialInv
<1>1. ASSUME NEW w \in Workers, SaveRunning(w) \/ SaveOutcome(w)
      PROVE  Handles(w, Request(w)) /\ Saves(Request(w))
  <2>1. pc[w] \in {"running", "save"} /\ UNCHANGED <<stored, mails>>
        /\ execution' = [execution EXCEPT ![Request(w)] = exec[w]]
    BY <1>1 DEF SaveRunning, SaveOutcome, SaveExecution, Continue, outside
  <2>2. Handles(w, Request(w)) /\ exec[w] \in Copies
    BY <2>1, HandlesOne, AtHand DEF AgreeInv, HoldInv
  <2>3. execution[Request(w)].outcome \notin Final
    BY <2>1 DEF AgreeInv, CopyAgrees, Running
  <2>4. exec[w].outcome = "COMPLETED" => stored[Request(w)]
    BY <2>1, <2>2 DEF ExecutionInv, ZipInv, CopyHasZip, Handles
  <2>5. QED
    BY <2>1, <2>2, <2>3, <2>4 DEF Saves
<1>2. ASSUME NEW w \in Workers, Upload(w)
      PROVE  \/ UNCHANGED <<execution, stored, mails>>
             \/ Handles(w, Request(w)) /\ Stores(Request(w))
  <2>1. pc[w] = "upload" /\ UNCHANGED <<execution, mails>>
        /\ (UNCHANGED stored \/ stored' = [stored EXCEPT ![Request(w)] = TRUE])
    BY <1>2 DEF Upload, records
  <2>2. Handles(w, Request(w)) /\ execution[Request(w)].outcome \notin Final
    BY <2>1, HandlesOne DEF AgreeInv, CopyAgrees, Running
  <2>3. QED
    BY <2>1, <2>2 DEF Stores
<1>3. ASSUME NEW w \in Workers, Send(w)
      PROVE  Handles(w, Request(w)) /\ MailsOutcome(Request(w))
  <2>1. pc[w] = "send" /\ UNCHANGED <<execution, stored>>
        /\ mails' = [mails EXCEPT ![Request(w)][exec[w].outcome] = @ + 1]
    BY <1>3 DEF Send, Continue, records
  <2>2. Handles(w, Request(w)) /\ exec[w].outcome \in Final
    BY <2>1, HandlesOne, AtHand DEF AgreeInv, HoldInv, MayBeAt, Notifying
  <2>3. execution[Request(w)] = exec[w]
    BY <2>1 DEF AgreeInv, CopyAgrees, Notifying
  <2>4. QED
    BY <2>1, <2>2, <2>3 DEF MailsOutcome
<1>4. ASSUME NEW w \in Workers,
             Receive(w) \/ FindExecution(w) \/ PublishStarted(w) \/ Download(w) \/ Extract(w)
             \/ Pack(w) \/ PublishOutcome(w) \/ WasNotified(w) \/ MarkNotified(w)
             \/ Finish(w) \/ CallFails(w) \/ Crash(w)
      PROVE  UNCHANGED <<execution, stored, mails>>
  BY <1>4 DEF Receive, FindExecution, PublishStarted, Download, Extract, Pack, RunStep,
     PublishOutcome, WasNotified, MarkNotified, Finish, DeleteMessage, RetryMessage, CallFails,
     Crash, records, outside
<1>5. ASSUME NEW m \in Messages, Arrive(m) \/ Expire(m) \/ DeadLetter(m)
      PROVE  UNCHANGED <<execution, stored, mails>>
  BY <1>5 DEF Arrive, Expire, DeadLetter, records, outside
<1>6. UNCHANGED vars => UNCHANGED <<execution, stored, mails>>
  BY DEF vars, records, outside
<1>7. ASSUME NEW w \in Workers, Handles(w, Request(w))
      PROVE  Request(w) \in Requests
  BY <1>7 DEF Handles
<1>8. QED
  BY <1>1, <1>2, <1>3, <1>4, <1>5, <1>6, <1>7 DEF Next, Execute
=============================================================================
