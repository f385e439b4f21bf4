-------------------------- MODULE ExecutionProofs --------------------------
(***************************************************************************)
(* Machine-checked theorems about Execution, for every set of requests,    *)
(* messages and workers, every bound and every combination of faults.      *)
(***************************************************************************)
EXTENDS Execution, TLAPS

(***************************************************************************)
(* Types.                                                                  *)
(***************************************************************************)

(* The calls that make a final outcome known.                              *)
Notifying == {"lookup", "send", "mark"}

Copies == [outcome : Outcomes, attempt : Nat]
Events == [type : {"Started", "Completed", "Failed"}, request : Requests,
           retryable : BOOLEAN, attempt : Nat]

(* The type invariant, in the parts a step changes together.               *)
RecordsTyped ==
    /\ execution \in [Requests -> Copies]
    /\ notified \in [Requests -> SUBSET Final]
OutsideTyped ==
    /\ stored \in [Requests -> BOOLEAN]
    /\ published \subseteq Events
    /\ mails \in [Requests -> [Final -> Nat]]
QueueTyped ==
    /\ inbox \in [Messages -> Places]
    /\ receives \in [Messages -> Nat]
HandlersTyped ==
    /\ pc \in [Workers -> Calls]
    /\ current \in [Workers -> Messages \cup {NoMessage}]
    /\ \A w \in Workers : pc[w] = "idle" <=> current[w] = NoMessage
    /\ exec \in [Workers -> Copies]

(* Only a malformed message goes straight to its deletion, and what a      *)
(* goroutine saves, announces and mails is an outcome.                     *)
MayBeAt(w, at, e) ==
    /\ at \notin {"idle", "delete"} => Request(w) \in Requests
    /\ at \in {"save", "publish"} => e.outcome \in Final \cup {"RETRYING"}
    /\ at \in Notifying => e.outcome \in Final

HandlersApt == \A w \in Workers : MayBeAt(w, pc[w], exec[w])

TypeInv == RecordsTyped /\ OutsideTyped /\ QueueTyped /\ HandlersTyped /\ HandlersApt

LEMMA TypeInvIsTypeOK == TypeInv => TypeOK
BY DEF TypeInv, TypeOK, RecordsTyped, OutsideTyped, QueueTyped, HandlersTyped, Copies, Events

LEMMA InitTyped == Init => TypeInv
<1> SUFFICES ASSUME Init PROVE TypeInv
  OBVIOUS
<1>1. NoExecution \in Copies
  BY DEF NoExecution, Copies, Outcomes
<1>2. RecordsTyped /\ OutsideTyped /\ QueueTyped
  BY <1>1 DEF Init, RecordsTyped, OutsideTyped, QueueTyped, Places
<1>3. HandlersTyped
  BY <1>1 DEF Init, HandlersTyped, Calls
<1>4. HandlersApt
  BY DEF Init, HandlersApt, MayBeAt, Notifying
<1>5. QED
  BY <1>2, <1>3, <1>4 DEF TypeInv

(* A goroutine with a message at hand goes on to the call "to" with the    *)
(* copy e of its Execution.                                                *)
Moves(w, to, e) ==
    /\ pc[w] # "idle"
    /\ pc' = [pc EXCEPT ![w] = to]
    /\ exec' = [exec EXCEPT ![w] = e]
    /\ UNCHANGED current

LEMMA MoveTyped ==
    ASSUME HandlersTyped, HandlersApt,
           NEW w \in Workers, NEW to \in Calls \ {"idle"}, NEW e \in Copies,
           Moves(w, to, e), MayBeAt(w, to, e)
    PROVE  HandlersTyped' /\ HandlersApt'
<1>1. HandlersTyped'
  BY DEF HandlersTyped, Moves
<1>2. ASSUME NEW v \in Workers PROVE MayBeAt(v, pc[v], exec[v])'
  <2>1. CASE v = w
    BY <2>1 DEF Moves, MayBeAt, Request, HandlersTyped
  <2>2. CASE v # w
    BY <2>2 DEF Moves, MayBeAt, Request, HandlersTyped, HandlersApt
  <2>3. QED
    BY <2>1, <2>2
<1>3. QED
  BY <1>1, <1>2 DEF HandlersApt

(* The next call of a goroutine, or the retry of its message.              *)
LEMMA ContinueMoves ==
    ASSUME HandlersTyped, HandlersApt, NEW w \in Workers, NEW from \in Calls \ {"idle", "delete"},
           NEW to, Continue(w, from, to), UNCHANGED exec
    PROVE  /\ pc[w] = from /\ Request(w) \in Requests /\ exec[w] \in Copies
           /\ MayBeAt(w, from, exec[w])
           /\ \E next \in {to, "retry"} : Moves(w, next, exec[w])
<1>1. pc[w] = from /\ UNCHANGED current
  BY DEF Continue
<1>2. Request(w) \in Requests /\ exec[w] \in Copies /\ MayBeAt(w, from, exec[w])
  BY <1>1 DEF HandlersApt, MayBeAt, HandlersTyped
<1>3. exec' = [exec EXCEPT ![w] = exec[w]]
  BY DEF HandlersTyped
<1>4. PICK next \in {to, "retry"} : pc' = [pc EXCEPT ![w] = next]
  BY DEF Continue
<1>5. QED
  BY <1>1, <1>2, <1>3, <1>4 DEF Moves

(* A step of run that fails ends the run with FAILED or RETRYING.          *)
LEMMA FailsEnds ==
    ASSUME NEW w \in Workers, NEW errors, Fails(w, errors)
    PROVE  \E o \in {"FAILED", "RETRYING"} : Ends(w, o)
BY DEF Fails

LEMMA EndsMoves ==
    ASSUME HandlersTyped, HandlersApt, NEW w \in Workers, NEW o \in Final \cup {"RETRYING"},
           pc[w] \in {"download", "extract", "pack", "upload"}, Ends(w, o), UNCHANGED current
    PROVE  \E e \in Copies : /\ Moves(w, "save", e) /\ MayBeAt(w, "save", e)
                             /\ e.outcome = o /\ e.attempt = exec[w].attempt
<1> DEFINE e == [exec[w] EXCEPT !.outcome = o]
<1>1. e \in Copies /\ e.outcome = o /\ e.attempt = exec[w].attempt
  BY DEF HandlersTyped, Copies, Outcomes
<1>2. exec' = [exec EXCEPT ![w] = e] /\ pc' = [pc EXCEPT ![w] = "save"]
  BY DEF Ends
<1>3. MayBeAt(w, "save", e)
  BY <1>1 DEF HandlersApt, MayBeAt, Notifying
<1> HIDE DEF e
<1>4. QED
  BY <1>1, <1>2, <1>3 DEF Moves

LEMMA RunStepMoves ==
    ASSUME HandlersTyped, HandlersApt, NEW w \in Workers,
           NEW from \in {"download", "extract", "pack"}, NEW to \in {"extract", "pack", "upload"},
           NEW errors, RunStep(w, from, to, errors)
    PROVE  \E next \in {to, "save"}, e \in Copies : Moves(w, next, e) /\ MayBeAt(w, next, e)
<1>1. pc[w] = from /\ UNCHANGED current
  BY DEF RunStep
<1>2. CASE pc' = [pc EXCEPT ![w] = to] /\ UNCHANGED exec
  <2>1. exec[w] \in Copies /\ exec' = [exec EXCEPT ![w] = exec[w]]
    BY <1>2 DEF HandlersTyped
  <2>2. MayBeAt(w, to, exec[w])
    BY <1>1 DEF HandlersApt, MayBeAt, Notifying
  <2>3. QED
    BY <1>1, <1>2, <2>1, <2>2 DEF Moves
<1>3. CASE Fails(w, errors)
  BY <1>1, <1>3, FailsEnds, EndsMoves DEF Final
<1>4. QED
  BY <1>2, <1>3 DEF RunStep

(* Every call of ExecuteProcessRequest moves its goroutine on, to a call   *)
(* it may be at.                                                           *)
LEMMA ExecuteMoves ==
    ASSUME TypeInv, NEW w \in Workers, Execute(w) \/ CallFails(w)
    PROVE  \E to \in Calls \ {"idle"}, e \in Copies : Moves(w, to, e) /\ MayBeAt(w, to, e)
<1> USE DEF TypeInv
<1> DEFINE Goal == \E to \in Calls \ {"idle"}, e \in Copies : Moves(w, to, e) /\ MayBeAt(w, to, e)
<1>1. ASSUME NEW from \in Calls \ {"idle", "delete"}, NEW to \in Calls \ {"idle"},
             Continue(w, from, to), UNCHANGED exec,
             MayBeAt(w, from, exec[w]) /\ Request(w) \in Requests => MayBeAt(w, to, exec[w])
      PROVE  Goal
  <2>1. PICK next \in {to, "retry"} : Moves(w, next, exec[w])
    BY <1>1, ContinueMoves
  <2>2. /\ exec[w] \in Copies
        /\ MayBeAt(w, to, exec[w])
        /\ MayBeAt(w, "retry", exec[w])
    BY <1>1, ContinueMoves DEF MayBeAt, Notifying
  <2>3. QED
    BY <2>1, <2>2 DEF Calls
<1>2. CASE FindExecution(w)
  <2> DEFINE previous == execution[Request(w)]
             e == IF previous.outcome \in Final THEN previous ELSE exec[w]
             to == IF previous.outcome \in Final THEN "publish" ELSE "running"
  <2>1. pc[w] = "find" /\ UNCHANGED current /\ exec' = [exec EXCEPT ![w] = e]
    BY <1>2 DEF FindExecution, Continue
  <2>2. Request(w) \in Requests /\ e \in Copies
    BY <2>1 DEF HandlersApt, HandlersTyped, RecordsTyped, MayBeAt
  <2>3. PICK next \in {to, "retry"} : pc' = [pc EXCEPT ![w] = next]
    BY <1>2 DEF FindExecution, Continue
  <2>4. next \in Calls \ {"idle"} /\ MayBeAt(w, next, e)
    BY <2>2 DEF MayBeAt, Notifying, Calls
  <2> HIDE DEF e
  <2>5. QED
    BY <2>1, <2>2, <2>3, <2>4 DEF Moves
<1>3. CASE SaveRunning(w)
  BY <1>1, <1>3 DEF SaveRunning, Calls, MayBeAt, Notifying
<1>4. CASE PublishStarted(w)
  BY <1>1, <1>4 DEF PublishStarted, Calls, MayBeAt, Notifying
<1>5. CASE Download(w) \/ Extract(w) \/ Pack(w)
  BY <1>5, RunStepMoves DEF Download, Extract, Pack, Calls
<1>6. CASE Upload(w)
  <2>1. PICK o \in {"COMPLETED", "FAILED", "RETRYING"} : Ends(w, o)
    BY <1>6, FailsEnds DEF Upload
  <2>2. pc[w] = "upload" /\ UNCHANGED current
    BY <1>6 DEF Upload
  <2>3. QED
    BY <2>1, <2>2, EndsMoves DEF Final, Calls
<1>7. CASE SaveOutcome(w)
  BY <1>1, <1>7 DEF SaveOutcome, Calls, MayBeAt, Notifying
<1>8. CASE PublishOutcome(w)
  <2> DEFINE to == IF exec[w].outcome = "RETRYING" THEN "retry" ELSE "lookup"
  <2>1. Continue(w, "publish", to) /\ UNCHANGED exec
    BY <1>8 DEF PublishOutcome
  <2>2. to \in Calls \ {"idle"} /\ "publish" \in Calls \ {"idle", "delete"}
    BY DEF Calls
  <2>3. MayBeAt(w, "publish", exec[w]) /\ Request(w) \in Requests => MayBeAt(w, to, exec[w])
    BY DEF MayBeAt, Notifying
  <2>4. QED
    BY <1>1, <2>1, <2>2, <2>3
<1>9. CASE WasNotified(w)
  <2>1. PICK to \in {"delete", "send"} : Continue(w, "lookup", to) /\ UNCHANGED exec
    BY <1>9 DEF WasNotified
  <2>2. to \in Calls \ {"idle"} /\ "lookup" \in Calls \ {"idle", "delete"}
    BY DEF Calls
  <2>3. MayBeAt(w, "lookup", exec[w]) /\ Request(w) \in Requests => MayBeAt(w, to, exec[w])
    BY DEF MayBeAt, Notifying
  <2>4. QED
    BY <1>1, <2>1, <2>2, <2>3
<1>10. CASE Send(w)
  BY <1>1, <1>10 DEF Send, Calls, MayBeAt, Notifying
<1>11. CASE MarkNotified(w)
  BY <1>1, <1>11 DEF MarkNotified, Calls, MayBeAt, Notifying
<1>12. CASE CallFails(w)
  <2>1. /\ pc[w] \in {"find", "running", "started", "save", "publish", "lookup", "send", "mark"}
        /\ pc' = [pc EXCEPT ![w] = "retry"]
        /\ UNCHANGED <<current, exec>>
    BY <1>12 DEF CallFails
  <2>2. exec[w] \in Copies /\ exec' = [exec EXCEPT ![w] = exec[w]]
    BY <2>1 DEF HandlersTyped
  <2>3. MayBeAt(w, "retry", exec[w])
    BY <2>1 DEF HandlersApt, MayBeAt, Notifying
  <2>4. QED
    BY <2>1, <2>2, <2>3 DEF Moves, Calls
<1>13. QED
  BY <1>2, <1>3, <1>4, <1>5, <1>6, <1>7, <1>8, <1>9, <1>10, <1>11, <1>12 DEF Execute

LEMMA AnnouncementTyped ==
    ASSUME NEW r \in Requests, NEW e \in Copies
    PROVE  Announcement(r, e) \in Events
BY DEF Announcement, Copies, Events

(* What the calls of ExecuteProcessRequest leave in the tables, in         *)
(* storage, at SNS and in the User's mailbox.                              *)
LEMMA ExecuteTyped ==
    ASSUME TypeInv, NEW w \in Workers, Execute(w) \/ CallFails(w)
    PROVE  RecordsTyped' /\ OutsideTyped' /\ QueueTyped'
<1> USE DEF TypeInv
<1>1. ASSUME pc[w] \notin {"idle", "delete"}
      PROVE  Request(w) \in Requests /\ exec[w] \in Copies /\ MayBeAt(w, pc[w], exec[w])
  BY <1>1 DEF HandlersApt, MayBeAt, HandlersTyped
<1>2. CASE FindExecution(w) \/ WasNotified(w) \/ CallFails(w) \/ Download(w) \/ Extract(w) \/ Pack(w)
  <2>1. UNCHANGED <<records, outside, queue>>
    BY <1>2 DEF FindExecution, WasNotified, CallFails, Continue, Download, Extract, Pack, RunStep
  <2>2. QED
    BY <2>1 DEF records, outside, queue, RecordsTyped, OutsideTyped, QueueTyped
<1>3. CASE SaveRunning(w) \/ SaveOutcome(w)
  <2>1. Request(w) \in Requests /\ exec[w] \in Copies
    BY <1>1, <1>3 DEF SaveRunning, SaveOutcome, Continue
  <2>2. execution' = [execution EXCEPT ![Request(w)] = exec[w]] /\ UNCHANGED <<notified, outside, queue>>
    BY <1>3 DEF SaveRunning, SaveOutcome, SaveExecution, Continue
  <2>3. QED
    BY <2>1, <2>2 DEF outside, queue, RecordsTyped, OutsideTyped, QueueTyped
<1>4. CASE PublishStarted(w) \/ PublishOutcome(w)
  <2>1. Request(w) \in Requests /\ exec[w] \in Copies
    BY <1>1, <1>4 DEF PublishStarted, PublishOutcome, Continue
  <2>2. Started(Request(w), exec[w].attempt) \in Events /\ Announcement(Request(w), exec[w]) \in Events
    BY <2>1, AnnouncementTyped DEF Started, Copies, Events
  <2>3. /\ \/ published' = published \cup {Started(Request(w), exec[w].attempt)}
           \/ published' = published \cup {Announcement(Request(w), exec[w])}
        /\ UNCHANGED <<records, stored, mails, queue>>
    BY <1>4 DEF PublishStarted, PublishOutcome, Continue
  <2>4. QED
    BY <2>2, <2>3 DEF records, queue, RecordsTyped, OutsideTyped, QueueTyped
<1>5. CASE Upload(w)
  <2>1. /\ stored' \in {stored, [stored EXCEPT ![Request(w)] = TRUE]}
        /\ UNCHANGED <<records, published, mails, queue>>
    BY <1>5 DEF Upload
  <2>2. QED
    BY <2>1 DEF records, queue, RecordsTyped, OutsideTyped, QueueTyped
<1>6. CASE Send(w)
  <2>1. pc[w] = "send" /\ UNCHANGED <<records, stored, published, queue>>
    BY <1>6 DEF Send, Continue
  <2>2. Request(w) \in Requests /\ exec[w].outcome \in Final
    BY <1>1, <2>1 DEF MayBeAt, Notifying
  <2>3. mails' = [mails EXCEPT ![Request(w)][exec[w].outcome] = @ + 1]
    BY <1>6 DEF Send
  <2>4. mails' \in [Requests -> [Final -> Nat]]
    BY <2>2, <2>3 DEF OutsideTyped
  <2>5. QED
    BY <2>1, <2>4 DEF records, queue, RecordsTyped, OutsideTyped, QueueTyped
<1>7. CASE MarkNotified(w)
  <2>1. pc[w] = "mark" /\ UNCHANGED <<execution, outside, queue>>
    BY <1>7 DEF MarkNotified, Continue
  <2>2. Request(w) \in Requests /\ exec[w].outcome \in Final
    BY <1>1, <2>1 DEF MayBeAt, Notifying
  <2>3. notified' = [notified EXCEPT ![Request(w)] = @ \cup {exec[w].outcome}]
    BY <1>7 DEF MarkNotified
  <2>4. QED
    BY <2>1, <2>2, <2>3 DEF outside, queue, RecordsTyped, OutsideTyped, QueueTyped
<1>8. QED
  BY <1>2, <1>3, <1>4, <1>5, <1>6, <1>7 DEF Execute

(* The end of a message leaves its goroutine idle.                         *)
LEMMA ReturnTyped ==
    ASSUME HandlersTyped, HandlersApt, NEW w \in Workers, Return(w)
    PROVE  HandlersTyped' /\ HandlersApt'
<1>1. HandlersTyped'
  <2>1. NoExecution \in Copies /\ "idle" \in Calls
    BY DEF NoExecution, Copies, Outcomes, Calls
  <2>2. QED
    BY <2>1 DEF Return, HandlersTyped
<1>2. ASSUME NEW v \in Workers PROVE MayBeAt(v, pc[v], exec[v])'
  BY DEF Return, MayBeAt, Notifying, Request, HandlersTyped, HandlersApt
<1>3. QED
  BY <1>1, <1>2 DEF HandlersApt

LEMMA ReceiveTyped ==
    ASSUME TypeInv, NEW w \in Workers, Receive(w)
    PROVE  TypeInv'
<1> USE DEF TypeInv
<1>1. PICK m \in Messages :
          /\ inbox' = [inbox EXCEPT ![m] = "inflight"]
          /\ receives' = [receives EXCEPT ![m] = @ + 1]
          /\ current' = [current EXCEPT ![w] = m]
          /\ pc' = [pc EXCEPT ![w] = IF RequestOf[m] \in Requests THEN "find" ELSE "delete"]
          /\ exec' = [exec EXCEPT ![w] = [outcome |-> "RUNNING", attempt |-> receives[m] + 1]]
  BY DEF Receive
<1>2. RecordsTyped' /\ OutsideTyped'
  BY DEF Receive, records, outside, RecordsTyped, OutsideTyped
<1>3. QueueTyped'
  BY <1>1 DEF QueueTyped, Places
<1>4. HandlersTyped'
  <2>1. [outcome |-> "RUNNING", attempt |-> receives[m] + 1] \in Copies
    BY DEF QueueTyped, Copies, Outcomes
  <2>2. PICK to \in {"find", "delete"} : pc' = [pc EXCEPT ![w] = to]
    BY <1>1
  <2>3. QED
    BY <1>1, <2>1, <2>2, ExecutionAssumption DEF HandlersTyped, Calls
<1>5. ASSUME NEW v \in Workers PROVE MayBeAt(v, pc[v], exec[v])'
  BY <1>1 DEF MayBeAt, Notifying, Request, HandlersTyped, HandlersApt
<1>6. QED
  BY <1>2, <1>3, <1>4, <1>5 DEF HandlersApt

(* Typing is preserved by every step.                                      *)
LEMMA StepTyped == TypeInv /\ [Next]_vars => TypeInv'
<1> SUFFICES ASSUME TypeInv, [Next]_vars
             PROVE  TypeInv'
  OBVIOUS
<1> USE DEF TypeInv
<1>1. ASSUME NEW m \in Messages, Arrive(m) \/ Expire(m) \/ DeadLetter(m)
      PROVE  TypeInv'
  <2>1. UNCHANGED <<records, outside, receives, handlers>> /\ inbox' \in [Messages -> Places]
    BY <1>1 DEF Arrive, Expire, DeadLetter, QueueTyped, Places
  <2>2. QED
    BY <2>1 DEF records, outside, handlers, RecordsTyped, OutsideTyped, QueueTyped, HandlersTyped,
       HandlersApt, MayBeAt, Request
<1>2. ASSUME NEW w \in Workers, Execute(w) \/ CallFails(w)
      PROVE  TypeInv'
  BY <1>2, ExecuteTyped, ExecuteMoves, MoveTyped
<1>3. ASSUME NEW w \in Workers, Finish(w) \/ Crash(w)
      PROVE  TypeInv'
  <2>1. /\ Return(w)
        /\ UNCHANGED <<records, outside, receives>>
        /\ inbox' \in [Messages -> Places]
    BY <1>3 DEF Finish, DeleteMessage, RetryMessage, Crash, Release, QueueTyped, Places, queue
  <2>2. QED
    BY <2>1, ReturnTyped DEF records, outside, RecordsTyped, OutsideTyped, QueueTyped
<1>4. CASE UNCHANGED vars
  BY <1>4 DEF vars, records, outside, queue, handlers, RecordsTyped, OutsideTyped, QueueTyped,
     HandlersTyped, HandlersApt, MayBeAt, Request
<1>5. QED
  BY <1>1, <1>2, <1>3, <1>4, ReceiveTyped DEF Next

(* Every variable keeps its type, and a goroutine holds a message exactly  *)
(* while it handles one, for any number of workers and messages.           *)
THEOREM ExecutionTyped == Spec => []TypeOK
<1>1. Spec => []TypeInv
  BY InitTyped, StepTyped, PTL DEF Spec
<1>2. QED
  BY <1>1, TypeInvIsTypeOK, PTL

(***************************************************************************)
(* What is published, mailed, logged or stored stays so.                   *)
(***************************************************************************)

OutsideGrows ==
    /\ published \subseteq published'
    /\ \A r \in Requests : /\ notified[r] \subseteq notified'[r]
                           /\ stored[r] => stored'[r]
                           /\ \A o \in Final : mails[r][o] > 0 => mails'[r][o] > 0

LEMMA StepGrows == TypeInv /\ [Next]_vars => OutsideGrows
<1> SUFFICES ASSUME TypeInv, [Next]_vars
             PROVE  OutsideGrows
  OBVIOUS
<1> USE DEF TypeInv, OutsideGrows
<1>1. ASSUME UNCHANGED <<notified, stored, mails>>, published \subseteq published'
      PROVE  OutsideGrows
  BY <1>1
<1>2. ASSUME UNCHANGED <<notified, outside>>
      PROVE  OutsideGrows
  BY <1>1, <1>2 DEF outside
<1>3. ASSUME NEW m \in Messages, Arrive(m) \/ Expire(m) \/ DeadLetter(m)
      PROVE  OutsideGrows
  BY <1>2, <1>3 DEF Arrive, Expire, DeadLetter, records
<1>4. ASSUME NEW w \in Workers, Execute(w)
      PROVE  OutsideGrows
  <2>1. CASE FindExecution(w) \/ SaveRunning(w) \/ SaveOutcome(w) \/ WasNotified(w)
               \/ Download(w) \/ Extract(w) \/ Pack(w)
    BY <1>2, <2>1 DEF FindExecution, SaveRunning, SaveOutcome, WasNotified, Download, Extract, Pack,
       RunStep, records
  <2>2. CASE PublishStarted(w) \/ PublishOutcome(w)
    BY <1>1, <2>2 DEF PublishStarted, PublishOutcome, records
  <2>3. CASE Upload(w)
    BY <2>3 DEF Upload, records, OutsideTyped
  <2>4. CASE Send(w)
    <3>1. UNCHANGED <<notified, stored, published>>
          /\ mails' = [mails EXCEPT ![Request(w)][exec[w].outcome] = @ + 1]
      BY <2>4 DEF Send, records
    <3>2. ASSUME NEW r \in Requests, NEW o \in Final, mails[r][o] > 0
          PROVE  mails'[r][o] > 0
      BY <3>1, <3>2 DEF OutsideTyped
    <3>3. QED
      BY <3>1, <3>2
  <2>5. CASE MarkNotified(w)
    <3>1. UNCHANGED outside /\ notified' = [notified EXCEPT ![Request(w)] = @ \cup {exec[w].outcome}]
      BY <2>5 DEF MarkNotified
    <3>2. QED
      BY <3>1 DEF outside, RecordsTyped
  <2>6. QED
    BY <1>4, <2>1, <2>2, <2>3, <2>4, <2>5 DEF Execute
<1>5. ASSUME NEW w \in Workers, Receive(w) \/ Finish(w) \/ CallFails(w) \/ Crash(w)
      PROVE  OutsideGrows
  BY <1>2, <1>5 DEF Receive, Finish, DeleteMessage, RetryMessage, CallFails, Crash, records
<1>6. CASE UNCHANGED vars
  BY <1>2, <1>6 DEF vars, records
<1>7. QED
  BY <1>3, <1>4, <1>5, <1>6 DEF Next

(***************************************************************************)
(* A message is deleted only after its outcome was delivered.              *)
(***************************************************************************)

(* The sequence of notify, as far as goroutine w has come with it.         *)
NotifiedSoFar(w) ==
    /\ pc[w] \in Notifying => Announced(Request(w), exec[w].outcome)
    /\ pc[w] = "mark" => mails[Request(w)][exec[w].outcome] > 0
    /\ pc[w] = "delete" /\ Request(w) \in Requests => notified[Request(w)] # {}

DeliveryInv ==
    /\ \A w \in Workers : NotifiedSoFar(w)
    /\ \A r \in Requests : \A o \in notified[r] : Announced(r, o) /\ mails[r][o] > 0
    /\ \A m \in Messages :
           inbox[m] = "deleted" /\ RequestOf[m] \in Requests => notified[RequestOf[m]] # {}

LEMMA DeliveryIsDelivered == TypeInv /\ DeliveryInv => DeletedIsDelivered
<1> SUFFICES ASSUME TypeInv, DeliveryInv,
                    NEW m \in Messages, inbox[m] = "deleted", RequestOf[m] \in Requests
             PROVE  \E o \in Final : /\ Announced(RequestOf[m], o)
                                     /\ mails[RequestOf[m]][o] > 0
                                     /\ o \in notified[RequestOf[m]]
  BY DEF DeletedIsDelivered, Delivered
<1>1. PICK o \in notified[RequestOf[m]] : TRUE
  BY DEF DeliveryInv
<1>2. o \in Final
  BY <1>1 DEF TypeInv, RecordsTyped
<1>3. QED
  BY <1>1, <1>2 DEF DeliveryInv

(* What was announced stays announced.                                     *)
LEMMA AnnouncedStays ==
    ASSUME published \subseteq published', NEW r, NEW o, Announced(r, o)
    PROVE  Announced(r, o)'
BY DEF Announced

(* A goroutine that the step leaves alone, or that begins or ends with a   *)
(* message, keeps its part of the invariant.                               *)
LEMMA NotifiedSoFarStays ==
    ASSUME TypeInv, OutsideGrows, NEW w \in Workers, NotifiedSoFar(w),
           UNCHANGED <<pc[w], current[w], exec[w]>>
    PROVE  NotifiedSoFar(w)'
<1>1. UNCHANGED Request(w)
  BY DEF Request
<1>2. pc[w] \in Notifying => Request(w) \in Requests /\ exec[w].outcome \in Final
  BY DEF TypeInv, HandlersApt, MayBeAt, Notifying
<1>3. Announced(Request(w), exec[w].outcome) => Announced(Request(w), exec[w].outcome)'
  BY <1>1 DEF OutsideGrows, Announced
<1>4. pc[w] = "mark" => mails'[Request(w)][exec[w].outcome] > 0
  BY <1>2 DEF NotifiedSoFar, OutsideGrows, Notifying
<1>5. pc[w] = "delete" /\ Request(w) \in Requests => notified'[Request(w)] # {}
  BY DEF NotifiedSoFar, OutsideGrows
<1>6. QED
  BY <1>1, <1>3, <1>4, <1>5 DEF NotifiedSoFar

LEMMA OthersStay ==
    ASSUME HandlersTyped, NEW w, NEW v \in Workers, v # w, NEW to, NEW e, Moves(w, to, e)
    PROVE  UNCHANGED <<pc[v], current[v], exec[v]>>
BY DEF HandlersTyped, Moves

LEMMA AnnouncementAnnounces ==
    ASSUME NEW r \in Requests, NEW e \in Copies, e.outcome \in Final,
           Announcement(r, e) \in published'
    PROVE  Announced(r, e.outcome)'
BY DEF Announcement, Announced, Final, Copies

(* The calls of ExecuteProcessRequest follow the sequence of notify.       *)
LEMMA ExecuteNotifies ==
    ASSUME TypeInv, DeliveryInv, NEW w \in Workers, Execute(w) \/ CallFails(w)
    PROVE  NotifiedSoFar(w)'
<1> DEFINE r == Request(w)
<1>1. UNCHANGED Request(w)
  BY ExecuteMoves DEF Moves, Request
<1>2. ASSUME pc[w] \notin {"idle", "delete"}
      PROVE  r \in Requests /\ exec[w] \in Copies /\ MayBeAt(w, pc[w], exec[w])
  BY <1>2 DEF TypeInv, HandlersApt, MayBeAt, HandlersTyped
<1>3. ASSUME pc'[w] \notin Notifying \cup {"delete"}
      PROVE  NotifiedSoFar(w)'
  BY <1>3 DEF NotifiedSoFar, Notifying
<1>4. ASSUME NEW from, NEW to, Continue(w, from, to), NotifiedSoFar(w)' \/ pc'[w] # to
      PROVE  NotifiedSoFar(w)'
  BY <1>3, <1>4 DEF Continue, Notifying, TypeInv, HandlersTyped
<1>5. CASE FindExecution(w) \/ SaveRunning(w) \/ PublishStarted(w) \/ SaveOutcome(w) \/ CallFails(w)
  <2>1. pc'[w] \in {"running", "started", "download", "publish", "retry"}
    BY <1>5 DEF FindExecution, SaveRunning, PublishStarted, SaveOutcome, CallFails, Continue,
       TypeInv, HandlersTyped
  <2>2. QED
    BY <1>3, <2>1 DEF Notifying
<1>6. CASE Download(w) \/ Extract(w) \/ Pack(w) \/ Upload(w)
  <2>1. pc'[w] \in {"extract", "pack", "upload", "save"}
    BY <1>6, FailsEnds DEF Download, Extract, Pack, Upload, RunStep, Ends, TypeInv, HandlersTyped
  <2>2. QED
    BY <1>3, <2>1 DEF Notifying
<1>7. CASE PublishOutcome(w)
  <2>1. pc[w] = "publish" /\ UNCHANGED exec
        /\ published' = published \cup {Announcement(r, exec[w])}
    BY <1>7 DEF PublishOutcome, Continue
  <2>2. r \in Requests /\ exec[w] \in Copies /\ exec[w].outcome \in Final \cup {"RETRYING"}
    BY <1>2, <2>1 DEF MayBeAt
  <2>3. CASE exec[w].outcome = "RETRYING"
    <3>1. pc'[w] = "retry"
      BY <1>7, <2>3 DEF PublishOutcome, Continue, TypeInv, HandlersTyped
    <3>2. QED
      BY <1>3, <3>1 DEF Notifying
  <2>4. CASE exec[w].outcome \in Final
    <3>1. pc'[w] \in {"lookup", "retry"}
      BY <1>7, <2>4 DEF PublishOutcome, Continue, TypeInv, HandlersTyped, Final
    <3>2. Announced(r, exec[w].outcome)'
      BY <1>1, <2>1, <2>2, <2>4, AnnouncementAnnounces
    <3>3. QED
      BY <1>1, <2>1, <3>1, <3>2 DEF NotifiedSoFar, Notifying
  <2>5. QED
    BY <2>2, <2>3, <2>4
<1>8. CASE WasNotified(w)
  <2>1. pc[w] = "lookup" /\ UNCHANGED <<records, outside, exec>>
    BY <1>8 DEF WasNotified, Continue
  <2>2. \/ pc'[w] = "delete" /\ exec[w].outcome \in notified[r]
        \/ pc'[w] \in {"send", "retry"}
    BY <1>8 DEF WasNotified, Continue, TypeInv, HandlersTyped
  <2>3. Announced(r, exec[w].outcome)'
    BY <1>1, <2>1 DEF DeliveryInv, NotifiedSoFar, Notifying, Announced, outside
  <2>4. QED
    BY <1>1, <2>1, <2>2, <2>3 DEF NotifiedSoFar, Notifying, records
<1>9. CASE Send(w)
  <2>1. pc[w] = "send" /\ UNCHANGED <<records, published, exec>>
        /\ mails' = [mails EXCEPT ![r][exec[w].outcome] = @ + 1]
    BY <1>9 DEF Send, Continue
  <2>2. r \in Requests /\ exec[w].outcome \in Final
    BY <1>2, <2>1 DEF MayBeAt, Notifying
  <2>3. pc'[w] \in {"mark", "retry"}
    BY <1>9 DEF Send, Continue, TypeInv, HandlersTyped
  <2>4. Announced(r, exec[w].outcome)'
    BY <1>1, <2>1 DEF DeliveryInv, NotifiedSoFar, Notifying, Announced
  <2>5. mails'[r][exec[w].outcome] > 0
    <3>1. mails[r][exec[w].outcome] \in Nat
      BY <2>2 DEF TypeInv, OutsideTyped
    <3>2. mails'[r][exec[w].outcome] = mails[r][exec[w].outcome] + 1
      BY <2>1, <2>2 DEF TypeInv, OutsideTyped
    <3>3. QED
      BY <3>1, <3>2
  <2>6. QED
    BY <1>1, <2>1, <2>3, <2>4, <2>5 DEF NotifiedSoFar, Notifying
<1>10. CASE MarkNotified(w)
  <2>1. pc[w] = "mark" /\ notified' = [notified EXCEPT ![r] = @ \cup {exec[w].outcome}]
    BY <1>10 DEF MarkNotified, Continue
  <2>2. r \in Requests
    BY <1>2, <2>1
  <2>3. notified'[r] # {}
    BY <2>1, <2>2 DEF TypeInv, RecordsTyped
  <2>4. pc'[w] \in {"delete", "retry"}
    BY <1>10 DEF MarkNotified, Continue, TypeInv, HandlersTyped
  <2>5. QED
    BY <1>1, <2>3, <2>4 DEF NotifiedSoFar, Notifying
<1>11. QED
  BY <1>5, <1>6, <1>7, <1>8, <1>9, <1>10 DEF Execute

(* The log only names outcomes that were announced and mailed.             *)
LEMMA LogIsTrue ==
    ASSUME TypeInv, DeliveryInv, Next,
           NEW r \in Requests, NEW o \in notified'[r]
    PROVE  Announced(r, o)' /\ mails'[r][o] > 0
<1>1. OutsideGrows
  BY StepGrows
<1>2. CASE o \in notified[r]
  <2>1. o \in Final
    BY <1>2 DEF TypeInv, RecordsTyped
  <2>2. Announced(r, o) /\ mails[r][o] > 0
    BY <1>2 DEF DeliveryInv
  <2>3. QED
    BY <1>1, <2>1, <2>2, AnnouncedStays DEF OutsideGrows
<1>3. CASE o \notin notified[r]
  <2>1. PICK w \in Workers : MarkNotified(w)
    BY <1>3 DEF Next, Arrive, Expire, DeadLetter, Receive, Execute, FindExecution, SaveRunning,
       PublishStarted, Download, Extract, Pack, RunStep, Upload, SaveOutcome, PublishOutcome,
       WasNotified, Send, Finish, DeleteMessage, RetryMessage, CallFails, Crash, records
  <2>2. pc[w] = "mark" /\ UNCHANGED outside
        /\ notified' = [notified EXCEPT ![Request(w)] = @ \cup {exec[w].outcome}]
    BY <2>1 DEF MarkNotified, Continue
  <2>3. r = Request(w) /\ o = exec[w].outcome
    BY <1>3, <2>2 DEF TypeInv, RecordsTyped
  <2>4. Announced(r, o) /\ mails[r][o] > 0
    BY <2>2, <2>3 DEF DeliveryInv, NotifiedSoFar, Notifying
  <2>5. QED
    BY <2>2, <2>4 DEF outside, Announced
<1>4. QED
  BY <1>2, <1>3

(* The goroutine that deletes a message has delivered its outcome.         *)
LEMMA DeletedHasLog ==
    ASSUME TypeInv, DeliveryInv, Next,
           NEW m \in Messages, inbox'[m] = "deleted", RequestOf[m] \in Requests
    PROVE  notified'[RequestOf[m]] # {}
<1>1. OutsideGrows
  BY StepGrows
<1>2. CASE inbox[m] = "deleted"
  BY <1>1, <1>2 DEF DeliveryInv, OutsideGrows
<1>3. CASE inbox[m] # "deleted"
  <2>1. PICK w \in Workers : DeleteMessage(w) /\ current[w] = m
    <3>1. PICK w \in Workers : DeleteMessage(w)
      <4>1. ASSUME NEW n \in Messages, Arrive(n) \/ Expire(n) \/ DeadLetter(n)
            PROVE  FALSE
        BY <1>3, <4>1 DEF Arrive, Expire, DeadLetter, TypeInv, QueueTyped
      <4>2. ASSUME NEW w \in Workers, Receive(w)
            PROVE  FALSE
        BY <1>3, <4>2 DEF Receive, TypeInv, QueueTyped
      <4>3. ASSUME NEW w \in Workers, Execute(w) \/ CallFails(w) \/ Crash(w)
            PROVE  FALSE
        BY <1>3, <4>3 DEF Execute, FindExecution, SaveRunning, PublishStarted, Download, Extract,
           Pack, RunStep, Upload, SaveOutcome, PublishOutcome, WasNotified, Send, MarkNotified,
           Continue, CallFails, Crash, queue
      <4>4. ASSUME NEW w \in Workers, RetryMessage(w)
            PROVE  FALSE
        BY <1>3, <4>4 DEF RetryMessage, Release, TypeInv, QueueTyped
      <4>5. QED
        BY <4>1, <4>2, <4>3, <4>4 DEF Next, Finish
    <3>2. QED
      BY <1>3, <3>1 DEF DeleteMessage, Release, TypeInv, QueueTyped
  <2>2. notified[RequestOf[m]] # {}
    BY <2>1 DEF DeleteMessage, DeliveryInv, NotifiedSoFar, Request
  <2>3. QED
    BY <1>1, <2>2 DEF OutsideGrows
<1>4. QED
  BY <1>2, <1>3

LEMMA StepDelivers == TypeInv /\ DeliveryInv /\ [Next]_vars => DeliveryInv'
<1> SUFFICES ASSUME TypeInv, DeliveryInv, [Next]_vars
             PROVE  DeliveryInv'
  OBVIOUS
<1>1. OutsideGrows
  BY StepGrows
<1>2. ASSUME NEW v \in Workers, UNCHANGED <<pc[v], current[v], exec[v]>>
      PROVE  NotifiedSoFar(v)'
  BY <1>1, <1>2, NotifiedSoFarStays DEF DeliveryInv
<1>3. ASSUME NEW m \in Messages, Arrive(m) \/ Expire(m) \/ DeadLetter(m), NEW v \in Workers
      PROVE  NotifiedSoFar(v)'
  BY <1>2, <1>3 DEF Arrive, Expire, DeadLetter, handlers
<1>4. ASSUME NEW w \in Workers, Receive(w), NEW v \in Workers
      PROVE  NotifiedSoFar(v)'
  <2>1. PICK m \in Messages :
            /\ current' = [current EXCEPT ![w] = m]
            /\ pc' = [pc EXCEPT ![w] = IF RequestOf[m] \in Requests THEN "find" ELSE "delete"]
            /\ \E e : exec' = [exec EXCEPT ![w] = e]
    BY <1>4 DEF Receive
  <2>2. CASE v = w
    BY <2>1, <2>2 DEF NotifiedSoFar, Notifying, Request, TypeInv, HandlersTyped
  <2>3. CASE v # w
    BY <1>2, <2>1, <2>3 DEF TypeInv, HandlersTyped
  <2>4. QED
    BY <2>2, <2>3
<1>5. ASSUME NEW w \in Workers, Execute(w) \/ CallFails(w), NEW v \in Workers
      PROVE  NotifiedSoFar(v)'
  <2>1. CASE v = w
    BY <1>5, <2>1, ExecuteNotifies
  <2>2. CASE v # w
    BY <1>2, <1>5, <2>2, ExecuteMoves, OthersStay DEF TypeInv
  <2>3. QED
    BY <2>1, <2>2
<1>6. ASSUME NEW w \in Workers, Finish(w) \/ Crash(w), NEW v \in Workers
      PROVE  NotifiedSoFar(v)'
  <2>1. Return(w)
    BY <1>6 DEF Finish, DeleteMessage, RetryMessage, Crash
  <2>2. CASE v = w
    BY <2>1, <2>2 DEF Return, NotifiedSoFar, Notifying, TypeInv, HandlersTyped
  <2>3. CASE v # w
    BY <1>2, <2>1, <2>3 DEF Return, TypeInv, HandlersTyped
  <2>4. QED
    BY <2>2, <2>3
<1>7. CASE Next
  <2>1. \A v \in Workers : NotifiedSoFar(v)'
    BY <1>3, <1>4, <1>5, <1>6, <1>7 DEF Next
  <2>2. QED
    BY <1>7, <2>1, LogIsTrue, DeletedHasLog DEF DeliveryInv
<1>8. CASE UNCHANGED vars
  BY <1>8 DEF vars, records, outside, queue, handlers, DeliveryInv, NotifiedSoFar, Announced, Request
<1>9. QED
  BY <1>7, <1>8

(* A message is deleted only after a final outcome of its request was      *)
(* announced, mailed and logged: for any number of messages per request,   *)
(* with every call that fails, every pod that dies and every heartbeat     *)
(* that lapses.                                                            *)
THEOREM DeletionFollowsDelivery == Spec => []DeletedIsDelivered
<1>1. Init => DeliveryInv
  BY DEF Init, DeliveryInv, NotifiedSoFar, Notifying
<1>2. Spec => [](TypeInv /\ DeliveryInv)
  BY <1>1, InitTyped, StepTyped, StepDelivers, PTL DEF Spec
<1>3. QED
  BY <1>2, DeliveryIsDelivered, PTL

(***************************************************************************)
(* No Completed event without a zip.                                       *)
(***************************************************************************)

(* The copy of goroutine w only says COMPLETED of an uploaded zip.         *)
CopyHasZip(w) ==
    pc[w] # "idle" /\ Request(w) \in Requests /\ exec[w].outcome = "COMPLETED" => stored[Request(w)]

ZipInv ==
    /\ \A w \in Workers : CopyHasZip(w)
    /\ \A r \in Requests : execution[r].outcome = "COMPLETED" => stored[r]
    /\ CompletedHasZip

(* The calls of ExecuteProcessRequest but Upload take COMPLETED from the   *)
(* Execution in the table, or leave it in the copy.                        *)
LEMMA ExecuteKeepsZip ==
    ASSUME TypeInv, ZipInv, NEW w \in Workers, Execute(w) \/ CallFails(w)
    PROVE  CopyHasZip(w)'
<1>1. UNCHANGED Request(w) /\ pc[w] # "idle"
  BY ExecuteMoves DEF Moves, Request
<1>2. Request(w) \in Requests => (stored[Request(w)] => stored'[Request(w)])
  BY StepGrows DEF OutsideGrows, Next
<1>3. ASSUME UNCHANGED exec[w]
      PROVE  CopyHasZip(w)'
  BY <1>1, <1>2, <1>3 DEF ZipInv, CopyHasZip
<1>4. ASSUME NEW o \in {"FAILED", "RETRYING"}, Ends(w, o)
      PROVE  CopyHasZip(w)'
  BY <1>4 DEF Ends, CopyHasZip, TypeInv, HandlersTyped, Copies
<1>5. CASE FindExecution(w)
  <2>1. exec'[w] = IF execution[Request(w)].outcome \in Final THEN execution[Request(w)] ELSE exec[w]
    BY <1>5 DEF FindExecution, TypeInv, HandlersTyped
  <2>2. QED
    BY <1>1, <1>2, <2>1 DEF ZipInv, CopyHasZip
<1>6. CASE Download(w) \/ Extract(w) \/ Pack(w)
  BY <1>3, <1>4, <1>6, FailsEnds DEF Download, Extract, Pack, RunStep
<1>7. CASE Upload(w)
  <2>1. CASE stored' = [stored EXCEPT ![Request(w)] = TRUE]
    BY <1>1, <2>1 DEF CopyHasZip, TypeInv, OutsideTyped
  <2>2. CASE Fails(w, {"transient"})
    BY <1>4, <2>2, FailsEnds
  <2>3. QED
    BY <1>7, <2>1, <2>2 DEF Upload
<1>8. CASE SaveRunning(w) \/ PublishStarted(w) \/ SaveOutcome(w) \/ PublishOutcome(w)
           \/ WasNotified(w) \/ Send(w) \/ MarkNotified(w) \/ CallFails(w)
  BY <1>3, <1>8 DEF SaveRunning, PublishStarted, SaveOutcome, PublishOutcome, WasNotified, Send,
     MarkNotified, CallFails
<1>9. QED
  BY <1>5, <1>6, <1>7, <1>8 DEF Execute

(* Where an Execution of the table comes from.                             *)
LEMMA ExecutionIsSaved ==
    ASSUME TypeInv, Next, NEW r \in Requests, execution'[r] # execution[r]
    PROVE  \E w \in Workers : /\ SaveRunning(w) \/ SaveOutcome(w)
                              /\ Request(w) = r /\ execution'[r] = exec[w]
<1>1. PICK w \in Workers : SaveRunning(w) \/ SaveOutcome(w)
  <2>1. ASSUME UNCHANGED execution
        PROVE  FALSE
    BY <2>1
  <2>2. ASSUME NEW m \in Messages, Arrive(m) \/ Expire(m) \/ DeadLetter(m)
        PROVE  FALSE
    BY <2>1, <2>2 DEF Arrive, Expire, DeadLetter, records
  <2>3. ASSUME NEW w \in Workers,
               Receive(w) \/ Finish(w) \/ CallFails(w) \/ Crash(w) \/ FindExecution(w)
               \/ PublishStarted(w) \/ Download(w) \/ Extract(w) \/ Pack(w) \/ Upload(w)
               \/ PublishOutcome(w) \/ WasNotified(w) \/ Send(w) \/ MarkNotified(w)
        PROVE  FALSE
    BY <2>1, <2>3 DEF Receive, Finish, DeleteMessage, RetryMessage, CallFails, Crash, FindExecution,
       PublishStarted, Download, Extract, Pack, RunStep, Upload, PublishOutcome, WasNotified, Send,
       MarkNotified, records
  <2>4. QED
    BY <2>2, <2>3 DEF Next, Execute
<1>2. execution' = [execution EXCEPT ![Request(w)] = exec[w]]
  BY <1>1 DEF SaveRunning, SaveOutcome, SaveExecution
<1>3. QED
  BY <1>1, <1>2 DEF TypeInv, RecordsTyped

(* Where an event comes from.                                              *)
LEMMA EventIsPublished ==
    ASSUME TypeInv, Next, NEW ev \in published', ev \notin published
    PROVE  \E w \in Workers :
               \/ PublishStarted(w) /\ ev = Started(Request(w), exec[w].attempt)
               \/ PublishOutcome(w) /\ ev = Announcement(Request(w), exec[w])
<1>1. ASSUME UNCHANGED published
      PROVE  FALSE
  BY <1>1
<1>2. ASSUME NEW m \in Messages, Arrive(m) \/ Expire(m) \/ DeadLetter(m)
      PROVE  FALSE
  BY <1>1, <1>2 DEF Arrive, Expire, DeadLetter, outside
<1>3. ASSUME NEW w \in Workers,
             Receive(w) \/ Finish(w) \/ CallFails(w) \/ Crash(w) \/ FindExecution(w)
             \/ SaveRunning(w) \/ Download(w) \/ Extract(w) \/ Pack(w) \/ Upload(w)
             \/ SaveOutcome(w) \/ WasNotified(w) \/ Send(w) \/ MarkNotified(w)
      PROVE  FALSE
  BY <1>1, <1>3 DEF Receive, Finish, DeleteMessage, RetryMessage, CallFails, Crash, FindExecution,
     SaveRunning, Download, Extract, Pack, RunStep, Upload, SaveOutcome, WasNotified, Send,
     MarkNotified, outside
<1>4. PICK w \in Workers : PublishStarted(w) \/ PublishOutcome(w)
  BY <1>2, <1>3 DEF Next, Execute
<1>5. QED
  BY <1>4 DEF PublishStarted, PublishOutcome

(* Only PublishOutcome announces a final outcome, that of the copy.        *)
LEMMA AnnouncedByPublish ==
    ASSUME TypeInv, Next, NEW r \in Requests, NEW o \in Final,
           Announced(r, o)', ~ Announced(r, o)
    PROVE  \E w \in Workers : PublishOutcome(w) /\ Request(w) = r /\ exec[w].outcome = o
<1>1. PICK ev \in published' :
          /\ ev.request = r
          /\ \/ o = "COMPLETED" /\ ev.type = "Completed"
             \/ o = "FAILED" /\ ev.type = "Failed" /\ ~ ev.retryable
  BY DEF Announced
<1>2. ev \notin published
  BY <1>1 DEF Announced
<1>3. PICK w \in Workers :
          \/ PublishStarted(w) /\ ev = Started(Request(w), exec[w].attempt)
          \/ PublishOutcome(w) /\ ev = Announcement(Request(w), exec[w])
  BY <1>2, EventIsPublished
<1>4. PublishOutcome(w) /\ ev = Announcement(Request(w), exec[w])
  BY <1>1, <1>3 DEF Started
<1>5. exec[w].outcome \in Final \cup {"RETRYING"}
  BY <1>4 DEF PublishOutcome, Continue, TypeInv, HandlersApt, MayBeAt
<1>6. QED
  BY <1>1, <1>4, <1>5 DEF Announcement, Final

LEMMA StepZips == TypeInv /\ ZipInv /\ [Next]_vars => ZipInv'
<1> SUFFICES ASSUME TypeInv, ZipInv, [Next]_vars
             PROVE  ZipInv'
  OBVIOUS
<1>1. OutsideGrows
  BY StepGrows
<1>2. ASSUME NEW v \in Workers, UNCHANGED <<pc[v], current[v], exec[v]>>
      PROVE  CopyHasZip(v)'
  BY <1>1, <1>2 DEF ZipInv, CopyHasZip, Request, OutsideGrows
<1>3. ASSUME NEW w \in Workers, Receive(w), NEW v \in Workers
      PROVE  CopyHasZip(v)'
  <2>1. PICK m \in Messages :
            /\ current' = [current EXCEPT ![w] = m]
            /\ pc' = [pc EXCEPT ![w] = IF RequestOf[m] \in Requests THEN "find" ELSE "delete"]
            /\ exec' = [exec EXCEPT ![w] = [outcome |-> "RUNNING", attempt |-> receives[m] + 1]]
    BY <1>3 DEF Receive
  <2>2. CASE v = w
    BY <2>1, <2>2 DEF CopyHasZip, TypeInv, HandlersTyped
  <2>3. CASE v # w
    BY <1>2, <2>1, <2>3 DEF TypeInv, HandlersTyped
  <2>4. QED
    BY <2>2, <2>3
<1>4. ASSUME NEW w \in Workers, Execute(w) \/ CallFails(w), NEW v \in Workers
      PROVE  CopyHasZip(v)'
  <2>1. CASE v = w
    BY <1>4, <2>1, ExecuteKeepsZip
  <2>2. CASE v # w
    BY <1>2, <1>4, <2>2, ExecuteMoves, OthersStay DEF TypeInv
  <2>3. QED
    BY <2>1, <2>2
<1>5. ASSUME NEW w \in Workers, Finish(w) \/ Crash(w), NEW v \in Workers
      PROVE  CopyHasZip(v)'
  <2>1. Return(w)
    BY <1>5 DEF Finish, DeleteMessage, RetryMessage, Crash
  <2>2. CASE v = w
    BY <2>1, <2>2 DEF Return, CopyHasZip, TypeInv, HandlersTyped
  <2>3. CASE v # w
    BY <1>2, <2>1, <2>3 DEF Return, TypeInv, HandlersTyped
  <2>4. QED
    BY <2>2, <2>3
<1>6. CASE Next
  <2>1. ASSUME NEW m \in Messages, Arrive(m) \/ Expire(m) \/ DeadLetter(m), NEW v \in Workers
        PROVE  CopyHasZip(v)'
    BY <1>2, <2>1 DEF Arrive, Expire, DeadLetter, handlers
  <2>2. \A v \in Workers : CopyHasZip(v)'
    BY <1>3, <1>4, <1>5, <1>6, <2>1 DEF Next
  <2>3. ASSUME NEW r \in Requests, execution'[r].outcome = "COMPLETED"
        PROVE  stored'[r]
    <3>1. CASE execution'[r] = execution[r]
      BY <1>1, <2>3, <3>1 DEF ZipInv, OutsideGrows
    <3>2. CASE execution'[r] # execution[r]
      <4>1. PICK w \in Workers :
                /\ SaveRunning(w) \/ SaveOutcome(w)
                /\ Request(w) = r /\ execution'[r] = exec[w]
        BY <1>6, <3>2, ExecutionIsSaved
      <4>2. stored[r]
        BY <2>3, <4>1 DEF SaveRunning, SaveOutcome, Continue, ZipInv, CopyHasZip
      <4>3. QED
        BY <1>1, <4>2 DEF OutsideGrows
    <3>3. QED
      BY <3>1, <3>2
  <2>4. ASSUME NEW r \in Requests, Announced(r, "COMPLETED")'
        PROVE  stored'[r]
    <3>1. CASE Announced(r, "COMPLETED")
      BY <1>1, <3>1 DEF ZipInv, CompletedHasZip, OutsideGrows
    <3>2. CASE ~ Announced(r, "COMPLETED")
      <4>1. PICK w \in Workers :
                PublishOutcome(w) /\ Request(w) = r /\ exec[w].outcome = "COMPLETED"
        BY <1>6, <2>4, <3>2, AnnouncedByPublish DEF Final
      <4>2. stored[r]
        BY <4>1 DEF PublishOutcome, Continue, ZipInv, CopyHasZip
      <4>3. QED
        BY <1>1, <4>2 DEF OutsideGrows
    <3>3. QED
      BY <3>1, <3>2
  <2>5. QED
    BY <2>2, <2>3, <2>4 DEF ZipInv, CompletedHasZip
<1>7. CASE UNCHANGED vars
  BY <1>7 DEF vars, records, outside, handlers, ZipInv, CopyHasZip, CompletedHasZip, Announced, Request
<1>8. QED
  BY <1>6, <1>7

(* A Completed event is never published for a zip that was not uploaded,   *)
(* however many goroutines execute the request at once.                    *)
THEOREM CompletedIsDownloadable == Spec => []CompletedHasZip
<1>1. Init => ZipInv
  BY DEF Init, ZipInv, CopyHasZip, CompletedHasZip, Announced, NoExecution
<1>2. Spec => [](TypeInv /\ ZipInv)
  BY <1>1, InitTyped, StepTyped, StepZips, PTL DEF Spec
<1>3. QED
  BY <1>2, PTL DEF ZipInv

(***************************************************************************)
(* Attempts and receives.                                                  *)
(***************************************************************************)

(* The worker's last Attempt is not beyond the queue's last delivery, as   *)
(* deployed: both are 3.                                                   *)
AttemptsFit == MaxAttempts <= MaxReceives

(* A goroutine retries only what it may try again.                         *)
CopyMayRetry(w) == exec[w].outcome = "RETRYING" => exec[w].attempt < MaxAttempts

RetryInv == RetryIsDelivered /\ \A w \in Workers : CopyMayRetry(w)

LEMMA FailsMayRetry ==
    ASSUME TypeInv, NEW w \in Workers, NEW errors, Fails(w, errors)
    PROVE  CopyMayRetry(w)'
<1>1. PICK err : exec' = [exec EXCEPT ![w].outcome =
                             IF Definitive(err, exec[w].attempt) THEN "FAILED" ELSE "RETRYING"]
  BY DEF Fails, Ends
<1>2. exec[w].attempt \in Nat /\ exec'[w].attempt = exec[w].attempt
      /\ exec'[w].outcome = IF Definitive(err, exec[w].attempt) THEN "FAILED" ELSE "RETRYING"
  BY <1>1 DEF TypeInv, HandlersTyped, Copies
<1>3. QED
  BY <1>2, ExecutionAssumption DEF CopyMayRetry, Definitive

LEMMA ExecuteMayRetry ==
    ASSUME TypeInv, NEW w \in Workers, CopyMayRetry(w), Execute(w) \/ CallFails(w)
    PROVE  CopyMayRetry(w)'
<1>1. CASE UNCHANGED exec
  BY <1>1 DEF CopyMayRetry
<1>2. CASE FindExecution(w)
  BY <1>2 DEF FindExecution, CopyMayRetry, TypeInv, HandlersTyped, Final
<1>3. CASE Download(w) \/ Extract(w) \/ Pack(w)
  BY <1>1, <1>3, FailsMayRetry DEF Download, Extract, Pack, RunStep
<1>4. CASE Upload(w)
  <2>1. CASE Ends(w, "COMPLETED")
    BY <2>1 DEF Ends, CopyMayRetry, TypeInv, HandlersTyped, Copies
  <2>2. QED
    BY <1>4, <2>1, FailsMayRetry DEF Upload
<1>5. CASE SaveRunning(w) \/ PublishStarted(w) \/ SaveOutcome(w) \/ PublishOutcome(w)
           \/ WasNotified(w) \/ Send(w) \/ MarkNotified(w) \/ CallFails(w)
  BY <1>1, <1>5 DEF SaveRunning, PublishStarted, SaveOutcome, PublishOutcome, WasNotified, Send,
     MarkNotified, CallFails
<1>6. QED
  BY <1>2, <1>3, <1>4, <1>5 DEF Execute

LEMMA StepMayRetry == AttemptsFit /\ TypeInv /\ RetryInv /\ [Next]_vars => RetryInv'
<1> SUFFICES ASSUME AttemptsFit, TypeInv, RetryInv, [Next]_vars
             PROVE  RetryInv'
  OBVIOUS
<1>1. ASSUME NEW v \in Workers, exec'[v] = exec[v]
      PROVE  CopyMayRetry(v)'
  BY <1>1 DEF RetryInv, CopyMayRetry
<1>2. ASSUME NEW w \in Workers, Execute(w) \/ CallFails(w), NEW v \in Workers
      PROVE  CopyMayRetry(v)'
  <2>1. CASE v = w
    BY <1>2, <2>1, ExecuteMayRetry DEF RetryInv
  <2>2. CASE v # w
    BY <1>1, <1>2, <2>2, ExecuteMoves, OthersStay DEF TypeInv
  <2>3. QED
    BY <2>1, <2>2
<1>3. ASSUME NEW w \in Workers, Receive(w) \/ Finish(w) \/ Crash(w), NEW v \in Workers
      PROVE  CopyMayRetry(v)'
  <2>1. CASE Receive(w)
    <3>1. PICK m \in Messages :
              exec' = [exec EXCEPT ![w] = [outcome |-> "RUNNING", attempt |-> receives[m] + 1]]
      BY <2>1 DEF Receive
    <3>2. exec'[w].outcome = "RUNNING" /\ (v # w => exec'[v] = exec[v])
      BY <3>1 DEF TypeInv, HandlersTyped
    <3>3. QED
      BY <1>1, <3>2 DEF CopyMayRetry
  <2>2. CASE Finish(w) \/ Crash(w)
    <3>1. exec' = [exec EXCEPT ![w] = NoExecution]
      BY <2>2 DEF Finish, DeleteMessage, RetryMessage, Crash, Return
    <3>2. exec'[w].outcome = "NONE" /\ (v # w => exec'[v] = exec[v])
      BY <3>1 DEF TypeInv, HandlersTyped, NoExecution
    <3>3. QED
      BY <1>1, <3>2 DEF CopyMayRetry
  <2>3. QED
    BY <1>3, <2>1, <2>2
<1>4. CASE Next
  <2>1. ASSUME NEW m \in Messages, Arrive(m) \/ Expire(m) \/ DeadLetter(m), NEW v \in Workers
        PROVE  CopyMayRetry(v)'
    BY <1>1, <2>1 DEF Arrive, Expire, DeadLetter, handlers
  <2>2. \A v \in Workers : CopyMayRetry(v)'
    BY <1>2, <1>3, <1>4, <2>1 DEF Next
  <2>3. ASSUME NEW ev \in published', ev.type = "Failed", ev.retryable, ev \notin published
        PROVE  ev.attempt < MaxReceives
    <3>1. PICK w \in Workers :
              \/ PublishStarted(w) /\ ev = Started(Request(w), exec[w].attempt)
              \/ PublishOutcome(w) /\ ev = Announcement(Request(w), exec[w])
      BY <1>4, <2>3, EventIsPublished
    <3>2. ev = Announcement(Request(w), exec[w])
      BY <2>3, <3>1 DEF Started
    <3>3. exec[w].outcome = "RETRYING" /\ ev.attempt = exec[w].attempt /\ exec[w].attempt \in Nat
      BY <2>3, <3>2 DEF Announcement, TypeInv, HandlersTyped, Copies
    <3>4. exec[w].attempt < MaxAttempts
      BY <3>3 DEF RetryInv, CopyMayRetry
    <3>5. QED
      BY <3>3, <3>4, ExecutionAssumption DEF AttemptsFit
  <2>4. RetryIsDelivered'
    BY <2>3 DEF RetryInv, RetryIsDelivered
  <2>5. QED
    BY <2>2, <2>4 DEF RetryInv
<1>5. CASE UNCHANGED vars
  BY <1>5 DEF vars, outside, handlers, RetryInv, CopyMayRetry, RetryIsDelivered
<1>6. QED
  BY <1>4, <1>5

(* A failure is announced as retryable only while the queue has another    *)
(* delivery to give, whatever else fails: MAX_ATTEMPTS and maxReceiveCount *)
(* count the same deliveries.                                              *)
THEOREM RetriesAreDelivered == AttemptsFit /\ Spec => []RetryIsDelivered
<1>1. Init => RetryInv
  BY DEF Init, RetryInv, CopyMayRetry, RetryIsDelivered, NoExecution
<1>2. AttemptsFit /\ Spec => [](TypeInv /\ RetryInv)
  <2>1. ASSUME AttemptsFit
        PROVE  Spec => [](TypeInv /\ RetryInv)
    BY <1>1, <2>1, InitTyped, StepTyped, StepMayRetry, PTL DEF Spec
  <2>2. QED
    BY <2>1
<1>3. QED
  BY <1>2, PTL DEF RetryInv

(***************************************************************************)
(* What a step does, for those who compose the worker with the services it *)
(* talks to.                                                               *)
(***************************************************************************)

(* A goroutine at one of these calls has a message, and one of a request.  *)
LEMMA AtHand ==
    ASSUME TypeInv, NEW w \in Workers, pc[w] \notin {"idle", "delete"}
    PROVE  /\ current[w] \in Messages /\ Request(w) \in Requests
           /\ Request(w) = RequestOf[current[w]] /\ exec[w] \in Copies
           /\ MayBeAt(w, pc[w], exec[w])
BY DEF TypeInv, HandlersTyped, HandlersApt, MayBeAt, Request

(* An e-mail is sent after the announcement of its outcome.                *)
MailedIsAnnounced == \A r \in Requests, o \in Final : mails[r][o] > 0 => Announced(r, o)

LEMMA StepMails == TypeInv /\ DeliveryInv /\ MailedIsAnnounced /\ [Next]_vars => MailedIsAnnounced'
<1> SUFFICES ASSUME TypeInv, DeliveryInv, MailedIsAnnounced, [Next]_vars,
                    NEW r \in Requests, NEW o \in Final, mails'[r][o] > 0
             PROVE  Announced(r, o)'
  BY DEF MailedIsAnnounced
<1>1. SUFFICES Announced(r, o)
  BY StepGrows, AnnouncedStays DEF OutsideGrows
<1>2. CASE mails[r][o] > 0
  BY <1>2 DEF MailedIsAnnounced
<1>3. CASE ~ (mails[r][o] > 0)
  <2>1. PICK w \in Workers : Send(w)
    <3>1. ~ UNCHANGED mails
      BY <1>3
    <3>2. ASSUME NEW w \in Workers, Execute(w), ~ Send(w)
          PROVE  UNCHANGED mails
      BY <3>2 DEF Execute, FindExecution, SaveRunning, PublishStarted, Download, Extract, Pack,
         RunStep, Upload, SaveOutcome, PublishOutcome, WasNotified, MarkNotified, outside
    <3>3. ASSUME NEW w \in Workers, Receive(w) \/ Finish(w) \/ CallFails(w) \/ Crash(w)
          PROVE  UNCHANGED mails
      BY <3>3 DEF Receive, Finish, DeleteMessage, RetryMessage, CallFails, Crash, outside
    <3>4. ASSUME NEW m \in Messages, Arrive(m) \/ Expire(m) \/ DeadLetter(m)
          PROVE  UNCHANGED mails
      BY <3>4 DEF Arrive, Expire, DeadLetter, outside
    <3>5. UNCHANGED vars => UNCHANGED mails
      BY DEF vars, outside
    <3>6. QED
      BY <3>1, <3>2, <3>3, <3>4, <3>5 DEF Next
  <2>2. pc[w] = "send" /\ mails' = [mails EXCEPT ![Request(w)][exec[w].outcome] = @ + 1]
    BY <2>1 DEF Send, Continue
  <2>3. r = Request(w) /\ o = exec[w].outcome
    BY <1>3, <2>2 DEF TypeInv, OutsideTyped
  <2>4. QED
    BY <2>2, <2>3 DEF DeliveryInv, NotifiedSoFar, Notifying
<1>4. QED
  BY <1>2, <1>3

(* The queue gets no message by what the worker and SQS do.                *)
LEMMA AbsentStays ==
    ASSUME TypeInv, NEW m \in Messages, inbox[m] = "absent",
           \/ \E n \in Messages : Expire(n) \/ DeadLetter(n)
           \/ \E w \in Workers : Receive(w) \/ Execute(w) \/ Finish(w) \/ CallFails(w) \/ Crash(w)
    PROVE  inbox'[m] = "absent"
<1> USE DEF TypeInv, QueueTyped, HandlersTyped
<1>1. ASSUME NEW n \in Messages, Expire(n) \/ DeadLetter(n)
      PROVE  inbox'[m] = "absent"
  BY <1>1 DEF Expire, DeadLetter
<1>2. ASSUME NEW w \in Workers, Receive(w)
      PROVE  inbox'[m] = "absent"
  BY <1>2 DEF Receive
<1>3. ASSUME NEW w \in Workers, Finish(w)
      PROVE  inbox'[m] = "absent"
  BY <1>3 DEF Finish, DeleteMessage, RetryMessage, Release
<1>4. ASSUME NEW w \in Workers, Execute(w) \/ CallFails(w) \/ Crash(w)
      PROVE  UNCHANGED inbox
  BY <1>4 DEF Execute, FindExecution, SaveRunning, PublishStarted, Download, Extract, Pack, RunStep,
     Upload, SaveOutcome, PublishOutcome, WasNotified, Send, MarkNotified, Continue, CallFails,
     Crash, queue
<1>5. QED
  BY <1>1, <1>2, <1>3, <1>4

(* A message that has arrived stays in the queue or leaves for good, and a *)
(* goroutine only holds one that has arrived.                              *)
HeldArrived == \A w \in Workers : current[w] # NoMessage => inbox[current[w]] # "absent"

LEMMA ArrivedStays ==
    ASSUME TypeInv, [Next]_vars, NEW m \in Messages, inbox[m] # "absent"
    PROVE  inbox'[m] # "absent"
<1> USE DEF TypeInv, QueueTyped
<1>1. ASSUME NEW n \in Messages, Arrive(n) \/ Expire(n) \/ DeadLetter(n)
      PROVE  inbox'[m] # "absent"
  BY <1>1 DEF Arrive, Expire, DeadLetter
<1>2. ASSUME NEW w \in Workers, Receive(w) \/ Finish(w)
      PROVE  inbox'[m] # "absent"
  <2>1. \/ UNCHANGED inbox
        \/ \E n : \E place \in {"visible", "inflight", "deleted"} : inbox' = [inbox EXCEPT ![n] = place]
    BY <1>2 DEF Receive, Finish, DeleteMessage, RetryMessage, Release
  <2>2. QED
    BY <2>1
<1>3. ASSUME NEW w \in Workers, Execute(w) \/ CallFails(w) \/ Crash(w)
      PROVE  UNCHANGED inbox
  BY <1>3 DEF Execute, FindExecution, SaveRunning, PublishStarted, Download, Extract, Pack, RunStep,
     Upload, SaveOutcome, PublishOutcome, WasNotified, Send, MarkNotified, Continue, CallFails,
     Crash, queue
<1>4. UNCHANGED vars => UNCHANGED inbox
  BY DEF vars, queue
<1>5. QED
  BY <1>1, <1>2, <1>3, <1>4 DEF Next

LEMMA StepArrived == TypeInv /\ HeldArrived /\ [Next]_vars => HeldArrived'
<1> SUFFICES ASSUME TypeInv, HeldArrived, [Next]_vars,
                    NEW v \in Workers, current'[v] # NoMessage
             PROVE  inbox'[current'[v]] # "absent"
  BY DEF HeldArrived
<1>1. CASE current'[v] = current[v]
  <2>1. current[v] \in Messages /\ inbox[current[v]] # "absent"
    BY <1>1 DEF TypeInv, HandlersTyped, HeldArrived
  <2>2. QED
    BY <1>1, <2>1, ArrivedStays
<1>2. CASE current'[v] # current[v]
  <2>1. ~ \E m \in Messages : Arrive(m) \/ Expire(m) \/ DeadLetter(m)
    BY <1>2 DEF Arrive, Expire, DeadLetter, handlers
  <2>2. ~ \E w \in Workers : Execute(w) \/ CallFails(w)
    BY <1>2, ExecuteMoves DEF Moves
  <2>3. ~ \E w \in Workers : Finish(w) \/ Crash(w)
    BY <1>2 DEF Finish, DeleteMessage, RetryMessage, Crash, Return, TypeInv, HandlersTyped
  <2>4. ~ UNCHANGED vars
    BY <1>2 DEF vars, handlers
  <2>5. PICK w \in Workers : Receive(w)
    BY <2>1, <2>2, <2>3, <2>4 DEF Next
  <2>6. PICK m \in Messages : /\ inbox' = [inbox EXCEPT ![m] = "inflight"]
                              /\ current' = [current EXCEPT ![w] = m]
    BY <2>5 DEF Receive
  <2>7. QED
    BY <1>2, <2>6 DEF TypeInv, HandlersTyped, QueueTyped
<1>3. QED
  BY <1>1, <1>2

(* What holds however often a request is delivered, whatever lapses and    *)
(* whatever fails.                                                         *)
ExecutionInv == TypeInv /\ HeldArrived /\ DeliveryInv /\ ZipInv /\ MailedIsAnnounced

LEMMA ExecutionInvariant == Spec => []ExecutionInv
<1>1. Init => ExecutionInv
  <2> SUFFICES ASSUME Init PROVE ExecutionInv
    OBVIOUS
  <2>1. DeliveryInv
    BY DEF Init, DeliveryInv, NotifiedSoFar, Notifying
  <2>2. ZipInv
    BY DEF Init, ZipInv, CopyHasZip, CompletedHasZip, Announced, NoExecution
  <2>3. HeldArrived /\ MailedIsAnnounced
    BY DEF Init, HeldArrived, MailedIsAnnounced
  <2>4. QED
    BY <2>1, <2>2, <2>3, InitTyped DEF ExecutionInv
<1>2. ExecutionInv /\ [Next]_vars => ExecutionInv'
  BY StepTyped, StepArrived, StepDelivers, StepZips, StepMails DEF ExecutionInv
<1>3. QED
  BY <1>1, <1>2, PTL DEF Spec

(* Goroutine w handles a message of request r, which has arrived.          *)
Handles(w, r) ==
    /\ r \in Requests
    /\ current[w] \in Messages /\ inbox[current[w]] # "absent" /\ RequestOf[current[w]] = r

LEMMA HandlesOne ==
    ASSUME ExecutionInv, NEW w \in Workers, pc[w] \notin {"idle", "delete"}
    PROVE  Handles(w, Request(w))
<1>1. current[w] \in Messages /\ Request(w) \in Requests /\ Request(w) = RequestOf[current[w]]
  BY AtHand DEF ExecutionInv
<1>2. inbox[current[w]] # "absent"
  BY <1>1, ExecutionAssumption DEF ExecutionInv, HeldArrived
<1>3. QED
  BY <1>1, <1>2 DEF Handles

(* Of what the User can have, a step uploads a zip or sends the e-mail of  *)
(* an outcome that was announced.                                          *)
Uploads(r) == stored' = [stored EXCEPT ![r] = TRUE] /\ UNCHANGED mails

Mails(r, o) ==
    /\ o \in Final /\ Announced(r, o)
    /\ mails' = [mails EXCEPT ![r][o] = @ + 1]
    /\ UNCHANGED stored

LEMMA StepOutside ==
    ASSUME ExecutionInv, [Next]_vars
    PROVE  \/ UNCHANGED <<stored, mails>>
           \/ \E w \in Workers, r \in Requests :
                 Handles(w, r) /\ (Uploads(r) \/ \E o \in Final : Mails(r, o))
<1>1. ASSUME NEW w \in Workers, Upload(w)
      PROVE  \/ UNCHANGED <<stored, mails>>
             \/ Handles(w, Request(w)) /\ Uploads(Request(w))
  <2>1. pc[w] = "upload" /\ UNCHANGED mails
        /\ (UNCHANGED stored \/ stored' = [stored EXCEPT ![Request(w)] = TRUE])
    BY <1>1 DEF Upload
  <2>2. Handles(w, Request(w))
    BY <2>1, HandlesOne
  <2>3. QED
    BY <2>1, <2>2 DEF Uploads
<1>2. ASSUME NEW w \in Workers, Send(w)
      PROVE  Handles(w, Request(w)) /\ \E o \in Final : Mails(Request(w), o)
  <2>1. pc[w] = "send" /\ UNCHANGED stored
        /\ mails' = [mails EXCEPT ![Request(w)][exec[w].outcome] = @ + 1]
    BY <1>2 DEF Send, Continue
  <2>2. Handles(w, Request(w))
    BY <2>1, HandlesOne
  <2>3. exec[w].outcome \in Final /\ Announced(Request(w), exec[w].outcome)
    BY <2>1 DEF ExecutionInv, TypeInv, HandlersApt, MayBeAt, DeliveryInv, NotifiedSoFar, Notifying
  <2>4. QED
    BY <2>1, <2>2, <2>3 DEF Mails
<1>3. ASSUME NEW w \in Workers,
             Receive(w) \/ FindExecution(w) \/ SaveRunning(w) \/ PublishStarted(w) \/ Download(w)
             \/ Extract(w) \/ Pack(w) \/ SaveOutcome(w) \/ PublishOutcome(w) \/ WasNotified(w)
             \/ MarkNotified(w) \/ Finish(w) \/ CallFails(w) \/ Crash(w)
      PROVE  UNCHANGED <<stored, mails>>
  BY <1>3 DEF Receive, FindExecution, SaveRunning, PublishStarted, Download, Extract, Pack, RunStep,
     SaveOutcome, PublishOutcome, WasNotified, MarkNotified, Finish, DeleteMessage, RetryMessage,
     CallFails, Crash, outside
<1>4. ASSUME NEW m \in Messages, Arrive(m) \/ Expire(m) \/ DeadLetter(m)
      PROVE  UNCHANGED <<stored, mails>>
  BY <1>4 DEF Arrive, Expire, DeadLetter, outside
<1>5. UNCHANGED vars => UNCHANGED <<stored, mails>>
  BY DEF vars, outside
<1>6. \A w \in Workers : Handles(w, Request(w)) => Request(w) \in Requests
  BY DEF Handles
<1>7. QED
  BY <1>1, <1>2, <1>3, <1>4, <1>5, <1>6 DEF Next, Execute
=============================================================================
