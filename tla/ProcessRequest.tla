--------------------------- MODULE ProcessRequest ---------------------------
(***************************************************************************)
(* The Process Request of video-processor-api and what one worker event    *)
(* does to it (domain/video/processing.go).  The operators are the pure    *)
(* part of StartProcessing, CompleteProcessing and FailProcessing: the     *)
(* closure that `apply' runs on the row it has just read.                  *)
(*                                                                         *)
(* A row is [status, attempts]; identifiers and timestamps are left out.   *)
(* A result is "zip" (zip_key set), "reason" (failure_reason set) or       *)
(* "none" (no video_process_result row).                                   *)
(***************************************************************************)
EXTENDS Integers

Status == {"PENDING", "PROCESSING", "COMPLETED", "FAILED"}

TerminalStatus == {"COMPLETED", "FAILED"}

Results == {"none", "zip", "reason"}

Rows == [status : Status, attempts : Nat]

(* Mutants of allowedTransitions: FAILED is not terminal; an outcome is    *)
(* refused before its Started.                                             *)
allowedTransitionsFromFailed ==
    [s \in Status |-> IF s = "COMPLETED" THEN {} ELSE {"PROCESSING", "COMPLETED", "FAILED"}]
allowedTransitionsInOrder ==
    [s \in Status |-> IF s = "PENDING" THEN {"PROCESSING"}
                      ELSE IF s = "PROCESSING" THEN {"PROCESSING", "COMPLETED", "FAILED"}
                      ELSE {}]

(* The statuses `transition' accepts from each status. *)
allowedTransitions ==
    [s \in Status |-> IF s \in {"PENDING", "PROCESSING"}
                      THEN {"PROCESSING", "COMPLETED", "FAILED"}
                      ELSE {}]

(* What a change function answers: whether it succeeded, the row to write, *)
(* and the result to upsert ("none" when it returns a nil result).         *)
Changes == [ok : BOOLEAN, row : Rows, result : Results]

(* The row a new Process Request is inserted with (service.go).  *)
NewRow == [status |-> "PENDING", attempts |-> 0]

Refused == [ok |-> FALSE, row |-> NewRow, result |-> "none"]

Larger(a, b) == IF a > b THEN a ELSE b

(* transition(to), with the attempts the handler sets on the row. *)
Transition(row, to, attempts, result) ==
    IF to \in allowedTransitions[row.status]
    THEN [ok |-> TRUE, row |-> [status |-> to, attempts |-> attempts], result |-> result]
    ELSE Refused

(* Mutant of StartProcessing: a late Started takes the attempts back.      *)
StartProcessingRewinds(row, attempt) ==
    IF row.status \in TerminalStatus
    THEN [ok |-> TRUE, row |-> row, result |-> "none"]
    ELSE Transition(row, "PROCESSING", attempt, "none")

(* A late Started of a terminal request is not an error: the row is        *)
(* written back as it was read.                                            *)
StartProcessing(row, attempt) ==
    IF row.status \in TerminalStatus
    THEN [ok |-> TRUE, row |-> row, result |-> "none"]
    ELSE Transition(row, "PROCESSING", Larger(row.attempts, attempt), "none")

CompleteProcessing(row) == Transition(row, "COMPLETED", row.attempts, "zip")

FailProcessing(row, retryable, attempt) ==
    IF retryable
    THEN Transition(row, "PROCESSING", Larger(row.attempts, attempt), "none")
    ELSE Transition(row, "FAILED", Larger(row.attempts, attempt), "reason")

(* The event types that dispatch hands to the service, a body that is no   *)
(* envelope or of a type that nobody handles ("Malformed"), and a payload  *)
(* that does not decode ("BadPayload").                                    *)
Dispatched == {"Started", "Completed", "Failed"}
EventTypes == Dispatched \cup {"Malformed", "BadPayload"}

(* dispatch: the change that an event asks for. *)
Change(row, ev) ==
    IF ev.type = "Started" THEN StartProcessing(row, ev.attempt)
    ELSE IF ev.type = "Completed" THEN CompleteProcessing(row)
    ELSE IF ev.type = "Failed" THEN FailProcessing(row, ev.retryable, ev.attempt)
    ELSE Refused
=============================================================================
