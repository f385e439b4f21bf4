------------------------------- MODULE Outbox -------------------------------
(***************************************************************************)
(* The transactional outbox of video-processor-api: CreateRequest inserts  *)
(* the Process Request and its VideoProcessingRequested event in one       *)
(* transaction, and the relay goroutine of every api pod drains the table  *)
(* to SNS every two seconds.  Nothing keeps two relays from draining the   *)
(* same rows.                                                              *)
(*                                                                         *)
(* A transaction takes its id from the sequence when it inserts and        *)
(* becomes visible when it commits, so ids may become visible out of       *)
(* order.                                                                  *)
(***************************************************************************)
EXTENDS Integers, FiniteSets

CONSTANTS
    Requests,   \* process requests, one outbox event each
    Relays,     \* running api pods
    Batch,      \* OUTBOX_BATCH: rows of one drain
    MaxId       \* bound of the model: values the id sequence gives out

ASSUME OutboxAssumption ==
    /\ Batch \in Nat \ {0}
    /\ MaxId \in Nat

VARIABLES
    lastId,     \* the outbox id sequence
    tx,         \* the transaction of each request's CreateRequest
    id,         \* the outbox id it took
    before,     \* the requests already committed when a request commits
    marked,     \* outbox rows with published_at set
    published,  \* events that SNS has accepted at least once
    pc,         \* what each relay does next
    pending,    \* rows of its PendingEvents not yet published
    sent        \* rows it has published in this drain

table == <<lastId, tx, id, before>>
relays == <<pc, pending, sent>>
vars == <<table, marked, published, relays>>

Init ==
    /\ lastId = 0
    /\ tx = [r \in Requests |-> "none"]
    /\ id = [r \in Requests |-> 0]
    /\ before = [r \in Requests |-> {}]
    /\ marked = {}
    /\ published = {}
    /\ pc = [x \in Relays |-> "idle"]
    /\ pending = [x \in Relays |-> {}]
    /\ sent = [x \in Relays |-> {}]

Committed == {r \in Requests : tx[r] = "committed"}

-----------------------------------------------------------------------------
(* CreateRequest. *)

Insert(r) ==
    /\ tx[r] = "none"
    /\ lastId < MaxId
    /\ lastId' = lastId + 1
    /\ id' = [id EXCEPT ![r] = lastId + 1]
    /\ tx' = [tx EXCEPT ![r] = "open"]
    /\ UNCHANGED <<before, marked, published, relays>>

Commit(r) ==
    /\ tx[r] = "open"
    /\ tx' = [tx EXCEPT ![r] = "committed"]
    /\ before' = [before EXCEPT ![r] = Committed]
    /\ UNCHANGED <<lastId, id, marked, published, relays>>

(* The insert or the commit fails; the User may ask again, with a new id.  *)
Rollback(r) ==
    /\ tx[r] = "open"
    /\ tx' = [tx EXCEPT ![r] = "none"]
    /\ id' = [id EXCEPT ![r] = 0]
    /\ UNCHANGED <<lastId, before, marked, published, relays>>

-----------------------------------------------------------------------------
(* The relay. *)

(* Mutants of Unpublished: rows of open transactions are seen; the relay   *)
(* keeps the last id it marked instead of the mark of every row.           *)
UnpublishedDirty == {r \in Requests : tx[r] # "none"} \ marked
UnpublishedAfterCursor == {r \in Committed \ marked : \A q \in marked : id[q] < id[r]}

Unpublished == Committed \ marked

(* SELECT ... WHERE published_at IS NULL ORDER BY id LIMIT Batch. *)
FirstOf(rows) ==
    {S \in SUBSET rows :
        /\ Cardinality(S) <= Batch
        /\ S # rows => Cardinality(S) = Batch
        /\ \A r \in S, q \in rows \ S : id[r] < id[q]}

PendingEvents(x) ==
    /\ pc[x] = "idle"
    /\ Unpublished # {}
    /\ \E S \in FirstOf(Unpublished) : pending' = [pending EXCEPT ![x] = S]
    /\ sent' = [sent EXCEPT ![x] = {}]
    /\ pc' = [pc EXCEPT ![x] = "publish"]
    /\ UNCHANGED <<table, marked, published>>

NextRow(x, r) == r \in pending[x] /\ \A q \in pending[x] : id[r] <= id[q]

(* Publish the next row of the drain. *)
Publish(x) ==
    /\ pc[x] = "publish"
    /\ \E r \in Requests :
          /\ NextRow(x, r)
          /\ published' = published \cup {r}
          /\ pending' = [pending EXCEPT ![x] = @ \ {r}]
          /\ sent' = [sent EXCEPT ![x] = @ \cup {r}]
          /\ pc' = [pc EXCEPT ![x] = IF pending[x] = {r} THEN "mark" ELSE "publish"]
    /\ UNCHANGED <<table, marked>>

(* Mutants of PublishFails: the failed row is marked too; the drain goes   *)
(* on with the next row.                                                   *)
PublishFailsMarked(x) ==
    /\ pc[x] = "publish"
    /\ \E r \in Requests :
          /\ NextRow(x, r)
          /\ published' \in {published, published \cup {r}}
          /\ sent' = [sent EXCEPT ![x] = @ \cup {r}]
    /\ pending' = [pending EXCEPT ![x] = {}]
    /\ pc' = [pc EXCEPT ![x] = "mark"]
    /\ UNCHANGED <<table, marked>>
PublishFailsSkips(x) ==
    /\ pc[x] = "publish"
    /\ \E r \in Requests :
          /\ NextRow(x, r)
          /\ published' \in {published, published \cup {r}}
          /\ pending' = [pending EXCEPT ![x] = @ \ {r}]
          /\ pc' = [pc EXCEPT ![x] = IF pending[x] = {r} THEN "mark" ELSE "publish"]
    /\ UNCHANGED <<table, marked, sent>>

(* SNS answers with an error, or its answer is lost: the drain stops and   *)
(* marks what it published before.                                         *)
PublishFails(x) ==
    /\ pc[x] = "publish"
    /\ \E r \in Requests :
          /\ NextRow(x, r)
          /\ published' \in {published, published \cup {r}}
    /\ pending' = [pending EXCEPT ![x] = {}]
    /\ pc' = [pc EXCEPT ![x] = "mark"]
    /\ UNCHANGED <<table, marked, sent>>

Finish(x) ==
    /\ pc' = [pc EXCEPT ![x] = "idle"]
    /\ pending' = [pending EXCEPT ![x] = {}]
    /\ sent' = [sent EXCEPT ![x] = {}]

MarkPublished(x) ==
    /\ pc[x] = "mark"
    /\ marked' = marked \cup sent[x]
    /\ Finish(x)
    /\ UNCHANGED <<table, published>>

(* The UPDATE fails: the rows stay pending and are published again.        *)
MarkFails(x) ==
    /\ pc[x] = "mark"
    /\ Finish(x)
    /\ UNCHANGED <<table, marked, published>>

Crash(x) ==
    /\ pc[x] # "idle"
    /\ Finish(x)
    /\ UNCHANGED <<table, marked, published>>

-----------------------------------------------------------------------------
Next ==
    \/ \E r \in Requests : Insert(r) \/ Commit(r) \/ Rollback(r)
    \/ \E x \in Relays : \/ PendingEvents(x)
                         \/ Publish(x)
                         \/ PublishFails(x)
                         \/ MarkPublished(x)
                         \/ MarkFails(x)
                         \/ Crash(x)

Spec == Init /\ [][Next]_vars

PublishWith(x, n) == Publish(x) /\ Cardinality(pending[x]) = n

(* Relays tick, and no failure is permanent: a relay that again and again  *)
(* gets to the n-th last row of a drain, or to marking what it published,  *)
(* succeeds in the end.                                                    *)
Fairness ==
    \A x \in Relays :
        /\ WF_vars(PendingEvents(x))
        /\ \A n \in 1..Batch : SF_vars(PublishWith(x, n))
        /\ SF_vars(MarkPublished(x) /\ sent[x] # {})
        /\ WF_vars(MarkPublished(x))

FairSpec == Spec /\ Fairness

-----------------------------------------------------------------------------
(* Properties. *)

(* Types: rows that a relay holds are committed.                           *)
TypeOK ==
    /\ lastId \in 0..MaxId
    /\ tx \in [Requests -> {"none", "open", "committed"}]
    /\ id \in [Requests -> 0..MaxId]
    /\ before \in [Requests -> SUBSET Requests]
    /\ marked \subseteq Committed
    /\ published \subseteq Committed
    /\ pc \in [Relays -> {"idle", "publish", "mark"}]
    /\ pending \in [Relays -> SUBSET Committed]
    /\ sent \in [Relays -> SUBSET Committed]

(* "O evento fica no outbox ... e nada se perde" (F5): a row is marked     *)
(* only when SNS accepted its event.                                       *)
MarkedWasPublished == marked \subseteq published

(* "O relay tenta ... na ordem original" (F5): an event that was visible   *)
(* in the outbox before a later one is first published before it, whatever *)
(* number of relays drain the table, fail or restart.                      *)
PublishedInOrder ==
    \A r \in published : \A q \in before[r] : id[q] < id[r] => q \in published

(* Every committed event is eventually published and marked, and no relay  *)
(* takes it up again.                                                      *)
EveryEventIsPublished ==
    \A r \in Requests : tx[r] = "committed" ~> r \in marked
=============================================================================
