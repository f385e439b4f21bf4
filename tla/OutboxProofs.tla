---------------------------- MODULE OutboxProofs ----------------------------
(***************************************************************************)
(* Machine-checked theorems about Outbox, for every set of requests, every *)
(* number of relays and every batch size.                                  *)
(***************************************************************************)
EXTENDS Outbox, TLAPS

LEMMA InitTyped == Init => TypeOK
BY OutboxAssumption DEF Init, TypeOK, Committed

(* Rows that are committed stay committed with the id they have.           *)
LEMMA CommittedStays ==
    ASSUME TypeOK, [Next]_vars
    PROVE  /\ Committed \subseteq Committed'
           /\ \A q \in Committed : id'[q] = id[q]
<1>1. ASSUME NEW r \in Requests, Insert(r) \/ Commit(r) \/ Rollback(r)
      PROVE  \A q \in Committed : q \in Committed' /\ id'[q] = id[q]
  BY <1>1 DEF Insert, Commit, Rollback, TypeOK, Committed
<1>2. CASE UNCHANGED table
  BY <1>2 DEF table, Committed
<1>3. QED
  BY <1>1, <1>2 DEF Next, vars, PendingEvents, Publish, PublishFails, MarkPublished, MarkFails, Crash

(* A relay that returns forgets its drain, and touches no other relay's.   *)
LEMMA FinishForgets ==
    ASSUME TypeOK, NEW x \in Relays, Finish(x)
    PROVE  /\ pc' \in [Relays -> {"idle", "publish", "mark"}]
           /\ pending' \in [Relays -> SUBSET Committed]
           /\ sent' \in [Relays -> SUBSET Committed]
           /\ \A y \in Relays : pending'[y] \subseteq pending[y] /\ sent'[y] \subseteq sent[y]
BY DEF Finish, TypeOK

(* Typing is inductive.                                                    *)
LEMMA StepTyped == TypeOK /\ [Next]_vars => TypeOK'
<1> SUFFICES ASSUME TypeOK, [Next]_vars
             PROVE  TypeOK'
  OBVIOUS
<1> USE OutboxAssumption
<1>1. ASSUME NEW r \in Requests, Insert(r)
      PROVE  TypeOK'
  <2>1. Committed' = Committed
    BY <1>1 DEF Insert, TypeOK, Committed
  <2>2. lastId + 1 \in 0..MaxId
    BY <1>1 DEF Insert, TypeOK
  <2>3. QED
    BY <1>1, <2>1, <2>2 DEF Insert, TypeOK, relays
<1>2. ASSUME NEW r \in Requests, Commit(r)
      PROVE  TypeOK'
  <2>1. Committed \subseteq Committed' /\ Committed \subseteq Requests
    BY CommittedStays DEF Committed
  <2>2. UNCHANGED <<lastId, id, marked, published, pc, pending, sent>>
    BY <1>2 DEF Commit, relays
  <2>3. /\ tx' \in [Requests -> {"none", "open", "committed"}]
        /\ before' \in [Requests -> SUBSET Requests]
    BY <1>2, <2>1 DEF Commit, TypeOK
  <2>4. pending' \in [Relays -> SUBSET Committed'] /\ sent' \in [Relays -> SUBSET Committed']
    BY <2>1, <2>2 DEF TypeOK
  <2>5. QED
    BY <2>1, <2>2, <2>3, <2>4 DEF TypeOK
<1>3. ASSUME NEW r \in Requests, Rollback(r)
      PROVE  TypeOK'
  <2>1. Committed' = Committed
    BY <1>3 DEF Rollback, TypeOK, Committed
  <2>2. 0 \in 0..MaxId
    OBVIOUS
  <2>3. QED
    BY <1>3, <2>1, <2>2 DEF Rollback, TypeOK, relays
<1>4. ASSUME NEW x \in Relays, PendingEvents(x)
      PROVE  TypeOK'
  <2>1. Committed' = Committed
    BY <1>4 DEF PendingEvents, table, Committed
  <2>2. \A S \in FirstOf(Unpublished) : S \subseteq Committed
    BY DEF FirstOf, Unpublished
  <2>3. QED
    BY <1>4, <2>1, <2>2 DEF PendingEvents, TypeOK, table
<1>5. ASSUME NEW x \in Relays, Publish(x)
      PROVE  TypeOK'
  <2>1. Committed' = Committed
    BY <1>5 DEF Publish, table, Committed
  <2>2. PICK r \in Requests :
            /\ r \in pending[x]
            /\ published' = published \cup {r}
            /\ pending' = [pending EXCEPT ![x] = @ \ {r}]
            /\ sent' = [sent EXCEPT ![x] = @ \cup {r}]
            /\ pc' = [pc EXCEPT ![x] = IF pending[x] = {r} THEN "mark" ELSE "publish"]
    BY <1>5 DEF Publish, NextRow
  <2>3. r \in Committed
    BY <2>2 DEF TypeOK
  <2>4. QED
    BY <1>5, <2>1, <2>2, <2>3 DEF Publish, TypeOK, table
<1>6. ASSUME NEW x \in Relays, PublishFails(x)
      PROVE  TypeOK'
  <2>1. Committed' = Committed
    BY <1>6 DEF PublishFails, table, Committed
  <2>2. published' \subseteq Committed
    BY <1>6 DEF PublishFails, NextRow, TypeOK
  <2>3. QED
    BY <1>6, <2>1, <2>2 DEF PublishFails, TypeOK, table
<1>7. ASSUME NEW x \in Relays, MarkPublished(x) \/ MarkFails(x) \/ Crash(x)
      PROVE  TypeOK'
  <2>1. UNCHANGED table /\ published' = published /\ Finish(x)
        /\ marked' \in {marked, marked \cup sent[x]}
    BY <1>7 DEF MarkPublished, MarkFails, Crash
  <2>2. Committed' = Committed
    BY <2>1 DEF table, Committed
  <2>3. marked' \subseteq Committed
    BY <2>1 DEF TypeOK
  <2>4. QED
    BY <2>1, <2>2, <2>3, FinishForgets DEF TypeOK, table
<1>8. CASE UNCHANGED vars
  BY <1>8 DEF vars, table, relays, TypeOK, Committed
<1>9. QED
  BY <1>1, <1>2, <1>3, <1>4, <1>5, <1>6, <1>7, <1>8 DEF Next

(* Every variable keeps its type: no relay ever holds, publishes or marks  *)
(* a row that is not committed, for any number of relays.                  *)
THEOREM OutboxTyped == Spec => []TypeOK
BY InitTyped, StepTyped, PTL DEF Spec

(***************************************************************************)
(* A row is marked only when its event was published.                      *)
(***************************************************************************)

(* What a relay is going to mark has been published, by it.                *)
SentWasPublished == \A x \in Relays : sent[x] \subseteq published

MarkInv == TypeOK /\ SentWasPublished /\ MarkedWasPublished

LEMMA StepMarked == MarkInv /\ [Next]_vars => MarkInv'
<1> SUFFICES ASSUME MarkInv, [Next]_vars
             PROVE  SentWasPublished' /\ MarkedWasPublished'
  BY StepTyped DEF MarkInv
<1> USE DEF MarkInv, SentWasPublished, MarkedWasPublished
<1>1. ASSUME NEW r \in Requests, Insert(r) \/ Commit(r) \/ Rollback(r)
      PROVE  SentWasPublished' /\ MarkedWasPublished'
  BY <1>1 DEF Insert, Commit, Rollback, relays
<1>2. ASSUME NEW x \in Relays, PendingEvents(x)
      PROVE  SentWasPublished' /\ MarkedWasPublished'
  BY <1>2 DEF PendingEvents, TypeOK
<1>3. ASSUME NEW x \in Relays, Publish(x)
      PROVE  SentWasPublished' /\ MarkedWasPublished'
  BY <1>3 DEF Publish, TypeOK
<1>4. ASSUME NEW x \in Relays, PublishFails(x)
      PROVE  SentWasPublished' /\ MarkedWasPublished'
  BY <1>4 DEF PublishFails
<1>5. ASSUME NEW x \in Relays, MarkPublished(x) \/ MarkFails(x) \/ Crash(x)
      PROVE  SentWasPublished' /\ MarkedWasPublished'
  <2>1. \A y \in Relays : sent'[y] \subseteq sent[y]
    BY <1>5, FinishForgets DEF MarkPublished, MarkFails, Crash
  <2>2. published' = published /\ marked' \in {marked, marked \cup sent[x]}
    BY <1>5 DEF MarkPublished, MarkFails, Crash
  <2>3. QED
    BY <2>1, <2>2
<1>6. CASE UNCHANGED vars
  BY <1>6 DEF vars, relays
<1>7. QED
  BY <1>1, <1>2, <1>3, <1>4, <1>5, <1>6 DEF Next

LEMMA MarkInvariant == Spec => []MarkInv
<1>1. Init => MarkInv
  BY InitTyped DEF Init, MarkInv, SentWasPublished, MarkedWasPublished
<1>2. QED
  BY <1>1, StepMarked, PTL DEF Spec

(* No event is lost: a row is marked only when SNS accepted its event, for *)
(* any number of relays, batch size and failures.                          *)
THEOREM MarkedRowsPublished == Spec => []MarkedWasPublished
BY MarkInvariant, PTL DEF MarkInv

(***************************************************************************)
(* Events are published in order.                                          *)
(***************************************************************************)

(* q was visible in the outbox when r became visible, with a smaller id.   *)
Precedes(q, r) == q \in before[r] /\ id[q] < id[r]

(* Every row that precedes a committed one is committed itself.            *)
BeforeCommitted == \A r \in Requests : before[r] \subseteq Committed

(* A drain leaves no gap: with a row, it holds every row that precedes it  *)
(* and is not published yet.                                               *)
DrainsHaveNoGap ==
    \A x \in Relays : \A r \in pending[x] : \A q \in Requests :
        Precedes(q, r) => q \in pending[x] \cup published

OrderInv == MarkInv /\ BeforeCommitted /\ DrainsHaveNoGap /\ PublishedInOrder

(* Precedence among committed rows is fixed.                               *)
LEMMA PrecedenceStays ==
    ASSUME OrderInv, [Next]_vars, NEW r \in Committed, NEW q \in Requests
    PROVE  Precedes(q, r)' <=> Precedes(q, r)
<1>1. before'[r] = before[r]
  BY DEF Next, vars, Insert, Commit, Rollback, PendingEvents, Publish, PublishFails, MarkPublished,
         MarkFails, Crash, table, Committed, OrderInv, MarkInv, TypeOK
<1>2. id'[r] = id[r]
  BY CommittedStays DEF OrderInv, MarkInv
<1>3. q \in before[r] => id'[q] = id[q]
  BY CommittedStays DEF OrderInv, MarkInv, BeforeCommitted, Committed
<1>4. QED
  BY <1>1, <1>2, <1>3 DEF Precedes

LEMMA StepBefore == OrderInv /\ [Next]_vars => BeforeCommitted'
<1> SUFFICES ASSUME OrderInv, [Next]_vars, NEW r \in Requests
             PROVE  before'[r] \subseteq Committed'
  BY DEF BeforeCommitted
<1>1. before'[r] \in {before[r], Committed}
  BY DEF Next, vars, Insert, Commit, Rollback, PendingEvents, Publish, PublishFails, MarkPublished,
         MarkFails, Crash, table, OrderInv, MarkInv, TypeOK
<1>2. QED
  BY <1>1, CommittedStays DEF OrderInv, MarkInv, BeforeCommitted

(* A new drain has no gap: it takes the rows with the smallest ids among   *)
(* those that are committed and not marked.                                *)
LEMMA NewDrainHasNoGap ==
    ASSUME OrderInv, NEW S \in FirstOf(Unpublished), NEW r \in S, NEW q \in Requests, Precedes(q, r)
    PROVE  q \in S \cup published
<1>1. r \in Requests /\ q \in Committed
  BY DEF FirstOf, Unpublished, Committed, Precedes, OrderInv, BeforeCommitted
<1>2. CASE q \in marked
  BY <1>2 DEF OrderInv, MarkInv, MarkedWasPublished
<1>3. CASE q \in Unpublished
  <2>1. q \notin S => id[r] < id[q]
    BY <1>3 DEF FirstOf
  <2>2. id[q] \in Int /\ id[r] \in Int
    BY <1>1, OutboxAssumption DEF OrderInv, MarkInv, TypeOK
  <2>3. QED
    BY <2>1, <2>2 DEF Precedes
<1>4. QED
  BY <1>1, <1>2, <1>3 DEF Unpublished

(* What precedes the next row of a drain has been published.               *)
LEMMA NextRowIsDue ==
    ASSUME OrderInv, NEW x \in Relays, NEW r \in Requests, NextRow(x, r),
           NEW q \in Requests, Precedes(q, r)
    PROVE  q \in published
<1>1. q \in pending[x] => id[r] <= id[q]
  BY DEF NextRow
<1>2. id[q] \in Int /\ id[r] \in Int
  BY OutboxAssumption DEF OrderInv, MarkInv, TypeOK
<1>3. q \in pending[x] \cup published
  BY DEF NextRow, OrderInv, DrainsHaveNoGap
<1>4. QED
  BY <1>1, <1>2, <1>3 DEF Precedes

LEMMA StepDrains == OrderInv /\ [Next]_vars => DrainsHaveNoGap'
<1> SUFFICES ASSUME OrderInv, [Next]_vars,
                    NEW y \in Relays, NEW s \in pending'[y], NEW q \in Requests, Precedes(q, s)'
             PROVE  q \in pending'[y] \cup published'
  BY DEF DrainsHaveNoGap
<1>1. published \subseteq published'
  BY DEF Next, vars, Insert, Commit, Rollback, PendingEvents, Publish, PublishFails, MarkPublished,
         MarkFails, Crash
<1>2. ASSUME s \in pending[y], pending'[y] = pending[y]
      PROVE  q \in pending'[y] \cup published'
  <2>1. s \in Committed
    BY <1>2 DEF OrderInv, MarkInv, TypeOK
  <2>2. Precedes(q, s)
    BY <2>1, PrecedenceStays
  <2>3. QED
    BY <1>1, <1>2, <2>2 DEF OrderInv, DrainsHaveNoGap
<1>3. ASSUME NEW x \in Relays, PendingEvents(x)
      PROVE  q \in pending'[y] \cup published'
  <2>1. PICK S \in FirstOf(Unpublished) : pending' = [pending EXCEPT ![x] = S]
    BY <1>3 DEF PendingEvents
  <2>2. UNCHANGED <<id, before>>
    BY <1>3 DEF PendingEvents, table
  <2>3. Precedes(q, s)
    BY <2>2 DEF Precedes
  <2>4. CASE y = x
    BY <1>1, <2>1, <2>3, <2>4, NewDrainHasNoGap DEF OrderInv, MarkInv, TypeOK
  <2>5. CASE y # x
    BY <1>2, <2>1, <2>5 DEF OrderInv, MarkInv, TypeOK
  <2>6. QED
    BY <2>4, <2>5
<1>4. ASSUME NEW x \in Relays, Publish(x)
      PROVE  q \in pending'[y] \cup published'
  <2>1. PICK r \in Requests : /\ published' = published \cup {r}
                              /\ pending' = [pending EXCEPT ![x] = @ \ {r}]
    BY <1>4 DEF Publish
  <2>2. Precedes(q, s)
    BY <1>4 DEF Publish, table, Precedes
  <2>3. s \in pending[y] /\ pending[y] \subseteq pending'[y] \cup {r}
    BY <2>1 DEF OrderInv, MarkInv, TypeOK
  <2>4. q \in pending[y] \cup published
    BY <2>2, <2>3 DEF OrderInv, DrainsHaveNoGap
  <2>5. QED
    BY <2>1, <2>3, <2>4
<1>5. ASSUME NEW x \in Relays,
             PublishFails(x) \/ MarkPublished(x) \/ MarkFails(x) \/ Crash(x)
      PROVE  q \in pending'[y] \cup published'
  <2>1. pending' = [pending EXCEPT ![x] = {}]
    BY <1>5 DEF PublishFails, MarkPublished, MarkFails, Crash, Finish
  <2>2. y # x /\ pending'[y] = pending[y]
    BY <2>1 DEF OrderInv, MarkInv, TypeOK
  <2>3. QED
    BY <1>2, <2>2
<1>6. CASE UNCHANGED relays
  BY <1>2, <1>6 DEF relays
<1>7. QED
  BY <1>3, <1>4, <1>5, <1>6 DEF Next, vars, Insert, Commit, Rollback

LEMMA StepOrdered == OrderInv /\ [Next]_vars => PublishedInOrder'
<1> SUFFICES ASSUME OrderInv, [Next]_vars,
                    NEW s \in published', NEW q \in before'[s], id'[q] < id'[s]
             PROVE  q \in published'
  BY DEF PublishedInOrder
<1>1. s \in Committed \/ published' = published
  BY DEF Next, vars, Insert, Commit, Rollback, PendingEvents, Publish, PublishFails, MarkPublished,
         MarkFails, Crash, NextRow, OrderInv, MarkInv, TypeOK
<1>2. s \in Committed /\ s \in Requests
  BY <1>1 DEF OrderInv, MarkInv, TypeOK, Committed
<1>3. q \in Requests
  BY <1>2, StepTyped DEF OrderInv, MarkInv, TypeOK
<1>4. Precedes(q, s)
  BY <1>2, <1>3, PrecedenceStays DEF Precedes
<1>5. published \subseteq published'
  BY DEF Next, vars, Insert, Commit, Rollback, PendingEvents, Publish, PublishFails, MarkPublished,
         MarkFails, Crash
<1>6. CASE s \in published
  BY <1>4, <1>5, <1>6 DEF OrderInv, PublishedInOrder, Precedes
<1>7. CASE s \notin published
  <2>1. PICK x \in Relays : NextRow(x, s)
    BY <1>7 DEF Next, vars, Insert, Commit, Rollback, PendingEvents, Publish, PublishFails,
       MarkPublished, MarkFails, Crash, relays
  <2>2. QED
    BY <1>2, <1>3, <1>4, <1>5, <2>1, NextRowIsDue
<1>8. QED
  BY <1>6, <1>7

(* An event that was visible in the outbox before a later one is first     *)
(* published before it, for any number of relays draining the same rows.   *)
THEOREM EventsPublishedInOrder == Spec => []PublishedInOrder
<1>1. Init => OrderInv
  BY InitTyped DEF Init, OrderInv, MarkInv, SentWasPublished, MarkedWasPublished, BeforeCommitted,
     DrainsHaveNoGap, PublishedInOrder
<1>2. OrderInv /\ [Next]_vars => OrderInv'
  BY StepMarked, StepBefore, StepDrains, StepOrdered DEF OrderInv
<1>3. OrderInv => PublishedInOrder
  BY DEF OrderInv
<1>4. QED
  BY <1>1, <1>2, <1>3, PTL DEF Spec
=============================================================================
