---------------------------- MODULE UserPromise ----------------------------
(***************************************************************************)
(* What the platform as a whole promises the User about a Process Request, *)
(* without services, queues or tables: it is settled once, a COMPLETED one *)
(* with its zip; the status that is shown and the e-mails that are sent    *)
(* tell that one outcome, and nothing precedes what it tells of.           *)
(***************************************************************************)
CONSTANT Requests

VARIABLES
    asked,      \* requests the api has accepted
    outcome,    \* how each was settled, or "none"
    zips,       \* requests whose frames can be downloaded
    shown,      \* the status and the result the User is shown
    mailed      \* the outcomes the User was mailed

vars == <<asked, outcome, zips, shown, mailed>>

Final == {"COMPLETED", "FAILED"}
ResultOf == [PENDING |-> "none", PROCESSING |-> "none", COMPLETED |-> "zip", FAILED |-> "reason"]
Seen(status) == [status |-> status, result |-> ResultOf[status]]

Init ==
    /\ asked = {}
    /\ outcome = [r \in Requests |-> "none"]
    /\ zips = {}
    /\ shown = [r \in Requests |-> Seen("PENDING")]
    /\ mailed = [r \in Requests |-> {}]

Ask(r) ==
    /\ asked' = asked \cup {r}
    /\ UNCHANGED <<outcome, zips, shown, mailed>>

Pack(r) ==
    /\ r \in asked
    /\ outcome[r] = "none"
    /\ zips' = zips \cup {r}
    /\ UNCHANGED <<asked, outcome, shown, mailed>>

Settle(r) ==
    /\ r \in asked
    /\ outcome[r] = "none"
    /\ \E o \in Final : /\ o = "COMPLETED" => r \in zips
                        /\ outcome' = [outcome EXCEPT ![r] = o]
    /\ UNCHANGED <<asked, zips, shown, mailed>>

(* A settled request may still be shown as PROCESSING for a while. *)
Show(r) ==
    /\ r \in asked
    /\ shown[r].status \notin Final
    /\ \E s \in {"PROCESSING", outcome[r]} \ {"none"} : shown' = [shown EXCEPT ![r] = Seen(s)]
    /\ UNCHANGED <<asked, outcome, zips, mailed>>

Mail(r) ==
    /\ outcome[r] # "none"
    /\ mailed' = [mailed EXCEPT ![r] = {outcome[r]}]
    /\ UNCHANGED <<asked, outcome, zips, shown>>

Next == \E r \in Requests : Ask(r) \/ Pack(r) \/ Settle(r) \/ Show(r) \/ Mail(r)

Spec == Init /\ [][Next]_vars
=============================================================================
