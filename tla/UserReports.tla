---------------------------- MODULE UserReports ----------------------------
(***************************************************************************)
(* What the User may be told about a Process Request however many pods     *)
(* run, however often its messages are delivered and whichever heartbeats  *)
(* lapse: weaker than UserPromise, which all of these break.  A request    *)
(* may be told to have ended in both ways and the status may be taken back *)
(* by a stale write; but nothing is told, shown or mailed of a request     *)
(* that was not asked for, COMPLETED is not told without a zip, nothing is *)
(* shown or mailed that was not told, and a result that was shown stays    *)
(* until the other outcome is told.                                        *)
(***************************************************************************)
CONSTANT Requests

VARIABLES
    asked,      \* requests the api has accepted
    told,       \* the outcomes that were announced of each
    zips,       \* requests whose frames can be downloaded
    shown,      \* the status and the result the User is shown
    mailed      \* the outcomes the User was mailed

vars == <<asked, told, zips, shown, mailed>>

Final == {"COMPLETED", "FAILED"}
ResultOf == [COMPLETED |-> "zip", FAILED |-> "reason"]

Init ==
    /\ asked = {}
    /\ told = [r \in Requests |-> {}]
    /\ zips = {}
    /\ shown = [r \in Requests |-> [status |-> "PENDING", result |-> "none"]]
    /\ mailed = [r \in Requests |-> {}]

Ask(r) ==
    /\ asked' = asked \cup {r}
    /\ UNCHANGED <<told, zips, shown, mailed>>

Pack(r) ==
    /\ r \in asked
    /\ zips' = zips \cup {r}
    /\ UNCHANGED <<asked, told, shown, mailed>>

Tell(r) ==
    /\ r \in asked
    /\ \E o \in Final : /\ o = "COMPLETED" => r \in zips
                        /\ told' = [told EXCEPT ![r] = @ \cup {o}]
    /\ UNCHANGED <<asked, zips, shown, mailed>>

(* An outcome is shown together with its result. *)
Conclude(r) ==
    /\ \E o \in told[r] : shown' = [shown EXCEPT ![r] = [status |-> o, result |-> ResultOf[o]]]
    /\ UNCHANGED <<asked, told, zips, mailed>>

(* Progress, or a status that was read earlier, is written over whatever   *)
(* the status is by now; the result is left as it is.                      *)
Report(r) ==
    /\ r \in asked
    /\ \E s \in {"PROCESSING"} \cup told[r] :
          /\ s \in Final => shown[r].result # "none"
          /\ shown' = [shown EXCEPT ![r].status = s]
    /\ UNCHANGED <<asked, told, zips, mailed>>

Mail(r) ==
    /\ \E o \in told[r] : mailed' = [mailed EXCEPT ![r] = @ \cup {o}]
    /\ UNCHANGED <<asked, told, zips, shown>>

Next == \E r \in Requests : Ask(r) \/ Pack(r) \/ Tell(r) \/ Conclude(r) \/ Report(r) \/ Mail(r)

Spec == Init /\ [][Next]_vars
=============================================================================
