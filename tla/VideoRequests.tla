--------------------------- MODULE VideoRequests ---------------------------
(***************************************************************************)
(* The use cases of video-processor-api behind its HTTP routes             *)
(* (domain/video/service.go): CreateVideo, ProcessVideo, DownloadResult    *)
(* and ListVideos.                                                         *)
(* Any number of calls run at once, in any number of pods; each is a       *)
(* sequence of calls to the database and to S3, one action each, any of    *)
(* which may fail (500 internal_error).  The User uploads straight to S3   *)
(* with the URL CreateVideo signed.                                        *)
(***************************************************************************)
EXTENDS FiniteSets

CONSTANTS
    Users,      \* authenticated identities (X-User-Id)
    Videos,     \* video ids
    Calls,      \* HTTP requests; the id of a Process Request is its call
    None

ASSUME NoneAssumption == None \notin Users \cup Calls \cup Videos

VARIABLES
    owner,      \* video: the user_id of each row
    object,     \* uploads/ bucket: whose metadata the object of a video has
    uploaded,   \* history: videos whose object has ever carried its owner
    request,    \* video_process_request: unique per video
    outbox,     \* requests with a VideoProcessingRequested event
    completed,  \* videos whose request has the status COMPLETED
    result,     \* video_process_result of a video's request: a zip or a reason
    pc,         \* the step a call makes next
    input,      \* what it asks, of which video, in whose name
    answer      \* what it answered

tracked == <<completed, result>>
tables == <<owner, request, outbox, tracked>>
store == <<object, uploaded>>
calls == <<pc, input, answer>>
vars == <<tables, store, calls>>

Objects == {"absent", "own", "foreign"}
Steps == {"new", "create", "presign", "find", "existing", "head", "insert", "reread",
          "status", "result", "list", "done"}
Errors == {"not_found", "forbidden", "upload_not_found", "upload_mismatch", "not_completed",
           "unprocessable", "invalid_body", "unauthenticated", "internal_error"}

Inputs == [kind : {"create", "process", "download", "list"}, user : Users \cup {None},
           video : Videos]
NoInput == [kind |-> "none", user |-> None, video |-> None]
Answers == [code : {"ticket", "accepted", "link", "list", "none"} \cup Errors,
            request : Calls \cup {None},
            listed : SUBSET Calls]              \* the requests of a list
NoAnswer == [code |-> "none", request |-> None, listed |-> {}]
FirstStep == [create |-> "create", process |-> "find", download |-> "find", list |-> "list"]

Init ==
    /\ owner = [v \in Videos |-> None]
    /\ object = [v \in Videos |-> "absent"]
    /\ uploaded = {}
    /\ request = [v \in Videos |-> None]
    /\ outbox = {}
    /\ completed = {}
    /\ result = [v \in Videos |-> "none"]
    /\ pc = [c \in Calls |-> "new"]
    /\ input = [c \in Calls |-> NoInput]
    /\ answer = [c \in Calls |-> NoAnswer]

Video(c) == input[c].video
User(c) == input[c].user

Go(c, to) ==
    /\ pc' = [pc EXCEPT ![c] = to]
    /\ UNCHANGED <<input, answer>>

AnswerWith(c, code, req) ==
    /\ pc' = [pc EXCEPT ![c] = "done"]
    /\ answer' = [answer EXCEPT ![c] = [NoAnswer EXCEPT !.code = code, !.request = req]]
    /\ UNCHANGED input

-----------------------------------------------------------------------------
(* What is refused before anything is asked of the database: a request     *)
(* without an identity, a body that is no JSON, a file whose extension or  *)
(* size is not accepted.                                                   *)
Refusals(i) ==
    IF i.user = None THEN {"unauthenticated"}
    ELSE IF i.kind = "create" THEN {"invalid_body", "unprocessable"} ELSE {}

(* A request arrives.  CreateVideo takes a new id; a video that does not   *)
(* exist may be asked for.                                                 *)
Begin(c) ==
    /\ pc[c] = "new"
    /\ \E i \in Inputs :
          /\ i.kind = "create" => /\ owner[i.video] = None
                                  /\ \A d \in Calls \ {c} : input[d].kind = "create" =>
                                        input[d].video # i.video
          /\ input' = [input EXCEPT ![c] = i]
          /\ \/ /\ i.user # None
                /\ pc' = [pc EXCEPT ![c] = FirstStep[i.kind]]
                /\ UNCHANGED answer
             \/ /\ pc' = [pc EXCEPT ![c] = "done"]
                /\ \E code \in Refusals(i) : answer' = [answer EXCEPT ![c].code = code]
    /\ UNCHANGED <<tables, store>>

SaveVideo(c) ==
    /\ pc[c] = "create"
    /\ Go(c, "presign")
    /\ owner' = [owner EXCEPT ![Video(c)] = User(c)]
    /\ UNCHANGED <<request, outbox, tracked, store>>

PresignUpload(c) ==
    /\ pc[c] = "presign"
    /\ AnswerWith(c, "ticket", None)
    /\ UNCHANGED <<tables, store>>

(* Mutant of FindVideo: the owner is not compared.                         *)
FindVideoOfAnyone(c) ==
    /\ pc[c] = "find"
    /\ \/ /\ owner[Video(c)] = None
          /\ AnswerWith(c, "not_found", None)
       \/ /\ owner[Video(c)] # None
          /\ Go(c, IF input[c].kind = "process" THEN "existing" ELSE "status")
    /\ UNCHANGED <<tables, store>>

(* ownedVideo, the first step of ProcessVideo and DownloadResult. *)
FindVideo(c) ==
    /\ pc[c] = "find"
    /\ \/ /\ owner[Video(c)] = None
          /\ AnswerWith(c, "not_found", None)
       \/ /\ owner[Video(c)] \notin {None, User(c)}
          /\ AnswerWith(c, "forbidden", None)
       \/ /\ owner[Video(c)] = User(c)
          /\ Go(c, IF input[c].kind = "process" THEN "existing" ELSE "status")
    /\ UNCHANGED <<tables, store>>

FindRequestByVideo(c) ==
    /\ pc[c] = "existing"
    /\ \/ /\ request[Video(c)] # None
          /\ AnswerWith(c, "accepted", request[Video(c)])
       \/ /\ request[Video(c)] = None
          /\ Go(c, "head")
    /\ UNCHANGED <<tables, store>>

(* Mutant of Head: the owner in the metadata is not compared.              *)
HeadOfAnyone(c) ==
    /\ pc[c] = "head"
    /\ \/ /\ object[Video(c)] = "absent"
          /\ AnswerWith(c, "upload_not_found", None)
       \/ /\ object[Video(c)] # "absent"
          /\ Go(c, "insert")
    /\ UNCHANGED <<tables, store>>

Head(c) ==
    /\ pc[c] = "head"
    /\ \/ /\ object[Video(c)] = "absent"
          /\ AnswerWith(c, "upload_not_found", None)
       \/ /\ object[Video(c)] = "foreign"
          /\ AnswerWith(c, "upload_mismatch", None)
       \/ /\ object[Video(c)] = "own"
          /\ Go(c, "insert")
    /\ UNCHANGED <<tables, store>>

(* Mutants of CreateRequest: the loser of the race answers with the        *)
(* request it built; its event stays in the outbox.                        *)
CreateRequestOwnAnswer(c) ==
    /\ pc[c] = "insert"
    /\ request' = [request EXCEPT ![Video(c)] = IF @ = None THEN c ELSE @]
    /\ outbox' = IF request[Video(c)] = None THEN outbox \cup {c} ELSE outbox
    /\ AnswerWith(c, "accepted", c)
    /\ UNCHANGED <<owner, tracked, store>>
CreateRequestStrayEvent(c) ==
    /\ pc[c] = "insert"
    /\ outbox' = outbox \cup {c}
    /\ \/ /\ request[Video(c)] = None
          /\ request' = [request EXCEPT ![Video(c)] = c]
          /\ AnswerWith(c, "accepted", c)
       \/ /\ request[Video(c)] # None
          /\ Go(c, "reread")
          /\ UNCHANGED request
    /\ UNCHANGED <<owner, tracked, store>>

(* One transaction: the request row, unique per video, and its event. *)
CreateRequest(c) ==
    /\ pc[c] = "insert"
    /\ \/ /\ request[Video(c)] = None
          /\ request' = [request EXCEPT ![Video(c)] = c]
          /\ outbox' = outbox \cup {c}
          /\ AnswerWith(c, "accepted", c)
       \/ /\ request[Video(c)] # None              \* ErrRequestExists
          /\ Go(c, "reread")
          /\ UNCHANGED <<request, outbox>>
    /\ UNCHANGED <<owner, tracked, store>>

(* Mutant of FindRequestAgain: it answers with the id of the video.        *)
FindRequestAgainById(c) ==
    /\ pc[c] = "reread"
    /\ AnswerWith(c, "accepted", Video(c))
    /\ UNCHANGED <<tables, store>>

FindRequestAgain(c) ==
    /\ pc[c] = "reread"
    /\ IF request[Video(c)] # None
       THEN AnswerWith(c, "accepted", request[Video(c)])
       ELSE AnswerWith(c, "not_found", None)
    /\ UNCHANGED <<tables, store>>

(* DownloadResult reads the request and then, in a second call, its result. *)
CheckStatus(c) ==
    /\ pc[c] = "status"
    /\ \/ /\ request[Video(c)] = None
          /\ AnswerWith(c, "not_found", None)
       \/ /\ request[Video(c)] # None
          /\ Video(c) \notin completed
          /\ AnswerWith(c, "not_completed", None)
       \/ /\ request[Video(c)] # None
          /\ Video(c) \in completed
          /\ Go(c, "result")
    /\ UNCHANGED <<tables, store>>

(* Whatever row there is by now: its zip_key is signed without a look at   *)
(* the outcome.                                                            *)
FindResult(c) ==
    /\ pc[c] = "result"
    /\ IF result[Video(c)] # "none"
       THEN AnswerWith(c, "link", request[Video(c)])
       ELSE AnswerWith(c, "not_found", None)
    /\ UNCHANGED <<tables, store>>

(* Mutant of ListByUser: JOIN for LEFT JOIN, so that a request without a   *)
(* result has no row.                                                      *)
ListByUserJoined(c) ==
    /\ pc[c] = "list"
    /\ pc' = [pc EXCEPT ![c] = "done"]
    /\ answer' = [answer EXCEPT
          ![c].code = "list",
          ![c].listed = {request[v] : v \in {w \in Videos : owner[w] = User(c)
                                                    /\ result[w] # "none"}}]
    /\ UNCHANGED <<tables, store, input>>

(* ListVideos: one SELECT by q.user_id, which is the owner of the video.   *)
ListByUser(c) ==
    /\ pc[c] = "list"
    /\ pc' = [pc EXCEPT ![c] = "done"]
    /\ answer' = [answer EXCEPT
          ![c].code = "list",
          ![c].listed = {request[v] : v \in {w \in Videos : owner[w] = User(c)}} \ {None}]
    /\ UNCHANGED <<tables, store, input>>

(* Any call to the database or to S3 fails without effect. *)
CallFails(c) ==
    /\ pc[c] \notin {"new", "done"}
    /\ AnswerWith(c, "internal_error", None)
    /\ UNCHANGED <<tables, store>>

(* CreateRequest commits and its answer is lost. *)
CommitLost(c) ==
    /\ pc[c] = "insert"
    /\ request[Video(c)] = None
    /\ request' = [request EXCEPT ![Video(c)] = c]
    /\ outbox' = outbox \cup {c}
    /\ AnswerWith(c, "internal_error", None)
    /\ UNCHANGED <<owner, tracked, store>>

-----------------------------------------------------------------------------
(* Outside the service. *)

(* PUT with the signed URL, with or without the uploadHeaders that carry   *)
(* the owner.                                                              *)
Upload(v) ==
    /\ \E c \in Calls : answer[c].code = "ticket" /\ Video(c) = v
    /\ \/ /\ object' = [object EXCEPT ![v] = "own"]
          /\ uploaded' = uploaded \cup {v}
       \/ /\ object' = [object EXCEPT ![v] = "foreign"]
          /\ UNCHANGED uploaded
    /\ UNCHANGED <<tables, calls>>

(* The lifecycle rule of the uploads/ prefix. *)
ObjectExpires(v) ==
    /\ object[v] # "absent"
    /\ object' = [object EXCEPT ![v] = "absent"]
    /\ UNCHANGED <<tables, uploaded, calls>>

(* An outcome of the worker is applied, status and result in one           *)
(* transaction (ApplyEvent of ProcessTracking).  The outcome of a request  *)
(* is one, as a single delivery to the worker makes it.                    *)
OutcomeApplied(v) ==
    /\ request[v] # None
    /\ \/ /\ result[v] # "reason"
          /\ result' = [result EXCEPT ![v] = "zip"]
          /\ completed' = completed \cup {v}
       \/ /\ result[v] # "zip"
          /\ result' = [result EXCEPT ![v] = "reason"]
          /\ UNCHANGED completed
    /\ UNCHANGED <<owner, request, outbox, store, calls>>

(* A pod that read the row before the outcome writes PROCESSING over it,   *)
(* and leaves the result.                                                  *)
StatusTakenBack(v) ==
    /\ v \in completed
    /\ completed' = completed \ {v}
    /\ UNCHANGED <<owner, request, outbox, result, store, calls>>

-----------------------------------------------------------------------------
Proceed(c) ==
    \/ SaveVideo(c)
    \/ PresignUpload(c)
    \/ FindVideo(c)
    \/ FindRequestByVideo(c)
    \/ Head(c)
    \/ CreateRequest(c)
    \/ FindRequestAgain(c)
    \/ CheckStatus(c)
    \/ FindResult(c)
    \/ ListByUser(c)

Next ==
    \/ \E c \in Calls : Begin(c) \/ Proceed(c) \/ CallFails(c) \/ CommitLost(c)
    \/ \E v \in Videos : Upload(v) \/ ObjectExpires(v) \/ OutcomeApplied(v) \/ StatusTakenBack(v)

Spec == Init /\ [][Next]_vars

-----------------------------------------------------------------------------
(* Properties. *)

(* Types.                                                                  *)
TypeOK ==
    /\ owner \in [Videos -> Users \cup {None}]
    /\ object \in [Videos -> Objects]
    /\ uploaded \subseteq Videos
    /\ request \in [Videos -> Calls \cup {None}]
    /\ outbox \subseteq Calls
    /\ completed \subseteq Videos
    /\ result \in [Videos -> {"none", "zip", "reason"}]
    /\ pc \in [Calls -> Steps]
    /\ input \in [Calls -> Inputs \cup {NoInput}]
    /\ answer \in [Calls -> Answers]

(* "Cada Video tem exatamente uma Process Request" (README): however many  *)
(* ProcessVideo calls race between the lookup and the insert, each one     *)
(* that is accepted names the one request of the video, for good.          *)
AcceptedIsTheRequest ==
    \A c \in Calls : answer[c].code = "accepted" => answer[c].request = request[Video(c)]

(* The outbox holds an event for exactly the requests that exist: a call   *)
(* that lost the race, failed or lost its answer leaves no stray event and *)
(* no silent request.                                                      *)
OneEventPerRequest == outbox = {request[v] : v \in Videos} \ {None}

(* A request exists only for a video whose owner's object was in storage   *)
(* (F3, F4), even if the object was replaced or expired in between.        *)
RequestHadUpload == \A v \in Videos : request[v] # None => v \in uploaded

(* Only the owner of a video gets its request or its link (F13), and a     *)
(* link signs the key of a zip: status and result are read in two calls,   *)
(* and between them the tracker may write both or take the status back.    *)
OnlyOwnersAreServed ==
    \A c \in Calls :
        /\ answer[c].code \in {"accepted", "link"} => owner[Video(c)] = User(c)
        /\ pc[c] = "result" \/ answer[c].code = "link" => result[Video(c)] = "zip"

(* A User who was told that a video is accepted finds it in every list he  *)
(* asks for afterwards, whichever call, pod or racing insert accepted it,  *)
(* and whether or not the worker has said anything of it yet.              *)
AcceptedIsListed ==
    [][\A c, d \in Calls :
           /\ pc[c] = "list" /\ answer'[c].code = "list"
           /\ answer[d].code = "accepted" /\ User(d) = User(c)
           => answer[d].request \in answer'[c].listed]_vars
=============================================================================
