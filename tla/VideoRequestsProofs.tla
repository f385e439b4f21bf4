------------------------ MODULE VideoRequestsProofs ------------------------
(***************************************************************************)
(* Theorems about VideoRequests, for any number of Users, videos and       *)
(* concurrent calls, with their proofs.                                    *)
(*                                                                         *)
(* A call acts on what it read some steps ago, while other calls write.    *)
(* What makes that sound is that the tables only grow (Grows): an owner, a *)
(* request or a zip, once there, stays; a status need not, and nothing is  *)
(* known of it.  Knows says of every call what it knows at the step it has *)
(* reached, and Tells what its answer tells; OthersStay shows that such    *)
(* knowledge survives everything other calls do, so that each action is    *)
(* looked at for the one call that takes it.                               *)
(***************************************************************************)
EXTENDS VideoRequests, TLAPS

USE DEF tracked

-----------------------------------------------------------------------------
(* Types. *)

(* The steps that no call takes.                                           *)
OutsideStep(v) == Upload(v) \/ ObjectExpires(v) \/ OutcomeApplied(v) \/ StatusTakenBack(v)

Busy == \A c \in Calls : pc[c] \notin {"new", "done"} => User(c) # None

TypeInv == TypeOK /\ Busy

LEMMA InputOfBusy ==
    ASSUME TypeOK, NEW c \in Calls, User(c) # None
    PROVE  input[c] \in Inputs /\ Video(c) \in Videos /\ User(c) \in Users
BY DEF TypeOK, Inputs, NoInput, User, Video

LEMMA TypeInit == Init => TypeInv
BY DEF Init, TypeInv, TypeOK, Busy, User, Objects, Steps, NoInput, Answers, NoAnswer

LEMMA TypeNext == TypeInv /\ [Next]_vars => TypeInv'
<1> SUFFICES ASSUME TypeInv, [Next]_vars PROVE TypeInv'
  OBVIOUS
<1> USE DEF TypeInv, TypeOK, Busy
<1>a. \A c \in Calls : pc[c] \notin {"new", "done"} =>
          input[c] \in Inputs /\ Video(c) \in Videos /\ User(c) \in Users /\ User(c) # None
  BY InputOfBusy
<1>1. ASSUME NEW c \in Calls, NEW to \in Steps, pc[c] \notin {"new", "done"}, Go(c, to)
      PROVE  /\ pc' \in [Calls -> Steps] /\ input' \in [Calls -> Inputs \cup {NoInput}]
             /\ answer' \in [Calls -> Answers] /\ Busy'
  BY <1>1 DEF Go, User
<1>2. ASSUME NEW c \in Calls, NEW code \in {"ticket", "accepted", "link"} \cup Errors,
             NEW req \in Calls \cup {None}, pc[c] \notin {"new", "done"}, AnswerWith(c, code, req)
      PROVE  /\ pc' \in [Calls -> Steps] /\ input' \in [Calls -> Inputs \cup {NoInput}]
             /\ answer' \in [Calls -> Answers] /\ Busy'
  BY <1>2 DEF AnswerWith, User, NoAnswer, Answers, Steps
<1>3. ASSUME NEW c \in Calls, Begin(c) PROVE TypeInv'
  <2>1. PICK i \in Inputs :
            /\ input' = [input EXCEPT ![c] = i]
            /\ \/ /\ i.user # None
                  /\ pc' = [pc EXCEPT ![c] = FirstStep[i.kind]]
                  /\ answer' = answer
               \/ /\ pc' = [pc EXCEPT ![c] = "done"]
                  /\ \E code \in Refusals(i) : answer' = [answer EXCEPT ![c].code = code]
    BY <1>3 DEF Begin
  <2>2. FirstStep[i.kind] \in Steps /\ Refusals(i) \subseteq Errors
    BY DEF Inputs, FirstStep, Steps, Refusals, Errors
  <2>3. answer' \in [Calls -> Answers]
    <3>1. \A code \in Errors : [answer EXCEPT ![c].code = code] \in [Calls -> Answers]
      BY DEF Answers
    <3> QED
      BY <2>1, <2>2, <3>1
  <2>4. pc' \in [Calls -> Steps] /\ input' \in [Calls -> Inputs \cup {NoInput}]
    BY <2>1, <2>2 DEF Steps
  <2>5. Busy'
    <3>1. pc'[c] \notin {"new", "done"} => input'[c].user # None
      BY <2>1
    <3>2. \A d \in Calls \ {c} : pc'[d] = pc[d] /\ input'[d] = input[d]
      BY <2>1
    <3> QED
      BY <3>1, <3>2 DEF User
  <2> QED
    BY <1>3, <2>3, <2>4, <2>5 DEF Begin, tables, store
<1>4. ASSUME NEW c \in Calls, SaveVideo(c) PROVE TypeInv'
  BY <1>a, <1>1, <1>4 DEF SaveVideo, Steps, store
<1>5. ASSUME NEW c \in Calls, PresignUpload(c) PROVE TypeInv'
  BY <1>2, <1>5 DEF PresignUpload, tables, store
<1>6. ASSUME NEW c \in Calls, FindVideo(c) PROVE TypeInv'
  BY <1>1, <1>2, <1>6 DEF FindVideo, Steps, Errors, tables, store
<1>7. ASSUME NEW c \in Calls, FindRequestByVideo(c) PROVE TypeInv'
  BY <1>a, <1>1, <1>2, <1>7 DEF FindRequestByVideo, Steps, tables, store
<1>8. ASSUME NEW c \in Calls, Head(c) PROVE TypeInv'
  BY <1>1, <1>2, <1>8 DEF Head, Steps, Errors, tables, store
<1>9. ASSUME NEW c \in Calls, CreateRequest(c) PROVE TypeInv'
  BY <1>a, <1>1, <1>2, <1>9 DEF CreateRequest, Steps, store
<1>10. ASSUME NEW c \in Calls, FindRequestAgain(c) PROVE TypeInv'
  BY <1>a, <1>2, <1>10 DEF FindRequestAgain, Errors, tables, store
<1>11. ASSUME NEW c \in Calls, CheckStatus(c) PROVE TypeInv'
  BY <1>1, <1>2, <1>11 DEF CheckStatus, Steps, Errors, tables, store
<1>12. ASSUME NEW c \in Calls, FindResult(c) PROVE TypeInv'
  BY <1>a, <1>2, <1>12 DEF FindResult, Errors, tables, store
<1>13. ASSUME NEW c \in Calls, ListByUser(c) PROVE TypeInv'
  <2>1. {request[v] : v \in {w \in Videos : owner[w] = User(c)}} \ {None} \in SUBSET Calls
    OBVIOUS
  <2>2. PICK listed \in SUBSET Calls :
            answer' = [answer EXCEPT ![c].code = "list", ![c].listed = listed]
    BY <1>13, <2>1 DEF ListByUser
  <2>3. answer' \in [Calls -> Answers]
    BY <2>2 DEF Answers
  <2> QED
    BY <1>13, <2>3 DEF ListByUser, Steps, User, tables, store
<1>14. ASSUME NEW c \in Calls, CallFails(c) PROVE TypeInv'
  BY <1>2, <1>14 DEF CallFails, Errors, tables, store
<1>15. ASSUME NEW c \in Calls, CommitLost(c) PROVE TypeInv'
  BY <1>a, <1>2, <1>15 DEF CommitLost, Errors, store
<1>16. ASSUME NEW v \in Videos, OutsideStep(v) PROVE TypeInv'
  BY <1>16 DEF OutsideStep, Upload, ObjectExpires, OutcomeApplied, StatusTakenBack, Objects,
               User, tables, store, calls
<1>17. CASE UNCHANGED vars
  BY <1>17 DEF vars, tables, store, calls, User
<1> QED
  BY <1>3, <1>4, <1>5, <1>6, <1>7, <1>8, <1>9, <1>10, <1>11, <1>12, <1>13, <1>14, <1>15, <1>16,
     <1>17 DEF Next, Proceed, OutsideStep

(* Tables, calls and answers keep their types: in particular every answer  *)
(* that names a request names the id of one.                               *)
THEOREM RequestsTyped == Spec => []TypeOK
<1>1. Spec => []TypeInv
  BY TypeInit, TypeNext, PTL DEF Spec
<1> QED
  BY <1>1, PTL DEF TypeInv

-----------------------------------------------------------------------------
(* What calls know. *)

(* Every video is created by one call.                                     *)
CreatedOnce ==
    \A c, d \in Calls : c # d /\ input[c].kind = "create" /\ input[d].kind = "create" =>
        Video(c) # Video(d)

AfterFind == {"existing", "head", "insert", "reread", "status", "result"}
OwnRequests(u) == {request[v] : v \in {w \in Videos : owner[w] = u}}

(* What call c knows at the step it has reached.                           *)
Knows(c) ==
    /\ pc[c] # "done" => answer[c] = NoAnswer
    /\ pc[c] = "create" => input[c].kind = "create" /\ owner[Video(c)] = None
    /\ pc[c] \in AfterFind => owner[Video(c)] = User(c)
    /\ pc[c] = "insert" => Video(c) \in uploaded
    /\ pc[c] = "reread" => request[Video(c)] # None
    /\ pc[c] = "result" => result[Video(c)] = "zip"

(* What the answer of call c tells, and goes on telling.                   *)
Tells(c) ==
    /\ answer[c].code \in {"accepted", "link"} =>
          Video(c) \in Videos /\ User(c) # None /\ owner[Video(c)] = User(c)
    /\ answer[c].code = "accepted" =>
          answer[c].request = request[Video(c)] /\ request[Video(c)] # None
    /\ answer[c].code = "link" => result[Video(c)] = "zip"
    /\ answer[c].listed # {} => User(c) # None
    /\ answer[c].listed \subseteq OwnRequests(User(c))

(* A status may be taken back, a result is not.                            *)
CompletedHasResult == \A v \in completed : result[v] = "zip"

OwnWasUploaded == \A v \in Videos : object[v] = "own" => v \in uploaded

RequestInv ==
    /\ TypeInv
    /\ CreatedOnce
    /\ \A c \in Calls : Knows(c) /\ Tells(c)
    /\ OwnWasUploaded
    /\ CompletedHasResult
    /\ OneEventPerRequest
    /\ RequestHadUpload

(* Owners, requests and zips stay; uploads are not forgotten.              *)
Grows ==
    /\ \A v \in Videos : owner[v] # None => owner'[v] = owner[v]
    /\ \A v \in Videos : request[v] # None => request'[v] = request[v]
    /\ uploaded \subseteq uploaded'
    /\ \A v \in Videos : result[v] = "zip" => result'[v] = "zip"

Unmoved(c) == pc'[c] = pc[c] /\ input'[c] = input[c] /\ answer'[c] = answer[c]

(* Knowledge survives what others do, unless they create the very video a  *)
(* call is about to create.                                                *)
LEMMA OthersStay ==
    ASSUME TypeInv, NEW c \in Calls, Knows(c), Tells(c), Grows, Unmoved(c),
           pc[c] = "create" => owner'[Video(c)] = owner[Video(c)]
    PROVE  Knows(c)' /\ Tells(c)'
<1>1. /\ Video(c)' = Video(c) /\ User(c)' = User(c)
      /\ pc'[c] = pc[c] /\ input'[c] = input[c] /\ answer'[c] = answer[c]
  BY DEF Unmoved, Video, User
<1>2. pc[c] \in AfterFind => User(c) # None /\ Video(c) \in Videos
  BY InputOfBusy DEF TypeInv, Busy, AfterFind
<1>3. Knows(c)'
  BY <1>1, <1>2 DEF Knows, Grows, AfterFind
<1>4. answer[c].listed # {} => OwnRequests(User(c)) \ {None} \subseteq OwnRequests(User(c))'
  <2> SUFFICES ASSUME answer[c].listed # {}, NEW v \in Videos, owner[v] = User(c), request[v] # None
               PROVE  request[v] \in OwnRequests(User(c))'
    BY DEF OwnRequests
  <2>1. User(c) # None
    BY DEF Tells
  <2>2. owner'[v] = User(c)' /\ request'[v] = request[v]
    BY <1>1, <2>1 DEF Grows
  <2> QED
    BY <2>2 DEF OwnRequests
<1>5. None \notin answer[c].listed
  BY NoneAssumption DEF TypeInv, TypeOK, Answers
<1>6. Tells(c)'
  BY <1>1, <1>4, <1>5 DEF Tells, Grows
<1> QED
  BY <1>3, <1>6

(* A step that moves call c alone, in tables that only grow, preserves the *)
(* others' knowledge.                                                      *)
LEMMA OnlyOneMoves ==
    ASSUME RequestInv, NEW c \in Calls, Grows,
           \A d \in Calls \ {c} : Unmoved(d),
           \A d \in Calls \ {c} : pc[d] = "create" => owner'[Video(d)] = owner[Video(d)],
           Knows(c)' /\ Tells(c)'
    PROVE  \A d \in Calls : Knows(d)' /\ Tells(d)'
BY OthersStay DEF RequestInv

LEMMA RequestInit == Init => RequestInv
<1> SUFFICES ASSUME Init PROVE RequestInv
  OBVIOUS
<1>1. TypeInv
  BY TypeInit
<1>2. CreatedOnce
  BY DEF Init, CreatedOnce, NoInput
<1>3. \A c \in Calls : Knows(c) /\ Tells(c)
  BY DEF Init, Knows, Tells, AfterFind, NoAnswer
<1>4. OwnWasUploaded /\ CompletedHasResult /\ OneEventPerRequest /\ RequestHadUpload
  BY DEF Init, OwnWasUploaded, CompletedHasResult, OneEventPerRequest, RequestHadUpload
<1> QED
  BY <1>1, <1>2, <1>3, <1>4 DEF RequestInv

(* How a call goes on, and how it ends.                                    *)
LEMMA GoMoves ==
    ASSUME TypeOK, NEW c \in Calls, NEW to, Go(c, to)
    PROVE  /\ pc'[c] = to /\ input' = input /\ answer' = answer
           /\ \A d \in Calls \ {c} : Unmoved(d)
BY DEF Go, TypeOK, Unmoved

LEMMA AnswerMoves ==
    ASSUME TypeOK, NEW c \in Calls, NEW code, NEW req, AnswerWith(c, code, req)
    PROVE  /\ pc'[c] = "done" /\ input' = input
           /\ answer'[c].code = code /\ answer'[c].request = req /\ answer'[c].listed = {}
           /\ \A d \in Calls \ {c} : Unmoved(d)
BY DEF AnswerWith, NoAnswer, TypeOK, Unmoved

(* What an answer has to be true of; one that names nothing tells nothing. *)
LEMMA OneTold ==
    ASSUME TypeOK, NEW c \in Calls, NEW code, NEW req, AnswerWith(c, code, req),
           code \in {"accepted", "link"} =>
               Video(c) \in Videos /\ User(c) # None /\ owner'[Video(c)] = User(c),
           code = "accepted" => req = request'[Video(c)] /\ request'[Video(c)] # None,
           code = "link" => result'[Video(c)] = "zip"
    PROVE  Knows(c)' /\ Tells(c)'
<1>1. /\ pc'[c] = "done" /\ Video(c)' = Video(c) /\ User(c)' = User(c)
      /\ answer'[c].code = code /\ answer'[c].request = req /\ answer'[c].listed = {}
  BY AnswerMoves DEF Video, User
<1>2. Knows(c)'
  BY <1>1 DEF Knows, AfterFind
<1>3. Tells(c)'
  BY <1>1 DEF Tells
<1> QED
  BY <1>2, <1>3

(* A step that only reads needs to be looked at for the call that takes it. *)
LEMMA ReadingKeepsInv ==
    ASSUME RequestInv, TypeInv', NEW c \in Calls, UNCHANGED <<tables, store, input>>,
           \A d \in Calls \ {c} : Unmoved(d),
           Knows(c)' /\ Tells(c)'
    PROVE  RequestInv'
<1>1. Grows
  BY DEF Grows, tables, store
<1>2. \A d \in Calls : Knows(d)' /\ Tells(d)'
  BY <1>1, OnlyOneMoves DEF tables
<1>3. CreatedOnce' /\ OwnWasUploaded' /\ CompletedHasResult' /\ OneEventPerRequest'
      /\ RequestHadUpload'
  BY DEF RequestInv, CreatedOnce, OwnWasUploaded, CompletedHasResult, OneEventPerRequest,
         RequestHadUpload, Video,
         tables, store
<1> QED
  BY <1>2, <1>3 DEF RequestInv

(* The steps that only read.                                               *)
LEMMA ReadingSteps ==
    ASSUME RequestInv, TypeInv', NEW c \in Calls,
           \/ PresignUpload(c) \/ FindVideo(c) \/ FindRequestByVideo(c) \/ Head(c)
           \/ FindRequestAgain(c) \/ CheckStatus(c) \/ FindResult(c) \/ CallFails(c)
    PROVE  RequestInv'
<1> DEFINE Kept == UNCHANGED <<tables, store>> /\ pc[c] \notin {"new", "done"}
<1>a. Kept
  BY DEF PresignUpload, FindVideo, FindRequestByVideo, Head, FindRequestAgain, CheckStatus,
         FindResult, CallFails
<1>b. TypeOK /\ Knows(c) /\ Video(c) \in Videos /\ User(c) # None
  BY <1>a, InputOfBusy DEF RequestInv, TypeInv, Busy
<1>c. ASSUME NEW to, Go(c, to), Knows(c)'
      PROVE  RequestInv'
  <2>1. UNCHANGED <<tables, store, input>> /\ answer' = answer /\ \A d \in Calls \ {c} : Unmoved(d)
    BY <1>a, <1>b, <1>c, GoMoves
  <2>2. Tells(c)'
    BY <1>a, <1>b, <2>1 DEF Knows, Tells, NoAnswer
  <2> QED
    BY <1>c, <2>1, <2>2, ReadingKeepsInv
<1>d. ASSUME NEW code \in {"ticket"} \cup Errors, NEW req, AnswerWith(c, code, req)
      PROVE  RequestInv'
  <2>1. code \notin {"accepted", "link"}
    BY <1>d DEF Errors
  <2> QED
    BY <1>a, <1>b, <1>d, <2>1, AnswerMoves, OneTold, ReadingKeepsInv
<1>e. ASSUME NEW code, NEW req, AnswerWith(c, code, req), Knows(c)' /\ Tells(c)'
      PROVE  RequestInv'
  BY <1>a, <1>b, <1>e, AnswerMoves, ReadingKeepsInv
<1>1. CASE PresignUpload(c)
  BY <1>1, <1>d DEF PresignUpload
<1>2. CASE FindVideo(c)
  <2>1. ASSUME NEW to \in {"existing", "status"}, Go(c, to), owner[Video(c)] = User(c)
        PROVE  Knows(c)'
    BY <1>a, <1>b, <2>1, GoMoves DEF Knows, AfterFind, Video, User, tables
  <2> QED
    BY <1>2, <2>1, <1>c, <1>d DEF FindVideo, Errors
<1>3. CASE FindRequestByVideo(c)
  <2>1. ASSUME Go(c, "head") PROVE Knows(c)'
    BY <1>3, <1>a, <1>b, <2>1, GoMoves DEF FindRequestByVideo, Knows, AfterFind, Video, User, tables
  <2>2. ASSUME AnswerWith(c, "accepted", request[Video(c)]), request[Video(c)] # None
        PROVE  Knows(c)' /\ Tells(c)'
    BY <1>3, <1>a, <1>b, <2>2, OneTold DEF FindRequestByVideo, Knows, AfterFind, tables
  <2> QED
    BY <1>3, <2>1, <2>2, <1>c, <1>e DEF FindRequestByVideo
<1>4. CASE Head(c)
  <2>1. ASSUME Go(c, "insert"), object[Video(c)] = "own" PROVE Knows(c)'
    <3>1. Video(c) \in uploaded
      BY <1>b, <2>1 DEF RequestInv, OwnWasUploaded
    <3> QED
      BY <1>4, <1>a, <1>b, <2>1, <3>1, GoMoves
         DEF Head, Knows, AfterFind, Video, User, tables, store
  <2> QED
    BY <1>4, <2>1, <1>c, <1>d DEF Head, Errors
<1>5. CASE FindRequestAgain(c)
  <2>1. ASSUME AnswerWith(c, "accepted", request[Video(c)]), request[Video(c)] # None
        PROVE  Knows(c)' /\ Tells(c)'
    BY <1>5, <1>a, <1>b, <2>1, OneTold DEF FindRequestAgain, Knows, AfterFind, tables
  <2> QED
    BY <1>5, <2>1, <1>d, <1>e DEF FindRequestAgain, Errors
<1>6. CASE CheckStatus(c)
  <2>1. ASSUME Go(c, "result"), Video(c) \in completed PROVE Knows(c)'
    <3>1. result[Video(c)] = "zip"
      BY <2>1 DEF RequestInv, CompletedHasResult
    <3> QED
      BY <1>6, <1>a, <1>b, <2>1, <3>1, GoMoves
         DEF CheckStatus, Knows, AfterFind, Video, User, tables
  <2> QED
    BY <1>6, <2>1, <1>c, <1>d DEF CheckStatus, Errors
<1>7. CASE FindResult(c)
  <2>1. ASSUME AnswerWith(c, "link", request[Video(c)])
        PROVE  Knows(c)' /\ Tells(c)'
    BY <1>7, <1>a, <1>b, <2>1, OneTold DEF FindResult, Knows, AfterFind, tables
  <2> QED
    BY <1>7, <2>1, <1>d, <1>e DEF FindResult, Errors
<1>8. CASE CallFails(c)
  BY <1>8, <1>d DEF CallFails, Errors
<1> QED
  BY <1>1, <1>2, <1>3, <1>4, <1>5, <1>6, <1>7, <1>8

(* The new request and its event.                                          *)
LEMMA InsertStep ==
    ASSUME RequestInv, TypeInv', NEW c \in Calls, pc[c] = "insert", request[Video(c)] = None,
           request' = [request EXCEPT ![Video(c)] = c], outbox' = outbox \cup {c},
           UNCHANGED <<owner, tracked, store>>,
           NEW code \in {"accepted", "internal_error"}, AnswerWith(c, code, IF code = "accepted" THEN c ELSE None)
    PROVE  RequestInv'
<1>1. TypeOK /\ Knows(c) /\ Video(c) \in Videos /\ User(c) # None /\ c # None
  BY InputOfBusy, NoneAssumption DEF RequestInv, TypeInv, Busy
<1>2. request'[Video(c)] = c /\ \A v \in Videos \ {Video(c)} : request'[v] = request[v]
  BY <1>1 DEF TypeOK
<1>3. Grows
  BY <1>2 DEF Grows, store
<1>4. Knows(c)' /\ Tells(c)'
  <2>1. owner[Video(c)] = User(c)
    BY <1>1 DEF Knows, AfterFind
  <2> QED
    BY <1>1, <1>2, <2>1, OneTold
<1>5. \A d \in Calls : Knows(d)' /\ Tells(d)'
  BY <1>1, <1>3, <1>4, AnswerMoves, OnlyOneMoves
<1>6. OneEventPerRequest'
  BY <1>1, <1>2 DEF RequestInv, OneEventPerRequest
<1>7. RequestHadUpload'
  BY <1>1, <1>2 DEF RequestInv, RequestHadUpload, Knows, store
<1>8. CreatedOnce' /\ OwnWasUploaded' /\ CompletedHasResult'
  BY <1>1, AnswerMoves DEF RequestInv, CreatedOnce, OwnWasUploaded, CompletedHasResult, Video, store
<1> QED
  BY <1>5, <1>6, <1>7, <1>8 DEF RequestInv

LEMMA RequestNext == RequestInv /\ [Next]_vars => RequestInv'
<1> SUFFICES ASSUME RequestInv, [Next]_vars PROVE RequestInv'
  OBVIOUS
<1>a. TypeInv /\ TypeOK /\ TypeInv'
  BY TypeNext DEF RequestInv, TypeInv
<1>1. ASSUME NEW c \in Calls, Begin(c) PROVE RequestInv'
  <2>1. PICK i \in Inputs :
            /\ i.kind = "create" => /\ owner[i.video] = None
                                    /\ \A d \in Calls \ {c} : input[d].kind = "create" =>
                                          input[d].video # i.video
            /\ input' = [input EXCEPT ![c] = i]
            /\ \/ /\ i.user # None
                  /\ pc' = [pc EXCEPT ![c] = FirstStep[i.kind]]
                  /\ answer' = answer
               \/ /\ pc' = [pc EXCEPT ![c] = "done"]
                  /\ \E code \in Refusals(i) : answer' = [answer EXCEPT ![c].code = code]
    BY <1>1 DEF Begin
  <2>2. Grows /\ UNCHANGED <<tables, store>>
    BY <1>1 DEF Begin, Grows, tables, store
  <2>3. \A d \in Calls \ {c} : Unmoved(d)
    BY <1>a, <2>1 DEF Unmoved, TypeOK
  <2>4. input'[c] = i /\ answer[c] = NoAnswer
    BY <1>a, <1>1, <2>1 DEF Begin, RequestInv, Knows, TypeOK
  <2>5. ASSUME pc' = [pc EXCEPT ![c] = FirstStep[i.kind]], answer' = answer
        PROVE  \A d \in Calls : Knows(d)' /\ Tells(d)'
    <3>1. pc'[c] = FirstStep[i.kind] /\ answer'[c] = NoAnswer
      BY <1>a, <2>4, <2>5 DEF TypeOK
    <3>2. FirstStep[i.kind] \in {"create", "find", "list"} /\ (FirstStep[i.kind] = "create" => i.kind = "create")
      BY DEF FirstStep, Inputs
    <3>3. Knows(c)'
      BY <2>1, <2>2, <2>4, <3>1, <3>2 DEF Knows, AfterFind, Video, tables
    <3>4. Tells(c)'
      BY <3>1 DEF Tells, NoAnswer
    <3> QED
      BY <2>2, <2>3, <3>3, <3>4, OnlyOneMoves DEF tables
  <2>6. ASSUME NEW code \in Refusals(i), pc' = [pc EXCEPT ![c] = "done"],
               answer' = [answer EXCEPT ![c].code = code]
        PROVE  \A d \in Calls : Knows(d)' /\ Tells(d)'
    <3>1. pc'[c] = "done" /\ answer'[c].code = code /\ answer'[c].listed = {}
      BY <1>a, <2>4, <2>6 DEF TypeOK, NoAnswer, Answers
    <3>2. code \notin {"accepted", "link"}
      BY DEF Refusals
    <3>3. Knows(c)' /\ Tells(c)'
      BY <3>1, <3>2 DEF Knows, Tells, AfterFind
    <3> QED
      BY <2>2, <2>3, <3>3, OnlyOneMoves DEF tables
  <2>7. \A d \in Calls : Knows(d)' /\ Tells(d)'
    BY <2>1, <2>5, <2>6
  <2>8. CreatedOnce'
    BY <2>1, <2>3, <2>4 DEF RequestInv, CreatedOnce, Unmoved, Video
  <2>9. OwnWasUploaded' /\ CompletedHasResult' /\ OneEventPerRequest' /\ RequestHadUpload'
    BY <2>2 DEF RequestInv, OwnWasUploaded, CompletedHasResult, OneEventPerRequest,
                RequestHadUpload, tables, store
  <2> QED
    BY <1>a, <2>7, <2>8, <2>9 DEF RequestInv
<1>2. ASSUME NEW c \in Calls, SaveVideo(c) PROVE RequestInv'
  <2>1. Knows(c) /\ Video(c) \in Videos /\ pc[c] = "create" /\ Go(c, "presign")
    BY <1>a, <1>2, InputOfBusy DEF RequestInv, TypeInv, Busy, SaveVideo
  <2>2. owner[Video(c)] = None /\ \A v \in Videos \ {Video(c)} : owner'[v] = owner[v]
    BY <1>a, <1>2, <2>1 DEF SaveVideo, Knows, TypeOK
  <2>3. Grows /\ UNCHANGED <<request, outbox, tracked, store>>
    BY <1>2, <2>2 DEF SaveVideo, Grows, store
  <2>4. ASSUME NEW d \in Calls \ {c}, pc[d] = "create" PROVE owner'[Video(d)] = owner[Video(d)]
    <3>1. Video(d) \in Videos /\ Video(d) # Video(c)
      BY <1>a, <2>1, <2>4, InputOfBusy DEF RequestInv, TypeInv, Busy, CreatedOnce, Knows
    <3> QED
      BY <2>2, <3>1
  <2>5. Knows(c)' /\ Tells(c)'
    BY <1>a, <2>1, GoMoves DEF Knows, Tells, AfterFind, NoAnswer
  <2>6. \A d \in Calls : Knows(d)' /\ Tells(d)'
    BY <1>a, <2>1, <2>3, <2>4, <2>5, GoMoves, OnlyOneMoves
  <2>7. CreatedOnce' /\ OwnWasUploaded' /\ CompletedHasResult' /\ OneEventPerRequest'
        /\ RequestHadUpload'
    BY <1>a, <2>1, <2>3, GoMoves
       DEF RequestInv, CreatedOnce, OwnWasUploaded, CompletedHasResult, OneEventPerRequest,
           RequestHadUpload, Video, store
  <2> QED
    BY <1>a, <2>6, <2>7 DEF RequestInv
<1>3. ASSUME NEW c \in Calls,
             \/ PresignUpload(c) \/ FindVideo(c) \/ FindRequestByVideo(c) \/ Head(c)
             \/ FindRequestAgain(c) \/ CheckStatus(c) \/ FindResult(c) \/ CallFails(c)
      PROVE  RequestInv'
  BY <1>a, <1>3, ReadingSteps
<1>4. ASSUME NEW c \in Calls, CreateRequest(c) PROVE RequestInv'
  <2>1. CASE request[Video(c)] = None
    BY <1>a, <1>4, <2>1, InsertStep DEF CreateRequest
  <2>2. CASE request[Video(c)] # None
    <3>1. Go(c, "reread") /\ UNCHANGED <<tables, store>> /\ pc[c] = "insert" /\ Knows(c)
      BY <1>4, <2>2 DEF CreateRequest, RequestInv, tables
    <3>2. Knows(c)' /\ Tells(c)'
      BY <1>a, <2>2, <3>1, GoMoves DEF Knows, Tells, AfterFind, NoAnswer, Video, User, tables
    <3> QED
      BY <1>a, <3>1, <3>2, GoMoves, ReadingKeepsInv
  <2> QED
    BY <2>1, <2>2
<1>5. ASSUME NEW c \in Calls, CommitLost(c) PROVE RequestInv'
  BY <1>a, <1>5, InsertStep DEF CommitLost
<1>6. ASSUME NEW c \in Calls, ListByUser(c) PROVE RequestInv'
  <2>1. UNCHANGED <<tables, store, input>> /\ pc[c] = "list" /\ pc'[c] = "done" /\ User(c) # None
        /\ \A d \in Calls \ {c} : Unmoved(d)
    BY <1>a, <1>6 DEF ListByUser, TypeInv, TypeOK, Busy, Unmoved
  <2>2. answer'[c].code = "list" /\ answer'[c].listed = OwnRequests(User(c)) \ {None}
    BY <1>a, <1>6 DEF ListByUser, TypeOK, Answers, OwnRequests
  <2>3. OwnRequests(User(c))' = OwnRequests(User(c)) /\ User(c)' = User(c)
    BY <2>1 DEF OwnRequests, User, tables
  <2>4. Knows(c)'
    BY <2>1 DEF Knows, AfterFind
  <2>5. Tells(c)'
    BY <2>1, <2>2, <2>3 DEF Tells
  <2> QED
    BY <1>a, <2>1, <2>4, <2>5, ReadingKeepsInv
<1>7. ASSUME NEW v \in Videos, OutsideStep(v) PROVE RequestInv'
  <2>a. UNCHANGED <<owner, request, outbox, calls>> /\ uploaded \subseteq uploaded'
    BY <1>7 DEF OutsideStep, Upload, ObjectExpires, OutcomeApplied, StatusTakenBack, tables, store
  <2>b. /\ \A w \in Videos : result[w] = "zip" => result'[w] = "zip"
        /\ CompletedHasResult'
    <3>1. CASE OutcomeApplied(v)
      BY <1>a, <1>7, <3>1 DEF OutcomeApplied, RequestInv, CompletedHasResult, TypeOK
    <3>2. CASE StatusTakenBack(v)
      BY <3>2 DEF StatusTakenBack, RequestInv, CompletedHasResult
    <3>3. CASE Upload(v) \/ ObjectExpires(v)
      BY <3>3 DEF Upload, ObjectExpires, tables, RequestInv, CompletedHasResult
    <3> QED
      BY <1>7, <3>1, <3>2, <3>3 DEF OutsideStep
  <2>1. Grows
    BY <2>a, <2>b DEF Grows
  <2>2. \A d \in Calls : Knows(d)' /\ Tells(d)'
    BY <1>a, <2>a, <2>1, OthersStay DEF RequestInv, Unmoved, calls
  <2>3. OwnWasUploaded'
    BY <1>a, <1>7
       DEF RequestInv, OwnWasUploaded, TypeOK, OutsideStep, Upload, ObjectExpires, OutcomeApplied,
           StatusTakenBack, store
  <2>4. CreatedOnce' /\ OneEventPerRequest' /\ RequestHadUpload'
    BY <2>a, <2>1
       DEF RequestInv, CreatedOnce, OneEventPerRequest, RequestHadUpload, Grows, Video, calls
  <2> QED
    BY <1>a, <2>b, <2>2, <2>3, <2>4 DEF RequestInv
<1>8. CASE UNCHANGED vars
  <2>1. Grows /\ UNCHANGED <<tables, store, calls>>
    BY <1>8 DEF vars, tables, store, Grows
  <2>2. \A d \in Calls : Knows(d)' /\ Tells(d)'
    BY <1>a, <2>1, OthersStay DEF RequestInv, Unmoved, calls, tables
  <2> QED
    BY <1>a, <2>1, <2>2
       DEF RequestInv, CreatedOnce, OwnWasUploaded, CompletedHasResult, OneEventPerRequest,
           RequestHadUpload, Video,
           tables, store, calls
<1> QED
  BY <1>1, <1>2, <1>3, <1>4, <1>5, <1>6, <1>7, <1>8 DEF Next, Proceed, OutsideStep

-----------------------------------------------------------------------------
(* Theorems. *)

LEMMA RequestInvariant == Spec => []RequestInv
BY RequestInit, RequestNext, PTL DEF Spec

(* However many ProcessVideo calls race, in however many pods, each one    *)
(* that is accepted names the one request of the video.                    *)
THEOREM AcceptedNamesTheRequest == Spec => []AcceptedIsTheRequest
<1>1. RequestInv => AcceptedIsTheRequest
  BY DEF RequestInv, Tells, AcceptedIsTheRequest
<1> QED
  BY <1>1, RequestInvariant, PTL

(* The outbox holds an event for exactly the requests that exist.          *)
THEOREM EventsMatchRequests == Spec => []OneEventPerRequest
BY RequestInvariant, PTL DEF RequestInv

(* A request exists only for a video whose owner's object was in storage.  *)
THEOREM RequestsHadUploads == Spec => []RequestHadUpload
BY RequestInvariant, PTL DEF RequestInv

(* Only the owner of a video gets its request or its link, and a link is   *)
(* signed for a zip, whatever is applied or taken back between the two     *)
(* reads of DownloadResult.                                                *)
THEOREM OwnersOnly == Spec => []OnlyOwnersAreServed
<1>1. RequestInv => OnlyOwnersAreServed
  BY DEF RequestInv, Knows, Tells, OnlyOwnersAreServed
<1> QED
  BY <1>1, RequestInvariant, PTL

(* What was accepted is in every later list of its owner.                  *)
THEOREM ListsAreComplete == Spec => AcceptedIsListed
<1> DEFINE Complete ==
      \A c, d \in Calls :
          /\ pc[c] = "list" /\ answer'[c].code = "list"
          /\ answer[d].code = "accepted" /\ User(d) = User(c)
          => answer[d].request \in answer'[c].listed
<1>1. ASSUME RequestInv, [Next]_vars PROVE [Complete]_vars
  <2> SUFFICES ASSUME Next, NEW c \in Calls, NEW d \in Calls,
                      pc[c] = "list", answer'[c].code = "list",
                      answer[d].code = "accepted", User(d) = User(c)
               PROVE  answer[d].request \in answer'[c].listed
    BY <1>1
  <2>1. TypeOK /\ answer[c] = NoAnswer
    BY <1>1 DEF RequestInv, TypeInv, Knows
  <2>2. answer'[c] # answer[c]
    BY <2>1 DEF NoAnswer
  <2>3. ListByUser(c)
    <3>1. ASSUME NEW e \in Calls, pc[e] # "list" \/ CallFails(e),
                 Begin(e) \/ Proceed(e) \/ CallFails(e) \/ CommitLost(e)
          PROVE  FALSE
      <4>1. CASE e = c
        <5>1. CallFails(c)
          BY <3>1, <4>1
        <5> QED
          BY <2>1, <5>1, AnswerMoves DEF CallFails
      <4>2. CASE e # c
        <5>1. answer'[c] = answer[c]
          BY <2>1, <3>1, <4>2
             DEF Begin, Proceed, SaveVideo, PresignUpload, FindVideo, FindRequestByVideo, Head,
                 CreateRequest, FindRequestAgain, CheckStatus, FindResult, ListByUser, CallFails,
                 CommitLost, Go, AnswerWith, TypeOK
        <5> QED
          BY <2>2, <5>1
      <4> QED
        BY <4>1, <4>2
    <3>2. ASSUME NEW v \in Videos, OutsideStep(v)
          PROVE  FALSE
      BY <2>2, <3>2 DEF OutsideStep, Upload, ObjectExpires, OutcomeApplied, StatusTakenBack, calls
    <3>3. PICK e \in Calls : Begin(e) \/ Proceed(e) \/ CallFails(e) \/ CommitLost(e)
      BY <3>2 DEF Next, OutsideStep
    <3>4. ListByUser(e)
      BY <3>1, <3>3
         DEF Begin, Proceed, SaveVideo, PresignUpload, FindVideo, FindRequestByVideo, Head,
             CreateRequest, FindRequestAgain, CheckStatus, FindResult, CommitLost
    <3>5. e = c
      BY <2>1, <2>2, <3>4 DEF ListByUser, TypeOK
    <3> QED
      BY <3>4, <3>5
  <2>4. answer'[c].listed = OwnRequests(User(c)) \ {None}
    BY <2>1, <2>3 DEF ListByUser, TypeOK, Answers, OwnRequests
  <2>5. /\ answer[d].request = request[Video(d)] /\ request[Video(d)] # None
        /\ Video(d) \in Videos /\ owner[Video(d)] = User(d)
    BY <1>1 DEF RequestInv, Tells
  <2> QED
    BY <2>4, <2>5 DEF OwnRequests
<1> QED
  BY <1>1, RequestInvariant, PTL DEF Spec, AcceptedIsListed
=============================================================================
