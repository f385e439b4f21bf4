------------------------------ MODULE WebPage ------------------------------
(***************************************************************************)
(* The single-page app (web/app.js) in one browser tab: logging in and     *)
(* out, the poll of the list every five seconds, an upload, a download.    *)
(*                                                                         *)
(* JavaScript runs one handler at a time; at each await it lets others run *)
(* and goes on, later, with whatever `state` holds by then.  A handler is  *)
(* therefore one action up to each await and one after it.  Answers come   *)
(* in any order, after a logout too.                                       *)
(*                                                                         *)
(* The api is reduced to the list of each User, as a version: 0 is the     *)
(* empty list, and from DoneVersion on a video of it is COMPLETED.         *)
(***************************************************************************)
EXTENDS Integers

CONSTANTS
    Users,
    None,
    MaxSession,    \* bound of the model: logins
    MaxVersion,    \* bound of the model: changes of a list
    DoneVersion,   \* the version with a video to download
    Polls          \* bound of the model: list requests in flight at once

ASSUME WebPageAssumption ==
    /\ None \notin Users \cup Nat
    /\ MaxSession \in Nat /\ MaxVersion \in Nat /\ DoneVersion \in Nat \ {0}

VARIABLES
    version,       \* api: the list of each User
    expired,       \* api: sessions whose token is refused
    userOf,        \* the User of each session, None before its login
    session,       \* state.token and state.identity; localStorage has the token too
    timer,         \* state.timer: the interval set last
    timers,        \* intervals that are running, named by their session
    snapshot,      \* state.snapshot: the list rendered last, or None
    downloading,   \* state.downloading: Users whose video is being fetched
    grid,          \* DOM: the cells, and the button of a COMPLETED one
    empty,         \* DOM: "Nenhum video ainda" is shown
    freshness,     \* refreshedAt, stale: "atualizado ha", "sem resposta ha" or nothing
    auth,          \* submissions of the login form in flight, by call
    sending,       \* the step of send, its ticket's User, the session it calls in
    poll           \* list requests: their session and answer

api == <<version, expired, userOf>>
login == <<session, timer, timers>>
screen == <<snapshot, downloading, grid, empty, freshness>>
vars == <<api, login, screen, auth, sending, poll>>

SessionIds == 1..MaxSession
Nothing == [user |-> None, version |-> 0]           \* JSON "[]"
Lists == [user : Users, version : 1..MaxVersion] \cup {Nothing}
NoList == [user |-> None, version |-> 403]           \* an error in place of a list

Items(u) == IF version[u] = 0 THEN Nothing ELSE [user |-> u, version |-> version[u]]
NotSending == [step |-> "idle", owner |-> None, session |-> None]
NoPoll == [step |-> "idle", session |-> None, answer |-> Nothing]
NoCells == [items |-> Nothing, button |-> "none"]
NoCalls == [call \in {"signup", "login"} |-> 0]

Init ==
    /\ version = [u \in Users |-> 0]
    /\ expired = {}
    /\ userOf = [s \in SessionIds |-> None]
    /\ session = None /\ timer = None /\ timers = {}
    /\ snapshot = None /\ downloading = {} /\ grid = NoCells /\ empty = FALSE
    /\ freshness = "none"
    /\ auth = NoCalls
    /\ sending = NotSending
    /\ poll = [p \in Polls |-> NoPoll]

-----------------------------------------------------------------------------
(* The session. *)

SendPoll(p, s) ==
    /\ poll[p].step = "idle"
    /\ poll' = [poll EXCEPT ![p] = [step |-> "sent", session |-> s, answer |-> Nothing]]

(* setSession: the first refresh, and a new interval. *)
SetSession(s) ==
    /\ session' = s
    /\ timer' = s /\ timers' = timers \cup {s}
    /\ \E p \in Polls : SendPoll(p, s)

(* clearSession: requests in flight go on, and the cells of the grid stay. *)
ClearSession ==
    /\ session' = None
    /\ timers' = timers \ {timer}
    /\ snapshot' = None
    /\ empty' = FALSE
    /\ freshness' = "none"
    /\ UNCHANGED <<timer, grid, downloading>>

(* Mutant of Locked: the form stays usable while a submission is in flight. *)
NeverLocked == FALSE

Locked == \E call \in DOMAIN auth : auth[call] > 0

(* The form is there when nobody is logged in; it is locked until the end. *)
Submit(call) ==
    /\ session = None
    /\ ~ Locked
    /\ auth[call] < 2
    /\ auth' = [auth EXCEPT ![call] = @ + 1]
    /\ UNCHANGED <<api, login, screen, sending, poll>>

SignedUp ==
    /\ auth["signup"] > 0
    /\ auth' = [auth EXCEPT !["signup"] = @ - 1, !["login"] = @ + 1]
    /\ UNCHANGED <<api, login, screen, sending, poll>>

LoggedIn(s, u) ==
    /\ auth["login"] > 0
    /\ userOf[s] = None /\ \A t \in 1..(s - 1) : userOf[t] # None
    /\ auth' = [auth EXCEPT !["login"] = @ - 1]
    /\ userOf' = [userOf EXCEPT ![s] = u]
    /\ SetSession(s)
    /\ UNCHANGED <<version, expired, screen, sending>>

AuthFails(call) ==
    /\ auth[call] > 0
    /\ auth' = [auth EXCEPT ![call] = @ - 1]
    /\ UNCHANGED <<api, login, screen, sending, poll>>

(* The button is disabled during an upload. *)
Logout ==
    /\ session # None
    /\ sending.step = "idle"
    /\ ClearSession
    /\ UNCHANGED <<api, auth, sending, poll>>

(* The tab is reloaded, or closed and opened again: boot goes on with the  *)
(* saved token, if it could be saved, unless its exp has passed.           *)
Reload ==
    /\ downloading' = {} /\ grid' = NoCells /\ empty' = FALSE /\ snapshot' = None
    /\ freshness' = "none"
    /\ auth' = NoCalls
    /\ sending' = NotSending
    /\ \/ /\ session \notin expired \cup {None}
          /\ timer' = session /\ timers' = {session}
          /\ \E p \in Polls : poll' = [[q \in Polls |-> NoPoll] EXCEPT
                                          ![p].step = "sent", ![p].session = session]
          /\ UNCHANGED session
       \/ /\ session' = None /\ timer' = None /\ timers' = {}
          /\ poll' = [q \in Polls |-> NoPoll]
    /\ UNCHANGED api

-----------------------------------------------------------------------------
(* The list. *)

(* Mutant of Button: a redrawn button forgets the download in progress.    *)
ButtonAlwaysEnabled(items) ==
    IF items.version < DoneVersion THEN "none" ELSE "enabled"

(* cell: the button of a COMPLETED video. *)
Button(items) ==
    IF items.version < DoneVersion THEN "none"
    ELSE IF items.user \in downloading THEN "disabled" ELSE "enabled"

(* Mutant of Render: an empty list is not drawn.                           *)
RenderUnlessEmpty(items) ==
    \/ /\ items \in {snapshot, Nothing}
       /\ UNCHANGED <<snapshot, downloading, grid, empty>>
    \/ /\ items \notin {snapshot, Nothing}
       /\ snapshot' = items
       /\ grid' = [items |-> items, button |-> Button(items)]
       /\ empty' = FALSE
       /\ UNCHANGED downloading

(* render leaves the DOM alone when the list is the one rendered last. *)
Render(items) ==
    \/ /\ items = snapshot
       /\ UNCHANGED <<snapshot, downloading, grid, empty>>
    \/ /\ items # snapshot
       /\ snapshot' = items
       /\ grid' = [items |-> items, button |-> Button(items)]
       /\ empty' = (items = Nothing)
       /\ UNCHANGED downloading

(* The interval fires: refresh, which does nothing without a session. *)
Refresh(p) ==
    /\ timers # {}
    /\ session # None
    /\ SendPoll(p, session)
    /\ UNCHANGED <<api, login, screen, auth, sending>>

Answered(p, answer) ==
    /\ poll[p].step = "sent"
    /\ poll' = [poll EXCEPT ![p].step = "answered", ![p].answer = answer]
    /\ UNCHANGED <<api, login, screen, auth, sending>>

(* The gateway lets the token pass, and the api answers with the list.     *)
ListVideos(p) ==
    /\ poll[p].session \notin expired
    /\ Answered(p, Items(userOf[poll[p].session]))

(* Refused by the gateway (403), offline or 5xx.                           *)
ListFails(p) == Answered(p, NoList)

(* Mutant of Refreshed: any answer is taken for a list.                    *)
RefreshedUnchecked(p) ==
    /\ poll[p].step = "answered"
    /\ poll' = [poll EXCEPT ![p] = NoPoll]
    /\ Render(poll[p].answer)
    /\ freshness' = "fresh"
    /\ UNCHANGED <<api, auth, sending, login>>

(* The rest of refresh: it asks neither whose list the answer is nor       *)
(* whether a later request was answered first.  An error marks the list as *)
(* stale, if one is there.                                                 *)
Refreshed(p) ==
    /\ poll[p].step = "answered"
    /\ poll' = [poll EXCEPT ![p] = NoPoll]
    /\ \/ /\ poll[p].answer \in Lists
          /\ Render(poll[p].answer)
          /\ freshness' = "fresh"
       \/ /\ poll[p].answer = NoList
          /\ freshness' = IF freshness = "none" THEN "none" ELSE "stale"
          /\ UNCHANGED <<snapshot, downloading, grid, empty>>
    /\ UNCHANGED <<api, auth, sending, login>>

-----------------------------------------------------------------------------
(* An upload, with the identity of the session at each call. *)

Pick ==
    /\ session # None
    /\ sending.step = "idle"
    /\ sending' = [step |-> "reserve", owner |-> None, session |-> session]
    /\ UNCHANGED <<api, login, screen, auth, poll>>

Reserved ==
    /\ sending.step = "reserve"
    /\ sending.session \notin expired
    /\ sending' = [step |-> "put", owner |-> userOf[sending.session], session |-> None]
    /\ UNCHANGED <<api, login, screen, auth, poll>>

(* Without a session by now, identityHeaders throws. *)
Uploaded ==
    /\ sending.step = "put"
    /\ sending' = IF session = None THEN NotSending
                  ELSE [sending EXCEPT !.step = "confirm", !.session = session]
    /\ UNCHANGED <<api, login, screen, auth, poll>>

(* POST /process: only the owner of the video may (403). *)
ProcessVideo ==
    /\ sending.step = "confirm"
    /\ sending.session \notin expired
    /\ userOf[sending.session] = sending.owner
    /\ version[sending.owner] < MaxVersion
    /\ version' = [version EXCEPT ![sending.owner] = @ + 1]
    /\ sending' = [sending EXCEPT !.step = "confirmed", !.session = None]
    /\ UNCHANGED <<expired, userOf, login, screen, auth, poll>>

Sent ==
    /\ sending.step = "confirmed"
    /\ sending' = NotSending
    /\ IF session = None THEN UNCHANGED poll ELSE \E p \in Polls : SendPoll(p, session)
    /\ UNCHANGED <<api, login, screen, auth>>

(* Any call of it is refused or gets no answer. *)
SendFails ==
    /\ sending.step # "idle"
    /\ sending' = NotSending
    /\ UNCHANGED <<api, login, screen, auth, poll>>

-----------------------------------------------------------------------------
(* A download: the button of the grid, by then another one perhaps. *)

Download ==
    /\ session # None
    /\ grid.button = "enabled"
    /\ downloading' = downloading \cup {grid.items.user}
    /\ grid' = [grid EXCEPT !.button = "disabled"]
    /\ UNCHANGED <<api, login, snapshot, empty, freshness, auth, sending, poll>>

Downloaded(u) ==
    /\ u \in downloading
    /\ downloading' = downloading \ {u}
    /\ grid' = IF grid.button # "none" /\ grid.items.user = u
               THEN [grid EXCEPT !.button = "enabled"] ELSE grid
    /\ UNCHANGED <<api, login, snapshot, empty, freshness, auth, sending, poll>>

-----------------------------------------------------------------------------
(* Outside the page. *)

(* Another device uploads, an event of the worker is applied. *)
ListChanges(u) ==
    /\ version[u] < MaxVersion
    /\ version' = [version EXCEPT ![u] = @ + 1]
    /\ UNCHANGED <<expired, userOf, login, screen, auth, sending, poll>>

(* The token's time has passed: from now on the authorizer refuses it.     *)
Expire(s) ==
    /\ userOf[s] # None
    /\ expired' = expired \cup {s}
    /\ UNCHANGED <<version, userOf, login, screen, auth, sending, poll>>

Next ==
    \/ \E call \in DOMAIN auth : Submit(call) \/ AuthFails(call)
    \/ SignedUp
    \/ \E s \in SessionIds : Expire(s) \/ \E u \in Users : LoggedIn(s, u)
    \/ Logout
    \/ Reload
    \/ \E p \in Polls : Refresh(p) \/ ListVideos(p) \/ ListFails(p) \/ Refreshed(p)
    \/ Pick \/ Reserved \/ Uploaded \/ ProcessVideo \/ Sent \/ SendFails
    \/ Download
    \/ \E u \in Users : Downloaded(u) \/ ListChanges(u)

Spec == Init /\ [][Next]_vars

(* The interval fires, every request is answered or fails, no request      *)
(* that is made again and again fails for ever, and handlers go on.        *)
Fairness ==
    /\ WF_vars(\E p \in Polls : Refresh(p))
    /\ \A p \in Polls :
          /\ WF_vars(ListVideos(p) \/ ListFails(p))
          /\ SF_vars(ListVideos(p))
          /\ WF_vars(Refreshed(p))

FairSpec == Spec /\ Fairness

-----------------------------------------------------------------------------
(* Properties. *)

(* Types. *)
TypeOK ==
    /\ version \in [Users -> 0..MaxVersion]
    /\ expired \subseteq SessionIds
    /\ userOf \in [SessionIds -> Users \cup {None}]
    /\ {session, timer} \subseteq SessionIds \cup {None}
    /\ timers \subseteq SessionIds
    /\ snapshot \in Lists \cup {None}
    /\ downloading \subseteq Users
    /\ grid \in [items : Lists, button : {"none", "enabled", "disabled"}]
    /\ empty \in BOOLEAN
    /\ freshness \in {"none", "fresh", "stale"}
    /\ auth \in [{"signup", "login"} -> 0..2]
    /\ sending \in [step : {"idle", "reserve", "put", "confirm", "confirmed"},
                    owner : Users \cup {None}, session : SessionIds \cup {None}]
    /\ poll \in [Polls -> [step : {"idle", "sent", "answered"},
                           session : SessionIds \cup {None},
                           answer : Lists \cup {NoList}]]

(* Exactly one interval polls while somebody is logged in, and none when   *)
(* nobody is: setSession never stops an older interval, clearSession stops *)
(* only the last, and overlapping submissions, failed logins and reloads   *)
(* may come between the two.                                               *)
OnePoller == timers = {session} \ {None}

(* What is on the screen is what `state` says, although render skips a     *)
(* list it thinks is shown, clearSession keeps the cells, and "o polling   *)
(* pode ter redesenhado a grade no meio" of a download (app.js:278): a     *)
(* button is disabled exactly while its video is being fetched.            *)
ScreenFollowsState ==
    /\ snapshot # None => grid.items = snapshot /\ empty = (snapshot = Nothing)
    /\ grid.button # "none" =>
          (grid.button = "disabled" <=> grid.items.user \in downloading)

ShowsOwnList(s) == userOf[s] # None /\ grid.items = Items(userOf[s])

(* A session that lasts tells its User the truth from some time on.  While *)
(* its token is accepted the list on the screen is the User's own, as it   *)
(* is: the cells of an earlier session, late answers and answers out of    *)
(* order are all healed by a later poll.  Once its token is refused        *)
(* nothing ends the session, but the list is no longer called up to date.  *)
(* Reloading for ever is excluded.                                         *)
SessionSettles ==
    <>[][~ Reload]_vars =>
        \A s \in SessionIds :
            <>[](session = s) =>
                <>[](IF s \in expired THEN freshness # "fresh" ELSE ShowsOwnList(s))
=============================================================================
