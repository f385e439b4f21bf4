---------------------------- MODULE WebPageProofs ----------------------------
(***************************************************************************)
(* Theorems about WebPage, for any number of Users, logins and list        *)
(* requests in flight, with their proofs.                                  *)
(*                                                                         *)
(* PageInv joins the types with what a handler relies on after an await:   *)
(* the session a request was made in had a User, and a submission is in    *)
(* flight only while nobody is logged in.                                  *)
(***************************************************************************)
EXTENDS WebPage, TLAPS

-----------------------------------------------------------------------------
(* The invariant. *)

Sessions == {s \in SessionIds : userOf[s] # None}

(* Requests are made in the name of somebody who has logged in.            *)
CallersKnown ==
    /\ session # None => session \in Sessions
    /\ \A p \in Polls : poll[p].step # "idle" => poll[p].session \in Sessions
    /\ sending.step \in {"reserve", "confirm"} => sending.session \in Sessions
    /\ sending.step \in {"put", "confirm", "confirmed"} => sending.owner \in Users

(* One submission at a time, and none once somebody is logged in: so a     *)
(* login never finds an interval running.                                  *)
FormLocked ==
    /\ auth["signup"] + auth["login"] <= 1
    /\ Locked => session = None

TimerCurrent == session # None => timer = session

ButtonsOwned == grid.button # "none" => grid.items.user \in Users

PageInv ==
    /\ TypeOK
    /\ CallersKnown
    /\ FormLocked
    /\ TimerCurrent
    /\ OnePoller
    /\ ButtonsOwned
    /\ ScreenFollowsState

PollStates == [step : {"idle", "sent", "answered"}, session : SessionIds \cup {None},
               answer : Lists \cup {NoList}]

LEMMA NoSessionIsNone == None \notin SessionIds
BY WebPageAssumption DEF SessionIds

LEMMA ItemsAreLists ==
    ASSUME TypeOK, NEW s \in Sessions
    PROVE  userOf[s] \in Users /\ Items(userOf[s]) \in Lists
<1>1. userOf[s] \in Users /\ version[userOf[s]] \in 0..MaxVersion
  BY DEF Sessions, TypeOK
<1> QED
  BY <1>1, WebPageAssumption DEF Items, Lists

LEMMA PageInit == Init => PageInv
<1> SUFFICES ASSUME Init PROVE PageInv
  OBVIOUS
<1>1. TypeOK
  <2>1. Nothing \in Lists
    BY DEF Lists
  <2>2. /\ NoPoll \in PollStates
        /\ NoCells \in [items : Lists, button : {"none", "enabled", "disabled"}]
    BY <2>1 DEF NoPoll, NoCells, PollStates
  <2>3. NoCalls \in [{"signup", "login"} -> 0..2]
    BY DEF NoCalls
  <2>4. poll \in [Polls -> PollStates] /\ grid \in [items : Lists, button : {"none", "enabled", "disabled"}]
    BY <2>2 DEF Init
  <2>5. sending \in [step : {"idle", "reserve", "put", "confirm", "confirmed"},
                     owner : Users \cup {None}, session : SessionIds \cup {None}]
    BY DEF Init, NotSending
  <2>6. version \in [Users -> 0..MaxVersion] /\ userOf \in [SessionIds -> Users \cup {None}]
    BY WebPageAssumption DEF Init
  <2> QED
    BY <2>3, <2>4, <2>5, <2>6 DEF Init, TypeOK, PollStates
<1>2. CallersKnown /\ TimerCurrent /\ OnePoller
  BY DEF Init, CallersKnown, TimerCurrent, OnePoller, NotSending, NoPoll
<1>3. FormLocked /\ ButtonsOwned /\ ScreenFollowsState
  BY DEF Init, FormLocked, Locked, NoCalls, ButtonsOwned, ScreenFollowsState, NoCells
<1> QED
  BY <1>1, <1>2, <1>3 DEF PageInv

-----------------------------------------------------------------------------
(* The handlers, part by part. *)

(* A list request of session s takes a free place.                         *)
LEMMA SendPollTyped ==
    ASSUME TypeOK, NEW p \in Polls, NEW s \in SessionIds, SendPoll(p, s)
    PROVE  /\ poll' \in [Polls -> PollStates]
           /\ \A q \in Polls : poll'[q].step # "idle" =>
                 \/ poll'[q].session = s
                 \/ poll[q].step # "idle" /\ poll'[q].session = poll[q].session
<1> DEFINE sent == [step |-> "sent", session |-> s, answer |-> Nothing]
<1>1. Nothing \in Lists /\ sent \in PollStates
  BY Zenon DEF Lists, PollStates
<1>2. poll' = [poll EXCEPT ![p] = sent] /\ poll \in [Polls -> PollStates]
  BY DEF SendPoll, TypeOK, PollStates
<1>3. sent.session = s
  OBVIOUS
<1> HIDE DEF sent
<1>4. poll' \in [Polls -> PollStates]
  BY <1>1, <1>2
<1>5. poll'[p] = sent /\ \A q \in Polls : q # p => poll'[q] = poll[q]
  BY <1>2
<1> QED
  BY <1>3, <1>4, <1>5

(* render keeps the screen and `state` together.                           *)
LEMMA RenderScreen ==
    ASSUME TypeOK, ButtonsOwned, ScreenFollowsState, NEW items \in Lists, Render(items)
    PROVE  /\ snapshot' \in Lists \cup {None} /\ downloading' \subseteq Users
           /\ grid' \in [items : Lists, button : {"none", "enabled", "disabled"}]
           /\ empty' \in BOOLEAN
           /\ ButtonsOwned' /\ ScreenFollowsState'
<1>1. CASE UNCHANGED <<snapshot, downloading, grid, empty>>
  BY <1>1 DEF TypeOK, ButtonsOwned, ScreenFollowsState
<1>2. CASE /\ snapshot' = items
           /\ grid' = [items |-> items, button |-> Button(items)]
           /\ empty' = (items = Nothing)
           /\ UNCHANGED downloading
  <2>1. items.version >= DoneVersion => items.user \in Users
    BY WebPageAssumption DEF Lists, Nothing
  <2>2. items.version \in Nat
    BY WebPageAssumption DEF Lists, Nothing
  <2>3. /\ Button(items) \in {"none", "enabled", "disabled"}
        /\ Button(items) # "none" => items.version >= DoneVersion
        /\ Button(items) # "none" => (Button(items) = "disabled" <=> items.user \in downloading)
    BY <2>2, WebPageAssumption DEF Button
  <2> HIDE DEF Button
  <2> QED
    BY <1>2, <2>1, <2>3 DEF TypeOK, ButtonsOwned, ScreenFollowsState
<1> QED
  BY <1>1, <1>2 DEF Render

(* clearSession leaves no interval, and nothing is on the screen.          *)
LEMMA ClearSessionFacts ==
    ASSUME PageInv, ClearSession
    PROVE  /\ session' = None /\ timer' = timer /\ timers' = {}
           /\ snapshot' \in Lists \cup {None} /\ downloading' = downloading
           /\ grid' = grid /\ empty' \in BOOLEAN
           /\ OnePoller' /\ TimerCurrent' /\ ButtonsOwned' /\ ScreenFollowsState'
<1>1. timers' = {}
  <2>1. CASE session = None
    BY <2>1 DEF PageInv, OnePoller, ClearSession
  <2>2. CASE session # None
    BY <2>2 DEF PageInv, OnePoller, TimerCurrent, ClearSession
  <2> QED
    BY <2>1, <2>2
<1> QED
  BY <1>1 DEF PageInv, ClearSession, OnePoller, TimerCurrent, ButtonsOwned, ScreenFollowsState

-----------------------------------------------------------------------------
(* Every step preserves the invariant. *)

(* The login form: one submission at a time.                               *)
LEMMA FormPreserves ==
    ASSUME PageInv, NEW call \in {"signup", "login"},
           Submit(call) \/ AuthFails(call) \/ SignedUp
    PROVE  PageInv'
<1> USE DEF PageInv
<1>1. /\ auth["signup"] \in 0..2 /\ auth["login"] \in 0..2
      /\ auth["signup"] + auth["login"] <= 1 /\ DOMAIN auth = {"signup", "login"}
      /\ UNCHANGED <<api, login, screen, sending, poll>>
  BY DEF TypeOK, FormLocked, Submit, AuthFails, SignedUp
<1>2. session = None
  BY <1>1 DEF FormLocked, Locked, Submit, AuthFails, SignedUp
<1>3. /\ auth' \in [{"signup", "login"} -> 0..2]
      /\ auth'["signup"] + auth'["login"] <= 1
  <2>1. CASE Submit(call)
    <3>1. auth["signup"] = 0 /\ auth["login"] = 0
      BY <1>1, <2>1 DEF Submit, Locked
    <3>2. auth' = [auth EXCEPT ![call] = 1]
      <4>1. auth[call] + 1 = 1
        BY <3>1
      <4> QED
        BY <2>1, <4>1 DEF Submit
    <3>3. auth' \in [{"signup", "login"} -> 0..2]
      BY <3>2 DEF TypeOK
    <3>4. \A other \in {"signup", "login"} :
             auth'[other] = (IF other = call THEN 1 ELSE auth[other])
      BY <3>2 DEF TypeOK
    <3> QED
      BY <3>1, <3>3, <3>4
  <2>2. CASE AuthFails(call)
    <3>1. auth[call] \in 1..2 /\ auth' = [auth EXCEPT ![call] = auth[call] - 1]
      BY <1>1, <2>2 DEF AuthFails
    <3> QED
      BY <1>1, <3>1 DEF TypeOK
  <2>3. CASE SignedUp
    BY <1>1, <2>3 DEF SignedUp, TypeOK
  <2> QED
    BY <2>1, <2>2, <2>3
<1>4. FormLocked' /\ CallersKnown' /\ TimerCurrent' /\ OnePoller' /\ ButtonsOwned'
      /\ ScreenFollowsState'
  BY <1>1, <1>2, <1>3 DEF FormLocked, CallersKnown, Sessions, TimerCurrent, OnePoller,
     ButtonsOwned, ScreenFollowsState, api, login, screen
<1> QED
  BY <1>1, <1>3, <1>4 DEF TypeOK, api, login, screen

(* setSession runs when no interval does.                                  *)
LEMMA LoginPreserves ==
    ASSUME PageInv, NEW s \in SessionIds, NEW u \in Users, LoggedIn(s, u)
    PROVE  PageInv'
<1> USE DEF PageInv
<1>1. /\ auth["login"] > 0 /\ auth' = [auth EXCEPT !["login"] = @ - 1]
      /\ userOf' = [userOf EXCEPT ![s] = u]
      /\ session' = s /\ timer' = s /\ timers' = timers \cup {s}
      /\ UNCHANGED <<version, expired, screen, sending>>
  BY DEF LoggedIn, SetSession
<1>2. PICK p \in Polls : SendPoll(p, s)
  BY DEF LoggedIn, SetSession
<1>3. /\ poll' \in [Polls -> PollStates]
      /\ \A q \in Polls : poll'[q].step # "idle" =>
            \/ poll'[q].session = s
            \/ poll[q].step # "idle" /\ poll'[q].session = poll[q].session
  BY <1>2, SendPollTyped
<1>4. session = None /\ timers = {}
  BY <1>1 DEF TypeOK, FormLocked, Locked, OnePoller
<1>5. /\ auth' \in [{"signup", "login"} -> 0..2]
      /\ auth'["signup"] = 0 /\ auth'["login"] = 0
  BY <1>1 DEF TypeOK, FormLocked
<1>6. userOf' \in [SessionIds -> Users \cup {None}] /\ Sessions \cup {s} \subseteq Sessions'
  BY <1>1, WebPageAssumption DEF TypeOK, Sessions
<1>7. CallersKnown'
  BY <1>1, <1>3, <1>6 DEF CallersKnown
<1>8. FormLocked'
  BY <1>5 DEF FormLocked, Locked
<1>9. TimerCurrent' /\ OnePoller' /\ ButtonsOwned' /\ ScreenFollowsState'
  BY <1>1, <1>4, NoSessionIsNone
     DEF TimerCurrent, OnePoller, ButtonsOwned, ScreenFollowsState, screen
<1> QED
  BY <1>1, <1>3, <1>4, <1>5, <1>6, <1>7, <1>8, <1>9 DEF TypeOK, PollStates, screen

(* A session that ends.                                                    *)
LEMMA ClearPreserves == PageInv /\ Logout => PageInv'
<1> SUFFICES ASSUME PageInv, Logout PROVE PageInv'
  OBVIOUS
<1> USE DEF PageInv
<1>1. /\ session' = None /\ timer' = timer /\ timers' = {}
      /\ snapshot' \in Lists \cup {None} /\ downloading' = downloading
      /\ grid' = grid /\ empty' \in BOOLEAN
      /\ OnePoller' /\ TimerCurrent' /\ ButtonsOwned' /\ ScreenFollowsState'
  BY ClearSessionFacts DEF Logout
<1>2. freshness' = "none" /\ UNCHANGED <<api, auth, sending, poll>>
  BY DEF Logout, ClearSession
<1>3. CallersKnown' /\ FormLocked'
  BY <1>1, <1>2 DEF CallersKnown, Sessions, FormLocked, Locked, api
<1> QED
  BY <1>1, <1>2, <1>3 DEF TypeOK, api

LEMMA ReloadPreserves == PageInv /\ Reload => PageInv'
<1> SUFFICES ASSUME PageInv, Reload PROVE PageInv'
  OBVIOUS
<1> USE DEF PageInv
<1>1. /\ downloading' = {} /\ grid' = NoCells /\ empty' = FALSE /\ snapshot' = None
      /\ freshness' = "none"
      /\ auth' = NoCalls /\ sending' = NotSending /\ UNCHANGED api
      /\ session' = session \/ session' = None
      /\ timer' = session' /\ timers' = {session'} \ {None}
  BY DEF Reload
<1>2. Nothing \in Lists
  BY DEF Lists
<1>3. /\ poll' \in [Polls -> PollStates]
      /\ \A p \in Polls : poll'[p].step # "idle" =>
            session' = session /\ session # None /\ poll'[p].session = session
  <2>1. NoPoll \in PollStates /\ NoPoll.step = "idle"
    BY <1>2 DEF NoPoll, PollStates
  <2>2. CASE poll' = [q \in Polls |-> NoPoll]
    BY <2>1, <2>2
  <2>3. CASE /\ session \notin expired \cup {None} /\ session' = session
             /\ \E p \in Polls : poll' = [[q \in Polls |-> NoPoll] EXCEPT
                                             ![p].step = "sent", ![p].session = session]
    <3>1. PICK p \in Polls : poll' = [[q \in Polls |-> NoPoll] EXCEPT
                                         ![p].step = "sent", ![p].session = session]
      BY <2>3
    <3>2. session \in SessionIds
      BY <2>3 DEF TypeOK
    <3> DEFINE first == [NoPoll EXCEPT !.step = "sent", !.session = session]
    <3>3. first \in PollStates /\ first.session = session
      BY <1>2, <3>2 DEF NoPoll, PollStates
    <3>4. poll' = [q \in Polls |-> IF q = p THEN first ELSE NoPoll]
      BY <3>1
    <3> HIDE DEF first
    <3> QED
      BY <2>1, <2>3, <3>3, <3>4
  <2> QED
    BY <2>2, <2>3 DEF Reload
<1>4. CallersKnown'
  BY <1>1, <1>3 DEF CallersKnown, Sessions, NotSending, api
<1>5. FormLocked' /\ auth' \in [{"signup", "login"} -> 0..2]
  BY <1>1 DEF FormLocked, Locked, NoCalls
<1>6. /\ TimerCurrent' /\ OnePoller' /\ ButtonsOwned' /\ ScreenFollowsState'
      /\ grid' \in [items : Lists, button : {"none", "enabled", "disabled"}]
  BY <1>1, <1>2 DEF TimerCurrent, OnePoller, ButtonsOwned, ScreenFollowsState, NoCells
<1>7. sending' \in [step : {"idle", "reserve", "put", "confirm", "confirmed"},
                    owner : Users \cup {None}, session : SessionIds \cup {None}]
  BY <1>1 DEF NotSending
<1>8. /\ version' \in [Users -> 0..MaxVersion] /\ expired' \subseteq SessionIds
      /\ userOf' \in [SessionIds -> Users \cup {None}]
      /\ {session', timer'} \subseteq SessionIds \cup {None} /\ timers' \subseteq SessionIds
  BY <1>1 DEF TypeOK, api
<1> QED
  BY <1>1, <1>3, <1>4, <1>5, <1>6, <1>7, <1>8 DEF TypeOK, PollStates

(* The list: asked for in the session of the moment, rendered in whatever  *)
(* session there is by then.                                               *)
LEMMA PollPreserves ==
    ASSUME PageInv, NEW p \in Polls, Refresh(p) \/ ListVideos(p) \/ ListFails(p)
    PROVE  PageInv'
<1> USE DEF PageInv
<1>1. UNCHANGED <<api, login, screen, auth, sending>>
  BY DEF Refresh, ListVideos, ListFails, Answered
<1>2. /\ poll' \in [Polls -> PollStates]
      /\ \A q \in Polls : poll'[q].step # "idle" => poll'[q].session \in Sessions
  <2>1. CASE Refresh(p)
    <3>1. session \in Sessions /\ session \in SessionIds /\ SendPoll(p, session)
      BY <2>1 DEF Refresh, CallersKnown, Sessions
    <3> QED
      BY <3>1, SendPollTyped DEF CallersKnown
  <2>2. ASSUME NEW answer \in Lists \cup {NoList}, Answered(p, answer)
        PROVE  /\ poll' \in [Polls -> PollStates]
               /\ \A q \in Polls : poll'[q].step # "idle" => poll'[q].session \in Sessions
    <3> DEFINE answered == [poll[p] EXCEPT !.step = "answered", !.answer = answer]
    <3>1. poll[p].session \in Sessions
      BY <2>2 DEF Answered, CallersKnown
    <3>2. poll \in [Polls -> PollStates]
      BY DEF TypeOK, PollStates
    <3>3. answered \in PollStates /\ answered.session = poll[p].session
      BY <3>2 DEF PollStates
    <3>4. poll' = [poll EXCEPT ![p] = answered]
      BY <2>2 DEF Answered
    <3> HIDE DEF answered
    <3> QED
      BY <3>1, <3>2, <3>3, <3>4 DEF CallersKnown
  <2>3. CASE ListVideos(p)
    <3>1. poll[p].session \in Sessions
      BY <2>3 DEF ListVideos, Answered, CallersKnown
    <3> QED
      BY <2>2, <2>3, <3>1, ItemsAreLists DEF ListVideos
  <2>4. CASE ListFails(p)
    BY <2>2, <2>4 DEF ListFails
  <2> QED
    BY <2>1, <2>3, <2>4
<1>3. CallersKnown' /\ FormLocked' /\ TimerCurrent' /\ OnePoller' /\ ButtonsOwned'
      /\ ScreenFollowsState'
  BY <1>1, <1>2 DEF CallersKnown, Sessions, FormLocked, Locked, TimerCurrent, OnePoller,
     ButtonsOwned, ScreenFollowsState, api, login, screen
<1> QED
  BY <1>1, <1>2, <1>3 DEF TypeOK, PollStates, api, login, screen

(* An answer to the list request: a list is rendered, an error is not.     *)
LEMMA RefreshedPreserves ==
    ASSUME PageInv, NEW p \in Polls, Refreshed(p)
    PROVE  PageInv'
<1> USE DEF PageInv
<1>1. /\ poll' = [poll EXCEPT ![p] = NoPoll] /\ UNCHANGED <<api, auth, sending, login>>
      /\ freshness' \in {"none", "fresh", "stale"}
      /\ \/ poll[p].answer \in Lists /\ Render(poll[p].answer)
         \/ UNCHANGED <<snapshot, downloading, grid, empty>>
  BY DEF Refreshed
<1>2. NoPoll \in PollStates /\ NoPoll.step = "idle"
  BY DEF NoPoll, PollStates, Lists
<1>3. /\ poll' \in [Polls -> PollStates]
      /\ \A q \in Polls : poll'[q].step # "idle" => poll'[q] = poll[q]
  BY <1>1, <1>2 DEF TypeOK, PollStates
<1>4. /\ snapshot' \in Lists \cup {None} /\ downloading' \subseteq Users
      /\ grid' \in [items : Lists, button : {"none", "enabled", "disabled"}]
      /\ empty' \in BOOLEAN
      /\ ButtonsOwned' /\ ScreenFollowsState'
  BY <1>1, RenderScreen DEF TypeOK, ButtonsOwned, ScreenFollowsState
<1>5. CallersKnown' /\ FormLocked' /\ TimerCurrent' /\ OnePoller'
  BY <1>1, <1>3
     DEF CallersKnown, Sessions, FormLocked, Locked, TimerCurrent, OnePoller, api, login
<1> QED
  BY <1>1, <1>3, <1>4, <1>5 DEF TypeOK, PollStates, api, login

(* An upload: each call of it in the session of the moment.                *)
LEMMA SendPreserves ==
    ASSUME PageInv, Pick \/ Reserved \/ Uploaded \/ ProcessVideo \/ Sent \/ SendFails
    PROVE  PageInv'
<1> USE DEF PageInv
<1>1. /\ UNCHANGED <<expired, userOf, login, screen, auth>>
      /\ version' = version
         \/ ProcessVideo
  BY DEF Pick, Reserved, Uploaded, ProcessVideo, Sent, SendFails, api
<1>2. version' \in [Users -> 0..MaxVersion]
  <2>1. CASE ProcessVideo
    <3>1. sending.owner \in Users /\ version[sending.owner] \in 0..(MaxVersion - 1)
      BY <2>1, WebPageAssumption DEF ProcessVideo, CallersKnown, TypeOK
    <3>2. version' = [version EXCEPT ![sending.owner] = version[sending.owner] + 1]
      BY <2>1 DEF ProcessVideo
    <3> QED
      BY <3>1, <3>2, WebPageAssumption DEF TypeOK
  <2> QED
    BY <1>1, <2>1 DEF TypeOK
<1>3. /\ poll' \in [Polls -> PollStates]
      /\ \A q \in Polls : poll'[q].step # "idle" => poll'[q].session \in Sessions
  <2>1. CASE UNCHANGED poll
    BY <2>1 DEF TypeOK, PollStates, CallersKnown
  <2>2. ASSUME NEW p \in Polls, session # None, SendPoll(p, session)
        PROVE  /\ poll' \in [Polls -> PollStates]
               /\ \A q \in Polls : poll'[q].step # "idle" => poll'[q].session \in Sessions
    <3>1. session \in Sessions /\ session \in SessionIds
      BY <2>2 DEF CallersKnown, Sessions
    <3> QED
      BY <2>2, <3>1, SendPollTyped DEF CallersKnown
  <2> QED
    BY <2>1, <2>2 DEF Pick, Reserved, Uploaded, ProcessVideo, Sent, SendFails
<1>4. /\ sending' \in [step : {"idle", "reserve", "put", "confirm", "confirmed"},
                        owner : Users \cup {None}, session : SessionIds \cup {None}]
      /\ sending'.step \in {"reserve", "confirm"} => sending'.session \in Sessions
      /\ sending'.step \in {"put", "confirm", "confirmed"} => sending'.owner \in Users
  <2>1. CASE Pick
    BY <2>1 DEF Pick, CallersKnown, Sessions
  <2>2. CASE Reserved
    BY <2>2, ItemsAreLists DEF Reserved, CallersKnown
  <2>3. CASE Uploaded
    BY <2>3 DEF Uploaded, NotSending, CallersKnown, Sessions, TypeOK
  <2>4. CASE ProcessVideo
    BY <2>4 DEF ProcessVideo, CallersKnown, TypeOK
  <2>5. CASE Sent \/ SendFails
    BY <2>5 DEF Sent, SendFails, NotSending
  <2> QED
    BY <2>1, <2>2, <2>3, <2>4, <2>5
<1>5. CallersKnown' /\ FormLocked' /\ TimerCurrent' /\ OnePoller' /\ ButtonsOwned'
      /\ ScreenFollowsState'
  BY <1>1, <1>3, <1>4 DEF CallersKnown, Sessions, FormLocked, Locked, TimerCurrent, OnePoller,
     ButtonsOwned, ScreenFollowsState, login, screen
<1> QED
  BY <1>1, <1>2, <1>3, <1>4, <1>5 DEF TypeOK, PollStates, login, screen

(* A download, and what happens outside the page.                          *)
LEMMA OutsidePreserves ==
    ASSUME PageInv,
           \/ Download
           \/ \E u \in Users : Downloaded(u) \/ ListChanges(u)
           \/ \E s \in SessionIds : Expire(s)
    PROVE  PageInv'
<1> USE DEF PageInv
<1>1. /\ UNCHANGED <<userOf, login, auth, sending, poll, snapshot, empty, freshness>>
      /\ version' \in [Users -> 0..MaxVersion] /\ expired' \subseteq SessionIds
  <2>1. ASSUME NEW u \in Users, ListChanges(u) PROVE version' \in [Users -> 0..MaxVersion]
    <3>1. version[u] + 1 \in 0..MaxVersion /\ version' = [version EXCEPT ![u] = version[u] + 1]
      BY <2>1, WebPageAssumption DEF ListChanges, TypeOK
    <3> QED
      BY <3>1 DEF TypeOK
  <2> QED
    BY <2>1 DEF Download, Downloaded, ListChanges, Expire, TypeOK, api, login, screen
<1>2. /\ downloading' \subseteq Users
      /\ grid' \in [items : Lists, button : {"none", "enabled", "disabled"}]
      /\ ButtonsOwned' /\ ScreenFollowsState'
  <2>1. CASE Download
    BY <2>1 DEF Download, TypeOK, ButtonsOwned, ScreenFollowsState
  <2>2. ASSUME NEW u \in Users, Downloaded(u)
        PROVE  /\ downloading' \subseteq Users
               /\ grid' \in [items : Lists, button : {"none", "enabled", "disabled"}]
               /\ ButtonsOwned' /\ ScreenFollowsState'
    BY <2>2 DEF Downloaded, TypeOK, ButtonsOwned, ScreenFollowsState
  <2>3. CASE UNCHANGED screen
    BY <2>3 DEF screen, TypeOK, ButtonsOwned, ScreenFollowsState
  <2> QED
    BY <2>1, <2>2, <2>3 DEF ListChanges, Expire
<1>3. CallersKnown' /\ FormLocked' /\ TimerCurrent' /\ OnePoller'
  BY <1>1 DEF CallersKnown, Sessions, FormLocked, Locked, TimerCurrent, OnePoller, login
<1> QED
  BY <1>1, <1>2, <1>3 DEF TypeOK, PollStates, login

LEMMA PageNext == PageInv /\ [Next]_vars => PageInv'
<1> SUFFICES ASSUME PageInv, [Next]_vars PROVE PageInv'
  OBVIOUS
<1>1. CASE Logout
  BY <1>1, ClearPreserves
<1>2. CASE UNCHANGED vars
  <2>1. PageInv' = PageInv
    BY <1>2 DEF vars, api, login, screen, PageInv, TypeOK, CallersKnown, Sessions, FormLocked,
       Locked, TimerCurrent, OnePoller, ButtonsOwned, ScreenFollowsState
  <2> QED
    BY <2>1
<1>3. CASE \E call \in DOMAIN auth : Submit(call) \/ AuthFails(call)
  BY <1>3, FormPreserves DEF PageInv, TypeOK
<1>4. CASE SignedUp
  BY <1>4, FormPreserves
<1> QED
  BY <1>1, <1>2, <1>3, <1>4, LoginPreserves, ReloadPreserves, PollPreserves,
     RefreshedPreserves, SendPreserves, OutsidePreserves DEF Next

THEOREM PageInvariant == Spec => []PageInv
BY PageInit, PageNext, PTL DEF Spec

-----------------------------------------------------------------------------
(* The properties. *)

(* Every handler leaves the state with the types the others rely on.       *)
THEOREM PageTyped == Spec => []TypeOK
BY PageInvariant, PTL DEF PageInv

(* One interval polls while somebody is logged in, and none otherwise.     *)
THEOREM PollersCounted == Spec => []OnePoller
BY PageInvariant, PTL DEF PageInv

(* The screen is what `state` says, through late answers, redraws and      *)
(* downloads.                                                              *)
THEOREM ScreenIsCurrent == Spec => []ScreenFollowsState
BY PageInvariant, PTL DEF PageInv
=============================================================================
