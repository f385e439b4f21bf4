---------------------------- MODULE AccessProofs ----------------------------
(***************************************************************************)
(* Theorems about Access, for any number of concurrent calls and any times *)
(* to live, with their proofs.                                             *)
(*                                                                         *)
(* A call that has been answered changes no more, and rows and tokens are  *)
(* never withdrawn: what a call has found out or was told stays true.      *)
(* CallInv says what that is; OthersStay shows it of every call but the    *)
(* one that takes a step.                                                  *)
(***************************************************************************)
EXTENDS Access, TLAPS

-----------------------------------------------------------------------------
(* The invariant. *)

Inputs == [kind : {"none", "signup", "login", "request"},
           typed : Spellings \cup {Invalid}, email : Emails \cup {Invalid},
           password : Passwords \cup {"none"},
           token : [id : Calls \cup {"none"}, email : Emails \cup {"none"},
                    exp : 0..(MaxTime + Ttl)]]

(* The identity in the token of call c is the account that has the address *)
(* and the password the call presented.                                    *)
HasAccount(c) ==
    [id |-> input[c].token.id, email |-> input[c].token.email,
     password |-> input[c].password] \in users

MadeByLogin(token) ==
    \E d \in Calls : answer[d] = "token" /\ input[d].token = token

Normalised(c) == input[c].email = EmailOf[input[c].typed] /\ input[c].email \in Emails

(* What call c knows at the step it has reached, and what it was told.     *)
CallInv(c) ==
    /\ pc[c] # "done" => answer[c] = "none"
    /\ pc[c] = "new" => input[c] = NoInput
    /\ pc[c] \in {"create", "find"} => Normalised(c)
    /\ pc[c] = "create" => input[c].password \in Passwords \ Weak
    /\ pc[c] = "issue" \/ answer[c] = "token" => HasAccount(c)
    /\ answer[c] = "created" => Normalised(c) /\ Row(c) \in users
    /\ answer[c] = "served" => MadeByLogin(input[c].token)

(* Every token was made by a login, and expires within the last second of  *)
(* its time to live.                                                       *)
IssuedInv ==
    \A i \in issued :
        /\ MadeByLogin(i.token)
        /\ i.token.exp <= i.at + Ttl /\ i.at + Ttl < i.token.exp + Second

(* The gateway keeps an answer for CacheTtl from an instant at which the   *)
(* token was valid.                                                        *)
CacheInv == \A e \in cache : e.until < e.token.exp + CacheTtl

OneAccount == \A u, v \in users : u.email = v.email => u = v

AccessInv ==
    /\ TypeOK
    /\ input \in [Calls -> Inputs]
    /\ \A c \in Calls : CallInv(c)
    /\ IssuedInv
    /\ CacheInv
    /\ OneAccount

LEMMA AccessInit == Init => AccessInv
BY AccessAssumption DEF Init, AccessInv, TypeOK, Inputs, NoInput, Nobody, CallInv, Steps, Codes,
   IssuedInv, CacheInv, OneAccount

-----------------------------------------------------------------------------
(* What a step leaves alone. *)

(* Call c moves; rows and tokens are only added.                           *)
Moves(c) ==
    /\ pc[c] # "done"
    /\ \A d \in Calls \ {c} :
          pc'[d] = pc[d] /\ input'[d] = input[d] /\ answer'[d] = answer[d]
    /\ users \subseteq users'

LEMMA OthersStay ==
    ASSUME AccessInv, NEW c \in Calls, Moves(c)
    PROVE  /\ \A token : MadeByLogin(token) => MadeByLogin(token)'
           /\ \A d \in Calls \ {c} : CallInv(d)'
<1>1. answer[c] = "none"
  BY DEF AccessInv, CallInv, Moves
<1>2. ASSUME NEW token, MadeByLogin(token) PROVE MadeByLogin(token)'
  BY <1>1, <1>2 DEF Moves, MadeByLogin
<1>3. ASSUME NEW d \in Calls \ {c} PROVE CallInv(d)'
  <2>1. CallInv(d) /\ pc'[d] = pc[d] /\ input'[d] = input[d] /\ answer'[d] = answer[d]
    BY <1>3 DEF Moves, AccessInv
  <2>2. Normalised(d)' = Normalised(d) /\ (HasAccount(d) => HasAccount(d)')
        /\ (Row(d) \in users => (Row(d) \in users)')
    BY <2>1 DEF Normalised, HasAccount, Row, Moves
  <2>3. MadeByLogin(input[d].token) => MadeByLogin(input[d].token)'
    BY <1>2, <2>1 DEF MadeByLogin
  <2> QED
    BY <2>1, <2>2, <2>3 DEF CallInv
<1> QED
  BY <1>2, <1>3

(* The whole second a token expires at.                                    *)
LEMMA NumericDateBounds ==
    ASSUME NEW t \in Nat
    PROVE  /\ NumericDate(t) \in 0..t
           /\ t < NumericDate(t) + Second
BY AccessAssumption, Z3 DEF NumericDate

-----------------------------------------------------------------------------
(* Every step preserves the invariant. *)

(* A step of call c that makes no token, caches nothing and leaves the     *)
(* clock alone: what is left to show is about the rows and call c itself.  *)
LEMMA CallStep ==
    ASSUME AccessInv, NEW c \in Calls, Moves(c), UNCHANGED <<now, issued, cache>>,
           pc' \in [Calls -> Steps], input' \in [Calls -> Inputs], answer' \in [Calls -> Codes],
           users' \subseteq {u \in Users : u.password \notin Weak}, OneAccount', CallInv(c)'
    PROVE  AccessInv'
<1>1. \A token : MadeByLogin(token) => MadeByLogin(token)'
  BY OthersStay
<1>2. \A d \in Calls : CallInv(d)'
  BY OthersStay
<1>3. IssuedInv'
  BY <1>1 DEF AccessInv, IssuedInv
<1>4. CacheInv' /\ TypeOK'
  BY DEF AccessInv, CacheInv, TypeOK
<1> QED
  BY <1>2, <1>3, <1>4 DEF AccessInv

LEMMA SignUpPreserves ==
    ASSUME AccessInv, NEW c \in Calls, NEW s \in Spellings, NEW p \in Passwords,
           SignUp(c, s, p) \/ Login(c, s, p)
    PROVE  AccessInv'
<1> USE DEF AccessInv
<1>1. /\ pc[c] = "new" /\ UNCHANGED <<users, now, issued, cache>>
      /\ \E k \in {"signup", "login"} :
            input' = [input EXCEPT ![c] = [kind |-> k, typed |-> s, email |-> EmailOf[s],
                                           password |-> p, token |-> Nobody]]
      /\ \/ \E code \in {"invalid_email", "weak_password", "invalid_credentials"} :
               AnswerWith(c, code)
         \/ EmailOf[s] # Invalid /\ p \notin Weak /\ Go(c, "create")
         \/ EmailOf[s] # Invalid /\ Go(c, "find")
  BY DEF SignUp, Login
<1>2. /\ Moves(c)
      /\ pc' \in [Calls -> Steps] /\ answer' \in [Calls -> Codes]
  BY <1>1 DEF Moves, AnswerWith, Go, TypeOK, Steps, Codes
<1>3. EmailOf[s] \in Emails \cup {Invalid} /\ Nobody \in
        [id : Calls \cup {"none"}, email : Emails \cup {"none"}, exp : 0..(MaxTime + Ttl)]
  BY AccessAssumption DEF Emails, Nobody
<1>4. input' \in [Calls -> Inputs]
  BY <1>1, <1>3 DEF Inputs
<1>5. CallInv(c)'
  <2>1. input'[c].typed = s /\ input'[c].email = EmailOf[s] /\ input'[c].password = p
    BY <1>1
  <2>2. \/ pc'[c] = "done" /\ answer'[c] \in {"invalid_email", "weak_password", "invalid_credentials"}
        \/ pc'[c] = "create" /\ answer'[c] = "none" /\ EmailOf[s] # Invalid /\ p \notin Weak
        \/ pc'[c] = "find" /\ answer'[c] = "none" /\ EmailOf[s] # Invalid
    BY <1>1 DEF AnswerWith, Go, TypeOK, CallInv
  <2> QED
    BY <1>3, <2>1, <2>2 DEF CallInv, Normalised
<1>6. users' \subseteq {u \in Users : u.password \notin Weak} /\ OneAccount'
  BY <1>1 DEF TypeOK, OneAccount
<1> QED
  BY <1>1, <1>2, <1>4, <1>5, <1>6, CallStep

(* The unique column keeps one account; the other columns are typed.       *)
LEMMA CreatePreserves ==
    ASSUME AccessInv, NEW c \in Calls, Create(c)
    PROVE  AccessInv'
<1> USE DEF AccessInv
<1>1. /\ pc[c] = "create" /\ UNCHANGED <<now, issued, cache, input>>
      /\ \/ /\ Found(input[c].email) = {} /\ users' = users \cup {Row(c)}
            /\ AnswerWith(c, "created") \/ AnswerWith(c, "internal_error")
         \/ users' = users /\ AnswerWith(c, "email_taken")
  BY DEF Create
<1>2. /\ Moves(c)
      /\ pc' \in [Calls -> Steps] /\ answer' \in [Calls -> Codes] /\ input' \in [Calls -> Inputs]
  BY <1>1 DEF Moves, AnswerWith, TypeOK, Steps, Codes
<1>3. Row(c) \in {u \in Users : u.password \notin Weak} /\ Row(c).email = input[c].email
  BY <1>1 DEF CallInv, Normalised, Row, Users
<1>4. users' \subseteq {u \in Users : u.password \notin Weak}
  BY <1>1, <1>3 DEF TypeOK
<1>5. OneAccount'
  BY <1>1, <1>3 DEF OneAccount, Found
<1>6. CallInv(c)'
  <2>1. pc'[c] = "done" /\ input'[c] = input[c] /\ Normalised(c)
    BY <1>1 DEF AnswerWith, TypeOK, CallInv
  <2>2. answer'[c] \in {"created", "internal_error", "email_taken"}
        /\ (answer'[c] = "created" => users' = users \cup {Row(c)})
    BY <1>1 DEF AnswerWith, TypeOK
  <2> QED
    BY <2>1, <2>2 DEF CallInv, Normalised, Row
<1> QED
  BY <1>1, <1>2, <1>4, <1>5, <1>6, CallStep

(* A token is prepared only for the account with that address and password. *)
LEMMA FindPreserves ==
    ASSUME AccessInv, NEW c \in Calls, FindByEmail(c) \/ CallFails(c)
    PROVE  AccessInv'
<1> USE DEF AccessInv
<1> DEFINE Claims(u) == [id |-> u.id, email |-> u.email, exp |-> 0]
<1>1. /\ pc[c] \in {"create", "find"} /\ UNCHANGED <<users, now, issued, cache>>
      /\ \/ /\ AnswerWith(c, "invalid_credentials") \/ AnswerWith(c, "internal_error")
            /\ input' = input
         \/ \E u \in users : /\ u.password = input[c].password
                             /\ Go(c, "issue")
                             /\ input' = [input EXCEPT ![c].token = Claims(u)]
  BY DEF FindByEmail, CallFails, Found
<1>2. /\ Moves(c)
      /\ pc' \in [Calls -> Steps] /\ answer' \in [Calls -> Codes]
  BY <1>1 DEF Moves, AnswerWith, Go, TypeOK, Steps, Codes
<1>3. \A u \in users : Claims(u) \in [id : Calls, email : Emails, exp : 0..(MaxTime + Ttl)]
  BY AccessAssumption DEF TypeOK, Users
<1>4. input' \in [Calls -> Inputs]
  BY <1>1, <1>3 DEF Inputs
<1>5. CallInv(c)'
  <2>1. CASE \E u \in users : /\ u.password = input[c].password
                              /\ Go(c, "issue")
                              /\ input' = [input EXCEPT ![c].token = Claims(u)]
    <3>1. PICK u \in users : /\ u.password = input[c].password
                             /\ Go(c, "issue")
                             /\ input' = [input EXCEPT ![c].token = Claims(u)]
      BY <2>1
    <3>2. input'[c].token = Claims(u) /\ input'[c].password = u.password
      BY <3>1 DEF Inputs
    <3>3. u = [id |-> u.id, email |-> u.email, password |-> u.password]
      BY DEF TypeOK, Users
    <3>4. HasAccount(c)'
      BY <1>1, <3>2, <3>3 DEF HasAccount
    <3>5. pc'[c] = "issue" /\ answer'[c] = "none"
      BY <1>1, <3>1 DEF Go, TypeOK, CallInv
    <3> QED
      BY <3>4, <3>5 DEF CallInv
  <2>2. CASE /\ AnswerWith(c, "invalid_credentials") \/ AnswerWith(c, "internal_error")
             /\ input' = input
    <3>1. pc'[c] = "done" /\ answer'[c] \in {"invalid_credentials", "internal_error"}
      BY <2>2 DEF AnswerWith, TypeOK
    <3> QED
      BY <3>1 DEF CallInv
  <2> QED
    BY <1>1, <2>1, <2>2
<1>6. users' \subseteq {u \in Users : u.password \notin Weak} /\ OneAccount'
  BY <1>1 DEF TypeOK, OneAccount
<1> QED
  BY <1>1, <1>2, <1>4, <1>5, <1>6, CallStep

(* A token of the account that presented its password, with the expiration *)
(* rounded down to a whole second.                                         *)
LEMMA IssuePreserves ==
    ASSUME AccessInv, NEW c \in Calls, Issue(c)
    PROVE  AccessInv'
<1> USE DEF AccessInv
<1> DEFINE token == [input[c].token EXCEPT !.exp = NumericDate(now + Ttl)]
           claims == [id : Calls \cup {"none"}, email : Emails \cup {"none"},
                      exp : 0..(MaxTime + Ttl)]
<1>1. /\ pc[c] = "issue" /\ UNCHANGED <<users, now, cache>>
      /\ input' = [input EXCEPT ![c].token = token]
      /\ issued' = issued \cup {[token |-> token, at |-> now]}
      /\ AnswerWith(c, "token")
  BY DEF Issue
<1>2. now \in Nat /\ now <= MaxTime /\ now + Ttl \in Nat
  BY AccessAssumption DEF TypeOK
<1>3. /\ NumericDate(now + Ttl) \in 0..(now + Ttl)
      /\ now + Ttl < NumericDate(now + Ttl) + Second
  BY <1>2, NumericDateBounds
<1>4. NumericDate(now + Ttl) \in 0..(MaxTime + Ttl)
  BY <1>2, <1>3, AccessAssumption
<1>5. input[c].token \in claims /\ input[c] \in Inputs
  BY DEF Inputs
<1>6. /\ token \in claims
      /\ token.id = input[c].token.id /\ token.email = input[c].token.email
      /\ token.exp = NumericDate(now + Ttl)
  BY <1>4, <1>5
<1>7. input'[c].token = token /\ input'[c].password = input[c].password
  BY <1>1, <1>5 DEF Inputs
<1>8. HasAccount(c) /\ token.id \in Calls /\ token.email \in Emails
  BY <1>1, <1>6 DEF CallInv, HasAccount, TypeOK, Users
<1>9. token \in Tokens
  BY <1>4, <1>6, <1>8 DEF Tokens
<1> HIDE DEF token
<1>10. input' \in [Calls -> Inputs]
  <2>1. [input[c] EXCEPT !.token = token] \in Inputs
    BY <1>5, <1>6 DEF Inputs
  <2> QED
    BY <1>1, <2>1
<1>11. Moves(c) /\ pc' \in [Calls -> Steps] /\ answer' \in [Calls -> Codes]
  BY <1>1 DEF Moves, AnswerWith, TypeOK, Steps, Codes
<1>12. pc'[c] = "done" /\ answer'[c] = "token"
  BY <1>1 DEF AnswerWith, TypeOK
<1>13. \A d \in Calls : CallInv(d)'
  <2>1. CallInv(c)'
    BY <1>1, <1>6, <1>7, <1>8, <1>12 DEF CallInv, HasAccount
  <2> QED
    BY <1>11, <2>1, OthersStay
<1>14. IssuedInv'
  <2>1. \E d \in Calls : answer'[d] = "token" /\ input'[d].token = token
    BY <1>7, <1>12
  <2>2. \A t : MadeByLogin(t) => MadeByLogin(t)'
    BY <1>11, OthersStay
  <2>3. ASSUME NEW i \in issued
        PROVE  /\ \E d \in Calls : answer'[d] = "token" /\ input'[d].token = i.token
               /\ i.token.exp <= i.at + Ttl /\ i.at + Ttl < i.token.exp + Second
    BY <2>2 DEF IssuedInv, MadeByLogin
  <2>4. token.exp <= now + Ttl /\ now + Ttl < token.exp + Second
    BY <1>2, <1>3, <1>6, AccessAssumption
  <2>5. \A i \in issued' :
           /\ \E d \in Calls : answer'[d] = "token" /\ input'[d].token = i.token
           /\ i.token.exp <= i.at + Ttl /\ i.at + Ttl < i.token.exp + Second
    BY <1>1, <2>1, <2>3, <2>4
  <2> QED
    BY <2>5 DEF IssuedInv, MadeByLogin
<1>15. TypeOK' /\ CacheInv' /\ OneAccount'
  <2>1. issued' \subseteq [token : Tokens, at : 0..MaxTime]
    BY <1>1, <1>9 DEF TypeOK
  <2>2. TypeOK'
    BY <1>1, <1>11, <2>1 DEF TypeOK
  <2> QED
    BY <1>1, <2>2 DEF CacheInv, OneAccount
<1> QED
  BY <1>10, <1>13, <1>14, <1>15

(* The gateway serves a token from its cache or asks the authorizer.       *)
LEMMA RequestPreserves ==
    ASSUME AccessInv, NEW c \in Calls, NEW i \in issued,
           ServeCached(c, i.token) \/ Authorize(c, i.token)
    PROVE  AccessInv'
<1> USE DEF AccessInv
<1>1. /\ pc[c] = "new" /\ UNCHANGED <<users, now, issued>>
      /\ input' = [input EXCEPT ![c] = [NoInput EXCEPT !.kind = "request", !.token = i.token]]
      /\ AnswerWith(c, "served") \/ AnswerWith(c, "unauthorized")
      /\ \/ cache' = cache
         \/ /\ now < i.token.exp
            /\ cache' = {e \in cache : e.token # i.token}
                           \cup {[token |-> i.token, until |-> now + CacheTtl]}
  BY DEF ServeCached, Authorize, Request, Verify
<1>2. i.token \in Tokens /\ now \in Nat /\ now <= MaxTime
  BY AccessAssumption DEF TypeOK
<1>3. [NoInput EXCEPT !.kind = "request", !.token = i.token] \in Inputs
  BY <1>2 DEF NoInput, Inputs, Tokens
<1>4. input' \in [Calls -> Inputs] /\ input'[c].token = i.token
  BY <1>1, <1>3 DEF NoInput
<1>5. Moves(c) /\ pc' \in [Calls -> Steps] /\ answer' \in [Calls -> Codes]
  BY <1>1 DEF Moves, AnswerWith, TypeOK, Steps, Codes
<1>6. \A t : MadeByLogin(t) => MadeByLogin(t)'
  BY <1>5, OthersStay
<1>7. \A d \in Calls : CallInv(d)'
  <2>1. pc'[c] = "done" /\ answer'[c] \in {"served", "unauthorized"}
    BY <1>1 DEF AnswerWith, TypeOK
  <2>2. MadeByLogin(input[c].token)'
    BY <1>4, <1>6 DEF IssuedInv, MadeByLogin
  <2>3. CallInv(c)'
    BY <2>1, <2>2 DEF CallInv
  <2> QED
    BY <1>5, <2>3, OthersStay
<1>8. IssuedInv' /\ OneAccount'
  BY <1>1, <1>6 DEF IssuedInv, OneAccount
<1>9. CacheInv' /\ TypeOK'
  <2>1. CASE cache' = cache
    BY <1>1, <1>5, <2>1 DEF CacheInv, TypeOK
  <2>2. CASE /\ now < i.token.exp
             /\ cache' = {e \in cache : e.token # i.token}
                            \cup {[token |-> i.token, until |-> now + CacheTtl]}
    <3> DEFINE entry == [token |-> i.token, until |-> now + CacheTtl]
    <3>1. /\ entry \in [token : Tokens, until : 0..(MaxTime + CacheTtl)]
          /\ entry.until < entry.token.exp + CacheTtl
      BY <1>2, <2>2, AccessAssumption DEF Tokens
    <3>2. cache' \subseteq cache \cup {entry}
      BY <2>2
    <3> HIDE DEF entry
    <3>3. CacheInv'
      BY <3>1, <3>2 DEF CacheInv
    <3> QED
      BY <1>1, <1>5, <3>1, <3>2, <3>3 DEF TypeOK
  <2> QED
    BY <1>1, <2>1, <2>2
<1> QED
  BY <1>4, <1>7, <1>8, <1>9

LEMMA AccessNext == AccessInv /\ [Next]_vars => AccessInv'
<1> SUFFICES ASSUME AccessInv, [Next]_vars PROVE AccessInv'
  OBVIOUS
<1> USE DEF AccessInv
<1>1. ASSUME UNCHANGED <<users, issued, cache, pc, input, answer>>, now' \in 0..MaxTime
      PROVE  AccessInv'
  <2>1. \A c \in Calls : CallInv(c)'
    BY <1>1 DEF CallInv, Normalised, HasAccount, Row, MadeByLogin
  <2>2. IssuedInv' /\ CacheInv' /\ OneAccount'
    BY <1>1 DEF IssuedInv, CacheInv, OneAccount, MadeByLogin
  <2> QED
    BY <1>1, <2>1, <2>2 DEF TypeOK
<1>2. CASE Tick
  BY <1>1, <1>2, AccessAssumption DEF Tick, TypeOK
<1>3. CASE UNCHANGED vars
  BY <1>1, <1>3 DEF vars, TypeOK
<1> QED
  BY <1>2, <1>3, SignUpPreserves, CreatePreserves, FindPreserves, IssuePreserves,
     RequestPreserves DEF Next

THEOREM AccessInvariant == Spec => []AccessInv
BY AccessInit, AccessNext, PTL DEF Spec

-----------------------------------------------------------------------------
(* The properties. *)

(* Stored addresses are normalised and stored passwords are not weak.      *)
THEOREM AccessTyped == Spec => []TypeOK
<1>1. AccessInv => TypeOK
  BY DEF AccessInv
<1> QED
  BY <1>1, AccessInvariant, PTL

(* However many sign-ups race, an address has one account, and a call that *)
(* was told "created" has it.                                              *)
THEOREM AccountsAreUnique == Spec => []OneAccountPerEmail
<1>1. AccessInv => OneAccountPerEmail
  BY DEF AccessInv, CallInv, OneAccount, OneAccountPerEmail
<1> QED
  BY <1>1, AccessInvariant, PTL

(* The identity that is served, cached or not, is the account whose        *)
(* password was presented at the login that made the token.                *)
THEOREM IdentityIsTrue == Spec => []ServedIsTheAccount
<1>1. AccessInv => ServedIsTheAccount
  <2> SUFFICES ASSUME AccessInv, NEW c \in Calls, answer[c] = "served"
               PROVE  \E d \in Calls :
                         /\ answer[d] = "token"
                         /\ input[d].token = input[c].token
                         /\ [id |-> input[c].token.id, email |-> input[c].token.email,
                             password |-> input[d].password] \in users
    BY DEF ServedIsTheAccount
  <2>1. PICK d \in Calls : answer[d] = "token" /\ input[d].token = input[c].token
    BY DEF AccessInv, CallInv, MadeByLogin
  <2>2. HasAccount(d)
    BY <2>1 DEF AccessInv, CallInv
  <2> QED
    BY <2>1, <2>2 DEF HasAccount
<1> QED
  BY <1>1, AccessInvariant, PTL

(* Whoever is answered has taken the step.                                 *)
LEMMA AnswerStep ==
    ASSUME AccessInv, Next, NEW c \in Calls, answer'[c] # answer[c]
    PROVE  \/ \E s \in Spellings, p \in Passwords : SignUp(c, s, p) \/ Login(c, s, p)
           \/ Create(c) \/ FindByEmail(c) \/ Issue(c) \/ CallFails(c)
           \/ \E i \in issued : ServeCached(c, i.token) \/ Authorize(c, i.token)
<1> DEFINE Step(d) ==
           \/ \E s \in Spellings, p \in Passwords : SignUp(d, s, p) \/ Login(d, s, p)
           \/ Create(d) \/ FindByEmail(d) \/ Issue(d) \/ CallFails(d)
           \/ \E i \in issued : ServeCached(d, i.token) \/ Authorize(d, i.token)
<1>1. PICK d \in Calls : Step(d)
  BY DEF Next, Tick
<1>2. \E code : answer' = [answer EXCEPT ![d] = code] \/ answer' = answer
  BY <1>1 DEF SignUp, Login, Create, FindByEmail, Issue, CallFails, ServeCached, Authorize,
              AnswerWith, Go
<1>3. d = c
  BY <1>2 DEF AccessInv, TypeOK
<1> QED
  BY <1>1, <1>3

(* A login is refused only if its address and password are those of no     *)
(* sign-up that was answered "created", however the address was typed.     *)
THEOREM SpellingsLogIn == Spec => EverySpellingLogsIn
<1> DEFINE Refused == \A c, d \in Calls :
           /\ pc[c] = "find"
           /\ answer'[c] = "invalid_credentials"
           /\ answer[d] = "created"
           /\ EmailOf[input[c].typed] = EmailOf[input[d].typed]
           => input[c].password # input[d].password
<1>1. AccessInv /\ [Next]_vars => [Refused]_vars
  <2> SUFFICES ASSUME AccessInv, Next, NEW c \in Calls, NEW d \in Calls,
                      pc[c] = "find", answer'[c] = "invalid_credentials", answer[d] = "created",
                      EmailOf[input[c].typed] = EmailOf[input[d].typed]
               PROVE  input[c].password # input[d].password
    OBVIOUS
  <2>1. answer[c] = "none" /\ answer \in [Calls -> Codes]
    BY DEF AccessInv, CallInv, TypeOK
  <2>2. FindByEmail(c)
    BY <2>1, AnswerStep DEF SignUp, Login, Create, Issue, CallFails, ServeCached, Authorize,
                            Request, AnswerWith
  <2>3. Normalised(c) /\ Normalised(d) /\ Row(d) \in users
    BY DEF AccessInv, CallInv
  <2>4. Row(d) \in Found(input[c].email)
    BY <2>3 DEF Normalised, Row, Found
  <2>5. PICK u \in Found(input[c].email) : u.password # input[c].password
    BY <2>1, <2>2, <2>4 DEF FindByEmail, Go
  <2>6. u = Row(d)
    BY <2>4, <2>5 DEF AccessInv, OneAccount, Found
  <2> QED
    BY <2>5, <2>6 DEF Row
<1> QED
  BY <1>1, AccessInvariant, PTL DEF Spec, EverySpellingLogsIn

(* A token is refused only in the last second of its time to live or       *)
(* later, and served, cached or not, for at most CacheTtl longer.          *)
THEOREM SessionsEndInTime == Spec => SessionsEnd
<1> DEFINE InTime == \A c \in Calls : pc[c] = "new" =>
           \A i \in issued : i.token = input'[c].token =>
               /\ answer'[c] = "served" => now < i.at + Ttl + CacheTtl
               /\ answer'[c] = "unauthorized" => now > i.at + Ttl - Second
<1>1. AccessInv /\ [Next]_vars => [InTime]_vars
  <2> SUFFICES ASSUME AccessInv, Next, NEW c \in Calls, pc[c] = "new",
                      NEW i \in issued, i.token = input'[c].token
               PROVE  /\ answer'[c] = "served" => now < i.at + Ttl + CacheTtl
                      /\ answer'[c] = "unauthorized" => now > i.at + Ttl - Second
    OBVIOUS
  <2>1. /\ answer[c] = "none" /\ answer \in [Calls -> Codes]
        /\ i.token.exp <= i.at + Ttl /\ i.at + Ttl < i.token.exp + Second
        /\ now \in Nat /\ i.at \in Nat /\ i.token.exp \in Nat
        /\ Ttl \in Nat /\ CacheTtl \in Nat /\ Second \in Nat
    BY AccessAssumption DEF AccessInv, CallInv, TypeOK, IssuedInv, Tokens
  <2>2. CASE answer'[c] \notin {"served", "unauthorized"}
    BY <2>2
  <2>3. CASE answer'[c] \in {"served", "unauthorized"}
    <3>1. PICK j \in issued : ServeCached(c, j.token) \/ Authorize(c, j.token)
      BY <2>1, <2>3, AnswerStep DEF SignUp, Login, Create, FindByEmail, Issue, CallFails,
                                    AnswerWith, Go
    <3>2. j.token = i.token
      BY <3>1 DEF ServeCached, Authorize, Request, AccessInv, NoInput
    <3>3. \/ answer'[c] = "served" /\ Cached(i.token)
          \/ answer'[c] = "served" /\ Verify(i.token)
          \/ answer'[c] = "unauthorized" /\ ~ Verify(i.token)
      BY <2>1, <3>1, <3>2 DEF ServeCached, Authorize, AnswerWith
    <3>4. Cached(i.token) => now < i.token.exp + CacheTtl
      <4>1. \A e \in cache : e.until \in Nat /\ e.token.exp \in Nat
                             /\ e.until < e.token.exp + CacheTtl
        BY AccessAssumption DEF AccessInv, CacheInv, TypeOK, Tokens
      <4> QED
        BY <2>1, <4>1 DEF Cached
    <3> QED
      BY <2>1, <3>3, <3>4 DEF Verify
  <2> QED
    BY <2>2, <2>3
<1> QED
  BY <1>1, AccessInvariant, PTL DEF Spec, SessionsEnd
=============================================================================
