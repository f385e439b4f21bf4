------------------------------- MODULE Access -------------------------------
(***************************************************************************)
(* Who may use the platform: sign-up, login and JWT of video-processor-auth, *)
(* the Lambda authorizer, and the API gateway that caches its answers and   *)
(* tells video-processor-api who is calling.                                *)
(*                                                                         *)
(* Any number of calls run at once.  A call validates its input, makes one *)
(* database call, and a login signs its token at a later instant: the      *)
(* clock may move between any two of these.  A password hash is modelled   *)
(* by the password that matches it, a token by its claims.                 *)
(***************************************************************************)
EXTENDS Integers

CONSTANTS
    Spellings,     \* e-mail addresses as people type them
    EmailOf,       \* NormalizeEmail: the address of each, or Invalid
    Invalid,
    Passwords,
    Weak,          \* passwords under MinPasswordLength
    Calls,         \* HTTP requests; the id of a User is its call
    Ttl,           \* TOKEN_TTL
    CacheTtl,      \* authorizer_result_ttl_in_seconds
    Second,        \* clock ticks in a second, all durations are in ticks
    MaxTime        \* bound of the model: the last instant of the clock

ASSUME AccessAssumption ==
    /\ Weak \subseteq Passwords
    /\ Second \in Nat \ {0}
    /\ Ttl \in Nat /\ CacheTtl \in Nat /\ MaxTime \in Nat
    /\ Ttl > Second

VARIABLES
    users,      \* the "user" table
    now,        \* the clock
    issued,     \* history: tokens and the instant each was signed
    cache,      \* authorizer answers the gateway keeps, and until when
    pc,         \* the step a call makes next
    input,      \* what it asks
    answer      \* what it answered

vars == <<users, now, issued, cache, pc, input, answer>>

Emails == {EmailOf[s] : s \in Spellings} \ {Invalid}
Users == [id : Calls, email : Emails, password : Passwords]
Tokens == [id : Calls, email : Emails, exp : 0..(MaxTime + Ttl)]
Steps == {"new", "create", "find", "issue", "done"}
Codes == {"none", "created", "invalid_email", "weak_password", "email_taken",
          "invalid_credentials", "token", "served", "unauthorized", "internal_error"}

Nobody == [id |-> "none", email |-> "none", exp |-> 0]
NoInput == [kind |-> "none", typed |-> Invalid, email |-> Invalid, password |-> "none",
            token |-> Nobody]

Init ==
    /\ users = {}
    /\ now = 0
    /\ issued = {}
    /\ cache = {}
    /\ pc = [c \in Calls |-> "new"]
    /\ input = [c \in Calls |-> NoInput]
    /\ answer = [c \in Calls |-> "none"]

AnswerWith(c, code) ==
    /\ pc' = [pc EXCEPT ![c] = "done"]
    /\ answer' = [answer EXCEPT ![c] = code]

Go(c, to) ==
    /\ pc' = [pc EXCEPT ![c] = to]
    /\ UNCHANGED answer

Found(email) == {u \in users : u.email = email}

-----------------------------------------------------------------------------
(* Sign-up and login. *)

(* Mutant of SignUp: the address is stored as it was typed.                *)
SignUpAsTyped(c, s, p) ==
    /\ pc[c] = "new"
    /\ input' = [input EXCEPT ![c] = [kind |-> "signup", typed |-> s, email |-> s,
                                      password |-> p, token |-> Nobody]]
    /\ \/ EmailOf[s] = Invalid /\ AnswerWith(c, "invalid_email")
       \/ EmailOf[s] # Invalid /\ p \in Weak /\ AnswerWith(c, "weak_password")
       \/ EmailOf[s] # Invalid /\ p \notin Weak /\ Go(c, "create")
    /\ UNCHANGED <<users, now, issued, cache>>

(* The validations of SignUp, before its database call. *)
SignUp(c, s, p) ==
    /\ pc[c] = "new"
    /\ input' = [input EXCEPT ![c] = [kind |-> "signup", typed |-> s, email |-> EmailOf[s],
                                      password |-> p, token |-> Nobody]]
    /\ \/ EmailOf[s] = Invalid /\ AnswerWith(c, "invalid_email")
       \/ EmailOf[s] # Invalid /\ p \in Weak /\ AnswerWith(c, "weak_password")
       \/ EmailOf[s] # Invalid /\ p \notin Weak /\ Go(c, "create")
    /\ UNCHANGED <<users, now, issued, cache>>

Row(c) == [id |-> c, email |-> input[c].email, password |-> input[c].password]

(* Mutant of Create: the column is not unique.                             *)
CreateAnyway(c) ==
    /\ pc[c] = "create"
    /\ users' = users \cup {Row(c)}
    /\ AnswerWith(c, "created")
    /\ UNCHANGED <<now, issued, cache, input>>

(* One INSERT into a table whose e-mail is unique; its answer may be lost. *)
Create(c) ==
    /\ pc[c] = "create"
    /\ \/ /\ Found(input[c].email) = {}
          /\ users' = users \cup {Row(c)}
          /\ AnswerWith(c, "created") \/ AnswerWith(c, "internal_error")
       \/ /\ Found(input[c].email) # {}
          /\ AnswerWith(c, "email_taken")
          /\ UNCHANGED users
    /\ UNCHANGED <<now, issued, cache, input>>

(* Login does not tell an invalid address from a wrong password. *)
Login(c, s, p) ==
    /\ pc[c] = "new"
    /\ input' = [input EXCEPT ![c] = [kind |-> "login", typed |-> s, email |-> EmailOf[s],
                                      password |-> p, token |-> Nobody]]
    /\ \/ EmailOf[s] = Invalid /\ AnswerWith(c, "invalid_credentials")
       \/ EmailOf[s] # Invalid /\ Go(c, "find")
    /\ UNCHANGED <<users, now, issued, cache>>

(* Mutant of FindByEmail: the password is not compared.                    *)
FindByEmailOnly(c) ==
    /\ pc[c] = "find"
    /\ \/ /\ Found(input[c].email) = {}
          /\ AnswerWith(c, "invalid_credentials")
          /\ UNCHANGED input
       \/ \E u \in Found(input[c].email) :
             /\ Go(c, "issue")
             /\ input' = [input EXCEPT ![c].token = [id |-> u.id, email |-> u.email, exp |-> 0]]
    /\ UNCHANGED <<users, now, issued, cache>>

FindByEmail(c) ==
    /\ pc[c] = "find"
    /\ \/ /\ Found(input[c].email) = {}
          /\ AnswerWith(c, "invalid_credentials")
          /\ UNCHANGED input
       \/ \E u \in Found(input[c].email) :
             \/ /\ u.password # input[c].password
                /\ AnswerWith(c, "invalid_credentials")
                /\ UNCHANGED input
             \/ /\ u.password = input[c].password
                /\ Go(c, "issue")
                /\ input' = [input EXCEPT ![c].token = [id |-> u.id, email |-> u.email, exp |-> 0]]
    /\ UNCHANGED <<users, now, issued, cache>>

(* The claims of a JWT hold whole seconds: NewNumericDate drops the rest.  *)
NumericDate(t) == (t \div Second) * Second

Issue(c) ==
    /\ pc[c] = "issue"
    /\ LET token == [input[c].token EXCEPT !.exp = NumericDate(now + Ttl)]
       IN  /\ input' = [input EXCEPT ![c].token = token]
           /\ issued' = issued \cup {[token |-> token, at |-> now]}
    /\ AnswerWith(c, "token")
    /\ UNCHANGED <<users, now, cache>>

CallFails(c) ==
    /\ pc[c] \in {"create", "find"}
    /\ AnswerWith(c, "internal_error")
    /\ UNCHANGED <<users, now, issued, cache, input>>

-----------------------------------------------------------------------------
(* A request on a protected route, with a Bearer token that was issued. *)

Cached(token) == \E e \in cache : e.token = token /\ now < e.until

(* Mutant of Verify: the expiration is not checked.                        *)
VerifySignature(token) == token.exp >= 0

(* Verify: the authorizer accepts a signed token until the instant of exp. *)
Verify(token) == now < token.exp

Request(c, token) ==
    /\ pc[c] = "new"
    /\ input' = [input EXCEPT ![c] = [NoInput EXCEPT !.kind = "request", !.token = token]]

(* The gateway holds an answer for this token: nothing is verified. *)
ServeCached(c, token) ==
    /\ Request(c, token)
    /\ Cached(token)
    /\ AnswerWith(c, "served")
    /\ UNCHANGED <<users, now, issued, cache>>

Authorize(c, token) ==
    /\ Request(c, token)
    /\ ~ Cached(token)
    /\ \/ /\ Verify(token)
          /\ cache' = {e \in cache : e.token # token}
                        \cup {[token |-> token, until |-> now + CacheTtl]}
          /\ AnswerWith(c, "served")
       \/ /\ ~ Verify(token)
          /\ AnswerWith(c, "unauthorized")
          /\ UNCHANGED cache
    /\ UNCHANGED <<users, now, issued>>

Tick ==
    /\ now < MaxTime
    /\ now' = now + 1
    /\ UNCHANGED <<users, issued, cache, pc, input, answer>>

-----------------------------------------------------------------------------
Next ==
    \/ Tick
    \/ \E c \in Calls :
          \/ \E s \in Spellings, p \in Passwords : SignUp(c, s, p) \/ Login(c, s, p)
          \/ Create(c)
          \/ FindByEmail(c)
          \/ Issue(c)
          \/ CallFails(c)
          \/ \E i \in issued : ServeCached(c, i.token) \/ Authorize(c, i.token)

Spec == Init /\ [][Next]_vars

-----------------------------------------------------------------------------
(* Properties. *)

(* Types: stored addresses are normalised, stored passwords are not weak.  *)
TypeOK ==
    /\ users \subseteq {u \in Users : u.password \notin Weak}
    /\ now \in 0..MaxTime
    /\ issued \subseteq [token : Tokens, at : 0..MaxTime]
    /\ cache \subseteq [token : Tokens, until : 0..(MaxTime + CacheTtl)]
    /\ pc \in [Calls -> Steps]
    /\ answer \in [Calls -> Codes]

(* However many sign-ups race, an address has one account, and a call that *)
(* was told "created" is the one that has it.                              *)
OneAccountPerEmail ==
    /\ \A u, v \in users : u.email = v.email => u = v
    /\ \A c \in Calls : answer[c] = "created" => Row(c) \in users

(* An account opened under one spelling of an address opens under every    *)
(* other: a login is refused only if no sign-up that was answered          *)
(* "created" has the same normalised address and the same password.        *)
EverySpellingLogsIn ==
    [][\A c, d \in Calls :
           /\ pc[c] = "find"
           /\ answer'[c] = "invalid_credentials"
           /\ answer[d] = "created"
           /\ EmailOf[input[c].typed] = EmailOf[input[d].typed]
           => input[c].password # input[d].password]_vars

(* The identity the gateway hands to the api, cached or not, is the        *)
(* account whose password was presented at the login that made the token.  *)
ServedIsTheAccount ==
    \A c \in Calls : answer[c] = "served" =>
        \E d \in Calls :
            /\ answer[d] = "token"
            /\ input[d].token = input[c].token
            /\ [id |-> input[c].token.id, email |-> input[c].token.email,
                password |-> input[d].password] \in users

(* A token lives as long as it should: it is refused only in the last      *)
(* second of TOKEN_TTL or later, and, with the cache of the gateway, is    *)
(* served for at most CacheTtl after TOKEN_TTL has passed.                 *)
SessionsEnd ==
    [][\A c \in Calls : pc[c] = "new" =>
           \A i \in issued : i.token = input'[c].token =>
               /\ answer'[c] = "served" => now < i.at + Ttl + CacheTtl
               /\ answer'[c] = "unauthorized" => now > i.at + Ttl - Second]_vars
=============================================================================
