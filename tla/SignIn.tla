--------------------------------- MODULE SignIn ---------------------------------
(***************************************************************************)
(* Sign-in and sign-up (store_auth.go, getOrCreateUserLocked and           *)
(* syncUserOIDCIdentityLocked of store_user_team.go): the start of an      *)
(* attempt, the callback from the identity provider, the exchange of the   *)
(* code it hands out for a session, and signing out.  No transaction is    *)
(* opened: every statement commits by itself.  s.mu serialises the part of *)
(* the callbacks that creates users, within one server.  Attempts,         *)
(* callbacks and exchanges are numbered in the order they arrive; a code   *)
(* is named after its callback, a session after its exchange.              *)
(***************************************************************************)
EXTENDS Naturals

CONSTANTS
  Person, Nobody,    \* identities: issuer and subject
  Email, EmailOf,    \* the address the provider tells of an identity
  Mocked,            \* identities that mock parameters name, without a provider
  AllowLists,        \* values of SIGNUP_ALLOWED_EMAILS; all of Email stands
                     \*   for a guard that is off
  Server, NoServer,  \* processes of the backend
  MaxAttempts,       \* bound: sign-ins that are started
  MaxCallbacks,      \* bound: requests of GET /v1/auth/google/callback
  MaxExchanges,      \* bound: requests of POST /v1/auth/sessions/exchange
  MaxFailures        \* bound: statements that fail, requests that are cut off

Attempt == 1..MaxAttempts
Callback == 1..MaxCallbacks
Exchange == 1..MaxExchanges
NoAttempt == 0
NoCallback == 0

ASSUME SignInAssumption ==
  /\ EmailOf \in [Person -> Email]
  /\ AllowLists \subseteq SUBSET Email /\ Email \in AllowLists
  /\ Mocked \subseteq Person
  /\ Nobody \notin Person
  /\ MaxAttempts \in Nat /\ MaxCallbacks \in Nat /\ MaxExchanges \in Nat
  /\ MaxFailures \in Nat

VARIABLES
  allowed,    \* SIGNUP_ALLOWED_EMAILS
  users,      \* users: the addresses that have a row
  linked,     \* linked[e]: users.oidc_issuer and oidc_subject, or Nobody
  teams,      \* teams, each named after the callback that created it
  member,     \* member[e]: the team of the user in team_members, or 0
  request,    \* request[a]: the row of oauth_auth_requests
  pc, of, who, at, \* pc[c], of[c], who[c], at[c]: the statement callback c
              \*   executes next, the attempt it is about, whom its parameters
              \*   stand for, the server that runs it
  holder,     \* holder[s]: the callback that holds s.mu, or 0
  code,       \* code[c]: the row of oauth_exchange_codes
  xpc, xcode, \* xpc[x], xcode[x]: the same for exchange x, and its code
  sessions,   \* sessions
  veteran,    \* history: callbacks of people admitted before they arrived
  loose,      \* history: attempts whose request was read by a second callback
              \*   before the first one deleted it, or whose deletion failed
  shared,     \* history: codes checked by two exchanges before one used them
  failures    \* history: how many statements have failed

accountVars == <<users, linked, teams, member>>
callbackVars == <<pc, of, who, at, holder, veteran, loose>>
exchangeVars == <<xpc, xcode, sessions, shared>>
vars == <<allowed, accountVars, request, callbackVars, code, exchangeVars, failures>>

Refused == {"forbidden", "taken", "invalid", "failed"}
TypeOK ==
  /\ allowed \in AllowLists
  /\ users \subseteq Email
  /\ linked \in [Email -> Person \cup {Nobody}]
  /\ teams \subseteq Callback
  /\ member \in [Email -> Callback \cup {NoCallback}]
  /\ request \in [Attempt -> {"none", "open", "expired", "deleted"}]
  /\ pc \in [Callback -> {"new", "delete", "verify", "lock", "create", "team",
                          "member", "link", "issue", "done"} \cup Refused]
  /\ of \in [Callback -> Attempt \cup {NoAttempt}]
  /\ who \in [Callback -> Person \cup {Nobody}]
  /\ at \in [Callback -> Server \cup {NoServer}]
  /\ holder \in [Server -> Callback \cup {NoCallback}]
  /\ code \in [Callback -> {"none", "fresh", "used", "expired"}]
  /\ xpc \in [Exchange -> {"new", "consume", "create", "done", "refused"}]
  /\ xcode \in [Exchange -> Callback \cup {NoCallback}]
  /\ sessions \subseteq Exchange
  /\ veteran \subseteq Callback
  /\ loose \subseteq Attempt
  /\ shared \subseteq Callback
  /\ failures \in 0..MaxFailures

Init ==
  /\ allowed = Email
  /\ users = {}
  /\ linked = [e \in Email |-> Nobody]
  /\ teams = {}
  /\ member = [e \in Email |-> NoCallback]
  /\ request = [a \in Attempt |-> "none"]
  /\ pc = [c \in Callback |-> "new"]
  /\ of = [c \in Callback |-> NoAttempt]
  /\ who = [c \in Callback |-> Nobody]
  /\ at = [c \in Callback |-> NoServer]
  /\ holder = [s \in Server |-> NoCallback]
  /\ code = [c \in Callback |-> "none"]
  /\ xpc = [x \in Exchange |-> "new"]
  /\ xcode = [x \in Exchange |-> NoCallback]
  /\ sessions = {}
  /\ veteran = {}
  /\ loose = {}
  /\ shared = {}
  /\ failures = 0

Address(c) == EmailOf[who[c]]
Admitted == {who[c] : c \in {d \in Callback : code[d] # "none"}}

Goto(c, step) == pc' = [pc EXCEPT ![c] = step]

--------------------------------------------------------------------------------
(* Statements                                                               *)

GetAuthRequest(a) == request[a]
InsertAuthRequest(a) == request' = [request EXCEPT ![a] = "open"]
DeleteAuthRequest(a) == request' = [request EXCEPT ![a] = "deleted"]

CreateUser(e) == users' = users \cup {e}

\* users_email_lower_uq: addresses are unique.
CanCreateUser(e) == e \notin users

CreateTeam(c) == teams' = teams \cup {c}

AddTeamMember(c, e) == member' = [member EXCEPT ![e] = c]

UpdateUserOIDCByID(e, p) == linked' = [linked EXCEPT ![e] = p]

\* isSignupAllowedEmail
IsSignupAllowed(e) == e \in allowed

\* GetUserByOIDC: the user an identity is linked to.
IsKnown(p) == linked[EmailOf[p]] = p

InsertExchangeCode(c) == code' = [code EXCEPT ![c] = "fresh"]

GetExchangeCode(c) == code[c]

\* Mutant: the code is left as it is.
ConsumeNothing(c) == UNCHANGED code

\* Mutant: the row is removed.
ConsumeRow(c) == code' = [code EXCEPT ![c] = "deleted"]

\* ConsumeExchangeCode: the number of rows it has changed is not looked at.
ConsumeExchangeCode(c) == code' = [code EXCEPT ![c] = "used"]

\* LookupSession: the middleware lets requests with the cookie of a session pass.
LookupSession(x) == x \in sessions

CreateSession(x) == sessions' = sessions \cup {x}
DeleteSession(x) == sessions' = sessions \ {x}

--------------------------------------------------------------------------------
(* What happens around the requests                                         *)

\* StartGoogleAuth
Start(a) ==
  /\ request[a] = "none" /\ \A b \in 1..(a - 1) : request[b] # "none"
  /\ InsertAuthRequest(a)
  /\ UNCHANGED <<allowed, accountVars, callbackVars, code, exchangeVars,
                 failures>>

\* The backend is started again with another list.
ChangeAllowList(list) ==
  /\ list # allowed
  /\ allowed' = list
  /\ UNCHANGED <<accountVars, request, callbackVars, code, exchangeVars,
                 failures>>

\* Ten minutes after its start an attempt has expired.
ExpireRequest(a) ==
  /\ request[a] = "open"
  /\ request' = [request EXCEPT ![a] = "expired"]
  /\ UNCHANGED <<allowed, accountVars, callbackVars, code, exchangeVars,
                 failures>>

\* Two minutes after it was handed out a code has expired.
ExpireCode(c) ==
  /\ code[c] = "fresh"
  /\ code' = [code EXCEPT ![c] = "expired"]
  /\ UNCHANGED <<allowed, accountVars, request, callbackVars, exchangeVars,
                 failures>>

--------------------------------------------------------------------------------
(* CompleteGoogleAuth                                                       *)

\* The callback reads its request.  An expired one is deleted and refused.  Each
\* callback brings parameters of its own, an authorization code or mock values:
\* two callbacks of one attempt may be about different people.
ReadRequest(c, a, p, s) ==
  /\ pc[c] = "new" /\ \A d \in 1..(c - 1) : pc[d] # "new"
  /\ request[a] # "none"
  /\ of' = [of EXCEPT ![c] = a]
  /\ who' = [who EXCEPT ![c] = p]
  /\ at' = [at EXCEPT ![c] = s]
  /\ veteran' = IF p \in Admitted THEN veteran \cup {c} ELSE veteran
  /\ CASE GetAuthRequest(a) = "open" ->
            /\ Goto(c, "delete")
            /\ loose' = IF \E d \in Callback : of[d] = a /\ pc[d] = "delete"
                        THEN loose \cup {a} ELSE loose
            /\ UNCHANGED request
       [] GetAuthRequest(a) = "expired" ->
            Goto(c, "invalid") /\ DeleteAuthRequest(a) /\ UNCHANGED loose
       [] OTHER -> Goto(c, "invalid") /\ UNCHANGED <<request, loose>>
  /\ UNCHANGED <<allowed, accountVars, holder, code, exchangeVars, failures>>

\* Mutant: the request is kept.
KeepRequest(c) ==
  /\ pc[c] = "delete"
  /\ Goto(c, "verify")
  /\ UNCHANGED <<allowed, accountVars, request, of, who, at, holder, veteran,
                 loose, code, exchangeVars, failures>>

\* The request is deleted; that this fails is ignored.
DeleteRequest(c) ==
  /\ pc[c] = "delete"
  /\ Goto(c, "verify")
  /\ \/ DeleteAuthRequest(of[c]) /\ UNCHANGED <<loose, failures>>
     \/ /\ failures < MaxFailures
        /\ failures' = failures + 1
        /\ loose' = loose \cup {of[c]}
        /\ UNCHANGED request
  /\ UNCHANGED <<allowed, accountVars, of, who, at, holder, veteran, code,
                 exchangeVars>>

\* exchangeAndVerifyIDToken: the provider redeems the authorization code and tells
\* who has signed in, or refuses it, as it does with one it has redeemed before.
\* That another code came with the same attempt does not matter to it.  Setting up
\* its client takes s.mu for a moment.  Mock parameters are believed, but for strict
\* mode.
Verify(c) ==
  /\ pc[c] = "verify"
  /\ who[c] \in Mocked \/ holder[at[c]] = NoCallback
  /\ Goto(c, "lock") \/ Goto(c, "invalid")
  /\ UNCHANGED <<allowed, accountVars, request, of, who, at, holder, veteran,
                 loose, code, exchangeVars, failures>>

\* s.mu.Unlock
Unlock(c) == holder' = [s \in Server |-> IF holder[s] = c THEN NoCallback ELSE holder[s]]

\* Mutant: the list is asked before the identity is looked up.
LookUpGuardFirst(c) ==
  /\ pc[c] = "lock"
  /\ holder[at[c]] = NoCallback
  /\ IF Address(c) \in allowed
     THEN /\ holder' = [holder EXCEPT ![at[c]] = c]
          /\ Goto(c, IF IsKnown(who[c]) THEN "issue" ELSE "create")
     ELSE Goto(c, "forbidden") /\ UNCHANGED holder
  /\ UNCHANGED <<allowed, accountVars, request, of, who, at, veteran, loose, code,
                 exchangeVars, failures>>

\* Mutant: s.mu is not taken.
LookUpWithoutLock(c) ==
  /\ pc[c] = "lock"
  /\ Goto(c, CASE IsKnown(who[c]) -> "issue"
               [] ~IsKnown(who[c]) /\ Address(c) \in allowed -> "create"
               [] OTHER -> "forbidden")
  /\ UNCHANGED <<allowed, accountVars, request, of, who, at, holder, veteran,
                 loose, code, exchangeVars, failures>>

\* The callback takes s.mu and looks up the identity.  A known one is admitted
\* (its display name may be written, which nothing here depends on); an
\* unknown one must be on the list to sign up.
LookUp(c) ==
  /\ pc[c] = "lock"
  /\ holder[at[c]] = NoCallback
  /\ IF IsKnown(who[c]) \/ IsSignupAllowed(Address(c))
     THEN /\ holder' = [holder EXCEPT ![at[c]] = c]
          /\ Goto(c, IF IsKnown(who[c]) THEN "issue" ELSE "create")
     ELSE Goto(c, "forbidden") /\ UNCHANGED holder
  /\ UNCHANGED <<allowed, accountVars, request, of, who, at, veteran, loose, code,
                 exchangeVars, failures>>

\* Mutant: the identity is linked as soon as there is a user.
SignUpLinksFirst(c) ==
  /\ \/ /\ pc[c] = "create" /\ CanCreateUser(Address(c))
        /\ CreateUser(Address(c)) /\ UpdateUserOIDCByID(Address(c), who[c])
        /\ Goto(c, "team") /\ UNCHANGED <<teams, member, holder>>
     \/ /\ pc[c] = "create" /\ ~CanCreateUser(Address(c))
        /\ Goto(c, "taken") /\ Unlock(c) /\ UNCHANGED accountVars
     \/ /\ pc[c] = "team" /\ CreateTeam(c) /\ Goto(c, "member")
        /\ UNCHANGED <<users, linked, member, holder>>
     \/ /\ pc[c] = "member" /\ AddTeamMember(c, Address(c)) /\ Goto(c, "issue")
        /\ UNCHANGED <<users, linked, teams, holder>>
  /\ UNCHANGED <<allowed, request, of, who, at, veteran, loose, code,
                 exchangeVars, failures>>

\* getOrCreateUserLocked goes on with an unknown identity: the user, his team,
\* the membership, and last the link to the identity, one statement each.
SignUp(c) ==
  /\ \/ /\ pc[c] = "create" /\ CanCreateUser(Address(c))
        /\ CreateUser(Address(c)) /\ Goto(c, "team")
        /\ UNCHANGED <<linked, teams, member, holder>>
     \/ /\ pc[c] = "create" /\ ~CanCreateUser(Address(c))
        /\ Goto(c, "taken") /\ Unlock(c) /\ UNCHANGED accountVars
     \/ /\ pc[c] = "team" /\ CreateTeam(c) /\ Goto(c, "member")
        /\ UNCHANGED <<users, linked, member, holder>>
     \/ /\ pc[c] = "member" /\ AddTeamMember(c, Address(c)) /\ Goto(c, "link")
        /\ UNCHANGED <<users, linked, teams, holder>>
  /\ UNCHANGED <<allowed, request, of, who, at, veteran, loose, code,
                 exchangeVars, failures>>

\* syncUserOIDCIdentityLocked: an identity the user already has is not replaced.
LinkIdentity(c) ==
  /\ pc[c] = "link"
  /\ IF linked[Address(c)] = Nobody
     THEN UpdateUserOIDCByID(Address(c), who[c]) /\ Goto(c, "issue") /\ UNCHANGED holder
     ELSE /\ UNCHANGED linked
          /\ IF IsKnown(who[c]) THEN Goto(c, "issue") /\ UNCHANGED holder
                                ELSE Goto(c, "forbidden") /\ Unlock(c)
  /\ UNCHANGED <<allowed, users, teams, member, request, of, who, at, veteran,
                 loose, code, exchangeVars, failures>>

\* The code is handed out.
IssueCode(c) ==
  /\ pc[c] = "issue"
  /\ InsertExchangeCode(c)
  /\ Goto(c, "done")
  /\ Unlock(c)
  /\ UNCHANGED <<allowed, accountVars, request, of, who, at, veteran, loose,
                 exchangeVars, failures>>

\* Mutant: an error leaves s.mu locked.
FailCallbackLocked(c) ==
  /\ pc[c] \notin {"new", "done"} \cup Refused
  /\ failures < MaxFailures
  /\ failures' = failures + 1
  /\ Goto(c, "failed")
  /\ UNCHANGED <<allowed, accountVars, request, of, who, at, holder, veteran,
                 loose, code, exchangeVars>>

\* A statement fails, the browser goes away and cancels the context of the
\* request, or the server is killed: what the callback has written stays.
FailCallback(c) ==
  /\ pc[c] \notin {"new", "done"} \cup Refused
  /\ failures < MaxFailures
  /\ failures' = failures + 1
  /\ Goto(c, "failed")
  /\ Unlock(c)
  /\ UNCHANGED <<allowed, accountVars, request, of, who, at, veteran, loose, code,
                 exchangeVars>>

--------------------------------------------------------------------------------
(* ExchangeSession and RevokeSession                                        *)

\* The code is read and its user looked up.  One that was used or has expired
\* is consumed again and refused.
CheckCode(x, c) ==
  /\ xpc[x] = "new" /\ \A y \in 1..(x - 1) : xpc[y] # "new"
  /\ code[c] # "none"
  /\ xcode' = [xcode EXCEPT ![x] = c]
  /\ IF GetExchangeCode(c) = "fresh"
     THEN /\ xpc' = [xpc EXCEPT ![x] = "consume"]
          /\ shared' = IF \E y \in Exchange : xcode[y] = c /\ xpc[y] = "consume"
                       THEN shared \cup {c} ELSE shared
          /\ UNCHANGED code
     ELSE /\ xpc' = [xpc EXCEPT ![x] = "refused"]
          /\ ConsumeExchangeCode(c)
          /\ UNCHANGED shared
  /\ UNCHANGED <<allowed, accountVars, request, callbackVars, sessions, failures>>

ConsumeCode(x) ==
  /\ xpc[x] = "consume"
  /\ xpc' = [xpc EXCEPT ![x] = "create"]
  /\ ConsumeExchangeCode(xcode[x])
  /\ UNCHANGED <<allowed, accountVars, request, callbackVars, xcode, sessions,
                 shared, failures>>

OpenSession(x) ==
  /\ xpc[x] = "create"
  /\ xpc' = [xpc EXCEPT ![x] = "done"]
  /\ CreateSession(x)
  /\ UNCHANGED <<allowed, accountVars, request, callbackVars, code, xcode, shared,
                 failures>>

FailExchange(x) ==
  /\ xpc[x] \in {"consume", "create"}
  /\ failures < MaxFailures
  /\ failures' = failures + 1
  /\ xpc' = [xpc EXCEPT ![x] = "refused"]
  /\ UNCHANGED <<allowed, accountVars, request, callbackVars, code, xcode,
                 sessions, shared>>

\* PostAuthLogout
SignOut(x) ==
  /\ LookupSession(x)
  /\ DeleteSession(x)
  /\ UNCHANGED <<allowed, accountVars, request, callbackVars, code, xpc, xcode,
                 shared, failures>>

--------------------------------------------------------------------------------
\* The next statement of callback c.
Proceed(c) ==
  \/ DeleteRequest(c)
  \/ Verify(c)
  \/ LookUp(c)
  \/ SignUp(c)
  \/ LinkIdentity(c)
  \/ IssueCode(c)

\* The next statement of exchange x.
ProceedExchange(x) == ConsumeCode(x) \/ OpenSession(x)

Next ==
  \/ \E a \in Attempt : Start(a)
  \/ \E list \in AllowLists : ChangeAllowList(list)
  \/ \E a \in Attempt : ExpireRequest(a)
  \/ \E c \in Callback : ExpireCode(c)
  \/ \E c \in Callback, a \in Attempt, p \in Person, s \in Server :
       ReadRequest(c, a, p, s)
  \/ \E c \in Callback : Proceed(c) \/ FailCallback(c)
  \/ \E x \in Exchange, c \in Callback : CheckCode(x, c)
  \/ \E x \in Exchange : ProceedExchange(x) \/ FailExchange(x) \/ SignOut(x)

Spec == Init /\ [][Next]_vars

\* A request that has begun goes on: its goroutine runs, the database answers,
\* and a waiter gets s.mu in the end.
FairSpec == Spec /\ \A c \in Callback : WF_vars(Proceed(c))

--------------------------------------------------------------------------------
(* Properties                                                               *)

\* What the rows amount to: the owner of an account is the identity its user
\* is linked to, and it is an account once the user also has a team.
Account == INSTANCE Accounts WITH
  owner <- [e \in Email |-> IF member[e] = NoCallback THEN Nobody ELSE linked[e]],
  admitted <- Admitted

\* Although a sign-up takes four statements and may be cut off behind each, an
\* account appears at once and complete, never changes hands, and nobody is
\* admitted but its owner (store_user_team.go:49-74: the link comes last).
OnlyOwnersAreAdmitted == Account!Spec

\* Who has been admitted once is admitted again whatever happens to the list of
\* allowed addresses, to other sign-ups and to other servers (README.md:147).
VeteransAreNotTurnedAway ==
  \A c \in veteran : pc[c] \notin {"forbidden", "taken"}

\* A person is turned away because his address has a user only if that user is
\* another identity's, or an earlier sign-up of his was cut off, or runs on
\* another server: s.mu keeps the sign-ups of one server apart
\* (store_auth.go:161-184).
OnlyHalfUsersBlock ==
  \A c \in Callback :
    pc[c] = "taken" =>
      \E d \in Callback \ {c} :
        /\ of[d] # NoAttempt
        /\ Address(d) = Address(c)
        /\ who[d] # who[c] \/ pc[d] = "failed" \/ at[d] # at[c]

\* An attempt is answered by one code, however often its URL was opened and
\* whoever came back from there.  Two need callbacks that overlap or a deletion
\* that failed (store_auth.go:93-107).
OneCodePerAttempt ==
  \A c, d \in Callback :
    c # d /\ of[c] = of[d] /\ code[c] # "none" /\ code[d] # "none"
      => of[c] \in loose

\* A code is good for one session, unless two exchanges had checked it before
\* one of them consumed it (store_auth.go:332-351).
OneSessionPerCode ==
  \A x, y \in Exchange :
    x # y /\ xcode[x] = xcode[y] /\ xpc[x] = "done" /\ xpc[y] = "done"
      => xcode[x] \in shared

\* Every callback is answered: none waits for s.mu for ever.
CallbacksAnswer ==
  \A c \in Callback : pc[c] # "new" ~> pc[c] \in {"done"} \cup Refused
================================================================================
