------------------------------ MODULE SignInProofs ------------------------------
(***************************************************************************)
(* Proofs about SignIn, for any identities, addresses, servers and bounds. *)
(***************************************************************************)
EXTENDS SignIn, TLAPS

\* What attempts, callbacks and exchanges hold at their stages.
StageInv ==
  /\ \A c \in Callback :
       /\ pc[c] = "new" => of[c] = NoAttempt
       /\ pc[c] # "new" =>
            of[c] \in Attempt /\ who[c] \in Person /\ at[c] \in Server
  /\ \A x \in Exchange : xpc[x] # "new" => xcode[x] \in Callback

TypeInv == TypeOK /\ StageInv

\* s.mu is held while users are created.
Holding == {"create", "team", "member", "link", "issue"}
MutexInv == \A c \in Callback : pc[c] \in Holding => holder[at[c]] = c

\* A sign-up that has created its user is the only one of its address, and
\* nothing is linked to the user before his membership is there.
Founding == {"team", "member", "link"}
SignUpInv ==
  /\ \A e \in Email :
       /\ e \notin users => linked[e] = Nobody
       /\ linked[e] # Nobody => member[e] # NoCallback
  /\ \A c \in Callback :
       /\ pc[c] \in Founding =>
            /\ Address(c) \in users /\ linked[Address(c)] = Nobody
            /\ \A d \in Callback \ {c} : pc[d] \in Founding => Address(d) # Address(c)
       /\ pc[c] = "link" => member[Address(c)] # NoCallback

\* Who is admitted is known and stays so.
KnownInv ==
  /\ \A c \in Callback : pc[c] \in {"issue", "done"} => IsKnown(who[c])
  /\ \A c \in veteran :
       /\ pc[c] \notin {"new", "create", "forbidden", "taken"} \cup Founding
       /\ IsKnown(who[c])

\* Every user has been created by a callback that is still at it, was cut off, or
\* has linked him to its person; and who creates a user although his person is
\* known has been overtaken on another server.
UserInv ==
  /\ \A e \in users :
       \E d \in Callback :
         /\ pc[d] # "new" /\ Address(d) = e
         /\ pc[d] \in Founding \cup {"failed"} \/ linked[e] = who[d]
  /\ \A c \in Callback :
       pc[c] = "create" /\ IsKnown(who[c]) =>
         \E d \in Callback \ {c} :
           pc[d] # "new" /\ Address(d) = Address(c) /\ at[d] # at[c]

\* Callbacks that have got past the provider.
Verified == {"lock", "issue", "done", "create"} \cup Founding
AttemptInv ==
  /\ \A c \in Callback :
       pc[c] \in {"verify"} \cup Verified =>
         request[of[c]] = "deleted" \/ of[c] \in loose
  /\ \A c, d \in Callback :
       c # d /\ of[c] = of[d]
         /\ pc[c] \in {"delete", "verify"} \cup Verified
         /\ pc[d] \in {"delete", "verify"} \cup Verified => of[c] \in loose

\* A code that has been consumed is never fresh again.
CodeInv ==
  /\ \A c \in Callback : code[c] # "none" <=> pc[c] = "done"
  /\ \A x \in Exchange :
       /\ xpc[x] # "new" => code[xcode[x]] # "none"
       /\ xpc[x] \in {"create", "done"} => code[xcode[x]] # "fresh"
  /\ \A x, y \in Exchange :
       x # y /\ xcode[x] = xcode[y] /\ xpc[x] \in {"consume", "create", "done"}
         /\ xpc[y] \in {"consume", "create", "done"} => xcode[x] \in shared

AccountInv == MutexInv /\ SignUpInv /\ KnownInv /\ UserInv /\ OnlyHalfUsersBlock
IInv == TypeInv /\ AccountInv /\ AttemptInv /\ CodeInv

--------------------------------------------------------------------------------
(* Types and stages                                                         *)

LEMMA InitType == Init => TypeInv
BY SignInAssumption DEF Init, TypeInv, TypeOK, StageInv, Callback, NoAttempt, NoCallback

\* What a callback and an attempt are about is known once they have begun.
LEMMA WhoIsKnown ==
  ASSUME TypeInv, NEW c \in Callback, pc[c] # "new"
  PROVE  /\ of[c] \in Attempt /\ at[c] \in Server
         /\ who[c] \in Person /\ Address(c) \in Email
BY SignInAssumption DEF TypeInv, StageInv, Address

LEMMA TypeStep == TypeInv /\ [Next]_vars => TypeInv'
<1> SUFFICES ASSUME TypeInv, [Next]_vars PROVE TypeInv'
  OBVIOUS
<1> USE SignInAssumption
<1>1. CASE UNCHANGED vars
  BY <1>1 DEF vars, accountVars, callbackVars, exchangeVars, TypeInv, TypeOK, StageInv
<1>2. ASSUME NEW a \in Attempt, Start(a) PROVE TypeInv'
  BY <1>2 DEF Start, InsertAuthRequest, accountVars, callbackVars, exchangeVars,
    TypeInv, TypeOK, StageInv
<1>3. ASSUME NEW list \in AllowLists, ChangeAllowList(list) PROVE TypeInv'
  BY <1>3 DEF ChangeAllowList, accountVars, callbackVars, exchangeVars,
    TypeInv, TypeOK, StageInv
<1>4. ASSUME NEW a \in Attempt, ExpireRequest(a) PROVE TypeInv'
  BY <1>4 DEF ExpireRequest, accountVars, callbackVars, exchangeVars,
    TypeInv, TypeOK, StageInv
<1>5. ASSUME NEW c \in Callback, ExpireCode(c) PROVE TypeInv'
  BY <1>5 DEF ExpireCode, accountVars, callbackVars, exchangeVars,
    TypeInv, TypeOK, StageInv
<1>6. ASSUME NEW c \in Callback, NEW a \in Attempt, NEW p \in Person, NEW s \in Server,
             ReadRequest(c, a, p, s)
      PROVE  TypeInv'
  <2>1. /\ pc' \in [Callback -> {"new", "delete", "verify", "lock", "create", "team",
                          "member", "link", "issue", "done"} \cup Refused]
        /\ \A d \in Callback \ {c} : pc'[d] = pc[d]
        /\ request' \in [Attempt -> {"none", "open", "expired", "deleted"}]
        /\ loose' \subseteq Attempt
    BY <1>6 DEF ReadRequest, Goto, GetAuthRequest, DeleteAuthRequest, Refused,
      TypeInv, TypeOK, StageInv
  <2>3. TypeOK'
    BY <1>6, <2>1 DEF ReadRequest, accountVars, exchangeVars, TypeInv, TypeOK
  <2>4. /\ of'[c] = a /\ who'[c] = p /\ at'[c] = s
        /\ \A d \in Callback \ {c} :
             of'[d] = of[d] /\ who'[d] = who[d] /\ at'[d] = at[d]
    BY <1>6 DEF ReadRequest, TypeInv, TypeOK
  <2>5. pc'[c] # "new"
    BY <1>6 DEF ReadRequest, Goto, TypeInv, TypeOK
  <2>6. UNCHANGED <<xpc, xcode>>
    BY <1>6 DEF ReadRequest, exchangeVars
  <2>7. StageInv'
    BY <2>1, <2>4, <2>5, <2>6 DEF TypeInv, StageInv
  <2> QED
    BY <2>3, <2>7 DEF TypeInv
<1>7. ASSUME NEW c \in Callback, Proceed(c) \/ FailCallback(c) PROVE TypeInv'
  <2>1. pc[c] # "new"
    BY <1>7 DEF Proceed, FailCallback, DeleteRequest, Verify, LookUp, SignUp, LinkIdentity,
      IssueCode
  <2>2. of[c] \in Attempt /\ at[c] \in Server /\ who[c] \in Person /\ Address(c) \in Email
    BY <2>1, WhoIsKnown
  <2>3. CASE DeleteRequest(c)
    BY <2>2, <2>3 DEF DeleteRequest, Goto, DeleteAuthRequest, accountVars, exchangeVars,
      Refused, TypeInv, TypeOK, StageInv
  <2>4. CASE Verify(c)
    BY <2>2, <2>4 DEF Verify, Goto, accountVars, exchangeVars, Refused, TypeInv, TypeOK, StageInv
  <2>5. CASE LookUp(c)
    BY <2>2, <2>5 DEF LookUp, Goto, accountVars, exchangeVars, Refused, TypeInv, TypeOK, StageInv
  <2>6. CASE SignUp(c)
    BY <2>2, <2>6 DEF SignUp, Goto, CreateUser, CreateTeam, AddTeamMember, Unlock, accountVars,
      exchangeVars, Refused, TypeInv, TypeOK, StageInv
  <2>7. CASE LinkIdentity(c)
    BY <2>2, <2>7 DEF LinkIdentity, Goto, UpdateUserOIDCByID, Unlock, exchangeVars,
      Refused, TypeInv, TypeOK, StageInv
  <2>8. CASE IssueCode(c)
    BY <2>2, <2>8 DEF IssueCode, Goto, InsertExchangeCode, Unlock, accountVars, exchangeVars,
      Refused, TypeInv, TypeOK, StageInv
  <2>9. CASE FailCallback(c)
    BY <2>2, <2>9 DEF FailCallback, Goto, Unlock, accountVars, exchangeVars, Refused,
      TypeInv, TypeOK, StageInv
  <2> QED
    BY <1>7, <2>3, <2>4, <2>5, <2>6, <2>7, <2>8, <2>9 DEF Proceed
<1>8. ASSUME NEW x \in Exchange, NEW c \in Callback, CheckCode(x, c) PROVE TypeInv'
  BY <1>8 DEF CheckCode, GetExchangeCode, ConsumeExchangeCode, accountVars, callbackVars,
    TypeInv, TypeOK, StageInv
<1>9. ASSUME NEW x \in Exchange, ProceedExchange(x) \/ FailExchange(x) \/ SignOut(x)
      PROVE  TypeInv'
  BY <1>9 DEF ProceedExchange, ConsumeCode, OpenSession, FailExchange, SignOut,
    ConsumeExchangeCode, CreateSession, DeleteSession, accountVars, callbackVars,
    TypeInv, TypeOK, StageInv
<1> QED
  BY <1>1, <1>2, <1>3, <1>4, <1>5, <1>6, <1>7, <1>8, <1>9 DEF Next

\* Every step of a callback or an exchange keeps to its stages, so a row is only
\* written for an attempt, a person and an address that are there
\* (store_auth.go:24-375).
THEOREM TypeCorrect == Spec => []TypeOK
<1>1. TypeInv => TypeOK
  BY DEF TypeInv
<1> QED
  BY <1>1, InitType, TypeStep, PTL DEF Spec

--------------------------------------------------------------------------------
(* Codes and sessions                                                       *)

\* A callback has a code exactly when it is done: only IssueCode ends there.
LEMMA CodeInCallback ==
  ASSUME TypeInv, CodeInv, NEW c \in Callback,
         \/ \E a \in Attempt, p \in Person, s \in Server : ReadRequest(c, a, p, s)
         \/ Proceed(c) \/ FailCallback(c)
  PROVE  CodeInv'
<1>1. pc[c] # "done" /\ UNCHANGED <<xpc, xcode, shared>>
  BY DEF ReadRequest, Proceed, DeleteRequest, Verify, LookUp, SignUp, LinkIdentity,
    IssueCode, FailCallback, exchangeVars
<1>2. \A d \in Callback \ {c} : pc'[d] = pc[d]
  BY DEF ReadRequest, Proceed, DeleteRequest, Verify, LookUp, SignUp, LinkIdentity,
    IssueCode, FailCallback, Goto, TypeInv, TypeOK
<1>3. code[c] = "none" /\ \A x \in Exchange : xpc[x] # "new" => xcode[x] \in Callback \ {c}
  BY <1>1 DEF CodeInv, TypeInv, StageInv
<1>4. CASE IssueCode(c)
  <2>1. /\ pc'[c] = "done" /\ code'[c] = "fresh"
        /\ \A d \in Callback \ {c} : code'[d] = code[d]
    BY <1>4 DEF IssueCode, Goto, InsertExchangeCode, TypeInv, TypeOK
  <2> QED
    BY <1>1, <1>2, <1>3, <2>1 DEF CodeInv
<1>5. CASE ~IssueCode(c)
  <2>1. pc'[c] # "done" /\ UNCHANGED code
    BY <1>5 DEF ReadRequest, Proceed, DeleteRequest, Verify, LookUp, SignUp, LinkIdentity,
      FailCallback, Goto, TypeInv, TypeOK
  <2> QED
    BY <1>1, <1>2, <2>1 DEF CodeInv
<1> QED
  BY <1>4, <1>5

\* An exchange that has checked a code is the only one that may use it, unless
\* another had checked it before: the second one to check it finds it fresh only
\* while the first has not consumed it, and is then told apart in shared.
LEMMA CodeStep == TypeInv /\ CodeInv /\ [Next]_vars => CodeInv'
<1> SUFFICES ASSUME TypeInv, CodeInv, [Next]_vars PROVE CodeInv'
  OBVIOUS
<1>1. CASE \/ UNCHANGED vars \/ \E a \in Attempt : Start(a)
           \/ \E list \in AllowLists : ChangeAllowList(list)
           \/ \E a \in Attempt : ExpireRequest(a)
  <2>1. UNCHANGED <<pc, code, xpc, xcode, shared>>
    BY <1>1 DEF vars, callbackVars, exchangeVars, Start, ChangeAllowList, ExpireRequest
  <2> QED
    BY <2>1 DEF CodeInv
<1>2. ASSUME NEW c \in Callback, ExpireCode(c) PROVE CodeInv'
  BY <1>2 DEF ExpireCode, callbackVars, exchangeVars, TypeInv, TypeOK, StageInv, CodeInv
<1>3. ASSUME NEW c \in Callback,
             \/ \E a \in Attempt, p \in Person, s \in Server : ReadRequest(c, a, p, s)
             \/ Proceed(c) \/ FailCallback(c)
      PROVE  CodeInv'
  BY <1>3, CodeInCallback
<1>4. ASSUME NEW x \in Exchange, NEW c \in Callback, CheckCode(x, c) PROVE CodeInv'
  <2>1. /\ xcode'[x] = c /\ xpc[x] = "new" /\ UNCHANGED pc /\ code[c] # "none"
        /\ \A y \in Exchange \ {x} : xcode'[y] = xcode[y] /\ xpc'[y] = xpc[y]
        /\ \A d \in Callback \ {c} : code'[d] = code[d]
    BY <1>4 DEF CheckCode, ConsumeExchangeCode, callbackVars, TypeInv, TypeOK
  <2>2. CASE code[c] = "fresh"
    <3>1. xpc'[x] = "consume" /\ UNCHANGED code /\ shared \subseteq shared'
      BY <1>4, <2>2 DEF CheckCode, GetExchangeCode, TypeInv, TypeOK
    <3>2. \A y \in Exchange \ {x} :
            xcode[y] = c /\ xpc[y] \in {"consume", "create", "done"} => c \in shared'
      BY <1>4, <2>2 DEF CheckCode, GetExchangeCode, CodeInv
    <3> QED
      BY <2>1, <3>1, <3>2 DEF CodeInv, TypeInv, StageInv
  <2>3. CASE code[c] # "fresh"
    <3>1. xpc'[x] = "refused" /\ code'[c] = "used" /\ UNCHANGED shared
      BY <1>4, <2>3 DEF CheckCode, GetExchangeCode, ConsumeExchangeCode, TypeInv, TypeOK
    <3> QED
      BY <2>1, <3>1 DEF CodeInv, TypeInv, StageInv
  <2> QED
    BY <2>2, <2>3
<1>5. ASSUME NEW x \in Exchange, ProceedExchange(x) \/ FailExchange(x) \/ SignOut(x)
      PROVE  CodeInv'
  <2>1. CASE ConsumeCode(x)
    BY <2>1 DEF ConsumeCode, ConsumeExchangeCode, callbackVars, TypeInv, TypeOK, StageInv, CodeInv
  <2>2. CASE OpenSession(x)
    BY <2>2 DEF OpenSession, callbackVars, TypeInv, TypeOK, StageInv, CodeInv
  <2>3. CASE FailExchange(x)
    BY <2>3 DEF FailExchange, callbackVars, TypeInv, TypeOK, StageInv, CodeInv
  <2>4. CASE SignOut(x)
    BY <2>4 DEF SignOut, callbackVars, CodeInv
  <2> QED
    BY <1>5, <2>1, <2>2, <2>3, <2>4 DEF ProceedExchange
<1> QED
  BY <1>1, <1>2, <1>3, <1>4, <1>5 DEF Next

\* A code that two exchanges turn into sessions was checked by both before either
\* had consumed it (store_auth.go:332-351).
THEOREM CodesOpenOneSession == Spec => []OneSessionPerCode
<1>1. Init => CodeInv
  BY DEF Init, CodeInv
<1>2. CodeInv => OneSessionPerCode
  BY DEF CodeInv, OneSessionPerCode
<1> QED
  BY <1>1, <1>2, InitType, TypeStep, CodeStep, PTL DEF Spec

--------------------------------------------------------------------------------
(* Attempts                                                                 *)

\* A step of callback c leaves the other callbacks where they are, and changes
\* what c is about only when it begins.
LEMMA OthersStay ==
  ASSUME TypeInv, NEW c \in Callback,
         \/ \E a \in Attempt, p \in Person, s \in Server : ReadRequest(c, a, p, s)
         \/ Proceed(c) \/ FailCallback(c)
  PROVE  /\ \A d \in Callback \ {c} :
              /\ pc'[d] = pc[d] /\ of'[d] = of[d] /\ at'[d] = at[d]
              /\ who'[d] = who[d] /\ Address(d)' = Address(d)
         /\ pc[c] # "new" =>
              /\ of'[c] = of[c] /\ at'[c] = at[c]
              /\ who'[c] = who[c] /\ Address(c)' = Address(c)
<1>1. \A d \in Callback \ {c} :
        pc'[d] = pc[d] /\ of'[d] = of[d] /\ who'[d] = who[d] /\ at'[d] = at[d]
  BY DEF ReadRequest, Proceed, DeleteRequest, Verify, LookUp, SignUp, LinkIdentity,
    IssueCode, FailCallback, Goto, TypeInv, TypeOK
<1>2. pc[c] # "new" => UNCHANGED <<of, who, at>>
  BY DEF ReadRequest, Proceed, DeleteRequest, Verify, LookUp, SignUp, LinkIdentity,
    IssueCode, FailCallback
<1> QED
  BY <1>1, <1>2 DEF Address

\* Steps that are not a callback's leave the callbacks and what they are about alone.
Around ==
  \/ UNCHANGED vars
  \/ \E a \in Attempt : Start(a)
  \/ \E list \in AllowLists : ChangeAllowList(list)
  \/ \E a \in Attempt : ExpireRequest(a)
  \/ \E c \in Callback : ExpireCode(c)
  \/ \E x \in Exchange, c \in Callback : CheckCode(x, c)
  \/ \E x \in Exchange : ProceedExchange(x) \/ FailExchange(x) \/ SignOut(x)

LEMMA CallbacksStay ==
  ASSUME TypeInv, Around
  PROVE  /\ UNCHANGED <<users, linked, teams, member>>
         /\ UNCHANGED <<pc, of, who, at, holder, veteran, loose>>
         /\ \A c \in Callback : Address(c)' = Address(c)
<1>1. /\ UNCHANGED <<users, linked, teams, member>>
      /\ UNCHANGED <<pc, of, who, at, holder, veteran, loose>>
  BY DEF Around, vars, accountVars, callbackVars, Start, ChangeAllowList, ExpireRequest,
    ExpireCode, CheckCode, ProceedExchange, ConsumeCode, OpenSession, FailExchange, SignOut
<1> QED
  BY <1>1 DEF Address

LEMMA AttemptAround == ASSUME TypeInv, AttemptInv, Around PROVE AttemptInv'
<1>1. \A a \in Attempt : request[a] = "deleted" => request'[a] = "deleted"
  BY DEF Around, vars, Start, ChangeAllowList, ExpireRequest, ExpireCode, CheckCode,
    ProceedExchange, ConsumeCode, OpenSession, FailExchange, SignOut, InsertAuthRequest,
    TypeInv, TypeOK
<1>2. \A c \in Callback : pc[c] # "new" => of[c] \in Attempt
  BY DEF TypeInv, StageInv
<1> QED
  BY <1>1, <1>2, CallbacksStay DEF AttemptInv, Verified, Founding

LEMMA AttemptCallback ==
  ASSUME TypeInv, AttemptInv, NEW c \in Callback,
         \/ \E a \in Attempt, p \in Person, s \in Server : ReadRequest(c, a, p, s)
         \/ Proceed(c) \/ FailCallback(c)
  PROVE  AttemptInv'
<1> DEFINE Live == {"delete", "verify"} \cup Verified
<1>1. /\ \A d \in Callback \ {c} :
           pc'[d] = pc[d] /\ of'[d] = of[d] /\ who'[d] = who[d]
      /\ pc[c] # "new" => of'[c] = of[c] /\ who'[c] = who[c]
  BY OthersStay
<1>2. \A d \in Callback : pc[d] # "new" => of[d] \in Attempt
  BY DEF TypeInv, StageInv
<1>3. ASSUME NEW a \in Attempt, NEW p \in Person, NEW s \in Server,
             ReadRequest(c, a, p, s) PROVE AttemptInv'
  <2>1. /\ pc[c] = "new" /\ of'[c] = a
        /\ pc'[c] \in {"delete", "invalid"}
        /\ pc'[c] = "delete" => request[a] = "open"
        /\ loose \subseteq loose'
        /\ \A b \in Attempt : request[b] = "deleted" => request'[b] = "deleted"
    BY <1>3 DEF ReadRequest, Goto, GetAuthRequest, DeleteAuthRequest, TypeInv, TypeOK
  <2>2. ASSUME NEW d \in Callback \ {c}, of[d] = a, pc[d] \in Live, pc'[c] = "delete"
        PROVE  a \in loose'
    <3>1. CASE pc[d] = "delete"
      BY <1>3, <2>1, <2>2, <3>1 DEF ReadRequest, GetAuthRequest
    <3>2. CASE pc[d] # "delete"
      BY <2>1, <2>2, <3>2 DEF AttemptInv
    <3> QED
      BY <3>1, <3>2
  <2> QED
    BY <1>1, <1>2, <2>1, <2>2 DEF AttemptInv, Verified, Founding
<1>4. CASE DeleteRequest(c)
  <2>1. /\ pc[c] = "delete" /\ pc'[c] = "verify"
        /\ request'[of[c]] = "deleted" \/ of[c] \in loose'
        /\ loose \subseteq loose'
        /\ \A b \in Attempt : request[b] = "deleted" => request'[b] = "deleted"
    BY <1>2, <1>4 DEF DeleteRequest, Goto, DeleteAuthRequest, TypeInv, TypeOK
  <2> QED
    BY <1>1, <1>2, <2>1 DEF AttemptInv, Verified, Founding
<1>5. CASE Verify(c)
  <2>1. /\ pc[c] = "verify" /\ pc'[c] \in {"lock", "invalid"}
        /\ UNCHANGED <<request, loose>>
    BY <1>5 DEF Verify, Goto, TypeInv, TypeOK
  <2> QED
    BY <1>1, <1>2, <2>1 DEF AttemptInv, Verified, Founding
<1>6. CASE LookUp(c) \/ SignUp(c) \/ LinkIdentity(c) \/ IssueCode(c) \/ FailCallback(c)
  <2>1. UNCHANGED <<request, loose>>
    BY <1>6 DEF LookUp, SignUp, LinkIdentity, IssueCode, FailCallback
  <2>2. /\ pc[c] # "new"
        /\ \/ pc[c] \in Verified /\ pc'[c] \in Verified
           \/ pc'[c] \in Refused
    BY <1>6 DEF LookUp, SignUp, LinkIdentity, IssueCode, FailCallback, Goto, Verified,
      Founding, Refused, TypeInv, TypeOK
  <2> QED
    BY <1>1, <2>1, <2>2 DEF AttemptInv, Verified, Founding, Refused
<1> QED
  BY <1>3, <1>4, <1>5, <1>6 DEF Proceed

LEMMA AttemptStep == TypeInv /\ AttemptInv /\ [Next]_vars => AttemptInv'
BY AttemptAround, AttemptCallback DEF Next, Around

\* Two codes for one attempt need a request that two callbacks have read before it
\* was deleted, or whose deletion failed (store_auth.go:93-107).
THEOREM AttemptsGetOneCode == Spec => []OneCodePerAttempt
<1>1. Init => AttemptInv /\ CodeInv
  BY DEF Init, AttemptInv, CodeInv, Verified, Founding
<1>2. AttemptInv /\ CodeInv => OneCodePerAttempt
  BY DEF AttemptInv, CodeInv, OneCodePerAttempt, Verified
<1> QED
  BY <1>1, <1>2, InitType, TypeStep, CodeStep, AttemptStep, PTL DEF Spec

--------------------------------------------------------------------------------
(* Accounts                                                                 *)

LEMMA InitAccount == Init => AccountInv
BY DEF Init, AccountInv, MutexInv, SignUpInv, KnownInv, UserInv, OnlyHalfUsersBlock,
  Holding, Founding

LEMMA AccountAround == ASSUME TypeInv, AccountInv, Around PROVE AccountInv'
<1>1. /\ UNCHANGED <<users, linked, member, pc, of, at, holder, veteran>>
      /\ \A c \in Callback : pc[c] # "new" => who'[c] = who[c] /\ Address(c)' = Address(c)
  BY CallbacksStay
<1>2. \A c \in Callback : pc[c] = "new" => of[c] = NoAttempt
  BY DEF TypeInv, StageInv
<1>3. MutexInv' /\ SignUpInv'
  BY <1>1 DEF AccountInv, MutexInv, SignUpInv, Holding, Founding
<1>4. \A c \in Callback : pc[c] # "new" /\ IsKnown(who[c]) => IsKnown(who[c])'
  BY <1>1 DEF IsKnown, Address
<1>5. \A c \in Callback : pc[c] # "new" /\ IsKnown(who[c])' => IsKnown(who[c])
  BY <1>1 DEF IsKnown, Address
<1>6. KnownInv' /\ UserInv'
  BY <1>1, <1>4, <1>5 DEF AccountInv, KnownInv, UserInv, TypeInv, TypeOK
<1>7. OnlyHalfUsersBlock'
  BY <1>1, <1>2 DEF AccountInv, OnlyHalfUsersBlock
<1> QED
  BY <1>3, <1>6, <1>7 DEF AccountInv

\* A callback that begins finds its person known if one of his callbacks has
\* already got a code.
LEMMA AccountBegins ==
  ASSUME TypeInv, AccountInv, CodeInv, NEW c \in Callback, NEW a \in Attempt,
         NEW p \in Person, NEW s \in Server, ReadRequest(c, a, p, s)
  PROVE  AccountInv'
<1>1. \A d \in Callback \ {c} :
        /\ pc'[d] = pc[d] /\ of'[d] = of[d] /\ at'[d] = at[d]
        /\ who'[d] = who[d] /\ Address(d)' = Address(d)
  BY OthersStay
<1>2. /\ pc[c] = "new" /\ pc'[c] \in {"delete", "invalid"}
      /\ who'[c] = p /\ UNCHANGED <<users, linked, member, holder>>
      /\ veteran \subseteq veteran' /\ veteran' \subseteq veteran \cup {c}
      /\ c \in veteran' /\ c \notin veteran => p \in Admitted
  BY DEF ReadRequest, Goto, accountVars, TypeInv, TypeOK
<1>3. of[c] = NoAttempt /\ c \notin veteran
  BY <1>2 DEF TypeInv, StageInv, AccountInv, KnownInv
<1>4. c \in veteran' => IsKnown(who[c])'
  BY <1>2, <1>3 DEF Admitted, CodeInv, AccountInv, KnownInv, IsKnown
<1>5. \A d \in Callback \ {c} : IsKnown(who[d])' <=> IsKnown(who[d])
  BY <1>1, <1>2 DEF IsKnown
<1>6. MutexInv' /\ SignUpInv'
  BY <1>1, <1>2 DEF AccountInv, MutexInv, SignUpInv, Holding, Founding
<1>7. KnownInv'
  BY <1>1, <1>2, <1>4, <1>5 DEF AccountInv, KnownInv, Founding, TypeInv, TypeOK
<1>8. UserInv'
  BY <1>1, <1>2, <1>5 DEF AccountInv, UserInv
<1>9. OnlyHalfUsersBlock'
  BY <1>1, <1>2, <1>3 DEF AccountInv, OnlyHalfUsersBlock
<1> QED
  BY <1>6, <1>7, <1>8, <1>9 DEF AccountInv

\* Steps of a callback that touch no user and no lock, and do not decide anything.
LEMMA AccountWaits ==
  ASSUME TypeInv, AccountInv, NEW c \in Callback, DeleteRequest(c) \/ Verify(c)
  PROVE  AccountInv'
<1>1. /\ \A d \in Callback : of'[d] = of[d] /\ at'[d] = at[d]
      /\ \A d \in Callback : who'[d] = who[d] /\ Address(d)' = Address(d)
      /\ \A d \in Callback \ {c} : pc'[d] = pc[d]
  BY OthersStay DEF Proceed, DeleteRequest, Verify
<1>2. /\ pc[c] \in {"delete", "verify"} /\ pc'[c] \in {"verify", "lock", "invalid"}
      /\ UNCHANGED <<users, linked, member, holder, veteran>>
  BY DEF DeleteRequest, Verify, Goto, accountVars, TypeInv, TypeOK
<1>3. MutexInv' /\ SignUpInv'
  BY <1>1, <1>2 DEF AccountInv, MutexInv, SignUpInv, Holding, Founding
<1>4. KnownInv' /\ UserInv'
  BY <1>1, <1>2 DEF AccountInv, KnownInv, UserInv, IsKnown, Founding, TypeInv, TypeOK
<1>5. OnlyHalfUsersBlock'
  BY <1>1, <1>2 DEF AccountInv, OnlyHalfUsersBlock
<1> QED
  BY <1>3, <1>4, <1>5 DEF AccountInv

LEMMA AccountLookedUp == ASSUME TypeInv, AccountInv, NEW c \in Callback, LookUp(c) PROVE AccountInv'
<1>1. /\ \A d \in Callback : of'[d] = of[d] /\ at'[d] = at[d]
      /\ \A d \in Callback : who'[d] = who[d] /\ Address(d)' = Address(d)
      /\ \A d \in Callback \ {c} : pc'[d] = pc[d]
  BY OthersStay DEF Proceed, LookUp
<1>2. /\ pc[c] = "lock" /\ UNCHANGED <<users, linked, member, veteran>>
      /\ at[c] \in Server /\ holder[at[c]] = NoCallback
      /\ \/ /\ pc'[c] = IF IsKnown(who[c]) THEN "issue" ELSE "create"
            /\ holder' = [holder EXCEPT ![at[c]] = c]
         \/ pc'[c] = "forbidden" /\ ~IsKnown(who[c]) /\ UNCHANGED holder
  BY DEF LookUp, Goto, accountVars, TypeInv, TypeOK, StageInv
<1>3. \A d \in Callback : IsKnown(who[d])' <=> IsKnown(who[d])
  BY <1>1, <1>2 DEF IsKnown
<1>4. MutexInv'
  BY <1>1, <1>2 DEF AccountInv, MutexInv, Holding, Callback, NoCallback,
    TypeInv, TypeOK, StageInv
<1>5. SignUpInv'
  BY <1>1, <1>2 DEF AccountInv, SignUpInv, Founding
<1>6. KnownInv'
  BY <1>1, <1>2, <1>3 DEF AccountInv, KnownInv, Founding, TypeInv, TypeOK
<1>7. UserInv'
  BY <1>1, <1>2, <1>3 DEF AccountInv, UserInv, Founding
<1>8. OnlyHalfUsersBlock'
  BY <1>1, <1>2 DEF AccountInv, OnlyHalfUsersBlock
<1> QED
  BY <1>4, <1>5, <1>6, <1>7, <1>8 DEF AccountInv

\* A user in the way of a sign-up was left by one that was cut off, is another
\* person's, or is being created on another server: on this one s.mu is held.
LEMMA AccountTaken ==
  ASSUME TypeInv, AccountInv, NEW c \in Callback, pc[c] = "create", Address(c) \in users
  PROVE  \E d \in Callback \ {c} :
           /\ of[d] # NoAttempt
           /\ Address(d) = Address(c)
           /\ who[d] # who[c] \/ pc[d] = "failed" \/ at[d] # at[c]
<1>1. \A d \in Callback : pc[d] # "new" => of[d] # NoAttempt
  BY SignInAssumption DEF TypeInv, StageInv, Attempt, NoAttempt
<1>2. CASE IsKnown(who[c])
  BY <1>1, <1>2 DEF AccountInv, UserInv
<1>3. CASE ~IsKnown(who[c])
  <2>1. PICK d \in Callback :
          /\ pc[d] # "new" /\ Address(d) = Address(c)
          /\ pc[d] \in Founding \cup {"failed"} \/ linked[Address(c)] = who[d]
    BY DEF AccountInv, UserInv
  <2>2. d # c
    BY <1>3, <2>1 DEF IsKnown, Address, Founding
  <2>3. pc[d] \in Founding => at[d] # at[c]
    BY <2>2 DEF AccountInv, MutexInv, Holding, Founding
  <2>4. linked[Address(c)] = who[d] => who[d] # who[c]
    BY <1>3 DEF IsKnown, Address
  <2> QED
    BY <1>1, <2>1, <2>2, <2>3, <2>4
<1> QED
  BY <1>2, <1>3

LEMMA AccountSignsUp == ASSUME TypeInv, AccountInv, NEW c \in Callback, SignUp(c) PROVE AccountInv'
<1>1. /\ \A d \in Callback : of'[d] = of[d] /\ at'[d] = at[d]
      /\ \A d \in Callback : who'[d] = who[d] /\ Address(d)' = Address(d)
      /\ \A d \in Callback \ {c} : pc'[d] = pc[d]
  BY OthersStay DEF Proceed, SignUp
<1>2. /\ pc[c] \in {"create", "team", "member"} /\ UNCHANGED <<linked, veteran>>
      /\ \A d \in Callback : IsKnown(who[d])' <=> IsKnown(who[d])
  BY <1>1 DEF SignUp, accountVars, IsKnown
<1>3. Address(c) \in Email
  BY <1>2, WhoIsKnown
<1>4. CASE pc[c] = "create" /\ Address(c) \notin users
  <2>1. /\ pc'[c] = "team" /\ users' = users \cup {Address(c)}
        /\ UNCHANGED <<member, holder>>
    BY <1>4 DEF SignUp, CanCreateUser, CreateUser, Goto, TypeInv, TypeOK
  <2>2. MutexInv'
    BY <1>1, <1>4, <2>1 DEF AccountInv, MutexInv, Holding
  <2>3. SignUpInv'
    BY <1>1, <1>2, <1>3, <1>4, <2>1 DEF AccountInv, SignUpInv, Founding
  <2>4. KnownInv'
    BY <1>1, <1>2, <1>4, <2>1 DEF AccountInv, KnownInv, Founding, TypeInv, TypeOK
  <2>5. UserInv'
    BY <1>1, <1>2, <1>4, <2>1 DEF AccountInv, UserInv, Founding
  <2>6. OnlyHalfUsersBlock'
    BY <1>1, <1>4, <2>1 DEF AccountInv, OnlyHalfUsersBlock
  <2> QED
    BY <2>2, <2>3, <2>4, <2>5, <2>6 DEF AccountInv
<1>5. CASE pc[c] = "create" /\ Address(c) \in users
  <2>1. /\ pc'[c] = "taken" /\ UNCHANGED <<users, member>>
        /\ holder' = [s \in Server |-> IF holder[s] = c THEN NoCallback ELSE holder[s]]
    BY <1>5 DEF SignUp, CanCreateUser, Goto, Unlock, accountVars, TypeInv, TypeOK
  <2>2. MutexInv'
    BY <1>1, <1>5, <2>1 DEF AccountInv, MutexInv, Holding, TypeInv, StageInv
  <2>3. SignUpInv'
    BY <1>1, <1>2, <1>5, <2>1 DEF AccountInv, SignUpInv, Founding
  <2>4. KnownInv'
    BY <1>1, <1>2, <1>5, <2>1 DEF AccountInv, KnownInv, Founding, TypeInv, TypeOK
  <2>5. UserInv'
    BY <1>1, <1>2, <1>5, <2>1 DEF AccountInv, UserInv, Founding
  <2>6. OnlyHalfUsersBlock'
    BY <1>1, <1>5, <2>1, AccountTaken DEF AccountInv, OnlyHalfUsersBlock
  <2> QED
    BY <2>2, <2>3, <2>4, <2>5, <2>6 DEF AccountInv
<1>6. CASE pc[c] \in {"team", "member"}
  <2>1. /\ UNCHANGED <<users, holder>>
        /\ pc'[c] = IF pc[c] = "team" THEN "member" ELSE "link"
        /\ member' = IF pc[c] = "team" THEN member ELSE [member EXCEPT ![Address(c)] = c]
    BY <1>6 DEF SignUp, AddTeamMember, Goto, TypeInv, TypeOK
  <2>2. c # NoCallback
    BY DEF Callback, NoCallback
  <2>3. \A e \in Email : member[e] # NoCallback => member'[e] # NoCallback
    BY <2>1, <2>2 DEF TypeInv, TypeOK
  <2>4. pc'[c] = "link" => member'[Address(c)] # NoCallback
    BY <1>3, <1>6, <2>1, <2>2 DEF TypeInv, TypeOK
  <2>5. MutexInv'
    BY <1>1, <1>6, <2>1 DEF AccountInv, MutexInv, Holding
  <2>6. \A d \in Callback : pc[d] = "link" => Address(d) \in Email
    BY WhoIsKnown
  <2>7. SignUpInv'
    BY <1>1, <1>2, <1>6, <2>1, <2>3, <2>4, <2>6 DEF AccountInv, SignUpInv, Founding
  <2>8. KnownInv' /\ UserInv'
    BY <1>1, <1>2, <1>6, <2>1 DEF AccountInv, KnownInv, UserInv, Founding, TypeInv, TypeOK
  <2>9. OnlyHalfUsersBlock'
    BY <1>1, <1>6, <2>1 DEF AccountInv, OnlyHalfUsersBlock
  <2> QED
    BY <2>5, <2>7, <2>8, <2>9 DEF AccountInv
<1> QED
  BY <1>2, <1>4, <1>5, <1>6

\* The user that was created is still linked to nobody.
LEMMA Links ==
  ASSUME TypeInv, AccountInv, NEW c \in Callback, LinkIdentity(c)
  PROVE  /\ pc[c] = "link" /\ pc'[c] = "issue"
         /\ linked[Address(c)] = Nobody /\ member[Address(c)] # NoCallback
         /\ linked' = [linked EXCEPT ![Address(c)] = who[c]]
         /\ UNCHANGED <<users, member, holder, veteran, code>>
BY DEF LinkIdentity, UpdateUserOIDCByID, Goto, AccountInv, SignUpInv, Founding, TypeInv, TypeOK

LEMMA AccountLinks ==
  ASSUME TypeInv, AccountInv, NEW c \in Callback, LinkIdentity(c)
  PROVE  AccountInv'
<1>1. /\ \A d \in Callback : of'[d] = of[d] /\ at'[d] = at[d]
      /\ \A d \in Callback : who'[d] = who[d] /\ Address(d)' = Address(d)
      /\ \A d \in Callback \ {c} : pc'[d] = pc[d]
  BY OthersStay DEF Proceed, LinkIdentity
<1>2. /\ pc[c] = "link" /\ pc'[c] = "issue"
      /\ linked[Address(c)] = Nobody /\ member[Address(c)] # NoCallback
      /\ linked' = [linked EXCEPT ![Address(c)] = who[c]]
      /\ UNCHANGED <<users, member, holder, veteran>>
  BY Links
<1>3. /\ who[c] \in Person /\ Address(c) \in Email /\ Address(c) \in users
      /\ linked'[Address(c)] = who[c]
      /\ \A e \in Email \ {Address(c)} : linked'[e] = linked[e]
  BY <1>2, WhoIsKnown DEF AccountInv, SignUpInv, Founding, TypeInv, TypeOK
<1>4. \A d \in Callback : pc[d] # "new" => who[d] \in Person /\ Address(d) \in Email
  BY WhoIsKnown
<1>5. \A d \in Callback : pc[d] # "new" /\ IsKnown(who[d]) => IsKnown(who[d])'
  BY <1>1, <1>2, <1>3, <1>4, SignInAssumption DEF IsKnown, Address
<1>6. \A d \in Callback :
        pc[d] # "new" /\ IsKnown(who[d])' /\ ~IsKnown(who[d]) => Address(d) = Address(c)
  BY <1>1, <1>3, <1>4 DEF IsKnown, Address
<1>7. IsKnown(who[c])'
  BY <1>1, <1>3 DEF IsKnown, Address
<1>8. MutexInv'
  BY <1>1, <1>2 DEF AccountInv, MutexInv, Holding
<1>9. SignUpInv'
  BY <1>1, <1>2, <1>3, <1>4 DEF AccountInv, SignUpInv, Founding
<1>10. KnownInv'
  BY <1>1, <1>2, <1>5, <1>7 DEF AccountInv, KnownInv, Founding, TypeInv, TypeOK
<1>11. UserInv'
  <2>1. ASSUME NEW e \in users
        PROVE  \E d \in Callback :
                 /\ pc'[d] # "new" /\ Address(d)' = e
                 /\ pc'[d] \in Founding \cup {"failed"} \/ linked'[e] = who'[d]
    <3>1. CASE e = Address(c)
      BY <1>1, <1>2, <1>3, <3>1
    <3>2. CASE e # Address(c)
      BY <1>1, <1>2, <1>3, <3>2 DEF AccountInv, UserInv, TypeInv, TypeOK
    <3> QED
      BY <3>1, <3>2
  <2>2. ASSUME NEW d \in Callback, pc'[d] = "create", IsKnown(who[d])'
        PROVE  \E f \in Callback \ {d} :
                 pc'[f] # "new" /\ Address(f)' = Address(d)' /\ at'[f] # at'[d]
    <3>1. pc[d] = "create" /\ d # c
      BY <1>1, <1>2, <2>2
    <3>2. CASE IsKnown(who[d])
      BY <1>1, <1>2, <3>1, <3>2 DEF AccountInv, UserInv
    <3>3. CASE ~IsKnown(who[d])
      <4>1. at[d] # at[c]
        BY <1>2, <3>1 DEF AccountInv, MutexInv, Holding
      <4> QED
        BY <1>1, <1>2, <1>6, <2>2, <3>1, <3>3, <4>1
    <3> QED
      BY <3>2, <3>3
  <2> QED
    BY <1>2, <2>1, <2>2 DEF UserInv
<1>12. OnlyHalfUsersBlock'
  BY <1>1, <1>2 DEF AccountInv, OnlyHalfUsersBlock
<1> QED
  BY <1>8, <1>9, <1>10, <1>11, <1>12 DEF AccountInv

LEMMA AccountEnds ==
  ASSUME TypeInv, AccountInv, NEW c \in Callback, IssueCode(c) \/ FailCallback(c)
  PROVE  AccountInv'
<1>1. /\ \A d \in Callback : of'[d] = of[d] /\ at'[d] = at[d]
      /\ \A d \in Callback : who'[d] = who[d] /\ Address(d)' = Address(d)
      /\ \A d \in Callback \ {c} : pc'[d] = pc[d]
  BY OthersStay DEF Proceed, IssueCode, FailCallback
<1>2. /\ UNCHANGED <<users, linked, member, veteran>>
      /\ pc[c] \notin {"new", "failed", "taken"}
      /\ \/ pc[c] = "issue" /\ pc'[c] = "done"
         \/ pc'[c] = "failed"
      /\ holder' = [s \in Server |-> IF holder[s] = c THEN NoCallback ELSE holder[s]]
  BY DEF IssueCode, FailCallback, Goto, Unlock, accountVars, Refused, TypeInv, TypeOK
<1>3. \A d \in Callback : IsKnown(who[d])' <=> IsKnown(who[d])
  BY <1>1, <1>2 DEF IsKnown
<1>4. MutexInv'
  BY <1>1, <1>2 DEF AccountInv, MutexInv, Holding, TypeInv, StageInv
<1>5. SignUpInv'
  BY <1>1, <1>2 DEF AccountInv, SignUpInv, Founding
<1>6. KnownInv'
  BY <1>1, <1>2, <1>3 DEF AccountInv, KnownInv, Founding, TypeInv, TypeOK
<1>7. UserInv'
  BY <1>1, <1>2, <1>3 DEF AccountInv, UserInv, Founding
<1>8. OnlyHalfUsersBlock'
  BY <1>1, <1>2 DEF AccountInv, OnlyHalfUsersBlock
<1> QED
  BY <1>4, <1>5, <1>6, <1>7, <1>8 DEF AccountInv

LEMMA AccountStep == TypeInv /\ AccountInv /\ CodeInv /\ [Next]_vars => AccountInv'
BY AccountAround, AccountBegins, AccountWaits, AccountLookedUp, AccountSignsUp, AccountLinks,
  AccountEnds DEF Next, Around, Proceed

LEMMA Invariance == Spec => [](TypeInv /\ CodeInv /\ AccountInv)
<1>1. Init => CodeInv
  BY DEF Init, CodeInv
<1> QED
  BY <1>1, InitType, InitAccount, TypeStep, CodeStep, AccountStep, PTL DEF Spec

\* Who has been admitted once stays linked to the user of his address and is
\* found before the list of addresses is asked (store_user_team.go:25-45).
THEOREM VeteransAreAdmitted == Spec => []VeteransAreNotTurnedAway
<1>1. AccountInv => VeteransAreNotTurnedAway
  BY DEF AccountInv, KnownInv, VeteransAreNotTurnedAway
<1> QED
  BY <1>1, Invariance, PTL

\* A sign-up that finds its address taken ran into another person's user, the
\* remains of a sign-up that was cut off, or a sign-up on another server
\* (store_user_team.go:49-58, store_auth.go:161-184).
THEOREM HalfUsersBlock == Spec => []OnlyHalfUsersBlock
<1>1. AccountInv => OnlyHalfUsersBlock
  BY DEF AccountInv
<1> QED
  BY <1>1, Invariance, PTL

--------------------------------------------------------------------------------
(* SignIn implements Accounts                                               *)

\* The owners of Accounts, as the rows tell them.
Owner == [e \in Email |-> IF member[e] = NoCallback THEN Nobody ELSE linked[e]]

\* Only a code admits, and whom a code is for does not change.
LEMMA AdmittedStays ==
  ASSUME TypeInv, CodeInv,
         \A d \in Callback : code'[d] # "none" <=> code[d] # "none",
         \A d \in Callback : code[d] # "none" => who'[d] = who[d]
  PROVE  UNCHANGED Admitted
BY DEF Admitted

LEMMA AroundKeepsAccounts ==
  ASSUME TypeInv, CodeInv, Around
  PROVE  UNCHANGED <<Owner, Admitted>>
<1>1. /\ UNCHANGED <<linked, member>>
      /\ \A c \in Callback : pc[c] # "new" => who'[c] = who[c]
  BY CallbacksStay
<1>2. \A d \in Callback : code'[d] # "none" <=> code[d] # "none"
  <2>1. ASSUME NEW c \in Callback, ExpireCode(c)
        PROVE  \A d \in Callback : code'[d] # "none" <=> code[d] # "none"
    BY <2>1 DEF ExpireCode, TypeInv, TypeOK
  <2>2. ASSUME NEW x \in Exchange, NEW c \in Callback, CheckCode(x, c)
        PROVE  \A d \in Callback : code'[d] # "none" <=> code[d] # "none"
    BY <2>2 DEF CheckCode, ConsumeExchangeCode, TypeInv, TypeOK
  <2>3. ASSUME NEW x \in Exchange, ConsumeCode(x)
        PROVE  \A d \in Callback : code'[d] # "none" <=> code[d] # "none"
    BY <2>3 DEF ConsumeCode, ConsumeExchangeCode, CodeInv, TypeInv, TypeOK, StageInv
  <2>4. CASE UNCHANGED code
    BY <2>4
  <2> QED
    BY <2>1, <2>2, <2>3, <2>4 DEF Around, vars, Start, ChangeAllowList, ExpireRequest,
      ProceedExchange, OpenSession, FailExchange, SignOut
<1>3. \A d \in Callback : code[d] # "none" => who'[d] = who[d]
  BY <1>1 DEF CodeInv
<1> QED
  BY <1>1, <1>2, <1>3, AdmittedStays DEF Owner

LEMMA CallbackKeepsAccounts ==
  ASSUME TypeInv, CodeInv, AccountInv, NEW c \in Callback,
         \/ \E a \in Attempt, p \in Person, s \in Server : ReadRequest(c, a, p, s)
         \/ DeleteRequest(c) \/ Verify(c) \/ LookUp(c) \/ SignUp(c) \/ FailCallback(c)
  PROVE  UNCHANGED <<Owner, Admitted>>
<1>1. UNCHANGED <<code, linked>>
  BY DEF ReadRequest, DeleteRequest, Verify, LookUp, SignUp, FailCallback, accountVars
<1>2. \A d \in Callback : code[d] # "none" => who'[d] = who[d]
  BY OthersStay DEF Proceed, CodeInv
<1>3. CASE UNCHANGED member
  BY <1>1, <1>2, <1>3, AdmittedStays DEF Owner
<1>4. CASE pc[c] = "member" /\ AddTeamMember(c, Address(c))
  <2>1. linked[Address(c)] = Nobody
    BY <1>4 DEF AccountInv, SignUpInv, Founding
  <2>2. UNCHANGED Owner
    BY <1>1, <1>4, <2>1 DEF AddTeamMember, Owner, TypeInv, TypeOK
  <2> QED
    BY <1>1, <1>2, <2>2, AdmittedStays
<1> QED
  BY <1>3, <1>4 DEF ReadRequest, DeleteRequest, Verify, LookUp, SignUp, FailCallback, accountVars

LEMMA LinkOpens ==
  ASSUME TypeInv, CodeInv, AccountInv, NEW c \in Callback, LinkIdentity(c)
  PROVE  Account!Next
<1>1. /\ linked[Address(c)] = Nobody /\ member[Address(c)] # NoCallback
      /\ linked' = [linked EXCEPT ![Address(c)] = who[c]]
      /\ UNCHANGED <<member, code>>
  BY Links
<1>2. who[c] \in Person /\ Address(c) \in Email
  BY WhoIsKnown DEF LinkIdentity
<1>3. \A d \in Callback : code[d] # "none" => who'[d] = who[d]
  BY OthersStay DEF Proceed, CodeInv
<1>4. Owner[Address(c)] = Nobody /\ Owner' = [Owner EXCEPT ![Address(c)] = who[c]]
  BY <1>1, <1>2 DEF Owner, TypeInv, TypeOK
<1>5. UNCHANGED Admitted
  BY <1>1, <1>3, AdmittedStays
<1> QED
  BY <1>2, <1>4, <1>5 DEF Account!Next, Account!Open, Owner, Address

LEMMA IssueAdmits ==
  ASSUME TypeInv, CodeInv, AccountInv, NEW c \in Callback, IssueCode(c)
  PROVE  Account!Next
<1>1. /\ pc[c] = "issue" /\ UNCHANGED <<linked, member>>
      /\ \A d \in Callback : code'[d] # "none" <=> d = c \/ code[d] # "none"
  BY DEF IssueCode, InsertExchangeCode, accountVars, TypeInv, TypeOK
<1>2. who[c] \in Person /\ Address(c) \in Email
  BY <1>1, WhoIsKnown
<1>3. linked[Address(c)] = who[c] /\ member[Address(c)] # NoCallback
  BY <1>1, <1>2, SignInAssumption DEF AccountInv, KnownInv, SignUpInv, IsKnown, Address
<1>4. \A d \in Callback : who'[d] = who[d]
  BY OthersStay DEF Proceed, IssueCode
<1>5. Admitted' = Admitted \cup {who[c]}
  BY <1>1, <1>4 DEF Admitted
<1>6. Owner[Address(c)] = who[c] /\ UNCHANGED Owner
  BY <1>1, <1>2, <1>3 DEF Owner
<1> QED
  BY <1>2, <1>5, <1>6 DEF Account!Next, Account!Admit, Owner, Address

\* The statements of a sign-up amount to one step, the link at its end, which
\* opens an account; a code is handed out to its owner alone, and nothing else
\* changes who owns what or who is let in (store_user_team.go:49-97,
\* store_auth.go:161-197).
THEOREM AccountsAreImplemented == Spec => OnlyOwnersAreAdmitted
<1>1. Init => Account!Init
  BY DEF Init, Account!Init, Admitted
<1>2. TypeInv /\ CodeInv /\ AccountInv /\ [Next]_vars
        => Account!Next \/ UNCHANGED <<Owner, Admitted>>
  <2> SUFFICES ASSUME TypeInv, CodeInv, AccountInv, [Next]_vars
               PROVE  Account!Next \/ UNCHANGED <<Owner, Admitted>>
    OBVIOUS
  <2>1. CASE Around
    BY <2>1, AroundKeepsAccounts
  <2>2. ASSUME NEW c \in Callback,
               \/ \E a \in Attempt, p \in Person, s \in Server : ReadRequest(c, a, p, s)
               \/ DeleteRequest(c) \/ Verify(c) \/ LookUp(c) \/ SignUp(c) \/ FailCallback(c)
        PROVE  UNCHANGED <<Owner, Admitted>>
    BY <2>2, CallbackKeepsAccounts
  <2>3. ASSUME NEW c \in Callback, LinkIdentity(c) \/ IssueCode(c) PROVE Account!Next
    BY <2>3, LinkOpens, IssueAdmits
  <2> QED
    BY <2>1, <2>2, <2>3 DEF Next, Around, Proceed
<1>3. TypeInv /\ CodeInv /\ AccountInv /\ [Next]_vars
        => [Account!Next]_<<[e \in Email |-> IF member[e] = NoCallback THEN Nobody ELSE linked[e]],
                            Admitted>>
  BY <1>2 DEF Owner
<1> QED
  BY <1>1, <1>3, Invariance, PTL DEF Spec, OnlyOwnersAreAdmitted, Account!Spec
================================================================================
