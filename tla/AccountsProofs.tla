--------------------------- MODULE AccountsProofs ---------------------------
(***************************************************************************)
(* Proofs about Accounts, for any number of registrations, logins, resets  *)
(* and tokens: first about its reset tokens alone, then about the whole.   *)
(*                                                                         *)
(* PasswordReset: the inductive invariant adds to the properties that a    *)
(* request only holds a token whose row was once inserted, that it can     *)
(* have written its bookkeeping only after the password, and that a row is *)
(* inserted once.                                                          *)
(*                                                                         *)
(* Accounts: what was proved of PasswordReset carries over, since every    *)
(* step of Accounts is a step of it or leaves its variables alone; the     *)
(* rest follows from an invariant on what each control point has seen      *)
(* (Flow) and on passwords never coming back (NoReturn).                   *)
(***************************************************************************)
EXTENDS Accounts, TLAPS

HeldTokenExists == \A r \in Resets : using[r] # "none" => tok[using[r]] # "none"

WroteLate == \A r \in wrote : rpc[r] \in {"delete", "ok"}

InsertedOnce ==
  \A t \in Tokens : /\ fpc[t] = "create" => tok[t] = "none"
                    /\ fpc[t] = "mail" => tok[t] # "none"

Inv == TypeOK /\ InsertedOnce /\ HeldTokenExists /\ WroteLate /\ SpentTokenIsDead /\ LinkDiesByReset

(* The initial states satisfy the inductive invariant. *)
LEMMA InitInv == Init => Inv
  BY NoneAssumption
  DEF Init, Inv, TypeOK, Changed, Accepted, InsertedOnce, HeldTokenExists, WroteLate,
      SpentTokenIsDead, LinkDiesByReset

(* Every step of ForgotPassword, and the passing of the hour, keep it. *)
LEMMA ForgotKeepsInv ==
  ASSUME Inv, NEW t \in Tokens, ForgotPassword(t) \/ Expire(t)
  PROVE  Inv'
<1> USE NoneAssumption DEF Inv, TypeOK, Changed, Accepted, InsertedOnce, HeldTokenExists,
        WroteLate, SpentTokenIsDead, LinkDiesByReset, resetVars
<1>1. CASE CreateToken(t)
  BY <1>1 DEF CreateToken
<1>2. CASE SendMail(t)
  BY <1>2 DEF SendMail
<1>3. CASE Expire(t)
  BY <1>3 DEF Expire
<1> QED BY <1>1, <1>2, <1>3 DEF ForgotPassword

(* Every step of ResetPassword keeps it. *)
LEMMA ResetKeepsInv ==
  ASSUME Inv, NEW r \in Resets, ResetPassword(r)
  PROVE  Inv'
<1> USE NoneAssumption DEF Inv, TypeOK, Changed, Accepted, InsertedOnce, HeldTokenExists,
        WroteLate, SpentTokenIsDead, LinkDiesByReset, RGoto, tokenVars
<1>1. CASE \E t \in Tokens : CheckToken(r, t)
  BY <1>1 DEF CheckToken, Usable
<1>2. CASE UpdateUserPassword(r)
  BY <1>2 DEF UpdateUserPassword
<1>3. CASE MarkUsed(r)
  BY <1>3 DEF MarkUsed
<1>4. CASE DeleteUserTokens(r)
  BY <1>4 DEF DeleteUserTokens
<1> QED BY <1>1, <1>2, <1>3, <1>4 DEF ResetPassword

(* The invariant holds in every behaviour. *)
THEOREM Invariance == Spec => []Inv
<1>1. Inv /\ [Next]_vars => Inv'
  <2> SUFFICES ASSUME Inv, [Next]_vars PROVE Inv'
    OBVIOUS
  <2>1. CASE Next
    BY <2>1, ForgotKeepsInv, ResetKeepsInv DEF Next
  <2>2. CASE UNCHANGED vars
    BY <2>2 DEF vars, tokenVars, resetVars, Inv, TypeOK, InsertedOnce, HeldTokenExists,
                WroteLate, SpentTokenIsDead, LinkDiesByReset
  <2> QED BY <2>1, <2>2
<1> QED BY InitInv, <1>1, PTL DEF Spec

(* Type correctness, with the link between a request and its token. *)
THEOREM TypeCorrect == Spec => []TypeOK
  BY Invariance, PTL DEF Inv

(* One bookkeeping write retires the token, for any number of requests     *)
(* running beside each other.                                              *)
THEOREM SpentStaysDead == Spec => []SpentTokenIsDead
  BY Invariance, PTL DEF Inv

(* No failing request burns a link.                                        *)
THEOREM LinkNotBurnt == Spec => []LinkDiesByReset
  BY Invariance, PTL DEF Inv

-----------------------------------------------------------------------------
(* What the handlers know where they are. *)
RegisterFlow ==
  \A g \in Registers :
    /\ gpc[g] \in {"name", "mail", "create", "conflict", "clash"} => g \notin accounts
    /\ gpc[g] \in {"sign", "created"} => g \in accounts
    /\ issued[g] # None => gpc[g] = "created"

LoginFlow ==
  \A l \in Logins :
    /\ lpc[l] \in {"begin", "lookup"} => row[l] = None
    /\ lpc[l] \in {"verify", "sign", "ok"} => row[l] # None
    /\ lpc[l] \in {"sign", "ok"} => lpw[l] = row[l].hash
    /\ row[l] # None => form[row[l].id].name = lname[l] /\ row[l].hash \notin outdated[l]
    /\ issued[l] # None => lpc[l] = "ok"

(* A password that was replaced before a login began is never set again:   *)
(* every registration and every reset sets its own, once.                  *)
NoReturn ==
  \A l \in Logins :
    /\ outdated[l] \subseteq accounts \cup {r \in Resets : rpc[r] \in Changed}
    /\ \A a \in accounts : pw[a] \notin outdated[l]

ResetTypes == rpc \in [Resets -> {"check", "update", "mark", "delete", "ok", "refused", "failed"}]

AccountsInv ==
  /\ ResetTypes /\ AccountsTypeOK /\ RegisterFlow /\ LoginFlow /\ NoReturn
  /\ UniqueAccounts /\ RefusalIsFounded

-----------------------------------------------------------------------------
(* A behaviour of Accounts is one of PasswordReset. *)
THEOREM AccountsResets == AccountsSpec => Spec
<1>1. AccountsInit => Init
  BY DEF AccountsInit
<1>2. ASSUME [AccountsNext]_allVars PROVE [Next]_vars
  <2>1. CASE \E g \in Registers : RegisterUser(g)
    BY <2>1 DEF RegisterUser, CheckName, CheckMail, CreateUser, SignRegistration
  <2>2. CASE \E l \in Logins : LoginUser(l)
    BY <2>2 DEF LoginUser, BeginLogin, Lookup, Verify, SignLogin
  <2>3. CASE \E t \in Tokens : Forgot(t)
    BY <2>3 DEF Forgot, Next
  <2>4. CASE \E r \in Resets : Reset(r)
    BY <2>4 DEF Reset, Next
  <2>5. CASE Tick
    BY <2>5 DEF Tick
  <2>6. CASE UNCHANGED allVars
    BY <2>6 DEF allVars
  <2> QED BY <1>2, <2>1, <2>2, <2>3, <2>4, <2>5, <2>6 DEF AccountsNext
<1> QED BY <1>1, <1>2, PTL DEF AccountsSpec, Spec

(* What was proved of the reset tokens holds beside registration and login. *)
THEOREM ResetsCarryOver == AccountsSpec => [](TypeOK /\ SpentTokenIsDead /\ LinkDiesByReset)
  BY AccountsResets, Invariance, PTL DEF Inv

-----------------------------------------------------------------------------
LEMMA AccountsInitInv == AccountsInit => AccountsInv
  BY AccountsAssumption
  DEF AccountsInit, Init, AccountsInv, ResetTypes, AccountsTypeOK, RegisterFlow, LoginFlow,
      NoReturn, UniqueAccounts, RefusalIsFounded, Sessions

(* The steps of a registration. *)
LEMMA CheckKeepsInv ==
  ASSUME AccountsInv, NEW g \in Registers, CheckName(g) \/ CheckMail(g)
  PROVE  AccountsInv'
<1> USE AccountsAssumption
<1>1. /\ UNCHANGED <<vars, form, accounts, pw, loginVars, tokenState>>
      /\ gpc[g] \in {"name", "mail"}
      /\ \E at \in {"mail", "create", "conflict", "failed"} : gpc' = [gpc EXCEPT ![g] = at]
      /\ gpc'[g] = "conflict" => Named(form[g].name) \cup Mailed(form[g].mail) # {}
  BY DEF CheckName, CheckMail, GGoto, AccountsInv, AccountsTypeOK
<1>2. UNCHANGED <<form, accounts, pw, lpc, lname, lpw, row, outdated, hour, issued, rpc>>
  BY <1>1 DEF vars, resetVars, loginVars, tokenState
<1>3. ResetTypes' /\ AccountsTypeOK'
  BY <1>1, <1>2 DEF AccountsInv, ResetTypes, AccountsTypeOK
<1>4. RegisterFlow'
  BY <1>1, <1>2 DEF AccountsInv, AccountsTypeOK, RegisterFlow
<1>5. LoginFlow' /\ NoReturn' /\ UniqueAccounts'
  BY <1>2 DEF AccountsInv, LoginFlow, NoReturn, UniqueAccounts
<1>6. RefusalIsFounded'
  BY <1>1, <1>2 DEF AccountsInv, AccountsTypeOK, RegisterFlow, RefusalIsFounded, Named, Mailed
<1> QED BY <1>3, <1>4, <1>5, <1>6 DEF AccountsInv

LEMMA CreateKeepsInv ==
  ASSUME AccountsInv, NEW g \in Registers, CreateUser(g)
  PROVE  AccountsInv'
<1> USE AccountsAssumption
<1>1. /\ gpc[g] = "create" /\ g \notin accounts
      /\ UNCHANGED <<form, lpc, lname, lpw, row, outdated, hour, issued, rpc>>
  BY DEF CreateUser, vars, resetVars, loginVars, tokenState, AccountsInv, RegisterFlow
<1>2. CASE Insert(g) /\ (GGoto(g, "sign") \/ GGoto(g, "failed"))
  <2>1. /\ accounts' = accounts \cup {g} /\ pw' = [pw EXCEPT ![g] = g]
        /\ \E at \in {"sign", "failed"} : gpc' = [gpc EXCEPT ![g] = at]
        /\ \A a \in accounts : form[a].name # form[g].name /\ form[a].mail # form[g].mail
    BY <1>2 DEF Insert, Clash, Named, Mailed, GGoto
  <2>2. ResetTypes' /\ AccountsTypeOK'
    BY <1>1, <2>1 DEF AccountsInv, ResetTypes, AccountsTypeOK, Passwords
  <2>3. RegisterFlow'
    BY <1>1, <2>1 DEF AccountsInv, AccountsTypeOK, RegisterFlow
  <2>4. LoginFlow'
    BY <1>1 DEF AccountsInv, LoginFlow
  <2>5. NoReturn'
    BY <1>1, <2>1 DEF AccountsInv, AccountsTypeOK, NoReturn
  <2>6. UniqueAccounts'
    BY <1>1, <2>1 DEF AccountsInv, UniqueAccounts
  <2>7. RefusalIsFounded'
    BY <1>1, <2>1 DEF AccountsInv, AccountsTypeOK, RefusalIsFounded
  <2> QED BY <2>2, <2>3, <2>4, <2>5, <2>6, <2>7 DEF AccountsInv
<1>3. CASE ~(Insert(g) /\ (GGoto(g, "sign") \/ GGoto(g, "failed")))
  <2>1. /\ UNCHANGED <<accounts, pw>>
        /\ \E at \in {"clash", "failed"} : gpc' = [gpc EXCEPT ![g] = at]
        /\ gpc'[g] = "clash" =>
             \E a \in accounts : form[a].name = form[g].name \/ form[a].mail = form[g].mail
    BY <1>1, <1>3 DEF CreateUser, Clash, Named, Mailed, GGoto, AccountsInv, AccountsTypeOK
  <2>2. ResetTypes' /\ AccountsTypeOK'
    BY <1>1, <2>1 DEF AccountsInv, ResetTypes, AccountsTypeOK
  <2>3. RegisterFlow'
    BY <1>1, <2>1 DEF AccountsInv, AccountsTypeOK, RegisterFlow
  <2>4. LoginFlow' /\ NoReturn' /\ UniqueAccounts'
    BY <1>1, <2>1 DEF AccountsInv, LoginFlow, NoReturn, UniqueAccounts
  <2>5. RefusalIsFounded'
    BY <1>1, <2>1 DEF AccountsInv, AccountsTypeOK, RefusalIsFounded
  <2> QED BY <2>2, <2>3, <2>4, <2>5 DEF AccountsInv
<1> QED BY <1>2, <1>3

LEMMA SignRegistrationKeepsInv ==
  ASSUME AccountsInv, NEW g \in Registers, SignRegistration(g)
  PROVE  AccountsInv'
<1> USE AccountsAssumption
<1>1. /\ gpc[g] = "sign"
      /\ UNCHANGED <<form, accounts, pw, lpc, lname, lpw, row, outdated, hour, rpc>>
      /\ \/ gpc' = [gpc EXCEPT ![g] = "created"] /\ issued' = [issued EXCEPT ![g] = hour]
         \/ gpc' = [gpc EXCEPT ![g] = "failed"] /\ issued' = issued
  BY DEF SignRegistration, Sign, GGoto, vars, resetVars, loginVars, tokenState
<1>2. ResetTypes' /\ AccountsTypeOK'
  <2>1. issued' \in [Sessions -> 0..hour \cup {None}]
    BY <1>1 DEF AccountsInv, AccountsTypeOK
  <2>2. gpc' \in [Registers -> {"name", "mail", "create", "sign", "created", "conflict",
                               "clash", "failed"}]
    BY <1>1 DEF AccountsInv, AccountsTypeOK
  <2> QED BY <1>1, <2>1, <2>2 DEF AccountsInv, ResetTypes, AccountsTypeOK
<1>3. RegisterFlow'
  BY <1>1 DEF AccountsInv, AccountsTypeOK, RegisterFlow, Sessions
<1>4. LoginFlow'
  BY <1>1 DEF AccountsInv, AccountsTypeOK, LoginFlow, Sessions
<1>5. NoReturn' /\ UniqueAccounts'
  BY <1>1 DEF AccountsInv, NoReturn, UniqueAccounts
<1>6. RefusalIsFounded'
  BY <1>1 DEF AccountsInv, AccountsTypeOK, RefusalIsFounded
<1> QED BY <1>2, <1>3, <1>4, <1>5, <1>6 DEF AccountsInv

-----------------------------------------------------------------------------
(* The steps of a login. *)
LEMMA BeginLoginKeepsInv ==
  ASSUME AccountsInv, NEW l \in Logins, NEW n \in Names, NEW p \in Passwords,
         BeginLogin(l, n, p)
  PROVE  AccountsInv'
<1> USE AccountsAssumption
<1>1. /\ lpc[l] = "begin" /\ lpc' = [lpc EXCEPT ![l] = "lookup"]
      /\ lname' = [lname EXCEPT ![l] = n] /\ lpw' = [lpw EXCEPT ![l] = p]
      /\ outdated' = [outdated EXCEPT ![l] = Replaced]
      /\ UNCHANGED <<form, accounts, pw, gpc, row, hour, issued, rpc>>
  BY DEF BeginLogin, LGoto, vars, resetVars, registerVars, tokenState
<1>2. /\ Replaced \subseteq accounts \cup {r \in Resets : rpc[r] \in Changed}
      /\ \A a \in accounts : pw[a] \notin Replaced
  BY DEF Replaced
<1>3. ResetTypes' /\ AccountsTypeOK'
  BY <1>1, <1>2 DEF AccountsInv, ResetTypes, AccountsTypeOK, Passwords
<1>4. RegisterFlow' /\ UniqueAccounts' /\ RefusalIsFounded'
  BY <1>1 DEF AccountsInv, RegisterFlow, UniqueAccounts, RefusalIsFounded
<1>5. LoginFlow'
  BY <1>1 DEF AccountsInv, AccountsTypeOK, LoginFlow
<1>6. NoReturn'
  BY <1>1, <1>2 DEF AccountsInv, AccountsTypeOK, NoReturn
<1> QED BY <1>3, <1>4, <1>5, <1>6 DEF AccountsInv

LEMMA LookupKeepsInv ==
  ASSUME AccountsInv, NEW l \in Logins, Lookup(l)
  PROVE  AccountsInv'
<1> USE AccountsAssumption
<1>1. /\ lpc[l] = "lookup"
      /\ UNCHANGED <<form, accounts, pw, gpc, lname, lpw, outdated, hour, issued, rpc>>
  BY DEF Lookup, vars, resetVars, registerVars, tokenState
<1>2. CASE /\ lpc' = [lpc EXCEPT ![l] = "failed"] /\ row' = row
  <2>1. ResetTypes' /\ AccountsTypeOK'
    BY <1>1, <1>2 DEF AccountsInv, ResetTypes, AccountsTypeOK
  <2>2. LoginFlow'
    BY <1>1, <1>2 DEF AccountsInv, AccountsTypeOK, LoginFlow
  <2> QED BY <1>1, <2>1, <2>2 DEF AccountsInv, RegisterFlow, NoReturn, UniqueAccounts,
                                  RefusalIsFounded
<1>3. ASSUME NEW a \in accounts, form[a].name = lname[l],
             row' = [row EXCEPT ![l] = [id |-> a, hash |-> pw[a]]],
             lpc' = [lpc EXCEPT ![l] = "verify"]
      PROVE  AccountsInv'
  <2>1. /\ pw[a] \in Passwords /\ pw[a] \notin outdated[l]
        /\ [id |-> a, hash |-> pw[a]] \in [id : Registers, hash : Passwords]
    BY DEF AccountsInv, AccountsTypeOK, NoReturn
  <2>2. ResetTypes' /\ AccountsTypeOK'
    BY <1>1, <1>3, <2>1 DEF AccountsInv, ResetTypes, AccountsTypeOK
  <2>3. LoginFlow'
    BY <1>1, <1>3, <2>1 DEF AccountsInv, AccountsTypeOK, LoginFlow
  <2> QED BY <1>1, <2>2, <2>3 DEF AccountsInv, RegisterFlow, NoReturn, UniqueAccounts,
                                  RefusalIsFounded
<1> QED BY <1>2, <1>3 DEF Lookup, Named, LGoto

LEMMA VerifyKeepsInv ==
  ASSUME AccountsInv, NEW l \in Logins, Verify(l)
  PROVE  AccountsInv'
<1> USE AccountsAssumption
<1>1. /\ lpc[l] = "verify"
      /\ \/ lpc' = [lpc EXCEPT ![l] = "sign"] /\ lpw[l] = row[l].hash
         \/ lpc' = [lpc EXCEPT ![l] = "refused"]
      /\ UNCHANGED <<form, accounts, pw, gpc, lname, lpw, row, outdated, hour, issued, rpc>>
  BY DEF Verify, LGoto, vars, resetVars, registerVars, tokenState
<1>2. ResetTypes' /\ AccountsTypeOK'
  BY <1>1 DEF AccountsInv, ResetTypes, AccountsTypeOK
<1>3. LoginFlow'
  BY <1>1 DEF AccountsInv, AccountsTypeOK, LoginFlow
<1> QED BY <1>1, <1>2, <1>3 DEF AccountsInv, RegisterFlow, NoReturn, UniqueAccounts,
                                RefusalIsFounded

LEMMA SignLoginKeepsInv ==
  ASSUME AccountsInv, NEW l \in Logins, SignLogin(l)
  PROVE  AccountsInv'
<1> USE AccountsAssumption
<1>1. /\ lpc[l] = "sign"
      /\ \/ lpc' = [lpc EXCEPT ![l] = "ok"] /\ issued' = [issued EXCEPT ![l] = hour]
         \/ lpc' = [lpc EXCEPT ![l] = "failed"] /\ issued' = issued
      /\ UNCHANGED <<form, accounts, pw, gpc, lname, lpw, row, outdated, hour, rpc>>
  BY DEF SignLogin, Sign, LGoto, vars, resetVars, registerVars, tokenState
<1>2. ResetTypes' /\ AccountsTypeOK'
  BY <1>1 DEF AccountsInv, ResetTypes, AccountsTypeOK, Sessions
<1>3. RegisterFlow'
  BY <1>1 DEF AccountsInv, AccountsTypeOK, RegisterFlow, Sessions
<1>4. LoginFlow'
  BY <1>1 DEF AccountsInv, AccountsTypeOK, LoginFlow, Sessions
<1> QED BY <1>1, <1>2, <1>3, <1>4 DEF AccountsInv, NoReturn, UniqueAccounts, RefusalIsFounded

-----------------------------------------------------------------------------
(* The steps of the password reset, and the clock. *)
LEMMA ForgotKeepsAccounts ==
  ASSUME AccountsInv, NEW t \in Tokens, Forgot(t)
  PROVE  AccountsInv'
<1>1. UNCHANGED <<form, accounts, pw, gpc, lpc, lname, lpw, row, outdated, hour, issued, rpc>>
  BY DEF Forgot, accountVars, registerVars, loginVars, tokenState, ForgotPassword, CreateToken,
         SendMail, Expire, resetVars
<1> QED BY <1>1 DEF AccountsInv, ResetTypes, AccountsTypeOK, RegisterFlow, LoginFlow, NoReturn,
                    UniqueAccounts, RefusalIsFounded, Sessions

(* A reset leaves the passwords alone, or sets its own, for the first time. *)
LEMMA ResetKeepsAccounts ==
  ASSUME AccountsInv, NEW r \in Resets, Reset(r)
  PROVE  AccountsInv'
<1> USE AccountsAssumption
<1>1. UNCHANGED <<form, accounts, gpc, lpc, lname, lpw, row, outdated, hour, issued>>
  BY DEF Reset, registerVars, loginVars, tokenState
<1>2. /\ \E at \in {"update", "mark", "delete", "ok", "refused", "failed"} :
           rpc' = [rpc EXCEPT ![r] = at]
      /\ rpc[r] \in Changed => rpc'[r] \in Changed
  BY DEF Reset, ResetPassword, CheckToken, UpdateUserPassword, MarkUsed, DeleteUserTokens,
         RGoto, Changed, AccountsInv, ResetTypes
<1>3. /\ pw' \in [Registers -> Passwords \cup {None}]
      /\ \A a \in Registers :
           \/ pw'[a] = pw[a]
           \/ a \in accounts /\ pw'[a] = r /\ rpc[r] = "update"
  BY DEF Reset, Mailed, Passwords, AccountsInv, AccountsTypeOK
<1>4. ResetTypes' /\ AccountsTypeOK'
  BY <1>1, <1>2, <1>3 DEF AccountsInv, ResetTypes, AccountsTypeOK, Passwords
<1>5. RegisterFlow' /\ LoginFlow' /\ UniqueAccounts' /\ RefusalIsFounded'
  BY <1>1 DEF AccountsInv, RegisterFlow, LoginFlow, UniqueAccounts, RefusalIsFounded
<1>6. \A l \in Logins : outdated[l] \subseteq accounts \cup {x \in Resets : rpc'[x] \in Changed}
  BY <1>2 DEF AccountsInv, ResetTypes, NoReturn
<1>7. ASSUME NEW l \in Logins, NEW a \in accounts PROVE pw'[a] \notin outdated[l]
  <2>1. rpc[r] = "update" => r \notin outdated[l]
    BY DEF AccountsInv, AccountsTypeOK, NoReturn, Changed
  <2> QED BY <1>3, <2>1 DEF AccountsInv, AccountsTypeOK, NoReturn
<1>8. NoReturn'
  BY <1>1, <1>6, <1>7 DEF NoReturn
<1> QED BY <1>4, <1>5, <1>8 DEF AccountsInv

LEMMA TickKeepsAccounts ==
  ASSUME AccountsInv, Tick
  PROVE  AccountsInv'
<1>1. /\ hour < MaxHour /\ hour' = hour + 1
      /\ UNCHANGED <<form, accounts, pw, gpc, lpc, lname, lpw, row, outdated, issued, rpc>>
  BY DEF Tick, vars, resetVars, registerVars, loginVars
<1>2. ResetTypes' /\ AccountsTypeOK'
  BY <1>1, AccountsAssumption DEF AccountsInv, ResetTypes, AccountsTypeOK, Sessions
<1> QED BY <1>1, <1>2 DEF AccountsInv, RegisterFlow, LoginFlow, NoReturn, UniqueAccounts,
                          RefusalIsFounded

-----------------------------------------------------------------------------
(* The invariant holds in every behaviour. *)
THEOREM AccountsInvariance == AccountsSpec => []AccountsInv
<1>1. AccountsInv /\ [AccountsNext]_allVars => AccountsInv'
  <2> SUFFICES ASSUME AccountsInv, [AccountsNext]_allVars PROVE AccountsInv'
    OBVIOUS
  <2>1. CASE \E g \in Registers : RegisterUser(g)
    BY <2>1, CheckKeepsInv, CreateKeepsInv, SignRegistrationKeepsInv DEF RegisterUser
  <2>2. CASE \E l \in Logins : LoginUser(l)
    BY <2>2, BeginLoginKeepsInv, LookupKeepsInv, VerifyKeepsInv, SignLoginKeepsInv DEF LoginUser
  <2>3. CASE \E t \in Tokens : Forgot(t)
    BY <2>3, ForgotKeepsAccounts
  <2>4. CASE \E r \in Resets : Reset(r)
    BY <2>4, ResetKeepsAccounts
  <2>5. CASE Tick
    BY <2>5, TickKeepsAccounts
  <2>6. CASE UNCHANGED allVars
    BY <2>6 DEF allVars, vars, resetVars, accountVars, registerVars, loginVars, tokenState,
       AccountsInv, ResetTypes, AccountsTypeOK, RegisterFlow, LoginFlow, NoReturn,
       UniqueAccounts, RefusalIsFounded, Sessions
  <2> QED BY <2>1, <2>2, <2>3, <2>4, <2>5, <2>6 DEF AccountsNext
<1> QED BY AccountsInitInv, <1>1, PTL DEF AccountsSpec

(* Accounts, handlers and tokens keep their types. *)
THEOREM AccountsTypeCorrect == AccountsSpec => []AccountsTypeOK
  BY AccountsInvariance, PTL DEF AccountsInv

(* However many registrations race (auth_service.go:38), no two accounts   *)
(* share a name or an address.                                             *)
THEOREM AccountsAreUnique == AccountsSpec => []UniqueAccounts
  BY AccountsInvariance, PTL DEF AccountsInv

(* No registration is refused without an account that has its name or its  *)
(* address.                                                                *)
THEOREM NoMutualRefusal == AccountsSpec => []RefusalIsFounded
  BY AccountsInvariance, PTL DEF AccountsInv

(* A request with the ID of a user carries the token of its registration,  *)
(* or of a login that gave a password no reset had replaced when it began, *)
(* and its name and its ID lead to the same account.                       *)
THEOREM SessionsAreAuthentic == AccountsSpec => []ServedIsAuthentic
<1>1. AccountsInv => ServedIsAuthentic
  <2> SUFFICES ASSUME AccountsInv, NEW q \in Requests, Served(q), UserContext(q).id # None
               PROVE  LET user == UserContext(q) IN
                        /\ user.id \in accounts /\ Named(user.name) = {user.id}
                        /\ q.token \in Logins => /\ user.name = lname[q.token]
                                                 /\ lpw[q.token] \notin outdated[q.token]
    BY DEF ServedIsAuthentic
  <2>1. q.token \in Sessions /\ q.token # None /\ issued[q.token] # None
    BY DEF Requests, Served, UserContext, Valid
  <2>2. Claimed(q.token) \in accounts
    BY <2>1, AccountsAssumption
    DEF AccountsInv, AccountsTypeOK, RegisterFlow, LoginFlow, Claimed, Sessions
  <2>3. q.token \in Logins => /\ form[Claimed(q.token)].name = lname[q.token]
                              /\ lpw[q.token] \notin outdated[q.token]
    BY <2>1, AccountsAssumption
    DEF AccountsInv, AccountsTypeOK, LoginFlow, Claimed, Sessions
  <2>4. Named(form[Claimed(q.token)].name) = {Claimed(q.token)}
    BY <2>2 DEF AccountsInv, UniqueAccounts, Named
  <2>5. UserContext(q) = [id |-> Claimed(q.token), name |-> form[Claimed(q.token)].name]
    BY <2>1 DEF UserContext
  <2> QED BY <2>2, <2>3, <2>4, <2>5
<1> QED BY <1>1, AccountsInvariance, PTL
=============================================================================
