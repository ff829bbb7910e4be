------------------------------ MODULE Accounts ------------------------------
(***************************************************************************)
(* Registration, login and the tokens of a session                         *)
(* (backend/business/auth_service.go, jwt_service.go,                      *)
(* backend/cmd/jwt_middleware.go), composed with the password reset of one *)
(* account.  A handler is a sequence of statements, none in a transaction  *)
(* with another; handlers run concurrently, and every statement may fail.  *)
(*                                                                         *)
(* An account is named after the registration that made it.  Registration  *)
(* g chooses the password g, reset r the password r: all differ.           *)
(***************************************************************************)
EXTENDS PasswordReset, Integers

CONSTANTS
  Registers,   \* calls of RegisterUser
  Logins,      \* calls of LoginUser
  Names,       \* user names
  Mails,       \* addresses
  ForgotMail,  \* the address that the calls of ForgotPassword name
  Lifetime,    \* ExpiryHours and the leeway together
  MaxHour,     \* bound: the clock stops here
  None         \* no password, no account, no token

Passwords == Registers \cup Resets

ASSUME AccountsAssumption ==
  /\ ForgotMail \in Mails /\ Lifetime \in Nat \ {0} /\ MaxHour \in Nat
  /\ Registers \cap (Logins \cup Resets) = {}
  /\ None \notin Logins
  /\ None \notin Passwords \cup Names /\ None \notin [id : Registers, hash : Passwords]

VARIABLES
  form,      \* the name and the address of a registration
  accounts,  \* rows of users
  pw,        \* password_hash of an account
  gpc,       \* control point of a registration
  lpc,       \* control point of a login
  lname,     \* the name it gives
  lpw,       \* the password it gives
  row,       \* the account it has found, with its hash
  outdated,  \* history: passwords replaced before the login began
  hour,      \* the time
  issued     \* when the token of a registration or a login was signed

registerVars == <<form, accounts, gpc>>
loginVars == <<lpc, lname, lpw, row, outdated>>
tokenState == <<hour, issued>>
accountVars == <<registerVars, pw, loginVars, tokenState>>
allVars == <<vars, accountVars>>

Sessions == Registers \cup Logins

AccountsTypeOK ==
  /\ form \in [Registers -> [name : Names, mail : Mails]]
  /\ accounts \subseteq Registers
  /\ pw \in [Registers -> Passwords \cup {None}]
  /\ \A g \in Registers : g \in accounts <=> pw[g] # None
  /\ gpc \in [Registers -> {"name", "mail", "create", "sign", "created", "conflict", "clash", "failed"}]
  /\ lpc \in [Logins -> {"begin", "lookup", "verify", "sign", "ok", "refused", "failed"}]
  /\ lname \in [Logins -> Names \cup {None}]
  /\ lpw \in [Logins -> Passwords \cup {None}]
  /\ row \in [Logins -> [id : accounts, hash : Passwords] \cup {None}]
  /\ outdated \in [Logins -> SUBSET Passwords]
  /\ hour \in 0..MaxHour
  /\ issued \in [Sessions -> 0..hour \cup {None}]

AccountsInit ==
  /\ Init
  /\ form \in [Registers -> [name : Names, mail : Mails]]
  /\ accounts = {}
  /\ pw = [g \in Registers |-> None]
  /\ gpc = [g \in Registers |-> "name"]
  /\ lpc = [l \in Logins |-> "begin"]
  /\ lname = [l \in Logins |-> None]
  /\ lpw = [l \in Logins |-> None]
  /\ row = [l \in Logins |-> None]
  /\ outdated = [l \in Logins |-> {}]
  /\ hour = 0
  /\ issued = [x \in Sessions |-> None]

Named(n) == {a \in accounts : form[a].name = n}

Mailed(m) == {a \in accounts : form[a].mail = m}

\* Mutant: the time of expiry is written where the time of issue belongs.
SignExpiry(x) == issued' = [issued EXCEPT ![x] = hour + Lifetime] /\ UNCHANGED hour

(* GenerateToken. *)
Sign(x) == issued' = [issued EXCEPT ![x] = hour] /\ UNCHANGED hour

-----------------------------------------------------------------------------
(* RegisterUser.  The UNIQUE constraints of users decide between two       *)
(* registrations that have both passed the checks.                         *)

GGoto(g, at) == gpc' = [gpc EXCEPT ![g] = at]

\* Mutant: an error of the query is answered like a name that is taken.
CheckNameErrorTaken(g) ==
  /\ gpc[g] = "name"
  /\ \/ Named(form[g].name) # {} /\ GGoto(g, "conflict")
     \/ Named(form[g].name) = {} /\ GGoto(g, "mail")
     \/ GGoto(g, "conflict")
  /\ UNCHANGED <<vars, form, accounts, pw, loginVars, tokenState>>

CheckName(g) ==
  /\ gpc[g] = "name"
  /\ \/ Named(form[g].name) # {} /\ GGoto(g, "conflict")
     \/ Named(form[g].name) = {} /\ GGoto(g, "mail")
     \/ GGoto(g, "failed")
  /\ UNCHANGED <<vars, form, accounts, pw, loginVars, tokenState>>

(* The query, or hashing the password, may fail. *)
CheckMail(g) ==
  /\ gpc[g] = "mail"
  /\ \/ Mailed(form[g].mail) # {} /\ GGoto(g, "conflict")
     \/ Mailed(form[g].mail) = {} /\ GGoto(g, "create")
     \/ GGoto(g, "failed")
  /\ UNCHANGED <<vars, form, accounts, pw, loginVars, tokenState>>

\* Mutant: only the name is UNIQUE, the address is left to the check.
ClashOfNames(g) == Named(form[g].name)

Clash(g) == Named(form[g].name) \cup Mailed(form[g].mail)

Insert(g) ==
  /\ Clash(g) = {}
  /\ accounts' = accounts \cup {g}
  /\ pw' = [pw EXCEPT ![g] = g]

(* A duplicate and any other error are answered alike, with a 500; the     *)
(* error may also be that of a connection lost after the row was written.  *)
CreateUser(g) ==
  /\ gpc[g] = "create"
  /\ \/ Insert(g) /\ (GGoto(g, "sign") \/ GGoto(g, "failed"))
     \/ Clash(g) # {} /\ GGoto(g, "clash") /\ UNCHANGED <<accounts, pw>>
     \/ GGoto(g, "failed") /\ UNCHANGED <<accounts, pw>>
  /\ UNCHANGED <<vars, form, loginVars, tokenState>>

(* An account whose token cannot be signed stays. *)
SignRegistration(g) ==
  /\ gpc[g] = "sign"
  /\ \/ GGoto(g, "created") /\ Sign(g)
     \/ GGoto(g, "failed") /\ UNCHANGED tokenState
  /\ UNCHANGED <<vars, form, accounts, pw, loginVars>>

RegisterUser(g) == CheckName(g) \/ CheckMail(g) \/ CreateUser(g) \/ SignRegistration(g)

-----------------------------------------------------------------------------
(* LoginUser. *)

LGoto(l, at) == lpc' = [lpc EXCEPT ![l] = at]

(* What registrations and resets have set, and no account has any more. *)
Replaced ==
  (accounts \cup {r \in Resets : rpc[r] \in Changed}) \ {pw[a] : a \in accounts}

BeginLogin(l, n, p) ==
  /\ lpc[l] = "begin" /\ LGoto(l, "lookup")
  /\ lname' = [lname EXCEPT ![l] = n]
  /\ lpw' = [lpw EXCEPT ![l] = p]
  /\ outdated' = [outdated EXCEPT ![l] = Replaced]
  /\ UNCHANGED <<vars, registerVars, pw, row, tokenState>>

(* GetUserByUsernameWithPassword; a name of nobody is an error as well. *)
Lookup(l) ==
  /\ lpc[l] = "lookup"
  /\ \/ \E a \in Named(lname[l]) :
          row' = [row EXCEPT ![l] = [id |-> a, hash |-> pw[a]]] /\ LGoto(l, "verify")
     \/ LGoto(l, "failed") /\ UNCHANGED row
  /\ UNCHANGED <<vars, registerVars, pw, lname, lpw, outdated, tokenState>>

\* Mutant: only an unexpected error of the comparison refuses.
VerifyLenient(l) ==
  /\ lpc[l] = "verify"
  /\ LGoto(l, "sign") \/ LGoto(l, "refused")
  /\ UNCHANGED <<vars, registerVars, pw, lname, lpw, row, outdated, tokenState>>

Verify(l) ==
  /\ lpc[l] = "verify"
  /\ LGoto(l, IF lpw[l] = row[l].hash THEN "sign" ELSE "refused")
  /\ UNCHANGED <<vars, registerVars, pw, lname, lpw, row, outdated, tokenState>>

SignLogin(l) ==
  /\ lpc[l] = "sign"
  /\ \/ LGoto(l, "ok") /\ Sign(l)
     \/ LGoto(l, "failed") /\ UNCHANGED tokenState
  /\ UNCHANGED <<vars, registerVars, pw, lname, lpw, row, outdated>>

LoginUser(l) ==
  \/ \E n \in Names, p \in Passwords : BeginLogin(l, n, p)
  \/ Lookup(l) \/ Verify(l) \/ SignLogin(l)

-----------------------------------------------------------------------------
(* The password reset of the account with the address ForgotMail. *)

Forgot(t) ==
  /\ fpc[t] = "create" => Mailed(ForgotMail) # {}
  /\ ForgotPassword(t) \/ Expire(t)
  /\ UNCHANGED accountVars

Reset(r) ==
  /\ ResetPassword(r)
  /\ pw' = [a \in Registers |->
             IF a \in Mailed(ForgotMail) /\ rpc[r] = "update" /\ rpc'[r] = "mark" THEN r ELSE pw[a]]
  /\ UNCHANGED <<registerVars, loginVars, tokenState>>

Tick ==
  /\ hour < MaxHour /\ hour' = hour + 1
  /\ UNCHANGED <<vars, registerVars, pw, loginVars, issued>>

AccountsNext ==
  \/ \E g \in Registers : RegisterUser(g)
  \/ \E l \in Logins : LoginUser(l)
  \/ \E t \in Tokens : Forgot(t)
  \/ \E r \in Resets : Reset(r)
  \/ Tick

AccountsSpec == AccountsInit /\ [][AccountsNext]_allVars

-----------------------------------------------------------------------------
(* ValidateToken: signed, and not expired. *)
Valid(x) == issued[x] # None /\ hour < issued[x] + Lifetime

(* The user ID among the claims of a token. *)
Claimed(x) == IF x \in Registers THEN x ELSE row[x].id

(* The headers of a request that the middleware reads: Authorization, and  *)
(* the legacy X-User-Username.                                             *)
Requests == [token : Sessions \cup {None}, header : Names \cup {None}]

(* Middleware.  A token, where there is one, decides, the header counts    *)
(* only without it.                                                        *)
Served(q) == IF q.token # None THEN Valid(q.token) ELSE q.header # None

(* The user it puts into the context: of a legacy request the name alone.  *)
UserContext(q) ==
  IF q.token # None
    THEN [id |-> Claimed(q.token), name |-> form[Claimed(q.token)].name]
    ELSE [id |-> None, name |-> q.header]

-----------------------------------------------------------------------------
(* The checks and the insert of RegisterUser are three statements (line    *)
(* 38): however registrations interleave, no two accounts share a name or  *)
(* an address.                                                             *)
UniqueAccounts ==
  \A a, b \in accounts : a # b => form[a].name # form[b].name /\ form[a].mail # form[b].mail

(* Two registrations never defeat each other: one that was refused with    *)
(* 409, or lost the race to the insert, finds an account with its name or  *)
(* its address.                                                            *)
RefusalIsFounded ==
  \A g \in Registers :
    gpc[g] \in {"conflict", "clash"} =>
      \E a \in accounts \ {g} : form[a].name = form[g].name \/ form[a].mail = form[g].mail

(* A request is served with the ID of a user only with the token of the    *)
(* registration that made the account, or of a login with a password that  *)
(* no reset had replaced when the login began; resets and logins may       *)
(* overlap at will.  Its handlers reach one account, whether they go by    *)
(* the ID or by the name.  Of a request with the legacy header alone it    *)
(* says nothing: that has no ID and whatever name it gives                 *)
(* (jwt_middleware.go:54), and is served by the handlers that go by name.  *)
ServedIsAuthentic ==
  \A q \in Requests :
    LET user == UserContext(q) IN
    Served(q) /\ user.id # None =>
      /\ user.id \in accounts /\ Named(user.name) = {user.id}
      /\ q.token \in Logins => /\ user.name = lname[q.token]
                               /\ lpw[q.token] \notin outdated[q.token]
=============================================================================
