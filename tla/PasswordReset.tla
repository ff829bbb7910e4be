--------------------------- MODULE PasswordReset ---------------------------
(***************************************************************************)
(* Password reset links of one user                                        *)
(* (backend/business/password_reset_service.go over the table              *)
(* password_reset_tokens).  No statement runs in a transaction with        *)
(* another; each may fail by itself, and all that are left fail when the   *)
(* client goes away and its request's context is cancelled.  Requests with *)
(* a missing or weak password and addresses of nobody change nothing and   *)
(* are left out.                                                           *)
(***************************************************************************)
CONSTANTS
  Tokens,   \* the tokens ForgotPassword may generate
  Resets    \* calls of ResetPassword

ASSUME NoneAssumption == "none" \notin Tokens

VARIABLES
  tok,      \* a token's row: not there yet, valid, used, deleted
  expired,  \* its expires_at has passed
  mailed,   \* the mail with the link went out
  fpc,      \* control point of the ForgotPassword call that makes the token
  rpc,      \* control point of a ResetPassword call
  using,    \* the token it found valid
  wrote     \* history: its mark or its deletion reached the database

tokenVars == <<tok, expired, mailed, fpc>>
resetVars == <<rpc, using, wrote>>
vars == <<tokenVars, resetVars>>

(* A reset whose token was found valid, and one that changed the password. *)
Changed == {"mark", "delete", "ok"}
Accepted == Changed \cup {"update", "failed"}

TypeOK ==
  /\ tok \in [Tokens -> {"none", "valid", "used", "deleted"}]
  /\ expired \in [Tokens -> BOOLEAN]
  /\ mailed \subseteq Tokens
  /\ fpc \in [Tokens -> {"create", "mail", "done"}]
  /\ rpc \in [Resets -> {"check", "update", "mark", "delete", "ok", "refused", "failed"}]
  /\ using \in [Resets -> Tokens \cup {"none"}]
  /\ wrote \subseteq Resets
  /\ \A r \in Resets : rpc[r] \in Accepted <=> using[r] # "none"
  /\ \A t \in mailed : tok[t] # "none"

Init ==
  /\ tok = [t \in Tokens |-> "none"]
  /\ expired = [t \in Tokens |-> FALSE]
  /\ mailed = {}
  /\ fpc = [t \in Tokens |-> "create"]
  /\ rpc = [r \in Resets |-> "check"]
  /\ using = [r \in Resets |-> "none"]
  /\ wrote = {}

RGoto(r, pc) == rpc' = [rpc EXCEPT ![r] = pc]

-----------------------------------------------------------------------------
(* ForgotPassword: a token is generated and stored for an hour, then       *)
(* mailed; a failing mail is only printed.                                 *)

CreateToken(t) ==
  /\ fpc[t] = "create"
  /\ \/ tok' = [tok EXCEPT ![t] = "valid"] /\ fpc' = [fpc EXCEPT ![t] = "mail"]
     \/ UNCHANGED tok /\ fpc' = [fpc EXCEPT ![t] = "done"]
  /\ UNCHANGED <<expired, mailed, resetVars>>

SendMail(t) ==
  /\ fpc[t] = "mail"
  /\ mailed' \in {mailed, mailed \cup {t}}
  /\ fpc' = [fpc EXCEPT ![t] = "done"]
  /\ UNCHANGED <<tok, expired, resetVars>>

Expire(t) ==
  /\ tok[t] # "none" /\ ~expired[t]
  /\ expired' = [expired EXCEPT ![t] = TRUE]
  /\ UNCHANGED <<tok, mailed, fpc, resetVars>>

-----------------------------------------------------------------------------
(* ResetPassword.  The answer is the same whether the bookkeeping after    *)
(* the new password worked or not.                                         *)

Usable(t) == tok[t] = "valid" /\ ~expired[t]

\* Mutant: an error of the query is taken for a token.
CheckTokenErrorIgnored(r, t) ==
  /\ rpc[r] = "check" /\ t \in mailed
  /\ \/ ~Usable(t) /\ RGoto(r, "refused") /\ UNCHANGED using
     \/ Usable(t) /\ RGoto(r, "update") /\ using' = [using EXCEPT ![r] = t]
     \/ RGoto(r, "update") /\ UNCHANGED using
  /\ UNCHANGED <<tokenVars, wrote>>

\* Mutant: the token is claimed when it is read, before the password is set.
CheckTokenClaims(r, t) ==
  /\ rpc[r] = "check" /\ t \in mailed
  /\ \/ ~Usable(t) /\ RGoto(r, "refused") /\ UNCHANGED <<using, tok>>
     \/ /\ Usable(t) /\ RGoto(r, "update")
        /\ using' = [using EXCEPT ![r] = t]
        /\ tok' = [tok EXCEPT ![t] = "used"]
  /\ UNCHANGED <<expired, mailed, fpc, wrote>>

(* A caller has a link only from the mail.  The query finds the row, finds *)
(* none, or fails; hashing the password may fail as well.                  *)
CheckToken(r, t) ==
  /\ rpc[r] = "check" /\ t \in mailed
  /\ \/ ~Usable(t) /\ RGoto(r, "refused") /\ UNCHANGED using
     \/ Usable(t) /\ RGoto(r, "update") /\ using' = [using EXCEPT ![r] = t]
     \/ RGoto(r, "refused") /\ UNCHANGED using
  /\ UNCHANGED <<tokenVars, wrote>>

UpdateUserPassword(r) ==
  /\ rpc[r] = "update"
  /\ RGoto(r, "mark") \/ RGoto(r, "failed")
  /\ UNCHANGED <<tokenVars, using, wrote>>

MarkUsed(r) ==
  /\ rpc[r] = "mark"
  /\ RGoto(r, "delete")
  /\ \/ UNCHANGED <<tok, wrote>>
     \/ /\ tok' = [tok EXCEPT ![using[r]] = IF @ = "valid" THEN "used" ELSE @]
        /\ wrote' = wrote \cup {r}
  /\ UNCHANGED <<expired, mailed, fpc, using>>

\* Mutant: DeleteExpiredPasswordResetTokens is called instead.
DeleteExpiredTokens(r) ==
  /\ rpc[r] = "delete"
  /\ RGoto(r, "ok")
  /\ \/ UNCHANGED <<tok, wrote>>
     \/ /\ tok' = [t \in Tokens |-> IF expired[t] THEN "deleted" ELSE tok[t]]
        /\ wrote' = wrote \cup {r}
  /\ UNCHANGED <<expired, mailed, fpc, using>>

DeleteUserTokens(r) ==
  /\ rpc[r] = "delete"
  /\ RGoto(r, "ok")
  /\ \/ UNCHANGED <<tok, wrote>>
     \/ /\ tok' = [t \in Tokens |-> IF tok[t] = "none" THEN "none" ELSE "deleted"]
        /\ wrote' = wrote \cup {r}
  /\ UNCHANGED <<expired, mailed, fpc, using>>

-----------------------------------------------------------------------------
ForgotPassword(t) == CreateToken(t) \/ SendMail(t)

ResetPassword(r) ==
  \/ \E t \in Tokens : CheckToken(r, t)
  \/ UpdateUserPassword(r) \/ MarkUsed(r) \/ DeleteUserTokens(r)

Next ==
  \/ \E t \in Tokens : ForgotPassword(t) \/ Expire(t)
  \/ \E r \in Resets : ResetPassword(r)

Spec == Init /\ [][Next]_vars

-----------------------------------------------------------------------------
(* How far "once" holds: one of the two bookkeeping writes of a reset is   *)
(* enough to retire its token for every later request, whatever became of  *)
(* the other write and of the resets it ran beside.                        *)
SpentTokenIsDead ==
  \A r \in wrote : tok[using[r]] \in {"used", "deleted"}

(* A mailed link is lost to its owner only to a new password: no failing   *)
(* step, of any request, burns a token without having changed it.          *)
LinkDiesByReset ==
  (\E t \in Tokens : tok[t] \in {"used", "deleted"})
  => \E r \in Resets : rpc[r] \in Changed

(* openapi.yaml:608: the token can only be used once.  No two requests     *)
(* change the password with the same token.                                *)
TokenUsedOnce ==
  \A q, r \in Resets :
    rpc[q] \in Changed /\ rpc[r] \in Changed /\ using[q] = using[r] => q = r
=============================================================================
