------------------------------ MODULE Accounts ------------------------------
(***************************************************************************)
(* One account, its single-use tokens and its sessions:                    *)
(* backend/src/controllers/authController.js, the session check of         *)
(* middlewares/authMiddleware.js, and what an administrator does to an     *)
(* account (adminController.js).                                           *)
(*                                                                         *)
(* A password is the number of the change that set it; whoever holds the   *)
(* mailbox holds every token that was sent.  Every handler reads, computes *)
(* a hash or waits for the mail server, and then writes: areq is what the  *)
(* requests in flight have read.  A session is a JWT; its iat is in whole  *)
(* seconds, passwordChangedAt is not.  upgradeToSeller hands out a new JWT *)
(* for an admitted one: the new one stands for the password the old one    *)
(* stood for, and since is the iat of the old one.  That a token or a JWT  *)
(* expires is a step of its own, at any time.                              *)
(***************************************************************************)
EXTENDS Naturals, Sequences, FiniteSets

CONSTANTS
    Handlers,       \* requests that can be in flight at once
    TicksPerSecond, \* resolution of the clock
    LastTick,       \* bound on the clock
    MaxTokens,      \* bound on the tokens issued
    MaxChanges      \* bound on the password changes

AccountConstants ==
    /\ TicksPerSecond \in Nat \ {0}
    /\ LastTick \in Nat \ {0}
    /\ {MaxTokens, MaxChanges} \subseteq Nat

VARIABLES
    tick,       \* the clock
    user,       \* the User row
    profile,    \* whether it has a SellerProfile
    tokens,     \* AuthToken rows in the order they were issued
    sessions,   \* JWTs that were handed out
    areq        \* requests in flight

avars == <<tick, user, profile, tokens, sessions, areq>>

StaffRoles == {"ADMIN", "STAFF"}     \* the others are like STAFF here
Roles == {"BUYER", "SELLER"} \cup StaffRoles
TokenTypes == {"EMAIL_VERIFICATION", "PASSWORD_RESET", "ADMIN_OTP"}

Passwords == 0..MaxChanges
Second(t) == t \div TicksPerSecond

User == [exists : BOOLEAN, role : Roles, isActive : BOOLEAN,
         emailVerified : BOOLEAN, password : Passwords,
         changedAt : 0..LastTick]            \* 0 for null

AuthToken == [type : TokenTypes, live : BOOLEAN, uses : Nat]

\* since is the iat of the sign-in it goes back to, its own or the one of the
\* session it was given for.
Session == [password : Passwords, iat : Nat, since : Nat]

AStages == {"idle", "register", "profile", "retire", "issue", "google",
            "googleProfile", "sign", "reset", "verify", "burn", "change",
            "upgrade"}

Request == [at : AStages, type : TokenTypes, token : Nat,
            password : Passwords, role : Roles, since : Nat]

NoReq == [at |-> "idle", type |-> "EMAIL_VERIFICATION", token |-> 0,
          password |-> 0, role |-> "BUYER", since |-> 0]

ATypeOK ==
    /\ tick \in 1..LastTick
    /\ user \in User
    /\ profile \in BOOLEAN
    /\ tokens \in Seq(AuthToken)
    /\ sessions \subseteq Session
    /\ areq \in [Handlers -> Request]

AInit ==
    /\ tick = 1
    /\ user = [exists |-> FALSE, role |-> "BUYER", isActive |-> TRUE,
               emailVerified |-> FALSE, password |-> 0, changedAt |-> 0]
    /\ profile = FALSE
    /\ tokens = <<>>
    /\ sessions = {}
    /\ areq = [h \in Handlers |-> NoReq]

-----------------------------------------------------------------------------
Handling(h, stage) == areq[h].at = stage
Accept(h, stage) ==
    /\ Handling(h, "idle")
    /\ areq' = [areq EXCEPT ![h] = [NoReq EXCEPT !.at = stage]]
Go(h, stage) == areq' = [areq EXCEPT ![h].at = stage]
Finished(h) == areq' = [areq EXCEPT ![h] = NoReq]

NumTokens == Len(tokens)
LiveTokens(type) ==
    {i \in 1..NumTokens : tokens[i].live /\ tokens[i].type = type}

\* authToken.deleteMany; one use is the answer that ends a token's purpose.
Retired(types) ==
    [i \in 1..NumTokens |->
        IF tokens[i].type \in types THEN [tokens[i] EXCEPT !.live = FALSE]
                                    ELSE tokens[i]]
Used(i, types) == [Retired(types) EXCEPT ![i].uses = @ + 1]

\* protect: the account is active and the JWT no older than the password.
Admitted(s) ==
    /\ s \in sessions
    /\ user.exists /\ user.isActive
    /\ user.changedAt # 0 => s.iat >= Second(user.changedAt)

-----------------------------------------------------------------------------
(* register: the row, the seller profile and the link are three writes.    *)

RegisterRead(h, role) ==
    /\ ~user.exists
    /\ Handling(h, "idle")
    /\ areq' = [areq EXCEPT ![h] = [NoReq EXCEPT !.at = "register", !.role = role]]
    /\ UNCHANGED <<tick, user, profile, tokens, sessions>>

\* The unique email fails the second creation.
RegisterCreate(h) ==
    /\ Handling(h, "register")
    /\ IF user.exists
       THEN Finished(h) /\ UNCHANGED user
       ELSE /\ user' = [user EXCEPT !.exists = TRUE, !.role = areq[h].role]
            /\ Go(h, IF areq[h].role = "SELLER" THEN "profile" ELSE "retire")
    /\ UNCHANGED <<tick, profile, tokens, sessions>>

\* There is one profile per account: the second creation fails the request.
MakeProfile(h, stage, next) ==
    /\ Handling(h, stage)
    /\ IF profile THEN Finished(h) ELSE Go(h, next)
    /\ profile' = TRUE
    /\ UNCHANGED <<tick, user, tokens, sessions>>

CreateProfile(h) == MakeProfile(h, "profile", "retire")

-----------------------------------------------------------------------------
(* Tokens: the old ones of the type are deleted, then one is created.      *)

AskToken(h, type) ==
    /\ user.exists
    /\ Handling(h, "idle")
    /\ areq' = [areq EXCEPT ![h] = [NoReq EXCEPT !.at = "retire", !.type = type]]
    /\ UNCHANGED <<tick, user, profile, tokens, sessions>>

ResendVerification(h) == ~user.emailVerified /\ AskToken(h, "EMAIL_VERIFICATION")

ForgotPassword(h) == AskToken(h, "PASSWORD_RESET")

\* The password was right; the code is what is still missing.
AdminLogin(h) ==
    /\ user.role \in StaffRoles /\ user.isActive /\ user.emailVerified
    /\ AskToken(h, "ADMIN_OTP")

RetireTokens(h) ==
    /\ Handling(h, "retire")
    /\ tokens' = Retired({areq[h].type})
    /\ Go(h, "issue")
    /\ UNCHANGED <<tick, user, profile, sessions>>

IssueToken(h) ==
    /\ Handling(h, "issue")
    /\ NumTokens < MaxTokens
    /\ tokens' = Append(tokens, [type |-> areq[h].type, live |-> TRUE, uses |-> 0])
    /\ Finished(h)
    /\ UNCHANGED <<tick, user, profile, sessions>>

\* findValidAuthToken, by the handler the token is for.
PurposeOf(type) ==
    CASE type = "EMAIL_VERIFICATION" -> "verify"
      [] type = "PASSWORD_RESET"     -> "reset"
      [] type = "ADMIN_OTP"          -> "burn"

FindToken(h, i) ==
    LET type == tokens[i].type
    IN  /\ tokens[i].live
        /\ type = "ADMIN_OTP" => user.role \in StaffRoles /\ user.isActive
        /\ Handling(h, "idle")
        /\ areq' = [areq EXCEPT ![h] = [NoReq EXCEPT !.at = PurposeOf(type),
                       !.token = i, !.type = type, !.password = user.password]]
        /\ UNCHANGED <<tick, user, profile, tokens, sessions>>

\* Variant: the link stays valid.
VerifyKeepToken(h) ==
    /\ Handling(h, "verify")
    /\ user' = [user EXCEPT !.emailVerified = TRUE]
    /\ tokens' = Used(areq[h].token, {})
    /\ Finished(h)
    /\ UNCHANGED <<tick, profile, sessions>>

\* verifyEmail.
VerifyCommit(h) ==
    /\ Handling(h, "verify")
    /\ user' = [user EXCEPT !.emailVerified = TRUE]
    /\ tokens' = Used(areq[h].token, {"EMAIL_VERIFICATION"})
    /\ Finished(h)
    /\ UNCHANGED <<tick, profile, sessions>>

\* resetPassword: verifies the mailbox too, and retires every token.
ResetCommit(h) ==
    /\ Handling(h, "reset")
    /\ user.password < MaxChanges
    /\ user' = [user EXCEPT !.password = @ + 1, !.emailVerified = TRUE,
                            !.changedAt = tick]
    /\ tokens' = Used(areq[h].token, TokenTypes)
    /\ Finished(h)
    /\ UNCHANGED <<tick, profile, sessions>>

\* adminVerifyCode: every code is burnt, then the session is signed.
BurnCodes(h) ==
    /\ Handling(h, "burn")
    /\ tokens' = Used(areq[h].token, {"ADMIN_OTP"})
    /\ Go(h, "sign")
    /\ UNCHANGED <<tick, user, profile, sessions>>

-----------------------------------------------------------------------------
(* Sign-in.                                                                *)

\* Variant: an address nobody has confirmed can sign in.
MayLogInUnverified == user.exists /\ user.role # "ADMIN" /\ user.isActive

MayLogIn ==
    /\ user.exists
    /\ user.role # "ADMIN"
    /\ user.isActive
    /\ user.emailVerified

\* The password compared is the one of the row that was read.
LoginRead(h) ==
    /\ MayLogIn
    /\ Handling(h, "idle")
    /\ areq' = [areq EXCEPT ![h] = [NoReq EXCEPT !.at = "sign",
                                                 !.password = user.password]]
    /\ UNCHANGED <<tick, user, profile, tokens, sessions>>

Sign(h) ==
    /\ Handling(h, "sign")
    /\ sessions' = sessions \cup {[password |-> areq[h].password,
                                   iat |-> Second(tick), since |-> Second(tick)]}
    /\ Finished(h)
    /\ UNCHANGED <<tick, user, profile, tokens>>

\* googleLogin: the account is found, or will be created.
GoogleRead(h, role) ==
    /\ Handling(h, "idle")
    /\ IF user.exists
       THEN /\ user' = [user EXCEPT !.emailVerified = TRUE]
            /\ IF user.isActive
               THEN areq' = [areq EXCEPT ![h] = [NoReq EXCEPT !.at = "sign",
                                                    !.password = user.password]]
               ELSE UNCHANGED areq
       ELSE /\ areq' = [areq EXCEPT ![h] = [NoReq EXCEPT !.at = "google",
                                                         !.role = role]]
            /\ UNCHANGED user
    /\ UNCHANGED <<tick, profile, tokens, sessions>>

GoogleCreate(h) ==
    /\ Handling(h, "google")
    /\ IF user.exists
       THEN Finished(h) /\ UNCHANGED user
       ELSE /\ user' = [user EXCEPT !.exists = TRUE, !.role = areq[h].role,
                                    !.emailVerified = TRUE]
            /\ Go(h, IF areq[h].role = "SELLER" THEN "googleProfile" ELSE "sign")
    /\ UNCHANGED <<tick, profile, tokens, sessions>>

GoogleProfile(h) == MakeProfile(h, "googleProfile", "sign")

-----------------------------------------------------------------------------
(* The signed-in user.                                                     *)

SignedIn == \E s \in sessions : Admitted(s)

\* changePassword: the current password is compared with the row read.
ChangeRead(h) ==
    /\ SignedIn
    /\ Accept(h, "change")
    /\ UNCHANGED <<tick, user, profile, tokens, sessions>>

ChangeCommit(h) ==
    /\ Handling(h, "change")
    /\ user.password < MaxChanges
    /\ user' = [user EXCEPT !.password = @ + 1, !.changedAt = tick]
    /\ tokens' = Retired(TokenTypes)
    /\ Finished(h)
    /\ UNCHANGED <<tick, profile, sessions>>

\* upgradeToSeller, by the holder of s: the role and the profile in one
\* transaction, which fails when there is a profile.
UpgradeRead(h, s) ==
    /\ Admitted(s)
    /\ user.role \notin {"SELLER", "ADMIN"}
    /\ Handling(h, "idle")
    /\ areq' = [areq EXCEPT ![h] = [NoReq EXCEPT !.at = "upgrade",
                                !.password = s.password, !.since = s.iat]]
    /\ UNCHANGED <<tick, user, profile, tokens, sessions>>

UpgradeCommit(h) ==
    /\ Handling(h, "upgrade")
    /\ IF profile
       THEN /\ Finished(h)
            /\ UNCHANGED <<user, profile, sessions>>
       ELSE /\ user' = [user EXCEPT !.role = "SELLER"]
            /\ profile' = TRUE
            /\ sessions' = sessions \cup {[password |-> areq[h].password,
                               iat |-> Second(tick), since |-> areq[h].since]}
            /\ Finished(h)
    /\ UNCHANGED <<tick, tokens>>

-----------------------------------------------------------------------------
(* Everybody else.                                                         *)

\* setUserStatus and changeUserRole.
SetActive(active) ==
    /\ user.exists /\ user.role # "ADMIN" /\ user.isActive # active
    /\ user' = [user EXCEPT !.isActive = active]
    /\ UNCHANGED <<tick, profile, tokens, sessions, areq>>

SetRole(role) ==
    /\ user.exists
    /\ user' = [user EXCEPT !.role = role]
    /\ UNCHANGED <<tick, profile, tokens, sessions, areq>>

ExpireToken(i) ==
    /\ tokens[i].live
    /\ tokens' = [tokens EXCEPT ![i].live = FALSE]
    /\ UNCHANGED <<tick, user, profile, sessions, areq>>

ExpireSession(s) ==
    /\ sessions' = sessions \ {s}
    /\ UNCHANGED <<tick, user, profile, tokens, areq>>

Tick ==
    /\ tick < LastTick
    /\ tick' = tick + 1
    /\ UNCHANGED <<user, profile, tokens, sessions, areq>>

LoseRequest(h) ==
    /\ ~Handling(h, "idle")
    /\ Finished(h)
    /\ UNCHANGED <<tick, user, profile, tokens, sessions>>

ANext ==
    \/ \E h \in Handlers :
          \/ \E role \in {"BUYER", "SELLER"} : RegisterRead(h, role) \/ GoogleRead(h, role)
          \/ RegisterCreate(h) \/ CreateProfile(h)
          \/ ResendVerification(h) \/ ForgotPassword(h) \/ AdminLogin(h)
          \/ RetireTokens(h) \/ IssueToken(h)
          \/ \E i \in 1..NumTokens : FindToken(h, i)
          \/ VerifyCommit(h) \/ ResetCommit(h) \/ BurnCodes(h)
          \/ LoginRead(h) \/ Sign(h) \/ GoogleCreate(h) \/ GoogleProfile(h)
          \/ ChangeRead(h) \/ ChangeCommit(h)
          \/ \E s \in sessions : UpgradeRead(h, s)
          \/ UpgradeCommit(h)
          \/ LoseRequest(h)
    \/ \E active \in BOOLEAN : SetActive(active)
    \/ \E role \in Roles : SetRole(role)
    \/ \E i \in 1..NumTokens : ExpireToken(i)
    \/ \E s \in sessions : ExpireSession(s)
    \/ Tick

ASpec == AInit /\ [][ANext]_avars

-----------------------------------------------------------------------------
(* However the requests interleave.                                        *)

\* 'Account is created but cannot sign in until the email is confirmed.'
SessionsAreConfirmed == sessions # {} => user.emailVerified

(* One request at a time.                                                  *)

\* 'Create a single-use token': one answer per token.
TokenUsedOnce == \A i \in 1..NumTokens : tokens[i].uses <= 1

\* 'One verification token per account', and one of each other type.
OneLiveToken == \A type \in TokenTypes : Cardinality(LiveTokens(type)) <= 1

\* 'Sessions issued BEFORE this moment are rejected': a session that is older
\* than the password was signed within the second of the change, or was given
\* for one that was.
RevokedAfterSecond ==
    \A s \in sessions : Admitted(s) /\ s.password # user.password =>
        Second(user.changedAt) \in {s.iat, s.since}

\* What single use and revocation come to.
TokensAreSpent == TokenUsedOnce /\ OneLiveToken /\ RevokedAfterSecond

(* What does not hold.                                                     *)

\* 'changing a password instantly revokes every outstanding JWT'.
RevokedInstantly ==
    \A s \in sessions : Admitted(s) => s.password = user.password

\* 'old links should no longer be able to change it back': a reset link that
\* sets the password has not been retired.
RetiredIsDead ==
    [][\A i \in 1..NumTokens :
          tokens'[i].type = "PASSWORD_RESET" /\ tokens'[i].uses > tokens[i].uses
              => tokens[i].live]_avars
=============================================================================
