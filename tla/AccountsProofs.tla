--------------------------- MODULE AccountsProofs ---------------------------
(***************************************************************************)
(* Theorems about Accounts for every number of requests and tokens and any *)
(* resolution of the clock.                                                *)
(***************************************************************************)
EXTENDS Accounts, FiniteSetTheorems, TLAPS

-----------------------------------------------------------------------------
(* The helpers of the model.                                               *)

LEMMA RetiredFacts ==
    ASSUME tokens \in Seq(AuthToken), NEW T
    PROVE  /\ Retired(T) \in Seq(AuthToken)
           /\ Len(Retired(T)) = NumTokens
           /\ \A i \in 1..NumTokens :
                /\ Retired(T)[i].type = tokens[i].type
                /\ Retired(T)[i].uses = tokens[i].uses
                /\ Retired(T)[i].live <=> tokens[i].live /\ tokens[i].type \notin T
  <1>1. NumTokens \in Nat /\ \A i \in 1..NumTokens : tokens[i] \in AuthToken
    BY DEF NumTokens
  <1> DEFINE r(i) == IF tokens[i].type \in T THEN [tokens[i] EXCEPT !.live = FALSE]
                                             ELSE tokens[i]
  <1>2. \A i \in 1..NumTokens :
           /\ r(i) \in AuthToken /\ r(i).type = tokens[i].type
           /\ r(i).uses = tokens[i].uses
           /\ r(i).live <=> tokens[i].live /\ tokens[i].type \notin T
    BY <1>1 DEF AuthToken
  <1>3. Retired(T) = [i \in 1..NumTokens |-> r(i)]
    BY DEF Retired
  <1> HIDE DEF r
  <1> QED
    BY <1>1, <1>2, <1>3

LEMMA UsedFacts ==
    ASSUME tokens \in Seq(AuthToken), NEW T, NEW k
    PROVE  /\ Used(k, T) \in Seq(AuthToken)
           /\ Len(Used(k, T)) = NumTokens
           /\ \A i \in 1..NumTokens :
                /\ Used(k, T)[i].type = tokens[i].type
                /\ Used(k, T)[i].uses = IF i = k THEN tokens[i].uses + 1 ELSE tokens[i].uses
                /\ Used(k, T)[i].live <=> tokens[i].live /\ tokens[i].type \notin T
  <1> DEFINE R == Retired(T)
  <1>1. /\ R \in Seq(AuthToken) /\ Len(R) = NumTokens /\ NumTokens \in Nat
        /\ \A i \in 1..NumTokens :
              /\ R[i] \in AuthToken
              /\ R[i].type = tokens[i].type /\ R[i].uses = tokens[i].uses
              /\ R[i].live <=> tokens[i].live /\ tokens[i].type \notin T
    BY RetiredFacts DEF NumTokens
  <1> DEFINE u(i) == [R[i] EXCEPT !.uses = R[i].uses + 1]
  <1>2. Used(k, T) = [R EXCEPT ![k] = u(k)]
    BY DEF Used
  <1> HIDE DEF R
  <1>3. \A i \in 1..NumTokens :
           /\ u(i) \in AuthToken /\ u(i).type = R[i].type /\ u(i).live = R[i].live
           /\ u(i).uses = R[i].uses + 1
    BY <1>1 DEF AuthToken
  <1> HIDE DEF u
  <1>4. CASE k \in 1..NumTokens
    <2>1. /\ Used(k, T) \in Seq(AuthToken) /\ Len(Used(k, T)) = NumTokens
          /\ Used(k, T)[k] = u(k)
          /\ \A i \in 1..NumTokens : i # k => Used(k, T)[i] = R[i]
      BY <1>1, <1>2, <1>3, <1>4
    <2> QED
      BY <1>1, <1>3, <2>1
  <1>5. CASE k \notin 1..NumTokens
    <2>1. Used(k, T) = R
      BY <1>1, <1>2, <1>5
    <2> QED
      BY <1>1, <1>5, <2>1
  <1> QED
    BY <1>4, <1>5

\* The clock of a JWT runs with the clock.
LEMMA SecondType ==
    ASSUME AccountConstants, NEW t \in Nat
    PROVE  Second(t) \in Nat
  BY DEF AccountConstants, Second

LEMMA SecondMonotone ==
    ASSUME AccountConstants, NEW t \in Nat, NEW u \in Nat, t <= u
    PROVE  Second(t) <= Second(u)
  BY DEF AccountConstants, Second

LEMMA NoReqType == AccountConstants => NoReq \in Request
  BY DEF AccountConstants, NoReq, Request, AStages, TokenTypes, Passwords, Roles
-----------------------------------------------------------------------------
(* Types, and what an address that nobody has confirmed can have.          *)

\* The stages from which a request can go on to a session.
NeedConfirmed == {"googleProfile", "sign", "burn", "change", "upgrade"}

\* Without a confirmed address there is neither a session nor a request that
\* could end in one, and no code for a second factor.
Unconfirmed ==
    /\ sessions = {}
    /\ \A h \in Handlers : /\ areq[h].at \notin NeedConfirmed
                           /\ areq[h].type # "ADMIN_OTP"
    /\ \A i \in 1..NumTokens : tokens[i].type # "ADMIN_OTP"

CInv == ATypeOK /\ (user.emailVerified \/ Unconfirmed)

\* A request goes on.
LEMMA RequestStep ==
    ASSUME ATypeOK, NEW h \in Handlers, NEW r \in Request,
           areq' = [areq EXCEPT ![h] = r]
    PROVE  /\ areq' \in [Handlers -> Request]
           /\ areq'[h] = r
           /\ \A g \in Handlers \ {h} : areq'[g] = areq[g]
  BY DEF ATypeOK

\* A request goes on and leaves the rows alone.
LEMMA ReadOnly ==
    ASSUME CInv, NEW h \in Handlers, NEW r \in Request,
           areq' = [areq EXCEPT ![h] = r],
           UNCHANGED <<tick, user, profile, tokens, sessions>>,
           \/ user.emailVerified
           \/ /\ r.at \notin NeedConfirmed
              /\ r.type # "ADMIN_OTP"
    PROVE  CInv'
  BY RequestStep DEF CInv, ATypeOK, Unconfirmed, NumTokens

\* A request starts.
LEMMA StartInv ==
    ASSUME AccountConstants, CInv, NEW h \in Handlers,
           \/ \E role \in {"BUYER", "SELLER"} : RegisterRead(h, role)
           \/ ResendVerification(h) \/ ForgotPassword(h) \/ AdminLogin(h)
           \/ \E i \in 1..NumTokens : FindToken(h, i)
           \/ LoginRead(h) \/ ChangeRead(h)
           \/ \E s \in sessions : UpgradeRead(h, s)
           \/ LoseRequest(h)
    PROVE  CInv'
  <1> USE NoReqType DEF NeedConfirmed
  <1>1. ASSUME NEW role \in {"BUYER", "SELLER"}, RegisterRead(h, role) PROVE CInv'
    <2> DEFINE r == [NoReq EXCEPT !.at = "register", !.role = role]
    <2>1. r \in Request /\ r.at = "register" /\ r.type = "EMAIL_VERIFICATION"
      BY DEF Request, NoReq, AStages, Roles
    <2> HIDE DEF r
    <2> QED
      BY <1>1, <2>1, ReadOnly DEF RegisterRead, r
  <1>2. ASSUME NEW type \in TokenTypes, AskToken(h, type),
               user.emailVerified \/ type # "ADMIN_OTP"
        PROVE  CInv'
    <2> DEFINE r == [NoReq EXCEPT !.at = "retire", !.type = type]
    <2>1. r \in Request /\ r.at = "retire" /\ r.type = type
      BY DEF Request, NoReq, AStages
    <2> HIDE DEF r
    <2> QED
      BY <1>2, <2>1, ReadOnly DEF AskToken, r
  <1>3. ASSUME NEW i \in 1..NumTokens, FindToken(h, i) PROVE CInv'
    <2> DEFINE type == tokens[i].type
               r == [NoReq EXCEPT !.at = PurposeOf(type), !.token = i, !.type = type,
                                  !.password = user.password]
    <2>1. type \in TokenTypes /\ i \in Nat /\ user.password \in Passwords
      <3>1. tokens[i] \in AuthToken /\ i \in Nat
        BY DEF CInv, ATypeOK, NumTokens
      <3> QED
        BY <3>1 DEF CInv, ATypeOK, AuthToken, User
    <2>2. /\ PurposeOf(type) \in {"verify", "reset", "burn"}
          /\ PurposeOf(type) = "burn" => type = "ADMIN_OTP"
      BY <2>1 DEF PurposeOf, TokenTypes
    <2>3. r \in Request /\ r.at = PurposeOf(type) /\ r.type = type
      BY <2>1, <2>2 DEF Request, NoReq, AStages
    <2>4. user.emailVerified \/ type # "ADMIN_OTP"
      BY DEF CInv, Unconfirmed
    <2> HIDE DEF r, type
    <2>5. areq' = [areq EXCEPT ![h] = r] /\ UNCHANGED <<tick, user, profile, tokens, sessions>>
      BY <1>3 DEF FindToken, r, type
    <2> QED
      BY <2>2, <2>3, <2>4, <2>5, ReadOnly
  <1>4. ASSUME LoginRead(h) PROVE CInv'
    <2> DEFINE r == [NoReq EXCEPT !.at = "sign", !.password = user.password]
    <2>1. r \in Request
      BY DEF Request, NoReq, AStages, CInv, ATypeOK, User
    <2> HIDE DEF r
    <2> QED
      BY <1>4, <2>1, ReadOnly DEF LoginRead, MayLogIn, r
  <1>5. CASE ChangeRead(h)
    <2> DEFINE r == [NoReq EXCEPT !.at = "change"]
    <2>1. r \in Request
      BY DEF Request, NoReq, AStages
    <2>2. user.emailVerified
      BY <1>5 DEF ChangeRead, SignedIn, Admitted, CInv, Unconfirmed
    <2> HIDE DEF r
    <2> QED
      BY <1>5, <2>1, <2>2, ReadOnly DEF ChangeRead, Accept, r
  <1>7. ASSUME NEW s \in sessions, UpgradeRead(h, s) PROVE CInv'
    <2> DEFINE r == [NoReq EXCEPT !.at = "upgrade", !.password = s.password,
                                  !.since = s.iat]
    <2>1. s \in Session /\ user.emailVerified
      BY DEF CInv, ATypeOK, Unconfirmed
    <2>2. r \in Request
      BY <2>1 DEF Request, NoReq, AStages, Session
    <2> HIDE DEF r
    <2> QED
      BY <1>7, <2>1, <2>2, ReadOnly DEF UpgradeRead, r
  <1>6. ASSUME LoseRequest(h) PROVE CInv'
    <2>1. NoReq.at = "idle" /\ NoReq.type = "EMAIL_VERIFICATION"
      BY DEF NoReq
    <2> QED
      BY <1>6, <2>1, ReadOnly DEF LoseRequest, Finished
  <1> QED
    BY <1>1, <1>2, <1>3, <1>4, <1>5, <1>6, <1>7
    DEF ResendVerification, ForgotPassword, AdminLogin, TokenTypes

\* The request a handler goes on with, and the one it ends with.
LEMMA GoFacts ==
    ASSUME ATypeOK, NEW h \in Handlers, NEW stage \in AStages, Go(h, stage)
    PROVE  /\ areq' \in [Handlers -> Request]
           /\ areq'[h].at = stage /\ areq'[h].type = areq[h].type
           /\ areq'[h].password = areq[h].password /\ areq'[h].token = areq[h].token
           /\ areq'[h].role = areq[h].role
           /\ \A g \in Handlers \ {h} : areq'[g] = areq[g]
  <1>1. areq[h] \in Request /\ areq' = [areq EXCEPT ![h] = [areq[h] EXCEPT !.at = stage]]
    BY DEF ATypeOK, Go
  <1>2. [areq[h] EXCEPT !.at = stage] \in Request
    BY <1>1 DEF Request
  <1> QED
    BY <1>1, <1>2 DEF ATypeOK, Request

LEMMA FinishedFacts ==
    ASSUME AccountConstants, ATypeOK, NEW h \in Handlers, Finished(h)
    PROVE  /\ areq' \in [Handlers -> Request]
           /\ areq'[h] = NoReq
           /\ \A g \in Handlers \ {h} : areq'[g] = areq[g]
  BY NoReqType, RequestStep DEF Finished

LEMMA NoReqFacts ==
    /\ NoReq.at = "idle" /\ NoReq.type = "EMAIL_VERIFICATION"
    /\ NoReq.password = 0 /\ NoReq.token = 0
  BY DEF NoReq

\* An account is made.
LEMMA CreateInv ==
    ASSUME AccountConstants, CInv, NEW h \in Handlers,
           RegisterCreate(h) \/ GoogleCreate(h)
    PROVE  CInv'
  <1> USE NoReqType, NoReqFacts DEF NeedConfirmed
  <1>1. CASE Finished(h) /\ UNCHANGED user
    BY <1>1, ReadOnly DEF RegisterCreate, GoogleCreate, Finished
  <1>2. CASE RegisterCreate(h) /\ ~user.exists
    <2>1. PICK stage \in {"profile", "retire"} : Go(h, stage)
      BY <1>2 DEF RegisterCreate
    <2>2. user' \in User /\ user'.emailVerified = user.emailVerified
      BY <1>2 DEF RegisterCreate, CInv, ATypeOK, User, Request
    <2>3. UNCHANGED <<tick, profile, tokens, sessions>>
      BY <1>2 DEF RegisterCreate
    <2>4. /\ areq' \in [Handlers -> Request] /\ areq'[h].at = stage
          /\ areq'[h].type = areq[h].type
          /\ \A g \in Handlers \ {h} : areq'[g] = areq[g]
      BY <2>1, GoFacts DEF CInv, AStages
    <2>5. ATypeOK'
      BY <2>2, <2>3, <2>4 DEF CInv, ATypeOK
    <2> QED
      BY <2>2, <2>3, <2>4, <2>5 DEF CInv, Unconfirmed, NumTokens
  <1>3. CASE GoogleCreate(h) /\ ~user.exists
    <2>1. PICK stage \in {"googleProfile", "sign"} : Go(h, stage)
      BY <1>3 DEF GoogleCreate
    <2>2. user' \in User /\ user'.emailVerified
      BY <1>3 DEF GoogleCreate, CInv, ATypeOK, User, Request
    <2>3. UNCHANGED <<tick, profile, tokens, sessions>>
      BY <1>3 DEF GoogleCreate
    <2>4. areq' \in [Handlers -> Request]
      BY <2>1, GoFacts DEF CInv, AStages
    <2> QED
      BY <2>2, <2>3, <2>4 DEF CInv, ATypeOK
  <1> QED
    BY <1>1, <1>2, <1>3 DEF RegisterCreate, GoogleCreate

LEMMA CreateProfileInv ==
    ASSUME AccountConstants, CInv, NEW h \in Handlers,
           CreateProfile(h) \/ GoogleProfile(h)
    PROVE  CInv'
  <1> USE NoReqType, NoReqFacts DEF NeedConfirmed
  <1>1. \/ Finished(h)
        \/ Go(h, "sign") /\ user.emailVerified
        \/ Go(h, "retire")
    BY DEF CreateProfile, GoogleProfile, MakeProfile, Handling, CInv, Unconfirmed
  <1>2. /\ areq' \in [Handlers -> Request]
        /\ areq'[h].type \in {areq[h].type, "EMAIL_VERIFICATION"}
        /\ areq'[h].at \in {"idle", "retire"} \/ user.emailVerified
        /\ \A g \in Handlers \ {h} : areq'[g] = areq[g]
    BY <1>1, GoFacts, FinishedFacts DEF CInv, AStages
  <1>3. profile' = TRUE /\ UNCHANGED <<tick, user, tokens, sessions>>
    BY DEF CreateProfile, GoogleProfile, MakeProfile
  <1> QED
    BY <1>2, <1>3 DEF CInv, ATypeOK, Unconfirmed, NumTokens

LEMMA RetireTokensInv ==
    ASSUME AccountConstants, CInv, NEW h \in Handlers, RetireTokens(h)
    PROVE  CInv'
  <1>1. /\ tokens' \in Seq(AuthToken) /\ NumTokens' = NumTokens
        /\ \A i \in 1..NumTokens : tokens'[i].type = tokens[i].type
    BY RetiredFacts DEF RetireTokens, CInv, ATypeOK, NumTokens
  <1>2. /\ areq' \in [Handlers -> Request] /\ areq'[h].at = "issue"
        /\ areq'[h].type = areq[h].type
        /\ \A g \in Handlers \ {h} : areq'[g] = areq[g]
    BY GoFacts DEF RetireTokens, CInv, AStages
  <1>3. UNCHANGED <<tick, user, profile, sessions>>
    BY DEF RetireTokens
  <1> QED
    BY <1>1, <1>2, <1>3 DEF CInv, ATypeOK, Unconfirmed, NeedConfirmed

LEMMA IssueTokenInv ==
    ASSUME AccountConstants, CInv, NEW h \in Handlers, IssueToken(h)
    PROVE  CInv'
  <1> DEFINE t == [type |-> areq[h].type, live |-> TRUE, uses |-> 0]
  <1>1. t \in AuthToken /\ t.type = areq[h].type
    BY DEF AuthToken, CInv, ATypeOK, Request
  <1>2. tokens' = Append(tokens, t)
    BY DEF IssueToken
  <1> HIDE DEF t
  <1>3. /\ tokens' \in Seq(AuthToken) /\ NumTokens' = NumTokens + 1
        /\ tokens'[NumTokens + 1] = t
        /\ \A i \in 1..NumTokens : tokens'[i] = tokens[i]
    BY <1>1, <1>2 DEF CInv, ATypeOK, NumTokens
  <1>4. NumTokens \in Nat
    BY DEF CInv, ATypeOK, NumTokens
  <1>5. \A i \in 1..NumTokens' : tokens'[i].type \in {areq[h].type} \cup {tokens[j].type : j \in 1..NumTokens}
    BY <1>1, <1>3, <1>4
  <1>6. /\ areq' \in [Handlers -> Request] /\ areq'[h] = NoReq
        /\ \A g \in Handlers \ {h} : areq'[g] = areq[g]
    BY NoReqType, RequestStep DEF IssueToken, Finished, CInv
  <1>7. UNCHANGED <<tick, user, profile, sessions>>
    BY DEF IssueToken
  <1> QED
    BY <1>3, <1>5, <1>6, <1>7, NoReqFacts DEF CInv, ATypeOK, Unconfirmed, NeedConfirmed

\* A token is answered, or the password changed.
LEMMA CommitInv ==
    ASSUME AccountConstants, CInv, NEW h \in Handlers,
           VerifyCommit(h) \/ ResetCommit(h) \/ BurnCodes(h) \/ ChangeCommit(h)
    PROVE  CInv'
  <1>1. tokens' \in Seq(AuthToken)
    BY RetiredFacts, UsedFacts
    DEF VerifyCommit, ResetCommit, BurnCodes, ChangeCommit, CInv, ATypeOK
  <1>2. user.emailVerified \/ VerifyCommit(h) \/ ResetCommit(h)
    BY DEF BurnCodes, ChangeCommit, CInv, Unconfirmed, Handling, NeedConfirmed
  <1>3. user' \in User /\ user'.emailVerified
    <2> USE DEF CInv, ATypeOK, User
    <2>1. CASE VerifyCommit(h)
      BY <2>1 DEF VerifyCommit
    <2>2. CASE BurnCodes(h)
      BY <1>2, <2>2 DEF BurnCodes, VerifyCommit, ResetCommit, Handling
    <2>3. ASSUME user.password < MaxChanges PROVE user.password + 1 \in Passwords
      BY <2>3 DEF Passwords, AccountConstants
    <2>4. tick \in 0..LastTick
      BY DEF AccountConstants
    <2>5. CASE ResetCommit(h)
      BY <2>3, <2>4, <2>5 DEF ResetCommit
    <2>6. CASE ChangeCommit(h)
      BY <1>2, <2>3, <2>4, <2>6 DEF ChangeCommit, VerifyCommit, ResetCommit, Handling
    <2> QED
      BY <2>1, <2>2, <2>5, <2>6
  <1>4. areq' \in [Handlers -> Request]
    BY GoFacts, FinishedFacts
    DEF VerifyCommit, ResetCommit, BurnCodes, ChangeCommit, CInv, AStages
  <1>5. UNCHANGED <<tick, profile, sessions>>
    BY DEF VerifyCommit, ResetCommit, BurnCodes, ChangeCommit
  <1> QED
    BY <1>1, <1>3, <1>4, <1>5 DEF CInv, ATypeOK

\* A session is signed.
LEMMA SignInv ==
    ASSUME AccountConstants, CInv, NEW h \in Handlers, Sign(h) \/ UpgradeCommit(h)
    PROVE  CInv'
  <1>1. user.emailVerified
    BY DEF Sign, UpgradeCommit, Handling, CInv, Unconfirmed, NeedConfirmed
  <1>2. Second(tick) \in Nat
    BY SecondType DEF CInv, ATypeOK
  <1>3. sessions' \subseteq Session
    <2>1. areq[h] \in Request /\ sessions \subseteq Session
      BY DEF CInv, ATypeOK
    <2>2. \A since \in {Second(tick), areq[h].since} :
            [password |-> areq[h].password, iat |-> Second(tick), since |-> since] \in Session
      BY <1>2, <2>1 DEF Request, Session
    <2> QED
      BY <2>1, <2>2 DEF Sign, UpgradeCommit
  <1>4. user' \in User /\ user'.emailVerified /\ profile' \in BOOLEAN
    BY <1>1 DEF Sign, UpgradeCommit, CInv, ATypeOK, User, Roles
  <1>5. areq' \in [Handlers -> Request]
    BY NoReqType, RequestStep DEF Sign, UpgradeCommit, Finished, CInv
  <1>6. UNCHANGED <<tick, tokens>>
    BY DEF Sign, UpgradeCommit
  <1> QED
    BY <1>3, <1>4, <1>5, <1>6 DEF CInv, ATypeOK

LEMMA GoogleReadInv ==
    ASSUME AccountConstants, CInv, NEW h \in Handlers, NEW role \in {"BUYER", "SELLER"},
           GoogleRead(h, role)
    PROVE  CInv'
  <1>1. CASE user.exists
    <2>1. user' \in User /\ user'.emailVerified
      BY <1>1 DEF GoogleRead, CInv, ATypeOK, User
    <2>2. [NoReq EXCEPT !.at = "sign", !.password = user.password] \in Request
      BY NoReqType DEF CInv, ATypeOK, Request, User, AStages, NoReq
    <2>3. areq' \in [Handlers -> Request]
      BY <1>1, <2>2, RequestStep DEF GoogleRead, CInv, ATypeOK
    <2>4. UNCHANGED <<tick, profile, tokens, sessions>>
      BY DEF GoogleRead
    <2> QED
      BY <2>1, <2>3, <2>4 DEF CInv, ATypeOK
  <1>2. CASE ~user.exists
    <2> DEFINE r == [NoReq EXCEPT !.at = "google", !.role = role]
    <2>1. r \in Request /\ r.at = "google" /\ r.type = "EMAIL_VERIFICATION"
      BY NoReqType DEF Request, NoReq, AStages, Roles
    <2>2. areq' = [areq EXCEPT ![h] = r] /\ UNCHANGED <<tick, user, profile, tokens, sessions>>
      BY <1>2 DEF GoogleRead
    <2> HIDE DEF r
    <2> QED
      BY <2>1, <2>2, ReadOnly DEF NeedConfirmed
  <1> QED
    BY <1>1, <1>2

\* Everybody else.
LEMMA OthersInv ==
    ASSUME AccountConstants, CInv,
           \/ \E active \in BOOLEAN : SetActive(active)
           \/ \E role \in Roles : SetRole(role)
           \/ \E i \in 1..NumTokens : ExpireToken(i)
           \/ \E s \in sessions : ExpireSession(s)
           \/ Tick
           \/ UNCHANGED avars
    PROVE  CInv'
  <1>1. CASE (\E active \in BOOLEAN : SetActive(active)) \/ (\E role \in Roles : SetRole(role))
    <2>1. user' \in User /\ user'.emailVerified = user.emailVerified
      BY <1>1 DEF SetActive, SetRole, CInv, ATypeOK, User
    <2>2. UNCHANGED <<tick, profile, tokens, sessions, areq>>
      BY <1>1 DEF SetActive, SetRole
    <2> QED
      BY <2>1, <2>2 DEF CInv, ATypeOK, Unconfirmed, NumTokens
  <1>2. ASSUME NEW i \in 1..NumTokens, ExpireToken(i) PROVE CInv'
    <2>1. tokens[i] \in AuthToken
      BY DEF CInv, ATypeOK, NumTokens
    <2> DEFINE t == [tokens[i] EXCEPT !.live = FALSE]
    <2>2. t \in AuthToken /\ t.type = tokens[i].type
      BY <2>1 DEF AuthToken
    <2>3. tokens' = [tokens EXCEPT ![i] = t] /\ UNCHANGED <<tick, user, profile, sessions, areq>>
      BY <1>2 DEF ExpireToken
    <2> HIDE DEF t
    <2>4. /\ tokens' \in Seq(AuthToken) /\ NumTokens' = NumTokens
          /\ \A j \in 1..NumTokens : tokens'[j].type = tokens[j].type
      BY <2>2, <2>3 DEF CInv, ATypeOK, NumTokens
    <2> QED
      BY <2>3, <2>4 DEF CInv, ATypeOK, Unconfirmed
  <1>3. ASSUME NEW s \in sessions, ExpireSession(s) PROVE CInv'
    BY <1>3 DEF ExpireSession, CInv, ATypeOK, Unconfirmed, NumTokens
  <1>4. CASE Tick
    BY <1>4 DEF Tick, CInv, ATypeOK, Unconfirmed, NumTokens, AccountConstants
  <1>5. CASE UNCHANGED avars
    BY <1>5 DEF avars, CInv, ATypeOK, Unconfirmed, NumTokens
  <1> QED
    BY <1>1, <1>2, <1>3, <1>4, <1>5

LEMMA CInvNext ==
    ASSUME AccountConstants, CInv, [ANext]_avars
    PROVE  CInv'
  BY StartInv, CreateInv, CreateProfileInv, RetireTokensInv, IssueTokenInv, CommitInv,
     SignInv, GoogleReadInv, OthersInv DEF ANext

LEMMA CInvInit == AccountConstants /\ AInit => CInv
  <1> SUFFICES ASSUME AccountConstants, AInit PROVE CInv
    OBVIOUS
  <1>1. user \in User /\ ~user.emailVerified
    BY DEF AccountConstants, AInit, User, Roles, Passwords
  <1>2. tick \in 1..LastTick
    <2>1. tick = 1
      BY DEF AInit
    <2> QED
      BY <2>1 DEF AccountConstants
  <1>3. tokens \in Seq(AuthToken) /\ NumTokens = 0
    BY DEF AInit, NumTokens
  <1>4. areq \in [Handlers -> Request] /\ \A h \in Handlers : areq[h] = NoReq
    BY NoReqType DEF AInit
  <1>5. profile \in BOOLEAN
    BY DEF AInit
  <1>6. sessions = {} /\ sessions \subseteq Session
    BY DEF AInit
  <1>7. Unconfirmed
    BY <1>3, <1>4, <1>6, NoReqFacts DEF Unconfirmed, NeedConfirmed
  <1> QED
    BY <1>1, <1>2, <1>3, <1>4, <1>5, <1>6, <1>7 DEF CInv, ATypeOK

\* The row of the account, its tokens and its sessions are well typed, through
\* any interleaving of the requests of authController.js.
THEOREM AccountTypes == ASSUME AccountConstants PROVE ASpec => []ATypeOK
  <1>1. CInv => ATypeOK
    BY DEF CInv
  <1> QED
    BY <1>1, CInvInit, CInvNext, PTL DEF ASpec

\* Nobody has a session before the address is confirmed, by whichever of the
\* ways in and however the requests interleave (login, googleLogin, the second
\* factor of an administrator, upgradeToSeller).
THEOREM ConfirmedFirst == ASSUME AccountConstants PROVE ASpec => []SessionsAreConfirmed
  <1>1. CInv => SessionsAreConfirmed
    BY DEF CInv, Unconfirmed, SessionsAreConfirmed
  <1> QED
    BY <1>1, CInvInit, CInvNext, PTL DEF ASpec
-----------------------------------------------------------------------------
(* One request at a time.                                                  *)

OneRequest ==
    \A g, h \in Handlers : ~Handling(g, "idle") /\ ~Handling(h, "idle") => g = h

\* What a request has read is still so: the password it was let in with, the
\* token nobody has answered, the token type of which none is left.
StillSo(r) ==
    /\ r.at \notin {"idle", "register", "google"} => user.exists
    /\ r.at \in {"register", "google", "profile", "googleProfile", "sign", "burn"} =>
          r.password = user.password
    /\ r.at = "upgrade" /\ ~profile /\ r.password # user.password =>
          user.changedAt # 0 /\ r.since = Second(user.changedAt)
    /\ r.at \in {"verify", "reset", "burn"} =>
          /\ r.token \in 1..NumTokens
          /\ tokens[r.token].uses = 0
          /\ tokens[r.token].type = r.type
          /\ r.at = PurposeOf(r.type)
    /\ r.at = "issue" => \A i \in 1..NumTokens : tokens[i].type = r.type => ~tokens[i].live

TokenInv ==
    /\ \A i \in 1..NumTokens : tokens[i].uses <= 1 /\ (tokens[i].live => tokens[i].uses = 0)
    /\ \A i, j \in 1..NumTokens :
          tokens[i].live /\ tokens[j].live /\ tokens[i].type = tokens[j].type => i = j

\* A session of an earlier password is not younger than the change, or was
\* given for one of its second; without a profile none was given for another.
SessionInv ==
    \A s \in sessions :
        /\ s.iat <= Second(tick)
        /\ s.password # user.password =>
              /\ user.changedAt # 0
              /\ \/ s.iat <= Second(user.changedAt)
                 \/ s.since = Second(user.changedAt)
        /\ profile \/ s.since = s.iat

\* Before there is an account there is nothing of it.
AbsentInv ==
    \/ user.exists
    \/ user.password = 0 /\ NumTokens = 0 /\ sessions = {}

SpentInv ==
    /\ CInv
    /\ TokenInv
    /\ SessionInv
    /\ AbsentInv
    /\ \A h \in Handlers : StillSo(areq[h])

\* The requests beside the one that is served are idle.
LEMMA OthersIdle ==
    ASSUME OneRequest, OneRequest', NEW h \in Handlers,
           \A g \in Handlers \ {h} : areq'[g] = areq[g],
           areq[h].at # "idle" \/ areq'[h].at # "idle"
    PROVE  \A g \in Handlers \ {h} : StillSo(areq[g])'
  BY DEF OneRequest, Handling, StillSo

\* A request goes on and leaves the rows alone.
LEMMA SpentReadOnly ==
    ASSUME AccountConstants, SpentInv, CInv', OneRequest, OneRequest',
           NEW h \in Handlers, NEW r \in Request, areq' = [areq EXCEPT ![h] = r],
           UNCHANGED <<tick, user, profile, tokens, sessions>>,
           areq[h].at # "idle" \/ r.at # "idle",
           StillSo(r)
    PROVE  SpentInv'
  <1>1. areq'[h] = r /\ \A g \in Handlers \ {h} : areq'[g] = areq[g]
    BY RequestStep DEF SpentInv, CInv
  <1>2. \A g \in Handlers \ {h} : StillSo(areq[g])'
    BY <1>1, OthersIdle
  <1>3. StillSo(areq[h])'
    BY <1>1 DEF StillSo, NumTokens
  <1> QED
    BY <1>2, <1>3 DEF SpentInv, TokenInv, SessionInv, AbsentInv, NumTokens

LEMMA SpentStart ==
    ASSUME AccountConstants, SpentInv, CInv', OneRequest, OneRequest', NEW h \in Handlers,
           \/ \E role \in {"BUYER", "SELLER"} : RegisterRead(h, role)
           \/ ResendVerification(h) \/ ForgotPassword(h) \/ AdminLogin(h)
           \/ \E i \in 1..NumTokens : FindToken(h, i)
           \/ LoginRead(h) \/ ChangeRead(h)
           \/ \E s \in sessions : UpgradeRead(h, s)
           \/ LoseRequest(h)
    PROVE  SpentInv'
  <1> USE NoReqType, NoReqFacts
  <1>1. ASSUME NEW role \in {"BUYER", "SELLER"}, RegisterRead(h, role) PROVE SpentInv'
    <2> DEFINE r == [NoReq EXCEPT !.at = "register", !.role = role]
    <2>1. r \in Request /\ r.at = "register" /\ r.password = 0
      BY DEF Request, NoReq, AStages, Roles
    <2>2. user.password = 0
      BY <1>1 DEF RegisterRead, SpentInv, AbsentInv
    <2>3. areq' = [areq EXCEPT ![h] = r] /\ UNCHANGED <<tick, user, profile, tokens, sessions>>
      BY <1>1 DEF RegisterRead
    <2> HIDE DEF r
    <2>4. StillSo(r)
      BY <2>1, <2>2 DEF StillSo
    <2> QED
      BY <2>1, <2>3, <2>4, SpentReadOnly
  <1>2. ASSUME NEW type \in TokenTypes, AskToken(h, type) PROVE SpentInv'
    <2> DEFINE r == [NoReq EXCEPT !.at = "retire", !.type = type]
    <2>1. r \in Request /\ r.at = "retire"
      BY DEF Request, NoReq, AStages
    <2>2. /\ areq' = [areq EXCEPT ![h] = r]
          /\ UNCHANGED <<tick, user, profile, tokens, sessions>>
          /\ user.exists
      BY <1>2 DEF AskToken
    <2> HIDE DEF r
    <2>3. StillSo(r)
      BY <2>1, <2>2 DEF StillSo
    <2> QED
      BY <2>1, <2>2, <2>3, SpentReadOnly
  <1>3. ASSUME NEW i \in 1..NumTokens, FindToken(h, i) PROVE SpentInv'
    <2> DEFINE type == tokens[i].type
               r == [NoReq EXCEPT !.at = PurposeOf(type), !.token = i, !.type = type,
                                  !.password = user.password]
    <2>1. type \in TokenTypes /\ i \in Nat /\ user.password \in Passwords
      <3>1. tokens[i] \in AuthToken /\ i \in Nat
        BY DEF SpentInv, CInv, ATypeOK, NumTokens
      <3> QED
        BY <3>1 DEF SpentInv, CInv, ATypeOK, AuthToken, User
    <2>2. PurposeOf(type) \in {"verify", "reset", "burn"}
      BY <2>1 DEF PurposeOf, TokenTypes
    <2>3. /\ r \in Request /\ r.at = PurposeOf(type) /\ r.type = type
          /\ r.token = i /\ r.password = user.password
      BY <2>1, <2>2 DEF Request, NoReq, AStages
    <2>4. tokens[i].uses = 0 /\ user.exists
      <3>1. tokens[i].live
        BY <1>3 DEF FindToken
      <3>2. NumTokens # 0
        OBVIOUS
      <3> QED
        BY <3>1, <3>2 DEF SpentInv, TokenInv, AbsentInv
    <2>5. areq' = [areq EXCEPT ![h] = r] /\ UNCHANGED <<tick, user, profile, tokens, sessions>>
      BY <1>3 DEF FindToken
    <2> HIDE DEF r
    <2>6. StillSo(r)
      BY <2>2, <2>3, <2>4 DEF StillSo
    <2> HIDE DEF type
    <2> QED
      BY <2>2, <2>3, <2>5, <2>6, SpentReadOnly
  <1>4. ASSUME LoginRead(h) PROVE SpentInv'
    <2> DEFINE r == [NoReq EXCEPT !.at = "sign", !.password = user.password]
    <2>1. r \in Request /\ r.at = "sign" /\ r.password = user.password
      BY DEF Request, NoReq, AStages, SpentInv, CInv, ATypeOK, User
    <2>2. /\ areq' = [areq EXCEPT ![h] = r]
          /\ UNCHANGED <<tick, user, profile, tokens, sessions>>
          /\ user.exists
      BY <1>4 DEF LoginRead, MayLogIn
    <2> HIDE DEF r
    <2>3. StillSo(r)
      BY <2>1, <2>2 DEF StillSo
    <2> QED
      BY <2>1, <2>2, <2>3, SpentReadOnly
  <1>5. CASE ChangeRead(h)
    <2> DEFINE r == [NoReq EXCEPT !.at = "change"]
    <2>1. r \in Request /\ r.at = "change"
      BY DEF Request, NoReq, AStages
    <2>2. areq' = [areq EXCEPT ![h] = r] /\ UNCHANGED <<tick, user, profile, tokens, sessions>>
      BY <1>5 DEF ChangeRead, Accept
    <2> HIDE DEF r
    <2>3. StillSo(r)
      BY <1>5, <2>1 DEF StillSo, ChangeRead, SignedIn, Admitted
    <2> QED
      BY <2>1, <2>2, <2>3, SpentReadOnly
  <1>7. ASSUME NEW s \in sessions, UpgradeRead(h, s) PROVE SpentInv'
    <2> DEFINE r == [NoReq EXCEPT !.at = "upgrade", !.password = s.password,
                                  !.since = s.iat]
    <2>1. s \in Session /\ user \in User
      BY DEF SpentInv, CInv, ATypeOK
    <2>2. r \in Request /\ r.at = "upgrade" /\ r.password = s.password /\ r.since = s.iat
      BY <2>1 DEF Request, NoReq, AStages, Session
    <2>3. areq' = [areq EXCEPT ![h] = r] /\ UNCHANGED <<tick, user, profile, tokens, sessions>>
      BY <1>7 DEF UpgradeRead
    <2> HIDE DEF r
    <2>4. ASSUME ~profile, s.password # user.password
          PROVE  user.changedAt # 0 /\ s.iat = Second(user.changedAt)
      <3>1. user.changedAt # 0 /\ s.iat <= Second(user.changedAt)
        <4>1. Second(user.changedAt) <= Second(user.changedAt)
          BY <2>1, SecondType DEF User, AccountConstants
        <4> QED
          BY <2>4, <4>1 DEF SpentInv, SessionInv
      <3>2. s.iat >= Second(user.changedAt)
        BY <1>7, <3>1 DEF UpgradeRead, Admitted
      <3>3. s.iat \in Nat /\ Second(user.changedAt) \in Nat
        BY <2>1, SecondType DEF User, Session, AccountConstants
      <3> QED
        BY <3>1, <3>2, <3>3
    <2>5. StillSo(r)
      BY <1>7, <2>2, <2>4 DEF StillSo, UpgradeRead, Admitted
    <2> QED
      BY <2>2, <2>3, <2>5, SpentReadOnly
  <1>6. ASSUME LoseRequest(h) PROVE SpentInv'
    <2>1. areq[h].at # "idle" /\ StillSo(NoReq)
      BY <1>6 DEF LoseRequest, Handling, StillSo
    <2> QED
      BY <1>6, <2>1, SpentReadOnly DEF LoseRequest, Finished
  <1> QED
    BY <1>1, <1>2, <1>3, <1>4, <1>5, <1>6, <1>7
    DEF ResendVerification, ForgotPassword, AdminLogin, TokenTypes

\* A request writes: the others are idle.
LEMMA SpentWrite ==
    ASSUME SpentInv, CInv', OneRequest, OneRequest', NEW h \in Handlers,
           areq[h].at # "idle", \A g \in Handlers \ {h} : areq'[g] = areq[g],
           TokenInv', SessionInv', AbsentInv',
           StillSo(areq[h])'
    PROVE  SpentInv'
  <1>1. \A g \in Handlers \ {h} : StillSo(areq[g])'
    BY OthersIdle
  <1> QED
    BY <1>1 DEF SpentInv

LEMMA SpentFinish ==
    ASSUME AccountConstants, SpentInv, NEW h \in Handlers, Finished(h)
    PROVE  /\ StillSo(areq[h])'
           /\ \A g \in Handlers \ {h} : areq'[g] = areq[g]
  BY FinishedFacts, NoReqFacts DEF SpentInv, CInv, StillSo

LEMMA SpentCreate ==
    ASSUME AccountConstants, SpentInv, CInv', OneRequest, OneRequest', NEW h \in Handlers,
           RegisterCreate(h) \/ GoogleCreate(h) \/ CreateProfile(h) \/ GoogleProfile(h)
    PROVE  SpentInv'
  <1> USE DEF CreateProfile, GoogleProfile, MakeProfile
  <1>1. areq[h].at # "idle" /\ areq[h].password = user.password
    BY DEF RegisterCreate, GoogleCreate, Handling, SpentInv, StillSo
  <1>2. UNCHANGED <<tick, tokens, sessions>> /\ (profile => profile')
    BY DEF RegisterCreate, GoogleCreate
  <1>3. user'.password = user.password /\ user'.changedAt = user.changedAt
        /\ (user.exists => user'.exists)
    BY DEF RegisterCreate, GoogleCreate, SpentInv, CInv, ATypeOK, User
  <1>4. TokenInv' /\ SessionInv' /\ AbsentInv'
    BY <1>2, <1>3 DEF SpentInv, TokenInv, SessionInv, AbsentInv, NumTokens
  <1>5. StillSo(areq[h])' /\ \A g \in Handlers \ {h} : areq'[g] = areq[g]
    <2>1. ASSUME NEW stage \in {"profile", "googleProfile", "retire", "sign"}, Go(h, stage),
                 user'.exists
          PROVE  StillSo(areq[h])' /\ \A g \in Handlers \ {h} : areq'[g] = areq[g]
      BY <1>1, <1>3, <2>1, GoFacts DEF SpentInv, CInv, StillSo, AStages
    <2>2. user'.exists \/ Finished(h)
      BY DEF RegisterCreate, GoogleCreate, SpentInv, CInv, ATypeOK, User,
             StillSo, Handling
    <2> QED
      BY <2>1, <2>2, SpentFinish DEF RegisterCreate, GoogleCreate
  <1> QED
    BY <1>1, <1>4, <1>5, SpentWrite

LEMMA SpentRetire ==
    ASSUME AccountConstants, SpentInv, CInv', OneRequest, OneRequest', NEW h \in Handlers,
           RetireTokens(h)
    PROVE  SpentInv'
  <1>1. tokens' = Retired({areq[h].type}) /\ areq[h].at = "retire" /\ Go(h, "issue")
        /\ UNCHANGED <<tick, user, profile, sessions>>
    BY DEF RetireTokens, Handling
  <1>2. /\ NumTokens' = NumTokens
        /\ \A i \in 1..NumTokens :
             /\ tokens'[i].type = tokens[i].type /\ tokens'[i].uses = tokens[i].uses
             /\ tokens'[i].live <=> tokens[i].live /\ tokens[i].type \notin {areq[h].type}
    BY <1>1, RetiredFacts DEF SpentInv, CInv, ATypeOK, NumTokens
  <1>3. TokenInv'
    BY <1>2 DEF SpentInv, TokenInv
  <1>4. /\ areq'[h].at = "issue" /\ areq'[h].type = areq[h].type
        /\ \A g \in Handlers \ {h} : areq'[g] = areq[g]
    BY <1>1, GoFacts DEF SpentInv, CInv, AStages
  <1>5. user'.exists
    BY <1>1 DEF SpentInv, StillSo
  <1>6. \A i \in 1..NumTokens' : tokens'[i].type = areq'[h].type => ~tokens'[i].live
    BY <1>2, <1>4
  <1>7. StillSo(areq[h])'
    BY <1>4, <1>5, <1>6 DEF StillSo
  <1>8. SessionInv' /\ AbsentInv'
    BY <1>1, <1>2 DEF SpentInv, SessionInv, AbsentInv
  <1> QED
    BY <1>1, <1>3, <1>4, <1>7, <1>8, SpentWrite

LEMMA SpentIssue ==
    ASSUME AccountConstants, SpentInv, CInv', OneRequest, OneRequest', NEW h \in Handlers,
           IssueToken(h)
    PROVE  SpentInv'
  <1> DEFINE t == [type |-> areq[h].type, live |-> TRUE, uses |-> 0]
  <1>1. areq[h].at = "issue" /\ Finished(h) /\ UNCHANGED <<tick, user, profile, sessions>>
    BY DEF IssueToken, Handling
  <1>2. t.type = areq[h].type /\ t.uses = 0 /\ tokens' = Append(tokens, t)
    BY DEF IssueToken
  <1> HIDE DEF t
  <1>3. /\ NumTokens \in Nat /\ NumTokens' = NumTokens + 1
        /\ tokens'[NumTokens + 1] = t
        /\ \A i \in 1..NumTokens : tokens'[i] = tokens[i]
    BY <1>2 DEF SpentInv, CInv, ATypeOK, NumTokens
  <1>4. \A i \in 1..NumTokens : tokens[i].type = t.type => ~tokens[i].live
    BY <1>1, <1>2 DEF SpentInv, StillSo
  <1>5. \A i \in 1..NumTokens' : i = NumTokens + 1 \/ i \in 1..NumTokens
    BY <1>3
  <1>6. TokenInv'
    <2>1. \A i \in 1..NumTokens' : i # NumTokens + 1 => i \in 1..NumTokens /\ tokens'[i] = tokens[i]
      BY <1>3, <1>5
    <2>2. /\ \A i \in 1..NumTokens : tokens[i].uses <= 1 /\ (tokens[i].live => tokens[i].uses = 0)
          /\ \A i, j \in 1..NumTokens :
                tokens[i].live /\ tokens[j].live /\ tokens[i].type = tokens[j].type => i = j
      BY DEF SpentInv, TokenInv
    <2>3. ASSUME NEW i \in 1..NumTokens'
          PROVE  tokens'[i].uses <= 1 /\ (tokens'[i].live => tokens'[i].uses = 0)
      <3>1. CASE i = NumTokens + 1
        <4>1. tokens'[i].uses = 0
          BY <1>2, <1>3, <3>1
        <4> QED
          BY <4>1
      <3>2. CASE i # NumTokens + 1
        BY <2>1, <2>2, <3>2
      <3> QED
        BY <3>1, <3>2
    <2>4. ASSUME NEW i \in 1..NumTokens', NEW j \in 1..NumTokens', i # j,
                 tokens'[i].live, tokens'[j].live, tokens'[i].type = tokens'[j].type
          PROVE  FALSE
      <3>1. CASE i = NumTokens + 1
        BY <1>2, <1>3, <1>4, <2>1, <2>4, <3>1
      <3>2. CASE j = NumTokens + 1
        BY <1>2, <1>3, <1>4, <2>1, <2>4, <3>2
      <3>3. CASE i # NumTokens + 1 /\ j # NumTokens + 1
        BY <2>1, <2>2, <2>4, <3>3
      <3> QED
        BY <3>1, <3>2, <3>3
    <2> QED
      BY <2>3, <2>4 DEF TokenInv
  <1>7. SessionInv' /\ AbsentInv'
    <2>1. user'.exists
      BY <1>1 DEF SpentInv, StillSo
    <2> QED
      BY <1>1, <2>1 DEF SpentInv, SessionInv, AbsentInv
  <1> QED
    BY <1>1, <1>6, <1>7, SpentFinish, SpentWrite

\* What the answer to a token leaves of the tokens.
LEMMA SpentUsed ==
    ASSUME SpentInv, NEW h \in Handlers, NEW T,
           areq[h].at \in {"verify", "reset", "burn"}, areq[h].type \in T,
           tokens' = Used(areq[h].token, T)
    PROVE  TokenInv'
  <1> DEFINE k == areq[h].token
  <1>1. k \in 1..NumTokens /\ tokens[k].uses = 0 /\ tokens[k].type \in T
    BY DEF SpentInv, StillSo
  <1> HIDE DEF k
  <1>2. tokens' = Used(k, T)
    BY DEF k
  <1>3. /\ NumTokens' = NumTokens
        /\ \A i \in 1..NumTokens :
             /\ tokens'[i].type = tokens[i].type
             /\ tokens'[i].uses = IF i = k THEN tokens[i].uses + 1 ELSE tokens[i].uses
             /\ tokens'[i].live <=> tokens[i].live /\ tokens[i].type \notin T
    BY <1>2, UsedFacts DEF SpentInv, CInv, ATypeOK, NumTokens
  <1> QED
    BY <1>1, <1>3 DEF SpentInv, TokenInv

\* What a change of the password leaves of the sessions.
LEMMA SpentChanged ==
    ASSUME AccountConstants, SpentInv, user'.changedAt = tick,
           UNCHANGED <<tick, profile, sessions>>
    PROVE  SessionInv'
  <1>1. tick # 0
    BY DEF SpentInv, CInv, ATypeOK
  <1> QED
    BY <1>1 DEF SpentInv, SessionInv, AbsentInv

LEMMA SpentCommit ==
    ASSUME AccountConstants, SpentInv, CInv', OneRequest, OneRequest', NEW h \in Handlers,
           VerifyCommit(h) \/ ResetCommit(h) \/ BurnCodes(h) \/ ChangeCommit(h)
    PROVE  SpentInv'
  <1>1. UNCHANGED <<tick, profile, sessions>>
    BY DEF VerifyCommit, ResetCommit, BurnCodes, ChangeCommit
  <1>2. user \in User /\ areq[h] \in Request
    BY DEF SpentInv, CInv, ATypeOK
  <1>3. areq[h].at \in {"verify", "reset", "burn"} =>
           areq[h].at = PurposeOf(areq[h].type) /\ areq[h].type \in TokenTypes
    BY <1>2 DEF SpentInv, StillSo, Request
  <1>4. user.exists /\ areq[h].at # "idle"
    BY DEF VerifyCommit, ResetCommit, BurnCodes, ChangeCommit, Handling, SpentInv, StillSo
  <1>5. user'.exists
    BY <1>2, <1>4 DEF VerifyCommit, ResetCommit, BurnCodes, ChangeCommit, User
  <1>6. AbsentInv'
    BY <1>5 DEF AbsentInv
  <1>7. CASE VerifyCommit(h)
    <2>1. areq[h].at = "verify" /\ areq[h].type = "EMAIL_VERIFICATION"
      BY <1>3, <1>7 DEF VerifyCommit, Handling, PurposeOf, TokenTypes
    <2>2. user'.password = user.password /\ user'.changedAt = user.changedAt
      BY <1>2, <1>7 DEF VerifyCommit, User
    <2>3. TokenInv'
      BY <1>7, <2>1, SpentUsed DEF VerifyCommit
    <2>4. SessionInv'
      BY <1>1, <2>2 DEF SpentInv, SessionInv
    <2>5. Finished(h)
      BY <1>7 DEF VerifyCommit
    <2> QED
      BY <1>4, <1>6, <2>3, <2>4, <2>5, SpentFinish, SpentWrite
  <1>8. CASE ResetCommit(h)
    <2>1. areq[h].at = "reset" /\ areq[h].type \in TokenTypes
      BY <1>3, <1>8 DEF ResetCommit, Handling
    <2>2. user'.changedAt = tick
      BY <1>2, <1>8 DEF ResetCommit, User
    <2>3. TokenInv'
      BY <1>8, <2>1, SpentUsed DEF ResetCommit
    <2>4. SessionInv'
      BY <1>1, <2>2, SpentChanged
    <2>5. Finished(h)
      BY <1>8 DEF ResetCommit
    <2> QED
      BY <1>4, <1>6, <2>3, <2>4, <2>5, SpentFinish, SpentWrite
  <1>9. CASE BurnCodes(h)
    <2>1. areq[h].at = "burn" /\ areq[h].type = "ADMIN_OTP"
      BY <1>3, <1>9 DEF BurnCodes, Handling, PurposeOf, TokenTypes
    <2>2. UNCHANGED user /\ Go(h, "sign")
      BY <1>9 DEF BurnCodes
    <2>3. TokenInv'
      BY <1>9, <2>1, SpentUsed DEF BurnCodes
    <2>4. SessionInv'
      BY <1>1, <2>2 DEF SpentInv, SessionInv
    <2>5. /\ areq'[h].at = "sign" /\ areq'[h].password = areq[h].password
          /\ \A g \in Handlers \ {h} : areq'[g] = areq[g]
      BY <2>2, GoFacts DEF SpentInv, CInv, AStages
    <2>6. areq[h].password = user.password
      BY <2>1 DEF SpentInv, StillSo
    <2>7. StillSo(areq[h])'
      BY <1>5, <2>2, <2>5, <2>6 DEF StillSo
    <2> QED
      BY <1>4, <1>6, <2>3, <2>4, <2>5, <2>7, SpentWrite
  <1>10. CASE ChangeCommit(h)
    <2>1. user'.changedAt = tick /\ Finished(h) /\ tokens' = Retired(TokenTypes)
      BY <1>2, <1>10 DEF ChangeCommit, User
    <2>2. TokenInv'
      <3>1. /\ NumTokens' = NumTokens
            /\ \A i \in 1..NumTokens :
                 /\ tokens'[i].uses = tokens[i].uses
                 /\ tokens'[i].live => tokens[i].live
                 /\ tokens'[i].type = tokens[i].type
        BY <2>1, RetiredFacts DEF SpentInv, CInv, ATypeOK, NumTokens
      <3> QED
        BY <3>1 DEF SpentInv, TokenInv
    <2>3. SessionInv'
      BY <1>1, <2>1, SpentChanged
    <2> QED
      BY <1>4, <1>6, <2>1, <2>2, <2>3, SpentFinish, SpentWrite
  <1> QED
    BY <1>7, <1>8, <1>9, <1>10

LEMMA SpentSign ==
    ASSUME AccountConstants, SpentInv, CInv', OneRequest, OneRequest', NEW h \in Handlers,
           Sign(h) \/ UpgradeCommit(h)
    PROVE  SpentInv'
  <1>1. areq[h].at # "idle" /\ user.exists
    BY DEF Sign, UpgradeCommit, Handling, SpentInv, StillSo
  <1>2. UNCHANGED <<tick, tokens>> /\ Finished(h) /\ (profile => profile')
    BY DEF Sign, UpgradeCommit
  <1>3. user'.password = user.password /\ user'.changedAt = user.changedAt /\ user'.exists
    BY <1>1 DEF Sign, UpgradeCommit, SpentInv, CInv, ATypeOK, User
  <1>4. Second(tick) \in Nat
    BY SecondType DEF SpentInv, CInv, ATypeOK
  <1> DEFINE New(since) ==
                [password |-> areq[h].password, iat |-> Second(tick), since |-> since]
  <1>5. \/ /\ areq[h].password = user.password
           /\ sessions' \subseteq sessions \cup {New(Second(tick))}
        \/ /\ areq[h].password # user.password =>
                 user.changedAt # 0 /\ areq[h].since = Second(user.changedAt)
           /\ profile' /\ sessions' \subseteq sessions \cup {New(areq[h].since)}
        \/ sessions' = sessions
    BY DEF Sign, UpgradeCommit, Handling, SpentInv, StillSo
  <1>6. SessionInv'
    BY <1>2, <1>3, <1>4, <1>5 DEF SpentInv, SessionInv
  <1>7. TokenInv' /\ AbsentInv'
    BY <1>2, <1>3 DEF SpentInv, TokenInv, AbsentInv, NumTokens
  <1> QED
    BY <1>1, <1>2, <1>6, <1>7, SpentFinish, SpentWrite

LEMMA SpentGoogle ==
    ASSUME AccountConstants, SpentInv, CInv', OneRequest, OneRequest', NEW h \in Handlers,
           NEW role \in {"BUYER", "SELLER"}, GoogleRead(h, role)
    PROVE  SpentInv'
  <1>1. areq[h].at = "idle" /\ UNCHANGED <<tick, profile, tokens, sessions>>
    BY DEF GoogleRead, Handling
  <1>2. /\ user'.password = user.password /\ user'.changedAt = user.changedAt
        /\ user'.exists = user.exists
    BY DEF GoogleRead, SpentInv, CInv, ATypeOK, User
  <1>3. TokenInv' /\ SessionInv' /\ AbsentInv'
    BY <1>1, <1>2 DEF SpentInv, TokenInv, SessionInv, AbsentInv, NumTokens
  <1>4. CASE UNCHANGED areq
    BY <1>1, <1>2, <1>3, <1>4 DEF SpentInv, StillSo, NumTokens
  <1>5. ASSUME NEW r \in Request, areq' = [areq EXCEPT ![h] = r],
               r.at \in {"sign", "google"}, r.password = user.password,
               r.at = "sign" => user.exists
        PROVE  SpentInv'
    <2>1. areq'[h] = r /\ \A g \in Handlers \ {h} : areq'[g] = areq[g]
      BY <1>5, RequestStep DEF SpentInv, CInv
    <2>2. StillSo(areq[h])'
      BY <1>2, <1>5, <2>1 DEF StillSo
    <2>3. \A g \in Handlers \ {h} : StillSo(areq[g])'
      BY <1>5, <2>1, OthersIdle
    <2> QED
      BY <1>3, <2>2, <2>3 DEF SpentInv
  <1>6. CASE user.exists /\ user.isActive
    <2> DEFINE r == [NoReq EXCEPT !.at = "sign", !.password = user.password]
    <2>1. r \in Request /\ r.at = "sign" /\ r.password = user.password
      BY NoReqType DEF Request, NoReq, AStages, SpentInv, CInv, ATypeOK, User
    <2>2. areq' = [areq EXCEPT ![h] = r]
      BY <1>6 DEF GoogleRead
    <2> HIDE DEF r
    <2> QED
      BY <1>5, <1>6, <2>1, <2>2
  <1>7. CASE ~user.exists
    <2> DEFINE r == [NoReq EXCEPT !.at = "google", !.role = role]
    <2>1. r \in Request /\ r.at = "google" /\ r.password = 0
      BY NoReqType DEF Request, NoReq, AStages, Roles
    <2>2. areq' = [areq EXCEPT ![h] = r] /\ user.password = 0
      BY <1>7 DEF GoogleRead, SpentInv, AbsentInv
    <2> HIDE DEF r
    <2> QED
      BY <1>5, <2>1, <2>2
  <1> QED
    BY <1>4, <1>6, <1>7 DEF GoogleRead

LEMMA SpentOthers ==
    ASSUME AccountConstants, SpentInv, CInv',
           \/ \E active \in BOOLEAN : SetActive(active)
           \/ \E role \in Roles : SetRole(role)
           \/ \E i \in 1..NumTokens : ExpireToken(i)
           \/ \E s \in sessions : ExpireSession(s)
           \/ Tick
           \/ UNCHANGED avars
    PROVE  SpentInv'
  <1>1. CASE (\E active \in BOOLEAN : SetActive(active)) \/ (\E role \in Roles : SetRole(role))
    <2>1. /\ user'.password = user.password /\ user'.changedAt = user.changedAt
          /\ user'.exists = user.exists
      BY <1>1 DEF SetActive, SetRole, SpentInv, CInv, ATypeOK, User
    <2>2. UNCHANGED <<tick, profile, tokens, sessions, areq>>
      BY <1>1 DEF SetActive, SetRole
    <2> QED
      BY <2>1, <2>2 DEF SpentInv, TokenInv, SessionInv, AbsentInv, StillSo, NumTokens
  <1>2. ASSUME NEW i \in 1..NumTokens, ExpireToken(i) PROVE SpentInv'
    <2>1. tokens[i] \in AuthToken
      BY DEF SpentInv, CInv, ATypeOK, NumTokens
    <2> DEFINE t == [tokens[i] EXCEPT !.live = FALSE]
    <2>2. ~t.live /\ t.uses = tokens[i].uses /\ t.type = tokens[i].type
      BY <2>1 DEF AuthToken
    <2>3. tokens' = [tokens EXCEPT ![i] = t] /\ UNCHANGED <<tick, user, profile, sessions, areq>>
      BY <1>2 DEF ExpireToken
    <2> HIDE DEF t
    <2>4. /\ NumTokens' = NumTokens
          /\ \A j \in 1..NumTokens : /\ tokens'[j].type = tokens[j].type
                                     /\ tokens'[j].uses = tokens[j].uses
                                     /\ tokens'[j].live => tokens[j].live
      BY <2>2, <2>3 DEF SpentInv, CInv, ATypeOK, NumTokens
    <2>5. TokenInv'
      BY <2>4 DEF SpentInv, TokenInv
    <2>6. \A h \in Handlers : StillSo(areq[h])'
      BY <2>3, <2>4 DEF SpentInv, StillSo
    <2>7. SessionInv' /\ AbsentInv'
      BY <2>3, <2>4 DEF SpentInv, SessionInv, AbsentInv
    <2> QED
      BY <2>5, <2>6, <2>7 DEF SpentInv
  <1>3. ASSUME NEW s \in sessions, ExpireSession(s) PROVE SpentInv'
    BY <1>3 DEF ExpireSession, SpentInv, TokenInv, SessionInv, AbsentInv, StillSo, NumTokens
  <1>4. CASE Tick
    <2>1. tick' = tick + 1 /\ tick \in Nat /\ UNCHANGED <<user, profile, tokens, sessions, areq>>
      BY <1>4 DEF Tick, SpentInv, CInv, ATypeOK
    <2>2. /\ Second(tick) <= Second(tick + 1)
          /\ Second(tick) \in Nat /\ Second(tick + 1) \in Nat
      BY <2>1, SecondMonotone, SecondType
    <2>3. \A s \in sessions : s.iat \in Nat
      BY DEF SpentInv, CInv, ATypeOK, Session
    <2>4. SessionInv'
      BY <2>1, <2>2, <2>3 DEF SpentInv, SessionInv
    <2> QED
      BY <2>1, <2>4 DEF SpentInv, TokenInv, AbsentInv, StillSo, NumTokens
  <1>5. CASE UNCHANGED avars
    BY <1>5 DEF avars, SpentInv, TokenInv, SessionInv, AbsentInv, StillSo, NumTokens
  <1> QED
    BY <1>1, <1>2, <1>3, <1>4, <1>5

LEMMA SpentNext ==
    ASSUME AccountConstants, SpentInv, OneRequest, OneRequest', [ANext]_avars
    PROVE  SpentInv'
  <1>1. CInv'
    BY CInvNext DEF SpentInv
  <1> QED
    BY <1>1, SpentStart, SpentCreate, SpentRetire, SpentIssue, SpentCommit, SpentSign,
       SpentGoogle, SpentOthers DEF ANext

LEMMA SpentInit == AccountConstants /\ AInit => SpentInv
  <1> SUFFICES ASSUME AccountConstants, AInit PROVE SpentInv
    OBVIOUS
  <1>1. NumTokens = 0 /\ sessions = {} /\ user.password = 0
    BY DEF AInit, NumTokens
  <1>2. \A h \in Handlers : areq[h].at = "idle"
    BY DEF AInit, NoReq
  <1> QED
    BY <1>1, <1>2, CInvInit DEF SpentInv, TokenInv, SessionInv, AbsentInv, StillSo

LEMMA SpentMeans == AccountConstants /\ SpentInv => TokensAreSpent
  <1> SUFFICES ASSUME AccountConstants, SpentInv PROVE TokensAreSpent
    OBVIOUS
  <1>1. TokenUsedOnce
    BY DEF SpentInv, TokenInv, TokenUsedOnce
  <1>2. ASSUME NEW type \in TokenTypes PROVE Cardinality(LiveTokens(type)) <= 1
    <2>1. \A i, j \in LiveTokens(type) : i = j
      BY DEF SpentInv, TokenInv, LiveTokens
    <2>2. CASE LiveTokens(type) = {}
      BY <2>2, FS_EmptySet
    <2>3. CASE LiveTokens(type) # {}
      <3>1. PICK i : LiveTokens(type) = {i}
        BY <2>1, <2>3
      <3> QED
        BY <3>1, FS_Singleton
    <2> QED
      BY <2>2, <2>3
  <1>3. RevokedAfterSecond
    <2> SUFFICES ASSUME NEW s \in sessions, Admitted(s), s.password # user.password
                 PROVE  Second(user.changedAt) \in {s.iat, s.since}
      BY DEF RevokedAfterSecond
    <2>1. /\ user.changedAt # 0 /\ s.iat >= Second(user.changedAt)
          /\ \/ s.iat <= Second(user.changedAt)
             \/ s.since = Second(user.changedAt)
      BY DEF SpentInv, SessionInv, Admitted
    <2>2. s.iat \in Nat /\ user.changedAt \in Nat
      BY DEF SpentInv, CInv, ATypeOK, Session, User
    <2>3. Second(user.changedAt) \in Nat
      BY <2>2, SecondType
    <2> QED
      BY <2>1, <2>2, <2>3
  <1> QED
    BY <1>1, <1>2, <1>3 DEF TokensAreSpent, OneLiveToken

\* While requests are served one at a time, a token has one answer, one token
\* of a type is live, and no session outlives a change of the password but
\* those signed within its second and what upgradeToSeller gives for one of
\* those (deleteMany and create of the tokens, the handlers that answer them,
\* and protect of authMiddleware.js).
THEOREM SpentOnce ==
    ASSUME AccountConstants
    PROVE  ASpec /\ []OneRequest => []TokensAreSpent
  <1>1. SpentInv /\ OneRequest /\ OneRequest' /\ [ANext]_avars => SpentInv'
    BY SpentNext
  <1>2. AInit => SpentInv
    BY SpentInit
  <1>3. SpentInv => TokensAreSpent
    BY SpentMeans
  <1> QED
    BY <1>1, <1>2, <1>3, PTL DEF ASpec
=============================================================================
