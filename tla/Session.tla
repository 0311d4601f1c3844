------------------------------ MODULE Session ------------------------------
(***************************************************************************)
(* The session of a browser: the token in localStorage, which its tabs     *)
(* share, and the user each tab shows.  frontend/src/context/              *)
(* AuthContext.jsx, the interceptors of utils/api.js, pages/Login.jsx and  *)
(* pages/Profile.jsx, and of the server protect                            *)
(* (backend/src/middlewares/authMiddleware.js), login, getMe, logout,      *)
(* changePassword and updateProfile (controllers/authController.js).       *)
(*                                                                         *)
(* A token is the number of the session it was signed for.  The profile of *)
(* a user is a version number.  A call carries the token that was stored   *)
(* when it was sent; it is served, and then its answer is taken.           *)
(***************************************************************************)
EXTENDS Naturals, Sequences, FiniteSets, SequencesExt

CONSTANTS
    Tabs,
    People,         \* the accounts used in this browser
    Nobody,
    MaxTokens,      \* bound on the sessions signed
    MaxEdits,       \* bound on the profile versions
    MaxCalls,       \* bound on the calls of a tab in flight
    TabWaits,       \* whether a tab is used only while it waits for nothing
    MayFail         \* whether a call can fail without an answer of the server

SessionConstants ==
    /\ Nobody \notin People
    /\ {MaxTokens, MaxEdits, MaxCalls} \subseteq Nat
    /\ {TabWaits, MayFail} \subseteq BOOLEAN

NoToken == 0

VARIABLES
    signed,     \* whose each token is, in the order they were signed
    valid,      \* tokens that protect accepts
    profiles,   \* the version of each User row
    stored,     \* localStorage 'token'
    tabs

svars == <<signed, valid, profiles, stored, tabs>>

Issued == 1 .. Len(signed)
Owner(token) == IF token \in Issued THEN signed[token] ELSE Nobody

Requests == {"boot", "login", "welcome", "profile", "page", "logout",
             "password", "save", "avatar"}

\* who: the user that a login names, or that an answer describes.
Call(kind, who) == [kind |-> kind, as |-> stored, who |-> who, answer |-> "none",
                    token |-> NoToken, version |-> 0]

ClosedTab == [at |-> "closed", user |-> Nobody, version |-> 0,
              calls |-> <<>>]

SInit ==
    /\ signed = <<>>
    /\ valid = {}
    /\ profiles = [p \in People |-> 0]
    /\ stored = NoToken
    /\ tabs = [t \in Tabs |-> ClosedTab]

-----------------------------------------------------------------------------
(* The user.                                                               *)

Shows(t, who) == tabs[t].user = who
SignedIn(t) == ~Shows(t, Nobody)
MayUse(t) ==
    /\ tabs[t].at # "closed"
    /\ Len(tabs[t].calls) < (IF TabWaits THEN 1 ELSE MaxCalls)

Send(t, call) ==
    /\ MayUse(t)
    /\ tabs' = [tabs EXCEPT ![t].calls = Append(@, call)]
    /\ UNCHANGED <<signed, valid, profiles, stored>>

\* A tab is opened or loaded again: fetchUser runs if there is a token.
Loaded(place) ==
    [ClosedTab EXCEPT !.at = place,
        !.calls = IF stored = NoToken THEN <<>> ELSE <<Call("boot", Nobody)>>]

OpenTab(t) ==
    /\ tabs[t].at = "closed"
    /\ tabs' = [tabs EXCEPT ![t] = Loaded("page")]
    /\ UNCHANGED <<signed, valid, profiles, stored>>

CloseTab(t) ==
    /\ tabs[t].at # "closed"
    /\ tabs' = [tabs EXCEPT ![t] = ClosedTab]
    /\ UNCHANGED <<signed, valid, profiles, stored>>

GoTo(t, place) ==
    /\ tabs[t].at \notin {"closed", place} /\ (TabWaits => tabs[t].calls = <<>>)
    /\ tabs' = [tabs EXCEPT ![t].at = place]
    /\ UNCHANGED <<signed, valid, profiles, stored>>

LogIn(t, p)       == tabs[t].at = "login" /\ Send(t, Call("login", p))
LogOut(t)         == SignedIn(t) /\ Send(t, Call("logout", Nobody))
AskPage(t)        == SignedIn(t) /\ Send(t, Call("page", Nobody))
ChangePassword(t) == SignedIn(t) /\ Send(t, Call("password", Nobody))
UploadAvatar(t)   == SignedIn(t) /\ Send(t, Call("avatar", Nobody))
SaveProfile(t)    == SignedIn(t) /\ Send(t, Call("save", Nobody))

-----------------------------------------------------------------------------
(* The server.                                                             *)

Answered(t, i, call) ==
    tabs' = [tabs EXCEPT ![t].calls[i] = call]

Asked(t, i, kinds) ==
    /\ i \in DOMAIN tabs[t].calls
    /\ tabs[t].calls[i].kind \in kinds /\ tabs[t].calls[i].answer = "none"

Describe(call, p, version) ==
    [call EXCEPT !.answer = "ok", !.who = p, !.version = version]

ServeLogin(t, i) ==
    LET call == tabs[t].calls[i]
    IN  /\ Asked(t, i, {"login"})
        /\ Len(signed) < MaxTokens
        /\ signed' = Append(signed, call.who)
        /\ valid' = valid \cup {Len(signed) + 1}
        /\ Answered(t, i, [Describe(call, call.who, profiles[call.who])
                              EXCEPT !.token = Len(signed) + 1])
        /\ UNCHANGED <<profiles, stored>>

\* logout asks nothing of the caller and keeps nothing.
ServeLogout(t, i) ==
    /\ Asked(t, i, {"logout"})
    /\ Answered(t, i, [tabs[t].calls[i] EXCEPT !.answer = "ok"])
    /\ UNCHANGED <<signed, valid, profiles, stored>>

Saved(call, p) ==
    IF call.kind = "save" THEN [profiles EXCEPT ![p] = @ + 1] ELSE profiles

\* A new password ends the sessions of the user.  (Those of the same second
\* go on: Accounts.)
StillValid(call, p) ==
    IF call.kind = "password" THEN {k \in valid : signed[k] # p} ELSE valid

\* The other calls pass protect, which refuses what is missing, expired or
\* older than the password.
Serve(t, i) ==
    LET call == tabs[t].calls[i]
        p    == Owner(call.as)
    IN  /\ Asked(t, i, Requests \ {"login", "logout"})
        /\ IF call.as \notin valid
           THEN /\ Answered(t, i, [call EXCEPT !.answer = "401"])
                /\ UNCHANGED <<valid, profiles>>
           ELSE /\ call.kind = "save" => profiles[p] < MaxEdits
                /\ profiles' = Saved(call, p)
                /\ valid' = StillValid(call, p)
                /\ Answered(t, i, Describe(call, p, profiles'[p]))
        /\ UNCHANGED <<signed, stored>>

Fail(t, i) ==
    /\ MayFail
    /\ Asked(t, i, Requests)
    /\ Answered(t, i, [tabs[t].calls[i] EXCEPT !.answer = "failed"])
    /\ UNCHANGED <<signed, valid, profiles, stored>>

\* 24 h, a reset of the password by mail, a deactivation.
Revoke(token) ==
    /\ valid' = valid \ {token}
    /\ UNCHANGED <<signed, profiles, stored, tabs>>

-----------------------------------------------------------------------------
(* The browser takes an answer.                                            *)

Came(t, i, kinds, answers) ==
    /\ i \in DOMAIN tabs[t].calls
    /\ tabs[t].calls[i].kind \in kinds /\ tabs[t].calls[i].answer \in answers

Done(t, i) == [tabs[t] EXCEPT !.calls = RemoveAt(@, i)]

\* setUser: the form of the profile page is filled anew.
ShowUser(tab, call) == [tab EXCEPT !.user = call.who, !.version = call.version]

BootFailed == {"401", "failed"}

TakeBoot(t, i) ==
    /\ Came(t, i, {"boot"}, {"ok"} \cup BootFailed)
    /\ LET call == tabs[t].calls[i]
       IN  IF call.answer = "ok"
           THEN /\ tabs' = [tabs EXCEPT ![t] = ShowUser(Done(t, i), call)]
                /\ UNCHANGED stored
           ELSE /\ tabs' = [tabs EXCEPT ![t] = Done(t, i)]
                /\ stored' = NoToken
    /\ UNCHANGED <<signed, valid, profiles>>

\* Variant: the profile is asked for before the token is stored.
TakeLoginProfileFirst(t, i) ==
    /\ Came(t, i, {"login"}, {"ok"})
    /\ LET call == tabs[t].calls[i]
       IN  /\ stored' = call.token
           /\ tabs' = [tabs EXCEPT ![t] =
                  [ShowUser(Done(t, i), call) EXCEPT
                      !.calls = Append(@, Call("welcome", Nobody))]]
    /\ UNCHANGED <<signed, valid, profiles>>

\* login: the token is stored, and the whole profile is asked for.
TakeLogin(t, i) ==
    /\ Came(t, i, {"login"}, {"ok"})
    /\ LET call == tabs[t].calls[i]
       IN  /\ stored' = call.token
           /\ tabs' = [tabs EXCEPT ![t] =
                  [ShowUser(Done(t, i), call) EXCEPT
                      !.calls = Append(@, [Call("welcome", Nobody)
                                              EXCEPT !.as = call.token])]]
    /\ UNCHANGED <<signed, valid, profiles>>

\* The whole profile has come, and the sign-in page is left.
TakeWelcome(t, i) ==
    /\ Came(t, i, {"welcome"}, {"ok"})
    /\ tabs' = [tabs EXCEPT ![t] =
                   [ShowUser(Done(t, i), tabs[t].calls[i]) EXCEPT !.at = "page"]]
    /\ UNCHANGED <<signed, valid, profiles, stored>>

\* getMe after an upload, and the answer to updateProfile.
TakeProfile(t, i) ==
    /\ Came(t, i, {"profile", "save"}, {"ok"})
    /\ tabs' = [tabs EXCEPT ![t] = ShowUser(Done(t, i), tabs[t].calls[i])]
    /\ UNCHANGED <<signed, valid, profiles, stored>>

\* handleAvatarUpload goes on with /auth/me.
TakeAvatar(t, i) ==
    /\ Came(t, i, {"avatar"}, {"ok"})
    /\ tabs' = [tabs EXCEPT ![t] =
                   [Done(t, i) EXCEPT !.calls = Append(@, Call("profile", Nobody))]]
    /\ UNCHANGED <<signed, valid, profiles, stored>>

TakeLogout(t, i) ==
    /\ Came(t, i, {"logout"}, {"ok", "failed"})
    /\ stored' = NoToken
    /\ tabs' = [tabs EXCEPT ![t] = [Done(t, i) EXCEPT !.user = Nobody]]
    /\ UNCHANGED <<signed, valid, profiles>>

\* The interceptor: a 401 of a page call drops the token, and the tab is
\* loaded again on the sign-in page unless it is there.
TakeRefusal(t, i) ==
    /\ Came(t, i, {"page", "avatar"}, {"401"})
    /\ IF stored = NoToken
       THEN tabs' = [tabs EXCEPT ![t] = Done(t, i)]
       ELSE tabs' = [tabs EXCEPT ![t] =
                        IF tabs[t].at = "login" THEN Done(t, i)
                        ELSE [ClosedTab EXCEPT !.at = "login"]]
    /\ stored' = NoToken
    /\ UNCHANGED <<signed, valid, profiles>>

\* Nothing happens, or an error is shown.
TakeQuietly(t, i) ==
    /\ \/ Came(t, i, {"page", "password"}, {"ok"})
       \/ Came(t, i, Requests \ {"boot", "logout"}, {"failed"})
       \/ Came(t, i, {"login", "welcome", "profile", "save", "password"}, {"401"})
    /\ tabs' = [tabs EXCEPT ![t] = Done(t, i)]
    /\ UNCHANGED <<signed, valid, profiles, stored>>

Takes(t) ==
    \E i \in 1 .. MaxCalls :
        \/ TakeBoot(t, i) \/ TakeLogin(t, i) \/ TakeWelcome(t, i)
        \/ TakeProfile(t, i)
        \/ TakeAvatar(t, i) \/ TakeLogout(t, i) \/ TakeRefusal(t, i)
        \/ TakeQuietly(t, i)

Serves(t) ==
    \E i \in 1 .. MaxCalls : ServeLogin(t, i) \/ ServeLogout(t, i) \/ Serve(t, i)

SNext ==
    \/ \E t \in Tabs :
          \/ OpenTab(t) \/ CloseTab(t)
          \/ GoTo(t, "login") \/ GoTo(t, "page")
          \/ \E p \in People : LogIn(t, p)
          \/ LogOut(t) \/ AskPage(t) \/ ChangePassword(t) \/ UploadAvatar(t)
          \/ SaveProfile(t)
          \/ Serves(t)
          \/ \E i \in 1 .. MaxCalls : Fail(t, i)
          \/ Takes(t)
    \/ \E token \in valid : Revoke(token)

SSpec == SInit /\ [][SNext]_svars

-----------------------------------------------------------------------------
STypeOK ==
    /\ signed \in Seq(People)
    /\ valid \subseteq Issued
    /\ profiles \in [People -> 0 .. MaxEdits]
    /\ stored \in Issued \cup {NoToken}
    /\ \A t \in Tabs : /\ tabs[t].at \in {"closed", "page", "login"}
                       /\ tabs[t].user \in People \cup {Nobody}
                       /\ Len(tabs[t].calls) <= MaxCalls

\* A call of a tab that shows a user is never served as another user's: the
\* token it would carry is a session of the user shown.
ActsAsShown ==
    \A t \in Tabs : SignedIn(t) /\ stored # NoToken => Owner(stored) = tabs[t].user

\* 'drop the stale token': the interceptor and fetchUser drop no token that
\* the server accepts.
OnlyStaleDropped ==
    [][stored # NoToken /\ stored' = NoToken =>
          \/ stored \notin valid
          \/ \E t \in Tabs, i \in 1 .. MaxCalls :
                Came(t, i, {"logout"}, {"ok", "failed"})]_svars

\* 'instead of leaving every page silently broken': a page call that is
\* refused brings the tab to the sign-in page.
RefusalIsSeen ==
    [][\A t \in Tabs :
          /\ Len(tabs'[t].calls) < Len(tabs[t].calls)
          /\ tabs[t].at = "page" /\ tabs'[t].at = "page"
          => \E i \in 1 .. MaxCalls :
                /\ tabs'[t].calls = RemoveAt(tabs[t].calls, i)
                /\ ~Came(t, i, {"page"}, {"401"})]_svars
=============================================================================
