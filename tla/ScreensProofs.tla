--------------------------- MODULE ScreensProofs ---------------------------
(***************************************************************************)
(* Proofs about pages of the web client: what a tab shows and as whom it   *)
(* calls (Session), what a page shows of an order (OrderPage), and the     *)
(* verdicts of the staff on a photo (AdminDesk).                           *)
(***************************************************************************)
EXTENDS Session, OrderPage, AdminDesk, SequenceTheorems, TLAPS

-----------------------------------------------------------------------------
(* Session: one tab, used only while it waits for nothing.                 *)

OneTab == TabWaits /\ \A t, u \in Tabs : t = u

Places   == {"closed", "page", "login"}
Replies  == {"none", "ok", "401", "failed"}
Somebody == People \cup {Nobody}

CallRow == [kind : Requests, as : Nat, who : Somebody, answer : Replies,
            token : Nat, version : Nat]
TabRow  == [at : Places, user : Somebody, version : Nat, calls : Seq(CallRow)]

Belongs(token, who, owners) ==
    token \in 1 .. Len(owners) /\ owners[token] = who

\* An answer that describes a user describes the owner of a token: of the new
\* one, or of the one that the call carries.
Truthful(call, owners) ==
    /\ call.kind = "login" => call.who \in People
    /\ call.answer = "ok" /\ call.kind = "login" =>
         Belongs(call.token, call.who, owners)
    /\ call.answer = "ok" /\ call.kind \notin {"login", "logout"} =>
         Belongs(call.as, call.who, owners)

\* The token of the call under way is still the one that is stored.
CallInv ==
    \A t \in Tabs :
        /\ Len(tabs[t].calls) <= 1
        /\ \A i \in 1 .. Len(tabs[t].calls) :
              tabs[t].calls[i].as = stored /\ Truthful(tabs[t].calls[i], signed)

UserInv ==
    \A t \in Tabs : SignedIn(t) /\ stored # NoToken =>
        Belongs(stored, tabs[t].user, signed)

SessionShape ==
    /\ signed \in Seq(People)
    /\ valid \subseteq 1 .. Len(signed)
    /\ profiles \in [People -> Nat]
    /\ stored \in 0 .. Len(signed)
    /\ tabs \in [Tabs -> TabRow]

SessionInv == SessionShape /\ CallInv /\ UserInv

-----------------------------------------------------------------------------
LEMMA SessionInit == SInit => SessionInv
  <1> SUFFICES ASSUME SInit PROVE SessionInv
    OBVIOUS
  <1>1. ClosedTab \in TabRow /\ ClosedTab.user = Nobody /\ ClosedTab.calls = <<>>
    BY DEF ClosedTab, TabRow, Places, Somebody
  <1>2. SessionShape
    BY <1>1 DEF SInit, SessionShape, NoToken
  <1> QED
    BY <1>1, <1>2 DEF SInit, SessionInv, CallInv, UserInv, SignedIn, Shows

\* What a step may do to the tab.
LEMMA TabStep ==
    ASSUME SessionInv, OneTab, NEW t \in Tabs, NEW row \in TabRow,
           tabs' = [tabs EXCEPT ![t] = row],
           signed' \in Seq(People), valid' \subseteq 1 .. Len(signed'),
           profiles' \in [People -> Nat], stored' \in 0 .. Len(signed'),
           Len(row.calls) <= 1,
           \A i \in 1 .. Len(row.calls) :
              row.calls[i].as = stored' /\ Truthful(row.calls[i], signed'),
           row.user # Nobody /\ stored' # NoToken =>
              Belongs(stored', row.user, signed')
    PROVE  SessionInv'
  <1>1. tabs' \in [Tabs -> TabRow] /\ tabs'[t] = row /\ \A u \in Tabs : u = t
    BY DEF SessionInv, SessionShape, OneTab
  <1>2. SessionShape'
    BY <1>1 DEF SessionShape
  <1>3. CallInv'
    BY <1>1 DEF CallInv, Truthful
  <1>4. UserInv'
    BY <1>1 DEF UserInv, SignedIn, Shows, Belongs
  <1> QED
    BY <1>2, <1>3, <1>4 DEF SessionInv

LEMMA CallFacts ==
    ASSUME SessionInv, NEW t \in Tabs, NEW i, i \in DOMAIN tabs[t].calls
    PROVE  /\ i = 1 /\ Len(tabs[t].calls) = 1
           /\ tabs[t] \in TabRow /\ tabs[t].calls \in Seq(CallRow)
           /\ tabs[t].calls[i] \in CallRow
           /\ tabs[t].calls[i].as = stored
           /\ Truthful(tabs[t].calls[i], signed)
           /\ RemoveAt(tabs[t].calls, i) = <<>>
           /\ Done(t, i) \in TabRow /\ Done(t, i).calls = <<>>
           /\ Done(t, i).user = tabs[t].user
           /\ Done(t, i).at = tabs[t].at
  <1>1. tabs[t] \in TabRow /\ tabs[t].calls \in Seq(CallRow)
    BY DEF SessionInv, SessionShape, TabRow
  <1>2. i = 1 /\ Len(tabs[t].calls) = 1 /\ i \in 1 .. Len(tabs[t].calls)
    <2> DEFINE n == Len(tabs[t].calls)
    <2>1. n <= 1
      BY DEF SessionInv, CallInv
    <2>2. n \in Nat /\ i \in 1 .. n
      BY <1>1
    <2> HIDE DEF n
    <2>3. i = 1 /\ n = 1
      BY <2>1, <2>2
    <2> QED
      BY <2>2, <2>3 DEF n
  <1>3. tabs[t].calls[i] \in CallRow
    BY <1>1, <1>2
  <1>4. tabs[t].calls[i].as = stored /\ Truthful(tabs[t].calls[i], signed)
    BY <1>2 DEF SessionInv, CallInv
  <1>5. RemoveAt(tabs[t].calls, i) = <<>>
    BY <1>1, <1>2 DEF RemoveAt
  <1>6. /\ Done(t, i) \in TabRow /\ Done(t, i).calls = <<>>
        /\ Done(t, i).user = tabs[t].user /\ Done(t, i).at = tabs[t].at
    <2>1. Done(t, i) = [tabs[t] EXCEPT !.calls = <<>>]
      BY <1>5 DEF Done
    <2>2. <<>> \in Seq(CallRow)
      OBVIOUS
    <2> QED
      BY <1>1, <2>1, <2>2 DEF TabRow
  <1> QED
    BY <1>1, <1>2, <1>3, <1>4, <1>5, <1>6

\* What the server may do to a call.
LEMMA AnswerStep ==
    ASSUME SessionInv, OneTab, NEW t \in Tabs, NEW i, i \in DOMAIN tabs[t].calls,
           NEW call \in CallRow, Answered(t, i, call),
           signed' \in Seq(People), Len(signed) <= Len(signed'),
           \A k \in 1 .. Len(signed) : signed'[k] = signed[k],
           valid' \subseteq 1 .. Len(signed'), profiles' \in [People -> Nat],
           stored' = stored, call.as = stored, Truthful(call, signed')
    PROVE  SessionInv'
  <1> DEFINE row == [tabs[t] EXCEPT !.calls = [tabs[t].calls EXCEPT ![i] = call]]
  <1>1. /\ row \in TabRow /\ row.user = tabs[t].user
        /\ row.calls = [tabs[t].calls EXCEPT ![i] = call]
    <2>1. [tabs[t].calls EXCEPT ![i] = call] \in Seq(CallRow)
      BY CallFacts
    <2>2. tabs[t] \in TabRow
      BY CallFacts
    <2> QED
      BY <2>1, <2>2 DEF TabRow
  <1>2. Len(row.calls) = 1 /\ row.calls[1] = call
    BY <1>1, CallFacts
  <1>3. tabs' = [tabs EXCEPT ![t] = row]
    BY DEF Answered, SessionInv, SessionShape, TabRow
  <1>4. row.user # Nobody /\ stored' # NoToken =>
            Belongs(stored', row.user, signed')
    <2>1. Len(signed) \in Nat /\ Len(signed') \in Nat
      BY DEF SessionInv, SessionShape
    <2>2. tabs[t].user # Nobody /\ stored # NoToken =>
            Belongs(stored, tabs[t].user, signed)
      BY DEF SessionInv, UserInv, SignedIn, Shows
    <2> QED
      BY <1>1, <2>1, <2>2 DEF Belongs
  <1>5. stored' \in 0 .. Len(signed')
    BY DEF SessionInv, SessionShape
  <1> HIDE DEF row
  <1>6. \A j \in 1 .. Len(row.calls) :
           row.calls[j].as = stored' /\ Truthful(row.calls[j], signed')
    BY <1>2
  <1>7. Len(row.calls) <= 1
    <2>1. Len(row.calls) = 1
      BY <1>2
    <2> QED
      BY <2>1
  <1> QED
    BY ONLY SessionInv, OneTab, t \in Tabs, signed' \in Seq(People),
       valid' \subseteq 1 .. Len(signed'), profiles' \in [People -> Nat],
       <1>1, <1>3, <1>4, <1>5, <1>6, <1>7, TabStep

\* A tab that shows the user of the token that is stored, or nobody, makes one
\* call, or none.
LEMMA OneCallStep ==
    ASSUME SessionInv, OneTab, NEW t \in Tabs, NEW row \in TabRow,
           NEW call \in CallRow,
           tabs' = [tabs EXCEPT ![t] = [row EXCEPT !.calls = <<call>>]],
           signed' = signed, valid' = valid, profiles' = profiles,
           stored' \in 0 .. Len(signed),
           call.as = stored', Truthful(call, signed),
           row.user # Nobody /\ stored' # NoToken =>
              Belongs(stored', row.user, signed)
    PROVE  SessionInv'
  <1> DEFINE new == [row EXCEPT !.calls = <<call>>]
  <1>1. <<call>> \in Seq(CallRow)
    OBVIOUS
  <1>2. new \in TabRow /\ new.calls = <<call>> /\ new.user = row.user
    BY <1>1 DEF TabRow
  <1>3. /\ signed' \in Seq(People) /\ valid' \subseteq 1 .. Len(signed')
        /\ profiles' \in [People -> Nat] /\ stored' \in 0 .. Len(signed')
    BY DEF SessionInv, SessionShape
  <1> HIDE DEF new
  <1>4. Len(new.calls) <= 1
    BY <1>2
  <1>5. \A i \in 1 .. Len(new.calls) :
           new.calls[i].as = stored' /\ Truthful(new.calls[i], signed')
    BY <1>2
  <1>6. new.user # Nobody /\ stored' # NoToken =>
           Belongs(stored', new.user, signed')
    BY <1>2
  <1>7. tabs' = [tabs EXCEPT ![t] = new]
    BY DEF new
  <1> QED
    BY ONLY SessionInv, OneTab, t \in Tabs, <1>2, <1>3, <1>4, <1>5, <1>6, <1>7, TabStep

LEMMA NoCallStep ==
    ASSUME SessionInv, OneTab, NEW t \in Tabs, NEW row \in TabRow,
           tabs' = [tabs EXCEPT ![t] = row], row.calls = <<>>,
           signed' = signed, valid' = valid, profiles' = profiles,
           stored' \in 0 .. Len(signed),
           row.user # Nobody /\ stored' # NoToken =>
              Belongs(stored', row.user, signed)
    PROVE  SessionInv'
  <1>1. /\ signed' \in Seq(People) /\ valid' \subseteq 1 .. Len(signed')
        /\ profiles' \in [People -> Nat] /\ stored' \in 0 .. Len(signed')
    BY DEF SessionInv, SessionShape
  <1>2. Len(row.calls) <= 1
    OBVIOUS
  <1>3. \A i \in 1 .. Len(row.calls) :
           row.calls[i].as = stored' /\ Truthful(row.calls[i], signed')
    OBVIOUS
  <1>4. row.user # Nobody /\ stored' # NoToken =>
           Belongs(stored', row.user, signed')
    OBVIOUS
  <1> QED
    BY <1>1, <1>2, <1>3, <1>4, TabStep

LEMMA NewCall ==
    ASSUME SessionInv, NEW kind \in Requests, NEW who \in Somebody,
           kind = "login" => who \in People
    PROVE  /\ Call(kind, who) \in CallRow
           /\ Call(kind, who).as = stored
           /\ Truthful(Call(kind, who), signed)
  BY DEF Call, CallRow, Replies, Truthful, NoToken, SessionInv, SessionShape

LEMMA TabFacts ==
    ASSUME SessionInv, NEW t \in Tabs
    PROVE  /\ tabs[t] \in TabRow /\ stored \in 0 .. Len(signed)
           /\ tabs[t].user # Nobody /\ stored # NoToken =>
                Belongs(stored, tabs[t].user, signed)
  BY DEF SessionInv, SessionShape, UserInv, SignedIn, Shows

LEMMA SendInv ==
    ASSUME SessionInv, OneTab, NEW t \in Tabs, NEW kind \in Requests,
           NEW who \in Somebody, kind = "login" => who \in People,
           Send(t, Call(kind, who))
    PROVE  SessionInv'
  <1> DEFINE call == Call(kind, who)
  <1>1. call \in CallRow /\ call.as = stored /\ Truthful(call, signed)
    BY NewCall
  <1> HIDE DEF call
  <1>2. tabs[t] \in TabRow /\ tabs[t].calls \in Seq(CallRow)
    BY TabFacts DEF TabRow
  <1>3. Len(tabs[t].calls) < 1
    BY DEF Send, MayUse, OneTab
  <1>4. tabs[t].calls = <<>>
    BY <1>2, <1>3
  <1>5. Append(tabs[t].calls, call) = <<call>>
    BY <1>1, <1>4
  <1>6. tabs' = [tabs EXCEPT ![t] = [tabs[t] EXCEPT !.calls = <<call>>]]
    BY <1>5 DEF Send, call
  <1>7. signed' = signed /\ valid' = valid /\ profiles' = profiles /\ stored' = stored
    BY DEF Send
  <1> QED
    BY <1>1, <1>2, <1>6, <1>7, TabFacts, OneCallStep

\* What the user does.
UserStep(t) ==
    \/ OpenTab(t) \/ CloseTab(t) \/ GoTo(t, "login") \/ GoTo(t, "page")
    \/ \E p \in People : LogIn(t, p)
    \/ LogOut(t) \/ AskPage(t) \/ ChangePassword(t) \/ UploadAvatar(t)
    \/ SaveProfile(t)

LEMMA UserInvStep ==
    ASSUME SessionInv, OneTab, NEW t \in Tabs, UserStep(t)
    PROVE  SessionInv'
  <1>0. Nobody \in Somebody /\ People \subseteq Somebody
    BY DEF Somebody
  <1>1. ClosedTab \in TabRow /\ ClosedTab.user = Nobody /\ ClosedTab.calls = <<>>
    BY DEF ClosedTab, TabRow, Places, Somebody
  <1>2. CASE OpenTab(t)
    <2> DEFINE row == [ClosedTab EXCEPT !.at = "page"]
               call == Call("boot", Nobody)
    <2>1. row \in TabRow /\ row.user = Nobody /\ row.calls = <<>>
      BY <1>1 DEF TabRow, Places
    <2>2. call \in CallRow /\ call.as = stored /\ Truthful(call, signed)
      BY <1>0, NewCall DEF Requests
    <2>3. Loaded("page") = IF stored = NoToken THEN row
                           ELSE [row EXCEPT !.calls = <<call>>]
      <3>1. CASE stored = NoToken
        <4>1. Loaded("page") = [ClosedTab EXCEPT !.at = "page", !.calls = <<>>]
          BY <3>1 DEF Loaded
        <4>2. DOMAIN ClosedTab = DOMAIN row /\ row = [row EXCEPT !.calls = <<>>]
          BY <2>1 DEF ClosedTab
        <4>3. Loaded("page") = [row EXCEPT !.calls = <<>>]
          BY <4>1 DEF ClosedTab
        <4> QED
          BY <3>1, <4>2, <4>3
      <3>2. CASE stored # NoToken
        BY <3>2 DEF Loaded, ClosedTab
      <3> QED
        BY <3>1, <3>2
    <2>4. /\ tabs' = [tabs EXCEPT ![t] = Loaded("page")]
          /\ signed' = signed /\ valid' = valid /\ profiles' = profiles
          /\ stored' = stored /\ stored' \in 0 .. Len(signed)
      BY <1>2, TabFacts DEF OpenTab
    <2> HIDE DEF row, call
    <2>5. CASE stored = NoToken
      BY <2>1, <2>3, <2>4, <2>5, NoCallStep
    <2>6. CASE stored # NoToken
      BY <2>1, <2>2, <2>3, <2>4, <2>6, OneCallStep
    <2> QED
      BY <2>5, <2>6
  <1>3. CASE CloseTab(t)
    BY <1>1, <1>3, TabFacts, NoCallStep DEF CloseTab
  <1>4. ASSUME NEW place \in {"login", "page"}, GoTo(t, place)
        PROVE  SessionInv'
    <2> DEFINE row == [tabs[t] EXCEPT !.at = place]
    <2>1. /\ row \in TabRow /\ row.user = tabs[t].user
          /\ row.calls = tabs[t].calls
      BY TabFacts DEF TabRow, Places
    <2>2. tabs' = [tabs EXCEPT ![t] = row] /\ tabs[t].calls = <<>>
      BY <1>4 DEF GoTo, OneTab
    <2>3. /\ signed' = signed /\ valid' = valid /\ profiles' = profiles
          /\ stored' = stored
      BY <1>4 DEF GoTo
    <2> HIDE DEF row
    <2> QED
      BY <2>1, <2>2, <2>3, TabFacts, NoCallStep
  <1>5. CASE \E p \in People : LogIn(t, p)
    BY <1>0, <1>5, SendInv DEF LogIn, Requests
  <1>6. CASE LogOut(t)
    BY <1>0, <1>6, SendInv DEF LogOut, Requests
  <1>7. CASE AskPage(t)
    BY <1>0, <1>7, SendInv DEF AskPage, Requests
  <1>8. CASE ChangePassword(t)
    BY <1>0, <1>8, SendInv DEF ChangePassword, Requests
  <1>9. CASE UploadAvatar(t)
    BY <1>0, <1>9, SendInv DEF UploadAvatar, Requests
  <1>10. CASE SaveProfile(t)
    BY <1>0, <1>10, SendInv DEF SaveProfile, Requests
  <1> QED
    BY <1>2, <1>3, <1>4, <1>5, <1>6, <1>7, <1>8, <1>9, <1>10 DEF UserStep

-----------------------------------------------------------------------------
(* The server answers.                                                     *)

LEMMA AskedFacts ==
    ASSUME SessionInv, NEW t \in Tabs, NEW i, NEW kinds, Asked(t, i, kinds)
    PROVE  /\ i \in DOMAIN tabs[t].calls /\ tabs[t].calls[i].kind \in kinds
           /\ tabs[t].calls[i] \in CallRow /\ tabs[t].calls[i].as = stored
           /\ Truthful(tabs[t].calls[i], signed)
  BY CallFacts DEF Asked

LEMMA ServeLoginInv ==
    ASSUME SessionInv, OneTab, NEW t \in Tabs, NEW i, ServeLogin(t, i)
    PROVE  SessionInv'
  <1> DEFINE old == tabs[t].calls[i]
             token == Len(signed) + 1
             call == [Describe(old, old.who, profiles[old.who]) EXCEPT !.token = token]
  <1>1. /\ i \in DOMAIN tabs[t].calls /\ old \in CallRow /\ old.as = stored
        /\ old.kind = "login" /\ old.who \in People
    BY AskedFacts DEF ServeLogin, Truthful
  <1>2. /\ signed' = Append(signed, old.who) /\ valid' = valid \cup {token}
        /\ Answered(t, i, call) /\ profiles' = profiles /\ stored' = stored
    BY DEF ServeLogin
  <1>3. /\ signed \in Seq(People) /\ Len(signed) \in Nat
        /\ valid \subseteq 1 .. Len(signed) /\ profiles \in [People -> Nat]
    BY DEF SessionInv, SessionShape
  <1>4. /\ signed' \in Seq(People) /\ Len(signed') = token
        /\ \A k \in 1 .. Len(signed) : signed'[k] = signed[k]
        /\ signed'[token] = old.who
    BY <1>1, <1>2, <1>3
  <1>5. profiles[old.who] \in Nat /\ token \in Nat
    BY <1>1, <1>3
  <1> HIDE DEF old, token
  <1>6. /\ call \in CallRow /\ call.as = stored /\ call.kind = "login"
        /\ call.who = old.who /\ call.token = token
    BY <1>1, <1>5 DEF Describe, CallRow, Replies
  <1> HIDE DEF call
  <1>7. Truthful(call, signed')
    <2>1. token \in 1 .. Len(signed')
      BY <1>3, <1>4 DEF token
    <2>2. Belongs(call.token, call.who, signed')
      BY <1>4, <1>6, <2>1 DEF Belongs
    <2> QED
      BY <1>1, <1>6, <2>2 DEF Truthful
  <1>8. valid' \subseteq 1 .. Len(signed') /\ Len(signed) <= Len(signed')
    <2> DEFINE n == Len(signed)
    <2>1. valid' = valid \cup {token} /\ token = n + 1 /\ Len(signed') = token
      BY <1>2, <1>4 DEF token
    <2>2. n \in Nat /\ valid \subseteq 1 .. n
      BY <1>3
    <2> HIDE DEF n
    <2>3. valid' \subseteq 1 .. token /\ n <= token
      BY <2>1, <2>2
    <2> QED
      BY <2>1, <2>3 DEF n
  <1>9. profiles' \in [People -> Nat]
    BY <1>2, <1>3
  <1> HIDE DEF call
  <1> QED
    BY <1>1, <1>2, <1>4, <1>6, <1>7, <1>8, <1>9, AnswerStep

\* The server answers a call that does not sign anyone in.
LEMMA QuietAnswer ==
    ASSUME SessionInv, OneTab, NEW t \in Tabs, NEW i, i \in DOMAIN tabs[t].calls,
           NEW call \in CallRow, Answered(t, i, call), call.as = stored,
           Truthful(call, signed), signed' = signed, stored' = stored,
           valid' \subseteq valid, profiles' \in [People -> Nat]
    PROVE  SessionInv'
  <1>1. /\ signed' \in Seq(People) /\ valid' \subseteq 1 .. Len(signed')
        /\ Len(signed) <= Len(signed')
        /\ \A k \in 1 .. Len(signed) : signed'[k] = signed[k]
    BY DEF SessionInv, SessionShape
  <1> QED
    BY <1>1, AnswerStep

LEMMA ServeLogoutInv ==
    ASSUME SessionInv, OneTab, NEW t \in Tabs, NEW i, ServeLogout(t, i)
    PROVE  SessionInv'
  <1> DEFINE old == tabs[t].calls[i]
             call == [old EXCEPT !.answer = "ok"]
  <1>1. /\ i \in DOMAIN tabs[t].calls /\ old \in CallRow /\ old.as = stored
        /\ old.kind = "logout"
    BY AskedFacts DEF ServeLogout
  <1>2. /\ Answered(t, i, call) /\ signed' = signed /\ stored' = stored
        /\ valid' \subseteq valid /\ profiles' \in [People -> Nat]
    BY DEF ServeLogout, SessionInv, SessionShape
  <1> HIDE DEF old
  <1>3. call \in CallRow /\ call.as = stored /\ Truthful(call, signed)
    BY <1>1 DEF CallRow, Replies, Truthful
  <1> QED
    BY <1>1, <1>2, <1>3, QuietAnswer

LEMMA FailInv ==
    ASSUME SessionInv, OneTab, NEW t \in Tabs, NEW i, Fail(t, i)
    PROVE  SessionInv'
  <1> DEFINE old == tabs[t].calls[i]
             call == [old EXCEPT !.answer = "failed"]
  <1>1. /\ i \in DOMAIN tabs[t].calls /\ old \in CallRow /\ old.as = stored
        /\ Truthful(old, signed)
    BY AskedFacts DEF Fail
  <1>2. /\ Answered(t, i, call) /\ signed' = signed /\ stored' = stored
        /\ valid' \subseteq valid /\ profiles' \in [People -> Nat]
    BY DEF Fail, SessionInv, SessionShape
  <1> HIDE DEF old
  <1>3. call \in CallRow /\ call.as = stored /\ Truthful(call, signed)
    BY <1>1 DEF CallRow, Replies, Truthful
  <1> QED
    BY <1>1, <1>2, <1>3, QuietAnswer

LEMMA ServeInv ==
    ASSUME SessionInv, OneTab, NEW t \in Tabs, NEW i, Serve(t, i)
    PROVE  SessionInv'
  <1> DEFINE old == tabs[t].calls[i]
             p == Owner(old.as)
  <1>1. /\ i \in DOMAIN tabs[t].calls /\ old \in CallRow /\ old.as = stored
        /\ old.kind \in Requests \ {"login", "logout"}
    BY AskedFacts DEF Serve
  <1>2. /\ signed \in Seq(People) /\ valid \subseteq 1 .. Len(signed)
        /\ profiles \in [People -> Nat]
    BY DEF SessionInv, SessionShape
  <1>3. signed' = signed /\ stored' = stored
    BY DEF Serve
  <1>4. CASE old.as \notin valid
    <2> DEFINE call == [old EXCEPT !.answer = "401"]
    <2>1. Answered(t, i, call) /\ valid' \subseteq valid /\ profiles' \in [People -> Nat]
      BY <1>2, <1>4 DEF Serve
    <2> HIDE DEF old
    <2>2. call \in CallRow /\ call.as = stored /\ Truthful(call, signed)
      BY <1>1 DEF CallRow, Replies, Truthful
    <2> QED
      BY <1>1, <1>3, <2>1, <2>2, QuietAnswer
  <1>5. CASE old.as \in valid
    <2> DEFINE call == Describe(old, p, profiles'[p])
    <2>1. Belongs(old.as, p, signed) /\ p \in People
      <3> DEFINE k == old.as
      <3>1. k \in 1 .. Len(signed)
        BY <1>2, <1>5
      <3>2. p = Owner(k)
        OBVIOUS
      <3> HIDE DEF k, p
      <3>3. p = signed[k]
        BY <3>1, <3>2 DEF Owner, Issued
      <3>4. p \in People /\ Belongs(k, p, signed)
        BY <1>2, <3>1, <3>3 DEF Belongs
      <3> QED
        BY <3>4 DEF k
    <2>2. /\ Answered(t, i, call) /\ valid' = StillValid(old, p)
          /\ profiles' = Saved(old, p)
      BY <1>5 DEF Serve
    <2> HIDE DEF old, p
    <2>3. valid' \subseteq valid /\ profiles' \in [People -> Nat]
      BY <1>2, <2>1, <2>2 DEF StillValid, Saved
    <2>4. profiles'[p] \in Nat /\ p \in Somebody
      BY <2>1, <2>3 DEF Somebody
    <2>5. call \in CallRow /\ call.as = stored /\ Truthful(call, signed)
      BY <1>1, <2>1, <2>4 DEF Describe, CallRow, Replies, Truthful
    <2> HIDE DEF call
    <2> QED
      BY <1>1, <1>3, <2>2, <2>3, <2>5, QuietAnswer
  <1> QED
    BY <1>4, <1>5

-----------------------------------------------------------------------------
(* The tab takes an answer.                                                *)

LEMMA CameFacts ==
    ASSUME SessionInv, NEW t \in Tabs, NEW i, NEW kinds, NEW answers,
           Came(t, i, kinds, answers)
    PROVE  /\ i \in DOMAIN tabs[t].calls
           /\ tabs[t].calls[i].kind \in kinds /\ tabs[t].calls[i].answer \in answers
           /\ tabs[t].calls[i] \in CallRow /\ tabs[t].calls[i].as = stored
           /\ Truthful(tabs[t].calls[i], signed)
           /\ Done(t, i) \in TabRow /\ Done(t, i).calls = <<>>
           /\ Done(t, i).user = tabs[t].user
           /\ stored \in 0 .. Len(signed)
           /\ tabs[t].user # Nobody /\ stored # NoToken =>
                Belongs(stored, tabs[t].user, signed)
  BY CallFacts, TabFacts DEF Came

\* The tab goes on with the user that it shows.
LEMMA QuietTake ==
    ASSUME SessionInv, OneTab, NEW t \in Tabs, NEW i,
           i \in DOMAIN tabs[t].calls,
           tabs' = [tabs EXCEPT ![t] = Done(t, i)],
           signed' = signed, valid' = valid, profiles' = profiles,
           stored' = stored \/ stored' = NoToken
    PROVE  SessionInv'
  <1>1. /\ Done(t, i) \in TabRow /\ Done(t, i).calls = <<>>
        /\ Done(t, i).user = tabs[t].user
    BY CallFacts
  <1>2. /\ stored' \in 0 .. Len(signed)
        /\ tabs[t].user # Nobody /\ stored' # NoToken =>
             Belongs(stored', tabs[t].user, signed)
    <2>1. 0 \in 0 .. Len(signed)
      BY DEF SessionInv, SessionShape
    <2> QED
      BY <2>1, TabFacts DEF NoToken
  <1> QED
    BY <1>1, <1>2, NoCallStep

\* The tab shows the user that an answer describes.
LEMMA ShowFacts ==
    ASSUME NEW row \in TabRow, NEW call \in CallRow
    PROVE  /\ ShowUser(row, call) \in TabRow
           /\ ShowUser(row, call).user = call.who
           /\ ShowUser(row, call).calls = row.calls
  BY DEF ShowUser, TabRow, CallRow

LEMMA ShowTake ==
    ASSUME SessionInv, OneTab, NEW t \in Tabs, NEW i,
           Came(t, i, Requests \ {"login", "logout"}, {"ok"}),
           NEW place \in Places,
           tabs' = [tabs EXCEPT ![t] =
               [ShowUser(Done(t, i), tabs[t].calls[i]) EXCEPT !.at = place]],
           signed' = signed, valid' = valid, profiles' = profiles,
           stored' = stored
    PROVE  SessionInv'
  <1> DEFINE call == tabs[t].calls[i]
             shown == ShowUser(Done(t, i), call)
             row == [shown EXCEPT !.at = place]
  <1>1. /\ call \in CallRow /\ call.as = stored /\ Truthful(call, signed)
        /\ call.answer = "ok" /\ call.kind \notin {"login", "logout"}
        /\ Done(t, i) \in TabRow /\ Done(t, i).calls = <<>>
        /\ stored \in 0 .. Len(signed)
    BY CameFacts
  <1>2. tabs' = [tabs EXCEPT ![t] = row]
    OBVIOUS
  <1>3. shown \in TabRow /\ shown.user = call.who /\ shown.calls = <<>>
    BY <1>1, ShowFacts
  <1> HIDE DEF shown, call
  <1>4. row \in TabRow /\ row.user = call.who /\ row.calls = <<>>
    BY <1>3 DEF TabRow
  <1>5. Belongs(stored, call.who, signed)
    BY <1>1 DEF Truthful
  <1> HIDE DEF row
  <1> QED
    BY <1>1, <1>2, <1>4, <1>5, NoCallStep

LEMMA TakeLoginInv ==
    ASSUME SessionInv, OneTab, NEW t \in Tabs, NEW i, TakeLogin(t, i)
    PROVE  SessionInv'
  <1> DEFINE old == tabs[t].calls[i]
             shown == ShowUser(Done(t, i), old)
             call == [Call("welcome", Nobody) EXCEPT !.as = old.token]
  <1>1. /\ old \in CallRow /\ Truthful(old, signed)
        /\ old.answer = "ok" /\ old.kind = "login"
        /\ Done(t, i) \in TabRow /\ Done(t, i).calls = <<>>
    BY CameFacts DEF TakeLogin
  <1>2. /\ stored' = old.token /\ signed' = signed /\ valid' = valid
        /\ profiles' = profiles
        /\ tabs' = [tabs EXCEPT ![t] = [shown EXCEPT !.calls = Append(@, call)]]
    BY DEF TakeLogin
  <1>3. Belongs(old.token, old.who, signed) /\ old.token \in Nat
    BY <1>1 DEF Truthful, CallRow
  <1>4. shown \in TabRow /\ shown.user = old.who /\ shown.calls = <<>>
    BY <1>1, ShowFacts
  <1>5. Call("welcome", Nobody) \in CallRow
    BY NewCall DEF Requests, Somebody
  <1>6. /\ call.as = old.token /\ call.answer = "none" /\ call.kind = "welcome"
    BY <1>5 DEF CallRow, Call
  <1>7. call \in CallRow
    BY <1>3, <1>5 DEF CallRow
  <1> HIDE DEF old, shown, call
  <1>8. Truthful(call, signed)
    BY <1>6 DEF Truthful
  <1>9. Append(shown.calls, call) = <<call>>
    BY <1>4, <1>7
  <1>10. tabs' = [tabs EXCEPT ![t] = [shown EXCEPT !.calls = <<call>>]]
    BY <1>2, <1>9
  <1>11. stored' \in 0 .. Len(signed)
    BY <1>2, <1>3 DEF Belongs, SessionInv, SessionShape
  <1> QED
    BY <1>2, <1>3, <1>4, <1>6, <1>7, <1>8, <1>10, <1>11, OneCallStep

LEMMA TakeAvatarInv ==
    ASSUME SessionInv, OneTab, NEW t \in Tabs, NEW i, TakeAvatar(t, i)
    PROVE  SessionInv'
  <1> DEFINE row == Done(t, i)
             call == Call("profile", Nobody)
  <1>1. /\ row \in TabRow /\ row.calls = <<>> /\ row.user = tabs[t].user
        /\ stored \in 0 .. Len(signed)
        /\ tabs[t].user # Nobody /\ stored # NoToken =>
             Belongs(stored, tabs[t].user, signed)
    BY CameFacts DEF TakeAvatar
  <1>2. call \in CallRow /\ call.as = stored /\ Truthful(call, signed)
    BY NewCall DEF Requests, Somebody
  <1>3. /\ signed' = signed /\ valid' = valid /\ profiles' = profiles
        /\ stored' = stored
        /\ tabs' = [tabs EXCEPT ![t] = [row EXCEPT !.calls = Append(@, call)]]
    BY DEF TakeAvatar
  <1> HIDE DEF row, call
  <1>4. Append(row.calls, call) = <<call>>
    BY <1>1, <1>2
  <1> QED
    BY <1>1, <1>2, <1>3, <1>4, OneCallStep

LEMMA TakesInv ==
    ASSUME SessionInv, OneTab, NEW t \in Tabs, Takes(t)
    PROVE  SessionInv'
  <1>0. /\ BootFailed = {"401", "failed"} /\ Places = {"closed", "page", "login"}
        /\ {"boot", "welcome", "profile", "save"} \subseteq Requests \ {"login", "logout"}
    BY DEF BootFailed, Places, Requests
  <1>1. ASSUME NEW i, TakeBoot(t, i)
        PROVE  SessionInv'
    <2> DEFINE call == tabs[t].calls[i]
    <2>1. /\ i \in DOMAIN tabs[t].calls /\ call.kind = "boot"
          /\ signed' = signed /\ valid' = valid /\ profiles' = profiles
          /\ tabs[t] \in TabRow
      BY <1>1, CallFacts DEF TakeBoot, Came
    <2>2. CASE call.answer = "ok"
      <3> DEFINE shown == ShowUser(Done(t, i), call)
      <3>1. /\ tabs' = [tabs EXCEPT ![t] = shown] /\ stored' = stored
        BY <1>1, <2>2 DEF TakeBoot
      <3>2. Came(t, i, Requests \ {"login", "logout"}, {"ok"})
        BY <1>0, <2>1, <2>2 DEF Came
      <3>3. shown \in TabRow
        BY <3>2, CameFacts, ShowFacts
      <3>4. shown = [shown EXCEPT !.at = shown.at] /\ shown.at \in Places
        <4> HIDE DEF shown
        <4> QED
          BY <3>3 DEF TabRow
      <3> QED
        BY <2>1, <3>1, <3>2, <3>4, ShowTake
    <2>3. CASE call.answer # "ok"
      <3>1. tabs' = [tabs EXCEPT ![t] = Done(t, i)] /\ stored' = NoToken
        BY <1>1, <2>3 DEF TakeBoot
      <3> QED
        BY <2>1, <3>1, QuietTake
    <2> QED
      BY <2>2, <2>3
  <1>2. ASSUME NEW i, TakeWelcome(t, i)
        PROVE  SessionInv'
    <2>1. Came(t, i, Requests \ {"login", "logout"}, {"ok"})
      BY <1>0, <1>2 DEF TakeWelcome, Came
    <2> QED
      BY <1>0, <1>2, <2>1, ShowTake DEF TakeWelcome
  <1>3. ASSUME NEW i, TakeProfile(t, i)
        PROVE  SessionInv'
    <2> DEFINE shown == ShowUser(Done(t, i), tabs[t].calls[i])
    <2>1. Came(t, i, Requests \ {"login", "logout"}, {"ok"})
      BY <1>0, <1>3 DEF TakeProfile, Came
    <2>2. shown \in TabRow
      BY <2>1, CameFacts, ShowFacts
    <2>3. /\ tabs' = [tabs EXCEPT ![t] = shown] /\ stored' = stored
          /\ signed' = signed /\ valid' = valid /\ profiles' = profiles
      BY <1>3 DEF TakeProfile
    <2>4. shown = [shown EXCEPT !.at = shown.at] /\ shown.at \in Places
      <3> HIDE DEF shown
      <3> QED
        BY <2>2 DEF TabRow
    <2> QED
      BY <2>1, <2>3, <2>4, ShowTake
  <1>4. ASSUME NEW i, TakeLogout(t, i)
        PROVE  SessionInv'
    <2> DEFINE row == [Done(t, i) EXCEPT !.user = Nobody]
    <2>1. row \in TabRow /\ row.user = Nobody /\ row.calls = <<>>
      <3>1. Done(t, i) \in TabRow /\ Done(t, i).calls = <<>>
        BY <1>4, CameFacts DEF TakeLogout
      <3> QED
        BY <3>1 DEF TabRow, Somebody
    <2>2. /\ tabs' = [tabs EXCEPT ![t] = row] /\ stored' = NoToken
          /\ signed' = signed /\ valid' = valid /\ profiles' = profiles
      BY <1>4 DEF TakeLogout
    <2>3. stored' \in 0 .. Len(signed)
      BY <2>2 DEF NoToken, SessionInv, SessionShape
    <2> HIDE DEF row
    <2> QED
      BY <2>1, <2>2, <2>3, NoCallStep
  <1>5. ASSUME NEW i, TakeRefusal(t, i)
        PROVE  SessionInv'
    <2> DEFINE row == [ClosedTab EXCEPT !.at = "login"]
    <2>1. row \in TabRow /\ row.user = Nobody /\ row.calls = <<>>
      <3>1. ClosedTab \in TabRow /\ ClosedTab.user = Nobody /\ ClosedTab.calls = <<>>
        BY DEF ClosedTab, TabRow, Places, Somebody
      <3> QED
        BY <3>1 DEF TabRow, Places
    <2>2. /\ i \in DOMAIN tabs[t].calls /\ stored' = NoToken
          /\ signed' = signed /\ valid' = valid /\ profiles' = profiles
          /\ \/ tabs' = [tabs EXCEPT ![t] = Done(t, i)]
             \/ tabs' = [tabs EXCEPT ![t] = row]
      BY <1>5 DEF TakeRefusal, Came
    <2>3. stored' \in 0 .. Len(signed)
      BY <2>2 DEF NoToken, SessionInv, SessionShape
    <2> HIDE DEF row
    <2>4. CASE tabs' = [tabs EXCEPT ![t] = Done(t, i)]
      BY <2>2, <2>4, QuietTake
    <2>5. CASE tabs' = [tabs EXCEPT ![t] = row]
      BY <2>1, <2>2, <2>3, <2>5, NoCallStep
    <2> QED
      BY <2>2, <2>4, <2>5
  <1>6. ASSUME NEW i, TakeQuietly(t, i)
        PROVE  SessionInv'
    BY <1>6, QuietTake DEF TakeQuietly, Came
  <1> QED
    BY <1>1, <1>2, <1>3, <1>4, <1>5, <1>6, TakeLoginInv, TakeAvatarInv DEF Takes

-----------------------------------------------------------------------------
LEMMA RevokeInv ==
    ASSUME SessionInv, NEW token \in valid, Revoke(token)
    PROVE  SessionInv'
  <1>1. SessionShape'
    BY DEF Revoke, SessionInv, SessionShape
  <1>2. CallInv'
    BY DEF Revoke, SessionInv, CallInv, Truthful
  <1>3. UserInv'
    BY DEF Revoke, SessionInv, UserInv, SignedIn, Shows, Belongs
  <1> QED
    BY <1>1, <1>2, <1>3 DEF SessionInv

LEMMA SessionStep ==
    ASSUME SessionInv, OneTab, [SNext]_svars PROVE SessionInv'
  <1>1. ASSUME NEW t \in Tabs, UserStep(t) PROVE SessionInv'
    BY <1>1, UserInvStep
  <1>2. ASSUME NEW t \in Tabs, Serves(t) PROVE SessionInv'
    BY <1>2, ServeLoginInv, ServeLogoutInv, ServeInv DEF Serves
  <1>3. ASSUME NEW t \in Tabs, NEW i, Fail(t, i) PROVE SessionInv'
    BY <1>3, FailInv
  <1>4. ASSUME NEW t \in Tabs, Takes(t) PROVE SessionInv'
    BY <1>4, TakesInv
  <1>5. ASSUME NEW token \in valid, Revoke(token) PROVE SessionInv'
    BY <1>5, RevokeInv
  <1>6. CASE UNCHANGED svars
    <2>1. SessionShape'
      BY <1>6 DEF svars, SessionInv, SessionShape
    <2>2. CallInv'
      BY <1>6 DEF svars, SessionInv, CallInv, Truthful
    <2>3. UserInv'
      BY <1>6 DEF svars, SessionInv, UserInv, SignedIn, Shows, Belongs
    <2> QED
      BY <2>1, <2>2, <2>3 DEF SessionInv
  <1> QED
    BY <1>1, <1>2, <1>3, <1>4, <1>5, <1>6 DEF SNext, UserStep

\* In a tab that is used only while it waits for nothing, the session that is
\* stored is one of the user that the tab shows.
THEOREM ActsAsShownCorrect ==
    ASSUME OneTab PROVE SSpec => []ActsAsShown
  <1>1. SInit => SessionInv
    BY SessionInit
  <1>2. SessionInv /\ [SNext]_svars => SessionInv'
    BY SessionStep
  <1>3. SessionInv => ActsAsShown
    BY DEF SessionInv, UserInv, ActsAsShown, Belongs, Owner, Issued
  <1> QED
    BY <1>1, <1>2, <1>3, PTL DEF SSpec

-----------------------------------------------------------------------------
(* The desk: one verdict for each upload, when a check and its write are   *)
(* one step to the others.                                                 *)

PhotoRow == [upload : Nat, status : {"NONE", "PENDING", "APPROVED", "REJECTED"}]
ClickParts == {"phase", "b", "on", "copy", "read", "out"}

\* A click that is under way is of a button on a row that is modelled.
UnderWay(c) == c.phase # "idle"
SoundClick(c) ==
    \/ c = NoClick
    \/ /\ DOMAIN c = ClickParts
       /\ c.b \in DeskButtons /\ KindOfButton(c.b) \in RowKinds

DeskShape ==
    /\ DOMAIN db = RowKinds
    /\ "photo" \in RowKinds => db.photo \in PhotoRow
    /\ verdicts \in Nat
    /\ DOMAIN tab = Staff /\ DOMAIN click = Staff
    /\ \A s \in Staff : tab[s] \in Lists => KindOf(tab[s]) \in RowKinds
    /\ \A s \in Staff : SoundClick(click[s])

VerdictInv ==
    /\ verdicts <= 1
    /\ "photo" \in RowKinds =>
         (db.photo.status = "PENDING" => verdicts = 0)

\* What a handler has read of a photo still holds when it writes.
CheckedInv ==
    /\ \A s, u \in Staff : Clicked(s, "checked") /\ Clicked(u, "checked") => s = u
    /\ \A s \in Staff : Clicked(s, "checked") /\ click[s].b \in PhotoButtons =>
          db.photo.status = "PENDING"

DeskInv == DeskShape /\ VerdictInv /\ CheckedInv

-----------------------------------------------------------------------------
LEMMA ButtonKinds ==
    /\ \A b \in CarButtons     : KindOfButton(b) = "car"
    /\ \A b \in PhotoButtons   : KindOfButton(b) = "photo"
    /\ \A b \in MemberButtons  : KindOfButton(b) = "member"
    /\ KindOfButton("resolve") = "report"
    /\ \A b \in PaymentButtons : KindOfButton(b) = "payment"
    /\ \A b \in OrderButtons   : KindOfButton(b) = "order"
  BY DEF KindOfButton, CarButtons, PhotoButtons, MemberButtons, PaymentButtons,
         OrderButtons

LEMMA PhotoIsPhoto ==
    \A b \in DeskButtons : KindOfButton(b) = "photo" <=> b \in PhotoButtons
  BY ButtonKinds DEF DeskButtons

LEMMA PhotoHandlers ==
    ASSUME NEW b \in PhotoButtons, NEW copy, NEW read, NEW r
    PROVE  /\ ~Refuses(b, r) => r.status = "PENDING"
           /\ NewRow(b, copy, read, r) \in {SetAvatarStatus("APPROVED", r),
                                            SetAvatarStatus("REJECTED", r)}
  <1>1. Refuses(b, r) = (r.status # "PENDING")
    BY DEF Refuses, CarButtons, PhotoButtons, MemberButtons
  <1>2. b = "approvePhoto" \/ b = "rejectPhoto"
    BY DEF PhotoButtons
  <1>3. /\ NewRow("approvePhoto", copy, read, r) = SetAvatarStatus("APPROVED", r)
        /\ NewRow("rejectPhoto", copy, read, r) = SetAvatarStatus("REJECTED", r)
    BY DEF NewRow
  <1> QED
    BY <1>1, <1>2, <1>3

\* The buttons of a list are on the rows of its kind.
LEMMA OffersOfKind ==
    ASSUME NEW by, NEW l \in Lists, NEW r, NEW b \in DeskOffers(by, l, r)
    PROVE  b \in DeskButtons /\ KindOfButton(b) = KindOf(l)
  <1>1. CASE l \in {"pending", "allListings", "takenDown"}
    <2>1. b \in CarButtons
      BY <1>1 DEF DeskOffers, PendingOffers, AllListingsOffers, TakenDownOffers,
                  If, CarButtons
    <2>2. KindOf(l) = "car"
      BY <1>1 DEF KindOf
    <2> QED
      BY <2>1, <2>2, ButtonKinds DEF DeskButtons
  <1>2. CASE l = "photos"
    <2>1. b \in PhotoButtons
      BY <1>2 DEF DeskOffers, PhotoOffers
    <2>2. KindOf(l) = "photo"
      BY <1>2 DEF KindOf
    <2> QED
      BY <2>1, <2>2, ButtonKinds DEF DeskButtons
  <1>3. CASE l = "users"
    <2>1. b \in MemberButtons
      BY <1>3 DEF DeskOffers, MemberOffers, If, MemberButtons
    <2>2. KindOf(l) = "member"
      BY <1>3 DEF KindOf
    <2> QED
      BY <2>1, <2>2, ButtonKinds DEF DeskButtons
  <1>4. CASE l = "reports"
    <2>1. b = "resolve"
      BY <1>4 DEF DeskOffers, ReportOffers, If
    <2>2. KindOf(l) = "report"
      BY <1>4 DEF KindOf
    <2> QED
      BY <2>1, <2>2, ButtonKinds DEF DeskButtons
  <1>5. CASE l = "payments"
    <2>1. b \in PaymentButtons
      BY <1>5 DEF DeskOffers, PaymentOffers, If
    <2>2. KindOf(l) = "payment"
      BY <1>5 DEF KindOf
    <2> QED
      BY <2>1, <2>2, ButtonKinds DEF DeskButtons
  <1>6. CASE l = "purchases"
    <2>1. b \in OrderButtons
      BY <1>6 DEF DeskOffers, DisputeOffers, TransferOffers, PayoutOffers, If,
                  OrderButtons
    <2>2. KindOf(l) = "order"
      BY <1>6 DEF KindOf
    <2> QED
      BY <2>1, <2>2, ButtonKinds DEF DeskButtons
  <1> QED
    BY <1>1, <1>2, <1>3, <1>4, <1>5, <1>6 DEF Lists

LEMMA TabsOfKind ==
    ASSUME NEW r, NEW t \in DeskTabs(r) \cup {"overview"} \cup NotifiedTabs(r), t \in Lists
    PROVE  KindOf(t) \in RowKinds
  BY DEF DeskTabs, NotifiedTabs, Lists

-----------------------------------------------------------------------------
LEMMA DeskInitInv == ASSUME DeskInit PROVE DeskInv
  <1> DEFINE member(r) == [role |-> r, name |-> "old", verified |-> FALSE,
                           active |-> TRUE, gone |-> FALSE]
             placed(p) == [method |-> p, status |-> "AWAITING_PAYMENT",
                           claimed |-> FALSE, dispute |-> "NONE", payout |-> "NONE"]
  <1>1. PICK r \in {"SELLER", "MANAGER", "STAFF"}, p \in {"MOMO", "PAYSTACK"} :
           db = [k \in RowKinds |-> FirstRow(k, member(r), placed(p))]
    BY Zenon DEF DeskInit
  <1> HIDE DEF member, placed
  <1>2. "photo" \in RowKinds => db.photo = [upload |-> 1, status |-> "PENDING"]
    BY <1>1 DEF FirstRow
  <1>3. /\ verdicts = 0 /\ tab = [s \in Staff |-> "none"]
        /\ click = [s \in Staff |-> NoClick]
    BY DEF DeskInit
  <1>4. DeskShape
    BY <1>1, <1>2, <1>3 DEF DeskShape, PhotoRow, SoundClick, Lists
  <1>5. VerdictInv
    BY <1>3 DEF VerdictInv
  <1>6. CheckedInv
    BY <1>3 DEF CheckedInv, Clicked, NoClick
  <1> QED
    BY <1>4, <1>5, <1>6 DEF DeskInv

\* A step that leaves the rows and the clicks alone.
LEMMA TabStepInv ==
    ASSUME DeskInv, UNCHANGED <<db, verdicts, click>>,
           DOMAIN tab' = Staff,
           \A s \in Staff : tab'[s] \in Lists => KindOf(tab'[s]) \in RowKinds
    PROVE  DeskInv'
  <1>1. DeskShape'
    BY DEF DeskInv, DeskShape
  <1>2. VerdictInv' /\ CheckedInv'
    BY DEF DeskInv, VerdictInv, CheckedInv, Clicked
  <1> QED
    BY <1>1, <1>2 DEF DeskInv

\* A step that changes one click.
LEMMA ClickStepInv ==
    ASSUME DeskInv, NEW s \in Staff, NEW c, SoundClick(c),
           click' = [click EXCEPT ![s] = c], UNCHANGED <<db, verdicts, tab>>,
           c.phase = "checked" =>
              /\ \A u \in Staff : ~Clicked(u, "checked")
              /\ c.b \in PhotoButtons => db.photo.status = "PENDING"
    PROVE  DeskInv'
  <1>1. /\ DOMAIN click' = Staff /\ click'[s] = c
        /\ \A u \in Staff : u # s => click'[u] = click[u]
    BY DEF DeskInv, DeskShape
  <1>2. DeskShape'
    BY <1>1 DEF DeskInv, DeskShape, SoundClick
  <1>3. VerdictInv'
    BY DEF DeskInv, VerdictInv
  <1>4. CheckedInv'
    BY <1>1 DEF DeskInv, CheckedInv, Clicked
  <1> QED
    BY <1>2, <1>3, <1>4 DEF DeskInv

LEMMA PressInv ==
    ASSUME DeskInv, NEW s \in Staff, PressButton(s) PROVE DeskInv'
  <1>1. PICK r, b : /\ b \in DeskOffers(role[s], tab[s], r)
                    /\ click' = [click EXCEPT ![s] =
                          [phase |-> "sent", b |-> b, on |-> tab[s],
                           copy |-> r, read |-> r, out |-> r]]
    BY DEF PressButton
  <1> DEFINE c == [phase |-> "sent", b |-> b, on |-> tab[s],
                   copy |-> r, read |-> r, out |-> r]
  <1>2. tab[s] \in Lists /\ UNCHANGED <<db, verdicts, tab>>
    BY DEF PressButton
  <1>3. b \in DeskButtons /\ KindOfButton(b) \in RowKinds
    BY <1>1, <1>2, OffersOfKind DEF DeskInv, DeskShape
  <1>4. SoundClick(c) /\ c.phase # "checked"
    BY <1>3 DEF SoundClick, ClickParts
  <1> HIDE DEF c
  <1> QED
    BY <1>1, <1>2, <1>4, ClickStepInv DEF c

LEMMA CheckInv ==
    ASSUME DeskInv, ~Interleaved, NEW s \in Staff, Check(s) PROVE DeskInv'
  <1> DEFINE old == click[s]
             r == db[KindOfButton(old.b)]
             phase == IF ~HasPermission(role[s], WritePermission(old.b)) THEN "denied"
                      ELSE IF Refuses(old.b, r) THEN "refused" ELSE "checked"
             c == [old EXCEPT !.phase = phase, !.read = r]
  <1>1. /\ click' = [click EXCEPT ![s] = c] /\ UNCHANGED <<db, verdicts, tab>>
        /\ old.phase = "sent" /\ \A u \in Staff : ~Clicked(u, "checked")
    BY DEF Check, Quiet, Clicked
  <1>2. /\ DOMAIN old = ClickParts /\ old.b \in DeskButtons
        /\ KindOfButton(old.b) \in RowKinds
    BY <1>1 DEF DeskInv, DeskShape, SoundClick, NoClick
  <1>3. phase = "checked" => ~Refuses(old.b, r)
    OBVIOUS
  <1>4. old.b \in PhotoButtons /\ ~Refuses(old.b, r) => db.photo.status = "PENDING"
    <2>1. old.b \in PhotoButtons => r = db.photo
      BY ButtonKinds
    <2> QED
      BY <2>1, PhotoHandlers
  <1> HIDE DEF old, r, phase
  <1>5. /\ DOMAIN c = ClickParts /\ c.phase = phase /\ c.b = old.b
    BY <1>2 DEF ClickParts
  <1> HIDE DEF c
  <1>6. SoundClick(c)
    BY <1>2, <1>5 DEF SoundClick
  <1> QED
    BY <1>1, <1>3, <1>4, <1>5, <1>6, ClickStepInv

LEMMA WriteInv ==
    ASSUME DeskInv, NEW s \in Staff, Write(s) PROVE DeskInv'
  <1> DEFINE old == click[s]
             b == old.b
             k == KindOfButton(b)
             row == NewRow(b, old.copy, old.read, db[k])
  <1>1. old.phase = "checked" /\ tab' = tab
    BY DEF Write, Clicked
  <1>2. DOMAIN old = ClickParts /\ b \in DeskButtons /\ k \in RowKinds
    BY <1>1 DEF DeskInv, DeskShape, SoundClick, NoClick
  <1>3. \A u \in Staff : u # s => click[u].phase # "checked"
    BY <1>1 DEF DeskInv, CheckedInv, Clicked
  <1>4. CASE LosesClaim(b, db[k])
    <2> DEFINE c == [old EXCEPT !.phase = "refused"]
    <2>1. /\ click' = [click EXCEPT ![s] = c] /\ UNCHANGED <<db, verdicts, tab>>
      BY <1>1, <1>4 DEF Write, DeskInv, DeskShape
    <2> HIDE DEF old
    <2>2. DOMAIN c = ClickParts /\ c.phase = "refused" /\ c.b = b
      BY <1>2 DEF ClickParts
    <2> HIDE DEF c, b
    <2>3. SoundClick(c)
      BY <1>2, <2>2 DEF SoundClick
    <2> QED
      BY <2>1, <2>2, <2>3, ClickStepInv
  <1>5. CASE ~LosesClaim(b, db[k])
    <2> DEFINE c == [old EXCEPT !.phase = "done", !.out = row]
    <2>1. /\ click' = [click EXCEPT ![s] = c]
          /\ db' = [j \in RowKinds |->
                       IF j = k THEN row
                       ELSE IF j = "car" THEN CarAfter(b, db.car) ELSE db[j]]
          /\ verdicts' = IF k = "photo" THEN verdicts + 1 ELSE verdicts
      BY <1>5 DEF Write
    <2>2. k = "photo" =>
             /\ b \in PhotoButtons /\ db.photo.status = "PENDING"
             /\ row \in {SetAvatarStatus("APPROVED", db.photo),
                         SetAvatarStatus("REJECTED", db.photo)}
      <3>1. SUFFICES ASSUME k = "photo"
                     PROVE  /\ b \in PhotoButtons /\ db.photo.status = "PENDING"
                            /\ row \in {SetAvatarStatus("APPROVED", db.photo),
                                        SetAvatarStatus("REJECTED", db.photo)}
        OBVIOUS
      <3>2. b \in PhotoButtons
        BY <1>2, <3>1, PhotoIsPhoto
      <3>3. db.photo.status = "PENDING"
        BY <1>1, <3>2 DEF DeskInv, CheckedInv, Clicked
      <3>4. row = NewRow(b, old.copy, old.read, db.photo)
        BY <3>1
      <3> HIDE DEF old, b, k, row
      <3> QED
        BY <3>2, <3>3, <3>4, PhotoHandlers
    <2> HIDE DEF row, old
    <2>3. DOMAIN c = ClickParts /\ c.phase = "done" /\ c.b = b
      BY <1>2 DEF ClickParts
    <2> HIDE DEF c, b, k
    <2>4. SoundClick(c) /\ c.phase # "checked"
      BY <1>2, <2>3 DEF SoundClick, k
    <2>5. /\ DOMAIN click' = Staff /\ click'[s] = c
          /\ \A u \in Staff : u # s => click'[u] = click[u]
      BY <2>1 DEF DeskInv, DeskShape
    <2>6. \A u \in Staff : click'[u].phase # "checked"
      BY <1>3, <2>4, <2>5
    <2>7. CASE k = "photo"
      <3>1. db'.photo = row /\ "photo" \in RowKinds /\ DOMAIN db' = RowKinds
        BY <1>2, <2>1, <2>7
      <3>2. row \in PhotoRow /\ row.status # "PENDING"
        BY <2>2, <2>7, <3>1 DEF SetAvatarStatus, PhotoRow, DeskInv, DeskShape
      <3>3. verdicts = 0 /\ verdicts' = 1
        BY <2>1, <2>2, <2>7, <3>1 DEF DeskInv, VerdictInv
      <3>4. DeskShape'
        BY <1>1, <2>4, <2>5, <3>1, <3>2, <3>3 DEF DeskInv, DeskShape, SoundClick
      <3>5. VerdictInv'
        BY <3>1, <3>2, <3>3 DEF VerdictInv
      <3>6. CheckedInv'
        BY <2>6 DEF CheckedInv, Clicked
      <3> QED
        BY <3>4, <3>5, <3>6 DEF DeskInv
    <2>8. CASE k # "photo"
      <3>1. /\ verdicts' = verdicts /\ DOMAIN db' = RowKinds
            /\ "photo" \in RowKinds => db'.photo = db.photo
        BY <2>1, <2>8
      <3>2. DeskShape'
        BY <1>1, <2>4, <2>5, <3>1 DEF DeskInv, DeskShape, SoundClick
      <3>3. VerdictInv'
        BY <3>1 DEF DeskInv, VerdictInv
      <3>4. CheckedInv'
        BY <2>6 DEF CheckedInv, Clicked
      <3> QED
        BY <3>2, <3>3, <3>4 DEF DeskInv
    <2> QED
      BY <2>7, <2>8
  <1> QED
    BY <1>4, <1>5

LEMMA TakeClickInv ==
    ASSUME DeskInv, NEW s \in Staff, Take(s) PROVE DeskInv'
  <1>1. /\ click' = [click EXCEPT ![s] = NoClick]
        /\ UNCHANGED <<db, verdicts, tab>>
    BY DEF Take
  <1>2. SoundClick(NoClick) /\ NoClick.phase # "checked"
    BY DEF SoundClick, NoClick
  <1> QED
    BY <1>1, <1>2, ClickStepInv

\* The others act between requests only.
LEMMA OthersInv ==
    ASSUME DeskInv, ~Interleaved, UploadPhoto \/ PayOnline \/ OrderMoves
    PROVE  DeskInv'
  <1>1. PICK k, r :
           /\ k \in RowKinds
           /\ db' = [db EXCEPT ![k] = r]
           /\ \A s \in Staff : ~Clicked(s, "checked")
           /\ k = "photo" =>
                /\ r = [upload |-> db.photo.upload + 1, status |-> "PENDING"]
                /\ verdicts' = 0
           /\ k # "photo" => verdicts' = verdicts
           /\ tab' = tab /\ click' = click
    <2>1. CASE UploadPhoto
      BY <2>1 DEF UploadPhoto, OthersMay, Quiet, SetRow
    <2>2. CASE PayOnline
      BY <2>2 DEF PayOnline, OthersMay, Quiet, SetRow
    <2>3. CASE OrderMoves
      <3>1. PICK r : db' = [db EXCEPT !["order"] = r]
        BY <2>3 DEF OrderMoves, OrderClaimPayment, OrderApplyVerified, OrderOpenDispute,
                    OrderConfirmReceived, OrderCancel, SetOrder, SetRow
      <3> QED
        BY <2>3, <3>1 DEF OrderMoves, OthersMay, Quiet
    <2> QED
      BY <2>1, <2>2, <2>3
  <1>2. DOMAIN db' = RowKinds /\ db'[k] = r
    BY <1>1 DEF DeskInv, DeskShape
  <1>3. k # "photo" /\ "photo" \in RowKinds => db'.photo = db.photo
    BY <1>1, <1>2 DEF DeskInv, DeskShape
  <1>4. k = "photo" => db'.photo \in PhotoRow /\ verdicts' = 0
    BY <1>1, <1>2 DEF PhotoRow, DeskInv, DeskShape
  <1>5. DeskShape'
    BY <1>1, <1>2, <1>3, <1>4 DEF DeskInv, DeskShape, SoundClick
  <1>6. VerdictInv'
    BY <1>1, <1>3, <1>4 DEF DeskInv, VerdictInv
  <1>7. CheckedInv'
    BY <1>1 DEF CheckedInv, Clicked
  <1> QED
    BY <1>5, <1>6, <1>7 DEF DeskInv

LEMMA DeskStep ==
    ASSUME DeskInv, ~Interleaved, [DeskNext]_deskVars PROVE DeskInv'
  <1>1. ASSUME NEW s \in Staff, OpenDesk(s) PROVE DeskInv'
    <2>1. PICK t \in {"overview"} \cup NotifiedTabs(role[s]) : tab' = [tab EXCEPT ![s] = t]
      BY <1>1 DEF OpenDesk
    <2>2. UNCHANGED <<db, verdicts, click>>
      BY <1>1 DEF OpenDesk
    <2>3. t \in Lists => KindOf(t) \in RowKinds
      BY TabsOfKind
    <2> QED
      BY <2>1, <2>2, <2>3, TabStepInv DEF DeskInv, DeskShape
  <1>2. ASSUME NEW s \in Staff, NEW t \in AllTabs, SelectTab(s, t) PROVE DeskInv'
    <2>1. /\ tab' = [tab EXCEPT ![s] = t] /\ UNCHANGED <<db, verdicts, click>>
          /\ t \in DeskTabs(role[s])
      BY <1>2 DEF SelectTab
    <2>2. t \in Lists => KindOf(t) \in RowKinds
      BY <2>1, TabsOfKind
    <2> QED
      BY <2>1, <2>2, TabStepInv DEF DeskInv, DeskShape
  <1>3. ASSUME NEW s \in Staff, ServeFetch(s) \/ TakeFetch(s) PROVE DeskInv'
    BY <1>3, TabStepInv DEF ServeFetch, TakeFetch, DeskInv, DeskShape
  <1>4. CASE UNCHANGED deskVars
    BY <1>4, TabStepInv DEF deskVars, DeskInv, DeskShape
  <1> QED
    BY <1>1, <1>2, <1>3, <1>4, PressInv, CheckInv, WriteInv, TakeClickInv, OthersInv
    DEF DeskNext

\* While requests do not run between the check and the write of another, an
\* uploaded photo gets one verdict, however many desks are open and however
\* long ago their lists were fetched.
THEOREM OneVerdict ==
    ASSUME ~Interleaved PROVE DeskSpec => []OneVerdictPerUpload
  <1>1. DeskInit => DeskInv
    BY DeskInitInv
  <1>2. DeskInv /\ [DeskNext]_deskVars => DeskInv'
    BY DeskStep
  <1>3. DeskInv => OneVerdictPerUpload
    BY DEF DeskInv, VerdictInv, OneVerdictPerUpload
  <1> QED
    BY <1>1, <1>2, <1>3, PTL DEF DeskSpec

-----------------------------------------------------------------------------
(* The order page: what it shows never goes back, when the page waits for  *)
(* its answers or they come in the order asked.                            *)

OneAnswerAtATime == OrderPageConstants /\ Methods # {} /\ (PageWaits \/ InOrder)

HasOrder(call) == call.reply \in {"ok", "pending"}

\* Calls of a page that shows row, when the order is at version now: the
\* answers under way are of the order as it was then or later, and come in
\* the order of its versions.
FreshCalls(calls, row, now) ==
    /\ row.version <= now
    /\ \A i \in 1 .. Len(calls) : calls[i].row.version <= now
    /\ \A i \in 1 .. Len(calls) :
          HasOrder(calls[i]) => row.version <= calls[i].row.version
    /\ \A i, j \in 1 .. Len(calls) :
          i < j /\ HasOrder(calls[i]) /\ HasOrder(calls[j]) =>
             calls[i].row.version <= calls[j].row.version
    /\ \A i \in 1 .. Len(calls) : calls[i].kind = "first" =>
          Len(calls) = 1 /\ row.status = "NONE" /\ row.version = 0
    /\ PageWaits => Len(calls) <= 1
    /\ InOrder => \A i, j \in 1 .. Len(calls) :
                     i < j /\ calls[j].reply # "none" => calls[i].reply # "none"

NoFirst(calls) == \A i \in 1 .. Len(calls) : calls[i].kind # "first"
MayAsk(calls) == NoFirst(calls) /\ (PageWaits => calls = <<>>)

OrderInv == order.status = "NONE" => order.version = 0

PagesInv == \A v \in Viewers : FreshCalls(pages[v].calls, pages[v].row, order.version)

PageInv == OPTypeOK /\ OrderInv /\ PagesInv

-----------------------------------------------------------------------------
(* Calls.                                                                  *)

LEMMA NoCallsFresh ==
    ASSUME NEW row, NEW now, row.version <= now
    PROVE  FreshCalls(<<>>, row, now)
  BY DEF FreshCalls

LEMMA LaterFresh ==
    ASSUME NEW calls \in Seq(CallRecord), NEW row \in Order, NEW now \in Nat,
           NEW later \in Nat, now <= later, FreshCalls(calls, row, now)
    PROVE  FreshCalls(calls, row, later)
  <1>1. row.version \in Nat /\ \A i \in 1 .. Len(calls) : calls[i].row.version \in Nat
    <2>1. \A i \in 1 .. Len(calls) : calls[i] \in CallRecord
      OBVIOUS
    <2> QED
      BY <2>1 DEF CallRecord, Order
  <1>2. row.version <= later /\ \A i \in 1 .. Len(calls) : calls[i].row.version <= later
    BY <1>1 DEF FreshCalls
  <1> QED
    BY <1>2 DEF FreshCalls

LEMMA AskFresh ==
    ASSUME NEW calls \in Seq(CallRecord), NEW row \in Order, NEW now \in Nat,
           FreshCalls(calls, row, now), MayAsk(calls),
           NEW call \in CallRecord, call.reply = "none", call.kind # "first",
           call.row.version = 0
    PROVE  FreshCalls(Append(calls, call), row, now)
  <1> DEFINE new == Append(calls, call)
             n == Len(calls)
  <1>1. /\ n \in Nat /\ Len(new) = n + 1
        /\ \A i \in 1 .. n : new[i] = calls[i]
        /\ new[n + 1] = call
    OBVIOUS
  <1>2. PageWaits => n = 0
    BY DEF MayAsk
  <1>3. /\ row.version <= now
        /\ \A i \in 1 .. n : calls[i].row.version <= now
        /\ \A i \in 1 .. n :
              HasOrder(calls[i]) => row.version <= calls[i].row.version
        /\ \A i, j \in 1 .. n : i < j /\ HasOrder(calls[i]) /\ HasOrder(calls[j]) =>
              calls[i].row.version <= calls[j].row.version
        /\ InOrder => \A i, j \in 1 .. n :
              i < j /\ calls[j].reply # "none" => calls[i].reply # "none"
        /\ \A i \in 1 .. n : calls[i].kind # "first"
    BY DEF FreshCalls, MayAsk, NoFirst
  <1>4. ~HasOrder(call)
    BY DEF HasOrder
  <1> HIDE DEF new, n
  <1>5. \A i \in 1 .. n + 1 : i \in 1 .. n \/ (i = n + 1 /\ new[i] = call)
    BY <1>1
  <1>6. \A i \in 1 .. Len(new) : new[i].row.version <= now /\ new[i].kind # "first"
    BY <1>1, <1>3, <1>5
  <1>7. \A i \in 1 .. Len(new) : HasOrder(new[i]) =>
           i \in 1 .. n /\ row.version <= new[i].row.version
    BY <1>1, <1>3, <1>4, <1>5
  <1>8. \A i, j \in 1 .. Len(new) : i < j /\ HasOrder(new[i]) /\ HasOrder(new[j]) =>
           new[i].row.version <= new[j].row.version
    BY <1>1, <1>3, <1>7
  <1>9. PageWaits => Len(new) <= 1
    BY <1>1, <1>2
  <1>10. InOrder => \A i, j \in 1 .. Len(new) :
            i < j /\ new[j].reply # "none" => new[i].reply # "none"
    BY <1>1, <1>3, <1>5
  <1>11. FreshCalls(new, row, now)
    BY <1>3, <1>6, <1>7, <1>8, <1>9, <1>10 DEF FreshCalls
  <1> QED
    BY <1>11 DEF new

LEMMA ReplyFresh ==
    ASSUME NEW calls \in Seq(CallRecord), NEW row \in Order, NEW now \in Nat,
           FreshCalls(calls, row, now), PageWaits \/ InOrder,
           NEW k \in 1 .. Len(calls), calls[k].reply = "none",
           InOrder => \A j \in 1 .. (k - 1) : calls[j].reply # "none",
           NEW call \in CallRecord, call.kind = calls[k].kind,
           call.reply # "none", call.row.version <= now,
           HasOrder(call) => call.row.version = now
    PROVE  FreshCalls([calls EXCEPT ![k] = call], row, now)
  <1> DEFINE new == [calls EXCEPT ![k] = call]
             n == Len(calls)
  <1>1. /\ n \in Nat /\ Len(new) = n /\ k \in 1 .. n /\ new[k] = call
        /\ \A i \in 1 .. n : i # k => new[i] = calls[i]
    OBVIOUS
  <1>2. /\ row.version <= now
        /\ \A i \in 1 .. n : calls[i].row.version <= now
        /\ \A i \in 1 .. n :
              HasOrder(calls[i]) => row.version <= calls[i].row.version
        /\ \A i, j \in 1 .. n : i < j /\ HasOrder(calls[i]) /\ HasOrder(calls[j]) =>
              calls[i].row.version <= calls[j].row.version
        /\ \A i \in 1 .. n : calls[i].kind = "first" =>
              n = 1 /\ row.status = "NONE" /\ row.version = 0
        /\ PageWaits => n <= 1
        /\ InOrder => \A i, j \in 1 .. n :
              i < j /\ calls[j].reply # "none" => calls[i].reply # "none"
    BY DEF FreshCalls
  <1> HIDE DEF new, n
  <1>3. \A j \in 1 .. n : k < j => calls[j].reply = "none"
    BY <1>1, <1>2
  <1>4. \A i \in 1 .. n : new[i].row.version <= now
    BY <1>1, <1>2
  <1>5. \A i \in 1 .. n : HasOrder(new[i]) => row.version <= new[i].row.version
    BY <1>1, <1>2
  <1>6. \A i, j \in 1 .. n : i < j /\ HasOrder(new[i]) /\ HasOrder(new[j]) =>
           new[i].row.version <= new[j].row.version
    <2> SUFFICES ASSUME NEW i \in 1 .. n, NEW j \in 1 .. n, i < j,
                        HasOrder(new[i]), HasOrder(new[j])
                 PROVE  new[i].row.version <= new[j].row.version
      OBVIOUS
    <2>1. CASE i = k
      BY <1>1, <1>3, <2>1 DEF HasOrder
    <2>2. CASE j = k
      BY <1>1, <1>2, <2>2
    <2>3. CASE i # k /\ j # k
      BY <1>1, <1>2, <2>3
    <2> QED
      BY <2>1, <2>2, <2>3
  <1>7. \A i \in 1 .. n : new[i].kind = calls[i].kind
    BY <1>1
  <1>8. InOrder => \A i, j \in 1 .. n :
           i < j /\ new[j].reply # "none" => new[i].reply # "none"
    <2> SUFFICES ASSUME InOrder, NEW i \in 1 .. n, NEW j \in 1 .. n, i < j,
                        new[j].reply # "none"
                 PROVE  new[i].reply # "none"
      OBVIOUS
    <2>1. CASE i = k
      BY <1>1, <2>1
    <2>2. CASE j = k
      BY <1>1, <2>2
    <2>3. CASE i # k /\ j # k
      BY <1>1, <1>2, <2>3
    <2> QED
      BY <2>1, <2>2, <2>3
  <1>9. FreshCalls(new, row, now)
    BY <1>1, <1>2, <1>4, <1>5, <1>6, <1>7, <1>8 DEF FreshCalls
  <1> QED
    BY <1>9 DEF new

LEMMA RestCalls ==
    ASSUME NEW calls \in Seq(CallRecord), Len(calls) >= 1
    PROVE  /\ RemoveAt(calls, 1) \in Seq(CallRecord)
           /\ Len(RemoveAt(calls, 1)) = Len(calls) - 1
           /\ \A i \in 1 .. Len(calls) - 1 : RemoveAt(calls, 1)[i] = calls[i + 1]
  <1> DEFINE rest == SubSeq(calls, 2, Len(calls))
             n == Len(calls)
  <1>1. n \in Nat /\ n >= 1 /\ \A i \in 1 .. n : calls[i] \in CallRecord
    OBVIOUS
  <1>2. RemoveAt(calls, 1) = SubSeq(calls, 1, 0) \o SubSeq(calls, 2, Len(calls))
    BY DEF RemoveAt
  <1>3. SubSeq(calls, 1, 0) = <<>>
    BY SubSeqEmpty
  <1>4. \A i \in 2 .. n : calls[i] \in CallRecord
    BY <1>1
  <1>5. /\ rest \in Seq(CallRecord)
        /\ Len(rest) = IF 2 <= n THEN n - 2 + 1 ELSE 0
        /\ \A i \in 1 .. n - 2 + 1 : rest[i] = calls[2 + i - 1]
    <2> HIDE DEF rest, n
    <2> QED
      BY <1>1, <1>4, SubSeqProperties DEF rest, n
  <1>6. RemoveAt(calls, 1) = rest
    BY <1>2, <1>3, <1>5, ConcatEmptySeq
  <1> HIDE DEF rest, n
  <1>7. Len(rest) = n - 1 /\ \A i \in 1 .. n - 1 : rest[i] = calls[i + 1]
    BY <1>1, <1>5
  <1> QED
    BY <1>5, <1>6, <1>7 DEF n

\* The page takes the oldest answer, and shows new.
LEMMA TakeFresh ==
    ASSUME NEW calls \in Seq(CallRecord), NEW row \in Order, NEW now \in Nat,
           FreshCalls(calls, row, now), Len(calls) >= 1,
           NEW new \in Order,
           \/ new = row
           \/ HasOrder(calls[1]) /\ new = calls[1].row
           \/ calls[1].kind = "first" /\ new = calls[1].row
    PROVE  /\ FreshCalls(RemoveAt(calls, 1), new, now)
           /\ MayAsk(RemoveAt(calls, 1))
           /\ row.version <= new.version
  <1> DEFINE rest == RemoveAt(calls, 1)
             n == Len(calls)
  <1>1. /\ n \in Nat /\ n >= 1 /\ rest \in Seq(CallRecord) /\ Len(rest) = n - 1
        /\ \A i \in 1 .. n - 1 : rest[i] = calls[i + 1]
    BY RestCalls
  <1>2. /\ row.version <= now
        /\ \A i \in 1 .. n : calls[i].row.version <= now
        /\ \A i \in 1 .. n :
              HasOrder(calls[i]) => row.version <= calls[i].row.version
        /\ \A i, j \in 1 .. n : i < j /\ HasOrder(calls[i]) /\ HasOrder(calls[j]) =>
              calls[i].row.version <= calls[j].row.version
        /\ \A i \in 1 .. n : calls[i].kind = "first" =>
              n = 1 /\ row.status = "NONE" /\ row.version = 0
        /\ PageWaits => n <= 1
        /\ InOrder => \A i, j \in 1 .. n :
              i < j /\ calls[j].reply # "none" => calls[i].reply # "none"
    BY DEF FreshCalls
  <1>3. new.version \in Nat /\ row.version \in Nat
    BY DEF Order
  <1> HIDE DEF rest, n
  <1>4. 1 \in 1 .. n
    BY <1>1
  <1>5. new.version <= now /\ row.version <= new.version
    BY <1>2, <1>3, <1>4
  <1>6. \A i \in 1 .. n - 1 : i + 1 \in 1 .. n /\ 1 < i + 1
    BY <1>1
  <1>7. \A i \in 1 .. n - 1 : rest[i].kind # "first"
    BY <1>1, <1>2, <1>6
  <1>8. PageWaits => n = 1
    BY <1>1, <1>2
  <1>9. n - 1 >= 1 => calls[1].kind # "first"
    BY <1>1, <1>2, <1>4
  <1>10. \A i \in 1 .. n - 1 : HasOrder(rest[i]) => new.version <= rest[i].row.version
    BY <1>1, <1>2, <1>4, <1>6, <1>9
  <1>11. \A i, j \in 1 .. n - 1 : i < j /\ HasOrder(rest[i]) /\ HasOrder(rest[j]) =>
            rest[i].row.version <= rest[j].row.version
    <2> SUFFICES ASSUME NEW i \in 1 .. n - 1, NEW j \in 1 .. n - 1, i < j,
                        HasOrder(rest[i]), HasOrder(rest[j])
                 PROVE  rest[i].row.version <= rest[j].row.version
      OBVIOUS
    <2>1. i + 1 \in 1 .. n /\ j + 1 \in 1 .. n /\ i + 1 < j + 1
      BY <1>1
    <2> QED
      BY <1>1, <1>2, <2>1
  <1>12. InOrder => \A i, j \in 1 .. n - 1 :
            i < j /\ rest[j].reply # "none" => rest[i].reply # "none"
    <2> SUFFICES ASSUME InOrder, NEW i \in 1 .. n - 1, NEW j \in 1 .. n - 1, i < j,
                        rest[j].reply # "none"
                 PROVE  rest[i].reply # "none"
      OBVIOUS
    <2>1. i + 1 \in 1 .. n /\ j + 1 \in 1 .. n /\ i + 1 < j + 1
      BY <1>1
    <2> QED
      BY <1>1, <1>2, <2>1
  <1>13. \A i \in 1 .. n - 1 : rest[i].row.version <= now
    BY <1>1, <1>2, <1>6
  <1>14. PageWaits => Len(rest) <= 1
    BY <1>1, <1>8
  <1>15. FreshCalls(rest, new, now)
    BY <1>1, <1>5, <1>7, <1>10, <1>11, <1>12, <1>13, <1>14 DEF FreshCalls
  <1>16. MayAsk(rest)
    <2>1. PageWaits => rest = <<>>
      BY <1>1, <1>8
    <2> QED
      BY <1>1, <1>7, <2>1 DEF MayAsk, NoFirst
  <1> QED
    BY <1>5, <1>15, <1>16 DEF rest

-----------------------------------------------------------------------------
(* Types.                                                                  *)

LEMMA NoOrderType ==
    ASSUME Methods # {}
    PROVE  NoOrder \in Order /\ NoOrder.version = 0 /\ NoOrder.status = "NONE"
  <1>1. (CHOOSE m \in Methods : TRUE) \in Methods
    BY Zenon
  <1> QED
    BY <1>1 DEF NoOrder, Order, Statuses

LEMMA ClosedType ==
    ASSUME Methods # {}
    PROVE  /\ Closed \in Page /\ Closed.calls = <<>> /\ Closed.row = NoOrder
           /\ ~Closed.open
  BY NoOrderType DEF Closed, Page

LEMMA EffectType ==
    ASSUME NEW row \in Order, row.status # "NONE", NEW e \in Endpoints
    PROVE  /\ Effect(e, row) \in Order /\ Effect(e, row).version = row.version
           /\ Effect(e, row).status # "NONE"
  <1>1. /\ Completed(row) \in Order /\ Completed(row).version = row.version
        /\ Completed(row).status # "NONE"
    BY DEF Completed, Order, Statuses
  <1>2. CASE e = "cancel"
    BY <1>2 DEF Effect, Order, Statuses
  <1>3. CASE e = "select-buyer"
    BY <1>3 DEF Effect, Order, Statuses
  <1>4. CASE e = "seller-handover"
    BY <1>4 DEF Effect, Order, Statuses
  <1>5. CASE e = "confirm-received"
    BY <1>1, <1>5 DEF Effect
  <1>6. CASE e = "confirm-handover"
    BY <1>6 DEF Effect, Order, Statuses
  <1>7. CASE e = "seller-collected"
    BY <1>1, <1>7 DEF Effect
  <1>8. CASE e = "claim-payment"
    BY <1>8 DEF Effect, Order, Statuses
  <1>9. CASE e = "open-dispute"
    BY <1>9 DEF Effect, Order, Statuses
  <1> QED
    BY <1>2, <1>3, <1>4, <1>5, <1>6, <1>7, <1>8, <1>9
    DEF Endpoints, Sliders, Buttons, Forms

LEMMA WrittenType ==
    ASSUME NEW row \in Order
    PROVE  /\ Written(row) \in Order /\ Written(row).version = row.version + 1
           /\ Written(row).status = row.status
  BY DEF Written, Order

LEMMA ShowingType ==
    ASSUME NEW v, NEW page \in Page, NEW row \in Order
    PROVE  /\ Showing(v, page, row) \in Page /\ Showing(v, page, row).row = row
           /\ Showing(v, page, row).calls = page.calls
           /\ Showing(v, page, row).open = page.open
  <1> DEFINE done == {e \in page.done : Offers(v, e, row)}
             thumb == IF \E e \in Sliders : Offers(v, e, row) THEN page.thumb ELSE "rest"
  <1>1. done \in SUBSET Sliders
    BY DEF Page
  <1>2. thumb \in {"rest", "dragging", "end"}
    BY DEF Page
  <1>3. Showing(v, page, row) =
           [page EXCEPT !.row = row, !.done = done, !.thumb = thumb]
    BY DEF Showing
  <1> HIDE DEF done, thumb
  <1> QED
    BY <1>1, <1>2, <1>3 DEF Page

LEMMA AskingType ==
    ASSUME Methods # {}, NEW page \in Page, NEW kind \in CallKinds
    PROVE  LET call == [kind |-> kind, reply |-> "none", row |-> NoOrder]
           IN  /\ call \in CallRecord /\ call.row.version = 0
               /\ Asking(page, kind) \in Page
               /\ Asking(page, kind).row = page.row
               /\ Asking(page, kind).calls = Append(page.calls, call)
               /\ Asking(page, kind).open = page.open
  <1> DEFINE call == [kind |-> kind, reply |-> "none", row |-> NoOrder]
  <1>1. call \in CallRecord /\ call.row.version = 0
    BY NoOrderType DEF CallRecord
  <1>2. Asking(page, kind) = [page EXCEPT !.calls = Append(@, call)]
    BY DEF Asking
  <1> HIDE DEF call
  <1>3. page.calls \in Seq(CallRecord)
    BY DEF Page
  <1>4. Append(page.calls, call) \in Seq(CallRecord)
    BY <1>1, <1>3
  <1>5. /\ Asking(page, kind) \in Page
        /\ Asking(page, kind).row = page.row
        /\ Asking(page, kind).calls = Append(page.calls, call)
        /\ Asking(page, kind).open = page.open
    BY <1>2, <1>4 DEF Page
  <1> QED
    BY <1>1, <1>5 DEF call

-----------------------------------------------------------------------------
(* Steps.                                                                  *)

\* One page changes, and the order only goes on.
LEMMA PageStep ==
    ASSUME PageInv, NEW v \in Viewers, NEW page \in Page,
           pages' = [pages EXCEPT ![v] = page],
           price' = price, checkout' = checkout, charged' = charged,
           order' \in Order, order.version <= order'.version,
           order'.status = "NONE" => order'.version = 0,
           FreshCalls(page.calls, page.row, order'.version),
           pages[v].open /\ page.open => pages[v].row.version <= page.row.version
    PROVE  PageInv' /\ GoesForward
  <1>1. /\ pages \in [Viewers -> Page] /\ pages' \in [Viewers -> Page]
        /\ pages'[v] = page /\ \A u \in Viewers : u # v => pages'[u] = pages[u]
        /\ order \in Order
    BY DEF PageInv, OPTypeOK
  <1>2. OPTypeOK'
    BY <1>1 DEF PageInv, OPTypeOK
  <1>3. OrderInv'
    BY DEF OrderInv
  <1>4. \A u \in Viewers : pages[u].row \in Order /\ pages[u].calls \in Seq(CallRecord)
    BY <1>1 DEF Page
  <1>5. order.version \in Nat /\ order'.version \in Nat
    BY <1>1 DEF Order
  <1>6. PagesInv'
    <2> SUFFICES ASSUME NEW u \in Viewers
                 PROVE  FreshCalls(pages'[u].calls, pages'[u].row, order'.version)
      BY DEF PagesInv, FreshCalls, HasOrder
    <2>1. CASE u = v
      BY <1>1, <2>1
    <2>2. CASE u # v
      <3>1. FreshCalls(pages[u].calls, pages[u].row, order.version)
        BY DEF PageInv, PagesInv
      <3> QED
        BY <1>1, <1>4, <1>5, <2>2, <3>1, LaterFresh
    <2> QED
      BY <2>1, <2>2
  <1>7. GoesForward
    <2> SUFFICES ASSUME NEW u \in Viewers, pages[u].open, pages'[u].open
                 PROVE  pages[u].row.version <= pages'[u].row.version
      BY DEF GoesForward
    <2>1. CASE u = v
      BY <1>1, <2>1
    <2>2. CASE u # v
      BY <1>1, <1>4, <2>2 DEF Order
    <2> QED
      BY <2>1, <2>2
  <1> QED
    BY <1>2, <1>3, <1>6, <1>7 DEF PageInv

\* No page changes.
LEMMA WorldStep ==
    ASSUME PageInv, pages' = pages, OPTypeOK',
           order.version <= order'.version,
           order'.status = "NONE" => order'.version = 0
    PROVE  PageInv' /\ GoesForward
  <1>1. /\ pages \in [Viewers -> Page] /\ order \in Order /\ order' \in Order
    BY DEF PageInv, OPTypeOK
  <1>2. \A u \in Viewers : pages[u].row \in Order /\ pages[u].calls \in Seq(CallRecord)
    BY <1>1 DEF Page
  <1>3. order.version \in Nat /\ order'.version \in Nat
    BY <1>1 DEF Order
  <1>4. \A u \in Viewers : FreshCalls(pages[u].calls, pages[u].row, order'.version)
    BY <1>2, <1>3, LaterFresh DEF PageInv, PagesInv
  <1>5. PagesInv'
    BY <1>4 DEF PagesInv, FreshCalls, HasOrder
  <1>6. GoesForward
    BY <1>2 DEF GoesForward, Order
  <1> QED
    BY <1>5, <1>6 DEF PageInv, OrderInv

LEMMA PageInitInv ==
    ASSUME OneAnswerAtATime, OPInit PROVE PageInv
  <1>1. NoOrder \in Order /\ NoOrder.version = 0 /\ Closed \in Page
        /\ Closed.calls = <<>> /\ Closed.row = NoOrder
    BY NoOrderType, ClosedType DEF OneAnswerAtATime
  <1>2. OPTypeOK
    BY <1>1 DEF OPInit, OPTypeOK
  <1>3. OrderInv
    BY <1>1 DEF OPInit, OrderInv
  <1>4. PagesInv
    BY <1>1, NoCallsFresh DEF OPInit, PagesInv
  <1> QED
    BY <1>2, <1>3, <1>4 DEF PageInv

\* A write of the order outside of the pages.
LEMMA ElsewhereInv ==
    ASSUME PageInv, NEW row \in Order, row.version = order.version,
           row.status # "NONE", Elsewhere(row)
    PROVE  PageInv' /\ GoesForward
  <1>1. /\ order' = Written(row) /\ pages' = pages
        /\ price' = price /\ checkout' = checkout /\ charged' = charged
    BY DEF Elsewhere
  <1>2. order' \in Order /\ order'.version = order.version + 1 /\ order'.status # "NONE"
    BY <1>1, WrittenType
  <1>3. order.version \in Nat
    BY DEF PageInv, OPTypeOK, Order
  <1>4. OPTypeOK'
    BY <1>1, <1>2 DEF PageInv, OPTypeOK
  <1> QED
    BY <1>1, <1>2, <1>3, <1>4, WorldStep

LEMMA WorldInv ==
    ASSUME PageInv, OneAnswerAtATime, World
    PROVE  PageInv' /\ GoesForward
  <1>0. /\ order \in Order /\ order.version \in Nat /\ order.status \in Statuses
        /\ Prices \subseteq Nat
    BY DEF PageInv, OPTypeOK, Order, OneAnswerAtATime, OrderPageConstants
  <1>1. CASE OpenCheckout
    <2>1. OPTypeOK' /\ pages' = pages /\ order' = order
      BY <1>1 DEF OpenCheckout, PageInv, OPTypeOK
    <2> QED
      BY <1>0, <2>1, WorldStep DEF PageInv, OrderInv
  <1>2. CASE \E p \in Prices : ChangePrice(p)
    <2>1. OPTypeOK' /\ pages' = pages /\ order' = order
      BY <1>2 DEF ChangePrice, PageInv, OPTypeOK
    <2> QED
      BY <1>0, <2>1, WorldStep DEF PageInv, OrderInv
  <1>3. ASSUME NEW m \in Methods, NEW st \in {"AWAITING_PAYMENT", "HANDOVER_PENDING"},
               order.status = "NONE",
               order' = [NoOrder EXCEPT !.status = st, !.method = m,
                                        !.amount = price, !.version = 1],
               UNCHANGED <<price, checkout, charged, pages>>
        PROVE  PageInv' /\ GoesForward
    <2>1. NoOrder \in Order /\ price \in Prices
      BY NoOrderType DEF OneAnswerAtATime, PageInv, OPTypeOK
    <2>2. order' \in Order /\ order'.version = 1 /\ order'.status # "NONE"
      BY <1>3, <2>1 DEF Order, Statuses
    <2>3. order.version = 0
      BY <1>3 DEF PageInv, OrderInv
    <2>4. OPTypeOK'
      BY <1>3, <2>2 DEF PageInv, OPTypeOK
    <2> QED
      BY <1>3, <2>2, <2>3, <2>4, WorldStep
  <1>4. CASE CardOrder
    BY <1>3, <1>4 DEF CardOrder
  <1>5. CASE \E m \in Methods : PlaceOrder(m)
    <2>1. PICK m \in Methods : PlaceOrder(m)
      BY <1>5
    <2>2. FirstStatus(m) \in {"AWAITING_PAYMENT", "HANDOVER_PENDING"}
      BY DEF FirstStatus
    <2> QED
      BY <1>3, <2>1, <2>2 DEF PlaceOrder
  <1>6. CASE Charge
    <2>1. OPTypeOK' /\ pages' = pages /\ order' = order
      BY <1>6 DEF Charge, PageInv, OPTypeOK
    <2> QED
      BY <1>0, <2>1, WorldStep DEF PageInv, OrderInv
  <1>7. CASE PaystackWebhook \/ StaffVerifyPayment
    <2> DEFINE row == [order EXCEPT !.status = "PAID_HELD"]
    <2>1. row \in Order /\ row.version = order.version /\ row.status # "NONE"
      BY <1>0 DEF Order, Statuses
    <2> QED
      BY <1>7, <2>1, ElsewhereInv DEF PaystackWebhook, StaffVerifyPayment
  <1>8. CASE StaffRejectPayment
    <2> DEFINE row == [order EXCEPT !.claimed = FALSE]
    <2>1. row \in Order /\ row.version = order.version /\ row.status # "NONE"
      BY <1>0, <1>8 DEF Order, Statuses, StaffRejectPayment
    <2> QED
      BY <1>8, <2>1, ElsewhereInv DEF StaffRejectPayment
  <1>9. CASE StaffResolveDispute
    <2> DEFINE back == [order EXCEPT !.status = "REFUNDED", !.dispute = "RESOLVED_BUYER"]
               paid == [order EXCEPT !.status = "COMPLETED", !.payout = "PENDING",
                                     !.dispute = "RESOLVED_SELLER"]
    <2>1. back \in Order /\ back.version = order.version /\ back.status # "NONE"
      BY <1>0 DEF Order, Statuses
    <2>2. paid \in Order /\ paid.version = order.version /\ paid.status # "NONE"
      BY <1>0 DEF Order, Statuses
    <2>3. Elsewhere(back) \/ Elsewhere(paid)
      BY <1>9 DEF StaffResolveDispute
    <2> HIDE DEF back, paid
    <2> QED
      BY <2>1, <2>2, <2>3, ElsewhereInv
  <1>10. CASE StaffReleasePayout
    <2> DEFINE row == [order EXCEPT !.payout = "SENT"]
    <2>1. row \in Order /\ row.version = order.version /\ row.status # "NONE"
      BY <1>0, <1>10 DEF Order, Statuses, StaffReleasePayout
    <2> QED
      BY <1>10, <2>1, ElsewhereInv DEF StaffReleasePayout
  <1>11. CASE OtherChosen
    <2> DEFINE row == [order EXCEPT !.chosen = FALSE]
    <2>1. row \in Order /\ row.version = order.version /\ row.status # "NONE"
      BY <1>0, <1>11 DEF Order, Statuses, OtherChosen, Unpaid
    <2> QED
      BY <1>11, <2>1, ElsewhereInv DEF OtherChosen
  <1> QED
    BY <1>1, <1>2, <1>4, <1>5, <1>6, <1>7, <1>8, <1>9, <1>10, <1>11 DEF World

LEMMA PageFacts ==
    ASSUME PageInv, NEW v \in Viewers
    PROVE  /\ pages[v] \in Page /\ pages[v].row \in Order
           /\ pages[v].calls \in Seq(CallRecord)
           /\ order \in Order /\ order.version \in Nat
           /\ FreshCalls(pages[v].calls, pages[v].row, order.version)
           /\ order.status = "NONE" => order.version = 0
  BY DEF PageInv, OPTypeOK, OrderInv, PagesInv, Page, Order

\* A page changes, and the order does not.
LEMMA SetStep ==
    ASSUME PageInv, NEW v \in Viewers, NEW page \in Page, Set(v, page),
           FreshCalls(page.calls, page.row, order.version),
           pages[v].open /\ page.open => pages[v].row.version <= page.row.version
    PROVE  PageInv' /\ GoesForward
  <1>1. /\ pages' = [pages EXCEPT ![v] = page] /\ price' = price
        /\ checkout' = checkout /\ charged' = charged /\ order' = order
    BY DEF Set
  <1>2. /\ order' \in Order /\ order.version <= order'.version
        /\ order'.status = "NONE" => order'.version = 0
    BY <1>1, PageFacts
  <1>3. FreshCalls(page.calls, page.row, order'.version)
    BY <1>1
  <1> QED
    BY <1>1, <1>2, <1>3, PageStep

\* The page changes, and what it shows and has asked does not.
LEMMA SameStep ==
    ASSUME PageInv, NEW v \in Viewers, NEW page \in Page, Set(v, page),
           page.row = pages[v].row, page.calls = pages[v].calls
    PROVE  PageInv' /\ GoesForward
  <1>1. pages[v].row.version \in Nat
    BY PageFacts DEF Order
  <1> QED
    BY <1>1, PageFacts, SetStep

\* The user asks for something on the page of a loaded order.
LEMMA AskStep ==
    ASSUME PageInv, OneAnswerAtATime, NEW v \in Viewers, Ready(v),
           NEW page \in Page, NEW kind \in Endpoints, Set(v, Asking(page, kind)),
           page.row = pages[v].row, page.calls = pages[v].calls
    PROVE  PageInv' /\ GoesForward
  <1> DEFINE call == [kind |-> kind, reply |-> "none", row |-> NoOrder]
             new == Asking(page, kind)
  <1>1. kind \in CallKinds /\ kind # "first"
    BY DEF CallKinds, Endpoints, Sliders, Buttons, Forms
  <1>2. /\ call \in CallRecord /\ call.row.version = 0
        /\ new \in Page /\ new.row = pages[v].row
        /\ new.calls = Append(pages[v].calls, call) /\ new.open = page.open
    BY <1>1, AskingType DEF OneAnswerAtATime
  <1>3. call.reply = "none" /\ call.kind # "first"
    BY <1>1
  <1>4. MayAsk(pages[v].calls)
    BY PageFacts DEF MayAsk, NoFirst, Ready, FreshCalls
  <1> HIDE DEF call
  <1>5. FreshCalls(new.calls, new.row, order.version)
    BY <1>2, <1>3, <1>4, PageFacts, AskFresh
  <1>6. pages[v].row.version <= new.row.version
    BY <1>2, PageFacts DEF Order
  <1> HIDE DEF new
  <1>7. Set(v, new)
    BY DEF new
  <1> QED
    BY <1>2, <1>5, <1>6, <1>7, SetStep

LEMMA ActInv ==
    ASSUME PageInv, OneAnswerAtATime, NEW v \in Viewers, NEW e \in Endpoints,
           NEW thumb \in {"rest", "end"}, Act(v, e, thumb)
    PROVE  PageInv' /\ GoesForward
  <1> DEFINE page == [pages[v] EXCEPT !.acting = TRUE, !.thumb = thumb,
                                      !.done = @ \cup ({e} \cap Sliders)]
  <1>1. page \in Page /\ page.row = pages[v].row /\ page.calls = pages[v].calls
    <2>1. pages[v].done \cup ({e} \cap Sliders) \in SUBSET Sliders
      BY PageFacts DEF Page
    <2> QED
      BY <2>1, PageFacts DEF Page
  <1>2. Set(v, Asking(page, e)) /\ Ready(v)
    BY DEF Act
  <1> HIDE DEF page
  <1> QED
    BY <1>1, <1>2, AskStep

LEMMA UserDoesInv ==
    ASSUME PageInv, OneAnswerAtATime, NEW v \in Viewers, UserDoes(v)
    PROVE  PageInv' /\ GoesForward
  <1>0. /\ pages[v] \in Page /\ order \in Order /\ order.version \in Nat
        /\ NoOrder \in Order /\ NoOrder.version = 0 /\ NoOrder.status = "NONE"
        /\ Closed \in Page /\ Closed.calls = <<>> /\ Closed.row = NoOrder
        /\ ~Closed.open /\ Methods # {}
    BY PageFacts, NoOrderType, ClosedType DEF OneAnswerAtATime
  <1>1. ASSUME NEW paid \in BOOLEAN, OpenPage(v, paid)
        PROVE  PageInv' /\ GoesForward
    <2> DEFINE page == [Closed EXCEPT !.open = TRUE, !.paid = paid]
               call == [kind |-> "first", reply |-> "none", row |-> NoOrder]
               new == Asking(page, "first")
    <2>1. page \in Page /\ page.row = NoOrder /\ page.calls = <<>>
      BY <1>0 DEF Page
    <2> HIDE DEF page
    <2>2. /\ call \in CallRecord /\ call.row.version = 0
          /\ new \in Page /\ new.row = NoOrder /\ new.calls = Append(page.calls, call)
      BY <1>0, <2>1, AskingType DEF CallKinds
    <2>3. new.calls = <<call>> /\ ~HasOrder(call)
      BY <2>1, <2>2 DEF HasOrder
    <2> HIDE DEF call
    <2>4. FreshCalls(<<call>>, NoOrder, order.version)
      <3>1. /\ Len(<<call>>) = 1 /\ <<call>>[1] = call /\ 0 <= order.version
            /\ \A i \in 1 .. 1 : i = 1
        BY <1>0
      <3> QED
        BY <1>0, <2>2, <2>3, <3>1 DEF FreshCalls
    <2>5. Set(v, new) /\ ~pages[v].open
      BY <1>1 DEF OpenPage, page
    <2>6. FreshCalls(new.calls, new.row, order.version)
      BY <2>2, <2>3, <2>4
    <2> HIDE DEF new
    <2> QED
      BY <2>2, <2>5, <2>6, SetStep
  <1>2. CASE LeavePage(v)
    <2>1. Set(v, Closed)
      BY <1>2 DEF LeavePage
    <2>2. FreshCalls(Closed.calls, Closed.row, order.version)
      BY <1>0, NoCallsFresh
    <2> QED
      BY <1>0, <2>1, <2>2, SetStep
  <1>3. CASE SubmitClaim(v)
    <2> DEFINE page == [pages[v] EXCEPT !.claiming = TRUE]
    <2>1. page \in Page /\ page.row = pages[v].row /\ page.calls = pages[v].calls
      BY <1>0 DEF Page
    <2>2. Set(v, Asking(page, "claim-payment")) /\ Ready(v)
      BY <1>3 DEF SubmitClaim
    <2> HIDE DEF page
    <2> QED
      BY <2>1, <2>2, AskStep DEF Endpoints, Forms
  <1>4. CASE OpenDisputePrompt(v)
    <2> DEFINE page == [pages[v] EXCEPT !.acting = TRUE]
    <2>1. page \in Page /\ page.row = pages[v].row /\ page.calls = pages[v].calls
      BY <1>0 DEF Page
    <2>2. Set(v, Asking(page, "open-dispute")) /\ Ready(v)
      BY <1>4 DEF OpenDisputePrompt
    <2> HIDE DEF page
    <2> QED
      BY <2>1, <2>2, AskStep DEF Endpoints, Forms
  <1>5. ASSUME NEW e \in Endpoints, Press(v, e) \/ SlideToEnd(v, e) \/ LetGo(v, e)
        PROVE  PageInv' /\ GoesForward
    BY <1>5, ActInv DEF Press, SlideToEnd, LetGo
  <1>6. ASSUME NEW e \in Endpoints, StartDrag(v, e)
        PROVE  PageInv' /\ GoesForward
    <2> DEFINE page == [pages[v] EXCEPT !.thumb = "dragging"]
    <2>1. page \in Page /\ page.row = pages[v].row /\ page.calls = pages[v].calls
      BY <1>0 DEF Page
    <2>2. Set(v, page)
      BY <1>6 DEF StartDrag
    <2> HIDE DEF page
    <2> QED
      BY <2>1, <2>2, SameStep
  <1> QED
    BY <1>1, <1>2, <1>3, <1>4, <1>5, <1>6 DEF UserDoes

-----------------------------------------------------------------------------
(* The server answers.                                                     *)

LEMMA ReplyStep ==
    ASSUME PageInv, OneAnswerAtATime, NEW v \in Viewers, NEW k \in Waiting(v),
           NEW reply \in {"ok", "pending", "refused"}, NEW row \in Order,
           Reply(v, k, reply, row),
           price' = price, checkout' = checkout, charged' = charged,
           order' \in Order, order.version <= order'.version,
           order'.status = "NONE" => order'.version = 0,
           row.version <= order'.version,
           reply # "refused" => row.version = order'.version
    PROVE  PageInv' /\ GoesForward
  <1> DEFINE old == pages[v].calls[k]
             call == [old EXCEPT !.reply = reply, !.row = row]
             calls == [pages[v].calls EXCEPT ![k] = call]
             page == [pages[v] EXCEPT !.calls = calls]
  <1>1. /\ pages[v] \in Page /\ pages[v].row \in Order
        /\ pages[v].calls \in Seq(CallRecord)
        /\ order.version \in Nat /\ order'.version \in Nat
        /\ pages \in [Viewers -> Page]
    BY PageFacts DEF PageInv, OPTypeOK, Order
  <1>2. /\ k \in 1 .. Len(pages[v].calls) /\ old.reply = "none"
        /\ InOrder => \A j \in 1 .. (k - 1) : pages[v].calls[j].reply # "none"
    BY <1>1 DEF Waiting
  <1>3. old \in CallRecord
    BY <1>1, <1>2
  <1>4. pages' = [pages EXCEPT ![v] = page]
    <2>1. pages' = [pages EXCEPT ![v].calls[k].reply = reply,
                                 ![v].calls[k].row = row]
      BY DEF Reply
    <2> DEFINE told == [old EXCEPT !.reply = reply]
               mid == [pages[v].calls EXCEPT ![k] = told]
               half == [pages[v] EXCEPT !.calls = mid]
               all == [pages EXCEPT ![v] = half]
    <2>2. pages' = [all EXCEPT ![v].calls[k].row = row]
      BY <1>1, <2>1
    <2>3. all[v] = half
      BY <1>1
    <2>4. half.calls = mid
      BY <1>1 DEF Page
    <2>5. mid[k] = told
      BY <1>1, <1>2
    <2>6. call = [told EXCEPT !.row = row]
      BY <1>3 DEF CallRecord
    <2> HIDE DEF told, call
    <2>7. calls = [mid EXCEPT ![k] = call]
      BY <1>1, <1>2
    <2> HIDE DEF mid, calls
    <2>8. page = [half EXCEPT !.calls = calls]
      BY <1>1 DEF Page
    <2> HIDE DEF half, page
    <2>9. [pages EXCEPT ![v] = page] = [all EXCEPT ![v] = page]
      BY <1>1
    <2> HIDE DEF all
    <2>10. pages' = [all EXCEPT ![v] = [half EXCEPT !.calls =
                        [mid EXCEPT ![k] = [told EXCEPT !.row = row]]]]
      BY <2>2, <2>3, <2>4, <2>5
    <2> QED
      BY <2>6, <2>7, <2>8, <2>9, <2>10
  <1> HIDE DEF old
  <1>5. call \in CallRecord /\ call.kind = old.kind /\ call.reply = reply /\ call.row = row
    BY <1>3 DEF CallRecord
  <1> HIDE DEF call
  <1>6. calls \in Seq(CallRecord)
    BY <1>1, <1>2, <1>5
  <1>7. /\ page \in Page /\ page.row = pages[v].row /\ page.calls = calls
        /\ page.open = pages[v].open
    BY <1>1, <1>6 DEF Page
  <1>8. FreshCalls(pages[v].calls, pages[v].row, order'.version)
    BY <1>1, PageFacts, LaterFresh
  <1>9. call.reply # "none" /\ (HasOrder(call) => call.row.version = order'.version)
    BY <1>5 DEF HasOrder
  <1>10. PageWaits \/ InOrder
    BY DEF OneAnswerAtATime
  <1>11. FreshCalls(calls, pages[v].row, order'.version)
    <2>1. call.kind = pages[v].calls[k].kind /\ pages[v].calls[k].reply = "none"
      BY <1>2, <1>5 DEF old
    <2>2. call.row.version <= order'.version
      BY <1>5
    <2> QED
      BY <1>1, <1>2, <1>5, <1>8, <1>9, <1>10, <2>1, <2>2, ReplyFresh
  <1>12. pages[v].row.version <= page.row.version
    BY <1>1, <1>7 DEF Order
  <1> HIDE DEF calls, page
  <1>13. FreshCalls(page.calls, page.row, order'.version)
    BY <1>7, <1>11
  <1> QED
    BY <1>4, <1>7, <1>12, <1>13, PageStep

LEMMA AnswersInv ==
    ASSUME PageInv, OneAnswerAtATime, NEW v \in Viewers, Answers(v)
    PROVE  PageInv' /\ GoesForward
  <1>0. /\ order \in Order /\ order.version \in Nat
        /\ order.status = "NONE" => order.version = 0
    BY PageFacts
  <1>00. NoOrder \in Order /\ NoOrder.version = 0
    BY NoOrderType DEF OneAnswerAtATime
  \* The answer is the order, which stays, or tells of a refusal.
  <1>1. ASSUME NEW k \in Waiting(v), NEW reply \in {"ok", "pending", "refused"},
               NEW row \in {order, NoOrder}, Reply(v, k, reply, row),
               reply # "refused" => row = order,
               UNCHANGED <<price, checkout, order, charged>>
        PROVE  PageInv' /\ GoesForward
    <2>1. row \in Order /\ row.version <= order.version
      BY <1>0, <1>00
    <2>2. /\ order' \in Order /\ order.version <= order'.version
          /\ order'.status = "NONE" => order'.version = 0
      BY <1>0, <1>1
    <2>3. /\ row.version <= order'.version
          /\ reply # "refused" => row.version = order'.version
      BY <1>1, <2>1
    <2>4. price' = price /\ checkout' = checkout /\ charged' = charged
      BY <1>1
    <2> QED
      BY ONLY PageInv, OneAnswerAtATime, v \in Viewers, k \in Waiting(v),
              reply \in {"ok", "pending", "refused"}, <1>1, <2>1, <2>2, <2>3, <2>4,
              ReplyStep
  \* The answer is the order that the call has written.
  <1>2. ASSUME NEW k \in Waiting(v), NEW row \in Order, row.version = order.version,
               row.status # "NONE", order' = Written(row), Reply(v, k, "ok", order'),
               UNCHANGED <<price, checkout, charged>>
        PROVE  PageInv' /\ GoesForward
    <2>1. order' \in Order /\ order'.version = order.version + 1 /\ order'.status # "NONE"
      BY <1>2, WrittenType
    <2> DEFINE new == order'
    <2>2. /\ new \in Order /\ order.version <= new.version
          /\ new.status = "NONE" => new.version = 0
          /\ new.version <= new.version
      BY <1>0, <2>1
    <2>3. Reply(v, k, "ok", new)
      BY <1>2
    <2> QED
      BY <1>2, <2>2, <2>3, ReplyStep
  <1>3. CASE GetPurchase(v)
    BY <1>1, <1>3 DEF GetPurchase
  <1>4. CASE ServeAction(v)
    <2>1. PICK k \in Waiting(v) :
             /\ pages[v].calls[k].kind \in Endpoints
             /\ order' = Written(Effect(pages[v].calls[k].kind, order))
             /\ Reply(v, k, "ok", order')
      BY <1>4 DEF ServeAction
    <2> DEFINE row == Effect(pages[v].calls[k].kind, order)
    <2>2. order.status # "NONE" /\ UNCHANGED <<price, checkout, charged>>
      BY <1>4 DEF ServeAction, CanWrite
    <2>3. row \in Order /\ row.version = order.version /\ row.status # "NONE"
      BY <1>0, <2>1, <2>2, EffectType
    <2>4. order' = Written(row)
      BY <2>1
    <2> HIDE DEF row
    <2> QED
      BY <1>2, <2>1, <2>2, <2>3, <2>4
  <1>5. CASE Refuse(v)
    BY <1>1, <1>5 DEF Refuse
  <1>6. CASE FailCall(v)
    BY <1>1, <1>6 DEF FailCall
  <1>7. CASE VerifyPurchase(v)
    <2>1. PICK k \in Waiting(v) :
             \/ Reply(v, k, "ok", order) /\ order' = order
             \/ /\ order' = Written([order EXCEPT !.status = "PAID_HELD"])
                /\ Reply(v, k, "ok", order')
             \/ Reply(v, k, "pending", order) /\ order' = order
      BY <1>7 DEF VerifyPurchase
    <2>2. UNCHANGED <<price, checkout, charged>>
      BY <1>7 DEF VerifyPurchase
    <2>3. CASE Reply(v, k, "ok", order) /\ order' = order
      BY <1>1, <2>2, <2>3
    <2>4. CASE /\ order' = Written([order EXCEPT !.status = "PAID_HELD"])
               /\ Reply(v, k, "ok", order')
      <3> DEFINE row == [order EXCEPT !.status = "PAID_HELD"]
      <3>1. row \in Order /\ row.version = order.version /\ row.status # "NONE"
        BY <1>0 DEF Order, Statuses
      <3>2. order' = Written(row)
        BY <2>4
      <3> HIDE DEF row
      <3> QED
        BY <1>2, <2>2, <2>4, <3>1, <3>2
    <2>5. CASE Reply(v, k, "pending", order) /\ order' = order
      BY <1>1, <2>2, <2>5
    <2> QED
      BY <2>1, <2>3, <2>4, <2>5
  <1> QED
    BY <1>3, <1>4, <1>5, <1>6, <1>7 DEF Answers

-----------------------------------------------------------------------------
(* The page takes an answer.                                               *)

LEMMA TakenFacts ==
    ASSUME PageInv, OneAnswerAtATime, NEW v \in Viewers, NEW kinds,
           NEW k \in AnsweredCalls(v, kinds)
    PROVE  /\ k = 1 /\ Len(pages[v].calls) >= 1
           /\ pages[v].calls[1] \in CallRecord /\ pages[v].calls[1].kind \in kinds
           /\ Without(pages[v], k) \in Page
           /\ Without(pages[v], k).row = pages[v].row
           /\ Without(pages[v], k).calls = RemoveAt(pages[v].calls, 1)
           /\ pages[v].row \in Order /\ pages[v].calls[1].row \in Order
  <1> DEFINE calls == pages[v].calls
             n == Len(calls)
  <1>1. /\ pages[v] \in Page /\ pages[v].row \in Order /\ calls \in Seq(CallRecord)
        /\ n \in Nat /\ (PageWaits => n <= 1) /\ (PageWaits \/ InOrder)
    BY PageFacts DEF OneAnswerAtATime, FreshCalls
  <1>2. k \in 1 .. n /\ calls[k].kind \in kinds /\ (InOrder => k = 1)
    BY <1>1 DEF AnsweredCalls
  <1> HIDE DEF n
  <1>3. k = 1 /\ n >= 1 /\ 1 \in 1 .. n
    BY <1>1, <1>2
  <1>4. calls[1] \in CallRecord /\ RemoveAt(calls, 1) \in Seq(CallRecord)
    BY <1>1, <1>3, RestCalls DEF n
  <1>5. calls[1].row \in Order
    BY <1>4 DEF CallRecord
  <1>6. /\ Without(pages[v], k) \in Page
        /\ Without(pages[v], k).row = pages[v].row
        /\ Without(pages[v], k).calls = RemoveAt(pages[v].calls, 1)
    BY <1>1, <1>3, <1>4 DEF Without, Page
  <1> QED
    BY <1>1, <1>2, <1>3, <1>4, <1>5, <1>6 DEF n

LEMMA TakeStep ==
    ASSUME PageInv, OneAnswerAtATime, NEW v \in Viewers, NEW kinds,
           NEW k \in AnsweredCalls(v, kinds), NEW page \in Page,
           page.calls = RemoveAt(pages[v].calls, 1),
           \/ page.row = pages[v].row
           \/ HasOrder(pages[v].calls[1]) /\ page.row = pages[v].calls[1].row
           \/ pages[v].calls[1].kind = "first" /\ page.row = pages[v].calls[1].row,
           \/ Set(v, page)
           \/ \E kind \in CallKinds \ {"first"} : Set(v, Asking(page, kind))
    PROVE  PageInv' /\ GoesForward
  <1> DEFINE calls == pages[v].calls
             row == pages[v].row
             now == order.version
  <1>1. /\ calls \in Seq(CallRecord) /\ row \in Order /\ now \in Nat
        /\ Len(calls) >= 1 /\ FreshCalls(calls, row, now) /\ page.row \in Order
    BY PageFacts, TakenFacts DEF Page
  <1>2. /\ FreshCalls(page.calls, page.row, now) /\ MayAsk(page.calls)
        /\ row.version <= page.row.version
    <2>1. \/ page.row = row
          \/ HasOrder(calls[1]) /\ page.row = calls[1].row
          \/ calls[1].kind = "first" /\ page.row = calls[1].row
      OBVIOUS
    <2>2. page.calls = RemoveAt(calls, 1)
      OBVIOUS
    <2> HIDE DEF calls, row, now
    <2> QED
      BY ONLY <1>1, <2>1, <2>2, TakeFresh
  <1>3. CASE Set(v, page)
    BY <1>2, <1>3, SetStep
  <1>4. ASSUME NEW kind \in CallKinds \ {"first"}, Set(v, Asking(page, kind))
        PROVE  PageInv' /\ GoesForward
    <2> DEFINE call == [kind |-> kind, reply |-> "none", row |-> NoOrder]
               new == Asking(page, kind)
    <2>1. /\ call \in CallRecord /\ call.row.version = 0
          /\ new \in Page /\ new.row = page.row
          /\ new.calls = Append(page.calls, call) /\ new.open = page.open
      BY AskingType DEF OneAnswerAtATime
    <2>2. call.reply = "none" /\ call.kind # "first"
      OBVIOUS
    <2>3. page.calls \in Seq(CallRecord)
      BY DEF Page
    <2> HIDE DEF call
    <2>4. FreshCalls(new.calls, new.row, now)
      BY <1>1, <1>2, <2>1, <2>2, <2>3, AskFresh
    <2>5. Set(v, new) /\ row.version <= new.row.version
      BY <1>2, <1>4, <2>1
    <2> HIDE DEF new
    <2> QED
      BY <2>1, <2>4, <2>5, SetStep
  <1> QED
    BY <1>3, <1>4

LEMMA TakesFresh ==
    ASSUME PageInv, OneAnswerAtATime, NEW v \in Viewers, PageTakes(v)
    PROVE  PageInv' /\ GoesForward
  <1> DEFINE call == pages[v].calls[1]
             rest == RemoveAt(pages[v].calls, 1)
  <1>0. /\ {"verify", "reload"} \subseteq CallKinds \ {"first"}
        /\ Buttons \cup Sliders \subseteq CallKinds
    BY DEF CallKinds, Endpoints, Sliders, Buttons, Forms
  <1>1. CASE TakeFirst(v)
    <2>1. PICK k \in AnsweredCalls(v, {"first"}) :
             \/ Set(v, Asking([Showing(v, Without(pages[v], k), call.row) EXCEPT
                                    !.verify = "verifying"], "verify"))
             \/ Set(v, [Showing(v, Without(pages[v], k), call.row) EXCEPT !.paid = FALSE])
      <3>1. PICK k \in AnsweredCalls(v, {"first"}) :
             \/ Set(v, Asking([Showing(v, Without(pages[v], k), pages[v].calls[k].row)
                                 EXCEPT !.verify = "verifying"], "verify"))
             \/ Set(v, [Showing(v, Without(pages[v], k), pages[v].calls[k].row)
                                 EXCEPT !.paid = FALSE])
        BY <1>1 DEF TakeFirst
      <3>2. k = 1
        BY TakenFacts
      <3> QED
        BY <3>1, <3>2
    <2> DEFINE shown == Showing(v, Without(pages[v], k), call.row)
               asking == [shown EXCEPT !.verify = "verifying"]
               told == [shown EXCEPT !.paid = FALSE]
    <2>2. /\ shown \in Page /\ shown.row = call.row /\ shown.calls = rest
          /\ call.kind = "first"
      BY TakenFacts, ShowingType
    <2>3. /\ asking \in Page /\ asking.row = call.row /\ asking.calls = rest
          /\ told \in Page /\ told.row = call.row /\ told.calls = rest
      <3> HIDE DEF shown, rest, call
      <3> QED
        BY <2>2 DEF Page
    <2>4. Set(v, Asking(asking, "verify")) \/ Set(v, told)
      BY <2>1
    <2> HIDE DEF asking, told, shown
    <2> QED
      BY <1>0, <2>2, <2>3, <2>4, TakeStep
  <1>2. CASE TakeVerify(v)
    <2>1. PICK k \in AnsweredCalls(v, {"verify"}) :
             LET page == Without(pages[v], k)
             IN  \/ /\ pages[v].calls[k].reply = "ok"
                    /\ Set(v, [Showing(v, page, pages[v].calls[k].row) EXCEPT
                                !.verify = "no", !.paid = FALSE])
                 \/ /\ page.tries < 2
                    /\ Set(v, Asking([page EXCEPT !.tries = @ + 1], "verify"))
                 \/ Set(v, [page EXCEPT !.verify = "failed"])
      BY <1>2 DEF TakeVerify
    <2>2. k = 1
      BY TakenFacts
    <2> DEFINE page == Without(pages[v], k)
               shown == Showing(v, page, call.row)
               done == [shown EXCEPT !.verify = "no", !.paid = FALSE]
               again == [page EXCEPT !.tries = @ + 1]
               failed == [page EXCEPT !.verify = "failed"]
    <2>3. /\ page \in Page /\ page.row = pages[v].row /\ page.calls = rest
          /\ shown \in Page /\ shown.row = call.row /\ shown.calls = rest
      BY TakenFacts, ShowingType
    <2>4. \/ call.reply = "ok" /\ Set(v, done)
          \/ page.tries < 2 /\ Set(v, Asking(again, "verify"))
          \/ Set(v, failed)
      BY <2>1, <2>2
    <2> HIDE DEF shown, page, rest, call
    <2>5. done \in Page /\ done.row = call.row /\ done.calls = rest
      BY <2>3 DEF Page
    <2>6. failed \in Page /\ failed.row = pages[v].row /\ failed.calls = rest
      BY <2>3 DEF Page
    <2>7. page.tries < 2 =>
             again \in Page /\ again.row = pages[v].row /\ again.calls = rest
      <3> SUFFICES ASSUME page.tries < 2
                   PROVE  again \in Page /\ again.row = pages[v].row /\ again.calls = rest
        OBVIOUS
      <3>1. page.tries + 1 \in 0 .. 2
        BY <2>3 DEF Page
      <3> QED
        BY <2>3, <3>1 DEF Page
    <2> HIDE DEF done, failed, again
    <2>8. CASE call.reply = "ok" /\ Set(v, done)
      BY <2>5, <2>8, TakeStep DEF HasOrder, call, rest
    <2>9. CASE page.tries < 2 /\ Set(v, Asking(again, "verify"))
      BY <1>0, <2>7, <2>9, TakeStep DEF rest
    <2>10. CASE Set(v, failed)
      BY <2>6, <2>10, TakeStep DEF rest
    <2> QED
      BY <2>4, <2>8, <2>9, <2>10
  <1>3. CASE TakeAct(v)
    <2>1. PICK k \in AnsweredCalls(v, Buttons \cup Sliders) :
             LET page == Without(pages[v], k)
             IN  \/ /\ pages[v].calls[k].reply = "ok"
                    /\ Set(v, Asking(Showing(v, page, pages[v].calls[k].row), "reload"))
                 \/ Set(v, [page EXCEPT !.acting = FALSE])
      BY <1>3 DEF TakeAct
    <2>2. k = 1
      BY TakenFacts
    <2> DEFINE page == Without(pages[v], k)
               shown == Showing(v, page, call.row)
               failed == [page EXCEPT !.acting = FALSE]
    <2>3. /\ page \in Page /\ page.row = pages[v].row /\ page.calls = rest
          /\ shown \in Page /\ shown.row = call.row /\ shown.calls = rest
      BY TakenFacts, ShowingType
    <2>4. \/ call.reply = "ok" /\ Set(v, Asking(shown, "reload"))
          \/ Set(v, failed)
      BY <2>1, <2>2
    <2> HIDE DEF shown, page, rest, call
    <2>5. failed \in Page /\ failed.row = pages[v].row /\ failed.calls = rest
      BY <2>3 DEF Page
    <2> HIDE DEF failed
    <2>6. CASE call.reply = "ok" /\ Set(v, Asking(shown, "reload"))
      BY <1>0, <2>3, <2>6, TakeStep DEF HasOrder, call, rest
    <2>7. CASE Set(v, failed)
      BY <2>5, <2>7, TakeStep DEF rest
    <2> QED
      BY <2>4, <2>6, <2>7
  <1>4. ASSUME NEW kinds, NEW k \in AnsweredCalls(v, kinds), NEW row,
               row = IF pages[v].calls[k].reply = "ok" THEN pages[v].calls[k].row
                     ELSE Without(pages[v], k).row,
               NEW field \in {"acting", "claiming"},
               LET shown == Showing(v, Without(pages[v], k), row)
               IN  IF field = "acting" THEN Set(v, [shown EXCEPT !.acting = FALSE])
                   ELSE Set(v, [shown EXCEPT !.claiming = FALSE])
        PROVE  PageInv' /\ GoesForward
    <2>1. k = 1 /\ row \in Order
      BY <1>4, TakenFacts
    <2> DEFINE shown == Showing(v, Without(pages[v], k), row)
               acted == [shown EXCEPT !.acting = FALSE]
               claimed == [shown EXCEPT !.claiming = FALSE]
    <2>2. shown \in Page /\ shown.row = row /\ shown.calls = rest
      BY <2>1, TakenFacts, ShowingType
    <2>3. Set(v, acted) \/ Set(v, claimed)
      BY <1>4
    <2>4. row = pages[v].row \/ (HasOrder(call) /\ row = call.row)
      BY <1>4, <2>1, TakenFacts DEF HasOrder
    <2> HIDE DEF shown, rest, call
    <2>5. /\ acted \in Page /\ acted.row = row /\ acted.calls = rest
          /\ claimed \in Page /\ claimed.row = row /\ claimed.calls = rest
      BY <2>2 DEF Page
    <2> HIDE DEF acted, claimed
    <2> QED
      BY <2>3, <2>4, <2>5, TakeStep DEF rest, call
  <1>5. CASE TakeReload(v)
    BY <1>4, <1>5 DEF TakeReload
  <1>6. CASE TakeForm(v)
    <2>1. PICK k \in AnsweredCalls(v, Forms) :
             LET page == Without(pages[v], k)
                 row  == IF pages[v].calls[k].reply = "ok" THEN pages[v].calls[k].row
                         ELSE page.row
             IN  Set(v, IF pages[v].calls[k].kind = "claim-payment"
                        THEN [Showing(v, page, row) EXCEPT !.claiming = FALSE]
                        ELSE [Showing(v, page, row) EXCEPT !.acting = FALSE])
      BY <1>6 DEF TakeForm
    <2> DEFINE row == IF pages[v].calls[k].reply = "ok" THEN pages[v].calls[k].row
                      ELSE Without(pages[v], k).row
               shown == Showing(v, Without(pages[v], k), row)
    <2>2. CASE pages[v].calls[k].kind = "claim-payment"
      <3>1. Set(v, [shown EXCEPT !.claiming = FALSE])
        BY <2>1, <2>2
      <3> HIDE DEF shown
      <3>2. LET field == "claiming"
            IN  IF field = "acting" THEN Set(v, [shown EXCEPT !.acting = FALSE])
                ELSE Set(v, [shown EXCEPT !.claiming = FALSE])
        BY <3>1
      <3> QED
        BY <1>4, <3>2 DEF shown
    <2>3. CASE pages[v].calls[k].kind # "claim-payment"
      <3>1. Set(v, [shown EXCEPT !.acting = FALSE])
        BY <2>1, <2>3
      <3> HIDE DEF shown
      <3>2. LET field == "acting"
            IN  IF field = "acting" THEN Set(v, [shown EXCEPT !.acting = FALSE])
                ELSE Set(v, [shown EXCEPT !.claiming = FALSE])
        BY <3>1
      <3> QED
        BY <1>4, <3>2 DEF shown
    <2> QED
      BY <2>2, <2>3
  <1> QED
    BY <1>1, <1>2, <1>3, <1>5, <1>6 DEF PageTakes

LEMMA PageNext ==
    ASSUME PageInv, OneAnswerAtATime, [OPNext]_pvars
    PROVE  PageInv' /\ GoesForward
  <1>1. CASE UNCHANGED pvars
    <2>1. OPTypeOK' /\ pages' = pages /\ order' = order
      BY <1>1 DEF pvars, PageInv, OPTypeOK
    <2>2. order.version \in Nat
      BY DEF PageInv, OPTypeOK, Order
    <2> QED
      BY <2>1, <2>2, WorldStep DEF PageInv, OrderInv
  <1> QED
    BY <1>1, WorldInv, UserDoesInv, AnswersInv, TakesFresh DEF OPNext

-----------------------------------------------------------------------------
\* The variables of the order pages have their types.
THEOREM OrderPageTypes ==
    ASSUME OneAnswerAtATime PROVE OPSpec => []OPTypeOK
  <1>1. OPInit => PageInv
    BY PageInitInv
  <1>2. PageInv /\ [OPNext]_pvars => PageInv'
    BY PageNext
  <1>3. PageInv => OPTypeOK
    BY DEF PageInv
  <1> QED
    BY <1>1, <1>2, <1>3, PTL DEF OPSpec

\* What a page shows of the order never goes back to an older state, when the
\* page waits for its answers or they come in the order asked.
THEOREM NeverGoesBack ==
    ASSUME OneAnswerAtATime PROVE OPSpec => PageNeverGoesBack
  <1>1. OPInit => PageInv
    BY PageInitInv
  <1>2. PageInv /\ [OPNext]_pvars => PageInv'
    BY PageNext
  <1>3. PageInv /\ [OPNext]_pvars => [GoesForward]_pages
    BY PageNext
  <1> QED
    BY <1>1, <1>2, <1>3, PTL DEF OPSpec, PageNeverGoesBack

\* Whatever order a page shows, the server accepts what the page offers on it,
\* as long as the order is still so.
THEOREM OffersAgree == OPSpec => []OfferedIsAccepted
  <1>1. OfferedIsAccepted
    BY DEF OfferedIsAccepted, Offers, Accepts, Unpaid, Transfer
  <1> QED
    BY <1>1, PTL
=============================================================================
