-------------------------- MODULE SupportBroadcast --------------------------
(***************************************************************************)
(* Messages of an administrator to many users (adminController.js) and the *)
(* desk they are sent from (AdminDashboard.jsx): a bulk message to the     *)
(* users checked or to all, and an announcement to every inbox or every    *)
(* bell.                                                                   *)
(*                                                                         *)
(* A request goes in steps of one query each, and other requests come in   *)
(* between: an announcement reads the users page by page; a delivery to    *)
(* inboxes takes, for each batch of recipients, the largest id, inserts    *)
(* the rows, and reads them back to push and notify.                       *)
(***************************************************************************)
EXTENDS Naturals, Sequences, FiniteSets, SequencesExt, FiniteSetsExt

CONSTANTS
    Users,          \* ids of users
    Admins,         \* those of role ADMIN
    BatchSize,      \* BROADCAST_BATCH and ADMIN_MESSAGE_BATCH
    SendKinds,      \* of "bulk", "inbox", "bell"
    MaxSends,       \* bound on the requests
    MaxDirect,      \* bound on single messages of an administrator
    Changes,        \* of "off", "gone": what may become of a user
    OneAtATime      \* whether an administrator awaits an answer before the next

SupportBroadcastConstants ==
    /\ Users \subseteq Nat \ {0} /\ IsFiniteSet(Users)
    /\ Admins \subseteq Users
    /\ BatchSize \in Nat \ {0}
    /\ SendKinds \subseteq {"bulk", "inbox", "bell"}
    /\ MaxSends \in Nat /\ MaxDirect \in Nat
    /\ Changes \subseteq {"off", "gone"}
    /\ OneAtATime \in BOOLEAN

VARIABLES
    status,     \* of each user: "on", "off" (not isActive), "gone" (no row)
    messages,   \* the rows of the support threads, by id
    told,       \* how often the receiver of each was notified
    bells,      \* the rows of announcements, a set of [to, send]
    sends,      \* the requests, in the order sent
    desk        \* the desk of each administrator

castVars == <<status, messages, told, bells, sends, desk>>

Members == Users \ Admins
SendIds == 1 .. Len(sends)
Active == {u \in Users : status[u] = "on"}
Before(u, S) == {v \in S : v < u}
Sorted(S) ==
    [i \in 1 .. Cardinality(S) |-> CHOOSE u \in S : Cardinality(Before(u, S)) = i - 1]
Smallest(n, S) == {u \in S : Cardinality(Before(u, S)) < n}

CastInit ==
    /\ status = [u \in Users |-> "on"]
    /\ messages = <<>>
    /\ told = <<>>
    /\ bells = {}
    /\ sends = <<>>
    /\ desk = [a \in Admins |-> [selected |-> {}, dialog |-> "closed",
                                 sendingBulk |-> FALSE, broadcasting |-> FALSE]]

-----------------------------------------------------------------------------
(* The desk.                                                               *)

Idle(a) == \A s \in SendIds : sends[s].admin = a => sends[s].step = "taken"

OnDesk(a, d) ==
    /\ desk' = [desk EXCEPT ![a] = d]
    /\ UNCHANGED <<status, messages, told, bells, sends>>

\* The list was fetched when every member was active.
ToggleUserSelection(a, u) ==
    OnDesk(a, [desk[a] EXCEPT !.selected =
                 IF u \in @ THEN @ \ {u} ELSE @ \cup {u}])

ToggleSelectAllUsers(a) ==
    OnDesk(a, [desk[a] EXCEPT !.selected = IF @ = Members THEN {} ELSE Members])

OpenBulkMessage(a, target) ==
    /\ desk[a].dialog = "closed"
    /\ target = "selected" => desk[a].selected # {}
    /\ OnDesk(a, [desk[a] EXCEPT !.dialog = target])

CloseBulkMessage(a) ==
    /\ desk[a].dialog # "closed"
    /\ OnDesk(a, [desk[a] EXCEPT !.dialog = "closed"])

\* chosen and stayed are the users asked for and those of them that stay
\* active until the answer.
NewSend(a, kind, chosen) ==
    [admin |-> a, kind |-> kind, step |-> "sent", chosen |-> chosen,
     stayed |-> chosen \cap Active, recipients |-> <<>>, cursor |-> 0,
     done |-> 0, maxId |-> 0, count |-> 0]

Submit(s) ==
    /\ Len(sends) < MaxSends
    /\ OneAtATime => Idle(s.admin)
    /\ sends' = Append(sends, s)
    /\ UNCHANGED <<status, messages, told, bells>>

HandleSendBulkMessage(a) ==
    LET chosen == IF desk[a].dialog = "all" THEN Members ELSE desk[a].selected IN
    /\ "bulk" \in SendKinds
    /\ desk[a].dialog # "closed"
    /\ ~desk[a].sendingBulk
    /\ chosen # {}
    /\ Submit(NewSend(a, "bulk", chosen))
    /\ desk' = [desk EXCEPT ![a].sendingBulk = TRUE]

HandleBroadcast(a, kind) ==
    /\ kind \in SendKinds \cap {"inbox", "bell"}
    /\ ~desk[a].broadcasting
    /\ Submit(NewSend(a, kind, Users \ {a}))
    /\ desk' = [desk EXCEPT ![a].broadcasting = TRUE]

\* A success closes the dialog, whichever is open by then, and clears the
\* selection.
TakeAnswer(s) ==
    LET r == sends[s] IN
    /\ r.step \in {"ok", "failed"}
    /\ sends' = [sends EXCEPT ![s].step = "taken"]
    /\ desk' = [desk EXCEPT ![r.admin] =
                  IF r.kind # "bulk" THEN [@ EXCEPT !.broadcasting = FALSE]
                  ELSE IF r.step = "ok"
                       THEN [@ EXCEPT !.sendingBulk = FALSE, !.dialog = "closed", !.selected = {}]
                       ELSE [@ EXCEPT !.sendingBulk = FALSE]]
    /\ UNCHANGED <<status, messages, told, bells>>

-----------------------------------------------------------------------------
(* Who is written to.                                                      *)

InStep(s, step) == sends[s].step = step

Proceed(s, r) ==
    /\ sends' = [sends EXCEPT ![s] = r]
    /\ UNCHANGED <<status, desk>>

\* bulkMessageUsers: one query.
BulkRecipients(r) == (r.chosen \ {r.admin}) \cap Members \cap Active

ReadRecipients(s) ==
    LET r == sends[s]
        found == Sorted(BulkRecipients(r))
    IN /\ InStep(s, "sent") /\ r.kind = "bulk"
       /\ Proceed(s, [r EXCEPT !.recipients = found,
                               !.step = IF found = <<>> THEN "ok" ELSE "max"])
       /\ UNCHANGED <<messages, told, bells>>

\* Variant: the first page only.
PageOnce(r) == IF r.cursor = 0 THEN Smallest(BatchSize, Active \ {r.admin}) ELSE {}

\* A page of findMany with a cursor: the rows from the cursor on that match,
\* less the first; none when the row of the cursor is no more.
NextPage(r) ==
    LET matching == Active \ {r.admin}
        onwards == {u \in matching : u >= r.cursor}
    IN IF r.cursor = 0 THEN Smallest(BatchSize, matching)
       ELSE IF status[r.cursor] = "gone" THEN {}
       ELSE Smallest(BatchSize, onwards \ Smallest(1, onwards))

\* broadcastNotification collects the pages until one is empty.
ReadPage(s) ==
    LET r == sends[s]
        page == NextPage(r)
        next == IF r.recipients = <<>> THEN "ok"
                ELSE IF r.kind = "inbox" THEN "max" ELSE "rows"
    IN /\ InStep(s, "sent") /\ r.kind # "bulk"
       /\ Proceed(s, IF page = {} THEN [r EXCEPT !.step = next]
                     ELSE [r EXCEPT !.cursor = Max(page),
                                    !.recipients = @ \o Sorted(page)])
       /\ UNCHANGED <<messages, told, bells>>

-----------------------------------------------------------------------------
(* sendAdminMessageToUsers: batch by batch.                                *)

BatchOf(r) == SubSeq(r.recipients, r.done + 1, Min({r.done + BatchSize, Len(r.recipients)}))

ReadMaxId(s) ==
    /\ InStep(s, "max")
    /\ Proceed(s, [sends[s] EXCEPT !.maxId = Len(messages), !.step = "rows"])
    /\ UNCHANGED <<messages, told, bells>>

\* The insertion fails as a whole if the row of a receiver is no more.
HasRows(batch) == \A u \in ToSet(batch) : status[u] # "gone"

CreateMessages(s) ==
    LET r == sends[s]
        rows == [i \in DOMAIN BatchOf(r) |-> [from |-> r.admin, to |-> BatchOf(r)[i], send |-> s]]
    IN /\ InStep(s, "rows") /\ r.kind # "bell"
       /\ IF HasRows(BatchOf(r))
          THEN /\ messages' = messages \o rows
               /\ told' = told \o [i \in DOMAIN rows |-> 0]
               /\ Proceed(s, [r EXCEPT !.step = "back"])
          ELSE /\ Proceed(s, [r EXCEPT !.step = "failed"])
               /\ UNCHANGED <<messages, told>>
       /\ UNCHANGED bells

\* The rows of users deleted meanwhile went with them.
ReadBack(r) ==
    {id \in DOMAIN messages :
        /\ id > r.maxId
        /\ messages[id].from = r.admin
        /\ messages[id].to \in ToSet(BatchOf(r))
        /\ status[messages[id].to] # "gone"}

\* Each row read back is pushed and notified; a failure of one is ignored.
NotifyBatch(s) ==
    LET r == sends[s]
        found == ReadBack(r)
        done == r.done + Len(BatchOf(r))
    IN /\ InStep(s, "back")
       /\ told' = [id \in DOMAIN told |-> told[id] + IF id \in found THEN 1 ELSE 0]
       /\ Proceed(s, [r EXCEPT !.done = done, !.count = @ + Cardinality(found),
                               !.step = IF done = Len(r.recipients) THEN "ok" ELSE "max"])
       /\ UNCHANGED <<messages, bells>>

\* The announcement to the bells: rows, then a push to each.
CreateNotifications(s) ==
    LET r == sends[s]
        done == r.done + Len(BatchOf(r))
    IN /\ InStep(s, "rows") /\ r.kind = "bell"
       /\ IF HasRows(BatchOf(r))
          THEN /\ bells' = bells \cup [to : ToSet(BatchOf(r)), send : {s}]
               /\ Proceed(s, [r EXCEPT !.done = done, !.count = @ + Len(BatchOf(r)),
                                       !.step = IF done = Len(r.recipients) THEN "ok" ELSE "rows"])
          ELSE /\ Proceed(s, [r EXCEPT !.step = "failed"])
               /\ UNCHANGED bells
       /\ UNCHANGED <<messages, told>>

-----------------------------------------------------------------------------
(* What happens besides.                                                   *)

\* A support message of an administrator to one user (sendMessage).
SendDirect(a, u) ==
    /\ Cardinality({id \in DOMAIN messages : messages[id].send = 0}) < MaxDirect
    /\ status[u] # "gone"
    /\ messages' = Append(messages, [from |-> a, to |-> u, send |-> 0])
    /\ told' = Append(told, 1)
    /\ UNCHANGED <<status, bells, sends, desk>>

\* setUserStatus, deleteUser and deleteMe.
UserLeaves(u, to) ==
    /\ status[u] = "on"
    /\ status' = [status EXCEPT ![u] = to]
    /\ sends' = [s \in SendIds |-> IF sends[s].step \in {"ok", "failed", "taken"} THEN sends[s]
                                   ELSE [sends[s] EXCEPT !.stayed = @ \ {u}]]
    /\ UNCHANGED <<messages, told, bells, desk>>

DeskStep(a) ==
    \/ \E u \in Members : ToggleUserSelection(a, u)
    \/ ToggleSelectAllUsers(a)
    \/ \E target \in {"selected", "all"} : OpenBulkMessage(a, target)
    \/ CloseBulkMessage(a)
    \/ HandleSendBulkMessage(a)

ServerStep(s) ==
    \/ ReadRecipients(s) \/ ReadPage(s)
    \/ ReadMaxId(s) \/ CreateMessages(s) \/ NotifyBatch(s)
    \/ CreateNotifications(s)

CastNext ==
    \/ "bulk" \in SendKinds /\ \E a \in Admins : DeskStep(a)
    \/ \E a \in Admins, kind \in {"inbox", "bell"} : HandleBroadcast(a, kind)
    \/ \E s \in SendIds : ServerStep(s) \/ TakeAnswer(s)
    \/ \E a \in Admins, u \in Members : SendDirect(a, u)
    \/ \E u \in Members, to \in Changes : UserLeaves(u, to)

CastSpec == CastInit /\ [][CastNext]_castVars

\* The server goes on with each request, and the desk takes its answer.
CastFairness == \A s \in 1 .. MaxSends :
    WF_castVars(s \in SendIds /\ (ServerStep(s) \/ TakeAnswer(s)))

-----------------------------------------------------------------------------
CastTypeOK ==
    /\ status \in [Users -> {"on", "off", "gone"}]
    /\ \A id \in DOMAIN messages :
          messages[id] \in [from : Admins, to : Users, send : 0 .. MaxSends]
    /\ told \in [DOMAIN messages -> Nat]
    /\ bells \in SUBSET [to : Users, send : 1 .. MaxSends]
    /\ \A s \in SendIds :
          /\ sends[s].step \in {"sent", "max", "rows", "back", "ok", "failed", "taken"}
          /\ ToSet(sends[s].recipients) \subseteq Users
          /\ sends[s].done \in 0 .. Len(sends[s].recipients)
          /\ sends[s].maxId \in 0 .. Len(messages)
    /\ desk \in [Admins -> [selected : SUBSET Members, dialog : {"closed", "selected", "all"},
                            sendingBulk : BOOLEAN, broadcasting : BOOLEAN]]

RowsOf(s, u) ==
    {id \in DOMAIN messages : messages[id].send = s /\ messages[id].to = u}

Got(s, u) == RowsOf(s, u) # {} \/ [to |-> u, send |-> s] \in bells

\* The receiver of a message is told of it once (the read-back window of
\* sendAdminMessageToUsers).
ToldOncePerMessage == \A id \in DOMAIN told : told[id] <= 1

\* A request writes to each user once, and a bulk message to users that were
\* checked, or to members when all were asked for.
OneRowEach ==
    \A s \in SendIds :
        /\ \A u \in Users : Cardinality(RowsOf(s, u)) <= 1
        /\ \A u \in Users : Got(s, u) => u \in sends[s].chosen

\* When the desk is told a delivery succeeded, everyone asked for who has
\* stayed active has the message.
EveryoneReached ==
    \A s \in SendIds : InStep(s, "ok") => \A u \in sends[s].stayed : Got(s, u)

\* The number in the answer is the number of users written to.
CountIsTrue ==
    \A s \in SendIds : InStep(s, "ok") =>
        sends[s].count = Cardinality({u \in Users : Got(s, u)})

\* A request that failed has reached nobody.
FailedReachedNobody ==
    \A s \in SendIds : InStep(s, "failed") => ~\E u \in Users : Got(s, u)

\* No message is created for a user who was inactive when the recipients of a
\* bulk message were read.
OnlyActiveWritten ==
    [][\A s \in SendIds :
          sends[s].kind = "bulk" /\ InStep(s, "sent") =>
              ToSet(sends'[s].recipients) \subseteq Active]_castVars

\* Each of the two buttons of the desk comes back.
ButtonsComeBack ==
    \A a \in Admins :
        /\ desk[a].sendingBulk ~> ~desk[a].sendingBulk
        /\ desk[a].broadcasting ~> ~desk[a].broadcasting

=============================================================================
