-------------------------------- MODULE Chat --------------------------------
(***************************************************************************)
(* Messages and notifications of one user, from the rows to the screen:    *)
(* backend/src/controllers/messageController.js and                        *)
(* notificationController.js on the server, frontend/src/pages/            *)
(* Messages.jsx, context/EventContext.jsx and components/                  *)
(* NotificationsDropdown.jsx in the user's browser tabs.                   *)
(*                                                                         *)
(* Everybody else is "the peer".  A peer's message is a row, then a push   *)
(* of 'message:new', then a notification row, then a push of               *)
(* 'notification:new'; the pushes reach the tabs whose event stream is up. *)
(* A tab answers a push with requests of its own (load a thread, load the  *)
(* list, mark a thread read, refresh the badge).  calls is what a tab has  *)
(* under way, oldest first; an answer carries what the server had read,    *)
(* and is applied to whatever the tab shows by then.                       *)
(*                                                                         *)
(* The several reads of one request are one step; the page of the newest   *)
(* notifications is PageSize long (30 in the code); texts are left out.    *)
(***************************************************************************)
EXTENDS Naturals, Sequences, FiniteSets, SequencesExt

CONSTANTS
    Threads,        \* conversations of the user: a peer and a listing
    Support,        \* the thread without a listing, or another value
    System,         \* stands for a notification that is no message
    Tabs,           \* browser tabs of the user
    Senders,        \* peer requests that can be in flight at once
    PageSize,       \* notifications of one answer
    MaxMessages,    \* bound on message rows
    MaxNotes,       \* bound on notification rows
    MaxCalls,       \* bound on the requests a tab has under way
    Hasty,          \* whether the user acts while requests are under way
    InOrder,        \* whether requests are answered in the order asked
    Allowed         \* of "erase", "drop", "restart", "system", "post"

ChatConstants ==
    /\ System \notin Threads
    /\ {PageSize, MaxMessages, MaxNotes, MaxCalls} \subseteq Nat
    /\ {Hasty, InOrder} \subseteq BOOLEAN
    /\ Allowed \subseteq {"erase", "drop", "restart", "system", "post"}

VARIABLES
    messages,   \* the Message rows, a sequence
    notes,      \* the user's Notification rows, a sequence
    sends,      \* peer requests
    tabs        \* the browser tabs

cvars == <<messages, notes, sends, tabs>>

Message == [thread : Threads, mine : BOOLEAN, live : BOOLEAN]
Note == [thread : Threads \cup {System}, read : BOOLEAN]

SendStages == {"idle", "stored", "announced", "noted"}
Send == [at : SendStages, thread : Threads \cup {System}, id : Nat]
Rest == [at |-> "idle", thread |-> System, id |-> 0]

CallKinds ==
    {"load", "list", "refresh", "mark", "markOne", "markAll",
     "post", "posting", "erase", "eraseThread"}

\* What the server read for a call.
Got ==
    [ids : SUBSET Nat, unread : [Threads -> Nat], listed : SUBSET Threads,
     messages : Nat, system : Nat]

NothingGot ==
    [ids |-> {}, unread |-> [t \in Threads |-> 0], listed |-> {},
     messages |-> 0, system |-> 0]

CallRecord ==
    [kind : CallKinds, thread : Threads \cup {System}, id : Nat,
     done : BOOLEAN, got : Got]

Tab ==
    [page     : Threads \cup {"list"},
     shown    : SUBSET Nat,             \* the messages on the page
     listed   : SUBSET Threads,         \* the conversation list
     unread   : [Threads -> Nat],       \* and its counts
     messages : Nat,                    \* the badge of the chat icon
     system   : Nat,                    \* the badge of the bell
     up       : BOOLEAN,                \* the event stream
     calls    : Seq(CallRecord)]

ChatTypeOK ==
    /\ messages \in Seq(Message)
    /\ notes \in Seq(Note)
    /\ sends \in [Senders -> Send]
    /\ tabs \in [Tabs -> Tab]

ChatInit ==
    /\ messages = <<>>
    /\ notes = <<>>
    /\ sends = [s \in Senders |-> Rest]
    /\ tabs = [b \in Tabs |->
                [page |-> "list", shown |-> {}, listed |-> {},
                 unread |-> [t \in Threads |-> 0], messages |-> 0,
                 system |-> 0, up |-> TRUE, calls |-> <<>>]]

-----------------------------------------------------------------------------
(* What the server reads.                                                  *)

Rows(t) == {i \in DOMAIN messages : messages[i].thread = t /\ messages[i].live}
Unread(t) == {n \in DOMAIN notes : notes[n].thread = t /\ ~notes[n].read}
AllUnread == {n \in DOMAIN notes : ~notes[n].read}
UnreadMessages == {n \in AllUnread : notes[n].thread # System}

\* The newest rows of the notifications table.
Newest == {n \in DOMAIN notes : n + PageSize > Len(notes)}

GetMessages(t) == [NothingGot EXCEPT !.ids = Rows(t)]

\* One entry for each pairing that has a row, with its unread notifications.
GetConversations ==
    [NothingGot EXCEPT
        !.listed = {t \in Threads : Rows(t) # {}},
        !.unread = [t \in Threads |-> IF Rows(t) = {} THEN 0
                                      ELSE Cardinality(Unread(t))]]

\* refreshUnread counts the messages of the page and calls the rest system.
GetNotifications ==
    LET chats == Cardinality(Newest \cap UnreadMessages)
    IN  [NothingGot EXCEPT !.messages = chats,
                           !.system = Cardinality(AllUnread) - chats]

-----------------------------------------------------------------------------
(* Calls of a tab.                                                         *)

NewCall(kind, t, i) ==
    [kind |-> kind, thread |-> t, id |-> i, done |-> FALSE, got |-> NothingGot]

Asking(tab, kind, t, i) ==
    [tab EXCEPT !.calls = Append(@, NewCall(kind, t, i))]

Room(tab) == Len(tab.calls) < MaxCalls
Idle(tab) == Room(tab) /\ (Hasty \/ tab.calls = <<>>)

\* Requests the server may answer next, and answers the tab may take next.
Waiting(b, kind) ==
    {k \in DOMAIN tabs[b].calls :
        /\ tabs[b].calls[k].kind = kind
        /\ ~tabs[b].calls[k].done
        /\ InOrder => \A j \in 1..(k - 1) : tabs[b].calls[j].done}

Answered(b, kind) ==
    {k \in DOMAIN tabs[b].calls :
        /\ tabs[b].calls[k].kind = kind
        /\ tabs[b].calls[k].done
        /\ InOrder => k = 1}

Reply(b, k, got) ==
    tabs' = [tabs EXCEPT ![b].calls[k].done = TRUE, ![b].calls[k].got = got]

Taken(b, k) == [tabs[b] EXCEPT !.calls = RemoveAt(@, k)]

-----------------------------------------------------------------------------
(* The event stream: a push reaches the tabs whose stream is up.           *)

CanPush == \A b \in Tabs : tabs[b].up => Room(tabs[b])

\* Messages.jsx: append to the open thread and mark it read, or reload the
\* list.
AfterMessage(tab, t, i) ==
    IF ~tab.up THEN tab
    ELSE IF tab.page = t
         THEN Asking([tab EXCEPT !.shown = @ \cup {i}], "mark", t, 0)
    ELSE IF tab.page = "list" THEN Asking(tab, "list", System, 0)
    ELSE tab

\* Variant: a message of an open conversation does not refresh the badge.
AfterNoteListOnly(tab) ==
    IF tab.up /\ tab.page = "list" THEN Asking(tab, "refresh", System, 0)
    ELSE tab

\* EventContext.jsx: every notification refreshes the badge.
AfterNote(tab) == IF tab.up THEN Asking(tab, "refresh", System, 0) ELSE tab

-----------------------------------------------------------------------------
(* sendMessage and createNotification, for the peer.                       *)

PeerSend(s, t) ==
    /\ sends[s].at = "idle"
    /\ Len(messages) < MaxMessages
    /\ Len(notes) + Cardinality({r \in Senders : sends[r].at # "idle"})
            < MaxNotes
    /\ messages' = Append(messages, [thread |-> t, mine |-> FALSE,
                                     live |-> TRUE])
    /\ sends' = [sends EXCEPT ![s] = [at |-> "stored", thread |-> t,
                                      id |-> Len(messages) + 1]]
    /\ UNCHANGED <<notes, tabs>>

PushMessage(s) ==
    /\ sends[s].at = "stored"
    /\ CanPush
    /\ tabs' = [b \in Tabs |->
                    AfterMessage(tabs[b], sends[s].thread, sends[s].id)]
    /\ sends' = [sends EXCEPT ![s].at = "announced"]
    /\ UNCHANGED <<messages, notes>>

\* Any other createNotification for the user.
SystemEvent(s) ==
    /\ "system" \in Allowed
    /\ sends[s].at = "idle"
    /\ Len(notes) + Cardinality({r \in Senders : sends[r].at # "idle"})
            < MaxNotes
    /\ sends' = [sends EXCEPT ![s] = [Rest EXCEPT !.at = "announced"]]
    /\ UNCHANGED <<messages, notes, tabs>>

StoreNote(s) ==
    /\ sends[s].at = "announced"
    /\ notes' = Append(notes, [thread |-> sends[s].thread, read |-> FALSE])
    /\ sends' = [sends EXCEPT ![s].at = "noted"]
    /\ UNCHANGED <<messages, tabs>>

PushNote(s) ==
    /\ sends[s].at = "noted"
    /\ CanPush
    /\ tabs' = [b \in Tabs |-> AfterNote(tabs[b])]
    /\ sends' = [sends EXCEPT ![s] = Rest]
    /\ UNCHANGED <<messages, notes>>

\* deleteConversation removes the rows of both sides.
WithoutThread(t) ==
    [i \in DOMAIN messages |->
        [messages[i] EXCEPT !.live = @ /\ messages[i].thread # t]]

PeerEraseThread(t) ==
    /\ "erase" \in Allowed
    /\ Rows(t) # {}
    /\ messages' = WithoutThread(t)
    /\ UNCHANGED <<notes, sends, tabs>>

-----------------------------------------------------------------------------
(* What the user does in a tab.                                            *)

\* The thread of another conversation stays on the page until the answer.
Open(b, t) ==
    /\ Idle(tabs[b])
    /\ tabs[b].page = "list"
    /\ tabs' = [tabs EXCEPT ![b] =
                    Asking([@ EXCEPT !.page = t], "load", t, 0)]
    /\ UNCHANGED <<messages, notes, sends>>

BackToList(b) ==
    /\ Idle(tabs[b])
    /\ tabs[b].page # "list"
    /\ tabs' = [tabs EXCEPT ![b] =
                    Asking([@ EXCEPT !.page = "list"], "list", System, 0)]
    /\ UNCHANGED <<messages, notes, sends>>

PostMessage(b) ==
    /\ "post" \in Allowed
    /\ Idle(tabs[b])
    /\ tabs[b].page # "list"
    /\ \A k \in DOMAIN tabs[b].calls :
            tabs[b].calls[k].kind \notin {"post", "posting"}
    /\ tabs' = [tabs EXCEPT ![b] = Asking(@, "post", tabs[b].page, 0)]
    /\ UNCHANGED <<messages, notes, sends>>

\* Only one's own messages have the button.
HandleDeleteMessage(b, i) ==
    /\ "erase" \in Allowed
    /\ Idle(tabs[b])
    /\ tabs[b].page # "list"
    /\ i \in tabs[b].shown
    /\ messages[i].mine
    /\ tabs' = [tabs EXCEPT ![b] = Asking(@, "erase", System, i)]
    /\ UNCHANGED <<messages, notes, sends>>

HandleDeleteConversation(b, t) ==
    /\ "erase" \in Allowed
    /\ Idle(tabs[b])
    /\ tabs[b].page = "list"
    /\ t \in tabs[b].listed
    /\ tabs' = [tabs EXCEPT ![b] = Asking(@, "eraseThread", t, 0)]
    /\ UNCHANGED <<messages, notes, sends>>

\* The dropdown lists the newest notifications.  Opening one marks it read
\* and goes to its conversation, if it is a message.
Visit(tab, t) ==
    IF t = System \/ t = tab.page THEN tab
    ELSE Asking([tab EXCEPT !.page = t], "load", t, 0)

OpenItem(b, n) ==
    /\ Idle(tabs[b])
    /\ Len(tabs[b].calls) + 2 <= MaxCalls
    /\ n \in Newest
    /\ ~notes[n].read
    /\ tabs' = [tabs EXCEPT ![b] = Visit(Asking(@, "markOne", System, n),
                                        notes[n].thread)]
    /\ UNCHANGED <<messages, notes, sends>>

\* Or they are all marked read.
MarkAll(b) ==
    /\ Idle(tabs[b])
    /\ tabs[b].messages + tabs[b].system > 0
    /\ tabs' = [tabs EXCEPT ![b] = Asking(@, "markAll", System, 0)]
    /\ UNCHANGED <<messages, notes, sends>>

-----------------------------------------------------------------------------
(* The server answers.                                                     *)

AnswerRead(b, kind, got) ==
    /\ \E k \in Waiting(b, kind) : Reply(b, k, got)
    /\ UNCHANGED <<messages, notes, sends>>

AnswerLoad(b) ==
    /\ \E k \in Waiting(b, "load") :
            Reply(b, k, GetMessages(tabs[b].calls[k].thread))
    /\ UNCHANGED <<messages, notes, sends>>

AnswerList(b) == AnswerRead(b, "list", GetConversations)
AnswerRefresh(b) == AnswerRead(b, "refresh", GetNotifications)

ReadNotes(set) ==
    [n \in DOMAIN notes |-> [notes[n] EXCEPT !.read = @ \/ n \in set]]

\* markConversationRead; the 'notification:read' it pushes has no listener
\* in the web client.
AnswerMark(b) ==
    \E k \in Waiting(b, "mark") :
        /\ notes' = ReadNotes(Unread(tabs[b].calls[k].thread))
        /\ Reply(b, k, NothingGot)
        /\ UNCHANGED <<messages, sends>>

MarkNotificationRead(b) ==
    \E k \in Waiting(b, "markOne") :
        /\ notes' = ReadNotes({tabs[b].calls[k].id})
        /\ Reply(b, k, NothingGot)
        /\ UNCHANGED <<messages, sends>>

MarkAllRead(b) ==
    \E k \in Waiting(b, "markAll") :
        /\ notes' = ReadNotes(AllUnread)
        /\ Reply(b, k, NothingGot)
        /\ UNCHANGED <<messages, sends>>

\* sendMessage for the user: a support thread must exist when it is asked.
CheckThread(b) ==
    \E k \in Waiting(b, "post") :
        /\ tabs' = [tabs EXCEPT ![b] =
                IF tabs[b].calls[k].thread = Support /\ Rows(Support) = {}
                THEN Taken(b, k)
                ELSE [@ EXCEPT !.calls[k].kind = "posting"]]
        /\ UNCHANGED <<messages, notes, sends>>

StorePost(b) ==
    /\ Len(messages) < MaxMessages
    /\ \E k \in Waiting(b, "posting") :
        /\ messages' = Append(messages,
                [thread |-> tabs[b].calls[k].thread, mine |-> TRUE,
                 live |-> TRUE])
        /\ Reply(b, k, [NothingGot EXCEPT !.ids = {Len(messages) + 1}])
    /\ UNCHANGED <<notes, sends>>

EraseMessage(b) ==
    \E k \in Waiting(b, "erase") :
        /\ messages' = [messages EXCEPT ![tabs[b].calls[k].id].live = FALSE]
        /\ Reply(b, k, NothingGot)
        /\ UNCHANGED <<notes, sends>>

EraseConversation(b) ==
    \E k \in Waiting(b, "eraseThread") :
        /\ messages' = WithoutThread(tabs[b].calls[k].thread)
        /\ Reply(b, k, NothingGot)
        /\ UNCHANGED <<notes, sends>>

-----------------------------------------------------------------------------
(* The tab takes an answer.                                                *)

TakeTab(b, k, tab) ==
    /\ tabs' = [tabs EXCEPT ![b] = tab]
    /\ UNCHANGED <<messages, notes, sends>>

\* loadMessages: the page becomes the answer, and the thread is marked read.
TakeLoad(b) ==
    \E k \in Answered(b, "load") :
        LET call == tabs[b].calls[k]
        IN  TakeTab(b, k, Asking([Taken(b, k) EXCEPT !.shown = call.got.ids],
                                 "mark", call.thread, 0))

TakeList(b) ==
    \E k \in Answered(b, "list") :
        LET got == tabs[b].calls[k].got
        IN  TakeTab(b, k, [Taken(b, k) EXCEPT !.listed = got.listed,
                                              !.unread = got.unread])

TakeRefresh(b) ==
    \E k \in Answered(b, "refresh") :
        LET got == tabs[b].calls[k].got
        IN  TakeTab(b, k, [Taken(b, k) EXCEPT !.messages = got.messages,
                                              !.system = got.system])

\* Variant: the badge is left as it is.
TakeMarkOnly(b) ==
    \E kind \in {"mark", "markOne", "markAll"} :
        \E k \in Answered(b, kind) : TakeTab(b, k, Taken(b, k))

TakeMark(b) ==
    \E kind \in {"mark", "markOne", "markAll"} :
        \E k \in Answered(b, kind) :
            TakeTab(b, k, Asking(Taken(b, k), "refresh", System, 0))

\* The answer to a post is appended to the page that is open by then.
TakePost(b) ==
    \E k \in Answered(b, "posting") :
        TakeTab(b, k, [Taken(b, k) EXCEPT
                            !.shown = @ \cup tabs[b].calls[k].got.ids])

TakeErase(b) ==
    \E k \in Answered(b, "erase") :
        TakeTab(b, k, [Taken(b, k) EXCEPT !.shown = @ \ {tabs[b].calls[k].id}])

TakeEraseThread(b) ==
    \E k \in Answered(b, "eraseThread") :
        TakeTab(b, k, [Taken(b, k) EXCEPT
                            !.listed = @ \ {tabs[b].calls[k].thread}])

-----------------------------------------------------------------------------
(* The stream breaks and comes back; the server restarts.                  *)

Drop(b) ==
    /\ "drop" \in Allowed
    /\ tabs[b].up
    /\ tabs' = [tabs EXCEPT ![b].up = FALSE]
    /\ UNCHANGED <<messages, notes, sends>>

\* EventSource reconnects; nothing is fetched again.
Reconnect(b) ==
    /\ ~tabs[b].up
    /\ tabs' = [tabs EXCEPT ![b].up = TRUE]
    /\ UNCHANGED <<messages, notes, sends>>

\* What was under way in the process is lost; calls not answered fail.
Restart ==
    /\ "restart" \in Allowed
    /\ \E s \in Senders : sends[s].at # "idle"
    /\ sends' = [s \in Senders |-> Rest]
    /\ tabs' = [b \in Tabs |->
                    [tabs[b] EXCEPT
                        !.up = FALSE,
                        !.calls = SelectSeq(@, LAMBDA call : call.done)]]
    /\ UNCHANGED <<messages, notes>>

-----------------------------------------------------------------------------
PeerNext ==
    \/ \E s \in Senders :
        \/ PushMessage(s) \/ SystemEvent(s) \/ StoreNote(s) \/ PushNote(s)
        \/ \E t \in Threads : PeerSend(s, t)
    \/ \E t \in Threads : PeerEraseThread(t)

UserNext(b) ==
    \/ BackToList(b) \/ PostMessage(b) \/ MarkAll(b)
    \/ \E t \in Threads : Open(b, t) \/ HandleDeleteConversation(b, t)
    \/ \E i \in DOMAIN messages : HandleDeleteMessage(b, i)
    \/ \E n \in DOMAIN notes : OpenItem(b, n)

ServerNext(b) ==
    \/ AnswerLoad(b) \/ AnswerList(b) \/ AnswerRefresh(b)
    \/ AnswerMark(b) \/ MarkNotificationRead(b) \/ MarkAllRead(b)
    \/ CheckThread(b) \/ StorePost(b)
    \/ EraseMessage(b) \/ EraseConversation(b)

BrowserNext(b) ==
    \/ TakeLoad(b) \/ TakeList(b) \/ TakeRefresh(b) \/ TakeMark(b)
    \/ TakePost(b) \/ TakeErase(b) \/ TakeEraseThread(b)

ChatNext ==
    \/ PeerNext
    \/ \E b \in Tabs :
        UserNext(b) \/ ServerNext(b) \/ BrowserNext(b) \/ Drop(b) \/ Reconnect(b)
    \/ Restart

ChatSpec == ChatInit /\ [][ChatNext]_cvars

\* A request in flight goes on, and is answered.
Fairness ==
    /\ \A s \in Senders :
        /\ WF_cvars(PushMessage(s))
        /\ WF_cvars(StoreNote(s))
        /\ WF_cvars(PushNote(s))
    /\ \A b \in Tabs :
        /\ WF_cvars(ServerNext(b))
        /\ WF_cvars(BrowserNext(b))

-----------------------------------------------------------------------------
Quiet(b) == tabs[b].calls = <<>> /\ \A s \in Senders : sends[s].at = "idle"

\* When nothing is under way, the two badges together are the number of
\* unread notifications in the database (EventContext.jsx:103).
BadgeIsDatabaseCount ==
    \A b \in Tabs :
        Quiet(b) => tabs[b].messages + tabs[b].system = Cardinality(AllUnread)

\* The chat icon counts the unread messages and the bell everything else
\* (EventContext.jsx:23-24).
BadgesAreSplitByKind ==
    \A b \in Tabs :
        Quiet(b) => tabs[b].messages = Cardinality(UnreadMessages)

\* Between the loads, the page of a conversation shows messages of that
\* conversation only.
PageShowsItsThread ==
    \A b \in Tabs :
        (tabs[b].page # "list"
         /\ \A k \in DOMAIN tabs[b].calls : tabs[b].calls[k].kind # "load")
        => \A i \in tabs[b].shown : messages[i].thread = tabs[b].page

\* When nothing is under way, the open conversation shows every message the
\* peer has in it (Messages.jsx:90).
OpenChatIsComplete ==
    \A b \in Tabs :
        (Quiet(b) /\ tabs[b].page # "list")
        => {i \in Rows(tabs[b].page) : ~messages[i].mine} \subseteq tabs[b].shown

\* The conversation the user is looking at does not count as unread
\* (EventContext.jsx:44-45).
OpenChatIsRead ==
    \A b \in Tabs : (Quiet(b) /\ tabs[b].page # "list")
                    => Unread(tabs[b].page) = {}

\* When nothing is under way, the conversation list is what the server
\* would answer (Messages.jsx:103).
ListIsFresh ==
    \A b \in Tabs :
        (Quiet(b) /\ tabs[b].page = "list")
        => /\ tabs[b].listed = GetConversations.listed
           /\ tabs[b].unread = GetConversations.unread

\* The chat badge clears once every conversation is read
\* (notificationController.js:110-111).
BadgeClearsWhenAllRead ==
    (\A t \in Threads : GetConversations.unread[t] = 0) => UnreadMessages = {}

\* A message is notified once at most, whatever is restarted or erased.
NotedAtMostOnce ==
    \A t \in Threads :
        Cardinality({n \in DOMAIN notes : notes[n].thread = t})
        <= Cardinality({i \in DOMAIN messages :
                            messages[i].thread = t /\ ~messages[i].mine})

\* The user only replies in a support thread: a row of theirs is added to
\* it only while it has rows (messageController.js:157-160).
SupportIsOnlyAnswered ==
    [][\A i \in DOMAIN messages' \ DOMAIN messages :
            (messages'[i].thread = Support /\ messages'[i].mine)
            => Rows(Support) # {}]_messages

\* An unread notification reaches the badge of every tab, or is read.
UnreadReachesBadge ==
    \A b \in Tabs : \A n \in 1..MaxNotes :
        (n \in AllUnread)
        ~> (tabs[b].messages + tabs[b].system > 0 \/ n \notin AllUnread)
=============================================================================
