----------------------------- MODULE MCScreens -----------------------------
(***************************************************************************)
(* Instances for TLC of the pages of the web client with what the server   *)
(* does for them: the chat and its badges, the order page, the desk of the *)
(* staff, its pagers, its messages to all users, and the session.          *)
(*                                                                         *)
(* They share no state, so each behaviour runs one of them, the part       *)
(* chosen at the start, and the variables of the others stay at a fixed    *)
(* initial value, in which nothing is under way.                           *)
(***************************************************************************)
EXTENDS Session, OrderPage, AdminDesk, SupportBroadcast

CONSTANTS Parts             \* the parts of this run

VARIABLES
    part,
    \* Chat
    rows, notes, peers, windows,
    \* DeskPager
    at, label, filter, shown, wanted, fetches, acts

chat  == <<rows, notes, peers, windows>>
pager == <<at, label, filter, shown, wanted, fetches, acts>>

screenVars == <<part, chat, pvars, deskVars, pager, castVars, svars>>

-----------------------------------------------------------------------------
\* The user goes on while requests are under way, which are answered in the
\* order they were sent.
CC == INSTANCE Chat WITH
    Threads <- {"car", "support"}, Support <- "support", System <- "system",
    Tabs <- {"b1"}, Senders <- {"s1"}, PageSize <- 2, MaxMessages <- 2,
    MaxNotes <- 2, MaxCalls <- 2, Hasty <- TRUE, InOrder <- TRUE,
    Allowed <- {"system", "post"},
    messages <- rows, sends <- peers, tabs <- windows
\* The same beside two events at once, of a message and another.
CS == INSTANCE Chat WITH
    Threads <- {"support"}, Support <- "support", System <- "system",
    Tabs <- {"b1"}, Senders <- {"s1", "s2"}, PageSize <- 2, MaxMessages <- 1,
    MaxNotes <- 2, MaxCalls <- 2, Hasty <- TRUE, InOrder <- TRUE,
    Allowed <- {"system"},
    messages <- rows, sends <- peers, tabs <- windows
\* In any order, and the server restarts, the stream drops, messages are
\* erased.
CR == INSTANCE Chat WITH
    Threads <- {"support"}, Support <- "support", System <- "system",
    Tabs <- {"b1"}, Senders <- {"s1"}, PageSize <- 1, MaxMessages <- 1,
    MaxNotes <- 2, MaxCalls <- 2, Hasty <- TRUE, InOrder <- FALSE,
    Allowed <- {"erase", "drop", "restart", "post"},
    messages <- rows, sends <- peers, tabs <- windows
CL == INSTANCE Chat WITH
    Threads <- {"car"}, Support <- "support", System <- "system",
    Tabs <- {"b1"}, Senders <- {"s1"}, PageSize <- 2, MaxMessages <- 2,
    MaxNotes <- 2, MaxCalls <- 2, Hasty <- FALSE, InOrder <- TRUE,
    Allowed <- {"system"},
    messages <- rows, sends <- peers, tabs <- windows

\* The part "order" has the constants of the configuration.
OL == INSTANCE OrderPage WITH
    Viewers <- {"BUYER"}, Prices <- {1},
    Methods <- {"BANK_TRANSFER", "CASH", "PAYSTACK"}, MaxWrites <- 4,
    MaxPageCalls <- 2, PageWaits <- TRUE, InOrder <- TRUE, CallsFail <- TRUE

\* One desk on the rows of most tabs; on users; on orders that move.  In the
\* configuration, two on photos, which sellers upload again.
DA == INSTANCE AdminDesk WITH
    Staff <- {"ama"}, StaffRoles <- {"ADMIN", "MANAGER", "ACCOUNTANT"},
    RowKinds <- {"car", "photo", "report", "payment", "order"},
    Others <- FALSE, Interleaved <- FALSE, DeskWaits <- TRUE,
    MaxClicks <- 3, MaxUploads <- 2
DM == INSTANCE AdminDesk WITH
    Staff <- {"ama"}, StaffRoles <- {"ADMIN", "MANAGER", "ACCOUNTANT", "STAFF"},
    RowKinds <- {"car", "member"}, Others <- FALSE, Interleaved <- FALSE,
    DeskWaits <- TRUE, MaxClicks <- 3, MaxUploads <- 2
DO == INSTANCE AdminDesk WITH
    Staff <- {"ama"}, StaffRoles <- {"ADMIN", "ACCOUNTANT"},
    RowKinds <- {"payment", "order"}, Others <- TRUE, Interleaved <- FALSE,
    DeskWaits <- TRUE, MaxClicks <- 4, MaxUploads <- 1
DL == INSTANCE AdminDesk WITH
    Staff <- {"ama"}, StaffRoles <- {"ADMIN", "MANAGER"},
    RowKinds <- {"photo", "member"}, Others <- TRUE, Interleaved <- FALSE,
    DeskWaits <- TRUE, MaxClicks <- 2, MaxUploads <- 1

PP == INSTANCE DeskPager WITH
    Pagers <- {"audit", "listings"}, MaxActs <- 4, Patient <- TRUE,
    InOrder <- TRUE, TotalPages <- 3, Filters <- {"all", "users"},
    NoFilter <- "all"
PE == INSTANCE DeskPager WITH
    Pagers <- {"audit", "listings"}, MaxActs <- 3, Patient <- FALSE,
    InOrder <- FALSE, TotalPages <- 3, Filters <- {"all", "users"},
    NoFilter <- "all"

\* Users come and go.  In the configuration they do not.
BC == INSTANCE SupportBroadcast WITH
    Users <- 1 .. 3, Admins <- {1}, BatchSize <- 1,
    SendKinds <- {"bulk"}, MaxSends <- 1, MaxDirect <- 1,
    Changes <- {"off"}, OneAtATime <- TRUE
BD == INSTANCE SupportBroadcast WITH
    Users <- 1 .. 4, Admins <- {1}, BatchSize <- 2,
    SendKinds <- {"inbox", "bell"}, MaxSends <- 1, MaxDirect <- 0,
    Changes <- {"gone"}, OneAtATime <- TRUE
BL == INSTANCE SupportBroadcast WITH
    Users <- 1 .. 3, Admins <- {1}, BatchSize <- 1,
    SendKinds <- {"bulk", "bell"}, MaxSends <- 1, MaxDirect <- 0,
    Changes <- {"gone"}, OneAtATime <- FALSE

ASSUME /\ CC!ChatConstants /\ CS!ChatConstants
       /\ CR!ChatConstants /\ CL!ChatConstants
       /\ OrderPageConstants /\ OL!OrderPageConstants
       /\ AdminDeskConstants /\ DA!AdminDeskConstants
       /\ DM!AdminDeskConstants /\ DO!AdminDeskConstants
       /\ DL!AdminDeskConstants
       /\ PP!DeskPagerConstants /\ PE!DeskPagerConstants
       /\ SupportBroadcastConstants /\ BC!SupportBroadcastConstants
       /\ BD!SupportBroadcastConstants
       /\ BL!SupportBroadcastConstants
       /\ SessionConstants

-----------------------------------------------------------------------------
\* An administrator's desk that has not been opened, and pagers at rest.
NoDesk ==
    /\ DL!DeskInit
    /\ role["ama"] = "ADMIN" /\ db.member.role = "SELLER"

NoPager ==
    LET all(x) == [p \in {"audit", "listings"} |-> x]
    IN  /\ at = all(1)
        /\ label = all(1)
        /\ filter = "all"
        /\ shown = all(PP!Nothing)
        /\ wanted = all(PP!First)
        /\ fetches = all(<<>>)
        /\ acts = 0

ScreensInit ==
    /\ part \in Parts
    /\ CASE part = "chat"       -> CC!ChatInit
         [] part = "two events" -> CS!ChatInit
         [] part = "rough chat" -> CR!ChatInit
         [] OTHER               -> CL!ChatInit
    /\ IF part = "live order" THEN OL!OPInit ELSE OPInit
    /\ CASE part = "desk"           -> DA!DeskInit
         [] part = "desk on users"  -> DM!DeskInit
         [] part = "desk on orders" -> DO!DeskInit
         [] part = "two desks"      -> DeskInit
         [] part = "live desk"      -> DL!DeskInit
         [] OTHER                   -> NoDesk
    /\ CASE part \in {"pager", "live pager"} -> PP!Init
         [] part = "eager pager"             -> PE!Init
         [] OTHER                            -> NoPager
    /\ CASE part = "broadcast"       -> CastInit
         [] part = "users leave"     -> BC!CastInit
         [] part = "users deleted"   -> BD!CastInit
         [] OTHER                    -> BL!CastInit
    /\ SInit

ChatNext ==
    /\ \/ part = "chat"       /\ CC!ChatNext
       \/ part = "two events" /\ CS!ChatNext
       \/ part = "rough chat" /\ CR!ChatNext
       \/ part = "live chat"  /\ CL!ChatNext
    /\ UNCHANGED <<part, pvars, deskVars, pager, castVars, svars>>

OrderNext ==
    /\ \/ part = "order"      /\ OPNext
       \/ part = "live order" /\ OL!OPNext
    /\ UNCHANGED <<part, chat, deskVars, pager, castVars, svars>>

DesksNext ==
    /\ \/ part = "desk"           /\ DA!DeskNext
       \/ part = "desk on users"  /\ DM!DeskNext
       \/ part = "desk on orders" /\ DO!DeskNext
       \/ part = "two desks"      /\ DeskNext
       \/ part = "live desk"      /\ DL!DeskNext
    /\ UNCHANGED <<part, chat, pvars, pager, castVars, svars>>

PagerNext ==
    /\ \/ part \in {"pager", "live pager"} /\ PP!Next
       \/ part = "eager pager"             /\ PE!Next
    /\ UNCHANGED <<part, chat, pvars, deskVars, castVars, svars>>

BroadcastNext ==
    /\ \/ part = "broadcast"      /\ CastNext
       \/ part = "users leave"    /\ BC!CastNext
       \/ part = "users deleted"  /\ BD!CastNext
       \/ part = "live broadcast" /\ BL!CastNext
    /\ UNCHANGED <<part, chat, pvars, deskVars, pager, svars>>

SessionNext ==
    /\ part = "session" /\ SNext
    /\ UNCHANGED <<part, chat, pvars, deskVars, pager, castVars>>

ScreensNext ==
    \/ ChatNext
    \/ OrderNext
    \/ DesksNext
    \/ PagerNext
    \/ BroadcastNext
    \/ SessionNext

ScreensSpec == ScreensInit /\ [][ScreensNext]_screenVars

\* Requests are served and answers are taken, in the live parts.  In the
\* parts that a behaviour does not run no fair action is enabled.
ScreensFairness ==
    /\ CL!Fairness
    /\ OL!PageFairness
    /\ DL!DeskFairness
    /\ PP!Fairness
    /\ BL!CastFairness

-----------------------------------------------------------------------------
\* Each part is well typed.
ScreenTypes ==
    /\ part = "chat"           => CC!ChatTypeOK
    /\ part = "order"          => OPTypeOK
    /\ part = "desk"           => DA!DeskTypeOK
    /\ part = "desk on orders" => DO!DeskTypeOK
    /\ part = "pager"          => PP!TypeOK
    /\ part = "broadcast"      => CastTypeOK
    /\ part = "session"        => STypeOK

\* With nothing under way the badges add up to what the database says, an
\* open conversation shows its own messages, and a badge clears when all is
\* read.  However rough the connection, a message is notified once.
BadgesAreRight ==
    /\ part = "chat" => /\ CC!BadgeIsDatabaseCount
                        /\ CC!PageShowsItsThread
                        /\ CC!BadgeClearsWhenAllRead
    /\ part = "two events" => CS!BadgeIsDatabaseCount /\ CS!PageShowsItsThread
    /\ part = "rough chat" => CR!NotedAtMostOnce

\* The desk offers what the role may do and what fits the row, paints what
\* it wrote, and says what was done; its pagers are at the page they name; the
\* messages it sends reach everyone once, and are counted.
DeskIsTrue ==
    /\ part = "desk" => /\ DA!TabsLoad
                        /\ DA!OfferedIsPermitted
                        /\ DA!RepaintIsTrue
                        /\ DA!FeaturedAsTold
    /\ part = "desk on users" => DM!TabsLoad /\ DM!RepaintIsTrue /\ DM!RenameKeepsRole
    /\ part = "desk on orders" => DO!OfferedFitsRow
    /\ part = "pager" => PP!LabelIsRows /\ PP!ShowsWanted
    /\ part = "eager pager" => PE!LabelIsRows
    /\ part = "broadcast" => ToldOncePerMessage /\ OneRowEach /\ CountIsTrue
=============================================================================
