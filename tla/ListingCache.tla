---------------------------- MODULE ListingCache ----------------------------
(***************************************************************************)
(* The public lists of vehicles (getVehicles, getFeaturedCars) and the     *)
(* cache in front of them (services/cache.js).                             *)
(*                                                                         *)
(* A request takes its key, with the version of the process in it, looks   *)
(* in Redis, and on a miss reads the rows and stores its answer under the  *)
(* key.  Writers of listings bump the version once their write has         *)
(* returned.  Commits are numbered; an answer is as of a commit.           *)
(***************************************************************************)
EXTENDS Naturals, Sequences, FiniteSets

CONSTANTS
    Cars,           \* listings
    Featured,       \* those with the featured flag
    Queries,        \* of "sorted", "ranked", "home"
    PurchaseWrites, \* whether orders change the status of listings too
    MaxWrites,      \* bound on commits
    MaxReads,       \* bound on requests
    MaxRestarts     \* bound on boots of the process

ListingCacheConstants ==
    /\ Featured \subseteq Cars
    /\ Queries \subseteq {"sorted", "ranked", "home"}
    /\ PurchaseWrites \in BOOLEAN
    /\ {MaxWrites, MaxReads, MaxRestarts} \subseteq Nat

VARIABLES
    status,     \* "AVAILABLE" or "HIDDEN" (any other) of each car
    commits,    \* number of writes committed
    told,       \* the last write whose writer has been answered
    pending,    \* writes committed and not answered yet
    version,    \* vehicleVersion
    boots,
    up,         \* available: Redis is reached
    store,      \* what Redis holds
    reads       \* requests, in the order they came

cacheVars == <<status, commits, told, pending, version, boots, up, store, reads>>

ReadIds == 1 .. Len(reads)
InStep(r, step) == r \in ReadIds /\ reads[r].step = step

CacheInit ==
    /\ status \in [Cars -> {"AVAILABLE", "HIDDEN"}]
    /\ commits = 0
    /\ told = 0
    /\ pending = {}
    /\ version = 0
    /\ boots = 0
    /\ up \in BOOLEAN
    /\ store = {}
    /\ reads = <<>>

-----------------------------------------------------------------------------
(* Writers.                                                                *)

CommitWrite(c, st, w) ==
    /\ commits < MaxWrites
    /\ status[c] # st
    /\ status' = [status EXCEPT ![c] = st]
    /\ commits' = commits + 1
    /\ pending' = pending \cup {[number |-> commits + 1, writer |-> w]}
    /\ UNCHANGED <<told, version, boots, up, store, reads>>

\* Creation, approval, take-down, edit, closing and re-opening.
ListingWrite(c, st) == CommitWrite(c, st, "listing")

\* An order reserves, sells or frees the listing.
PurchaseWrite(c, st) == PurchaseWrites /\ CommitWrite(c, st, "purchase")

Answered(p) ==
    /\ pending' = pending \ {p}
    /\ told' = IF p.number > told THEN p.number ELSE told
    /\ UNCHANGED <<status, commits, boots, up, store, reads>>

\* Variant: bumped before the write as well.
BumpTwice(p) ==
    /\ p.writer = "listing"
    /\ version' = version + 2
    /\ Answered(p)

\* bumpVehicleVersion once the write has returned, then the answer.
FinishListingWrite(p) ==
    /\ p.writer = "listing"
    /\ version' = version + 1
    /\ Answered(p)

FinishPurchaseWrite(p) ==
    /\ p.writer = "purchase"
    /\ Answered(p)
    /\ UNCHANGED version

-----------------------------------------------------------------------------
(* Requests.                                                               *)

NewRead(q) ==
    [query |-> q, step |-> "get", key |-> version, since |-> told,
     rows |-> {}, shown |-> {}, asOf |-> 0]

Ask(q) ==
    /\ Len(reads) < MaxReads
    /\ reads' = Append(reads, NewRead(q))
    /\ UNCHANGED <<status, commits, told, pending, version, boots, up, store>>

Becomes(r, s) ==
    /\ reads' = [reads EXCEPT ![r] = s]
    /\ UNCHANGED <<status, commits, told, pending, version, boots, up>>

Entries(r) == {e \in store : e.key = reads[r].key /\ e.query = reads[r].query}

\* getJSON: nothing is found while Redis is away.
GetJSON(r) ==
    /\ InStep(r, "get")
    /\ IF up /\ Entries(r) # {}
       THEN \E e \in Entries(r) :
              Becomes(r, [reads[r] EXCEPT !.shown = e.shown, !.asOf = e.asOf, !.step = "done"])
       ELSE Becomes(r, [reads[r] EXCEPT !.step = "rows"])
    /\ UNCHANGED store

OnSale == {c \in Cars : status[c] = "AVAILABLE"}

\* The home feed takes the featured ones, if there are any.
Candidates(q) ==
    IF q = "home" /\ OnSale \cap Featured # {} THEN OnSale \cap Featured ELSE OnSale

\* Plain browsing with a sort has its answer from this query.
ReadRows(r) ==
    LET found == Candidates(reads[r].query)
        plain == reads[r].query = "sorted"
    IN /\ InStep(r, "rows")
       /\ Becomes(r, [reads[r] EXCEPT
                        !.rows = found, !.asOf = commits,
                        !.shown = IF plain THEN [car : found, status : {"AVAILABLE"}] ELSE {},
                        !.step = IF plain THEN "set" ELSE "hydrate"])
       /\ UNCHANGED store

\* The others rank ids first and fetch the cards of those by id.
HydrateVehiclesByIds(r) ==
    /\ InStep(r, "hydrate")
    /\ Becomes(r, [reads[r] EXCEPT
                     !.shown = {[car |-> c, status |-> status[c]] : c \in reads[r].rows},
                     !.step = "set"])
    /\ UNCHANGED store

Entry(r, key) ==
    [key |-> key, query |-> reads[r].query, shown |-> reads[r].shown, asOf |-> reads[r].asOf]

\* Variant: the key is made when the answer is stored.
SetJSONLate(r) ==
    /\ InStep(r, "set")
    /\ store' = IF up THEN {e \in store : e.key # version \/ e.query # reads[r].query}
                              \cup {Entry(r, version)}
                ELSE store
    /\ Becomes(r, [reads[r] EXCEPT !.step = "done"])

\* setJSON, under the key of the beginning, and the answer.
SetJSON(r) ==
    /\ InStep(r, "set")
    /\ store' = IF up THEN (store \ Entries(r)) \cup {Entry(r, reads[r].key)} ELSE store
    /\ Becomes(r, [reads[r] EXCEPT !.step = "done"])

-----------------------------------------------------------------------------
(* Redis and the process.                                                  *)

\* Variant: entries are kept.
ExpireNever(e) == e \in store /\ FALSE /\ UNCHANGED cacheVars

\* An entry lives 30 s (60 s for the home feed).
Expire(e) ==
    /\ e \in store
    /\ store' = store \ {e}
    /\ UNCHANGED <<status, commits, told, pending, version, boots, up, reads>>

ConnectionChange ==
    /\ up' = ~up
    /\ UNCHANGED <<status, commits, told, pending, version, boots, store, reads>>

\* initVehicleVersion runs before Redis is ready and returns: the version
\* starts from 0.  What was under way is lost.
RestartServer ==
    /\ boots < MaxRestarts
    /\ boots' = boots + 1
    /\ version' = 0
    /\ up' = FALSE
    /\ pending' = {}
    /\ reads' = [r \in ReadIds |-> [reads[r] EXCEPT !.step = "done", !.asOf = commits, !.shown = {}]]
    /\ UNCHANGED <<status, commits, told, store>>

ReadStep(r) ==
    \/ GetJSON(r) \/ ReadRows(r) \/ HydrateVehiclesByIds(r) \/ SetJSON(r)

Finish == \E p \in pending : FinishListingWrite(p) \/ FinishPurchaseWrite(p)

CacheNext ==
    \/ \E c \in Cars, st \in {"AVAILABLE", "HIDDEN"} : ListingWrite(c, st) \/ PurchaseWrite(c, st)
    \/ Finish
    \/ \E q \in Queries : Ask(q)
    \/ \E r \in ReadIds : ReadStep(r)
    \/ \E e \in store : Expire(e)
    \/ ConnectionChange
    \/ RestartServer

CacheSpec == CacheInit /\ [][CacheNext]_cacheVars

\* Writers and requests go on, and entries expire.
CacheFairness ==
    /\ WF_cacheVars(Finish)
    /\ \A r \in 1 .. MaxReads : WF_cacheVars(ReadStep(r))
    /\ WF_cacheVars(\E e \in store : Expire(e))

-----------------------------------------------------------------------------
CacheTypeOK ==
    /\ status \in [Cars -> {"AVAILABLE", "HIDDEN"}]
    /\ commits \in 0 .. MaxWrites
    /\ told \in 0 .. commits
    /\ \A p \in pending : p.number \in 1 .. commits
    /\ version \in 0 .. commits
    /\ up \in BOOLEAN
    /\ \A r \in ReadIds : reads[r].asOf \in 0 .. commits /\ reads[r].since \in 0 .. told
    /\ \A e \in store : e.asOf \in 0 .. commits

\* An answer is not older than what writers had been told when it was asked
\* for ("stale entries are orphaned instantly", getVehicles).
NeverStale == \A r \in ReadIds : InStep(r, "done") => reads[r].asOf >= reads[r].since

\* The lists show available cars only ("Public queries only ever surface
\* AVAILABLE", deleteVehicle).
OnlyAvailable ==
    \A r \in ReadIds : InStep(r, "done") => \A x \in reads[r].shown : x.status = "AVAILABLE"

\* Every request is answered, with Redis or without.
RequestsAnswered == \A r \in 1 .. MaxReads : r \in ReadIds ~> InStep(r, "done")

\* Once writing has stopped, the entries that can be found are of now in the
\* end, also those of writes that bump nothing.
StaleEnds == <>[](\A e \in store : e.key = version => e.asOf = commits)

=============================================================================
