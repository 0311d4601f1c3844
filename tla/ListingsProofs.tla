--------------------------- MODULE ListingsProofs ---------------------------
(***************************************************************************)
(* Theorems about Listings for every set of listings, sellers and requests *)
(* in flight, every ownership and every bound on the edits.                *)
(***************************************************************************)
EXTENDS Listings, FiniteSetTheorems, TLAPS

-----------------------------------------------------------------------------
(* However the requests interleave.                                        *)

AllEndpoints == SellerEndpoints \cup AdminEndpoints
OnListing == AllEndpoints \ {"setUserStatus"}

\* A request is about a listing, or about a seller.
OnInv ==
    \A w \in Editors : /\ lreq[w].at \in OnListing => lreq[w].on \in Vehicles
                       /\ lreq[w].at = "setUserStatus" => lreq[w].on \in Sellers

\* A listing says something, and what is on the market was approved.
LiveInv ==
    \A v \in Vehicles : row[v] = "live" =>
        /\ content[v] > 0
        /\ vehicle[v] = "AVAILABLE" => approved[v] > 0

\* What a request has read and will write is a version that exists, or a
\* status that was approved.
SeenInv ==
    \A w \in Editors :
        /\ lreq[w].at = "updateListingStatus" => lreq[w].rev > 0
        /\ lreq[w].at = "updateVehicle" /\ lreq[w].seen = "AVAILABLE" =>
               approved[lreq[w].on] > 0

LInv == LTypeOK /\ OnInv /\ LiveInv /\ SeenInv

LEMMA NoRequestType == NoRequest \in ListingRequest /\ NoRequest.at = "idle"
  BY DEF NoRequest, ListingRequest, ListingStatus

LEMMA LInvInit == LInit => LInv
  <1> SUFFICES ASSUME LInit PROVE LInv
    OBVIOUS
  <1>1. LTypeOK
    BY NoRequestType DEF LInit, LTypeOK, ListingStatus
  <1>2. /\ \A w \in Editors : lreq[w].at = "idle"
        /\ \A v \in Vehicles : row[v] = "unborn"
    BY NoRequestType DEF LInit
  <1> QED
    BY <1>1, <1>2
    DEF LInv, OnInv, LiveInv, SeenInv, OnListing, AllEndpoints, SellerEndpoints, AdminEndpoints

\* What a reply leaves in flight.
LEMMA ReplyFacts ==
    ASSUME LTypeOK, NEW w \in Editors, Reply(w)
    PROVE  /\ lreq' \in [Editors -> ListingRequest]
           /\ lreq'[w].at = "idle"
           /\ \A u \in Editors \ {w} : lreq'[u] = lreq[u]
  BY NoRequestType DEF LTypeOK, Reply

\* What a listing's request has read.
LEMMA ReceiveFacts ==
    ASSUME LTypeOK, NEW w \in Editors, NEW endpoint \in OnListing, NEW v \in Vehicles,
           NEW by \in {"seller", "admin"}, Receive(w, endpoint, v, by)
    PROVE  /\ lreq' \in [Editors -> ListingRequest]
           /\ lreq'[w].at = endpoint /\ lreq'[w].on = v /\ lreq'[w].by = by
           /\ lreq'[w].seen = vehicle[v] /\ lreq'[w].star = featured[v]
           /\ lreq'[w].rev = content[v]
           /\ \A u \in Editors \ {w} : lreq'[u] = lreq[u]
  <1> DEFINE r == [at |-> endpoint, on |-> v, by |-> by, seen |-> vehicle[v],
                   star |-> featured[v], rev |-> content[v]]
  <1>1. lreq' = [lreq EXCEPT ![w] = r]
    BY DEF Receive
  <1>2. /\ r \in ListingRequest
        /\ r.at = endpoint /\ r.on = v /\ r.by = by /\ r.seen = vehicle[v]
        /\ r.star = featured[v] /\ r.rev = content[v]
    BY DEF LTypeOK, ListingRequest, OnListing, AllEndpoints
  <1> HIDE DEF r
  <1> QED
    BY <1>1, <1>2 DEF LTypeOK

\* A request about a listing that is there, or about one that will be made.
LEMMA ReceiveInv ==
    ASSUME LInv, NEW w \in Editors, NEW endpoint \in OnListing, NEW v \in Vehicles,
           NEW by \in {"seller", "admin"}, Receive(w, endpoint, v, by),
           row[v] = "live" \/ endpoint = "createVehicle"
    PROVE  LInv'
  <1>1. UNCHANGED <<vehicle, row, featured, content, approved, active, refs>>
    BY DEF Receive
  <1>2. /\ lreq' \in [Editors -> ListingRequest]
        /\ lreq'[w].at = endpoint /\ lreq'[w].on = v
        /\ lreq'[w].seen = vehicle[v] /\ lreq'[w].rev = content[v]
        /\ \A u \in Editors \ {w} : lreq'[u] = lreq[u]
    BY ReceiveFacts DEF LInv
  <1>3. LTypeOK'
    BY <1>1, <1>2 DEF LInv, LTypeOK
  <1>4. OnInv'
    BY <1>2 DEF LInv, OnInv, OnListing
  <1>5. LiveInv'
    BY <1>1 DEF LInv, LiveInv
  <1>6. SeenInv'
    BY <1>1, <1>2 DEF LInv, LiveInv, SeenInv
  <1> QED
    BY <1>3, <1>4, <1>5, <1>6 DEF LInv

\* A request is answered; what it leaves is right, and nothing that was
\* approved ceases to be.
LEMMA WriteInv ==
    ASSUME LInv, NEW w \in Editors, Reply(w), LTypeOK', LiveInv',
           \A v \in Vehicles : approved[v] > 0 => approved'[v] > 0
    PROVE  LInv'
  <1>1. /\ lreq'[w].at = "idle"
        /\ \A u \in Editors \ {w} : lreq'[u] = lreq[u]
    BY ReplyFacts DEF LInv
  <1>2. OnInv'
    BY <1>1 DEF LInv, OnInv, OnListing, AllEndpoints, SellerEndpoints, AdminEndpoints
  <1>3. SeenInv'
    <2> SUFFICES ASSUME NEW u \in Editors, u # w
                 PROVE  /\ lreq[u].at = "updateListingStatus" => lreq[u].rev > 0
                        /\ lreq[u].at = "updateVehicle" /\ lreq[u].seen = "AVAILABLE" =>
                               approved'[lreq[u].on] > 0
      BY <1>1 DEF SeenInv
    <2>1. lreq[u].at = "updateVehicle" => lreq[u].on \in Vehicles
      BY DEF LInv, OnInv, OnListing, AllEndpoints, SellerEndpoints
    <2> QED
      BY <2>1 DEF LInv, SeenInv
  <1> QED
    BY <1>2, <1>3 DEF LInv

\* A request gives a listing a status that is not on the market, or that was
\* approved.
LEMMA StatusInv ==
    ASSUME LInv, NEW w \in Editors, Reply(w), NEW status \in ListingStatus,
           lreq[w].at \in OnListing, SetStatus(w, status),
           status = "AVAILABLE" => approved'[lreq[w].on] > 0,
           row' \in [Vehicles -> {"unborn", "live", "gone"}],
           \A v \in Vehicles : row'[v] = "live" => row[v] = "live" \/ content'[v] > 0,
           featured' \in [Vehicles -> BOOLEAN],
           content' \in [Vehicles -> Nat], approved' \in [Vehicles -> Nat],
           \A v \in Vehicles : /\ content[v] > 0 => content'[v] > 0
                               /\ approved[v] > 0 => approved'[v] > 0,
           \A v \in Vehicles : row'[v] = "live" /\ v # lreq[w].on => row[v] = "live",
           UNCHANGED <<active, refs>>
    PROVE  LInv'
  <1>1. lreq[w].on \in Vehicles
    BY DEF LInv, OnInv
  <1>2. /\ vehicle' \in [Vehicles -> ListingStatus]
        /\ vehicle'[lreq[w].on] = status
        /\ \A v \in Vehicles \ {lreq[w].on} : vehicle'[v] = vehicle[v]
    BY <1>1 DEF LInv, LTypeOK, SetStatus
  <1>3. LTypeOK'
    BY <1>2, ReplyFacts DEF LInv, LTypeOK
  <1>4. LiveInv'
    <2> SUFFICES ASSUME NEW v \in Vehicles, row'[v] = "live"
                 PROVE  content'[v] > 0 /\ (vehicle'[v] = "AVAILABLE" => approved'[v] > 0)
      BY DEF LiveInv
    <2>1. content'[v] > 0
      BY DEF LInv, LiveInv
    <2>2. CASE v = lreq[w].on
      BY <1>2, <2>1, <2>2
    <2>3. CASE v # lreq[w].on
      BY <1>2, <2>1, <2>3 DEF LInv, LiveInv
    <2> QED
      BY <2>2, <2>3
  <1> QED
    BY <1>3, <1>4, WriteInv

\* The seven writes about a listing.
LEMMA CreateInv ==
    ASSUME LInv, NEW w \in Editors, CreateVehicleWrite(w)
    PROVE  LInv'
  <1>1. /\ lreq[w].at = "createVehicle" /\ Reply(w) /\ SetStatus(w, "PENDING")
        /\ row' = [row EXCEPT ![lreq[w].on] = "live"]
        /\ content' = [content EXCEPT ![lreq[w].on] = 1]
        /\ UNCHANGED <<featured, approved, active, refs>>
    BY DEF CreateVehicleWrite
  <1>2. lreq[w].at \in OnListing /\ lreq[w].on \in Vehicles
    BY <1>1 DEF LInv, OnInv, OnListing, AllEndpoints, SellerEndpoints
  <1>3. /\ row' \in [Vehicles -> {"unborn", "live", "gone"}]
        /\ content' \in [Vehicles -> Nat] /\ content'[lreq[w].on] = 1
        /\ \A v \in Vehicles \ {lreq[w].on} : row'[v] = row[v] /\ content'[v] = content[v]
    BY <1>1, <1>2 DEF LInv, LTypeOK
  <1>4. /\ \A v \in Vehicles : content[v] > 0 => content'[v] > 0
        /\ \A v \in Vehicles : row'[v] = "live" => row[v] = "live" \/ content'[v] > 0
        /\ \A v \in Vehicles : row'[v] = "live" /\ v # lreq[w].on => row[v] = "live"
    BY <1>3
  <1>5. "PENDING" \in ListingStatus
    BY DEF ListingStatus
  <1> QED
    BY <1>1, <1>2, <1>3, <1>4, <1>5, StatusInv DEF LInv, LTypeOK

LEMMA UpdateInv ==
    ASSUME LInv, NEW w \in Editors, UpdateVehicleWrite(w)
    PROVE  LInv'
  <1>1. /\ lreq[w].at = "updateVehicle" /\ row[lreq[w].on] = "live" /\ Reply(w)
        /\ SetStatus(w, NextStatus(w))
        /\ \/ content' = [content EXCEPT ![lreq[w].on] = content[lreq[w].on] + 1]
           \/ UNCHANGED content
        /\ UNCHANGED <<row, featured, approved, active, refs>>
    BY DEF UpdateVehicleWrite, Serving
  <1>2. lreq[w].at \in OnListing /\ lreq[w].on \in Vehicles
    BY <1>1 DEF LInv, OnInv, OnListing, AllEndpoints, SellerEndpoints
  <1>3. content' \in [Vehicles -> Nat] /\ \A v \in Vehicles : content'[v] >= content[v]
    BY <1>1, <1>2 DEF LInv, LTypeOK
  <1>4. \A v \in Vehicles : content[v] \in Nat /\ content'[v] \in Nat
    BY <1>3 DEF LInv, LTypeOK
  <1>5. \A v \in Vehicles : content[v] > 0 => content'[v] > 0
    BY <1>3, <1>4
  <1>6. /\ NextStatus(w) \in ListingStatus
        /\ NextStatus(w) = "AVAILABLE" => lreq[w].seen = "AVAILABLE"
    BY DEF NextStatus, LInv, LTypeOK, ListingRequest, ListingStatus
  <1>7. NextStatus(w) = "AVAILABLE" => approved'[lreq[w].on] > 0
    BY <1>1, <1>6 DEF LInv, SeenInv
  <1> QED
    BY <1>1, <1>2, <1>3, <1>5, <1>6, <1>7, StatusInv DEF LInv, LTypeOK

LEMMA DeleteInv ==
    ASSUME LInv, NEW w \in Editors, DeleteVehicleWrite(w)
    PROVE  LInv'
  <1>1. /\ lreq[w].at = "deleteVehicle" /\ Reply(w)
        /\ Wipe(w) \/ SoftClose(w)
        /\ UNCHANGED <<content, approved, active, refs>>
    BY DEF DeleteVehicleWrite, Serving
  <1>2. lreq[w].at \in OnListing /\ lreq[w].on \in Vehicles
    BY <1>1 DEF LInv, OnInv, OnListing, AllEndpoints, SellerEndpoints
  <1>3. CASE Wipe(w)
    <2>1. /\ row' \in [Vehicles -> {"unborn", "live", "gone"}]
          /\ \A v \in Vehicles : row'[v] = "live" => row[v] = "live"
          /\ UNCHANGED <<vehicle, featured>>
      BY <1>2, <1>3 DEF Wipe, LInv, LTypeOK
    <2>2. LTypeOK'
      BY <1>1, <2>1, ReplyFacts DEF LInv, LTypeOK
    <2>3. LiveInv'
      BY <1>1, <2>1 DEF LInv, LiveInv
    <2> QED
      BY <1>1, <2>2, <2>3, WriteInv
  <1>4. CASE SoftClose(w)
    <2>1. /\ SetStatus(w, "REMOVED") /\ UNCHANGED row
          /\ featured' \in [Vehicles -> BOOLEAN] /\ "REMOVED" \in ListingStatus
      BY <1>4 DEF SoftClose, LInv, LTypeOK, ListingStatus
    <2> QED
      BY <1>1, <1>2, <2>1, StatusInv DEF LInv, LTypeOK
  <1> QED
    BY <1>1, <1>3, <1>4

LEMMA ReactivateInv ==
    ASSUME LInv, NEW w \in Editors, ReactivateVehicleWrite(w)
    PROVE  LInv'
  <1>1. /\ lreq[w].at = "reactivateVehicle" /\ Reply(w) /\ SetStatus(w, "PENDING")
        /\ UNCHANGED <<row, featured, content, approved, active, refs>>
    BY DEF ReactivateVehicleWrite, Serving
  <1>2. lreq[w].at \in OnListing /\ "PENDING" \in ListingStatus
    BY <1>1 DEF OnListing, AllEndpoints, SellerEndpoints, ListingStatus
  <1> QED
    BY <1>1, <1>2, StatusInv DEF LInv, LTypeOK

LEMMA SoldInv ==
    ASSUME LInv, NEW w \in Editors, MarkAsSoldWrite(w)
    PROVE  LInv'
  <1>1. /\ lreq[w].at = "markAsSold" /\ Reply(w) /\ SetStatus(w, "SOLD")
        /\ UNCHANGED <<row, featured, content, approved, active, refs>>
    BY DEF MarkAsSoldWrite, Serving
  <1>2. lreq[w].at \in OnListing /\ "SOLD" \in ListingStatus
    BY <1>1 DEF OnListing, AllEndpoints, SellerEndpoints, ListingStatus
  <1> QED
    BY <1>1, <1>2, StatusInv DEF LInv, LTypeOK

LEMMA JudgeInv ==
    ASSUME LInv, NEW w \in Editors, UpdateListingStatusWrite(w)
    PROVE  LInv'
  <1>1. /\ lreq[w].at = "updateListingStatus" /\ Reply(w)
        /\ UNCHANGED <<row, content, active, refs>>
    BY DEF UpdateListingStatusWrite, Serving
  <1>2. lreq[w].at \in OnListing /\ lreq[w].on \in Vehicles
    BY <1>1 DEF LInv, OnInv, OnListing, AllEndpoints, AdminEndpoints
  <1>3. /\ lreq[w].rev \in Nat /\ lreq[w].rev > 0
        /\ {"AVAILABLE", "REJECTED", "DEACTIVATED"} \subseteq ListingStatus
    BY <1>1 DEF LInv, LTypeOK, SeenInv, ListingRequest, ListingStatus
  <1>4. CASE /\ SetStatus(w, "AVAILABLE") /\ UNCHANGED featured
             /\ approved' = [approved EXCEPT ![lreq[w].on] = lreq[w].rev]
    <2>1. /\ approved' \in [Vehicles -> Nat] /\ approved'[lreq[w].on] = lreq[w].rev
          /\ \A v \in Vehicles \ {lreq[w].on} : approved'[v] = approved[v]
      BY <1>2, <1>3, <1>4 DEF LInv, LTypeOK
    <2> QED
      BY <1>1, <1>2, <1>3, <1>4, <2>1, StatusInv DEF LInv, LTypeOK
  <1>5. CASE /\ \E status \in {"REJECTED", "DEACTIVATED"} : SetStatus(w, status)
             /\ featured' = [featured EXCEPT ![lreq[w].on] = FALSE]
             /\ UNCHANGED approved
    <2>1. PICK status \in {"REJECTED", "DEACTIVATED"} : SetStatus(w, status)
      BY <1>5
    <2>2. featured' \in [Vehicles -> BOOLEAN] /\ status \in ListingStatus
      BY <1>3, <1>5 DEF LInv, LTypeOK
    <2> QED
      BY <1>1, <1>2, <1>5, <2>1, <2>2, StatusInv DEF LInv, LTypeOK
  <1> QED
    BY <1>4, <1>5 DEF UpdateListingStatusWrite

LEMMA FeatureInv ==
    ASSUME LInv, NEW w \in Editors, ToggleFeaturedWrite(w)
    PROVE  LInv'
  <1>1. /\ Reply(w) /\ featured' = [featured EXCEPT ![lreq[w].on] = ~lreq[w].star]
        /\ UNCHANGED <<vehicle, row, content, approved, active, refs>>
    BY DEF ToggleFeaturedWrite
  <1>2. LTypeOK'
    BY <1>1, ReplyFacts DEF LInv, LTypeOK
  <1>3. LiveInv'
    BY <1>1 DEF LInv, LiveInv
  <1> QED
    BY <1>1, <1>2, <1>3, WriteInv

\* What suspending a seller takes down.
LEMMA SuspendFacts ==
    ASSUME LTypeOK, NEW s,
           vehicle' = [v \in Vehicles |->
                          IF v \in TakenDown(s) THEN "DEACTIVATED" ELSE vehicle[v]],
           featured' = [v \in Vehicles |-> featured[v] /\ v \notin TakenDown(s)]
    PROVE  /\ vehicle' \in [Vehicles -> ListingStatus]
           /\ featured' \in [Vehicles -> BOOLEAN]
           /\ \A v \in Vehicles :
                 vehicle'[v] = IF row[v] = "live" /\ ownerOf[v] = s /\ vehicle[v] \in Counted
                               THEN "DEACTIVATED" ELSE vehicle[v]
  <1>1. vehicle' \in [Vehicles -> ListingStatus]
    BY DEF LTypeOK, ListingStatus
  <1>2. featured' \in [Vehicles -> BOOLEAN]
    OBVIOUS
  <1>3. \A v \in Vehicles :
           v \in TakenDown(s) <=> row[v] = "live" /\ ownerOf[v] = s /\ vehicle[v] \in Counted
    BY DEF TakenDown, LiveListings
  <1> QED
    BY <1>1, <1>2, <1>3

LEMMA SuspendInv ==
    ASSUME LInv, NEW w \in Editors, SetUserStatusWrite(w)
    PROVE  LInv'
  <1>1. /\ lreq[w].at = "setUserStatus" /\ Reply(w)
        /\ UNCHANGED <<row, content, approved, refs>>
        /\ \/ UNCHANGED <<vehicle, featured>>
           \/ /\ vehicle' = [v \in Vehicles |->
                   IF v \in TakenDown(lreq[w].on) THEN "DEACTIVATED" ELSE vehicle[v]]
              /\ featured' = [v \in Vehicles |->
                   featured[v] /\ v \notin TakenDown(lreq[w].on)]
        /\ \E b \in BOOLEAN : active' = [active EXCEPT ![lreq[w].on] = b]
    BY DEF SetUserStatusWrite
  <1>2. /\ vehicle' \in [Vehicles -> ListingStatus]
        /\ featured' \in [Vehicles -> BOOLEAN]
        /\ \A v \in Vehicles : vehicle'[v] = "AVAILABLE" => vehicle[v] = "AVAILABLE"
    <2>1. CASE UNCHANGED <<vehicle, featured>>
      BY <2>1 DEF LInv, LTypeOK
    <2>2. CASE /\ vehicle' = [v \in Vehicles |->
                    IF v \in TakenDown(lreq[w].on) THEN "DEACTIVATED" ELSE vehicle[v]]
               /\ featured' = [v \in Vehicles |->
                    featured[v] /\ v \notin TakenDown(lreq[w].on)]
      BY <2>2, SuspendFacts DEF LInv
    <2> QED
      BY <1>1, <2>1, <2>2
  <1>3. active' \in [Sellers -> BOOLEAN]
    BY <1>1 DEF LInv, LTypeOK
  <1>4. LTypeOK'
    BY <1>1, <1>2, <1>3, ReplyFacts DEF LInv, LTypeOK
  <1>5. LiveInv'
    BY <1>1, <1>2 DEF LInv, LiveInv
  <1> QED
    BY <1>1, <1>4, <1>5, WriteInv

LEMMA SuspendReadFacts ==
    ASSUME LTypeOK, NEW w \in Editors, NEW s \in Sellers, SetUserStatusRead(w, s)
    PROVE  /\ lreq' \in [Editors -> ListingRequest]
           /\ lreq'[w].at = "setUserStatus" /\ lreq'[w].on = s
           /\ lreq'[w].by = "admin" /\ lreq'[w].star = active[s]
           /\ \A u \in Editors \ {w} : lreq'[u] = lreq[u]
  <1> DEFINE r == [NoRequest EXCEPT !.at = "setUserStatus", !.on = s, !.by = "admin",
                                    !.star = active[s]]
  <1>1. lreq' = [lreq EXCEPT ![w] = r]
    BY DEF SetUserStatusRead
  <1>2. /\ r \in ListingRequest /\ r.at = "setUserStatus" /\ r.on = s
        /\ r.by = "admin" /\ r.star = active[s]
    BY DEF LTypeOK, NoRequest, ListingRequest, AdminEndpoints, ListingStatus
  <1> HIDE DEF r
  <1> QED
    BY <1>1, <1>2 DEF LTypeOK

LEMMA SuspendReadInv ==
    ASSUME LInv, NEW w \in Editors, NEW s \in Sellers, SetUserStatusRead(w, s)
    PROVE  LInv'
  <1>1. UNCHANGED <<vehicle, row, featured, content, approved, active, refs>>
    BY DEF SetUserStatusRead
  <1>2. /\ lreq' \in [Editors -> ListingRequest]
        /\ lreq'[w].at = "setUserStatus" /\ lreq'[w].on = s
        /\ \A u \in Editors \ {w} : lreq'[u] = lreq[u]
    BY SuspendReadFacts DEF LInv
  <1>3. LTypeOK'
    BY <1>1, <1>2 DEF LInv, LTypeOK
  <1>4. OnInv' /\ SeenInv'
    BY <1>1, <1>2 DEF LInv, OnInv, SeenInv, OnListing
  <1>5. LiveInv'
    BY <1>1 DEF LInv, LiveInv
  <1> QED
    BY <1>3, <1>4, <1>5 DEF LInv

LEMMA FailInv ==
    ASSUME LInv, NEW w \in Editors, Fail(w)
    PROVE  LInv'
  <1>1. Reply(w) /\ UNCHANGED <<vehicle, row, featured, content, approved, active, refs>>
    BY DEF Fail
  <1>2. LTypeOK' /\ LiveInv'
    BY <1>1, ReplyFacts DEF LInv, LTypeOK, LiveInv
  <1> QED
    BY <1>1, <1>2, WriteInv

\* A read of one of the endpoints about a listing.
ReadsListing(w, endpoint, v, by) ==
    /\ Receive(w, endpoint, v, by)
    /\ endpoint # "createVehicle" => row[v] = "live"
    /\ endpoint = "createVehicle" => by = "seller"
    /\ endpoint = "updateListingStatus" => by = "admin"
    /\ endpoint = "createVehicle" =>
           Cardinality(LiveListings(ownerOf[v])) < ListingLimit[ownerOf[v]]

LEMMA ReadsAre ==
    ASSUME NEW w \in Editors, NEW v \in Vehicles,
           \/ CreateVehicleRead(w, v)
           \/ \E by \in {"seller", "admin"} :
                 \/ UpdateVehicleRead(w, v, by) \/ DeleteVehicleRead(w, v, by)
                 \/ ReactivateVehicleRead(w, v, by) \/ MarkAsSoldRead(w, v, by)
           \/ UpdateListingStatusRead(w, v) \/ ToggleFeaturedRead(w, v)
    PROVE  \E endpoint \in OnListing, by \in {"seller", "admin"} :
               ReadsListing(w, endpoint, v, by)
  <1>1. {"createVehicle", "updateVehicle", "deleteVehicle", "reactivateVehicle",
         "markAsSold", "updateListingStatus", "toggleFeatured"} \subseteq OnListing
    BY DEF OnListing, AllEndpoints, SellerEndpoints, AdminEndpoints
  <1>2. CASE CreateVehicleRead(w, v)
    <2>1. ReadsListing(w, "createVehicle", v, "seller")
      BY <1>2 DEF CreateVehicleRead, ReadsListing
    <2> QED
      BY <1>1, <2>1
  <1>3. ASSUME NEW by \in {"seller", "admin"},
               \/ UpdateVehicleRead(w, v, by) \/ DeleteVehicleRead(w, v, by)
               \/ ReactivateVehicleRead(w, v, by) \/ MarkAsSoldRead(w, v, by)
        PROVE  \E endpoint \in OnListing : ReadsListing(w, endpoint, v, by)
    <2>1. \/ ReadsListing(w, "updateVehicle", v, by)
          \/ ReadsListing(w, "deleteVehicle", v, by)
          \/ ReadsListing(w, "reactivateVehicle", v, by)
          \/ ReadsListing(w, "markAsSold", v, by)
      BY <1>3 DEF UpdateVehicleRead, DeleteVehicleRead, ReactivateVehicleRead,
                  MarkAsSoldRead, ReadsListing
    <2> QED
      BY <1>1, <2>1
  <1>4. CASE UpdateListingStatusRead(w, v) \/ ToggleFeaturedRead(w, v)
    <2>1. \/ ReadsListing(w, "updateListingStatus", v, "admin")
          \/ ReadsListing(w, "toggleFeatured", v, "admin")
      BY <1>4 DEF UpdateListingStatusRead, ToggleFeaturedRead, ReadsListing
    <2> QED
      BY <1>1, <2>1
  <1> QED
    BY <1>2, <1>3, <1>4

\* The steps of a request, one way or the other.
LEMMA StepsAre ==
    ASSUME ListingStep
    PROVE  \E w \in Editors :
        \/ \E v \in Vehicles, endpoint \in OnListing, by \in {"seller", "admin"} :
              ReadsListing(w, endpoint, v, by)
        \/ \E s \in Sellers : SetUserStatusRead(w, s)
        \/ CreateVehicleWrite(w) \/ UpdateVehicleWrite(w) \/ DeleteVehicleWrite(w)
        \/ ReactivateVehicleWrite(w) \/ MarkAsSoldWrite(w)
        \/ UpdateListingStatusWrite(w) \/ ToggleFeaturedWrite(w)
        \/ SetUserStatusWrite(w) \/ Fail(w)
  <1>1. PICK w \in Editors :
           \/ \E v \in Vehicles :
                 \/ CreateVehicleRead(w, v)
                 \/ \E by \in {"seller", "admin"} :
                       \/ UpdateVehicleRead(w, v, by) \/ DeleteVehicleRead(w, v, by)
                       \/ ReactivateVehicleRead(w, v, by) \/ MarkAsSoldRead(w, v, by)
                 \/ UpdateListingStatusRead(w, v) \/ ToggleFeaturedRead(w, v)
           \/ \E s \in Sellers : SetUserStatusRead(w, s)
           \/ CreateVehicleWrite(w) \/ UpdateVehicleWrite(w) \/ DeleteVehicleWrite(w)
           \/ ReactivateVehicleWrite(w) \/ MarkAsSoldWrite(w)
           \/ UpdateListingStatusWrite(w) \/ ToggleFeaturedWrite(w)
           \/ SetUserStatusWrite(w) \/ Fail(w)
    BY DEF ListingStep
  <1> QED
    BY <1>1, ReadsAre

LEMMA LInvNext == LInv /\ [LNext]_lvars => LInv'
  <1> SUFFICES ASSUME LInv, [LNext]_lvars PROVE LInv'
    OBVIOUS
  <1>1. CASE ListingStep
    <2>1. ASSUME NEW w \in Editors, NEW v \in Vehicles, NEW endpoint \in OnListing,
                 NEW by \in {"seller", "admin"}, ReadsListing(w, endpoint, v, by)
          PROVE  LInv'
      BY <2>1, ReceiveInv DEF ReadsListing
    <2> QED
      BY <1>1, <2>1, StepsAre, SuspendReadInv, CreateInv, UpdateInv, DeleteInv,
         ReactivateInv, SoldInv, JudgeInv, FeatureInv, SuspendInv, FailInv
  <1>2. ASSUME NEW v \in Vehicles, Refer(v) PROVE LInv'
    <2>1. /\ refs' = refs \cup {v}
          /\ UNCHANGED <<vehicle, row, featured, content, approved, active, lreq>>
      BY <1>2 DEF Refer
    <2> QED
      BY <2>1 DEF LInv, LTypeOK, OnInv, LiveInv, SeenInv
  <1>3. CASE UNCHANGED lvars
    BY <1>3 DEF lvars, LInv, LTypeOK, OnInv, LiveInv, SeenInv
  <1> QED
    BY <1>1, <1>2, <1>3 DEF LNext

\* Types of the rows and the requests (vehicleController.js, adminController.js).
THEOREM ListingTypes == LSpec => []LTypeOK
  BY LInvInit, LInvNext, PTL DEF LSpec, LInv

\* Whatever races with what, nothing is on the market that no administrator
\* has approved (createVehicle, updateVehicle and reactivateVehicle write
\* PENDING; an administrator's edit writes the status it has read).
THEOREM ApprovedFirst == LSpec => []AvailableWasApproved
  <1>1. LInv => AvailableWasApproved
    BY DEF LInv, LiveInv, AvailableWasApproved
  <1> QED
    BY <1>1, LInvInit, LInvNext, PTL DEF LSpec

-----------------------------------------------------------------------------
(* One request at a time.                                                  *)

OneRequest == \A w, u \in Editors : ~Idle(w) /\ ~Idle(u) => u = w

\* What a request has read is still so.
ReadInv ==
    \A w \in Editors : lreq[w].at \in OnListing \ {"createVehicle"} =>
        /\ row[lreq[w].on] = "live"
        /\ lreq[w].seen = vehicle[lreq[w].on]
        /\ lreq[w].rev = content[lreq[w].on]

\* A seller with a request in flight is not suspended; a seller creates and an
\* administrator judges.
ByInv ==
    \A w \in Editors : lreq[w].at \in OnListing =>
        /\ lreq[w].by = "seller" => active[ownerOf[lreq[w].on]]
        /\ lreq[w].at = "createVehicle" => lreq[w].by = "seller"
        /\ lreq[w].at = "updateListingStatus" => lreq[w].by = "admin"

SerialInv == LInv /\ ReadInv /\ ByInv /\ ContentApproved

LEMMA SerialInit == LInit => SerialInv
  <1> SUFFICES ASSUME LInit PROVE SerialInv
    OBVIOUS
  <1>1. /\ \A w \in Editors : lreq[w].at = "idle"
        /\ \A v \in Vehicles : row[v] = "unborn"
    BY NoRequestType DEF LInit
  <1> QED
    BY <1>1, LInvInit
    DEF SerialInv, ReadInv, ByInv, ContentApproved, OnListing, AllEndpoints,
        SellerEndpoints, AdminEndpoints

\* The request that writes is the only one, and none is left.
LEMMA AllIdle ==
    ASSUME LTypeOK, OneRequest, NEW w \in Editors, ~Idle(w), Reply(w)
    PROVE  \A u \in Editors : lreq'[u].at = "idle" /\ (u # w => lreq[u].at = "idle")
  BY ReplyFacts DEF OneRequest, Idle

LEMMA SerialReads ==
    ASSUME SerialInv, OneRequest', NEW w \in Editors, NEW v \in Vehicles,
           NEW endpoint \in OnListing, NEW by \in {"seller", "admin"},
           ReadsListing(w, endpoint, v, by)
    PROVE  SerialInv'
  <1>1. UNCHANGED <<vehicle, row, featured, content, approved, active, refs>>
        /\ (by = "seller" => active[ownerOf[v]])
    BY DEF ReadsListing, Receive
  <1>2. /\ lreq'[w].at = endpoint /\ lreq'[w].on = v /\ lreq'[w].by = by
        /\ lreq'[w].seen = vehicle[v] /\ lreq'[w].rev = content[v]
        /\ \A u \in Editors \ {w} : lreq'[u] = lreq[u]
    BY ReceiveFacts DEF ReadsListing, SerialInv, LInv
  <1>3. LInv'
    BY ReceiveInv DEF ReadsListing, SerialInv
  <1>4. ReadInv' /\ ByInv'
    BY <1>1, <1>2 DEF ReadsListing, SerialInv, ReadInv, ByInv
  <1> QED
    BY <1>1, <1>3, <1>4 DEF SerialInv, ContentApproved

\* After a write nothing is in flight: what is left to show is the content.
LEMMA SerialWrites ==
    ASSUME SerialInv, OneRequest, NEW w \in Editors, ~Idle(w), Reply(w), LInv',
           ContentApproved'
    PROVE  SerialInv'
  <1>1. \A u \in Editors : lreq'[u].at = "idle"
    BY AllIdle DEF SerialInv, LInv
  <1> QED
    BY <1>1 DEF SerialInv, ReadInv, ByInv, OnListing, AllEndpoints, SellerEndpoints,
                AdminEndpoints

\* A listing whose status a request sets, the others keeping theirs.
LEMMA ContentKept ==
    ASSUME SerialInv, NEW w \in Editors, lreq[w].at \in OnListing,
           NEW status, SetStatus(w, status),
           \A v \in Vehicles \ {lreq[w].on} :
               /\ row'[v] = row[v] /\ content'[v] = content[v]
               /\ approved'[v] = approved[v],
           status = "AVAILABLE" =>
               approved'[lreq[w].on] = content'[lreq[w].on]
    PROVE  ContentApproved'
  <1>1. /\ vehicle'[lreq[w].on] = status
        /\ \A v \in Vehicles \ {lreq[w].on} : vehicle'[v] = vehicle[v]
    BY DEF SerialInv, LInv, OnInv, LTypeOK, SetStatus
  <1> QED
    BY <1>1 DEF SerialInv, ContentApproved

LEMMA SerialStep == SerialInv /\ OneRequest /\ OneRequest' /\ [LNext]_lvars => SerialInv'
  <1> SUFFICES ASSUME SerialInv, OneRequest, OneRequest', [LNext]_lvars PROVE SerialInv'
    OBVIOUS
  <1>1. LInv /\ LTypeOK /\ LInv'
    BY LInvNext DEF SerialInv, LInv
  <1>2. OnListing = {"createVehicle", "updateVehicle", "deleteVehicle",
                     "reactivateVehicle", "markAsSold", "updateListingStatus",
                     "toggleFeatured"}
    BY DEF OnListing, AllEndpoints, SellerEndpoints, AdminEndpoints
  <1>3. ASSUME NEW w \in Editors, NEW s \in Sellers, SetUserStatusRead(w, s)
        PROVE  SerialInv'
    <2>1. UNCHANGED <<vehicle, row, featured, content, approved, active, refs>>
      BY <1>3 DEF SetUserStatusRead
    <2>2. lreq'[w].at = "setUserStatus" /\ \A u \in Editors \ {w} : lreq'[u] = lreq[u]
      BY <1>1, <1>3, SuspendReadFacts
    <2> QED
      BY <1>1, <2>1, <2>2 DEF SerialInv, ReadInv, ByInv, ContentApproved, OnListing
  <1>4. ASSUME NEW w \in Editors, CreateVehicleWrite(w) PROVE SerialInv'
    <2>1. /\ lreq[w].at = "createVehicle" /\ Reply(w) /\ SetStatus(w, "PENDING")
          /\ row' = [row EXCEPT ![lreq[w].on] = "live"]
          /\ content' = [content EXCEPT ![lreq[w].on] = 1]
          /\ UNCHANGED approved
      BY <1>4 DEF CreateVehicleWrite
    <2>2. \A v \in Vehicles \ {lreq[w].on} : row'[v] = row[v] /\ content'[v] = content[v]
      BY <1>1, <2>1 DEF LTypeOK
    <2>3. ContentApproved'
      BY <1>2, <2>1, <2>2, ContentKept
    <2> QED
      BY <1>1, <2>1, <2>3, SerialWrites DEF Idle
  <1>5. ASSUME NEW w \in Editors, UpdateVehicleWrite(w) PROVE SerialInv'
    <2> DEFINE v == lreq[w].on
    <2>1. /\ lreq[w].at = "updateVehicle" /\ Reply(w) /\ SetStatus(w, NextStatus(w))
          /\ \/ /\ lreq[w].by = "seller"
                /\ content' = [content EXCEPT ![v] = content[v] + 1]
             \/ lreq[w].by = "admin" /\ UNCHANGED content
          /\ UNCHANGED <<row, approved>>
      BY <1>5 DEF UpdateVehicleWrite, Serving
    <2>2. \A u \in Vehicles \ {v} : content'[u] = content[u]
      BY <1>1, <2>1 DEF LTypeOK
    <2>3. NextStatus(w) = "AVAILABLE" => lreq[w].by = "admin" /\ lreq[w].seen = "AVAILABLE"
      BY <2>1 DEF NextStatus
    <2>4. v \in Vehicles /\ row[v] = "live" /\ lreq[w].seen = vehicle[v]
      BY <1>1, <1>2, <2>1 DEF SerialInv, ReadInv, LInv, OnInv
    <2>5. NextStatus(w) = "AVAILABLE" => approved'[v] = content'[v]
      BY <2>1, <2>3, <2>4 DEF SerialInv, ContentApproved
    <2>6. ContentApproved'
      BY <1>2, <2>1, <2>2, <2>5, ContentKept
    <2> QED
      BY <1>1, <2>1, <2>6, SerialWrites DEF Idle
  <1>6. ASSUME NEW w \in Editors, DeleteVehicleWrite(w) PROVE SerialInv'
    <2>1. /\ lreq[w].at = "deleteVehicle" /\ Reply(w) /\ UNCHANGED <<content, approved>>
          /\ \/ Wipe(w)
             \/ SetStatus(w, "REMOVED") /\ UNCHANGED row
      BY <1>6 DEF DeleteVehicleWrite, SoftClose, Serving
    <2>2. CASE Wipe(w)
      <3>1. UNCHANGED vehicle /\ \A v \in Vehicles : row'[v] = "live" => row[v] = "live"
        BY <1>1, <2>2 DEF Wipe, LTypeOK
      <3>2. ContentApproved'
        BY <2>1, <3>1 DEF SerialInv, ContentApproved
      <3> QED
        BY <1>1, <2>1, <3>2, SerialWrites DEF Idle
    <2>3. CASE SetStatus(w, "REMOVED") /\ UNCHANGED row
      <3>1. ContentApproved'
        BY <1>2, <2>1, <2>3, ContentKept
      <3> QED
        BY <1>1, <2>1, <3>1, SerialWrites DEF Idle
    <2> QED
      BY <2>1, <2>2, <2>3
  <1>7. ASSUME NEW w \in Editors, ReactivateVehicleWrite(w) PROVE SerialInv'
    <2>1. /\ lreq[w].at = "reactivateVehicle" /\ Reply(w) /\ SetStatus(w, "PENDING")
          /\ UNCHANGED <<row, content, approved>>
      BY <1>7 DEF ReactivateVehicleWrite, Serving
    <2>2. ContentApproved'
      BY <1>2, <2>1, ContentKept
    <2> QED
      BY <1>1, <2>1, <2>2, SerialWrites DEF Idle
  <1>8. ASSUME NEW w \in Editors, MarkAsSoldWrite(w) PROVE SerialInv'
    <2>1. /\ lreq[w].at = "markAsSold" /\ Reply(w) /\ SetStatus(w, "SOLD")
          /\ UNCHANGED <<row, content, approved>>
      BY <1>8 DEF MarkAsSoldWrite, Serving
    <2>2. ContentApproved'
      BY <1>2, <2>1, ContentKept
    <2> QED
      BY <1>1, <2>1, <2>2, SerialWrites DEF Idle
  <1>9. ASSUME NEW w \in Editors, UpdateListingStatusWrite(w) PROVE SerialInv'
    <2>1. /\ lreq[w].at = "updateListingStatus" /\ Reply(w) /\ UNCHANGED <<row, content>>
          /\ \/ /\ SetStatus(w, "AVAILABLE")
                /\ approved' = [approved EXCEPT ![lreq[w].on] = lreq[w].rev]
             \/ /\ \E status \in {"REJECTED", "DEACTIVATED"} : SetStatus(w, status)
                /\ UNCHANGED approved
      BY <1>9 DEF UpdateListingStatusWrite, Serving
    <2>2. lreq[w].on \in Vehicles /\ lreq[w].rev = content[lreq[w].on]
      BY <1>1, <1>2, <2>1 DEF SerialInv, ReadInv, LInv, OnInv
    <2>3. CASE /\ SetStatus(w, "AVAILABLE")
               /\ approved' = [approved EXCEPT ![lreq[w].on] = lreq[w].rev]
      <3>1. /\ approved'[lreq[w].on] = content[lreq[w].on]
            /\ \A v \in Vehicles \ {lreq[w].on} : approved'[v] = approved[v]
        BY <1>1, <2>2, <2>3 DEF LTypeOK
      <3>2. ContentApproved'
        BY <1>2, <2>1, <2>3, <3>1, ContentKept
      <3> QED
        BY <1>1, <2>1, <3>2, SerialWrites DEF Idle
    <2>4. ASSUME NEW status \in {"REJECTED", "DEACTIVATED"}, SetStatus(w, status),
                 UNCHANGED approved
          PROVE  SerialInv'
      <3>1. ContentApproved'
        BY <1>2, <2>1, <2>4, ContentKept
      <3> QED
        BY <1>1, <2>1, <3>1, SerialWrites DEF Idle
    <2> QED
      BY <2>1, <2>3, <2>4
  <1>10. ASSUME NEW w \in Editors, ToggleFeaturedWrite(w) \/ Fail(w) PROVE SerialInv'
    <2>1. Reply(w) /\ ~Idle(w) /\ UNCHANGED <<vehicle, row, content, approved>>
      BY <1>10 DEF ToggleFeaturedWrite, Fail, Serving, Idle
    <2> QED
      BY <1>1, <2>1, SerialWrites DEF SerialInv, ContentApproved
  <1>11. ASSUME NEW w \in Editors, SetUserStatusWrite(w) PROVE SerialInv'
    <2>1. /\ Reply(w) /\ ~Idle(w) /\ UNCHANGED <<row, content, approved>>
          /\ \/ UNCHANGED vehicle
             \/ vehicle' = [v \in Vehicles |->
                   IF v \in TakenDown(lreq[w].on) THEN "DEACTIVATED" ELSE vehicle[v]]
      BY <1>11 DEF SetUserStatusWrite, Idle
    <2>2. \A v \in Vehicles : vehicle'[v] = "AVAILABLE" => vehicle[v] = "AVAILABLE"
      BY <2>1
    <2> QED
      BY <1>1, <2>1, <2>2, SerialWrites DEF SerialInv, ContentApproved
  <1>12. CASE UNCHANGED lvars \/ \E v \in Vehicles : Refer(v)
    <2>1. UNCHANGED <<vehicle, row, content, approved, active, lreq>>
      BY <1>12 DEF lvars, Refer
    <2> QED
      BY <1>1, <2>1 DEF SerialInv, ReadInv, ByInv, ContentApproved
  <1> QED
    BY <1>3, <1>4, <1>5, <1>6, <1>7, <1>8, <1>9, <1>10, <1>11, <1>12, StepsAre,
       SerialReads DEF LNext

\* While requests are served one at a time, what is on the market is what an
\* administrator approved, to the last edit (updateVehicle sends a seller's
\* edit back to the queue).
THEOREM ContentFirst == LSpec /\ []OneRequest => []ContentApproved
  <1>1. SerialInv => ContentApproved
    BY DEF SerialInv
  <1> QED
    BY <1>1, SerialInit, SerialStep, PTL DEF LSpec

-----------------------------------------------------------------------------
(* What is closed stays closed.                                            *)

StaysClosed == SoldSurvives /\ WipesClosed /\ ListsWhileActive

LEMMA ClosedKept ==
    ASSUME UNCHANGED <<vehicle, row, active>>
    PROVE  StaysClosed
  BY DEF StaysClosed, SoldSurvives, WipesClosed, ListsWhileActive, Counted

\* A request sets the status of a listing: an edit keeps a sale, and a listing
\* of a suspended seller comes back at the hands of an administrator only.
LEMMA ClosedStatus ==
    ASSUME SerialInv, OneRequest, NEW w \in Editors, lreq[w].at \in OnListing, Reply(w),
           NEW status, SetStatus(w, status), UNCHANGED active,
           \A v \in Vehicles : row'[v] = row[v] \/ (v = lreq[w].on /\ row'[v] = "live"),
           lreq[w].at = "updateVehicle" /\ vehicle[lreq[w].on] = "SOLD" => status = "SOLD"
    PROVE  StaysClosed
  <1>1. /\ lreq[w].on \in Vehicles
        /\ vehicle'[lreq[w].on] = status
        /\ \A v \in Vehicles \ {lreq[w].on} : vehicle'[v] = vehicle[v]
    BY DEF SerialInv, LInv, OnInv, LTypeOK, SetStatus
  <1>2. /\ lreq'[w].at = "idle" /\ \A u \in Editors \ {w} : lreq[u].at = "idle"
        /\ lreq[w].by \in {"seller", "admin"}
    BY AllIdle DEF SerialInv, LInv, LTypeOK, ListingRequest, OnListing, AllEndpoints,
                   SellerEndpoints, AdminEndpoints, Idle
  <1>3. SoldSurvives
    BY <1>1, <1>2 DEF SoldSurvives
  <1>4. WipesClosed
    BY DEF WipesClosed
  <1>5. ListsWhileActive
    <2> SUFFICES ASSUME NEW v \in Vehicles, ~active'[ownerOf[v]], row'[v] = "live"
                 PROVE  \/ vehicle[v] = vehicle'[v] /\ row[v] = "live" /\ ~active[ownerOf[v]]
                        \/ \E u \in Editors : /\ lreq[u].by = "admin" /\ lreq[u].on = v
                                              /\ lreq'[u].at = "idle"
      BY DEF ListsWhileActive
    <2>1. CASE v = lreq[w].on
      BY <1>2, <2>1 DEF SerialInv, ByInv
    <2>2. CASE v # lreq[w].on
      BY <1>1, <2>2
    <2> QED
      BY <2>1, <2>2
  <1> QED
    BY <1>3, <1>4, <1>5 DEF StaysClosed

\* The wipe takes the listing that the request has seen closed.
LEMMA ClosedWipe ==
    ASSUME SerialInv, OneRequest, NEW w \in Editors, lreq[w].at = "deleteVehicle",
           lreq[w].seen \in Closed, Wipe(w), Reply(w), UNCHANGED active
    PROVE  StaysClosed
  <1>1. /\ lreq[w].on \in Vehicles /\ vehicle[lreq[w].on] \in Closed
    BY DEF SerialInv, ReadInv, LInv, OnInv, OnListing, AllEndpoints, SellerEndpoints
  <1>2. /\ UNCHANGED vehicle
        /\ \A v \in Vehicles : row'[v] = row[v] \/ (v = lreq[w].on /\ row'[v] = "gone")
    BY <1>1 DEF Wipe, SerialInv, LInv, LTypeOK
  <1> QED
    BY <1>1, <1>2 DEF StaysClosed, SoldSurvives, WipesClosed, ListsWhileActive

\* A seller's suspension takes down what counts.
LEMMA ClosedSuspend ==
    ASSUME SerialInv, OneRequest, NEW w \in Editors, SetUserStatusWrite(w)
    PROVE  StaysClosed
  <1> DEFINE s == lreq[w].on
  <1>1. /\ lreq[w].at = "setUserStatus" /\ Reply(w) /\ UNCHANGED row
        /\ \/ /\ active' = [active EXCEPT ![s] = FALSE]
              /\ vehicle' = [v \in Vehicles |->
                    IF v \in TakenDown(s) THEN "DEACTIVATED" ELSE vehicle[v]]
              /\ featured' = [v \in Vehicles |-> featured[v] /\ v \notin TakenDown(s)]
           \/ active' = [active EXCEPT ![s] = TRUE] /\ UNCHANGED vehicle
    BY DEF SetUserStatusWrite
  <1>2. /\ \A u \in Editors \ {w} : lreq[u].at = "idle"
        /\ LTypeOK /\ s \in Sellers
    BY <1>1, AllIdle DEF SerialInv, LInv, OnInv, Idle
  <1>3. SoldSurvives /\ WipesClosed
    BY <1>1, <1>2 DEF SoldSurvives, WipesClosed
  <1>4. ListsWhileActive
    <2> SUFFICES ASSUME NEW v \in Vehicles, ~active'[ownerOf[v]], row'[v] = "live",
                        vehicle'[v] \in Counted
                 PROVE  vehicle[v] = vehicle'[v] /\ row[v] = "live" /\ ~active[ownerOf[v]]
      BY DEF ListsWhileActive
    <2>1. CASE active' = [active EXCEPT ![s] = TRUE] /\ UNCHANGED vehicle
      <3>1. ownerOf[v] # s
        BY <1>2, <2>1 DEF LTypeOK
      <3> QED
        BY <1>1, <2>1, <3>1 DEF LTypeOK
    <2>2. CASE /\ active' = [active EXCEPT ![s] = FALSE]
               /\ vehicle' = [u \in Vehicles |->
                     IF u \in TakenDown(s) THEN "DEACTIVATED" ELSE vehicle[u]]
               /\ featured' = [u \in Vehicles |-> featured[u] /\ u \notin TakenDown(s)]
      <3>1. vehicle'[v] = IF row[v] = "live" /\ ownerOf[v] = s /\ vehicle[v] \in Counted
                          THEN "DEACTIVATED" ELSE vehicle[v]
        BY <1>2, <2>2, SuspendFacts
      <3>2. vehicle'[v] = vehicle[v] /\ ownerOf[v] # s
        BY <1>1, <3>1 DEF Counted
      <3> QED
        BY <1>1, <1>2, <2>2, <3>2 DEF LTypeOK
    <2> QED
      BY <1>1, <2>1, <2>2
  <1> QED
    BY <1>3, <1>4 DEF StaysClosed

LEMMA ClosedStep ==
    ASSUME SerialInv, OneRequest, [LNext]_lvars
    PROVE  [StaysClosed]_lvars
  <1>1. OnListing = {"createVehicle", "updateVehicle", "deleteVehicle",
                     "reactivateVehicle", "markAsSold", "updateListingStatus",
                     "toggleFeatured"}
    BY DEF OnListing, AllEndpoints, SellerEndpoints, AdminEndpoints
  <1>2. ASSUME NEW w \in Editors, CreateVehicleWrite(w) PROVE StaysClosed
    <2>1. /\ lreq[w].at = "createVehicle" /\ Reply(w) /\ SetStatus(w, "PENDING")
          /\ row' = [row EXCEPT ![lreq[w].on] = "live"] /\ UNCHANGED active
      BY <1>2 DEF CreateVehicleWrite
    <2>2. \A v \in Vehicles : row'[v] = row[v] \/ (v = lreq[w].on /\ row'[v] = "live")
      BY <2>1 DEF SerialInv, LInv, LTypeOK
    <2> QED
      BY <1>1, <2>1, <2>2, ClosedStatus
  <1>3. ASSUME NEW w \in Editors, UpdateVehicleWrite(w) PROVE StaysClosed
    <2>1. /\ lreq[w].at = "updateVehicle" /\ Reply(w) /\ SetStatus(w, NextStatus(w))
          /\ UNCHANGED <<row, active>>
      BY <1>3 DEF UpdateVehicleWrite, Serving
    <2>2. vehicle[lreq[w].on] = "SOLD" => NextStatus(w) = "SOLD"
      BY <1>1, <2>1 DEF SerialInv, ReadInv, NextStatus
    <2> QED
      BY <1>1, <2>1, <2>2, ClosedStatus
  <1>4. ASSUME NEW w \in Editors, DeleteVehicleWrite(w) PROVE StaysClosed
    <2>1. /\ lreq[w].at = "deleteVehicle" /\ Reply(w) /\ UNCHANGED active
          /\ \/ lreq[w].seen \in Closed /\ Wipe(w)
             \/ SetStatus(w, "REMOVED") /\ UNCHANGED row
      BY <1>4 DEF DeleteVehicleWrite, SoftClose, Serving
    <2> QED
      BY <1>1, <2>1, ClosedStatus, ClosedWipe
  <1>5. ASSUME NEW w \in Editors, ReactivateVehicleWrite(w) \/ MarkAsSoldWrite(w)
        PROVE  StaysClosed
    <2>1. /\ lreq[w].at \in {"reactivateVehicle", "markAsSold"} /\ Reply(w)
          /\ SetStatus(w, "PENDING") \/ SetStatus(w, "SOLD")
          /\ UNCHANGED <<row, active>>
      BY <1>5 DEF ReactivateVehicleWrite, MarkAsSoldWrite, Serving
    <2> QED
      BY <1>1, <2>1, ClosedStatus
  <1>6. ASSUME NEW w \in Editors, UpdateListingStatusWrite(w) PROVE StaysClosed
    <2>1. /\ lreq[w].at = "updateListingStatus" /\ Reply(w) /\ UNCHANGED <<row, active>>
          /\ \E status \in {"AVAILABLE", "REJECTED", "DEACTIVATED"} : SetStatus(w, status)
      BY <1>6 DEF UpdateListingStatusWrite, Serving
    <2> QED
      BY <1>1, <2>1, ClosedStatus
  <1>7. ASSUME NEW w \in Editors, ToggleFeaturedWrite(w) \/ Fail(w) PROVE StaysClosed
    BY <1>7, ClosedKept DEF ToggleFeaturedWrite, Fail
  <1>8. ASSUME NEW w \in Editors, NEW v, NEW endpoint, NEW by,
               ReadsListing(w, endpoint, v, by) \/ SetUserStatusRead(w, v)
        PROVE  StaysClosed
    BY <1>8, ClosedKept DEF ReadsListing, Receive, SetUserStatusRead
  <1>9. ASSUME NEW v \in Vehicles, Refer(v) PROVE StaysClosed
    BY <1>9, ClosedKept DEF Refer
  <1> QED
    BY <1>2, <1>3, <1>4, <1>5, <1>6, <1>7, <1>8, <1>9, ClosedSuspend, StepsAre DEF LNext

\* While requests are served one at a time, an edit never resurrects a sale,
\* only a closed listing is wiped, and a suspended seller's listing comes back
\* at the hands of an administrator only (vehicleController.js, protect of
\* authMiddleware.js).
THEOREM ClosedForGood == LSpec /\ []OneRequest => ListingsStayClosed
  <1>1. SerialInv /\ OneRequest /\ [LNext]_lvars => [StaysClosed]_lvars
    BY ClosedStep
  <1>2. [][StaysClosed]_lvars => ListingsStayClosed
    BY PTL DEF StaysClosed, ListingsStayClosed
  <1> QED
    BY <1>1, <1>2, SerialInit, SerialStep, PTL DEF LSpec
-----------------------------------------------------------------------------
(* The limit of the plan.                                                  *)

\* The endpoints that bring back none of the listings that do not count.
Keeping ==
    {"createVehicle", "deleteVehicle", "markAsSold", "toggleFeatured", "setUserStatus"}

LimitConstants ==
    /\ ListingConstants
    /\ IsFiniteSet(Vehicles) /\ IsFiniteSet(Editors)
    /\ ListingHandlers \subseteq Keeping

\* The creations of seller s that have passed the limit and are not stored.
Creating(s) ==
    {w \in Editors : lreq[w].at = "createVehicle" /\ ownerOf[lreq[w].on] = s}

\* The listings there are and the listings there will be.
Total(s) == Cardinality(LiveListings(s)) + Cardinality(Creating(s))

KeepingInv == \A w \in Editors : lreq[w].at \in Keeping \cup {"idle"}

\* A seller exceeds the plan by fewer listings than requests can race.
FewOverLimit ==
    \A s \in Sellers :
        Cardinality(LiveListings(s)) < ListingLimit[s] + Cardinality(Editors)

RacingInv ==
    /\ LInv /\ KeepingInv
    /\ \A s \in Sellers : Total(s) < ListingLimit[s] + Cardinality(Editors)

LimitInv ==
    /\ LInv /\ KeepingInv
    /\ \A s \in Sellers : Total(s) <= ListingLimit[s]

LEMMA TotalType ==
    ASSUME LimitConstants, NEW s \in Sellers
    PROVE  /\ IsFiniteSet(LiveListings(s)) /\ IsFiniteSet(Creating(s))
           /\ Cardinality(LiveListings(s)) \in Nat /\ Cardinality(Creating(s)) \in Nat
           /\ Cardinality(Editors) \in Nat /\ ListingLimit[s] \in Nat
           /\ Cardinality(Creating(s)) <= Cardinality(Editors)
  <1>1. LiveListings(s) \subseteq Vehicles /\ Creating(s) \subseteq Editors
    BY DEF LiveListings, Creating
  <1>2. IsFiniteSet(Vehicles) /\ IsFiniteSet(Editors) /\ ListingLimit[s] \in Nat
    BY DEF LimitConstants, ListingConstants
  <1> QED
    BY <1>1, <1>2, FS_Subset, FS_CardinalityType

\* The same of the state after a step.
LEMMA TotalLater ==
    ASSUME LimitConstants, NEW s \in Sellers
    PROVE  /\ Cardinality(LiveListings(s)') \in Nat /\ Cardinality(Creating(s)') \in Nat
           /\ Cardinality(Creating(s)') <= Cardinality(Editors)
  <1>1. LiveListings(s)' \subseteq Vehicles /\ Creating(s)' \subseteq Editors
    BY DEF LiveListings, Creating
  <1>2. IsFiniteSet(Vehicles) /\ IsFiniteSet(Editors)
    BY DEF LimitConstants
  <1> QED
    BY <1>1, <1>2, FS_Subset, FS_CardinalityType

\* Of one request in flight at most one is a creation.
LEMMA OneCreates ==
    ASSUME LimitConstants, NEW s \in Sellers, OneRequest'
    PROVE  Cardinality(Creating(s)') <= 1
  <1>1. \A w, u \in Creating(s)' : u = w
    BY DEF OneRequest, Idle, Creating
  <1>2. CASE Creating(s)' = {}
    BY <1>2, FS_EmptySet
  <1>3. ASSUME NEW w \in Creating(s)' PROVE Cardinality(Creating(s)') = 1
    <2>1. Creating(s)' = {w}
      BY <1>1, <1>3
    <2> QED
      BY <2>1, FS_Singleton
  <1> QED
    BY <1>2, <1>3

\* Of smaller sets the total is smaller.
LEMMA TotalShrinks ==
    ASSUME LimitConstants, NEW s \in Sellers,
           LiveListings(s)' \subseteq LiveListings(s), Creating(s)' \subseteq Creating(s)
    PROVE  Total(s)' <= Total(s)
  <1>1. /\ Cardinality(LiveListings(s)') <= Cardinality(LiveListings(s))
        /\ Cardinality(Creating(s)') <= Cardinality(Creating(s))
        /\ IsFiniteSet(LiveListings(s)') /\ IsFiniteSet(Creating(s)')
    BY TotalType, FS_Subset
  <1>2. Cardinality(LiveListings(s)') \in Nat /\ Cardinality(Creating(s)') \in Nat
    BY <1>1, FS_CardinalityType
  <1> QED
    BY <1>1, <1>2, TotalType DEF Total

\* A creation is stored: a listing more, a request less.
LEMMA CreateTotal ==
    ASSUME LimitConstants, LInv, NEW s \in Sellers, NEW w \in Editors,
           CreateVehicleWrite(w)
    PROVE  Total(s)' <= Total(s)
  <1> DEFINE c == lreq[w].on
  <1>1. /\ lreq[w].at = "createVehicle" /\ Reply(w)
        /\ row' = [row EXCEPT ![c] = "live"] /\ vehicle' = [vehicle EXCEPT ![c] = "PENDING"]
    BY DEF CreateVehicleWrite, SetStatus
  <1>2. /\ lreq'[w].at = "idle" /\ \A u \in Editors \ {w} : lreq'[u] = lreq[u]
        /\ c \in Vehicles
    BY <1>1, ReplyFacts DEF LInv, OnInv, OnListing, AllEndpoints, SellerEndpoints
  <1>3. \A v \in Vehicles \ {c} : row'[v] = row[v] /\ vehicle'[v] = vehicle[v]
    BY <1>1 DEF LInv, LTypeOK
  <1>4. CASE ownerOf[c] # s
    <2>1. LiveListings(s)' \subseteq LiveListings(s) /\ Creating(s)' \subseteq Creating(s)
      BY <1>2, <1>3, <1>4 DEF LiveListings, Creating
    <2> QED
      BY <2>1, TotalShrinks
  <1>5. CASE ownerOf[c] = s
    <2> DEFINE live == LiveListings(s) \cup {c}
               left == Creating(s) \ {w}
    <2>1. w \in Creating(s) /\ Creating(s)' = left
      BY <1>1, <1>2, <1>5 DEF Creating
    <2>2. LiveListings(s)' \subseteq live
      BY <1>2, <1>3 DEF LiveListings
    <2>3. /\ IsFiniteSet(live) /\ Cardinality(live) <= Cardinality(LiveListings(s)) + 1
          /\ Cardinality(left) = Cardinality(Creating(s)) - 1
      <3>1. /\ IsFiniteSet(live)
            /\ Cardinality(live) = IF c \in LiveListings(s) THEN Cardinality(LiveListings(s))
                                   ELSE Cardinality(LiveListings(s)) + 1
        BY TotalType, FS_AddElement
      <3>2. Cardinality(left) = IF w \in Creating(s) THEN Cardinality(Creating(s)) - 1
                                ELSE Cardinality(Creating(s))
        BY TotalType, FS_RemoveElement
      <3> HIDE DEF live, left
      <3> QED
        BY <2>1, <3>1, <3>2, TotalType
    <2>4. Cardinality(LiveListings(s)') \in Nat
          /\ Cardinality(LiveListings(s)') <= Cardinality(live)
          /\ Cardinality(live) \in Nat
      BY <2>2, <2>3, FS_Subset, FS_CardinalityType
    <2> HIDE DEF live, left
    <2> QED
      BY <2>1, <2>3, <2>4, TotalType DEF Total
  <1> QED
    BY <1>4, <1>5

\* A creation passes the limit.
LEMMA PassTotal ==
    ASSUME LimitConstants, LInv, NEW w \in Editors, NEW v \in Vehicles,
           NEW by \in {"seller", "admin"}, ReadsListing(w, "createVehicle", v, by),
           NEW s \in Sellers
    PROVE  \/ Total(s)' <= Total(s)
           \/ /\ LiveListings(s)' = LiveListings(s)
              /\ Cardinality(LiveListings(s)) < ListingLimit[s]
  <1>1. UNCHANGED <<vehicle, row>>
        /\ Cardinality(LiveListings(ownerOf[v])) < ListingLimit[ownerOf[v]]
    BY DEF ReadsListing, Receive
  <1>2. LiveListings(s)' = LiveListings(s)
    BY <1>1 DEF LiveListings
  <1>3. CASE ownerOf[v] = s
    BY <1>1, <1>2, <1>3
  <1>4. CASE ownerOf[v] # s
    <2>1. /\ lreq'[w].on = v /\ \A u \in Editors \ {w} : lreq'[u] = lreq[u]
      BY ReceiveFacts DEF ReadsListing, LInv, OnListing, AllEndpoints, SellerEndpoints
    <2>2. Creating(s)' \subseteq Creating(s)
      BY <1>4, <2>1 DEF Creating
    <2> QED
      BY <1>2, <2>2, TotalShrinks
  <1> QED
    BY <1>3, <1>4

\* The writes of the other endpoints bring nothing back.
LEMMA CloseTotal ==
    ASSUME LimitConstants, LInv, NEW w \in Editors, NEW s \in Sellers,
           DeleteVehicleWrite(w) \/ MarkAsSoldWrite(w) \/ ToggleFeaturedWrite(w)
           \/ SetUserStatusWrite(w) \/ Fail(w)
    PROVE  Total(s)' <= Total(s)
  <1>1. Reply(w)
    BY DEF DeleteVehicleWrite, MarkAsSoldWrite, ToggleFeaturedWrite, SetUserStatusWrite, Fail
  <1>2. Creating(s)' \subseteq Creating(s)
    BY <1>1, ReplyFacts DEF LInv, Creating
  <1>3. \A v \in Vehicles : vehicle'[v] \in Counted => vehicle'[v] = vehicle[v]
    <2>1. CASE UNCHANGED vehicle
      BY <2>1
    <2>2. CASE \E status \in {"REMOVED", "SOLD"} : SetStatus(w, status)
      BY <2>2 DEF SetStatus, Counted, LInv, LTypeOK
    <2>3. CASE SetUserStatusWrite(w)
      BY <2>1, <2>3, SuspendFacts DEF SetUserStatusWrite, LInv, Counted
    <2> QED
      BY <2>1, <2>2, <2>3
         DEF DeleteVehicleWrite, SoftClose, Wipe, MarkAsSoldWrite, ToggleFeaturedWrite, Fail
  <1>4. \A v \in Vehicles : row'[v] = "live" => row[v] = "live"
    BY DEF DeleteVehicleWrite, SoftClose, Wipe, MarkAsSoldWrite, ToggleFeaturedWrite,
           SetUserStatusWrite, Fail, LInv, LTypeOK
  <1>5. LiveListings(s)' \subseteq LiveListings(s)
    BY <1>3, <1>4 DEF LiveListings
  <1> QED
    BY <1>2, <1>5, TotalShrinks

\* A step adds to the total only when it has found room for a listing.
LEMMA LimitStep ==
    ASSUME LimitConstants, LInv, KeepingInv, [LNext]_lvars, NEW s \in Sellers
    PROVE  \/ Total(s)' <= Total(s)
           \/ /\ LiveListings(s)' = LiveListings(s)
              /\ Cardinality(LiveListings(s)) < ListingLimit[s]
  <1>1. ASSUME NEW w \in Editors, NEW v \in Vehicles, NEW endpoint \in OnListing,
               NEW by \in {"seller", "admin"}, ReadsListing(w, endpoint, v, by),
               endpoint # "createVehicle"
        PROVE  Total(s)' <= Total(s)
    <2>1. UNCHANGED <<vehicle, row>>
      BY <1>1 DEF ReadsListing, Receive
    <2>2. /\ lreq'[w].at = endpoint /\ \A u \in Editors \ {w} : lreq'[u] = lreq[u]
      BY <1>1, ReceiveFacts DEF ReadsListing, LInv
    <2>3. LiveListings(s)' \subseteq LiveListings(s) /\ Creating(s)' \subseteq Creating(s)
      BY <1>1, <2>1, <2>2 DEF LiveListings, Creating
    <2> QED
      BY <2>3, TotalShrinks
  <1>2. ASSUME NEW w \in Editors, NEW u \in Sellers, SetUserStatusRead(w, u)
        PROVE  Total(s)' <= Total(s)
    <2>1. UNCHANGED <<vehicle, row>>
      BY <1>2 DEF SetUserStatusRead
    <2>2. /\ lreq'[w].at = "setUserStatus" /\ \A e \in Editors \ {w} : lreq'[e] = lreq[e]
      BY <1>2, SuspendReadFacts DEF LInv
    <2>3. LiveListings(s)' \subseteq LiveListings(s) /\ Creating(s)' \subseteq Creating(s)
      BY <2>1, <2>2 DEF LiveListings, Creating
    <2> QED
      BY <2>3, TotalShrinks
  <1>3. ASSUME NEW w \in Editors
        PROVE  ~UpdateVehicleWrite(w) /\ ~ReactivateVehicleWrite(w)
               /\ ~UpdateListingStatusWrite(w)
    BY DEF UpdateVehicleWrite, ReactivateVehicleWrite, UpdateListingStatusWrite, Serving,
           KeepingInv, Keeping
  <1>4. CASE ListingStep
    BY <1>1, <1>2, <1>3, <1>4, StepsAre, PassTotal, CreateTotal, CloseTotal
  <1>5. CASE UNCHANGED <<vehicle, row, lreq>>
    <2>1. LiveListings(s)' \subseteq LiveListings(s) /\ Creating(s)' \subseteq Creating(s)
      BY <1>5 DEF LiveListings, Creating
    <2> QED
      BY <2>1, TotalShrinks
  <1> QED
    BY <1>4, <1>5 DEF LNext, Refer, lvars

LEMMA KeepingStep ==
    ASSUME LimitConstants, LInv, KeepingInv, [LNext]_lvars
    PROVE  KeepingInv'
  <1>1. ASSUME NEW w \in Editors, Reply(w) PROVE KeepingInv'
    BY <1>1, ReplyFacts DEF LInv, KeepingInv
  <1>2. ASSUME NEW w \in Editors, NEW v \in Vehicles, NEW endpoint \in OnListing,
               NEW by \in {"seller", "admin"}, ReadsListing(w, endpoint, v, by)
        PROVE  KeepingInv'
    <2>1. endpoint \in ListingHandlers /\ ListingHandlers \subseteq Keeping
      BY <1>2 DEF ReadsListing, Receive, LimitConstants
    <2>2. /\ lreq'[w].at = endpoint /\ \A u \in Editors \ {w} : lreq'[u] = lreq[u]
      BY <1>2, ReceiveFacts DEF ReadsListing, LInv
    <2> QED
      BY <2>1, <2>2 DEF KeepingInv
  <1>3. ASSUME NEW w \in Editors, NEW u \in Sellers, SetUserStatusRead(w, u)
        PROVE  KeepingInv'
    BY <1>3, SuspendReadFacts DEF LInv, KeepingInv, Keeping
  <1>4. CASE ListingStep
    BY <1>1, <1>2, <1>3, <1>4, StepsAre
       DEF CreateVehicleWrite, UpdateVehicleWrite, DeleteVehicleWrite,
           ReactivateVehicleWrite, MarkAsSoldWrite, UpdateListingStatusWrite,
           ToggleFeaturedWrite, SetUserStatusWrite, Fail
  <1>5. CASE UNCHANGED lreq
    BY <1>5 DEF KeepingInv
  <1> QED
    BY <1>4, <1>5 DEF LNext, Refer, lvars

LEMMA LimitStart ==
    ASSUME LimitConstants, LInit, NEW s \in Sellers
    PROVE  KeepingInv /\ Total(s) = 0
  <1>1. LiveListings(s) = {} /\ Creating(s) = {} /\ KeepingInv
    BY NoRequestType DEF LInit, LiveListings, Creating, KeepingInv
  <1> QED
    BY <1>1, FS_EmptySet DEF Total

\* However creations race, a seller has fewer listings than the plan allows and
\* requests can be in flight together: createVehicle counts before it inserts,
\* and each creation in flight can have counted without the others.  Of the
\* endpoints that bring a listing back (an edit, a reactivation, a verdict) none
\* counts at all, and none is among the handlers here.
THEOREM RacesOverLimit ==
    ASSUME LimitConstants, Editors # {}
    PROVE  LSpec => []FewOverLimit
  <1>1. LInit => RacingInv
    <2> SUFFICES ASSUME LInit PROVE RacingInv
      OBVIOUS
    <2>1. Cardinality(Editors) > 0
      BY TotalType, FS_EmptySet, FS_CardinalityType DEF LimitConstants
    <2>2. KeepingInv
      BY NoRequestType DEF LInit, KeepingInv
    <2>3. \A s \in Sellers : Total(s) = 0
      BY LimitStart
    <2> QED
      BY <2>1, <2>2, <2>3, LInvInit, TotalType DEF RacingInv
  <1>2. RacingInv /\ [LNext]_lvars => RacingInv'
    <2> SUFFICES ASSUME RacingInv, [LNext]_lvars PROVE RacingInv'
      OBVIOUS
    <2>1. ASSUME NEW s \in Sellers
          PROVE  Total(s)' < ListingLimit[s] + Cardinality(Editors)
      <3>1. CASE Total(s)' <= Total(s)
        <4>1. Total(s)' \in Nat /\ Total(s) \in Nat
          BY TotalType, TotalLater DEF Total
        <4> QED
          BY <3>1, <4>1, TotalType DEF RacingInv
      <3>2. CASE /\ LiveListings(s)' = LiveListings(s)
                 /\ Cardinality(LiveListings(s)) < ListingLimit[s]
        BY <3>2, TotalType, TotalLater DEF Total
      <3> QED
        BY <3>1, <3>2, LimitStep DEF RacingInv
    <2> QED
      BY <2>1, LInvNext, KeepingStep DEF RacingInv
  <1>3. RacingInv => FewOverLimit
    BY TotalType DEF RacingInv, FewOverLimit, Total
  <1> QED
    BY <1>1, <1>2, <1>3, PTL DEF LSpec

\* While requests are served one at a time, creations, closures and sales keep
\* the limit of the plan: the count and the insert of createVehicle are then one.
THEOREM LimitCorrect ==
    ASSUME LimitConstants
    PROVE  LSpec /\ []OneRequest => []WithinLimit
  <1>1. LInit => LimitInv
    <2> SUFFICES ASSUME LInit PROVE LimitInv
      OBVIOUS
    <2>1. KeepingInv
      BY NoRequestType DEF LInit, KeepingInv
    <2> QED
      BY <2>1, LInvInit, LimitStart, TotalType DEF LimitInv
  <1>2. LimitInv /\ OneRequest' /\ [LNext]_lvars => LimitInv'
    <2> SUFFICES ASSUME LimitInv, OneRequest', [LNext]_lvars PROVE LimitInv'
      OBVIOUS
    <2>1. ASSUME NEW s \in Sellers PROVE Total(s)' <= ListingLimit[s]
      <3>1. CASE Total(s)' <= Total(s)
        <4>1. Total(s)' \in Nat /\ Total(s) \in Nat
          BY TotalType, TotalLater DEF Total
        <4> QED
          BY <3>1, <4>1, TotalType DEF LimitInv
      <3>2. CASE /\ LiveListings(s)' = LiveListings(s)
                 /\ Cardinality(LiveListings(s)) < ListingLimit[s]
        <4>1. Cardinality(Creating(s)') <= 1
          BY OneCreates
        <4> QED
          BY <3>2, <4>1, TotalType, TotalLater DEF Total
      <3> QED
        BY <3>1, <3>2, LimitStep DEF LimitInv
    <2> QED
      BY <2>1, LInvNext, KeepingStep DEF LimitInv
  <1>3. LimitInv => WithinLimit
    BY TotalType DEF LimitInv, WithinLimit, Total
  <1> QED
    BY <1>1, <1>2, <1>3, PTL DEF LSpec
=============================================================================
