-------------------------------- MODULE Listings --------------------------------
(***************************************************************************)
(* Advertising stock on listing channels: requests that change the listing *)
(* and leave an event in the outbox, the dispatcher that carries each      *)
(* event to the provider, and reconciliation with what the provider says.  *)
(*                                                                         *)
(* Source: packages/inventory/src/listings.ts and the simulated provider   *)
(* in providers.ts, which is the port of every deployment.                 *)
(*                                                                         *)
(* A request locks the stock item or the listing and is one action.  A     *)
(* dispatcher claims the oldest event that no other one holds (FOR UPDATE  *)
(* SKIP LOCKED), so a later event may be answered first, and two events    *)
(* may carry another order of occurred_at than they were committed in:     *)
(* any due event may be the next.  The dispatcher calls the provider       *)
(* inside the transaction and commits the listing, the delivery ledger and *)
(* the event together; a deferral or a failure rolls all of it back and is *)
(* written in a second transaction, and the dispatcher may stop between    *)
(* the two.  The back-off is counted in ticks left.                        *)
(***************************************************************************)
EXTENDS Stock

CONSTANTS
    Channel,    \* listing channels
    SLOW_CHANNEL,
    MaxEvent,   \* bound: outbox events
    MaxFailure  \* bound: dispatches that fail or stop before they commit

ASSUME ListingAssumption == MaxEvent \in Nat /\ MaxFailure \in Nat

VARIABLES
    listings,      \* stock_listings by stock item and channel, NoListing where there is none
    listingOutbox, \* the inventory.listing.* events of admin_outbox, in order of commitment
    failed,        \* the events whose failure is to be written, with the attempt it tells, 0 for none
    listingEvents, \* listing_events
    failures       \* how many dispatches have failed so far

listingVars == <<listings, listingOutbox, failed, listingEvents, failures>>

ListingState == {"draft", "publish_pending", "published", "withdraw_pending", "withdrawn", "rejected"}
LISTED == {"publish_pending", "published", "withdraw_pending"}

ListingView == [state : ListingState, externalRef : BOOLEAN, attempts : Nat]
NoListing == [state |-> "none", externalRef |-> FALSE, attempts |-> 0]
Listing == Stock \X Channel

OutboxEvent ==
    [listing : Listing, type : {"publish", "withdraw"}, attempts : Nat, wait : Nat, delivered : BOOLEAN]

Listed(s) == \E c \in Channel : listings[<<s, c>>].state \in LISTED

--------------------------------------------------------------------------------
(* Requests *)

Enqueue(l, type) ==
    Append(listingOutbox, [listing |-> l, type |-> type, attempts |-> 0, wait |-> 0, delivered |-> FALSE])

requestListingPublication(s, c) ==
    /\ s \in Item /\ stockItems[s].state = "retail_ready"
    /\ holds[s] = NoHold
    /\ Priced(s) /\ PhotoCount(s) > 0
    /\ Len(listingOutbox) < MaxEvent
    /\ listings' = [listings EXCEPT ![<<s, c>>].state = "publish_pending"]
    /\ listingOutbox' = Enqueue(<<s, c>>, "publish")
    /\ UNCHANGED <<partyVars, stockVars, failed, listingEvents, failures>>

\* Withdrawing what is withdrawn, or never was asked for, converges and changes nothing.
requestListingWithdrawal(l) ==
    /\ listings[l].state \notin {"none", "withdrawn", "draft"}
    /\ Len(listingOutbox) < MaxEvent
    /\ listings' = [listings EXCEPT ![l].state = "withdraw_pending"]
    /\ listingOutbox' = Enqueue(l, "withdraw")
    /\ UNCHANGED <<partyVars, stockVars, failed, listingEvents, failures>>

retire(s) == transitionStock(s, "retired", Listed(s)) /\ UNCHANGED listingVars
advance(s, to) == to # "retired" /\ transitionStock(s, to, Listed(s)) /\ UNCHANGED listingVars

--------------------------------------------------------------------------------
(* The simulated provider *)

\* What the provider is shown of the listing.
buildSubmission(l, attempt) ==
    [priced |-> Priced(l[1]), photoCount |-> PhotoCount(l[1]), channel |-> l[2], attempt |-> attempt]

publish(submission) ==
    IF ~submission.priced \/ submission.photoCount < 1 THEN "rejected"
    ELSE IF submission.channel = SLOW_CHANNEL /\ submission.attempt <= 1 THEN "deferred"
    ELSE "accepted"

describe(l) == IF listings[l].externalRef THEN "accepted" ELSE "rejected"

--------------------------------------------------------------------------------
(* The dispatcher *)

Due ==
    {e \in DOMAIN listingOutbox :
        ~listingOutbox[e].delivered /\ listingOutbox[e].wait = 0}

\* The oldest due event is claimed, but for those that other dispatchers hold: any due one
\* may be the next.
Claimed(e) == e \in Due

Attempt(e) == listingOutbox[e].attempts + 1

Delivered(e) ==
    [listingOutbox EXCEPT ![e].delivered = TRUE, ![e].attempts = Attempt(e)]

\* ON CONFLICT DO NOTHING: one outcome for each listing, type and attempt.
recordListingEvent(l, type, attempt, outcome) ==
    IF \E h \in listingEvents : h.listing = l /\ h.type = type /\ h.attempt = attempt
    THEN listingEvents
    ELSE listingEvents \cup {[listing |-> l, type |-> type, attempt |-> attempt, outcome |-> outcome]}

deliverWithdrawal(e) ==
    LET l == listingOutbox[e].listing IN
    /\ Claimed(e) /\ listingOutbox[e].type = "withdraw"
    /\ listings' = [listings EXCEPT ![l].state = "withdrawn", ![l].attempts = Attempt(e)]
    /\ listingEvents' = recordListingEvent(l, "withdrawn", Attempt(e), "accepted")
    /\ listingOutbox' = Delivered(e)
    /\ UNCHANGED <<partyVars, stockVars, failed, failures>>

\* The listing's own state, the vehicle's state and its holds are not looked at again.
deliverPublication(e) ==
    LET l == listingOutbox[e].listing
        answer == publish(buildSubmission(l, Attempt(e)))
        state == IF answer = "accepted" THEN "published" ELSE "rejected" IN
    /\ Claimed(e) /\ listingOutbox[e].type = "publish"
    /\ answer # "deferred"
    /\ listings' = [listings EXCEPT ![l].state = state, ![l].attempts = Attempt(e),
                                    ![l].externalRef = @ \/ answer = "accepted"]
    /\ listingEvents' = recordListingEvent(l, state, Attempt(e), answer)
    /\ listingOutbox' = Delivered(e)
    /\ UNCHANGED <<partyVars, stockVars, failed, failures>>

\* DeferredDelivery is thrown: the ledger row is rolled back, and until the deferral is
\* written another dispatcher may claim the event.
deferPublication(e) ==
    /\ Claimed(e) /\ listingOutbox[e].type = "publish"
    /\ publish(buildSubmission(listingOutbox[e].listing, Attempt(e))) = "deferred"
    /\ failed' = failed \cup {<<e, Attempt(e)>>}
    /\ UNCHANGED <<partyVars, stockVars, listings, listingOutbox, listingEvents, failures>>

\* The transaction fails, or the process stops: nothing of it is kept.
dispatchFails(e) ==
    /\ Claimed(e) /\ failures < MaxFailure
    /\ failures' = failures + 1
    /\ \/ failed' = failed \cup {<<e, 0>>}
       \/ failed' = failed
    /\ UNCHANGED <<partyVars, stockVars, listings, listingOutbox, listingEvents>>

\* Mutant of deferEvent: a deferred event is marked delivered, as a rejected one is.
deferEvent_Delivered(f) ==
    /\ f \in failed
    /\ listingOutbox' = [listingOutbox EXCEPT ![f[1]].attempts = f[2], ![f[1]].delivered = TRUE]
    /\ failed' = failed \ {f}
    /\ UNCHANGED <<partyVars, stockVars, listings, listingEvents, failures>>

deferEvent(f) ==
    /\ f \in failed
    /\ listingOutbox' = IF listingOutbox[f[1]].delivered THEN listingOutbox
                        ELSE [listingOutbox EXCEPT
                                ![f[1]].wait = Min({listingOutbox[f[1]].attempts + 1, 8}),
                                ![f[1]].attempts = IF f[2] = 0 THEN @ + 1 ELSE f[2]]
    /\ failed' = failed \ {f}
    /\ UNCHANGED <<partyVars, stockVars, listings, listingEvents, failures>>

\* The process stops before the deferral is written: the event is simply due again.
deferralLost(f) ==
    /\ f \in failed /\ failures < MaxFailure
    /\ failures' = failures + 1
    /\ failed' = failed \ {f}
    /\ UNCHANGED <<partyVars, stockVars, listings, listingOutbox, listingEvents>>

\* Five minutes pass.
backoffTick ==
    /\ \E e \in DOMAIN listingOutbox : listingOutbox[e].wait > 0
    /\ listingOutbox' = [e \in DOMAIN listingOutbox |->
                            [listingOutbox[e] EXCEPT !.wait = Max({0, @ - 1})]]
    /\ UNCHANGED <<partyVars, stockVars, listings, failed, listingEvents, failures>>

\* The provider is believed: its answer replaces a state that disagrees, pending ones too.
reconcileListing(l) ==
    LET has == describe(l) = "accepted"
        agreed == has <=> listings[l].state = "published" IN
    /\ listings[l] # NoListing
    /\ listings' = IF agreed THEN listings
                   ELSE [listings EXCEPT ![l].state = IF has THEN "published" ELSE "withdrawn"]
    /\ listingEvents' = recordListingEvent(l, "reconciled", listings[l].attempts + 1000,
                                           IF agreed THEN "accepted" ELSE "rejected")
    /\ UNCHANGED <<partyVars, stockVars, listingOutbox, failed, failures>>

dispatchDueListingEvents ==
    \E e \in Due : deliverWithdrawal(e) \/ deliverPublication(e) \/ deferPublication(e)

ListingsInit ==
    /\ listings = [l \in Listing |-> NoListing] /\ listingOutbox = <<>>
    /\ failed = {} /\ listingEvents = {} /\ failures = 0

ListingsNext ==
    \/ \E s \in Item, c \in Channel : requestListingPublication(s, c)
    \/ \E l \in Listing : requestListingWithdrawal(l) \/ reconcileListing(l)
    \/ \E s \in Item : retire(s)
    \/ \E s \in Item, to \in LifecycleState : advance(s, to)
    \/ dispatchDueListingEvents
    \/ \E e \in Due : dispatchFails(e)
    \/ \E f \in failed : deferEvent(f) \/ deferralLost(f)
    \/ backoffTick

--------------------------------------------------------------------------------
(* Properties *)

ListingsTypeOK ==
    /\ listings \in [Listing -> ListingView \cup {NoListing}]
    /\ listingOutbox \in Seq(OutboxEvent)
    /\ failed \subseteq (1..MaxEvent) \X Nat

\* A listing that waits for the provider has an undelivered event that will answer it:
\* whatever was deferred, failed, overtaken by a later request or reconciled in between, the
\* outbox never loses the only event behind a pending listing.
PendingListingsHaveAnEvent ==
    \A l \in Listing :
        listings[l].state \in {"publish_pending", "withdraw_pending"} =>
            \E e \in DOMAIN listingOutbox :
                /\ listingOutbox[e].listing = l /\ ~listingOutbox[e].delivered
                /\ listings[l].state = IF listingOutbox[e].type = "publish"
                                       THEN "publish_pending" ELSE "withdraw_pending"

\* A vehicle that left inventory is not advertised: retiring it asks for the listing to be
\* withdrawn first, "or the dealership would keep advertising something it no longer
\* holds" (packages/inventory/src/stock.ts:415-416).
\* Refuted: see the README, section 5.
RetiredIsNotAdvertised ==
    \A s \in Item : stockItems[s].state = "retired" =>
        \A c \in Channel : listings[<<s, c>>].state # "published"

\* A request to publish or to withdraw is answered: the listing does not stay pending.
PendingListingsAreAnswered ==
    \A l \in Listing :
        listings[l].state \in {"publish_pending", "withdraw_pending"} ~>
            listings[l].state \notin {"publish_pending", "withdraw_pending"}

=================================================================================
