--------------------------------- MODULE Stock ---------------------------------
(***************************************************************************)
(* The vehicles a dealership holds: resolving and decoding them by VIN,    *)
(* acquiring, reconditioning and retiring stock, and what merchandising    *)
(* hangs on a stock item: prices, photographs, features, holds, transfers. *)
(*                                                                         *)
(* Source: packages/inventory/src/{vehicles,stock,merchandising}.ts.       *)
(*                                                                         *)
(* Every operation locks the stock row (or the vehicle, or the transfer)   *)
(* it decides about and is one action.  The exception is the acquisition   *)
(* of a vehicle, which has no row to lock: what it reads is decided again  *)
(* by the unique indexes on live stock.  Dates, amounts and descriptions   *)
(* decide nothing and are left out, except which price is current.         *)
(***************************************************************************)
EXTENDS Parties

CONSTANTS
    Vin, StockNumber, Rooftop, Build, Feature,
    NoBuild,     \* a build the decoder has not told
    MaxStock,    \* bound: stock items acquired
    MaxPrice,    \* bound: prices set
    MaxMedia,    \* bound: media added
    MaxTransfer, \* bound: transfers requested
    MaxPosition  \* the highest media position

ASSUME StockAssumption ==
    /\ Stock = 1..MaxStock /\ NoBuild \notin Build
    /\ MaxStock \in Nat /\ MaxPrice \in Nat /\ MaxMedia \in Nat /\ MaxTransfer \in Nat
    /\ MaxPosition \in Nat

VARIABLES
    vehicles,   \* vehicles by VIN
    stockItems, \* stock_items, in the order they were inserted
    documents,  \* stock_documents
    costs,      \* stock_costs
    prices,     \* stock_prices, in the order they were inserted
    media,      \* stock_media
    features,   \* stock_features of each item
    holds,      \* the live stock_holds row of each item, NoHold for none
    transfers   \* stock_transfers

stockVars == <<vehicles, stockItems, documents, costs, prices, media, features, holds, transfers>>

--------------------------------------------------------------------------------
(* Rows *)

DecodeStatus == {"undecoded", "decoded", "rejected", "unavailable"}
VehicleView == [status : DecodeStatus, build : Build \cup {NoBuild}, color : {"none", "painted"}]
NoVehicle == [status |-> "none", build |-> NoBuild, color |-> "none"]
NewVehicle == [status |-> "undecoded", build |-> NoBuild, color |-> "none"]
Known(v) == vehicles[v] # NoVehicle

LifecycleState == {"acquired", "in_reconditioning", "retail_ready", "retired"}
AcquisitionSource == {"trade_in", "auction", "private_purchase", "fleet", "consignment", "transfer"}
LIFECYCLE_TRANSITIONS ==
    [acquired          |-> {"in_reconditioning", "retail_ready", "retired"},
     in_reconditioning |-> {"retail_ready", "retired"},
     retail_ready      |-> {"in_reconditioning", "retired"},
     retired           |-> {}]
SOURCES_REQUIRING_PARTY == {"trade_in", "consignment"}

TitleStatus == {"pending", "in_hand", "sent", "lost"}
StockItemView ==
    [vin : Vin, number : StockNumber, rooftop : Rooftop, state : LifecycleState,
     source : AcquisitionSource, title : TitleStatus, wasReady : BOOLEAN]

DocumentStatus == {"expected", "received", "sent", "missing"}
StockDocumentView == [item : Stock, status : DocumentStatus, receivedOn : BOOLEAN]
StockCostView == [item : Stock, status : {"estimated", "actual"}]

PRICE_TYPES == {"retail", "internet", "wholesale", "msrp"}
PriceView == [item : Stock, type : PRICE_TYPES, supersededBy : 0..MaxPrice]
MediaView ==
    [item : Stock, kind : {"photo", "video"}, position : 1..MaxPosition, status : {"active", "removed"}]
HOLD_TYPES == {"sold_pending", "inspection", "manager", "transport"}
NoHold == "none"
TransferState == {"requested", "completed", "cancelled"}
TransferView == [item : Stock, from : Rooftop, to : Rooftop, state : TransferState]

Item == DOMAIN stockItems
Live(s) == s \in Item /\ stockItems[s].state # "retired"
StockOf(v) == {s \in Item : Live(s) /\ stockItems[s].vin = v}

--------------------------------------------------------------------------------
(* Vehicles *)

\* The vehicles after a request that names VIN v: an existing row is kept.
resolveVehicleByVin(v) == [vehicles EXCEPT ![v] = IF Known(v) THEN @ ELSE NewVehicle]

DecodeAnswer == Build \cup {"rejected", "unavailable"}

\* A failed decode marks the vehicle, even one decoded before; a successful one fills in
\* what is not known and overwrites nothing.
decodeVehicle(v, answer) ==
    /\ Known(v)
    /\ vehicles' = IF answer \in Build
                   THEN [vehicles EXCEPT ![v].status = "decoded",
                                         ![v].build = IF @ = NoBuild THEN answer ELSE @]
                   ELSE [vehicles EXCEPT ![v].status = answer]
    /\ UNCHANGED <<partyVars, stockItems, documents, costs, prices, media, features, holds, transfers>>

updateVehicleAppearance(v, color) ==
    /\ Known(v)
    /\ vehicles' = [vehicles EXCEPT ![v].color = color]
    /\ UNCHANGED <<partyVars, stockItems, documents, costs, prices, media, features, holds, transfers>>

--------------------------------------------------------------------------------
(* Stock *)

NoSeller == [email |-> NoContact, phone |-> NoContact]

AcquisitionInput ==
    [vin : Vin, number : StockNumber, rooftop : Rooftop, source : AcquisitionSource,
     partyId : 0..MaxParty, newParty : PartyInput \cup {NoSeller}]

NewStockItem(in) ==
    [vin |-> in.vin, number |-> in.number, rooftop |-> in.rooftop, state |-> "acquired",
     source |-> in.source, title |-> "pending", wasReady |-> FALSE]

\* The seller created with the acquisition: one that matches a customer is refused.
SellerIsNew(in) ==
    in.newParty # NoSeller /\ identifyingCollisions(parties, in.newParty, 0) = {}

NumberTaken(n) == \E s \in Item : Live(s) /\ stockItems[s].number = n

acquisitionAllowed(in) ==
    /\ StockOf(in.vin) = {}
    /\ in.newParty # NoSeller => SellerIsNew(in)
    /\ in.partyId # 0 => Active(in.partyId)
    /\ in.source \in SOURCES_REQUIRING_PARTY => in.partyId # 0 \/ in.newParty # NoSeller

\* A request that is refused with an answer commits the vehicle it resolved; one that the
\* unique index on live stock numbers stops is rolled back.
acquireStock(in) ==
    /\ ~(in.partyId # 0 /\ in.newParty # NoSeller)
    /\ acquisitionAllowed(in) => ~NumberTaken(in.number)
    /\ in.newParty # NoSeller => Len(parties) < MaxParty
    /\ vehicles' = resolveVehicleByVin(in.vin)
    /\ IF acquisitionAllowed(in)
       THEN /\ Len(stockItems) < MaxStock
            /\ stockItems' = Append(stockItems, NewStockItem(in))
            /\ parties' = IF in.newParty = NoSeller THEN parties
                          ELSE createPartyWithin(parties, in.newParty, FALSE)
            /\ acquiredFrom' = [acquiredFrom EXCEPT ![Len(stockItems')] =
                                    IF in.newParty = NoSeller THEN in.partyId ELSE Len(parties')]
            /\ UNCHANGED channelConsent
       ELSE UNCHANGED <<partyVars, stockItems>>
    /\ UNCHANGED <<documents, costs, prices, media, features, holds, transfers>>

\* listed: the item has a listing that is not withdrawn (Listings).
transitionStock(s, to, listed) ==
    /\ s \in Item
    /\ to \in LIFECYCLE_TRANSITIONS[stockItems[s].state]
    /\ to = "retired" => ~listed
    /\ stockItems' = [stockItems EXCEPT ![s].state = to,
                                        ![s].wasReady = @ \/ to = "retail_ready"]
    /\ UNCHANGED <<partyVars, vehicles, documents, costs, prices, media, features, holds, transfers>>

updateStockDetails(s, title) ==
    /\ s \in Item
    /\ stockItems' = [stockItems EXCEPT ![s].title = title]
    /\ UNCHANGED <<partyVars, vehicles, documents, costs, prices, media, features, holds, transfers>>

recordStockDocument(d) ==
    /\ d.item \in Item
    /\ d.receivedOn <=> d.status = "received"
    /\ documents' = documents \cup {d}
    /\ UNCHANGED <<partyVars, vehicles, stockItems, costs, prices, media, features, holds, transfers>>

recordStockCost(c) ==
    /\ c.item \in Item
    /\ costs' = costs \cup {c}
    /\ UNCHANGED <<partyVars, vehicles, stockItems, documents, prices, media, features, holds, transfers>>

--------------------------------------------------------------------------------
(* Merchandising *)

\* lockStockItem: the row is locked whatever its state, a retired one too.
CurrentPrice(s, type) ==
    {p \in DOMAIN prices : prices[p].item = s /\ prices[p].type = type /\ prices[p].supersededBy = 0}
Priced(s) == CurrentPrice(s, "retail") \cup CurrentPrice(s, "internet") # {}

setStockPrice(s, type) ==
    LET next == Len(prices) + 1 IN
    /\ s \in Item /\ next <= MaxPrice
    /\ prices' = Append([p \in DOMAIN prices |->
                            IF p \in CurrentPrice(s, type)
                            THEN [prices[p] EXCEPT !.supersededBy = next] ELSE prices[p]],
                        [item |-> s, type |-> type, supersededBy |-> 0])
    /\ UNCHANGED <<partyVars, vehicles, stockItems, documents, costs, media, features, holds, transfers>>

ActiveMedia(s) == {m \in DOMAIN media : media[m].item = s /\ media[m].status = "active"}
PhotoCount(s) == Cardinality({m \in ActiveMedia(s) : media[m].kind = "photo"})

\* at: the position asked for, 0 for the end of the gallery.
addStockMedia(s, kind, at) ==
    LET position == IF at # 0 THEN at
                    ELSE Max({0} \cup {media[m].position : m \in ActiveMedia(s)}) + 1 IN
    /\ s \in Item /\ Len(media) < MaxMedia
    /\ position <= MaxPosition
    /\ media' = Append(media, [item |-> s, kind |-> kind, position |-> position, status |-> "active"])
    /\ UNCHANGED <<partyVars, vehicles, stockItems, documents, costs, prices, features, holds, transfers>>

removeStockMedia(m) ==
    /\ m \in DOMAIN media /\ media[m].status = "active"
    /\ media' = [media EXCEPT ![m].status = "removed"]
    /\ UNCHANGED <<partyVars, vehicles, stockItems, documents, costs, prices, features, holds, transfers>>

replaceStockFeatures(s, fs) ==
    /\ s \in Item
    /\ features' = [features EXCEPT ![s] = fs]
    /\ UNCHANGED <<partyVars, vehicles, stockItems, documents, costs, prices, media, holds, transfers>>

placeStockHold(s, type) ==
    /\ s \in Item /\ holds[s] = NoHold
    /\ holds' = [holds EXCEPT ![s] = type]
    /\ UNCHANGED <<partyVars, vehicles, stockItems, documents, costs, prices, media, features, transfers>>

releaseStockHold(s) ==
    /\ s \in Item /\ holds[s] # NoHold
    /\ holds' = [holds EXCEPT ![s] = NoHold]
    /\ UNCHANGED <<partyVars, vehicles, stockItems, documents, costs, prices, media, features, transfers>>

OpenTransfer(s) == {t \in DOMAIN transfers : transfers[t].item = s /\ transfers[t].state = "requested"}

requestStockTransfer(s, to) ==
    /\ Live(s) /\ stockItems[s].rooftop # to
    /\ OpenTransfer(s) = {}
    /\ Len(transfers) < MaxTransfer
    /\ transfers' = Append(transfers, [item |-> s, from |-> stockItems[s].rooftop, to |-> to,
                                       state |-> "requested"])
    /\ UNCHANGED <<partyVars, vehicles, stockItems, documents, costs, prices, media, features, holds>>

\* The transfer is locked and not the stock item, whose state is not looked at.
settleStockTransfer(t, state) ==
    /\ t \in DOMAIN transfers /\ transfers[t].state = "requested"
    /\ transfers' = [transfers EXCEPT ![t].state = state]
    /\ stockItems' = IF state = "completed"
                     THEN [stockItems EXCEPT ![transfers[t].item].rooftop = transfers[t].to]
                     ELSE stockItems
    /\ UNCHANGED <<partyVars, vehicles, documents, costs, prices, media, features, holds>>

StockInit ==
    /\ vehicles = [v \in Vin |-> NoVehicle] /\ stockItems = <<>>
    /\ documents = {} /\ costs = {} /\ prices = <<>> /\ media = <<>>
    /\ features = [s \in Stock |-> {}] /\ holds = [s \in Stock |-> NoHold] /\ transfers = <<>>

StockNext ==
    \/ \E v \in Vin, answer \in DecodeAnswer : decodeVehicle(v, answer)
    \/ \E v \in Vin, c \in {"none", "painted"} : updateVehicleAppearance(v, c)
    \/ \E in \in AcquisitionInput : acquireStock(in)
    \/ \E s \in Item, title \in TitleStatus : updateStockDetails(s, title)
    \/ \E d \in StockDocumentView : recordStockDocument(d)
    \/ \E c \in StockCostView : recordStockCost(c)
    \/ \E s \in Item, type \in PRICE_TYPES : setStockPrice(s, type)
    \/ \E s \in Item, kind \in {"photo", "video"}, at \in 0..(MaxPosition + 1) : addStockMedia(s, kind, at)
    \/ \E m \in DOMAIN media : removeStockMedia(m)
    \/ \E s \in Item, fs \in SUBSET Feature : replaceStockFeatures(s, fs)
    \/ \E s \in Item, type \in HOLD_TYPES : placeStockHold(s, type)
    \/ \E s \in Item : releaseStockHold(s)
    \/ \E s \in Item, r \in Rooftop : requestStockTransfer(s, r)
    \/ \E t \in DOMAIN transfers, state \in {"completed", "cancelled"} : settleStockTransfer(t, state)

--------------------------------------------------------------------------------
(* Properties *)

StockTypeOK ==
    /\ vehicles \in [Vin -> VehicleView \cup {NoVehicle}]
    /\ stockItems \in Seq(StockItemView) /\ Len(stockItems) <= MaxStock
    /\ documents \subseteq StockDocumentView /\ costs \subseteq StockCostView
    /\ prices \in Seq(PriceView) /\ media \in Seq(MediaView)
    /\ features \in [Stock -> SUBSET Feature]
    /\ holds \in [Stock -> HOLD_TYPES \cup {NoHold}]
    /\ transfers \in Seq(TransferView)

\* A transfer that waits to be settled starts where the vehicle is: whatever requests,
\* cancellations and completions came before, completing it moves the vehicle from the
\* rooftop the request recorded (stock_transfers.from_rooftop_id), although settling
\* does not lock the stock item.
OpenTransferStartsWhereTheVehicleIs ==
    \A t \in DOMAIN transfers :
        transfers[t].state = "requested" =>
            /\ stockItems[transfers[t].item].rooftop = transfers[t].from
            /\ OpenTransfer(transfers[t].item) = {t}

================================================================================
