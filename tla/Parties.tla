-------------------------------- MODULE Parties --------------------------------
(***************************************************************************)
(* Customers of one tenant: the party records that leads, campaigns and    *)
(* stock refer to, how a new one is told from one that exists, how two are *)
(* merged, and the consent each channel carries.                           *)
(*                                                                         *)
(* Source: packages/inventory/src/parties.ts.                              *)
(*                                                                         *)
(* A create, an edit or an import takes an advisory lock on every contact  *)
(* value it is about to claim before it looks for collisions, and holds it *)
(* to the end of the transaction: each is one action.  Names and postal    *)
(* addresses decide nothing and are left out; contact values are members   *)
(* of Email and Phone, already normalised, NoContact where there is none.  *)
(***************************************************************************)
EXTENDS Integers, Sequences, FiniteSets, SequencesExt

CONSTANTS
    Email, Phone, \* contact values, normalised
    NoContact,    \* no usable value
    Stock,        \* stock items, for the parties they were acquired from
    MaxParty,     \* bound: parties created
    PartyInput    \* the details a request may carry

PartyDetails == [email : Email \cup {NoContact}, phone : Phone \cup {NoContact}]

ASSUME ContactAssumption ==
    /\ NoContact \notin Email \cup Phone
    /\ MaxParty \in Nat
    /\ PartyInput \subseteq PartyDetails

VARIABLES
    parties,        \* the parties rows, in the order of their ids
    channelConsent, \* party_consents of one channel, "none" where there is no row
    acquiredFrom    \* stock_items.acquisition_party_id, 0 for none

partyVars == <<parties, channelConsent, acquiredFrom>>

PartyStatus == {"active", "merged", "archived"}
ConsentState == {"granted", "withdrawn", "unknown"}
PartyId == 1..MaxParty

PartyView ==
    [status : PartyStatus, email : Email \cup {NoContact}, phone : Phone \cup {NoContact},
     override : BOOLEAN, mergedInto : 0..MaxParty]

Party == 1..Len(parties)
Active(p) == p \in Party /\ parties[p].status = "active"

--------------------------------------------------------------------------------
(* The duplicate decision *)

SameContact(q, d) ==
    \/ d.email # NoContact /\ q.email = d.email
    \/ d.phone # NoContact /\ q.phone = d.phone

identifyingCollisions(ps, d, exclude) ==
    {q \in DOMAIN ps : q # exclude /\ ps[q].status = "active" /\ SameContact(ps[q], d)}

NewParty(ps, d) ==
    [status |-> "active", email |-> d.email, phone |-> d.phone,
     override |-> identifyingCollisions(ps, d, 0) # {}, mergedInto |-> 0]

\* The rows after the request: a collision that is not allowed changes nothing.
createPartyWithin(ps, d, allowDuplicate) ==
    IF (identifyingCollisions(ps, d, 0) # {} /\ ~allowDuplicate) \/ Len(ps) = MaxParty
    THEN ps
    ELSE Append(ps, NewParty(ps, d))

--------------------------------------------------------------------------------
(* Operations *)

createParty(d, allowDuplicate) ==
    /\ Len(parties) < MaxParty
    /\ parties' = createPartyWithin(parties, d, allowDuplicate)
    /\ UNCHANGED <<channelConsent, acquiredFrom>>

\* Every row of the batch in its own savepoint, all under the locks of the whole batch:
\* a row that collides, with an earlier row of the batch too, is skipped.
importParties(rows) ==
    /\ LET after[n \in 0..Len(rows)] ==
                IF n = 0 THEN parties ELSE createPartyWithin(after[n - 1], rows[n], FALSE)
       IN  parties' = after[Len(rows)]
    /\ UNCHANGED <<channelConsent, acquiredFrom>>

\* The row is locked, then the contact values it is to have.
updateParty(p, d, allowDuplicate) ==
    LET sharing == identifyingCollisions(parties, d, p) # {} IN
    /\ Active(p)
    /\ sharing => allowDuplicate
    /\ parties' = [parties EXCEPT ![p].email = d.email, ![p].phone = d.phone,
                                  ![p].override = sharing]
    /\ UNCHANGED <<channelConsent, acquiredFrom>>

setPartyConsent(p, state) ==
    /\ Active(p)
    /\ channelConsent' = [channelConsent EXCEPT ![p] = state]
    /\ UNCHANGED <<parties, acquiredFrom>>

\* ON CONFLICT DO NOTHING: the survivor's own answer is kept.
AdoptedConsents(surviving, merged) ==
    [channelConsent EXCEPT ![surviving] = IF @ = "none" THEN channelConsent[merged] ELSE @]

\* Both rows are locked in the order of their ids.
mergeParties(surviving, merged) ==
    /\ surviving # merged /\ Active(surviving) /\ Active(merged)
    /\ acquiredFrom' = [s \in Stock |-> IF acquiredFrom[s] = merged THEN surviving
                                        ELSE acquiredFrom[s]]
    /\ channelConsent' = AdoptedConsents(surviving, merged)
    /\ parties' = [parties EXCEPT ![merged].status = "merged", ![merged].mergedInto = surviving]

PartiesInit ==
    /\ parties = <<>>
    /\ channelConsent = [p \in PartyId |-> "none"]
    /\ acquiredFrom \in [Stock -> {0}]

\* A stock item is acquired from a customer (packages/inventory/src/stock.ts).
StockAcquired(s, p) ==
    /\ Active(p) /\ acquiredFrom[s] = 0
    /\ acquiredFrom' = [acquiredFrom EXCEPT ![s] = p]
    /\ UNCHANGED <<parties, channelConsent>>

PartiesNext ==
    \/ \E d \in PartyInput, allow \in BOOLEAN : createParty(d, allow)
    \/ \E d, e \in PartyInput : importParties(<<d, e>>)
    \/ \E p \in Party, d \in PartyInput, allow \in BOOLEAN : updateParty(p, d, allow)
    \/ \E p \in Party, state \in ConsentState : setPartyConsent(p, state)
    \/ \E p, q \in Party : mergeParties(p, q)
    \/ \E s \in Stock, p \in Party : StockAcquired(s, p)

--------------------------------------------------------------------------------
(* Properties *)

PartiesTypeOK ==
    /\ parties \in Seq(PartyView) /\ Len(parties) <= MaxParty
    /\ channelConsent \in [PartyId -> ConsentState \cup {"none"}]
    /\ acquiredFrom \in [Stock -> 0..MaxParty]

\* Two live customers that share an email address or a phone number are never an
\* accident: one of the two was created or edited under the override that says so
\* (parties.contact_sharing_override), whatever edits, imports and merges came between.
SharedContactsAreDeclared ==
    \A p, q \in Party :
        p # q /\ Active(p) /\ Active(q) /\ SameContact(parties[p], parties[q]) =>
            parties[p].override \/ parties[q].override

================================================================================
