---------------------------- MODULE MarketLimits ----------------------------
(***************************************************************************)
(* The limits one account meets in the marketplace: its listing slots, the *)
(* daily numbers of listings, cancellations and purchases, the purchase    *)
(* cooldown, the trading licence and the restrictions an administrator     *)
(* sets.  Several characters of the account call at once; a call is the    *)
(* sequence of reads, row locks and the commit of its transaction in       *)
(* marketplace.go (READ COMMITTED).  What is listed and what is paid are   *)
(* in Custody; the life of a payment order is in PaymentOrders.            *)
(***************************************************************************)
EXTENDS Integers, FiniteSets

CONSTANTS Traders,        \* the characters of the account
          Calls,          \* requests that may be in flight at once
          Rules,          \* the configured MarketplaceRules
          Scenarios,      \* the operations used together in one behaviour
          DayBound        \* listings and purchases followed in a day

ASSUME LimitsAssumption ==
  /\ \A f \in {"baseListingSlots", "materialExpandSlots", "walletExpandSlots", "materialExpandMaxTimes",
               "walletExpandMaxTimes", "maxListingsCreatedPerDay", "maxCancelsPerDay",
               "maxPurchasesPerDay", "purchaseCooldownSeconds"} : Rules[f] \in Int
  /\ DayBound \in Nat /\ IsFiniteSet(Traders) /\ IsFiniteSet(Calls) /\ "" \notin Traders

VARIABLES offered,        \* the operations of this behaviour
          listed,         \* rows of the account in status LISTED
          today,          \* rows created, cancelled and bought today
          burst,          \* purchases since the cooldown last ran out
          expands,        \* account_market_slots
          openOrders,     \* open MARKET_SLOT_WALLET_EXPAND payment orders
          licence,        \* accounts.has_trading_license
          restrictions,   \* active account_market_restrictions
          call,           \* the requests in flight
          warned,         \* calls that were in flight when a restriction came
          evaded          \* a trade by a call that began under a restriction

mvars == <<offered, listed, today, burst, expands, openOrders, licence, restrictions,
           call, warned, evaded>>

NoTrader == ""
NoCall == [op |-> "none", pc |-> "none", trader |-> NoTrader]

\* A setting that is missing or not positive gets its default.
WithDefault(value, default) == IF value <= 0 THEN default ELSE value
BaseListingSlots == WithDefault(Rules.baseListingSlots, 5)
MaterialExpandSlots == WithDefault(Rules.materialExpandSlots, 2)
WalletExpandSlots == WithDefault(Rules.walletExpandSlots, 2)
MaterialExpandMaxTimes == WithDefault(Rules.materialExpandMaxTimes, 5)
WalletExpandMaxTimes == WithDefault(Rules.walletExpandMaxTimes, 5)
MaxListingsCreatedPerDay == WithDefault(Rules.maxListingsCreatedPerDay, 50)
MaxCancelsPerDay == WithDefault(Rules.maxCancelsPerDay, 20)
MaxPurchasesPerDay == WithDefault(Rules.maxPurchasesPerDay, 100)

SlotCapacity(e) ==
  BaseListingSlots + e.material * MaterialExpandSlots + e.wallet * WalletExpandSlots

LimitsInit ==
  /\ offered \in Scenarios
  /\ listed = 0 /\ today = [created |-> 0, cancelled |-> 0, bought |-> 0]
  /\ burst = 0 /\ expands = [material |-> 0, wallet |-> 0] /\ openOrders = 0
  /\ licence = FALSE /\ restrictions = {}
  /\ call = [r \in Calls |-> NoCall] /\ warned = {} /\ evaded = FALSE

-----------------------------------------------------------------------------
\* lockCharacter: the row of the character, held to the end of the transaction.
CharacterFree(t) == \A r \in Calls : call[r].trader # t

\* The account_market_slots row: ensureMarketSlots' upsert locks it.
SlotsHeld == {r \in Calls : call[r].pc = "slots"}

Starts(r, op) == op \in offered /\ call[r] = NoCall
Enter(r, op, pc, t) == call' = [call EXCEPT ![r] = [op |-> op, pc |-> pc, trader |-> t]]
At(r, op, pc) == call[r].op = op /\ call[r].pc = pc
EndCall(r) ==
  /\ call' = [call EXCEPT ![r] = NoCall]
  /\ warned' = warned \ {r}
NotRestricted(action) == restrictions \cap {action, "ALL"} = {}
Traded(r, action) == evaded' = (evaded \/ (~NotRestricted(action) /\ r \notin warned))

FaultListBegin(r, t) ==
  /\ Starts(r, "list")
  /\ licence /\ NotRestricted("SELL")
  /\ today.created < MaxListingsCreatedPerDay
  /\ Enter(r, "list", "counted", t)
  /\ UNCHANGED <<offered, listed, today, burst, expands, openOrders, licence, restrictions, warned, evaded>>

\* MarketplaceCreateListing up to the daily limit: the character's row is
\* locked, the licence, the restrictions and today's rows are only read.
ListBegin(r, t) ==
  /\ Starts(r, "list") /\ CharacterFree(t)
  /\ licence /\ NotRestricted("SELL")
  /\ today.created < MaxListingsCreatedPerDay
  /\ Enter(r, "list", "counted", t)
  /\ UNCHANGED <<offered, listed, today, burst, expands, openOrders, licence, restrictions, warned, evaded>>

\* assertListingSlotAvailable: the slots row is locked before the active
\* listings are counted.
ListTakeSlot(r) ==
  /\ At(r, "list", "counted") /\ SlotsHeld = {}
  /\ listed < SlotCapacity(expands)
  /\ Enter(r, "list", "slots", call[r].trader)
  /\ UNCHANGED <<offered, listed, today, burst, expands, openOrders, licence, restrictions, warned, evaded>>

\* The deposit is paid, the asset locked, the listing inserted; commit.
ListCommit(r) ==
  /\ At(r, "list", "slots") /\ today.created < DayBound
  /\ listed' = listed + 1
  /\ today' = [today EXCEPT !.created = @ + 1]
  /\ Traded(r, "SELL") /\ EndCall(r)
  /\ UNCHANGED <<offered, burst, expands, openOrders, licence, restrictions>>

\* MarketplaceCancel counts today's cancellations before it locks anything.
CancelBegin(r) ==
  /\ Starts(r, "cancel") /\ today.cancelled < MaxCancelsPerDay
  /\ Enter(r, "cancel", "counted", NoTrader)
  /\ UNCHANGED <<offered, listed, today, burst, expands, openOrders, licence, restrictions, warned, evaded>>

\* The listing is locked and LISTED, the seller's character is locked, the
\* asset goes back, the row becomes CANCELLED; commit.
CancelCommit(r) ==
  /\ At(r, "cancel", "counted") /\ listed > 0
  /\ \E t \in Traders : CharacterFree(t)
  /\ listed' = listed - 1
  /\ today' = [today EXCEPT !.cancelled = @ + 1]
  /\ EndCall(r)
  /\ UNCHANGED <<offered, burst, expands, openOrders, licence, restrictions, evaded>>

\* MarketplaceBuy up to the listing's lock.  A cooldown of 0 switches it off,
\* a negative one is the default.
BuyBegin(r, t) ==
  /\ Starts(r, "buy") /\ CharacterFree(t)
  /\ licence /\ NotRestricted("BUY")
  /\ today.bought < MaxPurchasesPerDay
  /\ Rules.purchaseCooldownSeconds # 0 => burst = 0
  /\ Enter(r, "buy", "counted", t)
  /\ UNCHANGED <<offered, listed, today, burst, expands, openOrders, licence, restrictions, warned, evaded>>

\* Another account's listing is locked, paid for and handed over; commit.
BuyCommit(r) ==
  /\ At(r, "buy", "counted") /\ today.bought < DayBound
  /\ today' = [today EXCEPT !.bought = @ + 1]
  /\ burst' = burst + 1
  /\ Traded(r, "BUY") /\ EndCall(r)
  /\ UNCHANGED <<offered, listed, expands, openOrders, licence, restrictions>>

\* MarketplaceBuy of another account takes one of this account's listings.
Sold ==
  /\ listed > 0
  /\ listed' = listed - 1
  /\ UNCHANGED <<offered, today, burst, expands, openOrders, licence, restrictions, call, warned, evaded>>

-----------------------------------------------------------------------------
\* The expand calls lock the character, then the slots row, and check the
\* counter they read under that lock.
ExpandBegin(r, t, op) ==
  /\ Starts(r, op) /\ CharacterFree(t)
  /\ Enter(r, op, "counted", t)
  /\ UNCHANGED <<offered, listed, today, burst, expands, openOrders, licence, restrictions, warned, evaded>>

\* MarketplaceExpandMaterialSlots: the permits are consumed, the counter
\* grows; commit.
MarketplaceExpandMaterialSlots(r) ==
  /\ At(r, "material", "counted") /\ SlotsHeld = {}
  /\ expands.material < MaterialExpandMaxTimes
  /\ expands' = [expands EXCEPT !.material = @ + 1]
  /\ EndCall(r)
  /\ UNCHANGED <<offered, listed, today, burst, openOrders, licence, restrictions, evaded>>

\* MarketplaceExpandWalletSlots: one open order at a time; the counter grows
\* when the order is fulfilled.
MarketplaceExpandWalletSlots(r) ==
  /\ At(r, "wallet", "counted") /\ SlotsHeld = {}
  /\ expands.wallet < WalletExpandMaxTimes /\ openOrders = 0
  /\ openOrders' = openOrders + 1
  /\ EndCall(r)
  /\ UNCHANGED <<offered, listed, today, burst, expands, licence, restrictions, evaded>>

\* fulfillPaymentOrderTx adds the expand without reading the maximum again.
FulfilWalletExpand ==
  /\ openOrders > 0 /\ SlotsHeld = {}
  /\ openOrders' = openOrders - 1
  /\ expands' = [expands EXCEPT !.wallet = @ + 1]
  /\ UNCHANGED <<offered, listed, today, burst, licence, restrictions, call, warned, evaded>>

\* Any later step of the transaction fails: it is rolled back.
Refuse(r) ==
  /\ call[r] # NoCall
  /\ EndCall(r)
  /\ UNCHANGED <<offered, listed, today, burst, expands, openOrders, licence, restrictions, evaded>>

-----------------------------------------------------------------------------
SetTradingLicense(granted) ==
  /\ licence # granted /\ licence' = granted
  /\ UNCHANGED <<offered, listed, today, burst, expands, openOrders, restrictions, call, warned, evaded>>

CreateMarketRestriction(type) ==
  /\ "restrict" \in offered /\ type \notin restrictions
  /\ restrictions' = restrictions \cup {type}
  /\ warned' = {r \in Calls : call[r] # NoCall}
  /\ UNCHANGED <<offered, listed, today, burst, expands, openOrders, licence, call, evaded>>

RevokeMarketRestriction(type) ==
  /\ type \in restrictions
  /\ restrictions' = restrictions \ {type}
  /\ UNCHANGED <<offered, listed, today, burst, expands, openOrders, licence, call, warned, evaded>>

CooldownEnds ==
  /\ burst > 0 /\ burst' = 0
  /\ UNCHANGED <<offered, listed, today, expands, openOrders, licence, restrictions, call, warned, evaded>>

LimitsNext ==
  \/ \E r \in Calls :
       \/ ListTakeSlot(r) \/ ListCommit(r)
       \/ CancelBegin(r) \/ CancelCommit(r)
       \/ BuyCommit(r)
       \/ MarketplaceExpandMaterialSlots(r) \/ MarketplaceExpandWalletSlots(r)
       \/ Refuse(r)
       \/ \E t \in Traders :
            \/ ListBegin(r, t) \/ BuyBegin(r, t)
            \/ \E op \in {"material", "wallet"} : ExpandBegin(r, t, op)
  \/ Sold \/ FulfilWalletExpand \/ CooldownEnds
  \/ \E granted \in BOOLEAN : SetTradingLicense(granted)
  \/ \E type \in {"BUY", "ALL"} : CreateMarketRestriction(type) \/ RevokeMarketRestriction(type)

LimitsSpec == LimitsInit /\ [][LimitsNext]_mvars

-----------------------------------------------------------------------------
\* The rows keep their types; a wallet expand is never sold beyond its maximum
\* and at most one order for it is open, although fulfilment checks neither.
LimitsTypeOK ==
  /\ today \in [{"created", "cancelled", "bought"} -> 0 .. DayBound + Cardinality(Calls)]
  /\ expands.material \in 0 .. MaterialExpandMaxTimes
  /\ expands.wallet + openOrders \in 0 .. WalletExpandMaxTimes
  /\ openOrders \in {0, 1} /\ listed >= 0

\* assertListingSlotAvailable: however the calls of the characters interleave
\* with fulfilments and sales, the account never has more active listings than
\* slots.
CapacityRespected == listed <= SlotCapacity(expands)

\* The daily limits and the cooldown are read without a lock on the account.
\* Listings and purchases can pass them by one for every other character, as a
\* character's own calls wait for each other; cancellations lock nothing before
\* they count and can pass by one for every other request in flight.
OverrunBounded ==
  /\ today.created <= MaxListingsCreatedPerDay + Cardinality(Traders) - 1
  /\ today.bought <= MaxPurchasesPerDay + Cardinality(Traders) - 1
  /\ today.cancelled <= MaxCancelsPerDay + Cardinality(Calls) - 1
  /\ Rules.purchaseCooldownSeconds # 0 => burst <= Cardinality(Traders)

\* A restriction stops every trade that begins after it: the only trades under
\* a restriction are those of calls already past assertMarketNotRestricted.
RestrictionStopsNewTrades == ~evaded

\* What holds of the market's limits although they are read without a lock:
\* slots exactly, daily limits up to the requests in flight, restrictions for
\* everything that begins later.
LimitsHold == LimitsTypeOK /\ CapacityRespected /\ OverrunBounded /\ RestrictionStopsNewTrades
=============================================================================
