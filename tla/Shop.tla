-------------------------------- MODULE Shop --------------------------------
(***************************************************************************)
(* The shop and the mystery shop of one character.  economy/service.go     *)
(* reads a snapshot (the board, the bag, today's refreshes), decides the   *)
(* price from it and calls the store; store/shop.go applies the request in *)
(* a transaction that locks the character.  A request is therefore a quote *)
(* and, later, a commit, with other requests in between.  Token purchases  *)
(* are payment orders: the deposit scan fulfils them later still.          *)
(***************************************************************************)
EXTENDS Integers, Sequences, Functions

CONSTANTS Shoppers,         \* requests that may be in flight at once
          Pool,             \* the entries of a mystery slot's pool
          Levels,           \* character levels
          MysterySlots,     \* slots of the mystery board
          DailyLimit,       \* of the regular shop's only slot
          SellPrice,        \* item -> gold per unit, 0 when not bought
          RefreshCost,      \* base, step and maximum of a paid refresh
          ShopUses,         \* the operations used together in one behaviour
          MaxRolls,         \* boards rolled
          MaxOrders         \* token orders

\* What the validation of the shop's rules demands, and counts are counts.
ASSUME ShopAssumption ==
  /\ DOMAIN Pool = 1 .. Len(Pool) /\ Len(Pool) \in Nat \ {0}
  /\ \A i \in DOMAIN Pool : Pool[i].weight \in Nat
  /\ RefreshCost.base \in Nat /\ RefreshCost.step \in Nat /\ RefreshCost.max \in Nat
  /\ DailyLimit \in Nat /\ MaxRolls \in Nat

VARIABLES uses,             \* the operations of this behaviour
          level,            \* the character's level
          board,            \* mystery_shop_boards: the offers and their roll
          boards,           \* boards rolled so far
          paidToday,        \* MYSTERY_SHOP_REFRESH rows of the ledger today
          revenue,          \* what they cost
          businessDay,      \* the shop's day
          dailyPurchases,   \* shop_daily_purchases
          shopOrders,       \* SHOP_BUY payment orders
          bagItem,          \* the item in the character's bag slot, 0 if none
          bagMoves,         \* how often that slot changed
          quote,            \* the requests in flight
          sold,             \* deliveries of each offer of each board
          sales             \* sales of bag items: item, credit, stale

shvars == <<uses, level, board, boards, paidToday, revenue, businessDay,
            dailyPurchases, shopOrders, bagItem, bagMoves, quote, sold, sales>>

NoBoard == [roll |-> 0, level |-> 0, offers |-> <<>>]
NoQuote == [op |-> "none", slot |-> 0, item |-> 0, price |-> 0, token |-> FALSE,
            day |-> 0, seen |-> 0, offers |-> <<>>, level |-> 0]
Goods == DOMAIN SellPrice

ShopInit ==
  /\ uses \in ShopUses /\ level \in Levels
  /\ board = NoBoard /\ boards = 0 /\ paidToday = 0 /\ revenue = 0
  /\ businessDay = 1 /\ dailyPurchases = [d \in {1, 2} |-> 0]
  /\ shopOrders = <<>> /\ bagItem = 0 /\ bagMoves = 0
  /\ quote = [r \in Shoppers |-> NoQuote]
  /\ sold = [x \in (1 .. MaxRolls) \X MysterySlots |-> 0]
  /\ sales = {}

-----------------------------------------------------------------------------
\* chooseMysteryPoolEntry: the weighted choice among the entries open to the
\* level; the last entry of the pool when there is none.
Eligible(i, n) ==
  /\ Pool[i].minLevel > 0 => n >= Pool[i].minLevel
  /\ Pool[i].maxLevel > 0 => n <= Pool[i].maxLevel

WeightOf(entries) == SumFunctionOnSet([i \in DOMAIN Pool |-> Pool[i].weight], entries)

ChooseMysteryPoolEntry(n, roll) ==
  LET open == {i \in DOMAIN Pool : Eligible(i, n)}
      Before(i) == WeightOf({j \in open : j < i})
      hit == {i \in open : Before(i) <= roll /\ roll < Before(i) + Pool[i].weight}
  IN  IF hit = {} THEN Len(Pool) ELSE CHOOSE i \in hit : TRUE

\* rollMysteryShopOffers: one offer for each slot the level has unlocked; the
\* seeded generator is any roll below the total weight.
Rolls(n) ==
  LET total == WeightOf({i \in DOMAIN Pool : Eligible(i, n)})
      unlocked == {s \in MysterySlots : s <= n}
      one(s, roll) == LET i == ChooseMysteryPoolEntry(n, roll)
                      IN  [entry |-> i, item |-> Pool[i].item, price |-> Pool[i].price,
                           token |-> Pool[i].token, purchased |-> FALSE]
  IN  {[s \in unlocked |-> one(s, f[s])] :
         f \in [unlocked -> 0 .. (IF total <= 0 THEN 0 ELSE total - 1)]}

MysteryOffersSoldOut == \A s \in DOMAIN board.offers : board.offers[s].purchased

\* nextMysteryRefreshTokenCost, from the paid refreshes counted so far.
NextMysteryRefreshTokenCost(count) ==
  LET cost == RefreshCost.base + count * RefreshCost.step
  IN  IF RefreshCost.max > 0 /\ cost > RefreshCost.max THEN RefreshCost.max ELSE cost

-----------------------------------------------------------------------------
Asks(r, op) == op \in uses /\ quote[r] = NoQuote
Holding(r, op) == quote[r].op = op
Quoted(r, q) == quote' = [quote EXCEPT ![r] = q]
Answered(r) == Quoted(r, NoQuote)
NewBoard(r) ==
  /\ boards < MaxRolls /\ boards' = boards + 1
  /\ board' = [roll |-> boards + 1, level |-> quote[r].level, offers |-> quote[r].offers]

\* MysteryShopBoard finds no board, or a sold out one: it will put up a new
\* one for nothing.
BoardQuote(r) ==
  /\ Asks(r, "board") /\ MysteryOffersSoldOut
  /\ \E offers \in Rolls(level) :
       Quoted(r, [NoQuote EXCEPT !.op = "refill", !.offers = offers, !.level = level])
  /\ UNCHANGED <<uses, level, board, boards, paidToday, revenue, businessDay,
                 dailyPurchases, shopOrders, bagItem, bagMoves, sold, sales>>

BoardRefill(r) ==
  /\ Holding(r, "refill") /\ NewBoard(r) /\ Answered(r)
  /\ UNCHANGED <<uses, level, paidToday, revenue, businessDay, dailyPurchases,
                 shopOrders, bagItem, bagMoves, sold, sales>>

\* Service.RefreshMysteryShop: the offers and the cost, before the transaction.
RefreshQuote(r) ==
  /\ Asks(r, "refresh")
  /\ \E offers \in Rolls(level) :
       Quoted(r, [NoQuote EXCEPT !.op = "refresh", !.offers = offers, !.level = level,
                                 !.price = NextMysteryRefreshTokenCost(paidToday)])
  /\ UNCHANGED <<uses, level, board, boards, paidToday, revenue, businessDay,
                 dailyPurchases, shopOrders, bagItem, bagMoves, sold, sales>>

\* PostgresStore.RefreshMysteryShop: the quoted cost is spent, the board
\* replaced, the ledger row that the next cost counts is written.
RefreshMysteryShop(r) ==
  /\ Holding(r, "refresh") /\ NewBoard(r) /\ Answered(r)
  /\ paidToday' = IF quote[r].price > 0 THEN paidToday + 1 ELSE paidToday
  /\ revenue' = revenue + quote[r].price
  /\ UNCHANGED <<uses, level, businessDay, dailyPurchases, shopOrders, bagItem,
                 bagMoves, sold, sales>>

\* availableMysteryOffer: the first offer of the item that is not purchased.
OfferQuote(r, s) ==
  /\ Asks(r, "offer") /\ s \in DOMAIN board.offers /\ ~board.offers[s].purchased
  /\ \A t \in DOMAIN board.offers :
       t < s /\ board.offers[t].item = board.offers[s].item => board.offers[t].purchased
  /\ Quoted(r, [NoQuote EXCEPT !.op = "offer", !.slot = s, !.item = board.offers[s].item,
                               !.price = board.offers[s].price, !.token = board.offers[s].token])
  /\ UNCHANGED <<uses, level, board, boards, paidToday, revenue, businessDay,
                 dailyPurchases, shopOrders, bagItem, bagMoves, sold, sales>>

FaultMarkPurchased(s, item) ==
  /\ s \in DOMAIN board.offers /\ board.offers[s].item = item
  /\ board' = [board EXCEPT !.offers[s].purchased = TRUE]
  /\ sold' = [sold EXCEPT ![<<board.roll, s>>] = @ + 1]

\* markMysteryShopOfferPurchased: the slot of today's board must hold the item
\* quoted and not be purchased; the board it was quoted from is not checked.
MarkPurchased(s, item) ==
  /\ s \in DOMAIN board.offers /\ board.offers[s].item = item
  /\ ~board.offers[s].purchased
  /\ board' = [board EXCEPT !.offers[s].purchased = TRUE]
  /\ sold' = [sold EXCEPT ![<<board.roll, s>>] = @ + 1]

\* recordShopDailyPurchaseTx for one unit of the regular slot.
RecordDailyPurchase(day) ==
  /\ dailyPurchases[day] + 1 <= DailyLimit
  /\ dailyPurchases' = [dailyPurchases EXCEPT ![day] = @ + 1]

\* ShopBuy of the regular shop's item: only the business date is read.
RegularQuote(r, token) ==
  /\ Asks(r, "regular")
  /\ Quoted(r, [NoQuote EXCEPT !.op = "regular", !.token = token, !.day = businessDay])
  /\ UNCHANGED <<uses, level, board, boards, paidToday, revenue, businessDay,
                 dailyPurchases, shopOrders, bagItem, bagMoves, sold, sales>>

\* ShopBuyGold: gold is taken, the goods delivered and the purchase recorded
\* in one transaction.
ShopBuyGold(r) ==
  /\ ~quote[r].token /\ Answered(r)
  /\ \/ /\ Holding(r, "offer") /\ MarkPurchased(quote[r].slot, quote[r].item)
        /\ UNCHANGED dailyPurchases
     \/ /\ Holding(r, "regular") /\ RecordDailyPurchase(quote[r].day)
        /\ UNCHANGED <<board, sold>>
  /\ UNCHANGED <<uses, level, boards, paidToday, revenue, businessDay, shopOrders,
                 bagItem, bagMoves, sales>>

\* CreateShopBuyPayment: an order with the quote as its payload; nothing is
\* reserved.
CreateShopBuyPayment(r) ==
  /\ quote[r].token /\ Len(shopOrders) < MaxOrders /\ Answered(r)
  /\ shopOrders' = Append(shopOrders, [op |-> quote[r].op, slot |-> quote[r].slot,
                                       item |-> quote[r].item, day |-> quote[r].day,
                                       status |-> "OPEN"])
  /\ UNCHANGED <<uses, level, board, boards, paidToday, revenue, businessDay,
                 dailyPurchases, bagItem, bagMoves, sold, sales>>

\* fulfillShopBuyPaymentTx of a paid order: it is delivered only if its slot
\* can still be recorded; otherwise the transaction fails and the order stays.
FulfilShopBuy(o) ==
  /\ shopOrders[o].status = "OPEN"
  /\ \/ /\ shopOrders[o].op = "offer" /\ MarkPurchased(shopOrders[o].slot, shopOrders[o].item)
        /\ UNCHANGED dailyPurchases
     \/ /\ shopOrders[o].op = "regular" /\ RecordDailyPurchase(shopOrders[o].day)
        /\ UNCHANGED <<board, sold>>
  /\ shopOrders' = [shopOrders EXCEPT ![o].status = "FULFILLED"]
  /\ UNCHANGED <<uses, level, boards, paidToday, revenue, businessDay, bagItem,
                 bagMoves, quote, sales>>

-----------------------------------------------------------------------------
\* Service.ShopSell: the item in the slot and its price, from a snapshot.
SellQuote(r) ==
  /\ Asks(r, "sell") /\ bagItem # 0 /\ SellPrice[bagItem] > 0
  /\ Quoted(r, [NoQuote EXCEPT !.op = "sell", !.item = bagItem,
                               !.price = SellPrice[bagItem], !.seen = bagMoves])
  /\ UNCHANGED <<uses, level, board, boards, paidToday, revenue, businessDay,
                 dailyPurchases, shopOrders, bagItem, bagMoves, sold, sales>>

\* PostgresStore.ShopSell: the slot is emptied, whatever it holds by then, and
\* the quoted gold credited.
ShopSell(r) ==
  /\ Holding(r, "sell") /\ bagItem # 0 /\ Answered(r)
  /\ sales' = sales \cup {[item |-> bagItem, credit |-> quote[r].price,
                           stale |-> quote[r].seen # bagMoves]}
  /\ bagItem' = 0 /\ bagMoves' = bagMoves + 1
  /\ UNCHANGED <<uses, level, board, boards, paidToday, revenue, businessDay,
                 dailyPurchases, shopOrders, sold>>

\* The inventory's operations change the slot (Custody).
BagChanges(i) ==
  /\ "sell" \in uses /\ bagMoves < MaxRolls /\ i # bagItem
  /\ bagItem' = i /\ bagMoves' = bagMoves + 1
  /\ UNCHANGED <<uses, level, board, boards, paidToday, revenue, businessDay,
                 dailyPurchases, shopOrders, quote, sold, sales>>

\* The transaction fails (balance, bag, offer changed, limit) or never runs.
Declined(r) ==
  /\ quote[r] # NoQuote /\ Answered(r)
  /\ UNCHANGED <<uses, level, board, boards, paidToday, revenue, businessDay,
                 dailyPurchases, shopOrders, bagItem, bagMoves, sold, sales>>

LevelUp ==
  /\ level + 1 \in Levels /\ level' = level + 1
  /\ UNCHANGED <<uses, board, boards, paidToday, revenue, businessDay,
                 dailyPurchases, shopOrders, bagItem, bagMoves, quote, sold, sales>>

\* shopBusinessDay turns at midnight in the shop's time zone; the refreshes
\* are followed within one day.
NextDay ==
  /\ "regular" \in uses /\ businessDay = 1 /\ businessDay' = 2
  /\ UNCHANGED <<uses, level, board, boards, paidToday, revenue, dailyPurchases, shopOrders, bagItem,
                 bagMoves, quote, sold, sales>>

ShopNext ==
  \/ \E r \in Shoppers :
       \/ BoardQuote(r) \/ BoardRefill(r) \/ RefreshQuote(r) \/ RefreshMysteryShop(r)
       \/ \E s \in MysterySlots : OfferQuote(r, s)
       \/ \E token \in BOOLEAN : RegularQuote(r, token)
       \/ ShopBuyGold(r) \/ CreateShopBuyPayment(r)
       \/ SellQuote(r) \/ ShopSell(r) \/ Declined(r)
  \/ \E o \in DOMAIN shopOrders : FulfilShopBuy(o)
  \/ \E i \in Goods : BagChanges(i)
  \/ LevelUp \/ NextDay

ShopSpec == ShopInit /\ [][ShopNext]_shvars

-----------------------------------------------------------------------------
\* The tables keep their types and no day's purchases pass the slot's limit,
\* however gold purchases and orders paid on a later day mix
\* (recordShopDailyPurchaseTx).
ShopTypeOK ==
  /\ boards \in 0 .. MaxRolls /\ level \in Levels
  /\ \A d \in {1, 2} : dailyPurchases[d] \in 0 .. DailyLimit
  /\ \A s \in DOMAIN board.offers : s \in MysterySlots

\* markMysteryShopOfferPurchased: an offer of a board is delivered once, with
\* two requests and a payment order holding the same quote, and a board is
\* never charged for another board's offer.
OfferSoldOnce ==
  /\ \A b \in 1 .. MaxRolls, s \in MysterySlots : sold[<<b, s>>] <= 1
  /\ \A s \in DOMAIN board.offers : board.offers[s].purchased = (sold[<<board.roll, s>>] = 1)

\* rollMysteryShopOffers: every offer on the board is open to the level it was
\* rolled for whenever the pool has an entry that is, even if the character
\* has risen since; an offer never outgrows the slots unlocked at that level.
OffersEligible ==
  \A s \in DOMAIN board.offers :
    /\ s <= board.level
    /\ (\E i \in DOMAIN Pool : Eligible(i, board.level) /\ Pool[i].weight > 0) =>
         Eligible(board.offers[s].entry, board.level)

\* The cost of a refresh is read before its transaction: concurrent refreshes
\* can pay less than the ladder of costs says, never more, and never less than
\* the base cost each.
RefreshRevenue ==
  /\ revenue >= paidToday * NextMysteryRefreshTokenCost(0)
  /\ revenue <= SumFunctionOnSet([n \in 0 .. paidToday - 1 |->
                                     RefreshCost.base + n * RefreshCost.step],
                                 0 .. paidToday - 1)

\* Service.ShopSell prices what it saw in the slot, the store sells what is
\* there: the credit is the item's own price unless the slot changed between.
SoldAtItsPrice == \A x \in sales : x.credit # SellPrice[x.item] => x.stale

\* Offers are rolled for the level, sold once, and paid at the price they had.
OffersSoldRight ==
  ShopTypeOK /\ OfferSoldOnce /\ OffersEligible /\ RefreshRevenue /\ SoldAtItsPrice
=============================================================================
