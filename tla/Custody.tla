------------------------------ MODULE Custody ------------------------------
(***************************************************************************)
(* Where a character's things are: stacks of items and pieces of equipment *)
(* in the bag and the warehouse, worn, in the loot tray, minted, listed on *)
(* the market, recycled or gone; and the AEB a sale moves.                 *)
(*                                                                         *)
(* Sources: internal/platform/store/{postgres,inventory,shop,nft,          *)
(* equipment_enhance,equipment_recycle,equipment_repair,marketplace}.go.   *)
(*                                                                         *)
(* Every operation but one first locks the character's row, so that it is  *)
(* one step here.  CancelNFTMint does not: it looks for a free bag slot    *)
(* and fills it while another operation may do the same.                   *)
(*                                                                         *)
(* A stack is the inventory_items row of a place (character, storage,      *)
(* slot); a listed one is in its listing.  Item ids and equipment ids are  *)
(* numbers, ordered as the code's ORDER BY and sort.Slice order them.      *)
(***************************************************************************)
EXTENDS Integers, FiniteSets, FiniteSetsExt, Sequences, SequencesExt

CONSTANTS Holders,       \* characters
          OwnerOf,       \* character -> account
          Items, Gear,   \* item_catalog ids, equipment ids
          Stackable,     \* items with stackable = TRUE
          StorageSlots,  \* slots resolveStorageSlot tries (1000)
          StorageLimit,  \* slots of bag and warehouse in the rules
          StackMax,      \* largest stack organizeStorage makes (999)
          GearDurability, Wear, GearLevelMax, EnhanceStones, RecipeCost,
          Prices,        \* listing prices
          FeeBps, BurnBps, TreasuryBps, DepositBps,
          RepairPerPoint, RepairMin, RepairBurnBps, RepairRecycleBps, MintFee,
          Casts,         \* bounds: what a behaviour starts with and may be granted
          Quantities,    \* quantities a request names
          MaxListings    \* bound: rows of marketplace_listings

Accounts == {OwnerOf[c] : c \in Holders}

(* Ids are positive, as BIGSERIAL and the catalog number them.  The rules   *)
(* allow a bag of 25 slots and ten expansions of 5, far below the slots    *)
(* tried, and keep burn and treasury within the fee and a repair's shares  *)
(* within its cost (configs/economy: economy_rules, marketplace).          *)
ASSUME CustodyAssumption ==
  /\ IsFiniteSet(Holders) /\ Holders # {}
  /\ IsFiniteSet(Items) /\ Items \subseteq Nat \ {0} /\ Stackable \subseteq Items
  /\ IsFiniteSet(Gear) /\ Gear \subseteq Nat \ {0}
  /\ {StorageSlots, StorageLimit, StackMax, GearDurability, Wear,
      EnhanceStones, RecipeCost} \subseteq Nat \ {0}
  /\ StorageLimit <= StorageSlots
  /\ Prices \subseteq Nat \ {0} /\ Quantities \subseteq Nat \ {0}
  /\ Casts \subseteq [gear : SUBSET Gear, granted : Nat, most : Nat, aeb : Nat]
  /\ {GearLevelMax, MaxListings, FeeBps, BurnBps, TreasuryBps, DepositBps, RepairPerPoint,
      RepairMin, RepairBurnBps, RepairRecycleBps, MintFee} \subseteq Nat
  /\ BurnBps + TreasuryBps <= FeeBps /\ FeeBps <= 10000
  /\ RepairBurnBps + RepairRecycleBps <= 10000

VARIABLES
  cast,        \* the bounds of this behaviour: [gear, granted, most, aeb]
  stacks,      \* inventory_items with a slot: place -> stack
  gear,        \* equipment_items
  tray,        \* PENDING loot_tray_items of a character, oldest first
  nft,         \* status of the equipment's nft_assets row
  returning,   \* CancelNFTMint under way: the bag slot it has chosen
  listings,    \* marketplace_listings
  live,        \* characters with is_deleted = FALSE
  aeb,         \* account -> AEB it can spend
  fees,        \* AEB that has left the accounts: deposits, fees, repairs, mints
  granted, gone,  \* history: quantity of each item that came in, and that went
  cancelled    \* history: pieces a cancelled mint has put back

cvars == <<cast, stacks, gear, tray, nft, returning, listings, live, aeb, fees,
           granted, gone, cancelled>>
market == <<cast, listings, aeb, fees, cancelled>>

Stores == {"BAG", "WAREHOUSE"}
SlotIndex == 0 .. StorageSlots - 1
NoSlot == -1
Place == Holders \X Stores \X SlotIndex
Binds == <<"BOUND", "UNBOUND">>
NoStack == [item |-> 0, quantity |-> 0, bind |-> "BOUND"]
Starter == CHOOSE c \in Holders : TRUE
NoGear == [loc |-> "NONE", holder |-> Starter, slot |-> NoSlot,
           worn |-> NoSlot, durability |-> 0, level |-> 0, bind |-> "BOUND", lapsed |-> FALSE]
NoListing == [status |-> "NONE", seller |-> Starter, gear |-> 0,
              stack |-> NoStack, price |-> 0, deposit |-> 0]
Lesser2(x, y) == IF x < y THEN x ELSE y

EquipmentStorageLocation(l) == IF l = "BAG" THEN "IN_BAG" ELSE "IN_WAREHOUSE"

(* A tradable stack and a tradable piece exist from the start: no code     *)
(* path grants an UNBOUND row, operators insert them.                      *)
CustodyInit ==
  /\ cast \in Casts
  /\ \E i \in Items, g \in cast.gear :
       /\ stacks = [p \in Place |->
            IF p = <<Starter, "BAG", 0>> /\ cast.granted > 0
            THEN [item |-> i, quantity |-> cast.granted, bind |-> "UNBOUND"] ELSE NoStack]
       /\ granted = [j \in Items |-> IF j = i THEN cast.granted ELSE 0]
       /\ gear = [h \in Gear |-> IF h = g
            THEN [NoGear EXCEPT !.loc = "IN_WAREHOUSE", !.slot = 0,
                                !.durability = GearDurability, !.bind = "UNBOUND"]
            ELSE NoGear]
  /\ tray = [c \in Holders |-> << >>]
  /\ nft = [g \in Gear |-> "NONE"]
  /\ returning = [g \in Gear |-> NoSlot]
  /\ listings = [k \in 1 .. MaxListings |-> NoListing]
  /\ live = Holders
  /\ aeb = [a \in Accounts |-> cast.aeb]
  /\ fees = 0
  /\ gone = [i \in Items |-> 0]
  /\ cancelled = {}

-----------------------------------------------------------------------------
(* Slots.  Stacks and equipment share the numbering of a storage.  st and  *)
(* ge are the two tables as the transaction sees them.                     *)
StorageSlotFree(st, ge, c, l, s) ==
  /\ st[<<c, l, s>>] = NoStack
  /\ ~ \E g \in Gear : /\ ge[g].holder = c /\ ge[g].slot = s
                       /\ ge[g].loc = EquipmentStorageLocation(l)

(* Fault: only inventory_items is asked. *)
FaultResolveStorageSlot(st, ge, c, l, requested) ==
  LET free == {s \in SlotIndex : st[<<c, l, s>>] = NoStack}
  IN  IF requested # NoSlot THEN free \cap {requested}
      ELSE IF free = {} THEN {} ELSE {Min(free)}

(* The requested slot if it is free, else the first free one; the empty    *)
(* set is the error "no available slot".                                   *)
ResolveStorageSlot(st, ge, c, l, requested) ==
  LET free == {s \in SlotIndex : StorageSlotFree(st, ge, c, l, s)}
  IN  IF requested # NoSlot THEN free \cap {requested}
      ELSE IF free = {} THEN {} ELSE {Min(free)}

(* inventory_items with q of item i added to a storage: to its first BOUND *)
(* stack, or as a new one.  The empty set is an error.                     *)
AddInventoryItemToStorage(st, ge, c, l, i, q) ==
  LET same == {s \in SlotIndex : /\ st[<<c, l, s>>].item = i
                                 /\ st[<<c, l, s>>].bind = "BOUND"}
  IN  IF i \in Stackable /\ same # {}
      THEN {[st EXCEPT ![<<c, l, Min(same)>>].quantity = @ + q]}
      ELSE {[st EXCEPT ![<<c, l, s>>] = [item |-> i, quantity |-> q, bind |-> "BOUND"]] :
              s \in ResolveStorageSlot(st, ge, c, l, NoSlot)}

(* What a bag holds of an item in the slots below s. *)
InBagBelow(c, i, s) ==
  SumFunctionOnSet([t \in SlotIndex |-> stacks[<<c, "BAG", t>>].quantity],
                   {t \in SlotIndex : t < s /\ stacks[<<c, "BAG", t>>].item = i})

(* inventory_items with q of item i taken from the bag, in slot order; the *)
(* empty set when the bag holds less.                                      *)
ConsumeBagItem(c, i, q) ==
  LET left(p) == LET owed == q - InBagBelow(c, i, p[3]) IN
                 IF owed <= 0 THEN stacks[p].quantity
                 ELSE stacks[p].quantity - Lesser2(owed, stacks[p].quantity)
      drawn == [p \in Place |->
                 IF p[1] = c /\ p[2] = "BAG" /\ stacks[p].item = i
                 THEN IF left(p) = 0 THEN NoStack ELSE [stacks[p] EXCEPT !.quantity = left(p)]
                 ELSE stacks[p]]
  IN  IF InBagBelow(c, i, StorageSlots) < q THEN {} ELSE {drawn}

TakeFrom(p, q) ==
  [stacks EXCEPT ![p] = IF stacks[p].quantity = q THEN NoStack
                        ELSE [stacks[p] EXCEPT !.quantity = @ - q]]

-----------------------------------------------------------------------------
(* Rewards.  Equipment rows are created with full durability. *)
NewGear(c, loc, s) ==
  [NoGear EXCEPT !.loc = loc, !.holder = c, !.slot = s, !.durability = GearDurability]

Unmade == {g \in cast.gear : gear[g].loc = "NONE"}

(* applyTrayRewards: a tray row, and for equipment the row it stands for. *)
ApplyTrayItem(c, i, q) ==
  /\ c \in live /\ granted[i] + q <= cast.most
  /\ tray' = [tray EXCEPT ![c] = Append(@, [gear |-> 0, item |-> i, quantity |-> q])]
  /\ granted' = [granted EXCEPT ![i] = @ + q]
  /\ UNCHANGED <<stacks, gear, nft, returning, live, gone>> /\ UNCHANGED market

ApplyTrayGear(c, g) ==
  /\ c \in live /\ g \in Unmade
  /\ gear' = [gear EXCEPT ![g] = NewGear(c, "IN_LOOT_TRAY", NoSlot)]
  /\ tray' = [tray EXCEPT ![c] = Append(@, [gear |-> g, item |-> 0, quantity |-> 1])]
  /\ UNCHANGED <<stacks, nft, returning, live, granted, gone>> /\ UNCHANGED market

(* applyRewardsToBag, for an item and for equipment: boss, gathering,      *)
(* lottery and bounty rewards.                                             *)
ApplyItemToBag(c, i, q) ==
  /\ c \in live /\ granted[i] + q <= cast.most
  /\ stacks' \in AddInventoryItemToStorage(stacks, gear, c, "BAG", i, q)
  /\ granted' = [granted EXCEPT ![i] = @ + q]
  /\ UNCHANGED <<gear, tray, nft, returning, live, gone>> /\ UNCHANGED market

GearToBag(st, c, g) ==
  \E s \in ResolveStorageSlot(st, gear, c, "BAG", NoSlot) :
     gear' = [gear EXCEPT ![g] = NewGear(c, "IN_BAG", s)]

ApplyGearToBag(c, g) ==
  /\ c \in live /\ g \in Unmade
  /\ GearToBag(stacks, c, g)
  /\ UNCHANGED <<stacks, tray, nft, returning, live, granted, gone>> /\ UNCHANGED market

(* Synthesize: the inputs are consumed, then the new piece takes a slot. *)
Synthesize(c, i, g) ==
  /\ c \in live /\ g \in Unmade
  /\ stacks' \in ConsumeBagItem(c, i, RecipeCost)
  /\ GearToBag(stacks', c, g)
  /\ gone' = [gone EXCEPT ![i] = @ + RecipeCost]
  /\ UNCHANGED <<tray, nft, returning, live, granted>> /\ UNCHANGED market

-----------------------------------------------------------------------------
(* Loot tray.  q = 0 asks for everything. *)
Wanted(q, available) == IF q = 0 THEN available ELSE q

(* Fault: a partial claim closes the row. *)
FaultClaimLootRow(tx, c, k, q) ==
  LET row == tx.tray[k]
      added == AddInventoryItemToStorage(tx.stacks, tx.gear, c, "BAG", row.item, Wanted(q, row.quantity))
      slots == ResolveStorageSlot(tx.stacks, tx.gear, c, "BAG", NoSlot)
  IN  IF row.gear # 0
      THEN IF slots = {} THEN [tx EXCEPT !.ok = FALSE]
           ELSE [tx EXCEPT !.gear[row.gear].loc = "IN_BAG", !.gear[row.gear].slot = Min(slots),
                           !.tray = RemoveAt(@, k)]
      ELSE IF added = {} THEN [tx EXCEPT !.ok = FALSE]
           ELSE [tx EXCEPT !.stacks = CHOOSE st \in added : TRUE, !.tray = RemoveAt(@, k)]

(* claimLootRow within a transaction tx = [ok, stacks, gear, tray]: a row  *)
(* of equipment moves the piece to the bag, a row of items adds them, and  *)
(* a part of a row leaves the rest pending.  tx.ok: no error so far.       *)
ClaimLootRow(tx, c, k, q) ==
  LET row == tx.tray[k]
      amount == Wanted(q, row.quantity)
      slots == ResolveStorageSlot(tx.stacks, tx.gear, c, "BAG", NoSlot)
      added == AddInventoryItemToStorage(tx.stacks, tx.gear, c, "BAG", row.item, amount)
  IN  IF row.gear # 0
      THEN IF slots = {} \/ tx.gear[row.gear].loc # "IN_LOOT_TRAY" THEN [tx EXCEPT !.ok = FALSE]
           ELSE [tx EXCEPT !.gear[row.gear].loc = "IN_BAG", !.gear[row.gear].slot = Min(slots),
                           !.tray = RemoveAt(@, k)]
      ELSE IF amount > row.quantity \/ added = {} THEN [tx EXCEPT !.ok = FALSE]
           ELSE [tx EXCEPT !.stacks = CHOOSE st \in added : TRUE,
                           !.tray = IF amount = row.quantity THEN RemoveAt(tx.tray, k)
                                    ELSE [tx.tray EXCEPT ![k].quantity = @ - amount]]

LootTx(c) == [ok |-> TRUE, stacks |-> stacks, gear |-> gear, tray |-> tray[c]]

Claim(c, tx) ==
  /\ c \in live /\ tx.ok
  /\ stacks' = tx.stacks /\ gear' = tx.gear
  /\ tray' = [tray EXCEPT ![c] = tx.tray]
  /\ UNCHANGED <<nft, returning, live, granted, gone>> /\ UNCHANGED market

LootClaim(c, k, q) == k \in DOMAIN tray[c] /\ Claim(c, ClaimLootRow(LootTx(c), c, k, q))

(* The transaction after each of the pending rows, the oldest first; one   *)
(* that fails undoes them all.                                             *)
ClaimedRows(c) ==
  LET after[n \in 0 .. Len(tray[c])] ==
        IF n = 0 THEN LootTx(c)
        ELSE IF after[n - 1].ok THEN ClaimLootRow(after[n - 1], c, 1, 0) ELSE after[n - 1]
  IN  after

LootClaimAll(c) == tray[c] # << >> /\ Claim(c, ClaimedRows(c)[Len(tray[c])])

LootDiscard(c, k) ==
  /\ c \in live /\ k \in DOMAIN tray[c]
  /\ LET row == tray[c][k] IN
       IF row.gear # 0
       THEN /\ gear' = [gear EXCEPT ![row.gear].loc = IF @ = "IN_LOOT_TRAY" THEN "DELETED" ELSE @]
            /\ gone' = gone
       ELSE /\ gone' = [gone EXCEPT ![row.item] = @ + row.quantity]
            /\ gear' = gear
  /\ tray' = [tray EXCEPT ![c] = RemoveAt(@, k)]
  /\ UNCHANGED <<stacks, nft, returning, live, granted>> /\ UNCHANGED market

-----------------------------------------------------------------------------
(* Bag, warehouse and worn equipment. *)
MoveGear(c, g, from, to, requested) ==
  /\ c \in live /\ gear[g].holder = c /\ gear[g].loc = EquipmentStorageLocation(from)
  /\ \E s \in ResolveStorageSlot(stacks, gear, c, to, requested) :
       gear' = [gear EXCEPT ![g].loc = EquipmentStorageLocation(to), ![g].slot = s]
  /\ UNCHANGED <<stacks, tray, nft, returning, live, granted, gone>> /\ UNCHANGED market

(* A whole stack moves as it is.  A part becomes a new row with the        *)
(* default bind_type, BOUND.                                               *)
MoveInventory(c, s, q, from, to) ==
  /\ c \in live /\ stacks[<<c, from, s>>].quantity >= q
  /\ LET row == stacks[<<c, from, s>>]
         moved == [row EXCEPT !.quantity = q, !.bind = IF q = row.quantity THEN @ ELSE "BOUND"]
     IN  \E t \in ResolveStorageSlot(stacks, gear, c, to, NoSlot) :
           stacks' = [TakeFrom(<<c, from, s>>, q) EXCEPT ![<<c, to, t>>] = moved]
  /\ UNCHANGED <<gear, tray, nft, returning, live, granted, gone>> /\ UNCHANGED market

WarehouseDeposit(c) ==
  \/ \E g \in Gear, s \in SlotIndex \cup {NoSlot} : MoveGear(c, g, "BAG", "WAREHOUSE", s)
  \/ \E s \in SlotIndex, q \in Quantities : MoveInventory(c, s, q, "BAG", "WAREHOUSE")

WarehouseWithdraw(c) ==
  \/ \E g \in Gear, s \in SlotIndex \cup {NoSlot} : MoveGear(c, g, "WAREHOUSE", "BAG", s)
  \/ \E s \in SlotIndex, q \in Quantities : MoveInventory(c, s, q, "WAREHOUSE", "BAG")

(* What is worn in the slot goes to the bag first, while the new piece     *)
(* still has its own slot there.                                           *)
EquipItem(c, g, e) ==
  LET worn == {h \in Gear : gear[h].holder = c /\ gear[h].loc = "EQUIPPED" /\ gear[h].worn = e}
      on(ge) == [ge EXCEPT ![g].loc = "EQUIPPED", ![g].slot = NoSlot, ![g].worn = e]
  IN  /\ c \in live /\ gear[g].holder = c /\ gear[g].loc = "IN_BAG"
      /\ gear[g].durability > 0
      /\ IF worn = {} THEN gear' = on(gear)
         ELSE \E h \in worn, s \in ResolveStorageSlot(stacks, gear, c, "BAG", NoSlot) :
                gear' = on([gear EXCEPT ![h].loc = "IN_BAG", ![h].slot = s])
      /\ UNCHANGED <<stacks, tray, nft, returning, live, granted, gone>> /\ UNCHANGED market

UnequipItem(c, g, requested) ==
  /\ c \in live /\ gear[g].holder = c /\ gear[g].loc = "EQUIPPED"
  /\ \E s \in ResolveStorageSlot(stacks, gear, c, "BAG", requested) :
       gear' = [gear EXCEPT ![g].loc = "IN_BAG", ![g].slot = s]
  /\ UNCHANGED <<stacks, tray, nft, returning, live, granted, gone>> /\ UNCHANGED market

(* organizeStorage: one group per item and bind type, cut into stacks of   *)
(* the largest size, in slots from 0 in the order of item and bind type;   *)
(* the equipment follows in the order of its ids.                          *)
GroupTotal(c, l, i, b) ==
  SumFunctionOnSet([s \in SlotIndex |-> stacks[<<c, l, s>>].quantity],
                   {s \in SlotIndex : /\ stacks[<<c, l, s>>].item = i
                                      /\ stacks[<<c, l, s>>].bind = Binds[b]})

MaxStack(i) == IF i \in Stackable THEN StackMax ELSE 1

GroupStacks(c, l, i, b) == (GroupTotal(c, l, i, b) + MaxStack(i) - 1) \div MaxStack(i)

Groups == Items \X {1, 2}

StacksOf(c, l, groups) ==
  SumFunctionOnSet([k \in Groups |-> GroupStacks(c, l, k[1], k[2])], groups)

StacksBefore(c, l, i, b) ==
  StacksOf(c, l, {k \in Groups : k[1] < i \/ (k[1] = i /\ k[2] < b)})

MergedStack(c, l, s) ==
  LET mine == {k \in Groups :
                 /\ StacksBefore(c, l, k[1], k[2]) <= s
                 /\ s < StacksBefore(c, l, k[1], k[2]) + GroupStacks(c, l, k[1], k[2])}
  IN  IF mine = {} THEN NoStack
      ELSE LET k == CHOOSE x \in mine : TRUE
               nth == s - StacksBefore(c, l, k[1], k[2])
           IN  [item |-> k[1], bind |-> Binds[k[2]],
                quantity |-> Lesser2(MaxStack(k[1]),
                                     GroupTotal(c, l, k[1], k[2]) - nth * MaxStack(k[1]))]

OrganizeStorage(c, l) ==
  LET merged == StacksOf(c, l, Groups)
      inside == {g \in Gear : gear[g].holder = c /\ gear[g].loc = EquipmentStorageLocation(l)}
  IN  /\ c \in live
      /\ merged + Cardinality(inside) <= StorageLimit
      /\ stacks' = [p \in Place |-> IF p[1] = c /\ p[2] = l THEN MergedStack(c, l, p[3]) ELSE stacks[p]]
      /\ gear' = [g \in Gear |-> IF g \in inside
            THEN [gear[g] EXCEPT !.slot = merged + Cardinality({h \in inside : h < g})]
            ELSE gear[g]]
      /\ UNCHANGED <<tray, nft, returning, live, granted, gone>> /\ UNCHANGED market

-----------------------------------------------------------------------------
(* Ends of an item: discarded, sold to a shop, recycled, purged. *)
Gone(g, loc) == [gear EXCEPT ![g].loc = loc, ![g].slot = NoSlot]

Linked(g) == nft[g] \in {"MINT_REQUESTED", "MINTED"}

(* InventoryDiscard and sellShopEquipment of a piece in the bag. *)
DiscardGear(c, g) ==
  /\ c \in live /\ gear[g].holder = c /\ gear[g].loc = "IN_BAG"
  /\ gear' = Gone(g, "DELETED")
  /\ UNCHANGED <<stacks, tray, nft, returning, live, granted, gone>> /\ UNCHANGED market

SellShopEquipment(c, g) ==
  /\ c \in live /\ gear[g].holder = c /\ gear[g].loc = "IN_BAG" /\ ~Linked(g)
  /\ gear' = [Gone(g, "CONSUMED") EXCEPT ![g].worn = NoSlot]
  /\ UNCHANGED <<stacks, tray, nft, returning, live, granted, gone>> /\ UNCHANGED market

(* InventoryDiscard (q = 0: all) and sellShopInventory of a bag stack. *)
InventoryDiscard(c, s, q) ==
  /\ c \in live /\ stacks[<<c, "BAG", s>>] # NoStack
  /\ LET row == stacks[<<c, "BAG", s>>]
         amount == Wanted(q, row.quantity)
     IN  /\ amount <= row.quantity
         /\ stacks' = TakeFrom(<<c, "BAG", s>>, amount)
         /\ gone' = [gone EXCEPT ![row.item] = @ + amount]
  /\ UNCHANGED <<gear, tray, nft, returning, live, granted>> /\ UNCHANGED market

SellShopInventory(c, s, q) == q > 0 /\ InventoryDiscard(c, s, q)

EquipmentNPCRecycle(c, g) ==
  /\ c \in live /\ gear[g].holder = c /\ gear[g].loc = "IN_BAG" /\ ~Linked(g)
  /\ gear' = [Gone(g, "NPC_RECYCLED") EXCEPT ![g].worn = NoSlot, ![g].lapsed = FALSE]
  /\ UNCHANGED <<stacks, tray, nft, returning, live, granted, gone>> /\ UNCHANGED market

(* Seven days pass. *)
RecycleLapses(g) ==
  /\ gear[g].loc = "NPC_RECYCLED" /\ ~gear[g].lapsed
  /\ gear' = [gear EXCEPT ![g].lapsed = TRUE]
  /\ UNCHANGED <<stacks, tray, nft, returning, live, granted, gone>> /\ UNCHANGED market

(* PurgeExpiredNPCRecycledEquipment; loot_tray_items.equipment_id is set   *)
(* to NULL with it.                                                        *)
PurgeExpiredNPCRecycledEquipment ==
  /\ \E g \in Gear : gear[g].loc = "NPC_RECYCLED" /\ gear[g].lapsed
  /\ gear' = [g \in Gear |-> IF gear[g].loc = "NPC_RECYCLED" /\ gear[g].lapsed
                             THEN [NoGear EXCEPT !.loc = "PURGED"] ELSE gear[g]]
  /\ UNCHANGED <<stacks, tray, nft, returning, live, granted, gone>> /\ UNCHANGED market
-----------------------------------------------------------------------------
(* Equipment: enhancement, wear and repair. *)
EquipmentEnhance(c, g, i) ==
  /\ c \in live /\ gear[g].holder = c
  /\ gear[g].loc \in {"IN_BAG", "IN_WAREHOUSE"} /\ ~Linked(g)
  /\ gear[g].level < GearLevelMax
  /\ stacks' \in ConsumeBagItem(c, i, EnhanceStones)
  /\ gone' = [gone EXCEPT ![i] = @ + EnhanceStones]
  /\ gear' = [gear EXCEPT ![g].level = @ + 1]
  /\ UNCHANGED <<tray, nft, returning, live, granted>> /\ UNCHANGED market

(* wearEquippedGear, when a dungeon run or a boss fight ends. *)
WearEquippedGear(c) ==
  /\ \E g \in Gear : gear[g].holder = c /\ gear[g].loc = "EQUIPPED" /\ gear[g].durability > 0
  /\ gear' = [g \in Gear |-> IF gear[g].holder = c /\ gear[g].loc = "EQUIPPED"
                THEN [gear[g] EXCEPT !.durability = @ - Lesser2(@, Wear)] ELSE gear[g]]
  /\ UNCHANGED <<stacks, tray, nft, returning, live, granted, gone>> /\ UNCHANGED market

RepairCost(missing) ==
  IF missing <= 0 THEN 0
  ELSE IF missing * RepairPerPoint < RepairMin THEN RepairMin ELSE missing * RepairPerPoint

BpsAmount(amount, bps) == (amount * bps) \div 10000

BpsCeil(amount, bps) ==
  IF amount <= 0 \/ bps <= 0 THEN 0
  ELSE IF (amount * bps + 9999) \div 10000 < 1 THEN 1 ELSE (amount * bps + 9999) \div 10000

(* Burn, recycling and reward shares of a repair or a mint fee. *)
FeeShares(cost) ==
  LET burn == BpsCeil(cost, RepairBurnBps)
      recycle == BpsCeil(cost, RepairRecycleBps)
  IN  [burn |-> burn, recycle |-> recycle,
       rewards |-> IF cost < burn + recycle THEN 0 ELSE cost - burn - recycle]

(* spendTokenInTx: see AebLedger; here only that the AEB must be there. *)
SpendAeb(a, amount) ==
  /\ aeb[a] >= amount
  /\ aeb' = [aeb EXCEPT ![a] = @ - amount]
  /\ fees' = fees + amount

Beyond == {"NONE", "PURGED", "DELETED", "BURNED", "CONSUMED", "LISTED", "ON_CHAIN",
           "MINT_PENDING", "LOCKED_FOR_MINT"}

EquipmentRepair(c, g) ==
  /\ c \in live /\ gear[g].holder = c /\ gear[g].loc \notin Beyond
  /\ gear[g].durability < GearDurability
  /\ SpendAeb(OwnerOf[c], RepairCost(GearDurability - gear[g].durability))
  /\ gear' = [gear EXCEPT ![g].durability = GearDurability]
  /\ UNCHANGED <<cast, stacks, tray, nft, returning, live, granted, gone, listings, cancelled>>

-----------------------------------------------------------------------------
(* Minting. *)
FaultRequestNFTMint(c, g) ==
  /\ c \in live /\ gear[g].holder = c /\ nft[g] \in {"NONE", "CANCELLED"}
  /\ gear[g].loc \in {"IN_BAG", "IN_WAREHOUSE", "NPC_RECYCLED"}
  /\ SpendAeb(OwnerOf[c], MintFee)
  /\ nft' = [nft EXCEPT ![g] = "MINT_REQUESTED"]
  /\ gear' = [Gone(g, "MINT_PENDING") EXCEPT ![g].worn = NoSlot]
  /\ UNCHANGED <<cast, stacks, tray, returning, live, granted, gone, listings, cancelled>>

RequestNFTMint(c, g) ==
  /\ c \in live /\ gear[g].holder = c
  /\ gear[g].loc \in {"IN_BAG", "IN_WAREHOUSE"}
  /\ nft[g] \notin {"OFFCHAIN", "MINT_REQUESTED", "MINTED"}
  /\ SpendAeb(OwnerOf[c], MintFee)
  /\ nft' = [nft EXCEPT ![g] = "MINT_REQUESTED"]
  /\ gear' = [Gone(g, "MINT_PENDING") EXCEPT ![g].worn = NoSlot]
  /\ UNCHANGED <<cast, stacks, tray, returning, live, granted, gone, listings, cancelled>>

ConfirmNFTMint(g) ==
  /\ nft[g] = "MINT_REQUESTED" /\ returning[g] = NoSlot
  /\ nft' = [nft EXCEPT ![g] = "MINTED"]
  /\ gear' = [gear EXCEPT ![g].loc = IF @ = "MINT_PENDING" THEN "ON_CHAIN" ELSE @]
  /\ UNCHANGED <<stacks, tray, returning, live, granted, gone>> /\ UNCHANGED market

(* CancelNFTMint has locked the request and the equipment, not the         *)
(* character, and has found a free slot.                                   *)
CancelMintResolve(g) ==
  /\ nft[g] = "MINT_REQUESTED" /\ returning[g] = NoSlot /\ gear[g].loc = "MINT_PENDING"
  /\ \E s \in ResolveStorageSlot(stacks, gear, gear[g].holder, "BAG", NoSlot) :
       returning' = [returning EXCEPT ![g] = s]
  /\ UNCHANGED <<stacks, gear, tray, nft, live, granted, gone>> /\ UNCHANGED market

TakenByGear(c, s) ==
  \E h \in Gear : gear[h].holder = c /\ gear[h].loc = "IN_BAG" /\ gear[h].slot = s

(* It fills the slot and refunds the fee.  The unique index of equipment   *)
(* slots aborts it when another piece has taken the slot meanwhile; a      *)
(* stack that has taken it goes unnoticed.                                 *)
CancelMintReturn(g) ==
  /\ returning[g] # NoSlot /\ ~TakenByGear(gear[g].holder, returning[g])
  /\ nft' = [nft EXCEPT ![g] = "CANCELLED"]
  /\ gear' = [gear EXCEPT ![g].loc = "IN_BAG", ![g].slot = returning[g]]
  /\ returning' = [returning EXCEPT ![g] = NoSlot]
  /\ aeb' = [aeb EXCEPT ![OwnerOf[gear[g].holder]] = @ + MintFee]
  /\ fees' = fees - MintFee
  /\ cancelled' = cancelled \cup {g}
  /\ UNCHANGED <<cast, stacks, tray, live, granted, gone, listings>>

CancelMintAbort(g) ==
  /\ returning[g] # NoSlot /\ TakenByGear(gear[g].holder, returning[g])
  /\ returning' = [returning EXCEPT ![g] = NoSlot]
  /\ UNCHANGED <<stacks, gear, tray, nft, live, granted, gone>> /\ UNCHANGED market

-----------------------------------------------------------------------------
(* The market. *)
FreeListings == {k \in DOMAIN listings : listings[k].status = "NONE"}

(* MarketplaceCreateListing once licence, restrictions and limits have     *)
(* passed (MarketLimits): the deposit is paid and the asset leaves its     *)
(* place.                                                                  *)
InsertListing(c, g, stack, price) ==
  /\ c \in live /\ FreeListings # {}
  /\ SpendAeb(OwnerOf[c], BpsCeil(price, DepositBps))
  /\ listings' = [listings EXCEPT ![Min(FreeListings)] =
        [status |-> "LISTED", seller |-> c, gear |-> g, stack |-> stack,
         price |-> price, deposit |-> BpsCeil(price, DepositBps)]]
  /\ UNCHANGED <<cast, tray, nft, returning, live, granted, gone, cancelled>>

LockEquipmentForListing(c, g, price) ==
  /\ gear[g].holder = c /\ gear[g].loc \in {"IN_BAG", "IN_WAREHOUSE"}
  /\ gear[g].bind = "UNBOUND"
  /\ gear' = Gone(g, "LISTED") /\ stacks' = stacks
  /\ InsertListing(c, g, NoStack, price)

LockItemForListing(c, l, s, q, price) ==
  /\ stacks[<<c, l, s>>].quantity >= q /\ stacks[<<c, l, s>>].bind = "UNBOUND"
  /\ stacks' = TakeFrom(<<c, l, s>>, q) /\ gear' = gear
  /\ InsertListing(c, 0, [stacks[<<c, l, s>>] EXCEPT !.quantity = q], price)

(* transferListedAssetToBuyer and returnListedAssetToSellerBag: the asset  *)
(* of listing k into the bag of c.                                         *)
HandOver(k, c) ==
  \E s \in ResolveStorageSlot(stacks, gear, c, "BAG", NoSlot) :
    IF listings[k].gear # 0
    THEN /\ gear[listings[k].gear].loc = "LISTED"
         /\ gear' = [gear EXCEPT ![listings[k].gear] =
                       [@ EXCEPT !.holder = c, !.loc = "IN_BAG", !.slot = s]]
         /\ stacks' = stacks
    ELSE /\ stacks' = [stacks EXCEPT ![<<c, "BAG", s>>] = listings[k].stack]
         /\ gear' = gear

(* What the seller gets of a price, and what burn, treasury and rewards    *)
(* keep: the rewards are what the fee leaves.                              *)
SaleShares(price) ==
  LET fee == BpsAmount(price, FeeBps)
      burn == BpsAmount(price, BurnBps)
      treasury == BpsAmount(price, TreasuryBps)
      rewards == IF fee < burn + treasury THEN 0 ELSE fee - burn - treasury
  IN  [net |-> price - fee, kept |-> burn + treasury + rewards]

MarketplaceBuy(k, c) ==
  /\ c \in live
  /\ listings[k].status = "LISTED" /\ OwnerOf[listings[k].seller] # OwnerOf[c]
  /\ aeb[OwnerOf[c]] >= listings[k].price
  /\ aeb' = [aeb EXCEPT ![OwnerOf[c]] = @ - listings[k].price,
       ![OwnerOf[listings[k].seller]] = @ + SaleShares(listings[k].price).net + listings[k].deposit]
  /\ fees' = fees + SaleShares(listings[k].price).kept - listings[k].deposit
  /\ HandOver(k, c)
  /\ listings' = [listings EXCEPT ![k].status = "SOLD"]
  /\ UNCHANGED <<cast, tray, nft, returning, live, granted, gone, cancelled>>

(* MarketplaceCancel keeps the deposit.  A deleted character's listing     *)
(* cannot be cancelled.                                                    *)
MarketplaceCancel(k) ==
  /\ listings[k].status = "LISTED" /\ listings[k].seller \in live
  /\ HandOver(k, listings[k].seller)
  /\ listings' = [listings EXCEPT ![k].status = "CANCELLED"]
  /\ UNCHANGED <<cast, tray, nft, returning, live, granted, gone, aeb, fees, cancelled>>

(* player.go DeleteCharacter: the things stay where they are. *)
RetireHolder(c) ==
  /\ c \in live /\ live' = live \ {c}
  /\ UNCHANGED <<stacks, gear, tray, nft, returning, granted, gone>> /\ UNCHANGED market

-----------------------------------------------------------------------------
ItemStep(c) ==
  \/ \E i \in Items, q \in Quantities : ApplyTrayItem(c, i, q) \/ ApplyItemToBag(c, i, q)
  \/ \E k \in 1 .. 3, q \in Quantities \cup {0} : LootClaim(c, k, q)
  \/ LootClaimAll(c)
  \/ \E k \in 1 .. 3 : LootDiscard(c, k)
  \/ WarehouseDeposit(c) \/ WarehouseWithdraw(c)
  \/ \E l \in Stores : OrganizeStorage(c, l)
  \/ \E s \in SlotIndex, q \in Quantities \cup {0} : InventoryDiscard(c, s, q) \/ SellShopInventory(c, s, q)
  \/ \E l \in Stores, s \in SlotIndex, q \in Quantities, price \in Prices :
        LockItemForListing(c, l, s, q, price)

GearStep(c, g) ==
  \/ ApplyTrayGear(c, g) \/ ApplyGearToBag(c, g)
  \/ \E i \in Items : Synthesize(c, i, g) \/ EquipmentEnhance(c, g, i)
  \/ \E e \in {0} : EquipItem(c, g, e)
  \/ \E s \in SlotIndex \cup {NoSlot} : UnequipItem(c, g, s)
  \/ DiscardGear(c, g) \/ SellShopEquipment(c, g)
  \/ EquipmentNPCRecycle(c, g) \/ EquipmentRepair(c, g) \/ RequestNFTMint(c, g)
  \/ \E price \in Prices : LockEquipmentForListing(c, g, price)

CustodyNext ==
  \/ \E c \in Holders : ItemStep(c) \/ WearEquippedGear(c) \/ RetireHolder(c)
  \/ \E c \in Holders, g \in Gear : GearStep(c, g)
  \/ \E g \in Gear : RecycleLapses(g) \/ ConfirmNFTMint(g)
  \/ \E g \in Gear : CancelMintResolve(g) \/ CancelMintReturn(g) \/ CancelMintAbort(g)
  \/ \E k \in 1 .. MaxListings : MarketplaceCancel(k) \/ \E c \in Holders : MarketplaceBuy(k, c)
  \/ PurgeExpiredNPCRecycledEquipment

CustodySpec == CustodyInit /\ [][CustodyNext]_cvars

-----------------------------------------------------------------------------
(* Type: the tables hold what their columns allow. *)
CustodyTypeOK ==
  /\ \A p \in Place : stacks[p] = NoStack \/ (stacks[p].item \in Items /\ stacks[p].quantity > 0)
  /\ \A g \in Gear : /\ gear[g].durability \in 0 .. GearDurability
                     /\ gear[g].level \in 0 .. GearLevelMax
                     /\ gear[g].loc \in {"IN_BAG", "IN_WAREHOUSE"} <=> gear[g].slot # NoSlot
                     /\ gear[g].loc = "EQUIPPED" => gear[g].worn # NoSlot
  /\ \A a \in Accounts : aeb[a] >= 0

Clashes ==
  {g \in Gear : \E l \in Stores :
     /\ gear[g].loc = EquipmentStorageLocation(l)
     /\ stacks[<<gear[g].holder, l, gear[g].slot>>] # NoStack}

PiecesApart ==
  \A g, h \in Gear : g # h /\ gear[g].holder = gear[h].holder /\ gear[g].loc = gear[h].loc =>
    /\ gear[g].loc \in {"IN_BAG", "IN_WAREHOUSE"} => gear[g].slot # gear[h].slot
    /\ gear[g].loc = "EQUIPPED" => gear[g].worn # gear[h].worn

(* Safety, for resolveStorageSlot and its callers: no two things share a   *)
(* storage slot, no two pieces an equipment slot.  The only exception is a *)
(* piece that a cancelled mint has put back.                               *)
OneThingPerSlot == PiecesApart /\ Clashes \subseteq cancelled

InStacks(i, binds) ==
  SumFunctionOnSet([p \in Place |-> stacks[p].quantity],
                   {p \in Place : stacks[p].item = i /\ stacks[p].bind \in binds})

InListings(i) ==
  SumFunctionOnSet([k \in DOMAIN listings |-> listings[k].stack.quantity],
                   {k \in DOMAIN listings : /\ listings[k].status = "LISTED"
                                            /\ listings[k].stack.item = i})

InRows(rows, i) ==
  SumFunctionOnSet([k \in DOMAIN rows |-> rows[k].quantity], {k \in DOMAIN rows : rows[k].item = i})

InTrays(i) == SumFunctionOnSet([c \in Holders |-> InRows(tray[c], i)], Holders)

(* Safety: claims of parts of a row, moves of parts of a stack, merging,   *)
(* listing and sale neither make nor lose a single item.                   *)
ItemsConserved ==
  \A i \in Items :
    InStacks(i, {"BOUND", "UNBOUND"}) + InListings(i) + InTrays(i) = granted[i] - gone[i]

(* Safety: a piece is LISTED exactly when one LISTED listing offers it,    *)
(* and then it still is its seller's; it is in the loot tray exactly when  *)
(* one pending row of its holder's tray stands for it; it waits for a mint *)
(* or is on the chain exactly when its nft_assets row says so.             *)
ListedBy(g) == {k \in DOMAIN listings : listings[k].status = "LISTED" /\ listings[k].gear = g}

TablesAgree ==
  \A g \in Gear :
    /\ (gear[g].loc = "LISTED") = (ListedBy(g) # {})
    /\ \A k \in ListedBy(g) : ListedBy(g) = {k} /\ listings[k].seller = gear[g].holder
    /\ (gear[g].loc = "IN_LOOT_TRAY") =
         (Cardinality({k \in DOMAIN tray[gear[g].holder] : tray[gear[g].holder][k].gear = g}) = 1)
    /\ (gear[g].loc = "MINT_PENDING") = (nft[g] = "MINT_REQUESTED")
    /\ (gear[g].loc = "ON_CHAIN") = (nft[g] = "MINTED")

(* Safety: buyer, seller, deposit and fee shares add up, whatever the      *)
(* rounding: no AEB is made or lost by a sale, a cancellation or a mint.   *)
MarketConservesAeb ==
  SumFunctionOnSet(aeb, Accounts) + fees = Cardinality(Accounts) * cast.aeb

(* Safety: the recorded shares of a repair or mint fee cover the cost.     *)
(* Both shares are rounded up, so that they may exceed it, by one.         *)
SharesCoverCost ==
  \A cost \in 1 .. 40 : LET share == FeeShares(cost) IN
     share.burn + share.recycle + share.rewards - cost \in {0, 1}

(* Action: no operation makes bound items tradable. *)
NothingUnbound ==
  [][\A i \in Items :
       InStacks(i, {"UNBOUND"})' + InListings(i)' <= InStacks(i, {"UNBOUND"}) + InListings(i)]_<<stacks, listings>>

Phase(loc) ==
  CASE loc = "NONE" -> "unmade"
    [] loc \in {"IN_LOOT_TRAY", "IN_BAG", "IN_WAREHOUSE", "EQUIPPED"} -> "held"
    [] loc = "LISTED" -> "offered"
    [] loc = "MINT_PENDING" -> "minting"
    [] loc = "ON_CHAIN" -> "minted"
    [] loc = "NPC_RECYCLED" -> "recycled"
    [] OTHER -> "gone"

Lifecycle == INSTANCE AssetLifecycle WITH
  assets <- [g \in Gear |-> [phase |-> Phase(gear[g].loc), owner |-> OwnerOf[gear[g].holder]]]

(* Refinement: every piece lives the life AssetLifecycle allows, and no    *)
(* operation on the stacks around it makes bound items tradable.           *)
GearFollowsLifecycle == Lifecycle!AssetSpec /\ NothingUnbound

(* Every thing is in one place, and the tables that name it agree on it. *)
ThingsInPlace == CustodyTypeOK /\ OneThingPerSlot /\ TablesAgree

(* Neither items nor AEB are made or lost by what moves them. *)
NothingLost == ItemsConserved /\ MarketConservesAeb /\ SharesCoverCost
=============================================================================
