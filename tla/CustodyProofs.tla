---------------------------- MODULE CustodyProofs ----------------------------
(***************************************************************************)
(* Proofs about Custody, for any characters, items, equipment, storage     *)
(* sizes, prices, fees and number of listings.                             *)
(*                                                                         *)
(* That the tables agree is not inductive: that a piece which is handed    *)
(* over, claimed or put back finds its slot free, and that no other row    *)
(* still names it, rests on the shape of the rows of every table.  The     *)
(* invariant has one part per pair of tables: stacks and equipment,        *)
(* equipment and loot trays, equipment and nft_assets, equipment and       *)
(* marketplace_listings.                                                   *)
(*                                                                         *)
(* Below the theorem about places come the life of a piece, the counts of  *)
(* items in stacks, rows and listings, and the AEB of the accounts.        *)
(***************************************************************************)
EXTENDS Custody, Sums

-----------------------------------------------------------------------------
(* Custody: rows of the tables. *)
StackRow == [item : Items, quantity : Nat \ {0}, bind : {"BOUND", "UNBOUND"}]
Stack == StackRow \cup {NoStack}

Tied == {"IN_LOOT_TRAY", "LISTED", "MINT_PENDING", "ON_CHAIN"}
Stored == {"IN_BAG", "IN_WAREHOUSE"}
Places == Tied \cup Stored \cup {"NONE", "EQUIPPED", "NPC_RECYCLED", "DELETED", "CONSUMED", "PURGED"}

Piece == [loc : Places, holder : Holders, slot : SlotIndex \cup {NoSlot}, worn : {0, NoSlot},
          durability : 0 .. GearDurability, level : 0 .. GearLevelMax,
          bind : {"BOUND", "UNBOUND"}, lapsed : BOOLEAN]

SoundPiece(x) ==
    /\ x \in Piece
    /\ x.loc \in Stored <=> x.slot # NoSlot
    /\ x.loc = "EQUIPPED" => x.worn # NoSlot

TrayRow == [gear : {0}, item : Items, quantity : Nat \ {0}] \cup [gear : Gear, item : {0}, quantity : {1}]

Listing == [status : {"NONE", "LISTED", "SOLD", "CANCELLED"}, seller : Holders, gear : Gear \cup {0},
            stack : Stack, price : Nat, deposit : Nat]

(* Bag, warehouse and worn equipment, as two tables st and ge have them:   *)
(* no two pieces in a slot, no piece and stack but for the pieces in ca.   *)
ApartIn(ge) ==
    \A g, h \in Gear : g # h /\ ge[g].holder = ge[h].holder /\ ge[g].loc = ge[h].loc =>
        /\ ge[g].loc \in Stored => ge[g].slot # ge[h].slot
        /\ ge[g].loc = "EQUIPPED" => ge[g].worn # ge[h].worn

ClashFree(st, ge, ca) ==
    \A g \in Gear, l \in Stores :
        ge[g].loc = EquipmentStorageLocation(l) =>
            g \in ca \/ st[<<ge[g].holder, l, ge[g].slot>>] = NoStack

SlotsInv(st, ge, ca) ==
    /\ st \in [Place -> Stack]
    /\ ge \in [Gear -> Piece] /\ \A g \in Gear : SoundPiece(ge[g])
    /\ ApartIn(ge) /\ ClashFree(st, ge, ca)

(* A tray's rows of equipment are the pieces that are in that tray. *)
InTrayOf(x, c) == x.loc = "IN_LOOT_TRAY" /\ x.holder = c

RowsInv(rows, c, ge) ==
    /\ rows \in Seq(TrayRow)
    /\ \A k \in DOMAIN rows : rows[k].gear # 0 => InTrayOf(ge[rows[k].gear], c)
    /\ \A j, k \in DOMAIN rows : rows[j].gear = rows[k].gear /\ rows[j].gear # 0 => j = k
    /\ \A g \in Gear : InTrayOf(ge[g], c) => \E k \in DOMAIN rows : rows[k].gear = g

TraysInv(tr, ge) == tr \in [Holders -> Seq(TrayRow)] /\ \A c \in Holders : RowsInv(tr[c], c, ge)

(* The nft_assets row says whether a piece waits for its mint or is on the *)
(* chain; a mint under cancellation is still requested.                    *)
MintInv(ge, nf, re) ==
    /\ nf \in [Gear -> {"NONE", "MINT_REQUESTED", "MINTED", "CANCELLED"}]
    /\ re \in [Gear -> SlotIndex \cup {NoSlot}]
    /\ \A g \in Gear : /\ ge[g].loc = "MINT_PENDING" <=> nf[g] = "MINT_REQUESTED"
                       /\ ge[g].loc = "ON_CHAIN" <=> nf[g] = "MINTED"
                       /\ re[g] # NoSlot => nf[g] = "MINT_REQUESTED"

(* Listing k offers piece g. *)
Offers(li, k, g) == li[k].status = "LISTED" /\ li[k].gear = g

ListedInv(ge, li) ==
    /\ li \in [1 .. MaxListings -> Listing]
    /\ \A k \in 1 .. MaxListings : li[k].status = "LISTED" /\ li[k].gear = 0 => li[k].stack # NoStack
    /\ \A k \in 1 .. MaxListings, g \in Gear :
           Offers(li, k, g) => ge[g].loc = "LISTED" /\ ge[g].holder = li[k].seller
    /\ \A j, k \in 1 .. MaxListings, g \in Gear : Offers(li, j, g) /\ Offers(li, k, g) => j = k
    /\ \A g \in Gear : ge[g].loc = "LISTED" => \E k \in 1 .. MaxListings : Offers(li, k, g)

CustodyIInv ==
    /\ cast \in Casts /\ live \subseteq Holders
    /\ SlotsInv(stacks, gear, cancelled)
    /\ TraysInv(tray, gear)
    /\ MintInv(gear, nft, returning)
    /\ ListedInv(gear, listings)
    /\ aeb \in [Accounts -> Nat]

(* The constants, as the proofs use them. *)
LEMMA CustodyConstants ==
    /\ IsFiniteSet(Holders) /\ Starter \in Holders
    /\ IsFiniteSet(Items) /\ Items \subseteq Nat \ {0}
    /\ IsFiniteSet(Gear) /\ Gear \subseteq Nat \ {0}
    /\ StorageSlots \in Nat \ {0} /\ StorageLimit \in Nat /\ StorageLimit <= StorageSlots
    /\ StackMax \in Nat \ {0} /\ GearDurability \in Nat \ {0} /\ Wear \in Nat \ {0}
    /\ EnhanceStones \in Nat \ {0} /\ RecipeCost \in Nat \ {0} /\ GearLevelMax \in Nat
    /\ MaxListings \in Nat /\ MintFee \in Nat
    /\ Prices \subseteq Nat \ {0} /\ Quantities \subseteq Nat \ {0}
BY CustodyAssumption DEF Starter

(* The slots are numbers, and -1 is none of them. *)
LEMMA SlotFacts ==
    /\ SlotIndex \subseteq Nat /\ NoSlot \notin SlotIndex
    /\ \A s \in SlotIndex : s < StorageSlots
    /\ IsFiniteSet(SlotIndex)
    /\ NoSlot \notin Nat
BY CustodyConstants, FS_Interval DEF SlotIndex, NoSlot

(* The least of some slots is one of them. *)
LEMMA LeastSlot ==
    ASSUME NEW T \in SUBSET Nat, T # {}
    PROVE  Min(T) \in T /\ \A x \in T : Min(T) <= x
<1>1. \E n \in T : \A m \in T : n <= m
    BY LeastNumber
<1>. QED
    BY <1>1 DEF Min

(* A slot that resolveStorageSlot gives exists and is free. *)
LEMMA ResolvedSlot ==
    ASSUME NEW st, NEW ge, NEW c, NEW l, NEW requested,
           NEW s \in ResolveStorageSlot(st, ge, c, l, requested)
    PROVE  s \in SlotIndex /\ StorageSlotFree(st, ge, c, l, s)
<1>. DEFINE free == {t \in SlotIndex : StorageSlotFree(st, ge, c, l, t)}
<1>1. s \in free
  <2>1. CASE requested # NoSlot
      BY <2>1 DEF ResolveStorageSlot
  <2>2. CASE requested = NoSlot
    <3>1. free # {} /\ s = Min(free)
        BY <2>2 DEF ResolveStorageSlot
    <3>2. free \in SUBSET Nat
        BY SlotFacts
    <3>. HIDE DEF free
    <3>. QED
        BY <3>1, <3>2, LeastSlot
  <2>. QED
      BY <2>1, <2>2
<1>. QED
    BY <1>1

(* An empty place holds the row of zeros, which no stack is. *)
LEMMA StackFacts ==
    /\ NoStack \in Stack /\ NoStack \notin StackRow
    /\ NoStack.item = 0 /\ NoStack.quantity = 0
    /\ \A x \in Stack : /\ x.quantity \in Nat /\ x.item \in Nat
                        /\ x # NoStack => x \in StackRow /\ x.quantity > 0 /\ x.item \in Items
                        /\ x.quantity > 0 => x # NoStack
                        /\ x.item \in Items => x # NoStack
<1>1. NoStack.item = 0 /\ NoStack.quantity = 0
    BY DEF NoStack
<1>2. \A x \in StackRow : x.quantity \in Nat /\ x.quantity > 0 /\ x.item \in Items /\ x.item \in Nat /\ x.item # 0
  <2>1. ASSUME NEW x \in StackRow PROVE x.quantity \in Nat \ {0} /\ x.item \in Items
      BY DEF StackRow
  <2>2. Items \subseteq Nat \ {0}
      BY CustodyConstants
  <2>3. ASSUME NEW x \in StackRow
        PROVE  x.quantity \in Nat /\ x.quantity > 0 /\ x.item \in Items /\ x.item \in Nat /\ x.item # 0
    <3>1. x.quantity \in Nat \ {0} /\ x.item \in Items
        BY <2>1
    <3>2. x.item \in Nat \ {0}
        BY <2>2, <3>1
    <3>. QED
        BY <3>1, <3>2
  <2>. QED
      BY <2>3
<1>3. NoStack \in Stack /\ NoStack \notin StackRow
    BY <1>1, <1>2 DEF Stack
<1>4. 0 \notin Items
    BY CustodyConstants
<1>5. \A x \in Stack : x = NoStack \/ x \in StackRow
    BY DEF Stack
<1>. QED
    BY <1>1, <1>2, <1>3, <1>4, <1>5

(* The place of a bag or warehouse slot. *)
LEMMA PlaceFacts ==
    ASSUME NEW c \in Holders, NEW l \in Stores, NEW s \in SlotIndex
    PROVE  <<c, l, s>> \in Place
BY DEF Place

LEMMA StoreFacts ==
    /\ Stores = {"BAG", "WAREHOUSE"}
    /\ EquipmentStorageLocation("BAG") = "IN_BAG" /\ EquipmentStorageLocation("WAREHOUSE") = "IN_WAREHOUSE"
    /\ \A l \in Stores : EquipmentStorageLocation(l) \in Stored
BY DEF Stores, EquipmentStorageLocation, Stored

-----------------------------------------------------------------------------
(* Stacks: emptying places or filling a free one keeps the slots in order. *)
LEMMA FewerStacks ==
    ASSUME NEW st, NEW ge, NEW ca, SlotsInv(st, ge, ca),
           NEW st2 \in [Place -> Stack], \A p \in Place : st[p] = NoStack => st2[p] = NoStack
    PROVE  SlotsInv(st2, ge, ca)
<1>1. ASSUME NEW g \in Gear, NEW l \in Stores, ge[g].loc = EquipmentStorageLocation(l)
      PROVE  <<ge[g].holder, l, ge[g].slot>> \in Place
    BY <1>1, StoreFacts DEF SlotsInv, SoundPiece, Piece, Place
<1>2. ClashFree(st2, ge, ca)
    BY <1>1 DEF SlotsInv, ClashFree
<1>. QED
    BY <1>2 DEF SlotsInv

LEMMA NewStack ==
    ASSUME NEW st, NEW ge, NEW ca, SlotsInv(st, ge, ca),
           NEW c \in Holders, NEW l \in Stores, NEW s \in SlotIndex,
           StorageSlotFree(st, ge, c, l, s), NEW x \in Stack
    PROVE  SlotsInv([st EXCEPT ![<<c, l, s>>] = x], ge, ca)
<1>. DEFINE st2 == [st EXCEPT ![<<c, l, s>>] = x]
<1>1. st2 \in [Place -> Stack]
    BY DEF SlotsInv
<1>2. ASSUME NEW g \in Gear, NEW k \in Stores, ge[g].loc = EquipmentStorageLocation(k)
      PROVE  g \in ca \/ st2[<<ge[g].holder, k, ge[g].slot>>] = NoStack
  <2>1. <<ge[g].holder, k, ge[g].slot>> \in Place
      BY <1>2, StoreFacts DEF SlotsInv, SoundPiece, Piece, Place
  <2>2. <<ge[g].holder, k, ge[g].slot>> # <<c, l, s>>
      BY <1>2 DEF StorageSlotFree
  <2>3. g \in ca \/ st[<<ge[g].holder, k, ge[g].slot>>] = NoStack
      BY <1>2 DEF SlotsInv, ClashFree
  <2>. QED
      BY <2>1, <2>2, <2>3 DEF SlotsInv
<1>3. ClashFree(st2, ge, ca)
    BY <1>2 DEF ClashFree
<1>. QED
    BY <1>1, <1>3 DEF SlotsInv

(* A stack grows where it is. *)
LEMMA MoreInStack ==
    ASSUME NEW st, NEW ge, NEW ca, SlotsInv(st, ge, ca),
           NEW p \in Place, st[p] # NoStack, NEW x \in Stack
    PROVE  SlotsInv([st EXCEPT ![p] = x], ge, ca)
BY FewerStacks DEF SlotsInv

LEMMA AddedItem ==
    ASSUME NEW st, NEW ge, NEW ca, SlotsInv(st, ge, ca), NEW c \in Holders, NEW l \in Stores,
           NEW i \in Items, NEW q \in Nat \ {0},
           NEW st2 \in AddInventoryItemToStorage(st, ge, c, l, i, q)
    PROVE  SlotsInv(st2, ge, ca)
<1>. DEFINE same == {s \in SlotIndex : /\ st[<<c, l, s>>].item = i
                                       /\ st[<<c, l, s>>].bind = "BOUND"}
<1>1. CASE i \in Stackable /\ same # {}
  <2>. DEFINE p == <<c, l, Min(same)>>
  <2>1. st2 = [st EXCEPT ![p].quantity = @ + q]
      BY <1>1 DEF AddInventoryItemToStorage
  <2>2. Min(same) \in same
      BY <1>1, SlotFacts, LeastSlot
  <2>3. p \in Place
      BY <2>2, PlaceFacts
  <2>4. st[p] \in StackRow /\ st[p] # NoStack
      BY <2>2, <2>3, StackFacts DEF SlotsInv
  <2>. HIDE DEF p, same
  <2>5. [st[p] EXCEPT !.quantity = @ + q] \in Stack
      BY <2>4 DEF Stack, StackRow
  <2>6. st2 = [st EXCEPT ![p] = [st[p] EXCEPT !.quantity = @ + q]]
      BY <2>1
  <2>. QED
      BY <2>3, <2>4, <2>5, <2>6, MoreInStack
<1>2. CASE ~(i \in Stackable /\ same # {})
  <2>1. PICK s \in ResolveStorageSlot(st, ge, c, l, NoSlot) :
          st2 = [st EXCEPT ![<<c, l, s>>] = [item |-> i, quantity |-> q, bind |-> "BOUND"]]
      BY <1>2 DEF AddInventoryItemToStorage
  <2>2. [item |-> i, quantity |-> q, bind |-> "BOUND"] \in Stack
      BY DEF Stack, StackRow
  <2>. QED
      BY <2>1, <2>2, ResolvedSlot, NewStack
<1>. QED
    BY <1>1, <1>2

-----------------------------------------------------------------------------
(* Pieces: what stays where it is, or leaves, keeps the slots in order. *)
Whereabouts(x) == <<x.holder, x.loc, x.slot, x.worn>>

LEMMA FewerPieces ==
    ASSUME NEW st, NEW ge, NEW ca, SlotsInv(st, ge, ca),
           NEW ge2 \in [Gear -> Piece], \A g \in Gear : SoundPiece(ge2[g]),
           \A g \in Gear : \/ Whereabouts(ge2[g]) = Whereabouts(ge[g])
                           \/ ge2[g].loc \notin Stored \cup {"EQUIPPED"}
    PROVE  SlotsInv(st, ge2, ca)
<1>1. ASSUME NEW g \in Gear, ge2[g].loc \in Stored \cup {"EQUIPPED"}
      PROVE  /\ ge2[g].holder = ge[g].holder /\ ge2[g].loc = ge[g].loc
             /\ ge2[g].slot = ge[g].slot /\ ge2[g].worn = ge[g].worn
    BY <1>1 DEF Whereabouts
<1>2. ApartIn(ge2)
    BY <1>1 DEF SlotsInv, ApartIn
<1>3. ClashFree(st, ge2, ca)
    BY <1>1, StoreFacts DEF SlotsInv, ClashFree
<1>. QED
    BY <1>2, <1>3 DEF SlotsInv

(* A piece takes a slot that no other piece has. *)
LEMMA PutPiece ==
    ASSUME NEW st, NEW ge, NEW ca, SlotsInv(st, ge, ca),
           NEW c \in Holders, NEW l \in Stores, NEW s \in SlotIndex, NEW g \in Gear,
           ~ \E h \in Gear : /\ ge[h].holder = c /\ ge[h].slot = s
                             /\ ge[h].loc = EquipmentStorageLocation(l),
           g \in ca \/ st[<<c, l, s>>] = NoStack,
           NEW ge2 \in [Gear -> Piece], SoundPiece(ge2[g]), \A h \in Gear \ {g} : ge2[h] = ge[h],
           ge2[g].holder = c, ge2[g].slot = s, ge2[g].loc = EquipmentStorageLocation(l)
    PROVE  SlotsInv(st, ge2, ca)
<1>1. ApartIn(ge2)
  <2>1. ge2[g].loc \in Stored /\ ge2[g].loc # "EQUIPPED"
      BY StoreFacts DEF Stored
  <2>2. \A h \in Gear \ {g} : ge2[h].holder = c /\ ge2[h].loc = ge2[g].loc => ge2[h].slot # s
      OBVIOUS
  <2>. QED
      BY <2>1, <2>2 DEF SlotsInv, ApartIn
<1>2. ClashFree(st, ge2, ca)
  <2>1. \A k \in Stores : EquipmentStorageLocation(k) = EquipmentStorageLocation(l) => k = l
      BY StoreFacts
  <2>. QED
      BY <2>1 DEF SlotsInv, ClashFree
<1>3. \A h \in Gear : SoundPiece(ge2[h])
    BY DEF SlotsInv
<1>. QED
    BY <1>1, <1>2, <1>3 DEF SlotsInv

LEMMA StorePiece ==
    ASSUME NEW st, NEW ge, NEW ca, SlotsInv(st, ge, ca),
           NEW c \in Holders, NEW l \in Stores, NEW requested,
           NEW s \in ResolveStorageSlot(st, ge, c, l, requested), NEW g \in Gear,
           NEW ge2 \in [Gear -> Piece], SoundPiece(ge2[g]), \A h \in Gear \ {g} : ge2[h] = ge[h],
           ge2[g].holder = c, ge2[g].slot = s, ge2[g].loc = EquipmentStorageLocation(l)
    PROVE  SlotsInv(st, ge2, ca)
<1>1. s \in SlotIndex /\ StorageSlotFree(st, ge, c, l, s)
    BY ResolvedSlot
<1>. QED
    BY <1>1, PutPiece DEF StorageSlotFree

(* A piece is put on where nothing else is worn. *)
LEMMA WearPiece ==
    ASSUME NEW st, NEW ge, NEW ca, SlotsInv(st, ge, ca), NEW g \in Gear,
           NEW ge2 \in [Gear -> Piece], SoundPiece(ge2[g]), \A h \in Gear \ {g} : ge2[h] = ge[h],
           ge2[g].loc = "EQUIPPED",
           \A h \in Gear \ {g} : ge[h].holder = ge2[g].holder /\ ge[h].loc = "EQUIPPED" =>
                                     ge[h].worn # ge2[g].worn
    PROVE  SlotsInv(st, ge2, ca)
<1>1. ApartIn(ge2)
  <2>1. "EQUIPPED" \notin Stored
      BY DEF Stored
  <2>. QED
      BY <2>1 DEF SlotsInv, ApartIn
<1>2. ClashFree(st, ge2, ca)
  <2>1. \A k \in Stores : EquipmentStorageLocation(k) # "EQUIPPED"
      BY StoreFacts
  <2>. QED
      BY <2>1 DEF SlotsInv, ClashFree
<1>3. \A h \in Gear : SoundPiece(ge2[h])
    BY DEF SlotsInv
<1>. QED
    BY <1>1, <1>2, <1>3 DEF SlotsInv

(* The exceptions only become more. *)
LEMMA MoreExceptions ==
    ASSUME NEW st, NEW ge, NEW ca, SlotsInv(st, ge, ca), NEW g
    PROVE  SlotsInv(st, ge, ca \cup {g})
BY DEF SlotsInv, ClashFree

-----------------------------------------------------------------------------
(* The tables that name a piece do not care where it is stored or worn, or *)
(* that it is gone: only for its being in a tray, listed or minted.        *)
Untouched(x, y) ==
    \/ x.loc = y.loc /\ x.holder = y.holder
    \/ x.loc \notin Tied /\ y.loc \notin Tied

LEMMA QuietRows ==
    ASSUME NEW c, NEW ge, NEW ge2, \A g \in Gear : InTrayOf(ge[g], c) <=> InTrayOf(ge2[g], c),
           NEW rows, RowsInv(rows, c, ge)
    PROVE  RowsInv(rows, c, ge2)
<1>1. ASSUME NEW k \in DOMAIN rows, rows[k].gear # 0 PROVE rows[k].gear \in Gear
  <2>1. rows[k] \in TrayRow
      BY DEF RowsInv
  <2>. QED
      BY <1>1, <2>1 DEF TrayRow
<1>. QED
    BY <1>1 DEF RowsInv

LEMMA QuietTables ==
    ASSUME NEW ge, NEW ge2, \A g \in Gear : Untouched(ge[g], ge2[g]),
           NEW tr, TraysInv(tr, ge), NEW nf, NEW re, MintInv(ge, nf, re), NEW li, ListedInv(ge, li)
    PROVE  TraysInv(tr, ge2) /\ MintInv(ge2, nf, re) /\ ListedInv(ge2, li)
<1>1. TraysInv(tr, ge2)
  <2>1. \A c \in Holders, g \in Gear : InTrayOf(ge[g], c) <=> InTrayOf(ge2[g], c)
      BY DEF Untouched, Tied, InTrayOf
  <2>. QED
      BY <2>1, QuietRows DEF TraysInv
<1>2. MintInv(ge2, nf, re)
    BY DEF MintInv, Untouched, Tied
<1>3. \A g \in Gear : /\ ge[g].loc = "LISTED" <=> ge2[g].loc = "LISTED"
                      /\ ge[g].loc = "LISTED" => ge2[g].holder = ge[g].holder
    BY DEF Untouched, Tied
<1>4. ListedInv(ge2, li)
    BY <1>3 DEF ListedInv
<1>. QED
    BY <1>1, <1>2, <1>4

-----------------------------------------------------------------------------
(* Items of a bag or warehouse, counted: always a natural number. *)
LEMMA SlotSumNat ==
    ASSUME stacks \in [Place -> Stack], NEW c \in Holders, NEW l \in Stores, NEW T \in SUBSET SlotIndex
    PROVE  SumFunctionOnSet([s \in SlotIndex |-> stacks[<<c, l, s>>].quantity], T) \in Nat
<1>. DEFINE f == [s \in SlotIndex |-> stacks[<<c, l, s>>].quantity]
<1>1. ASSUME NEW s \in SlotIndex PROVE f[s] \in Nat
  <2>1. stacks[<<c, l, s>>] \in Stack
      BY PlaceFacts
  <2>. QED
      BY <2>1, StackFacts
<1>2. IsFiniteSet(T)
    BY SlotFacts, FS_Subset
<1>. HIDE DEF f
<1>3. SumFunctionOnSet(f, T) \in Nat
    BY <1>1, <1>2, SumNat
<1>. QED
    BY <1>3 DEF f

LEMMA InBagNat ==
    ASSUME stacks \in [Place -> Stack], NEW c \in Holders, NEW i, NEW s
    PROVE  InBagBelow(c, i, s) \in Nat
BY SlotSumNat, StoreFacts DEF InBagBelow

LEMMA GroupTotalNat ==
    ASSUME stacks \in [Place -> Stack], NEW c \in Holders, NEW l \in Stores, NEW i, NEW b
    PROVE  GroupTotal(c, l, i, b) \in Nat
BY SlotSumNat DEF GroupTotal

(* Taking items from the bag empties places and fills none. *)
LEMMA ConsumedItem ==
    ASSUME stacks \in [Place -> Stack], NEW c \in Holders, NEW i \in Items, NEW q \in Nat,
           NEW st2 \in ConsumeBagItem(c, i, q)
    PROVE  st2 \in [Place -> Stack] /\ \A p \in Place : stacks[p] = NoStack => st2[p] = NoStack
<1>. DEFINE owed(p) == q - InBagBelow(c, i, p[3])
            left(p) == IF owed(p) <= 0 THEN stacks[p].quantity
                       ELSE stacks[p].quantity - Lesser2(owed(p), stacks[p].quantity)
            drawn == [p \in Place |->
                       IF p[1] = c /\ p[2] = "BAG" /\ stacks[p].item = i
                       THEN IF left(p) = 0 THEN NoStack ELSE [stacks[p] EXCEPT !.quantity = left(p)]
                       ELSE stacks[p]]
<1>1. st2 = drawn
    BY DEF ConsumeBagItem
<1>2. ASSUME NEW p \in Place
      PROVE  drawn[p] \in Stack /\ (stacks[p] = NoStack => drawn[p] = NoStack)
  <2>1. stacks[p] \in Stack
      OBVIOUS
  <2>2. CASE stacks[p].item = i
    <3>1. stacks[p] \in StackRow /\ stacks[p] # NoStack
        BY <2>1, <2>2, StackFacts
    <3>2. stacks[p].quantity \in Nat /\ owed(p) \in Int
        BY <2>1, StackFacts, InBagNat
    <3>3. left(p) \in Nat
      <4>. HIDE DEF owed
      <4>. QED
          BY <3>2 DEF Lesser2
    <3>. HIDE DEF left
    <3>4. left(p) # 0 => [stacks[p] EXCEPT !.quantity = left(p)] \in Stack
        BY <3>1, <3>3 DEF Stack, StackRow
    <3>. QED
        BY <2>1, <3>1, <3>4, StackFacts
  <2>3. CASE stacks[p].item # i
      BY <2>1, <2>3
  <2>. QED
      BY <2>2, <2>3
<1>. HIDE DEF drawn
<1>3. drawn \in [Place -> Stack]
    BY <1>2 DEF drawn
<1>. QED
    BY <1>1, <1>2, <1>3

-----------------------------------------------------------------------------
(* organizeStorage.  Division into stacks of at most m. *)
LEMMA Division ==
    ASSUME NEW t \in Nat, NEW m \in Nat \ {0}
    PROVE  LET n == (t + m - 1) \div m IN
           /\ n \in Nat
           /\ \A k \in 0 .. n - 1 : k * m < t
           /\ (t <= n * m /\ (t > 0 => n > 0))
<1>. DEFINE n == (t + m - 1) \div m
<1>1. n \in Int /\ m * n <= t + m - 1 /\ t + m - 1 < m * (n + 1)
    OBVIOUS
<1>. HIDE DEF n
<1>2. n >= 0
    BY <1>1
<1>3. ASSUME NEW k \in 0 .. n - 1 PROVE k * m < t
  <2>1. (k + 1) * m <= n * m
      BY <1>1
  <2>. QED
      BY <1>1, <2>1
<1>. QED
    BY <1>1, <1>2, <1>3 DEF n

LEMMA GroupFacts ==
    ASSUME stacks \in [Place -> Stack], NEW c \in Holders, NEW l \in Stores, NEW k \in Groups
    PROVE  /\ k[1] \in Items /\ k[2] \in {1, 2} /\ MaxStack(k[1]) \in Nat \ {0}
           /\ GroupTotal(c, l, k[1], k[2]) \in Nat
           /\ GroupStacks(c, l, k[1], k[2]) \in Nat
           /\ \A n \in 0 .. GroupStacks(c, l, k[1], k[2]) - 1 :
                  n * MaxStack(k[1]) < GroupTotal(c, l, k[1], k[2])
<1>1. k[1] \in Items /\ k[2] \in {1, 2}
    BY DEF Groups
<1>2. MaxStack(k[1]) \in Nat \ {0}
    BY CustodyConstants DEF MaxStack
<1>3. GroupTotal(c, l, k[1], k[2]) \in Nat
    BY GroupTotalNat
<1>. QED
    BY <1>1, <1>2, <1>3, Division DEF GroupStacks

LEMMA StacksOfFacts ==
    ASSUME stacks \in [Place -> Stack], NEW c \in Holders, NEW l \in Stores, NEW T \in SUBSET Groups
    PROVE  /\ StacksOf(c, l, T) \in Nat
           /\ \A U \in SUBSET Groups : \A k \in U \ T :
                  T \subseteq U => StacksOf(c, l, T) + GroupStacks(c, l, k[1], k[2]) <= StacksOf(c, l, U)
<1>. DEFINE f == [k \in Groups |-> GroupStacks(c, l, k[1], k[2])]
            sum(s) == SumFunctionOnSet(f, s)
<1>1. IsFiniteSet(Groups)
  <2>1. IsFiniteSet({1, 2})
    <3>1. IsFiniteSet({1} \cup {2})
        BY FS_Singleton, FS_AddElement, Zenon
    <3>2. {1, 2} = {1} \cup {2}
        OBVIOUS
    <3>. QED
        BY <3>1, <3>2
  <2>. QED
      BY <2>1, CustodyConstants, FS_Product DEF Groups
<1>2. \A k \in Groups : f[k] \in Nat
    BY GroupFacts
<1>3. ASSUME NEW s \in SUBSET Groups PROVE IntOn(f, s) /\ sum(s) \in Nat
  <2>1. IsFiniteSet(s)
      BY <1>1, FS_Subset
  <2>. HIDE DEF f
  <2>. QED
      BY <1>2, <2>1, SumNat DEF IntOn
<1>4. ASSUME NEW U \in SUBSET Groups, NEW k \in U \ T, T \subseteq U PROVE sum(T) + f[k] <= sum(U)
  <2>. DEFINE S == T \cup {k}
  <2>1. S \in SUBSET U /\ S \in SUBSET Groups /\ k \in S /\ S \ {k} = T /\ U \ S \in SUBSET Groups
      BY <1>4
  <2>. HIDE DEF f, S
  <2>2. sum(S) = f[k] + sum(S \ {k})
      BY <1>3, <2>1, SumRemove
  <2>3. sum(U) = sum(S) + sum(U \ S)
      BY <1>3, <2>1, SumSplit
  <2>4. sum(S) \in Nat /\ sum(U \ S) \in Nat /\ sum(T) \in Nat /\ f[k] \in Nat
      BY <1>2, <1>3, <2>1
  <2>5. sum(S) = f[k] + sum(T)
      BY <2>1, <2>2
  <2>. HIDE DEF sum
  <2>. QED
      BY <2>3, <2>4, <2>5
<1>5. \A s \in SUBSET Groups : StacksOf(c, l, s) = sum(s)
    BY DEF StacksOf
<1>. HIDE DEF sum
<1>6. \A k \in Groups : f[k] = GroupStacks(c, l, k[1], k[2])
    OBVIOUS
<1>. HIDE DEF f
<1>. QED
    BY <1>3, <1>4, <1>5, <1>6

(* A slot of the merged stacks holds a stack, and lies before their end. *)
LEMMA MergedSlot ==
    ASSUME stacks \in [Place -> Stack], NEW c \in Holders, NEW l \in Stores, NEW s \in SlotIndex
    PROVE  /\ MergedStack(c, l, s) \in Stack
           /\ MergedStack(c, l, s) # NoStack => s < StacksOf(c, l, Groups)
<1>. DEFINE before(k) == StacksBefore(c, l, k[1], k[2])
            mine == {k \in Groups : before(k) <= s /\ s < before(k) + GroupStacks(c, l, k[1], k[2])}
<1>1. CASE mine = {}
    BY <1>1, StackFacts DEF MergedStack
<1>2. CASE mine # {}
  <2>. DEFINE k == CHOOSE x \in mine : TRUE
              nth == s - before(k)
              total == GroupTotal(c, l, k[1], k[2])
              q == Lesser2(MaxStack(k[1]), total - nth * MaxStack(k[1]))
  <2>1. k \in mine
      BY <1>2
  <2>2. MergedStack(c, l, s) = [item |-> k[1], bind |-> Binds[k[2]], quantity |-> q]
      BY <1>2 DEF MergedStack
  <2>. DEFINE T == {j \in Groups : j[1] < k[1] \/ (j[1] = k[1] /\ j[2] < k[2])}
  <2>3. k \in Groups /\ before(k) <= s /\ s < before(k) + GroupStacks(c, l, k[1], k[2])
      BY <2>1
  <2>4. before(k) = StacksOf(c, l, T)
      BY DEF StacksBefore
  <2>5. k \in Groups \ T
    <3>. HIDE DEF k
    <3>1. k[1] \in Items /\ k[2] \in {1, 2} /\ Items \subseteq Nat
        BY <2>3, CustodyConstants DEF Groups
    <3>2. \A x \in Nat : ~(x < x)
        OBVIOUS
    <3>3. k[1] \in Nat /\ k[2] \in Nat
      <4>1. {1, 2} \subseteq Nat
          OBVIOUS
      <4>. QED
          BY <3>1, <4>1, Zenon
    <3>4. k \notin T
        BY <3>2, <3>3, Zenon
    <3>. QED
        BY <2>3, <3>4
  <2>. HIDE DEF k, before, T
  <2>6. /\ before(k) \in Nat
        /\ before(k) + GroupStacks(c, l, k[1], k[2]) <= StacksOf(c, l, Groups)
    <3>1. T \in SUBSET Groups /\ Groups \in SUBSET Groups
        BY DEF T
    <3>. QED
        BY <2>4, <2>5, <3>1, StacksOfFacts
  <2>7. /\ k[1] \in Items /\ k[2] \in {1, 2} /\ MaxStack(k[1]) \in Nat \ {0} /\ total \in Nat
        /\ GroupStacks(c, l, k[1], k[2]) \in Nat
        /\ \A n \in 0 .. GroupStacks(c, l, k[1], k[2]) - 1 : n * MaxStack(k[1]) < total
      BY <2>3, GroupFacts
  <2>8. StacksOf(c, l, Groups) \in Nat /\ s \in Nat
      BY StacksOfFacts, SlotFacts
  <2>. HIDE DEF total
  <2>9. s < StacksOf(c, l, Groups)
      BY <2>3, <2>6, <2>7, <2>8
  <2>10. nth \in 0 .. GroupStacks(c, l, k[1], k[2]) - 1
      BY <2>3, <2>6, <2>7, <2>8
  <2>11. nth * MaxStack(k[1]) < total /\ nth * MaxStack(k[1]) \in Int
      BY <2>7, <2>10
  <2>12. q \in Nat \ {0}
      BY <2>7, <2>11 DEF Lesser2
  <2>13. Binds[k[2]] \in {"BOUND", "UNBOUND"}
      BY <2>7 DEF Binds
  <2>. HIDE DEF nth, q
  <2>14. MergedStack(c, l, s) \in Stack
      BY <2>2, <2>7, <2>12, <2>13 DEF Stack, StackRow
  <2>. QED
      BY <2>9, <2>14
<1>. QED
    BY <1>1, <1>2

(* The rank of a piece among the pieces of its storage. *)
LEMMA RankFacts ==
    ASSUME NEW I \in SUBSET Gear
    PROVE  /\ Cardinality(I) \in Nat
           /\ \A g \in I : Cardinality({h \in I : h < g}) \in Nat
           /\ \A g \in I : Cardinality({h \in I : h < g}) < Cardinality(I)
           /\ \A g, k \in I : g < k => Cardinality({h \in I : h < g}) < Cardinality({h \in I : h < k})
<1>. DEFINE below(g) == {h \in I : h < g}
<1>1. IsFiniteSet(I) /\ Gear \subseteq Nat
    BY CustodyConstants, FS_Subset
<1>2. \A s \in SUBSET I : IsFiniteSet(s) /\ Cardinality(s) \in Nat
    BY <1>1, FS_Subset, FS_CardinalityType
<1>3. ASSUME NEW s \in SUBSET I, NEW t \in SUBSET I, s \subseteq t, NEW x \in t, x \notin s
      PROVE  Cardinality(s) < Cardinality(t)
  <2>1. s \in SUBSET t /\ s # t
      BY <1>3
  <2>2. Cardinality(s) <= Cardinality(t) /\ Cardinality(s) # Cardinality(t)
      BY <1>2, <2>1, FS_Subset
  <2>. QED
      BY <1>2, <2>2
<1>4. ASSUME NEW g \in I PROVE below(g) \in SUBSET I /\ g \notin below(g)
    BY <1>1
<1>5. ASSUME NEW g \in I, NEW k \in I, g < k PROVE below(g) \subseteq below(k) /\ g \in below(k)
  <2>1. I \subseteq Nat
      BY <1>1
  <2>2. \A h \in I : h < g => h < k
      BY <1>5, <2>1
  <2>. QED
      BY <1>5, <2>2
<1>. HIDE DEF below
<1>6. ASSUME NEW g \in I PROVE Cardinality(below(g)) < Cardinality(I)
    BY <1>3, <1>4
<1>7. ASSUME NEW g \in I, NEW k \in I, g < k PROVE Cardinality(below(g)) < Cardinality(below(k))
    BY <1>3, <1>4, <1>5, <1>7
<1>8. /\ Cardinality(I) \in Nat
      /\ \A g \in I : Cardinality(below(g)) \in Nat
      /\ \A g \in I : Cardinality(below(g)) < Cardinality(I)
      /\ \A g, k \in I : g < k => Cardinality(below(g)) < Cardinality(below(k))
    BY <1>2, <1>4, <1>6, <1>7
<1>. QED
    BY <1>8 DEF below

(* organizeStorage: the stacks come first, the pieces after them, each in  *)
(* a slot of its own.                                                      *)
LEMMA Organized ==
    ASSUME SlotsInv(stacks, gear, cancelled), NEW c \in Holders, NEW l \in Stores, OrganizeStorage(c, l)
    PROVE  SlotsInv(stacks', gear', cancelled) /\ \A g \in Gear : Untouched(gear[g], gear'[g])
<1>. DEFINE merged == StacksOf(c, l, Groups)
            here == EquipmentStorageLocation(l)
            inside == {g \in Gear : gear[g].holder = c /\ gear[g].loc = here}
            rank(g) == Cardinality({h \in inside : h < g})
<1>1. /\ stacks \in [Place -> Stack] /\ gear \in [Gear -> Piece] /\ \A g \in Gear : SoundPiece(gear[g])
    BY DEF SlotsInv
<1>2. /\ merged + Cardinality(inside) <= StorageLimit
      /\ stacks' = [p \in Place |-> IF p[1] = c /\ p[2] = l THEN MergedStack(c, l, p[3]) ELSE stacks[p]]
      /\ gear' = [g \in Gear |-> IF g \in inside THEN [gear[g] EXCEPT !.slot = merged + rank(g)] ELSE gear[g]]
    BY Zenon DEF OrganizeStorage
<1>3. merged \in Nat
    BY <1>1, StacksOfFacts
<1>4. here \in Stored
    BY StoreFacts
<1>5. /\ Cardinality(inside) \in Nat
      /\ \A g \in inside : rank(g) \in Nat /\ rank(g) < Cardinality(inside)
      /\ \A g, k \in inside : g < k => rank(g) < rank(k)
    BY RankFacts
<1>6. inside \subseteq Gear /\ \A g \in Gear : g \in inside <=> gear[g].holder = c /\ gear[g].loc = here
    OBVIOUS
<1>. HIDE DEF merged, inside, rank, here
<1>7. ASSUME NEW g \in inside
      PROVE  /\ merged + rank(g) \in SlotIndex /\ merged + rank(g) # NoSlot
             /\ ~(merged + rank(g) < merged)
             /\ \A k \in inside : g # k => merged + rank(g) # merged + rank(k)
  <2>1. merged + rank(g) \in 0 .. StorageSlots - 1
      BY <1>2, <1>3, <1>5, CustodyConstants
  <2>2. \A k \in inside : g # k => g < k \/ k < g
      BY <1>6, CustodyConstants
  <2>3. \A k \in inside : g # k => rank(g) # rank(k)
      BY <1>5, <2>2
  <2>. QED
      BY <1>3, <1>5, <2>1, <2>3, SlotFacts DEF SlotIndex
<1>8. stacks' \in [Place -> Stack]
  <2>1. ASSUME NEW p \in Place PROVE stacks'[p] \in Stack
    <3>1. p[3] \in SlotIndex
        BY DEF Place
    <3>. QED
        BY <1>1, <1>2, <3>1, MergedSlot
  <2>. QED
      BY <1>2, <2>1
<1>9. ASSUME NEW g \in Gear
      PROVE  /\ gear'[g] \in Piece /\ SoundPiece(gear'[g])
             /\ gear'[g].loc = gear[g].loc /\ gear'[g].holder = gear[g].holder /\ gear'[g].worn = gear[g].worn
             /\ gear'[g].slot = IF g \in inside THEN merged + rank(g) ELSE gear[g].slot
  <2>1. CASE g \in inside
    <3>. DEFINE s == merged + rank(g)
    <3>1. gear'[g] = [gear[g] EXCEPT !.slot = s]
        BY <1>2, <2>1
    <3>2. s \in SlotIndex /\ s # NoSlot /\ gear[g].loc \in Stored
        BY <1>4, <1>6, <1>7, <2>1
    <3>3. gear[g] \in Piece /\ SoundPiece(gear[g])
        BY <1>1
    <3>. HIDE DEF s
    <3>4. gear'[g] \in Piece /\ SoundPiece(gear'[g]) /\ gear'[g].slot = s
        BY <3>1, <3>2, <3>3 DEF Piece, SoundPiece
    <3>5. gear'[g].loc = gear[g].loc /\ gear'[g].holder = gear[g].holder /\ gear'[g].worn = gear[g].worn
        BY <3>1, <3>3 DEF Piece
    <3>. QED
        BY <2>1, <3>4, <3>5 DEF s
  <2>2. CASE g \notin inside
      BY <1>1, <1>2, <2>2
  <2>. QED
      BY <2>1, <2>2
<1>10. gear' \in [Gear -> Piece] /\ \A g \in Gear : SoundPiece(gear'[g])
    BY <1>2, <1>9
<1>11. ApartIn(gear')
  <2>. SUFFICES ASSUME NEW g \in Gear, NEW k \in Gear, g # k, gear'[g].holder = gear'[k].holder,
                       gear'[g].loc = gear'[k].loc
                PROVE  /\ gear'[g].loc \in Stored => gear'[g].slot # gear'[k].slot
                       /\ gear'[g].loc = "EQUIPPED" => gear'[g].worn # gear'[k].worn
      BY DEF ApartIn
  <2>1. gear[g].holder = gear[k].holder /\ gear[g].loc = gear[k].loc
      BY <1>9
  <2>2. g \in inside <=> k \in inside
      BY <1>6, <2>1
  <2>3. /\ gear[g].loc \in Stored => gear[g].slot # gear[k].slot
        /\ gear[g].loc = "EQUIPPED" => gear[g].worn # gear[k].worn
      BY <2>1 DEF SlotsInv, ApartIn
  <2>. QED
      BY <1>7, <1>9, <2>2, <2>3
<1>12. ClashFree(stacks', gear', cancelled)
  <2>. SUFFICES ASSUME NEW g \in Gear, NEW k \in Stores, gear'[g].loc = EquipmentStorageLocation(k)
                PROVE  g \in cancelled \/ stacks'[<<gear'[g].holder, k, gear'[g].slot>>] = NoStack
      BY DEF ClashFree
  <2>1. gear[g].loc = EquipmentStorageLocation(k) /\ gear[g].loc \in Stored
      BY <1>9, StoreFacts
  <2>2. /\ gear'[g].slot \in SlotIndex /\ gear[g].slot \in SlotIndex /\ gear'[g].holder \in Holders
      BY <1>1, <1>9, <2>1 DEF SoundPiece, Piece
  <2>. DEFINE p == <<gear'[g].holder, k, gear'[g].slot>>
  <2>3. p \in Place /\ p[1] = gear[g].holder /\ p[2] = k /\ p[3] = gear'[g].slot
      BY <1>9, <2>2, PlaceFacts
  <2>4. CASE g \in inside
    <3>1. p[1] = c /\ p[2] = l
        BY <1>6, <2>1, <2>3, <2>4, StoreFacts DEF here
    <3>2. stacks'[p] = MergedStack(c, l, gear'[g].slot)
        BY <1>2, <2>3, <3>1
    <3>3. ~(gear'[g].slot < merged)
        BY <1>7, <1>9, <2>4
    <3>. QED
        BY <1>1, <2>2, <3>2, <3>3, MergedSlot DEF merged
  <2>5. CASE g \notin inside
    <3>1. ~(p[1] = c /\ p[2] = l)
        BY <1>6, <2>1, <2>3, <2>5 DEF here
    <3>2. stacks'[p] = stacks[p] /\ gear'[g].slot = gear[g].slot /\ gear'[g].holder = gear[g].holder
        BY <1>2, <1>9, <2>3, <2>5, <3>1
    <3>3. g \in cancelled \/ stacks[<<gear[g].holder, k, gear[g].slot>>] = NoStack
        BY <2>1 DEF SlotsInv, ClashFree
    <3>. QED
        BY <3>2, <3>3
  <2>. QED
      BY <2>4, <2>5
<1>13. \A g \in Gear : Untouched(gear[g], gear'[g])
    BY <1>9 DEF Untouched
<1>. QED
    BY <1>8, <1>10, <1>11, <1>12, <1>13 DEF SlotsInv

-----------------------------------------------------------------------------
(* The loot tray: a row removed, added, or made smaller. *)
LEMMA Removed ==
    ASSUME NEW T, NEW s \in Seq(T), NEW k \in 1 .. Len(s)
    PROVE  /\ RemoveAt(s, k) \in Seq(T) /\ Len(RemoveAt(s, k)) = Len(s) - 1
           /\ \A j \in 1 .. Len(s) - 1 : RemoveAt(s, k)[j] = s[IF j < k THEN j ELSE j + 1]
<1>. DEFINE a == SubSeq(s, 1, k - 1)
            b == SubSeq(s, k + 1, Len(s))
<1>1. Len(s) \in Nat /\ k \in Nat
    OBVIOUS
<1>2. a \in Seq(T) /\ Len(a) = k - 1 /\ \A j \in 1 .. k - 1 : a[j] = s[j]
    BY <1>1
<1>3. b \in Seq(T) /\ Len(b) = Len(s) - k /\ \A j \in 1 .. Len(s) - k : b[j] = s[j + k]
    BY <1>1
<1>4. RemoveAt(s, k) = a \o b
    BY DEF RemoveAt
<1>. HIDE DEF a, b
<1>5. a \o b \in Seq(T) /\ Len(a \o b) = Len(s) - 1
  <2>1. a \o b \in Seq(T)
      BY <1>2, <1>3
  <2>2. ASSUME NEW u \in Seq(T), NEW v \in Seq(T) PROVE Len(u \o v) = Len(u) + Len(v)
      OBVIOUS
  <2>3. Len(a \o b) = Len(a) + Len(b)
      BY <1>2, <1>3, <2>2
  <2>. QED
      BY <1>1, <1>2, <1>3, <2>1, <2>3
<1>6. ASSUME NEW j \in 1 .. Len(s) - 1 PROVE (a \o b)[j] = s[IF j < k THEN j ELSE j + 1]
  <2>1. CASE j < k
      BY <1>1, <1>2, <1>3, <2>1
  <2>2. CASE ~(j < k)
    <3>1. (a \o b)[j] = b[j - (k - 1)]
        BY <1>1, <1>2, <1>3, <2>2
    <3>2. b[j - (k - 1)] = s[(j - (k - 1)) + k]
        BY <1>1, <1>3, <2>2
    <3>. QED
        BY <1>1, <2>2, <3>1, <3>2
  <2>. QED
      BY <2>1, <2>2
<1>. QED
    BY <1>4, <1>5, <1>6

LEMMA RowDropped ==
    ASSUME NEW c, NEW ge, NEW ge2, NEW rows, RowsInv(rows, c, ge), NEW k \in DOMAIN rows,
           \A g \in Gear \ {rows[k].gear} : InTrayOf(ge[g], c) <=> InTrayOf(ge2[g], c),
           rows[k].gear # 0 => ~InTrayOf(ge2[rows[k].gear], c)
    PROVE  RowsInv(RemoveAt(rows, k), c, ge2) /\ Len(RemoveAt(rows, k)) = Len(rows) - 1
<1>. DEFINE less == RemoveAt(rows, k)
            from(j) == IF j < k THEN j ELSE j + 1
<1>1. rows \in Seq(TrayRow) /\ k \in 1 .. Len(rows) /\ Len(rows) \in Nat
    BY DEF RowsInv
<1>2. /\ less \in Seq(TrayRow) /\ Len(less) = Len(rows) - 1 /\ DOMAIN less = 1 .. Len(rows) - 1
      /\ \A j \in DOMAIN less : less[j] = rows[from(j)]
  <2>1. /\ less \in Seq(TrayRow) /\ Len(less) = Len(rows) - 1
        /\ \A j \in 1 .. Len(rows) - 1 : less[j] = rows[from(j)]
      BY <1>1, Removed
  <2>. HIDE DEF less, from
  <2>2. DOMAIN less = 1 .. Len(rows) - 1
      BY <2>1
  <2>. QED
      BY <2>1, <2>2
<1>3. ASSUME NEW j \in DOMAIN less PROVE from(j) \in DOMAIN rows /\ from(j) # k
    BY <1>1, <1>2
<1>4. \A i, j \in DOMAIN less : from(i) = from(j) => i = j
    BY <1>1, <1>2
<1>5. ASSUME NEW n \in DOMAIN rows, n # k PROVE \E j \in DOMAIN less : from(j) = n
  <2>1. n \in 1 .. Len(rows)
      BY <1>1
  <2>2. CASE n < k
      BY <1>1, <1>2, <2>1, <2>2
  <2>3. CASE n > k
    <3>1. n - 1 \in DOMAIN less /\ from(n - 1) = n
        BY <1>1, <1>2, <2>1, <2>3
    <3>. QED
        BY <3>1
  <2>. QED
      BY <1>1, <1>5, <2>1, <2>2, <2>3
<1>6. \A j \in DOMAIN rows : rows[j].gear # 0 => rows[j].gear \in Gear
    BY <1>1 DEF TrayRow
<1>. HIDE DEF less, from
<1>7. ASSUME NEW j \in DOMAIN less, less[j].gear # 0 PROVE InTrayOf(ge2[less[j].gear], c)
  <2>1. rows[from(j)].gear # rows[k].gear /\ InTrayOf(ge[rows[from(j)].gear], c)
      BY <1>2, <1>3, <1>7 DEF RowsInv
  <2>. QED
      BY <1>2, <1>3, <1>6, <1>7, <2>1
<1>8. \A i, j \in DOMAIN less : less[i].gear = less[j].gear /\ less[i].gear # 0 => i = j
    BY <1>2, <1>3, <1>4 DEF RowsInv
<1>9. ASSUME NEW g \in Gear, InTrayOf(ge2[g], c) PROVE \E j \in DOMAIN less : less[j].gear = g
  <2>1. g # 0
      BY CustodyConstants
  <2>2. g # rows[k].gear
      BY <1>9, <2>1
  <2>3. PICK n \in DOMAIN rows : rows[n].gear = g
      BY <1>9, <2>2 DEF RowsInv
  <2>. QED
      BY <1>2, <1>5, <2>2, <2>3
<1>10. RowsInv(less, c, ge2)
    BY <1>2, <1>7, <1>8, <1>9 DEF RowsInv
<1>. QED
    BY <1>2, <1>10 DEF less

LEMMA RowAdded ==
    ASSUME NEW c, NEW ge, NEW ge2, NEW rows, RowsInv(rows, c, ge), NEW row \in TrayRow,
           \A g \in Gear \ {row.gear} : InTrayOf(ge[g], c) <=> InTrayOf(ge2[g], c),
           row.gear # 0 => ~InTrayOf(ge[row.gear], c) /\ InTrayOf(ge2[row.gear], c)
    PROVE  RowsInv(Append(rows, row), c, ge2)
<1>. DEFINE more == Append(rows, row)
            n == Len(rows) + 1
<1>1. rows \in Seq(TrayRow) /\ Len(rows) \in Nat
    BY DEF RowsInv
<1>2. /\ more \in Seq(TrayRow) /\ DOMAIN more = DOMAIN rows \cup {n} /\ n \notin DOMAIN rows
      /\ more[n] = row /\ \A j \in DOMAIN rows : more[j] = rows[j]
    BY <1>1
<1>3. \A j \in DOMAIN rows : rows[j].gear # 0 => rows[j].gear \in Gear
    BY <1>1 DEF TrayRow
<1>. HIDE DEF more, n
<1>4. \A j \in DOMAIN rows : rows[j].gear # 0 => rows[j].gear # row.gear
    BY DEF RowsInv
<1>5. \A j \in DOMAIN more : more[j].gear # 0 => InTrayOf(ge2[more[j].gear], c)
    BY <1>2, <1>3, <1>4 DEF RowsInv
<1>6. \A i, j \in DOMAIN more : more[i].gear = more[j].gear /\ more[i].gear # 0 => i = j
    BY <1>2, <1>4 DEF RowsInv
<1>7. \A g \in Gear : InTrayOf(ge2[g], c) => \E j \in DOMAIN more : more[j].gear = g
    BY <1>2 DEF RowsInv
<1>8. RowsInv(more, c, ge2)
    BY <1>2, <1>5, <1>6, <1>7 DEF RowsInv
<1>. QED
    BY <1>8 DEF more

LEMMA RowReduced ==
    ASSUME NEW c, NEW ge, NEW rows, RowsInv(rows, c, ge), NEW k \in DOMAIN rows,
           rows[k].gear = 0, NEW q \in Nat \ {0}
    PROVE  RowsInv([rows EXCEPT ![k].quantity = q], c, ge)
<1>. DEFINE less == [rows EXCEPT ![k].quantity = q]
<1>1. rows \in Seq(TrayRow) /\ k \in 1 .. Len(rows)
    BY DEF RowsInv
<1>2. rows[k] \in [gear : {0}, item : Items, quantity : Nat \ {0}]
  <2>1. 0 \notin Gear
      BY CustodyConstants
  <2>. QED
      BY <1>1, <2>1 DEF TrayRow
<1>3. [rows[k] EXCEPT !.quantity = q] \in TrayRow /\ [rows[k] EXCEPT !.quantity = q].gear = 0
    BY <1>2 DEF TrayRow
<1>4. less \in Seq(TrayRow) /\ DOMAIN less = DOMAIN rows
    BY <1>1, <1>3
<1>5. \A j \in DOMAIN rows : less[j].gear = rows[j].gear
    BY <1>1, <1>2, <1>3
<1>. HIDE DEF less
<1>6. RowsInv(less, c, ge)
    BY <1>4, <1>5 DEF RowsInv
<1>. QED
    BY <1>6 DEF less

-----------------------------------------------------------------------------
(* A claim in progress: the tables as its transaction sees them. *)
ClaimTx == [ok : BOOLEAN, stacks : [Place -> Stack], gear : [Gear -> Piece], tray : Seq(TrayRow)]

(* What a claim does to a piece: it stays, or it leaves the tray of c. *)
Claimed(x, y, c) == y = x \/ (InTrayOf(x, c) /\ y.loc = "IN_BAG" /\ y.holder = c)

ClaimInv(tx, c) ==
    /\ tx \in ClaimTx
    /\ SlotsInv(tx.stacks, tx.gear, cancelled)
    /\ RowsInv(tx.tray, c, tx.gear)
    /\ \A g \in Gear : Claimed(gear[g], tx.gear[g], c)

(* A row of equipment. *)
LEMMA PieceClaimed ==
    ASSUME NEW c \in Holders, NEW tx, ClaimInv(tx, c), NEW k \in DOMAIN tx.tray, tx.tray[k].gear # 0,
           NEW s \in ResolveStorageSlot(tx.stacks, tx.gear, c, "BAG", NoSlot)
    PROVE  LET g == tx.tray[k].gear IN
           ClaimInv([tx EXCEPT !.gear = [tx.gear EXCEPT ![g] = [tx.gear[g] EXCEPT !.loc = "IN_BAG", !.slot = s]],
                               !.tray = RemoveAt(tx.tray, k)], c)
<1>. DEFINE g == tx.tray[k].gear
            x == [tx.gear[g] EXCEPT !.loc = "IN_BAG", !.slot = s]
            ge == [tx.gear EXCEPT ![g] = x]
            rows == RemoveAt(tx.tray, k)
            t == [tx EXCEPT !.gear = ge, !.tray = rows]
<1>1. g \in Gear /\ tx.tray \in Seq(TrayRow)
  <2>1. tx.tray[k] \in TrayRow /\ tx.tray \in Seq(TrayRow)
      BY DEF ClaimInv, RowsInv
  <2>. QED
      BY <2>1 DEF TrayRow
<1>2. InTrayOf(tx.gear[g], c)
    BY DEF ClaimInv, RowsInv
<1>3. s \in SlotIndex /\ s # NoSlot
    BY ResolvedSlot, SlotFacts
<1>4. tx.gear \in [Gear -> Piece] /\ SoundPiece(tx.gear[g]) /\ tx.gear[g] \in Piece
    BY <1>1 DEF ClaimInv, SlotsInv
<1>. HIDE DEF g
<1>5. x \in Piece /\ SoundPiece(x) /\ x.holder = c /\ x.loc = "IN_BAG" /\ x.slot = s
    BY <1>2, <1>3, <1>4 DEF Piece, SoundPiece, Stored, Places, InTrayOf
<1>. HIDE DEF x
<1>6. ge \in [Gear -> Piece] /\ ge[g] = x /\ \A h \in Gear \ {g} : ge[h] = tx.gear[h]
    BY <1>1, <1>4, <1>5
<1>. HIDE DEF ge
<1>7. SlotsInv(tx.stacks, ge, cancelled)
    BY <1>1, <1>5, <1>6, StorePiece, StoreFacts DEF ClaimInv
<1>8. RowsInv(rows, c, ge)
  <2>1. ~InTrayOf(ge[g], c)
      BY <1>5, <1>6 DEF InTrayOf
  <2>. QED
      BY <1>6, <2>1, RowDropped DEF ClaimInv, g
<1>9. ASSUME NEW h \in Gear PROVE Claimed(gear[h], ge[h], c)
  <2>1. CASE h = g
    <3>1. Claimed(gear[g], tx.gear[g], c)
        BY <1>1 DEF ClaimInv
    <3>2. InTrayOf(gear[g], c)
        BY <1>2, <3>1 DEF Claimed, InTrayOf, Tied
    <3>. QED
        BY <1>5, <1>6, <2>1, <3>2 DEF Claimed, Tied
  <2>2. CASE h # g
      BY <1>6, <2>2 DEF ClaimInv
  <2>. QED
      BY <2>1, <2>2
<1>10. rows \in Seq(TrayRow)
    BY <1>8 DEF RowsInv
<1>. HIDE DEF rows
<1>11. t \in ClaimTx /\ t.stacks = tx.stacks /\ t.gear = ge /\ t.tray = rows
    BY <1>6, <1>10 DEF ClaimInv, ClaimTx
<1>. HIDE DEF t
<1>12. ClaimInv(t, c)
    BY <1>7, <1>8, <1>9, <1>11 DEF ClaimInv
<1>. QED
    BY <1>12 DEF t, rows, ge, x, g

(* A row of items, taken whole or in part. *)
LEMMA ItemsClaimed ==
    ASSUME NEW c \in Holders, NEW tx, ClaimInv(tx, c), NEW k \in DOMAIN tx.tray, tx.tray[k].gear = 0,
           NEW q \in Nat \ {0}, q <= tx.tray[k].quantity,
           NEW st \in AddInventoryItemToStorage(tx.stacks, tx.gear, c, "BAG", tx.tray[k].item, q)
    PROVE  LET rows == IF q = tx.tray[k].quantity THEN RemoveAt(tx.tray, k)
                       ELSE [tx.tray EXCEPT ![k].quantity = @ - q]
           IN  ClaimInv([tx EXCEPT !.stacks = st, !.tray = rows], c)
<1>. DEFINE rows == IF q = tx.tray[k].quantity THEN RemoveAt(tx.tray, k)
                    ELSE [tx.tray EXCEPT ![k].quantity = @ - q]
            t == [tx EXCEPT !.stacks = st, !.tray = rows]
<1>1. tx.tray[k].item \in Items /\ tx.tray[k].quantity \in Nat \ {0}
  <2>1. tx.tray[k] \in TrayRow
      BY DEF ClaimInv, RowsInv
  <2>2. 0 \notin Gear
      BY CustodyConstants
  <2>. QED
      BY <2>1, <2>2 DEF TrayRow
<1>2. SlotsInv(st, tx.gear, cancelled)
    BY <1>1, AddedItem, StoreFacts DEF ClaimInv
<1>3. RowsInv(rows, c, tx.gear)
  <2>1. CASE q = tx.tray[k].quantity
      BY <2>1, RowDropped DEF ClaimInv
  <2>2. CASE q # tx.tray[k].quantity
    <3>. DEFINE m == tx.tray[k].quantity - q
    <3>1. m \in Nat \ {0}
        BY <1>1, <2>2
    <3>2. rows = [tx.tray EXCEPT ![k].quantity = m]
        BY <2>2
    <3>. HIDE DEF m, rows
    <3>. QED
        BY <3>1, <3>2, RowReduced DEF ClaimInv
  <2>. QED
      BY <2>1, <2>2
<1>4. rows \in Seq(TrayRow) /\ st \in [Place -> Stack]
    BY <1>2, <1>3 DEF RowsInv, SlotsInv
<1>. HIDE DEF rows
<1>5. t \in ClaimTx /\ t.stacks = st /\ t.gear = tx.gear /\ t.tray = rows
    BY <1>4 DEF ClaimInv, ClaimTx
<1>. HIDE DEF t
<1>6. ClaimInv(t, c)
    BY <1>2, <1>3, <1>5 DEF ClaimInv
<1>. QED
    BY <1>6 DEF t, rows

LEMMA ClaimFails ==
    ASSUME NEW c, NEW tx, ClaimInv(tx, c)
    PROVE  ClaimInv([tx EXCEPT !.ok = FALSE], c) /\ [tx EXCEPT !.ok = FALSE].ok = FALSE
<1>. DEFINE t == [tx EXCEPT !.ok = FALSE]
<1>1. t \in ClaimTx /\ t.stacks = tx.stacks /\ t.gear = tx.gear /\ t.tray = tx.tray /\ t.ok = FALSE
    BY DEF ClaimInv, ClaimTx
<1>. HIDE DEF t
<1>2. ClaimInv(t, c) /\ t.ok = FALSE
    BY <1>1 DEF ClaimInv
<1>. QED
    BY <1>2 DEF t

(* claimLootRow keeps the tables in order; a whole row leaves the tray. *)
LEMMA RowClaimed ==
    ASSUME NEW c \in Holders, NEW tx, ClaimInv(tx, c), NEW k \in DOMAIN tx.tray, NEW q \in Nat
    PROVE  /\ ClaimInv(ClaimLootRow(tx, c, k, q), c)
           /\ ClaimLootRow(tx, c, k, q).ok /\ q = 0 =>
                  Len(ClaimLootRow(tx, c, k, q).tray) = Len(tx.tray) - 1
<1>. DEFINE row == tx.tray[k]
            g == row.gear
            amount == Wanted(q, row.quantity)
            slots == ResolveStorageSlot(tx.stacks, tx.gear, c, "BAG", NoSlot)
            added == AddInventoryItemToStorage(tx.stacks, tx.gear, c, "BAG", row.item, amount)
            t == ClaimLootRow(tx, c, k, q)
<1>1. row \in TrayRow /\ tx \in ClaimTx /\ tx.tray \in Seq(TrayRow)
    BY DEF ClaimInv, RowsInv
<1>2. row.quantity \in Nat \ {0} /\ (g # 0 => g \in Gear)
    BY <1>1 DEF TrayRow
<1>3. amount \in Nat \ {0} /\ (q = 0 => amount = row.quantity)
    BY <1>2 DEF Wanted
<1>4. Len(RemoveAt(tx.tray, k)) = Len(tx.tray) - 1
    BY <1>1, Removed
<1>. HIDE DEF amount
<1>5. CASE g # 0 /\ (slots = {} \/ tx.gear[g].loc # "IN_LOOT_TRAY")
  <2>1. t = [tx EXCEPT !.ok = FALSE]
      BY <1>5 DEF ClaimLootRow
  <2>. QED
      BY <2>1, ClaimFails
<1>6. CASE g # 0 /\ ~(slots = {} \/ tx.gear[g].loc # "IN_LOOT_TRAY")
  <2>. DEFINE s == Min(slots)
              ge == [tx.gear EXCEPT ![g] = [tx.gear[g] EXCEPT !.loc = "IN_BAG", !.slot = s]]
  <2>1. s \in slots
    <3>1. slots \in SUBSET Nat
        BY ResolvedSlot, SlotFacts
    <3>. HIDE DEF slots
    <3>. QED
        BY <1>6, <3>1, LeastSlot
  <2>. HIDE DEF s
  <2>2. t = [tx EXCEPT !.gear[g].loc = "IN_BAG", !.gear[g].slot = s, !.tray = RemoveAt(@, k)]
      BY <1>6 DEF ClaimLootRow, s
  <2>3. g \in Gear /\ tx.gear \in [Gear -> Piece]
      BY <1>1, <1>2, <1>6 DEF ClaimTx
  <2>4. t = [tx EXCEPT !.gear = ge, !.tray = RemoveAt(tx.tray, k)]
      BY <1>1, <2>2, <2>3 DEF ClaimTx
  <2>5. ClaimInv(t, c)
    <3>1. tx.tray[k].gear # 0
        BY <1>6
    <3>2. ClaimInv([tx EXCEPT !.gear = ge, !.tray = RemoveAt(tx.tray, k)], c)
        BY <2>1, <3>1, PieceClaimed
    <3>. QED
        BY <2>4, <3>2, Zenon
  <2>6. t.tray = RemoveAt(tx.tray, k)
      BY <1>1, <2>4 DEF ClaimTx
  <2>. QED
      BY <1>4, <2>5, <2>6
<1>7. CASE g = 0 /\ (amount > row.quantity \/ added = {})
  <2>1. t = [tx EXCEPT !.ok = FALSE]
      BY <1>7 DEF ClaimLootRow, amount
  <2>. QED
      BY <2>1, ClaimFails
<1>8. CASE g = 0 /\ ~(amount > row.quantity \/ added = {})
  <2>. DEFINE st == CHOOSE x \in added : TRUE
              rows == IF amount = tx.tray[k].quantity THEN RemoveAt(tx.tray, k)
                      ELSE [tx.tray EXCEPT ![k].quantity = @ - amount]
  <2>1. st \in added
      BY <1>8
  <2>. HIDE DEF st
  <2>2. t = [tx EXCEPT !.stacks = st,
                       !.tray = IF amount = row.quantity THEN RemoveAt(tx.tray, k)
                                ELSE [tx.tray EXCEPT ![k].quantity = @ - amount]]
      BY <1>8 DEF ClaimLootRow, st, amount
  <2>3. t = [tx EXCEPT !.stacks = st, !.tray = rows]
      BY <2>2
  <2>4. amount <= tx.tray[k].quantity
      BY <1>2, <1>3, <1>8
  <2>5. ClaimInv(t, c)
    <3>1. tx.tray[k].gear = 0
        BY <1>8
    <3>2. ClaimInv([tx EXCEPT !.stacks = st, !.tray = rows], c)
        BY <1>3, <2>1, <2>4, <3>1, ItemsClaimed
    <3>. QED
        BY <2>3, <3>2, Zenon
  <2>6. q = 0 => t.tray = RemoveAt(tx.tray, k)
      BY <1>1, <1>3, <2>3 DEF ClaimTx
  <2>. QED
      BY <1>4, <2>5, <2>6
<1>. QED
    BY <1>5, <1>6, <1>7, <1>8

-----------------------------------------------------------------------------
(* LootClaimAll: the transaction after each row is given by recursion. *)
NextClaim(c, f, n) ==
    IF n = 0 THEN LootTx(c)
    ELSE IF f[n - 1].ok THEN ClaimLootRow(f[n - 1], c, 1, 0) ELSE f[n - 1]

IsClaims(f, c, m) == f = [n \in 0 .. m |-> NextClaim(c, f, n)]

LEMMA ClaimsExist ==
    ASSUME NEW c, NEW m \in Nat
    PROVE  \E f : IsClaims(f, c, m)
<1>. DEFINE Ok(n) == \E f : IsClaims(f, c, n)
            Bad == {n \in Nat : ~Ok(n)}
<1>1. Ok(0)
  <2>. DEFINE f == [n \in 0 .. 0 |-> LootTx(c)]
  <2>1. f = [n \in 0 .. 0 |-> NextClaim(c, f, n)]
      BY DEF NextClaim
  <2>. QED
      BY <2>1 DEF IsClaims
<1>2. ASSUME NEW n \in Nat, Ok(n) PROVE Ok(n + 1)
  <2>1. PICK f : IsClaims(f, c, n)
      BY <1>2
  <2>. DEFINE h == [k \in 0 .. n + 1 |-> NextClaim(c, f, k)]
  <2>2. ASSUME NEW k \in 0 .. n PROVE h[k] = f[k] /\ k \in 0 .. n + 1
      BY <2>1 DEF IsClaims
  <2>3. ASSUME NEW k \in 0 .. n + 1 PROVE NextClaim(c, f, k) = NextClaim(c, h, k)
    <3>1. CASE k = 0
        BY <3>1 DEF NextClaim
    <3>2. CASE k # 0
      <4>1. k - 1 \in 0 .. n
          BY <3>2
      <4>2. h[k - 1] = f[k - 1]
          BY <2>2, <4>1
      <4>. HIDE DEF h
      <4>. QED
          BY <3>2, <4>2 DEF NextClaim
    <3>. QED
        BY <3>1, <3>2
  <2>4. h = [k \in 0 .. n + 1 |-> NextClaim(c, h, k)]
      BY <2>3
  <2>. HIDE DEF h
  <2>. QED
      BY <2>4 DEF IsClaims
<1>. HIDE DEF Ok
<1>3. Bad = {}
  <2>. SUFFICES ASSUME Bad # {} PROVE FALSE
      OBVIOUS
  <2>0. Bad \in SUBSET Nat
      OBVIOUS
  <2>1. PICK k \in Bad : \A n \in Bad : k <= n
      BY <2>0, LeastNumber
  <2>2. k # 0 /\ k \in Nat
      BY <1>1
  <2>3. k - 1 \in Nat /\ k - 1 \notin Bad
      BY <2>1, <2>2
  <2>4. Ok(k - 1)
      BY <2>3
  <2>. QED
      BY <1>2, <2>2, <2>3, <2>4
<1>. QED
    BY <1>3 DEF Ok

LEMMA ClaimedRowsFacts ==
    ASSUME NEW c, Len(tray[c]) \in Nat
    PROVE  \A n \in 0 .. Len(tray[c]) : ClaimedRows(c)[n] = NextClaim(c, ClaimedRows(c), n)
<1>. DEFINE m == Len(tray[c])
            f == CHOOSE a : IsClaims(a, c, m)
<1>1. ClaimedRows(c) = f
    BY DEF ClaimedRows, IsClaims, NextClaim
<1>2. IsClaims(f, c, m)
    BY ClaimsExist
<1>. HIDE DEF f
<1>3. \A n \in 0 .. m : f[n] = NextClaim(c, f, n)
    BY <1>2 DEF IsClaims
<1>. QED
    BY <1>1, <1>3

(* After each row the tables are in order and a row less is pending. *)
LEMMA AllClaimed ==
    ASSUME NEW c \in Holders, ClaimInv(LootTx(c), c)
    PROVE  /\ Len(tray[c]) \in Nat
           /\ \A n \in 0 .. Len(tray[c]) :
                  /\ ClaimInv(ClaimedRows(c)[n], c)
                  /\ ClaimedRows(c)[n].ok => Len(ClaimedRows(c)[n].tray) = Len(tray[c]) - n
<1>. DEFINE all == ClaimedRows(c)
            m == Len(tray[c])
            Good(n) == ClaimInv(all[n], c) /\ (all[n].ok => Len(all[n].tray) = m - n)
            Bad == {n \in 0 .. m : ~Good(n)}
<1>1. m \in Nat /\ LootTx(c).tray = tray[c]
  <2>1. LootTx(c).tray = tray[c]
      BY DEF LootTx
  <2>2. LootTx(c).tray \in Seq(TrayRow)
      BY DEF ClaimInv, RowsInv
  <2>. QED
      BY <2>1, <2>2
<1>2. \A n \in 0 .. m : all[n] = NextClaim(c, all, n)
    BY <1>1, ClaimedRowsFacts
<1>. HIDE DEF all
<1>3. Good(0)
  <2>1. all[0] = LootTx(c)
      BY <1>1, <1>2 DEF NextClaim
  <2>. QED
      BY <1>1, <2>1
<1>4. ASSUME NEW n \in 0 .. m, n # 0, Good(n - 1) PROVE Good(n)
  <2>. DEFINE tx == all[n - 1]
  <2>1. all[n] = IF tx.ok THEN ClaimLootRow(tx, c, 1, 0) ELSE tx
      BY <1>2, <1>4 DEF NextClaim
  <2>2. tx \in ClaimTx /\ ClaimInv(tx, c)
      BY <1>4 DEF ClaimInv
  <2>3. CASE tx.ok
    <3>1. Len(tx.tray) = m - (n - 1) /\ tx.tray \in Seq(TrayRow)
        BY <1>4, <2>2, <2>3 DEF ClaimTx
    <3>2. 1 \in DOMAIN tx.tray
        BY <1>1, <1>4, <3>1
    <3>. HIDE DEF tx
    <3>3. /\ ClaimInv(ClaimLootRow(tx, c, 1, 0), c)
          /\ ClaimLootRow(tx, c, 1, 0).ok => Len(ClaimLootRow(tx, c, 1, 0).tray) = Len(tx.tray) - 1
        BY <2>2, <3>2, RowClaimed
    <3>. QED
        BY <1>1, <2>1, <2>3, <3>1, <3>3
  <2>4. CASE ~tx.ok
      BY <2>1, <2>2, <2>4
  <2>. QED
      BY <2>3, <2>4
<1>. HIDE DEF Good
<1>5. Bad = {}
  <2>. SUFFICES ASSUME Bad # {} PROVE FALSE
      OBVIOUS
  <2>0. Bad \in SUBSET Nat
      BY <1>1
  <2>1. PICK k \in Bad : \A n \in Bad : k <= n
      BY <2>0, LeastNumber
  <2>2. k # 0 /\ k \in 0 .. m
      BY <1>3
  <2>3. k - 1 \in 0 .. m /\ k - 1 \notin Bad
      BY <1>1, <2>1, <2>2
  <2>. QED
      BY <1>4, <2>1, <2>2, <2>3
<1>6. \A n \in 0 .. m : Good(n)
    BY <1>5
<1>. QED
    BY <1>1, <1>6 DEF Good, all

-----------------------------------------------------------------------------
(* Steps that leave the tables that name a piece alone. *)
LEMMA QuietStep ==
    ASSUME CustodyIInv, SlotsInv(stacks', gear', cancelled'),
           \A g \in Gear : Untouched(gear[g], gear'[g]),
           UNCHANGED <<cast, tray, nft, returning, listings>>, live' \subseteq live,
           aeb' \in [Accounts -> Nat]
    PROVE  CustodyIInv'
<1>1. TraysInv(tray, gear') /\ MintInv(gear', nft, returning) /\ ListedInv(gear', listings)
    BY QuietTables DEF CustodyIInv
<1>. QED
    BY <1>1 DEF CustodyIInv

LEMMA StackStep ==
    ASSUME CustodyIInv, SlotsInv(stacks', gear, cancelled),
           UNCHANGED <<cast, gear, tray, nft, returning, listings, cancelled>>, live' \subseteq live,
           aeb' \in [Accounts -> Nat]
    PROVE  CustodyIInv'
<1>1. \A g \in Gear : Untouched(gear[g], gear'[g])
    BY DEF Untouched
<1>. QED
    BY <1>1, QuietStep

(* One piece g becomes x. *)
LEMMA OnePiece ==
    ASSUME CustodyIInv, NEW g \in Gear, NEW x, gear' = [gear EXCEPT ![g] = x], x \in Piece
    PROVE  /\ gear' \in [Gear -> Piece] /\ gear'[g] = x /\ \A h \in Gear \ {g} : gear'[h] = gear[h]
           /\ Untouched(gear[g], x) => \A h \in Gear : Untouched(gear[h], gear'[h])
BY DEF CustodyIInv, SlotsInv, Untouched

(* It stays where it is, or it leaves the slots. *)
LEMMA OnePieceLess ==
    ASSUME CustodyIInv, NEW g \in Gear, NEW x, gear' = [gear EXCEPT ![g] = x], SoundPiece(x),
           Whereabouts(x) = Whereabouts(gear[g]) \/ x.loc \notin Stored \cup {"EQUIPPED"},
           NEW st, SlotsInv(st, gear, cancelled)
    PROVE  SlotsInv(st, gear', cancelled)
<1>1. x \in Piece
    BY DEF SoundPiece
<1>2. /\ gear' \in [Gear -> Piece] /\ gear'[g] = x /\ \A h \in Gear \ {g} : gear'[h] = gear[h]
    BY <1>1, OnePiece
<1>3. \A h \in Gear : SoundPiece(gear'[h])
    BY <1>2 DEF CustodyIInv, SlotsInv
<1>4. \A h \in Gear : \/ Whereabouts(gear'[h]) = Whereabouts(gear[h])
                      \/ gear'[h].loc \notin Stored \cup {"EQUIPPED"}
    BY <1>2
<1>. QED
    BY <1>2, <1>3, <1>4, FewerPieces

(* Pieces as the tables have them. *)
LEMMA PieceFacts ==
    ASSUME CustodyIInv, NEW g \in Gear
    PROVE  /\ gear \in [Gear -> Piece] /\ gear[g] \in Piece /\ SoundPiece(gear[g])
           /\ gear[g].holder \in Holders
           /\ gear[g] = [loc |-> gear[g].loc, holder |-> gear[g].holder, slot |-> gear[g].slot,
                         worn |-> gear[g].worn, durability |-> gear[g].durability,
                         level |-> gear[g].level, bind |-> gear[g].bind, lapsed |-> gear[g].lapsed]
<1>1. gear \in [Gear -> Piece] /\ SoundPiece(gear[g])
    BY DEF CustodyIInv, SlotsInv
<1>. QED
    BY <1>1 DEF Piece

(* A piece that leaves its slot for a place of no slot. *)
LEMMA PieceGone ==
    ASSUME CustodyIInv, NEW g \in Gear,
           NEW loc \in Places \ (Stored \cup {"EQUIPPED"}), NEW worn \in {0, NoSlot}, NEW lapsed \in BOOLEAN
    PROVE  SoundPiece([gear[g] EXCEPT !.loc = loc, !.slot = NoSlot, !.worn = worn, !.lapsed = lapsed])
BY PieceFacts DEF Piece, SoundPiece

(* AEB spent and received. *)
LEMMA AccountFacts ==
    ASSUME NEW c \in Holders
    PROVE  OwnerOf[c] \in Accounts
BY DEF Accounts

LEMMA AebSpent ==
    ASSUME aeb \in [Accounts -> Nat], NEW a \in Accounts, NEW amount \in Nat, SpendAeb(a, amount)
    PROVE  aeb' \in [Accounts -> Nat]
BY DEF SpendAeb

LEMMA BpsNat ==
    ASSUME NEW amount \in Nat, NEW bps \in Nat
    PROVE  BpsAmount(amount, bps) \in Nat /\ BpsCeil(amount, bps) \in Nat
<1>1. amount * bps \in Nat
    OBVIOUS
<1>2. ASSUME NEW x \in Nat PROVE x \div 10000 \in Nat
    OBVIOUS
<1>3. (amount * bps) \div 10000 \in Nat /\ (amount * bps + 9999) \div 10000 \in Nat
    BY <1>1, <1>2
<1>. QED
    BY <1>3 DEF BpsAmount, BpsCeil

-----------------------------------------------------------------------------
(* Rewards. *)
LEMMA NewPiece ==
    ASSUME NEW c \in Holders
    PROVE  /\ \A s \in SlotIndex : SoundPiece(NewGear(c, "IN_BAG", s))
           /\ SoundPiece(NewGear(c, "IN_LOOT_TRAY", NoSlot))
           /\ NewGear(c, "IN_LOOT_TRAY", NoSlot).loc = "IN_LOOT_TRAY"
           /\ NewGear(c, "IN_LOOT_TRAY", NoSlot).holder = c
           /\ \A s : /\ NewGear(c, "IN_BAG", s).loc = "IN_BAG" /\ NewGear(c, "IN_BAG", s).holder = c
                     /\ NewGear(c, "IN_BAG", s).slot = s
<1>1. GearDurability \in 0 .. GearDurability /\ 0 \in 0 .. GearLevelMax
    BY CustodyConstants
<1>. QED
    BY <1>1, SlotFacts DEF NewGear, NoGear, SoundPiece, Piece, Places, Stored, Tied

LEMMA ApplyTrayItemKeeps ==
    ASSUME CustodyIInv, NEW c \in Holders, NEW i \in Items, NEW q \in Quantities, ApplyTrayItem(c, i, q)
    PROVE  CustodyIInv'
<1>. DEFINE row == [gear |-> 0, item |-> i, quantity |-> q]
<1>1. row \in TrayRow /\ row.gear = 0
    BY CustodyConstants DEF TrayRow
<1>2. tray \in [Holders -> Seq(TrayRow)] /\ RowsInv(tray[c], c, gear)
    BY DEF CustodyIInv, TraysInv
<1>. HIDE DEF row
<1>3. RowsInv(Append(tray[c], row), c, gear)
    BY <1>1, <1>2, RowAdded
<1>4. tray' = [tray EXCEPT ![c] = Append(tray[c], row)]
    BY DEF ApplyTrayItem, row
<1>5. TraysInv(tray', gear)
  <2>1. Append(tray[c], row) \in Seq(TrayRow)
      BY <1>3 DEF RowsInv
  <2>2. tray' \in [Holders -> Seq(TrayRow)] /\ \A d \in Holders : tray'[d] = IF d = c THEN Append(tray[c], row) ELSE tray[d]
      BY <1>2, <1>4, <2>1
  <2>. QED
      BY <1>3, <2>2 DEF CustodyIInv, TraysInv
<1>. QED
    BY <1>5 DEF ApplyTrayItem, market, CustodyIInv

LEMMA ApplyTrayGearKeeps ==
    ASSUME CustodyIInv, NEW c \in Holders, NEW g \in Gear, ApplyTrayGear(c, g)
    PROVE  CustodyIInv'
<1>. DEFINE row == [gear |-> g, item |-> 0, quantity |-> 1]
            x == NewGear(c, "IN_LOOT_TRAY", NoSlot)
<1>1. row \in TrayRow /\ row.gear = g
    BY CustodyConstants DEF TrayRow
<1>2. tray \in [Holders -> Seq(TrayRow)] /\ RowsInv(tray[c], c, gear)
    BY DEF CustodyIInv, TraysInv
<1>3. /\ gear' = [gear EXCEPT ![g] = x] /\ gear[g].loc = "NONE"
      /\ tray' = [tray EXCEPT ![c] = Append(tray[c], row)]
      /\ UNCHANGED <<stacks, nft, returning, live>> /\ UNCHANGED market
    BY DEF ApplyTrayGear, Unmade
<1>4. SoundPiece(x) /\ x.loc = "IN_LOOT_TRAY" /\ x.holder = c
    BY NewPiece
<1>. HIDE DEF row, x
<1>5. SlotsInv(stacks, gear', cancelled)
    BY <1>3, <1>4, OnePieceLess DEF CustodyIInv, Stored
<1>6. gear'[g] = x /\ \A h \in Gear \ {g} : gear'[h] = gear[h]
    BY <1>3, <1>4, OnePiece DEF SoundPiece
<1>7. RowsInv(Append(tray[c], row), c, gear')
  <2>1. \A h \in Gear \ {row.gear} : InTrayOf(gear[h], c) <=> InTrayOf(gear'[h], c)
      BY <1>1, <1>6
  <2>2. ~InTrayOf(gear[row.gear], c) /\ InTrayOf(gear'[row.gear], c)
      BY <1>1, <1>3, <1>4, <1>6 DEF InTrayOf
  <2>. QED
      BY <1>1, <1>2, <2>1, <2>2, RowAdded
<1>8. ASSUME NEW d \in Holders, d # c PROVE RowsInv(tray[d], d, gear')
  <2>1. \A h \in Gear : InTrayOf(gear[h], d) <=> InTrayOf(gear'[h], d)
      BY <1>3, <1>4, <1>6, <1>8 DEF InTrayOf
  <2>. QED
      BY <2>1, QuietRows DEF CustodyIInv, TraysInv
<1>9. TraysInv(tray', gear')
  <2>1. Append(tray[c], row) \in Seq(TrayRow)
      BY <1>7 DEF RowsInv
  <2>2. tray' \in [Holders -> Seq(TrayRow)] /\ \A d \in Holders : tray'[d] = IF d = c THEN Append(tray[c], row) ELSE tray[d]
      BY <1>2, <1>3, <2>1
  <2>. QED
      BY <1>7, <1>8, <2>2 DEF TraysInv
<1>10. MintInv(gear', nft, returning) /\ ListedInv(gear', listings)
  <2>1. \A h \in Gear : /\ gear'[h].loc = "MINT_PENDING" <=> gear[h].loc = "MINT_PENDING"
                        /\ gear'[h].loc = "ON_CHAIN" <=> gear[h].loc = "ON_CHAIN"
                        /\ gear'[h].loc = "LISTED" <=> gear[h].loc = "LISTED"
                        /\ gear[h].loc = "LISTED" => gear'[h].holder = gear[h].holder
      BY <1>3, <1>4, <1>6
  <2>. QED
      BY <2>1 DEF CustodyIInv, MintInv, ListedInv
<1>. QED
    BY <1>3, <1>5, <1>9, <1>10 DEF market, CustodyIInv

LEMMA ApplyItemToBagKeeps ==
    ASSUME CustodyIInv, NEW c \in Holders, NEW i \in Items, NEW q \in Quantities, ApplyItemToBag(c, i, q)
    PROVE  CustodyIInv'
<1>1. SlotsInv(stacks', gear, cancelled)
    BY AddedItem, StoreFacts, CustodyConstants DEF CustodyIInv, ApplyItemToBag
<1>. QED
    BY <1>1, StackStep DEF CustodyIInv, ApplyItemToBag, market

(* A new piece in a free slot of the bag, next to the stacks st. *)
LEMMA GearToBagKeeps ==
    ASSUME CustodyIInv, NEW c \in Holders, NEW g \in Gear, gear[g].loc = "NONE",
           NEW st, SlotsInv(st, gear, cancelled), GearToBag(st, c, g)
    PROVE  SlotsInv(st, gear', cancelled) /\ \A h \in Gear : Untouched(gear[h], gear'[h])
<1>1. PICK s \in ResolveStorageSlot(st, gear, c, "BAG", NoSlot) :
          gear' = [gear EXCEPT ![g] = NewGear(c, "IN_BAG", s)]
    BY DEF GearToBag
<1>. DEFINE x == NewGear(c, "IN_BAG", s)
<1>2. s \in SlotIndex
    BY <1>1, ResolvedSlot
<1>3. SoundPiece(x) /\ x.loc = "IN_BAG" /\ x.holder = c /\ x.slot = s /\ x \in Piece
    BY <1>2, NewPiece DEF SoundPiece
<1>. HIDE DEF x
<1>4. /\ gear' \in [Gear -> Piece] /\ gear'[g] = x /\ \A h \in Gear \ {g} : gear'[h] = gear[h]
      /\ Untouched(gear[g], x) => \A h \in Gear : Untouched(gear[h], gear'[h])
    BY <1>1, <1>3, OnePiece DEF x
<1>5. Untouched(gear[g], x)
    BY <1>3 DEF Untouched, Tied
<1>6. SlotsInv(st, gear', cancelled)
  <2>1. /\ gear' \in [Gear -> Piece] /\ SoundPiece(gear'[g]) /\ \A h \in Gear \ {g} : gear'[h] = gear[h]
        /\ gear'[g].holder = c /\ gear'[g].slot = s /\ gear'[g].loc = EquipmentStorageLocation("BAG")
      BY <1>3, <1>4, StoreFacts
  <2>2. "BAG" \in Stores
      BY StoreFacts
  <2>. QED
      BY <2>1, <2>2, StorePiece
<1>. QED
    BY <1>4, <1>5, <1>6

LEMMA ApplyGearToBagKeeps ==
    ASSUME CustodyIInv, NEW c \in Holders, NEW g \in Gear, ApplyGearToBag(c, g)
    PROVE  CustodyIInv'
<1>1. SlotsInv(stacks, gear', cancelled) /\ \A h \in Gear : Untouched(gear[h], gear'[h])
    BY GearToBagKeeps DEF CustodyIInv, ApplyGearToBag, Unmade
<1>. QED
    BY <1>1, QuietStep DEF CustodyIInv, ApplyGearToBag, market

LEMMA SynthesizeKeeps ==
    ASSUME CustodyIInv, NEW c \in Holders, NEW i \in Items, NEW g \in Gear, Synthesize(c, i, g)
    PROVE  CustodyIInv'
<1>1. stacks' \in [Place -> Stack] /\ \A p \in Place : stacks[p] = NoStack => stacks'[p] = NoStack
    BY ConsumedItem, CustodyConstants DEF CustodyIInv, SlotsInv, Synthesize
<1>2. SlotsInv(stacks', gear, cancelled)
    BY <1>1, FewerStacks DEF CustodyIInv
<1>3. SlotsInv(stacks', gear', cancelled) /\ \A h \in Gear : Untouched(gear[h], gear'[h])
    BY <1>2, GearToBagKeeps DEF Synthesize, Unmade
<1>. QED
    BY <1>3, QuietStep DEF CustodyIInv, Synthesize, market

-----------------------------------------------------------------------------
(* The loot tray. *)
LEMMA ClaimStarts ==
    ASSUME CustodyIInv, NEW c \in Holders
    PROVE  ClaimInv(LootTx(c), c)
<1>. DEFINE tx == LootTx(c)
<1>1. RowsInv(tray[c], c, gear) /\ SlotsInv(stacks, gear, cancelled)
    BY DEF CustodyIInv, TraysInv
<1>2. tray[c] \in Seq(TrayRow) /\ stacks \in [Place -> Stack] /\ gear \in [Gear -> Piece]
    BY <1>1 DEF RowsInv, SlotsInv
<1>3. tx \in ClaimTx /\ tx.stacks = stacks /\ tx.gear = gear /\ tx.tray = tray[c]
    BY <1>2 DEF LootTx, ClaimTx
<1>. HIDE DEF tx
<1>4. \A g \in Gear : Claimed(gear[g], tx.gear[g], c)
    BY <1>3 DEF Claimed
<1>5. ClaimInv(tx, c)
    BY <1>1, <1>3, <1>4 DEF ClaimInv
<1>. QED
    BY <1>5 DEF tx

LEMMA ClaimKeeps ==
    ASSUME CustodyIInv, NEW c \in Holders, NEW tx, ClaimInv(tx, c), Claim(c, tx)
    PROVE  CustodyIInv'
<1>1. /\ stacks' = tx.stacks /\ gear' = tx.gear /\ tray' = [tray EXCEPT ![c] = tx.tray]
      /\ UNCHANGED <<nft, returning, live>> /\ UNCHANGED market
    BY DEF Claim
<1>2. SlotsInv(stacks', gear', cancelled) /\ RowsInv(tx.tray, c, gear')
    BY <1>1 DEF ClaimInv
<1>3. ASSUME NEW g \in Gear PROVE Claimed(gear[g], gear'[g], c)
    BY <1>1 DEF ClaimInv
<1>4. ASSUME NEW d \in Holders, d # c PROVE RowsInv(tray[d], d, gear')
  <2>1. \A h \in Gear : InTrayOf(gear[h], d) <=> InTrayOf(gear'[h], d)
      BY <1>3, <1>4 DEF InTrayOf, Claimed, Tied
  <2>. QED
      BY <2>1, QuietRows DEF CustodyIInv, TraysInv
<1>5. TraysInv(tray', gear')
  <2>1. tx.tray \in Seq(TrayRow) /\ tray \in [Holders -> Seq(TrayRow)]
      BY <1>2 DEF RowsInv, CustodyIInv, TraysInv
  <2>2. tray' \in [Holders -> Seq(TrayRow)] /\ \A d \in Holders : tray'[d] = IF d = c THEN tx.tray ELSE tray[d]
      BY <1>1, <2>1
  <2>. QED
      BY <1>2, <1>4, <2>2 DEF TraysInv
<1>6. MintInv(gear', nft, returning) /\ ListedInv(gear', listings)
  <2>1. ASSUME NEW h \in Gear
        PROVE  /\ gear'[h].loc = "MINT_PENDING" <=> gear[h].loc = "MINT_PENDING"
               /\ gear'[h].loc = "ON_CHAIN" <=> gear[h].loc = "ON_CHAIN"
               /\ gear'[h].loc = "LISTED" <=> gear[h].loc = "LISTED"
               /\ gear[h].loc = "LISTED" => gear'[h].holder = gear[h].holder
      BY <1>3 DEF Claimed, InTrayOf, Tied
  <2>. QED
      BY <2>1 DEF CustodyIInv, MintInv, ListedInv
<1>. QED
    BY <1>1, <1>2, <1>5, <1>6 DEF market, CustodyIInv

LEMMA LootClaimKeeps ==
    ASSUME CustodyIInv, NEW c \in Holders, NEW k, NEW q \in Quantities \cup {0}, LootClaim(c, k, q)
    PROVE  CustodyIInv'
<1>1. ClaimInv(LootTx(c), c) /\ LootTx(c).tray = tray[c]
    BY ClaimStarts DEF LootTx
<1>2. k \in DOMAIN LootTx(c).tray /\ q \in Nat
    BY <1>1, CustodyConstants DEF LootClaim
<1>3. ClaimInv(ClaimLootRow(LootTx(c), c, k, q), c)
    BY <1>1, <1>2, RowClaimed
<1>. QED
    BY <1>3, ClaimKeeps DEF LootClaim

LEMMA LootClaimAllKeeps ==
    ASSUME CustodyIInv, NEW c \in Holders, LootClaimAll(c)
    PROVE  CustodyIInv'
<1>1. ClaimInv(ClaimedRows(c)[Len(tray[c])], c)
  <2>1. ClaimInv(LootTx(c), c)
      BY ClaimStarts
  <2>2. Len(tray[c]) \in Nat /\ \A n \in 0 .. Len(tray[c]) : ClaimInv(ClaimedRows(c)[n], c)
      BY <2>1, AllClaimed
  <2>. QED
      BY <2>2
<1>. QED
    BY <1>1, ClaimKeeps DEF LootClaimAll

LEMMA LootDiscardKeeps ==
    ASSUME CustodyIInv, NEW c \in Holders, NEW k, LootDiscard(c, k)
    PROVE  CustodyIInv'
<1>. DEFINE row == tray[c][k]
            g == row.gear
            rows == RemoveAt(tray[c], k)
<1>1. /\ k \in DOMAIN tray[c] /\ tray' = [tray EXCEPT ![c] = rows]
      /\ UNCHANGED <<stacks, nft, returning, live>> /\ UNCHANGED market
      /\ g # 0 => gear' = [gear EXCEPT ![g].loc = IF @ = "IN_LOOT_TRAY" THEN "DELETED" ELSE @]
      /\ g = 0 => gear' = gear
    BY DEF LootDiscard
<1>2. RowsInv(tray[c], c, gear) /\ tray \in [Holders -> Seq(TrayRow)]
    BY DEF CustodyIInv, TraysInv
<1>3. row \in TrayRow /\ (g # 0 => g \in Gear /\ InTrayOf(gear[g], c))
  <2>1. row \in TrayRow
      BY <1>1, <1>2
  <2>. QED
      BY <1>1, <1>2, <2>1 DEF TrayRow, RowsInv
<1>4. /\ SlotsInv(stacks, gear', cancelled)
      /\ \A h \in Gear \ {g} : gear'[h] = gear[h]
      /\ g # 0 => gear'[g].loc = "DELETED"
  <2>1. CASE g = 0
      BY <1>1, <2>1 DEF CustodyIInv
  <2>2. CASE g # 0
    <3>. DEFINE x == [gear[g] EXCEPT !.loc = "DELETED"]
    <3>1. g \in Gear /\ gear[g].loc = "IN_LOOT_TRAY" /\ SoundPiece(gear[g]) /\ gear \in [Gear -> Piece]
        BY <1>3, <2>2, PieceFacts DEF InTrayOf
    <3>2. SoundPiece(x) /\ x.loc = "DELETED"
        BY <3>1 DEF SoundPiece, Piece, Places, Stored
    <3>3. gear' = [gear EXCEPT ![g] = x]
        BY <1>1, <2>2, <3>1
    <3>. HIDE DEF x, g
    <3>4. SlotsInv(stacks, gear', cancelled)
        BY <3>1, <3>2, <3>3, OnePieceLess DEF CustodyIInv, Stored
    <3>5. gear'[g] = x /\ \A h \in Gear \ {g} : gear'[h] = gear[h]
        BY <3>1, <3>2, <3>3, OnePiece DEF SoundPiece
    <3>. QED
        BY <3>2, <3>4, <3>5
  <2>. QED
      BY <2>1, <2>2
<1>5. RowsInv(rows, c, gear')
  <2>1. \A h \in Gear \ {g} : InTrayOf(gear[h], c) <=> InTrayOf(gear'[h], c)
      BY <1>4
  <2>2. g # 0 => ~InTrayOf(gear'[g], c)
      BY <1>4 DEF InTrayOf
  <2>. QED
      BY <1>1, <1>2, <2>1, <2>2, RowDropped
<1>. HIDE DEF rows
<1>6. ASSUME NEW d \in Holders, d # c PROVE RowsInv(tray[d], d, gear')
  <2>1. \A h \in Gear : InTrayOf(gear[h], d) <=> InTrayOf(gear'[h], d)
    <3>1. ASSUME NEW h \in Gear PROVE InTrayOf(gear[h], d) <=> InTrayOf(gear'[h], d)
      <4>1. CASE h # g
          BY <1>4, <4>1
      <4>2. CASE h = g
        <5>1. g # 0
            BY <4>2, CustodyConstants
        <5>. QED
            BY <1>3, <1>4, <1>6, <4>2, <5>1 DEF InTrayOf
      <4>. QED
          BY <4>1, <4>2
    <3>. QED
        BY <3>1
  <2>. QED
      BY <2>1, QuietRows DEF CustodyIInv, TraysInv
<1>7. TraysInv(tray', gear')
  <2>1. rows \in Seq(TrayRow)
      BY <1>5 DEF RowsInv
  <2>2. tray' \in [Holders -> Seq(TrayRow)] /\ \A d \in Holders : tray'[d] = IF d = c THEN rows ELSE tray[d]
      BY <1>1, <1>2, <2>1
  <2>. QED
      BY <1>5, <1>6, <2>2 DEF TraysInv
<1>8. MintInv(gear', nft, returning) /\ ListedInv(gear', listings)
  <2>1. ASSUME NEW h \in Gear
        PROVE  /\ gear'[h].loc = "MINT_PENDING" <=> gear[h].loc = "MINT_PENDING"
               /\ gear'[h].loc = "ON_CHAIN" <=> gear[h].loc = "ON_CHAIN"
               /\ gear'[h].loc = "LISTED" <=> gear[h].loc = "LISTED"
               /\ gear[h].loc = "LISTED" => gear'[h].holder = gear[h].holder
    <3>1. CASE h # g
        BY <1>4, <3>1
    <3>2. CASE h = g
      <4>1. g # 0
          BY <3>2, CustodyConstants
      <4>. QED
          BY <1>3, <1>4, <3>2, <4>1 DEF InTrayOf
    <3>. QED
        BY <3>1, <3>2
  <2>. QED
      BY <2>1 DEF CustodyIInv, MintInv, ListedInv
<1>. QED
    BY <1>1, <1>4, <1>7, <1>8 DEF market, CustodyIInv

-----------------------------------------------------------------------------
(* Bag and warehouse. *)
LEMMA StackLess ==
    ASSUME CustodyIInv, NEW p \in Place, NEW q \in Nat, q <= stacks[p].quantity
    PROVE  /\ TakeFrom(p, q) \in [Place -> Stack]
           /\ \A r \in Place : stacks[r] = NoStack => TakeFrom(p, q)[r] = NoStack
           /\ SlotsInv(TakeFrom(p, q), gear, cancelled)
<1>. DEFINE x == IF stacks[p].quantity = q THEN NoStack ELSE [stacks[p] EXCEPT !.quantity = @ - q]
<1>1. stacks \in [Place -> Stack] /\ stacks[p] \in Stack /\ stacks[p].quantity \in Nat
    BY StackFacts DEF CustodyIInv, SlotsInv
<1>2. x \in Stack /\ (stacks[p] = NoStack => x = NoStack)
  <2>1. CASE stacks[p].quantity = q
      BY <2>1, StackFacts
  <2>2. CASE stacks[p].quantity # q
    <3>1. stacks[p] \in StackRow /\ stacks[p] # NoStack
        BY <1>1, <2>2, StackFacts
    <3>2. stacks[p].quantity - q \in Nat \ {0}
        BY <1>1, <2>2
    <3>. QED
        BY <2>2, <3>1, <3>2 DEF Stack, StackRow
  <2>. QED
      BY <2>1, <2>2
<1>3. TakeFrom(p, q) = [stacks EXCEPT ![p] = x]
    BY DEF TakeFrom
<1>. HIDE DEF x
<1>4. /\ TakeFrom(p, q) \in [Place -> Stack]
      /\ \A r \in Place : stacks[r] = NoStack => TakeFrom(p, q)[r] = NoStack
    BY <1>1, <1>2, <1>3
<1>. QED
    BY <1>4, FewerStacks DEF CustodyIInv

LEMMA MoveGearKeeps ==
    ASSUME CustodyIInv, NEW c \in Holders, NEW g \in Gear, NEW from \in Stores, NEW to \in Stores,
           NEW requested, MoveGear(c, g, from, to, requested)
    PROVE  CustodyIInv'
<1>1. PICK s \in ResolveStorageSlot(stacks, gear, c, to, requested) :
          gear' = [gear EXCEPT ![g].loc = EquipmentStorageLocation(to), ![g].slot = s]
    BY DEF MoveGear
<1>. DEFINE x == [gear[g] EXCEPT !.loc = EquipmentStorageLocation(to), !.slot = s]
<1>2. /\ gear[g].holder = c /\ gear[g].loc = EquipmentStorageLocation(from)
      /\ UNCHANGED <<stacks, tray, nft, returning, live>> /\ UNCHANGED market
    BY DEF MoveGear
<1>3. gear[g] \in Piece /\ SoundPiece(gear[g]) /\ gear \in [Gear -> Piece]
    BY PieceFacts
<1>4. s \in SlotIndex /\ s # NoSlot
    BY ResolvedSlot, SlotFacts
<1>5. EquipmentStorageLocation(to) \in Stored /\ gear[g].loc \in Stored
    BY <1>2, StoreFacts
<1>6. /\ SoundPiece(x) /\ x \in Piece /\ x.loc = EquipmentStorageLocation(to)
      /\ x.slot = s /\ x.holder = c
    BY <1>2, <1>3, <1>4, <1>5 DEF SoundPiece, Piece, Places, Stored
<1>7. gear' = [gear EXCEPT ![g] = x]
    BY <1>1, <1>3
<1>. HIDE DEF x
<1>8. Untouched(gear[g], x)
    BY <1>5, <1>6 DEF Untouched, Tied, Stored
<1>9. /\ gear' \in [Gear -> Piece] /\ gear'[g] = x /\ \A h \in Gear \ {g} : gear'[h] = gear[h]
      /\ \A h \in Gear : Untouched(gear[h], gear'[h])
    BY <1>6, <1>7, <1>8, OnePiece
<1>10. SlotsInv(stacks, gear', cancelled)
  <2>1. SlotsInv(stacks, gear, cancelled)
      BY DEF CustodyIInv
  <2>. QED
      BY <1>6, <1>9, <2>1, StorePiece
<1>. QED
    BY <1>2, <1>9, <1>10, QuietStep DEF market, CustodyIInv

LEMMA MoveInventoryKeeps ==
    ASSUME CustodyIInv, NEW c \in Holders, NEW s \in SlotIndex, NEW q \in Quantities,
           NEW from \in Stores, NEW to \in Stores, MoveInventory(c, s, q, from, to)
    PROVE  CustodyIInv'
<1>. DEFINE p == <<c, from, s>>
            row == stacks[p]
            moved == [row EXCEPT !.quantity = q, !.bind = IF q = row.quantity THEN @ ELSE "BOUND"]
            less == TakeFrom(p, q)
<1>1. PICK t \in ResolveStorageSlot(stacks, gear, c, to, NoSlot) :
          stacks' = [less EXCEPT ![<<c, to, t>>] = moved]
    BY DEF MoveInventory
<1>2. row.quantity >= q /\ UNCHANGED <<gear, tray, nft, returning, live>> /\ UNCHANGED market
    BY DEF MoveInventory
<1>3. p \in Place /\ q \in Nat \ {0}
    BY PlaceFacts, CustodyConstants
<1>4. row \in Stack /\ row.quantity \in Nat
    BY <1>3, StackFacts DEF CustodyIInv, SlotsInv
<1>5. row \in StackRow
  <2>1. row.quantity > 0
      BY <1>2, <1>3, <1>4
  <2>. QED
      BY <1>4, <2>1, StackFacts
<1>6. moved \in Stack
    BY <1>3, <1>5 DEF Stack, StackRow
<1>7. /\ SlotsInv(less, gear, cancelled)
      /\ \A r \in Place : stacks[r] = NoStack => less[r] = NoStack
    BY <1>2, <1>3, <1>4, StackLess
<1>8. t \in SlotIndex /\ StorageSlotFree(stacks, gear, c, to, t)
    BY ResolvedSlot
<1>9. StorageSlotFree(less, gear, c, to, t)
    BY <1>7, <1>8, PlaceFacts DEF StorageSlotFree
<1>. HIDE DEF moved, less
<1>10. SlotsInv(stacks', gear, cancelled)
    BY <1>1, <1>6, <1>7, <1>8, <1>9, NewStack
<1>. QED
    BY <1>2, <1>10, StackStep DEF market, CustodyIInv

LEMMA OrganizeStorageKeeps ==
    ASSUME CustodyIInv, NEW c \in Holders, NEW l \in Stores, OrganizeStorage(c, l)
    PROVE  CustodyIInv'
<1>1. SlotsInv(stacks', gear', cancelled) /\ \A g \in Gear : Untouched(gear[g], gear'[g])
    BY Organized DEF CustodyIInv
<1>2. UNCHANGED <<tray, nft, returning, live>> /\ UNCHANGED market
    BY DEF OrganizeStorage
<1>. QED
    BY <1>1, <1>2, QuietStep DEF market, CustodyIInv

LEMMA InventoryDiscardKeeps ==
    ASSUME CustodyIInv, NEW c \in Holders, NEW s \in SlotIndex, NEW q \in Quantities \cup {0},
           InventoryDiscard(c, s, q)
    PROVE  CustodyIInv'
<1>. DEFINE p == <<c, "BAG", s>>
            amount == Wanted(q, stacks[p].quantity)
<1>1. /\ amount <= stacks[p].quantity /\ stacks' = TakeFrom(p, amount)
      /\ UNCHANGED <<gear, tray, nft, returning, live>> /\ UNCHANGED market
    BY DEF InventoryDiscard
<1>2. p \in Place
    BY PlaceFacts, StoreFacts
<1>3. stacks[p].quantity \in Nat
    BY <1>2, StackFacts DEF CustodyIInv, SlotsInv
<1>4. amount \in Nat
    BY <1>3, CustodyConstants DEF Wanted
<1>. HIDE DEF amount, p
<1>5. SlotsInv(stacks', gear, cancelled)
    BY <1>1, <1>2, <1>4, StackLess
<1>. QED
    BY <1>1, <1>5, StackStep DEF market, CustodyIInv

-----------------------------------------------------------------------------
(* Worn equipment. *)
LEMMA EquipItemKeeps ==
    ASSUME CustodyIInv, NEW c \in Holders, NEW g \in Gear, EquipItem(c, g, 0)
    PROVE  CustodyIInv'
<1>. DEFINE worn == {h \in Gear : gear[h].holder = c /\ gear[h].loc = "EQUIPPED" /\ gear[h].worn = 0}
            x == [gear[g] EXCEPT !.loc = "EQUIPPED", !.slot = NoSlot, !.worn = 0]
<1>1. /\ gear[g].holder = c /\ gear[g].loc = "IN_BAG"
      /\ UNCHANGED <<stacks, tray, nft, returning, live>> /\ UNCHANGED market
    BY DEF EquipItem
<1>2. gear[g] \in Piece /\ SoundPiece(gear[g]) /\ gear \in [Gear -> Piece] /\ SlotsInv(stacks, gear, cancelled)
    BY PieceFacts DEF CustodyIInv
<1>3. SoundPiece(x) /\ x \in Piece /\ x.loc = "EQUIPPED" /\ x.holder = c /\ x.worn = 0
  <2>1. x \in Piece
      BY <1>2 DEF Piece, Places
  <2>2. x.loc = "EQUIPPED" /\ x.holder = c /\ x.worn = 0 /\ x.slot = NoSlot
      BY <1>1, <1>2 DEF Piece
  <2>3. 0 # NoSlot
      BY DEF NoSlot
  <2>. HIDE DEF x
  <2>. QED
      BY <2>1, <2>2, <2>3 DEF SoundPiece, Stored
<1>4. CASE worn = {}
  <2>1. gear' = [gear EXCEPT ![g].loc = "EQUIPPED", ![g].slot = NoSlot, ![g].worn = 0]
      BY <1>4 DEF EquipItem
  <2>2. gear' = [gear EXCEPT ![g] = x]
      BY <1>2, <2>1
  <2>3. Untouched(gear[g], x)
      BY <1>1, <1>3 DEF Untouched, Tied
  <2>4. \A h \in Gear : ~(gear[h].holder = c /\ gear[h].loc = "EQUIPPED" /\ gear[h].worn = 0)
      BY <1>4
  <2>. HIDE DEF x, worn
  <2>5. /\ gear' \in [Gear -> Piece] /\ gear'[g] = x /\ \A h \in Gear \ {g} : gear'[h] = gear[h]
        /\ \A h \in Gear : Untouched(gear[h], gear'[h])
      BY <1>3, <2>2, <2>3, OnePiece
  <2>6. SlotsInv(stacks, gear', cancelled)
    <3>1. \A h \in Gear \ {g} : gear[h].holder = gear'[g].holder /\ gear[h].loc = "EQUIPPED" =>
                                    gear[h].worn # gear'[g].worn
        BY <1>3, <2>4, <2>5
    <3>2. SoundPiece(gear'[g]) /\ gear'[g].loc = "EQUIPPED"
        BY <1>3, <2>5
    <3>. QED
        BY <1>2, <2>5, <3>1, <3>2, WearPiece
  <2>. QED
      BY <1>1, <2>5, <2>6, QuietStep DEF market, CustodyIInv
<1>5. CASE worn # {}
  <2>1. PICK h \in worn, s \in ResolveStorageSlot(stacks, gear, c, "BAG", NoSlot) :
          gear' = [[gear EXCEPT ![h].loc = "IN_BAG", ![h].slot = s]
                     EXCEPT ![g].loc = "EQUIPPED", ![g].slot = NoSlot, ![g].worn = 0]
      BY <1>5 DEF EquipItem
  <2>. DEFINE y == [gear[h] EXCEPT !.loc = "IN_BAG", !.slot = s]
              ge == [gear EXCEPT ![h] = y]
  <2>2. h \in Gear /\ gear[h].holder = c /\ gear[h].loc = "EQUIPPED" /\ gear[h].worn = 0 /\ h # g
      BY <1>1
  <2>3. gear[h] \in Piece /\ SoundPiece(gear[h])
      BY <2>2, PieceFacts
  <2>4. s \in SlotIndex /\ s # NoSlot
      BY ResolvedSlot, SlotFacts
  <2>5. SoundPiece(y) /\ y \in Piece /\ y.loc = "IN_BAG" /\ y.holder = c /\ y.slot = s
      BY <2>2, <2>3, <2>4 DEF SoundPiece, Piece, Places, Stored
  <2>6. gear' = [ge EXCEPT ![g] = x]
      BY <1>2, <2>1, <2>2
  <2>7. \A k \in Gear : gear[k].holder = c /\ gear[k].loc = "EQUIPPED" /\ k # h => gear[k].worn # 0
      BY <1>2, <2>2 DEF SlotsInv, ApartIn
  <2>8. Untouched(gear[g], x) /\ Untouched(gear[h], y)
      BY <1>1, <1>3, <2>2, <2>5 DEF Untouched, Tied
  <2>. HIDE DEF x, y, worn
  <2>9. ge \in [Gear -> Piece] /\ ge[h] = y /\ \A k \in Gear \ {h} : ge[k] = gear[k]
      BY <1>2, <2>2, <2>5
  <2>. HIDE DEF ge
  <2>10. SlotsInv(stacks, ge, cancelled)
    <3>1. SoundPiece(ge[h]) /\ ge[h].holder = c /\ ge[h].slot = s /\ ge[h].loc = EquipmentStorageLocation("BAG")
        BY <2>5, <2>9, StoreFacts
    <3>2. "BAG" \in Stores
        BY StoreFacts
    <3>. QED
        BY <1>2, <2>2, <2>9, <3>1, <3>2, StorePiece
  <2>11. gear' \in [Gear -> Piece] /\ gear'[g] = x /\ \A k \in Gear \ {g} : gear'[k] = ge[k]
      BY <1>3, <2>6, <2>9
  <2>12. SlotsInv(stacks, gear', cancelled)
    <3>1. \A k \in Gear \ {g} : ge[k].holder = gear'[g].holder /\ ge[k].loc = "EQUIPPED" =>
                                    ge[k].worn # gear'[g].worn
        BY <1>3, <2>5, <2>7, <2>9, <2>11
    <3>2. SoundPiece(gear'[g]) /\ gear'[g].loc = "EQUIPPED"
        BY <1>3, <2>11
    <3>. QED
        BY <2>10, <2>11, <3>1, <3>2, WearPiece
  <2>13. ASSUME NEW k \in Gear PROVE Untouched(gear[k], gear'[k])
    <3>1. CASE k # g /\ k # h
        BY <2>9, <2>11, <3>1 DEF Untouched
    <3>. QED
        BY <2>2, <2>8, <2>9, <2>11, <3>1
  <2>. QED
      BY <1>1, <2>12, <2>13, QuietStep DEF market, CustodyIInv
<1>. QED
    BY <1>4, <1>5

LEMMA UnequipItemKeeps ==
    ASSUME CustodyIInv, NEW c \in Holders, NEW g \in Gear, NEW requested, UnequipItem(c, g, requested)
    PROVE  CustodyIInv'
<1>1. PICK s \in ResolveStorageSlot(stacks, gear, c, "BAG", requested) :
          gear' = [gear EXCEPT ![g].loc = "IN_BAG", ![g].slot = s]
    BY DEF UnequipItem
<1>. DEFINE x == [gear[g] EXCEPT !.loc = "IN_BAG", !.slot = s]
<1>2. /\ gear[g].holder = c /\ gear[g].loc = "EQUIPPED"
      /\ UNCHANGED <<stacks, tray, nft, returning, live>> /\ UNCHANGED market
    BY DEF UnequipItem
<1>3. gear[g] \in Piece /\ SoundPiece(gear[g]) /\ gear \in [Gear -> Piece]
    BY PieceFacts
<1>4. s \in SlotIndex /\ s # NoSlot
    BY ResolvedSlot, SlotFacts
<1>5. /\ SoundPiece(x) /\ x \in Piece /\ x.loc = "IN_BAG" /\ x.slot = s /\ x.holder = c
    BY <1>2, <1>3, <1>4 DEF SoundPiece, Piece, Places, Stored
<1>6. gear' = [gear EXCEPT ![g] = x]
    BY <1>1, <1>3
<1>. HIDE DEF x
<1>7. Untouched(gear[g], x)
    BY <1>2, <1>5 DEF Untouched, Tied
<1>8. /\ gear' \in [Gear -> Piece] /\ gear'[g] = x /\ \A h \in Gear \ {g} : gear'[h] = gear[h]
      /\ \A h \in Gear : Untouched(gear[h], gear'[h])
    BY <1>5, <1>6, <1>7, OnePiece
<1>9. SlotsInv(stacks, gear', cancelled)
  <2>1. SlotsInv(stacks, gear, cancelled) /\ "BAG" \in Stores
      BY StoreFacts DEF CustodyIInv
  <2>2. SoundPiece(gear'[g]) /\ gear'[g].holder = c /\ gear'[g].slot = s /\ gear'[g].loc = EquipmentStorageLocation("BAG")
      BY <1>5, <1>8, StoreFacts
  <2>. QED
      BY <1>8, <2>1, <2>2, StorePiece
<1>. QED
    BY <1>2, <1>8, <1>9, QuietStep DEF market, CustodyIInv

-----------------------------------------------------------------------------
(* Ends of a piece. *)
LEMMA PieceEnds ==
    ASSUME CustodyIInv, NEW g \in Gear, gear[g].loc \notin Tied,
           NEW loc \in Places \ (Stored \cup Tied \cup {"EQUIPPED"}),
           NEW worn \in {0, NoSlot}, NEW lapsed \in BOOLEAN,
           gear' = [gear EXCEPT ![g] = [gear[g] EXCEPT !.loc = loc, !.slot = NoSlot, !.worn = worn, !.lapsed = lapsed]],
           UNCHANGED <<stacks, tray, nft, returning, live>> /\ UNCHANGED market
    PROVE  CustodyIInv'
<1>. DEFINE x == [gear[g] EXCEPT !.loc = loc, !.slot = NoSlot, !.worn = worn, !.lapsed = lapsed]
<1>1. SoundPiece(x) /\ x \in Piece
    BY PieceGone DEF SoundPiece
<1>2. x.loc = loc
    BY PieceFacts DEF Piece
<1>. HIDE DEF x
<1>3. gear' = [gear EXCEPT ![g] = x]
    BY DEF x
<1>4. SlotsInv(stacks, gear', cancelled)
    BY <1>1, <1>2, <1>3, OnePieceLess DEF CustodyIInv
<1>5. \A h \in Gear : Untouched(gear[h], gear'[h])
    BY <1>1, <1>2, <1>3, OnePiece DEF Untouched
<1>. QED
    BY <1>4, <1>5, QuietStep DEF market, CustodyIInv

LEMMA DiscardGearKeeps ==
    ASSUME CustodyIInv, NEW c \in Holders, NEW g \in Gear, DiscardGear(c, g)
    PROVE  CustodyIInv'
<1>1. gear[g].loc = "IN_BAG" /\ UNCHANGED <<stacks, tray, nft, returning, live>> /\ UNCHANGED market
    BY DEF DiscardGear
<1>2. gear[g].worn \in {0, NoSlot} /\ gear[g].lapsed \in BOOLEAN
    BY PieceFacts DEF Piece
<1>3. gear' = [gear EXCEPT ![g] = [gear[g] EXCEPT !.loc = "DELETED", !.slot = NoSlot,
                                   !.worn = gear[g].worn, !.lapsed = gear[g].lapsed]]
    BY PieceFacts DEF DiscardGear, Gone, Piece
<1>4. gear[g].loc \notin Tied /\ "DELETED" \in Places \ (Stored \cup Tied \cup {"EQUIPPED"})
    BY <1>1 DEF Tied, Places, Stored
<1>. QED
    BY <1>1, <1>2, <1>3, <1>4, PieceEnds

LEMMA SellShopEquipmentKeeps ==
    ASSUME CustodyIInv, NEW c \in Holders, NEW g \in Gear, SellShopEquipment(c, g)
    PROVE  CustodyIInv'
<1>1. gear[g].loc = "IN_BAG" /\ UNCHANGED <<stacks, tray, nft, returning, live>> /\ UNCHANGED market
    BY DEF SellShopEquipment
<1>2. NoSlot \in {0, NoSlot} /\ gear[g].lapsed \in BOOLEAN
    BY PieceFacts DEF Piece
<1>3. gear' = [gear EXCEPT ![g] = [gear[g] EXCEPT !.loc = "CONSUMED", !.slot = NoSlot,
                                   !.worn = NoSlot, !.lapsed = gear[g].lapsed]]
    BY PieceFacts DEF SellShopEquipment, Gone, Piece
<1>4. gear[g].loc \notin Tied /\ "CONSUMED" \in Places \ (Stored \cup Tied \cup {"EQUIPPED"})
    BY <1>1 DEF Tied, Places, Stored
<1>. QED
    BY <1>1, <1>2, <1>3, <1>4, PieceEnds

LEMMA EquipmentNPCRecycleKeeps ==
    ASSUME CustodyIInv, NEW c \in Holders, NEW g \in Gear, EquipmentNPCRecycle(c, g)
    PROVE  CustodyIInv'
<1>1. gear[g].loc = "IN_BAG" /\ UNCHANGED <<stacks, tray, nft, returning, live>> /\ UNCHANGED market
    BY DEF EquipmentNPCRecycle
<1>2. NoSlot \in {0, NoSlot} /\ FALSE \in BOOLEAN
    OBVIOUS
<1>3. gear' = [gear EXCEPT ![g] = [gear[g] EXCEPT !.loc = "NPC_RECYCLED", !.slot = NoSlot,
                                   !.worn = NoSlot, !.lapsed = FALSE]]
    BY PieceFacts DEF EquipmentNPCRecycle, Gone, Piece
<1>4. gear[g].loc \notin Tied /\ "NPC_RECYCLED" \in Places \ (Stored \cup Tied \cup {"EQUIPPED"})
    BY <1>1 DEF Tied, Places, Stored
<1>. QED
    BY <1>1, <1>2, <1>3, <1>4, PieceEnds

(* Pieces that stay where they are. *)
LEMMA PiecesStay ==
    ASSUME CustodyIInv, SlotsInv(stacks', gear, cancelled),
           gear' \in [Gear -> Piece],
           \A g \in Gear : /\ gear'[g].loc = gear[g].loc /\ gear'[g].holder = gear[g].holder
                           /\ gear'[g].slot = gear[g].slot /\ gear'[g].worn = gear[g].worn,
           UNCHANGED <<cast, tray, nft, returning, live, listings, cancelled>>, aeb' \in [Accounts -> Nat]
    PROVE  CustodyIInv'
<1>1. \A g \in Gear : SoundPiece(gear'[g])
    BY DEF CustodyIInv, SlotsInv, SoundPiece
<1>2. \A g \in Gear : Whereabouts(gear'[g]) = Whereabouts(gear[g]) /\ Untouched(gear[g], gear'[g])
    BY DEF Whereabouts, Untouched
<1>3. SlotsInv(stacks', gear', cancelled)
    BY <1>1, <1>2, FewerPieces
<1>. QED
    BY <1>2, <1>3, QuietStep

LEMMA RecycleLapsesKeeps ==
    ASSUME CustodyIInv, NEW g \in Gear, RecycleLapses(g)
    PROVE  CustodyIInv'
<1>1. /\ gear' = [gear EXCEPT ![g].lapsed = TRUE]
      /\ UNCHANGED <<stacks, tray, nft, returning, live>> /\ UNCHANGED market
    BY DEF RecycleLapses
<1>2. gear \in [Gear -> Piece]
    BY DEF CustodyIInv, SlotsInv
<1>3. /\ gear' \in [Gear -> Piece]
      /\ \A h \in Gear : /\ gear'[h].loc = gear[h].loc /\ gear'[h].holder = gear[h].holder
                         /\ gear'[h].slot = gear[h].slot /\ gear'[h].worn = gear[h].worn
    BY <1>1, <1>2 DEF Piece
<1>4. SlotsInv(stacks', gear, cancelled)
    BY <1>1 DEF CustodyIInv
<1>. QED
    BY <1>1, <1>3, <1>4, PiecesStay DEF market, CustodyIInv

LEMMA PurgeKeeps ==
    ASSUME CustodyIInv, PurgeExpiredNPCRecycledEquipment
    PROVE  CustodyIInv'
<1>. DEFINE purged(g) == gear[g].loc = "NPC_RECYCLED" /\ gear[g].lapsed
            x == [NoGear EXCEPT !.loc = "PURGED"]
<1>1. /\ gear' = [g \in Gear |-> IF purged(g) THEN x ELSE gear[g]]
      /\ UNCHANGED <<stacks, tray, nft, returning, live>> /\ UNCHANGED market
    BY DEF PurgeExpiredNPCRecycledEquipment
<1>2. SoundPiece(x) /\ x \in Piece /\ x.loc = "PURGED"
  <2>1. 0 \in 0 .. GearDurability /\ 0 \in 0 .. GearLevelMax /\ Starter \in Holders
      BY CustodyConstants
  <2>. QED
      BY <2>1, SlotFacts DEF NoGear, SoundPiece, Piece, Places, Stored
<1>. HIDE DEF x
<1>3. \A g \in Gear : gear[g] \in Piece /\ SoundPiece(gear[g])
    BY PieceFacts
<1>4. gear' \in [Gear -> Piece] /\ \A g \in Gear : SoundPiece(gear'[g])
    BY <1>1, <1>2, <1>3
<1>5. \A g \in Gear : \/ Whereabouts(gear'[g]) = Whereabouts(gear[g])
                      \/ gear'[g].loc \notin Stored \cup {"EQUIPPED"}
    BY <1>1, <1>2 DEF Stored
<1>6. \A g \in Gear : Untouched(gear[g], gear'[g])
    BY <1>1, <1>2 DEF Untouched, Tied
<1>7. SlotsInv(stacks', gear', cancelled')
  <2>1. SlotsInv(stacks, gear', cancelled)
      BY <1>4, <1>5, FewerPieces DEF CustodyIInv
  <2>. QED
      BY <1>1, <2>1 DEF market
<1>. QED
    BY <1>1, <1>6, <1>7, QuietStep DEF market, CustodyIInv

-----------------------------------------------------------------------------
(* Enhancement, wear and repair. *)
LEMMA EquipmentEnhanceKeeps ==
    ASSUME CustodyIInv, NEW c \in Holders, NEW g \in Gear, NEW i \in Items, EquipmentEnhance(c, g, i)
    PROVE  CustodyIInv'
<1>1. /\ gear' = [gear EXCEPT ![g].level = @ + 1] /\ gear[g].level < GearLevelMax
      /\ UNCHANGED <<tray, nft, returning, live>> /\ UNCHANGED market
    BY DEF EquipmentEnhance
<1>2. stacks' \in [Place -> Stack] /\ \A p \in Place : stacks[p] = NoStack => stacks'[p] = NoStack
    BY ConsumedItem, CustodyConstants DEF CustodyIInv, SlotsInv, EquipmentEnhance
<1>3. SlotsInv(stacks', gear, cancelled)
    BY <1>2, FewerStacks DEF CustodyIInv
<1>4. gear[g].level + 1 \in 0 .. GearLevelMax /\ gear \in [Gear -> Piece] /\ gear[g] \in Piece
  <2>1. gear[g].level \in 0 .. GearLevelMax /\ gear \in [Gear -> Piece] /\ gear[g] \in Piece
      BY PieceFacts DEF Piece
  <2>. QED
      BY <1>1, <2>1, CustodyConstants
<1>. DEFINE n == gear[g].level + 1
<1>5. gear' = [gear EXCEPT ![g].level = n]
    BY <1>1, <1>4
<1>. HIDE DEF n
<1>6. /\ gear' \in [Gear -> Piece]
      /\ \A h \in Gear : /\ gear'[h].loc = gear[h].loc /\ gear'[h].holder = gear[h].holder
                         /\ gear'[h].slot = gear[h].slot /\ gear'[h].worn = gear[h].worn
    BY <1>4, <1>5 DEF Piece, n
<1>. QED
    BY <1>1, <1>3, <1>6, PiecesStay DEF market, CustodyIInv

LEMMA WearEquippedGearKeeps ==
    ASSUME CustodyIInv, NEW c \in Holders, WearEquippedGear(c)
    PROVE  CustodyIInv'
<1>. DEFINE on(g) == gear[g].holder = c /\ gear[g].loc = "EQUIPPED"
            left(g) == gear[g].durability - Lesser2(gear[g].durability, Wear)
<1>1. /\ gear' = [g \in Gear |-> IF on(g) THEN [gear[g] EXCEPT !.durability = left(g)] ELSE gear[g]]
      /\ UNCHANGED <<stacks, tray, nft, returning, live>> /\ UNCHANGED market
    BY DEF WearEquippedGear
<1>2. ASSUME NEW g \in Gear PROVE gear[g] \in Piece /\ left(g) \in 0 .. GearDurability
  <2>1. gear[g] \in Piece /\ gear[g].durability \in 0 .. GearDurability
      BY PieceFacts DEF Piece
  <2>. QED
      BY <2>1, CustodyConstants DEF Lesser2
<1>. HIDE DEF on, left
<1>3. ASSUME NEW g \in Gear
      PROVE  /\ gear'[g] \in Piece
             /\ gear'[g].loc = gear[g].loc /\ gear'[g].holder = gear[g].holder
             /\ gear'[g].slot = gear[g].slot /\ gear'[g].worn = gear[g].worn
    BY <1>1, <1>2 DEF Piece
<1>4. gear' \in [Gear -> Piece]
    BY <1>1, <1>3
<1>5. SlotsInv(stacks', gear, cancelled)
    BY <1>1 DEF CustodyIInv
<1>. QED
    BY <1>1, <1>3, <1>4, <1>5, PiecesStay DEF market, CustodyIInv

LEMMA EquipmentRepairKeeps ==
    ASSUME CustodyIInv, NEW c \in Holders, NEW g \in Gear, EquipmentRepair(c, g)
    PROVE  CustodyIInv'
<1>. DEFINE missing == GearDurability - gear[g].durability
<1>1. /\ gear' = [gear EXCEPT ![g].durability = GearDurability]
      /\ SpendAeb(OwnerOf[c], RepairCost(missing))
      /\ UNCHANGED <<cast, stacks, tray, nft, returning, live, listings, cancelled>>
    BY DEF EquipmentRepair
<1>2. gear \in [Gear -> Piece] /\ gear[g].durability \in 0 .. GearDurability
    BY PieceFacts DEF Piece
<1>3. RepairCost(missing) \in Nat
  <2>1. RepairPerPoint \in Nat /\ RepairMin \in Nat /\ GearDurability \in Nat
      BY CustodyAssumption
  <2>2. missing \in Nat
      BY <1>2, <2>1
  <2>. HIDE DEF missing
  <2>3. missing * RepairPerPoint \in Nat
      BY <2>1, <2>2
  <2>. QED
      BY <2>1, <2>3 DEF RepairCost
<1>4. aeb' \in [Accounts -> Nat]
    BY <1>1, <1>3, AebSpent, AccountFacts DEF CustodyIInv
<1>5. GearDurability \in 0 .. GearDurability
    BY CustodyConstants
<1>6. /\ gear' \in [Gear -> Piece]
      /\ \A h \in Gear : /\ gear'[h].loc = gear[h].loc /\ gear'[h].holder = gear[h].holder
                         /\ gear'[h].slot = gear[h].slot /\ gear'[h].worn = gear[h].worn
    BY <1>1, <1>2, <1>5 DEF Piece
<1>7. SlotsInv(stacks', gear, cancelled)
    BY <1>1 DEF CustodyIInv
<1>. QED
    BY <1>1, <1>4, <1>6, <1>7, PiecesStay

-----------------------------------------------------------------------------
(* Minting: a piece that is neither before nor after in a tray or on the   *)
(* market is none of theirs.                                               *)
LEMMA OffTrayAndMarket ==
    ASSUME CustodyIInv, NEW g \in Gear, NEW x \in Piece, gear' = [gear EXCEPT ![g] = x],
           gear[g].loc \notin {"IN_LOOT_TRAY", "LISTED"}, x.loc \notin {"IN_LOOT_TRAY", "LISTED"}
    PROVE  TraysInv(tray, gear') /\ ListedInv(gear', listings)
<1>1. gear'[g] = x /\ \A h \in Gear \ {g} : gear'[h] = gear[h]
    BY OnePiece
<1>2. TraysInv(tray, gear')
  <2>1. \A c \in Holders, h \in Gear : InTrayOf(gear[h], c) <=> InTrayOf(gear'[h], c)
      BY <1>1 DEF InTrayOf
  <2>. QED
      BY <2>1, QuietRows DEF CustodyIInv, TraysInv
<1>3. \A h \in Gear : /\ gear[h].loc = "LISTED" <=> gear'[h].loc = "LISTED"
                      /\ gear[h].loc = "LISTED" => gear'[h].holder = gear[h].holder
    BY <1>1
<1>4. ListedInv(gear', listings)
    BY <1>3 DEF CustodyIInv, ListedInv
<1>. QED
    BY <1>2, <1>4

LEMMA RequestNFTMintKeeps ==
    ASSUME CustodyIInv, NEW c \in Holders, NEW g \in Gear, RequestNFTMint(c, g)
    PROVE  CustodyIInv'
<1>. DEFINE x == [gear[g] EXCEPT !.loc = "MINT_PENDING", !.slot = NoSlot, !.worn = NoSlot, !.lapsed = gear[g].lapsed]
<1>1. /\ gear[g].loc \in {"IN_BAG", "IN_WAREHOUSE"}
      /\ SpendAeb(OwnerOf[c], MintFee)
      /\ nft' = [nft EXCEPT ![g] = "MINT_REQUESTED"]
      /\ UNCHANGED <<cast, stacks, tray, returning, live, listings, cancelled>>
    BY DEF RequestNFTMint
<1>2. gear' = [gear EXCEPT ![g] = x]
    BY PieceFacts DEF RequestNFTMint, Gone, Piece
<1>3. SoundPiece(x) /\ x.loc = "MINT_PENDING"
  <2>1. gear[g].lapsed \in BOOLEAN /\ "MINT_PENDING" \in Places \ (Stored \cup {"EQUIPPED"})
      BY PieceFacts DEF Piece, Places, Tied, Stored
  <2>2. SoundPiece(x)
      BY <2>1, PieceGone
  <2>. QED
      BY <2>2, PieceFacts DEF Piece
<1>. HIDE DEF x
<1>4. x \in Piece
    BY <1>3 DEF SoundPiece
<1>5. SlotsInv(stacks, gear', cancelled)
  <2>1. x.loc \notin Stored \cup {"EQUIPPED"}
      BY <1>3 DEF Stored
  <2>. QED
      BY <1>2, <1>3, <2>1, OnePieceLess DEF CustodyIInv
<1>6. TraysInv(tray, gear') /\ ListedInv(gear', listings)
    BY <1>1, <1>2, <1>3, <1>4, OffTrayAndMarket
<1>7. MintInv(gear', nft', returning)
  <2>1. gear'[g] = x /\ \A h \in Gear \ {g} : gear'[h] = gear[h]
      BY <1>2, <1>4, OnePiece
  <2>. QED
      BY <1>1, <1>3, <2>1 DEF CustodyIInv, MintInv
<1>8. aeb' \in [Accounts -> Nat]
    BY <1>1, AebSpent, AccountFacts, CustodyConstants DEF CustodyIInv
<1>. QED
    BY <1>1, <1>5, <1>6, <1>7, <1>8 DEF CustodyIInv

LEMMA ConfirmNFTMintKeeps ==
    ASSUME CustodyIInv, NEW g \in Gear, ConfirmNFTMint(g)
    PROVE  CustodyIInv'
<1>. DEFINE x == [gear[g] EXCEPT !.loc = "ON_CHAIN"]
<1>1. /\ nft[g] = "MINT_REQUESTED" /\ returning[g] = NoSlot
      /\ nft' = [nft EXCEPT ![g] = "MINTED"]
      /\ UNCHANGED <<stacks, tray, returning, live>> /\ UNCHANGED market
    BY DEF ConfirmNFTMint
<1>2. gear[g].loc = "MINT_PENDING"
    BY <1>1 DEF CustodyIInv, MintInv
<1>3. gear[g] \in Piece /\ SoundPiece(gear[g]) /\ gear \in [Gear -> Piece]
    BY PieceFacts
<1>4. gear' = [gear EXCEPT ![g] = x]
    BY <1>2, <1>3 DEF ConfirmNFTMint
<1>5. x \in Piece /\ x.loc = "ON_CHAIN" /\ SoundPiece(x)
    BY <1>2, <1>3 DEF SoundPiece, Piece, Places, Tied, Stored
<1>. HIDE DEF x
<1>6. SlotsInv(stacks, gear', cancelled)
  <2>1. x.loc \notin Stored \cup {"EQUIPPED"}
      BY <1>5 DEF Stored
  <2>. QED
      BY <1>4, <1>5, <2>1, OnePieceLess DEF CustodyIInv
<1>7. TraysInv(tray, gear') /\ ListedInv(gear', listings)
    BY <1>2, <1>4, <1>5, OffTrayAndMarket
<1>8. MintInv(gear', nft', returning)
  <2>1. gear'[g] = x /\ \A h \in Gear \ {g} : gear'[h] = gear[h]
      BY <1>4, <1>5, OnePiece
  <2>. QED
      BY <1>1, <1>5, <2>1 DEF CustodyIInv, MintInv
<1>. QED
    BY <1>1, <1>6, <1>7, <1>8 DEF CustodyIInv, market

LEMMA CancelMintResolveKeeps ==
    ASSUME CustodyIInv, NEW g \in Gear, CancelMintResolve(g)
    PROVE  CustodyIInv'
<1>1. PICK s \in ResolveStorageSlot(stacks, gear, gear[g].holder, "BAG", NoSlot) :
          returning' = [returning EXCEPT ![g] = s]
    BY DEF CancelMintResolve
<1>2. s \in SlotIndex
    BY ResolvedSlot
<1>3. /\ nft[g] = "MINT_REQUESTED"
      /\ UNCHANGED <<stacks, gear, tray, nft, live>> /\ UNCHANGED market
    BY DEF CancelMintResolve
<1>4. MintInv(gear, nft, returning')
    BY <1>1, <1>2, <1>3 DEF CustodyIInv, MintInv
<1>. QED
    BY <1>3, <1>4 DEF CustodyIInv, market

(* The piece comes back to the slot that was free when the cancellation    *)
(* looked: from here on it may share it with a stack.                      *)
LEMMA CancelMintReturnKeeps ==
    ASSUME CustodyIInv, NEW g \in Gear, CancelMintReturn(g)
    PROVE  CustodyIInv'
<1>. DEFINE c == gear[g].holder
            s == returning[g]
            x == [gear[g] EXCEPT !.loc = "IN_BAG", !.slot = s]
<1>1. /\ s # NoSlot /\ ~TakenByGear(c, s)
      /\ nft' = [nft EXCEPT ![g] = "CANCELLED"]
      /\ gear' = [gear EXCEPT ![g].loc = "IN_BAG", ![g].slot = s]
      /\ returning' = [returning EXCEPT ![g] = NoSlot]
      /\ aeb' = [aeb EXCEPT ![OwnerOf[c]] = @ + MintFee]
      /\ cancelled' = cancelled \cup {g}
      /\ UNCHANGED <<cast, stacks, tray, live, listings>>
    BY DEF CancelMintReturn
<1>2. gear[g] \in Piece /\ SoundPiece(gear[g]) /\ gear \in [Gear -> Piece] /\ c \in Holders
    BY PieceFacts
<1>3. s \in SlotIndex /\ gear[g].loc = "MINT_PENDING"
    BY <1>1 DEF CustodyIInv, MintInv
<1>4. gear' = [gear EXCEPT ![g] = x]
    BY <1>1, <1>2
<1>5. SoundPiece(x) /\ x \in Piece /\ x.loc = "IN_BAG" /\ x.slot = s /\ x.holder = c
    BY <1>1, <1>2, <1>3 DEF SoundPiece, Piece, Places, Stored
<1>6. ~ \E h \in Gear : gear[h].holder = c /\ gear[h].slot = s /\ gear[h].loc = "IN_BAG"
    BY <1>1 DEF TakenByGear
<1>. HIDE DEF x, c, s
<1>7. /\ gear' \in [Gear -> Piece] /\ gear'[g] = x /\ \A h \in Gear \ {g} : gear'[h] = gear[h]
    BY <1>4, <1>5, OnePiece
<1>8. SlotsInv(stacks, gear', cancelled')
  <2>1. SlotsInv(stacks, gear, cancelled') /\ g \in cancelled'
      BY <1>1, MoreExceptions DEF CustodyIInv
  <2>2. "BAG" \in Stores /\ EquipmentStorageLocation("BAG") = "IN_BAG"
      BY StoreFacts
  <2>3. SoundPiece(gear'[g]) /\ gear'[g].holder = c /\ gear'[g].slot = s /\ gear'[g].loc = EquipmentStorageLocation("BAG")
      BY <1>5, <1>7, <2>2
  <2>4. ~ \E h \in Gear : /\ gear[h].holder = c /\ gear[h].slot = s
                          /\ gear[h].loc = EquipmentStorageLocation("BAG")
      BY <1>6, <2>2
  <2>. QED
      BY <1>2, <1>3, <1>7, <2>1, <2>2, <2>3, <2>4, PutPiece
<1>9. TraysInv(tray, gear') /\ ListedInv(gear', listings)
    BY <1>3, <1>4, <1>5, OffTrayAndMarket
<1>10. MintInv(gear', nft', returning')
    BY <1>1, <1>5, <1>7 DEF CustodyIInv, MintInv
<1>11. aeb' \in [Accounts -> Nat]
    BY <1>1, <1>2, AccountFacts, CustodyConstants DEF CustodyIInv
<1>. QED
    BY <1>1, <1>8, <1>9, <1>10, <1>11 DEF CustodyIInv

LEMMA CancelMintAbortKeeps ==
    ASSUME CustodyIInv, NEW g \in Gear, CancelMintAbort(g)
    PROVE  CustodyIInv'
<1>1. /\ returning' = [returning EXCEPT ![g] = NoSlot]
      /\ UNCHANGED <<stacks, gear, tray, nft, live>> /\ UNCHANGED market
    BY DEF CancelMintAbort
<1>2. MintInv(gear, nft, returning')
    BY <1>1 DEF CustodyIInv, MintInv
<1>. QED
    BY <1>1, <1>2 DEF CustodyIInv, market

-----------------------------------------------------------------------------
(* The market: a piece that is neither before nor after in a tray, waiting *)
(* for a mint or on the chain is none of theirs.                           *)
LEMMA OffTrayAndChain ==
    ASSUME CustodyIInv, NEW g \in Gear, NEW x \in Piece, gear' = [gear EXCEPT ![g] = x],
           gear[g].loc \notin {"IN_LOOT_TRAY", "MINT_PENDING", "ON_CHAIN"},
           x.loc \notin {"IN_LOOT_TRAY", "MINT_PENDING", "ON_CHAIN"}
    PROVE  TraysInv(tray, gear') /\ MintInv(gear', nft, returning)
<1>1. gear'[g] = x /\ \A h \in Gear \ {g} : gear'[h] = gear[h]
    BY OnePiece
<1>2. TraysInv(tray, gear')
  <2>1. \A c \in Holders, h \in Gear : InTrayOf(gear[h], c) <=> InTrayOf(gear'[h], c)
      BY <1>1 DEF InTrayOf
  <2>. QED
      BY <2>1, QuietRows DEF CustodyIInv, TraysInv
<1>3. MintInv(gear', nft, returning)
    BY <1>1 DEF CustodyIInv, MintInv
<1>. QED
    BY <1>2, <1>3

(* A listing that is opened for a piece, or for items, and one that ends. *)
LEMMA ListingOpened ==
    ASSUME NEW ge, NEW li, ListedInv(ge, li), NEW k \in 1 .. MaxListings, li[k].status = "NONE",
           NEW r \in Listing, r.status = "LISTED", r.gear = 0 => r.stack # NoStack,
           NEW ge2, r.gear # 0 => /\ ge[r.gear].loc # "LISTED"
                                  /\ ge2[r.gear].loc = "LISTED" /\ ge2[r.gear].holder = r.seller,
           \A h \in Gear \ {r.gear} : ge2[h] = ge[h]
    PROVE  ListedInv(ge2, [li EXCEPT ![k] = r])
<1>. DEFINE li2 == [li EXCEPT ![k] = r]
<1>0. 0 \notin Gear
    BY CustodyConstants
<1>1. li2 \in [1 .. MaxListings -> Listing] /\ li2[k] = r /\ \A j \in 1 .. MaxListings \ {k} : li2[j] = li[j]
    BY DEF ListedInv
<1>. HIDE DEF li2
<1>2. \A j \in 1 .. MaxListings : li2[j].status = "LISTED" /\ li2[j].gear = 0 => li2[j].stack # NoStack
    BY <1>1 DEF ListedInv
<1>3. ASSUME NEW j \in 1 .. MaxListings, NEW g \in Gear
      PROVE  Offers(li2, j, g) <=> IF j = k THEN r.gear = g ELSE Offers(li, j, g)
    BY <1>1 DEF Offers
<1>4. ASSUME NEW j \in 1 .. MaxListings, NEW g \in Gear, Offers(li, j, g)
      PROVE  j # k /\ ge[g].loc = "LISTED" /\ ge[g].holder = li[j].seller /\ li2[j].seller = li[j].seller /\ g # r.gear
    BY <1>0, <1>1, <1>4 DEF ListedInv, Offers
<1>5. \A j \in 1 .. MaxListings, g \in Gear :
           Offers(li2, j, g) => ge2[g].loc = "LISTED" /\ ge2[g].holder = li2[j].seller
    BY <1>0, <1>1, <1>3, <1>4
<1>6. \A i, j \in 1 .. MaxListings, g \in Gear : Offers(li2, i, g) /\ Offers(li2, j, g) => i = j
    BY <1>3, <1>4 DEF ListedInv
<1>7. \A g \in Gear : ge2[g].loc = "LISTED" => \E j \in 1 .. MaxListings : Offers(li2, j, g)
  <2>1. ASSUME NEW g \in Gear, ge2[g].loc = "LISTED", g # r.gear PROVE \E j \in 1 .. MaxListings : Offers(li2, j, g)
    <3>1. PICK j \in 1 .. MaxListings : Offers(li, j, g)
        BY <2>1 DEF ListedInv
    <3>. QED
        BY <1>3, <1>4, <3>1
  <2>. QED
      BY <1>3, <2>1
<1>8. ListedInv(ge2, li2)
    BY <1>1, <1>2, <1>5, <1>6, <1>7 DEF ListedInv
<1>. QED
    BY <1>8 DEF li2

LEMMA ListingEnded ==
    ASSUME NEW ge, NEW li, ListedInv(ge, li), NEW k \in 1 .. MaxListings, li[k].status = "LISTED",
           NEW ended \in {"SOLD", "CANCELLED"},
           NEW ge2, li[k].gear # 0 => ge2[li[k].gear].loc # "LISTED",
           \A h \in Gear \ {li[k].gear} : ge2[h] = ge[h]
    PROVE  ListedInv(ge2, [li EXCEPT ![k].status = ended])
<1>. DEFINE li2 == [li EXCEPT ![k].status = ended]
<1>0. 0 \notin Gear
    BY CustodyConstants
<1>1. /\ li2 \in [1 .. MaxListings -> Listing] /\ li2[k].status = ended
      /\ \A j \in 1 .. MaxListings \ {k} : li2[j] = li[j]
  <2>1. li \in [1 .. MaxListings -> Listing] /\ li[k] \in Listing
      BY DEF ListedInv
  <2>2. [li[k] EXCEPT !.status = ended] \in Listing /\ [li[k] EXCEPT !.status = ended].status = ended
      BY <2>1 DEF Listing
  <2>3. li2 = [li EXCEPT ![k] = [li[k] EXCEPT !.status = ended]]
      BY <2>1
  <2>. HIDE DEF li2
  <2>. QED
      BY <2>1, <2>2, <2>3
<1>. HIDE DEF li2
<1>2. \A j \in 1 .. MaxListings : li2[j].status = "LISTED" /\ li2[j].gear = 0 => li2[j].stack # NoStack
    BY <1>1 DEF ListedInv
<1>3. ASSUME NEW j \in 1 .. MaxListings, NEW g \in Gear
      PROVE  Offers(li2, j, g) <=> j # k /\ Offers(li, j, g)
    BY <1>1 DEF Offers
<1>4. ASSUME NEW j \in 1 .. MaxListings, NEW g \in Gear, Offers(li, j, g), j # k
      PROVE  g # li[k].gear
    BY <1>4 DEF ListedInv, Offers
<1>5. \A j \in 1 .. MaxListings, g \in Gear :
           Offers(li2, j, g) => ge2[g].loc = "LISTED" /\ ge2[g].holder = li2[j].seller
    BY <1>1, <1>3, <1>4 DEF ListedInv
<1>6. \A i, j \in 1 .. MaxListings, g \in Gear : Offers(li2, i, g) /\ Offers(li2, j, g) => i = j
    BY <1>3 DEF ListedInv
<1>7. \A g \in Gear : ge2[g].loc = "LISTED" => \E j \in 1 .. MaxListings : Offers(li2, j, g)
  <2>1. ASSUME NEW g \in Gear, ge2[g].loc = "LISTED" PROVE \E j \in 1 .. MaxListings : Offers(li2, j, g)
    <3>1. g # li[k].gear
        BY <1>0, <2>1
    <3>2. PICK j \in 1 .. MaxListings : Offers(li, j, g)
        BY <2>1, <3>1 DEF ListedInv
    <3>3. j # k
        BY <3>1, <3>2 DEF Offers
    <3>. QED
        BY <1>3, <3>2, <3>3
  <2>. QED
      BY <2>1
<1>8. ListedInv(ge2, li2)
    BY <1>1, <1>2, <1>5, <1>6, <1>7 DEF ListedInv
<1>. QED
    BY <1>8 DEF li2

(* The row that MarketplaceCreateListing inserts, and what it costs. *)
LEMMA ListingInserted ==
    ASSUME CustodyIInv, NEW c \in Holders, NEW g \in Gear \cup {0}, NEW st \in Stack, NEW price \in Prices,
           InsertListing(c, g, st, price)
    PROVE  /\ aeb' \in [Accounts -> Nat]
           /\ UNCHANGED <<cast, tray, nft, returning, live, cancelled>>
           /\ \E k \in 1 .. MaxListings, r \in Listing :
                 /\ listings[k].status = "NONE" /\ listings' = [listings EXCEPT ![k] = r]
                 /\ r.status = "LISTED" /\ r.gear = g /\ r.stack = st /\ r.seller = c
<1>. DEFINE deposit == BpsCeil(price, DepositBps)
            k == Min(FreeListings)
            r == [status |-> "LISTED", seller |-> c, gear |-> g, stack |-> st, price |-> price, deposit |-> deposit]
<1>1. /\ FreeListings # {} /\ SpendAeb(OwnerOf[c], deposit) /\ listings' = [listings EXCEPT ![k] = r]
      /\ UNCHANGED <<cast, tray, nft, returning, live, cancelled>>
    BY DEF InsertListing
<1>2. price \in Nat /\ deposit \in Nat
  <2>1. price \in Nat /\ DepositBps \in Nat
      BY CustodyAssumption
  <2>. QED
      BY <2>1, BpsNat
<1>3. aeb' \in [Accounts -> Nat]
    BY <1>1, <1>2, AebSpent, AccountFacts DEF CustodyIInv
<1>4. k \in 1 .. MaxListings /\ listings[k].status = "NONE"
  <2>1. DOMAIN listings = 1 .. MaxListings
      BY DEF CustodyIInv, ListedInv
  <2>2. FreeListings \in SUBSET Nat
      BY <2>1 DEF FreeListings
  <2>3. k \in FreeListings
      BY <1>1, <2>2, LeastSlot
  <2>. QED
      BY <2>1, <2>3 DEF FreeListings
<1>. HIDE DEF k, deposit
<1>5. r \in Listing
    BY <1>2 DEF Listing
<1>. QED
    BY <1>1, <1>3, <1>4, <1>5

LEMMA LockEquipmentForListingKeeps ==
    ASSUME CustodyIInv, NEW c \in Holders, NEW g \in Gear, NEW price \in Prices,
           LockEquipmentForListing(c, g, price)
    PROVE  CustodyIInv'
<1>. DEFINE x == [gear[g] EXCEPT !.loc = "LISTED", !.slot = NoSlot, !.worn = gear[g].worn, !.lapsed = gear[g].lapsed]
<1>1. /\ gear[g].holder = c /\ gear[g].loc \in {"IN_BAG", "IN_WAREHOUSE"}
      /\ stacks' = stacks /\ InsertListing(c, g, NoStack, price)
    BY DEF LockEquipmentForListing
<1>2. gear' = [gear EXCEPT ![g] = x]
    BY PieceFacts DEF LockEquipmentForListing, Gone, Piece
<1>3. SoundPiece(x) /\ x.loc = "LISTED" /\ x.holder = c
  <2>1. gear[g].worn \in {0, NoSlot} /\ gear[g].lapsed \in BOOLEAN /\ "LISTED" \in Places \ (Stored \cup {"EQUIPPED"})
      BY PieceFacts DEF Piece, Places, Tied, Stored
  <2>2. SoundPiece(x)
      BY <2>1, PieceGone
  <2>. QED
      BY <1>1, <2>2, PieceFacts DEF Piece
<1>. HIDE DEF x
<1>4. x \in Piece
    BY <1>3 DEF SoundPiece
<1>5. gear'[g] = x /\ \A h \in Gear \ {g} : gear'[h] = gear[h]
    BY <1>2, <1>4, OnePiece
<1>6. SlotsInv(stacks, gear', cancelled)
  <2>1. x.loc \notin Stored \cup {"EQUIPPED"}
      BY <1>3 DEF Stored
  <2>. QED
      BY <1>2, <1>3, <2>1, OnePieceLess DEF CustodyIInv
<1>7. TraysInv(tray, gear') /\ MintInv(gear', nft, returning)
    BY <1>1, <1>2, <1>3, <1>4, OffTrayAndChain
<1>8. /\ aeb' \in [Accounts -> Nat] /\ UNCHANGED <<cast, tray, nft, returning, live, cancelled>>
      /\ \E k \in 1 .. MaxListings, r \in Listing :
            /\ listings[k].status = "NONE" /\ listings' = [listings EXCEPT ![k] = r]
            /\ r.status = "LISTED" /\ r.gear = g /\ r.stack = NoStack /\ r.seller = c
    BY <1>1, ListingInserted, StackFacts
<1>9. ListedInv(gear', listings')
  <2>1. PICK k \in 1 .. MaxListings, r \in Listing :
            /\ listings[k].status = "NONE" /\ listings' = [listings EXCEPT ![k] = r]
            /\ r.status = "LISTED" /\ r.gear = g /\ r.stack = NoStack /\ r.seller = c
      BY <1>8
  <2>2. 0 # g
      BY CustodyConstants
  <2>3. ListedInv(gear, listings)
      BY DEF CustodyIInv
  <2>4. gear[g].loc # "LISTED" /\ gear'[g].loc = "LISTED" /\ gear'[g].holder = c
      BY <1>1, <1>3, <1>5
  <2>5. r.gear # 0 => /\ gear[r.gear].loc # "LISTED"
                      /\ gear'[r.gear].loc = "LISTED" /\ gear'[r.gear].holder = r.seller
      BY <2>1, <2>4
  <2>6. \A h \in Gear \ {r.gear} : gear'[h] = gear[h]
      BY <1>5, <2>1
  <2>7. r.gear = 0 => r.stack # NoStack
      BY <2>1, <2>2
  <2>8. ListedInv(gear', [listings EXCEPT ![k] = r])
      BY <2>1, <2>3, <2>5, <2>6, <2>7, ListingOpened
  <2>. QED
      BY <2>1, <2>8
<1>. QED
    BY <1>1, <1>6, <1>7, <1>8, <1>9 DEF CustodyIInv

LEMMA LockItemForListingKeeps ==
    ASSUME CustodyIInv, NEW c \in Holders, NEW l \in Stores, NEW s \in SlotIndex,
           NEW q \in Quantities, NEW price \in Prices, LockItemForListing(c, l, s, q, price)
    PROVE  CustodyIInv'
<1>. DEFINE p == <<c, l, s>>
            offered == [stacks[p] EXCEPT !.quantity = q]
<1>1. /\ stacks[p].quantity >= q /\ stacks' = TakeFrom(p, q) /\ gear' = gear
      /\ InsertListing(c, 0, offered, price)
    BY DEF LockItemForListing
<1>2. p \in Place /\ q \in Nat \ {0}
    BY PlaceFacts, CustodyConstants
<1>3. stacks[p] \in Stack /\ stacks[p].quantity \in Nat
    BY <1>2, StackFacts DEF CustodyIInv, SlotsInv
<1>4. offered \in Stack /\ offered # NoStack
  <2>1. stacks[p].quantity > 0
      BY <1>1, <1>2, <1>3
  <2>2. stacks[p] \in StackRow
      BY <1>3, <2>1, StackFacts
  <2>3. offered \in StackRow
      BY <1>2, <2>2 DEF StackRow
  <2>. QED
      BY <2>3, StackFacts DEF Stack
<1>. HIDE DEF offered
<1>5. SlotsInv(stacks', gear, cancelled)
    BY <1>1, <1>2, <1>3, StackLess
<1>6. /\ aeb' \in [Accounts -> Nat] /\ UNCHANGED <<cast, tray, nft, returning, live, cancelled>>
      /\ \E k \in 1 .. MaxListings, r \in Listing :
            /\ listings[k].status = "NONE" /\ listings' = [listings EXCEPT ![k] = r]
            /\ r.status = "LISTED" /\ r.gear = 0 /\ r.stack = offered /\ r.seller = c
    BY <1>1, <1>4, ListingInserted
<1>7. ListedInv(gear, listings')
  <2>1. PICK k \in 1 .. MaxListings, r \in Listing :
            /\ listings[k].status = "NONE" /\ listings' = [listings EXCEPT ![k] = r]
            /\ r.status = "LISTED" /\ r.gear = 0 /\ r.stack = offered /\ r.seller = c
      BY <1>6
  <2>2. ListedInv(gear, listings)
      BY DEF CustodyIInv
  <2>. QED
      BY <1>4, <2>1, <2>2, ListingOpened
<1>. QED
    BY <1>1, <1>5, <1>6, <1>7 DEF CustodyIInv

(* transferListedAssetToBuyer, returnListedAssetToSellerBag: the asset of  *)
(* a listing goes to the bag of c, and is off the market.                  *)
LEMMA HandedOver ==
    ASSUME CustodyIInv, NEW k \in 1 .. MaxListings, listings[k].status = "LISTED",
           NEW c \in Holders, HandOver(k, c)
    PROVE  /\ SlotsInv(stacks', gear', cancelled)
           /\ TraysInv(tray, gear') /\ MintInv(gear', nft, returning)
           /\ listings[k].gear # 0 => gear'[listings[k].gear].loc # "LISTED"
           /\ \A h \in Gear \ {listings[k].gear} : gear'[h] = gear[h]
<1>. DEFINE g == listings[k].gear
<1>1. PICK s \in ResolveStorageSlot(stacks, gear, c, "BAG", NoSlot) :
        IF g # 0
        THEN /\ gear[g].loc = "LISTED"
             /\ gear' = [gear EXCEPT ![g] = [gear[g] EXCEPT !.holder = c, !.loc = "IN_BAG", !.slot = s]]
             /\ stacks' = stacks
        ELSE /\ stacks' = [stacks EXCEPT ![<<c, "BAG", s>>] = listings[k].stack] /\ gear' = gear
    BY DEF HandOver
<1>2. s \in SlotIndex /\ s # NoSlot /\ StorageSlotFree(stacks, gear, c, "BAG", s)
    BY ResolvedSlot, SlotFacts
<1>3. listings[k] \in Listing /\ g \in Gear \cup {0} /\ listings[k].stack \in Stack
    BY DEF CustodyIInv, ListedInv, Listing
<1>4. SlotsInv(stacks, gear, cancelled) /\ "BAG" \in Stores /\ EquipmentStorageLocation("BAG") = "IN_BAG"
    BY StoreFacts DEF CustodyIInv
<1>5. CASE g = 0
  <2>1. stacks' = [stacks EXCEPT ![<<c, "BAG", s>>] = listings[k].stack] /\ gear' = gear
      BY <1>1, <1>5
  <2>2. SlotsInv(stacks', gear, cancelled)
      BY <1>2, <1>3, <1>4, <2>1, NewStack
  <2>. QED
      BY <1>5, <2>1, <2>2 DEF CustodyIInv
<1>6. CASE g # 0
  <2>. DEFINE x == [gear[g] EXCEPT !.holder = c, !.loc = "IN_BAG", !.slot = s]
  <2>1. gear[g].loc = "LISTED" /\ gear' = [gear EXCEPT ![g] = x] /\ stacks' = stacks /\ g \in Gear
      BY <1>1, <1>3, <1>6
  <2>2. gear[g] \in Piece
      BY <2>1, PieceFacts
  <2>3. SoundPiece(x) /\ x \in Piece /\ x.loc = "IN_BAG" /\ x.slot = s /\ x.holder = c
      BY <1>2, <2>2 DEF SoundPiece, Piece, Places, Stored
  <2>. HIDE DEF x, g
  <2>4. /\ gear' \in [Gear -> Piece] /\ gear'[g] = x /\ \A h \in Gear \ {g} : gear'[h] = gear[h]
      BY <2>1, <2>3, OnePiece
  <2>5. SlotsInv(stacks, gear', cancelled)
    <3>1. SoundPiece(gear'[g]) /\ gear'[g].holder = c /\ gear'[g].slot = s /\ gear'[g].loc = EquipmentStorageLocation("BAG")
        BY <1>4, <2>3, <2>4
    <3>2. SlotsInv(stacks, gear, cancelled) /\ "BAG" \in Stores /\ g \in Gear
        BY <1>4, <2>1
    <3>. QED
        BY <2>4, <3>1, <3>2, StorePiece
  <2>6. TraysInv(tray, gear') /\ MintInv(gear', nft, returning)
      BY <2>1, <2>3, OffTrayAndChain
  <2>. QED
      BY <2>1, <2>3, <2>4, <2>5, <2>6 DEF g
<1>. QED
    BY <1>5, <1>6

(* The seller gets no less than nothing: the fee is a share of the price. *)
LEMMA NetOfSale ==
    ASSUME NEW price \in Nat
    PROVE  SaleShares(price).net \in Nat
<1>1. FeeBps \in Nat /\ FeeBps <= 10000
    BY CustodyAssumption
<1>2. price * FeeBps <= price * 10000 /\ price * FeeBps \in Nat
    BY <1>1
<1>3. ASSUME NEW x \in Nat, x <= price * 10000 PROVE x \div 10000 \in Nat /\ x \div 10000 <= price
    BY <1>3
<1>4. BpsAmount(price, FeeBps) \in Nat /\ BpsAmount(price, FeeBps) <= price
    BY <1>2, <1>3 DEF BpsAmount
<1>. QED
    BY <1>4 DEF SaleShares

LEMMA MarketplaceBuyKeeps ==
    ASSUME CustodyIInv, NEW k \in 1 .. MaxListings, NEW c \in Holders, MarketplaceBuy(k, c)
    PROVE  CustodyIInv'
<1>. DEFINE seller == listings[k].seller
            price == listings[k].price
            gain == SaleShares(price).net + listings[k].deposit
<1>1. /\ listings[k].status = "LISTED" /\ OwnerOf[seller] # OwnerOf[c] /\ aeb[OwnerOf[c]] >= price
      /\ aeb' = [aeb EXCEPT ![OwnerOf[c]] = @ - price,
                            ![OwnerOf[seller]] = @ + SaleShares(price).net + listings[k].deposit]
      /\ HandOver(k, c) /\ listings' = [listings EXCEPT ![k].status = "SOLD"]
      /\ UNCHANGED <<cast, tray, nft, returning, live, cancelled>>
    BY DEF MarketplaceBuy
<1>2. listings[k] \in Listing /\ seller \in Holders /\ price \in Nat /\ listings[k].deposit \in Nat
    BY DEF CustodyIInv, ListedInv, Listing
<1>3. SaleShares(price).net \in Nat
    BY <1>2, NetOfSale
<1>4. aeb' \in [Accounts -> Nat]
  <2>1. aeb \in [Accounts -> Nat] /\ OwnerOf[c] \in Accounts /\ OwnerOf[seller] \in Accounts
      BY <1>2, AccountFacts DEF CustodyIInv
  <2>. HIDE DEF seller, price
  <2>2. aeb[OwnerOf[c]] - price \in Nat /\ aeb[OwnerOf[seller]] + SaleShares(price).net + listings[k].deposit \in Nat
      BY <1>1, <1>2, <1>3, <2>1
  <2>. QED
      BY <1>1, <2>1, <2>2
<1>5. /\ SlotsInv(stacks', gear', cancelled)
      /\ TraysInv(tray, gear') /\ MintInv(gear', nft, returning)
      /\ listings[k].gear # 0 => gear'[listings[k].gear].loc # "LISTED"
      /\ \A h \in Gear \ {listings[k].gear} : gear'[h] = gear[h]
    BY <1>1, HandedOver
<1>6. ListedInv(gear', listings')
  <2>1. ListedInv(gear, listings) /\ "SOLD" \in {"SOLD", "CANCELLED"}
      BY DEF CustodyIInv
  <2>2. ListedInv(gear', [listings EXCEPT ![k].status = "SOLD"])
      BY <1>1, <1>5, <2>1, ListingEnded
  <2>. QED
      BY <1>1, <2>2
<1>. QED
    BY <1>1, <1>4, <1>5, <1>6 DEF CustodyIInv

LEMMA MarketplaceCancelKeeps ==
    ASSUME CustodyIInv, NEW k \in 1 .. MaxListings, MarketplaceCancel(k)
    PROVE  CustodyIInv'
<1>1. /\ listings[k].status = "LISTED" /\ HandOver(k, listings[k].seller)
      /\ listings' = [listings EXCEPT ![k].status = "CANCELLED"]
      /\ UNCHANGED <<cast, tray, nft, returning, live, aeb, cancelled>>
    BY DEF MarketplaceCancel
<1>2. listings[k].seller \in Holders
    BY DEF CustodyIInv, ListedInv, Listing
<1>3. /\ SlotsInv(stacks', gear', cancelled)
      /\ TraysInv(tray, gear') /\ MintInv(gear', nft, returning)
      /\ listings[k].gear # 0 => gear'[listings[k].gear].loc # "LISTED"
      /\ \A h \in Gear \ {listings[k].gear} : gear'[h] = gear[h]
    BY <1>1, <1>2, HandedOver
<1>4. ListedInv(gear', listings')
  <2>1. ListedInv(gear, listings) /\ "CANCELLED" \in {"SOLD", "CANCELLED"}
      BY DEF CustodyIInv
  <2>2. ListedInv(gear', [listings EXCEPT ![k].status = "CANCELLED"])
      BY <1>1, <1>3, <2>1, ListingEnded
  <2>. QED
      BY <1>1, <2>2
<1>. QED
    BY <1>1, <1>3, <1>4 DEF CustodyIInv

LEMMA RetireHolderKeeps ==
    ASSUME CustodyIInv, NEW c \in Holders, RetireHolder(c)
    PROVE  CustodyIInv'
<1>1. /\ live' \subseteq live /\ UNCHANGED <<stacks, gear, tray, nft, returning>> /\ UNCHANGED market
    BY DEF RetireHolder
<1>. QED
    BY <1>1, StackStep DEF market, CustodyIInv

-----------------------------------------------------------------------------
(* The whole specification. *)
LEMMA CustodyStarts ==
    ASSUME CustodyInit
    PROVE  CustodyIInv
<1>1. PICK i \in Items, g \in cast.gear :
       /\ stacks = [p \in Place |->
            IF p = <<Starter, "BAG", 0>> /\ cast.granted > 0
            THEN [item |-> i, quantity |-> cast.granted, bind |-> "UNBOUND"] ELSE NoStack]
       /\ gear = [h \in Gear |-> IF h = g
            THEN [NoGear EXCEPT !.loc = "IN_WAREHOUSE", !.slot = 0,
                                !.durability = GearDurability, !.bind = "UNBOUND"]
            ELSE NoGear]
    BY DEF CustodyInit
<1>2. /\ cast \in Casts /\ tray = [c \in Holders |-> << >>] /\ nft = [h \in Gear |-> "NONE"]
      /\ returning = [h \in Gear |-> NoSlot] /\ listings = [k \in 1 .. MaxListings |-> NoListing]
      /\ live = Holders /\ aeb = [a \in Accounts |-> cast.aeb] /\ cancelled = {}
    BY DEF CustodyInit
<1>3. cast.gear \subseteq Gear /\ cast.granted \in Nat /\ cast.aeb \in Nat
  <2>1. cast \in [gear : SUBSET Gear, granted : Nat, most : Nat, aeb : Nat]
      BY <1>2, CustodyAssumption
  <2>. QED
      BY <2>1
<1>4. Starter \in Holders /\ 0 \in SlotIndex /\ 0 # NoSlot
    BY CustodyConstants DEF SlotIndex, NoSlot
<1>. DEFINE first == [item |-> i, quantity |-> cast.granted, bind |-> "UNBOUND"]
            x == [NoGear EXCEPT !.loc = "IN_WAREHOUSE", !.slot = 0,
                                !.durability = GearDurability, !.bind = "UNBOUND"]
<1>5. stacks \in [Place -> Stack] /\ \A p \in Place : p # <<Starter, "BAG", 0>> => stacks[p] = NoStack
  <2>1. cast.granted > 0 => first \in Stack
      BY <1>3 DEF Stack, StackRow
  <2>. HIDE DEF first
  <2>. QED
      BY <1>1, <2>1, StackFacts DEF first
<1>6. SoundPiece(NoGear) /\ NoGear \in Piece /\ NoGear.loc = "NONE"
  <2>1. 0 \in 0 .. GearDurability /\ 0 \in 0 .. GearLevelMax
      BY CustodyConstants
  <2>. QED
      BY <1>4, <2>1 DEF NoGear, SoundPiece, Piece, Places, Stored
<1>7. SoundPiece(x) /\ x \in Piece /\ x.loc = "IN_WAREHOUSE"
  <2>1. GearDurability \in 0 .. GearDurability
      BY CustodyConstants
  <2>. QED
      BY <1>4, <1>6, <2>1 DEF NoGear, SoundPiece, Piece, Places, Stored
<1>. HIDE DEF x
<1>8. /\ gear \in [Gear -> Piece] /\ g \in Gear /\ gear[g] = x /\ \A h \in Gear \ {g} : gear[h] = NoGear
      /\ \A h \in Gear : SoundPiece(gear[h])
    BY <1>1, <1>3, <1>6, <1>7 DEF x
<1>9. \A h \in Gear : gear[h].loc \in {"NONE", "IN_WAREHOUSE"} /\ (gear[h].loc = "IN_WAREHOUSE" => h = g)
    BY <1>6, <1>7, <1>8
<1>10. SlotsInv(stacks, gear, cancelled)
  <2>1. ApartIn(gear)
      BY <1>9 DEF ApartIn, Stored
  <2>2. ASSUME NEW h \in Gear, NEW l \in Stores, gear[h].loc = EquipmentStorageLocation(l)
        PROVE  stacks[<<gear[h].holder, l, gear[h].slot>>] = NoStack
    <3>1. l = "WAREHOUSE" /\ gear[h].loc = "IN_WAREHOUSE"
        BY <1>9, <2>2, StoreFacts
    <3>2. <<gear[h].holder, l, gear[h].slot>> \in Place
        BY <1>8, <3>1 DEF SoundPiece, Stored, Piece, Place, Stores
    <3>3. <<gear[h].holder, l, gear[h].slot>> # <<Starter, "BAG", 0>>
        BY <3>1
    <3>. QED
        BY <1>5, <3>2, <3>3
  <2>3. ClashFree(stacks, gear, cancelled)
      BY <2>2 DEF ClashFree
  <2>. QED
      BY <1>5, <1>8, <2>1, <2>3 DEF SlotsInv
<1>11. TraysInv(tray, gear)
  <2>1. ASSUME NEW c \in Holders PROVE tray[c] = << >> /\ tray[c] \in Seq(TrayRow) /\ RowsInv(tray[c], c, gear)
    <3>1. tray[c] = << >>
        BY <1>2
    <3>2. << >> \in Seq(TrayRow) /\ DOMAIN << >> = {}
        OBVIOUS
    <3>3. \A h \in Gear : ~InTrayOf(gear[h], c)
        BY <1>9 DEF InTrayOf
    <3>. QED
        BY <3>1, <3>2, <3>3 DEF RowsInv
  <2>. QED
      BY <1>2, <2>1 DEF TraysInv
<1>12. MintInv(gear, nft, returning)
    BY <1>2, <1>9 DEF MintInv
<1>13. ListedInv(gear, listings)
  <2>1. NoListing \in Listing /\ NoListing.status = "NONE"
      BY <1>4, StackFacts DEF NoListing, Listing
  <2>. QED
      BY <1>2, <1>9, <2>1 DEF ListedInv, Offers
<1>14. aeb \in [Accounts -> Nat]
    BY <1>2, <1>3
<1>. QED
    BY <1>2, <1>10, <1>11, <1>12, <1>13, <1>14 DEF CustodyIInv

LEMMA ItemStepKeeps ==
    ASSUME CustodyIInv, NEW c \in Holders, ItemStep(c)
    PROVE  CustodyIInv'
<1>1. ASSUME NEW i \in Items, NEW q \in Quantities, ApplyTrayItem(c, i, q) \/ ApplyItemToBag(c, i, q)
      PROVE  CustodyIInv'
    BY <1>1, ApplyTrayItemKeeps, ApplyItemToBagKeeps
<1>2. ASSUME NEW k \in 1 .. 3, NEW q \in Quantities \cup {0}, LootClaim(c, k, q)
      PROVE  CustodyIInv'
    BY <1>2, LootClaimKeeps
<1>3. CASE LootClaimAll(c)
    BY <1>3, LootClaimAllKeeps
<1>4. ASSUME NEW k \in 1 .. 3, LootDiscard(c, k)
      PROVE  CustodyIInv'
    BY <1>4, LootDiscardKeeps
<1>5. CASE WarehouseDeposit(c) \/ WarehouseWithdraw(c)
  <2>1. "BAG" \in Stores /\ "WAREHOUSE" \in Stores
      BY StoreFacts
  <2>2. ASSUME NEW g \in Gear, NEW s, MoveGear(c, g, "BAG", "WAREHOUSE", s) \/ MoveGear(c, g, "WAREHOUSE", "BAG", s)
        PROVE  CustodyIInv'
      BY <2>1, <2>2, MoveGearKeeps
  <2>3. ASSUME NEW s \in SlotIndex, NEW q \in Quantities,
               MoveInventory(c, s, q, "BAG", "WAREHOUSE") \/ MoveInventory(c, s, q, "WAREHOUSE", "BAG")
        PROVE  CustodyIInv'
      BY <2>1, <2>3, MoveInventoryKeeps
  <2>. QED
      BY <1>5, <2>2, <2>3 DEF WarehouseDeposit, WarehouseWithdraw
<1>6. ASSUME NEW l \in Stores, OrganizeStorage(c, l)
      PROVE  CustodyIInv'
    BY <1>6, OrganizeStorageKeeps
<1>7. ASSUME NEW s \in SlotIndex, NEW q \in Quantities \cup {0}, InventoryDiscard(c, s, q) \/ SellShopInventory(c, s, q)
      PROVE  CustodyIInv'
    BY <1>7, InventoryDiscardKeeps DEF SellShopInventory
<1>8. ASSUME NEW l \in Stores, NEW s \in SlotIndex, NEW q \in Quantities, NEW price \in Prices,
             LockItemForListing(c, l, s, q, price)
      PROVE  CustodyIInv'
    BY <1>8, LockItemForListingKeeps
<1>. QED
    BY <1>1, <1>2, <1>3, <1>4, <1>5, <1>6, <1>7, <1>8 DEF ItemStep

LEMMA GearStepKeeps ==
    ASSUME CustodyIInv, NEW c \in Holders, NEW g \in Gear, GearStep(c, g)
    PROVE  CustodyIInv'
<1>1. CASE ApplyTrayGear(c, g) \/ ApplyGearToBag(c, g)
    BY <1>1, ApplyTrayGearKeeps, ApplyGearToBagKeeps
<1>2. ASSUME NEW i \in Items, Synthesize(c, i, g) \/ EquipmentEnhance(c, g, i)
      PROVE  CustodyIInv'
    BY <1>2, SynthesizeKeeps, EquipmentEnhanceKeeps
<1>3. CASE EquipItem(c, g, 0)
    BY <1>3, EquipItemKeeps
<1>4. ASSUME NEW s, UnequipItem(c, g, s)
      PROVE  CustodyIInv'
    BY <1>4, UnequipItemKeeps
<1>5. CASE DiscardGear(c, g) \/ SellShopEquipment(c, g) \/ EquipmentNPCRecycle(c, g)
    BY <1>5, DiscardGearKeeps, SellShopEquipmentKeeps, EquipmentNPCRecycleKeeps
<1>6. CASE EquipmentRepair(c, g) \/ RequestNFTMint(c, g)
    BY <1>6, EquipmentRepairKeeps, RequestNFTMintKeeps
<1>7. ASSUME NEW price \in Prices, LockEquipmentForListing(c, g, price)
      PROVE  CustodyIInv'
    BY <1>7, LockEquipmentForListingKeeps
<1>. QED
    BY <1>1, <1>2, <1>3, <1>4, <1>5, <1>6, <1>7 DEF GearStep

LEMMA CustodyStepKeeps ==
    ASSUME CustodyIInv, [CustodyNext]_cvars
    PROVE  CustodyIInv'
<1>1. ASSUME NEW c \in Holders, ItemStep(c) \/ WearEquippedGear(c) \/ RetireHolder(c)
      PROVE  CustodyIInv'
    BY <1>1, ItemStepKeeps, WearEquippedGearKeeps, RetireHolderKeeps
<1>2. ASSUME NEW c \in Holders, NEW g \in Gear, GearStep(c, g)
      PROVE  CustodyIInv'
    BY <1>2, GearStepKeeps
<1>3. ASSUME NEW g \in Gear, RecycleLapses(g) \/ ConfirmNFTMint(g)
      PROVE  CustodyIInv'
    BY <1>3, RecycleLapsesKeeps, ConfirmNFTMintKeeps
<1>4. ASSUME NEW g \in Gear, CancelMintResolve(g) \/ CancelMintReturn(g) \/ CancelMintAbort(g)
      PROVE  CustodyIInv'
    BY <1>4, CancelMintResolveKeeps, CancelMintReturnKeeps, CancelMintAbortKeeps
<1>5. ASSUME NEW k \in 1 .. MaxListings, MarketplaceCancel(k)
      PROVE  CustodyIInv'
    BY <1>5, MarketplaceCancelKeeps
<1>6. ASSUME NEW k \in 1 .. MaxListings, NEW c \in Holders, MarketplaceBuy(k, c)
      PROVE  CustodyIInv'
    BY <1>6, MarketplaceBuyKeeps
<1>7. CASE PurgeExpiredNPCRecycledEquipment
    BY <1>7, PurgeKeeps
<1>8. CASE UNCHANGED cvars
    BY <1>8, StackStep DEF cvars, CustodyIInv
<1>. QED
    BY <1>1, <1>2, <1>3, <1>4, <1>5, <1>6, <1>7, <1>8 DEF CustodyNext

(* What the invariant says of the slots and of the tables. *)
LEMMA CustodyInPlace ==
    ASSUME CustodyIInv
    PROVE  ThingsInPlace
<1>1. SlotsInv(stacks, gear, cancelled) /\ TraysInv(tray, gear) /\ MintInv(gear, nft, returning)
      /\ ListedInv(gear, listings) /\ aeb \in [Accounts -> Nat]
    BY DEF CustodyIInv
<1>2. CustodyTypeOK
  <2>1. ASSUME NEW p \in Place PROVE stacks[p] = NoStack \/ (stacks[p].item \in Items /\ stacks[p].quantity > 0)
    <3>1. stacks[p] \in Stack
        BY <1>1 DEF SlotsInv
    <3>. QED
        BY <3>1, StackFacts
  <2>2. ASSUME NEW g \in Gear
        PROVE  /\ gear[g].durability \in 0 .. GearDurability
               /\ gear[g].level \in 0 .. GearLevelMax
               /\ gear[g].loc \in {"IN_BAG", "IN_WAREHOUSE"} <=> gear[g].slot # NoSlot
               /\ gear[g].loc = "EQUIPPED" => gear[g].worn # NoSlot
      BY PieceFacts DEF SoundPiece, Piece, Stored
  <2>3. ASSUME NEW a \in Accounts PROVE aeb[a] >= 0
      BY <1>1
  <2>. QED
      BY <2>1, <2>2, <2>3 DEF CustodyTypeOK
<1>3. OneThingPerSlot
    BY <1>1 DEF OneThingPerSlot, PiecesApart, Clashes, SlotsInv, ApartIn, ClashFree, Stored
<1>4. ASSUME NEW g \in Gear
      PROVE  /\ (gear[g].loc = "LISTED") = (ListedBy(g) # {})
             /\ \A k \in ListedBy(g) : ListedBy(g) = {k} /\ listings[k].seller = gear[g].holder
  <2>1. \A k : k \in ListedBy(g) <=> k \in 1 .. MaxListings /\ Offers(listings, k, g)
      BY <1>1 DEF ListedBy, Offers, ListedInv
  <2>2. gear[g].loc = "LISTED" <=> ListedBy(g) # {}
      BY <1>1, <2>1 DEF ListedInv
  <2>3. ASSUME NEW k \in ListedBy(g) PROVE ListedBy(g) = {k} /\ listings[k].seller = gear[g].holder
      BY <1>1, <2>1 DEF ListedInv
  <2>. QED
      BY <2>2, <2>3
<1>5. ASSUME NEW g \in Gear
      PROVE  (gear[g].loc = "IN_LOOT_TRAY") =
               (Cardinality({k \in DOMAIN tray[gear[g].holder] : tray[gear[g].holder][k].gear = g}) = 1)
  <2>. DEFINE c == gear[g].holder
              rows == tray[c]
              mine == {k \in DOMAIN rows : rows[k].gear = g}
  <2>1. c \in Holders /\ g # 0
      BY PieceFacts, CustodyConstants
  <2>2. RowsInv(rows, c, gear)
      BY <1>1, <2>1 DEF TraysInv
  <2>3. CASE gear[g].loc = "IN_LOOT_TRAY"
    <3>1. InTrayOf(gear[g], c)
        BY <2>3 DEF InTrayOf
    <3>. HIDE DEF rows, c
    <3>2. PICK k \in DOMAIN rows : rows[k].gear = g
        BY <2>2, <3>1 DEF RowsInv
    <3>3. mine = {k}
        BY <2>1, <2>2, <3>2 DEF RowsInv
    <3>4. Cardinality(mine) = 1
        BY <3>3, FS_Singleton
    <3>. QED
        BY <2>3, <3>4 DEF rows, c
  <2>4. CASE gear[g].loc # "IN_LOOT_TRAY"
    <3>1. ~InTrayOf(gear[g], c)
        BY <2>4 DEF InTrayOf
    <3>. HIDE DEF rows, c
    <3>2. mine = {}
        BY <2>1, <2>2, <3>1 DEF RowsInv
    <3>3. Cardinality(mine) = 0
        BY <3>2, FS_EmptySet
    <3>. QED
        BY <2>4, <3>3 DEF rows, c
  <2>. QED
      BY <2>3, <2>4
<1>6. ASSUME NEW g \in Gear
      PROVE  /\ (gear[g].loc = "MINT_PENDING") = (nft[g] = "MINT_REQUESTED")
             /\ (gear[g].loc = "ON_CHAIN") = (nft[g] = "MINTED")
    BY <1>1 DEF MintInv
<1>7. TablesAgree
    BY <1>4, <1>5, <1>6 DEF TablesAgree
<1>. QED
    BY <1>2, <1>3, <1>7 DEF ThingsInPlace

(* Every thing is in one place, and the tables that name it agree on it:   *)
(* resolveStorageSlot gives free slots only, and what takes a piece out of *)
(* the tray, the market or a mint closes the row that named it.            *)
THEOREM ThingsStayInPlace == CustodySpec => []ThingsInPlace
<1>1. CustodyInit => CustodyIInv
    BY CustodyStarts
<1>2. CustodyIInv /\ [CustodyNext]_cvars => CustodyIInv'
    BY CustodyStepKeeps
<1>3. CustodyIInv => ThingsInPlace
    BY CustodyInPlace
<1>. QED
    BY <1>1, <1>2, <1>3, PTL DEF CustodySpec

-----------------------------------------------------------------------------
(* A piece's life: what an operation does to a piece x that becomes y.     *)
HeldAt == {"IN_LOOT_TRAY", "IN_BAG", "IN_WAREHOUSE", "EQUIPPED"}

Goes(x, y) ==
    \/ x.loc = y.loc /\ x.holder = y.holder
    \/ x.loc \in HeldAt /\ x.holder = y.holder
           /\ y.loc \in HeldAt \cup {"LISTED", "MINT_PENDING", "NPC_RECYCLED", "DELETED", "CONSUMED"}
    \/ x.loc = "MINT_PENDING" /\ x.holder = y.holder /\ y.loc \in {"IN_BAG", "ON_CHAIN"}
    \/ x.loc \in {"NONE", "LISTED"} /\ y.loc \in HeldAt
    \/ x.loc = "NPC_RECYCLED" /\ y.loc = "PURGED"

AllGo == \A g \in Gear : Goes(gear[g], gear'[g])

AssetOf(x) == [phase |-> Phase(x.loc), owner |-> OwnerOf[x.holder]]

LEMMA GoesIsStep ==
    ASSUME NEW x, NEW y, Goes(x, y)
    PROVE  Lifecycle!Step(AssetOf(x), AssetOf(y))
<1>1. /\ Phase("NONE") = "unmade" /\ \A l \in HeldAt : Phase(l) = "held"
      /\ Phase("LISTED") = "offered" /\ Phase("MINT_PENDING") = "minting" /\ Phase("ON_CHAIN") = "minted"
      /\ Phase("NPC_RECYCLED") = "recycled"
      /\ Phase("DELETED") = "gone" /\ Phase("CONSUMED") = "gone" /\ Phase("PURGED") = "gone"
    BY DEF Phase, HeldAt
<1>. DEFINE a == AssetOf(x)
            b == AssetOf(y)
<1>2. a.phase = Phase(x.loc) /\ b.phase = Phase(y.loc) /\ a.owner = OwnerOf[x.holder] /\ b.owner = OwnerOf[y.holder]
    BY DEF AssetOf
<1>3. (a.phase = b.phase /\ a.owner = b.owner) => a = b
    BY DEF AssetOf
<1>. SUFFICES Lifecycle!Step(a, b)
    OBVIOUS
<1>. HIDE DEF a, b
<1>4. CASE x.loc = y.loc /\ x.holder = y.holder
    BY <1>2, <1>3, <1>4 DEF Lifecycle!Step
<1>5. CASE x.loc \in HeldAt /\ x.holder = y.holder
           /\ y.loc \in HeldAt \cup {"LISTED", "MINT_PENDING", "NPC_RECYCLED", "DELETED", "CONSUMED"}
  <2>1. a.phase = "held" /\ a.owner = b.owner
      BY <1>1, <1>2, <1>5
  <2>2. b.phase \in {"held", "offered", "minting", "recycled", "gone"}
      BY <1>1, <1>2, <1>5
  <2>. QED
      BY <1>3, <2>1, <2>2 DEF Lifecycle!Step, Lifecycle!Moves
<1>6. CASE x.loc = "MINT_PENDING" /\ x.holder = y.holder /\ y.loc \in {"IN_BAG", "ON_CHAIN"}
  <2>1. a.phase = "minting" /\ a.owner = b.owner /\ b.phase \in {"held", "minted"}
      BY <1>1, <1>2, <1>6 DEF HeldAt
  <2>. QED
      BY <2>1 DEF Lifecycle!Step, Lifecycle!Moves
<1>7. CASE x.loc \in {"NONE", "LISTED"} /\ y.loc \in HeldAt
  <2>1. a.phase \in {"unmade", "offered"} /\ b.phase = "held"
      BY <1>1, <1>2, <1>7
  <2>. QED
      BY <2>1 DEF Lifecycle!Step
<1>8. CASE x.loc = "NPC_RECYCLED" /\ y.loc = "PURGED"
  <2>1. a.phase = "recycled" /\ b.phase = "gone"
      BY <1>1, <1>2, <1>8
  <2>. QED
      BY <2>1 DEF Lifecycle!Step
<1>. QED
    BY <1>4, <1>5, <1>6, <1>7, <1>8 DEF Goes

LEMMA NoneGoes ==
    ASSUME UNCHANGED gear
    PROVE  AllGo
BY DEF AllGo, Goes

LEMMA OneGoes ==
    ASSUME NEW g \in Gear, \A h \in Gear \ {g} : gear'[h] = gear[h], Goes(gear[g], gear'[g])
    PROVE  AllGo
BY DEF AllGo, Goes

(* Rewards, the bag and the warehouse. *)
LEMMA RewardsGo ==
    ASSUME CustodyIInv, NEW c \in Holders, NEW g \in Gear, NEW i,
           ApplyTrayGear(c, g) \/ ApplyGearToBag(c, g) \/ Synthesize(c, i, g)
    PROVE  AllGo
<1>1. gear[g].loc = "NONE"
    BY DEF ApplyTrayGear, ApplyGearToBag, Synthesize, Unmade
<1>2. PICK l \in {"IN_LOOT_TRAY", "IN_BAG"}, s \in SlotIndex \cup {NoSlot} :
          gear' = [gear EXCEPT ![g] = NewGear(c, l, s)]
  <2>1. CASE ApplyTrayGear(c, g)
      BY <2>1 DEF ApplyTrayGear
  <2>2. CASE ApplyGearToBag(c, g) \/ Synthesize(c, i, g)
    <3>1. \E st : GearToBag(st, c, g)
        BY <2>2 DEF ApplyGearToBag, Synthesize
    <3>2. PICK st : \E s \in ResolveStorageSlot(st, gear, c, "BAG", NoSlot) : gear' = [gear EXCEPT ![g] = NewGear(c, "IN_BAG", s)]
        BY <3>1 DEF GearToBag
    <3>3. PICK s \in ResolveStorageSlot(st, gear, c, "BAG", NoSlot) : gear' = [gear EXCEPT ![g] = NewGear(c, "IN_BAG", s)]
        BY <3>2
    <3>4. s \in SlotIndex
        BY ResolvedSlot
    <3>. QED
        BY <3>3, <3>4
  <2>. QED
      BY <2>1, <2>2
<1>3. NewGear(c, l, s).loc = l
    BY DEF NewGear, NoGear
<1>4. gear'[g].loc \in HeldAt /\ \A h \in Gear \ {g} : gear'[h] = gear[h]
    BY <1>2, <1>3, PieceFacts DEF HeldAt
<1>. QED
    BY <1>1, <1>4, OneGoes DEF Goes

LEMMA MovesGo ==
    ASSUME CustodyIInv, NEW c \in Holders, NEW g \in Gear, NEW from \in Stores, NEW to \in Stores, NEW s,
           MoveGear(c, g, from, to, s)
    PROVE  AllGo
<1>1. PICK t : gear' = [gear EXCEPT ![g].loc = EquipmentStorageLocation(to), ![g].slot = t]
    BY DEF MoveGear
<1>2. gear[g].loc = EquipmentStorageLocation(from) /\ gear \in [Gear -> Piece]
    BY PieceFacts DEF MoveGear
<1>3. gear[g].loc \in HeldAt /\ EquipmentStorageLocation(to) \in HeldAt
    BY <1>2, StoreFacts DEF Stored, HeldAt
<1>4. /\ gear'[g].loc = EquipmentStorageLocation(to) /\ gear'[g].holder = gear[g].holder
      /\ \A h \in Gear \ {g} : gear'[h] = gear[h]
    BY <1>1, <1>2 DEF Piece
<1>. QED
    BY <1>3, <1>4, OneGoes DEF Goes

LEMMA OrganizeGoes ==
    ASSUME CustodyIInv, NEW c \in Holders, NEW l \in Stores, OrganizeStorage(c, l)
    PROVE  AllGo
<1>. DEFINE inside == {g \in Gear : gear[g].holder = c /\ gear[g].loc = EquipmentStorageLocation(l)}
            at(g) == StacksOf(c, l, Groups) + Cardinality({h \in inside : h < g})
<1>1. gear' = [g \in Gear |-> IF g \in inside THEN [gear[g] EXCEPT !.slot = at(g)] ELSE gear[g]]
    BY DEF OrganizeStorage
<1>. HIDE DEF inside, at
<1>2. \A g \in Gear : gear[g] \in Piece
    BY PieceFacts
<1>3. \A g \in Gear : gear'[g].loc = gear[g].loc /\ gear'[g].holder = gear[g].holder
    BY <1>1, <1>2 DEF Piece
<1>. QED
    BY <1>3 DEF AllGo, Goes

LEMMA WornGo ==
    ASSUME CustodyIInv, NEW c \in Holders, NEW g \in Gear, NEW s, EquipItem(c, g, 0) \/ UnequipItem(c, g, s)
    PROVE  AllGo
<1>1. gear \in [Gear -> Piece]
    BY PieceFacts
<1>2. CASE UnequipItem(c, g, s)
  <2>1. PICK t : gear' = [gear EXCEPT ![g].loc = "IN_BAG", ![g].slot = t]
      BY <1>2 DEF UnequipItem
  <2>2. gear'[g].loc = "IN_BAG" /\ gear'[g].holder = gear[g].holder /\ \A h \in Gear \ {g} : gear'[h] = gear[h]
      BY <1>1, <2>1 DEF Piece
  <2>3. gear[g].loc = "EQUIPPED"
      BY <1>2 DEF UnequipItem
  <2>. QED
      BY <2>2, <2>3, OneGoes DEF Goes, HeldAt
<1>3. CASE EquipItem(c, g, 0)
  <2>. DEFINE worn == {h \in Gear : gear[h].holder = c /\ gear[h].loc = "EQUIPPED" /\ gear[h].worn = 0}
              on(ge) == [ge EXCEPT ![g].loc = "EQUIPPED", ![g].slot = NoSlot, ![g].worn = 0]
  <2>1. gear[g].loc = "IN_BAG"
      BY <1>3 DEF EquipItem
  <2>2. CASE worn = {}
    <3>1. gear' = on(gear)
        BY <1>3, <2>2 DEF EquipItem
    <3>2. gear'[g].loc = "EQUIPPED" /\ gear'[g].holder = gear[g].holder /\ \A h \in Gear \ {g} : gear'[h] = gear[h]
        BY <1>1, <3>1 DEF Piece
    <3>. QED
        BY <2>1, <3>2, OneGoes DEF Goes, HeldAt
  <2>3. CASE worn # {}
    <3>1. PICK k \in worn, t \in ResolveStorageSlot(stacks, gear, c, "BAG", NoSlot) :
            gear' = on([gear EXCEPT ![k].loc = "IN_BAG", ![k].slot = t])
        BY <1>3, <2>3 DEF EquipItem
    <3>. DEFINE x == [gear[k] EXCEPT !.loc = "IN_BAG", !.slot = t]
                ge == [gear EXCEPT ![k] = x]
    <3>2. k \in Gear /\ gear[k].loc = "EQUIPPED" /\ k # g
        BY <2>1
    <3>3. x \in [loc : Places, holder : Holders, slot : {t}, worn : {0, NoSlot}, durability : 0 .. GearDurability,
                 level : 0 .. GearLevelMax, bind : {"BOUND", "UNBOUND"}, lapsed : BOOLEAN]
          /\ x.loc = "IN_BAG" /\ x.holder = gear[k].holder
        BY <1>1, <3>2 DEF Piece, Places, Stored
    <3>4. gear' = [ge EXCEPT ![g].loc = "EQUIPPED", ![g].slot = NoSlot, ![g].worn = 0]
        BY <1>1, <3>1, <3>2
    <3>5. DOMAIN ge = Gear /\ ge[k] = x /\ \A h \in Gear \ {k} : ge[h] = gear[h]
        BY <1>1, <3>2
    <3>. HIDE DEF x, ge, worn, on
    <3>6. gear'[g].loc = "EQUIPPED" /\ gear'[g].holder = gear[g].holder /\ \A h \in Gear \ {g} : gear'[h] = ge[h]
        BY <1>1, <3>2, <3>4, <3>5 DEF Piece
    <3>7. \A h \in Gear \ {g, k} : gear'[h] = gear[h]
        BY <3>5, <3>6
    <3>8. gear'[k].loc = "IN_BAG" /\ gear'[k].holder = gear[k].holder
        BY <3>2, <3>3, <3>5, <3>6
    <3>. QED
        BY <2>1, <3>2, <3>6, <3>7, <3>8 DEF AllGo, Goes, HeldAt
  <2>. QED
      BY <2>2, <2>3
<1>. QED
    BY <1>2, <1>3

(* The loot tray. *)
LEMMA ClaimsGo ==
    ASSUME CustodyIInv, NEW c \in Holders, NEW tx, ClaimInv(tx, c), Claim(c, tx)
    PROVE  AllGo
<1>1. gear' = tx.gear
    BY DEF Claim
<1>2. ASSUME NEW g \in Gear PROVE Goes(gear[g], gear'[g])
  <2>1. Claimed(gear[g], gear'[g], c)
      BY <1>1 DEF ClaimInv
  <2>. QED
      BY <2>1 DEF Claimed, InTrayOf, Goes, HeldAt
<1>. QED
    BY <1>2 DEF AllGo

LEMMA LootGoes ==
    ASSUME CustodyIInv, NEW c \in Holders, NEW k, NEW q \in Quantities \cup {0},
           LootClaim(c, k, q) \/ LootClaimAll(c) \/ LootDiscard(c, k)
    PROVE  AllGo
<1>1. CASE LootClaim(c, k, q)
  <2>1. k \in DOMAIN tray[c] /\ Claim(c, ClaimLootRow(LootTx(c), c, k, q))
      BY <1>1 DEF LootClaim
  <2>2. LootTx(c).tray = tray[c] /\ q \in Nat
      BY CustodyConstants DEF LootTx
  <2>3. ClaimInv(ClaimLootRow(LootTx(c), c, k, q), c)
      BY <2>1, <2>2, ClaimStarts, RowClaimed
  <2>. QED
      BY <2>1, <2>3, ClaimsGo
<1>2. CASE LootClaimAll(c)
  <2>1. ClaimInv(LootTx(c), c) /\ Claim(c, ClaimedRows(c)[Len(tray[c])])
      BY <1>2, ClaimStarts DEF LootClaimAll
  <2>2. Len(tray[c]) \in 0 .. Len(tray[c])
      BY <2>1, AllClaimed
  <2>3. ClaimInv(ClaimedRows(c)[Len(tray[c])], c)
      BY <2>1, <2>2, AllClaimed
  <2>. QED
      BY <2>1, <2>3, ClaimsGo
<1>3. CASE LootDiscard(c, k)
  <2>. DEFINE g == tray[c][k].gear
  <2>1. /\ k \in DOMAIN tray[c]
        /\ g # 0 => gear' = [gear EXCEPT ![g].loc = IF @ = "IN_LOOT_TRAY" THEN "DELETED" ELSE @]
        /\ g = 0 => gear' = gear
      BY <1>3 DEF LootDiscard
  <2>2. CASE g = 0
      BY <2>1, <2>2, NoneGoes
  <2>3. CASE g # 0
    <3>1. tray[c] \in Seq(TrayRow) /\ RowsInv(tray[c], c, gear)
        BY DEF CustodyIInv, TraysInv
    <3>2. tray[c][k] \in TrayRow
        BY <2>1, <3>1
    <3>3. g \in Gear /\ gear[g].loc = "IN_LOOT_TRAY"
        BY <2>1, <2>3, <3>1, <3>2 DEF TrayRow, RowsInv, InTrayOf
    <3>. HIDE DEF g
    <3>4. gear' = [gear EXCEPT ![g].loc = "DELETED"]
        BY <2>1, <2>3, <3>3, PieceFacts
    <3>5. gear'[g].loc = "DELETED" /\ gear'[g].holder = gear[g].holder /\ \A h \in Gear \ {g} : gear'[h] = gear[h]
        BY <3>3, <3>4, PieceFacts DEF Piece
    <3>. QED
        BY <3>3, <3>5, OneGoes DEF Goes, HeldAt
  <2>. QED
      BY <2>2, <2>3
<1>. QED
    BY <1>1, <1>2, <1>3

(* Ends of a piece, enhancement, wear and repair. *)
LEMMA EndsGo ==
    ASSUME CustodyIInv, NEW c \in Holders, NEW g \in Gear, NEW price,
           \/ DiscardGear(c, g) \/ SellShopEquipment(c, g) \/ EquipmentNPCRecycle(c, g)
           \/ RequestNFTMint(c, g) \/ LockEquipmentForListing(c, g, price)
    PROVE  AllGo
<1>1. gear \in [Gear -> Piece]
    BY PieceFacts
<1>2. gear[g].loc \in {"IN_BAG", "IN_WAREHOUSE"}
    BY DEF DiscardGear, SellShopEquipment, EquipmentNPCRecycle, RequestNFTMint, LockEquipmentForListing
<1>. DEFINE Leaves(l) == /\ gear'[g].loc = l /\ gear'[g].holder = gear[g].holder
                         /\ \A h \in Gear \ {g} : gear'[h] = gear[h]
<1>3. \E l \in {"LISTED", "MINT_PENDING", "NPC_RECYCLED", "DELETED", "CONSUMED"} : Leaves(l)
  <2>1. CASE DiscardGear(c, g)
    <3>1. Leaves("DELETED")
        BY <1>1, <2>1 DEF DiscardGear, Gone, Piece
    <3>. QED
        BY <3>1
  <2>2. CASE SellShopEquipment(c, g)
    <3>1. Leaves("CONSUMED")
        BY <1>1, <2>2 DEF SellShopEquipment, Gone, Piece
    <3>. QED
        BY <3>1
  <2>3. CASE EquipmentNPCRecycle(c, g)
    <3>1. Leaves("NPC_RECYCLED")
        BY <1>1, <2>3 DEF EquipmentNPCRecycle, Gone, Piece
    <3>. QED
        BY <3>1
  <2>4. CASE RequestNFTMint(c, g)
    <3>1. Leaves("MINT_PENDING")
        BY <1>1, <2>4 DEF RequestNFTMint, Gone, Piece
    <3>. QED
        BY <3>1
  <2>5. CASE LockEquipmentForListing(c, g, price)
    <3>1. Leaves("LISTED")
        BY <1>1, <2>5 DEF LockEquipmentForListing, Gone, Piece
    <3>. QED
        BY <3>1
  <2>. QED
      BY <2>1, <2>2, <2>3, <2>4, <2>5
<1>. QED
    BY <1>2, <1>3, OneGoes DEF Goes, HeldAt

LEMMA WearGoes ==
    ASSUME CustodyIInv, NEW c \in Holders, NEW g \in Gear, NEW i,
           EquipmentEnhance(c, g, i) \/ WearEquippedGear(c) \/ EquipmentRepair(c, g) \/ RecycleLapses(g)
    PROVE  AllGo
<1>1. gear \in [Gear -> Piece]
    BY PieceFacts
<1>2. \A h \in Gear : gear'[h].loc = gear[h].loc /\ gear'[h].holder = gear[h].holder
  <2>1. CASE EquipmentEnhance(c, g, i)
      BY <1>1, <2>1 DEF EquipmentEnhance, Piece
  <2>2. CASE WearEquippedGear(c)
      BY <1>1, <2>2 DEF WearEquippedGear, Piece
  <2>3. CASE EquipmentRepair(c, g)
      BY <1>1, <2>3 DEF EquipmentRepair, Piece
  <2>4. CASE RecycleLapses(g)
      BY <1>1, <2>4 DEF RecycleLapses, Piece
  <2>. QED
      BY <2>1, <2>2, <2>3, <2>4
<1>. QED
    BY <1>2 DEF AllGo, Goes

LEMMA PurgeGoes ==
    ASSUME CustodyIInv, PurgeExpiredNPCRecycledEquipment
    PROVE  AllGo
<1>1. gear' = [g \in Gear |-> IF gear[g].loc = "NPC_RECYCLED" /\ gear[g].lapsed
                              THEN [NoGear EXCEPT !.loc = "PURGED"] ELSE gear[g]]
    BY DEF PurgeExpiredNPCRecycledEquipment
<1>2. [NoGear EXCEPT !.loc = "PURGED"].loc = "PURGED"
    BY DEF NoGear
<1>. QED
    BY <1>1, <1>2 DEF AllGo, Goes

(* Minting and the market. *)
LEMMA MintsGo ==
    ASSUME CustodyIInv, NEW g \in Gear, ConfirmNFTMint(g) \/ CancelMintReturn(g)
    PROVE  AllGo
<1>1. gear \in [Gear -> Piece]
    BY PieceFacts
<1>2. gear[g].loc = "MINT_PENDING"
    BY DEF ConfirmNFTMint, CancelMintReturn, CustodyIInv, MintInv
<1>3. /\ gear'[g].loc \in {"ON_CHAIN", "IN_BAG"} /\ gear'[g].holder = gear[g].holder
      /\ \A h \in Gear \ {g} : gear'[h] = gear[h]
    BY <1>1, <1>2 DEF ConfirmNFTMint, CancelMintReturn, Piece
<1>. QED
    BY <1>2, <1>3, OneGoes DEF Goes, HeldAt

LEMMA SalesGo ==
    ASSUME CustodyIInv, NEW k \in 1 .. MaxListings, NEW c \in Holders,
           MarketplaceBuy(k, c) \/ MarketplaceCancel(k)
    PROVE  AllGo
<1>. DEFINE g == listings[k].gear
<1>1. \E d : HandOver(k, d)
    BY DEF MarketplaceBuy, MarketplaceCancel
<1>2. PICK d : HandOver(k, d)
    BY <1>1
<1>3. g \in Gear \cup {0}
    BY DEF CustodyIInv, ListedInv, Listing
<1>4. PICK s :
        IF g # 0
        THEN gear[g].loc = "LISTED" /\ gear' = [gear EXCEPT ![g] = [gear[g] EXCEPT !.holder = d, !.loc = "IN_BAG", !.slot = s]]
        ELSE gear' = gear
    BY <1>2 DEF HandOver
<1>5. CASE g = 0
    BY <1>4, <1>5, NoneGoes
<1>6. CASE g # 0
  <2>1. g \in Gear /\ gear[g].loc = "LISTED"
      BY <1>3, <1>4, <1>6
  <2>. DEFINE x == [gear[g] EXCEPT !.holder = d, !.loc = "IN_BAG", !.slot = s]
  <2>2. x.loc = "IN_BAG"
      BY <2>1, PieceFacts DEF Piece
  <2>3. gear' = [gear EXCEPT ![g] = x]
      BY <1>4, <1>6, Zenon
  <2>5. gear \in [Gear -> Piece]
      BY <2>1, PieceFacts
  <2>. HIDE DEF x, g
  <2>4. gear'[g].loc = "IN_BAG" /\ \A h \in Gear \ {g} : gear'[h] = gear[h]
      BY <2>1, <2>2, <2>3, <2>5
  <2>. QED
      BY <2>1, <2>4, OneGoes DEF Goes, HeldAt
<1>. QED
    BY <1>5, <1>6

LEMMA StepGoes ==
    ASSUME CustodyIInv, [CustodyNext]_cvars
    PROVE  AllGo
<1>1. ASSUME NEW c \in Holders, ItemStep(c) PROVE AllGo
  <2>1. ASSUME NEW i \in Items, NEW q \in Quantities, ApplyTrayItem(c, i, q) \/ ApplyItemToBag(c, i, q)
        PROVE  AllGo
      BY <2>1, NoneGoes DEF ApplyTrayItem, ApplyItemToBag
  <2>2. ASSUME NEW k \in 1 .. 3, NEW q \in Quantities \cup {0}, LootClaim(c, k, q)
        PROVE  AllGo
      BY <2>2, LootGoes
  <2>3. ASSUME NEW k, LootClaimAll(c) \/ LootDiscard(c, k)
        PROVE  AllGo
      BY <2>3, LootGoes
  <2>4. CASE WarehouseDeposit(c) \/ WarehouseWithdraw(c)
    <3>1. "BAG" \in Stores /\ "WAREHOUSE" \in Stores
        BY StoreFacts
    <3>2. ASSUME NEW g \in Gear, NEW s, MoveGear(c, g, "BAG", "WAREHOUSE", s) \/ MoveGear(c, g, "WAREHOUSE", "BAG", s)
          PROVE  AllGo
        BY <3>1, <3>2, MovesGo
    <3>3. ASSUME NEW s \in SlotIndex, NEW q \in Quantities,
                 MoveInventory(c, s, q, "BAG", "WAREHOUSE") \/ MoveInventory(c, s, q, "WAREHOUSE", "BAG")
          PROVE  AllGo
        BY <3>3, NoneGoes DEF MoveInventory
    <3>. QED
        BY <2>4, <3>2, <3>3 DEF WarehouseDeposit, WarehouseWithdraw
  <2>5. ASSUME NEW l \in Stores, OrganizeStorage(c, l) PROVE AllGo
      BY <2>5, OrganizeGoes
  <2>6. ASSUME NEW s, NEW q, InventoryDiscard(c, s, q) \/ SellShopInventory(c, s, q)
        PROVE  AllGo
      BY <2>6, NoneGoes DEF InventoryDiscard, SellShopInventory
  <2>7. ASSUME NEW l, NEW s, NEW q, NEW price, LockItemForListing(c, l, s, q, price)
        PROVE  AllGo
      BY <2>7, NoneGoes DEF LockItemForListing
  <2>. QED
      BY <1>1, <2>1, <2>2, <2>3, <2>4, <2>5, <2>6, <2>7 DEF ItemStep
<1>2. ASSUME NEW c \in Holders, NEW g \in Gear, GearStep(c, g) PROVE AllGo
  <2>1. ASSUME NEW i, ApplyTrayGear(c, g) \/ ApplyGearToBag(c, g) \/ Synthesize(c, i, g) PROVE AllGo
      BY <2>1, RewardsGo
  <2>2. ASSUME NEW i, EquipmentEnhance(c, g, i) \/ EquipmentRepair(c, g) PROVE AllGo
      BY <2>2, WearGoes
  <2>3. ASSUME NEW s, EquipItem(c, g, 0) \/ UnequipItem(c, g, s) PROVE AllGo
      BY <2>3, WornGo
  <2>4. ASSUME NEW price,
               \/ DiscardGear(c, g) \/ SellShopEquipment(c, g) \/ EquipmentNPCRecycle(c, g)
               \/ RequestNFTMint(c, g) \/ LockEquipmentForListing(c, g, price)
        PROVE  AllGo
      BY <2>4, EndsGo
  <2>. QED
      BY <1>2, <2>1, <2>2, <2>3, <2>4 DEF GearStep
<1>3. ASSUME NEW c \in Holders, WearEquippedGear(c) \/ RetireHolder(c) PROVE AllGo
  <2>1. CASE RetireHolder(c)
      BY <2>1, NoneGoes DEF RetireHolder
  <2>2. CASE WearEquippedGear(c)
    <3>1. PICK g \in Gear : TRUE
        BY <2>2 DEF WearEquippedGear
    <3>. QED
        BY <2>2, WearGoes
  <2>. QED
      BY <1>3, <2>1, <2>2
<1>4. ASSUME NEW g \in Gear, RecycleLapses(g) \/ ConfirmNFTMint(g) \/ CancelMintReturn(g) PROVE AllGo
  <2>1. PICK c \in Holders : TRUE
      BY CustodyConstants
  <2>. QED
      BY <1>4, WearGoes, MintsGo
<1>5. ASSUME NEW g \in Gear, CancelMintResolve(g) \/ CancelMintAbort(g) PROVE AllGo
    BY <1>5, NoneGoes DEF CancelMintResolve, CancelMintAbort
<1>6. ASSUME NEW k \in 1 .. MaxListings, MarketplaceCancel(k) \/ \E c \in Holders : MarketplaceBuy(k, c) PROVE AllGo
  <2>1. Starter \in Holders
      BY CustodyConstants
  <2>. QED
      BY <1>6, <2>1, SalesGo
<1>7. CASE PurgeExpiredNPCRecycledEquipment
    BY <1>7, PurgeGoes
<1>8. CASE UNCHANGED cvars
    BY <1>8, NoneGoes DEF cvars
<1>. QED
    BY <1>1, <1>2, <1>3, <1>4, <1>5, <1>6, <1>7, <1>8 DEF CustodyNext

(* AssetLifecycle is implemented. *)
LEMMA LifecycleStarts ==
    ASSUME CustodyInit
    PROVE  Lifecycle!AssetInit
<1>1. PICK g : gear = [h \in Gear |-> IF h = g
            THEN [NoGear EXCEPT !.loc = "IN_WAREHOUSE", !.slot = 0,
                                !.durability = GearDurability, !.bind = "UNBOUND"]
            ELSE NoGear]
    BY DEF CustodyInit
<1>2. \A h \in Gear : gear[h].loc \in {"NONE", "IN_WAREHOUSE"}
    BY <1>1 DEF NoGear
<1>3. Phase("NONE") = "unmade" /\ Phase("IN_WAREHOUSE") = "held"
    BY DEF Phase
<1>. QED
    BY <1>2, <1>3 DEF Lifecycle!AssetInit

LEMMA LifecycleGoes ==
    ASSUME AllGo
    PROVE  Lifecycle!AssetNext
<1>1. ASSUME NEW g \in Gear PROVE Lifecycle!Step(AssetOf(gear[g]), AssetOf(gear'[g]))
    BY GoesIsStep DEF AllGo
<1>. QED
    BY <1>1 DEF Lifecycle!AssetNext, AssetOf

(* Every step of a piece is a step of AssetLifecycle, or none. *)
LEMMA LifecycleKept == CustodySpec => Lifecycle!AssetSpec
<1>1. CustodyInit => CustodyIInv /\ Lifecycle!AssetInit
    BY CustodyStarts, LifecycleStarts
<1>2. CustodyIInv /\ [CustodyNext]_cvars => CustodyIInv' /\ Lifecycle!AssetNext
    BY CustodyStepKeeps, StepGoes, LifecycleGoes
<1>. QED
    BY <1>1, <1>2, PTL DEF CustodySpec, Lifecycle!AssetSpec

-----------------------------------------------------------------------------
(* Counting.  Held(st, i, b) is what a stack table st holds of item i in   *)
(* stacks of a bind type in b; Offered and Pending what listings and trays *)
(* hold of it.                                                             *)
Both == {"BOUND", "UNBOUND"}
Free == {"UNBOUND"}

Held(st, i, b) ==
    SumFunctionOnSet([p \in Place |-> st[p].quantity], {p \in Place : st[p].item = i /\ st[p].bind \in b})

(* What one stack counts for. *)
Share(x, i, b) == IF x.item = i /\ x.bind \in b THEN x.quantity ELSE 0

Shares(st, i, b) == [p \in Place |-> Share(st[p], i, b)]

LEMMA PlacesFinite == IsFiniteSet(Place)
<1>1. IsFiniteSet({"BAG", "WAREHOUSE"})
  <2>1. IsFiniteSet({"BAG"} \cup {"WAREHOUSE"})
      BY FS_Singleton, FS_AddElement, Zenon
  <2>2. {"BAG", "WAREHOUSE"} = {"BAG"} \cup {"WAREHOUSE"}
      OBVIOUS
  <2>. QED
      BY <2>1, <2>2
<1>2. IsFiniteSet(Stores \X SlotIndex)
    BY <1>1, SlotFacts, FS_Product DEF Stores
<1>3. IsFiniteSet(Holders \X (Stores \X SlotIndex))
    BY <1>2, CustodyConstants, FS_Product
<1>. DEFINE f == [t \in Holders \X (Stores \X SlotIndex) |-> <<t[1], t[2][1], t[2][2]>>]
<1>4. ASSUME NEW p \in Place PROVE \E t \in Holders \X (Stores \X SlotIndex) : f[t] = p
  <2>1. p[1] \in Holders /\ p[2] \in Stores /\ p[3] \in SlotIndex /\ p = <<p[1], p[2], p[3]>>
      BY DEF Place
  <2>2. <<p[1], <<p[2], p[3]>>>> \in Holders \X (Stores \X SlotIndex)
      BY <2>1
  <2>. QED
      BY <2>1, <2>2
<1>5. \A t \in Holders \X (Stores \X SlotIndex) : f[t] \in Place
    BY DEF Place
<1>6. f \in Surjection(Holders \X (Stores \X SlotIndex), Place)
  <2>. HIDE DEF Place
  <2>1. f \in [Holders \X (Stores \X SlotIndex) -> Place]
      BY <1>5
  <2>. HIDE DEF f
  <2>. QED
      BY <1>4, <2>1 DEF Surjection
<1>. HIDE DEF f
<1>. QED
    BY <1>3, <1>6, FS_Surjection

(* What a quantity q of item i is for the count of item j. *)
Part(i, q, j) == IF j = i THEN q ELSE 0

LEMMA ShareNat ==
    ASSUME NEW x \in Stack, NEW i, NEW b
    PROVE  Share(x, i, b) \in Nat
BY StackFacts DEF Share

(* Counting goes place by place. *)
LEMMA HeldShares ==
    ASSUME NEW st \in [Place -> Stack], NEW i, NEW b
    PROVE  /\ Held(st, i, b) = SumFunctionOnSet(Shares(st, i, b), Place)
           /\ IntOn(Shares(st, i, b), Place)
           /\ Held(st, i, b) \in Nat
<1>. DEFINE f == [p \in Place |-> st[p].quantity]
            g == Shares(st, i, b)
            T == {p \in Place : st[p].item = i /\ st[p].bind \in b}
<1>1. \A p \in Place : f[p] \in Nat /\ g[p] \in Nat
    BY ShareNat, StackFacts DEF Shares
<1>2. \A p \in Place : g[p] = IF p \in T THEN f[p] ELSE 0
    BY DEF Share, Shares
<1>3. T \in SUBSET Place
    OBVIOUS
<1>. HIDE DEF f, g, T
<1>4. IntOn(f, Place) /\ IntOn(g, Place)
    BY <1>1, PlacesFinite DEF IntOn
<1>5. SumFunctionOnSet(g, Place) = SumFunctionOnSet(f, T)
    BY <1>2, <1>3, <1>4, SumMask
<1>6. SumFunctionOnSet(g, Place) \in Nat
    BY <1>1, PlacesFinite, SumNat
<1>. QED
    BY <1>4, <1>5, <1>6 DEF Held, f, g, T

(* A stack table with one place rewritten. *)
Put(st, p, x) == [st EXCEPT ![p] = x]

(* One place changes: the count changes by what the stacks there count for. *)
LEMMA HeldPut ==
    ASSUME NEW st \in [Place -> Stack], NEW p \in Place, NEW x \in Stack, NEW i, NEW b
    PROVE  Held(Put(st, p, x), i, b) = Held(st, i, b) - Share(st[p], i, b) + Share(x, i, b)
<1>. DEFINE st2 == Put(st, p, x)
            f == Shares(st, i, b)
            g == Shares(st2, i, b)
<1>1. st2 \in [Place -> Stack] /\ st2[p] = x /\ \A r \in Place \ {p} : st2[r] = st[r]
    BY DEF Put
<1>. HIDE DEF st2
<1>2. IntOn(f, Place) /\ IntOn(g, Place)
    BY <1>1, HeldShares
<1>3. f[p] = Share(st[p], i, b) /\ g[p] = Share(x, i, b) /\ \A r \in Place \ {p} : g[r] = f[r]
    BY <1>1 DEF Shares
<1>4. g[p] \in Int
    BY <1>3, ShareNat
<1>. HIDE DEF f, g
<1>5. SumFunctionOnSet(g, Place) = SumFunctionOnSet(f, Place) - f[p] + g[p]
    BY <1>2, <1>3, <1>4, SumAt
<1>6. Held(st, i, b) = SumFunctionOnSet(f, Place)
    BY HeldShares DEF f
<1>7. Held(st2, i, b) = SumFunctionOnSet(g, Place)
    BY <1>1, HeldShares DEF g
<1>. QED
    BY <1>3, <1>5, <1>6, <1>7 DEF st2

(* An empty place counts for nothing. *)
LEMMA NoShare ==
    ASSUME NEW i \in Items, NEW b
    PROVE  Share(NoStack, i, b) = 0
BY DEF Share, NoStack

-----------------------------------------------------------------------------
(* One stack added, one taken from.                                        *)
LEMMA PutInFree ==
    ASSUME NEW st \in [Place -> Stack], NEW p \in Place, st[p] = NoStack, NEW x \in Stack, NEW i \in Items, NEW b
    PROVE  Held(Put(st, p, x), i, b) = Held(st, i, b) + Share(x, i, b)
<1>1. Held(Put(st, p, x), i, b) = Held(st, i, b) - Share(st[p], i, b) + Share(x, i, b)
    BY HeldPut
<1>2. Share(st[p], i, b) = 0
    BY NoShare
<1>3. Held(st, i, b) \in Nat /\ Share(x, i, b) \in Nat
    BY HeldShares, ShareNat
<1>. QED
    BY <1>1, <1>2, <1>3

LEMMA AddedCount ==
    ASSUME NEW st \in [Place -> Stack], NEW ge, NEW c \in Holders, NEW l \in Stores,
           NEW i \in Items, NEW q \in Nat \ {0},
           NEW st2 \in AddInventoryItemToStorage(st, ge, c, l, i, q), NEW j \in Items
    PROVE  /\ Held(st2, j, Both) = Held(st, j, Both) + Part(i, q, j)
           /\ Held(st2, j, Free) = Held(st, j, Free)
<1>. DEFINE same == {s \in SlotIndex : /\ st[<<c, l, s>>].item = i
                                       /\ st[<<c, l, s>>].bind = "BOUND"}
<1>0. Held(st, j, Both) \in Nat /\ Held(st, j, Free) \in Nat
    BY HeldShares
<1>1. CASE i \in Stackable /\ same # {}
  <2>. DEFINE p == <<c, l, Min(same)>>
              x == [st[p] EXCEPT !.quantity = @ + q]
  <2>1. st2 = [st EXCEPT ![p].quantity = @ + q]
      BY <1>1 DEF AddInventoryItemToStorage
  <2>2. Min(same) \in same
      BY <1>1, SlotFacts, LeastSlot
  <2>3. p \in Place /\ st[p].item = i /\ st[p].bind = "BOUND"
      BY <2>2, PlaceFacts
  <2>4. st[p] \in StackRow /\ st[p].quantity \in Nat /\ st[p] \in Stack
      BY <2>2, <2>3, StackFacts
  <2>. HIDE DEF p, same
  <2>5. x \in Stack /\ x.item = i /\ x.bind = "BOUND" /\ x.quantity = st[p].quantity + q
      BY <2>3, <2>4 DEF Stack, StackRow
  <2>6. st2 = Put(st, p, x)
      BY <2>1 DEF Put
  <2>. HIDE DEF x
  <2>7. \A b : Held(st2, j, b) = Held(st, j, b) - Share(st[p], j, b) + Share(x, j, b)
      BY <2>3, <2>4, <2>5, <2>6, HeldPut
  <2>8. /\ Share(st[p], j, Free) = 0 /\ Share(x, j, Free) = 0
        /\ Share(x, j, Both) = Share(st[p], j, Both) + Part(i, q, j)
        /\ Share(st[p], j, Both) \in Nat
      BY <2>3, <2>4, <2>5 DEF Share, Free, Both, Part
  <2>9. /\ Held(st2, j, Both) = Held(st, j, Both) - Share(st[p], j, Both) + Share(x, j, Both)
        /\ Held(st2, j, Free) = Held(st, j, Free) - Share(st[p], j, Free) + Share(x, j, Free)
      BY <2>7
  <2>. QED
      BY <1>0, <2>8, <2>9 DEF Part
<1>2. CASE ~(i \in Stackable /\ same # {})
  <2>. DEFINE x == [item |-> i, quantity |-> q, bind |-> "BOUND"]
  <2>1. PICK s \in ResolveStorageSlot(st, ge, c, l, NoSlot) : st2 = [st EXCEPT ![<<c, l, s>>] = x]
      BY <1>2 DEF AddInventoryItemToStorage
  <2>2. x \in Stack
      BY DEF Stack, StackRow
  <2>3. <<c, l, s>> \in Place /\ st[<<c, l, s>>] = NoStack
      BY ResolvedSlot, PlaceFacts DEF StorageSlotFree
  <2>4. Share(x, j, Both) = Part(i, q, j) /\ Share(x, j, Free) = 0
      BY DEF Share, Both, Free, Part
  <2>5. st2 = Put(st, <<c, l, s>>, x)
      BY <2>1 DEF Put
  <2>. HIDE DEF x
  <2>6. \A b : Held(st2, j, b) = Held(st, j, b) + Share(x, j, b)
      BY <2>2, <2>3, <2>5, PutInFree
  <2>7. Held(st2, j, Both) = Held(st, j, Both) + Share(x, j, Both) /\ Held(st2, j, Free) = Held(st, j, Free) + Share(x, j, Free)
      BY <2>6
  <2>. QED
      BY <1>0, <2>4, <2>7 DEF Part
<1>. QED
    BY <1>1, <1>2

LEMMA TakenCount ==
    ASSUME stacks \in [Place -> Stack], NEW p \in Place, NEW q \in Nat, q <= stacks[p].quantity,
           NEW i \in Items, NEW b
    PROVE  /\ Held(TakeFrom(p, q), i, b) =
                  Held(stacks, i, b) - (IF stacks[p].item = i /\ stacks[p].bind \in b THEN q ELSE 0)
           /\ TakeFrom(p, q) \in [Place -> Stack]
<1>. DEFINE x == IF stacks[p].quantity = q THEN NoStack ELSE [stacks[p] EXCEPT !.quantity = @ - q]
            out == IF stacks[p].item = i /\ stacks[p].bind \in b THEN q ELSE 0
<1>1. stacks[p] \in Stack /\ stacks[p].quantity \in Nat
    BY StackFacts
<1>2. x \in Stack /\ Share(x, i, b) = Share(stacks[p], i, b) - out
  <2>1. CASE stacks[p].quantity = q
      BY <1>1, <2>1, NoShare, StackFacts DEF Share
  <2>2. CASE stacks[p].quantity # q
    <3>1. stacks[p] \in StackRow /\ stacks[p] # NoStack
        BY <1>1, <2>2, StackFacts
    <3>2. stacks[p].quantity - q \in Nat \ {0}
        BY <1>1, <2>2
    <3>3. /\ x \in Stack /\ x.item = stacks[p].item /\ x.bind = stacks[p].bind
          /\ x.quantity = stacks[p].quantity - q
        BY <2>2, <3>1, <3>2 DEF Stack, StackRow
    <3>. HIDE DEF x
    <3>. QED
        BY <1>1, <3>3 DEF Share
  <2>. QED
      BY <2>1, <2>2
<1>3. TakeFrom(p, q) = Put(stacks, p, x)
    BY DEF TakeFrom, Put
<1>. HIDE DEF x
<1>4. Held(TakeFrom(p, q), i, b) = Held(stacks, i, b) - Share(stacks[p], i, b) + Share(x, i, b)
    BY <1>1, <1>2, <1>3, HeldPut
<1>5. Held(stacks, i, b) \in Nat /\ Share(stacks[p], i, b) \in Nat /\ out \in Nat
    BY <1>1, HeldShares, ShareNat
<1>6. Held(TakeFrom(p, q), i, b) = Held(stacks, i, b) - out
  <2>. HIDE DEF out
  <2>. QED
      BY <1>2, <1>4, <1>5
<1>. QED
    BY <1>1, <1>2, <1>3, <1>6 DEF Put

-----------------------------------------------------------------------------
(* A storage rewritten slot by slot: the slots below n as in st2.          *)
Swept(st, st2, c, l, n) ==
    [p \in Place |-> IF p[1] = c /\ p[2] = l /\ p[3] < n THEN st2[p] ELSE st[p]]

LEMMA SweptFacts ==
    ASSUME NEW st \in [Place -> Stack], NEW st2 \in [Place -> Stack], NEW c \in Holders, NEW l \in Stores,
           \A p \in Place : ~(p[1] = c /\ p[2] = l) => st2[p] = st[p]
    PROVE  /\ Swept(st, st2, c, l, 0) = st
           /\ Swept(st, st2, c, l, StorageSlots) = st2
           /\ \A i, b : \A n \in SlotIndex :
                  Held(Swept(st, st2, c, l, n + 1), i, b) =
                      Held(Swept(st, st2, c, l, n), i, b)
                          - Share(st[<<c, l, n>>], i, b) + Share(st2[<<c, l, n>>], i, b)
<1>. DEFINE sw(n) == Swept(st, st2, c, l, n)
<1>1. \A p \in Place : p[3] \in Nat /\ p[3] < StorageSlots /\ p = <<p[1], p[2], p[3]>>
  <2>1. \A p \in Place : p[3] \in SlotIndex /\ p = <<p[1], p[2], p[3]>>
      BY DEF Place
  <2>. QED
      BY <2>1, SlotFacts
<1>2. sw(0) = st /\ sw(StorageSlots) = st2
  <2>1. sw(0) = [p \in Place |-> st[p]]
      BY <1>1 DEF Swept
  <2>2. sw(StorageSlots) = [p \in Place |-> st2[p]]
      BY <1>1 DEF Swept
  <2>. QED
      BY <2>1, <2>2
<1>3. ASSUME NEW n \in SlotIndex, NEW i, NEW b
      PROVE  Held(sw(n + 1), i, b) =
                 Held(sw(n), i, b) - Share(st[<<c, l, n>>], i, b) + Share(st2[<<c, l, n>>], i, b)
  <2>. DEFINE p == <<c, l, n>>
  <2>1. p \in Place /\ p[1] = c /\ p[2] = l /\ p[3] = n /\ n \in Nat
      BY PlaceFacts, SlotFacts
  <2>2. sw(n) \in [Place -> Stack] /\ sw(n)[p] = st[p]
      BY <2>1 DEF Swept
  <2>3. ASSUME NEW r \in Place PROVE sw(n + 1)[r] = Put(sw(n), p, st2[p])[r]
    <3>1. r[3] \in Nat /\ r = <<r[1], r[2], r[3]>>
        BY <1>1
    <3>2. CASE r = p
        BY <2>1, <2>2, <3>2 DEF Swept, Put
    <3>3. CASE r # p
      <4>1. ~(r[1] = c /\ r[2] = l /\ r[3] = n)
          BY <3>1, <3>3
      <4>2. r[1] = c /\ r[2] = l => (r[3] < n + 1 <=> r[3] < n)
          BY <2>1, <3>1, <4>1
      <4>. HIDE DEF p
      <4>. QED
          BY <2>2, <3>3, <4>2 DEF Swept, Put
    <3>. QED
        BY <3>2, <3>3
  <2>4. sw(n + 1) = Put(sw(n), p, st2[p])
    <3>1. sw(n + 1) = [r \in Place |-> sw(n + 1)[r]] /\ DOMAIN sw(n) = Place
        BY DEF Swept
    <3>. HIDE DEF sw, p
    <3>. QED
        BY <2>3, <3>1 DEF Put
  <2>5. st2[p] \in Stack
      BY <2>1
  <2>. HIDE DEF sw, p
  <2>6. Held(sw(n + 1), i, b) = Held(sw(n), i, b) - Share(sw(n)[p], i, b) + Share(st2[p], i, b)
      BY <2>1, <2>2, <2>4, <2>5, HeldPut
  <2>. QED
      BY <2>2, <2>6 DEF p
<1>. QED
    BY <1>2, <1>3

(* What holds at slot 0 and goes from slot to slot holds at the end. *)
LEMMA SlotInduction ==
    ASSUME NEW P, 0 \in P, \A n \in SlotIndex : n \in P => n + 1 \in P
    PROVE  StorageSlots \in P
<1>. DEFINE Bad == {n \in 0 .. StorageSlots : n \notin P}
<1>. SUFFICES ASSUME StorageSlots \notin P PROVE FALSE
    OBVIOUS
<1>1. Bad \in SUBSET Nat /\ Bad # {}
    BY CustodyConstants
<1>2. PICK k \in Bad : \A n \in Bad : k <= n
    BY <1>1, LeastNumber
<1>3. k # 0 /\ k \in 0 .. StorageSlots
    BY <1>2
<1>4. k - 1 \in SlotIndex /\ k - 1 \notin Bad
    BY <1>1, <1>2, <1>3, CustodyConstants DEF SlotIndex
<1>5. k - 1 \in P
    BY <1>3, <1>4, CustodyConstants
<1>6. (k - 1) + 1 \in P
    BY <1>4, <1>5
<1>. QED
    BY <1>2, <1>3, <1>6

(* What the slots of T below n hold. *)
Prefix(c, l, T, n) ==
    SumFunctionOnSet([s \in SlotIndex |-> stacks[<<c, l, s>>].quantity], {t \in T : t < n})

LEMMA PrefixFacts ==
    ASSUME stacks \in [Place -> Stack], NEW c \in Holders, NEW l \in Stores, NEW T \in SUBSET SlotIndex
    PROVE  /\ Prefix(c, l, T, 0) = 0
           /\ \A n : Prefix(c, l, T, n) \in Nat
           /\ \A n \in T : Prefix(c, l, T, n + 1) = Prefix(c, l, T, n) + stacks[<<c, l, n>>].quantity
           /\ \A n \in SlotIndex \ T : Prefix(c, l, T, n + 1) = Prefix(c, l, T, n)
           /\ Prefix(c, l, T, StorageSlots) =
                  SumFunctionOnSet([s \in SlotIndex |-> stacks[<<c, l, s>>].quantity], T)
<1>. DEFINE f == [s \in SlotIndex |-> stacks[<<c, l, s>>].quantity]
            S(n) == {t \in T : t < n}
<1>1. \A n : S(n) \in SUBSET SlotIndex
    OBVIOUS
<1>2. ASSUME NEW n PROVE SumFunctionOnSet(f, S(n)) \in Nat /\ IntOn(f, S(n))
  <2>1. SumFunctionOnSet(f, S(n)) \in Nat
      BY <1>1, SlotSumNat
  <2>2. IntOn(f, SlotIndex)
    <3>1. ASSUME NEW s \in SlotIndex PROVE f[s] \in Int
      <4>1. stacks[<<c, l, s>>] \in Stack
          BY PlaceFacts
      <4>. QED
          BY <4>1, StackFacts
    <3>. HIDE DEF f
    <3>. QED
        BY <3>1, SlotFacts DEF IntOn
  <2>. QED
      BY <1>1, <2>1, <2>2, IntOnSubset
<1>3. S(0) = {} /\ S(StorageSlots) = T
  <2>1. \A t \in T : t \in Nat /\ t < StorageSlots
      BY SlotFacts
  <2>. QED
      BY <2>1
<1>4. SumFunctionOnSet(f, S(0)) = 0
    BY <1>3, SumEmpty
<1>5. ASSUME NEW n \in SlotIndex
      PROVE  SumFunctionOnSet(f, S(n + 1)) = SumFunctionOnSet(f, S(n)) + (IF n \in T THEN f[n] ELSE 0)
  <2>1. n \in Nat /\ (\A t \in T : t \in Nat) /\ (\A t \in T : t < n + 1 <=> t < n \/ t = n)
    <3>1. n \in Nat /\ \A t \in T : t \in Nat
        BY SlotFacts
    <3>. QED
        BY <3>1
  <2>2. CASE n \in T
    <3>1. n \in S(n + 1) /\ S(n + 1) \ {n} = S(n)
      <4>1. n \notin S(n) /\ n \in S(n + 1)
          BY <2>1, <2>2
      <4>2. \A t : t \in S(n + 1) \ {n} <=> t \in S(n)
        <5>1. ASSUME NEW t \in T PROVE t < n + 1 <=> t < n \/ t = n
            BY <2>1
        <5>. QED
            BY <4>1, <5>1
      <4>. HIDE DEF S
      <4>. QED
          BY <4>1, <4>2
    <3>. HIDE DEF f, S
    <3>2. SumFunctionOnSet(f, S(n + 1)) = f[n] + SumFunctionOnSet(f, S(n + 1) \ {n})
        BY <1>2, <3>1, SumRemove
    <3>3. f[n] \in Int /\ SumFunctionOnSet(f, S(n)) \in Nat
        BY <1>2, <3>1 DEF IntOn
    <3>4. SumFunctionOnSet(f, S(n + 1)) = f[n] + SumFunctionOnSet(f, S(n))
        BY <3>1, <3>2
    <3>. QED
        BY <2>2, <3>3, <3>4
  <2>3. CASE n \notin T
    <3>1. S(n + 1) = S(n)
        BY <2>1, <2>3
    <3>. HIDE DEF f, S
    <3>. QED
        BY <1>2, <2>3, <3>1
  <2>. QED
      BY <2>2, <2>3
<1>6. \A n \in T : SumFunctionOnSet(f, S(n + 1)) = SumFunctionOnSet(f, S(n)) + f[n]
    BY <1>5
<1>7. \A n \in SlotIndex \ T : SumFunctionOnSet(f, S(n + 1)) = SumFunctionOnSet(f, S(n))
  <2>1. ASSUME NEW n \in SlotIndex \ T PROVE SumFunctionOnSet(f, S(n + 1)) = SumFunctionOnSet(f, S(n))
    <3>1. SumFunctionOnSet(f, S(n)) \in Nat
        BY <1>2
    <3>2. SumFunctionOnSet(f, S(n + 1)) = SumFunctionOnSet(f, S(n)) + 0
        BY <1>5
    <3>. HIDE DEF f, S
    <3>. QED
        BY <3>1, <3>2
  <2>. QED
      BY <2>1
<1>8. \A n \in SlotIndex : f[n] = stacks[<<c, l, n>>].quantity
    OBVIOUS
<1>9. \A n : Prefix(c, l, T, n) = SumFunctionOnSet(f, S(n))
    BY DEF Prefix
<1>. HIDE DEF S
<1>10. Prefix(c, l, T, StorageSlots) = SumFunctionOnSet(f, T)
    BY <1>3, <1>9
<1>11. \A n \in T : n \in SlotIndex
    OBVIOUS
<1>12. /\ Prefix(c, l, T, 0) = 0
       /\ \A n : Prefix(c, l, T, n) \in Nat
  <2>. HIDE DEF f
  <2>. QED
      BY <1>2, <1>4, <1>9
<1>13. /\ \A n \in T : Prefix(c, l, T, n + 1) = Prefix(c, l, T, n) + stacks[<<c, l, n>>].quantity
       /\ \A n \in SlotIndex \ T : Prefix(c, l, T, n + 1) = Prefix(c, l, T, n)
  <2>. HIDE DEF f
  <2>. QED
      BY <1>6, <1>7, <1>8, <1>9, <1>11
<1>. QED
    BY <1>10, <1>12, <1>13

-----------------------------------------------------------------------------
(* consumeBagItem takes what is asked for, no more and no less. *)
LEMMA ConsumedCount ==
    ASSUME stacks \in [Place -> Stack], NEW c \in Holders, NEW i \in Items, NEW q \in Nat,
           NEW st2 \in ConsumeBagItem(c, i, q), NEW j \in Items
    PROVE  /\ Held(st2, j, Both) = Held(stacks, j, Both) - Part(i, q, j)
           /\ Held(st2, j, Free) <= Held(stacks, j, Free)
<1>. DEFINE T == {t \in SlotIndex : stacks[<<c, "BAG", t>>].item = i}
            below(n) == Prefix(c, "BAG", T, n)
            sw(n) == Swept(stacks, st2, c, "BAG", n)
            owed(p) == q - InBagBelow(c, i, p[3])
            left(p) == IF owed(p) <= 0 THEN stacks[p].quantity
                       ELSE stacks[p].quantity - Lesser2(owed(p), stacks[p].quantity)
            out(n) == IF j = i THEN Lesser2(q, below(n)) ELSE 0
            P == {n \in 0 .. StorageSlots :
                     /\ Held(sw(n), j, Both) = Held(stacks, j, Both) - out(n)
                     /\ Held(sw(n), j, Free) <= Held(stacks, j, Free)}
<1>1. /\ InBagBelow(c, i, StorageSlots) >= q
      /\ st2 = [p \in Place |->
                   IF p[1] = c /\ p[2] = "BAG" /\ stacks[p].item = i
                   THEN IF left(p) = 0 THEN NoStack ELSE [stacks[p] EXCEPT !.quantity = left(p)]
                   ELSE stacks[p]]
  <2>1. InBagBelow(c, i, StorageSlots) \in Nat
      BY InBagNat
  <2>. QED
      BY <2>1 DEF ConsumeBagItem
<1>2. st2 \in [Place -> Stack]
    BY ConsumedItem
<1>3. \A n : InBagBelow(c, i, n) = below(n)
  <2>1. \A n : {t \in SlotIndex : t < n /\ stacks[<<c, "BAG", t>>].item = i} = {t \in T : t < n}
      OBVIOUS
  <2>. HIDE DEF T
  <2>. QED
      BY <2>1 DEF InBagBelow, Prefix
<1>4. T \in SUBSET SlotIndex /\ "BAG" \in Stores
    BY StoreFacts
<1>5. \A n : n \in T <=> n \in SlotIndex /\ stacks[<<c, "BAG", n>>].item = i
    OBVIOUS
<1>. HIDE DEF T
<1>6. /\ below(0) = 0 /\ \A n : below(n) \in Nat
      /\ \A n \in T : below(n + 1) = below(n) + stacks[<<c, "BAG", n>>].quantity
      /\ \A n \in SlotIndex \ T : below(n + 1) = below(n)
  <2>1. /\ Prefix(c, "BAG", T, 0) = 0 /\ \A n : Prefix(c, "BAG", T, n) \in Nat
        /\ \A n \in T : Prefix(c, "BAG", T, n + 1) = Prefix(c, "BAG", T, n) + stacks[<<c, "BAG", n>>].quantity
        /\ \A n \in SlotIndex \ T : Prefix(c, "BAG", T, n + 1) = Prefix(c, "BAG", T, n)
      BY <1>4, PrefixFacts
  <2>. QED
      BY <2>1
<1>. HIDE DEF below
<1>7. /\ sw(0) = stacks /\ sw(StorageSlots) = st2
      /\ \A x, b : \A n \in SlotIndex :
            Held(sw(n + 1), x, b) = Held(sw(n), x, b)
                - Share(stacks[<<c, "BAG", n>>], x, b) + Share(st2[<<c, "BAG", n>>], x, b)
  <2>1. \A p \in Place : ~(p[1] = c /\ p[2] = "BAG") => st2[p] = stacks[p]
      BY <1>1
  <2>. QED
      BY <1>2, <1>4, <2>1, SweptFacts
<1>8. \A n : Held(sw(n), j, Both) \in Nat /\ Held(sw(n), j, Free) \in Nat
  <2>1. ASSUME NEW n PROVE sw(n) \in [Place -> Stack]
      BY <1>2 DEF Swept
  <2>. HIDE DEF sw
  <2>. QED
      BY <2>1, HeldShares
<1>. HIDE DEF sw
<1>9. 0 \in P
    BY <1>6, <1>7, <1>8, CustodyConstants DEF Lesser2
<1>10. ASSUME NEW n \in SlotIndex, n \in P PROVE n + 1 \in P
  <2>. DEFINE p == <<c, "BAG", n>>
              x == stacks[p]
              y == st2[p]
  <2>1. p \in Place /\ p[1] = c /\ p[2] = "BAG" /\ p[3] = n /\ n + 1 \in 0 .. StorageSlots
      BY <1>4, PlaceFacts, SlotFacts, CustodyConstants
  <2>2. x \in Stack /\ x.quantity \in Nat
      BY <2>1, StackFacts
  <2>3. /\ Held(sw(n + 1), j, Both) = Held(sw(n), j, Both) - Share(x, j, Both) + Share(y, j, Both)
        /\ Held(sw(n + 1), j, Free) = Held(sw(n), j, Free) - Share(x, j, Free) + Share(y, j, Free)
      BY <1>7
  <2>4. /\ Held(sw(n), j, Both) = Held(stacks, j, Both) - out(n)
        /\ Held(sw(n), j, Free) <= Held(stacks, j, Free)
      BY <1>10
  <2>5. CASE x.item # i
    <3>1. y = x
        BY <1>1, <2>1, <2>5
    <3>2. below(n + 1) = below(n)
        BY <1>6, <1>5, <2>5
    <3>3. Share(x, j, Both) \in Nat /\ Share(x, j, Free) \in Nat
        BY <2>2, ShareNat
    <3>. HIDE DEF x, y
    <3>4. Held(sw(n + 1), j, Both) = Held(sw(n), j, Both) /\ Held(sw(n + 1), j, Free) = Held(sw(n), j, Free)
        BY <1>8, <2>3, <3>1, <3>3
    <3>. QED
        BY <2>1, <2>4, <3>2, <3>4
  <2>6. CASE x.item = i
    <3>. DEFINE rest == left(p)
    <3>1. y = IF rest = 0 THEN NoStack ELSE [x EXCEPT !.quantity = rest]
        BY <1>1, <2>1, <2>6
    <3>2. below(n + 1) = below(n) + x.quantity /\ below(n) \in Nat
        BY <1>6, <1>5, <2>6
    <3>3. rest = IF q - below(n) <= 0 THEN x.quantity ELSE x.quantity - Lesser2(q - below(n), x.quantity)
        BY <1>3, <2>1
    <3>. HIDE DEF rest, x, y, p
    <3>4. rest \in Nat /\ rest <= x.quantity
        BY <2>2, <3>2, <3>3 DEF Lesser2
    <3>5. Lesser2(q, below(n + 1)) = Lesser2(q, below(n)) + x.quantity - rest
        BY <2>2, <3>2, <3>3 DEF Lesser2
    <3>6. x \in StackRow
        BY <2>2, <2>6, StackFacts
    <3>7. \/ y = NoStack /\ rest = 0
          \/ y.bind = x.bind /\ y.quantity = rest /\ y.item = i
        BY <2>6, <3>1, <3>6 DEF StackRow
    <3>8. Share(x, j, Both) = (IF j = i THEN x.quantity ELSE 0)
        BY <2>6, <3>6 DEF Share, Both, StackRow
    <3>9. Share(y, j, Both) = (IF j = i THEN rest ELSE 0) /\ Share(y, j, Free) <= Share(x, j, Free)
      <4>1. CASE y = NoStack
        <5>1. rest = 0
          <6>1. NoStack.item # i
              BY StackFacts, CustodyConstants
          <6>. QED
              BY <3>7, <4>1, <6>1
        <5>2. Share(y, j, Both) = 0 /\ Share(y, j, Free) = 0 /\ Share(x, j, Free) \in Nat
            BY <2>2, <4>1, NoShare, ShareNat
        <5>. QED
            BY <5>1, <5>2
      <4>2. CASE y # NoStack
        <5>1. y.bind = x.bind /\ y.quantity = rest /\ y.item = i /\ x.bind \in Both
            BY <3>6, <3>7, <4>2 DEF StackRow, Both
        <5>. QED
            BY <2>2, <2>6, <3>4, <5>1 DEF Share
      <4>. QED
          BY <4>1, <4>2
    <3>10. /\ Share(x, j, Free) \in Nat /\ Share(y, j, Free) \in Nat /\ Lesser2(q, below(n)) \in Nat
           /\ Held(stacks, j, Free) \in Nat /\ Held(stacks, j, Both) \in Nat
      <4>1. y \in Stack
          BY <1>2, <2>1 DEF y
      <4>2. Lesser2(q, below(n)) \in Nat
          BY <3>2 DEF Lesser2
      <4>. QED
          BY <2>2, <4>1, <4>2, ShareNat, HeldShares
    <3>11. Held(sw(n + 1), j, Free) <= Held(stacks, j, Free)
        BY <1>8, <2>3, <2>4, <3>9, <3>10
    <3>12. Held(sw(n + 1), j, Both) = Held(stacks, j, Both) - out(n + 1)
      <4>1. CASE j = i
          BY <1>8, <2>2, <2>3, <2>4, <3>4, <3>5, <3>8, <3>9, <3>10, <4>1
      <4>2. CASE j # i
          BY <1>8, <2>3, <2>4, <3>8, <3>9, <3>10, <4>2
      <4>. QED
          BY <4>1, <4>2
    <3>. QED
        BY <2>1, <3>11, <3>12
  <2>. QED
      BY <2>5, <2>6
<1>. HIDE DEF P
<1>11. StorageSlots \in P
    BY <1>9, <1>10, SlotInduction
<1>12. Lesser2(q, below(StorageSlots)) = q
    BY <1>1, <1>3, <1>6 DEF Lesser2
<1>. QED
    BY <1>7, <1>11, <1>12 DEF P, Part

-----------------------------------------------------------------------------
(* organizeStorage keeps what every item and bind type of the storage has. *)
StackCount(c, l, k) == GroupStacks(c, l, k[1], k[2])
Start(c, l, k) == StacksBefore(c, l, k[1], k[2])
Total(c, l, k) == GroupTotal(c, l, k[1], k[2])
GroupBefore(k) == {j \in Groups : j[1] < k[1] \/ (j[1] = k[1] /\ j[2] < k[2])}

LEMMA GroupNumbers ==
    \A k \in Groups : k[1] \in Nat /\ k[2] \in Nat /\ k = <<k[1], k[2]>>
<1>1. \A k \in Groups : k[1] \in Items /\ k[2] \in {1, 2} /\ k = <<k[1], k[2]>>
    BY DEF Groups
<1>2. {1, 2} \subseteq Nat /\ Items \subseteq Nat
    BY CustodyConstants
<1>. QED
    BY <1>1, <1>2, Zenon

(* The stacks of a group lie before those of a later one. *)
LEMMA GroupsApart ==
    ASSUME stacks \in [Place -> Stack], NEW c \in Holders, NEW l \in Stores,
           NEW j \in Groups, NEW k \in Groups, j # k
    PROVE  \/ Start(c, l, j) + StackCount(c, l, j) <= Start(c, l, k)
           \/ Start(c, l, k) + StackCount(c, l, k) <= Start(c, l, j)
<1>1. ASSUME NEW g \in Groups, NEW h \in Groups, g \in GroupBefore(h)
      PROVE  Start(c, l, g) + StackCount(c, l, g) <= Start(c, l, h)
  <2>1. /\ g[1] \in Nat /\ h[1] \in Nat /\ g[2] \in Nat /\ h[2] \in Nat
        /\ \A x \in Groups : x[1] \in Nat /\ x[2] \in Nat
      BY GroupNumbers
  <2>2. GroupBefore(g) \in SUBSET GroupBefore(h) /\ g \in GroupBefore(h) \ GroupBefore(g)
      BY <1>1, <2>1 DEF GroupBefore
  <2>3. GroupBefore(g) \in SUBSET Groups /\ GroupBefore(h) \in SUBSET Groups
      BY DEF GroupBefore
  <2>4. StacksOf(c, l, GroupBefore(g)) + GroupStacks(c, l, g[1], g[2]) <= StacksOf(c, l, GroupBefore(h))
      BY <2>2, <2>3, StacksOfFacts
  <2>. QED
      BY <2>4 DEF Start, StackCount, StacksBefore, GroupBefore
<1>2. j \in GroupBefore(k) \/ k \in GroupBefore(j)
  <2>1. j = <<j[1], j[2]>> /\ k = <<k[1], k[2]>>
      BY DEF Groups
  <2>2. j[1] \in Nat /\ j[2] \in Nat /\ k[1] \in Nat /\ k[2] \in Nat
      BY GroupNumbers
  <2>3. j[1] # k[1] \/ j[2] # k[2]
      BY <2>1
  <2>. QED
      BY <2>2, <2>3 DEF GroupBefore
<1>. QED
    BY <1>1, <1>2

(* A slot within a group's stacks holds one of them; no other slot does. *)
LEMMA MergedShare ==
    ASSUME stacks \in [Place -> Stack], NEW c \in Holders, NEW l \in Stores, NEW s \in SlotIndex,
           NEW k \in Groups
    PROVE  LET nth == s - Start(c, l, k) IN
           Share(MergedStack(c, l, s), k[1], {Binds[k[2]]}) =
               IF 0 <= nth /\ nth < StackCount(c, l, k)
               THEN Lesser2(MaxStack(k[1]), Total(c, l, k) - nth * MaxStack(k[1])) ELSE 0
<1>. DEFINE mine == {j \in Groups : /\ StacksBefore(c, l, j[1], j[2]) <= s
                                    /\ s < StacksBefore(c, l, j[1], j[2]) + GroupStacks(c, l, j[1], j[2])}
            nth(j) == s - Start(c, l, j)
            amount(j) == Lesser2(MaxStack(j[1]), Total(c, l, j) - nth(j) * MaxStack(j[1]))
            g == CHOOSE x \in mine : TRUE
<1>1. s \in Nat /\ \A j \in Groups : Start(c, l, j) \in Nat /\ StackCount(c, l, j) \in Nat
  <2>1. ASSUME NEW j \in Groups PROVE Start(c, l, j) \in Nat
    <3>1. GroupBefore(j) \in SUBSET Groups
        BY DEF GroupBefore
    <3>2. StacksOf(c, l, GroupBefore(j)) \in Nat
        BY <3>1, StacksOfFacts
    <3>. QED
        BY <3>2 DEF Start, StacksBefore, GroupBefore
  <2>. QED
      BY <2>1, SlotFacts, GroupFacts DEF StackCount
<1>2. \A j \in Groups : j \in mine <=> 0 <= nth(j) /\ nth(j) < StackCount(c, l, j)
  <2>1. \A j \in Groups : j \in mine <=> Start(c, l, j) <= s /\ s < Start(c, l, j) + StackCount(c, l, j)
      BY DEF Start, StackCount
  <2>. HIDE DEF mine
  <2>. QED
      BY <1>1, <2>1
<1>3. mine = {} => MergedStack(c, l, s) = NoStack
    BY DEF MergedStack
<1>4. mine # {} => /\ g \in mine
                   /\ MergedStack(c, l, s) = [item |-> g[1], bind |-> Binds[g[2]], quantity |-> amount(g)]
    BY DEF MergedStack, Start, Total
<1>5. mine \in SUBSET Groups
    OBVIOUS
<1>6. \A j \in mine : j = g
  <2>1. ASSUME NEW j \in mine, j # g PROVE FALSE
    <3>1. g \in mine /\ g \in Groups /\ j \in Groups
        BY <1>4, <1>5
    <3>. HIDE DEF mine, g
    <3>2. /\ 0 <= s - Start(c, l, j) /\ s - Start(c, l, j) < StackCount(c, l, j)
          /\ 0 <= s - Start(c, l, g) /\ s - Start(c, l, g) < StackCount(c, l, g)
        BY <1>2, <2>1, <3>1
    <3>3. \/ Start(c, l, j) + StackCount(c, l, j) <= Start(c, l, g)
          \/ Start(c, l, g) + StackCount(c, l, g) <= Start(c, l, j)
        BY <2>1, <3>1, GroupsApart
    <3>. QED
        BY <1>1, <3>1, <3>2, <3>3
  <2>. QED
      BY <2>1
<1>. HIDE DEF mine, g
<1>7. k[1] \in Items /\ k[2] \in {1, 2} /\ k = <<k[1], k[2]>>
    BY DEF Groups
<1>8. CASE k \in mine
  <2>1. MergedStack(c, l, s) = [item |-> k[1], bind |-> Binds[k[2]], quantity |-> amount(k)]
      BY <1>4, <1>6, <1>8
  <2>2. Share(MergedStack(c, l, s), k[1], {Binds[k[2]]}) = amount(k)
    <3>. HIDE DEF amount
    <3>. QED
        BY <2>1 DEF Share
  <2>. QED
      BY <1>2, <1>8, <2>2
<1>9. CASE k \notin mine
  <2>1. Share(MergedStack(c, l, s), k[1], {Binds[k[2]]}) = 0
    <3>1. CASE mine = {}
        BY <1>3, <1>7, <3>1, NoShare
    <3>2. CASE mine # {}
      <4>1. g \in Groups /\ g # k
          BY <1>4, <1>5, <1>9, <3>2
      <4>2. g[2] \in {1, 2} /\ g = <<g[1], g[2]>>
          BY <4>1 DEF Groups
      <4>3. g[1] # k[1] \/ Binds[g[2]] # Binds[k[2]]
          BY <1>7, <4>1, <4>2 DEF Binds
      <4>. HIDE DEF amount
      <4>4. MergedStack(c, l, s).item = g[1] /\ MergedStack(c, l, s).bind = Binds[g[2]]
          BY <1>4, <3>2
      <4>. QED
          BY <4>3, <4>4 DEF Share
    <3>. QED
        BY <3>1, <3>2
  <2>. QED
      BY <1>2, <1>9, <2>1
<1>. QED
    BY <1>8, <1>9

(* What the stacks of group k in the slots below n hold. *)
Filled(c, l, k, n) ==
    IF n <= Start(c, l, k) THEN 0
    ELSE Lesser2(Total(c, l, k), (n - Start(c, l, k)) * MaxStack(k[1]))

LEMMA FilledFacts ==
    ASSUME stacks \in [Place -> Stack], NEW c \in Holders, NEW l \in Stores, NEW k \in Groups,
           StacksOf(c, l, Groups) <= StorageLimit
    PROVE  /\ Filled(c, l, k, 0) = 0
           /\ \A n \in Nat : Filled(c, l, k, n) \in Nat
           /\ \A n \in SlotIndex :
                  Filled(c, l, k, n + 1) = Filled(c, l, k, n) + Share(MergedStack(c, l, n), k[1], {Binds[k[2]]})
           /\ Filled(c, l, k, StorageSlots) = Total(c, l, k)
<1>. DEFINE a == Start(c, l, k)
            m == MaxStack(k[1])
            t == Total(c, l, k)
            z == StackCount(c, l, k)
            F(n) == IF n <= a THEN 0 ELSE Lesser2(t, (n - a) * m)
            sh(n) == Share(MergedStack(c, l, n), k[1], {Binds[k[2]]})
<1>1. a \in Nat /\ a + z <= StacksOf(c, l, Groups) /\ StacksOf(c, l, Groups) \in Nat
  <2>1. GroupBefore(k) \in SUBSET Groups /\ Groups \in SUBSET Groups /\ k \in Groups \ GroupBefore(k)
    <3>1. k[1] \in Nat /\ k[2] \in Nat
        BY GroupNumbers
    <3>. QED
        BY <3>1 DEF GroupBefore
  <2>2. /\ StacksOf(c, l, GroupBefore(k)) \in Nat /\ StacksOf(c, l, Groups) \in Nat
        /\ StacksOf(c, l, GroupBefore(k)) + GroupStacks(c, l, k[1], k[2]) <= StacksOf(c, l, Groups)
      BY <2>1, StacksOfFacts
  <2>. QED
      BY <2>2 DEF Start, StackCount, StacksBefore, GroupBefore
<1>2. m \in Nat \ {0} /\ t \in Nat /\ z \in Nat /\ (\A n \in 0 .. z - 1 : n * m < t) /\ t <= z * m
  <2>1. m \in Nat \ {0} /\ t \in Nat
      BY GroupFacts DEF Total
  <2>2. z = (t + m - 1) \div m
      BY DEF StackCount, GroupStacks, Total
  <2>. HIDE DEF m, t, z
  <2>. QED
      BY <2>1, <2>2, Division
<1>3. ASSUME NEW n \in SlotIndex
      PROVE  sh(n) = IF 0 <= n - a /\ n - a < z THEN Lesser2(m, t - (n - a) * m) ELSE 0
    BY MergedShare
<1>4. a + z <= StorageSlots /\ StorageSlots \in Nat
  <2>1. StorageLimit <= StorageSlots /\ StorageLimit \in Nat /\ StorageSlots \in Nat
      BY CustodyConstants
  <2>. HIDE DEF a, z
  <2>. QED
      BY <1>1, <1>2, <2>1
<1>. HIDE DEF a, m, t, z, sh
<1>5. ASSUME NEW x \in Nat, NEW y \in Nat, x <= y PROVE x * m <= y * m
    BY <1>2, <1>5
<1>6. ASSUME NEW n \in Nat, n >= a + z, n > a PROVE F(n) = t
  <2>1. z * m <= (n - a) * m
      BY <1>1, <1>2, <1>5, <1>6
  <2>2. (n - a) * m \in Nat /\ z * m \in Nat
      BY <1>1, <1>2, <1>6
  <2>3. t <= (n - a) * m
    <3>. DEFINE u == (n - a) * m
                v == z * m
    <3>. HIDE DEF u, v
    <3>1. t <= v /\ v <= u /\ t \in Nat /\ v \in Nat /\ u \in Nat
        BY <1>2, <2>1, <2>2 DEF u, v
    <3>2. t <= u
        BY <3>1
    <3>. QED
        BY <3>2 DEF u
  <2>. QED
      BY <1>1, <1>2, <1>6, <2>2, <2>3 DEF Lesser2
<1>7. ASSUME NEW n \in SlotIndex PROVE F(n + 1) = F(n) + sh(n)
  <2>1. n \in Nat
      BY SlotFacts
  <2>2. CASE n < a
    <3>1. sh(n) = 0 /\ n + 1 <= a /\ n <= a
        BY <1>1, <1>3, <2>1, <2>2
    <3>. QED
        BY <3>1
  <2>3. CASE a <= n /\ n < a + z
    <3>. DEFINE u == (n - a) * m
    <3>1. n - a \in 0 .. z - 1 /\ n - a \in Nat
        BY <1>1, <1>2, <2>1, <2>3
    <3>2. u \in Nat /\ u < t
        BY <1>2, <3>1
    <3>3. ((n + 1) - a) * m = u + m
        BY <1>1, <1>2, <2>1
    <3>4. n = a => u = 0
        BY <1>1, <1>2
    <3>5. sh(n) = Lesser2(m, t - u)
        BY <1>1, <1>2, <1>3, <2>1, <2>3
    <3>. HIDE DEF u
    <3>6. F(n + 1) = Lesser2(t, u + m)
        BY <1>1, <2>1, <2>3, <3>3
    <3>7. F(n) = u
      <4>1. CASE n = a
          BY <1>1, <3>4, <4>1
      <4>2. CASE n # a
        <5>1. F(n) = Lesser2(t, u)
            BY <1>1, <2>1, <2>3, <4>2 DEF u
        <5>. QED
            BY <1>2, <3>2, <5>1 DEF Lesser2
      <4>. QED
          BY <4>1, <4>2
    <3>. HIDE DEF F
    <3>. QED
        BY <1>2, <3>2, <3>5, <3>6, <3>7 DEF Lesser2
  <2>4. CASE a + z <= n
    <3>1. sh(n) = 0
        BY <1>1, <1>2, <1>3, <2>1, <2>4
    <3>2. F(n + 1) = t
      <4>1. n + 1 \in Nat /\ n + 1 >= a + z /\ n + 1 > a
          BY <1>1, <1>2, <2>1, <2>4
      <4>. HIDE DEF F
      <4>. QED
          BY <1>6, <4>1
    <3>3. F(n) = t
      <4>1. CASE n > a
          BY <1>6, <2>1, <2>4, <4>1
      <4>2. CASE ~(n > a)
        <5>1. z = 0 /\ n <= a
            BY <1>1, <1>2, <2>1, <2>4, <4>2
        <5>2. t = 0
            BY <1>2, <5>1
        <5>. QED
            BY <5>1, <5>2
      <4>. QED
          BY <4>1, <4>2
    <3>. HIDE DEF F
    <3>. QED
        BY <1>2, <3>1, <3>2, <3>3
  <2>. QED
      BY <1>1, <1>2, <2>1, <2>2, <2>3, <2>4
<1>8. F(StorageSlots) = t
  <2>1. CASE StorageSlots > a
      BY <1>4, <1>6, <2>1
  <2>2. CASE ~(StorageSlots > a)
    <3>1. z = 0 /\ StorageSlots <= a
        BY <1>1, <1>2, <1>4, <2>2
    <3>2. t = 0
        BY <1>2, <3>1
    <3>. QED
        BY <3>1, <3>2
  <2>. QED
      BY <2>1, <2>2
<1>9. F(0) = 0
    BY <1>1
<1>10. ASSUME NEW n \in Nat PROVE F(n) \in Nat
  <2>1. CASE n <= a
      BY <2>1
  <2>2. CASE ~(n <= a)
    <3>1. n - a \in Nat
        BY <1>1, <2>2
    <3>2. (n - a) * m \in Nat
        BY <1>2, <3>1
    <3>. QED
        BY <1>2, <2>2, <3>2 DEF Lesser2
  <2>. QED
      BY <2>1, <2>2
<1>11. \A n : Filled(c, l, k, n) = F(n)
    BY DEF Filled, a, m, t
<1>. HIDE DEF F
<1>. QED
    BY <1>7, <1>8, <1>9, <1>10, <1>11 DEF sh, t

LEMMA OrganizedGroup ==
    ASSUME stacks \in [Place -> Stack], NEW c \in Holders, NEW l \in Stores, NEW k \in Groups,
           StacksOf(c, l, Groups) <= StorageLimit, NEW st2 \in [Place -> Stack],
           \A p \in Place : st2[p] = IF p[1] = c /\ p[2] = l THEN MergedStack(c, l, p[3]) ELSE stacks[p]
    PROVE  Held(st2, k[1], {Binds[k[2]]}) = Held(stacks, k[1], {Binds[k[2]]})
<1>. DEFINE i == k[1]
            b == {Binds[k[2]]}
            T == {t \in SlotIndex : stacks[<<c, l, t>>].item = k[1] /\ stacks[<<c, l, t>>].bind = Binds[k[2]]}
            sw(n) == Swept(stacks, st2, c, l, n)
            P == {n \in 0 .. StorageSlots :
                     Held(sw(n), i, b) = Held(stacks, i, b) - Prefix(c, l, T, n) + Filled(c, l, k, n)}
<1>1. /\ sw(0) = stacks /\ sw(StorageSlots) = st2
      /\ \A n \in SlotIndex :
            Held(sw(n + 1), i, b) = Held(sw(n), i, b)
                - Share(stacks[<<c, l, n>>], i, b) + Share(st2[<<c, l, n>>], i, b)
  <2>1. \A p \in Place : ~(p[1] = c /\ p[2] = l) => st2[p] = stacks[p]
      OBVIOUS
  <2>. QED
      BY <2>1, SweptFacts
<1>2. \A n : Held(sw(n), i, b) \in Nat
  <2>1. ASSUME NEW n PROVE sw(n) \in [Place -> Stack]
      BY DEF Swept
  <2>. HIDE DEF sw
  <2>. QED
      BY <2>1, HeldShares
<1>3. Held(stacks, i, b) \in Nat
    BY HeldShares
<1>4. T \in SUBSET SlotIndex
    OBVIOUS
<1>5. \A n \in SlotIndex : Share(stacks[<<c, l, n>>], i, b) =
                               IF n \in T THEN stacks[<<c, l, n>>].quantity ELSE 0
    BY DEF Share
<1>6. Total(c, l, k) = SumFunctionOnSet([s \in SlotIndex |-> stacks[<<c, l, s>>].quantity], T)
    BY DEF Total, GroupTotal
<1>. HIDE DEF T
<1>7. /\ Prefix(c, l, T, 0) = 0 /\ \A n : Prefix(c, l, T, n) \in Nat
      /\ \A n \in T : Prefix(c, l, T, n + 1) = Prefix(c, l, T, n) + stacks[<<c, l, n>>].quantity
      /\ \A n \in SlotIndex \ T : Prefix(c, l, T, n + 1) = Prefix(c, l, T, n)
      /\ Prefix(c, l, T, StorageSlots) = SumFunctionOnSet([s \in SlotIndex |-> stacks[<<c, l, s>>].quantity], T)
    BY <1>4, PrefixFacts
<1>8. /\ Filled(c, l, k, 0) = 0 /\ Filled(c, l, k, StorageSlots) = Total(c, l, k)
      /\ \A n \in Nat : Filled(c, l, k, n) \in Nat
      /\ \A n \in SlotIndex :
            Filled(c, l, k, n + 1) = Filled(c, l, k, n) + Share(MergedStack(c, l, n), i, b)
    BY FilledFacts
<1>. HIDE DEF sw
<1>9. 0 \in P
    BY <1>1, <1>3, <1>7, <1>8, CustodyConstants
<1>10. ASSUME NEW n \in SlotIndex, n \in P PROVE n + 1 \in P
  <2>. DEFINE x == stacks[<<c, l, n>>]
              y == MergedStack(c, l, n)
  <2>1. n \in Nat /\ n + 1 \in 0 .. StorageSlots
      BY SlotFacts, CustodyConstants
  <2>2. x \in Stack /\ x.quantity \in Nat /\ y \in Stack
      BY PlaceFacts, StackFacts, MergedSlot
  <2>3. st2[<<c, l, n>>] = y
      BY PlaceFacts
  <2>4. Share(x, i, b) \in Nat /\ Share(y, i, b) \in Nat
      BY <2>2, ShareNat
  <2>5. Prefix(c, l, T, n + 1) = Prefix(c, l, T, n) + Share(x, i, b)
    <3>1. CASE n \in T
        BY <1>5, <1>7, <3>1
    <3>2. CASE n \notin T
      <4>1. Share(x, i, b) = 0
          BY <1>5, <3>2
      <4>2. Prefix(c, l, T, n + 1) = Prefix(c, l, T, n) /\ Prefix(c, l, T, n) \in Nat
          BY <1>7, <3>2
      <4>. QED
          BY <4>1, <4>2
    <3>. QED
        BY <3>1, <3>2
  <2>6. Held(sw(n + 1), i, b) = Held(sw(n), i, b) - Share(x, i, b) + Share(y, i, b)
      BY <1>1, <2>3
  <2>7. Held(sw(n), i, b) = Held(stacks, i, b) - Prefix(c, l, T, n) + Filled(c, l, k, n)
      BY <1>10
  <2>8. Filled(c, l, k, n + 1) = Filled(c, l, k, n) + Share(y, i, b) /\ Filled(c, l, k, n) \in Nat
      BY <1>8, <2>1
  <2>9. Prefix(c, l, T, n) \in Nat
      BY <1>7
  <2>. HIDE DEF x, y, i, b
  <2>10. Held(sw(n + 1), i, b) = Held(stacks, i, b) - Prefix(c, l, T, n + 1) + Filled(c, l, k, n + 1)
      BY <1>2, <1>3, <2>4, <2>5, <2>6, <2>7, <2>8, <2>9
  <2>. QED
      BY <2>1, <2>10
<1>. HIDE DEF P
<1>11. StorageSlots \in P
    BY <1>9, <1>10, SlotInduction
<1>12. Held(st2, i, b) = Held(stacks, i, b) - Total(c, l, k) + Total(c, l, k)
    BY <1>1, <1>6, <1>7, <1>8, <1>11 DEF P
<1>13. Total(c, l, k) \in Nat
    BY <1>6, <1>7
<1>. QED
    BY <1>3, <1>12, <1>13

(* Bound and unbound make up the whole. *)
LEMMA BothHeld ==
    ASSUME NEW st \in [Place -> Stack], NEW i
    PROVE  Held(st, i, Both) = Held(st, i, {"BOUND"}) + Held(st, i, {"UNBOUND"})
<1>1. ASSUME NEW p \in Place
      PROVE  Shares(st, i, Both)[p] = Shares(st, i, {"BOUND"})[p] + Shares(st, i, {"UNBOUND"})[p]
  <2>1. st[p] \in Stack /\ st[p].quantity \in Nat
      BY StackFacts
  <2>. QED
      BY <2>1 DEF Shares, Share, Both
<1>2. /\ Held(st, i, Both) = SumFunctionOnSet(Shares(st, i, Both), Place)
      /\ Held(st, i, {"BOUND"}) = SumFunctionOnSet(Shares(st, i, {"BOUND"}), Place)
      /\ Held(st, i, {"UNBOUND"}) = SumFunctionOnSet(Shares(st, i, {"UNBOUND"}), Place)
      /\ IntOn(Shares(st, i, {"BOUND"}), Place) /\ IntOn(Shares(st, i, {"UNBOUND"}), Place)
    BY HeldShares
<1>. QED
    BY <1>1, <1>2, SumPlus

LEMMA OrganizedCount ==
    ASSUME stacks \in [Place -> Stack], stacks' \in [Place -> Stack],
           NEW c \in Holders, NEW l \in Stores, OrganizeStorage(c, l), NEW i \in Items
    PROVE  Held(stacks', i, Both) = Held(stacks, i, Both) /\ Held(stacks', i, Free) = Held(stacks, i, Free)
<1>. DEFINE st2 == stacks'
<1>1. \A p \in Place : stacks'[p] = IF p[1] = c /\ p[2] = l THEN MergedStack(c, l, p[3]) ELSE stacks[p]
    BY DEF OrganizeStorage
<1>2. StacksOf(c, l, Groups) <= StorageLimit
  <2>. DEFINE inside == {g \in Gear : gear[g].holder = c /\ gear[g].loc = EquipmentStorageLocation(l)}
  <2>1. StacksOf(c, l, Groups) + Cardinality(inside) <= StorageLimit
      BY DEF OrganizeStorage
  <2>2. Cardinality(inside) \in Nat
      BY CustodyConstants, FS_Subset, FS_CardinalityType
  <2>3. Groups \in SUBSET Groups
      OBVIOUS
  <2>4. StacksOf(c, l, Groups) \in Nat
      BY <2>3, StacksOfFacts
  <2>. HIDE DEF inside
  <2>. QED
      BY <2>1, <2>2, <2>4, CustodyConstants
<1>3. <<i, 1>> \in Groups /\ <<i, 2>> \in Groups
    BY DEF Groups
<1>4. Held(st2, i, {Binds[1]}) = Held(stacks, i, {Binds[1]}) /\ Held(st2, i, {Binds[2]}) = Held(stacks, i, {Binds[2]})
  <2>1. ASSUME NEW k \in Groups PROVE Held(st2, k[1], {Binds[k[2]]}) = Held(stacks, k[1], {Binds[k[2]]})
      BY <1>1, <1>2, OrganizedGroup
  <2>2. <<i, 1>>[1] = i /\ <<i, 1>>[2] = 1 /\ <<i, 2>>[1] = i /\ <<i, 2>>[2] = 2
      OBVIOUS
  <2>3. Held(st2, <<i, 1>>[1], {Binds[<<i, 1>>[2]]}) = Held(stacks, <<i, 1>>[1], {Binds[<<i, 1>>[2]]})
      BY <1>3, <2>1, Zenon
  <2>4. Held(st2, <<i, 2>>[1], {Binds[<<i, 2>>[2]]}) = Held(stacks, <<i, 2>>[1], {Binds[<<i, 2>>[2]]})
      BY <1>3, <2>1, Zenon
  <2>. QED
      BY <2>2, <2>3, <2>4
<1>5. Binds[1] = "BOUND" /\ Binds[2] = "UNBOUND"
    BY DEF Binds
<1>. QED
    BY <1>4, <1>5, BothHeld DEF Free

-----------------------------------------------------------------------------
(* Listings. *)
Offered(li, i) ==
    SumFunctionOnSet([k \in DOMAIN li |-> li[k].stack.quantity],
                     {k \in DOMAIN li : li[k].status = "LISTED" /\ li[k].stack.item = i})

Offer(x, i) == IF x.status = "LISTED" /\ x.stack.item = i THEN x.stack.quantity ELSE 0
OffersOf(li, i) == [k \in 1 .. MaxListings |-> Offer(li[k], i)]

LEMMA OfferNat ==
    ASSUME NEW x \in Listing, NEW i
    PROVE  Offer(x, i) \in Nat /\ x.stack.quantity \in Nat
<1>1. x.stack \in Stack
    BY DEF Listing
<1>. QED
    BY <1>1, StackFacts DEF Offer

LEMMA OfferedShares ==
    ASSUME NEW li \in [1 .. MaxListings -> Listing], NEW i
    PROVE  /\ Offered(li, i) = SumFunctionOnSet(OffersOf(li, i), 1 .. MaxListings)
           /\ IntOn(OffersOf(li, i), 1 .. MaxListings)
           /\ Offered(li, i) \in Nat
<1>. DEFINE S == 1 .. MaxListings
            f == [k \in DOMAIN li |-> li[k].stack.quantity]
            g == OffersOf(li, i)
            T == {k \in DOMAIN li : li[k].status = "LISTED" /\ li[k].stack.item = i}
<1>1. DOMAIN li = S
    OBVIOUS
<1>2. \A k \in S : f[k] \in Nat /\ g[k] \in Nat
    BY <1>1, OfferNat DEF OffersOf
<1>3. \A k \in S : g[k] = IF k \in T THEN f[k] ELSE 0
    BY <1>1 DEF Offer, OffersOf
<1>4. T \in SUBSET S
    BY <1>1
<1>5. IsFiniteSet(S)
    BY CustodyConstants, FS_Interval
<1>. HIDE DEF f, g, T, S
<1>6. IntOn(f, S) /\ IntOn(g, S)
    BY <1>2, <1>5 DEF IntOn
<1>7. SumFunctionOnSet(g, S) = SumFunctionOnSet(f, T)
    BY <1>3, <1>4, <1>6, SumMask
<1>8. SumFunctionOnSet(g, S) \in Nat
    BY <1>2, <1>5, SumNat
<1>. QED
    BY <1>6, <1>7, <1>8 DEF Offered, f, g, T, S

LEMMA OfferedPut ==
    ASSUME NEW li \in [1 .. MaxListings -> Listing], NEW k \in 1 .. MaxListings, NEW x \in Listing, NEW i
    PROVE  Offered(Put(li, k, x), i) = Offered(li, i) - Offer(li[k], i) + Offer(x, i)
<1>. DEFINE li2 == Put(li, k, x)
            f == OffersOf(li, i)
            g == OffersOf(li2, i)
            S == 1 .. MaxListings
<1>1. li2 \in [S -> Listing] /\ li2[k] = x /\ \A j \in S \ {k} : li2[j] = li[j]
    BY DEF Put
<1>. HIDE DEF li2
<1>2. IntOn(f, S) /\ IntOn(g, S)
    BY <1>1, OfferedShares
<1>3. f[k] = Offer(li[k], i) /\ g[k] = Offer(x, i) /\ \A j \in S \ {k} : g[j] = f[j]
    BY <1>1 DEF OffersOf
<1>4. g[k] \in Int
    BY <1>3, OfferNat
<1>5. k \in S
    OBVIOUS
<1>. HIDE DEF f, g, S
<1>6. SumFunctionOnSet(g, S) = SumFunctionOnSet(f, S) - f[k] + g[k]
  <2>1. ASSUME NEW y \in S, g[y] \in Int, \A j \in S \ {y} : g[j] = f[j]
        PROVE  SumFunctionOnSet(g, S) = SumFunctionOnSet(f, S) - f[y] + g[y]
      BY <1>2, <2>1, SumAt
  <2>. QED
      BY <1>3, <1>4, <1>5, <2>1
<1>7. Offered(li, i) = SumFunctionOnSet(f, S)
    BY OfferedShares DEF f, S
<1>8. Offered(li2, i) = SumFunctionOnSet(g, S)
    BY <1>1, OfferedShares DEF g, S
<1>. QED
    BY <1>3, <1>6, <1>7, <1>8 DEF li2

-----------------------------------------------------------------------------
(* Loot trays. *)
RowCount(row, i) == IF row.item = i THEN row.quantity ELSE 0
RowCounts(rows, i) == [k \in DOMAIN rows |-> RowCount(rows[k], i)]

LEMMA RowNat ==
    ASSUME NEW row \in TrayRow, NEW i
    PROVE  RowCount(row, i) \in Nat /\ row.quantity \in Nat
BY DEF RowCount, TrayRow

LEMMA RowShares ==
    ASSUME NEW rows \in Seq(TrayRow), NEW i
    PROVE  /\ InRows(rows, i) = SumFunctionOnSet(RowCounts(rows, i), DOMAIN rows)
           /\ IntOn(RowCounts(rows, i), DOMAIN rows)
           /\ InRows(rows, i) \in Nat
<1>. DEFINE S == DOMAIN rows
            f == [k \in DOMAIN rows |-> rows[k].quantity]
            g == RowCounts(rows, i)
            T == {k \in DOMAIN rows : rows[k].item = i}
<1>1. S = 1 .. Len(rows) /\ Len(rows) \in Nat /\ \A k \in S : rows[k] \in TrayRow
    OBVIOUS
<1>2. \A k \in S : f[k] \in Nat /\ g[k] \in Nat
    BY <1>1, RowNat DEF RowCounts
<1>3. \A k \in S : g[k] = IF k \in T THEN f[k] ELSE 0
    BY DEF RowCount, RowCounts
<1>4. T \in SUBSET S
    OBVIOUS
<1>5. IsFiniteSet(S)
    BY <1>1, FS_Interval
<1>. HIDE DEF f, g, T, S
<1>6. IntOn(f, S) /\ IntOn(g, S)
    BY <1>2, <1>5 DEF IntOn
<1>7. SumFunctionOnSet(g, S) = SumFunctionOnSet(f, T)
    BY <1>3, <1>4, <1>6, SumMask
<1>8. SumFunctionOnSet(g, S) \in Nat
    BY <1>2, <1>5, SumNat
<1>. QED
    BY <1>6, <1>7, <1>8 DEF InRows, f, g, T, S

LEMMA RowsAppend ==
    ASSUME NEW rows \in Seq(TrayRow), NEW row \in TrayRow, NEW i
    PROVE  InRows(Append(rows, row), i) = InRows(rows, i) + RowCount(row, i)
<1>. DEFINE more == Append(rows, row)
            n == Len(rows) + 1
            f == RowCounts(rows, i)
            g == RowCounts(more, i)
            S == DOMAIN rows
<1>1. /\ more \in Seq(TrayRow) /\ DOMAIN more = S \cup {n} /\ n \notin S
      /\ more[n] = row /\ \A j \in S : more[j] = rows[j]
    OBVIOUS
<1>. HIDE DEF more, n
<1>2. g[n] = RowCount(row, i) /\ \A j \in S : g[j] = f[j]
    BY <1>1 DEF RowCounts
<1>3. /\ InRows(more, i) = SumFunctionOnSet(g, DOMAIN more) /\ IntOn(g, DOMAIN more)
      /\ InRows(rows, i) = SumFunctionOnSet(f, S) /\ IntOn(f, S) /\ InRows(rows, i) \in Nat
    BY <1>1, RowShares
<1>. HIDE DEF f, g, S
<1>4. SumFunctionOnSet(g, DOMAIN more) = g[n] + SumFunctionOnSet(g, S)
  <2>1. (DOMAIN more) \ {n} = S /\ n \in DOMAIN more
      BY <1>1
  <2>. QED
      BY <1>3, <2>1, SumRemove
<1>5. SumFunctionOnSet(g, S) = SumFunctionOnSet(f, S)
    BY <1>2, <1>3, SumSame
<1>6. RowCount(row, i) \in Nat
    BY RowNat
<1>. QED
    BY <1>2, <1>3, <1>4, <1>5, <1>6 DEF more

LEMMA RowsRemoved ==
    ASSUME NEW rows \in Seq(TrayRow), NEW k \in DOMAIN rows, NEW i
    PROVE  InRows(RemoveAt(rows, k), i) = InRows(rows, i) - RowCount(rows[k], i)
<1>. DEFINE less == RemoveAt(rows, k)
            S == 1 .. Len(rows) - 1
            T == DOMAIN rows \ {k}
            b == [j \in S |-> IF j < k THEN j ELSE j + 1]
            f == RowCounts(less, i)
            g == RowCounts(rows, i)
<1>1. k \in 1 .. Len(rows) /\ Len(rows) \in Nat /\ DOMAIN rows = 1 .. Len(rows)
    OBVIOUS
<1>2. less \in Seq(TrayRow) /\ DOMAIN less = S /\ \A j \in S : less[j] = rows[IF j < k THEN j ELSE j + 1]
  <2>1. less \in Seq(TrayRow) /\ Len(less) = Len(rows) - 1 /\ \A j \in S : less[j] = rows[IF j < k THEN j ELSE j + 1]
      BY <1>1, Removed
  <2>. HIDE DEF less
  <2>. QED
      BY <2>1
<1>3. \A x, y \in S : b[x] = b[y] => x = y
    BY <1>1
<1>4. \A x \in S : b[x] \in T
    BY <1>1
<1>5. ASSUME NEW y \in T PROVE \E x \in S : y = b[x]
  <2>1. y \in Nat /\ k \in Nat /\ y # k /\ y >= 1 /\ y <= Len(rows)
      BY <1>1
  <2>2. CASE y < k
    <3>1. y \in S /\ b[y] = y
        BY <1>1, <2>1, <2>2
    <3>. QED
        BY <3>1
  <2>3. CASE y > k
    <3>1. y - 1 \in S /\ b[y - 1] = y
        BY <1>1, <2>1, <2>3
    <3>. QED
        BY <3>1
  <2>. QED
      BY <2>1, <2>2, <2>3
<1>. HIDE DEF less
<1>6. ASSUME NEW x \in S PROVE g[b[x]] = f[x]
  <2>1. b[x] \in DOMAIN rows /\ less[x] = rows[b[x]]
      BY <1>2, <1>4
  <2>. HIDE DEF b, S
  <2>. QED
      BY <1>2, <2>1 DEF RowCounts
<1>7. /\ InRows(less, i) = SumFunctionOnSet(f, S) /\ IntOn(f, S) /\ InRows(less, i) \in Nat
      /\ InRows(rows, i) = SumFunctionOnSet(g, DOMAIN rows) /\ IntOn(g, DOMAIN rows)
    BY <1>2, RowShares
<1>8. g[k] = RowCount(rows[k], i) /\ g[k] \in Nat
    BY <1>1, RowNat DEF RowCounts
<1>. HIDE DEF b, S, f, g
<1>9. SumFunctionOnSet(g, T) = SumFunctionOnSet(f, S)
  <2>. HIDE DEF T
  <2>. QED
      BY <1>3, <1>4, <1>5, <1>6, <1>7, SumRename
<1>10. SumFunctionOnSet(g, DOMAIN rows) = g[k] + SumFunctionOnSet(g, T)
    BY <1>7, SumRemove
<1>. QED
    BY <1>7, <1>8, <1>9, <1>10 DEF less

LEMMA RowsPut ==
    ASSUME NEW rows \in Seq(TrayRow), NEW k \in DOMAIN rows, NEW row \in TrayRow, NEW i
    PROVE  InRows(Put(rows, k, row), i) = InRows(rows, i) - RowCount(rows[k], i) + RowCount(row, i)
<1>. DEFINE less == Put(rows, k, row)
            f == RowCounts(rows, i)
            g == RowCounts(less, i)
            S == DOMAIN rows
<1>1. less \in Seq(TrayRow) /\ DOMAIN less = S /\ less[k] = row /\ \A j \in S \ {k} : less[j] = rows[j]
    BY DEF Put
<1>. HIDE DEF less
<1>2. /\ InRows(less, i) = SumFunctionOnSet(g, S) /\ IntOn(g, S)
      /\ InRows(rows, i) = SumFunctionOnSet(f, S) /\ IntOn(f, S)
    BY <1>1, RowShares
<1>3. f[k] = RowCount(rows[k], i) /\ g[k] = RowCount(row, i) /\ \A j \in S \ {k} : g[j] = f[j]
    BY <1>1 DEF RowCounts
<1>4. g[k] \in Int
    BY <1>3, RowNat
<1>5. k \in S
    OBVIOUS
<1>. HIDE DEF f, g, S
<1>6. SumFunctionOnSet(g, S) = SumFunctionOnSet(f, S) - f[k] + g[k]
    BY <1>2, <1>3, <1>4, <1>5, SumAt
<1>. QED
    BY <1>2, <1>3, <1>6 DEF less

(* All trays together. *)
TrayCounts(tr, i) == [c \in Holders |-> InRows(tr[c], i)]
Pending(tr, i) == SumFunctionOnSet(TrayCounts(tr, i), Holders)

LEMMA PendingFacts ==
    ASSUME NEW tr \in [Holders -> Seq(TrayRow)], NEW i
    PROVE  IntOn(TrayCounts(tr, i), Holders) /\ Pending(tr, i) \in Nat
<1>1. \A c \in Holders : TrayCounts(tr, i)[c] \in Nat
    BY RowShares DEF TrayCounts
<1>. QED
    BY <1>1, CustodyConstants, SumNat DEF IntOn, Pending

LEMMA PendingPut ==
    ASSUME NEW tr \in [Holders -> Seq(TrayRow)], NEW c \in Holders, NEW rows \in Seq(TrayRow), NEW i
    PROVE  Pending(Put(tr, c, rows), i) = Pending(tr, i) - InRows(tr[c], i) + InRows(rows, i)
<1>. DEFINE tr2 == Put(tr, c, rows)
            f == TrayCounts(tr, i)
            g == TrayCounts(tr2, i)
<1>1. tr2 \in [Holders -> Seq(TrayRow)] /\ tr2[c] = rows /\ \A d \in Holders \ {c} : tr2[d] = tr[d]
    BY DEF Put
<1>. HIDE DEF tr2
<1>2. IntOn(f, Holders)
    BY PendingFacts
<1>3. f[c] = InRows(tr[c], i) /\ g[c] = InRows(rows, i) /\ \A d \in Holders \ {c} : g[d] = f[d]
    BY <1>1 DEF TrayCounts
<1>4. g[c] \in Int
    BY <1>3, RowShares
<1>. HIDE DEF f, g
<1>5. SumFunctionOnSet(g, Holders) = SumFunctionOnSet(f, Holders) - f[c] + g[c]
    BY <1>2, <1>3, <1>4, SumAt
<1>. QED
    BY <1>3, <1>5 DEF Pending, tr2, f, g

-----------------------------------------------------------------------------
(* Claims.  What the bag gets is what the rows lose.                       *)
LEMMA ClaimOutcome ==
    ASSUME NEW c \in Holders, NEW tx, ClaimInv(tx, c), NEW k \in DOMAIN tx.tray, NEW q \in Nat
    PROVE  LET row == tx.tray[k]
               amount == Wanted(q, row.quantity)
               t == ClaimLootRow(tx, c, k, q)
           IN  \/ t.stacks = tx.stacks /\ t.tray = tx.tray
               \/ t.stacks = tx.stacks /\ t.tray = RemoveAt(tx.tray, k) /\ row.gear # 0
               \/ /\ row.gear = 0 /\ amount \in Nat \ {0} /\ amount <= row.quantity
                  /\ t.stacks \in AddInventoryItemToStorage(tx.stacks, tx.gear, c, "BAG", row.item, amount)
                  /\ \/ amount = row.quantity /\ t.tray = RemoveAt(tx.tray, k)
                     \/ amount # row.quantity /\ t.tray = [tx.tray EXCEPT ![k].quantity = @ - amount]
<1>. DEFINE row == tx.tray[k]
            g == row.gear
            amount == Wanted(q, row.quantity)
            slots == ResolveStorageSlot(tx.stacks, tx.gear, c, "BAG", NoSlot)
            added == AddInventoryItemToStorage(tx.stacks, tx.gear, c, "BAG", row.item, amount)
            t == ClaimLootRow(tx, c, k, q)
<1>1. row \in TrayRow /\ tx \in ClaimTx /\ tx.tray \in Seq(TrayRow)
    BY DEF ClaimInv, RowsInv
<1>2. row.quantity \in Nat \ {0} /\ (g # 0 => g \in Gear)
    BY <1>1 DEF TrayRow
<1>3. amount \in Nat \ {0}
    BY <1>2 DEF Wanted
<1>. HIDE DEF amount
<1>4. CASE \/ g # 0 /\ (slots = {} \/ tx.gear[g].loc # "IN_LOOT_TRAY")
           \/ g = 0 /\ (amount > row.quantity \/ added = {})
  <2>1. t = [tx EXCEPT !.ok = FALSE]
      BY <1>4 DEF ClaimLootRow, amount
  <2>2. t.stacks = tx.stacks /\ t.tray = tx.tray
      BY <1>1, <2>1 DEF ClaimTx
  <2>. QED
      BY <2>2
<1>5. CASE g # 0 /\ ~(slots = {} \/ tx.gear[g].loc # "IN_LOOT_TRAY")
  <2>. DEFINE s == Min(slots)
  <2>1. t = [tx EXCEPT !.gear[g].loc = "IN_BAG", !.gear[g].slot = s, !.tray = RemoveAt(@, k)]
      BY <1>5 DEF ClaimLootRow
  <2>. HIDE DEF s
  <2>2. t.stacks = tx.stacks /\ t.tray = RemoveAt(tx.tray, k)
      BY <1>1, <2>1 DEF ClaimTx
  <2>. QED
      BY <1>5, <2>2
<1>6. CASE g = 0 /\ ~(amount > row.quantity \/ added = {})
  <2>. DEFINE st == CHOOSE x \in added : TRUE
              rows == IF amount = tx.tray[k].quantity THEN RemoveAt(tx.tray, k)
                      ELSE [tx.tray EXCEPT ![k].quantity = @ - amount]
  <2>1. st \in added
      BY <1>6
  <2>2. t = [tx EXCEPT !.stacks = st, !.tray = rows]
      BY <1>6 DEF ClaimLootRow, amount
  <2>. HIDE DEF st, rows
  <2>3. t.stacks = st /\ t.tray = rows
      BY <1>1, <2>2 DEF ClaimTx
  <2>4. amount <= row.quantity
      BY <1>2, <1>3, <1>6
  <2>. QED
      BY <1>3, <1>6, <2>1, <2>3, <2>4 DEF amount, rows
<1>. QED
    BY <1>4, <1>5, <1>6

LEMMA ClaimedCount ==
    ASSUME NEW c \in Holders, NEW tx, ClaimInv(tx, c), NEW k \in DOMAIN tx.tray, NEW q \in Nat, NEW i \in Items
    PROVE  LET t == ClaimLootRow(tx, c, k, q) IN
           /\ Held(t.stacks, i, Both) + InRows(t.tray, i) = Held(tx.stacks, i, Both) + InRows(tx.tray, i)
           /\ Held(t.stacks, i, Free) = Held(tx.stacks, i, Free)
<1>. DEFINE row == tx.tray[k]
            t == ClaimLootRow(tx, c, k, q)
            amount == Wanted(q, row.quantity)
<1>1. row \in TrayRow /\ tx.tray \in Seq(TrayRow) /\ tx.stacks \in [Place -> Stack]
    BY DEF ClaimInv, RowsInv, SlotsInv
<1>2. Held(tx.stacks, i, Both) \in Nat /\ Held(tx.stacks, i, Free) \in Nat /\ InRows(tx.tray, i) \in Nat
    BY <1>1, HeldShares, RowShares
<1>3. InRows(RemoveAt(tx.tray, k), i) = InRows(tx.tray, i) - RowCount(row, i)
    BY <1>1, RowsRemoved
<1>4. i # 0 /\ (row.gear = 0 => row \in [gear : {0}, item : Items, quantity : Nat \ {0}])
    BY <1>1, CustodyConstants DEF TrayRow
<1>5. CASE t.stacks = tx.stacks /\ t.tray = tx.tray
    BY <1>5
<1>6. CASE t.stacks = tx.stacks /\ t.tray = RemoveAt(tx.tray, k) /\ row.gear # 0
  <2>1. row.item = 0
      BY <1>1, <1>6 DEF TrayRow
  <2>2. RowCount(row, i) = 0
      BY <1>4, <2>1 DEF RowCount
  <2>. HIDE DEF t, row
  <2>. QED
      BY <1>2, <1>3, <1>6, <2>2 DEF t
<1>7. CASE /\ row.gear = 0 /\ amount \in Nat \ {0} /\ amount <= row.quantity
           /\ t.stacks \in AddInventoryItemToStorage(tx.stacks, tx.gear, c, "BAG", row.item, amount)
           /\ \/ amount = row.quantity /\ t.tray = RemoveAt(tx.tray, k)
              \/ amount # row.quantity /\ t.tray = [tx.tray EXCEPT ![k].quantity = @ - amount]
  <2>. HIDE DEF amount, t
  <2>1. row.item \in Items /\ row.quantity \in Nat \ {0}
      BY <1>4, <1>7
  <2>2. /\ Held(t.stacks, i, Both) = Held(tx.stacks, i, Both) + Part(row.item, amount, i)
        /\ Held(t.stacks, i, Free) = Held(tx.stacks, i, Free)
    <3>. HIDE DEF row
    <3>1. "BAG" \in Stores
        BY StoreFacts
    <3>. QED
        BY <1>1, <1>7, <2>1, <3>1, AddedCount
  <2>3. RowCount(row, i) = IF row.item = i THEN row.quantity ELSE 0
      BY DEF RowCount
  <2>4. InRows(t.tray, i) = InRows(tx.tray, i) - Part(row.item, amount, i)
    <3>1. CASE amount = row.quantity
        BY <1>2, <1>3, <1>7, <2>1, <2>3, <3>1 DEF Part
    <3>2. CASE amount # row.quantity
      <4>. DEFINE x == [row EXCEPT !.quantity = row.quantity - amount]
      <4>1. row.quantity - amount \in Nat \ {0}
          BY <1>7, <2>1, <3>2
      <4>2. x \in TrayRow /\ x.item = row.item /\ x.quantity = row.quantity - amount
          BY <1>4, <1>7, <4>1 DEF TrayRow
      <4>3. t.tray = Put(tx.tray, k, x)
          BY <1>7, <3>2 DEF Put
      <4>. HIDE DEF x
      <4>4. InRows(t.tray, i) = InRows(tx.tray, i) - RowCount(row, i) + RowCount(x, i)
          BY <1>1, <4>2, <4>3, RowsPut
      <4>5. RowCount(x, i) = IF row.item = i THEN row.quantity - amount ELSE 0
          BY <4>2 DEF RowCount
      <4>. HIDE DEF row
      <4>. QED
          BY <1>2, <1>7, <2>1, <2>3, <4>4, <4>5 DEF Part
    <3>. QED
        BY <3>1, <3>2
  <2>. HIDE DEF row
  <2>. QED
      BY <1>2, <1>7, <2>2, <2>4 DEF t, Part
<1>8. \/ t.stacks = tx.stacks /\ t.tray = tx.tray
      \/ t.stacks = tx.stacks /\ t.tray = RemoveAt(tx.tray, k) /\ row.gear # 0
      \/ /\ row.gear = 0 /\ amount \in Nat \ {0} /\ amount <= row.quantity
         /\ t.stacks \in AddInventoryItemToStorage(tx.stacks, tx.gear, c, "BAG", row.item, amount)
         /\ \/ amount = row.quantity /\ t.tray = RemoveAt(tx.tray, k)
            \/ amount # row.quantity /\ t.tray = [tx.tray EXCEPT ![k].quantity = @ - amount]
    BY ClaimOutcome
<1>. QED
    BY <1>5, <1>6, <1>7, <1>8

LEMMA AllClaimedCount ==
    ASSUME NEW c \in Holders, ClaimInv(LootTx(c), c), NEW i \in Items
    PROVE  LET tx == ClaimedRows(c)[Len(tray[c])] IN
           /\ Held(tx.stacks, i, Both) + InRows(tx.tray, i) = Held(stacks, i, Both) + InRows(tray[c], i)
           /\ Held(tx.stacks, i, Free) = Held(stacks, i, Free)
<1>. DEFINE all == ClaimedRows(c)
            m == Len(tray[c])
            Good(n) == /\ Held(all[n].stacks, i, Both) + InRows(all[n].tray, i)
                             = Held(stacks, i, Both) + InRows(tray[c], i)
                       /\ Held(all[n].stacks, i, Free) = Held(stacks, i, Free)
            Bad == {n \in 0 .. m : ~Good(n)}
<1>1. /\ m \in Nat
      /\ \A n \in 0 .. m : ClaimInv(all[n], c) /\ (all[n].ok => Len(all[n].tray) = m - n)
    BY AllClaimed
<1>2. \A n \in 0 .. m : all[n] = NextClaim(c, all, n)
    BY <1>1, ClaimedRowsFacts
<1>. HIDE DEF all
<1>3. Good(0)
  <2>1. all[0] = LootTx(c)
      BY <1>1, <1>2 DEF NextClaim
  <2>. QED
      BY <2>1 DEF LootTx
<1>4. ASSUME NEW n \in 0 .. m, n # 0, Good(n - 1) PROVE Good(n)
  <2>. DEFINE tx == all[n - 1]
  <2>1. all[n] = IF tx.ok THEN ClaimLootRow(tx, c, 1, 0) ELSE tx
      BY <1>2, <1>4 DEF NextClaim
  <2>2. tx \in ClaimTx /\ ClaimInv(tx, c) /\ (tx.ok => Len(tx.tray) = m - (n - 1))
    <3>1. n - 1 \in 0 .. m
        BY <1>1, <1>4
    <3>. QED
        BY <1>1, <3>1 DEF ClaimInv
  <2>3. CASE tx.ok
    <3>1. Len(tx.tray) = m - (n - 1) /\ tx.tray \in Seq(TrayRow)
        BY <2>2, <2>3 DEF ClaimTx
    <3>2. 1 \in DOMAIN tx.tray
        BY <1>1, <1>4, <3>1
    <3>. DEFINE t == ClaimLootRow(tx, c, 1, 0)
    <3>. HIDE DEF tx
    <3>3. /\ Held(t.stacks, i, Both) + InRows(t.tray, i) = Held(tx.stacks, i, Both) + InRows(tx.tray, i)
          /\ Held(t.stacks, i, Free) = Held(tx.stacks, i, Free)
        BY <2>2, <3>2, ClaimedCount
    <3>4. all[n] = t
        BY <2>1, <2>3
    <3>. HIDE DEF t
    <3>5. /\ Held(tx.stacks, i, Both) + InRows(tx.tray, i) = Held(stacks, i, Both) + InRows(tray[c], i)
          /\ Held(tx.stacks, i, Free) = Held(stacks, i, Free)
        BY <1>4 DEF tx
    <3>. QED
        BY <3>3, <3>4, <3>5
  <2>4. CASE ~tx.ok
      BY <1>4, <2>1, <2>4
  <2>. QED
      BY <2>3, <2>4
<1>. HIDE DEF Good
<1>5. Bad = {}
  <2>. SUFFICES ASSUME Bad # {} PROVE FALSE
      OBVIOUS
  <2>0. Bad \in SUBSET Nat
      BY <1>1
  <2>1. PICK k \in Bad : \A n \in Bad : k <= n
      BY <2>0, LeastNumber
  <2>2. k # 0 /\ k \in 0 .. m
      BY <1>3
  <2>3. k - 1 \in 0 .. m /\ k - 1 \notin Bad
      BY <1>1, <2>1, <2>2
  <2>. QED
      BY <1>4, <2>1, <2>2, <2>3
<1>6. Good(m)
    BY <1>1, <1>5
<1>. QED
    BY <1>6 DEF Good, all

-----------------------------------------------------------------------------
(* Steps.  What stacks, listings and trays hold together of an item, and   *)
(* what of it can be traded.                                               *)
Counted(st, li, tr, i) == Held(st, i, Both) + Offered(li, i) + Pending(tr, i)
Tradable(st, li, i) == Held(st, i, Free) + Offered(li, i)

(* A listing of a piece offers no stack with it. *)
PlainOffers(li) == \A k \in 1 .. MaxListings : li[k].gear # 0 => li[k].stack = NoStack

CountInv ==
    /\ CustodyIInv
    /\ PlainOffers(listings)
    /\ granted \in [Items -> Nat] /\ gone \in [Items -> Nat]

Kept ==
    /\ granted' \in [Items -> Nat] /\ gone' \in [Items -> Nat]
    /\ \A i \in Items :
           /\ Counted(stacks', listings', tray', i) + gone'[i] + granted[i] =
                  Counted(stacks, listings, tray, i) + gone[i] + granted'[i]
           /\ Tradable(stacks', listings', i) <= Tradable(stacks, listings, i)

LEMMA CountNat ==
    ASSUME CustodyIInv
    PROVE  /\ stacks \in [Place -> Stack] /\ listings \in [1 .. MaxListings -> Listing]
           /\ tray \in [Holders -> Seq(TrayRow)]
           /\ \A i, b : Held(stacks, i, b) \in Nat
           /\ \A i : Offered(listings, i) \in Nat /\ Pending(tray, i) \in Nat
<1>1. /\ stacks \in [Place -> Stack] /\ listings \in [1 .. MaxListings -> Listing]
      /\ tray \in [Holders -> Seq(TrayRow)]
    BY DEF CustodyIInv, SlotsInv, ListedInv, TraysInv
<1>. QED
    BY <1>1, HeldShares, OfferedShares, PendingFacts

LEMMA StacksNat ==
    ASSUME CustodyIInv'
    PROVE  /\ stacks' \in [Place -> Stack]
           /\ \A i, b : Held(stacks', i, b) \in Nat
<1>1. stacks' \in [Place -> Stack]
    BY DEF CustodyIInv, SlotsInv
<1>. QED
    BY <1>1, HeldShares

(* Only stacks change. *)
LEMMA StacksKept ==
    ASSUME CountInv, CustodyIInv', UNCHANGED <<tray, listings>>,
           granted' \in [Items -> Nat], gone' \in [Items -> Nat],
           \A i \in Items : /\ Held(stacks', i, Both) + gone'[i] + granted[i] =
                                   Held(stacks, i, Both) + gone[i] + granted'[i]
                            /\ Held(stacks', i, Free) <= Held(stacks, i, Free)
    PROVE  Kept
<1>1. ASSUME NEW i \in Items
      PROVE  /\ Counted(stacks', listings', tray', i) + gone'[i] + granted[i] =
                    Counted(stacks, listings, tray, i) + gone[i] + granted'[i]
             /\ Tradable(stacks', listings', i) <= Tradable(stacks, listings, i)
  <2>1. /\ Held(stacks, i, Both) \in Nat /\ Held(stacks, i, Free) \in Nat
        /\ Offered(listings, i) \in Nat /\ Pending(tray, i) \in Nat
      BY CountNat DEF CountInv
  <2>2. Held(stacks', i, Both) \in Nat /\ Held(stacks', i, Free) \in Nat
      BY StacksNat
  <2>3. granted[i] \in Nat /\ gone[i] \in Nat /\ granted'[i] \in Nat /\ gone'[i] \in Nat
      BY DEF CountInv
  <2>4. /\ Held(stacks', i, Both) + gone'[i] + granted[i] = Held(stacks, i, Both) + gone[i] + granted'[i]
        /\ Held(stacks', i, Free) <= Held(stacks, i, Free)
      OBVIOUS
  <2>5. listings' = listings /\ tray' = tray
      OBVIOUS
  <2>. QED
      BY <2>1, <2>2, <2>3, <2>4, <2>5 DEF Counted, Tradable
<1>. QED
    BY <1>1 DEF Kept

LEMMA NothingMoves ==
    ASSUME CountInv, CustodyIInv', UNCHANGED <<stacks, tray, listings, granted, gone>>
    PROVE  Kept
<1>1. \A i \in Items : /\ Held(stacks', i, Both) + gone'[i] + granted[i] =
                              Held(stacks, i, Both) + gone[i] + granted'[i]
                       /\ Held(stacks', i, Free) <= Held(stacks, i, Free)
  <2>1. ASSUME NEW i \in Items
        PROVE  /\ Held(stacks', i, Both) = Held(stacks, i, Both) /\ Held(stacks', i, Free) = Held(stacks, i, Free)
               /\ granted'[i] = granted[i] /\ gone'[i] = gone[i]
      OBVIOUS
  <2>2. ASSUME NEW i \in Items
        PROVE  /\ Held(stacks, i, Both) \in Nat /\ Held(stacks, i, Free) \in Nat
               /\ granted[i] \in Nat /\ gone[i] \in Nat
      BY CountNat DEF CountInv
  <2>. QED
      BY <2>1, <2>2
<1>2. granted' \in [Items -> Nat] /\ gone' \in [Items -> Nat]
    BY DEF CountInv
<1>. QED
    BY <1>1, <1>2, StacksKept

(* A history entry grows. *)
Add(h, i, q) == [h EXCEPT ![i] = @ + q]

LEMMA Booked ==
    ASSUME NEW h \in [Items -> Nat], NEW i \in Items, NEW q \in Nat
    PROVE  Add(h, i, q) \in [Items -> Nat] /\ \A j \in Items : Add(h, i, q)[j] = h[j] + Part(i, q, j)
BY DEF Part, Add

LEMMA ApplyItemToBagKept ==
    ASSUME CountInv, CustodyIInv', NEW c \in Holders, NEW i \in Items, NEW q \in Quantities,
           ApplyItemToBag(c, i, q)
    PROVE  Kept
<1>1. /\ stacks' \in AddInventoryItemToStorage(stacks, gear, c, "BAG", i, q)
      /\ granted' = [granted EXCEPT ![i] = @ + q] /\ gone' = gone
      /\ UNCHANGED <<tray, listings>>
    BY DEF ApplyItemToBag, market
<1>2. q \in Nat \ {0} /\ "BAG" \in Stores
    BY CustodyConstants, StoreFacts
<1>3. granted \in [Items -> Nat] /\ gone \in [Items -> Nat] /\ stacks \in [Place -> Stack]
    BY CountNat DEF CountInv
<1>4. granted' \in [Items -> Nat] /\ \A j \in Items : granted'[j] = granted[j] + Part(i, q, j)
  <2>1. granted' = Add(granted, i, q)
      BY <1>1 DEF Add
  <2>. QED
      BY <1>2, <1>3, <2>1, Booked
<1>5. ASSUME NEW j \in Items
      PROVE  /\ Held(stacks', j, Both) + gone'[j] + granted[j] = Held(stacks, j, Both) + gone[j] + granted'[j]
             /\ Held(stacks', j, Free) <= Held(stacks, j, Free)
  <2>1. /\ Held(stacks', j, Both) = Held(stacks, j, Both) + Part(i, q, j)
        /\ Held(stacks', j, Free) = Held(stacks, j, Free)
      BY <1>1, <1>2, <1>3, AddedCount
  <2>2. Held(stacks, j, Both) \in Nat /\ Held(stacks, j, Free) \in Nat
      BY CountNat DEF CountInv
  <2>3. granted[j] \in Nat /\ gone[j] \in Nat /\ Part(i, q, j) \in Nat
      BY <1>2, <1>3 DEF Part
  <2>. QED
      BY <1>1, <1>4, <2>1, <2>2, <2>3
<1>. QED
    BY <1>1, <1>3, <1>4, <1>5, StacksKept

(* The bag gives what an operation consumes. *)
LEMMA ConsumptionKept ==
    ASSUME CountInv, CustodyIInv', NEW c \in Holders, NEW i \in Items, NEW q \in Nat,
           stacks' \in ConsumeBagItem(c, i, q), gone' = [gone EXCEPT ![i] = @ + q],
           UNCHANGED <<granted, tray, listings>>
    PROVE  Kept
<1>1. granted \in [Items -> Nat] /\ gone \in [Items -> Nat] /\ stacks \in [Place -> Stack]
    BY CountNat DEF CountInv
<1>2. gone' \in [Items -> Nat] /\ \A j \in Items : gone'[j] = gone[j] + Part(i, q, j)
  <2>1. gone' = Add(gone, i, q)
      BY DEF Add
  <2>2. Add(gone, i, q) \in [Items -> Nat] /\ \A j \in Items : Add(gone, i, q)[j] = gone[j] + Part(i, q, j)
      BY <1>1, Booked
  <2>. QED
      BY <2>1, <2>2
<1>3. ASSUME NEW j \in Items
      PROVE  /\ Held(stacks', j, Both) + gone'[j] + granted[j] = Held(stacks, j, Both) + gone[j] + granted'[j]
             /\ Held(stacks', j, Free) <= Held(stacks, j, Free)
  <2>1. /\ Held(stacks', j, Both) = Held(stacks, j, Both) - Part(i, q, j)
        /\ Held(stacks', j, Free) <= Held(stacks, j, Free)
      BY <1>1, ConsumedCount
  <2>2. Held(stacks, j, Both) \in Nat
      BY CountNat DEF CountInv
  <2>3. granted[j] \in Nat /\ gone[j] \in Nat /\ Part(i, q, j) \in Nat
      BY <1>1 DEF Part
  <2>. QED
      BY <1>2, <2>1, <2>2, <2>3
<1>. QED
    BY <1>1, <1>2, <1>3, StacksKept

LEMMA SynthesizeKept ==
    ASSUME CountInv, CustodyIInv', NEW c \in Holders, NEW i \in Items, NEW g, Synthesize(c, i, g)
    PROVE  Kept
<1>1. PICK st \in ConsumeBagItem(c, i, RecipeCost) : stacks' = st
    BY DEF Synthesize, GearToBag
<1>2. gone' = [gone EXCEPT ![i] = @ + RecipeCost] /\ UNCHANGED <<granted, tray, listings>>
    BY DEF Synthesize, market
<1>3. RecipeCost \in Nat
    BY CustodyConstants
<1>. QED
    BY <1>1, <1>2, <1>3, ConsumptionKept

LEMMA EquipmentEnhanceKept ==
    ASSUME CountInv, CustodyIInv', NEW c \in Holders, NEW i \in Items, NEW g, EquipmentEnhance(c, g, i)
    PROVE  Kept
<1>1. /\ stacks' \in ConsumeBagItem(c, i, EnhanceStones) /\ gone' = [gone EXCEPT ![i] = @ + EnhanceStones]
      /\ UNCHANGED <<granted, tray, listings>>
    BY DEF EquipmentEnhance, market
<1>2. EnhanceStones \in Nat
    BY CustodyConstants
<1>. QED
    BY <1>1, <1>2, ConsumptionKept

LEMMA OrganizeStorageKept ==
    ASSUME CountInv, CustodyIInv', NEW c \in Holders, NEW l \in Stores, OrganizeStorage(c, l)
    PROVE  Kept
<1>1. UNCHANGED <<tray, listings, granted, gone>>
    BY DEF OrganizeStorage, market
<1>2. stacks \in [Place -> Stack] /\ stacks' \in [Place -> Stack]
    BY CountNat, StacksNat DEF CountInv
<1>3. ASSUME NEW i \in Items
      PROVE  /\ Held(stacks', i, Both) + gone'[i] + granted[i] = Held(stacks, i, Both) + gone[i] + granted'[i]
             /\ Held(stacks', i, Free) <= Held(stacks, i, Free)
  <2>1. Held(stacks', i, Both) = Held(stacks, i, Both) /\ Held(stacks', i, Free) = Held(stacks, i, Free)
      BY <1>2, OrganizedCount
  <2>2. Held(stacks, i, Both) \in Nat /\ Held(stacks, i, Free) \in Nat /\ granted[i] \in Nat /\ gone[i] \in Nat
      BY CountNat DEF CountInv
  <2>. QED
      BY <1>1, <2>1, <2>2
<1>. QED
    BY <1>1, <1>3, StacksKept DEF CountInv

LEMMA InventoryDiscardKept ==
    ASSUME CountInv, CustodyIInv', NEW c \in Holders, NEW s \in SlotIndex, NEW q \in Quantities \cup {0},
           InventoryDiscard(c, s, q)
    PROVE  Kept
<1>. DEFINE p == <<c, "BAG", s>>
            row == stacks[p]
            amount == Wanted(q, row.quantity)
<1>1. /\ row # NoStack /\ amount <= row.quantity /\ stacks' = TakeFrom(p, amount)
      /\ gone' = [gone EXCEPT ![row.item] = @ + amount] /\ UNCHANGED <<granted, tray, listings>>
    BY DEF InventoryDiscard, market
<1>2. p \in Place /\ stacks \in [Place -> Stack] /\ granted \in [Items -> Nat] /\ gone \in [Items -> Nat]
    BY CountNat, PlaceFacts, StoreFacts DEF CountInv
<1>3. row \in StackRow /\ row.item \in Items /\ row.quantity \in Nat /\ row.bind \in Both
  <2>1. row \in StackRow /\ row.item \in Items /\ row.quantity \in Nat
      BY <1>1, <1>2, StackFacts
  <2>. QED
      BY <2>1 DEF StackRow, Both
<1>4. amount \in Nat
    BY <1>3, CustodyConstants DEF Wanted
<1>. DEFINE i == row.item
<1>. HIDE DEF p, amount, i
<1>5. gone' \in [Items -> Nat] /\ \A j \in Items : gone'[j] = gone[j] + Part(i, amount, j)
  <2>1. gone' = Add(gone, i, amount) /\ i \in Items
      BY <1>1, <1>3 DEF Add, i
  <2>2. Add(gone, i, amount) \in [Items -> Nat] /\ \A j \in Items : Add(gone, i, amount)[j] = gone[j] + Part(i, amount, j)
      BY <1>2, <1>4, <2>1, Booked
  <2>. QED
      BY <2>1, <2>2
<1>6. ASSUME NEW j \in Items
      PROVE  /\ Held(stacks', j, Both) + gone'[j] + granted[j] = Held(stacks, j, Both) + gone[j] + granted'[j]
             /\ Held(stacks', j, Free) <= Held(stacks, j, Free)
  <2>1. \A b : Held(stacks', j, b) = Held(stacks, j, b) - (IF row.item = j /\ row.bind \in b THEN amount ELSE 0)
      BY <1>1, <1>2, <1>4, TakenCount
  <2>2. Held(stacks', j, Both) = Held(stacks, j, Both) - Part(i, amount, j)
      BY <1>3, <2>1 DEF Part, i
  <2>3. Held(stacks, j, Both) \in Nat /\ Held(stacks, j, Free) \in Nat
      BY CountNat DEF CountInv
  <2>4. Held(stacks', j, Free) <= Held(stacks, j, Free)
    <3>1. Held(stacks', j, Free) = Held(stacks, j, Free) - (IF row.item = j /\ row.bind \in Free THEN amount ELSE 0)
        BY <2>1
    <3>. QED
        BY <1>4, <2>3, <3>1
  <2>5. granted[j] \in Nat /\ gone[j] \in Nat /\ Part(i, amount, j) \in Nat /\ granted' = granted
      BY <1>1, <1>2, <1>4 DEF Part
  <2>. QED
      BY <1>5, <2>2, <2>3, <2>4, <2>5
<1>. QED
    BY <1>1, <1>2, <1>5, <1>6, StacksKept

LEMMA MoveInventoryKept ==
    ASSUME CountInv, CustodyIInv', NEW c \in Holders, NEW s \in SlotIndex, NEW q \in Quantities,
           NEW from \in Stores, NEW to \in Stores, MoveInventory(c, s, q, from, to)
    PROVE  Kept
<1>. DEFINE p == <<c, from, s>>
            row == stacks[p]
            moved == [row EXCEPT !.quantity = q, !.bind = IF q = row.quantity THEN @ ELSE "BOUND"]
<1>1. PICK t \in ResolveStorageSlot(stacks, gear, c, to, NoSlot) :
        stacks' = [TakeFrom(p, q) EXCEPT ![<<c, to, t>>] = moved]
    BY DEF MoveInventory
<1>. DEFINE r == <<c, to, t>>
<1>2. row.quantity >= q /\ UNCHANGED <<granted, gone, tray, listings>>
    BY DEF MoveInventory, market
<1>3. p \in Place /\ stacks \in [Place -> Stack] /\ q \in Nat \ {0} /\ CustodyIInv
    BY CountNat, PlaceFacts, CustodyConstants DEF CountInv
<1>4. row.quantity \in Nat /\ row \in StackRow
  <2>1. row.quantity \in Nat /\ row.quantity > 0
      BY <1>2, <1>3, StackFacts
  <2>. QED
      BY <1>3, <2>1, StackFacts
<1>5. row.item \in Items /\ row.bind \in Both
    BY <1>4 DEF StackRow, Both
<1>6. /\ moved \in Stack /\ moved.item = row.item /\ moved.quantity = q
      /\ moved.bind \in Both /\ (moved.bind = row.bind \/ moved.bind = "BOUND")
  <2>. HIDE DEF row
  <2>. QED
      BY <1>3, <1>4, <1>5 DEF Stack, StackRow, Both
<1>7. r \in Place /\ stacks[r] = NoStack
    BY <1>1, ResolvedSlot, PlaceFacts DEF StorageSlotFree
<1>8. q <= stacks[p].quantity
    BY <1>2, <1>3, <1>4
<1>9. TakeFrom(p, q) \in [Place -> Stack] /\ TakeFrom(p, q)[r] = NoStack
    BY <1>3, <1>7, <1>8, StackLess
<1>10. stacks' = Put(TakeFrom(p, q), r, moved)
    BY <1>1 DEF Put
<1>. HIDE DEF p, r, moved
<1>11. ASSUME NEW i \in Items
       PROVE  /\ Held(stacks', i, Both) + gone'[i] + granted[i] = Held(stacks, i, Both) + gone[i] + granted'[i]
              /\ Held(stacks', i, Free) <= Held(stacks, i, Free)
  <2>1. \A b : Held(TakeFrom(p, q), i, b) = Held(stacks, i, b) - (IF row.item = i /\ row.bind \in b THEN q ELSE 0)
      BY <1>3, <1>8, TakenCount
  <2>2. \A b : Held(stacks', i, b) = Held(TakeFrom(p, q), i, b) + Share(moved, i, b)
      BY <1>6, <1>7, <1>9, <1>10, PutInFree
  <2>3. Share(moved, i, Both) = (IF row.item = i /\ row.bind \in Both THEN q ELSE 0)
      BY <1>5, <1>6 DEF Share
  <2>4. Share(moved, i, Free) \in Nat /\ Share(moved, i, Free) <= (IF row.item = i /\ row.bind \in Free THEN q ELSE 0)
      BY <1>3, <1>6 DEF Share, Free
  <2>5. /\ Held(TakeFrom(p, q), i, Both) = Held(stacks, i, Both) - (IF row.item = i /\ row.bind \in Both THEN q ELSE 0)
        /\ Held(TakeFrom(p, q), i, Free) = Held(stacks, i, Free) - (IF row.item = i /\ row.bind \in Free THEN q ELSE 0)
        /\ Held(stacks', i, Both) = Held(TakeFrom(p, q), i, Both) + Share(moved, i, Both)
        /\ Held(stacks', i, Free) = Held(TakeFrom(p, q), i, Free) + Share(moved, i, Free)
      BY <2>1, <2>2
  <2>6. /\ Held(stacks, i, Both) \in Nat /\ Held(stacks, i, Free) \in Nat /\ granted[i] \in Nat /\ gone[i] \in Nat
      BY CountNat DEF CountInv
  <2>7. Held(stacks', i, Both) = Held(stacks, i, Both) /\ Held(stacks', i, Free) <= Held(stacks, i, Free)
      BY <1>3, <2>3, <2>4, <2>5, <2>6
  <2>. QED
      BY <1>2, <2>6, <2>7
<1>. QED
    BY <1>2, <1>11, StacksKept DEF CountInv

(* What the stacks get, the row loses. *)
LEMMA RowBalance ==
    ASSUME NEW h \in Nat, NEW h2 \in Nat, NEW o \in Nat, NEW p \in Nat, NEW r \in Nat, NEW r2 \in Nat,
           NEW g \in Nat, NEW g2 \in Nat, NEW d \in Nat, NEW d2 \in Nat,
           h2 + r2 + d2 + g = h + r + d + g2
    PROVE  h2 + o + (p - r + r2) + d2 + g = h + o + p + d + g2
OBVIOUS

(* The tray of c gets new rows. *)
NewRows(c, rows) == rows \in Seq(TrayRow) /\ tray' = [tray EXCEPT ![c] = rows]

(* One tray changes, and the stacks with it. *)
LEMMA TrayKept ==
    ASSUME CountInv, CustodyIInv', UNCHANGED listings,
           NEW c \in Holders, NEW rows, NewRows(c, rows),
           granted' \in [Items -> Nat], gone' \in [Items -> Nat],
           \A i \in Items : /\ Held(stacks', i, Both) + InRows(rows, i) + gone'[i] + granted[i] =
                                   Held(stacks, i, Both) + InRows(tray[c], i) + gone[i] + granted'[i]
                            /\ Held(stacks', i, Free) <= Held(stacks, i, Free)
    PROVE  Kept
<1>0. tray \in [Holders -> Seq(TrayRow)] /\ tray' = Put(tray, c, rows) /\ rows \in Seq(TrayRow)
    BY CountNat DEF CountInv, Put, NewRows
<1>1. ASSUME NEW i \in Items
      PROVE  /\ Counted(stacks', listings', tray', i) + gone'[i] + granted[i] =
                    Counted(stacks, listings, tray, i) + gone[i] + granted'[i]
             /\ Tradable(stacks', listings', i) <= Tradable(stacks, listings, i)
  <2>1. /\ Held(stacks, i, Both) \in Nat /\ Held(stacks, i, Free) \in Nat
        /\ Offered(listings, i) \in Nat /\ Pending(tray, i) \in Nat
      BY CountNat DEF CountInv
  <2>2. Held(stacks', i, Both) \in Nat /\ Held(stacks', i, Free) \in Nat
      BY StacksNat
  <2>3. granted[i] \in Nat /\ gone[i] \in Nat /\ granted'[i] \in Nat /\ gone'[i] \in Nat
      BY DEF CountInv
  <2>4. /\ Held(stacks', i, Both) + InRows(rows, i) + gone'[i] + granted[i] =
               Held(stacks, i, Both) + InRows(tray[c], i) + gone[i] + granted'[i]
        /\ Held(stacks', i, Free) <= Held(stacks, i, Free)
      OBVIOUS
  <2>5. Pending(tray', i) = Pending(tray, i) - InRows(tray[c], i) + InRows(rows, i)
    <3>1. Pending(Put(tray, c, rows), i) = Pending(tray, i) - InRows(tray[c], i) + InRows(rows, i)
        BY <1>0, PendingPut
    <3>. QED
        BY <1>0, <3>1
  <2>6. InRows(rows, i) \in Nat /\ InRows(tray[c], i) \in Nat
      BY <1>0, RowShares
  <2>7. /\ Counted(stacks', listings', tray', i) = Held(stacks', i, Both) + Offered(listings, i) + Pending(tray', i)
        /\ Tradable(stacks', listings', i) = Held(stacks', i, Free) + Offered(listings, i)
        /\ Counted(stacks, listings, tray, i) = Held(stacks, i, Both) + Offered(listings, i) + Pending(tray, i)
        /\ Tradable(stacks, listings, i) = Held(stacks, i, Free) + Offered(listings, i)
      BY DEF Counted, Tradable
  <2>8. Held(stacks', i, Both) + Offered(listings, i) + (Pending(tray, i) - InRows(tray[c], i) + InRows(rows, i))
            + gone'[i] + granted[i] =
        Held(stacks, i, Both) + Offered(listings, i) + Pending(tray, i) + gone[i] + granted'[i]
      BY <2>1, <2>2, <2>3, <2>4, <2>6, RowBalance
  <2>9. Held(stacks', i, Free) + Offered(listings, i) <= Held(stacks, i, Free) + Offered(listings, i)
      BY <2>1, <2>2, <2>4
  <2>. QED
      BY <2>5, <2>7, <2>8, <2>9
<1>. QED
    BY <1>1 DEF Kept

(* The tray alone changes. *)
LEMMA RowsKept ==
    ASSUME CountInv, CustodyIInv', UNCHANGED <<stacks, listings>>,
           NEW c \in Holders, NEW rows, NewRows(c, rows),
           granted' \in [Items -> Nat], gone' \in [Items -> Nat],
           \A i \in Items : InRows(rows, i) + gone'[i] + granted[i] = InRows(tray[c], i) + gone[i] + granted'[i]
    PROVE  Kept
<1>1. ASSUME NEW i \in Items, NEW h \in Nat
      PROVE  h + InRows(rows, i) + gone'[i] + granted[i] = h + InRows(tray[c], i) + gone[i] + granted'[i]
  <2>1. tray[c] \in Seq(TrayRow)
      BY CountNat DEF CountInv
  <2>2. granted[i] \in Nat /\ gone[i] \in Nat /\ granted'[i] \in Nat /\ gone'[i] \in Nat
      BY DEF CountInv
  <2>3. InRows(rows, i) \in Nat /\ InRows(tray[c], i) \in Nat
      BY <2>1, RowShares DEF NewRows
  <2>4. InRows(rows, i) + gone'[i] + granted[i] = InRows(tray[c], i) + gone[i] + granted'[i]
      OBVIOUS
  <2>. QED
      BY <2>2, <2>3, <2>4
<1>2. ASSUME NEW i \in Items
      PROVE  /\ Held(stacks', i, Both) + InRows(rows, i) + gone'[i] + granted[i] =
                    Held(stacks, i, Both) + InRows(tray[c], i) + gone[i] + granted'[i]
             /\ Held(stacks', i, Free) <= Held(stacks, i, Free)
  <2>1. Held(stacks, i, Both) \in Nat /\ Held(stacks, i, Free) \in Nat
      BY CountNat DEF CountInv
  <2>2. Held(stacks', i, Both) = Held(stacks, i, Both) /\ Held(stacks', i, Free) = Held(stacks, i, Free)
      OBVIOUS
  <2>3. Held(stacks', i, Free) <= Held(stacks, i, Free)
      BY <2>1, <2>2
  <2>4. Held(stacks, i, Both) + InRows(rows, i) + gone'[i] + granted[i] =
            Held(stacks, i, Both) + InRows(tray[c], i) + gone[i] + granted'[i]
      BY <1>1, <2>1
  <2>. QED
      BY <2>2, <2>3, <2>4, Zenon
<1>. QED
    BY <1>2, TrayKept

LEMMA ApplyTrayItemKept ==
    ASSUME CountInv, CustodyIInv', NEW c \in Holders, NEW i \in Items, NEW q \in Quantities,
           ApplyTrayItem(c, i, q)
    PROVE  Kept
<1>. DEFINE row == [gear |-> 0, item |-> i, quantity |-> q]
            rows == Append(tray[c], row)
<1>1. /\ tray' = [tray EXCEPT ![c] = rows] /\ granted' = [granted EXCEPT ![i] = @ + q] /\ gone' = gone
      /\ UNCHANGED <<stacks, listings>>
  <2>1. tray \in [Holders -> Seq(TrayRow)]
      BY CountNat DEF CountInv
  <2>. QED
      BY <2>1 DEF ApplyTrayItem, market
<1>2. q \in Nat \ {0} /\ granted \in [Items -> Nat] /\ gone \in [Items -> Nat] /\ tray[c] \in Seq(TrayRow)
    BY CountNat, CustodyConstants DEF CountInv
<1>3. row \in TrayRow /\ row.item = i /\ row.quantity = q
    BY <1>2 DEF TrayRow
<1>4. granted' \in [Items -> Nat] /\ \A j \in Items : granted'[j] = granted[j] + Part(i, q, j)
  <2>1. granted' = Add(granted, i, q)
      BY <1>1 DEF Add
  <2>2. Add(granted, i, q) \in [Items -> Nat] /\ \A j \in Items : Add(granted, i, q)[j] = granted[j] + Part(i, q, j)
      BY <1>2, Booked
  <2>. QED
      BY <2>1, <2>2
<1>. HIDE DEF row
<1>5. rows \in Seq(TrayRow)
    BY <1>2, <1>3
<1>6. ASSUME NEW j \in Items
      PROVE  InRows(rows, j) + gone'[j] + granted[j] = InRows(tray[c], j) + gone[j] + granted'[j]
  <2>1. InRows(rows, j) = InRows(tray[c], j) + RowCount(row, j)
      BY <1>2, <1>3, RowsAppend
  <2>2. RowCount(row, j) = Part(i, q, j)
      BY <1>3 DEF RowCount, Part
  <2>3. InRows(tray[c], j) \in Nat /\ gone[j] \in Nat /\ granted[j] \in Nat /\ Part(i, q, j) \in Nat
      BY <1>2, RowShares DEF Part
  <2>. QED
      BY <1>1, <1>4, <2>1, <2>2, <2>3
<1>. HIDE DEF rows
<1>7. NewRows(c, rows)
    BY <1>1, <1>5 DEF NewRows
<1>. QED
    BY <1>1, <1>2, <1>4, <1>6, <1>7, RowsKept

LEMMA ApplyTrayGearKept ==
    ASSUME CountInv, CustodyIInv', NEW c \in Holders, NEW g \in Gear, ApplyTrayGear(c, g)
    PROVE  Kept
<1>. DEFINE row == [gear |-> g, item |-> 0, quantity |-> 1]
            rows == Append(tray[c], row)
<1>1. tray' = [tray EXCEPT ![c] = rows] /\ UNCHANGED <<stacks, listings, granted, gone>>
  <2>1. tray \in [Holders -> Seq(TrayRow)]
      BY CountNat DEF CountInv
  <2>. QED
      BY <2>1 DEF ApplyTrayGear, market
<1>2. granted \in [Items -> Nat] /\ gone \in [Items -> Nat] /\ tray[c] \in Seq(TrayRow)
    BY CountNat DEF CountInv
<1>3. row \in TrayRow /\ row.item = 0
    BY DEF TrayRow
<1>. HIDE DEF row
<1>5. rows \in Seq(TrayRow)
    BY <1>2, <1>3
<1>6. ASSUME NEW j \in Items
      PROVE  InRows(rows, j) + gone'[j] + granted[j] = InRows(tray[c], j) + gone[j] + granted'[j]
  <2>1. InRows(rows, j) = InRows(tray[c], j) + RowCount(row, j)
      BY <1>2, <1>3, RowsAppend
  <2>2. RowCount(row, j) = 0
      BY <1>3, CustodyConstants DEF RowCount
  <2>3. InRows(tray[c], j) \in Nat /\ gone[j] \in Nat /\ granted[j] \in Nat
      BY <1>2, RowShares
  <2>. QED
      BY <1>1, <2>1, <2>2, <2>3
<1>. HIDE DEF rows
<1>7. NewRows(c, rows)
    BY <1>1, <1>5 DEF NewRows
<1>. QED
    BY <1>1, <1>2, <1>6, <1>7, RowsKept

LEMMA ClaimKept ==
    ASSUME CountInv, CustodyIInv', NEW c \in Holders, NEW tx, ClaimInv(tx, c), Claim(c, tx),
           \A i \in Items :
               /\ Held(tx.stacks, i, Both) + InRows(tx.tray, i) = Held(stacks, i, Both) + InRows(tray[c], i)
               /\ Held(tx.stacks, i, Free) = Held(stacks, i, Free)
    PROVE  Kept
<1>1. /\ stacks' = tx.stacks /\ tray' = [tray EXCEPT ![c] = tx.tray] /\ UNCHANGED <<granted, gone, listings>>
    BY DEF Claim, market
<1>2. NewRows(c, tx.tray)
  <2>1. tx \in ClaimTx
      BY DEF ClaimInv
  <2>2. tx.tray \in Seq(TrayRow)
      BY <2>1 DEF ClaimTx
  <2>. QED
      BY <1>1, <2>2 DEF NewRows
<1>3. ASSUME NEW i \in Items
      PROVE  /\ Held(stacks', i, Both) + InRows(tx.tray, i) + gone'[i] + granted[i] =
                    Held(stacks, i, Both) + InRows(tray[c], i) + gone[i] + granted'[i]
             /\ Held(stacks', i, Free) <= Held(stacks, i, Free)
  <2>1. /\ Held(stacks, i, Both) \in Nat /\ Held(stacks, i, Free) \in Nat /\ granted[i] \in Nat /\ gone[i] \in Nat
        /\ tray[c] \in Seq(TrayRow)
      BY CountNat DEF CountInv
  <2>2. InRows(tray[c], i) \in Nat /\ InRows(tx.tray, i) \in Nat
      BY <1>2, <2>1, RowShares DEF NewRows
  <2>3. Held(stacks', i, Both) \in Nat
      BY StacksNat
  <2>4. /\ Held(stacks', i, Both) + InRows(tx.tray, i) = Held(stacks, i, Both) + InRows(tray[c], i)
        /\ Held(stacks', i, Free) = Held(stacks, i, Free)
      BY <1>1
  <2>5. granted'[i] = granted[i] /\ gone'[i] = gone[i]
      BY <1>1
  <2>. QED
      BY <2>1, <2>2, <2>3, <2>4, <2>5
<1>4. granted' \in [Items -> Nat] /\ gone' \in [Items -> Nat]
    BY <1>1 DEF CountInv
<1>. QED
    BY <1>1, <1>2, <1>3, <1>4, TrayKept

LEMMA LootClaimKept ==
    ASSUME CountInv, CustodyIInv', NEW c \in Holders, NEW k, NEW q \in Quantities \cup {0}, LootClaim(c, k, q)
    PROVE  Kept
<1>. DEFINE t == ClaimLootRow(LootTx(c), c, k, q)
<1>1. k \in DOMAIN tray[c] /\ Claim(c, t)
    BY DEF LootClaim
<1>2. ClaimInv(LootTx(c), c) /\ q \in Nat
    BY ClaimStarts, CustodyConstants DEF CountInv
<1>3. LootTx(c).stacks = stacks /\ LootTx(c).tray = tray[c]
    BY DEF LootTx
<1>4. ClaimInv(t, c)
    BY <1>1, <1>2, <1>3, RowClaimed
<1>5. \A i \in Items :
        /\ Held(t.stacks, i, Both) + InRows(t.tray, i) = Held(stacks, i, Both) + InRows(tray[c], i)
        /\ Held(t.stacks, i, Free) = Held(stacks, i, Free)
    BY <1>1, <1>2, <1>3, ClaimedCount
<1>. HIDE DEF t
<1>. QED
    BY <1>1, <1>4, <1>5, ClaimKept

LEMMA LootClaimAllKept ==
    ASSUME CountInv, CustodyIInv', NEW c \in Holders, LootClaimAll(c)
    PROVE  Kept
<1>. DEFINE t == ClaimedRows(c)[Len(tray[c])]
<1>1. Claim(c, t)
    BY DEF LootClaimAll
<1>2. ClaimInv(LootTx(c), c)
    BY ClaimStarts DEF CountInv
<1>3. ClaimInv(t, c)
  <2>1. Len(tray[c]) \in 0 .. Len(tray[c])
      BY <1>2, AllClaimed
  <2>. QED
      BY <1>2, <2>1, AllClaimed
<1>4. \A i \in Items :
        /\ Held(t.stacks, i, Both) + InRows(t.tray, i) = Held(stacks, i, Both) + InRows(tray[c], i)
        /\ Held(t.stacks, i, Free) = Held(stacks, i, Free)
    BY <1>2, AllClaimedCount
<1>. HIDE DEF t
<1>. QED
    BY <1>1, <1>3, <1>4, ClaimKept

LEMMA LootDiscardKept ==
    ASSUME CountInv, CustodyIInv', NEW c \in Holders, NEW k, LootDiscard(c, k)
    PROVE  Kept
<1>. DEFINE row == tray[c][k]
            rows == RemoveAt(tray[c], k)
<1>1. k \in DOMAIN tray[c] /\ tray' = [tray EXCEPT ![c] = rows] /\ UNCHANGED <<stacks, granted, listings>>
  <2>1. tray \in [Holders -> Seq(TrayRow)]
      BY CountNat DEF CountInv
  <2>. QED
      BY <2>1 DEF LootDiscard, market
<1>2. granted \in [Items -> Nat] /\ gone \in [Items -> Nat] /\ tray[c] \in Seq(TrayRow)
    BY CountNat DEF CountInv
<1>3. row \in TrayRow
    BY <1>1, <1>2
<1>4. \/ row.gear # 0 /\ row.item = 0 /\ gone' = gone
      \/ row.item \in Items /\ row.quantity \in Nat /\ gone' = [gone EXCEPT ![row.item] = @ + row.quantity]
  <2>1. \/ row.gear # 0 /\ gone' = gone
        \/ row.gear = 0 /\ gone' = [gone EXCEPT ![row.item] = @ + row.quantity]
      BY DEF LootDiscard
  <2>2. row.gear # 0 => row.item = 0
      BY <1>3 DEF TrayRow
  <2>3. row.gear = 0 => row.item \in Items /\ row.quantity \in Nat
      BY <1>3, CustodyConstants DEF TrayRow
  <2>. QED
      BY <2>1, <2>2, <2>3
<1>. HIDE DEF row
<1>5. gone' \in [Items -> Nat] /\ \A j \in Items : gone'[j] = gone[j] + RowCount(row, j)
  <2>1. CASE row.item = 0 /\ gone' = gone
      BY <1>2, <2>1, CustodyConstants DEF RowCount
  <2>2. CASE row.item \in Items /\ row.quantity \in Nat /\ gone' = [gone EXCEPT ![row.item] = @ + row.quantity]
    <3>1. gone' = Add(gone, row.item, row.quantity)
        BY <2>2 DEF Add
    <3>2. /\ Add(gone, row.item, row.quantity) \in [Items -> Nat]
          /\ \A j \in Items : Add(gone, row.item, row.quantity)[j] = gone[j] + Part(row.item, row.quantity, j)
        BY <1>2, <2>2, Booked
    <3>3. \A j \in Items : Part(row.item, row.quantity, j) = RowCount(row, j)
        BY DEF Part, RowCount
    <3>. QED
        BY <3>1, <3>2, <3>3
  <2>. QED
      BY <1>4, <2>1, <2>2
<1>6. rows \in Seq(TrayRow)
  <2>1. k \in 1 .. Len(tray[c])
      BY <1>1, <1>2
  <2>. QED
      BY <1>2, <2>1, Removed
<1>. HIDE DEF rows
<1>7. NewRows(c, rows)
    BY <1>1, <1>6 DEF NewRows
<1>8. ASSUME NEW j \in Items
      PROVE  InRows(rows, j) + gone'[j] + granted[j] = InRows(tray[c], j) + gone[j] + granted'[j]
  <2>1. InRows(rows, j) = InRows(tray[c], j) - RowCount(row, j)
      BY <1>1, <1>2, RowsRemoved DEF rows, row
  <2>2. RowCount(row, j) \in Nat
      BY <1>3, RowNat
  <2>3. InRows(tray[c], j) \in Nat /\ gone[j] \in Nat /\ granted[j] \in Nat /\ granted'[j] = granted[j]
      BY <1>1, <1>2, RowShares
  <2>4. gone'[j] = gone[j] + RowCount(row, j)
      BY <1>5
  <2>. QED
      BY <2>1, <2>2, <2>3, <2>4
<1>. QED
    BY <1>1, <1>2, <1>5, <1>7, <1>8, RowsKept

-----------------------------------------------------------------------------
(* Listings.  One listing changes, and the stacks with it. *)
NewListing(k, r) == k \in 1 .. MaxListings /\ r \in Listing /\ listings' = [listings EXCEPT ![k] = r]

LEMMA ListingBalance ==
    ASSUME NEW h \in Nat, NEW h2 \in Nat, NEW o \in Nat, NEW p \in Nat, NEW x \in Nat, NEW y \in Nat,
           NEW g \in Nat, NEW d \in Nat,
           NEW f \in Nat, NEW f2 \in Nat,
           h2 + y = h + x, f2 + y <= f + x
    PROVE  /\ h2 + (o - x + y) + p + d + g = h + o + p + d + g
           /\ f2 + (o - x + y) <= f + o
OBVIOUS

LEMMA ListingKept ==
    ASSUME CountInv, CustodyIInv', UNCHANGED <<tray, granted, gone>>, NEW k, NEW r, NewListing(k, r),
           \A i \in Items : /\ Held(stacks', i, Both) + Offer(r, i) = Held(stacks, i, Both) + Offer(listings[k], i)
                            /\ Held(stacks', i, Free) + Offer(r, i) <= Held(stacks, i, Free) + Offer(listings[k], i)
    PROVE  Kept
<1>0. /\ listings \in [1 .. MaxListings -> Listing] /\ listings' = Put(listings, k, r)
      /\ k \in 1 .. MaxListings /\ r \in Listing
    BY CountNat DEF CountInv, Put, NewListing
<1>1. ASSUME NEW i \in Items
      PROVE  /\ Counted(stacks', listings', tray', i) + gone'[i] + granted[i] =
                    Counted(stacks, listings, tray, i) + gone[i] + granted'[i]
             /\ Tradable(stacks', listings', i) <= Tradable(stacks, listings, i)
  <2>1. /\ Held(stacks, i, Both) \in Nat /\ Held(stacks, i, Free) \in Nat
        /\ Offered(listings, i) \in Nat /\ Pending(tray, i) \in Nat
      BY CountNat DEF CountInv
  <2>2. Held(stacks', i, Both) \in Nat /\ Held(stacks', i, Free) \in Nat
      BY StacksNat
  <2>3. granted[i] \in Nat /\ gone[i] \in Nat /\ granted'[i] = granted[i] /\ gone'[i] = gone[i]
      BY DEF CountInv
  <2>4. /\ Held(stacks', i, Both) + Offer(r, i) = Held(stacks, i, Both) + Offer(listings[k], i)
        /\ Held(stacks', i, Free) + Offer(r, i) <= Held(stacks, i, Free) + Offer(listings[k], i)
      OBVIOUS
  <2>5. Offered(listings', i) = Offered(listings, i) - Offer(listings[k], i) + Offer(r, i)
    <3>1. Offered(Put(listings, k, r), i) = Offered(listings, i) - Offer(listings[k], i) + Offer(r, i)
        BY <1>0, OfferedPut
    <3>. QED
        BY <1>0, <3>1
  <2>6. Offer(r, i) \in Nat /\ Offer(listings[k], i) \in Nat
      BY <1>0, OfferNat
  <2>7. /\ Counted(stacks', listings', tray', i) = Held(stacks', i, Both) + Offered(listings', i) + Pending(tray, i)
        /\ Tradable(stacks', listings', i) = Held(stacks', i, Free) + Offered(listings', i)
        /\ Counted(stacks, listings, tray, i) = Held(stacks, i, Both) + Offered(listings, i) + Pending(tray, i)
        /\ Tradable(stacks, listings, i) = Held(stacks, i, Free) + Offered(listings, i)
      BY DEF Counted, Tradable
  <2>8. /\ Held(stacks', i, Both) + (Offered(listings, i) - Offer(listings[k], i) + Offer(r, i))
                + Pending(tray, i) + gone[i] + granted[i] =
               Held(stacks, i, Both) + Offered(listings, i) + Pending(tray, i) + gone[i] + granted[i]
        /\ Held(stacks', i, Free) + (Offered(listings, i) - Offer(listings[k], i) + Offer(r, i)) <=
               Held(stacks, i, Free) + Offered(listings, i)
      BY <2>1, <2>2, <2>3, <2>4, <2>6, ListingBalance
  <2>. QED
      BY <2>3, <2>5, <2>7, <2>8
<1>2. granted' \in [Items -> Nat] /\ gone' \in [Items -> Nat]
    BY DEF CountInv
<1>. QED
    BY <1>1, <1>2 DEF Kept

(* A plain listing stays plain. *)
LEMMA StillPlain ==
    ASSUME PlainOffers(listings), listings \in [1 .. MaxListings -> Listing], NEW k, NEW r, NewListing(k, r),
           r.gear # 0 => r.stack = NoStack
    PROVE  PlainOffers(listings')
BY DEF PlainOffers, NewListing

LEMMA LockEquipmentForListingKept ==
    ASSUME CountInv, CustodyIInv', NEW c \in Holders, NEW g \in Gear, NEW price \in Prices,
           LockEquipmentForListing(c, g, price)
    PROVE  Kept /\ PlainOffers(listings')
<1>1. InsertListing(c, g, NoStack, price) /\ stacks' = stacks /\ UNCHANGED <<granted, gone, tray>>
    BY DEF LockEquipmentForListing, InsertListing
<1>2. NoStack \in Stack
    BY StackFacts
<1>3. PICK k \in 1 .. MaxListings, r \in Listing :
        /\ listings[k].status = "NONE" /\ listings' = [listings EXCEPT ![k] = r]
        /\ r.status = "LISTED" /\ r.gear = g /\ r.stack = NoStack /\ r.seller = c
    BY <1>1, <1>2, ListingInserted DEF CountInv
<1>4. NewListing(k, r)
    BY <1>3 DEF NewListing
<1>5. ASSUME NEW i \in Items
      PROVE  /\ Held(stacks', i, Both) + Offer(r, i) = Held(stacks, i, Both) + Offer(listings[k], i)
             /\ Held(stacks', i, Free) + Offer(r, i) <= Held(stacks, i, Free) + Offer(listings[k], i)
  <2>1. Offer(r, i) = 0 /\ Offer(listings[k], i) = 0
      BY <1>3, StackFacts DEF Offer
  <2>2. Held(stacks', i, Both) = Held(stacks, i, Both) /\ Held(stacks', i, Free) = Held(stacks, i, Free)
      BY <1>1
  <2>3. Held(stacks, i, Both) \in Nat /\ Held(stacks, i, Free) \in Nat
      BY CountNat DEF CountInv
  <2>. QED
      BY <2>1, <2>2, <2>3
<1>6. PlainOffers(listings')
    BY <1>3, <1>4, CountNat, StillPlain DEF CountInv
<1>. QED
    BY <1>1, <1>4, <1>5, <1>6, ListingKept

LEMMA LockItemForListingKept ==
    ASSUME CountInv, CustodyIInv', NEW c \in Holders, NEW l \in Stores, NEW s \in SlotIndex,
           NEW q \in Quantities, NEW price \in Prices, LockItemForListing(c, l, s, q, price)
    PROVE  Kept /\ PlainOffers(listings')
<1>. DEFINE p == <<c, l, s>>
            row == stacks[p]
            x == [row EXCEPT !.quantity = q]
<1>1. /\ row.quantity >= q /\ row.bind = "UNBOUND" /\ stacks' = TakeFrom(p, q)
      /\ InsertListing(c, 0, x, price) /\ UNCHANGED <<granted, gone, tray>>
    BY DEF LockItemForListing, InsertListing
<1>2. p \in Place /\ stacks \in [Place -> Stack] /\ q \in Nat \ {0}
    BY CountNat, PlaceFacts, CustodyConstants DEF CountInv
<1>3. row \in StackRow /\ row.quantity \in Nat
  <2>1. row.quantity \in Nat /\ row.quantity > 0
      BY <1>1, <1>2, StackFacts
  <2>. QED
      BY <1>2, <2>1, StackFacts
<1>. HIDE DEF row, p
<1>4. x \in Stack /\ x.item = row.item /\ x.quantity = q
    BY <1>2, <1>3 DEF Stack, StackRow
<1>. HIDE DEF x
<1>5. PICK k \in 1 .. MaxListings, r \in Listing :
        /\ listings[k].status = "NONE" /\ listings' = [listings EXCEPT ![k] = r]
        /\ r.status = "LISTED" /\ r.gear = 0 /\ r.stack = x /\ r.seller = c
  <2>1. 0 \in Gear \cup {0} /\ CustodyIInv /\ InsertListing(c, 0, x, price)
      BY <1>1 DEF CountInv
  <2>. QED
      BY <1>4, <2>1, ListingInserted
<1>6. NewListing(k, r)
    BY <1>5 DEF NewListing
<1>7. ASSUME NEW i \in Items
      PROVE  /\ Held(stacks', i, Both) + Offer(r, i) = Held(stacks, i, Both) + Offer(listings[k], i)
             /\ Held(stacks', i, Free) + Offer(r, i) <= Held(stacks, i, Free) + Offer(listings[k], i)
  <2>1. Offer(r, i) = Part(row.item, q, i) /\ Offer(listings[k], i) = 0 /\ Part(row.item, q, i) \in Nat
      BY <1>2, <1>4, <1>5 DEF Offer, Part
  <2>2. q <= stacks[p].quantity
      BY <1>1, <1>2, <1>3 DEF row
  <2>3. \A b : Held(stacks', i, b) = Held(stacks, i, b) - (IF row.item = i /\ row.bind \in b THEN q ELSE 0)
      BY <1>1, <1>2, <2>2, TakenCount DEF row
  <2>4. /\ Held(stacks', i, Both) = Held(stacks, i, Both) - Part(row.item, q, i)
        /\ Held(stacks', i, Free) = Held(stacks, i, Free) - Part(row.item, q, i)
    <3>1. row.bind \in Both /\ row.bind \in Free
        BY <1>1 DEF Both, Free
    <3>. QED
        BY <2>3, <3>1 DEF Part
  <2>5. Held(stacks, i, Both) \in Nat /\ Held(stacks, i, Free) \in Nat
      BY CountNat DEF CountInv
  <2>. QED
      BY <2>1, <2>4, <2>5
<1>8. PlainOffers(listings')
    BY <1>5, <1>6, CountNat, StillPlain DEF CountInv
<1>. QED
    BY <1>1, <1>6, <1>7, <1>8, ListingKept

(* A listing that ends hands over what it offered. *)
LEMMA ListingEndKept ==
    ASSUME CountInv, CustodyIInv', NEW k \in 1 .. MaxListings, listings[k].status = "LISTED",
           NEW c \in Holders, HandOver(k, c), NEW ended \in {"SOLD", "CANCELLED"},
           listings' = [listings EXCEPT ![k].status = ended], UNCHANGED <<tray, granted, gone>>
    PROVE  Kept /\ PlainOffers(listings')
<1>. DEFINE r == [listings[k] EXCEPT !.status = ended]
            x == listings[k].stack
<1>1. listings \in [1 .. MaxListings -> Listing] /\ stacks \in [Place -> Stack] /\ PlainOffers(listings)
    BY CountNat DEF CountInv
<1>2. /\ r \in Listing /\ r.gear = listings[k].gear /\ r.stack = x /\ r.status = ended /\ x \in Stack
      /\ listings' = [listings EXCEPT ![k] = r]
  <2>1. listings[k] \in Listing
      BY <1>1
  <2>. QED
      BY <1>1, <2>1 DEF Listing
<1>. HIDE DEF r
<1>3. NewListing(k, r) /\ (r.gear # 0 => r.stack = NoStack)
    BY <1>1, <1>2 DEF NewListing, PlainOffers
<1>4. PlainOffers(listings')
    BY <1>1, <1>3, StillPlain
<1>5. \A i : Offer(r, i) = 0
  <2>1. ended # "LISTED"
      OBVIOUS
  <2>. QED
      BY <1>2, <2>1 DEF Offer
<1>6. \A i : Offer(listings[k], i) = IF x.item = i THEN x.quantity ELSE 0
    BY DEF Offer
<1>7. ASSUME NEW i \in Items
      PROVE  /\ Held(stacks', i, Both) = Held(stacks, i, Both) + Offer(listings[k], i)
             /\ Held(stacks', i, Free) <= Held(stacks, i, Free) + Offer(listings[k], i)
  <2>1. Held(stacks, i, Both) \in Nat /\ Held(stacks, i, Free) \in Nat /\ Offer(listings[k], i) \in Nat
      BY <1>1, CountNat, OfferNat DEF CountInv
  <2>2. CASE listings[k].gear # 0
    <3>1. x = NoStack
        BY <1>1, <2>2 DEF PlainOffers
    <3>2. Offer(listings[k], i) = 0
        BY <1>6, <3>1, StackFacts
    <3>3. stacks' = stacks
        BY <2>2 DEF HandOver
    <3>4. Held(stacks', i, Both) = Held(stacks, i, Both) /\ Held(stacks', i, Free) = Held(stacks, i, Free)
        BY <3>3
    <3>. QED
        BY <2>1, <3>2, <3>4
  <2>3. CASE listings[k].gear = 0
    <3>1. PICK s \in ResolveStorageSlot(stacks, gear, c, "BAG", NoSlot) :
            stacks' = [stacks EXCEPT ![<<c, "BAG", s>>] = x]
        BY <2>3 DEF HandOver
    <3>2. <<c, "BAG", s>> \in Place /\ stacks[<<c, "BAG", s>>] = NoStack
        BY ResolvedSlot, PlaceFacts, StoreFacts DEF StorageSlotFree
    <3>3. stacks' = Put(stacks, <<c, "BAG", s>>, x)
        BY <3>1 DEF Put
    <3>. HIDE DEF x
    <3>4. \A b : Held(stacks', i, b) = Held(stacks, i, b) + Share(x, i, b)
        BY <1>1, <1>2, <3>2, <3>3, PutInFree
    <3>5. Held(stacks', i, Both) = Held(stacks, i, Both) + Share(x, i, Both)
          /\ Held(stacks', i, Free) = Held(stacks, i, Free) + Share(x, i, Free)
        BY <3>4
    <3>6. x.quantity \in Nat /\ x.bind \in Both /\ x.quantity \in Nat
      <4>1. x \in StackRow \/ x = NoStack
          BY <1>2 DEF Stack
      <4>2. x.quantity \in Nat
          BY <1>2, StackFacts
      <4>3. x.bind \in Both
          BY <4>1 DEF StackRow, NoStack, Both
      <4>. QED
          BY <4>2, <4>3
    <3>7. Share(x, i, Both) = Offer(listings[k], i) /\ Share(x, i, Free) <= Offer(listings[k], i)
          /\ Share(x, i, Free) \in Nat
        BY <1>6, <3>6 DEF Share
    <3>. QED
        BY <2>1, <3>5, <3>7
  <2>. QED
      BY <2>2, <2>3
<1>8. ASSUME NEW i \in Items
      PROVE  /\ Held(stacks', i, Both) + Offer(r, i) = Held(stacks, i, Both) + Offer(listings[k], i)
             /\ Held(stacks', i, Free) + Offer(r, i) <= Held(stacks, i, Free) + Offer(listings[k], i)
  <2>1. Held(stacks', i, Both) \in Nat /\ Held(stacks', i, Free) \in Nat
      BY StacksNat
  <2>2. Held(stacks', i, Both) + 0 = Held(stacks', i, Both) /\ Held(stacks', i, Free) + 0 = Held(stacks', i, Free)
      BY <2>1
  <2>3. Offer(r, i) = 0
      BY <1>5
  <2>. QED
      BY <1>7, <2>2, <2>3
<1>. HIDE DEF x
<1>. QED
    BY <1>3, <1>4, <1>8, ListingKept

-----------------------------------------------------------------------------
(* Every step. *)
LEMMA ItemStepKept ==
    ASSUME CountInv, CustodyIInv', NEW c \in Holders, ItemStep(c)
    PROVE  Kept /\ PlainOffers(listings')
<1>0. ASSUME UNCHANGED listings PROVE PlainOffers(listings')
    BY <1>0 DEF CountInv
<1>1. ASSUME NEW i \in Items, NEW q \in Quantities, ApplyTrayItem(c, i, q) \/ ApplyItemToBag(c, i, q)
      PROVE  Kept /\ UNCHANGED listings
    BY <1>1, ApplyTrayItemKept, ApplyItemToBagKept DEF ApplyTrayItem, ApplyItemToBag, market
<1>2. ASSUME NEW k \in 1 .. 3, NEW q \in Quantities \cup {0}, LootClaim(c, k, q)
      PROVE  Kept /\ UNCHANGED listings
    BY <1>2, LootClaimKept DEF LootClaim, Claim, market
<1>3. CASE LootClaimAll(c)
  <2>1. UNCHANGED listings
      BY <1>3 DEF LootClaimAll, Claim, market
  <2>. QED
      BY <1>0, <1>3, <2>1, LootClaimAllKept
<1>4. ASSUME NEW k \in 1 .. 3, LootDiscard(c, k)
      PROVE  Kept /\ UNCHANGED listings
    BY <1>4, LootDiscardKept DEF LootDiscard, market
<1>5. CASE WarehouseDeposit(c) \/ WarehouseWithdraw(c)
  <2>1. "BAG" \in Stores /\ "WAREHOUSE" \in Stores
      BY StoreFacts
  <2>2. ASSUME NEW g, NEW s, MoveGear(c, g, "BAG", "WAREHOUSE", s) \/ MoveGear(c, g, "WAREHOUSE", "BAG", s)
        PROVE  Kept /\ UNCHANGED listings
      BY <2>2, NothingMoves DEF MoveGear, market
  <2>3. ASSUME NEW s \in SlotIndex, NEW q \in Quantities,
               MoveInventory(c, s, q, "BAG", "WAREHOUSE") \/ MoveInventory(c, s, q, "WAREHOUSE", "BAG")
        PROVE  Kept /\ UNCHANGED listings
    <3>1. UNCHANGED listings
        BY <2>3 DEF MoveInventory, market
    <3>. QED
        BY <2>1, <2>3, <3>1, MoveInventoryKept
  <2>. QED
      BY <1>0, <1>5, <2>2, <2>3 DEF WarehouseDeposit, WarehouseWithdraw
<1>6. ASSUME NEW l \in Stores, OrganizeStorage(c, l)
      PROVE  Kept /\ UNCHANGED listings
  <2>1. UNCHANGED listings
      BY <1>6 DEF OrganizeStorage, market
  <2>. QED
      BY <1>6, <2>1, OrganizeStorageKept
<1>7. ASSUME NEW s \in SlotIndex, NEW q \in Quantities \cup {0}, InventoryDiscard(c, s, q) \/ SellShopInventory(c, s, q)
      PROVE  Kept /\ UNCHANGED listings
  <2>1. InventoryDiscard(c, s, q)
      BY <1>7 DEF SellShopInventory
  <2>2. UNCHANGED listings
      BY <2>1 DEF InventoryDiscard, market
  <2>. QED
      BY <2>1, <2>2, InventoryDiscardKept
<1>8. ASSUME NEW l \in Stores, NEW s \in SlotIndex, NEW q \in Quantities, NEW price \in Prices,
             LockItemForListing(c, l, s, q, price)
      PROVE  Kept /\ PlainOffers(listings')
    BY <1>8, LockItemForListingKept
<1>. QED
    BY <1>0, <1>1, <1>2, <1>3, <1>4, <1>5, <1>6, <1>7, <1>8 DEF ItemStep

LEMMA GearStepKept ==
    ASSUME CountInv, CustodyIInv', NEW c \in Holders, NEW g \in Gear, GearStep(c, g)
    PROVE  Kept /\ PlainOffers(listings')
<1>0. ASSUME UNCHANGED listings PROVE PlainOffers(listings')
    BY <1>0 DEF CountInv
<1>1. CASE ApplyTrayGear(c, g)
  <2>1. UNCHANGED listings
      BY <1>1 DEF ApplyTrayGear, market
  <2>. QED
      BY <1>0, <1>1, <2>1, ApplyTrayGearKept
<1>2. ASSUME NEW i \in Items, Synthesize(c, i, g) \/ EquipmentEnhance(c, g, i)
      PROVE  Kept /\ UNCHANGED listings
    BY <1>2, SynthesizeKept, EquipmentEnhanceKept DEF Synthesize, EquipmentEnhance, market
<1>3. ASSUME \/ ApplyGearToBag(c, g) \/ EquipItem(c, g, 0) \/ DiscardGear(c, g) \/ SellShopEquipment(c, g)
             \/ EquipmentNPCRecycle(c, g) \/ EquipmentRepair(c, g) \/ RequestNFTMint(c, g)
             \/ \E s \in SlotIndex \cup {NoSlot} : UnequipItem(c, g, s)
      PROVE  Kept /\ UNCHANGED listings
  <2>1. UNCHANGED <<stacks, tray, listings, granted, gone>>
      BY <1>3 DEF ApplyGearToBag, EquipItem, DiscardGear, SellShopEquipment, EquipmentNPCRecycle,
                  EquipmentRepair, RequestNFTMint, UnequipItem, market
  <2>. QED
      BY <2>1, NothingMoves
<1>4. ASSUME NEW price \in Prices, LockEquipmentForListing(c, g, price)
      PROVE  Kept /\ PlainOffers(listings')
    BY <1>4, LockEquipmentForListingKept
<1>. QED
    BY <1>0, <1>1, <1>2, <1>3, <1>4 DEF GearStep

LEMMA StepKept ==
    ASSUME CountInv, CustodyIInv', [CustodyNext]_cvars
    PROVE  Kept /\ PlainOffers(listings')
<1>0. ASSUME UNCHANGED <<stacks, tray, listings, granted, gone>>
      PROVE  Kept /\ PlainOffers(listings')
    BY <1>0, NothingMoves DEF CountInv
<1>1. ASSUME NEW c \in Holders, ItemStep(c)
      PROVE  Kept /\ PlainOffers(listings')
    BY <1>1, ItemStepKept
<1>2. ASSUME NEW c \in Holders, NEW g \in Gear, GearStep(c, g)
      PROVE  Kept /\ PlainOffers(listings')
    BY <1>2, GearStepKept
<1>3. ASSUME NEW c \in Holders, WearEquippedGear(c) \/ RetireHolder(c)
      PROVE  Kept /\ PlainOffers(listings')
  <2>1. UNCHANGED <<stacks, tray, listings, granted, gone>>
      BY <1>3 DEF WearEquippedGear, RetireHolder, market
  <2>. QED
      BY <1>0, <2>1
<1>4. ASSUME NEW g \in Gear, \/ RecycleLapses(g) \/ ConfirmNFTMint(g) \/ CancelMintResolve(g)
                             \/ CancelMintReturn(g) \/ CancelMintAbort(g)
      PROVE  Kept /\ PlainOffers(listings')
  <2>1. UNCHANGED <<stacks, tray, listings, granted, gone>>
      BY <1>4 DEF RecycleLapses, ConfirmNFTMint, CancelMintResolve, CancelMintReturn, CancelMintAbort, market
  <2>. QED
      BY <1>0, <2>1
<1>5. ASSUME NEW k \in 1 .. MaxListings, MarketplaceCancel(k)
      PROVE  Kept /\ PlainOffers(listings')
  <2>1. /\ listings[k].status = "LISTED" /\ HandOver(k, listings[k].seller)
        /\ listings' = [listings EXCEPT ![k].status = "CANCELLED"] /\ UNCHANGED <<tray, granted, gone>>
      BY <1>5 DEF MarketplaceCancel
  <2>2. listings[k].seller \in Holders
      BY CountNat DEF CountInv, Listing
  <2>. QED
      BY <2>1, <2>2, ListingEndKept
<1>6. ASSUME NEW k \in 1 .. MaxListings, NEW c \in Holders, MarketplaceBuy(k, c)
      PROVE  Kept /\ PlainOffers(listings')
  <2>1. /\ listings[k].status = "LISTED" /\ HandOver(k, c)
        /\ listings' = [listings EXCEPT ![k].status = "SOLD"] /\ UNCHANGED <<tray, granted, gone>>
      BY <1>6 DEF MarketplaceBuy
  <2>. QED
      BY <2>1, ListingEndKept
<1>7. CASE PurgeExpiredNPCRecycledEquipment \/ UNCHANGED cvars
  <2>1. UNCHANGED <<stacks, tray, listings, granted, gone>>
      BY <1>7 DEF PurgeExpiredNPCRecycledEquipment, cvars, market
  <2>. QED
      BY <1>0, <2>1
<1>. QED
    BY <1>1, <1>2, <1>3, <1>4, <1>5, <1>6, <1>7 DEF CustodyNext

-----------------------------------------------------------------------------
(* AEB.  What leaves an account is in another, or among the fees.          *)
LEMMA AccountsFinite == IsFiniteSet(Accounts)
<1>. DEFINE f == [c \in Holders |-> OwnerOf[c]]
<1>1. f \in Surjection(Holders, Accounts)
    BY DEF Accounts, Surjection
<1>. QED
    BY <1>1, CustodyConstants, FS_Surjection

AebSum(f) == SumFunctionOnSet(f, Accounts)

LEMMA AebNat ==
    ASSUME NEW f \in [Accounts -> Nat]
    PROVE  IntOn(f, Accounts) /\ AebSum(f) \in Nat
<1>1. IntOn(f, Accounts)
    BY AccountsFinite DEF IntOn
<1>. QED
    BY <1>1, AccountsFinite, SumNat DEF AebSum

AebKept == AebSum(aeb') + fees' = AebSum(aeb) + fees /\ fees' \in Int /\ cast' = cast

LEMMA AebPut ==
    ASSUME NEW f \in [Accounts -> Nat], NEW a \in Accounts, NEW n \in Nat
    PROVE  /\ Put(f, a, n) \in [Accounts -> Nat] /\ \A b \in Accounts \ {a} : Put(f, a, n)[b] = f[b]
           /\ AebSum(Put(f, a, n)) = AebSum(f) - f[a] + n
<1>. DEFINE g == Put(f, a, n)
<1>1. g \in [Accounts -> Nat] /\ g[a] = n /\ \A b \in Accounts \ {a} : g[b] = f[b]
    BY DEF Put
<1>2. IntOn(f, Accounts) /\ g[a] \in Int
    BY <1>1, AebNat
<1>. HIDE DEF g
<1>3. SumFunctionOnSet(g, Accounts) = SumFunctionOnSet(f, Accounts) - f[a] + g[a]
    BY <1>1, <1>2, SumAt
<1>. QED
    BY <1>1, <1>3 DEF AebSum, g

LEMMA SpendKept ==
    ASSUME aeb \in [Accounts -> Nat], fees \in Int, NEW a \in Accounts, NEW amount \in Nat,
           SpendAeb(a, amount), cast' = cast
    PROVE  AebKept
<1>1. aeb[a] \in Nat /\ aeb[a] - amount \in Nat /\ fees' = fees + amount
    BY DEF SpendAeb
<1>2. aeb' = Put(aeb, a, aeb[a] - amount)
    BY DEF SpendAeb, Put
<1>3. AebSum(Put(aeb, a, aeb[a] - amount)) = AebSum(aeb) - aeb[a] + (aeb[a] - amount)
    BY <1>1, AebPut
<1>4. AebSum(aeb) \in Nat
    BY AebNat
<1>5. AebSum(aeb') = AebSum(aeb) - aeb[a] + (aeb[a] - amount)
    BY <1>2, <1>3
<1>. QED
    BY <1>1, <1>4, <1>5 DEF AebKept

LEMMA RefundKept ==
    ASSUME CustodyIInv, fees \in Int, NEW g \in Gear, CancelMintReturn(g)
    PROVE  AebKept
<1>. DEFINE a == OwnerOf[gear[g].holder]
<1>1. a \in Accounts /\ aeb \in [Accounts -> Nat] /\ MintFee \in Nat
    BY PieceFacts, AccountFacts, CustodyConstants DEF CustodyIInv
<1>2. aeb' = [aeb EXCEPT ![a] = @ + MintFee] /\ fees' = fees - MintFee /\ cast' = cast
    BY DEF CancelMintReturn
<1>. HIDE DEF a
<1>3. aeb[a] \in Nat /\ aeb[a] + MintFee \in Nat /\ aeb' = Put(aeb, a, aeb[a] + MintFee)
    BY <1>1, <1>2 DEF Put
<1>4. AebSum(Put(aeb, a, aeb[a] + MintFee)) = AebSum(aeb) - aeb[a] + (aeb[a] + MintFee)
    BY <1>1, <1>3, AebPut
<1>5. AebSum(aeb) \in Nat
    BY <1>1, AebNat
<1>6. AebSum(aeb') = AebSum(aeb) - aeb[a] + (aeb[a] + MintFee)
    BY <1>3, <1>4
<1>. QED
    BY <1>1, <1>2, <1>3, <1>5, <1>6 DEF AebKept

(* Burn and treasury, rounded down, stay within the fee, so that the       *)
(* seller's net and what the fee's shares keep make up the price.          *)
LEMMA SaleAddsUp ==
    ASSUME NEW price \in Nat
    PROVE  LET s == SaleShares(price) IN s.net \in Nat /\ s.kept \in Nat /\ s.net + s.kept = price
<1>. DEFINE F == price * FeeBps
            B == price * BurnBps
            T == price * TreasuryBps
            fee == BpsAmount(price, FeeBps)
            burn == BpsAmount(price, BurnBps)
            treasury == BpsAmount(price, TreasuryBps)
<1>1. FeeBps \in Nat /\ BurnBps \in Nat /\ TreasuryBps \in Nat /\ BurnBps + TreasuryBps <= FeeBps
    BY CustodyAssumption
<1>2. F \in Nat /\ B \in Nat /\ T \in Nat
    BY <1>1
<1>3. B + T <= F
  <2>1. B + T = price * (BurnBps + TreasuryBps)
      BY <1>1
  <2>2. ASSUME NEW x \in Nat, NEW y \in Nat, x <= y PROVE price * x <= price * y
      BY <2>2
  <2>3. price * (BurnBps + TreasuryBps) <= price * FeeBps
      BY <1>1, <2>2
  <2>. QED
      BY <2>1, <2>3
<1>4. ASSUME NEW x \in Nat, NEW y \in Nat, NEW z \in Nat, x + y <= z
      PROVE  /\ x \div 10000 \in Nat /\ y \div 10000 \in Nat /\ z \div 10000 \in Nat
             /\ (x \div 10000) + (y \div 10000) <= z \div 10000
    BY <1>4
<1>5. burn \in Nat /\ treasury \in Nat /\ fee \in Nat /\ burn + treasury <= fee
  <2>1. fee = F \div 10000 /\ burn = B \div 10000 /\ treasury = T \div 10000
      BY DEF BpsAmount
  <2>. HIDE DEF F, B, T, fee, burn, treasury
  <2>. QED
      BY <1>2, <1>3, <1>4, <2>1
<1>6. SaleShares(price).net \in Nat
    BY NetOfSale
<1>. HIDE DEF fee, burn, treasury
<1>7. SaleShares(price).net = price - fee /\ SaleShares(price).kept = burn + treasury + (fee - burn - treasury)
    BY <1>5 DEF SaleShares, fee, burn, treasury
<1>. QED
    BY <1>5, <1>6, <1>7

LEMMA SaleBalance ==
    ASSUME NEW s \in Nat, NEW x \in Nat, NEW y \in Nat, NEW p \in Nat, NEW n \in Nat, NEW d \in Nat,
           NEW k \in Nat, NEW f \in Int, n + k = p
    PROVE  ((s - x + (x - p)) - y + (y + n + d)) + (f + k - d) = s + f
OBVIOUS

LEMMA SaleKept ==
    ASSUME CustodyIInv, fees \in Int, NEW k \in 1 .. MaxListings, NEW c \in Holders, MarketplaceBuy(k, c)
    PROVE  AebKept
<1>. DEFINE a == OwnerOf[c]
            b == OwnerOf[listings[k].seller]
            price == listings[k].price
            deposit == listings[k].deposit
            net == SaleShares(price).net
            kept == SaleShares(price).kept
<1>1. listings[k].seller \in Holders /\ price \in Nat /\ deposit \in Nat
    BY DEF CustodyIInv, ListedInv, Listing
<1>2. a \in Accounts /\ b \in Accounts /\ aeb \in [Accounts -> Nat]
    BY <1>1, AccountFacts DEF CustodyIInv
<1>3. /\ b # a /\ aeb[a] >= price
      /\ aeb' = [aeb EXCEPT ![a] = @ - price, ![b] = @ + net + deposit]
      /\ fees' = fees + kept - deposit /\ cast' = cast
    BY DEF MarketplaceBuy
<1>4. net \in Nat /\ kept \in Nat /\ net + kept = price
    BY <1>1, SaleAddsUp
<1>. HIDE DEF a, b, price, deposit, net, kept
<1>. DEFINE mid == Put(aeb, a, aeb[a] - price)
<1>5. aeb[a] \in Nat /\ aeb[b] \in Nat /\ aeb[a] - price \in Nat /\ aeb[b] + net + deposit \in Nat
    BY <1>1, <1>2, <1>3, <1>4
<1>6. /\ mid \in [Accounts -> Nat] /\ mid[b] = aeb[b]
      /\ AebSum(mid) = AebSum(aeb) - aeb[a] + (aeb[a] - price)
    BY <1>2, <1>3, <1>5, AebPut
<1>7. aeb' = Put(mid, b, aeb[b] + net + deposit)
    BY <1>2, <1>3 DEF Put
<1>. HIDE DEF mid
<1>8. AebSum(Put(mid, b, aeb[b] + net + deposit)) = AebSum(mid) - mid[b] + (aeb[b] + net + deposit)
    BY <1>2, <1>5, <1>6, AebPut
<1>9. AebSum(aeb') = AebSum(mid) - aeb[b] + (aeb[b] + net + deposit)
    BY <1>6, <1>7, <1>8
<1>10. AebSum(aeb) \in Nat /\ AebSum(mid) \in Nat
    BY <1>2, <1>6, AebNat
<1>11. AebSum(aeb') + fees' = AebSum(aeb) + fees
  <2>1. AebSum(aeb') + fees' =
            ((AebSum(aeb) - aeb[a] + (aeb[a] - price)) - aeb[b] + (aeb[b] + net + deposit)) + (fees + kept - deposit)
      BY <1>3, <1>6, <1>9
  <2>2. ((AebSum(aeb) - aeb[a] + (aeb[a] - price)) - aeb[b] + (aeb[b] + net + deposit)) + (fees + kept - deposit) =
            AebSum(aeb) + fees
      BY <1>1, <1>4, <1>5, <1>10, SaleBalance
  <2>. QED
      BY <2>1, <2>2
<1>12. fees' \in Int
    BY <1>1, <1>3, <1>4
<1>. QED
    BY <1>3, <1>11, <1>12 DEF AebKept

LEMMA ListingPaid ==
    ASSUME CustodyIInv, fees \in Int, NEW c \in Holders, NEW g, NEW st, NEW price \in Prices,
           InsertListing(c, g, st, price)
    PROVE  AebKept
<1>1. SpendAeb(OwnerOf[c], BpsCeil(price, DepositBps)) /\ cast' = cast
    BY DEF InsertListing
<1>2. BpsCeil(price, DepositBps) \in Nat
    BY CustodyAssumption, CustodyConstants, BpsNat
<1>3. aeb \in [Accounts -> Nat] /\ OwnerOf[c] \in Accounts
    BY AccountFacts DEF CustodyIInv
<1>. QED
    BY <1>1, <1>2, <1>3, SpendKept

LEMMA RepairPaid ==
    ASSUME CustodyIInv, fees \in Int, NEW c \in Holders, NEW g \in Gear, EquipmentRepair(c, g)
    PROVE  AebKept
<1>1. SpendAeb(OwnerOf[c], RepairCost(GearDurability - gear[g].durability)) /\ cast' = cast
      /\ gear[g].durability < GearDurability
    BY DEF EquipmentRepair
<1>2. RepairCost(GearDurability - gear[g].durability) \in Nat
  <2>1. GearDurability - gear[g].durability \in Nat
    <3>1. gear[g].durability \in 0 .. GearDurability /\ GearDurability \in Nat
        BY PieceFacts, CustodyConstants DEF Piece
    <3>. QED
        BY <1>1, <3>1
  <2>2. RepairPerPoint \in Nat /\ RepairMin \in Nat
      BY CustodyAssumption
  <2>3. ASSUME NEW m \in Nat PROVE RepairCost(m) \in Nat
    <3>1. m * RepairPerPoint \in Nat
        BY <2>2
    <3>. QED
        BY <2>2, <3>1 DEF RepairCost
  <2>. QED
      BY <2>1, <2>3
<1>. QED
    BY <1>1, <1>2, AccountFacts, SpendKept DEF CustodyIInv

LEMMA MintPaid ==
    ASSUME CustodyIInv, fees \in Int, NEW c \in Holders, NEW g, RequestNFTMint(c, g)
    PROVE  AebKept
<1>1. SpendAeb(OwnerOf[c], MintFee) /\ cast' = cast
    BY DEF RequestNFTMint
<1>. QED
    BY <1>1, CustodyConstants, AccountFacts, SpendKept DEF CustodyIInv

LEMMA AebUnmoved ==
    ASSUME CustodyIInv, fees \in Int, UNCHANGED <<aeb, fees, cast>>
    PROVE  AebKept
BY DEF AebKept

LEMMA StepKeepsAeb ==
    ASSUME CustodyIInv, fees \in Int, [CustodyNext]_cvars
    PROVE  AebKept
<1>1. ASSUME NEW c \in Holders, ItemStep(c) PROVE AebKept
  <2>1. ASSUME NEW l \in Stores, NEW s \in SlotIndex, NEW q \in Quantities, NEW price \in Prices,
               LockItemForListing(c, l, s, q, price)
        PROVE  AebKept
      BY <2>1, ListingPaid DEF LockItemForListing
  <2>2. ASSUME NEW i \in Items, NEW q \in Quantities, ApplyTrayItem(c, i, q) \/ ApplyItemToBag(c, i, q)
        PROVE  AebKept
      BY <2>2, AebUnmoved DEF ApplyTrayItem, ApplyItemToBag, market
  <2>3. ASSUME NEW tx, Claim(c, tx) PROVE AebKept
      BY <2>3, AebUnmoved DEF Claim, market
  <2>4. ASSUME NEW k, LootDiscard(c, k) PROVE AebKept
      BY <2>4, AebUnmoved DEF LootDiscard, market
  <2>5. ASSUME NEW g, NEW from, NEW to, NEW s, MoveGear(c, g, from, to, s) PROVE AebKept
      BY <2>5, AebUnmoved DEF MoveGear, market
  <2>6. ASSUME NEW s, NEW q, NEW from, NEW to, MoveInventory(c, s, q, from, to) PROVE AebKept
      BY <2>6, AebUnmoved DEF MoveInventory, market
  <2>7. CASE WarehouseDeposit(c) \/ WarehouseWithdraw(c)
      BY <2>5, <2>6, <2>7 DEF WarehouseDeposit, WarehouseWithdraw
  <2>8. ASSUME NEW l, OrganizeStorage(c, l) PROVE AebKept
      BY <2>8, AebUnmoved DEF OrganizeStorage, market
  <2>9. ASSUME NEW s, NEW q, InventoryDiscard(c, s, q) \/ SellShopInventory(c, s, q) PROVE AebKept
      BY <2>9, AebUnmoved DEF InventoryDiscard, SellShopInventory, market
  <2>10. CASE LootClaimAll(c) \/ \E k \in 1 .. 3, q \in Quantities \cup {0} : LootClaim(c, k, q)
      BY <2>3, <2>10 DEF LootClaimAll, LootClaim
  <2>. QED
      BY <1>1, <2>1, <2>2, <2>4, <2>7, <2>8, <2>9, <2>10 DEF ItemStep
<1>2. ASSUME NEW c \in Holders, NEW g \in Gear, GearStep(c, g) PROVE AebKept
  <2>1. CASE EquipmentRepair(c, g) \/ RequestNFTMint(c, g)
      BY <2>1, RepairPaid, MintPaid
  <2>2. ASSUME NEW price \in Prices, LockEquipmentForListing(c, g, price) PROVE AebKept
      BY <2>2, ListingPaid DEF LockEquipmentForListing
  <2>3. ASSUME NEW i, Synthesize(c, i, g) \/ EquipmentEnhance(c, g, i) PROVE AebKept
      BY <2>3, AebUnmoved DEF Synthesize, EquipmentEnhance, market
  <2>4. ASSUME NEW e, EquipItem(c, g, e) \/ UnequipItem(c, g, e) PROVE AebKept
      BY <2>4, AebUnmoved DEF EquipItem, UnequipItem, market
  <2>5. CASE \/ ApplyTrayGear(c, g) \/ ApplyGearToBag(c, g) \/ DiscardGear(c, g) \/ SellShopEquipment(c, g)
             \/ EquipmentNPCRecycle(c, g)
      BY <2>5, AebUnmoved DEF ApplyTrayGear, ApplyGearToBag, DiscardGear, SellShopEquipment, EquipmentNPCRecycle, market
  <2>. QED
      BY <1>2, <2>1, <2>2, <2>3, <2>4, <2>5 DEF GearStep
<1>3. ASSUME NEW c \in Holders, WearEquippedGear(c) \/ RetireHolder(c) PROVE AebKept
    BY <1>3, AebUnmoved DEF WearEquippedGear, RetireHolder, market
<1>4. ASSUME NEW g \in Gear, RecycleLapses(g) \/ ConfirmNFTMint(g) \/ CancelMintResolve(g) \/ CancelMintAbort(g)
      PROVE  AebKept
    BY <1>4, AebUnmoved DEF RecycleLapses, ConfirmNFTMint, CancelMintResolve, CancelMintAbort, market
<1>5. ASSUME NEW g \in Gear, CancelMintReturn(g) PROVE AebKept
    BY <1>5, RefundKept
<1>6. ASSUME NEW k \in 1 .. MaxListings, MarketplaceCancel(k) PROVE AebKept
    BY <1>6, AebUnmoved DEF MarketplaceCancel
<1>7. ASSUME NEW k \in 1 .. MaxListings, NEW c \in Holders, MarketplaceBuy(k, c) PROVE AebKept
    BY <1>7, SaleKept
<1>8. CASE PurgeExpiredNPCRecycledEquipment \/ UNCHANGED cvars
    BY <1>8, AebUnmoved DEF PurgeExpiredNPCRecycledEquipment, cvars, market
<1>. QED
    BY <1>1, <1>2, <1>3, <1>4, <1>5, <1>6, <1>7, <1>8 DEF CustodyNext

-----------------------------------------------------------------------------
(* The shares of a fee, whatever the fee: burn and recycling are rounded   *)
(* up, so that together with the rewards they cover it, and by one more    *)
(* at most.                                                                *)
LEMMA RoundedUp ==
    ASSUME NEW cost \in Nat \ {0}, NEW bps \in Nat
    PROVE  BpsCeil(cost, bps) \in Nat /\ 10000 * BpsCeil(cost, bps) <= cost * bps + 9999
<1>1. cost * bps \in Nat /\ (bps > 0 => cost * bps > 0)
  <2>1. cost * bps \in Nat
      OBVIOUS
  <2>2. ASSUME bps > 0 PROVE cost * bps > 0
      BY <2>2
  <2>. QED
      BY <2>1, <2>2
<1>2. ASSUME NEW x \in Nat, x > 0
      PROVE  /\ (x + 9999) \div 10000 \in Nat /\ ~((x + 9999) \div 10000 < 1)
             /\ 10000 * ((x + 9999) \div 10000) <= x + 9999
    BY <1>2
<1>3. CASE bps = 0
  <2>1. BpsCeil(cost, bps) = 0
      BY <1>3 DEF BpsCeil
  <2>. QED
      BY <1>1, <2>1
<1>4. CASE bps > 0
  <2>. DEFINE x == cost * bps
  <2>1. x \in Nat /\ x > 0
      BY <1>1, <1>4
  <2>2. BpsCeil(cost, bps) = IF (x + 9999) \div 10000 < 1 THEN 1 ELSE (x + 9999) \div 10000
      BY <1>4 DEF BpsCeil
  <2>. HIDE DEF x
  <2>3. BpsCeil(cost, bps) \in Nat /\ 10000 * BpsCeil(cost, bps) <= x + 9999
      BY <1>2, <2>1, <2>2
  <2>. QED
      BY <2>3 DEF x
<1>. QED
    BY <1>3, <1>4

(* Repair and mint fees: burn, recycling and rewards are the whole fee, or *)
(* one more when both shares were rounded up.                              *)
THEOREM SharesCoverAnyCost ==
    \A cost \in Nat \ {0} : LET share == FeeShares(cost) IN
        share.burn + share.recycle + share.rewards - cost \in {0, 1}
<1>. SUFFICES ASSUME NEW cost \in Nat \ {0}
              PROVE  FeeShares(cost).burn + FeeShares(cost).recycle + FeeShares(cost).rewards - cost \in {0, 1}
    OBVIOUS
<1>. DEFINE b == BpsCeil(cost, RepairBurnBps)
            r == BpsCeil(cost, RepairRecycleBps)
            x == cost * RepairBurnBps
            y == cost * RepairRecycleBps
<1>1. RepairBurnBps \in Nat /\ RepairRecycleBps \in Nat /\ RepairBurnBps + RepairRecycleBps <= 10000
    BY CustodyAssumption
<1>2. b \in Nat /\ r \in Nat /\ 10000 * b <= x + 9999 /\ 10000 * r <= y + 9999
  <2>1. \A bps \in Nat : BpsCeil(cost, bps) \in Nat /\ 10000 * BpsCeil(cost, bps) <= cost * bps + 9999
      BY RoundedUp
  <2>2. b \in Nat /\ 10000 * b <= x + 9999
      BY <1>1, <2>1
  <2>3. r \in Nat /\ 10000 * r <= y + 9999
      BY <1>1, <2>1
  <2>. QED
      BY <2>2, <2>3
<1>3. x \in Nat /\ y \in Nat /\ x + y <= cost * 10000
  <2>1. x \in Nat /\ y \in Nat
      BY <1>1
  <2>2. x + y = cost * (RepairBurnBps + RepairRecycleBps)
      BY <1>1
  <2>3. ASSUME NEW m \in Nat, NEW n \in Nat, m <= n PROVE cost * m <= cost * n
      BY <2>3
  <2>4. cost * (RepairBurnBps + RepairRecycleBps) <= cost * 10000
      BY <1>1, <2>3
  <2>. QED
      BY <2>1, <2>2, <2>4
<1>4. FeeShares(cost) = [burn |-> b, recycle |-> r, rewards |-> IF cost < b + r THEN 0 ELSE cost - b - r]
    BY DEF FeeShares
<1>. HIDE DEF b, r, x, y
<1>5. b + r <= cost + 1
    BY <1>2, <1>3
<1>6. FeeShares(cost).burn = b /\ FeeShares(cost).recycle = r
      /\ FeeShares(cost).rewards = IF cost < b + r THEN 0 ELSE cost - b - r
    BY <1>4
<1>7. CASE cost < b + r
    BY <1>2, <1>5, <1>6, <1>7
<1>8. CASE ~(cost < b + r)
    BY <1>2, <1>6, <1>8
<1>. QED
    BY <1>7, <1>8

-----------------------------------------------------------------------------
(* Nothing is lost: the inductive invariant and the two theorems. *)
BalanceInv ==
    /\ CountInv
    /\ fees \in Int
    /\ \A i \in Items : Counted(stacks, listings, tray, i) + gone[i] = granted[i]
    /\ AebSum(aeb) + fees = Cardinality(Accounts) * cast.aeb

LEMMA BalanceKept ==
    ASSUME BalanceInv, [CustodyNext]_cvars
    PROVE  BalanceInv'
<1>1. CountInv /\ fees \in Int
    BY DEF BalanceInv
<1>2. CustodyIInv'
    BY <1>1, CustodyStepKeeps DEF CountInv
<1>3. Kept /\ PlainOffers(listings')
    BY <1>1, <1>2, StepKept
<1>4. AebKept
    BY <1>1, StepKeepsAeb DEF CountInv
<1>5. CountInv'
    BY <1>2, <1>3 DEF CountInv, Kept
<1>6. ASSUME NEW i \in Items
      PROVE  Counted(stacks', listings', tray', i) + gone'[i] = granted'[i]
  <2>1. Counted(stacks, listings, tray, i) + gone[i] = granted[i]
      BY DEF BalanceInv
  <2>2. Counted(stacks', listings', tray', i) + gone'[i] + granted[i] =
            Counted(stacks, listings, tray, i) + gone[i] + granted'[i]
      BY <1>3 DEF Kept
  <2>3. gone'[i] \in Nat /\ granted'[i] \in Nat /\ gone[i] \in Nat /\ granted[i] \in Nat
      BY <1>1, <1>3 DEF Kept, CountInv
  <2>4. Counted(stacks, listings, tray, i) \in Nat
      BY <1>1, CountNat DEF Counted, CountInv
  <2>5. Counted(stacks', listings', tray', i) \in Nat
    <3>1. /\ stacks' \in [Place -> Stack] /\ listings' \in [1 .. MaxListings -> Listing]
          /\ tray' \in [Holders -> Seq(TrayRow)]
        BY <1>2 DEF CustodyIInv, SlotsInv, ListedInv, TraysInv
    <3>2. Held(stacks', i, Both) \in Nat /\ Offered(listings', i) \in Nat /\ Pending(tray', i) \in Nat
        BY <3>1, HeldShares, OfferedShares, PendingFacts
    <3>. QED
        BY <3>2 DEF Counted
  <2>. QED
      BY <2>1, <2>2, <2>3, <2>4, <2>5
<1>7. AebSum(aeb') + fees' = Cardinality(Accounts) * cast'.aeb /\ fees' \in Int
    BY <1>4 DEF AebKept, BalanceInv
<1>. QED
    BY <1>5, <1>6, <1>7 DEF BalanceInv

LEMMA BalanceStarts ==
    ASSUME CustodyInit
    PROVE  BalanceInv
<1>1. PICK i \in Items :
        /\ stacks = [p \in Place |->
             IF p = <<Starter, "BAG", 0>> /\ cast.granted > 0
             THEN [item |-> i, quantity |-> cast.granted, bind |-> "UNBOUND"] ELSE NoStack]
        /\ granted = [j \in Items |-> IF j = i THEN cast.granted ELSE 0]
    BY DEF CustodyInit
<1>2. /\ cast \in Casts /\ tray = [c \in Holders |-> << >>] /\ listings = [k \in 1 .. MaxListings |-> NoListing]
      /\ aeb = [a \in Accounts |-> cast.aeb] /\ fees = 0 /\ gone = [j \in Items |-> 0]
    BY DEF CustodyInit
<1>3. cast.granted \in Nat /\ cast.aeb \in Nat
  <2>1. cast \in [gear : SUBSET Gear, granted : Nat, most : Nat, aeb : Nat]
      BY <1>2, CustodyAssumption
  <2>. QED
      BY <2>1
<1>4. CustodyIInv
    BY CustodyStarts
<1>5. granted \in [Items -> Nat] /\ gone \in [Items -> Nat] /\ PlainOffers(listings)
  <2>1. granted \in [Items -> Nat] /\ gone \in [Items -> Nat]
      BY <1>1, <1>2, <1>3
  <2>2. PlainOffers(listings)
      BY <1>2 DEF PlainOffers, NoListing
  <2>. QED
      BY <2>1, <2>2
<1>6. ASSUME NEW j \in Items PROVE Held(stacks, j, Both) = granted[j]
  <2>. DEFINE none == [p \in Place |-> NoStack]
              first == [item |-> i, quantity |-> cast.granted, bind |-> "UNBOUND"]
              p0 == <<Starter, "BAG", 0>>
  <2>1. none \in [Place -> Stack] /\ \A p \in Place : none[p] = NoStack
      BY StackFacts
  <2>2. p0 \in Place
    <3>1. Starter \in Holders /\ "BAG" \in Stores /\ 0 \in SlotIndex
        BY CustodyConstants, StoreFacts DEF SlotIndex
    <3>. QED
        BY <3>1, PlaceFacts
  <2>3. Held(none, j, Both) = 0
    <3>. HIDE DEF none
    <3>1. Held(none, j, Both) = SumFunctionOnSet(Shares(none, j, Both), Place)
        BY <2>1, HeldShares
    <3>2. \A p \in Place : Shares(none, j, Both)[p] = 0
        BY <2>1, NoShare DEF Shares
    <3>3. SumFunctionOnSet(Shares(none, j, Both), Place) = 0
        BY <3>2, PlacesFinite, SumZero
    <3>. QED
        BY <3>1, <3>3
  <2>4. CASE cast.granted = 0
    <3>1. stacks = none
        BY <1>1, <2>4
    <3>2. granted[j] = 0
        BY <1>1, <2>4
    <3>. QED
        BY <2>3, <3>1, <3>2
  <2>5. CASE cast.granted > 0
    <3>1. first \in Stack /\ first.item = i /\ first.quantity = cast.granted /\ first.bind = "UNBOUND"
        BY <1>3, <2>5 DEF Stack, StackRow
    <3>2. stacks = Put(none, p0, first)
        BY <1>1, <2>5 DEF Put
    <3>3. Share(first, j, Both) = granted[j] /\ granted[j] \in Nat
        BY <1>1, <1>3, <3>1 DEF Share, Both
    <3>. HIDE DEF none, first, p0
    <3>4. Held(Put(none, p0, first), j, Both) = Held(none, j, Both) + Share(first, j, Both)
        BY <2>1, <2>2, <3>1, PutInFree
    <3>. QED
        BY <2>3, <3>2, <3>3, <3>4
  <2>. QED
      BY <1>3, <2>4, <2>5
<1>7. ASSUME NEW j \in Items PROVE Offered(listings, j) = 0
  <2>1. listings \in [1 .. MaxListings -> Listing]
      BY <1>4, CountNat
  <2>2. \A k \in 1 .. MaxListings : OffersOf(listings, j)[k] = 0
      BY <1>2 DEF OffersOf, Offer, NoListing
  <2>3. SumFunctionOnSet(OffersOf(listings, j), 1 .. MaxListings) = 0
    <3>1. IsFiniteSet(1 .. MaxListings)
        BY CustodyConstants, FS_Interval
    <3>. QED
        BY <2>2, <3>1, SumZero
  <2>. QED
      BY <2>1, <2>3, OfferedShares
<1>8. ASSUME NEW j \in Items PROVE Pending(tray, j) = 0
  <2>1. InRows(<< >>, j) = 0
    <3>1. {k \in DOMAIN << >> : << >>[k].item = j} = {}
        OBVIOUS
    <3>. QED
        BY <3>1, SumEmpty DEF InRows
  <2>2. \A c \in Holders : TrayCounts(tray, j)[c] = 0
      BY <1>2, <2>1 DEF TrayCounts
  <2>3. SumFunctionOnSet(TrayCounts(tray, j), Holders) = 0
      BY <2>2, CustodyConstants, SumZero
  <2>. QED
      BY <2>3 DEF Pending
<1>9. ASSUME NEW j \in Items PROVE Counted(stacks, listings, tray, j) + gone[j] = granted[j]
  <2>1. granted[j] \in Nat /\ gone[j] = 0
      BY <1>2, <1>5
  <2>. QED
      BY <1>6, <1>7, <1>8, <2>1 DEF Counted
<1>10. AebSum(aeb) + fees = Cardinality(Accounts) * cast.aeb
  <2>1. \A a \in Accounts : aeb[a] = cast.aeb
      BY <1>2
  <2>2. SumFunctionOnSet(aeb, Accounts) = Cardinality(Accounts) * cast.aeb
      BY <1>3, <2>1, AccountsFinite, SumConstant
  <2>3. AebSum(aeb) \in Nat
      BY <1>4, AebNat DEF CustodyIInv
  <2>. QED
      BY <1>2, <2>2, <2>3 DEF AebSum
<1>11. fees \in Int
    BY <1>2
<1>12. CountInv
    BY <1>4, <1>5 DEF CountInv
<1>. QED
    BY <1>9, <1>10, <1>11, <1>12 DEF BalanceInv

LEMMA NothingLostThen ==
    ASSUME BalanceInv
    PROVE  NothingLost
<1>1. ASSUME NEW i \in Items
      PROVE  InStacks(i, {"BOUND", "UNBOUND"}) + InListings(i) + InTrays(i) = granted[i] - gone[i]
  <2>1. /\ InStacks(i, {"BOUND", "UNBOUND"}) = Held(stacks, i, Both)
        /\ InListings(i) = Offered(listings, i) /\ InTrays(i) = Pending(tray, i)
      BY DEF InStacks, InListings, InTrays, Held, Both, Offered, Pending, TrayCounts
  <2>2. Held(stacks, i, Both) + Offered(listings, i) + Pending(tray, i) + gone[i] = granted[i]
      BY DEF BalanceInv, Counted
  <2>3. /\ Held(stacks, i, Both) \in Nat /\ Offered(listings, i) \in Nat /\ Pending(tray, i) \in Nat
        /\ gone[i] \in Nat /\ granted[i] \in Nat
      BY CountNat DEF BalanceInv, CountInv
  <2>. QED
      BY <2>1, <2>2, <2>3
<1>2. ItemsConserved
    BY <1>1 DEF ItemsConserved
<1>3. MarketConservesAeb
    BY DEF BalanceInv, AebSum, MarketConservesAeb
<1>4. SharesCoverCost
  <2>1. \A cost \in 1 .. 40 : cost \in Nat \ {0}
      OBVIOUS
  <2>. QED
      BY <2>1, SharesCoverAnyCost DEF SharesCoverCost
<1>. QED
    BY <1>2, <1>3, <1>4 DEF NothingLost

(* Claims, moves, merging, listing, sale, consumption and discards make    *)
(* and lose no item but those they book as granted or gone; repairs,       *)
(* mints, deposits and sales make and lose no AEB.                         *)
THEOREM NothingIsLost == CustodySpec => []NothingLost
<1>1. CustodyInit => BalanceInv
    BY BalanceStarts
<1>2. BalanceInv /\ [CustodyNext]_cvars => BalanceInv'
    BY BalanceKept
<1>3. BalanceInv => NothingLost
    BY NothingLostThen
<1>. QED
    BY <1>1, <1>2, <1>3, PTL DEF CustodySpec

(* No step makes bound items tradable. *)
LEMMA StillBound ==
    ASSUME BalanceInv, [CustodyNext]_cvars
    PROVE  [\A i \in Items :
              InStacks(i, {"UNBOUND"})' + InListings(i)' <= InStacks(i, {"UNBOUND"}) + InListings(i)]_<<stacks, listings>>
<1>1. CountInv
    BY DEF BalanceInv
<1>2. CustodyIInv'
    BY <1>1, CustodyStepKeeps DEF CountInv
<1>3. Kept
    BY <1>1, <1>2, StepKept
<1>4. ASSUME NEW i \in Items
      PROVE  InStacks(i, {"UNBOUND"})' + InListings(i)' <= InStacks(i, {"UNBOUND"}) + InListings(i)
  <2>1. Held(stacks', i, Free) + Offered(listings', i) <= Held(stacks, i, Free) + Offered(listings, i)
      BY <1>3 DEF Kept, Tradable
  <2>2. InStacks(i, {"UNBOUND"}) = Held(stacks, i, Free) /\ InListings(i) = Offered(listings, i)
      BY DEF InStacks, InListings, Held, Free, Offered
  <2>3. InStacks(i, {"UNBOUND"})' = Held(stacks', i, Free) /\ InListings(i)' = Offered(listings', i)
      BY DEF InStacks, InListings, Held, Free, Offered
  <2>. QED
      BY <2>1, <2>2, <2>3
<1>. QED
    BY <1>4

(* Every piece lives the life AssetLifecycle allows: it is made once,      *)
(* changes hands by a sale only and comes back from no end; and what was   *)
(* bound stays bound, whatever is moved, merged, claimed or sold.          *)
THEOREM GearLivesOnce == CustodySpec => GearFollowsLifecycle
<1>1. CustodyInit => BalanceInv
    BY BalanceStarts
<1>2. BalanceInv /\ [CustodyNext]_cvars => BalanceInv'
    BY BalanceKept
<1>3. BalanceInv /\ [CustodyNext]_cvars =>
        [\A i \in Items :
           InStacks(i, {"UNBOUND"})' + InListings(i)' <= InStacks(i, {"UNBOUND"}) + InListings(i)]_<<stacks, listings>>
    BY StillBound
<1>4. CustodySpec => NothingUnbound
    BY <1>1, <1>2, <1>3, PTL DEF CustodySpec, NothingUnbound
<1>. QED
    BY <1>4, LifecycleKept DEF GearFollowsLifecycle
=============================================================================
