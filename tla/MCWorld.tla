------------------------------ MODULE MCWorld ------------------------------
(***************************************************************************)
(* The game's world: dungeon runs, custody of items and equipment with the *)
(* market, the market's limits, the shop, the bounty board and the boss    *)
(* events.  Their tables are their own, but for balances that each part    *)
(* models as far as it needs them; each behaviour explores one part and    *)
(* leaves the others at rest.                                              *)
(***************************************************************************)
EXTENDS DungeonRuns, Custody, MarketLimits, Shop, Bounty, BossEvents

VARIABLE focus               \* the part that this behaviour explores

MCFloors == {<<1, 2>>, <<2, 1>>}
MCLevelRules == [maxLevel |-> 4, base |-> 1, linear |-> 1, quadratic |-> 0]
MCOwnerOf == [c \in Holders |-> IF c = "c1" THEN "a1" ELSE "a2"]
MCCasts == {[gear |-> {1}, granted |-> 1, most |-> 1, aeb |-> 2],
            [gear |-> {1}, granted |-> 2, most |-> 2, aeb |-> 0],
            [gear |-> {1}, granted |-> 0, most |-> 2, aeb |-> 0],
            [gear |-> {1, 2}, granted |-> 1, most |-> 1, aeb |-> 0],
            [gear |-> {1, 2}, granted |-> 0, most |-> 0, aeb |-> 1]}
MCRules == [baseListingSlots |-> 1, materialExpandSlots |-> 1, walletExpandSlots |-> 1,
            materialExpandMaxTimes |-> 1, walletExpandMaxTimes |-> 1,
            maxListingsCreatedPerDay |-> 2, maxCancelsPerDay |-> 1,
            maxPurchasesPerDay |-> 1, purchaseCooldownSeconds |-> -1]
MCScenarios == {{"list", "cancel", "material"}, {"list", "wallet"}, {"buy", "restrict"}}
MCPool == <<[item |-> 1, minLevel |-> 0, maxLevel |-> 1, weight |-> 1, price |-> 3, token |-> FALSE],
            [item |-> 2, minLevel |-> 0, maxLevel |-> 0, weight |-> 1, price |-> 5, token |-> TRUE],
            [item |-> 1, minLevel |-> 2, maxLevel |-> 0, weight |-> 1, price |-> 9, token |-> FALSE],
            [item |-> 3, minLevel |-> 3, maxLevel |-> 0, weight |-> 0, price |-> 9, token |-> FALSE]>>
MCSellPrice == [i \in 0 .. 2 |-> i]
MCRefreshCost == [base |-> 1, step |-> 2, max |-> 4]
MCShopUses == {{"board", "offer"}, {"board", "refresh"}, {"regular"}, {"sell"}}
MCFinishedRuns == [x \in {"d1"} |-> 1]

Foci == {"dungeons", "custody", "limits", "shop", "bounty", "bosses"}

\* A part at rest starts in one of its initial states only.
MCInit ==
  /\ focus \in Foci
  /\ DungeonInit /\ CustodyInit /\ LimitsInit /\ ShopInit /\ BountyInit /\ BossInit
  /\ gear[1] # NoGear                     \* the pieces are interchangeable
  /\ focus # "custody" => cast = [gear |-> {1}, granted |-> 0, most |-> 2, aeb |-> 0]
  /\ focus # "limits" => offered = {"buy", "restrict"}
  /\ focus # "shop" => uses = {"sell"} /\ level = 1

\* One character with two runs or two with one; two pieces that can be minted
\* are not put on; a settlement, a paid order or a finished run's kills, but not
\* all of them.
Present(table, blank) == Cardinality({i \in DOMAIN table : table[i] # blank})
Within ==
  /\ Present(characters, NoCharacter) + Present(runs, NoRun) <= 3
  /\ Cardinality(cast.gear) > 1 /\ cast.aeb > 0 => \A g \in Gear : gear[g].worn = NoSlot
  /\ Len(bountyOrders) + settled + Cardinality(submissions) <= 2

MCNext ==
  /\ UNCHANGED focus
  /\ \/ focus = "dungeons" /\ DungeonNext /\ UNCHANGED <<cvars, mvars, shvars, bvars, bossVars>>
     \/ focus = "custody" /\ CustodyNext /\ UNCHANGED <<dvars, mvars, shvars, bvars, bossVars>>
     \/ focus = "limits" /\ LimitsNext /\ UNCHANGED <<dvars, cvars, shvars, bvars, bossVars>>
     \/ focus = "shop" /\ ShopNext /\ UNCHANGED <<dvars, cvars, mvars, bvars, bossVars>>
     \/ focus = "bounty" /\ BountyNext /\ UNCHANGED <<dvars, cvars, mvars, shvars, bossVars>>
     \/ focus = "bosses" /\ BossNext /\ UNCHANGED <<dvars, cvars, mvars, shvars, bvars>>
  /\ Within'

MCSpec == MCInit /\ [][MCNext]_<<dvars, cvars, mvars, shvars, bvars, bossVars, focus>>
=============================================================================
