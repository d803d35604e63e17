--------------------------- MODULE AssetLifecycle ---------------------------
(***************************************************************************)
(* What the equipment tables promise the owner of a piece: it has one      *)
(* owner and is in one phase; only a sale changes the owner; a minted      *)
(* piece never comes back, a recycled one never is anything else but gone, *)
(* and what is gone stays gone.                                            *)
(***************************************************************************)
VARIABLE assets  \* piece -> [phase, owner]

(* Moves that leave the owner alone. *)
Moves ==
  {<<"held", "offered">>, <<"offered", "held">>,
   <<"held", "minting">>, <<"minting", "held">>, <<"minting", "minted">>,
   <<"held", "recycled">>, <<"held", "gone">>}

Step(before, after) ==
  \/ before = after
  \/ before.owner = after.owner /\ <<before.phase, after.phase>> \in Moves
  \/ before.phase = "unmade" /\ after.phase = "held"
  \/ before.phase = "offered" /\ after.phase = "held"
  \/ before.phase = "recycled" /\ after.phase = "gone"

AssetInit == \A g \in DOMAIN assets : assets[g].phase \in {"unmade", "held"}

AssetNext == \A g \in DOMAIN assets : Step(assets[g], assets'[g])

AssetSpec == AssetInit /\ [][AssetNext]_assets
=============================================================================
