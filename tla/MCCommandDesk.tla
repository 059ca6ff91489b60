----------------------------- MODULE MCCommandDesk -----------------------------
(***************************************************************************)
(* Constants for model checking CommandDesk: one device with an owned and a *)
(* foreign camera on its menu, an inventory that another organization also *)
(* has, and an operator whose grant may be missing, beside a colleague.    *)
(***************************************************************************)
EXTENDS CommandDesk, TLC

CONSTANTS org1, org2, ana, bia, card, camA, camB, inv, c1, v1, v2

MCOwner == [id |-> ana, org |-> org1]
MCMenu  == "camera.status" :> {camA, camB} @@ "camera.monitor" :> {camA}
             @@ "asset.list" :> {inv}
MCCameraOrg == camA :> org1 @@ camB :> org2
Item(id, org, changed) == [id |-> id, org |-> org, inventory |-> inv, changed |-> changed]
MCAsset == {Item(1, org2, TRUE), Item(2, org1, TRUE), Item(3, org1, FALSE), Item(4, org1, TRUE)}

Person(id) == [id |-> id, org |-> org1, roles |-> {"viewer", "inventory_viewer"}]
MCDevice == [id |-> card, org |-> org1, trusted |-> TRUE,
             capabilities |-> {"camera_status_query", "asset_inventory_query"}]
MCGrant == [org |-> org1, enabled |-> TRUE, until |-> 9, resources |-> {camA, camB, inv}]
MCContext == {[actor |-> Person(ana), device |-> MCDevice, grant |-> MCGrant],
              [actor |-> Person(ana), device |-> MCDevice, grant |-> None],
              [actor |-> Person(bia), device |-> MCDevice, grant |-> MCGrant]}

MCInventoryOrg == {<<org1, inv>>, <<org2, inv>>}

Word == [bytes |-> 1, ms |-> 1]
Long == [bytes |-> 1, ms |-> 4]
MCChunk == {Word, Long}
MCTranscript == <<Word>> :> "watch" @@ <<Word, Word>> :> "sing"
MCIntentOf == "watch" :> [alias |-> "garage", duration |-> 1]
MCAliasOf == <<org1, "garage">> :> camA

Symmetry == Permutations({v1, v2})
=============================================================================
