------------------------------ MODULE MCDelivery ------------------------------
(***************************************************************************)
(* Values for the constants of Delivery.                                   *)
(***************************************************************************)
EXTENDS Delivery, TLC

CONSTANTS page, like, gone, noise, r1, r2

\* A page and its deletion.
MCMessage == {page, gone}
MCBody == (page :> "upsert") @@ (gone :> "delete")
MCContent == (page :> "hash") @@ (gone :> "document")

\* A page among a payload that does not decode and a reaction too thin to extract.
MCMixed == {page, like, noise}
MCMixedBody == (page :> "upsert") @@ (like :> "thin") @@ (noise :> "undecodable")
MCMixedContent == (page :> "hash") @@ (like :> "hash") @@ (noise :> "none")

MCReplicas == Permutations({r1, r2})
=============================================================================
