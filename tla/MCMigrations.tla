----------------------------- MODULE MCMigrations -----------------------------
(* Two files, and an indicator that two users own. *)
EXTENDS Migrations

CONSTANTS t1, t2, u1, u2, f1, f2, i1, i2, h1, h2

AssetKinds  == (f1 :> "file") @@ (f2 :> "file") @@ (i1 :> "domain") @@ (i2 :> "domain")
AssetOwners == (f1 :> "ana") @@ (f2 :> "ana") @@ (i1 :> "ana") @@ (i2 :> "bob")
AssetValues == (f1 :> "one") @@ (f2 :> "two") @@ (i1 :> "site") @@ (i2 :> "site")
===============================================================================
