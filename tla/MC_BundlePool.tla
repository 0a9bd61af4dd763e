----------------------------- MODULE MC_BundlePool -----------------------------
(***************************************************************************)
(* Three bundles for TLC: 1 and 2 share a uuid (2 replaces 1 and targets  *)
(* a later block), 3 has its own uuid and a timestamp window that closes  *)
(* at 1.  A history of two entries makes get_stat's truncation happen.    *)
(***************************************************************************)
EXTENDS BundlePool

MCBundles == 1..3
MCUuid == [b \in MCBundles |-> IF b = 3 THEN 2 ELSE 1]
MCBlockOf == [b \in MCBundles |-> IF b = 2 THEN 2 ELSE 1]
MCMinTs == [b \in MCBundles |-> IF b = 3 THEN 1 ELSE 0]
MCMaxTs == [b \in MCBundles |-> IF b = 3 THEN 1 ELSE 9]

====
