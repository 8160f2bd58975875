---------------------------- MODULE MCConnection ----------------------------
(* Chains of up to two proxies, for TLC. *)
EXTENDS Connection

\* The first address is only resolved and connected to, so its kind does not
\* matter; the others are of every kind, up to MaxProxies proxies.
CONSTANT MaxProxies
MCRoutes ==
    UNION { {[i \in 1..(n + 1) |-> IF i = 1 THEN "IP4" ELSE kinds[i]] :
                kinds \in [2..(n + 1) -> AddressKinds]} : n \in 0..MaxProxies }
=============================================================================
