-------------------------- MODULE MCCacheDurability --------------------------
(* CacheDurability with one file at the top and one below.                 *)
EXTENDS CacheDurability
=============================================================================
