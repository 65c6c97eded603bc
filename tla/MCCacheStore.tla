---------------------------- MODULE MCCacheStore ----------------------------
(* CacheStore with its bounds in the configurations. *)
EXTENDS CacheStore

=============================================================================
