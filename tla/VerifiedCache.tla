---------------------------- MODULE VerifiedCache ----------------------------
(***************************************************************************)
(* What Resolve and ResolveRemote (rootfs/rootfs.go) promise: a request is *)
(* answered with the cache entry of its key only while that entry is the   *)
(* complete tree of the archive with the pinned digest, and within the     *)
(* limits of the request; entries become complete in one step and stay so. *)
(***************************************************************************)
EXTENDS Naturals

CONSTANTS Procs, Keys, KeyOf, Size, Limit

VARIABLES
  verified,   \* the keys whose entry is complete and verified
  served      \* the processes that were handed their entry

CacheInit ==
  /\ verified = {}
  /\ served = {}

Store(k) ==
  /\ verified' = verified \cup {k}
  /\ UNCHANGED served

Serve(p) ==
  /\ KeyOf[p] \in verified
  /\ Size[KeyOf[p]] <= Limit[p]
  /\ served' = served \cup {p}
  /\ UNCHANGED verified

Leave(p) ==
  /\ served' = served \ {p}
  /\ UNCHANGED verified

CacheNext ==
  \/ \E k \in Keys : Store(k)
  \/ \E p \in Procs : Serve(p) \/ Leave(p)

CacheSpec == CacheInit /\ [][CacheNext]_<<verified, served>>
=============================================================================
