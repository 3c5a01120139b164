-------------------------- MODULE MCHandlerVolumes --------------------------
(***************************************************************************)
(* Small instances of HandlerVolumes.  Volume addresses, clients and       *)
(* handles are interchangeable.                                            *)
(***************************************************************************)
EXTENDS HandlerVolumes, TLC

Interchangeable == Permutations(Addrs) \cup Permutations(Clients) \cup Permutations(Handles)
=============================================================================
