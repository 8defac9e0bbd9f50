------------------------------ MODULE MCKeyed ------------------------------
(***************************************************************************)
(* HashTables and LRUCache for TLC, each by itself: kind says which of     *)
(* them a behaviour is about, the other stays as it is.                    *)
(***************************************************************************)
EXTENDS HashTables, LRUCache

VARIABLE kind

MCInit ==
    /\ kind \in {"table", "cache"}
    /\ TablesInit /\ CacheInit
    /\ kind = "table" => capacity_ = 0

MCNext ==
    /\ \/ kind = "table" /\ TablesNext /\ UNCHANGED vars
       \/ kind = "cache" /\ CacheNext /\ UNCHANGED m
    /\ UNCHANGED kind

MCSpec == MCInit /\ [][MCNext]_<<kind, m, vars>>

=============================================================================
