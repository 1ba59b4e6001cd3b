-------------------------- MODULE MCMetadataCache --------------------------
(***************************************************************************)
(* Two instances in one run.  Updates: two threads open one game container *)
(* whose files change at any moment.  Eviction: three game containers and  *)
(* two configurations compete for the two entries of the cache, beside a   *)
(* mod that is never cached; one container is open at a time.              *)
(***************************************************************************)
EXTENDS MetadataCache, TLC
CONSTANTS t1, t2, global, pakchunk0, pakchunk1, mod, key1, key2
MCThreads == {t1, t2}
GamePaths == {global, pakchunk0, pakchunk1}
MCPaths == GamePaths \cup {mod}
MCConfigs == {key1, key2}
Symmetry == Permutations(MCThreads)

Known == {request[t] : t \in Threads} \cup {cache[i].key : i \in DOMAIN cache}
Updates == opens <= 3 /\ \A k \in Known \ {NoKey} : k.path = global /\ k.config = key1
Eviction == updates = 0 /\ \E t \in Threads : \A u \in Threads \ {t} : pc[u] = "idle"
Instances ==
    /\ Updates \/ Eviction
    /\ \A p \in Paths \ {global} : toc_file[p] = 0 /\ cas_file[p] = 0
=============================================================================
