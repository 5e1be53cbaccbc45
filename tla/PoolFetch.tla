------------------------------- MODULE PoolFetch -------------------------------
(***************************************************************************)
(* fetch_all_clmm_pools: one call lists the pool accounts of the program,  *)
(* then, pool by pool, four or five awaited calls read the mints, the      *)
(* configuration, the bitmap extension and the tick arrays, while the      *)
(* chain moves on.                                                         *)
(*                                                                         *)
(* The chain is external.  An account's content is the number of times it  *)
(* was written; a pool, its bitmaps and its tick arrays are written by the *)
(* same transactions and share one count, so two parts of a pool that were *)
(* read at different counts are torn.                                      *)
(***************************************************************************)
EXTENDS Naturals, Sequences, FiniteSets

CONSTANTS
  Pool, Mint, Config,  \* accounts, each kind named by its addresses
  MintA, MintB,        \* token_mint_0 and token_mint_1 of a pool
  ConfigOf,            \* amm_config of a pool
  Near, Far,           \* tick arrays flagged in the pool account and in its extension
  MaxMoves,            \* bound on the chain's transactions
  None                 \* no cached entry

Account == Pool \cup Mint \cup Config

ASSUME PoolFetchAssumption ==
  /\ MintA \in [Pool -> Mint] /\ MintB \in [Pool -> Mint] /\ ConfigOf \in [Pool -> Config]
  /\ \A p \in Pool : MintA[p] # MintB[p]
  /\ Near \cap Far = {}
  /\ MaxMoves \in Nat /\ None \notin Nat

VARIABLES
  exists,   \* the chain: pools created
  version,  \* the chain: times each account was written
  flagged,  \* the chain: tick arrays of each pool whose bit is set
  created,  \* the chain: tick arrays of each pool whose account exists
  moves,    \* transactions so far
  pc,       \* the call the fetch waits for, or how it ended
  listed,   \* clmm_pool_datas, what the first call returned of each pool
  todo,     \* pools of it not yet visited
  cache,    \* local_mint_cache
  info,     \* base_info and extension of the pool being visited, as read so far
  infos     \* pool_infos

chain == <<exists, version, flagged, created, moves>>
vars  == <<chain, pc, listed, todo, cache, info, infos>>

Reading == {"list", "mint_a", "mint_b", "config", "extension", "arrays"}
Ended   == {"done", "failed", "panicked"}

NoInfo == [id |-> None, mint_a |-> None, mint_b |-> None, config |-> None, far |-> {}]

Init ==
  /\ exists \in SUBSET Pool
  /\ version = [a \in Account |-> 0]
  /\ flagged \in [Pool -> SUBSET (Near \cup Far)]
  /\ created \in [Pool -> SUBSET (Near \cup Far)]
  /\ \A p \in Pool : flagged[p] \subseteq created[p] /\ (p \notin exists => created[p] = {})
  /\ moves = 0
  /\ pc = "list" /\ listed = [p \in {} |-> NoInfo] /\ todo = {}
  /\ cache = [m \in Mint |-> None]
  /\ info = NoInfo /\ infos = <<>>

-----------------------------------------------------------------------------
(* The chain                                                               *)

Transaction(a) ==
  /\ moves < MaxMoves /\ pc \notin Ended
  /\ moves' = moves + 1
  /\ version' = [version EXCEPT ![a] = @ + 1]
  /\ UNCHANGED <<pc, listed, todo, cache, info, infos>>

\* A swap, or a change of a mint's transfer fee or of a configuration's trade fee.
Write(a) ==
  /\ a \in Pool => a \in exists
  /\ Transaction(a)
  /\ UNCHANGED <<exists, flagged, created>>

CreatePool(p) ==
  /\ p \notin exists
  /\ exists' = exists \cup {p}
  /\ Transaction(p)
  /\ UNCHANGED <<flagged, created>>

\* A position's first tick in an array creates its account and sets its bit; the last
\* one to go clears the bit, and the account stays.
FlagArray(p, s) ==
  /\ p \in exists /\ s \notin flagged[p]
  /\ flagged' = [flagged EXCEPT ![p] = @ \cup {s}]
  /\ created' = [created EXCEPT ![p] = @ \cup {s}]
  /\ Transaction(p)
  /\ UNCHANGED exists

ClearArray(p, s) ==
  /\ p \in exists /\ s \in flagged[p]
  /\ flagged' = [flagged EXCEPT ![p] = @ \ {s}]
  /\ Transaction(p)
  /\ UNCHANGED <<exists, created>>

-----------------------------------------------------------------------------
(* The fetch                                                               *)

CallFailsSkips ==  \* mutant: an error skips the pool
  /\ pc \in Reading
  /\ pc' = IF pc = "list" THEN "failed" ELSE "next"
  /\ UNCHANGED <<chain, listed, todo, cache, info, infos>>

\* Any call may fail: the node refuses, too many keys included, or does not answer, an
\* account is missing or does not deserialize.  The error ends the whole fetch.
CallFails ==
  /\ pc \in Reading
  /\ pc' = "failed"
  /\ UNCHANGED <<chain, listed, todo, cache, info, infos>>

\* get_program_accounts_with_config: all pools at one moment.  arrays is what the
\* bitmaps hold then; the code is given the near part of it only.
ListPools ==
  /\ pc = "list"
  /\ listed' = [p \in exists |-> [version |-> version[p], arrays |-> flagged[p]]]
  /\ todo' = exists
  /\ pc' = "next"
  /\ UNCHANGED <<chain, cache, info, infos>>

\* Next pool of the vector, whose order the node chooses.
NextPool(p) ==
  /\ pc = "next" /\ p \in todo
  /\ todo' = todo \ {p}
  /\ info' = [NoInfo EXCEPT !.id = p]
  /\ pc' = "mint_a"
  /\ UNCHANGED <<chain, listed, cache, infos>>

CurrentMint == IF pc = "mint_a" THEN MintA[info.id] ELSE MintB[info.id]

SetMintOnce(v) ==  \* mutant: the second mint is not read
  /\ info' = [info EXCEPT !.mint_a = v]
  /\ pc' = "config"
  /\ UNCHANGED <<chain, listed, todo, infos>>

SetMint(v) ==
  /\ info' = IF pc = "mint_a" THEN [info EXCEPT !.mint_a = v] ELSE [info EXCEPT !.mint_b = v]
  /\ pc' = IF pc = "mint_a" THEN "mint_b" ELSE "config"
  /\ UNCHANGED <<chain, listed, todo, infos>>

\* get_mint_info, from the cache without a call.
MintCached ==
  /\ pc \in {"mint_a", "mint_b"} /\ cache[CurrentMint] # None
  /\ SetMint(cache[CurrentMint])
  /\ UNCHANGED cache

MintFetchedUncached ==  \* mutant: what was fetched is not put into the cache
  /\ pc \in {"mint_a", "mint_b"} /\ cache[CurrentMint] = None
  /\ SetMint(version[CurrentMint])
  /\ UNCHANGED cache

\* get_mint_info, from the chain.
MintFetched ==
  /\ pc \in {"mint_a", "mint_b"} /\ cache[CurrentMint] = None
  /\ SetMint(version[CurrentMint])
  /\ cache' = [cache EXCEPT ![CurrentMint] = version[CurrentMint]]

\* The configuration is not cached.
ReadConfig ==
  /\ pc = "config"
  /\ info' = [info EXCEPT !.config = version[ConfigOf[info.id]]]
  /\ pc' = "extension"
  /\ UNCHANGED <<chain, listed, todo, cache, infos>>

ReadExtension ==
  /\ pc = "extension"
  /\ info' = [info EXCEPT !.far = flagged[info.id] \cap Far]
  /\ pc' = "arrays"
  /\ UNCHANGED <<chain, listed, todo, cache, infos>>

KeysWithoutExtension == listed[info.id].arrays \cap Near  \* mutant: the extension is not used

KeysOfAll == Near \cup info.far  \* mutant: the bits of the pool's own bitmap are not tested

\* calculate_all_tick_array_keys: the bits of the listed pool and of the later extension.
Keys == (listed[info.id].arrays \cap Near) \cup info.far

PoolInfo ==
  [id |-> info.id, mint_a |-> info.mint_a, mint_b |-> info.mint_b, config |-> info.config,
   pool |-> listed[info.id].version, arrays |-> version[info.id], keys |-> Keys]

\* All arrays of the pool in one call; data.unwrap() panics on an array that does not
\* exist.
ReadArrays ==
  /\ pc = "arrays"
  /\ IF Keys \subseteq created[info.id]
     THEN infos' = Append(infos, PoolInfo) /\ pc' = "next"
     ELSE UNCHANGED infos /\ pc' = "panicked"
  /\ UNCHANGED <<chain, listed, todo, cache, info>>

Reply ==
  /\ pc = "next" /\ todo = {}
  /\ pc' = "done"
  /\ UNCHANGED <<chain, listed, todo, cache, info, infos>>

ChainStep ==
  \/ \E a \in Account : Write(a)
  \/ \E p \in Pool : CreatePool(p) \/ \E s \in Near \cup Far : FlagArray(p, s) \/ ClearArray(p, s)

FetchStep ==
  \/ CallFails \/ ListPools \/ (\E p \in Pool : NextPool(p))
  \/ MintCached \/ MintFetched \/ ReadConfig \/ ReadExtension \/ ReadArrays \/ Reply

Next == ChainStep \/ FetchStep

Spec == Init /\ [][Next]_vars

-----------------------------------------------------------------------------
(* Properties                                                              *)

Version == Nat \cup {None}

TypeOK ==
  /\ exists \subseteq Pool /\ version \in [Account -> Nat]
  /\ flagged \in [Pool -> SUBSET (Near \cup Far)] /\ created \in [Pool -> SUBSET (Near \cup Far)]
  /\ moves \in Nat
  /\ pc \in Reading \cup {"next"} \cup Ended
  /\ DOMAIN listed \subseteq Pool
  /\ \A p \in DOMAIN listed : listed[p] \in [version : Nat, arrays : SUBSET (Near \cup Far)]
  /\ todo \subseteq DOMAIN listed
  /\ cache \in [Mint -> Version]
  /\ info \in [id : Pool \cup {None}, mint_a : Version, mint_b : Version,
               config : Version, far : SUBSET Far]
  /\ pc \in {"mint_a", "mint_b", "config", "extension", "arrays"} => info.id \in DOMAIN listed
  /\ infos \in Seq([id : Pool, mint_a : Nat, mint_b : Nat, config : Nat, pool : Nat,
                    arrays : Nat, keys : SUBSET (Near \cup Far)])

\* The mint information of a fetched pool on the side of mint m.
MintSeen(i, m) == IF MintA[infos[i].id] = m THEN infos[i].mint_a ELSE infos[i].mint_b

\* Two pools with a mint in common carry the same information about it, although a
\* transfer fee may change during the fetch: a route prices the fee of its intermediate
\* mint once per hop, and the hops must agree.
MintsAgree ==
  \A i, j \in 1..Len(infos) : \A m \in Mint :
    /\ m \in {MintA[infos[i].id], MintB[infos[i].id]}
    /\ m \in {MintA[infos[j].id], MintB[infos[j].id]}
    => MintSeen(i, m) = MintSeen(j, m)

\* data.unwrap() never aborts a quote: a bit read before the arrays names an array that
\* still exists when they are read, whatever the chain does in between.
NeverAborts == pc # "panicked"

\* All or nothing: a fetch that answers returns every pool that existed when the pools
\* were listed, once, whatever was created meanwhile.
FetchComplete ==
  pc = "done" => /\ {infos[i].id : i \in 1..Len(infos)} = DOMAIN listed
                 /\ Len(infos) = Cardinality(DOMAIN listed)

\* The parts of a pool never run backwards, and a pool no transaction touched until its
\* arrays were read is returned as the chain has it, with no array missing and none too
\* many, also those flagged in the extension.
UntornIsExact ==
  \A i \in 1..Len(infos) :
    LET p == infos[i].id
    IN  /\ p \in DOMAIN listed
        /\ infos[i].pool = listed[p].version /\ infos[i].pool <= infos[i].arrays
        /\ infos[i].arrays = listed[p].version => infos[i].keys = listed[p].arrays
=============================================================================
