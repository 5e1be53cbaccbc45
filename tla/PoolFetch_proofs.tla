---------------------------- MODULE PoolFetch_proofs ----------------------------
(***************************************************************************)
(* What a fetch that overlaps the chain's own transactions may return, for *)
(* any number of pools, mints, tick arrays and transactions.               *)
(*                                                                         *)
(* The argument: a transaction only adds array accounts and only raises    *)
(* counts (ChainMoves), so what was read stays true of the past; and a     *)
(* cache entry, once set, is never overwritten, so every fetched pool      *)
(* agrees with the cache and therefore with every other pool.              *)
(***************************************************************************)
EXTENDS PoolFetch, FiniteSetTheorems, FunctionTheorems, TLAPS

\* The reads made so far are filled in and are those of the cache.
Collected ==
  /\ pc \in {"mint_b", "config", "extension", "arrays"} =>
       info.mint_a \in Nat /\ cache[MintA[info.id]] = info.mint_a
  /\ pc \in {"config", "extension", "arrays"} =>
       info.mint_b \in Nat /\ cache[MintB[info.id]] = info.mint_b
  /\ pc \in {"extension", "arrays"} => info.config \in Nat

\* Every fetched pool carries the cached mints.
FromCache ==
  \A i \in 1..Len(infos) :
    /\ cache[MintA[infos[i].id]] = infos[i].mint_a
    /\ cache[MintB[infos[i].id]] = infos[i].mint_b

\* The bits read earlier name accounts that still exist, and they are those of the
\* chain as long as the pool was not written since.
ReadsHold ==
  /\ \A p \in Pool : flagged[p] \subseteq created[p]
  /\ \A p \in DOMAIN listed :
       /\ listed[p].arrays \subseteq created[p]
       /\ listed[p].version <= version[p]
       /\ version[p] = listed[p].version => flagged[p] = listed[p].arrays
  /\ pc = "arrays" =>
       /\ info.far \subseteq created[info.id]
       /\ version[info.id] = listed[info.id].version => info.far = listed[info.id].arrays \cap Far

TypeInv == TypeOK /\ Collected

fetch == <<pc, listed, todo, cache, info, infos>>

-----------------------------------------------------------------------------
(* The chain                                                               *)

\* A transaction changes nothing the fetch has read, only adds pools and array
\* accounts, only raises counts, and changes the bits of a pool together with its count.
LEMMA ChainMoves ==
  ASSUME TypeOK, ChainStep
  PROVE  /\ UNCHANGED fetch
         /\ exists \subseteq exists' /\ exists' \subseteq Pool
         /\ version' \in [Account -> Nat] /\ moves' \in Nat
         /\ flagged' \in [Pool -> SUBSET (Near \cup Far)]
         /\ created' \in [Pool -> SUBSET (Near \cup Far)]
         /\ \A a \in Account : version[a] <= version'[a]
         /\ \A p \in Pool :
              /\ created[p] \subseteq created'[p]
              /\ version'[p] = version[p] => flagged'[p] = flagged[p]
              /\ flagged[p] \subseteq created[p] => flagged'[p] \subseteq created'[p]
<1>1. ASSUME NEW a \in Account, Transaction(a)
      PROVE  /\ UNCHANGED fetch
             /\ version' \in [Account -> Nat] /\ moves' \in Nat
             /\ \A b \in Account : version[b] <= version'[b]
             /\ version'[a] # version[a]
  BY <1>1 DEF Transaction, TypeOK, fetch
<1>2. Pool \subseteq Account
  BY DEF Account
<1>3. CASE \E a \in Account : Write(a)
  BY <1>1, <1>3 DEF Write, TypeOK
<1>4. ASSUME NEW p \in Pool, CreatePool(p)
      PROVE  /\ Transaction(p) /\ exists' = exists \cup {p} /\ UNCHANGED <<flagged, created>>
  BY <1>4 DEF CreatePool
<1>5. CASE \E p \in Pool : CreatePool(p)
  BY <1>1, <1>2, <1>4, <1>5 DEF TypeOK
<1>6. ASSUME NEW p \in Pool, NEW s \in Near \cup Far, FlagArray(p, s) \/ ClearArray(p, s)
      PROVE  /\ Transaction(p) /\ UNCHANGED exists
             /\ flagged' \in [Pool -> SUBSET (Near \cup Far)]
             /\ created' \in [Pool -> SUBSET (Near \cup Far)]
             /\ \A q \in Pool :
                  /\ created[q] \subseteq created'[q]
                  /\ q # p => flagged'[q] = flagged[q]
                  /\ flagged[q] \subseteq created[q] => flagged'[q] \subseteq created'[q]
  <2>1. CASE FlagArray(p, s)
    BY <2>1 DEF FlagArray, TypeOK
  <2>2. CASE ClearArray(p, s)
    BY <2>2 DEF ClearArray, TypeOK
  <2> QED
    BY <1>6, <2>1, <2>2
<1>7. CASE \E p \in Pool : \E s \in Near \cup Far : FlagArray(p, s) \/ ClearArray(p, s)
  <2>1. PICK p \in Pool, s \in Near \cup Far : FlagArray(p, s) \/ ClearArray(p, s)
    BY <1>7
  <2>2. /\ UNCHANGED fetch
        /\ version' \in [Account -> Nat] /\ moves' \in Nat
        /\ \A b \in Account : version[b] <= version'[b]
        /\ version'[p] # version[p]
    BY <1>1, <1>2, <1>6, <2>1
  <2>3. exists \subseteq exists' /\ exists' \subseteq Pool
    BY <1>6, <2>1 DEF TypeOK
  <2> QED
    BY <1>6, <2>1, <2>2, <2>3
<1> QED
  BY <1>3, <1>5, <1>7 DEF ChainStep

-----------------------------------------------------------------------------
(* Type correctness                                                        *)

\* At the start nothing was read.
LEMMA InitType == Init => TypeInv
BY PoolFetchAssumption
DEF Init, TypeInv, TypeOK, Collected, NoInfo, Version, Reading, Ended, Account

\* What the visit of a pool reads of a mint is a count, from the cache or the chain.
LEMMA MintStep ==
  ASSUME TypeInv, MintCached \/ MintFetched
  PROVE  \E v \in Nat :
           /\ pc \in {"mint_a", "mint_b"} /\ SetMint(v)
           /\ CurrentMint \in Mint /\ info.id \in Pool
           /\ cache' \in [Mint -> Version] /\ cache'[CurrentMint] = v
           /\ \A m \in Mint : cache[m] # None => cache'[m] = cache[m]
<1>1. info.id \in Pool /\ pc \in {"mint_a", "mint_b"}
  BY DEF TypeInv, TypeOK, MintCached, MintFetched
<1>2. CurrentMint \in Mint
  BY <1>1, PoolFetchAssumption DEF CurrentMint
<1>3. CASE MintCached
  BY <1>1, <1>2, <1>3, PoolFetchAssumption DEF MintCached, TypeInv, TypeOK, Version
<1>4. CASE MintFetched
  <2>1. version[CurrentMint] \in Nat
    BY <1>2 DEF TypeInv, TypeOK, Account
  <2>2. cache' \in [Mint -> Version] /\ cache'[CurrentMint] = version[CurrentMint]
    BY <1>2, <1>4, <2>1 DEF MintFetched, TypeInv, TypeOK, Version
  <2>3. \A m \in Mint : cache[m] # None => cache'[m] = cache[m]
    BY <1>2, <1>4 DEF MintFetched, TypeInv, TypeOK
  <2> QED
    BY <1>1, <1>2, <1>4, <2>1, <2>2, <2>3 DEF MintFetched
<1> QED
  BY <1>3, <1>4

\* The record pushed for a pool is complete.
LEMMA PushedType ==
  ASSUME TypeInv, pc = "arrays"
  PROVE  /\ info.id \in DOMAIN listed /\ info.id \in Pool
         /\ Keys \subseteq Near \cup Far
         /\ PoolInfo \in [id : Pool, mint_a : Nat, mint_b : Nat, config : Nat, pool : Nat,
                          arrays : Nat, keys : SUBSET (Near \cup Far)]
<1>1. info.id \in DOMAIN listed /\ info.id \in Pool
  BY DEF TypeInv, TypeOK
<1>2. Keys \subseteq Near \cup Far
  BY <1>1 DEF Keys, TypeInv, TypeOK
<1>3. info.mint_a \in Nat /\ info.mint_b \in Nat /\ info.config \in Nat
  BY DEF TypeInv, Collected
<1>4. listed[info.id].version \in Nat /\ version[info.id] \in Nat
  BY <1>1 DEF TypeInv, TypeOK, Account
<1> QED
  BY <1>1, <1>2, <1>3, <1>4 DEF PoolInfo

\* Every step keeps the types and fills the record in order.
LEMMA NextType == TypeInv /\ [Next]_vars => TypeInv'
<1> SUFFICES ASSUME TypeInv, [Next]_vars PROVE TypeInv'
  OBVIOUS
<1>0. TypeOK /\ Collected
  BY DEF TypeInv
<1>1. CASE ChainStep
  BY <1>0, <1>1, ChainMoves DEF TypeInv, TypeOK, Collected, fetch
<1>2. CASE CallFails
  BY <1>0, <1>2 DEF CallFails, TypeInv, TypeOK, Collected, Reading, Ended, chain
<1>3. CASE ListPools
  <2>1. /\ UNCHANGED <<chain, cache, infos>> /\ info' = info /\ pc = "list" /\ pc' = "next"
        /\ todo' = exists /\ DOMAIN listed' = exists
        /\ \A p \in DOMAIN listed' : listed'[p] \in [version : Nat, arrays : SUBSET (Near \cup Far)]
    BY <1>0, <1>3 DEF ListPools, TypeOK, Account
  <2> QED
    BY <1>0, <2>1 DEF TypeInv, TypeOK, Collected, chain
<1>4. ASSUME NEW p \in Pool, NextPool(p) PROVE TypeInv'
  <2>1. /\ UNCHANGED <<chain, listed, cache, infos>> /\ p \in DOMAIN listed
        /\ todo' \subseteq DOMAIN listed' /\ pc' = "mint_a"
        /\ info' = [id |-> p, mint_a |-> None, mint_b |-> None, config |-> None, far |-> {}]
    BY <1>0, <1>4 DEF NextPool, NoInfo, TypeOK
  <2>2. info' \in [id : Pool \cup {None}, mint_a : Version, mint_b : Version,
                  config : Version, far : SUBSET Far]
    BY <2>1 DEF Version
  <2>3. Collected'
    BY <2>1 DEF Collected
  <2>4. TypeOK'
    BY <1>0, <2>1, <2>2 DEF TypeOK, Reading, chain
  <2> QED
    BY <2>3, <2>4 DEF TypeInv
<1>5. CASE MintCached \/ MintFetched
  <2>1. PICK v \in Nat :
           /\ pc \in {"mint_a", "mint_b"} /\ SetMint(v)
           /\ CurrentMint \in Mint /\ info.id \in Pool
           /\ cache' \in [Mint -> Version] /\ cache'[CurrentMint] = v
           /\ \A m \in Mint : cache[m] # None => cache'[m] = cache[m]
    BY <1>5, MintStep
  <2>2. UNCHANGED <<chain, listed, todo, infos>>
    BY <2>1 DEF SetMint
  <2>3. CASE pc = "mint_a"
    <3>1. pc' = "mint_b" /\ info' = [info EXCEPT !.mint_a = v] /\ CurrentMint = MintA[info.id]
      BY <2>1, <2>3 DEF SetMint, CurrentMint
    <3> QED
      BY <1>0, <2>1, <2>2, <2>3, <3>1 DEF TypeInv, TypeOK, Collected, Version, Reading, chain
  <2>4. CASE pc = "mint_b"
    <3>1. pc' = "config" /\ info' = [info EXCEPT !.mint_b = v] /\ CurrentMint = MintB[info.id]
      BY <2>1, <2>4 DEF SetMint, CurrentMint
    <3>2. MintA[info.id] \in Mint /\ cache[MintA[info.id]] = info.mint_a /\ info.mint_a \in Nat
      BY <1>0, <2>1, <2>4, PoolFetchAssumption DEF Collected
    <3>3. cache'[MintA[info.id]] = info.mint_a
      BY <2>1, <3>2, PoolFetchAssumption
    <3>4. Collected'
      BY <1>0, <2>1, <3>1, <3>2, <3>3 DEF Collected, TypeOK
    <3>5. TypeOK'
      BY <1>0, <2>1, <2>2, <2>4, <3>1 DEF TypeOK, Version, Reading, chain
    <3> QED
      BY <3>4, <3>5 DEF TypeInv
  <2> QED
    BY <2>1, <2>3, <2>4
<1>6. CASE ReadConfig
  <2>1. info.id \in Pool /\ version[ConfigOf[info.id]] \in Nat
    BY <1>0, <1>6, PoolFetchAssumption DEF ReadConfig, TypeOK, Account
  <2> QED
    BY <1>0, <1>6, <2>1 DEF ReadConfig, TypeInv, TypeOK, Collected, Version, Reading, chain
<1>7. CASE ReadExtension
  BY <1>0, <1>7 DEF ReadExtension, TypeInv, TypeOK, Collected, Reading, chain
<1>8. CASE ReadArrays
  <2>1. pc = "arrays" /\ UNCHANGED <<chain, listed, todo, cache, info>> /\ pc' \in {"next", "panicked"}
        /\ (infos' = infos \/ infos' = Append(infos, PoolInfo))
    BY <1>8 DEF ReadArrays
  <2>2. infos' \in Seq([id : Pool, mint_a : Nat, mint_b : Nat, config : Nat, pool : Nat,
                        arrays : Nat, keys : SUBSET (Near \cup Far)])
    <3> DEFINE Record == [id : Pool, mint_a : Nat, mint_b : Nat, config : Nat, pool : Nat,
                          arrays : Nat, keys : SUBSET (Near \cup Far)]
    <3>1. infos \in Seq(Record)
      BY <1>0 DEF TypeOK
    <3>2. PoolInfo \in Record
      BY <2>1, PushedType
    <3> HIDE DEF Record
    <3>3. Append(infos, PoolInfo) \in Seq(Record)
      BY <3>1, <3>2
    <3>4. infos' \in Seq(Record)
      BY <2>1, <3>1, <3>3
    <3> QED
      BY <3>4 DEF Record
  <2> QED
    BY <1>0, <2>1, <2>2 DEF TypeInv, TypeOK, Collected, Ended, chain
<1>9. CASE Reply
  BY <1>0, <1>9 DEF Reply, TypeInv, TypeOK, Collected, Ended, chain
<1>10. CASE UNCHANGED vars
  BY <1>0, <1>10 DEF vars, chain, TypeInv, TypeOK, Collected
<1> QED
  BY <1>1, <1>2, <1>3, <1>4, <1>5, <1>6, <1>7, <1>8, <1>9, <1>10 DEF Next, FetchStep

\* Every record pushed is complete: no pool is returned without one of its reads.
THEOREM TypeCorrect == Spec => []TypeOK
<1>1. TypeInv => TypeOK
  BY DEF TypeInv
<1> QED
  BY <1>1, InitType, NextType, PTL DEF Spec

-----------------------------------------------------------------------------
(* Mints                                                                   *)

\* The steps of the fetch but the last read of a pool leave the fetched pools alone.
LEMMA KeepsInfos ==
  ASSUME [Next]_vars, ~ReadArrays
  PROVE  infos' = infos
BY DEF Next, FetchStep, ChainStep, Write, CreatePool, FlagArray, ClearArray, Transaction,
       CallFails, ListPools, NextPool, MintCached, MintFetched, SetMint, ReadConfig,
       ReadExtension, Reply, vars

\* No step replaces a cache entry.
LEMMA CacheKept ==
  ASSUME TypeInv, [Next]_vars
  PROVE  \A m \in Mint : cache[m] # None => cache'[m] = cache[m]
<1>1. CASE MintCached \/ MintFetched
  BY <1>1, MintStep
<1>2. CASE ~(MintCached \/ MintFetched)
  <2>1. UNCHANGED cache
    BY <1>2 DEF Next, FetchStep, ChainStep, Write, CreatePool, FlagArray, ClearArray, Transaction,
                CallFails, ListPools, NextPool, ReadConfig, ReadExtension, ReadArrays, Reply, vars
  <2> QED
    BY <2>1
<1> QED
  BY <1>1, <1>2

\* What a step leaves of the fetched pools, and what it can add to them.
LEMMA InfosGrow ==
  ASSUME TypeInv, [Next]_vars
  PROVE  \A i \in 1..Len(infos') :
           \/ i \in 1..Len(infos) /\ infos'[i] = infos[i]
           \/ ReadArrays /\ pc = "arrays" /\ infos'[i] = PoolInfo
<1>1. CASE ~ReadArrays
  BY <1>1, KeepsInfos
<1>2. CASE ReadArrays
  <2> DEFINE Record == [id : Pool, mint_a : Nat, mint_b : Nat, config : Nat, pool : Nat,
                        arrays : Nat, keys : SUBSET (Near \cup Far)]
  <2>1. pc = "arrays" /\ (infos' = infos \/ infos' = Append(infos, PoolInfo))
    BY <1>2 DEF ReadArrays
  <2>2. infos \in Seq(Record)
    BY DEF TypeInv, TypeOK
  <2> HIDE DEF Record
  <2>3. CASE infos' = Append(infos, PoolInfo)
    <3>1. /\ Len(infos') = Len(infos) + 1 /\ infos'[Len(infos) + 1] = PoolInfo
          /\ \A i \in 1..Len(infos) : infos'[i] = infos[i]
      BY <2>2, <2>3
    <3>2. Len(infos) \in Nat
      BY <2>2
    <3>3. \A i \in 1..Len(infos') : i \in 1..Len(infos) \/ i = Len(infos) + 1
      BY <3>1, <3>2
    <3> QED
      BY <1>2, <2>1, <3>1, <3>3
  <2> QED
    BY <2>1, <2>3
<1> QED
  BY <1>1, <1>2

\* A fetched pool has the accounts of its type.
LEMMA FetchedType ==
  ASSUME TypeInv, NEW i \in 1..Len(infos)
  PROVE  infos[i] \in [id : Pool, mint_a : Nat, mint_b : Nat, config : Nat, pool : Nat,
                       arrays : Nat, keys : SUBSET (Near \cup Far)]
<1> DEFINE Record == [id : Pool, mint_a : Nat, mint_b : Nat, config : Nat, pool : Nat,
                      arrays : Nat, keys : SUBSET (Near \cup Far)]
<1>1. infos \in Seq(Record)
  BY DEF TypeInv, TypeOK
<1> HIDE DEF Record
<1>2. infos[i] \in Record
  BY <1>1
<1> QED
  BY <1>2 DEF Record

\* A pool is pushed with the cached mints, and they stay in the cache.
LEMMA FromCacheNext == TypeInv /\ FromCache /\ [Next]_vars => FromCache'
<1> SUFFICES ASSUME TypeInv, FromCache, [Next]_vars, NEW i \in 1..Len(infos')
             PROVE  /\ cache'[MintA[infos'[i].id]] = infos'[i].mint_a
                    /\ cache'[MintB[infos'[i].id]] = infos'[i].mint_b
  BY DEF FromCache
<1>1. CASE i \in 1..Len(infos) /\ infos'[i] = infos[i]
  <2>1. infos[i].id \in Pool /\ infos[i].mint_a \in Nat /\ infos[i].mint_b \in Nat
    BY <1>1, FetchedType
  <2>2. MintA[infos[i].id] \in Mint /\ MintB[infos[i].id] \in Mint
    BY <2>1, PoolFetchAssumption
  <2>3. /\ cache[MintA[infos[i].id]] = infos[i].mint_a
        /\ cache[MintB[infos[i].id]] = infos[i].mint_b
    BY <1>1 DEF FromCache
  <2> QED
    BY <1>1, <2>1, <2>2, <2>3, CacheKept, PoolFetchAssumption
<1>2. CASE ReadArrays /\ pc = "arrays" /\ infos'[i] = PoolInfo
  <2>1. infos'[i].id = info.id /\ infos'[i].mint_a = info.mint_a /\ infos'[i].mint_b = info.mint_b
    BY <1>2 DEF PoolInfo
  <2>2. cache[MintA[info.id]] = info.mint_a /\ cache[MintB[info.id]] = info.mint_b
    BY <1>2 DEF TypeInv, Collected
  <2>3. cache' = cache
    BY <1>2 DEF ReadArrays
  <2> QED
    BY <2>1, <2>2, <2>3
<1> QED
  BY <1>1, <1>2, InfosGrow

\* Whatever happens to a mint during the fetch, all pools of one answer agree about it.
THEOREM SharedMintsAgree == Spec => []MintsAgree
<1>1. Init => FromCache
  BY DEF Init, FromCache
<1>2. TypeInv /\ FromCache => MintsAgree
  <2> SUFFICES ASSUME TypeInv, FromCache,
                      NEW i \in 1..Len(infos), NEW j \in 1..Len(infos), NEW m \in Mint,
                      m \in {MintA[infos[i].id], MintB[infos[i].id]},
                      m \in {MintA[infos[j].id], MintB[infos[j].id]}
               PROVE  MintSeen(i, m) = MintSeen(j, m)
    BY DEF MintsAgree
  <2>1. MintSeen(i, m) = cache[m]
    BY DEF FromCache, MintSeen
  <2>2. MintSeen(j, m) = cache[m]
    BY DEF FromCache, MintSeen
  <2> QED
    BY <2>1, <2>2
<1> QED
  BY <1>1, <1>2, InitType, NextType, FromCacheNext, PTL DEF Spec

-----------------------------------------------------------------------------
(* Tick arrays                                                             *)

\* What was read stays true of the past whatever the chain does.
LEMMA ReadsHoldChain == TypeInv /\ ReadsHold /\ ChainStep => ReadsHold'
<1> SUFFICES ASSUME TypeInv, ReadsHold, ChainStep PROVE ReadsHold'
  OBVIOUS
<1>1. TypeOK /\ UNCHANGED fetch
  BY ChainMoves DEF TypeInv
<1>2. ASSUME NEW p \in Pool
      PROVE  /\ created[p] \subseteq created'[p]
             /\ version'[p] = version[p] => flagged'[p] = flagged[p]
             /\ flagged'[p] \subseteq created'[p]
             /\ version[p] \in Nat /\ version'[p] \in Nat /\ version[p] <= version'[p]
  BY <1>1, ChainMoves DEF ReadsHold, Account, TypeOK
<1>3. ASSUME NEW p \in DOMAIN listed
      PROVE  /\ listed[p].arrays \subseteq created'[p]
             /\ listed[p].version <= version'[p]
             /\ version'[p] = listed[p].version => version[p] = listed[p].version
             /\ version'[p] = listed[p].version => flagged'[p] = listed[p].arrays
  <2>1. p \in Pool /\ listed[p].version \in Nat
    BY <1>1 DEF TypeOK
  <2>2. /\ listed[p].arrays \subseteq created[p] /\ listed[p].version <= version[p]
        /\ version[p] = listed[p].version => flagged[p] = listed[p].arrays
    BY DEF ReadsHold
  <2> QED
    BY <1>2, <2>1, <2>2
<1>4. ASSUME pc = "arrays"
      PROVE  /\ info.far \subseteq created'[info.id]
             /\ version'[info.id] = listed[info.id].version => info.far = listed[info.id].arrays \cap Far
  <2>1. info.id \in DOMAIN listed /\ info.id \in Pool
    BY <1>1, <1>4 DEF TypeOK
  <2>2. /\ info.far \subseteq created[info.id]
        /\ version[info.id] = listed[info.id].version => info.far = listed[info.id].arrays \cap Far
    BY <1>4 DEF ReadsHold
  <2> QED
    BY <1>2, <1>3, <2>1, <2>2
<1> QED
  BY <1>1, <1>2, <1>3, <1>4 DEF ReadsHold, fetch

\* So it does when the fetch goes on.
LEMMA ReadsHoldNext == TypeInv /\ ReadsHold /\ [Next]_vars => ReadsHold'
<1> SUFFICES ASSUME TypeInv, ReadsHold, [Next]_vars PROVE ReadsHold'
  OBVIOUS
<1>0. TypeOK
  BY DEF TypeInv
<1>1. CASE ChainStep
  BY <1>1, ReadsHoldChain
<1>2. CASE ListPools
  BY <1>0, <1>2 DEF ListPools, ReadsHold, TypeOK, Account, chain
<1>3. CASE ReadExtension
  <2>1. info.id \in DOMAIN listed /\ info.id \in Pool
    BY <1>0, <1>3 DEF ReadExtension, TypeOK
  <2>2. UNCHANGED <<chain, listed>> /\ info'.id = info.id /\ info'.far = flagged[info.id] \cap Far
    BY <1>0, <1>3 DEF ReadExtension, TypeOK
  <2> QED
    BY <2>1, <2>2 DEF ReadsHold, chain
<1>4. CASE ~ChainStep /\ ~ListPools /\ ~ReadExtension
  <2>1. UNCHANGED <<chain, listed>> /\ (pc' = "arrays" => pc = "arrays" /\ info' = info)
    BY <1>4 DEF Next, FetchStep, CallFails, NextPool, MintCached, MintFetched, SetMint, ReadConfig,
                ReadArrays, Reply, vars, chain
  <2> QED
    BY <2>1 DEF ReadsHold, chain
<1> QED
  BY <1>1, <1>2, <1>3, <1>4

\* The arrays asked for exist when they are read.
LEMMA KeysExist ==
  ASSUME TypeInv, ReadsHold, pc = "arrays"
  PROVE  Keys \subseteq created[info.id]
BY PushedType DEF ReadsHold, Keys

\* The unwrap of a fetched tick array never aborts, however the chain moves.
THEOREM NoAbort == Spec => []NeverAborts
<1>1. Init => ReadsHold
  BY DEF Init, ReadsHold
<1>2. Init => NeverAborts
  BY DEF Init, NeverAborts
<1>3. TypeInv /\ ReadsHold /\ NeverAborts /\ [Next]_vars => NeverAborts'
  <2> SUFFICES ASSUME TypeInv, ReadsHold, NeverAborts, [Next]_vars PROVE NeverAborts'
    OBVIOUS
  <2>1. CASE ReadArrays
    BY <2>1, KeysExist DEF ReadArrays, NeverAborts
  <2>2. CASE ~ReadArrays
    BY <2>2 DEF NeverAborts, Next, FetchStep, ChainStep, Write, CreatePool, FlagArray, ClearArray,
                Transaction, CallFails, ListPools, NextPool, MintCached, MintFetched, SetMint,
                ReadConfig, ReadExtension, Reply, vars
  <2> QED
    BY <2>1, <2>2
<1> QED
  BY <1>1, <1>2, <1>3, InitType, NextType, ReadsHoldNext, PTL DEF Spec

\* The pools are listed once, before any is fetched.
LEMMA ListedOnce == TypeInv /\ (pc = "list" => infos = <<>>) /\ [Next]_vars
                      => (pc' = "list" => infos' = <<>>)
BY DEF Next, FetchStep, ChainStep, Write, CreatePool, FlagArray, ClearArray, Transaction,
       CallFails, ListPools, NextPool, MintCached, MintFetched, SetMint, ReadConfig,
       ReadExtension, ReadArrays, Reply, vars

\* An untorn pool is returned as the chain had it; a torn one never runs backwards.
THEOREM UntornPoolsAreExact == Spec => []UntornIsExact
<1> DEFINE Empty == pc = "list" => infos = <<>>
<1>1. Init => ReadsHold /\ Empty /\ UntornIsExact
  BY DEF Init, ReadsHold, UntornIsExact
<1>2. TypeInv /\ ReadsHold /\ Empty /\ UntornIsExact /\ [Next]_vars => UntornIsExact'
  <2> SUFFICES ASSUME TypeInv, ReadsHold, Empty, UntornIsExact, [Next]_vars,
                      NEW i \in 1..Len(infos')
               PROVE  LET p == infos'[i].id
                      IN  /\ p \in DOMAIN listed'
                          /\ infos'[i].pool = listed'[p].version /\ infos'[i].pool <= infos'[i].arrays
                          /\ infos'[i].arrays = listed'[p].version => infos'[i].keys = listed'[p].arrays
    BY DEF UntornIsExact
  <2>1. CASE i \in 1..Len(infos) /\ infos'[i] = infos[i]
    <3>1. ~ListPools
      BY <2>1 DEF ListPools
    <3>2. listed' = listed
      BY <3>1 DEF Next, FetchStep, ChainStep, Write, CreatePool, FlagArray, ClearArray, Transaction,
                  CallFails, NextPool, MintCached, MintFetched, SetMint, ReadConfig,
                  ReadExtension, ReadArrays, Reply, vars
    <3> QED
      BY <2>1, <3>2 DEF UntornIsExact
  <2>2. CASE ReadArrays /\ pc = "arrays" /\ infos'[i] = PoolInfo
    <3>1. listed' = listed /\ info.id \in DOMAIN listed /\ info.id \in Pool
      BY <2>2, PushedType DEF ReadArrays
    <3>2. /\ infos'[i].id = info.id /\ infos'[i].pool = listed[info.id].version
          /\ infos'[i].arrays = version[info.id] /\ infos'[i].keys = Keys
      BY <2>2 DEF PoolInfo
    <3>3. listed[info.id].version <= version[info.id]
      BY <3>1 DEF ReadsHold
    <3>4. ASSUME version[info.id] = listed[info.id].version PROVE Keys = listed[info.id].arrays
      <4>1. info.far = listed[info.id].arrays \cap Far
        BY <2>2, <3>4 DEF ReadsHold
      <4>2. listed[info.id].arrays \subseteq Near \cup Far
        BY <3>1 DEF TypeInv, TypeOK
      <4> QED
        BY <4>1, <4>2 DEF Keys
    <3> QED
      BY <3>1, <3>2, <3>3, <3>4
  <2> QED
    BY <2>1, <2>2, InfosGrow
<1>3. TypeInv /\ Empty /\ [Next]_vars => Empty'
  BY ListedOnce
<1> QED
  BY <1>1, <1>2, <1>3, InitType, NextType, ReadsHoldNext, PTL DEF Spec

-----------------------------------------------------------------------------
(* Completeness                                                            *)

Fetched == {infos[i].id : i \in 1..Len(infos)}

\* Every listed pool is fetched, being visited or still to do, and only one of them; no
\* pool is fetched twice.
Visited ==
  /\ \A i, j \in 1..Len(infos) : infos[i].id = infos[j].id => i = j
  /\ Fetched \cap todo = {}
  /\ pc = "list" => infos = <<>>
  /\ pc \in {"next", "done"} => Fetched \cup todo = DOMAIN listed
  /\ pc = "done" => todo = {}
  /\ pc \in {"mint_a", "mint_b", "config", "extension", "arrays"} =>
       /\ Fetched \cup todo \cup {info.id} = DOMAIN listed
       /\ info.id \notin Fetched \cup todo

\* What a step that pushes nothing leaves of the fetched pools.
LEMMA SameFetched == infos' = infos => Fetched' = Fetched
BY DEF Fetched

\* The visited pool joins the fetched ones with the last read.
LEMMA FetchedGrows ==
  ASSUME TypeInv, infos' = Append(infos, PoolInfo)
  PROVE  /\ Len(infos) \in Nat /\ Len(infos') = Len(infos) + 1
         /\ infos'[Len(infos) + 1].id = info.id
         /\ \A i \in 1..Len(infos) : infos'[i] = infos[i]
         /\ Fetched' = Fetched \cup {info.id}
<1> DEFINE Record == [id : Pool, mint_a : Nat, mint_b : Nat, config : Nat, pool : Nat,
                      arrays : Nat, keys : SUBSET (Near \cup Far)]
<1>1. infos \in Seq(Record)
  BY DEF TypeInv, TypeOK
<1> HIDE DEF Record
<1>2. /\ Len(infos) \in Nat /\ Len(infos') = Len(infos) + 1
      /\ infos'[Len(infos) + 1] = PoolInfo
      /\ \A i \in 1..Len(infos) : infos'[i] = infos[i]
  BY <1>1
<1>3. PoolInfo.id = info.id
  BY DEF PoolInfo
<1>4. 1..Len(infos') = (1..Len(infos)) \cup {Len(infos) + 1}
  BY <1>2
<1>5. Fetched' = Fetched \cup {info.id}
  BY <1>2, <1>3, <1>4 DEF Fetched
<1> QED
  BY <1>2, <1>3, <1>5

\* Visiting and pushing keep the listed pools divided.
LEMMA VisitedNext == TypeInv /\ Visited /\ [Next]_vars => Visited'
<1> SUFFICES ASSUME TypeInv, Visited, [Next]_vars PROVE Visited'
  OBVIOUS
<1>1. CASE ChainStep \/ UNCHANGED vars
  <2>1. UNCHANGED <<pc, listed, todo, info, infos>>
    BY <1>1 DEF ChainStep, Write, CreatePool, FlagArray, ClearArray, Transaction, vars
  <2> QED
    BY <2>1, SameFetched DEF Visited
<1>2. CASE CallFails
  <2>1. pc' = "failed" /\ UNCHANGED <<listed, todo, info, infos>>
    BY <1>2 DEF CallFails
  <2> QED
    BY <2>1, SameFetched DEF Visited
<1>3. CASE ListPools
  <2>1. pc' = "next" /\ infos = <<>> /\ infos' = infos /\ todo' = DOMAIN listed'
    BY <1>3 DEF ListPools, Visited
  <2>2. Fetched' = {} /\ Fetched = {}
    BY <2>1, SameFetched DEF Fetched
  <2> QED
    BY <2>1, <2>2 DEF Visited
<1>4. ASSUME NEW p \in Pool, NextPool(p) PROVE Visited'
  <2>1. /\ pc = "next" /\ p \in todo /\ todo' = todo \ {p} /\ info'.id = p /\ pc' = "mint_a"
        /\ UNCHANGED <<listed, infos>>
    BY <1>4 DEF NextPool, NoInfo
  <2>2. Fetched' = Fetched
    BY <2>1, SameFetched
  <2>3. /\ Fetched \cup todo = DOMAIN listed /\ Fetched \cap todo = {}
        /\ \A i, j \in 1..Len(infos) : infos[i].id = infos[j].id => i = j
    BY <2>1 DEF Visited
  <2>4. /\ Fetched' \cup todo' \cup {info'.id} = DOMAIN listed'
        /\ info'.id \notin Fetched' \cup todo' /\ Fetched' \cap todo' = {}
    BY <2>1, <2>2, <2>3
  <2>5. \A i, j \in 1..Len(infos') : infos'[i].id = infos'[j].id => i = j
    BY <2>1, <2>3
  <2> QED
    BY <2>1, <2>4, <2>5 DEF Visited
<1>5. CASE MintCached \/ MintFetched \/ ReadConfig \/ ReadExtension
  <2>1. info \in [id : Pool \cup {None}, mint_a : Version, mint_b : Version,
                  config : Version, far : SUBSET Far]
    BY DEF TypeInv, TypeOK
  <2>2. /\ pc \in {"mint_a", "mint_b", "config", "extension"}
        /\ pc' \in {"mint_b", "config", "extension", "arrays"}
        /\ UNCHANGED <<listed, todo, infos>> /\ info'.id = info.id
    BY <1>5, <2>1 DEF MintCached, MintFetched, SetMint, ReadConfig, ReadExtension
  <2> QED
    BY <2>2, SameFetched DEF Visited
<1>6. CASE ReadArrays
  <2>1. CASE infos' = infos /\ pc' = "panicked"
    <3>1. UNCHANGED <<listed, todo, info>>
      BY <1>6 DEF ReadArrays
    <3> QED
      BY <2>1, <3>1, SameFetched DEF Visited
  <2>2. CASE infos' = Append(infos, PoolInfo) /\ pc' = "next"
    <3>1. pc = "arrays" /\ UNCHANGED <<listed, todo, info>>
      BY <1>6 DEF ReadArrays
    <3>2. /\ Len(infos) \in Nat /\ Len(infos') = Len(infos) + 1
          /\ infos'[Len(infos) + 1].id = info.id
          /\ \A i \in 1..Len(infos) : infos'[i] = infos[i]
          /\ Fetched' = Fetched \cup {info.id}
      BY <2>2, FetchedGrows
    <3>3. \A i \in 1..Len(infos) : infos[i].id # info.id
      BY <3>1 DEF Visited, Fetched
    <3>4. \A i, j \in 1..Len(infos') : infos'[i].id = infos'[j].id => i = j
      BY <3>2, <3>3 DEF Visited
    <3> QED
      BY <2>2, <3>1, <3>2, <3>4 DEF Visited
  <2> QED
    BY <1>6, <2>1, <2>2 DEF ReadArrays
<1>7. CASE Reply
  <2>1. pc = "next" /\ todo = {} /\ pc' = "done" /\ UNCHANGED <<listed, todo, info, infos>>
    BY <1>7 DEF Reply
  <2> QED
    BY <2>1, SameFetched DEF Visited
<1> QED
  BY <1>1, <1>2, <1>3, <1>4, <1>5, <1>6, <1>7 DEF Next, FetchStep

\* A vector without repetitions is as long as the set of its pools.
LEMMA CountFetched ==
  ASSUME TypeInv, Visited
  PROVE  Len(infos) = Cardinality(Fetched)
<1> DEFINE Ids == [i \in 1..Len(infos) |-> infos[i].id]
<1>1. Len(infos) \in Nat
  BY DEF TypeInv, TypeOK
<1>2. Ids \in Bijection(1..Len(infos), Fetched)
  BY Fun_IsBij DEF Visited, Fetched
<1>3. ExistsBijection(1..Len(infos), Fetched)
  BY <1>2 DEF ExistsBijection
<1> QED
  BY <1>1, <1>3, FS_CountingElements

\* A fetch that answers returns every pool that was listed, once.
THEOREM FetchIsComplete == Spec => []FetchComplete
<1>1. Init => Visited
  BY DEF Init, Visited, Fetched
<1>2. TypeInv /\ Visited => FetchComplete
  <2> SUFFICES ASSUME TypeInv, Visited, pc = "done"
               PROVE  Fetched = DOMAIN listed /\ Len(infos) = Cardinality(DOMAIN listed)
    BY DEF FetchComplete, Fetched
  <2>1. Fetched = DOMAIN listed
    BY DEF Visited
  <2> QED
    BY <2>1, CountFetched
<1> QED
  BY <1>1, <1>2, InitType, NextType, VisitedNext, PTL DEF Spec
=============================================================================
