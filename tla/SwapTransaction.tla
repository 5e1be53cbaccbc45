--------------------------- MODULE SwapTransaction ---------------------------
(***************************************************************************)
(* From a quote to a checked transaction: the client hands the answer of   *)
(* quote_price back to create_swap_transaction, unaltered or not, which    *)
(* reads the pools again, lists the accounts of a swap_v2 or a routing     *)
(* instruction, simulates it, sets the compute units and compiles the      *)
(* transaction; the client signs it and has check_tx compare the two.      *)
(*                                                                         *)
(* Every await may return an error, as may every string that is parsed.    *)
(* The configuration the handler reads twice is NacosConfig's business;    *)
(* the second read, in build_*_tx, gives the basis of the unit factor.     *)
(***************************************************************************)
EXTENDS QuoteAnswer

CONSTANTS
  NoAccount,    \* an input_account left empty
  Asks,         \* quote requests, none of which names native SOL
  Padding,      \* tick array keys a client may add to a plan
  CountWord,    \* the account counts of a routing instruction are modulo this, u8
  MinCu,        \* MIN_CU_INCREASE_AFTER_ADD_COMPUTE_BUDGET_IX
  CuWord,       \* compute unit limits are modulo this, u32
  Units,        \* units a simulation may report (units_consumed)
  Bases,        \* values of cu_factor_basis
  Scale,        \* its unit is 1/Scale, 10000
  Submissions   \* <<pre_data, data>> of the check_tx calls

Ask == [input : Mint, output : Mint, base_input : BOOLEAN, amount : Amount]

\* A transaction sent to check_tx, in relation to the one that was built.
Document == {"unsigned", "signed", "altered", "garbage"}

ASSUME SwapTransactionAssumption ==
  /\ Asks \subseteq Ask /\ \A q \in Asks : q.input # q.output
  /\ CountWord \in Nat \ {0} /\ CuWord \in Nat \ {0} /\ Scale \in Nat \ {0}
  /\ MinCu \in Nat /\ Units \subseteq Nat /\ Bases \subseteq Nat
  /\ \A p \in Pool, d \in BOOLEAN : 8 + Len(TickArrays[p][d]) < CountWord
  /\ Padding \in Seq(TickArray)
  /\ Submissions \subseteq Seq(Document) \X Seq(Document)

VARIABLES
  asked,    \* the quote request, fixed
  route,    \* the route that was answered, fixed
  pc,       \* where create_swap_transaction, then check_tx, is
  request,  \* CreateSwapTransactionRequest
  infos,    \* swap_infos, one per pool read
  ix,       \* the swap or routing instruction
  sim,      \* sim_cu and the cu_factor_basis it was scaled by
  limit,    \* the compute unit limit of the transaction
  submitted,\* the check_tx call
  compared  \* pairs of it that compared equal

vars == <<asked, route, pc, request, infos, ix, sim, limit, submitted, compared>>

NoSwap == [swap_type |-> 0, input_mint |-> NoKey, input_amount |-> 0, output_mint |-> NoKey,
           output_amount |-> 0, other_amount_threshold |-> 0, route_plan |-> <<>>]

NoIx == [kind |-> "none", accounts |-> <<>>, amount |-> 0, threshold |-> 0,
         is_base_input |-> TRUE, counts |-> <<>>]

Init ==
  /\ asked \in Asks
  /\ route \in Candidates(asked) \cup {DefaultRoute}
  /\ pc = "quoted"
  /\ request = [swap_response |-> <<>>, input_account |-> NoAccount]
  /\ infos = <<>> /\ ix = NoIx
  /\ sim = [cu |-> 0, basis |-> 0] /\ limit = 0
  /\ submitted = <<<<>>, <<>>>> /\ compared = 0

-----------------------------------------------------------------------------
(* The client's request (external)                                         *)

\* What may come back for an answer: itself, nothing, another swap type, a plan of no,
\* one or too many steps, or one whose first step lists more tick arrays.
Variations(a) ==
  {<<a>>, <<>>}
    \cup {<<[a EXCEPT !.swap_type = t]>> : t \in {1, 2}}
    \cup {<<[a EXCEPT !.route_plan = p]>> :
            p \in {<<>>, <<a.route_plan[1]>>, a.route_plan \o a.route_plan \o a.route_plan}}
    \cup {<<[a EXCEPT !.route_plan[1].remaining_accounts = @ \o Padding]>>}

Send ==
  /\ pc = "quoted"
  /\ \E s \in Variations(Answer(route)), account \in {NoAccount, <<"account">>} :
       request' = [swap_response |-> s, input_account |-> account]
  /\ pc' = "sent"
  /\ UNCHANGED <<asked, route, infos, ix, sim, limit, submitted, compared>>

Swap == request.swap_response[1]
Plan == Swap.route_plan

Unaltered == request.swap_response = <<Answer(route)>>

-----------------------------------------------------------------------------
(* create_swap_transaction_impl                                            *)

Proceed(to) ==
  /\ pc' = to
  /\ UNCHANGED <<asked, route, request, infos, ix, sim, limit, submitted, compared>>

\* "Swap response is missing", "Route plan length is error".
Accept ==
  /\ pc = "sent"
  /\ IF request.swap_response # <<>> /\ Len(Plan) \in {1, 2} THEN Proceed("pools") ELSE Proceed("failed")

\* An error of the chain's node, an account that is not there or does not decode, an
\* instruction that fails in the simulation.
CallFails == pc \in {"pools", "simulate", "blockhash"} /\ Proceed("failed")

Vault(p, m) == <<"vault", p, m>>

VaultsInOrder(p, m) ==  \* mutant: the input vault is always token_vault_0
  <<Vault(p, MintA[p]), Vault(p, MintB[p])>>

\* The vaults of the input and the output side, told by one mint comparison.
Vaults(p, m) ==
  IF MintA[p] = m THEN <<Vault(p, MintA[p]), Vault(p, MintB[p])>>
                  ELSE <<Vault(p, MintB[p]), Vault(p, MintA[p])>>

Reading == pc = "pools" /\ Len(infos) < Len(Plan)

\* get_one_account_data of the next pool of the plan; the account is there only if it
\* is a pool's.
ReadPool ==
  /\ Reading
  /\ LET step == Plan[Len(infos) + 1]
     IN  /\ step.pool_id \in Pool
         /\ infos' = Append(infos, [pool_state   |-> step.pool_id,
                                    input_mint   |-> step.input_mint,
                                    output_mint  |-> step.output_mint,
                                    input_vault  |-> Vaults(step.pool_id, step.input_mint)[1],
                                    output_vault |-> Vaults(step.pool_id, step.input_mint)[2],
                                    tick_arrays  |-> step.remaining_accounts])
  /\ UNCHANGED <<asked, route, pc, request, ix, sim, limit, submitted, compared>>

Ata(m)     == <<"ata", m>>
Program(n) == <<"program", n>>
Payer      == <<"wallet">>

PoolsRead == pc = "pools" /\ Len(infos) = Len(Plan)

\* One pool: "Swap type is not supported" is found out after the pool was read.
RefuseSwapType == PoolsRead /\ Len(Plan) = 1 /\ Swap.swap_type \notin {0, 1} /\ Proceed("failed")

\* build_swap_v2_tx: SwapSingleV2's accounts, then the bitmap extension and the tick
\* arrays.  The wallet's associated accounts are used, never input_account.
SwapV2Accounts(info) ==
  <<Payer, <<"amm_config", info.pool_state>>, <<"pool_state", info.pool_state>>,
    Ata(info.input_mint), Ata(info.output_mint), info.input_vault, info.output_vault,
    <<"observation", info.pool_state>>, Program("token"), Program("token_2022"), Program("memo"),
    <<"mint", info.input_mint>>, <<"mint", info.output_mint>>,
    <<"extension", info.pool_state>>>> \o info.tick_arrays

BuildSwapV2 ==
  /\ PoolsRead /\ Len(Plan) = 1 /\ Swap.swap_type \in {0, 1}
  /\ ix' = [kind |-> "swap_v2", accounts |-> SwapV2Accounts(infos[1]),
            amount |-> Swap.input_amount, threshold |-> Swap.other_amount_threshold,
            is_base_input |-> Swap.swap_type = 0, counts |-> <<>>]
  /\ pc' = "simulate"
  /\ UNCHANGED <<asked, route, request, infos, sim, limit, submitted, compared>>

\* build_route_tx: nine leading accounts, then a segment per pool and its length.
Leading(account) ==
  <<Program("clmm"), Payer, account, <<"mint", infos[1].input_mint>>, Program("token"),
    Program("token_2022"), Program("associated_token"), Program("system"), Program("memo")>>

Segment(info) ==
  <<<<"amm_config", info.pool_state>>, <<"pool_state", info.pool_state>>, Ata(info.output_mint),
    info.input_vault, info.output_vault, <<"mint", info.output_mint>>,
    <<"observation", info.pool_state>>, <<"extension", info.pool_state>>>> \o info.tick_arrays

AccountCountWide(info) ==  \* mutant: the count is not cast to a byte
  7 + 1 + Len(info.tick_arrays)

AccountCountCore(info) ==  \* mutant: the bitmap extension is not counted
  (7 + Len(info.tick_arrays)) % CountWord

\* current_swap_account_count as u8.
AccountCount(info) == (7 + 1 + Len(info.tick_arrays)) % CountWord

InputAccount ==
  IF request.input_account = NoAccount THEN Ata(infos[1].input_mint) ELSE request.input_account

\* The swap type is not looked at.
BuildRoute ==
  /\ PoolsRead /\ Len(Plan) = 2
  /\ ix' = [kind |-> "routing",
            accounts |-> Leading(InputAccount) \o Segment(infos[1]) \o Segment(infos[2]),
            amount |-> Swap.input_amount, threshold |-> Swap.other_amount_threshold,
            is_base_input |-> TRUE,
            counts |-> <<AccountCount(infos[1]), AccountCount(infos[2])>>]
  /\ pc' = "simulate"
  /\ UNCHANGED <<asked, route, request, infos, sim, limit, submitted, compared>>

-----------------------------------------------------------------------------
(* build_versioned_transaction                                             *)

\* (sim_cu as f64 * cu_factor) as u64, where the factor is 1 + basis/Scale: a product
\* that is a whole number may be rounded below it.
Scaled(sim_cu, basis) ==
  LET product == sim_cu * (Scale + basis)
  IN  {product \div Scale}
        \cup (IF basis > 0 /\ sim_cu > 0 /\ product % Scale = 0 THEN {product \div Scale - 1} ELSE {})

UnitLimitNoRaise(scaled, sim_cu) ==  \* mutant: the minimal increase is forgotten
  scaled % CuWord

\* real_cu, then its cast to u32; scaled is never below sim_cu, so that the code's
\* unsigned subtraction does not wrap.
UnitLimit(scaled, sim_cu) ==
  (IF scaled - sim_cu < MinCu THEN sim_cu + MinCu ELSE scaled) % CuWord

Simulate ==
  /\ pc = "simulate"
  /\ \E sim_cu \in Units, basis \in Bases :
       /\ sim' = [cu |-> sim_cu, basis |-> basis]
       /\ \E scaled \in Scaled(sim_cu, basis) : limit' = UnitLimit(scaled, sim_cu)
  /\ pc' = "blockhash"
  /\ UNCHANGED <<asked, route, request, infos, ix, submitted, compared>>

\* get_latest_blockhash; the message is compiled and left unsigned.
Compile == pc = "blockhash" /\ Proceed("built")

-----------------------------------------------------------------------------
(* check_tx                                                                *)

Submit ==
  /\ pc = "built"
  /\ submitted' \in Submissions
  /\ pc' = "submitted"
  /\ UNCHANGED <<asked, route, request, infos, ix, sim, limit, compared>>

AcceptAnyLists ==  \* mutant: zip stops at the shorter list
  pc = "submitted" /\ Proceed("check")

AcceptLists ==
  /\ pc = "submitted"
  /\ IF Len(submitted[1]) = Len(submitted[2]) THEN Proceed("check") ELSE Proceed("invalid_argument")

PairsLeft == compared < Len(submitted[1]) /\ compared < Len(submitted[2])

\* The message a transaction carries; signatures are no part of it.
Message(doc) == IF doc \in {"unsigned", "signed"} THEN "built" ELSE doc

CompareNext ==
  /\ pc = "check" /\ PairsLeft
  /\ LET pre  == submitted[1][compared + 1]
         data == submitted[2][compared + 1]
     IN  \/ "garbage" \in {pre, data} /\ Proceed("invalid_argument")
         \/ "garbage" \notin {pre, data} /\ Message(pre) # Message(data) /\ Proceed("permission_denied")
         \/ /\ "garbage" \notin {pre, data} /\ Message(pre) = Message(data)
            /\ compared' = compared + 1
            /\ UNCHANGED <<asked, route, pc, request, infos, ix, sim, limit, submitted>>

Confirm == pc = "check" /\ ~PairsLeft /\ Proceed("ok")

Terminal == {"failed", "invalid_argument", "permission_denied", "ok"}

Returned == pc \in Terminal /\ UNCHANGED vars

Next ==
  \/ Send \/ Accept \/ CallFails
  \/ ReadPool \/ RefuseSwapType \/ BuildSwapV2 \/ BuildRoute
  \/ Simulate \/ Compile
  \/ Submit \/ AcceptLists \/ CompareNext \/ Confirm
  \/ Returned

Spec == Init /\ [][Next]_vars

-----------------------------------------------------------------------------
(* What the programs on chain read from an instruction (external)          *)

Made == ix.kind # "none"

\* The accounts before the segment of hop i of a routing instruction.
Before(i) == 9 + (IF i = 1 THEN 0 ELSE ix.counts[1])

\* The pool swapped in, its vaults and the account credited, hop by hop.
Moves ==
  IF ix.kind = "swap_v2"
  THEN <<[pool     |-> ix.accounts[3][2], input_vault  |-> ix.accounts[6],
          credited |-> ix.accounts[5],    output_vault |-> ix.accounts[7]]>>
  ELSE [i \in 1..2 |->
         [pool     |-> ix.accounts[Before(i) + 2][2], input_vault  |-> ix.accounts[Before(i) + 4],
          credited |-> ix.accounts[Before(i) + 3],    output_vault |-> ix.accounts[Before(i) + 5]]]

Debited == IF ix.kind = "swap_v2" THEN ix.accounts[4] ELSE ix.accounts[3]

\* What the pools make of the instruction's amount while they are as they were quoted.
Executed ==
  LegsOf([i \in 1..Len(Moves) |->
            <<Moves[i].pool, Moves[i].input_vault = Vault(Moves[i].pool, MintA[Moves[i].pool])>>],
         TRUE, ix.amount)

Received == Executed[Len(Executed)].calculated
Paid     == ix.amount - Executed[1].remaining

\* A swap of nothing is refused, and so is a result below the minimum that the instruction
\* names: other_amount_threshold of swap_v2, amount_out_minimum of routing.
Refused ==
  (\E i \in 1..Len(Executed) : ~Priced(Executed[i])) \/ Received < ix.threshold

-----------------------------------------------------------------------------
(* Properties                                                              *)

TypeOK ==
  /\ asked \in Asks /\ request.input_account \in {NoAccount, <<"account">>}
  /\ pc \in {"quoted", "sent", "pools", "simulate", "blockhash", "built", "submitted", "check"}
            \cup Terminal
  /\ Len(request.swap_response) \in {0, 1} /\ Len(infos) \in 0..2
  /\ ix.kind \in {"none", "swap_v2", "routing"}
  /\ ix.counts \in Seq(0..(CountWord - 1))
  /\ sim \in [cu : Nat, basis : Nat] /\ limit \in 0..(CuWord - 1)
  /\ submitted \in Seq(Document) \X Seq(Document) /\ compared \in Nat

\* The transaction made from an unaltered answer takes the asked input from the wallet
\* and credits the asked output, each hop fed by what the one before it credited:
\* quoting, the vault choice and the account order agree on the direction of each pool.
TradesWhatWasAsked ==
  Made /\ Unaltered =>
    LET n == Len(Moves)
    IN  /\ Debited \in {Ata(asked.input), request.input_account}
        /\ Moves[1].input_vault = Vault(Moves[1].pool, asked.input)
        /\ Moves[n].output_vault = Vault(Moves[n].pool, asked.output)
        /\ Moves[n].credited = Ata(asked.output)
        /\ \A i \in 1..(n - 1) : \E m \in Mint :
             /\ Moves[i].output_vault = Vault(Moves[i].pool, m) /\ Moves[i].credited = Ata(m)
             /\ Moves[i + 1].input_vault = Vault(Moves[i + 1].pool, m)

\* For a specified input the transaction pays what was quoted and takes no more than
\* what was offered, also when a pool ran out and the quote used only part of it; it is
\* refused only where the quote itself was of nothing or below the minimum it names.
QuoteIsHonoured ==
  Made /\ Unaltered /\ asked.base_input =>
    IF Refused THEN Swap.output_amount = 0 \/ Swap.output_amount < Swap.other_amount_threshold
               ELSE Received = Swap.output_amount /\ Paid <= asked.amount

\* The routing program cuts the accounts by the counts: the segments follow each other,
\* end with the last account, and each is its own pool's with the plan's tick arrays.
\* A plan with so many tick arrays that the count wraps is a client's own.
SegmentsAreLegs ==
  ix.kind = "routing" /\ (\A i \in 1..2 : 8 + Len(Plan[i].remaining_accounts) < CountWord) =>
    /\ Before(2) + ix.counts[2] = Len(ix.accounts)
    /\ \A i \in 1..2 :
         /\ ix.accounts[Before(i) + 2] = <<"pool_state", Plan[i].pool_id>>
         /\ SubSeq(ix.accounts, Before(i) + 9, Before(i) + ix.counts[i]) = Plan[i].remaining_accounts

\* The limit leaves room for the two compute budget instructions, which were not
\* simulated, and for the growth cu_factor_basis stands for, up to the rounding of f64
\* and unless it exceeds u32.
LimitCovers ==
  LET growth == (sim.cu * sim.basis) \div Scale
  IN  pc \in {"blockhash", "built"} /\ sim.cu + MinCu < CuWord /\ sim.cu + growth < CuWord =>
        limit >= sim.cu + MinCu /\ limit >= sim.cu + growth - 1

\* When pre_data is what was built, check_tx only confirms data that carries the same
\* messages, one for one.
ConfirmedIsUntampered ==
  pc = "ok" =>
    /\ Len(submitted[1]) = Len(submitted[2])
    /\ \A i \in 1..Len(submitted[2]) :
         submitted[1][i] = "unsigned" => submitted[2][i] \in {"unsigned", "signed"}

\* compute_another_amount's comment: without base_input the specified amount is the
\* output.  When the answer says all of it can be had for some input, paying that input
\* gives it, unless the transaction is refused.
OutputDelivered ==
  /\ Made /\ Unaltered /\ ~asked.base_input
  /\ ~Refused /\ Swap.output_amount = asked.amount
  => Received >= asked.amount
=============================================================================
