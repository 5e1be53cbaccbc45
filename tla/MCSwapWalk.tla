------------------------------ MODULE MCSwapWalk ------------------------------
(***************************************************************************)
(* Small instances of SwapWalk: pools made of one or two positions, at any *)
(* price, with the price on either side of a tick it lies on; and torn     *)
(* ones, whose ticks are read after a position was opened or closed.       *)
(***************************************************************************)
EXTENDS SwapWalk, Functions

MCMinTick == -5

Position == {<<-5, 5, 1>>, <<-2, 3, 1>>, <<-1, 1, 2>>, <<0, 1, 1>>, <<2, 3, 1>>, <<-4, 4, 1>>}

Net(positions) ==
  [t \in {q[1] : q \in positions} \cup {q[2] : q \in positions} |->
     SumSet({q[3] : q \in {x \in positions : x[1] = t}})
       - SumSet({q[3] : q \in {x \in positions : x[2] = t}})]

Books == {ps \in SUBSET Position : Cardinality(ps) \in {1, 2}}

\* The pool account and the bitmaps as of the positions `before', the ticks of the
\* flagged arrays as of the positions `after'.
Fetched(price, tick, before, after, fees) ==
  LET flagged == {ArrayStart(t) : t \in DOMAIN Net(before)}
  IN  [price |-> price, tick |-> tick, flagged |-> flagged,
       liquidity |-> MapThenSumSet(LAMBDA q : q[3],
                        {q \in before : q[1] <= tick /\ tick < q[2]}),
       net |-> Restrict(Net(after), {t \in DOMAIN Net(after) : ArrayStart(t) \in flagged}),
       fee_a |-> fees[1], fee_b |-> fees[2]]

WholePools ==
  {Fetched(pt[1], pt[2], ps, ps, fs) :
     pt \in {x \in Price \X Tick : x[2] = TickAt(x[1]) \/ x[1] = Grain * (x[2] + 1)},
     ps \in Books, fs \in {<<0, 0>>, <<1, 2>>}}

TornPools ==
  {Fetched(Grain * t + 1, t, b[1], b[2], <<0, 0>>) :
     t \in {-2, 0, 2},
     b \in {x \in Books \X Books : \E q \in Position : x[2] \in {x[1] \ {q}, x[1] \cup {q}}}}

MCPools == WholePools \cup TornPools

MCAsks == [zero_for_one : BOOLEAN, base_input : BOOLEAN, amount : 0..9]
=============================================================================
