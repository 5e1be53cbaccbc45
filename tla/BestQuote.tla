------------------------------- MODULE BestQuote -------------------------------
(***************************************************************************)
(* What quote_price promises, without loops, iteration orders or           *)
(* intermediate results: one step answers the request, and the answer is a *)
(* function of the fetched pools and the request alone.                    *)
(*                                                                         *)
(* The order of the fetched vector and of the HashMap of intermediate      *)
(* mints therefore cannot change whether a quote succeeds nor the amount   *)
(* it reports (which of several equally good routes is reported may vary). *)
(***************************************************************************)
EXTENDS PoolSnapshot, FiniteSetsExt

VARIABLES
  pools,   \* the fetched pools
  req,     \* the request
  answer   \* [status, amount]

quoteVars == <<pools, req, answer>>

Pending == [status |-> "pending", amount |-> 0]

\* "No route found" is answered exactly when no pool trades either mint.  A
\* quote fails as soon as one of the routes cannot be priced; otherwise it
\* reports the largest amount any route computes, and 0 if there is no route.
Verdict(s, q) ==
  LET values == RouteValues(s, q)
  IN  IF \A p \in Pool : ~Trades(s, p, In(q)) /\ ~Trades(s, p, Out(q))
      THEN [status |-> "no_route", amount |-> 0]
      ELSE IF Failed \in values
           THEN [status |-> "failed", amount |-> 0]
           ELSE [status |-> "ok", amount |-> Max(values \cup {0})]

Init ==
  /\ pools \in Snapshots
  /\ req \in Requests
  /\ answer = Pending

Answer ==
  /\ answer = Pending
  /\ answer' = Verdict(pools, req)
  /\ UNCHANGED <<pools, req>>

Next == Answer

Spec == Init /\ [][Next]_quoteVars /\ WF_quoteVars(Next)
=============================================================================
