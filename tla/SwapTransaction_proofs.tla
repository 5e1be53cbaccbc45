------------------------ MODULE SwapTransaction_proofs ------------------------
(***************************************************************************)
(* What SwapTransaction guarantees for every set of pools, every depth and *)
(* curve, every fee and every request: from the legs of a quote to the     *)
(* accounts of the instruction that is made of it.                         *)
(***************************************************************************)
EXTENDS SwapTransaction, SequenceTheorems, TLAPS

-----------------------------------------------------------------------------
(* Sequences                                                               *)

\* Sequences of different elements side by side.
LEMMA Beside ==
  ASSUME NEW S, NEW T, NEW s \in Seq(S), NEW t \in Seq(T)
  PROVE  /\ s \o t \in Seq(S \cup T)
         /\ Len(s) \in Nat /\ Len(t) \in Nat /\ Len(s \o t) = Len(s) + Len(t)
         /\ \A i \in 1..Len(s) : (s \o t)[i] = s[i]
         /\ \A i \in 1..Len(t) : (s \o t)[Len(s) + i] = t[i]
<1>1. s \in Seq(S \cup T) /\ t \in Seq(S \cup T)
  BY SeqMonotonic, S \subseteq S \cup T, T \subseteq S \cup T
<1>2. Len(s) \in Nat /\ Len(t) \in Nat
  OBVIOUS
<1>3. /\ s \o t \in Seq(S \cup T) /\ Len(s \o t) = Len(s) + Len(t)
      /\ \A i \in 1..(Len(s) + Len(t)) : (s \o t)[i] = IF i <= Len(s) THEN s[i] ELSE t[i - Len(s)]
  BY <1>1, ConcatProperties
<1>4. ASSUME NEW i \in 1..Len(t) PROVE (s \o t)[Len(s) + i] = t[i]
  BY <1>2, <1>3
<1> QED
  BY <1>2, <1>3, <1>4

\* A part of a sequence that holds another one is that one.
LEMMA PartIs ==
  ASSUME NEW S, NEW t \in Seq(S), NEW s, NEW m \in Nat,
         \A k \in 1..Len(t) : s[m + k] = t[k]
  PROVE  SubSeq(s, m + 1, m + Len(t)) = t
<1>1. Len(t) \in Nat /\ \A k \in 1..Len(t) : t[k] \in S
  OBVIOUS
<1>2. ASSUME NEW i \in (m + 1)..(m + Len(t)) PROVE s[i] \in S
  <2>1. i - m \in 1..Len(t) /\ i = m + (i - m)
    BY <1>1
  <2>2. s[m + (i - m)] = t[i - m]
    BY <2>1
  <2> QED
    BY <1>1, <2>1, <2>2
<1>3. m + 1 \in Int /\ m + Len(t) \in Int
  BY <1>1
<1> DEFINE part == SubSeq(s, m + 1, m + Len(t))
<1>4. /\ part \in Seq(S)
      /\ Len(part) = IF m + 1 <= m + Len(t) THEN (m + Len(t)) - (m + 1) + 1 ELSE 0
      /\ \A i \in 1..((m + Len(t)) - (m + 1) + 1) : part[i] = s[(m + 1) + i - 1]
  BY <1>2, <1>3, SubSeqProperties
<1>5. Len(part) = Len(t)
  BY <1>1, <1>4
<1>6. ASSUME NEW i \in 1..Len(part) PROVE part[i] = t[i]
  <2>1. i \in 1..Len(t) /\ (m + 1) + i - 1 = m + i /\ i \in 1..((m + Len(t)) - (m + 1) + 1)
    BY <1>1, <1>5
  <2> QED
    BY <1>4, <2>1
<1> QED
  BY <1>4, <1>5, <1>6, SeqEqual

-----------------------------------------------------------------------------
(* Legs and routes                                                         *)

\* A pool swapped in a direction has two different mints.
LEMMA Ends ==
  ASSUME NEW p \in Pool, NEW d \in BOOLEAN
  PROVE  /\ InputOf(p, d) \in Mint /\ OutputOf(p, d) \in Mint
         /\ MintA[p] \in Mint /\ MintB[p] \in Mint
         /\ InputOf(p, d) # OutputOf(p, d)
         /\ (InputOf(p, d) = MintA[p]) <=> d
BY QuoteAnswerAssumption DEF InputOf, OutputOf

\* A transfer fee never leaves the width of an amount.
LEMMA FeeFits ==
  ASSUME NEW m \in Mint, NEW n \in Amount, NEW b \in BOOLEAN
  PROVE  /\ AfterFee(m, n, b) \in Amount
         /\ b => AfterFee(m, n, b) = IF Fee[m] < n THEN n - Fee[m] ELSE 0
<1>1. Word \in Nat \ {0} /\ Fee[m] \in Nat /\ n \in Nat /\ n < Word
  BY QuoteAnswerAssumption DEF Amount
<1>2. Lesser(Fee[m], n) = IF Fee[m] < n THEN Fee[m] ELSE n
  BY DEF Lesser
<1>3. CASE b = TRUE
  <2>1. AfterFee(m, n, b) = n - Lesser(Fee[m], n)
    BY <1>3 DEF AfterFee
  <2> QED
    BY <1>1, <1>2, <2>1 DEF Amount
<1>4. CASE b = FALSE
  <2>1. AfterFee(m, n, b) = (n + Lesser(Fee[m], n)) % Word
    BY <1>4 DEF AfterFee
  <2>2. n + Lesser(Fee[m], n) \in Nat
    BY <1>1, <1>2
  <2>3. (n + Lesser(Fee[m], n)) % Word \in 0..(Word - 1)
    BY <1>1, <2>2
  <2> QED
    BY <1>4, <2>1, <2>3 DEF Amount
<1> QED
  BY <1>3, <1>4

\* Nothing comes off nothing.
LEMMA NothingAfterFee ==
  ASSUME NEW m \in Mint
  PROVE  AfterFee(m, 0, TRUE) = 0
<1> DEFINE fee == Fee[m]
<1>1. fee \in Nat /\ 0 \in Amount
  BY QuoteAnswerAssumption DEF Amount
<1>2. AfterFee(m, 0, TRUE) = IF fee < 0 THEN 0 - fee ELSE 0
  BY <1>1, FeeFits
<1> HIDE DEF fee
<1>3. ~(fee < 0)
  BY <1>1
<1> QED
  BY <1>2, <1>3, Zenon

LegType == [pool : Pool \cup {NoKey}, input_mint : Mint \cup {NoKey},
            output_mint : Mint \cup {NoKey}, base_input : BOOLEAN, specified : Nat,
            remaining : Nat, calculated : Nat, tick_arrays : Seq(TickArray)]

\* A leg keeps its types, and its result is an amount again.
LEMMA LegIsTyped ==
  ASSUME NEW p \in Pool, NEW d \in BOOLEAN, NEW b \in BOOLEAN, NEW n \in Amount
  PROVE  Leg(p, d, b, n) \in LegType /\ Leg(p, d, b, n).calculated \in Amount
<1> DEFINE real  == AfterFee(InputOf(p, d), n, b)
           taken == Lesser(real, Depth[p][d])
<1>1. InputOf(p, d) \in Mint /\ OutputOf(p, d) \in Mint
  BY Ends
<1>2. real \in Amount
  BY <1>1, FeeFits
<1>3. Depth[p][d] \in Amount /\ Word \in Nat
  BY QuoteAnswerAssumption
<1> HIDE DEF real
<1>4. taken \in 0..Depth[p][d] /\ real - taken \in Nat /\ n \in Nat
  BY <1>2, <1>3 DEF Lesser, Amount
<1>5. Gives[p][d] \in [0..Depth[p][d] -> Amount]
  BY QuoteAnswerAssumption
<1>6. Gives[p][d][taken] \in Amount
  BY <1>4, <1>5
<1>7. AfterFee(OutputOf(p, d), Gives[p][d][taken], b) \in Amount
  BY <1>1, <1>6, FeeFits
<1>8. AfterFee(OutputOf(p, d), Gives[p][d][taken], b) \in Nat
  BY <1>3, <1>7 DEF Amount
<1>9. TickArrays[p][d] \in Seq(TickArray)
  BY QuoteAnswerAssumption
<1> QED
  BY <1>1, <1>4, <1>7, <1>8, <1>9 DEF Leg, LegType, real

\* Swapping again what a leg took gives the same, and all of it is taken.
LEMMA LegAgain ==
  ASSUME NEW p \in Pool, NEW d \in BOOLEAN, NEW n \in Amount
  PROVE  LET m == n - Leg(p, d, TRUE, n).remaining
         IN  /\ m \in Amount /\ m <= n
             /\ Leg(p, d, TRUE, m).calculated = Leg(p, d, TRUE, n).calculated
             /\ Leg(p, d, TRUE, m).remaining = 0
<1> DEFINE mint == InputOf(p, d)
           rn == AfterFee(mint, n, TRUE)
           tn == Lesser(rn, Depth[p][d])
           m  == n - (rn - tn)
           rm == AfterFee(mint, m, TRUE)
           tm == Lesser(rm, Depth[p][d])
<1>1. mint \in Mint /\ Fee[mint] \in Nat /\ Depth[p][d] \in Nat /\ Word \in Nat \ {0}
  BY Ends, QuoteAnswerAssumption DEF Amount
<1>2. /\ Leg(p, d, TRUE, n).remaining = rn - tn
      /\ Leg(p, d, TRUE, n).calculated = AfterFee(OutputOf(p, d), Gives[p][d][tn], TRUE)
  BY DEF Leg
<1>3. /\ Leg(p, d, TRUE, m).remaining = rm - tm
      /\ Leg(p, d, TRUE, m).calculated = AfterFee(OutputOf(p, d), Gives[p][d][tm], TRUE)
  BY DEF Leg
<1>4. rn \in Amount /\ rn = IF Fee[mint] < n THEN n - Fee[mint] ELSE 0
  BY <1>1, FeeFits
<1>5. m \in Amount => rm \in Amount /\ rm = IF Fee[mint] < m THEN m - Fee[mint] ELSE 0
  BY <1>1, FeeFits
<1>6. /\ tn = IF rn < Depth[p][d] THEN rn ELSE Depth[p][d]
      /\ tm = IF rm < Depth[p][d] THEN rm ELSE Depth[p][d]
  BY DEF Lesser
<1>7. m = n - (rn - tn)
  OBVIOUS
<1> HIDE DEF mint, rn, tn, m, rm, tm
<1>8. n \in Nat /\ n < Word /\ rn \in Nat
  BY <1>1, <1>4 DEF Amount
<1>9. tn \in Nat /\ tn <= rn /\ rn <= n
  BY <1>1, <1>4, <1>6, <1>8
<1>10. m \in Nat /\ m <= n /\ m <= Word - 1
  BY <1>1, <1>7, <1>8, <1>9
<1>11. m \in Amount
  BY <1>1, <1>10 DEF Amount
<1>12. rm \in Nat /\ rm = IF Fee[mint] < m THEN m - Fee[mint] ELSE 0
  BY <1>1, <1>5, <1>11 DEF Amount
<1>13. rm = tn
  BY <1>1, <1>4, <1>6, <1>7, <1>8, <1>9, <1>10, <1>12
<1>14. tm = tn
  BY <1>1, <1>6, <1>8, <1>9, <1>13
<1>15. rm - tm = 0
  BY <1>9, <1>13, <1>14
<1>16. m = n - Leg(p, d, TRUE, n).remaining
  BY <1>2, <1>7
<1> QED
  BY <1>2, <1>3, <1>10, <1>11, <1>13, <1>14, <1>15, <1>16

\* A leg that swaps nothing gives nothing.
LEMMA LegOfNothing ==
  ASSUME NEW p \in Pool, NEW d \in BOOLEAN, NEW n \in Amount, ~Priced(Leg(p, d, TRUE, n))
  PROVE  Leg(p, d, TRUE, n).calculated = 0
<1>1. AfterFee(InputOf(p, d), n, TRUE) = 0
  BY DEF Priced, Leg
<1>2. OutputOf(p, d) \in Mint /\ Depth[p][d] \in Amount /\ Word \in Nat \ {0} /\ Gives[p][d][0] = 0
  BY Ends, QuoteAnswerAssumption
<1>3. Lesser(0, Depth[p][d]) = 0
  BY <1>2 DEF Lesser, Amount
<1>4. Leg(p, d, TRUE, n).calculated = AfterFee(OutputOf(p, d), 0, TRUE)
  BY <1>1, <1>2, <1>3 DEF Leg
<1>5. AfterFee(OutputOf(p, d), 0, TRUE) = 0
  BY <1>2, NothingAfterFee
<1> QED
  BY <1>4, <1>5

\* A path is a step, or two through a third mint.
LEMMA PathShape ==
  ASSUME NEW q \in Asks, NEW path \in Paths(q.input, q.output)
  PROVE  \/ \E p \in Pool, d \in BOOLEAN :
              /\ path = <<<<p, d>>>> /\ InputOf(p, d) = q.input /\ OutputOf(p, d) = q.output
         \/ \E p \in Pool, d \in BOOLEAN, p2 \in Pool, d2 \in BOOLEAN :
              /\ path = <<<<p, d>>, <<p2, d2>>>>
              /\ InputOf(p, d) = q.input /\ OutputOf(p2, d2) = q.output
              /\ OutputOf(p, d) = InputOf(p2, d2)
<1>1. CASE path \in {<<s>> : s \in {t \in Step : /\ InputOf(t[1], t[2]) = q.input
                                                /\ OutputOf(t[1], t[2]) = q.output}}
  <2>1. PICK s \in Step : /\ path = <<s>> /\ InputOf(s[1], s[2]) = q.input
                          /\ OutputOf(s[1], s[2]) = q.output
    BY <1>1
  <2>2. s[1] \in Pool /\ s[2] \in BOOLEAN /\ path = <<<<s[1], s[2]>>>>
    BY <2>1 DEF Step
  <2> QED
    BY <2>1, <2>2
<1>2. CASE path \notin {<<s>> : s \in {t \in Step : /\ InputOf(t[1], t[2]) = q.input
                                                   /\ OutputOf(t[1], t[2]) = q.output}}
  <2>1. /\ path \in Step \X Step
        /\ InputOf(path[1][1], path[1][2]) = q.input /\ OutputOf(path[2][1], path[2][2]) = q.output
        /\ OutputOf(path[1][1], path[1][2]) = InputOf(path[2][1], path[2][2])
    BY <1>2 DEF Paths
  <2>2. PICK s \in Step, t \in Step : path = <<s, t>>
    BY <2>1
  <2>3. /\ s[1] \in Pool /\ s[2] \in BOOLEAN /\ t[1] \in Pool /\ t[2] \in BOOLEAN
        /\ s = <<s[1], s[2]>> /\ t = <<t[1], t[2]>>
    BY <2>2 DEF Step
  <2>4. path = <<<<s[1], s[2]>>, <<t[1], t[2]>>>> /\ path[1] = s /\ path[2] = t
    BY <2>2, <2>3
  <2> QED
    BY <2>1, <2>3, <2>4
<1> QED
  BY <1>1, <1>2

\* What is priced along a path: a leg per step, and for a specified input the second
\* leg is fed by the first.
LEMMA OneLeg ==
  ASSUME NEW p, NEW d, NEW b, NEW n
  PROVE  LegsOf(<<<<p, d>>>>, b, n) = <<Leg(p, d, b, n)>>
<1> DEFINE one == <<<<p, d>>>>
<1>1. Len(one) = 1 /\ one[1][1] = p /\ one[1][2] = d
  OBVIOUS
<1> QED
  BY <1>1 DEF LegsOf

\* A route of two pools prices the second with what the first gives, the first with
\* what the second takes when the output is specified.
LEMMA TwoLegs ==
  ASSUME NEW p \in Pool, NEW d \in BOOLEAN, NEW p2 \in Pool, NEW d2 \in BOOLEAN, NEW n \in Amount
  PROVE  /\ LegsOf(<<<<p, d>>, <<p2, d2>>>>, TRUE, n)
              = <<Leg(p, d, TRUE, n), Leg(p2, d2, TRUE, Leg(p, d, TRUE, n).calculated)>>
         /\ LegsOf(<<<<p, d>>, <<p2, d2>>>>, FALSE, n)
              = <<Leg(p, d, FALSE, Leg(p2, d2, FALSE, n).calculated), Leg(p2, d2, FALSE, n)>>
<1> DEFINE two == <<<<p, d>>, <<p2, d2>>>>
<1>1. /\ Len(two) = 2 /\ two[1][1] = p /\ two[1][2] = d /\ two[2][1] = p2 /\ two[2][2] = d2
  OBVIOUS
<1> HIDE DEF two
<1>2. LegsOf(two, TRUE, n)
        = <<Leg(p, d, TRUE, n), Leg(p2, d2, TRUE, Leg(p, d, TRUE, n).calculated)>>
  BY <1>1 DEF LegsOf
<1>3. LegsOf(two, FALSE, n)
        = <<Leg(p, d, FALSE, Leg(p2, d2, FALSE, n).calculated), Leg(p2, d2, FALSE, n)>>
  BY <1>1 DEF LegsOf
<1> QED
  BY <1>2, <1>3 DEF two

\* Two legs of the same kind, whichever way they are priced.
LEMMA TwoLegsAre ==
  ASSUME NEW p \in Pool, NEW d \in BOOLEAN, NEW p2 \in Pool, NEW d2 \in BOOLEAN,
         NEW b \in BOOLEAN, NEW n \in Amount, NEW r, r = LegsOf(<<<<p, d>>, <<p2, d2>>>>, b, n)
  PROVE  \E n1 \in Amount, n2 \in Amount : r = <<Leg(p, d, b, n1), Leg(p2, d2, b, n2)>>
<1>1. /\ Leg(p, d, TRUE, n).calculated \in Amount
      /\ Leg(p2, d2, FALSE, n).calculated \in Amount
  BY LegIsTyped
<1>2. CASE b = TRUE
  <2>1. r = <<Leg(p, d, TRUE, n), Leg(p2, d2, TRUE, Leg(p, d, TRUE, n).calculated)>>
    <3>1. r = LegsOf(<<<<p, d>>, <<p2, d2>>>>, TRUE, n)
      BY <1>2
    <3>2. LegsOf(<<<<p, d>>, <<p2, d2>>>>, TRUE, n)
            = <<Leg(p, d, TRUE, n), Leg(p2, d2, TRUE, Leg(p, d, TRUE, n).calculated)>>
      BY TwoLegs, ZenonT(60)
    <3> QED
      BY <3>1, <3>2, Zenon
  <2> QED
    BY <1>1, <1>2, <2>1
<1>3. CASE b = FALSE
  <2>1. r = <<Leg(p, d, FALSE, Leg(p2, d2, FALSE, n).calculated), Leg(p2, d2, FALSE, n)>>
    <3>1. r = LegsOf(<<<<p, d>>, <<p2, d2>>>>, FALSE, n)
      BY <1>3
    <3>2. LegsOf(<<<<p, d>>, <<p2, d2>>>>, FALSE, n)
            = <<Leg(p, d, FALSE, Leg(p2, d2, FALSE, n).calculated), Leg(p2, d2, FALSE, n)>>
      BY TwoLegs, ZenonT(60)
    <3> QED
      BY <3>1, <3>2, Zenon
  <2> QED
    BY <1>1, <1>3, <2>1
<1> QED
  BY <1>2, <1>3

\* The route that is answered has one leg or two.
LEMMA RouteIsTyped ==
  ASSUME NEW q \in Asks, NEW r \in Candidates(q) \cup {DefaultRoute}
  PROVE  r \in Seq(LegType) /\ Len(r) \in {1, 2}
<1>1. q.base_input \in BOOLEAN /\ q.amount \in Amount
  BY SwapTransactionAssumption DEF Ask
<1>2. CASE r = DefaultRoute
  <2> DEFINE none == [pool |-> NoKey, input_mint |-> NoKey, output_mint |-> NoKey,
                      base_input |-> FALSE, specified |-> 0, remaining |-> 0,
                      calculated |-> 0, tick_arrays |-> <<>>]
  <2>1. none \in LegType
    BY DEF LegType
  <2>2. r = <<none>>
    BY <1>2 DEF DefaultRoute
  <2> HIDE DEF none
  <2> QED
    BY <2>1, <2>2
<1>3. CASE r # DefaultRoute
  <2>1. PICK path \in Paths(q.input, q.output) : r = LegsOf(path, q.base_input, q.amount)
    BY <1>3 DEF Candidates
  <2>2. CASE \E p \in Pool, d \in BOOLEAN : path = <<<<p, d>>>>
    <3>1. PICK p \in Pool, d \in BOOLEAN : path = <<<<p, d>>>>
      BY <2>2
    <3>2. r = <<Leg(p, d, q.base_input, q.amount)>>
      BY <2>1, <3>1, OneLeg
    <3>3. Leg(p, d, q.base_input, q.amount) \in LegType
      BY <1>1, LegIsTyped
    <3> QED
      BY <3>2, <3>3
  <2>3. CASE \E p \in Pool, d \in BOOLEAN, p2 \in Pool, d2 \in BOOLEAN :
               path = <<<<p, d>>, <<p2, d2>>>>
    <3>1. PICK p \in Pool, d \in BOOLEAN, p2 \in Pool, d2 \in BOOLEAN :
                 path = <<<<p, d>>, <<p2, d2>>>>
      BY <2>3
    <3>2. PICK n1 \in Amount, n2 \in Amount :
                 r = <<Leg(p, d, q.base_input, n1), Leg(p2, d2, q.base_input, n2)>>
      <4>1. r = LegsOf(<<<<p, d>>, <<p2, d2>>>>, q.base_input, q.amount)
        BY <2>1, <3>1
      <4> QED
        BY <1>1, <4>1, TwoLegsAre
    <3>3. Leg(p, d, q.base_input, n1) \in LegType /\ Leg(p2, d2, q.base_input, n2) \in LegType
      BY <1>1, LegIsTyped
    <3> QED
      BY <3>2, <3>3
  <2> QED
    BY <2>2, <2>3, PathShape
<1> QED
  BY <1>2, <1>3

PlanStep == [pool_id : Pool \cup {NoKey}, input_mint : Mint \cup {NoKey},
             output_mint : Mint \cup {NoKey}, remaining_accounts : Seq(TickArray)]

\* The plan of an answer has a step per leg.
LEMMA PlanIsTyped ==
  ASSUME NEW r \in Seq(LegType), Len(r) \in {1, 2}
  PROVE  /\ Answer(r).route_plan \in Seq(PlanStep)
         /\ Len(Answer(r).route_plan) = Len(r)
         /\ \A i \in 1..Len(r) : Answer(r).route_plan[i] = RoutePlan(r[i])
<1>1. Answer(r).route_plan = [i \in 1..Len(r) |-> RoutePlan(r[i])]
  BY DEF Answer
<1>2. ASSUME NEW leg \in LegType PROVE RoutePlan(leg) \in PlanStep
  BY DEF LegType, RoutePlan, PlanStep
<1>3. \A i \in 1..Len(r) : RoutePlan(r[i]) \in PlanStep
  BY <1>2
<1> QED
  BY <1>1, <1>3

\* So has what a client may send instead.
LEMMA VariationIsTyped ==
  ASSUME NEW r \in Seq(LegType), Len(r) \in {1, 2}, NEW s \in Variations(Answer(r))
  PROVE  s = <<>> \/ \E w : s = <<w>> /\ w.route_plan \in Seq(PlanStep)
<1> DEFINE a == Answer(r)
<1>1. /\ a.route_plan \in Seq(PlanStep) /\ Len(a.route_plan) \in {1, 2}
      /\ 1 \in DOMAIN a.route_plan /\ a.route_plan[1] \in PlanStep
  <2>1. /\ a.route_plan \in Seq(PlanStep) /\ Len(a.route_plan) = Len(r)
        /\ \A i \in 1..Len(r) : a.route_plan[i] = RoutePlan(r[i])
    BY PlanIsTyped
  <2> DEFINE plan == a.route_plan
  <2> HIDE DEF a
  <2>2. plan \in Seq(PlanStep) /\ Len(plan) \in {1, 2}
    BY <2>1
  <2> HIDE DEF plan
  <2>3. 1 \in DOMAIN plan /\ plan[1] \in PlanStep
    BY <2>2
  <2> QED
    BY <2>2, <2>3 DEF plan
<1>2. "route_plan" \in DOMAIN a
  BY DEF Answer
<1>3. Padding \in Seq(TickArray)
  BY SwapTransactionAssumption
<1> HIDE DEF a
<1>4. CASE \E t \in {1, 2} : s = <<[a EXCEPT !.swap_type = t]>>
  BY <1>1, <1>2, <1>4
<1>5. CASE \E p \in {<<>>, <<a.route_plan[1]>>, a.route_plan \o a.route_plan \o a.route_plan} :
             s = <<[a EXCEPT !.route_plan = p]>>
  <2>1. PICK p \in {<<>>, <<a.route_plan[1]>>, a.route_plan \o a.route_plan \o a.route_plan} :
               s = <<[a EXCEPT !.route_plan = p]>>
    BY <1>5
  <2>2. /\ <<>> \in Seq(PlanStep) /\ <<a.route_plan[1]>> \in Seq(PlanStep)
        /\ a.route_plan \o a.route_plan \o a.route_plan \in Seq(PlanStep)
    BY <1>1, ConcatProperties
  <2>3. p \in Seq(PlanStep)
    BY <2>1, <2>2
  <2> QED
    BY <1>2, <2>1, <2>3
<1>6. CASE s = <<[a EXCEPT !.route_plan[1].remaining_accounts = @ \o Padding]>>
  <2> DEFINE first == [a.route_plan[1] EXCEPT !.remaining_accounts = @ \o Padding]
             plan  == [a.route_plan EXCEPT ![1] = first]
  <2>1. a.route_plan[1].remaining_accounts \o Padding \in Seq(TickArray)
    BY <1>1, <1>3 DEF PlanStep
  <2>2. first \in PlanStep
    BY <1>1, <2>1 DEF PlanStep
  <2>3. plan \in Seq(PlanStep)
    BY <1>1, <2>2
  <2>4. s = <<[a EXCEPT !.route_plan = plan]>>
    BY <1>6
  <2> HIDE DEF plan
  <2> QED
    BY <1>2, <2>3, <2>4
<1>7. CASE s \in {<<a>>, <<>>}
  BY <1>1, <1>7
<1> QED
  BY <1>4, <1>5, <1>6, <1>7 DEF Variations, a

-----------------------------------------------------------------------------
(* check_tx                                                                *)

\* What check_tx has made sure of: the lists are as long as each other, and the pairs
\* compared so far carry the same message.
Checked ==
  /\ submitted \in Seq(Document) \X Seq(Document) /\ compared \in Nat
  /\ pc \in {"quoted", "sent", "pools", "simulate", "blockhash", "built", "submitted"} => compared = 0
  /\ pc \in {"check", "ok"} =>
       /\ Len(submitted[1]) = Len(submitted[2])
       /\ compared <= Len(submitted[1])
       /\ \A i \in 1..compared : Message(submitted[1][i]) = Message(submitted[2][i])
  /\ pc = "ok" => compared = Len(submitted[2])

\* It holds throughout.
LEMMA CheckedInv == Spec => []Checked
<1>1. Init => Checked
  <2>1. <<>> \in Seq(Document)
    OBVIOUS
  <2>2. \A s \in Seq(Document), t \in Seq(Document) : <<s, t>> \in Seq(Document) \X Seq(Document)
    OBVIOUS
  <2>3. Init => submitted \in Seq(Document) \X Seq(Document)
    BY <2>1, <2>2, Zenon DEF Init
  <2>4. Init => pc = "quoted" /\ compared = 0
    BY DEF Init
  <2> QED
    BY <2>3, <2>4 DEF Checked
<1>2. ASSUME Checked, [Next]_vars PROVE Checked'
  <2>1. CASE UNCHANGED <<pc, submitted, compared>>
    BY <1>2, <2>1 DEF Checked
  <2>2. CASE Send \/ Accept \/ CallFails \/ RefuseSwapType \/ BuildSwapV2 \/ BuildRoute
             \/ Simulate \/ Compile
    BY <1>2, <2>2 DEF Checked, Send, Accept, CallFails, RefuseSwapType, PoolsRead, BuildSwapV2,
                      BuildRoute, Simulate, Compile, Proceed
  <2>3. CASE Submit
    BY <1>2, <2>3, SwapTransactionAssumption DEF Checked, Submit
  <2>4. CASE AcceptLists
    BY <1>2, <2>4 DEF Checked, AcceptLists, Proceed
  <2>5. CASE CompareNext
    <3> DEFINE pre  == submitted[1][compared + 1]
               data == submitted[2][compared + 1]
    <3>1. CASE Proceed("invalid_argument") \/ Proceed("permission_denied")
      BY <1>2, <3>1 DEF Checked, Proceed
    <3>2. CASE Message(pre) = Message(data) /\ compared' = compared + 1 /\ UNCHANGED <<pc, submitted>>
      <4>1. pc = "check" /\ compared + 1 <= Len(submitted[1])
        BY <1>2, <2>5 DEF CompareNext, PairsLeft, Checked
      <4>2. \A i \in 1..(compared + 1) : i \in 1..compared \/ i = compared + 1
        BY <1>2 DEF Checked
      <4> QED
        BY <1>2, <3>2, <4>1, <4>2 DEF Checked
    <3> QED
      BY <2>5, <3>1, <3>2 DEF CompareNext
  <2>6. CASE Confirm
    BY <1>2, <2>6 DEF Checked, Confirm, PairsLeft, Proceed
  <2>7. CASE ReadPool \/ Returned \/ UNCHANGED vars
    BY <2>1, <2>7 DEF ReadPool, Returned, vars
  <2> QED
    BY <1>2, <2>2, <2>3, <2>4, <2>5, <2>6, <2>7 DEF Next
<1> QED
  BY <1>1, <1>2, PTL DEF Spec

\* check_tx only confirms data that carries the messages of pre_data, one for one:
\* nothing the client appends, drops or exchanges gets through.
THEOREM ConfirmedAreTheBuilt == Spec => []ConfirmedIsUntampered
<1>1. ASSUME Checked PROVE ConfirmedIsUntampered
  <2>1. ASSUME pc = "ok", NEW i \in 1..Len(submitted[2]), submitted[1][i] = "unsigned"
        PROVE  submitted[2][i] \in {"unsigned", "signed"}
    <3>1. Message(submitted[2][i]) = Message("unsigned")
      BY <1>1, <2>1 DEF Checked
    <3>2. submitted[2][i] \in Document
      BY <1>1 DEF Checked
    <3> QED
      BY <3>1, <3>2 DEF Message, Document
  <2> QED
    BY <1>1, <2>1 DEF Checked, ConfirmedIsUntampered
<1> QED
  BY <1>1, CheckedInv, PTL

-----------------------------------------------------------------------------
(* The compute unit limit                                                  *)

\* What the limit was made of.
Limited ==
  pc \in {"blockhash", "built"} =>
    /\ sim.cu \in Nat /\ sim.basis \in Nat
    /\ \E scaled \in Scaled(sim.cu, sim.basis) : limit = UnitLimit(scaled, sim.cu)

\* It holds throughout.
LEMMA LimitedInv == Spec => []Limited
<1>1. Init => Limited
  BY DEF Init, Limited
<1>2. ASSUME Limited, [Next]_vars PROVE Limited'
  <2>1. CASE Simulate
    <3>1. PICK sim_cu \in Units, basis \in Bases :
            /\ sim' = [cu |-> sim_cu, basis |-> basis]
            /\ \E scaled \in Scaled(sim_cu, basis) : limit' = UnitLimit(scaled, sim_cu)
      BY <2>1 DEF Simulate
    <3> QED
      BY <3>1, SwapTransactionAssumption DEF Limited
  <2>2. CASE pc = "blockhash" /\ UNCHANGED <<sim, limit>>
    BY <1>2, <2>2 DEF Limited
  <2>3. CASE pc # "blockhash" /\ pc' \notin {"blockhash", "built"}
    BY <2>3 DEF Limited
  <2>4. CASE UNCHANGED <<pc, sim, limit>>
    BY <1>2, <2>4 DEF Limited
  <2>5. Next => \/ Simulate \/ UNCHANGED <<pc, sim, limit>>
                \/ pc = "blockhash" /\ UNCHANGED <<sim, limit>>
                \/ pc # "blockhash" /\ pc' \notin {"blockhash", "built"}
    BY DEF Next, Send, Accept, CallFails, ReadPool, RefuseSwapType, PoolsRead, BuildSwapV2,
           BuildRoute, Compile, Submit, AcceptLists, CompareNext, Confirm, Returned, Proceed, vars
  <2> QED
    BY <1>2, <2>1, <2>2, <2>3, <2>4, <2>5 DEF vars
<1> QED
  BY <1>1, <1>2, PTL DEF Spec

\* Units with their growth, in whole units.
LEMMA Growth ==
  ASSUME NEW u \in Nat, NEW b \in Nat
  PROVE  (u * (Scale + b)) \div Scale = u + (u * b) \div Scale /\ (u * b) \div Scale \in Nat
<1> DEFINE grown == u * b
           q == grown \div Scale
           r == grown % Scale
<1>1. Scale \in Nat \ {0}
  BY SwapTransactionAssumption
<1>2. grown \in Nat
  OBVIOUS
<1>3. u * (Scale + b) = u * Scale + grown
  BY <1>1
<1> HIDE DEF grown
<1>4. q \in Nat /\ r \in 0..(Scale - 1) /\ grown = q * Scale + r
  BY <1>1, <1>2
<1> HIDE DEF q, r
<1>5. u * (Scale + b) = (u + q) * Scale + r /\ u + q \in Nat
  BY <1>1, <1>3, <1>4
<1>6. ASSUME NEW k \in Nat PROVE (k * Scale + r) \div Scale = k
  BY <1>1, <1>4
<1>7. (u * (Scale + b)) \div Scale = u + q
  BY <1>5, <1>6
<1> QED
  BY <1>4, <1>7 DEF q, grown

\* The limit leaves room for the compute budget instructions that were not simulated,
\* and for the growth the configuration asks for.
THEOREM LimitLeavesRoom == Spec => []LimitCovers
<1>1. ASSUME Limited PROVE LimitCovers
  <2> DEFINE u == sim.cu
             growth == (sim.cu * sim.basis) \div Scale
  <2>1. SUFFICES ASSUME pc \in {"blockhash", "built"}, u + MinCu < CuWord, u + growth < CuWord
                 PROVE  limit >= u + MinCu /\ limit >= u + growth - 1
    BY DEF LimitCovers
  <2>2. u \in Nat /\ sim.basis \in Nat
    BY <1>1, <2>1 DEF Limited
  <2>3. PICK scaled \in Scaled(u, sim.basis) : limit = UnitLimit(scaled, u)
    BY <1>1, <2>1 DEF Limited
  <2>4. (u * (Scale + sim.basis)) \div Scale = u + growth /\ growth \in Nat
    BY <2>2, Growth
  <2> DEFINE whole == (u * (Scale + sim.basis)) \div Scale
             exact == sim.basis > 0 /\ u > 0 /\ (u * (Scale + sim.basis)) % Scale = 0
  <2>5. whole = u + growth
    BY <2>4
  <2>6. Scaled(u, sim.basis) = {whole} \cup (IF exact THEN {whole - 1} ELSE {})
    BY Zenon DEF Scaled
  <2>7. exact => u > 0
    OBVIOUS
  <2>8. limit = (IF scaled - u < MinCu THEN u + MinCu ELSE scaled) % CuWord
    BY <2>3 DEF UnitLimit
  <2>9. MinCu \in Nat /\ CuWord \in Nat \ {0}
    BY SwapTransactionAssumption
  <2> HIDE DEF u, growth, whole, exact
  <2>10. scaled = u + growth \/ (scaled = u + growth - 1 /\ u > 0)
    <3>1. CASE exact
      <4>1. scaled = whole \/ scaled = whole - 1
        BY <2>3, <2>6, <3>1
      <4> QED
        BY <2>2, <2>4, <2>5, <2>7, <3>1, <4>1
    <3>2. CASE ~exact
      <4>1. scaled = whole
        BY <2>3, <2>6, <3>2
      <4> QED
        BY <2>5, <4>1
    <3> QED
      BY <3>1, <3>2
  <2>11. \A k \in Nat : k < CuWord => k % CuWord = k
    BY <2>9
  <2>12. scaled \in Nat /\ scaled < CuWord /\ scaled >= u + growth - 1
    BY <2>1, <2>2, <2>4, <2>9, <2>10
  <2>13. CASE scaled - u < MinCu
    <3>1. limit = u + MinCu
      BY <2>1, <2>2, <2>8, <2>9, <2>11, <2>13
    <3> QED
      BY <2>2, <2>4, <2>9, <2>12, <2>13, <3>1
  <2>14. CASE ~(scaled - u < MinCu)
    <3>1. limit = scaled
      BY <2>8, <2>11, <2>12, <2>14
    <3> QED
      BY <2>2, <2>4, <2>9, <2>12, <2>14, <3>1
  <2> QED
    BY <2>13, <2>14
<1> QED
  BY <1>1, LimitedInv, PTL

-----------------------------------------------------------------------------
(* create_swap_transaction_impl                                            *)

InfoOf(step) ==
  [pool_state   |-> step.pool_id,
   input_mint   |-> step.input_mint,
   output_mint  |-> step.output_mint,
   input_vault  |-> Vaults(step.pool_id, step.input_mint)[1],
   output_vault |-> Vaults(step.pool_id, step.input_mint)[2],
   tick_arrays  |-> step.remaining_accounts]

SwapV2Ix ==
  [kind |-> "swap_v2", accounts |-> SwapV2Accounts(infos[1]),
   amount |-> Swap.input_amount, threshold |-> Swap.other_amount_threshold,
   is_base_input |-> Swap.swap_type = 0, counts |-> <<>>]

RoutingIx ==
  [kind |-> "routing",
   accounts |-> Leading(InputAccount) \o Segment(infos[1]) \o Segment(infos[2]),
   amount |-> Swap.input_amount, threshold |-> Swap.other_amount_threshold,
   is_base_input |-> TRUE,
   counts |-> <<AccountCount(infos[1]), AccountCount(infos[2])>>]

\* What the request holds: a plan whose steps are typed, of one step or two once the
\* handler has accepted it.
Requested ==
  /\ asked \in Asks /\ route \in Candidates(asked) \cup {DefaultRoute}
  /\ request.input_account \in {NoAccount, <<"account">>}
  /\ request.swap_response = <<>>
       \/ \E w : request.swap_response = <<w>> /\ w.route_plan \in Seq(PlanStep)
  /\ pc \notin {"quoted", "sent", "failed"} => request.swap_response # <<>> /\ Len(Plan) \in {1, 2}

\* The pools are read in the order of the plan, each of them for its step.
InfosOfPlan ==
  /\ infos \in Seq({InfoOf(step) : step \in PlanStep})
  /\ infos # <<>> => request.swap_response # <<>> /\ Len(Plan) \in {1, 2} /\ Len(infos) <= Len(Plan)
  /\ \A i \in 1..Len(infos) : Plan[i].pool_id \in Pool /\ infos[i] = InfoOf(Plan[i])
  /\ pc \in {"quoted", "sent"} => infos = <<>>

\* The instruction is made of all of them.
IxOfInfos ==
  /\ pc \in {"quoted", "sent", "pools"} => ix = NoIx
  /\ \/ ix = NoIx
     \/ Len(Plan) = 1 /\ Len(infos) = 1 /\ ix = SwapV2Ix
     \/ Len(Plan) = 2 /\ Len(infos) = 2 /\ ix = RoutingIx

Chain == Requested /\ InfosOfPlan /\ IxOfInfos

\* It holds when the quote has been answered.
LEMMA InitChain == Init => Chain
<1>1. Init => /\ request.swap_response = <<>> /\ request.input_account = NoAccount
              /\ infos = <<>> /\ ix = NoIx /\ pc = "quoted"
              /\ asked \in Asks /\ route \in Candidates(asked) \cup {DefaultRoute}
  BY DEF Init
<1> QED
  BY <1>1 DEF Chain, Requested, InfosOfPlan, IxOfInfos

\* And when the client sends an answer back.
LEMMA SendChain ==
  ASSUME Chain, Send
  PROVE  Chain'
<1>1. /\ pc = "quoted" /\ pc' = "sent" /\ UNCHANGED <<asked, route, infos, ix>>
      /\ infos = <<>> /\ ix = NoIx
  BY DEF Chain, InfosOfPlan, IxOfInfos, Send
<1>2. PICK s \in Variations(Answer(route)), account \in {NoAccount, <<"account">>} :
             request' = [swap_response |-> s, input_account |-> account]
  BY DEF Send
<1>3. asked \in Asks /\ route \in Candidates(asked) \cup {DefaultRoute}
  BY DEF Chain, Requested
<1>4. s = <<>> \/ \E w : s = <<w>> /\ w.route_plan \in Seq(PlanStep)
  BY <1>2, <1>3, RouteIsTyped, VariationIsTyped
<1>5. request'.swap_response = s /\ request'.input_account = account
  BY <1>2
<1>6. Requested'
  BY <1>1, <1>2, <1>3, <1>4, <1>5 DEF Requested
<1>7. InfosOfPlan' /\ IxOfInfos'
  BY <1>1 DEF InfosOfPlan, IxOfInfos
<1> QED
  BY <1>6, <1>7 DEF Chain

\* The next pool's account.
LEMMA ReadPoolChain ==
  ASSUME Chain, ReadPool
  PROVE  Chain'
<1> DEFINE step == Plan[Len(infos) + 1]
<1>1. /\ pc = "pools" /\ Len(infos) < Len(Plan) /\ step.pool_id \in Pool
      /\ infos' = Append(infos, InfoOf(step)) /\ UNCHANGED <<asked, route, pc, request, ix>>
  BY DEF ReadPool, Reading, InfoOf
<1>2. /\ request.swap_response # <<>> /\ Len(Plan) \in {1, 2} /\ Plan \in Seq(PlanStep)
  BY <1>1 DEF Chain, Requested, Plan, Swap
<1>3. infos \in Seq({InfoOf(s) : s \in PlanStep}) /\ Len(infos) \in Nat
  BY DEF Chain, InfosOfPlan
<1>4. step \in PlanStep
  BY <1>1, <1>2, <1>3
<1>5. InfoOf(step) \in {InfoOf(s) : s \in PlanStep}
  BY <1>4
<1>6. Plan' = Plan
  BY <1>1 DEF Plan, Swap
<1> HIDE DEF step
<1>7. /\ infos' \in Seq({InfoOf(s) : s \in PlanStep}) /\ Len(infos') = Len(infos) + 1
      /\ \A i \in 1..Len(infos) : infos'[i] = infos[i]
      /\ infos'[Len(infos) + 1] = InfoOf(step)
  BY <1>1, <1>3, <1>5, AppendProperties
<1>8. \A i \in 1..Len(infos') : Plan[i].pool_id \in Pool /\ infos'[i] = InfoOf(Plan[i])
  <2> SUFFICES ASSUME NEW i \in 1..Len(infos')
               PROVE  Plan[i].pool_id \in Pool /\ infos'[i] = InfoOf(Plan[i])
    OBVIOUS
  <2>1. CASE i \in 1..Len(infos)
    BY <1>7, <2>1 DEF Chain, InfosOfPlan
  <2>2. CASE i = Len(infos) + 1
    BY <1>1, <1>7, <2>2 DEF step
  <2> QED
    BY <1>3, <1>7, <2>1, <2>2
<1>9. Requested'
  BY <1>1, <1>6 DEF Chain, Requested
<1>10. InfosOfPlan'
  BY <1>1, <1>2, <1>3, <1>6, <1>7, <1>8 DEF InfosOfPlan
<1>11. IxOfInfos'
  BY <1>1 DEF Chain, IxOfInfos
<1> QED
  BY <1>9, <1>10, <1>11 DEF Chain

\* Making the instruction.
LEMMA BuildChain ==
  ASSUME Chain, BuildSwapV2 \/ BuildRoute
  PROVE  Chain'
<1>1. /\ pc = "pools" /\ pc' = "simulate" /\ Len(infos) = Len(Plan)
      /\ UNCHANGED <<asked, route, request, infos>>
  BY DEF BuildSwapV2, BuildRoute, PoolsRead
<1>2. Plan' = Plan /\ Swap' = Swap /\ InputAccount' = InputAccount
  BY <1>1 DEF Plan, Swap, InputAccount
<1>3. SwapV2Ix' = SwapV2Ix
  BY <1>1, <1>2 DEF SwapV2Ix
<1>4. RoutingIx' = RoutingIx
  BY <1>1, <1>2 DEF RoutingIx, Leading
<1>5. \/ Len(Plan) = 1 /\ ix' = SwapV2Ix
      \/ Len(Plan) = 2 /\ ix' = RoutingIx
  BY DEF BuildSwapV2, BuildRoute, SwapV2Ix, RoutingIx
<1>6. Requested'
  BY <1>1, <1>2 DEF Chain, Requested
<1>7. InfosOfPlan'
  BY <1>1, <1>2 DEF Chain, InfosOfPlan
<1>8. IxOfInfos'
  BY <1>1, <1>2, <1>3, <1>4, <1>5 DEF IxOfInfos
<1> QED
  BY <1>6, <1>7, <1>8 DEF Chain

\* Every other step only moves on; into the reading of the pools with an accepted plan.
LEMMA MoveChain ==
  ASSUME Chain, UNCHANGED <<asked, route, request, infos, ix>>,
         \/ pc' = pc \/ pc' = "failed"
         \/ pc = "sent" /\ pc' = "pools" /\ request.swap_response # <<>> /\ Len(Plan) \in {1, 2}
         \/ pc \notin {"quoted", "sent", "failed"} /\ pc' \notin {"quoted", "sent", "pools"}
  PROVE  Chain'
<1>1. Plan' = Plan /\ Swap' = Swap /\ InputAccount' = InputAccount
  BY DEF Plan, Swap, InputAccount
<1>2. SwapV2Ix' = SwapV2Ix /\ RoutingIx' = RoutingIx
  BY <1>1 DEF SwapV2Ix, RoutingIx, Leading
<1>3. Requested'
  BY <1>1 DEF Chain, Requested
<1>4. InfosOfPlan'
  BY <1>1 DEF Chain, InfosOfPlan
<1>5. IxOfInfos'
  BY <1>1, <1>2 DEF Chain, IxOfInfos
<1> QED
  BY <1>3, <1>4, <1>5 DEF Chain

\* It holds throughout.
LEMMA ChainInv == Spec => []Chain
<1>1. ASSUME Chain, [Next]_vars PROVE Chain'
  <2>1. CASE Send
    BY <1>1, <2>1, SendChain
  <2>2. CASE ReadPool
    BY <1>1, <2>2, ReadPoolChain
  <2>3. CASE BuildSwapV2 \/ BuildRoute
    BY <1>1, <2>3, BuildChain
  <2>4. CASE Accept \/ CallFails \/ RefuseSwapType
    BY <1>1, <2>4, MoveChain DEF Accept, CallFails, RefuseSwapType, PoolsRead, Proceed
  <2>5. CASE Simulate \/ Compile \/ Submit
    BY <1>1, <2>5, MoveChain DEF Simulate, Compile, Submit, Proceed
  <2>6. CASE AcceptLists \/ CompareNext \/ Confirm
    BY <1>1, <2>6, MoveChain DEF AcceptLists, CompareNext, Confirm, Proceed
  <2>7. CASE Returned \/ UNCHANGED vars
    BY <1>1, <2>7, MoveChain DEF Returned, vars
  <2> QED
    BY <1>1, <2>1, <2>2, <2>3, <2>4, <2>5, <2>6, <2>7 DEF Next
<1> QED
  BY <1>1, InitChain, PTL DEF Spec

-----------------------------------------------------------------------------
(* The accounts of an instruction                                          *)

\* Eight accounts, then the tick arrays.
LEMMA SegmentIs ==
  ASSUME NEW info, NEW t \in Seq(TickArray), info.tick_arrays = t
  PROVE  /\ \E S : Segment(info) \in Seq(S)
         /\ Len(Segment(info)) = 8 + Len(t)
         /\ Segment(info)[2] = <<"pool_state", info.pool_state>>
         /\ Segment(info)[3] = Ata(info.output_mint)
         /\ Segment(info)[4] = info.input_vault
         /\ Segment(info)[5] = info.output_vault
         /\ \A k \in 1..Len(t) : Segment(info)[8 + k] = t[k]
<1> DEFINE a1 == <<"amm_config", info.pool_state>>
           a2 == <<"pool_state", info.pool_state>>
           a3 == Ata(info.output_mint)
           a4 == info.input_vault
           a5 == info.output_vault
           a6 == <<"mint", info.output_mint>>
           a7 == <<"observation", info.pool_state>>
           a8 == <<"extension", info.pool_state>>
           first == <<a1, a2, a3, a4, a5, a6, a7, a8>>
           S == {a1, a2, a3, a4, a5, a6, a7, a8}
<1>1. Segment(info) = first \o t
  BY DEF Segment
<1> HIDE DEF a1, a2, a3, a4, a5, a6, a7, a8
<1>2. first \in Seq(S)
  OBVIOUS
<1>3. Len(first) = 8 /\ first[2] = a2 /\ first[3] = a3 /\ first[4] = a4 /\ first[5] = a5
  OBVIOUS
<1> HIDE DEF first, S
<1>4. /\ first \o t \in Seq(S \cup TickArray) /\ Len(first \o t) = Len(first) + Len(t)
      /\ \A i \in 1..Len(first) : (first \o t)[i] = first[i]
      /\ \A i \in 1..Len(t) : (first \o t)[Len(first) + i] = t[i]
  BY <1>2, Beside
<1>5. /\ first \o t \in Seq(S \cup TickArray) /\ Len(first \o t) = 8 + Len(t)
      /\ \A i \in {2, 3, 4, 5} : (first \o t)[i] = first[i]
      /\ \A i \in 1..Len(t) : (first \o t)[8 + i] = t[i]
  BY <1>3, <1>4
<1> QED
  BY <1>1, <1>3, <1>5 DEF a2, a3, a4, a5

\* Where the accounts of a single pool's instruction stand.
LEMMA SwapV2AccountsAre ==
  ASSUME NEW info, info.tick_arrays \in Seq(TickArray)
  PROVE  /\ SwapV2Accounts(info)[3] = <<"pool_state", info.pool_state>>
         /\ SwapV2Accounts(info)[4] = Ata(info.input_mint)
         /\ SwapV2Accounts(info)[5] = Ata(info.output_mint)
         /\ SwapV2Accounts(info)[6] = info.input_vault
         /\ SwapV2Accounts(info)[7] = info.output_vault
<1> DEFINE a1 == Payer
           a2 == <<"amm_config", info.pool_state>>
           a3 == <<"pool_state", info.pool_state>>
           a4 == Ata(info.input_mint)
           a5 == Ata(info.output_mint)
           a6 == info.input_vault
           a7 == info.output_vault
           a8 == <<"observation", info.pool_state>>
           a9 == Program("token")
           a10 == Program("token_2022")
           a11 == Program("memo")
           a12 == <<"mint", info.input_mint>>
           a13 == <<"mint", info.output_mint>>
           a14 == <<"extension", info.pool_state>>
           first == <<a1, a2, a3, a4, a5, a6, a7, a8, a9, a10, a11, a12, a13, a14>>
           S == {a1, a2, a3, a4, a5, a6, a7, a8, a9, a10, a11, a12, a13, a14}
<1>1. SwapV2Accounts(info) = first \o info.tick_arrays
  BY DEF SwapV2Accounts
<1> HIDE DEF a1, a2, a3, a4, a5, a6, a7, a8, a9, a10, a11, a12, a13, a14
<1>2. first \in Seq(S)
  OBVIOUS
<1>3. Len(first) = 14 /\ first[3] = a3 /\ first[4] = a4 /\ first[5] = a5 /\ first[6] = a6 /\ first[7] = a7
  OBVIOUS
<1> DEFINE t == info.tick_arrays
<1>4. t \in Seq(TickArray)
  OBVIOUS
<1> HIDE DEF first, S, t
<1>5. \A i \in 1..Len(first) : (first \o t)[i] = first[i]
  BY <1>2, <1>4, Beside
<1>6. \A i \in {3, 4, 5, 6, 7} : (first \o t)[i] = first[i]
  <2>1. \A i \in {3, 4, 5, 6, 7} : i \in 1..Len(first)
    BY <1>3
  <2> QED
    BY <1>5, <2>1
<1>7. SwapV2Accounts(info) = first \o t
  BY <1>1 DEF t
<1> QED
  BY <1>3, <1>6, <1>7 DEF a3, a4, a5, a6, a7

\* The accounts of a routing instruction before its segments.
LEMMA LeadingIs ==
  ASSUME NEW account
  PROVE  /\ \E S : Leading(account) \in Seq(S)
         /\ Len(Leading(account)) = 9 /\ Leading(account)[3] = account
<1> DEFINE a1 == Program("clmm")
           a2 == Payer
           a4 == <<"mint", infos[1].input_mint>>
           a5 == Program("token")
           a6 == Program("token_2022")
           a7 == Program("associated_token")
           a8 == Program("system")
           a9 == Program("memo")
           first == <<a1, a2, account, a4, a5, a6, a7, a8, a9>>
           S == {a1, a2, account, a4, a5, a6, a7, a8, a9}
<1>1. Leading(account) = first
  BY DEF Leading
<1> HIDE DEF a1, a2, a4, a5, a6, a7, a8, a9
<1>2. first \in Seq(S) /\ Len(first) = 9 /\ first[3] = account
  OBVIOUS
<1> HIDE DEF first, S
<1> QED
  BY <1>1, <1>2

\* Three sequences side by side.
LEMMA ThreeBeside ==
  ASSUME NEW R, NEW S, NEW T, NEW r \in Seq(R), NEW s \in Seq(S), NEW t \in Seq(T)
  PROVE  /\ Len(r \o s \o t) = Len(r) + Len(s) + Len(t)
         /\ \A i \in 1..Len(r) : (r \o s \o t)[i] = r[i]
         /\ \A i \in 1..Len(s) : (r \o s \o t)[Len(r) + i] = s[i]
         /\ \A i \in 1..Len(t) : (r \o s \o t)[Len(r) + Len(s) + i] = t[i]
<1> DEFINE rs == r \o s
<1>1. /\ rs \in Seq(R \cup S) /\ Len(r) \in Nat /\ Len(s) \in Nat /\ Len(rs) = Len(r) + Len(s)
      /\ \A i \in 1..Len(r) : rs[i] = r[i]
      /\ \A i \in 1..Len(s) : rs[Len(r) + i] = s[i]
  BY Beside
<1> HIDE DEF rs
<1>2. /\ Len(rs \o t) = Len(rs) + Len(t)
      /\ \A i \in 1..Len(rs) : (rs \o t)[i] = rs[i]
      /\ \A i \in 1..Len(t) : (rs \o t)[Len(rs) + i] = t[i]
  <2>1. rs \in Seq(R \cup S)
    BY <1>1
  <2> QED
    BY <2>1, Beside
<1>3. \A i \in 1..Len(r) : i \in 1..Len(rs)
  BY <1>1
<1>4. \A i \in 1..Len(s) : Len(r) + i \in 1..Len(rs)
  BY <1>1
<1> QED
  BY <1>1, <1>2, <1>3, <1>4 DEF rs

\* Where the routing program finds the segments, unless a count wraps.
LEMMA Layout ==
  ASSUME Chain, ix = RoutingIx, Len(Plan) = 2, Len(infos) = 2,
         \A i \in 1..2 : 8 + Len(Plan[i].remaining_accounts) < CountWord
  PROVE  /\ \A i \in 1..2 : /\ infos[i] = InfoOf(Plan[i])
                            /\ Plan[i].remaining_accounts \in Seq(TickArray)
                            /\ ix.counts[i] = 8 + Len(Plan[i].remaining_accounts)
                            /\ Before(i) \in Nat
         /\ Before(2) = Before(1) + ix.counts[1] /\ Before(1) = 9
         /\ Len(ix.accounts) = Before(2) + ix.counts[2]
         /\ ix.accounts[3] = InputAccount
         /\ \A i \in 1..2 : \A k \in 1..ix.counts[i] :
              ix.accounts[Before(i) + k] = Segment(infos[i])[k]
<1> DEFINE t1 == Plan[1].remaining_accounts
           t2 == Plan[2].remaining_accounts
<1>1. infos # <<>> /\ 1 \in 1..Len(infos) /\ 2 \in 1..Len(infos)
  OBVIOUS
<1>2. infos[1] = InfoOf(Plan[1]) /\ infos[2] = InfoOf(Plan[2])
  BY <1>1 DEF Chain, InfosOfPlan
<1>3. Plan \in Seq(PlanStep)
  BY <1>1 DEF Chain, Requested, InfosOfPlan, Plan, Swap
<1>4. Plan[1] \in PlanStep /\ Plan[2] \in PlanStep
  <2>1. \A i \in 1..Len(Plan) : Plan[i] \in PlanStep
    BY <1>3, ElementOfSeq
  <2> QED
    BY <2>1
<1>5. t1 \in Seq(TickArray) /\ t2 \in Seq(TickArray) /\ Len(t1) \in Nat /\ Len(t2) \in Nat
  BY <1>4 DEF PlanStep
<1>6. infos[1].tick_arrays = t1 /\ infos[2].tick_arrays = t2
  BY <1>2 DEF InfoOf
<1>7. /\ ix.counts = <<AccountCount(infos[1]), AccountCount(infos[2])>>
      /\ ix.accounts = Leading(InputAccount) \o Segment(infos[1]) \o Segment(infos[2])
  BY DEF RoutingIx
<1>8. ix.counts[1] = AccountCount(infos[1]) /\ ix.counts[2] = AccountCount(infos[2])
  BY <1>7
<1>9. AccountCount(infos[1]) = 8 + Len(t1) /\ AccountCount(infos[2]) = 8 + Len(t2)
  <2>1. CountWord \in Nat \ {0} /\ 8 + Len(t1) < CountWord /\ 8 + Len(t2) < CountWord
    BY SwapTransactionAssumption
  <2>2. \A k \in Nat : 8 + k < CountWord => (7 + 1 + k) % CountWord = 8 + k
    BY <2>1
  <2> QED
    BY <1>5, <1>6, <2>1, <2>2 DEF AccountCount
<1> HIDE DEF t1, t2
<1>10. Before(1) = 9 /\ Before(2) = 9 + ix.counts[1]
  BY DEF Before
<1>11. PICK R : Leading(InputAccount) \in Seq(R)
  BY LeadingIs
<1>12. PICK S : Segment(infos[1]) \in Seq(S)
  BY <1>5, <1>6, SegmentIs
<1>13. PICK T : Segment(infos[2]) \in Seq(T)
  BY <1>5, <1>6, SegmentIs
<1>14. /\ Len(Leading(InputAccount)) = 9 /\ Leading(InputAccount)[3] = InputAccount
       /\ Len(Segment(infos[1])) = 8 + Len(t1) /\ Len(Segment(infos[2])) = 8 + Len(t2)
  BY <1>5, <1>6, LeadingIs, SegmentIs
<1>15. /\ Len(ix.accounts) = 9 + (8 + Len(t1)) + (8 + Len(t2))
       /\ \A i \in 1..9 : ix.accounts[i] = Leading(InputAccount)[i]
       /\ \A i \in 1..(8 + Len(t1)) : ix.accounts[9 + i] = Segment(infos[1])[i]
       /\ \A i \in 1..(8 + Len(t2)) : ix.accounts[9 + (8 + Len(t1)) + i] = Segment(infos[2])[i]
  <2>1. /\ Len(ix.accounts)
             = Len(Leading(InputAccount)) + Len(Segment(infos[1])) + Len(Segment(infos[2]))
        /\ \A i \in 1..Len(Leading(InputAccount)) : ix.accounts[i] = Leading(InputAccount)[i]
        /\ \A i \in 1..Len(Segment(infos[1])) :
             ix.accounts[Len(Leading(InputAccount)) + i] = Segment(infos[1])[i]
        /\ \A i \in 1..Len(Segment(infos[2])) :
             ix.accounts[Len(Leading(InputAccount)) + Len(Segment(infos[1])) + i]
               = Segment(infos[2])[i]
    BY <1>7, <1>11, <1>12, <1>13, ThreeBeside
  <2> QED
    BY <1>14, <2>1
<1>16. ASSUME NEW i \in 1..2
       PROVE  /\ infos[i] = InfoOf(Plan[i])
              /\ Plan[i].remaining_accounts \in Seq(TickArray)
              /\ ix.counts[i] = 8 + Len(Plan[i].remaining_accounts)
              /\ Before(i) \in Nat
              /\ \A k \in 1..ix.counts[i] : ix.accounts[Before(i) + k] = Segment(infos[i])[k]
  <2>1. CASE i = 1
    <3>1. ix.counts[1] = 8 + Len(t1) /\ Before(1) \in Nat
      BY <1>5, <1>8, <1>9, <1>10
    <3>2. \A k \in 1..ix.counts[1] : ix.accounts[Before(1) + k] = Segment(infos[1])[k]
      BY <1>8, <1>9, <1>10, <1>15
    <3> QED
      BY <1>2, <1>5, <2>1, <3>1, <3>2 DEF t1
  <2>2. CASE i = 2
    <3>1. ix.counts[2] = 8 + Len(t2) /\ Before(2) \in Nat
      BY <1>5, <1>8, <1>9, <1>10
    <3>2. \A k \in 1..ix.counts[2] : ix.accounts[Before(2) + k] = Segment(infos[2])[k]
      <4>1. Before(2) = 9 + (8 + Len(t1)) /\ ix.counts[2] = 8 + Len(t2)
        BY <1>8, <1>9, <1>10
      <4>2. \A k \in 1..(8 + Len(t2)) : ix.accounts[9 + (8 + Len(t1)) + k] = Segment(infos[2])[k]
        BY <1>15
      <4> QED
        BY <4>1, <4>2
    <3> QED
      BY <1>2, <1>5, <2>2, <3>1, <3>2 DEF t2
  <2> QED
    BY <2>1, <2>2
<1> QED
  BY <1>5, <1>8, <1>9, <1>10, <1>14, <1>15, <1>16, SMTT(40)

\* A routing instruction is made of two swap infos.
LEMMA RoutingIs ==
  ASSUME Chain, ix.kind = "routing"
  PROVE  ix = RoutingIx /\ Len(Plan) = 2 /\ Len(infos) = 2
BY DEF Chain, IxOfInfos, NoIx, SwapV2Ix

\* The segments of a routing instruction follow each other, fill the accounts, and each
\* is its own pool's with the tick arrays of the plan.
THEOREM SegmentsFollow == Spec => []SegmentsAreLegs
<1>1. ASSUME Chain PROVE SegmentsAreLegs
  <2>1. SUFFICES ASSUME ix.kind = "routing",
                        \A i \in 1..2 : 8 + Len(Plan[i].remaining_accounts) < CountWord
                 PROVE  /\ Before(2) + ix.counts[2] = Len(ix.accounts)
                        /\ \A i \in 1..2 :
                             /\ ix.accounts[Before(i) + 2] = <<"pool_state", Plan[i].pool_id>>
                             /\ SubSeq(ix.accounts, Before(i) + 9, Before(i) + ix.counts[i])
                                  = Plan[i].remaining_accounts
    BY DEF SegmentsAreLegs
  <2>2. ix = RoutingIx /\ Len(Plan) = 2 /\ Len(infos) = 2
    BY <1>1, <2>1, RoutingIs
  <2>3. Before(2) + ix.counts[2] = Len(ix.accounts)
    BY <1>1, <2>1, <2>2, Layout
  <2>4. ASSUME NEW i \in 1..2
        PROVE  /\ ix.accounts[Before(i) + 2] = <<"pool_state", Plan[i].pool_id>>
               /\ SubSeq(ix.accounts, Before(i) + 9, Before(i) + ix.counts[i])
                    = Plan[i].remaining_accounts
    <3> DEFINE t == Plan[i].remaining_accounts
               b == Before(i)
    <3>1. /\ infos[i] = InfoOf(Plan[i]) /\ t \in Seq(TickArray) /\ b \in Nat
          /\ ix.counts[i] = 8 + Len(t)
          /\ \A k \in 1..ix.counts[i] : ix.accounts[b + k] = Segment(infos[i])[k]
      BY <1>1, <2>1, <2>2, Layout
    <3>2. Len(t) \in Nat
      BY <3>1
    <3>3. infos[i].tick_arrays = t /\ infos[i].pool_state = Plan[i].pool_id
      BY <3>1 DEF InfoOf
    <3>4. /\ Segment(infos[i])[2] = <<"pool_state", Plan[i].pool_id>>
          /\ \A k \in 1..Len(t) : Segment(infos[i])[8 + k] = t[k]
      <4> HIDE DEF t
      <4>1. t \in Seq(TickArray) /\ infos[i].tick_arrays = t
        BY <3>1, <3>3
      <4>2. /\ Segment(infos[i])[2] = <<"pool_state", infos[i].pool_state>>
            /\ \A k \in 1..Len(t) : Segment(infos[i])[8 + k] = t[k]
        BY <4>1, SegmentIs
      <4> QED
        BY <3>3, <4>2
    <3> HIDE DEF t, b
    <3>5. ix.accounts[b + 2] = <<"pool_state", Plan[i].pool_id>>
      BY <3>1, <3>2, <3>4
    <3>6. \A k \in 1..Len(t) : ix.accounts[(b + 8) + k] = t[k]
      <4> SUFFICES ASSUME NEW k \in 1..Len(t) PROVE ix.accounts[(b + 8) + k] = t[k]
        OBVIOUS
      <4>1. 8 + k \in 1..ix.counts[i] /\ b + (8 + k) = (b + 8) + k
        BY <3>1, <3>2
      <4> QED
        BY <3>1, <3>4, <4>1
    <3>7. SubSeq(ix.accounts, (b + 8) + 1, (b + 8) + Len(t)) = t
      BY <3>1, <3>6, PartIs
    <3>8. b + 9 = (b + 8) + 1 /\ b + ix.counts[i] = (b + 8) + Len(t)
      BY <3>1, <3>2
    <3> QED
      BY <3>5, <3>7, <3>8 DEF t, b
  <2> QED
    BY <2>3, <2>4
<1> QED
  BY <1>1, ChainInv, PTL

-----------------------------------------------------------------------------
(* The instruction of an unaltered answer                                  *)

\* What a pool does in a direction.
MoveOf(p, d) ==
  [pool     |-> p,                  input_vault  |-> Vault(p, InputOf(p, d)),
   credited |-> Ata(OutputOf(p, d)), output_vault |-> Vault(p, OutputOf(p, d))]

\* The vaults are those of the direction that was quoted.
LEMMA InfoOfLeg ==
  ASSUME NEW p \in Pool, NEW d \in BOOLEAN, NEW b \in BOOLEAN, NEW n \in Amount
  PROVE  LET info == InfoOf(RoutePlan(Leg(p, d, b, n)))
         IN  /\ info.pool_state = p
             /\ info.input_mint = InputOf(p, d) /\ info.output_mint = OutputOf(p, d)
             /\ info.input_vault = Vault(p, InputOf(p, d))
             /\ info.output_vault = Vault(p, OutputOf(p, d))
             /\ info.tick_arrays = TickArrays[p][d]
<1> DEFINE step == RoutePlan(Leg(p, d, b, n))
<1>1. /\ step.pool_id = p /\ step.input_mint = InputOf(p, d) /\ step.output_mint = OutputOf(p, d)
      /\ step.remaining_accounts = TickArrays[p][d]
  BY DEF RoutePlan, Leg
<1> HIDE DEF step
<1>2. Vaults(p, InputOf(p, d)) = <<Vault(p, InputOf(p, d)), Vault(p, OutputOf(p, d))>>
  <2>1. CASE d = TRUE
    BY <2>1 DEF Vaults, InputOf, OutputOf
  <2>2. CASE d = FALSE
    BY <2>2, Ends DEF Vaults, InputOf, OutputOf
  <2> QED
    BY <2>1, <2>2
<1>3. InfoOf(step) =
        [pool_state   |-> p, input_mint |-> InputOf(p, d), output_mint |-> OutputOf(p, d),
         input_vault  |-> Vault(p, InputOf(p, d)), output_vault |-> Vault(p, OutputOf(p, d)),
         tick_arrays  |-> TickArrays[p][d]]
  BY <1>1, <1>2 DEF InfoOf
<1> QED
  BY <1>3 DEF step

\* The instruction made of an answer has an info per leg, and the amount of the answer.
LEMMA InfosOfAnswer ==
  ASSUME Chain, Made, Unaltered
  PROVE  /\ \/ Len(route) = 1 /\ ix = SwapV2Ix
            \/ Len(route) = 2 /\ ix = RoutingIx
         /\ Len(Plan) = Len(route) /\ Len(infos) = Len(route)
         /\ \A i \in 1..Len(route) : /\ Plan[i] = RoutePlan(route[i])
                                     /\ infos[i] = InfoOf(RoutePlan(route[i]))
         /\ route # DefaultRoute
         /\ ix.amount = AmountIn(route) /\ Swap.output_amount = AmountOut(route)
         /\ ix.threshold = Swap.other_amount_threshold
<1>1. asked \in Asks /\ route \in Candidates(asked) \cup {DefaultRoute}
  BY DEF Chain, Requested
<1>2. route \in Seq(LegType) /\ Len(route) \in {1, 2}
  BY <1>1, RouteIsTyped
<1>3. Swap = Answer(route)
  BY DEF Unaltered, Swap
<1>4. /\ Swap.input_amount = AmountIn(route) /\ Swap.output_amount = AmountOut(route)
  BY <1>3 DEF Answer
<1>5. Len(Plan) = Len(route) /\ \A i \in 1..Len(route) : Plan[i] = RoutePlan(route[i])
  BY <1>2, <1>3, PlanIsTyped DEF Plan
<1>6. ix # NoIx
  BY DEF Made, NoIx
<1>7. \/ Len(Plan) = 1 /\ Len(infos) = 1 /\ ix = SwapV2Ix
      \/ Len(Plan) = 2 /\ Len(infos) = 2 /\ ix = RoutingIx
  BY <1>6 DEF Chain, IxOfInfos
<1>8. \A i \in 1..Len(infos) : Plan[i].pool_id \in Pool /\ infos[i] = InfoOf(Plan[i])
  BY DEF Chain, InfosOfPlan
<1>9. ix.amount = Swap.input_amount /\ ix.threshold = Swap.other_amount_threshold
  BY <1>7 DEF SwapV2Ix, RoutingIx
<1>10. route # DefaultRoute
  <2>1. RoutePlan(route[1]).pool_id \in Pool
    BY <1>2, <1>5, <1>7, <1>8
  <2>2. NoKey \notin Pool
    BY QuoteAnswerAssumption
  <2> QED
    BY <2>1, <2>2 DEF RoutePlan, DefaultRoute
<1> QED
  BY <1>2, <1>4, <1>5, <1>7, <1>8, <1>9, <1>10

\* A single pool's instruction moves what its route names.
LEMMA OneMove ==
  ASSUME Chain, Made, Unaltered, NEW p \in Pool, NEW d \in BOOLEAN, NEW b \in BOOLEAN,
         NEW n \in Amount, route = <<Leg(p, d, b, n)>>
  PROVE  Moves = <<MoveOf(p, d)>> /\ Debited = Ata(InputOf(p, d))
<1>1. Len(route) = 1 /\ route[1] = Leg(p, d, b, n)
  OBVIOUS
<1>2. ix = SwapV2Ix /\ infos[1] = InfoOf(RoutePlan(Leg(p, d, b, n)))
  BY <1>1, InfosOfAnswer
<1> DEFINE info == infos[1]
<1>3. /\ info.pool_state = p
      /\ info.input_mint = InputOf(p, d) /\ info.output_mint = OutputOf(p, d)
      /\ info.input_vault = Vault(p, InputOf(p, d)) /\ info.output_vault = Vault(p, OutputOf(p, d))
      /\ info.tick_arrays = TickArrays[p][d]
  BY <1>2, InfoOfLeg
<1>4. ix.kind = "swap_v2" /\ ix.accounts = SwapV2Accounts(info)
  BY <1>2 DEF SwapV2Ix
<1>5. TickArrays[p][d] \in Seq(TickArray)
  BY QuoteAnswerAssumption
<1> HIDE DEF info
<1>6. /\ SwapV2Accounts(info)[3] = <<"pool_state", p>>
      /\ SwapV2Accounts(info)[4] = Ata(InputOf(p, d))
      /\ SwapV2Accounts(info)[5] = Ata(OutputOf(p, d))
      /\ SwapV2Accounts(info)[6] = Vault(p, InputOf(p, d))
      /\ SwapV2Accounts(info)[7] = Vault(p, OutputOf(p, d))
  BY <1>3, <1>5, SwapV2AccountsAre
<1>7. Debited = Ata(InputOf(p, d))
  BY <1>4, <1>6 DEF Debited
<1>8. SwapV2Accounts(info)[3][2] = p
  BY <1>6
<1>9. Moves = <<[pool     |-> ix.accounts[3][2], input_vault  |-> ix.accounts[6],
                 credited |-> ix.accounts[5],    output_vault |-> ix.accounts[7]]>>
  BY <1>4 DEF Moves
<1> QED
  BY <1>4, <1>6, <1>7, <1>8, <1>9 DEF MoveOf

\* A routing instruction moves what its two pools name, one after the other.
LEMMA TwoMoves ==
  ASSUME Chain, Made, Unaltered, NEW p \in Pool, NEW d \in BOOLEAN, NEW p2 \in Pool,
         NEW d2 \in BOOLEAN, NEW b \in BOOLEAN, NEW n1 \in Amount, NEW n2 \in Amount,
         route = <<Leg(p, d, b, n1), Leg(p2, d2, b, n2)>>
  PROVE  /\ Moves = [i \in 1..2 |-> IF i = 1 THEN MoveOf(p, d) ELSE MoveOf(p2, d2)]
         /\ Debited \in {Ata(InputOf(p, d)), request.input_account}
<1>1. Len(route) = 2 /\ route[1] = Leg(p, d, b, n1) /\ route[2] = Leg(p2, d2, b, n2)
  OBVIOUS
<1>2. /\ ix = RoutingIx /\ Len(Plan) = 2 /\ Len(infos) = 2
      /\ infos[1] = InfoOf(RoutePlan(Leg(p, d, b, n1)))
      /\ infos[2] = InfoOf(RoutePlan(Leg(p2, d2, b, n2)))
      /\ Plan[1] = RoutePlan(Leg(p, d, b, n1)) /\ Plan[2] = RoutePlan(Leg(p2, d2, b, n2))
  BY <1>1, InfosOfAnswer
<1> DEFINE one == infos[1]
           two == infos[2]
<1>3. /\ one.pool_state = p
      /\ one.input_mint = InputOf(p, d) /\ one.output_mint = OutputOf(p, d)
      /\ one.input_vault = Vault(p, InputOf(p, d)) /\ one.output_vault = Vault(p, OutputOf(p, d))
      /\ one.tick_arrays = TickArrays[p][d]
  BY <1>2, InfoOfLeg
<1>4. /\ two.pool_state = p2
      /\ two.input_mint = InputOf(p2, d2) /\ two.output_mint = OutputOf(p2, d2)
      /\ two.input_vault = Vault(p2, InputOf(p2, d2)) /\ two.output_vault = Vault(p2, OutputOf(p2, d2))
      /\ two.tick_arrays = TickArrays[p2][d2]
  BY <1>2, InfoOfLeg
<1>5. /\ Plan[1].remaining_accounts = TickArrays[p][d]
      /\ Plan[2].remaining_accounts = TickArrays[p2][d2]
  BY <1>2 DEF RoutePlan, Leg
<1>6. /\ TickArrays[p][d] \in Seq(TickArray) /\ 8 + Len(TickArrays[p][d]) < CountWord
      /\ TickArrays[p2][d2] \in Seq(TickArray) /\ 8 + Len(TickArrays[p2][d2]) < CountWord
  BY QuoteAnswerAssumption, SwapTransactionAssumption
<1>7. \A i \in 1..2 : 8 + Len(Plan[i].remaining_accounts) < CountWord
  BY <1>5, <1>6
<1>8. /\ \A i \in 1..2 : /\ ix.counts[i] = 8 + Len(Plan[i].remaining_accounts)
                         /\ \A k \in 1..ix.counts[i] :
                              ix.accounts[Before(i) + k] = Segment(infos[i])[k]
      /\ ix.accounts[3] = InputAccount
  BY <1>2, <1>7, Layout
<1> HIDE DEF one, two
<1>9. /\ Segment(one)[2] = <<"pool_state", p>> /\ Segment(one)[3] = Ata(OutputOf(p, d))
      /\ Segment(one)[4] = Vault(p, InputOf(p, d)) /\ Segment(one)[5] = Vault(p, OutputOf(p, d))
  BY <1>3, <1>6, SegmentIs
<1>10. /\ Segment(two)[2] = <<"pool_state", p2>> /\ Segment(two)[3] = Ata(OutputOf(p2, d2))
       /\ Segment(two)[4] = Vault(p2, InputOf(p2, d2)) /\ Segment(two)[5] = Vault(p2, OutputOf(p2, d2))
  BY <1>4, <1>6, SegmentIs
<1>11. \A i \in 1..2 : \A k \in {2, 3, 4, 5} : ix.accounts[Before(i) + k] = Segment(infos[i])[k]
  BY <1>5, <1>6, <1>8, SMTT(40)
<1>12. /\ ix.accounts[Before(1) + 2][2] = p /\ ix.accounts[Before(1) + 3] = Ata(OutputOf(p, d))
       /\ ix.accounts[Before(1) + 4] = Vault(p, InputOf(p, d))
       /\ ix.accounts[Before(1) + 5] = Vault(p, OutputOf(p, d))
  BY <1>9, <1>11 DEF one
<1>13. /\ ix.accounts[Before(2) + 2][2] = p2 /\ ix.accounts[Before(2) + 3] = Ata(OutputOf(p2, d2))
       /\ ix.accounts[Before(2) + 4] = Vault(p2, InputOf(p2, d2))
       /\ ix.accounts[Before(2) + 5] = Vault(p2, OutputOf(p2, d2))
  BY <1>10, <1>11 DEF two
<1>14. ix.kind = "routing"
  BY <1>2 DEF RoutingIx
<1>15. Moves = [i \in 1..2 |->
         [pool     |-> ix.accounts[Before(i) + 2][2], input_vault  |-> ix.accounts[Before(i) + 4],
          credited |-> ix.accounts[Before(i) + 3],    output_vault |-> ix.accounts[Before(i) + 5]]]
  BY <1>14 DEF Moves
<1>16. Debited \in {Ata(InputOf(p, d)), request.input_account}
  BY <1>3, <1>8, <1>14 DEF Debited, InputAccount, one
<1>17. ASSUME NEW i \in 1..2
       PROVE  [pool     |-> ix.accounts[Before(i) + 2][2], input_vault  |-> ix.accounts[Before(i) + 4],
               credited |-> ix.accounts[Before(i) + 3],    output_vault |-> ix.accounts[Before(i) + 5]]
                = IF i = 1 THEN MoveOf(p, d) ELSE MoveOf(p2, d2)
  BY <1>12, <1>13 DEF MoveOf
<1> QED
  BY <1>15, <1>16, <1>17

\* The route an instruction was made of, leg by leg.
LEMMA AnsweredRoute ==
  ASSUME Chain, Made, Unaltered
  PROVE  \/ \E p \in Pool, d \in BOOLEAN :
              /\ route = <<Leg(p, d, asked.base_input, asked.amount)>>
              /\ InputOf(p, d) = asked.input /\ OutputOf(p, d) = asked.output
         \/ \E p \in Pool, d \in BOOLEAN, p2 \in Pool, d2 \in BOOLEAN, n1 \in Amount, n2 \in Amount :
              /\ route = <<Leg(p, d, asked.base_input, n1), Leg(p2, d2, asked.base_input, n2)>>
              /\ InputOf(p, d) = asked.input /\ OutputOf(p2, d2) = asked.output
              /\ OutputOf(p, d) = InputOf(p2, d2)
              /\ asked.base_input = TRUE =>
                   n1 = asked.amount /\ n2 = Leg(p, d, TRUE, asked.amount).calculated
<1>1. asked \in Asks /\ route \in Candidates(asked)
  BY InfosOfAnswer DEF Chain, Requested
<1>2. asked.base_input \in BOOLEAN /\ asked.amount \in Amount
  BY <1>1, SwapTransactionAssumption DEF Ask
<1>3. PICK path \in Paths(asked.input, asked.output) :
             route = LegsOf(path, asked.base_input, asked.amount)
  BY <1>1 DEF Candidates
<1>4. CASE \E p \in Pool, d \in BOOLEAN :
             /\ path = <<<<p, d>>>> /\ InputOf(p, d) = asked.input /\ OutputOf(p, d) = asked.output
  <2>1. PICK p \in Pool, d \in BOOLEAN :
             /\ path = <<<<p, d>>>> /\ InputOf(p, d) = asked.input /\ OutputOf(p, d) = asked.output
    BY <1>4
  <2>2. route = <<Leg(p, d, asked.base_input, asked.amount)>>
    BY <1>3, <2>1, OneLeg
  <2> QED
    BY <2>1, <2>2
<1>5. CASE \E p \in Pool, d \in BOOLEAN, p2 \in Pool, d2 \in BOOLEAN :
             /\ path = <<<<p, d>>, <<p2, d2>>>>
             /\ InputOf(p, d) = asked.input /\ OutputOf(p2, d2) = asked.output
             /\ OutputOf(p, d) = InputOf(p2, d2)
  <2>1. PICK p \in Pool, d \in BOOLEAN, p2 \in Pool, d2 \in BOOLEAN :
             /\ path = <<<<p, d>>, <<p2, d2>>>>
             /\ InputOf(p, d) = asked.input /\ OutputOf(p2, d2) = asked.output
             /\ OutputOf(p, d) = InputOf(p2, d2)
    BY <1>5
  <2>2. route = LegsOf(<<<<p, d>>, <<p2, d2>>>>, asked.base_input, asked.amount)
    BY <1>3, <2>1
  <2>3. CASE asked.base_input = TRUE
    <3> DEFINE n == asked.amount
    <3>1. route = LegsOf(<<<<p, d>>, <<p2, d2>>>>, TRUE, n)
      BY <2>2, <2>3
    <3>2. LegsOf(<<<<p, d>>, <<p2, d2>>>>, TRUE, n)
            = <<Leg(p, d, TRUE, n), Leg(p2, d2, TRUE, Leg(p, d, TRUE, n).calculated)>>
      BY <1>2, TwoLegs, ZenonT(60)
    <3>3. Leg(p, d, TRUE, n).calculated \in Amount
      BY <1>2, LegIsTyped
    <3>4. route = <<Leg(p, d, TRUE, n), Leg(p2, d2, TRUE, Leg(p, d, TRUE, n).calculated)>>
      BY <3>1, <3>2, Zenon
    <3> QED
      BY <1>2, <2>1, <2>3, <3>3, <3>4
  <2>4. CASE asked.base_input = FALSE
    <3>1. PICK n1 \in Amount, n2 \in Amount :
                 route = <<Leg(p, d, asked.base_input, n1), Leg(p2, d2, asked.base_input, n2)>>
      BY <1>2, <2>2, TwoLegsAre
    <3> QED
      BY <2>1, <2>4, <3>1
  <2> QED
    BY <1>2, <2>3, <2>4
<1> QED
  BY <1>1, <1>4, <1>5, PathShape

\* And what its instruction moves.
LEMMA AnsweredMoves ==
  ASSUME Chain, Made, Unaltered
  PROVE  \/ \E p \in Pool, d \in BOOLEAN :
              /\ route = <<Leg(p, d, asked.base_input, asked.amount)>>
              /\ InputOf(p, d) = asked.input /\ OutputOf(p, d) = asked.output
              /\ Moves = <<MoveOf(p, d)>> /\ Debited = Ata(asked.input)
         \/ \E p \in Pool, d \in BOOLEAN, p2 \in Pool, d2 \in BOOLEAN, n1 \in Amount, n2 \in Amount :
              /\ route = <<Leg(p, d, asked.base_input, n1), Leg(p2, d2, asked.base_input, n2)>>
              /\ InputOf(p, d) = asked.input /\ OutputOf(p2, d2) = asked.output
              /\ OutputOf(p, d) = InputOf(p2, d2)
              /\ asked.base_input = TRUE =>
                   n1 = asked.amount /\ n2 = Leg(p, d, TRUE, asked.amount).calculated
              /\ Moves = [i \in 1..2 |-> IF i = 1 THEN MoveOf(p, d) ELSE MoveOf(p2, d2)]
              /\ Debited \in {Ata(asked.input), request.input_account}
<1>1. asked.base_input \in BOOLEAN /\ asked.amount \in Amount
  BY SwapTransactionAssumption DEF Chain, Requested, Ask
<1>2. CASE \E p \in Pool, d \in BOOLEAN :
              /\ route = <<Leg(p, d, asked.base_input, asked.amount)>>
              /\ InputOf(p, d) = asked.input /\ OutputOf(p, d) = asked.output
  <2>1. PICK p \in Pool, d \in BOOLEAN :
              /\ route = <<Leg(p, d, asked.base_input, asked.amount)>>
              /\ InputOf(p, d) = asked.input /\ OutputOf(p, d) = asked.output
    BY <1>2
  <2>2. Moves = <<MoveOf(p, d)>> /\ Debited = Ata(asked.input)
    BY <1>1, <2>1, OneMove
  <2> QED
    BY <2>1, <2>2
<1>3. CASE \E p \in Pool, d \in BOOLEAN, p2 \in Pool, d2 \in BOOLEAN, n1 \in Amount, n2 \in Amount :
              /\ route = <<Leg(p, d, asked.base_input, n1), Leg(p2, d2, asked.base_input, n2)>>
              /\ InputOf(p, d) = asked.input /\ OutputOf(p2, d2) = asked.output
              /\ OutputOf(p, d) = InputOf(p2, d2)
              /\ asked.base_input = TRUE =>
                   n1 = asked.amount /\ n2 = Leg(p, d, TRUE, asked.amount).calculated
  <2>1. PICK p \in Pool, d \in BOOLEAN, p2 \in Pool, d2 \in BOOLEAN, n1 \in Amount, n2 \in Amount :
              /\ route = <<Leg(p, d, asked.base_input, n1), Leg(p2, d2, asked.base_input, n2)>>
              /\ InputOf(p, d) = asked.input /\ OutputOf(p2, d2) = asked.output
              /\ OutputOf(p, d) = InputOf(p2, d2)
              /\ asked.base_input = TRUE =>
                   n1 = asked.amount /\ n2 = Leg(p, d, TRUE, asked.amount).calculated
    BY <1>3
  <2>2. /\ Moves = [i \in 1..2 |-> IF i = 1 THEN MoveOf(p, d) ELSE MoveOf(p2, d2)]
        /\ Debited \in {Ata(asked.input), request.input_account}
    BY <1>1, <2>1, TwoMoves
  <2> QED
    BY <2>1, <2>2
<1> QED
  BY <1>2, <1>3, AnsweredRoute, Zenon

\* The transaction made from an unaltered answer swaps the asked input for the asked
\* output, each pool in the direction it was quoted in.
THEOREM AnswersAreTradedAsAsked == Spec => []TradesWhatWasAsked
<1>1. ASSUME Chain PROVE TradesWhatWasAsked
  <2> SUFFICES ASSUME Made, Unaltered
               PROVE  LET n == Len(Moves)
                      IN  /\ Debited \in {Ata(asked.input), request.input_account}
                          /\ Moves[1].input_vault = Vault(Moves[1].pool, asked.input)
                          /\ Moves[n].output_vault = Vault(Moves[n].pool, asked.output)
                          /\ Moves[n].credited = Ata(asked.output)
                          /\ \A i \in 1..(n - 1) : \E m \in Mint :
                               /\ Moves[i].output_vault = Vault(Moves[i].pool, m)
                               /\ Moves[i].credited = Ata(m)
                               /\ Moves[i + 1].input_vault = Vault(Moves[i + 1].pool, m)
    BY DEF TradesWhatWasAsked
  <2>1. CASE \E p \in Pool, d \in BOOLEAN :
              /\ route = <<Leg(p, d, asked.base_input, asked.amount)>>
              /\ InputOf(p, d) = asked.input /\ OutputOf(p, d) = asked.output
              /\ Moves = <<MoveOf(p, d)>> /\ Debited = Ata(asked.input)
    <3>1. PICK p \in Pool, d \in BOOLEAN :
              /\ route = <<Leg(p, d, asked.base_input, asked.amount)>>
              /\ InputOf(p, d) = asked.input /\ OutputOf(p, d) = asked.output
              /\ Moves = <<MoveOf(p, d)>> /\ Debited = Ata(asked.input)
      BY <2>1
    <3>2. Len(Moves) = 1 /\ Moves[1] = MoveOf(p, d)
      BY <3>1
    <3>3. /\ MoveOf(p, d).pool = p
          /\ MoveOf(p, d).input_vault = Vault(p, asked.input)
          /\ MoveOf(p, d).credited = Ata(asked.output)
          /\ MoveOf(p, d).output_vault = Vault(p, asked.output)
      BY <3>1 DEF MoveOf
    <3> QED
      BY <3>1, <3>2, <3>3
  <2>2. CASE \E p \in Pool, d \in BOOLEAN, p2 \in Pool, d2 \in BOOLEAN, n1 \in Amount, n2 \in Amount :
              /\ route = <<Leg(p, d, asked.base_input, n1), Leg(p2, d2, asked.base_input, n2)>>
              /\ InputOf(p, d) = asked.input /\ OutputOf(p2, d2) = asked.output
              /\ OutputOf(p, d) = InputOf(p2, d2)
              /\ asked.base_input = TRUE =>
                   n1 = asked.amount /\ n2 = Leg(p, d, TRUE, asked.amount).calculated
              /\ Moves = [i \in 1..2 |-> IF i = 1 THEN MoveOf(p, d) ELSE MoveOf(p2, d2)]
              /\ Debited \in {Ata(asked.input), request.input_account}
    <3>1. PICK p \in Pool, d \in BOOLEAN, p2 \in Pool, d2 \in BOOLEAN, n1 \in Amount, n2 \in Amount :
              /\ route = <<Leg(p, d, asked.base_input, n1), Leg(p2, d2, asked.base_input, n2)>>
              /\ InputOf(p, d) = asked.input /\ OutputOf(p2, d2) = asked.output
              /\ OutputOf(p, d) = InputOf(p2, d2)
              /\ asked.base_input = TRUE =>
                   n1 = asked.amount /\ n2 = Leg(p, d, TRUE, asked.amount).calculated
              /\ Moves = [i \in 1..2 |-> IF i = 1 THEN MoveOf(p, d) ELSE MoveOf(p2, d2)]
              /\ Debited \in {Ata(asked.input), request.input_account}
      BY <2>2
    <3>2. Len(Moves) = 2 /\ Moves[1] = MoveOf(p, d) /\ Moves[2] = MoveOf(p2, d2)
      BY <3>1
    <3>3. /\ MoveOf(p, d).pool = p /\ MoveOf(p2, d2).pool = p2
          /\ MoveOf(p, d).input_vault = Vault(p, asked.input)
          /\ MoveOf(p, d).credited = Ata(OutputOf(p, d))
          /\ MoveOf(p, d).output_vault = Vault(p, OutputOf(p, d))
          /\ MoveOf(p2, d2).input_vault = Vault(p2, OutputOf(p, d))
          /\ MoveOf(p2, d2).credited = Ata(asked.output)
          /\ MoveOf(p2, d2).output_vault = Vault(p2, asked.output)
      BY <3>1 DEF MoveOf
    <3>4. OutputOf(p, d) \in Mint
      BY Ends
    <3>5. \A i \in 1..(2 - 1) : i = 1
      OBVIOUS
    <3> QED
      BY <3>1, <3>2, <3>3, <3>4, <3>5
  <2> QED
    BY <1>1, <2>1, <2>2, AnsweredMoves, Zenon
<1> QED
  BY <1>1, ChainInv, PTL

\* Which way a pool is swapped can be told from its input vault.
LEMMA Direction ==
  ASSUME NEW p \in Pool, NEW d \in BOOLEAN
  PROVE  (MoveOf(p, d).input_vault = Vault(MoveOf(p, d).pool, MintA[MoveOf(p, d).pool])) = d
<1>1. MoveOf(p, d).pool = p /\ MoveOf(p, d).input_vault = Vault(p, InputOf(p, d))
  BY DEF MoveOf
<1>2. (Vault(p, InputOf(p, d)) = Vault(p, MintA[p])) <=> (InputOf(p, d) = MintA[p])
  BY DEF Vault
<1>3. (InputOf(p, d) = MintA[p]) <=> d
  BY Ends
<1> QED
  BY <1>1, <1>2, <1>3

\* An amount is its own remainder.
LEMMA InWidth ==
  ASSUME NEW n \in Amount
  PROVE  n % Word = n /\ n \in Nat
<1>1. Word \in Nat \ {0}
  BY QuoteAnswerAssumption
<1>2. n \in Nat /\ n < Word
  BY <1>1 DEF Amount
<1> QED
  BY <1>1, <1>2

\* Executing what was quoted through one pool gives what was quoted.
LEMMA OnePoolHonoured ==
  ASSUME NEW p \in Pool, NEW d \in BOOLEAN, NEW n \in Amount, Moves = <<MoveOf(p, d)>>,
         route = <<Leg(p, d, TRUE, n)>>, ix.amount = AmountIn(route)
  PROVE  /\ Received = AmountOut(route) /\ Paid <= n
         /\ Refused => AmountOut(route) = 0 \/ AmountOut(route) < ix.threshold
<1> DEFINE leg == Leg(p, d, TRUE, n)
           m == n - leg.remaining
           Turned(i) == Moves[i].input_vault = Vault(Moves[i].pool, MintA[Moves[i].pool])
           path == [i \in 1..Len(Moves) |-> <<Moves[i].pool, Turned(i)>>]
<1>1. leg.base_input = TRUE /\ leg.specified = n
  BY DEF Leg
<1>2. /\ m \in Amount /\ m <= n
      /\ Leg(p, d, TRUE, m).calculated = leg.calculated /\ Leg(p, d, TRUE, m).remaining = 0
  BY LegAgain
<1>3. Len(Moves) = 1 /\ Moves[1] = MoveOf(p, d)
  OBVIOUS
<1>4. Turned(1) = d /\ Moves[1].pool = p
  BY <1>3, Direction DEF MoveOf
<1>5. Len(path) = 1 /\ path[1][1] = p /\ path[1][2] = d
  BY <1>3, <1>4
<1>6. Executed = LegsOf(path, TRUE, ix.amount)
  BY DEF Executed
<1>7. Len(route) = 1 /\ route[1] = leg
  OBVIOUS
<1> HIDE DEF leg, m, path
<1>8. AmountIn(route) = m % Word
  BY <1>1, <1>7 DEF AmountIn, m
<1>9. AmountIn(route) = m /\ AmountOut(route) = leg.calculated
  BY <1>1, <1>2, <1>7, <1>8, InWidth DEF AmountOut
<1>10. Executed = <<Leg(p, d, TRUE, m)>>
  BY <1>5, <1>6, <1>9 DEF LegsOf
<1>11. Received = leg.calculated /\ Paid = m - 0
  BY <1>2, <1>9, <1>10 DEF Received, Paid
<1>12. ASSUME Refused, ~(Received < ix.threshold) PROVE AmountOut(route) = 0
  <2>0. PICK i \in 1..Len(Executed) : ~Priced(Executed[i])
    BY <1>12 DEF Refused
  <2>1. ~Priced(Leg(p, d, TRUE, m))
    <3>1. Len(Executed) = 1 /\ Executed[1] = Leg(p, d, TRUE, m)
      BY <1>10
    <3>2. i = 1
      BY <3>1
    <3> QED
      BY <2>0, <3>1, <3>2
  <2>2. Leg(p, d, TRUE, m).calculated = 0
    BY <1>2, <2>1, LegOfNothing
  <2> QED
    BY <1>2, <1>9, <2>2
<1> QED
  BY <1>2, <1>9, <1>11, <1>12, InWidth

\* So does executing a quote through two pools: the second is fed the same amount again.
LEMMA TwoPoolsHonoured ==
  ASSUME NEW p \in Pool, NEW d \in BOOLEAN, NEW p2 \in Pool, NEW d2 \in BOOLEAN,
         NEW n \in Amount, NEW c \in Amount, c = Leg(p, d, TRUE, n).calculated,
         Moves = [i \in 1..2 |-> IF i = 1 THEN MoveOf(p, d) ELSE MoveOf(p2, d2)],
         route = <<Leg(p, d, TRUE, n), Leg(p2, d2, TRUE, c)>>, ix.amount = AmountIn(route)
  PROVE  /\ Received = AmountOut(route) /\ Paid <= n
         /\ Refused => AmountOut(route) = 0 \/ AmountOut(route) < ix.threshold
<1> DEFINE leg == Leg(p, d, TRUE, n)
           last == Leg(p2, d2, TRUE, c)
           m == n - leg.remaining
           Turned(i) == Moves[i].input_vault = Vault(Moves[i].pool, MintA[Moves[i].pool])
           path == [i \in 1..Len(Moves) |-> <<Moves[i].pool, Turned(i)>>]
<1>1. leg.base_input = TRUE /\ leg.specified = n /\ last.base_input = TRUE
  BY DEF Leg
<1>2. /\ m \in Amount /\ m <= n
      /\ Leg(p, d, TRUE, m).calculated = c /\ Leg(p, d, TRUE, m).remaining = 0
  BY LegAgain, ZenonT(60)
<1>3. Len(Moves) = 2 /\ Moves[1] = MoveOf(p, d) /\ Moves[2] = MoveOf(p2, d2)
  OBVIOUS
<1>4. Turned(1) = d /\ Moves[1].pool = p /\ Turned(2) = d2 /\ Moves[2].pool = p2
  BY <1>3, Direction DEF MoveOf
<1>5. /\ Len(path) = 2 /\ path[1][1] = p /\ path[1][2] = d
      /\ path[2][1] = p2 /\ path[2][2] = d2
  BY <1>3, <1>4
<1>6. Executed = LegsOf(path, TRUE, ix.amount)
  BY DEF Executed
<1>7. Len(route) = 2 /\ route[1] = leg /\ route[2] = last
  OBVIOUS
<1> HIDE DEF leg, last, m, path
<1>8. AmountIn(route) = m % Word
  BY <1>1, <1>7 DEF AmountIn, m
<1>9. AmountIn(route) = m /\ AmountOut(route) = last.calculated
  BY <1>1, <1>2, <1>7, <1>8, InWidth DEF AmountOut
<1>10. Executed = <<Leg(p, d, TRUE, m), Leg(p2, d2, TRUE, Leg(p, d, TRUE, m).calculated)>>
  BY <1>5, <1>6, <1>9 DEF LegsOf
<1>11. Executed = <<Leg(p, d, TRUE, m), last>>
  BY <1>2, <1>10 DEF last
<1>12. Received = last.calculated /\ Paid = m - 0
  BY <1>2, <1>9, <1>11 DEF Received, Paid
<1>13. ASSUME Refused, ~(Received < ix.threshold) PROVE AmountOut(route) = 0
  <2>0. PICK i \in 1..Len(Executed) : ~Priced(Executed[i])
    BY <1>13 DEF Refused
  <2>1. ~Priced(Leg(p, d, TRUE, m)) \/ ~Priced(last)
    <3>1. Len(Executed) = 2 /\ Executed[1] = Leg(p, d, TRUE, m) /\ Executed[2] = last
      BY <1>11
    <3>2. i = 1 \/ i = 2
      BY <3>1
    <3> QED
      BY <2>0, <3>1, <3>2
  <2>2. CASE ~Priced(Leg(p, d, TRUE, m))
    <3>1. c = 0
      BY <1>2, <2>2, LegOfNothing
    <3>2. AfterFee(last.input_mint, last.specified, last.base_input) = 0
      <4>1. AfterFee(InputOf(p2, d2), 0, TRUE) = 0
        BY Ends, NothingAfterFee
      <4>2. last.input_mint = InputOf(p2, d2) /\ last.specified = c /\ last.base_input = TRUE
        BY DEF last, Leg
      <4> QED
        BY <3>1, <4>1, <4>2
    <3>3. ~Priced(last)
      BY <3>2 DEF Priced
    <3> QED
      BY <1>9, <3>3, LegOfNothing DEF last
  <2>3. CASE ~Priced(last)
    BY <1>9, <2>3, LegOfNothing DEF last
  <2> QED
    BY <2>1, <2>2, <2>3
<1> QED
  BY <1>2, <1>9, <1>12, <1>13, InWidth

\* For a specified input, executing the instruction of an unaltered answer gives what
\* was quoted and takes no more than what was offered, unless it is refused because the
\* quote was of nothing or below the minimum the answer names.
THEOREM QuotesAreHonoured == Spec => []QuoteIsHonoured
<1>1. ASSUME Chain PROVE QuoteIsHonoured
  <2> SUFFICES ASSUME Made, Unaltered, asked.base_input
               PROVE  /\ Received = Swap.output_amount /\ Paid <= asked.amount
                      /\ Refused => \/ Swap.output_amount = 0
                                    \/ Swap.output_amount < Swap.other_amount_threshold
    BY DEF QuoteIsHonoured
  <2>1. asked.base_input = TRUE /\ asked.amount \in Amount
    BY <1>1, SwapTransactionAssumption DEF Chain, Requested, Ask
  <2>2. /\ ix.amount = AmountIn(route) /\ Swap.output_amount = AmountOut(route)
        /\ ix.threshold = Swap.other_amount_threshold
    BY <1>1, InfosOfAnswer
  <2>3. CASE \E p \in Pool, d \in BOOLEAN :
              /\ route = <<Leg(p, d, asked.base_input, asked.amount)>>
              /\ InputOf(p, d) = asked.input /\ OutputOf(p, d) = asked.output
              /\ Moves = <<MoveOf(p, d)>> /\ Debited = Ata(asked.input)
    <3>1. PICK p \in Pool, d \in BOOLEAN :
              /\ route = <<Leg(p, d, asked.base_input, asked.amount)>>
              /\ InputOf(p, d) = asked.input /\ OutputOf(p, d) = asked.output
              /\ Moves = <<MoveOf(p, d)>> /\ Debited = Ata(asked.input)
      BY <2>3
    <3>2. route = <<Leg(p, d, TRUE, asked.amount)>>
      BY <2>1, <3>1
    <3>3. /\ Received = AmountOut(route) /\ Paid <= asked.amount
          /\ Refused => AmountOut(route) = 0 \/ AmountOut(route) < ix.threshold
      BY <2>1, <2>2, <3>1, <3>2, OnePoolHonoured
    <3> QED
      BY <2>2, <3>3
  <2>4. CASE \E p \in Pool, d \in BOOLEAN, p2 \in Pool, d2 \in BOOLEAN, n1 \in Amount, n2 \in Amount :
              /\ route = <<Leg(p, d, asked.base_input, n1), Leg(p2, d2, asked.base_input, n2)>>
              /\ InputOf(p, d) = asked.input /\ OutputOf(p2, d2) = asked.output
              /\ OutputOf(p, d) = InputOf(p2, d2)
              /\ asked.base_input = TRUE =>
                   n1 = asked.amount /\ n2 = Leg(p, d, TRUE, asked.amount).calculated
              /\ Moves = [i \in 1..2 |-> IF i = 1 THEN MoveOf(p, d) ELSE MoveOf(p2, d2)]
              /\ Debited \in {Ata(asked.input), request.input_account}
    <3>1. PICK p \in Pool, d \in BOOLEAN, p2 \in Pool, d2 \in BOOLEAN, n1 \in Amount, n2 \in Amount :
              /\ route = <<Leg(p, d, asked.base_input, n1), Leg(p2, d2, asked.base_input, n2)>>
              /\ InputOf(p, d) = asked.input /\ OutputOf(p2, d2) = asked.output
              /\ OutputOf(p, d) = InputOf(p2, d2)
              /\ asked.base_input = TRUE =>
                   n1 = asked.amount /\ n2 = Leg(p, d, TRUE, asked.amount).calculated
              /\ Moves = [i \in 1..2 |-> IF i = 1 THEN MoveOf(p, d) ELSE MoveOf(p2, d2)]
              /\ Debited \in {Ata(asked.input), request.input_account}
      BY <2>4
    <3>2. /\ route = <<Leg(p, d, TRUE, n1), Leg(p2, d2, TRUE, n2)>>
          /\ n1 = asked.amount /\ n2 = Leg(p, d, TRUE, n1).calculated
      BY <2>1, <3>1, Zenon
    <3>3. /\ Moves = [i \in 1..2 |-> IF i = 1 THEN MoveOf(p, d) ELSE MoveOf(p2, d2)]
          /\ route = <<Leg(p, d, TRUE, n1), Leg(p2, d2, TRUE, n2)>>
          /\ n2 = Leg(p, d, TRUE, n1).calculated /\ ix.amount = AmountIn(route)
      BY <2>2, <3>1, <3>2
    <3>4. /\ Received = AmountOut(route) /\ Paid <= n1
          /\ Refused => AmountOut(route) = 0 \/ AmountOut(route) < ix.threshold
      BY <3>3, TwoPoolsHonoured, ZenonT(60)
    <3> QED
      BY <2>2, <3>2, <3>4
  <2> QED
    BY <1>1, <2>3, <2>4, AnsweredMoves, Zenon
<1> QED
  BY <1>1, ChainInv, PTL

-----------------------------------------------------------------------------
(* Types                                                                   *)

\* The part of the types the steps have to keep.
Typed ==
  /\ pc \in {"quoted", "sent", "pools", "simulate", "blockhash", "built", "submitted", "check"}
            \cup Terminal
  /\ sim \in [cu : Nat, basis : Nat] /\ limit \in 0..(CuWord - 1)

\* It holds throughout.
LEMMA TypedInv == Spec => []Typed
<1>1. CuWord \in Nat \ {0} /\ Scale \in Nat \ {0} /\ MinCu \in Nat
  BY SwapTransactionAssumption
<1>2. Init => Typed
  BY <1>1 DEF Init, Typed
<1>3. ASSUME Typed, [Next]_vars PROVE Typed'
  <2>1. CASE Simulate
    <3>1. PICK sim_cu \in Units, basis \in Bases :
            /\ sim' = [cu |-> sim_cu, basis |-> basis]
            /\ \E scaled \in Scaled(sim_cu, basis) : limit' = UnitLimit(scaled, sim_cu)
      BY <2>1 DEF Simulate
    <3>2. PICK scaled \in Scaled(sim_cu, basis) : limit' = UnitLimit(scaled, sim_cu)
      BY <3>1
    <3>3. sim_cu \in Nat /\ basis \in Nat
      BY SwapTransactionAssumption
    <3>4. (sim_cu * (Scale + basis)) \div Scale \in Int
      BY <1>1, <3>3, Growth
    <3>5. scaled \in Int
      BY <3>4 DEF Scaled
    <3>6. (IF scaled - sim_cu < MinCu THEN sim_cu + MinCu ELSE scaled) \in Int
      BY <1>1, <3>3, <3>5
    <3>7. \A k \in Int : k % CuWord \in 0..(CuWord - 1)
      BY <1>1
    <3>8. limit' \in 0..(CuWord - 1)
      BY <3>2, <3>6, <3>7 DEF UnitLimit
    <3>9. pc' = "blockhash" /\ sim' \in [cu : Nat, basis : Nat]
      BY <2>1, <3>1, <3>3 DEF Simulate
    <3> QED
      BY <3>8, <3>9 DEF Typed
  <2>2. Next => Simulate \/ UNCHANGED <<sim, limit>>
    BY DEF Next, Send, Accept, CallFails, ReadPool, RefuseSwapType, BuildSwapV2, BuildRoute,
           Compile, Submit, AcceptLists, CompareNext, Confirm, Returned, Proceed, vars
  <2>3. Next => \/ pc' = pc
                \/ pc' \in {"sent", "pools", "simulate", "blockhash", "built", "submitted", "check",
                            "failed", "invalid_argument", "permission_denied", "ok"}
    BY DEF Next, Send, Accept, CallFails, ReadPool, RefuseSwapType, BuildSwapV2, BuildRoute,
           Simulate, Compile, Submit, AcceptLists, CompareNext, Confirm, Returned, Proceed, vars
  <2>4. CASE UNCHANGED <<sim, limit>>
    BY <1>3, <2>3, <2>4 DEF Typed, Terminal, vars
  <2> QED
    BY <1>3, <2>1, <2>2, <2>4 DEF vars
<1> QED
  BY <1>2, <1>3, PTL DEF Spec

\* Every variable keeps its type; the account counts are bytes.
THEOREM TypesAreKept == Spec => []TypeOK
<1>1. ASSUME Chain, Checked, Typed PROVE TypeOK
  <2>1. Len(infos) \in 0..2 /\ Len(request.swap_response) \in {0, 1}
    <3>1. Len(infos) \in Nat
      <4>1. infos \in Seq({InfoOf(step) : step \in PlanStep})
        BY <1>1 DEF Chain, InfosOfPlan
      <4> QED
        BY <4>1
    <3>2. Len(infos) = 0 \/ (Len(Plan) \in {1, 2} /\ Len(infos) <= Len(Plan))
      <4>1. infos = <<>> => Len(infos) = 0
        OBVIOUS
      <4> QED
        BY <1>1, <4>1 DEF Chain, InfosOfPlan
    <3>3. Len(infos) \in 0..2
      <4>1. CASE Len(infos) = 0
        BY <4>1
      <4>2. CASE Len(Plan) = 1 /\ Len(infos) <= Len(Plan)
        BY <3>1, <4>2
      <4>3. CASE Len(Plan) = 2 /\ Len(infos) <= Len(Plan)
        <5>1. Len(infos) <= 2
          BY <4>3
        <5>2. \A k \in Nat : k <= 2 => k \in 0..2
          OBVIOUS
        <5> QED
          BY <3>1, <5>1, <5>2
      <4> QED
        BY <3>2, <4>1, <4>2, <4>3
    <3>4. request.swap_response = <<>> \/ \E w : request.swap_response = <<w>>
      BY <1>1 DEF Chain, Requested
    <3> QED
      BY <3>3, <3>4
  <2>2. ix.kind \in {"none", "swap_v2", "routing"}
    BY <1>1 DEF Chain, IxOfInfos, NoIx, SwapV2Ix, RoutingIx
  <2>3. ix.counts \in Seq(0..(CountWord - 1))
    <3>1. CASE ix.kind # "routing"
      <4>1. ix.counts = <<>>
        BY <1>1, <3>1 DEF Chain, IxOfInfos, NoIx, SwapV2Ix, RoutingIx
      <4> QED
        BY <4>1
    <3>2. CASE ix.kind = "routing"
      <4>1. ix = RoutingIx /\ Len(Plan) = 2 /\ Len(infos) = 2
        BY <1>1, <3>2, RoutingIs
      <4>2. ix.counts = <<AccountCount(infos[1]), AccountCount(infos[2])>>
        BY <4>1 DEF RoutingIx
      <4>3. ASSUME NEW i \in 1..2 PROVE AccountCount(infos[i]) \in 0..(CountWord - 1)
        <5>1. infos[i] \in {InfoOf(step) : step \in PlanStep}
          BY <1>1, <4>1 DEF Chain, InfosOfPlan
        <5>2. infos[i].tick_arrays \in Seq(TickArray)
          BY <5>1 DEF InfoOf, PlanStep
        <5>3. Len(infos[i].tick_arrays) \in Nat
          BY <5>2
        <5>4. CountWord \in Nat \ {0}
          BY SwapTransactionAssumption
        <5>5. \A k \in Nat : (7 + 1 + k) % CountWord \in 0..(CountWord - 1)
          BY <5>4
        <5> QED
          BY <5>3, <5>5 DEF AccountCount
      <4> QED
        BY <4>2, <4>3
    <3> QED
      BY <3>1, <3>2
  <2> QED
    BY <1>1, <2>1, <2>2, <2>3 DEF Chain, Requested, Checked, Typed, TypeOK
<1> QED
  BY <1>1, ChainInv, CheckedInv, TypedInv, PTL
=============================================================================
