--------------------------- MODULE Engine_proofs ----------------------------
(***************************************************************************)
(* Theorems about the book and the recorder of Engine, for every market    *)
(* and every hold_n and exit_ratio >= 1.  Money plays no part in them: the *)
(* arguments are about which assets are held, wanted and recorded.         *)
(***************************************************************************)
EXTENDS Engine, TLAPS

Held == AssetsOf(holdings)
Trading == phase \in {"sell", "buy", "sweep"}

(* The shape of the book and of the recorder's tables. *)
Shape ==
  /\ day \in Nat
  /\ phase \in {"closed", "delist", "decide", "sell", "buy", "sweep"}
  /\ phase # "closed" => day > 0
  /\ \A p \in holdings : p.a \in Asset /\ DOMAIN p = {"a", "value", "to_sell"}
  /\ open_recs \in [Asset -> Nat]
  /\ hold_streak \in [Asset -> Nat]
  /\ hold_last_seen \in [Asset -> Int]

(* Between two days the recorder has seen just the assets held; during a   *)
(* day it has not seen any yet, and a position is as old as its streak     *)
(* says, or new.                                                           *)
Recorded ==
  /\ phase = "closed" =>
       \A a \in Asset : /\ hold_last_seen[a] <= day
                        /\ hold_last_seen[a] = day <=> a \in Held
                        /\ a \in Held => hold_streak[a] = day - open_recs[a] + 1
  /\ phase # "closed" =>
       \A a \in Asset :
         /\ hold_last_seen[a] < day
         /\ a \in Held =>
              \/ open_recs[a] = day /\ hold_last_seen[a] # day - 1
              \/ hold_last_seen[a] = day - 1 /\ hold_streak[a] = day - open_recs[a]

(* What was held at the last close is still held in the morning, unless it *)
(* has been delisted.                                                      *)
Morning ==
  phase \in {"delist", "decide"} =>
    \A a \in Asset : hold_last_seen[a] = day - 1 => a \in Held \cup delisted

(* The ranking names each asset once, and no delisted one. *)
Ranked ==
  Trading =>
    /\ cands \in Seq(Asset)
    /\ \A j, k \in DOMAIN cands : cands[j] = cands[k] => j = k
    /\ \A k \in DOMAIN cands : cands[k] \notin delisted

(* What is still to be bought is not held, and was not held yesterday. *)
ToBuy ==
  phase \in {"sell", "buy"} =>
    \A k \in buy :
      /\ k \in DOMAIN cands /\ k <= HoldN
      /\ cands[k] \notin Held
      /\ hold_last_seen[cands[k]] # day - 1

(* Who is not marked for sale stays by right. *)
Marked == phase = "sell" => \A p \in holdings : p.to_sell \/ Stays(p, cands)

IInv ==
  /\ Shape /\ OnePosition /\ Recorded /\ Morning /\ Ranked /\ ToBuy /\ Marked
  /\ BookFollowsRanking

-----------------------------------------------------------------------------
(* Rewriting positions without touching their assets keeps the assets held *)
(* and keeps them apart (falls, marks for sale and top-ups do this).       *)
LEMMA Rewritten ==
  ASSUME NEW S, NEW F, NEW T,
         T = {F[p] : p \in S},
         \A p \in S : F[p].a = p.a,
         \A p, q \in S : p.a = q.a => p = q
  PROVE  /\ AssetsOf(T) = AssetsOf(S)
         /\ \A p, q \in T : p.a = q.a => p = q
  BY DEF AssetsOf

(* A ranking is a sequence without repetitions, free of delisted assets.   *)
LEMMA RankingShape ==
  ASSUME NEW r \in Rankings
  PROVE  /\ r \in Seq(Asset) /\ DOMAIN r = 1 .. Len(r) /\ Len(r) \in Nat
         /\ \A j, k \in DOMAIN r : r[j] = r[k] => j = k
         /\ \A k \in DOMAIN r : r[k] \in Asset /\ r[k] \notin delisted
<1>1. PICK n \in 0 .. Cardinality(Asset) : r \in [1 .. n -> Asset \ (susp \cup delisted)]
  BY DEF Rankings
<1>2. n \in Nat
  BY <1>1
<1>3. r \in Seq(Asset) /\ Len(r) = n
  BY <1>1, <1>2
<1>4. \A j, k \in DOMAIN r : r[j] = r[k] => j = k
  BY DEF Rankings
<1> QED
  BY <1>1, <1>2, <1>3, <1>4

(* The initial states satisfy the invariant. *)
LEMMA Initially == Init => IInv
<1> SUFFICES ASSUME Init PROVE IInv
  OBVIOUS
<1> USE DEF Init
<1>1. Shape
  BY DEF Shape, None
<1>2. OnePosition /\ Recorded
  BY DEF OnePosition, Recorded, Held, AssetsOf, None
<1>3. Morning /\ Ranked /\ ToBuy /\ Marked /\ BookFollowsRanking
  BY DEF Morning, Ranked, ToBuy, Marked, BookFollowsRanking, Trading
<1> QED
  BY <1>1, <1>2, <1>3 DEF IInv

(* A new day ages the records by one, and moves values only. *)
LEMMA OpenDayKeeps ==
  ASSUME IInv, NEW s, NEW l, NEW d, NEW falls, OpenDay(s, l, d, falls)
  PROVE  IInv'
<1> DEFINE F == [p \in holdings |->
                   IF p.a \in falls THEN [p EXCEPT !.value = Fallen(@)] ELSE p]
<1>1. /\ phase = "closed" /\ phase' = "delist" /\ day' = day + 1
      /\ delisted' = delisted \cup d
      /\ UNCHANGED <<open_recs, hold_streak, hold_last_seen>>
  BY DEF OpenDay, streaks
<1>2. holdings' = {F[p] : p \in holdings}
  BY DEF OpenDay
<1>3. /\ \A p \in holdings : F[p].a = p.a
      /\ \A p \in holdings : DOMAIN F[p] = {"a", "value", "to_sell"}
  BY DEF IInv, Shape
<1>4. /\ AssetsOf(holdings') = AssetsOf(holdings)
      /\ \A p, q \in holdings' : p.a = q.a => p = q
  <2> HIDE DEF F
  <2> QED BY <1>2, <1>3, Rewritten DEF IInv, OnePosition
<1>5. Held' = Held
  BY <1>4 DEF Held
<1>6. Shape'
  <2> HIDE DEF F
  <2>1. \A p \in holdings' : p.a \in Asset /\ DOMAIN p = {"a", "value", "to_sell"}
    BY <1>2, <1>3 DEF IInv, Shape
  <2> QED BY <1>1, <2>1 DEF IInv, Shape
<1>7. OnePosition'
  BY <1>1, <1>4 DEF IInv, OnePosition
<1>8. Recorded'
  BY <1>1, <1>5 DEF IInv, Recorded, Shape
<1>9. Morning'
  BY <1>1, <1>5 DEF IInv, Morning, Recorded, Shape
<1>10. Ranked' /\ ToBuy' /\ Marked' /\ BookFollowsRanking'
  BY <1>1 DEF Ranked, ToBuy, Marked, BookFollowsRanking, Trading
<1> QED
  BY <1>6, <1>7, <1>8, <1>9, <1>10 DEF IInv

(* A position that goes takes its record with it (delisting and sale). *)
LEMMA Removal ==
  ASSUME IInv, NEW p \in holdings, phase # "closed",
         holdings' = holdings \ {p},
         open_recs' = [open_recs EXCEPT ![p.a] = None],
         UNCHANGED <<day, phase, hold_streak, hold_last_seen>>
  PROVE  Shape' /\ OnePosition' /\ Recorded' /\ Held' = Held \ {p.a}
<1>1. p.a \in Asset
  BY DEF IInv, Shape
<1>2. Shape'
  BY <1>1 DEF IInv, Shape, None
<1>3. Held' = Held \ {p.a}
  BY DEF IInv, OnePosition, Held, AssetsOf
<1>4. OnePosition'
  BY <1>1, <1>3 DEF IInv, OnePosition, Held, Shape, None
<1>5. Recorded'
  BY <1>1, <1>3 DEF IInv, Recorded, Shape
<1> QED
  BY <1>2, <1>3, <1>4, <1>5

(* Forcing a delisted position out. *)
LEMMA DelistSellKeeps ==
  ASSUME IInv, NEW p \in holdings, DelistSell(p)
  PROVE  IInv'
<1>1. /\ phase = "delist" /\ p.a \in delisted
      /\ holdings' = holdings \ {p}
      /\ open_recs' = [open_recs EXCEPT ![p.a] = None]
      /\ UNCHANGED <<day, phase, hold_streak, hold_last_seen, delisted>>
  BY DEF DelistSell, streaks, market
<1>2. Shape' /\ OnePosition' /\ Recorded' /\ Held' = Held \ {p.a}
  BY <1>1, Removal
<1>3. Morning'
  BY <1>1, <1>2 DEF IInv, Morning
<1>4. Ranked' /\ ToBuy' /\ Marked' /\ BookFollowsRanking'
  BY <1>1 DEF Ranked, ToBuy, Marked, BookFollowsRanking, Trading
<1> QED
  BY <1>2, <1>3, <1>4 DEF IInv

(* Marking to market changes no position. *)
LEMMA MarkKeeps ==
  ASSUME IInv, Mark
  PROVE  IInv'
<1>1. /\ phase = "delist" /\ phase' = "decide"
      /\ UNCHANGED <<day, holdings, open_recs, hold_streak, hold_last_seen, delisted>>
  BY DEF Mark, streaks, market
<1>2. Held' = Held
  BY <1>1 DEF Held
<1>3. Shape' /\ OnePosition' /\ Recorded' /\ Morning'
  BY <1>1, <1>2 DEF IInv, Shape, OnePosition, Recorded, Morning
<1>4. Ranked' /\ ToBuy' /\ Marked' /\ BookFollowsRanking'
  BY <1>1 DEF Ranked, ToBuy, Marked, BookFollowsRanking, Trading
<1> QED
  BY <1>3, <1>4 DEF IInv

(* The decision marks for sale who does not stay, and wants only what is   *)
(* not held: a wanted rank is within hold_n, hence within the exit ranks,  *)
(* where a holding would stay.                                             *)
LEMMA DecideKeeps ==
  ASSUME IInv, NEW r \in Rankings, Decide(r)
  PROVE  IInv'
<1> DEFINE F == [p \in holdings |-> [p EXCEPT !.to_sell = ~Stays(p, r)]]
<1>1. /\ phase = "decide" /\ phase' = "sell" /\ cands' = r /\ buy' = Wanted(r, holdings)
      /\ UNCHANGED <<day, open_recs, hold_streak, hold_last_seen, delisted, lim>>
  BY DEF Decide, streaks, market
<1>2. holdings' = {F[p] : p \in holdings}
  BY DEF Decide
<1>3. \A p \in holdings : /\ F[p].a = p.a /\ F[p].to_sell = ~Stays(p, r)
                         /\ DOMAIN F[p] = {"a", "value", "to_sell"}
  BY DEF IInv, Shape
<1>4. /\ AssetsOf(holdings') = AssetsOf(holdings)
      /\ \A p, q \in holdings' : p.a = q.a => p = q
  <2> HIDE DEF F
  <2> QED BY <1>2, <1>3, Rewritten DEF IInv, OnePosition
<1>5. Held' = Held
  BY <1>4 DEF Held
<1>6. Shape'
  <2> HIDE DEF F
  <2>1. \A p \in holdings' : p.a \in Asset /\ DOMAIN p = {"a", "value", "to_sell"}
    BY <1>2, <1>3 DEF IInv, Shape
  <2> QED BY <1>1, <2>1 DEF IInv, Shape
<1>7. OnePosition'
  BY <1>1, <1>4 DEF IInv, OnePosition
<1>8. Recorded'
  BY <1>1, <1>5 DEF IInv, Recorded
<1>9. Ranked'
  BY <1>1, RankingShape DEF Ranked
<1>10. ToBuy'
  <2> SUFFICES ASSUME NEW k \in buy'
               PROVE  /\ k \in DOMAIN r /\ k <= HoldN /\ r[k] \notin Held
                      /\ hold_last_seen[r[k]] # day - 1
    BY <1>1, <1>5 DEF ToBuy
  <2>1. k \in Eligible(r, holdings)
    BY <1>1 DEF Wanted
  <2>2. /\ k \in 1 .. Least(HoldN, Len(r))
        /\ ~ \E p \in holdings : p.a = r[k] /\ Stays(p, r)
    BY <2>1 DEF Eligible
  <2>3. k \in DOMAIN r /\ k <= HoldN /\ k <= ExitN /\ k <= Len(r)
    BY <2>2, RankingShape, EngineAssumption DEF Least
  <2>4. r[k] \in Asset /\ r[k] \notin delisted
    BY <2>3, RankingShape
  <2>5. InPrefix(r[k], r, ExitN)
    BY <2>3, RankingShape, EngineAssumption DEF InPrefix, Least
  <2>6. r[k] \notin Held
    BY <2>2, <2>5 DEF Held, AssetsOf, Stays
  <2>7. hold_last_seen[r[k]] # day - 1
    BY <1>1, <2>4, <2>6 DEF IInv, Morning
  <2> QED
    BY <2>3, <2>6, <2>7
<1>11. Marked'
  <2> HIDE DEF F
  <2>1. \A p \in holdings' : p.to_sell \/ InPrefix(p.a, r, ExitN) \/ p.a \in lim
    <3> SUFFICES ASSUME NEW p \in holdings', ~p.to_sell
                 PROVE  InPrefix(p.a, r, ExitN) \/ p.a \in lim
      OBVIOUS
    <3>1. PICK q \in holdings : p = F[q]
      BY <1>2
    <3>2. p.a = q.a /\ Stays(q, r)
      BY <1>3, <3>1
    <3> QED
      BY <3>2 DEF Stays
  <2> QED
    BY <1>1, <2>1 DEF Marked, Stays, InPrefix
<1>12. Morning' /\ BookFollowsRanking'
  BY <1>1 DEF Morning, BookFollowsRanking
<1> QED
  BY <1>6, <1>7, <1>8, <1>9, <1>10, <1>11, <1>12 DEF IInv

(* A sale changes neither the ranking nor what is wanted. *)
LEMMA SellKeeps ==
  ASSUME IInv, NEW p \in holdings, Sell(p)
  PROVE  IInv'
<1>1. /\ phase = "sell"
      /\ holdings' = holdings \ {p}
      /\ open_recs' = [open_recs EXCEPT ![p.a] = None]
      /\ UNCHANGED <<day, phase, hold_streak, hold_last_seen, cands, buy, delisted, lim>>
  BY DEF Sell, streaks, market
<1>2. Shape' /\ OnePosition' /\ Recorded' /\ Held' = Held \ {p.a}
  BY <1>1, Removal
<1>3. Ranked'
  BY <1>1 DEF IInv, Ranked, Trading
<1>4. ToBuy'
  BY <1>1, <1>2 DEF IInv, ToBuy
<1>5. Marked'
  BY <1>1 DEF IInv, Marked, Stays, InPrefix
<1>6. Morning' /\ BookFollowsRanking'
  BY <1>1 DEF Morning, BookFollowsRanking
<1> QED
  BY <1>2, <1>3, <1>4, <1>5, <1>6 DEF IInv

(* When nothing more can be sold, whoever is left is ranked, at a limit or *)
(* suspended.                                                              *)
LEMMA SetTargetKeeps ==
  ASSUME IInv, SetTarget
  PROVE  IInv'
<1>1. /\ phase = "sell" /\ phase' = "buy"
      /\ \A p \in holdings : ~Sellable(p)
      /\ UNCHANGED <<day, holdings, open_recs, hold_streak, hold_last_seen, cands, buy,
                     delisted, lim, susp>>
  BY DEF SetTarget, streaks, market
<1>2. Held' = Held
  BY <1>1 DEF Held
<1>3. Shape' /\ OnePosition' /\ Recorded' /\ Ranked' /\ ToBuy'
  BY <1>1, <1>2 DEF IInv, Shape, OnePosition, Recorded, Ranked, ToBuy, Trading
<1>4. Morning' /\ Marked'
  BY <1>1 DEF Morning, Marked
<1>5. BookFollowsRanking'
  BY <1>1 DEF IInv, Marked, Sellable, Stays, BookFollowsRanking, InPrefix
<1> QED
  BY <1>3, <1>4, <1>5 DEF IInv

(* A purchase opens the position and its record together. *)
LEMMA BuyNextKeeps ==
  ASSUME IInv, NEW k \in buy, BuyNext(k)
  PROVE  IInv'
<1>1. /\ phase = "buy" /\ buy' = buy \ {k}
      /\ UNCHANGED <<day, phase, hold_streak, hold_last_seen, cands, delisted, lim, susp>>
  BY DEF BuyNext, streaks, market
<1>2. /\ k \in DOMAIN cands /\ k <= HoldN /\ cands[k] \notin Held
      /\ hold_last_seen[cands[k]] # day - 1
      /\ cands \in Seq(Asset) /\ cands[k] \in Asset
      /\ \A j \in DOMAIN cands : cands[j] = cands[k] => j = k
  BY <1>1 DEF IInv, ToBuy, Ranked, Trading
<1>3. Morning' /\ Marked'
  BY <1>1 DEF Morning, Marked
<1>4. Ranked'
  BY <1>1 DEF IInv, Ranked, Trading
<1>5. CASE cands[k] \notin priced
  <2>1. UNCHANGED <<holdings, open_recs>>
    BY <1>5 DEF BuyNext
  <2>2. Held' = Held
    BY <2>1 DEF Held
  <2>3. Shape' /\ OnePosition' /\ Recorded' /\ ToBuy' /\ BookFollowsRanking'
    BY <1>1, <2>1, <2>2
       DEF IInv, Shape, OnePosition, Recorded, ToBuy, BookFollowsRanking, InPrefix
  <2> QED
    BY <1>3, <1>4, <2>3 DEF IInv
<1>6. CASE cands[k] \in priced
  <2> DEFINE new == [a |-> cands[k], value |-> Bought(Outlay), to_sell |-> FALSE]
  <2>1. /\ holdings' = holdings \cup {new}
        /\ open_recs' = [open_recs EXCEPT ![cands[k]] = day]
    BY <1>6 DEF BuyNext
  <2>2. new.a = cands[k] /\ DOMAIN new = {"a", "value", "to_sell"}
    OBVIOUS
  <2> HIDE DEF new
  <2>3. Held' = Held \cup {cands[k]}
    BY <2>1, <2>2 DEF Held, AssetsOf
  <2>4. Shape'
    BY <1>1, <1>2, <2>1, <2>2 DEF IInv, Shape
  <2>5. OnePosition'
    <3>1. \A p, q \in holdings' : p.a = q.a => p = q
      BY <1>2, <2>1, <2>2 DEF IInv, OnePosition, Held, AssetsOf
    <3>2. day # None
      BY <1>1 DEF IInv, Shape, None
    <3>3. \A a \in Asset : open_recs'[a] # None <=> a \in Held'
      BY <1>2, <2>1, <2>3, <3>2 DEF IInv, OnePosition, Shape, Held
    <3> QED BY <3>1, <3>3 DEF OnePosition, Held
  <2>6. Recorded'
    BY <1>1, <1>2, <2>1, <2>3 DEF IInv, Recorded, Shape
  <2>7. ToBuy'
    BY <1>1, <1>2, <2>3 DEF IInv, ToBuy
  <2>8. BookFollowsRanking'
    <3>1. InPrefix(cands[k], cands, ExitN)
      BY <1>2, EngineAssumption DEF InPrefix, Least
    <3> QED
      BY <1>1, <2>1, <2>2, <3>1 DEF IInv, BookFollowsRanking, InPrefix
  <2> QED
    BY <1>3, <1>4, <2>4, <2>5, <2>6, <2>7, <2>8 DEF IInv
<1> QED
  BY <1>5, <1>6

(* The sweep begins with the book as it is. *)
LEMMA StartSweepKeeps ==
  ASSUME IInv, StartSweep
  PROVE  IInv'
<1>1. /\ phase = "buy" /\ phase' = "sweep"
      /\ UNCHANGED <<day, holdings, open_recs, hold_streak, hold_last_seen, cands,
                     delisted, lim, susp>>
  BY DEF StartSweep, streaks, market
<1>2. Held' = Held
  BY <1>1 DEF Held
<1>3. Shape' /\ OnePosition' /\ Recorded' /\ Ranked' /\ BookFollowsRanking'
  BY <1>1, <1>2
     DEF IInv, Shape, OnePosition, Recorded, Ranked, Trading, BookFollowsRanking, InPrefix
<1>4. Morning' /\ Marked' /\ ToBuy'
  BY <1>1 DEF Morning, Marked, ToBuy
<1> QED
  BY <1>3, <1>4 DEF IInv

(* A top-up changes the value of a position and nothing else. *)
LEMMA TopUpKeeps ==
  ASSUME IInv, NEW d \in defs, TopUp(d)
  PROVE  IInv'
<1> DEFINE F == [p \in holdings |->
                   IF p.a = d.a THEN [p EXCEPT !.value = @ + Added(d)] ELSE p]
<1>1. /\ phase = "sweep"
      /\ UNCHANGED <<day, phase, open_recs, hold_streak, hold_last_seen, cands,
                     delisted, lim, susp>>
  BY DEF TopUp, streaks, market
<1>2. holdings' = {F[p] : p \in holdings}
  BY DEF TopUp
<1>3. /\ \A p \in holdings : F[p].a = p.a
      /\ \A p \in holdings : DOMAIN F[p] = {"a", "value", "to_sell"}
  BY DEF IInv, Shape
<1> HIDE DEF F
<1>4. /\ AssetsOf(holdings') = AssetsOf(holdings)
      /\ \A p, q \in holdings' : p.a = q.a => p = q
  BY <1>2, <1>3, Rewritten DEF IInv, OnePosition
<1>5. Held' = Held
  BY <1>4 DEF Held
<1>6. Shape'
  <2>1. \A p \in holdings' : p.a \in Asset /\ DOMAIN p = {"a", "value", "to_sell"}
    BY <1>2, <1>3 DEF IInv, Shape
  <2> QED BY <1>1, <2>1 DEF IInv, Shape
<1>7. OnePosition'
  BY <1>1, <1>4 DEF IInv, OnePosition
<1>8. Recorded' /\ Ranked'
  BY <1>1, <1>5 DEF IInv, Recorded, Ranked, Trading
<1>9. BookFollowsRanking'
  BY <1>1, <1>2, <1>3 DEF IInv, BookFollowsRanking, InPrefix
<1>10. Morning' /\ Marked' /\ ToBuy'
  BY <1>1 DEF Morning, Marked, ToBuy
<1> QED
  BY <1>6, <1>7, <1>8, <1>9, <1>10 DEF IInv

(* At the close the recorder catches up with the book. *)
LEMMA CloseDayKeeps ==
  ASSUME IInv, CloseDay
  PROVE  IInv'
<1>1. /\ phase = "sweep" /\ phase' = "closed"
      /\ hold_streak' = [a \in Asset |-> IF a \in Held THEN Streak(a) ELSE hold_streak[a]]
      /\ hold_last_seen' = [a \in Asset |-> IF a \in Held THEN day ELSE hold_last_seen[a]]
      /\ UNCHANGED <<day, holdings, open_recs>>
  BY DEF CloseDay, Held
<1>2. Held' = Held
  BY <1>1 DEF Held
<1>3. \A a \in Asset : Streak(a) \in Nat
  BY DEF IInv, Shape, Streak
<1>4. Shape'
  BY <1>1, <1>3 DEF IInv, Shape
<1>5. OnePosition'
  BY <1>1 DEF IInv, OnePosition
<1>6. Recorded'
  <2>1. \A a \in Held : a \in Asset
    BY DEF IInv, Shape, Held, AssetsOf
  <2>2. \A a \in Held : Streak(a) = day - open_recs[a] + 1
    BY <1>1, <2>1 DEF IInv, Shape, Recorded, Streak
  <2> QED
    BY <1>1, <1>2, <2>1, <2>2 DEF IInv, Shape, Recorded
<1>7. Morning' /\ Ranked' /\ ToBuy' /\ Marked' /\ BookFollowsRanking'
  BY <1>1 DEF Morning, Ranked, ToBuy, Marked, BookFollowsRanking, Trading
<1> QED
  BY <1>4, <1>5, <1>6, <1>7 DEF IInv

-----------------------------------------------------------------------------
(***************************************************************************)
(* The invariant is inductive: it holds at first, and every step of the    *)
(* kernel, the recorder and the market keeps it.                           *)
(***************************************************************************)
THEOREM Invariance == Spec => []IInv
<1>1. Init => IInv
  BY Initially
<1>2. IInv /\ [Next]_vars => IInv'
  <2> SUFFICES ASSUME IInv, [Next]_vars PROVE IInv'
    OBVIOUS
  <2>1. CASE \E s, l, d, falls \in SUBSET Asset : OpenDay(s, l, d, falls)
    BY <2>1, OpenDayKeeps
  <2>2. CASE \E p \in holdings : DelistSell(p) \/ Sell(p)
    BY <2>2, DelistSellKeeps, SellKeeps
  <2>3. CASE Mark
    BY <2>3, MarkKeeps
  <2>4. CASE \E r \in Rankings : Decide(r)
    BY <2>4, DecideKeeps
  <2>5. CASE SetTarget
    BY <2>5, SetTargetKeeps
  <2>6. CASE StartSweep
    BY <2>6, StartSweepKeeps
  <2>7. CASE \E k \in buy : BuyNext(k)
    BY <2>7, BuyNextKeeps
  <2>8. CASE \E d \in defs : TopUp(d)
    BY <2>8, TopUpKeeps
  <2>9. CASE CloseDay
    BY <2>9, CloseDayKeeps
  <2>10. CASE UNCHANGED vars
    <3>1. UNCHANGED <<day, phase, holdings, cands, buy, susp, lim, delisted, open_recs,
                      hold_streak, hold_last_seen>>
      BY <2>10 DEF vars
    <3>2. Held' = Held
      BY <3>1 DEF Held
    <3> QED
      BY <3>1, <3>2 DEF IInv, Shape, OnePosition, Recorded, Morning, Ranked, ToBuy, Marked,
                        BookFollowsRanking, Trading, Stays, InPrefix
  <2> QED
    BY <2>1, <2>2, <2>3, <2>4, <2>5, <2>6, <2>7, <2>8, <2>9, <2>10 DEF Next
<1> QED
  BY <1>1, <1>2, PTL DEF Spec

(***************************************************************************)
(* One position per asset, and a record of exactly what is held.           *)
(***************************************************************************)
THEOREM BookMatchesRecords == Spec => []OnePosition
<1>1. IInv => OnePosition
  BY DEF IInv
<1> QED
  BY <1>1, Invariance, PTL

(***************************************************************************)
(* After the sales nothing tradable is left outside the exit ranks.        *)
(***************************************************************************)
THEOREM RankingRules == Spec => []BookFollowsRanking
<1>1. IInv => BookFollowsRanking
  BY DEF IInv
<1> QED
  BY <1>1, Invariance, PTL

(***************************************************************************)
(* At every close the days held are counted from the day of the purchase.  *)
(***************************************************************************)
THEOREM DaysHeld == Spec => []StreakIsAge
<1>1. IInv => StreakIsAge
  <2> SUFFICES ASSUME IInv, phase = "closed", NEW a \in AssetsOf(holdings)
               PROVE  hold_streak[a] = day - open_recs[a] + 1
    BY DEF StreakIsAge
  <2>1. a \in Held /\ a \in Asset
    BY DEF IInv, Shape, Held, AssetsOf
  <2> QED
    BY <2>1 DEF IInv, Recorded
<1> QED
  BY <1>1, Invariance, PTL

=============================================================================
