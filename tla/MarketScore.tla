---------------------------- MODULE MarketScore ----------------------------
(***************************************************************************)
(* How a listing is scored (package scoring).  Prices count thousands of   *)
(* shekels, distances thousands of kilometres.  The floating-point numbers *)
(* of the code are thousandths here, and the three functions it takes from *)
(* the mathematics library are tables given as constants: every property   *)
(* rests only on their being monotone with the end points below.           *)
(***************************************************************************)
EXTENDS Integers, FiniteSets, SequencesExt

CONSTANTS MinCohortSize,    \* 10
          MinPriceFloor,    \* 5
          CurrentYear,
          Sqrt,             \* square root, thousandths of 0..1
          Pow07,            \* x^0.7, thousandths of 0..1.5
          Logistic          \* 1 / (1 + e^x), thousandths: 0 from 8 on

(* 1.0; what the mileage's excess is cut off at; where the logistic curve   *)
(* is needed.                                                              *)
One == 1000
MaxExcess == 1500
Slope == -3000..8000

ASSUME ScoreConstants ==
    /\ MinCohortSize \in Nat \ {0} /\ MinPriceFloor \in Nat /\ CurrentYear \in Int
    /\ Sqrt \in [0..One -> Nat] /\ Sqrt[0] = 0 /\ Sqrt[One] = One
    /\ Pow07 \in [0..MaxExcess -> Nat] /\ Pow07[0] = 0 /\ Pow07[One] = One
    /\ \A x, y \in 0..One : x <= y => Pow07[x] <= Pow07[y]
    /\ Logistic \in [Slope -> 0..One]

Clamp(v, lo, hi) == IF v < lo THEN lo ELSE IF v > hi THEN hi ELSE v
Milli(a, b) == (a * 1000) \div b
-----------------------------------------------------------------------------
(* Market medians. *)
NoMarket == [median |-> 0, medianKm |-> 0, size |-> 0, ok |-> FALSE]

IsCohort(c) ==
    /\ {"median", "medianKm", "size", "ok"} \subseteq DOMAIN c
    /\ {c.median, c.medianKm} \subseteq Int /\ c.size \in Nat

(* Rows of the view market_medians: a cohort per model year. *)
NewMarketCacheFromMedians(rows) ==
    [y \in DOMAIN rows |-> [rows[y] EXCEPT !.ok = rows[y].size >= MinCohortSize]]

(* The year and its neighbours, weighted by their sizes. *)
LookupPrecomputed(cache, year) ==
    LET band == {y \in DOMAIN cache : y \in (year - 1)..(year + 1) /\ cache[y].ok}
        total == SumFunction([y \in band |-> cache[y].size])
        Weighted(w) == SumFunction([y \in band |-> w[y] * cache[y].size]) \div total
    IN  IF total < MinCohortSize THEN NoMarket
        ELSE [median |-> Weighted([y \in band |-> cache[y].median]),
              medianKm |-> Weighted([y \in band |-> cache[y].medianKm]),
              size |-> total, ok |-> TRUE]

MedianInt(vals) ==
    LET v == SortSeq(vals, <)
        n == Len(v)
    IN  IF n = 0 THEN 0
        ELSE IF n % 2 = 0 THEN (v[n \div 2] + v[n \div 2 + 1]) \div 2
        ELSE v[n \div 2 + 1]

(* The cohort of an instant search: the listings it found. *)
ComputeFromRaw(entries, year) ==
    LET band == SelectSeq(entries, LAMBDA e : /\ e.year \in (year - 1)..(year + 1)
                                              /\ e.price >= MinPriceFloor)
        kms == SelectSeq(band, LAMBDA e : e.km > 0)
    IN  IF Len(band) < MinCohortSize THEN [NoMarket EXCEPT !.size = Len(band)]
        ELSE [median |-> MedianInt([i \in DOMAIN band |-> band[i].price]),
              medianKm |-> IF Len(kms) < 3 THEN 0
                           ELSE MedianInt([i \in DOMAIN kms |-> kms[i].km]),
              size |-> Len(band), ok |-> TRUE]
-----------------------------------------------------------------------------
(* The deal score. *)
ScoreRaw(price, median) ==
    IF median <= 0 \/ price <= 0 THEN 0
    ELSE Clamp((1000 - Milli(price, median) + 5) \div 10, 0, 100)

ScoreWithKm(price, km, median, medianKm) ==
    LET base == ScoreRaw(price, median)
    IN  CASE medianKm <= 0 -> base
          [] medianKm > 0 /\ km <= 0 -> Clamp(base - 5, 0, 100)
          [] OTHER -> Clamp((1000 * base + 20 * (1000 - Milli(km, medianKm)) + 500)
                               \div 1000, 0, 100)

DetectSuspicious(l, median) ==
    {r \in {"price_below_market", "no_photo_low_price"} :
        /\ median > 0 /\ l.price > 0
        /\ r = "price_below_market" => 2 * l.price < median
        /\ r = "no_photo_low_price" => ~l.image /\ 100 * l.price < 70 * median}
-----------------------------------------------------------------------------
(* The fitness score: 5.0 plus what condition, value and engine add.       *)
CarAge(year) ==
    IF year > 0 /\ CurrentYear - year > 1 THEN CurrentYear - year ELSE 1

(* Per dimension: delta moves the total, score is what the user is shown.   *)
Dim(delta, score) == [delta |-> delta, score |-> Clamp(score, 0, One)]

ComputeKmDelta(km, age) ==
    LET ratio == Milli(km, 15 * age)
        excess == Clamp(ratio - 1000, 0, MaxExcess)
    IN  IF km <= 0 THEN Dim(0, 500)
        ELSE Dim(CASE ratio <= 850 -> (4200 * Sqrt[Milli(850 - ratio, 850)]) \div 1000
                   [] ratio > 850 /\ ratio <= 1000 -> -((300 * (ratio - 850)) \div 150)
                   [] OTHER -> -300 - (4700 * Pow07[excess]) \div 1000,
                 IF ratio <= 1000 THEN Logistic[4 * (ratio - 700)]
                 ELSE Logistic[Clamp(5 * (ratio - 1000), 0, 8000)])

(* Hands beyond (or, negative, short of) one per five years. *)
HandExcess(hand, age) == 1000 * hand - 1000 - 200 * age

ComputeHandDelta(hand, age, commercial) ==
    LET first == 500 + Clamp(100 * age, 0, 800)
        excess == HandExcess(hand, age)
    IN  CASE hand <= 0 -> Dim(0, 500)
          [] hand = 1 -> IF commercial THEN Dim((first * 4) \div 10, 700)
                         ELSE Dim(first, 1000)
          [] hand > 1 /\ excess <= 0 ->
                Dim(Clamp((-excess * 3) \div 10, 0, 300), 700 + (-excess * 15) \div 100)
          [] OTHER -> Dim(-((11 * excess) \div 10), 500 - excess \div 4)

(* The expected price (in shekels), adjusted for owners and for the origin. *)
Adjusted(expected, p, age) ==
    LET owners == CASE p.hand = 1 /\ age >= 3 -> 1050
                    [] p.hand > 0 /\ p.hand # 1 /\ HandExcess(p.hand, age) > 0 ->
                          Clamp(1000 - (7 * HandExcess(p.hand, age)) \div 100, 850, 1000)
                    [] OTHER -> 1000
        origin == CASE p.origin = "lease" -> 960 [] p.origin = "rental" -> 940
                    [] OTHER -> 1000
    IN  (((expected * owners) \div 1000) * origin) \div 1000

(* As Curve, rising instead of falling between lo and hi. *)
CurveRising(ratio, low, lo, hi, top, rest, bottom, steep) ==
    CASE ratio < low -> top
      [] ratio >= low /\ ratio < lo -> (top * (lo - ratio)) \div (lo - low)
      [] ratio >= lo /\ ratio <= hi -> (rest * (ratio - lo)) \div (hi - lo)
      [] OTHER -> Clamp(-rest - (steep * Pow07[Clamp(Milli(ratio - hi, 300), 0, One)])
                                    \div 1000, bottom, -rest)

(* What a price adds at a ratio to the expected one: all of top below low, *)
(* nothing at lo, -rest at hi and from there down to bottom.               *)
Curve(ratio, low, lo, hi, top, rest, bottom, steep) ==
    CASE ratio < low -> top
      [] ratio >= low /\ ratio < lo -> (top * (lo - ratio)) \div (lo - low)
      [] ratio >= lo /\ ratio <= hi -> -((rest * (ratio - lo)) \div (hi - lo))
      [] OTHER -> Clamp(-rest - (steep * Pow07[Clamp(Milli(ratio - hi, 300), 0, One)])
                                    \div 1000, bottom, -rest)

(* A bargain in poor condition is less of a bargain. *)
Gated(delta, condition) ==
    IF delta > 0 /\ condition < 550 THEN (delta * condition) \div 550 ELSE delta

BasePriceDiscount(age) ==
    CASE age <= 1 -> 970 [] age \in 2..3 -> 940 [] age \in 4..6 -> 900 [] OTHER -> 850

MarketDelta(p, age, condition) ==
    LET byKm == IF p.medianKm > 0 /\ p.km > 0
                THEN Clamp(1000 + (150 * (p.medianKm - p.km)) \div p.medianKm, 500, 1500)
                ELSE 1000
        expected == Adjusted(p.medianPrice * byKm, p, age)
    IN  Gated(Curve(Milli(1000 * p.price, expected), 800, 920, 1050, 2500, 300, -3500, 3200),
              condition)

BasePriceDelta(p, age, condition) ==
    LET byKm == IF p.km > 0
                THEN Clamp(1000 + (120 * (15 * age - p.km)) \div (15 * age), 700, 1300)
                ELSE 1000
        listed == p.basePrice * BasePriceDiscount(age)
        expected == Adjusted((listed * byKm) \div 1000, p, age)
    IN  Gated(Curve(Milli(1000 * p.price, expected), 750, 880, 1100, 1800, 200, -2800, 2600),
              condition)

BudgetDelta(p) ==
    LET headroom == 1000 - Milli(p.price, p.priceMax)
    IN  CASE headroom >= 300 -> 2000
          [] headroom >= 100 /\ headroom < 300 -> 10 * (headroom - 100)
          [] headroom >= 0 /\ headroom < 100 -> -5 * (100 - headroom)
          [] OTHER -> -1000

ComputeValueDelta(p, age, condition) ==
    IF p.price <= 0 \/ p.medianPrice + p.basePrice + p.priceMax <= 0 THEN Dim(0, 500)
    ELSE LET delta == CASE p.medianPrice > 0 -> MarketDelta(p, age, condition)
                        [] p.medianPrice <= 0 /\ p.basePrice > 0 ->
                              BasePriceDelta(p, age, condition)
                        [] OTHER -> BudgetDelta(p)
         IN  Dim(Clamp(delta, -3500, 2500), 500 + delta \div 5)

(* engine counts half cubic centimetres, the minimum whole ones. *)
ComputeEngineDelta(engine, minCC) ==
    LET bonus == Milli(engine - 2 * minCC, minCC)
    IN  CASE minCC <= 0 -> Dim(0, 1000)
          [] minCC > 0 /\ engine <= 0 -> Dim(0, 500)
          [] minCC > 0 /\ engine > 0 /\ engine < 2 * minCC -> Dim(0, 0)
          [] OTHER -> Dim(Clamp(bonus, 0, 1000) \div 10, 700 + (3 * bonus) \div 10)

EngineTooSmall(p) ==
    p.engineMinCC > 0 /\ p.engine > 0 /\ p.engine < 2 * p.engineMinCC

(* The total in tenths. *)
FitnessScoreDetailed(p) ==
    LET age == CarAge(p.year)
        km == ComputeKmDelta(p.km, age)
        hand == ComputeHandDelta(p.hand, age, p.commercial)
        condition == (7 * km.score + 3 * hand.score) \div 10
        value == ComputeValueDelta(p, age, condition)
        engine == ComputeEngineDelta(p.engine, p.engineMinCC)
        raw == 5000 + Clamp(km.delta + hand.delta, -5000, 4500) + value.delta + engine.delta
    IN  [total |-> IF EngineTooSmall(p) THEN 0
                   ELSE (Clamp(raw, 0, 10000) + 50) \div 100,
         condition |-> condition, value |-> value.score, engine |-> engine.score]
=============================================================================
