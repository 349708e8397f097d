--------------------------- MODULE MCListingFlow ---------------------------
(***************************************************************************)
(* Two listings: one that is ordinary in all but up to two respects, and   *)
(* one that is ordinary; and a search with up to two wishes.  The market's *)
(* cohorts are of sizes around the minimum, and the three functions of the *)
(* score are interpolated between a few of their points.                   *)
(***************************************************************************)
EXTENDS ListingFlow

CONSTANTS t1, t2

Ordinary ==
    [manufacturer |-> 1, model |-> 1, year |-> 8, price |-> 60, km |-> 60, hand |-> 2,
     engine |-> 3000, gearBox |-> "auto", commercial |-> "no", image |-> TRUE,
     link |-> TRUE, words |-> {"panorama"}, origin |-> "private"]

Anything ==
    [manufacturer |-> 0, model |-> 0, yearMin |-> 0, yearMax |-> 0, priceMin |-> 0,
     priceMax |-> 0, maxKm |-> 0, maxHand |-> 0, engineMinCC |-> 0, gearBox |-> NoText,
     seller |-> "any", priceOnly |-> FALSE, photoOnly |-> FALSE, keywords |-> {},
     excludeKeys |-> {}]

(* Respects in which a listing may differ, and what a search may ask for. *)
Oddities ==
    { [manufacturer |-> 2], [model |-> 2], [year |-> 7], [year |-> 9], [price |-> 0],
      [price |-> 40], [price |-> 70], [km |-> 0], [km |-> 20], [km |-> 90], [hand |-> 1],
      [hand |-> 3], [engine |-> 0], [engine |-> 2999], [engine |-> 3001],
      [gearBox |-> NoText], [gearBox |-> "manual"], [commercial |-> "nil"],
      [commercial |-> "yes"], [image |-> FALSE], [words |-> {}], [origin |-> "lease"] }
Wishes ==
    { [model |-> 1], [yearMin |-> 8], [yearMax |-> 8], [priceMin |-> 60],
      [priceMax |-> 60], [maxKm |-> 60], [maxHand |-> 2], [engineMinCC |-> 1500],
      [gearBox |-> "auto"], [seller |-> "private"], [seller |-> "dealer"],
      [priceOnly |-> TRUE], [photoOnly |-> TRUE], [keywords |-> {"panorama"}],
      [excludeKeys |-> {"panorama"}] }

MCSearches ==
    {Anything} \cup {w @@ [manufacturer |-> 1] @@ Anything : w \in Wishes}
    \cup {w @@ [maxKm |-> 60, manufacturer |-> 1] @@ Anything :
             w \in {[priceMax |-> 60], [seller |-> "dealer"], [photoOnly |-> TRUE]}}
MCFeeds ==
    { (t1 :> (o @@ Ordinary)) @@ (t2 :> Ordinary) : o \in Oddities } \cup
    { (t1 :> (o @@ u @@ Ordinary)) @@ (t2 :> Ordinary) :
         o \in {[km |-> 90], [price |-> 70], [commercial |-> "nil"]},
         u \in {[image |-> FALSE], [year |-> 9], [hand |-> 3]} }
MCReprices == { [price |-> 70, km |-> 90] @@ Ordinary }
MCBasePrice == 7 :> 0 @@ 8 :> 65 @@ 9 :> 75

MCOmits == {{}, {"price"}, {"km", "image"}}
Good == [scheme |-> "https", length |-> 10, host |-> <<"www", "yad2", "co", "il">>]
MCLinks == { Good, [Good EXCEPT !.host = <<"www", "notyad2", "co", "il">>] }
MCSpellings == { [shape |-> "word", length |-> 8], [shape |-> "word", length |-> 65] }
MCListingHosts == {<<"yad2", "co", "il">>}
MCImageHosts == {<<"yad2", "co", "il">>, <<"yit", "co", "il">>}

Cohort(m, k, n) == [median |-> m, medianKm |-> k, size |-> n, ok |-> FALSE]
MCCohorts ==
    { 7 :> Cohort(50, 0, 2) @@ 8 :> Cohort(60, 50, 3) @@ 9 :> Cohort(80, 40, 1) }

(* Linear between the points <<x, y>>, constant beyond the last. *)
Interpolated(points, x) ==
    LET k == CHOOSE i \in DOMAIN points :
                /\ points[i][1] <= x
                /\ i = Len(points) \/ x < points[i + 1][1]
        p == points[k]
        q == points[k + 1]
    IN  IF k = Len(points) THEN p[2]
        ELSE p[2] + ((x - p[1]) * (q[2] - p[2])) \div (q[1] - p[1])

MCSqrt == [x \in 0..1000 |->
    Interpolated(<<<<0, 0>>, <<10, 100>>, <<40, 200>>, <<90, 300>>, <<160, 400>>, <<250, 500>>,
                   <<360, 600>>, <<490, 700>>, <<640, 800>>, <<810, 900>>, <<1000, 1000>>>>, x)]
MCPow07 == [x \in 0..1500 |->
    Interpolated(<<<<0, 0>>, <<10, 40>>, <<50, 123>>, <<100, 200>>, <<250, 379>>, <<500, 616>>,
                   <<750, 818>>, <<1000, 1000>>, <<1250, 1169>>, <<1500, 1328>>>>, x)]
MCLogistic == [x \in -3000..8000 |->
    Interpolated(<<<<-4000, 982>>, <<-2000, 881>>, <<-1000, 731>>, <<0, 500>>, <<1000, 269>>,
                   <<1200, 231>>, <<2000, 119>>, <<4000, 18>>, <<8000, 0>>>>, x)]
=============================================================================
