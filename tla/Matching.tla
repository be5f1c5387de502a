------------------------------ MODULE Matching ------------------------------
(***************************************************************************)
(* lib/matching.ts and the two routes that read many groups: the ranking   *)
(* of the groups a student could join, and the campus heatmap.  A state    *)
(* holds the rows of some groups, and then what the routes make of them.   *)
(*                                                                         *)
(* Scores are fractions with the denominator Scale, which all their terms  *)
(* divide.  The code adds them up in floating point, so only ties can come *)
(* out differently; the sort keeps those in their order.                   *)
(***************************************************************************)
EXTENDS Lists

CONSTANTS
  Hostels,     \* where groups and students are
  Stores,      \* what groups order from
  Ages,        \* minutes since a group was created
  Carts,       \* totals in paise
  GroupFees,   \* deliveryFeePaise, once a group was claimed
  ScoreLists,  \* the members' reliability scores
  Threshold,   \* thresholdPaise
  Scale,       \* the 1 that a term is normalised to
  MaxGroups    \* bound: groups there are

FRESHNESS_WINDOW_MINUTES == 30

ASSUME MatchingAssumption ==
  /\ Ages \subseteq Nat /\ Carts \subseteq Nat /\ GroupFees \subseteq Nat
  /\ Threshold \in Nat \ {0} /\ MaxGroups \in Nat
  /\ ScoreLists \subseteq Seq(0 .. 100)

ASSUME ScaleAssumption ==
  /\ Scale \in Nat \ {0}
  /\ Scale % FRESHNESS_WINDOW_MINUTES = 0 /\ Scale % Threshold = 0
  /\ \A list \in ScoreLists \ {<<>>} : Scale % (100 * Len(list)) = 0

VARIABLES groups, request, ranked, heat

matchVars == <<groups, request, ranked, heat>>

ACTIVE_STATUSES == {"OPEN", "THRESHOLD_MET"}

(* The status says what the last recompute saw: a full cart can still be   *)
(* OPEN, and carts do not shrink.  A fee came with a claim, and a recompute *)
(* that started before it has made the group active again.                 *)
Rows == {row \in [hostel : Hostels, store : Stores, age : Ages, cart : Carts,
                  fee : {0} \cup GroupFees, scores : ScoreLists,
                  status : ACTIVE_STATUSES \cup {"EXPIRED"}] :
           /\ row.status = "THRESHOLD_MET" => row.cart >= Threshold
           /\ row.fee # 0 => row.status # "OPEN" /\ row.cart >= Threshold}

(* Faulty: other hostels score. *)
MismatchScores(row, req) == IF row.hostel = req.hostel THEN 0 ELSE Scale

locationProximity(row, req) == IF row.hostel = req.hostel THEN Scale ELSE 0
storeCompatibility(row, req) == IF row.store = req.store THEN Scale ELSE 0

(* Faulty: not floored, old groups get worse and worse. *)
AgeUnfloored(row) ==
  (FRESHNESS_WINDOW_MINUTES - row.age) * (Scale \div FRESHNESS_WINDOW_MINUTES)

deliveryTimeSimilarity(row) ==
  IF row.age >= FRESHNESS_WINDOW_MINUTES THEN 0
  ELSE (FRESHNESS_WINDOW_MINUTES - row.age)
         * (Scale \div FRESHNESS_WINDOW_MINUTES)

existingCartValue(row) ==
  IF row.cart >= Threshold THEN Scale ELSE row.cart * (Scale \div Threshold)

(* A group nobody has items in is trusted fully. *)
groupReliability(row) ==
  IF row.scores = <<>> THEN Scale
  ELSE SumOf(row.scores) * (Scale \div (100 * Len(row.scores)))

totalScore(row, req) ==
  locationProximity(row, req) + storeCompatibility(row, req)
  + deliveryTimeSimilarity(row) + existingCartValue(row) + groupReliability(row)

(* A stable sort, best first: i stands before j. *)
Before(rows, req, i, j) ==
  LET score(k) == totalScore(rows[k], req)
  IN score(i) > score(j) \/ (score(i) = score(j) /\ i < j)
Place(rows, among, req, i) ==
  1 + Cardinality({j \in among : Before(rows, req, j, i)})

(* The candidates are the rows with an index in among. *)
findBestMatch(rows, among, req) ==
  [k \in 1 .. Cardinality(among) |->
     rows[CHOOSE i \in among : Place(rows, among, req, i) = k]]

(* Faulty: also shows groups that take no items any more. *)
AnyStatus(rows, req) ==
  {i \in DOMAIN rows : rows[i].hostel = req.hostel /\ rows[i].store = req.store}

(* The candidates GET /groups/matches selects. *)
Candidates(rows, req) ==
  {i \in DOMAIN rows : /\ rows[i].hostel = req.hostel
                       /\ rows[i].store = req.store
                       /\ rows[i].status \in ACTIVE_STATUSES}

ActiveOf(rows, h) ==
  {i \in DOMAIN rows : rows[i].hostel = h /\ rows[i].status \in ACTIVE_STATUSES}

(* groupTotalPaise with the fee the group has, if it has one. *)
Pending(row) == row.cart + row.fee

(* GET /groups/heatmap *)
heatmap(rows) ==
  [h \in Hostels |->
     [pendingPaise |-> SumOf([i \in DOMAIN rows |->
                                IF i \in ActiveOf(rows, h) THEN Pending(rows[i]) ELSE 0]),
      ready |-> \E i \in ActiveOf(rows, h) : rows[i].status = "THRESHOLD_MET",
      activeGroups |-> Cardinality(ActiveOf(rows, h))]]

NoAnswer == <<>>

MatchInit == /\ groups \in BoundedSeq(Rows, MaxGroups)
             /\ request \in [hostel : Hostels, store : Stores]
             /\ ranked = NoAnswer /\ heat = NoAnswer

Answer == /\ heat = NoAnswer
          /\ ranked' = [all |-> findBestMatch(groups, DOMAIN groups, request),
                        own |-> findBestMatch(groups,
                                              Candidates(groups, request),
                                              request)]
          /\ heat' = heatmap(groups)
          /\ UNCHANGED <<groups, request>>

MatchSpec == MatchInit /\ [][Answer]_matchVars

-----------------------------------------------------------------------------
Answered == heat # NoAnswer

(* What a student may expect of any ranking, whatever the terms weigh: a   *)
(* group that is nowhere worse and somewhere better than another (nearer,  *)
(* the right store, fresher, fuller, more reliable) stands before it.      *)
Better(row, other) ==
  LET nearer(r) == r.hostel = request.hostel
      fitting(r) == r.store = request.store
  IN /\ nearer(other) => nearer(row)
     /\ fitting(other) => fitting(row)
     /\ row.age <= other.age /\ row.cart >= other.cart
     /\ groupReliability(row) >= groupReliability(other)
     /\ \/ nearer(row) /\ ~nearer(other)
        \/ fitting(row) /\ ~fitting(other)
        \/ row.age < other.age /\ row.age < FRESHNESS_WINDOW_MINUTES
        \/ row.cart > other.cart /\ other.cart < Threshold
        \/ groupReliability(row) > groupReliability(other)
BetterStandsFirst ==
  Answered => \A i, j \in DOMAIN ranked.all :
    Better(ranked.all[i], ranked.all[j]) => i < j

(* matching.ts: each of the five terms is normalised to [0, 1], so scores  *)
(* are on a scale from 0 to 5; no candidate is thrown away or shown twice. *)
ScoresOnScale ==
  Answered =>
    /\ \A i \in DOMAIN groups :
         totalScore(groups[i], request) \in 0 .. 5 * Scale
    /\ \A row \in Rows :
         Cardinality({i \in DOMAIN groups : groups[i] = row})
           = Cardinality({k \in DOMAIN ranked.all : ranked.all[k] = row})

(* The heatmap and the match list tell a student of a hostel the same, for *)
(* a campus with one store: the map counts the groups of the list, and what *)
(* it shows as pending is the carts of the list and, for groups that were   *)
(* claimed and became active again, their fees, which the list leaves out;  *)
(* where it says ready, a group of the list has its minimum.                *)
MapMatchesList ==
  Answered /\ (\A i \in DOMAIN groups : groups[i].store = request.store) =>
    LET entry == heat[request.hostel]
        own == ranked.own
    IN /\ entry.activeGroups = Len(own)
       /\ entry.pendingPaise = SumOf([i \in DOMAIN own |-> own[i].cart])
                                + SumOf([i \in DOMAIN own |-> own[i].fee])
       /\ entry.ready => \E i \in DOMAIN own : own[i].cart >= Threshold
=============================================================================
