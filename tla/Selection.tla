------------------------------ MODULE Selection ------------------------------
(***************************************************************************)
(* How SelectionService.score() fills the role slots: the cost matrix of   *)
(* solve_assignment(), a first solution, and a second choice for each slot *)
(* with the pairs of the first barred.  Either can raise, and then there   *)
(* is no recommendation.                                                   *)
(*                                                                         *)
(* Costs are natural numbers in place of -log(fit), which is at most 4.61; *)
(* scipy's solver is external: of the cheapest assignments it may return   *)
(* any.  It assigns places of the pool, which is a list: nothing checks    *)
(* that no soldier stands in it twice.                                     *)
(*                                                                         *)
(* A definition commented as a variant is no part of the model: it is a    *)
(* mistake the property it names must detect.                              *)
(***************************************************************************)
EXTENDS Naturals, Sequences, FiniteSets, Functions

CONSTANTS
  Candidates,    \* the soldiers a pool may hold
  Pools,         \* the pools a request may come with
  RoleSlots,     \* the slots a request may ask to fill
  Costs,         \* the cost of a pair
  Disqualified   \* in place of a cost: the pair fails a hard constraint

\* 1e6, on the scale of the costs.
Penalty == 100000000

\* No request asks for so many slots that their costs add up to the penalty.
ASSUME SelectionAssumption ==
  /\ Pools \subseteq Seq(Candidates) /\ IsFiniteSet(RoleSlots)
  /\ 461 * Cardinality(RoleSlots) < Penalty
  /\ Costs \subseteq 0 .. 461
  /\ Disqualified \notin Nat

VARIABLES
  stage,    \* how far score() has come
  pool,     \* the candidates it chooses from
  slots,    \* the slots it fills; at least one, by default_roles()
  scores,   \* score_matrix()
  primary,  \* the roster: the place in the pool that fills a slot
  second    \* the second-choice roster

selectionVars == <<stage, pool, slots, scores, primary, second>>

Nobody == <<>>

Places == DOMAIN pool

SelectionInit ==
  /\ stage = "received"
  /\ pool \in Pools
  /\ slots \in (SUBSET RoleSlots) \ {{}}
  /\ scores \in [Places \X slots -> Costs \cup {Disqualified}]
  /\ primary = Nobody
  /\ second = Nobody

\* Variant (RosterIsBest): the second choice may repeat the first.
PairCostUnbarred(barred, pair) ==
  IF scores[pair] = Disqualified THEN Penalty ELSE scores[pair]

PairCost(barred, pair) ==
  IF scores[pair] = Disqualified \/ pair \in barred THEN Penalty ELSE scores[pair]

Pairs(assignment) == {<<assignment[slot], slot>> : slot \in DOMAIN assignment}

TotalCost(barred, assignment) ==
  FoldFunction(+, 0, [slot \in slots |-> PairCost(barred, <<assignment[slot], slot>>)])

\* linear_sum_assignment()
Solutions(barred) ==
  {a \in Injection(slots, Places) :
     \A b \in Injection(slots, Places) : TotalCost(barred, a) <= TotalCost(barred, b)}

\* Pairs at the penalty are dropped; what is left must fill every slot.
Filled(barred, assignment) ==
  \A pair \in Pairs(assignment) : PairCost(barred, pair) < Penalty

CheckPool ==
  /\ stage = "received"
  /\ stage' = IF Len(pool) < Cardinality(slots) THEN "raised" ELSE "scored"
  /\ UNCHANGED <<pool, slots, scores, primary, second>>

SolvePrimary ==
  /\ stage = "scored"
  /\ \E a \in Solutions({}) :
       IF Filled({}, a) THEN stage' = "chosen" /\ primary' = a
                        ELSE stage' = "raised" /\ UNCHANGED primary
  /\ UNCHANGED <<pool, slots, scores, second>>

SolveSecond ==
  /\ stage = "chosen"
  /\ \E a \in Solutions(Pairs(primary)) :
       IF Filled(Pairs(primary), a) THEN stage' = "answered" /\ second' = a
                                    ELSE stage' = "raised" /\ UNCHANGED second
  /\ UNCHANGED <<pool, slots, scores, primary>>

SelectionNext == CheckPool \/ SolvePrimary \/ SolveSecond

SelectionSpec == SelectionInit /\ [][SelectionNext]_selectionVars

-----------------------------------------------------------------------------

\* The assignments that fill every slot with a qualified candidate of its own.
Rosters == {a \in Injection(slots, Places) :
              \A slot \in slots : scores[<<a[slot], slot>>] # Disqualified}

Avoids(a, b) == \A slot \in slots : a[slot] # b[slot]

\* The soldiers of a roster.
Seated(a) == [slot \in slots |-> pool[a[slot]]]

\* What the large penalty is for: the roster is a cheapest one of all that
\* respect the hard constraints, each slot has a qualified second choice from
\* another place of the pool than its first, no place fills two slots of one
\* roster, and score() raises only if one of the two rosters does not exist (the
\* second may be missing where every slot could be filled).  Only a pool that
\* names no soldier twice makes of another place another soldier: then nobody
\* stands twice in a roster, and nobody is his own second choice.
RosterIsBest ==
  /\ stage = "answered" =>
       /\ primary \in Rosters /\ second \in Rosters
       /\ Avoids(second, primary)
       /\ \A a \in Rosters : TotalCost({}, primary) <= TotalCost({}, a)
       /\ \A a \in Rosters :
            Avoids(a, primary) => TotalCost({}, second) <= TotalCost({}, a)
       /\ IsInjective(pool) =>
            /\ IsInjective(Seated(primary)) /\ IsInjective(Seated(second))
            /\ Avoids(Seated(second), Seated(primary))
  /\ stage = "raised" =>
       IF primary = Nobody THEN Rosters = {}
                           ELSE \A a \in Rosters : ~Avoids(a, primary)

-----------------------------------------------------------------------------
(* The inductive invariant (RequestsProofs).                               *)

RosterInv ==
  /\ pool \in Pools /\ slots \in (SUBSET RoleSlots) \ {{}}
  /\ scores \in [Places \X slots -> Costs \cup {Disqualified}]
  /\ stage \in {"received", "scored", "chosen", "answered", "raised"}
  /\ stage \in {"received", "scored"} => primary = Nobody
  /\ stage = "chosen" => primary \in Solutions({}) /\ Filled({}, primary)
  /\ RosterIsBest
=============================================================================
