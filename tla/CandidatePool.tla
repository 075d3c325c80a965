---------------------------- MODULE CandidatePool ----------------------------
(***************************************************************************)
(* Where the candidates and slots of a score come from                     *)
(* (SelectionService._resolve_inputs(), candidate_pool.py), and what its   *)
(* trace says of them (shared_data.py).  The pool, its soldiers, the       *)
(* slots, the training and the outcomes are five SELECTs of one            *)
(* transaction under READ COMMITTED, so each sees what was last committed. *)
(* The tables belong to another application, which rewrites rows whenever  *)
(* it likes.                                                               *)
(*                                                                         *)
(* A table is a function of its keys; the hash of a row is its version.  A *)
(* soldier has one bounded field: the code treats each alike.  A           *)
(* projection gives it a value in some of its views, in their order.  The  *)
(* profile does not give a soldier another id than that of its row.  No    *)
(* pool is ever added to the resolver in memory.                           *)
(*                                                                         *)
(* A definition commented as a variant is no part of the model: it is a    *)
(* mistake the property it names must detect.                              *)
(***************************************************************************)
EXTENDS Integers, SequencesExt

CONSTANTS
  Soldiers, Slots, Missions,
  Here,             \* the mission of the request
  DefaultSlots,     \* default_roles()
  Lowest, Highest,  \* the bounds of the field
  Profiles,         \* values of the field in profiles
  Projections,      \* what training and outcomes say of it
  IdLists,          \* the candidate_ids of a pool
  Stores,           \* the rows a request may find
  Asks,             \* the requests considered
  CandidateCounts,  \* the numbers of candidates they may want generated
  MaxLoads,         \* rows the other application writes meanwhile at most
  Unusable,         \* a value that is not a number
  Invalid,          \* JSON of the wrong kind
  NoRow, NotGiven

Keys == {<<"pool">>}
        \cup {<<table, s>> : table \in {"soldier", "training"}, s \in Soldiers}
        \cup {<<"slot", r>> : r \in Slots}
        \cup {<<"outcome", m, s>> : m \in Missions, s \in Soldiers}

\* values: in the order of the views.  tells: it names its mission.
Projection == [values : Seq(Int \cup {Unusable}), tells : BOOLEAN]

Contents(key) ==
  CASE key[1] = "pool"    -> IdLists
    [] key[1] = "soldier" -> Profiles \cup {Invalid}
    [] key[1] = "slot"    -> {"role"}
    [] OTHER              -> Projections \cup {Invalid}

\* What a row may hold; the rows to come have other versions.
Rows(key, next) ==
  [version : 0 .. next - 1,
   content : CASE key[1] = "pool"    -> Seq(Soldiers)
               [] key[1] = "soldier" -> (Lowest .. Highest) \cup {Invalid}
               [] key[1] = "slot"    -> {"role"}
               [] OTHER              -> Projection \cup {Invalid}]

FirstLoad == 10

Candidate == [id : Soldiers, value : Lowest .. Highest]

ASSUME CandidatePoolAssumption ==
  /\ IsFiniteSet(Missions) /\ Here \in Missions
  /\ DefaultSlots \in (SUBSET Slots) \ {{}}
  /\ Lowest \in Int /\ Highest \in Int
  /\ Profiles \subseteq Lowest .. Highest
  /\ Projections \subseteq Projection
  /\ IdLists \subseteq Seq(Soldiers)
  /\ \A s \in Stores :
       /\ DOMAIN s = Keys
       /\ \A key \in Keys : s[key] = NoRow \/ s[key] \in Rows(key, FirstLoad)
  /\ \A a \in Asks : /\ a.candidates \in Seq(Candidate) \cup {NotGiven}
                     /\ a.roles \in (SUBSET Slots) \cup {NotGiven}
                     /\ a.pooled \in BOOLEAN /\ a.persistent \in BOOLEAN
  /\ CandidateCounts \subseteq Nat \ {0} /\ MaxLoads \in Nat

VARIABLES
  reading,  \* how far the resolution is
  asked,    \* the request, and whether pools are kept in a database
  rows,     \* what the tables hold
  got,      \* the rows read
  answer,   \* the candidates, the slots and the trace of the score
  loads,    \* rows written meanwhile
  seen      \* history: the rows there have been since the request arrived

poolVars == <<reading, asked, rows, got, answer, loads, seen>>

NoAnswer == [candidates |-> <<>>, roles |-> {}, trace |-> <<>>, resolved |-> FALSE]

Present(table) == {<<key, table[key]>> : key \in {k \in Keys : table[k] # NoRow}}

PoolInit ==
  /\ reading = "received"
  /\ asked \in Asks
  /\ rows \in Stores
  /\ got = <<>>
  /\ answer = NoAnswer
  /\ loads = 0
  /\ seen = Present(rows)

-----------------------------------------------------------------------------
(* Enrichment.                                                             *)

\* _bounded_float(), _bounded_int()
Within(value) ==
  IF value < Lowest THEN Lowest ELSE IF value > Highest THEN Highest ELSE value

\* _apply_projection(): one view after the other overwrites the field.
Applied(value, row) ==
  FoldLeft(LAMBDA current, stated : IF stated = Unusable THEN current ELSE Within(stated),
           value, row.content.values)

\* The training of a soldier, then its outcomes as they were updated: two at one
\* moment come in either order.
Accounts(training, outcomes) ==
  {training \o inOrder : inOrder \in
     {o \in Bijection(1 .. Cardinality(outcomes), outcomes) :
        \A i, j \in DOMAIN o : i < j => o[i].version <= o[j].version}}

OutcomeKeys(id) == {<<"outcome", m, id>> : m \in Missions}

Enriched(id) ==
  LET training == IF <<"training", id>> \in DOMAIN got THEN <<got[<<"training", id>>]>> ELSE <<>>
      outcomes == {got[key] : key \in OutcomeKeys(id) \cap DOMAIN got}
  IN  {FoldLeft(Applied, got[<<"soldier", id>>].content, said) :
         said \in Accounts(training, outcomes)}

-----------------------------------------------------------------------------
(* The trace of a score: references to sources and their hashes.           *)

\* The source_hash of a row, and canonical_hash().
Hash(row) == <<"row", row.version>>
Computed(value) == <<"of", value>>

\* Of two entries under one key that of the first function stays.
f ++ g == [x \in DOMAIN f \cup DOMAIN g |-> IF x \in DOMAIN f THEN f[x] ELSE g[x]]

\* The mission a projection does not name is taken for that of the request,
\* unless that one is referred to as well.
ProjectionRefs ==
  LET silent == {key \in DOMAIN got : key[1] = "outcome" /\ ~got[key].content.tells}
  IN  [key \in {<<"outcome", Here, key[3]>> : key \in silent} \ DOMAIN got |->
         Computed("projection")]

\* Those of the rows read; of the slots only if the request names none of its
\* own.  (An empty list of roles names some, but none are taken from it.)
ResolvedRefs ==
  [key \in {k \in DOMAIN got : k[1] = "slot" => asked.roles = NotGiven} |->
     Hash(got[key])] ++ ProjectionRefs

\* score_request_source_refs(): of references to one source the last stays.
Trace(candidates, roles, resolved, refs) ==
  LET ids == {candidates[i].id : i \in 1 .. Len(candidates)}
      Value(id) == (CHOOSE c \in Range(candidates) : c.id = id).value
  IN  refs
      ++ [key \in {<<"slot", r>> : r \in roles} |-> Computed(key[2])]
      ++ (IF candidates # <<>> \/ resolved
            THEN [key \in {<<"soldier", id>> : id \in ids} |-> Computed(Value(key[2]))]
            ELSE [key \in {<<"synthetic">>} |-> Computed("seed")])
      ++ [key \in (IF asked.pooled THEN {<<"pool">>} ELSE {}) |-> Computed("requested")]

Roles(others) == IF asked.roles \in {NotGiven, {}} THEN others ELSE asked.roles

Raise == reading' = "raised" /\ UNCHANGED answer

Return(candidates, roles, resolved, refs) ==
  /\ reading' = "answered"
  /\ answer' = [candidates |-> candidates, roles |-> roles, resolved |-> resolved,
                trace |-> Trace(candidates, roles, resolved, refs)]

Score(candidates, roles, resolved, refs) ==
  IF Len(candidates) < Cardinality(roles) THEN Raise
                                          ELSE Return(candidates, roles, resolved, refs)

-----------------------------------------------------------------------------

ScoreGiven ==
  /\ reading = "received" /\ asked.candidates # NotGiven
  /\ Score(asked.candidates, Roles(DefaultSlots), FALSE, <<>>)
  /\ UNCHANGED <<asked, rows, got, loads, seen>>

\* Candidates are generated, as many as the request wants.  (They stay out of
\* the answer: its trace has the seed in their place.)
ScoreGenerated ==
  /\ reading = "received" /\ asked.candidates = NotGiven
  /\ ~asked.pooled \/ ~asked.persistent
  /\ \E count \in CandidateCounts :
       IF count < Cardinality(Roles(DefaultSlots))
         THEN Raise
         ELSE Return(<<>>, Roles(DefaultSlots), FALSE, <<>>)
  /\ UNCHANGED <<asked, rows, got, loads, seen>>

\* One SELECT.
Read(keys, next) ==
  /\ got' = [key \in {k \in keys : rows[k] # NoRow} |-> rows[key]] ++ got
  /\ reading' = next
  /\ UNCHANGED <<asked, rows, answer, loads, seen>>

Ids == got[<<"pool">>].content

\* A pool that is missing or empty raises.
ReadPool ==
  /\ reading = "received" /\ asked.candidates = NotGiven
  /\ asked.pooled /\ asked.persistent
  /\ LET row == rows[<<"pool">>]
     IN  Read({<<"pool">>},
              IF row = NoRow THEN "raised" ELSE IF row.content = <<>> THEN "raised"
              ELSE "soldiers")

ReadSoldiers ==
  reading = "soldiers" /\ Read({<<"soldier", id>> : id \in Range(Ids)}, "slots")

ReadSlots == reading = "slots" /\ Read({<<"slot", r>> : r \in Slots}, "training")

ReadTraining ==
  reading = "training" /\ Read({<<"training", id>> : id \in Range(Ids)}, "outcomes")

ReadOutcomes ==
  /\ reading = "outcomes"
  /\ Read({<<"outcome", m, id>> : m \in Missions, id \in Range(Ids)}, "resolving")

Found(id) == <<"soldier", id>> \in DOMAIN got

\* The soldiers of a pool with what is told of them, as often as it names them.
Enlisted(ids) ==
  {[i \in 1 .. Len(ids) |-> [id |-> ids[i], value |-> value[ids[i]]]] :
     value \in {v \in [Range(ids) -> UNION {Enriched(id) : id \in Range(ids)}] :
                 \A id \in Range(ids) : v[id] \in Enriched(id)}}

SlotsRead == {r \in Slots : <<"slot", r>> \in DOMAIN got}

\* Variant (AnswerIsTraced): a soldier that is missing is left out.
ResolveThoseFound ==
  /\ reading = "resolving"
  /\ IF SlotsRead = {} \/ \E key \in DOMAIN got : got[key].content = Invalid
       THEN Raise
       ELSE LET found == SelectSeq(Ids, Found)
            IN  \E candidates \in Enlisted(found) :
                  Score(candidates, Roles(SlotsRead), TRUE, ResolvedRefs)
  /\ UNCHANGED <<asked, rows, got, loads, seen>>

\* Missing soldiers, no slots or a row that cannot be read raise.
Resolve ==
  /\ reading = "resolving"
  /\ IF \/ \E id \in Range(Ids) : ~Found(id)
        \/ SlotsRead = {}
        \/ \E key \in DOMAIN got : got[key].content = Invalid
       THEN Raise
       ELSE \E candidates \in Enlisted(Ids) :
              Score(candidates, Roles(SlotsRead), TRUE, ResolvedRefs)
  /\ UNCHANGED <<asked, rows, got, loads, seen>>

\* The other application writes or deletes a row between two of the reads.
Load ==
  /\ reading \in {"soldiers", "slots", "training", "outcomes"} /\ loads < MaxLoads
  /\ \E key \in Keys :
       \/ /\ rows[key] # NoRow
          /\ rows' = [rows EXCEPT ![key] = NoRow]
       \/ \E content \in Contents(key) :
            rows' = [rows EXCEPT ![key] = [version |-> FirstLoad + loads, content |-> content]]
  /\ loads' = loads + 1
  /\ seen' = seen \cup Present(rows')
  /\ UNCHANGED <<reading, asked, got, answer>>

PoolNext ==
  \/ ScoreGiven \/ ScoreGenerated
  \/ ReadPool \/ ReadSoldiers \/ ReadSlots \/ ReadTraining \/ ReadOutcomes
  \/ Resolve \/ Load

PoolSpec == PoolInit /\ [][PoolNext]_poolVars

-----------------------------------------------------------------------------
(* Properties.                                                             *)

\* The row a reference of the trace names, and whether there has been one.
Named(key) == (CHOOSE pair \in seen : pair[1] = key /\ Hash(pair[2]) = answer.trace[key])[2]
IsNamed(key) == \E pair \in seen : pair[1] = key /\ Hash(pair[2]) = answer.trace[key]

Cites(key) == key \in DOMAIN answer.trace

\* The last usable value that is said, in its bounds; or that of the profile.
FollowsFrom(value, profile, said) ==
  LET Values(i) == said[i].content.values
  IN  \/ /\ value = profile
         /\ \A i \in DOMAIN said : \A j \in DOMAIN Values(i) : Values(i)[j] = Unusable
      \/ \E i \in DOMAIN said : \E j \in DOMAIN Values(i) :
           /\ Values(i)[j] # Unusable /\ value = Within(Values(i)[j])
           /\ \A k \in DOMAIN said : \A l \in DOMAIN Values(k) :
                i < k \/ (i = k /\ j < l) => Values(k)[l] = Unusable

\* What the rows named by the trace tell of a soldier.
Traced(id) ==
  LET training == IF Cites(<<"training", id>>) THEN <<Named(<<"training", id>>)>> ELSE <<>>
      outcomes == {Named(key) : key \in
                     {k \in OutcomeKeys(id) \cap DOMAIN answer.trace : IsNamed(k)}}
  IN  Accounts(training, outcomes)

\* docs/architecture.md: a trace carries source references, and the hashes of
\* the inputs keyed by them.  Although a pool is read piece by piece while its
\* tables change, the trace of a score accounts for it: it names one version of
\* the pool, of every soldier in it and of whatever else was read, each of which
\* was there at some moment since the request arrived; from these the
\* candidates follow, none of them missing, and their values.  It names the
\* slots that were filled and no others.  (It may name an outcome there is none
\* of, for one whose payload does not tell its mission.)
AnswerIsTraced ==
  reading = "answered" =>
    /\ {key \in DOMAIN answer.trace : key[1] = "slot"} = {<<"slot", r>> : r \in answer.roles}
    /\ answer.resolved =>
         /\ \A key \in DOMAIN answer.trace :
              \/ IsNamed(key)
              \/ key[1] = "slot" /\ asked.roles # NotGiven
              \/ \E pair \in seen : /\ key = <<"outcome", Here, pair[1][Len(pair[1])]>>
                                    /\ pair[1][1] = "outcome" /\ pair[2].content # Invalid
                                    /\ ~pair[2].content.tells
         /\ [i \in 1 .. Len(answer.candidates) |-> answer.candidates[i].id]
              = Named(<<"pool">>).content
         /\ \A i \in 1 .. Len(answer.candidates) :
              LET id == answer.candidates[i].id
              IN  \E said \in Traced(id) :
                    FollowsFrom(answer.candidates[i].value, Named(<<"soldier", id>>).content, said)
    /\ answer.candidates = <<>> <=> Cites(<<"synthetic">>)

-----------------------------------------------------------------------------
(* The inductive invariant (RequestsProofs).                               *)

\* A hash names at most one version of a row.
SeenInv ==
  /\ \A pair \in seen : /\ pair = <<pair[1], pair[2]>> /\ pair[1] \in Keys
                        /\ pair[2] \in Rows(pair[1], FirstLoad + loads)
  /\ \A p, q \in seen : p[1] = q[1] /\ p[2].version = q[2].version => p = q

GotInv ==
  /\ asked \in Asks /\ loads \in Nat
  /\ SeenInv
  /\ DOMAIN rows = Keys /\ Present(rows) \subseteq seen
  /\ DOMAIN got \subseteq Keys /\ \A key \in DOMAIN got : <<key, got[key]>> \in seen
  /\ reading \in {"soldiers", "slots", "training", "outcomes", "resolving"} =>
       <<"pool">> \in DOMAIN got /\ Ids # <<>>

\* Where a request ends that is answered: with candidates of its own or
\* generated ones, or with those its pool was resolved to.
Unresolved ==
  answer = [candidates |-> answer.candidates, roles |-> answer.roles, resolved |-> FALSE,
            trace |-> Trace(answer.candidates, answer.roles, FALSE, <<>>)]

Resolution(candidates) ==
  /\ <<"pool">> \in DOMAIN got /\ Ids # <<>>
  /\ \A id \in Range(Ids) : Found(id)
  /\ \A key \in DOMAIN got : got[key].content # Invalid
  /\ candidates \in Enlisted(Ids)
  /\ answer = [candidates |-> candidates, roles |-> Roles(SlotsRead), resolved |-> TRUE,
               trace |-> Trace(candidates, Roles(SlotsRead), TRUE, ResolvedRefs)]

PoolInv == GotInv /\ (reading = "answered" => Unresolved \/ Resolution(answer.candidates))
=============================================================================
