-------------------------- MODULE AuditChainProofs --------------------------
(***************************************************************************)
(* Proofs about AuditChain for any number of writers, in both backends.    *)
(***************************************************************************)
EXTENDS AuditChain, FiniteSetTheorems, WellFoundedInduction, TLAPS

\* A record put at the end of the log leaves the others where they are.
LEMMA AppendKeeps ==
  ASSUME NEW s \in Seq(Nat), NEW x \in Nat
  PROVE  /\ Append(s, x) \in Seq(Nat)
         /\ Len(Append(s, x)) = Len(s) + 1
         /\ Append(s, x)[Len(s) + 1] = x
         /\ \A i \in 1 .. Len(s) : Append(s, x)[i] = s[i]
OBVIOUS

LEMMA LinkInit == Init => LinkInv
<1> SUFFICES ASSUME Init PROVE LinkInv
  OBVIOUS
<1>1. /\ transactional \in BOOLEAN /\ overlapped \in BOOLEAN
      /\ tail \in {"whole", "torn", "glued"} /\ unreadable \in BOOLEAN
  BY DEF Init
<1> QED
  BY <1>1 DEF Init, LinkInv, TypeOK, WritersHoldEarlierRecords, LinksPointBack,
              Genesis

\* A row that becomes visible carries an earlier visible hash.
LEMMA LinkStep == LinkInv /\ [Next]_vars => LinkInv'
<1> SUFFICES ASSUME LinkInv, [Next]_vars PROVE LinkInv'
  OBVIOUS
<1> USE MaxRecordsAssumption DEF LinkInv, TypeOK, Genesis
<1>1. ASSUME NEW w \in Writers, ReadLast(w)
      PROVE  LinkInv'
  BY <1>1 DEF ReadLast, NoteOverlap, WritersHoldEarlierRecords, LinksPointBack
<1>2. ASSUME NEW w \in Writers, WriteLine(w)
      PROVE  LinkInv'
  <2>1. CASE UNCHANGED <<log, visible>>
    BY <1>2, <2>1 DEF WriteLine, WritersHoldEarlierRecords, LinksPointBack
  <2>2. CASE /\ log' = Append(log, previous[w])
             /\ visible' = visible \cup {Len(log) + 1}
             /\ tail' = "whole"
    <3>1. /\ log' \in Seq(Nat) /\ Len(log') = Len(log) + 1
          /\ log'[Len(log) + 1] = previous[w]
          /\ \A i \in 1 .. Len(log) : log'[i] = log[i]
      BY <2>2, AppendKeeps
    <3>2. previous[w] \in visible \cup {Genesis} /\ Len(log) \in Nat
      BY <1>2 DEF WriteLine, WritersHoldEarlierRecords
    <3>3. TypeOK'
      <4>1. visible' \in SUBSET (1 .. Len(log'))
        <5>1. visible \in SUBSET (1 .. Len(log))
          OBVIOUS
        <5>2. \A i \in visible \cup {Len(log) + 1} : i \in 1 .. Len(log) + 1
          BY <5>1, <3>2
        <5>3. 1 .. Len(log') = 1 .. Len(log) + 1
          BY <3>1
        <5> QED
          BY <2>2, <5>2, <5>3
      <4> QED
        BY <1>2, <3>1, <4>1 DEF WriteLine
    <3>4. LinksPointBack'
      BY <2>2, <3>1, <3>2 DEF LinksPointBack
    <3>5. WritersHoldEarlierRecords'
      BY <1>2, <2>2, <3>1, <3>2 DEF WriteLine, WritersHoldEarlierRecords
    <3> QED
      BY <3>3, <3>4, <3>5
  <2> QED
    BY <1>2, <2>1, <2>2 DEF WriteLine
<1>3. ASSUME NEW w \in Writers, InsertRow(w)
      PROVE  LinkInv'
  <2>1. /\ log' \in Seq(Nat) /\ Len(log') = Len(log) + 1
        /\ log'[Len(log) + 1] = previous[w]
        /\ \A i \in 1 .. Len(log) : log'[i] = log[i]
    BY <1>3, AppendKeeps DEF InsertRow
  <2>2. previous[w] \in visible \cup {Genesis} /\ Len(log) \in Nat
    BY <1>3 DEF InsertRow, WritersHoldEarlierRecords
  <2>3. TypeOK'
    BY <1>3, <2>1, <2>2 DEF InsertRow
  <2>4. LinksPointBack'
    BY <1>3, <2>1, <2>2 DEF InsertRow, LinksPointBack
  <2>5. WritersHoldEarlierRecords'
    BY <1>3, <2>1, <2>2 DEF InsertRow, WritersHoldEarlierRecords
  <2> QED
    BY <2>3, <2>4, <2>5
<1>4. ASSUME NEW w \in Writers, Commit(w)
      PROVE  LinkInv'
  <2>1. /\ row[w] \in 1 .. Len(log) /\ log[row[w]] < row[w]
        /\ log[row[w]] \in visible \cup {Genesis}
    BY <1>4 DEF Commit, WritersHoldEarlierRecords
  <2> QED
    BY <1>4, <2>1 DEF Commit, WritersHoldEarlierRecords, LinksPointBack
<1>5. CASE Crash
  BY <1>5 DEF Crash, WritersHoldEarlierRecords, LinksPointBack
<1>6. CASE UNCHANGED vars
  BY <1>6 DEF vars, WritersHoldEarlierRecords, LinksPointBack
<1> QED
  BY <1>1, <1>2, <1>3, <1>4, <1>5, <1>6 DEF Next

LEMMA LinkInvariant == Spec => []LinkInv
BY LinkInit, LinkStep, PTL DEF Spec

\* However many threads append, and whatever raises or crashes, every record
\* that can be read links to an earlier one that can be read, or to Genesis.
THEOREM LogIsATree == Spec => []LinksPointBack
<1>1. LinkInv => LinksPointBack
  BY DEF LinkInv
<1> QED
  BY <1>1, LinkInvariant, PTL

-----------------------------------------------------------------------------
(* Calls that do.                                                          *)

LEMMA NoMore ==
  ASSUME NEW A, NEW C, IsFiniteSet(A), IsFiniteSet(C),
         NEW B \in SUBSET A, NEW D \in SUBSET C
  PROVE  Cardinality(B) + Cardinality(D) <= Cardinality(A) + Cardinality(C)
<1>1. /\ Cardinality(A) \in Nat /\ Cardinality(C) \in Nat
      /\ Cardinality(B) \in Nat /\ Cardinality(D) \in Nat
      /\ Cardinality(B) <= Cardinality(A) /\ Cardinality(D) <= Cardinality(C)
  BY FS_Subset, FS_CardinalityType
<1> QED
  BY <1>1

\* One more here and one fewer there.
LEMMA OneForAnother ==
  ASSUME NEW A, NEW C, IsFiniteSet(A), IsFiniteSet(C), NEW x, NEW w \in C,
         NEW B \in SUBSET (A \cup {x}), NEW D \in SUBSET (C \ {w})
  PROVE  Cardinality(B) + Cardinality(D) <= Cardinality(A) + Cardinality(C)
<1>1. IsFiniteSet(A \cup {x}) /\ Cardinality(A \cup {x}) <= Cardinality(A) + 1
  <2>1. /\ IsFiniteSet(A \cup {x}) /\ Cardinality(A) \in Nat
        /\ Cardinality(A \cup {x}) = IF x \in A THEN Cardinality(A) ELSE Cardinality(A) + 1
    BY FS_AddElement, FS_CardinalityType
  <2> QED
    BY <2>1
<1>2. IsFiniteSet(C \ {w}) /\ Cardinality(C \ {w}) = Cardinality(C) - 1
  BY FS_RemoveElement
<1>3. Cardinality(B) + Cardinality(D) <= Cardinality(A \cup {x}) + Cardinality(C \ {w})
  BY <1>1, <1>2, NoMore
<1>4. /\ Cardinality(A) \in Nat /\ Cardinality(C) \in Nat
      /\ Cardinality(A \cup {x}) \in Nat /\ Cardinality(C \ {w}) \in Nat
      /\ Cardinality(B) \in Nat /\ Cardinality(D) \in Nat
  BY <1>1, <1>2, FS_Subset, FS_CardinalityType
<1> QED
  BY <1>1, <1>2, <1>3, <1>4

LEMMA ForksAreFinite ==
  ASSUME TypeOK, NEW p
  PROVE  /\ IsFiniteSet(Children(p)) /\ IsFiniteSet(Claimants(p))
         /\ Claimants(p) \in SUBSET Writers
         /\ Cardinality(Writers) \in Nat
<1>1. IsFiniteSet(1 .. Len(log)) /\ visible \in SUBSET (1 .. Len(log))
  BY FS_Interval DEF TypeOK
<1>2. Children(p) \in SUBSET (1 .. Len(log)) /\ Claimants(p) \in SUBSET Writers
  BY <1>1 DEF Children, Claimants
<1> QED
  BY <1>1, <1>2, WritersAssumption, FS_Subset, FS_CardinalityType

\* A record more for the writer's claim, and none yet after the new one.
LEMMA ForkAppend ==
  ASSUME ForkInv, NEW w \in Writers, pc[w] # "idle",
         NEW r \in Nat, r \notin visible \cup {Genesis},
         visible' = visible \cup {r}, log'[r] = previous[w],
         \A j \in visible : log'[j] = log[j],
         previous' = previous, pc' = [pc EXCEPT ![w] = "idle"],
         NEW p \in visible' \cup {Genesis}
  PROVE  Cardinality(Children(p)') + Cardinality(Claimants(p)') <= Cardinality(Writers)
<1> USE DEF ForkInv, LinkInv
<1>1. /\ previous[w] \in visible \cup {Genesis}
      /\ \A v \in Writers : pc[v] # "idle" => previous[v] \in visible \cup {Genesis}
      /\ \A j \in visible : log[j] \in visible \cup {Genesis}
  BY DEF WritersHoldEarlierRecords, LinksPointBack
<1>2. /\ Children(p)' = {j \in visible \cup {r} : log'[j] = p}
      /\ Claimants(p)' = {v \in Writers \ {w} : pc[v] # "idle" /\ previous[v] = p}
  BY DEF Children, Claimants, TypeOK
<1>3. CASE p = r
  <2>1. \A j \in visible \cup {r} : log'[j] # r
    BY <1>1
  <2>2. \A v \in Writers : pc[v] # "idle" => previous[v] # r
    BY <1>1
  <2>3. Children(p)' = {} /\ Claimants(p)' = {}
    BY <1>2, <1>3, <2>1, <2>2
  <2> QED
    BY <2>3, FS_EmptySet, ForksAreFinite
<1>4. CASE p # r
  <2>1. p \in visible \cup {Genesis}
    BY <1>4
  <2>2. Cardinality(Children(p)) + Cardinality(Claimants(p)) <= Cardinality(Writers)
    BY <2>1
  <2>3. IsFiniteSet(Children(p)) /\ IsFiniteSet(Claimants(p)) /\ Cardinality(Writers) \in Nat
    BY ForksAreFinite
  <2>4. Cardinality(Children(p)') + Cardinality(Claimants(p)')
          <= Cardinality(Children(p)) + Cardinality(Claimants(p))
    <3>1. CASE p = previous[w]
      <4>1. /\ Children(p)' \in SUBSET (Children(p) \cup {r})
            /\ Claimants(p)' \in SUBSET (Claimants(p) \ {w})
            /\ w \in Claimants(p)
        BY <1>2, <3>1 DEF Children, Claimants
      <4> QED
        BY <2>3, <4>1, OneForAnother
    <3>2. CASE p # previous[w]
      <4>1. /\ Children(p)' \in SUBSET Children(p)
            /\ Claimants(p)' \in SUBSET Claimants(p)
        BY <1>2, <3>2 DEF Children, Claimants
      <4> QED
        BY <2>3, <4>1, NoMore
    <3> QED
      BY <3>1, <3>2
  <2>5. /\ IsFiniteSet(Children(p)') /\ IsFiniteSet(Claimants(p)')
    <3>1. /\ Children(p)' \in SUBSET (Children(p) \cup {r})
          /\ Claimants(p)' \in SUBSET Claimants(p)
      BY <1>2 DEF Children, Claimants
    <3> QED
      BY <2>3, <3>1, FS_AddElement, FS_Subset
  <2>6. /\ Cardinality(Children(p)') \in Nat /\ Cardinality(Claimants(p)') \in Nat
        /\ Cardinality(Children(p)) \in Nat /\ Cardinality(Claimants(p)) \in Nat
    BY <2>3, <2>5, FS_CardinalityType
  <2> QED
    BY <2>2, <2>3, <2>4, <2>6
<1> QED
  BY <1>3, <1>4

\* Nothing more after a record, and no further claim.
LEMMA ForkStays ==
  ASSUME ForkInv, NEW p \in visible \cup {Genesis},
         Children(p)' \in SUBSET Children(p), Claimants(p)' \in SUBSET Claimants(p)
  PROVE  Cardinality(Children(p)') + Cardinality(Claimants(p)') <= Cardinality(Writers)
<1>1. /\ IsFiniteSet(Children(p)) /\ IsFiniteSet(Claimants(p)) /\ Cardinality(Writers) \in Nat
      /\ Cardinality(Children(p)) + Cardinality(Claimants(p)) <= Cardinality(Writers)
  BY ForksAreFinite DEF ForkInv, LinkInv
<1>2. Cardinality(Children(p)') + Cardinality(Claimants(p)')
        <= Cardinality(Children(p)) + Cardinality(Claimants(p))
  BY <1>1, NoMore
<1>3. /\ Cardinality(Children(p)') \in Nat /\ Cardinality(Claimants(p)') \in Nat
      /\ Cardinality(Children(p)) \in Nat /\ Cardinality(Claimants(p)) \in Nat
  BY <1>1, FS_Subset, FS_CardinalityType
<1> QED
  BY <1>1, <1>2, <1>3

\* Who reads a record as the last one has found none after it.
LEMMA ForkRead ==
  ASSUME ForkInv, NEW w \in Writers, ReadLast(w), NEW p \in visible \cup {Genesis}
  PROVE  Cardinality(Children(p)') + Cardinality(Claimants(p)') <= Cardinality(Writers)
<1> USE DEF ForkInv, LinkInv
<1>1. PICK i \in visible \cup {Genesis} :
        IsLast(i, visible) /\ previous' = [previous EXCEPT ![w] = i]
  BY DEF ReadLast
<1>2. /\ Children(p)' = Children(p)
      /\ pc' = [pc EXCEPT ![w] = "read"] /\ pc[w] = "idle"
  BY DEF ReadLast, Children
<1>3. CASE p = i
  <2>1. \A j \in visible : j \in Nat /\ i \in Nat /\ i < j => FALSE
    BY <1>1 DEF IsLast
  <2>2. \A j \in visible : log[j] < j /\ j \in Nat /\ log[j] \in Nat
    BY DEF LinksPointBack, TypeOK
  <2>3. Children(p)' = {}
    BY <1>2, <1>3, <2>1, <2>2 DEF Children
  <2>4. Claimants(p)' \in SUBSET Writers
    BY DEF Claimants
  <2> QED
    BY <2>3, <2>4, WritersAssumption, FS_EmptySet, FS_Subset, FS_CardinalityType
<1>4. CASE p # i
  <2>1. Claimants(p)' \in SUBSET Claimants(p)
    BY <1>1, <1>2, <1>4 DEF Claimants, TypeOK
  <2> QED
    BY <1>2, <2>1, ForkStays
<1> QED
  BY <1>3, <1>4

LEMMA ForkStep ==
  ASSUME ForkInv, [Next]_vars, NEW p \in visible' \cup {Genesis}
  PROVE  Cardinality(Children(p)') + Cardinality(Claimants(p)') <= Cardinality(Writers)
<1> DEFINE Bounded == Cardinality(Children(p)') + Cardinality(Claimants(p)')
                        <= Cardinality(Writers)
<1> USE DEF ForkInv, LinkInv
<1>1. ASSUME NEW w \in Writers, ReadLast(w)
      PROVE  Bounded
  <2>1. visible' = visible
    BY <1>1 DEF ReadLast
  <2> QED
    BY <1>1, <2>1, ForkRead
<1>2. ASSUME NEW w \in Writers, WriteLine(w)
      PROVE  Bounded
  <2>1. /\ previous' = previous /\ pc' = [pc EXCEPT ![w] = "idle"] /\ pc[w] = "read"
    BY <1>2 DEF WriteLine
  <2>2. CASE UNCHANGED <<log, visible>>
    <3>1. Children(p)' \in SUBSET Children(p) /\ Claimants(p)' \in SUBSET Claimants(p)
      BY <2>1, <2>2 DEF Children, Claimants, TypeOK
    <3> QED
      BY <2>2, <3>1, ForkStays
  <2>3. CASE /\ log' = Append(log, previous[w])
             /\ visible' = visible \cup {Len(log) + 1}
    <3>1. /\ log'[Len(log) + 1] = previous[w]
          /\ \A i \in 1 .. Len(log) : log'[i] = log[i]
      BY <2>3, AppendKeeps DEF TypeOK
    <3>2. /\ visible \in SUBSET (1 .. Len(log)) /\ Len(log) \in Nat
      BY DEF TypeOK
    <3>3. /\ Len(log) + 1 \in Nat /\ Len(log) + 1 \notin visible \cup {Genesis}
          /\ \A j \in visible : log'[j] = log[j]
      BY <3>1, <3>2 DEF Genesis
    <3> QED
      BY <2>1, <2>3, <3>1, <3>3, ForkAppend
  <2> QED
    BY <1>2, <2>2, <2>3 DEF WriteLine
<1>3. ASSUME NEW w \in Writers, InsertRow(w)
      PROVE  Bounded
  <2>1. /\ visible' = visible /\ \A i \in 1 .. Len(log) : log'[i] = log[i]
    BY <1>3, AppendKeeps DEF InsertRow, TypeOK
  <2>2. Children(p)' \in SUBSET Children(p)
    BY <2>1 DEF Children, TypeOK
  <2>3. Claimants(p)' \in SUBSET Claimants(p)
    BY <1>3 DEF InsertRow, Claimants, TypeOK
  <2> QED
    BY <2>1, <2>2, <2>3, ForkStays
<1>4. ASSUME NEW w \in Writers, Commit(w)
      PROVE  Bounded
  <2>1. /\ previous' = previous /\ pc' = [pc EXCEPT ![w] = "idle"] /\ log' = log
        /\ pc[w] = "inserted"
    BY <1>4 DEF Commit
  <2>2. CASE visible' = visible
    <3>1. Children(p)' \in SUBSET Children(p) /\ Claimants(p)' \in SUBSET Claimants(p)
      BY <2>1, <2>2 DEF Children, Claimants, TypeOK
    <3> QED
      BY <2>2, <3>1, ForkStays
  <2>3. CASE visible' = visible \cup {row[w]} /\ row[w] \notin visible
    <3>1. row[w] \in Nat /\ row[w] \notin visible \cup {Genesis} /\ log[row[w]] = previous[w]
      BY <2>1, <2>3 DEF WritersHoldEarlierRecords, Genesis
    <3> QED
      BY <2>1, <2>3, <3>1, ForkAppend
  <2>4. CASE visible' = visible \cup {row[w]} /\ row[w] \in visible
    BY <2>2, <2>4
  <2> QED
    BY <1>4, <2>2, <2>3, <2>4 DEF Commit
<1>5. CASE Crash
  <2>1. Children(p)' \in SUBSET Children(p) /\ Claimants(p)' \in SUBSET Claimants(p)
    BY <1>5 DEF Crash, Children, Claimants
  <2> QED
    BY <1>5, <2>1, ForkStays DEF Crash
<1>6. CASE UNCHANGED vars
  <2>1. Children(p)' \in SUBSET Children(p) /\ Claimants(p)' \in SUBSET Claimants(p)
    BY <1>6 DEF vars, Children, Claimants
  <2> QED
    BY <1>6, <2>1, ForkStays DEF vars
<1> QED
  BY <1>1, <1>2, <1>3, <1>4, <1>5, <1>6 DEF Next

LEMMA ForkInvariant == Spec => []ForkInv
<1>1. Init => ForkInv
  <2> SUFFICES ASSUME Init PROVE ForkInv
    OBVIOUS
  <2>1. LinkInv
    BY LinkInit
  <2>2. ASSUME NEW p \in visible \cup {Genesis}
        PROVE  Cardinality(Children(p)) + Cardinality(Claimants(p)) <= Cardinality(Writers)
    <3>1. Children(p) = {} /\ Claimants(p) = {}
      BY DEF Init, Children, Claimants
    <3> QED
      BY <3>1, FS_EmptySet, WritersAssumption, FS_CardinalityType
  <2> QED
    BY <2>1, <2>2 DEF ForkInv
<1>2. ForkInv /\ [Next]_vars => ForkInv'
  BY LinkStep, ForkStep DEF ForkInv
<1> QED
  BY <1>1, <1>2, PTL DEF Spec

\* However the calls of append() overlap, no record is followed by more branches
\* than there are writers.
THEOREM ForksStayBounded == Spec => []ForksAreBounded
<1>1. ForkInv => ForksAreBounded
  <2> SUFFICES ASSUME ForkInv, NEW p \in visible \cup {Genesis}
               PROVE  Cardinality(Children(p)) <= Cardinality(Writers)
    BY DEF ForksAreBounded
  <2>1. /\ Cardinality(Children(p)) \in Nat /\ Cardinality(Claimants(p)) \in Nat
        /\ Cardinality(Writers) \in Nat
    BY ForksAreFinite, FS_CardinalityType DEF ForkInv, LinkInv
  <2> QED
    BY <2>1 DEF ForkInv
<1> QED
  BY <1>1, ForkInvariant, PTL

-----------------------------------------------------------------------------
(* Calls that do not overlap.                                              *)

\* A record after all others that carries the hash of the last of them
\* extends a valid chain.
LEMMA Extend ==
  ASSUME LinkInv, LinkInv', Linked(visible),
         NEW i \in Nat, i \notin visible, \A j \in visible : j < i,
         IsLast(log'[i], visible), visible' = visible \cup {i},
         \A j \in visible : log'[j] = log[j]
  PROVE  Linked(visible)'
<1>1. \A j \in visible : j \in Nat
  BY DEF LinkInv, TypeOK
<1>2. Before(i, visible') = visible
  BY <1>1 DEF Before
<1>3. \A j \in visible : Before(j, visible') = Before(j, visible)
  BY <1>1 DEF Before
<1> QED
  BY <1>2, <1>3 DEF Linked

Serial == /\ OneWriterInAppend /\ WriterHoldsTheLast
          /\ Linked(visible) /\ NobodyInTornLog /\ OnlyTheTailIsTorn

\* A writer that goes on or leaves does not hold up more than one in append().
LEMMA SerialStep ==
  ASSUME SerialInv, [Next]_vars, ~overlapped'
  PROVE  Serial'
<1>1. LinkInv /\ LinkInv'
  BY LinkStep DEF SerialInv
<1>2. ~overlapped
  BY DEF Next, ReadLast, NoteOverlap, WriteLine, InsertRow, Commit, Crash, vars
<1>3. Serial
  BY <1>2 DEF SerialInv, Serial
<1>4. TypeOK /\ TypeOK'
  BY <1>1 DEF LinkInv
<1> USE <1>1, <1>2, <1>3, <1>4
<1> USE DEF Serial, OneWriterInAppend, WriterHoldsTheLast, NobodyInTornLog,
           OnlyTheTailIsTorn
<1>5. ASSUME NEW w \in Writers, ReadLast(w)
      PROVE  Serial'
  <2>1. \A v \in Writers \ {w} : pc[v] = "idle"
    BY <1>5 DEF ReadLast, NoteOverlap
  <2>2. Linked(visible)'
    BY <1>5 DEF ReadLast, Linked, Before
  <2> QED
    BY <1>5, <2>1, <2>2 DEF ReadLast, TypeOK
<1>6. ASSUME NEW w \in Writers, WriteLine(w)
      PROVE  Serial'
  <2>1. \A v \in Writers : pc'[v] = "idle"
    BY <1>6 DEF WriteLine, TypeOK
  <2>2. NobodyInTornLog' /\ OnlyTheTailIsTorn'
    <3>1. tail = "whole" /\ unreadable = FALSE
      BY <1>6 DEF WriteLine, TypeOK
    <3> QED
      BY <1>6, <2>1, <3>1 DEF WriteLine
  <2>3. CASE UNCHANGED <<log, visible>>
    <3>1. Linked(visible)'
      BY <2>3 DEF Linked, Before
    <3> QED
      BY <2>1, <2>2, <3>1
  <2>4. CASE /\ log' = Append(log, previous[w])
             /\ visible' = visible \cup {Len(log) + 1}
    <3>1. /\ log'[Len(log) + 1] = previous[w]
          /\ \A i \in 1 .. Len(log) : log'[i] = log[i]
      BY <2>4, AppendKeeps DEF TypeOK
    <3>2. /\ visible \in SUBSET (1 .. Len(log)) /\ Len(log) \in Nat
          /\ IsLast(previous[w], visible)
      BY <1>6 DEF WriteLine, TypeOK
    <3>3. /\ IsLast(log'[Len(log) + 1], visible)
          /\ Len(log) + 1 \in Nat /\ Len(log) + 1 \notin visible
          /\ \A j \in visible : j < Len(log) + 1 /\ log'[j] = log[j]
      <4>1. \A j \in visible : j \in Nat /\ j <= Len(log)
        BY <3>2
      <4> QED
        BY <3>1, <3>2, <4>1
    <3>4. Linked(visible)'
      BY <2>4, <3>3, Extend
    <3> QED
      BY <2>1, <2>2, <3>4
  <2> QED
    BY <1>6, <2>3, <2>4 DEF WriteLine
<1>7. ASSUME NEW w \in Writers, InsertRow(w)
      PROVE  Serial'
  <2>1. /\ Len(log') = Len(log) + 1 /\ UNCHANGED visible
        /\ \A i \in 1 .. Len(log) : log'[i] = log[i]
    BY <1>7, AppendKeeps DEF InsertRow, TypeOK
  <2>2. visible \in SUBSET (1 .. Len(log)) /\ Len(log) \in Nat
    BY DEF TypeOK
  <2>3. Linked(visible)'
    BY <2>1, <2>2 DEF Linked, Before
  <2>4. \A v \in Writers : v # w => pc'[v] = "idle"
    BY <1>7 DEF InsertRow, TypeOK
  <2>5. row'[w] = Len(log') /\ row'[w] \notin visible'
    BY <1>7, <2>1, <2>2 DEF InsertRow, TypeOK
  <2> QED
    BY <1>7, <2>1, <2>3, <2>4, <2>5 DEF InsertRow, TypeOK
<1>8. ASSUME NEW w \in Writers, Commit(w)
      PROVE  Serial'
  <2>1. /\ row[w] = Len(log) /\ row[w] \notin visible
        /\ IsLast(log[row[w]], visible)
    BY <1>8 DEF Commit, LinkInv, WritersHoldEarlierRecords
  <2>2. visible \in SUBSET (1 .. Len(log)) /\ Len(log) \in Nat /\ UNCHANGED log
    BY <1>8 DEF Commit, TypeOK
  <2>3. \A v \in Writers : pc'[v] = "idle"
    BY <1>8 DEF Commit, TypeOK
  <2>4. NobodyInTornLog' /\ OnlyTheTailIsTorn'
    BY <1>8, <2>3 DEF Commit
  <2>5. CASE UNCHANGED visible
    <3>1. Linked(visible)'
      BY <2>2, <2>5 DEF Linked, Before
    <3> QED
      BY <2>3, <2>4, <3>1
  <2>6. CASE visible' = visible \cup {row[w]}
    <3>1. \A j \in visible : j < row[w]
      BY <2>1, <2>2
    <3>2. Linked(visible)'
      BY <2>1, <2>2, <2>6, <3>1, Extend
    <3> QED
      BY <2>3, <2>4, <3>2
  <2> QED
    BY <1>8, <2>5, <2>6 DEF Commit
<1>9. CASE Crash
  BY <1>9 DEF Crash, Linked, Before
<1>10. CASE UNCHANGED vars
  BY <1>10 DEF vars, Linked, Before
<1> QED
  BY <1>5, <1>6, <1>7, <1>8, <1>9, <1>10 DEF Next

\* The whole inductive invariant.
THEOREM SerialInvariant == Spec => []SerialInv
<1>1. Init => SerialInv
  BY LinkInit DEF Init, SerialInv, OneWriterInAppend, WriterHoldsTheLast,
                  NobodyInTornLog, OnlyTheTailIsTorn, Linked
<1>2. SerialInv /\ [Next]_vars => SerialInv'
  BY LinkStep, SerialStep DEF SerialInv, Serial
<1> QED
  BY <1>1, <1>2, PTL DEF Spec

\* As long as no two calls of append() overlap, whichever threads make them,
\* and whatever raises, is rolled back or crashes, the log is one that
\* validate_hash_chain() accepts, or accepts up to a last line cut short.
THEOREM ChainStaysValid == Spec => []SerialChainIsValid
<1>1. SerialInv => SerialChainIsValid
  BY DEF SerialInv, SerialChainIsValid, Validates, OnlyTheTailIsTorn
<1> QED
  BY <1>1, SerialInvariant, PTL

\* Without overlap a line cut short is the last thing ever written to the file.
THEOREM TornLogStaysClosed == Spec => TornLogIsClosed
<1>1. SerialInv /\ [Next]_vars =>
        [~overlapped' /\ tail # "whole" => UNCHANGED <<log, visible, tail>>]_vars
  <2>. SUFFICES ASSUME SerialInv, Next, ~overlapped', tail # "whole"
                PROVE  UNCHANGED <<log, visible, tail>>
    OBVIOUS
  <2>1. ~overlapped
    BY DEF Next, ReadLast, NoteOverlap, WriteLine, InsertRow, Commit, Crash
  <2>2. \A w \in Writers : pc[w] = "idle"
    BY <2>1 DEF SerialInv, NobodyInTornLog
  <2>3. ASSUME NEW w \in Writers PROVE ~WriteLine(w) /\ ~InsertRow(w) /\ ~Commit(w)
    BY <2>2 DEF WriteLine, InsertRow, Commit
  <2>4. CASE \E w \in Writers : ReadLast(w)
    BY <2>4 DEF ReadLast
  <2>5. CASE Crash
    BY <2>5 DEF Crash
  <2>. QED  BY <2>3, <2>4, <2>5 DEF Next
<1>. QED  BY <1>1, SerialInvariant, PTL DEF Spec, TornLogIsClosed

-----------------------------------------------------------------------------
(* What a valid chain is good for.                                         *)

\* Well-foundedness is taken from finite sets under inclusion: a number n
\* stands for the set 1 .. n.
LEMMA LeastElement ==
  ASSUME NEW G \in SUBSET Nat, G # {}
  PROVE  \E k \in G : \A m \in G : ~(m < k)
<1> DEFINE I == {1 .. k : k \in G}
           O == StrictSubsetOrdering(Nat)
<1>1. I \subseteq FiniteSubsetsOf(Nat) /\ I # {}
  <2>1. \A k \in G : IsFiniteSet(1 .. k) /\ (1 .. k) \subseteq Nat
    BY FS_Interval
  <2> QED
    BY <2>1 DEF FiniteSubsetsOf
<1>2. IsWellFoundedOn(O, FiniteSubsetsOf(Nat))
  BY FS_StrictSubsetOrderingWellFounded
<1>3. \E T \in I : \A U \in I : <<U, T>> \notin O
  <2> HIDE DEF I, O
  <2> QED
    BY <1>1, <1>2, WFMin
<1>4. PICK k \in G : \A m \in G : <<1 .. m, 1 .. k>> \notin O
  BY <1>3
<1>5. ASSUME NEW m \in G, m < k
      PROVE  FALSE
  <2>1. (1 .. m) \subseteq (1 .. k) /\ k \in 1 .. k /\ k \notin 1 .. m
    BY <1>5
  <2>2. (1 .. m) \in SUBSET Nat /\ (1 .. k) \in SUBSET Nat
    OBVIOUS
  <2>3. <<1 .. m, 1 .. k>> \in O
    BY <2>1, <2>2 DEF StrictSubsetOrdering
  <2> QED
    BY <2>3, <1>4
<1> QED
  BY <1>5

\* The argument is by the least record kept whose predecessors are not all
\* kept: it links to the last record before it, which is then kept too, and
\* is less.
LEMMA ValidChainShowsDeletion ==
  ASSUME TypeOK, Linked(visible)
  PROVE  DeletionIsDetected
<1> SUFFICES ASSUME NEW kept \in SUBSET visible, Linked(kept),
                    NEW i \in kept, NEW j \in Before(i, visible), j \notin kept
             PROVE  FALSE
  BY DEF DeletionIsDetected
<1>1. visible \subseteq Nat
  BY DEF TypeOK
<1> DEFINE Gap == {k \in kept : \E m \in Before(k, visible) : m \notin kept}
<1>2. Gap \in SUBSET Nat /\ Gap # {}
  BY <1>1
<1>3. PICK k \in Gap : \A m \in Gap : ~(m < k)
  <2> HIDE DEF Gap
  <2> QED
    BY <1>2, LeastElement
<1>4. PICK m \in Before(k, visible) : m \notin kept
  OBVIOUS
<1>5. IsLast(log[k], Before(k, kept)) /\ IsLast(log[k], Before(k, visible))
  BY DEF Linked
<1>6. log[k] \in visible /\ m <= log[k]
  BY <1>4, <1>5 DEF IsLast, Before
<1>7. log[k] \in kept /\ log[k] < k
  BY <1>1, <1>5, <1>6 DEF IsLast, Before, Genesis, TypeOK
<1>8. m < log[k]
  <2>1. m # log[k] /\ m \in Nat /\ log[k] \in Nat
    BY <1>1, <1>4, <1>7 DEF Before
  <2> QED
    BY <1>6, <2>1
<1>9. log[k] \in Gap
  BY <1>4, <1>7, <1>8 DEF Before
<1> QED
  BY <1>3, <1>7, <1>9

\* No record can be taken out of the middle of a log whose appends have not
\* overlapped without the rest failing to validate.
THEOREM DeletionShows == Spec => []DeletionIsDetected
<1>1. SerialInv => DeletionIsDetected
  <2>1. CASE overlapped
    BY <2>1 DEF DeletionIsDetected
  <2>2. CASE ~overlapped
    BY <2>2, ValidChainShowsDeletion DEF SerialInv, LinkInv
  <2> QED
    BY <2>1, <2>2
<1> QED
  BY <1>1, SerialInvariant, PTL
=============================================================================
