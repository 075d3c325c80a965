------------------------- MODULE TwinReviewsProofs -------------------------
(***************************************************************************)
(* Proofs about TwinReviews, for any options and any number of calls.      *)
(* That the record stays consistent needs no lock: a save is a copy of a   *)
(* consistent record, changed consistently.  That nothing is lost needs    *)
(* calls that do not overlap.                                              *)
(***************************************************************************)
EXTENDS TwinReviews, TLAPS

-----------------------------------------------------------------------------
(* The operators: a decision or an outcome keeps a record consistent.      *)

\* A decidable decision.
LEMMA DecidedConsistent ==
  ASSUME NEW record \in TwinRun, Consistent(record),
         NEW ask \in Decision, Decidable(record, ask)
  PROVE  Decided(record, ask) \in TwinRun /\ Consistent(Decided(record, ask))
<1> DEFINE new == Decided(record, ask)
           p == ask.option
<1>1. /\ ask.by \in Reviewers /\ p \in Options
      /\ ask.decision \in OptionStatuses \ {"draft"}
  BY DEF Decision
<1>2. /\ record.status \in RunStatuses
      /\ record.option \in [Options -> OptionStatuses]
      /\ record.decisions \in SUBSET Decision
      /\ record.outcomes \in SUBSET Outcome
      /\ record.lessons \in SUBSET Callers
  BY DEF TwinRun
<1>3. /\ new.option = [record.option EXCEPT ![p] = ask.decision]
      /\ new.decisions = record.decisions \cup {ask}
      /\ new.outcomes = record.outcomes
      /\ new.status = IF ask.decision = "approved" THEN "completed"
                                                  ELSE "partially_decided"
      /\ new.lessons = IF ask.decision = "approved"
                       THEN record.lessons \cup {ask.by} ELSE record.lessons
  BY DEF Decided, LessonOf
<1>4. new \in TwinRun
  <2>1. new.option \in [Options -> OptionStatuses]
    BY <1>1, <1>2, <1>3
  <2>2. new.status \in RunStatuses
    BY <1>3 DEF RunStatuses
  <2>3. new.lessons \in SUBSET Callers
    BY <1>1, <1>2, <1>3 DEF Callers
  <2>4. new.decisions \in SUBSET Decision /\ new.outcomes \in SUBSET Outcome
    BY <1>2, <1>3
  <2> QED
    BY <2>1, <2>2, <2>3, <2>4 DEF TwinRun, Decided, LessonOf
<1>5. /\ new.option[p] = ask.decision
      /\ \A q \in Options \ {p} : new.option[q] = record.option[q]
  BY <1>1, <1>2, <1>3
<1>6. record.option[p] = "draft"
  BY DEF Decidable
<1>7. \A d \in record.decisions : d.option \in Options /\ d.decision # "draft"
  BY <1>2 DEF Decision
<1>8. \A d \in record.decisions : d.option # p
  BY <1>6, <1>7 DEF Consistent, OptionsFollowDecisions
<1> HIDE DEF new
<1>9. OptionsFollowDecisions(new)
  <2>1. \A d \in new.decisions : new.option[d.option] = d.decision
    BY <1>3, <1>5, <1>7, <1>8 DEF Consistent, OptionsFollowDecisions
  <2>2. \A d, e \in new.decisions : d.option = e.option => d = e
    BY <1>3, <1>8 DEF Consistent, OptionsFollowDecisions
  <2>3. \A q \in Options : new.option[q] # "draft" =>
          \E d \in new.decisions : d.option = q
    BY <1>3, <1>5 DEF Consistent, OptionsFollowDecisions
  <2> QED
    BY <2>1, <2>2, <2>3 DEF OptionsFollowDecisions
<1>10. ReviewIsSound(new)
  <2>1. \A q \in Unsafe : new.option[q] # "approved"
    BY <1>5, ReviewAssumption
       DEF Decidable, Consistent, ReviewIsSound
  <2>2. \A u \in new.outcomes : new.option[u.option] = "approved"
    <3>1. \A u \in record.outcomes :
            u.option \in Options /\ record.option[u.option] = "approved"
      BY <1>2 DEF Outcome, Consistent, ReviewIsSound
    <3> QED
      BY <1>3, <1>5, <1>6, <3>1
  <2>3. new.lessons = {u.by : u \in new.outcomes} \cup
          {d.by : d \in {e \in new.decisions : e.decision = "approved"}}
    <3>1. record.lessons = {u.by : u \in record.outcomes} \cup
            {d.by : d \in {e \in record.decisions : e.decision = "approved"}}
      BY DEF Consistent, ReviewIsSound
    <3> QED
      BY <1>3, <3>1
  <2> QED
    BY <2>1, <2>2, <2>3 DEF ReviewIsSound
<1>11. StatusIsBacked(new)
  BY <1>3 DEF StatusIsBacked
<1> QED
  BY <1>4, <1>9, <1>10, <1>11 DEF Consistent, new

\* An outcome of an approved option.
LEMMA ReportedConsistent ==
  ASSUME NEW record \in TwinRun, Consistent(record),
         NEW ask \in Outcome, Reportable(record, ask)
  PROVE  Reported(record, ask) \in TwinRun /\ Consistent(Reported(record, ask))
<1> DEFINE new == Reported(record, ask)
<1>1. ask.by \in Reporters /\ ask.option \in Options
  BY DEF Outcome
<1>2. /\ record.option \in [Options -> OptionStatuses]
      /\ record.decisions \in SUBSET Decision
      /\ record.outcomes \in SUBSET Outcome
      /\ record.lessons \in SUBSET Callers
  BY DEF TwinRun
<1>3. /\ new.option = record.option
      /\ new.decisions = record.decisions
      /\ new.outcomes = record.outcomes \cup {ask}
      /\ new.status = "outcome_recorded"
      /\ new.lessons = record.lessons \cup {ask.by}
  BY DEF Reported
<1>4. new \in TwinRun
  BY <1>1, <1>2 DEF TwinRun, Reported, RunStatuses, Callers
<1>5. record.option[ask.option] = "approved"
  BY DEF Reportable
<1> HIDE DEF new
<1>6. OptionsFollowDecisions(new)
  BY <1>3 DEF Consistent, OptionsFollowDecisions
<1>7. ReviewIsSound(new)
  <2>1. record.lessons = {u.by : u \in record.outcomes} \cup
          {d.by : d \in {e \in record.decisions : e.decision = "approved"}}
    BY DEF Consistent, ReviewIsSound
  <2>2. new.lessons = {u.by : u \in new.outcomes} \cup
          {d.by : d \in {e \in new.decisions : e.decision = "approved"}}
    BY <1>3, <2>1
  <2> QED
    BY <1>3, <1>5, <2>2 DEF Consistent, ReviewIsSound
<1>8. StatusIsBacked(new)
  <2>1. record.decisions # {}
    BY <1>1, <1>5 DEF Consistent, OptionsFollowDecisions
  <2> QED
    BY <1>3, <2>1 DEF StatusIsBacked
<1> QED
  BY <1>4, <1>6, <1>7, <1>8 DEF Consistent, new

-----------------------------------------------------------------------------
(* Consistency.                                                            *)

LEMMA ConsistencyInit == Init => ConsistencyInv
<1> SUFFICES ASSUME Init PROVE ConsistencyInv
  OBVIOUS
<1>1. TypeOK
  BY DEF Init, TypeOK, TwinRun, RunStatuses, OptionStatuses, Callers
<1>2. RecordIsConsistent
  BY ReviewAssumption
     DEF Init, RecordIsConsistent, Consistent, OptionsFollowDecisions,
         ReviewIsSound, StatusIsBacked
<1>3. ReadsAreConsistent
  BY DEF Init, ReadsAreConsistent
<1> QED
  BY <1>1, <1>2, <1>3 DEF ConsistencyInv

\* A read that is followed by a question keeps everything.
LEMMA ReadKeeps ==
  ASSUME ConsistencyInv, NEW c \in Callers, Read(c),
         NEW ask \in Decision \cup Outcome,
         asked' = [asked EXCEPT ![c] = ask],
         c \in Reviewers => ask \in Decision /\ ask.by = c,
         c \in Reporters => ask \in Outcome /\ ask.by = c
  PROVE  ConsistencyInv'
<1> USE DEF ConsistencyInv, TypeOK
<1>1. PICK o \in Outcomes :
        /\ seen' = [seen EXCEPT ![c] = IF o = "ok" THEN run ELSE None]
        /\ Moves(c, Reply(o, "read", "raised"))
  BY DEF Read
<1>2. UNCHANGED <<run, audited, events>>
  BY DEF Read
<1>3. TypeOK'
  <2>1. overlapped' \in BOOLEAN
    BY DEF Read
  <2> QED
    BY <1>1, <1>2, <2>1 DEF Moves, Reply, InFlight
<1>4. RecordIsConsistent'
  BY <1>2 DEF RecordIsConsistent
<1>5. ReadsAreConsistent'
  <2> SUFFICES ASSUME NEW d \in Callers, pc'[d] = "read"
               PROVE  /\ seen'[d] # None /\ Consistent(seen'[d])
                      /\ d \in Reviewers => asked'[d] \in Decision /\ asked'[d].by = d
                      /\ d \in Reporters => asked'[d] \in Outcome /\ asked'[d].by = d
    BY DEF ReadsAreConsistent
  <2>1. CASE d = c
    <3>1. o = "ok" /\ seen'[c] = run
      BY <1>1, <2>1 DEF Moves, Reply
    <3> QED
      BY <2>1, <3>1, NoneAssumption DEF RecordIsConsistent
  <2>2. CASE d # c
    <3>1. pc[d] = "read" /\ seen'[d] = seen[d] /\ asked'[d] = asked[d]
      BY <1>1, <2>2 DEF Moves
    <3> QED
      BY <3>1 DEF ReadsAreConsistent
  <2> QED
    BY <2>1, <2>2
<1> QED
  BY <1>3, <1>4, <1>5

\* So does the save of a consistent record.
LEMMA SaveKeeps ==
  ASSUME ConsistencyInv, NEW c \in Callers,
         NEW record \in TwinRun, Consistent(record), Save(c, record)
  PROVE  ConsistencyInv'
<1>1. PICK o \in Outcomes : /\ run' = Effect(o, run, record)
                            /\ Moves(c, Reply(o, "saved", "raised"))
  BY DEF Save
<1>2. run' = run \/ run' = record
  BY <1>1 DEF Effect
<1>3. UNCHANGED <<audited, events, seen, asked, overlapped>>
  BY DEF Save
<1>4. TypeOK' /\ RecordIsConsistent'
  <2>1. overlapped' \in BOOLEAN
    BY <1>3 DEF ConsistencyInv, TypeOK
  <2> QED
    BY <1>1, <1>2, <1>3, <2>1
       DEF ConsistencyInv, TypeOK, RecordIsConsistent, Moves, Reply, InFlight
<1>5. ReadsAreConsistent'
  BY <1>1, <1>3 DEF ConsistencyInv, TypeOK, ReadsAreConsistent, Moves, Reply
<1> QED
  BY <1>4, <1>5 DEF ConsistencyInv

LEMMA ConsistencyStep == ConsistencyInv /\ [Next]_vars => ConsistencyInv'
<1> SUFFICES ASSUME ConsistencyInv, [Next]_vars PROVE ConsistencyInv'
  OBVIOUS
<1>1. ASSUME NEW c \in Reviewers, ReadForDecision(c)
      PROVE  ConsistencyInv'
  <2>1. PICK p \in Options : \E d \in OptionStatuses \ {"draft"} :
          asked' = [asked EXCEPT ![c] = [by |-> c, option |-> p, decision |-> d]]
    BY <1>1 DEF ReadForDecision
  <2>2. PICK d \in OptionStatuses \ {"draft"} :
          asked' = [asked EXCEPT ![c] = [by |-> c, option |-> p, decision |-> d]]
    BY <2>1
  <2>3. [by |-> c, option |-> p, decision |-> d] \in Decision
    BY DEF Decision
  <2>4. c \in Callers /\ c \notin Reporters /\ Read(c)
    BY <1>1, ReviewAssumption DEF ReadForDecision, Callers
  <2> QED
    BY <2>2, <2>3, <2>4, ReadKeeps
<1>2. ASSUME NEW c \in Reporters, ReadForOutcome(c)
      PROVE  ConsistencyInv'
  <2>1. PICK p \in Options :
          asked' = [asked EXCEPT ![c] = [by |-> c, option |-> p]]
    BY <1>2 DEF ReadForOutcome
  <2>2. [by |-> c, option |-> p] \in Outcome
    BY DEF Outcome
  <2>3. c \in Callers /\ c \notin Reviewers /\ Read(c)
    BY <1>2, ReviewAssumption DEF ReadForOutcome, Callers
  <2> QED
    BY <2>1, <2>2, <2>3, ReadKeeps
<1>3. ASSUME NEW c \in Reviewers, SaveDecision(c)
      PROVE  ConsistencyInv'
  <2>1. c \in Callers /\ seen[c] \in TwinRun /\ Consistent(seen[c]) /\ asked[c] \in Decision
    BY <1>3 DEF SaveDecision, ConsistencyInv, TypeOK, ReadsAreConsistent, Callers
  <2>2. Decidable(seen[c], asked[c]) /\ Save(c, Decided(seen[c], asked[c]))
    BY <1>3 DEF SaveDecision
  <2> QED
    BY <2>1, <2>2, DecidedConsistent, SaveKeeps
<1>4. ASSUME NEW c \in Reporters, SaveOutcome(c)
      PROVE  ConsistencyInv'
  <2>1. c \in Callers /\ seen[c] \in TwinRun /\ Consistent(seen[c]) /\ asked[c] \in Outcome
    BY <1>4 DEF SaveOutcome, ConsistencyInv, TypeOK, ReadsAreConsistent, Callers
  <2>2. Reportable(seen[c], asked[c]) /\ Save(c, Reported(seen[c], asked[c]))
    BY <1>4 DEF SaveOutcome
  <2> QED
    BY <2>1, <2>2, ReportedConsistent, SaveKeeps
<1> USE DEF ConsistencyInv, TypeOK, RecordIsConsistent, ReadsAreConsistent, Moves,
            InFlight
<1>5. ASSUME NEW c \in Reviewers, RefuseDecision(c)
      PROVE  ConsistencyInv'
  BY <1>5 DEF RefuseDecision, Callers
<1>6. ASSUME NEW c \in Reporters, RefuseOutcome(c)
      PROVE  ConsistencyInv'
  BY <1>6 DEF RefuseOutcome, Callers
<1>7. ASSUME NEW c \in Callers, AppendAudit(c)
      PROVE  ConsistencyInv'
  <2>1. PICK o \in Outcomes : /\ audited' = Effect(o, audited, audited \cup {c})
                              /\ Moves(c, Reply(o, "audited", "raised"))
    BY <1>7 DEF AppendAudit
  <2> QED
    BY <1>7, <2>1 DEF AppendAudit, Effect, Reply
<1>8. ASSUME NEW c \in Callers, AppendEvent(c)
      PROVE  ConsistencyInv'
  <2>1. PICK o \in Outcomes : /\ events' = Effect(o, events, events \cup {c})
                              /\ Moves(c, Reply(o, "done", "raised"))
    BY <1>8 DEF AppendEvent
  <2> QED
    BY <1>8, <2>1 DEF AppendEvent, Effect, Reply
<1>9. CASE Crash
  BY <1>9 DEF Crash
<1>10. CASE UNCHANGED vars
  BY <1>10 DEF vars
<1> QED
  BY <1>1, <1>2, <1>3, <1>4, <1>5, <1>6, <1>7, <1>8, <1>9, <1>10 DEF Next

LEMMA ConsistencyInvariant == Spec => []ConsistencyInv
BY ConsistencyInit, ConsistencyStep, PTL DEF Spec

\* With no lock, whatever overlaps, raises or crashes, the stored run is
\* consistent: each option has the status its one decision gave it, nothing
\* the critic rejected is approved, and outcomes, lessons and the run's
\* status agree with the decisions.
THEOREM RecordStaysConsistent == Spec => []RecordIsConsistent
<1>1. ConsistencyInv => RecordIsConsistent
  BY DEF ConsistencyInv
<1> QED
  BY <1>1, ConsistencyInvariant, PTL

-----------------------------------------------------------------------------
(* Calls that do not overlap.                                              *)

\* A call that begins alone reads the record that is stored, and no other
\* call touches it before it has saved.
LEMMA ReadsStayCurrent == SerialInv /\ [Next]_vars => SerialReadsAreCurrent'
<1> SUFFICES ASSUME SerialInv, [Next]_vars, ~overlapped'
             PROVE  SerialReadsAreCurrent'
  BY DEF SerialReadsAreCurrent
<1>0. ~overlapped
  BY DEF Next, ReadForDecision, ReadForOutcome, Read, RefuseDecision,
         RefuseOutcome, SaveDecision, SaveOutcome, Save, AppendAudit,
         AppendEvent, Crash, vars
<1> USE <1>0
<1> USE DEF SerialInv, SerialReadsAreCurrent, ConsistencyInv, TypeOK, InFlight
<1>1. ASSUME NEW c \in Callers, Read(c)
      PROVE  SerialReadsAreCurrent'
  <2>1. PICK o \in Outcomes :
          /\ seen' = [seen EXCEPT ![c] = IF o = "ok" THEN run ELSE None]
          /\ Moves(c, Reply(o, "read", "raised"))
    BY <1>1 DEF Read
  <2>2. UNCHANGED run /\ \A d \in Callers : pc[d] # "read"
    BY <1>1 DEF Read
  <2>3. /\ \A d \in Callers \ {c} : pc'[d] # "read"
        /\ pc'[c] = "read" => seen'[c] = run
    BY <2>1, <2>2 DEF Moves, Reply
  <2> QED
    BY <2>2, <2>3
<1>2. ASSUME NEW c \in Callers, NEW record, pc[c] = "read", Save(c, record)
      PROVE  SerialReadsAreCurrent'
  <2>1. PICK o \in Outcomes : Moves(c, Reply(o, "saved", "raised"))
    BY <1>2 DEF Save
  <2>2. /\ \A d \in Callers \ {c} : pc'[d] = pc[d] /\ pc[d] # "read"
        /\ pc'[c] # "read"
    BY <1>2, <2>1 DEF Moves, Reply
  <2> QED
    BY <2>2
<1>3. ASSUME NEW c \in Callers, pc[c] \in InFlight, UNCHANGED <<run, seen>>,
             NEW to \in {"audited", "done", "raised"}, Moves(c, to)
      PROVE  SerialReadsAreCurrent'
  <2>1. /\ \A d \in Callers \ {c} : pc'[d] = pc[d]
        /\ pc'[c] # "read"
    BY <1>3 DEF Moves
  <2> QED
    BY <1>3, <2>1
<1>4. ASSUME NEW c \in Callers, AppendAudit(c)
      PROVE  SerialReadsAreCurrent'
  <2>1. PICK o \in Outcomes : Moves(c, Reply(o, "audited", "raised"))
    BY <1>4 DEF AppendAudit
  <2>2. Reply(o, "audited", "raised") \in {"audited", "done", "raised"}
    BY DEF Reply
  <2>3. pc[c] \in InFlight /\ UNCHANGED <<run, seen>>
    BY <1>4 DEF AppendAudit
  <2> QED
    BY <1>3, <2>1, <2>2, <2>3
<1>5. ASSUME NEW c \in Callers, AppendEvent(c)
      PROVE  SerialReadsAreCurrent'
  <2>1. PICK o \in Outcomes : Moves(c, Reply(o, "done", "raised"))
    BY <1>5 DEF AppendEvent
  <2>2. Reply(o, "done", "raised") \in {"audited", "done", "raised"}
    BY DEF Reply
  <2>3. pc[c] \in InFlight /\ UNCHANGED <<run, seen>>
    BY <1>5 DEF AppendEvent
  <2> QED
    BY <1>3, <2>1, <2>2, <2>3
<1>6. ASSUME NEW c \in Callers, RefuseDecision(c) \/ RefuseOutcome(c)
      PROVE  SerialReadsAreCurrent'
  <2>1. pc[c] \in InFlight /\ UNCHANGED <<run, seen>> /\ Moves(c, "raised")
    BY <1>6 DEF RefuseDecision, RefuseOutcome
  <2> QED
    BY <1>3, <2>1
<1>7. CASE Crash
  BY <1>7 DEF Crash
<1>8. CASE UNCHANGED vars
  BY <1>8 DEF vars
<1> QED
  BY <1>1, <1>2, <1>4, <1>5, <1>6, <1>7, <1>8
     DEF Next, Callers, ReadForDecision, ReadForOutcome, SaveDecision, SaveOutcome

-----------------------------------------------------------------------------
(* The ledgers.                                                            *)

\* Without overlap a save adds its own call to those recorded.
LEMMA SaveRecords ==
  ASSUME SerialInv, ~overlapped, NEW c \in Callers,
         \/ c \in Reviewers /\ SaveDecision(c)
         \/ c \in Reporters /\ SaveOutcome(c)
  PROVE  /\ pc[c] = "read" /\ UNCHANGED <<audited, events, overlapped>>
         /\ \A d \in Callers \ {c} : pc'[d] = pc[d]
         /\ \/ pc'[c] = "raised" /\ run' = run
            \/ /\ pc'[c] \in {"saved", "raised"}
               /\ \A d \in Callers : Recorded(d)' <=> Recorded(d) \/ d = c
<1>1. PICK record : /\ pc[c] = "read" /\ Save(c, record)
                    /\ \/ c \in Reviewers /\ record = Decided(run, asked[c])
                       \/ c \in Reporters /\ record = Reported(run, asked[c])
  BY DEF SaveDecision, SaveOutcome, SerialInv, SerialReadsAreCurrent
<1>2. asked[c].by = c
  BY <1>1 DEF SerialInv, ConsistencyInv, ReadsAreConsistent, Callers
<1>3. \/ /\ record.decisions = run.decisions \cup {asked[c]}
         /\ record.outcomes = run.outcomes
      \/ /\ record.decisions = run.decisions
         /\ record.outcomes = run.outcomes \cup {asked[c]}
  BY <1>1 DEF Decided, Reported
<1>4. PICK o \in Outcomes : /\ run' = Effect(o, run, record)
                            /\ Moves(c, Reply(o, "saved", "raised"))
  BY <1>1 DEF Save
<1>5. /\ UNCHANGED <<audited, events, overlapped>>
      /\ \A d \in Callers \ {c} : pc'[d] = pc[d]
      /\ pc'[c] = Reply(o, "saved", "raised")
  BY <1>1, <1>4 DEF Save, Moves, SerialInv, ConsistencyInv, TypeOK
<1>6. CASE run' = record
  <2>1. \A d \in Callers : Recorded(d)' <=> Recorded(d) \/ d = c
    BY <1>2, <1>3, <1>6 DEF Recorded
  <2>. QED  BY <1>1, <1>5, <2>1 DEF Reply
<1>7. CASE run' = run /\ o = "unsent"
  BY <1>1, <1>5, <1>7 DEF Reply
<1>. QED  BY <1>4, <1>6, <1>7 DEF Effect

LEMMA LedgersStep ==
  ASSUME SerialInv, [Next]_vars
  PROVE  EventsFollowAudit' /\ AuditedAreLogged' /\ LedgersFollowCalls'
<1>. DEFINE Kept == EventsFollowAudit' /\ AuditedAreLogged' /\ LedgersFollowCalls'
<1>1. /\ EventsFollowAudit /\ AuditedAreLogged /\ LedgersFollowCalls
      /\ pc \in [Callers -> {"idle", "done", "raised", "dead"} \cup InFlight]
      /\ audited \subseteq Callers /\ events \subseteq Callers
  BY DEF SerialInv, ConsistencyInv, TypeOK
<1>. USE DEF EventsFollowAudit, AuditedAreLogged, LedgersFollowCalls
<1>2. ASSUME NEW c \in Callers, Read(c) PROVE Kept
  <2>1. PICK o \in Outcomes : Moves(c, Reply(o, "read", "raised"))
    BY <1>2 DEF Read
  <2>2. /\ pc[c] = "idle" /\ pc'[c] \in {"read", "raised"}
        /\ \A d \in Callers \ {c} : pc'[d] = pc[d]
        /\ UNCHANGED <<run, audited, events>> /\ (overlapped => overlapped')
    BY <1>1, <1>2, <2>1 DEF Read, Moves, Reply
  <2>. QED  BY <1>1, <2>2 DEF Recorded
<1>3. ASSUME NEW c \in Callers,
             \/ c \in Reviewers /\ SaveDecision(c)
             \/ c \in Reporters /\ SaveOutcome(c)
      PROVE  Kept
  <2>1. CASE overlapped
    <3>1. PICK record : pc[c] = "read" /\ Save(c, record)
      BY <1>3 DEF SaveDecision, SaveOutcome
    <3>2. PICK o \in Outcomes : Moves(c, Reply(o, "saved", "raised"))
      BY <3>1 DEF Save
    <3>3. /\ UNCHANGED <<audited, events, overlapped>>
          /\ \A d \in Callers \ {c} : pc'[d] = pc[d]
          /\ pc'[c] # "audited"
      BY <1>1, <3>1, <3>2 DEF Save, Moves, Reply
    <3>. QED  BY <1>1, <2>1, <3>3
  <2>2. CASE ~overlapped
    <3>1. /\ pc[c] = "read" /\ UNCHANGED <<audited, events, overlapped>>
          /\ \A d \in Callers \ {c} : pc'[d] = pc[d]
          /\ \/ pc'[c] = "raised" /\ run' = run
             \/ /\ pc'[c] \in {"saved", "raised"}
                /\ \A d \in Callers : Recorded(d)' <=> Recorded(d) \/ d = c
      BY <1>3, <2>2, SaveRecords
    <3>2. EventsFollowAudit' /\ AuditedAreLogged'
      BY <1>1, <3>1
    <3>3. CASE pc'[c] = "raised" /\ run' = run
      BY <1>1, <2>2, <3>1, <3>2, <3>3 DEF Recorded
    <3>4. CASE /\ pc'[c] \in {"saved", "raised"}
               /\ \A d \in Callers : Recorded(d)' <=> Recorded(d) \/ d = c
      BY <1>1, <2>2, <3>1, <3>2, <3>4
    <3>. QED  BY <3>1, <3>3, <3>4
  <2>. QED  BY <2>1, <2>2
<1>4. ASSUME NEW c \in Callers, RefuseDecision(c) \/ RefuseOutcome(c) PROVE Kept
  <2>1. /\ pc'[c] = "raised" /\ UNCHANGED <<run, audited, events, overlapped>>
        /\ \A d \in Callers \ {c} : pc'[d] = pc[d]
    BY <1>1, <1>4 DEF RefuseDecision, RefuseOutcome, Moves
  <2>. QED  BY <1>1, <2>1 DEF Recorded
<1>5. ASSUME NEW c \in Callers, AppendAudit(c) PROVE Kept
  <2>1. PICK o \in Outcomes : /\ audited' = Effect(o, audited, audited \cup {c})
                              /\ Moves(c, Reply(o, "audited", "raised"))
    BY <1>5 DEF AppendAudit
  <2>2. /\ pc[c] = "saved" /\ UNCHANGED <<run, events, overlapped>>
        /\ audited' \in {audited, audited \cup {c}}
        /\ pc'[c] \in {"audited", "raised"} /\ (pc'[c] = "audited" => c \in audited')
        /\ \A d \in Callers \ {c} : pc'[d] = pc[d]
    BY <1>1, <1>5, <2>1 DEF AppendAudit, Moves, Effect, Reply
  <2>. QED  BY <1>1, <2>2 DEF Recorded
<1>6. ASSUME NEW c \in Callers, AppendEvent(c) PROVE Kept
  <2>1. PICK o \in Outcomes : /\ events' = Effect(o, events, events \cup {c})
                              /\ Moves(c, Reply(o, "done", "raised"))
    BY <1>6 DEF AppendEvent
  <2>2. /\ pc[c] = "audited" /\ UNCHANGED <<run, audited, overlapped>>
        /\ events' \in {events, events \cup {c}}
        /\ pc'[c] \in {"done", "raised"} /\ (pc'[c] = "done" => c \in events')
        /\ \A d \in Callers \ {c} : pc'[d] = pc[d]
    BY <1>1, <1>6, <2>1 DEF AppendEvent, Moves, Effect, Reply
  <2>. QED  BY <1>1, <2>2 DEF Recorded
<1>7. CASE Crash
  <2>1. /\ UNCHANGED <<run, audited, events, overlapped>>
        /\ \A d \in Callers : pc'[d] = pc[d] \/ pc'[d] = "dead"
    BY <1>7 DEF Crash
  <2>. QED  BY <1>1, <2>1 DEF Recorded
<1>8. CASE UNCHANGED vars
  BY <1>1, <1>8 DEF vars, Recorded
<1>. QED  BY <1>2, <1>3, <1>4, <1>5, <1>6, <1>7, <1>8
          DEF Next, Callers, ReadForDecision, ReadForOutcome

LEMMA SerialInvariant == Spec => []SerialInv
<1>1. Init => SerialInv
  <2>. SUFFICES ASSUME Init PROVE SerialInv
    OBVIOUS
  <2>1. SerialReadsAreCurrent /\ EventsFollowAudit /\ AuditedAreLogged
    BY DEF Init, SerialReadsAreCurrent, EventsFollowAudit, AuditedAreLogged
  <2>2. LedgersFollowCalls
    BY DEF Init, LedgersFollowCalls, Recorded
  <2>. QED  BY <2>1, <2>2, ConsistencyInit DEF SerialInv
<1>2. SerialInv /\ [Next]_vars => SerialInv'
  BY ConsistencyStep, ReadsStayCurrent, LedgersStep DEF SerialInv
<1>. QED  BY <1>1, <1>2, PTL DEF Spec

\* An update event is never ahead of its audit record, overlap or not.
THEOREM EventsComeAfter == Spec => []EventsFollowAudit
<1>1. SerialInv => EventsFollowAudit
  BY DEF SerialInv
<1>. QED  BY <1>1, SerialInvariant, PTL

\* Without overlap the audit log and the events tell of what the record
\* holds, and of all of it that no failed call left behind.
THEOREM LedgersStayTrue == Spec => []LedgersAgree
<1>1. SerialInv => LedgersAgree
  <2>. SUFFICES ASSUME SerialInv, ~overlapped PROVE LedgersAgree
    BY DEF LedgersAgree
  <2>1. /\ \A c \in Callers :
             pc[c] \in {"idle", "done", "raised", "dead", "read", "saved", "audited"}
        /\ audited \subseteq Callers
    BY DEF SerialInv, ConsistencyInv, TypeOK, InFlight
  <2>. QED  BY <2>1 DEF SerialInv, EventsFollowAudit, LedgersFollowCalls, LedgersAgree
<1>. QED  BY <1>1, SerialInvariant, PTL

-----------------------------------------------------------------------------
(* The history.                                                            *)

\* Only a save touches the record, and it adds to the copy it was given.
LEMMA StepGrows ==
  ASSUME SerialInv, [Next]_vars, ~overlapped
  PROVE  /\ run.decisions \subseteq run'.decisions
         /\ run.outcomes \subseteq run'.outcomes
<1> USE DEF SerialInv, SerialReadsAreCurrent
<1>1. ASSUME NEW c \in Reviewers, SaveDecision(c)
      PROVE  /\ run.decisions \subseteq run'.decisions
             /\ run.outcomes \subseteq run'.outcomes
  <2>1. run' = run \/ run' = Decided(run, asked[c])
    BY <1>1 DEF SaveDecision, Save, Effect, Callers
  <2> QED
    BY <2>1 DEF Decided, LessonOf
<1>2. ASSUME NEW c \in Reporters, SaveOutcome(c)
      PROVE  /\ run.decisions \subseteq run'.decisions
             /\ run.outcomes \subseteq run'.outcomes
  <2>1. run' = run \/ run' = Reported(run, asked[c])
    BY <1>2 DEF SaveOutcome, Save, Effect, Callers
  <2> QED
    BY <2>1 DEF Reported
<1>3. CASE UNCHANGED run
  BY <1>3
<1> QED
  BY <1>1, <1>2, <1>3
     DEF Next, ReadForDecision, ReadForOutcome, Read, RefuseDecision,
         RefuseOutcome, AppendAudit, AppendEvent, Crash, vars

\* As long as no call reads what another is about to overwrite, no decision
\* and no outcome ever leaves the record, whatever fails and wherever the
\* process stops.
THEOREM HistoryIsKept == Spec => HistoryOnlyGrows
<1>1. SerialInv /\ [Next]_vars =>
        [~overlapped => /\ run.decisions \subseteq run'.decisions
                        /\ run.outcomes \subseteq run'.outcomes]_run
  BY StepGrows
<1> QED
  BY <1>1, SerialInvariant, PTL DEF Spec, HistoryOnlyGrows
=============================================================================
