-------------------------- MODULE KillSwitchProofs --------------------------
(***************************************************************************)
(* For any calls, faults and crashes: the types of KillSwitch, that a      *)
(* score that begins while the switch is thrown stays out, that a score    *)
(* leaves its whole trail in the log, and that the switch stands where     *)
(* the last change it records has put it.                                  *)
(***************************************************************************)
EXTENDS KillSwitch, FiniteSetTheorems, TLAPS

\* A score leaves no record before it has looked at the switch.
Silent(s) == \A i \in 1 .. Len(log) : log[i].by # s

SilentAtFirst ==
  \A s \in Scorers : pc[s] \in {"idle", "begun", "blocking", "open"} => Silent(s)

ShutInv == TypeOK /\ SilentAtFirst /\ ShutStaysShut

\* What a call that audits does to the log and the control points.
LEMMA AuditsOne ==
  ASSUME TypeOK, NEW c \in Callers, NEW kind, NEW to, Audits(c, kind, to)
  PROVE  /\ \/ log' = log
            \/ log' = Append(log, [kind |-> kind, by |-> c])
         /\ Moves(c, to) \/ Moves(c, "raised")
         /\ mishaps' \in SUBSET Mishaps
BY DEF Audits, Effect, Reply, Note, Mishaps, TypeOK

\* A record of kind by c is one more record of the log's type.
LEMMA AppendsRecord ==
  ASSUME TypeOK, NEW rec \in Record, log' = Append(log, rec) \/ log' = log
  PROVE  /\ log' \in Seq(Record)
         /\ \A i \in 1 .. Len(log') :
              \/ i \in 1 .. Len(log) /\ log'[i] = log[i]
              \/ log'[i] = rec
<1>1. log \in Seq(Record)
  BY DEF TypeOK
<1>. QED  BY <1>1
-----------------------------------------------------------------------------
(* Types.                                                                  *)

\* A step of a call c that audits a record of its own, as every call but
\* three does.
LEMMA AuditTypes ==
  ASSUME TypeOK, NEW c \in Callers, NEW kind, NEW to,
         [kind |-> kind, by |-> c] \in Record, {to, "raised"} \subseteq Points,
         Audits(c, kind, to)
  PROVE  log' \in Seq(Record) /\ pc' \in [Callers -> Points] /\ mishaps' \in SUBSET Mishaps
<1>1. log' \in Seq(Record)
  BY AuditsOne, AppendsRecord
<1>2. pc' \in [Callers -> Points]
  BY AuditsOne DEF Moves, TypeOK
<1>. QED  BY <1>1, <1>2, AuditsOne

LEMMA RecordsOfScores ==
  ASSUME NEW s \in Scorers, NEW kind \in Kinds \ {Switch}
  PROVE  [kind |-> kind, by |-> s] \in Record
BY DEF Record

\* Each step keeps the types.
LEMMA TypesKept ==
  ASSUME TypeOK, [Next]_vars
  PROVE  TypeOK'
<1>. USE DEF Callers
<1>1. ASSUME NEW a \in Admins, SetFlag(a)
      PROVE  TypeOK'
  <2>1. PICK value \in BOOLEAN : /\ disabled' = value
                                /\ wanted' = [wanted EXCEPT ![a] = value]
                                /\ shut' = IF value THEN shut ELSE {}
    BY <1>1 DEF SetFlag
  <2>2. disabled' \in BOOLEAN
    BY <2>1
  <2>3. wanted' \in [Admins -> BOOLEAN]
    BY <2>1 DEF TypeOK
  <2>4. shut' \in SUBSET Scorers
    BY <2>1 DEF TypeOK
  <2>5. pc' \in [Callers -> Points] /\ mishaps' \in SUBSET Mishaps
    BY <1>1 DEF SetFlag, Moves, Note, Mishaps, TypeOK, Points, InFlight, AdminInFlight
  <2>. QED  BY <1>1, <2>2, <2>3, <2>4, <2>5 DEF SetFlag, trails, TypeOK
<1>2. ASSUME NEW a \in Admins, AuditSwitch(a)
      PROVE  TypeOK'
  <2>1. [kind |-> Switch, by |-> a] \in Record
    BY DEF Record
  <2>2. {"recorded", "raised"} \subseteq Points
    BY DEF Points, InFlight, AdminInFlight
  <2>3. log' \in Seq(Record) /\ pc' \in [Callers -> Points] /\ mishaps' \in SUBSET Mishaps
    BY <1>2, <2>1, <2>2, AuditTypes DEF AuditSwitch
  <2>. QED  BY <1>2, <2>3 DEF AuditSwitch, TypeOK
<1>3. ASSUME NEW a \in Admins, AppendSwitchEvent(a)
      PROVE  TypeOK'
  <2>1. PICK o \in Outcomes : /\ events' = Effect(o, events, Append(events, a))
                             /\ Moves(a, Reply(o, "changed", "raised"))
                             /\ Note("raised", o # "ok")
    BY <1>3 DEF AppendSwitchEvent
  <2>2. events' \in Seq(Admins)
    BY <2>1 DEF Effect, TypeOK
  <2>3. pc' \in [Callers -> Points]
    BY <2>1 DEF Moves, Reply, Points, TypeOK
  <2>4. mishaps' \in SUBSET Mishaps
    BY <2>1 DEF Note, Mishaps, TypeOK
  <2>. QED  BY <1>3, <2>2, <2>3, <2>4 DEF AppendSwitchEvent, TypeOK
<1>4. ASSUME NEW s \in Scorers, GatherContext(s)
      PROVE  TypeOK'
  <2>1. pc' \in [Callers -> Points] /\ shut' \in SUBSET Scorers
    BY <1>4 DEF GatherContext, Moves, Reply, Points, InFlight, TypeOK
  <2>. QED  BY <1>4, <2>1 DEF GatherContext, trails, TypeOK
<1>5. ASSUME NEW s \in Scorers, CheckSwitch(s)
      PROVE  TypeOK'
  <2>1. pc' \in [Callers -> Points]
    BY <1>5 DEF CheckSwitch, Moves, Points, InFlight, Admitted, TypeOK
  <2>. QED  BY <1>5, <2>1 DEF CheckSwitch, trails, TypeOK
<1>6. ASSUME NEW s \in Scorers, Refuse(s)
      PROVE  TypeOK'
  <2>1. {"blocked", "raised"} \subseteq Points
    BY DEF Points
  <2>2. log' \in Seq(Record) /\ pc' \in [Callers -> Points] /\ mishaps' \in SUBSET Mishaps
    BY <1>6, <2>1, AuditTypes, RecordsOfScores DEF Refuse, Kinds, Switch
  <2>. QED  BY <1>6, <2>2 DEF Refuse, TypeOK
<1>7. ASSUME NEW s \in Scorers, ReceiveScore(s)
      PROVE  TypeOK'
  <2>1. {"received", "raised"} \subseteq Points
    BY DEF Points, InFlight, Admitted
  <2>2. log' \in Seq(Record) /\ pc' \in [Callers -> Points] /\ mishaps' \in SUBSET Mishaps
    <3>1. CASE Audits(s, "score_request_received", "received")
      BY <3>1, <2>1, AuditTypes, RecordsOfScores DEF Kinds, Switch
    <3>2. CASE Moves(s, "raised") /\ UNCHANGED <<log, mishaps>>
      BY <3>2, <2>1 DEF Moves, TypeOK
    <3>. QED  BY <1>7, <3>1, <3>2 DEF ReceiveScore
  <2>. QED  BY <1>7, <2>2 DEF ReceiveScore, TypeOK
<1>8. ASSUME NEW s \in Scorers, AssessScore(s)
      PROVE  TypeOK'
  <2>1. {"assessed", "raised"} \subseteq Points
    BY DEF Points, InFlight, Admitted
  <2>2. log' \in Seq(Record) /\ pc' \in [Callers -> Points] /\ mishaps' \in SUBSET Mishaps
    <3>1. CASE Audits(s, "fairness_outcome", "assessed")
      BY <3>1, <2>1, AuditTypes, RecordsOfScores DEF Kinds, Switch
    <3>2. CASE Moves(s, "raised") /\ UNCHANGED <<log, mishaps>>
      BY <3>2, <2>1 DEF Moves, TypeOK
    <3>. QED  BY <1>8, <3>1, <3>2 DEF AssessScore
  <2>. QED  BY <1>8, <2>2 DEF AssessScore, TypeOK
<1>9. ASSUME NEW s \in Scorers, ReturnScore(s)
      PROVE  TypeOK'
  <2>1. {"returned", "raised"} \subseteq Points
    BY DEF Points, InFlight, Admitted
  <2>2. log' \in Seq(Record) /\ pc' \in [Callers -> Points] /\ mishaps' \in SUBSET Mishaps
    BY <1>9, <2>1, AuditTypes, RecordsOfScores DEF ReturnScore, Kinds, Switch
  <2>. QED  BY <1>9, <2>2 DEF ReturnScore, TypeOK
<1>10. ASSUME NEW s \in Scorers, RecordScoreSnapshot(s)
       PROVE  TypeOK'
  <2>1. pc' \in [Callers -> Points] /\ snapshots' \in SUBSET Scorers
    BY <1>10 DEF RecordScoreSnapshot, Effect, Moves, Reply, Points, TypeOK
  <2>. QED  BY <1>10, <2>1 DEF RecordScoreSnapshot, TypeOK
<1>11. CASE Crash
  <2>1. pc' \in [Callers -> Points]
    BY <1>11 DEF Crash, Points, TypeOK
  <2>2. disabled' \in BOOLEAN
    BY <1>11 DEF Crash
  <2>3. mishaps' \in SUBSET Mishaps
    BY <1>11 DEF Crash, Note, Mishaps, TypeOK
  <2>. QED  BY <1>11, <2>1, <2>2, <2>3 DEF Crash, trails, TypeOK
<1>12. CASE UNCHANGED vars
  BY <1>12 DEF vars, trails, TypeOK
<1>. QED
  BY <1>1, <1>2, <1>3, <1>4, <1>5, <1>6, <1>7, <1>8, <1>9, <1>10, <1>11, <1>12 DEF Next

LEMMA TypesAtFirst ==
  ASSUME Init
  PROVE  TypeOK
<1>1. disabled \in BOOLEAN
  BY DEF Init
<1>2. wanted \in [Admins -> BOOLEAN]
  BY DEF Init
<1>3. log \in Seq(Record) /\ events \in Seq(Admins)
  BY DEF Init
<1>4. pc \in [Callers -> Points]
  BY DEF Init, Points
<1>. QED  BY <1>1, <1>2, <1>3, <1>4 DEF Init, TypeOK

\* The variables keep their types: in particular the log holds changes of the
\* switch by administrators and records of scores by scores, nothing else.
THEOREM TypeCorrect == Spec => []TypeOK
BY TypesAtFirst, TypesKept, PTL DEF Spec

-----------------------------------------------------------------------------
(* The switch.                                                             *)

\* A step that writes no record and admits nobody.
LEMMA QuietStep ==
  ASSUME ShutInv, log' = log,
         \A s \in Scorers : \/ pc'[s] = pc[s]
                            \/ /\ pc[s] \in {"idle", "begun"}
                               /\ pc'[s] \in {"begun", "blocking", "raised"}
                            \/ pc'[s] \in {"raised", "dead"}
  PROVE  /\ SilentAtFirst'
         /\ \A s \in shut : /\ pc'[s] \notin Admitted
                            /\ \A i \in 1 .. Len(log') :
                                 log'[i].by = s => log'[i].kind \in {Refusal[1]}
<1>1. SilentAtFirst'
  BY DEF ShutInv, SilentAtFirst, Silent
<1>2. ASSUME NEW s \in shut
      PROVE  pc'[s] \notin Admitted
  BY <1>2 DEF ShutInv, ShutStaysShut, Admitted, TypeOK
<1>3. ASSUME NEW s \in shut
      PROVE  \A i \in 1 .. Len(log') : log'[i].by = s => log'[i].kind \in {Refusal[1]}
  BY <1>3 DEF ShutInv, ShutStaysShut
<1>. QED  BY <1>1, <1>2, <1>3

\* A step of a call t that writes one record of kind, when the call is an
\* administrator's, or a score past the switch, or one that is refused.
LEMMA RecordingStep ==
  ASSUME ShutInv, NEW t \in Callers, NEW kind, NEW to,
         \/ log' = log
         \/ log' = Append(log, [kind |-> kind, by |-> t]),
         [kind |-> kind, by |-> t] \in Record,
         \/ t \in Admins
         \/ /\ to \in Admitted \ {"open"}
            /\ pc[t] \in Admitted
         \/ to = "blocked" /\ kind = Refusal[1],
         Moves(t, to) \/ Moves(t, "raised"),
         UNCHANGED <<disabled, shut>>
  PROVE  SilentAtFirst' /\ ShutStaysShut'
<1>. DEFINE rec == [kind |-> kind, by |-> t]
<1>1. \A i \in 1 .. Len(log') : \/ i \in 1 .. Len(log) /\ log'[i] = log[i]
                               \/ log'[i] = rec
  BY AppendsRecord DEF ShutInv
<1>2. \A c \in Callers \ {t} : pc'[c] = pc[c]
  BY DEF Moves, ShutInv, TypeOK
<1>3. t \in Scorers => pc'[t] \in {to, "raised"}
  BY DEF Moves, ShutInv, TypeOK
<1>4. ASSUME NEW s \in Scorers, pc'[s] \in {"idle", "begun", "blocking", "open"}
      PROVE  Silent(s)'
  <2>1. s # t
    BY <1>3, <1>4, CallersAssumption DEF Admitted
  <2>2. Silent(s)
    BY <1>2, <1>4, <2>1 DEF Callers, ShutInv, SilentAtFirst
  <2>. QED  BY <1>1, <2>1, <2>2 DEF Silent
<1>5. ASSUME NEW s \in shut
      PROVE  /\ disabled
             /\ pc'[s] \notin Admitted
             /\ \A i \in 1 .. Len(log') :
                  log'[i].by = s => log'[i].kind \in {Refusal[1]}
  <2>1. /\ disabled
        /\ pc[s] \notin Admitted
        /\ \A i \in 1 .. Len(log) : log[i].by = s => log[i].kind \in {Refusal[1]}
        /\ s \in Scorers
    BY <1>5 DEF ShutInv, ShutStaysShut, TypeOK
  <2>2. CASE s # t
    BY <1>1, <1>2, <2>1, <2>2 DEF Callers
  <2>3. CASE s = t
    <3>1. to = "blocked" /\ kind = Refusal[1]
      BY <2>1, <2>3, CallersAssumption
    <3>. QED  BY <1>1, <1>3, <2>1, <2>3, <3>1 DEF Admitted
  <2>. QED  BY <2>2, <2>3
<1>. QED  BY <1>4, <1>5 DEF SilentAtFirst, ShutStaysShut

\* Each step keeps the invariant.
LEMMA ShutInvKept ==
  ASSUME ShutInv, [Next]_vars
  PROVE  ShutInv'
<1>. SUFFICES SilentAtFirst' /\ ShutStaysShut'
  BY TypesKept DEF ShutInv
<1>. USE DEF Callers
<1>1. ASSUME NEW a \in Admins, SetFlag(a)
      PROVE  SilentAtFirst' /\ ShutStaysShut'
  <2>1. log' = log /\ \A s \in Scorers : pc'[s] = pc[s]
    BY <1>1, CallersAssumption DEF SetFlag, trails, Moves, ShutInv, TypeOK
  <2>2. shut' = {} \/ (shut' = shut /\ disabled')
    BY <1>1 DEF SetFlag
  <2>. QED  BY <2>1, <2>2, QuietStep DEF ShutStaysShut
<1>2. ASSUME NEW a \in Admins, AuditSwitch(a)
      PROVE  SilentAtFirst' /\ ShutStaysShut'
  <2>1. [kind |-> Switch, by |-> a] \in Record
    BY DEF Record
  <2>2. TypeOK
    BY DEF ShutInv
  <2>. QED  BY <1>2, <2>1, <2>2, AuditsOne, RecordingStep DEF AuditSwitch
<1>3. ASSUME NEW a \in Admins, AppendSwitchEvent(a)
      PROVE  SilentAtFirst' /\ ShutStaysShut'
  <2>1. log' = log /\ \A s \in Scorers : pc'[s] = pc[s]
    BY <1>3, CallersAssumption DEF AppendSwitchEvent, Moves, ShutInv, TypeOK
  <2>. QED  BY <1>3, <2>1, QuietStep DEF AppendSwitchEvent, ShutInv, ShutStaysShut
<1>4. ASSUME NEW s \in Scorers, GatherContext(s)
      PROVE  SilentAtFirst' /\ ShutStaysShut'
  <2>1. /\ log' = log /\ disabled' = disabled
        /\ pc[s] = "idle" /\ pc'[s] \in {"begun", "raised"}
        /\ \A t \in Scorers \ {s} : pc'[t] = pc[t]
    BY <1>4 DEF GatherContext, trails, Moves, Reply, ShutInv, TypeOK
  <2>2. shut' = shut \/ (disabled /\ shut' = shut \cup {s})
    BY <1>4 DEF GatherContext
  <2>3. /\ SilentAtFirst'
        /\ \A t \in shut : /\ pc'[t] \notin Admitted
                           /\ \A i \in 1 .. Len(log') :
                                log'[i].by = t => log'[i].kind \in {Refusal[1]}
    BY <2>1, QuietStep
  <2>4. pc'[s] \notin Admitted /\ \A i \in 1 .. Len(log') : log'[i].by # s
    BY <2>1 DEF ShutInv, SilentAtFirst, Silent, Admitted
  <2>. QED  BY <2>1, <2>2, <2>3, <2>4 DEF ShutInv, ShutStaysShut
<1>5. ASSUME NEW s \in Scorers, CheckSwitch(s)
      PROVE  SilentAtFirst' /\ ShutStaysShut'
  <2>1. /\ log' = log /\ shut' = shut /\ disabled' = disabled
        /\ pc[s] = "begun" /\ pc'[s] = (IF disabled THEN "blocking" ELSE "open")
        /\ \A t \in Scorers \ {s} : pc'[t] = pc[t]
    BY <1>5 DEF CheckSwitch, trails, Moves, ShutInv, TypeOK
  <2>2. CASE disabled
    BY <2>1, <2>2, QuietStep DEF ShutInv, ShutStaysShut
  <2>3. CASE ~ disabled
    <3>1. shut' = {}
      BY <2>1, <2>3 DEF ShutInv, ShutStaysShut
    <3>2. SilentAtFirst'
      BY <2>1, <2>3 DEF ShutInv, SilentAtFirst, Silent
    <3>. QED  BY <3>1, <3>2 DEF ShutStaysShut
  <2>. QED  BY <2>2, <2>3
<1>6. ASSUME NEW s \in Scorers, Refuse(s)
      PROVE  SilentAtFirst' /\ ShutStaysShut'
  <2>1. [kind |-> Refusal[1], by |-> s] \in Record
    BY RecordsOfScores DEF Kinds, Switch, Refusal
  <2>2. Audits(s, Refusal[1], "blocked") /\ TypeOK
    BY <1>6 DEF Refuse, Refusal, ShutInv
  <2>. QED  BY <1>6, <2>1, <2>2, AuditsOne, RecordingStep DEF Refuse
<1>7. ASSUME NEW s \in Scorers, ReceiveScore(s)
      PROVE  SilentAtFirst' /\ ShutStaysShut'
  <2>1. [kind |-> "score_request_received", by |-> s] \in Record
    BY RecordsOfScores DEF Kinds, Switch
  <2>2. TypeOK /\ pc[s] \in Admitted /\ "received" \in Admitted \ {"open"}
    BY <1>7 DEF ReceiveScore, Admitted, ShutInv
  <2>. QED  BY <1>7, <2>1, <2>2, AuditsOne, RecordingStep DEF ReceiveScore
<1>8. ASSUME NEW s \in Scorers, AssessScore(s)
      PROVE  SilentAtFirst' /\ ShutStaysShut'
  <2>1. [kind |-> "fairness_outcome", by |-> s] \in Record
    BY RecordsOfScores DEF Kinds, Switch
  <2>2. TypeOK /\ pc[s] \in Admitted /\ "assessed" \in Admitted \ {"open"}
    BY <1>8 DEF AssessScore, Admitted, ShutInv
  <2>. QED  BY <1>8, <2>1, <2>2, AuditsOne, RecordingStep DEF AssessScore
<1>9. ASSUME NEW s \in Scorers, ReturnScore(s)
      PROVE  SilentAtFirst' /\ ShutStaysShut'
  <2>1. [kind |-> "recommendations_returned", by |-> s] \in Record
    BY RecordsOfScores DEF Kinds, Switch
  <2>2. TypeOK /\ pc[s] \in Admitted /\ "returned" \in Admitted \ {"open"}
    BY <1>9 DEF ReturnScore, Admitted, ShutInv
  <2>. QED  BY <1>9, <2>1, <2>2, AuditsOne, RecordingStep DEF ReturnScore
<1>10. ASSUME NEW s \in Scorers, RecordScoreSnapshot(s)
       PROVE  SilentAtFirst' /\ ShutStaysShut'
  <2>1. /\ UNCHANGED <<log, disabled, shut>>
        /\ pc[s] = "returned" /\ pc'[s] \in {"answered", "raised"}
        /\ \A t \in Scorers \ {s} : pc'[t] = pc[t]
    BY <1>10 DEF RecordScoreSnapshot, Moves, Reply, ShutInv, TypeOK
  <2>2. SilentAtFirst'
    BY <2>1 DEF ShutInv, SilentAtFirst, Silent
  <2>3. s \notin shut
    BY <2>1 DEF ShutInv, ShutStaysShut, Admitted
  <2>4. shut \subseteq Scorers
    BY DEF ShutInv, TypeOK
  <2>. QED  BY <2>1, <2>2, <2>3, <2>4 DEF ShutInv, ShutStaysShut
<1>11. CASE Crash
  <2>1. log' = log /\ shut' = {}
    BY <1>11 DEF Crash, trails
  <2>2. \A s \in Scorers : pc'[s] = pc[s] \/ pc'[s] = "dead"
    BY <1>11 DEF Crash
  <2>. QED  BY <2>1, <2>2, QuietStep DEF ShutStaysShut
<1>12. CASE UNCHANGED vars
  BY <1>12 DEF vars, trails, ShutInv, SilentAtFirst, Silent, ShutStaysShut
<1>. QED
  BY <1>1, <1>2, <1>3, <1>4, <1>5, <1>6, <1>7, <1>8, <1>9, <1>10, <1>11, <1>12 DEF Next

\* Whatever fails and whoever overlaps, a score that begins while the switch
\* is thrown gets past it only after the switch has been thrown back.
THEOREM ShutScoresStayOut == Spec => []ShutStaysShut
<1>1. Init => ShutInv
  <2>. SUFFICES ASSUME Init  PROVE ShutInv
    OBVIOUS
  <2>1. SilentAtFirst
    BY DEF Init, SilentAtFirst, Silent
  <2>2. ShutStaysShut
    BY DEF Init, ShutStaysShut
  <2>. QED  BY <2>1, <2>2, TypesAtFirst DEF ShutInv
<1>2. ShutInv => ShutStaysShut
  BY DEF ShutInv
<1>. QED  BY <1>1, <1>2, ShutInvKept, PTL DEF Spec

-----------------------------------------------------------------------------
(* Ranks in the log.                                                       *)

LEMMA RankIsANumber ==
  ASSUME NEW calls, NEW i \in Nat
  PROVE  IsFiniteSet(PlacesOf(calls, i)) /\ Rank(calls, i) \in Nat
<1>1. IsFiniteSet(1 .. i)
  BY FS_Interval
<1>2. PlacesOf(calls, i) \in SUBSET (1 .. i)
  BY DEF PlacesOf
<1>. QED  BY <1>1, <1>2, FS_Subset, FS_CardinalityType DEF Rank

\* An append leaves the ranks there are and adds one, after the last.
LEMMA RankNext ==
  ASSUME TypeOK, NEW rec, log' = Append(log, rec), NEW calls
  PROVE  /\ Len(log') = Len(log) + 1 /\ log'[Len(log')] = rec
         /\ \A i \in 1 .. Len(log) : /\ log'[i] = log[i]
                                    /\ Rank(calls, i)' = Rank(calls, i)
         /\ \A i : i = Len(log') => Rank(calls, i)' = Count(calls)'
         /\ Count(calls)' = IF rec.by \in calls THEN Count(calls) + 1 ELSE Count(calls)
<1>1. log \in Seq(Record) /\ Len(log) \in Nat
  BY DEF TypeOK
<1>2. /\ Len(log') = Len(log) + 1 /\ log'[Len(log) + 1] = rec
      /\ \A i \in 1 .. Len(log) : log'[i] = log[i]
  BY <1>1
<1>3. ASSUME NEW i \in 1 .. Len(log)
      PROVE  Rank(calls, i)' = Rank(calls, i)
  <2>1. PlacesOf(calls, i)' = PlacesOf(calls, i)
    BY <1>1, <1>2 DEF PlacesOf
  <2>. QED  BY <2>1 DEF Rank
<1>4. \A i : i = Len(log') => Rank(calls, i)' = Count(calls)'
  BY DEF Count, Rank, PlacesOf
<1>5. PlacesOf(calls, Len(log))' =
        IF rec.by \in calls THEN PlacesOf(calls, Len(log)) \cup {Len(log) + 1}
                            ELSE PlacesOf(calls, Len(log))
  <2>1. \A j \in 1 .. Len(log) + 1 : j \in 1 .. Len(log) \/ j = Len(log) + 1
    BY <1>1
  <2>2. PlacesOf(calls, Len(log))' = {j \in 1 .. Len(log) + 1 : log'[j].by \in calls}
    BY <1>2 DEF PlacesOf
  <2>. QED  BY <1>1, <1>2, <2>1, <2>2 DEF PlacesOf
<1>6. Len(log) + 1 \notin PlacesOf(calls, Len(log))
  BY <1>1 DEF PlacesOf
<1>7. IsFiniteSet(PlacesOf(calls, Len(log)))
  BY <1>1, RankIsANumber
<1>8. Cardinality(PlacesOf(calls, Len(log)) \cup {Len(log) + 1}) =
        Cardinality(PlacesOf(calls, Len(log))) + 1
  BY <1>6, <1>7, FS_AddElement
<1>9. Count(calls)' = IF rec.by \in calls THEN Count(calls) + 1 ELSE Count(calls)
  BY <1>5, <1>8 DEF Count, Rank
<1>. QED  BY <1>2, <1>3, <1>4, <1>9

LEMMA RanksStay ==
  ASSUME log' = log, NEW calls
  PROVE  /\ \A i \in 1 .. Len(log) : Rank(calls, i)' = Rank(calls, i)
         /\ Count(calls)' = Count(calls)
BY DEF Rank, PlacesOf, Count

LEMMA NothingTold ==
  ASSUME TypeOK, NEW s, Count({s}) = 0, NEW story
  PROVE  Silent(s) /\ Follows(s, story)
<1>1. Len(log) \in Nat
  BY DEF TypeOK
<1>2. PlacesOf({s}, Len(log)) = {}
  BY <1>1, RankIsANumber, FS_EmptySet DEF Count, Rank
<1>3. Silent(s)
  BY <1>2 DEF PlacesOf, Silent
<1>. QED  BY <1>3 DEF Silent, Follows

\* A record of another call changes nothing in what a call has told.
LEMMA OthersRecord ==
  ASSUME TypeOK, NEW s, NEW c \in Callers \ {s}, NEW kind, NEW story,
         log' = log \/ log' = Append(log, [kind |-> kind, by |-> c])
  PROVE  /\ Count({s})' = Count({s})
         /\ Follows(s, story) => Follows(s, story)'
<1>. DEFINE rec == [kind |-> kind, by |-> c]
<1>1. CASE log' = log
  BY <1>1, RanksStay DEF Follows
<1>2. CASE log' = Append(log, rec)
  <2>1. rec.by \notin {s} /\ Len(log) \in Nat
    BY DEF TypeOK
  <2>2. Count({s})' = Count({s})
    BY <1>2, <2>1, RankNext
  <2>3. \A i \in 1 .. Len(log') : log'[i].by = s => i \in 1 .. Len(log)
    BY <1>2, <2>1, RankNext
  <2>4. \A i \in 1 .. Len(log) : log'[i] = log[i] /\ Rank({s}, i)' = Rank({s}, i)
    BY <1>2, RankNext
  <2>. QED  BY <2>2, <2>3, <2>4 DEF Follows
<1>. QED  BY <1>1, <1>2

\* The next record of its story, if it is written, leaves a call in its story.
LEMMA StoryGoesOn ==
  ASSUME TypeOK, NEW s, NEW kind, NEW story, Len(story) \in Nat,
         Follows(s, story), Count({s}) < Len(story), kind = story[Count({s}) + 1],
         log' = log \/ log' = Append(log, [kind |-> kind, by |-> s])
  PROVE  /\ Follows(s, story)'
         /\ log' = Append(log, [kind |-> kind, by |-> s]) =>
              Count({s})' = Count({s}) + 1
<1>. DEFINE rec == [kind |-> kind, by |-> s]
<1>1. CASE log' = log
  <2>1. Follows(s, story)'
    BY <1>1, RanksStay DEF Follows
  <2>2. log' # Append(log, rec)
    BY <1>1 DEF TypeOK
  <2>. QED  BY <2>1, <2>2
<1>2. CASE log' = Append(log, rec)
  <2>0. rec.by \in {s} /\ rec.kind = kind /\ Len(log) \in Nat
    BY DEF TypeOK
  <2>1. Count({s})' = Count({s}) + 1 /\ Count({s}) \in Nat
    BY <1>2, <2>0, RankNext, RankIsANumber DEF Count
  <2>2. \A i \in 1 .. Len(log) : log'[i] = log[i] /\ Rank({s}, i)' = Rank({s}, i)
    BY <1>2, RankNext
  <2>3. /\ Len(log') = Len(log) + 1 /\ log'[Len(log')] = rec
        /\ \A i : i = Len(log') => Rank({s}, i)' = Count({s})'
    BY <1>2, RankNext
  <2>4. ASSUME NEW i \in 1 .. Len(log'), log'[i].by = s
        PROVE  /\ Rank({s}, i)' <= Len(story)
               /\ log'[i].kind = story[Rank({s}, i)']
    <3>1. CASE i \in 1 .. Len(log)
      BY <2>2, <2>4, <3>1 DEF Follows
    <3>2. CASE i = Len(log')
      <4>1. Rank({s}, i)' = Count({s}) + 1 /\ log'[i].kind = kind
        BY ONLY <2>0, <2>1, <2>3, <3>2
      <4>2. Count({s}) + 1 <= Len(story)
        BY <2>1
      <4>. QED  BY <4>1, <4>2
    <3>. QED  BY <2>0, <2>3, <3>1, <3>2
  <2>. QED  BY <2>1, <2>4 DEF Follows
<1>. QED  BY <1>1, <1>2

-----------------------------------------------------------------------------
(* The trail of a score.                                                   *)

\* What TraceInv says of one score.
Traced(s) ==
  /\ TracedSoFar(s)
  /\ pc[s] = "answered" => s \in snapshots
  /\ s \in snapshots => /\ pc[s] \in {"answered", "raised", "dead"}
                        /\ Follows(s, Trail) /\ Count({s}) = Len(Trail)

\* Whatever a score has come to, it has told the beginning of one story.
LEMMA OneStory ==
  ASSUME TypeOK, NEW s \in Scorers, TracedSoFar(s)
  PROVE  Follows(s, Trail) \/ Follows(s, Refusal)
<1>1. CASE Count({s}) = 0
  BY <1>1, NothingTold
<1>2. CASE Count({s}) # 0
  BY <1>2 DEF TracedSoFar
<1>. QED  BY <1>1, <1>2

\* A step of another call.
LEMMA TracedStays ==
  ASSUME TypeOK, NEW s \in Scorers, Traced(s),
         \/ log' = log
         \/ \E c \in Callers \ {s} : \E kind : log' = Append(log, [kind |-> kind, by |-> c]),
         pc'[s] = pc[s], s \in snapshots' <=> s \in snapshots
  PROVE  Traced(s)'
<1>1. /\ Count({s})' = Count({s})
      /\ \A story : Follows(s, story) => Follows(s, story)'
  <2>1. CASE log' = log
    BY <2>1, RanksStay DEF Follows
  <2>2. CASE \E c \in Callers \ {s} : \E kind : log' = Append(log, [kind |-> kind, by |-> c])
    BY <2>2, OthersRecord
  <2>. QED  BY <2>1, <2>2
<1>. QED  BY <1>1 DEF Traced, TracedSoFar

\* A score that ends in an error or with the process.
LEMMA TracedEnds ==
  ASSUME TypeOK, NEW s \in Scorers, Traced(s), log' = log,
         pc'[s] \in {"raised", "dead"}, snapshots' = snapshots
  PROVE  Traced(s)'
<1>1. Follows(s, Trail) \/ Follows(s, Refusal)
  BY OneStory DEF Traced
<1>2. /\ Count({s})' = Count({s})
      /\ Follows(s, Trail) => Follows(s, Trail)'
      /\ Follows(s, Refusal) => Follows(s, Refusal)'
  BY RanksStay DEF Follows
<1>. QED  BY <1>1, <1>2 DEF Traced, TracedSoFar

LEMMA Stories ==
  /\ Len(Trail) = 3 /\ Len(Refusal) = 1
  /\ Trail[1] = "score_request_received" /\ Trail[2] = "fairness_outcome"
  /\ Trail[3] = "recommendations_returned" /\ Refusal[1] = "score_request_blocked"
BY DEF Trail, Refusal

\* A step of a score that audits the next record of its story.
LEMMA TracedGoesOn ==
  ASSUME TypeOK, NEW s \in Scorers, Traced(s), NEW kind, NEW to,
         Audits(s, kind, to), snapshots' = snapshots, s \notin snapshots,
         \/ /\ Count({s}) = 0 /\ kind = Refusal[1] /\ to = "blocked"
         \/ /\ Count({s}) = 0 \/ Follows(s, Trail)
            /\ \/ Count({s}) = 0 /\ kind = Trail[1] /\ to = "received"
               \/ Count({s}) = 1 /\ kind = Trail[2] /\ to = "assessed"
               \/ Count({s}) = 2 /\ kind = Trail[3] /\ to = "returned"
  PROVE  Traced(s)'
<1>1. PICK o \in Outcomes :
        /\ log' = Effect(o, log, Append(log, [kind |-> kind, by |-> s]))
        /\ Moves(s, Reply(o, to, "raised"))
  BY DEF Audits
<1>2. pc'[s] = Reply(o, to, "raised")
  BY <1>1 DEF Moves, TypeOK, Callers
<1>3. /\ log' = log \/ log' = Append(log, [kind |-> kind, by |-> s])
      /\ o = "ok" => log' = Append(log, [kind |-> kind, by |-> s])
  BY <1>1 DEF Effect
<1>4. CASE Count({s}) = 0 /\ kind = Refusal[1] /\ to = "blocked"
  <2>1. Follows(s, Refusal)
    BY <1>4, NothingTold
  <2>2. Len(Refusal) \in Nat /\ Count({s}) < Len(Refusal) /\ kind = Refusal[Count({s}) + 1]
    BY <1>4, Stories
  <2>3. Follows(s, Refusal)'
    BY ONLY <1>3, <2>1, <2>2, TypeOK, StoryGoesOn
  <2>. QED  BY <1>2, <1>4, <2>3 DEF Traced, TracedSoFar, Reply
<1>5. CASE ~(kind = Refusal[1] /\ to = "blocked")
  <2>0. /\ Follows(s, Trail) /\ Count({s}) \in {0, 1, 2} /\ kind = Trail[Count({s}) + 1]
        /\ to = CASE Count({s}) = 0 -> "received" [] Count({s}) = 1 -> "assessed"
                  [] OTHER -> "returned"
    <3>1. Count({s}) = 0 => Follows(s, Trail)
      BY NothingTold
    <3>2. CASE Count({s}) = 0
      <4>1. kind = Trail[1] /\ to = "received"
        BY <1>5, <3>2
      <4>. QED  BY <3>1, <3>2, <4>1
    <3>3. CASE Count({s}) = 1
      BY <1>5, <3>3
    <3>4. CASE Count({s}) = 2
      BY <1>5, <3>4
    <3>. QED  BY <1>5, <3>2, <3>3, <3>4
  <2>1. Len(Trail) \in Nat /\ Count({s}) < Len(Trail)
    BY <2>0, Stories
  <2>2. /\ Follows(s, Trail)'
        /\ o = "ok" => Count({s})' = Count({s}) + 1
    BY ONLY <1>3, <2>0, <2>1, TypeOK, StoryGoesOn
  <2>3. CASE o = "ok"
    BY <1>2, <2>0, <2>2, <2>3 DEF Traced, TracedSoFar, Reply
  <2>4. CASE o # "ok"
    BY <1>2, <2>2, <2>4 DEF Traced, TracedSoFar, Reply
  <2>. QED  BY <2>3, <2>4
<1>. QED  BY <1>4, <1>5

LEMMA TraceStep ==
  ASSUME TypeOK, TraceInv, [Next]_vars
  PROVE  TraceInv'
<1>. USE DEF Callers
<1>1. \A s \in Scorers : Traced(s)
  BY DEF TraceInv, Traced
<1>2. SUFFICES \A s \in Scorers : Traced(s)'
  BY DEF TraceInv, Traced
<1>3. \A c \in Callers : \A to : Moves(c, to) =>
        pc'[c] = to /\ \A d \in Callers \ {c} : pc'[d] = pc[d]
  BY DEF Moves, TypeOK
\* The scores other than the call that moves.
<1>4. ASSUME NEW c \in Callers, NEW kind, NEW to,
             \/ log' = log
             \/ log' = Append(log, [kind |-> kind, by |-> c]),
             Moves(c, to) \/ Moves(c, "raised"),
             \A t \in Scorers \ {c} : t \in snapshots' <=> t \in snapshots
      PROVE  \A t \in Scorers \ {c} : Traced(t)'
  <2>1. \A t \in Scorers \ {c} : pc'[t] = pc[t]
    BY <1>3, <1>4
  <2>. QED  BY <1>1, <1>4, <2>1, TracedStays
<1>5. ASSUME NEW a \in Admins, SetFlag(a) \/ AppendSwitchEvent(a)
      PROVE  \A t \in Scorers : Traced(t)'
  <2>1. log' = log /\ snapshots' = snapshots
    BY <1>5 DEF SetFlag, AppendSwitchEvent, trails
  <2>2. \E to : Moves(a, to)
    BY <1>5 DEF SetFlag, AppendSwitchEvent
  <2>. QED  BY <1>4, <2>1, <2>2, CallersAssumption
<1>6. ASSUME NEW a \in Admins, AuditSwitch(a)
      PROVE  \A t \in Scorers : Traced(t)'
  <2>1. Audits(a, Switch, "recorded") /\ snapshots' = snapshots
    BY <1>6 DEF AuditSwitch
  <2>. QED  BY <1>4, <2>1, AuditsOne, CallersAssumption
<1>7. ASSUME NEW s \in Scorers, GatherContext(s) \/ CheckSwitch(s)
      PROVE  \A t \in Scorers : Traced(t)'
  <2>1. /\ log' = log /\ snapshots' = snapshots
        /\ pc[s] \in {"idle", "begun"}
        /\ \E to \in {"begun", "raised", "blocking", "open"} : Moves(s, to)
    BY <1>7 DEF GatherContext, CheckSwitch, trails, Reply
  <2>2. pc'[s] \in {"begun", "raised", "blocking", "open"}
    BY <1>3, <2>1
  <2>3. Traced(s)'
    <3>1. CASE pc'[s] = "raised"
      BY <1>1, <2>1, <3>1, TracedEnds
    <3>2. CASE pc'[s] # "raised"
      <4>1. Count({s})' = Count({s}) /\ Count({s}) = 0 /\ s \notin snapshots
        BY <1>1, <2>1, RanksStay DEF Traced, TracedSoFar
      <4>. QED  BY <2>1, <2>2, <3>2, <4>1 DEF Traced, TracedSoFar
    <3>. QED  BY <3>1, <3>2
  <2>. QED  BY <1>4, <2>1, <2>3
<1>8. ASSUME NEW s \in Scorers, NEW kind, NEW to, Audits(s, kind, to),
             snapshots' = snapshots, Traced(s)'
      PROVE  \A t \in Scorers : Traced(t)'
  BY <1>4, <1>8, AuditsOne
<1>9. ASSUME NEW s \in Scorers, Refuse(s)
      PROVE  \A t \in Scorers : Traced(t)'
  <2>1. /\ Audits(s, Refusal[1], "blocked") /\ snapshots' = snapshots
        /\ Count({s}) = 0 /\ s \notin snapshots
    BY <1>1, <1>9, Stories DEF Refuse, Traced, TracedSoFar
  <2>. QED  BY <1>1, <1>8, <2>1, TracedGoesOn
<1>10. ASSUME NEW s \in Scorers, Moves(s, "raised"), log' = log,
              snapshots' = snapshots
       PROVE  \A t \in Scorers : Traced(t)'
  BY <1>1, <1>3, <1>4, <1>10, TracedEnds
<1>11. ASSUME NEW s \in Scorers, ReceiveScore(s)
       PROVE  \A t \in Scorers : Traced(t)'
  <2>1. CASE Audits(s, "score_request_received", "received")
    <3>1. /\ Audits(s, Trail[1], "received") /\ snapshots' = snapshots
          /\ Count({s}) = 0 /\ s \notin snapshots
      BY <1>1, <1>11, <2>1, Stories DEF ReceiveScore, Traced, TracedSoFar
    <3>. QED  BY <1>1, <1>8, <3>1, TracedGoesOn
  <2>2. CASE Moves(s, "raised") /\ UNCHANGED <<log, mishaps>>
    BY <1>10, <1>11, <2>2 DEF ReceiveScore
  <2>. QED  BY <1>11, <2>1, <2>2 DEF ReceiveScore
<1>12. ASSUME NEW s \in Scorers, AssessScore(s)
       PROVE  \A t \in Scorers : Traced(t)'
  <2>1. CASE Audits(s, "fairness_outcome", "assessed")
    <3>1. /\ Audits(s, Trail[2], "assessed") /\ snapshots' = snapshots
          /\ Count({s}) = 1 /\ Follows(s, Trail) /\ s \notin snapshots
      BY <1>1, <1>12, <2>1, Stories DEF AssessScore, Traced, TracedSoFar
    <3>. QED  BY <1>1, <1>8, <3>1, TracedGoesOn
  <2>2. CASE Moves(s, "raised") /\ UNCHANGED <<log, mishaps>>
    BY <1>10, <1>12, <2>2 DEF AssessScore
  <2>. QED  BY <1>12, <2>1, <2>2 DEF AssessScore
<1>13. ASSUME NEW s \in Scorers, ReturnScore(s)
       PROVE  \A t \in Scorers : Traced(t)'
  <2>1. /\ Audits(s, Trail[3], "returned") /\ snapshots' = snapshots
        /\ Count({s}) = 2 /\ Follows(s, Trail) /\ s \notin snapshots
    BY <1>1, <1>13, Stories DEF ReturnScore, Traced, TracedSoFar
  <2>. QED  BY <1>1, <1>8, <2>1, TracedGoesOn
<1>14. ASSUME NEW s \in Scorers, RecordScoreSnapshot(s)
       PROVE  \A t \in Scorers : Traced(t)'
  <2>1. PICK o \in Outcomes :
          /\ snapshots' = Effect(o, snapshots, snapshots \cup {s})
          /\ Moves(s, Reply(o, "answered", "raised"))
    BY <1>14 DEF RecordScoreSnapshot
  <2>2. /\ log' = log /\ pc[s] = "returned"
        /\ Follows(s, Trail) /\ Count({s}) = 3
    BY <1>1, <1>14 DEF RecordScoreSnapshot, Traced, TracedSoFar
  <2>3. Follows(s, Trail)' /\ Count({s})' = 3
    BY <2>2, RanksStay DEF Follows
  <2>4. /\ pc'[s] \in {"answered", "raised"}
        /\ pc'[s] = "answered" => s \in snapshots'
        /\ \A t \in Scorers \ {s} : t \in snapshots' <=> t \in snapshots
    BY <1>3, <2>1 DEF Effect, Reply
  <2>5. Traced(s)'
    BY <2>3, <2>4, Stories DEF Traced, TracedSoFar
  <2>. QED  BY <1>4, <2>1, <2>2, <2>4, <2>5 DEF Reply
<1>15. CASE Crash
  <2>1. log' = log /\ snapshots' = snapshots
    BY <1>15 DEF Crash, trails
  <2>2. \A t \in Scorers : pc'[t] = pc[t] \/ pc'[t] = "dead"
    BY <1>15 DEF Crash
  <2>. QED  BY <1>1, <2>1, <2>2, TracedStays, TracedEnds
<1>16. CASE UNCHANGED vars
  BY <1>1, <1>16, TracedStays DEF vars, trails
<1>. QED
  BY <1>5, <1>6, <1>7, <1>9, <1>11, <1>12, <1>13, <1>14, <1>15, <1>16 DEF Next

\* The log tells of each score the beginning of one story, and the whole of it
\* where the score was answered, for any calls, faults and crashes.
THEOREM ScoresLeaveTheirTrail == Spec => []ScoresAreTraced
<1>1. Init => TraceInv
  <2>. SUFFICES ASSUME Init, NEW s \in Scorers  PROVE Traced(s)
    BY DEF TraceInv, Traced
  <2>1. PlacesOf({s}, Len(log)) = {}
    BY DEF Init, PlacesOf
  <2>2. Count({s}) = 0
    BY <2>1, FS_EmptySet DEF Count, Rank
  <2>. QED  BY <2>2 DEF Init, Traced, TracedSoFar, Callers
<1>2. TypeOK /\ TraceInv => ScoresAreTraced
  <2>. SUFFICES ASSUME TypeOK, TraceInv, NEW s \in Scorers
                PROVE  /\ Follows(s, Trail) \/ Follows(s, Refusal)
                       /\ pc[s] = "answered" => s \in snapshots
                       /\ s \in snapshots => Follows(s, Trail) /\ Count({s}) = Len(Trail)
    BY DEF ScoresAreTraced
  <2>. QED  BY OneStory DEF TraceInv
<1>. QED  BY <1>1, <1>2, TraceStep, TypeCorrect, PTL DEF Spec

-----------------------------------------------------------------------------
(* The changes of the switch.                                              *)

\* What SwitchInv says of a state without mishaps.
Recorded ==
  /\ \A a, b \in Admins : {pc[a], pc[b]} \subseteq AdminInFlight => a = b
  /\ \A a \in Admins : pc[a] = "set" => wanted[a] = disabled
  /\ (\A a \in Admins : pc[a] # "set") => disabled = LastSwitch
  /\ \A i \in PlacesOf(Admins, Len(log)) :
       \/ Rank(Admins, i) <= Len(events) /\ events[Rank(Admins, i)] = log[i].by
       \/ Rank(Admins, i) = Len(events) + 1 /\ pc[log[i].by] = "recorded"
  /\ Count(Admins) = IF \E a \in Admins : pc[a] = "recorded"
                     THEN Len(events) + 1 ELSE Len(events)

LEMMA ChangesOnly ==
  ASSUME TypeOK, NEW s \in Scorers, NEW kind \in Kinds \ {Switch},
         log' = log \/ log' = Append(log, [kind |-> kind, by |-> s]),
         wanted' = wanted
  PROVE  /\ LastSwitch' = LastSwitch
         /\ \A i \in PlacesOf(Admins, Len(log))' :
              /\ i \in PlacesOf(Admins, Len(log))
              /\ log'[i] = log[i] /\ Rank(Admins, i)' = Rank(Admins, i)
         /\ Count(Admins)' = Count(Admins)
<1>. DEFINE rec == [kind |-> kind, by |-> s]
<1>1. CASE log' = log
  BY <1>1, RanksStay DEF LastSwitch, PlacesOf
<1>2. CASE log' = Append(log, rec)
  <2>1. rec.by \notin Admins /\ rec.kind # Switch /\ Len(log) \in Nat
    BY CallersAssumption DEF TypeOK
  <2>2. /\ Len(log') = Len(log) + 1 /\ log'[Len(log')] = rec
        /\ \A i \in 1 .. Len(log) : /\ log'[i] = log[i]
                                    /\ Rank(Admins, i)' = Rank(Admins, i)
        /\ Count(Admins)' = Count(Admins)
    BY <1>2, <2>1, RankNext
  <2>3. \A i \in 1 .. Len(log') : i \in 1 .. Len(log) \/ (i = Len(log') /\ log'[i] = rec)
    BY <2>1, <2>2
  <2>4. LastSwitch' = LastSwitch
    <3>1. ASSUME LastSwitch  PROVE LastSwitch'
      <4>1. PICK i \in 1 .. Len(log) :
              /\ log[i].kind = Switch /\ wanted[log[i].by]
              /\ \A j \in i + 1 .. Len(log) : log[j].kind # Switch
        BY <3>1 DEF LastSwitch
      <4>2. \A j \in i + 1 .. Len(log') : log'[j].kind # Switch
        BY <2>1, <2>2, <2>3, <4>1
      <4>. QED  BY <2>1, <2>2, <4>1, <4>2 DEF LastSwitch
    <3>2. ASSUME LastSwitch'  PROVE LastSwitch
      <4>1. PICK i \in 1 .. Len(log') :
              /\ log'[i].kind = Switch /\ wanted[log'[i].by]
              /\ \A j \in i + 1 .. Len(log') : log'[j].kind # Switch
        BY <3>2 DEF LastSwitch
      <4>2. i \in 1 .. Len(log) /\ log'[i] = log[i]
        BY <2>1, <2>2, <2>3, <4>1
      <4>3. \A j \in i + 1 .. Len(log) : log[j].kind # Switch
        BY <2>1, <2>2, <4>1, <4>2
      <4>. QED  BY <4>1, <4>2, <4>3 DEF LastSwitch
    <3>3. LastSwitch \in BOOLEAN /\ LastSwitch' \in BOOLEAN
      BY DEF LastSwitch
    <3>. QED  BY <3>1, <3>2, <3>3
  <2>5. \A i \in PlacesOf(Admins, Len(log))' : i \in PlacesOf(Admins, Len(log))
    BY <2>1, <2>2, <2>3 DEF PlacesOf
  <2>6. PlacesOf(Admins, Len(log)) \subseteq 1 .. Len(log)
    BY DEF PlacesOf
  <2>. QED  BY <2>2, <2>4, <2>5, <2>6
<1>. QED  BY <1>1, <1>2

\* A step that changes nothing administrators look at or write.
LEMMA RecordedStays ==
  ASSUME Recorded,
         LastSwitch' = LastSwitch, disabled' = disabled, wanted' = wanted,
         events' = events,
         \A a \in Admins : pc'[a] = pc[a] \/ {pc[a], pc'[a]} \cap AdminInFlight = {},
         \A i \in PlacesOf(Admins, Len(log))' :
           /\ i \in PlacesOf(Admins, Len(log))
           /\ log'[i] = log[i] /\ Rank(Admins, i)' = Rank(Admins, i),
         Count(Admins)' = Count(Admins)
  PROVE  Recorded'
<1>0. \A a \in Admins : \/ pc'[a] = pc[a]
                        \/ /\ pc[a] \notin {"set", "recorded"}
                           /\ pc'[a] \notin {"set", "recorded"}
  BY DEF AdminInFlight
<1>1. /\ \A a, b \in Admins : {pc'[a], pc'[b]} \subseteq AdminInFlight => a = b
      /\ \A a \in Admins : pc'[a] = "set" => wanted'[a] = disabled'
      /\ (\A a \in Admins : pc'[a] # "set") => disabled' = LastSwitch'
  BY <1>0 DEF Recorded, AdminInFlight
<1>2. \A i \in PlacesOf(Admins, Len(log)) : log[i].by \in Admins
  BY DEF PlacesOf
<1>3. \A i \in PlacesOf(Admins, Len(log))' :
        \/ Rank(Admins, i)' <= Len(events') /\ events'[Rank(Admins, i)'] = log'[i].by
        \/ Rank(Admins, i)' = Len(events') + 1 /\ pc'[log'[i].by] = "recorded"
  BY <1>0, <1>2 DEF Recorded
<1>4. Count(Admins)' = IF \E a \in Admins : pc'[a] = "recorded"
                       THEN Len(events') + 1 ELSE Len(events')
  BY <1>0 DEF Recorded
<1>. QED  BY <1>1, <1>3, <1>4 DEF Recorded

\* The three writes of a change, while there is no mishap.
LEMMA ChangeStep ==
  ASSUME TypeOK, Recorded, mishaps = {}, mishaps' = {}, NEW a \in Admins,
         SetFlag(a) \/ AuditSwitch(a) \/ AppendSwitchEvent(a)
  PROVE  Recorded'
<1>. USE DEF Callers
<1>1. \A to : Moves(a, to) => pc'[a] = to /\ \A b \in Admins \ {a} : pc'[b] = pc[b]
  BY DEF Moves, TypeOK
<1>2. Len(log) \in Nat /\ Len(events) \in Nat
  BY DEF TypeOK
<1>3. \A i \in PlacesOf(Admins, Len(log)) : i \in 1 .. Len(log) /\ log[i].by \in Admins
  BY DEF PlacesOf
<1>4. CASE SetFlag(a)
  <2>1. \A b \in Admins : pc[b] \notin AdminInFlight
    BY <1>4 DEF SetFlag, Note
  <2>2. /\ wanted'[a] = disabled'
        /\ log' = log /\ events' = events
        /\ pc'[a] = "set" /\ \A b \in Admins \ {a} : pc'[b] = pc[b]
    BY <1>1, <1>4 DEF SetFlag, TypeOK, trails
  <2>3. \A b \in Admins : pc[b] \notin {"set", "recorded"}
    BY <2>1 DEF AdminInFlight
  <2>4. /\ PlacesOf(Admins, Len(log))' = PlacesOf(Admins, Len(log))
        /\ \A i \in 1 .. Len(log) : Rank(Admins, i)' = Rank(Admins, i)
        /\ Count(Admins)' = Count(Admins)
    BY <2>2, RanksStay DEF PlacesOf
  <2>5. \A i \in PlacesOf(Admins, Len(log))' :
          Rank(Admins, i)' <= Len(events') /\ events'[Rank(Admins, i)'] = log'[i].by
    BY <1>3, <2>2, <2>3, <2>4 DEF Recorded
  <2>6. Count(Admins)' = Len(events') /\ \A b \in Admins : pc'[b] # "recorded"
    BY <2>2, <2>3, <2>4 DEF Recorded
  <2>. QED  BY <2>2, <2>3, <2>5, <2>6 DEF Recorded, AdminInFlight
<1>5. CASE AuditSwitch(a)
  <2>. DEFINE rec == [kind |-> Switch, by |-> a]
  <2>1. PICK o \in Outcomes : /\ log' = Effect(o, log, Append(log, rec))
                             /\ Moves(a, Reply(o, "recorded", "raised"))
                             /\ Note("raised", a \in Admins /\ o # "ok")
    BY <1>5 DEF AuditSwitch, Audits
  <2>2. o = "ok"
    BY <2>1 DEF Note
  <2>3. log' = Append(log, rec) /\ pc'[a] = "recorded" /\ pc[a] = "set"
        /\ UNCHANGED <<disabled, events, wanted>>
        /\ \A b \in Admins \ {a} : pc'[b] = pc[b]
    BY <1>1, <1>5, <2>1, <2>2 DEF AuditSwitch, Effect, Reply
  <2>4. \A b \in Admins \ {a} : pc[b] \notin {"set", "recorded"}
    BY <2>3 DEF Recorded, AdminInFlight
  <2>5. rec.by \in Admins /\ rec.kind = Switch /\ rec.by = a
    OBVIOUS
  <2>6. /\ Len(log') = Len(log) + 1 /\ log'[Len(log')] = rec
        /\ \A i \in 1 .. Len(log) : /\ log'[i] = log[i]
                                    /\ Rank(Admins, i)' = Rank(Admins, i)
        /\ \A i : i = Len(log') => Rank(Admins, i)' = Count(Admins)'
        /\ Count(Admins)' = Count(Admins) + 1
    BY <2>3, <2>5, RankNext
  <2>7. Count(Admins) = Len(events)
    BY <2>3, <2>4 DEF Recorded
  <2>8. disabled' = LastSwitch'
    <3>1. wanted[a] = disabled
      BY <2>3 DEF Recorded
    <3>2. LastSwitch' = wanted[a]
      <4>1. \A j \in Len(log') + 1 .. Len(log') : FALSE
        BY <1>2, <2>6
      <4>2. wanted[a] => LastSwitch'
        BY <1>2, <2>3, <2>5, <2>6, <4>1 DEF LastSwitch
      <4>3. ASSUME LastSwitch'  PROVE wanted[a]
        <5>1. PICK i \in 1 .. Len(log') :
                /\ wanted'[log'[i].by]
                /\ \A j \in i + 1 .. Len(log') : log'[j].kind # Switch
          BY <4>3 DEF LastSwitch
        <5>2. i = Len(log')
          BY <1>2, <2>5, <2>6, <5>1
        <5>. QED  BY <2>3, <2>5, <2>6, <5>1, <5>2
      <4>4. LastSwitch' \in BOOLEAN /\ wanted[a] \in BOOLEAN
        BY DEF LastSwitch, TypeOK
      <4>. QED  BY <4>2, <4>3, <4>4
    <3>. QED  BY <2>3, <3>1, <3>2
  <2>9. ASSUME NEW i \in PlacesOf(Admins, Len(log))'
        PROVE  \/ Rank(Admins, i)' <= Len(events') /\ events'[Rank(Admins, i)'] = log'[i].by
               \/ Rank(Admins, i)' = Len(events') + 1 /\ pc'[log'[i].by] = "recorded"
    <3>1. i \in 1 .. Len(log') /\ log'[i].by \in Admins
      BY <2>9 DEF PlacesOf
    <3>2. CASE i \in 1 .. Len(log)
      <4>1. i \in PlacesOf(Admins, Len(log)) /\ log'[i] = log[i]
            /\ Rank(Admins, i)' = Rank(Admins, i)
        BY <2>6, <3>1, <3>2 DEF PlacesOf
      <4>2. pc[log[i].by] # "recorded"
        BY <1>3, <2>3, <2>4, <4>1
      <4>. QED  BY <2>3, <4>1, <4>2 DEF Recorded
    <3>3. CASE i = Len(log')
      BY <2>3, <2>5, <2>6, <2>7, <3>3
    <3>. QED  BY <1>2, <2>6, <3>1, <3>2, <3>3
  <2>10. Count(Admins)' = Len(events') + 1
    BY <2>3, <2>6, <2>7
  <2>. QED  BY <2>3, <2>4, <2>8, <2>9, <2>10 DEF Recorded, AdminInFlight
<1>6. CASE AppendSwitchEvent(a)
  <2>1. PICK o \in Outcomes : /\ events' = Effect(o, events, Append(events, a))
                             /\ Moves(a, Reply(o, "changed", "raised"))
                             /\ Note("raised", o # "ok")
    BY <1>6 DEF AppendSwitchEvent
  <2>2. o = "ok"
    BY <2>1 DEF Note
  <2>3. /\ events' = Append(events, a) /\ pc'[a] = "changed" /\ pc[a] = "recorded"
        /\ UNCHANGED <<disabled, log, wanted>>
        /\ \A b \in Admins \ {a} : pc'[b] = pc[b]
    BY <1>1, <1>6, <2>1, <2>2 DEF AppendSwitchEvent, Effect, Reply
  <2>4. \A b \in Admins \ {a} : pc[b] \notin {"set", "recorded"}
    BY <2>3 DEF Recorded, AdminInFlight
  <2>5. /\ Len(events') = Len(events) + 1 /\ events'[Len(events) + 1] = a
        /\ \A k \in 1 .. Len(events) : events'[k] = events[k]
    BY <2>3 DEF TypeOK
  <2>6. /\ PlacesOf(Admins, Len(log))' = PlacesOf(Admins, Len(log))
        /\ \A i \in 1 .. Len(log) : Rank(Admins, i)' = Rank(Admins, i)
        /\ Count(Admins)' = Count(Admins) /\ LastSwitch' = LastSwitch
    BY <2>3, RanksStay DEF PlacesOf, LastSwitch
  <2>7. ASSUME NEW i \in PlacesOf(Admins, Len(log))'
        PROVE  Rank(Admins, i)' <= Len(events') /\ events'[Rank(Admins, i)'] = log'[i].by
    <3>1. i \in PlacesOf(Admins, Len(log)) /\ log[i].by \in Admins /\ i \in 1 .. Len(log)
      BY <1>3, <2>6, <2>7
    <3>2. CASE Rank(Admins, i) = Len(events) + 1 /\ pc[log[i].by] = "recorded"
      BY <1>2, <2>3, <2>4, <2>5, <2>6, <3>1, <3>2
    <3>3. CASE Rank(Admins, i) <= Len(events) /\ events[Rank(Admins, i)] = log[i].by
      <4>1. Rank(Admins, i) \in Nat /\ Rank(Admins, i) # 0
        <5>1. i \in PlacesOf(Admins, i) /\ i \in Nat
          BY <3>1 DEF PlacesOf
        <5>. QED  BY <5>1, RankIsANumber, FS_EmptySet DEF Rank
      <4>. QED  BY <1>2, <2>3, <2>5, <2>6, <3>1, <3>3, <4>1
    <3>. QED  BY <3>1, <3>2, <3>3 DEF Recorded
  <2>8. Count(Admins)' = Len(events')
    BY <2>3, <2>5, <2>6, SMTT(30) DEF Recorded
  <2>. QED  BY <2>3, <2>4, <2>6, <2>7, <2>8 DEF Recorded, AdminInFlight
<1>. QED  BY <1>4, <1>5, <1>6

LEMMA SwitchStep ==
  ASSUME TypeOK, SwitchInv, [Next]_vars
  PROVE  SwitchInv'
<1>. USE DEF Callers
<1>. SUFFICES ASSUME mishaps' = {}  PROVE Recorded'
  BY DEF SwitchInv, Recorded
<1>1. ASSUME NEW a \in Admins, SetFlag(a) \/ AuditSwitch(a) \/ AppendSwitchEvent(a)
      PROVE  Recorded'
  <2>1. mishaps = {}
    BY <1>1 DEF SetFlag, AuditSwitch, Audits, AppendSwitchEvent, Note
  <2>. QED  BY <1>1, <2>1, ChangeStep DEF SwitchInv, Recorded
\* No step of a score is a mishap.
<1>2. ASSUME NEW s \in Scorers, NEW kind \in Kinds \ {Switch}, NEW to,
             log' = log \/ log' = Append(log, [kind |-> kind, by |-> s]),
             Moves(s, to) \/ Moves(s, "raised"),
             UNCHANGED <<disabled, events, wanted, mishaps>>
      PROVE  Recorded'
  <2>1. Recorded
    BY <1>2 DEF SwitchInv, Recorded
  <2>2. \A a \in Admins : pc'[a] = pc[a]
    BY <1>2, CallersAssumption DEF Moves, TypeOK
  <2>. QED  BY <1>2, <2>1, <2>2, ChangesOnly, RecordedStays
<1>3. ASSUME NEW s \in Scorers, NEW kind \in Kinds \ {Switch}, NEW to,
             Audits(s, kind, to), UNCHANGED <<disabled, events, wanted>>
      PROVE  Recorded'
  <2>1. mishaps' = mishaps
    BY <1>3, CallersAssumption DEF Audits, Note
  <2>. QED  BY <1>2, <1>3, <2>1, AuditsOne
<1>4. /\ "score_request_blocked" \in Kinds \ {Switch}
      /\ "score_request_received" \in Kinds \ {Switch}
      /\ "fairness_outcome" \in Kinds \ {Switch}
      /\ "recommendations_returned" \in Kinds \ {Switch}
  BY DEF Kinds, Switch
<1>5. ASSUME NEW s \in Scorers, \/ GatherContext(s) \/ CheckSwitch(s)
                                \/ RecordScoreSnapshot(s)
      PROVE  Recorded'
  <2>1. \E to : Moves(s, to)
    BY <1>5 DEF GatherContext, CheckSwitch, RecordScoreSnapshot
  <2>2. UNCHANGED <<log, disabled, events, wanted, mishaps>>
    BY <1>5 DEF GatherContext, CheckSwitch, RecordScoreSnapshot, trails
  <2>. QED  BY <1>2, <1>4, <2>1, <2>2
<1>6. ASSUME NEW s \in Scorers, \/ Refuse(s) \/ ReturnScore(s)
      PROVE  Recorded'
  BY <1>3, <1>4, <1>6 DEF Refuse, ReturnScore
<1>7. ASSUME NEW s \in Scorers, \/ ReceiveScore(s) \/ AssessScore(s)
      PROVE  Recorded'
  <2>1. UNCHANGED <<disabled, events, wanted>>
    BY <1>7 DEF ReceiveScore, AssessScore
  <2>2. CASE Moves(s, "raised") /\ UNCHANGED <<log, mishaps>>
    BY <1>2, <1>4, <2>1, <2>2
  <2>. QED  BY <1>3, <1>4, <1>7, <2>1, <2>2 DEF ReceiveScore, AssessScore
<1>8. CASE Crash
  <2>1. /\ mishaps = {} /\ ~disabled /\ disabled' = FALSE
        /\ \A a \in Admins : pc[a] \notin AdminInFlight
        /\ UNCHANGED <<log, events, wanted>>
    BY <1>8 DEF Crash, Note, trails
  <2>2. \A a \in Admins : pc'[a] = pc[a] \/ pc'[a] = "dead"
    BY <1>8 DEF Crash
  <2>3. \A a \in Admins : pc'[a] = pc[a] \/ {pc[a], pc'[a]} \cap AdminInFlight = {}
    BY <2>1, <2>2 DEF AdminInFlight
  <2>4. disabled' = disabled
    BY <2>1 DEF TypeOK
  <2>5. /\ \A i \in 1 .. Len(log) : Rank(Admins, i)' = Rank(Admins, i)
        /\ Count(Admins)' = Count(Admins) /\ LastSwitch' = LastSwitch
        /\ PlacesOf(Admins, Len(log))' = PlacesOf(Admins, Len(log))
    BY <2>1, RanksStay DEF PlacesOf, LastSwitch
  <2>6. \A i \in PlacesOf(Admins, Len(log))' :
          /\ i \in PlacesOf(Admins, Len(log))
          /\ log'[i] = log[i] /\ Rank(Admins, i)' = Rank(Admins, i)
    BY <2>1, <2>5 DEF PlacesOf
  <2>7. Recorded
    BY <2>1 DEF SwitchInv, Recorded
  <2>. QED  BY <2>1, <2>3, <2>4, <2>5, <2>6, <2>7, RecordedStays
<1>9. CASE UNCHANGED vars
  <2>1. Recorded /\ UNCHANGED <<log, events, wanted, disabled, pc>>
    BY <1>9 DEF SwitchInv, Recorded, vars, trails
  <2>2. /\ \A i \in 1 .. Len(log) : Rank(Admins, i)' = Rank(Admins, i)
        /\ Count(Admins)' = Count(Admins) /\ LastSwitch' = LastSwitch
        /\ PlacesOf(Admins, Len(log))' = PlacesOf(Admins, Len(log))
    BY <2>1, RanksStay DEF PlacesOf, LastSwitch
  <2>3. \A i \in PlacesOf(Admins, Len(log))' :
          /\ i \in PlacesOf(Admins, Len(log))
          /\ log'[i] = log[i] /\ Rank(Admins, i)' = Rank(Admins, i)
    BY <2>1, <2>2 DEF PlacesOf
  <2>. QED  BY <2>1, <2>2, <2>3, RecordedStays
<1>. QED  BY <1>1, <1>5, <1>6, <1>7, <1>8, <1>9 DEF Next

\* Without a mishap the log tells whether the switch is thrown and the update
\* events tell what the log does, but for the one change under way, whatever
\* scores do meanwhile.
THEOREM SwitchLeavesItsRecord == Spec => []SwitchIsRecorded
<1>1. Init => SwitchInv
  <2>. SUFFICES ASSUME Init  PROVE Recorded
    BY DEF SwitchInv, Recorded
  <2>1. PlacesOf(Admins, Len(log)) = {} /\ LastSwitch = FALSE
    BY DEF Init, PlacesOf, LastSwitch
  <2>2. Count(Admins) = 0 /\ Len(events) = 0
    BY <2>1, FS_EmptySet DEF Count, Rank, Init
  <2>3. \A a \in Admins : pc[a] = "idle"
    BY DEF Init, Callers
  <2>. QED  BY <2>1, <2>2, <2>3 DEF Init, Recorded, AdminInFlight
<1>2. TypeOK /\ SwitchInv => SwitchIsRecorded
  <2>. SUFFICES ASSUME TypeOK, Recorded, mishaps = {}  PROVE SwitchIsRecorded
    BY DEF SwitchInv, Recorded, SwitchIsRecorded
  <2>1. Len(events) \in Nat
    BY DEF TypeOK
  <2>. QED  BY <2>1 DEF Recorded, SwitchIsRecorded
<1>. QED  BY <1>1, <1>2, SwitchStep, TypeCorrect, PTL DEF Spec
=============================================================================
