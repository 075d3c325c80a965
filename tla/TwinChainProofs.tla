-------------------------- MODULE TwinChainProofs --------------------------
(***************************************************************************)
(* Proofs about TwinChain: whatever calls overlap, fail or are cut short,  *)
(* the stored runs form a tree below Genesis.  The invariant is ChainInv:  *)
(* a link is always read from a stored run, a stored run is never stamped  *)
(* again, and a run is stamped after the run it links to.                  *)
(***************************************************************************)
EXTENDS TwinChain, TLAPS

USE DEF Hashes, InFlight

\* What is noted is a mishap, and nothing noted is forgotten.
LEMMA MishapsNoted ==
  ASSUME ChainTypeOK, [ChainNext]_chainVars
  PROVE  /\ mishaps' \in SUBSET Mishaps /\ mishaps \subseteq mishaps'
         /\ postgres' \in BOOLEAN
<1>1. mishaps' \in SUBSET Mishaps /\ mishaps \subseteq mishaps'
  BY DEF ChainTypeOK, ChainNext, ReadHash, StampRun, SaveRun, RecordHash, ResaveRun, Crash,
         chainVars, Note, Mishaps
<1>2. postgres' = postgres
  BY DEF ChainNext, ReadHash, StampRun, SaveRun, RecordHash, ResaveRun, Crash, chainVars
<1>. QED  BY <1>1, <1>2 DEF ChainTypeOK

LEMMA InitChainInv == ChainInit => ChainInv
  BY ChainAssumption
  DEF ChainInit, ChainInv, ChainTypeOK, HashesAreStored, StoredAreStamped, TimesAgree,
      LinksAreEarlier

LEMMA ReadHashKeeps ==
  ASSUME ChainInv, NEW c \in Creators, ReadHash(c)
  PROVE  ChainInv'
<1>0. mishaps' \in SUBSET Mishaps /\ postgres' \in BOOLEAN
  BY MishapsNoted DEF ChainNext, ChainInv
<1>1. CASE pc' = [pc EXCEPT ![c] = "raised"]
           /\ UNCHANGED <<saved, previous, created, clock, last, postgres>>
  BY <1>0, <1>1, ChainAssumption
  DEF ChainInv, ChainTypeOK, HashesAreStored, StoredAreStamped, TimesAgree,
      LinksAreEarlier
<1>2. CASE \E h \in Hashes :
             /\ Remembered(c, h)
             /\ previous' = [previous EXCEPT ![c] = h]
             /\ last' = IF h = Genesis THEN last ELSE h
             /\ Moves(c, "read")
  <2>1. PICK h \in Hashes :
             /\ Remembered(c, h)
             /\ previous' = [previous EXCEPT ![c] = h]
             /\ last' = IF h = Genesis THEN last ELSE h
             /\ pc' = [pc EXCEPT ![c] = "read"]
    BY <1>2 DEF Moves
  <2>2. h \in saved \cup {Genesis}
    BY <2>1, ChainAssumption
    DEF ChainInv, HashesAreStored, Remembered, Newest
  <2>3. /\ pc[c] = "idle" /\ c \notin saved
        /\ UNCHANGED <<saved, created, clock, postgres>>
    BY DEF ReadHash, ChainInv, StoredAreStamped
  <2>4. ChainTypeOK'
    BY <1>0, <2>1, <2>3 DEF ChainInv, ChainTypeOK
  <2>5. HashesAreStored' /\ StoredAreStamped'
    BY <2>1, <2>2, <2>3
    DEF ChainInv, ChainTypeOK, HashesAreStored, StoredAreStamped
  <2>6. TimesAgree' /\ LinksAreEarlier'
    BY <2>1, <2>3 DEF ChainInv, ChainTypeOK, TimesAgree, LinksAreEarlier
  <2>. QED  BY <2>4, <2>5, <2>6 DEF ChainInv
<1>. QED  BY <1>1, <1>2 DEF ReadHash, Moves

LEMMA StampRunKeeps ==
  ASSUME ChainInv, NEW c \in Creators, StampRun(c)
  PROVE  ChainInv'
<1>1. /\ pc[c] = "read" /\ c \notin saved
      /\ created' = [created EXCEPT ![c] = clock + 1]
      /\ clock' = clock + 1
      /\ pc' = [pc EXCEPT ![c] = "stamped"]
      /\ UNCHANGED <<saved, previous, last, postgres, mishaps>>
  BY DEF StampRun, Moves, ChainInv, StoredAreStamped
<1>2. ChainTypeOK' /\ HashesAreStored' /\ StoredAreStamped'
  BY <1>1 DEF ChainInv, ChainTypeOK, HashesAreStored, StoredAreStamped
<1>3. \A d \in Creators : d # c => created'[d] = created[d]
  BY <1>1 DEF ChainInv, ChainTypeOK
<1>4. created'[c] = clock + 1 /\ \A d \in Creators : created[d] \in Nat
  BY <1>1 DEF ChainInv, ChainTypeOK
<1>5. \A d \in Creators : created'[d] <= clock'
  BY <1>1, <1>3, <1>4 DEF ChainInv, ChainTypeOK, TimesAgree
<1>6. TimesAgree'
  <2>. SUFFICES ASSUME NEW d \in Creators
                PROVE  /\ /\ pc'[d] \in {"stamped", "saved"}
                          /\ previous'[d] # Genesis
                          => created'[previous'[d]] < created'[d]
                       /\ pc'[d] = "saved" => d \in saved'
    BY <1>5 DEF TimesAgree
  <2>1. CASE d = c
    <3>1. previous[c] \in saved \cup {Genesis}
      BY <1>1 DEF ChainInv, HashesAreStored
    <3>2. previous[c] \in saved =>
            created'[previous[c]] = created[previous[c]] /\ previous[c] \in Creators
      BY <1>1, <1>3 DEF ChainInv, ChainTypeOK
    <3>3. previous[c] \in saved => created'[previous[c]] < created'[c]
      BY <3>2, <1>4 DEF ChainInv, ChainTypeOK, TimesAgree
    <3>. QED  BY <1>1, <2>1, <3>1, <3>3 DEF ChainInv, ChainTypeOK
  <2>2. CASE d # c
    <3>1. pc'[d] = pc[d] /\ previous'[d] = previous[d]
      BY <1>1, <2>2 DEF ChainInv, ChainTypeOK
    <3>2. pc[d] \in {"stamped", "saved"} =>
            previous[d] \in saved \cup {Genesis}
      BY DEF ChainInv, HashesAreStored
    <3>3. previous[d] \in saved => previous[d] \in Creators /\ previous[d] # c
      BY <1>1 DEF ChainInv, ChainTypeOK
    <3>. QED  BY <3>1, <3>2, <3>3, <1>1, <1>3, <2>2 DEF ChainInv, TimesAgree
  <2>. QED  BY <2>1, <2>2
<1>7. LinksAreEarlier'
  <2>. SUFFICES ASSUME NEW d \in saved
                PROVE  \/ previous[d] = Genesis
                       \/ /\ previous[d] \in saved
                          /\ created'[previous[d]] < created'[d]
    BY <1>1 DEF LinksAreEarlier
  <2>1. d \in Creators /\ d # c
    BY <1>1 DEF ChainInv, ChainTypeOK
  <2>2. previous[d] \in saved => previous[d] \in Creators /\ previous[d] # c
    BY <1>1 DEF ChainInv, ChainTypeOK
  <2>. QED  BY <2>1, <2>2, <1>3 DEF ChainInv, LinksAreEarlier
<1>. QED  BY <1>2, <1>6, <1>7 DEF ChainInv

LEMMA SaveRunKeeps ==
  ASSUME ChainInv, NEW c \in Creators, SaveRun(c)
  PROVE  ChainInv'
<1>0. mishaps' \in SUBSET Mishaps /\ postgres' \in BOOLEAN
  BY MishapsNoted DEF ChainNext, ChainInv
<1>1. PICK o \in Outcomes :
        /\ saved' = Effect(o, saved, saved \cup {c})
        /\ last' = IF postgres /\ o = "ok" THEN c ELSE last
        /\ Moves(c, Reply(o, "saved", "raised"))
  BY DEF SaveRun, Outcomes
<1>2. /\ pc[c] = "stamped"
      /\ UNCHANGED <<previous, created, clock, postgres>>
  BY DEF SaveRun
<1>3. /\ saved' \in {saved, saved \cup {c}}
      /\ last' \in {last, c}
      /\ pc' \in {[pc EXCEPT ![c] = "saved"], [pc EXCEPT ![c] = "raised"]}
      /\ last' # last => c \in saved'
      /\ pc' = [pc EXCEPT ![c] = "saved"] => c \in saved'
  BY <1>1, <1>2 DEF Effect, Reply, Moves, Outcomes, ChainInv, ChainTypeOK
<1>4. ChainTypeOK'
  BY <1>0, <1>2, <1>3 DEF ChainInv, ChainTypeOK
<1>5. HashesAreStored' /\ StoredAreStamped'
  BY <1>2, <1>3
  DEF ChainInv, ChainTypeOK, HashesAreStored, StoredAreStamped
<1>6. TimesAgree'
  BY <1>2, <1>3 DEF ChainInv, ChainTypeOK, TimesAgree
<1>7. LinksAreEarlier'
  <2>1. \/ previous[c] = Genesis
        \/ previous[c] \in saved /\ created[previous[c]] < created[c]
    BY <1>2 DEF ChainInv, HashesAreStored, TimesAgree
  <2>. QED  BY <2>1, <1>2, <1>3 DEF ChainInv, LinksAreEarlier
<1>. QED  BY <1>4, <1>5, <1>6, <1>7 DEF ChainInv

\* RecordHash and ResaveRun change only what is remembered, and to a run
\* that is stored; Crash forgets it and ends the calls.
LEMMA OthersKeep ==
  ASSUME ChainInv,
         \/ \E c \in Creators : RecordHash(c) \/ ResaveRun(c)
         \/ Crash
         \/ UNCHANGED chainVars
  PROVE  ChainInv'
<1>1. ASSUME NEW c \in Creators, RecordHash(c)  PROVE ChainInv'
  <2>1. /\ pc[c] = "saved" /\ last' = c
        /\ pc' = [pc EXCEPT ![c] = "done"]
        /\ UNCHANGED <<saved, previous, created, clock, postgres, mishaps>>
    BY <1>1 DEF RecordHash, Moves
  <2>2. c \in saved
    BY <2>1 DEF ChainInv, TimesAgree
  <2>. QED
    BY <2>1, <2>2
    DEF ChainInv, ChainTypeOK, HashesAreStored, StoredAreStamped, TimesAgree,
        LinksAreEarlier
<1>2. ASSUME NEW c \in Creators, ResaveRun(c)  PROVE ChainInv'
  <2>1. mishaps' \in SUBSET Mishaps /\ postgres' \in BOOLEAN
    BY <1>2, MishapsNoted DEF ChainNext, ChainInv
  <2>. QED
    BY <1>2, <2>1
    DEF ResaveRun, ChainInv, ChainTypeOK, HashesAreStored, StoredAreStamped,
        TimesAgree, LinksAreEarlier
<1>3. ASSUME Crash  PROVE ChainInv'
  BY <1>3
  DEF Crash, ChainInv, ChainTypeOK, HashesAreStored, StoredAreStamped,
      TimesAgree, LinksAreEarlier
<1>4. ASSUME UNCHANGED chainVars  PROVE ChainInv'
  BY <1>4
  DEF chainVars, ChainInv, ChainTypeOK, HashesAreStored, StoredAreStamped, TimesAgree,
      LinksAreEarlier
<1>. QED  BY <1>1, <1>2, <1>3, <1>4

\* Links, what is remembered and created_at always agree.
THEOREM Invariant == ChainSpec => []ChainInv
<1>1. ChainInv /\ [ChainNext]_chainVars => ChainInv'
  BY ReadHashKeeps, StampRunKeeps, SaveRunKeeps, OthersKeep DEF ChainNext
<1>. QED  BY InitChainInv, <1>1, PTL DEF ChainSpec

\* However the calls overlap, fail or are cut short, each stored run links
\* to Genesis or to a stored run created before it.
THEOREM RunsAreATree == ChainSpec => []LinksAreEarlier
<1>1. ChainInv => LinksAreEarlier
  BY DEF ChainInv
<1>. QED  BY Invariant, <1>1, PTL

-----------------------------------------------------------------------------
(* Nothing amiss.                                                          *)

\* No stored run is linked to the newest one: a link goes to an earlier run.
LEMMA NewestIsUnlinked ==
  ASSUME ChainInv, NEW h \in Hashes, Newest(h)
  PROVE  Unlinked(h)
  BY ChainAssumption
  DEF Newest, Unlinked, ChainInv, ChainTypeOK, LinksAreEarlier

LEMMA OrderlyStep ==
  ASSUME ChainInv, ChainInv', OrderlyInv, [ChainNext]_chainVars, mishaps' = {}
  PROVE  OrderlyInv'
<1>1. mishaps = {}
  BY MishapsNoted DEF ChainInv
<1>2. /\ \A c, d \in Creators :
           pc[c] \in InFlight /\ pc[d] \in InFlight => c = d
      /\ \A c \in Creators :
           /\ pc[c] \in {"read", "stamped"} => Unlinked(previous[c])
           /\ pc[c] = "saved" => Unlinked(c)
      /\ last = None \/ Unlinked(last) \/ \E c \in Creators : pc[c] = "saved"
      /\ ChainIsLinear
  BY <1>1 DEF OrderlyInv
<1>3. /\ pc \in [Creators -> {"idle", "done", "raised", "dead"} \cup InFlight]
      /\ previous \in [Creators -> Hashes \cup {None}]
      /\ saved \in SUBSET Creators /\ last \in Hashes \cup {None}
  BY DEF ChainInv, ChainTypeOK
<1>4. \A c \in saved : pc[c] \notin {"idle", "read", "stamped"}
  BY DEF ChainInv, StoredAreStamped
<1>5. ASSUME NEW c \in Creators, ReadHash(c)  PROVE OrderlyInv'
  <2>1. /\ \A d \in Creators : pc[d] \notin InFlight
        /\ pc[c] = "idle" /\ UNCHANGED <<saved, created, clock>>
    BY <1>1, <1>5 DEF ReadHash, Note
  <2>2. last = None \/ Unlinked(last)
    BY <1>2, <2>1
  <2>3. CASE /\ pc' = [pc EXCEPT ![c] = "raised"]
             /\ UNCHANGED <<previous, last>>
    BY <1>2, <1>3, <2>1, <2>3 DEF OrderlyInv, Unlinked, ChainIsLinear
  <2>4. CASE \E h \in Hashes :
               /\ Remembered(c, h)
               /\ previous' = [previous EXCEPT ![c] = h]
               /\ last' = IF h = Genesis THEN last ELSE h
               /\ Moves(c, "read")
    <3>1. PICK h \in Hashes :
               /\ Remembered(c, h)
               /\ previous' = [previous EXCEPT ![c] = h]
               /\ last' = IF h = Genesis THEN last ELSE h
               /\ pc' = [pc EXCEPT ![c] = "read"]
      BY <2>4 DEF Moves
    <3>2. Unlinked(h)
      BY <2>2, <3>1, NewestIsUnlinked DEF Remembered
    <3>3. c \notin saved
      BY <1>4, <2>1
    <3>4. \A g : Unlinked(g) => Unlinked(g)'
      BY <1>3, <2>1, <3>1, <3>3 DEF Unlinked
    <3>5. ChainIsLinear'
      BY <1>2, <1>3, <2>1, <3>1, <3>3 DEF ChainIsLinear
    <3>6. previous'[c] = h /\ pc'[c] = "read"
          /\ \A d \in Creators : d # c => pc'[d] \notin InFlight
      BY <1>3, <2>1, <3>1
    <3>7. Unlinked(h)' /\ (last' = None \/ Unlinked(last)')
      BY <2>2, <3>1, <3>2, <3>4
    <3>8. Unlinked(previous[c])'
      BY <3>6, <3>7 DEF Unlinked
    <3>. QED  BY <3>5, <3>6, <3>7, <3>8 DEF OrderlyInv
  <2>. QED  BY <1>5, <2>3, <2>4 DEF ReadHash, Moves
<1>6. ASSUME NEW c \in Creators, StampRun(c)  PROVE OrderlyInv'
  BY <1>2, <1>3, <1>6 DEF StampRun, Moves, OrderlyInv, Unlinked, ChainIsLinear
<1>7. ASSUME NEW c \in Creators, SaveRun(c)  PROVE OrderlyInv'
  <2>1. PICK o \in Outcomes :
          /\ postgres \/ o = "ok"
          /\ saved' = Effect(o, saved, saved \cup {c})
          /\ last' = IF postgres /\ o = "ok" THEN c ELSE last
          /\ Moves(c, Reply(o, "saved", "raised"))
          /\ Note("reply lost", o # "ok" /\ saved' # saved)
    BY <1>7 DEF SaveRun, Outcomes
  <2>2. pc[c] = "stamped" /\ UNCHANGED <<previous, created, clock>>
    BY <1>7 DEF SaveRun
  <2>3. c \notin saved
    BY <1>4, <2>2
  <2>4. \A d \in Creators : d # c => pc[d] \notin InFlight
    BY <1>2, <2>2
  <2>5. CASE o = "ok"
    <3>1. /\ saved' = saved \cup {c}
          /\ last' \in {c, last}
          /\ pc' = [pc EXCEPT ![c] = "saved"]
      BY <2>1, <2>5 DEF Effect, Reply, Moves
    <3>2. \A d \in saved \cup {c} : previous[d] # c
      <4>1. \A d \in saved : previous[d] = Genesis \/ previous[d] \in saved
        BY DEF ChainInv, LinksAreEarlier
      <4>2. previous[c] \in saved \cup {Genesis}
        BY <2>2 DEF ChainInv, HashesAreStored
      <4>. QED  BY <2>3, <4>1, <4>2, ChainAssumption
    <3>3. Unlinked(c)'
      BY <2>2, <3>1, <3>2 DEF Unlinked
    <3>4. ChainIsLinear'
      <4>1. \A d \in saved : previous[d] # previous[c]
        BY <1>2, <2>2 DEF Unlinked
      <4>. QED  BY <1>2, <2>2, <3>1, <4>1 DEF ChainIsLinear
    <3>5. pc'[c] = "saved" /\ \A d \in Creators : d # c => pc'[d] \notin InFlight
      BY <1>3, <2>4, <3>1
    <3>. QED  BY <3>3, <3>4, <3>5 DEF OrderlyInv
  <2>6. CASE o # "ok"
    <3>1. saved' = saved
      BY <2>1, <2>6 DEF Note
    <3>2. last' = last /\ pc' = [pc EXCEPT ![c] = "raised"]
      BY <2>1, <2>6 DEF Reply, Moves
    <3>. QED
      BY <1>2, <1>3, <2>2, <3>1, <3>2 DEF OrderlyInv, Unlinked, ChainIsLinear
  <2>. QED  BY <2>5, <2>6
<1>8. ASSUME NEW c \in Creators, RecordHash(c)  PROVE OrderlyInv'
  <2>1. /\ pc[c] = "saved" /\ last' = c
        /\ pc' = [pc EXCEPT ![c] = "done"]
        /\ UNCHANGED <<saved, previous>>
    BY <1>8 DEF RecordHash, Moves
  <2>2. Unlinked(c)
    BY <1>2, <2>1
  <2>. QED
    BY <1>2, <1>3, <2>1, <2>2 DEF OrderlyInv, Unlinked, ChainIsLinear
<1>9. ASSUME NEW c \in Creators, ResaveRun(c)  PROVE OrderlyInv'
  <2>1. /\ c \in saved /\ last' = (IF postgres THEN c ELSE last)
        /\ postgres => Newest(c)
        /\ UNCHANGED <<saved, previous, pc>>
    BY <1>9 DEF ResaveRun, Note
  <2>2. postgres => Unlinked(c)
    BY <2>1, NewestIsUnlinked
  <2>. QED
    BY <1>2, <1>3, <2>1, <2>2 DEF OrderlyInv, Unlinked, ChainIsLinear
<1>10. CASE Crash
  BY <1>2, <1>3, <1>10 DEF Crash, OrderlyInv, Unlinked, ChainIsLinear
<1>11. CASE UNCHANGED chainVars
  BY <1>2, <1>11 DEF chainVars, OrderlyInv, Unlinked, ChainIsLinear
<1>. QED  BY <1>5, <1>6, <1>7, <1>8, <1>9, <1>10, <1>11 DEF ChainNext

\* As long as creating calls do not overlap, no committed save is taken to
\* have failed and only the newest run is saved again, the stored runs are
\* one chain: a restart alone never forks it.
THEOREM ChainStaysLinear == ChainSpec => []OrderlyChainIsLinear
<1>1. ChainInit => LinearInv
  BY InitChainInv, ChainAssumption
  DEF ChainInit, LinearInv, OrderlyInv, Unlinked, ChainIsLinear
<1>2. LinearInv /\ [ChainNext]_chainVars => LinearInv'
  <2>1. ChainInv /\ [ChainNext]_chainVars => ChainInv'
    BY ReadHashKeeps, StampRunKeeps, SaveRunKeeps, OthersKeep DEF ChainNext
  <2>2. ASSUME mishaps' # {}  PROVE OrderlyInv'
    BY <2>2 DEF OrderlyInv
  <2>. QED  BY <2>1, <2>2, OrderlyStep DEF LinearInv
<1>3. LinearInv => OrderlyChainIsLinear
  BY DEF LinearInv, OrderlyInv, OrderlyChainIsLinear
<1>. QED  BY <1>1, <1>2, <1>3, PTL DEF ChainSpec
=============================================================================
