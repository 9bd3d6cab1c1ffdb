---------------------------- MODULE TrustProofs ----------------------------
(***************************************************************************)
(* What is proved about the distribution of trust, for any number of       *)
(* renewer processes and receivers, generations, incidents and times: the  *)
(* renewer's and the distributor's promises (TrustRenewal), and the        *)
(* receivers' (TrustReceiver).  Both rest on the same facts about the      *)
(* distributor's handlers, which come first.                               *)
(*                                                                         *)
(* What a state file or an engine must satisfy is stated as an operator of *)
(* the values it depends on, so that a step is one comparison of values.   *)
(***************************************************************************)
EXTENDS TrustRenewal, TrustReceiver, TLAPS

\* Snapshot s is t or has a higher generation.
Follows(s, t) == s = t \/ Generation(s) > Generation(t)

\* Three parts of one statement about the distributor: until a replacement is
\* uncertain memory is what the file holds; unless the process started from an
\* unsynced file it is also what survives a power loss; the file is never behind.
DiskInv ==
    /\ poison \/ dfile = current
    /\ poison \/ reloaded \/ dstable = current
    /\ Follows(dfile.snapshot, dstable.snapshot)
    /\ Follows(dfile.snapshot, current.snapshot)

DistributorInv == DistributorTypeOK /\ DiskInv /\ AcknowledgedSurvives /\ ReceiptsFit

\* A staged or committed generation leaves nothing that was posted behind; the
\* values are the snapshots posted, whether an operator has published, whether
\* a power loss undid a publication, and the snapshot that is served.
StateFits(x, posted, by_hand, lost, served) ==
    /\ x \in RenewalState
    /\ validate(x)
    /\ \A s \in posted : x.pending = s \/ Generation(x.committed) >= s.generation
    /\ by_hand \/ x.committed \in posted \cup {None}
    /\ lost \/ Generation(x.committed) <= Generation(served)

RemoteFits(e, posted, by_hand, lost, served) ==
    /\ by_hand \/ e.remote \in posted \cup {None}
    /\ lost \/ Generation(e.state.committed) <= Generation(e.remote)
    /\ lost \/ Generation(e.remote) <= Generation(served)

EngineFits(e, posted, by_hand, lost, served) ==
    /\ e \in Engine
    /\ e.phase = "down" => e.state = Fresh
    /\ e.phase # "down" => StateFits(e.state, posted, by_hand, lost, served)
    /\ e.phase \in {"fetched", "reconciled", "posting"} => e.now > 0
    /\ e.phase = "fetched" => RemoteFits(e, posted, by_hand, lost, served)
    /\ e.why = "rollback" => lost
    /\ e.why = "fork" => by_hand \/ lost

RenewalTypes ==
    /\ lock \in Process \cup {None}
    /\ engine \in [Process -> Engine]
    /\ wire \subseteq sent /\ sent \subseteq Snapshot
    /\ manual \in BOOLEAN

ServedWasPosted ==
    manual \/ {current.snapshot, dfile.snapshot, dstable.snapshot} \subseteq sent \cup {None}

FilesFit ==
    /\ StateFits(rfile, sent, manual, undone, current.snapshot)
    /\ StateFits(rstable, sent, manual, undone, current.snapshot)

EnginesFit ==
    \A p \in Process : EngineFits(engine[p], sent, manual, undone, current.snapshot)

\* Whoever runs holds the lock.
LockHeld == \A p \in Process : engine[p].phase # "down" => lock = p

RenewalInv ==
    /\ DistributorInv /\ RenewalTypes /\ ServedWasPosted /\ OnePerGeneration
    /\ FilesFit /\ EnginesFit /\ LockHeld

-----------------------------------------------------------------------------
(* The distributor's handlers.                                               *)

\* Generations are natural numbers, and only None has generation 0.
LEMMA GenerationType ==
    ASSUME NEW s \in Snapshot \cup {None}
    PROVE  /\ Generation(s) \in 0..MaxGeneration
           /\ Generation(s) = 0 <=> s = None
           /\ s # None => s \in Snapshot /\ Generation(s) = s.generation
<1>1. MaxGeneration \in Nat
    BY TrustBounds
<1>2. CASE s = None
    BY <1>1, <1>2 DEF Generation
<1>3. CASE s \in Snapshot
  <2>1. s # None
    BY <1>3, NoSnapshot
  <2>2. s.generation \in 1..MaxGeneration
    BY <1>3 DEF Snapshot
  <2> QED
    BY <1>1, <1>3, <2>1, <2>2 DEF Generation
<1> QED
    BY <1>2, <1>3

LEMMA FollowsIsTransitive ==
    ASSUME NEW s \in Snapshot \cup {None}, NEW t \in Snapshot \cup {None},
           NEW u \in Snapshot \cup {None}, Follows(s, t), Follows(t, u)
    PROVE  Follows(s, u)
<1>1. Generation(s) \in Int /\ Generation(t) \in Int /\ Generation(u) \in Int
    BY GenerationType
<1> QED
    BY <1>1 DEF Follows

\* What a mutation may do: the states of the distributor follow those before,
\* and hold their snapshots or the one that is stored.
Mutated(s) ==
    /\ Follows(current'.snapshot, current.snapshot)
    /\ {current'.snapshot, dfile'.snapshot, dstable'.snapshot}
           \subseteq {current.snapshot, dfile.snapshot, dstable.snapshot, s}
    /\ undone' = undone

\* The storage of a state that goes on from the one in memory, whatever its
\* outcome, keeps the distributor's invariant (persist_next and its panic).
LEMMA StorageKeeps ==
    ASSUME DistributorInv, NEW next \in DurableState, NEW outcome \in Outcome,
           NEW memory \in Outcome, ~ poison,
           Follows(next.snapshot, current.snapshot),
           validate_durable_state(next, Kind),
           current' = Replaced(current, next, memory),
           dfile' = Replaced(dfile, next, outcome),
           dstable' = Stabilized(dstable, next, outcome),
           poison' \in BOOLEAN, ~ poison' => memory = outcome /\ outcome # "after",
           memory # outcome => memory = "before",
           reloaded' \in BOOLEAN, ~ reloaded' => ~ reloaded \/ outcome = "ok",
           roots' = roots, undone' = undone, wall' = wall,
           incidents' \in 0..MaxIncidents,
           acked' \subseteq acked \cup {next.snapshot}, acked' \subseteq Snapshot,
           outcome # "ok" => acked' \subseteq acked
    PROVE  DistributorInv' /\ Mutated(next.snapshot)
<1>1. /\ current \in DurableState /\ dstable \in DurableState
      /\ dfile = current /\ wall \in 0..MaxClock /\ roots \subseteq Kind /\ undone \in BOOLEAN
      /\ acked \subseteq Snapshot
    BY DEF DistributorInv, DistributorTypeOK, DiskInv
<1>2. PICK c, d : c = current /\ d = dstable
    OBVIOUS
<1>3. /\ c \in DurableState /\ d \in DurableState
      /\ c.snapshot \in Snapshot \cup {None} /\ d.snapshot \in Snapshot \cup {None}
      /\ next.snapshot \in Snapshot \cup {None}
    BY <1>1, <1>2 DEF DurableState
<1>4. Follows(c.snapshot, d.snapshot) /\ Follows(next.snapshot, c.snapshot)
    BY <1>1, <1>2 DEF DistributorInv, DiskInv
<1>5. Follows(next.snapshot, d.snapshot)
    BY <1>3, <1>4, FollowsIsTransitive
<1>6. /\ current' \in {c, next} /\ dfile' \in {c, next} /\ dstable' \in {d, next}
      /\ dfile' = c => (current' = c /\ dstable' = d) \/ next = c
    BY <1>1, <1>2 DEF Replaced, Stabilized, Outcome
<1>7. DistributorTypeOK'
    BY <1>1, <1>3, <1>6 DEF DistributorTypeOK
<1>8. DiskInv'
  <2>1. poison' \/ dfile' = current'
    BY <1>1 DEF Replaced, Outcome
  <2>2. poison' \/ reloaded' \/ dstable' = current'
    BY <1>1, <1>2 DEF Replaced, Stabilized, Outcome, DistributorInv, DiskInv
  <2>3. \A x : Follows(x, x)
    BY DEF Follows
  <2>4. Follows(dfile'.snapshot, dstable'.snapshot)
    BY <1>1, <1>2, <1>4, <1>5, <2>3 DEF Replaced, Stabilized, Outcome
  <2>5. Follows(dfile'.snapshot, current'.snapshot)
    BY <1>1, <1>2, <1>4, <2>3 DEF Replaced, Stabilized, Outcome
  <2> QED
    BY <2>1, <2>2, <2>4, <2>5 DEF DiskInv, Follows, Generation
<1>9. AcknowledgedSurvives'
  <2>1. SUFFICES ASSUME NEW s \in acked'
                 PROVE  dstable'.snapshot = s \/ Generation(dstable'.snapshot) > s.generation
    BY DEF AcknowledgedSurvives, Generation
  <2>2. CASE s = next.snapshot /\ outcome = "ok"
    BY <2>2 DEF Stabilized
  <2>3. CASE s \in acked
    <3>1. s \in Snapshot /\ Generation(s) = s.generation /\ s.generation \in Int
      <4>1. s \in Snapshot
        BY <1>1, <2>3
      <4> QED
        BY <4>1, GenerationType, NoSnapshot
    <3>2. Follows(d.snapshot, s)
      BY <1>2, <2>3, <3>1 DEF DistributorInv, AcknowledgedSurvives, Follows
    <3>3. Follows(next.snapshot, s)
      BY <1>3, <1>5, <3>1, <3>2, FollowsIsTransitive
    <3> QED
      BY <1>2, <3>1, <3>2, <3>3 DEF Stabilized, Follows
  <2> QED
    BY <2>1, <2>2, <2>3
<1>10. ReceiptsFit'
  <2>1. \A x \in {c, d, next} : validate_durable_state(x, Kind)
    BY <1>2 DEF DistributorInv, ReceiptsFit
  <2> QED
    BY <1>6, <2>1 DEF ReceiptsFit
<1>11. Mutated(next.snapshot)
    BY <1>1, <1>2, <1>4, <1>6 DEF Mutated, Follows
<1> QED
    BY <1>7, <1>8, <1>9, <1>10, <1>11 DEF DistributorInv

LEMMA IncidentsAreBounded ==
    ASSUME incidents \in 0..MaxIncidents, NEW n \in Nat, Incidents(n)
    PROVE  incidents' \in 0..MaxIncidents
<1>1. PICK i \in Int : i = incidents
    OBVIOUS
<1>2. PICK m \in Nat : m = MaxIncidents
    BY TrustBounds
<1> QED
    BY <1>1, <1>2 DEF Incidents

LEMMA FaultsType == \A outcome : Faults(outcome) \in {0, 1}
BY DEF Faults

\* persist_next, where the handlers call it.
LEMMA PersistNextKeeps ==
    ASSUME DistributorInv, NEW next \in DurableState, NEW outcome \in Outcome,
           ~ poison, persist_next(next, outcome),
           Follows(next.snapshot, current.snapshot),
           validate_durable_state(next, Kind),
           reloaded' \in BOOLEAN, ~ reloaded' => ~ reloaded \/ outcome = "ok",
           roots' = roots, undone' = undone, wall' = wall,
           acked' \subseteq acked \cup {next.snapshot}, acked' \subseteq Snapshot,
           outcome # "ok" => acked' \subseteq acked
    PROVE  DistributorInv' /\ Mutated(next.snapshot)
<1>1. incidents' \in 0..MaxIncidents
    BY IncidentsAreBounded, FaultsType DEF persist_next, DistributorInv, DistributorTypeOK
<1>2. /\ current' = Replaced(current, next, outcome)
      /\ dfile' = Replaced(dfile, next, outcome)
      /\ dstable' = Stabilized(dstable, next, outcome)
      /\ poison' = (outcome = "after")
    BY DEF persist_next, DistributorInv, DistributorTypeOK
<1> QED
    BY <1>1, <1>2, StorageKeeps

\* The storage task dies: memory stays, and no mutation is taken any more.
LEMMA DeadStorageKeeps ==
    ASSUME DistributorInv, NEW next \in DurableState, ~ poison, storage_task_dies(next),
           Follows(next.snapshot, current.snapshot),
           validate_durable_state(next, Kind),
           reloaded' = reloaded, roots' = roots, undone' = undone, wall' = wall, acked' = acked
    PROVE  DistributorInv' /\ Mutated(next.snapshot)
<1>1. incidents' \in 0..MaxIncidents
    BY IncidentsAreBounded DEF storage_task_dies, DistributorInv, DistributorTypeOK
<1>2. PICK outcome \in Outcome : /\ dfile' = Replaced(dfile, next, outcome)
                                 /\ dstable' = Stabilized(dstable, next, outcome)
    BY DEF storage_task_dies
<1>3. /\ current' = Replaced(current, next, "before") /\ "before" \in Outcome
      /\ poison' = TRUE
    BY DEF storage_task_dies, Replaced, Outcome
<1>4. reloaded \in BOOLEAN /\ acked \subseteq Snapshot
    BY DEF DistributorInv, DistributorTypeOK
<1> QED
    BY <1>1, <1>2, <1>3, <1>4, StorageKeeps

\* publish_snapshot keeps the distributor's invariant, whatever the answer.
LEMMA PublishKeeps ==
    ASSUME DistributorInv, NEW s \in Snapshot, NEW a, publish_snapshot(s, a), wall' = wall
    PROVE  DistributorInv' /\ Mutated(s)
<1>1. /\ current \in DurableState /\ dstable \in DurableState /\ dfile \in DurableState
      /\ wall \in 0..MaxClock /\ roots \subseteq Kind /\ undone \in BOOLEAN
      /\ poison \in BOOLEAN /\ reloaded \in BOOLEAN
      /\ acked \subseteq Snapshot /\ incidents \in 0..MaxIncidents
      /\ current.snapshot \in Snapshot \cup {None}
    BY DEF DistributorInv, DistributorTypeOK, DurableState
<1>2. CASE /\ a = publish_checks(s)
           /\ acked' = acked \cup (IF a = "unchanged" /\ ~ reloaded THEN {s} ELSE {})
           /\ UNCHANGED <<current, dfile, dstable, poison, roots, reloaded, undone, incidents>>
  <2>1. a = "unchanged" /\ ~ reloaded => dstable.snapshot = s
    BY <1>2 DEF publish_checks, DistributorInv, DiskInv
  <2>2. AcknowledgedSurvives'
    BY <1>2, <2>1 DEF DistributorInv, AcknowledgedSurvives, Generation
  <2>3. DistributorTypeOK' /\ DiskInv' /\ ReceiptsFit'
    BY <1>1, <1>2 DEF DistributorInv, DistributorTypeOK, DiskInv, ReceiptsFit,
                      Follows, Generation, validate_durable_state, receipt_matches_snapshot,
                      receipt_receiver_slot, ring_verifies
  <2> QED
    BY <1>2, <2>2, <2>3 DEF DistributorInv, Mutated, Follows
<1>3. CASE /\ publish_checks(s) = "created"
           /\ \/ \E outcome \in Outcome :
                    /\ persist_next(Successor(s), outcome)
                    /\ acked' = acked \cup (IF outcome = "ok" THEN {s} ELSE {})
                    /\ reloaded' = (reloaded /\ outcome # "ok")
              \/ /\ storage_task_dies(Successor(s))
                 /\ UNCHANGED <<acked, reloaded>>
           /\ UNCHANGED <<roots, undone>>
  <2>1. /\ Successor(s) \in DurableState /\ Successor(s).snapshot = s
        /\ Successor(s).receipts = {}
    BY DEF Successor, DurableState
  <2>2. ~ poison /\ s.generation > Generation(current.snapshot)
    <3>1. s.generation \in Int /\ Generation(current.snapshot) \in Int
      BY <1>1, GenerationType DEF Snapshot
    <3> QED
      BY <1>3, <3>1 DEF publish_checks
  <2>3. Follows(Successor(s).snapshot, current.snapshot)
    BY <2>1, <2>2, GenerationType, NoSnapshot DEF Follows
  <2>4. validate_durable_state(Successor(s), Kind)
    BY <2>1, NoSnapshot DEF validate_durable_state, ring_verifies, Snapshot
  <2>5. CASE \E outcome \in Outcome :
                    /\ persist_next(Successor(s), outcome)
                    /\ acked' = acked \cup (IF outcome = "ok" THEN {s} ELSE {})
                    /\ reloaded' = (reloaded /\ outcome # "ok")
    <3>1. PICK outcome \in Outcome :
                    /\ persist_next(Successor(s), outcome)
                    /\ acked' = acked \cup (IF outcome = "ok" THEN {s} ELSE {})
                    /\ reloaded' = (reloaded /\ outcome # "ok")
      BY <2>5
    <3>2. /\ reloaded' \in BOOLEAN /\ (~ reloaded' => ~ reloaded \/ outcome = "ok")
          /\ acked' \subseteq acked \cup {s} /\ acked' \subseteq Snapshot
          /\ (outcome # "ok" => acked' \subseteq acked)
      BY <1>1, <3>1
    <3> QED
      BY <1>3, <2>1, <2>2, <2>3, <2>4, <3>1, <3>2, PersistNextKeeps
  <2>6. CASE storage_task_dies(Successor(s)) /\ UNCHANGED <<acked, reloaded>>
    BY <1>3, <2>1, <2>2, <2>3, <2>4, <2>6, DeadStorageKeeps
  <2> QED
    BY <1>3, <2>5, <2>6
<1> QED
    BY <1>2, <1>3 DEF publish_snapshot

\* post_receipt keeps the distributor's invariant, whatever the answer, and
\* leaves the snapshots alone.
LEMMA PostReceiptKeeps ==
    ASSUME DistributorInv, NEW r \in Receipt, NEW a, post_receipt(r, a), wall' = wall
    PROVE  /\ DistributorInv' /\ Mutated(current.snapshot) /\ undone' = undone
           /\ current'.receipts \subseteq current.receipts \cup {r}
           /\ dfile'.receipts \subseteq dfile.receipts \cup {r}
           /\ dstable'.receipts \subseteq dstable.receipts \cup current.receipts \cup {r}
<1>1. /\ current \in DurableState /\ dstable \in DurableState /\ dfile \in DurableState
      /\ reloaded \in BOOLEAN /\ acked \subseteq Snapshot
    BY DEF DistributorInv, DistributorTypeOK
<1>2. CASE UNCHANGED <<dvars, incidents>>
    BY <1>1, <1>2 DEF dvars, dhistory, DistributorInv, DistributorTypeOK, DiskInv, ReceiptsFit,
                 AcknowledgedSurvives, Mutated,
                 Follows, Generation, validate_durable_state, receipt_matches_snapshot,
                 receipt_receiver_slot, ring_verifies
<1>3. CASE /\ receipt_checks(r) = "recorded"
           /\ \/ \E outcome \in Outcome : persist_next(WithReceipt(r), outcome)
              \/ storage_task_dies(WithReceipt(r))
           /\ UNCHANGED <<roots, dhistory>>
  <2>1. /\ WithReceipt(r) \in DurableState /\ WithReceipt(r).snapshot = current.snapshot
        /\ WithReceipt(r).receipts = current.receipts \cup {r}
    BY <1>1 DEF WithReceipt, DurableState
  <2>2. /\ ~ poison /\ current.snapshot # None /\ r.receiver \in Expected
        /\ r.snapshot = current.snapshot
        /\ \A e \in current.receipts : e.receiver # r.receiver
    BY <1>3 DEF receipt_checks, receipt_receiver_slot, receipt_matches_snapshot
  <2>3. Follows(WithReceipt(r).snapshot, current.snapshot)
    BY <2>1 DEF Follows
  <2>4. validate_durable_state(WithReceipt(r), Kind)
    <3>1. validate_durable_state(current, Kind)
      BY DEF DistributorInv, ReceiptsFit
    <3> QED
      BY <2>1, <2>2, <3>1 DEF validate_durable_state, receipt_receiver_slot,
                              receipt_matches_snapshot
  <2>5. dfile = current
    BY <2>2 DEF DistributorInv, DiskInv
  <2>6. CASE \E outcome \in Outcome : persist_next(WithReceipt(r), outcome)
    <3>1. PICK outcome \in Outcome : persist_next(WithReceipt(r), outcome)
      BY <2>6
    <3>2. DistributorInv' /\ Mutated(current.snapshot)
      BY <1>1, <1>3, <2>1, <2>2, <2>3, <2>4, <3>1, PersistNextKeeps DEF dhistory
    <3> QED
      BY <1>3, <2>1, <2>5, <3>1, <3>2 DEF persist_next, Replaced, Stabilized, dhistory
  <2>7. CASE storage_task_dies(WithReceipt(r))
    <3>1. DistributorInv' /\ Mutated(current.snapshot)
      BY <1>3, <2>1, <2>2, <2>3, <2>4, <2>7, DeadStorageKeeps DEF dhistory
    <3> QED
      BY <1>3, <2>1, <2>5, <2>7, <3>1 DEF storage_task_dies, Replaced, Stabilized, dhistory
  <2> QED
    BY <1>3, <2>6, <2>7
<1> QED
    BY <1>2, <1>3 DEF post_receipt

\* A restart loads the file or what survived.  Only the loss of an unsynced
\* replacement takes the distributor back, and history knows of it.
LEMMA RestartKeeps ==
    ASSUME DistributorInv, RestartDistributor, wall' = wall
    PROVE  /\ DistributorInv' /\ (undone => undone')
           /\ undone' \/ Follows(current'.snapshot, current.snapshot)
           /\ current' = dfile' /\ current' \in {dfile, dstable} /\ dstable' = dstable
           /\ acked' = acked
<1>1. /\ current \in DurableState /\ dstable \in DurableState /\ dfile \in DurableState
      /\ undone \in BOOLEAN /\ acked \subseteq Snapshot /\ incidents \in 0..MaxIncidents
      /\ wall \in 0..MaxClock
    BY DEF DistributorInv, DistributorTypeOK
<1>2. PICK f \in {dfile, dstable}, k \in SUBSET Kind :
        /\ current' = f /\ dfile' = f
        /\ reloaded' = (f # dstable)
        /\ undone' = (undone \/ f # dfile)
        /\ roots' = k
    BY DEF RestartDistributor
<1>3. poison' = FALSE /\ dstable' = dstable /\ acked' = acked
    BY DEF RestartDistributor
<1>4. incidents' \in 0..MaxIncidents
    BY <1>1, IncidentsAreBounded DEF RestartDistributor
<1>5. DistributorTypeOK'
    BY <1>1, <1>2, <1>3, <1>4 DEF DistributorTypeOK
<1>6. DiskInv'
    BY <1>1, <1>2, <1>3 DEF DistributorInv, DiskInv, Follows, Generation
<1>7. AcknowledgedSurvives'
    BY <1>3 DEF DistributorInv, AcknowledgedSurvives, Generation
<1>8. ReceiptsFit'
    BY <1>2, <1>3 DEF DistributorInv, ReceiptsFit
<1>9. undone' \/ Follows(current'.snapshot, current.snapshot)
    BY <1>2 DEF DistributorInv, DiskInv
<1> QED
    BY <1>1, <1>2, <1>3, <1>5, <1>6, <1>7, <1>8, <1>9 DEF DistributorInv

-----------------------------------------------------------------------------
(* The renewer's values.                                                     *)

\* What fits goes on fitting when an operator publishes, when a power loss is
\* noted, and when a later snapshot is served.
LEMMA StateGoesOnFitting ==
    ASSUME NEW x, NEW posted, NEW by_hand, NEW lost, NEW served \in Snapshot \cup {None},
           NEW by_hand2, NEW lost2, NEW served2 \in Snapshot \cup {None},
           StateFits(x, posted, by_hand, lost, served),
           by_hand => by_hand2, lost => lost2, lost2 \/ Follows(served2, served)
    PROVE  StateFits(x, posted, by_hand2, lost2, served2)
<1>1. Generation(served) \in Int /\ Generation(served2) \in Int
    BY GenerationType
<1>2. Generation(x.committed) \in Int
    BY GenerationType DEF StateFits, RenewalState
<1> QED
    BY <1>1, <1>2 DEF StateFits, Follows

LEMMA EngineGoesOnFitting ==
    ASSUME NEW e, NEW posted, NEW by_hand, NEW lost, NEW served \in Snapshot \cup {None},
           NEW by_hand2, NEW lost2, NEW served2 \in Snapshot \cup {None},
           EngineFits(e, posted, by_hand, lost, served),
           by_hand => by_hand2, lost => lost2, lost2 \/ Follows(served2, served)
    PROVE  EngineFits(e, posted, by_hand2, lost2, served2)
<1>1. Generation(served) \in Int /\ Generation(served2) \in Int
    BY GenerationType
<1>2. Generation(e.remote) \in Int
    BY GenerationType DEF EngineFits, Engine
<1>3. e.phase # "down" => StateFits(e.state, posted, by_hand2, lost2, served2)
    BY StateGoesOnFitting DEF EngineFits
<1>4. e.phase = "fetched" => RemoteFits(e, posted, by_hand2, lost2, served2)
    BY <1>1, <1>2 DEF EngineFits, RemoteFits, Follows
<1> QED
    BY <1>3, <1>4 DEF EngineFits

LEMMA FreshFits ==
    ASSUME NEW posted, NEW by_hand, NEW lost, NEW served \in Snapshot \cup {None},
           posted = {}
    PROVE  StateFits(Fresh, posted, by_hand, lost, served)
<1>1. Generation(served) >= 0 /\ Generation(None) = 0
    BY GenerationType DEF Generation
<1> QED
    BY <1>1 DEF StateFits, Fresh, RenewalState, validate

\* The process of a new engine, or none.
LEMMA DownFits ==
    ASSUME NEW posted, NEW by_hand, NEW lost, NEW served
    PROVE  EngineFits(Down, posted, by_hand, lost, served)
<1>1. Down \in Engine
    BY TrustBounds DEF Down, Engine, Phase, Fresh, RenewalState
<1>2. None # "rollback" /\ None # "fork"
    BY NoneIsNothing DEF Reason
<1> QED
    BY <1>1, <1>2 DEF Down, EngineFits

\* The reasons that verify_remote and objection give.
LEMMA ObjectionType ==
    ASSUME NEW state, NEW remote, NEW now
    PROVE  objection(state, remote, now) \in Reason \cup {None}
BY DEF objection, verify_remote, Reason

\* A served snapshot is a rollback only if a publication was undone, and a fork
\* only if an operator has published: without one, both were posted.
LEMMA ObjectionHasReason ==
    ASSUME NEW e \in Engine, NEW posted, posted \subseteq Snapshot,
           NEW by_hand \in BOOLEAN, NEW lost \in BOOLEAN, NEW served, NEW now,
           StateFits(e.state, posted, by_hand, lost, served),
           RemoteFits(e, posted, by_hand, lost, served),
           \A a, b \in posted : a.generation = b.generation => a = b
    PROVE  /\ objection(e.state, e.remote, now) = "rollback" => lost
           /\ objection(e.state, e.remote, now) = "fork" => by_hand \/ lost
<1> DEFINE x == e.state
           c == Generation(x.committed)
<1>1. /\ x \in RenewalState /\ x.committed \in Snapshot \cup {None}
      /\ x.pending \in Snapshot \cup {None} /\ e.remote \in Snapshot \cup {None}
    BY DEF Engine, RenewalState
<1>2. /\ c \in Int /\ c >= 0 /\ Generation(e.remote) \in Int
      /\ (c = 0 <=> x.committed = None)
      /\ (e.remote # None => e.remote.generation = Generation(e.remote))
      /\ (x.committed # None => x.committed.generation = c)
      /\ Generation(None) = 0
    BY <1>1, GenerationType DEF Generation
<1>3. None \notin {"rollback", "fork", "authority", "remote"}
    BY NoneIsNothing DEF Reason
<1>4. lost \/ c <= Generation(e.remote)
    BY DEF RemoteFits
<1>5. ASSUME objection(x, e.remote, now) = "rollback"
      PROVE  lost
  <2>1. CASE e.remote = None
    BY <1>2, <1>3, <1>4, <1>5, <2>1 DEF objection, StateFits
  <2>2. CASE e.remote # None
    BY <1>2, <1>3, <1>4, <1>5, <2>2 DEF objection, verify_remote
  <2> QED
    BY <2>1, <2>2
<1>6. ASSUME objection(x, e.remote, now) = "fork", ~ by_hand, ~ lost
      PROVE  FALSE
  <2>1. /\ e.remote # None /\ ~ (e.remote.generation < c) /\ e.remote # x.committed
        /\ x.pending = None => ~ (e.remote.generation > c)
        /\ x.pending # None => /\ ~ (e.remote.generation > x.pending.generation)
                               /\ e.remote # x.pending
    BY <1>3, <1>6 DEF objection, verify_remote
  <2>2. e.remote \in posted /\ x.committed \in posted \cup {None}
    BY <1>6, <2>1 DEF RemoteFits, StateFits
  <2>3. x.pending # None => x.pending.generation = c + 1
    BY DEF StateFits, validate
  <2>4. x.pending = e.remote \/ c >= e.remote.generation
    BY <2>2 DEF StateFits
  <2>5. e.remote.generation = c
    BY <1>2, <2>1, <2>3, <2>4
  <2>6. x.committed # None
    BY <1>1, <1>2, <2>1, <2>5, GenerationType
  <2> QED
    BY <1>2, <2>1, <2>2, <2>5, <2>6
<1> QED
    BY <1>5, <1>6

\* The state after a served snapshot was accepted leaves nothing behind.
LEMMA ReconcileFits ==
    ASSUME NEW e \in Engine, NEW posted, posted \subseteq Snapshot,
           NEW by_hand \in BOOLEAN, NEW lost \in BOOLEAN, NEW served, NEW now,
           StateFits(e.state, posted, by_hand, lost, served),
           RemoteFits(e, posted, by_hand, lost, served),
           objection(e.state, e.remote, now) = None
    PROVE  StateFits(reconcile(e.state, e.remote), posted, by_hand, lost, served)
<1> DEFINE x == e.state
           c == Generation(x.committed)
<1>1. /\ x \in RenewalState /\ x.committed \in Snapshot \cup {None}
      /\ x.pending \in Snapshot \cup {None} /\ e.remote \in Snapshot \cup {None}
    BY DEF Engine, RenewalState
<1>2. CASE e.remote = None \/ e.remote = x.committed
    BY <1>2 DEF reconcile
<1>3. CASE e.remote # None /\ e.remote # x.committed
  <2>1. PICK y : y = Commit(e.remote)
    OBVIOUS
  <2>2. /\ y \in RenewalState /\ y.committed = e.remote /\ y.pending = None
    BY <1>1, <2>1 DEF Commit, RenewalState
  <2>3. /\ c \in Int /\ e.remote.generation \in Int /\ e.remote.generation = Generation(e.remote)
        /\ (x.pending # None => x.pending.generation \in Int)
    BY <1>1, <1>3, GenerationType DEF Snapshot
  <2>4. IF x.pending = None THEN e.remote.generation > c
        ELSE e.remote.generation > x.pending.generation \/ e.remote = x.pending
    <3>1. None \notin {"rollback", "fork", "authority", "remote"}
      BY NoneIsNothing DEF Reason
    <3> QED
      BY <1>3, <3>1 DEF objection, verify_remote
  <2>5. x.pending # None => x.pending.generation = c + 1
    BY DEF StateFits, validate
  <2>6. e.remote.generation > c
    BY <2>3, <2>4, <2>5
  <2>7. ASSUME NEW s \in posted
        PROVE  Generation(y.committed) >= s.generation
    <3>1. s.generation \in Int /\ s # None
      BY NoSnapshot DEF Snapshot
    <3>2. x.pending = s \/ c >= s.generation
      BY <2>7 DEF StateFits
    <3> QED
      BY <2>2, <2>3, <2>4, <2>6, <3>1, <3>2
  <2>8. by_hand \/ y.committed \in posted \cup {None}
    BY <2>2 DEF RemoteFits
  <2>9. lost \/ Generation(y.committed) <= Generation(served)
    BY <2>2 DEF RemoteFits
  <2>10. StateFits(y, posted, by_hand, lost, served)
    BY <2>2, <2>7, <2>8, <2>9 DEF StateFits, validate
  <2> QED
    BY <1>3, <2>1, <2>10 DEF reconcile
<1> QED
    BY <1>2, <1>3

-----------------------------------------------------------------------------
(* The renewer's steps.                                                      *)

\* An engine moves on to a state that fits, and the files fit after the step.
FittingMove(p) ==
    /\ \E e : /\ EngineFits(e, sent', manual, undone, current.snapshot)
              /\ engine' = [engine EXCEPT ![p] = e]
    /\ StateFits(rfile', sent', manual, undone, current.snapshot)
    /\ StateFits(rstable', sent', manual, undone, current.snapshot)
    /\ incidents' \in 0..MaxIncidents

\* What the invariant says of a running engine.
LEMMA RunningEngine ==
    ASSUME RenewalInv, NEW p \in Process, engine[p].phase # "down"
    PROVE  /\ lock = p
           /\ EngineFits(engine[p], sent, manual, undone, current.snapshot)
           /\ StateFits(engine[p].state, sent, manual, undone, current.snapshot)
           /\ engine[p] \in Engine /\ engine[p].why \in Reason \cup {None}
           /\ incidents \in 0..MaxIncidents /\ wall \in 0..MaxClock
           /\ sent \subseteq Snapshot /\ manual \in BOOLEAN /\ undone \in BOOLEAN
           /\ current.snapshot \in Snapshot \cup {None}
<1>1. EngineFits(engine[p], sent, manual, undone, current.snapshot)
    BY DEF RenewalInv, EnginesFit
<1>2. engine[p] \in Engine
    BY <1>1 DEF EngineFits
<1>3. engine[p].why \in Reason \cup {None}
    BY <1>2 DEF Engine
<1>4. current.snapshot \in Snapshot \cup {None}
    BY DEF RenewalInv, DistributorInv, DistributorTypeOK, DurableState
<1>5. StateFits(engine[p].state, sent, manual, undone, current.snapshot)
    BY <1>1 DEF EngineFits
<1> QED
    BY <1>1, <1>2, <1>3, <1>4, <1>5
       DEF RenewalInv, RenewalTypes, LockHeld, DistributorInv, DistributorTypeOK

\* Such a move of the engine that holds the lock keeps the invariant: nobody
\* else runs, so that what it posts concerns nobody else.
LEMMA MoveKeeps ==
    ASSUME RenewalInv, NEW p \in Process, lock = p, FittingMove(p),
           UNCHANGED <<dvars, wall, lock, manual>>,
           sent \subseteq sent', sent' \subseteq Snapshot, wire' \subseteq sent',
           OnePerGeneration'
    PROVE  RenewalInv'
<1>1. PICK e : /\ EngineFits(e, sent', manual, undone, current.snapshot)
               /\ engine' = [engine EXCEPT ![p] = e]
    BY DEF FittingMove
<1>2. p # None
    BY NoneIsNothing
<1>3. engine \in [Process -> Engine] /\ e \in Engine
    BY <1>1 DEF RenewalInv, RenewalTypes, EngineFits
<1>4. DistributorInv'
    BY DEF RenewalInv, DistributorInv, DistributorTypeOK, DiskInv, AcknowledgedSurvives,
           ReceiptsFit, FittingMove, dvars, dhistory, Follows, Generation,
           validate_durable_state, receipt_matches_snapshot, receipt_receiver_slot, ring_verifies
<1>5. RenewalTypes'
    BY <1>1, <1>3 DEF RenewalInv, RenewalTypes
<1>6. ServedWasPosted'
    BY DEF RenewalInv, ServedWasPosted, dvars
<1>7. FilesFit'
    BY DEF FittingMove, FilesFit, dvars, dhistory
<1>8. EnginesFit'
  <2>1. SUFFICES ASSUME NEW q \in Process
                 PROVE  EngineFits(engine'[q], sent', manual, undone, current.snapshot)
    BY DEF EnginesFit, dvars, dhistory
  <2>2. CASE q = p
    BY <1>1, <1>3, <2>2
  <2>3. CASE q # p
    <3>1. engine'[q] = engine[q]
      BY <1>1, <1>3, <2>3
    <3>2. EngineFits(engine[q], sent, manual, undone, current.snapshot)
          /\ engine[q].phase = "down"
      BY <2>3 DEF RenewalInv, EnginesFit, LockHeld
    <3> QED
      BY <3>1, <3>2 DEF EngineFits
  <2> QED
    BY <2>2, <2>3
<1>9. LockHeld'
    BY <1>1, <1>3 DEF RenewalInv, LockHeld
<1> QED
    BY <1>4, <1>5, <1>6, <1>7, <1>8, <1>9 DEF RenewalInv

\* The replacement of the state file by one that fits, whatever its outcome.
LEMMA PersistFits ==
    ASSUME RenewalInv, NEW x, NEW outcome, NEW n \in Nat, persist(x, outcome, n),
           StateFits(x, sent, manual, undone, current.snapshot), sent' = sent
    PROVE  /\ StateFits(rfile', sent', manual, undone, current.snapshot)
           /\ StateFits(rstable', sent', manual, undone, current.snapshot)
           /\ incidents' \in 0..MaxIncidents
<1>1. n + Faults(outcome) \in Nat
    BY FaultsType
<1>2. incidents' \in 0..MaxIncidents
    BY <1>1, IncidentsAreBounded DEF persist, RenewalInv, DistributorInv, DistributorTypeOK
<1>3. rfile' \in {rfile, x} /\ rstable' \in {rstable, x}
    BY DEF persist, Replaced, Stabilized
<1> QED
    BY <1>2, <1>3 DEF RenewalInv, FilesFit

\* An engine that has failed fits, if the reason it gives is true.
LEMMA FailedFits ==
    ASSUME NEW e \in Engine, NEW posted, NEW by_hand, NEW lost, NEW served, NEW why \in Reason,
           StateFits(e.state, posted, by_hand, lost, served),
           why = "rollback" => lost, why = "fork" => by_hand \/ lost
    PROVE  EngineFits(Failed(e, why), posted, by_hand, lost, served)
<1>1. PICK f : f = Failed(e, why)
    OBVIOUS
<1>2. f \in Engine /\ f.phase = "failed" /\ f.why = why /\ f.state = e.state
    BY <1>1 DEF Failed, Engine, Phase
<1> QED
    BY <1>1, <1>2 DEF EngineFits

\* fail_closed, for a reason that is true.
LEMMA FailClosedFits ==
    ASSUME RenewalInv, NEW p \in Process, NEW e \in Engine, NEW why \in Reason, NEW n \in Nat,
           StateFits(e.state, sent, manual, undone, current.snapshot), sent' = sent,
           why = "rollback" => undone, why = "fork" => manual \/ undone,
           fail_closed(p, e, why, n)
    PROVE  FittingMove(p)
<1>1. PICK outcome \in Outcome :
        /\ persist(e.state, outcome, n)
        /\ Set(p, Failed([e EXCEPT !.remote = None, !.answer = None],
                         CASE outcome = "ok" -> why
                           [] outcome = "before" -> "state"
                           [] outcome = "after" -> "uncertain"))
    BY DEF fail_closed
<1>2. PICK f : f = [e EXCEPT !.remote = None, !.answer = None]
    OBVIOUS
<1>3. f \in Engine /\ f.state = e.state
    BY <1>2 DEF Engine
<1>4. PICK w : w = CASE outcome = "ok" -> why
                     [] outcome = "before" -> "state"
                     [] outcome = "after" -> "uncertain"
    OBVIOUS
<1>5. w \in Reason /\ w \in {why, "state", "uncertain"}
    BY <1>4 DEF Outcome, Reason
<1>6. EngineFits(Failed(f, w), sent, manual, undone, current.snapshot)
    BY <1>3, <1>5, FailedFits
<1>7. engine' = [engine EXCEPT ![p] = Failed(f, w)]
    BY <1>1, <1>2, <1>4 DEF Set
<1> QED
    BY <1>1, <1>6, <1>7, PersistFits DEF FittingMove

\* persist_state: the engine goes on with the state it has written, or fails.
LEMMA PersistStateFits ==
    ASSUME RenewalInv, NEW p \in Process, engine[p].phase # "down",
           NEW e, EngineFits(e, sent, manual, undone, current.snapshot), e.phase # "down",
           NEW outcome \in Outcome, NEW n \in Nat, sent' = sent,
           persist_state(p, e, outcome, n)
    PROVE  FittingMove(p)
<1>1. e \in Engine /\ StateFits(e.state, sent, manual, undone, current.snapshot)
    BY DEF EngineFits
<1>2. CASE outcome = "ok" /\ persist(e.state, outcome, n) /\ Set(p, e)
    BY <1>1, <1>2, PersistFits DEF FittingMove, Set
<1>3. CASE outcome = "before" /\ fail_closed(p, engine[p], "state", n + 1)
    BY <1>3, RunningEngine, FailClosedFits DEF Reason
<1>4. CASE outcome = "after" /\ persist(e.state, outcome, n) /\ Set(p, Failed(e, "uncertain"))
  <2>1. EngineFits(Failed(e, "uncertain"), sent, manual, undone, current.snapshot)
    BY <1>1, FailedFits DEF Reason
  <2> QED
    BY <1>1, <1>4, <2>1, PersistFits DEF FittingMove, Set
<1> QED
    BY <1>2, <1>3, <1>4 DEF persist_state

\* The engine of a step that reads the clock.
LEMMA ObservingFits ==
    ASSUME NEW d, NEW posted, NEW by_hand, NEW lost, NEW served,
           EngineFits(d, posted, by_hand, lost, served), wall \in 0..MaxClock
    PROVE  \E e \in Engine :
               /\ e = [d EXCEPT !.now = Observe(@)]
               /\ e.phase = d.phase /\ e.state = d.state /\ e.remote = d.remote
               /\ e.why = d.why /\ e.answer = d.answer
               /\ EngineFits(e, posted, by_hand, lost, served)
               /\ wall > 0 => e.now > 0
<1>1. d \in Engine /\ d.now \in 0..MaxClock
    BY DEF EngineFits, Engine
<1>2. PICK w \in Int : w = wall
    OBVIOUS
<1>3. PICK m \in Nat : m = MaxClock
    BY TrustBounds
<1>4. PICK t : t = Observe(d.now)
    OBVIOUS
<1>5. t \in 0..MaxClock /\ t >= d.now /\ (wall > 0 => t > 0)
    BY <1>1, <1>2, <1>3, <1>4 DEF Observe
<1>6. PICK e : e = [d EXCEPT !.now = Observe(@)]
    OBVIOUS
<1>7. /\ e \in Engine /\ e.now = t
      /\ e.phase = d.phase /\ e.state = d.state /\ e.remote = d.remote
      /\ e.why = d.why /\ e.answer = d.answer
    BY <1>1, <1>4, <1>5, <1>6 DEF Engine
<1>8. e.phase \in {"fetched", "reconciled", "posting"} => e.now > 0
    BY <1>1, <1>3, <1>5, <1>7 DEF EngineFits
<1>9. EngineFits(e, posted, by_hand, lost, served)
    BY <1>7, <1>8 DEF EngineFits, RemoteFits
<1> QED
    BY <1>5, <1>6, <1>7, <1>9

\* An engine that goes to a phase in which nothing is known of the served
\* snapshot and no time is needed fits.
LEMMA PhaseFits ==
    ASSUME NEW d \in Engine, NEW posted, NEW by_hand, NEW lost, NEW served, NEW e \in Engine,
           EngineFits(d, posted, by_hand, lost, served), d.phase # "down",
           e.phase \in {"idle", "reconciled", "posting"},
           e.phase = "idle" \/ e.now > 0,
           StateFits(e.state, posted, by_hand, lost, served), e.why = d.why
    PROVE  EngineFits(e, posted, by_hand, lost, served)
BY DEF EngineFits

LEMMA FetchKeeps ==
    ASSUME RenewalInv, NEW p \in Process, Fetch(p)
    PROVE  RenewalInv'
<1>1. engine[p].phase = "idle" /\ wall > 0
    BY DEF Fetch
<1>2. PICK e \in Engine :
        /\ e = [engine[p] EXCEPT !.now = Observe(@)]
        /\ e.phase = "idle" /\ e.state = engine[p].state /\ e.why = engine[p].why
        /\ EngineFits(e, sent, manual, undone, current.snapshot)
        /\ e.now > 0
    BY <1>1, RunningEngine, ObservingFits
<1>3. PICK f : f = Fetched(e)
    OBVIOUS
<1>4. current.snapshot \in Snapshot \cup {None}
    BY <1>1, RunningEngine
<1>5. /\ f \in Engine /\ f.phase = "fetched" /\ f.remote = current.snapshot
      /\ f.now = e.now /\ f.state = e.state /\ f.why = e.why
    BY <1>3, <1>4 DEF Fetched, Engine, Phase
<1>6. ServedWasPosted
    BY DEF RenewalInv
<1>7. StateFits(e.state, sent, manual, undone, current.snapshot)
    BY <1>2 DEF EngineFits
<1>8. Generation(current.snapshot) \in Int
    BY <1>4, GenerationType
<1>9. RemoteFits(f, sent, manual, undone, current.snapshot)
    BY <1>5, <1>6, <1>7, <1>8 DEF RemoteFits, ServedWasPosted, StateFits
<1>10. EngineFits(f, sent, manual, undone, current.snapshot)
    BY <1>2, <1>5, <1>7, <1>9 DEF EngineFits
<1>11. engine' = [engine EXCEPT ![p] = f]
    BY <1>2, <1>3 DEF Fetch, Set
<1>12. /\ UNCHANGED <<dvars, wall, lock, manual, rfile, rstable, wire, sent, incidents>>
    BY DEF Fetch, disk, posts
<1>13. FittingMove(p)
    BY <1>1, <1>10, <1>11, <1>12, RunningEngine DEF FittingMove, RenewalInv, FilesFit
<1> QED
    BY <1>1, <1>12, <1>13, RunningEngine, MoveKeeps
       DEF RenewalInv, RenewalTypes, OnePerGeneration

\* A failed or repeated request.
LEMMA TransportErrorFits ==
    ASSUME RenewalInv, NEW p \in Process, engine[p].phase # "down",
           NEW e, EngineFits(e, sent, manual, undone, current.snapshot), e.phase # "down",
           NEW transient \in BOOLEAN, NEW n \in Nat, sent' = sent,
           handle_transport_error(p, e, transient, n)
    PROVE  FittingMove(p)
<1>1. CASE transient
    BY <1>1, PersistStateFits DEF handle_transport_error
<1>2. CASE ~ transient
  <2>1. e \in Engine /\ StateFits(e.state, sent, manual, undone, current.snapshot)
    BY DEF EngineFits
  <2> QED
    BY <1>2, <2>1, FailClosedFits DEF handle_transport_error, Reason
<1> QED
    BY <1>1, <1>2

LEMMA GetFailsKeeps ==
    ASSUME RenewalInv, NEW p \in Process, GetFails(p)
    PROVE  RenewalInv'
<1>1. engine[p].phase = "idle"
    BY DEF GetFails
<1>2. PICK e \in Engine :
        /\ e = [engine[p] EXCEPT !.now = Observe(@)]
        /\ e.phase = "idle"
        /\ EngineFits(e, sent, manual, undone, current.snapshot)
    BY <1>1, RunningEngine, ObservingFits
<1>3. UNCHANGED <<dvars, wall, lock, manual, wire, sent>>
    BY DEF GetFails, posts
<1>4. FittingMove(p)
    BY <1>1, <1>2, <1>3, TransportErrorFits DEF GetFails
<1> QED
    BY <1>1, <1>3, <1>4, RunningEngine, MoveKeeps
       DEF RenewalInv, RenewalTypes, OnePerGeneration

LEMMA ClockFailsKeeps ==
    ASSUME RenewalInv, NEW p \in Process, ClockFails(p)
    PROVE  RenewalInv'
<1>1. engine[p].phase # "down"
    BY DEF ClockFails
<1>2. UNCHANGED <<dvars, wall, lock, manual, wire, sent>>
    BY DEF ClockFails, posts
<1>3. FittingMove(p)
    BY <1>1, <1>2, RunningEngine, FailClosedFits DEF ClockFails, Reason
<1> QED
    BY <1>1, <1>2, <1>3, RunningEngine, MoveKeeps
       DEF RenewalInv, RenewalTypes, OnePerGeneration

LEMMA ReconcileKeeps ==
    ASSUME RenewalInv, NEW p \in Process, Reconcile(p)
    PROVE  RenewalInv'
<1>1. engine[p].phase = "fetched" /\ wall > 0
    BY DEF Reconcile
<1>2. PICK e \in Engine :
        /\ e = [engine[p] EXCEPT !.now = Observe(@)]
        /\ e.phase = "fetched" /\ e.state = engine[p].state /\ e.why = engine[p].why
        /\ EngineFits(e, sent, manual, undone, current.snapshot)
        /\ e.now > 0
    BY <1>1, RunningEngine, ObservingFits
<1>3. /\ UNCHANGED <<dvars, wall, lock, manual, wire, sent>>
    BY DEF Reconcile, posts
<1>4. /\ StateFits(e.state, sent, manual, undone, current.snapshot)
      /\ RemoteFits(e, sent, manual, undone, current.snapshot)
    BY <1>2 DEF EngineFits
<1>5. PICK why : why = objection(e.state, e.remote, e.now)
    OBVIOUS
<1>6. /\ why \in Reason \cup {None}
      /\ why = "rollback" => undone
      /\ why = "fork" => manual \/ undone
  <2>1. /\ sent \subseteq Snapshot /\ manual \in BOOLEAN /\ undone \in BOOLEAN
        /\ \A a, b \in sent : a.generation = b.generation => a = b
    BY <1>1, RunningEngine DEF RenewalInv, OnePerGeneration
  <2>2. why \in Reason \cup {None}
    BY <1>5, ObjectionType
  <2>3. /\ objection(e.state, e.remote, e.now) = "rollback" => undone
        /\ objection(e.state, e.remote, e.now) = "fork" => manual \/ undone
    BY <1>4, <2>1, ObjectionHasReason
  <2> QED
    BY <1>5, <2>2, <2>3
<1>7. PICK next : next = reconcile(e.state, e.remote)
    OBVIOUS
<1>8. PICK done : done = [e EXCEPT !.phase = "reconciled", !.remote = None, !.state = next]
    OBVIOUS
<1>9. \/ why # None /\ fail_closed(p, e, why, 0)
      \/ why = None /\ next = e.state /\ Set(p, done) /\ UNCHANGED <<disk, incidents>>
      \/ why = None /\ \E outcome \in Outcome : persist_state(p, done, outcome, 0)
    BY <1>2, <1>5, <1>7, <1>8 DEF Reconcile
<1>10. CASE why # None /\ fail_closed(p, e, why, 0)
  <2>1. FittingMove(p)
    BY <1>3, <1>4, <1>6, <1>10, FailClosedFits
  <2> QED
    BY <1>1, <1>3, <2>1, RunningEngine, MoveKeeps
       DEF RenewalInv, RenewalTypes, OnePerGeneration
<1>11. CASE why = None
  <2>1. StateFits(next, sent, manual, undone, current.snapshot)
    BY <1>1, <1>4, <1>5, <1>7, <1>11, ReconcileFits, RunningEngine
  <2>2. next \in RenewalState
    BY <2>1 DEF StateFits
  <2>3. /\ done \in Engine /\ done.phase = "reconciled" /\ done.state = next
        /\ done.now = e.now /\ done.why = e.why
    BY <1>8, <2>2 DEF Engine, Phase
  <2>4. EngineFits(done, sent, manual, undone, current.snapshot)
    BY <1>1, <1>2, <2>1, <2>3, PhaseFits
  <2>5. CASE Set(p, done) /\ UNCHANGED <<disk, incidents>>
    <3>1. FittingMove(p)
      BY <1>1, <1>3, <2>4, <2>5, RunningEngine DEF FittingMove, RenewalInv, FilesFit, disk, Set
    <3> QED
      BY <1>1, <1>3, <3>1, RunningEngine, MoveKeeps
         DEF RenewalInv, RenewalTypes, OnePerGeneration
  <2>6. CASE \E outcome \in Outcome : persist_state(p, done, outcome, 0)
    <3>1. FittingMove(p)
      BY <1>1, <1>3, <2>3, <2>4, <2>6, PersistStateFits
    <3> QED
      BY <1>1, <1>3, <3>1, RunningEngine, MoveKeeps
         DEF RenewalInv, RenewalTypes, OnePerGeneration
  <2> QED
    BY <1>9, <1>11, <2>5, <2>6
<1> QED
    BY <1>9, <1>10, <1>11

\* The next generation may be staged: nothing was staged, so that nothing of
\* it was posted.
LEMMA StagingFits ==
    ASSUME NEW e \in Engine, NEW posted, posted \subseteq Snapshot,
           NEW by_hand, NEW lost, NEW served,
           StateFits(e.state, posted, by_hand, lost, served),
           e.state.pending = None, e.now > 0,
           Generation(e.state.committed) < MaxGeneration
    PROVE  \E f \in Engine :
               /\ f = [e EXCEPT !.state.pending = sign_next(e.state.committed, e.now)]
               /\ f.phase = e.phase /\ f.why = e.why
               /\ StateFits(f.state, posted, by_hand, lost, served)
<1>1. PICK c \in Snapshot \cup {None} : c = e.state.committed
    BY DEF Engine, RenewalState
<1>2. PICK g \in 0..MaxGeneration : g = Generation(c)
    BY GenerationType
<1>3. PICK s : s = sign_next(c, e.now)
    OBVIOUS
<1>4. e.now \in 1..MaxClock
    BY TrustBounds DEF Engine
<1>5. g + 1 \in 1..MaxGeneration
    BY <1>1, <1>2, TrustBounds
<1>6. s \in Snapshot /\ s.generation = g + 1 /\ s # None
    BY <1>2, <1>3, <1>4, <1>5, NoSnapshot DEF sign_next, Snapshot, Kind
<1>7. PICK f : f = [e EXCEPT !.state.pending = sign_next(e.state.committed, e.now)]
    OBVIOUS
<1>8. e.state \in RenewalState
    BY DEF Engine
<1>9. /\ f \in Engine /\ f.phase = e.phase /\ f.why = e.why
      /\ f.state.committed = c /\ f.state.pending = s /\ f.state \in RenewalState
    BY <1>1, <1>3, <1>6, <1>7, <1>8 DEF Engine, RenewalState
<1>10. ASSUME NEW t \in posted PROVE Generation(c) >= t.generation
    BY <1>1, NoSnapshot DEF StateFits
<1>11. StateFits(f.state, posted, by_hand, lost, served)
    BY <1>1, <1>2, <1>6, <1>9, <1>10 DEF StateFits, validate
<1> QED
    BY <1>7, <1>9, <1>11

LEMMA StageKeeps ==
    ASSUME RenewalInv, NEW p \in Process, Stage(p)
    PROVE  RenewalInv'
<1>1. engine[p].phase = "reconciled" /\ engine[p].state.pending = None
    BY DEF Stage
<1>2. PICK d \in Engine : d = engine[p]
    BY <1>1, RunningEngine
<1>3. PICK e : e = [d EXCEPT !.phase = "idle"]
    OBVIOUS
<1>4. /\ e \in Engine /\ e.phase = "idle" /\ e.state = d.state /\ e.now = d.now
      /\ e.why = d.why
    BY <1>3 DEF Engine, Phase
<1>5. /\ EngineFits(d, sent, manual, undone, current.snapshot)
      /\ StateFits(e.state, sent, manual, undone, current.snapshot)
      /\ e.now > 0
    BY <1>1, <1>2, <1>4, RunningEngine DEF EngineFits
<1>6. EngineFits(e, sent, manual, undone, current.snapshot)
    BY <1>1, <1>2, <1>4, <1>5, PhaseFits
<1>7. /\ UNCHANGED <<dvars, wall, lock, manual, wire, sent>>
    BY DEF Stage, posts
<1>8. CASE Set(p, e) /\ UNCHANGED <<disk, incidents>>
  <2>1. FittingMove(p)
    BY <1>1, <1>6, <1>7, <1>8, RunningEngine DEF FittingMove, RenewalInv, FilesFit, disk, Set
  <2> QED
    BY <1>1, <1>7, <2>1, RunningEngine, MoveKeeps
       DEF RenewalInv, RenewalTypes, OnePerGeneration
<1>9. CASE create_pending(p, e)
  <2>1. PICK f \in Engine :
           /\ f = [e EXCEPT !.state.pending = sign_next(e.state.committed, e.now)]
           /\ f.phase = "idle" /\ f.why = e.why
           /\ StateFits(f.state, sent, manual, undone, current.snapshot)
    <3>1. e.state.pending = None /\ Generation(e.state.committed) < MaxGeneration
      BY <1>1, <1>2, <1>4, <1>9 DEF create_pending
    <3>2. sent \subseteq Snapshot
      BY DEF RenewalInv, RenewalTypes
    <3>3. \E f \in Engine :
             /\ f = [e EXCEPT !.state.pending = sign_next(e.state.committed, e.now)]
             /\ f.phase = e.phase /\ f.why = e.why
             /\ StateFits(f.state, sent, manual, undone, current.snapshot)
      BY <1>4, <1>5, <3>1, <3>2, StagingFits
    <3> QED
      BY <1>4, <3>3
  <2>2. EngineFits(f, sent, manual, undone, current.snapshot)
    BY <1>4, <1>6, <2>1, PhaseFits
  <2>3. PICK outcome \in Outcome : persist_state(p, f, outcome, 0)
    BY <1>9, <2>1 DEF create_pending
  <2>4. FittingMove(p)
    BY <1>1, <1>7, <2>1, <2>2, <2>3, PersistStateFits
  <2> QED
    BY <1>1, <1>7, <2>4, RunningEngine, MoveKeeps
       DEF RenewalInv, RenewalTypes, OnePerGeneration
<1> QED
    BY <1>2, <1>3, <1>8, <1>9 DEF Stage

\* What is staged may be posted: a state that has it staged leaves it behind no
\* more than before, and it is the only one of its generation.
LEMMA PostingFits ==
    ASSUME NEW x, NEW posted, NEW by_hand, NEW lost, NEW served,
           StateFits(x, posted, by_hand, lost, served), x.pending # None,
           posted \subseteq Snapshot,
           \A a, b \in posted : a.generation = b.generation => a = b
    PROVE  /\ StateFits(x, posted \cup {x.pending}, by_hand, lost, served)
           /\ x.pending \in Snapshot
           /\ \A a, b \in posted \cup {x.pending} : a.generation = b.generation => a = b
<1>1. StateFits(x, posted \cup {x.pending}, by_hand, lost, served)
    BY DEF StateFits
<1>2. PICK s \in Snapshot : s = x.pending
    BY DEF StateFits, RenewalState
<1>3. PICK c \in Int : c = Generation(x.committed)
    BY GenerationType DEF StateFits, RenewalState
<1>4. s.generation = c + 1
    BY <1>2, <1>3 DEF StateFits, validate
<1>5. ASSUME NEW a \in posted, a.generation = s.generation
      PROVE  a = s
    BY <1>2, <1>3, <1>4, <1>5 DEF StateFits
<1> QED
    BY <1>1, <1>2, <1>5

LEMMA PublishPendingKeeps ==
    ASSUME RenewalInv, NEW p \in Process, Publish(p)
    PROVE  RenewalInv'
<1>1. /\ engine[p].phase = "reconciled" /\ engine[p].state.pending # None /\ wall > 0
    BY DEF Publish
<1>2. PICK e \in Engine :
        /\ e = [engine[p] EXCEPT !.now = Observe(@)]
        /\ e.phase = "reconciled" /\ e.state = engine[p].state /\ e.why = engine[p].why
        /\ EngineFits(e, sent, manual, undone, current.snapshot)
        /\ e.now > 0
    BY <1>1, RunningEngine, ObservingFits
<1>3. PICK s : s = e.state.pending
    OBVIOUS
<1>4. PICK f : f = [e EXCEPT !.phase = "posting"]
    OBVIOUS
<1>5. /\ f \in Engine /\ f.phase = "posting" /\ f.state = e.state /\ f.now = e.now
      /\ f.why = e.why
    BY <1>4 DEF Engine, Phase
<1>6. StateFits(e.state, sent, manual, undone, current.snapshot)
    BY <1>2 DEF EngineFits
<1>7. EngineFits(f, sent, manual, undone, current.snapshot)
    BY <1>2, <1>5, <1>6, PhaseFits
<1>8. UNCHANGED <<dvars, wall, lock, manual>>
    BY DEF Publish
<1>9. /\ StateFits(e.state, sent \cup {s}, manual, undone, current.snapshot)
      /\ s \in Snapshot
      /\ \A a, b \in sent \cup {s} : a.generation = b.generation => a = b
  <2>1. /\ sent \subseteq Snapshot /\ e.state.pending # None
        /\ \A a, b \in sent : a.generation = b.generation => a = b
    BY <1>1, <1>2, RunningEngine DEF RenewalInv, OnePerGeneration
  <2>2. PICK x, u : x = e.state /\ u = sent
    OBVIOUS
  <2>3. /\ StateFits(x, u \cup {x.pending}, manual, undone, current.snapshot)
        /\ x.pending \in Snapshot
        /\ \A a, b \in u \cup {x.pending} : a.generation = b.generation => a = b
    BY <1>6, <2>1, <2>2, PostingFits
  <2>4. sent \cup {s} = u \cup {x.pending}
    BY <1>3, <2>2
  <2> QED
    BY <1>3, <2>2, <2>3, <2>4
<1>10. \/ fail_closed(p, e, "expired", 0) /\ UNCHANGED <<wire, sent>>
       \/ \E outcome \in Outcome :
                   /\ persist_state(p, f, outcome, 0)
                   /\ wire' = IF outcome = "ok" THEN wire \cup {s} ELSE wire
                   /\ sent' = IF outcome = "ok" THEN sent \cup {s} ELSE sent
    BY <1>2, <1>3, <1>4 DEF Publish
<1>11. CASE fail_closed(p, e, "expired", 0) /\ UNCHANGED <<wire, sent>>
  <2>1. FittingMove(p)
    BY <1>6, <1>11, FailClosedFits DEF Reason
  <2> QED
    BY <1>1, <1>8, <1>11, <2>1, RunningEngine, MoveKeeps
       DEF RenewalInv, RenewalTypes, OnePerGeneration
<1>12. CASE \E outcome \in Outcome :
                   /\ persist_state(p, f, outcome, 0)
                   /\ wire' = IF outcome = "ok" THEN wire \cup {s} ELSE wire
                   /\ sent' = IF outcome = "ok" THEN sent \cup {s} ELSE sent
  <2>1. PICK outcome \in Outcome :
                   /\ persist_state(p, f, outcome, 0)
                   /\ wire' = IF outcome = "ok" THEN wire \cup {s} ELSE wire
                   /\ sent' = IF outcome = "ok" THEN sent \cup {s} ELSE sent
    BY <1>12
  <2>2. CASE outcome # "ok"
    <3>1. FittingMove(p)
      BY <1>1, <1>5, <1>7, <2>1, <2>2, PersistStateFits
    <3> QED
      BY <1>1, <1>8, <2>1, <2>2, <3>1, RunningEngine, MoveKeeps
         DEF RenewalInv, RenewalTypes, OnePerGeneration
  <2>3. CASE outcome = "ok"
    <3>1. persist(f.state, "ok", 0) /\ Set(p, f)
      BY <2>1, <2>3 DEF persist_state
    <3>2. rfile' = e.state /\ rstable' = e.state
      BY <1>5, <3>1 DEF persist, Replaced, Stabilized
    <3>3. incidents' \in 0..MaxIncidents
      BY <1>5, <1>1, <3>1, RunningEngine, IncidentsAreBounded DEF persist, Faults
    <3>4. EngineFits(f, sent \cup {s}, manual, undone, current.snapshot)
      BY <1>5, <1>7, <1>9 DEF EngineFits
    <3>5. FittingMove(p)
      BY <1>9, <2>1, <2>3, <3>1, <3>2, <3>3, <3>4 DEF FittingMove, Set
    <3>6. OnePerGeneration'
      BY <1>9, <2>1, <2>3 DEF OnePerGeneration
    <3>7. sent \subseteq sent' /\ sent' \subseteq Snapshot /\ wire' \subseteq sent'
      BY <1>9, <2>1, <2>3 DEF RenewalInv, RenewalTypes
    <3> QED
      BY <1>1, <1>8, <3>5, <3>6, <3>7, RunningEngine, MoveKeeps
  <2> QED
    BY <2>2, <2>3
<1> QED
    BY <1>10, <1>11, <1>12

LEMMA AnsweredKeeps ==
    ASSUME RenewalInv, NEW p \in Process, Answered(p)
    PROVE  RenewalInv'
<1>1. engine[p].phase = "posting"
    BY DEF Answered
<1>2. PICK d \in Engine : d = engine[p]
    BY <1>1, RunningEngine
<1>3. PICK e : e = [d EXCEPT !.phase = "idle", !.answer = None]
    OBVIOUS
<1>4. e \in Engine /\ e.phase = "idle" /\ e.state = d.state /\ e.why = d.why
    BY <1>3 DEF Engine, Phase
<1>5. /\ EngineFits(d, sent, manual, undone, current.snapshot)
      /\ StateFits(e.state, sent, manual, undone, current.snapshot)
    BY <1>1, <1>2, <1>4, RunningEngine
<1>6. EngineFits(e, sent, manual, undone, current.snapshot)
    BY <1>1, <1>2, <1>4, <1>5, PhaseFits
<1>7. UNCHANGED <<dvars, wall, lock, manual, wire, sent>>
    BY DEF Answered, posts
<1>8. \/ fail_closed(p, e, "rejected", 0)
      \/ handle_transport_error(p, e, TRUE, 0)
      \/ Set(p, e) /\ UNCHANGED <<disk, incidents>>
    BY <1>2, <1>3 DEF Answered
<1>9. FittingMove(p)
  <2>1. CASE fail_closed(p, e, "rejected", 0)
    BY <1>4, <1>5, <1>7, <2>1, FailClosedFits DEF Reason
  <2>2. CASE handle_transport_error(p, e, TRUE, 0)
    BY <1>1, <1>4, <1>6, <1>7, <2>2, TransportErrorFits
  <2>3. CASE Set(p, e) /\ UNCHANGED <<disk, incidents>>
    BY <1>1, <1>6, <1>7, <2>3, RunningEngine DEF FittingMove, RenewalInv, FilesFit, disk, Set
  <2> QED
    BY <1>8, <2>1, <2>2, <2>3
<1> QED
    BY <1>1, <1>7, <1>9, RunningEngine, MoveKeeps
       DEF RenewalInv, RenewalTypes, OnePerGeneration

LEMMA PublishTimesOutKeeps ==
    ASSUME RenewalInv, NEW p \in Process, PublishTimesOut(p)
    PROVE  RenewalInv'
<1>1. engine[p].phase = "posting"
    BY DEF PublishTimesOut
<1>2. PICK d \in Engine : d = engine[p]
    BY <1>1, RunningEngine
<1>3. PICK e : e = [d EXCEPT !.phase = "idle", !.answer = None]
    OBVIOUS
<1>4. e \in Engine /\ e.phase = "idle" /\ e.state = d.state /\ e.why = d.why
    BY <1>3 DEF Engine, Phase
<1>5. /\ EngineFits(d, sent, manual, undone, current.snapshot)
      /\ StateFits(e.state, sent, manual, undone, current.snapshot)
    BY <1>1, <1>2, <1>4, RunningEngine
<1>6. EngineFits(e, sent, manual, undone, current.snapshot)
    BY <1>1, <1>2, <1>4, <1>5, PhaseFits
<1>7. UNCHANGED <<dvars, wall, lock, manual, sent>> /\ wire' \subseteq wire
    BY DEF PublishTimesOut
<1>8. PICK transient \in BOOLEAN : handle_transport_error(p, e, transient, 1)
    BY <1>2, <1>3 DEF PublishTimesOut
<1>9. FittingMove(p)
    BY <1>1, <1>4, <1>6, <1>7, <1>8, TransportErrorFits
<1> QED
    BY <1>1, <1>7, <1>9, RunningEngine, MoveKeeps
       DEF RenewalInv, RenewalTypes, OnePerGeneration

\* A new process takes the lock and what the file holds.
LEMMA OpenKeeps ==
    ASSUME RenewalInv, NEW p \in Process, Open(p)
    PROVE  RenewalInv'
<1>1. /\ lock = None /\ lock' = p /\ engine[p].phase = "down"
      /\ UNCHANGED <<dvars, incidents, wall, rfile, rstable, wire, sent, manual>>
    BY DEF Open, acquire, disk, posts
<1>2. PICK e : e = load_or_initialize(rfile)
    OBVIOUS
<1>3. StateFits(rfile, sent, manual, undone, current.snapshot) /\ rfile \in RenewalState
    BY DEF RenewalInv, FilesFit, StateFits
<1>4. /\ e \in Engine /\ e.phase = "idle" /\ e.state = rfile /\ e.why = None
  <2>1. e = [phase |-> "idle", state |-> rfile, now |-> 0, remote |-> None,
             answer |-> None, why |-> None]
    BY <1>2 DEF load_or_initialize, Renewal, Down
  <2> QED
    BY <1>3, <2>1, TrustBounds DEF Engine, Phase
<1>5. None # "rollback" /\ None # "fork"
    BY NoneIsNothing DEF Reason
<1>6. EngineFits(e, sent, manual, undone, current.snapshot)
    BY <1>3, <1>4, <1>5 DEF EngineFits
<1>7. engine' = [engine EXCEPT ![p] = e] /\ engine \in [Process -> Engine]
    BY <1>2 DEF Open, Set, RenewalInv, RenewalTypes
<1>8. \A q \in Process : engine[q].phase = "down"
    BY <1>1, NoneIsNothing DEF RenewalInv, LockHeld
<1>9. DistributorInv'
    BY <1>1 DEF RenewalInv, DistributorInv, DistributorTypeOK, DiskInv, AcknowledgedSurvives,
           ReceiptsFit, dvars, dhistory, Follows, Generation,
           validate_durable_state, receipt_matches_snapshot, receipt_receiver_slot, ring_verifies
<1>10. RenewalTypes' /\ ServedWasPosted' /\ OnePerGeneration' /\ FilesFit'
    BY <1>1, <1>4, <1>7 DEF RenewalInv, RenewalTypes, ServedWasPosted, OnePerGeneration, FilesFit,
                             dvars, dhistory
<1>11. EnginesFit'
    BY <1>1, <1>6, <1>7 DEF RenewalInv, EnginesFit, dvars, dhistory
<1>12. LockHeld'
    BY <1>1, <1>7, <1>8 DEF LockHeld
<1> QED
    BY <1>9, <1>10, <1>11, <1>12 DEF RenewalInv

\* A process that has ended has forgotten everything.
LEMMA CrashKeeps ==
    ASSUME RenewalInv, NEW p \in Process, Crash(p)
    PROVE  RenewalInv'
<1>1. /\ engine[p].phase # "down" /\ rfile' \in {rfile, rstable} /\ rstable' = rstable
      /\ UNCHANGED <<dvars, wall, wire, sent, manual>>
      /\ lock' = IF lock = p THEN None ELSE lock
    BY DEF Crash, posts
<1>2. lock = p /\ lock' = None
    BY <1>1, RunningEngine
<1>3. engine' = [engine EXCEPT ![p] = Down] /\ engine \in [Process -> Engine]
    BY DEF Crash, Set, RenewalInv, RenewalTypes
<1>4. EngineFits(Down, sent, manual, undone, current.snapshot) /\ Down \in Engine
      /\ Down.phase = "down"
    BY DownFits DEF EngineFits, Down
<1>5. incidents' \in 0..MaxIncidents
    BY <1>1, RunningEngine, IncidentsAreBounded DEF Crash
<1>6. DistributorInv'
    BY <1>1, <1>5 DEF RenewalInv, DistributorInv, DistributorTypeOK, DiskInv,
           AcknowledgedSurvives, ReceiptsFit, dvars, dhistory, Follows, Generation,
           validate_durable_state, receipt_matches_snapshot, receipt_receiver_slot, ring_verifies
<1>7. RenewalTypes' /\ ServedWasPosted' /\ OnePerGeneration'
    BY <1>1, <1>2, <1>3, <1>4 DEF RenewalInv, RenewalTypes, ServedWasPosted, OnePerGeneration,
                             dvars, dhistory
<1>8. FilesFit'
    BY <1>1 DEF RenewalInv, FilesFit, dvars, dhistory
<1>9. EnginesFit'
    BY <1>1, <1>3, <1>4 DEF RenewalInv, EnginesFit, dvars, dhistory
<1>10. LockHeld'
    BY <1>2, <1>3, <1>4 DEF RenewalInv, LockHeld
<1> QED
    BY <1>6, <1>7, <1>8, <1>9, <1>10 DEF RenewalInv

\* A step of the distributor, or of whoever publishes at it, that leaves the
\* engines' states, the files and what was posted alone.
LEMMA EnvironmentKeeps ==
    ASSUME RenewalInv, DistributorInv', UNCHANGED <<lock, rfile, rstable, sent>>,
           engine' \in [Process -> Engine],
           \A q \in Process :
               /\ engine'[q].phase = engine[q].phase /\ engine'[q].state = engine[q].state
               /\ engine'[q].now = engine[q].now /\ engine'[q].remote = engine[q].remote
               /\ engine'[q].why = engine[q].why,
           wire' \subseteq wire, manual' \in BOOLEAN, manual => manual', undone => undone',
           undone' \/ Follows(current'.snapshot, current.snapshot),
           ServedWasPosted'
    PROVE  RenewalInv'
<1>1. /\ current.snapshot \in Snapshot \cup {None} /\ current'.snapshot \in Snapshot \cup {None}
    BY DEF RenewalInv, DistributorInv, DistributorTypeOK, DurableState
<1>2. RenewalTypes' /\ OnePerGeneration'
    BY DEF RenewalInv, RenewalTypes, OnePerGeneration
<1>3. FilesFit'
  <2>1. /\ StateFits(rfile, sent, manual', undone', current'.snapshot)
        /\ StateFits(rstable, sent, manual', undone', current'.snapshot)
    BY <1>1, StateGoesOnFitting DEF RenewalInv, FilesFit
  <2> QED
    BY <2>1 DEF FilesFit
<1>4. EnginesFit'
  <2>1. SUFFICES ASSUME NEW q \in Process
                 PROVE  EngineFits(engine'[q], sent, manual', undone', current'.snapshot)
    BY DEF EnginesFit
  <2>2. EngineFits(engine[q], sent, manual, undone, current.snapshot)
    BY DEF RenewalInv, EnginesFit
  <2>3. EngineFits(engine[q], sent, manual', undone', current'.snapshot)
    BY <1>1, <2>2, EngineGoesOnFitting
  <2>4. engine'[q] \in Engine
    OBVIOUS
  <2> QED
    BY <2>3, <2>4 DEF EngineFits, RemoteFits
<1>5. LockHeld'
    BY DEF RenewalInv, LockHeld
<1> QED
    BY <1>2, <1>3, <1>4, <1>5 DEF RenewalInv

LEMMA DeliverPostKeeps ==
    ASSUME RenewalInv, NEW s \in wire, DeliverPost(s)
    PROVE  RenewalInv'
<1>1. PICK a \in PublishAnswer :
        /\ publish_snapshot(s, a)
        /\ engine' = [p \in Process |->
               IF engine[p].phase = "posting" /\ engine[p].state.pending = s
               THEN [engine[p] EXCEPT !.answer = a] ELSE engine[p]]
    BY DEF DeliverPost
<1>2. s \in sent /\ s \in Snapshot
    BY DEF RenewalInv, RenewalTypes
<1>3. /\ UNCHANGED <<wall, lock, rfile, rstable, sent, manual>> /\ wire' \subseteq wire
    BY DEF DeliverPost, disk
<1>4. DistributorInv' /\ Mutated(s)
    BY <1>1, <1>2, <1>3, PublishKeeps DEF RenewalInv
<1>5. ServedWasPosted'
    BY <1>2, <1>3, <1>4 DEF RenewalInv, ServedWasPosted, Mutated
<1>6. /\ engine' \in [Process -> Engine]
      /\ \A q \in Process :
               /\ engine'[q].phase = engine[q].phase /\ engine'[q].state = engine[q].state
               /\ engine'[q].now = engine[q].now /\ engine'[q].remote = engine[q].remote
               /\ engine'[q].why = engine[q].why
  <2>1. ASSUME NEW d \in Engine
        PROVE  LET e == [d EXCEPT !.answer = a]
               IN /\ e \in Engine /\ e.phase = d.phase /\ e.state = d.state /\ e.now = d.now
                  /\ e.remote = d.remote /\ e.why = d.why
    BY DEF Engine
  <2>2. engine \in [Process -> Engine]
    BY DEF RenewalInv, RenewalTypes
  <2> QED
    BY <1>1, <2>1, <2>2
<1>7. manual \in BOOLEAN
    BY DEF RenewalInv, RenewalTypes
<1> QED
    BY <1>3, <1>4, <1>5, <1>6, <1>7, EnvironmentKeeps DEF Mutated

LEMMA ManualPublishKeeps ==
    ASSUME RenewalInv, ManualPublish
    PROVE  RenewalInv'
<1>1. wall \in 1..MaxClock
    BY TrustBounds DEF ManualPublish, RenewalInv, DistributorInv, DistributorTypeOK
<1>2. PICK g \in 1..MaxGeneration, k \in Kind, a \in PublishAnswer :
        publish_snapshot([generation |-> g, issued_at |-> wall, kind |-> k], a)
    BY DEF ManualPublish
<1>3. PICK s : s = [generation |-> g, issued_at |-> wall, kind |-> k]
    OBVIOUS
<1>4. s \in Snapshot
    BY <1>1, <1>3 DEF Snapshot
<1>5. /\ UNCHANGED <<wall, lock, engine, rfile, rstable, wire, sent>> /\ manual' = TRUE
    BY DEF ManualPublish, disk, posts
<1>6. DistributorInv' /\ Mutated(s)
    BY <1>2, <1>3, <1>4, <1>5, PublishKeeps DEF RenewalInv
<1>7. ServedWasPosted' /\ engine \in [Process -> Engine]
    BY <1>5 DEF ServedWasPosted, RenewalInv, RenewalTypes
<1> QED
    BY <1>5, <1>6, <1>7, EnvironmentKeeps DEF Mutated

LEMMA RestartRenewalKeeps ==
    ASSUME RenewalInv, Restart
    PROVE  RenewalInv'
<1>1. RestartDistributor /\ UNCHANGED <<wall, lock, engine, rfile, rstable, wire, sent, manual>>
    BY DEF Restart, rvars, disk, posts
<1>2. /\ DistributorInv' /\ (undone => undone')
      /\ undone' \/ Follows(current'.snapshot, current.snapshot)
      /\ current' = dfile' /\ current' \in {dfile, dstable} /\ dstable' = dstable
    BY <1>1, RestartKeeps DEF RenewalInv
<1>3. ServedWasPosted'
    BY <1>1, <1>2 DEF RenewalInv, ServedWasPosted
<1>4. engine \in [Process -> Engine] /\ manual \in BOOLEAN
    BY DEF RenewalInv, RenewalTypes
<1> QED
    BY <1>1, <1>2, <1>3, <1>4, EnvironmentKeeps

\* Time goes on, or is set back.
LEMMA WallKeeps ==
    ASSUME RenewalInv, UNCHANGED <<dvars, lock, engine, disk, posts, manual>>,
           wall' \in 0..MaxClock, incidents' \in 0..MaxIncidents
    PROVE  RenewalInv'
<1>1. DistributorInv'
    BY DEF RenewalInv, DistributorInv, DistributorTypeOK, DiskInv, AcknowledgedSurvives,
           ReceiptsFit, dvars, dhistory, Follows, Generation,
           validate_durable_state, receipt_matches_snapshot, receipt_receiver_slot, ring_verifies
<1>2. engine \in [Process -> Engine] /\ manual \in BOOLEAN
    BY DEF RenewalInv, RenewalTypes
<1>3. ServedWasPosted' /\ Follows(current'.snapshot, current.snapshot)
    BY DEF RenewalInv, ServedWasPosted, dvars, dhistory, posts, Follows
<1> QED
    BY <1>1, <1>2, <1>3, EnvironmentKeeps DEF dvars, dhistory, disk, posts

LEMMA RenewalInitHolds == RenewalInit => RenewalInv
<1> SUFFICES ASSUME RenewalInit PROVE RenewalInv
    OBVIOUS
<1>1. /\ wall = 1 /\ current = [snapshot |-> None, receipts |-> {}]
      /\ dfile = current /\ dstable = current /\ poison = FALSE /\ roots = Kind
      /\ acked = {} /\ reloaded = FALSE /\ undone = FALSE /\ incidents = 0
      /\ lock = None /\ engine = [p \in Process |-> Down]
      /\ rfile = Fresh /\ rstable = Fresh /\ wire = {} /\ sent = {} /\ manual = FALSE
    BY DEF RenewalInit, DistributorInit
<1>2. current \in DurableState /\ current.snapshot = None /\ current.receipts = {}
    BY <1>1 DEF DurableState
<1>3. DistributorTypeOK
  <2>1. 1 \in 0..MaxClock /\ 0 \in 0..MaxIncidents
    BY TrustBounds
  <2>2. wall \in 0..MaxClock /\ incidents \in 0..MaxIncidents
    BY <1>1, <2>1
  <2> QED
    BY <1>1, <1>2, <2>2 DEF DistributorTypeOK
<1>4. DiskInv /\ AcknowledgedSurvives /\ ReceiptsFit
    BY <1>1, <1>2 DEF DiskInv, Follows, AcknowledgedSurvives, ReceiptsFit, validate_durable_state
<1>5. EngineFits(Down, sent, manual, undone, current.snapshot) /\ Down \in Engine
      /\ Down.phase = "down"
    BY DownFits DEF EngineFits, Down
<1>6. RenewalTypes /\ ServedWasPosted /\ OnePerGeneration /\ EnginesFit /\ LockHeld
    BY <1>1, <1>2, <1>5
       DEF RenewalTypes, ServedWasPosted, OnePerGeneration, EnginesFit, LockHeld
<1>7. FilesFit
    BY <1>1, <1>2, FreshFits DEF FilesFit
<1> QED
    BY <1>3, <1>4, <1>6, <1>7 DEF RenewalInv, DistributorInv

LEMMA RenewalNextHolds == RenewalInv /\ [Next]_vars => RenewalInv'
<1> SUFFICES ASSUME RenewalInv, [Next]_vars PROVE RenewalInv'
    OBVIOUS
<1>1. wall \in 0..MaxClock /\ incidents \in 0..MaxIncidents
    BY DEF RenewalInv, DistributorInv, DistributorTypeOK
<1>2. PICK w \in Int : w = wall
    BY <1>1
<1>3. ASSUME NEW p \in Process, EngineStep(p)
      PROVE  RenewalInv'
    BY <1>3, FetchKeeps, ReconcileKeeps, StageKeeps, PublishPendingKeeps, AnsweredKeeps
       DEF EngineStep
<1>4. ASSUME NEW p \in Process,
             Open(p) \/ GetFails(p) \/ ClockFails(p) \/ PublishTimesOut(p) \/ Crash(p)
      PROVE  RenewalInv'
    BY <1>4, OpenKeeps, GetFailsKeeps, ClockFailsKeeps, PublishTimesOutKeeps, CrashKeeps
<1>5. ASSUME NEW s \in wire, DeliverPost(s)
      PROVE  RenewalInv'
    BY <1>5, DeliverPostKeeps
<1>6. CASE ManualPublish
    BY <1>6, ManualPublishKeeps
<1>7. CASE Tick
  <2>1. wall' \in 0..MaxClock
    BY <1>1, <1>2, <1>7, TrustBounds DEF Tick
  <2> QED
    BY <1>1, <1>7, <2>1, WallKeeps DEF Tick
<1>8. CASE SetBack
  <2>1. wall' \in 0..MaxClock
    BY <1>1, <1>2, <1>8, TrustBounds DEF SetBack
  <2>2. incidents' \in 0..MaxIncidents
    BY <1>1, <1>8, IncidentsAreBounded DEF SetBack
  <2> QED
    BY <1>8, <2>1, <2>2, WallKeeps DEF SetBack
<1>9. CASE Restart
    BY <1>9, RestartRenewalKeeps
<1>10. CASE UNCHANGED vars
    BY <1>1, <1>10, WallKeeps DEF vars, rvars, dvars
<1> QED
    BY <1>3, <1>4, <1>5, <1>6, <1>7, <1>8, <1>9, <1>10 DEF Next

LEMMA RenewalInvariant == Spec => []RenewalInv
<1>1. RenewalInit => RenewalInv
    BY RenewalInitHolds
<1>2. RenewalInv /\ [Next]_vars => RenewalInv'
    BY RenewalNextHolds
<1> QED
    BY <1>1, <1>2, PTL DEF Spec

\* The renewer posts one snapshot per generation, over all processes, crashes,
\* power losses, failed replacements and lost answers, and it reports a
\* rollback or a fork only when there was one (create_pending, publish_pending
\* and reconcile of trust-renewer/src/engine.rs, StateLock).
THEOREM RenewalPublishesOnce == Spec => []PublishedOnce
<1>1. RenewalInv => PublishedOnce
  <2> SUFFICES ASSUME RenewalInv PROVE PublishedOnce
    OBVIOUS
  <2>1. TypeOK
    <3>1. rfile \in RenewalState /\ rstable \in RenewalState
      BY DEF RenewalInv, FilesFit, StateFits
    <3>2. wire \subseteq Snapshot
      BY DEF RenewalInv, RenewalTypes
    <3> QED
      BY <3>1, <3>2 DEF TypeOK, RenewalInv, RenewalTypes, DistributorInv
  <2>2. NoFalseAlarm
    BY DEF RenewalInv, EnginesFit, EngineFits, NoFalseAlarm
  <2> QED
    BY <2>1, <2>2 DEF PublishedOnce, RenewalInv
<1> QED
    BY <1>1, RenewalInvariant, PTL

\* A publication that was acknowledged survives every power loss, and what the
\* renewer has committed the distributor serves or has gone past, unless a
\* power loss undid it there (publish_snapshot and persist_next of
\* trust-distributor/src/lib.rs).
THEOREM DistributorKeepsItsWord == Spec => []DistributorKeeps
<1>1. RenewalInv => DistributorKeeps
  <2> SUFFICES ASSUME RenewalInv PROVE DistributorKeeps
    OBVIOUS
  <2>1. ASSUME ~ undone, NEW s \in {rfile, rstable} \cup {engine[p].state : p \in Process}
        PROVE  Generation(s.committed) <= Generation(current.snapshot)
    <3>1. CASE s \in {rfile, rstable}
      BY <2>1, <3>1 DEF RenewalInv, FilesFit, StateFits
    <3>2. CASE \E p \in Process : s = engine[p].state
      <4>1. PICK p \in Process : s = engine[p].state
        BY <3>2
      <4>2. CASE engine[p].phase # "down"
        BY <2>1, <4>1, <4>2, RunningEngine DEF StateFits
      <4>3. CASE engine[p].phase = "down"
        <5>1. Generation(s.committed) = 0
          BY <4>1, <4>3 DEF RenewalInv, EnginesFit, EngineFits, Fresh, Generation
        <5>2. Generation(current.snapshot) >= 0
          BY GenerationType DEF RenewalInv, DistributorInv, DistributorTypeOK, DurableState
        <5> QED
          BY <5>1, <5>2
      <4> QED
        BY <4>2, <4>3
    <3> QED
      BY <3>1, <3>2
  <2> QED
    BY <2>1 DEF DistributorKeeps, FloorIsServed, RenewalInv, DistributorInv
<1> QED
    BY <1>1, RenewalInvariant, PTL

-----------------------------------------------------------------------------
(* The receivers.                                                            *)

UpPhase == {"idle", "fetched", "accepted", "report", "posting"}

\* What a receiver has in memory agrees with what it has activated last.
MemoryFits(n, pk) ==
    /\ n \in Memory /\ pk \in Snapshot \cup {None}
    /\ n.phase \in UpPhase => n.active = pk /\ pk # None
    /\ n.phase \in {"booted", "accepted"} => n.candidate = n.floor /\ n.candidate # None
    /\ n.phase = "fetched" => ~ n.latched
    /\ n.phase \in {"report", "posting"} => n.receipt # None

\* What survives a power loss is not behind what was activated, nor the file
\* behind what survives; in remote mode no floor is ahead of the cache next to
\* it.
FilesStand(st, sb, pk, remote) ==
    /\ Follows(sb.floor, pk) /\ Follows(st.floor, sb.floor)
    /\ remote => Follows(st.cache, st.floor) /\ Follows(sb.cache, sb.floor)

\* A running receiver's floor is the one that survives, and the one in the file
\* unless it could not be saved; what it reports it has activated.
FloorHeld(n, st, sb, pk, remote) ==
    /\ n.phase \in UpPhase \cup {"booted"} =>
           /\ n.floor = sb.floor
           /\ remote /\ ~ n.latched => st.floor = n.floor
    /\ n.receipt # None => Generation(pk) >= n.receipt.generation

ReceiverFits(n, st, sb, pk, remote, lost) ==
    /\ MemoryFits(n, pk)
    /\ st \in Files /\ sb \in Files
    /\ \/ lost
       \/ FilesStand(st, sb, pk, remote) /\ FloorHeld(n, st, sb, pk, remote)

ReceiverTypes ==
    /\ mode \in DistributionMode
    /\ source \in Snapshot \cup {None}
    /\ node \in [Expected -> Memory]
    /\ store \in [Expected -> Files] /\ stable \in [Expected -> Files]
    /\ mail \subseteq [receiver : Expected, snapshot : Snapshot]
    /\ peak \in [Expected -> Snapshot \cup {None}]
    /\ lapsed \in BOOLEAN

ReceiversFit ==
    \A r \in Expected :
        ReceiverFits(node[r], store[r], stable[r], peak[r], mode = "remote", lapsed)

\* Every receipt there is, also in the distributor's files.
Receipts == mail \cup current.receipts \cup dfile.receipts \cup dstable.receipts

ReceiptsTrue ==
    lapsed \/ \A e \in Receipts : Generation(peak[e.receiver]) >= e.snapshot.generation

ReceiverInv == DistributorInv /\ ReceiverTypes /\ ReceiversFit /\ ReceiptsTrue

LEMMA AcceptableFollows ==
    ASSUME NEW s \in Snapshot \cup {None}, NEW floor \in Snapshot \cup {None}, NEW now,
           Acceptable(s, now, floor)
    PROVE  s \in Snapshot /\ s # None /\ Follows(s, floor)
<1>1. s # None /\ validate_candidate_floor(s, floor)
    BY DEF Acceptable
<1>2. Generation(s) = s.generation
    BY <1>1 DEF Generation
<1> QED
    BY <1>1, <1>2 DEF validate_candidate_floor, Follows

\* A receipt's snapshot or a policy that another follows is not above it.
LEMMA FollowsIsAbove ==
    ASSUME NEW s \in Snapshot \cup {None}, NEW t \in Snapshot \cup {None}, Follows(s, t)
    PROVE  Generation(s) >= Generation(t)
<1>1. Generation(s) \in Int /\ Generation(t) \in Int
    BY GenerationType
<1> QED
    BY <1>1 DEF Follows

\* Receiver r now has this memory, these files and this last policy.
MovesTo(r, n, st, sb, pk) ==
    /\ node' = [node EXCEPT ![r] = n]
    /\ store' = [store EXCEPT ![r] = st]
    /\ stable' = [stable EXCEPT ![r] = sb]
    /\ peak' = [peak EXCEPT ![r] = pk]

\* A step of receiver r to values that fit keeps the invariant.
LEMMA ReceiverMoves ==
    ASSUME ReceiverInv, NEW r \in Expected, NEW n, NEW st, NEW sb, NEW pk,
           MovesTo(r, n, st, sb, pk), ReceiverFits(n, st, sb, pk, mode = "remote", lapsed'),
           lapsed' \in BOOLEAN, lapsed => lapsed',
           lapsed' \/ Generation(pk) >= Generation(peak[r]),
           incidents' \in 0..MaxIncidents, UNCHANGED <<dvars, wall, mode, source>>,
           mail' \subseteq [receiver : Expected, snapshot : Snapshot],
           \A e \in mail' : \/ e \in mail
                            \/ e.receiver = r /\ (lapsed' \/ Generation(pk) >= e.snapshot.generation)
    PROVE  ReceiverInv'
<1>1. /\ node \in [Expected -> Memory] /\ store \in [Expected -> Files]
      /\ stable \in [Expected -> Files] /\ peak \in [Expected -> Snapshot \cup {None}]
    BY DEF ReceiverInv, ReceiverTypes
<1>2. n \in Memory /\ st \in Files /\ sb \in Files /\ pk \in Snapshot \cup {None}
    BY DEF ReceiverFits, MemoryFits
<1>3. DistributorInv'
    BY DEF ReceiverInv, DistributorInv, DistributorTypeOK, DiskInv, AcknowledgedSurvives,
           ReceiptsFit, dvars, dhistory, Follows, Generation,
           validate_durable_state, receipt_matches_snapshot, receipt_receiver_slot, ring_verifies
<1>4. ReceiverTypes'
    BY <1>1, <1>2 DEF ReceiverInv, ReceiverTypes, MovesTo
<1>5. ReceiversFit'
  <2>1. SUFFICES ASSUME NEW q \in Expected
                 PROVE  ReceiverFits(node'[q], store'[q], stable'[q], peak'[q],
                                     mode = "remote", lapsed')
    BY DEF ReceiversFit
  <2>2. CASE q = r
    BY <1>1, <2>2 DEF MovesTo
  <2>3. CASE q # r
    <3>1. /\ node'[q] = node[q] /\ store'[q] = store[q] /\ stable'[q] = stable[q]
          /\ peak'[q] = peak[q]
      BY <1>1, <2>3 DEF MovesTo
    <3>2. ReceiverFits(node[q], store[q], stable[q], peak[q], mode = "remote", lapsed)
      BY DEF ReceiverInv, ReceiversFit
    <3> QED
      BY <3>1, <3>2 DEF ReceiverFits
  <2> QED
    BY <2>2, <2>3
<1>6. ReceiptsTrue'
  <2>1. SUFFICES ASSUME NEW e \in Receipts', ~ lapsed'
                 PROVE  Generation(peak'[e.receiver]) >= e.snapshot.generation
    BY DEF ReceiptsTrue, Generation
  <2>2. e.receiver \in Expected /\ e.snapshot \in Snapshot
    <3>1. CASE e \in mail'
      BY <3>1
    <3>2. CASE e \notin mail'
      <4>1. PICK d \in {current, dfile, dstable} : e \in d.receipts
        BY <2>1, <3>2 DEF Receipts, dvars
      <4>2. validate_durable_state(d, Kind) /\ d \in DurableState
        BY <4>1 DEF ReceiverInv, DistributorInv, ReceiptsFit, DistributorTypeOK
      <4>3. e \in Receipt
        BY <4>1, <4>2 DEF DurableState
      <4> QED
        BY <4>1, <4>2, <4>3 DEF validate_durable_state, receipt_receiver_slot, Receipt
    <3> QED
      BY <3>1, <3>2
  <2>3. e \in Receipts \/ (e.receiver = r /\ Generation(pk) >= e.snapshot.generation)
    BY <2>1 DEF Receipts, dvars
  <2>4. e \in Receipts => Generation(peak[e.receiver]) >= e.snapshot.generation
    BY <2>1 DEF ReceiverInv, ReceiptsTrue
  <2>5. peak'[e.receiver] = IF e.receiver = r THEN pk ELSE peak[e.receiver]
    BY <1>1, <2>2 DEF MovesTo
  <2>6. /\ Generation(pk) \in Int /\ Generation(peak[r]) \in Int /\ e.snapshot.generation \in Int
    BY <1>1, <1>2, <2>2, GenerationType DEF Snapshot
  <2> QED
    BY <2>1, <2>3, <2>4, <2>5, <2>6
<1> QED
    BY <1>3, <1>4, <1>5, <1>6 DEF ReceiverInv

\* What the invariant says of one receiver.
LEMMA OneReceiver ==
    ASSUME ReceiverInv, NEW r \in Expected
    PROVE  /\ ReceiverFits(node[r], store[r], stable[r], peak[r], mode = "remote", lapsed)
           /\ node[r] \in Memory /\ store[r] \in Files /\ stable[r] \in Files
           /\ peak[r] \in Snapshot \cup {None}
           /\ store[r].cache \in Snapshot \cup {None} /\ store[r].floor \in Snapshot \cup {None}
           /\ stable[r].cache \in Snapshot \cup {None} /\ stable[r].floor \in Snapshot \cup {None}
           /\ node[r].candidate \in Snapshot \cup {None} /\ node[r].floor \in Snapshot \cup {None}
           /\ node[r].receipt \in Snapshot \cup {None} /\ node[r].now \in 0..MaxClock
           /\ node[r].latched \in BOOLEAN
           /\ Generation(peak[r]) >= Generation(peak[r])
           /\ lapsed \in BOOLEAN /\ mode \in DistributionMode /\ wall \in 0..MaxClock
           /\ incidents \in 0..MaxIncidents /\ current.snapshot \in Snapshot \cup {None}
           /\ source \in Snapshot \cup {None}
           /\ mail \subseteq [receiver : Expected, snapshot : Snapshot]
<1>1. /\ node[r] \in Memory /\ store[r] \in Files /\ stable[r] \in Files
      /\ peak[r] \in Snapshot \cup {None}
    BY DEF ReceiverInv, ReceiverTypes
<1>2. /\ store[r].cache \in Snapshot \cup {None} /\ store[r].floor \in Snapshot \cup {None}
      /\ stable[r].cache \in Snapshot \cup {None} /\ stable[r].floor \in Snapshot \cup {None}
    BY <1>1 DEF Files
<1>3. /\ node[r].candidate \in Snapshot \cup {None} /\ node[r].floor \in Snapshot \cup {None}
      /\ node[r].receipt \in Snapshot \cup {None} /\ node[r].now \in 0..MaxClock
      /\ node[r].latched \in BOOLEAN
    BY <1>1 DEF Memory
<1>4. Generation(peak[r]) >= Generation(peak[r])
  <2>1. Generation(peak[r]) \in Int
    BY <1>1, GenerationType
  <2> QED
    BY <2>1
<1>5. current.snapshot \in Snapshot \cup {None} /\ wall \in 0..MaxClock
      /\ incidents \in 0..MaxIncidents
    BY DEF ReceiverInv, DistributorInv, DistributorTypeOK, DurableState
<1> QED
    BY <1>1, <1>2, <1>3, <1>4, <1>5 DEF ReceiverInv, ReceiverTypes, ReceiversFit

\* A step that writes nothing.
LEMMA QuietMove ==
    ASSUME ReceiverInv, NEW r \in Expected, NEW n,
           SetNode(r, n), UNCHANGED <<store, stable, peak>>
    PROVE  MovesTo(r, n, store[r], stable[r], peak[r])
BY DEF MovesTo, SetNode, ReceiverInv, ReceiverTypes

LEMMA StoppedFits ==
    ASSUME NEW st \in Files, NEW sb \in Files, NEW pk \in Snapshot \cup {None},
           NEW remote \in BOOLEAN, NEW lost \in BOOLEAN, lost \/ FilesStand(st, sb, pk, remote)
    PROVE  ReceiverFits(Stopped, st, sb, pk, remote, lost)
<1>1. Stopped \in Memory
    BY TrustBounds DEF Stopped, Memory
<1> QED
    BY <1>1 DEF ReceiverFits, MemoryFits, FloorHeld, Stopped, UpPhase

LEMMA StoppedType == Stopped \in Memory /\ Stopped.receipt = None
BY TrustBounds DEF Stopped, Memory

\* A receiver may stop at any time.
LEMMA StoppedMoveFits ==
    ASSUME ReceiverInv, NEW r \in Expected
    PROVE  ReceiverFits(Stopped, store[r], stable[r], peak[r], mode = "remote", lapsed)
<1>1. PICK o, u, pk : o = store[r] /\ u = stable[r] /\ pk = peak[r]
    OBVIOUS
<1>2. PICK rem \in BOOLEAN : rem = (mode = "remote")
    OBVIOUS
<1>3. PICK lost \in BOOLEAN : lost = lapsed
    BY OneReceiver
<1>4. /\ o \in Files /\ u \in Files /\ pk \in Snapshot \cup {None}
      /\ lost \/ FilesStand(o, u, pk, rem)
    BY <1>1, <1>2, <1>3, OneReceiver DEF ReceiverFits
<1>5. ReceiverFits(Stopped, o, u, pk, rem, lost)
    BY <1>4, StoppedFits
<1> QED
    BY <1>1, <1>2, <1>3, <1>5

LEMMA BootFetchKeeps ==
    ASSUME ReceiverInv, NEW r \in Expected, BootFetch(r)
    PROVE  ReceiverInv'
<1>1. PICK c \in Snapshot \cup {None} : SetNode(r, [Stopped EXCEPT !.phase = "boot", !.candidate = c])
  <2>1. PICK reached \in BOOLEAN :
          SetNode(r, [Stopped EXCEPT !.phase = "boot",
                !.candidate = IF reached
                                 /\ fetch_remote_snapshot(load_verified_cache(r)) = "snapshot"
                              THEN current.snapshot ELSE None])
    BY DEF BootFetch
  <2>2. PICK c : c = IF reached /\ fetch_remote_snapshot(load_verified_cache(r)) = "snapshot"
                     THEN current.snapshot ELSE None
    OBVIOUS
  <2>3. c \in Snapshot \cup {None}
    BY <2>2, OneReceiver
  <2> QED
    BY <2>1, <2>2, <2>3
<1>2. PICK n : n = [Stopped EXCEPT !.phase = "boot", !.candidate = c]
    OBVIOUS
<1>3. n \in Memory /\ n.phase = "boot" /\ n.receipt = None
  <2>1. n = [phase |-> "boot", active |-> None, floor |-> None, etag |-> None,
             candidate |-> c, seen |-> None, receipt |-> None, latched |-> FALSE, now |-> 0]
    BY <1>2 DEF Stopped
  <2> QED
    BY <2>1, TrustBounds DEF Memory
<1>4. UNCHANGED <<dvars, incidents, wall, mode, source, store, stable, mail, peak, lapsed>>
    BY DEF BootFetch
<1>5. ReceiverFits(n, store[r], stable[r], peak[r], mode = "remote", lapsed)
    BY <1>3, OneReceiver DEF ReceiverFits, MemoryFits, FloorHeld, UpPhase
<1>6. MovesTo(r, n, store[r], stable[r], peak[r])
    BY <1>1, <1>2, <1>4, QuietMove
<1> QED
    BY <1>4, <1>5, <1>6, OneReceiver, ReceiverMoves

\* The files after a snapshot has been cached and made the floor, with every
\* outcome of the two replacements.
LEMMA AcceptanceStands ==
    ASSUME NEW st \in Files, NEW sb \in Files, NEW pk \in Snapshot \cup {None}, NEW remote \in BOOLEAN,
           NEW s \in Snapshot, NEW cache \in Outcome, NEW floor \in Outcome,
           cache = "ok" \/ floor = "before",
           FilesStand(st, sb, pk, remote), Follows(s, sb.floor), remote => Follows(s, st.floor),
           NEW st2 \in Files, NEW sb2 \in Files,
           st2.cache = Replaced(st.cache, s, cache), st2.floor = Replaced(st.floor, s, floor),
           sb2.cache = Stabilized(sb.cache, s, cache), sb2.floor = Stabilized(sb.floor, s, floor)
    PROVE  FilesStand(st2, sb2, pk, remote)
<1>1. \A x : Follows(x, x)
    BY DEF Follows
<1>2. Follows(s, pk)
  <2>1. Follows(sb.floor, pk) /\ sb.floor \in Snapshot \cup {None}
    BY DEF FilesStand, Files
  <2> QED
    BY <2>1, FollowsIsTransitive
<1>3. Follows(sb2.floor, pk) /\ Follows(st2.floor, sb2.floor)
    BY <1>1, <1>2 DEF FilesStand, Replaced, Stabilized, Outcome
<1>4. remote => Follows(st2.cache, st2.floor) /\ Follows(sb2.cache, sb2.floor)
    BY <1>1 DEF FilesStand, Replaced, Stabilized, Outcome
<1> QED
    BY <1>3, <1>4 DEF FilesStand

\* persist_remote_acceptance in terms of one receiver's files.
LEMMA AcceptanceFiles ==
    ASSUME ReceiverInv, NEW r \in Expected, NEW s \in Snapshot,
           NEW cache \in Outcome, NEW floor \in Outcome,
           persist_remote_acceptance(r, s, cache, floor)
    PROVE  \E st \in Files, sb \in Files :
               /\ store' = [store EXCEPT ![r] = st] /\ stable' = [stable EXCEPT ![r] = sb]
               /\ st.cache = Replaced(store[r].cache, s, cache)
               /\ st.floor = Replaced(store[r].floor, s, floor)
               /\ sb.cache = Stabilized(stable[r].cache, s, cache)
               /\ sb.floor = Stabilized(stable[r].floor, s, floor)
               /\ cache = "ok" \/ floor = "before"
               /\ incidents' \in 0..MaxIncidents
<1>1. /\ store \in [Expected -> Files] /\ stable \in [Expected -> Files]
      /\ store[r] \in Files /\ stable[r] \in Files
    BY DEF ReceiverInv, ReceiverTypes
<1>2. PICK st : st = [store[r] EXCEPT !.cache = Replaced(@, s, cache),
                                      !.floor = Replaced(@, s, floor)]
    OBVIOUS
<1>3. PICK sb : sb = [stable[r] EXCEPT !.cache = Stabilized(@, s, cache),
                                       !.floor = Stabilized(@, s, floor)]
    OBVIOUS
<1>4. /\ st \in Files
      /\ st.cache = Replaced(store[r].cache, s, cache)
      /\ st.floor = Replaced(store[r].floor, s, floor)
    BY <1>1, <1>2 DEF Files, Replaced
<1>5. /\ sb \in Files
      /\ sb.cache = Stabilized(stable[r].cache, s, cache)
      /\ sb.floor = Stabilized(stable[r].floor, s, floor)
    BY <1>1, <1>3 DEF Files, Stabilized
<1>6. store' = [store EXCEPT ![r] = st] /\ stable' = [stable EXCEPT ![r] = sb]
    BY <1>1, <1>2, <1>3 DEF persist_remote_acceptance
<1>7. incidents' \in 0..MaxIncidents
    BY OneReceiver, IncidentsAreBounded, FaultsType DEF persist_remote_acceptance
<1> QED
    BY <1>4, <1>5, <1>6, <1>7 DEF persist_remote_acceptance

LEMMA BootedFits ==
    ASSUME NEW n \in Memory, NEW st \in Files, NEW sb \in Files, NEW pk \in Snapshot \cup {None},
           NEW remote \in BOOLEAN, NEW lost \in BOOLEAN, NEW s \in Snapshot,
           n.phase = "booted", n.candidate = s, n.floor = s, n.receipt = None,
           lost \/ (FilesStand(st, sb, pk, remote) /\ sb.floor = s /\ (remote => st.floor = s))
    PROVE  ReceiverFits(n, st, sb, pk, remote, lost)
<1>1. s # None
    BY NoSnapshot
<1>2. MemoryFits(n, pk)
    BY <1>1 DEF MemoryFits, UpPhase
<1>3. lost \/ FloorHeld(n, st, sb, pk, remote)
    BY DEF FloorHeld
<1> QED
    BY <1>2, <1>3 DEF ReceiverFits

LEMMA BootedType ==
    ASSUME NEW s \in Snapshot
    PROVE  /\ Booted(s) \in Memory /\ Booted(s).phase = "booted" /\ Booted(s).candidate = s
           /\ Booted(s).floor = s /\ Booted(s).receipt = None
<1>1. PICK b : b = Booted(s)
    OBVIOUS
<1>2. PICK z : z = Stopped
    OBVIOUS
<1>3. z \in Memory /\ z.receipt = None
    BY <1>2, TrustBounds DEF Stopped, Memory
<1>4. b = [z EXCEPT !.phase = "booted", !.candidate = s, !.floor = s, !.etag = s]
    BY <1>1, <1>2 DEF Booted
<1>5. /\ b \in Memory /\ b.phase = "booted" /\ b.candidate = s
      /\ b.floor = s /\ b.receipt = None
    BY <1>3, <1>4 DEF Memory
<1> QED
    BY <1>1, <1>5

\* A startup, or a reload, that has an acceptable answer writes it to the files
\* of the receiver, whose floor it follows.
LEMMA AcceptanceHolds ==
    ASSUME ReceiverInv, NEW r \in Expected, NEW s \in Snapshot,
           NEW cache \in Outcome, NEW floor \in Outcome,
           persist_remote_acceptance(r, s, cache, floor),
           lapsed \/ (Follows(s, stable[r].floor) /\ (mode = "remote" => Follows(s, store[r].floor)))
    PROVE  \E st \in Files, sb \in Files :
               /\ store' = [store EXCEPT ![r] = st] /\ stable' = [stable EXCEPT ![r] = sb]
               /\ lapsed \/ FilesStand(st, sb, peak[r], mode = "remote")
               /\ floor = "ok" => st.floor = s /\ sb.floor = s
               /\ floor # "ok" => sb.floor = stable[r].floor
               /\ incidents' \in 0..MaxIncidents
<1>1. PICK st \in Files, sb \in Files :
               /\ store' = [store EXCEPT ![r] = st] /\ stable' = [stable EXCEPT ![r] = sb]
               /\ st.cache = Replaced(store[r].cache, s, cache)
               /\ st.floor = Replaced(store[r].floor, s, floor)
               /\ sb.cache = Stabilized(stable[r].cache, s, cache)
               /\ sb.floor = Stabilized(stable[r].floor, s, floor)
               /\ cache = "ok" \/ floor = "before"
               /\ incidents' \in 0..MaxIncidents
    BY AcceptanceFiles
<1>2. lapsed \/ FilesStand(st, sb, peak[r], mode = "remote")
  <2>1. SUFFICES ASSUME ~ lapsed PROVE FilesStand(st, sb, peak[r], mode = "remote")
    OBVIOUS
  <2>2. FilesStand(store[r], stable[r], peak[r], mode = "remote")
    BY <2>1, OneReceiver DEF ReceiverFits
  <2>3. Follows(s, stable[r].floor) /\ (mode = "remote" => Follows(s, store[r].floor))
    BY <2>1
  <2>4. PICK o, u, pk : o = store[r] /\ u = stable[r] /\ pk = peak[r]
    OBVIOUS
  <2>5. PICK rem \in BOOLEAN : rem = (mode = "remote")
    OBVIOUS
  <2>6. o \in Files /\ u \in Files /\ pk \in Snapshot \cup {None}
    BY <2>4, OneReceiver
  <2>7. /\ FilesStand(o, u, pk, rem) /\ Follows(s, u.floor) /\ (rem => Follows(s, o.floor))
        /\ st.cache = Replaced(o.cache, s, cache) /\ st.floor = Replaced(o.floor, s, floor)
        /\ sb.cache = Stabilized(u.cache, s, cache) /\ sb.floor = Stabilized(u.floor, s, floor)
        /\ cache = "ok" \/ floor = "before"
    BY <1>1, <2>2, <2>3, <2>4, <2>5
  <2>8. FilesStand(st, sb, pk, rem)
    BY <2>6, <2>7, AcceptanceStands
  <2> QED
    BY <2>4, <2>5, <2>8
<1> QED
    BY <1>1, <1>2 DEF Replaced, Stabilized

LEMMA BootAcceptKeeps ==
    ASSUME ReceiverInv, NEW r \in Expected, BootAccept(r),
           Acceptable(node[r].candidate, wall, store[r].floor)
    PROVE  ReceiverInv'
<1>1. PICK cache \in Outcome, floor \in Outcome :
             /\ UNCHANGED lapsed
             /\ persist_remote_acceptance(r, node[r].candidate, cache, floor)
             /\ SetNode(r, IF floor = "ok" THEN Booted(node[r].candidate) ELSE Stopped)
    BY DEF BootAccept
<1>2. PICK s : s = node[r].candidate
    OBVIOUS
<1>3. s \in Snapshot /\ Follows(s, store[r].floor)
    BY <1>2, OneReceiver, AcceptableFollows
<1>4. lapsed \/ Follows(s, stable[r].floor)
  <2>1. lapsed \/ Follows(store[r].floor, stable[r].floor)
    BY OneReceiver DEF ReceiverFits, FilesStand
  <2> QED
    BY <1>3, <2>1, OneReceiver, FollowsIsTransitive
<1>5. PICK st \in Files, sb \in Files :
               /\ store' = [store EXCEPT ![r] = st] /\ stable' = [stable EXCEPT ![r] = sb]
               /\ lapsed \/ FilesStand(st, sb, peak[r], mode = "remote")
               /\ floor = "ok" => st.floor = s /\ sb.floor = s
               /\ incidents' \in 0..MaxIncidents
    BY <1>1, <1>2, <1>3, <1>4, AcceptanceHolds
<1>6. PICK n : n = IF floor = "ok" THEN Booted(s) ELSE Stopped
    OBVIOUS
<1>7. ReceiverFits(n, st, sb, peak[r], mode = "remote", lapsed)
  <2>1. PICK pk : pk = peak[r]
    OBVIOUS
  <2>2. PICK rem \in BOOLEAN : rem = (mode = "remote")
    OBVIOUS
  <2>3. PICK lost \in BOOLEAN : lost = lapsed
    BY OneReceiver
  <2>4. /\ pk \in Snapshot \cup {None} /\ (lost \/ FilesStand(st, sb, pk, rem))
        /\ floor = "ok" => st.floor = s /\ (lost \/ sb.floor = s)
    BY <1>5, <2>1, <2>2, <2>3, OneReceiver
  <2>5. CASE floor = "ok"
    <3>1. /\ n \in Memory /\ n.phase = "booted" /\ n.candidate = s
          /\ n.floor = s /\ n.receipt = None
      BY <1>3, <1>6, <2>5, BootedType
    <3>2. lost \/ (FilesStand(st, sb, pk, rem) /\ sb.floor = s /\ (rem => st.floor = s))
      BY <2>4, <2>5
    <3>3. ReceiverFits(n, st, sb, pk, rem, lost)
      BY <1>3, <2>4, <3>1, <3>2, BootedFits
    <3> QED
      BY <2>1, <2>2, <2>3, <3>3
  <2>6. CASE floor # "ok"
    <3>1. n = Stopped
      BY <1>6, <2>6
    <3>2. ReceiverFits(n, st, sb, pk, rem, lost)
      BY <2>4, <3>1, StoppedFits
    <3> QED
      BY <2>1, <2>2, <2>3, <3>2
  <2> QED
    BY <2>5, <2>6
<1>8. UNCHANGED <<dvars, wall, mode, source, mail, peak>>
    BY DEF BootAccept
<1>9. MovesTo(r, n, st, sb, peak[r])
    BY <1>1, <1>2, <1>5, <1>6, <1>8 DEF MovesTo, SetNode, ReceiverInv, ReceiverTypes
<1> QED
    BY <1>1, <1>5, <1>7, <1>8, <1>9, OneReceiver, ReceiverMoves

\* Startup saves a floor only if it is new; otherwise it takes the file for saved.
LEMMA NewFloorFiles ==
    ASSUME ReceiverInv, NEW r \in Expected, NEW s \in Snapshot, NEW outcome \in Outcome,
           save_new_floor(r, s, outcome), Follows(s, store[r].floor),
           lapsed' = (lapsed \/ (outcome = "ok" /\ store'[r] # stable'[r])),
           mode = "remote" => store[r].cache = s
    PROVE  \E st \in Files, sb \in Files :
               /\ store' = [store EXCEPT ![r] = st] /\ stable' = [stable EXCEPT ![r] = sb]
               /\ lapsed' \in BOOLEAN /\ (lapsed => lapsed')
               /\ lapsed' \/ FilesStand(st, sb, peak[r], mode = "remote")
               /\ outcome = "ok" => st.floor = s /\ (lapsed' \/ sb.floor = s)
               /\ incidents' \in 0..MaxIncidents
<1>1. /\ store \in [Expected -> Files] /\ stable \in [Expected -> Files]
      /\ lapsed \in BOOLEAN
    BY DEF ReceiverInv, ReceiverTypes
<1>2. PICK o, u, pk : o = store[r] /\ u = stable[r] /\ pk = peak[r]
    OBVIOUS
<1>3. /\ o \in Files /\ u \in Files /\ pk \in Snapshot \cup {None}
      /\ o.floor \in Snapshot \cup {None} /\ u.floor \in Snapshot \cup {None}
      /\ incidents \in 0..MaxIncidents
      /\ lapsed \/ FilesStand(o, u, pk, mode = "remote")
    BY <1>2, OneReceiver DEF ReceiverFits
<1>4. CASE o.floor = s
  <2>1. /\ UNCHANGED <<store, stable, incidents>> /\ outcome = "ok"
    BY <1>2, <1>4 DEF save_new_floor
  <2>2. lapsed' = (lapsed \/ o # u)
    BY <1>2, <2>1
  <2>3. store' = [store EXCEPT ![r] = o] /\ stable' = [stable EXCEPT ![r] = u]
    BY <1>1, <1>2, <2>1
  <2> QED
    BY <1>1, <1>2, <1>3, <1>4, <2>1, <2>2, <2>3
<1>5. CASE o.floor # s
  <2>1. save_floor(r, s, outcome)
    BY <1>2, <1>5 DEF save_new_floor
  <2>2. PICK st : st = [o EXCEPT !.floor = Replaced(@, s, outcome)]
    OBVIOUS
  <2>3. PICK sb : sb = [u EXCEPT !.floor = Stabilized(@, s, outcome)]
    OBVIOUS
  <2>4. /\ st \in Files /\ st.cache = o.cache /\ st.floor = Replaced(o.floor, s, outcome)
    BY <1>3, <2>2 DEF Files, Replaced
  <2>5. /\ sb \in Files /\ sb.cache = u.cache /\ sb.floor = Stabilized(u.floor, s, outcome)
    BY <1>3, <2>3 DEF Files, Stabilized
  <2>6. store' = [store EXCEPT ![r] = st] /\ stable' = [stable EXCEPT ![r] = sb]
    BY <1>1, <1>2, <2>1, <2>2, <2>3 DEF save_floor
  <2>7. incidents' \in 0..MaxIncidents
    BY <1>3, <2>1, IncidentsAreBounded, FaultsType DEF save_floor
  <2>8. lapsed' = (lapsed \/ (outcome = "ok" /\ st # sb))
    BY <1>1, <2>6
  <2>9. ASSUME ~ lapsed'
        PROVE  FilesStand(st, sb, pk, mode = "remote")
    <3>1. FilesStand(o, u, pk, mode = "remote") /\ (outcome = "ok" => st = sb)
      BY <1>3, <2>8, <2>9
    <3>2. Follows(s, o.floor) /\ (mode = "remote" => o.cache = s)
      BY <1>2
    <3>3. Follows(s, u.floor) /\ Follows(s, pk)
      <4>1. Follows(o.floor, u.floor) /\ Follows(u.floor, pk)
        BY <3>1 DEF FilesStand
      <4>2. Follows(s, u.floor)
        BY <1>3, <3>2, <4>1, FollowsIsTransitive
      <4> QED
        BY <1>3, <4>1, <4>2, FollowsIsTransitive
    <3>4. \A x : Follows(x, x)
      BY DEF Follows
    <3>5. Follows(sb.floor, pk) /\ Follows(st.floor, sb.floor)
      BY <2>4, <2>5, <3>1, <3>3, <3>4 DEF FilesStand, Replaced, Stabilized, Outcome
    <3>6. mode = "remote" => Follows(st.cache, st.floor) /\ Follows(sb.cache, sb.floor)
      BY <2>4, <2>5, <3>1, <3>2, <3>4 DEF FilesStand, Replaced, Stabilized, Outcome
    <3> QED
      BY <3>5, <3>6 DEF FilesStand
  <2>10. outcome = "ok" => st.floor = s /\ sb.floor = s
    BY <2>4, <2>5 DEF Replaced, Stabilized
  <2> QED
    BY <1>1, <1>2, <2>4, <2>5, <2>6, <2>7, <2>8, <2>9, <2>10
<1> QED
    BY <1>4, <1>5

\* A startup from the cached snapshot or from the local file saves a floor that
\* is new, and takes the one in the file for saved.
LEMMA NewFloorKeeps ==
    ASSUME ReceiverInv, NEW r \in Expected, NEW s \in Snapshot, NEW outcome \in Outcome,
           save_new_floor(r, s, outcome), Follows(s, store[r].floor),
           lapsed' = (lapsed \/ (outcome = "ok" /\ store'[r] # stable'[r])),
           mode = "remote" => store[r].cache = s,
           UNCHANGED <<dvars, wall, mode, source, mail, peak>>,
           NEW n, SetNode(r, n), n \in Memory, n.receipt = None,
           outcome = "ok" => n.phase = "booted" /\ n.candidate = s /\ n.floor = s,
           outcome # "ok" => n = Stopped
    PROVE  ReceiverInv'
<1>1. PICK st \in Files, sb \in Files :
               /\ store' = [store EXCEPT ![r] = st] /\ stable' = [stable EXCEPT ![r] = sb]
               /\ lapsed' \in BOOLEAN /\ (lapsed => lapsed')
               /\ lapsed' \/ FilesStand(st, sb, peak[r], mode = "remote")
               /\ outcome = "ok" => st.floor = s /\ (lapsed' \/ sb.floor = s)
               /\ incidents' \in 0..MaxIncidents
    BY NewFloorFiles
<1>2. ReceiverFits(n, st, sb, peak[r], mode = "remote", lapsed')
  <2>1. PICK pk : pk = peak[r]
    OBVIOUS
  <2>2. PICK rem \in BOOLEAN : rem = (mode = "remote")
    OBVIOUS
  <2>3. PICK lost \in BOOLEAN : lost = lapsed'
    BY <1>1
  <2>4. /\ pk \in Snapshot \cup {None} /\ (lost \/ FilesStand(st, sb, pk, rem))
        /\ outcome = "ok" => st.floor = s /\ (lost \/ sb.floor = s)
    BY <1>1, <2>1, <2>2, <2>3, OneReceiver
  <2>5. CASE outcome = "ok"
    <3>1. lost \/ (FilesStand(st, sb, pk, rem) /\ sb.floor = s /\ (rem => st.floor = s))
      BY <2>4, <2>5
    <3>2. ReceiverFits(n, st, sb, pk, rem, lost)
      BY <2>4, <2>5, <3>1, BootedFits
    <3> QED
      BY <2>1, <2>2, <2>3, <3>2
  <2>6. CASE outcome # "ok"
    <3>1. ReceiverFits(n, st, sb, pk, rem, lost)
      BY <2>4, <2>6, StoppedFits
    <3> QED
      BY <2>1, <2>2, <2>3, <3>1
  <2> QED
    BY <2>5, <2>6
<1>3. MovesTo(r, n, st, sb, peak[r])
    BY <1>1 DEF MovesTo, SetNode, ReceiverInv, ReceiverTypes
<1> QED
    BY <1>1, <1>2, <1>3, OneReceiver, ReceiverMoves

LEMMA CachedFallbackKeeps ==
    ASSUME ReceiverInv, NEW r \in Expected, cached_fallback(r),
           UNCHANGED <<dvars, wall, mode, source, mail, peak>>
    PROVE  ReceiverInv'
<1>1. PICK s : s = load_verified_cache(r)
    OBVIOUS
<1>2. CASE s = None
  <2>1. SetNode(r, Stopped) /\ UNCHANGED <<store, stable, incidents, lapsed>>
    BY <1>1, <1>2 DEF cached_fallback
  <2>2. PICK n : n = Stopped
    OBVIOUS
  <2>3. ReceiverFits(n, store[r], stable[r], peak[r], mode = "remote", lapsed)
    BY <2>2, OneReceiver, StoppedMoveFits
  <2>4. MovesTo(r, n, store[r], stable[r], peak[r])
    BY <2>1, <2>2, QuietMove
  <2> QED
    BY <2>1, <2>3, <2>4, OneReceiver, ReceiverMoves
<1>3. CASE s # None
  <2>1. s = store[r].cache /\ Acceptable(s, wall, store[r].floor)
    BY <1>1, <1>3 DEF load_verified_cache
  <2>2. s \in Snapshot /\ Follows(s, store[r].floor)
    BY <2>1, OneReceiver, AcceptableFollows
  <2>3. PICK floor \in Outcome :
          /\ save_new_floor(r, s, floor)
          /\ lapsed' = (lapsed \/ (floor = "ok" /\ store'[r] # stable'[r]))
          /\ SetNode(r, IF floor = "ok" THEN Booted(s) ELSE Stopped)
    BY <1>1, <1>3 DEF cached_fallback
  <2>4. PICK n : n = IF floor = "ok" THEN Booted(s) ELSE Stopped
    OBVIOUS
  <2>5. /\ n \in Memory /\ n.receipt = None
        /\ floor = "ok" => n.phase = "booted" /\ n.candidate = s /\ n.floor = s
        /\ floor # "ok" => n = Stopped
    BY <2>2, <2>4, BootedType, StoppedType
  <2>6. SetNode(r, n)
    BY <2>3, <2>4
  <2> QED
    BY <2>1, <2>2, <2>3, <2>5, <2>6, NewFloorKeeps
<1> QED
    BY <1>2, <1>3

LEMMA BootKeeps ==
    ASSUME ReceiverInv, NEW r \in Expected, BootAccept(r)
    PROVE  ReceiverInv'
<1>1. CASE Acceptable(node[r].candidate, wall, store[r].floor)
    BY <1>1, BootAcceptKeeps
<1>2. CASE ~ Acceptable(node[r].candidate, wall, store[r].floor)
  <2>1. cached_fallback(r) /\ UNCHANGED <<dvars, wall, mode, source, mail, peak>>
    BY <1>2 DEF BootAccept
  <2> QED
    BY <2>1, CachedFallbackKeeps
<1> QED
    BY <1>1, <1>2

LEMMA BootFileKeeps ==
    ASSUME ReceiverInv, NEW r \in Expected, BootFile(r)
    PROVE  ReceiverInv'
<1>1. PICK s : s = source
    OBVIOUS
<1>2. s \in Snapshot /\ Follows(s, store[r].floor)
    BY <1>1, OneReceiver, AcceptableFollows DEF BootFile
<1>3. PICK floor \in Outcome :
        /\ save_new_floor(r, s, floor)
        /\ lapsed' = (lapsed \/ (floor = "ok" /\ store'[r] # stable'[r]))
        /\ SetNode(r, IF floor = "ok"
                  THEN [Stopped EXCEPT !.phase = "booted", !.candidate = s,
                                       !.floor = s, !.seen = s]
                  ELSE Stopped)
    BY <1>1 DEF BootFile
<1>4. PICK z : z = Stopped
    OBVIOUS
<1>5. z \in Memory /\ z.receipt = None
    BY <1>4, StoppedType
<1>6. PICK b : b = [z EXCEPT !.phase = "booted", !.candidate = s, !.floor = s, !.seen = s]
    OBVIOUS
<1>7. /\ b \in Memory /\ b.phase = "booted" /\ b.candidate = s
      /\ b.floor = s /\ b.receipt = None
    BY <1>2, <1>5, <1>6 DEF Memory
<1>8. PICK n : n = IF floor = "ok" THEN b ELSE z
    OBVIOUS
<1>9. /\ n \in Memory /\ n.receipt = None
      /\ floor = "ok" => n.phase = "booted" /\ n.candidate = s /\ n.floor = s
      /\ floor # "ok" => n = Stopped
    BY <1>4, <1>5, <1>7, <1>8
<1>10. SetNode(r, n)
    BY <1>3, <1>4, <1>6, <1>8
<1>11. mode # "remote" /\ UNCHANGED <<dvars, wall, mode, source, mail, peak>>
    BY DEF BootFile
<1> QED
    BY <1>2, <1>3, <1>9, <1>10, <1>11, NewFloorKeeps

-----------------------------------------------------------------------------
(* A running receiver.                                                       *)

\* What a running receiver with these values satisfies, besides the types.
Running(m, o, u, pk, remote, lost) ==
    \/ lost
    \/ /\ FilesStand(o, u, pk, remote)
       /\ m.floor = u.floor
       /\ remote /\ ~ m.latched => o.floor = m.floor
       /\ m.receipt # None => Generation(pk) >= m.receipt.generation

\* The values of one receiver.
ValuesOf(r, m, o, u, pk, remote, lost) ==
    /\ m = node[r] /\ o = store[r] /\ u = stable[r] /\ pk = peak[r]
    /\ remote = (mode = "remote") /\ lost = lapsed

LEMMA RunningReceiver ==
    ASSUME ReceiverInv, NEW r \in Expected, node[r].phase \in UpPhase \cup {"booted"},
           NEW m, NEW o, NEW u, NEW pk, NEW remote, NEW lost,
           ValuesOf(r, m, o, u, pk, remote, lost)
    PROVE  /\ m \in Memory /\ o \in Files /\ u \in Files /\ pk \in Snapshot \cup {None}
           /\ remote \in BOOLEAN /\ lost \in BOOLEAN
           /\ Running(m, o, u, pk, remote, lost) /\ MemoryFits(m, pk)
<1>1. remote \in BOOLEAN /\ lost \in BOOLEAN
    BY OneReceiver DEF ValuesOf
<1>2. /\ ReceiverFits(m, o, u, pk, remote, lost)
      /\ m \in Memory /\ o \in Files /\ u \in Files /\ pk \in Snapshot \cup {None}
      /\ m.phase \in UpPhase \cup {"booted"}
    BY OneReceiver DEF ValuesOf
<1>3. Running(m, o, u, pk, remote, lost) /\ MemoryFits(m, pk)
    BY <1>2 DEF Running, ReceiverFits, FloorHeld
<1> QED
    BY <1>1, <1>2, <1>3

LEMMA UpFits ==
    ASSUME NEW n \in Memory, NEW o \in Files, NEW u \in Files, NEW pk \in Snapshot \cup {None},
           NEW remote \in BOOLEAN, NEW lost \in BOOLEAN,
           MemoryFits(n, pk), Running(n, o, u, pk, remote, lost)
    PROVE  ReceiverFits(n, o, u, pk, remote, lost)
BY DEF ReceiverFits, Running, FloorHeld

\* After startup and after a reload, whatever its outcome.
LEMMA ReloadedMemory ==
    ASSUME NEW n \in Memory, NEW pk \in Snapshot, n.active = pk
    PROVE  /\ Reloaded(n) \in Memory /\ MemoryFits(Reloaded(n), pk)
           /\ Reloaded(n).floor = n.floor /\ Reloaded(n).latched = n.latched
           /\ Reloaded(n).receipt = n.receipt /\ Reloaded(n).active = n.active
           /\ Reloaded(n).phase \in {"idle", "report"}
           /\ Reloaded(n).phase = "report" <=> n.receipt # None
<1>1. PICK m : m = Reloaded(n)
    OBVIOUS
<1>2. /\ m \in Memory /\ m.phase = (IF n.receipt = None THEN "idle" ELSE "report")
      /\ m.active = n.active /\ m.floor = n.floor /\ m.receipt = n.receipt
      /\ m.latched = n.latched
    BY <1>1 DEF Reloaded, Memory
<1>3. pk # None
    BY NoSnapshot
<1>4. MemoryFits(m, pk)
    BY <1>2, <1>3 DEF MemoryFits, UpPhase
<1> QED
    BY <1>1, <1>2, <1>4

\* A policy that the files have already is activated.
LEMMA ActivationKeeps ==
    ASSUME ReceiverInv, NEW r \in Expected, node[r].phase \in {"booted", "accepted"},
           NEW s, s = node[r].candidate, NEW n \in Memory, n.active = s,
           n.floor = node[r].floor, n.latched = node[r].latched, n.receipt \in {s, None},
           SetNode(r, Reloaded(n)), peak' = [peak EXCEPT ![r] = s],
           UNCHANGED <<dvars, incidents, wall, mode, source, store, stable, mail, lapsed>>
    PROVE  ReceiverInv'
<1>v. PICK m, o, u, pk, remote, lost : ValuesOf(r, m, o, u, pk, remote, lost)
    BY DEF ValuesOf
<1>0. /\ m = node[r] /\ o = store[r] /\ u = stable[r] /\ pk = peak[r]
      /\ remote = (mode = "remote") /\ lost = lapsed
    BY <1>v DEF ValuesOf
<1>1. /\ m \in Memory /\ o \in Files /\ u \in Files /\ pk \in Snapshot \cup {None}
      /\ remote \in BOOLEAN /\ lost \in BOOLEAN
      /\ Running(m, o, u, pk, remote, lost) /\ MemoryFits(m, pk)
    BY <1>v, RunningReceiver DEF UpPhase
<1>2. m.candidate = s /\ m.floor = s /\ s # None /\ s \in Snapshot
    BY <1>0, <1>1 DEF MemoryFits, Memory
<1>3. PICK k : k = Reloaded(n)
    OBVIOUS
<1>4. /\ k \in Memory /\ MemoryFits(k, s) /\ k.floor = s /\ k.latched = m.latched
      /\ k.receipt \in {s, None}
    BY <1>0, <1>1, <1>2, <1>3, ReloadedMemory
<1>5. Running(k, o, u, s, remote, lost)
  <2>1. SUFFICES ASSUME ~ lost PROVE Running(k, o, u, s, remote, lost)
    BY DEF Running
  <2>2. FilesStand(o, u, pk, remote) /\ u.floor = s /\ (remote /\ ~ k.latched => o.floor = s)
    BY <1>0, <1>1, <1>2, <1>4, <2>1 DEF Running
  <2>3. FilesStand(o, u, s, remote)
    BY <2>2 DEF FilesStand, Follows
  <2>4. k.receipt # None => Generation(s) >= k.receipt.generation
    BY <1>2, <1>4, GenerationType DEF Generation
  <2> QED
    BY <1>4, <2>2, <2>3, <2>4 DEF Running
<1>6. ReceiverFits(k, o, u, s, remote, lost)
    BY <1>1, <1>2, <1>4, <1>5, UpFits
<1>7. lost \/ Generation(s) >= Generation(pk)
  <2>1. lost \/ Follows(s, pk)
    BY <1>0, <1>1, <1>2 DEF Running, FilesStand
  <2> QED
    BY <1>0, <1>1, <1>2, <2>1, FollowsIsAbove
<1>8. MovesTo(r, k, o, u, s)
    BY <1>0, <1>1, <1>3 DEF MovesTo, SetNode, ReceiverInv, ReceiverTypes
<1>9. /\ ReceiverFits(k, o, u, s, mode = "remote", lapsed')
      /\ lapsed' \in BOOLEAN /\ (lapsed => lapsed')
      /\ lapsed' \/ Generation(s) >= Generation(peak[r])
    BY <1>0, <1>1, <1>6, <1>7
<1> QED
    BY <1>8, <1>9, OneReceiver, ReceiverMoves

\* A running receiver whose policy stays.
LEMMA StayingKeeps ==
    ASSUME ReceiverInv, NEW r \in Expected, node[r].phase \in UpPhase, NEW n \in Memory,
           n.floor = node[r].floor, n.latched = node[r].latched, n.active = node[r].active,
           n.receipt \in {node[r].receipt, None},
           n.phase \in {"idle", "fetched", "report", "posting"},
           n.phase = "fetched" => ~ n.latched,
           n.phase \in {"report", "posting"} => n.receipt # None,
           SetNode(r, n), incidents' \in 0..MaxIncidents, mail' \subseteq mail,
           UNCHANGED <<dvars, wall, mode, source, store, stable, peak, lapsed>>
    PROVE  ReceiverInv'
<1>v. PICK m, o, u, pk, remote, lost : ValuesOf(r, m, o, u, pk, remote, lost)
    BY DEF ValuesOf
<1>0. /\ m = node[r] /\ o = store[r] /\ u = stable[r] /\ pk = peak[r]
      /\ remote = (mode = "remote") /\ lost = lapsed
    BY <1>v DEF ValuesOf
<1>1. /\ m \in Memory /\ o \in Files /\ u \in Files /\ pk \in Snapshot \cup {None}
      /\ remote \in BOOLEAN /\ lost \in BOOLEAN
      /\ Running(m, o, u, pk, remote, lost) /\ MemoryFits(m, pk)
    BY <1>v, RunningReceiver
<1>2. MemoryFits(n, pk)
    BY <1>0, <1>1 DEF MemoryFits, UpPhase
<1>3. Running(n, o, u, pk, remote, lost)
  <2>1. n.floor = m.floor /\ n.latched = m.latched /\ n.receipt \in {m.receipt, None}
    BY <1>0, <1>1
  <2> QED
    BY <1>0, <1>1, <2>1 DEF Running
<1>4. ReceiverFits(n, o, u, pk, remote, lost)
    BY <1>1, <1>2, <1>3, UpFits
<1>5. ReceiverFits(n, store[r], stable[r], peak[r], mode = "remote", lapsed')
    BY <1>0, <1>1, <1>4
<1>6. MovesTo(r, n, store[r], stable[r], peak[r])
    BY QuietMove
<1> QED
    BY <1>5, <1>6, OneReceiver, ReceiverMoves

LEMMA StopKeeps ==
    ASSUME ReceiverInv, NEW r \in Expected, SetNode(r, Stopped),
           incidents' \in 0..MaxIncidents,
           UNCHANGED <<dvars, wall, mode, source, store, stable, mail, peak, lapsed>>
    PROVE  ReceiverInv'
<1>1. PICK n : n = Stopped
    OBVIOUS
<1>2. ReceiverFits(n, store[r], stable[r], peak[r], mode = "remote", lapsed)
    BY <1>1, StoppedMoveFits
<1>3. MovesTo(r, n, store[r], stable[r], peak[r])
    BY <1>1, QuietMove
<1> QED
    BY <1>2, <1>3, OneReceiver, ReceiverMoves

LEMMA BootActivateKeeps ==
    ASSUME ReceiverInv, NEW r \in Expected, BootActivate(r)
    PROVE  ReceiverInv'
<1>1. UNCHANGED <<dvars, incidents, wall, mode, source, store, stable, mail, lapsed>>
      /\ node[r].phase = "booted"
    BY DEF BootActivate
<1>2. CASE validate_receiver_validity(node[r].candidate, wall)
  <2>1. PICK s : s = node[r].candidate
    OBVIOUS
  <2>2. PICK x : x = IF mode = "remote" THEN s ELSE None
    OBVIOUS
  <2>3. PICK n : n = [node[r] EXCEPT !.active = s, !.now = wall, !.receipt = x]
    OBVIOUS
  <2>4. /\ n \in Memory /\ n.active = s /\ n.floor = node[r].floor
        /\ n.latched = node[r].latched /\ n.receipt \in {s, None}
    <3>1. PICK m : m = node[r]
      OBVIOUS
    <3>2. m \in Memory /\ s \in Snapshot \cup {None} /\ wall \in 0..MaxClock
      BY <2>1, <3>1, OneReceiver
    <3>3. n = [m EXCEPT !.active = s, !.now = wall, !.receipt = x] /\ x \in {s, None}
      BY <2>2, <2>3, <3>1
    <3>4. /\ n \in Memory /\ n.active = s /\ n.floor = m.floor
          /\ n.latched = m.latched /\ n.receipt \in {s, None}
      BY <3>2, <3>3 DEF Memory
    <3> QED
      BY <3>1, <3>4
  <2>5. SetNode(r, Reloaded(n)) /\ peak' = [peak EXCEPT ![r] = s]
    BY <1>2, <2>1, <2>2, <2>3 DEF BootActivate
  <2> QED
    BY <1>1, <2>1, <2>4, <2>5, ActivationKeeps
<1>3. CASE ~ validate_receiver_validity(node[r].candidate, wall)
  <2>1. SetNode(r, Stopped) /\ UNCHANGED peak
    BY <1>3 DEF BootActivate
  <2> QED
    BY <1>1, <2>1, OneReceiver, StopKeeps
<1> QED
    BY <1>2, <1>3

\* A reload that leaves the policy alone: at most the time is noted.
LEMMA ReloadKeeps ==
    ASSUME ReceiverInv, NEW r \in Expected, node[r].phase \in UpPhase, NEW t \in 0..MaxClock,
           NEW n, n = [node[r] EXCEPT !.now = t], SetNode(r, Reloaded(n)),
           incidents' \in 0..MaxIncidents,
           UNCHANGED <<dvars, wall, mode, source, store, stable, mail, peak, lapsed>>
    PROVE  ReceiverInv'
<1>1. PICK m : m = node[r]
    OBVIOUS
<1>2. m \in Memory /\ m.active \in Snapshot
    BY <1>1, OneReceiver DEF ReceiverFits, MemoryFits
<1>3. /\ n \in Memory /\ n.floor = m.floor /\ n.latched = m.latched /\ n.active = m.active
      /\ n.receipt = m.receipt
    BY <1>1, <1>2 DEF Memory
<1>4. PICK k : k = Reloaded(n)
    OBVIOUS
<1>5. /\ k \in Memory /\ k.floor = m.floor /\ k.latched = m.latched /\ k.active = m.active
      /\ k.receipt = m.receipt /\ k.phase \in {"idle", "report"}
      /\ k.phase = "report" <=> m.receipt # None
    BY <1>2, <1>3, <1>4, ReloadedMemory
<1> QED
    BY <1>1, <1>4, <1>5, StayingKeeps

LEMMA ObservedType ==
    ASSUME ReceiverInv, NEW r \in Expected
    PROVE  Observed(r) \in 0..MaxClock
BY OneReceiver DEF Observed

LEMMA SameTime ==
    ASSUME ReceiverInv, NEW r \in Expected
    PROVE  /\ node[r].now \in 0..MaxClock
           /\ node[r] = [node[r] EXCEPT !.now = node[r].now]
<1>1. PICK m : m = node[r]
    OBVIOUS
<1>2. m \in Memory
    BY <1>1, OneReceiver
<1>3. m = [m EXCEPT !.now = m.now] /\ m.now \in 0..MaxClock
    BY <1>2 DEF Memory
<1> QED
    BY <1>1, <1>3

LEMMA FetchUpdateKeeps ==
    ASSUME ReceiverInv, NEW r \in Expected, FetchUpdate(r)
    PROVE  ReceiverInv'
<1>1. /\ node[r].phase = "idle" /\ node[r].phase \in UpPhase
      /\ UNCHANGED <<dvars, incidents, wall, mode, source, store, stable, mail, peak, lapsed>>
      /\ incidents' \in 0..MaxIncidents
    BY OneReceiver DEF FetchUpdate, UpPhase
<1>2. CASE SetNode(r, Reloaded(node[r]))
    BY <1>1, <1>2, SameTime, ReloadKeeps
<1>3. CASE SetNode(r, Reloaded(accept_not_modified(r)))
    BY <1>1, <1>3, ObservedType, ReloadKeeps DEF accept_not_modified
<1>4. CASE /\ ~ node[r].latched
           /\ SetNode(r, [node[r] EXCEPT !.phase = "fetched", !.candidate = current.snapshot])
  <2>1. PICK m, c : m = node[r] /\ c = current.snapshot
    OBVIOUS
  <2>2. m \in Memory /\ c \in Snapshot \cup {None}
    BY <2>1, OneReceiver
  <2>3. PICK n : n = [m EXCEPT !.phase = "fetched", !.candidate = c]
    OBVIOUS
  <2>4. /\ n \in Memory /\ n.floor = m.floor /\ n.latched = m.latched /\ n.active = m.active
        /\ n.receipt = m.receipt /\ n.phase = "fetched"
    BY <2>2, <2>3 DEF Memory
  <2>5. SetNode(r, n) /\ ~ m.latched
    BY <1>4, <2>1, <2>3
  <2> QED
    BY <1>1, <2>1, <2>4, <2>5, StayingKeeps
<1>5. \/ SetNode(r, Reloaded(node[r]))
      \/ SetNode(r, Reloaded(accept_not_modified(r)))
      \/ /\ ~ node[r].latched
         /\ SetNode(r, [node[r] EXCEPT !.phase = "fetched", !.candidate = current.snapshot])
    BY DEF FetchUpdate
<1> QED
    BY <1>2, <1>3, <1>4, <1>5

LEMMA FetchFailsKeeps ==
    ASSUME ReceiverInv, NEW r \in Expected, FetchFails(r)
    PROVE  ReceiverInv'
<1>1. /\ node[r].phase \in UpPhase /\ SetNode(r, Reloaded(node[r]))
      /\ UNCHANGED <<dvars, wall, mode, source, store, stable, mail, peak, lapsed>>
    BY DEF FetchFails, UpPhase
<1>2. incidents' \in 0..MaxIncidents
    BY OneReceiver, IncidentsAreBounded DEF FetchFails
<1> QED
    BY <1>1, <1>2, SameTime, ReloadKeeps

LEMMA ActivateKeeps ==
    ASSUME ReceiverInv, NEW r \in Expected, Activate(r)
    PROVE  ReceiverInv'
<1>1. /\ node[r].phase = "accepted" /\ node[r].phase \in UpPhase
      /\ UNCHANGED <<dvars, incidents, wall, mode, source, store, stable, mail, lapsed>>
      /\ incidents' \in 0..MaxIncidents
    BY OneReceiver DEF Activate, UpPhase
<1>2. PICK t \in 0..MaxClock : t = Observed(r)
    BY ObservedType
<1>3. PICK n : n = [node[r] EXCEPT !.now = t]
    OBVIOUS
<1>4. PICK s : s = node[r].candidate
    OBVIOUS
<1>5. CASE apply_signed_snapshot(n, s)
  <2>1. PICK x : x = IF mode = "remote" THEN s ELSE None
    OBVIOUS
  <2>2. PICK y : y = IF mode = "file" THEN s ELSE n.seen
    OBVIOUS
  <2>3. PICK k : k = [n EXCEPT !.active = s, !.receipt = x, !.seen = y]
    OBVIOUS
  <2>4. /\ k \in Memory /\ k.active = s /\ k.floor = node[r].floor
        /\ k.latched = node[r].latched /\ k.receipt \in {s, None}
    <3>1. PICK m : m = node[r]
      OBVIOUS
    <3>2. m \in Memory /\ s \in Snapshot \cup {None}
      BY <1>4, <3>1, OneReceiver
    <3>3. n \in Memory /\ n.floor = m.floor /\ n.latched = m.latched
      BY <1>2, <1>3, <3>1, <3>2 DEF Memory
    <3>4. y \in Snapshot \cup {None} /\ x \in {s, None}
      BY <2>1, <2>2, <3>2, <3>3 DEF Memory
    <3>5. /\ k \in Memory /\ k.active = s /\ k.floor = m.floor
          /\ k.latched = m.latched /\ k.receipt \in {s, None}
      BY <2>3, <3>2, <3>3, <3>4 DEF Memory
    <3> QED
      BY <3>1, <3>5
  <2>5. SetNode(r, Reloaded(k)) /\ peak' = [peak EXCEPT ![r] = s]
    BY <1>2, <1>3, <1>4, <1>5, <2>1, <2>2, <2>3 DEF Activate
  <2> QED
    BY <1>1, <1>4, <2>4, <2>5, ActivationKeeps
<1>6. CASE ~ apply_signed_snapshot(n, s)
  <2>1. SetNode(r, Reloaded(n)) /\ UNCHANGED peak
    BY <1>2, <1>3, <1>4, <1>6 DEF Activate
  <2> QED
    BY <1>1, <1>2, <1>3, <2>1, ReloadKeeps
<1> QED
    BY <1>5, <1>6

\* A running receiver whose files have been written.
LEMMA WritingKeeps ==
    ASSUME ReceiverInv, NEW r \in Expected, NEW n, NEW st \in Files, NEW sb \in Files,
           store' = [store EXCEPT ![r] = st], stable' = [stable EXCEPT ![r] = sb],
           SetNode(r, n), MemoryFits(n, peak[r]),
           Running(n, st, sb, peak[r], mode = "remote", lapsed),
           incidents' \in 0..MaxIncidents,
           UNCHANGED <<dvars, wall, mode, source, mail, peak, lapsed>>
    PROVE  ReceiverInv'
<1>1. ReceiverFits(n, st, sb, peak[r], mode = "remote", lapsed)
  <2>1. PICK pk : pk = peak[r]
    OBVIOUS
  <2>2. PICK rem \in BOOLEAN : rem = (mode = "remote")
    OBVIOUS
  <2>3. PICK lost \in BOOLEAN : lost = lapsed
    BY OneReceiver
  <2>4. /\ pk \in Snapshot \cup {None} /\ n \in Memory
        /\ MemoryFits(n, pk) /\ Running(n, st, sb, pk, rem, lost)
    BY <2>1, <2>2, <2>3, OneReceiver DEF MemoryFits
  <2>5. ReceiverFits(n, st, sb, pk, rem, lost)
    BY <2>4, UpFits
  <2> QED
    BY <2>1, <2>2, <2>3, <2>5
<1>2. MovesTo(r, n, st, sb, peak[r])
    BY DEF MovesTo, SetNode, ReceiverInv, ReceiverTypes
<1> QED
    BY <1>1, <1>2, OneReceiver, ReceiverMoves

LEMMA AcceptKeeps ==
    ASSUME ReceiverInv, NEW r \in Expected, Accept(r)
    PROVE  ReceiverInv'
<1>1. /\ node[r].phase = "fetched" /\ node[r].phase \in UpPhase
      /\ UNCHANGED <<dvars, wall, mode, source, mail, peak, lapsed>>
    BY DEF Accept, UpPhase
<1>2. PICK t \in 0..MaxClock : t = Observed(r)
    BY ObservedType
<1>3. PICK n : n = [node[r] EXCEPT !.now = t]
    OBVIOUS
<1>4. PICK s : s = n.candidate
    OBVIOUS
<1>5. CASE ~ Acceptable(s, n.now, n.floor)
  <2>1. SetNode(r, Reloaded(n)) /\ UNCHANGED <<store, stable, incidents>>
    BY <1>2, <1>3, <1>4, <1>5 DEF Accept
  <2> QED
    BY <1>1, <1>2, <1>3, <2>1, OneReceiver, ReloadKeeps
<1>6. CASE Acceptable(s, n.now, n.floor)
  <2>1. PICK cache \in Outcome, floor \in Outcome :
          /\ persist_remote_acceptance(r, s, cache, floor)
          /\ SetNode(r, IF floor = "ok"
                        THEN [n EXCEPT !.phase = "accepted", !.floor = s, !.etag = s]
                        ELSE [Reloaded(n) EXCEPT !.latched = TRUE])
    BY <1>2, <1>3, <1>4, <1>6 DEF Accept
  <2>2. PICK m, o, u, pk, remote, lost : ValuesOf(r, m, o, u, pk, remote, lost)
    BY DEF ValuesOf
  <2>3. /\ m = node[r] /\ o = store[r] /\ u = stable[r] /\ pk = peak[r]
        /\ remote = (mode = "remote") /\ lost = lapsed
    BY <2>2 DEF ValuesOf
  <2>4. /\ m \in Memory /\ o \in Files /\ u \in Files /\ pk \in Snapshot \cup {None}
        /\ remote \in BOOLEAN /\ lost \in BOOLEAN
        /\ Running(m, o, u, pk, remote, lost) /\ MemoryFits(m, pk)
    BY <1>1, <2>2, RunningReceiver
  <2>5. ~ m.latched /\ m.active = pk /\ pk # None
    BY <1>1, <2>3, <2>4 DEF MemoryFits, UpPhase
  <2>6. /\ n \in Memory /\ n.floor = m.floor /\ n.candidate = m.candidate
        /\ n.receipt = m.receipt /\ n.active = m.active /\ n.latched = m.latched
    BY <1>2, <1>3, <2>3, <2>4 DEF Memory
  <2>7. s \in Snapshot /\ s # None /\ Follows(s, m.floor)
    <3>1. s \in Snapshot \cup {None} /\ m.floor \in Snapshot \cup {None}
      BY <1>4, <2>4, <2>6 DEF Memory
    <3> QED
      BY <1>6, <2>6, <3>1, AcceptableFollows
  <2>8. lost \/ (Follows(s, u.floor) /\ (remote => Follows(s, o.floor)))
    BY <2>4, <2>5, <2>7 DEF Running
  <2>9. lapsed \/ (Follows(s, stable[r].floor) /\ (mode = "remote" => Follows(s, store[r].floor)))
    BY <2>3, <2>8
  <2>10. PICK st \in Files, sb \in Files :
               /\ store' = [store EXCEPT ![r] = st] /\ stable' = [stable EXCEPT ![r] = sb]
               /\ lapsed \/ FilesStand(st, sb, peak[r], mode = "remote")
               /\ floor = "ok" => st.floor = s /\ sb.floor = s
               /\ floor # "ok" => sb.floor = stable[r].floor
               /\ incidents' \in 0..MaxIncidents
    BY <2>1, <2>7, <2>9, AcceptanceHolds
  <2>11. /\ lost \/ FilesStand(st, sb, pk, remote)
         /\ floor # "ok" => sb.floor = u.floor
    BY <2>3, <2>10
  <2>12. CASE floor = "ok"
    <3>1. PICK k : k = [n EXCEPT !.phase = "accepted", !.floor = s, !.etag = s]
      OBVIOUS
    <3>2. /\ k \in Memory /\ k.phase = "accepted" /\ k.floor = s /\ k.candidate = s
          /\ k.receipt = m.receipt /\ k.active = pk
      BY <1>4, <2>5, <2>6, <2>7, <3>1 DEF Memory
    <3>3. MemoryFits(k, pk)
      BY <2>4, <2>5, <2>7, <3>2 DEF MemoryFits, UpPhase
    <3>4. Running(k, st, sb, pk, remote, lost)
      BY <2>4, <2>10, <2>11, <2>12, <3>2 DEF Running
    <3>5. SetNode(r, k)
      BY <2>1, <2>12, <3>1
    <3>6. MemoryFits(k, peak[r]) /\ Running(k, st, sb, peak[r], mode = "remote", lapsed)
      BY <2>3, <3>3, <3>4
    <3> QED
      BY <1>1, <2>10, <3>5, <3>6, WritingKeeps
  <2>13. CASE floor # "ok"
    <3>1. PICK z : z = Reloaded(n)
      OBVIOUS
    <3>2. /\ z \in Memory /\ MemoryFits(z, pk) /\ z.floor = m.floor /\ z.receipt = m.receipt
          /\ z.phase \in {"idle", "report"} /\ z.active = pk
      BY <2>4, <2>5, <2>6, <3>1, ReloadedMemory
    <3>3. PICK k : k = [z EXCEPT !.latched = TRUE]
      OBVIOUS
    <3>4. /\ k \in Memory /\ k.phase = z.phase /\ k.floor = m.floor /\ k.latched
          /\ k.receipt = m.receipt /\ k.active = pk
      BY <3>2, <3>3 DEF Memory
    <3>5. MemoryFits(k, pk)
      BY <2>4, <2>5, <3>2, <3>4 DEF MemoryFits, UpPhase
    <3>6. Running(k, st, sb, pk, remote, lost)
      BY <2>4, <2>11, <2>13, <3>4 DEF Running
    <3>7. SetNode(r, k)
      BY <2>1, <2>13, <3>1, <3>3
    <3>8. MemoryFits(k, peak[r]) /\ Running(k, st, sb, peak[r], mode = "remote", lapsed)
      BY <2>3, <3>5, <3>6
    <3> QED
      BY <1>1, <2>10, <3>7, <3>8, WritingKeeps
  <2> QED
    BY <2>12, <2>13
<1> QED
    BY <1>5, <1>6

LEMMA FileReloadKeeps ==
    ASSUME ReceiverInv, NEW r \in Expected, FileReload(r)
    PROVE  ReceiverInv'
<1>1. /\ node[r].phase = "idle" /\ node[r].phase \in UpPhase /\ mode = "file"
      /\ UNCHANGED <<dvars, wall, mode, source, mail, peak, lapsed>>
    BY DEF FileReload, UpPhase
<1>2. PICK t \in 0..MaxClock : t = Observed(r)
    BY ObservedType
<1>3. PICK n : n = [node[r] EXCEPT !.now = t]
    OBVIOUS
<1>4. PICK s : s = source
    OBVIOUS
<1>5. PICK m, o, u, pk, remote, lost : ValuesOf(r, m, o, u, pk, remote, lost)
    BY DEF ValuesOf
<1>6. /\ m = node[r] /\ o = store[r] /\ u = stable[r] /\ pk = peak[r]
      /\ remote = (mode = "remote") /\ lost = lapsed /\ ~ remote
    BY <1>1, <1>5 DEF ValuesOf
<1>7. /\ m \in Memory /\ o \in Files /\ u \in Files /\ pk \in Snapshot \cup {None}
      /\ remote \in BOOLEAN /\ lost \in BOOLEAN
      /\ Running(m, o, u, pk, remote, lost) /\ MemoryFits(m, pk)
    BY <1>1, <1>5, RunningReceiver
<1>8. /\ n \in Memory /\ n.floor = m.floor /\ n.phase = "idle"
      /\ n.receipt = m.receipt /\ n.active = m.active /\ n.latched = m.latched
    BY <1>1, <1>2, <1>3, <1>6, <1>7 DEF Memory
<1>9. CASE UNCHANGED <<store, stable, incidents>> /\ SetNode(r, n)
  <2>1. incidents' \in 0..MaxIncidents
    BY <1>9, OneReceiver
  <2> QED
    BY <1>1, <1>6, <1>8, <1>9, <2>1, StayingKeeps
<1>10. ASSUME Acceptable(s, n.now, n.floor)
       PROVE  s \in Snapshot /\ s # None /\ Follows(s, m.floor)
  <2>1. s \in Snapshot \cup {None} /\ m.floor \in Snapshot \cup {None}
    BY <1>4, <1>7, OneReceiver DEF Memory
  <2> QED
    BY <1>8, <1>10, <2>1, AcceptableFollows
<1>11. CASE Acceptable(s, n.now, n.floor) /\ UNCHANGED <<store, stable, incidents>>
            /\ SetNode(r, IF n.active = s THEN [n EXCEPT !.seen = s] ELSE n)
  <2>1. PICK k : k = IF n.active = s THEN [n EXCEPT !.seen = s] ELSE n
    OBVIOUS
  <2>2. /\ k \in Memory /\ k.floor = m.floor /\ k.phase = "idle"
        /\ k.receipt = m.receipt /\ k.active = m.active /\ k.latched = m.latched
    BY <1>8, <1>10, <1>11, <2>1 DEF Memory
  <2>3. SetNode(r, k) /\ incidents' \in 0..MaxIncidents
    BY <1>11, <2>1, OneReceiver
  <2> QED
    BY <1>1, <1>6, <1>11, <2>2, <2>3, StayingKeeps
<1>12. CASE Acceptable(s, n.now, n.floor) /\ \E floor \in Outcome :
                /\ save_floor(r, s, floor)
                /\ SetNode(r, IF floor = "ok"
                          THEN [n EXCEPT !.phase = "accepted", !.floor = s, !.candidate = s]
                          ELSE n)
  <2>1. PICK floor \in Outcome :
                /\ save_floor(r, s, floor)
                /\ SetNode(r, IF floor = "ok"
                          THEN [n EXCEPT !.phase = "accepted", !.floor = s, !.candidate = s]
                          ELSE n)
    BY <1>12
  <2>11. s \in Snapshot /\ s # None /\ Follows(s, m.floor)
    BY <1>10, <1>12
  <2>2. PICK st : st = [o EXCEPT !.floor = Replaced(@, s, floor)]
    OBVIOUS
  <2>3. PICK sb : sb = [u EXCEPT !.floor = Stabilized(@, s, floor)]
    OBVIOUS
  <2>4. st \in Files /\ st.floor = Replaced(o.floor, s, floor)
    BY <1>7, <2>11, <2>2 DEF Files, Replaced
  <2>5. sb \in Files /\ sb.floor = Stabilized(u.floor, s, floor)
    BY <1>7, <2>11, <2>3 DEF Files, Stabilized
  <2>6. store' = [store EXCEPT ![r] = st] /\ stable' = [stable EXCEPT ![r] = sb]
    BY <1>6, <2>1, <2>2, <2>3 DEF save_floor, ReceiverInv, ReceiverTypes
  <2>7. incidents' \in 0..MaxIncidents
    BY <2>1, OneReceiver, IncidentsAreBounded, FaultsType DEF save_floor
  <2>8. lost \/ FilesStand(st, sb, pk, remote)
    <3>1. SUFFICES ASSUME ~ lost PROVE FilesStand(st, sb, pk, remote)
      OBVIOUS
    <3>2. FilesStand(o, u, pk, remote) /\ Follows(s, u.floor)
      BY <1>7, <2>11, <3>1 DEF Running
    <3>3. Follows(s, pk)
      <4>1. Follows(u.floor, pk) /\ u.floor \in Snapshot \cup {None}
        BY <1>7, <3>2 DEF FilesStand, Files
      <4> QED
        BY <1>7, <2>11, <3>2, <4>1, FollowsIsTransitive
    <3>4. \A x : Follows(x, x)
      BY DEF Follows
    <3> QED
      BY <1>6, <2>4, <2>5, <3>2, <3>3, <3>4 DEF FilesStand, Replaced, Stabilized, Outcome
  <2>9. CASE floor = "ok"
    <3>1. PICK k : k = [n EXCEPT !.phase = "accepted", !.floor = s, !.candidate = s]
      OBVIOUS
    <3>2. /\ k \in Memory /\ k.phase = "accepted" /\ k.floor = s /\ k.candidate = s
          /\ k.receipt = m.receipt /\ k.active = m.active
      BY <1>8, <2>11, <3>1 DEF Memory
    <3>3. m.active = pk /\ pk # None
      BY <1>1, <1>6, <1>7 DEF MemoryFits
    <3>4. MemoryFits(k, pk)
      BY <1>7, <2>11, <3>2, <3>3 DEF MemoryFits, UpPhase
    <3>5. sb.floor = s
      BY <2>5, <2>9 DEF Stabilized
    <3>6. Running(k, st, sb, pk, remote, lost)
      BY <1>6, <1>7, <2>8, <3>2, <3>5 DEF Running
    <3>7. SetNode(r, k)
      BY <2>1, <2>9, <3>1
    <3>8. MemoryFits(k, peak[r]) /\ Running(k, st, sb, peak[r], mode = "remote", lapsed)
      BY <1>6, <3>4, <3>6
    <3> QED
      BY <1>1, <2>4, <2>5, <2>6, <2>7, <3>7, <3>8, WritingKeeps
  <2>10. CASE floor # "ok"
    <3>1. m.active = pk /\ pk # None
      BY <1>1, <1>6, <1>7 DEF MemoryFits
    <3>2. MemoryFits(n, pk)
      BY <1>7, <1>8, <3>1 DEF MemoryFits, UpPhase
    <3>3. sb.floor = u.floor
      BY <2>5, <2>10 DEF Stabilized
    <3>4. Running(n, st, sb, pk, remote, lost)
      BY <1>6, <1>7, <1>8, <2>8, <3>3 DEF Running
    <3>5. SetNode(r, n)
      BY <2>1, <2>10
    <3>6. MemoryFits(n, peak[r]) /\ Running(n, st, sb, peak[r], mode = "remote", lapsed)
      BY <1>6, <3>2, <3>4
    <3> QED
      BY <1>1, <2>4, <2>5, <2>6, <2>7, <3>5, <3>6, WritingKeeps
  <2> QED
    BY <2>9, <2>10
<1>13. \/ UNCHANGED <<store, stable, incidents>> /\ SetNode(r, n)
       \/ /\ Acceptable(s, n.now, n.floor) /\ UNCHANGED <<store, stable, incidents>>
          /\ SetNode(r, IF n.active = s THEN [n EXCEPT !.seen = s] ELSE n)
       \/ /\ Acceptable(s, n.now, n.floor)
          /\ \E floor \in Outcome :
                /\ save_floor(r, s, floor)
                /\ SetNode(r, IF floor = "ok"
                          THEN [n EXCEPT !.phase = "accepted", !.floor = s, !.candidate = s]
                          ELSE n)
    BY <1>2, <1>3, <1>4 DEF FileReload
<1> QED
    BY <1>9, <1>11, <1>12, <1>13

LEMMA PostKeeps ==
    ASSUME ReceiverInv, NEW r \in Expected, PostReceipt(r)
    PROVE  ReceiverInv'
<1>1. PICK m, o, u, pk, remote, lost : ValuesOf(r, m, o, u, pk, remote, lost)
    BY DEF ValuesOf
<1>2. /\ m = node[r] /\ o = store[r] /\ u = stable[r] /\ pk = peak[r]
      /\ remote = (mode = "remote") /\ lost = lapsed /\ m.phase = "report"
    BY <1>1 DEF ValuesOf, PostReceipt
<1>3. /\ m \in Memory /\ o \in Files /\ u \in Files /\ pk \in Snapshot \cup {None}
      /\ remote \in BOOLEAN /\ lost \in BOOLEAN
      /\ Running(m, o, u, pk, remote, lost) /\ MemoryFits(m, pk)
    BY <1>1, <1>2, RunningReceiver DEF UpPhase
<1>4. PICK n : n = [m EXCEPT !.phase = "posting"]
    OBVIOUS
<1>5. /\ n \in Memory /\ n.phase = "posting" /\ n.floor = m.floor /\ n.active = m.active
      /\ n.latched = m.latched /\ n.receipt = m.receipt
    BY <1>3, <1>4 DEF Memory
<1>6. m.receipt \in Snapshot
    BY <1>2, <1>3 DEF MemoryFits, Memory
<1>7. MemoryFits(n, pk)
    BY <1>2, <1>3, <1>5 DEF MemoryFits, UpPhase
<1>8. Running(n, o, u, pk, remote, lost)
    BY <1>3, <1>5 DEF Running
<1>9. ReceiverFits(n, o, u, pk, remote, lost)
    BY <1>3, <1>5, <1>7, <1>8, UpFits
<1>10. lost \/ Generation(pk) >= m.receipt.generation
    BY <1>3, <1>6, NoSnapshot DEF Running
<1>11. PICK e : e = [receiver |-> r, snapshot |-> m.receipt]
    OBVIOUS
<1>12. /\ mail' = mail \cup {e} /\ SetNode(r, n)
       /\ UNCHANGED <<dvars, incidents, wall, mode, source, store, stable, peak, lapsed>>
    BY <1>2, <1>4, <1>11 DEF PostReceipt
<1>13. /\ mail' \subseteq [receiver : Expected, snapshot : Snapshot]
       /\ \A x \in mail' : \/ x \in mail
                           \/ x.receiver = r /\ (lapsed' \/ Generation(peak[r]) >= x.snapshot.generation)
    BY <1>2, <1>6, <1>10, <1>11, <1>12, OneReceiver
<1>14. MovesTo(r, n, store[r], stable[r], peak[r])
    BY <1>12, QuietMove
<1>15. ReceiverFits(n, store[r], stable[r], peak[r], mode = "remote", lapsed')
    BY <1>2, <1>9, <1>12
<1> QED
    BY <1>12, <1>13, <1>14, <1>15, OneReceiver, ReceiverMoves

LEMMA TimeoutKeeps ==
    ASSUME ReceiverInv, NEW r \in Expected, ReceiptTimesOut(r)
    PROVE  ReceiverInv'
<1>1. PICK m : m = node[r]
    OBVIOUS
<1>2. m \in Memory
    BY <1>1, OneReceiver
<1>3. PICK n : n = [m EXCEPT !.phase = "idle"]
    OBVIOUS
<1>4. /\ n \in Memory /\ n.phase = "idle" /\ n.floor = m.floor /\ n.active = m.active
      /\ n.latched = m.latched /\ n.receipt = m.receipt
    BY <1>2, <1>3 DEF Memory
<1>5. /\ SetNode(r, n) /\ node[r].phase \in UpPhase /\ mail' \subseteq mail
      /\ UNCHANGED <<dvars, wall, mode, source, store, stable, peak, lapsed>>
    BY <1>1, <1>3 DEF ReceiptTimesOut, UpPhase
<1>6. incidents' \in 0..MaxIncidents
    BY OneReceiver, IncidentsAreBounded DEF ReceiptTimesOut
<1> QED
    BY <1>1, <1>4, <1>5, <1>6, StayingKeeps

\* A power loss leaves the files at what survives.
LEMMA CrashReceiverKeeps ==
    ASSUME ReceiverInv, NEW r \in Expected, CrashReceiver(r)
    PROVE  ReceiverInv'
<1>1. PICK o, u, pk : o = store[r] /\ u = stable[r] /\ pk = peak[r]
    OBVIOUS
<1>2. PICK remote \in BOOLEAN : remote = (mode = "remote")
    OBVIOUS
<1>3. PICK lost \in BOOLEAN : lost = lapsed
    BY OneReceiver
<1>4. /\ o \in Files /\ u \in Files /\ pk \in Snapshot \cup {None}
      /\ lost \/ FilesStand(o, u, pk, remote)
    BY <1>1, <1>2, <1>3, OneReceiver DEF ReceiverFits
<1>5. PICK f \in {o, u} : store' = [store EXCEPT ![r] = f]
    BY <1>1 DEF CrashReceiver
<1>6. f \in Files /\ (lost \/ FilesStand(f, u, pk, remote))
    BY <1>4, <1>5 DEF FilesStand, Follows
<1>7. ReceiverFits(Stopped, f, u, pk, remote, lost)
    BY <1>4, <1>6, StoppedFits
<1>8. PICK n : n = Stopped
    OBVIOUS
<1>9. SetNode(r, n) /\ UNCHANGED <<dvars, wall, mode, source, stable, mail, peak, lapsed>>
    BY <1>8 DEF CrashReceiver
<1>10. MovesTo(r, n, f, stable[r], peak[r])
    BY <1>5, <1>9 DEF MovesTo, SetNode, ReceiverInv, ReceiverTypes
<1>11. ReceiverFits(n, f, stable[r], peak[r], mode = "remote", lapsed')
    BY <1>1, <1>2, <1>3, <1>7, <1>8, <1>9
<1>12. incidents' \in 0..MaxIncidents
    BY OneReceiver, IncidentsAreBounded DEF CrashReceiver
<1> QED
    BY <1>9, <1>10, <1>11, <1>12, OneReceiver, ReceiverMoves

-----------------------------------------------------------------------------
(* The distributor's steps and the environment's.                            *)

\* No receipt appears that was not there.
LEMMA DistributorMoves ==
    ASSUME ReceiverInv, DistributorInv', ReceiverTypes', ReceiversFit',
           UNCHANGED <<peak, lapsed>>, Receipts' \subseteq Receipts
    PROVE  ReceiverInv'
BY DEF ReceiverInv, ReceiptsTrue, Generation

LEMMA QuietDistributor ==
    ASSUME ReceiverInv, UNCHANGED <<dvars, mail, peak, lapsed>>,
           wall' \in 0..MaxClock \/ wall' = wall,
           incidents' \in 0..MaxIncidents \/ incidents' = incidents,
           ReceiverTypes', ReceiversFit'
    PROVE  ReceiverInv'
<1>1. DistributorInv'
    BY DEF ReceiverInv, DistributorInv, DistributorTypeOK, DiskInv, AcknowledgedSurvives,
           ReceiptsFit, dvars, dhistory, Follows, Generation,
           validate_durable_state, receipt_matches_snapshot, receipt_receiver_slot, ring_verifies
<1>2. Receipts' \subseteq Receipts
    BY DEF Receipts, dvars
<1> QED
    BY <1>1, <1>2, DistributorMoves

LEMMA ReceiversStay ==
    ASSUME ReceiverInv, UNCHANGED <<mode, node, store, stable, mail, peak, lapsed>>,
           source' \in Snapshot \cup {None}
    PROVE  ReceiverTypes' /\ ReceiversFit'
BY DEF ReceiverInv, ReceiverTypes, ReceiversFit

LEMMA PublishedReceipts ==
    ASSUME NEW s, NEW a, publish_snapshot(s, a)
    PROVE  /\ current'.receipts \subseteq current.receipts
           /\ dfile'.receipts \subseteq dfile.receipts
           /\ dstable'.receipts \subseteq dstable.receipts
BY DEF publish_snapshot, persist_next, storage_task_dies, Replaced, Stabilized, Successor

LEMMA PublishNewKeeps ==
    ASSUME ReceiverInv, PublishNew
    PROVE  ReceiverInv'
<1>1. PICK g \in 1..MaxGeneration, k \in Kind, t \in {wall, wall + 1} \cap 1..MaxClock :
        \/ /\ \E a \in {"created", "conflict", "unchanged", "unavailable"} :
                publish_snapshot([generation |-> g, issued_at |-> t, kind |-> k], a)
           /\ UNCHANGED <<wall, mode, source, node, store, stable, mail, peak, lapsed>>
        \/ /\ source' = [generation |-> g, issued_at |-> t, kind |-> k]
           /\ UNCHANGED <<dvars, incidents, wall, mode, node, store, stable, mail, peak, lapsed>>
    BY DEF PublishNew
<1>2. PICK s \in Snapshot : s = [generation |-> g, issued_at |-> t, kind |-> k]
    BY DEF Snapshot
<1>3. DistributorInv /\ source \in Snapshot \cup {None}
    BY DEF ReceiverInv, ReceiverTypes
<1>4. CASE /\ \E a \in {"created", "conflict", "unchanged", "unavailable"} : publish_snapshot(s, a)
           /\ UNCHANGED <<wall, mode, source, node, store, stable, mail, peak, lapsed>>
  <2>1. PICK a : publish_snapshot(s, a)
    BY <1>4
  <2>2. DistributorInv'
    BY <1>3, <1>4, <2>1, PublishKeeps
  <2>3. Receipts' \subseteq Receipts
    BY <1>4, <2>1, PublishedReceipts DEF Receipts
  <2>4. ReceiverTypes' /\ ReceiversFit'
    BY <1>3, <1>4, ReceiversStay
  <2> QED
    BY <1>4, <2>2, <2>3, <2>4, DistributorMoves
<1>5. CASE /\ source' = s
           /\ UNCHANGED <<dvars, incidents, wall, mode, node, store, stable, mail, peak, lapsed>>
  <2>1. ReceiverTypes' /\ ReceiversFit'
    BY <1>5, ReceiversStay
  <2> QED
    BY <1>5, <2>1, QuietDistributor
<1> QED
    BY <1>1, <1>2, <1>4, <1>5

LEMMA StrayKeeps ==
    ASSUME ReceiverInv, StrayReceipt
    PROVE  ReceiverInv'
<1>1. PICK r \in Receiver \ Expected, a \in ReceiptAnswers :
        post_receipt([receiver |-> r, snapshot |-> current.snapshot], a)
    BY DEF StrayReceipt
<1>2. UNCHANGED <<dvars, incidents>>
    BY <1>1 DEF post_receipt, receipt_checks, receipt_receiver_slot
<1>3. UNCHANGED <<wall, mode, source, node, store, stable, mail, peak, lapsed>>
    BY DEF StrayReceipt
<1>4. ReceiverTypes' /\ ReceiversFit'
    BY <1>3, ReceiversStay DEF ReceiverInv, ReceiverTypes
<1> QED
    BY <1>2, <1>3, <1>4, QuietDistributor

LEMMA ClockKeeps ==
    ASSUME ReceiverInv, ReceiverTick \/ ReceiverSetBack
    PROVE  ReceiverInv'
<1>1. UNCHANGED <<dvars, mode, source, node, store, stable, mail, peak, lapsed>>
    BY DEF ReceiverTick, ReceiverSetBack
<1>2. wall \in 0..MaxClock /\ incidents \in 0..MaxIncidents
    BY DEF ReceiverInv, DistributorInv, DistributorTypeOK
<1>3. wall' \in 0..MaxClock
    BY <1>2, TrustBounds DEF ReceiverTick, ReceiverSetBack
<1>4. incidents' \in 0..MaxIncidents
    BY <1>2, IncidentsAreBounded DEF ReceiverTick, ReceiverSetBack
<1>5. ReceiverTypes' /\ ReceiversFit'
    BY <1>1, ReceiversStay DEF ReceiverInv, ReceiverTypes
<1> QED
    BY <1>1, <1>3, <1>4, <1>5, QuietDistributor

LEMMA RestartReceiversKeeps ==
    ASSUME ReceiverInv, ReceiverRestart
    PROVE  ReceiverInv'
<1>1. /\ RestartDistributor
      /\ UNCHANGED <<wall, mode, source, node, store, stable, mail, peak, lapsed>>
    BY DEF ReceiverRestart
<1>2. /\ DistributorInv' /\ current' = dfile' /\ current' \in {dfile, dstable}
      /\ dstable' = dstable
    BY <1>1, RestartKeeps DEF ReceiverInv
<1>3. Receipts' \subseteq Receipts
    BY <1>1, <1>2 DEF Receipts
<1>4. ReceiverTypes' /\ ReceiversFit'
    BY <1>1, ReceiversStay DEF ReceiverInv, ReceiverTypes
<1> QED
    BY <1>1, <1>2, <1>3, <1>4, DistributorMoves

\* A receipt reaches the distributor; the receiver that waits for the answer
\* keeps its policy.
LEMMA DeliverKeeps ==
    ASSUME ReceiverInv, NEW e \in mail, DeliverReceipt(e)
    PROVE  ReceiverInv'
<1>1. PICK a \in ReceiptAnswers :
        /\ post_receipt(e, a)
        /\ node' = [r \in Expected |->
              IF node[r].phase = "posting" /\ r = e.receiver /\ node[r].receipt = e.snapshot
              THEN [node[r] EXCEPT !.phase = "idle",
                        !.receipt = IF a \in {"recorded", "duplicate"} THEN None ELSE @]
              ELSE node[r]]
    BY DEF DeliverReceipt
<1>2. /\ mail' \subseteq mail /\ UNCHANGED <<wall, mode, source, store, stable, peak, lapsed>>
    BY DEF DeliverReceipt
<1>3. e \in Receipt
    BY ExpectedType DEF ReceiverInv, ReceiverTypes, Receipt, receivers_are_valid
<1>4. /\ DistributorInv'
      /\ current'.receipts \subseteq current.receipts \cup {e}
      /\ dfile'.receipts \subseteq dfile.receipts \cup {e}
      /\ dstable'.receipts \subseteq dstable.receipts \cup current.receipts \cup {e}
    BY <1>1, <1>2, <1>3, PostReceiptKeeps DEF ReceiverInv
<1>5. Receipts' \subseteq Receipts
    BY <1>2, <1>4 DEF Receipts
<1>6. ASSUME NEW q \in Expected
      PROVE  /\ node'[q] \in Memory
             /\ ReceiverFits(node'[q], store[q], stable[q], peak[q], mode = "remote", lapsed)
  <2>1. CASE node'[q] = node[q]
    BY <2>1, OneReceiver
  <2>2. CASE /\ node[q].phase = "posting"
             /\ node'[q] = [node[q] EXCEPT !.phase = "idle",
                        !.receipt = IF a \in {"recorded", "duplicate"} THEN None ELSE @]
    <3>1. PICK m, o, u, pk, remote, lost : ValuesOf(q, m, o, u, pk, remote, lost)
      BY DEF ValuesOf
    <3>2. /\ m = node[q] /\ o = store[q] /\ u = stable[q] /\ pk = peak[q]
          /\ remote = (mode = "remote") /\ lost = lapsed
      BY <3>1 DEF ValuesOf
    <3>3. /\ m \in Memory /\ o \in Files /\ u \in Files /\ pk \in Snapshot \cup {None}
          /\ remote \in BOOLEAN /\ lost \in BOOLEAN
          /\ Running(m, o, u, pk, remote, lost) /\ MemoryFits(m, pk)
      BY <2>2, <3>1, RunningReceiver DEF UpPhase
    <3>4. PICK x : x = IF a \in {"recorded", "duplicate"} THEN None ELSE m.receipt
      OBVIOUS
    <3>5. PICK n : n = [m EXCEPT !.phase = "idle", !.receipt = x]
      OBVIOUS
    <3>6. x \in {m.receipt, None} /\ x \in Snapshot \cup {None}
      BY <3>3, <3>4 DEF Memory
    <3>7. /\ n \in Memory /\ n.phase = "idle" /\ n.floor = m.floor /\ n.active = m.active
          /\ n.latched = m.latched /\ n.receipt \in {m.receipt, None}
      BY <3>3, <3>5, <3>6 DEF Memory
    <3>8. MemoryFits(n, pk)
      <4>1. m.active = pk /\ pk # None
        BY <2>2, <3>2, <3>3 DEF MemoryFits, UpPhase
      <4> QED
        BY <3>3, <3>7, <4>1 DEF MemoryFits, UpPhase
    <3>9. Running(n, o, u, pk, remote, lost)
      BY <3>3, <3>7 DEF Running
    <3>10. ReceiverFits(n, o, u, pk, remote, lost)
      BY <3>3, <3>7, <3>8, <3>9, UpFits
    <3>11. node'[q] = n
      BY <2>2, <3>2, <3>4, <3>5
    <3> QED
      BY <3>2, <3>7, <3>10, <3>11
  <2> QED
    BY <1>1, <2>1, <2>2
<1>7. ReceiversFit'
    BY <1>2, <1>6 DEF ReceiversFit
<1>8. node' \in [Expected -> Memory]
  <2>1. PICK h : h = node'
    OBVIOUS
  <2>2. h = [q \in Expected |-> h[q]]
    BY <1>1, <2>1
  <2>3. \A q \in Expected : h[q] \in Memory
    BY <1>6, <2>1
  <2>4. h \in [Expected -> Memory]
    BY <2>2, <2>3
  <2> QED
    BY <2>1, <2>4
<1>9. ReceiverTypes'
    BY <1>2, <1>8 DEF ReceiverInv, ReceiverTypes
<1> QED
    BY <1>2, <1>4, <1>5, <1>7, <1>9, DistributorMoves

LEMMA ReceiverInitHolds == ReceiverInit => ReceiverInv
<1> SUFFICES ASSUME ReceiverInit PROVE ReceiverInv
    OBVIOUS
<1>1. DistributorInit
    BY DEF ReceiverInit
<1>2. DistributorInv
  <2>1. /\ wall = 1 /\ dfile = current /\ dstable = current /\ poison = FALSE /\ roots = Kind
        /\ acked = {} /\ reloaded = FALSE /\ undone = FALSE /\ incidents = 0
        /\ current \in DurableState /\ current.snapshot = None /\ current.receipts = {}
    BY <1>1 DEF DistributorInit, DurableState
  <2>2. wall \in 0..MaxClock /\ incidents \in 0..MaxIncidents
    BY <2>1, TrustBounds
  <2>3. {current, dfile, dstable} \subseteq DurableState /\ {reloaded, undone} \subseteq BOOLEAN
    BY <2>1
  <2>4. DistributorTypeOK
    BY <2>1, <2>2, <2>3 DEF DistributorTypeOK
  <2> QED
    BY <2>1, <2>4 DEF DistributorInv, DiskInv, AcknowledgedSurvives, ReceiptsFit, Follows,
                      validate_durable_state
<1>3. NoFiles \in Files /\ NoFiles.cache = None /\ NoFiles.floor = None
    BY DEF NoFiles, Files
<1>4. ReceiverTypes
    BY <1>3, StoppedType DEF ReceiverInit, ReceiverTypes
<1>5. ReceiversFit
  <2>1. SUFFICES ASSUME NEW r \in Expected
                 PROVE  ReceiverFits(node[r], store[r], stable[r], peak[r], mode = "remote", lapsed)
    BY DEF ReceiversFit
  <2>2. /\ node[r] = Stopped /\ store[r] = NoFiles /\ stable[r] = NoFiles /\ peak[r] = None
        /\ lapsed = FALSE
    BY DEF ReceiverInit
  <2>3. PICK f : f = NoFiles
    OBVIOUS
  <2>4. PICK remote \in BOOLEAN : remote = (mode = "remote")
    OBVIOUS
  <2>5. f \in Files /\ FilesStand(f, f, None, remote)
    BY <1>3, <2>3 DEF FilesStand, Follows
  <2>6. ReceiverFits(Stopped, f, f, None, remote, FALSE)
    BY <2>5, StoppedFits
  <2> QED
    BY <2>2, <2>3, <2>4, <2>6
<1>6. Receipts = {}
    BY <1>1 DEF ReceiverInit, DistributorInit, Receipts
<1> QED
    BY <1>2, <1>4, <1>5, <1>6 DEF ReceiverInv, ReceiptsTrue

LEMMA ReceiverNextHolds == ReceiverInv /\ [ReceiverNext]_receiverVars => ReceiverInv'
<1> SUFFICES ASSUME ReceiverInv, [ReceiverNext]_receiverVars PROVE ReceiverInv'
    OBVIOUS
<1>1. ASSUME NEW r \in Expected,
             \/ WatcherStep(r) \/ FetchFails(r) \/ FileReload(r) \/ ReceiptTimesOut(r)
             \/ CrashReceiver(r)
             \/ BootFetch(r) \/ BootAccept(r) \/ BootFile(r) \/ BootActivate(r)
      PROVE  ReceiverInv'
  <2>1. CASE WatcherStep(r)
    BY <2>1, FetchUpdateKeeps, AcceptKeeps, ActivateKeeps, PostKeeps DEF WatcherStep
  <2>2. CASE FetchFails(r) \/ FileReload(r) \/ ReceiptTimesOut(r) \/ CrashReceiver(r)
    BY <2>2, FetchFailsKeeps, FileReloadKeeps, TimeoutKeeps, CrashReceiverKeeps
  <2>3. CASE BootFetch(r) \/ BootAccept(r) \/ BootFile(r) \/ BootActivate(r)
    BY <2>3, BootFetchKeeps, BootKeeps, BootFileKeeps, BootActivateKeeps
  <2> QED
    BY <1>1, <2>1, <2>2, <2>3
<1>2. CASE \E e \in mail : DeliverReceipt(e)
    BY <1>2, DeliverKeeps
<1>3. CASE PublishNew \/ StrayReceipt \/ ReceiverTick \/ ReceiverSetBack \/ ReceiverRestart
    BY <1>3, PublishNewKeeps, StrayKeeps, ClockKeeps, RestartReceiversKeeps
<1>4. CASE UNCHANGED receiverVars
  <2>1. UNCHANGED <<dvars, incidents, wall, mode, source, node, store, stable, mail, peak, lapsed>>
    BY <1>4 DEF receiverVars
  <2>2. ReceiverTypes' /\ ReceiversFit'
    BY <2>1, ReceiversStay DEF ReceiverInv, ReceiverTypes
  <2> QED
    BY <2>1, <2>2, QuietDistributor
<1> QED
    BY <1>1, <1>2, <1>3, <1>4 DEF ReceiverNext

LEMMA ReceiverInvariant == ReceiverSpec => []ReceiverInv
BY ReceiverInitHolds, ReceiverNextHolds, PTL DEF ReceiverSpec

\* A policy that follows one that is there is there, and passes it as a floor.
LEMMA FollowsIsAccepted ==
    ASSUME NEW s \in Snapshot \cup {None}, NEW t \in Snapshot, Follows(s, t)
    PROVE  s \in Snapshot /\ s # None /\ validate_candidate_floor(s, t)
<1>1. /\ Generation(t) = t.generation /\ t.generation \in Nat \ {0}
    BY NoSnapshot, TrustBounds DEF Generation, Snapshot
<1>2. s # None
    BY <1>1, NoSnapshot DEF Follows, Generation
<1> QED
    BY <1>1, <1>2 DEF Follows, Generation, validate_candidate_floor

\* A receiver never goes back, in the policy it runs or starts with and in what
\* survives a power loss, and its cache always covers its floor, so that it can
\* start without the distributor (ReceiverKeeps): with any number of receivers,
\* publications, lost answers, failed syncs, crashes, power losses and clock
\* changes.
THEOREM ReceiversNeverGoBack == ReceiverSpec => []ReceiverKeeps
<1>1. ReceiverInv => ReceiverKeeps
  <2> SUFFICES ASSUME ReceiverInv PROVE ReceiverKeeps
    OBVIOUS
  <2>1. ReceiverTypeOK
    BY ExpectedType DEF ReceiverInv, ReceiverTypes, ReceiverTypeOK, DistributorInv, Receipt,
                        receivers_are_valid
  <2>2. NoRollback
    <3>1. SUFFICES ASSUME NEW r \in Expected, peak[r] # None
                   PROVE  /\ Up(r) => node[r].active = peak[r]
                          /\ node[r].phase = "booted" =>
                                 \/ node[r].candidate = peak[r]
                                 \/ node[r].candidate.generation > peak[r].generation
                                 \/ lapsed
                          /\ lapsed \/ validate_candidate_floor(stable[r].floor, peak[r])
      BY DEF NoRollback
    <3>2. PICK pk \in Snapshot : pk = peak[r]
      BY <3>1, OneReceiver
    <3>3. Up(r) => node[r].active = peak[r]
      BY OneReceiver DEF ReceiverFits, MemoryFits, Up, UpPhase
    <3>4. PICK u : u = stable[r].floor
      OBVIOUS
    <3>5. u \in Snapshot \cup {None} /\ (lapsed \/ Follows(u, pk))
      BY <3>2, <3>4, OneReceiver DEF ReceiverFits, FilesStand
    <3>6. lapsed \/ validate_candidate_floor(u, pk)
      BY <3>5, FollowsIsAccepted
    <3>7. node[r].phase = "booted" => lapsed \/ node[r].candidate = u
      BY <3>4, OneReceiver DEF ReceiverFits, MemoryFits, FloorHeld
    <3>8. lapsed \/ u = pk \/ u.generation > pk.generation
      BY <3>6, NoSnapshot DEF validate_candidate_floor, Generation
    <3> QED
      BY <3>2, <3>3, <3>4, <3>6, <3>7, <3>8
  <2>3. CacheCoversFloor
    <3>1. SUFFICES ASSUME mode = "remote", ~ lapsed, NEW r \in Expected,
                          NEW f \in {store[r], stable[r]}, f.floor # None
                   PROVE  f.cache # None /\ validate_candidate_floor(f.cache, f.floor)
      BY DEF CacheCoversFloor
    <3>2. PICK c, g : c = f.cache /\ g = f.floor
      OBVIOUS
    <3>3. c \in Snapshot \cup {None} /\ g \in Snapshot
      BY <3>1, <3>2, OneReceiver
    <3>4. Follows(c, g)
      BY <3>1, <3>2, OneReceiver DEF ReceiverFits, FilesStand
    <3> QED
      BY <3>2, <3>3, <3>4, FollowsIsAccepted
  <2> QED
    BY <2>1, <2>2, <2>3 DEF ReceiverKeeps
<1> QED
    BY <1>1, ReceiverInvariant, PTL

\* A receipt at the distributor or on its way is true for good: its receiver has
\* activated that snapshot or a later one, and no crash or power loss makes it
\* accept anything below; and the receipts fit the snapshot they are stored
\* with, in memory, in the file and on stable storage (ReceiptsAreTrue).
THEOREM ReceiptsStayTrue == ReceiverSpec => []ReceiptsAreTrue
<1>1. ReceiverInv => ReceiptsAreTrue
  <2> SUFFICES ASSUME ReceiverInv PROVE ReceiptsAreTrue
    OBVIOUS
  <2>1. ReceiptIsTrue
    <3>1. SUFFICES ASSUME ~ lapsed, NEW e \in mail \cup current.receipts
                   PROVE  /\ Generation(peak[e.receiver]) >= e.snapshot.generation
                          /\ Generation(stable[e.receiver].floor) >= e.snapshot.generation
      BY DEF ReceiptIsTrue
    <3>2. e.receiver \in Expected /\ e.snapshot \in Snapshot
      <4>1. CASE e \in mail
        BY <4>1 DEF ReceiverInv, ReceiverTypes
      <4>2. CASE e \in current.receipts
        <5>1. validate_durable_state(current, Kind) /\ current \in DurableState
          BY DEF ReceiverInv, DistributorInv, ReceiptsFit, DistributorTypeOK
        <5>2. e \in Receipt
          BY <4>2, <5>1 DEF DurableState
        <5> QED
          BY <4>2, <5>1, <5>2 DEF validate_durable_state, receipt_receiver_slot, Receipt
      <4> QED
        BY <4>1, <4>2
    <3>3. Generation(peak[e.receiver]) >= e.snapshot.generation
      BY <3>1 DEF ReceiverInv, ReceiptsTrue, Receipts
    <3>4. PICK r, pk, u : r = e.receiver /\ pk = peak[r] /\ u = stable[r].floor
      OBVIOUS
    <3>5. pk \in Snapshot \cup {None} /\ u \in Snapshot \cup {None} /\ Follows(u, pk)
      BY <3>1, <3>2, <3>4, OneReceiver DEF ReceiverFits, FilesStand
    <3>6. Generation(u) >= Generation(pk) /\ Generation(u) \in Int /\ Generation(pk) \in Int
      BY <3>5, FollowsIsAbove, GenerationType
    <3>7. e.snapshot.generation \in Int
      BY <3>2 DEF Snapshot
    <3> QED
      BY <3>3, <3>4, <3>6, <3>7
  <2> QED
    BY <2>1 DEF ReceiptsAreTrue, ReceiverInv, DistributorInv
<1> QED
    BY <1>1, ReceiverInvariant, PTL
=============================================================================
