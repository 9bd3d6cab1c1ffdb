----------------------------- MODULE EdgeProofs -----------------------------
(***************************************************************************)
(* Proofs about the parts at the system's edges.  GatewayControl: the      *)
(* gateway's routing never moves back and is always saved first, for any   *)
(* number of nodes, keys, configurations, failures and crashes.            *)
(* ControlWrites: what the control plane commits was signed.  LinkProxy:   *)
(* its journal explains what it did.  PublicEdge: rates are kept and       *)
(* Retry-After is enough.  WorkerRequests: every call is counted once.     *)
(* Metrics: what is counted and scraped is what happened.                  *)
(***************************************************************************)
EXTENDS GatewayControl, ControlWrites, LinkProxy, PublicEdge, WorkerRequests,
        Metrics, FiniteSetTheorems, SequenceTheorems,
        WellFoundedInduction, TLAPS

-----------------------------------------------------------------------------
(* The gateway's control watcher.                                            *)

\* The control plane: one history, of which every node serves a prefix.
ServiceOK ==
    /\ history \in Seq([term : {1}, cmd : Command]) /\ Len(history) <= MaxHistory
    /\ served \in [Node -> Config \cup {None}]
    /\ view \in [Node -> Nat]

Typed == TypeOK /\ ServiceOK

\* What startup has loaded is what the file still holds.
LoadedIsFile == persisted = IF phase = "starting" THEN file ELSE None

\* What was routed by is still in the file, and no key it may need is revoked.
FileRemembers ==
    /\ peak.revision = 0 => peak.key = 1
    /\ \A k \in revoked : k < peak.key
    /\ phase = "up" => routing.config.revision <= peak.revision /\ routing.key <= peak.key
    /\ ~undone /\ peak.revision > 0 =>
          /\ file # None
          /\ file.config.revision >= peak.revision
          /\ file.key >= peak.key
    /\ failures = 0 => stable = file

OrderInv == LoadedIsFile /\ FileRemembers /\ NeverMovesBack /\ SavedBeforeRouted

\* An element of a sequence over a set is in the set.
LEMMA Element == ASSUME NEW S, NEW s \in Seq(S), NEW i \in 1..Len(s) PROVE s[i] \in S
  OBVIOUS

\* Appending an element keeps a sequence over its set: the history grows.
LEMMA Longer == ASSUME NEW S, NEW s \in Seq(S), NEW e \in S PROVE Append(s, e) \in Seq(S)
  OBVIOUS

\* The latest configuration of a history without no-ops is its last entry.
LEMMA LatestIsLast ==
    ASSUME NEW h \in Seq([term : {1}, cmd : Command]), NEW k \in 1..Len(h)
    PROVE  Control!Latest(h, k) = [revision |-> k, term |-> h[k].term, cmd |-> h[k].cmd]
<1>. DEFINE configs == {i \in 1..k : h[i].cmd # Noop}
            last == CHOOSE i \in configs : \A j \in configs : j <= i
<1>0. \A i \in 1..k : h[i] \in [term : {1}, cmd : Command]
  <2>1. \A i \in 1..Len(h) : h[i] \in [term : {1}, cmd : Command] BY Element
  <2>2. 1..k \subseteq 1..Len(h) OBVIOUS
  <2>. QED BY <2>1, <2>2
<1>1. \A i \in 1..k : h[i].cmd # Noop BY <1>0, CommandType
<1>2. configs = 1..k BY <1>1
<1>3. k \in configs /\ \A j \in configs : j <= k BY <1>2
<1>4. last \in configs /\ \A j \in configs : j <= last BY <1>3
<1>5. last = k
  <2>1. last <= k /\ k <= last BY <1>3, <1>4
  <2>2. last \in 1..k BY <1>2, <1>4
  <2>. QED BY <2>1, <2>2
<1>6. configs # {} BY <1>3
<1>. QED BY <1>5, <1>6 DEF Control!Latest

\* Every node starts with nothing to serve.
LEMMA InitTyped == Init => Typed
<1>. SUFFICES ASSUME Init PROVE Typed OBVIOUS
<1>1. ServiceOK BY BoundsType DEF Init, ServiceOK, Control!Init
<1>2. TypeOK BY BoundsType, KeysType DEF Init, TypeOK, Key
<1>. QED BY <1>1, <1>2 DEF Typed

\* A node that learns serves a committed configuration.
LEMMA LearnTyped == ASSUME Typed, NEW n \in Node, Learn(n) PROVE Typed'
<1>0. PICK h \in {history} \cup {Append(history, [term |-> 1, cmd |-> c]) : c \in Command} :
         /\ Len(h) <= MaxHistory /\ history' = h
         /\ \E k \in 1..Len(h) : /\ view' = [view EXCEPT ![n] = k]
                                 /\ served' = [served EXCEPT ![n] = Control!Latest(h, k)]
  BY DEF Learn
<1>1. PICK k \in 1..Len(h) : /\ view' = [view EXCEPT ![n] = k]
                             /\ served' = [served EXCEPT ![n] = Control!Latest(h, k)]
  BY <1>0
<1>2. h \in Seq([term : {1}, cmd : Command])
  <2>1. history \in Seq([term : {1}, cmd : Command]) BY DEF Typed, ServiceOK
  <2>2. \A c \in Command : [term |-> 1, cmd |-> c] \in [term : {1}, cmd : Command]
    OBVIOUS
  <2>3. \A c \in Command :
           Append(history, [term |-> 1, cmd |-> c]) \in Seq([term : {1}, cmd : Command])
    BY <2>1, <2>2, Longer
  <2>. QED BY <1>0, <2>1, <2>3
<1>3. Control!Latest(h, k) = [revision |-> k, term |-> h[k].term, cmd |-> h[k].cmd]
  BY <1>2, LatestIsLast
<1>4. h[k] \in [term : {1}, cmd : Command] /\ k \in 1..MaxHistory
  <2>1. h[k] \in [term : {1}, cmd : Command] BY <1>2, Element
  <2>2. Len(h) \in Nat BY <1>2
  <2>. QED BY <1>0, <2>1, <2>2, BoundsType
<1>5. Control!Latest(h, k) \in Config BY <1>3, <1>4 DEF Config
<1>6. ServiceOK' BY <1>0, <1>1, <1>2, <1>5 DEF Typed, ServiceOK
<1>7. TypeOK' BY DEF Learn, Typed, TypeOK, time, disk, process, ghosts
<1>. QED BY <1>6, <1>7 DEF Typed

\* Every other step changes the control plane at most in its keys.
LEMMA ServiceStays ==
    ASSUME Typed, UNCHANGED <<history, view, served>> PROVE ServiceOK'
  BY DEF Typed, ServiceOK

\* What is written to the file is typed.
LEMMA SnapshotTyped == ASSUME Typed, answer # None PROVE Snapshot(answer) \in Saved
  BY DEF Typed, TypeOK, Snapshot, wall, Held, Saved

\* The steps of startup keep the types.
LEMMA StartTyped ==
    ASSUME Typed, Start \/ StartLive \/ StartUnsaved \/ StartFromDisk \/ StartFails
    PROVE  TypeOK'
<1>1. CASE Start BY <1>1 DEF Start, Typed, TypeOK, control, time, disk, ghosts
<1>2. CASE StartLive
  <2>1. Snapshot(answer) \in Saved BY <1>2, SnapshotTyped DEF StartLive
  <2>2. NewDeadline \in Nat BY LeaseIsPositive DEF NewDeadline, Typed, TypeOK
  <2>. QED BY <1>2, <2>1, <2>2, NoneIsNothing
       DEF StartLive, Save, Route, Max2, Typed, TypeOK, Held, Config, Key, control, time
<1>3. CASE StartUnsaved
  <2>1. Snapshot(answer) \in Saved BY <1>3, SnapshotTyped DEF StartUnsaved
  <2>. QED BY <1>3, <2>1, BoundsType
       DEF StartUnsaved, SaveFails, GoDown, Typed, TypeOK, control, time
<1>4. CASE StartFromDisk
  <2>1. persisted \in Saved BY <1>4 DEF StartFromDisk, Trusted, Typed, TypeOK
  <2>2. DiskDeadline(persisted) \in Nat
    BY <2>1, LeaseIsPositive DEF DiskDeadline, NonNegative, Age, wall, Saved, Typed, TypeOK
  <2>. QED BY <1>4, <2>1, <2>2, NoneIsNothing
       DEF StartFromDisk, Route, Max2, Typed, TypeOK, Saved, Held, Config, Key, control, time, disk
<1>5. CASE StartFails
  BY <1>5 DEF StartFails, GoDown, Typed, TypeOK, control, time, disk
<1>. QED BY <1>1, <1>2, <1>3, <1>4, <1>5

\* The steps of the watcher keep the types.
LEMMA PollTyped ==
    ASSUME Typed, PollRefuses \/ PollRenews \/ PollApplies \/ PollUnsaved
    PROVE  TypeOK'
<1>0. NewDeadline \in Nat BY LeaseIsPositive DEF NewDeadline, Typed, TypeOK
<1>1. CASE PollRefuses
  BY <1>1 DEF PollRefuses, Polled, Typed, TypeOK, control, time, disk, ghosts
<1>2. CASE PollRenews
  BY <1>0, <1>2 DEF PollRenews, Polled, Typed, TypeOK, control, time, disk
<1>3. CASE PollApplies
  <2>1. Snapshot(answer) \in Saved BY <1>3, SnapshotTyped DEF PollApplies, Polled
  <2>. QED BY <1>0, <1>3, <2>1, NoneIsNothing
       DEF PollApplies, Polled, Save, Route, Max2, Typed, TypeOK, Held, Config, Key, control, time
<1>4. CASE PollUnsaved
  <2>1. Snapshot(answer) \in Saved BY <1>4, SnapshotTyped DEF PollUnsaved, Polled
  <2>. QED BY <1>4, <2>1, BoundsType
       DEF PollUnsaved, Polled, SaveFails, Typed, TypeOK, control, time
<1>. QED BY <1>1, <1>2, <1>3, <1>4

\* The other steps keep the types.
LEMMA EnvironmentTyped ==
    ASSUME Typed,
           \/ \E n \in Node : SwitchKey(n) \/ Fetch(n)
           \/ Tick \/ SetBack \/ Crash \/ PowerLoss \/ Revoke
    PROVE  TypeOK'
<1>1. ASSUME NEW n \in Node, SwitchKey(n) PROVE TypeOK'
  BY <1>1, KeysType DEF SwitchKey, Typed, TypeOK, Key, time, disk, process, ghosts
<1>2. ASSUME NEW n \in Node, Fetch(n) PROVE TypeOK'
  <2>1. served[n] \in Config BY <1>2 DEF Fetch, Typed, ServiceOK
  <2>. QED BY <1>2, <2>1 DEF Fetch, Typed, TypeOK, Held, control, time, disk, ghosts
<1>3. CASE Tick BY <1>3 DEF Tick, Typed, TypeOK, control, disk, process, ghosts
<1>4. CASE SetBack BY <1>4, BoundsType DEF SetBack, Typed, TypeOK, control, disk, process, ghosts
<1>5. CASE Crash BY <1>5, BoundsType DEF Crash, GoDown, Typed, TypeOK, control, time, disk
<1>6. CASE PowerLoss BY <1>6, BoundsType DEF PowerLoss, GoDown, Typed, TypeOK, control, time
<1>7. CASE Revoke
  <2>1. routing \in Held BY <1>7 DEF Revoke, Typed, TypeOK
  <2>2. 1..(routing.key - 1) \subseteq Key BY <2>1, KeysType DEF Held, Key
  <2>. QED BY <1>7, <2>2 DEF Revoke, GoDown, Typed, TypeOK, control, time, disk
<1>. QED BY <1>1, <1>2, <1>3, <1>4, <1>5, <1>6, <1>7

\* Types are kept by every step.
LEMMA NextTyped == ASSUME Typed, [Next]_vars PROVE Typed'
<1>1. ASSUME NEW n \in Node, Learn(n) PROVE Typed' BY <1>1, LearnTyped
<1>2. CASE UNCHANGED vars
  BY <1>2 DEF vars, control, time, disk, process, ghosts, Typed, TypeOK, ServiceOK
<1>3. CASE Start \/ StartLive \/ StartUnsaved \/ StartFromDisk \/ StartFails
  <2>1. UNCHANGED <<history, view, served>>
    BY <1>3 DEF Start, StartLive, StartUnsaved, StartFromDisk, StartFails, control
  <2>. QED BY <1>3, <2>1, StartTyped, ServiceStays DEF Typed
<1>4. CASE PollRefuses \/ PollRenews \/ PollApplies \/ PollUnsaved
  <2>1. UNCHANGED <<history, view, served>>
    BY <1>4 DEF PollRefuses, PollRenews, PollApplies, PollUnsaved, control
  <2>. QED BY <1>4, <2>1, PollTyped, ServiceStays DEF Typed
<1>5. CASE \/ \E n \in Node : SwitchKey(n) \/ Fetch(n)
           \/ Tick \/ SetBack \/ Crash \/ PowerLoss \/ Revoke
  <2>1. UNCHANGED <<history, view, served>>
    BY <1>5 DEF SwitchKey, Fetch, Tick, SetBack, Crash, PowerLoss, Revoke, control
  <2>. QED BY <1>5, <2>1, EnvironmentTyped, ServiceStays DEF Typed
<1>. QED BY <1>1, <1>2, <1>3, <1>4, <1>5 DEF Next

\* Types, for all constants: configurations, keys and times are what they should be.
THEOREM TypeCorrect == Spec => []TypeOK
<1>1. Typed /\ [Next]_vars => Typed' BY NextTyped
<1>. QED BY <1>1, InitTyped, PTL DEF Spec, Typed

-----------------------------------------------------------------------------
\* A live answer that startup prefers to the file is at least as new as
\* everything routed by before (bootstrap_control_configuration).
LEMMA LiveIsNewer ==
    ASSUME Typed, OrderInv, phase = "starting", answer # None, ~FilePreferred, ~undone
    PROVE  answer.config.revision >= peak.revision /\ answer.key >= peak.key
<1>1. answer \in Held /\ peak \in [revision : 0..MaxHistory, key : Key]
  BY DEF Typed, TypeOK
<1>2. CASE peak.revision = 0
  BY <1>1, <1>2, KeysType DEF OrderInv, FileRemembers, Held, Config, Key
<1>3. CASE peak.revision > 0
  <2>1. /\ persisted = file /\ file # None /\ file \in Saved
        /\ file.config.revision >= peak.revision /\ file.key >= peak.key
    BY <1>3 DEF OrderInv, FileRemembers, LoadedIsFile, Typed, TypeOK
  <2>2. Trusted(persisted)
    BY <1>1, <2>1 DEF Trusted, OrderInv, FileRemembers, Typed, TypeOK, Saved, Key
  <2>3. ~(answer.key < file.key) /\ ~(answer.config.revision < file.config.revision)
    BY <2>1, <2>2 DEF FilePreferred, Downgrade, Older
  <2>. QED BY <1>1, <2>1, <2>3 DEF Held, Saved, Config, Key
<1>. QED BY <1>1, <1>2, <1>3, BoundsType

\* Startup keeps the order of revisions and keys.
LEMMA StartOrder ==
    ASSUME Typed, OrderInv, Start \/ StartLive \/ StartUnsaved \/ StartFromDisk \/ StartFails
    PROVE  OrderInv'
<1>. USE DEF Typed, TypeOK, OrderInv, LoadedIsFile, FileRemembers, NeverMovesBack,
             SavedBeforeRouted, AtLeast
<1>1. CASE Start BY <1>1 DEF Start, disk, ghosts
<1>2. CASE StartLive
  <2>1. Snapshot(answer) \in Saved /\ answer \in Held
    BY <1>2, SnapshotTyped DEF StartLive
  <2>2. /\ routing'.config = answer.config /\ routing'.key = answer.key
        /\ file' = Snapshot(answer) /\ stable' = file' /\ file' # None
        /\ file'.config = answer.config /\ file'.key = answer.key
    BY <1>2, <2>1, NoneIsNothing DEF StartLive, Save, Route, Snapshot
  <2>3. ~undone => answer.config.revision >= peak.revision /\ answer.key >= peak.key
    BY <1>2, LiveIsNewer DEF StartLive
  <2>4. /\ peak'.revision = Max2(peak.revision, answer.config.revision)
        /\ peak'.key = Max2(peak.key, answer.key)
    BY <1>2 DEF StartLive, Route
  <2>5. answer.config.revision \in 1..MaxHistory /\ answer.key \in Key
    BY <2>1 DEF Held, Config
  <2>. QED BY <1>2, <2>2, <2>3, <2>4, <2>5, KeysType, BoundsType
       DEF StartLive, Save, Route, Max2, Key
<1>3. CASE StartUnsaved
  <2>1. Snapshot(answer) \in Saved /\ answer \in Held
    BY <1>3, SnapshotTyped DEF StartUnsaved
  <2>2. ~undone => answer.config.revision >= peak.revision /\ answer.key >= peak.key
    BY <1>3, LiveIsNewer DEF StartUnsaved
  <2>3. /\ Snapshot(answer) # None
        /\ Snapshot(answer).config = answer.config /\ Snapshot(answer).key = answer.key
    BY <2>1, NoneIsNothing DEF Snapshot
  <2>. QED BY <1>3, <2>2, <2>3, BoundsType DEF StartUnsaved, SaveFails, GoDown
<1>4. CASE StartFromDisk
  <2>1. persisted = file /\ file # None /\ file \in Saved
    BY <1>4 DEF StartFromDisk, Trusted
  <2>2. file.config.revision \in 1..MaxHistory /\ file.key \in Key
    BY <2>1 DEF Saved, Config
  <2>3. /\ routing'.config = file.config /\ routing'.key = file.key
        /\ peak'.revision = Max2(peak.revision, file.config.revision)
        /\ peak'.key = Max2(peak.key, file.key)
    BY <1>4, <2>1 DEF StartFromDisk, Route
  <2>. QED BY <1>4, <2>1, <2>2, <2>3, KeysType, BoundsType
       DEF StartFromDisk, Route, Max2, Key, disk
<1>5. CASE StartFails BY <1>5 DEF StartFails, GoDown, disk
<1>. QED BY <1>1, <1>2, <1>3, <1>4, <1>5

\* The watcher keeps the order of revisions and keys.
LEMMA PollOrder ==
    ASSUME Typed, OrderInv, PollRefuses \/ PollRenews \/ PollApplies \/ PollUnsaved
    PROVE  OrderInv'
<1>. USE DEF Typed, TypeOK, OrderInv, LoadedIsFile, FileRemembers, NeverMovesBack,
             SavedBeforeRouted, AtLeast
<1>1. CASE PollRefuses BY <1>1 DEF PollRefuses, Polled, disk, ghosts
<1>2. CASE PollRenews BY <1>2 DEF PollRenews, Polled, disk
<1>3. ASSUME Polled, ~Refused
      PROVE  /\ answer \in Held /\ routing \in Held
             /\ answer.config.revision >= routing.config.revision
             /\ answer.key >= routing.key
             /\ answer.config.revision \in 1..MaxHistory /\ answer.key \in Key
             /\ Snapshot(answer) # None
             /\ Snapshot(answer).config = answer.config /\ Snapshot(answer).key = answer.key
  <2>1. answer \in Held /\ routing \in Held /\ Snapshot(answer) \in Saved
    BY <1>3, SnapshotTyped DEF Polled
  <2>2. ~(answer.key < routing.key) /\ ~(answer.config.revision < routing.config.revision)
    BY <1>3 DEF Refused, Downgrade, Older
  <2>3. /\ answer.config.revision \in 1..MaxHistory /\ answer.key \in Key
        /\ routing.config.revision \in 1..MaxHistory /\ routing.key \in Key
    BY <2>1 DEF Held, Config
  <2>. QED BY <2>1, <2>2, <2>3, NoneIsNothing, BoundsType, KeysType DEF Snapshot, Key
<1>4. CASE PollApplies
  <2>1. /\ routing'.config = answer.config /\ routing'.key = answer.key
        /\ file' = Snapshot(answer) /\ stable' = file'
        /\ peak'.revision = Max2(peak.revision, answer.config.revision)
        /\ peak'.key = Max2(peak.key, answer.key)
        /\ phase' = "up" /\ persisted' = None
        /\ UNCHANGED <<undone, revoked>>
    BY <1>4 DEF PollApplies, Save, Route
  <2>. QED BY <1>3, <1>4, <2>1, KeysType, BoundsType DEF PollApplies, Polled, Max2, Key
<1>5. CASE PollUnsaved
  BY <1>3, <1>5, BoundsType, KeysType DEF PollUnsaved, Polled, SaveFails, Key
<1>. QED BY <1>1, <1>2, <1>4, <1>5

\* Everything else keeps it, also a power loss.
LEMMA EnvironmentOrder ==
    ASSUME Typed, OrderInv,
           \/ \E n \in Node : Learn(n) \/ SwitchKey(n) \/ Fetch(n)
           \/ Tick \/ SetBack \/ Crash \/ PowerLoss \/ Revoke
    PROVE  OrderInv'
<1>. USE DEF Typed, TypeOK, OrderInv, LoadedIsFile, FileRemembers, NeverMovesBack,
             SavedBeforeRouted, AtLeast
<1>1. ASSUME NEW n \in Node, Learn(n) \/ SwitchKey(n) PROVE OrderInv'
  BY <1>1 DEF Learn, SwitchKey, disk, process, ghosts
<1>2. ASSUME NEW n \in Node, Fetch(n) PROVE OrderInv' BY <1>2 DEF Fetch, disk, ghosts
<1>3. CASE Tick \/ SetBack BY <1>3 DEF Tick, SetBack, disk, process, ghosts
<1>4. CASE Crash BY <1>4 DEF Crash, GoDown, disk
<1>5. CASE PowerLoss BY <1>5 DEF PowerLoss, GoDown
<1>6. CASE Revoke
  <2>1. routing \in Held /\ routing.key <= peak.key BY <1>6 DEF Revoke
  <2>2. \A k \in revoked' : k < peak.key
    BY <1>6, <2>1 DEF Revoke, Held, Key
  <2>. QED BY <1>6, <2>2 DEF Revoke, GoDown, disk
<1>. QED BY <1>1, <1>2, <1>3, <1>4, <1>5, <1>6

\* Every step keeps the order of file, routing and what was routed before.
LEMMA NextOrder == ASSUME Typed, OrderInv, [Next]_vars PROVE OrderInv'
<1>1. CASE UNCHANGED vars
  BY <1>1 DEF vars, disk, process, ghosts, OrderInv, LoadedIsFile, FileRemembers,
              NeverMovesBack, SavedBeforeRouted, AtLeast
<1>2. CASE Next BY <1>2, StartOrder, PollOrder, EnvironmentOrder DEF Next
<1>. QED BY <1>1, <1>2

\* A gateway that never ran has routed nothing and saved nothing.
LEMMA InitOrder == Init => OrderInv
  BY DEF Init, OrderInv, LoadedIsFile, FileRemembers, NeverMovesBack, SavedBeforeRouted

\* The gateway never routes by an older revision or a less preferred key than it
\* once did, over polls, failed saves, crashes and restarts, unless a power loss
\* took back a rename whose sync had failed.
THEOREM RoutingIsMonotone == Spec => []NeverMovesBack
<1>1. Typed /\ OrderInv /\ [Next]_vars => Typed' /\ OrderInv' BY NextTyped, NextOrder
<1>2. OrderInv => NeverMovesBack BY DEF OrderInv
<1>. QED BY <1>1, <1>2, InitTyped, InitOrder, PTL DEF Spec

\* What the gateway routes by is in its file, and on stable storage unless a save
\* has failed (persist before publish).
THEOREM PersistedFirst == Spec => []SavedBeforeRouted
<1>1. Typed /\ OrderInv /\ [Next]_vars => Typed' /\ OrderInv' BY NextTyped, NextOrder
<1>2. OrderInv => SavedBeforeRouted BY DEF OrderInv
<1>. QED BY <1>1, <1>2, InitTyped, InitOrder, PTL DEF Spec

-----------------------------------------------------------------------------
\* A configuration is an entry of the history.
Committed(c) ==
    /\ c.revision \in 1..Len(history)
    /\ c.term = history[c.revision].term /\ c.cmd = history[c.revision].cmd

\* Every configuration in the system is an entry of the one history.
AgreeInv ==
    /\ \A n \in Node : served[n] # None => Committed(served[n])
    /\ answer # None => Committed(answer.config)
    /\ routing # None => Committed(routing.config)
    /\ persisted # None => Committed(persisted.config)
    /\ file # None => Committed(file.config)
    /\ stable # None => Committed(stable.config)

\* A longer history has the same entries.
LEMMA CommittedStays ==
    ASSUME Typed, NEW n \in Node, Learn(n), NEW c, Committed(c) PROVE Committed(c)'
<1>1. history' \in {history} \cup {Append(history, [term |-> 1, cmd |-> d]) : d \in Command}
  BY DEF Learn
<1>2. CASE history' = history BY <1>2 DEF Committed
<1>3. ASSUME NEW d \in Command, history' = Append(history, [term |-> 1, cmd |-> d])
      PROVE  Committed(c)'
  <2>1. history \in Seq([term : {1}, cmd : Command]) BY DEF Typed, ServiceOK
  <2>2. Len(history') = Len(history) + 1 /\ \A i \in 1..Len(history) : history'[i] = history[i]
    BY <1>3, <2>1
  <2>3. Len(history) \in Nat BY <2>1
  <2>. QED BY <2>2, <2>3 DEF Committed
<1>. QED BY <1>1, <1>2, <1>3

\* What a node serves is committed.
LEMMA LearnAgree == ASSUME Typed, AgreeInv, NEW n \in Node, Learn(n) PROVE AgreeInv'
<1>1. PICK h : /\ history' = h
              /\ h \in Seq([term : {1}, cmd : Command])
              /\ \E k \in 1..Len(h) : served' = [served EXCEPT ![n] = Control!Latest(h, k)]
  BY LearnTyped DEF Learn, Typed, ServiceOK
<1>2. PICK k \in 1..Len(h) : served' = [served EXCEPT ![n] = Control!Latest(h, k)]
  BY <1>1
<1>3. served'[n] = [revision |-> k, term |-> h[k].term, cmd |-> h[k].cmd]
  BY <1>1, <1>2, LatestIsLast DEF Typed, ServiceOK
<1>4. (Committed(served[n]))' BY <1>1, <1>2, <1>3 DEF Committed
<1>5. \A m \in Node : m # n => served'[m] = served[m] BY <1>2 DEF Typed, ServiceOK
<1>6. \A m \in Node : served'[m] # None => (Committed(served[m]))'
  <2>. SUFFICES ASSUME NEW m \in Node, served'[m] # None PROVE (Committed(served[m]))'
    OBVIOUS
  <2>1. CASE m = n BY <1>4, <2>1
  <2>2. CASE m # n
    <3>1. Committed(served[m]) BY <1>5, <2>2 DEF AgreeInv
    <3>2. \A c : Committed(c) => Committed(c)' BY CommittedStays
    <3>. QED BY <1>5, <2>2, <3>1, <3>2 DEF Committed
  <2>. QED BY <2>1, <2>2
<1>7. \A c : Committed(c) => Committed(c)' BY CommittedStays
<1>8. UNCHANGED <<answer, routing, persisted, file, stable>> BY DEF Learn, process, disk
<1>. QED BY <1>6, <1>7, <1>8 DEF AgreeInv, Committed

\* Every other step only passes configurations on.
LEMMA NextAgree == ASSUME Typed, AgreeInv, [Next]_vars PROVE AgreeInv'
<1>1. ASSUME NEW n \in Node, Learn(n) PROVE AgreeInv' BY <1>1, LearnAgree
<1>. USE DEF AgreeInv, Committed
<1>2. ASSUME NEW n \in Node, SwitchKey(n) \/ Fetch(n) PROVE AgreeInv'
  BY <1>2 DEF SwitchKey, Fetch, control, disk, process
<1>3. CASE UNCHANGED vars BY <1>3 DEF vars, control, disk, process
<1>4. CASE Start BY <1>4 DEF Start, control, disk
<1>5. CASE StartLive \/ PollApplies
  BY <1>5 DEF StartLive, PollApplies, Polled, Save, Snapshot, Route, control
<1>6. CASE StartUnsaved \/ PollUnsaved
  BY <1>6 DEF StartUnsaved, PollUnsaved, Polled, SaveFails, Snapshot, GoDown, control
<1>7. CASE StartFromDisk BY <1>7 DEF StartFromDisk, Trusted, Route, control, disk
<1>8. CASE StartFails BY <1>8 DEF StartFails, GoDown, control, disk
<1>9. CASE PollRefuses \/ PollRenews BY <1>9 DEF PollRefuses, PollRenews, control, disk
<1>10. CASE Tick \/ SetBack BY <1>10 DEF Tick, SetBack, control, disk, process
<1>11. CASE Crash \/ PowerLoss \/ Revoke
  BY <1>11 DEF Crash, PowerLoss, Revoke, GoDown, control, disk
<1>. QED BY <1>1, <1>2, <1>3, <1>4, <1>5, <1>6, <1>7, <1>8, <1>9, <1>10, <1>11 DEF Next

\* Two configurations of one revision are the same.
LEMMA OneConfigPerRevision ==
    ASSUME NEW c \in Config, NEW d \in Config, Committed(c), Committed(d), c.revision = d.revision
    PROVE  c = d
  BY DEF Config, Committed

\* When all that is held is committed, the divergence errors are not met.
LEMMA AgreeDivergence == ASSUME Typed, AgreeInv PROVE NoFalseDivergence
<1>. SUFFICES ASSUME answer # None
              PROVE  /\ phase = "up" => ~Divergent(routing, answer)
                     /\ persisted # None => ~Divergent(persisted, answer)
  BY DEF NoFalseDivergence
<1>1. answer.config \in Config /\ Committed(answer.config)
  BY DEF AgreeInv, Typed, TypeOK, Held
<1>2. ASSUME phase = "up" PROVE ~Divergent(routing, answer)
  <2>1. routing.config \in Config /\ Committed(routing.config)
    BY <1>2 DEF AgreeInv, Typed, TypeOK, Held
  <2>. QED BY <1>1, <2>1, OneConfigPerRevision DEF Divergent, same_routing_payload
<1>3. ASSUME persisted # None PROVE ~Divergent(persisted, answer)
  <2>1. persisted.config \in Config /\ Committed(persisted.config)
    BY <1>3 DEF AgreeInv, Typed, TypeOK, Saved
  <2>. QED BY <1>1, <2>1, OneConfigPerRevision DEF Divergent, same_routing_payload
<1>. QED BY <1>2, <1>3

\* The errors for divergent content never hit a gateway whose nodes keep what
\* ConfigService promises.
THEOREM Agreement == Spec => []NoFalseDivergence
<1>1. Init => AgreeInv BY DEF Init, AgreeInv, Control!Init
<1>2. Typed /\ AgreeInv /\ [Next]_vars => Typed' /\ AgreeInv' BY NextTyped, NextAgree
<1>3. Typed /\ AgreeInv => NoFalseDivergence BY AgreeDivergence
<1>. QED BY <1>1, <1>2, <1>3, InitTyped, PTL DEF Spec

-----------------------------------------------------------------------------
\* The file is never stamped later than the last good answer, and the lease runs
\* from that answer or is over.
LeaseInv ==
    /\ verified_at <= clock
    /\ file # None => file.saved_at <= verified_at
    /\ stable # None => stable.saved_at <= verified_at
    /\ phase = "up" => \/ deadline <= verified_at + lease_duration + setback
                       \/ deadline <= clock

\* Saving stamps the file with a time no later than the clock.
LEMMA StampedNow == ASSUME Typed PROVE \A a : Snapshot(a).saved_at <= clock
  BY BoundsType DEF Typed, TypeOK, Snapshot, wall

\* The age of the snapshot is spent (RoutingLeaseGuard::from_disk).
LEMMA DiskLease ==
    ASSUME Typed, OrderInv, LeaseInv, StartFromDisk
    PROVE  \/ DiskDeadline(persisted) <= verified_at + lease_duration + setback
           \/ DiskDeadline(persisted) <= clock
<1>1. persisted = file /\ file # None /\ file \in Saved
  BY DEF StartFromDisk, Trusted, OrderInv, LoadedIsFile, Typed, TypeOK
<1>2. /\ file.saved_at \in Int /\ file.saved_at <= verified_at
      /\ clock \in Nat /\ setback \in Nat /\ verified_at \in Nat /\ lease_duration \in Nat
  BY <1>1, LeaseIsPositive, BoundsType DEF LeaseInv, Typed, TypeOK, Saved
<1>. QED BY <1>1, <1>2 DEF DiskDeadline, NonNegative, Age, wall

\* Only a good answer moves the lease on, and startup from disk never does.
LEMMA NextLease == ASSUME Typed, OrderInv, LeaseInv, [Next]_vars PROVE LeaseInv'
<1>0. /\ clock \in Nat /\ setback \in Nat /\ verified_at \in Nat /\ deadline \in Nat
      /\ lease_duration \in Nat
      /\ (file # None => file.saved_at \in Int) /\ (stable # None => stable.saved_at \in Int)
  BY LeaseIsPositive, BoundsType DEF Typed, TypeOK, Saved
<1>s. Snapshot(answer).saved_at <= clock BY StampedNow
<1>. USE DEF LeaseInv
<1>1. ASSUME NEW n \in Node, Learn(n) \/ SwitchKey(n) \/ Fetch(n) PROVE LeaseInv'
  BY <1>0, <1>1 DEF Learn, SwitchKey, Fetch, time, disk, process, ghosts
<1>2. CASE UNCHANGED vars BY <1>0, <1>2 DEF vars, time, disk, process, ghosts
<1>3. CASE Start BY <1>0, <1>3 DEF Start, time, disk, ghosts
<1>4. CASE StartLive
  <2>1. /\ verified_at' = clock /\ UNCHANGED <<clock, setback>>
        /\ file' = Snapshot(answer) /\ stable' = Snapshot(answer)
        /\ deadline' = clock + lease_duration
    BY <1>4 DEF StartLive, Save, Route, NewDeadline, time
  <2>. QED BY <1>0, <1>s, <2>1
<1>5. CASE PollApplies
  <2>1. /\ verified_at' = clock /\ UNCHANGED <<clock, setback>>
        /\ file' = Snapshot(answer) /\ stable' = Snapshot(answer)
        /\ deadline' = clock + lease_duration
    BY <1>5 DEF PollApplies, Save, Route, NewDeadline, time
  <2>. QED BY <1>0, <1>s, <2>1
<1>6. CASE StartUnsaved
  <2>1. /\ verified_at' = clock /\ UNCHANGED <<clock, setback, stable>> /\ phase' = "down"
        /\ file' = file \/ file' = Snapshot(answer)
    BY <1>6 DEF StartUnsaved, SaveFails, GoDown, time
  <2>. QED BY <1>0, <1>s, <2>1
<1>7. CASE PollUnsaved
  <2>1. /\ verified_at' = clock /\ UNCHANGED <<clock, setback, stable, phase, deadline>>
        /\ file' = file \/ file' = Snapshot(answer)
    BY <1>7 DEF PollUnsaved, SaveFails, time
  <2>. QED BY <1>0, <1>s, <2>1
<1>8. CASE StartFromDisk
  <2>1. deadline' = DiskDeadline(persisted) BY <1>8 DEF StartFromDisk, Route
  <2>2. UNCHANGED <<clock, setback, verified_at, file, stable>>
    BY <1>8 DEF StartFromDisk, time, disk
  <2>. QED BY <1>8, <2>1, <2>2, DiskLease
<1>9. CASE StartFails BY <1>0, <1>9 DEF StartFails, GoDown, time, disk
<1>10. CASE PollRefuses BY <1>0, <1>10 DEF PollRefuses, time, disk, ghosts
<1>11. CASE PollRenews BY <1>0, <1>11 DEF PollRenews, NewDeadline, time, disk
<1>12. CASE Tick BY <1>0, <1>12 DEF Tick, disk, process, ghosts
<1>13. CASE SetBack BY <1>0, <1>13 DEF SetBack, disk, process, ghosts
<1>14. CASE Crash \/ Revoke BY <1>0, <1>14 DEF Crash, Revoke, GoDown, time, disk
<1>15. CASE PowerLoss BY <1>0, <1>15 DEF PowerLoss, GoDown, time
<1>. QED BY <1>1, <1>2, <1>3, <1>4, <1>5, <1>6, <1>7, <1>8, <1>9, <1>10, <1>11, <1>12,
            <1>13, <1>14, <1>15 DEF Next

\* New requests are admitted only within the lease from the last good answer, plus
\* the time by which the wall clock was set back, over any number of restarts.
THEOREM LeaseHolds == Spec => []LeaseIsSpent
<1>1. Init => LeaseInv BY BoundsType DEF Init, LeaseInv
<1>2. Typed /\ OrderInv /\ LeaseInv /\ [Next]_vars => Typed' /\ OrderInv' /\ LeaseInv'
  BY NextTyped, NextOrder, NextLease
<1>3. Typed /\ LeaseInv => LeaseIsSpent
  BY LeaseIsPositive, BoundsType DEF Typed, TypeOK, LeaseInv, LeaseIsSpent, Fresh
<1>. QED BY <1>1, <1>2, <1>3, InitTyped, InitOrder, PTL DEF Spec

-----------------------------------------------------------------------------
(* The control plane's signed writes.                                        *)

\* A write that a handler carries, or an entry, as the intent it came from.
IntentOf(w) == [writer |-> w.writer, cluster |-> "own", expected |-> w.expected,
                issued_at |-> w.issued_at, body |-> w.body]

\* Where writes must be signed, what is carried is what a trusted writer signed,
\* and only an unsigned write has no fence.
Permitted(w, signed_only) ==
    /\ signed_only => /\ w.writer \in trusted_writers \ revoked_writers
                      /\ IntentOf(w) \in Signed
    /\ w.writer # NoWriter => w.expected # NoFence

Carried == [at : {"idle", "proposal_lock", "replicating"}, body : Bodies \cup {NoBody},
            expected : Nat \cup {NoFence}, writer : Writer \cup {NoWriter},
            issued_at : Nat, index : Nat]
LogEntry == [body : Bodies \cup {NoBody}, writer : Writer \cup {NoWriter}, issued_at : Nat,
             expected : Nat \cup {NoFence}, after : Nat]
Books == [verified : Nat, committed : Nat, rejected : Nat, conflicts : Nat, given_up : Nat]

Busy == {h \in WriteHandler : write[h].at # "idle"}

WriteTypes ==
    /\ required \in BOOLEAN
    /\ write \in [WriteHandler -> Carried]
    /\ entries \in Seq(LogEntry)
    /\ applied \in 0..Len(entries)
    /\ write_books \in Books

CarriedInv ==
    /\ \A h \in WriteHandler : write[h].at # "idle" => Permitted(write[h], required)
    /\ \A h \in WriteHandler : write[h].at = "replicating" =>
           /\ write_books.committed < write[h].index
           /\ \A g \in WriteHandler : write[g].at = "replicating" => g = h

\* An entry was appended over a shorter committed log, and what its writer had
\* expected was the revision of that moment.
EntryFits(e, i, signed_only) ==
    /\ e.after < i
    /\ e.writer # NoWriter => e.expected = e.after
    /\ IsNoop(e) \/ Permitted(e, signed_only)

EntriesInv == \A i \in DOMAIN entries : EntryFits(entries[i], i, required)

RevisionInv == revision \in 0..applied /\ (revision # 0 => ~ IsNoop(entries[revision]))

Outstanding ==
    /\ IsFiniteSet(Busy)
    /\ write_books.verified <= write_books.committed + write_books.rejected
          + write_books.conflicts + write_books.given_up + Cardinality(Busy)

AnswersInv ==
    \A a \in answers : /\ a.revision \in 1..applied
                       /\ entries[a.revision].body = a.body /\ a.body # NoBody

WritesInv ==
    /\ WriteTypes /\ CarriedInv /\ EntriesInv /\ RevisionInv /\ Outstanding /\ AnswersInv
    /\ write_books.committed <= applied

Intents == [writer : Writer, cluster : {"own", "foreign"}, expected : Nat,
            issued_at : Nat, body : Bodies]

LEMMA RequestForms ==
    ASSUME NEW request \in Requests
    PROVE  \/ \E b \in Bodies : request = Legacy(b)
           \/ \E i \in Signed : \E claim \in Intents : request = Envelope(claim, i)
<1>1. Signed \subseteq Intents
    BY WriteConstants DEF Intents
<1>2. ASSUME NEW i \in Signed, NEW claim \in Arriving(i)
      PROVE  claim \in Intents
  <2>1. \A w \in Writer : ClaimedBy(i, w) \in Intents
    BY <1>1 DEF Intents, ClaimedBy
  <2>2. \A b \in Bodies : WithBody(i, b) \in Intents
    BY <1>1 DEF Intents, WithBody
  <2> QED
    BY <1>1, <2>1, <2>2 DEF Arriving
<1>3. \/ \E b \in Bodies : request = Legacy(b)
      \/ \E i \in Signed : \E claim \in Arriving(i) : request = Envelope(claim, i)
    BY DEF Requests
<1> QED
    BY <1>2, <1>3

\* What verify lets through was signed, field by field, for this cluster.
LEMMA VerifiedIntent ==
    ASSUME NEW request \in Requests, request.kind = "authorized", verify(request)
    PROVE  /\ request.claim.writer \in trusted_writers \ revoked_writers
           /\ [writer |-> request.claim.writer, cluster |-> "own",
               expected |-> request.claim.expected, issued_at |-> request.claim.issued_at,
               body |-> request.claim.body] \in Signed
           /\ request.claim.expected \in Nat /\ request.claim.issued_at \in Nat
           /\ request.claim.body \in Bodies /\ request.claim.writer \in Writer
<1>1. PICK i \in Signed, claim \in Intents : request = Envelope(claim, i)
    BY RequestForms DEF Legacy
<1>3. claim \in [writer : Writer, cluster : {"own", "foreign"}, expected : Nat,
                 issued_at : Nat, body : Bodies]
    BY DEF Intents
<1>4. request.claim = claim /\ request.over = i
    BY <1>1 DEF Envelope
<1>5. /\ claim.writer \in trusted_writers \ revoked_writers
      /\ i = [claim EXCEPT !.cluster = "own"]
  <2>1. PICK payload : payload = [claim EXCEPT !.cluster = "own"]
    OBVIOUS
  <2>2. payload.writer = claim.writer
    BY <1>3, <2>1
  <2> QED
    BY <1>4, <2>1, <2>2 DEF verify
<1>6. i = [writer |-> claim.writer, cluster |-> "own", expected |-> claim.expected,
           issued_at |-> claim.issued_at, body |-> claim.body]
    BY <1>3, <1>5
<1> QED
    BY <1>3, <1>4, <1>5, <1>6

\* What a handler carries after an accepted request.
LEMMA ProposalIsPermitted ==
    ASSUME NEW request \in Requests, NEW now, NEW w,
           required \in BOOLEAN, authorize(request, now) = "accepted", w = proposal(request)
    PROVE  w \in Carried /\ w.at = "proposal_lock" /\ Permitted(w, required)
<1>1. CASE request.kind = "legacy"
  <2>1. PICK b \in Bodies : request.body = b
    BY <1>1, RequestForms DEF Legacy, Envelope
  <2>2. ~ required
    BY <1>1 DEF authorize
  <2>3. w = [at |-> "proposal_lock", body |-> b, expected |-> NoFence, writer |-> NoWriter,
             issued_at |-> 0, index |-> NoIndex]
    BY <1>1, <2>1 DEF proposal, IdleWrite
  <2>4. w \in Carried /\ w.at = "proposal_lock"
    <3>1. /\ b \in Bodies \cup {NoBody} /\ NoFence \in Nat \cup {NoFence}
          /\ NoWriter \in Writer \cup {NoWriter} /\ 0 \in Nat /\ NoIndex \in Nat
      BY DEF NoIndex
    <3> QED
      BY <2>3, <3>1 DEF Carried
  <2>5. Permitted(w, required)
    BY <2>2, <2>3 DEF Permitted
  <2> QED
    BY <2>4, <2>5
<1>2. CASE request.kind # "legacy"
  <2>1. request.kind = "authorized"
    BY <1>2, RequestForms DEF Legacy, Envelope
  <2>2. verify(request)
    BY <1>2 DEF authorize
  <2>3. PICK c : c = request.claim
    OBVIOUS
  <2>4. /\ c.writer \in trusted_writers \ revoked_writers
        /\ [writer |-> c.writer, cluster |-> "own", expected |-> c.expected,
            issued_at |-> c.issued_at, body |-> c.body] \in Signed
        /\ c.expected \in Nat /\ c.issued_at \in Nat /\ c.body \in Bodies /\ c.writer \in Writer
    BY <2>1, <2>2, <2>3, VerifiedIntent
  <2>5. w = [at |-> "proposal_lock", body |-> c.body, expected |-> c.expected,
             writer |-> c.writer, issued_at |-> c.issued_at, index |-> NoIndex]
    BY <1>2, <2>3 DEF proposal, IdleWrite
  <2>6. w \in Carried /\ w.at = "proposal_lock"
    <3>1. /\ c.body \in Bodies \cup {NoBody} /\ c.expected \in Nat \cup {NoFence}
          /\ c.writer \in Writer \cup {NoWriter} /\ NoIndex \in Nat
      BY <2>4 DEF NoIndex
    <3> QED
      BY <2>4, <2>5, <3>1 DEF Carried
  <2>7. w.expected # NoFence
    BY <2>4, <2>5 DEF NoFence
  <2>8. /\ w.writer \in trusted_writers \ revoked_writers
        /\ IntentOf(w) \in Signed
    BY <2>4, <2>5 DEF IntentOf
  <2> QED
    BY <2>6, <2>7, <2>8 DEF Permitted
<1> QED
    BY <1>1, <1>2

\* A counter goes up by one and the others stay.
LEMMA CountIs ==
    ASSUME NEW b \in Books,
           NEW f \in {"verified", "committed", "rejected", "conflicts", "given_up"},
           NEW c, c = Count(b, f)
    PROVE  /\ c \in Books
           /\ c.verified = b.verified + (IF f = "verified" THEN 1 ELSE 0)
           /\ c.committed = b.committed + (IF f = "committed" THEN 1 ELSE 0)
           /\ c.rejected = b.rejected + (IF f = "rejected" THEN 1 ELSE 0)
           /\ c.conflicts = b.conflicts + (IF f = "conflicts" THEN 1 ELSE 0)
           /\ c.given_up = b.given_up + (IF f = "given_up" THEN 1 ELSE 0)
BY DEF Count, Books

\* A handler takes a write up.
LEMMA BusyGrows ==
    ASSUME WriteTypes, Outstanding, NEW h \in WriteHandler, write[h].at = "idle",
           NEW w, w.at # "idle", write' = [write EXCEPT ![h] = w]
    PROVE  /\ IsFiniteSet(Busy') /\ Cardinality(Busy) \in Nat
           /\ Cardinality(Busy') = Cardinality(Busy) + 1
<1>1. Busy' = Busy \cup {h} /\ h \notin Busy
    BY DEF Busy, WriteTypes
<1>2. IsFiniteSet(Busy)
    BY DEF Outstanding
<1> QED
    BY <1>1, <1>2, FS_AddElement, FS_CardinalityType

\* A handler lets its write go.
LEMMA BusyShrinks ==
    ASSUME WriteTypes, Outstanding, NEW h \in WriteHandler, write[h].at # "idle",
           write' = [write EXCEPT ![h] = IdleWrite]
    PROVE  /\ IsFiniteSet(Busy') /\ Cardinality(Busy') \in Nat
           /\ Cardinality(Busy) = Cardinality(Busy') + 1
<1>1. Busy' = Busy \ {h} /\ h \in Busy
    BY DEF Busy, WriteTypes, IdleWrite
<1>2. IsFiniteSet(Busy)
    BY DEF Outstanding
<1>3. IsFiniteSet(Busy') /\ Cardinality(Busy') = Cardinality(Busy) - 1
    BY <1>1, <1>2, FS_RemoveElement
<1>4. Cardinality(Busy) \in Nat /\ Cardinality(Busy') \in Nat
    BY <1>2, <1>3, FS_CardinalityType
<1> QED
    BY <1>3, <1>4

LEMMA BusyStays ==
    ASSUME WriteTypes, Outstanding,
           \A h \in WriteHandler : write'[h].at = "idle" <=> write[h].at = "idle"
    PROVE  /\ IsFiniteSet(Busy') /\ Cardinality(Busy') \in Nat
           /\ Cardinality(Busy') = Cardinality(Busy)
<1>1. Busy' = Busy
    BY DEF Busy
<1> QED
    BY <1>1, FS_CardinalityType DEF Outstanding

LEMMA IdleIsCarried == IdleWrite \in Carried /\ IdleWrite.at = "idle"
<1>1. NoBody \in Bodies \cup {NoBody} /\ NoFence \in Nat \cup {NoFence}
      /\ NoWriter \in Writer \cup {NoWriter} /\ NoIndex \in Nat
    BY DEF NoIndex
<1> QED
    BY <1>1 DEF IdleWrite, Carried

\* A step that leaves the log alone.
LEMMA LogStays ==
    ASSUME WritesInv, UNCHANGED <<required, entries, applied, revision, answers>>
    PROVE  EntriesInv' /\ RevisionInv' /\ AnswersInv' /\ entries' \in Seq(LogEntry)
           /\ applied' \in 0..Len(entries') /\ required' \in BOOLEAN
<1>1. EntriesInv'
    BY DEF WritesInv, EntriesInv
<1>2. RevisionInv' /\ AnswersInv'
    BY DEF WritesInv, RevisionInv, AnswersInv
<1> QED
    BY <1>1, <1>2 DEF WritesInv, WriteTypes

\* A write that passes its fence becomes an entry that fits the log.
LEMMA WriteFits ==
    ASSUME NEW w \in Carried, NEW signed_only, Permitted(w, signed_only),
           NEW n \in Nat, NEW i \in Nat, n < i, fence_passes(w.expected, n),
           NEW e, e = Entry(w, n)
    PROVE  e \in LogEntry /\ EntryFits(e, i, signed_only)
<1>1. PICK after : after = IF w.expected = NoFence THEN NoIndex ELSE n
    OBVIOUS
<1>2. after \in Nat /\ after < i
    BY <1>1 DEF NoIndex
<1>3. e = [body |-> w.body, writer |-> w.writer, issued_at |-> w.issued_at,
           expected |-> w.expected, after |-> after]
    BY <1>1 DEF Entry
<1>4. e \in LogEntry
    BY <1>2, <1>3 DEF LogEntry, Carried
<1>5. Permitted(e, signed_only)
    BY <1>3 DEF Permitted, IntentOf
<1>6. e.writer # NoWriter => e.expected = e.after
  <2>1. w.writer # NoWriter => w.expected # NoFence
    BY DEF Permitted
  <2> QED
    BY <1>1, <1>3, <2>1 DEF fence_passes
<1> QED
    BY <1>2, <1>3, <1>4, <1>5, <1>6 DEF EntryFits

LEMMA NoopFits ==
    ASSUME NEW i \in Nat, 0 < i, NEW signed_only, NEW e, e = NoopEntry
    PROVE  e \in LogEntry /\ EntryFits(e, i, signed_only)
<1>1. e = [body |-> NoBody, writer |-> NoWriter, issued_at |-> 0, expected |-> NoFence,
           after |-> 0]
    BY DEF NoopEntry, Entry, IdleWrite, NoIndex
<1>2. /\ NoBody \in Bodies \cup {NoBody} /\ NoFence \in Nat \cup {NoFence}
      /\ NoWriter \in Writer \cup {NoWriter} /\ 0 \in Nat
    OBVIOUS
<1>3. e \in LogEntry
    BY <1>1, <1>2 DEF LogEntry
<1> QED
    BY <1>1, <1>3 DEF EntryFits, IsNoop

\* What another leader has is what this one could have.
LEMMA OthersFit ==
    ASSUME required \in BOOLEAN, NEW i \in Nat, 0 < i, NEW e \in EntriesOfOthers(i)
    PROVE  e \in LogEntry /\ EntryFits(e, i, required)
<1>1. CASE e = NoopEntry
    BY <1>1, NoopFits
<1>2. CASE e # NoopEntry
  <2>1. PICK p \in Authorized \X (0..i - 1) :
            /\ e = Entry(proposal(p[1]), p[2])
            /\ fence_passes(proposal(p[1]).expected, p[2])
    BY <1>2 DEF EntriesOfOthers
  <2>2. PICK request, n, w : request = p[1] /\ n = p[2] /\ w = proposal(request)
    OBVIOUS
  <2>3. request \in Authorized /\ n \in 0..i - 1
    BY <2>1, <2>2
  <2>4. PICK now : request \in Requests /\ authorize(request, now) = "accepted"
    BY <2>3 DEF Authorized
  <2>5. w \in Carried /\ Permitted(w, required)
    BY <2>2, <2>4, ProposalIsPermitted
  <2>6. n \in Nat /\ n < i
    BY <2>3
  <2>7. e = Entry(w, n) /\ fence_passes(w.expected, n)
    BY <2>1, <2>2
  <2> QED
    BY <2>5, <2>6, <2>7, WriteFits
<1> QED
    BY <1>1, <1>2

\* The log after its first k entries is replaced by one entry, k not below what
\* is applied.
LEMMA LogGrows ==
    ASSUME WritesInv, required' = required, NEW k \in applied..Len(entries),
           NEW e \in LogEntry, EntryFits(e, k + 1, required),
           entries' = Append(SubSeq(entries, 1, k), e)
    PROVE  /\ entries' \in Seq(LogEntry) /\ Len(entries') = k + 1 /\ EntriesInv'
           /\ \A i \in 1..applied : entries'[i] = entries[i]
<1>1. /\ entries \in Seq(LogEntry) /\ applied \in 0..Len(entries) /\ Len(entries) \in Nat
      /\ EntriesInv
    BY DEF WritesInv, WriteTypes
<1>2. /\ entries' \in Seq(LogEntry) /\ Len(entries') = k + 1 /\ entries'[k + 1] = e
      /\ \A i \in 1..k : entries'[i] = entries[i]
  <2>1. PICK s : s = SubSeq(entries, 1, k)
    OBVIOUS
  <2>2. k \in Nat
    BY <1>1
  <2>3. s \in Seq(LogEntry) /\ Len(s) = k /\ \A i \in 1..k : s[i] = entries[i]
    BY <1>1, <2>1, <2>2
  <2>4. entries' = Append(s, e)
    BY <2>1
  <2> QED
    BY <2>2, <2>3, <2>4
<1>3. DOMAIN entries' = 1..k \cup {k + 1}
    BY <1>1, <1>2
<1>4. ASSUME NEW i \in DOMAIN entries'
      PROVE  EntryFits(entries'[i], i, required)
  <2>1. CASE i \in 1..k
    <3>1. i \in DOMAIN entries /\ entries'[i] = entries[i]
      BY <1>1, <1>2, <2>1
    <3> QED
      BY <1>1, <3>1 DEF EntriesInv
  <2>2. CASE i = k + 1
    BY <1>2, <2>2
  <2> QED
    BY <1>3, <2>1, <2>2
<1> QED
    BY <1>1, <1>2, <1>4 DEF EntriesInv

LEMMA LogIsAppended ==
    ASSUME WritesInv, required' = required, NEW e \in LogEntry,
           EntryFits(e, Len(entries) + 1, required), entries' = Append(entries, e)
    PROVE  /\ entries' \in Seq(LogEntry) /\ Len(entries') = Len(entries) + 1 /\ EntriesInv'
           /\ \A i \in 1..applied : entries'[i] = entries[i]
<1>1. /\ entries \in Seq(LogEntry) /\ applied \in 0..Len(entries) /\ Len(entries) \in Nat
    BY DEF WritesInv, WriteTypes
<1>2. PICK k : k = Len(entries)
    OBVIOUS
<1>3. k \in applied..Len(entries) /\ SubSeq(entries, 1, k) = entries
    BY <1>1, <1>2
<1>4. EntryFits(e, k + 1, required) /\ entries' = Append(SubSeq(entries, 1, k), e)
    BY <1>2, <1>3
<1> QED
    BY <1>2, <1>3, <1>4, LogGrows

LEMMA SubmitKeeps ==
    ASSUME WritesInv, NEW h \in WriteHandler, Submit(h)
    PROVE  WritesInv'
<1>1. /\ write[h].at = "idle" /\ UNCHANGED <<required, entries, applied, revision, answers>>
    BY DEF Submit
<1>2. PICK request \in Requests :
        LET verdict == authorize(request, write_clock)
            checked == IF request.kind = "authorized" /\ verdict # "authentication"
                       THEN Count(write_books, "verified") ELSE write_books
        IN  IF verdict = "accepted"
            THEN /\ write' = [write EXCEPT ![h] = proposal(request)]
                 /\ write_books' = checked
            ELSE /\ write_books' = Count(checked, "rejected")
                 /\ write' = write
    BY DEF Submit
<1>3. PICK b : b = write_books
    OBVIOUS
<1>10. PICK c : c = IF request.kind = "authorized" /\ authorize(request, write_clock) # "authentication"
                    THEN Count(b, "verified") ELSE b
    OBVIOUS
<1>11. \/ /\ authorize(request, write_clock) = "accepted"
          /\ write' = [write EXCEPT ![h] = proposal(request)]
          /\ write_books' = c
       \/ /\ write' = write
          /\ write_books' = Count(c, "rejected")
    BY <1>2, <1>3, <1>10
<1>4. /\ b \in Books /\ required \in BOOLEAN /\ write \in [WriteHandler -> Carried]
      /\ WriteTypes /\ Outstanding /\ CarriedInv
    BY <1>3 DEF WritesInv, WriteTypes
<1>5. /\ c \in Books /\ c.committed = b.committed /\ c.rejected = b.rejected
      /\ c.conflicts = b.conflicts /\ c.given_up = b.given_up
      /\ c.verified \in {b.verified, b.verified + 1}
  <2>1. CASE c = b
    BY <1>4, <2>1
  <2>2. CASE c = Count(b, "verified")
    <3>1. /\ c \in Books /\ c.committed = b.committed + 0 /\ c.rejected = b.rejected + 0
          /\ c.conflicts = b.conflicts + 0 /\ c.given_up = b.given_up + 0
          /\ c.verified = b.verified + 1
      BY <1>4, <2>2, CountIs
    <3> QED
      BY <1>4, <3>1 DEF Books
  <2> QED
    BY <1>10, <2>1, <2>2
<1>6. /\ EntriesInv' /\ RevisionInv' /\ AnswersInv' /\ entries' \in Seq(LogEntry)
      /\ applied' \in 0..Len(entries') /\ required' \in BOOLEAN
    BY <1>1, LogStays
<1>7. /\ b.verified \in Nat /\ b.committed \in Nat /\ b.rejected \in Nat /\ b.conflicts \in Nat
      /\ b.given_up \in Nat /\ c.verified \in Nat
      /\ b.verified <= b.committed + b.rejected + b.conflicts + b.given_up + Cardinality(Busy)
      /\ b.committed <= applied
    BY <1>3, <1>4, <1>5 DEF Books, Outstanding, WritesInv
<1>8. CASE /\ authorize(request, write_clock) = "accepted"
           /\ write' = [write EXCEPT ![h] = proposal(request)]
           /\ write_books' = c
  <2>1. PICK w : w = proposal(request)
    OBVIOUS
  <2>2. w \in Carried /\ w.at = "proposal_lock" /\ Permitted(w, required)
    BY <1>4, <1>8, <2>1, ProposalIsPermitted
  <2>3. write' = [write EXCEPT ![h] = w]
    BY <1>8, <2>1
  <2>4. WriteTypes'
    BY <1>4, <1>5, <1>6, <1>8, <2>2, <2>3 DEF WriteTypes
  <2>5. CarriedInv'
    BY <1>1, <1>3, <1>4, <1>5, <1>8, <2>2, <2>3 DEF CarriedInv, Permitted, IntentOf
  <2>6. /\ IsFiniteSet(Busy') /\ Cardinality(Busy) \in Nat
        /\ Cardinality(Busy') = Cardinality(Busy) + 1
    BY <1>1, <1>4, <2>2, <2>3, BusyGrows
  <2>7. Outstanding'
    BY <1>5, <1>7, <1>8, <2>6 DEF Outstanding
  <2> QED
    BY <1>1, <1>5, <1>6, <1>7, <1>8, <2>4, <2>5, <2>7 DEF WritesInv
<1>9. CASE /\ write' = write
           /\ write_books' = Count(c, "rejected")
  <2>1. PICK d : d = Count(c, "rejected")
    OBVIOUS
  <2>2. /\ d \in Books /\ d.verified = c.verified /\ d.committed = b.committed
        /\ d.rejected = b.rejected + 1 /\ d.conflicts = b.conflicts /\ d.given_up = b.given_up
    <3>1. /\ d \in Books /\ d.verified = c.verified + 0 /\ d.committed = c.committed + 0
          /\ d.rejected = c.rejected + 1 /\ d.conflicts = c.conflicts + 0
          /\ d.given_up = c.given_up + 0
      BY <1>5, <2>1, CountIs
    <3>2. c.verified \in Nat /\ c.committed \in Nat /\ c.conflicts \in Nat /\ c.given_up \in Nat
      BY <1>5 DEF Books
    <3> QED
      BY <1>5, <3>1, <3>2
  <2>3. write_books' = d
    BY <1>9, <2>1
  <2>4. WriteTypes'
    BY <1>4, <1>6, <1>9, <2>2, <2>3 DEF WriteTypes
  <2>5. CarriedInv'
    BY <1>1, <1>3, <1>4, <1>9, <2>2, <2>3 DEF CarriedInv, Permitted, IntentOf
  <2>6. /\ IsFiniteSet(Busy') /\ Cardinality(Busy') \in Nat
        /\ Cardinality(Busy') = Cardinality(Busy)
    BY <1>4, <1>9, BusyStays
  <2>7. Outstanding'
    BY <1>5, <1>7, <2>2, <2>3, <2>6 DEF Outstanding
  <2> QED
    BY <1>1, <1>6, <1>7, <2>2, <2>3, <2>4, <2>5, <2>7 DEF WritesInv
<1> QED
    BY <1>11, <1>8, <1>9

\* A handler that lets its write go and counts what became of it.
LEMMA ClosingCounts ==
    ASSUME WritesInv, NEW h \in WriteHandler, write[h].at # "idle",
           NEW f \in {"committed", "conflicts", "given_up"},
           write' = [write EXCEPT ![h] = IdleWrite],
           write_books' = Count(write_books, f), required' = required,
           NEW n \in Nat, n = (IF f = "committed" THEN 1 ELSE 0),
           \A g \in WriteHandler : write[g].at = "replicating" /\ f = "committed" => g = h
    PROVE  /\ write' \in [WriteHandler -> Carried] /\ write_books' \in Books
           /\ Outstanding' /\ CarriedInv'
           /\ write_books'.committed = write_books.committed + n
<1>1. PICK b, d : b = write_books /\ d = write_books'
    OBVIOUS
<1>2. /\ b \in Books /\ write \in [WriteHandler -> Carried]
      /\ WriteTypes /\ Outstanding /\ CarriedInv
    BY <1>1 DEF WritesInv, WriteTypes
<1>3. d = Count(b, f)
    BY <1>1
<1>4. /\ d \in Books /\ d.verified = b.verified + 0 /\ d.committed = b.committed + n
      /\ d.rejected = b.rejected + 0
      /\ d.conflicts = b.conflicts + (IF f = "conflicts" THEN 1 ELSE 0)
      /\ d.given_up = b.given_up + (IF f = "given_up" THEN 1 ELSE 0)
    BY <1>2, <1>3, CountIs
<1>5. /\ b.verified \in Nat /\ b.committed \in Nat /\ b.rejected \in Nat /\ b.conflicts \in Nat
      /\ b.given_up \in Nat
    BY <1>2 DEF Books
<1>6. d.committed + d.rejected + d.conflicts + d.given_up
        = b.committed + b.rejected + b.conflicts + b.given_up + 1
    BY <1>4, <1>5
<1>7. /\ IsFiniteSet(Busy') /\ Cardinality(Busy') \in Nat
      /\ Cardinality(Busy) = Cardinality(Busy') + 1
    BY <1>2, BusyShrinks
<1>8. Outstanding'
  <2>1. b.verified <= b.committed + b.rejected + b.conflicts + b.given_up + Cardinality(Busy)
    BY <1>1, <1>2 DEF Outstanding
  <2>2. d.verified \in Nat /\ d.committed \in Nat /\ d.rejected \in Nat /\ d.conflicts \in Nat
        /\ d.given_up \in Nat
    BY <1>4 DEF Books
  <2>3. d.verified <= d.committed + d.rejected + d.conflicts + d.given_up + Cardinality(Busy')
    BY <1>4, <1>5, <1>6, <1>7, <2>1, <2>2
  <2> QED
    BY <1>1, <1>7, <2>3 DEF Outstanding
<1>9. /\ write' \in [WriteHandler -> Carried]
      /\ \A g \in WriteHandler : g # h => write'[g] = write[g]
      /\ write'[h].at = "idle"
    BY <1>2, IdleIsCarried
<1>10. CarriedInv'
  <2>1. ASSUME NEW g \in WriteHandler, write'[g].at # "idle"
        PROVE  Permitted(write'[g], required')
    BY <1>2, <1>9, <2>1 DEF CarriedInv
  <2>2. ASSUME NEW g \in WriteHandler, write'[g].at = "replicating"
        PROVE  /\ d.committed < write'[g].index
               /\ \A k \in WriteHandler : write'[k].at = "replicating" => k = g
    <3>1. g # h /\ write[g].at = "replicating" /\ write'[g] = write[g]
      BY <1>9, <2>2
    <3>2. n = 0
      BY <3>1
    <3>3. d.committed = b.committed
      BY <1>4, <1>5, <3>2
    <3> QED
      BY <1>1, <1>2, <1>9, <3>1, <3>3 DEF CarriedInv
  <2> QED
    BY <1>1, <2>1, <2>2 DEF CarriedInv
<1> QED
    BY <1>1, <1>4, <1>8, <1>9, <1>10

LEMMA FailsKeeps ==
    ASSUME WritesInv, NEW h \in WriteHandler, write[h].at # "idle",
           NEW f \in {"conflicts", "given_up"}, Fails(h, f)
    PROVE  WritesInv'
<1>1. /\ write' = [write EXCEPT ![h] = IdleWrite]
      /\ write_books' = Count(write_books, f)
      /\ UNCHANGED <<required, entries, applied, revision, answers>>
    BY DEF Fails
<1>2. /\ write_books \in Books /\ applied \in 0..Len(entries) /\ Len(entries) \in Nat
      /\ write_books.committed <= applied
    BY DEF WritesInv, WriteTypes
<1>3. /\ write' \in [WriteHandler -> Carried] /\ write_books' \in Books
      /\ Outstanding' /\ CarriedInv'
      /\ write_books'.committed = write_books.committed + 0
    BY <1>1, ClosingCounts
<1>4. /\ EntriesInv' /\ RevisionInv' /\ AnswersInv' /\ entries' \in Seq(LogEntry)
      /\ applied' \in 0..Len(entries') /\ required' \in BOOLEAN
    BY <1>1, LogStays
<1>5. write_books'.committed <= applied'
    BY <1>1, <1>2, <1>3 DEF Books
<1> QED
    BY <1>3, <1>4, <1>5 DEF WritesInv, WriteTypes

\* What is appended is what was authorized, over the revision it expected.
LEMMA AppendKeeps ==
    ASSUME WritesInv, NEW h \in WriteHandler, write[h].at = "proposal_lock", LockFree,
           fence_passes(write[h].expected, revision),
           NEW e, e = Entry(write[h], revision),
           entries' = Append(entries, e),
           write' = [write EXCEPT ![h].at = "replicating", ![h].index = Len(entries')],
           UNCHANGED <<required, applied, revision, write_books, answers>>
    PROVE  WritesInv'
<1>1. /\ WriteTypes /\ CarriedInv /\ EntriesInv /\ RevisionInv /\ Outstanding /\ AnswersInv
      /\ write \in [WriteHandler -> Carried] /\ entries \in Seq(LogEntry) /\ write_books \in Books
      /\ write_books.committed <= applied /\ applied \in 0..Len(entries) /\ Len(entries) \in Nat
      /\ required \in BOOLEAN /\ revision \in 0..applied
    BY DEF WritesInv, WriteTypes, RevisionInv
<1>2. PICK w : w = write[h]
    OBVIOUS
<1>3. w \in Carried /\ w.at = "proposal_lock" /\ Permitted(w, required)
    BY <1>1, <1>2 DEF CarriedInv
<1>4. e \in LogEntry /\ EntryFits(e, Len(entries) + 1, required)
  <2>1. /\ revision \in Nat /\ Len(entries) + 1 \in Nat /\ revision < Len(entries) + 1
        /\ e = Entry(w, revision) /\ fence_passes(w.expected, revision)
    BY <1>1, <1>2
  <2> QED
    BY <1>3, <2>1, WriteFits
<1>5. /\ entries' \in Seq(LogEntry) /\ Len(entries') = Len(entries) + 1 /\ EntriesInv'
      /\ \A i \in 1..applied : entries'[i] = entries[i]
    BY <1>4, LogIsAppended
<1>7. PICK v : v = [w EXCEPT !.at = "replicating", !.index = Len(entries) + 1]
    OBVIOUS
<1>8. write' = [write EXCEPT ![h] = v]
    BY <1>1, <1>2, <1>5, <1>7
<1>9. /\ v \in Carried /\ v.at = "replicating" /\ v.index = Len(entries) + 1
      /\ Permitted(v, required)
  <2>1. v = [at |-> "replicating", body |-> w.body, expected |-> w.expected,
             writer |-> w.writer, issued_at |-> w.issued_at, index |-> Len(entries) + 1]
    BY <1>3, <1>7 DEF Carried
  <2>2. v \in Carried
    BY <1>1, <1>3, <2>1 DEF Carried
  <2> QED
    BY <1>3, <2>1, <2>2 DEF Permitted, IntentOf
<1>10. WriteTypes'
  <2>1. write' \in [WriteHandler -> Carried]
    BY <1>1, <1>8, <1>9
  <2>2. applied' \in 0..Len(entries')
    BY <1>1, <1>5
  <2> QED
    BY <1>1, <1>5, <2>1, <2>2 DEF WriteTypes
<1>11. CarriedInv'
  <2>1. /\ \A g \in WriteHandler : g # h => write'[g] = write[g]
        /\ write'[h] = v
    BY <1>1, <1>8
  <2>2. \A g \in WriteHandler : write[g].at # "replicating"
    BY DEF LockFree
  <2>3. write_books'.committed < Len(entries) + 1
    BY <1>1 DEF Books
  <2> QED
    BY <1>1, <1>9, <2>1, <2>2, <2>3 DEF CarriedInv
<1>13. Outstanding'
  <2>1. \A g \in WriteHandler : write'[g].at = "idle" <=> write[g].at = "idle"
    BY <1>1, <1>2, <1>3, <1>8, <1>9
  <2>2. Cardinality(Busy') = Cardinality(Busy) /\ IsFiniteSet(Busy')
    BY <1>1, <2>1, BusyStays
  <2> QED
    BY <1>1, <2>2 DEF Outstanding
<1>14. AnswersInv'
    BY <1>1, <1>5 DEF AnswersInv
<1>15. RevisionInv'
  <2>1. revision \in 1..applied => entries'[revision] = entries[revision]
    BY <1>5
  <2>2. /\ revision' = revision /\ applied' = applied
        /\ revision \in 0..applied /\ (revision # 0 => ~ IsNoop(entries[revision]))
    BY <1>1, <2>1 DEF RevisionInv
  <2>3. revision # 0 => ~ IsNoop(entries'[revision])
    <3>1. applied \in Nat
      BY DEF WritesInv, WriteTypes
    <3>2. revision # 0 => revision \in 1..applied
      BY <2>2, <3>1
    <3> QED
      BY <2>1, <2>2, <3>2
  <2> QED
    BY <2>2, <2>3 DEF RevisionInv
<1> QED
    BY <1>1, <1>5, <1>10, <1>11, <1>13, <1>14, <1>15 DEF WritesInv

LEMMA ProposeKeeps ==
    ASSUME WritesInv, NEW h \in WriteHandler, Propose(h)
    PROVE  WritesInv'
<1>1. write[h].at = "proposal_lock" /\ LockFree
    BY DEF Propose
<1>2. \/ Fails(h, "given_up") \/ Fails(h, "conflicts")
      \/ /\ fence_passes(write[h].expected, revision)
         /\ entries' = Append(entries, Entry(write[h], revision))
         /\ write' = [write EXCEPT ![h].at = "replicating", ![h].index = Len(entries')]
         /\ UNCHANGED <<required, applied, revision, write_books, answers>>
    BY DEF Propose
<1> QED
    BY <1>1, <1>2, FailsKeeps, AppendKeeps

LEMMA AcknowledgeKeeps ==
    ASSUME WritesInv, NEW h \in WriteHandler, Acknowledge(h)
    PROVE  WritesInv'
<1>1. /\ write[h].at = "replicating" /\ applied >= write[h].index /\ revision # 0
      /\ answers' = answers \cup {[revision |-> revision, body |-> entries[revision].body]}
      /\ write_books' = Count(write_books, "committed")
      /\ write' = [write EXCEPT ![h] = IdleWrite]
      /\ UNCHANGED <<required, entries, applied, revision>>
    BY DEF Acknowledge, record_committed, authenticate_configuration
<1>2. /\ WriteTypes /\ CarriedInv /\ EntriesInv /\ AnswersInv /\ RevisionInv
      /\ write \in [WriteHandler -> Carried] /\ entries \in Seq(LogEntry) /\ write_books \in Books
      /\ applied \in 0..Len(entries) /\ Len(entries) \in Nat /\ required \in BOOLEAN
    BY DEF WritesInv, WriteTypes
<1>3. /\ write_books.committed < write[h].index
      /\ \A g \in WriteHandler : write[g].at = "replicating" => g = h
    BY <1>1, <1>2 DEF CarriedInv
<1>4. write_books.committed \in Nat /\ write[h].index \in Nat
    BY <1>2 DEF Books, Carried
<1>5. /\ write_books.committed + 1 <= applied /\ revision \in 1..applied
      /\ entries[revision].body # NoBody
    BY <1>1, <1>2, <1>3, <1>4 DEF RevisionInv, IsNoop
<1>6. /\ write' \in [WriteHandler -> Carried] /\ write_books' \in Books
      /\ Outstanding' /\ CarriedInv'
      /\ write_books'.committed = write_books.committed + 1
    BY <1>1, <1>3, ClosingCounts
<1>7. AnswersInv'
    BY <1>1, <1>2, <1>5 DEF AnswersInv
<1>8. EntriesInv' /\ RevisionInv'
    BY <1>1, <1>2 DEF EntriesInv, RevisionInv
<1>9. WriteTypes' /\ write_books'.committed <= applied'
    BY <1>1, <1>2, <1>5, <1>6 DEF WriteTypes
<1> QED
    BY <1>6, <1>7, <1>8, <1>9 DEF WritesInv

LEMMA GiveUpKeeps ==
    ASSUME WritesInv, NEW h \in WriteHandler, GiveUp(h)
    PROVE  WritesInv'
BY FailsKeeps DEF GiveUp

\* The handlers and the books of a step that is not theirs.
LEMMA HandlersStay ==
    ASSUME WritesInv, UNCHANGED <<required, write, write_books>>
    PROVE  /\ write' \in [WriteHandler -> Carried] /\ write_books' \in Books /\ required' \in BOOLEAN
           /\ CarriedInv' /\ Outstanding'
<1>1. WriteTypes /\ CarriedInv /\ Outstanding
    BY DEF WritesInv
<1>2. CarriedInv'
    BY <1>1 DEF CarriedInv, Permitted, IntentOf
<1>3. Busy' = Busy
    BY DEF Busy
<1>4. Outstanding'
    BY <1>1, <1>3 DEF Outstanding
<1> QED
    BY <1>1, <1>2, <1>4 DEF WriteTypes

\* The log moves on: the applied part stays, and the revision is recomputed.
LEMMA LogMovesOn ==
    ASSUME WritesInv, UNCHANGED <<required, write, write_books, answers>>,
           entries' \in Seq(LogEntry), EntriesInv',
           \A i \in 1..applied : entries'[i] = entries[i],
           applied' \in applied..Len(entries'), applied' \in Nat,
           revision' \in Latest(entries', applied')
    PROVE  WritesInv'
<1>1. /\ applied \in 0..Len(entries) /\ Len(entries) \in Nat /\ write_books \in Books
      /\ write_books.committed <= applied /\ AnswersInv
    BY DEF WritesInv, WriteTypes
<1>2. RevisionInv'
    BY DEF Latest, RevisionInv
<1>3. AnswersInv'
    BY <1>1 DEF AnswersInv
<1>4. write_books'.committed <= applied' /\ applied' \in 0..Len(entries')
    BY <1>1 DEF Books
<1> QED
    BY <1>2, <1>3, <1>4, HandlersStay DEF WritesInv, WriteTypes

LEMMA CommitKeeps ==
    ASSUME WritesInv, CommitEntries
    PROVE  WritesInv'
<1>1. /\ applied' \in applied + 1 .. Len(entries) /\ revision' \in Latest(entries, applied')
      /\ UNCHANGED <<required, write, entries, write_books, answers>>
    BY DEF CommitEntries
<1>2. /\ applied \in 0..Len(entries) /\ Len(entries) \in Nat /\ entries \in Seq(LogEntry)
      /\ EntriesInv
    BY DEF WritesInv, WriteTypes
<1>3. EntriesInv'
    BY <1>1, <1>2 DEF EntriesInv
<1>4. applied' \in applied..Len(entries') /\ applied' \in Nat /\ revision' \in Latest(entries', applied')
    BY <1>1, <1>2
<1> QED
    BY <1>1, <1>2, <1>3, <1>4, LogMovesOn

LEMMA ElectedKeeps ==
    ASSUME WritesInv, Elected
    PROVE  WritesInv'
<1>1. /\ entries' = Append(entries, NoopEntry)
      /\ UNCHANGED <<required, write, applied, revision, write_books, answers>>
    BY DEF Elected
<1>2. /\ applied \in 0..Len(entries) /\ Len(entries) \in Nat /\ AnswersInv /\ RevisionInv
      /\ write_books.committed <= applied
    BY DEF WritesInv, WriteTypes
<1>3. PICK e : e = NoopEntry
    OBVIOUS
<1>4. e \in LogEntry /\ EntryFits(e, Len(entries) + 1, required)
  <2>1. Len(entries) + 1 \in Nat /\ 0 < Len(entries) + 1
    BY <1>2
  <2> QED
    BY <1>3, <2>1, NoopFits
<1>5. /\ entries' \in Seq(LogEntry) /\ Len(entries') = Len(entries) + 1 /\ EntriesInv'
      /\ \A i \in 1..applied : entries'[i] = entries[i]
    BY <1>1, <1>3, <1>4, LogIsAppended
<1>6. AnswersInv'
    BY <1>1, <1>2, <1>5 DEF AnswersInv
<1>8. RevisionInv'
  <2>1. revision \in 1..applied => entries'[revision] = entries[revision]
    BY <1>5
  <2>2. /\ revision' = revision /\ applied' = applied
        /\ revision \in 0..applied /\ (revision # 0 => ~ IsNoop(entries[revision]))
    BY <1>1, <1>2, <2>1 DEF RevisionInv
  <2>3. revision # 0 => ~ IsNoop(entries'[revision])
    <3>1. applied \in Nat
      BY DEF WritesInv, WriteTypes
    <3>2. revision # 0 => revision \in 1..applied
      BY <2>2, <3>1
    <3> QED
      BY <2>1, <2>2, <3>2
  <2> QED
    BY <2>2, <2>3 DEF RevisionInv
<1>7. applied' \in 0..Len(entries')
    BY <1>1, <1>2, <1>5
<1> QED
    BY <1>1, <1>2, <1>5, <1>6, <1>7, <1>8, HandlersStay DEF WritesInv, WriteTypes

\* The tail that another leader replaces was not committed: no answer spoke of it.
LEMMA FollowKeeps ==
    ASSUME WritesInv, Follow
    PROVE  WritesInv'
<1>1. /\ applied' \in applied..Len(entries') /\ revision' \in Latest(entries', applied')
      /\ UNCHANGED <<required, write, write_books, answers>>
    BY DEF Follow
<1>2. /\ applied \in 0..Len(entries) /\ Len(entries) \in Nat /\ entries \in Seq(LogEntry)
      /\ EntriesInv /\ required \in BOOLEAN
    BY DEF WritesInv, WriteTypes
<1>3. CASE entries' = entries
  <2>1. EntriesInv'
    BY <1>1, <1>2, <1>3 DEF EntriesInv
  <2>2. applied' \in Nat
    BY <1>1, <1>2, <1>3
  <2> QED
    BY <1>1, <1>2, <1>3, <2>1, <2>2, LogMovesOn
<1>4. CASE entries' # entries
  <2>1. PICK k \in applied..Len(entries) :
            \E e \in EntriesOfOthers(k + 1) : entries' = Append(SubSeq(entries, 1, k), e)
    BY <1>4 DEF Follow
  <2>7. PICK e \in EntriesOfOthers(k + 1) : entries' = Append(SubSeq(entries, 1, k), e)
    BY <2>1
  <2>2. k \in Nat /\ k + 1 \in Nat /\ 0 < k + 1
    BY <1>2
  <2>3. e \in LogEntry /\ EntryFits(e, k + 1, required)
    BY <1>2, <2>2, OthersFit
  <2>5. /\ entries' \in Seq(LogEntry) /\ Len(entries') = k + 1 /\ EntriesInv'
        /\ \A i \in 1..applied : entries'[i] = entries[i]
    BY <1>1, <2>3, <2>7, LogGrows
  <2>6. applied' \in Nat
    BY <1>1, <1>2, <2>2, <2>5
  <2> QED
    BY <1>1, <2>5, <2>6, LogMovesOn
<1> QED
    BY <1>3, <1>4

LEMMA WritesStart ==
    ASSUME WritesInit
    PROVE  WritesInv
<1>1. /\ write = [h \in WriteHandler |-> IdleWrite] /\ entries = <<>> /\ applied = 0
      /\ revision = 0
      /\ required \in BOOLEAN /\ answers = {}
      /\ write_books = [verified |-> 0, committed |-> 0, rejected |-> 0, conflicts |-> 0,
                        given_up |-> 0]
    BY DEF WritesInit
<1>2. /\ write \in [WriteHandler -> Carried]
      /\ \A h \in WriteHandler : write[h].at = "idle"
    BY <1>1, IdleIsCarried
<1>3. write_books \in Books
    BY <1>1 DEF Books
<1>4. WriteTypes /\ EntriesInv /\ RevisionInv /\ AnswersInv /\ CarriedInv
    BY <1>1, <1>2, <1>3 DEF WriteTypes, EntriesInv, RevisionInv, AnswersInv, CarriedInv
<1>5. Busy = {}
    BY <1>2 DEF Busy
<1>6. IsFiniteSet(Busy) /\ Cardinality(Busy) = 0
    BY <1>5, FS_EmptySet
<1> QED
    BY <1>1, <1>4, <1>6 DEF WritesInv, Outstanding

LEMMA WritesStep ==
    ASSUME WritesInv, [WritesNext]_writeVars
    PROVE  WritesInv'
<1>1. ASSUME UNCHANGED <<required, write, entries, applied, revision, write_books, answers>>
      PROVE  WritesInv'
  <2>1. /\ EntriesInv' /\ RevisionInv' /\ AnswersInv' /\ entries' \in Seq(LogEntry)
        /\ applied' \in 0..Len(entries')
    BY <1>1, LogStays
  <2>2. write_books'.committed <= applied'
    BY <1>1 DEF WritesInv
  <2> QED
    BY <1>1, <2>1, <2>2, HandlersStay DEF WritesInv, WriteTypes
<1>2. CASE LoseLeadership \/ WriteClockTicks \/ UNCHANGED writeVars
    BY <1>1, <1>2 DEF LoseLeadership, WriteClockTicks, writeVars
<1>3. CASE \E h \in WriteHandler : Submit(h) \/ Propose(h) \/ Acknowledge(h) \/ GiveUp(h)
    BY <1>3, SubmitKeeps, ProposeKeeps, AcknowledgeKeeps, GiveUpKeeps
<1> QED
    BY <1>2, <1>3, ElectedKeeps, CommitKeeps, FollowKeeps DEF WritesNext

LEMMA WritesMeans ==
    ASSUME WritesInv
    PROVE  WritesHold
<1>1. /\ WriteTypes /\ EntriesInv /\ Outstanding /\ AnswersInv
      /\ write_books.committed <= applied
    BY DEF WritesInv
<1>2. WritesAreAuthorized
    BY <1>1 DEF WritesAreAuthorized, EntriesInv, EntryFits, Permitted, IntentOf
<1>3. AppliedIsNotReplayed
  <2>1. ASSUME NEW i \in DOMAIN entries, NEW j \in DOMAIN entries, i < j,
               SameIntent(entries[i], entries[j])
        PROVE  entries[j].after < i
    <3>1. PICK d, e : d = entries[i] /\ e = entries[j]
      OBVIOUS
    <3>2. d \in LogEntry /\ e \in LogEntry
      BY <1>1, <3>1 DEF WriteTypes
    <3>3. d.writer # NoWriter /\ d.writer = e.writer /\ d.expected = e.expected
      <4>1. PICK c, f : c = Entry(d, NoIndex) /\ f = Entry(e, NoIndex)
        OBVIOUS
      <4>2. /\ c.writer = d.writer /\ c.expected = d.expected
            /\ f.writer = e.writer /\ f.expected = e.expected
        BY <4>1 DEF Entry
      <4>3. c = f /\ d.writer # NoWriter
        BY <2>1, <3>1, <4>1 DEF SameIntent
      <4> QED
        BY <4>2, <4>3
    <3>4. d.after < i /\ d.expected = d.after /\ e.expected = e.after
      BY <1>1, <2>1, <3>1, <3>3 DEF EntriesInv, EntryFits
    <3> QED
      BY <3>1, <3>3, <3>4
  <2> QED
    BY <2>1 DEF AppliedIsNotReplayed
<1>4. BooksFitTheLog
    BY <1>1 DEF BooksFitTheLog, Outstanding, Busy
<1>5. AnswersStand
    BY <1>1 DEF AnswersStand, AnswersInv, WriteTypes
<1> QED
    BY <1>2, <1>3, <1>4, <1>5 DEF WritesHold

\* The control plane's signed writes, for any writers, intents, handlers and lengths of
\* the log, through elections and other leaders' entries: where writes must be signed,
\* every configuration of the log was signed by a trusted writer for this cluster; a
\* leader that has applied an intent does not append it again; the books fit the log;
\* and an answered configuration stands (authorize, write_configuration_with_fence,
\* handle_append_entries).
THEOREM WritesAreHonest == WritesSpec => []WritesHold
<1>1. WritesInit => WritesInv
    BY WritesStart
<1>2. WritesInv /\ [WritesNext]_writeVars => WritesInv'
    BY WritesStep
<1>3. WritesInv => WritesHold
    BY WritesMeans
<1> QED
    BY <1>1, <1>2, <1>3, PTL DEF WritesSpec

-----------------------------------------------------------------------------
(* The proxy of a link between control nodes.                                *)

EventName == {"started", "mode_changed", "request_dropped", "upstream_failure"}
ReadMode == LinkMode \cup {"none"}
Line == [sequence : Nat, event : EventName, mode : ReadMode]
RaftCalls == [RaftCall -> [phase : {"new", "dropping", "body", "sent", "failing", "over"},
                           mode : ReadMode]]

ModeLines == Positions("started") \cup Positions("mode_changed")
Dropping == {c \in RaftCall : raft_call[c].phase = "dropping"}

LinkTypes ==
    /\ link_mode \in LinkMode /\ torn \in BOOLEAN
    /\ mode_changes \in Nat /\ dropped_requests \in Nat
    /\ journal \in Seq(Line) /\ next_sequence \in Nat
    /\ raft_call \in RaftCalls

\* The lines are in order, below the next number, and never more than were written.
LinesInv ==
    /\ Len(journal) \in 1..(next_sequence - 1)
    /\ journal[1].event = "started"
    /\ \A i \in 1..Len(journal) : journal[i].sequence < next_sequence
    /\ \A i, j \in 1..Len(journal) : i < j => journal[i].sequence < journal[j].sequence

\* Nothing was lost: there are as many lines as numbers given.
Whole == Len(journal) = next_sequence - 1

LastMode == \E i \in ModeLines : journal[i].mode = link_mode /\ \A j \in ModeLines : j <= i
ChangesCounted == mode_changes = Cardinality(Positions("mode_changed"))
LinesExplained ==
    \A i \in (1..Len(journal)) \ ModeLines :
        \E j \in ModeLines : j < i /\ journal[j].mode = journal[i].mode
CallsExplained ==
    \A c \in RaftCall : raft_call[c].phase # "new" =>
        \E j \in ModeLines : journal[j].mode = raft_call[c].mode
\* A drop is counted before its line is written.
DropsCounted ==
    /\ IsFiniteSet(Dropping)
    /\ Cardinality(Positions("request_dropped")) + Cardinality(Dropping) <= dropped_requests

LinkInv ==
    /\ LinkTypes /\ LinesInv
    /\ Whole => LastMode /\ ChangesCounted /\ LinesExplained /\ CallsExplained /\ DropsCounted

LEMMA PositionsAre ==
    ASSUME LinkTypes, NEW x
    PROVE  /\ Positions(x) \subseteq 1..Len(journal)
           /\ IsFiniteSet(Positions(x)) /\ Cardinality(Positions(x)) \in Nat
<1>1. Positions(x) \subseteq 1..Len(journal) /\ Len(journal) \in Nat
    BY DEF Positions, LinkTypes
<1>2. IsFiniteSet(1..Len(journal))
    BY <1>1, FS_Interval
<1> QED
    BY <1>1, <1>2, FS_Subset, FS_CardinalityType

\* A line at the end of the journal.
LEMMA LineWritten ==
    ASSUME LinkTypes, LinesInv, NEW e \in Line, e.sequence = next_sequence,
           journal' = Append(journal, e), next_sequence' = next_sequence + 1
    PROVE  /\ LinesInv' /\ journal' \in Seq(Line) /\ next_sequence' \in Nat
           /\ Len(journal') = Len(journal) + 1 /\ journal'[Len(journal) + 1] = e
           /\ \A i \in 1..Len(journal) : journal'[i] = journal[i]
           /\ Whole' => Whole
<1>1. /\ journal \in Seq(Line) /\ next_sequence \in Nat /\ Len(journal) \in Nat
      /\ Len(journal) >= 1 /\ Len(journal) <= next_sequence - 1
    BY DEF LinkTypes, LinesInv
<1>2. /\ journal' \in Seq(Line) /\ next_sequence' \in Nat
      /\ Len(journal') = Len(journal) + 1 /\ journal'[Len(journal) + 1] = e
      /\ \A i \in 1..Len(journal) : journal'[i] = journal[i]
    BY <1>1
<1>3. \A i \in 1..Len(journal) : journal[i].sequence \in Nat
  <2>1. \A i \in 1..Len(journal) : journal[i] \in Line
    BY <1>1
  <2> QED
    BY <2>1 DEF Line
<1>4. \A i \in 1..Len(journal') : i \in 1..Len(journal) \/ i = Len(journal) + 1
    BY <1>1, <1>2
<1>5. \A i \in 1..Len(journal') : journal'[i].sequence < next_sequence'
    BY <1>1, <1>2, <1>3, <1>4 DEF LinesInv
<1>6. \A i, j \in 1..Len(journal') : i < j => journal'[i].sequence < journal'[j].sequence
    BY <1>1, <1>2, <1>3, <1>4 DEF LinesInv
<1>7. journal'[1].event = "started"
    BY <1>1, <1>2 DEF LinesInv
<1>8. Len(journal') \in 1..(next_sequence' - 1)
    BY <1>1, <1>2
<1>9. Whole' => Whole
    BY <1>1, <1>2 DEF Whole
<1> QED
    BY <1>2, <1>5, <1>6, <1>7, <1>8, <1>9 DEF LinesInv

LEMMA PositionsGrow ==
    ASSUME LinkTypes, LinesInv, NEW e \in Line, e.sequence = next_sequence,
           journal' = Append(journal, e), next_sequence' = next_sequence + 1, NEW x
    PROVE  /\ e.event = x => /\ Positions(x)' = Positions(x) \cup {Len(journal) + 1}
                             /\ Cardinality(Positions(x)') = Cardinality(Positions(x)) + 1
           /\ e.event # x => Positions(x)' = Positions(x)
<1>1. /\ Len(journal') = Len(journal) + 1 /\ journal'[Len(journal) + 1] = e
      /\ \A i \in 1..Len(journal) : journal'[i] = journal[i]
      /\ journal' \in Seq(Line)
    BY LineWritten
<1>2. /\ journal \in Seq(Line) /\ Len(journal) \in Nat
    BY DEF LinkTypes
<1>3. DOMAIN journal' = (1..Len(journal)) \cup {Len(journal) + 1} /\ DOMAIN journal = 1..Len(journal)
    BY <1>1, <1>2
<1>4. e.event = x => Positions(x)' = Positions(x) \cup {Len(journal) + 1}
    BY <1>1, <1>3 DEF Positions
<1>5. e.event # x => Positions(x)' = Positions(x)
    BY <1>1, <1>3 DEF Positions
<1>6. Len(journal) + 1 \notin Positions(x)
    BY <1>2, PositionsAre
<1>7. e.event = x => Cardinality(Positions(x)') = Cardinality(Positions(x)) + 1
    BY <1>4, <1>6, PositionsAre, FS_AddElement
<1> QED
    BY <1>4, <1>5, <1>7

\* A line that is lost with the half line before it: a number has no line from now on.
LEMMA LineLost ==
    ASSUME LinkTypes, LinesInv, journal' = journal, next_sequence' = next_sequence + 1
    PROVE  LinesInv' /\ journal' \in Seq(Line) /\ next_sequence' \in Nat /\ ~ Whole'
<1>1. /\ journal \in Seq(Line) /\ next_sequence \in Nat /\ Len(journal) \in Nat
      /\ Len(journal) >= 1 /\ Len(journal) <= next_sequence - 1
    BY DEF LinkTypes, LinesInv
<1>2. \A i \in 1..Len(journal) : journal[i].sequence \in Nat
  <2>1. \A i \in 1..Len(journal) : journal[i] \in Line
    BY <1>1
  <2> QED
    BY <2>1 DEF Line
<1>3. LinesInv'
    BY <1>1, <1>2 DEF LinesInv
<1> QED
    BY <1>1, <1>3 DEF Whole

\* What a call's step, or a change of the mode, does to the journal.
Journals(event, mode) ==
    \/ /\ journal' = Append(journal, Event(next_sequence, event, mode))
       /\ next_sequence' = next_sequence + 1
    \/ journal' = journal /\ next_sequence' = next_sequence + 1
    \/ journal' = journal /\ next_sequence' = next_sequence

LEMMA RecordJournals ==
    ASSUME NEW event, NEW mode, Recorded(event, mode) \/ RecordFails, torn \in BOOLEAN
    PROVE  Journals(event, mode) /\ torn' \in BOOLEAN
BY DEF Recorded, RecordFails, Journals

LEMMA EventIsLine ==
    ASSUME LinkTypes, NEW event \in EventName, NEW mode \in ReadMode,
           NEW e, e = Event(next_sequence, event, mode)
    PROVE  e \in Line /\ e.sequence = next_sequence /\ e.event = event /\ e.mode = mode
BY DEF LinkTypes, Event, Line

LEMMA JournalsKeepLines ==
    ASSUME LinkTypes, LinesInv, NEW event \in EventName, NEW mode \in ReadMode,
           Journals(event, mode)
    PROVE  LinesInv' /\ journal' \in Seq(Line) /\ next_sequence' \in Nat /\ (Whole' => Whole)
<1>1. CASE /\ journal' = Append(journal, Event(next_sequence, event, mode))
           /\ next_sequence' = next_sequence + 1
    BY <1>1, EventIsLine, LineWritten
<1>2. CASE journal' = journal /\ next_sequence' = next_sequence + 1
    BY <1>2, LineLost
<1>3. CASE journal' = journal /\ next_sequence' = next_sequence
    BY <1>3 DEF LinesInv, LinkTypes, Whole
<1> QED
    BY <1>1, <1>2, <1>3 DEF Journals

\* What a call read stays explained, whatever is written.
LEMMA StillExplained ==
    ASSUME LinkTypes, LinesInv, NEW event \in EventName, NEW mode \in ReadMode,
           Journals(event, mode), Whole'
    PROVE  /\ ModeLines \subseteq ModeLines'
           /\ \A j \in ModeLines : journal'[j] = journal[j]
<1>1. ModeLines \subseteq 1..Len(journal)
    BY PositionsAre DEF ModeLines
<1>2. CASE /\ journal' = Append(journal, Event(next_sequence, event, mode))
           /\ next_sequence' = next_sequence + 1
  <2>1. PICK e : e = Event(next_sequence, event, mode)
    OBVIOUS
  <2>2. e \in Line /\ e.sequence = next_sequence /\ journal' = Append(journal, e)
    BY <1>2, <2>1, EventIsLine
  <2>3. \A i \in 1..Len(journal) : journal'[i] = journal[i]
    BY <1>2, <2>2, LineWritten
  <2>4. Positions("started") \subseteq Positions("started")'
    BY <1>2, <2>2, PositionsGrow
  <2>5. Positions("mode_changed") \subseteq Positions("mode_changed")'
    BY <1>2, <2>2, PositionsGrow
  <2> QED
    BY <1>1, <2>3, <2>4, <2>5 DEF ModeLines
<1>3. CASE journal' = journal
    BY <1>3 DEF ModeLines, Positions
<1> QED
    BY <1>2, <1>3 DEF Journals

LEMMA LineExplained ==
    ASSUME LinkTypes, LinesInv, NEW event \in EventName, NEW mode \in ReadMode,
           Journals(event, mode), Whole', LinesExplained,
           event # "mode_changed" => \E j \in ModeLines : journal[j].mode = mode
    PROVE  LinesExplained'
<1>1. ModeLines \subseteq 1..Len(journal) /\ Len(journal) \in Nat
    BY PositionsAre DEF ModeLines, LinkTypes
<1>2. ModeLines \subseteq ModeLines' /\ \A j \in ModeLines : journal'[j] = journal[j]
    BY StillExplained
<1>3. CASE /\ journal' = Append(journal, Event(next_sequence, event, mode))
           /\ next_sequence' = next_sequence + 1
  <2>1. PICK e : e = Event(next_sequence, event, mode)
    OBVIOUS
  <2>2. /\ e \in Line /\ e.sequence = next_sequence /\ journal' = Append(journal, e)
        /\ e.event = event /\ e.mode = mode
    BY <1>3, <2>1, EventIsLine
  <2>3. /\ Len(journal') = Len(journal) + 1 /\ journal'[Len(journal) + 1] = e
        /\ \A i \in 1..Len(journal) : journal'[i] = journal[i]
    BY <1>3, <2>2, LineWritten
  <2>4. event = "mode_changed" => Len(journal) + 1 \in ModeLines'
    <3>1. e.event = "mode_changed" =>
            Positions("mode_changed")' = Positions("mode_changed") \cup {Len(journal) + 1}
      BY <1>3, <2>2, PositionsGrow
    <3> QED
      BY <2>2, <3>1 DEF ModeLines
  <2>5. ASSUME NEW i \in (1..Len(journal')) \ ModeLines'
        PROVE  \E j \in ModeLines' : j < i /\ journal'[j].mode = journal'[i].mode
    <3>1. CASE i \in 1..Len(journal)
      <4>1. i \in (1..Len(journal)) \ ModeLines
        BY <1>2, <2>5, <3>1
      <4>2. PICK j \in ModeLines : j < i /\ journal[j].mode = journal[i].mode
        BY <4>1 DEF LinesExplained
      <4> QED
        BY <1>2, <2>3, <3>1, <4>2
    <3>2. CASE i = Len(journal) + 1
      <4>1. PICK j \in ModeLines : journal[j].mode = mode
        BY <2>4, <2>5, <3>2
      <4>2. j < i
        BY <1>1, <3>2
      <4>3. journal'[i].mode = mode
        BY <2>2, <2>3, <3>2
      <4> QED
        BY <1>2, <4>1, <4>2, <4>3
    <3> QED
      BY <1>1, <2>3, <2>5, <3>1, <3>2
  <2> QED
    BY <2>5 DEF LinesExplained
<1>4. CASE journal' = journal
    BY <1>4 DEF LinesExplained, ModeLines, Positions
<1> QED
    BY <1>3, <1>4 DEF Journals

\* A request's line, written, lost or not written, leaves what the journal says
\* of the mode alone.
LEMMA RequestLine ==
    ASSUME LinkTypes, LinesInv, NEW event \in {"request_dropped", "upstream_failure"},
           NEW mode \in ReadMode, Journals(event, mode), Whole',
           UNCHANGED <<link_mode, mode_changes>>, LastMode, ChangesCounted
    PROVE  LastMode' /\ ChangesCounted' /\ ModeLines' = ModeLines
<1>0. event \in EventName
    BY DEF EventName
<1>1. /\ Positions("started")' = Positions("started")
      /\ Positions("mode_changed")' = Positions("mode_changed")
  <2>1. CASE /\ journal' = Append(journal, Event(next_sequence, event, mode))
             /\ next_sequence' = next_sequence + 1
    <3>1. PICK e : e = Event(next_sequence, event, mode)
      OBVIOUS
    <3>2. /\ e \in Line /\ e.sequence = next_sequence /\ journal' = Append(journal, e)
          /\ e.event = event
      BY <1>0, <2>1, <3>1, EventIsLine
    <3>3. e.event # "started" => Positions("started")' = Positions("started")
      BY <2>1, <3>2, PositionsGrow
    <3>4. e.event # "mode_changed" => Positions("mode_changed")' = Positions("mode_changed")
      BY <2>1, <3>2, PositionsGrow
    <3> QED
      BY <3>2, <3>3, <3>4
  <2>2. CASE journal' = journal
    BY <2>2 DEF Positions
  <2> QED
    BY <2>1, <2>2 DEF Journals
<1>2. ModeLines' = ModeLines
    BY <1>1 DEF ModeLines
<1>3. \A j \in ModeLines : journal'[j] = journal[j]
    BY <1>0, StillExplained
<1>4. LastMode'
    BY <1>2, <1>3 DEF LastMode
<1>5. ChangesCounted'
    BY <1>1 DEF ChangesCounted
<1> QED
    BY <1>2, <1>4, <1>5

\* The journal and the mode are left alone.
LEMMA JournalStays ==
    ASSUME LinkInv, UNCHANGED <<link_mode, mode_changes, journal, next_sequence, torn>>
    PROVE  /\ LinesInv' /\ (Whole' => Whole)
           /\ Whole => LastMode' /\ ChangesCounted' /\ LinesExplained'
           /\ \A x : Positions(x)' = Positions(x)
           /\ ModeLines' = ModeLines
<1>1. \A x : Positions(x)' = Positions(x)
    BY DEF Positions
<1>2. ModeLines' = ModeLines
    BY <1>1 DEF ModeLines
<1>3. LinesInv' /\ (Whole' <=> Whole)
    BY DEF LinkInv, LinesInv, Whole
<1>4. Whole => LastMode' /\ ChangesCounted' /\ LinesExplained'
    BY <1>1, <1>2 DEF LinkInv, LastMode, ChangesCounted, LinesExplained
<1> QED
    BY <1>1, <1>2, <1>3, <1>4

\* A call goes from one phase to another.
LEMMA CallMoves ==
    ASSUME LinkTypes, NEW c \in RaftCall,
           NEW reached \in {"new", "dropping", "body", "sent", "failing", "over"},
           NEW mode \in ReadMode,
           raft_call' = [raft_call EXCEPT ![c] = [phase |-> reached, mode |-> mode]]
    PROVE  /\ raft_call' \in RaftCalls
           /\ raft_call'[c].phase = reached /\ raft_call'[c].mode = mode
           /\ \A d \in RaftCall : d # c => raft_call'[d] = raft_call[d]
BY DEF LinkTypes, RaftCalls

LEMMA MovesIs ==
    ASSUME LinkTypes, NEW c \in RaftCall, NEW reached, Moves(c, reached)
    PROVE  /\ raft_call' = [raft_call EXCEPT ![c] = [phase |-> reached, mode |-> raft_call[c].mode]]
           /\ raft_call[c].mode \in ReadMode
<1>1. raft_call[c] \in [phase : {"new", "dropping", "body", "sent", "failing", "over"},
                        mode : ReadMode]
    BY DEF LinkTypes, RaftCalls
<1>2. PICK m : m = raft_call[c]
    OBVIOUS
<1>3. [m EXCEPT !.phase = reached] = [phase |-> reached, mode |-> m.mode]
    BY <1>1, <1>2
<1>4. raft_call' = [raft_call EXCEPT ![c] = [m EXCEPT !.phase = reached]]
    BY <1>2 DEF Moves
<1> QED
    BY <1>1, <1>2, <1>3, <1>4

LEMMA DroppingGrows ==
    ASSUME IsFiniteSet(Dropping), NEW c \in RaftCall, raft_call[c].phase # "dropping",
           raft_call'[c].phase = "dropping",
           \A d \in RaftCall : d # c => raft_call'[d] = raft_call[d]
    PROVE  /\ IsFiniteSet(Dropping') /\ Cardinality(Dropping) \in Nat
           /\ Cardinality(Dropping') = Cardinality(Dropping) + 1
<1>1. Dropping' = Dropping \cup {c} /\ c \notin Dropping
    BY DEF Dropping
<1> QED
    BY <1>1, FS_AddElement, FS_CardinalityType

LEMMA DroppingShrinks ==
    ASSUME IsFiniteSet(Dropping), NEW c \in RaftCall, raft_call[c].phase = "dropping",
           raft_call'[c].phase # "dropping",
           \A d \in RaftCall : d # c => raft_call'[d] = raft_call[d]
    PROVE  /\ IsFiniteSet(Dropping') /\ Cardinality(Dropping') \in Nat
           /\ Cardinality(Dropping) = Cardinality(Dropping') + 1
<1>1. Dropping' = Dropping \ {c} /\ c \in Dropping
    BY DEF Dropping
<1>2. IsFiniteSet(Dropping') /\ Cardinality(Dropping') = Cardinality(Dropping) - 1
    BY <1>1, FS_RemoveElement
<1>3. Cardinality(Dropping) \in Nat /\ Cardinality(Dropping') \in Nat
    BY <1>2, FS_CardinalityType
<1> QED
    BY <1>2, <1>3

LEMMA DroppingStays ==
    ASSUME IsFiniteSet(Dropping), NEW c \in RaftCall, raft_call[c].phase # "dropping",
           raft_call'[c].phase # "dropping",
           \A d \in RaftCall : d # c => raft_call'[d] = raft_call[d]
    PROVE  Dropping' = Dropping /\ Cardinality(Dropping) \in Nat
<1>1. Dropping' = Dropping
    BY DEF Dropping
<1> QED
    BY <1>1, FS_CardinalityType

\* A call that writes nothing and does not read the mode.
LEMMA QuietStep ==
    ASSUME LinkInv, NEW c \in RaftCall, NEW reached \in {"sent", "over", "failing"},
           raft_call[c].phase \in {"body", "sent"}, Moves(c, reached),
           UNCHANGED <<link_mode, mode_changes, dropped_requests, journal, next_sequence, torn>>
    PROVE  LinkInv'
<1>1. /\ raft_call' \in RaftCalls /\ raft_call'[c].phase = reached
      /\ raft_call'[c].mode = raft_call[c].mode
      /\ \A d \in RaftCall : d # c => raft_call'[d] = raft_call[d]
  <2>1. LinkTypes
    BY DEF LinkInv
  <2> QED
    BY <2>1, MovesIs, CallMoves
<1>2. /\ LinesInv' /\ (Whole' => Whole)
      /\ Whole => LastMode' /\ ChangesCounted' /\ LinesExplained'
      /\ Positions("request_dropped")' = Positions("request_dropped")
      /\ ModeLines' = ModeLines
    BY JournalStays
<1>3. ASSUME Whole PROVE CallsExplained'
    BY <1>1, <1>2, <1>3 DEF LinkInv, CallsExplained
<1>4. ASSUME Whole PROVE DropsCounted'
  <2>1. DropsCounted
    BY <1>4 DEF LinkInv
  <2>2. Dropping' = Dropping
    BY <1>1, <2>1, DroppingStays DEF DropsCounted
  <2> QED
    BY <1>2, <2>1, <2>2 DEF DropsCounted
<1>5. LinkTypes'
    BY <1>1 DEF LinkInv, LinkTypes
<1> QED
    BY <1>2, <1>3, <1>4, <1>5 DEF LinkInv

LEMMA ReadsModeKeeps ==
    ASSUME LinkInv, NEW c \in RaftCall, ForwardReadsMode(c)
    PROVE  LinkInv'
<1>1. LinkTypes /\ LinesInv /\ link_mode \in ReadMode
    BY DEF LinkInv, LinkTypes, ReadMode
<1>2. PICK reached : reached = IF link_mode = "drop" THEN "dropping" ELSE "body"
    OBVIOUS
<1>3. /\ raft_call[c].phase = "new"
      /\ raft_call' = [raft_call EXCEPT ![c] = [phase |-> reached, mode |-> link_mode]]
      /\ dropped_requests' = dropped_requests + (IF link_mode = "drop" THEN 1 ELSE 0)
      /\ UNCHANGED <<link_mode, mode_changes, journal, next_sequence, torn>>
    BY <1>2 DEF ForwardReadsMode, journalVars
<1>4. /\ raft_call' \in RaftCalls /\ raft_call'[c].phase = reached /\ raft_call'[c].mode = link_mode
      /\ \A d \in RaftCall : d # c => raft_call'[d] = raft_call[d]
    BY <1>1, <1>2, <1>3, CallMoves
<1>5. /\ LinesInv' /\ (Whole' => Whole)
      /\ Whole => LastMode' /\ ChangesCounted' /\ LinesExplained'
      /\ Positions("request_dropped")' = Positions("request_dropped")
      /\ ModeLines' = ModeLines
    BY <1>3, JournalStays
<1>6. ASSUME Whole PROVE CallsExplained'
  <2>1. \E j \in ModeLines : journal[j].mode = link_mode
    BY <1>6 DEF LinkInv, LastMode
  <2>2. CallsExplained
    BY <1>6 DEF LinkInv
  <2> QED
    BY <1>3, <1>4, <1>5, <2>1, <2>2 DEF CallsExplained
<1>7. ASSUME Whole PROVE DropsCounted'
  <2>1. DropsCounted /\ dropped_requests \in Nat
    BY <1>1, <1>7 DEF LinkInv, LinkTypes
  <2>2. Cardinality(Positions("request_dropped")) \in Nat
    BY <1>1, PositionsAre
  <2>3. CASE link_mode = "drop"
    <3>1. /\ IsFiniteSet(Dropping') /\ Cardinality(Dropping) \in Nat
          /\ Cardinality(Dropping') = Cardinality(Dropping) + 1
      BY <1>2, <1>3, <1>4, <2>1, <2>3, DroppingGrows DEF DropsCounted
    <3> QED
      BY <1>3, <1>5, <2>1, <2>2, <2>3, <3>1 DEF DropsCounted
  <2>4. CASE link_mode # "drop"
    <3>1. Dropping' = Dropping
      BY <1>2, <1>3, <1>4, <2>1, <2>4, DroppingStays DEF DropsCounted
    <3> QED
      BY <1>3, <1>5, <2>1, <2>4, <3>1 DEF DropsCounted
  <2> QED
    BY <2>3, <2>4
<1>8. LinkTypes'
  <2>1. dropped_requests' \in Nat
    BY <1>1, <1>3 DEF LinkTypes
  <2> QED
    BY <1>1, <1>3, <1>4, <2>1 DEF LinkTypes
<1> QED
    BY <1>5, <1>6, <1>7, <1>8 DEF LinkInv

\* A call that is over tells the journal, and goes on whether it could or not.
LEMMA ReportKeeps ==
    ASSUME LinkInv, NEW c \in RaftCall, NEW event \in {"request_dropped", "upstream_failure"},
           \/ raft_call[c].phase = "dropping"
           \/ raft_call[c].phase = "failing" /\ event = "upstream_failure",
           record_request_event(c, event), Moves(c, "over"),
           UNCHANGED <<link_mode, mode_changes, dropped_requests>>
    PROVE  LinkInv'
<1>1. LinkTypes /\ LinesInv /\ event \in EventName /\ torn \in BOOLEAN
    BY DEF LinkInv, LinkTypes, EventName
<1>2. PICK mode : mode = raft_call[c].mode
    OBVIOUS
<1>3. /\ raft_call' \in RaftCalls /\ raft_call'[c].phase = "over" /\ raft_call'[c].mode = mode
      /\ \A d \in RaftCall : d # c => raft_call'[d] = raft_call[d]
      /\ mode \in ReadMode
    BY <1>1, <1>2, MovesIs, CallMoves
<1>4. Journals(event, mode) /\ torn' \in BOOLEAN
    BY <1>1, <1>2, RecordJournals DEF record_request_event
<1>5. LinesInv' /\ journal' \in Seq(Line) /\ next_sequence' \in Nat /\ (Whole' => Whole)
    BY <1>1, <1>3, <1>4, JournalsKeepLines
<1>6. LinkTypes'
    BY <1>1, <1>3, <1>4, <1>5 DEF LinkTypes
<1>7. ASSUME Whole'
      PROVE  LastMode' /\ ChangesCounted' /\ LinesExplained' /\ CallsExplained' /\ DropsCounted'
  <2>1. LastMode /\ ChangesCounted /\ LinesExplained /\ CallsExplained /\ DropsCounted
    BY <1>5, <1>7 DEF LinkInv
  <2>2. LastMode' /\ ChangesCounted' /\ ModeLines' = ModeLines
    BY <1>1, <1>3, <1>4, <1>7, <2>1, RequestLine
  <2>3. \E j \in ModeLines : journal[j].mode = mode
    BY <1>2, <2>1 DEF CallsExplained
  <2>4. LinesExplained'
    BY <1>1, <1>3, <1>4, <1>7, <2>1, <2>3, LineExplained
  <2>5. \A j \in ModeLines : journal'[j] = journal[j]
    BY <1>1, <1>3, <1>4, <1>7, StillExplained
  <2>6. CallsExplained'
    BY <1>2, <1>3, <2>1, <2>2, <2>5 DEF CallsExplained
  <2>7. DropsCounted'
    <3>1. /\ Cardinality(Positions("request_dropped")) \in Nat /\ dropped_requests \in Nat
          /\ Cardinality(Dropping) \in Nat
      BY <1>1, <2>1, PositionsAre, FS_CardinalityType DEF LinkTypes, DropsCounted
    <3>2. \/ Positions("request_dropped")' = Positions("request_dropped")
          \/ /\ event = "request_dropped"
             /\ Cardinality(Positions("request_dropped")')
                    = Cardinality(Positions("request_dropped")) + 1
      <4>1. CASE /\ journal' = Append(journal, Event(next_sequence, event, mode))
                 /\ next_sequence' = next_sequence + 1
        <5>1. PICK e : e = Event(next_sequence, event, mode)
          OBVIOUS
        <5>2. /\ e \in Line /\ e.sequence = next_sequence /\ journal' = Append(journal, e)
              /\ e.event = event
          BY <1>1, <1>3, <4>1, <5>1, EventIsLine
        <5> QED
          BY <1>1, <4>1, <5>2, PositionsGrow
      <4>2. CASE journal' = journal
        BY <4>2 DEF Positions
      <4> QED
        BY <1>4, <4>1, <4>2 DEF Journals
    <3>3. CASE raft_call[c].phase = "dropping"
      <4>1. /\ IsFiniteSet(Dropping') /\ Cardinality(Dropping') \in Nat
            /\ Cardinality(Dropping) = Cardinality(Dropping') + 1
        BY <1>3, <2>1, <3>3, DroppingShrinks DEF DropsCounted
      <4> QED
        BY <2>1, <3>1, <3>2, <4>1 DEF DropsCounted
    <3>4. CASE raft_call[c].phase = "failing" /\ event = "upstream_failure"
      <4>1. Dropping' = Dropping
        BY <1>3, <2>1, <3>4, DroppingStays DEF DropsCounted
      <4>2. Positions("request_dropped")' = Positions("request_dropped")
        BY <3>2, <3>4
      <4> QED
        BY <2>1, <4>1, <4>2 DEF DropsCounted
    <3> QED
      BY <3>3, <3>4
  <2> QED
    BY <2>2, <2>4, <2>6, <2>7
<1> QED
    BY <1>5, <1>6, <1>7 DEF LinkInv

LEMMA ChangeIsLast ==
    ASSUME LinkInv, NEW mode \in LinkMode, Journals("mode_changed", mode), Whole',
           journal' = Append(journal, Event(next_sequence, "mode_changed", mode)),
           next_sequence' = next_sequence + 1,
           link_mode' = mode, mode_changes' = mode_changes + 1
    PROVE  LastMode' /\ ChangesCounted'
           /\ Positions("request_dropped")' = Positions("request_dropped")
<1>1. /\ LinkTypes /\ LinesInv /\ "mode_changed" \in EventName /\ mode \in ReadMode
      /\ Len(journal) \in Nat
    BY DEF LinkInv, LinkTypes, EventName, ReadMode
<1>2. PICK e : e = Event(next_sequence, "mode_changed", mode)
    OBVIOUS
<1>3. /\ e \in Line /\ e.sequence = next_sequence /\ journal' = Append(journal, e)
      /\ e.event = "mode_changed" /\ e.mode = mode
    BY <1>1, <1>2, EventIsLine
<1>4. /\ Len(journal') = Len(journal) + 1 /\ journal'[Len(journal) + 1] = e
      /\ Whole
    BY <1>1, <1>3, LineWritten
<1>5. /\ Positions("mode_changed")' = Positions("mode_changed") \cup {Len(journal) + 1}
      /\ Cardinality(Positions("mode_changed")') = Cardinality(Positions("mode_changed")) + 1
    BY <1>1, <1>3, PositionsGrow
<1>6. Positions("started")' = Positions("started")
    BY <1>1, <1>3, PositionsGrow
<1>7. Positions("request_dropped")' = Positions("request_dropped")
    BY <1>1, <1>3, PositionsGrow
<1>8. ModeLines' = ModeLines \cup {Len(journal) + 1}
    BY <1>5, <1>6 DEF ModeLines
<1>9. \A j \in ModeLines : j \in 1..Len(journal)
    BY <1>1, PositionsAre DEF ModeLines
<1>10. LastMode'
  <2>1. \A j \in ModeLines' : j <= Len(journal) + 1
    BY <1>1, <1>8, <1>9
  <2> QED
    BY <1>3, <1>4, <1>8, <2>1 DEF LastMode
<1>11. ChangesCounted'
    BY <1>4, <1>5 DEF LinkInv, ChangesCounted
<1> QED
    BY <1>7, <1>10, <1>11

LEMMA SetModeKeeps ==
    ASSUME LinkInv, NEW mode \in LinkMode, set_mode(mode)
    PROVE  LinkInv'
<1>1. /\ LinkTypes /\ LinesInv /\ "mode_changed" \in EventName /\ mode \in ReadMode
      /\ torn \in BOOLEAN
    BY DEF LinkInv, LinkTypes, EventName, ReadMode
<1>2. /\ Journals("mode_changed", mode) /\ torn' \in BOOLEAN
      /\ UNCHANGED <<dropped_requests, raft_call>>
    BY <1>1, RecordJournals DEF set_mode
<1>3. \/ link_mode' = mode /\ mode_changes' = mode_changes + 1
      \/ UNCHANGED <<link_mode, mode_changes>>
    BY DEF set_mode
<1>4. LinesInv' /\ journal' \in Seq(Line) /\ next_sequence' \in Nat /\ (Whole' => Whole)
    BY <1>1, <1>2, JournalsKeepLines
<1>5. LinkTypes'
    BY <1>1, <1>2, <1>3, <1>4 DEF LinkTypes
<1>6. ASSUME Whole'
      PROVE  LastMode' /\ ChangesCounted' /\ LinesExplained' /\ CallsExplained' /\ DropsCounted'
  <2>1. LastMode /\ ChangesCounted /\ LinesExplained /\ CallsExplained /\ DropsCounted
    BY <1>4, <1>6 DEF LinkInv
  <2>2. LinesExplained'
    BY <1>1, <1>2, <1>6, <2>1, LineExplained
  <2>3. ModeLines \subseteq ModeLines' /\ \A j \in ModeLines : journal'[j] = journal[j]
    BY <1>1, <1>2, <1>6, StillExplained
  <2>4. CallsExplained'
    BY <1>2, <2>1, <2>3 DEF CallsExplained
  <2>5. /\ LastMode' /\ ChangesCounted'
        /\ Positions("request_dropped")' = Positions("request_dropped")
    <3>1. CASE Recorded("mode_changed", mode) /\ link_mode' = mode
               /\ mode_changes' = mode_changes + 1
      <4>1. CASE torn
        BY <1>1, <1>6, <3>1, <4>1, LineLost DEF Recorded
      <4>2. CASE ~ torn
        BY <1>2, <1>6, <3>1, <4>2, ChangeIsLast DEF Recorded
      <4> QED
        BY <4>1, <4>2
    <3>2. CASE RecordFails /\ UNCHANGED <<link_mode, mode_changes>>
      <4>1. \A x : Positions(x)' = Positions(x)
        BY <3>2 DEF RecordFails, Positions
      <4>2. journal' = journal
        BY <3>2 DEF RecordFails
      <4> QED
        BY <2>1, <3>2, <4>1, <4>2 DEF LastMode, ChangesCounted, ModeLines
    <3> QED
      BY <3>1, <3>2 DEF set_mode
  <2>6. Dropping' = Dropping
    BY <1>2 DEF Dropping
  <2>7. DropsCounted'
    BY <1>2, <2>1, <2>5, <2>6 DEF DropsCounted
  <2> QED
    BY <2>2, <2>4, <2>5, <2>7
<1> QED
    BY <1>4, <1>5, <1>6 DEF LinkInv

LEMMA LinkStart ==
    ASSUME LinkInit
    PROVE  LinkInv
<1>1. PICK e : e = Event(1, "started", "allow")
    OBVIOUS
<1>2. /\ journal = <<e>> /\ next_sequence = 2 /\ link_mode = "allow" /\ torn = FALSE
      /\ mode_changes = 0 /\ dropped_requests = 0
      /\ raft_call = [c \in RaftCall |-> [phase |-> "new", mode |-> "none"]]
    BY <1>1 DEF LinkInit
<1>3. e \in Line /\ e.sequence = 1 /\ e.event = "started" /\ e.mode = "allow"
    BY <1>1 DEF Event, Line, EventName, ReadMode, LinkMode
<1>4. journal \in Seq(Line) /\ Len(journal) = 1 /\ journal[1] = e /\ DOMAIN journal = {1}
    BY <1>2, <1>3
<1>5. raft_call \in RaftCalls /\ \A c \in RaftCall : raft_call[c].phase = "new"
    BY <1>2 DEF RaftCalls, ReadMode
<1>6. LinkTypes
    BY <1>2, <1>4, <1>5 DEF LinkTypes, LinkMode
<1>7. LinesInv
    BY <1>2, <1>3, <1>4 DEF LinesInv
<1>8. /\ Positions("started") = {1} /\ Positions("mode_changed") = {}
      /\ Positions("request_dropped") = {} /\ ModeLines = {1} /\ Dropping = {}
    BY <1>3, <1>4, <1>5 DEF Positions, ModeLines, Dropping
<1>9. IsFiniteSet({}) /\ Cardinality({}) = 0
    BY FS_EmptySet
<1>10. LastMode /\ ChangesCounted /\ LinesExplained /\ CallsExplained /\ DropsCounted
    BY <1>2, <1>3, <1>4, <1>5, <1>8, <1>9
       DEF LastMode, ChangesCounted, LinesExplained, CallsExplained, DropsCounted
<1> QED
    BY <1>6, <1>7, <1>10 DEF LinkInv

LEMMA LinkStep ==
    ASSUME LinkInv, [LinkNext]_linkVars
    PROVE  LinkInv'
<1>1. CASE UNCHANGED linkVars
  <2>1. UNCHANGED <<link_mode, mode_changes, dropped_requests, journal, next_sequence, torn,
                    raft_call>>
    BY <1>1 DEF linkVars, counts, journalVars
  <2> QED
    BY <2>1 DEF LinkInv, LinkTypes, LinesInv, Whole, LastMode, ChangesCounted, LinesExplained,
        CallsExplained, DropsCounted, ModeLines, Positions, Dropping
<1>2. CASE change_link_mode
    BY <1>2, SetModeKeeps DEF change_link_mode
<1>3. ASSUME NEW c \in RaftCall, ForwardDrops(c) \/ ForwardReports(c)
      PROVE  LinkInv'
    BY <1>3, ReportKeeps DEF ForwardDrops, ForwardReports, counts
<1>4. ASSUME NEW c \in RaftCall, ForwardSends(c) \/ ForwardAnswers(c) \/ ForwardFails(c)
      PROVE  LinkInv'
    BY <1>4, QuietStep DEF ForwardSends, ForwardAnswers, ForwardFails, counts, journalVars
<1> QED
    BY <1>1, <1>2, <1>3, <1>4, ReadsModeKeeps DEF LinkNext

LEMMA LinkMeans ==
    ASSUME LinkInv
    PROVE  JournalExplains
<1>1. /\ LinkTypes /\ LinesInv /\ Len(journal) \in Nat /\ next_sequence \in Nat
      /\ DOMAIN journal = 1..Len(journal) /\ Len(journal) \in 1..Len(journal)
    BY DEF LinkInv, LinkTypes, LinesInv
<1>2. \A i, j \in DOMAIN journal : i < j => journal[i].sequence < journal[j].sequence
    BY <1>1 DEF LinesInv
<1>3. next_sequence > journal[Len(journal)].sequence
  <2>1. journal[Len(journal)].sequence < next_sequence
    BY <1>1 DEF LinesInv
  <2>2. journal[Len(journal)] \in Line
    BY <1>1 DEF LinkTypes
  <2>3. journal[Len(journal)].sequence \in Nat
    BY <2>2 DEF Line
  <2> QED
    BY <1>1, <2>1, <2>3
<1>4. ASSUME Whole
      PROVE  LET last == CHOOSE i \in ModeLines : \A j \in ModeLines : j <= i
             IN  journal[last].mode = link_mode
  <2>1. PICK i \in ModeLines : journal[i].mode = link_mode /\ \A j \in ModeLines : j <= i
    BY <1>4 DEF LinkInv, LastMode
  <2>2. PICK last : last = CHOOSE k \in ModeLines : \A j \in ModeLines : j <= k
    OBVIOUS
  <2>3. last \in ModeLines /\ \A j \in ModeLines : j <= last
    BY <2>1, <2>2
  <2>4. ModeLines \subseteq 1..Len(journal)
    BY <1>1, PositionsAre DEF ModeLines
  <2>5. last = i
    BY <1>1, <2>1, <2>3, <2>4
  <2> QED
    BY <2>1, <2>2, <2>5
<1>5. ASSUME Whole
      PROVE  /\ mode_changes = Cardinality(Positions("mode_changed"))
             /\ \A i \in DOMAIN journal \ ModeLines :
                    \E j \in ModeLines : j < i /\ journal[j].mode = journal[i].mode
             /\ Cardinality(Positions("request_dropped")) <= dropped_requests
  <2>1. ChangesCounted /\ LinesExplained /\ DropsCounted
    BY <1>5 DEF LinkInv
  <2>2. /\ Cardinality(Positions("request_dropped")) \in Nat /\ dropped_requests \in Nat
        /\ Cardinality(Dropping) \in Nat
    BY <1>1, <2>1, PositionsAre, FS_CardinalityType DEF LinkTypes, DropsCounted
  <2> QED
    BY <1>1, <2>1, <2>2 DEF ChangesCounted, LinesExplained, DropsCounted
<1>6. Whole <=> Len(journal) = next_sequence - 1
    BY DEF Whole
<1> QED
    BY <1>2, <1>3, <1>4, <1>5, <1>6 DEF JournalExplains, ModeLines

\* The link proxy's journal, for any number of calls and changes of mode, and although
\* the proxy may lose lines or stop in the middle of one: what is in it is in order,
\* and while nothing was lost it explains the mode, its changes and every drop
\* (append_event, set_mode and proxy_raft of the link proxy).
THEOREM JournalTellsTheTruth == LinkSpec => []JournalExplains
<1>1. LinkInit => LinkInv
    BY LinkStart
<1>2. LinkInv /\ [LinkNext]_linkVars => LinkInv'
    BY LinkStep
<1>3. LinkInv => JournalExplains
    BY LinkMeans
<1> QED
    BY <1>1, <1>2, <1>3, PTL DEF LinkSpec

-----------------------------------------------------------------------------
(* The hosted public edge.                                                   *)

\* Division rounds down.
LEMMA DivIs ==
    ASSUME NEW a \in Nat, NEW b \in Nat \ {0}
    PROVE  /\ a \div b \in Nat
           /\ b * (a \div b) <= a /\ a < b * (a \div b) + b
OBVIOUS

LEMMA CeilDivIs ==
    ASSUME NEW a \in Nat, NEW b \in Nat \ {0}
    PROVE  CeilDiv(a, b) \in Nat /\ b * CeilDiv(a, b) >= a
<1>1. PICK c \in Nat : c = a + b - 1
    OBVIOUS
<1>2. PICK q \in Nat : q = c \div b
    BY <1>1, DivIs
<1>3. c < b * q + b
    BY <1>2, DivIs
<1>4. b * q \in Nat
    OBVIOUS
<1>5. b * q >= a
    BY <1>1, <1>3, <1>4
<1> QED
    BY <1>1, <1>2, <1>5 DEF CeilDiv

LEMMA Distributes ==
    ASSUME NEW a \in Int, NEW b \in Int, NEW c \in Int
    PROVE  a * c \in Int /\ b * c \in Int /\ (a + b) * c = a * c + b * c
OBVIOUS

LEMMA ProductGrows ==
    ASSUME NEW a \in Nat, NEW b \in Nat, NEW c \in Nat, a <= b
    PROVE  a * c \in Nat /\ b * c \in Nat /\ a * c <= b * c
OBVIOUS

LEMMA NextProduct ==
    ASSUME NEW m \in Nat, NEW c \in Nat
    PROVE  m * c \in Nat /\ (m + 1) * c \in Nat /\ (m + 1) * c = m * c + c
OBVIOUS

LEMMA IntProduct ==
    ASSUME NEW a \in Int, NEW b \in Int
    PROVE  a * b \in Int
OBVIOUS

LEMMA WholeMinutes ==
    ASSUME NEW a \in Nat \ {0}, NEW b \in Nat \ {0}, a % b = 0
    PROVE  b * (a \div b) = a
OBVIOUS

LEMMA Remaining ==
    ASSUME NEW n \in Nat, NEW i \in 1..n
    PROVE  n - i + 1 \in Nat
OBVIOUS

Rate == rate_requests_per_minute
Full == rate_burst * minute
Token == [available_units : Nat, last_elapsed : Nat]

EdgeTypes ==
    /\ elapsed \in Nat
    /\ bucket \in [ApiKey -> Token]
    /\ grants \in [ApiKey -> Seq(Nat)]
    /\ promise \in [ApiKey -> SUBSET Nat]

\* A body that the checks let through.
Passed(b) == b \in Input /\ b.fits /\ validate_input(b) = "none"

VisitsInv ==
    /\ visit = [v \in Visit |-> visit[v]]
    /\ \A v \in Visit :
        /\ visit[v].phase \in {"body", "timed"} => visit[v].slot \in ApiKey
        /\ visit[v].phase = "timed" => visit[v].read \in Nat
        /\ visit[v].phase \in {"timed", "paid", "inside", "over"} => Passed(visit[v].input)
        /\ visit[v].phase \in {"paid", "inside"} =>
               visit[v] = [phase |-> visit[v].phase, input |-> visit[v].input]

\* What a bucket holds and what was granted since the i-th grant never exceed the
\* burst and what has come in since.
Paid(units, at, granted) ==
    \A i \in 1..Len(granted) :
        /\ granted[i] <= at
        /\ (Len(granted) - i + 1) * minute + units <= Full + (at - granted[i]) * Rate

KeptRate(granted) ==
    \A i, j \in 1..Len(granted) : i <= j =>
        (j - i + 1) * minute <= Full + (granted[j] - granted[i]) * Rate

\* A client that was told to come back at t finds a token at t, or has it already.
Owed(units, at, t) ==
    IF t <= at THEN units >= minute ELSE units + (t - at) * Rate >= minute

Sound(b, granted, promised) ==
    /\ b.available_units <= Full
    /\ Paid(b.available_units, b.last_elapsed, granted)
    /\ KeptRate(granted)
    /\ \A t \in promised : Owed(b.available_units, b.last_elapsed, t)

\* The counters against the visits themselves.
VisitCounts ==
    /\ DOMAIN rejections = Reason /\ \A r \in Reason : rejections[r] \in Nat
    /\ \A r \in Reason : IsFiniteSet(RejectedFor(r)) /\ rejections[r] = Cardinality(RejectedFor(r))
    /\ IsFiniteSet(Insiders) /\ inside = Cardinality(Insiders) /\ inside <= capacity

EdgeInv ==
    /\ EdgeTypes /\ VisitsInv /\ VisitCounts
    /\ \A k \in ApiKey : Sound(bucket[k], grants[k], promise[k])

LEMMA EdgeNumbers ==
    /\ Rate \in Nat \ {0} /\ minute \in Nat \ {0} /\ second \in Nat \ {0}
    /\ rate_burst \in Nat \ {0} /\ minute % second = 0 /\ Full \in Nat /\ Full >= minute
<1>1. /\ Rate \in Nat \ {0} /\ minute \in Nat \ {0} /\ second \in Nat \ {0}
      /\ rate_burst \in Nat \ {0} /\ minute % second = 0
    BY EdgeConfigIsValid, TicksType DEF limits_are_valid, validate_positive_bounded, Rate
<1>2. 1 * minute <= rate_burst * minute /\ rate_burst * minute \in Nat
    BY <1>1, ProductGrows
<1> QED
    BY <1>1, <1>2 DEF Full

\* A refill adds what d ticks bring, up to the burst, and never goes back in time.
LEMMA RefillIs ==
    ASSUME EdgeTypes, NEW k \in ApiKey, NEW read \in Nat, NEW b, b = Refilled(k, read),
           bucket[k].available_units <= Full
    PROVE  \E d \in Nat :
             /\ b \in Token /\ b.last_elapsed = bucket[k].last_elapsed + d
             /\ bucket[k].last_elapsed + d >= read
             /\ d = 0 \/ bucket[k].last_elapsed + d = read
             /\ b.available_units <= Full
             /\ b.available_units \in {Full, bucket[k].available_units + d * Rate}
             /\ b.available_units <= bucket[k].available_units + d * Rate
<1>1. PICK c : c = bucket[k]
    OBVIOUS
<1>2. c \in Token
    BY <1>1 DEF EdgeTypes
<1>3. c.available_units \in Nat /\ c.last_elapsed \in Nat
    BY <1>2 DEF Token
<1>4. PICK at \in Nat : at = AtLeastOf(read, c.last_elapsed)
    BY <1>3 DEF AtLeastOf
<1>5. /\ at >= c.last_elapsed /\ at >= read /\ (at = c.last_elapsed \/ at = read)
    BY <1>3, <1>4 DEF AtLeastOf
<1>6. PICK d \in Nat : d = at - c.last_elapsed
    BY <1>3, <1>5
<1>7. d * Rate \in Nat
    BY EdgeNumbers, ProductGrows
<1>8. PICK u : u = AtMost(c.available_units + d * Rate, Full)
    OBVIOUS
<1>9. /\ u \in Nat /\ u <= Full /\ u \in {Full, c.available_units + d * Rate}
      /\ u <= c.available_units + d * Rate
    BY <1>3, <1>7, <1>8, EdgeNumbers DEF AtMost
<1>10. b = [available_units |-> u, last_elapsed |-> at]
    BY <1>1, <1>4, <1>6, <1>8 DEF Refilled, Rate, Full
<1>11. /\ b \in Token /\ b.last_elapsed = at /\ b.available_units = u /\ at = c.last_elapsed + d
    BY <1>3, <1>6, <1>9, <1>10 DEF Token
<1> QED
    BY <1>1, <1>3, <1>5, <1>6, <1>9, <1>11

\* A refill keeps what the bucket owes and what it has paid.
LEMMA RefillIsSound ==
    ASSUME NEW c \in Token, NEW b \in Token, NEW d \in Nat, NEW granted \in Seq(Nat),
           NEW promised \in SUBSET Nat, Sound(c, granted, promised),
           b.last_elapsed = c.last_elapsed + d, b.available_units <= Full,
           b.available_units \in {Full, c.available_units + d * Rate},
           b.available_units <= c.available_units + d * Rate
    PROVE  Sound(b, granted, promised)
<1>1. PICK u \in Nat, w \in Nat, at \in Nat, now \in Nat :
        /\ u = c.available_units /\ w = b.available_units
        /\ at = c.last_elapsed /\ now = b.last_elapsed
    BY DEF Token
<1>2. d * Rate \in Nat /\ now = at + d /\ w \in {Full, u + d * Rate} /\ w <= u + d * Rate
    BY <1>1, EdgeNumbers, ProductGrows
<1>3. Paid(w, now, granted)
  <2>1. ASSUME NEW i \in 1..Len(granted)
        PROVE  /\ granted[i] <= now
               /\ (Len(granted) - i + 1) * minute + w <= Full + (now - granted[i]) * Rate
    <3>1. PICK g \in Nat : g = granted[i]
      OBVIOUS
    <3>2. /\ g <= at
          /\ (Len(granted) - i + 1) * minute + u <= Full + (at - g) * Rate
      BY <1>1, <3>1 DEF Sound, Paid
    <3>3. PICK n \in Nat : n = Len(granted) - i + 1
      <4>1. Len(granted) \in Nat
        OBVIOUS
      <4> QED
        BY <4>1, Remaining
    <3>4. n * minute \in Nat
      BY EdgeNumbers, ProductGrows
    <3>5. (at - g) * Rate \in Int /\ ((at - g) + d) * Rate = (at - g) * Rate + d * Rate
      BY EdgeNumbers, Distributes
    <3>6. now - g = (at - g) + d /\ g <= now
      BY <1>2, <3>2
    <3>7. n * minute + w <= Full + (now - g) * Rate
      BY <1>2, <3>2, <3>3, <3>4, <3>5, <3>6, EdgeNumbers
    <3> QED
      BY <3>1, <3>3, <3>6, <3>7
  <2> QED
    BY <2>1 DEF Paid
<1>4. ASSUME NEW t \in promised PROVE Owed(w, now, t)
  <2>1. t \in Nat /\ Owed(u, at, t)
    BY <1>1 DEF Sound
  <2>2. CASE t <= at
    BY <1>2, <2>1, <2>2, EdgeNumbers DEF Owed
  <2>3. CASE t > at
    <3>1. PICK e \in Nat : e = t - at
      BY <2>1, <2>3
    <3>2. e * Rate \in Nat /\ u + e * Rate >= minute
      BY <2>1, <2>3, <3>1, EdgeNumbers, ProductGrows DEF Owed
    <3>3. CASE t <= now
      <4>1. e <= d
        BY <1>2, <3>1, <3>3
      <4>2. e * Rate <= d * Rate
        BY <4>1, EdgeNumbers, ProductGrows
      <4> QED
        BY <1>2, <3>2, <3>3, <4>2, EdgeNumbers DEF Owed
    <3>4. CASE t > now
      <4>1. PICK f \in Nat : f = t - now
        BY <2>1, <3>4
      <4>2. e = f + d
        BY <1>2, <3>1, <4>1
      <4>3. f * Rate \in Nat
        BY EdgeNumbers, ProductGrows
      <4>4. e * Rate = f * Rate + d * Rate
        BY <4>2, EdgeNumbers, Distributes
      <4>5. w + f * Rate >= minute
        BY <1>2, <3>2, <4>3, <4>4, EdgeNumbers
      <4> QED
        BY <3>4, <4>1, <4>5 DEF Owed
    <3> QED
      BY <2>1, <3>3, <3>4
  <2> QED
    BY <2>1, <2>2, <2>3
<1> QED
    BY <1>1, <1>3, <1>4 DEF Sound

\* A grant takes a request's worth and is remembered at the bucket's time.
LEMMA GrantIsSound ==
    ASSUME NEW c \in Token, NEW granted \in Seq(Nat), NEW promised \in SUBSET Nat,
           Sound(c, granted, promised), c.available_units >= minute,
           NEW b, b = [c EXCEPT !.available_units = @ - minute],
           NEW more, more = Append(granted, c.last_elapsed)
    PROVE  b \in Token /\ more \in Seq(Nat) /\ Sound(b, more, {})
<1>1. PICK u \in Nat, at \in Nat : u = c.available_units /\ at = c.last_elapsed
    BY DEF Token
<1>2. PICK w \in Nat : w = u - minute
    BY <1>1, EdgeNumbers
<1>3. b \in Token /\ b.available_units = w /\ b.last_elapsed = at
    BY <1>1, <1>2 DEF Token
<1>4. PICK n \in Nat : n = Len(granted)
    OBVIOUS
<1>5. /\ more \in Seq(Nat) /\ Len(more) = n + 1 /\ more[n + 1] = at
      /\ \A i \in 1..n : more[i] = granted[i] /\ granted[i] \in Nat
    BY <1>1, <1>4
<1>6. ASSUME NEW i \in 1..(n + 1)
      PROVE  /\ more[i] \in Nat /\ more[i] <= at
             /\ (n + 1 - i + 1) * minute + w <= Full + (at - more[i]) * Rate
  <2>1. CASE i \in 1..n
    <3>1. PICK g \in Nat : g = granted[i]
      BY <1>5, <2>1
    <3>2. PICK m \in Nat : m = n - i + 1
      BY <2>1, Remaining
    <3>3. g <= at /\ m * minute + u <= Full + (at - g) * Rate
      BY <1>1, <1>4, <2>1, <3>1, <3>2 DEF Sound, Paid
    <3>4. minute \in Nat /\ Rate \in Int /\ at - g \in Int
      BY EdgeNumbers
    <3>5. /\ m * minute \in Nat /\ (m + 1) * minute \in Nat
          /\ (m + 1) * minute = m * minute + minute
          /\ (at - g) * Rate \in Int
      BY <3>4, NextProduct, IntProduct
    <3>6. n + 1 - i + 1 = m + 1
      BY <3>2
    <3>7. (m + 1) * minute + w <= Full + (at - g) * Rate
      <4>1. PICK x \in Nat, y \in Int, f \in Nat, z \in Nat :
              /\ x = m * minute /\ y = (at - g) * Rate /\ f = Full /\ z = (m + 1) * minute
        BY <3>5, EdgeNumbers
      <4>2. z = x + minute /\ x + u <= f + y
        BY <3>3, <3>5, <4>1
      <4>3. z + w <= f + y
        BY <1>2, <4>2, EdgeNumbers
      <4> QED
        BY <4>1, <4>3
    <3> QED
      BY <1>5, <2>1, <3>1, <3>3, <3>6, <3>7
  <2>2. CASE i = n + 1
    <3>1. more[i] = at /\ n + 1 - i + 1 = 1 /\ u <= Full
      BY <1>1, <1>5, <2>2 DEF Sound
    <3>2. 1 * minute = minute /\ (at - at) * Rate = 0
      BY EdgeNumbers
    <3> QED
      <4>1. PICK f \in Nat, y \in Nat, x \in Nat :
              f = Full /\ y = (at - at) * Rate /\ x = 1 * minute
        BY <3>2, EdgeNumbers
      <4>2. y = 0 /\ x = minute
        BY <3>2, <4>1
      <4>3. x + w <= f + y
        BY <1>2, <3>1, <4>1, <4>2
      <4> QED
        BY <3>1, <4>1, <4>3
  <2>3. i \in 1..n \/ i = n + 1
    OBVIOUS
  <2> QED
    BY <2>1, <2>2, <2>3
<1>7. Paid(w, at, more)
    BY <1>5, <1>6 DEF Paid
<1>8. KeptRate(more)
  <2>1. ASSUME NEW i \in 1..(n + 1), NEW j \in 1..(n + 1), i <= j
        PROVE  (j - i + 1) * minute <= Full + (more[j] - more[i]) * Rate
    <3>1. CASE j \in 1..n
      <4>1. i \in 1..n
        BY <2>1, <3>1
      <4> QED
        BY <1>4, <1>5, <2>1, <3>1, <4>1 DEF Sound, KeptRate
    <3>2. CASE j = n + 1
      <4>1. PICK g \in Nat : g = more[i]
        BY <1>6
      <4>2. PICK m \in Nat : m = n + 1 - i + 1
        BY Remaining
      <4>3. m * minute \in Nat /\ (at - g) * Rate \in Int
        <5>1. minute \in Nat /\ Rate \in Int /\ at - g \in Int
          BY EdgeNumbers
        <5> QED
          BY <5>1, NextProduct, IntProduct
      <4>4. m * minute + w <= Full + (at - g) * Rate
        BY <1>6, <4>1, <4>2
      <4>5. m * minute <= Full + (at - g) * Rate
        <5>1. PICK x \in Nat, y \in Int, f \in Nat :
                x = m * minute /\ y = (at - g) * Rate /\ f = Full
          BY <4>3, EdgeNumbers
        <5>2. x + w <= f + y
          BY <4>4, <5>1
        <5>3. x <= f + y
          BY <5>2
        <5> QED
          BY <5>1, <5>3
      <4>6. more[j] = at /\ j - i + 1 = m
        BY <1>5, <3>2, <4>2
      <4> QED
        BY <4>1, <4>5, <4>6
    <3>3. j \in 1..n \/ j = n + 1
      OBVIOUS
    <3> QED
      BY <3>1, <3>2, <3>3
  <2> QED
    BY <1>5, <2>1 DEF KeptRate
<1>9. w <= Full
    BY <1>1, <1>2, EdgeNumbers DEF Sound
<1> QED
    BY <1>3, <1>5, <1>7, <1>8, <1>9 DEF Sound

\* Retry-After covers what is missing, rounded up twice and cut at a minute.
LEMMA RetryCovers ==
    ASSUME NEW u \in Nat, u < minute, NEW wait, wait = second * retry_seconds(u)
    PROVE  wait \in Nat /\ wait > 0 /\ u + wait * Rate >= minute
<1>1. PICK missing \in Nat : missing = minute - u
    BY EdgeNumbers
<1>2. PICK ticks \in Nat : ticks = CeilDiv(missing, Rate)
    BY EdgeNumbers, CeilDivIs
<1>3. Rate * ticks >= missing
    BY <1>2, EdgeNumbers, CeilDivIs
<1>4. PICK secs \in Nat : secs = CeilDiv(ticks, second)
    BY EdgeNumbers, CeilDivIs
<1>5. second * secs >= ticks
    BY <1>4, EdgeNumbers, CeilDivIs
<1>6. PICK most \in Nat : most = minute \div second
    BY EdgeNumbers, DivIs
<1>7. second * most = minute
    BY <1>6, EdgeNumbers, WholeMinutes
<1>8. PICK r \in Nat : r = AtMost(most, AtLeastOf(1, secs))
    BY DEF AtMost, AtLeastOf
<1>9. wait = second * r
    BY <1>1, <1>2, <1>4, <1>6, <1>8 DEF retry_seconds, Rate
<1>10. r = most \/ r >= secs
    BY <1>8 DEF AtMost, AtLeastOf
<1>11. most > 0
  <2>1. CASE most = 0
    BY <1>7, <2>1, EdgeNumbers
  <2> QED
    BY <2>1
<1>12. r >= 1
    BY <1>8, <1>11 DEF AtMost, AtLeastOf
<1>13. wait \in Nat /\ wait > 0
  <2>1. 1 * second <= r * second /\ r * second \in Nat
    BY <1>12, EdgeNumbers, ProductGrows
  <2> QED
    BY <1>9, <2>1, EdgeNumbers
<1>14. wait * Rate \in Nat /\ wait * Rate >= missing
  <2>1. CASE r = most
    <3>1. wait = minute
      BY <1>7, <1>9, <2>1
    <3>2. 1 * minute <= Rate * minute /\ Rate * minute \in Nat
      BY EdgeNumbers, ProductGrows
    <3>3. wait * Rate = Rate * minute
      BY <3>1, EdgeNumbers
    <3> QED
      BY <1>1, <3>2, <3>3, EdgeNumbers
  <2>2. CASE r >= secs
    <3>1. secs * second <= r * second
      BY <2>2, EdgeNumbers, ProductGrows
    <3>2. wait >= ticks
      BY <1>5, <1>9, <1>13, <3>1, EdgeNumbers
    <3>3. ticks * Rate <= wait * Rate /\ ticks * Rate \in Nat /\ wait * Rate \in Nat
      BY <1>13, <3>2, EdgeNumbers, ProductGrows
    <3> QED
      BY <1>3, <3>3, EdgeNumbers
  <2> QED
    BY <1>10, <2>1, <2>2
<1> QED
    BY <1>1, <1>13, <1>14, EdgeNumbers

\* A refusal leaves the bucket refilled and promises a token.
LEMMA RefusalIsSound ==
    ASSUME NEW b \in Token, NEW granted \in Seq(Nat), NEW promised \in SUBSET Nat,
           Sound(b, granted, promised), ~ (b.available_units >= minute),
           NEW more, more = promised \cup
               {b.last_elapsed + second * retry_seconds(b.available_units)}
    PROVE  more \in SUBSET Nat /\ Sound(b, granted, more)
<1>1. PICK u \in Nat, at \in Nat : u = b.available_units /\ at = b.last_elapsed
    BY DEF Token
<1>2. u < minute
    BY <1>1, EdgeNumbers
<1>3. PICK wait : wait = second * retry_seconds(u)
    OBVIOUS
<1>4. wait \in Nat /\ wait > 0 /\ u + wait * Rate >= minute
    BY <1>2, <1>3, RetryCovers
<1>5. PICK t \in Nat : t = at + wait
    BY <1>4
<1>6. Owed(u, at, t)
  <2>1. ~ (t <= at) /\ t - at = wait
    BY <1>4, <1>5
  <2> QED
    BY <1>4, <2>1 DEF Owed
<1>7. more = promised \cup {t}
    BY <1>1, <1>3, <1>5
<1> QED
    BY <1>1, <1>6, <1>7 DEF Sound

\* A visit that is neither counted before nor after.
LEMMA QuietCounts ==
    ASSUME VisitCounts, VisitsInv, NEW v \in Visit, NEW m, visit' = [visit EXCEPT ![v] = m],
           visit[v].phase \notin {"rejected", "inside"}, m.phase \notin {"rejected", "inside"},
           UNCHANGED <<rejections, inside>>
    PROVE  VisitCounts'
<1>1. visit'[v] = m /\ \A u \in Visit : u # v => visit'[u] = visit[u]
    BY DEF VisitsInv
<1>2. \A r : RejectedFor(r)' = RejectedFor(r)
    BY <1>1 DEF RejectedFor
<1>3. Insiders' = Insiders
    BY <1>1 DEF Insiders
<1> QED
    BY <1>2, <1>3 DEF VisitCounts

LEMMA RejectionCounts ==
    ASSUME VisitCounts, VisitsInv, NEW v \in Visit, NEW reason, Rejected(v, reason),
           visit[v].phase \notin {"rejected", "inside"}, inside' = inside
    PROVE  VisitCounts'
<1>1. /\ visit'[v] = [phase |-> "rejected", reason |-> reason]
      /\ \A u \in Visit : u # v => visit'[u] = visit[u]
    BY DEF VisitsInv, Rejected
<1>2. rejections' = [rejections EXCEPT ![reason] = @ + 1]
    BY DEF Rejected
<1>3. Insiders' = Insiders
    BY <1>1 DEF Insiders
<1>4. ASSUME NEW r \in Reason
      PROVE  /\ rejections'[r] \in Nat /\ IsFiniteSet(RejectedFor(r)')
             /\ rejections'[r] = Cardinality(RejectedFor(r)')
  <2>1. /\ rejections[r] \in Nat /\ IsFiniteSet(RejectedFor(r))
        /\ rejections[r] = Cardinality(RejectedFor(r)) /\ DOMAIN rejections = Reason
    BY DEF VisitCounts
  <2>2. CASE r = reason
    <3>1. rejections'[r] = rejections[r] + 1
      BY <1>2, <2>1, <2>2
    <3>2. RejectedFor(r)' = RejectedFor(r) \cup {v} /\ v \notin RejectedFor(r)
      BY <1>1, <2>2 DEF RejectedFor
    <3>3. IsFiniteSet(RejectedFor(r)') /\ Cardinality(RejectedFor(r)') = Cardinality(RejectedFor(r)) + 1
      BY <2>1, <3>2, FS_AddElement
    <3> QED
      BY <2>1, <3>1, <3>3
  <2>3. CASE r # reason
    <3>1. rejections'[r] = rejections[r]
      BY <1>2, <2>1, <2>3
    <3>2. RejectedFor(r)' = RejectedFor(r)
      BY <1>1, <2>3 DEF RejectedFor
    <3> QED
      BY <2>1, <3>1, <3>2
  <2> QED
    BY <2>2, <2>3
<1>5. DOMAIN rejections' = Reason
    BY <1>2 DEF VisitCounts
<1> QED
    BY <1>3, <1>4, <1>5 DEF VisitCounts

LEMMA AdmissionCounts ==
    ASSUME VisitCounts, VisitsInv, NEW v \in Visit, NEW m, visit' = [visit EXCEPT ![v] = m],
           visit[v].phase \notin {"rejected", "inside"}, m.phase = "inside",
           inside < capacity, inside' = inside + 1, rejections' = rejections
    PROVE  VisitCounts'
<1>1. visit'[v] = m /\ \A u \in Visit : u # v => visit'[u] = visit[u]
    BY DEF VisitsInv
<1>2. \A r : RejectedFor(r)' = RejectedFor(r)
    BY <1>1 DEF RejectedFor
<1>3. Insiders' = Insiders \cup {v} /\ v \notin Insiders
    BY <1>1 DEF Insiders
<1>4. IsFiniteSet(Insiders') /\ Cardinality(Insiders') = Cardinality(Insiders) + 1
    BY <1>3, FS_AddElement DEF VisitCounts
<1>5. inside \in Nat /\ capacity \in Nat
    BY FS_CardinalityType, EdgeBounds DEF VisitCounts
<1>6. inside' = Cardinality(Insiders') /\ inside' <= capacity
    BY <1>4, <1>5 DEF VisitCounts
<1> QED
    BY <1>2, <1>4, <1>6 DEF VisitCounts

LEMMA DepartureCounts ==
    ASSUME VisitCounts, VisitsInv, NEW v \in Visit, NEW m, visit' = [visit EXCEPT ![v] = m],
           visit[v].phase = "inside", m.phase \notin {"rejected", "inside"},
           inside' = inside - 1, rejections' = rejections
    PROVE  VisitCounts'
<1>1. visit'[v] = m /\ \A u \in Visit : u # v => visit'[u] = visit[u]
    BY DEF VisitsInv
<1>2. \A r : RejectedFor(r)' = RejectedFor(r)
    BY <1>1 DEF RejectedFor
<1>3. Insiders' = Insiders \ {v} /\ v \in Insiders
    BY <1>1 DEF Insiders
<1>4. IsFiniteSet(Insiders') /\ Cardinality(Insiders') = Cardinality(Insiders) - 1
    BY <1>3, FS_RemoveElement DEF VisitCounts
<1>5. inside \in Nat /\ capacity \in Nat
    BY FS_CardinalityType, EdgeBounds DEF VisitCounts
<1>6. inside' = Cardinality(Insiders') /\ inside' <= capacity
    BY <1>4, <1>5 DEF VisitCounts
<1> QED
    BY <1>2, <1>4, <1>6 DEF VisitCounts

LEMMA ConsumeKeeps ==
    ASSUME EdgeInv, NEW v \in Visit, try_consume(v)
    PROVE  EdgeInv'
<1>1. EdgeTypes /\ VisitsInv /\ VisitCounts /\ \A k \in ApiKey : Sound(bucket[k], grants[k], promise[k])
    BY DEF EdgeInv
<1>2. PICK k, read, b : k = visit[v].slot /\ read = visit[v].read /\ b = Refilled(k, read)
    OBVIOUS
<1>3. k \in ApiKey /\ read \in Nat /\ visit[v].phase = "timed"
    BY <1>1, <1>2 DEF try_consume, VisitsInv
<1>4. PICK c, granted, promised :
        c = bucket[k] /\ granted = grants[k] /\ promised = promise[k]
    OBVIOUS
<1>5. c \in Token /\ granted \in Seq(Nat) /\ promised \in SUBSET Nat /\ Sound(c, granted, promised)
    BY <1>1, <1>3, <1>4 DEF EdgeTypes
<1>6. b \in Token /\ Sound(b, granted, promised)
  <2>1. bucket[k].available_units <= Full
    BY <1>4, <1>5 DEF Sound
  <2>2. PICK d \in Nat :
             /\ b \in Token /\ b.last_elapsed = bucket[k].last_elapsed + d
             /\ b.available_units <= Full
             /\ b.available_units \in {Full, bucket[k].available_units + d * Rate}
             /\ b.available_units <= bucket[k].available_units + d * Rate
    BY <1>1, <1>2, <1>3, <2>1, RefillIs
  <2> QED
    BY <1>4, <1>5, <2>2, RefillIsSound
<1>7. elapsed' = elapsed
    BY DEF try_consume
<1>8. CASE b.available_units >= minute
  <2>1. PICK nb, ng : nb = [b EXCEPT !.available_units = @ - minute]
                      /\ ng = Append(granted, b.last_elapsed)
    OBVIOUS
  <2>2. /\ bucket' = [bucket EXCEPT ![k] = nb]
        /\ visit' = [visit EXCEPT ![v] = [phase |-> "paid", input |-> visit[v].input]]
        /\ grants' = [grants EXCEPT ![k] = ng]
        /\ promise' = [promise EXCEPT ![k] = {}]
    BY <1>2, <1>4, <1>8, <2>1 DEF try_consume
  <2>3. nb \in Token /\ ng \in Seq(Nat) /\ Sound(nb, ng, {})
    BY <1>5, <1>6, <1>8, <2>1, GrantIsSound
  <2>4. EdgeTypes'
    BY <1>1, <1>7, <2>2, <2>3 DEF EdgeTypes
  <2>5. VisitsInv'
    <3>1. PICK i : i = visit[v].input /\ Passed(i)
      BY <1>1, <1>3 DEF VisitsInv
    <3>2. PICK m : m = [phase |-> "paid", input |-> i]
      OBVIOUS
    <3>3. m.phase = "paid" /\ m.input = i /\ m = [phase |-> m.phase, input |-> m.input]
      BY <3>2
    <3>4. visit' = [visit EXCEPT ![v] = m]
      BY <2>2, <3>1, <3>2
    <3> QED
      BY <1>1, <3>1, <3>3, <3>4 DEF VisitsInv
  <2>6. \A l \in ApiKey : Sound(bucket[l], grants[l], promise[l])'
    BY <1>1, <1>3, <2>2, <2>3 DEF EdgeTypes
  <2>7. VisitCounts'
    <3>1. UNCHANGED <<rejections, inside>>
      BY <1>2, <1>8 DEF try_consume
    <3> QED
      BY <1>1, <1>3, <2>2, <3>1, QuietCounts
  <2> QED
    BY <2>4, <2>5, <2>6, <2>7 DEF EdgeInv
<1>9. CASE ~ (b.available_units >= minute)
  <2>1. PICK np : np = promised \cup
            {b.last_elapsed + second * retry_seconds(b.available_units)}
    OBVIOUS
  <2>2. /\ bucket' = [bucket EXCEPT ![k] = b]
        /\ visit' = [visit EXCEPT ![v] = [phase |-> "rejected", reason |-> "rate_limited"]]
        /\ promise' = [promise EXCEPT ![k] = np]
        /\ grants' = grants
    BY <1>2, <1>4, <1>9, <2>1 DEF try_consume, Rejected
  <2>3. np \in SUBSET Nat /\ Sound(b, granted, np)
    BY <1>5, <1>6, <1>9, <2>1, RefusalIsSound
  <2>4. EdgeTypes'
    BY <1>1, <1>6, <1>7, <2>2, <2>3 DEF EdgeTypes
  <2>5. VisitsInv'
    BY <1>1, <2>2 DEF VisitsInv
  <2>6. \A l \in ApiKey : Sound(bucket[l], grants[l], promise[l])'
    BY <1>1, <1>3, <1>4, <1>6, <2>2, <2>3 DEF EdgeTypes
  <2>7. VisitCounts'
    <3>1. Rejected(v, "rate_limited") /\ inside' = inside
      BY <1>2, <1>9 DEF try_consume
    <3> QED
      BY <1>1, <1>3, <3>1, RejectionCounts
  <2> QED
    BY <2>4, <2>5, <2>6, <2>7 DEF EdgeInv
<1> QED
    BY <1>8, <1>9

\* The steps that leave the buckets alone.
LEMMA BucketsStay ==
    ASSUME EdgeInv, VisitsInv', VisitCounts', elapsed' \in Nat, UNCHANGED <<bucket, grants, promise>>
    PROVE  EdgeInv'
<1>1. EdgeTypes'
    BY DEF EdgeInv, EdgeTypes
<1>2. \A l \in ApiKey : Sound(bucket[l], grants[l], promise[l])'
    BY DEF EdgeInv
<1> QED
    BY <1>1, <1>2 DEF EdgeInv

LEMMA EdgeStart ==
    ASSUME EdgeInit
    PROVE  EdgeInv
<1>1. EdgeTypes
    BY EdgeNumbers DEF EdgeInit, EdgeTypes, Token, Full
<1>2. VisitsInv
    BY DEF EdgeInit, VisitsInv
<1>3. ASSUME NEW k \in ApiKey PROVE Sound(bucket[k], grants[k], promise[k])
  <2>1. bucket[k] = [available_units |-> Full, last_elapsed |-> 0] /\ grants[k] = <<>>
        /\ promise[k] = {}
    BY DEF EdgeInit, Full
  <2> QED
    BY <2>1, EdgeNumbers DEF Sound, Paid, KeptRate
<1>4. VisitCounts
  <2>1. (\A r : RejectedFor(r) = {}) /\ Insiders = {}
    BY DEF EdgeInit, RejectedFor, Insiders
  <2>2. IsFiniteSet({}) /\ Cardinality({}) = 0
    BY FS_EmptySet
  <2>3. /\ rejections = [r \in Reason |-> 0] /\ inside = 0 /\ inside <= capacity
    BY EdgeBounds DEF EdgeInit
  <2> QED
    BY <2>1, <2>2, <2>3 DEF VisitCounts
<1> QED
    BY <1>1, <1>2, <1>3, <1>4 DEF EdgeInv

LEMMA EdgeStep ==
    ASSUME EdgeInv, [EdgeNext]_edgeVars
    PROVE  EdgeInv'
<1>1. elapsed \in Nat /\ VisitsInv /\ VisitCounts
    BY DEF EdgeInv, EdgeTypes
<1>2. CASE EdgeTick \/ UNCHANGED edgeVars
  <2>1. elapsed' \in Nat /\ UNCHANGED <<visit, rejections, inside, bucket, grants, promise>>
    BY <1>1, <1>2 DEF EdgeTick, edgeVars
  <2>2. VisitsInv'
    BY <1>1, <2>1 DEF VisitsInv
  <2>3. VisitCounts'
    BY <1>1, <2>1 DEF VisitCounts, RejectedFor, Insiders
  <2> QED
    BY <2>1, <2>2, <2>3, BucketsStay
<1>3. ASSUME NEW v \in Visit, NEW h \in Header, Arrives(v, h)
      PROVE  EdgeInv'
  <2>1. \/ h \in ApiKey /\ visit' = [visit EXCEPT ![v] = [phase |-> "body", slot |-> h]]
        \/ visit' = [visit EXCEPT ![v] = [phase |-> "rejected", reason |-> "authentication"]]
    BY <1>3 DEF Arrives, Rejected, authorizes
  <2>2. VisitsInv'
    BY <1>1, <2>1 DEF VisitsInv
  <2>3. VisitCounts'
    <3>1. /\ visit[v].phase = "new" /\ inside' = inside
          /\ \/ /\ visit' = [visit EXCEPT ![v] = [phase |-> "body", slot |-> h]]
                /\ rejections' = rejections
             \/ Rejected(v, "authentication")
      BY <1>3 DEF Arrives
    <3> QED
      BY <1>1, <3>1, QuietCounts, RejectionCounts
  <2> QED
    BY <1>1, <1>3, <2>2, <2>3, BucketsStay DEF Arrives
<1>4. ASSUME NEW v \in Visit, NEW b \in Input, BodyArrives(v, b)
      PROVE  EdgeInv'
  <2>1. PICK reason : reason = IF ~ b.fits THEN "body_too_large" ELSE validate_input(b)
    OBVIOUS
  <2>2. \/ visit' = [visit EXCEPT ![v] = [phase |-> "rejected", reason |-> reason]]
        \/ /\ visit' = [visit EXCEPT ![v] = [phase |-> "timed", slot |-> visit[v].slot,
                                             read |-> elapsed, input |-> b]]
           /\ Passed(b)
    BY <1>4, <2>1 DEF BodyArrives, Rejected, Passed
  <2>3. visit[v].phase = "body" /\ elapsed' = elapsed /\ UNCHANGED <<bucket, grants, promise>>
    BY <1>4 DEF BodyArrives
  <2>4. VisitsInv'
    BY <1>1, <2>2, <2>3 DEF VisitsInv
  <2>5. VisitCounts'
    <3>1. /\ inside' = inside
          /\ \/ /\ visit' = [visit EXCEPT ![v] = [phase |-> "timed", slot |-> visit[v].slot,
                                                  read |-> elapsed, input |-> b]]
                /\ rejections' = rejections
             \/ Rejected(v, reason)
      BY <1>4, <2>1 DEF BodyArrives
    <3> QED
      BY <1>1, <2>3, <3>1, QuietCounts, RejectionCounts
  <2> QED
    BY <1>1, <2>3, <2>4, <2>5, BucketsStay
<1>5. ASSUME NEW v \in Visit, GoesBeforeBody(v)
      PROVE  EdgeInv'
  <2>1. VisitsInv'
    BY <1>1, <1>5 DEF VisitsInv, GoesBeforeBody
  <2>2. VisitCounts'
    BY <1>1, <1>5, QuietCounts DEF GoesBeforeBody
  <2> QED
    BY <1>1, <1>5, <2>1, <2>2, BucketsStay DEF GoesBeforeBody
<1>6. ASSUME NEW v \in Visit, try_admit_request(v) \/ Leaves(v)
      PROVE  EdgeInv'
  <2>1. visit[v].phase \in {"paid", "inside"} /\ elapsed' = elapsed
        /\ UNCHANGED <<bucket, grants, promise>>
    BY <1>6 DEF try_admit_request, Leaves
  <2>2. PICK m : m = visit[v]
    OBVIOUS
  <2>3. m = [phase |-> m.phase, input |-> m.input]
    BY <1>1, <2>1, <2>2 DEF VisitsInv
  <2>4. \A p : [m EXCEPT !.phase = p] = [phase |-> p, input |-> m.input]
    BY <2>3
  <2>5. \/ visit' = [visit EXCEPT ![v] = [phase |-> "inside", input |-> m.input]]
        \/ visit' = [visit EXCEPT ![v] = [phase |-> "over", input |-> m.input]]
        \/ visit' = [visit EXCEPT ![v] = [phase |-> "rejected", reason |-> "admission_full"]]
    <3>1. \/ visit' = [visit EXCEPT ![v] = [m EXCEPT !.phase = "inside"]]
          \/ visit' = [visit EXCEPT ![v] = [m EXCEPT !.phase = "over"]]
          \/ visit' = [visit EXCEPT ![v] = [phase |-> "rejected", reason |-> "admission_full"]]
      BY <1>6, <2>2 DEF try_admit_request, Leaves, Rejected
    <3> QED
      BY <2>4, <3>1
  <2>6. VisitsInv'
    <3>1. PICK i : i = m.input /\ Passed(i)
      BY <1>1, <2>1, <2>2 DEF VisitsInv
    <3>2. PICK n : /\ visit' = [visit EXCEPT ![v] = n]
                   /\ \/ n = [phase |-> "inside", input |-> i]
                      \/ n = [phase |-> "over", input |-> i]
                      \/ n = [phase |-> "rejected", reason |-> "admission_full"]
      BY <2>5, <3>1
    <3>3. /\ n.phase \in {"inside", "over", "rejected"}
          /\ n.phase # "rejected" => n.input = i /\ n = [phase |-> n.phase, input |-> n.input]
      BY <3>2
    <3> QED
      BY <1>1, <3>1, <3>2, <3>3 DEF VisitsInv
  <2>7. VisitCounts'
    <3>1. CASE Leaves(v)
      <4>1. /\ visit[v].phase = "inside" /\ inside' = inside - 1 /\ rejections' = rejections
            /\ visit' = [visit EXCEPT ![v] = [m EXCEPT !.phase = "over"]]
        BY <2>2, <3>1 DEF Leaves
      <4>2. [m EXCEPT !.phase = "over"].phase = "over"
        BY <2>4
      <4> QED
        BY <1>1, <4>1, <4>2, DepartureCounts
    <3>2. CASE try_admit_request(v)
      <4>1. /\ visit[v].phase = "paid"
            /\ \/ /\ inside < capacity /\ inside' = inside + 1 /\ rejections' = rejections
                  /\ visit' = [visit EXCEPT ![v] = [m EXCEPT !.phase = "inside"]]
               \/ Rejected(v, "admission_full") /\ inside' = inside
        BY <2>2, <3>2 DEF try_admit_request
      <4>2. [m EXCEPT !.phase = "inside"].phase = "inside"
        BY <2>4
      <4> QED
        BY <1>1, <4>1, <4>2, AdmissionCounts, RejectionCounts
    <3> QED
      BY <1>6, <3>1, <3>2
  <2> QED
    BY <1>1, <2>1, <2>6, <2>7, BucketsStay
<1> QED
    BY <1>2, <1>3, <1>4, <1>5, <1>6, ConsumeKeeps DEF EdgeNext

\* A set of some of the numbers to seven has a least one.
LEMMA LeastOfSeven ==
    ASSUME NEW S \in SUBSET (1..7), S # {}
    PROVE  \E i \in S : \A j \in S : i <= j
<1>1. CASE 1 \in S
    BY <1>1
<1>2. CASE 1 \notin S /\ 2 \in S
    BY <1>2
<1>3. CASE S \subseteq 3..7 /\ 3 \in S
    BY <1>3
<1>4. CASE S \subseteq 4..7 /\ 4 \in S
    BY <1>4
<1>5. CASE S \subseteq 5..7 /\ 5 \in S
    BY <1>5
<1>6. CASE S \subseteq 6..7 /\ 6 \in S
    BY <1>6
<1>7. CASE S = {7}
    BY <1>7
<1>8. \/ 1 \in S \/ 2 \in S \/ 3 \in S \/ 4 \in S \/ 5 \in S \/ 6 \in S \/ S = {7}
  <2>1. PICK x : x \in S
    OBVIOUS
  <2>2. \A y \in S : y \in {1, 2, 3, 4, 5, 6, 7}
    OBVIOUS
  <2>3. ASSUME 1 \notin S, 2 \notin S, 3 \notin S, 4 \notin S, 5 \notin S, 6 \notin S
        PROVE  S = {7}
    <3>1. \A y \in S : y = 7
      BY <2>2, <2>3
    <3> QED
      BY <2>1, <3>1
  <2> QED
    BY <2>3
<1> QED
    BY <1>1, <1>2, <1>3, <1>4, <1>5, <1>6, <1>7, <1>8

\* A set of numbers that holds 0 and with each its successor is all of them.
LEMMA SetInduction ==
    ASSUME NEW S \in SUBSET Nat, 0 \in S, \A n \in S : n + 1 \in S
    PROVE  S = Nat
<1>1. SUFFICES ASSUME Nat \ S # {} PROVE FALSE
    OBVIOUS
<1>2. PICK R : R = OpToRel(<, Nat)
    OBVIOUS
<1>3. IsWellFoundedOn(R, Nat)
    BY <1>2, NatLessThanWellFounded
<1>4. \A a, b \in Nat : <<a, b>> \in R <=> a < b
    BY <1>2 DEF OpToRel
<1>5. PICK m \in Nat \ S : \A k \in Nat \ S : <<k, m>> \notin R
    BY <1>1, <1>3, WFMin
<1>6. \A k \in Nat \ S : ~ (k < m)
    BY <1>4, <1>5
<1>7. m # 0 /\ m - 1 \in Nat /\ m - 1 < m
    OBVIOUS
<1>8. m - 1 \in S
    BY <1>6, <1>7
<1>9. (m - 1) + 1 \in S /\ (m - 1) + 1 = m
    BY <1>8
<1>10. QED
    BY <1>9

\* What the running total of a prompt's bytes is, up to its n-th message.
Totals(messages, n, f) ==
    f = [i \in 0..n |-> IF i = 0 THEN 0 ELSE f[i - 1] + messages[i].bytes]

LEMMA TotalsExist ==
    ASSUME NEW messages
    PROVE  \A n \in Nat : \E f : Totals(messages, n, f)
<1>1. PICK S \in SUBSET Nat : S = {n \in Nat : \E f : Totals(messages, n, f)}
    OBVIOUS
<1>2. 0 \in S
  <2>1. PICK f : f = [i \in 0..0 |-> 0]
    OBVIOUS
  <2>2. Totals(messages, 0, f)
    BY <2>1 DEF Totals
  <2> QED
    BY <1>1, <2>2
<1>3. ASSUME NEW n \in S PROVE n + 1 \in S
  <2>1. n \in Nat /\ \E f : Totals(messages, n, f)
    BY <1>1, <1>3
  <2>2. PICK f : Totals(messages, n, f)
    BY <2>1
  <2>3. PICK g : g = [i \in 0..(n + 1) |-> IF i = n + 1 THEN f[n] + messages[i].bytes ELSE f[i]]
    OBVIOUS
  <2>4. \A i \in 0..n : f[i] = IF i = 0 THEN 0 ELSE f[i - 1] + messages[i].bytes
    BY <2>2 DEF Totals
  <2>5. ASSUME NEW i \in 0..(n + 1)
        PROVE  g[i] = IF i = 0 THEN 0 ELSE g[i - 1] + messages[i].bytes
    <3>1. CASE i = n + 1
      BY <2>1, <2>3, <3>1
    <3>2. CASE i = 0
      BY <2>1, <2>3, <2>4, <3>2
    <3>3. CASE i \in 1..n
      <4>1. g[i] = f[i] /\ g[i - 1] = f[i - 1]
        BY <2>1, <2>3, <3>3
      <4>2. i \in 0..n /\ i # 0
        BY <2>1, <3>3
      <4> QED
        BY <2>4, <4>1, <4>2
    <3> QED
      BY <2>1, <3>1, <3>2, <3>3
  <2>6. g = [i \in 0..(n + 1) |-> IF i = 0 THEN 0 ELSE g[i - 1] + messages[i].bytes]
    BY <2>3, <2>5
  <2>7. n + 1 \in Nat /\ Totals(messages, n + 1, g)
    BY <2>1, <2>6 DEF Totals
  <2> QED
    BY <1>1, <2>7
<1>4. S = Nat
    BY <1>2, <1>3, SetInduction
<1> QED
    BY <1>1, <1>4, Zenon

LEMMA MembersOf ==
    ASSUME NEW S, NEW s \in Seq(S)
    PROVE  \A i \in DOMAIN s : s[i] \in S
OBVIOUS

LEMMA TotalsBound ==
    ASSUME NEW messages \in Seq([well_formed : BOOLEAN, bytes : Nat]), NEW f,
           Totals(messages, Len(messages), f)
    PROVE  /\ f[Len(messages)] \in Nat
           /\ \A i, j \in DOMAIN messages :
                i # j => messages[i].bytes + messages[j].bytes <= f[Len(messages)]
<1>1. PICK N \in Nat : N = Len(messages) /\ DOMAIN messages = 1..N
    OBVIOUS
<1>2. PICK b : b = [i \in 1..N |-> messages[i].bytes]
    OBVIOUS
<1>3. \A i \in 1..N : b[i] \in Nat /\ b[i] = messages[i].bytes
  <2>1. \A i \in 1..N : messages[i] \in [well_formed : BOOLEAN, bytes : Nat]
    BY <1>1, MembersOf
  <2>2. \A i \in 1..N : messages[i].bytes \in Nat
    BY <2>1
  <2> QED
    BY <1>2, <2>2
<1>4. \A i \in 0..N : f[i] = IF i = 0 THEN 0 ELSE f[i - 1] + messages[i].bytes
    BY <1>1 DEF Totals
<1>5. f[0] = 0 /\ \A i \in 1..N : f[i] = f[i - 1] + b[i]
  <2>1. f[0] = 0
    BY <1>1, <1>4
  <2>2. \A i \in 1..N : i \in 0..N /\ i # 0
    BY <1>1
  <2> QED
    BY <1>3, <1>4, <2>1, <2>2
<1>6. PICK S \in SUBSET Nat :
        S = {n \in Nat : n <= N =>
                /\ f[n] \in Nat
                /\ \A i \in 1..n : b[i] <= f[n]
                /\ \A i, j \in 1..n : i # j => b[i] + b[j] <= f[n]}
    OBVIOUS
<1>7. 0 \in S
    BY <1>5, <1>6
<1>8. ASSUME NEW n \in S PROVE n + 1 \in S
  <2>1. n \in Nat
    BY <1>6
  <2>2. SUFFICES ASSUME n + 1 <= N
                 PROVE  /\ f[n + 1] \in Nat
                        /\ \A i \in 1..(n + 1) : b[i] <= f[n + 1]
                        /\ \A i, j \in 1..(n + 1) : i # j => b[i] + b[j] <= f[n + 1]
    BY <1>6, <2>1
  <2>3. /\ f[n] \in Nat
        /\ \A i \in 1..n : b[i] <= f[n]
        /\ \A i, j \in 1..n : i # j => b[i] + b[j] <= f[n]
    BY <1>6, <1>8, <2>1, <2>2
  <2>4. n + 1 \in 1..N /\ (n + 1) - 1 = n
    BY <2>1, <2>2
  <2>5. b[n + 1] \in Nat /\ f[n + 1] = f[n] + b[n + 1]
    BY <1>3, <1>5, <2>4
  <2>6. f[n + 1] \in Nat
    BY <2>3, <2>5
  <2>7. \A i \in 1..n : b[i] \in Nat
    BY <1>3, <2>1, <2>2
  <2>8. \A i \in 1..(n + 1) : i = n + 1 \/ i \in 1..n
    BY <2>1
  <2>9. ASSUME NEW i \in 1..(n + 1) PROVE b[i] <= f[n + 1]
    BY <2>3, <2>5, <2>7, <2>8
  <2>10. ASSUME NEW i \in 1..(n + 1), NEW j \in 1..(n + 1), i # j
         PROVE  b[i] + b[j] <= f[n + 1]
    <3>1. CASE i = n + 1 /\ j \in 1..n
      BY <2>3, <2>5, <2>7, <3>1
    <3>2. CASE j = n + 1 /\ i \in 1..n
      BY <2>3, <2>5, <2>7, <3>2
    <3>3. CASE i \in 1..n /\ j \in 1..n
      <4>1. b[i] + b[j] <= f[n] /\ b[i] + b[j] \in Nat
        BY <2>3, <2>7, <2>10, <3>3
      <4> QED
        BY <2>3, <2>5, <2>6, <4>1
    <3> QED
      BY <2>8, <2>10, <3>1, <3>2, <3>3
  <2> QED
    BY <2>6, <2>9, <2>10
<1>9. N \in S
    BY <1>7, <1>8, SetInduction
<1>10. f[N] \in Nat /\ \A i, j \in 1..N : i # j => b[i] + b[j] <= f[N]
    BY <1>6, <1>9
<1> QED
    BY <1>1, <1>3, <1>10

\* The bytes of a prompt are at least those of any two of its messages.
LEMMA PromptBytesBound ==
    ASSUME NEW messages \in Seq([well_formed : BOOLEAN, bytes : Nat])
    PROVE  /\ prompt_bytes(messages) \in Nat
           /\ \A i, j \in DOMAIN messages :
                i # j => messages[i].bytes + messages[j].bytes <= prompt_bytes(messages)
<1>1. PICK f : f = CHOOSE g : Totals(messages, Len(messages), g)
    OBVIOUS
<1>2. Len(messages) \in Nat
    OBVIOUS
<1>3. Totals(messages, Len(messages), f)
    BY <1>1, <1>2, TotalsExist
<1>4. prompt_bytes(messages) = f[Len(messages)]
    BY <1>1 DEF prompt_bytes, Totals
<1> QED
    BY <1>3, <1>4, TotalsBound

LEMMA PassedIsSound ==
    ASSUME NEW b, Passed(b)
    PROVE  /\ b.fits /\ b.json /\ Len(b.messages) \in 1..max_messages
           /\ \A i \in DOMAIN b.messages : b.messages[i].well_formed
           /\ b.max_tokens \in 1..max_output_tokens
           /\ \A i, j \in DOMAIN b.messages :
                i # j => b.messages[i].bytes + b.messages[j].bytes <= max_prompt_bytes
<1>1. PICK p1, p2, p3, p4, p5, p6, p7 :
        /\ p1 = (~ b.json)
        /\ p2 = (b.messages = << >>)
        /\ p3 = (Len(b.messages) > max_messages)
        /\ p4 = (\E i \in DOMAIN b.messages : ~ b.messages[i].well_formed)
        /\ p5 = (b.messages # << >> /\ prompt_bytes(b.messages) > max_prompt_bytes)
        /\ p6 = (b.max_tokens <= 0)
        /\ p7 = (b.max_tokens > max_output_tokens)
    OBVIOUS
<1>2. PICK checks : checks = Checks(b)
    OBVIOUS
<1>3. checks = <<<<"malformed_json", p1>>, <<"invalid_messages", p2>>, <<"too_many_messages", p3>>,
                 <<"invalid_messages", p4>>, <<"prompt_too_large", p5>>,
                 <<"invalid_max_tokens", p6>>, <<"max_output_tokens_exceeded", p7>>>>
    BY <1>1, <1>2 DEF Checks
<1>4. PICK failed : failed = {i \in DOMAIN checks : checks[i][2]}
    OBVIOUS
<1>5. DOMAIN checks = 1..7 /\ failed \subseteq 1..7
    BY <1>3, <1>4
<1>6. failed = {}
  <2>1. SUFFICES ASSUME failed # {} PROVE FALSE
    OBVIOUS
  <2>2. \E i \in failed : \A j \in failed : i <= j
    BY <1>5, <2>1, LeastOfSeven
  <2>3. Min(failed) \in 1..7
    BY <1>5, <2>2 DEF Min
  <2>4. \A i \in 1..7 : checks[i][1] # "none"
    BY <1>3
  <2>5. validate_input(b) = checks[Min(failed)][1]
    BY <1>2, <1>4, <2>1 DEF validate_input
  <2> QED
    BY <2>3, <2>4, <2>5 DEF Passed
<1>7. ~ p1 /\ ~ p2 /\ ~ p3 /\ ~ p4 /\ ~ p5 /\ ~ p6 /\ ~ p7
  <2>1. \A i \in 1..7 : ~ checks[i][2]
    BY <1>4, <1>5, <1>6
  <2>2. ~ checks[1][2] /\ ~ checks[2][2] /\ ~ checks[3][2] /\ ~ checks[4][2]
        /\ ~ checks[5][2] /\ ~ checks[6][2] /\ ~ checks[7][2]
    BY <2>1
  <2> QED
    BY <1>3, <2>2
<1>8. b \in Input /\ b.fits
    BY DEF Passed
<1>9. /\ b.messages \in Seq([well_formed : BOOLEAN, bytes : Nat]) /\ b.max_tokens \in Int
    BY <1>8, InputType
<1>10. Len(b.messages) \in Nat /\ Len(b.messages) # 0
  <2>1. b.messages # << >>
    BY <1>1, <1>7
  <2> QED
    BY <1>9, <2>1
<1>11. max_messages \in Nat /\ max_output_tokens \in Nat
    BY EdgeConfigIsValid DEF limits_are_valid, validate_positive_bounded
<1>12. Len(b.messages) \in 1..max_messages
  <2>1. ~ (Len(b.messages) > max_messages)
    BY <1>1, <1>7
  <2> QED
    BY <1>10, <1>11, <2>1
<1>13. b.max_tokens \in 1..max_output_tokens
  <2>1. ~ (b.max_tokens <= 0) /\ ~ (b.max_tokens > max_output_tokens)
    BY <1>1, <1>7
  <2> QED
    BY <1>9, <1>11, <2>1
<1>14. b.json /\ \A i \in DOMAIN b.messages : b.messages[i].well_formed
    BY <1>1, <1>7
<1>15. ASSUME NEW i \in DOMAIN b.messages, NEW j \in DOMAIN b.messages, i # j
       PROVE  b.messages[i].bytes + b.messages[j].bytes <= max_prompt_bytes
  <2>1. PICK messages \in Seq([well_formed : BOOLEAN, bytes : Nat]) : messages = b.messages
    BY <1>9
  <2>2. PICK all \in Nat : all = prompt_bytes(messages)
    BY PromptBytesBound
  <2>3. messages[i].bytes + messages[j].bytes <= all
    BY <1>15, <2>1, <2>2, PromptBytesBound
  <2>4. messages[i].bytes \in Nat /\ messages[j].bytes \in Nat
    <3>1. messages[i] \in [well_formed : BOOLEAN, bytes : Nat]
          /\ messages[j] \in [well_formed : BOOLEAN, bytes : Nat]
      BY <1>15, <2>1, MembersOf
    <3> QED
      BY <3>1
  <2>5. max_prompt_bytes \in Nat
    BY EdgeConfigIsValid DEF limits_are_valid, validate_positive_bounded
  <2>6. ~ (all > max_prompt_bytes)
    <3>1. b.messages # << >>
      BY <1>1, <1>7
    <3>2. ~ (prompt_bytes(b.messages) > max_prompt_bytes)
      BY <1>1, <1>7, <3>1
    <3> QED
      BY <2>1, <2>2, <3>2
  <2>7. messages[i].bytes + messages[j].bytes <= max_prompt_bytes
    BY <2>2, <2>3, <2>4, <2>5, <2>6
  <2> QED
    BY <2>1, <2>7
<1> QED
    BY <1>8, <1>12, <1>13, <1>14, <1>15

LEMMA EdgeMeans ==
    ASSUME EdgeInv
    PROVE  EdgeHolds
<1>1. RateIsKept
  <2>1. ASSUME NEW k \in ApiKey
        PROVE  KeptRate(grants[k]) /\ DOMAIN grants[k] = 1..Len(grants[k])
    BY DEF EdgeInv, EdgeTypes, Sound
  <2> QED
    BY <2>1 DEF KeptRate, RateIsKept, Full, Rate
<1>2. RetryAfterIsEnough
  <2>1. ASSUME NEW k \in ApiKey, NEW t \in promise[k]
        PROVE  Refilled(k, t).available_units >= minute
    <3>1. EdgeTypes /\ t \in Nat /\ bucket[k].available_units <= Full
          /\ Owed(bucket[k].available_units, bucket[k].last_elapsed, t)
      BY <2>1 DEF EdgeInv, EdgeTypes, Sound
    <3>2. PICK u, at, b : u = bucket[k].available_units /\ at = bucket[k].last_elapsed
                          /\ b = Refilled(k, t)
      OBVIOUS
    <3>3. u \in Nat /\ at \in Nat
      BY <3>1, <3>2 DEF EdgeTypes, Token
    <3>4. PICK d \in Nat :
            /\ b \in Token /\ at + d >= t /\ (d = 0 \/ at + d = t)
            /\ b.available_units \in {Full, u + d * Rate}
      BY <2>1, <3>1, <3>2, RefillIs
    <3>5. d * Rate \in Nat
      BY EdgeNumbers, ProductGrows
    <3>6. u + d * Rate >= minute
      <4>1. CASE t <= at
        BY <3>1, <3>2, <3>3, <3>5, <4>1, EdgeNumbers DEF Owed
      <4>2. CASE t > at
        <5>1. d = t - at
          BY <3>1, <3>3, <3>4, <4>2
        <5> QED
          BY <3>1, <3>2, <3>3, <4>2, <5>1 DEF Owed
      <4> QED
        BY <3>1, <3>3, <4>1, <4>2
    <3> QED
      BY <3>2, <3>4, <3>6, EdgeNumbers
  <2> QED
    BY <2>1 DEF RetryAfterIsEnough
<1>3. EveryVisitCounts
    BY DEF EdgeInv, VisitCounts, EveryVisitCounts
<1>4. OnlySoundRequestsEnter
  <2>1. ASSUME NEW v \in Visit, visit[v].phase \in {"inside", "over"} PROVE Passed(visit[v].input)
    BY <2>1 DEF EdgeInv, VisitsInv
  <2> QED
    BY <2>1, PassedIsSound DEF OnlySoundRequestsEnter
<1>5. PromptsAreBounded
  <2>1. ASSUME NEW v \in Visit, visit[v].phase \in {"inside", "over"} PROVE Passed(visit[v].input)
    BY <2>1 DEF EdgeInv, VisitsInv
  <2> QED
    BY <2>1, PassedIsSound DEF PromptsAreBounded
<1> QED
    BY <1>1, <1>2, <1>3, <1>4, <1>5 DEF EdgeHolds

\* The hosted public edge, for any credentials, visits, bodies, rate, burst and capacity,
\* and whatever order visits take a bucket's lock in: grants of a credential keep its
\* rate beyond the burst, a client that waits as long as Retry-After says finds a token
\* unless another has taken it, only bodies within the policy's limits get in, the
\* messages of a prompt together among them, and rejections and permits are counted
\* once (try_consume, validate_input, hosted_public_edge_middleware).
THEOREM RateAndRetry == EdgeSpec => []EdgeHolds
<1>1. EdgeInit => EdgeInv
    BY EdgeStart
<1>2. EdgeInv /\ [EdgeNext]_edgeVars => EdgeInv'
    BY EdgeStep
<1>3. EdgeInv => EdgeHolds
    BY EdgeMeans
<1> QED
    BY <1>1, <1>2, <1>3, PTL DEF EdgeSpec

-----------------------------------------------------------------------------
(* The worker's completion endpoint.                                         *)

CallRecord == [phase : {"new", "collect", "role", "generate", "done", "end", "over"},
               timer : Outcome \cup {"none"}, got : Nat]
SessionRecord == [live : BOOLEAN, state : 0..JSON_GRAMMAR_TOKENS, generated : 0..max_context,
                  finished : BOOLEAN]
EventKind == {"token", "finished"} \cup Failure
ToldRecord == [request : ChatRequest \cup {Text}, last : {"nothing", "error", "complete"}]

Awaiting == {"collect", "role", "generate"}
EosOf(s) == IF s.finished THEN 1 ELSE 0

\* A session that the scheduler holds: its request was valid, its budget is not
\* exceeded, and the automaton is as far as there are tokens and not at its end.
SessionRuns(s, r) ==
    /\ SessionIsValid(r) /\ ~ s.finished /\ s.generated <= r.max_tokens
    /\ r.format = Text => s.state = 0
    /\ r.format # Text => s.state = s.generated /\ s.state < JSON_GRAMMAR_TOKENS

\* The channel holds tokens and at most one end, its last, with the session.  What
\* was taken and what is in it is what the session produced.
Channel(k, s, e, r) ==
    IF s.live
    THEN (\A i \in 1..Len(e) : e[i] = "token") /\ k.got + Len(e) = s.generated
    ELSE /\ Len(e) >= 1
         /\ \A i \in 1..(Len(e) - 1) : e[i] = "token"
         /\ e[Len(e)] # "token"
         /\ k.got + (Len(e) - 1) = s.generated - EosOf(s)
         /\ e[Len(e)] = "error" => r.format = Text

\* Where a call is and what its parts may be then.
CallTyped(k, s, e, t) ==
    k \in CallRecord /\ s \in SessionRecord /\ e \in Seq(EventKind) /\ t \in ToldRecord

CallPlaced(k, s, e, t) ==
    /\ k.got <= s.generated
    /\ s.live => SessionRuns(s, t.request) /\ k.phase \in Awaiting \cup {"over"}
    /\ k.phase = "new" =>
           k = NoCall /\ s = NoWorkerSession /\ t.last = "nothing"
    /\ k.phase \in Awaiting => Channel(k, s, e, t.request) /\ k.timer = "none" /\ t.last = "nothing"
    /\ k.phase \notin Awaiting => e = << >>

CallTold(k, s, t) ==
    /\ k.phase \in {"done", "end"} =>
           \/ t.last = "complete" /\ k.timer = "none"
           \/ t.last = "error" /\ k.timer = "error"
    /\ k.phase = "over" => k.timer # "none"
    /\ k.timer = "success" => t.last = "complete"
    /\ t.last = "error" => k.timer = "error"
    /\ t.last = "complete" => ~ s.live /\ k.got = s.generated - EosOf(s)

CallOK(k, s, e, t) == CallTyped(k, s, e, t) /\ CallPlaced(k, s, e, t) /\ CallTold(k, s, t)

CallsWith(o) == {c \in Call : call[c].timer = o}

WorkerInv ==
    /\ DOMAIN call = Call /\ DOMAIN session = Call /\ DOMAIN events = Call /\ DOMAIN told = Call
    /\ call = [c \in Call |-> call[c]] /\ session = [c \in Call |-> session[c]]
    /\ events = [c \in Call |-> events[c]] /\ told = [c \in Call |-> told[c]]
    /\ \A c \in Call : CallOK(call[c], session[c], events[c], told[c])
    /\ scheduler_up \in BOOLEAN
    /\ counted \in [Outcome -> Nat]
    /\ \A o \in Outcome : IsFiniteSet(CallsWith(o)) /\ counted[o] = Cardinality(CallsWith(o))

\* Each state of an automaton but the last has tokens, of the vocabulary.
LEMMA StatesHaveTokens ==
    ASSUME NEW schema, NEW n, compile_constraint(schema, n), schema # Text,
           NEW q \in 0..5
    PROVE  allowed_token_ids(schema, q) \subseteq Vocabulary
<1>1. /\ {JSON_START, JSON_SEPARATOR, JSON_END} \subseteq Vocabulary /\ EOS_TOKEN \in Vocabulary
      /\ Elements(schema.answer.choices) \subseteq Vocabulary
      /\ Elements(schema.confidence.choices) \subseteq Vocabulary
    BY VocabularyHasEos DEF compile_constraint, compile_enum
<1>2. PICK a, b : a = Elements(schema.answer.choices) /\ b = Elements(schema.confidence.choices)
    OBVIOUS
<1>3. allowed_token_ids(schema, q) =
        <<{JSON_START}, a, {JSON_SEPARATOR}, b, {JSON_END}, {EOS_TOKEN}, {}>>[q + 1]
    BY <1>2 DEF allowed_token_ids, Transitions
<1>4. q \in {0, 1, 2, 3, 4, 5}
    OBVIOUS
<1> QED
    BY <1>1, <1>2, <1>3, <1>4

\* A session that runs in a grammar has a token to choose.
LEMMA GrammarLeavesToken ==
    ASSUME NEW r, SessionIsValid(r), r.format # Text, NEW q \in 0..5
    PROVE  /\ allowed_token_ids(r.format, q) # {}
           /\ ((Vocabulary \ Elements(r.bans)) \cap allowed_token_ids(r.format, q)) # {}
<1>1. /\ compile_constraint(r.format, r.max_tokens)
      /\ validate_banned_tokens(r.format, Elements(r.bans))
    BY DEF SessionIsValid
<1>2. PICK allowed, bans : allowed = allowed_token_ids(r.format, q) /\ bans = Elements(r.bans)
    OBVIOUS
<1>3. allowed \subseteq Vocabulary
    BY <1>1, <1>2, StatesHaveTokens
<1>4. ~ (allowed \subseteq bans)
    BY <1>1, <1>2 DEF validate_banned_tokens, JSON_GRAMMAR_TOKENS
<1> QED
    BY <1>2, <1>3, <1>4

LEMMA RunningCandidates ==
    ASSUME NEW c \in Call, CallOK(call[c], session[c], events[c], told[c]), session[c].live,
           Asked(c).format # Text
    PROVE  /\ Candidates(c) # {}
           /\ Candidates(c) \subseteq allowed_token_ids(Asked(c).format, session[c].state)
<1>1. PICK r, s : r = Asked(c) /\ s = session[c]
    OBVIOUS
<1>2. SessionRuns(s, r) /\ s \in SessionRecord
    BY <1>1 DEF CallOK, CallTyped, CallPlaced, Asked
<1>3. s.state \in 0..5 /\ SessionIsValid(r) /\ r.format # Text
    BY <1>1, <1>2 DEF SessionRuns, SessionRecord, JSON_GRAMMAR_TOKENS
<1>4. PICK allowed : allowed = allowed_token_ids(r.format, s.state)
    OBVIOUS
<1>5. allowed # {} /\ ((Vocabulary \ Elements(r.bans)) \cap allowed) # {}
    BY <1>3, <1>4, GrammarLeavesToken
<1>6. Candidates(c) = (Vocabulary \ Elements(r.bans)) \cap allowed
    BY <1>1, <1>4, <1>5 DEF Candidates
<1> QED
    BY <1>1, <1>4, <1>5, <1>6

-----------------------------------------------------------------------------
LEMMA ShiftOne ==
    ASSUME NEW a \in Nat, NEW b \in Nat, NEW n \in Nat, NEW m \in Nat,
           b = a + 1, m = n - 1, n >= 2
    PROVE  b + (m - 1) = a + (n - 1) /\ m >= 1
OBVIOUS

LEMMA SessionTyped ==
    ASSUME NEW l \in BOOLEAN, NEW f \in BOOLEAN, NEW q \in 0..JSON_GRAMMAR_TOKENS,
           NEW g \in 0..max_context
    PROVE  [live |-> l, state |-> q, generated |-> g, finished |-> f] \in SessionRecord
BY DEF SessionRecord

\* A session stops: its end is in the channel, or there is nobody to hear it.
LEMMA SessionStops ==
    ASSUME NEW k, NEW s, NEW e, NEW t, CallOK(k, s, e, t), s.live,
           NEW z \in SessionRecord, ~ z.live, z.generated >= s.generated,
           NEW event \in EventKind, NEW f,
           f = IF k.phase \notin {"new", "over"} THEN Append(e, event) ELSE e,
           k.phase \notin {"new", "over"} =>
               /\ event # "token" /\ (event = "error" => t.request.format = Text)
               /\ z.generated - EosOf(z) = s.generated
    PROVE  CallOK(k, z, f, t)
<1>1. CallTyped(k, s, e, t) /\ CallPlaced(k, s, e, t) /\ CallTold(k, s, t)
    BY DEF CallOK
<1>2. k.phase \in Awaiting \cup {"over"} /\ t.last # "complete"
    BY <1>1 DEF CallPlaced, CallTold
<1>3. /\ k \in CallRecord /\ s \in SessionRecord /\ e \in Seq(EventKind) /\ t \in ToldRecord
      /\ k.got \in Nat /\ s.generated \in Nat /\ z.generated \in Nat /\ Len(e) \in Nat
    BY <1>1 DEF CallTyped, CallRecord, SessionRecord
<1>4. CallTyped(k, z, f, t)
    BY <1>3 DEF CallTyped
<1>5. CallTold(k, z, t)
    BY <1>1, <1>2 DEF CallTold, Awaiting
<1>6. CASE k.phase = "over"
  <2>1. f = e
    BY <1>6
  <2>2. CallPlaced(k, z, f, t)
    BY <1>1, <1>3, <1>6, <2>1 DEF CallPlaced, Awaiting
  <2> QED
    BY <1>4, <1>5, <2>2 DEF CallOK
<1>7. CASE k.phase \in Awaiting
  <2>1. k.phase \notin {"new", "over"} /\ f = Append(e, event)
    BY <1>7 DEF Awaiting
  <2>2. (\A i \in 1..Len(e) : e[i] = "token") /\ k.got + Len(e) = s.generated
    BY <1>1, <1>7 DEF CallPlaced, Channel
  <2>3. /\ Len(f) = Len(e) + 1 /\ f[Len(e) + 1] = event
        /\ \A i \in 1..Len(e) : f[i] = e[i]
    BY <1>3, <2>1
  <2>4. Len(f) - 1 = Len(e) /\ Len(f) >= 1
    BY <1>3, <2>3
  <2>5. Channel(k, z, f, t.request)
    BY <2>1, <2>2, <2>3, <2>4 DEF Channel
  <2>6. CallPlaced(k, z, f, t)
    BY <1>1, <1>3, <1>7, <2>5 DEF CallPlaced, Awaiting
  <2> QED
    BY <1>4, <1>5, <2>6 DEF CallOK
<1> QED
    BY <1>2, <1>6, <1>7

\* A session goes on, and its token is in the channel.
LEMMA SessionGoesOn ==
    ASSUME NEW k, NEW s, NEW e, NEW t, CallOK(k, s, e, t), s.live, k.phase \notin {"new", "over"},
           s.generated < t.request.max_tokens,
           t.request.format # Text => s.state < 5,
           NEW z, z = [s EXCEPT !.generated = @ + 1, !.finished = FALSE,
                                !.state = IF t.request.format = Text THEN @ ELSE @ + 1],
           NEW f, f = Append(e, "token")
    PROVE  CallOK(k, z, f, t)
<1>1. CallTyped(k, s, e, t) /\ CallPlaced(k, s, e, t) /\ CallTold(k, s, t)
    BY DEF CallOK
<1>2. k.phase \in Awaiting /\ t.last # "complete" /\ SessionRuns(s, t.request)
    BY <1>1 DEF CallPlaced, CallTold
<1>3. /\ k \in CallRecord /\ s \in SessionRecord /\ e \in Seq(EventKind) /\ t \in ToldRecord
      /\ k.got \in Nat /\ s.generated \in Nat /\ Len(e) \in Nat /\ s.state \in Nat
    BY <1>1 DEF CallTyped, CallRecord, SessionRecord
<1>4. t.request.max_tokens \in Nat /\ t.request.max_tokens <= max_context /\ max_context \in Nat
    BY <1>2, ContextIsPositive DEF SessionRuns, SessionIsValid
<1>5. PICK q : q = IF t.request.format = Text THEN s.state ELSE s.state + 1
    OBVIOUS
<1>6. z = [live |-> TRUE, state |-> q, generated |-> s.generated + 1, finished |-> FALSE]
    BY <1>3, <1>5 DEF SessionRecord
<1>7. q \in 0..6 /\ s.generated + 1 \in 0..max_context
  <2>1. s.state \in 0..5
    BY <1>2, <1>3 DEF SessionRuns
  <2>2. q \in 0..6
    BY <1>5, <2>1
  <2>3. PICK g, n \in Nat : g = s.generated /\ n = t.request.max_tokens /\ g < n /\ n <= max_context
    BY <1>3, <1>4
  <2>4. g + 1 \in 0..max_context
    BY <1>4, <2>3
  <2> QED
    BY <2>2, <2>3, <2>4
<1>8. z \in SessionRecord
  <2>1. q \in 0..JSON_GRAMMAR_TOKENS /\ TRUE \in BOOLEAN /\ FALSE \in BOOLEAN
    BY <1>7 DEF JSON_GRAMMAR_TOKENS
  <2>2. PICK g \in 0..max_context : g = s.generated + 1
    BY <1>7
  <2>3. PICK y, n : y = TRUE /\ n = FALSE
    OBVIOUS
  <2>4. [live |-> y, state |-> q, generated |-> g, finished |-> n] \in SessionRecord
    BY <2>1, <2>3, SessionTyped
  <2> QED
    BY <1>6, <2>2, <2>3, <2>4
<1>9. SessionRuns(z, t.request)
    BY <1>2, <1>3, <1>4, <1>5, <1>6 DEF SessionRuns, JSON_GRAMMAR_TOKENS
<1>10. f \in Seq(EventKind) /\ Len(f) = Len(e) + 1 /\ \A i \in 1..Len(f) : f[i] = "token"
  <2>1. "token" \in EventKind
    BY DEF EventKind
  <2>2. \A i \in 1..Len(e) : e[i] = "token"
    BY <1>1, <1>2 DEF CallPlaced, Channel
  <2> QED
    BY <1>3, <2>1, <2>2
<1>11. Channel(k, z, f, t.request)
    BY <1>1, <1>2, <1>3, <1>6, <1>10 DEF CallPlaced, Channel
<1>12. CallPlaced(k, z, f, t)
    BY <1>1, <1>2, <1>3, <1>6, <1>9, <1>11 DEF CallPlaced, Awaiting
<1>13. CallTold(k, z, t)
    BY <1>1, <1>2 DEF CallTold
<1> QED
    BY <1>3, <1>8, <1>10, <1>12, <1>13 DEF CallOK, CallTyped

\* The handler takes a token.
LEMMA TokenTaken ==
    ASSUME NEW k, NEW s, NEW e, NEW t, CallOK(k, s, e, t), k.phase \in Awaiting,
           e # << >>, Head(e) = "token",
           NEW l, l = [k EXCEPT !.got = @ + 1]
    PROVE  CallOK(l, s, Tail(e), t)
<1>1. CallTyped(k, s, e, t) /\ CallPlaced(k, s, e, t) /\ CallTold(k, s, t)
    BY DEF CallOK
<1>2. /\ k \in CallRecord /\ s \in SessionRecord /\ e \in Seq(EventKind) /\ t \in ToldRecord
      /\ k.got \in Nat /\ s.generated \in Nat /\ Len(e) \in Nat /\ Len(e) >= 1
    BY <1>1 DEF CallTyped, CallRecord, SessionRecord
<1>3. /\ l \in CallRecord /\ l.got = k.got + 1 /\ l.phase = k.phase /\ l.timer = k.timer
    BY <1>2 DEF CallRecord
<1>4. PICK f : f = Tail(e)
    OBVIOUS
<1>5. /\ f \in Seq(EventKind) /\ Len(f) = Len(e) - 1 /\ e[1] = "token"
      /\ \A i \in 1..Len(f) : f[i] = e[i + 1]
    BY <1>2, <1>4
<1>6. Channel(k, s, e, t.request) /\ k.timer = "none" /\ t.last = "nothing"
    BY <1>1 DEF CallPlaced
<1>7. EosOf(s) \in {0, 1}
    BY DEF EosOf
<1>8. Channel(l, s, f, t.request) /\ l.got <= s.generated
  <2>1. CASE s.live
    <3>1. \A i \in 1..Len(f) : f[i] = "token"
      BY <1>2, <1>5, <1>6, <2>1 DEF Channel
    <3>2. l.got + Len(f) = s.generated
      BY <1>2, <1>3, <1>5, <1>6, <2>1 DEF Channel
    <3> QED
      BY <1>2, <1>3, <1>5, <2>1, <3>1, <3>2 DEF Channel
  <2>2. CASE ~ s.live
    <3>1. Len(e) >= 2
      BY <1>2, <1>5, <1>6, <2>2 DEF Channel
    <3>2. /\ \A i \in 1..(Len(f) - 1) : f[i] = "token"
          /\ f[Len(f)] = e[Len(e)]
      <4>1. \A j \in 1..(Len(e) - 1) : e[j] = "token"
        BY <1>6, <2>2 DEF Channel
      <4>2. PICK n, m \in Nat : n = Len(e) /\ m = Len(f) /\ m = n - 1 /\ n >= 2
        BY <1>2, <1>5, <3>1
      <4>3. ASSUME NEW i \in 1..(m - 1) PROVE f[i] = "token"
        <5>1. i \in 1..m /\ i + 1 \in 1..(n - 1)
          BY <4>2, <4>3
        <5> QED
          BY <1>5, <4>1, <4>2, <5>1
      <4>4. m \in 1..m /\ m + 1 = n
        BY <4>2
      <4>5. f[m] = e[n]
        BY <1>5, <4>2, <4>4
      <4> QED
        BY <4>2, <4>3, <4>5
    <3>3. l.got + (Len(f) - 1) = s.generated - EosOf(s) /\ Len(f) >= 1
      <4>1. k.got + (Len(e) - 1) = s.generated - EosOf(s)
        BY <1>6, <2>2 DEF Channel
      <4>3. l.got \in Nat /\ Len(f) \in Nat
        BY <1>3, <1>5 DEF CallRecord
      <4>2. l.got + (Len(f) - 1) = k.got + (Len(e) - 1) /\ Len(f) >= 1
        BY <1>2, <1>3, <1>5, <3>1, <4>3, ShiftOne
      <4> QED
        BY <4>1, <4>2
    <3>4. l.got <= s.generated
      BY <1>2, <1>3, <1>5, <1>7, <3>3
    <3> QED
      BY <1>6, <2>2, <3>2, <3>3, <3>4 DEF Channel
  <2> QED
    BY <2>1, <2>2
<1>9. CallPlaced(l, s, f, t)
    BY <1>1, <1>3, <1>6, <1>8 DEF CallPlaced, Awaiting
<1>10. CallTold(l, s, t)
    BY <1>1, <1>3, <1>6 DEF CallTold, Awaiting
<1> QED
    BY <1>2, <1>3, <1>4, <1>5, <1>9, <1>10 DEF CallOK, CallTyped

\* The handler takes the end: nothing is left, and it has all the tokens.
LEMMA EndTaken ==
    ASSUME NEW k, NEW s, NEW e, NEW t, CallOK(k, s, e, t), k.phase \in Awaiting,
           e # << >>, Head(e) # "token"
    PROVE  Tail(e) = << >> /\ ~ s.live /\ k.got = s.generated - EosOf(s)
<1>1. CallTyped(k, s, e, t) /\ CallPlaced(k, s, e, t)
    BY DEF CallOK
<1>2. /\ e \in Seq(EventKind) /\ Len(e) \in Nat /\ Len(e) >= 1 /\ e[1] # "token"
      /\ k.got \in Nat
    BY <1>1 DEF CallTyped, CallRecord
<1>3. Channel(k, s, e, t.request)
    BY <1>1 DEF CallPlaced
<1>4. ~ s.live
    BY <1>2, <1>3 DEF Channel
<1>5. Len(e) = 1
  <2>1. ASSUME Len(e) >= 2 PROVE FALSE
    <3>1. 1 \in 1..(Len(e) - 1)
      BY <1>2, <2>1
    <3>2. \A i \in 1..(Len(e) - 1) : e[i] = "token"
      BY <1>3, <1>4 DEF Channel
    <3> QED
      BY <1>2, <3>1, <3>2
  <2>2. PICK n \in Nat : n = Len(e) /\ n >= 1
    BY <1>2
  <2>3. ~ (n >= 2)
    BY <2>1, <2>2
  <2> QED
    BY <2>2, <2>3
<1>6. k.got = s.generated - EosOf(s)
  <2>1. k.got + (Len(e) - 1) = s.generated - EosOf(s)
    BY <1>3, <1>4 DEF Channel
  <2>2. k.got + (Len(e) - 1) = k.got
    BY <1>2, <1>5
  <2> QED
    BY <2>1, <2>2
<1>7. Tail(e) = << >>
  <2>1. Tail(e) \in Seq(EventKind) /\ Len(Tail(e)) = 0
    BY <1>2, <1>5
  <2> QED
    BY <2>1
<1> QED
    BY <1>4, <1>6, <1>7

\* A call past its generation.
LEMMA Settled ==
    ASSUME NEW k, NEW s, NEW t, k \in CallRecord, s \in SessionRecord, t \in ToldRecord,
           k.got <= s.generated, k.phase \in {"done", "end", "over"},
           s.live => SessionRuns(s, t.request) /\ k.phase = "over",
           CallTold(k, s, t)
    PROVE  CallOK(k, s, << >>, t)
BY DEF CallOK, CallTyped, CallPlaced, Awaiting

-----------------------------------------------------------------------------
\* The whole worker after a step of call c.
At(f, c, v) == [d \in Call |-> IF d = c THEN v ELSE f[d]]

LEMMA ExceptIsAt ==
    ASSUME NEW f, f = [d \in Call |-> f[d]], NEW c \in Call, NEW v
    PROVE  [f EXCEPT ![c] = v] = At(f, c, v)
BY DEF At

LEMMA SameIsAt ==
    ASSUME NEW f, f = [d \in Call |-> f[d]], NEW c \in Call, NEW v, v = f[c],
           NEW g, g = f
    PROVE  g = At(f, c, v)
BY DEF At

LEMMA StepOfCall ==
    ASSUME WorkerInv, NEW c \in Call, NEW k, NEW s, NEW e, NEW t, CallOK(k, s, e, t),
           call' = At(call, c, k), session' = At(session, c, s),
           events' = At(events, c, e), told' = At(told, c, t),
           scheduler_up' = scheduler_up,
           \/ k.timer = call[c].timer /\ counted' = counted
           \/ /\ call[c].timer = "none" /\ k.timer \in Outcome
              /\ counted' = [counted EXCEPT ![k.timer] = @ + 1]
    PROVE  WorkerInv'
<1>1. /\ call'[c] = k /\ session'[c] = s /\ events'[c] = e /\ told'[c] = t
      /\ \A d \in Call : d # c => /\ call'[d] = call[d] /\ session'[d] = session[d]
                                  /\ events'[d] = events[d] /\ told'[d] = told[d]
    BY DEF At
<1>2. /\ DOMAIN call' = Call /\ DOMAIN session' = Call /\ DOMAIN events' = Call
      /\ DOMAIN told' = Call
      /\ call' = [d \in Call |-> call'[d]] /\ session' = [d \in Call |-> session'[d]]
      /\ events' = [d \in Call |-> events'[d]] /\ told' = [d \in Call |-> told'[d]]
    BY DEF At
<1>3. \A d \in Call : CallOK(call'[d], session'[d], events'[d], told'[d])
    BY <1>1 DEF WorkerInv
<1>4. counted \in [Outcome -> Nat]
    BY DEF WorkerInv
<1>5. counted' \in [Outcome -> Nat]
    BY <1>4
<1>6. ASSUME NEW o \in Outcome
      PROVE  IsFiniteSet(CallsWith(o)') /\ counted'[o] = Cardinality(CallsWith(o)')
  <2>1. IsFiniteSet(CallsWith(o)) /\ counted[o] = Cardinality(CallsWith(o))
    BY DEF WorkerInv
  <2>2. CASE k.timer = call[c].timer /\ counted' = counted
    <3>1. CallsWith(o)' = CallsWith(o)
      BY <1>1, <2>2 DEF CallsWith
    <3> QED
      BY <2>1, <2>2, <3>1
  <2>3. CASE /\ call[c].timer = "none" /\ k.timer \in Outcome
             /\ counted' = [counted EXCEPT ![k.timer] = @ + 1]
    <3>1. CASE o = k.timer
      <4>1. CallsWith(o)' = CallsWith(o) \cup {c} /\ c \notin CallsWith(o)
        BY <1>1, <2>3, <3>1 DEF CallsWith, Outcome
      <4>2. IsFiniteSet(CallsWith(o)')
            /\ Cardinality(CallsWith(o)') = Cardinality(CallsWith(o)) + 1
        BY <2>1, <4>1, FS_AddElement
      <4>3. counted'[o] = counted[o] + 1
        BY <1>4, <2>3, <3>1
      <4> QED
        BY <2>1, <4>2, <4>3
    <3>2. CASE o # k.timer
      <4>1. CallsWith(o)' = CallsWith(o)
        BY <1>1, <2>3, <3>2 DEF CallsWith, Outcome
      <4>2. counted'[o] = counted[o]
        BY <1>4, <2>3, <3>2
      <4> QED
        BY <2>1, <4>1, <4>2
    <3> QED
      BY <3>1, <3>2
  <2> QED
    BY <2>2, <2>3
<1> QED
    BY <1>2, <1>3, <1>5, <1>6 DEF WorkerInv

LEMMA WorkerParts ==
    ASSUME WorkerInv, NEW c \in Call
    PROVE  /\ call = [d \in Call |-> call[d]] /\ session = [d \in Call |-> session[d]]
           /\ events = [d \in Call |-> events[d]] /\ told = [d \in Call |-> told[d]]
           /\ CallOK(call[c], session[c], events[c], told[c])
           /\ call[c] \in CallRecord /\ session[c] \in SessionRecord
           /\ events[c] \in Seq(EventKind) /\ told[c] \in ToldRecord
BY DEF WorkerInv, CallOK, CallTyped

LEMMA FinishedRecord ==
    ASSUME NEW k \in CallRecord, NEW p, NEW m
    PROVE  [k EXCEPT !.phase = p, !.timer = m] = [phase |-> p, timer |-> m, got |-> k.got]
<1>1. PICK y : y = [k EXCEPT !.phase = p, !.timer = m]
    OBVIOUS
<1>2. y \in [phase : {p}, timer : {m}, got : Nat]
    BY <1>1 DEF CallRecord
<1>3. y.phase = p /\ y.timer = m /\ y.got = k.got
    BY <1>1 DEF CallRecord
<1>4. y = [phase |-> y.phase, timer |-> y.timer, got |-> y.got]
    BY <1>2
<1> QED
    BY <1>1, <1>3, <1>4

\* What finish leaves of a call, and what it counts.
LEMMA FinishIs ==
    ASSUME WorkerInv, NEW c \in Call, NEW reached \in {"done", "over"}, NEW outcome \in Outcome,
           finish(c, reached, outcome),
           NEW l, l = [phase |-> reached,
                       timer |-> IF call[c].timer = "none" THEN outcome ELSE call[c].timer,
                       got |-> call[c].got]
    PROVE  /\ call' = At(call, c, l) /\ l \in CallRecord
           /\ \/ l.timer = call[c].timer /\ counted' = counted
              \/ /\ call[c].timer = "none" /\ l.timer \in Outcome
                 /\ counted' = [counted EXCEPT ![l.timer] = @ + 1]
<1>1. call = [d \in Call |-> call[d]] /\ call[c] \in CallRecord
    BY WorkerParts
<1>2. PICK k : k = call[c]
    OBVIOUS
<1>3. PICK m : m = IF k.timer = "none" THEN outcome ELSE k.timer
    OBVIOUS
<1>4. k \in CallRecord
    BY <1>1, <1>2
<1>5. l = [phase |-> reached, timer |-> m, got |-> k.got]
    BY <1>2, <1>3
<1>6. [k EXCEPT !.phase = reached, !.timer = m] = l
  <2>1. [k EXCEPT !.phase = reached, !.timer = m] = [phase |-> reached, timer |-> m, got |-> k.got]
    BY <1>4, FinishedRecord
  <2> QED
    BY <1>5, <2>1
<1>7. m \in Outcome \cup {"none"} /\ k.got \in Nat
    BY <1>3, <1>4 DEF CallRecord
<1>8. l \in CallRecord
    BY <1>5, <1>7 DEF CallRecord
<1>9. call' = [call EXCEPT ![c] = l]
  <2>1. call' = [call EXCEPT ![c] = [k EXCEPT !.phase = reached, !.timer = m]]
    <3>1. call' = [call EXCEPT ![c].phase = reached, ![c].timer = m]
      BY <1>2, <1>3 DEF finish
    <3>2. \A d \in Call : call'[d] = IF d = c THEN [k EXCEPT !.phase = reached, !.timer = m]
                                    ELSE call[d]
      BY <1>1, <1>2, <3>1
    <3>3. call' = [d \in Call |-> call'[d]]
      BY <1>1, <3>1
    <3> QED
      BY <1>1, <3>2, <3>3
  <2> QED
    BY <1>6, <2>1
<1>10. call' = At(call, c, l)
    BY <1>1, <1>9, ExceptIsAt
<1>11. l.timer = m
    BY <1>5
<1>12. counted' = IF k.timer = "none" THEN [counted EXCEPT ![outcome] = @ + 1] ELSE counted
    BY <1>2 DEF finish
<1> QED
    BY <1>2, <1>3, <1>8, <1>10, <1>11, <1>12

-----------------------------------------------------------------------------
\* A session that ends with an event that is not of its grammar's making.
LEMMA SessionEndsKeeps ==
    ASSUME WorkerInv, NEW c \in Call, session[c].live, NEW event \in EventKind, event # "token",
           event = "error" => told[c].request.format = Text,
           SessionEnds(c, session[c], event), UNCHANGED <<call, scheduler_up, counted, told>>
    PROVE  WorkerInv'
<1>1. PICK k, s, e, t : k = call[c] /\ s = session[c] /\ e = events[c] /\ t = told[c]
    OBVIOUS
<1>2. /\ call = [d \in Call |-> call[d]] /\ session = [d \in Call |-> session[d]]
      /\ events = [d \in Call |-> events[d]] /\ told = [d \in Call |-> told[d]]
      /\ CallOK(k, s, e, t) /\ k \in CallRecord /\ s \in SessionRecord
    BY <1>1, WorkerParts
<1>4. PICK z : z = [s EXCEPT !.live = FALSE]
    OBVIOUS
<1>5. PICK f : f = IF k.phase \notin {"new", "over"} THEN Append(e, event) ELSE e
    OBVIOUS
<1>6. /\ s.live
      /\ session' = [session EXCEPT ![c] = z]
      /\ events' = IF Listening(c) THEN [events EXCEPT ![c] = Append(@, event)] ELSE events
    BY <1>1, <1>4 DEF SessionEnds
<1>7. SessionRuns(s, t.request)
    BY <1>2, <1>6 DEF CallOK, CallPlaced
<1>9. z \in SessionRecord /\ ~ z.live /\ z.generated = s.generated /\ z.finished = s.finished
    BY <1>2, <1>4 DEF SessionRecord
<1>10. s.generated \in Nat /\ z.generated >= s.generated /\ z.generated - EosOf(z) = s.generated
    BY <1>2, <1>7, <1>9 DEF SessionRecord, EosOf, SessionRuns
<1>11. event = "error" => t.request.format = Text
    BY <1>1
<1>12. CallOK(k, z, f, t)
    BY <1>2, <1>5, <1>6, <1>9, <1>10, <1>11, SessionStops
<1>13. events' = At(events, c, f)
  <2>1. events' = IF k.phase \notin {"new", "over"} THEN [events EXCEPT ![c] = f] ELSE events
    BY <1>1, <1>2, <1>5, <1>6 DEF Listening
  <2>2. CASE k.phase \notin {"new", "over"}
    BY <1>2, <2>1, <2>2, ExceptIsAt
  <2>3. CASE k.phase \in {"new", "over"}
    <3>1. events' = events /\ f = events[c]
      BY <1>1, <1>5, <2>1, <2>3
    <3> QED
      BY <1>2, <3>1, SameIsAt
  <2> QED
    BY <2>2, <2>3
<1>14. session' = At(session, c, z)
    BY <1>2, <1>6, ExceptIsAt
<1>15. call' = At(call, c, k) /\ told' = At(told, c, t)
  <2>1. call' = call /\ told' = told
    OBVIOUS
  <2> QED
    BY <1>1, <1>2, <2>1, SameIsAt
<1>16. UNCHANGED <<scheduler_up, counted>>
    OBVIOUS
<1> QED
    BY <1>1, <1>12, <1>13, <1>14, <1>15, <1>16, StepOfCall

LEMMA StepFailsKeeps ==
    ASSUME WorkerInv, NEW c \in Call, StepFails(c)
    PROVE  WorkerInv'
<1>1. /\ session[c].live /\ SessionEnds(c, session[c], "native_error")
      /\ UNCHANGED <<call, scheduler_up, counted, told>>
    BY DEF StepFails
<1>2. "native_error" \in EventKind
    BY DEF EventKind, Failure
<1> QED
    BY <1>1, <1>2, SessionEndsKeeps

LEMMA StepYieldsNothingKeeps ==
    ASSUME WorkerInv, NEW c \in Call, StepYieldsNothing(c)
    PROVE  WorkerInv'
<1>1. PICK k, s, e, t : k = call[c] /\ s = session[c] /\ e = events[c] /\ t = told[c]
    OBVIOUS
<1>2. CallOK(k, s, e, t) /\ s \in SessionRecord
    BY <1>1, WorkerParts
<1>3. PICK event : event = IF (s.finished \/ s.generated >= t.request.max_tokens)
                              /\ (t.request.format = Text \/ is_accepting(s.state))
                           THEN "finished" ELSE "error"
    OBVIOUS
<1>4. /\ s.live
      /\ (s.finished \/ s.generated >= t.request.max_tokens) \/ Candidates(c) = {}
      /\ SessionEnds(c, session[c], event)
      /\ UNCHANGED <<call, scheduler_up, counted, told>>
    BY <1>1, <1>3 DEF StepYieldsNothing, Asked
<1>5. SessionRuns(s, t.request)
    BY <1>2, <1>4 DEF CallOK, CallPlaced
\* In a grammar there is always a token and always room for it.
<1>6. t.request.format = Text
  <2>1. ASSUME t.request.format # Text PROVE FALSE
    <3>1. Candidates(c) # {}
      BY <1>1, <1>2, <1>4, <2>1, RunningCandidates DEF Asked
    <3>2. t.request.max_tokens \in Nat /\ t.request.max_tokens >= 6
      BY <1>5, <2>1 DEF SessionRuns, SessionIsValid, compile_constraint, JSON_GRAMMAR_TOKENS
    <3>3. ~ s.finished /\ s.generated = s.state /\ s.state < 6
      BY <1>5, <2>1 DEF SessionRuns, JSON_GRAMMAR_TOKENS
    <3>4. s.state \in Nat
      BY <1>2 DEF SessionRecord
    <3> QED
      BY <1>4, <3>1, <3>2, <3>3, <3>4
  <2> QED
    BY <2>1
<1>7. event \in EventKind /\ event # "token"
    BY <1>3 DEF EventKind, Failure
<1> QED
    BY <1>1, <1>4, <1>6, <1>7, SessionEndsKeeps

\* At the automaton's last state only the end of the sequence is left.
LEMMA LastStateIsEos ==
    ASSUME NEW format, format # Text
    PROVE  allowed_token_ids(format, 5) = {EOS_TOKEN}
<1>1. PICK a, b : a = Elements(format.answer.choices) /\ b = Elements(format.confidence.choices)
    OBVIOUS
<1>2. allowed_token_ids(format, 5) =
        <<{JSON_START}, a, {JSON_SEPARATOR}, b, {JSON_END}, {EOS_TOKEN}, {}>>[5 + 1]
    BY <1>1 DEF allowed_token_ids, Transitions
<1> QED
    BY <1>2

LEMMA StepChoosesKeeps ==
    ASSUME WorkerInv, NEW c \in Call, NEW token \in Vocabulary, StepChooses(c, token)
    PROVE  WorkerInv'
<1>1. PICK k, s, e, t : k = call[c] /\ s = session[c] /\ e = events[c] /\ t = told[c]
    OBVIOUS
<1>2. /\ call = [d \in Call |-> call[d]] /\ session = [d \in Call |-> session[d]]
      /\ events = [d \in Call |-> events[d]] /\ told = [d \in Call |-> told[d]]
      /\ CallOK(k, s, e, t) /\ k \in CallRecord /\ s \in SessionRecord
    BY <1>1, WorkerParts
<1>3. /\ s.live /\ ~ s.finished /\ s.generated < t.request.max_tokens
      /\ token \in Candidates(c) /\ UNCHANGED <<call, scheduler_up, counted, told>>
    BY <1>1 DEF StepChooses, Asked
<1>4. SessionRuns(s, t.request)
    BY <1>2, <1>3 DEF CallOK, CallPlaced
<1>5. call' = At(call, c, k) /\ told' = At(told, c, t)
    BY <1>1, <1>2, <1>3, SameIsAt
<1>6. t.request.format # Text => token \in allowed_token_ids(t.request.format, s.state)
    BY <1>1, <1>2, <1>3, RunningCandidates DEF Asked
<1>7. PICK eos \in BOOLEAN : eos = (token = EOS_TOKEN)
    OBVIOUS
<1>8. PICK z : z = [s EXCEPT !.generated = @ + 1, !.finished = eos,
                             !.state = IF t.request.format = Text THEN @ ELSE @ + 1]
    OBVIOUS
<1>9. Advanced(c, token) = z
    BY <1>1, <1>7, <1>8 DEF Advanced, Asked
<1>10. \/ /\ token = EOS_TOKEN /\ SessionEnds(c, z, "finished")
       \/ /\ ~ Listening(c) /\ SessionEnds(c, z, "token")
       \/ /\ token # EOS_TOKEN /\ Listening(c)
          /\ session' = [session EXCEPT ![c] = z]
          /\ events' = [events EXCEPT ![c] = Append(@, "token")]
    BY <1>1, <1>6, <1>9 DEF StepChooses, Asked
<1>11. /\ t.request.max_tokens \in Nat /\ t.request.max_tokens <= max_context
       /\ max_context \in Nat /\ s.generated \in Nat /\ s.state \in Nat
    BY <1>2, <1>4, ContextIsPositive DEF SessionRuns, SessionIsValid, SessionRecord
<1>12. PICK q \in 0..6 : q = IF t.request.format = Text THEN s.state ELSE s.state + 1
    BY <1>4, <1>11 DEF SessionRuns, JSON_GRAMMAR_TOKENS
<1>13. PICK g \in 0..max_context : g = s.generated + 1
    BY <1>3, <1>11
<1>14. CASE \/ token = EOS_TOKEN /\ SessionEnds(c, z, "finished")
            \/ ~ Listening(c) /\ SessionEnds(c, z, "token")
  <2>1. PICK event : /\ event \in {"finished", "token"} /\ SessionEnds(c, z, event)
                     /\ (event = "token" => ~ Listening(c)) /\ (event = "finished" => token = EOS_TOKEN)
    BY <1>14
  <2>2. PICK y : y = [z EXCEPT !.live = FALSE]
    OBVIOUS
  <2>3. y = [live |-> FALSE, state |-> q, generated |-> g, finished |-> eos]
    BY <1>2, <1>8, <1>12, <1>13, <2>2 DEF SessionRecord
  <2>4. PICK n \in BOOLEAN : n = FALSE
    OBVIOUS
  <2>5. q \in 0..JSON_GRAMMAR_TOKENS
    BY DEF JSON_GRAMMAR_TOKENS
  <2>6. [live |-> n, state |-> q, generated |-> g, finished |-> eos] \in SessionRecord
    BY <2>5, SessionTyped
  <2>7. /\ y \in SessionRecord /\ ~ y.live /\ y.generated = s.generated + 1 /\ y.finished = eos
    BY <1>13, <2>3, <2>4, <2>6
  <2>8. event = "finished" => y.generated - EosOf(y) = s.generated
    <3>1. ASSUME event = "finished" PROVE y.generated - EosOf(y) = s.generated
      <4>1. y.finished = TRUE
        BY <1>7, <2>1, <2>7, <3>1
      <4>2. EosOf(y) = 1
        BY <4>1 DEF EosOf
      <4> QED
        BY <1>11, <2>7, <4>2
    <3> QED
      BY <3>1
  <2>9. PICK f : f = IF k.phase \notin {"new", "over"} THEN Append(e, event) ELSE e
    OBVIOUS
  <2>10. /\ event \in EventKind /\ event # "error"
         /\ (k.phase \notin {"new", "over"} => event = "finished")
    BY <1>1, <2>1 DEF EventKind, Listening
  <2>11. y.generated >= s.generated
    BY <1>11, <2>7
  <2>12. CallOK(k, y, f, t)
    BY <1>2, <1>3, <2>7, <2>8, <2>9, <2>10, <2>11, SessionStops
  <2>13. events' = At(events, c, f)
    <3>1. events' = IF k.phase \notin {"new", "over"} THEN [events EXCEPT ![c] = f] ELSE events
      BY <1>1, <1>2, <2>1, <2>9 DEF Listening, SessionEnds
    <3>2. CASE k.phase \notin {"new", "over"}
      BY <1>2, <3>1, <3>2, ExceptIsAt
    <3>3. CASE k.phase \in {"new", "over"}
      <4>1. events' = events /\ f = events[c]
        BY <1>1, <2>9, <3>1, <3>3
      <4> QED
        BY <1>2, <4>1, SameIsAt
    <3> QED
      BY <3>2, <3>3
  <2>14. session' = At(session, c, y)
    BY <1>2, <2>1, <2>2, ExceptIsAt DEF SessionEnds
  <2> QED
    BY <1>1, <1>3, <1>5, <2>12, <2>13, <2>14, StepOfCall
<1>15. CASE /\ token # EOS_TOKEN /\ Listening(c)
            /\ session' = [session EXCEPT ![c] = z]
            /\ events' = [events EXCEPT ![c] = Append(@, "token")]
  <2>1. z = [s EXCEPT !.generated = @ + 1, !.finished = FALSE,
                      !.state = IF t.request.format = Text THEN @ ELSE @ + 1]
    BY <1>7, <1>8, <1>15
  <2>2. t.request.format # Text => s.state < 5
    <3>1. ASSUME t.request.format # Text, s.state = 5 PROVE FALSE
      <4>1. allowed_token_ids(t.request.format, 5) = {EOS_TOKEN}
        BY <3>1, LastStateIsEos
      <4> QED
        BY <1>6, <1>15, <3>1, <4>1
    <3>2. t.request.format # Text => s.state < 6
      BY <1>4 DEF SessionRuns, JSON_GRAMMAR_TOKENS
    <3> QED
      BY <1>11, <3>1, <3>2
  <2>3. PICK f : f = Append(e, "token")
    OBVIOUS
  <2>4. k.phase \notin {"new", "over"}
    BY <1>1, <1>15 DEF Listening
  <2>5. CallOK(k, z, f, t)
    BY <1>2, <1>3, <2>1, <2>2, <2>3, <2>4, SessionGoesOn
  <2>6. events' = At(events, c, f)
    <3>1. events' = [events EXCEPT ![c] = f]
      BY <1>1, <1>2, <1>15, <2>3
    <3> QED
      BY <1>2, <3>1, ExceptIsAt
  <2>7. session' = At(session, c, z)
    BY <1>2, <1>15, ExceptIsAt
  <2> QED
    BY <1>1, <1>3, <1>5, <2>5, <2>6, <2>7, StepOfCall
<1> QED
    BY <1>10, <1>14, <1>15

LEMMA SchedulerDiesKeeps ==
    ASSUME WorkerInv, SchedulerDies
    PROVE  WorkerInv'
<1>1. /\ session' = [c \in Call |-> [session[c] EXCEPT !.live = FALSE]]
      /\ events' = [c \in Call |-> IF session[c].live /\ Listening(c)
                                   THEN Append(events[c], "closed") ELSE events[c]]
      /\ UNCHANGED <<call, counted, told>> /\ scheduler_up' = FALSE
    BY DEF SchedulerDies
<1>2. ASSUME NEW c \in Call
      PROVE  CallOK(call'[c], session'[c], events'[c], told'[c])
  <2>1. PICK k, s, e, t : k = call[c] /\ s = session[c] /\ e = events[c] /\ t = told[c]
    OBVIOUS
  <2>2. CallOK(k, s, e, t) /\ s \in SessionRecord /\ k \in CallRecord
    BY <2>1, WorkerParts
  <2>3. PICK z, f : z = session'[c] /\ f = events'[c]
    OBVIOUS
  <2>4. z = [s EXCEPT !.live = FALSE]
    BY <1>1, <2>1, <2>3
  <2>5. f = IF s.live /\ k.phase \notin {"new", "over"} THEN Append(e, "closed") ELSE e
    BY <1>1, <2>1, <2>3 DEF Listening
  <2>6. z \in SessionRecord /\ ~ z.live /\ z.generated = s.generated /\ z.finished = s.finished
    BY <2>2, <2>4 DEF SessionRecord
  <2>7. CallOK(k, z, f, t)
    <3>1. CASE s.live
      <4>1. s.generated \in Nat /\ ~ s.finished
        BY <2>2, <3>1 DEF CallOK, CallPlaced, SessionRuns, SessionRecord
      <4>2. z.generated >= s.generated /\ z.generated - EosOf(z) = s.generated
        BY <2>6, <4>1 DEF EosOf
      <4>3. "closed" \in EventKind
        BY DEF EventKind, Failure
      <4>4. f = IF k.phase \notin {"new", "over"} THEN Append(e, "closed") ELSE e
        BY <2>5, <3>1
      <4> QED
        BY <2>2, <2>6, <3>1, <4>2, <4>3, <4>4, SessionStops
    <3>2. CASE ~ s.live
      <4>1. s.live \in BOOLEAN
        BY <2>2 DEF SessionRecord
      <4>2. z = s
        BY <2>2, <2>4, <3>2, <4>1 DEF SessionRecord
      <4> QED
        BY <2>2, <2>5, <3>2, <4>2
    <3> QED
      BY <3>1, <3>2
  <2> QED
    BY <1>1, <2>1, <2>3, <2>7
<1>3. /\ DOMAIN call' = Call /\ DOMAIN session' = Call /\ DOMAIN events' = Call
      /\ DOMAIN told' = Call
      /\ call' = [d \in Call |-> call'[d]] /\ session' = [d \in Call |-> session'[d]]
      /\ events' = [d \in Call |-> events'[d]] /\ told' = [d \in Call |-> told'[d]]
    BY <1>1 DEF WorkerInv
<1>4. \A o : CallsWith(o)' = CallsWith(o)
    BY <1>1 DEF CallsWith
<1>5. /\ scheduler_up' \in BOOLEAN /\ counted' \in [Outcome -> Nat]
      /\ \A o \in Outcome : IsFiniteSet(CallsWith(o)') /\ counted'[o] = Cardinality(CallsWith(o)')
    BY <1>1, <1>4 DEF WorkerInv
<1> QED
    BY <1>2, <1>3, <1>5 DEF WorkerInv

LEMMA ChatKeeps ==
    ASSUME WorkerInv, NEW c \in Call, NEW r \in ChatRequest, chat_completions(c, r)
    PROVE  WorkerInv'
<1>1. PICK k, s, e, t : k = call[c] /\ s = session[c] /\ e = events[c] /\ t = told[c]
    OBVIOUS
<1>2. /\ call = [d \in Call |-> call[d]] /\ session = [d \in Call |-> session[d]]
      /\ events = [d \in Call |-> events[d]] /\ told = [d \in Call |-> told[d]]
      /\ CallOK(k, s, e, t) /\ k \in CallRecord /\ s \in SessionRecord
    BY <1>1, WorkerParts
<1>3. k = NoCall /\ s = NoWorkerSession /\ e = << >>
  <2>1. call[c].phase = "new"
    BY DEF chat_completions
  <2>2. k.phase = "new"
    BY <1>1, <2>1, Zenon
  <2> QED
    BY <1>2, <2>2 DEF CallOK, CallPlaced, Awaiting
<1>4. CASE /\ finish(c, "over", "error")
           /\ Tell(c, r, "error")
           /\ UNCHANGED <<session, events, scheduler_up>>
  <2>1. PICK l : l = [phase |-> "over",
                      timer |-> IF call[c].timer = "none" THEN "error" ELSE call[c].timer,
                      got |-> call[c].got]
    OBVIOUS
  <2>2. /\ call' = At(call, c, l) /\ l \in CallRecord
        /\ \/ l.timer = call[c].timer /\ counted' = counted
           \/ /\ call[c].timer = "none" /\ l.timer \in Outcome
              /\ counted' = [counted EXCEPT ![l.timer] = @ + 1]
    BY <1>4, <2>1, FinishIs DEF Outcome
  <2>3. PICK u : u = [request |-> r, last |-> "error"]
    OBVIOUS
  <2>4. u \in ToldRecord /\ u.last = "error"
    BY <2>3 DEF ToldRecord
  <2>5. l.phase = "over" /\ l.timer = "error" /\ l.got = 0
    <3>1. k.timer = "none" /\ k.got = 0
      BY <1>3 DEF NoCall
    <3>2. call[c].timer = "none" /\ call[c].got = 0
      BY <1>1, <3>1
    <3> QED
      BY <2>1, <3>2
  <2>6. CallOK(l, s, e, u)
    <3>1. CallTold(l, s, u)
      BY <2>4, <2>5 DEF CallTold
    <3>2. ~ s.live /\ s.generated = 0
      BY <1>3 DEF NoWorkerSession
    <3> QED
      BY <1>2, <1>3, <2>2, <2>4, <2>5, <3>1, <3>2, Settled
  <2>7. told' = At(told, c, u)
    BY <1>2, <1>4, <2>3, ExceptIsAt DEF Tell
  <2>8. session' = At(session, c, s) /\ events' = At(events, c, e)
    <3>1. session' = session /\ events' = events
      BY <1>4
    <3> QED
      BY <1>1, <1>2, <3>1, SameIsAt
  <2> QED
    BY <1>4, <2>2, <2>6, <2>7, <2>8, StepOfCall, Zenon
<1>5. CASE /\ SessionIsValid(r)
           /\ call' = [call EXCEPT ![c].phase = IF r.stream THEN "role" ELSE "collect"]
           /\ session' = [session EXCEPT ![c].live = TRUE]
           /\ Tell(c, r, "nothing")
           /\ UNCHANGED <<events, scheduler_up, counted>>
  <2>1. PICK p : p = IF r.stream THEN "role" ELSE "collect"
    OBVIOUS
  <2>2. PICK l, z, u : /\ l = [phase |-> p, timer |-> "none", got |-> 0]
                       /\ z = [live |-> TRUE, state |-> 0, generated |-> 0, finished |-> FALSE]
                       /\ u = [request |-> r, last |-> "nothing"]
    OBVIOUS
  <2>3. p \in Awaiting
    BY <2>1 DEF Awaiting
  <2>4. l \in CallRecord /\ u \in ToldRecord
    BY <2>2, <2>3 DEF CallRecord, ToldRecord, Awaiting
  <2>5. z \in SessionRecord
    BY <2>2, ContextIsPositive DEF SessionRecord, JSON_GRAMMAR_TOKENS
  <2>6. SessionRuns(z, r)
    <3>1. r.max_tokens \in Nat
      BY <1>5 DEF SessionIsValid
    <3> QED
      BY <1>5, <2>2, <3>1 DEF SessionRuns, JSON_GRAMMAR_TOKENS
  <2>7. Channel(l, z, << >>, r)
    BY <2>2 DEF Channel
  <2>8. CallPlaced(l, z, << >>, u)
    BY <2>2, <2>3, <2>6, <2>7 DEF CallPlaced, Awaiting
  <2>9. CallTold(l, z, u)
    BY <2>2, <2>3 DEF CallTold, Awaiting
  <2>10. CallOK(l, z, e, u)
    BY <1>3, <2>4, <2>5, <2>8, <2>9 DEF CallOK, CallTyped
  <2>11. call' = At(call, c, l)
    <3>1. [k EXCEPT !.phase = p] = l
      BY <1>3, <2>2 DEF NoCall
    <3>2. call' = [call EXCEPT ![c] = [k EXCEPT !.phase = p]]
      BY <1>1, <1>5, <2>1
    <3> QED
      BY <1>2, <3>1, <3>2, ExceptIsAt
  <2>12. session' = At(session, c, z)
    <3>1. [s EXCEPT !.live = TRUE] = z
      <4>1. PICK n, y : n = FALSE /\ y = TRUE
        OBVIOUS
      <4>2. /\ s = [live |-> n, state |-> 0, generated |-> 0, finished |-> n]
            /\ z = [live |-> y, state |-> 0, generated |-> 0, finished |-> n]
        BY <1>3, <2>2, <4>1 DEF NoWorkerSession
      <4>3. [s EXCEPT !.live = y] = z
        BY <4>2
      <4> QED
        BY <4>1, <4>3
    <3>2. session' = [session EXCEPT ![c] = [s EXCEPT !.live = TRUE]]
      BY <1>1, <1>5
    <3> QED
      BY <1>2, <3>1, <3>2, ExceptIsAt
  <2>13. told' = At(told, c, u)
    BY <1>2, <1>5, <2>2, ExceptIsAt DEF Tell
  <2>14. events' = At(events, c, e)
    <3>1. events' = events
      BY <1>5
    <3> QED
      BY <1>1, <1>2, <3>1, SameIsAt
  <2>15. l.timer = call[c].timer /\ counted' = counted /\ scheduler_up' = scheduler_up
    BY <1>1, <1>3, <1>5, <2>2 DEF NoCall
  <2> QED
    BY <2>10, <2>11, <2>12, <2>13, <2>14, <2>15, StepOfCall
<1> QED
    BY <1>4, <1>5 DEF chat_completions

LEMMA TakesTokenKeeps ==
    ASSUME WorkerInv, NEW c \in Call, TakesToken(c)
    PROVE  WorkerInv'
<1>1. PICK k, s, e, t : k = call[c] /\ s = session[c] /\ e = events[c] /\ t = told[c]
    OBVIOUS
<1>2. /\ call = [d \in Call |-> call[d]] /\ session = [d \in Call |-> session[d]]
      /\ events = [d \in Call |-> events[d]] /\ told = [d \in Call |-> told[d]]
      /\ CallOK(k, s, e, t) /\ k \in CallRecord
    BY <1>1, WorkerParts
<1>3. PICK l, f : l = [k EXCEPT !.got = @ + 1] /\ f = Tail(e)
    OBVIOUS
<1>4. /\ k.phase \in Awaiting /\ e # << >> /\ Head(e) = "token"
      /\ call' = [call EXCEPT ![c] = l] /\ events' = [events EXCEPT ![c] = f]
      /\ session' = session /\ told' = told /\ UNCHANGED <<scheduler_up, counted>>
    BY <1>1, <1>3 DEF TakesToken, Takes, Awaiting
<1>5. CallOK(l, s, f, t)
    BY <1>2, <1>3, <1>4, TokenTaken
<1>6. l.timer = k.timer
    BY <1>2, <1>3 DEF CallRecord
<1>7. call' = At(call, c, l) /\ events' = At(events, c, f)
    BY <1>2, <1>4, ExceptIsAt
<1>8. session' = session /\ told' = told
    BY <1>4
<1>9. session' = At(session, c, s) /\ told' = At(told, c, t)
    BY <1>1, <1>2, <1>8, SameIsAt
<1> QED
    BY <1>1, <1>4, <1>5, <1>6, <1>7, <1>9, StepOfCall

\* The handler has the end of its session and finishes its timer with it.
LEMMA EndFinishes ==
    ASSUME WorkerInv, NEW c \in Call, call[c].phase \in {"collect", "generate"},
           NEW event \in {"finished", "error", "native_error", "closed"}, Takes(c, event),
           NEW reached \in {"done", "over"}, NEW outcome \in {"success", "error"},
           NEW what \in {"complete", "error"}, Tell(c, Asked(c), what),
           finish(c, reached, outcome),
           outcome = "success" <=> what = "complete",
           outcome = "success" => reached = "over"
    PROVE  WorkerInv'
<1>1. PICK k, s, e, t : k = call[c] /\ s = session[c] /\ e = events[c] /\ t = told[c]
    OBVIOUS
<1>2. /\ call = [d \in Call |-> call[d]] /\ session = [d \in Call |-> session[d]]
      /\ events = [d \in Call |-> events[d]] /\ told = [d \in Call |-> told[d]]
      /\ CallOK(k, s, e, t) /\ k \in CallRecord /\ s \in SessionRecord /\ t \in ToldRecord
    BY <1>1, WorkerParts
<1>3. k.phase \in Awaiting /\ e # << >> /\ Head(e) # "token"
    BY <1>1 DEF Awaiting, Takes
<1>4. Tail(e) = << >> /\ ~ s.live /\ k.got = s.generated - EosOf(s)
    BY <1>2, <1>3, EndTaken
<1>5. k.timer = "none" /\ k.got <= s.generated
    BY <1>2, <1>3 DEF CallOK, CallPlaced
<1>6. PICK l : l = [phase |-> reached,
                    timer |-> IF call[c].timer = "none" THEN outcome ELSE call[c].timer,
                    got |-> call[c].got]
    OBVIOUS
<1>7. /\ call' = At(call, c, l) /\ l \in CallRecord
      /\ \/ l.timer = call[c].timer /\ counted' = counted
         \/ /\ call[c].timer = "none" /\ l.timer \in Outcome
            /\ counted' = [counted EXCEPT ![l.timer] = @ + 1]
    BY <1>6, FinishIs DEF Outcome
<1>8. l.phase = reached /\ l.timer = outcome /\ l.got = k.got
    BY <1>1, <1>5, <1>6
<1>9. PICK u : u = [request |-> t.request, last |-> what]
    OBVIOUS
<1>10. u \in ToldRecord /\ u.last = what
    BY <1>2, <1>9 DEF ToldRecord
<1>11. CallTold(l, s, u)
    BY <1>4, <1>8, <1>10 DEF CallTold
<1>12. CallOK(l, s, << >>, u)
    BY <1>2, <1>4, <1>5, <1>7, <1>8, <1>10, <1>11, Settled
<1>13. told' = At(told, c, u)
    BY <1>1, <1>2, <1>9, ExceptIsAt DEF Tell, Asked
<1>14. events' = At(events, c, << >>)
  <2>1. events' = [events EXCEPT ![c] = << >>]
    BY <1>1, <1>2, <1>4 DEF Takes
  <2> QED
    BY <1>2, <2>1, ExceptIsAt
<1>15. session' = At(session, c, s) /\ scheduler_up' = scheduler_up
  <2>1. session' = session /\ scheduler_up' = scheduler_up
    BY DEF Takes
  <2> QED
    BY <1>1, <1>2, <2>1, SameIsAt
<1> QED
    BY <1>7, <1>12, <1>13, <1>14, <1>15, StepOfCall

LEMMA CollectKeeps ==
    ASSUME WorkerInv, NEW c \in Call, CollectEnds(c)
    PROVE  WorkerInv'
<1>1. call[c].phase \in {"collect", "generate"}
    BY DEF CollectEnds
<1>2. CASE Takes(c, "finished") /\ finish(c, "over", "success") /\ Tell(c, Asked(c), "complete")
    BY <1>1, <1>2, EndFinishes
<1>3. CASE /\ \E e \in Failure : Takes(c, e)
           /\ finish(c, "over", "error") /\ Tell(c, Asked(c), "error")
  <2>1. PICK event \in Failure : Takes(c, event)
    BY <1>3
  <2>2. event \in {"finished", "error", "native_error", "closed"}
    BY DEF Failure
  <2> QED
    BY <1>1, <1>3, <2>1, <2>2, EndFinishes
<1> QED
    BY <1>2, <1>3 DEF CollectEnds

\* A call changes its phase only.
LEMMA PhaseRecord ==
    ASSUME NEW k \in CallRecord,
           NEW p \in {"new", "collect", "role", "generate", "done", "end", "over"},
           NEW l, l = [k EXCEPT !.phase = p]
    PROVE  l \in CallRecord /\ l.phase = p /\ l.timer = k.timer /\ l.got = k.got
BY DEF CallRecord

LEMMA StreamKeeps ==
    ASSUME WorkerInv, NEW c \in Call, StreamRole(c) \/ StreamFinishes(c) \/ StreamEnds(c)
    PROVE  WorkerInv'
<1>1. PICK k, s, e, t : k = call[c] /\ s = session[c] /\ e = events[c] /\ t = told[c]
    OBVIOUS
<1>2. /\ call = [d \in Call |-> call[d]] /\ session = [d \in Call |-> session[d]]
      /\ events = [d \in Call |-> events[d]] /\ told = [d \in Call |-> told[d]]
      /\ CallOK(k, s, e, t) /\ k \in CallRecord /\ s \in SessionRecord /\ t \in ToldRecord
      /\ CallTyped(k, s, e, t) /\ CallPlaced(k, s, e, t) /\ CallTold(k, s, t)
    BY <1>1, WorkerParts DEF CallOK
\* The role's chunk, and [DONE].
<1>3. ASSUME NEW p, \/ k.phase = "role" /\ p = "generate"
                    \/ k.phase = "done" /\ p = "end",
             call' = [call EXCEPT ![c].phase = p],
             UNCHANGED <<session, events, scheduler_up, counted, told>>
      PROVE  WorkerInv'
  <2>1. PICK l : l = [k EXCEPT !.phase = p]
    OBVIOUS
  <2>2. l \in CallRecord /\ l.phase = p /\ l.timer = k.timer /\ l.got = k.got
    BY <1>2, <1>3, <2>1, PhaseRecord
  <2>3. CallOK(l, s, e, t)
    <3>1. Channel(k, s, e, t.request) => Channel(l, s, e, t.request)
      BY <2>2 DEF Channel
    <3>2. CallPlaced(l, s, e, t)
      BY <1>2, <1>3, <2>2, <3>1 DEF CallPlaced, Awaiting
    <3>3. CallTold(l, s, t)
      BY <1>2, <1>3, <2>2 DEF CallTold
    <3> QED
      BY <1>2, <2>2, <3>2, <3>3 DEF CallOK, CallTyped
  <2>4. call' = At(call, c, l)
    <3>1. call' = [call EXCEPT ![c] = l]
      BY <1>1, <1>3, <2>1
    <3> QED
      BY <1>2, <3>1, ExceptIsAt
  <2>5. session' = session /\ events' = events /\ told' = told
    BY <1>3
  <2>6. session' = At(session, c, s) /\ events' = At(events, c, e) /\ told' = At(told, c, t)
    BY <1>1, <1>2, <2>5, SameIsAt
  <2> QED
    BY <1>1, <1>3, <2>2, <2>3, <2>4, <2>6, StepOfCall
<1>4. CASE StreamRole(c)
    BY <1>1, <1>3, <1>4 DEF StreamRole
<1>5. CASE StreamFinishes(c)
  <2>1. k.phase = "generate"
    BY <1>1, <1>5 DEF StreamFinishes
  <2>2. CASE /\ Takes(c, "finished")
             /\ call' = [call EXCEPT ![c].phase = "done"]
             /\ Tell(c, Asked(c), "complete")
             /\ UNCHANGED counted
    <3>1. k.phase \in Awaiting /\ e # << >> /\ Head(e) # "token"
      BY <1>1, <2>1, <2>2 DEF Awaiting, Takes
    <3>2. Tail(e) = << >> /\ ~ s.live /\ k.got = s.generated - EosOf(s)
      BY <1>2, <3>1, EndTaken
    <3>3. PICK l : l = [k EXCEPT !.phase = "done"]
      OBVIOUS
    <3>4. l \in CallRecord /\ l.phase = "done" /\ l.timer = k.timer /\ l.got = k.got
      BY <1>2, <3>3, PhaseRecord
    <3>5. k.timer = "none" /\ k.got <= s.generated
      BY <1>2, <3>1 DEF CallPlaced
    <3>6. PICK u : u = [request |-> t.request, last |-> "complete"]
      OBVIOUS
    <3>7. u \in ToldRecord /\ u.last = "complete"
      BY <1>2, <3>6 DEF ToldRecord
    <3>8. CallTold(l, s, u)
      BY <3>2, <3>4, <3>5, <3>7 DEF CallTold
    <3>9. CallOK(l, s, << >>, u)
      BY <1>2, <3>2, <3>4, <3>5, <3>7, <3>8, Settled
    <3>10. call' = At(call, c, l)
      <4>1. call' = [call EXCEPT ![c] = l]
        BY <1>1, <2>2, <3>3
      <4> QED
        BY <1>2, <4>1, ExceptIsAt
    <3>11. told' = At(told, c, u)
      BY <1>1, <1>2, <2>2, <3>6, ExceptIsAt DEF Tell, Asked
    <3>12. events' = At(events, c, << >>)
      <4>1. events' = [events EXCEPT ![c] = << >>]
        BY <1>1, <1>2, <2>2, <3>2 DEF Takes
      <4> QED
        BY <1>2, <4>1, ExceptIsAt
    <3>13. session' = session /\ scheduler_up' = scheduler_up /\ counted' = counted
      BY <2>2 DEF Takes
    <3>14. session' = At(session, c, s)
      BY <1>1, <1>2, <3>13, SameIsAt
    <3> QED
      BY <1>1, <3>4, <3>9, <3>10, <3>11, <3>12, <3>13, <3>14, StepOfCall
  <2>3. CASE /\ \E f \in Failure : Takes(c, f)
             /\ finish(c, "done", "error") /\ Tell(c, Asked(c), "error")
    <3>1. PICK event \in Failure : Takes(c, event)
      BY <2>3
    <3>2. event \in {"finished", "error", "native_error", "closed"}
      BY DEF Failure
    <3> QED
      BY <1>1, <2>1, <2>3, <3>1, <3>2, EndFinishes
  <2> QED
    BY <1>5, <2>2, <2>3 DEF StreamFinishes
<1>6. CASE StreamEnds(c)
  <2>1. CASE /\ call[c].phase = "done"
             /\ call' = [call EXCEPT ![c].phase = "end"]
             /\ UNCHANGED <<session, events, scheduler_up, counted, told>>
    BY <1>1, <1>3, <2>1, Zenon
  <2>2. CASE /\ call[c].phase = "end"
             /\ finish(c, "over", "success")
             /\ UNCHANGED <<session, events, scheduler_up, told>>
    <3>1. PICK l : l = [phase |-> "over",
                        timer |-> IF call[c].timer = "none" THEN "success" ELSE call[c].timer,
                        got |-> call[c].got]
      OBVIOUS
    <3>2. /\ call' = At(call, c, l) /\ l \in CallRecord
          /\ \/ l.timer = call[c].timer /\ counted' = counted
             \/ /\ call[c].timer = "none" /\ l.timer \in Outcome
                /\ counted' = [counted EXCEPT ![l.timer] = @ + 1]
      BY <2>2, <3>1, FinishIs DEF Outcome
    <3>3. /\ l.phase = "over" /\ l.got = k.got
          /\ l.timer = IF k.timer = "none" THEN "success" ELSE k.timer
      BY <1>1, <3>1
    <3>4. k.phase = "end" /\ e = << >> /\ ~ s.live /\ k.got <= s.generated
      BY <1>1, <1>2, <2>2 DEF CallPlaced, Awaiting
    <3>5. CallTold(l, s, t)
      BY <1>2, <3>3, <3>4 DEF CallTold
    <3>6. CallOK(l, s, e, t)
      BY <1>2, <3>2, <3>3, <3>4, <3>5, Settled
    <3>7. session' = session /\ events' = events /\ told' = told
      BY <2>2, Zenon
    <3>8. session' = At(session, c, s) /\ events' = At(events, c, e) /\ told' = At(told, c, t)
      BY <1>1, <1>2, <3>7, SameIsAt
    <3> QED
      BY <2>2, <3>2, <3>6, <3>8, StepOfCall, Zenon
  <2> QED
    BY <1>6, <2>1, <2>2 DEF StreamEnds
<1> QED
    BY <1>4, <1>5, <1>6

LEMMA ClientGoesKeeps ==
    ASSUME WorkerInv, NEW c \in Call, ClientGoes(c)
    PROVE  WorkerInv'
<1>1. PICK k, s, e, t : k = call[c] /\ s = session[c] /\ e = events[c] /\ t = told[c]
    OBVIOUS
<1>2. /\ call = [d \in Call |-> call[d]] /\ session = [d \in Call |-> session[d]]
      /\ events = [d \in Call |-> events[d]] /\ told = [d \in Call |-> told[d]]
      /\ CallOK(k, s, e, t) /\ k \in CallRecord /\ s \in SessionRecord /\ t \in ToldRecord
      /\ CallTyped(k, s, e, t) /\ CallPlaced(k, s, e, t) /\ CallTold(k, s, t)
    BY <1>1, WorkerParts DEF CallOK
<1>3. k.phase \notin {"new", "over"} /\ finish(c, "over", "cancelled")
    BY <1>1 DEF ClientGoes, Listening
<1>4. PICK l : l = [phase |-> "over",
                    timer |-> IF call[c].timer = "none" THEN "cancelled" ELSE call[c].timer,
                    got |-> call[c].got]
    OBVIOUS
<1>5. /\ call' = At(call, c, l) /\ l \in CallRecord
      /\ \/ l.timer = call[c].timer /\ counted' = counted
         \/ /\ call[c].timer = "none" /\ l.timer \in Outcome
            /\ counted' = [counted EXCEPT ![l.timer] = @ + 1]
    BY <1>3, <1>4, FinishIs DEF Outcome
<1>6. /\ l.phase = "over" /\ l.got = k.got
      /\ l.timer = IF k.timer = "none" THEN "cancelled" ELSE k.timer
    BY <1>1, <1>4
<1>7. k.got <= s.generated /\ (s.live => SessionRuns(s, t.request))
    BY <1>2 DEF CallPlaced
<1>8. CallTold(l, s, t)
  <2>1. t.last = "error" => k.timer = "error"
    BY <1>2 DEF CallTold
  <2>2. t.last = "complete" => ~ s.live /\ k.got = s.generated - EosOf(s)
    BY <1>2 DEF CallTold
  <2>3. k.timer = "success" => t.last = "complete"
    BY <1>2 DEF CallTold
  <2> QED
    BY <1>6, <2>1, <2>2, <2>3 DEF CallTold
<1>9. CallOK(l, s, << >>, t)
    BY <1>2, <1>5, <1>6, <1>7, <1>8, Settled
<1>10. session' = session /\ told' = told /\ scheduler_up' = scheduler_up
    BY DEF ClientGoes
<1>11. session' = At(session, c, s) /\ told' = At(told, c, t)
    BY <1>1, <1>2, <1>10, SameIsAt
<1>12. events' = At(events, c, << >>)
  <2>1. events' = [events EXCEPT ![c] = << >>]
    BY DEF ClientGoes
  <2> QED
    BY <1>2, <2>1, ExceptIsAt
<1> QED
    BY <1>5, <1>9, <1>10, <1>11, <1>12, StepOfCall, Zenon

LEMMA WorkerStart == WorkerInit => WorkerInv
<1> SUFFICES ASSUME WorkerInit PROVE WorkerInv
    OBVIOUS
<1>1. /\ call = [c \in Call |-> NoCall] /\ session = [c \in Call |-> NoWorkerSession]
      /\ events = [c \in Call |-> << >>]
      /\ told = [c \in Call |-> [request |-> Text, last |-> "nothing"]]
    BY DEF WorkerInit
<1>2. /\ DOMAIN call = Call /\ DOMAIN session = Call /\ DOMAIN events = Call /\ DOMAIN told = Call
      /\ call = [c \in Call |-> call[c]] /\ session = [c \in Call |-> session[c]]
      /\ events = [c \in Call |-> events[c]] /\ told = [c \in Call |-> told[c]]
    BY <1>1
<1>3. ASSUME NEW c \in Call PROVE CallOK(call[c], session[c], events[c], told[c])
  <2>1. PICK k, s, e, t : k = call[c] /\ s = session[c] /\ e = events[c] /\ t = told[c]
    OBVIOUS
  <2>2. k = NoCall /\ s = NoWorkerSession /\ e = << >> /\ t = [request |-> Text, last |-> "nothing"]
    BY <1>1, <2>1
  <2>3. k \in CallRecord /\ t \in ToldRecord /\ e \in Seq(EventKind)
    BY <2>2 DEF NoCall, CallRecord, ToldRecord
  <2>4. s \in SessionRecord
    BY <2>2, ContextIsPositive DEF NoWorkerSession, SessionRecord, JSON_GRAMMAR_TOKENS
  <2>5. k.phase = "new" /\ k.timer = "none" /\ k.got = 0 /\ t.last = "nothing"
    BY <2>2 DEF NoCall
  <2>6. ~ s.live /\ s.generated = 0
    BY <2>2 DEF NoWorkerSession
  <2>7. CallPlaced(k, s, e, t)
    BY <2>2, <2>5, <2>6 DEF CallPlaced, Awaiting
  <2>8. CallTold(k, s, t)
    BY <2>5 DEF CallTold
  <2> QED
    BY <2>1, <2>3, <2>4, <2>7, <2>8 DEF CallOK, CallTyped
<1>4. scheduler_up \in BOOLEAN /\ counted \in [Outcome -> Nat]
    BY DEF WorkerInit
<1>5. ASSUME NEW o \in Outcome
      PROVE  IsFiniteSet(CallsWith(o)) /\ counted[o] = Cardinality(CallsWith(o))
  <2>1. CallsWith(o) = {}
    BY <1>1 DEF CallsWith, NoCall, Outcome
  <2>2. counted[o] = 0
    BY DEF WorkerInit
  <2> QED
    BY <2>1, <2>2, FS_EmptySet
<1> QED
    BY <1>2, <1>3, <1>4, <1>5 DEF WorkerInv

LEMMA WorkerStep == WorkerInv /\ [WorkerNext]_workerVars => WorkerInv'
<1> SUFFICES ASSUME WorkerInv, [WorkerNext]_workerVars PROVE WorkerInv'
    OBVIOUS
<1>1. CASE UNCHANGED workerVars
    BY <1>1 DEF WorkerInv, workerVars, CallsWith
<1>2. ASSUME NEW c \in Call, NEW r \in ChatRequest, chat_completions(c, r) PROVE WorkerInv'
    BY <1>2, ChatKeeps
<1>3. ASSUME NEW c \in Call, SessionProceeds(c) PROVE WorkerInv'
    BY <1>3, StepYieldsNothingKeeps, StepFailsKeeps, StepChoosesKeeps DEF SessionProceeds
<1>4. ASSUME NEW c \in Call, HandlerProceeds(c) PROVE WorkerInv'
    BY <1>4, TakesTokenKeeps, CollectKeeps, StreamKeeps DEF HandlerProceeds
<1>5. ASSUME NEW c \in Call, ClientGoes(c) PROVE WorkerInv'
    BY <1>5, ClientGoesKeeps
<1>6. CASE SchedulerDies
    BY <1>6, SchedulerDiesKeeps
<1> QED
    BY <1>1, <1>2, <1>3, <1>4, <1>5, <1>6 DEF WorkerNext

\* What the invariant says of one call.
LEMMA CallMeans ==
    ASSUME NEW k, NEW s, NEW e, NEW t, CallOK(k, s, e, t)
    PROVE  /\ k \in [phase : {"new", "collect", "role", "generate", "done", "end", "over"},
                     timer : Outcome \cup {"none"}, got : 0..max_context]
           /\ s \in SessionRecord /\ e \in Seq(EventKind)
           /\ t.request.format # Text => "error" \notin Elements(e)
<1>1. CallTyped(k, s, e, t) /\ CallPlaced(k, s, e, t)
    BY DEF CallOK
<1>2. /\ k \in CallRecord /\ s \in SessionRecord /\ e \in Seq(EventKind) /\ Len(e) \in Nat
    BY <1>1 DEF CallTyped
<1>3. k.got \in 0..max_context
  <2>1. k.got \in Nat /\ s.generated \in 0..max_context /\ k.got <= s.generated
    BY <1>1, <1>2 DEF CallRecord, SessionRecord, CallPlaced
  <2> QED
    BY <2>1, ContextIsPositive
<1>4. k \in [phase : {"new", "collect", "role", "generate", "done", "end", "over"},
             timer : Outcome \cup {"none"}, got : 0..max_context]
    BY <1>2, <1>3 DEF CallRecord
<1>5. ASSUME t.request.format # Text, NEW i \in DOMAIN e, e[i] = "error" PROVE FALSE
  <2>1. i \in 1..Len(e)
    BY <1>2
  <2>2. k.phase \in Awaiting
    BY <1>1, <2>1, <1>2 DEF CallPlaced
  <2>3. Channel(k, s, e, t.request)
    BY <1>1, <2>2 DEF CallPlaced
  <2>4. CASE s.live
    BY <1>5, <2>1, <2>3, <2>4 DEF Channel
  <2>5. CASE ~ s.live
    <3>1. i = Len(e) \/ i \in 1..(Len(e) - 1)
      BY <1>2, <2>1
    <3> QED
      BY <1>5, <2>3, <2>5, <3>1 DEF Channel
  <2> QED
    BY <2>4, <2>5
<1>6. t.request.format # Text => "error" \notin Elements(e)
    BY <1>5 DEF Elements
<1> QED
    BY <1>2, <1>4, <1>6

LEMMA WorkerMeans == WorkerInv => WorkerHolds
<1> SUFFICES ASSUME WorkerInv PROVE WorkerHolds
    OBVIOUS
<1>1. ASSUME NEW c \in Call
      PROVE  /\ call[c] \in [phase : {"new", "collect", "role", "generate", "done", "end", "over"},
                             timer : Outcome \cup {"none"}, got : 0..max_context]
             /\ session[c] \in SessionRecord /\ events[c] \in Seq(EventKind)
             /\ told[c].request.format # Text => "error" \notin Elements(events[c])
    BY CallMeans DEF WorkerInv
<1>2. WorkerTypeOK
    BY <1>1 DEF WorkerTypeOK, WorkerInv, SessionRecord, EventKind
<1>3. CallsAreCounted
  <2>1. \A o \in Outcome : counted[o] = Cardinality({c \in Call : call[c].timer = o})
    BY DEF WorkerInv, CallsWith
  <2>2. ASSUME NEW c \in Call PROVE CallTold(call[c], session[c], told[c])
    BY DEF WorkerInv, CallOK
  <2> QED
    BY <2>1, <2>2 DEF CallsAreCounted, CallTold, EosOf
<1>4. GrammarNeverFails
  <2>1. ASSUME NEW c \in Call, Asked(c).format # Text
        PROVE  "error" \notin Elements(events[c]) /\ (session[c].live => Candidates(c) # {})
    <3>1. "error" \notin Elements(events[c])
      BY <1>1, <2>1 DEF Asked
    <3>2. session[c].live => Candidates(c) # {}
      BY <2>1, RunningCandidates DEF WorkerInv
    <3> QED
      BY <3>1, <3>2
  <2> QED
    BY <2>1 DEF GrammarNeverFails
<1> QED
    BY <1>2, <1>3, <1>4 DEF WorkerHolds

\* The completion endpoint counts every call once and truly: a success only for a
\* whole answer, with the tokens its session produced, whatever the order of the
\* scheduler's steps and failures of the native step, the client's going and the
\* scheduler's death, for every set of calls and requests and every context length;
\* and no request fails by the grammar that was accepted for it, whatever else may
\* fail it (chat_completions, collect_scheduled, streaming_response,
\* GenerationTimer::finish, compile_constraint, validate_banned_tokens, next_token).
THEOREM WorkerCountsTruly == WorkerSpec => []WorkerHolds
<1>1. WorkerInit => WorkerInv
    BY WorkerStart
<1>2. WorkerInv /\ [WorkerNext]_workerVars => WorkerInv'
    BY WorkerStep
<1>3. WorkerInv => WorkerHolds
    BY WorkerMeans
<1> QED
    BY <1>1, <1>2, <1>3, PTL DEF WorkerSpec

-----------------------------------------------------------------------------
(* The gateway's counts of completions.                                      *)

ExchangePhase == {"new", "handler", "ended", "over"} \cup StatusClass
TimerState == {"none", "running"} \cup CompletionOutcome
Cause == {"none", "failed", "timed_out", "gone_early", "gone", "ended", "ended_late"}
AnExchange == [phase : ExchangePhase, timer : TimerState, label : Labels \cup {<<>>}]

CompletionsTypeOK ==
    /\ exchange \in [Exchange -> AnExchange]
    /\ cause \in [Exchange -> Cause]
    /\ requests \in [Labels \X StatusClass -> Int]
    /\ completions \in [CompletionOutcome -> Int]
    /\ in_flight \in Int /\ deadline_exceeded \in Int

\* How an exchange's phase, timer and cause go together.
ExchangeFits(k, c) ==
    /\ k.phase = "new" => k.timer = "none" /\ k.label = <<>> /\ c = "none"
    /\ k.phase # "new" => k.label \in Labels
    /\ k.phase = "handler" => k.timer \in {"none", "running"} /\ c = "none"
    /\ k.phase \in StatusClass => k.timer = "running" /\ c = "none"
    /\ k.phase = "ended" =>
        k.timer \in CompletionOutcome /\ c \in {"timed_out", "ended", "ended_late", "failed"}
    /\ k.phase = "over" => k.timer # "running"
    /\ k.timer = "success" => c = "ended"
    /\ k.timer = "error" => c \in {"failed", "ended"}
    /\ c = "timed_out" => k.timer = "deadline"
    /\ c \in {"gone", "gone_early"} => k.timer \in {"none", "cancelled", "deadline"}

ExchangesFit == \A x \in Exchange : ExchangeFits(exchange[x], cause[x])

Bit(b) == IF b THEN 1 ELSE 0
Total(l) == requests[<<l, "2xx">>] + requests[<<l, "3xx">>] + requests[<<l, "4xx">>]
            + requests[<<l, "5xx">>]
Counted(k, c, l) == k.label = l /\ k.phase # "handler" /\ c # "gone_early"

Tallies ==
    /\ \A o \in CompletionOutcome :
        IsFiniteSet(Timings(o)) /\ completions[o] = Cardinality(Timings(o))
    /\ IsFiniteSet(CutByDeadline) /\ deadline_exceeded = Cardinality(CutByDeadline)
    /\ IsFiniteSet(BeingHandled) /\ in_flight = Cardinality(BeingHandled)
    /\ \A l \in Labels : IsFiniteSet(Answered(l)) /\ Total(l) = Cardinality(Answered(l))

CompletionsInv == CompletionsTypeOK /\ ExchangesFit /\ Tallies

\* A set that differs from another in one element at most.
LEMMA OneMoves ==
    ASSUME NEW S, NEW T, NEW x, IsFiniteSet(S), T \ {x} = S \ {x}
    PROVE  /\ IsFiniteSet(T)
           /\ Cardinality(T) \in Int /\ Cardinality(S) \in Int
           /\ Cardinality(T) = Cardinality(S) + Bit(x \in T) - Bit(x \in S)
<1>1. IsFiniteSet(S \ {x})
    BY FS_Subset
<1>2. PICK n : n = Cardinality(S \ {x})
    OBVIOUS
<1>3. n \in Nat
    BY <1>1, <1>2, FS_CardinalityType
<1>4. ASSUME NEW U, U \ {x} = S \ {x}
      PROVE  IsFiniteSet(U) /\ Cardinality(U) = n + Bit(x \in U)
  <2>1. CASE x \in U
    <3>1. U = (S \ {x}) \cup {x}
        BY <1>4, <2>1
    <3>2. QED
        BY <1>1, <1>2, <2>1, <3>1, FS_AddElement DEF Bit
  <2>2. CASE x \notin U
    <3>1. U = S \ {x}
        BY <1>4, <2>2
    <3>2. QED
        BY <1>1, <1>2, <1>3, <2>2, <3>1 DEF Bit
  <2>3. QED
    BY <2>1, <2>2
<1>5. IsFiniteSet(T) /\ Cardinality(T) = n + Bit(x \in T)
    BY <1>4
<1>6. Cardinality(S) = n + Bit(x \in S)
    BY <1>4
<1>7. QED
    BY <1>3, <1>5, <1>6 DEF Bit

LEMMA LabelsAreFull == \A l \in Labels : l # <<>>
<1>1. \A a, b : <<a, b>> # <<>>
    OBVIOUS
<1>2. \A e : \E a, b : Label(e) = <<a, b>>
    BY DEF Label
<1>3. QED
    BY <1>1, <1>2 DEF Labels

\* When one exchange moves and the counts move with it, the invariant stands.
LEMMA CountsFollow ==
    ASSUME CompletionsInv, CompletionsTypeOK', NEW x \in Exchange,
           \A y \in Exchange \ {x} : exchange'[y] = exchange[y] /\ cause'[y] = cause[y],
           ExchangeFits(exchange'[x], cause'[x]),
           \A o \in CompletionOutcome : completions'[o] =
                completions[o] + Bit(exchange'[x].timer = o) - Bit(exchange[x].timer = o),
           deadline_exceeded' = deadline_exceeded + Bit(cause'[x] = "timed_out")
                                                  - Bit(cause[x] = "timed_out"),
           in_flight' = in_flight + Bit(exchange'[x].phase = "handler")
                                  - Bit(exchange[x].phase = "handler"),
           \A l \in Labels : Total(l)' = Total(l) + Bit(Counted(exchange'[x], cause'[x], l))
                                                  - Bit(Counted(exchange[x], cause[x], l))
    PROVE  CompletionsInv'
<1>1. ExchangesFit'
    BY DEF ExchangesFit, CompletionsInv
<1>2. ASSUME NEW o \in CompletionOutcome
      PROVE  IsFiniteSet(Timings(o)') /\ completions'[o] = Cardinality(Timings(o)')
  <2>1. Timings(o)' \ {x} = Timings(o) \ {x}
      BY DEF Timings
  <2>2. IsFiniteSet(Timings(o)) /\ completions[o] = Cardinality(Timings(o))
      BY DEF CompletionsInv, Tallies
  <2>3. /\ Bit(x \in Timings(o)') = Bit(exchange'[x].timer = o)
        /\ Bit(x \in Timings(o)) = Bit(exchange[x].timer = o)
      BY DEF Timings, Bit
  <2>4. QED
      BY <2>1, <2>2, <2>3, OneMoves
<1>3. IsFiniteSet(CutByDeadline') /\ deadline_exceeded' = Cardinality(CutByDeadline')
  <2>1. CutByDeadline' \ {x} = CutByDeadline \ {x}
      BY DEF CutByDeadline
  <2>2. IsFiniteSet(CutByDeadline) /\ deadline_exceeded = Cardinality(CutByDeadline)
      BY DEF CompletionsInv, Tallies
  <2>3. /\ Bit(x \in CutByDeadline') = Bit(cause'[x] = "timed_out")
        /\ Bit(x \in CutByDeadline) = Bit(cause[x] = "timed_out")
      BY DEF CutByDeadline, Bit
  <2>4. QED
      BY <2>1, <2>2, <2>3, OneMoves
<1>4. IsFiniteSet(BeingHandled') /\ in_flight' = Cardinality(BeingHandled')
  <2>1. BeingHandled' \ {x} = BeingHandled \ {x}
      BY DEF BeingHandled
  <2>2. IsFiniteSet(BeingHandled) /\ in_flight = Cardinality(BeingHandled)
      BY DEF CompletionsInv, Tallies
  <2>3. /\ Bit(x \in BeingHandled') = Bit(exchange'[x].phase = "handler")
        /\ Bit(x \in BeingHandled) = Bit(exchange[x].phase = "handler")
      BY DEF BeingHandled, Bit
  <2>4. QED
      BY <2>1, <2>2, <2>3, OneMoves
<1>5. ASSUME NEW l \in Labels
      PROVE  IsFiniteSet(Answered(l)') /\ Total(l)' = Cardinality(Answered(l)')
  <2>1. Answered(l)' \ {x} = Answered(l) \ {x}
      BY DEF Answered
  <2>2. IsFiniteSet(Answered(l)) /\ Total(l) = Cardinality(Answered(l))
      BY DEF CompletionsInv, Tallies
  <2>3. /\ Bit(x \in Answered(l)') = Bit(Counted(exchange'[x], cause'[x], l))
        /\ Bit(x \in Answered(l)) = Bit(Counted(exchange[x], cause[x], l))
      BY DEF Answered, Bit, Counted
  <2>4. Total(l)' = Total(l) + Bit(x \in Answered(l)') - Bit(x \in Answered(l))
      BY <2>3
  <2>5. QED
      BY <2>1, <2>2, <2>4, OneMoves
<1>6. Tallies'
    BY <1>2, <1>3, <1>4, <1>5 DEF Tallies
<1>7. QED
    BY <1>1, <1>6 DEF CompletionsInv

\* finish moves the timer and the histogram together.
LEMMA FinishCounts ==
    ASSUME CompletionsTypeOK, NEW x \in Exchange, NEW p \in ExchangePhase,
           NEW outcome \in CompletionOutcome, finish_completion(x, p, outcome)
    PROVE  /\ exchange' \in [Exchange -> AnExchange]
           /\ completions' \in [CompletionOutcome -> Int]
           /\ \A y \in Exchange \ {x} : exchange'[y] = exchange[y]
           /\ exchange'[x].phase = p /\ exchange'[x].label = exchange[x].label
           /\ exchange'[x].timer =
                IF exchange[x].timer = "running" THEN outcome ELSE exchange[x].timer
           /\ \A o \in CompletionOutcome : completions'[o] =
                completions[o] + Bit(exchange'[x].timer = o) - Bit(exchange[x].timer = o)
<1>1. exchange \in [Exchange -> AnExchange] /\ completions \in [CompletionOutcome -> Int]
    BY DEF CompletionsTypeOK
<1>2. outcome # "running" /\ outcome \in TimerState
    BY DEF CompletionOutcome, TimerState
<1>3. CASE exchange[x].timer = "running"
  <2>1. /\ exchange' = [exchange EXCEPT ![x].phase = p, ![x].timer = outcome]
        /\ completions' = [completions EXCEPT ![outcome] = @ + 1]
      BY <1>3 DEF finish_completion
  <2>2. /\ exchange' \in [Exchange -> AnExchange]
        /\ \A y \in Exchange \ {x} : exchange'[y] = exchange[y]
        /\ exchange'[x].phase = p /\ exchange'[x].label = exchange[x].label
        /\ exchange'[x].timer = outcome
      BY <1>1, <1>2, <2>1 DEF AnExchange
  <2>3. completions' \in [CompletionOutcome -> Int]
      BY <1>1, <2>1
  <2>4. \A o \in CompletionOutcome : completions'[o] = completions[o] + Bit(outcome = o)
      BY <1>1, <2>1 DEF Bit
  <2>5. \A o \in CompletionOutcome : Bit(exchange[x].timer = o) = 0
      BY <1>3 DEF Bit, CompletionOutcome
  <2>6. \A o \in CompletionOutcome : completions[o] \in Int /\ Bit(outcome = o) \in Int
      BY <1>1 DEF Bit
  <2>7. QED
      BY <1>3, <2>2, <2>3, <2>4, <2>5, <2>6
<1>4. CASE exchange[x].timer # "running"
  <2>1. exchange' = [exchange EXCEPT ![x].phase = p] /\ completions' = completions
      BY <1>4 DEF finish_completion
  <2>2. /\ exchange' \in [Exchange -> AnExchange]
        /\ \A y \in Exchange \ {x} : exchange'[y] = exchange[y]
        /\ exchange'[x].phase = p /\ exchange'[x].label = exchange[x].label
        /\ exchange'[x].timer = exchange[x].timer
      BY <1>1, <1>2, <2>1 DEF AnExchange
  <2>3. QED
      BY <1>1, <1>4, <2>1, <2>2 DEF Bit
<1>5. QED
    BY <1>3, <1>4

\* A response is counted once, under the exchange's label.
LEMMA ResponseCounts ==
    ASSUME CompletionsTypeOK, NEW x \in Exchange, NEW s \in StatusClass,
           exchange[x].label \in Labels, Responds(x, s)
    PROVE  /\ requests' \in [Labels \X StatusClass -> Int]
           /\ in_flight' \in Int /\ in_flight' = in_flight - 1
           /\ \A l \in Labels : Total(l)' = Total(l) + Bit(exchange[x].label = l)
<1>1. requests \in [Labels \X StatusClass -> Int] /\ in_flight \in Int
    BY DEF CompletionsTypeOK
<1>2. PICK a : a = exchange[x].label
    OBVIOUS
<1>3. a \in Labels /\ <<a, s>> \in Labels \X StatusClass
    BY <1>2
<1>4. requests' = [requests EXCEPT ![<<a, s>>] = @ + 1] /\ in_flight' = in_flight - 1
    BY <1>2 DEF Responds
<1>5. requests' \in [Labels \X StatusClass -> Int]
    BY <1>1, <1>3, <1>4
<1>6. ASSUME NEW l \in Labels
      PROVE  Total(l)' = Total(l) + Bit(a = l)
  <2>1. ASSUME NEW t \in StatusClass
        PROVE  /\ requests[<<l, t>>] \in Int
               /\ requests'[<<l, t>>] = requests[<<l, t>>] + Bit(a = l /\ s = t)
    <3>1. <<l, t>> \in Labels \X StatusClass /\ (<<a, s>> = <<l, t>> <=> a = l /\ s = t)
        OBVIOUS
    <3>2. QED
        BY <1>1, <1>3, <1>4, <3>1 DEF Bit
  <2>2. StatusClass = {"2xx", "3xx", "4xx", "5xx"}
      BY DEF StatusClass
  <2>3. /\ Bit(a = l /\ s = "2xx") + Bit(a = l /\ s = "3xx") + Bit(a = l /\ s = "4xx")
            + Bit(a = l /\ s = "5xx") = Bit(a = l)
        /\ \A t \in StatusClass : Bit(a = l /\ s = t) \in Int
      BY <2>2 DEF Bit
  <2>4. PICK g, h \in [StatusClass -> Int] :
            \A t \in StatusClass : g[t] = requests[<<l, t>>] /\ h[t] = Bit(a = l /\ s = t)
    <3>1. PICK g, h : /\ g = [t \in StatusClass |-> requests[<<l, t>>]]
                      /\ h = [t \in StatusClass |-> Bit(a = l /\ s = t)]
        OBVIOUS
    <3>2. \A t \in StatusClass : g[t] = requests[<<l, t>>] /\ g[t] \in Int
        BY <2>1, <3>1
    <3>3. \A t \in StatusClass : h[t] = Bit(a = l /\ s = t) /\ h[t] \in Int
        BY <2>3, <3>1
    <3>4. g \in [StatusClass -> Int] /\ h \in [StatusClass -> Int]
        BY <2>1, <2>3, <3>1
    <3>5. QED
        BY <3>2, <3>3, <3>4
  <2>5. \A t \in StatusClass : requests'[<<l, t>>] = g[t] + h[t]
      BY <2>1, <2>4
  <2>6. /\ Total(l)' = (g["2xx"] + h["2xx"]) + (g["3xx"] + h["3xx"]) + (g["4xx"] + h["4xx"])
                          + (g["5xx"] + h["5xx"])
        /\ Total(l) = g["2xx"] + g["3xx"] + g["4xx"] + g["5xx"]
      BY <2>2, <2>4, <2>5 DEF Total
  <2>7. h["2xx"] + h["3xx"] + h["4xx"] + h["5xx"] = Bit(a = l)
      BY <2>2, <2>3, <2>4
  <2>8. /\ g["2xx"] \in Int /\ g["3xx"] \in Int /\ g["4xx"] \in Int /\ g["5xx"] \in Int
        /\ h["2xx"] \in Int /\ h["3xx"] \in Int /\ h["4xx"] \in Int /\ h["5xx"] \in Int
      BY <2>2, <2>4
  <2>9. QED
      BY <2>6, <2>7, <2>8
<1>7. QED
    BY <1>1, <1>2, <1>4, <1>5, <1>6

LEMMA TotalsAreNumbers ==
    ASSUME CompletionsTypeOK, NEW l \in Labels
    PROVE  Total(l) \in Int
BY DEF CompletionsTypeOK, Total, StatusClass

\* What is known of one exchange before it moves.
LEMMA OneExchange ==
    ASSUME CompletionsInv, NEW x \in Exchange
    PROVE  /\ CompletionsTypeOK
           /\ exchange \in [Exchange -> AnExchange] /\ exchange[x] \in AnExchange
           /\ exchange[x].phase \in ExchangePhase /\ exchange[x].timer \in TimerState
           /\ exchange[x].label \in Labels \cup {<<>>}
           /\ cause \in [Exchange -> Cause] /\ cause[x] \in Cause
           /\ ExchangeFits(exchange[x], cause[x])
BY DEF CompletionsInv, CompletionsTypeOK, ExchangesFit, AnExchange

LEMMA BeginsCounts ==
    ASSUME CompletionsInv, NEW x \in Exchange, NEW e \in Endpoint, Begins(x, e)
    PROVE  CompletionsInv'
<1>1. /\ CompletionsTypeOK /\ exchange \in [Exchange -> AnExchange]
      /\ exchange[x] \in AnExchange /\ ExchangeFits(exchange[x], cause[x])
    BY OneExchange
<1>2. Label(e) \in Labels /\ Label(e) # <<>>
    BY LabelsAreFull DEF Labels
<1>3. /\ exchange' = [exchange EXCEPT ![x].phase = "handler", ![x].label = Label(e)]
      /\ exchange[x].phase = "new" /\ in_flight' = in_flight + 1
      /\ requests' = requests /\ completions' = completions
      /\ deadline_exceeded' = deadline_exceeded /\ cause' = cause
    BY DEF Begins
<1>4. /\ exchange' \in [Exchange -> AnExchange]
      /\ \A y \in Exchange \ {x} : exchange'[y] = exchange[y]
      /\ exchange'[x].phase = "handler" /\ exchange'[x].label = Label(e)
      /\ exchange'[x].timer = exchange[x].timer
    BY <1>1, <1>2, <1>3 DEF AnExchange, ExchangePhase
<1>5. exchange[x].timer = "none" /\ exchange[x].label = <<>> /\ cause[x] = "none"
    BY <1>1, <1>3 DEF ExchangeFits
<1>6. CompletionsTypeOK'
    BY <1>1, <1>3, <1>4 DEF CompletionsTypeOK
<1>7. ExchangeFits(exchange'[x], cause'[x])
    BY <1>2, <1>3, <1>4, <1>5 DEF ExchangeFits, StatusClass
<1>8. \A o \in CompletionOutcome : completions'[o] =
            completions[o] + Bit(exchange'[x].timer = o) - Bit(exchange[x].timer = o)
    BY <1>1, <1>3, <1>4 DEF Bit, CompletionsTypeOK
<1>9. deadline_exceeded' = deadline_exceeded + Bit(cause'[x] = "timed_out")
                                             - Bit(cause[x] = "timed_out")
    BY <1>1, <1>3 DEF Bit, CompletionsTypeOK
<1>10. in_flight' = in_flight + Bit(exchange'[x].phase = "handler")
                              - Bit(exchange[x].phase = "handler")
    BY <1>1, <1>3, <1>4 DEF Bit, CompletionsTypeOK
<1>11. ASSUME NEW l \in Labels
       PROVE  Total(l)' = Total(l) + Bit(Counted(exchange'[x], cause'[x], l))
                                   - Bit(Counted(exchange[x], cause[x], l))
  <2>1. Total(l)' = Total(l) /\ Total(l) \in Int
      BY <1>1, <1>3, TotalsAreNumbers DEF Total
  <2>2. ~ Counted(exchange'[x], cause'[x], l) /\ ~ Counted(exchange[x], cause[x], l)
      BY <1>4, <1>5, LabelsAreFull DEF Counted
  <2>3. QED
      BY <2>1, <2>2 DEF Bit
<1>12. QED
    BY <1>3, <1>4, <1>6, <1>7, <1>8, <1>9, <1>10, <1>11, CountsFollow

\* The exchanges that leave the handler with a response that they count.
LEMMA LeavesCounted ==
    ASSUME CompletionsInv, NEW x \in Exchange, exchange[x].phase = "handler",
           NEW s \in StatusClass, Responds(x, s),
           exchange' \in [Exchange -> AnExchange],
           \A y \in Exchange \ {x} : exchange'[y] = exchange[y] /\ cause'[y] = cause[y],
           exchange'[x].phase # "handler", exchange'[x].label = exchange[x].label,
           cause' \in [Exchange -> Cause], cause'[x] # "gone_early",
           completions' \in [CompletionOutcome -> Int], deadline_exceeded' \in Int,
           ExchangeFits(exchange'[x], cause'[x]),
           \A o \in CompletionOutcome : completions'[o] =
                completions[o] + Bit(exchange'[x].timer = o) - Bit(exchange[x].timer = o),
           deadline_exceeded' = deadline_exceeded + Bit(cause'[x] = "timed_out")
    PROVE  CompletionsInv'
<1>1. /\ CompletionsTypeOK /\ ExchangeFits(exchange[x], cause[x])
    BY OneExchange
<1>2. exchange[x].label \in Labels /\ cause[x] = "none"
    BY <1>1 DEF ExchangeFits
<1>3. /\ requests' \in [Labels \X StatusClass -> Int]
      /\ in_flight' \in Int /\ in_flight' = in_flight - 1
      /\ \A l \in Labels : Total(l)' = Total(l) + Bit(exchange[x].label = l)
    BY <1>1, <1>2, ResponseCounts
<1>4. CompletionsTypeOK'
    BY <1>3 DEF CompletionsTypeOK
<1>5. deadline_exceeded' = deadline_exceeded + Bit(cause'[x] = "timed_out")
                                             - Bit(cause[x] = "timed_out")
    BY <1>1, <1>2 DEF Bit, CompletionsTypeOK
<1>6. in_flight' = in_flight + Bit(exchange'[x].phase = "handler")
                             - Bit(exchange[x].phase = "handler")
    BY <1>1, <1>3 DEF Bit, CompletionsTypeOK
<1>7. ASSUME NEW l \in Labels
      PROVE  Total(l)' = Total(l) + Bit(Counted(exchange'[x], cause'[x], l))
                                  - Bit(Counted(exchange[x], cause[x], l))
  <2>1. Total(l) \in Int
      BY <1>1, TotalsAreNumbers
  <2>2. /\ Counted(exchange'[x], cause'[x], l) <=> exchange[x].label = l
        /\ ~ Counted(exchange[x], cause[x], l)
      BY DEF Counted
  <2>3. QED
      BY <1>3, <2>1, <2>2 DEF Bit
<1>8. QED
    BY <1>4, <1>5, <1>6, <1>7, CountsFollow

\* The exchanges that move after their response.
LEMMA BodyCounts ==
    ASSUME CompletionsInv, NEW x \in Exchange, exchange[x].phase # "handler",
           cause[x] \notin {"gone_early", "timed_out"} \/ cause'[x] = cause[x],
           exchange' \in [Exchange -> AnExchange],
           \A y \in Exchange \ {x} : exchange'[y] = exchange[y] /\ cause'[y] = cause[y],
           exchange'[x].phase # "handler", exchange'[x].label = exchange[x].label,
           cause' \in [Exchange -> Cause], cause'[x] # "gone_early" \/ cause'[x] = cause[x],
           in_flight' = in_flight, requests' = requests,
           completions' \in [CompletionOutcome -> Int],
           ExchangeFits(exchange'[x], cause'[x]),
           \A o \in CompletionOutcome : completions'[o] =
                completions[o] + Bit(exchange'[x].timer = o) - Bit(exchange[x].timer = o),
           deadline_exceeded' = deadline_exceeded
                + Bit(cause'[x] = "timed_out" /\ cause'[x] # cause[x])
    PROVE  CompletionsInv'
<1>1. CompletionsTypeOK /\ deadline_exceeded \in Int /\ in_flight \in Int
    BY OneExchange DEF CompletionsTypeOK
<1>2. CompletionsTypeOK'
    BY <1>1 DEF CompletionsTypeOK, Bit
<1>3. deadline_exceeded' = deadline_exceeded + Bit(cause'[x] = "timed_out")
                                             - Bit(cause[x] = "timed_out")
    BY <1>1 DEF Bit
<1>4. in_flight' = in_flight + Bit(exchange'[x].phase = "handler")
                             - Bit(exchange[x].phase = "handler")
    BY <1>1 DEF Bit
<1>5. ASSUME NEW l \in Labels
      PROVE  Total(l)' = Total(l) + Bit(Counted(exchange'[x], cause'[x], l))
                                  - Bit(Counted(exchange[x], cause[x], l))
  <2>1. Total(l)' = Total(l) /\ Total(l) \in Int
      BY <1>1, TotalsAreNumbers DEF Total
  <2>2. Counted(exchange'[x], cause'[x], l) <=> Counted(exchange[x], cause[x], l)
      BY DEF Counted
  <2>3. QED
      BY <2>1, <2>2 DEF Bit
<1>6. QED
    BY <1>2, <1>3, <1>4, <1>5, CountsFollow

\* The cause of one exchange.
LEMMA CauseMoves ==
    ASSUME CompletionsTypeOK, NEW x \in Exchange, NEW c \in Cause,
           cause' = [cause EXCEPT ![x] = c]
    PROVE  /\ cause' \in [Exchange -> Cause] /\ cause'[x] = c
           /\ \A y \in Exchange \ {x} : cause'[y] = cause[y]
BY DEF CompletionsTypeOK

LEMMA RespondsUntimedCounts ==
    ASSUME CompletionsInv, NEW x \in Exchange, NEW s \in StatusClass,
           RespondsUntimed(x, s) \/ IntoStream(x, s)
    PROVE  CompletionsInv'
<1>1. /\ CompletionsTypeOK /\ exchange \in [Exchange -> AnExchange]
      /\ exchange[x] \in AnExchange /\ cause \in [Exchange -> Cause]
      /\ ExchangeFits(exchange[x], cause[x])
    BY OneExchange
<1>2. PICK p \in StatusClass \cup {"over"} :
        /\ exchange' = [exchange EXCEPT ![x].phase = p]
        /\ IF p = "over" THEN exchange[x].timer = "none" ELSE exchange[x].timer = "running"
    BY DEF RespondsUntimed, IntoStream, Timed, StatusClass
<1>3. /\ exchange[x].phase = "handler" /\ Responds(x, s)
      /\ cause' = cause /\ completions' = completions /\ deadline_exceeded' = deadline_exceeded
    BY DEF RespondsUntimed, IntoStream, Timed
<1>4. /\ exchange' \in [Exchange -> AnExchange]
      /\ \A y \in Exchange \ {x} : exchange'[y] = exchange[y]
      /\ exchange'[x].phase = p /\ exchange'[x].label = exchange[x].label
      /\ exchange'[x].timer = exchange[x].timer
    BY <1>1, <1>2 DEF AnExchange, ExchangePhase
<1>5. p # "handler" /\ p # "new" /\ p # "ended" /\ ("over" \notin StatusClass)
    BY DEF StatusClass
<1>6. exchange[x].label \in Labels /\ cause[x] = "none"
    BY <1>1, <1>3 DEF ExchangeFits
<1>7. ExchangeFits(exchange'[x], cause'[x])
    BY <1>2, <1>3, <1>4, <1>5, <1>6 DEF ExchangeFits
<1>8. \A o \in CompletionOutcome : completions'[o] =
            completions[o] + Bit(exchange'[x].timer = o) - Bit(exchange[x].timer = o)
    BY <1>1, <1>3, <1>4 DEF Bit, CompletionsTypeOK
<1>9. /\ completions' \in [CompletionOutcome -> Int] /\ deadline_exceeded' \in Int
      /\ deadline_exceeded' = deadline_exceeded + Bit(cause'[x] = "timed_out")
    BY <1>1, <1>3, <1>6 DEF Bit, CompletionsTypeOK
<1>10. QED
    BY <1>1, <1>3, <1>4, <1>5, <1>6, <1>7, <1>8, <1>9, LeavesCounted

LEMMA HandlerFailsCounts ==
    ASSUME CompletionsInv, NEW x \in Exchange, HandlerFails(x) \/ HandlerTimesOut(x)
    PROVE  CompletionsInv'
<1>1. /\ CompletionsTypeOK /\ exchange[x] \in AnExchange
      /\ ExchangeFits(exchange[x], cause[x])
    BY OneExchange
<1>2. PICK c \in {"failed", "timed_out"} :
        /\ finish_completion(x, "over", IF c = "failed" THEN "error" ELSE "deadline")
        /\ cause' = [cause EXCEPT ![x] = c]
        /\ deadline_exceeded' = deadline_exceeded + Bit(c = "timed_out")
  <2>1. CASE HandlerFails(x)
    <3>1. deadline_exceeded' = deadline_exceeded + Bit("failed" = "timed_out")
        BY <1>1, <2>1 DEF HandlerFails, CompletionsTypeOK, Bit
    <3>2. QED
        BY <2>1, <3>1 DEF HandlerFails
  <2>2. CASE HandlerTimesOut(x)
        BY <2>2 DEF HandlerTimesOut, Bit
  <2>3. QED
        BY <2>1, <2>2
<1>3. exchange[x].phase = "handler" /\ exchange[x].timer = "running" /\ Responds(x, "5xx")
    BY DEF HandlerFails, HandlerTimesOut, Timed
<1>4. PICK outcome : outcome = IF c = "failed" THEN "error" ELSE "deadline"
    OBVIOUS
<1>5. /\ outcome \in CompletionOutcome /\ "over" \in ExchangePhase /\ "5xx" \in StatusClass
      /\ c \in Cause
    BY <1>4 DEF CompletionOutcome, ExchangePhase, StatusClass, Cause
<1>6. finish_completion(x, "over", outcome)
    BY <1>2, <1>4
<1>7. /\ exchange' \in [Exchange -> AnExchange]
      /\ completions' \in [CompletionOutcome -> Int]
      /\ \A y \in Exchange \ {x} : exchange'[y] = exchange[y]
      /\ exchange'[x].phase = "over" /\ exchange'[x].label = exchange[x].label
      /\ exchange'[x].timer = outcome
      /\ \A o \in CompletionOutcome : completions'[o] =
            completions[o] + Bit(exchange'[x].timer = o) - Bit(exchange[x].timer = o)
    BY <1>1, <1>3, <1>5, <1>6, FinishCounts
<1>8. /\ cause' \in [Exchange -> Cause] /\ cause'[x] = c
      /\ \A y \in Exchange \ {x} : cause'[y] = cause[y]
    BY <1>1, <1>2, <1>5, CauseMoves
<1>9. exchange[x].label \in Labels
    BY <1>1, <1>3 DEF ExchangeFits
<1>10. ExchangeFits(exchange'[x], cause'[x])
    BY <1>4, <1>7, <1>8, <1>9 DEF ExchangeFits, StatusClass
<1>11. deadline_exceeded' \in Int
    BY <1>1, <1>2 DEF CompletionsTypeOK, Bit
<1>12. QED
    BY <1>2, <1>3, <1>5, <1>7, <1>8, <1>10, <1>11, LeavesCounted

LEMMA HandlerDroppedCounts ==
    ASSUME CompletionsInv, NEW x \in Exchange, HandlerDropped(x)
    PROVE  CompletionsInv'
<1>1. /\ CompletionsTypeOK /\ exchange \in [Exchange -> AnExchange]
      /\ exchange[x] \in AnExchange /\ ExchangeFits(exchange[x], cause[x])
    BY OneExchange
<1>2. /\ exchange[x].phase = "handler" /\ in_flight' = in_flight - 1
      /\ cause' = [cause EXCEPT ![x] = "gone_early"]
      /\ requests' = requests /\ deadline_exceeded' = deadline_exceeded
    BY DEF HandlerDropped
<1>3. exchange[x].label \in Labels /\ cause[x] = "none" /\ exchange[x].timer \in {"none", "running"}
    BY <1>1, <1>2 DEF ExchangeFits
<1>4. /\ exchange' \in [Exchange -> AnExchange]
      /\ completions' \in [CompletionOutcome -> Int]
      /\ \A y \in Exchange \ {x} : exchange'[y] = exchange[y]
      /\ exchange'[x].phase = "over" /\ exchange'[x].label = exchange[x].label
      /\ exchange'[x].timer \in {"none", "cancelled", "deadline"}
      /\ \A o \in CompletionOutcome : completions'[o] =
            completions[o] + Bit(exchange'[x].timer = o) - Bit(exchange[x].timer = o)
  <2>1. CASE exchange[x].timer = "none"
    <3>1. exchange' = [exchange EXCEPT ![x].phase = "over"] /\ completions' = completions
        BY <2>1 DEF HandlerDropped
    <3>2. /\ exchange' \in [Exchange -> AnExchange]
          /\ \A y \in Exchange \ {x} : exchange'[y] = exchange[y]
          /\ exchange'[x].phase = "over" /\ exchange'[x].label = exchange[x].label
          /\ exchange'[x].timer = "none"
        BY <1>1, <2>1, <3>1 DEF AnExchange, ExchangePhase
    <3>3. QED
        BY <1>1, <2>1, <3>1, <3>2 DEF Bit, CompletionsTypeOK
  <2>2. CASE exchange[x].timer # "none"
    <3>1. PICK outcome \in {"deadline", "cancelled"} : outcome = drop_outcome(x)
        BY DEF drop_outcome
    <3>2. finish_completion(x, "over", outcome)
        BY <2>2, <3>1 DEF HandlerDropped
    <3>3. outcome \in CompletionOutcome /\ "over" \in ExchangePhase /\ exchange[x].timer = "running"
        BY <1>3, <2>2 DEF CompletionOutcome, ExchangePhase
    <3>4. QED
        BY <1>1, <3>2, <3>3, FinishCounts
  <2>3. QED
        BY <2>1, <2>2
<1>5. "gone_early" \in Cause
    BY DEF Cause
<1>6. /\ cause' \in [Exchange -> Cause] /\ cause'[x] = "gone_early"
      /\ \A y \in Exchange \ {x} : cause'[y] = cause[y]
    BY <1>1, <1>2, <1>5, CauseMoves
<1>7. CompletionsTypeOK'
    BY <1>1, <1>2, <1>4, <1>6 DEF CompletionsTypeOK
<1>8. ExchangeFits(exchange'[x], cause'[x])
    BY <1>3, <1>4, <1>6 DEF ExchangeFits, StatusClass
<1>9. deadline_exceeded' = deadline_exceeded + Bit(cause'[x] = "timed_out")
                                             - Bit(cause[x] = "timed_out")
    BY <1>1, <1>2, <1>3, <1>6 DEF Bit, CompletionsTypeOK
<1>10. in_flight' = in_flight + Bit(exchange'[x].phase = "handler")
                              - Bit(exchange[x].phase = "handler")
    BY <1>1, <1>2, <1>4 DEF Bit, CompletionsTypeOK
<1>11. ASSUME NEW l \in Labels
       PROVE  Total(l)' = Total(l) + Bit(Counted(exchange'[x], cause'[x], l))
                                   - Bit(Counted(exchange[x], cause[x], l))
  <2>1. Total(l)' = Total(l) /\ Total(l) \in Int
      BY <1>1, <1>2, TotalsAreNumbers DEF Total
  <2>2. ~ Counted(exchange'[x], cause'[x], l) /\ ~ Counted(exchange[x], cause[x], l)
      BY <1>2, <1>6 DEF Counted
  <2>3. QED
      BY <2>1, <2>2 DEF Bit
<1>12. QED
    BY <1>4, <1>6, <1>7, <1>8, <1>9, <1>10, <1>11, CountsFollow

LEMMA TimerStartsCounts ==
    ASSUME CompletionsInv, NEW x \in Exchange, TimerStarts(x)
    PROVE  CompletionsInv'
<1>1. /\ CompletionsTypeOK /\ exchange \in [Exchange -> AnExchange]
      /\ exchange[x] \in AnExchange /\ ExchangeFits(exchange[x], cause[x])
    BY OneExchange
<1>2. /\ exchange[x].phase = "handler" /\ exchange[x].timer = "none"
      /\ exchange' = [exchange EXCEPT ![x].timer = "running"]
      /\ in_flight' = in_flight /\ requests' = requests /\ completions' = completions
      /\ deadline_exceeded' = deadline_exceeded /\ cause' = cause
    BY DEF TimerStarts
<1>3. /\ exchange' \in [Exchange -> AnExchange]
      /\ \A y \in Exchange \ {x} : exchange'[y] = exchange[y]
      /\ exchange'[x].phase = "handler" /\ exchange'[x].label = exchange[x].label
      /\ exchange'[x].timer = "running"
    BY <1>1, <1>2 DEF AnExchange, TimerState
<1>4. exchange[x].label \in Labels /\ cause[x] = "none"
    BY <1>1, <1>2 DEF ExchangeFits
<1>5. CompletionsTypeOK'
    BY <1>1, <1>2, <1>3 DEF CompletionsTypeOK
<1>6. ExchangeFits(exchange'[x], cause'[x])
    BY <1>2, <1>3, <1>4 DEF ExchangeFits, StatusClass
<1>7. \A o \in CompletionOutcome : completions'[o] =
            completions[o] + Bit(exchange'[x].timer = o) - Bit(exchange[x].timer = o)
    BY <1>1, <1>2, <1>3 DEF Bit, CompletionsTypeOK, CompletionOutcome
<1>8. /\ deadline_exceeded' = deadline_exceeded + Bit(cause'[x] = "timed_out")
                                                - Bit(cause[x] = "timed_out")
      /\ in_flight' = in_flight + Bit(exchange'[x].phase = "handler")
                                - Bit(exchange[x].phase = "handler")
    BY <1>1, <1>2, <1>3 DEF Bit, CompletionsTypeOK
<1>9. ASSUME NEW l \in Labels
      PROVE  Total(l)' = Total(l) + Bit(Counted(exchange'[x], cause'[x], l))
                                  - Bit(Counted(exchange[x], cause[x], l))
  <2>1. Total(l)' = Total(l) /\ Total(l) \in Int
      BY <1>1, <1>2, TotalsAreNumbers DEF Total
  <2>2. ~ Counted(exchange'[x], cause'[x], l) /\ ~ Counted(exchange[x], cause[x], l)
      BY <1>2, <1>3 DEF Counted
  <2>3. QED
      BY <2>1, <2>2 DEF Bit
<1>10. QED
    BY <1>2, <1>3, <1>5, <1>6, <1>7, <1>8, <1>9, CountsFollow

\* A body ends once, in one of the ways that a body may end.
LEMMA BodyFinishes ==
    ASSUME CompletionsInv, NEW x \in Exchange, Streaming(x), NEW p \in {"ended", "over"},
           NEW outcome \in CompletionOutcome, finish_completion(x, p, outcome),
           NEW c \in Cause, c \notin {"none", "gone_early"}, cause' = [cause EXCEPT ![x] = c],
           p = "ended" => c # "gone",
           outcome = "success" => c = "ended",
           outcome = "error" => c \in {"failed", "ended"},
           c = "timed_out" => outcome = "deadline",
           c = "gone" => outcome \in {"cancelled", "deadline"},
           deadline_exceeded' = deadline_exceeded + Bit(c = "timed_out"),
           in_flight' = in_flight, requests' = requests
    PROVE  CompletionsInv'
<1>1. /\ CompletionsTypeOK /\ exchange[x] \in AnExchange
      /\ ExchangeFits(exchange[x], cause[x])
    BY OneExchange
<1>2. /\ exchange[x].phase \notin {"handler", "new"} /\ exchange[x].timer = "running"
      /\ cause[x] = "none" /\ exchange[x].label \in Labels
    BY <1>1 DEF Streaming, StatusClass, ExchangeFits
<1>3. p \in ExchangePhase /\ p # "handler" /\ outcome # "running" /\ outcome # "none"
    BY DEF ExchangePhase, CompletionOutcome
<1>4. /\ exchange' \in [Exchange -> AnExchange]
      /\ completions' \in [CompletionOutcome -> Int]
      /\ \A y \in Exchange \ {x} : exchange'[y] = exchange[y]
      /\ exchange'[x].phase = p /\ exchange'[x].label = exchange[x].label
      /\ exchange'[x].timer = outcome
      /\ \A o \in CompletionOutcome : completions'[o] =
            completions[o] + Bit(exchange'[x].timer = o) - Bit(exchange[x].timer = o)
    BY <1>1, <1>2, <1>3, FinishCounts
<1>5. /\ cause' \in [Exchange -> Cause] /\ cause'[x] = c
      /\ \A y \in Exchange \ {x} : cause'[y] = cause[y]
    BY <1>1, CauseMoves
<1>6. ExchangeFits(exchange'[x], cause'[x])
    BY <1>2, <1>3, <1>4, <1>5 DEF ExchangeFits, StatusClass, Cause
<1>7. deadline_exceeded' = deadline_exceeded
                             + Bit(cause'[x] = "timed_out" /\ cause'[x] # cause[x])
    BY <1>2, <1>5 DEF Bit
<1>8. QED
    BY <1>2, <1>3, <1>4, <1>5, <1>6, <1>7, BodyCounts

LEMMA BodyStepCounts ==
    ASSUME CompletionsInv, NEW x \in Exchange,
           BodyTimesOut(x) \/ BodyEnds(x) \/ BodyFails(x) \/ BodyDropped(x)
    PROVE  CompletionsInv'
<1>1. deadline_exceeded \in Int
    BY DEF CompletionsInv, CompletionsTypeOK
<1>2. deadline_exceeded = deadline_exceeded + 0
    BY <1>1
<1>3. CASE BodyTimesOut(x)
  <2>1. /\ Streaming(x) /\ finish_completion(x, "ended", "deadline")
        /\ cause' = [cause EXCEPT ![x] = "timed_out"]
        /\ deadline_exceeded' = deadline_exceeded + Bit("timed_out" = "timed_out")
        /\ in_flight' = in_flight /\ requests' = requests
      BY <1>3 DEF BodyTimesOut, Bit
  <2>2. "deadline" \in CompletionOutcome /\ "timed_out" \in Cause
      BY DEF CompletionOutcome, Cause
  <2>3. QED
      BY <2>1, <2>2, BodyFinishes
<1>4. CASE BodyEnds(x)
  <2>1. PICK outcome : outcome = end_outcome(x)
      OBVIOUS
  <2>2. PICK c : c = IF past[x] THEN "ended_late" ELSE "ended"
      OBVIOUS
  <2>3. /\ outcome \in {"deadline", "success", "error"} /\ c \in {"ended", "ended_late"}
        /\ outcome # "deadline" => c = "ended"
      BY <2>1, <2>2 DEF end_outcome, deadline_reached
  <2>4. /\ Streaming(x) /\ finish_completion(x, "ended", outcome)
        /\ cause' = [cause EXCEPT ![x] = c]
        /\ deadline_exceeded' = deadline_exceeded
        /\ in_flight' = in_flight /\ requests' = requests
      BY <1>4, <2>1, <2>2 DEF BodyEnds
  <2>5. deadline_exceeded' = deadline_exceeded + Bit(c = "timed_out")
      BY <1>2, <2>3, <2>4 DEF Bit
  <2>6. outcome \in CompletionOutcome /\ c \in Cause
      BY <2>3 DEF CompletionOutcome, Cause
  <2>7. QED
      BY <2>3, <2>4, <2>5, <2>6, BodyFinishes
<1>5. CASE BodyFails(x)
  <2>1. PICK outcome : outcome = IF deadline_reached(x) THEN "deadline" ELSE "error"
      OBVIOUS
  <2>2. outcome \in {"deadline", "error"}
      BY <2>1
  <2>3. /\ Streaming(x) /\ finish_completion(x, "ended", outcome)
        /\ cause' = [cause EXCEPT ![x] = "failed"]
        /\ deadline_exceeded' = deadline_exceeded
        /\ in_flight' = in_flight /\ requests' = requests
      BY <1>5, <2>1 DEF BodyFails
  <2>4. deadline_exceeded' = deadline_exceeded + Bit("failed" = "timed_out")
      BY <1>2, <2>3 DEF Bit
  <2>5. outcome \in CompletionOutcome /\ "failed" \in Cause
      BY <2>2 DEF CompletionOutcome, Cause
  <2>6. QED
      BY <2>2, <2>3, <2>4, <2>5, BodyFinishes
<1>6. CASE BodyDropped(x) /\ Streaming(x)
  <2>1. PICK outcome : outcome = drop_outcome(x)
      OBVIOUS
  <2>2. outcome \in {"deadline", "cancelled"}
      BY <2>1 DEF drop_outcome
  <2>3. /\ finish_completion(x, "over", outcome)
        /\ cause' = [cause EXCEPT ![x] = "gone"]
        /\ deadline_exceeded' = deadline_exceeded
        /\ in_flight' = in_flight /\ requests' = requests
      BY <1>6, <2>1 DEF BodyDropped
  <2>4. deadline_exceeded' = deadline_exceeded + Bit("gone" = "timed_out")
      BY <1>2, <2>3 DEF Bit
  <2>5. outcome \in CompletionOutcome /\ "gone" \in Cause
      BY <2>2 DEF CompletionOutcome, Cause
  <2>6. QED
      BY <1>6, <2>2, <2>3, <2>4, <2>5, BodyFinishes
<1>7. CASE BodyDropped(x) /\ ~ Streaming(x)
  <2>1. PICK outcome : outcome = drop_outcome(x)
      OBVIOUS
  <2>2. outcome \in CompletionOutcome /\ "over" \in ExchangePhase
      BY <2>1 DEF drop_outcome, CompletionOutcome, ExchangePhase
  <2>3. /\ exchange[x].phase = "ended" /\ finish_completion(x, "over", outcome)
        /\ cause' = cause /\ deadline_exceeded' = deadline_exceeded
        /\ in_flight' = in_flight /\ requests' = requests
      BY <1>7, <2>1 DEF BodyDropped
  <2>4. /\ CompletionsTypeOK /\ exchange[x] \in AnExchange
        /\ cause \in [Exchange -> Cause] /\ ExchangeFits(exchange[x], cause[x])
      BY OneExchange
  <2>5. /\ exchange[x].timer \in CompletionOutcome /\ exchange[x].timer # "running"
        /\ exchange[x].label \in Labels
        /\ cause[x] \in {"timed_out", "ended", "ended_late", "failed"}
      BY <2>3, <2>4 DEF ExchangeFits, CompletionOutcome
  <2>6. /\ exchange' \in [Exchange -> AnExchange]
        /\ completions' \in [CompletionOutcome -> Int]
        /\ \A y \in Exchange \ {x} : exchange'[y] = exchange[y]
        /\ exchange'[x].phase = "over" /\ exchange'[x].label = exchange[x].label
        /\ exchange'[x].timer = exchange[x].timer
        /\ \A o \in CompletionOutcome : completions'[o] =
              completions[o] + Bit(exchange'[x].timer = o) - Bit(exchange[x].timer = o)
      BY <2>2, <2>3, <2>4, <2>5, FinishCounts
  <2>7. ExchangeFits(exchange'[x], cause'[x])
      BY <2>3, <2>4, <2>5, <2>6 DEF ExchangeFits, StatusClass
  <2>8. deadline_exceeded' = deadline_exceeded
                               + Bit(cause'[x] = "timed_out" /\ cause'[x] # cause[x])
      BY <1>2, <2>3 DEF Bit
  <2>9. QED
      BY <2>3, <2>4, <2>5, <2>6, <2>7, <2>8, BodyCounts
<1>8. QED
    BY <1>3, <1>4, <1>5, <1>6, <1>7

LEMMA CompletionsStart == CompletionsInit => CompletionsInv
<1> SUFFICES ASSUME CompletionsInit PROVE CompletionsInv
    OBVIOUS
<1>1. /\ exchange = [x \in Exchange |-> [phase |-> "new", timer |-> "none", label |-> <<>>]]
      /\ in_flight = 0 /\ requests = [l \in Labels \X StatusClass |-> 0]
      /\ completions = [o \in CompletionOutcome |-> 0]
      /\ deadline_exceeded = 0 /\ cause = [x \in Exchange |-> "none"]
    BY DEF CompletionsInit
<1>2. CompletionsTypeOK
    BY <1>1 DEF CompletionsTypeOK, AnExchange, ExchangePhase, TimerState, Cause
<1>3. ExchangesFit
    BY <1>1 DEF ExchangesFit, ExchangeFits, StatusClass
<1>4. IsFiniteSet({}) /\ Cardinality({}) = 0
    BY FS_EmptySet
<1>5. \A o \in CompletionOutcome : Timings(o) = {} /\ completions[o] = 0
    BY <1>1 DEF Timings, CompletionOutcome
<1>6. CutByDeadline = {} /\ BeingHandled = {}
    BY <1>1 DEF CutByDeadline, BeingHandled
<1>7. \A l \in Labels : Answered(l) = {} /\ Total(l) = 0
    BY <1>1, LabelsAreFull DEF Answered, Total, StatusClass
<1>8. Tallies
    BY <1>1, <1>4, <1>5, <1>6, <1>7 DEF Tallies
<1>9. QED
    BY <1>2, <1>3, <1>8 DEF CompletionsInv

LEMMA CompletionsRest ==
    ASSUME CompletionsInv, exchange' = exchange, cause' = cause, requests' = requests,
           completions' = completions, in_flight' = in_flight,
           deadline_exceeded' = deadline_exceeded
    PROVE  CompletionsInv'
<1>1. CompletionsTypeOK' /\ ExchangesFit'
    BY DEF CompletionsInv, CompletionsTypeOK, ExchangesFit
<1>2. /\ \A o \in CompletionOutcome : Timings(o)' = Timings(o)
      /\ \A l \in Labels : Answered(l)' = Answered(l) /\ Total(l)' = Total(l)
      /\ CutByDeadline' = CutByDeadline /\ BeingHandled' = BeingHandled
    BY DEF Timings, Answered, Total, CutByDeadline, BeingHandled
<1>3. Tallies'
    BY <1>2 DEF CompletionsInv, Tallies
<1>4. QED
    BY <1>1, <1>3 DEF CompletionsInv

LEMMA CompletionsStep ==
    ASSUME CompletionsInv, [CompletionsNext]_completionVars
    PROVE  CompletionsInv'
<1>1. ASSUME NEW x \in Exchange, NEW e \in Endpoint, Begins(x, e)
      PROVE  CompletionsInv'
    BY <1>1, BeginsCounts
<1>2. ASSUME NEW x \in Exchange, NEW s \in StatusClass, RespondsUntimed(x, s) \/ IntoStream(x, s)
      PROVE  CompletionsInv'
    BY <1>2, RespondsUntimedCounts
<1>3. ASSUME NEW x \in Exchange, TimerStarts(x)
      PROVE  CompletionsInv'
    BY <1>3, TimerStartsCounts
<1>4. ASSUME NEW x \in Exchange, DeadlinePasses(x)
      PROVE  CompletionsInv'
    BY <1>4, CompletionsRest DEF DeadlinePasses
<1>5. ASSUME NEW x \in Exchange, HandlerFails(x) \/ HandlerTimesOut(x)
      PROVE  CompletionsInv'
    BY <1>5, HandlerFailsCounts
<1>6. ASSUME NEW x \in Exchange, HandlerDropped(x)
      PROVE  CompletionsInv'
    BY <1>6, HandlerDroppedCounts
<1>7. ASSUME NEW x \in Exchange, BodyTimesOut(x) \/ BodyEnds(x) \/ BodyFails(x) \/ BodyDropped(x)
      PROVE  CompletionsInv'
    BY <1>7, BodyStepCounts
<1>8. CASE UNCHANGED completionVars
    BY <1>8, CompletionsRest DEF completionVars
<1>9. QED
    BY <1>1, <1>2, <1>3, <1>4, <1>5, <1>6, <1>7, <1>8 DEF CompletionsNext

LEMMA CompletionsInvIsEnough == CompletionsInv => CompletionsAreCounted
<1> SUFFICES ASSUME CompletionsInv PROVE CompletionsAreCounted
    OBVIOUS
<1>1. OutcomesAreTrue
    BY DEF CompletionsInv, ExchangesFit, ExchangeFits, Tallies, OutcomesAreTrue
<1>2. ResponsesAreCounted
    BY DEF CompletionsInv, Tallies, ResponsesAreCounted, Total
<1>3. QED
    BY <1>1, <1>2 DEF CompletionsAreCounted

-----------------------------------------------------------------------------
(* The metrics listeners.                                                    *)

ASnapshot == [state : State, count : Nat, healthy : {0, 1}]
MaybeSnapshot == ASnapshot \cup {NoSnapshot}
AScraper == [phase : {"idle", "refresh", "rest", "write"}, snapshot : MaybeSnapshot,
             todo : Seq((1..HEALTHY) \X Nat), read : Seq(Nat)]
ADocument == [document : Seq(Nat), snapshot : MaybeSnapshot]

ScrapesTypeOK ==
    /\ service \in ServiceName
    /\ source \in [state : State, count : Nat, healthy : {0, 1}, readable : BOOLEAN]
    /\ metric \in [1..HEALTHY -> Nat]
    /\ scraper \in [Scraper -> AScraper]
    /\ taken \in SUBSET MaybeSnapshot
    /\ scraped \in [Scraper -> Seq(ADocument)]

\* What a snapshot's metric is.
Value(s, m) == IF m \in State THEN Bit(s.state = m) ELSE IF m = COUNT THEN s.count ELSE s.healthy

\* A refresh with a snapshot has written the first metrics and has the others to write.
PartlyWritten(q, mt, tk, n) ==
    /\ Len(q.todo) <= HEALTHY
    /\ \A i \in 1..Len(q.todo) :
        q.todo[i] = <<HEALTHY - Len(q.todo) + i, Value(q.snapshot, HEALTHY - Len(q.todo) + i)>>
    /\ \A m \in 1..(HEALTHY - Len(q.todo)) : mt[m] = Value(q.snapshot, m)
    /\ q.snapshot \in tk
    /\ mt[COUNT] <= q.snapshot.count /\ q.snapshot.count <= n

\* A refresh without one touches nothing but a control plane's health.
KeepsTheLast(q, mt, svc) ==
    IF svc = "control_plane"
    THEN q.todo = <<<<HEALTHY, 0>>>> \/ (q.todo = << >> /\ mt[HEALTHY] = 0)
    ELSE q.todo = << >>

ReadSoFar(q, mt) ==
    /\ Len(q.read) <= HEALTHY
    /\ q.read # << >> => q.todo = << >>
    /\ \A i \in 1..Len(q.read) : q.read[i] = mt[i]

ScraperFits(q, mt, tk, n, svc) ==
    /\ q.phase \notin {"rest", "write"} => q = FreshScrape(q.phase)
    /\ q.phase = "rest" => /\ q.snapshot \in ASnapshot /\ svc \in ReadInParts
                           /\ q.todo = << >> /\ q.read = << >>
    /\ q.phase = "write" /\ q.snapshot # NoSnapshot => PartlyWritten(q, mt, tk, n)
    /\ q.phase = "write" /\ q.snapshot = NoSnapshot => KeepsTheLast(q, mt, svc)
    /\ ReadSoFar(q, mt)

ScrapersFit == \A k \in Scraper :
    ScraperFits(scraper[k], metric, taken, source.count, service)

OneRenders == \A k \in Scraper : scraper[k].phase # "idle" => render_lock = {k}

Rewriting(k) ==
    scraper[k].phase = "write" /\ scraper[k].snapshot # NoSnapshot /\ scraper[k].todo # << >>

MetricsShowOne ==
    \/ \E t \in taken \ {NoSnapshot} : Shows(metric, t)
    \/ \E k \in Scraper : Rewriting(k)

CountIsReal == metric[COUNT] <= source.count

IsWhole(d, tk, svc) ==
    /\ Len(d.document) = HEALTHY
    /\ IF d.snapshot # NoSnapshot
       THEN Shows(d.document, d.snapshot) /\ d.document[HEALTHY] = d.snapshot.healthy
       ELSE /\ \E t \in tk \ {NoSnapshot} : Shows(d.document, t)
            /\ svc = "control_plane" => d.document[HEALTHY] = 0

DocumentsWhole == \A k \in Scraper : \A i \in 1..Len(scraped[k]) :
    IsWhole(scraped[k][i], taken, service)

DocumentsCount ==
    \A k \in Scraper :
        /\ \A i \in 1..Len(scraped[k]) : scraped[k][i].document[COUNT] <= metric[COUNT]
        /\ \A i, j \in 1..Len(scraped[k]) :
            i < j => scraped[k][i].document[COUNT] <= scraped[k][j].document[COUNT]

ScrapesInv ==
    /\ ScrapesTypeOK /\ ScrapersFit /\ OneRenders /\ MetricsShowOne /\ CountIsReal
    /\ DocumentsWhole /\ DocumentsCount

LEMMA RegistryOrder ==
    /\ HEALTHY \in Nat /\ COUNT \in Nat /\ COUNT \in 1..HEALTHY /\ HEALTHY \in 1..HEALTHY
    /\ HEALTHY # COUNT /\ COUNT \notin State /\ HEALTHY \notin State
    /\ State \subseteq 1..HEALTHY /\ State \subseteq Nat /\ 0 \notin State /\ 1 \in State
    /\ \A m \in 1..HEALTHY : m \in State \/ m = COUNT \/ m = HEALTHY
BY ScrapeBounds DEF HEALTHY, COUNT, State

\* A real snapshot is not the missing one, and its values are numbers.
LEMMA SnapshotValues ==
    ASSUME NEW s \in ASnapshot
    PROVE  /\ s # NoSnapshot /\ s.count \in Nat /\ s.healthy \in Nat
           /\ Value(s, COUNT) = s.count /\ Value(s, HEALTHY) = s.healthy
           /\ \A m \in 1..HEALTHY : Value(s, m) \in Nat
<1>1. s.state \in State /\ s.count \in Nat /\ s.healthy \in {0, 1}
    BY DEF ASnapshot
<1>2. s.state # 0
    BY <1>1, RegistryOrder
<1>3. s # NoSnapshot
    BY <1>2 DEF NoSnapshot
<1>4. QED
    BY <1>1, <1>3, RegistryOrder DEF Value, Bit

\* Metrics that all have their value of a snapshot show it.
LEMMA ShowsAll ==
    ASSUME NEW s \in ASnapshot, NEW mt, \A m \in 1..HEALTHY : mt[m] = Value(s, m)
    PROVE  Shows(mt, s) /\ mt[HEALTHY] = s.healthy
<1>1. mt[COUNT] = s.count /\ mt[HEALTHY] = s.healthy
    BY RegistryOrder, SnapshotValues
<1>2. \A i \in State : mt[i] = IF s.state = i THEN 1 ELSE 0
    BY RegistryOrder DEF Value, Bit
<1>3. QED
    BY <1>1, <1>2 DEF Shows

\* Everything that a refresh writes, in the order of the registry.
LEMMA EverythingInOrder ==
    ASSUME ScrapesTypeOK, NEW s \in ASnapshot, metric[COUNT] <= s.count
    PROVE  /\ Everything(s) \in Seq((1..HEALTHY) \X Nat) /\ Len(Everything(s)) = HEALTHY
           /\ \A i \in 1..HEALTHY : Everything(s)[i] = <<i, Value(s, i)>>
<1>1. States \in Nat /\ State = 1..States
    BY ScrapeBounds DEF State
<1>2. metric[COUNT] \in Nat /\ s.count \in Nat
    BY RegistryOrder, SnapshotValues DEF ScrapesTypeOK
<1>3. sync_counter(s.count) = s.count
    BY <1>2 DEF sync_counter
<1>4. PICK g : g = Gauges(s)
    OBVIOUS
<1>5. g = [i \in 1..States |-> <<i, Value(s, i)>>]
    BY <1>1, <1>4 DEF Gauges, Value, Bit
<1>6. \A i \in 1..States : <<i, Value(s, i)>> \in (1..HEALTHY) \X Nat
    BY <1>1, RegistryOrder, SnapshotValues
<1>7. g \in Seq((1..HEALTHY) \X Nat) /\ Len(g) = States
    BY <1>1, <1>5, <1>6
<1>8. PICK r : r = <<<<COUNT, s.count>>, <<HEALTHY, s.healthy>>>>
    OBVIOUS
<1>9. /\ r \in Seq((1..HEALTHY) \X Nat) /\ Len(r) = 2
      /\ r[1] = <<COUNT, Value(s, COUNT)>> /\ r[2] = <<HEALTHY, Value(s, HEALTHY)>>
    BY <1>8, RegistryOrder, SnapshotValues
<1>10. Everything(s) = g \o r
    BY <1>3, <1>4, <1>8 DEF Everything
<1>11. COUNT = States + 1 /\ HEALTHY = States + 2
    BY DEF COUNT, HEALTHY
<1>12. PICK w : w = g \o r
    OBVIOUS
<1>13. /\ w \in Seq((1..HEALTHY) \X Nat) /\ Len(w) = States + 2
       /\ \A i \in 1..(States + 2) : w[i] = IF i <= States THEN g[i] ELSE r[i - States]
  <2>1. \A S : g \in Seq(S) /\ r \in Seq(S) =>
            /\ w \in Seq(S) /\ Len(w) = Len(g) + Len(r)
            /\ \A i \in 1 .. Len(g) + Len(r) : w[i] = IF i <= Len(g) THEN g[i] ELSE r[i - Len(g)]
      BY <1>12, ConcatProperties, Zenon
  <2>2. QED
      BY <1>7, <1>9, <2>1
<1>14. ASSUME NEW i \in 1..(States + 2)
       PROVE  w[i] = <<i, Value(s, i)>>
  <2>1. CASE i <= States
    <3>1. w[i] = g[i] /\ i \in 1..States
        BY <1>1, <1>13, <2>1
    <3>2. QED
        BY <1>5, <3>1
  <2>2. CASE i = States + 1
    <3>1. w[i] = r[1]
        BY <1>1, <1>13, <2>2
    <3>2. QED
        BY <1>9, <1>11, <2>2, <3>1
  <2>3. CASE i = States + 2
    <3>1. w[i] = r[2]
        BY <1>1, <1>13, <2>3
    <3>2. QED
        BY <1>9, <1>11, <2>3, <3>1
  <2>4. QED
      BY <1>1, <2>1, <2>2, <2>3
<1>15. QED
    BY <1>10, <1>11, <1>12, <1>13, <1>14

LEMMA FreshFits ==
    ASSUME NEW p \in {"idle", "refresh"}, NEW mt, NEW tk, NEW n, NEW svc
    PROVE  /\ FreshScrape(p) \in AScraper /\ FreshScrape(p).phase = p
           /\ ScraperFits(FreshScrape(p), mt, tk, n, svc)
<1>1. PICK q : q = FreshScrape(p)
    OBVIOUS
<1>2. q = [phase |-> p, snapshot |-> NoSnapshot, todo |-> << >>, read |-> << >>]
    BY <1>1 DEF FreshScrape
<1>3. q \in AScraper /\ q.phase = p /\ q.read = << >>
    BY <1>2 DEF AScraper, MaybeSnapshot
<1>4. ReadSoFar(q, mt)
    BY <1>3, RegistryOrder DEF ReadSoFar
<1>5. QED
    BY <1>1, <1>3, <1>4 DEF ScraperFits

\* While one renders the others are idle.
LEMMA OthersIdle ==
    ASSUME ScrapesInv, NEW k \in Scraper, scraper[k].phase # "idle", NEW j \in Scraper, j # k
    PROVE  scraper[j].phase = "idle" /\ scraper[j] = FreshScrape("idle")
<1>1. render_lock = {k}
    BY DEF ScrapesInv, OneRenders
<1>2. scraper[j].phase # "idle" => render_lock = {j}
    BY DEF ScrapesInv, OneRenders
<1>3. scraper[j].phase = "idle"
    BY <1>1, <1>2
<1>4. ScraperFits(scraper[j], metric, taken, source.count, service)
    BY DEF ScrapesInv, ScrapersFit
<1>5. QED
    BY <1>3, <1>4 DEF ScraperFits

\* When one scraper moves, with the others idle, all fit.
LEMMA OneScraperMoves ==
    ASSUME ScrapesInv, NEW k \in Scraper, NEW q \in AScraper,
           scraper' = [scraper EXCEPT ![k] = q],
           \A j \in Scraper : j # k => scraper[j] = FreshScrape("idle"),
           ScraperFits(q, metric', taken', source'.count, service')
    PROVE  /\ scraper' \in [Scraper -> AScraper] /\ scraper'[k] = q
           /\ \A j \in Scraper : j # k => scraper'[j] = scraper[j]
           /\ ScrapersFit'
<1>1. scraper \in [Scraper -> AScraper]
    BY DEF ScrapesInv, ScrapesTypeOK
<1>2. /\ scraper' \in [Scraper -> AScraper] /\ scraper'[k] = q
      /\ \A j \in Scraper : j # k => scraper'[j] = scraper[j]
    BY <1>1
<1>3. ASSUME NEW j \in Scraper
      PROVE  ScraperFits(scraper'[j], metric', taken', source'.count, service')
  <2>1. CASE j = k
      BY <1>2, <2>1
  <2>2. CASE j # k
    <3>1. scraper'[j] = FreshScrape("idle")
        BY <1>2, <2>2
    <3>2. QED
        BY <3>1, FreshFits
  <2>3. QED
      BY <2>1, <2>2
<1>4. QED
    BY <1>2, <1>3 DEF ScrapersFit

\* Documents stay whole and in order while the count does not fall.
LEMMA DocumentsStay ==
    ASSUME ScrapesInv, scraped' = scraped, service' = service, taken \subseteq taken',
           metric'[COUNT] \in Nat, metric[COUNT] <= metric'[COUNT]
    PROVE  DocumentsWhole' /\ DocumentsCount'
<1>1. \A d : IsWhole(d, taken, service) => IsWhole(d, taken', service')
    BY DEF IsWhole
<1>2. DocumentsWhole'
    BY <1>1 DEF ScrapesInv, DocumentsWhole
<1>3. metric[COUNT] \in Nat
    BY RegistryOrder DEF ScrapesInv, ScrapesTypeOK
<1>4. ASSUME NEW k \in Scraper, NEW i \in 1..Len(scraped[k])
      PROVE  scraped[k][i].document[COUNT] \in Nat
  <2>1. scraped[k] \in Seq(ADocument)
      BY DEF ScrapesInv, ScrapesTypeOK
  <2>2. scraped[k][i] \in ADocument
      BY <2>1
  <2>3. Len(scraped[k][i].document) = HEALTHY
      BY DEF ScrapesInv, DocumentsWhole, IsWhole
  <2>4. scraped[k][i].document \in Seq(Nat)
      BY <2>2 DEF ADocument
  <2>5. PICK document : document = scraped[k][i].document
      OBVIOUS
  <2>6. document \in Seq(Nat) /\ COUNT \in 1..Len(document)
      BY <2>3, <2>4, <2>5, RegistryOrder
  <2>7. document[COUNT] \in Nat
      BY <2>6
  <2>8. QED
      BY <2>5, <2>7
<1>5. ASSUME NEW k \in Scraper, NEW i \in 1..Len(scraped[k])
      PROVE  scraped[k][i].document[COUNT] <= metric'[COUNT]
  <2>1. scraped[k][i].document[COUNT] <= metric[COUNT]
      BY DEF ScrapesInv, DocumentsCount
  <2>2. QED
      BY <1>3, <1>4, <2>1
<1>6. DocumentsCount'
    BY <1>5 DEF ScrapesInv, DocumentsCount
<1>7. QED
    BY <1>2, <1>6

LEMMA SourceStep ==
    ASSUME ScrapesInv, SourceMoves \/ SourceLocked
    PROVE  ScrapesInv'
<1>1. /\ source \in [state : State, count : Nat, healthy : {0, 1}, readable : BOOLEAN]
      /\ ScrapesTypeOK /\ metric[COUNT] \in Nat
  <2>1. ScrapesTypeOK
      BY DEF ScrapesInv
  <2>2. /\ source \in [state : State, count : Nat, healthy : {0, 1}, readable : BOOLEAN]
        /\ metric \in [1..HEALTHY -> Nat] /\ COUNT \in 1..HEALTHY
      BY <2>1, RegistryOrder DEF ScrapesTypeOK
  <2>3. QED
      BY <2>1, <2>2, Zenon
<1>2. /\ service' = service /\ metric' = metric /\ scraper' = scraper
      /\ render_lock' = render_lock /\ taken' = taken /\ scraped' = scraped
    BY DEF SourceMoves, SourceLocked
<1>3. /\ source' \in [state : State, count : Nat, healthy : {0, 1}, readable : BOOLEAN]
      /\ source.count <= source'.count
  <2>1. PICK a, c, h, r : /\ a = source.state /\ c = source.count
                          /\ h = source.healthy /\ r = source.readable
      OBVIOUS
  <2>2. a \in State /\ c \in Nat /\ h \in {0, 1} /\ r \in BOOLEAN
      BY <1>1, <2>1
  <2>3. source = [state |-> a, count |-> c, healthy |-> h, readable |-> r]
      BY <1>1, <2>1
  <2>4. CASE SourceMoves
    <3>1. PICK i \in State, g \in {0, 1} :
            source' = [source EXCEPT !.state = i, !.count = @ + 1, !.healthy = g]
        BY <2>4 DEF SourceMoves
    <3>2. source' = [state |-> i, count |-> c + 1, healthy |-> g, readable |-> r]
        BY <2>3, <3>1
    <3>3. c + 1 \in Nat /\ c <= c + 1
        BY <2>2
    <3>4. QED
        BY <2>1, <2>2, <3>2, <3>3
  <2>5. CASE SourceLocked
    <3>1. source' = [source EXCEPT !.readable = ~ @]
        BY <2>5 DEF SourceLocked
    <3>2. source' = [state |-> a, count |-> c, healthy |-> h, readable |-> ~ r]
        BY <2>3, <3>1, Zenon
    <3>3. (~ r) \in BOOLEAN /\ c <= c
        BY <2>2
    <3>4. QED
        BY <2>1, <2>2, <3>2, <3>3
  <2>6. QED
      BY <2>4, <2>5
<1>4. source.count \in Nat /\ source'.count \in Nat
    BY <1>1, <1>3
<1>5. ScrapesTypeOK'
    BY <1>1, <1>2, <1>3 DEF ScrapesTypeOK
<1>6. ASSUME NEW k \in Scraper
      PROVE  ScraperFits(scraper[k], metric, taken, source'.count, service)
  <2>1. ScraperFits(scraper[k], metric, taken, source.count, service) /\ scraper[k] \in AScraper
      BY <1>1 DEF ScrapesInv, ScrapersFit, ScrapesTypeOK
  <2>2. scraper[k].snapshot.count \in Nat
      BY <2>1 DEF AScraper, MaybeSnapshot, ASnapshot, NoSnapshot
  <2>3. PartlyWritten(scraper[k], metric, taken, source.count)
            => PartlyWritten(scraper[k], metric, taken, source'.count)
      BY <1>3, <1>4, <2>2 DEF PartlyWritten
  <2>4. QED
      BY <2>1, <2>3 DEF ScraperFits
<1>7. ScrapersFit'
    BY <1>2, <1>6 DEF ScrapersFit
<1>8. OneRenders' /\ MetricsShowOne'
    BY <1>2 DEF ScrapesInv, OneRenders, MetricsShowOne, Rewriting, Shows
<1>9. CountIsReal'
    BY <1>1, <1>2, <1>3, <1>4 DEF ScrapesInv, CountIsReal
<1>10. DocumentsWhole' /\ DocumentsCount'
    BY <1>1, <1>2, DocumentsStay
<1>11. QED
    BY <1>5, <1>7, <1>8, <1>9, <1>10 DEF ScrapesInv

LEMMA RenderBeginsStep ==
    ASSUME ScrapesInv, NEW k \in Scraper, RenderBegins(k)
    PROVE  ScrapesInv'
<1>1. /\ render_lock = {} /\ render_lock' = {k}
      /\ scraper' = [scraper EXCEPT ![k] = FreshScrape("refresh")]
      /\ service' = service /\ source' = source /\ metric' = metric /\ taken' = taken
      /\ scraped' = scraped
    BY DEF RenderBegins, takes_lock
<1>2. ASSUME NEW j \in Scraper
      PROVE  scraper[j].phase = "idle" /\ scraper[j] = FreshScrape("idle")
  <2>1. scraper[j].phase = "idle"
      BY <1>1 DEF ScrapesInv, OneRenders
  <2>2. ScraperFits(scraper[j], metric, taken, source.count, service)
      BY DEF ScrapesInv, ScrapersFit
  <2>3. QED
      BY <2>1, <2>2 DEF ScraperFits
<1>3. PICK q : q = FreshScrape("refresh")
    OBVIOUS
<1>4. q \in AScraper /\ ScraperFits(q, metric', taken', source'.count, service')
    BY <1>3, FreshFits
<1>5. /\ scraper' \in [Scraper -> AScraper]
      /\ \A j \in Scraper : j # k => scraper'[j] = scraper[j]
      /\ ScrapersFit'
    BY <1>1, <1>2, <1>3, <1>4, OneScraperMoves
<1>6. ScrapesTypeOK'
    BY <1>1, <1>5 DEF ScrapesInv, ScrapesTypeOK
<1>7. OneRenders'
    BY <1>1, <1>2, <1>5 DEF OneRenders
<1>8. \A j \in Scraper : ~ Rewriting(j)
    BY <1>2 DEF Rewriting
<1>9. MetricsShowOne' /\ CountIsReal'
    BY <1>1, <1>8 DEF ScrapesInv, MetricsShowOne, CountIsReal, Shows
<1>10. metric[COUNT] \in Nat
    BY RegistryOrder DEF ScrapesInv, ScrapesTypeOK
<1>11. DocumentsWhole' /\ DocumentsCount'
    BY <1>1, <1>10, DocumentsStay
<1>12. QED
    BY <1>5, <1>6, <1>7, <1>9, <1>11 DEF ScrapesInv

\* What a refresh reads and sets out to write.
LEMMA RefreshTodo ==
    ASSUME ScrapesInv
    PROVE  \/ /\ Snapshots \in ASnapshot /\ Snapshots.count = source.count
              /\ Writes(Snapshots) = Everything(Snapshots)
           \/ /\ Snapshots = NoSnapshot
              /\ Writes(Snapshots) = IF service = "control_plane" THEN <<<<HEALTHY, 0>>>> ELSE << >>
<1>1. PICK s : s = Snapshots
    OBVIOUS
<1>2. /\ source.state \in State /\ source.count \in Nat /\ source.healthy \in {0, 1}
      /\ service \in ServiceName
    BY DEF ScrapesInv, ScrapesTypeOK
<1>3. CASE s = NoSnapshot
  <2>1. \/ service \notin {"gateway", "worker", "trust_renewer"}
        \/ s = [state |-> source.state, count |-> source.count, healthy |-> source.healthy]
      BY <1>1 DEF Snapshots
  <2>2. [state |-> source.state, count |-> source.count, healthy |-> source.healthy] # NoSnapshot
    <3>1. source.state # 0
        BY <1>2, RegistryOrder
    <3>2. QED
        BY <3>1 DEF NoSnapshot
  <2>3. service \in {"control_plane", "link_proxy", "batch_queue", "trust_distributor"}
      BY <1>2, <1>3, <2>1, <2>2 DEF ServiceName
  <2>4. Writes(s) = IF service = "control_plane" THEN <<<<HEALTHY, 0>>>> ELSE << >>
      BY <1>3, <2>3 DEF Writes, control_refresh, link_refresh, queue_refresh, distributor_refresh
  <2>5. QED
      BY <1>1, <1>3, <2>4
<1>4. CASE s # NoSnapshot
  <2>1. s = [state |-> source.state, count |-> source.count, healthy |-> source.healthy]
      BY <1>1, <1>4 DEF Snapshots
  <2>2. s \in ASnapshot /\ s.count = source.count
      BY <1>2, <2>1 DEF ASnapshot
  <2>3. Writes(s) = Everything(s)
      BY <1>2, <1>4 DEF ServiceName, Writes, control_refresh, link_refresh, queue_refresh,
            distributor_refresh, gateway_refresh, worker_refresh, renewer_refresh
  <2>4. QED
      BY <1>1, <2>2, <2>3
<1>5. QED
    BY <1>3, <1>4

LEMMA RefreshedRecord ==
    ASSUME NEW x \in AScraper, NEW p, NEW s, NEW w
    PROVE  [x EXCEPT !.phase = p, !.snapshot = s, !.todo = w]
             = [phase |-> p, snapshot |-> s, todo |-> w, read |-> x.read]
<1>1. PICK y : y = [x EXCEPT !.phase = p]
    OBVIOUS
<1>2. y \in [phase : {p}, snapshot : MaybeSnapshot, todo : Seq((1..HEALTHY) \X Nat),
             read : {x.read}]
    BY <1>1 DEF AScraper
<1>3. PICK z : z = [y EXCEPT !.snapshot = s]
    OBVIOUS
<1>4. z \in [phase : {p}, snapshot : {s}, todo : Seq((1..HEALTHY) \X Nat), read : {x.read}]
    BY <1>2, <1>3
<1>5. PICK v : v = [z EXCEPT !.todo = w]
    OBVIOUS
<1>6. v \in [phase : {p}, snapshot : {s}, todo : {w}, read : {x.read}]
    BY <1>4, <1>5
<1>7. v = [phase |-> v.phase, snapshot |-> v.snapshot, todo |-> v.todo, read |-> v.read]
    BY <1>6
<1>8. v = [x EXCEPT !.phase = p, !.snapshot = s, !.todo = w]
    BY <1>1, <1>3, <1>5, Zenon
<1>9. QED
    BY <1>6, <1>7, <1>8

\* A refresh that has read everything begins to write.
LEMMA RefreshedKeeps ==
    ASSUME ScrapesInv, NEW k \in Scraper, NEW s, Refreshed(k, s),
           scraper[k].phase \in {"refresh", "rest"},
           \/ /\ s \in ASnapshot /\ s.count = source.count /\ Writes(s) = Everything(s)
           \/ /\ s = NoSnapshot
              /\ Writes(s) = IF service = "control_plane" THEN <<<<HEALTHY, 0>>>> ELSE << >>,
           UNCHANGED <<service, source, metric, render_lock, scraped>>
    PROVE  ScrapesInv'
<1>1. PICK w : w = Writes(s)
    OBVIOUS
<1>2. /\ scraper[k].phase \in {"refresh", "rest"}
      /\ scraper' = [scraper EXCEPT ![k] =
            [scraper[k] EXCEPT !.phase = "write", !.snapshot = s, !.todo = w]]
      /\ taken' = taken \cup {s}
      /\ service' = service /\ source' = source /\ metric' = metric
      /\ render_lock' = render_lock /\ scraped' = scraped
    BY <1>1 DEF Refreshed
<1>3. /\ scraper \in [Scraper -> AScraper] /\ ScrapesTypeOK
      /\ metric[COUNT] \in Nat /\ metric[COUNT] <= source.count
    BY RegistryOrder DEF ScrapesInv, ScrapesTypeOK, CountIsReal
<1>4. ScraperFits(scraper[k], metric, taken, source.count, service)
    BY DEF ScrapesInv, ScrapersFit
<1>5. scraper[k].read = << >>
    BY <1>2, <1>4 DEF ScraperFits, FreshScrape
<1>6. PICK q : q = [phase |-> "write", snapshot |-> s, todo |-> w, read |-> << >>]
    OBVIOUS
<1>7. scraper' = [scraper EXCEPT ![k] = q]
  <2>1. scraper[k] \in AScraper /\ scraper[k].read = << >>
      BY <1>3, <1>5
  <2>2. [scraper[k] EXCEPT !.phase = "write", !.snapshot = s, !.todo = w] = q
    <3>1. PICK x : x = scraper[k]
        OBVIOUS
    <3>2. x \in AScraper /\ x.read = << >>
        BY <2>1, <3>1
    <3>3. [x EXCEPT !.phase = "write", !.snapshot = s, !.todo = w]
            = [phase |-> "write", snapshot |-> s, todo |-> w, read |-> x.read]
        BY <3>2, RefreshedRecord, Zenon
    <3>4. QED
        BY <1>6, <3>1, <3>2, <3>3, Zenon
  <2>3. QED
      BY <1>2, <2>2
<1>8. /\ s \in MaybeSnapshot /\ w \in Seq((1..HEALTHY) \X Nat)
      /\ s # NoSnapshot => /\ s \in ASnapshot /\ s.count = source.count /\ Len(w) = HEALTHY
                           /\ \A i \in 1..HEALTHY : w[i] = <<i, Value(s, i)>>
      /\ s = NoSnapshot => w = IF service = "control_plane" THEN <<<<HEALTHY, 0>>>> ELSE << >>
  <2>1. CASE s \in ASnapshot /\ s.count = source.count /\ w = Everything(s)
    <3>1. /\ w \in Seq((1..HEALTHY) \X Nat) /\ Len(w) = HEALTHY
          /\ \A i \in 1..HEALTHY : w[i] = <<i, Value(s, i)>>
        BY <1>3, <2>1, EverythingInOrder
    <3>2. s # NoSnapshot
        BY <2>1, SnapshotValues
    <3>3. QED
        BY <2>1, <3>1, <3>2 DEF MaybeSnapshot
  <2>2. CASE s = NoSnapshot /\ w = IF service = "control_plane" THEN <<<<HEALTHY, 0>>>> ELSE << >>
    <3>1. <<HEALTHY, 0>> \in (1..HEALTHY) \X Nat
        BY RegistryOrder
    <3>2. \A S, e : e \in S => <<e>> \in Seq(S) /\ << >> \in Seq(S)
        OBVIOUS
    <3>3. w \in Seq((1..HEALTHY) \X Nat)
        BY <2>2, <3>1, <3>2
    <3>4. QED
        BY <2>2, <3>3 DEF MaybeSnapshot
  <2>3. QED
      BY <1>1, <2>1, <2>2
<1>9. q \in AScraper
    BY <1>6, <1>8 DEF AScraper
<1>10. ScraperFits(q, metric', taken', source'.count, service')
  <2>1. q.phase = "write" /\ q.snapshot = s /\ q.todo = w /\ q.read = << >>
      BY <1>6
  <2>2. ASSUME s # NoSnapshot
        PROVE  PartlyWritten(q, metric', taken', source'.count)
    <3>1. Len(w) = HEALTHY /\ HEALTHY \in Nat
        BY <1>8, <2>2, RegistryOrder
    <3>2. \A i \in 1..Len(w) : w[i] = <<HEALTHY - Len(w) + i, Value(s, HEALTHY - Len(w) + i)>>
        BY <1>8, <2>2, <3>1
    <3>3. \A m \in 1..(HEALTHY - Len(w)) : metric'[m] = Value(s, m)
        BY <3>1
    <3>4. Len(w) <= HEALTHY /\ s \in taken'
        BY <1>2, <3>1
    <3>5. source.count \in Nat /\ s.count <= source.count /\ metric[COUNT] <= s.count
        BY <1>3, <1>8, <2>2 DEF ScrapesTypeOK
    <3>6. QED
        BY <1>2, <2>1, <3>2, <3>3, <3>4, <3>5 DEF PartlyWritten
  <2>3. ASSUME s = NoSnapshot
        PROVE  KeepsTheLast(q, metric', service')
      BY <1>2, <1>8, <2>1, <2>3 DEF KeepsTheLast
  <2>4. ReadSoFar(q, metric')
      BY <2>1, RegistryOrder DEF ReadSoFar
  <2>5. QED
      BY <2>1, <2>2, <2>3, <2>4 DEF ScraperFits
<1>11. \A j \in Scraper : j # k => scraper[j] = FreshScrape("idle") /\ scraper[j].phase = "idle"
    BY <1>2, OthersIdle
<1>12. /\ scraper' \in [Scraper -> AScraper]
       /\ \A j \in Scraper : j # k => scraper'[j] = scraper[j]
       /\ ScrapersFit'
    BY <1>7, <1>9, <1>10, <1>11, OneScraperMoves
<1>13. ScrapesTypeOK'
    BY <1>2, <1>3, <1>8, <1>12 DEF ScrapesTypeOK
<1>14. OneRenders'
    BY <1>2, <1>11, <1>12 DEF ScrapesInv, OneRenders
<1>15. \A j \in Scraper : ~ Rewriting(j)
    BY <1>2, <1>11 DEF Rewriting
<1>16. MetricsShowOne'
    BY <1>2, <1>15 DEF ScrapesInv, MetricsShowOne, Shows
<1>17. CountIsReal'
    BY <1>2 DEF ScrapesInv, CountIsReal
<1>18. DocumentsWhole' /\ DocumentsCount'
    BY <1>2, <1>3, DocumentsStay
<1>19. QED
    BY <1>12, <1>13, <1>14, <1>16, <1>17, <1>18 DEF ScrapesInv

LEMMA RefreshReadsStep ==
    ASSUME ScrapesInv, NEW k \in Scraper, RefreshReads(k)
    PROVE  ScrapesInv'
<1>1. PICK s : s = Snapshots
    OBVIOUS
<1>2. /\ scraper[k].phase = "refresh" /\ UNCHANGED <<service, source, metric, render_lock, scraped>>
      /\ \/ Refreshed(k, s)
         \/ /\ service \in ReadInParts /\ s # NoSnapshot /\ taken' = taken
            /\ scraper' = [scraper EXCEPT ![k] =
                              [scraper[k] EXCEPT !.phase = "rest", !.snapshot = s]]
    BY <1>1 DEF RefreshReads
<1>3. CASE Refreshed(k, s)
    BY <1>1, <1>2, <1>3, RefreshTodo, RefreshedKeeps
<1>4. CASE /\ service \in ReadInParts /\ s # NoSnapshot /\ taken' = taken
           /\ scraper' = [scraper EXCEPT ![k] = [scraper[k] EXCEPT !.phase = "rest", !.snapshot = s]]
  <2>1. s \in ASnapshot
      BY <1>1, <1>4, RefreshTodo
  <2>2. /\ scraper \in [Scraper -> AScraper] /\ ScrapesTypeOK /\ metric[COUNT] \in Nat
        /\ ScraperFits(scraper[k], metric, taken, source.count, service)
      BY RegistryOrder DEF ScrapesInv, ScrapesTypeOK, ScrapersFit
  <2>3. PICK x : x = scraper[k]
      OBVIOUS
  <2>4. x \in AScraper /\ x.todo = << >> /\ x.read = << >>
      BY <1>2, <2>2, <2>3 DEF ScraperFits, FreshScrape
  <2>5. PICK q : q = [x EXCEPT !.phase = "rest", !.snapshot = s]
      OBVIOUS
  <2>6. /\ q \in AScraper /\ q.phase = "rest" /\ q.snapshot = s
        /\ q.todo = << >> /\ q.read = << >>
    <3>1. PICK y : y = [x EXCEPT !.phase = "rest"]
        OBVIOUS
    <3>2. y \in [phase : {"rest"}, snapshot : MaybeSnapshot, todo : {<< >>}, read : {<< >>}]
        BY <2>4, <3>1 DEF AScraper
    <3>3. q = [y EXCEPT !.snapshot = s]
        BY <2>5, <3>1, Zenon
    <3>4. q \in [phase : {"rest"}, snapshot : {s}, todo : {<< >>}, read : {<< >>}]
        BY <3>2, <3>3
    <3>5. << >> \in Seq((1..HEALTHY) \X Nat) /\ << >> \in Seq(Nat) /\ s \in MaybeSnapshot
        BY <2>1 DEF MaybeSnapshot
    <3>6. QED
        BY <3>4, <3>5 DEF AScraper
  <2>7. ScraperFits(q, metric', taken', source'.count, service')
    <3>1. ReadSoFar(q, metric')
        BY <2>6, RegistryOrder DEF ReadSoFar
    <3>2. QED
        BY <1>2, <1>4, <2>1, <2>6, <3>1 DEF ScraperFits
  <2>8. \A j \in Scraper : j # k => scraper[j] = FreshScrape("idle") /\ scraper[j].phase = "idle"
      BY <1>2, OthersIdle
  <2>9. scraper' = [scraper EXCEPT ![k] = q]
      BY <1>4, <2>3, <2>5
  <2>10. /\ scraper' \in [Scraper -> AScraper]
         /\ \A j \in Scraper : j # k => scraper'[j] = scraper[j]
         /\ ScrapersFit'
      BY <2>6, <2>7, <2>8, <2>9, OneScraperMoves
  <2>11. ScrapesTypeOK'
      BY <1>2, <1>4, <2>2, <2>10 DEF ScrapesTypeOK
  <2>12. OneRenders'
      BY <1>2, <2>8, <2>10 DEF ScrapesInv, OneRenders
  <2>13. \A j \in Scraper : ~ Rewriting(j)
      BY <1>2, <2>8 DEF Rewriting
  <2>14. MetricsShowOne' /\ CountIsReal'
      BY <1>2, <1>4, <2>13 DEF ScrapesInv, MetricsShowOne, CountIsReal, Shows
  <2>15. DocumentsWhole' /\ DocumentsCount'
      BY <1>2, <1>4, <2>2, DocumentsStay
  <2>16. QED
      BY <2>10, <2>11, <2>12, <2>14, <2>15 DEF ScrapesInv
<1>5. QED
    BY <1>2, <1>3, <1>4

LEMMA RefreshReadsRestStep ==
    ASSUME ScrapesInv, NEW k \in Scraper, RefreshReadsRest(k)
    PROVE  ScrapesInv'
<1>1. PICK r, n, s : /\ r = scraper[k].snapshot /\ n = source.count
                     /\ s = [r EXCEPT !.count = n]
    OBVIOUS
<1>2. /\ scraper[k].phase = "rest" /\ Refreshed(k, s)
      /\ UNCHANGED <<service, source, metric, render_lock, scraped>>
    BY <1>1 DEF RefreshReadsRest
<1>3. ScraperFits(scraper[k], metric, taken, source.count, service) /\ n \in Nat
    BY <1>1 DEF ScrapesInv, ScrapersFit, ScrapesTypeOK
<1>4. r \in ASnapshot /\ service \in ReadInParts
    BY <1>1, <1>2, <1>3 DEF ScraperFits
<1>5. s \in ASnapshot /\ s.count = n
    BY <1>1, <1>3, <1>4 DEF ASnapshot
<1>6. Writes(s) = Everything(s)
    BY <1>4, <1>5, SnapshotValues DEF ReadInParts, Writes, gateway_refresh, control_refresh
<1>7. QED
    BY <1>1, <1>2, <1>5, <1>6, RefreshedKeeps

\* A write goes where the snapshot's next value belongs, or marks a control plane as
\* unhealthy.
LEMMA WriteGoes ==
    ASSUME ScrapesInv, NEW k \in Scraper, RefreshWrites(k)
    PROVE  \E m \in 1..HEALTHY, v \in Nat :
            /\ metric' = [metric EXCEPT ![m] = v] /\ metric' \in [1..HEALTHY -> Nat]
            /\ metric'[m] = v /\ \A n \in 1..HEALTHY : n # m => metric'[n] = metric[n]
            /\ Head(scraper[k].todo) = <<m, v>>
            /\ scraper[k].snapshot # NoSnapshot =>
                m = HEALTHY - Len(scraper[k].todo) + 1 /\ v = Value(scraper[k].snapshot, m)
            /\ scraper[k].snapshot = NoSnapshot =>
                /\ service = "control_plane" /\ m = HEALTHY /\ v = 0
                /\ scraper[k].todo = <<<<HEALTHY, 0>>>>
<1>1. PICK q, w, h : q = scraper[k] /\ w = q.todo /\ h = Head(w)
    OBVIOUS
<1>2. /\ q.phase = "write" /\ w # << >> /\ metric' = [metric EXCEPT ![h[1]] = h[2]]
    BY <1>1 DEF RefreshWrites
<1>3. q \in AScraper /\ metric \in [1..HEALTHY -> Nat]
    BY <1>1 DEF ScrapesInv, ScrapesTypeOK
<1>4. w \in Seq((1..HEALTHY) \X Nat)
    BY <1>1, <1>3 DEF AScraper
<1>5. Len(w) \in Nat /\ Len(w) >= 1 /\ h = w[1] /\ h \in (1..HEALTHY) \X Nat
  <2>1. \A S : w \in Seq(S) => Len(w) \in Nat /\ Len(w) >= 1 /\ Head(w) = w[1] /\ w[1] \in S
      BY <1>2
  <2>2. QED
      BY <1>1, <1>4, <2>1
<1>6. PICK m \in 1..HEALTHY, v \in Nat : h = <<m, v>>
    BY <1>5
<1>7. metric' = [metric EXCEPT ![m] = v]
    BY <1>2, <1>6
<1>8. /\ metric' \in [1..HEALTHY -> Nat] /\ metric'[m] = v
      /\ \A n \in 1..HEALTHY : n # m => metric'[n] = metric[n]
    BY <1>3, <1>7
<1>9. ScraperFits(q, metric, taken, source.count, service)
    BY <1>1 DEF ScrapesInv, ScrapersFit
<1>10. ASSUME q.snapshot # NoSnapshot
       PROVE  m = HEALTHY - Len(w) + 1 /\ v = Value(q.snapshot, m)
  <2>1. PartlyWritten(q, metric, taken, source.count)
      BY <1>2, <1>9, <1>10 DEF ScraperFits
  <2>2. w[1] = <<HEALTHY - Len(w) + 1, Value(q.snapshot, HEALTHY - Len(w) + 1)>>
      BY <1>1, <1>5, <2>1 DEF PartlyWritten
  <2>3. PICK a, b : a = HEALTHY - Len(w) + 1 /\ b = Value(q.snapshot, a)
      OBVIOUS
  <2>4. <<m, v>> = <<a, b>>
      BY <1>5, <1>6, <2>2, <2>3
  <2>5. m = a /\ v = b
      BY <2>4
  <2>6. QED
      BY <2>3, <2>5
<1>11. ASSUME q.snapshot = NoSnapshot
       PROVE  /\ service = "control_plane" /\ m = HEALTHY /\ v = 0
              /\ w = <<<<HEALTHY, 0>>>>
  <2>1. KeepsTheLast(q, metric, service)
      BY <1>2, <1>9, <1>11 DEF ScraperFits
  <2>2. service = "control_plane" /\ w = <<<<HEALTHY, 0>>>>
      BY <1>1, <1>2, <2>1 DEF KeepsTheLast
  <2>3. <<m, v>> = <<HEALTHY, 0>>
      BY <1>5, <1>6, <2>2
  <2>4. QED
      BY <2>2, <2>3
<1>12. QED
    BY <1>1, <1>6, <1>7, <1>8, <1>10, <1>11

LEMMA RefreshWritesStep ==
    ASSUME ScrapesInv, NEW k \in Scraper, RefreshWrites(k)
    PROVE  ScrapesInv'
<1>1. PICK q, w, s : q = scraper[k] /\ w = q.todo /\ s = q.snapshot
    OBVIOUS
<1>2. PICK m \in 1..HEALTHY, v \in Nat :
        /\ metric' = [metric EXCEPT ![m] = v] /\ metric' \in [1..HEALTHY -> Nat]
        /\ metric'[m] = v /\ \A n \in 1..HEALTHY : n # m => metric'[n] = metric[n]
        /\ Head(w) = <<m, v>>
        /\ s # NoSnapshot => m = HEALTHY - Len(w) + 1 /\ v = Value(s, m)
        /\ s = NoSnapshot => /\ service = "control_plane" /\ m = HEALTHY /\ v = 0
                             /\ w = <<<<HEALTHY, 0>>>>
    BY <1>1, WriteGoes
<1>3. /\ q.phase = "write" /\ w # << >> /\ scraper' = [scraper EXCEPT ![k].todo = Tail(@)]
      /\ service' = service /\ source' = source /\ render_lock' = render_lock
      /\ taken' = taken /\ scraped' = scraped
    BY <1>1 DEF RefreshWrites
<1>4. /\ scraper \in [Scraper -> AScraper] /\ q \in AScraper /\ ScrapesTypeOK
      /\ metric \in [1..HEALTHY -> Nat] /\ source.count \in Nat
    BY <1>1 DEF ScrapesInv, ScrapesTypeOK
<1>5. w \in Seq((1..HEALTHY) \X Nat) /\ s \in MaybeSnapshot /\ q.read \in Seq(Nat)
    BY <1>1, <1>4 DEF AScraper
<1>6. PICK z : z = Tail(w)
    OBVIOUS
<1>7. /\ z \in Seq((1..HEALTHY) \X Nat) /\ Len(w) \in Nat /\ Len(w) >= 1 /\ Len(z) = Len(w) - 1
      /\ \A i \in 1..Len(z) : z[i] = w[i + 1]
    BY <1>3, <1>5, <1>6
<1>8. PICK p : p = [q EXCEPT !.todo = z]
    OBVIOUS
<1>9. /\ p \in AScraper /\ p.phase = "write" /\ p.todo = z /\ p.snapshot = s
      /\ p.read = q.read
    BY <1>1, <1>3, <1>4, <1>7, <1>8 DEF AScraper
<1>10. scraper' = [scraper EXCEPT ![k] = p]
    BY <1>1, <1>3, <1>4, <1>6, <1>8
<1>11. ScraperFits(q, metric, taken, source.count, service)
    BY <1>1 DEF ScrapesInv, ScrapersFit
<1>12. q.read = << >>
    BY <1>1, <1>3, <1>11 DEF ScraperFits, ReadSoFar
<1>13. ReadSoFar(p, metric')
    BY <1>9, <1>12, RegistryOrder DEF ReadSoFar
<1>14. ASSUME s # NoSnapshot
       PROVE  /\ PartlyWritten(p, metric', taken, source.count)
              /\ metric[COUNT] <= metric'[COUNT] /\ metric'[COUNT] <= source.count
              /\ z = << >> => Shows(metric', s)
              /\ s \in taken
  <2>1. PartlyWritten(q, metric, taken, source.count)
      BY <1>1, <1>3, <1>11, <1>14 DEF ScraperFits
  <2>2. /\ Len(w) <= HEALTHY /\ s \in taken /\ metric[COUNT] <= s.count /\ s.count <= source.count
        /\ \A i \in 1..Len(w) : w[i] = <<HEALTHY - Len(w) + i, Value(s, HEALTHY - Len(w) + i)>>
        /\ \A n \in 1..(HEALTHY - Len(w)) : metric[n] = Value(s, n)
      BY <1>1, <2>1 DEF PartlyWritten
  <2>3. m = HEALTHY - Len(w) + 1 /\ v = Value(s, m)
      BY <1>2, <1>14
  <2>4. s \in ASnapshot /\ s.count \in Nat /\ HEALTHY \in Nat
      BY <1>5, <1>14, RegistryOrder DEF MaybeSnapshot, ASnapshot
  <2>5. HEALTHY - Len(z) = m
      BY <1>7, <2>3, <2>4
  <2>6. ASSUME NEW i \in 1..Len(z)
        PROVE  z[i] = <<HEALTHY - Len(z) + i, Value(s, HEALTHY - Len(z) + i)>>
    <3>1. z[i] = w[i + 1] /\ i + 1 \in 1..Len(w)
        BY <1>7
    <3>2. HEALTHY - Len(z) + i = HEALTHY - Len(w) + (i + 1)
        BY <1>7, <2>4
    <3>3. QED
        BY <2>2, <3>1, <3>2
  <2>7. ASSUME NEW n \in 1..(HEALTHY - Len(z))
        PROVE  metric'[n] = Value(s, n)
    <3>1. n \in 1..m /\ HEALTHY - Len(w) = m - 1
        BY <1>7, <2>3, <2>4, <2>5
    <3>2. CASE n = m
        BY <1>2, <2>3, <3>2
    <3>3. CASE n # m
      <4>1. n \in 1..(HEALTHY - Len(w))
          BY <3>1, <3>3
      <4>2. n \in 1..HEALTHY
          BY <2>4, <3>1
      <4>3. QED
          BY <1>2, <2>2, <3>3, <4>1, <4>2
    <3>4. QED
        BY <3>2, <3>3
  <2>8. metric'[COUNT] = IF m = COUNT THEN s.count ELSE metric[COUNT]
      BY <1>2, <2>3, <2>4, RegistryOrder, SnapshotValues
  <2>9. metric[COUNT] \in Nat
      BY <1>4, RegistryOrder
  <2>10. /\ metric[COUNT] <= metric'[COUNT] /\ metric'[COUNT] <= source.count
         /\ metric'[COUNT] <= s.count
      BY <1>4, <2>2, <2>4, <2>8, <2>9
  <2>11. Len(z) <= HEALTHY
      BY <1>7, <2>2, <2>4
  <2>12. PartlyWritten(p, metric', taken, source.count)
      BY <1>9, <2>2, <2>6, <2>7, <2>10, <2>11 DEF PartlyWritten
  <2>13. ASSUME z = << >>
         PROVE  Shows(metric', s)
    <3>1. HEALTHY - Len(z) = HEALTHY
        BY <2>4, <2>13
    <3>2. QED
        BY <2>4, <2>7, <3>1, ShowsAll
  <2>14. QED
      BY <2>2, <2>10, <2>12, <2>13
<1>15. ASSUME s = NoSnapshot
       PROVE  /\ KeepsTheLast(p, metric', service)
              /\ metric'[COUNT] = metric[COUNT] /\ \A i \in State : metric'[i] = metric[i]
  <2>1. m = HEALTHY /\ v = 0 /\ w = <<<<HEALTHY, 0>>>> /\ service = "control_plane"
      BY <1>2, <1>15
  <2>2. z = << >>
      BY <1>6, <2>1
  <2>3. KeepsTheLast(p, metric', service)
      BY <1>2, <1>9, <2>1, <2>2 DEF KeepsTheLast
  <2>4. QED
      BY <1>2, <2>1, <2>3, RegistryOrder
<1>16. ScraperFits(p, metric', taken', source'.count, service')
    BY <1>3, <1>9, <1>13, <1>14, <1>15 DEF ScraperFits
<1>17. \A j \in Scraper : j # k => scraper[j] = FreshScrape("idle") /\ scraper[j].phase = "idle"
    BY <1>1, <1>3, OthersIdle
<1>18. /\ scraper' \in [Scraper -> AScraper] /\ scraper'[k] = p
       /\ \A j \in Scraper : j # k => scraper'[j] = scraper[j]
       /\ ScrapersFit'
    BY <1>9, <1>10, <1>16, <1>17, OneScraperMoves
<1>19. ScrapesTypeOK'
    BY <1>2, <1>3, <1>4, <1>18 DEF ScrapesTypeOK
<1>20. OneRenders'
    BY <1>1, <1>3, <1>17, <1>18 DEF ScrapesInv, OneRenders
<1>21. MetricsShowOne'
  <2>1. CASE s # NoSnapshot /\ z # << >>
      BY <1>9, <1>18, <2>1 DEF MetricsShowOne, Rewriting
  <2>2. CASE s # NoSnapshot /\ z = << >>
      BY <1>3, <1>14, <2>2 DEF MetricsShowOne, Shows
  <2>3. CASE s = NoSnapshot
    <3>1. \A j \in Scraper : ~ Rewriting(j)
        BY <1>1, <1>17, <2>3 DEF Rewriting
    <3>2. PICK t \in taken \ {NoSnapshot} : Shows(metric, t)
        BY <3>1 DEF ScrapesInv, MetricsShowOne
    <3>3. Shows(metric', t)
        BY <1>15, <2>3, <3>2 DEF Shows
    <3>4. QED
        BY <1>3, <3>3 DEF MetricsShowOne, Shows
  <2>4. QED
      BY <2>1, <2>2, <2>3
<1>22. metric[COUNT] \in Nat /\ metric'[COUNT] \in Nat
    BY <1>2, <1>4, RegistryOrder
<1>23. metric[COUNT] <= metric'[COUNT] /\ metric'[COUNT] <= source.count
    BY <1>4, <1>14, <1>15, <1>22 DEF ScrapesInv, CountIsReal
<1>24. CountIsReal'
    BY <1>3, <1>23 DEF CountIsReal
<1>25. DocumentsWhole' /\ DocumentsCount'
    BY <1>3, <1>22, <1>23, DocumentsStay
<1>26. QED
    BY <1>18, <1>19, <1>20, <1>21, <1>24, <1>25 DEF ScrapesInv

LEMMA EncodeReadsStep ==
    ASSUME ScrapesInv, NEW k \in Scraper, EncodeReads(k)
    PROVE  ScrapesInv'
<1>1. PICK q, n : q = scraper[k] /\ n = Len(q.read)
    OBVIOUS
<1>2. /\ q.phase = "write" /\ q.todo = << >> /\ n < HEALTHY
      /\ scraper' = [scraper EXCEPT ![k].read = Append(@, metric[Len(@) + 1])]
      /\ service' = service /\ source' = source /\ metric' = metric
      /\ render_lock' = render_lock /\ taken' = taken /\ scraped' = scraped
    BY <1>1 DEF EncodeReads
<1>3. /\ scraper \in [Scraper -> AScraper] /\ q \in AScraper /\ ScrapesTypeOK
      /\ metric \in [1..HEALTHY -> Nat]
    BY <1>1 DEF ScrapesInv, ScrapesTypeOK
<1>4. q.read \in Seq(Nat) /\ n \in Nat
    BY <1>1, <1>3 DEF AScraper
<1>5. n + 1 \in 1..HEALTHY
    BY <1>2, <1>4, RegistryOrder
<1>6. PICK r : r = Append(q.read, metric[n + 1])
    OBVIOUS
<1>7. metric[n + 1] \in Nat
    BY <1>3, <1>5
<1>8. /\ r \in Seq(Nat) /\ Len(r) = n + 1 /\ r[n + 1] = metric[n + 1]
      /\ \A i \in 1..n : r[i] = q.read[i]
    BY <1>1, <1>4, <1>6, <1>7
<1>9. PICK p : p = [q EXCEPT !.read = r]
    OBVIOUS
<1>10. /\ p \in AScraper /\ p.phase = "write" /\ p.todo = << >> /\ p.snapshot = q.snapshot
       /\ p.read = r
    BY <1>2, <1>3, <1>8, <1>9 DEF AScraper
<1>11. scraper' = [scraper EXCEPT ![k] = p]
    BY <1>1, <1>2, <1>3, <1>6, <1>9
<1>12. ScraperFits(q, metric, taken, source.count, service)
    BY <1>1 DEF ScrapesInv, ScrapersFit
<1>13. ReadSoFar(p, metric)
  <2>1. \A i \in 1..n : q.read[i] = metric[i]
      BY <1>1, <1>12 DEF ScraperFits, ReadSoFar
  <2>2. \A i \in 1..(n + 1) : r[i] = metric[i]
      BY <1>4, <1>8, <2>1
  <2>3. n + 1 <= HEALTHY
      BY <1>5
  <2>4. QED
      BY <1>8, <1>10, <2>2, <2>3 DEF ReadSoFar
<1>14. /\ q.snapshot # NoSnapshot => PartlyWritten(p, metric, taken, source.count)
       /\ q.snapshot = NoSnapshot => KeepsTheLast(p, metric, service)
  <2>1. p.todo = q.todo /\ p.snapshot = q.snapshot
      BY <1>2, <1>10
  <2>2. q.snapshot # NoSnapshot => PartlyWritten(q, metric, taken, source.count)
      BY <1>2, <1>12 DEF ScraperFits
  <2>3. q.snapshot = NoSnapshot => KeepsTheLast(q, metric, service)
      BY <1>2, <1>12 DEF ScraperFits
  <2>4. QED
      BY <2>1, <2>2, <2>3 DEF PartlyWritten, KeepsTheLast
<1>15. ScraperFits(p, metric', taken', source'.count, service')
    BY <1>2, <1>10, <1>13, <1>14 DEF ScraperFits
<1>16. \A j \in Scraper : j # k => scraper[j] = FreshScrape("idle") /\ scraper[j].phase = "idle"
    BY <1>1, <1>2, OthersIdle
<1>17. /\ scraper' \in [Scraper -> AScraper] /\ scraper'[k] = p
       /\ \A j \in Scraper : j # k => scraper'[j] = scraper[j]
       /\ ScrapersFit'
    BY <1>10, <1>11, <1>15, <1>16, OneScraperMoves
<1>18. ScrapesTypeOK'
    BY <1>2, <1>3, <1>17 DEF ScrapesTypeOK
<1>19. OneRenders'
    BY <1>1, <1>2, <1>16, <1>17 DEF ScrapesInv, OneRenders
<1>20. \A j \in Scraper : ~ Rewriting(j)
    BY <1>1, <1>2, <1>16 DEF Rewriting
<1>21. MetricsShowOne' /\ CountIsReal'
    BY <1>2, <1>20 DEF ScrapesInv, MetricsShowOne, CountIsReal, Shows
<1>22. metric[COUNT] \in Nat
    BY <1>3, RegistryOrder
<1>23. DocumentsWhole' /\ DocumentsCount'
    BY <1>2, <1>22, DocumentsStay
<1>24. QED
    BY <1>17, <1>18, <1>19, <1>21, <1>23 DEF ScrapesInv

\* What a scrape has read at its end is whole.
LEMMA ScrapeIsWhole ==
    ASSUME ScrapesInv, NEW k \in Scraper, scraper[k].phase = "write",
           Len(scraper[k].read) = HEALTHY,
           NEW d, d = [document |-> scraper[k].read, snapshot |-> scraper[k].snapshot]
    PROVE  /\ d \in ADocument /\ IsWhole(d, taken, service) /\ d.document[COUNT] = metric[COUNT]
           /\ ~ Rewriting(k)
<1>1. PICK q, r, s : q = scraper[k] /\ r = q.read /\ s = q.snapshot
    OBVIOUS
<1>2. q \in AScraper
    BY <1>1 DEF ScrapesInv, ScrapesTypeOK
<1>3. r \in Seq(Nat) /\ s \in MaybeSnapshot /\ q.todo \in Seq((1..HEALTHY) \X Nat)
    BY <1>1, <1>2 DEF AScraper
<1>4. d.document = r /\ d.snapshot = s /\ d \in ADocument
    BY <1>1, <1>3 DEF ADocument
<1>5. ScraperFits(q, metric, taken, source.count, service)
    BY <1>1 DEF ScrapesInv, ScrapersFit
<1>6. Len(r) = HEALTHY /\ r # << >>
    BY <1>1, <1>3, RegistryOrder
<1>7. q.todo = << >> /\ \A i \in 1..HEALTHY : r[i] = metric[i]
    BY <1>1, <1>5, <1>6 DEF ScraperFits, ReadSoFar
<1>8. Shows(metric, s) => Shows(r, s)
    BY <1>7, RegistryOrder DEF Shows
<1>9. CASE s # NoSnapshot
  <2>1. PartlyWritten(q, metric, taken, source.count)
      BY <1>1, <1>5, <1>9 DEF ScraperFits
  <2>2. Len(q.todo) = 0 /\ HEALTHY - Len(q.todo) = HEALTHY
      BY <1>7, RegistryOrder
  <2>3. \A m \in 1..HEALTHY : metric[m] = Value(s, m)
      BY <1>1, <2>1, <2>2 DEF PartlyWritten
  <2>4. s \in ASnapshot
      BY <1>3, <1>9 DEF MaybeSnapshot
  <2>5. Shows(metric, s) /\ metric[HEALTHY] = s.healthy
      BY <2>3, <2>4, ShowsAll
  <2>6. QED
      BY <1>1, <1>4, <1>6, <1>7, <1>8, <1>9, <2>5, RegistryOrder DEF IsWhole, Rewriting
<1>10. CASE s = NoSnapshot
  <2>1. KeepsTheLast(q, metric, service)
      BY <1>1, <1>5, <1>10 DEF ScraperFits
  <2>2. << >> # <<<<HEALTHY, 0>>>>
      OBVIOUS
  <2>3. service = "control_plane" => metric[HEALTHY] = 0
      BY <1>7, <2>1, <2>2 DEF KeepsTheLast
  <2>4. \A j \in Scraper : ~ Rewriting(j)
    <3>1. ~ Rewriting(k)
        BY <1>1, <1>10 DEF Rewriting
    <3>2. \A j \in Scraper : j # k => scraper[j].phase = "idle"
        BY OthersIdle
    <3>3. QED
        BY <3>1, <3>2 DEF Rewriting
  <2>5. PICK t \in taken \ {NoSnapshot} : Shows(metric, t)
      BY <2>4 DEF ScrapesInv, MetricsShowOne
  <2>6. Shows(r, t)
      BY <1>7, <2>5, RegistryOrder DEF Shows
  <2>7. r[HEALTHY] = metric[HEALTHY] /\ r[COUNT] = metric[COUNT]
      BY <1>7, RegistryOrder
  <2>8. IsWhole(d, taken, service)
      BY <1>4, <1>6, <1>10, <2>3, <2>6, <2>7 DEF IsWhole
  <2>9. QED
      BY <1>4, <2>4, <2>7, <2>8
<1>11. QED
    BY <1>9, <1>10

LEMMA RenderEndsStep ==
    ASSUME ScrapesInv, NEW k \in Scraper, RenderEnds(k)
    PROVE  ScrapesInv'
<1>1. PICK d : d = [document |-> scraper[k].read, snapshot |-> scraper[k].snapshot]
    OBVIOUS
<1>2. /\ scraper[k].phase = "write" /\ Len(scraper[k].read) = HEALTHY
      /\ scraped' = [scraped EXCEPT ![k] = Append(scraped[k], d)]
      /\ scraper' = [scraper EXCEPT ![k] = FreshScrape("idle")]
      /\ render_lock' = render_lock \ {k}
      /\ service' = service /\ source' = source /\ metric' = metric /\ taken' = taken
    BY <1>1 DEF RenderEnds
<1>3. /\ d \in ADocument /\ IsWhole(d, taken, service) /\ d.document[COUNT] = metric[COUNT]
      /\ ~ Rewriting(k)
    BY <1>1, <1>2, ScrapeIsWhole
<1>4. \A j \in Scraper : j # k => scraper[j] = FreshScrape("idle") /\ scraper[j].phase = "idle"
    BY <1>2, OthersIdle
<1>5. PICK q : q = FreshScrape("idle")
    OBVIOUS
<1>6. /\ q \in AScraper /\ q.phase = "idle"
      /\ ScraperFits(q, metric', taken', source'.count, service')
    BY <1>5, FreshFits
<1>7. /\ scraper' \in [Scraper -> AScraper] /\ scraper'[k] = q
      /\ \A j \in Scraper : j # k => scraper'[j] = scraper[j]
      /\ ScrapersFit'
    BY <1>2, <1>4, <1>5, <1>6, OneScraperMoves
<1>8. scraped \in [Scraper -> Seq(ADocument)] /\ ScrapesTypeOK
    BY DEF ScrapesInv, ScrapesTypeOK
<1>9. PICK old, n : old = scraped[k] /\ n = Len(old)
    OBVIOUS
<1>10. old \in Seq(ADocument) /\ n \in Nat
    BY <1>8, <1>9
<1>11. PICK new : new = Append(old, d)
    OBVIOUS
<1>12. /\ new \in Seq(ADocument) /\ Len(new) = n + 1 /\ new[n + 1] = d
       /\ \A i \in 1..n : new[i] = old[i]
    BY <1>3, <1>9, <1>10, <1>11
<1>13. /\ scraped' \in [Scraper -> Seq(ADocument)] /\ scraped'[k] = new
       /\ \A j \in Scraper : j # k => scraped'[j] = scraped[j]
    BY <1>2, <1>8, <1>9, <1>11, <1>12
<1>14. ScrapesTypeOK'
    BY <1>2, <1>7, <1>8, <1>13 DEF ScrapesTypeOK
<1>15. OneRenders'
    BY <1>4, <1>6, <1>7 DEF OneRenders
<1>16. \A j \in Scraper : ~ Rewriting(j)
    BY <1>3, <1>4 DEF Rewriting
<1>17. MetricsShowOne' /\ CountIsReal'
    BY <1>2, <1>16 DEF ScrapesInv, MetricsShowOne, CountIsReal, Shows
<1>18. DocumentsWhole'
  <2>1. ASSUME NEW j \in Scraper, NEW i \in 1..Len(scraped'[j])
        PROVE  IsWhole(scraped'[j][i], taken', service')
    <3>1. CASE j # k
        BY <1>2, <1>13, <2>1, <3>1 DEF ScrapesInv, DocumentsWhole
    <3>2. CASE j = k /\ i = n + 1
        BY <1>2, <1>3, <1>12, <1>13, <3>2
    <3>3. CASE j = k /\ i \in 1..n
      <4>1. scraped'[j][i] = old[i]
          BY <1>12, <1>13, <3>3
      <4>2. IsWhole(old[i], taken, service)
          BY <1>9, <3>3 DEF ScrapesInv, DocumentsWhole
      <4>3. QED
          BY <1>2, <4>1, <4>2
    <3>4. QED
        BY <1>10, <1>12, <1>13, <2>1, <3>1, <3>2, <3>3
  <2>2. QED
      BY <2>1 DEF DocumentsWhole
<1>19. DocumentsCount'
  <2>1. /\ \A i \in 1..n : old[i].document[COUNT] <= metric[COUNT]
        /\ \A i, j \in 1..n : i < j => old[i].document[COUNT] <= old[j].document[COUNT]
      BY <1>9 DEF ScrapesInv, DocumentsCount
  <2>2. metric[COUNT] \in Nat
      BY RegistryOrder DEF ScrapesInv, ScrapesTypeOK
  <2>3. \A i \in 1..(n + 1) : new[i].document[COUNT] <= metric[COUNT]
      BY <1>3, <1>10, <1>12, <2>1, <2>2
  <2>4. ASSUME NEW i \in 1..(n + 1), NEW j \in 1..(n + 1), i < j
        PROVE  new[i].document[COUNT] <= new[j].document[COUNT]
    <3>1. i \in 1..n
        BY <1>10, <2>4
    <3>2. CASE j = n + 1
        BY <1>3, <1>12, <2>3, <3>2
    <3>3. CASE j \in 1..n
        BY <1>12, <2>1, <2>4, <3>1, <3>3
    <3>4. QED
        BY <1>10, <2>4, <3>2, <3>3
  <2>5. ASSUME NEW l \in Scraper
        PROVE  /\ \A i \in 1..Len(scraped'[l]) : scraped'[l][i].document[COUNT] <= metric'[COUNT]
               /\ \A i, j \in 1..Len(scraped'[l]) :
                    i < j => scraped'[l][i].document[COUNT] <= scraped'[l][j].document[COUNT]
    <3>1. CASE l = k
      <4>1. scraped'[l] = new /\ metric' = metric /\ Len(scraped'[l]) = n + 1
          BY <1>2, <1>12, <1>13, <3>1
      <4>2. \A i \in 1..(n + 1) : new[i].document[COUNT] <= metric'[COUNT]
          BY <2>3, <4>1
      <4>3. \A i, j \in 1..(n + 1) :
                i < j => new[i].document[COUNT] <= new[j].document[COUNT]
          BY <2>4
      <4>4. QED
          BY <4>1, <4>2, <4>3, Zenon
    <3>2. CASE l # k
        BY <1>2, <1>13, <3>2 DEF ScrapesInv, DocumentsCount
    <3>3. QED
        BY <3>1, <3>2
  <2>6. QED
      BY <2>5 DEF DocumentsCount
<1>20. QED
    BY <1>7, <1>14, <1>15, <1>17, <1>18, <1>19 DEF ScrapesInv

LEMMA ScrapesStart == ScrapesInit => ScrapesInv
<1> SUFFICES ASSUME ScrapesInit PROVE ScrapesInv
    OBVIOUS
<1>1. /\ service \in ServiceName
      /\ source = [state |-> 1, count |-> 0, healthy |-> 1, readable |-> TRUE]
      /\ metric = [m \in 1..HEALTHY |-> IF m \in {1, HEALTHY} THEN 1 ELSE 0]
      /\ scraper = [k \in Scraper |-> FreshScrape("idle")]
      /\ taken = {[state |-> 1, count |-> 0, healthy |-> 1]}
      /\ scraped = [k \in Scraper |-> << >>]
    BY DEF ScrapesInit
<1>2. PICK s : s = [state |-> 1, count |-> 0, healthy |-> 1]
    OBVIOUS
<1>3. s \in ASnapshot /\ s.state = 1 /\ s.count = 0
    BY <1>2, RegistryOrder DEF ASnapshot
<1>4. /\ source \in [state : State, count : Nat, healthy : {0, 1}, readable : BOOLEAN]
      /\ source.count = 0
    BY <1>1, RegistryOrder
<1>5. metric \in [1..HEALTHY -> Nat]
    BY <1>1
<1>6. \A k \in Scraper : /\ scraper[k] = FreshScrape("idle") /\ scraper[k] \in AScraper
                         /\ scraper[k].phase = "idle"
    BY <1>1, FreshFits
<1>7. scraper \in [Scraper -> AScraper]
    BY <1>1, <1>6
<1>8. taken \in SUBSET MaybeSnapshot
    BY <1>1, <1>2, <1>3 DEF MaybeSnapshot
<1>9. scraped \in [Scraper -> Seq(ADocument)]
    BY <1>1
<1>10. ScrapesTypeOK
    BY <1>1, <1>4, <1>5, <1>7, <1>8, <1>9 DEF ScrapesTypeOK
<1>11. ScrapersFit
    BY <1>6, FreshFits DEF ScrapersFit
<1>12. OneRenders
    BY <1>6 DEF OneRenders
<1>13. Shows(metric, s) /\ metric[COUNT] = 0
  <2>1. COUNT # 1 /\ \A i \in State : i # HEALTHY
      BY RegistryOrder
  <2>2. metric[COUNT] = 0
      BY <1>1, <2>1, RegistryOrder
  <2>3. \A i \in State : metric[i] = IF 1 = i THEN 1 ELSE 0
      BY <1>1, <2>1, RegistryOrder
  <2>4. QED
      BY <1>3, <2>2, <2>3 DEF Shows
<1>14. MetricsShowOne
    BY <1>1, <1>2, <1>3, <1>13, SnapshotValues DEF MetricsShowOne
<1>15. CountIsReal
    BY <1>4, <1>13 DEF CountIsReal
<1>16. DocumentsWhole /\ DocumentsCount
    BY <1>1 DEF DocumentsWhole, DocumentsCount
<1>17. QED
    BY <1>10, <1>11, <1>12, <1>14, <1>15, <1>16 DEF ScrapesInv

LEMMA ScrapesStep ==
    ASSUME ScrapesInv, [ScrapesNext]_scrapeVars
    PROVE  ScrapesInv'
<1>1. CASE SourceMoves \/ SourceLocked
    BY <1>1, SourceStep
<1>2. ASSUME NEW k \in Scraper,
             \/ RenderBegins(k) \/ RefreshReads(k) \/ RefreshReadsRest(k) \/ RefreshWrites(k)
             \/ EncodeReads(k) \/ RenderEnds(k)
      PROVE  ScrapesInv'
    BY <1>2, RenderBeginsStep, RefreshReadsStep, RefreshReadsRestStep, RefreshWritesStep,
       EncodeReadsStep, RenderEndsStep
<1>3. CASE UNCHANGED scrapeVars
  <2>1. /\ service' = service /\ source' = source /\ metric' = metric /\ scraper' = scraper
        /\ render_lock' = render_lock /\ taken' = taken /\ scraped' = scraped
      BY <1>3 DEF scrapeVars
  <2>2. ScrapesTypeOK' /\ ScrapersFit' /\ OneRenders' /\ CountIsReal'
      BY <2>1 DEF ScrapesInv, ScrapesTypeOK, ScrapersFit, OneRenders, CountIsReal
  <2>3. MetricsShowOne'
      BY <2>1 DEF ScrapesInv, MetricsShowOne, Rewriting, Shows
  <2>4. DocumentsWhole' /\ DocumentsCount'
      BY <2>1 DEF ScrapesInv, DocumentsWhole, DocumentsCount
  <2>5. QED
      BY <2>2, <2>3, <2>4 DEF ScrapesInv
<1>4. QED
    BY <1>1, <1>2, <1>3 DEF ScrapesNext

LEMMA ScrapesInvIsEnough == ScrapesInv => ScrapesHold
<1> SUFFICES ASSUME ScrapesInv PROVE ScrapesHold
    OBVIOUS
<1>1. \A k \in Scraper : DOMAIN scraped[k] = 1..Len(scraped[k])
    BY DEF ScrapesInv, ScrapesTypeOK
<1>2. ScrapesAreWhole
    BY <1>1 DEF ScrapesInv, DocumentsWhole, IsWhole, ScrapesAreWhole
<1>3. CountsOnlyGrow
    BY <1>1 DEF ScrapesInv, DocumentsCount, CountsOnlyGrow
<1>4. QED
    BY <1>2, <1>3 DEF ScrapesHold

\* The metrics of a service, for any number of exchanges, endpoints, scrapers, states
\* and counts, and although exchanges end in several ways at once and scrapes overlap
\* with each other and with the service: every exchange is counted once, as it ended,
\* and every document shows one snapshot, with counts that only grow (CompletionTimer,
\* CompletionStream, observe_http, MetricsRegistry::render and the services' refreshes).
THEOREM MetricsTellTheTruth == CompletionsSpec /\ ScrapesSpec => []MetricsHold
<1>1. CompletionsInv /\ ScrapesInv => MetricsHold
    BY CompletionsInvIsEnough, ScrapesInvIsEnough DEF MetricsHold
<1>2. CompletionsSpec => []CompletionsInv
    BY CompletionsStart, CompletionsStep, PTL DEF CompletionsSpec
<1>3. ScrapesSpec => []ScrapesInv
    BY ScrapesStart, ScrapesStep, PTL DEF ScrapesSpec
<1>4. QED
    BY <1>1, <1>2, <1>3, PTL
=============================================================================
