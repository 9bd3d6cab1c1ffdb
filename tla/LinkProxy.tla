----------------------------- MODULE LinkProxy -----------------------------
(***************************************************************************)
(* The proxy that stands for one directed link between control nodes:      *)
(* control-plane/src/link_proxy.rs.  It lets Raft calls through or drops   *)
(* them, and keeps a journal of what it did from which partitions are      *)
(* reconstructed.                                                          *)
(*                                                                         *)
(* A call reads the mode once, then waits for its body, for its upstream   *)
(* and for the answer; the mode may change in between.  A write to the     *)
(* journal may fail, having left nothing or part of a line, with which the *)
(* next line is then lost.                                                  *)
(***************************************************************************)
EXTENDS Integers, Sequences, FiniteSets

CONSTANTS
    RaftCall,        \* calls that reach the proxy
    MaxEvents,       \* bounds the journal
    MaxFailedWrites  \* bounds the writes that fail

ASSUME LinkBounds == MaxEvents \in Nat /\ MaxFailedWrites \in Nat

VARIABLES
    link_mode,       \* ModeState
    mode_changes, forwarded_requests, dropped_requests, upstream_failures,
    journal,         \* the lines that can be read back
    next_sequence,
    raft_call,       \* per call: its phase and the mode it has read
    torn,            \* is the journal's end half a line?
    failed_writes

counts == <<mode_changes, forwarded_requests, dropped_requests, upstream_failures>>
journalVars == <<journal, next_sequence, torn, failed_writes>>
linkVars == <<link_mode, counts, journalVars, raft_call>>

LinkMode == {"allow", "drop"}
Event(n, event, mode) == [sequence |-> n, event |-> event, mode |-> mode]

\* LinkProxy::open: a fresh journal, whose first line says that the link is open.
LinkInit ==
    /\ link_mode = "allow"
    /\ mode_changes = 0 /\ forwarded_requests = 0 /\ dropped_requests = 0 /\ upstream_failures = 0
    /\ journal = <<Event(1, "started", "allow")>>
    /\ next_sequence = 2
    /\ raft_call = [c \in RaftCall |-> [phase |-> "new", mode |-> "none"]]
    /\ torn = FALSE /\ failed_writes = 0

-----------------------------------------------------------------------------
(* The journal.                                                              *)

\* A line is written whole.  After half a line it is part of that line.
Recorded(event, mode) ==
    /\ Len(journal) < MaxEvents
    /\ journal' = IF torn THEN journal ELSE Append(journal, Event(next_sequence, event, mode))
    /\ next_sequence' = next_sequence + 1
    /\ torn' = FALSE
    /\ UNCHANGED failed_writes

\* write_all fails, with some of the line in the file or none: the sequence stays.
RecordFails ==
    /\ failed_writes < MaxFailedWrites
    /\ failed_writes' = failed_writes + 1
    /\ torn' \in {torn, TRUE}
    /\ UNCHANGED <<journal, next_sequence>>

-----------------------------------------------------------------------------
(* The mode.                                                                 *)

\* Mutant of set_mode: the mode changes whether or not the journal has it.
set_mode_anyway(mode) ==
    /\ Recorded("mode_changed", mode) \/ RecordFails
    /\ link_mode' = mode /\ mode_changes' = mode_changes + 1
    /\ UNCHANGED <<forwarded_requests, dropped_requests, upstream_failures, raft_call>>

\* set_mode, under the mode's lock: a change is journalled first, and a failure to
\* leaves the mode as it was.
set_mode(mode) ==
    /\ \/ Recorded("mode_changed", mode) /\ link_mode' = mode /\ mode_changes' = mode_changes + 1
       \/ RecordFails /\ UNCHANGED <<link_mode, mode_changes>>
    /\ UNCHANGED <<forwarded_requests, dropped_requests, upstream_failures, raft_call>>

\* change_link_mode: a request for the mode that the link is in does nothing.
change_link_mode == \E mode \in LinkMode \ {link_mode} : set_mode(mode)

-----------------------------------------------------------------------------
(* forward.                                                                  *)

Moves(c, phase) == raft_call' = [raft_call EXCEPT ![c].phase = phase]

\* record_request_event: whether it can be written or not, the call goes on.
record_request_event(c, event) == Recorded(event, raft_call[c].mode) \/ RecordFails

\* The mode is read once.  A dropped call is counted before it is journalled.
ForwardReadsMode(c) ==
    /\ raft_call[c].phase = "new"
    /\ raft_call' = [raft_call EXCEPT ![c] = [phase |-> IF link_mode = "drop" THEN "dropping"
                                                        ELSE "body", mode |-> link_mode]]
    /\ dropped_requests' = dropped_requests + (IF link_mode = "drop" THEN 1 ELSE 0)
    /\ UNCHANGED <<link_mode, mode_changes, forwarded_requests, upstream_failures,
                   journalVars>>

ForwardDrops(c) ==
    /\ raft_call[c].phase = "dropping"
    /\ record_request_event(c, "request_dropped")
    /\ Moves(c, "over")
    /\ UNCHANGED <<link_mode, counts>>

\* The body has come and is sent; or it is too large, or the caller has gone.
ForwardSends(c) ==
    /\ raft_call[c].phase = "body"
    /\ \/ Moves(c, "sent")
       \/ Moves(c, "over")
    /\ UNCHANGED <<link_mode, counts, journalVars>>

\* The upstream has answered in full.
ForwardAnswers(c) ==
    /\ raft_call[c].phase = "sent"
    /\ forwarded_requests' = forwarded_requests + 1
    /\ Moves(c, "over")
    /\ UNCHANGED <<link_mode, mode_changes, dropped_requests, upstream_failures,
                   journalVars>>

\* The upstream cannot be reached, times out, or answers with too much: counted,
\* and then journalled.
ForwardFails(c) ==
    /\ raft_call[c].phase = "sent"
    /\ upstream_failures' = upstream_failures + 1
    /\ Moves(c, "failing")
    /\ UNCHANGED <<link_mode, mode_changes, forwarded_requests, dropped_requests,
                   journalVars>>

ForwardReports(c) ==
    /\ raft_call[c].phase = "failing"
    /\ record_request_event(c, "upstream_failure")
    /\ Moves(c, "over")
    /\ UNCHANGED <<link_mode, counts>>

LinkNext ==
    \/ change_link_mode
    \/ \E c \in RaftCall : \/ ForwardReadsMode(c) \/ ForwardDrops(c) \/ ForwardSends(c)
                           \/ ForwardAnswers(c) \/ ForwardFails(c) \/ ForwardReports(c)

LinkSpec == LinkInit /\ [][LinkNext]_linkVars

-----------------------------------------------------------------------------
(* Properties.                                                               *)

Positions(event) == {i \in DOMAIN journal : journal[i].event = event}

\* The journal explains the link.  Its sequence has no number twice, and none is
\* left out unless a line was torn; until then the last change it has is the mode
\* that the link is in, the changes are those that were counted, and a call that
\* was dropped, or failed, is found after a change to the mode it read
\* (EventJournal::record, set_mode, forward).
JournalExplains ==
    /\ \A i, j \in DOMAIN journal : i < j => journal[i].sequence < journal[j].sequence
    /\ next_sequence > journal[Len(journal)].sequence
    /\ Len(journal) = next_sequence - 1 =>
        LET modes == Positions("started") \cup Positions("mode_changed")
            last == CHOOSE i \in modes : \A j \in modes : j <= i
        IN  /\ journal[last].mode = link_mode
            /\ mode_changes = Cardinality(Positions("mode_changed"))
            /\ \A i \in DOMAIN journal \ modes :
                \E j \in modes : j < i /\ journal[j].mode = journal[i].mode
            /\ Cardinality(Positions("request_dropped")) <= dropped_requests
=============================================================================
