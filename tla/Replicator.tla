----------------------------- MODULE Replicator ------------------------------
(***************************************************************************)
(* RaftReplicator (src/replicator/raft_node.rs) as the rest of a daemon    *)
(* sees it.  The consensus itself is openraft 0.9, a library: what is kept *)
(* of it is one log of commands, how much of it each node has applied, and *)
(* who leads.  An entry counts as committed once some node has applied it. *)
(* Of the entries nobody has applied, a new leader may have any prefix:    *)
(* the others are lost, and their writers get an error.                    *)
(*                                                                         *)
(* The shipped program starts single-node clusters only (no code calls     *)
(* add_peer); Daemon has several elements when an embedding program        *)
(* extends the membership through RaftReplicator::raft.                    *)
(***************************************************************************)
EXTENDS Executor

CONSTANTS Daemon,      \* nodes that run a daemon and vote in the cluster
          NoLeader

ASSUME DaemonsAreNodes ==
  /\ Daemon \subseteq NodeId
  /\ NoLeader \notin Daemon

VARIABLES log,         \* the commands appended by the leaders so far
          leader,      \* the node whose writes are accepted
          applied,     \* applied[n]: how many entries node n has applied
          hive         \* hive[n]: SharedState of node n

replicatorVars == <<log, leader, applied, hive>>

ReplicatorTypeOK ==
  /\ log \in Seq(ClusterCommand)
  /\ leader \in Daemon \cup {NoLeader}
  /\ applied \in [Daemon -> 0..Len(log)]
  /\ hive \in [Daemon -> HiveStates]

ReplicatorInit ==
  /\ log = <<>>
  /\ leader = NoLeader
  /\ applied = [n \in Daemon |-> 0]
  /\ hive = [n \in Daemon |-> EmptyHive]

-----------------------------------------------------------------------------
(***************************************************************************)
(* Replicator::apply.  client_write of a node that does not lead answers   *)
(* ForwardToLeader, which apply turns into an error.  A node that leads    *)
(* appends the command; the call returns Ok once the node has applied the  *)
(* entry at the index it waits for.  Lost stands for an index whose entry  *)
(* a new leader has dropped: the call returns an error.                    *)
(***************************************************************************)
Lost == 0

ClientWrite(n, command) ==
  /\ leader = n
  /\ log' = Append(log, command)
  /\ UNCHANGED <<leader, applied, hive>>

Acknowledged(n, index) == index # Lost /\ applied[n] >= index

\* The next entry reaches the state machine of n.  What no node has applied
\* needs a leader, which commits it.
ApplyNext(n) ==
  /\ applied[n] < Len(log)
  /\ leader # NoLeader \/ \E m \in Daemon : applied[m] > applied[n]
  /\ applied' = [applied EXCEPT ![n] = @ + 1]
  /\ hive' = [hive EXCEPT ![n] = Apply(@, log[applied[n] + 1])]
  /\ UNCHANGED <<log, leader>>

\* A leader that may lack applied entries.
TakeLeadBehind(n, length) ==
  /\ leader # n
  /\ length \in 0..Len(log)
  /\ leader' = n
  /\ log' = SubSeq(log, 1, length)
  /\ UNCHANGED <<applied, hive>>

\* n becomes the leader, with all that was applied and the first entries of
\* the rest.
TakeLead(n, length) ==
  /\ leader # n
  /\ length \in 0..Len(log)
  /\ \A m \in Daemon : applied[m] <= length
  /\ leader' = n
  /\ log' = SubSeq(log, 1, length)
  /\ UNCHANGED <<applied, hive>>

\* n stops; nobody leads until the next election if n did.
LoseLeader(n) ==
  /\ leader' = IF leader = n THEN NoLeader ELSE leader
  /\ UNCHANGED <<log, applied, hive>>

\* What a call waits for, when the log is cut to this length.
StillAwaited(index, length) == IF index <= length THEN index ELSE Lost

-----------------------------------------------------------------------------
\* Entries of the log node n has applied.
AppliedEntries(n) == 1..applied[n]

=============================================================================
