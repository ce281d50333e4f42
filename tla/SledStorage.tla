----------------------------- MODULE SledStorage ------------------------------
(***************************************************************************)
(* SledStorage (src/replicator/storage.rs): the Raft log, the vote, the    *)
(* last applied index and the saved HiveState of one node in a sled data   *)
(* base, the calls openraft makes and a process that may be killed at any  *)
(* point.                                                                  *)
(*                                                                         *)
(* sled is external: every insert or remove, of whichever tree, goes to    *)
(* one ordered log; flush makes everything so far durable, and after a     *)
(* crash some state between the last flush and the last write is found.    *)
(*                                                                         *)
(* openraft 0.9 is external too.  Its Adaptor puts a lock around the       *)
(* storage, so one call runs at a time, while a snapshot builder is a      *)
(* storage of its own and runs next to them.  What openraft calls, and     *)
(* when, are the guards of the Call actions.                               *)
(*                                                                         *)
(* Index i stands for the Raft index i - 1, 0 for None.  A command is      *)
(* abstracted to its index, a HiveState to how often it has seen each.     *)
(***************************************************************************)
EXTENDS Integers, FiniteSets, SequencesExt

CONSTANTS Entry,            \* contents of a log entry
          MembershipEntry,  \* those that carry a membership, not a command
          NoEntry,
          Others,           \* whether other nodes lead: conflicts, snapshots
          MaxIndex,         \* bound: length of the log
          MaxVote,          \* bound: votes
          MaxBatch,         \* bound: entries in one call
          MaxCrashes,       \* bound: crashes
          MaxSnapshots      \* bound: snapshots built or received

ASSUME EntriesAssumption ==
  /\ MembershipEntry \subseteq Entry
  /\ NoEntry \notin Entry
  /\ Others \in BOOLEAN
  /\ MaxIndex \in Nat /\ MaxVote \in Nat /\ MaxBatch \in Nat

VARIABLES disks,      \* what a crash now may leave; the last one is what is read
          state,      \* SharedState: how often each index was applied
          todo,       \* the writes the current call has still to make
          builder,    \* build_snapshot, which runs next to the calls
          snapshot,   \* what openraft records of the last snapshot built or
                      \* received: up to where it may purge, and of what
          up,         \* the process runs
          chosen,     \* history: the entries the cluster has committed
          promised,   \* history: the log, the vote and the applied commands
                      \* openraft relies on
          crashes, snapshots

vars == <<disks, state, todo, builder, snapshot, up, chosen, promised, crashes, snapshots>>

Index == 1..MaxIndex
States == [Index -> Nat]

Disk == [log        : [Index -> Entry \cup {NoEntry}],   \* raft_log
         vote       : 0..MaxVote,                        \* raft_meta
         purged     : 0..MaxIndex,
         applied    : 0..MaxIndex,
         membership : 0..MaxIndex,
         saved      : States]

EmptyState == [i \in Index |-> 0]

EmptyDisk == [log |-> [i \in Index |-> NoEntry], vote |-> 0, purged |-> 0,
              applied |-> 0, membership |-> 0, saved |-> EmptyState]

\* What the process reads.
Db == disks[Len(disks)]

Present(d) == {i \in Index : d.log[i] # NoEntry}

\* get_log_state: the last key of the log, None where it is empty.
LastIndex(d) == Max(Present(d) \cup {0})

\* openraft's last_log_id: the last entry, or the last one purged.
LastLogId(d) == Max({LastIndex(d), d.purged})

-----------------------------------------------------------------------------
(***************************************************************************)
(* The writes a call consists of.                                          *)
(***************************************************************************)
Write == [op : {"put", "remove", "vote", "purged", "applied", "membership",
                "run", "restore", "save", "flush"},
          index : Nat, entry : Entry \cup {NoEntry}]

Put(i, e) == [op |-> "put", index |-> i, entry |-> e]
Plain(op, i) == [op |-> op, index |-> i, entry |-> NoEntry]
Flush == Plain("flush", 0)

SaveVote(v) == <<Plain("vote", v), Flush>>

\* append_to_log without its flush.
AppendUnflushed(first, entries) ==
  [k \in 1..Len(entries) |-> Put(first + k - 1, entries[k])]

AppendToLog(first, entries) ==
  [k \in 1..Len(entries) |-> Put(first + k - 1, entries[k])] \o <<Flush>>

\* The elements of a set of keys, in ascending order: the only such sequence.
Ascending(keys) ==
  {s \in [1..Cardinality(keys) -> keys] : \A j, k \in DOMAIN s : j < k => s[j] < s[k]}

\* The keys found in a range are removed in ascending order.
RemoveKeys(range) ==
  {[k \in DOMAIN keys |-> Plain("remove", keys[k])]
     : keys \in Ascending(Present(Db) \cap range)}

\* The range taken to begin behind the last entry that agrees, less one.
DeleteConflictLogsBefore(i) == RemoveKeys((i - 1)..MaxIndex)

DeleteConflictLogsSince(i) == RemoveKeys(i..MaxIndex)

\* The bound taken for the first index that stays.
PurgeLogsBelow(i) ==
  {<<Plain("purged", i + 1)>> \o removes : removes \in RemoveKeys(1..i)}

PurgeLogsUpto(i) ==
  {<<Plain("purged", i)>> \o removes : removes \in RemoveKeys(1..i)}

\* The state saved and left to sled's own flush.
SaveStateUnflushed == <<Plain("save", 0)>>

\* save_state_snapshot
SaveStateSnapshot == <<Plain("save", 0), Flush>>

\* The index written after the command has run and the state was saved.
ApplyThenMark(first, last) ==
  [k \in 1..(last - first + 1) |-> Plain("run", first + k - 1)]
    \o SaveStateSnapshot \o <<Plain("applied", last)>>

\* apply_to_state_machine: for each entry last_applied, then its effect; the
\* state is saved at the end of the batch.
Effect(i) == Plain(IF Db.log[i] \in MembershipEntry THEN "membership" ELSE "run", i)

ApplyToStateMachine(first, last) ==
  [k \in 1..(2 * (last - first + 1)) |->
     LET i == first + (k - 1) \div 2
     IN IF k % 2 = 1 THEN Plain("applied", i) ELSE Effect(i)]
  \o SaveStateSnapshot

\* The entries up to i: what they make of a HiveState, and the last membership.
StateAt(i) ==
  [j \in Index |-> IF j <= i /\ chosen[j] \notin MembershipEntry THEN 1 ELSE 0]

MembershipAt(i) ==
  CHOOSE m \in 0..i :
    /\ m # 0 => chosen[m] \in MembershipEntry
    /\ \A j \in (m + 1)..i : chosen[j] \notin MembershipEntry

\* install_snapshot
InstallSnapshot(i) ==
  <<Plain("restore", i), Plain("applied", i), Plain("membership", MembershipAt(i))>>
  \o SaveStateSnapshot

-----------------------------------------------------------------------------
TypeOK ==
  /\ disks \in Seq(Disk) /\ disks # <<>>
  /\ state \in States
  /\ todo \in Seq(Write)
  /\ builder \in [pc : {"idle", "data", "index"}, data : States, last : 0..MaxIndex]
  /\ snapshot \in [last : 0..MaxIndex, membership : 0..MaxIndex, data : States]
  /\ up \in BOOLEAN
  /\ chosen \in Seq(Entry) /\ Len(chosen) <= MaxIndex
  /\ promised \in [log : [Index -> Entry \cup {NoEntry}], vote : 0..MaxVote,
                   state : States]
  /\ crashes \in Nat /\ snapshots \in Nat

IdleBuilder == [pc |-> "idle", data |-> EmptyState, last |-> 0]

\* get_current_snapshot: None, whatever was built or received.  openraft asks
\* when it starts, for its record, and as a leader, for a snapshot to send: it
\* never gets one.
GetCurrentSnapshot == [last |-> 0, membership |-> 0, data |-> EmptyState]

Init ==
  /\ disks = <<EmptyDisk>>
  /\ state = EmptyState
  /\ todo = <<>>
  /\ builder = IdleBuilder
  /\ snapshot = GetCurrentSnapshot
  /\ up = FALSE
  /\ chosen = <<>>
  /\ promised = [log |-> EmptyDisk.log, vote |-> 0, state |-> EmptyState]
  /\ crashes = 0 /\ snapshots = 0

-----------------------------------------------------------------------------
(***************************************************************************)
(* A write is carried out.                                                 *)
(***************************************************************************)
\* The data base after a write to it.
Stored(d, w) ==
  CASE w.op = "put"        -> [d EXCEPT !.log[w.index] = w.entry]
    [] w.op = "remove"     -> [d EXCEPT !.log[w.index] = NoEntry]
    [] w.op = "vote"       -> [d EXCEPT !.vote = w.index]
    [] w.op = "purged"     -> [d EXCEPT !.purged = w.index]
    [] w.op = "applied"    -> [d EXCEPT !.applied = w.index]
    [] w.op = "membership" -> [d EXCEPT !.membership = w.index]
    [] w.op = "save"       -> [d EXCEPT !.saved = state]

\* The next write of the current call.  When it was the last one the call
\* returns, and openraft relies on what the log, the vote and the state are
\* then: it answers the clients whose commands were applied.
Step ==
  /\ todo # <<>>
  /\ todo' = Tail(todo)
  /\ LET w == Head(todo)
     IN \/ /\ w.op = "run"
           /\ state' = [state EXCEPT ![w.index] = @ + 1]
           /\ disks' = disks
        \/ /\ w.op = "restore"
           /\ state' = StateAt(w.index)
           /\ disks' = disks
        \/ /\ w.op = "flush"
           /\ disks' = <<Db>>
           /\ state' = state
        \/ /\ w.op \notin {"run", "restore", "flush"}
           /\ disks' = Append(disks, Stored(Db, w))
           /\ state' = state
  /\ promised' = IF Len(todo) = 1
                 THEN [log |-> Db'.log, vote |-> Db'.vote, state |-> state']
                 ELSE promised
  /\ UNCHANGED <<builder, snapshot, up, chosen, crashes, snapshots>>

-----------------------------------------------------------------------------
(***************************************************************************)
(* The calls of openraft.                                                  *)
(***************************************************************************)
Ready == up /\ todo = <<>>

Call(writes) ==
  /\ Ready
  /\ todo' = writes
  /\ UNCHANGED <<disks, state, builder, up, chosen, crashes>>

CallSaveVote ==
  /\ Db.vote < MaxVote
  /\ Call(SaveVote(Db.vote + 1))
  /\ UNCHANGED <<snapshot, promised, snapshots>>

\* The log agrees with what the cluster has committed.
Agrees == \A i \in Present(Db) : i <= Len(chosen) => Db.log[i] = chosen[i]

\* Entries are appended behind the last one; those the cluster has committed
\* already are the committed ones.
CallAppend ==
  /\ Agrees
  /\ Db.applied <= LastLogId(Db)
  /\ \E n \in 1..MaxBatch : \E entries \in [1..n -> Entry] :
       LET first == LastLogId(Db) + 1
       IN /\ first + n - 1 <= MaxIndex
          /\ \A k \in 1..n : first + k - 1 <= Len(chosen)
                               => entries[k] = chosen[first + k - 1]
          /\ Call(AppendToLog(first, entries))
  /\ UNCHANGED <<snapshot, promised, snapshots>>

\* A new leader replaces entries that were never committed.
CallDeleteConflict ==
  /\ Others
  /\ \E i \in Present(Db) :
       /\ i <= Len(chosen) => Db.log[i] # chosen[i]
       /\ \E removes \in DeleteConflictLogsSince(i) : Call(removes)
       /\ promised' = [promised EXCEPT
            !.log = [j \in Index |-> IF j < i THEN @[j] ELSE NoEntry]]
  /\ UNCHANGED <<snapshot, snapshots>>

\* The cluster commits an entry: one this node has, or another one.
Commit ==
  /\ Len(chosen) < MaxIndex
  /\ LET own == promised.log[Len(chosen) + 1]
     IN chosen' \in {Append(chosen, e) : e \in IF Others THEN Entry ELSE {own} \cap Entry}
  /\ UNCHANGED <<disks, state, todo, builder, snapshot, up, promised, crashes, snapshots>>

CallApply ==
  /\ \E last \in (Db.applied + 1)..Len(chosen) :
       /\ last < Db.applied + 1 + MaxBatch
       /\ \A i \in (Db.applied + 1)..last : Db.log[i] = chosen[i]
       /\ Call(ApplyToStateMachine(Db.applied + 1, last))
  /\ UNCHANGED <<snapshot, promised, snapshots>>

\* A snapshot made after this node's last applied entry, as the handler of
\* /raft/install_snapshot takes it from any leader.  (No SledStorage has one to
\* send: GetCurrentSnapshot.)
CallInstall ==
  /\ Others
  /\ snapshots < MaxSnapshots
  /\ \E last \in (Db.applied + 1)..Len(chosen) :
       /\ Call(InstallSnapshot(last))
       /\ snapshot' = [last |-> last, membership |-> MembershipAt(last),
                       data |-> StateAt(last)]
  /\ snapshots' = snapshots + 1
  /\ UNCHANGED promised

\* Entries a snapshot covers are purged.
CallPurge ==
  /\ \E i \in (Db.purged + 1)..snapshot.last :
       \E writes \in PurgeLogsUpto(i) : Call(writes)
  /\ UNCHANGED <<snapshot, promised, snapshots>>

-----------------------------------------------------------------------------
(***************************************************************************)
(* build_snapshot: the state is copied first, then last_applied and the    *)
(* membership are read, without the lock.                                  *)
(***************************************************************************)
BuildData ==
  /\ up /\ builder.pc = "idle"
  /\ snapshots < MaxSnapshots
  /\ Db.applied > 0
  /\ snapshots' = snapshots + 1
  /\ builder' = [pc |-> "data", data |-> state, last |-> 0]
  /\ UNCHANGED <<disks, state, todo, snapshot, up, chosen, promised, crashes>>

BuildIndex ==
  /\ builder.pc = "data"
  /\ builder' = [builder EXCEPT !.pc = "index", !.last = Db.applied]
  /\ UNCHANGED <<disks, state, todo, snapshot, up, chosen, promised, crashes, snapshots>>

\* The state copied last.
BuildDoneLate ==
  /\ builder.pc = "index"
  /\ builder' = IdleBuilder
  /\ snapshot' = IF builder.last <= snapshot.last THEN snapshot
                 ELSE [last |-> builder.last, membership |-> Db.membership,
                       data |-> state]
  /\ UNCHANGED <<disks, state, todo, up, chosen, promised, crashes, snapshots>>

\* openraft keeps the snapshot that covers more.
BuildDone ==
  /\ builder.pc = "index"
  /\ builder' = IdleBuilder
  /\ snapshot' = IF builder.last <= snapshot.last THEN snapshot
                 ELSE [last |-> builder.last, membership |-> Db.membership,
                       data |-> builder.data]
  /\ UNCHANGED <<disks, state, todo, up, chosen, promised, crashes, snapshots>>

-----------------------------------------------------------------------------
(***************************************************************************)
(* The process is killed, and started again.                               *)
(***************************************************************************)
Crash ==
  /\ up
  /\ crashes < MaxCrashes
  /\ crashes' = crashes + 1
  /\ up' = FALSE
  /\ \E k \in 1..Len(disks) : disks' = <<disks[k]>>
  /\ state' = EmptyState
  /\ todo' = <<>>
  /\ builder' = IdleBuilder
  /\ snapshot' = GetCurrentSnapshot
  /\ UNCHANGED <<chosen, promised, snapshots>>

\* SledStorage::new restores the saved state; openraft reads what the storage
\* says and purges the log if it ends before the last applied entry.
Open ==
  /\ ~ up
  /\ up' = TRUE
  /\ state' = Db.saved
  /\ todo' \in IF LastIndex(Db) < Db.applied THEN PurgeLogsUpto(Db.applied) ELSE {<<>>}
  /\ UNCHANGED <<disks, builder, snapshot, chosen, promised, crashes, snapshots>>

Next ==
  \/ Step
  \/ CallSaveVote \/ CallAppend \/ CallDeleteConflict \/ CallApply
  \/ CallInstall \/ CallPurge
  \/ Commit
  \/ BuildData \/ BuildIndex \/ BuildDone
  \/ Crash \/ Open

Spec == Init /\ [][Next]_vars

-----------------------------------------------------------------------------
(***************************************************************************)
(* Properties.                                                             *)
(***************************************************************************)
\* What save_vote and append_to_log have returned for survives a crash at any
\* later point: the vote never goes back, an entry is kept until it is purged
\* or a new leader replaces it.
PromisesSurvive ==
  \A k \in 1..Len(disks) :
    /\ disks[k].vote >= promised.vote
    /\ \A i \in Index : promised.log[i] # NoEntry /\ i > disks[k].purged
                         => disks[k].log[i] = promised.log[i]

\* No call takes back what another one has promised: the vote never goes back,
\* and an entry goes only by being purged or, between two calls, by being one
\* the cluster has not committed, or behind such a one.
PromisesAreKept ==
  [][/\ promised.vote <= promised'.vote
     /\ \A i \in Index :
          promised.log[i] # NoEntry /\ promised'.log[i] # promised.log[i] =>
            \/ i <= Db'.purged
            \/ /\ todo = <<>>
               /\ \E j \in Present(Db) :
                    j <= i /\ ~ (j <= Len(chosen) /\ Db.log[j] = chosen[j])]_vars

\* What a call of apply_to_state_machine has returned for is in every state a
\* kill may bring back, at any later point of any later call: the state is
\* saved and flushed before openraft answers the clients.  A kill costs at most
\* the commands of the batch it interrupts.
AppliedSurvives ==
  \A k \in 1..Len(disks), i \in Index : promised.state[i] <= disks[k].saved[i]

\* Whatever a crash leaves, replaying the log from last_applied on applies no
\* command twice: the saved state has seen nothing beyond last_applied.
NothingAppliedTwice ==
  /\ \A i \in Index : state[i] <= 1
  /\ \A k \in 1..Len(disks), i \in Index :
       disks[k].saved[i] <= (IF i <= disks[k].applied THEN 1 ELSE 0)

\* What openraft records of a snapshot has not seen more than its last_log_id
\* says, although build_snapshot reads the state and last_applied at different
\* moments of a batch: that label decides what is purged.
SnapshotNotAhead ==
  \A i \in Index : i > snapshot.last => snapshot.data[i] = 0

\* Between two calls the state a node restored has seen every command up to
\* last_applied, and the membership is the last one up to there.
RestoredStateIsComplete ==
  Ready => /\ state = StateAt(Db.applied)
           /\ Db.membership = MembershipAt(Db.applied)

=============================================================================
