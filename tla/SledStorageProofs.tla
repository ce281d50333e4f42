--------------------------- MODULE SledStorageProofs ---------------------------
(***************************************************************************)
(* Proofs about SledStorage: whatever a crash leaves keeps the promises    *)
(* openraft relies on, loses no command an apply has returned for and      *)
(* repeats none, and no snapshot has seen more than it says.               *)
(***************************************************************************)
EXTENDS SledStorage, FiniteSetTheorems, SequenceTheorems, TLAPS

-----------------------------------------------------------------------------
(***************************************************************************)
(* The invariant.  A crash may leave any of disks, and any number of the   *)
(* writes of a call may already be among them, so it speaks of every disk  *)
(* and of every write still to be made.                                    *)
(***************************************************************************)
\* A write changes what exists.
Sound(w) ==
  /\ w \in Write
  /\ w.op \in {"put", "remove", "run"} => w.index \in Index
  /\ w.op = "vote" => w.index \in 0..MaxVote
  /\ w.op \in {"purged", "applied", "membership"} => w.index \in 0..MaxIndex

AllSound == \A k \in 1..Len(todo) : Sound(todo[k])

\* Only a process that runs has anything to write.
UpToWrite == todo # <<>> => up

\* The writes of the log and the vote break no promise: a vote goes forward, a
\* key that is put is none openraft relies on, a key that is removed is purged
\* before or has been given up; purging comes first and takes what is applied.
KeepsPromises(k) ==
  LET w == todo[k]
  IN /\ w.op = "vote" => promised.vote <= w.index
     /\ w.op = "put" => promised.log[w.index] = NoEntry
     /\ w.op = "remove" => \/ promised.log[w.index] = NoEntry
                           \/ w.index <= Db.purged
                           \/ todo[1].op = "purged" /\ w.index <= todo[1].index
     /\ w.op = "purged" => k = 1 /\ Db.purged <= w.index /\ w.index <= Db.applied
     /\ w.op \notin {"remove", "purged"} => todo[Len(todo)].op = "flush"

LogWrites == \A k \in 1..Len(todo) : KeepsPromises(k)

\* Where no flush is to come, no disk lacks what the call has been told.
Settled ==
  todo = <<>> \/ todo[Len(todo)].op # "flush" =>
    \A k \in 1..Len(disks) :
      /\ disks[k].vote = Db.vote
      /\ \A i \in Index : Db.log[i] # NoEntry => disks[k].log[i] = Db.log[i]

\* Only applied entries are purged.
PurgedIsApplied == \A k \in 1..Len(disks) : disks[k].purged <= disks[k].applied

\* An entry is run once, and not before last_applied says so, which never goes
\* back; a received state comes with its own last_applied.
AppliesOnce(k) ==
  LET w == todo[k]
  IN /\ w.op = "run" =>
          /\ state[w.index] = 0
          /\ \/ w.index <= Db.applied
             \/ \E j \in 1..(k - 1) : todo[j].op = "applied" /\ w.index <= todo[j].index
          /\ \A j \in 1..(k - 1) :
               /\ todo[j].op = "run" => todo[j].index # w.index
               /\ todo[j].op # "restore"
     /\ w.op = "applied" =>
          /\ Db.applied <= w.index
          /\ \A j \in 1..(k - 1) : todo[j].op = "applied" => todo[j].index <= w.index
     /\ w.op = "restore" =>
          /\ k = 1 /\ Len(todo) >= 2 /\ w.index <= snapshot.last
          /\ todo[2].op = "applied" /\ todo[2].index = w.index

StateWrites == \A k \in 1..Len(todo) : AppliesOnce(k)

\* The state has seen nothing beyond last_applied, but for a received state
\* whose last_applied is the next write.
StateNotAhead ==
  \A i \in Index :
    /\ state[i] <= 1
    /\ state[i] > 0 => \/ i <= Db.applied
                       \/ /\ todo # <<>> /\ todo[1].op = "applied"
                          /\ i <= todo[1].index /\ i <= snapshot.last

\* openraft's snapshot covers what is applied, or what is about to be.
SnapshotApplied ==
  \/ snapshot.last <= Db.applied
  \/ \E k \in 1..Len(todo) : todo[k].op = "applied" /\ snapshot.last <= todo[k].index

\* A builder that has copied a state received, and not yet marked as applied, makes
\* a snapshot that openraft has a better one for.
BuilderNotAhead ==
  /\ builder.last <= Db.applied
  /\ builder.pc = "data" =>
       \A i \in Index : builder.data[i] > 0 => i <= Db.applied \/ i <= snapshot.last
  /\ builder.pc = "index" /\ snapshot.last < builder.last =>
       \A i \in Index : builder.data[i] > 0 => i <= builder.last

PromiseInv == LogWrites /\ Settled /\ PurgedIsApplied /\ PromisesSurvive
ApplyInv == /\ UpToWrite /\ StateWrites /\ StateNotAhead
            /\ SnapshotApplied /\ BuilderNotAhead
            /\ NothingAppliedTwice /\ SnapshotNotAhead

-----------------------------------------------------------------------------
(***************************************************************************)
(* Indexes.                                                                *)
(***************************************************************************)
LEMMA LeastNatural ==
  ASSUME NEW S \in SUBSET Nat, S # {}
  PROVE  \E x \in S : \A y \in S : x <= y
<1>1. PICK x \in S : \A y \in S : <<y, x>> \notin OpToRel(<, Nat)
  BY NatLessThanWellFounded, WFMin
<1>2. \A y \in S : <<y, x>> \in OpToRel(<, Nat) <=> y < x
  BY DEF OpToRel
<1>3. \A y \in S : ~ (y < x) /\ y \in Nat /\ x \in Nat
  BY <1>1, <1>2
<1>4. \A y \in S : x <= y
  BY <1>3
<1> QED
  BY <1>4

LEMMA GreatestIndex ==
  ASSUME NEW n \in Nat, NEW S \in SUBSET (0..n), S # {}
  PROVE  \E x \in S : \A y \in S : y <= x
<1> DEFINE T == {n - y : y \in S}
<1>1. T \in SUBSET Nat /\ T # {}
  <2>1. \A y \in S : y \in 0..n /\ n - y \in Nat
    OBVIOUS
  <2> QED
    BY <2>1
<1>2. PICK z \in T : \A y \in T : z <= y
  BY <1>1, LeastNatural
<1>3. PICK x \in S : z = n - x
  OBVIOUS
<1>4. ASSUME NEW y \in S
      PROVE  y <= x
  BY <1>2, <1>3
<1> QED
  BY <1>4

\* The last key of the log, the last log id, and the last membership.
LEMMA LastIndexType ==
  ASSUME NEW d \in Disk
  PROVE  /\ LastIndex(d) \in 0..MaxIndex
         /\ \A i \in Present(d) : i <= LastIndex(d)
         /\ LastLogId(d) \in 0..MaxIndex
         /\ LastIndex(d) <= LastLogId(d) /\ d.purged <= LastLogId(d)
<1>1. Present(d) \cup {0} \in SUBSET (0..MaxIndex)
  BY EntriesAssumption DEF Present, Index
<1>2. PICK x \in Present(d) \cup {0} : \A y \in Present(d) \cup {0} : y <= x
  BY <1>1, EntriesAssumption, GreatestIndex
<1>3. /\ LastIndex(d) \in Present(d) \cup {0}
      /\ \A y \in Present(d) \cup {0} : LastIndex(d) >= y
  <2>1. \E z \in Present(d) \cup {0} : \A y \in Present(d) \cup {0} : z >= y
    BY <1>1, <1>2
  <2> QED
    BY <2>1 DEF LastIndex, Max
<1>4. LastIndex(d) \in 0..MaxIndex /\ d.purged \in 0..MaxIndex
  BY <1>1, <1>3 DEF Disk
<1>5. /\ LastLogId(d) \in {LastIndex(d), d.purged}
      /\ \A y \in {LastIndex(d), d.purged} : LastLogId(d) >= y
  <2>1. \E z \in {LastIndex(d), d.purged} : \A y \in {LastIndex(d), d.purged} : z >= y
    BY <1>4
  <2> QED
    BY <2>1 DEF LastLogId, Max
<1> QED
  BY <1>1, <1>3, <1>4, <1>5

LEMMA MembershipAtType ==
  ASSUME NEW i \in 0..MaxIndex
  PROVE  MembershipAt(i) \in 0..MaxIndex
<1> DEFINE S == {m \in 0..i : m # 0 => chosen[m] \in MembershipEntry}
<1>1. S \in SUBSET (0..MaxIndex) /\ S # {} /\ MaxIndex \in Nat
  <2>1. MaxIndex \in Nat
    BY EntriesAssumption
  <2>2. 0 \in S /\ \A m \in S : m \in 0..i
    OBVIOUS
  <2>3. \A m \in 0..i : m \in 0..MaxIndex
    BY <2>1
  <2> QED
    BY <2>1, <2>2, <2>3
<1>2. PICK m \in S : \A y \in S : y <= m
  BY <1>1, GreatestIndex
<1>3. \A j \in (m + 1)..i : chosen[j] \notin MembershipEntry
  <2>1. ASSUME NEW j \in (m + 1)..i, chosen[j] \in MembershipEntry
        PROVE  FALSE
    <3>1. j \in S /\ j > m
      BY <1>2, <2>1
    <3> QED
      BY <1>1, <1>2, <3>1
  <2> QED
    BY <2>1
<1>4. MembershipAt(i) \in 0..i
  BY <1>2, <1>3 DEF MembershipAt
<1> QED
  BY <1>4, EntriesAssumption

-----------------------------------------------------------------------------
(***************************************************************************)
(* The writes of the calls.                                                *)
(***************************************************************************)
LEMMA PlainWrite ==
  ASSUME NEW op \in {"put", "remove", "vote", "purged", "applied", "membership",
                     "run", "restore", "save", "flush"}, NEW i \in Nat
  PROVE  Plain(op, i) \in Write /\ Plain(op, i).op = op /\ Plain(op, i).index = i
  BY DEF Plain, Write

LEMMA FlushWrite == Flush \in Write /\ Flush.op = "flush"
  BY PlainWrite DEF Flush

LEMMA SaveVoteWrites ==
  ASSUME NEW v \in Nat
  PROVE  LET writes == SaveVote(v)
         IN  /\ writes \in Seq(Write) /\ Len(writes) = 2
             /\ writes[1].op = "vote" /\ writes[1].index = v
             /\ writes[2].op = "flush"
<1>1. /\ Plain("vote", v) \in Write /\ Plain("vote", v).op = "vote"
      /\ Plain("vote", v).index = v
  BY PlainWrite
<1> QED
  BY <1>1, FlushWrite DEF SaveVote

LEMMA AppendWrites ==
  ASSUME NEW first \in Nat, NEW n \in Nat, NEW entries \in [1..n -> Entry]
  PROVE  LET writes == AppendToLog(first, entries)
         IN  /\ writes \in Seq(Write) /\ Len(writes) = n + 1
             /\ \A k \in 1..n : /\ writes[k].op = "put"
                                /\ writes[k].index = first + k - 1
             /\ writes[n + 1].op = "flush"
<1> DEFINE puts == [k \in 1..Len(entries) |-> Put(first + k - 1, entries[k])]
<1>1. Len(entries) = n
  OBVIOUS
<1>2. ASSUME NEW k \in 1..n
      PROVE  /\ Put(first + k - 1, entries[k]) \in Write
             /\ Put(first + k - 1, entries[k]).op = "put"
             /\ Put(first + k - 1, entries[k]).index = first + k - 1
  BY DEF Put, Write
<1>3. /\ puts \in Seq(Write) /\ Len(puts) = n
      /\ \A k \in 1..n : puts[k] = Put(first + k - 1, entries[k])
  BY <1>1, <1>2
<1>4. AppendToLog(first, entries) = puts \o <<Flush>>
  BY DEF AppendToLog
<1> HIDE DEF puts
<1>5. LET writes == puts \o <<Flush>>
      IN  /\ writes \in Seq(Write) /\ Len(writes) = n + 1
          /\ \A k \in 1..n : writes[k] = puts[k]
          /\ writes[n + 1] = Flush
  BY <1>3, FlushWrite
<1> QED
  BY <1>2, <1>3, <1>4, <1>5, FlushWrite

\* Only keys that are there, and in the range, are removed.
LEMMA RemoveWrites ==
  ASSUME NEW range, NEW writes \in RemoveKeys(range)
  PROVE  /\ writes \in Seq(Write)
         /\ \A k \in 1..Len(writes) : /\ writes[k].op = "remove"
                                      /\ writes[k].index \in Index /\ writes[k].index \in range
<1> DEFINE S == Present(Db) \cap range
<1>1. Cardinality(S) \in Nat
  <2>1. IsFiniteSet(Index)
    BY FS_Interval, EntriesAssumption DEF Index
  <2>2. S \subseteq Index
    BY DEF Present
  <2> QED
    BY <2>1, <2>2, FS_Subset, FS_CardinalityType
<1>2. PICK keys \in Ascending(S) : writes = [k \in DOMAIN keys |-> Plain("remove", keys[k])]
  BY DEF RemoveKeys
<1>3. keys \in [1..Cardinality(S) -> S]
  BY <1>2 DEF Ascending
<1>4. ASSUME NEW k \in 1..Cardinality(S)
      PROVE  /\ Plain("remove", keys[k]) \in Write
             /\ Plain("remove", keys[k]).op = "remove"
             /\ Plain("remove", keys[k]).index = keys[k]
             /\ keys[k] \in Index /\ keys[k] \in range
  <2>1. keys[k] \in Index /\ keys[k] \in range
    BY <1>3 DEF Present
  <2>2. keys[k] \in Nat
    BY <2>1 DEF Index
  <2> QED
    BY <2>1, <2>2, PlainWrite
<1>5. writes = [k \in 1..Cardinality(S) |-> Plain("remove", keys[k])]
  BY <1>2, <1>3
<1> HIDE DEF S
<1>6. writes \in Seq(Write) /\ Len(writes) = Cardinality(S)
  BY <1>1, <1>4, <1>5
<1> QED
  BY <1>4, <1>5, <1>6

LEMMA PurgeWrites ==
  ASSUME NEW i \in Nat, NEW writes \in PurgeLogsUpto(i)
  PROVE  /\ writes \in Seq(Write) /\ Len(writes) > 0
         /\ writes[1].op = "purged" /\ writes[1].index = i
         /\ \A k \in 2..Len(writes) : /\ writes[k].op = "remove"
                                      /\ writes[k].index \in Index /\ writes[k].index <= i
<1>1. PICK removes \in RemoveKeys(1..i) : writes = <<Plain("purged", i)>> \o removes
  BY DEF PurgeLogsUpto
<1>2. /\ removes \in Seq(Write) /\ Len(removes) \in Nat
      /\ \A k \in 1..Len(removes) : /\ removes[k].op = "remove"
                                    /\ removes[k].index \in Index /\ removes[k].index <= i
  BY RemoveWrites
<1>3. /\ Plain("purged", i) \in Write /\ Plain("purged", i).op = "purged"
      /\ Plain("purged", i).index = i
  BY PlainWrite
<1>4. /\ writes \in Seq(Write) /\ Len(writes) = Len(removes) + 1
      /\ writes[1] = Plain("purged", i)
      /\ \A k \in 2..Len(writes) : writes[k] = removes[k - 1] /\ k - 1 \in 1..Len(removes)
  BY <1>1, <1>2, <1>3
<1> QED
  BY <1>2, <1>3, <1>4

LEMMA SaveWrites ==
  /\ SaveStateSnapshot \in Seq(Write) /\ Len(SaveStateSnapshot) = 2
  /\ SaveStateSnapshot[1].op = "save" /\ SaveStateSnapshot[2].op = "flush"
<1>1. Plain("save", 0) \in Write /\ Plain("save", 0).op = "save"
  BY PlainWrite
<1> QED
  BY <1>1, FlushWrite DEF SaveStateSnapshot

\* The state is saved behind what was written.
LEMMA SaveLast ==
  ASSUME NEW s \in Seq(Write), NEW n \in Nat, Len(s) = n
  PROVE  LET writes == s \o SaveStateSnapshot
         IN  /\ writes \in Seq(Write) /\ Len(writes) = n + 2
             /\ \A k \in 1..n : writes[k] = s[k]
             /\ writes[n + 1].op = "save" /\ writes[n + 2].op = "flush"
<1>1. PICK r \in Seq(Write) : /\ r = SaveStateSnapshot /\ Len(r) = 2
                              /\ r[1].op = "save" /\ r[2].op = "flush"
  BY SaveWrites
<1>2. /\ s \o r \in Seq(Write) /\ Len(s \o r) = n + 2
      /\ \A k \in 1..(n + 2) : (s \o r)[k] = IF k <= n THEN s[k] ELSE r[k - n]
  <2>1. /\ s \o r \in Seq(Write) /\ Len(s \o r) = Len(s) + Len(r)
        /\ \A k \in 1..(Len(s) + Len(r)) :
             (s \o r)[k] = IF k <= Len(s) THEN s[k] ELSE r[k - Len(s)]
    BY ConcatProperties
  <2>2. Len(s) + Len(r) = n + 2
    BY <1>1
  <2> QED
    BY <1>1, <2>1, <2>2
<1>3. (s \o r)[n + 1] = r[1] /\ (s \o r)[n + 2] = r[2]
  BY <1>2
<1> QED
  BY <1>1, <1>2, <1>3

\* For each entry last_applied, then its effect.
LEMMA ApplyWrites ==
  ASSUME NEW first \in Nat, NEW last \in Nat, first <= last
  PROVE  LET writes == ApplyToStateMachine(first, last)
             n == 2 * (last - first + 1)
         IN  /\ n \in Nat /\ writes \in Seq(Write) /\ Len(writes) = n + 2
             /\ \A k \in 1..n :
                  /\ writes[k].op \in {"applied", "membership", "run"}
                  /\ writes[k].op = "applied" <=> k % 2 = 1
                  /\ writes[k].index = first + (k - 1) \div 2
             /\ writes[n + 1].op = "save" /\ writes[n + 2].op = "flush"
<1> DEFINE n == 2 * (last - first + 1)
           E(k) == IF k % 2 = 1 THEN Plain("applied", first + (k - 1) \div 2)
                   ELSE Effect(first + (k - 1) \div 2)
           effects == [k \in 1..n |-> E(k)]
<1>1. n \in Nat
  OBVIOUS
<1>2. ASSUME NEW k \in 1..n
      PROVE  /\ E(k) \in Write
             /\ E(k).op \in {"applied", "membership", "run"}
             /\ E(k).op = "applied" <=> k % 2 = 1
             /\ E(k).index = first + (k - 1) \div 2
  <2>1. PICK i \in Nat : i = first + (k - 1) \div 2
    BY <1>1
  <2>2. CASE k % 2 = 1
    BY <2>1, <2>2, PlainWrite
  <2>3. CASE k % 2 # 1
    <3>1. PICK op \in {"membership", "run"} : Effect(i) = Plain(op, i)
      BY DEF Effect
    <3>2. E(k) = Plain(op, i)
      BY <2>1, <2>3, <3>1
    <3>3. E(k) \in Write /\ E(k).op = op /\ E(k).index = i
      BY <3>2, PlainWrite
    <3> HIDE DEF E
    <3> QED
      BY <2>1, <2>3, <3>3
  <2> QED
    BY <2>2, <2>3
<1>3. ApplyToStateMachine(first, last) = effects \o SaveStateSnapshot
  BY DEF ApplyToStateMachine
<1> HIDE DEF E, n
<1>4. /\ effects \in Seq(Write) /\ Len(effects) = n
      /\ \A k \in 1..n : effects[k] = E(k)
  BY <1>1, <1>2
<1> HIDE DEF effects
<1>5. LET writes == effects \o SaveStateSnapshot
      IN  /\ writes \in Seq(Write) /\ Len(writes) = n + 2
          /\ \A k \in 1..n : writes[k] = effects[k]
          /\ writes[n + 1].op = "save" /\ writes[n + 2].op = "flush"
  BY <1>1, <1>4, SaveLast
<1>6. LET writes == ApplyToStateMachine(first, last)
      IN  /\ n \in Nat /\ writes \in Seq(Write) /\ Len(writes) = n + 2
          /\ \A k \in 1..n :
               /\ writes[k].op \in {"applied", "membership", "run"}
               /\ writes[k].op = "applied" <=> k % 2 = 1
               /\ writes[k].index = first + (k - 1) \div 2
          /\ writes[n + 1].op = "save" /\ writes[n + 2].op = "flush"
  BY <1>1, <1>2, <1>3, <1>4, <1>5
<1> QED
  BY <1>6 DEF n

LEMMA InstallWrites ==
  ASSUME NEW i \in 0..MaxIndex
  PROVE  LET writes == InstallSnapshot(i)
         IN  /\ writes \in Seq(Write) /\ Len(writes) = 5
             /\ writes[1].op = "restore" /\ writes[1].index = i
             /\ writes[2].op = "applied" /\ writes[2].index = i
             /\ writes[3].op = "membership" /\ writes[3].index \in 0..MaxIndex
             /\ writes[4].op = "save" /\ writes[5].op = "flush"
<1> DEFINE three == <<Plain("restore", i), Plain("applied", i),
                      Plain("membership", MembershipAt(i))>>
<1>1. i \in Nat /\ MembershipAt(i) \in Nat /\ MembershipAt(i) \in 0..MaxIndex
  BY MembershipAtType
<1>2. /\ Plain("restore", i) \in Write /\ Plain("restore", i).op = "restore"
      /\ Plain("restore", i).index = i
  BY <1>1, PlainWrite
<1>3. /\ Plain("applied", i) \in Write /\ Plain("applied", i).op = "applied"
      /\ Plain("applied", i).index = i
  BY <1>1, PlainWrite
<1>4. PICK m \in Write : /\ m = Plain("membership", MembershipAt(i))
                         /\ m.op = "membership" /\ m.index \in 0..MaxIndex
  BY <1>1, PlainWrite
<1>5. /\ three \in Seq(Write) /\ Len(three) = 3
      /\ three[1] = Plain("restore", i) /\ three[2] = Plain("applied", i) /\ three[3] = m
  BY <1>2, <1>3, <1>4
<1>6. InstallSnapshot(i) = three \o SaveStateSnapshot
  BY DEF InstallSnapshot
<1> HIDE DEF three
<1>7. LET writes == three \o SaveStateSnapshot
      IN  /\ writes \in Seq(Write) /\ Len(writes) = 5
          /\ writes[1] = three[1] /\ writes[2] = three[2] /\ writes[3] = three[3]
          /\ writes[4].op = "save" /\ writes[5].op = "flush"
  <2>1. PICK n \in Nat : n = 3
    OBVIOUS
  <2>2. LET writes == three \o SaveStateSnapshot
        IN  /\ writes \in Seq(Write) /\ Len(writes) = n + 2
            /\ \A k \in 1..n : writes[k] = three[k]
            /\ writes[n + 1].op = "save" /\ writes[n + 2].op = "flush"
    BY <1>5, <2>1, SaveLast
  <2> QED
    BY <2>1, <2>2
<1> QED
  BY <1>2, <1>3, <1>4, <1>5, <1>6, <1>7

-----------------------------------------------------------------------------
(***************************************************************************)
(* What a step may do.                                                     *)
(***************************************************************************)
\* The fields of the data base after a write.
Becomes(old, new, w) ==
  /\ new.vote       = IF w.op = "vote" THEN w.index ELSE old.vote
  /\ new.purged     = IF w.op = "purged" THEN w.index ELSE old.purged
  /\ new.applied    = IF w.op = "applied" THEN w.index ELSE old.applied
  /\ new.saved      = IF w.op = "save" THEN state ELSE old.saved
  /\ \A i \in Index :
       new.log[i] = CASE w.op = "put" /\ i = w.index -> w.entry
                      [] w.op = "remove" /\ i = w.index -> NoEntry
                      [] OTHER -> old.log[i]

LEMMA StoredType ==
  ASSUME NEW d \in Disk, NEW w, Sound(w), state \in States,
         w.op \notin {"run", "restore", "flush"}
  PROVE  Stored(d, w) \in Disk /\ Becomes(d, Stored(d, w), w)
<1>t. /\ d.log \in [Index -> Entry \cup {NoEntry}] /\ w.entry \in Entry \cup {NoEntry}
      /\ w.op \in {"put", "remove", "vote", "purged", "applied", "membership", "save"}
  BY DEF Disk, Sound, Write
<1>1. CASE w.op = "put"
  <2>1. Stored(d, w) = [d EXCEPT !.log[w.index] = w.entry]
    BY <1>1 DEF Stored
  <2> QED
    BY <1>t, <1>1, <2>1 DEF Sound, Disk, Becomes
<1>2. CASE w.op = "remove"
  <2>1. Stored(d, w) = [d EXCEPT !.log[w.index] = NoEntry]
    BY <1>2 DEF Stored
  <2> QED
    BY <1>t, <1>2, <2>1 DEF Sound, Disk, Becomes
<1>3. CASE w.op = "vote"
  <2>1. Stored(d, w) = [d EXCEPT !.vote = w.index]
    BY <1>3 DEF Stored
  <2> QED
    BY <1>t, <1>3, <2>1 DEF Sound, Disk, Becomes
<1>4. CASE w.op = "purged"
  <2>1. Stored(d, w) = [d EXCEPT !.purged = w.index]
    BY <1>4 DEF Stored
  <2> QED
    BY <1>t, <1>4, <2>1 DEF Sound, Disk, Becomes
<1>5. CASE w.op = "applied"
  <2>1. Stored(d, w) = [d EXCEPT !.applied = w.index]
    BY <1>5 DEF Stored
  <2> QED
    BY <1>t, <1>5, <2>1 DEF Sound, Disk, Becomes
<1>6. CASE w.op = "membership"
  <2>1. Stored(d, w) = [d EXCEPT !.membership = w.index]
    BY <1>6 DEF Stored
  <2> QED
    BY <1>t, <1>6, <2>1 DEF Sound, Disk, Becomes
<1>7. CASE w.op = "save"
  <2>1. Stored(d, w) = [d EXCEPT !.saved = state]
    BY <1>7 DEF Stored
  <2> QED
    BY <1>t, <1>7, <2>1 DEF Sound, Disk, Becomes
<1> QED
  BY <1>t, <1>1, <1>2, <1>3, <1>4, <1>5, <1>6, <1>7

LEMMA DbType ==
  ASSUME TypeOK
  PROVE  Db \in Disk /\ Len(disks) \in Nat \ {0} /\ \A k \in 1..Len(disks) : disks[k] \in Disk
  BY DEF TypeOK, Db

\* The indexes and the counts.
LEMMA Numbers ==
  ASSUME TypeOK
  PROVE  /\ Db.applied \in Nat /\ snapshot.last \in Nat /\ builder.last \in Nat
         /\ state \in [Index -> Nat] /\ Db.saved \in [Index -> Nat]
         /\ builder \in [pc : {"idle", "data", "index"}, data : [Index -> Nat], last : 0..MaxIndex]
         /\ \A i \in Index : i \in Nat
<1>1. Db.applied \in 0..MaxIndex /\ Db.saved \in [Index -> Nat]
  BY DbType DEF Disk, States
<1>2. snapshot.last \in 0..MaxIndex /\ builder.last \in 0..MaxIndex
  BY DEF TypeOK
<1>3. /\ state \in [Index -> Nat]
      /\ builder \in [pc : {"idle", "data", "index"}, data : [Index -> Nat], last : 0..MaxIndex]
  BY DEF TypeOK, States
<1>4. \A i \in Index : i \in Nat
  BY DEF Index
<1> QED
  BY <1>1, <1>2, <1>3, <1>4

\* The writes that remain.
LEMMA StepTodo ==
  ASSUME TypeOK, Step
  PROVE  /\ todo \in Seq(Write) /\ Len(todo) \in Nat \ {0} /\ todo[1] \in Write
         /\ todo' \in Seq(Write) /\ Len(todo') = Len(todo) - 1
         /\ \A k \in 1..Len(todo') : k + 1 \in 1..Len(todo) /\ todo'[k] = todo[k + 1]
  BY DEF TypeOK, Step

\* The data base and the disks after a write.
LEMMA StepDisks ==
  ASSUME TypeOK, AllSound, Step, NEW w, w = todo[1]
  PROVE  /\ disks' \in Seq(Disk) /\ disks' # <<>>
         /\ Db' \in Disk /\ Becomes(Db, Db', w)
         /\ \A k \in 1..Len(disks') :
              disks'[k] = Db' \/ \E j \in 1..Len(disks) : disks'[k] = disks[j]
         /\ w.op = "flush" => \A k \in 1..Len(disks') : disks'[k] = Db'
<1>t. /\ Db \in Disk /\ Len(disks) \in Nat \ {0} /\ disks \in Seq(Disk) /\ state \in States
      /\ w = Head(todo)
  BY DbType, StepTodo DEF TypeOK
<1>w. Sound(w)
  BY StepTodo DEF AllSound
<1>1. CASE w.op \in {"run", "restore"}
  <2>1. disks' = disks
    BY <1>t, <1>1 DEF Step
  <2>2. Db' = Db
    BY <2>1 DEF Db
  <2> QED
    BY <1>t, <1>1, <2>1, <2>2 DEF Becomes
<1>2. CASE w.op = "flush"
  <2>1. disks' = <<Db>>
    BY <1>t, <1>2 DEF Step
  <2>2. Db' = Db /\ Len(disks') = 1 /\ disks'[1] = Db
    BY <2>1 DEF Db
  <2> QED
    BY <1>t, <1>2, <2>1, <2>2 DEF Becomes
<1>3. CASE w.op \notin {"run", "restore", "flush"}
  <2>1. PICK d \in Disk : d = Stored(Db, w) /\ Becomes(Db, d, w)
    BY <1>t, <1>w, <1>3, StoredType
  <2>2. disks' = Append(disks, d)
    BY <1>t, <1>3, <2>1 DEF Step
  <2>3. /\ disks' \in Seq(Disk) /\ Len(disks') = Len(disks) + 1 /\ disks'[Len(disks) + 1] = d
        /\ \A k \in 1..Len(disks) : disks'[k] = disks[k]
    BY <1>t, <2>2
  <2>4. Db' = d
    BY <1>t, <2>3 DEF Db
  <2>5. \A k \in 1..Len(disks') : k = Len(disks) + 1 \/ k \in 1..Len(disks)
    BY <1>t, <2>3
  <2> QED
    BY <1>t, <1>3, <2>1, <2>3, <2>4, <2>5
<1> QED
  BY <1>1, <1>2, <1>3

\* The state after a write.
LEMMA StepState ==
  ASSUME TypeOK, AllSound, Step, NEW w, w = todo[1]
  PROVE  /\ state' \in States
         /\ w.op = "run" => state' = [state EXCEPT ![w.index] = @ + 1]
         /\ w.op = "restore" => state' = StateAt(w.index)
         /\ w.op \notin {"run", "restore"} => state' = state
<1>t. state \in States /\ w = Head(todo) /\ Sound(w)
  BY StepTodo DEF TypeOK, AllSound
<1>1. /\ w.op = "run" => state' = [state EXCEPT ![w.index] = @ + 1]
      /\ w.op = "restore" => state' = StateAt(w.index)
      /\ w.op \notin {"run", "restore"} => state' = state
  BY <1>t DEF Step
<1>2. StateAt(w.index) \in States
  BY DEF StateAt, States
<1> QED
  BY <1>t, <1>1, <1>2 DEF States, Sound

-----------------------------------------------------------------------------
(***************************************************************************)
(* The calls, and what they leave to be written.                           *)
(***************************************************************************)
LEMMA VoteCalled ==
  ASSUME TypeOK, CallSaveVote
  PROVE  /\ todo = <<>> /\ UNCHANGED <<disks, state, builder, snapshot, promised>>
         /\ todo' \in Seq(Write) /\ Len(todo') = 2
         /\ todo'[1].op = "vote" /\ todo'[2].op = "flush"
         /\ todo'[1].index = Db.vote + 1 /\ todo'[1].index \in 0..MaxVote
<1>1. Db.vote \in 0..MaxVote /\ Db.vote < MaxVote /\ Db.vote + 1 \in Nat
  BY DbType DEF Disk, CallSaveVote
<1>2. todo' = SaveVote(Db.vote + 1)
  BY DEF CallSaveVote, Call
<1>3. /\ todo' \in Seq(Write) /\ Len(todo') = 2
      /\ todo'[1].op = "vote" /\ todo'[1].index = Db.vote + 1 /\ todo'[2].op = "flush"
  BY <1>1, <1>2, SaveVoteWrites
<1>4. Db.vote + 1 \in 0..MaxVote
  BY <1>1, EntriesAssumption
<1>5. todo = <<>> /\ UNCHANGED <<disks, state, builder, snapshot, promised>>
  BY DEF CallSaveVote, Call, Ready
<1> QED
  BY <1>3, <1>4, <1>5

LEMMA AppendCalled ==
  ASSUME TypeOK, CallAppend
  PROVE  /\ todo = <<>> /\ UNCHANGED <<disks, state, builder, snapshot, promised>>
         /\ todo' \in Seq(Write)
         /\ \E n \in Nat :
              /\ Len(todo') = n + 1 /\ todo'[n + 1].op = "flush"
              /\ \A k \in 1..n : /\ todo'[k].op = "put"
                                 /\ todo'[k].index \in Index
                                 /\ todo'[k].index > LastLogId(Db)
<1>0. PICK n \in 1..MaxBatch : \E entries \in [1..n -> Entry] :
        /\ LastLogId(Db) + 1 + n - 1 <= MaxIndex
        /\ Call(AppendToLog(LastLogId(Db) + 1, entries))
  BY DEF CallAppend
<1>1. PICK entries \in [1..n -> Entry] :
        /\ LastLogId(Db) + 1 + n - 1 <= MaxIndex
        /\ Call(AppendToLog(LastLogId(Db) + 1, entries))
  BY <1>0
<1>2. PICK first \in Nat : first = LastLogId(Db) + 1 /\ LastLogId(Db) \in Nat
  BY DbType, LastIndexType
<1>3. todo' = AppendToLog(first, entries)
  BY <1>1, <1>2 DEF Call
<1>4. n \in Nat /\ entries \in [1..n -> Entry]
  BY <1>1, EntriesAssumption
<1>5. /\ todo' \in Seq(Write) /\ Len(todo') = n + 1 /\ todo'[n + 1].op = "flush"
      /\ \A k \in 1..n : todo'[k].op = "put" /\ todo'[k].index = first + k - 1
  <2>1. LET writes == AppendToLog(first, entries)
        IN  /\ writes \in Seq(Write) /\ Len(writes) = n + 1
            /\ \A k \in 1..n : /\ writes[k].op = "put"
                               /\ writes[k].index = first + k - 1
            /\ writes[n + 1].op = "flush"
    BY <1>2, <1>4, AppendWrites, Zenon
  <2> QED
    BY <1>3, <2>1
<1>6. \A k \in 1..n : first + k - 1 \in Index /\ first + k - 1 > LastLogId(Db)
  BY <1>1, <1>2, <1>4, EntriesAssumption DEF Index
<1> QED
  <2>1. todo = <<>> /\ UNCHANGED <<disks, state, builder, snapshot, promised>>
    BY DEF CallAppend, Call, Ready
  <2> QED
    BY <1>4, <1>5, <1>6, <2>1

LEMMA DeleteCalled ==
  ASSUME TypeOK, CallDeleteConflict
  PROVE  /\ todo = <<>> /\ UNCHANGED <<disks, state, builder, snapshot>>
         /\ todo' \in Seq(Write)
         /\ \E i \in Index :
              /\ promised' = [promised EXCEPT
                   !.log = [j \in Index |-> IF j < i THEN @[j] ELSE NoEntry]]
              /\ \A k \in 1..Len(todo') : /\ todo'[k].op = "remove"
                                          /\ todo'[k].index \in Index
                                          /\ todo'[k].index >= i
<1>1. PICK i \in Present(Db) :
        /\ \E removes \in DeleteConflictLogsSince(i) : Call(removes)
        /\ promised' = [promised EXCEPT
             !.log = [j \in Index |-> IF j < i THEN @[j] ELSE NoEntry]]
  BY DEF CallDeleteConflict
<1>2. i \in Index /\ i \in Nat
  BY EntriesAssumption DEF Present, Index
<1>3. PICK removes \in RemoveKeys(i..MaxIndex) : Call(removes)
  BY <1>1 DEF DeleteConflictLogsSince
<1>4. /\ removes \in Seq(Write)
      /\ \A k \in 1..Len(removes) : /\ removes[k].op = "remove"
                                    /\ removes[k].index \in Index
                                    /\ removes[k].index \in i..MaxIndex
  BY RemoveWrites
<1>5. todo' = removes
  BY <1>3 DEF Call
<1>6. \A k \in 1..Len(removes) : removes[k].index >= i
  BY <1>2, <1>4
<1> QED
  BY <1>1, <1>2, <1>3, <1>4, <1>5, <1>6 DEF CallDeleteConflict, Call, Ready

LEMMA PurgeCalled ==
  ASSUME TypeOK, CallPurge
  PROVE  /\ todo = <<>> /\ UNCHANGED <<disks, state, builder, snapshot, promised>>
         /\ \E i \in 0..MaxIndex :
              /\ Db.purged < i /\ i <= snapshot.last
              /\ todo' \in PurgeLogsUpto(i)
<1>1. PICK i \in (Db.purged + 1)..snapshot.last :
        \E writes \in PurgeLogsUpto(i) : Call(writes)
  BY DEF CallPurge
<1>2. todo' \in PurgeLogsUpto(i)
  BY <1>1 DEF Call
<1>3. Db.purged \in 0..MaxIndex /\ snapshot.last \in 0..MaxIndex
  BY DbType DEF TypeOK, Disk
<1>4. i \in 0..MaxIndex /\ Db.purged < i /\ i <= snapshot.last
  BY <1>3, EntriesAssumption
<1> QED
  BY <1>1, <1>2, <1>4 DEF CallPurge, Call, Ready

LEMMA ApplyCalled ==
  ASSUME TypeOK, CallApply
  PROVE  /\ todo = <<>> /\ UNCHANGED <<disks, state, builder, snapshot, promised>>
         /\ \E first, last \in Index :
              /\ first = Db.applied + 1 /\ first <= last
              /\ todo' = ApplyToStateMachine(first, last)
<1>1. PICK last \in (Db.applied + 1)..Len(chosen) :
        Call(ApplyToStateMachine(Db.applied + 1, last))
  BY DEF CallApply
<1>2. Db.applied \in 0..MaxIndex /\ Len(chosen) \in Nat /\ Len(chosen) <= MaxIndex
  <2>1. Db.applied \in 0..MaxIndex
    BY DbType DEF Disk
  <2>2. Len(chosen) \in Nat /\ Len(chosen) <= MaxIndex
    BY DEF TypeOK
  <2> QED
    BY <2>1, <2>2
<1>3. Db.applied + 1 \in Index /\ last \in Index /\ Db.applied + 1 <= last
  BY <1>2, EntriesAssumption DEF Index
<1> QED
  BY <1>1, <1>3 DEF CallApply, Call, Ready

LEMMA InstallCalled ==
  ASSUME TypeOK, CallInstall
  PROVE  /\ todo = <<>> /\ UNCHANGED <<disks, state, builder, promised>>
         /\ todo' \in Seq(Write) /\ Len(todo') = 5
         /\ \E last \in Index :
              /\ Db.applied < last
              /\ snapshot' = [last |-> last, membership |-> MembershipAt(last),
                              data |-> StateAt(last)]
              /\ todo'[1].op = "restore" /\ todo'[1].index = last
              /\ todo'[2].op = "applied" /\ todo'[2].index = last
              /\ todo'[3].op = "membership" /\ todo'[3].index \in 0..MaxIndex
              /\ todo'[4].op = "save" /\ todo'[5].op = "flush"
<1>1. PICK last \in (Db.applied + 1)..Len(chosen) :
        /\ Call(InstallSnapshot(last))
        /\ snapshot' = [last |-> last, membership |-> MembershipAt(last),
                        data |-> StateAt(last)]
  BY DEF CallInstall
<1>2. Db.applied \in 0..MaxIndex /\ Len(chosen) \in Nat /\ Len(chosen) <= MaxIndex
  <2>1. Db.applied \in 0..MaxIndex
    BY DbType DEF Disk
  <2>2. Len(chosen) \in Nat /\ Len(chosen) <= MaxIndex
    BY DEF TypeOK
  <2> QED
    BY <2>1, <2>2
<1>3. Db.applied < last /\ last \in Index /\ last \in 0..MaxIndex
  BY <1>2, EntriesAssumption DEF Index
<1>4. todo' = InstallSnapshot(last)
  BY <1>1 DEF Call
<1>5. /\ todo' \in Seq(Write) /\ Len(todo') = 5
      /\ todo'[1].op = "restore" /\ todo'[1].index = last
      /\ todo'[2].op = "applied" /\ todo'[2].index = last
      /\ todo'[3].op = "membership" /\ todo'[3].index \in 0..MaxIndex
      /\ todo'[4].op = "save" /\ todo'[5].op = "flush"
  BY <1>3, <1>4, InstallWrites
<1> QED
  BY <1>1, <1>3, <1>5 DEF CallInstall, Call, Ready

LEMMA Opened ==
  ASSUME TypeOK, Open
  PROVE  /\ ~ up /\ UNCHANGED <<disks, builder, snapshot, promised>> /\ state' = Db.saved
         /\ todo' = <<>> \/ todo' \in PurgeLogsUpto(Db.applied)
  BY DEF Open

-----------------------------------------------------------------------------
(***************************************************************************)
(* Types.                                                                  *)
(***************************************************************************)
LEMMA PurgeSound ==
  ASSUME NEW i \in 0..MaxIndex, NEW writes \in PurgeLogsUpto(i)
  PROVE  writes \in Seq(Write) /\ \A k \in 1..Len(writes) : Sound(writes[k])
<1>1. i \in Nat
  OBVIOUS
<1>2. /\ writes \in Seq(Write) /\ Len(writes) > 0
      /\ writes[1].op = "purged" /\ writes[1].index = i
      /\ \A k \in 2..Len(writes) : writes[k].op = "remove" /\ writes[k].index \in Index
  BY <1>1, PurgeWrites
<1>3. ASSUME NEW k \in 1..Len(writes)
      PROVE  Sound(writes[k])
  <2>1. writes[k] \in Write
    BY <1>2
  <2>2. k = 1 \/ k \in 2..Len(writes)
    BY <1>2
  <2> QED
    BY <1>2, <2>1, <2>2 DEF Sound
<1> QED
  BY <1>2, <1>3

LEMMA ApplySound ==
  ASSUME NEW first \in Index, NEW last \in Index, first <= last
  PROVE  LET writes == ApplyToStateMachine(first, last)
         IN  writes \in Seq(Write) /\ \A k \in 1..Len(writes) : Sound(writes[k])
<1> DEFINE n == 2 * (last - first + 1)
<1>1. PICK writes : writes = ApplyToStateMachine(first, last)
  OBVIOUS
<1>2. first \in Nat /\ last \in Nat /\ first >= 1 /\ last <= MaxIndex /\ MaxIndex \in Nat
  BY EntriesAssumption DEF Index
<1>3. /\ n \in Nat /\ writes \in Seq(Write) /\ Len(writes) = n + 2
      /\ \A k \in 1..n :
           /\ writes[k].op \in {"applied", "membership", "run"}
           /\ writes[k].index = first + (k - 1) \div 2
      /\ writes[n + 1].op = "save" /\ writes[n + 2].op = "flush"
  <2>1. LET w == ApplyToStateMachine(first, last)
            m == 2 * (last - first + 1)
        IN  /\ m \in Nat /\ w \in Seq(Write) /\ Len(w) = m + 2
            /\ \A k \in 1..m :
                 /\ w[k].op \in {"applied", "membership", "run"}
                 /\ w[k].op = "applied" <=> k % 2 = 1
                 /\ w[k].index = first + (k - 1) \div 2
            /\ w[m + 1].op = "save" /\ w[m + 2].op = "flush"
    BY <1>2, ApplyWrites, Zenon
  <2> QED
    BY <1>1, <2>1 DEF n
<1>4. ASSUME NEW k \in 1..Len(writes)
      PROVE  Sound(writes[k])
  <2>1. writes[k] \in Write /\ (k \in 1..n \/ k = n + 1 \/ k = n + 2)
    BY <1>3
  <2>2. CASE k \in 1..n
    <3>1. first + (k - 1) \div 2 \in 1..MaxIndex
      BY <1>2, <2>2
    <3>2. writes[k].index \in 1..MaxIndex /\ writes[k].index \in 0..MaxIndex
      BY <1>3, <2>2, <3>1
    <3> QED
      BY <1>3, <2>1, <2>2, <3>2 DEF Sound, Index
  <2>3. CASE k = n + 1 \/ k = n + 2
    BY <1>3, <2>1, <2>3 DEF Sound
  <2> QED
    BY <2>1, <2>2, <2>3
<1> QED
  BY <1>1, <1>3, <1>4

LEMMA InitSound == Init => TypeOK /\ AllSound
<1>1. EmptyDisk \in Disk /\ EmptyState \in States
  BY EntriesAssumption DEF EmptyDisk, Disk, EmptyState, States
<1>2. EmptyDisk.log \in [Index -> Entry \cup {NoEntry}]
  BY <1>1 DEF Disk
<1>3. Init => TypeOK
  <2> SUFFICES ASSUME Init
               PROVE  TypeOK
    OBVIOUS
  <2>1. disks \in Seq(Disk) /\ disks # <<>> /\ todo \in Seq(Write)
    BY <1>1 DEF Init
  <2>2. state \in States /\ up \in BOOLEAN /\ crashes \in Nat /\ snapshots \in Nat
    BY <1>1 DEF Init
  <2>3. builder \in [pc : {"idle", "data", "index"}, data : States, last : 0..MaxIndex]
    BY <1>1, EntriesAssumption DEF Init, IdleBuilder
  <2>4. snapshot \in [last : 0..MaxIndex, membership : 0..MaxIndex, data : States]
    BY <1>1, EntriesAssumption DEF Init, GetCurrentSnapshot
  <2>5. chosen \in Seq(Entry) /\ Len(chosen) <= MaxIndex
    BY EntriesAssumption DEF Init
  <2>6. promised \in [log : [Index -> Entry \cup {NoEntry}], vote : 0..MaxVote,
                     state : States]
    BY <1>1, <1>2, EntriesAssumption DEF Init
  <2> QED
    BY <2>1, <2>2, <2>3, <2>4, <2>5, <2>6 DEF TypeOK
<1>4. Init => AllSound
  BY DEF Init, AllSound
<1> QED
  BY <1>3, <1>4

\* What a call writes is sound.
LEMMA CallSound ==
  ASSUME TypeOK, CallSaveVote \/ CallAppend \/ CallDeleteConflict \/ CallApply
                 \/ CallInstall \/ CallPurge \/ Open
  PROVE  todo' \in Seq(Write) /\ \A k \in 1..Len(todo') : Sound(todo'[k])
<1>1. CASE CallSaveVote
  <2>1. /\ todo' \in Seq(Write) /\ Len(todo') = 2
        /\ todo'[1].op = "vote" /\ todo'[2].op = "flush" /\ todo'[1].index \in 0..MaxVote
    BY <1>1, VoteCalled
  <2>2. todo'[1] \in Write /\ todo'[2] \in Write
    <3>1. PICK s \in Seq(Write) : s = todo' /\ Len(s) = 2
      BY <2>1
    <3> QED
      BY <3>1
  <2>3. Sound(todo'[1]) /\ Sound(todo'[2])
    BY <2>1, <2>2 DEF Sound
  <2>4. \A k \in 1..Len(todo') : k = 1 \/ k = 2
    BY <2>1
  <2> QED
    BY <2>1, <2>3, <2>4
<1>2. CASE CallAppend
  <2>1. todo' \in Seq(Write)
    BY <1>2, AppendCalled
  <2>2. PICK n \in Nat : /\ Len(todo') = n + 1 /\ todo'[n + 1].op = "flush"
                         /\ \A k \in 1..n : todo'[k].op = "put" /\ todo'[k].index \in Index
    BY <1>2, AppendCalled
  <2>3. ASSUME NEW k \in 1..Len(todo')
        PROVE  Sound(todo'[k])
    <3>1. todo'[k] \in Write /\ (k \in 1..n \/ k = n + 1)
      BY <2>1, <2>2
    <3> QED
      BY <2>2, <3>1 DEF Sound
  <2> QED
    BY <2>1, <2>3
<1>3. CASE CallDeleteConflict
  <2>1. /\ todo' \in Seq(Write)
        /\ \A k \in 1..Len(todo') : todo'[k].op = "remove" /\ todo'[k].index \in Index
    BY <1>3, DeleteCalled
  <2>2. ASSUME NEW k \in 1..Len(todo')
        PROVE  Sound(todo'[k])
    <3>1. todo'[k] \in Write
      BY <2>1
    <3> QED
      BY <2>1, <3>1 DEF Sound
  <2> QED
    BY <2>1, <2>2
<1>4. CASE CallApply
  BY <1>4, ApplyCalled, ApplySound
<1>5. CASE CallInstall
  <2>1. /\ todo' \in Seq(Write) /\ Len(todo') = 5
        /\ todo'[1].op = "restore" /\ todo'[2].op = "applied"
        /\ todo'[2].index \in Index
        /\ todo'[3].op = "membership" /\ todo'[3].index \in 0..MaxIndex
        /\ todo'[4].op = "save" /\ todo'[5].op = "flush"
    BY <1>5, InstallCalled
  <2>2. todo'[2].index \in 0..MaxIndex
    BY <2>1 DEF Index
  <2>3. \A k \in 1..Len(todo') : todo'[k] \in Write /\ k \in {1, 2, 3, 4, 5}
    <3>1. PICK s \in Seq(Write) : s = todo' /\ Len(s) = 5
      BY <2>1
    <3>2. \A k \in 1..Len(s) : s[k] \in Write
      OBVIOUS
    <3>3. \A k \in 1..5 : k \in {1, 2, 3, 4, 5}
      OBVIOUS
    <3> QED
      BY <3>1, <3>2, <3>3
  <2> QED
    BY <2>1, <2>2, <2>3 DEF Sound
<1>6. CASE CallPurge
  BY <1>6, PurgeCalled, PurgeSound
<1>7. CASE Open
  <2>1. Db.applied \in 0..MaxIndex
    BY DbType DEF Disk
  <2>2. CASE todo' = <<>>
    BY <2>2
  <2>3. CASE todo' \in PurgeLogsUpto(Db.applied)
    <3>1. PICK i, writes : /\ i \in 0..MaxIndex /\ todo' = writes
                           /\ writes \in PurgeLogsUpto(i)
      BY <2>1, <2>3
    <3> QED
      BY <3>1, PurgeSound
  <2> QED
    BY <1>7, <2>2, <2>3, Opened
<1> QED
  BY <1>1, <1>2, <1>3, <1>4, <1>5, <1>6, <1>7

LEMMA TypeStep == TypeOK /\ AllSound /\ [Next]_vars => TypeOK' /\ AllSound'
<1> SUFFICES ASSUME TypeOK, AllSound, [Next]_vars
             PROVE  TypeOK' /\ AllSound'
  OBVIOUS
<1>d. /\ Db \in Disk /\ Len(disks) \in Nat \ {0}
      /\ \A k \in 1..Len(disks) : disks[k] \in Disk
  BY DbType
<1>1. CASE Step
  <2>1. disks' \in Seq(Disk) /\ disks' # <<>> /\ Db' \in Disk
    BY <1>1, StepDisks
  <2>2. state' \in States
    BY <1>1, StepState
  <2>3. /\ todo \in Seq(Write) /\ todo' \in Seq(Write)
        /\ \A k \in 1..Len(todo') : k + 1 \in 1..Len(todo) /\ todo'[k] = todo[k + 1]
    BY <1>1, StepTodo
  <2>4. promised' \in [log : [Index -> Entry \cup {NoEntry}], vote : 0..MaxVote,
                      state : States]
    BY <1>1, <2>1, <2>2 DEF Step, TypeOK, Disk
  <2>5. UNCHANGED <<builder, snapshot, up, chosen, crashes, snapshots>>
    BY <1>1 DEF Step
  <2>6. TypeOK'
    BY <2>1, <2>2, <2>3, <2>4, <2>5 DEF TypeOK
  <2> QED
    BY <2>3, <2>6 DEF AllSound
<1>2. CASE CallSaveVote \/ CallAppend \/ CallDeleteConflict \/ CallApply
           \/ CallInstall \/ CallPurge
  <2>1. todo' \in Seq(Write) /\ AllSound'
    BY <1>2, CallSound DEF AllSound
  <2>2. UNCHANGED <<disks, state, builder, up, chosen, crashes>>
    BY <1>2 DEF CallSaveVote, CallAppend, CallDeleteConflict, CallApply, CallInstall,
                CallPurge, Call
  <2>3. snapshots' \in Nat
    BY <1>2 DEF TypeOK, CallSaveVote, CallAppend, CallDeleteConflict, CallApply,
                CallInstall, CallPurge
  <2>4. promised' \in [log : [Index -> Entry \cup {NoEntry}], vote : 0..MaxVote,
                      state : States]
    <3>1. CASE CallDeleteConflict
      <4>1. PICK i \in Index : promised' = [promised EXCEPT
                   !.log = [j \in Index |-> IF j < i THEN @[j] ELSE NoEntry]]
        BY <3>1, DeleteCalled
      <4> QED
        BY <4>1 DEF TypeOK
    <3>2. CASE ~ CallDeleteConflict
      BY <1>2, <3>2 DEF TypeOK, CallSaveVote, CallAppend, CallApply, CallInstall, CallPurge
    <3> QED
      BY <3>1, <3>2
  <2>5. snapshot' \in [last : 0..MaxIndex, membership : 0..MaxIndex, data : States]
    <3>1. CASE CallInstall
      <4>1. PICK last \in Index : snapshot' = [last |-> last, membership |-> MembershipAt(last),
                                               data |-> StateAt(last)]
        BY <3>1, InstallCalled
      <4>2. last \in 0..MaxIndex /\ StateAt(last) \in States
        BY DEF Index, StateAt, States
      <4> QED
        BY <4>1, <4>2, MembershipAtType
    <3>2. CASE ~ CallInstall
      BY <1>2, <3>2 DEF TypeOK, CallSaveVote, CallAppend, CallDeleteConflict, CallApply,
                        CallPurge
    <3> QED
      BY <3>1, <3>2
  <2> QED
    BY <2>1, <2>2, <2>3, <2>4, <2>5 DEF TypeOK
<1>3. CASE Commit
  <2>1. PICK e \in Entry : chosen' = Append(chosen, e)
    BY <1>3 DEF Commit
  <2>2. chosen' \in Seq(Entry) /\ Len(chosen') <= MaxIndex
    BY <1>3, <2>1, EntriesAssumption DEF Commit, TypeOK
  <2> QED
    BY <1>3, <2>2 DEF Commit, TypeOK, AllSound
<1>4. CASE BuildData
  <2>1. builder' \in [pc : {"idle", "data", "index"}, data : States, last : 0..MaxIndex]
    BY <1>4, EntriesAssumption DEF BuildData, TypeOK
  <2> QED
    BY <1>4, <2>1 DEF BuildData, TypeOK, AllSound
<1>5. CASE BuildIndex
  <2>1. Db.applied \in 0..MaxIndex
    BY <1>d DEF Disk
  <2> QED
    BY <1>5, <2>1 DEF BuildIndex, TypeOK, AllSound
<1>6. CASE BuildDone
  <2>1. Db.membership \in 0..MaxIndex
    BY <1>d DEF Disk
  <2>2. IdleBuilder \in [pc : {"idle", "data", "index"}, data : States, last : 0..MaxIndex]
    BY EntriesAssumption DEF IdleBuilder, EmptyState, States
  <2> QED
    BY <1>6, <2>1, <2>2 DEF BuildDone, TypeOK, AllSound
<1>7. CASE Crash
  <2>1. PICK k \in 1..Len(disks) : disks' = <<disks[k]>>
    BY <1>7 DEF Crash
  <2>2. disks' \in Seq(Disk) /\ disks' # <<>>
    BY <1>d, <2>1
  <2>3. IdleBuilder \in [pc : {"idle", "data", "index"}, data : States, last : 0..MaxIndex]
    BY EntriesAssumption DEF IdleBuilder, EmptyState, States
  <2>4. /\ GetCurrentSnapshot \in [last : 0..MaxIndex, membership : 0..MaxIndex, data : States]
        /\ EmptyState \in States
    BY EntriesAssumption DEF GetCurrentSnapshot, EmptyState, States
  <2>5. todo' \in Seq(Write) /\ AllSound' /\ crashes' \in Nat
    BY <1>7 DEF Crash, TypeOK, AllSound
  <2> QED
    BY <1>7, <2>2, <2>3, <2>4, <2>5 DEF Crash, TypeOK
<1>8. CASE Open
  <2>1. todo' \in Seq(Write) /\ AllSound'
    BY <1>8, CallSound DEF AllSound
  <2>2. Db.saved \in States
    BY <1>d DEF Disk
  <2> QED
    BY <1>8, <2>1, <2>2 DEF Open, TypeOK
<1>9. CASE UNCHANGED vars
  BY <1>9 DEF vars, TypeOK, AllSound
<1> QED
  BY <1>1, <1>2, <1>3, <1>4, <1>5, <1>6, <1>7, <1>8, <1>9 DEF Next

\* TypeCorrect: whatever is called and wherever the process is killed, the data
\* base, the shared state, the writes to come and the snapshots have their types.
THEOREM TypeCorrect == Spec => []TypeOK
<1>1. Spec => [](TypeOK /\ AllSound)
  BY InitSound, TypeStep, PTL DEF Spec
<1> QED
  BY <1>1, PTL


-----------------------------------------------------------------------------
(***************************************************************************)
(* No command is repeated.                                                 *)
(***************************************************************************)
LEMMA InitApply == Init => ApplyInv
<1> SUFFICES ASSUME Init
             PROVE  ApplyInv
  OBVIOUS
<1>1. todo = <<>> /\ Db = EmptyDisk /\ Len(disks) = 1 /\ disks[1] = EmptyDisk
  BY DEF Init, Db
<1>2. UpToWrite /\ StateWrites
  BY <1>1 DEF UpToWrite, StateWrites
<1>3. \A i \in Index : EmptyState[i] = 0
  BY DEF EmptyState
<1>4. StateNotAhead /\ SnapshotApplied /\ BuilderNotAhead
  BY <1>1, <1>3 DEF Init, StateNotAhead, SnapshotApplied, BuilderNotAhead, GetCurrentSnapshot,
                    IdleBuilder, EmptyDisk
<1>5. NothingAppliedTwice /\ SnapshotNotAhead
  BY <1>1, <1>3 DEF Init, NothingAppliedTwice, SnapshotNotAhead, GetCurrentSnapshot, EmptyDisk
<1> QED
  BY <1>2, <1>4, <1>5 DEF ApplyInv

\* last_applied never goes back.
LEMMA AppliedGrows ==
  ASSUME TypeOK, AllSound, StateWrites, Step, NEW w, w = todo[1]
  PROVE  /\ Db.applied \in Nat /\ Db'.applied \in Nat /\ Db.applied <= Db'.applied
         /\ w.op = "applied" => Db'.applied = w.index
         /\ w.op # "applied" => Db'.applied = Db.applied
<1>1. Db.applied \in Nat /\ Db'.applied \in Nat
  BY DbType, StepDisks DEF Disk
<1>2. Becomes(Db, Db', w)
  BY StepDisks
<1>3. w.op = "applied" => Db.applied <= w.index
  BY StepTodo DEF StateWrites, AppliesOnce
<1> QED
  BY <1>1, <1>2, <1>3 DEF Becomes

LEMMA StepWrites ==
  ASSUME TypeOK, AllSound, StateWrites, Step
  PROVE  StateWrites'
<1>t. /\ Len(todo) \in Nat \ {0} /\ Len(todo') = Len(todo) - 1
      /\ \A k \in 1..Len(todo') : k + 1 \in 1..Len(todo) /\ todo'[k] = todo[k + 1]
  BY StepTodo
<1> DEFINE w == todo[1]
<1>1. /\ Db.applied \in Nat /\ Db'.applied \in Nat /\ Db.applied <= Db'.applied
      /\ w.op = "applied" => Db'.applied = w.index
      /\ w.op # "applied" => Db'.applied = Db.applied
  BY AppliedGrows
<1>2. /\ w.op = "run" => state' = [state EXCEPT ![w.index] = @ + 1]
      /\ w.op \notin {"run", "restore"} => state' = state
      /\ state \in States
  BY StepState DEF TypeOK
<1>3. ASSUME NEW k \in 1..Len(todo')
      PROVE  AppliesOnce(k)'
  <2>1. PICK m \in 1..Len(todo) : m = k + 1 /\ m > 1 /\ todo'[k] = todo[m] /\ k \in Nat
    BY <1>t
  <2>2. AppliesOnce(m)
    BY DEF StateWrites
  <2>3. \A j \in 1..(k - 1) : todo'[j] = todo[j + 1] /\ j + 1 \in 1..(m - 1)
    BY <1>t, <2>1
  <2>4. 1 \in 1..(m - 1)
    BY <2>1
  <2>5. todo[m].index \in Nat
    BY DEF AllSound, Sound, Write
  <2>6. ASSUME todo[m].op = "run"
        PROVE  /\ state'[todo[m].index] = 0
               /\ \/ todo[m].index <= Db'.applied
                  \/ \E j \in 1..(k - 1) :
                       todo'[j].op = "applied" /\ todo[m].index <= todo'[j].index
               /\ \A j \in 1..(k - 1) :
                    /\ todo'[j].op = "run" => todo'[j].index # todo[m].index
                    /\ todo'[j].op # "restore"
    <3>1. /\ state[todo[m].index] = 0 /\ w.op # "restore"
          /\ w.op = "run" => w.index # todo[m].index
          /\ todo[m].index \in Index
      BY <2>2, <2>4, <2>6 DEF AppliesOnce, AllSound, Sound
    <3>2. state'[todo[m].index] = 0
      BY <1>2, <3>1 DEF States
    <3>3. \/ todo[m].index <= Db'.applied
          \/ \E j \in 1..(k - 1) : todo'[j].op = "applied" /\ todo[m].index <= todo'[j].index
      <4>1. CASE todo[m].index <= Db.applied
        BY <1>1, <2>5, <4>1
      <4>2. ASSUME NEW j \in 1..(m - 1), todo[j].op = "applied", todo[m].index <= todo[j].index
            PROVE  \/ todo[m].index <= Db'.applied
                   \/ \E i \in 1..(k - 1) :
                        todo'[i].op = "applied" /\ todo[m].index <= todo'[i].index
        <5>1. CASE j = 1
          BY <1>1, <4>2, <5>1
        <5>2. CASE j # 1
          <6>1. j \in Nat /\ j - 1 \in 1..(k - 1) /\ (j - 1) + 1 = j
            BY <2>1, <5>2
          <6>2. todo'[j - 1] = todo[j]
            BY <2>3, <6>1
          <6> QED
            BY <4>2, <6>1, <6>2
        <5> QED
          BY <5>1, <5>2
      <4> QED
        BY <2>2, <2>6, <4>1, <4>2 DEF AppliesOnce
    <3> QED
      BY <2>2, <2>3, <2>6, <3>2, <3>3 DEF AppliesOnce
  <2>7. ASSUME todo[m].op = "applied"
        PROVE  /\ Db'.applied <= todo[m].index
               /\ \A j \in 1..(k - 1) :
                    todo'[j].op = "applied" => todo'[j].index <= todo[m].index
    <3>1. /\ Db.applied <= todo[m].index
          /\ w.op = "applied" => w.index <= todo[m].index
          /\ \A j \in 1..(m - 1) : todo[j].op = "applied" => todo[j].index <= todo[m].index
      BY <2>2, <2>4, <2>7 DEF AppliesOnce
    <3> QED
      BY <1>1, <2>3, <3>1
  <2>8. todo[m].op # "restore"
    BY <2>1, <2>2 DEF AppliesOnce
  <2> QED
    BY <2>1, <2>6, <2>7, <2>8 DEF AppliesOnce
<1> QED
  BY <1>3 DEF StateWrites

LEMMA StepNotAhead ==
  ASSUME TypeOK, AllSound, StateWrites, StateNotAhead, Step
  PROVE  StateNotAhead'
<1>t. /\ Len(todo) \in Nat \ {0} /\ Len(todo') = Len(todo) - 1
      /\ \A k \in 1..Len(todo') : k + 1 \in 1..Len(todo) /\ todo'[k] = todo[k + 1]
      /\ snapshot' = snapshot /\ todo # <<>>
  BY StepTodo DEF Step
<1> DEFINE w == todo[1]
<1>1. /\ Db.applied \in Nat /\ Db'.applied \in Nat /\ Db.applied <= Db'.applied
      /\ w.op = "applied" => Db'.applied = w.index
      /\ w.op # "applied" => Db'.applied = Db.applied
  BY AppliedGrows
<1>2. /\ w.op = "run" => state' = [state EXCEPT ![w.index] = @ + 1]
      /\ w.op = "restore" => state' = StateAt(w.index)
      /\ w.op \notin {"run", "restore"} => state' = state
      /\ state \in [Index -> Nat]
  BY StepState DEF TypeOK, States
<1>3. AppliesOnce(1) /\ Sound(w)
  BY <1>t DEF StateWrites, AllSound
<1>4. ASSUME NEW i \in Index
      PROVE  /\ state'[i] <= 1
             /\ state'[i] > 0 => \/ i <= Db'.applied
                                 \/ /\ todo' # <<>> /\ todo'[1].op = "applied"
                                    /\ i <= todo'[1].index /\ i <= snapshot.last
  <2>0. /\ state[i] <= 1 /\ state[i] \in Nat /\ i \in Nat
        /\ state[i] > 0 => i <= Db.applied \/ (w.op = "applied" /\ i <= w.index)
    BY <1>2 DEF StateNotAhead, Index
  <2>1. CASE w.op = "run"
    <3>1. state[w.index] = 0 /\ w.index <= Db.applied /\ w.index \in Index
      BY <1>3, <2>1 DEF AppliesOnce, Sound
    <3>2. state'[i] = IF i = w.index THEN state[i] + 1 ELSE state[i]
      BY <1>2, <2>1, <3>1
    <3> QED
      BY <1>1, <2>0, <2>1, <3>1, <3>2
  <2>2. CASE w.op = "restore"
    <3>1. /\ Len(todo) >= 2 /\ w.index <= snapshot.last
          /\ todo[2].op = "applied" /\ todo[2].index = w.index
      BY <1>3, <2>2 DEF AppliesOnce
    <3>2. todo'[1] = todo[2] /\ todo' # <<>>
      BY <1>t, <3>1
    <3>3. state'[i] = IF i <= w.index /\ chosen[i] \notin MembershipEntry THEN 1 ELSE 0
      BY <1>2, <2>2 DEF StateAt
    <3>4. w.index \in Nat /\ snapshot.last \in Nat
      BY <1>3 DEF Sound, Write, TypeOK
    <3> QED
      BY <2>0, <3>1, <3>2, <3>3, <3>4
  <2>3. CASE w.op \notin {"run", "restore"}
    BY <1>1, <1>2, <2>0, <2>3
  <2> QED
    BY <2>1, <2>2, <2>3
<1> QED
  BY <1>t, <1>4 DEF StateNotAhead

LEMMA StepApply ==
  ASSUME TypeOK, AllSound, ApplyInv, Step
  PROVE  ApplyInv'
<1>t. /\ Len(todo) \in Nat \ {0} /\ Len(todo') = Len(todo) - 1
      /\ \A k \in 1..Len(todo') : k + 1 \in 1..Len(todo) /\ todo'[k] = todo[k + 1]
      /\ UNCHANGED <<snapshot, builder, up>> /\ todo # <<>>
      /\ snapshot.last \in Nat /\ builder.last \in Nat
  BY StepTodo DEF Step, TypeOK
<1>i. /\ UpToWrite /\ StateWrites /\ StateNotAhead /\ SnapshotApplied /\ BuilderNotAhead
      /\ NothingAppliedTwice /\ SnapshotNotAhead
  BY DEF ApplyInv
<1> DEFINE w == todo[1]
<1>1. /\ Db.applied \in Nat /\ Db'.applied \in Nat /\ Db.applied <= Db'.applied
      /\ w.op = "applied" => Db'.applied = w.index
      /\ w.op # "applied" => Db'.applied = Db.applied
  BY <1>i, AppliedGrows
<1>2. UpToWrite' /\ StateWrites' /\ StateNotAhead'
  BY <1>t, <1>i, StepWrites, StepNotAhead DEF UpToWrite
<1>3. SnapshotApplied'
  <2>1. CASE snapshot.last <= Db.applied
    BY <1>t, <1>1, <2>1 DEF SnapshotApplied
  <2>2. ASSUME NEW k \in 1..Len(todo), todo[k].op = "applied", snapshot.last <= todo[k].index
        PROVE  SnapshotApplied'
    <3>1. CASE k = 1
      BY <1>t, <1>1, <2>2, <3>1 DEF SnapshotApplied
    <3>2. CASE k # 1
      <4>1. k - 1 \in 1..Len(todo') /\ todo'[k - 1] = todo[k]
        BY <1>t, <3>2
      <4> QED
        BY <1>t, <2>2, <4>1 DEF SnapshotApplied
    <3> QED
      BY <3>1, <3>2
  <2> QED
    BY <1>i, <2>1, <2>2 DEF SnapshotApplied
<1>4. BuilderNotAhead'
  <2>1. \A i \in Index : i \in Nat
    BY DEF Index
  <2> QED
    BY <1>t, <1>i, <1>1, <2>1 DEF BuilderNotAhead
<1>5. NothingAppliedTwice'
  <2>1. /\ \A k \in 1..Len(disks') :
             disks'[k] = Db' \/ \E j \in 1..Len(disks) : disks'[k] = disks[j]
        /\ Becomes(Db, Db', w)
    BY StepDisks
  <2>2. \A i \in Index : state'[i] <= 1
    BY <1>2 DEF StateNotAhead
  <2>3. ASSUME NEW i \in Index
        PROVE  Db'.saved[i] <= (IF i <= Db'.applied THEN 1 ELSE 0)
    <3>1. /\ Db.saved[i] <= (IF i <= Db.applied THEN 1 ELSE 0)
          /\ Db.saved[i] \in Nat /\ i \in Nat /\ state[i] \in Nat
      <4>1. Db \in Disk /\ Len(disks) \in 1..Len(disks) /\ Db = disks[Len(disks)]
        BY DbType DEF Db
      <4> QED
        <5>1. Db.saved[i] <= (IF i <= Db.applied THEN 1 ELSE 0)
          BY <1>i, <4>1 DEF NothingAppliedTwice
        <5>2. Db.saved \in [Index -> Nat] /\ state \in [Index -> Nat] /\ i \in Nat
          BY Numbers
        <5> QED
          BY <5>1, <5>2
    <3>2. CASE w.op = "save"
      <4>1. Db'.saved = state /\ Db'.applied = Db.applied
        BY <1>1, <2>1, <3>2 DEF Becomes
      <4>2. state[i] <= 1 /\ (state[i] > 0 => i <= Db.applied)
        BY <1>i, <3>2 DEF StateNotAhead
      <4> QED
        BY <3>1, <4>1, <4>2
    <3>3. CASE w.op # "save"
      <4>1. Db'.saved = Db.saved
        BY <2>1, <3>3 DEF Becomes
      <4> QED
        BY <1>1, <3>1, <4>1
    <3> QED
      BY <3>2, <3>3
  <2> QED
    BY <1>i, <2>1, <2>2, <2>3 DEF NothingAppliedTwice
<1>6. SnapshotNotAhead'
  BY <1>t, <1>i DEF SnapshotNotAhead
<1> QED
  BY <1>2, <1>3, <1>4, <1>5, <1>6 DEF ApplyInv


\* A call that is made between two calls, and does not touch openraft's snapshot.
LEMMA CallApplies ==
  ASSUME TypeOK, ApplyInv, todo = <<>>, UNCHANGED <<disks, state, builder, snapshot>>,
         up', StateWrites'
  PROVE  ApplyInv'
<1>i. /\ StateWrites /\ StateNotAhead /\ SnapshotApplied /\ BuilderNotAhead
      /\ NothingAppliedTwice /\ SnapshotNotAhead
  BY DEF ApplyInv
<1>1. Db' = Db /\ snapshot.last <= Db.applied
  BY <1>i DEF Db, SnapshotApplied
<1>2. \A i \in Index : state[i] <= 1 /\ (state[i] > 0 => i <= Db.applied)
  BY <1>i DEF StateNotAhead
<1>3. UpToWrite' /\ StateNotAhead' /\ SnapshotApplied'
  BY <1>1, <1>2 DEF UpToWrite, StateNotAhead, SnapshotApplied
<1>4. BuilderNotAhead' /\ NothingAppliedTwice' /\ SnapshotNotAhead'
  BY <1>i, <1>1 DEF BuilderNotAhead, NothingAppliedTwice, SnapshotNotAhead
<1> QED
  BY <1>3, <1>4 DEF ApplyInv

\* The commands a call applies are new to the state.
LEMMA ApplyWritesOnce ==
  ASSUME TypeOK, ApplyInv, CallApply
  PROVE  StateWrites'
<1>1. PICK first \in Index, last \in Index :
        /\ first = Db.applied + 1 /\ first <= last
        /\ todo' = ApplyToStateMachine(first, last)
  BY ApplyCalled
<1>2. todo = <<>> /\ UNCHANGED <<disks, state>>
  BY ApplyCalled
<1>3. Db' = Db /\ Db.applied \in Nat /\ state \in [Index -> Nat]
  BY <1>2, Numbers DEF Db
<1>4. \A i \in Index : i > Db.applied => state[i] = 0
  <2>1. \A i \in Index : state[i] > 0 => i <= Db.applied
    BY <1>2 DEF ApplyInv, StateNotAhead
  <2> QED
    BY <1>3, <2>1 DEF Index
<1>5. first \in Nat /\ last \in Nat /\ first <= last /\ first \in Index /\ last \in Index
  BY <1>1 DEF Index
<1>6. PICK n \in Nat : n = 2 * (last - first + 1)
  BY <1>5
<1>7. /\ todo' \in Seq(Write) /\ Len(todo') = n + 2
      /\ \A k \in 1..n :
           /\ todo'[k].op \in {"applied", "membership", "run"}
           /\ todo'[k].op = "applied" <=> k % 2 = 1
           /\ todo'[k].index = first + (k - 1) \div 2
      /\ todo'[n + 1].op = "save" /\ todo'[n + 2].op = "flush"
  <2>1. LET w == ApplyToStateMachine(first, last)
            m == 2 * (last - first + 1)
        IN  /\ m \in Nat /\ w \in Seq(Write) /\ Len(w) = m + 2
            /\ \A k \in 1..m :
                 /\ w[k].op \in {"applied", "membership", "run"}
                 /\ w[k].op = "applied" <=> k % 2 = 1
                 /\ w[k].index = first + (k - 1) \div 2
            /\ w[m + 1].op = "save" /\ w[m + 2].op = "flush"
    BY <1>5, ApplyWrites, Zenon
  <2> QED
    BY <1>1, <1>6, <2>1
<1>8. ASSUME NEW k \in 1..n
      PROVE  AppliesOnce(k)'
  <2>1. todo'[k].index = first + (k - 1) \div 2 /\ k \in Nat /\ k >= 1
    <3>1. k \in Nat /\ k >= 1
      BY <1>6
    <3> QED
      BY <1>7, <3>1
  <2>2. first + (k - 1) \div 2 \in Index /\ first + (k - 1) \div 2 > Db.applied
    <3>1. (k - 1) \div 2 \in Nat /\ (k - 1) \div 2 <= last - first
      BY <1>5, <1>6
    <3>2. first >= 1 /\ last <= MaxIndex /\ MaxIndex \in Nat /\ first > Db.applied
      BY <1>1, <1>3, EntriesAssumption DEF Index
    <3>3. first + (k - 1) \div 2 \in Nat /\ first + (k - 1) \div 2 >= first
          /\ first + (k - 1) \div 2 <= last
      BY <1>5, <3>1
    <3> QED
      BY <1>3, <1>5, <3>2, <3>3 DEF Index
  <2>3. \A j \in 1..(k - 1) : j \in 1..n
    BY <1>6
  <2>4. todo'[k].op # "restore" /\ \A j \in 1..(k - 1) : todo'[j].op # "restore"
    BY <1>7, <2>3
  <2>5. ASSUME todo'[k].op = "run"
        PROVE  /\ state[todo'[k].index] = 0
               /\ \E j \in 1..(k - 1) :
                    todo'[j].op = "applied" /\ todo'[k].index <= todo'[j].index
               /\ \A j \in 1..(k - 1) : todo'[j].op = "run" => todo'[j].index # todo'[k].index
    <3>1. state[todo'[k].index] = 0
      BY <1>4, <2>1, <2>2
    <3>2. k % 2 # 1
      BY <1>7, <2>5
    <3>3. /\ k - 1 \in 1..(k - 1) /\ (k - 1) % 2 = 1
          /\ (k - 1) \div 2 = ((k - 1) - 1) \div 2
      BY <2>1, <3>2
    <3>4. todo'[k - 1].op = "applied" /\ todo'[k - 1].index = todo'[k].index
      BY <1>7, <2>1, <2>3, <3>3
    <3>5. ASSUME NEW j \in 1..(k - 1), todo'[j].op = "run"
          PROVE  todo'[j].index # todo'[k].index
      <4>1. j % 2 # 1 /\ todo'[j].index = first + (j - 1) \div 2
        BY <1>7, <2>3, <3>5
      <4>2. (j - 1) \div 2 # (k - 1) \div 2
        BY <2>1, <3>2, <4>1
      <4>3. (j - 1) \div 2 \in Nat /\ (k - 1) \div 2 \in Nat
        BY <2>1
      <4> QED
        BY <1>5, <2>1, <4>1, <4>2, <4>3
    <3>6. todo'[k].index <= todo'[k].index
      BY <2>1, <2>2 DEF Index
    <3> QED
      BY <3>1, <3>3, <3>4, <3>5, <3>6
  <2>6. ASSUME todo'[k].op = "applied"
        PROVE  /\ Db.applied <= todo'[k].index
               /\ \A j \in 1..(k - 1) : todo'[j].index <= todo'[k].index
    <3>1. Db.applied <= todo'[k].index
      BY <1>3, <2>1, <2>2 DEF Index
    <3>2. ASSUME NEW j \in 1..(k - 1)
          PROVE  todo'[j].index <= todo'[k].index
      <4>1. todo'[j].index = first + (j - 1) \div 2
        BY <1>7, <2>3
      <4>2. (j - 1) \div 2 <= (k - 1) \div 2 /\ (j - 1) \div 2 \in Nat /\ (k - 1) \div 2 \in Nat
        BY <2>1
      <4> QED
        BY <1>5, <2>1, <4>1, <4>2
    <3> QED
      BY <3>1, <3>2
  <2> QED
    BY <1>2, <1>3, <2>4, <2>5, <2>6 DEF AppliesOnce
<1>9. AppliesOnce(n + 1)' /\ AppliesOnce(n + 2)'
  BY <1>7 DEF AppliesOnce
<1>10. \A k \in 1..Len(todo') : k \in 1..n \/ k = n + 1 \/ k = n + 2
  BY <1>7
<1> QED
  BY <1>8, <1>9, <1>10 DEF StateWrites

\* The calls that neither apply entries nor install a snapshot.
LEMMA OtherWrites ==
  ASSUME TypeOK, CallSaveVote \/ CallAppend \/ CallDeleteConflict \/ CallPurge
  PROVE  \A k \in 1..Len(todo') : todo'[k].op \notin {"run", "applied", "restore"}
<1>1. CASE CallSaveVote
  <2>1. Len(todo') = 2 /\ todo'[1].op = "vote" /\ todo'[2].op = "flush"
    BY <1>1, VoteCalled
  <2>2. \A k \in 1..Len(todo') : k = 1 \/ k = 2
    BY <2>1
  <2> QED
    BY <2>1, <2>2
<1>2. CASE CallAppend
  <2>1. PICK n \in Nat : /\ Len(todo') = n + 1 /\ todo'[n + 1].op = "flush"
                         /\ \A k \in 1..n : todo'[k].op = "put"
    BY <1>2, AppendCalled
  <2>2. \A k \in 1..Len(todo') : k \in 1..n \/ k = n + 1
    BY <2>1
  <2> QED
    BY <2>1, <2>2
<1>3. CASE CallDeleteConflict
  BY <1>3, DeleteCalled
<1>4. CASE CallPurge
  <2>1. PICK i, writes : i \in Nat /\ todo' = writes /\ writes \in PurgeLogsUpto(i)
    BY <1>4, PurgeCalled
  <2>2. /\ Len(writes) > 0 /\ writes[1].op = "purged" /\ writes \in Seq(Write)
        /\ \A k \in 2..Len(writes) : writes[k].op = "remove"
    BY <2>1, PurgeWrites
  <2>3. \A k \in 1..Len(writes) : k = 1 \/ k \in 2..Len(writes)
    BY <2>2
  <2> QED
    BY <2>1, <2>2, <2>3
<1> QED
  BY <1>1, <1>2, <1>3, <1>4

LEMMA CallsApply ==
  ASSUME TypeOK, ApplyInv,
         CallSaveVote \/ CallAppend \/ CallDeleteConflict \/ CallApply \/ CallPurge
  PROVE  ApplyInv'
<1>1. todo = <<>> /\ up' /\ UNCHANGED <<disks, state, builder, snapshot>>
  BY DEF CallSaveVote, CallAppend, CallDeleteConflict, CallApply, CallPurge, Call, Ready
<1>2. CASE CallApply
  BY <1>1, <1>2, ApplyWritesOnce, CallApplies
<1>3. CASE CallSaveVote \/ CallAppend \/ CallDeleteConflict \/ CallPurge
  <2>1. \A k \in 1..Len(todo') : todo'[k].op \notin {"run", "applied", "restore"}
    BY <1>3, OtherWrites
  <2>2. StateWrites'
    BY <2>1 DEF StateWrites, AppliesOnce
  <2> QED
    BY <1>1, <2>2, CallApplies
<1> QED
  BY <1>2, <1>3

LEMMA InstallApplies ==
  ASSUME TypeOK, ApplyInv, CallInstall
  PROVE  ApplyInv'
<1>i. /\ StateNotAhead /\ SnapshotApplied /\ BuilderNotAhead
      /\ NothingAppliedTwice /\ SnapshotNotAhead
  BY DEF ApplyInv
<1>1. /\ todo = <<>> /\ UNCHANGED <<disks, state, builder>> /\ Len(todo') = 5
      /\ up' /\ builder.last \in Nat
  BY InstallCalled DEF CallInstall, Call, Ready, TypeOK
<1>2. PICK last \in Index :
        /\ Db.applied < last
        /\ snapshot' = [last |-> last, membership |-> MembershipAt(last),
                        data |-> StateAt(last)]
        /\ todo'[1].op = "restore" /\ todo'[1].index = last
        /\ todo'[2].op = "applied" /\ todo'[2].index = last
        /\ todo'[3].op = "membership"
        /\ todo'[4].op = "save" /\ todo'[5].op = "flush"
  BY InstallCalled
<1>3. Db' = Db /\ snapshot.last <= Db.applied /\ snapshot'.last = last
  BY <1>i, <1>1, <1>2 DEF Db, SnapshotApplied
<1>4. Db.applied \in Nat /\ last \in Nat /\ snapshot.last \in Nat
  BY Numbers DEF Index
<1>5. \A i \in Index : state[i] <= 1 /\ (state[i] > 0 => i <= Db.applied)
  BY <1>i, <1>1 DEF StateNotAhead
<1>6. StateWrites'
  <2>1. AppliesOnce(1)' /\ AppliesOnce(2)'
    BY <1>1, <1>2, <1>3, <1>4 DEF AppliesOnce
  <2>2. AppliesOnce(3)' /\ AppliesOnce(4)' /\ AppliesOnce(5)'
    BY <1>2 DEF AppliesOnce
  <2>3. \A k \in 1..Len(todo') : k \in {1, 2, 3, 4, 5}
    BY <1>1
  <2> QED
    BY <2>1, <2>2, <2>3 DEF StateWrites
<1>7. UpToWrite' /\ StateNotAhead' /\ SnapshotApplied'
  <2>1. SnapshotApplied'
    <3>1. 2 \in 1..Len(todo') /\ todo'[2].op = "applied" /\ snapshot'.last <= todo'[2].index
      BY <1>1, <1>2, <1>3, <1>4
    <3> QED
      BY <3>1 DEF SnapshotApplied
  <2> QED
    BY <1>1, <1>3, <1>5, <2>1 DEF UpToWrite, StateNotAhead
<1>8. BuilderNotAhead'
  <2>1. \A i \in Index : i \in Nat
    BY DEF Index
  <2>2. ~ (snapshot'.last < builder.last) /\ builder.last <= Db.applied
    BY <1>i, <1>1, <1>2, <1>3, <1>4 DEF BuilderNotAhead
  <2>3. builder.last <= Db'.applied
    BY <1>3, <2>2
  <2>4. ASSUME builder.pc = "data"
        PROVE  \A i \in Index : builder.data[i] > 0 => i <= Db'.applied \/ i <= snapshot'.last
    <3>1. \A i \in Index : builder.data[i] > 0 => i <= Db.applied \/ i <= snapshot.last
      BY <1>i, <2>4 DEF BuilderNotAhead
    <3> QED
      BY <1>3, <1>4, <2>1, <3>1
  <2> QED
    BY <1>1, <2>2, <2>3, <2>4 DEF BuilderNotAhead
<1>9. NothingAppliedTwice'
  BY <1>i, <1>1 DEF NothingAppliedTwice
<1>10. SnapshotNotAhead'
  BY <1>2, <1>4 DEF SnapshotNotAhead, StateAt, Index
<1> QED
  BY <1>6, <1>7, <1>8, <1>9, <1>10 DEF ApplyInv

\* The state is copied before last_applied is read.
LEMMA BuilderApplies ==
  ASSUME TypeOK, ApplyInv, BuildData \/ BuildIndex \/ BuildDone
  PROVE  ApplyInv'
<1>i. /\ UpToWrite /\ StateWrites /\ StateNotAhead /\ SnapshotApplied /\ BuilderNotAhead
      /\ NothingAppliedTwice /\ SnapshotNotAhead
  BY DEF ApplyInv
<1>1. UNCHANGED <<disks, state, todo, up>> /\ Db' = Db
  BY DEF BuildData, BuildIndex, BuildDone, Db
<1>2. /\ Db.applied \in Nat /\ snapshot.last \in Nat /\ builder.last \in Nat
      /\ builder \in [pc : {"idle", "data", "index"}, data : [Index -> Nat], last : 0..MaxIndex]
      /\ \A i \in Index : i \in Nat
  BY Numbers
<1>3. UpToWrite' /\ NothingAppliedTwice'
  BY <1>i, <1>1 DEF UpToWrite, NothingAppliedTwice
<1>4. CASE BuildData
  <2>1. builder' = [pc |-> "data", data |-> state, last |-> 0] /\ snapshot' = snapshot
    BY <1>4 DEF BuildData
  <2>2. BuilderNotAhead'
    BY <1>i, <1>1, <1>2, <2>1 DEF BuilderNotAhead, StateNotAhead
  <2> QED
    BY <1>i, <1>1, <1>3, <2>1, <2>2
       DEF ApplyInv, StateWrites, AppliesOnce, StateNotAhead, SnapshotApplied, SnapshotNotAhead
<1>5. CASE BuildIndex
  <2>1. /\ builder.pc = "data" /\ snapshot' = snapshot
        /\ builder'.pc = "index" /\ builder'.data = builder.data /\ builder'.last = Db.applied
    BY <1>2, <1>5 DEF BuildIndex
  <2>2. BuilderNotAhead'
    BY <1>i, <1>1, <1>2, <2>1 DEF BuilderNotAhead
  <2> QED
    BY <1>i, <1>1, <1>3, <2>1, <2>2
       DEF ApplyInv, StateWrites, AppliesOnce, StateNotAhead, SnapshotApplied, SnapshotNotAhead
<1>6. CASE BuildDone
  <2>1. builder.pc = "index" /\ builder' = IdleBuilder
    BY <1>6 DEF BuildDone
  <2>2. BuilderNotAhead'
    BY <1>1, <1>2, <2>1 DEF BuilderNotAhead, IdleBuilder
  <2>3. CASE snapshot' = snapshot
    BY <1>i, <1>1, <1>3, <2>2, <2>3
       DEF ApplyInv, StateWrites, AppliesOnce, StateNotAhead, SnapshotApplied, SnapshotNotAhead
  <2>4. CASE /\ snapshot.last < builder.last
             /\ snapshot' = [last |-> builder.last, membership |-> Db.membership,
                             data |-> builder.data]
    <3>1. snapshot'.last = builder.last /\ builder.last <= Db.applied
      BY <1>i, <2>4 DEF BuilderNotAhead
    <3>2. SnapshotApplied'
      BY <1>1, <3>1 DEF SnapshotApplied
    <3>3. SnapshotNotAhead'
      <4>1. \A i \in Index : builder.data[i] > 0 => i <= builder.last
        BY <1>i, <2>1, <2>4 DEF BuilderNotAhead
      <4>2. \A i \in Index : i > builder.last => builder.data[i] = 0
        BY <1>2, <4>1
      <4> QED
        BY <2>4, <4>2 DEF SnapshotNotAhead
    <3>4. StateNotAhead'
      BY <1>i, <1>1, <1>2, <2>4, <3>1 DEF StateNotAhead
    <3>5. ASSUME NEW k \in 1..Len(todo)
          PROVE  AppliesOnce(k)'
      <4>1. todo[k].op = "restore" => todo[k].index <= snapshot'.last
        <5>1. todo[k].index \in Nat
          <6>1. todo[k] \in Write
            BY DEF TypeOK
          <6> QED
            BY <6>1 DEF Write
        <5>2. todo[k].op = "restore" => todo[k].index <= snapshot.last
          BY <1>i DEF StateWrites, AppliesOnce
        <5> QED
          BY <1>2, <2>4, <3>1, <5>1, <5>2
      <4> QED
        BY <1>i, <1>1, <4>1 DEF StateWrites, AppliesOnce
    <3>6. StateWrites'
      BY <1>1, <3>5 DEF StateWrites
    <3> QED
      BY <1>3, <2>2, <3>2, <3>3, <3>4, <3>6 DEF ApplyInv
  <2>5. snapshot' = snapshot \/ (/\ snapshot.last < builder.last
             /\ snapshot' = [last |-> builder.last, membership |-> Db.membership,
                             data |-> builder.data])
    BY <1>2, <1>6 DEF BuildDone
  <2> QED
    BY <2>3, <2>4, <2>5
<1> QED
  BY <1>4, <1>5, <1>6


\* What is found after a crash, and what is restored from it.
LEMMA CrashApplies ==
  ASSUME TypeOK, ApplyInv, Crash
  PROVE  ApplyInv'
<1>1. PICK k \in 1..Len(disks) : disks' = <<disks[k]>>
  BY DEF Crash
<1>2. /\ Len(disks') = 1 /\ disks'[1] = disks[k] /\ Db' = disks[k]
      /\ todo' = <<>> /\ state' = EmptyState /\ builder' = IdleBuilder /\ snapshot' = GetCurrentSnapshot
  BY <1>1 DEF Crash, Db
<1>3. Db'.applied \in Nat
  BY <1>2, DbType DEF Disk
<1>4. \A i \in Index : EmptyState[i] = 0
  BY DEF EmptyState
<1>5. UpToWrite' /\ StateWrites' /\ StateNotAhead'
  BY <1>2, <1>4 DEF UpToWrite, StateWrites, StateNotAhead
<1>6. SnapshotApplied' /\ BuilderNotAhead' /\ SnapshotNotAhead'
  BY <1>2, <1>3, <1>4 DEF SnapshotApplied, BuilderNotAhead, SnapshotNotAhead, GetCurrentSnapshot,
                          IdleBuilder
<1>7. NothingAppliedTwice'
  BY <1>2, <1>4 DEF ApplyInv, NothingAppliedTwice
<1> QED
  BY <1>5, <1>6, <1>7 DEF ApplyInv

LEMMA OpenApplies ==
  ASSUME TypeOK, ApplyInv, Open
  PROVE  ApplyInv'
<1>i. /\ UpToWrite /\ SnapshotApplied /\ BuilderNotAhead
      /\ NothingAppliedTwice /\ SnapshotNotAhead
  BY DEF ApplyInv
<1>1. /\ todo = <<>> /\ UNCHANGED <<disks, builder, snapshot>> /\ state' = Db.saved
      /\ up' /\ Db' = Db /\ snapshot.last <= Db.applied
  BY <1>i, Opened DEF Open, UpToWrite, SnapshotApplied, Db
<1>2. \A k \in 1..Len(todo') : todo'[k].op \in {"purged", "remove"}
  <2>1. CASE todo' \in PurgeLogsUpto(Db.applied)
    <3>1. PICK i, writes : i \in Nat /\ todo' = writes /\ writes \in PurgeLogsUpto(i)
      BY <2>1, Numbers
    <3>2. /\ Len(writes) > 0 /\ writes[1].op = "purged" /\ writes \in Seq(Write)
          /\ \A k \in 2..Len(writes) : writes[k].op = "remove"
      BY <3>1, PurgeWrites
    <3>3. \A k \in 1..Len(writes) : k = 1 \/ k \in 2..Len(writes)
      BY <3>2
    <3> QED
      BY <3>1, <3>2, <3>3
  <2> QED
    BY <2>1, Opened
<1>3. StateWrites' /\ UpToWrite'
  BY <1>1, <1>2 DEF StateWrites, AppliesOnce, UpToWrite
<1>4. \A i \in Index : Db.saved[i] <= 1 /\ (Db.saved[i] > 0 => i <= Db.applied)
  <2>1. ASSUME NEW i \in Index
        PROVE  Db.saved[i] <= (IF i <= Db.applied THEN 1 ELSE 0)
    <3>1. Len(disks) \in 1..Len(disks) /\ Db = disks[Len(disks)]
      BY DbType DEF Db
    <3> QED
      BY <1>i, <3>1 DEF NothingAppliedTwice
  <2>2. \A i \in Index : Db.saved[i] \in Nat
    BY Numbers
  <2> QED
    BY <2>1, <2>2
<1>5. StateNotAhead' /\ NothingAppliedTwice'
  BY <1>i, <1>1, <1>4 DEF StateNotAhead, NothingAppliedTwice
<1>6. SnapshotApplied' /\ BuilderNotAhead' /\ SnapshotNotAhead'
  BY <1>i, <1>1 DEF SnapshotApplied, BuilderNotAhead, SnapshotNotAhead
<1> QED
  BY <1>3, <1>5, <1>6 DEF ApplyInv

LEMMA ApplyStep == TypeOK /\ AllSound /\ ApplyInv /\ [Next]_vars => ApplyInv'
<1> SUFFICES ASSUME TypeOK, AllSound, ApplyInv, [Next]_vars
             PROVE  ApplyInv'
  OBVIOUS
<1>1. CASE Step
  BY <1>1, StepApply
<1>2. CASE CallSaveVote \/ CallAppend \/ CallDeleteConflict \/ CallApply \/ CallPurge
  BY <1>2, CallsApply
<1>3. CASE CallInstall
  BY <1>3, InstallApplies
<1>4. CASE Commit \/ UNCHANGED vars
  <2>1. UNCHANGED <<disks, state, todo, builder, snapshot, up>>
    BY <1>4 DEF Commit, vars
  <2> QED
    BY <2>1 DEF ApplyInv, UpToWrite, StateWrites, AppliesOnce, StateNotAhead, SnapshotApplied,
                BuilderNotAhead, NothingAppliedTwice, SnapshotNotAhead, Db
<1>5. CASE BuildData \/ BuildIndex \/ BuildDone
  BY <1>5, BuilderApplies
<1>6. CASE Crash
  BY <1>6, CrashApplies
<1>7. CASE Open
  BY <1>7, OpenApplies
<1> QED
  BY <1>1, <1>2, <1>3, <1>4, <1>5, <1>6, <1>7 DEF Next

LEMMA ApplyCorrect == Spec => [](TypeOK /\ AllSound /\ ApplyInv)
  BY InitSound, TypeStep, InitApply, ApplyStep, PTL DEF Spec

\* NothingAppliedTwiceCorrect: wherever the process is killed, the state it
\* restores has seen no command beyond last_applied and none twice, so replaying
\* the log from there on repeats nothing.
THEOREM NothingAppliedTwiceCorrect == Spec => []NothingAppliedTwice
<1>1. ApplyInv => NothingAppliedTwice
  BY DEF ApplyInv
<1> QED
  BY <1>1, ApplyCorrect, PTL

\* SnapshotNotAheadCorrect: although build_snapshot runs while entries are being
\* applied or a snapshot is being installed, none has seen more than it says.
THEOREM SnapshotNotAheadCorrect == Spec => []SnapshotNotAhead
<1>1. ApplyInv => SnapshotNotAhead
  BY DEF ApplyInv
<1> QED
  BY <1>1, ApplyCorrect, PTL

-----------------------------------------------------------------------------
(***************************************************************************)
(* The promises survive.                                                   *)
(***************************************************************************)
LEMMA InitPromise == Init => PromiseInv
<1> SUFFICES ASSUME Init
             PROVE  PromiseInv
  OBVIOUS
<1>1. /\ todo = <<>> /\ Db = EmptyDisk /\ Len(disks) = 1 /\ disks[1] = EmptyDisk
      /\ promised.vote = 0 /\ promised.log = EmptyDisk.log
  BY DEF Init, Db
<1>2. \A i \in Index : EmptyDisk.log[i] = NoEntry
  BY DEF EmptyDisk
<1>3. EmptyDisk.vote = 0 /\ EmptyDisk.purged = 0 /\ EmptyDisk.applied = 0
  BY DEF EmptyDisk
<1> QED
  BY <1>1, <1>2, <1>3 DEF PromiseInv, LogWrites, Settled, PurgedIsApplied, PromisesSurvive

\* The writes of the log that remain.
LEMMA StepLogWrites ==
  ASSUME TypeOK, AllSound, LogWrites, Step
  PROVE  LogWrites'
<1>t. /\ Len(todo) \in Nat \ {0} /\ Len(todo') = Len(todo) - 1
      /\ \A k \in 1..Len(todo') : k + 1 \in 1..Len(todo) /\ todo'[k] = todo[k + 1]
  BY StepTodo
<1> DEFINE w == todo[1]
<1>1. Becomes(Db, Db', w) /\ Db \in Disk
  BY StepDisks, DbType
<1>2. Db.purged \in Nat /\ KeepsPromises(1) /\ w.index \in Nat
  BY <1>t, <1>1 DEF Disk, LogWrites, AllSound, Sound, Write
<1>3. /\ Db'.purged \in Nat /\ Db.purged <= Db'.purged
      /\ w.op = "purged" => Db'.purged = w.index
  BY <1>1, <1>2 DEF Becomes, KeepsPromises
<1>4. ASSUME NEW k \in 1..Len(todo')
      PROVE  KeepsPromises(k)'
  <2>1. PICK m \in 1..Len(todo) : m = k + 1 /\ m > 1 /\ todo'[k] = todo[m] /\ k \in Nat
    BY <1>t
  <2>2. KeepsPromises(m) /\ todo[m].index \in Nat
    BY DEF LogWrites, AllSound, Sound, Write
  <2>3. promised' = promised
    BY <1>t DEF Step
  <2>4. todo'[Len(todo')] = todo[Len(todo)]
    BY <1>t
  <2>5. todo[m].op = "remove" => promised.log[todo[m].index] = NoEntry
                                 \/ todo[m].index <= Db'.purged
    BY <1>2, <1>3, <2>2 DEF KeepsPromises
  <2>6. todo[m].op # "purged"
    BY <2>1, <2>2 DEF KeepsPromises
  <2> QED
    BY <2>1, <2>2, <2>3, <2>4, <2>5, <2>6 DEF KeepsPromises
<1> QED
  BY <1>4 DEF LogWrites

\* Behind a flush only removals are left.
LEMMA StepSettled ==
  ASSUME TypeOK, AllSound, LogWrites, Settled, Step
  PROVE  Settled'
<1>t. /\ Len(todo) \in Nat \ {0} /\ Len(todo') = Len(todo) - 1
      /\ \A k \in 1..Len(todo') : k + 1 \in 1..Len(todo) /\ todo'[k] = todo[k + 1]
      /\ todo # <<>>
  BY StepTodo DEF Step
<1> DEFINE w == todo[1]
<1>1. /\ Becomes(Db, Db', w)
      /\ \A k \in 1..Len(disks') :
           disks'[k] = Db' \/ \E j \in 1..Len(disks) : disks'[k] = disks[j]
      /\ w.op = "flush" => \A k \in 1..Len(disks') : disks'[k] = Db'
  BY StepDisks
<1> SUFFICES ASSUME todo' = <<>> \/ todo'[Len(todo')].op # "flush"
             PROVE  \A k \in 1..Len(disks') :
                      /\ disks'[k].vote = Db'.vote
                      /\ \A i \in Index : Db'.log[i] # NoEntry => disks'[k].log[i] = Db'.log[i]
  BY DEF Settled
<1>2. CASE w.op = "flush"
  BY <1>1, <1>2
<1>3. CASE w.op # "flush"
  <2>1. todo[Len(todo)].op # "flush"
    <3>1. CASE Len(todo) = 1
      BY <1>3, <3>1
    <3>2. CASE Len(todo) # 1
      <4>1. todo' # <<>> /\ todo'[Len(todo')] = todo[Len(todo)]
        BY <1>t, <3>2
      <4> QED
        BY <4>1
    <3> QED
      BY <3>1, <3>2
  <2>2. w.op \in {"remove", "purged"}
    BY <1>t, <2>1 DEF LogWrites, KeepsPromises
  <2>3. \A k \in 1..Len(disks) :
          /\ disks[k].vote = Db.vote
          /\ \A i \in Index : Db.log[i] # NoEntry => disks[k].log[i] = Db.log[i]
    BY <1>t, <2>1 DEF Settled
  <2>4. /\ Db'.vote = Db.vote
        /\ \A i \in Index : Db'.log[i] # NoEntry => Db'.log[i] = Db.log[i]
    BY <1>1, <2>2 DEF Becomes
  <2> QED
    BY <1>1, <2>3, <2>4
<1> QED
  BY <1>2, <1>3

\* A write leaves what is promised.
LEMMA StepKeeps ==
  ASSUME TypeOK, AllSound, LogWrites, PromisesSurvive, Step
  PROVE  /\ Db'.vote >= promised.vote
         /\ \A i \in Index : promised.log[i] # NoEntry /\ i > Db'.purged
                               => Db'.log[i] = promised.log[i]
<1>t. Len(todo) \in Nat \ {0} /\ Len(disks) \in 1..Len(disks) /\ Db = disks[Len(disks)]
  BY StepTodo, DbType DEF Db
<1> DEFINE w == todo[1]
<1>1. Becomes(Db, Db', w)
  BY StepDisks
<1>2. KeepsPromises(1) /\ w.index \in Nat
  BY <1>t DEF LogWrites, AllSound, Sound, Write
<1>3. Db.purged \in Nat /\ promised.vote \in 0..MaxVote
  BY DbType DEF Disk, TypeOK
<1>4. Db'.vote >= promised.vote
  <2>1. Db.vote >= promised.vote
    BY <1>t DEF PromisesSurvive
  <2> QED
    BY <1>1, <1>2, <1>3, <2>1 DEF Becomes, KeepsPromises
<1>5. Db.purged <= Db'.purged /\ Db'.purged \in Nat
  BY <1>1, <1>2, <1>3 DEF Becomes, KeepsPromises
<1>6. ASSUME NEW i \in Index, promised.log[i] # NoEntry, i > Db'.purged
      PROVE  Db'.log[i] = promised.log[i]
  <2>1. i > Db.purged /\ i \in Nat
    BY <1>3, <1>5, <1>6 DEF Index
  <2>2. Db.log[i] = promised.log[i]
    BY <1>t, <1>6, <2>1 DEF PromisesSurvive
  <2>3. ~ (w.op \in {"put", "remove"} /\ i = w.index)
    BY <1>2, <1>3, <1>6, <2>1 DEF KeepsPromises
  <2>4. Db'.log[i] = Db.log[i]
    BY <1>1, <2>3 DEF Becomes
  <2> QED
    BY <2>2, <2>4
<1> QED
  BY <1>4, <1>6

LEMMA StepPromise ==
  ASSUME TypeOK, AllSound, StateWrites, PromiseInv, Step
  PROVE  PromiseInv'
<1>i. LogWrites /\ Settled /\ PurgedIsApplied /\ PromisesSurvive
  BY DEF PromiseInv
<1>1. LogWrites' /\ Settled'
  BY <1>i, StepLogWrites, StepSettled
<1>t. /\ Len(todo) \in Nat \ {0} /\ Len(todo') = Len(todo) - 1
      /\ Len(disks) \in 1..Len(disks) /\ Db = disks[Len(disks)] /\ Db \in Disk
  BY StepTodo, DbType DEF Db
<1> DEFINE w == todo[1]
<1>2. /\ Becomes(Db, Db', w)
      /\ \A k \in 1..Len(disks') :
           disks'[k] = Db' \/ \E j \in 1..Len(disks) : disks'[k] = disks[j]
  BY StepDisks
<1>3. KeepsPromises(1) /\ AppliesOnce(1) /\ Sound(w)
  BY <1>i, <1>t DEF LogWrites, StateWrites, AllSound
<1>4. /\ Db.purged \in Nat /\ Db.applied \in Nat /\ w.index \in Nat
      /\ Db.purged <= Db.applied
  BY <1>i, <1>t, <1>3 DEF Disk, Sound, Write, PurgedIsApplied
<1>5. PurgedIsApplied'
  <2>1. Db'.purged <= Db'.applied
    BY <1>2, <1>3, <1>4 DEF Becomes, KeepsPromises, AppliesOnce
  <2> QED
    BY <1>i, <1>2, <2>1 DEF PurgedIsApplied
<1>6. PromisesSurvive'
  <2>1. CASE Len(todo) = 1
    <3>1. promised'.log = Db'.log /\ promised'.vote = Db'.vote /\ todo' = <<>>
      <4>1. promised'.log = Db'.log /\ promised'.vote = Db'.vote
        BY <2>1 DEF Step
      <4>2. Len(todo') = 0 /\ todo' \in Seq(Write)
        BY <1>t, <2>1, StepTodo
      <4>3. todo' = <<>>
        BY <4>2, EmptySeq
      <4> QED
        BY <4>1, <4>3
    <3>2. \A k \in 1..Len(disks') :
            /\ disks'[k].vote = Db'.vote
            /\ \A i \in Index : Db'.log[i] # NoEntry => disks'[k].log[i] = Db'.log[i]
      BY <1>1, <3>1 DEF Settled
    <3>3. Db'.vote >= Db'.vote
      <4>1. Db'.vote \in 0..MaxVote
        BY StepDisks DEF Disk
      <4> QED
        BY <4>1
    <3> QED
      BY <3>1, <3>2, <3>3 DEF PromisesSurvive
  <2>2. CASE Len(todo) # 1
    <3>1. promised' = promised
      BY <2>2 DEF Step
    <3>2. /\ Db'.vote >= promised.vote
          /\ \A i \in Index : promised.log[i] # NoEntry /\ i > Db'.purged
                                => Db'.log[i] = promised.log[i]
      BY <1>i, StepKeeps
    <3> QED
      BY <1>i, <1>2, <3>1, <3>2 DEF PromisesSurvive
  <2> QED
    BY <2>1, <2>2
<1> QED
  BY <1>1, <1>5, <1>6 DEF PromiseInv


\* A call that is made between two calls, and takes back no promise.
LEMMA CallPromises ==
  ASSUME TypeOK, PromiseInv, todo = <<>>, UNCHANGED <<disks, promised>>, LogWrites'
  PROVE  PromiseInv'
<1>i. LogWrites /\ Settled /\ PurgedIsApplied /\ PromisesSurvive
  BY DEF PromiseInv
<1>1. Settled'
  BY <1>i DEF Settled, Db
<1>2. PurgedIsApplied' /\ PromisesSurvive'
  BY <1>i DEF PurgedIsApplied, PromisesSurvive
<1> QED
  BY <1>1, <1>2 DEF PromiseInv

\* What is purged is applied, and what is removed is purged.
LEMMA PurgePromises ==
  ASSUME TypeOK, UNCHANGED disks, NEW i \in Nat, todo' \in PurgeLogsUpto(i),
         Db.purged <= i, i <= Db.applied
  PROVE  LogWrites'
<1>1. PICK writes : todo' = writes /\ writes \in PurgeLogsUpto(i)
  OBVIOUS
<1>2. /\ Len(writes) > 0 /\ writes[1].op = "purged" /\ writes[1].index = i
      /\ writes \in Seq(Write)
      /\ \A k \in 2..Len(writes) : writes[k].op = "remove" /\ writes[k].index <= i
  BY <1>1, PurgeWrites
<1>3. \A k \in 1..Len(writes) : k = 1 \/ k \in 2..Len(writes)
  BY <1>2
<1>4. Db' = Db
  BY DEF Db
<1>5. ASSUME NEW k \in 1..Len(todo')
      PROVE  KeepsPromises(k)'
  <2>1. CASE k = 1
    BY <1>1, <1>2, <1>4, <2>1 DEF KeepsPromises
  <2>2. CASE k \in 2..Len(todo')
    BY <1>1, <1>2, <2>2 DEF KeepsPromises
  <2> QED
    BY <1>1, <1>3, <2>1, <2>2
<1> QED
  BY <1>5 DEF LogWrites

\* An index behind the last log id has been promised to nobody.
LEMMA Unpromised ==
  ASSUME TypeOK, PromisesSurvive, NEW i \in Index, i > LastLogId(Db)
  PROVE  promised.log[i] = NoEntry
<1>1. /\ Db \in Disk /\ Len(disks) \in 1..Len(disks) /\ Db = disks[Len(disks)]
      /\ i \in Nat
  BY DbType DEF Db, Index
<1>2. /\ LastIndex(Db) \in Nat /\ LastLogId(Db) \in Nat /\ Db.purged \in Nat
      /\ \A j \in Present(Db) : j <= LastIndex(Db)
      /\ LastIndex(Db) <= LastLogId(Db) /\ Db.purged <= LastLogId(Db)
  BY <1>1, LastIndexType DEF Disk
<1>3. Db.log[i] = NoEntry
  BY <1>1, <1>2 DEF Present
<1>4. i > Db.purged
  BY <1>1, <1>2
<1> QED
  BY <1>1, <1>3, <1>4 DEF PromisesSurvive

LEMMA VotePromises ==
  ASSUME TypeOK, PromiseInv, CallSaveVote
  PROVE  PromiseInv'
<1>1. /\ todo = <<>> /\ UNCHANGED <<disks, promised>>
      /\ Len(todo') = 2 /\ todo'[1].op = "vote" /\ todo'[2].op = "flush"
      /\ todo'[1].index = Db.vote + 1
  BY VoteCalled
<1>2. Db.vote >= promised.vote
  BY DbType DEF PromiseInv, PromisesSurvive, Db
<1>3. Db.vote \in 0..MaxVote /\ promised.vote \in 0..MaxVote
  BY DbType DEF Disk, TypeOK
<1>4. promised.vote <= Db.vote + 1
  BY <1>2, <1>3
<1>5. KeepsPromises(1)' /\ KeepsPromises(2)'
  BY <1>1, <1>4 DEF KeepsPromises
<1>6. \A k \in 1..Len(todo') : k = 1 \/ k = 2
  BY <1>1
<1>7. LogWrites'
  BY <1>5, <1>6 DEF LogWrites
<1> QED
  BY <1>1, <1>7, CallPromises

LEMMA AppendPromises ==
  ASSUME TypeOK, PromiseInv, CallAppend
  PROVE  PromiseInv'
<1>1. todo = <<>> /\ UNCHANGED <<disks, promised>>
  BY AppendCalled
<1>2. PICK n \in Nat : /\ Len(todo') = n + 1 /\ todo'[n + 1].op = "flush"
                       /\ \A k \in 1..n : /\ todo'[k].op = "put"
                                          /\ todo'[k].index \in Index
                                          /\ todo'[k].index > LastLogId(Db)
  BY AppendCalled
<1>3. ASSUME NEW k \in 1..n
      PROVE  promised.log[todo'[k].index] = NoEntry
  BY <1>2, Unpromised DEF PromiseInv
<1>4. ASSUME NEW k \in 1..Len(todo')
      PROVE  KeepsPromises(k)'
  <2>1. k \in 1..n \/ k = n + 1
    BY <1>2
  <2>2. CASE k \in 1..n
    BY <1>1, <1>2, <1>3, <2>2 DEF KeepsPromises
  <2>3. CASE k = n + 1
    BY <1>2, <2>3 DEF KeepsPromises
  <2> QED
    BY <2>1, <2>2, <2>3
<1>5. LogWrites'
  BY <1>4 DEF LogWrites
<1> QED
  BY <1>1, <1>5, CallPromises

\* The entries a new leader replaces are no longer relied on.
LEMMA DeletePromises ==
  ASSUME TypeOK, PromiseInv, CallDeleteConflict
  PROVE  PromiseInv'
<1>i. LogWrites /\ Settled /\ PurgedIsApplied /\ PromisesSurvive
  BY DEF PromiseInv
<1>1. todo = <<>> /\ disks' = disks /\ Db' = Db
  BY DeleteCalled DEF Db
<1>2. PICK i \in Index :
        /\ promised' = [promised EXCEPT
             !.log = [j \in Index |-> IF j < i THEN @[j] ELSE NoEntry]]
        /\ \A k \in 1..Len(todo') : /\ todo'[k].op = "remove"
                                    /\ todo'[k].index \in Index
                                    /\ todo'[k].index >= i
  BY DeleteCalled
<1>3. /\ promised'.vote = promised.vote
      /\ \A j \in Index : promised'.log[j] = IF j < i THEN promised.log[j] ELSE NoEntry
  BY <1>2 DEF TypeOK
<1>4. PromisesSurvive'
  BY <1>i, <1>1, <1>3 DEF PromisesSurvive
<1>5. ASSUME NEW k \in 1..Len(todo')
      PROVE  KeepsPromises(k)'
  <2>1. /\ todo'[k].op = "remove" /\ todo'[k].index \in Index
        /\ ~ (todo'[k].index < i)
    BY <1>2 DEF Index
  <2>2. promised'.log[todo'[k].index] = NoEntry
    BY <1>3, <2>1
  <2> QED
    BY <2>1, <2>2 DEF KeepsPromises
<1>6. LogWrites'
  BY <1>5 DEF LogWrites
<1>7. Settled' /\ PurgedIsApplied'
  BY <1>i, <1>1 DEF Settled, PurgedIsApplied
<1> QED
  BY <1>4, <1>6, <1>7 DEF PromiseInv

\* Calls that write neither the log nor the vote, and end in a flush.
LEMMA OtherPromises ==
  ASSUME TypeOK, PromiseInv, CallApply \/ CallInstall
  PROVE  PromiseInv'
<1>1. todo = <<>> /\ UNCHANGED <<disks, promised>>
  BY ApplyCalled, InstallCalled
<1>2. /\ todo'[Len(todo')].op = "flush"
      /\ \A k \in 1..Len(todo') :
           todo'[k].op \in {"restore", "applied", "membership", "run", "save", "flush"}
  <2>1. CASE CallApply
    <3>1. PICK first \in Nat, last \in Nat :
            first <= last /\ todo' = ApplyToStateMachine(first, last)
      BY <2>1, ApplyCalled DEF Index
    <3>n. PICK n \in Nat : n = 2 * (last - first + 1)
      BY <3>1
    <3>2. PICK writes : /\ todo' = writes /\ writes = ApplyToStateMachine(first, last)
                        /\ n \in Nat /\ n = 2 * (last - first + 1)
      BY <3>1, <3>n
    <3>3. /\ Len(writes) = n + 2
          /\ \A k \in 1..n : writes[k].op \in {"applied", "membership", "run"}
          /\ writes[n + 1].op = "save" /\ writes[n + 2].op = "flush"
      <4>1. LET w == ApplyToStateMachine(first, last)
                m == 2 * (last - first + 1)
            IN  /\ m \in Nat /\ w \in Seq(Write) /\ Len(w) = m + 2
                /\ \A k \in 1..m :
                     /\ w[k].op \in {"applied", "membership", "run"}
                     /\ w[k].op = "applied" <=> k % 2 = 1
                     /\ w[k].index = first + (k - 1) \div 2
                /\ w[m + 1].op = "save" /\ w[m + 2].op = "flush"
        BY <3>1, ApplyWrites, Zenon
      <4> QED
        BY <3>2, <4>1
    <3>4. \A k \in 1..Len(writes) : k \in 1..n \/ k = n + 1 \/ k = n + 2
      BY <3>3
    <3> QED
      BY <3>2, <3>3, <3>4
  <2>2. CASE CallInstall
    <3>1. /\ Len(todo') = 5 /\ todo'[1].op = "restore" /\ todo'[2].op = "applied"
          /\ todo'[3].op = "membership" /\ todo'[4].op = "save" /\ todo'[5].op = "flush"
      BY <2>2, InstallCalled
    <3>2. \A k \in 1..Len(todo') : k \in {1, 2, 3, 4, 5}
      BY <3>1
    <3> QED
      BY <3>1, <3>2
  <2> QED
    BY <2>1, <2>2
<1>3. LogWrites'
  BY <1>2 DEF LogWrites, KeepsPromises
<1> QED
  BY <1>1, <1>3, CallPromises

\* A crash leaves one of the disks; on opening it the log is purged up to what
\* is applied, or nothing is written.
LEMMA CrashPromises ==
  ASSUME TypeOK, PromiseInv, Crash
  PROVE  PromiseInv'
<1>1. PICK k \in 1..Len(disks) : disks' = <<disks[k]>>
  BY DEF Crash
<1>2. /\ Len(disks') = 1 /\ disks'[1] = disks[k] /\ Db' = disks[k]
      /\ todo' = <<>> /\ promised' = promised
  BY <1>1 DEF Crash, Db
<1>3. LogWrites' /\ Settled'
  BY <1>2 DEF LogWrites, Settled
<1>4. PurgedIsApplied' /\ PromisesSurvive'
  BY <1>2 DEF PromiseInv, PurgedIsApplied, PromisesSurvive
<1> QED
  BY <1>3, <1>4 DEF PromiseInv

LEMMA OpenPromises ==
  ASSUME TypeOK, PromiseInv, UpToWrite, Open
  PROVE  PromiseInv'
<1>1. todo = <<>> /\ UNCHANGED <<disks, promised>>
  BY Opened DEF UpToWrite
<1>2. CASE todo' = <<>>
  <2>1. LogWrites'
    BY <1>2 DEF LogWrites
  <2> QED
    BY <1>1, <2>1, CallPromises
<1>3. CASE todo' \in PurgeLogsUpto(Db.applied)
  <2>1. Db.applied \in Nat /\ Db.purged <= Db.applied /\ Db.applied <= Db.applied
    <3>1. Db.applied \in Nat /\ Len(disks) \in 1..Len(disks) /\ Db = disks[Len(disks)]
      BY Numbers, DbType DEF Db
    <3> QED
      BY <3>1 DEF PromiseInv, PurgedIsApplied
  <2>2. LogWrites'
    BY <1>1, <1>3, <2>1, PurgePromises
  <2> QED
    BY <1>1, <2>2, CallPromises
<1> QED
  BY <1>2, <1>3, Opened

LEMMA PromiseStep ==
  TypeOK /\ AllSound /\ ApplyInv /\ PromiseInv /\ [Next]_vars => PromiseInv'
<1> SUFFICES ASSUME TypeOK, AllSound, ApplyInv, PromiseInv, [Next]_vars
             PROVE  PromiseInv'
  OBVIOUS
<1>1. CASE Step
  BY <1>1, StepPromise DEF ApplyInv
<1>2. CASE CallSaveVote
  BY <1>2, VotePromises
<1>3. CASE CallAppend
  BY <1>3, AppendPromises
<1>4. CASE CallDeleteConflict
  BY <1>4, DeletePromises
<1>5. CASE CallApply \/ CallInstall
  BY <1>5, OtherPromises
<1>6. CASE CallPurge
  <2>1. todo = <<>> /\ UNCHANGED <<disks, promised>>
    BY <1>6, PurgeCalled
  <2>2. PICK i \in 0..MaxIndex : /\ Db.purged < i /\ i <= snapshot.last
                                 /\ todo' \in PurgeLogsUpto(i)
    BY <1>6, PurgeCalled
  <2>3. snapshot.last <= Db.applied
    BY <2>1 DEF ApplyInv, SnapshotApplied
  <2>4. i \in Nat /\ Db.purged <= i /\ i <= Db.applied
    <3>1. i \in Nat /\ Db.purged \in Nat /\ Db.applied \in Nat /\ snapshot.last \in Nat
      BY Numbers, DbType DEF Disk
    <3> QED
      BY <2>2, <2>3, <3>1
  <2>5. LogWrites'
    BY <2>1, <2>2, <2>4, PurgePromises
  <2> QED
    BY <2>1, <2>5, CallPromises
<1>7. CASE Commit \/ BuildData \/ BuildIndex \/ BuildDone \/ UNCHANGED vars
  <2>1. UNCHANGED <<disks, todo, promised>>
    BY <1>7 DEF Commit, BuildData, BuildIndex, BuildDone, vars
  <2> QED
    BY <2>1 DEF PromiseInv, LogWrites, KeepsPromises, Settled, PurgedIsApplied,
                PromisesSurvive, Db
<1>8. CASE Crash
  BY <1>8, CrashPromises
<1>9. CASE Open
  BY <1>9, OpenPromises DEF ApplyInv
<1> QED
  BY <1>1, <1>2, <1>3, <1>4, <1>5, <1>6, <1>7, <1>8, <1>9 DEF Next

LEMMA PromiseCorrect == Spec => [](TypeOK /\ AllSound /\ ApplyInv /\ PromiseInv)
  BY InitSound, TypeStep, InitApply, ApplyStep, InitPromise, PromiseStep, PTL DEF Spec

\* PromisesSurviveCorrect: at every point at which the process may be killed, the
\* disk that is found has the votes and the entries openraft was told are stored,
\* but for entries that were purged, which are applied, or given up.
THEOREM PromisesSurviveCorrect == Spec => []PromisesSurvive
<1>1. PromiseInv => PromisesSurvive
  BY DEF PromiseInv
<1> QED
  BY <1>1, PromiseCorrect, PTL

\* PurgedIsAppliedCorrect: wherever the process is killed, also within
\* purge_logs_upto, an entry that is purged has been applied.
THEOREM PurgedIsAppliedCorrect == Spec => []PurgedIsApplied
<1>1. PromiseInv => PurgedIsApplied
  BY DEF PromiseInv
<1> QED
  BY <1>1, PromiseCorrect, PTL

\* What a new leader replaces is behind an entry that is not committed.
LEMMA DeleteKeeps ==
  ASSUME TypeOK, CallDeleteConflict, NEW i \in Index, promised'.log[i] # promised.log[i]
  PROVE  /\ todo = <<>> /\ promised'.vote = promised.vote
         /\ \E j \in Present(Db) :
              j <= i /\ ~ (j <= Len(chosen) /\ Db.log[j] = chosen[j])
<1>1. PICK j \in Present(Db) :
        /\ j <= Len(chosen) => Db.log[j] # chosen[j]
        /\ promised' = [promised EXCEPT
             !.log = [k \in Index |-> IF k < j THEN @[k] ELSE NoEntry]]
  BY DEF CallDeleteConflict
<1>2. /\ promised'.vote = promised.vote
      /\ promised'.log[i] = IF i < j THEN promised.log[i] ELSE NoEntry
  BY <1>1 DEF TypeOK
<1>3. j \in Nat /\ i \in Nat
  BY DEF Present, Index
<1>4. j <= i
  BY <1>2, <1>3
<1> QED
  BY <1>1, <1>2, <1>4, DeleteCalled

LEMMA KeptStep ==
  ASSUME TypeOK, AllSound, PromiseInv, [Next]_vars
  PROVE  /\ promised.vote <= promised'.vote
         /\ \A i \in Index :
              promised.log[i] # NoEntry /\ promised'.log[i] # promised.log[i] =>
                \/ i <= Db'.purged
                \/ /\ todo = <<>>
                   /\ \E j \in Present(Db) :
                        j <= i /\ ~ (j <= Len(chosen) /\ Db.log[j] = chosen[j])
<1>1. promised.vote \in 0..MaxVote /\ promised.vote <= promised.vote
  BY DEF TypeOK
<1>2. CASE promised' = promised
  BY <1>1, <1>2
<1>3. CASE Step /\ promised' # promised
  <2>1. promised'.log = Db'.log /\ promised'.vote = Db'.vote
    BY <1>3 DEF Step
  <2>2. /\ Db'.vote >= promised.vote
        /\ \A i \in Index : promised.log[i] # NoEntry /\ i > Db'.purged
                              => Db'.log[i] = promised.log[i]
    BY <1>3, StepKeeps DEF PromiseInv
  <2>3. Db'.vote \in 0..MaxVote /\ Db'.purged \in 0..MaxIndex
    BY <1>3, StepDisks DEF Disk
  <2>4. promised.vote <= promised'.vote
    BY <1>1, <2>1, <2>2, <2>3
  <2>5. \A i \in Index : i \in Nat
    BY Numbers
  <2> QED
    BY <2>1, <2>2, <2>3, <2>4, <2>5
<1>4. CASE CallDeleteConflict
  <2>1. promised'.vote = promised.vote
    BY <1>4, DeleteCalled DEF TypeOK
  <2> QED
    BY <1>1, <1>4, <2>1, DeleteKeeps
<1>5. promised' = promised \/ (Step /\ promised' # promised) \/ CallDeleteConflict
  BY DEF Next, CallSaveVote, CallAppend, CallApply, CallInstall, CallPurge, Commit, BuildData,
         BuildIndex, BuildDone, Crash, Open, vars
<1> QED
  BY <1>2, <1>3, <1>4, <1>5

\* PromisesAreKeptCorrect: no call, wherever it stands, drops a vote or an entry
\* that an earlier one has returned for, unless it is purged or not committed.
THEOREM PromisesAreKeptCorrect == Spec => PromisesAreKept
<1> DEFINE Kept == /\ promised.vote <= promised'.vote
                   /\ \A i \in Index :
                        promised.log[i] # NoEntry /\ promised'.log[i] # promised.log[i] =>
                          \/ i <= Db'.purged
                          \/ /\ todo = <<>>
                             /\ \E j \in Present(Db) :
                                  j <= i /\ ~ (j <= Len(chosen) /\ Db.log[j] = chosen[j])
<1>1. TypeOK /\ AllSound /\ ApplyInv /\ PromiseInv /\ [Next]_vars => Kept
  BY KeptStep
<1>2. PromisesAreKept <=> [][Kept]_vars
  BY DEF PromisesAreKept
<1> HIDE DEF Kept
<1> QED
  BY <1>1, <1>2, PromiseCorrect, PTL DEF Spec

-----------------------------------------------------------------------------
(***************************************************************************)
(* What was applied survives.                                              *)
(***************************************************************************)
IsCommand(i) == i <= Len(chosen) /\ chosen[i] \notin MembershipEntry

\* What runs a command or receives a state saves the state after it, just before
\* the flush that ends the call.
SavesAfter(k) ==
  todo[k].op \in {"run", "restore"} => k < Len(todo) - 1 /\ todo[Len(todo) - 1].op = "save"

\* Where no save is to come, the state is the saved one.
SavedIsState ==
  up /\ (Len(todo) < 2 \/ todo[Len(todo) - 1].op # "save") => \A i \in Index : Db.saved[i] = state[i]

\* Where no flush is to come, every disk has the saved state.
SavedIsDurable ==
  todo = <<>> \/ todo[Len(todo)].op # "flush" =>
    \A k \in 1..Len(disks), i \in Index : disks[k].saved[i] = Db.saved[i]

\* Only commands are run, and only those the cluster has committed; a state that
\* is received has seen them too.
CommandsOnly ==
  /\ \A i \in Index : state[i] > 0 => IsCommand(i)
  /\ \A k \in 1..Len(disks), i \in Index : disks[k].saved[i] > 0 => IsCommand(i)
  /\ \A k \in 1..Len(todo) :
       /\ todo[k].op = "run" => IsCommand(todo[k].index)
       /\ todo[k].op = "restore" => todo[k].index <= Len(chosen)

\* A process that runs has what openraft relies on, and a state that is about to
\* replace it has that, too.
StateHasPromised ==
  /\ up => \A i \in Index : promised.state[i] <= state[i]
  /\ todo # <<>> /\ todo[1].op = "restore" =>
       \A i \in Index : promised.state[i] > 0 => i <= todo[1].index /\ IsCommand(i)

SurviveInv == /\ \A k \in 1..Len(todo) : SavesAfter(k)
              /\ SavedIsState /\ SavedIsDurable /\ CommandsOnly
              /\ StateHasPromised /\ AppliedSurvives

LEMMA InitSurvive == Init => SurviveInv
<1> SUFFICES ASSUME Init
             PROVE  SurviveInv
  OBVIOUS
<1>1. /\ todo = <<>> /\ Db = EmptyDisk /\ Len(disks) = 1 /\ disks[1] = EmptyDisk
      /\ state = EmptyState /\ ~ up /\ promised.state = EmptyState
  BY DEF Init, Db
<1>2. EmptyDisk.saved = EmptyState /\ \A i \in Index : EmptyState[i] = 0
  BY DEF EmptyDisk, EmptyState
<1> QED
  BY <1>1, <1>2 DEF SurviveInv, SavedIsState, SavedIsDurable, CommandsOnly, StateHasPromised,
                    AppliedSurvives

\* The states and what is promised of them.
LEMMA SavedNumbers ==
  ASSUME TypeOK
  PROVE  /\ state \in [Index -> Nat] /\ promised.state \in [Index -> Nat]
         /\ \A k \in 1..Len(disks) : disks[k].saved \in [Index -> Nat]
         /\ Db.saved \in [Index -> Nat] /\ Len(disks) \in 1..Len(disks)
<1>1. /\ state \in [Index -> Nat] /\ promised.state \in [Index -> Nat]
      /\ Len(disks) \in Nat \ {0}
  BY DbType DEF TypeOK, States
<1>2. ASSUME NEW d \in Disk
      PROVE  d.saved \in [Index -> Nat]
  BY DEF Disk, States
<1> QED
  BY <1>1, <1>2, DbType

-----------------------------------------------------------------------------
\* The writes that remain still save what they have to.
LEMMA StepSaves ==
  ASSUME TypeOK, AllSound, PromiseInv, SurviveInv, Step
  PROVE  /\ \A k \in 1..Len(todo') : SavesAfter(k)'
         /\ SavedIsState' /\ SavedIsDurable'
<1>t. /\ Len(todo) \in Nat \ {0} /\ Len(todo') = Len(todo) - 1
      /\ \A k \in 1..Len(todo') : k + 1 \in 1..Len(todo) /\ todo'[k] = todo[k + 1]
      /\ todo # <<>> /\ up' = up /\ 1 \in 1..Len(todo) /\ Len(todo) \in 1..Len(todo)
  BY StepTodo DEF Step
<1> DEFINE w == todo[1]
<1>1. /\ Becomes(Db, Db', w)
      /\ \A k \in 1..Len(disks') :
           disks'[k] = Db' \/ \E j \in 1..Len(disks) : disks'[k] = disks[j]
      /\ w.op = "flush" => \A k \in 1..Len(disks') : disks'[k] = Db'
  BY StepDisks
<1>2. w.op \notin {"run", "restore"} => state' = state
  BY StepState
<1>3. SavesAfter(1) /\ KeepsPromises(1)
  BY <1>t DEF SurviveInv, PromiseInv, LogWrites
<1>4. w.op \notin {"remove", "purged"} => todo[Len(todo)].op = "flush"
  BY <1>3 DEF KeepsPromises
<1>5. ASSUME Len(todo) >= 2
      PROVE  todo'[Len(todo')] = todo[Len(todo)]
  BY <1>t, <1>5
<1>6. ASSUME Len(todo) >= 3
      PROVE  todo'[Len(todo') - 1] = todo[Len(todo) - 1]
  <2>1. Len(todo') - 1 \in 1..Len(todo') /\ (Len(todo') - 1) + 1 = Len(todo) - 1
    BY <1>t, <1>6
  <2> QED
    BY <1>t, <2>1
<1>7. ASSUME NEW k \in 1..Len(todo')
      PROVE  SavesAfter(k)'
  <2>1. SavesAfter(k + 1) /\ todo'[k] = todo[k + 1]
    BY <1>t DEF SurviveInv
  <2>2. CASE todo'[k].op \in {"run", "restore"}
    <3>1. k + 1 < Len(todo) - 1 /\ todo[Len(todo) - 1].op = "save"
      BY <2>1, <2>2 DEF SavesAfter
    <3> QED
      BY <1>t, <1>6, <3>1 DEF SavesAfter
  <2> QED
    BY <2>2 DEF SavesAfter
<1>8. SavedIsState'
  <2> SUFFICES ASSUME up', Len(todo') < 2 \/ todo'[Len(todo') - 1].op # "save"
               PROVE  \A i \in Index : Db'.saved[i] = state'[i]
    BY DEF SavedIsState
  <2>1. w.op \notin {"run", "restore"}
    <3> SUFFICES ASSUME w.op \in {"run", "restore"}
                 PROVE  FALSE
      OBVIOUS
    <3>1. 1 < Len(todo) - 1 /\ todo[Len(todo) - 1].op = "save"
      BY <1>3 DEF SavesAfter
    <3> QED
      BY <1>t, <1>6, <3>1
  <2>2. CASE w.op = "save"
    BY <1>1, <1>2, <2>2 DEF Becomes
  <2>3. CASE w.op # "save"
    <3>1. Len(todo) < 2 \/ todo[Len(todo) - 1].op # "save"
      <4>1. CASE Len(todo) >= 3
        BY <1>t, <1>6, <4>1
      <4>2. CASE Len(todo) = 2
        BY <2>3, <4>2
      <4> QED
        BY <1>t, <4>1, <4>2
    <3>2. \A i \in Index : Db.saved[i] = state[i]
      BY <1>t, <3>1 DEF SurviveInv, SavedIsState
    <3> QED
      BY <1>1, <1>2, <2>1, <2>3, <3>2 DEF Becomes
  <2> QED
    BY <2>2, <2>3
<1>9. SavedIsDurable'
  <2> SUFFICES ASSUME todo' = <<>> \/ todo'[Len(todo')].op # "flush"
               PROVE  \A k \in 1..Len(disks'), i \in Index : disks'[k].saved[i] = Db'.saved[i]
    BY DEF SavedIsDurable
  <2>1. CASE w.op = "flush"
    BY <1>1, <2>1
  <2>2. CASE w.op # "flush"
    <3>1. todo[Len(todo)].op # "flush"
      <4>1. CASE Len(todo) = 1
        BY <2>2, <4>1
      <4>2. CASE Len(todo) # 1
        <5>1. Len(todo) >= 2 /\ todo' # <<>>
          BY <1>t, <4>2
        <5> QED
          BY <1>5, <5>1
      <4> QED
        BY <4>1, <4>2
    <3>2. w.op \in {"remove", "purged"}
      BY <1>4, <3>1
    <3>3. Db'.saved = Db.saved
      BY <1>1, <3>2 DEF Becomes
    <3>4. \A k \in 1..Len(disks), i \in Index : disks[k].saved[i] = Db.saved[i]
      BY <3>1 DEF SurviveInv, SavedIsDurable
    <3> QED
      BY <1>1, <3>3, <3>4
  <2> QED
    BY <2>1, <2>2
<1> QED
  BY <1>7, <1>8, <1>9

\* A write runs a command, or leaves a state that has seen commands only.
LEMMA StepCommands ==
  ASSUME TypeOK, AllSound, SurviveInv, Step
  PROVE  CommandsOnly'
<1>t. /\ Len(todo) \in Nat \ {0} /\ Len(todo') = Len(todo) - 1
      /\ \A k \in 1..Len(todo') : k + 1 \in 1..Len(todo) /\ todo'[k] = todo[k + 1]
      /\ chosen' = chosen /\ 1 \in 1..Len(todo)
  BY StepTodo DEF Step
<1>n. Len(chosen) \in Nat /\ MaxIndex \in Nat /\ \A i \in Index : i \in Nat
  BY EntriesAssumption DEF TypeOK, Index
<1> DEFINE w == todo[1]
<1>1. /\ Becomes(Db, Db', w)
      /\ \A k \in 1..Len(disks') :
           disks'[k] = Db' \/ \E j \in 1..Len(disks) : disks'[k] = disks[j]
  BY StepDisks
<1>2. /\ w.op = "run" => state' = [state EXCEPT ![w.index] = @ + 1]
      /\ w.op = "restore" => state' = StateAt(w.index)
      /\ w.op \notin {"run", "restore"} => state' = state
  BY StepState
<1>3. Sound(w) /\ state \in [Index -> Nat] /\ Db = disks[Len(disks)] /\ Len(disks) \in 1..Len(disks)
  BY <1>t, SavedNumbers DEF AllSound, Db
<1>c. CommandsOnly
  BY DEF SurviveInv
<1>4. ASSUME NEW i \in Index, state'[i] > 0
      PROVE  IsCommand(i)
  <2>1. CASE w.op = "run"
    <3>1. IsCommand(w.index) /\ (i # w.index => state'[i] = state[i])
      BY <1>t, <1>c, <1>2, <1>3, <2>1 DEF CommandsOnly, Sound
    <3> QED
      BY <1>c, <1>4, <3>1 DEF CommandsOnly
  <2>2. CASE w.op = "restore"
    <3>1. w.index <= Len(chosen) /\ w.index \in Nat
      BY <1>t, <1>c, <1>3, <2>2 DEF CommandsOnly, Sound, Write
    <3>2. i <= w.index /\ chosen[i] \notin MembershipEntry
      BY <1>2, <1>4, <2>2 DEF StateAt
    <3> QED
      BY <1>n, <3>1, <3>2 DEF IsCommand
  <2>3. CASE w.op \notin {"run", "restore"}
    BY <1>c, <1>2, <1>4, <2>3 DEF CommandsOnly
  <2> QED
    BY <2>1, <2>2, <2>3
<1>5. ASSUME NEW i \in Index, Db'.saved[i] > 0
      PROVE  IsCommand(i)
  BY <1>c, <1>1, <1>3, <1>5 DEF CommandsOnly, Becomes
<1>6. \A k \in 1..Len(disks'), i \in Index : disks'[k].saved[i] > 0 => IsCommand(i)
  BY <1>c, <1>1, <1>5 DEF CommandsOnly
<1>7. \A k \in 1..Len(todo') : /\ todo'[k].op = "run" => IsCommand(todo'[k].index)
                               /\ todo'[k].op = "restore" => todo'[k].index <= Len(chosen)
  BY <1>t, <1>c DEF CommandsOnly
<1>8. \A i : IsCommand(i)' <=> IsCommand(i)
  BY <1>t DEF IsCommand
<1> QED
  BY <1>t, <1>4, <1>6, <1>7, <1>8 DEF CommandsOnly

\* A write keeps what openraft relies on; when it was the last one of a call, the
\* state openraft relies on from then on is saved on every disk.
LEMMA StepSurvive ==
  ASSUME TypeOK, AllSound, ApplyInv, PromiseInv, SurviveInv, Step
  PROVE  SurviveInv'
<1>t. /\ Len(todo) \in Nat \ {0} /\ Len(todo') = Len(todo) - 1 /\ todo' \in Seq(Write)
      /\ \A k \in 1..Len(todo') : k + 1 \in 1..Len(todo) /\ todo'[k] = todo[k + 1]
      /\ todo # <<>> /\ up' = up /\ 1 \in 1..Len(todo) /\ chosen' = chosen
  BY StepTodo DEF Step
<1> DEFINE w == todo[1]
<1>1. /\ Becomes(Db, Db', w)
      /\ \A k \in 1..Len(disks') :
           disks'[k] = Db' \/ \E j \in 1..Len(disks) : disks'[k] = disks[j]
  BY StepDisks
<1>2. /\ w.op = "run" => state' = [state EXCEPT ![w.index] = @ + 1]
      /\ w.op = "restore" => state' = StateAt(w.index)
      /\ w.op \notin {"run", "restore"} => state' = state
      /\ state' \in [Index -> Nat]
  BY StepState DEF States
<1>3. /\ state \in [Index -> Nat] /\ promised.state \in [Index -> Nat] /\ Sound(w)
      /\ Db = disks[Len(disks)] /\ Len(disks) \in 1..Len(disks) /\ Db.saved \in [Index -> Nat]
  BY <1>t, SavedNumbers DEF AllSound, Db
<1>4. (\A k \in 1..Len(todo') : SavesAfter(k)') /\ SavedIsState' /\ SavedIsDurable'
  BY StepSaves
<1>5. CommandsOnly'
  BY StepCommands
<1>6. up
  BY <1>t DEF ApplyInv, UpToWrite
<1>s. \A i \in Index : promised.state[i] <= state[i]
  BY <1>6 DEF SurviveInv, StateHasPromised
<1>7. \A i \in Index : promised.state[i] <= state'[i]
  <2> SUFFICES ASSUME NEW i \in Index
               PROVE  promised.state[i] <= state'[i]
    OBVIOUS
  <2>1. CASE w.op = "run"
    <3>1. w.index \in Index /\ state'[i] = IF i = w.index THEN state[i] + 1 ELSE state[i]
      BY <1>2, <1>3, <2>1 DEF Sound
    <3>2. promised.state[i] \in Nat /\ state[i] \in Nat /\ promised.state[i] <= state[i]
      BY <1>3, <1>s
    <3> QED
      BY <3>1, <3>2
  <2>2. CASE w.op = "restore"
    <3>1. state'[i] = IF i <= w.index /\ chosen[i] \notin MembershipEntry THEN 1 ELSE 0
      BY <1>2, <2>2 DEF StateAt
    <3>2. promised.state[i] > 0 => i <= w.index /\ chosen[i] \notin MembershipEntry
      BY <1>t, <2>2 DEF SurviveInv, StateHasPromised, IsCommand
    <3>3. promised.state[i] <= 1
      <4>1. state[i] <= 1
        BY DEF ApplyInv, StateNotAhead
      <4> QED
        BY <1>3, <1>s, <4>1
    <3> QED
      BY <1>3, <3>1, <3>2, <3>3
  <2>3. CASE w.op \notin {"run", "restore"}
    BY <1>2, <1>s, <2>3
  <2> QED
    BY <2>1, <2>2, <2>3
<1>8. \A k \in 1..Len(disks'), i \in Index : promised.state[i] <= disks'[k].saved[i]
  <2>1. \A k \in 1..Len(disks), i \in Index : promised.state[i] <= disks[k].saved[i]
    BY DEF SurviveInv, AppliedSurvives
  <2>2. \A i \in Index : promised.state[i] <= Db'.saved[i]
    BY <1>1, <1>3, <1>s, <2>1 DEF Becomes
  <2> QED
    BY <1>1, <2>1, <2>2
<1>9. CASE Len(todo) = 1
  <2>1. todo' = <<>> /\ promised'.state = state'
    <3>1. Len(todo') = 0
      BY <1>t, <1>9
    <3> QED
      BY <1>t, <1>9, <3>1, EmptySeq DEF Step
  <2>2. \A i \in Index : Db'.saved[i] = state'[i]
    BY <1>t, <1>4, <1>6, <1>9 DEF SavedIsState
  <2>3. \A k \in 1..Len(disks'), i \in Index : disks'[k].saved[i] = state'[i]
    BY <1>4, <2>1, <2>2 DEF SavedIsDurable
  <2>4. \A i \in Index : state'[i] <= state'[i]
    BY <1>2
  <2>5. AppliedSurvives' /\ StateHasPromised'
    BY <2>1, <2>3, <2>4 DEF AppliedSurvives, StateHasPromised
  <2> QED
    BY <1>4, <1>5, <2>5 DEF SurviveInv
<1>10. CASE Len(todo) # 1
  <2>1. promised' = promised
    BY <1>10 DEF Step
  <2>2. todo'[1].op # "restore"
    <3>1. 2 \in 1..Len(todo) /\ todo'[1] = todo[2]
      BY <1>t, <1>10
    <3>2. AppliesOnce(2)
      BY <3>1 DEF ApplyInv, StateWrites
    <3> QED
      BY <3>1, <3>2 DEF AppliesOnce
  <2>3. AppliedSurvives' /\ StateHasPromised'
    BY <1>7, <1>8, <2>1, <2>2 DEF AppliedSurvives, StateHasPromised
  <2> QED
    BY <1>4, <1>5, <2>3 DEF SurviveInv
<1> QED
  BY <1>9, <1>10

-----------------------------------------------------------------------------
\* The commands a call runs are those among the entries it is given.
LEMMA ApplyRuns ==
  ASSUME NEW first \in Nat, NEW last \in Nat, first <= last,
         NEW k \in 1..(2 * (last - first + 1)), ApplyToStateMachine(first, last)[k].op = "run"
  PROVE  Db.log[first + (k - 1) \div 2] \notin MembershipEntry
<1> DEFINE n == 2 * (last - first + 1)
           E(j) == IF j % 2 = 1 THEN Plain("applied", first + (j - 1) \div 2)
                   ELSE Effect(first + (j - 1) \div 2)
           effects == [j \in 1..n |-> E(j)]
<1>1. ApplyToStateMachine(first, last) = effects \o SaveStateSnapshot
  BY DEF ApplyToStateMachine
<1>2. n \in Nat /\ k \in 1..n
  OBVIOUS
<1>3. \A j \in 1..n : E(j) \in Write
  <2> SUFFICES ASSUME NEW j \in 1..n
               PROVE  E(j) \in Write
    OBVIOUS
  <2>1. PICK i \in Nat : i = first + (j - 1) \div 2
    BY <1>2
  <2>2. Plain("applied", i) \in Write /\ Effect(i) \in Write
    BY PlainWrite DEF Effect
  <2> QED
    BY <2>1, <2>2
<1> HIDE DEF E, n
<1>4. effects \in Seq(Write) /\ Len(effects) = n /\ effects[k] = E(k)
  BY <1>2, <1>3
<1> HIDE DEF effects
<1>5. (effects \o SaveStateSnapshot)[k] = effects[k]
  BY <1>2, <1>4, SaveLast
<1>6. E(k).op = "run"
  BY <1>1, <1>4, <1>5
<1>7. E(k) = Effect(first + (k - 1) \div 2)
  BY <1>6 DEF E, Plain
<1> QED
  BY <1>6, <1>7 DEF Effect, Plain

\* A call made between two calls, which finds the state saved on every disk.
LEMMA CallSurvives ==
  ASSUME TypeOK, SurviveInv, todo = <<>>, UNCHANGED <<disks, state, up, chosen>>,
         promised'.state = promised.state,
         \A k \in 1..Len(todo') : SavesAfter(k)',
         \A k \in 1..Len(todo') :
           /\ todo'[k].op = "run" => IsCommand(todo'[k].index)
           /\ todo'[k].op = "restore" => todo'[k].index <= Len(chosen),
         todo' # <<>> /\ todo'[1].op = "restore" =>
           \A i \in Index : promised.state[i] > 0 => i <= todo'[1].index /\ IsCommand(i)
  PROVE  SurviveInv'
<1>1. Db' = Db /\ \A i : IsCommand(i)' <=> IsCommand(i)
  BY DEF Db, IsCommand
<1>2. SavedIsState'
  <2>1. up => \A i \in Index : Db.saved[i] = state[i]
    BY DEF SurviveInv, SavedIsState
  <2> QED
    BY <1>1, <2>1 DEF SavedIsState
<1>3. SavedIsDurable' /\ AppliedSurvives'
  BY <1>1 DEF SurviveInv, SavedIsDurable, AppliedSurvives
<1>4. CommandsOnly'
  BY <1>1 DEF SurviveInv, CommandsOnly
<1>5. StateHasPromised'
  BY <1>1 DEF SurviveInv, StateHasPromised
<1> QED
  BY <1>2, <1>3, <1>4, <1>5 DEF SurviveInv

LEMMA ApplySurvives ==
  ASSUME TypeOK, SurviveInv, CallApply
  PROVE  SurviveInv'
<1>1. PICK last \in (Db.applied + 1)..Len(chosen) :
        /\ \A i \in (Db.applied + 1)..last : Db.log[i] = chosen[i]
        /\ Call(ApplyToStateMachine(Db.applied + 1, last))
  BY DEF CallApply
<1>2. PICK first \in Nat : /\ first = Db.applied + 1 /\ last \in Nat /\ first <= last
                           /\ last <= Len(chosen) /\ Len(chosen) \in Nat
  <2>1. Db.applied \in Nat /\ Len(chosen) \in Nat
    BY Numbers DEF TypeOK
  <2> QED
    BY <1>1, <2>1
<1>3. /\ todo = <<>> /\ UNCHANGED <<disks, state, up, chosen, promised>>
      /\ todo' = ApplyToStateMachine(first, last)
  BY <1>1, <1>2 DEF CallApply, Call, Ready
<1>4. PICK n \in Nat : n = 2 * (last - first + 1)
  BY <1>2
<1>5. /\ Len(todo') = n + 2
      /\ \A k \in 1..n : /\ todo'[k].op \in {"applied", "membership", "run"}
                         /\ todo'[k].index = first + (k - 1) \div 2
      /\ todo'[n + 1].op = "save" /\ todo'[n + 2].op = "flush"
  <2>1. LET w == ApplyToStateMachine(first, last)
            m == 2 * (last - first + 1)
        IN  /\ m \in Nat /\ w \in Seq(Write) /\ Len(w) = m + 2
            /\ \A k \in 1..m :
                 /\ w[k].op \in {"applied", "membership", "run"}
                 /\ w[k].op = "applied" <=> k % 2 = 1
                 /\ w[k].index = first + (k - 1) \div 2
            /\ w[m + 1].op = "save" /\ w[m + 2].op = "flush"
    <3>1. first \in Nat /\ last \in Nat /\ first <= last
      BY <1>2
    <3> QED
      BY <3>1, ApplyWrites, Zenon
  <2> QED
    BY <1>3, <1>4, <2>1
<1>6. \A k \in 1..Len(todo') : k \in 1..n \/ k = n + 1 \/ k = n + 2
  BY <1>5
<1>7. \A k \in 1..Len(todo') : SavesAfter(k)'
  BY <1>4, <1>5, <1>6 DEF SavesAfter
<1>8. ASSUME NEW k \in 1..Len(todo'), todo'[k].op = "run"
      PROVE  IsCommand(todo'[k].index)
  <2>1. k \in 1..n
    BY <1>5, <1>6, <1>8
  <2>2. PICK i \in first..last : i = first + (k - 1) \div 2
    <3>1. (k - 1) \div 2 \in Nat /\ (k - 1) \div 2 <= last - first
      BY <1>2, <1>4, <2>1
    <3> QED
      BY <1>2, <3>1
  <2>3. Db.log[i] \notin MembershipEntry
    BY <1>2, <1>3, <1>4, <1>8, <2>1, <2>2, ApplyRuns
  <2> QED
    <3>1. i <= Len(chosen) /\ i \in (Db.applied + 1)..last
      BY <1>2, <2>2
    <3>2. chosen[i] = Db.log[i] /\ todo'[k].index = i
      BY <1>1, <1>5, <2>1, <2>2, <3>1
    <3> QED
      BY <2>3, <3>1, <3>2 DEF IsCommand
<1>9. todo'[1].op # "restore" /\ \A k \in 1..Len(todo') : todo'[k].op # "restore"
  <2>1. \A k \in 1..Len(todo') : todo'[k].op # "restore"
    BY <1>5, <1>6
  <2> QED
    BY <1>5, <2>1
<1> QED
  BY <1>3, <1>7, <1>8, <1>9, CallSurvives

\* A state that is received is behind last_applied in nothing.
LEMMA InstallSurvives ==
  ASSUME TypeOK, ApplyInv, SurviveInv, CallInstall
  PROVE  SurviveInv'
<1>1. PICK last \in (Db.applied + 1)..Len(chosen) : Call(InstallSnapshot(last))
  BY DEF CallInstall
<1>2. /\ todo = <<>> /\ UNCHANGED <<disks, state, up, chosen, promised>>
      /\ todo' = InstallSnapshot(last) /\ up
  BY <1>1 DEF CallInstall, Call, Ready
<1>3. /\ Len(chosen) \in Nat /\ last \in Nat /\ last <= Len(chosen) /\ Db.applied < last
      /\ last \in 0..MaxIndex /\ Db.applied \in Nat
  <2>1. Db.applied \in Nat /\ Len(chosen) \in Nat /\ Len(chosen) <= MaxIndex /\ MaxIndex \in Nat
    BY Numbers, EntriesAssumption DEF TypeOK
  <2> QED
    BY <1>1, <2>1
<1>4. /\ Len(todo') = 5 /\ todo'[1].op = "restore" /\ todo'[1].index = last
      /\ todo'[2].op = "applied" /\ todo'[3].op = "membership"
      /\ todo'[4].op = "save" /\ todo'[5].op = "flush"
  BY <1>2, <1>3, InstallWrites
<1>5. \A k \in 1..Len(todo') : k \in {1, 2, 3, 4, 5}
  BY <1>4
<1>6. \A k \in 1..Len(todo') : SavesAfter(k)'
  BY <1>4, <1>5 DEF SavesAfter
<1>7. \A k \in 1..Len(todo') : /\ todo'[k].op # "run"
                               /\ todo'[k].op = "restore" => todo'[k].index <= Len(chosen)
  BY <1>3, <1>4, <1>5
<1>8. ASSUME NEW i \in Index, promised.state[i] > 0
      PROVE  i <= last /\ IsCommand(i)
  <2>1. promised.state[i] <= state[i]
    BY <1>2 DEF SurviveInv, StateHasPromised
  <2>2. state[i] > 0
    BY <1>8, <2>1, SavedNumbers
  <2>3. i <= Db.applied
    BY <1>2, <2>2 DEF ApplyInv, StateNotAhead
  <2>4. IsCommand(i)
    BY <2>2 DEF SurviveInv, CommandsOnly
  <2>5. i \in Nat
    BY Numbers
  <2> QED
    BY <1>3, <2>3, <2>4, <2>5
<1> QED
  BY <1>2, <1>4, <1>6, <1>7, <1>8, CallSurvives

\* The calls that do not touch the state.
LEMMA OthersSurvive ==
  ASSUME TypeOK, SurviveInv, CallSaveVote \/ CallAppend \/ CallDeleteConflict \/ CallPurge
  PROVE  SurviveInv'
<1>1. \A k \in 1..Len(todo') : todo'[k].op \notin {"run", "applied", "restore"}
  BY OtherWrites
<1>2. /\ todo = <<>> /\ UNCHANGED <<disks, state, up, chosen>>
      /\ promised'.state = promised.state
  BY DEF TypeOK, CallSaveVote, CallAppend, CallDeleteConflict, CallPurge, Call, Ready
<1>3. \A k \in 1..Len(todo') : SavesAfter(k)'
  BY <1>1 DEF SavesAfter
<1>4. todo' # <<>> => 1 \in 1..Len(todo')
  <2>1. todo' \in Seq(Write)
    BY CallSound
  <2> QED
    BY <2>1, EmptySeq
<1> QED
  BY <1>1, <1>2, <1>3, <1>4, CallSurvives

LEMMA CrashSurvives ==
  ASSUME TypeOK, SurviveInv, Crash
  PROVE  SurviveInv'
<1>1. PICK k \in 1..Len(disks) : disks' = <<disks[k]>>
  BY DEF Crash
<1>2. /\ Len(disks') = 1 /\ disks'[1] = disks[k] /\ Db' = disks[k] /\ ~ up'
      /\ todo' = <<>> /\ state' = EmptyState /\ UNCHANGED <<promised, chosen>>
  BY <1>1 DEF Crash, Db
<1>3. \A i \in Index : EmptyState[i] = 0
  BY DEF EmptyState
<1>4. CommandsOnly' /\ AppliedSurvives'
  BY <1>2, <1>3 DEF SurviveInv, CommandsOnly, AppliedSurvives, IsCommand
<1> QED
  BY <1>2, <1>4 DEF SurviveInv, SavedIsState, SavedIsDurable, StateHasPromised

\* The state that is restored is the saved one, whichever disk was found.
LEMMA OpenSurvives ==
  ASSUME TypeOK, ApplyInv, SurviveInv, Open
  PROVE  SurviveInv'
<1>1. /\ todo = <<>> /\ UNCHANGED <<disks, chosen, promised>> /\ state' = Db.saved
      /\ Db' = Db /\ Db = disks[Len(disks)] /\ Len(disks) \in 1..Len(disks)
  BY Opened, SavedNumbers DEF Open, ApplyInv, UpToWrite, Db
<1>2. /\ \A k \in 1..Len(todo') : todo'[k].op \in {"purged", "remove"}
      /\ todo' # <<>> => 1 \in 1..Len(todo')
  <2>1. CASE todo' \in PurgeLogsUpto(Db.applied)
    <3>1. PICK i, writes : i \in Nat /\ todo' = writes /\ writes \in PurgeLogsUpto(i)
      BY <2>1, Numbers
    <3>2. /\ Len(writes) > 0 /\ writes[1].op = "purged" /\ writes \in Seq(Write)
          /\ \A k \in 2..Len(writes) : writes[k].op = "remove"
      BY <3>1, PurgeWrites
    <3>3. \A k \in 1..Len(writes) : k = 1 \/ k \in 2..Len(writes)
      BY <3>2
    <3> QED
      BY <3>1, <3>2, <3>3
  <2> QED
    BY <2>1, Opened
<1>3. (\A k \in 1..Len(todo') : SavesAfter(k)') /\ SavedIsState'
  BY <1>1, <1>2 DEF SavesAfter, SavedIsState
<1>4. SavedIsDurable' /\ AppliedSurvives'
  BY <1>1 DEF SurviveInv, SavedIsDurable, AppliedSurvives
<1>5. CommandsOnly'
  <2>1. \A i \in Index : Db.saved[i] > 0 => IsCommand(i)
    BY <1>1 DEF SurviveInv, CommandsOnly
  <2>2. \A i : IsCommand(i)' <=> IsCommand(i)
    BY <1>1 DEF IsCommand
  <2> QED
    BY <1>1, <1>2, <2>1, <2>2 DEF SurviveInv, CommandsOnly
<1>6. StateHasPromised'
  <2>1. \A i \in Index : promised.state[i] <= Db.saved[i]
    BY <1>1 DEF SurviveInv, AppliedSurvives
  <2> QED
    BY <1>1, <1>2, <2>1 DEF StateHasPromised
<1> QED
  BY <1>3, <1>4, <1>5, <1>6 DEF SurviveInv

LEMMA CommitSurvives ==
  ASSUME TypeOK, AllSound, SurviveInv, Commit
  PROVE  SurviveInv'
<1>1. UNCHANGED <<disks, state, todo, up, promised>> /\ Db' = Db
  BY DEF Commit, Db
<1>2. PICK e \in Entry : chosen' = Append(chosen, e)
  BY DEF Commit
<1>3. /\ chosen \in Seq(Entry) /\ Len(chosen) \in Nat /\ Len(chosen') = Len(chosen) + 1
      /\ \A i \in 1..Len(chosen) : chosen'[i] = chosen[i]
  BY <1>2 DEF TypeOK
<1>4. ASSUME NEW i \in Index, IsCommand(i)
      PROVE  IsCommand(i)'
  <2>1. i \in 1..Len(chosen) /\ i <= Len(chosen) + 1
    BY <1>3, <1>4 DEF Index, IsCommand
  <2> QED
    BY <1>3, <1>4, <2>1 DEF IsCommand
<1>5. ASSUME NEW k \in 1..Len(todo)
      PROVE  /\ todo[k].op = "run" => IsCommand(todo[k].index)'
             /\ todo[k].op = "restore" => todo[k].index <= Len(chosen')
  <2>1. todo[k].index \in Nat /\ (todo[k].op = "run" => todo[k].index \in Index)
    BY DEF AllSound, Sound, Write
  <2>2. /\ todo[k].op = "run" => IsCommand(todo[k].index)
        /\ todo[k].op = "restore" => todo[k].index <= Len(chosen)
    BY DEF SurviveInv, CommandsOnly
  <2>3. todo[k].op = "run" => IsCommand(todo[k].index)'
    <3> HIDE DEF IsCommand
    <3> QED
      BY <1>1, <1>4, <2>1, <2>2
  <2>4. todo[k].op = "restore" => todo[k].index <= Len(chosen')
    BY <1>3, <2>1, <2>2
  <2> QED
    BY <1>1, <2>3, <2>4
<1>6. CommandsOnly'
  BY <1>1, <1>4, <1>5 DEF SurviveInv, CommandsOnly
<1>7. StateHasPromised'
  BY <1>1, <1>4 DEF SurviveInv, StateHasPromised
<1>8. /\ \A k \in 1..Len(todo') : SavesAfter(k)'
      /\ SavedIsState' /\ SavedIsDurable' /\ AppliedSurvives'
  BY <1>1 DEF SurviveInv, SavesAfter, SavedIsState, SavedIsDurable, AppliedSurvives
<1> QED
  BY <1>6, <1>7, <1>8 DEF SurviveInv

LEMMA SurviveStep ==
  TypeOK /\ AllSound /\ ApplyInv /\ PromiseInv /\ SurviveInv /\ [Next]_vars => SurviveInv'
<1> SUFFICES ASSUME TypeOK, AllSound, ApplyInv, PromiseInv, SurviveInv, [Next]_vars
             PROVE  SurviveInv'
  OBVIOUS
<1>1. CASE Step
  BY <1>1, StepSurvive
<1>2. CASE CallSaveVote \/ CallAppend \/ CallDeleteConflict \/ CallPurge
  BY <1>2, OthersSurvive
<1>3. CASE CallApply
  BY <1>3, ApplySurvives
<1>4. CASE CallInstall
  BY <1>4, InstallSurvives
<1>5. CASE Commit
  BY <1>5, CommitSurvives
<1>6. CASE Crash
  BY <1>6, CrashSurvives
<1>7. CASE Open
  BY <1>7, OpenSurvives
<1>8. CASE BuildData \/ BuildIndex \/ BuildDone \/ UNCHANGED vars
  <2>1. UNCHANGED <<disks, state, todo, up, chosen, promised>>
    BY <1>8 DEF BuildData, BuildIndex, BuildDone, vars
  <2> QED
    BY <2>1 DEF SurviveInv, SavesAfter, SavedIsState, SavedIsDurable, CommandsOnly,
                StateHasPromised, AppliedSurvives, IsCommand, Db
<1> QED
  BY <1>1, <1>2, <1>3, <1>4, <1>5, <1>6, <1>7, <1>8 DEF Next

\* AppliedSurvivesCorrect: wherever the process is killed, the state it restores
\* has seen every command a call of apply_to_state_machine has returned for, and
\* everything a snapshot it has installed came with.
THEOREM AppliedSurvivesCorrect == Spec => []AppliedSurvives
<1>1. SurviveInv => AppliedSurvives
  BY DEF SurviveInv
<1>2. /\ Init => SurviveInv
      /\ TypeOK /\ AllSound /\ ApplyInv /\ PromiseInv /\ SurviveInv /\ [Next]_vars => SurviveInv'
  BY InitSurvive, SurviveStep
<1> QED
  BY <1>1, <1>2, PromiseCorrect, PTL DEF Spec

=============================================================================
