-------------------------- MODULE Checkpoint_proofs --------------------------
(***************************************************************************)
(* Proof that the tracker of Checkpoint always names a complete checkpoint *)
(* unless a limit of one checkpoint per role is configured.                *)
(***************************************************************************)
EXTENDS Checkpoint, FiniteSetTheorems, WellFoundedInduction, TLAPS

(* The limit that is safe: none, or at least two checkpoints of a role.     *)
KeepsMoreThanOne == \A role \in RoleSet : MaxToKeep[role] # 1

(* The step in progress is later than the one in the tracker.               *)
TrackerIsBehind ==
    /\ pc \in {"train", "save", "data", "open"} => tracker < global_steps
    /\ pc = "write" => tracker = Truncated
    /\ pc = "end" => tracker <= global_steps

(* Rank 0 remembers nothing later than the tracker, except of the roles     *)
(* already saved in this step.                                              *)
PathsAreBehind ==
    /\ pc \in {"train", "end"} =>
          \A role \in RoleSet : \A s \in saved_paths[role] : s <= tracker
    /\ pc = "save" =>
          \A i \in turn .. Len(Roles) :
              \A s \in saved_paths[Roles[i]] : s <= tracker
    /\ pc \in {"save", "data", "open", "write"} =>
          \A role \in RoleSet : \A s \in saved_paths[role] : s <= global_steps
    /\ pc \in {"down", "broken"} =>
          \A role \in RoleSet : saved_paths[role] = {}

(* What this step has saved so far is on disk.                              *)
ShardsOf(role, s) == [role : {role}, step : {s}, rank : Ranks]
SavedSoFar ==
    /\ pc = "save" =>
          /\ \A i \in 1 .. turn - 1 : ShardsOf(Roles[i], global_steps) \subseteq shards
          /\ \A r \in Ranks : phase[r] = "saved" => Shard(r) \in shards
    /\ pc \in {"data", "open", "write"} => Complete(global_steps)
    /\ pc \in {"open", "write"} => global_steps \in dataloaders

CInv ==
    /\ CkptTypeOK
    /\ TrackedIsComplete
    /\ TrackerIsBehind
    /\ PathsAreBehind
    /\ SavedSoFar

-----------------------------------------------------------------------------
(* A nonempty set of natural numbers has a least element.                   *)
LEMMA LeastExists ==
  ASSUME NEW S \in SUBSET Nat, S # {}
  PROVE  \E k \in S : \A x \in S : k <= x
PROOF
  <1>1. PICK k \in S : \A x \in S : ~ (<<x, k>> \in OpToRel(<, Nat))
    BY NatLessThanWellFounded, WFMin, Zenon
  <1>2. \A x \in S : ~ (x < k)
    BY <1>1, Zenon DEF OpToRel
  <1> QED BY <1>2

(* Rotation removes nothing that is not older than something it keeps.      *)
LEMMA NewestIsKept ==
  ASSUME NEW paths \in SUBSET Nat, NEW keep \in Nat, keep # 1,
         NEW s \in Expired(paths, keep)
  PROVE  s \in paths /\ \E t \in paths : t > s
PROOF
  <1>1. s \in paths /\ keep > 0 /\ Cardinality(Newer(paths, s)) >= keep - 1
    BY DEF Expired
  <1>2. Cardinality(Newer(paths, s)) # 0
    BY <1>1
  <1>3. Newer(paths, s) # {}
    BY <1>2, FS_EmptySet
  <1> QED BY <1>1, <1>3 DEF Newer

(* What is being saved is one of the roles.                                 *)
LEMMA SavingIsARole ==
  ASSUME CkptTypeOK
  PROVE  Saving \in RoleSet
  BY CheckpointAssumption DEF CkptTypeOK, Saving, RoleSet

-----------------------------------------------------------------------------
(* The actions, one lemma each.                                             *)

(* Nothing is on disk at first.                                             *)
LEMMA InitCInv == Init => CInv
PROOF
  <1> SUFFICES ASSUME Init PROVE CInv
    OBVIOUS
  <1>1. CkptTypeOK
    <2>1. phase \in [Ranks -> Phases]
      BY DEF Init, AllRanks, Phases
    <2>2. saved_paths \in [RoleSet -> SUBSET (Nat \ {0})]
      BY DEF Init
    <2>3. Len(Roles) \in 1 .. 2 /\ MaxCrashes \in Nat
      BY CheckpointAssumption
    <2>4. turn \in 1 .. Len(Roles) /\ crashes \in 0 .. MaxCrashes
      BY <2>3 DEF Init
    <2> QED BY <2>1, <2>2, <2>4 DEF Init, CkptTypeOK, NoFile
  <1> QED BY <1>1 DEF Init, CInv, TrackedIsComplete, TrackerIsBehind,
             PathsAreBehind, SavedSoFar, NoFile

(* A step that was trained is saved if a save is due.                       *)
LEMMA TrainCInv == CInv /\ Train => CInv'
PROOF
  <1> SUFFICES ASSUME CInv, Train PROVE CInv'
    OBVIOUS
  <1>1. /\ pc = "train"
        /\ \/ pc' = "save" /\ turn' = 1 /\ phase' = AllRanks("entered")
           \/ pc' = "end" /\ UNCHANGED <<turn, phase>>
        /\ UNCHANGED <<global_steps, saved_paths, shards, dataloaders,
                       tracker, crashes>>
    BY DEF Train, disk
  <1>2. CkptTypeOK'
    BY <1>1, CheckpointAssumption DEF CInv, CkptTypeOK, AllRanks, Phases
  <1>3. TrackedIsComplete'
    BY <1>1 DEF CInv, TrackedIsComplete, Complete
  <1>4. TrackerIsBehind'
    BY <1>1 DEF CInv, CkptTypeOK, Truncated, TrackerIsBehind
  <1>5. PathsAreBehind'
    <2>1. \A role \in RoleSet : \A s \in saved_paths[role] :
             s <= tracker /\ s <= global_steps
      BY <1>1 DEF CInv, CkptTypeOK, Truncated, TrackerIsBehind, PathsAreBehind
    <2> QED BY <1>1, <2>1 DEF PathsAreBehind, RoleSet
  <1>6. SavedSoFar'
    BY <1>1 DEF SavedSoFar, AllRanks
  <1> QED BY <1>2, <1>3, <1>4, <1>5, <1>6 DEF CInv

(* The next step begins with nothing being saved.                           *)
LEMMA EndStepCInv == CInv /\ EndStep => CInv'
PROOF
  <1> SUFFICES ASSUME CInv, EndStep PROVE CInv'
    OBVIOUS
  <1>1. /\ pc = "end"
        /\ pc' \in {"done", "train"}
        /\ global_steps' = global_steps + 1
        /\ UNCHANGED <<turn, phase, saved_paths, shards, dataloaders,
                       tracker, crashes>>
    BY DEF EndStep, workers, disk
  <1>2. CkptTypeOK'
    BY <1>1 DEF CInv, CkptTypeOK
  <1>3. TrackedIsComplete'
    BY <1>1 DEF CInv, TrackedIsComplete, Complete
  <1>4. TrackerIsBehind'
    BY <1>1 DEF CInv, CkptTypeOK, Truncated, TrackerIsBehind
  <1>5. PathsAreBehind' /\ SavedSoFar'
    BY <1>1 DEF CInv, PathsAreBehind, SavedSoFar
  <1> QED BY <1>2, <1>3, <1>4, <1>5 DEF CInv

(* What rank 0 removes is not what the tracker names, and not what this     *)
(* step has saved.                                                          *)
LEMMA PrepareCInv ==
  ASSUME KeepsMoreThanOne, CInv, NEW r \in Ranks, Prepare(r)
  PROVE  CInv'
PROOF
  <1> DEFINE old == Expired(saved_paths[Saving], MaxToKeep[Saving])
  <1>1. /\ pc = "save" /\ phase[r] = "entered"
        /\ phase' = [phase EXCEPT ![r] = "ready"]
        /\ UNCHANGED <<pc, global_steps, turn, dataloaders, tracker, crashes>>
    BY DEF Prepare, driver
  <1>2. Saving \in RoleSet
    BY SavingIsARole DEF CInv
  <1>3. saved_paths[Saving] \in SUBSET Nat /\ MaxToKeep[Saving] \in Nat \ {1}
    BY <1>2, CheckpointAssumption DEF CInv, CkptTypeOK, KeepsMoreThanOne
  <1>4. \A s \in old : s \in saved_paths[Saving] /\ \E t \in saved_paths[Saving] : t > s
    BY <1>3, NewestIsKept
  <1>5. \A t \in saved_paths[Saving] : t <= tracker
    BY <1>1 DEF CInv, PathsAreBehind, CkptTypeOK, Saving
  <1>6. \A s \in old : s < tracker
    BY <1>3, <1>4, <1>5 DEF CInv, CkptTypeOK, Truncated
  <1>7. tracker < global_steps
    BY <1>1 DEF CInv, TrackerIsBehind
  <1>8. \A f \in shards : f.step >= tracker => f \in shards'
    <2> SUFFICES ASSUME NEW f \in shards, f.step >= tracker PROVE f \in shards'
      OBVIOUS
    <2>1. f.step \in Nat /\ tracker \in Int /\ old \subseteq Nat
      BY <1>3, <1>4 DEF CInv, CkptTypeOK, Truncated
    <2>2. f.step \notin old
      BY <2>1, <1>6
    <2> QED BY <2>2 DEF Prepare, Rotate
  <1>9. shards' \subseteq shards
    BY DEF Prepare, Rotate
  <1>10. /\ saved_paths' \in [RoleSet -> SUBSET (Nat \ {0})]
         /\ \A role \in RoleSet : saved_paths'[role] \subseteq saved_paths[role]
    BY <1>2 DEF Prepare, Rotate, CInv, CkptTypeOK
  <1> HIDE DEF old
  <1>11. CkptTypeOK'
    BY <1>1, <1>9, <1>10 DEF CInv, CkptTypeOK, Phases
  <1>12. TrackedIsComplete'
    <2> SUFFICES ASSUME tracker \notin {NoFile, Truncated}
                 PROVE  Complete(tracker)'
      BY <1>1 DEF CInv, TrackedIsComplete
    <2>1. [role : RoleSet, step : {tracker}, rank : Ranks] \subseteq shards
      BY DEF CInv, TrackedIsComplete, Complete
    <2>2. \A f \in [role : RoleSet, step : {tracker}, rank : Ranks] :
             f.step >= tracker
      BY DEF CInv, CkptTypeOK, Truncated
    <2> QED BY <2>1, <2>2, <1>1, <1>8 DEF Complete
  <1>13. TrackerIsBehind'
    BY <1>1 DEF CInv, TrackerIsBehind
  <1>14. PathsAreBehind'
    <2>1. \A i \in turn .. Len(Roles) : Roles[i] \in RoleSet
      BY CheckpointAssumption DEF CInv, CkptTypeOK, RoleSet
    <2> QED BY <2>1, <1>1, <1>10 DEF CInv, PathsAreBehind
  <1>15. SavedSoFar'
    <2>1. \A i \in 1 .. turn - 1 : ShardsOf(Roles[i], global_steps) \subseteq shards'
      <3>1. \A i \in 1 .. turn - 1 : ShardsOf(Roles[i], global_steps) \subseteq shards
        BY <1>1 DEF CInv, SavedSoFar
      <3>2. \A i : \A f \in ShardsOf(Roles[i], global_steps) : f.step >= tracker
        BY <1>7 DEF CInv, CkptTypeOK, Truncated, ShardsOf
      <3> QED BY <3>1, <3>2, <1>8
    <2>2. \A q \in Ranks : phase'[q] = "saved" => Shard(q)' \in shards'
      <3> SUFFICES ASSUME NEW q \in Ranks, phase'[q] = "saved"
                   PROVE  Shard(q)' \in shards'
        OBVIOUS
      <3>1. phase[q] = "saved"
        BY <1>1 DEF CInv, CkptTypeOK
      <3>2. Shard(q) \in shards
        BY <3>1, <1>1 DEF CInv, SavedSoFar
      <3>3. Shard(q).step >= tracker
        BY <1>7 DEF Shard, CInv, CkptTypeOK, Truncated
      <3>4. Shard(q)' = Shard(q)
        BY <1>1 DEF Shard, Saving
      <3> QED BY <3>2, <3>3, <3>4, <1>8
    <2> QED BY <2>1, <2>2, <1>1 DEF SavedSoFar, ShardsOf
  <1> QED BY <1>11, <1>12, <1>13, <1>14, <1>15 DEF CInv

(* A rank opens and writes shards of the step in progress only.             *)
LEMMA ShardCInv ==
  ASSUME CInv, NEW r \in Ranks, OpenShard(r) \/ WriteShard(r)
  PROVE  CInv'
PROOF
  <1>1. /\ pc = "save"
        /\ \/ /\ phase' = [phase EXCEPT ![r] = "writing"]
              /\ shards' = shards \ {Shard(r)}
           \/ /\ phase' = [phase EXCEPT ![r] = "saved"]
              /\ shards' = shards \cup {Shard(r)}
        /\ UNCHANGED <<pc, global_steps, turn, saved_paths, dataloaders,
                       tracker, crashes>>
    BY DEF OpenShard, WriteShard, driver
  <1>2. Saving \in RoleSet
    BY SavingIsARole DEF CInv
  <1>3. \A q \in Ranks : Shard(q)' = Shard(q)
    BY <1>1 DEF Shard, Saving
  <1>4. CkptTypeOK'
    <2>1. Shard(r) \in [role : RoleSet, step : Nat \ {0}, rank : Ranks]
      BY <1>2 DEF Shard, CInv, CkptTypeOK
    <2>2. shards' \subseteq [role : RoleSet, step : Nat \ {0}, rank : Ranks]
      BY <1>1, <2>1 DEF CInv, CkptTypeOK
    <2>3. phase' \in [Ranks -> Phases]
      BY <1>1 DEF CInv, CkptTypeOK, Phases
    <2> QED BY <1>1, <2>2, <2>3 DEF CInv, CkptTypeOK
  <1>5. TrackedIsComplete'
    <2> SUFFICES ASSUME tracker \notin {NoFile, Truncated}
                 PROVE  Complete(tracker)'
      BY <1>1 DEF CInv, TrackedIsComplete
    <2>1. [role : RoleSet, step : {tracker}, rank : Ranks] \subseteq shards
      BY DEF CInv, TrackedIsComplete, Complete
    <2>2. tracker # global_steps
      BY <1>1 DEF CInv, TrackerIsBehind, CkptTypeOK, Truncated
    <2>3. Shard(r) \notin [role : RoleSet, step : {tracker}, rank : Ranks]
      BY <2>2 DEF Shard
    <2> QED BY <1>1, <2>1, <2>3 DEF Complete
  <1>6. TrackerIsBehind' /\ PathsAreBehind'
    BY <1>1 DEF CInv, TrackerIsBehind, PathsAreBehind
  <1>7. SavedSoFar'
    <2>1. \A i \in 1 .. turn - 1 : ShardsOf(Roles[i], global_steps) \subseteq shards'
      <3> SUFFICES ASSUME NEW i \in 1 .. turn - 1
                   PROVE  ShardsOf(Roles[i], global_steps) \subseteq shards'
        OBVIOUS
      <3>1. ShardsOf(Roles[i], global_steps) \subseteq shards
        BY <1>1 DEF CInv, SavedSoFar
      <3>2. Roles[i] # Saving
        BY CheckpointAssumption DEF Saving, CInv, CkptTypeOK
      <3>3. Shard(r) \notin ShardsOf(Roles[i], global_steps)
        BY <3>2 DEF Shard, ShardsOf
      <3> QED BY <1>1, <3>1, <3>3
    <2>2. \A q \in Ranks : phase'[q] = "saved" => Shard(q)' \in shards'
      <3> SUFFICES ASSUME NEW q \in Ranks, phase'[q] = "saved"
                   PROVE  Shard(q) \in shards'
        BY <1>3
      <3>1. phase \in [Ranks -> Phases]
        BY DEF CInv, CkptTypeOK
      <3>2. CASE q = r
        BY <3>1, <3>2, <1>1
      <3>3. CASE q # r
        <4>1. Shard(q) \in shards
          BY <3>1, <3>3, <1>1 DEF CInv, SavedSoFar
        <4>2. Shard(q) # Shard(r)
          BY <3>3 DEF Shard
        <4> QED BY <4>1, <4>2, <1>1
      <3> QED BY <3>2, <3>3
    <2> QED BY <2>1, <2>2, <1>1 DEF SavedSoFar, ShardsOf
  <1> QED BY <1>4, <1>5, <1>6, <1>7 DEF CInv

(* When all ranks have saved, so has the role; after the last role the      *)
(* checkpoint is complete.                                                  *)
LEMMA FinishRoleCInv == CInv /\ FinishRole => CInv'
PROOF
  <1> SUFFICES ASSUME CInv, FinishRole PROVE CInv'
    OBVIOUS
  <1>1. /\ pc = "save"
        /\ \A r \in Ranks : phase[r] = "saved"
        /\ saved_paths' = [saved_paths EXCEPT ![Saving] = @ \cup {global_steps}]
        /\ \/ /\ turn < Len(Roles) /\ turn' = turn + 1
              /\ phase' = AllRanks("entered") /\ pc' = "save"
           \/ /\ turn = Len(Roles) /\ turn' = turn
              /\ phase' = AllRanks("idle") /\ pc' = "data"
        /\ UNCHANGED <<global_steps, shards, dataloaders, tracker, crashes>>
    BY CheckpointAssumption DEF FinishRole, disk, CInv, CkptTypeOK
  <1>2. Saving \in RoleSet
    BY SavingIsARole DEF CInv
  <1>3. turn \in 1 .. Len(Roles) /\ Len(Roles) \in Nat
    BY CheckpointAssumption DEF CInv, CkptTypeOK
  <1>4. saved_paths \in [RoleSet -> SUBSET (Nat \ {0})] /\ global_steps \in Nat \ {0}
    BY DEF CInv, CkptTypeOK
  <1>5. saved_paths' \in [RoleSet -> SUBSET (Nat \ {0})]
    BY <1>1, <1>2, <1>4
  <1>6. CkptTypeOK'
    BY <1>1, <1>3, <1>5 DEF CInv, CkptTypeOK, AllRanks, Phases
  <1>7. TrackedIsComplete'
    BY <1>1 DEF CInv, TrackedIsComplete, Complete
  <1>8. TrackerIsBehind'
    BY <1>1 DEF CInv, TrackerIsBehind
  <1>9. PathsAreBehind'
    <2>1. \A role \in RoleSet : \A s \in saved_paths'[role] : s <= global_steps
      BY <1>1, <1>2, <1>4 DEF CInv, PathsAreBehind
    <2>2. ASSUME NEW i \in turn + 1 .. Len(Roles)
          PROVE  saved_paths'[Roles[i]] = saved_paths[Roles[i]]
      <3>1. Roles[i] \in RoleSet /\ Roles[i] # Saving
        BY <1>3, CheckpointAssumption DEF RoleSet, Saving
      <3> QED BY <3>1, <1>1, <1>4
    <2>3. \A i \in turn + 1 .. Len(Roles) : \A s \in saved_paths'[Roles[i]] : s <= tracker
      BY <2>2, <1>1, <1>3 DEF CInv, PathsAreBehind
    <2> QED BY <1>1, <2>1, <2>3 DEF PathsAreBehind
  <1>10. ShardsOf(Saving, global_steps) \subseteq shards
    BY <1>1 DEF CInv, SavedSoFar, ShardsOf, Shard
  <1>11. \A i \in 1 .. turn : ShardsOf(Roles[i], global_steps) \subseteq shards
    BY <1>1, <1>3, <1>10 DEF CInv, SavedSoFar, Saving
  <1>12. SavedSoFar'
    <2>1. CASE pc' = "save"
      BY <1>1, <1>3, <1>11, <2>1 DEF SavedSoFar, AllRanks, ShardsOf
    <2>2. CASE pc' = "data"
      <3>1. \A role \in RoleSet : ShardsOf(role, global_steps) \subseteq shards
        BY <1>1, <1>11, <2>2 DEF RoleSet
      <3>2. Complete(global_steps)
        BY <3>1 DEF Complete, ShardsOf
      <3> QED BY <3>2, <2>2, <1>1 DEF SavedSoFar, Complete
    <2> QED BY <2>1, <2>2, <1>1
  <1> QED BY <1>6, <1>7, <1>8, <1>9, <1>12 DEF CInv

(* The dataloader, then the tracker.                                        *)
LEMMA TrackerCInv ==
  CInv /\ (SaveDataloader \/ OpenTracker \/ WriteTracker) => CInv'
PROOF
  <1> SUFFICES ASSUME CInv, SaveDataloader \/ OpenTracker \/ WriteTracker
               PROVE  CInv'
    OBVIOUS
  <1>1. /\ UNCHANGED <<global_steps, turn, phase, saved_paths, shards, crashes>>
        /\ Complete(global_steps)
        /\ \A role \in RoleSet : \A s \in saved_paths[role] : s <= global_steps
    BY DEF SaveDataloader, OpenTracker, WriteTracker, workers, CInv,
           SavedSoFar, PathsAreBehind
  <1>2. CASE SaveDataloader
    <2>1. pc = "data" /\ pc' = "open" /\ tracker' = tracker
            /\ dataloaders' = dataloaders \cup {global_steps}
      BY <1>2 DEF SaveDataloader
    <2>2. CkptTypeOK'
      BY <1>1, <2>1 DEF CInv, CkptTypeOK
    <2>3. TrackedIsComplete'
      BY <1>1, <2>1 DEF CInv, TrackedIsComplete, Complete
    <2>4. TrackerIsBehind' /\ PathsAreBehind' /\ SavedSoFar'
      BY <1>1, <2>1 DEF CInv, TrackerIsBehind, PathsAreBehind, SavedSoFar, Complete
    <2> QED BY <2>2, <2>3, <2>4 DEF CInv
  <1>3. CASE OpenTracker
    <2>1. pc = "open" /\ pc' = "write" /\ tracker' = Truncated
            /\ dataloaders' = dataloaders
      BY <1>3 DEF OpenTracker
    <2>2. CkptTypeOK'
      BY <1>1, <2>1 DEF CInv, CkptTypeOK
    <2>3. TrackedIsComplete' /\ TrackerIsBehind' /\ PathsAreBehind'
      BY <1>1, <2>1 DEF TrackedIsComplete, TrackerIsBehind, PathsAreBehind
    <2>4. SavedSoFar'
      BY <1>1, <2>1 DEF CInv, SavedSoFar, Complete
    <2> QED BY <2>2, <2>3, <2>4 DEF CInv
  <1>4. CASE WriteTracker
    <2>1. pc = "write" /\ pc' = "end" /\ tracker' = global_steps
            /\ dataloaders' = dataloaders
      BY <1>4 DEF WriteTracker
    <2>2. CkptTypeOK'
      BY <1>1, <2>1 DEF CInv, CkptTypeOK
    <2>3. TrackedIsComplete'
      BY <1>1, <2>1 DEF CInv, SavedSoFar, TrackedIsComplete, Complete
    <2>4. TrackerIsBehind' /\ PathsAreBehind' /\ SavedSoFar'
      BY <1>1, <2>1 DEF CInv, CkptTypeOK, TrackerIsBehind, PathsAreBehind, SavedSoFar
    <2> QED BY <2>2, <2>3, <2>4 DEF CInv
  <1> QED BY <1>2, <1>3, <1>4

(* A crash leaves the disk, and forgets what the managers remembered.       *)
LEMMA CrashCInv == CInv /\ (Crash \/ Resume) => CInv'
PROOF
  <1> SUFFICES ASSUME CInv, Crash \/ Resume PROVE CInv'
    OBVIOUS
  <1>1. CASE Crash
    <2>1. /\ crashes' = crashes + 1 /\ crashes < MaxCrashes
          /\ pc' = "down" /\ turn' = 1
          /\ phase' = AllRanks("idle")
          /\ saved_paths' = [r \in RoleSet |-> {}]
          /\ UNCHANGED <<global_steps, shards, dataloaders, tracker>>
      BY <1>1 DEF Crash, disk
    <2>2. CkptTypeOK'
      BY <2>1, CheckpointAssumption DEF CInv, CkptTypeOK, AllRanks, Phases
    <2>3. TrackedIsComplete'
      BY <2>1 DEF CInv, TrackedIsComplete, Complete
    <2> QED BY <2>1, <2>2, <2>3
            DEF CInv, TrackerIsBehind, PathsAreBehind, SavedSoFar
  <1>2. CASE Resume
    <2>1. /\ pc = "down"
          /\ \/ /\ pc' = "train" /\ global_steps' = tracker + 1
                /\ tracker # Truncated
             \/ pc' = "broken" /\ global_steps' = global_steps
          /\ UNCHANGED <<turn, phase, saved_paths, shards, dataloaders,
                         tracker, crashes>>
      BY <1>2 DEF Resume, workers, disk, NoFile, Truncated
    <2>2. tracker # Truncated => tracker \in Nat
      BY DEF CInv, CkptTypeOK
    <2>3. CkptTypeOK'
      BY <2>1, <2>2 DEF CInv, CkptTypeOK
    <2>4. TrackedIsComplete'
      BY <2>1 DEF CInv, TrackedIsComplete, Complete
    <2> QED BY <2>1, <2>2, <2>3, <2>4
            DEF CInv, TrackerIsBehind, PathsAreBehind, SavedSoFar
  <1> QED BY <1>1, <1>2

(* The actions together.                                                    *)
LEMMA NextCInv ==
  ASSUME KeepsMoreThanOne
  PROVE  CInv /\ [Next]_ckptVars => CInv'
PROOF
  <1> SUFFICES ASSUME CInv, [Next]_ckptVars PROVE CInv'
    OBVIOUS
  <1>1. CASE Train
    BY <1>1, TrainCInv
  <1>2. ASSUME NEW r \in Ranks, Prepare(r) \/ OpenShard(r) \/ WriteShard(r)
        PROVE  CInv'
    BY <1>2, PrepareCInv, ShardCInv
  <1>3. CASE FinishRole
    BY <1>3, FinishRoleCInv
  <1>4. CASE SaveDataloader \/ OpenTracker \/ WriteTracker
    BY <1>4, TrackerCInv
  <1>5. CASE EndStep
    BY <1>5, EndStepCInv
  <1>6. CASE Crash \/ Resume
    BY <1>6, CrashCInv
  <1>7. CASE UNCHANGED ckptVars
    BY <1>7 DEF ckptVars, driver, workers, disk, CInv, CkptTypeOK,
       TrackedIsComplete, TrackerIsBehind, PathsAreBehind, SavedSoFar,
       Complete, Shard, ShardsOf, Saving
  <1> QED BY <1>1, <1>2, <1>3, <1>4, <1>5, <1>6, <1>7 DEF Next, Stopped

(* Unless rotation keeps a single checkpoint of a role, the checkpoint that *)
(* the tracker names is complete, wherever a job died: in the middle of     *)
(* removing, of writing shards on any rank, or between the roles.           *)
THEOREM TrackerIsSafe ==
  ASSUME KeepsMoreThanOne
  PROVE  Spec => []TrackedIsComplete
PROOF
  <1>1. CInv => TrackedIsComplete
    BY DEF CInv
  <1> QED BY InitCInv, NextCInv, <1>1, PTL DEF Spec

(* Every step keeps the types, whatever the limits.                         *)
LEMMA TypeNext ==
  ASSUME CkptTypeOK, [Next]_ckptVars
  PROVE  CkptTypeOK'
PROOF
  <1> USE DEF CkptTypeOK
  <1>1. CASE Train
    BY <1>1, CheckpointAssumption DEF Train, AllRanks, Phases, disk
  <1>2. CASE EndStep
    BY <1>2 DEF EndStep, workers, disk
  <1>3. ASSUME NEW r \in Ranks, Prepare(r)
        PROVE  CkptTypeOK'
    <2>1. /\ saved_paths' \in [RoleSet -> SUBSET (Nat \ {0})]
          /\ shards' \subseteq shards
      BY <1>3, SavingIsARole DEF Prepare, Rotate
    <2> QED BY <1>3, <2>1 DEF Prepare, Phases, driver
  <1>4. ASSUME NEW r \in Ranks, OpenShard(r) \/ WriteShard(r)
        PROVE  CkptTypeOK'
    <2>1. Shard(r) \in [role : RoleSet, step : Nat \ {0}, rank : Ranks]
      BY SavingIsARole DEF Shard
    <2> QED BY <1>4, <2>1 DEF OpenShard, WriteShard, Phases, driver
  <1>5. CASE FinishRole
    <2>1. saved_paths' \in [RoleSet -> SUBSET (Nat \ {0})]
      BY <1>5, SavingIsARole DEF FinishRole
    <2>2. turn' \in 1 .. Len(Roles)
      BY <1>5, CheckpointAssumption DEF FinishRole
    <2> QED BY <1>5, <2>1, <2>2 DEF FinishRole, AllRanks, Phases, disk
  <1>6. CASE SaveDataloader \/ OpenTracker \/ WriteTracker
    BY <1>6 DEF SaveDataloader, OpenTracker, WriteTracker, workers
  <1>7. CASE Crash
    BY <1>7, CheckpointAssumption DEF Crash, AllRanks, Phases, disk
  <1>8. CASE Resume
    BY <1>8 DEF Resume, workers, disk, NoFile, Truncated
  <1>9. CASE UNCHANGED ckptVars
    BY <1>9 DEF ckptVars, driver, workers, disk
  <1> QED BY <1>1, <1>2, <1>3, <1>4, <1>5, <1>6, <1>7, <1>8, <1>9
          DEF Next, Stopped

(* CkptTypeOK is an invariant, for every limit on checkpoints.              *)
THEOREM CkptTypeCorrect == Spec => []CkptTypeOK
PROOF
  <1>1. Init => CkptTypeOK
    BY InitCInv DEF CInv
  <1> QED BY <1>1, TypeNext, PTL DEF Spec

(* A resume fails only for the empty tracker, since the checkpoint that any *)
(* other tracker names is complete.                                         *)
LEMMA BreakingNext ==
  ASSUME CInv, OnlyTruncationBreaks, [Next]_ckptVars
  PROVE  OnlyTruncationBreaks'
PROOF
  <1>1. CASE Resume
    BY <1>1 DEF Resume, disk, CInv, TrackedIsComplete, OnlyTruncationBreaks
  <1>2. CASE Train \/ EndStep \/ Crash \/ FinishRole
    BY <1>2 DEF Train, EndStep, Crash, FinishRole, OnlyTruncationBreaks
  <1>3. CASE \E r \in Ranks : Prepare(r) \/ OpenShard(r) \/ WriteShard(r)
    BY <1>3 DEF Prepare, OpenShard, WriteShard, driver, OnlyTruncationBreaks
  <1>4. CASE SaveDataloader \/ OpenTracker \/ WriteTracker
    BY <1>4 DEF SaveDataloader, OpenTracker, WriteTracker, OnlyTruncationBreaks
  <1>5. CASE Stopped \/ UNCHANGED ckptVars
    BY <1>5 DEF Stopped, ckptVars, driver, disk, OnlyTruncationBreaks
  <1> QED BY <1>1, <1>2, <1>3, <1>4, <1>5 DEF Next

(* A run that resumes fails only if a crash truncated the tracker: the step *)
(* that a whole tracker names is always loaded, unless a limit is 1.        *)
THEOREM OnlyTruncation ==
  ASSUME KeepsMoreThanOne
  PROVE  Spec => []OnlyTruncationBreaks
PROOF
  <1>1. Init => OnlyTruncationBreaks
    BY DEF Init, OnlyTruncationBreaks
  <1>2. CInv /\ OnlyTruncationBreaks /\ [Next]_ckptVars => OnlyTruncationBreaks'
    BY BreakingNext
  <1> QED BY InitCInv, NextCInv, <1>1, <1>2, PTL DEF Spec

-----------------------------------------------------------------------------
(* A crash costs little.  Between the tracker and the last finished step    *)
(* lies no step at which a save was due, which the remainder of that step   *)
(* by save_freq measures.                                                   *)
NoneMissed(step) == step - tracker <= step % SaveFreq

LInv ==
    /\ global_steps \in Nat \ {0}
    /\ tracker \in Nat \cup {Truncated}
    /\ pc \in {"train", "save", "data", "open", "done"} =>
          /\ tracker \in 0 .. global_steps - 1
          /\ NoneMissed(global_steps - 1)
    /\ pc = "write" => tracker = Truncated
    /\ pc = "end" => tracker \in 0 .. global_steps /\ NoneMissed(global_steps)
    /\ (pc \in {"down", "broken"} /\ tracker # Truncated) =>
          tracker \in 0 .. global_steps /\ NoneMissed(global_steps - 1)
    /\ pc \in {"train", "save", "data", "open", "write", "end",
               "down", "done", "broken"}

(* The remainder grows by one until it wraps around.                        *)
LEMMA RemainderOfPrevious ==
  ASSUME NEW s \in Nat \ {0}, NEW f \in Nat \ {0}
  PROVE  /\ s % f \in 0 .. f - 1
         /\ (s - 1) % f \in 0 .. f - 1
         /\ s % f # 0 => (s - 1) % f = (s % f) - 1
PROOF
  <1> DEFINE q1 == s \div f
             r1 == s % f
             q2 == (s - 1) \div f
             r2 == (s - 1) % f
  <1>1. q1 \in Nat /\ r1 \in 0 .. f - 1 /\ s = f * q1 + r1
    OBVIOUS
  <1>2. q2 \in Nat /\ r2 \in 0 .. f - 1 /\ s - 1 = f * q2 + r2
    <2>1. s - 1 \in Nat
      OBVIOUS
    <2> QED BY <2>1
  <1> HIDE DEF q1, r1, q2, r2
  <1>3. ASSUME NEW a \in Nat, NEW b \in Nat, a < b
        PROVE  f * a + f <= f * b
    <2>1. PICK k \in Nat : b = (a + 1) + k
      <3>1. b - (a + 1) \in Nat /\ b = (a + 1) + (b - (a + 1))
        BY <1>3
      <3> QED BY <3>1
    <2>2. f * b = f * a + f + f * k /\ f * k \in Nat
      BY <2>1
    <2> QED BY <2>2
  <1>4. ASSUME r1 # 0 PROVE q1 = q2
    <2>1. ~(q2 < q1)
      <3> SUFFICES ASSUME q2 < q1 PROVE FALSE
        OBVIOUS
      <3>1. f * q2 + f <= f * q1
        BY <1>1, <1>2, <1>3
      <3> QED BY <3>1, <1>1, <1>2, <1>4
    <2>2. ~(q1 < q2)
      <3> SUFFICES ASSUME q1 < q2 PROVE FALSE
        OBVIOUS
      <3>1. f * q1 + f <= f * q2
        BY <1>1, <1>2, <1>3
      <3> QED BY <3>1, <1>1, <1>2
    <2> QED BY <2>1, <2>2, <1>1, <1>2
  <1>5. r1 # 0 => r2 = r1 - 1
    BY <1>1, <1>2, <1>4
  <1> QED BY <1>1, <1>2, <1>5 DEF r1, r2

(* The distance from the tracker to the last step is reset by a save.       *)
LEMMA NextLInv ==
  ASSUME SaveFreq > 0, LInv, [Next]_ckptVars
  PROVE  LInv'
PROOF
  <1>0. SaveFreq \in Nat \ {0}
    BY CheckpointAssumption
  <1>1. CASE Train
    <2>1. /\ pc = "train" /\ UNCHANGED <<global_steps, tracker>>
          /\ \/ pc' = "save"
             \/ pc' = "end" /\ global_steps % SaveFreq # 0
      BY <1>1 DEF Train, SaveDue, disk
    <2>2. global_steps % SaveFreq # 0 =>
            (global_steps - 1) % SaveFreq = (global_steps % SaveFreq) - 1
      BY <1>0, RemainderOfPrevious DEF LInv
    <2>3. global_steps % SaveFreq \in Nat
      BY <1>0, RemainderOfPrevious DEF LInv
    <2> QED BY <2>1, <2>2, <2>3 DEF LInv, NoneMissed
  <1>2. CASE EndStep
    <2>1. /\ pc = "end" /\ pc' \in {"done", "train"}
          /\ global_steps' = global_steps + 1 /\ tracker' = tracker
      BY <1>2 DEF EndStep, disk
    <2>2. global_steps' - 1 = global_steps
      BY <2>1 DEF LInv
    <2> QED BY <2>1, <2>2 DEF LInv, NoneMissed
  <1>3. CASE \/ \E r \in Ranks : Prepare(r) \/ OpenShard(r) \/ WriteShard(r)
             \/ FinishRole \/ SaveDataloader
    <2>1. /\ pc \in {"save", "data"} /\ pc' \in {"save", "data", "open"}
          /\ UNCHANGED <<global_steps, tracker>>
      BY <1>3 DEF Prepare, OpenShard, WriteShard, FinishRole, SaveDataloader,
         driver, disk
    <2> QED BY <2>1 DEF LInv, NoneMissed
  <1>4. CASE OpenTracker
    BY <1>4 DEF OpenTracker, LInv, NoneMissed, Truncated
  <1>5. CASE WriteTracker
    <2>1. /\ pc' = "end" /\ tracker' = global_steps
          /\ global_steps' = global_steps
      BY <1>5 DEF WriteTracker
    <2>2. global_steps % SaveFreq >= 0
      BY <1>0, RemainderOfPrevious DEF LInv
    <2> QED BY <2>1, <2>2 DEF LInv, NoneMissed
  <1>6. CASE Crash
    <2>1. /\ pc \in {"train", "save", "data", "open", "write", "end"}
          /\ pc' = "down" /\ UNCHANGED <<global_steps, tracker>>
      BY <1>6 DEF Crash, disk, LInv
    <2> DEFINE now == global_steps % SaveFreq
               before == (global_steps - 1) % SaveFreq
    <2>2. global_steps \in Nat \ {0}
      BY DEF LInv
    <2>3. CASE pc = "end"
      <3>1. /\ now \in 0 .. SaveFreq - 1 /\ before \in 0 .. SaveFreq - 1
            /\ now # 0 => before = now - 1
        BY <1>0, <2>2, RemainderOfPrevious
      <3>2. tracker \in 0 .. global_steps /\ global_steps - tracker <= now
        BY <2>3 DEF LInv, NoneMissed
      <3> HIDE DEF now, before
      <3>3. (global_steps - 1) - tracker <= before
        BY <2>2, <3>1, <3>2, <1>0
      <3>4. NoneMissed(global_steps - 1)
        BY <3>3 DEF NoneMissed, before
      <3> QED BY <2>1, <2>3, <3>2, <3>4 DEF LInv, NoneMissed
    <2>4. CASE pc # "end"
      BY <2>1, <2>4 DEF LInv, NoneMissed
    <2> QED BY <2>3, <2>4
  <1>7. CASE Resume
    <2>1. /\ pc = "down" /\ tracker' = tracker
          /\ \/ /\ pc' = "train" /\ global_steps' = tracker + 1
                /\ tracker # Truncated
             \/ pc' = "broken" /\ global_steps' = global_steps
      BY <1>7 DEF Resume, disk, NoFile, Truncated
    <2>2. CASE pc' = "broken"
      BY <2>1, <2>2 DEF LInv, NoneMissed
    <2>3. CASE pc' = "train"
      <3>1. tracker \in Nat /\ global_steps' - 1 = tracker
        BY <2>1, <2>3 DEF LInv
      <3>2. tracker % SaveFreq >= 0
        BY <3>1, <1>0
      <3> QED BY <2>1, <2>3, <3>1, <3>2 DEF LInv, NoneMissed
    <2> QED BY <2>1, <2>2, <2>3
  <1>8. CASE UNCHANGED ckptVars
    BY <1>8 DEF ckptVars, driver, disk, LInv, NoneMissed
  <1> QED
    BY <1>1, <1>2, <1>3, <1>4, <1>5, <1>6, <1>7, <1>8 DEF Next, Stopped

(* A crash costs at most save_freq steps, for every save_freq, any number   *)
(* of ranks, roles and crashes, and whatever the limits on checkpoints.     *)
THEOREM CrashesCostLittle == Spec => []LittleIsLost
PROOF
  <1>1. CASE SaveFreq > 0
    <2>0. SaveFreq \in Nat \ {0}
      BY <1>1, CheckpointAssumption
    <2>1. Init => LInv
      <3>1. 0 % SaveFreq >= 0
        BY <2>0
      <3> QED BY <3>1 DEF Init, LInv, NoneMissed, NoFile
    <2>2. LInv /\ [Next]_ckptVars => LInv'
      BY <1>1, NextLInv
    <2>3. LInv => LittleIsLost
      <3> SUFFICES ASSUME LInv, tracker # Truncated
                   PROVE  global_steps - tracker \in 0 .. SaveFreq
        BY DEF LittleIsLost
      <3>1. /\ global_steps % SaveFreq \in 0 .. SaveFreq - 1
            /\ (global_steps - 1) % SaveFreq \in 0 .. SaveFreq - 1
        BY <2>0, RemainderOfPrevious DEF LInv
      <3> QED BY <2>0, <3>1 DEF LInv, NoneMissed
    <2> QED BY <2>1, <2>2, <2>3, PTL DEF Spec
  <1>2. CASE ~(SaveFreq > 0)
    <2>1. LittleIsLost
      BY <1>2 DEF LittleIsLost
    <2> QED BY <2>1, PTL
  <1> QED BY <1>1, <1>2

-----------------------------------------------------------------------------
(* Old checkpoints do not pile up.  What is on disk of a role is what this  *)
(* run has saved and remembers, what it is saving, and what earlier runs    *)
(* left; a crash adds the first two to the third.                           *)
Rotated(role) == pc = "save" /\ Saving = role /\ phase[Rank0] # "entered"
BeingSaved(role) == {s \in {global_steps} : Rotated(role)}
Leftover(role) == StepsOnDisk(role) \ (saved_paths[role] \cup BeingSaved(role))

KeptSteps(role) ==
    LET keep == MaxToKeep[role]
    IN  keep > 0 =>
          /\ Cardinality(saved_paths[role]) <= keep
          /\ Rotated(role) => Cardinality(saved_paths[role]) <= keep - 1
          /\ IsFiniteSet(StepsOnDisk(role))
          /\ Cardinality(Leftover(role)) <= keep * crashes

(* No rank writes before every rank, and so rank 0, has passed the first    *)
(* barrier.                                                                 *)
BarrierHolds ==
    \A r \in Ranks : phase[r] \in {"writing", "saved"} =>
        \A q \in Ranks : phase[q] # "entered"

KInv ==
    /\ \A role \in RoleSet : IsFiniteSet(saved_paths[role])
    /\ \A role \in RoleSet : KeptSteps(role)
    /\ BarrierHolds

(* After a rotation there is room for one more checkpoint: of the steps     *)
(* that are kept, all but the oldest are newer than the oldest.             *)
LEMMA RotationMakesRoom ==
  ASSUME NEW paths \in SUBSET Nat, IsFiniteSet(paths),
         NEW keep \in Nat \ {0}
  PROVE  Cardinality(paths \ Expired(paths, keep)) <= keep - 1
PROOF
  <1> DEFINE kept == paths \ Expired(paths, keep)
  <1>1. IsFiniteSet(kept) /\ Cardinality(kept) \in Nat
    BY FS_Subset, FS_CardinalityType
  <1>2. \A s \in kept : Cardinality(Newer(paths, s)) < keep - 1
    <2> SUFFICES ASSUME NEW s \in kept
                 PROVE  Cardinality(Newer(paths, s)) < keep - 1
      OBVIOUS
    <2>1. IsFiniteSet(Newer(paths, s))
      BY FS_Subset DEF Newer
    <2>2. Cardinality(Newer(paths, s)) \in Nat
      BY <2>1, FS_CardinalityType
    <2>3. ~(Cardinality(Newer(paths, s)) >= keep - 1)
      BY DEF Expired
    <2> QED BY <2>2, <2>3
  <1> HIDE DEF kept
  <1>3. CASE kept = {}
    BY <1>3, FS_EmptySet DEF kept
  <1>4. CASE kept # {}
    <2>1. kept \in SUBSET Nat /\ kept \subseteq paths
      BY DEF kept
    <2>2. PICK s \in kept : \A t \in kept : s <= t
      BY <1>4, <2>1, LeastExists
    <2>3. kept \ {s} \subseteq Newer(paths, s)
      BY <2>1, <2>2 DEF Newer
    <2>4. IsFiniteSet(Newer(paths, s))
      BY FS_Subset DEF Newer
    <2>5. /\ Cardinality(kept \ {s}) <= Cardinality(Newer(paths, s))
          /\ Cardinality(Newer(paths, s)) \in Nat
      BY <2>3, <2>4, FS_Subset, FS_CardinalityType
    <2>6. Cardinality(kept \ {s}) = Cardinality(kept) - 1
      BY <1>1, FS_RemoveElement
    <2> QED BY <1>1, <1>2, <2>5, <2>6 DEF kept
  <1> QED BY <1>3, <1>4

(* What the invariant says of a role after a step that removes shards,      *)
(* unless it lets go of something it had saved or was saving.               *)
LEMMA LeftoverShrinks ==
  ASSUME NEW role \in RoleSet, KeptSteps(role), MaxToKeep[role] > 0,
         IsFiniteSet(StepsOnDisk(role)),
         StepsOnDisk(role)' \subseteq StepsOnDisk(role) \cup BeingSaved(role)',
         StepsOnDisk(role)' \cap (saved_paths[role] \cup BeingSaved(role))
           \subseteq saved_paths'[role] \cup BeingSaved(role)',
         crashes' = crashes, crashes \in Nat
  PROVE  /\ IsFiniteSet(StepsOnDisk(role)')
         /\ Cardinality(Leftover(role)') <= MaxToKeep[role] * crashes
PROOF
  <1>1. Leftover(role)' \subseteq Leftover(role)
    BY DEF Leftover
  <1>2. IsFiniteSet(Leftover(role))
    BY FS_Subset DEF Leftover
  <1>3. /\ Cardinality(Leftover(role)') <= Cardinality(Leftover(role))
        /\ Cardinality(Leftover(role)) \in Nat
        /\ Cardinality(Leftover(role)') \in Nat
    BY <1>1, <1>2, FS_Subset, FS_CardinalityType
  <1>4. IsFiniteSet({global_steps'}) /\ BeingSaved(role)' \subseteq {global_steps'}
    BY FS_Singleton DEF BeingSaved
  <1>5. IsFiniteSet(StepsOnDisk(role) \cup BeingSaved(role)')
    BY <1>4, FS_Subset, FS_Union
  <1>6. IsFiniteSet(StepsOnDisk(role)')
    BY <1>5, FS_Subset
  <1>7. Cardinality(Leftover(role)) <= MaxToKeep[role] * crashes
    BY DEF KeptSteps
  <1>8. MaxToKeep[role] * crashes \in Nat
    BY CheckpointAssumption
  <1> QED BY <1>3, <1>6, <1>7, <1>8

(* Rank 0 removes the oldest; what it forgets is no longer on disk.         *)
LEMMA PrepareKInv ==
  ASSUME CkptTypeOK, KInv, NEW r \in Ranks, Prepare(r)
  PROVE  KInv'
PROOF
  <1> DEFINE old == Expired(saved_paths[Saving], MaxToKeep[Saving])
  <1>1. /\ pc = "save" /\ phase[r] = "entered"
        /\ phase' = [phase EXCEPT ![r] = "ready"]
        /\ UNCHANGED <<pc, global_steps, turn, crashes>>
    BY DEF Prepare, driver
  <1>2. Saving \in RoleSet /\ Saving' = Saving
    BY <1>1, SavingIsARole DEF Saving
  <1>3. phase \in [Ranks -> Phases] /\ saved_paths \in [RoleSet -> SUBSET (Nat \ {0})]
          /\ crashes \in Nat /\ Rank0 \in Ranks
    BY CheckpointAssumption DEF CkptTypeOK
  <1>4. BarrierHolds'
    BY <1>1, <1>3 DEF KInv, BarrierHolds
  <1>5. CASE r # Rank0
    <2>1. UNCHANGED <<saved_paths, shards>> /\ phase'[Rank0] = phase[Rank0]
      BY <1>1, <1>3, <1>5 DEF Prepare
    <2>2. \A role \in RoleSet : /\ Rotated(role)' <=> Rotated(role)
                                /\ StepsOnDisk(role)' = StepsOnDisk(role)
      BY <1>1, <1>2, <2>1 DEF Rotated, StepsOnDisk
    <2>3. \A role \in RoleSet : KeptSteps(role)'
      BY <1>1, <2>1, <2>2 DEF KInv, KeptSteps, Leftover, BeingSaved
    <2> QED BY <1>4, <2>1, <2>3 DEF KInv
  <1>6. CASE r = Rank0
    <2>1. /\ saved_paths' = [saved_paths EXCEPT ![Saving] = @ \ old]
          /\ shards' = {f \in shards : ~(f.role = Saving /\ f.step \in old)}
      BY <1>6 DEF Prepare, Rotate
    <2> HIDE DEF old
    <2>2. \A role \in RoleSet : saved_paths'[role] \subseteq saved_paths[role]
      BY <1>3, <2>1
    <2>3. \A role \in RoleSet : IsFiniteSet(saved_paths'[role])
      BY <2>2, FS_Subset DEF KInv
    <2>4. ASSUME NEW role \in RoleSet, MaxToKeep[role] > 0
          PROVE  /\ Cardinality(saved_paths'[role]) <= MaxToKeep[role]
                 /\ Rotated(role)' =>
                      Cardinality(saved_paths'[role]) <= MaxToKeep[role] - 1
                 /\ IsFiniteSet(StepsOnDisk(role)')
                 /\ Cardinality(Leftover(role)') <= MaxToKeep[role] * crashes'
      <3>1. MaxToKeep[role] \in Nat \ {0}
        BY <2>4, CheckpointAssumption
      <3>2. /\ IsFiniteSet(saved_paths[role]) /\ IsFiniteSet(saved_paths'[role])
            /\ Cardinality(saved_paths'[role]) <= Cardinality(saved_paths[role])
            /\ Cardinality(saved_paths[role]) \in Nat
            /\ Cardinality(saved_paths'[role]) \in Nat
        BY <2>2, <2>3, FS_Subset, FS_CardinalityType DEF KInv
      <3>3. /\ Cardinality(saved_paths[role]) <= MaxToKeep[role]
            /\ IsFiniteSet(StepsOnDisk(role)) /\ KeptSteps(role)
        BY <2>4 DEF KInv, KeptSteps
      <3>4. Cardinality(saved_paths'[role]) <= MaxToKeep[role]
        BY <3>1, <3>2, <3>3
      <3>5. Rotated(role)' => Cardinality(saved_paths'[role]) <= MaxToKeep[role] - 1
        <4> SUFFICES ASSUME role = Saving
                     PROVE  Cardinality(saved_paths'[role]) <= MaxToKeep[role] - 1
          BY <1>2 DEF Rotated
        <4>1. saved_paths'[role] =
                saved_paths[role] \ Expired(saved_paths[role], MaxToKeep[role])
          BY <1>3, <2>1 DEF old
        <4> QED BY <1>3, <3>1, <3>2, <4>1, RotationMakesRoom
      <3>6. StepsOnDisk(role)' \subseteq StepsOnDisk(role) \cup BeingSaved(role)'
        BY <2>1 DEF StepsOnDisk
      <3>7. BeingSaved(role) = {}
        BY <1>1, <1>6 DEF BeingSaved, Rotated
      <3>8. StepsOnDisk(role)' \cap saved_paths[role] \subseteq saved_paths'[role]
        <4>1. CASE role = Saving
          BY <1>3, <2>1, <4>1 DEF StepsOnDisk
        <4>2. CASE role # Saving
          BY <1>3, <2>1, <4>2 DEF StepsOnDisk
        <4> QED BY <4>1, <4>2
      <3>9. StepsOnDisk(role)' \cap (saved_paths[role] \cup BeingSaved(role))
              \subseteq saved_paths'[role] \cup BeingSaved(role)'
        BY <3>7, <3>8
      <3>10. /\ IsFiniteSet(StepsOnDisk(role)')
             /\ Cardinality(Leftover(role)') <= MaxToKeep[role] * crashes
        BY <1>1, <1>3, <2>4, <3>3, <3>6, <3>9, LeftoverShrinks
      <3> QED BY <1>1, <3>4, <3>5, <3>10
    <2>5. \A role \in RoleSet : KeptSteps(role)'
      BY <2>4 DEF KeptSteps
    <2> QED BY <1>4, <2>3, <2>5 DEF KInv
  <1> QED BY <1>5, <1>6

(* Shards of the step being saved come and go.                              *)
LEMMA ShardKInv ==
  ASSUME CkptTypeOK, KInv, NEW r \in Ranks, OpenShard(r) \/ WriteShard(r)
  PROVE  KInv'
PROOF
  <1>1. /\ pc = "save"
        /\ UNCHANGED <<pc, global_steps, turn, crashes, saved_paths>>
        /\ shards' = shards \ {Shard(r)} \/ shards' = shards \cup {Shard(r)}
    BY DEF OpenShard, WriteShard, driver
  <1>2. phase \in [Ranks -> Phases] /\ crashes \in Nat /\ Rank0 \in Ranks
    BY CheckpointAssumption DEF CkptTypeOK
  <1>3. \A q \in Ranks : phase[q] # "entered" /\ phase'[q] # "entered"
    BY <1>2 DEF OpenShard, WriteShard, KInv, BarrierHolds
  <1>4. BarrierHolds'
    BY <1>3 DEF BarrierHolds
  <1>5. \A role \in RoleSet : /\ Rotated(role)' <=> Rotated(role)
                              /\ BeingSaved(role)' = BeingSaved(role)
    BY <1>1, <1>2, <1>3 DEF Rotated, BeingSaved, Saving
  <1>6. BeingSaved(Saving) = {global_steps}
    BY <1>1, <1>2, <1>3 DEF Rotated, BeingSaved
  <1>7. ASSUME NEW role \in RoleSet
        PROVE  StepsOnDisk(role)' \subseteq StepsOnDisk(role) \cup BeingSaved(role)'
    <2>1. \A f \in shards' : f \in shards \/ (f.role = Saving /\ f.step = global_steps)
      BY <1>1 DEF Shard
    <2> QED BY <1>5, <1>6, <2>1 DEF StepsOnDisk
  <1>8. ASSUME NEW role \in RoleSet, MaxToKeep[role] > 0
        PROVE  KeptSteps(role)'
    <2>1. IsFiniteSet(StepsOnDisk(role)) /\ KeptSteps(role)
      BY <1>8 DEF KInv, KeptSteps
    <2>2. /\ IsFiniteSet(StepsOnDisk(role)')
          /\ Cardinality(Leftover(role)') <= MaxToKeep[role] * crashes
      BY <1>1, <1>2, <1>5, <1>7, <1>8, <2>1, LeftoverShrinks
    <2> QED BY <1>1, <1>5, <2>1, <2>2 DEF KeptSteps
  <1>9. \A role \in RoleSet : KeptSteps(role)'
    BY <1>8 DEF KeptSteps
  <1> QED BY <1>1, <1>4, <1>9 DEF KInv

(* What was being saved is now remembered.                                  *)
LEMMA FinishRoleKInv ==
  ASSUME CkptTypeOK, KInv, FinishRole
  PROVE  KInv'
PROOF
  <1>1. /\ pc = "save"
        /\ \A r \in Ranks : phase[r] = "saved"
        /\ saved_paths' = [saved_paths EXCEPT ![Saving] = @ \cup {global_steps}]
        /\ phase' \in {AllRanks("entered"), AllRanks("idle")}
        /\ phase' = AllRanks("entered") \/ pc' = "data"
        /\ UNCHANGED <<global_steps, shards, crashes>>
    BY DEF FinishRole, disk
  <1>2. Saving \in RoleSet /\ crashes \in Nat /\ Rank0 \in Ranks
          /\ saved_paths \in [RoleSet -> SUBSET (Nat \ {0})]
    BY SavingIsARole, CheckpointAssumption DEF CkptTypeOK
  <1>3. BarrierHolds'
    BY <1>1 DEF BarrierHolds, AllRanks
  <1>4. \A role \in RoleSet : ~Rotated(role)' /\ BeingSaved(role)' = {}
    BY <1>1, <1>2 DEF Rotated, BeingSaved, AllRanks
  <1>5. Rotated(Saving) /\ BeingSaved(Saving) = {global_steps}
    BY <1>1, <1>2 DEF Rotated, BeingSaved
  <1>6. \A role \in RoleSet :
           saved_paths'[role] = saved_paths[role] \cup BeingSaved(role)
    BY <1>1, <1>2, <1>5 DEF BeingSaved, Rotated
  <1>7. \A role \in RoleSet : IsFiniteSet(saved_paths'[role])
    <2>1. \A role \in RoleSet : BeingSaved(role) \subseteq {global_steps}
      BY DEF BeingSaved
    <2>2. \A role \in RoleSet : IsFiniteSet(BeingSaved(role))
      BY <2>1, FS_Singleton, FS_Subset
    <2> QED BY <1>6, <2>2, FS_Union DEF KInv
  <1>8. ASSUME NEW role \in RoleSet, MaxToKeep[role] > 0
        PROVE  KeptSteps(role)'
    <2>1. IsFiniteSet(StepsOnDisk(role)) /\ KeptSteps(role)
            /\ StepsOnDisk(role)' = StepsOnDisk(role)
      BY <1>1, <1>8 DEF KInv, KeptSteps, StepsOnDisk
    <2>2. /\ IsFiniteSet(StepsOnDisk(role)')
          /\ Cardinality(Leftover(role)') <= MaxToKeep[role] * crashes
      BY <1>1, <1>2, <1>4, <1>6, <1>8, <2>1, LeftoverShrinks
    <2>3. MaxToKeep[role] \in Nat
      BY CheckpointAssumption
    <2>4. Cardinality(saved_paths'[role]) <= MaxToKeep[role]
      <3>1. IsFiniteSet(saved_paths[role]) /\ Cardinality(saved_paths[role]) \in Nat
        BY FS_CardinalityType DEF KInv
      <3>2. CASE role = Saving
        <4>1. Cardinality(saved_paths[role]) <= MaxToKeep[role] - 1
          BY <1>5, <1>8, <3>2 DEF KInv, KeptSteps
        <4>2. saved_paths'[role] = saved_paths[role] \cup {global_steps}
          BY <1>5, <1>6, <3>2
        <4>3. Cardinality(saved_paths'[role]) \in
                {Cardinality(saved_paths[role]), Cardinality(saved_paths[role]) + 1}
          BY <3>1, <4>2, FS_AddElement
        <4> QED BY <2>3, <3>1, <4>1, <4>3
      <3>3. CASE role # Saving
        <4>1. saved_paths'[role] = saved_paths[role]
          BY <1>1, <1>2, <3>3
        <4> QED BY <1>8, <4>1 DEF KInv, KeptSteps
      <3> QED BY <3>2, <3>3
    <2> QED BY <1>1, <1>4, <2>2, <2>4 DEF KeptSteps
  <1>9. \A role \in RoleSet : KeptSteps(role)'
    BY <1>8 DEF KeptSteps
  <1> QED BY <1>3, <1>7, <1>9 DEF KInv

(* No more is remembered and being saved than may be kept.                  *)
LEMMA OnDiskIsBounded ==
  ASSUME CkptTypeOK, KInv, NEW role \in RoleSet, MaxToKeep[role] > 0
  PROVE  Cardinality(StepsOnDisk(role)) <= MaxToKeep[role] * crashes + MaxToKeep[role]
PROOF
  <1> DEFINE P == saved_paths[role]
             B == BeingSaved(role)
             L == Leftover(role)
             D == StepsOnDisk(role)
             keep == MaxToKeep[role]
  <1>1. keep \in Nat /\ crashes \in Nat
    BY CheckpointAssumption DEF CkptTypeOK
  <1>2. IsFiniteSet(P) /\ IsFiniteSet(D) /\ Cardinality(L) <= keep * crashes
          /\ Cardinality(P) <= keep /\ (Rotated(role) => Cardinality(P) <= keep - 1)
    BY DEF KInv, KeptSteps
  <1>3. D \subseteq L \cup (P \cup B)
    BY DEF Leftover
  <1>4. IsFiniteSet(P \cup B) /\ Cardinality(P \cup B) <= keep
    <2>1. CASE Rotated(role)
      <3>1. B = {global_steps}
        BY <2>1 DEF BeingSaved
      <3> HIDE DEF P, B
      <3>2. /\ IsFiniteSet(P \cup {global_steps}) /\ Cardinality(P) \in Nat
            /\ Cardinality(P \cup {global_steps}) \in
                 {Cardinality(P), Cardinality(P) + 1}
        BY <1>2, FS_AddElement, FS_CardinalityType
      <3>3. Cardinality(P) <= keep - 1
        BY <1>2, <2>1
      <3> HIDE DEF keep
      <3> QED BY <1>1, <3>1, <3>2, <3>3
    <2>2. CASE ~Rotated(role)
      <3>1. P \cup B = P
        BY <2>2 DEF BeingSaved
      <3> QED BY <1>2, <3>1
    <2> QED BY <2>1, <2>2
  <1>5. IsFiniteSet(L)
    BY <1>2, FS_Subset DEF Leftover
  <1> HIDE DEF P, B, L, D, keep
  <1>6. /\ IsFiniteSet(L \cup (P \cup B))
        /\ Cardinality(L \cup (P \cup B)) =
             Cardinality(L) + Cardinality(P \cup B) - Cardinality(L \cap (P \cup B))
    BY <1>4, <1>5, FS_Union
  <1>7. /\ Cardinality(D) <= Cardinality(L \cup (P \cup B))
        /\ Cardinality(D) \in Nat /\ Cardinality(L) \in Nat
        /\ Cardinality(P \cup B) \in Nat /\ Cardinality(L \cap (P \cup B)) \in Nat
    <2>1. IsFiniteSet(L \cap (P \cup B))
      BY <1>5, FS_Subset
    <2> QED BY <1>2, <1>3, <1>4, <1>5, <1>6, <2>1, FS_Subset, FS_CardinalityType
  <1>8. keep * crashes \in Nat
    BY <1>1
  <1>9. Cardinality(D) <= keep * crashes + keep
    BY <1>1, <1>2, <1>4, <1>6, <1>7, <1>8
  <1> QED BY <1>9 DEF D, keep

(* A crash leaves behind what was remembered and what was being saved.      *)
LEMMA CrashKInv ==
  ASSUME CkptTypeOK, KInv, Crash
  PROVE  KInv'
PROOF
  <1>1. /\ pc' = "down" /\ phase' = AllRanks("idle") /\ crashes' = crashes + 1
        /\ saved_paths' = [role \in RoleSet |-> {}] /\ UNCHANGED shards
    BY DEF Crash, disk
  <1>2. BarrierHolds'
    BY <1>1 DEF BarrierHolds, AllRanks
  <1>3. \A role \in RoleSet : IsFiniteSet(saved_paths'[role])
    BY <1>1, FS_EmptySet
  <1>4. ASSUME NEW role \in RoleSet, MaxToKeep[role] > 0
        PROVE  KeptSteps(role)'
    <2>1. /\ ~Rotated(role)' /\ saved_paths'[role] = {}
          /\ Leftover(role)' = StepsOnDisk(role)
          /\ StepsOnDisk(role)' = StepsOnDisk(role)
      BY <1>1 DEF Rotated, BeingSaved, Leftover, StepsOnDisk
    <2>2. IsFiniteSet(StepsOnDisk(role))
            /\ Cardinality(StepsOnDisk(role))
                 <= MaxToKeep[role] * crashes + MaxToKeep[role]
      BY <1>4, OnDiskIsBounded DEF KInv, KeptSteps
    <2>3. MaxToKeep[role] * (crashes + 1) = MaxToKeep[role] * crashes + MaxToKeep[role]
      BY CheckpointAssumption DEF CkptTypeOK
    <2>4. Cardinality(saved_paths'[role]) = 0
      BY <2>1, FS_EmptySet
    <2> QED BY <1>1, <1>4, <2>1, <2>2, <2>3, <2>4, CheckpointAssumption DEF KeptSteps
  <1>5. \A role \in RoleSet : KeptSteps(role)'
    BY <1>4 DEF KeptSteps
  <1> QED BY <1>2, <1>3, <1>5 DEF KInv

(* A role's old steps are removed before its new one is written.            *)
LEMMA NextKInv == CkptTypeOK /\ KInv /\ [Next]_ckptVars => KInv'
PROOF
  <1> SUFFICES ASSUME CkptTypeOK, KInv, [Next]_ckptVars PROVE KInv'
    OBVIOUS
  <1>1. ASSUME NEW r \in Ranks, Prepare(r) \/ OpenShard(r) \/ WriteShard(r)
        PROVE  KInv'
    BY <1>1, PrepareKInv, ShardKInv
  <1>2. CASE FinishRole
    BY <1>2, FinishRoleKInv
  <1>3. CASE Crash
    BY <1>3, CrashKInv
  <1>4. CASE Train \/ EndStep \/ SaveDataloader \/ OpenTracker \/ WriteTracker
               \/ Resume \/ UNCHANGED ckptVars
    <2>1. /\ UNCHANGED <<saved_paths, shards, crashes>>
          /\ phase' = phase \/ phase' = AllRanks("entered")
      BY <1>4 DEF Train, EndStep, SaveDataloader, OpenTracker, WriteTracker,
         Resume, ckptVars, driver, workers, disk
    <2>2. BarrierHolds'
      BY <2>1 DEF KInv, BarrierHolds, AllRanks
    <2>3. \A role \in RoleSet : Rotated(role)' <=> Rotated(role)
      BY <1>4, CheckpointAssumption
         DEF Train, EndStep, SaveDataloader, OpenTracker, WriteTracker, Resume,
             ckptVars, driver, workers, AllRanks, Rotated, Saving
    <2>4. \A role \in RoleSet : BeingSaved(role)' = BeingSaved(role)
      BY <1>4, <2>3 DEF BeingSaved, Rotated, Train, EndStep, SaveDataloader,
         OpenTracker, WriteTracker, Resume, ckptVars, driver
    <2>5. \A role \in RoleSet : KeptSteps(role)'
      BY <2>1, <2>3, <2>4 DEF KInv, KeptSteps, Leftover, StepsOnDisk
    <2> QED BY <2>1, <2>2, <2>5 DEF KInv
  <1> QED BY <1>1, <1>2, <1>3, <1>4 DEF Next, Stopped

(* At any moment at most max_ckpt_to_keep checkpoints of a role are on disk *)
(* for every run of the job so far, complete or not, for any ranks, roles,  *)
(* limits and number of crashes.                                            *)
THEOREM OldCheckpointsDoNotPileUp == Spec => []RotationKeepsUp
PROOF
  <1>1. Init => KInv
    <2> SUFFICES ASSUME Init PROVE KInv
      OBVIOUS
    <2>1. /\ \A role \in RoleSet : saved_paths[role] = {}
          /\ shards = {} /\ pc = "train" /\ crashes = 0
          /\ phase = AllRanks("idle")
      BY DEF Init
    <2>2. \A role \in RoleSet : StepsOnDisk(role) = {} /\ Leftover(role) = {}
      BY <2>1 DEF StepsOnDisk, Leftover
    <2>3. ASSUME NEW role \in RoleSet, MaxToKeep[role] > 0
          PROVE  KeptSteps(role)
      <3>1. MaxToKeep[role] * crashes = 0 /\ MaxToKeep[role] \in Nat
        BY <2>1, CheckpointAssumption
      <3> QED BY <2>1, <2>2, <2>3, <3>1, FS_EmptySet DEF KeptSteps, Rotated
    <2>4. BarrierHolds
      BY <2>1 DEF BarrierHolds, AllRanks
    <2> QED BY <2>1, <2>3, <2>4, FS_EmptySet DEF KInv, KeptSteps
  <1>2. CkptTypeOK /\ KInv => RotationKeepsUp
    <2> SUFFICES ASSUME CkptTypeOK, KInv, NEW role \in RoleSet, MaxToKeep[role] > 0
                 PROVE  Cardinality(StepsOnDisk(role)) <= MaxToKeep[role] * (crashes + 1)
      BY DEF RotationKeepsUp
    <2>1. MaxToKeep[role] * (crashes + 1) = MaxToKeep[role] * crashes + MaxToKeep[role]
      BY CheckpointAssumption DEF CkptTypeOK
    <2> QED BY <2>1, OnDiskIsBounded
  <1> QED BY CkptTypeCorrect, NextKInv, <1>1, <1>2, PTL DEF Spec

=============================================================================
