-------------------------- MODULE SaveServiceProofs --------------------------
(***************************************************************************)
(* Theorems about SaveService for any processes, payloads, garbage and     *)
(* environment.  The durability results are for the POSIX build.           *)
(***************************************************************************)
EXTENDS SaveService, TLAPS

Writing == {"write_candidate", "write_backup", "replace_backup", "replace_current",
            "sync", "cleanup"}

\* What the stage a process is in says about its counter and its payload.
StageOK ==
  \A p \in Procs :
    /\ pc[p] = "begin" => want[p] \in Payloads /\ ctr[p] + 2 <= MaxTemp
    /\ pc[p] = "retain" => want[p] \in Payloads /\ ctr[p] + 3 <= MaxTemp
    /\ pc[p] \in Writing => ctr[p] >= 2 /\ cand[p] \in Profiles
    /\ mode[p] = "RecoveryAvailable" => found[p] \in Profiles

TypeInv == TypeOK /\ StageOK

-----------------------------------------------------------------------------
(* File names and contents *)

\* Absent, torn and damaged contents are contents, and no profile.
LEMMA ContentFacts ==
  /\ Absent \in Content /\ Torn \in Content
  /\ Profiles \subseteq Content
  /\ Absent \notin Profiles /\ Torn \notin Profiles
  /\ \A g \in Garbage : [rev |-> 0, data |-> g] \in Content \ Profiles
  /\ \A c \in Profiles : c.data \in Payloads /\ c.rev \in 1..MaxRevision
  /\ \A r \in 1..MaxRevision, d \in Payloads : [rev |-> r, data |-> d] \in Profiles
BY SaveAssumption DEF Content, Profiles, Absent, Torn

\* The two permanent names differ from each other and from every temporary and
\* retained name.
LEMMA FileFacts ==
  /\ Current \in Files /\ Backup \in Files /\ Current # Backup
  /\ \A n \in 1..MaxTemp : /\ ProfileTemp(n) \in Files
                           /\ BackupTemp(n) \in Files
                           /\ Corrupt(n) \in Files
  /\ \A n : /\ ProfileTemp(n) \notin {Current, Backup}
            /\ BackupTemp(n) \notin {Current, Backup}
            /\ Corrupt(n) \notin {Current, Backup}
  /\ \A m, n : /\ ProfileTemp(m) # BackupTemp(n)
               /\ ProfileTemp(m) # Corrupt(n)
BY DEF Files, Current, Backup, ProfileTemp, BackupTemp, Corrupt

\* An effect keeps the store well typed.
LEMMA EffectType ==
  ASSUME NEW d \in [Files -> Content], TypeOK, Effect(d)
  PROVE  disk' \in [Files -> Content] /\ platter' \subseteq [Files -> Content]
BY DEF Effect, TypeOK

\* So does the absence of one.
LEMMA NoEffectType ==
  ASSUME TypeOK, NoEffect
  PROVE  disk' \in [Files -> Content] /\ platter' \subseteq [Files -> Content]
BY DEF NoEffect, TypeOK

\* Whatever a read returns is some content.
LEMMA ReadsType ==
  ASSUME TypeOK, NEW f \in Files, NEW c \in Reads(f)
  PROVE  c \in Content
BY ContentFacts DEF Reads, TypeOK

-----------------------------------------------------------------------------
(* Types *)

\* The types at the start.
LEMMA InitType == Init => TypeInv
<1> SUFFICES ASSUME Init PROVE TypeInv
  OBVIOUS
<1>1. disk \in [Files -> Content] /\ platter \subseteq [Files -> Content]
  BY ContentFacts DEF Init
<1>2. TypeOK
  BY <1>1, ContentFacts, SaveAssumption DEF Init, TypeOK, Stages, Modes
<1>3. StageOK
  BY DEF Init, StageOK, Writing
<1> QED BY <1>2, <1>3 DEF TypeInv

\* A process that ends leaves nothing behind in its own variables.
LEMMA ForgetType ==
  ASSUME TypeInv, NEW gone \in SUBSET Procs, Forget(gone)
  PROVE  /\ pc' \in [Procs -> Stages] /\ ctr' \in [Procs -> 0..MaxTemp]
         /\ want' \in [Procs -> Payloads \cup {"absent"}]
         /\ curr' \in [Procs -> Content] /\ cand' \in [Procs -> Content]
         /\ mode' \in [Procs -> Modes] /\ found' \in [Procs -> Content]
         /\ result' \in [Procs -> {"none", "committed", "uncertain", "failed"}]
         /\ StageOK'
<1> USE ContentFacts, SaveAssumption
<1>1. /\ pc' \in [Procs -> Stages] /\ ctr' \in [Procs -> 0..MaxTemp]
      /\ want' \in [Procs -> Payloads \cup {"absent"}]
  BY DEF TypeInv, TypeOK, Forget, Stages
<1>2. curr' \in [Procs -> Content] /\ cand' \in [Procs -> Content]
  BY DEF TypeInv, TypeOK, Forget
<1>3. mode' \in [Procs -> Modes] /\ found' \in [Procs -> Content]
  BY DEF TypeInv, TypeOK, Forget, Modes
<1>4. result' \in [Procs -> {"none", "committed", "uncertain", "failed"}]
  BY DEF TypeInv, TypeOK, Forget
<1>5. StageOK'
  BY DEF TypeInv, TypeOK, StageOK, Forget, Writing
<1> QED BY <1>1, <1>2, <1>3, <1>4, <1>5

\* The types of what a step of p changes carry over to the whole functions.
LEMMA StepType ==
  ASSUME TypeInv, NEW p \in Procs, Step(p)
  PROVE  TypeInv'
<1> USE DEF TypeInv
<1>a. CASE Start(p)
  <2>1. TypeOK'
    BY <1>a, NoEffectType, SaveAssumption DEF Start, Goto, TypeOK, Stages
  <2>2. StageOK'
    BY <1>a DEF Start, Goto, TypeOK, StageOK, Writing
  <2> QED BY <2>1, <2>2
<1>b. CASE Load(p)
  <2>0. PICK c \in Reads(Current), b \in Reads(Backup) :
          /\ mode' \in [Procs -> Modes]
          /\ found' \in [Procs -> Content]
          /\ mode'[p] = "RecoveryAvailable" => found'[p] \in Profiles
          /\ \A q \in Procs \ {p} : mode'[q] = mode[q] /\ found'[q] = found[q]
    <3>1. PICK c \in Reads(Current), b \in Reads(Backup) :
            LET state == IF disk[Current] = Absent THEN "NewProfile"
                         ELSE IF Readable(c) THEN "Loaded"
                         ELSE IF Readable(b) THEN "RecoveryAvailable"
                         ELSE "Invalid"
            IN /\ mode' = [mode EXCEPT ![p] = state]
               /\ found' = [found EXCEPT ![p] = IF state = "RecoveryAvailable"
                                                  THEN b ELSE Absent]
      BY <1>b DEF Load
    <3>2. b \in Content
      BY ReadsType, FileFacts
    <3> QED BY <3>1, <3>2, ContentFacts DEF TypeOK, Modes, Readable
  <2>1. TypeOK'
    BY <1>b, <2>0, NoEffectType DEF Load, Goto, TypeOK, Stages
  <2>2. StageOK'
    BY <1>b, <2>0 DEF Load, Goto, TypeOK, StageOK, Writing
  <2> QED BY <2>1, <2>2
<1>c. CASE Exit(p)
  <2>1. TypeOK'
    BY <1>c, NoEffectType, ForgetType DEF Exit, TypeOK
  <2>2. StageOK'
    BY <1>c, ForgetType DEF Exit
  <2> QED BY <2>1, <2>2
<1>d. CASE Crash(p)
  <2>1. PICK d \in CrashOutcomes(p) : Effect(d)
    BY <1>d DEF Crash
  <2>2. d \in [Files -> Content]
    BY <2>1, ContentFacts DEF CrashOutcomes, TypeOK
  <2>3. disk' \in [Files -> Content] /\ platter' \subseteq [Files -> Content]
    BY <2>1, <2>2, EffectType
  <2>4. TypeOK'
    BY <1>d, <2>3, ForgetType DEF Crash, TypeOK, LockAfterDeath
  <2>5. StageOK'
    BY <1>d, ForgetType DEF Crash
  <2> QED BY <2>4, <2>5
<1>e. ASSUME NEW x \in Payloads, Commit(p, x) PROVE TypeInv'
  <2>1. TypeOK'
    BY <1>e, NoEffectType, ContentFacts DEF Commit, Goto, TypeOK, Stages
  <2>2. StageOK'
    BY <1>e DEF Commit, Goto, TypeOK, StageOK, Writing
  <2> QED BY <2>1, <2>2
<1>f. CASE BeginCommit(p)
  <2>0. want[p] \in Payloads /\ ctr[p] + 2 <= MaxTemp /\ ctr[p] \in Nat
    BY <1>f DEF BeginCommit, Attempt, Goto, TypeOK, StageOK
  <2>1. disk[Current] \in Content /\ disk[Current].rev + 1 \in 1..MaxRevision
    <3>1. disk[Current] \in Content /\ disk[Current].rev # MaxRevision
      BY <1>f, FileFacts DEF BeginCommit, TypeOK
    <3>2. disk[Current].rev \in 0..MaxRevision
      BY <3>1 DEF Content
    <3> QED BY <3>1, <3>2, SaveAssumption
  <2>2. [rev |-> disk[Current].rev + 1, data |-> want[p]] \in Profiles
    BY <2>0, <2>1, ContentFacts
  <2>3. TypeOK'
    BY <1>f, <2>0, <2>1, <2>2, NoEffectType, ContentFacts, SaveAssumption
    DEF BeginCommit, Attempt, Goto, TypeOK, Stages
  <2>4. StageOK'
    BY <1>f, <2>0, <2>2 DEF BeginCommit, Attempt, Goto, TypeOK, StageOK, Writing
  <2> QED BY <2>3, <2>4
<1>g. CASE RefuseCommit(p)
  <2>1. TypeOK'
    BY <1>g, NoEffectType, ContentFacts DEF RefuseCommit, Fails, Return, Goto, TypeOK, Stages
  <2>2. StageOK'
    BY <1>g DEF RefuseCommit, Fails, Return, Goto, TypeOK, StageOK, Writing
  <2> QED BY <2>1, <2>2
<1>h. CASE WriteCandidate(p) \/ WriteBackup(p)
  <2>1. PICK file \in Files, contents \in Content, from \in {"write_candidate", "write_backup"},
             to \in {"replace_current", "write_backup", "replace_backup"} :
          WriteTemp(p, from, file, contents, to)
    <3>1. CASE WriteCandidate(p)
      <4>1. ctr[p] \in 2..MaxTemp /\ cand[p] \in Content
        BY <3>1 DEF WriteCandidate, WriteTemp, Goto, TypeOK, StageOK, Writing
      <4>2. CandidateTempOf(p) \in Files
        BY <4>1, SaveAssumption, FileFacts DEF CandidateTempOf
      <4> QED BY <3>1, <4>1, <4>2 DEF WriteCandidate
    <3>2. CASE WriteBackup(p)
      <4>1. ctr[p] \in 2..MaxTemp /\ curr[p] \in Content
        BY <3>2 DEF WriteBackup, WriteTemp, Goto, TypeOK, StageOK, Writing
      <4>2. BackupTempOf(p) \in Files
        BY <4>1, SaveAssumption, FileFacts DEF BackupTempOf
      <4> QED BY <3>2, <4>1, <4>2 DEF WriteBackup
    <3> QED BY <1>h, <3>1, <3>2
  <2>2. disk' \in [Files -> Content] /\ platter' \subseteq [Files -> Content]
    <3>1. PICK d \in [Files -> Content] : Effect(d) \/ NoEffect
      <4>1. \A c \in Content : [disk EXCEPT ![file] = c] \in [Files -> Content]
        BY DEF TypeOK
      <4> QED BY <2>1, <4>1, ContentFacts DEF WriteTemp, TypeOK
    <3> QED BY <3>1, EffectType, NoEffectType
  <2>3. /\ pc[p] = from /\ (pc' = [pc EXCEPT ![p] = to] \/ pc' = [pc EXCEPT ![p] = "cleanup"])
        /\ UNCHANGED <<lock, ctr, want, curr, cand, mode, found, result, acked, originals>>
    BY <2>1 DEF WriteTemp, Goto
  <2>4. TypeOK'
    BY <2>2, <2>3 DEF TypeOK, Stages
  <2>5. StageOK'
    BY <2>3 DEF TypeOK, StageOK, Writing
  <2> QED BY <2>4, <2>5
<1>i. CASE RemoveTarget(p)
  <2>1. PICK f : Effect([disk EXCEPT ![f] = Absent])
    BY <1>i DEF RemoveTarget
  <2>2. [disk EXCEPT ![f] = Absent] \in [Files -> Content]
    BY ContentFacts DEF TypeOK
  <2>3. disk' \in [Files -> Content] /\ platter' \subseteq [Files -> Content]
    BY <2>1, <2>2, EffectType
  <2>4. TypeOK' /\ StageOK'
    BY <1>i, <2>3 DEF RemoveTarget, local, TypeOK, StageOK
  <2> QED BY <2>4
<1>j. CASE ReplaceBackup(p)
  <2>1. ctr[p] \in 2..MaxTemp
    BY <1>j DEF ReplaceBackup, TypeOK, StageOK, Writing
  <2>2. BackupTempOf(p) \in Files
    BY <2>1, SaveAssumption, FileFacts DEF BackupTempOf
  <2>3. Renamed(BackupTempOf(p), Backup) \in [Files -> Content]
    BY <2>2, FileFacts, ContentFacts DEF Renamed, TypeOK
  <2>4. disk' \in [Files -> Content] /\ platter' \subseteq [Files -> Content]
    BY <1>j, <2>3, EffectType, NoEffectType DEF ReplaceBackup
  <2>5. TypeOK'
    BY <1>j, <2>4 DEF ReplaceBackup, Goto, TypeOK, Stages
  <2>6. StageOK'
    BY <1>j DEF ReplaceBackup, Goto, TypeOK, StageOK, Writing
  <2> QED BY <2>5, <2>6
<1>k. CASE ReplaceCurrent(p)
  <2>1. ctr[p] \in 2..MaxTemp
    BY <1>k DEF ReplaceCurrent, TypeOK, StageOK, Writing
  <2>2. CandidateTempOf(p) \in Files
    BY <2>1, SaveAssumption, FileFacts DEF CandidateTempOf
  <2>3. Renamed(CandidateTempOf(p), Current) \in [Files -> Content]
    BY <2>2, FileFacts, ContentFacts DEF Renamed, TypeOK
  <2>4. disk' \in [Files -> Content] /\ platter' \subseteq [Files -> Content]
    BY <1>k, <2>3, EffectType, NoEffectType DEF ReplaceCurrent
  <2>5. TypeOK'
    BY <1>k, <2>4, ContentFacts
    DEF ReplaceCurrent, Succeeds, Return, Goto, TypeOK, Stages, Modes
  <2>6. StageOK'
    BY <1>k DEF ReplaceCurrent, Succeeds, Return, Goto, TypeOK, StageOK, Writing
  <2> QED BY <2>5, <2>6
<1>l. CASE SyncDirectory(p)
  <2>1. disk' \in [Files -> Content] /\ platter' \subseteq [Files -> Content]
    BY <1>l, NoEffectType DEF SyncDirectory, Synced, TypeOK
  <2>2. cand[p] \in Profiles
    BY <1>l DEF SyncDirectory, StageOK, Writing
  <2>3. TypeOK'
    <3>1. UNCHANGED <<lock, ctr, cand, found, originals>>
      BY <1>l DEF SyncDirectory, Succeeds, Return
    <3>2. acked' \in Profiles \cup {Absent}
      BY <1>l, <2>2 DEF SyncDirectory, TypeOK
    <3>3. pc' \in [Procs -> Stages] /\ mode' \in [Procs -> Modes]
      BY <1>l DEF SyncDirectory, Succeeds, Return, Goto, TypeOK, Stages, Modes
    <3>4. result' \in [Procs -> {"none", "committed", "uncertain", "failed"}]
      BY <1>l DEF SyncDirectory, Succeeds, Return, TypeOK
    <3>5. want' \in [Procs -> Payloads \cup {"absent"}] /\ curr' \in [Procs -> Content]
      BY <1>l, ContentFacts DEF SyncDirectory, Succeeds, Return, TypeOK
    <3> QED BY <2>1, <3>1, <3>2, <3>3, <3>4, <3>5 DEF TypeOK
  <2>4. StageOK'
    BY <1>l DEF SyncDirectory, Succeeds, Return, Goto, TypeOK, StageOK, Writing
  <2> QED BY <2>3, <2>4
<1>m. CASE CleanUp(p)
  <2>1. disk' \in [Files -> Content] /\ platter' \subseteq [Files -> Content]
    BY <1>m, ContentFacts, EffectType DEF CleanUp, TypeOK
  <2>2. TypeOK'
    BY <1>m, <2>1, ContentFacts DEF CleanUp, Fails, Return, Goto, TypeOK, Stages
  <2>3. StageOK'
    BY <1>m DEF CleanUp, Fails, Return, Goto, TypeOK, StageOK, Writing
  <2> QED BY <2>2, <2>3
<1>n. ASSUME NEW x \in Payloads, BeginReplacement(p, x) PROVE TypeInv'
  <2>1. TypeOK'
    BY <1>n, NoEffectType, ContentFacts DEF BeginReplacement, Goto, TypeOK, Stages
  <2>2. StageOK'
    BY <1>n DEF BeginReplacement, Goto, TypeOK, StageOK, Writing
  <2> QED BY <2>1, <2>2
<1>o. CASE RecoverBackup(p)
  <2>1. found[p].data \in Payloads
    BY <1>o, ContentFacts DEF RecoverBackup, StageOK
  <2> QED BY <1>o, <1>n, <2>1 DEF RecoverBackup
<1>p. CASE RetainCorrupt(p)
  <2>1. ctr[p] + 1 \in 1..MaxTemp /\ ctr[p] + 1 + 2 <= MaxTemp /\ want[p] \in Payloads
    BY <1>p, SaveAssumption DEF RetainCorrupt, TypeOK, StageOK
  <2>2. Renamed(Current, Corrupt(ctr[p] + 1)) \in [Files -> Content]
    BY <2>1, FileFacts, ContentFacts DEF Renamed, TypeOK
  <2>3. disk' \in [Files -> Content] /\ platter' \subseteq [Files -> Content]
    BY <1>p, <2>2, EffectType, NoEffectType DEF RetainCorrupt
  <2>4. TypeOK'
    BY <1>p, <2>1, <2>3 DEF RetainCorrupt, Goto, TypeOK, Stages
  <2>5. StageOK'
    <3>1. CASE pc' = [pc EXCEPT ![p] = "begin"]
      <4>1. ctr'[p] \in {ctr[p], ctr[p] + 1} /\ \A q \in Procs \ {p} : ctr'[q] = ctr[q]
        BY <1>p DEF RetainCorrupt, TypeOK
      <4>2. ctr'[p] + 2 <= MaxTemp
        BY <2>1, <4>1, SaveAssumption DEF TypeOK
      <4>3. UNCHANGED <<want, cand, mode, found>>
        BY <1>p, <3>1 DEF RetainCorrupt, Goto, TypeOK, Stages
      <4> QED BY <2>1, <3>1, <4>1, <4>2, <4>3 DEF TypeOK, StageOK, Writing
    <3>2. CASE pc' = [pc EXCEPT ![p] = "idle"]
      <4>1. /\ \A q \in Procs \ {p} : ctr'[q] = ctr[q] /\ want'[q] = want[q]
            /\ UNCHANGED <<cand, mode, found>>
        BY <1>p, <3>2 DEF RetainCorrupt, Goto, TypeOK, Stages
      <4> QED BY <3>2, <4>1 DEF TypeOK, StageOK, Writing
    <3> QED BY <1>p, <3>1, <3>2 DEF RetainCorrupt, Goto
  <2> QED BY <2>4, <2>5
<1> QED
  BY <1>a, <1>b, <1>c, <1>d, <1>e, <1>f, <1>g, <1>h, <1>i, <1>j, <1>k, <1>l, <1>m,
     <1>n, <1>o, <1>p DEF Step, StartOver

\* What happens outside the processes keeps the types too.
LEMMA OutsideType ==
  ASSUME TypeInv, PowerLoss \/ (\E g \in Garbage : DamageCurrent(g)) \/ DamageBackup
  PROVE  TypeInv'
<1> USE DEF TypeInv
<1>1. CASE PowerLoss
  <2>1. disk' \in [Files -> Content] /\ platter' \subseteq [Files -> Content]
    BY <1>1 DEF PowerLoss, TypeOK
  <2>2. TypeOK' /\ StageOK'
    BY <1>1, <2>1, ForgetType DEF PowerLoss, TypeOK, LockAfterDeath
  <2> QED BY <2>2
<1>2. ASSUME NEW g \in Garbage, DamageCurrent(g) PROVE TypeInv'
  <2>0. [rev |-> 0, data |-> g] \in Content
    BY ContentFacts
  <2>1. disk' \in [Files -> Content] /\ platter' \subseteq [Files -> Content]
    <3>1. disk' \in [Files -> Content]
      BY <1>2, <2>0 DEF DamageCurrent, TypeOK
    <3> QED BY <1>2, <3>1 DEF DamageCurrent
  <2>2. TypeOK' /\ StageOK'
    BY <1>2, <2>1 DEF DamageCurrent, local, TypeOK, StageOK
  <2> QED BY <2>2
<1>3. CASE DamageBackup
  <2>1. [disk EXCEPT ![Backup] = Torn] \in [Files -> Content]
    BY ContentFacts DEF TypeOK
  <2>2. disk' \in [Files -> Content] /\ platter' \subseteq [Files -> Content]
    BY <1>3, <2>1, EffectType DEF DamageBackup
  <2>3. TypeOK' /\ StageOK'
    BY <1>3, <2>2 DEF DamageBackup, local, TypeOK, StageOK
  <2> QED BY <2>3
<1> QED BY <1>1, <1>2, <1>3

\* Every variable keeps its type in every reachable state, on both platforms
\* and under every hazard: in particular no revision passes the largest uint64
\* (save_service.cpp:95) and no counter runs past the names it may take.
THEOREM TypeCorrect == Spec => []TypeOK
<1>1. TypeInv /\ [Next]_vars => TypeInv'
  <2>1. TypeInv /\ UNCHANGED vars => TypeInv'
    BY DEF vars, local, TypeInv, TypeOK, StageOK
  <2> QED BY <2>1, StepType, OutsideType DEF Next
<1>2. TypeInv => TypeOK
  BY DEF TypeInv
<1> QED BY InitType, <1>1, <1>2, PTL DEF Spec

-----------------------------------------------------------------------------
(* The platter and the lock *)

\* What is visible may survive, and without power cuts nothing else may.
PlatterOK == disk \in platter /\ ("power" \notin Hazards => platter = {disk})

Survivors == {d[Current] : d \in platter}

\* An effect keeps the platter in step and adds only its own profile.json.
LEMMA LoudEffect ==
  ASSUME PlatterOK, NEW d, Effect(d)
  PROVE  PlatterOK' /\ Survivors' \in {Survivors \cup {d[Current]}, {d[Current]}}
BY DEF PlatterOK, Effect, Survivors

\* An effect on other files shows nothing new of profile.json.
LEMMA QuietEffect ==
  ASSUME PlatterOK, NEW d, Effect(d), d[Current] = disk[Current]
  PROVE  PlatterOK' /\ UNCHANGED <<disk[Current], Survivors>>
BY DEF PlatterOK, Effect, Survivors

\* A call without effect changes no disk a power cut may leave.
LEMMA QuietNoEffect ==
  ASSUME PlatterOK, NoEffect
  PROVE  PlatterOK' /\ UNCHANGED <<disk[Current], Survivors>>
BY DEF PlatterOK, NoEffect, Survivors

\* Under the lock at most the stepping process is alive, before and after.
LEMMA OthersDown ==
  ASSUME TypeInv, LockOwnedForLifetime, NEW p \in Procs, Step(p)
  PROVE  \A q \in Procs \ {p} : pc[q] = "down" /\ pc'[q] = "down"
<1>1. \A q \in Procs \ {p} : pc[q] = "down"
  <2>1. pc[p] # "down" \/ lock = "none"
    BY DEF Step, Start, Load, Exit, Crash, Commit, BeginCommit, Attempt, RefuseCommit,
           WriteCandidate, WriteBackup, WriteTemp, RemoveTarget, ReplaceBackup,
           ReplaceCurrent, SyncDirectory, CleanUp, RecoverBackup, StartOver,
           BeginReplacement, RetainCorrupt, Goto
  <2> QED BY <2>1, SaveAssumption DEF LockOwnedForLifetime
<1>2. \A q \in Procs \ {p} : pc'[q] = pc[q]
  BY DEF Step, Start, Load, Exit, Crash, Commit, BeginCommit, Attempt, RefuseCommit,
         WriteCandidate, WriteBackup, WriteTemp, RemoveTarget, ReplaceBackup,
         ReplaceCurrent, SyncDirectory, CleanUp, RecoverBackup, StartOver,
         BeginReplacement, RetainCorrupt, Goto, Fails, Succeeds, Return, Forget,
         TypeInv, TypeOK, local
<1> QED BY <1>1, <1>2

\* On POSIX a process holds the flock exactly as long as it lives.
LEMMA LockKept ==
  ASSUME Platform = "posix", TypeInv, LockOwnedForLifetime, [Next]_vars
  PROVE  LockOwnedForLifetime'
<1>1. ASSUME NEW p \in Procs, Step(p) PROVE LockOwnedForLifetime'
  <2>0. \A q \in Procs \ {p} : pc[q] = "down" /\ pc'[q] = "down"
    BY <1>1, OthersDown
  <2>1. CASE Start(p)
    BY <2>0, <2>1, SaveAssumption DEF Start, Goto, LockOwnedForLifetime, TypeInv, TypeOK
  <2>2. CASE Exit(p) \/ Crash(p)
    BY <2>0, <2>2, SaveAssumption
    DEF Exit, Crash, Forget, LockAfterDeath, LockOwnedForLifetime
  <2>3. CASE pc[p] # "down" /\ pc'[p] # "down" /\ UNCHANGED lock
    BY <2>0, <2>3 DEF LockOwnedForLifetime
  <2>4. Start(p) \/ Exit(p) \/ Crash(p) \/ (pc[p] # "down" /\ pc'[p] # "down" /\ UNCHANGED lock)
    <3>1. CASE \/ Load(p) \/ (\E d \in Payloads : Commit(p, d)) \/ BeginCommit(p)
               \/ RefuseCommit(p) \/ WriteCandidate(p) \/ WriteBackup(p)
      BY <3>1 DEF Load, Commit, BeginCommit, Attempt, RefuseCommit, WriteCandidate,
                  WriteBackup, WriteTemp, Goto, Fails, Return, TypeInv, TypeOK
    <3>2. CASE RemoveTarget(p) \/ ReplaceBackup(p) \/ ReplaceCurrent(p)
               \/ SyncDirectory(p) \/ CleanUp(p)
      BY <3>2 DEF RemoveTarget, ReplaceBackup, ReplaceCurrent, SyncDirectory, CleanUp,
                  Goto, Fails, Succeeds, Return, TypeInv, TypeOK
    <3>3. CASE \/ RecoverBackup(p) \/ (\E d \in Payloads : StartOver(p, d))
               \/ RetainCorrupt(p)
      BY <3>3 DEF RecoverBackup, StartOver, BeginReplacement, RetainCorrupt, Goto,
                  TypeInv, TypeOK
    <3> QED BY <1>1, <3>1, <3>2, <3>3 DEF Step
  <2> QED BY <2>1, <2>2, <2>3, <2>4
<1>2. CASE PowerLoss
  BY <1>2, SaveAssumption DEF PowerLoss, Forget, LockAfterDeath, LockOwnedForLifetime
<1>3. CASE (\E g \in Garbage : DamageCurrent(g)) \/ DamageBackup \/ UNCHANGED vars
  BY <1>3 DEF DamageCurrent, DamageBackup, vars, local, LockOwnedForLifetime
<1> QED BY <1>1, <1>2, <1>3 DEF Next

\* One writer: the lock is owned by the process that is alive and by no other,
\* and it is free when none is (save_service.cpp:60-73).
THEOREM SingleWriter ==
  ASSUME Platform = "posix"
  PROVE  Spec => []LockOwnedForLifetime
<1>1. Init => LockOwnedForLifetime
  BY SaveAssumption DEF Init, LockOwnedForLifetime
<1>2. TypeInv /\ LockOwnedForLifetime /\ [Next]_vars => LockOwnedForLifetime'
  BY LockKept
<1>3. TypeInv /\ [Next]_vars => TypeInv'
  <2>1. TypeInv /\ UNCHANGED vars => TypeInv'
    BY DEF vars, local, TypeInv, TypeOK, StageOK
  <2> QED BY <2>1, StepType, OutsideType DEF Next
<1> QED BY InitType, <1>1, <1>2, <1>3, PTL DEF Spec

-----------------------------------------------------------------------------
(* Refinement of DurableProfile *)

\* What the commit under way may rely on: profile.json is still what it read,
\* its candidate is the next revision, and the verified temporary holds it.
HoldOf(p) ==
  /\ pc[p] \in {"write_candidate", "write_backup", "replace_backup", "replace_current"} =>
       /\ disk[Current] \in Profiles \cup {Absent}
       /\ cand[p].rev = disk[Current].rev + 1
  /\ pc[p] \in {"write_backup", "replace_backup", "replace_current"} =>
       disk[CandidateTempOf(p)] = cand[p]
  /\ pc[p] = "sync" => disk[Current] = cand[p]

Inv == /\ TypeInv
       /\ LockOwnedForLifetime
       /\ PlatterOK
       /\ \A p \in Procs : HoldOf(p)

\* A step that leaves profile.json alone is invisible to the abstract profile.
LEMMA InvisibleStep ==
  ASSUME UNCHANGED <<disk[Current], Survivors, acked>>
  PROVE  [Durable!Next]_Durable!vars
BY DEF Durable!vars, Survivors

\* The rename of a verified candidate is the abstract installation.
LEMMA RenameInstalls ==
  ASSUME NEW p \in Procs, Inv, pc[p] = "replace_current",
         Effect(Renamed(CandidateTempOf(p), Current)), UNCHANGED acked
  PROVE  /\ disk'[Current] = cand[p]
         /\ PlatterOK'
         /\ [Durable!Next]_Durable!vars
<1>1. ctr[p] \in 2..MaxTemp /\ cand[p] \in Profiles
  BY DEF Inv, TypeInv, TypeOK, StageOK, Writing
<1>2. CandidateTempOf(p) \in Files /\ CandidateTempOf(p) # Current
  BY <1>1, SaveAssumption, FileFacts DEF CandidateTempOf
<1>3. disk[CandidateTempOf(p)] = cand[p] /\ disk[Current] \in Profiles \cup {Absent}
      /\ cand[p].rev = disk[Current].rev + 1
  BY DEF Inv, HoldOf
<1>4. Renamed(CandidateTempOf(p), Current)[Current] = cand[p]
  BY <1>2, <1>3, FileFacts DEF Renamed, Inv, TypeInv, TypeOK
<1>5. disk'[Current] = cand[p] /\ PlatterOK'
      /\ Survivors' \in {Survivors \cup {cand[p]}, {cand[p]}}
  <2>1. disk'[Current] = cand[p]
    BY <1>4 DEF Effect
  <2>2. PlatterOK' /\ Survivors' \in
                      {Survivors \cup {Renamed(CandidateTempOf(p), Current)[Current]},
                       {Renamed(CandidateTempOf(p), Current)[Current]}}
    BY LoudEffect DEF Inv
  <2> QED BY <1>4, <2>1, <2>2
<1>6. cand[p] = [rev |-> disk[Current].rev + 1, data |-> cand[p].data]
      /\ cand[p].data \in Payloads
  BY <1>1, <1>3 DEF Profiles
<1>7. disk[Current].rev < MaxRevision
  <2>1. cand[p].rev \in 1..MaxRevision
    BY <1>1, ContentFacts
  <2>2. disk[Current].rev \in Nat
    BY FileFacts, SaveAssumption DEF Inv, TypeInv, TypeOK, Content
  <2> QED BY <1>3, <2>1, <2>2, SaveAssumption
<1>8. PICK x \in Payloads : x = cand[p].data
  BY <1>6
<1>9. Durable!Install(x)
  BY <1>3, <1>5, <1>6, <1>7, <1>8
  DEF Durable!Install, Durable!Becomes, Durable!Profiles, Durable!None, Profiles, Absent,
      Survivors
<1>10. Durable!Next
  BY <1>9 DEF Durable!Next
<1> QED BY <1>5, <1>10 DEF Durable!vars

\* Moving profile.json aside is the abstract SetAside.
LEMMA RenameSetsAside ==
  ASSUME Inv, NEW f \in Files, f # Current, disk[Current] # Absent,
         Effect(Renamed(Current, f)), acked' = Absent
  PROVE  PlatterOK' /\ [Durable!Next]_Durable!vars
<1>1. Renamed(Current, f)[Current] = Absent
  BY FileFacts DEF Renamed, Inv, TypeInv, TypeOK
<1>2. disk'[Current] = Absent
  BY <1>1 DEF Effect
<1>3. PlatterOK' /\ Survivors' \in {Survivors \cup {Renamed(Current, f)[Current]},
                                   {Renamed(Current, f)[Current]}}
  BY LoudEffect DEF Inv
<1>4. Durable!SetAside
  BY <1>1, <1>2, <1>3
  DEF Durable!SetAside, Durable!Becomes, Durable!None, Absent, Survivors
<1> QED BY <1>3, <1>4 DEF Durable!Next, Durable!vars

\* Steps that touch no file.
LEMMA FilelessStep ==
  ASSUME NEW p \in Procs, Inv, NoEffect, UNCHANGED acked
  PROVE  PlatterOK' /\ [Durable!Next]_Durable!vars
BY QuietNoEffect, InvisibleStep DEF Inv

\* Steps that touch files other than profile.json.
LEMMA QuietStep ==
  ASSUME Inv, NEW d, Effect(d), d[Current] = disk[Current], UNCHANGED acked
  PROVE  PlatterOK' /\ [Durable!Next]_Durable!vars
BY QuietEffect, InvisibleStep DEF Inv

\* Every step of a process keeps what its commit relies on, and is a step of
\* the abstract profile or invisible to it.
LEMMA StepMaps ==
  ASSUME Platform = "posix", Inv, NEW p \in Procs, Step(p)
  PROVE  PlatterOK' /\ HoldOf(p)' /\ [Durable!Next]_Durable!vars
<1> USE DEF HoldOf
<1>1. CASE \/ Start(p) \/ Load(p) \/ (\E d \in Payloads : Commit(p, d)) \/ RefuseCommit(p)
           \/ RecoverBackup(p) \/ (\E d \in Payloads : StartOver(p, d))
  <2>1. NoEffect /\ UNCHANGED acked
    BY <1>1 DEF Start, Load, Commit, RefuseCommit, Fails, RecoverBackup, StartOver,
                BeginReplacement
  <2>2. pc'[p] \in {"started", "idle", "begin", "retain"}
    BY <1>1 DEF Start, Load, Commit, RefuseCommit, Fails, Return, RecoverBackup, StartOver,
                BeginReplacement, Goto, Inv, TypeInv, TypeOK
  <2> QED BY <2>1, <2>2, FilelessStep
<1>2. CASE Exit(p)
  <2>1. NoEffect /\ UNCHANGED acked /\ pc'[p] = "down"
    BY <1>2 DEF Exit, Forget
  <2> QED BY <2>1, FilelessStep
<1>3. CASE Crash(p)
  <2>1. PICK d \in CrashOutcomes(p) : Effect(d)
    BY <1>3 DEF Crash
  <2>2. d[Current] = disk[Current]
    BY <2>1, FileFacts DEF CrashOutcomes, CandidateTempOf, BackupTempOf, Inv, TypeInv, TypeOK
  <2>3. pc'[p] = "down" /\ UNCHANGED acked
    BY <1>3 DEF Crash, Forget
  <2> QED BY <2>1, <2>2, <2>3, QuietStep
<1>4. CASE BeginCommit(p)
  <2>1. NoEffect /\ UNCHANGED acked /\ pc'[p] = "write_candidate"
        /\ cand'[p].rev = disk[Current].rev + 1
        /\ disk[Current] \in Profiles \cup {Absent}
    BY <1>4 DEF BeginCommit, Attempt, Goto, Readable, Inv, TypeInv, TypeOK
  <2>2. disk'[Current] = disk[Current]
    BY <2>1 DEF NoEffect
  <2> QED BY <2>1, <2>2, FilelessStep
<1>5. CASE WriteCandidate(p)
  <2>1. ctr[p] \in 2..MaxTemp /\ pc[p] = "write_candidate"
    BY <1>5 DEF WriteCandidate, WriteTemp, Goto, Inv, TypeInv, TypeOK, StageOK, Writing
  <2>2. CandidateTempOf(p) \in Files /\ CandidateTempOf(p) # Current
    BY <2>1, SaveAssumption, FileFacts DEF CandidateTempOf
  <2>3. UNCHANGED <<acked, ctr, cand>>
    BY <1>5 DEF WriteCandidate, WriteTemp
  <2>4. CASE pc'[p] = "cleanup"
    <3>1. (NoEffect \/ \E c : Effect([disk EXCEPT ![CandidateTempOf(p)] = c]))
      BY <1>5 DEF WriteCandidate, WriteTemp
    <3>2. \A c : [disk EXCEPT ![CandidateTempOf(p)] = c][Current] = disk[Current]
      BY <2>2, FileFacts DEF Inv, TypeInv, TypeOK
    <3> QED BY <2>3, <2>4, <3>1, <3>2, FilelessStep, QuietStep
  <2>5. CASE pc'[p] # "cleanup"
    <3>1. /\ pc'[p] \in {"replace_current", "write_backup"}
          /\ Effect([disk EXCEPT ![CandidateTempOf(p)] = cand[p]])
      BY <1>5, <2>5 DEF WriteCandidate, WriteTemp, Goto, Inv, TypeInv, TypeOK
    <3>2. /\ [disk EXCEPT ![CandidateTempOf(p)] = cand[p]][Current] = disk[Current]
          /\ [disk EXCEPT ![CandidateTempOf(p)] = cand[p]][CandidateTempOf(p)] = cand[p]
      BY <2>2, FileFacts DEF Inv, TypeInv, TypeOK
    <3>3. disk'[Current] = disk[Current] /\ disk'[CandidateTempOf(p)] = cand[p]
      BY <3>1, <3>2 DEF Effect
    <3>4. disk[Current] \in Profiles \cup {Absent} /\ cand[p].rev = disk[Current].rev + 1
      BY <2>1 DEF Inv
    <3>5. PlatterOK' /\ [Durable!Next]_Durable!vars
      BY <2>3, <3>1, <3>2, QuietStep
    <3> QED BY <2>3, <3>1, <3>3, <3>4, <3>5 DEF CandidateTempOf
  <2> QED BY <2>4, <2>5
<1>6. CASE WriteBackup(p)
  <2>1. ctr[p] \in 2..MaxTemp /\ pc[p] = "write_backup"
    BY <1>6 DEF WriteBackup, WriteTemp, Goto, Inv, TypeInv, TypeOK, StageOK, Writing
  <2>2. /\ BackupTempOf(p) # Current /\ BackupTempOf(p) # CandidateTempOf(p)
        /\ CandidateTempOf(p) \in Files
    BY <2>1, SaveAssumption, FileFacts DEF CandidateTempOf, BackupTempOf
  <2>3. UNCHANGED <<acked, ctr, cand>>
    BY <1>6 DEF WriteBackup, WriteTemp
  <2>4. \A c : /\ [disk EXCEPT ![BackupTempOf(p)] = c][Current] = disk[Current]
               /\ [disk EXCEPT ![BackupTempOf(p)] = c][CandidateTempOf(p)]
                    = disk[CandidateTempOf(p)]
    BY <2>2, FileFacts DEF Inv, TypeInv, TypeOK
  <2>5. NoEffect \/ \E c : Effect([disk EXCEPT ![BackupTempOf(p)] = c])
    BY <1>6 DEF WriteBackup, WriteTemp
  <2>6. PlatterOK' /\ [Durable!Next]_Durable!vars
    BY <2>3, <2>4, <2>5, FilelessStep, QuietStep
  <2>7. /\ disk'[Current] = disk[Current]
        /\ disk'[CandidateTempOf(p)] = disk[CandidateTempOf(p)]
    BY <2>4, <2>5 DEF Effect, NoEffect
  <2>8. pc'[p] \in {"replace_backup", "cleanup"}
    BY <1>6 DEF WriteBackup, WriteTemp, Goto, Inv, TypeInv, TypeOK
  <2>9. /\ disk[Current] \in Profiles \cup {Absent} /\ cand[p].rev = disk[Current].rev + 1
        /\ disk[CandidateTempOf(p)] = cand[p]
    BY <2>1 DEF Inv
  <2> QED BY <2>3, <2>6, <2>7, <2>8, <2>9 DEF CandidateTempOf
<1>7. CASE RemoveTarget(p)
  BY <1>7 DEF RemoveTarget
<1>8. CASE ReplaceBackup(p)
  <2>1. ctr[p] \in 2..MaxTemp /\ pc[p] = "replace_backup"
    BY <1>8 DEF ReplaceBackup, Inv, TypeInv, TypeOK, StageOK, Writing
  <2>2. /\ BackupTempOf(p) # Current /\ BackupTempOf(p) # CandidateTempOf(p)
        /\ CandidateTempOf(p) \in Files /\ CandidateTempOf(p) # Backup
    BY <2>1, SaveAssumption, FileFacts DEF CandidateTempOf, BackupTempOf
  <2>3. UNCHANGED <<acked, ctr, cand>> /\ pc'[p] \in {"replace_current", "cleanup"}
    BY <1>8 DEF ReplaceBackup, Goto, Inv, TypeInv, TypeOK
  <2>4. /\ Renamed(BackupTempOf(p), Backup)[Current] = disk[Current]
        /\ Renamed(BackupTempOf(p), Backup)[CandidateTempOf(p)] = disk[CandidateTempOf(p)]
    BY <2>2, FileFacts DEF Renamed, Inv, TypeInv, TypeOK
  <2>5. NoEffect \/ Effect(Renamed(BackupTempOf(p), Backup))
    BY <1>8 DEF ReplaceBackup
  <2>6. PlatterOK' /\ [Durable!Next]_Durable!vars
    BY <2>3, <2>4, <2>5, FilelessStep, QuietStep
  <2>7. /\ disk'[Current] = disk[Current]
        /\ disk'[CandidateTempOf(p)] = disk[CandidateTempOf(p)]
    BY <2>4, <2>5 DEF Effect, NoEffect
  <2>8. /\ disk[Current] \in Profiles \cup {Absent} /\ cand[p].rev = disk[Current].rev + 1
        /\ disk[CandidateTempOf(p)] = cand[p]
    BY <2>1 DEF Inv
  <2> QED BY <2>3, <2>6, <2>7, <2>8 DEF CandidateTempOf
<1>9. CASE ReplaceCurrent(p)
  <2>1. pc[p] = "replace_current" /\ UNCHANGED <<acked, cand>>
        /\ pc'[p] \in {"sync", "idle", "cleanup"}
        /\ (pc'[p] = "sync" => Effect(Renamed(CandidateTempOf(p), Current)))
    BY <1>9 DEF ReplaceCurrent, Succeeds, Return, Goto, Inv, TypeInv, TypeOK
  <2>2. NoEffect \/ Effect(Renamed(CandidateTempOf(p), Current))
    BY <1>9 DEF ReplaceCurrent
  <2>3. CASE NoEffect /\ pc'[p] # "sync"
    BY <2>1, <2>3, FilelessStep
  <2>4. CASE Effect(Renamed(CandidateTempOf(p), Current))
    BY <2>1, <2>4, RenameInstalls
  <2> QED BY <2>1, <2>2, <2>3, <2>4
<1>10. CASE SyncDirectory(p)
  <2>1. pc[p] = "sync" /\ pc'[p] \in {"idle", "cleanup"}
    BY <1>10 DEF SyncDirectory, Succeeds, Return, Goto, Inv, TypeInv, TypeOK
  <2>2. disk[Current] = cand[p] /\ cand[p] \in Profiles
    BY <2>1 DEF Inv, TypeInv, StageOK, Writing
  <2>3. CASE NoEffect /\ UNCHANGED acked
    BY <2>1, <2>3, FilelessStep
  <2>4. CASE acked' = cand[p] /\ disk' = disk /\ platter' = Synced
    <3>1. platter' = {disk}
      BY <2>4 DEF Synced
    <3>2. PlatterOK'
      BY <2>4, <3>1 DEF PlatterOK
    <3>3. Durable!Acknowledge
      BY <2>2, <2>4, <3>1 DEF Durable!Acknowledge, Durable!Profiles, Profiles
    <3> QED BY <2>1, <3>2, <3>3 DEF Durable!Next, Durable!vars
  <2> QED BY <1>10, <2>3, <2>4 DEF SyncDirectory
<1>11. CASE CleanUp(p)
  <2>1. pc'[p] = "idle" /\ UNCHANGED acked
    BY <1>11 DEF CleanUp, Fails, Return, Goto, Inv, TypeInv, TypeOK
  <2>2. PICK d \in [Files -> Content] : Effect(d) /\ d[Current] = disk[Current]
    BY <1>11, FileFacts, ContentFacts
    DEF CleanUp, CandidateTempOf, BackupTempOf, Inv, TypeInv, TypeOK
  <2> QED BY <2>1, <2>2, QuietStep
<1>12. CASE RetainCorrupt(p)
  <2>1. ctr[p] + 1 \in 1..MaxTemp /\ pc'[p] \in {"begin", "idle"}
    BY <1>12, SaveAssumption
    DEF RetainCorrupt, Goto, Inv, TypeInv, TypeOK, StageOK
  <2>2. Corrupt(ctr[p] + 1) \in Files /\ Corrupt(ctr[p] + 1) # Current
    BY <2>1, FileFacts
  <2>3. \/ NoEffect /\ UNCHANGED acked
        \/ /\ disk[Current] # Absent /\ acked' = Absent
           /\ Effect(Renamed(Current, Corrupt(ctr[p] + 1)))
    BY <1>12 DEF RetainCorrupt
  <2>4. PlatterOK' /\ [Durable!Next]_Durable!vars
    BY <2>2, <2>3, FilelessStep, RenameSetsAside
  <2> QED BY <2>1, <2>4
<1> QED
  BY <1>1, <1>2, <1>3, <1>4, <1>5, <1>6, <1>7, <1>8, <1>9, <1>10, <1>11, <1>12 DEF Step

\* Power cuts and damage from outside map to the abstract ones.
LEMMA OutsideMaps ==
  ASSUME Platform = "posix", Inv,
         PowerLoss \/ (\E g \in Garbage : DamageCurrent(g)) \/ DamageBackup
  PROVE  PlatterOK' /\ (\A p \in Procs : HoldOf(p)') /\ [Durable!Next]_Durable!vars
<1>1. CASE PowerLoss
  <2>1. PlatterOK'
    BY <1>1 DEF PowerLoss, PlatterOK
  <2>2. \A p \in Procs : pc'[p] = "down"
    BY <1>1 DEF PowerLoss, Forget
  <2>3. Durable!PowerLoss
    BY <1>1 DEF PowerLoss, Durable!PowerLoss
  <2> QED BY <2>1, <2>2, <2>3 DEF HoldOf, Durable!Next, Durable!vars
<1>2. ASSUME NEW g \in Garbage, DamageCurrent(g)
      PROVE  PlatterOK' /\ (\A p \in Procs : HoldOf(p)') /\ [Durable!Next]_Durable!vars
  <2>1. PlatterOK'
    BY <1>2 DEF DamageCurrent, PlatterOK
  <2>2. \A p \in Procs : pc'[p] \in {"down", "idle"}
    BY <1>2 DEF DamageCurrent, local
  <2>3. disk'[Current] = [rev |-> 0, data |-> g]
    BY <1>2, FileFacts DEF DamageCurrent, Inv, TypeInv, TypeOK
  <2>4. platter' = {disk'} /\ acked' = Absent
    BY <1>2 DEF DamageCurrent
  <2>5. Durable!Damage
    BY <2>3, <2>4 DEF Durable!Damage, Durable!None, Absent
  <2> QED BY <2>1, <2>2, <2>5 DEF HoldOf, Durable!Next, Durable!vars
<1>3. CASE DamageBackup
  <2>1. [disk EXCEPT ![Backup] = Torn][Current] = disk[Current]
    BY FileFacts DEF Inv, TypeInv, TypeOK
  <2>2. PlatterOK' /\ [Durable!Next]_Durable!vars
    BY <1>3, <2>1, QuietStep DEF DamageBackup
  <2>3. \A p \in Procs : pc'[p] \in {"down", "idle"}
    BY <1>3 DEF DamageBackup, local
  <2> QED BY <2>2, <2>3 DEF HoldOf
<1> QED BY <1>1, <1>2, <1>3

\* Inv is inductive, and every step from it is abstract or invisible.
LEMMA InvStep ==
  ASSUME Platform = "posix", Inv, [Next]_vars
  PROVE  Inv' /\ [Durable!Next]_Durable!vars
<1>1. TypeInv'
  <2>1. TypeInv /\ UNCHANGED vars => TypeInv'
    BY DEF vars, local, TypeInv, TypeOK, StageOK
  <2> QED BY <2>1, StepType, OutsideType DEF Next, Inv
<1>2. LockOwnedForLifetime'
  BY LockKept DEF Inv
<1>3. PlatterOK' /\ (\A p \in Procs : HoldOf(p)') /\ [Durable!Next]_Durable!vars
  <2>1. ASSUME NEW p \in Procs, Step(p)
        PROVE  PlatterOK' /\ (\A q \in Procs : HoldOf(q)') /\ [Durable!Next]_Durable!vars
    <3>1. PlatterOK' /\ HoldOf(p)' /\ [Durable!Next]_Durable!vars
      BY <2>1, StepMaps
    <3>2. \A q \in Procs \ {p} : pc'[q] = "down"
      BY <2>1, OthersDown DEF Inv
    <3>3. \A q \in Procs \ {p} : HoldOf(q)'
      BY <3>2 DEF HoldOf
    <3> QED BY <3>1, <3>3
  <2>2. CASE UNCHANGED vars
    <3>1. PlatterOK' /\ [Durable!Next]_Durable!vars
      BY <2>2, FilelessStep, QuietNoEffect, InvisibleStep
      DEF vars, NoEffect, Inv, PlatterOK, Survivors
    <3>2. \A p \in Procs : HoldOf(p)'
      BY <2>2 DEF vars, local, HoldOf, Inv, CandidateTempOf
    <3> QED BY <3>1, <3>2
  <2> QED BY <2>1, <2>2, OutsideMaps DEF Next
<1> QED BY <1>1, <1>2, <1>3 DEF Inv

\* The invariant at the start, where the abstract store is at its start too.
LEMMA InitInv == Init => Inv /\ Durable!Init
<1> SUFFICES ASSUME Init PROVE Inv /\ Durable!Init
  OBVIOUS
<1>1. TypeInv
  BY InitType
<1>2. LockOwnedForLifetime /\ PlatterOK /\ \A p \in Procs : HoldOf(p)
  BY SaveAssumption DEF Init, LockOwnedForLifetime, PlatterOK, HoldOf
<1>3. Durable!Init
  BY FileFacts DEF Init, Durable!Init, Durable!None, Absent
<1> QED BY <1>1, <1>2, <1>3 DEF Inv

\* The service implements the durable profile: with all its temporaries,
\* renames, failures, crashes and power cuts, profile.json changes by whole
\* revisions, and unreadable contents are set aside, never overwritten
\* (save_service.cpp:77-126, POSIX build).
THEOREM Refinement ==
  ASSUME Platform = "posix"
  PROVE  Spec => RefinesDurable
<1>1. Inv /\ [Next]_vars => Inv' /\ [Durable!Next]_Durable!vars
  BY InvStep
<1> QED BY InitInv, <1>1, PTL DEF Spec, RefinesDurable, Durable!Spec

\* An abstract step keeps the acknowledged revision among everything that may
\* survive.
LEMMA AckedStep ==
  ASSUME Inv, AckedSurvives, [Durable!Next]_Durable!vars
  PROVE  AckedSurvives'
<1> DEFINE Good(v, a) == /\ v \in Profiles
                         /\ v.rev >= a.rev
                         /\ v.rev = a.rev => v = a
           Safe(S, a) == a # Absent => \A v \in S : Good(v, a)
<1>0. AckedSurvives <=> Safe(Survivors, acked)
  BY DEF AckedSurvives, Survivors, Readable
<1>1. AckedSurvives' <=> Safe(Survivors', acked')
  BY DEF AckedSurvives, Survivors, Readable
<1> SUFFICES Safe(Survivors', acked')
  BY <1>1
<1>2. Safe(Survivors, acked) /\ disk[Current] \in Survivors
  BY <1>0 DEF Inv, PlatterOK, Survivors
<1>3. acked \in Profiles \cup {Absent}
  BY DEF Inv, TypeInv, TypeOK
<1>4. ASSUME NEW d \in Payloads, Durable!Install(d) PROVE Safe(Survivors', acked')
  <2> DEFINE new == [rev |-> disk[Current].rev + 1, data |-> d]
  <2>1. /\ disk[Current] \in Profiles \cup {Absent} /\ disk[Current].rev < MaxRevision
        /\ Survivors' \subseteq Survivors \cup {new} /\ acked' = acked
    BY <1>4 DEF Durable!Install, Durable!Becomes, Durable!Profiles, Durable!None, Profiles,
                Absent, Survivors
  <2>2. ASSUME acked # Absent PROVE Good(new, acked)
    <3>1. disk[Current] \in Profiles /\ disk[Current].rev >= acked.rev
      BY <1>2, <2>2
    <3>2. disk[Current].rev \in Nat /\ acked.rev \in Nat /\ disk[Current].rev + 1 \in 1..MaxRevision
      BY <1>3, <2>1, <2>2, <3>1, SaveAssumption DEF Profiles
    <3>3. new.rev > acked.rev
      BY <3>1, <3>2
    <3>4. new \in Profiles
      BY <3>2 DEF Profiles
    <3> QED BY <3>2, <3>3, <3>4
  <2> HIDE DEF new, Good
  <2> QED BY <1>2, <2>1, <2>2
<1>5. CASE Durable!Acknowledge
  <2>1. Survivors' = {disk[Current]} /\ acked' = disk[Current] /\ disk[Current] \in Profiles
    BY <1>5 DEF Durable!Acknowledge, Durable!Profiles, Profiles, Survivors
  <2>2. disk[Current].rev \in Nat
    BY <2>1, SaveAssumption DEF Profiles
  <2> QED BY <2>1, <2>2
<1>6. CASE Durable!PowerLoss
  <2>1. Survivors' \subseteq Survivors /\ acked' = acked
    BY <1>6, <1>2 DEF Durable!PowerLoss, Survivors
  <2> HIDE DEF Good
  <2> QED BY <1>2, <2>1
<1>7. CASE Durable!Damage \/ Durable!SetAside
  BY <1>7 DEF Durable!Damage, Durable!SetAside, Durable!None, Absent
<1>8. CASE UNCHANGED Durable!vars
  <2>1. Survivors' = Survivors /\ acked' = acked
    BY <1>8 DEF Durable!vars, Survivors
  <2> HIDE DEF Good
  <2> QED BY <1>2, <2>1
<1> QED BY <1>4, <1>5, <1>6, <1>7, <1>8 DEF Durable!Next

\* A commit reported as durable survives every later failure, process crash and
\* power cut, in any number of process lifetimes (save_service.cpp:88-107).
THEOREM AckedDurable ==
  ASSUME Platform = "posix"
  PROVE  Spec => []AckedSurvives
<1>1. Init => AckedSurvives
  BY DEF Init, AckedSurvives
<1>2. Inv /\ [Next]_vars => Inv'
  BY InvStep
<1>3. Inv /\ AckedSurvives /\ [Next]_vars => AckedSurvives'
  BY InvStep, AckedStep
<1> QED BY InitInv, <1>1, <1>2, <1>3, PTL DEF Spec

-----------------------------------------------------------------------------
(* The two names of a profile *)

\* What a reader can see of a store: profile.json and its backup.
View(d) == <<d[Current], d[Backup]>>
Views == {View(d) : d \in platter}

\* The permanent names change only where a stage renames, removes or sets aside.
LEMMA PrivateStep ==
  ASSUME TypeInv, PlatterOK, NEW p \in Procs, Step(p),
         Crash(p) \/ pc[p] \notin {"replace_backup", "replace_current", "retain"}
  PROVE  View(disk)' = View(disk) /\ Views' \subseteq Views
<1> DEFINE Private(d) == d[Current] = disk[Current] /\ d[Backup] = disk[Backup]
<1>1. SUFFICES \/ NoEffect
               \/ \E d : Effect(d) /\ Private(d)
               \/ disk' = disk /\ platter' \in {platter, {disk}}
  BY DEF NoEffect, Effect, PlatterOK, View, Views
<1>2. CASE \/ Start(p) \/ Load(p) \/ Exit(p) \/ (\E d \in Payloads : Commit(p, d))
           \/ BeginCommit(p) \/ RefuseCommit(p) \/ RecoverBackup(p)
           \/ \E d \in Payloads : StartOver(p, d)
  BY <1>2 DEF Start, Load, Exit, Commit, BeginCommit, Attempt, RefuseCommit, RecoverBackup,
              StartOver, BeginReplacement
<1>3. CASE Crash(p)
  <2>1. PICK d \in CrashOutcomes(p) : Effect(d)
    BY <1>3 DEF Crash
  <2>2. Private(d)
    BY <2>1, FileFacts DEF CrashOutcomes, CandidateTempOf, BackupTempOf, TypeInv, TypeOK
  <2> QED BY <2>1, <2>2
<1>4. CASE WriteCandidate(p) \/ WriteBackup(p)
  <2>1. PICK f \in {CandidateTempOf(p), BackupTempOf(p)} :
          NoEffect \/ \E c : Effect([disk EXCEPT ![f] = c])
    BY <1>4 DEF WriteCandidate, WriteBackup, WriteTemp
  <2>2. \A c : Private([disk EXCEPT ![f] = c])
    BY <2>1, FileFacts DEF CandidateTempOf, BackupTempOf, TypeInv, TypeOK
  <2> QED BY <2>1, <2>2
<1>5. CASE SyncDirectory(p)
  BY <1>5 DEF SyncDirectory, Synced, NoEffect
<1>6. CASE CleanUp(p)
  <2>1. PICK kept : Effect([f \in Files |->
                      IF f \in {CandidateTempOf(p), BackupTempOf(p)} \ kept
                        THEN Absent ELSE disk[f]])
    BY <1>6 DEF CleanUp
  <2>2. Private([f \in Files |-> IF f \in {CandidateTempOf(p), BackupTempOf(p)} \ kept
                                   THEN Absent ELSE disk[f]])
    BY FileFacts DEF CandidateTempOf, BackupTempOf
  <2> QED BY <2>1, <2>2
<1>7. CASE RemoveTarget(p) \/ ReplaceBackup(p) \/ ReplaceCurrent(p) \/ RetainCorrupt(p)
  <2>1. pc[p] \in {"replace_backup", "replace_current", "retain"}
    BY <1>7 DEF RemoveTarget, ReplaceBackup, ReplaceCurrent, RetainCorrupt
  <2> QED BY <2>1, <1>3
<1> QED BY <1>2, <1>3, <1>4, <1>5, <1>6, <1>7 DEF Step

\* The platter holds what is visible, on either platform.
LEMMA PlatterKept ==
  ASSUME PlatterOK, [Next]_vars
  PROVE  PlatterOK'
<1>1. SUFFICES \/ NoEffect \/ (\E d : Effect(d)) \/ PowerLoss
               \/ platter' = {disk'} \/ (disk' = disk /\ platter' \in {platter, {disk}})
  BY DEF PlatterOK, NoEffect, Effect, PowerLoss
<1>2. ASSUME NEW p \in Procs, Step(p)
      PROVE  NoEffect \/ (\E d : Effect(d)) \/ (disk' = disk /\ platter' \in {platter, {disk}})
  <2>1. CASE \/ Start(p) \/ Load(p) \/ Exit(p) \/ Crash(p) \/ (\E d \in Payloads : Commit(p, d))
             \/ BeginCommit(p) \/ RefuseCommit(p) \/ RecoverBackup(p)
             \/ \E d \in Payloads : StartOver(p, d)
    BY <2>1 DEF Start, Load, Exit, Crash, Commit, BeginCommit, Attempt, RefuseCommit,
                RecoverBackup, StartOver, BeginReplacement
  <2>2. CASE WriteCandidate(p) \/ WriteBackup(p) \/ SyncDirectory(p) \/ CleanUp(p)
    BY <2>2 DEF WriteCandidate, WriteBackup, WriteTemp, SyncDirectory, Synced, CleanUp,
                NoEffect
  <2>3. CASE RemoveTarget(p) \/ ReplaceBackup(p) \/ ReplaceCurrent(p) \/ RetainCorrupt(p)
    BY <2>3 DEF RemoveTarget, ReplaceBackup, ReplaceCurrent, RetainCorrupt
  <2> QED BY <1>2, <2>1, <2>2, <2>3 DEF Step
<1>3. CASE (\E g \in Garbage : DamageCurrent(g)) \/ DamageBackup
  BY <1>3 DEF DamageCurrent, DamageBackup
<1>4. CASE UNCHANGED vars
  BY <1>4 DEF vars
<1> QED BY <1>2, <1>3, <1>4 DEF Next

\* What a name reads after another was renamed, and what was renamed to it.
LEMMA RenameFacts ==
  ASSUME TypeInv, NEW from \in Files, NEW to \in Files, from # to
  PROVE  /\ Renamed(from, to)[to] = disk[from]
         /\ Renamed(from, to)[from] = Absent
         /\ \A f \in Files \ {from, to} : Renamed(from, to)[f] = disk[f]
BY DEF Renamed, TypeInv, TypeOK

\* The names a commit took are files, and none of the permanent ones.
LEMMA TempFacts ==
  ASSUME TypeInv, NEW p \in Procs, pc[p] \in Writing
  PROVE  /\ CandidateTempOf(p) \in Files \ {Current, Backup}
         /\ BackupTempOf(p) \in Files \ {Current, Backup}
         /\ CandidateTempOf(p) # BackupTempOf(p)
<1>1. ctr[p] \in 2..MaxTemp
  BY SaveAssumption DEF TypeInv, TypeOK, StageOK
<1>2. ctr[p] \in 1..MaxTemp /\ ctr[p] - 1 \in 1..MaxTemp
  BY <1>1, SaveAssumption
<1> QED BY <1>2, FileFacts DEF CandidateTempOf, BackupTempOf

-----------------------------------------------------------------------------
(* The backup *)

Whole(c) == c \in Profiles \cup {Absent}

\* What the pair of names <<profile.json, backup>> must be.
Paired(v) ==
  /\ Whole(v[1]) /\ Whole(v[2])
  /\ v[2] # Absent => /\ v[1] # Absent
                      /\ v[1].rev \in {v[2].rev, v[2].rev + 1}
                      /\ v[1].rev = v[2].rev => v[1] = v[2]
  /\ v[1] # Absent /\ v[1].rev > 1 => v[2] # Absent

\* What a commit under way relies on to keep them so.
PairHold(p) ==
  /\ pc[p] # "retain" /\ mode[p] \in {"none", "NewProfile", "Loaded"}
  /\ pc[p] \in {"write_candidate", "write_backup", "replace_backup", "replace_current"} =>
       curr[p] = disk[Current]
  /\ pc[p] \in {"write_backup", "replace_backup"} => curr[p] # Absent
  /\ pc[p] = "replace_backup" => disk[BackupTempOf(p)] = curr[p]
  /\ pc[p] = "replace_current" => disk[Backup] = curr[p]

PairInv == (\A v \in Views : Paired(v)) /\ (\A p \in Procs : PairHold(p))

\* Every step of the one live process keeps the pair and what it relies on.
LEMMA PairStep ==
  ASSUME Platform = "posix", {"read", "damage"} \cap Hazards = {},
         Inv, PairInv, NEW p \in Procs, Step(p)
  PROVE  (\A v \in Views' : Paired(v)) /\ PairHold(p)'
<1> DEFINE Good(d) == Paired(View(d))
<1>0. TypeInv /\ PlatterOK /\ PairHold(p) /\ Good(disk)
  BY DEF Inv, PairInv, PlatterOK, Views
<1>1. CASE /\ Crash(p) \/ pc[p] \notin {"replace_backup", "replace_current", "retain"}
           /\ ~WriteCandidate(p) /\ ~WriteBackup(p)
  <2>1. View(disk)' = View(disk) /\ Views' \subseteq Views
    BY <1>0, <1>1, PrivateStep
  <2>2. PairHold(p)'
    <3>1. CASE Load(p)
      <4>1. Whole(disk[Current])
        BY <1>0 DEF Paired, View
      <4>2. \A c \in Reads(Current) : c = disk[Current]
        BY DEF Reads
      <4>3. mode'[p] \in {"NewProfile", "Loaded"}
        BY <3>1, <4>1, <4>2 DEF Load, Whole, Readable, TypeInv, TypeOK, Inv
      <4>4. pc'[p] = "idle"
        BY <1>0, <3>1 DEF Load, Goto, TypeInv, TypeOK
      <4> QED BY <4>3, <4>4 DEF PairHold
    <3>2. CASE Start(p) \/ (\E d \in Payloads : Commit(p, d)) \/ RefuseCommit(p) \/ CleanUp(p)
      <4>1. pc'[p] \in {"started", "begin", "idle"} /\ mode' = mode
        BY <1>0, <3>2 DEF Start, Commit, RefuseCommit, CleanUp, Fails, Return, Goto,
                          TypeInv, TypeOK
      <4> QED BY <1>0, <4>1 DEF PairHold
    <3>3. CASE Exit(p) \/ Crash(p)
      BY <3>3 DEF Exit, Crash, Forget, PairHold
    <3>4. CASE BeginCommit(p)
      <4>1. pc'[p] = "write_candidate" /\ mode' = mode /\ curr'[p] = disk[Current]
            /\ disk' = disk
        BY <1>0, <3>4 DEF BeginCommit, Attempt, Goto, NoEffect, TypeInv, TypeOK
      <4> QED BY <1>0, <4>1 DEF PairHold
    <3>5. CASE SyncDirectory(p)
      <4>1. pc'[p] \in {"idle", "cleanup"} /\ mode'[p] \in {mode[p], "Loaded"}
        BY <1>0, <3>5 DEF SyncDirectory, Succeeds, Return, Goto, TypeInv, TypeOK
      <4> QED BY <1>0, <4>1 DEF PairHold
    <3>6. ~RecoverBackup(p) /\ ~\E d \in Payloads : StartOver(p, d)
      BY <1>0 DEF RecoverBackup, StartOver, PairHold
    <3>7. Crash(p) \/ ~(RemoveTarget(p) \/ ReplaceBackup(p) \/ ReplaceCurrent(p) \/ RetainCorrupt(p))
      BY <1>1 DEF RemoveTarget, ReplaceBackup, ReplaceCurrent, RetainCorrupt
    <3> QED BY <1>1, <3>1, <3>2, <3>3, <3>4, <3>5, <3>6, <3>7 DEF Step
  <2> QED BY <2>1, <2>2 DEF PairInv
<1>2. CASE WriteCandidate(p) \/ WriteBackup(p)
  <2>0. pc[p] \in {"write_candidate", "write_backup"} /\ pc[p] \in Writing
    BY <1>2 DEF WriteCandidate, WriteBackup, WriteTemp, Goto, Writing
  <2>1. View(disk)' = View(disk) /\ Views' \subseteq Views
    BY <1>0, <2>0, PrivateStep
  <2>2. UNCHANGED <<ctr, curr, mode>>
    BY <1>2 DEF WriteCandidate, WriteBackup, WriteTemp
  <2>3. curr[p] = disk'[Current] /\ curr[p] = disk[Current]
    BY <1>0, <2>0, <2>1 DEF PairHold, View
  <2>4. CASE WriteCandidate(p)
    <3>1. \/ pc'[p] = "cleanup"
          \/ pc'[p] = "replace_current" /\ curr[p] = Absent
          \/ pc'[p] = "write_backup" /\ curr[p] # Absent
      BY <1>0, <2>4 DEF WriteCandidate, WriteTemp, Goto, TypeInv, TypeOK
    <3>2. curr[p] = Absent => disk'[Backup] = Absent
      BY <1>0, <2>1, <2>3 DEF Paired, View
    <3> QED BY <1>0, <2>1, <2>2, <2>3, <3>1, <3>2 DEF PairHold, PairInv
  <2>5. CASE WriteBackup(p)
    <3>1. pc'[p] = "cleanup"
          \/ (pc'[p] = "replace_backup" /\ Effect([disk EXCEPT ![BackupTempOf(p)] = curr[p]]))
      BY <1>0, <2>5 DEF WriteBackup, WriteTemp, Goto, TypeInv, TypeOK
    <3>2. [disk EXCEPT ![BackupTempOf(p)] = curr[p]][BackupTempOf(p)] = curr[p]
      BY <1>0, <2>0, TempFacts DEF TypeInv, TypeOK
    <3>3. pc'[p] = "replace_backup" => disk'[BackupTempOf(p)] = curr[p]
      BY <3>1, <3>2 DEF Effect
    <3>4. curr[p] # Absent
      BY <1>0, <2>5 DEF PairHold, WriteBackup, WriteTemp, Goto
    <3> QED BY <1>0, <2>1, <2>2, <2>3, <3>1, <3>3, <3>4 DEF PairHold, PairInv, BackupTempOf
  <2> QED BY <1>2, <2>4, <2>5
<1>3. CASE ReplaceBackup(p)
  <2>1. pc[p] = "replace_backup" /\ pc[p] \in Writing
    BY <1>3 DEF ReplaceBackup, Writing
  <2> DEFINE d == Renamed(BackupTempOf(p), Backup)
  <2>2. d[Backup] = curr[p] /\ d[Current] = disk[Current] /\ curr[p] = disk[Current]
        /\ curr[p] # Absent
    BY <1>0, <2>1, TempFacts, RenameFacts, FileFacts DEF PairHold
  <2>3. Good(d)
    BY <1>0, <2>2 DEF Paired, View
  <2> HIDE DEF d
  <2>4. UNCHANGED <<ctr, curr, mode>>
    BY <1>3 DEF ReplaceBackup
  <2>5. \/ pc'[p] = "replace_current" /\ Effect(d)
        \/ pc'[p] = "cleanup" /\ (Effect(d) \/ NoEffect)
    BY <1>0, <1>3 DEF ReplaceBackup, Goto, TypeInv, TypeOK, d
  <2>6. \A v \in Views' : Paired(v)
    BY <2>3, <2>5 DEF Effect, NoEffect, Views, PairInv
  <2>7. PairHold(p)'
    BY <1>0, <2>2, <2>4, <2>5 DEF PairHold, Effect
  <2> QED BY <2>6, <2>7
<1>4. CASE ReplaceCurrent(p)
  <2>1. pc[p] = "replace_current" /\ pc[p] \in Writing
    BY <1>4 DEF ReplaceCurrent, Writing
  <2> DEFINE d == Renamed(CandidateTempOf(p), Current)
  <2>2. d[Current] = cand[p] /\ d[Backup] = disk[Backup] /\ disk[Backup] = disk[Current]
        /\ cand[p].rev = disk[Current].rev + 1 /\ cand[p] \in Profiles
    BY <1>0, <2>1, TempFacts, RenameFacts, FileFacts
    DEF PairHold, Inv, HoldOf, TypeInv, StageOK
  <2>3. disk[Current] \in Profiles \cup {Absent} /\ disk[Current].rev \in Nat
    BY <1>0, FileFacts, ContentFacts, SaveAssumption DEF Paired, View, Whole, Absent, Profiles
  <2>4. Good(d)
    BY <2>2, <2>3, ContentFacts DEF Paired, View, Whole, Absent
  <2> HIDE DEF d
  <2>5. /\ pc'[p] \in {"sync", "idle", "cleanup"} /\ mode'[p] \in {mode[p], "Loaded"}
        /\ Effect(d) \/ NoEffect
    BY <1>0, <1>4 DEF ReplaceCurrent, Succeeds, Return, Goto, TypeInv, TypeOK, d
  <2>6. \A v \in Views' : Paired(v)
    BY <2>4, <2>5 DEF Effect, NoEffect, Views, PairInv
  <2> QED BY <1>0, <2>5, <2>6 DEF PairHold
<1>5. ~RemoveTarget(p) /\ ~RetainCorrupt(p)
  BY <1>0 DEF RemoveTarget, RetainCorrupt, PairHold
<1>6. \/ Crash(p) \/ ReplaceBackup(p) \/ ReplaceCurrent(p)
      \/ pc[p] \notin {"replace_backup", "replace_current", "retain"}
  BY <1>0, <1>5 DEF Step, Start, Load, Exit, Commit, BeginCommit, Attempt, RefuseCommit,
         WriteCandidate, WriteBackup, WriteTemp, SyncDirectory, CleanUp, RecoverBackup,
         StartOver, BeginReplacement, Fails, Return, Goto, PairHold
<1>7. Crash(p) => ~WriteCandidate(p) /\ ~WriteBackup(p)
  <2>1. Crash(p) => pc'[p] = "down"
    BY DEF Crash, Forget
  <2>2. WriteCandidate(p) \/ WriteBackup(p) => pc'[p] # "down"
    BY <1>0 DEF WriteCandidate, WriteBackup, WriteTemp, Goto, TypeInv, TypeOK
  <2> QED BY <2>1, <2>2
<1> QED BY <1>1, <1>2, <1>3, <1>4, <1>6, <1>7

\* The backup stays the revision before through every step.
LEMMA PairKept ==
  ASSUME Platform = "posix", {"read", "damage"} \cap Hazards = {}, Inv, PairInv, [Next]_vars
  PROVE  PairInv'
<1>1. ASSUME NEW p \in Procs, Step(p) PROVE PairInv'
  <2>1. (\A v \in Views' : Paired(v)) /\ PairHold(p)'
    BY <1>1, PairStep
  <2>2. ASSUME NEW q \in Procs \ {p} PROVE PairHold(q)'
    <3>1. pc'[q] = "down"
      BY <1>1, OthersDown DEF Inv
    <3>2. mode'[q] \in {mode[q], "none"}
      BY <1>1 DEF Step, Start, Load, Exit, Crash, Commit, BeginCommit, Attempt, RefuseCommit,
             WriteCandidate, WriteBackup, WriteTemp, RemoveTarget, ReplaceBackup,
             ReplaceCurrent, SyncDirectory, CleanUp, RecoverBackup, StartOver,
             BeginReplacement, RetainCorrupt, Goto, Fails, Succeeds, Return, Forget,
             Inv, TypeInv, TypeOK, local
    <3> QED BY <3>1, <3>2 DEF PairHold, PairInv
  <2> QED BY <2>1, <2>2 DEF PairInv
<1>2. CASE PowerLoss
  <2>1. Views' \subseteq Views
    BY <1>2 DEF PowerLoss, Views, View
  <2>2. \A p \in Procs : pc'[p] = "down" /\ mode'[p] = "none"
    BY <1>2 DEF PowerLoss, Forget
  <2> QED BY <2>1, <2>2 DEF PairInv, PairHold
<1>3. ~DamageBackup /\ ~\E g \in Garbage : DamageCurrent(g)
  BY DEF DamageBackup, DamageCurrent
<1>4. CASE UNCHANGED vars
  <2>1. \A p \in Procs : PairHold(p)'
    BY <1>4 DEF vars, local, PairInv, PairHold, BackupTempOf
  <2> QED BY <1>4, <2>1 DEF vars, PairInv, Views, View
<1> QED BY <1>1, <1>2, <1>3, <1>4 DEF Next

\* As long as the two files are read correctly and nothing outside the program
\* touches them, the backup is the revision before the current one, or a copy of
\* it while a later stage has not finished, whatever fails and wherever the power
\* goes: a torn, newer or missing backup cannot come to be (save_service.cpp:99-101).
THEOREM BackupCorrect ==
  ASSUME Platform = "posix", {"read", "damage"} \cap Hazards = {}
  PROVE  Spec => []BackupIsPrevious
<1>1. Init => PairInv
  BY FileFacts DEF Init, PairInv, PairHold, Paired, Views, View, Whole
<1>2. Inv /\ [Next]_vars => Inv'
  BY InvStep
<1>3. Inv /\ PairInv /\ [Next]_vars => PairInv'
  BY PairKept
<1>4. PairInv => BackupIsPrevious
  <2>1. ASSUME PairInv, NEW d \in platter PROVE Paired(View(d))
    BY <2>1 DEF PairInv, Views
  <2> QED BY <2>1, ContentFacts DEF BackupIsPrevious, Paired, View, Whole, Readable
<1> QED BY InitInv, <1>1, <1>2, <1>3, <1>4, PTL DEF Spec

-----------------------------------------------------------------------------
(* Failed commits *)

\* No step but the installation itself makes profile.json the candidate.
NotInstalled(p) ==
  /\ pc[p] = "cleanup" => disk[Current] # cand[p]
  /\ pc[p] = "idle" /\ result[p] = "failed" /\ Readable(cand[p]) => disk[Current] # cand[p]
  /\ pc[p] \in {"down", "started", "begin", "retain"} => cand[p] = Absent

FailInv == \A p \in Procs : NotInstalled(p)

\* No step of a process installs what it then reports as failed.
LEMMA FailStep ==
  ASSUME Platform = "posix", "read" \notin Hazards, Inv, FailInv, NEW p \in Procs, Step(p)
  PROVE  NotInstalled(p)'
<1>0. TypeInv /\ NotInstalled(p) /\ HoldOf(p) /\ PlatterOK
  BY DEF Inv, FailInv
<1> USE <1>0
<1>1. CASE Start(p)
  BY <1>1 DEF Start, Goto, TypeInv, TypeOK, NotInstalled
<1>2. CASE Load(p)
  <2>1. pc[p] = "started" /\ UNCHANGED cand
    BY <1>2 DEF Load, Goto
  <2>2. pc'[p] = "idle"
    BY <1>2 DEF Load, Goto, TypeInv, TypeOK
  <2> QED BY <2>1, <2>2, ContentFacts DEF NotInstalled, Readable
<1>3. CASE Exit(p) \/ Crash(p)
  BY <1>3 DEF Exit, Crash, Forget, NotInstalled
<1>4. CASE (\E d \in Payloads : Commit(p, d)) \/ RecoverBackup(p)
           \/ (\E d \in Payloads : StartOver(p, d))
  BY <1>4 DEF Commit, RecoverBackup, StartOver, BeginReplacement, Goto, TypeInv, TypeOK,
              NotInstalled
<1>5. CASE BeginCommit(p)
  <2>1. pc'[p] = "write_candidate"
    BY <1>5 DEF BeginCommit, Attempt, Goto, TypeInv, TypeOK
  <2> QED BY <2>1 DEF NotInstalled
<1>6. CASE RefuseCommit(p)
  <2>1. pc[p] = "begin" /\ cand'[p] = cand[p] /\ pc'[p] = "idle"
    BY <1>6 DEF RefuseCommit, Fails, Return, Goto, TypeInv, TypeOK
  <2> QED BY <2>1, ContentFacts DEF NotInstalled, Readable
<1>7. CASE WriteCandidate(p) \/ WriteBackup(p) \/ ReplaceBackup(p)
  <2>1. pc[p] \in {"write_candidate", "write_backup", "replace_backup"}
    BY <1>7 DEF WriteCandidate, WriteBackup, WriteTemp, ReplaceBackup, Goto
  <2>2. /\ pc'[p] \in Writing /\ UNCHANGED cand
    BY <1>7 DEF WriteCandidate, WriteBackup, WriteTemp, ReplaceBackup, Goto, TypeInv, TypeOK,
                Writing
  <2>3. disk'[Current] = disk[Current]
    <3>1. CASE ReplaceBackup(p)
      <4>1. pc[p] \in Writing
        BY <2>1 DEF Writing
      <4>2. Renamed(BackupTempOf(p), Backup)[Current] = disk[Current]
        BY <4>1, TempFacts, RenameFacts, FileFacts
      <4> QED BY <3>1, <4>2 DEF ReplaceBackup, Effect, NoEffect
    <3>2. CASE pc[p] # "replace_backup"
      BY <2>1, <3>2, PrivateStep DEF View
    <3> QED BY <1>7, <2>1, <3>1, <3>2 DEF WriteCandidate, WriteBackup, WriteTemp, Goto
  <2>4. disk[Current] # cand[p]
    <3>1. cand[p].rev = disk[Current].rev + 1 /\ disk[Current] \in Profiles \cup {Absent}
      BY <2>1 DEF HoldOf
    <3>2. disk[Current].rev \in Nat
      BY <3>1, ContentFacts, SaveAssumption DEF Absent
    <3> QED BY <3>1, <3>2
  <2> QED BY <2>2, <2>3, <2>4 DEF NotInstalled, Writing
<1>8. CASE ReplaceCurrent(p)
  <2>1. pc[p] = "replace_current" /\ pc[p] \in Writing
    BY <1>8 DEF ReplaceCurrent, Writing
  <2>2. /\ cand[p] \in Profiles /\ cand[p].rev = disk[Current].rev + 1
        /\ disk[Current] \in Profiles \cup {Absent}
    BY <2>1 DEF HoldOf, TypeInv, StageOK
  <2>3. disk[Current] # cand[p]
    <3>1. disk[Current].rev \in Nat
      BY <2>2, ContentFacts, SaveAssumption DEF Absent
    <3> QED BY <2>2, <3>1
  <2>4. Renamed(CandidateTempOf(p), Current)[Current] = cand[p]
    BY <2>1, TempFacts, RenameFacts, FileFacts DEF HoldOf
  <2>5. CASE pc'[p] = "sync"
    BY <2>5 DEF NotInstalled
  <2>6. CASE pc'[p] = "idle"
    <3>1. result'[p] = "uncertain"
      BY <1>8, <2>6 DEF ReplaceCurrent, Succeeds, Return, Goto, TypeInv, TypeOK
    <3> QED BY <2>6, <3>1 DEF NotInstalled
  <2>7. CASE pc'[p] = "cleanup"
    <3>1. /\ Effect(Renamed(CandidateTempOf(p), Current)) \/ NoEffect
          /\ \E c \in Rereads(disk') : ~Confirms(c, p)
          /\ UNCHANGED cand
      BY <1>8, <2>7 DEF ReplaceCurrent, Succeeds, Return, Goto, TypeInv, TypeOK
    <3>2. ~Confirms(disk'[Current], p)
      BY <3>1 DEF Rereads
    <3>3. ~Effect(Renamed(CandidateTempOf(p), Current))
      BY <2>2, <2>4, <3>2 DEF Effect, Confirms, Readable
    <3> QED BY <2>3, <2>7, <3>1, <3>3 DEF NoEffect, NotInstalled
  <2>8. pc'[p] \in {"sync", "idle", "cleanup"}
    BY <1>8 DEF ReplaceCurrent, Succeeds, Return, Goto, TypeInv, TypeOK
  <2> QED BY <2>5, <2>6, <2>7, <2>8
<1>9. CASE SyncDirectory(p)
  <2>1. disk[Current] = cand[p] /\ cand[p] \in Profiles
    BY <1>9 DEF SyncDirectory, HoldOf, TypeInv, StageOK, Writing
  <2>2. \A c \in Rereads(disk) : Confirms(c, p)
    BY <2>1 DEF Rereads, Confirms, Readable
  <2>3. pc'[p] = "idle" /\ result'[p] \in {"committed", "uncertain"}
    BY <1>9, <2>2 DEF SyncDirectory, Succeeds, Return, Goto, TypeInv, TypeOK
  <2> QED BY <2>3 DEF NotInstalled
<1>10. CASE CleanUp(p)
  <2>1. disk'[Current] = disk[Current]
    BY <1>10, PrivateStep DEF CleanUp, View
  <2>2. pc[p] = "cleanup" /\ pc'[p] = "idle" /\ cand' = cand
    BY <1>10 DEF CleanUp, Fails, Return, Goto, TypeInv, TypeOK
  <2> QED BY <2>1, <2>2 DEF NotInstalled
<1>11. CASE RetainCorrupt(p)
  <2>1. pc[p] = "retain" /\ pc'[p] \in {"begin", "idle"} /\ cand' = cand
    BY <1>11 DEF RetainCorrupt, Goto, TypeInv, TypeOK
  <2> QED BY <2>1, ContentFacts DEF NotInstalled, Readable
<1>12. ~RemoveTarget(p)
  BY DEF RemoveTarget
<1> QED
  BY <1>1, <1>2, <1>3, <1>4, <1>5, <1>6, <1>7, <1>8, <1>9, <1>10, <1>11, <1>12 DEF Step

\* Nor does any other step.
LEMMA FailKept ==
  ASSUME Platform = "posix", "read" \notin Hazards, Inv, FailInv, [Next]_vars
  PROVE  FailInv'
<1>1. ASSUME NEW p \in Procs, Step(p), NEW q \in Procs PROVE NotInstalled(q)'
  <2>1. CASE q = p
    BY <1>1, <2>1, FailStep
  <2>2. CASE q # p
    <3>1. pc[q] = "down" /\ pc'[q] = "down"
      BY <1>1, <2>2, OthersDown DEF Inv
    <3>2. cand'[q] = cand[q]
      BY <1>1, <2>2 DEF Step, Start, Load, Exit, Crash, Commit, BeginCommit, Attempt,
             RefuseCommit, WriteCandidate, WriteBackup, WriteTemp, RemoveTarget,
             ReplaceBackup, ReplaceCurrent, SyncDirectory, CleanUp, RecoverBackup, StartOver,
             BeginReplacement, RetainCorrupt, Goto, Fails, Succeeds, Return, Forget,
             Inv, TypeInv, TypeOK, local
    <3> QED BY <3>1, <3>2 DEF NotInstalled, FailInv
  <2> QED BY <2>1, <2>2
<1>2. CASE PowerLoss
  BY <1>2 DEF PowerLoss, Forget, FailInv, NotInstalled
<1>3. ASSUME NEW g \in Garbage, DamageCurrent(g), NEW p \in Procs PROVE NotInstalled(p)'
  <2>1. disk'[Current] = [rev |-> 0, data |-> g]
    BY <1>3, FileFacts DEF DamageCurrent, Inv, TypeInv, TypeOK
  <2>2. pc[p] \in {"down", "idle"} /\ UNCHANGED local
    BY <1>3 DEF DamageCurrent
  <2> QED BY <2>1, <2>2, ContentFacts DEF local, NotInstalled, FailInv, Readable
<1>4. ASSUME DamageBackup, NEW p \in Procs PROVE NotInstalled(p)'
  <2>1. disk'[Current] = disk[Current] /\ UNCHANGED local
    BY <1>4, FileFacts DEF DamageBackup, Effect, Inv, TypeInv, TypeOK
  <2> QED BY <2>1 DEF local, NotInstalled, FailInv
<1>5. CASE UNCHANGED vars
  BY <1>5 DEF vars, local, FailInv, NotInstalled
<1> QED BY <1>1, <1>2, <1>3, <1>4, <1>5 DEF Next, FailInv

\* While profile.json is read correctly, a commit that reports failure has not
\* put its candidate in place, whichever stage failed: the session the caller
\* keeps and the profile it will find agree (main.cpp:315, save_service.cpp:102-109).
THEOREM FailedNotInstalled ==
  ASSUME Platform = "posix", "read" \notin Hazards
  PROVE  Spec => []FailedMeansNotInstalled
<1>1. Init => FailInv
  BY DEF Init, FailInv, NotInstalled
<1>2. Inv /\ [Next]_vars => Inv'
  BY InvStep
<1>3. Inv /\ FailInv /\ [Next]_vars => FailInv'
  BY FailKept
<1>4. FailInv => FailedMeansNotInstalled
  BY DEF FailInv, NotInstalled, FailedMeansNotInstalled
<1> QED BY InitInv, <1>1, <1>2, <1>3, <1>4, PTL DEF Spec

-----------------------------------------------------------------------------
(* A readable profile under one of the two names *)

SomeReadable(v) == acked # Absent => v[1] \in Profiles \/ v[2] \in Profiles

\* Alive means holding the lock; a Windows lock file also outlives its owner.
LockHeld == \A p \in Procs : pc[p] # "down" => lock = p

\* What the commit under way relies on while one of the names is missing.
SurviveHold(p) ==
  /\ pc[p] \in {"write_candidate", "write_backup", "replace_backup"} =>
       curr[p] = disk[Current] /\ Whole(curr[p])
  /\ pc[p] \in {"write_backup", "replace_backup"} => curr[p] # Absent
  /\ pc[p] \in {"write_backup", "replace_backup", "replace_current"} =>
       disk[CandidateTempOf(p)] = cand[p]
  /\ pc[p] = "replace_backup" => disk[BackupTempOf(p)] = curr[p]
  /\ pc[p] = "replace_current" /\ acked # Absent => Readable(disk[Backup])
  /\ pc[p] = "sync" => disk[Current] = cand[p]

SurviveInv == /\ TypeInv
              /\ PlatterOK
              /\ LockHeld
              /\ SomeReadable(View(disk))
              /\ \A p \in Procs : SurviveHold(p)

\* Processes other than the one stepping are down.
LEMMA LockHeldKept ==
  ASSUME TypeInv, LockHeld, NEW p \in Procs, Step(p)
  PROVE  LockHeld' /\ \A q \in Procs \ {p} : pc'[q] = "down"
<1>1. pc[p] # "down" \/ (lock = "none" /\ Start(p))
  BY DEF Step, Start, Load, Exit, Crash, Commit, BeginCommit, Attempt, RefuseCommit,
         WriteCandidate, WriteBackup, WriteTemp, RemoveTarget, ReplaceBackup,
         ReplaceCurrent, SyncDirectory, CleanUp, RecoverBackup, StartOver,
         BeginReplacement, RetainCorrupt, Goto
<1>2. \A q \in Procs \ {p} : pc[q] = "down"
  BY <1>1, SaveAssumption DEF LockHeld
<1>3. \A q \in Procs \ {p} : pc'[q] = pc[q]
  BY DEF Step, Start, Load, Exit, Crash, Commit, BeginCommit, Attempt, RefuseCommit,
         WriteCandidate, WriteBackup, WriteTemp, RemoveTarget, ReplaceBackup,
         ReplaceCurrent, SyncDirectory, CleanUp, RecoverBackup, StartOver,
         BeginReplacement, RetainCorrupt, Goto, Fails, Succeeds, Return, Forget,
         TypeInv, TypeOK, local
<1>4. pc'[p] = "down" \/ lock' = p \/ (lock' = lock /\ pc[p] # "down")
  <2>1. CASE Exit(p) \/ Crash(p)
    BY <2>1 DEF Exit, Crash, Forget
  <2>2. CASE Start(p)
    BY <2>2 DEF Start
  <2>3. CASE ~(Exit(p) \/ Crash(p) \/ Start(p))
    <3>1. lock' = lock
      BY <2>3 DEF Step, Load, Commit, BeginCommit, Attempt, RefuseCommit,
             WriteCandidate, WriteBackup, WriteTemp, RemoveTarget, ReplaceBackup,
             ReplaceCurrent, SyncDirectory, CleanUp, RecoverBackup, StartOver,
             BeginReplacement, RetainCorrupt, Fails, Succeeds, Return
    <3> QED BY <1>1, <2>3, <3>1
  <2> QED BY <2>1, <2>2, <2>3
<1> QED BY <1>2, <1>3, <1>4 DEF LockHeld

\* Steps that leave the two names alone keep a readable one, and what the
\* commit relies on.
LEMMA SurvivePrivate ==
  ASSUME SurviveInv, NEW p \in Procs, Step(p),
         Crash(p) \/ pc[p] \notin {"replace_backup", "replace_current", "retain"}
  PROVE  SomeReadable(View(disk))' /\ SurviveHold(p)'
<1>0. TypeInv /\ PlatterOK /\ SurviveHold(p) /\ SomeReadable(View(disk))
  BY DEF SurviveInv
<1>1. disk'[Current] = disk[Current] /\ disk'[Backup] = disk[Backup]
  BY <1>0, PrivateStep DEF View
<1>2. \/ ~RemoveTarget(p) /\ ~ReplaceBackup(p) /\ ~ReplaceCurrent(p) /\ ~RetainCorrupt(p)
      \/ Crash(p)
  BY DEF RemoveTarget, ReplaceBackup, ReplaceCurrent, RetainCorrupt
<1>3. CASE \/ Start(p) \/ Load(p) \/ (\E d \in Payloads : Commit(p, d)) \/ RefuseCommit(p)
           \/ CleanUp(p) \/ Exit(p) \/ Crash(p) \/ RecoverBackup(p)
           \/ \E d \in Payloads : StartOver(p, d)
  <2>1. pc'[p] \in {"started", "idle", "begin", "retain", "down"}
    <3>1. CASE Exit(p) \/ Crash(p)
      BY <3>1 DEF Exit, Crash, Forget
    <3>2. CASE ~(Exit(p) \/ Crash(p))
      BY <1>0, <1>3, <3>2
      DEF Start, Load, Commit, RefuseCommit, CleanUp, RecoverBackup, StartOver,
          BeginReplacement, Fails, Return, Goto, TypeInv, TypeOK
    <3> QED BY <3>1, <3>2
  <2>2. acked' = acked
    BY <1>3 DEF Start, Load, Commit, RefuseCommit, CleanUp, RecoverBackup, StartOver,
                BeginReplacement, Fails, Return, Exit, Crash
  <2> QED BY <1>0, <1>1, <2>1, <2>2 DEF SurviveHold, SomeReadable, View
<1>4. CASE BeginCommit(p)
  <2>1. pc'[p] = "write_candidate" /\ curr'[p] = disk[Current] /\ acked' = acked
        /\ Whole(disk[Current])
    BY <1>0, <1>4 DEF BeginCommit, Attempt, Goto, TypeInv, TypeOK, Whole, Readable
  <2> QED BY <1>0, <1>1, <2>1 DEF SurviveHold, SomeReadable, View
<1>5. CASE WriteCandidate(p)
  <2>1. pc[p] = "write_candidate" /\ pc[p] \in Writing
    BY <1>5 DEF WriteCandidate, WriteTemp, Goto, Writing
  <2>2. UNCHANGED <<ctr, curr, cand, acked>>
    BY <1>5 DEF WriteCandidate, WriteTemp
  <2>3. \/ pc'[p] = "cleanup"
        \/ /\ pc'[p] = IF curr[p] = Absent THEN "replace_current" ELSE "write_backup"
           /\ Effect([disk EXCEPT ![CandidateTempOf(p)] = cand[p]])
    BY <1>0, <1>5 DEF WriteCandidate, WriteTemp, Goto, TypeInv, TypeOK
  <2>4. [disk EXCEPT ![CandidateTempOf(p)] = cand[p]][CandidateTempOf(p)] = cand[p]
    BY <1>0, <2>1, TempFacts DEF TypeInv, TypeOK
  <2>5. pc'[p] # "cleanup" => disk'[CandidateTempOf(p)] = cand[p]
    BY <2>3, <2>4 DEF Effect
  <2>6. curr[p] = disk[Current] /\ Whole(curr[p])
    BY <1>0, <2>1 DEF SurviveHold
  <2>7. curr[p] = Absent /\ acked # Absent => Readable(disk[Backup])
    BY <1>0, <2>6, ContentFacts DEF SomeReadable, View, Readable
  <2>8. SomeReadable(View(disk))'
    BY <1>0, <1>1, <2>2 DEF SomeReadable, View
  <2>9. CASE pc'[p] = "cleanup"
    BY <2>8, <2>9 DEF SurviveHold
  <2>10. CASE pc'[p] # "cleanup"
    BY <1>1, <2>2, <2>3, <2>5, <2>6, <2>7, <2>8, <2>10 DEF SurviveHold, CandidateTempOf
  <2> QED BY <2>9, <2>10
<1>6. CASE WriteBackup(p)
  <2>1. pc[p] = "write_backup" /\ pc[p] \in Writing
    BY <1>6 DEF WriteBackup, WriteTemp, Goto, Writing
  <2>2. UNCHANGED <<ctr, curr, cand, acked>>
    BY <1>6 DEF WriteBackup, WriteTemp
  <2>3. \/ pc'[p] = "cleanup"
        \/ /\ pc'[p] = "replace_backup"
           /\ Effect([disk EXCEPT ![BackupTempOf(p)] = curr[p]])
    BY <1>0, <1>6 DEF WriteBackup, WriteTemp, Goto, TypeInv, TypeOK
  <2>4. /\ [disk EXCEPT ![BackupTempOf(p)] = curr[p]][BackupTempOf(p)] = curr[p]
        /\ [disk EXCEPT ![BackupTempOf(p)] = curr[p]][CandidateTempOf(p)]
             = disk[CandidateTempOf(p)]
    BY <1>0, <2>1, TempFacts DEF TypeInv, TypeOK
  <2>5. pc'[p] # "cleanup" => /\ disk'[BackupTempOf(p)] = curr[p]
                              /\ disk'[CandidateTempOf(p)] = cand[p]
    BY <1>0, <2>1, <2>3, <2>4 DEF Effect, SurviveHold
  <2>6. curr[p] = disk[Current] /\ Whole(curr[p]) /\ curr[p] # Absent
    BY <1>0, <2>1 DEF SurviveHold
  <2>7. SomeReadable(View(disk))'
    BY <1>0, <1>1, <2>2 DEF SomeReadable, View
  <2> QED BY <1>1, <2>2, <2>3, <2>5, <2>6, <2>7 DEF SurviveHold, CandidateTempOf, BackupTempOf
<1>7. CASE SyncDirectory(p)
  <2>1. disk[Current] = cand[p] /\ cand[p] \in Profiles
    BY <1>0, <1>7 DEF SyncDirectory, SurviveHold, TypeInv, StageOK, Writing
  <2>2. pc'[p] \in {"idle", "cleanup"}
    BY <1>0, <1>7 DEF SyncDirectory, Succeeds, Return, Goto, TypeInv, TypeOK
  <2>3. SomeReadable(View(disk))'
    BY <1>1, <2>1 DEF SomeReadable, View
  <2> QED BY <2>2, <2>3 DEF SurviveHold
<1> QED BY <1>2, <1>3, <1>4, <1>5, <1>6, <1>7 DEF Step

\* Where one of the names is being replaced, the other is readable.
LEMMA SurviveReplace ==
  ASSUME SurviveInv, NEW p \in Procs,
         RemoveTarget(p) \/ ReplaceBackup(p) \/ ReplaceCurrent(p) \/ RetainCorrupt(p)
  PROVE  SomeReadable(View(disk))' /\ SurviveHold(p)'
<1>0. TypeInv /\ SurviveHold(p) /\ SomeReadable(View(disk))
  BY DEF SurviveInv
<1>1. CASE RemoveTarget(p)
  <2>1. PICK f : /\ \/ f = Backup /\ pc[p] = "replace_backup"
                    \/ f = Current /\ pc[p] = "replace_current"
                    \/ f = Corrupt(ctr[p] + 1) /\ pc[p] = "retain"
                 /\ Effect([disk EXCEPT ![f] = Absent])
    BY <1>1 DEF RemoveTarget
  <2>2. UNCHANGED <<pc, ctr, curr, cand, acked>>
    BY <1>1 DEF RemoveTarget, local
  <2>3. \A g \in Files : g # f => [disk EXCEPT ![f] = Absent][g] = disk[g]
    BY <1>0 DEF TypeInv, TypeOK
  <2>4. \A g \in Files : g # f => disk'[g] = disk[g]
    BY <2>1, <2>3 DEF Effect
  <2>5. CASE f = Backup /\ pc[p] = "replace_backup"
    <3>1. /\ CandidateTempOf(p) \in Files \ {Current, Backup}
          /\ BackupTempOf(p) \in Files \ {Current, Backup}
      BY <1>0, <2>5, TempFacts DEF Writing
    <3>2. disk'[Current] = disk[Current] /\ disk'[CandidateTempOf(p)] = disk[CandidateTempOf(p)]
          /\ disk'[BackupTempOf(p)] = disk[BackupTempOf(p)]
      BY <2>4, <2>5, <3>1, FileFacts
    <3>3. disk[Current] \in Profiles
      BY <1>0, <2>5 DEF SurviveHold, Whole
    <3> QED BY <1>0, <2>2, <2>5, <3>2, <3>3
            DEF SurviveHold, SomeReadable, View, CandidateTempOf, BackupTempOf
  <2>6. CASE f = Current /\ pc[p] = "replace_current"
    <3>1. CandidateTempOf(p) \in Files \ {Current, Backup}
      BY <1>0, <2>6, TempFacts DEF Writing
    <3>2. disk'[Backup] = disk[Backup] /\ disk'[CandidateTempOf(p)] = disk[CandidateTempOf(p)]
      BY <2>4, <2>6, <3>1, FileFacts
    <3> QED BY <1>0, <2>2, <2>6, <3>2
            DEF SurviveHold, SomeReadable, View, CandidateTempOf, Readable
  <2>7. CASE f = Corrupt(ctr[p] + 1) /\ pc[p] = "retain"
    <3>1. disk'[Current] = disk[Current] /\ disk'[Backup] = disk[Backup]
      BY <2>4, <2>7, FileFacts
    <3> QED BY <1>0, <2>2, <2>7, <3>1 DEF SurviveHold, SomeReadable, View
  <2> QED BY <2>1, <2>5, <2>6, <2>7
<1>2. CASE ReplaceBackup(p)
  <2>1. pc[p] = "replace_backup" /\ pc[p] \in Writing
    BY <1>2 DEF ReplaceBackup, Writing
  <2> DEFINE d == Renamed(BackupTempOf(p), Backup)
  <2>2. /\ d[Backup] = curr[p] /\ d[Current] = disk[Current]
        /\ d[CandidateTempOf(p)] = cand[p]
    BY <1>0, <2>1, TempFacts, RenameFacts, FileFacts DEF SurviveHold
  <2> HIDE DEF d
  <2>3. UNCHANGED <<ctr, curr, cand, acked>>
    BY <1>2 DEF ReplaceBackup
  <2>4. \/ pc'[p] = "replace_current" /\ Effect(d)
        \/ pc'[p] = "cleanup" /\ (Effect(d) \/ NoEffect)
    BY <1>0, <1>2 DEF ReplaceBackup, Goto, TypeInv, TypeOK, d
  <2>5. curr[p] \in Profiles /\ disk[Current] = curr[p]
    BY <1>0, <2>1 DEF SurviveHold, Whole
  <2>6. disk'[Current] = disk[Current] /\ (disk' = d \/ pc'[p] = "cleanup")
    BY <2>2, <2>4 DEF Effect, NoEffect
  <2> QED BY <2>2, <2>3, <2>4, <2>5, <2>6
          DEF SurviveHold, SomeReadable, View, CandidateTempOf, Readable
<1>3. CASE ReplaceCurrent(p)
  <2>1. pc[p] = "replace_current" /\ pc[p] \in Writing
    BY <1>3 DEF ReplaceCurrent, Writing
  <2> DEFINE d == Renamed(CandidateTempOf(p), Current)
  <2>2. d[Current] = cand[p] /\ d[Backup] = disk[Backup] /\ cand[p] \in Profiles
    BY <1>0, <2>1, TempFacts, RenameFacts, FileFacts DEF SurviveHold, TypeInv, StageOK
  <2> HIDE DEF d
  <2>3. /\ pc'[p] \in {"sync", "idle", "cleanup"} /\ acked' = acked
        /\ Effect(d) \/ NoEffect
        /\ pc'[p] = "sync" => Effect(d) /\ cand' = cand
    BY <1>0, <1>3 DEF ReplaceCurrent, Succeeds, Return, Goto, TypeInv, TypeOK, d
  <2>4. disk'[Backup] = disk[Backup]
    BY <2>2, <2>3 DEF Effect, NoEffect
  <2>5. SomeReadable(View(disk))'
    BY <1>0, <2>1, <2>3, <2>4 DEF SurviveHold, SomeReadable, View, Readable
  <2> QED BY <2>2, <2>3, <2>5 DEF SurviveHold, Effect
<1>4. CASE RetainCorrupt(p)
  <2>1. pc'[p] \in {"begin", "idle"}
    BY <1>0, <1>4 DEF RetainCorrupt, Goto, TypeInv, TypeOK
  <2>2. acked' = Absent \/ (acked' = acked /\ disk' = disk)
    BY <1>4 DEF RetainCorrupt, NoEffect
  <2> QED BY <1>0, <2>1, <2>2 DEF SurviveHold, SomeReadable, View
<1> QED BY <1>1, <1>2, <1>3, <1>4

\* Every step keeps one readable revision.
LEMMA SurviveKept ==
  ASSUME "power" \notin Hazards, SurviveInv, [Next]_vars
  PROVE  SurviveInv'
<1>1. PlatterOK'
  BY PlatterKept DEF SurviveInv
<1>2. TypeInv'
  <2>1. TypeInv /\ UNCHANGED vars => TypeInv'
    BY DEF vars, local, TypeInv, TypeOK, StageOK
  <2> QED BY <2>1, StepType, OutsideType DEF Next, SurviveInv
<1>3. ASSUME NEW p \in Procs, Step(p)
      PROVE  LockHeld' /\ SomeReadable(View(disk))' /\ \A q \in Procs : SurviveHold(q)'
  <2>1. LockHeld' /\ \A q \in Procs \ {p} : pc'[q] = "down"
    BY <1>3, LockHeldKept DEF SurviveInv
  <2>2. \A q \in Procs \ {p} : SurviveHold(q)'
    BY <2>1 DEF SurviveHold
  <2>3. \/ RemoveTarget(p) \/ ReplaceBackup(p) \/ ReplaceCurrent(p) \/ RetainCorrupt(p)
        \/ Crash(p) \/ pc[p] \notin {"replace_backup", "replace_current", "retain"}
    BY <1>3 DEF Step, Start, Load, Exit, Commit, BeginCommit, Attempt, RefuseCommit,
           WriteCandidate, WriteBackup, WriteTemp, SyncDirectory, CleanUp, RecoverBackup,
           StartOver, BeginReplacement, Fails, Return, Goto
  <2> QED BY <1>3, <2>1, <2>2, <2>3, SurvivePrivate, SurviveReplace
<1>4. CASE (\E g \in Garbage : DamageCurrent(g)) \/ DamageBackup
  <2>1. UNCHANGED <<lock, local>> /\ \A p \in Procs : pc[p] \in {"down", "idle"}
    BY <1>4 DEF DamageCurrent, DamageBackup
  <2>2. acked' = Absent \/ disk'[Current] \in Profiles
    <3>1. CASE DamageBackup
      <4>1. [disk EXCEPT ![Backup] = Torn][Current] = disk[Current]
        BY FileFacts DEF SurviveInv, TypeInv, TypeOK
      <4> QED BY <3>1, <4>1 DEF DamageBackup, Effect, Readable
    <3> QED BY <1>4, <3>1 DEF DamageCurrent
  <2>3. LockHeld'
    BY <2>1 DEF local, SurviveInv, LockHeld
  <2>4. \A p \in Procs : SurviveHold(p)'
    <3>1. \A p \in Procs : pc'[p] \in {"down", "idle"}
      BY <2>1 DEF local
    <3> QED BY <3>1 DEF SurviveHold
  <2>5. SomeReadable(View(disk))'
    BY <2>2 DEF SurviveInv, SomeReadable, View
  <2> QED BY <1>1, <1>2, <2>3, <2>4, <2>5 DEF SurviveInv
<1>5. CASE UNCHANGED vars
  <2>1. UNCHANGED <<disk, lock, pc, ctr, curr, cand, acked>>
    BY <1>5 DEF vars, local
  <2>2. LockHeld' /\ SomeReadable(View(disk))'
    BY <2>1 DEF SurviveInv, LockHeld, SomeReadable, View
  <2>3. \A p \in Procs : SurviveHold(p)'
    BY <2>1 DEF SurviveInv, SurviveHold, CandidateTempOf, BackupTempOf
  <2> QED BY <1>1, <1>2, <2>2, <2>3 DEF SurviveInv
<1>6. ~PowerLoss
  BY DEF PowerLoss
<1> QED BY <1>1, <1>2, <1>3, <1>4, <1>5, <1>6 DEF Next, SurviveInv

\* An acknowledged profile never leaves its two names without one that decodes:
\* on Windows, where a file is removed before it is replaced, through every
\* failure and process death short of a power cut (there is no directory sync);
\* on POSIX through power cuts too (save_service.cpp:36-42,99-103).
THEOREM OneNameSurvives ==
  ASSUME Platform = "posix" \/ "power" \notin Hazards
  PROVE  Spec => []SomeRevisionSurvives
<1>1. CASE "power" \notin Hazards
  <2>1. Init => SurviveInv
    <3> SUFFICES ASSUME Init PROVE SurviveInv
      OBVIOUS
    <3>1. TypeInv
      BY InitType
    <3>2. PlatterOK /\ LockHeld /\ SomeReadable(View(disk)) /\ \A p \in Procs : SurviveHold(p)
      BY DEF Init, PlatterOK, LockHeld, SomeReadable, SurviveHold
    <3> QED BY <3>1, <3>2 DEF SurviveInv
  <2>2. SurviveInv /\ [Next]_vars => SurviveInv'
    BY <1>1, SurviveKept
  <2>3. SurviveInv => SomeRevisionSurvives
    BY <1>1 DEF SurviveInv, PlatterOK, SomeReadable, View, SomeRevisionSurvives, Readable
  <2> QED BY <2>1, <2>2, <2>3, PTL DEF Spec
<1>2. CASE Platform = "posix"
  <2>1. Spec => []AckedSurvives
    BY <1>2, AckedDurable
  <2>2. AckedSurvives => SomeRevisionSurvives
    BY DEF AckedSurvives, SomeRevisionSurvives
  <2> QED BY <2>1, <2>2, PTL
<1> QED BY <1>1, <1>2
==============================================================================
