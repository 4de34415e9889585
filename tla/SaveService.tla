----------------------------- MODULE SaveService -----------------------------
(***************************************************************************)
(* The durable profile store, src/persistence/save_service.cpp: the        *)
(* platform lock, load, commit and the recovery path, one action per       *)
(* filesystem effect, so that a crash or a power cut may fall between any  *)
(* two of them and every FileOps call may fail where the environment       *)
(* (Hazards) allows it.                                                    *)
(*                                                                         *)
(* A file's contents are abstracted to a revision and a payload: a payload *)
(* stands for one encoded ProfileSnapshot that decode_profile accepts.     *)
(***************************************************************************)
EXTENDS Naturals, FiniteSets

CONSTANTS
  Procs,        \* program instances that may open the same profile directory
  Payloads,     \* profile snapshots, revision aside, that validate
  Garbage,      \* distinct unreadable contents left in profile.json from outside
  Platform,     \* which branch of #if defined(_WIN32) is compiled
  Hazards,      \* what the environment may do wrong in this instance
  MaxRevision,  \* numeric_limits<uint64_t>::max()
  MaxTemp       \* bound on temporary_counter_ within one process lifetime

ASSUME SaveAssumption ==
  /\ Platform \in {"posix", "windows"}
  /\ Hazards \subseteq {"read", "write", "replace", "sync", "remove", "invalid",
                        "crash", "power", "damage"}
  /\ MaxRevision \in Nat \ {0}
  /\ MaxTemp \in Nat
  /\ Payloads \cap Garbage = {}
  /\ {"absent", "torn"} \cap (Payloads \cup Garbage) = {}
  /\ "none" \notin Procs

VARIABLES
  disk,       \* what a process reads: the file system as the kernel shows it
  platter,    \* the disk states a power cut may leave behind
  lock,       \* owner of profile.lock, or "none"
  pc,         \* where each process stands in the service
  ctr,        \* temporary_counter_, starts at 0 in every process
  want,       \* payload being committed
  curr,       \* current_contents read by the commit under way
  cand,       \* the candidate with its revision
  mode,       \* LoadState the process works under
  found,      \* LoadResult::backup
  result,     \* outcome of the last SaveResult returned
  acked,      \* history: last commit reported durable and not damaged since
  originals   \* history: unreadable contents profile.json has held

local == <<pc, ctr, want, curr, cand, mode, found, result>>
vars == <<disk, platter, lock, local, acked, originals>>

-----------------------------------------------------------------------------
(* Files and contents *)

Content == [rev : 0..MaxRevision, data : Payloads \cup Garbage \cup {"absent", "torn"}]
Profiles == [rev : 1..MaxRevision, data : Payloads]
Absent == [rev |-> 0, data |-> "absent"]
Torn == [rev |-> 0, data |-> "torn"]

\* decode_profile accepts the contents.
Readable(c) == c \in Profiles

Current == <<"profile.json", 0>>
Backup == <<"profile.backup.json", 0>>
ProfileTemp(n) == <<"profile.tmp", n>>
BackupTemp(n) == <<"backup.tmp", n>>
Corrupt(n) == <<"profile.corrupt.json", n>>
Files == {Current, Backup}
         \cup {ProfileTemp(n) : n \in 1..MaxTemp}
         \cup {BackupTemp(n) : n \in 1..MaxTemp}
         \cup {Corrupt(n) : n \in 1..MaxTemp}

\* The two names one commit took from unique_temporary.
CandidateTempOf(p) == ProfileTemp(ctr[p] - 1)
BackupTempOf(p) == BackupTemp(ctr[p])

(***************************************************************************)
(* FileOps.  Directory operations reach the platter in order but at a time *)
(* of the file system's choosing, until sync_directory returns.            *)
(***************************************************************************)
Effect(d) ==
  /\ disk' = d
  /\ platter' = IF "power" \in Hazards THEN platter \cup {d} ELSE {d}
NoEffect == UNCHANGED <<disk, platter>>

\* What read() may hand to the decoder: an exception decodes as nothing.
Reads(f) == {disk[f]} \cup (IF "read" \in Hazards THEN {Torn} ELSE {})

\* open(O_CREAT | O_EXCL) on POSIX; truncation on Windows.
CanCreate(f) == Platform = "windows" \/ disk[f] = Absent

Renamed(from, to) == [disk EXCEPT ![to] = disk[from], ![from] = Absent]

\* remove(to) comes first on Windows, so the rename itself meets no target.
CanRename(to) == Platform = "windows" => disk[to] = Absent

-----------------------------------------------------------------------------
Init ==
  /\ disk = [f \in Files |-> Absent]
  /\ platter = {disk}
  /\ lock = "none"
  /\ pc = [p \in Procs |-> "down"]
  /\ ctr = [p \in Procs |-> 0]
  /\ want = [p \in Procs |-> "absent"]
  /\ curr = [p \in Procs |-> Absent]
  /\ cand = [p \in Procs |-> Absent]
  /\ mode = [p \in Procs |-> "none"]
  /\ found = [p \in Procs |-> Absent]
  /\ result = [p \in Procs |-> "none"]
  /\ acked = Absent
  /\ originals = {}

Goto(p, from, to) == pc[p] = from /\ pc' = [pc EXCEPT ![p] = to]

-----------------------------------------------------------------------------
(* Process lifetime *)

\* Fault: the flock result is ignored.
StartUnlocked(p) ==
  /\ Goto(p, "down", "started")
  /\ lock' = p
  /\ ctr' = [ctr EXCEPT ![p] = 0]
  /\ NoEffect
  /\ UNCHANGED <<want, curr, cand, mode, found, result, acked, originals>>

\* SaveService::SaveService and acquire_lock.
Start(p) ==
  /\ lock = "none"
  /\ Goto(p, "down", "started")
  /\ lock' = p
  /\ ctr' = [ctr EXCEPT ![p] = 0]
  /\ NoEffect
  /\ UNCHANGED <<want, curr, cand, mode, found, result, acked, originals>>

\* SaveService::load, the caller's only call before it chooses what to do.
Load(p) ==
  /\ Goto(p, "started", "idle")
  /\ \E c \in Reads(Current), b \in Reads(Backup) :
       LET state == IF disk[Current] = Absent THEN "NewProfile"
                    ELSE IF Readable(c) THEN "Loaded"
                    ELSE IF Readable(b) THEN "RecoveryAvailable"
                    ELSE "Invalid"
       IN /\ mode' = [mode EXCEPT ![p] = state]
          /\ found' = [found EXCEPT ![p] = IF state = "RecoveryAvailable" THEN b ELSE Absent]
  /\ NoEffect
  /\ UNCHANGED <<lock, ctr, want, curr, cand, result, acked, originals>>

\* What a process forgets when it ends, however it ends.
Forget(gone) ==
  /\ pc' = [p \in Procs |-> IF p \in gone THEN "down" ELSE pc[p]]
  /\ ctr' = [p \in Procs |-> IF p \in gone THEN 0 ELSE ctr[p]]
  /\ want' = [p \in Procs |-> IF p \in gone THEN "absent" ELSE want[p]]
  /\ curr' = [p \in Procs |-> IF p \in gone THEN Absent ELSE curr[p]]
  /\ cand' = [p \in Procs |-> IF p \in gone THEN Absent ELSE cand[p]]
  /\ mode' = [p \in Procs |-> IF p \in gone THEN "none" ELSE mode[p]]
  /\ found' = [p \in Procs |-> IF p \in gone THEN Absent ELSE found[p]]
  /\ result' = [p \in Procs |-> IF p \in gone THEN "none" ELSE result[p]]

\* ~SaveService and release_lock.
Exit(p) ==
  /\ pc[p] = "idle"
  /\ Forget({p})
  /\ lock' = "none"
  /\ NoEffect
  /\ UNCHANGED <<acked, originals>>

\* The files a dying process may leave: the write under way may be cut short.
CrashOutcomes(p) ==
  {disk}
  \cup (IF pc[p] = "write_candidate" /\ CanCreate(CandidateTempOf(p))
          THEN {[disk EXCEPT ![CandidateTempOf(p)] = Torn]} ELSE {})
  \cup (IF pc[p] = "write_backup" /\ CanCreate(BackupTempOf(p))
          THEN {[disk EXCEPT ![BackupTempOf(p)] = Torn]} ELSE {})

\* The kernel drops a dead process's flock; a Windows lock file stays behind.
LockAfterDeath == lock' = IF Platform = "posix" THEN "none" ELSE lock

Crash(p) ==
  /\ "crash" \in Hazards
  /\ pc[p] # "down"
  /\ Forget({p})
  /\ \E d \in CrashOutcomes(p) : Effect(d)
  /\ LockAfterDeath
  /\ UNCHANGED <<acked, originals>>

PowerLoss ==
  /\ "power" \in Hazards
  /\ Forget(Procs)
  /\ disk' \in platter
  /\ platter' = {disk'}
  /\ LockAfterDeath
  /\ UNCHANGED <<acked, originals>>

\* profile.json is damaged from outside (bit rot, an edit, a newer schema).
DamageCurrent(g) ==
  /\ "damage" \in Hazards
  /\ \A p \in Procs : pc[p] \in {"down", "idle"}
  /\ Readable(disk[Current])
  /\ g \notin originals
  /\ disk' = [disk EXCEPT ![Current] = [rev |-> 0, data |-> g]]
  /\ platter' = {disk'}
  /\ acked' = Absent
  /\ originals' = originals \cup {g}
  /\ UNCHANGED <<lock, local>>

\* The backup suffers while profile.json is whole; both are lost only one after the other.
DamageBackup ==
  /\ "damage" \in Hazards
  /\ \A p \in Procs : pc[p] \in {"down", "idle"}
  /\ Readable(disk[Current]) /\ Readable(disk[Backup])
  /\ Effect([disk EXCEPT ![Backup] = Torn])
  /\ UNCHANGED <<lock, local, acked, originals>>

-----------------------------------------------------------------------------
(* commit *)

\* The caller's request; no commit is made while the recovery prompt is open.
Commit(p, d) ==
  /\ mode[p] \in {"NewProfile", "Loaded"}
  /\ ctr[p] + 2 <= MaxTemp
  /\ Goto(p, "idle", "begin")
  /\ want' = [want EXCEPT ![p] = d]
  /\ cand' = [cand EXCEPT ![p] = Absent]
  /\ NoEffect
  /\ UNCHANGED <<lock, ctr, curr, mode, found, result, acked, originals>>

\* SaveResult{committed, ...}: control returns to the caller.
Return(p, from, outcome) ==
  /\ Goto(p, from, "idle")
  /\ result' = [result EXCEPT ![p] = outcome]
  /\ want' = [want EXCEPT ![p] = "absent"]
  /\ curr' = [curr EXCEPT ![p] = Absent]
  /\ UNCHANGED <<lock, ctr, cand, found, originals>>

Fails(p, from) ==
  /\ Return(p, from, "failed")
  /\ UNCHANGED <<mode, acked>>

\* The owner adopts the committed profile, which also closes a recovery prompt.
Succeeds(p, from, outcome) ==
  /\ Return(p, from, outcome)
  /\ mode' = [mode EXCEPT ![p] = "Loaded"]

Attempt(p, revision) ==
  /\ Goto(p, "begin", "write_candidate")
  /\ curr' = [curr EXCEPT ![p] = disk[Current]]
  /\ cand' = [cand EXCEPT ![p] = [rev |-> revision, data |-> want[p]]]
  /\ ctr' = [ctr EXCEPT ![p] = @ + 2]
  /\ NoEffect
  /\ UNCHANGED <<lock, want, mode, found, result, acked, originals>>

\* Current profile read and decoded, next revision assigned, candidate encoded
\* and verified, both temporary names taken.
BeginCommit(p) ==
  /\ disk[Current] = Absent \/ Readable(disk[Current])
  /\ disk[Current].rev # MaxRevision
  /\ Attempt(p, disk[Current].rev + 1)

\* The early returns before anything is written.
RefuseCommit(p) ==
  /\ pc[p] = "begin"
  /\ \/ disk[Current] # Absent /\ \E c \in Reads(Current) : ~Readable(c)
     \/ disk[Current].rev = MaxRevision
     \/ "invalid" \in Hazards
  /\ Fails(p, "begin")
  /\ NoEffect

\* write_and_flush of a temporary, then its verification by the decoder.
WriteTemp(p, from, file, contents, to) ==
  \/ /\ Goto(p, from, to)
     /\ CanCreate(file)
     /\ Effect([disk EXCEPT ![file] = contents])
     /\ UNCHANGED <<lock, ctr, want, curr, cand, mode, found, result, acked, originals>>
  \/ /\ Goto(p, from, "cleanup")
     /\ \/ ~CanCreate(file) /\ NoEffect
        \/ "write" \in Hazards /\ NoEffect
        \/ /\ "write" \in Hazards
           /\ CanCreate(file)
           /\ \E c \in {Torn, contents} : Effect([disk EXCEPT ![file] = c])
     /\ UNCHANGED <<lock, ctr, want, curr, cand, mode, found, result, acked, originals>>

\* Faults: the backup step is skipped; the backup copies the candidate.
WriteCandidateNoBackup(p) ==
  WriteTemp(p, "write_candidate", CandidateTempOf(p), cand[p], "replace_current")
WriteBackupOfCandidate(p) ==
  WriteTemp(p, "write_backup", BackupTempOf(p), cand[p], "replace_backup")

WriteCandidate(p) ==
  WriteTemp(p, "write_candidate", CandidateTempOf(p), cand[p],
            IF curr[p] = Absent THEN "replace_current" ELSE "write_backup")

WriteBackup(p) ==
  WriteTemp(p, "write_backup", BackupTempOf(p), curr[p], "replace_backup")

\* Windows only: replace() removes its target before it renames.
RemoveTarget(p) ==
  /\ Platform = "windows"
  /\ \E f \in (CASE pc[p] = "replace_backup" -> {Backup}
                 [] pc[p] = "replace_current" -> {Current}
                 [] pc[p] = "retain" /\ disk[Current] # Absent -> {Corrupt(ctr[p] + 1)}
                 [] OTHER -> {}) :
       /\ disk[f] # Absent
       /\ Effect([disk EXCEPT ![f] = Absent])
  /\ UNCHANGED <<lock, local, acked, originals>>

\* A rename that throws may or may not have taken effect.
ReplaceBackup(p) ==
  /\ pc[p] = "replace_backup"
  /\ CanRename(Backup)
  /\ \/ /\ Goto(p, "replace_backup", "replace_current")
        /\ Effect(Renamed(BackupTempOf(p), Backup))
     \/ /\ "replace" \in Hazards
        /\ Goto(p, "replace_backup", "cleanup")
        /\ Effect(Renamed(BackupTempOf(p), Backup)) \/ NoEffect
  /\ UNCHANGED <<lock, ctr, want, curr, cand, mode, found, result, acked, originals>>

\* Fault: an exception from replace is taken at its word.
ConfirmsNothing(c, p) == FALSE

\* The re-read of profile.json that settles an unclear replacement.
Confirms(c, p) == Readable(c) /\ c.rev = cand[p].rev

\* What a re-read of profile.json may return once the file system is d.
Rereads(d) == {d[Current]} \cup (IF "read" \in Hazards THEN {Torn} ELSE {})

ReplaceCurrent(p) ==
  /\ pc[p] = "replace_current"
  /\ CanRename(Current)
  /\ \/ /\ Goto(p, "replace_current", "sync")
        /\ Effect(Renamed(CandidateTempOf(p), Current))
        /\ UNCHANGED <<lock, ctr, want, curr, cand, mode, found, result, acked, originals>>
     \/ /\ "replace" \in Hazards
        /\ Effect(Renamed(CandidateTempOf(p), Current)) \/ NoEffect
        /\ \E c \in Rereads(disk') :
             \/ /\ Confirms(c, p)
                /\ Succeeds(p, "replace_current", "uncertain")
                /\ UNCHANGED <<cand, acked>>
             \/ /\ ~Confirms(c, p)
                /\ Goto(p, "replace_current", "cleanup")
                /\ UNCHANGED <<lock, ctr, want, curr, cand, mode, found, result, acked, originals>>

\* Fault: sync_directory returns without the fsync.
NotSynced == platter

\* sync_directory has no Windows body.
Synced == IF Platform = "posix" THEN {disk} ELSE platter

SyncDirectory(p) ==
  /\ pc[p] = "sync"
  /\ \/ /\ Succeeds(p, "sync", "committed")
        /\ acked' = cand[p]
        /\ disk' = disk
        /\ platter' = Synced
     \/ /\ "sync" \in Hazards
        /\ NoEffect
        /\ \E c \in Rereads(disk) :
             \/ /\ Confirms(c, p)
                /\ Succeeds(p, "sync", "uncertain")
                /\ UNCHANGED acked
             \/ /\ ~Confirms(c, p)
                /\ Goto(p, "sync", "cleanup")
                /\ UNCHANGED <<lock, ctr, want, curr, cand, mode, found, result, acked, originals>>

\* The handler around the whole attempt: both temporaries go, silently.
CleanUp(p) ==
  /\ pc[p] = "cleanup"
  /\ \E kept \in SUBSET {CandidateTempOf(p), BackupTempOf(p)} :
       /\ "remove" \in Hazards \/ kept = {}
       /\ Effect([f \in Files |-> IF f \in {CandidateTempOf(p), BackupTempOf(p)} \ kept
                                    THEN Absent ELSE disk[f]])
  /\ Fails(p, "cleanup")

-----------------------------------------------------------------------------
(* recover_backup and replace_unreadable, called from the recovery prompt *)

BeginReplacement(p, d) ==
  /\ ctr[p] + 3 <= MaxTemp
  /\ Goto(p, "idle", "retain")
  /\ want' = [want EXCEPT ![p] = d]
  /\ cand' = [cand EXCEPT ![p] = Absent]
  /\ NoEffect
  /\ UNCHANGED <<lock, ctr, curr, mode, found, result, acked, originals>>

RecoverBackup(p) ==
  /\ mode[p] = "RecoveryAvailable"
  /\ BeginReplacement(p, found[p].data)

StartOver(p, d) ==
  /\ mode[p] \in {"RecoveryAvailable", "Invalid"}
  /\ BeginReplacement(p, d)

\* The unreadable file is moved aside, then commit runs as for a new profile.
RetainCorrupt(p) ==
  /\ pc[p] = "retain"
  /\ \/ /\ disk[Current] = Absent
        /\ Goto(p, "retain", "begin")
        /\ NoEffect
        /\ UNCHANGED <<lock, ctr, want, curr, cand, mode, found, result, acked, originals>>
     \/ LET retained == Corrupt(ctr[p] + 1) IN
        /\ disk[Current] # Absent
        /\ CanRename(retained)
        /\ ctr' = [ctr EXCEPT ![p] = @ + 1]
        /\ \/ /\ Goto(p, "retain", "begin")
              /\ Effect(Renamed(Current, retained))
              /\ acked' = Absent
              /\ UNCHANGED <<lock, want, curr, cand, mode, found, result, originals>>
           \/ /\ "replace" \in Hazards
              /\ \/ Effect(Renamed(Current, retained)) /\ acked' = Absent
                 \/ NoEffect /\ UNCHANGED acked
              /\ Goto(p, "retain", "idle")
              /\ result' = [result EXCEPT ![p] = "failed"]
              /\ want' = [want EXCEPT ![p] = "absent"]
              /\ UNCHANGED <<lock, curr, cand, mode, found, originals>>

-----------------------------------------------------------------------------
Step(p) ==
  \/ Start(p)
  \/ Load(p)
  \/ Exit(p)
  \/ Crash(p)
  \/ \E d \in Payloads : Commit(p, d)
  \/ BeginCommit(p)
  \/ RefuseCommit(p)
  \/ WriteCandidate(p)
  \/ WriteBackup(p)
  \/ RemoveTarget(p)
  \/ ReplaceBackup(p)
  \/ ReplaceCurrent(p)
  \/ SyncDirectory(p)
  \/ CleanUp(p)
  \/ RecoverBackup(p)
  \/ \E d \in Payloads : StartOver(p, d)
  \/ RetainCorrupt(p)

Next ==
  \/ \E p \in Procs : Step(p)
  \/ PowerLoss
  \/ \E g \in Garbage : DamageCurrent(g)
  \/ DamageBackup

Spec == Init /\ [][Next]_vars

-----------------------------------------------------------------------------
(* Properties *)

Stages == {"down", "started", "idle", "begin", "write_candidate", "write_backup",
           "replace_backup", "replace_current", "sync", "cleanup", "retain"}
Modes == {"none", "NewProfile", "Loaded", "RecoveryAvailable", "Invalid"}

\* The type invariant of the store and of every process's view of it.
TypeOK ==
  /\ disk \in [Files -> Content]
  /\ platter \subseteq [Files -> Content]
  /\ lock \in Procs \cup {"none"}
  /\ pc \in [Procs -> Stages]
  /\ ctr \in [Procs -> 0..MaxTemp]
  /\ want \in [Procs -> Payloads \cup {"absent"}]
  /\ curr \in [Procs -> Content]
  /\ cand \in [Procs -> Content]
  /\ mode \in [Procs -> Modes]
  /\ found \in [Procs -> Content]
  /\ result \in [Procs -> {"none", "committed", "uncertain", "failed"}]
  /\ acked \in Profiles \cup {Absent}
  /\ originals \subseteq Garbage

\* A commit reported as durable survives every later failure, crash and power
\* cut: whatever the platter holds, profile.json decodes to it or to a later
\* revision (save_service.cpp:88-107, the order write, verify, rename, sync).
AckedSurvives ==
  acked # Absent =>
    \A d \in platter :
      /\ Readable(d[Current])
      /\ d[Current].rev >= acked.rev
      /\ d[Current].rev = acked.rev => d[Current] = acked

\* The backup is the revision just before the current one, or a copy of the
\* current one when a later stage failed; it never runs ahead or goes missing
\* once there have been two revisions (save_service.cpp:99-101).
BackupIsPrevious ==
  \A d \in platter :
    /\ Readable(d[Backup]) =>
         /\ Readable(d[Current])
         /\ d[Current].rev \in {d[Backup].rev, d[Backup].rev + 1}
         /\ d[Current].rev = d[Backup].rev => d[Current] = d[Backup]
    /\ Readable(d[Current]) /\ d[Current].rev > 1 => Readable(d[Backup])

\* A commit reported as failed did not put its candidate in place, so the
\* caller may keep the live session and retry (main.cpp:315).
FailedMeansNotInstalled ==
  \A p \in Procs :
    (pc[p] = "idle" /\ result[p] = "failed" /\ Readable(cand[p]))
      => disk[Current] # cand[p]

\* The lock is held exactly by the one process that is alive: a second writer
\* is refused, and a writer's death frees the profile (save_service.cpp:60-73).
LockOwnedForLifetime ==
  \A p \in Procs : (pc[p] # "down") <=> (lock = p)

\* Whatever fails, and on either platform, a crash leaves a readable profile
\* under one of its two names (save_service.cpp:36-42,99-103).
SomeRevisionSurvives ==
  acked # Absent => \A d \in platter : Readable(d[Current]) \/ Readable(d[Backup])

Durable == INSTANCE DurableProfile WITH
             Unreadable <- {[rev |-> 0, data |-> g] : g \in Garbage},
             value <- disk[Current],
             survivors <- {d[Current] : d \in platter},
             safe <- acked

\* Seen through profile.json alone the service is the durable profile of
\* DurableProfile: whole revisions, each one above the last, unreadable
\* contents never overwritten (save_service.cpp:88-126).
RefinesDurable == Durable!Spec

\* Every unreadable profile.json is still on disk for diagnosis, here or under
\* a profile.corrupt name (save_service.cpp:113-125).
OriginalsRetained ==
  \A g \in originals : \E f \in Files : disk[f].data = g

=============================================================================
