------------------------ MODULE IdentityHolderProofs ------------------------
(***************************************************************************)
(* Proofs about the identity holder: key files are named after their keys, *)
(* no key is lost on the disk and one row of the table is active, for any  *)
(* keys, any number of requests and any bounds.  There is one old key at   *)
(* most: the one of the legacy file, which a migration may copy to the     *)
(* placeholder and an unlock may rename and roll back.                     *)
(***************************************************************************)
EXTENDS IdentityHolder, TLAPS

\* The steps of an unlock that has a key pair and may rename its file.
Renaming == {"rename", "dedup", "undup", "adopt", "rollback"}

\* The steps of migrateIfNeeded under a name.
Migrating == {"copy", "write", "drop", "mark"}

\* The steps at which the key of a request has a file.
Holding == {"register", "count", "insert", "first", "active", "setactive", "setkp"}

\* What a request carries at its step: an unlock renames only the placeholder,
\* a switch goes on with the key it named, and what a migration has read goes to
\* the placeholder or to the name of its key.
JobSound(j) ==
    /\ j.at \in Migrating \cup Renaming \cup {"load", "fix"} => j.name \in Name
    /\ j.at = "open" => j.name \in Key /\ j.op = "switch"
    /\ j.at \in Migrating \cup {"migrate"} =>
          j.op \in {"unlock", "create", "import"} /\ (j.op # "unlock" => j.kp \in Key)
    /\ j.at \in Renaming \cup Holding \cup {"fix", "save"} => j.kp \in Key
    /\ j.at \in Renaming \cup {"load", "fix", "resolve", "register"} => j.op = "unlock"
    /\ j.at \in {"save", "count", "insert", "first"} => j.op \in {"create", "import"}
    /\ j.at \in {"active", "setactive", "setkp"} /\ j.op = "switch" => j.name = j.kp
    /\ j.at = "fix" => j.name \in {Legacy, j.kp}
    /\ j.at \in Renaming => j.name = Legacy
    /\ j.at \in {"keep", "sync"} => j.name \in Key \cup {NoKey}
    /\ j.at = "write" => j.data.key \in Key /\ j.name \in {Legacy, j.data.key}

\* A request that has decrypted the placeholder.
HasOld(j) == j.at \in Renaming \cup {"fix"} /\ j.name = Legacy

\* The key of the legacy file, of the placeholder or of somebody who opened one
\* of them.
IsOld(k) ==
    /\ k # NoKey
    /\ \/ k = legacy.key \/ k = keyFile[Legacy].key
       \/ \E d \in Request : HasOld(job[d]) /\ job[d].kp = k
       \/ \E d \in Request : job[d].at = "write" /\ job[d].data.key = k

OneOldKey == \A j, k \in Key : IsOld(j) /\ IsOld(k) => j = k

\* A request under whose name a migration may come to write the legacy file.
Uses(j, k) ==
    \/ j.at \in Migrating /\ j.name = k
    \/ j.at \in Renaming \cup Holding \cup {"fix"} /\ j.kp = k

IsUsed(k) == k = kp \/ k = active \/ \E d \in Request : Uses(job[d], k)

\* While there is a legacy file, such a name is taken, or is the name of its key.
UsedStored ==
    legacy # NoFile =>
        \A k \in Key : IsUsed(k) => keyFile[k] # NoFile \/ k = legacy.key

HolderInv ==
    /\ IdentityTypeOK
    /\ \A c \in Request : JobSound(job[c])
    /\ NamesHonest /\ OneOldKey /\ UsedStored

\* The old key is in the directory of the keys, or there was none.
Copied == legacy = NoFile \/ \E n \in Name : keyFile[n].key = legacy.key

\* The steps that no migration precedes.
Unmigrated == {"idle", "migrate", "copy", "write", "open", "lock", "look", "keep", "sync", "rotate"}

\* Until it is, nobody has got past the migration.
NobodyPast ==
    ~Copied => /\ \A n \in Name : keyFile[n] = NoFile
               /\ active = NoKey /\ kp = NoKey
               /\ \A c \in Request : /\ job[c].at \in Unmigrated
                                     /\ job[c].at \in {"copy", "write"} => job[c].name = Legacy

\* A duplicate is removed beside the file of its key.
DuplicateKept ==
    \A c \in Request : /\ job[c].at \in {"dedup", "undup"} => keyFile[job[c].kp] # NoFile
                       /\ job[c].at # "rollback"

KeyInv == HolderInv /\ NobodyPast /\ DuplicateKept

\* Whoever made a second row active has yet to deactivate the others.
OneRowComing ==
    faults = 0 /\ crashes = 0 =>
        \/ \A j, k \in Key : row[j] = "active" /\ row[k] = "active" => j = k
        \/ \E c \in Request : job[c].at \in {"first", "active", "setactive"}

-----------------------------------------------------------------------------
(* Steps of one request.                                                   *)

DiskTyped ==
    /\ legacy \in File /\ keyFile \in [Name -> File]
    /\ active \in Name \cup {NoKey}

RestTyped ==
    /\ row \in [Key -> Rows]
    /\ kp \in Key \cup {NoKey} /\ apiKp \in Key \cup {NoKey} /\ svcKp \in Key \cup {NoKey}
    /\ session \in [Request -> Key \cup {NoKey}]
    /\ sessionMu \in {"free", "stuck"}
    /\ calls \in 0..MaxCalls /\ faults \in 0..MaxFaults /\ crashes \in 0..MaxCrashes

LEMMA TypeParts == IdentityTypeOK <=> DiskTyped /\ RestTyped /\ job \in [Request -> Job]
  BY DEF IdentityTypeOK, DiskTyped, RestTyped

\* What a request may do to the files, the names in use and its own job.
LEMMA OneMoves ==
    ASSUME HolderInv, NEW c \in Request, NEW j \in Job, JobSound(j),
           job' = [job EXCEPT ![c] = j],
           DiskTyped', RestTyped', legacy' \in {legacy, NoFile}, NamesHonest',
           HasOld(j) => IsOld(j.kp), j.at = "write" => IsOld(j.data.key),
           keyFile'[Legacy].key # NoKey => IsOld(keyFile'[Legacy].key),
           legacy' # NoFile =>
               \A k \in Key :
                  /\ keyFile[k] # NoFile => keyFile'[k] # NoFile \/ k = legacy.key
                  /\ k = kp' \/ k = active' \/ Uses(j, k) =>
                        IsUsed(k) \/ keyFile'[k] # NoFile \/ k = legacy.key
    PROVE  HolderInv'
  <1> USE HolderAssumption
  <1>0. job \in [Request -> Job]
    BY DEF HolderInv, IdentityTypeOK
  <1>1. /\ job' \in [Request -> Job] /\ job'[c] = j
        /\ \A d \in Request : d # c => job'[d] = job[d]
    BY <1>0
  <1>2. IdentityTypeOK'
    BY <1>1 DEF IdentityTypeOK, DiskTyped, RestTyped
  <1>3. \A d \in Request : JobSound(job[d])'
    <2> SUFFICES ASSUME NEW d \in Request PROVE JobSound(job'[d])
      BY DEF JobSound
    <2> QED
      BY <1>1 DEF HolderInv
  <1>4. ASSUME NEW k \in Key, IsOld(k)' PROVE IsOld(k)
    <2>1. CASE k = legacy'.key
      BY <2>1 DEF IsOld, NoFile
    <2>2. CASE k = keyFile'[Legacy].key
      BY <2>2
    <2>3. ASSUME NEW d \in Request, HasOld(job'[d]), job'[d].kp = k PROVE IsOld(k)
      BY <1>1, <2>3 DEF IsOld
    <2>4. ASSUME NEW d \in Request, job'[d].at = "write", job'[d].data.key = k PROVE IsOld(k)
      BY <1>1, <2>4 DEF IsOld
    <2> QED
      BY <1>4, <2>1, <2>2, <2>3, <2>4 DEF IsOld, HasOld
  <1>5. OneOldKey'
    BY <1>4 DEF OneOldKey, HolderInv
  <1>6. UsedStored'
    <2> SUFFICES ASSUME legacy' # NoFile, NEW k \in Key, IsUsed(k)'
                 PROVE  keyFile'[k] # NoFile \/ k = legacy.key
      BY DEF UsedStored
    <2>0. legacy # NoFile
      OBVIOUS
    <2>1. CASE IsUsed(k)
      BY <2>0, <2>1 DEF HolderInv, UsedStored
    <2>2. CASE k = kp' \/ k = active' \/ Uses(j, k)
      BY <2>1, <2>2
    <2>3. ASSUME NEW d \in Request, Uses(job'[d], k), d # c PROVE IsUsed(k)
      BY <1>1, <2>3 DEF IsUsed
    <2> QED
      BY <1>1, <2>1, <2>2, <2>3 DEF IsUsed, Uses
  <1> QED
    BY <1>2, <1>3, <1>5, <1>6 DEF HolderInv

\* A step that leaves files, names and the key in memory alone.
LEMMA JobMoves ==
    ASSUME HolderInv, NEW c \in Request, NEW j \in Job, JobSound(j),
           job' = [job EXCEPT ![c] = j],
           UNCHANGED <<disk, kp>>, RestTyped',
           HasOld(j) => IsOld(j.kp), j.at = "write" => IsOld(j.data.key),
           legacy # NoFile =>
               \A k \in Key : Uses(j, k) => IsUsed(k) \/ keyFile[k] # NoFile \/ k = legacy.key
    PROVE  HolderInv'
  <1>1. DiskTyped' /\ NamesHonest'
    BY DEF HolderInv, IdentityTypeOK, DiskTyped, disk, NamesHonest
  <1>2. keyFile'[Legacy].key # NoKey => IsOld(keyFile'[Legacy].key)
    BY DEF disk, IsOld
  <1>3. \A k \in Key : k = kp' \/ k = active' => IsUsed(k)
    BY DEF disk, IsUsed
  <1> QED
    BY <1>1, <1>2, <1>3, OneMoves DEF disk

\* Goto
LEMMA JobAt ==
    ASSUME IdentityTypeOK, NEW c \in Request, NEW s \in Steps, Goto(c, s)
    PROVE  \E j \in Job : /\ job' = [job EXCEPT ![c] = j]
                          /\ j.at = s /\ j.op = job[c].op /\ j.name = job[c].name
                          /\ j.kp = job[c].kp /\ j.first = job[c].first
  <1>1. job[c] \in Job /\ job' = [job EXCEPT ![c] = [job[c] EXCEPT !.at = s]]
    BY DEF IdentityTypeOK, Goto
  <1>2. [job[c] EXCEPT !.at = s] \in Job
    BY <1>1 DEF Job
  <1> QED
    BY <1>1, <1>2 DEF Job

\* A request that ends holds nothing.
LEMMA IdleSound ==
    /\ IdleJob \in Job /\ JobSound(IdleJob) /\ ~HasOld(IdleJob) /\ IdleJob.at # "write"
    /\ \A k : ~Uses(IdleJob, k)
  BY DEF IdleJob, Job, File, JobSound, HasOld, Uses, Renaming, Migrating, Holding, Ops, Steps

LEMMA Ending ==
    ASSUME HolderInv, NEW c \in Request, End(c), UNCHANGED <<disk, kp>>, RestTyped'
    PROVE  HolderInv'
  BY IdleSound, JobMoves DEF End

SameButAt(i, j) == i.op = j.op /\ i.name = j.name /\ i.kp = j.kp

\* A move of a request that keeps what it carries, with the files, names and the
\* key in memory left alone, to a step at which it holds what it has.
LEMMA Going ==
    ASSUME HolderInv, NEW c \in Request, NEW s \in Steps \ {"write"}, Goto(c, s),
           UNCHANGED <<disk, kp>>, RestTyped',
           \A j \in Job : j.at = s /\ SameButAt(j, job[c]) =>
                             /\ JobSound(j)
                             /\ HasOld(j) => HasOld(job[c])
                             /\ \A k \in Key : Uses(j, k) => Uses(job[c], k) \/ keyFile[k] # NoFile
    PROVE  HolderInv'
  <1>0. IdentityTypeOK
    BY DEF HolderInv
  <1>1. PICK j \in Job : /\ job' = [job EXCEPT ![c] = j]
                         /\ j.at = s /\ j.op = job[c].op /\ j.name = job[c].name
                         /\ j.kp = job[c].kp
    BY <1>0, JobAt
  <1>2. /\ JobSound(j)
        /\ HasOld(j) => HasOld(job[c])
        /\ \A k \in Key : Uses(j, k) => Uses(job[c], k) \/ keyFile[k] # NoFile
    BY <1>1 DEF SameButAt
  <1>3. HasOld(j) => IsOld(j.kp)
    <2> SUFFICES ASSUME HasOld(j) PROVE IsOld(j.kp)
      OBVIOUS
    <2>1. j.kp \in Key
      BY <1>2 DEF HasOld, JobSound
    <2> QED
      BY <1>1, <1>2, <2>1, HolderAssumption DEF IsOld
  <1>4. \A k \in Key : Uses(j, k) => IsUsed(k) \/ keyFile[k] # NoFile
    BY <1>2 DEF IsUsed
  <1> QED
    BY <1>1, <1>2, <1>3, <1>4, JobMoves

LEMMA RestKept ==
    ASSUME HolderInv, UNCHANGED <<row, memory, calls, faults, crashes>>
    PROVE  RestTyped'
  BY DEF HolderInv, IdentityTypeOK, RestTyped, memory

LEMMA FileKeys ==
    ASSUME HolderInv, NEW n \in Name, keyFile[n] # NoFile
    PROVE  keyFile[n].key \in Key /\ (n # Legacy => keyFile[n].key = n)
  <1>1. keyFile[n] \in [key : Key, orig : BOOLEAN]
    BY DEF HolderInv, IdentityTypeOK, File
  <1> QED
    BY <1>1, HolderAssumption DEF HolderInv, NamesHonest, Name

LEMMA JobIs == ASSUME HolderInv, NEW c \in Request PROVE job[c] \in Job /\ JobSound(job[c])
  BY DEF HolderInv, IdentityTypeOK

-----------------------------------------------------------------------------
(* Arrival and migration.                                                  *)

LEMMA BeginStep ==
    ASSUME HolderInv, NEW c \in Request, Arrival(c)
    PROVE  HolderInv'
  <1> USE HolderAssumption
  <1>1. PICK o \in Ops, k \in Key \cup {NoKey}, s \in {"migrate", "open", "lock"} :
           /\ Begin(c, o, k, s)
           /\ o \in {"create", "import", "switch"} => k \in Key
           /\ s = "migrate" => o \in {"create", "import", "unlock"}
           /\ s = "open" => o = "switch"
    BY DEF Arrival, UnlockIdentity, handleUnlock, LockIdentity, handleLogout,
       CreateIdentity, handleCreate, ImportIdentity, handleImport, SwitchIdentity,
       handleSwitchIdentity, Ops
  <1> DEFINE j == [op |-> o, at |-> s, name |-> k, kp |-> k, first |-> FALSE, data |-> NoFile]
  <1>2. j \in Job
    BY DEF Job, Steps, Name, File
  <1>3. JobSound(j) /\ ~HasOld(j) /\ j.at # "write" /\ \A x : ~Uses(j, x)
    BY <1>1 DEF JobSound, HasOld, Uses, Renaming, Migrating, Holding
  <1>4. job' = [job EXCEPT ![c] = j] /\ UNCHANGED <<disk, kp>>
    BY <1>1 DEF Begin, memory
  <1>5. RestTyped'
    BY <1>1 DEF Begin, RestTyped, HolderInv, IdentityTypeOK, memory
  <1> QED
    BY <1>2, <1>3, <1>4, <1>5, JobMoves

\* The name is that of the key in memory, of the active file or "legacy".
LEMMA MigrateStep ==
    ASSUME HolderInv, NEW c \in Request, Migrate(c)
    PROVE  HolderInv'
  <1> USE HolderAssumption
  <1>0. job[c] \in Job /\ JobSound(job[c]) /\ job[c].at = "migrate" /\ RestTyped'
        /\ UNCHANGED <<disk, kp>>
    BY JobIs, RestKept DEF Migrate, At, memory
  <1>1. CASE legacy = NoFile
    <2>1. Goto(c, AfterMigration(c)) /\ AfterMigration(c) \in Steps \ {"write"}
      BY <1>1 DEF Migrate, Goto, AfterMigration, Steps, FaultSteps
    <2>2. \A j \in Job : j.at = AfterMigration(c) /\ SameButAt(j, job[c]) =>
             JobSound(j) /\ ~HasOld(j) /\ \A k \in Key : ~Uses(j, k)
      BY <1>0 DEF SameButAt, JobSound, HasOld, Uses, Renaming, Migrating, Holding, AfterMigration
    <2> QED
      BY <1>0, <2>1, <2>2, Going
  <1>2. CASE legacy # NoFile
    <2> DEFINE n == migrationPubkeyHex
               j == [job[c] EXCEPT !.at = "copy", !.name = n]
    <2>1. n \in Name /\ (n \in Key => n = kp \/ n = active)
      BY DEF migrationPubkeyHex, HolderInv, IdentityTypeOK, Name
    <2>2. /\ j \in Job /\ j.at = "copy" /\ j.name = n /\ j.op = job[c].op
          /\ j.kp = job[c].kp
      BY <1>0, <2>1 DEF Job, Steps, FaultSteps
    <2>3. job' = [job EXCEPT ![c] = j]
      <3>1. job' = [job EXCEPT ![c].at = "copy", ![c].name = n]
        BY <1>2 DEF Migrate
      <3> QED
        BY <3>1 DEF HolderInv, IdentityTypeOK
    <2>4. JobSound(j) /\ ~HasOld(j)
      BY <1>0, <2>1, <2>2 DEF JobSound, HasOld, Renaming, Migrating, Holding
    <2>5. \A k \in Key : Uses(j, k) => IsUsed(k)
      BY <2>1, <2>2 DEF Uses, IsUsed, Renaming, Holding
    <2> QED
      BY <1>0, <2>2, <2>3, <2>4, <2>5, JobMoves
  <1> QED
    BY <1>1, <1>2

\* A name that is free is the placeholder's or that of the old key itself.
LEMMA CopyStep ==
    ASSUME HolderInv, NEW c \in Request, CopyLegacyKey(c)
    PROVE  HolderInv'
  <1> USE HolderAssumption
  <1> DEFINE n == job[c].name
  <1>0. job[c] \in Job /\ JobSound(job[c]) /\ job[c].at = "copy" /\ RestTyped'
        /\ UNCHANGED <<disk, kp>> /\ n \in Name
    BY JobIs, RestKept DEF CopyLegacyKey, At, memory, JobSound, Migrating
  <1>1. ASSUME NEW s \in {"drop", AfterMigration(c)}, Goto(c, s) PROVE HolderInv'
    <2>1. s \in Steps \ {"write"}
      BY <1>1 DEF Steps, FaultSteps, AfterMigration
    <2>2. \A j \in Job : j.at = s /\ SameButAt(j, job[c]) =>
             JobSound(j) /\ ~HasOld(j) /\ \A k \in Key : Uses(j, k) => Uses(job[c], k)
      BY <1>0, <1>1 DEF SameButAt, JobSound, HasOld, Uses, Renaming, Migrating, Holding, AfterMigration
    <2> QED
      BY <1>0, <1>1, <2>1, <2>2, Going
  <1>2. CASE /\ keyFile[n] = NoFile /\ legacy # NoFile
             /\ job' = [job EXCEPT ![c].at = "write", ![c].data = legacy]
    <2> DEFINE j == [job[c] EXCEPT !.at = "write", !.data = legacy]
    <2>1. legacy \in File /\ legacy.key \in Key
      BY <1>2 DEF HolderInv, IdentityTypeOK, File
    <2>2. /\ j \in Job /\ j.at = "write" /\ j.name = n /\ j.op = job[c].op
          /\ j.kp = job[c].kp /\ j.data = legacy
      BY <1>0, <2>1 DEF Job, Steps, FaultSteps
    <2>3. job' = [job EXCEPT ![c] = j]
      BY <1>2 DEF HolderInv, IdentityTypeOK
    <2> HIDE DEF j
    <2>4. n \in Key => n = legacy.key
      BY <1>0, <1>2 DEF HolderInv, UsedStored, IsUsed, Uses, Migrating
    <2>5. JobSound(j) /\ ~HasOld(j)
      BY <1>0, <2>1, <2>2, <2>4 DEF JobSound, HasOld, Renaming, Migrating, Holding, Name
    <2>6. IsOld(j.data.key)
      BY <2>1, <2>2 DEF IsOld
    <2>7. \A k \in Key : Uses(j, k) => IsUsed(k)
      BY <1>0, <2>2 DEF Uses, IsUsed, Migrating, Renaming, Holding
    <2> QED
      BY <1>0, <2>2, <2>3, <2>5, <2>6, <2>7, JobMoves
  <1>3. \A s : job' = [job EXCEPT ![c].at = s] => Goto(c, s)
    BY DEF Goto
  <1> QED
    BY <1>1, <1>2, <1>3 DEF CopyLegacyKey

\* What was read is written, whatever is there by now.
LEMMA WriteStep ==
    ASSUME HolderInv, NEW c \in Request, WriteMigratedKey(c)
    PROVE  HolderInv'
  <1> USE HolderAssumption
  <1> DEFINE n == job[c].name
             file == job[c].data
             j == [job[c] EXCEPT !.at = "drop", !.data = NoFile]
  <1>0. job[c] \in Job /\ JobSound(job[c]) /\ job[c].at = "write" /\ RestTyped'
        /\ kp' = kp /\ legacy' = legacy /\ active' = active
    BY JobIs, RestKept DEF WriteMigratedKey, At, memory
  <1>1. n \in Name /\ file \in File /\ file.key \in Key /\ n \in {Legacy, file.key}
    BY <1>0 DEF JobSound, Migrating, Job
  <1>2. /\ j \in Job /\ j.at = "drop" /\ j.name = n /\ j.op = job[c].op /\ j.kp = job[c].kp
    BY <1>0 DEF Job, Steps, FaultSteps, File
  <1>3. job' = [job EXCEPT ![c] = j]
    BY DEF WriteMigratedKey, HolderInv, IdentityTypeOK
  <1>4. /\ keyFile' \in [Name -> File] /\ keyFile'[n] = file
        /\ \A m \in Name : m # n => keyFile'[m] = keyFile[m]
    BY <1>1 DEF WriteMigratedKey, Written, HolderInv, IdentityTypeOK
  <1> HIDE DEF j
  <1>5. JobSound(j) /\ ~HasOld(j)
    BY <1>0, <1>2 DEF JobSound, HasOld, Renaming, Migrating, Holding
  <1>6. DiskTyped'
    BY <1>0, <1>4 DEF DiskTyped, HolderInv, IdentityTypeOK
  <1>7. NamesHonest'
    BY <1>1, <1>4 DEF NamesHonest, HolderInv, Name
  <1>8. IsOld(file.key)
    BY <1>0, <1>1 DEF IsOld
  <1>9. keyFile'[Legacy].key # NoKey => IsOld(keyFile'[Legacy].key)
    <2>1. CASE n = Legacy
      BY <1>4, <1>8, <2>1
    <2>2. CASE n # Legacy
      BY <1>4, <2>2 DEF IsOld, Name
    <2> QED
      BY <2>1, <2>2
  <1>10. \A k \in Key : Uses(j, k) => IsUsed(k)
    BY <1>0, <1>2 DEF Uses, IsUsed, Migrating, Renaming, Holding
  <1>11. \A k \in Key : keyFile[k] # NoFile => keyFile'[k] # NoFile
    <2>1. file # NoFile
      BY <1>1 DEF NoFile
    <2> QED
      BY <1>4, <2>1 DEF Name
  <1>12. \A k \in Key : k = kp' \/ k = active' => IsUsed(k)
    BY <1>0 DEF IsUsed
  <1> QED
    BY <1>0, <1>2, <1>3, <1>5, <1>6, <1>7, <1>9, <1>10, <1>11, <1>12, OneMoves

LEMMA DropStep ==
    ASSUME HolderInv, NEW c \in Request, DropLegacyKey(c)
    PROVE  HolderInv'
  <1> USE HolderAssumption
  <1>0. job[c] \in Job /\ JobSound(job[c]) /\ job[c].at = "drop" /\ RestTyped'
        /\ legacy' = NoFile /\ active' = active /\ keyFile' = keyFile
    BY JobIs, RestKept DEF DropLegacyKey, At
  <1>1. PICK j \in Job : /\ job' = [job EXCEPT ![c] = j]
                         /\ j.at = "mark" /\ j.op = job[c].op /\ j.name = job[c].name
                         /\ j.kp = job[c].kp
    BY JobAt DEF HolderInv, Steps, FaultSteps, DropLegacyKey
  <1>2. JobSound(j) /\ ~HasOld(j)
    BY <1>0, <1>1 DEF JobSound, HasOld, Renaming, Migrating, Holding
  <1>3. DiskTyped' /\ NamesHonest'
    BY <1>0 DEF DiskTyped, HolderInv, IdentityTypeOK, NamesHonest, File
  <1>4. keyFile'[Legacy].key # NoKey => IsOld(keyFile'[Legacy].key)
    BY <1>0 DEF IsOld
  <1> QED
    BY <1>0, <1>1, <1>2, <1>3, <1>4, OneMoves

LEMMA MarkStep ==
    ASSUME HolderInv, NEW c \in Request, MarkActive(c)
    PROVE  HolderInv'
  <1> USE HolderAssumption
  <1>0. job[c] \in Job /\ JobSound(job[c]) /\ job[c].at = "mark" /\ RestTyped'
        /\ kp' = kp /\ legacy' = legacy /\ keyFile' = keyFile
    BY JobIs, RestKept DEF MarkActive, At, memory
  <1>1. PICK j \in Job : /\ job' = [job EXCEPT ![c] = j]
                         /\ j.at = AfterMigration(c) /\ j.op = job[c].op
                         /\ j.name = job[c].name /\ j.kp = job[c].kp
    BY JobAt DEF HolderInv, Steps, FaultSteps, MarkActive, AfterMigration
  <1>2. JobSound(j) /\ ~HasOld(j) /\ j.at # "write" /\ \A k \in Key : ~Uses(j, k)
    BY <1>0, <1>1 DEF JobSound, HasOld, Uses, Renaming, Migrating, Holding, AfterMigration
  <1>3. active' \in {active, job[c].name} /\ job[c].name \in Name
    BY <1>0 DEF MarkActive, JobSound, Migrating
  <1>4. DiskTyped' /\ NamesHonest'
    BY <1>0, <1>3 DEF DiskTyped, HolderInv, IdentityTypeOK, NamesHonest
  <1>5. keyFile'[Legacy].key # NoKey => IsOld(keyFile'[Legacy].key)
    BY <1>0 DEF IsOld
  <1>6. \A k \in Key : k = kp' \/ k = active' => IsUsed(k)
    BY <1>0, <1>3 DEF IsUsed, Uses, Migrating
  <1> QED
    BY <1>0, <1>1, <1>2, <1>4, <1>5, <1>6, OneMoves

-----------------------------------------------------------------------------
(* Unlocking, and the name of a migrated file.                             *)

LEMMA ResolveStep ==
    ASSUME HolderInv, NEW c \in Request, Resolve(c)
    PROVE  HolderInv'
  <1> USE HolderAssumption
  <1>0. job[c] \in Job /\ JobSound(job[c]) /\ job[c].at = "resolve" /\ RestTyped'
        /\ UNCHANGED <<disk, kp>>
    BY JobIs, RestKept DEF Resolve, At, memory
  <1>1. ASSUME NEW n \in Name, job' = [job EXCEPT ![c].name = n, ![c].at = "load"]
        PROVE  HolderInv'
    <2> DEFINE j == [job[c] EXCEPT !.name = n, !.at = "load"]
    <2>1. /\ j \in Job /\ j.at = "load" /\ j.name = n /\ j.op = job[c].op
      BY <1>0 DEF Job, Steps
    <2>2. job' = [job EXCEPT ![c] = j]
      BY <1>1 DEF HolderInv, IdentityTypeOK
    <2>3. JobSound(j) /\ ~HasOld(j) /\ \A k \in Key : ~Uses(j, k)
      BY <1>0, <2>1 DEF JobSound, HasOld, Uses, Renaming, Migrating, Holding
    <2> QED
      BY <1>0, <2>1, <2>2, <2>3, JobMoves
  <1>2. active # NoKey => active \in Name
    BY DEF HolderInv, IdentityTypeOK
  <1> QED
    BY <1>0, <1>1, <1>2, Ending DEF Resolve, Stored

\* Whoever opens a file under another name than "legacy" gets the key of the name.
LEMMA LoadStep ==
    ASSUME HolderInv, NEW c \in Request, LoadAndDecrypt(c) \/ OpenKey(c)
    PROVE  HolderInv'
  <1> USE HolderAssumption
  <1> DEFINE n == job[c].name
             s == IF job[c].at = "load" THEN "fix" ELSE "active"
             j == [job[c] EXCEPT !.kp = keyFile[n].key, !.at = s]
  <1>0. job[c] \in Job /\ JobSound(job[c]) /\ job[c].at \in {"load", "open"} /\ RestTyped'
        /\ UNCHANGED <<disk, kp>> /\ n \in Name
    BY JobIs, RestKept DEF LoadAndDecrypt, OpenKey, At, memory, JobSound, Name
  <1>1. CASE keyFile[n] # NoFile /\ job' = [job EXCEPT ![c] = j]
    <2>1. keyFile[n].key \in Key /\ (n # Legacy => keyFile[n].key = n)
      BY <1>0, <1>1, FileKeys
    <2>2. /\ j \in Job /\ j.at = s /\ j.kp = keyFile[n].key /\ j.name = n /\ j.op = job[c].op
      BY <1>0, <2>1 DEF Job, Steps, FaultSteps
    <2>3. JobSound(j) /\ j.at # "write"
      BY <1>0, <2>1, <2>2 DEF JobSound, Renaming, Migrating, Holding, Name
    <2>4. HasOld(j) => IsOld(j.kp)
      BY <2>1, <2>2 DEF HasOld, IsOld
    <2>5. ASSUME legacy # NoFile, NEW k \in Key, Uses(j, k)
          PROVE  IsUsed(k) \/ keyFile[k] # NoFile \/ k = legacy.key
      <3>1. k = keyFile[n].key
        BY <1>0, <2>2, <2>5 DEF Uses, Migrating
      <3>2. CASE n # Legacy
        BY <1>1, <2>1, <3>1, <3>2
      <3>3. CASE n = Legacy
        <4>1. legacy.key \in Key
          BY <2>5 DEF HolderInv, IdentityTypeOK, File
        <4>2. IsOld(k) /\ IsOld(legacy.key)
          BY <2>1, <3>1, <3>3, <4>1 DEF IsOld
        <4> QED
          BY <4>1, <4>2 DEF HolderInv, OneOldKey
      <3> QED
        BY <3>2, <3>3
    <2> QED
      BY <1>0, <1>1, <2>2, <2>3, <2>4, <2>5, JobMoves
  <1>2. CASE keyFile[n] # NoFile /\ job' = [job EXCEPT ![c].kp = DecryptsTo(n), ![c].at = s]
    <2>1. job' = [job EXCEPT ![c] = j]
      BY <1>2 DEF HolderInv, IdentityTypeOK, DecryptsTo
    <2> QED
      BY <1>1, <1>2, <2>1
  <1> QED
    BY <1>0, <1>2, Ending DEF LoadAndDecrypt, OpenKey, At

\* The placeholder's file is the old key's, so that its new name is right.
LEMMA OldOpened ==
    ASSUME HolderInv, NEW c \in Request, job[c].at \in Renaming
    PROVE  /\ job[c].name = Legacy /\ job[c].kp \in Key /\ IsOld(job[c].kp)
           /\ keyFile[Legacy] # NoFile => keyFile[Legacy].key = job[c].kp
           /\ legacy # NoFile => legacy.key = job[c].kp
           /\ IsUsed(job[c].kp)
  <1> USE HolderAssumption
  <1>1. job[c].name = Legacy /\ job[c].kp \in Key
    BY JobIs DEF JobSound
  <1>2. IsOld(job[c].kp) /\ IsUsed(job[c].kp)
    BY <1>1 DEF IsOld, HasOld, IsUsed, Uses
  <1>3. ASSUME keyFile[Legacy] # NoFile PROVE keyFile[Legacy].key = job[c].kp
    <2>1. keyFile[Legacy].key \in Key
      BY <1>3, FileKeys DEF Name
    <2>2. IsOld(keyFile[Legacy].key)
      BY <2>1 DEF IsOld
    <2> QED
      BY <1>1, <1>2, <2>1, <2>2 DEF HolderInv, OneOldKey
  <1>4. ASSUME legacy # NoFile PROVE legacy.key = job[c].kp
    <2>1. legacy.key \in Key
      BY <1>4 DEF HolderInv, IdentityTypeOK, File
    <2>2. IsOld(legacy.key)
      BY <2>1 DEF IsOld
    <2> QED
      BY <1>1, <1>2, <2>1, <2>2 DEF HolderInv, OneOldKey
  <1> QED
    BY <1>1, <1>2, <1>3, <1>4

LEMMA FixStep ==
    ASSUME HolderInv, NEW c \in Request, FixMigratedKeyName(c)
    PROVE  HolderInv'
  <1> USE HolderAssumption
  <1>0. job[c] \in Job /\ JobSound(job[c]) /\ job[c].at = "fix" /\ RestTyped'
        /\ UNCHANGED <<disk, kp>>
    BY JobIs, RestKept DEF FixMigratedKeyName, At, memory
  <1>1. CASE End(c)
    BY <1>0, <1>1, Ending
  <1>2. ASSUME NEW s \in {"register", "rename", "dedup"}, Goto(c, s),
               s # "register" => job[c].name # job[c].kp
        PROVE  HolderInv'
    <2>1. \A j \in Job : j.at = s /\ SameButAt(j, job[c]) =>
             /\ JobSound(j)
             /\ HasOld(j) => HasOld(job[c])
             /\ \A k \in Key : Uses(j, k) => Uses(job[c], k)
      BY <1>0, <1>2 DEF SameButAt, JobSound, HasOld, Uses, Renaming, Migrating, Holding
    <2>2. s \in Steps \ {"write"}
      BY <1>2 DEF Steps, FaultSteps
    <2> QED
      BY <1>0, <1>2, <2>1, <2>2, Going
  <1> QED
    BY <1>1, <1>2 DEF FixMigratedKeyName

\* A step that only writes the active file, under a name in use.
LEMMA ActiveStep ==
    ASSUME HolderInv, NEW c \in Request, NEW s \in Steps \ {"write"}, Goto(c, s),
           UNCHANGED <<legacy, keyFile, kp>>, RestTyped',
           active' \in Key, IsUsed(active'),
           \A j \in Job : j.at = s /\ SameButAt(j, job[c]) =>
                             /\ JobSound(j)
                             /\ HasOld(j) => HasOld(job[c])
                             /\ \A k \in Key : Uses(j, k) => Uses(job[c], k)
    PROVE  HolderInv'
  <1>1. PICK j \in Job : /\ job' = [job EXCEPT ![c] = j] /\ j.at = s /\ SameButAt(j, job[c])
    BY JobAt DEF HolderInv, SameButAt
  <1>2. /\ JobSound(j)
        /\ HasOld(j) => HasOld(job[c])
        /\ \A k \in Key : Uses(j, k) => Uses(job[c], k)
    BY <1>1
  <1>3. HasOld(j) => IsOld(j.kp)
    <2> SUFFICES ASSUME HasOld(j) PROVE IsOld(j.kp)
      OBVIOUS
    <2>1. j.kp \in Key
      BY <1>2 DEF HasOld, JobSound
    <2> QED
      BY <1>1, <1>2, <2>1, HolderAssumption DEF IsOld, SameButAt
  <1>4. DiskTyped' /\ NamesHonest'
    BY DEF DiskTyped, HolderInv, IdentityTypeOK, NamesHonest, Name
  <1>5. keyFile'[Legacy].key # NoKey => IsOld(keyFile'[Legacy].key)
    BY DEF IsOld
  <1>6. \A k \in Key : k = kp' \/ k = active' \/ Uses(j, k) => IsUsed(k)
    BY <1>2 DEF IsUsed
  <1> QED
    BY <1>1, <1>2, <1>3, <1>4, <1>5, <1>6, OneMoves

LEMMA AdoptStep ==
    ASSUME HolderInv, NEW c \in Request, AdoptName(c)
    PROVE  HolderInv'
  <1> USE HolderAssumption
  <1>0. job[c] \in Job /\ JobSound(job[c]) /\ job[c].at \in {"dedup", "adopt"} /\ RestTyped'
        /\ UNCHANGED <<legacy, keyFile, kp>>
    BY JobIs, RestKept DEF AdoptName, At, memory
  <1>1. active' = job[c].kp /\ job[c].kp \in Key /\ IsUsed(job[c].kp)
    BY <1>0, OldOpened DEF AdoptName, Renaming
  <1> DEFINE s == IF At(c, "dedup") THEN "undup" ELSE "register"
  <1>2. Goto(c, s) /\ s \in {"undup", "register"} /\ s \in Steps \ {"write"}
    BY DEF AdoptName, Steps, FaultSteps
  <1>3. \A j \in Job : j.at = s /\ SameButAt(j, job[c]) =>
           /\ JobSound(j)
           /\ HasOld(j) => HasOld(job[c])
           /\ \A k \in Key : Uses(j, k) => Uses(job[c], k)
    BY <1>0, <1>2 DEF SameButAt, JobSound, HasOld, Uses, Renaming, Migrating, Holding
  <1> HIDE DEF s
  <1> QED
    BY <1>0, <1>1, <1>2, <1>3, ActiveStep

LEMMA DuplicateStep ==
    ASSUME HolderInv, NEW c \in Request, RemoveDuplicate(c)
    PROVE  HolderInv'
  <1> USE HolderAssumption
  <1>0. job[c] \in Job /\ JobSound(job[c]) /\ job[c].at = "undup" /\ RestTyped'
        /\ legacy' = legacy /\ active' = active /\ kp' = kp
    BY JobIs, RestKept DEF RemoveDuplicate, At, memory
  <1>1. job[c].name = Legacy /\ job[c].kp \in Key /\ IsUsed(job[c].kp)
    BY <1>0, OldOpened DEF Renaming
  <1>2. PICK j \in Job : /\ job' = [job EXCEPT ![c] = j]
                         /\ \/ j = IdleJob
                            \/ /\ j.at = "register" /\ SameButAt(j, job[c])
    BY JobAt, IdleSound DEF HolderInv, Steps, FaultSteps, RemoveDuplicate, End, SameButAt
  <1>3. JobSound(j) /\ ~HasOld(j) /\ j.at # "write" /\ \A k \in Key : Uses(j, k) => IsUsed(k)
    <2>1. CASE j = IdleJob
      BY <2>1, IdleSound
    <2>2. CASE j.at = "register" /\ SameButAt(j, job[c])
      BY <1>0, <1>1, <2>2 DEF JobSound, HasOld, Uses, Renaming, Migrating, Holding, SameButAt
    <2> QED
      BY <1>2, <2>1, <2>2
  <1>4. /\ keyFile' \in [Name -> File] /\ keyFile'[Legacy] = NoFile
        /\ \A k \in Key : keyFile'[k] = keyFile[k]
    BY <1>1 DEF RemoveDuplicate, Removed, HolderInv, IdentityTypeOK, Name, File
  <1>5. DiskTyped' /\ NamesHonest'
    BY <1>0, <1>4 DEF DiskTyped, HolderInv, IdentityTypeOK, NamesHonest
  <1>6. \A k \in Key : k = kp' \/ k = active' => IsUsed(k)
    BY <1>0 DEF IsUsed
  <1>7. keyFile'[Legacy].key = NoKey
    BY <1>4 DEF NoFile
  <1> QED
    BY <1>0, <1>2, <1>3, <1>4, <1>5, <1>6, <1>7, OneMoves

\* What a rename leaves under both names.
LEMMA RenamedFiles ==
    ASSUME HolderInv, NEW a \in Name, NEW b \in Name, a # b
    PROVE  /\ Renamed(a, b) \in [Name -> File]
           /\ Renamed(a, b)[b] = keyFile[a] /\ Renamed(a, b)[a] = NoFile
           /\ \A n \in Name : n # a /\ n # b => Renamed(a, b)[n] = keyFile[n]
  BY DEF Renamed, HolderInv, IdentityTypeOK, File

LEMMA RenameStep ==
    ASSUME HolderInv, NEW c \in Request, RenameMigrated(c)
    PROVE  HolderInv'
  <1> USE HolderAssumption
  <1>0. job[c] \in Job /\ JobSound(job[c]) /\ job[c].at = "rename" /\ RestTyped'
        /\ legacy' = legacy /\ active' = active /\ kp' = kp
    BY JobIs, RestKept DEF RenameMigrated, At, memory
  <1>1. /\ job[c].name = Legacy /\ job[c].kp \in Key /\ IsOld(job[c].kp)
        /\ keyFile[Legacy] # NoFile => keyFile[Legacy].key = job[c].kp
    BY <1>0, OldOpened DEF Renaming
  <1>2. CASE keyFile[Legacy] = NoFile
    BY <1>0, <1>1, <1>2, Ending DEF RenameMigrated, disk
  <1>3. CASE keyFile[Legacy] # NoFile
    <2> DEFINE k0 == job[c].kp
    <2>1. keyFile' = Renamed(Legacy, k0) /\ Goto(c, "adopt")
      BY <1>1, <1>3 DEF RenameMigrated
    <2>2. PICK j \in Job : job' = [job EXCEPT ![c] = j] /\ j.at = "adopt" /\ SameButAt(j, job[c])
      BY <2>1, JobAt DEF HolderInv, Steps, FaultSteps, SameButAt
    <2>3. JobSound(j) /\ j.kp = k0 /\ \A k \in Key : Uses(j, k) => Uses(job[c], k)
      BY <1>0, <2>2 DEF JobSound, Uses, Renaming, Migrating, Holding, SameButAt
    <2>4. Legacy \in Name /\ k0 \in Name /\ Legacy # k0
      BY <1>1 DEF Name
    <2>5. /\ keyFile' \in [Name -> File]
          /\ keyFile'[k0] = keyFile[Legacy] /\ keyFile'[Legacy] = NoFile
          /\ \A k \in Key : k # k0 => keyFile'[k] = keyFile[k]
      BY <2>1, <2>4, RenamedFiles DEF Name
    <2>6. DiskTyped' /\ NamesHonest'
      BY <1>0, <1>1, <1>3, <2>5 DEF DiskTyped, HolderInv, IdentityTypeOK, NamesHonest
    <2>7. keyFile'[Legacy].key = NoKey
      BY <2>5 DEF NoFile
    <2>8. \A k \in Key : /\ k = kp' \/ k = active' \/ Uses(j, k) => IsUsed(k)
                         /\ keyFile[k] # NoFile => keyFile'[k] # NoFile
      BY <1>0, <1>3, <2>3, <2>5 DEF IsUsed
    <2> QED
      BY <1>0, <1>1, <2>2, <2>3, <2>6, <2>7, <2>8, OneMoves
  <1> QED
    BY <1>2, <1>3

\* A roll-back puts the old key back under the placeholder.
LEMMA RollBackStep ==
    ASSUME HolderInv, NEW c \in Request, RollBack(c)
    PROVE  HolderInv'
  <1> USE HolderAssumption
  <1> DEFINE k0 == job[c].kp
  <1>0. job[c] \in Job /\ JobSound(job[c]) /\ job[c].at = "rollback" /\ RestTyped'
        /\ legacy' = legacy /\ active' = active /\ kp' = kp /\ job' = [job EXCEPT ![c] = IdleJob]
    BY JobIs, RestKept DEF RollBack, At, memory, End
  <1>1. /\ job[c].name = Legacy /\ k0 \in Key /\ IsOld(k0)
        /\ legacy # NoFile => legacy.key = k0
    BY <1>0, OldOpened DEF Renaming
  <1>2. CASE keyFile[k0] = NoFile
    BY <1>0, <1>2, Ending DEF RollBack, disk
  <1>3. CASE keyFile[k0] # NoFile
    <2>1. keyFile' = Renamed(k0, Legacy)
      BY <1>1, <1>3 DEF RollBack
    <2>2. Legacy \in Name /\ k0 \in Name /\ Legacy # k0
      BY <1>1 DEF Name
    <2>3. /\ keyFile' \in [Name -> File]
          /\ keyFile'[Legacy] = keyFile[k0] /\ keyFile'[k0] = NoFile
          /\ \A k \in Key : k # k0 => keyFile'[k] = keyFile[k]
      BY <2>1, <2>2, RenamedFiles DEF Name
    <2>4. keyFile[k0].key = k0
      BY <1>3, <2>2, FileKeys
    <2>5. DiskTyped' /\ NamesHonest'
      <3>1. keyFile'[k0].key = NoKey
        BY <2>3 DEF NoFile
      <3> QED
        BY <1>0, <1>1, <2>3, <3>1 DEF DiskTyped, HolderInv, IdentityTypeOK, NamesHonest
    <2>6. keyFile'[Legacy].key # NoKey => IsOld(keyFile'[Legacy].key)
      BY <1>1, <2>3, <2>4
    <2>7. legacy # NoFile => \A k \in Key :
             /\ k = kp' \/ k = active' => IsUsed(k)
             /\ keyFile[k] # NoFile => keyFile'[k] # NoFile \/ k = legacy.key
      BY <1>0, <1>1, <2>3 DEF IsUsed
    <2> QED
      BY <1>0, <2>5, <2>6, <2>7, IdleSound, OneMoves
  <1> QED
    BY <1>2, <1>3

-----------------------------------------------------------------------------
(* Saving, registering, switching, and the handlers.                       *)

LEMMA SaveStep ==
    ASSUME HolderInv, NEW c \in Request, SaveKey(c)
    PROVE  HolderInv'
  <1> USE HolderAssumption
  <1> DEFINE k0 == job[c].kp
  <1>0. job[c] \in Job /\ JobSound(job[c]) /\ job[c].at = "save" /\ RestTyped'
        /\ legacy' = legacy /\ active' = active /\ kp' = kp /\ k0 \in Key
    BY JobIs, RestKept DEF SaveKey, At, memory, JobSound
  <1>1. PICK j \in Job : job' = [job EXCEPT ![c] = j] /\ j.at = "count" /\ SameButAt(j, job[c])
    BY JobAt DEF SaveKey, HolderInv, Steps, FaultSteps, SameButAt
  <1>2. JobSound(j) /\ ~HasOld(j) /\ \A k \in Key : Uses(j, k) => k = k0
    BY <1>0, <1>1 DEF JobSound, HasOld, Uses, Renaming, Migrating, Holding, SameButAt
  <1>3. /\ Fresh(k0) \in File /\ Fresh(k0) # NoFile /\ Fresh(k0).key = k0
    BY <1>0 DEF Fresh, File, NoFile
  <1>4. /\ keyFile' \in [Name -> File] /\ keyFile'[k0] = Fresh(k0)
        /\ \A n \in Name : n # k0 => keyFile'[n] = keyFile[n]
    BY <1>0, <1>3 DEF SaveKey, Written, HolderInv, IdentityTypeOK, Name
  <1>5. DiskTyped' /\ NamesHonest'
    BY <1>0, <1>3, <1>4 DEF DiskTyped, HolderInv, IdentityTypeOK, NamesHonest, Name
  <1>6. keyFile'[Legacy].key # NoKey => IsOld(keyFile'[Legacy].key)
    BY <1>0, <1>4 DEF IsOld, Name
  <1>7. \A k \in Key : /\ keyFile[k] # NoFile => keyFile'[k] # NoFile
                       /\ k = kp' \/ k = active' => IsUsed(k)
                       /\ Uses(j, k) => keyFile'[k] # NoFile
    BY <1>0, <1>2, <1>3, <1>4 DEF IsUsed, Name
  <1> QED
    BY <1>0, <1>1, <1>2, <1>5, <1>6, <1>7, OneMoves

\* The table is written beside the files.
LEMMA RowTyped ==
    ASSUME HolderInv, NEW k \in Key, NEW status \in Rows
    PROVE  Inserted(k, status) \in [Key -> Rows] /\ SetActive(k) \in [Key -> Rows]
  BY DEF HolderInv, IdentityTypeOK, Inserted, SetActive, Rows

LEMMA TableStep ==
    ASSUME HolderInv, NEW c \in Request,
           Register(c) \/ InsertIdentity(c) \/ SetActiveIdentity(c)
    PROVE  HolderInv'
  <1> USE HolderAssumption
  <1>0. job[c] \in Job /\ JobSound(job[c]) /\ UNCHANGED <<disk, kp>>
        /\ job[c].at \in {"register", "insert", "first", "setactive"}
    BY JobIs DEF Register, InsertIdentity, SetActiveIdentity, At, memory
  <1>1. job[c].kp \in Key /\ Target(c) \in Key
    BY <1>0 DEF JobSound, Target, Holding
  <1>2. RestTyped'
    <2>1. row' \in [Key -> Rows]
      BY <1>1, RowTyped DEF Register, InsertIdentity, SetActiveIdentity, Rows
    <2> QED
      BY <2>1 DEF Register, InsertIdentity, SetActiveIdentity, memory, RestTyped, HolderInv,
         IdentityTypeOK
  <1>3. PICK s \in {"setactive", "first", "active", "setkp"} :
           /\ Goto(c, s)
           /\ s = "first" => job[c].at = "insert"
    BY DEF Register, InsertIdentity, SetActiveIdentity, At
  <1>4. s \in Steps \ {"write"}
    BY DEF Steps, FaultSteps
  <1>5. \A j \in Job : j.at = s /\ SameButAt(j, job[c]) =>
           JobSound(j) /\ ~HasOld(j) /\ \A k \in Key : Uses(j, k) => Uses(job[c], k)
    BY <1>0, <1>3 DEF SameButAt, JobSound, HasOld, Uses, Renaming, Migrating, Holding
  <1> QED
    BY <1>0, <1>2, <1>3, <1>4, <1>5, Going

LEMMA CountStep ==
    ASSUME HolderInv, NEW c \in Request, CountIdentities(c)
    PROVE  HolderInv'
  <1> USE HolderAssumption
  <1>0. job[c] \in Job /\ JobSound(job[c]) /\ job[c].at = "count" /\ RestTyped'
        /\ UNCHANGED <<disk, kp>>
    BY JobIs, RestKept DEF CountIdentities, At, memory
  <1> DEFINE f == \A k \in Key : row[k] = "none"
             j == [job[c] EXCEPT !.first = f, !.at = "insert"]
  <1>1. /\ j \in Job /\ j.at = "insert" /\ SameButAt(j, job[c])
    BY <1>0 DEF Job, Steps, FaultSteps, SameButAt
  <1>2. job' = [job EXCEPT ![c] = j]
    BY DEF CountIdentities, HolderInv, IdentityTypeOK
  <1> HIDE DEF j
  <1>3. JobSound(j) /\ ~HasOld(j) /\ \A k \in Key : Uses(j, k) => IsUsed(k)
    BY <1>0, <1>1 DEF SameButAt, JobSound, HasOld, Uses, IsUsed, Renaming, Migrating, Holding
  <1> QED
    BY <1>0, <1>1, <1>2, <1>3, JobMoves

LEMMA WriteActiveStep ==
    ASSUME HolderInv, NEW c \in Request, WriteActive(c)
    PROVE  HolderInv'
  <1> USE HolderAssumption
  <1>0. job[c] \in Job /\ JobSound(job[c]) /\ job[c].at = "active" /\ RestTyped'
        /\ UNCHANGED <<legacy, keyFile, kp>> /\ Goto(c, "setactive")
    BY JobIs, RestKept DEF WriteActive, At, memory
  <1>1. active' \in Key /\ IsUsed(active')
    BY <1>0 DEF WriteActive, Target, JobSound, Holding, IsUsed, Uses
  <1>2. \A j \in Job : j.at = "setactive" /\ SameButAt(j, job[c]) =>
           JobSound(j) /\ ~HasOld(j) /\ \A k \in Key : Uses(j, k) => Uses(job[c], k)
    BY <1>0 DEF SameButAt, JobSound, HasOld, Uses, Renaming, Migrating, Holding
  <1>3. "setactive" \in Steps \ {"write"}
    BY DEF Steps, FaultSteps
  <1> QED
    BY <1>0, <1>1, <1>2, <1>3, ActiveStep

LEMMA KeyPairStep ==
    ASSUME HolderInv, NEW c \in Request, SetKeyPair(c) \/ Lock(c)
    PROVE  HolderInv'
  <1> USE HolderAssumption
  <1>0. job[c] \in Job /\ JobSound(job[c]) /\ Goto(c, "look") /\ UNCHANGED disk
    BY JobIs DEF SetKeyPair, Lock, At
  <1>1. \/ kp' = NoKey
        \/ kp' = job[c].kp /\ kp' \in Key /\ IsUsed(kp')
    BY <1>0 DEF SetKeyPair, Lock, At, JobSound, Holding, IsUsed, Uses
  <1>2. RestTyped'
    BY <1>1 DEF SetKeyPair, Lock, RestTyped, HolderInv, IdentityTypeOK
  <1>3. PICK j \in Job : job' = [job EXCEPT ![c] = j] /\ j.at = "look"
    BY <1>0, JobAt DEF HolderInv, Steps
  <1>4. JobSound(j) /\ ~HasOld(j) /\ \A k \in Key : ~Uses(j, k)
    BY <1>3 DEF JobSound, HasOld, Uses, Renaming, Migrating, Holding
  <1>5. DiskTyped' /\ NamesHonest'
    BY <1>0 DEF DiskTyped, HolderInv, IdentityTypeOK, NamesHonest, disk
  <1>6. keyFile'[Legacy].key # NoKey => IsOld(keyFile'[Legacy].key)
    BY <1>0 DEF IsOld, disk
  <1>7. \A k \in Key : k = kp' \/ k = active' => IsUsed(k)
    BY <1>0, <1>1 DEF IsUsed, disk
  <1> QED
    BY <1>0, <1>2, <1>3, <1>4, <1>5, <1>6, <1>7, OneMoves DEF disk

LEMMA HandlerStep ==
    ASSUME HolderInv, NEW c \in Request,
           LookUp(c) \/ KeepInHandler(c) \/ SyncServices(c) \/ RotateSession(c)
    PROVE  HolderInv'
  <1> USE HolderAssumption
  <1>0. job[c] \in Job /\ JobSound(job[c]) /\ UNCHANGED <<disk, kp>>
    BY JobIs DEF LookUp, KeepInHandler, SyncServices, RotateSession, memory
  <1>t. kp \in Key \cup {NoKey} /\ job[c].kp \in Key \cup {NoKey}
    BY <1>0 DEF HolderInv, IdentityTypeOK, Job
  <1>1. CASE LookUp(c)
    <2> DEFINE s == IF c \in Web THEN "sync" ELSE "keep"
               n == IF c \in Web \/ job[c].op = "switch" THEN kp ELSE job[c].kp
               j == [job[c] EXCEPT !.at = s, !.name = n]
    <2>1. j \in Job /\ j.at = s
      BY <1>0, <1>t DEF Job, Steps, Name
    <2>2. job' = [job EXCEPT ![c] = j]
      BY <1>1 DEF LookUp, HolderInv, IdentityTypeOK
    <2>3. JobSound(j) /\ ~HasOld(j) /\ j.at # "write" /\ \A k \in Key : ~Uses(j, k)
      <3>1. j.name \in Key \cup {NoKey}
        BY <1>0, <1>t, <2>1 DEF Job
      <3> QED
        BY <2>1, <3>1 DEF JobSound, HasOld, Uses, Renaming, Migrating, Holding
    <2>4. RestTyped'
      BY <1>1, RestKept DEF LookUp
    <2> QED
      BY <1>0, <2>1, <2>2, <2>3, <2>4, JobMoves
  <1>2. ASSUME NEW s \in {"sync", "rotate"}, Goto(c, s), RestTyped',
               s = "sync" => job[c].at = "keep"
        PROVE  HolderInv'
    <2>1. \A j \in Job : j.at = s /\ SameButAt(j, job[c]) =>
             JobSound(j) /\ ~HasOld(j) /\ \A k \in Key : ~Uses(j, k)
      BY <1>0, <1>2 DEF JobSound, HasOld, Uses, SameButAt, Renaming, Migrating, Holding
    <2>2. s \in Steps \ {"write"}
      BY <1>2 DEF Steps
    <2> QED
      BY <1>0, <1>2, <2>1, <2>2, Going
  <1>3. CASE KeepInHandler(c) \/ SyncServices(c)
    <2>1. RestTyped'
      <3>1. job[c].name \in Key \cup {NoKey} => RestTyped'
        BY <1>3 DEF KeepInHandler, SyncServices, RestTyped, HolderInv, IdentityTypeOK
      <3>2. job[c].name \in Key \cup {NoKey}
        BY <1>0, <1>3 DEF KeepInHandler, SyncServices, JobSound, At
      <3> QED
        BY <3>1, <3>2
    <2> QED
      BY <1>0, <1>2, <1>3, <2>1, Ending DEF KeepInHandler, SyncServices, At
  <1>4. CASE RotateSession(c)
    <2>1. RestTyped'
      BY <1>0, <1>t, <1>4 DEF RotateSession, RestTyped, HolderInv, IdentityTypeOK
    <2> QED
      BY <1>0, <1>4, <2>1, Ending DEF RotateSession
  <1> QED
    BY <1>1, <1>3, <1>4

\* A failing step leaves the files alone.
LEMMA FaultStep ==
    ASSUME HolderInv, NEW c \in Request, StepFails(c)
    PROVE  HolderInv'
  <1> USE HolderAssumption
  <1>0. /\ job[c] \in Job /\ JobSound(job[c]) /\ UNCHANGED <<disk, kp>>
        /\ job[c].at \in FaultSteps
    BY JobIs DEF StepFails, memory
  <1>1. RestTyped'
    BY DEF StepFails, RestTyped, HolderInv, IdentityTypeOK, memory
  <1>2. CASE AfterFault(c) = "idle"
    BY <1>0, <1>1, <1>2, Ending DEF StepFails, End
  <1>3. CASE AfterFault(c) # "idle"
    <2> DEFINE s == AfterFault(c)
               f == job[c].first \/ At(c, "count")
               j == [job[c] EXCEPT !.at = s, !.first = f, !.data = NoFile]
    <2>1. s \in Steps
      <3>1. s \in {"resolve", "save", "mark", "rollback", "setactive", "insert", "first",
                   "active", "setkp", "idle"}
        BY Zenon DEF AfterFault, AfterMigration
      <3> QED
        BY <3>1 DEF Steps, FaultSteps
    <2>2. j \in Job /\ j.at = s /\ SameButAt(j, job[c])
      BY <1>0, <2>1 DEF Job, SameButAt, File
    <2>3. job' = [job EXCEPT ![c] = j]
      <3>1. job' = [job EXCEPT ![c].at = s, ![c].first = @ \/ At(c, "count"),
                                  ![c].data = NoFile]
        BY <1>3 DEF StepFails
      <3> QED
        BY <3>1 DEF HolderInv, IdentityTypeOK
    <2>4. s \in {"resolve", "save", "mark", "rollback", "setactive", "insert", "first",
                   "active", "setkp"}
      BY <1>3, Zenon DEF AfterFault, AfterMigration
    <2>5. /\ s \in {"resolve", "save"} =>
                /\ job[c].at \in {"copy", "write", "mark"}
                /\ s = IF job[c].op = "unlock" THEN "resolve" ELSE "save"
          /\ s = "mark" => job[c].at = "drop"
          /\ s = "rollback" => job[c].at = "adopt"
          /\ s \in {"setactive", "insert", "first", "active", "setkp"} => job[c].at \in Holding
          /\ s \in {"insert", "first"} => job[c].at \in {"count", "insert"}
          /\ s = "active" => job[c].at \in {"insert", "first"}
          /\ s = "setkp" => job[c].at = "setactive"
      BY <1>0, <1>3 DEF AfterFault, AfterMigration, At, FaultSteps, Holding
    <2> HIDE DEF s, j
    <2>6. JobSound(j)
      BY <1>0, <2>2, <2>4, <2>5 DEF JobSound, SameButAt, Renaming, Migrating, Holding
    <2>7. HasOld(j) => HasOld(job[c])
      BY <1>0, <2>2, <2>4, <2>5 DEF HasOld, SameButAt, Renaming
    <2>8. \A k \in Key : Uses(j, k) => Uses(job[c], k)
      BY <1>0, <2>2, <2>4, <2>5 DEF Uses, SameButAt, Renaming, Migrating, Holding
    <2>9. HasOld(j) => IsOld(j.kp)
      <3>1. HasOld(j) => j.kp \in Key
        BY <2>6 DEF HasOld, JobSound
      <3> QED
        BY <2>2, <2>7, <3>1 DEF IsOld, SameButAt
    <2>10. \A k \in Key : Uses(j, k) => IsUsed(k)
      BY <2>8 DEF IsUsed
    <2> QED
      BY <1>0, <1>1, <2>2, <2>3, <2>4, <2>6, <2>9, <2>10, JobMoves
  <1> QED
    BY <1>2, <1>3

LEMMA CrashStep ==
    ASSUME HolderInv, CrashAndRestart
    PROVE  HolderInv'
  <1> USE HolderAssumption
  <1>1. /\ UNCHANGED disk /\ kp' = NoKey
        /\ job' \in [Request -> Job] /\ \A d \in Request : job'[d] = IdleJob
    BY IdleSound DEF CrashAndRestart
  <1>2. IdentityTypeOK'
    BY <1>1 DEF CrashAndRestart, HolderInv, IdentityTypeOK, disk
  <1>3. \A d \in Request : /\ JobSound(job'[d]) /\ ~HasOld(job'[d]) /\ job'[d].at # "write"
                           /\ \A k \in Key : ~Uses(job'[d], k)
    BY <1>1, IdleSound
  <1>4. \A k \in Key : (IsOld(k)' => IsOld(k)) /\ (IsUsed(k)' => IsUsed(k))
    BY <1>1, <1>3 DEF IsOld, IsUsed, disk, HasOld, Uses
  <1> QED
    BY <1>1, <1>2, <1>3, <1>4 DEF HolderInv, NamesHonest, OneOldKey, UsedStored, disk, JobSound

LEMMA HolderInit == Init => HolderInv
  <1> SUFFICES ASSUME Init PROVE HolderInv
    OBVIOUS
  <1> USE HolderAssumption
  <1>1. \A c \in Request : job[c] = IdleJob
    BY DEF Init
  <1>2. PICK k \in Key \cup {NoKey} :
           /\ legacy \in File /\ keyFile \in [Name -> File] /\ active \in Name \cup {NoKey}
           /\ legacy.key \in {k, NoKey} /\ keyFile[Legacy].key \in {k, NoKey}
           /\ \A i \in Key : keyFile[i].key \in {i, NoKey}
           /\ legacy # NoFile => active = NoKey
    <2>0. NoFile \in File /\ NoFile.key = NoKey
      BY DEF NoFile, File
    <2>1. \A i \in Key : Original(i) \in File /\ Original(i).key = i /\ Fresh(i) \in File
                         /\ Fresh(i).key = i
      BY DEF Original, Fresh, File
    <2>2. CASE OldLayout
      BY <2>0, <2>1, <2>2 DEF OldLayout, Name
    <2>3. CASE Placeholder
      BY <2>0, <2>1, <2>3 DEF Placeholder, Name
    <2> QED
      BY <2>2, <2>3 DEF Init
  <1>3. IdentityTypeOK
    BY <1>2, IdleSound DEF Init, IdentityTypeOK, Rows
  <1>4. \A c \in Request : /\ JobSound(job[c]) /\ ~HasOld(job[c]) /\ job[c].at # "write"
                           /\ \A i : ~Uses(job[c], i)
    BY <1>1, IdleSound
  <1>5. OneOldKey
    BY <1>2, <1>4 DEF OneOldKey, IsOld
  <1>6. UsedStored
    BY <1>2, <1>4 DEF UsedStored, IsUsed, Init
  <1>7. NamesHonest
    BY <1>2 DEF NamesHonest
  <1> QED
    BY <1>3, <1>4, <1>5, <1>6, <1>7 DEF HolderInv

LEMMA HolderNext == HolderInv /\ [Next]_vars => HolderInv'
  <1> SUFFICES ASSUME HolderInv, [Next]_vars PROVE HolderInv'
    OBVIOUS
  <1>1. ASSUME NEW c \in Request, HolderStep(c) PROVE HolderInv'
    BY <1>1, MigrateStep, CopyStep, WriteStep, DropStep, MarkStep, ResolveStep, LoadStep, FixStep,
       AdoptStep, DuplicateStep, RenameStep, RollBackStep, TableStep, SaveStep, CountStep,
       WriteActiveStep, KeyPairStep, HandlerStep DEF HolderStep
  <1>2. ASSUME NEW c \in Request, SessionEnds(c) PROVE HolderInv'
    <2>1. RestTyped'
      BY <1>2 DEF SessionEnds, RestTyped, HolderInv, IdentityTypeOK
    <2> QED
      BY <1>2, <2>1 DEF SessionEnds, disk, HolderInv, IdentityTypeOK, RestTyped, JobSound,
         NamesHonest, OneOldKey, UsedStored, IsOld, IsUsed, HasOld, Uses
  <1>3. CASE UNCHANGED vars
    BY <1>3 DEF vars, disk, memory, HolderInv, IdentityTypeOK, JobSound,
       NamesHonest, OneOldKey, UsedStored, IsOld, IsUsed, HasOld, Uses
  <1> QED
    BY <1>1, <1>2, <1>3, BeginStep, FaultStep, CrashStep DEF Next

\* A key file decrypts to the key it is named after, so that SwitchIdentity opens
\* the identity it marks active and a migration (migrationPubkeyHex, copyLegacyKey,
\* fixMigratedKeyName) never writes the old key under another name: for any keys,
\* requests, failures and crashes.
THEOREM NamesHonestTheorem == Spec => [](IdentityTypeOK /\ NamesHonest)
  <1>1. HolderInv => IdentityTypeOK /\ NamesHonest
    BY DEF HolderInv
  <1> QED
    BY <1>1, HolderInit, HolderNext, PTL DEF Spec

-----------------------------------------------------------------------------
(* No key is lost.                                                         *)

\* The files after a step: those of the keys' own names stay, every key that
\* was in the directory still is, and the legacy file goes only when its key is.
FilesKept ==
    /\ \A k \in Key : keyFile[k] # NoFile => keyFile'[k] # NoFile
    /\ \A k \in Key : (\E n \in Name : keyFile[n].key = k) => \E n \in Name : keyFile'[n].key = k
    /\ legacy' = legacy \/ (legacy' = NoFile /\ Copied)

LEMMA FilesStep ==
    ASSUME KeyInv, [Next]_vars
    PROVE  FilesKept
  <1> USE HolderAssumption
  <1>0. HolderInv /\ keyFile \in [Name -> File]
    BY DEF KeyInv, HolderInv, IdentityTypeOK
  <1>1. CASE legacy' = legacy /\ keyFile' = keyFile
    BY <1>1 DEF FilesKept
  <1>2. ASSUME NEW c \in Request, WriteMigratedKey(c) PROVE FilesKept
    <2> DEFINE n0 == job[c].name
               k0 == job[c].data.key
    <2>1. n0 \in Name /\ k0 \in Key /\ n0 \in {Legacy, k0} /\ job[c].data # NoFile
      BY <1>0, <1>2, JobIs DEF WriteMigratedKey, At, JobSound, Migrating, NoFile
    <2>2. /\ legacy' = legacy /\ keyFile'[n0] = job[c].data
          /\ \A n \in Name : n # n0 => keyFile'[n] = keyFile[n]
      BY <1>0, <1>2, <2>1 DEF WriteMigratedKey, Written
    <2>3. ASSUME NEW k \in Key, keyFile[n0].key = k PROVE k = k0
      <3>1. CASE n0 = Legacy
        <4>1. IsOld(k) /\ IsOld(k0)
          BY <1>2, <2>1, <2>3, <3>1 DEF IsOld, WriteMigratedKey, At
        <4> QED
          BY <1>0, <2>1, <4>1 DEF HolderInv, OneOldKey
      <3>2. CASE n0 # Legacy
        BY <1>0, <2>1, <2>3, <3>2 DEF HolderInv, NamesHonest
      <3> QED
        BY <3>1, <3>2
    <2>4. ASSUME NEW k \in Key, NEW n \in Name, keyFile[n].key = k
          PROVE  \E m \in Name : keyFile'[m].key = k
      BY <2>1, <2>2, <2>3, <2>4
    <2> QED
      BY <2>1, <2>2, <2>4 DEF FilesKept, Name
  <1>3. ASSUME NEW c \in Request, DropLegacyKey(c) PROVE FilesKept
    <2>1. Copied
      BY <1>3 DEF KeyInv, NobodyPast, Unmigrated, DropLegacyKey, At
    <2> QED
      BY <1>3, <2>1 DEF DropLegacyKey, FilesKept
  <1>4. ASSUME NEW c \in Request, RemoveDuplicate(c) PROVE FilesKept
    <2>1. job[c].at = "undup" /\ keyFile[job[c].kp] # NoFile
      BY <1>4 DEF RemoveDuplicate, At, KeyInv, DuplicateKept
    <2>2. /\ job[c].name = Legacy /\ job[c].kp \in Key
          /\ keyFile[Legacy] # NoFile => keyFile[Legacy].key = job[c].kp
      BY <1>0, <2>1, OldOpened DEF Renaming
    <2>3. keyFile[job[c].kp].key = job[c].kp
      BY <1>0, <2>1, <2>2, FileKeys DEF Name
    <2>4. /\ keyFile' = [keyFile EXCEPT ![Legacy] = NoFile] /\ legacy' = legacy
      BY <1>4, <2>2 DEF RemoveDuplicate, Removed
    <2>5. \A k \in Key : keyFile'[k] = keyFile[k]
      BY <1>0, <2>4 DEF Name
    <2>6. ASSUME NEW k \in Key, NEW n \in Name, keyFile[n].key = k
          PROVE  \E m \in Name : keyFile'[m].key = k
      <3>1. CASE n # Legacy
        BY <2>5, <2>6, <3>1 DEF Name
      <3>2. CASE n = Legacy
        <4>1. k = job[c].kp
          BY <2>2, <2>6, <3>2 DEF NoFile
        <4> QED
          BY <2>2, <2>3, <2>5, <4>1 DEF Name
      <3> QED
        BY <3>1, <3>2
    <2> QED
      BY <2>4, <2>5, <2>6 DEF FilesKept
  <1>5. ASSUME NEW c \in Request, RenameMigrated(c) PROVE FilesKept
    <2> DEFINE k0 == job[c].kp
    <2>1. /\ job[c].name = Legacy /\ k0 \in Key
          /\ keyFile[Legacy] # NoFile => keyFile[Legacy].key = k0
      BY <1>0, <1>5, OldOpened DEF Renaming, RenameMigrated, At
    <2>2. CASE keyFile[Legacy] # NoFile
      <3>1. keyFile' = Renamed(Legacy, k0) /\ legacy' = legacy
        BY <1>5, <2>1, <2>2 DEF RenameMigrated
      <3>2. Legacy \in Name /\ k0 \in Name /\ Legacy # k0
        BY <2>1 DEF Name
      <3>3. /\ keyFile'[k0] = keyFile[Legacy] /\ keyFile'[Legacy] = NoFile
            /\ \A n \in Name : n # Legacy /\ n # k0 => keyFile'[n] = keyFile[n]
        BY <1>0, <3>1, <3>2, RenamedFiles
      <3>4. ASSUME NEW k \in Key, NEW n \in Name, keyFile[n].key = k
            PROVE  \E m \in Name : keyFile'[m].key = k
        <4>1. CASE n \in {Legacy, k0}
          <5>1. keyFile[n] # NoFile
            BY <3>4 DEF NoFile
          <5>2. k = k0
            BY <1>0, <2>1, <3>4, <4>1, <5>1, FileKeys
          <5> QED
            BY <2>1, <2>2, <3>2, <3>3, <5>2
        <4>2. CASE n \notin {Legacy, k0}
          BY <3>3, <3>4, <4>2
        <4> QED
          BY <4>1, <4>2
      <3>5. \A k \in Key : keyFile[k] # NoFile => keyFile'[k] # NoFile
        BY <2>1, <2>2, <3>3 DEF Name
      <3> QED
        BY <3>1, <3>4, <3>5 DEF FilesKept
    <2>3. CASE keyFile[Legacy] = NoFile
      BY <1>1, <1>5, <2>1, <2>3 DEF RenameMigrated
    <2> QED
      BY <2>2, <2>3
  <1>6. ASSUME NEW c \in Request, SaveKey(c) PROVE FilesKept
    <2> DEFINE k0 == job[c].kp
    <2>1. k0 \in Key /\ Fresh(k0) # NoFile /\ Fresh(k0).key = k0
      <3>1. k0 \in Key
        BY <1>0, <1>6, JobIs DEF SaveKey, At, JobSound
      <3> QED
        BY <3>1 DEF Fresh, NoFile
    <2>2. /\ legacy' = legacy /\ keyFile'[k0] = Fresh(k0)
          /\ \A n \in Name : n # k0 => keyFile'[n] = keyFile[n]
      BY <1>0, <1>6, <2>1 DEF SaveKey, Written, Name
    <2>3. ASSUME NEW k \in Key, NEW n \in Name, keyFile[n].key = k
          PROVE  \E m \in Name : keyFile'[m].key = k
      <3>1. CASE n = k0
        <4>1. k = k0
          BY <2>1, <2>3, <3>1 DEF KeyInv, HolderInv, NamesHonest
        <4> QED
          BY <2>1, <2>2, <4>1 DEF Name
      <3>2. CASE n # k0
        BY <2>2, <2>3, <3>2
      <3> QED
        BY <3>1, <3>2
    <2> QED
      BY <2>1, <2>2, <2>3 DEF FilesKept, Name
  <1>7. ASSUME NEW c \in Request PROVE ~RollBack(c)
    BY DEF RollBack, At, KeyInv, DuplicateKept
  <1>8. ASSUME NEW c \in Request, HolderStep(c) PROVE FilesKept
    <2>1. CASE \/ Migrate(c) \/ CopyLegacyKey(c) \/ MarkActive(c) \/ Resolve(c) \/ LoadAndDecrypt(c)
               \/ FixMigratedKeyName(c) \/ AdoptName(c) \/ Register(c)
               \/ CountIdentities(c) \/ InsertIdentity(c) \/ OpenKey(c) \/ WriteActive(c)
               \/ SetActiveIdentity(c) \/ SetKeyPair(c) \/ Lock(c) \/ LookUp(c)
               \/ KeepInHandler(c) \/ SyncServices(c) \/ RotateSession(c)
      BY <1>1, <2>1 DEF Migrate, CopyLegacyKey, MarkActive, Resolve, LoadAndDecrypt,
         FixMigratedKeyName, AdoptName, Register, CountIdentities, InsertIdentity, OpenKey, WriteActive,
         SetActiveIdentity, SetKeyPair, Lock, LookUp, KeepInHandler, SyncServices,
         RotateSession, disk
    <2> QED
      BY <1>2, <1>3, <1>4, <1>5, <1>6, <1>7, <1>8, <2>1 DEF HolderStep
  <1>9. ASSUME NEW c \in Request, Arrival(c) \/ StepFails(c) \/ SessionEnds(c) PROVE FilesKept
    BY <1>1, <1>9 DEF Arrival, UnlockIdentity, handleUnlock, LockIdentity, handleLogout,
       CreateIdentity, handleCreate, ImportIdentity, handleImport, SwitchIdentity,
       handleSwitchIdentity, Begin, StepFails, SessionEnds, disk
  <1>10. CASE CrashAndRestart \/ UNCHANGED vars
    BY <1>1, <1>10 DEF CrashAndRestart, vars, disk
  <1> QED
    BY <1>8, <1>9, <1>10 DEF Next

\* No file of a key is lost, in the directory or beside it.
LEMMA StillThere ==
    ASSUME KeyInv, FilesKept
    PROVE  /\ \A k \in Key : HasFile(k) => HasFile(k)'
           /\ Copied => Copied'
  <1>1. legacy # NoFile => legacy.key \in Key
    BY HolderAssumption DEF KeyInv, HolderInv, IdentityTypeOK, File
  <1>2. \A k \in Key : k = legacy.key => legacy # NoFile
    BY HolderAssumption DEF NoFile
  <1> QED
    BY <1>1, <1>2 DEF FilesKept, HasFile, Copied

\* The steps after which a duplicate is removed follow the comparison.
LEMMA DuplicateKeptStep ==
    ASSUME KeyInv, [Next]_vars, FilesKept, "adopt" \notin Fallible
    PROVE  DuplicateKept'
  <1> USE HolderAssumption
  <1>0. HolderInv /\ job \in [Request -> Job]
    BY DEF KeyInv, HolderInv, IdentityTypeOK
  \* The request that moves.
  <1>m. ASSUME NEW c \in Request, NEW j, job' = [job EXCEPT ![c] = j],
               j.at # "rollback",
               j.at \in {"dedup", "undup"} => j.kp \in Key /\ keyFile[j.kp] # NoFile
        PROVE  DuplicateKept'
    <2> SUFFICES ASSUME NEW d \in Request
                 PROVE  /\ job'[d].at \in {"dedup", "undup"} => keyFile'[job'[d].kp] # NoFile
                        /\ job'[d].at # "rollback"
      BY DEF DuplicateKept
    <2>1. CASE d = c
      BY <1>0, <1>m, <2>1 DEF FilesKept
    <2>2. CASE d # c
      <3>1. job'[d] = job[d]
        BY <1>0, <1>m, <2>2
      <3>2. job[d].at \in {"dedup", "undup"} => job[d].kp \in Key
        BY <1>0, JobIs DEF JobSound, Renaming
      <3> QED
        BY <3>1, <3>2 DEF FilesKept, KeyInv, DuplicateKept
    <2> QED
      BY <2>1, <2>2
  <1>g. ASSUME NEW c \in Request, NEW s \in Steps \ {"dedup", "undup", "rollback"}, Goto(c, s)
        PROVE  DuplicateKept'
    <2>1. PICK j \in Job : job' = [job EXCEPT ![c] = j] /\ j.at = s
      BY <1>0, <1>g, JobAt DEF HolderInv
    <2> QED
      BY <1>g, <1>m, <2>1
  <1>e. ASSUME NEW c \in Request, End(c) PROVE DuplicateKept'
    <2>1. job' = [job EXCEPT ![c] = IdleJob]
      BY <1>e DEF End
    <2>2. IdleJob.at = "idle"
      BY DEF IdleJob
    <2> QED
      BY <1>m, <2>1, <2>2
  <1>1. ASSUME NEW c \in Request, FixMigratedKeyName(c) PROVE DuplicateKept'
    <2>1. CASE Goto(c, "dedup") /\ keyFile[job[c].kp] # NoFile
      <3>1. PICK j \in Job : job' = [job EXCEPT ![c] = j] /\ j.at = "dedup" /\ j.kp = job[c].kp
        BY <1>0, <2>1, JobAt DEF HolderInv, Steps, FaultSteps
      <3>2. job[c].kp \in Key
        BY <1>0, <1>1, JobIs DEF FixMigratedKeyName, At, JobSound
      <3> QED
        BY <1>m, <2>1, <3>1, <3>2
    <2> QED
      BY <1>1, <1>e, <1>g, <2>1 DEF FixMigratedKeyName, Steps, FaultSteps
  <1>2. ASSUME NEW c \in Request, AdoptName(c) PROVE DuplicateKept'
    <2>1. CASE At(c, "dedup")
      <3>1. PICK j \in Job : job' = [job EXCEPT ![c] = j] /\ j.at = "undup" /\ j.kp = job[c].kp
        BY <1>0, <1>2, <2>1, JobAt DEF HolderInv, Steps, FaultSteps, AdoptName
      <3>2. job[c].kp \in Key /\ keyFile[job[c].kp] # NoFile
        BY <1>0, <2>1, JobIs DEF At, JobSound, Renaming, KeyInv, DuplicateKept
      <3> QED
        BY <1>m, <3>1, <3>2
    <2> QED
      BY <1>2, <1>g, <2>1 DEF AdoptName, Steps, FaultSteps
  <1>3. ASSUME NEW c \in Request, NEW n, NEW s \in {"copy", "load", "sync", "keep"},
               job' = [job EXCEPT ![c].at = s, ![c].name = n]
               \/ job' = [job EXCEPT ![c].name = n, ![c].at = s]
        PROVE  DuplicateKept'
    <2>1. job' = [job EXCEPT ![c] = [job[c] EXCEPT !.at = s, !.name = n]]
      BY <1>0, <1>3
    <2>2. [job[c] EXCEPT !.at = s, !.name = n].at = s
      BY <1>0 DEF Job
    <2> QED
      BY <1>m, <2>1, <2>2
  <1>4. ASSUME NEW c \in Request, Migrate(c) \/ Resolve(c) \/ LookUp(c) PROVE DuplicateKept'
    <2>1. CASE Migrate(c)
      <3>1. job' = [job EXCEPT ![c].at = AfterMigration(c)] => Goto(c, AfterMigration(c))
        BY DEF Goto
      <3> QED
        BY <1>3, <1>g, <2>1, <3>1 DEF Migrate, AfterMigration, Steps, FaultSteps
    <2>2. CASE Resolve(c)
      BY <1>3, <1>e, <2>2 DEF Resolve
    <2>3. CASE LookUp(c)
      BY <1>3, <2>3 DEF LookUp
    <2> QED
      BY <1>4, <2>1, <2>2, <2>3
  <1>5. ASSUME NEW c \in Request, LoadAndDecrypt(c) \/ OpenKey(c) PROVE DuplicateKept'
    <2>1. ASSUME NEW x, NEW s \in {"fix", "active"}, job' = [job EXCEPT ![c].kp = x, ![c].at = s]
          PROVE  DuplicateKept'
      <3>1. job' = [job EXCEPT ![c] = [job[c] EXCEPT !.at = s, !.kp = x]]
        BY <1>0, <2>1
      <3>2. [job[c] EXCEPT !.at = s, !.kp = x].at = s
        BY <1>0 DEF Job
      <3> QED
        BY <1>m, <3>1, <3>2
    <2> QED
      BY <1>5, <1>e, <2>1 DEF LoadAndDecrypt, OpenKey
  <1>6. ASSUME NEW c \in Request, NEW f, NEW x, NEW s \in Steps \ {"dedup", "undup", "rollback"},
               job' = [job EXCEPT ![c] = [job[c] EXCEPT !.at = s, !.first = f, !.data = x]]
        PROVE  DuplicateKept'
    <2>1. [job[c] EXCEPT !.at = s, !.first = f, !.data = x].at = s
      BY <1>0 DEF Job
    <2> QED
      BY <1>6, <1>m, <2>1
  <1>7. ASSUME NEW c \in Request, CountIdentities(c) PROVE DuplicateKept'
    <2> DEFINE f == \A k \in Key : row[k] = "none"
    <2>1. job' = [job EXCEPT ![c] = [job[c] EXCEPT !.at = "insert", !.first = f,
                                                        !.data = job[c].data]]
      BY <1>0, <1>7 DEF CountIdentities, Job
    <2>2. "insert" \in Steps \ {"dedup", "undup", "rollback"}
      BY DEF Steps, FaultSteps
    <2> HIDE DEF f
    <2> QED
      BY <1>6, <2>1, <2>2
  <1>8. ASSUME NEW c \in Request, StepFails(c) PROVE DuplicateKept'
    <2>1. CASE AfterFault(c) = "idle"
      BY <1>8, <1>e, <2>1 DEF StepFails, End
    <2>2. CASE AfterFault(c) # "idle"
      <3> DEFINE f == job[c].first \/ At(c, "count")
      <3>1. ~At(c, "adopt")
        BY <1>8 DEF StepFails, At
      <3>2. AfterFault(c) \in {"resolve", "save", "mark", "setactive", "insert", "first",
                               "active", "setkp"}
        BY <2>2, <3>1, Zenon DEF AfterFault, AfterMigration
      <3>3. AfterFault(c) \in Steps \ {"dedup", "undup", "rollback"}
        BY <3>2 DEF Steps, FaultSteps
      <3>4. job' = [job EXCEPT ![c] = [job[c] EXCEPT !.at = AfterFault(c), !.first = f,
                                                        !.data = NoFile]]
        <4>1. job' = [job EXCEPT ![c].at = AfterFault(c), ![c].first = @ \/ At(c, "count"),
                                  ![c].data = NoFile]
          BY <1>8, <2>2 DEF StepFails
        <4> QED
          BY <1>0, <4>1
      <3> HIDE DEF f
      <3> QED
        BY <1>6, <3>3, <3>4
    <2> QED
      BY <2>1, <2>2
  <1>r. ASSUME NEW c \in Request, CopyLegacyKey(c) \/ WriteMigratedKey(c) PROVE DuplicateKept'
    <2>1. ASSUME NEW x, NEW s \in {"write", "drop"}, job' = [job EXCEPT ![c].at = s, ![c].data = x]
          PROVE  DuplicateKept'
      <3>1. job' = [job EXCEPT ![c] = [job[c] EXCEPT !.at = s, !.data = x]]
        BY <1>0, <2>1
      <3>2. [job[c] EXCEPT !.at = s, !.data = x].at = s
        BY <1>0 DEF Job
      <3> QED
        BY <1>m, <2>1, <3>1, <3>2
    <2>2. \A s : job' = [job EXCEPT ![c].at = s] => Goto(c, s)
      BY DEF Goto
    <2>3. {"drop", AfterMigration(c)} \subseteq Steps \ {"dedup", "undup", "rollback"}
      BY DEF Steps, FaultSteps, AfterMigration
    <2> QED
      BY <1>r, <1>g, <2>1, <2>2, <2>3 DEF CopyLegacyKey, WriteMigratedKey
  <1>9. ASSUME NEW c \in Request,
               \/ DropLegacyKey(c) \/ MarkActive(c)
               \/ RemoveDuplicate(c) \/ RenameMigrated(c) \/ RollBack(c)
               \/ Register(c) \/ SaveKey(c) \/ InsertIdentity(c) \/ WriteActive(c)
               \/ SetActiveIdentity(c) \/ SetKeyPair(c) \/ Lock(c)
               \/ KeepInHandler(c) \/ SyncServices(c) \/ RotateSession(c)
        PROVE  DuplicateKept'
    <2>1. \/ End(c)
          \/ \E s \in {"drop", "mark", "resolve", "save", "register", "adopt", "setactive",
                       "count", "first", "active", "setkp", "look", "sync", "rotate"} : Goto(c, s)
      BY <1>9 DEF DropLegacyKey, MarkActive, RemoveDuplicate, RenameMigrated, RollBack,
         Register, SaveKey, InsertIdentity, WriteActive, SetActiveIdentity,
         SetKeyPair, Lock, KeepInHandler, SyncServices, RotateSession, AfterMigration
    <2> QED
      BY <1>e, <1>g, <2>1 DEF Steps, FaultSteps
  <1>10. ASSUME NEW c \in Request, Arrival(c) PROVE DuplicateKept'
    <2>1. PICK o \in Ops, k \in Key \cup {NoKey}, s \in {"migrate", "open", "lock"} :
             Begin(c, o, k, s)
      BY <1>10 DEF Arrival, UnlockIdentity, handleUnlock, LockIdentity, handleLogout,
         CreateIdentity, handleCreate, ImportIdentity, handleImport, SwitchIdentity,
         handleSwitchIdentity, Ops
    <2> DEFINE j == [op |-> o, at |-> s, name |-> k, kp |-> k, first |-> FALSE, data |-> NoFile]
    <2>2. job' = [job EXCEPT ![c] = j] /\ j.at = s
      BY <2>1 DEF Begin
    <2> HIDE DEF j
    <2> QED
      BY <1>m, <2>2
  <1>11. CASE CrashAndRestart
    BY <1>11 DEF CrashAndRestart, DuplicateKept, IdleJob
  <1>12. CASE UNCHANGED <<job, keyFile>>
    BY <1>12 DEF KeyInv, DuplicateKept
  <1> QED
    BY <1>1, <1>2, <1>4, <1>5, <1>7, <1>8, <1>r, <1>9, <1>10, <1>11, <1>12
    DEF Next, HolderStep, SessionEnds, disk, vars

\* From a node that has not migrated yet only a migration leads on, and its copy
\* does not fail.
LEMMA NobodyPastStep ==
    ASSUME KeyInv, [Next]_vars, FilesKept, "copy" \notin Fallible, "write" \notin Fallible
    PROVE  NobodyPast'
  <1> USE HolderAssumption
  <1>s. SUFFICES ASSUME ~Copied' PROVE NobodyPast'
    BY DEF NobodyPast
  <1>0. HolderInv /\ job \in [Request -> Job] /\ ~Copied
    BY <1>s, StillThere DEF KeyInv, HolderInv, IdentityTypeOK
  <1>1. /\ \A n \in Name : keyFile[n] = NoFile
        /\ active = NoKey /\ kp = NoKey /\ legacy # NoFile
        /\ \A c \in Request : /\ job[c].at \in Unmigrated
                              /\ job[c].at \in {"copy", "write"} => job[c].name = Legacy
    BY <1>0 DEF KeyInv, NobodyPast, Copied
  <1>m. ASSUME NEW c \in Request, NEW j, job' = [job EXCEPT ![c] = j],
               j.at \in Unmigrated, j.at \in {"copy", "write"} => j.name = Legacy,
               UNCHANGED disk, kp' = NoKey
        PROVE  NobodyPast'
    BY <1>0, <1>1, <1>m DEF NobodyPast, disk
  <1>g. ASSUME NEW c \in Request, NEW s \in Unmigrated \ {"copy", "write"}, Goto(c, s),
               UNCHANGED disk, kp' = NoKey
        PROVE  NobodyPast'
    <2>1. PICK j \in Job : job' = [job EXCEPT ![c] = j] /\ j.at = s
      BY <1>0, <1>g, JobAt DEF HolderInv, Unmigrated, Steps, FaultSteps
    <2> QED
      BY <1>g, <1>m, <2>1
  <1>e. ASSUME NEW c \in Request, End(c), UNCHANGED disk, kp' = NoKey PROVE NobodyPast'
    <2>1. job' = [job EXCEPT ![c] = IdleJob]
      BY <1>e DEF End
    <2>2. IdleJob.at = "idle"
      BY DEF IdleJob
    <2> QED
      BY <1>e, <1>m, <2>1, <2>2 DEF Unmigrated
  <1>2. ASSUME NEW c \in Request, Arrival(c) PROVE NobodyPast'
    <2>1. PICK o \in Ops, k \in Key \cup {NoKey}, s \in {"migrate", "open", "lock"} :
             Begin(c, o, k, s)
      BY <1>2 DEF Arrival, UnlockIdentity, handleUnlock, LockIdentity, handleLogout,
         CreateIdentity, handleCreate, ImportIdentity, handleImport, SwitchIdentity,
         handleSwitchIdentity, Ops
    <2> DEFINE j == [op |-> o, at |-> s, name |-> k, kp |-> k, first |-> FALSE, data |-> NoFile]
    <2>2. job' = [job EXCEPT ![c] = j] /\ j.at = s /\ UNCHANGED disk /\ kp' = NoKey
      BY <1>1, <2>1 DEF Begin, memory
    <2> HIDE DEF j
    <2> QED
      BY <1>m, <2>2 DEF Unmigrated
  <1>3. ASSUME NEW c \in Request, Migrate(c) PROVE NobodyPast'
    <2> DEFINE j == [job[c] EXCEPT !.at = "copy", !.name = Legacy]
    <2>1. migrationPubkeyHex = Legacy
      BY <1>1 DEF migrationPubkeyHex
    <2>2. job' = [job EXCEPT ![c].at = "copy", ![c].name = Legacy]
      BY <1>1, <1>3, <2>1 DEF Migrate
    <2>3. job' = [job EXCEPT ![c] = j] /\ j.at = "copy" /\ j.name = Legacy
      BY <1>0, <2>2 DEF Job
    <2>4. UNCHANGED disk /\ kp' = NoKey
      BY <1>1, <1>3 DEF Migrate, memory
    <2> HIDE DEF j
    <2> QED
      BY <1>m, <2>3, <2>4 DEF Unmigrated
  <1>4. ASSUME NEW c \in Request, CopyLegacyKey(c) PROVE NobodyPast'
    <2> DEFINE j == [job[c] EXCEPT !.at = "write", !.data = legacy]
    <2>1. job[c].name = Legacy /\ keyFile[Legacy] = NoFile
      BY <1>1, <1>4 DEF CopyLegacyKey, At, Name
    <2>2. job' = [job EXCEPT ![c].at = "write", ![c].data = legacy]
      BY <1>1, <1>4, <2>1 DEF CopyLegacyKey
    <2>3. job' = [job EXCEPT ![c] = j] /\ j.at = "write" /\ j.name = Legacy
      BY <1>0, <2>1, <2>2 DEF Job
    <2>4. UNCHANGED disk /\ kp' = NoKey
      BY <1>1, <1>4 DEF CopyLegacyKey, memory
    <2> HIDE DEF j
    <2> QED
      BY <1>m, <2>3, <2>4 DEF Unmigrated
  <1>w. ASSUME NEW c \in Request, WriteMigratedKey(c) PROVE FALSE
    <2>1. job[c].at = "write" /\ job[c].name = Legacy /\ Legacy \in Name /\ job[c].data.key \in Key
      BY <1>0, <1>1, <1>w, JobIs DEF WriteMigratedKey, At, Name, JobSound
    <2>2. keyFile'[Legacy] = job[c].data /\ legacy' = legacy
      BY <1>0, <1>w, <2>1 DEF WriteMigratedKey, Written, HolderInv, IdentityTypeOK
    <2>3. legacy.key \in Key
      BY <1>0, <1>1 DEF HolderInv, IdentityTypeOK, File
    <2>4. IsOld(legacy.key) /\ IsOld(job[c].data.key)
      BY <2>1, <2>3 DEF IsOld
    <2>5. job[c].data.key = legacy.key
      BY <1>0, <2>1, <2>3, <2>4 DEF HolderInv, OneOldKey
    <2> QED
      BY <1>s, <2>1, <2>2, <2>5 DEF Copied
  <1>5. ASSUME NEW c \in Request, OpenKey(c) PROVE NobodyPast'
    <2>1. job[c].name \in Name
      BY <1>0, <1>5, JobIs DEF OpenKey, At, JobSound, Name
    <2>2. End(c) /\ UNCHANGED disk /\ kp' = NoKey
      BY <1>1, <1>5, <2>1 DEF OpenKey, memory
    <2> QED
      BY <1>e, <2>2
  <1>6. ASSUME NEW c \in Request, Lock(c) \/ KeepInHandler(c) \/ SyncServices(c) \/ RotateSession(c)
        PROVE  NobodyPast'
    <2>1. UNCHANGED disk /\ kp' = NoKey
      BY <1>1, <1>6 DEF Lock, KeepInHandler, SyncServices, RotateSession
    <2>2. End(c) \/ Goto(c, "look") \/ Goto(c, "sync") \/ Goto(c, "rotate")
      BY <1>6 DEF Lock, KeepInHandler, SyncServices, RotateSession
    <2> QED
      BY <1>e, <1>g, <2>1, <2>2 DEF Unmigrated
  <1>7. ASSUME NEW c \in Request, LookUp(c) PROVE NobodyPast'
    <2> DEFINE s == IF c \in Web THEN "sync" ELSE "keep"
               n == IF c \in Web \/ job[c].op = "switch" THEN kp ELSE job[c].kp
               j == [job[c] EXCEPT !.at = s, !.name = n]
    <2>1. job' = [job EXCEPT ![c] = j] /\ j.at = s /\ UNCHANGED disk /\ kp' = NoKey
      BY <1>0, <1>1, <1>7 DEF LookUp, Job, memory
    <2>2. s \in Unmigrated \ {"copy", "write"}
      BY DEF Unmigrated
    <2> HIDE DEF j, s
    <2> QED
      BY <1>m, <2>1, <2>2
  <1>8. ASSUME NEW c \in Request, StepFails(c) PROVE NobodyPast'
    BY <1>1, <1>8 DEF StepFails, Unmigrated, FaultSteps
  <1>9. ASSUME NEW c \in Request,
               \/ DropLegacyKey(c) \/ MarkActive(c) \/ Resolve(c) \/ LoadAndDecrypt(c)
               \/ FixMigratedKeyName(c) \/ AdoptName(c) \/ RemoveDuplicate(c)
               \/ RenameMigrated(c) \/ RollBack(c) \/ Register(c) \/ SaveKey(c)
               \/ CountIdentities(c) \/ InsertIdentity(c) \/ WriteActive(c)
               \/ SetActiveIdentity(c) \/ SetKeyPair(c)
        PROVE  FALSE
    BY <1>1, <1>9 DEF DropLegacyKey, MarkActive, Resolve, LoadAndDecrypt, FixMigratedKeyName,
       AdoptName, RemoveDuplicate, RenameMigrated, RollBack, Register, SaveKey,
       CountIdentities, InsertIdentity, WriteActive, SetActiveIdentity, SetKeyPair, At,
       Unmigrated
  <1>10. CASE CrashAndRestart
    BY <1>1, <1>10 DEF CrashAndRestart, NobodyPast, IdleJob, Unmigrated, disk
  <1>11. CASE UNCHANGED <<disk, kp, job>>
    BY <1>1, <1>11 DEF NobodyPast, disk
  <1> QED
    BY <1>2, <1>3, <1>4, <1>w, <1>5, <1>6, <1>7, <1>8, <1>9, <1>10, <1>11
    DEF Next, HolderStep, SessionEnds, vars, memory

\* No step of a migration, of a renaming or of the removal of a duplicate, and no
\* crash between two of them, destroys the last file of a key (migrateIfNeeded,
\* fixMigratedKeyName), for any keys and any number of requests and failures: all
\* but a failing copy of the old file and a failing write of the active file after
\* a rename.  Its roll-back may meet another request's removal: with three unlocks
\* at once the last file of a key can then go, as fixMigratedKeyName compares two
\* files in one step and removes one of them in a later one.
THEOREM KeyKeptTheorem ==
    ASSUME "copy" \notin Fallible, "write" \notin Fallible, "adopt" \notin Fallible
    PROVE  Spec => KeyKept
  <1>1. Init => KeyInv
    <2> SUFFICES ASSUME Init PROVE KeyInv
      OBVIOUS
    <2>1. HolderInv /\ DuplicateKept
      BY HolderInit DEF Init, DuplicateKept, IdleJob
    <2>2. NobodyPast
      <3>1. CASE OldLayout
        BY <3>1 DEF OldLayout, NobodyPast, Init, IdleJob, Unmigrated
      <3>2. CASE Placeholder
        BY <3>2 DEF Placeholder, NobodyPast, Copied
      <3> QED
        BY <3>1, <3>2 DEF Init
    <2> QED
      BY <2>1, <2>2 DEF KeyInv
  <1>2. KeyInv /\ [Next]_vars => KeyInv'
    BY HolderNext, FilesStep, DuplicateKeptStep, NobodyPastStep DEF KeyInv
  <1>3. KeyInv /\ [Next]_vars => [\A k \in Key : HasFile(k) => HasFile(k)']_vars
    BY FilesStep, StillThere
  <1> QED
    BY <1>1, <1>2, <1>3, PTL DEF Spec, KeyKept

-----------------------------------------------------------------------------
(* One active row.                                                         *)

\* At most one row is active.
OneRow == \A j, k \in Key : row[j] = "active" /\ row[k] = "active" => j = k

LEMMA OneRowStep ==
    ASSUME HolderInv, OneRowComing, [Next]_vars, faults' = 0, crashes' = 0
    PROVE  OneRow' \/ \E c \in Request : job'[c].at \in {"first", "active", "setactive"}
  <1> USE HolderAssumption
  <1> DEFINE P == {"first", "active", "setactive"}
             Coming == \E c \in Request : job'[c].at \in P
  <1>0. job \in [Request -> Job] /\ row \in [Key -> Rows] /\ faults \in Nat /\ crashes \in Nat
    BY DEF HolderInv, IdentityTypeOK
  <1>1. /\ ~CrashAndRestart
        /\ \A c \in Request : ~StepFails(c)
    <2>1. CrashAndRestart => crashes' = crashes + 1
      BY DEF CrashAndRestart
    <2>2. \A c \in Request : StepFails(c) => faults' = faults + 1
      BY Zenon DEF StepFails
    <2> QED
      BY <1>0, <2>1, <2>2
  <1>2. faults = 0 /\ crashes = 0
    <2>1. ASSUME NEW c \in Request, Arrival(c) PROVE UNCHANGED <<faults, crashes>>
      BY <2>1 DEF Arrival, UnlockIdentity, handleUnlock, LockIdentity, handleLogout,
         CreateIdentity, handleCreate, ImportIdentity, handleImport, SwitchIdentity,
         handleSwitchIdentity, Begin
    <2>2. ASSUME NEW c \in Request,
                 \/ Migrate(c) \/ CopyLegacyKey(c) \/ WriteMigratedKey(c) \/ DropLegacyKey(c) \/ MarkActive(c)
                 \/ Resolve(c) \/ LoadAndDecrypt(c) \/ FixMigratedKeyName(c)
                 \/ AdoptName(c) \/ RemoveDuplicate(c) \/ RenameMigrated(c) \/ RollBack(c)
          PROVE  UNCHANGED <<faults, crashes>>
      BY <2>2 DEF Migrate, CopyLegacyKey, WriteMigratedKey, DropLegacyKey, MarkActive, Resolve, LoadAndDecrypt,
         FixMigratedKeyName, AdoptName, RemoveDuplicate, RenameMigrated, RollBack
    <2>3. ASSUME NEW c \in Request,
                 \/ Register(c) \/ SaveKey(c) \/ CountIdentities(c) \/ InsertIdentity(c)
                 \/ OpenKey(c) \/ WriteActive(c) \/ SetActiveIdentity(c)
                 \/ SetKeyPair(c) \/ Lock(c) \/ LookUp(c) \/ KeepInHandler(c)
                 \/ SyncServices(c) \/ RotateSession(c) \/ SessionEnds(c)
          PROVE  UNCHANGED <<faults, crashes>>
      BY <2>3 DEF Register, SaveKey, CountIdentities, InsertIdentity, OpenKey, WriteActive,
         SetActiveIdentity, SetKeyPair, Lock, LookUp, KeepInHandler, SyncServices,
         RotateSession, SessionEnds
    <2>4. UNCHANGED <<faults, crashes>>
      BY <1>1, <2>1, <2>2, <2>3 DEF Next, HolderStep, vars
    <2> QED
      BY <2>4
  <1>3. OneRow \/ \E c \in Request : job[c].at \in P
    BY <1>2 DEF OneRowComing, OneRow
  \* A request that has nothing to deactivate moves and leaves the table alone.
  <1>m. ASSUME NEW c \in Request, NEW j, job' = [job EXCEPT ![c] = j], row' = row,
               job[c].at \notin P \/ j.at \in P
        PROVE  OneRow' \/ Coming
    <2>1. \A d \in Request : d # c => job'[d] = job[d]
      BY <1>0, <1>m
    <2>2. job'[c] = j
      BY <1>0, <1>m
    <2> QED
      BY <1>3, <1>m, <2>1, <2>2 DEF OneRow
  <1>g. ASSUME NEW c \in Request, NEW s \in Steps, Goto(c, s), s \in P PROVE Coming
    <2>1. PICK j \in Job : job' = [job EXCEPT ![c] = j] /\ j.at = s
      BY <1>g, JobAt DEF HolderInv
    <2>2. job'[c].at = s
      BY <1>0, <2>1
    <2> QED
      BY <1>g, <2>2
  <1>4. ASSUME NEW c \in Request, SetActiveIdentity(c) PROVE OneRow'
    BY <1>4 DEF SetActiveIdentity, SetActive, OneRow
  <1>5. ASSUME NEW c \in Request, Register(c) PROVE Coming
    BY <1>5, <1>g DEF Register, Steps, FaultSteps
  <1>6. ASSUME NEW c \in Request, InsertIdentity(c) PROVE Coming
    BY <1>6, <1>g DEF InsertIdentity, Steps, FaultSteps
  <1>7. ASSUME NEW c \in Request, WriteActive(c) PROVE Coming
    BY <1>7, <1>g DEF WriteActive, Steps, FaultSteps
  <1>8. ASSUME NEW c \in Request, Arrival(c) PROVE OneRow' \/ Coming
    <2>1. PICK o \in Ops, k \in Key \cup {NoKey}, s \in {"migrate", "open", "lock"} :
             Begin(c, o, k, s)
      BY <1>8 DEF Arrival, UnlockIdentity, handleUnlock, LockIdentity, handleLogout,
         CreateIdentity, handleCreate, ImportIdentity, handleImport, SwitchIdentity,
         handleSwitchIdentity, Ops
    <2> DEFINE j == [op |-> o, at |-> s, name |-> k, kp |-> k, first |-> FALSE, data |-> NoFile]
    <2>2. job' = [job EXCEPT ![c] = j] /\ row' = row /\ job[c].at \notin P
      BY <2>1 DEF Begin, IdleJob
    <2> HIDE DEF j
    <2> QED
      BY <1>m, <2>2
  <1>9. ASSUME NEW c \in Request,
               \/ Migrate(c) \/ CopyLegacyKey(c) \/ WriteMigratedKey(c) \/ DropLegacyKey(c) \/ MarkActive(c)
               \/ Resolve(c) \/ LoadAndDecrypt(c) \/ FixMigratedKeyName(c)
               \/ AdoptName(c) \/ RemoveDuplicate(c) \/ RenameMigrated(c) \/ RollBack(c)
               \/ SaveKey(c) \/ CountIdentities(c) \/ OpenKey(c)
               \/ SetKeyPair(c) \/ Lock(c) \/ LookUp(c) \/ KeepInHandler(c)
               \/ SyncServices(c) \/ RotateSession(c)
        PROVE  OneRow' \/ Coming
    <2>1. job[c].at \notin P /\ row' = row
      BY <1>9 DEF Migrate, CopyLegacyKey, WriteMigratedKey, DropLegacyKey, MarkActive, Resolve, LoadAndDecrypt,
         FixMigratedKeyName, AdoptName, RemoveDuplicate, RenameMigrated, RollBack, SaveKey,
         CountIdentities, OpenKey, SetKeyPair, Lock, LookUp, KeepInHandler, SyncServices,
         RotateSession, At
    <2>2. \A d \in Request : d # c => job'[d] = job[d]
      BY <1>0, <1>9 DEF Migrate, CopyLegacyKey, WriteMigratedKey, DropLegacyKey, MarkActive, Resolve,
         LoadAndDecrypt, FixMigratedKeyName, AdoptName, RemoveDuplicate, RenameMigrated,
         RollBack, SaveKey, CountIdentities, OpenKey, SetKeyPair, Lock, LookUp,
         KeepInHandler, SyncServices, RotateSession, Goto, End
    <2> QED
      BY <1>3, <2>1, <2>2 DEF OneRow
  <1>10. CASE UNCHANGED <<row, job>>
    BY <1>3, <1>10 DEF OneRow
  <1> QED
    BY <1>1, <1>4, <1>5, <1>6, <1>7, <1>8, <1>9, <1>10 DEF Next, HolderStep, SessionEnds, vars

\* Once no request runs, at most one row of the identities table is active
\* (ensureIdentityRegistered, registerIdentityInDB, SetActiveIdentity), however
\* many requests registered and switched at once.
THEOREM OneActiveRowTheorem == Spec => []OneActiveRow
  <1>1. Init => OneRowComing
    BY DEF Init, OneRowComing
  <1>2. HolderInv /\ OneRowComing /\ [Next]_vars => OneRowComing'
    <2> SUFFICES ASSUME HolderInv, OneRowComing, [Next]_vars, faults' = 0, crashes' = 0
                 PROVE  OneRow' \/ \E c \in Request : job'[c].at \in {"first", "active", "setactive"}
      BY DEF OneRowComing, OneRow
    <2> QED
      BY OneRowStep
  <1>3. OneRowComing => OneActiveRow
    BY DEF OneRowComing, OneActiveRow, Quiet, IdleJob
  <1> QED
    BY <1>1, <1>2, <1>3, HolderInit, HolderNext, PTL DEF Spec

=============================================================================
