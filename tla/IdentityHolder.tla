--------------------------- MODULE IdentityHolder ---------------------------
(***************************************************************************)
(* The identity holder (pkg/identity), the identities table, and the API   *)
(* and web handlers that create, import, unlock, switch and lock an        *)
(* identity.  No lock spans a call of the holder: every file operation,    *)
(* every statement and every use of h.mu is a step, and two requests       *)
(* interleave at all of them.  A key file is abstracted to the key that it *)
(* decrypts to and to whether its bytes are those of the legacy file: a    *)
(* key that is saved again gets a new salt, so other bytes.  Files are     *)
(* replaced by a rename, so a write is one step, and survive a crash.      *)
(***************************************************************************)
EXTENDS Naturals, FiniteSets

CONSTANTS
    Key,            \* key pairs, named by their public key
    NoKey,          \* nil, a missing file, an empty active file
    Legacy,         \* the name "legacy" of a migrated key not yet decrypted
    Request,        \* request slots, each with the session of its browser
    Web,            \* the slots of browsers; the others are API clients
    Fallible,       \* the steps that may fail: a subset of FaultSteps
    MaxCalls,       \* bound: requests that are started
    MaxFaults,      \* bound: failing file operations and statements
    MaxCrashes      \* bound: crashes

FaultSteps == {"copy", "write", "drop", "mark", "dedup", "undup", "rename", "adopt",
               "register", "save", "count", "insert", "first", "active",
               "setactive"}

ASSUME HolderAssumption ==
    /\ NoKey \notin Key /\ Legacy \notin Key /\ NoKey # Legacy
    /\ Web \subseteq Request
    /\ Fallible \subseteq FaultSteps
    /\ MaxCalls \in Nat /\ MaxFaults \in Nat /\ MaxCrashes \in Nat

VARIABLES
    legacy,     \* identity/primary.key
    keyFile,    \* identity/keys/<name>.key
    active,     \* identity/active
    row,        \* the identities table: "none", "inactive" or "active"
    kp,         \* Holder.kp
    apiKp,      \* handlers.Handler.kp
    svcKp,      \* the identity of the services, set by identitySync
    session,    \* the key pair of each browser's web session
    sessionMu,  \* SessionManager.mu: "free", or "stuck" after a panic
    job,        \* the request that each slot is serving
    calls, faults, crashes

disk == <<legacy, keyFile, active>>
memory == <<kp, apiKp, svcKp, session, sessionMu>>
vars == <<disk, row, memory, job, calls, faults, crashes>>

Name == Key \cup {Legacy}
NoFile == [key |-> NoKey, orig |-> FALSE]
File == [key : Key, orig : BOOLEAN] \cup {NoFile}
Original(k) == [key |-> k, orig |-> TRUE]
Fresh(k) == [key |-> k, orig |-> FALSE]
Rows == {"none", "inactive", "active"}

Ops == {"unlock", "create", "import", "switch", "lock"}
Steps == FaultSteps \cup
         {"migrate", "resolve", "load", "fix", "rollback", "open", "setkp",
          "lock", "look", "keep", "sync", "rotate", "idle"}

\* What a call is at and carries; data is what it has read of the legacy file
\* and not yet written.
IdleJob == [op |-> "lock", at |-> "idle", name |-> NoKey,
            kp |-> NoKey, first |-> FALSE, data |-> NoFile]

Job == [op : Ops, at : Steps, name : Name \cup {NoKey},
        kp : Key \cup {NoKey}, first : BOOLEAN, data : File]

At(c, step) == job[c].at = step
Goto(c, step) == job' = [job EXCEPT ![c].at = step]
End(c) == job' = [job EXCEPT ![c] = IdleJob]
Stored == {n \in Name : keyFile[n] # NoFile}

\* LoadEncryptedKey and DecryptPrivateKey with the right passphrase; a wrong
\* one fails.
DecryptsTo(n) == keyFile[n].key

\* SaveEncryptedKey and removeFileAndSync
Written(n, file) == [keyFile EXCEPT ![n] = file]
Removed(n) == [keyFile EXCEPT ![n] = NoFile]

HasFile(k) == legacy.key = k \/ \E n \in Name : keyFile[n].key = k

-----------------------------------------------------------------------------
\* Requests.  Each starts one job; parsing, passphrase length and the
\* storage limit are refused before anything changes.

Begin(c, op, k, step) ==
    /\ job[c] = IdleJob
    /\ calls < MaxCalls
    /\ calls' = calls + 1
    /\ job' = [job EXCEPT ![c] = [op |-> op, at |-> step, name |-> k, kp |-> k,
                                  first |-> FALSE, data |-> NoFile]]
    /\ UNCHANGED <<disk, row, memory, faults, crashes>>

\* A created key is new; an imported one is any the user has a phrase for.
NewKey(k) == ~HasFile(k) /\ \A d \in Request : job[d].kp # k

\* The API.
CreateIdentity(c, k) == c \notin Web /\ NewKey(k) /\ Begin(c, "create", k, "migrate")
ImportIdentity(c, k) == c \notin Web /\ Begin(c, "import", k, "migrate")
UnlockIdentity(c) == c \notin Web /\ Begin(c, "unlock", NoKey, "migrate")
SwitchIdentity(c, k) == c \notin Web /\ Begin(c, "switch", k, "open")
LockIdentity(c) == c \notin Web /\ Begin(c, "lock", NoKey, "lock")

\* currentUser: the browser has a session.
SignedIn(c) == sessionMu = "free" /\ session[c] # NoKey

\* The web pages.
handleCreate(c, k) == c \in Web /\ NewKey(k) /\ Begin(c, "create", k, "migrate")
handleImport(c, k) == c \in Web /\ Begin(c, "import", k, "migrate")
handleUnlock(c) == c \in Web /\ Begin(c, "unlock", NoKey, "migrate")
handleSwitchIdentity(c, k) == c \in Web /\ SignedIn(c) /\ Begin(c, "switch", k, "open")
handleLogout(c) == c \in Web /\ Begin(c, "lock", NoKey, "lock")

-----------------------------------------------------------------------------
\* migrateIfNeeded, whose error every caller drops.

AfterMigration(c) == IF job[c].op = "unlock" THEN "resolve" ELSE "save"

migrationPubkeyHex ==
    IF kp # NoKey THEN kp ELSE IF active # NoKey THEN active ELSE Legacy

Migrate(c) ==
    /\ At(c, "migrate")
    /\ job' = IF legacy = NoFile
              THEN [job EXCEPT ![c].at = AfterMigration(c)]
              ELSE [job EXCEPT ![c].at = "copy", ![c].name = migrationPubkeyHex]
    /\ UNCHANGED <<disk, row, memory, calls, faults, crashes>>

\* Mutant of CopyLegacyKey: a destination that exists is replaced.
CopyOverwriting(c) ==
    /\ At(c, "copy")
    /\ job' = IF legacy = NoFile THEN [job EXCEPT ![c].at = AfterMigration(c)]
              ELSE [job EXCEPT ![c].at = "write", ![c].data = legacy]
    /\ UNCHANGED <<disk, row, memory, calls, faults, crashes>>

\* A destination that exists is left alone; a legacy file that another
\* request has removed meanwhile ends the migration.
CopyLegacyKey(c) ==
    /\ At(c, "copy")
    /\ job' = IF keyFile[job[c].name] # NoFile THEN [job EXCEPT ![c].at = "drop"]
              ELSE IF legacy = NoFile THEN [job EXCEPT ![c].at = AfterMigration(c)]
              ELSE [job EXCEPT ![c].at = "write", ![c].data = legacy]
    /\ UNCHANGED <<disk, row, memory, calls, faults, crashes>>

\* Its writeOwnerOnlyFile, which replaces what is there by now.
WriteMigratedKey(c) ==
    /\ At(c, "write")
    /\ keyFile' = Written(job[c].name, job[c].data)
    /\ job' = [job EXCEPT ![c].at = "drop", ![c].data = NoFile]
    /\ UNCHANGED <<legacy, active, row, memory, calls, faults, crashes>>

DropLegacyKey(c) ==
    /\ At(c, "drop")
    /\ legacy' = NoFile
    /\ Goto(c, "mark")
    /\ UNCHANGED <<keyFile, active, row, memory, calls, faults, crashes>>

MarkActive(c) ==
    /\ At(c, "mark")
    /\ active' = IF job[c].name # Legacy /\ active = NoKey
                 THEN job[c].name ELSE active
    /\ Goto(c, AfterMigration(c))
    /\ UNCHANGED <<legacy, keyFile, row, memory, calls, faults, crashes>>

-----------------------------------------------------------------------------
\* Unlock.

\* resolveActivePubkey: the active file, or the only key there is.
Resolve(c) ==
    /\ At(c, "resolve")
    /\ \/ /\ active # NoKey
          /\ job' = [job EXCEPT ![c].name = active, ![c].at = "load"]
       \/ /\ active = NoKey /\ Cardinality(Stored) = 1
          /\ \E n \in Stored :
                job' = [job EXCEPT ![c].name = n, ![c].at = "load"]
       \/ active = NoKey /\ Cardinality(Stored) # 1 /\ End(c)
    /\ UNCHANGED <<disk, row, memory, calls, faults, crashes>>

\* The key file is missing, the passphrase is wrong, or the key is there.
LoadAndDecrypt(c) ==
    /\ At(c, "load")
    /\ \/ End(c)
       \/ /\ keyFile[job[c].name] # NoFile
          /\ job' = [job EXCEPT ![c].kp = DecryptsTo(job[c].name),
                                ![c].at = "fix"]
    /\ UNCHANGED <<disk, row, memory, calls, faults, crashes>>

\* fixMigratedKeyName, up to its first write: a file under another name is
\* moved, dropped if it is a copy, and refused if a different file of the
\* key is there.
FixMigratedKeyName(c) ==
    /\ At(c, "fix")
    /\ LET old == keyFile[job[c].name]
           new == keyFile[job[c].kp] IN
       IF job[c].name = job[c].kp THEN Goto(c, "register")
       ELSE IF old # NoFile /\ new = NoFile THEN Goto(c, "rename")
       ELSE IF old # NoFile /\ old = new THEN Goto(c, "dedup")
       ELSE End(c)
    /\ UNCHANGED <<disk, row, memory, calls, faults, crashes>>

\* A copy of the file under its own name: active is written, then the
\* duplicate is removed.
AdoptName(c) ==
    /\ At(c, "dedup") \/ At(c, "adopt")
    /\ active' = job[c].kp
    /\ Goto(c, IF At(c, "dedup") THEN "undup" ELSE "register")
    /\ UNCHANGED <<legacy, keyFile, row, memory, calls, faults, crashes>>

RemoveDuplicate(c) ==
    /\ At(c, "undup")
    /\ IF keyFile[job[c].name] = NoFile THEN End(c) ELSE Goto(c, "register")
    /\ keyFile' = Removed(job[c].name)
    /\ UNCHANGED <<legacy, active, row, memory, calls, faults, crashes>>

\* rename(2), which replaces a file created since the comparison.
Renamed(from, to) == [keyFile EXCEPT ![to] = keyFile[from], ![from] = NoFile]

RenameMigrated(c) ==
    /\ At(c, "rename")
    /\ IF keyFile[job[c].name] = NoFile THEN End(c) /\ UNCHANGED keyFile
       ELSE keyFile' = Renamed(job[c].name, job[c].kp) /\ Goto(c, "adopt")
    /\ UNCHANGED <<legacy, active, row, memory, calls, faults, crashes>>

\* Mutant of RollBack: the new name is removed instead.
RollBackByRemoval(c) ==
    /\ At(c, "rollback")
    /\ keyFile' = Removed(job[c].kp)
    /\ End(c)
    /\ UNCHANGED <<legacy, active, row, memory, calls, faults, crashes>>

\* The rename is undone when active cannot be written.
RollBack(c) ==
    /\ At(c, "rollback")
    /\ keyFile' = IF keyFile[job[c].kp] = NoFile THEN keyFile
                  ELSE Renamed(job[c].kp, job[c].name)
    /\ End(c)
    /\ UNCHANGED <<legacy, active, row, memory, calls, faults, crashes>>

\* InsertIdentity ignores a row that exists.
Inserted(k, status) == [row EXCEPT ![k] = IF @ = "none" THEN status ELSE @]

\* Mutant of SetActive: the others stay active.
SetActiveOnly(k) == [j \in Key |-> IF row[j] # "none" /\ j = k THEN "active" ELSE row[j]]

\* SetActiveIdentity, a transaction: an unknown key leaves no row active.
SetActive(k) == [j \in Key |-> IF row[j] = "none" THEN "none"
                               ELSE IF j = k THEN "active" ELSE "inactive"]

\* ensureIdentityRegistered
Register(c) ==
    /\ At(c, "register")
    /\ row' = Inserted(job[c].kp, "active")
    /\ Goto(c, "setactive")
    /\ UNCHANGED <<disk, memory, calls, faults, crashes>>

-----------------------------------------------------------------------------
\* CreateAndSave, ImportAndSave and SwitchIdentity of the holder.

SaveKey(c) ==
    /\ At(c, "save")
    /\ keyFile' = Written(job[c].kp, Fresh(job[c].kp))
    /\ Goto(c, "count")
    /\ UNCHANGED <<legacy, active, row, memory, calls, faults, crashes>>

\* registerIdentityInDB
CountIdentities(c) ==
    /\ At(c, "count")
    /\ job' = [job EXCEPT ![c].first = \A k \in Key : row[k] = "none",
                          ![c].at = "insert"]
    /\ UNCHANGED <<disk, row, memory, calls, faults, crashes>>

InsertIdentity(c) ==
    /\ At(c, "insert")
    /\ row' = Inserted(job[c].kp, IF job[c].first THEN "active" ELSE "inactive")
    /\ Goto(c, IF job[c].first THEN "first" ELSE "active")
    /\ UNCHANGED <<disk, memory, calls, faults, crashes>>

\* The key file to switch to is missing, the passphrase is wrong, or the
\* key pair is the one in the file.
OpenKey(c) ==
    /\ At(c, "open")
    /\ \/ End(c)
       \/ /\ keyFile[job[c].name] # NoFile
          /\ job' = [job EXCEPT ![c].kp = DecryptsTo(job[c].name),
                                ![c].at = "active"]
    /\ UNCHANGED <<disk, row, memory, calls, faults, crashes>>

\* A switch names the identity by the request, the others by the key pair.
Target(c) == IF job[c].op = "switch" THEN job[c].name ELSE job[c].kp

WriteActive(c) ==
    /\ At(c, "active")
    /\ active' = Target(c)
    /\ Goto(c, "setactive")
    /\ UNCHANGED <<legacy, keyFile, row, memory, calls, faults, crashes>>

SetActiveIdentity(c) ==
    /\ At(c, "first") \/ At(c, "setactive")
    /\ row' = SetActive(Target(c))
    /\ Goto(c, IF At(c, "first") THEN "active" ELSE "setkp")
    /\ UNCHANGED <<disk, memory, calls, faults, crashes>>

\* The critical section that ends a call of the holder.
SetKeyPair(c) ==
    /\ At(c, "setkp")
    /\ kp' = job[c].kp
    /\ Goto(c, "look")
    /\ UNCHANGED <<disk, row, apiKp, svcKp, session, sessionMu, calls, faults, crashes>>

Lock(c) ==
    /\ At(c, "lock")
    /\ kp' = NoKey
    /\ Goto(c, "look")
    /\ UNCHANGED <<disk, row, apiKp, svcKp, session, sessionMu, calls, faults, crashes>>

-----------------------------------------------------------------------------
\* The handlers after the call: the key pair is passed on to the services.
\* The web handlers and the switch of the API read it again from the
\* holder, the others of the API pass on their own (nil for a lock).
LookUp(c) ==
    /\ At(c, "look")
    /\ job' = [job EXCEPT ![c].at = IF c \in Web THEN "sync" ELSE "keep",
                          ![c].name = IF c \in Web \/ job[c].op = "switch"
                                      THEN kp ELSE job[c].kp]
    /\ UNCHANGED <<disk, row, memory, calls, faults, crashes>>

\* updateIdentity keeps the pair in the API handler before the callback.
KeepInHandler(c) ==
    /\ At(c, "keep")
    /\ apiKp' = job[c].name
    /\ Goto(c, "sync")
    /\ UNCHANGED <<disk, row, kp, svcKp, session, sessionMu, calls, faults, crashes>>

\* identitySync, one call at a time.
SyncServices(c) ==
    /\ At(c, "sync")
    /\ svcKp' = job[c].name
    /\ IF c \in Web THEN Goto(c, "rotate") ELSE End(c)
    /\ UNCHANGED <<disk, row, kp, apiKp, session, sessionMu, calls, faults, crashes>>

\* RotateForRequest.  A web switch passes what the holder has by now, and
\* Create panics on nil between Lock and Unlock; the router recovers.  A
\* logout destroys the session.
RotateSession(c) ==
    /\ At(c, "rotate")
    /\ sessionMu = "free"
    /\ LET pair == IF job[c].op = "switch" THEN kp ELSE job[c].kp
           panics == pair = NoKey /\ job[c].op # "lock" IN
       /\ sessionMu' = IF panics THEN "stuck" ELSE "free"
       /\ session' = IF panics THEN session ELSE [session EXCEPT ![c] = pair]
    /\ End(c)
    /\ UNCHANGED <<disk, row, kp, apiKp, svcKp, calls, faults, crashes>>

-----------------------------------------------------------------------------

\* A failing step.  The errors of the migration, of the statements and of
\* writing active for a new key are dropped; the others end the call.
AfterFault(c) ==
    CASE At(c, "copy") \/ At(c, "write") \/ At(c, "mark") -> AfterMigration(c)
      [] At(c, "drop") -> "mark"
      [] At(c, "adopt") -> "rollback"
      [] At(c, "register") -> "setactive"
      [] At(c, "count") -> "insert"
      [] At(c, "insert") -> IF job[c].first THEN "first" ELSE "active"
      [] At(c, "first") -> "active"
      [] At(c, "setactive") -> "setkp"
      [] At(c, "active") /\ job[c].op # "switch" -> "setactive"
      [] OTHER -> "idle"

StepFails(c) ==
    /\ job[c].at \in Fallible
    /\ faults < MaxFaults
    /\ faults' = faults + 1
    /\ job' = IF AfterFault(c) = "idle" THEN [job EXCEPT ![c] = IdleJob]
              ELSE [job EXCEPT ![c].at = AfterFault(c),
                               ![c].first = @ \/ At(c, "count"), ![c].data = NoFile]
    /\ UNCHANGED <<disk, row, memory, calls, crashes>>

\* Sessions end with age, or by eviction of the oldest.
SessionEnds(c) ==
    /\ sessionMu = "free"
    /\ session[c] # NoKey
    /\ session' = [session EXCEPT ![c] = NoKey]
    /\ UNCHANGED <<disk, row, kp, apiKp, svcKp, sessionMu, job, calls, faults, crashes>>

\* The files and the table survive; the node restarts locked.
CrashAndRestart ==
    /\ crashes < MaxCrashes
    /\ crashes' = crashes + 1
    /\ kp' = NoKey /\ apiKp' = NoKey /\ svcKp' = NoKey
    /\ session' = [c \in Request |-> NoKey]
    /\ sessionMu' = "free"
    /\ job' = [c \in Request |-> IdleJob]
    /\ UNCHANGED <<disk, row, calls, faults>>

HolderStep(c) ==
    \/ Migrate(c) \/ CopyLegacyKey(c) \/ WriteMigratedKey(c) \/ DropLegacyKey(c) \/ MarkActive(c)
    \/ Resolve(c) \/ LoadAndDecrypt(c) \/ FixMigratedKeyName(c)
    \/ AdoptName(c) \/ RemoveDuplicate(c) \/ RenameMigrated(c) \/ RollBack(c)
    \/ Register(c) \/ SaveKey(c) \/ CountIdentities(c) \/ InsertIdentity(c)
    \/ OpenKey(c) \/ WriteActive(c) \/ SetActiveIdentity(c)
    \/ SetKeyPair(c) \/ Lock(c) \/ LookUp(c) \/ KeepInHandler(c)
    \/ SyncServices(c) \/ RotateSession(c)

\* A new installation, or one of the old layout.
OldLayout ==
    /\ legacy \in {NoFile} \cup {Original(k) : k \in Key}
    /\ keyFile = [n \in Name |-> NoFile]
    /\ active = NoKey

\* A migrated placeholder that is active, alone or beside a file of its key.
Placeholder ==
    \E k \in Key : \E file \in {NoFile, Original(k), Fresh(k)} :
        /\ legacy = NoFile
        /\ keyFile = [n \in Name |-> IF n = Legacy THEN Original(k)
                                     ELSE IF n = k THEN file ELSE NoFile]
        /\ active = Legacy

Init ==
    /\ OldLayout \/ Placeholder
    /\ row = [k \in Key |-> "none"]
    /\ kp = NoKey /\ apiKp = NoKey /\ svcKp = NoKey
    /\ session = [c \in Request |-> NoKey]
    /\ sessionMu = "free"
    /\ job = [c \in Request |-> IdleJob]
    /\ calls = 0 /\ faults = 0 /\ crashes = 0

Arrival(c) ==
    \/ UnlockIdentity(c) \/ handleUnlock(c) \/ LockIdentity(c) \/ handleLogout(c)
    \/ \E k \in Key : \/ CreateIdentity(c, k) \/ handleCreate(c, k)
                      \/ ImportIdentity(c, k) \/ handleImport(c, k)
                      \/ SwitchIdentity(c, k) \/ handleSwitchIdentity(c, k)

Next ==
    \/ \E c \in Request : Arrival(c) \/ HolderStep(c) \/ StepFails(c) \/ SessionEnds(c)
    \/ CrashAndRestart

Spec == Init /\ [][Next]_vars

-----------------------------------------------------------------------------

\* The files, the table, the key pairs in memory and the requests keep their types.
IdentityTypeOK ==
    /\ legacy \in File /\ keyFile \in [Name -> File]
    /\ active \in Name \cup {NoKey}
    /\ row \in [Key -> Rows]
    /\ kp \in Key \cup {NoKey}
    /\ apiKp \in Key \cup {NoKey}
    /\ svcKp \in Key \cup {NoKey}
    /\ session \in [Request -> Key \cup {NoKey}]
    /\ sessionMu \in {"free", "stuck"}
    /\ job \in [Request -> Job]
    /\ calls \in 0..MaxCalls /\ faults \in 0..MaxFaults /\ crashes \in 0..MaxCrashes

\* A key that is on the disk stays on the disk: neither the migration, the
\* renaming of a migrated file, its roll-back, the removal of a duplicate nor
\* a crash between two of their steps destroys the last file of a key, with
\* two requests migrating and renaming at once.
KeyKept == [][\A k \in Key : HasFile(k) => HasFile(k)']_vars

\* A key file decrypts to the key it is named after.  SwitchIdentity relies
\* on it: it takes the key pair out of the file and marks the name active.
\* A migration names the legacy file after the pair in memory or the active
\* file, which need not be its key.
NamesHonest == \A k \in Key : keyFile[k].key \in {k, NoKey}

Quiet == \A c \in Request : job[c] = IdleJob

\* Once no request runs, at most one row of the table is active: a new row
\* is inserted as active by the first identity and by an unlock, and the
\* transaction that deactivates the others is a later step, so that two
\* requests have several rows active in between.
OneActiveRow ==
    Quiet /\ faults = 0 /\ crashes = 0 =>
        \A j, k \in Key : row[j] = "active" /\ row[k] = "active" => j = k
=============================================================================
