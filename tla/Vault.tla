--------------------------------- MODULE Vault ---------------------------------
(***************************************************************************)
(* The vault: a directory with a header and one sealed record per secret,  *)
(* the derived key in the memory of the process, and the change of the     *)
(* master password, which seals every record again and swaps directories.  *)
(* Translated from internal/modules/vault: domain.go, rekey.go, service.go.*)
(*                                                                         *)
(* A key stands for its password, salt and vault id; a record opens under  *)
(* the key it was sealed with.  A write of a file is one step, as its      *)
(* rename is.  Files in secrets/ that are not records are left out.        *)
(***************************************************************************)
EXTENDS Integers

CONSTANTS
    Procs,       \* goroutines that call the vault
    Names,       \* names of secrets
    MaxKeys,     \* bound: keys derived
    MaxSets,     \* bound: values set
    Alone,       \* "rekey": a change of the password runs by itself; "lock": no lock
                 \* comes between a set's session() and its seal()
    Crashes,     \* steps of a re-key at which the program may stop
    Failures     \* steps of the swap that may fail

ASSUME BoundsAssumption == MaxKeys \in Nat /\ MaxSets \in Nat

VARIABLES
    live,        \* vault.json and secrets/
    stage,       \* the same in .rekey.tmp
    backup,      \* the same in .rekey.bak
    head,        \* Vault.head, by its key; NoKey if the service has no vault open
    held,        \* Vault.key; NoKey while locked
    call,        \* call[g]: the call goroutine g is in
    keys,        \* number of keys derived so far
    sets         \* number of values set so far

disk == <<live, stage, backup>>
vars == <<disk, head, held, call, keys, sets>>

Keys   == 1 .. MaxKeys
Values == 1 .. MaxSets
NoKey  == 0
Zeroed == -1             \* what a key slice holds after zero()
NoRecord == [key |-> NoKey, value |-> 0]
Records  == {NoRecord} \cup [key : Keys \cup {Zeroed}, value : Values]

\* secrets tells whether the directory secrets/ is there.
Place     == [header : Keys \cup {NoKey}, secrets : BOOLEAN, recs : [Names -> Records]]
NoRecords == [n \in Names |-> NoRecord]
Nothing   == [header |-> NoKey, secrets |-> FALSE, recs |-> NoRecords]

Idle == [step |-> "idle"]
Go(g, c) == call' = [call EXCEPT ![g] = c]
Busy(h)  == call[h].step # "idle"
Quiet    == \A h \in Procs : ~ Busy(h)

RekeySteps == {"list", "read", "clear", "stage", "old", "oldheader", "new", "newheader", "clean", "install"}
Rekeying(h) == call[h].step \in RekeySteps

\* A call of this kind starts on g: by itself, or beside the others.
Start(g, kind, c) ==
    /\ ~ Busy(g)
    /\ kind \in Alone => Quiet
    /\ \A h \in Procs : Rekeying(h) => "rekey" \notin Alone
    /\ Go(g, c)

----------------------------------------------------------------------------
(* Create, open, unlock, lock *)

\* The panel offers to create a vault when there is no header.
Create ==
    /\ head = NoKey /\ live.header = NoKey
    /\ keys < MaxKeys
    /\ keys' = keys + 1
    /\ live' = [live EXCEPT !.header = keys', !.secrets = TRUE]
    /\ head' = keys' /\ held' = keys'
    /\ UNCHANGED <<stage, backup, call, sets>>

\* The service opens the vault it finds.
Open ==
    /\ head = NoKey /\ live.header # NoKey
    /\ head' = live.header
    /\ UNCHANGED <<disk, held, call, keys, sets>>

\* Unlock derives a key from a copy of the header, without the lock, ...
Unlock(g) ==
    /\ head # NoKey /\ held = NoKey
    /\ Start(g, "unlock", [step |-> "derived", key |-> head])
    /\ UNCHANGED <<disk, head, held, keys, sets>>

\* ... and installs it unless another unlock was first.
Unlocked(g) ==
    /\ call[g].step = "derived"
    /\ held' = IF held = NoKey THEN call[g].key ELSE held
    /\ Go(g, Idle)
    /\ UNCHANGED <<disk, head, keys, sets>>

\* zero() overwrites the slice that the calls in flight share.
WithZeroedKey(c) ==
    [h \in Procs |-> IF c[h].step \in {"seal", "list", "read"} THEN [c[h] EXCEPT !.key = Zeroed] ELSE c[h]]

\* By the user or by the idle timer.
Lock ==
    /\ held # NoKey
    /\ "lock" \in Alone => \A h \in Procs : call[h].step # "seal"
    /\ held' = NoKey
    /\ call' = WithZeroedKey(call)
    /\ UNCHANGED <<disk, head, keys, sets>>

----------------------------------------------------------------------------
(* Set and delete *)

\* session(): the key is taken, the lock is given back.
Set(g, n) ==
    /\ held # NoKey
    /\ sets < MaxSets
    /\ sets' = sets + 1
    /\ Start(g, "set", [step |-> "seal", name |-> n, key |-> held, value |-> sets'])
    /\ UNCHANGED <<disk, head, held, keys>>

\* The lock of a name is held from sealing to the end of the write.
NameFree(n) == \A h \in Procs : call[h].step = "write" => call[h].name # n

Seal(g) ==
    /\ call[g].step = "seal"
    /\ NameFree(call[g].name)
    /\ Go(g, [step |-> "write", name |-> call[g].name,
              rec |-> [key |-> call[g].key, value |-> call[g].value]])
    /\ UNCHANGED <<disk, head, held, keys, sets>>

\* writeJSON makes the directory when it is not there.
Write(g) ==
    /\ call[g].step = "write"
    /\ live' = [live EXCEPT !.secrets = TRUE, !.recs[call[g].name] = call[g].rec]
    /\ Go(g, Idle)
    /\ UNCHANGED <<stage, backup, head, held, keys, sets>>

Delete(g, n) ==
    /\ held # NoKey
    /\ Start(g, "delete", [step |-> "remove", name |-> n])
    /\ UNCHANGED <<disk, head, held, keys, sets>>

Remove(g) ==
    /\ call[g].step = "remove"
    /\ NameFree(call[g].name)
    /\ live' = [live EXCEPT !.recs[call[g].name] = NoRecord]
    /\ Go(g, Idle)
    /\ UNCHANGED <<stage, backup, head, held, keys, sets>>

----------------------------------------------------------------------------
(* ChangePassword *)

\* The old password is right; the panel runs one change at a time.
ChangePassword(g) ==
    /\ held # NoKey
    /\ keys < MaxKeys
    /\ \A h \in Procs : ~ Rekeying(h)
    /\ keys' = keys + 1
    /\ Start(g, "rekey", [step |-> "list", key |-> held, new |-> keys'])
    /\ UNCHANGED <<disk, head, held, sets>>

\* snapshot(): the names, then record by record.
List(g) ==
    /\ call[g].step = "list"
    /\ Go(g, [step |-> "read", key |-> call[g].key, new |-> call[g].new,
              plain |-> [n \in Names |-> 0],
              todo |-> {n \in Names : live.recs[n] # NoRecord}])
    /\ UNCHANGED <<disk, head, held, keys, sets>>

Read(g, n) ==
    LET rec == live.recs[n] IN
    /\ call[g].step = "read"
    /\ n \in call[g].todo
    /\ IF rec # NoRecord /\ rec.key = call[g].key
       THEN Go(g, [step |-> "read", key |-> call[g].key, new |-> call[g].new,
                   plain |-> [call[g].plain EXCEPT ![n] = rec.value], todo |-> call[g].todo \ {n}])
       ELSE Go(g, Idle)                  \* unreadable: the whole change is given up
    /\ UNCHANGED <<disk, head, held, keys, sets>>

\* reseal() works in memory.
Reseal(g) ==
    /\ call[g].step = "read"
    /\ call[g].todo = {}
    /\ Go(g, [step |-> "clear", new |-> call[g].new, plain |-> call[g].plain])
    /\ UNCHANGED <<disk, head, held, keys, sets>>

Sealed(k, plain) ==
    [n \in Names |-> IF plain[n] = 0 THEN NoRecord ELSE [key |-> k, value |-> plain[n]]]

\* swapIn(): what an earlier change left behind goes, ...
Clear(g) ==
    /\ call[g].step = "clear"
    /\ stage' = Nothing /\ backup' = Nothing /\ live' = live
    /\ Go(g, [step |-> "stage", new |-> call[g].new, plain |-> call[g].plain])
    /\ UNCHANGED <<head, held, keys, sets>>

\* ... the new vault is written beside the old one, ...
Stage(g) ==
    /\ call[g].step = "stage"
    /\ stage' = [header  |-> call[g].new, secrets |-> TRUE,
                 recs    |-> Sealed(call[g].new, call[g].plain)]
    /\ Go(g, [step |-> "old", new |-> call[g].new])
    /\ UNCHANGED <<live, backup, head, held, keys, sets>>

Advance(g, s) == Go(g, [step |-> s, new |-> call[g].new]) /\ UNCHANGED <<head, held, keys, sets>>

\* ... the old one is moved aside, directory and header, ...
MoveOld(g) ==
    /\ call[g].step = "old"
    /\ backup' = [backup EXCEPT !.secrets = live.secrets, !.recs = live.recs]
    /\ live' = [live EXCEPT !.secrets = FALSE, !.recs = NoRecords]
    /\ stage' = stage
    /\ Advance(g, "oldheader")

MoveOldHeader(g) ==
    /\ call[g].step = "oldheader"
    /\ backup' = [backup EXCEPT !.header = live.header]
    /\ live' = [live EXCEPT !.header = NoKey]
    /\ stage' = stage
    /\ Advance(g, "new")

\* ... and the new one into place.  A directory is not renamed over records.
MoveNew(g) ==
    /\ call[g].step = "new"
    /\ live.recs = NoRecords
    /\ live' = [live EXCEPT !.secrets = TRUE, !.recs = stage.recs]
    /\ stage' = [stage EXCEPT !.secrets = FALSE, !.recs = NoRecords]
    /\ backup' = backup
    /\ Advance(g, "newheader")

MoveNewHeader(g) ==
    /\ call[g].step = "newheader"
    /\ live' = [live EXCEPT !.header = stage.header]
    /\ stage' = [stage EXCEPT !.header = NoKey]
    /\ backup' = backup
    /\ Advance(g, "clean")

Clean(g) ==
    /\ call[g].step = "clean"
    /\ stage' = Nothing /\ backup' = Nothing /\ live' = live
    /\ Advance(g, "install")

\* Mutant: the secrets come back, the header does not.
RestoreSecrets(l) ==
    /\ live' = [l EXCEPT !.secrets = backup.secrets, !.recs = backup.recs]
    /\ backup' = [backup EXCEPT !.secrets = FALSE, !.recs = NoRecords]

\* Mutant: the header comes back, the secrets do not.
RestoreHeader(l) ==
    /\ live' = [l EXCEPT !.header = IF backup.header # NoKey THEN backup.header ELSE @]
    /\ backup' = [backup EXCEPT !.header = NoKey]

\* restore() with live files l: secrets/, unless records are in its way, then the
\* header.
Restore(l) ==
    LET back == backup.secrets /\ l.recs = NoRecords IN
    /\ live' = [header  |-> IF backup.header # NoKey THEN backup.header ELSE l.header,
                secrets |-> back \/ l.secrets,
                recs    |-> IF back THEN backup.recs ELSE l.recs]
    /\ backup' = IF back THEN Nothing ELSE [backup EXCEPT !.header = NoKey]

\* A step of the swap fails.  The first rename needs no restore, the last one
\* throws the new secrets away before; a backup that stays behind fails the call
\* with the new vault in place.
Undo(g) ==
    LET s == call[g].step IN
    /\ \/ s \in Failures
       \/ s = "new" /\ live.recs # NoRecords
    /\ \/ s \in {"old", "clean"} /\ UNCHANGED <<live, backup>>
       \/ s \in {"oldheader", "new"} /\ Restore(live)
       \/ s = "newheader" /\ Restore([live EXCEPT !.secrets = FALSE, !.recs = NoRecords])
    /\ stage' = Nothing
    /\ Go(g, Idle)
    /\ UNCHANGED <<head, held, keys, sets>>

\* Mutant: the new header is remembered, the key is not.
InstallHeader(g) ==
    /\ call[g].step = "install"
    /\ head' = call[g].new
    /\ call' = [WithZeroedKey(call) EXCEPT ![g] = Idle]
    /\ UNCHANGED <<disk, held, keys, sets>>

\* The old key is zeroed, the new one and its header replace it.
Install(g) ==
    /\ call[g].step = "install"
    /\ held' = call[g].new /\ head' = call[g].new
    /\ call' = [WithZeroedKey(call) EXCEPT ![g] = Idle]
    /\ UNCHANGED <<disk, keys, sets>>

\* An error of a call that has not begun to swap: it returns.
GiveUp(g) ==
    /\ call[g].step \in {"write", "remove", "list", "read", "clear", "stage"}
    /\ Go(g, Idle)
    /\ UNCHANGED <<disk, head, held, keys, sets>>

\* The program stops; its next start opens the vault again.
Crash ==
    /\ head # NoKey
    /\ \A h \in Procs : Rekeying(h) => call[h].step \in Crashes
    /\ head' = NoKey /\ held' = NoKey
    /\ call' = [h \in Procs |-> Idle]
    /\ UNCHANGED <<disk, keys, sets>>

----------------------------------------------------------------------------

Init ==
    /\ live = Nothing /\ stage = Nothing /\ backup = Nothing
    /\ head = NoKey /\ held = NoKey
    /\ call = [h \in Procs |-> Idle]
    /\ keys = 0 /\ sets = 0

Step(g) ==
    \/ Unlock(g) \/ Unlocked(g) \/ Seal(g) \/ Write(g) \/ Remove(g)
    \/ \E n \in Names : Set(g, n) \/ Delete(g, n) \/ Read(g, n)
    \/ ChangePassword(g) \/ List(g) \/ Reseal(g) \/ Clear(g) \/ Stage(g)
    \/ MoveOld(g) \/ MoveOldHeader(g) \/ MoveNew(g) \/ MoveNewHeader(g)
    \/ Clean(g) \/ Undo(g) \/ Install(g) \/ GiveUp(g)

Next == Create \/ Open \/ Lock \/ Crash \/ \E g \in Procs : Step(g)

Spec == Init /\ [][Next]_vars

----------------------------------------------------------------------------
(* Properties *)

Call == [step : {"idle"}]
    \cup [step : {"derived"}, key : Keys]
    \cup [step : {"seal"}, name : Names, key : Keys \cup {Zeroed}, value : Values]
    \cup [step : {"write"}, name : Names, rec : Records]
    \cup [step : {"remove"}, name : Names]
    \cup [step : {"list"}, key : Keys \cup {Zeroed}, new : Keys]
    \cup [step : {"read"}, key : Keys \cup {Zeroed}, new : Keys,
          plain : [Names -> {0} \cup Values], todo : SUBSET Names]
    \cup [step : {"clear", "stage"}, new : Keys, plain : [Names -> {0} \cup Values]]
    \cup [step : {"old", "oldheader", "new", "newheader", "clean", "install"}, new : Keys]

TypeInv ==
    /\ live \in Place /\ stage \in Place /\ backup \in Place
    /\ head \in Keys \cup {NoKey}
    /\ held \in Keys \cup {NoKey}
    /\ call \in [Procs -> Call]
    /\ keys \in 0 .. MaxKeys
    /\ sets \in 0 .. MaxSets

\* The vault the directory holds: a part that a swap has moved aside is in the backup.
CurrentHeader == IF live.header # NoKey THEN live.header ELSE backup.header

CurrentRecs == IF live.header # NoKey /\ live.secrets
               THEN live.recs ELSE backup.recs

\* What a record shows under the header's key; one under another key is no value.
Shown(rec) == IF rec = NoRecord THEN 0 ELSE IF rec.key = CurrentHeader THEN rec.value ELSE -1

Store == INSTANCE SecretStore
            WITH key <- CurrentHeader, secrets <- [n \in Names |-> Shown(CurrentRecs[n])]

\* The vault is a store: an operation happens at once or not at all, a change of
\* the password loses, revives or garbles no secret, and neither a crash, a lock
\* nor a failed rename changes anything ("safe for concurrent use", Vault).
IsStore == Store!Spec

\* An unlocked vault has the key the files are under once its calls are over: a
\* change of the password replaces header and key in memory as it does on disk.
HeldOpens == Quiet /\ held # NoKey => held = live.header /\ head = held

\* A crash leaves the old vault or the new one (ChangePassword): the next start
\* finds a header with its records beside it.
CrashLeavesAVault ==
    head = NoKey /\ keys > 0 => live.header # NoKey /\ live.secrets
=============================================================================
