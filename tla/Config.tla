------------------------------- MODULE Config --------------------------------
(***************************************************************************)
(* The profiles of one installation, the manager that caches the active    *)
(* one, and what the application builds on it: the folder its template     *)
(* manager was made for and the folder its journal follows.  Translated    *)
(* from internal/modules/config, with internal/app/app.go and the template *)
(* observers it registers.                                                 *)
(*                                                                         *)
(* A call is the list of the steps it has still to make; each step is what *)
(* the code does under one lock, or one read or write of a file.  Calls of *)
(* the front end and of the observers run in goroutines of their own.      *)
(***************************************************************************)
EXTENDS Integers, Sequences

CONSTANTS
    Profiles, Default,      \* profile files; user.json
    Folders, Home,          \* context folders; that of a new profile
    Templates, Stocked,     \* template files; the folders that start with all of them
    Threads,                \* goroutines
    None,                   \* no file, no value
    Unset,                  \* enabled_templates is null
    MaxCalls,               \* bound: calls and restarts
    Failures,               \* steps whose file access may fail
    Exposed                 \* what may happen besides, see the README

ASSUME NamesAssumption ==
    /\ Default \in Profiles /\ Home \in Folders /\ Stocked \subseteq Folders
    /\ None \notin Profiles \cup Folders \cup Threads
    /\ \A S \in SUBSET Templates : Unset # S
ASSUME BoundAssumption == MaxCalls \in Nat

VARIABLES
    disk,           \* config/<profile>
    pointer,        \* config/.boot.json
    legacy,         \* config/boot.json of an old installation
    files,          \* the templates of each context folder
    path,           \* Manager.configPath
    cached,         \* Manager.cached
    updateMu,       \* the goroutine that holds it
    follows,        \* the folder the journal was configured with
    root,           \* the folder the application's managers were built for
    call,           \* the calls under way, with their locals
    calls,          \* how many there were
    due,            \* history: what updates and imports, one by one, make of a file
    chosen,         \* history: the profile the user switched to last
    curated         \* history: the profiles whose templates the user has chosen

memory == <<path, cached, updateMu, follows, root>>
vars == <<disk, pointer, legacy, files, memory, call, calls, due, chosen, curated>>

\* A profile: its context folder, the templates enabled in it, any other setting
\* (by the call that set it), and whether the file has all the keys it should.
Configs == [folder : Folders, on : {Unset} \cup SUBSET Templates,
            note : 0 .. MaxCalls, whole : BOOLEAN]
Malformed == [folder |-> None]

ASSUME NoneAssumption == None \notin Configs /\ None # Malformed

defaultConfig == [folder |-> Home, on |-> Unset, note |-> 0, whole |-> TRUE]

\* parseUserConfig: what it makes of a file, and rewrites when it was incomplete.
parseUserConfig(c) == [c EXCEPT !.whole = TRUE]

Shown(c) == IF c.on = Unset THEN {} ELSE c.on

\* What an update asks for, applied to a profile.
Patched(x, c) ==
    CASE x.key \in {"note", "history"} -> [c EXCEPT !.note = x.to]
      [] x.key = "folder" -> [c EXCEPT !.folder = x.to]
      [] x.key = "seed"   -> [c EXCEPT !.on = x.to]
      [] x.key = "show"   -> [c EXCEPT !.on = Shown(c) \cup {x.to}]
      [] x.key = "hide"   -> [c EXCEPT !.on = Shown(c) \ {x.to}]
      [] x.key = "enable" -> IF Shown(c) = {} THEN c ELSE [c EXCEPT !.on = @ \cup {x.to}]
      [] x.key = "prune"  -> IF Shown(c) = {} THEN c ELSE [c EXCEPT !.on = @ \cap x.to]

\* AutoEnableNewTemplate and PruneEnabledTemplates write only what they change.
Mutations == {"enable", "prune"}

\* A snapshot of the history owns its stack and none of the settings beside it.
Owed(x, c) == IF x.key = "history" THEN c ELSE Patched(x, c)

----------------------------------------------------------------------------
(* Calls *)

NoPatch == [key |-> "note", to |-> 0]
Idle == [kind |-> "none", todo |-> <<>>, to |-> None, patch |-> NoPatch,
         at |-> None, got |-> None]

At(g, step) == call[g].todo # <<>> /\ Head(call[g].todo) = step
Drop(n, s)  == SubSeq(s, n + 1, Len(s))

\* g goes on after n of its steps.
Go(g, n)      == [call[g] EXCEPT !.todo = Drop(n, @)]
Becomes(g, c) == call' = [call EXCEPT ![g] = IF c.todo = <<>> THEN Idle ELSE c]

Load == <<"look", "read", "keep", "sync">>

\* Mutant: an update reads before it takes the lock.
UpdateReadsFirst == Load \o <<"lock", "write", "swap", "sync", "unlock">>

Update == <<"lock">> \o Load \o <<"write", "swap", "sync", "unlock">>
Seed   == Load \o <<"seed">>

\* Mutant: the switch moves before the pointer is written.
TurnFirst == <<"lock", "turn", "point", "ensure", "unlock">>

\* Mutant: the switch still holds the lock when it seeds.
TurnHolding == <<"lock", "point", "turn", "ensure">>

Turn == <<"lock", "point", "turn", "ensure", "unlock">>

Program(kind) ==
    CASE kind = "boot"      -> <<"migrate", "unlegacy", "resolve", "ensure">> \o Load \o <<"build">> \o Seed
      [] kind = "load"      -> Load
      [] kind \in {"update", "folder"} -> Update
      [] kind = "history"   -> Load \o <<"snapshot">> \o Update
      [] kind = "switch"    -> Turn \o Seed \o Load
      [] kind = "list"      -> <<"list">> \o Load \o <<"scoped">> \o Update \o Load
      [] kind = "create"    -> <<"create">> \o Update
      [] kind = "remove"    -> <<"erase">> \o Load \o <<"scoped", "list">> \o Update \o Load
      [] kind = "import"    -> <<"copy", "parse", "fill", "forget">>
      [] kind = "delete"    -> <<"check", "discard">>

Busy(g) == call[g].kind # "none"
Idling  == \A g \in Threads : ~ Busy(g)
Running == root # None /\ \A g \in Threads : call[g].kind # "boot"

\* Of the calls whose meeting the code does not survive, one at a time.
Apart(kinds) == \A h \in Threads : call[h].kind \notin kinds
Moves == {"switch", "import", "folder"}
Lists == {"list", "create", "remove"}
Picks == {"show", "hide"}   \* what updates do to the list of templates, for the user

MayStart(kind, to, patch) ==
    /\ "import" \notin Exposed => Apart({"import"}) /\ (kind = "import" => Idling)
    /\ "delete" \notin Exposed => Apart({"delete"}) /\ (kind = "delete" => Idling)
    /\ "history" \notin Exposed => Apart({"history"}) /\ (kind = "history" => Idling)
    /\ "list" \notin Exposed => IF kind \in Lists THEN Apart(Lists \cup Moves)
                                ELSE kind \in Moves => Apart(Lists)
    /\ "moved" \notin Exposed /\ kind \in Lists => disk[path] \in Configs /\ disk[path].folder = root
    /\ "damaged" \notin Exposed /\ kind = "switch" => disk[to] # Malformed
    /\ "back" \notin Exposed /\ kind = "switch" => Apart({"switch"})
    /\ "seed" \notin Exposed => /\ patch.key \in Picks => Apart({"switch"})
                                /\ kind = "switch" => \A h \in Threads : call[h].patch.key \notin Picks

Start(g, kind, to, patch) ==
    /\ ~ Busy(g) /\ Running
    /\ calls < MaxCalls
    /\ MayStart(kind, to, patch)
    /\ calls' = calls + 1
    /\ call' = [call EXCEPT ![g] = [Idle EXCEPT !.kind = kind, !.todo = Program(kind),
                                                !.to = to, !.patch = patch]]
    /\ UNCHANGED <<disk, pointer, legacy, files, memory, due, chosen, curated>>

\* The call ends; a deferred unlock runs, and an application that was not built yet is gone.
Return(g) ==
    /\ call' = [call EXCEPT ![g] = Idle]
    /\ updateMu' = IF updateMu = g THEN None ELSE updateMu
    /\ path' = IF root = None THEN None ELSE path
    /\ cached' = IF root = None THEN None ELSE cached

history == <<due, chosen, curated>>

\* FileExists: what os.Stat cannot reach is taken for missing, whatever the error.
Missed == IF "unseen" \in Failures THEN BOOLEAN ELSE {FALSE}

----------------------------------------------------------------------------
(* LoadUserConfig *)

\* The cached profile, or the path to read.
Look(g) ==
    /\ At(g, "look")
    /\ Becomes(g, IF cached # None THEN [Go(g, 4) EXCEPT !.got = cached]
                  ELSE [Go(g, 1) EXCEPT !.at = path])
    /\ UNCHANGED <<disk, pointer, legacy, files, memory, calls, history>>

\* Without a lock.
Read(g) ==
    /\ At(g, "read")
    /\ IF disk[call[g].at] \in Configs
       THEN Becomes(g, [Go(g, 1) EXCEPT !.got = disk[call[g].at]]) /\ UNCHANGED memory
       ELSE Return(g) /\ UNCHANGED <<follows, root>>
    /\ UNCHANGED <<disk, pointer, legacy, files, calls, history>>

\* The profile was switched meanwhile: once more.
KeepSwitched(g) ==
    /\ At(g, "keep") /\ path # call[g].at
    /\ Becomes(g, [call[g] EXCEPT !.todo = Load \o Drop(2, @), !.at = None, !.got = None])
    /\ UNCHANGED <<disk, pointer, legacy, files, memory, calls, history>>

\* An update landed meanwhile: its value.
KeepNewer(g) ==
    /\ At(g, "keep") /\ path = call[g].at /\ cached # None
    /\ Becomes(g, [Go(g, 2) EXCEPT !.got = cached, !.at = None])
    /\ UNCHANGED <<disk, pointer, legacy, files, memory, calls, history>>

\* Mutant: only what an update saves reaches the journal.
FollowedOnSave(g, cfg) == IF root = None \/ ~ At(g, "sync") THEN follows ELSE cfg.folder

\* syncJournal, the journal's Configure; it is wired when the application is built.
Followed(g, cfg) == IF root = None THEN follows ELSE cfg.folder

\* What was read is cached, the file repaired if it was incomplete, and the journal
\* told after the unlock: at once, unless that is exposed.
Keep(g) ==
    /\ At(g, "keep") /\ path = call[g].at /\ cached = None
    /\ LET cfg == parseUserConfig(call[g].got)
           kept == [call[g] EXCEPT !.got = cfg, !.at = None] IN
       /\ cached' = cfg
       /\ IF call[g].got.whole THEN UNCHANGED <<disk, due>>
          ELSE /\ disk' = [disk EXCEPT ![path] = cfg]
               /\ due' = [due EXCEPT ![path] = IF @ \in Configs THEN parseUserConfig(@) ELSE cfg]
       /\ \/ /\ Becomes(g, [kept EXCEPT !.todo = Drop(2, @)])
             /\ follows' = Followed(g, cfg)
          \/ /\ "late" \in Exposed
             /\ Becomes(g, [kept EXCEPT !.todo = Drop(1, @)])
             /\ UNCHANGED follows
    /\ UNCHANGED <<pointer, legacy, files, path, updateMu, root, calls, chosen, curated>>

syncJournal(g) ==
    /\ At(g, "sync")
    /\ follows' = Followed(g, call[g].got)
    /\ Becomes(g, Go(g, 1))
    /\ UNCHANGED <<disk, pointer, legacy, files, path, cached, updateMu, root, calls, history>>

----------------------------------------------------------------------------
(* UpdateUserConfig, mutateUserConfig *)

Lock(g) ==
    /\ At(g, "lock") /\ updateMu = None
    /\ updateMu' = g
    /\ Becomes(g, Go(g, 1))
    /\ UNCHANGED <<disk, pointer, legacy, files, path, cached, follows, root, calls, history>>

Unlock(g) ==
    /\ At(g, "unlock")
    /\ updateMu' = None
    /\ Becomes(g, Go(g, 1))
    /\ UNCHANGED <<disk, pointer, legacy, files, path, cached, follows, root, calls, history>>

\* The patch is merged into what was loaded, and persistConfig writes the file; a
\* mutation that changes nothing ends here.
PersistFile(g) ==
    /\ At(g, "write")
    /\ LET x == call[g].patch
           merged == Patched(x, call[g].got) IN
       IF x.key \in Mutations /\ merged = call[g].got
       THEN Becomes(g, Go(g, 3)) /\ UNCHANGED <<disk, due, curated>>
       ELSE /\ disk' = [disk EXCEPT ![path] = merged]
            /\ due' = [due EXCEPT ![path] = IF @ \in Configs THEN Owed(x, @) ELSE merged]
            /\ curated' = IF x.key \in Picks THEN curated \cup {path} ELSE curated
            /\ Becomes(g, [Go(g, 1) EXCEPT !.got = merged])
    /\ UNCHANGED <<pointer, legacy, files, memory, calls, chosen>>

PersistCache(g) ==
    /\ At(g, "swap")
    /\ cached' = call[g].got
    /\ Becomes(g, Go(g, 1))
    /\ UNCHANGED <<disk, pointer, legacy, files, path, updateMu, follows, root, calls, history>>

----------------------------------------------------------------------------
(* SwitchUserProfile *)

SwitchPointer(g) ==
    /\ At(g, "point")
    /\ pointer' = call[g].to
    /\ chosen' = call[g].to
    /\ Becomes(g, Go(g, 1))
    /\ UNCHANGED <<disk, legacy, files, memory, calls, due, curated>>

\* Unless that is exposed, not back to a profile that a load is still reading.
setConfigPath(g) ==
    /\ At(g, "turn")
    /\ "back" \notin Exposed => \A h \in Threads : call[h].at # call[g].to
    /\ path' = call[g].to
    /\ cached' = None
    /\ Becomes(g, Go(g, 1))
    /\ UNCHANGED <<disk, pointer, legacy, files, updateMu, follows, root, calls, history>>

\* A profile that has no file yet gets the defaults, and so does one that is missed.
ensureUserConfigFile(g) ==
    /\ At(g, "ensure")
    /\ \E missed \in Missed :
        IF disk[path] # None /\ ~ missed THEN UNCHANGED <<disk, due>>
        ELSE /\ disk' = [disk EXCEPT ![path] = defaultConfig]
             /\ due' = [due EXCEPT ![path] = IF disk[path] = None THEN defaultConfig ELSE @]
    /\ Becomes(g, Go(g, 1))
    /\ UNCHANGED <<pointer, legacy, files, memory, calls, chosen, curated>>

----------------------------------------------------------------------------
(* The enabled templates, and the template manager's observers *)

\* SeedEnabledTemplatesIfUnset, once the profile is loaded; the lister is the
\* template manager, whose folder was fixed when the application was built.
SeedEnabledTemplatesIfUnset(g) ==
    /\ At(g, "seed")
    /\ \E missed \in Missed :
        Becomes(g, IF call[g].got.on = Unset /\ ~ missed /\ files[root] # {}
                   THEN [call[g] EXCEPT !.todo = Update \o Drop(1, @),
                                        !.patch = [key |-> "seed", to |-> files[root]]]
                   ELSE Go(g, 1))
    /\ UNCHANGED <<disk, pointer, legacy, files, memory, calls, history>>

\* A folder that is missed has no templates, and that is no error.
ListTemplates(g) ==
    /\ At(g, "list")
    /\ \E missed \in Missed :
        Becomes(g, [Go(g, 1) EXCEPT !.patch = [key |-> "prune", to |-> IF missed THEN {} ELSE files[root]]])
    /\ UNCHANGED <<disk, pointer, legacy, files, memory, calls, history>>

\* ListEnabledTemplates and ReconcileEnabledTemplates end here if none is enabled.
Scoped(g) ==
    /\ At(g, "scoped")
    /\ Becomes(g, IF Shown(call[g].got) = {} THEN Idle ELSE Go(g, 1))
    /\ UNCHANGED <<disk, pointer, legacy, files, memory, calls, history>>

\* SaveTemplate of a new file; the creation observer follows.
CreateTemplate(g) ==
    /\ At(g, "create")
    /\ files' = [files EXCEPT ![root] = @ \cup {call[g].to}]
    /\ Becomes(g, IF call[g].to \in files[root] THEN Idle ELSE Go(g, 1))
    /\ UNCHANGED <<disk, pointer, legacy, memory, calls, history>>

\* DeleteTemplate; its observer is ReconcileEnabledTemplates.
DeleteTemplate(g) ==
    /\ At(g, "erase")
    /\ files' = [files EXCEPT ![root] = @ \ {call[g].to}]
    /\ Becomes(g, Go(g, 1))
    /\ UNCHANGED <<disk, pointer, legacy, memory, calls, history>>

\* PersistSnapshot: the history's stack with the settings it just read.
PersistSnapshot(g) ==
    /\ At(g, "snapshot")
    /\ Becomes(g, [Go(g, 1) EXCEPT !.patch = [key |-> "history", to |-> call[g].got.note]])
    /\ UNCHANGED <<disk, pointer, legacy, files, memory, calls, history>>

----------------------------------------------------------------------------
(* ImportUserProfile, DeleteUserProfile *)

\* Files a user may have: of any folder, complete or not, or not a profile at all.
Incoming == [folder : Folders, on : {Unset}, note : {calls}, whole : BOOLEAN] \cup {Malformed}

ImportCopy(g) ==
    /\ At(g, "copy")
    /\ \E raw \in Incoming, p \in {call[g].to} :
        /\ raw = Malformed => disk[p] = None \/ "damaged" \in Exposed
        /\ disk' = [disk EXCEPT ![p] = raw]
        /\ due' = [due EXCEPT ![p] = IF raw = Malformed THEN @ ELSE raw]
        /\ curated' = curated \cup {p}
    /\ Becomes(g, Go(g, 1))
    /\ UNCHANGED <<pointer, legacy, files, memory, calls, chosen>>

\* What is no profile is deleted again.
ImportParse(g) ==
    /\ At(g, "parse")
    /\ LET p == call[g].to IN
       IF disk[p] \in Configs
       THEN /\ Becomes(g, [Go(g, 1) EXCEPT !.got = parseUserConfig(disk[p])])
            /\ UNCHANGED <<disk, memory>>
       ELSE /\ disk' = [disk EXCEPT ![p] = None]
            /\ Return(g)
            /\ UNCHANGED <<follows, root>>
    /\ UNCHANGED <<pointer, legacy, files, calls, history>>

ImportFill(g) ==
    /\ At(g, "fill")
    /\ disk' = [disk EXCEPT ![call[g].to] = call[g].got]
    /\ due' = [due EXCEPT ![call[g].to] = IF @ \in Configs THEN parseUserConfig(@) ELSE call[g].got]
    /\ Becomes(g, Go(g, 1))
    /\ UNCHANGED <<pointer, legacy, files, memory, calls, chosen, curated>>

InvalidateConfigCache(g) ==
    /\ At(g, "forget")
    /\ cached' = None
    /\ Becomes(g, Go(g, 1))
    /\ UNCHANGED <<disk, pointer, legacy, files, path, updateMu, follows, root, calls, history>>

\* The active profile is refused.
DeleteCheck(g) ==
    /\ At(g, "check")
    /\ Becomes(g, IF call[g].to = path \/ disk[call[g].to] = None THEN Idle ELSE Go(g, 1))
    /\ UNCHANGED <<disk, pointer, legacy, files, memory, calls, history>>

DeleteFile(g) ==
    /\ At(g, "discard")
    /\ disk' = [disk EXCEPT ![call[g].to] = None]
    /\ due' = [due EXCEPT ![call[g].to] = None]
    /\ curated' = curated \ {call[g].to}
    /\ Becomes(g, Go(g, 1))
    /\ UNCHANGED <<pointer, legacy, files, memory, calls, chosen>>

----------------------------------------------------------------------------
(* The start of the program, its end, and failures *)

\* NewManager and what app.New does with it.
Boot(g) ==
    /\ path = None /\ Idling
    /\ call' = [call EXCEPT ![g] = [Idle EXCEPT !.kind = "boot", !.todo = Program("boot")]]
    /\ UNCHANGED <<disk, pointer, legacy, files, memory, calls, history>>

\* The new pointer is written before the old one is removed.
migrateLegacyBoot(g) ==
    /\ At(g, "migrate")
    /\ pointer' = IF pointer = None THEN legacy ELSE pointer
    /\ Becomes(g, Go(g, 1))
    /\ UNCHANGED <<disk, legacy, files, memory, calls, history>>

RemoveLegacy(g) ==
    /\ At(g, "unlegacy")
    /\ legacy' = None
    /\ Becomes(g, Go(g, 1))
    /\ UNCHANGED <<disk, pointer, files, memory, calls, history>>

resolveBootProfile(g) ==
    /\ At(g, "resolve")
    /\ \E missed \in Missed : pointer' = IF pointer = None \/ missed THEN Default ELSE pointer
    /\ path' = pointer'
    /\ Becomes(g, Go(g, 1))
    /\ UNCHANGED <<disk, legacy, files, cached, updateMu, follows, root, calls, history>>

\* The managers are made for the active context folder, and so is the journal.
Build(g) ==
    /\ At(g, "build")
    /\ root' = call[g].got.folder
    /\ follows' = call[g].got.folder
    /\ Becomes(g, Go(g, 1))
    /\ UNCHANGED <<disk, pointer, legacy, files, path, cached, updateMu, calls, history>>

\* System.Restart, or any other end of the process.
Exit ==
    /\ path # None \/ ~ Idling
    /\ calls < MaxCalls
    /\ calls' = calls + 1
    /\ path' = None /\ cached' = None /\ updateMu' = None
    /\ follows' = None /\ root' = None
    /\ call' = [g \in Threads |-> Idle]
    /\ UNCHANGED <<disk, pointer, legacy, files, history>>

\* A file cannot be read or written (for a load, or repaired): the call returns the error.
Fail(g) ==
    /\ \E step \in Failures : At(g, step)
    /\ Return(g)
    /\ UNCHANGED <<disk, pointer, legacy, files, follows, root, calls, history>>

----------------------------------------------------------------------------

Old == [folder : Folders, on : {Unset}, note : {0}, whole : {FALSE}]

\* A new installation, or one from before the dotted pointer.
Init ==
    /\ pointer = None
    /\ \/ legacy = None /\ disk = [p \in Profiles |-> None]
       \/ legacy \in Profiles /\ disk \in [Profiles -> Old \cup {None}] /\ disk[legacy] \in Old
    /\ chosen = IF legacy = None THEN Default ELSE legacy
    /\ due = disk
    /\ files = [f \in Folders |-> IF f \in Stocked THEN Templates ELSE {}]
    /\ path = None /\ cached = None /\ updateMu = None /\ follows = None /\ root = None
    /\ call = [g \in Threads |-> Idle]
    /\ calls = 0
    /\ curated = {}

Starts(g) ==
    \/ Start(g, "load", None, NoPatch)
    \/ Start(g, "update", None, [key |-> "note", to |-> calls + 1])
    \/ \E f \in Folders : Start(g, "folder", None, [key |-> "folder", to |-> f])
    \/ \E t \in Templates, key \in Picks : Start(g, "update", None, [key |-> key, to |-> t])
    \/ Start(g, "history", None, NoPatch)
    \/ \E p \in Profiles : Start(g, "switch", p, NoPatch)
    \/ Start(g, "list", None, NoPatch)
    \/ \E t \in Templates : Start(g, "create", t, [key |-> "enable", to |-> t])
    \/ \E t \in Templates : Start(g, "remove", t, NoPatch)
    \/ \E p \in Profiles : Start(g, "import", p, NoPatch)
    \/ \E p \in Profiles : Start(g, "delete", p, NoPatch)

Step(g) ==
    \/ Look(g) \/ Read(g) \/ KeepSwitched(g) \/ KeepNewer(g) \/ Keep(g) \/ syncJournal(g)
    \/ Lock(g) \/ Unlock(g) \/ PersistFile(g) \/ PersistCache(g)
    \/ SwitchPointer(g) \/ setConfigPath(g) \/ ensureUserConfigFile(g)
    \/ SeedEnabledTemplatesIfUnset(g) \/ ListTemplates(g) \/ Scoped(g)
    \/ CreateTemplate(g) \/ DeleteTemplate(g) \/ PersistSnapshot(g)
    \/ ImportCopy(g) \/ ImportParse(g) \/ ImportFill(g) \/ InvalidateConfigCache(g)
    \/ DeleteCheck(g) \/ DeleteFile(g)
    \/ migrateLegacyBoot(g) \/ RemoveLegacy(g) \/ resolveBootProfile(g) \/ Build(g)

Next ==
    \/ \E g \in Threads : Starts(g) \/ Step(g) \/ Fail(g) \/ Boot(g)
    \/ Exit

Spec == Init /\ [][Next]_vars

----------------------------------------------------------------------------
(* Properties *)

\* "so concurrent Update + SwitchProfile callers can't lose each other's writes"
\* (config_io.go:13): a profile's file is what its updates, repairs and imports make
\* of it one after another, and each changes its own settings only.
NoLostUpdate ==
    \A p \in Profiles :
        \/ disk[p] = due[p] \/ (disk[p] = Malformed /\ due[p] = None)
        \/ \E g \in Threads : call[g].to = p /\ (At(g, "parse") \/ At(g, "fill"))

\* syncJournal: when no call is under way, the journal watches the folder of the
\* profile the program works with.
JournalFollows == Running /\ Idling /\ cached # None => follows = cached.folder

\* The pruning of lists against the folder (enabled_templates.go): a template that is
\* there and enabled in a profile leaves its list only when the user hides that one, or
\* imports another profile over it.
CurationKept ==
    [][ \A p \in Profiles :
            disk[p] \in Configs /\ disk'[p] \in Configs =>
                \A t \in Shown(disk[p]) \cap files[disk[p].folder] :
                    \/ t \in Shown(disk'[p])
                    \/ \E g \in Threads : \/ At(g, "copy") /\ call[g].to = p
                                          \/ At(g, "write") /\ call[g].patch.key = "hide" /\ call[g].patch.to = t ]_vars

\* "so the manager stays loadable" (profiles.go:311), "a crash mid-migration leaves a
\* recoverable state" (boot.go:72): whatever stopped where, the program that runs has
\* the profile the user chose last, and its file is there.
ActiveStays ==
    path # None /\ (\A g \in Threads : ~ At(g, "turn") /\ ~ At(g, "ensure")) =>
        path = chosen /\ disk[path] \in Configs

\* The seed runs after updateMu is released, as its update takes it again
\* (profiles.go:128): while calls are under way one of them can go on.
NeverStuck == ~ Idling => \E g \in Threads : ENABLED Step(g)

\* "a never-configured profile scopes to every template" (app.go:489): at the end of a
\* start, a profile whose templates nobody chose shows all there are in its folder.
FirstRunShowsAll ==
    [][ \A g \in Threads :
            call[g].kind = "boot" /\ call'[g].kind = "none" /\ root' # None /\ path \notin curated =>
                files[root] \subseteq Shown(cached') ]_vars

\* "Profile/context switch rebuilds the composition root" (app.go:204): templates are
\* saved where the journal looks.
SavesJournaled == Running /\ Idling => root = follows
=============================================================================
