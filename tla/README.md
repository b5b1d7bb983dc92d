# Formidable: a verification development

Formidable is a desktop application (Go with a Vue front end on Wails): users
define templates, fill in forms, and keep both as files in a *context folder*,
which a team shares through git or through a Gigot server. This directory holds
TLA+ modules that model the parts of it where state, time and failure meet, the
TLC configurations that check them on small instances, and theorems about them
that TLAPS checks for every value of the constants.

Paths below are relative to `src/`; `modules/` stands for `internal/modules/`.

## 1. Inventory

### Parts that keep state

| Part | State | Operations | What makes it hard |
|---|---|---|---|
| Gigot backend `modules/collaboration/gigot` | the ledger `.formidable/sync.json` (version, blob of every managed file), the managed files, the server's versions | PushLocal, PullLocal, Sync, Reclone, LedgerSummary, ResolveConflicts | many steps over HTTP and disk, no transaction; the server moves meanwhile; users save meanwhile; answers get lost |
| Journal `modules/journal` | `.changes.log`, `.changes.cursor`, cursors and pending sets in memory | Configure, Init, RecordOp, RecordRevert, RecordSync, RecordRemoteSeen, Pending | called from many goroutines; appends, memory and cursor file change separately; time stamps as strings; replay at every start |
| Git backend `modules/collaboration/git` | the repository, `.changes.stash` | Commit, Push, Pull, PullWithStash, Discard, merges | a pull that takes the user's files away and puts them back |
| Record merge `collaboration/recmerge` | none | three-way merge of a record's meta block and fields | who publishes first should not matter; stamps of a second; a number equal to its text; records recreated under a name |
| Vault `modules/vault` | `vault.json`, `secrets/*`, the key in memory | Create, Unlock, Lock, Set, Get, Delete, ChangePassword, catalogue | re-key by renames; writers meanwhile; crashes between renames |
| Storage, form, integrity | `.meta.json` files, images | LoadForm with its heal, SaveForm, DeleteForm, AnalyzeTemplate, FixTemplate, MigrateFieldKey | every operation rewrites whole records against the template as it is now |
| Relation `modules/relation` and its callers | `relations/*.yaml` | SetRelations, AddEdge, RemoveEdge, Reconcile; saves, loads, the tab, two passes | one link is in two files and in a field |
| Template `modules/template` and its editor | `templates/*.yaml`, a draft and a tree of it | add, edit, move, delete fields and loops; validate, normalise, save | two structures for one list, replies that come later, a long list of rules |
| Index `modules/index`, data provider | SQLite cache of the folder | on-event updates, reconcile, rescan | a cache fed by events while files change |
| Config `modules/config` | `.boot.json`, user profiles, cached config | load with repair, update, switch, import and delete profiles, enabled templates | a cached value read without a lock, two locks, observers that update from other goroutines, a hook into the journal at every save |
| Operation tracker `internal/optrack`, `internal/util/keymu` | running operations, mutexes by key | Begin, TryBegin, Done, Guard | snapshots announced after the unlock |
| Navigation, history | stacks | push, back, forward | little |

### Parts without state of their own

render, expression, query, stat, datacore, datadb, csv, bundle, connection,
plugin, pdf, wiki, api, viewer, standalone, i18n, dialog, fonts, mermaid,
diagram, manual, sfr, codeformatter, logging, monitor, updatecheck, auth: pure
functions over documents, read-only servers, or wrappers of libraries. They are
listed with the reason in `PROJECT.json`.

### How they interact

- `system.Manager.SaveFile` / `DeleteFile` write every managed file and then call
  `journal.RecordOp`. Everything above (storage, template, relation) goes through it.
- `git.Service` and `gigot.Service` call `journal.RecordSync` after a push or a
  pull, and `RecordRemoteSeen` when only the remote version is news.
- `config.Manager.persistConfig` runs `journal.Configure` at every save of the
  user's configuration; `app.go` runs it once before the services exist.
- The panels (`GigotSync.vue`, `GigotConnection.vue`, `GigotClone.vue`) decide
  from `LedgerSummary` which of push, pull and sync the user may start.
- Storage and template events feed the index; a pull emits `context:reloaded`
  and the index rescans.

### What makes each part correct

- **Gigot**: nobody's edit disappears without somebody who saw it having removed
  it; the ledger never claims that the server has what it does not; a matching
  version means a matching folder; every call ends.
- **Journal**: what is pending survives a restart and is explained by the log; a
  cursor covers only what was pushed.
- **Git**: after PullWithStash every pending file is its old content, the merged
  one, or in the stash.
- **Record merge**: a value changed on one side is kept, the two sides get the same
  record, and two records of one name are never mixed.
- **Templates**: the editor's tree and the list are one structure; what is saved
  reads back as it was.
- **Storage and integrity**: what a user saved under a key that is still declared is
  there whatever heals, repairs and moves came after; a guid that was shown stays.
- **Relations**: the two halves agree, and the fields agree with the links.
- **Vault**: at any crash point either the old vault or the new one opens with
  all its records; a set that returned is not lost.
- **Index**: once events stop, the index shows what the files hold.
- **Config**: the active profile on disk and in memory agree; the journal
  follows the active context folder.

## 2. Plan

Most important first. "done" is in this directory.

| Module | Models | Composes | State |
|---|---|---|---|
| `TeamStore` | what the gigot backend promises a team | | done |
| `GigotSync`, `GigotProofs` | gigot backend, its panels, its server | refines `TeamStore` | done |
| `Journal`, `JournalProofs` | change journal and its callers | | done |
| `SecretStore` | what the vault promises | | done |
| `Vault`, `VaultProofs` | header, records, key in memory; re-key with every rename; set, delete, lock and crash meanwhile | refines `SecretStore` | done |
| `GitStash`, `GitProofs` | git backend, PullWithStash with every step and failure, the sweep at Configure | the journal's pending paths | done |
| `RecMerge`, `RecMergeProofs` | the merge of a record, and members whose copies meet in it | reference three-way merge | done |
| `ContextIndex`, `IndexProofs` | hooks, rescans, template cache, cached decks | "the index shows the files" | done |
| `TemplateFields` | field rules, loops, tree, normalise, validate | | done |
| `TemplateEditor` | the editor's draft and tree with calls under way | `TemplateFields` | done |
| `FormDoctor` | records: save, heal, repair, move, while the template changes | `TemplateFields` | done |
| `RelationStore`, `RelationProofs` | links, halves, files, and the callers that keep fields in step | | done |
| `Config`, `ConfigProofs` | profiles, their cache and lock, the boot pointer, enabled templates, the folder the journal follows | | done |
| `GigotResolve` | two-phase ResolveConflicts | `GigotSync`'s push | next |
| `OpTrack` | registry, guards, announcements | | later |
| `Catalogue` | look a slot up, then write it | `Vault`'s `Set` | later |

Two abstract specifications are written and implemented: `SecretStore` for the vault
and `TeamStore` for the gigot backend. One more is worth stating: *pending =
operations since the last sync* for `Journal`.

## 3. Modules

### `TeamStore` and `GigotSync`

`TeamStore` is what a team relies on: versions that are only added, each member's last
version, and three actions. `Commit` puts a member's files, made from the version it
last learned, on the head, file by file (`Merged`): one side's change, or for a record
the edits new to either side. `Learn` takes a version that is not older, `Forget` has
none. It has no folder, no request, no failure: a lost answer is a commit its member
has not learned, a stopped call is nothing. The mapping in `GigotSync` (`Team`) takes
`history` as it is and the ledgers' versions as what was learned.

One client per team member. Where the state comes from:

| Variable | Code |
|---|---|
| `disk[c]` | the managed files of the context folder, as `CollectFormidableFiles` walks them |
| `ledger[c]` | `TrackRecord` in `.formidable/sync.json`; version 0 is the empty string |
| `history` | the trees of the server's versions, head last (external) |
| `op[c]` | the locals of the manager call in flight on `c`: what the walk read, the ledger being built, the paths left |
| `edits` | counts saves, to name them (bound `MaxEdits`) |
| `seen` | history variable: the edits that were ever on a client's disk |

The content of a file is the *set of edits* it carries: a save adds a fresh edit
to what is on disk, the server's three-way merge keeps what either side added and
drops what either side dropped. A lost update is then an edit that is gone, which
is what the properties speak of. The blob hash is the content itself.

A call is a chain of actions, split where the code does I/O, so that other
clients, the user's saves and failures come in between:

- push: `PushLocal` (walk, ledger, seed from the tree, diff) – `CommitAccepted`,
  `CommitRefused` (409) or `CommitUnanswered` – `PushLedger` – one `Rewrite` per
  record the server stored in another form – `PushDone`;
- pull: `PullTree` – `PullDelete`s – `PullFetch`es, each from HEAD as it is then –
  `PullLedger`;
- sync: a push whose end starts the pull, whatever the push returned (`AfterPush`);
- reclone: `WipePath`s – `WipeLedger` – pull.

`Fail` is a step the code cannot do (a file gone from HEAD: 404); `Stop` is a
crash, an I/O error or a time-out between any two steps: files and ledger stay as
they are, the call is forgotten.

`Buttons` says which calls an instance's users start; `Joiners` are folders that
never met the server; `Answers` is what `changes[]` of the server's answers to a commit
can be: `"all"` the merge changed, the paths `"pushed"`, all with the puts' blobs
`"blank"` (their ledger entries stay as they were), or `"none"` (`reconcileLedger` then
falls back on the local blobs and nothing is rewritten). The
server is external and its contract is only in comments (`CommitRequest`,
`CommitResponse`): fast-forward if the parent is the head, merge if it is an
ancestor, refuse otherwise. What `changes[]` lists is therefore a constant; section 4 says
which properties need which answers.

Left out: the two-phase resolution of conflicts; the Clone panel's "proceed
anyway"; two calls at once on one folder (the panels do not start them).

### `Journal`

| Variable | Code |
|---|---|
| `log` | `.changes.log` |
| `cursorFile`, `cursors` | `.changes.cursor` and `Manager.cursors` (the stamp; the version plays no part) |
| `pending` | `Manager.pending`, with `None` for a path that is not in the map |
| `call[g]` | where goroutine `g` is in `RecordOp`, `RecordSync`, `Configure`, ... |
| `clock` | the last stamp of `time.Now`; strictly growing |
| `covered`, `disturbed` | history variables, see below |

A call takes its stamp, appends to the log, changes memory under the lock and, for
a sync, writes the cursor file after the unlock; each is an action. `Configure`
empties memory under the lock, reads both files without it (one that cannot be read
counts as empty), and installs what it built. `Restart` may come at any point. `GiveUp` is a failed push, append or cursor
write: logged, and the call returns.

`StampKey` is the order of the *strings*: RFC3339Nano drops trailing zeros, so
`.1Z` is after `.15Z`. The model has two fraction digits.

`covered[b]` is up to when what was saved is in a push to `b`; `disturbed` says that
since the last start calls have overlapped, a cursor write failed or a file could not
be read (`domain.go:92`), the cases where memory and files are allowed to differ until the next start.

Left out: a `Configure` for another folder (`domain.go:70`; `Config` has the switch),
`Init`'s baseline entries (replay skips them), the rewriting of a cursor file of an older format, the `.gitignore` upkeep, journaling being off.

### `SecretStore` and `Vault`

`SecretStore` is what a user of the vault relies on: a map from names to values
under one key, with `Create`, `Put`, `Drop` and `ChangePassword`. It has no action
for a crash, a lock or a failed call, because none of them may change the store.
`Vault` is the code, and `IsStore` (`Store!Spec`) says it implements the store.

| Variable | Code |
|---|---|
| `live`, `stage`, `backup` | a header and `secrets/`: in the vault directory, in `.rekey.tmp`, in `.rekey.bak` |
| `head`, `held` | `Vault.head` (by its key) and `Vault.key` in memory; `NoKey` when not open, when locked |
| `call[g]` | where goroutine `g` is in `Unlock`, `Set`, `Delete`, `ChangePassword`, with its locals |
| `keys`, `sets` | count the keys derived and the values set, to name them (bounds `MaxKeys`, `MaxSets`) |

A key stands for a password with the salt and the id of a header; a record opens
under the key it was sealed with and under no other. Writing one file is one step,
as `writeJSON` renames a finished file into place.

`ChangePassword` is a chain: `List` and one `Read` per record (`snapshot`), `Reseal`
in memory, `Clear` and `Stage`, the four renames `MoveOld`, `MoveOldHeader`,
`MoveNew`, `MoveNewHeader`, `Clean`, and `Install` of the key and header in memory.
None of it holds a lock except `Install`, so every other call may come in between.
`Undo` is the failure of a step of the swap with what `restore` puts back; `GiveUp`
an error before the swap; `Crash` the end of the process, after which `Open` finds
what is on the disk. `Lock` zeroes the slice calls in flight share (`WithZeroedKey`).

Mapping to the store: its key is the header in the live files, or the one in the
backup while the swap has moved it; the secrets are the values of the records beside
it that open with that key. The store's `ChangePassword` happens in `MoveNewHeader`.

Three constants say what an instance is exposed to: `Alone` (a change of the
password runs by itself; no lock falls between a set's `session` and its seal),
`Crashes` (steps of a change at which the program may stop) and `Failures` (steps
of the swap that may fail). The code enforces none of the first: the panel disables
its buttons during a change, all but delete and lock. The pass run has the
instance where the vault keeps its promise; section 4 says what fails in the others.

Left out: the catalogue, files in `secrets/` that are not records (carried over by
a change), a second failure inside `restore`, `Get`, which changes nothing.

### `GitStash`

One folder, its remote branch, and the colleagues who push to it.

| Variable | Code |
|---|---|
| `disk`, `head`, `own`, `based` | the worktree; the tree of HEAD; whether HEAD has commits of its own; the remote version it contains |
| `remote` | the versions of the remote branch (external) |
| `pending` | the journal's pending operation per path |
| `stash` | `.changes.stash` |
| `call` | the `PullWithStash` under way, with its locals: base and pulled trees, the entries of the snapshot, the paths left |
| `pushed` | a push was accepted and its `RecordSync` is not done yet |
| `owed`, `was`, `edits` | history variables and the bound, see below |

A content is a set of edits as in `GigotSync`. `PullWithStash` is a chain: one
`Snapshot` per pending path, one `stashReset`, the pull (`StashPull`, or
`StashPullFails`), then one step per entry (`applyStashEntry`,
`stashMergeOrOverride` with `tryRecordMerge`), `Finish`. A failure at any of them
undoes the reset by `stashRestoreOnFailure`, path by path. `Disturbances` lists what
may come between the steps: a save, a commit, a push, the sweep of
`journal.Configure`, a crash, and a failure of the restore or of the undo itself.
The code does not survive all of these; `spoiled` remembers that one of them happened
to a pull, and the properties about edits hold until then.
Pulls of the git binary and of go-git differ (`SelfCloned`) in what they do to a dirty
worktree (`Blocked`) and to commits of one's own: go-git takes a fast-forward only, while
the binary's plain `git pull` refuses them or merges, as the user's git is set up
(`CanPull`; `Diverged` files are merged by line). The run has the binary's.

`owed[p]` holds the edits of this user that he did not delete, discard or push, and
that no pull told him it overrode; `was[p]` what he had when the pull started, with
what he did since.

Left out: a `git pull` whose merge conflicts (it fails, and leaves markers and an open
merge behind), clone, branches, renames, identity, and all the queries.

### `RecMerge`

`upstream`, `base[m]` and `mine[m]` are a record at the shared branch, as member `m`
pulled it last, and as `m` has it; `clock` has the grain of `meta.updated`. A value
names the edit that made it, the `created` of the record it was entered in, so that
mixing two records of one name is visible, and whether it is written as a number or
as that number's text, which `Same` (`deepEqual`) takes for one. `Merge` is `recmerge.Merge`
with `MergeMeta` and `MergeField`; `Pull(m)` is the caller, which refuses on a
`Conflict` of the immutable keys; `Edit`, `Clear`, `Respell` (a save after the
template made a number field a text field), `SetTags`, `SetFacets` and `NewIdentity` bring a record to every shape the merge must handle, with or without
an id and with a stamp that does not parse.

`Symmetric` is about who publishes first: that member's version is `theirs` in the
merge of the other. It compares the data up to `Same`, because where both hold one
value as number and as text the merge returns `theirs` as it stands (merge.go:32-34), so
the bytes do depend on it. It is no promise of errors.go:5, which is about one triple.
Facets that only the base has merge to `null` (`pickWinner`), which the next save drops.

Left out: `flagged`, which merges like a tag; a record without a `created` key
(merge_test.go:253); immutable keys that are equal but spelled apart (they are strings);
the layout of the file.

### `ContextIndex`

| Variable | Code |
|---|---|
| `tpl`, `form`, `broken` | the files; a file is the number of its write, and some do not parse |
| `cache`, `reading` | `template.Manager`'s cache, and a load between its read and its `cachePut` |
| `trow`, `frow` | the tables `templates` and `forms`: the file and the template a row was projected from, and its stamp |
| `call[e]` | a save or delete between its write, its `cacheClear`, its hook and its `Reconcile` |
| `scan` | the `RescanAll` under way: the tables read, the files still to load, the batch |
| `deck`, `build` | the deck cached on the index revision, and the build of one |
| `changed` | files changed under the program, so a rescan is due |
| `writes`, `overlapped`, `recreated` | the bound, and history variables |

`Reconcile` is atomic (one SQLite transaction); everything around it is not: a rescan
reads the tables one after the other (`ScanTemplates`, `ScanForms`) and loads one file
at a time (`ScanLoadTemplate`, `ScanLoadForm`). Only its walk of the folder is one step.
`Overlap` names the kinds of operation that run beside others, `Externals` what a
pull or an upgrade may bring. `overlapped` is "yes" from when operations run side by
side until a rescan runs by itself. The value tables are written with a form's row
and are not modelled apart; searches and statistics only read.

Left out: the rows of images, and the backfill of `GetDescriptor`
(`template/domain.go:374`). That writes a template file with the author filled in, from
the cached template and into it, without clearing the cache and without a hook. No row
shows the author, so rows stay right and the next rescan reads the template again; but
after a pull that changed the template it writes the stale cached one back, in the case
(`"template"` in `Externals`) that fails below for the rows already.

### `TemplateFields` and `TemplateEditor`

`TemplateFields` has the operators of the template package on a list of fields:
`LevelScopes`, `BuildFieldTree` and `FlattenFieldTree`, `MatchLoopstop`,
`LoopPairingErrors`, `Normalize` and `Validate`, rule by rule, with
`ValidateFieldDraft`. A field has a type, a key, the attributes rules read, and one
binding; catalogues, wording and layout attributes are left out.

`TemplateEditor` is a session of the field editor: `draft` (the template with its
list), `tree` (the units on the screen), `sent` (calls of `FlattenFieldTree` and
`BuildFieldTree` that have not returned), `wanted` (what the last edit was to give),
`saved` (the file). A drag to another list commits three times, the first with the
unit in both lists; replies come in the order of the calls unless `Reordered`. Every
reply has the section ask for the tree again: the watch that would skip a list the
section emitted itself (`TemplateFieldsSection.vue:83`) compares it with the reactive
proxy the deep `draft` (`useTemplateEditor.ts:15`) hands down, so they are never the same.
The field dialog works on a copy of the field and keeps its level.
Assumed: nobody edits faster than the backend answers.

Checked over bounded inputs through the runs: flattening a tree gives the list back,
normalising twice is normalising once, and the tree's loops are the validator's.

### `FormDoctor`

The records of one template, and what rewrites them.

| Variable | Code |
|---|---|
| `tpl` | the template on disk, one of several versions a template editor saves |
| `store` | the record files, and the id the last load showed of each |
| `dialog` | the key moves `CleanupStorageDialog.vue` offers after `AnalyzeTemplate` |
| `job` | the `FixTemplate` or `MigrateFieldKey` at work: the files left, the record loaded |
| `kept` | history: what the user last saved under keys declared ever since, if the doctor had no complaint |
| `ops` | the bound |

Values are tagged (text, number, boolean, list, map), since coercion and the heal
tell them apart. `Sanitize`, `NeedsHeal`, `PruneLoopValue`, `CanonicalGuid`,
`SyncFormFacets`, `DataIssues`, `ApplyStrategy` and `RenameCandidates` are operators;
`SaveForm`, `CopyForm`, `DeleteForm`, `EditTemplate`, `Analyze`, `StartFix`,
`StartMove` and a job's `JobLoad` and `JobSave` per file are actions. `Overlap` lets
the user save and the template change while the doctor works, which the modal dialog
keeps from happening in one window.

A save asks the index whether another record shows its guid (`guidCollides`); the index
may give no answer, which counts as no collision.

Assumed: every record parses. Left out: audit stamps, tags, formulas, columns of
tables, the insides of slide, event and project values, images.

### `RelationStore`

A relationship of `t` and `u` is stored twice, as the half for `u` in `t`'s file and
the half for `t` in `u`'s; one of `t` with itself has its mirror in the self folder.

| Variable | Code |
|---|---|
| `disk` | the halves: cardinality, direction, edges |
| `writes`, `healing` | the file writes the call under the manager's mutex has still to make; whether it is `Reconcile` |
| `live`, `refs` | the records that exist, and the ids their api fields hold |
| `job` | the save or load of a record that adds and drains edges to match its fields |
| `pass` | the "synchronize from relations" pass |
| `tab` | what the relations tab loaded and will send back |
| `torn`, `turned` | history: a call was cut short and no `Reconcile` that reported nothing came after; the sides a crash left as directed as their counterparts, until an edit in the tab declares them anew |
| `ops`, `edits` | the bounds |

`Send` is what every edit in the tab ends with: the template's whole list goes back,
with the edited relation emptied, changed, moved to another target (`TabApply`) or gone
(`TabRemove`). `Reconcile` adds what a half lacks and compares cardinalities: it reports
a pair whose cardinalities differ and leaves it (`Conflict`), and has no eye for
directions. It visits every file in the code's order; a file with nothing to heal is a
write of no half, so the sequence is as long as the loops. `WriteNext` writes one file, `Crash` drops those left; a write that fails leaves the
disk as a crash does. `Alone` and `TabClosed` say that panel, tab and pass run one at
a time; `Overlap` drops them. Assumed: templates stay collections, several fields for
one target count as one set, and an import is a `SaveRecord`.

### `Config`

The profiles of an installation, the manager that caches the active one, and what the
application builds on it.

| Variable | Code |
|---|---|
| `disk`, `pointer`, `legacy` | `config/*.json`, `.boot.json`, the `boot.json` of an old installation |
| `files` | the template files of each context folder |
| `path`, `cached`, `updateMu` | `Manager`'s fields; the lock as its owner |
| `follows` | the folder `journal.Configure` was called with last |
| `root` | the folder the template manager was made for at the start |
| `call[g]` | the call goroutine `g` makes: the steps left, and its locals |
| `due`, `chosen`, `curated` | history: what updates, repairs and imports make of a file one after another; the profile switched to last; the profiles whose templates the user picked |
| `calls` | the bound |

A profile is its context folder, its enabled templates (a set, or `Unset` for null),
one other setting, named by the call that set it, and whether the file has all its
keys. A call is a *list of steps* (`Program`), each of them what the code does under
one lock or one access to a file, so that a load is `look`, `read`, `keep`, `sync`
and an update is a lock around a load, a write, the swap of the cache and the
journal. Composite calls are concatenations: a switch is the turn of the manager, a
seed and a load; the deletion of a template is its removal and the observer's
listing, pruning update and load. `Starts` are the calls of the front end and the observers;
`Exit` ends the process anywhere, `Boot` starts it: migration of the pointer,
`resolveBootProfile`, the first load, `Build`, the seed.

`Failures` lists the steps at which a file access may fail. The run has reads, writes
of an update, the pointer, the copy of an import, the listing, the migration
and the pointer's resolution (`resolve`). Not among them, because the code does not
survive them: the file of a new profile (`ensure`), the rewrite at the end of an import
(`fill`), and `unseen`: `FileExists` takes whatever `os.Stat` fails on for missing
(`system/domain.go:140`), so a folder has no templates and a profile or the pointer gets
its defaults; `parse` has its failure
in the action, for files that are no profiles. `Exposed` lists the meetings and
states that break a property, each found by TLC and in the table below; without an
element, the calls it names do not meet. Without `"back"` there is one switch at a time,
and the manager does not turn to a profile while a load still has what it read of that
profile's file, which is what `KeepSwitched` cannot tell from no switch at all; the code
has no such guard. Without `"seed"` a call that shows or hides a template and a switch
do not meet: the switch lists the folder and seeds the new profile later.

Left out: the virtual structure and its cache, export, the selected template, the
meaning of all other settings; an old pointer that cannot be removed or is missed, and a
`.boot.json` that does not parse (`boot.go:36`, `50`, `91`).

## 4. Runs

Every bound is a constant named in the module. When the bounds run out nothing is
left to do, so the runs do not check deadlock.

| Run | Asks | Instance |
|---|---|---|
| `gigot_clean` | `NoClobber`, `PullGateSound`, `IsTeamStore` | 2 clients, a mergeable record and a file that is not, 3 saves, 4 versions, push, pull and sync, no faults |
| `gigot_faults` | `NothingFalselySynced`, `CallsEnd` | 2 clients, one of them new, a mergeable record, 2 edits, 3 versions, faults at every step, answers that list all, the pushed paths, or paths without blobs |
| `journal` | `CursorBacked`, `PendingBacked`, `RestartTransparent` | 2 goroutines, 2 backends, 3 stamps, restarts at every step |
| `vault` | `HeldOpens`, `CrashLeavesAVault`, `IsStore` | 2 goroutines, 2 names, 3 keys (two changes of the password), 3 sets; locks at any step but between session and seal, crashes outside the swap, any rename may fail |
| `git_stash` | `EditsKept`, `NoStaleStash`, `PullSettles` | a record and another file, 2 edits, 2 versions, the git binary; any step of a pull may fail; saves, sweeps, crashes and second failures between the steps |
| `recmerge` | `MergeIsThreeWay`, `Symmetric`, `NoMixing` | 2 members, a field, a tag, 4 edits in 2 seconds |
| `index` | `TypeInv`, `IndexReflectsDisk`, `DeckShowsForms` | a template with 2 forms, 2 threads, 3 writes; form operations overlap one another and rescans, files may be unreadable |
| `template` | `TypeInv`, `TreeAgrees`, `DraftSettles`, `SavedIsStable`, `EditsKeepLoops` | up to 7 fields, 3 edits, from an empty list, every list of up to 3 markers of two loops, crossed and nested loops |
| `doctor` | `TypeInv`, `DeclaredKept`, `FixSettles`, `IdsStable` | 2 records, 3 versions of a template, 4 operations |
| `doctor_moves` | `MovesStay` is violated | a key inside a loop is renamed |
| `relation` | `TypeInv`, `Symmetric`, `ReferencesSettle`, `SyncMirrors`, `LinksFit` | 2 templates of 2 records, related to each other and one to itself, 3 operations, 3 edits, reconciles or crashes, 4 in all |
| `config` | `NoLostUpdate`, `JournalFollows`, `ActiveStays`, `CurationKept`, `NeverStuck` | 2 profiles, 2 folders, one of them with two templates, 2 goroutines, 3 calls or restarts, new and old installations |

`GigotSync`, `Journal`, `Vault`, `GitStash` and `RecMerge` have a `TypeInv` too, and
`ConfigProofs` states one of `Config`; they are proved for all constants (section 5) and
no run repeats them.

Why the bounds are enough. A clobber takes a base version, a colleague's edit and
our own (2 edits, 3 versions), and one more of each lets a retry follow; two clients
suffice for what one client and the server's state can do; that a third one matters
for `NoClobber` when a commit falls between a pull's listing and its fetch is in the
table below, and the theorem of section 5 is about any number. In `gigot_clean` two paths
let a merge change a path that was not pushed; `gigot_faults` has one, and no `NotWiped`
path (`relations/`, which a reclone leaves), which only the theorems include.
In the journal two goroutines show every overlap of a pair, three stamps let an
operation be before, between and after two sync markers. Two changes of the password
let the second meet what the first left in stage and backup; the theorems about the
vault, the stash and the merge hold for all bounds. A pull with a stash meets a path
as pending, changed upstream, both or neither, so two paths and a version after the
one it started from give every combination; its second pull meets what the first one
left. Four edits of a record are both sides' changes after a common base that is
itself an edit, and one more. A rescan and two writers show each order of a read, a
write and a batch. Three edits of a template are enough to break, mend and save the
pairing of two loops. A chain of save, template edit, repair and move is four
operations of the doctor. Three links or saves over two records a side reach every
cardinality's limit; three edits are a load of the tab with an edit that is cut short
and the reconcile after it, or two crashes of which the second meets a heal. Every pair
of calls on the profiles can overlap with a third before or after them; the third is
also a restart, after which the start's own load and seed follow.

**Fairness.** `CallsEnd` assumes weak fairness of the steps of a gigot call in flight:
the goroutine of a Wails call is scheduled and its HTTP client has a time-out. The users
are not assumed to do anything, and a call waits for none of them. Nothing of the kind is
stated of a git pull: the git binary runs without a time-out (`sysgit.go:30`) and may wait
for the network or a prompt for ever, with `git:pull` taken.

### The violation

`doctor_moves`: `MigrateFieldKey` takes the path of every orphan, item index
included, from the raw file, and writes into the record `LoadForm` returned
(`migrate.go:240`, `253`, `267`). Loading prunes empty loop items, so every value
behind an empty item lands one item too far and the last is lost, against "preserving
the value at each occurrence (loop-nested included)" (`migrate.go:195`). The dialog
offers moves of top-level keys only; the service takes any key, and `Nested` says
which. It takes three operations to get there, and the record looks well formed
afterwards.

### What fails when a constant is changed

The passing runs state under which conditions the code keeps its promise. Each line
below is found by TLC with one constant changed, or the named condition dropped. The
definitions that no run lists (`SyncKeepsUnpushed`, `FirstSyncDeletesNothing`,
`CursorMeansSynced`, `SyncMeansPushed`, `FacetsKept`, `ConfirmIsSafe`, `SaveLinks`,
`FirstRunShowsAll`, `SavesJournaled`, `ReconcileTurnsBack`) are in the modules for this purpose.

| Property | Fails with | Because |
|---|---|---|
| `NoClobber` | `Faults = TRUE` | the ledger is written first, the rewritten records second (`orchestration.go:105`, `113`) |
| `NoClobber` | three `Clients`, `MaxEdits = 4`, `MaxVersion = 5` (too large to search, found along a given path) | a pull lists one version and fetches from HEAD (`orchestration.go:228`); its ledger then vouches for an edit nobody saw on that disk, and the next push removes it where a third member has brought it back |
| `NothingFalselySynced` | `"none"` in `Answers` | an answer that lists nothing makes the ledger take the local blobs (`orchestration.go:401`) although the server merged |
| `PullGateSound`, `NoClobber` | `"pushed"`, `"blank"` or `"none"` in `Answers` | the ledger has the new version and not all of its files |
| `SyncKeepsUnpushed` | `Records = {}` and the sync button | "a push error aborts before pull so unpushed local changes aren't overwritten" (`orchestration.go:287`); a conflict is not an error |
| `FirstSyncDeletesNothing` | one of the `Joiners` and push | deletions are to be suppressed on a first sync (`domain.go:327`), but the push seeds the ledger before the diff |
| `CursorMeansSynced` | as it is | a stamp taken after the push covers operations the push did not see (`journal/types.go:72`) |
| `SyncMeansPushed` | as it is | the same seen from the git backend: a push moves the cursor over edits not committed |
| `RestartTransparent` | `Start = 9`, `MaxTime = 12` | a stamp that loses its last zero sorts wrong (`journal/domain.go:541`) |
| `IsStore` | `Alone` without `"rekey"` | a set beside a change of the password is undone by the swap (`vault/domain.go:44` says methods may be called concurrently) |
| `IsStore` | `Alone` without `"lock"` | the set in flight seals with a zeroed key (`vault/domain.go:192`) |
| `CrashLeavesAVault` | `"oldheader"`, `"new"` or `"newheader"` in `Crashes` | nothing puts the backup back at the next start (`rekey.go:31`, `236`) |
| `HeldOpens` | `"clean"` in `Failures` | a backup that cannot be removed fails the call after the new vault is in place; the old key stays in memory |
| `EditsKept` without `~ spoiled` | `"sweep"` or `"crash"` in `Disturbances` | a config save or the next boot removes the stash of a pull (`journal/domain.go:444`) |
| `EditsKept` without `~ spoiled` | `"save"`, `"restore"` or `"undo"` in `Disturbances` | a save between snapshot and restore is overwritten; a second failure drops what is left of the stash |
| `PullSettles` without `~ spoiled'` | `"commit"` in `Disturbances` | a commit during the pull takes half-restored files |
| `FacetsKept` | as it is | facets go with the later stamp, not by side (`merge.go:10`) |
| `IndexReflectsDisk` | `"template"` in `Externals` | a pull changes a template the cache still has |
| `IndexReflectsDisk` | `"crash"` or `"column"` in `Externals` | rows made by an older program or template look up to date to a scan, which compares the form's stamp only |
| `IndexReflectsDisk` | `"template"` in `Overlap` | a rescan of a template between another's write and the clearing of the cache projects the old content under the new file's stamp, which later rescans trust |
| `DraftSettles` | `Reordered = TRUE` | an older reply of a drag is taken last |
| `ConfirmIsSafe` | as it is | "Empty result means the field is safe to confirm" (`validate.go:170`): some rules name no place |
| `DeclaredKept`, `IdsStable` | `Overlap = TRUE` in `FormDoctor` | a repair writes back the record it loaded before a save |
| `SaveLinks` | as it is | a save adds links before it drains, so a swap under a cardinality is refused |
| `ReconcileTurnsBack` | as it is | the halves "always carry opposite Inverse values" (`types.go:96`) and `Reconcile` "makes the graph symmetric, in full" (`reconcile.go:37`), but it compares cardinalities only (`reconcile.go:104`, `224`): a pair whose direction was being changed at a crash stays with two equal halves and is not reported |
| `Symmetric` | `"tab"` in `Overlap` of `RelationStore` | the tab sends back edges it loaded earlier |
| `SyncMirrors` | `"panel"` in `Overlap` of `RelationStore` | the pass read the edges once |
| `NoLostUpdate` | `"import"` in `Exposed` | an import writes its file and empties the cache without the lock: an update under way puts the old profile back |
| `NoLostUpdate` | `"history"` in `Exposed` | a snapshot of the history sends the settings beside it as it read them before the lock (`history_adapters.go:40`) |
| `NoLostUpdate` | `"back"` in `Exposed` | a load that sees the profile switched away and back, or to itself while an update falls between pointer and turn, finds its path unchanged and caches what it read before (`config_io.go:170`) |
| `CurationKept` | `"seed"` in `Exposed`, four calls | a switch seeds the new profile from a listing made before another call shows a template |
| `NoLostUpdate` | `"fill"` in `Failures` | an import that cannot rewrite the file leaves the cache as it was |
| `JournalFollows` | `"late"` in `Exposed` | a load that pauses between the unlock and `syncJournal` sends the journal back to the folder it read |
| `ActiveStays` | `"delete"` in `Exposed` | a deletion checks for the active profile, then deletes; a switch comes between (`profiles.go:307`) |
| `ActiveStays` | `"damaged"` in `Exposed`, `"ensure"` in `Failures` | a switch writes the pointer before it knows that the profile can be read or made |
| `CurationKept` | `"list"` in `Exposed` | the listing is taken before the lock: a template made or another folder chosen meanwhile is pruned away |
| `CurationKept` | `"moved"` in `Exposed` | after a change of folder or profile, until the restart, pruning compares with the old folder's templates |
| `CurationKept` | `"unseen"` in `Failures` | `ListTemplates` gives no templates and no error for a folder that cannot be stat'ed (`template/domain.go:157`), and the pruning empties the list, against "slice must not mutate on lister error" (`enabled_templates_test.go:403`) |
| `NoLostUpdate`, `ActiveStays` | `"unseen"` in `Failures` | a profile or pointer that cannot be stat'ed is overwritten with the defaults (`boot.go:42`, `131`) |
| `FirstRunShowsAll` | as it is | the last template is deleted, another is made: the pruned list is empty, `AutoEnableNewTemplate` takes that for "all enabled" (`enabled_templates.go:60`), everything else for none, and the new template shows nowhere |
| `SavesJournaled` | as it is | "Profile/context switch rebuilds the composition root" (`app.go:204`): a changed context folder moves the journal at once, the template manager at the restart |

Comments that differ from the code with no effect on these: `git/domain.go:713` says a
failed pull leaves the stash for recovery; it restores the files and removes it.
`config/service.go` and `app.go:486` speak of an empty list of enabled templates as
all of them; `IsTemplateEnabled` and `FilterEnabled` show none.

## 5. Proofs

`GigotProofs`, `JournalProofs`, `VaultProofs`, `GitProofs`, `RecMergeProofs`,
`IndexProofs`, `RelationProofs` and `ConfigProofs`, checked by tlapm with Z3, Zenon and
LS4. The assumptions are those the modules state
about their constants (`PathsAssumption`, `BoundsAssumption`, `AbsentAssumption`,
`FlagsAssumption`, `AnswersAssumption`, `ButtonsAssumption` of `GigotSync`; `ClockAssumption`,
`NoneAssumption` of `Journal`; `BoundsAssumption` of `Vault`; `PathsAssumption`,
`BoundsAssumption` of `GitStash`; `MissingAssumption`, `BoundsAssumption` of
`RecMerge`; `TplOfAssumption`, `BoundsAssumption`, `KindsAssumption` of
`ContextIndex`: a template's file is no form's, as templates and storage have
folders of their own; `RecordsAreOwn`, `TemplatesAssumption`, `MenuAssumption` of
`RelationStore`: finitely many templates with records of their own, fields that
refer to templates, and cardinalities that are cardinalities; `NamesAssumption`,
`BoundAssumption`, `NoneAssumption` of `Config`: a new installation has a profile and a
folder, and no file is neither a profile nor a damaged one).

- **`GigotProofs!TypeCorrect`**, every variable keeps its type.
- **`GigotProofs!LedgersAreBacked`** (`NothingFalselySynced`), for answers other than
  `"none"`, and **`LedgersMoveForward`** (`LedgerForward`, which no run checks). Neither is inductive alone: what
  `PushLedger` and `PullLedger` write was put together steps before, so the
  invariant `IInv` also says that the ledger a call is *building* and the one its
  commit is *based on* are backed by the server's history (`Sound`). The history
  only grows, so what was backed stays backed; each action that builds a ledger
  takes blobs from a version it names. Interrupted calls need no case of their own:
  the invariant holds between any two steps.
- **`GigotProofs!IsATeamStore`** (`IsTeamStore`): folders and server implement
  `TeamStore`, without a condition: calls stop anywhere, answers are lost, folders are
  new, and the server may echo what it likes. Most steps are stutters. `PushLedger`,
  `PullLedger` and a push with nothing to send are `Learn`, which needs that the ledger
  being built is not older than the one on disk; the wipe's end is `Forget`;
  `CommitAccepted` and `CommitUnanswered` are `Commit`, which needs that a commit under
  way was made from the version its ledger still names (a part of `Sound`) and that what
  the server makes of each file is a merge of what was sent (`ReconciledMerges`). The
  run shows it for members without faults, the theorem for all of them.
- **`GigotProofs!PullGateIsSound`** (`PullGateSound`), under `EchoAll`, the run's
  condition: `Answers` has `"all"` only. `IInv` then also says that a
  ledger, on disk or being built, is the *whole* tree of its version (`Exact`). Calls may
  stop anywhere and folders may be new to the server, which the run does not show.
- **`GigotProofs!CommitsDoNotClobber`** (`NoClobber`), under the conditions of
  `gigot_clean` (`EchoAll`, no `Faults`, no `Joiners`) and `Calm`, an action property of
  the environment: while a call is between the server's answer and the last blob it
  fetches, nobody commits. The table above shows that it is needed from three members
  on. The invariant `KInv` says that a user has seen all that is on the disk and all
  that the ledger vouches for, but for the paths still to be fetched; so what a merge
  takes away because the base had it and the disk has not, the user took away.
  Reclones are included.
- **`JournalProofs!TypeCorrect`**.
- **`JournalProofs!CursorsAreBacked`** (`CursorBacked`): the marker of a sync is in
  the log before its stamp is anywhere else. The strengthening says so of a call at
  its `apply` step.
- **`JournalProofs!PendingIsBacked`** (`PendingBacked`): likewise for operations,
  for the sets a `Configure` has built and not installed, and for what
  `rebuildPending` makes of any log.
- **`JournalProofs!RestartsAreTransparent`** (`RestartTransparent`), under
  `OrderedStamps`: the strings of the stamps are ordered as the stamps are, which fails
  when one loses its last zero (the table's `Start = 9`). The invariant `RInv` says of
  the one call under way what is still missing at each of its steps: an operation's
  entry is in the log before it is in memory, a sync's marker before its cursor is. The
  lemmas under it are about `rebuildPending`: one more entry changes it as `applyEntry`
  does, and a cursor moved to the newest stamp empties it.

- **`VaultProofs!TypeCorrect`**, with no further assumption.
- **`VaultProofs!Implements`** (`IsStore`), **`HeldOpensAlways`** and **`CrashSafe`**,
  under `Undisturbed`: a change of the password runs by itself, no lock falls between
  session and seal, no crash falls between the first and the last rename, and the
  backup can be removed. Each condition is needed: the table above drops one each. Renames may fail, locks may fall into a change, and
  crashes may come anywhere else. The invariant `IInv` says where the two vaults
  are at every step of a change: before the swap the old one is whole in the live
  files and what was read agrees with it (`ReadInv`); in the swap the old one is
  split between live and backup and the stage is its copy under the new key
  (`SwapInv`); at rest there is no vault or a whole one (`AtRest`). The refinement
  then needs a case per rename: every move leaves the mapped store as it is, except
  `MoveNewHeader`, which changes its key and no value, and every undo ends with what
  was there before.

- **`GitProofs!TypeCorrect`**, and **`StashIsOwn`** (`NoStaleStash`): what a pull puts
  back it put into the stash itself, under every disturbance. It is inductive with the
  types: the pull starts with the sweep, a snapshot writes a path of the entries, and
  nothing else writes the stash.
- **`GitProofs!EditsAreKept`** (`EditsKept`), with no assumption on `Disturbances`:
  what the table above shows to be needed is in the property, as `~ spoiled`. `IInv`
  adds to the types: no content carries an edit that was not made (`Made`), so a new
  edit is nobody's; the remote has nothing of what is owed (`RemoteSound`); while an
  unspoiled pull is under way HEAD stays what it read (`CallSound`); and where the owed edits of a path are at each step of the pull
  (`Guarded`): on disk before its snapshot, in both places until its reset, in the
  stash until its restore, on disk again after it.
- **`GitProofs!PullsSettle`** (`PullSettles`), likewise with no assumption on
  `Disturbances`. Until something spoils the pull, `Tracked` says of each path where
  the content its user had is: from the snapshot to the restore in the stash, or gone
  because the user had deleted the file (`Stashed`); and what the disk has in its stead
  at each step (`Placed`).
- **`RecMergeProofs!TypeCorrect`**, **`MergesAreThreeWay`** (`MergeIsThreeWay`) and
  **`MergesAreSymmetric`** (`Symmetric`): the last two are facts about `MergeField`,
  `UpdatedWinner` and `MergeMeta` for records of any fields, and rest on `deepEqual`
  being an equivalence (`SameIsEquality`).
- **`RecMergeProofs!RecordsNeverMix`** (`NoMixing`). Not inductive alone, as a pull
  merges three records: `IInv` says that every base, upstream and own record is whole,
  and the refusal of divergent immutable keys gives the three of a merge one creation.
- **`IndexProofs!TypeCorrect`** (`TypeInv`), whatever overlaps or comes from outside.
- **`IndexProofs!RowsReflectDisk`** (`IndexReflectsDisk`) and **`DecksAreCurrent`**
  (`DeckShowsForms`), under `OnlyForms`, the condition of the run `index`: operations
  on forms run beside each other and beside rescans, one on a template does not; a
  pull brings new forms and files that do not parse. The table above drops one part
  after the other, and each is needed. Neither property is inductive: both speak of
  the rows at rest, which were projected several steps before. `IInv` says
  where the truth is meanwhile. At any time, whatever overlapped: the cache has what
  is on disk but between a template's write and the clearing after it (`CacheFits`),
  a batch was projected from the templates as they are (`CallFits`, `ScanFits`), and
  a row whose stamp is its form's came from that template (`FormRows`), which is why
  a rescan may pass over it. As long as nothing overlapped, also: all rows are right
  but those of the call under way, and its batch puts them right (`Settling`). A
  rescan that runs by itself brings this back, whatever the rows were: what it reads
  becomes right, and what it does not read has the right stamp. `DecksFit` says of a
  deck, and of one being built, that a form it shows wrongly has a reconcile to come
  that will move the revision.

- **`RelationProofs!TypeCorrect`** (`TypeInv`), whatever overlaps: every write that is
  still to be made has links from the owner's records to the target's (`TInv`), through
  `SetRelations`, `AddEdge`, `RemoveEdge`, their mirrors and `Reconcile`.
- **`RelationProofs!HalvesAgree`** (`Symmetric`) and **`CardinalityKept`** (`LinksFit`),
  under `Overlap = {}`, the run's condition. Between two file writes the halves do not
  agree, and after a crash they need not agree for good. The invariant `SInv` is about
  where the writes *lead*: there is a store `f` that has what the remaining writes
  write and what the disk has elsewhere (`Leads`), whose halves have each other's links,
  unless a call was cut short and nothing heals it (`Paired`), and, if none was cut
  short, also each other's cardinality (`Matched`) and no more links than
  fit (`Fitting`). Directions are a matter of their own, as nothing heals them: sides that
  are not `turned` are opposite where the writes lead (`Directed`), which only an edit in
  the tab could change, and it sets both (`SetToOpposed`). A write leads on to the same store; a call to one of its own, and one lemma
  per operation says that the store it leads to is paired if the one before was
  (`SetToPaired`, `AddToPaired`, `RemoveToPaired`). Reconcile's does not need that:
  it leads to paired halves from any (`HealToPaired`).
- **`RelationProofs!FieldsSettle`** (`ReferencesSettle`) and **`FieldsMirrorLinks`**
  (`SyncMirrors`), under the same condition. `JInv` says how far the reconciliation of
  one record is: what its fields have is linked, still to be added, or refused by a
  cardinality, and what is linked beyond them is still to be drained; adding one link
  makes no other one possible. `PInv` says of the pass that the edges it read at its
  start are still those on disk as far as live records go, although each record it
  saves reconciles its links: those of the pass's target it has just made equal to the
  field, so only links of other targets change.

- **`ConfigProofs!TypeCorrect`**, **`ChosenStays`** (`ActiveStays`), **`JournalIsTold`**
  (`JournalFollows`) and **`WritesAreKept`** (`NoLostUpdate`), under `Undisturbed`, the
  run's condition but for `"seed"`, which may be `Exposed`: failures at the run's steps
  only, and nothing else of `Exposed`. The table above drops one part after the other.
  Nothing is `"unseen"` there (`NothingMissed`). None is inductive, and the first thing to know of a call is which steps it has left.
  As a call is a list that loads begin anew and a seed extends, that is a property of
  lists: `Fit` says that the steps follow one another as in the code, that a swap or a
  turn is two steps before an unlock, and that no lock is given back twice; the lemmas
  of the first sections show that every `Program` has it and that every way to go on
  keeps it. From it come `XInv`, who has the lock (`Holds`: there is an unlock to come
  before any lock) and who runs alone, and `TInv`, what a call knows at each step.
  `AInv` says how far the pointer, its older form and the manager are on the way to the
  profile chosen, and that no switch is on its way to a damaged file. `JInv` says that
  what a call is about to write, hand to the journal or build the managers from is what
  is cached, and that journal and cache differ only while a call is at its `sync`, with
  the lock. `NInv` says where a profile's value is: a load that could still cache what
  it read has read what the file has, and the cache is the file but between the two
  writes of an update and in an import. It is stronger than `NoLostUpdate`, which
  excepts imports.
- **`ConfigProofs!CurationIsKept`** (`CurationKept`), under the run's condition:
  `Undisturbed` and `"seed"` not `Exposed`. An action property: what a step does to a
  file's list is right because of what its call learned steps before. `CInv` has that,
  for all who touch a list. `Paired` says who may do so beside whom; `Curating` says
  that a call that will prune has a listing of the folder as it is now, and that this is
  the profile's folder; that a seed finds no list or its own from its update to its end;
  and that between the two writes of any other update the cache has the file's list, so
  that the swap and a later write keep it.

**Model-checked only.** The properties of `TemplateEditor` and `FormDoctor`;
`NeverStuck` of `Config`, which is stated with ENABLED; `CallsEnd`,
because liveness under fairness and ENABLED are outside this prover's reach. Induction
over data and RECURSIVE operators are outside it as well: `TemplateFields`,
`TemplateEditor` and `FormDoctor` are about trees, use RECURSIVE operators, and are for
TLC alone.

## 6. Not modelled

`PROJECT.json` lists every component with its status and the reason. Those that will
follow are in the plan above. Rendering, querying, expressions, statistics, CSV, PDF
and the bundle format are pure functions of a document; the wiki, the viewer, the
standalone server and the HTTP API read, or call the operations modelled here; the
plugin host runs external scripts. Cryptography, go-git, SQLite, the keychain and the
Gigot server are external: what the code relies on is part of the module that uses
them.
