----------------------------- MODULE ContextIndex -----------------------------
(***************************************************************************)
(* The index of a context folder: a cache of templates and forms in        *)
(* SQLite, kept by the hooks of template and storage and by rescans, with  *)
(* the template cache they read through and the decks cached on the        *)
(* index revision.  Translated from internal/modules/index, the save and   *)
(* delete paths of template/domain.go and storage/domain.go, the wiring in *)
(* app/app.go and render/slide.go.                                         *)
(*                                                                         *)
(* A file is the number of the write that made it, 0 if there is none: its *)
(* content, its mtime and its size in one.  A row remembers the file and   *)
(* the template it was projected from, and the stamp a rescan compares.    *)
(* Left out: image rows, and the missing author GetDescriptor writes into  *)
(* a template without a hook, which no row shows.                          *)
(***************************************************************************)
EXTENDS Integers

CONSTANTS
    Templates, Forms,
    TplOf,          \* the template whose folder a form is in
    Editors,        \* threads that save and delete
    MaxWrites,      \* bound: writes of a file
    Overlap,        \* kinds of operation that run beside others: "form", "template", "load"
    Externals       \* what a pull may bring: "template", "broken"; what an upgrade may do:
                    \* "column"; where the process may end: "crash", inside a template's save

ASSUME TplOfAssumption  == TplOf \in [Forms -> Templates]
ASSUME BoundsAssumption == MaxWrites \in Nat /\ 0 \notin Editors
ASSUME KindsAssumption  == Templates \cap Forms = {}    \* a form is not a template's file

VARIABLES
    tpl, form,      \* the files
    broken,         \* writes whose content does not parse
    cache,          \* template.Manager's cache of parsed templates
    reading,        \* a LoadTemplate between its read and its cachePut
    trow, frow,     \* the tables templates and forms
    call,           \* per editor, the operation under way
    scan,           \* the RescanAll under way
    changed,        \* the files changed under the program; a rescan is due
    deck, build,    \* the cached deck, and the build of one under way
    writes,         \* number of writes so far
    overlapped,     \* history: operations ran side by side
    recreated       \* history: templates created since the last rescan

files == <<tpl, form, broken, writes>>
rows  == <<trow, frow>>
decks == <<deck, build>>
past  == <<overlapped, recreated>>
vars  == <<files, cache, reading, rows, call, scan, changed, decks, past>>

Stamps == 0 .. MaxWrites
Blank  == MaxWrites + 1             \* projected by an older program
NoTRow == [by |-> 0, stamp |-> 0]
NoFRow == [of |-> 0, by |-> 0, stamp |-> 0]
TRows  == [by : 0 .. Blank, stamp : Stamps]
FRows  == [of : Stamps, by : Stamps, stamp : Stamps]

Nothing == [tpls |-> [t \in Templates |-> NoTRow], forms |-> [f \in Forms |-> NoFRow],
            tdel |-> {}, fdel |-> {}]
Batches == [tpls : [Templates -> TRows], forms : [Forms -> FRows], tdel : SUBSET Templates, fdel : SUBSET Forms]

NoCall == [step |-> "idle", kind |-> "form", on |-> 0, batch |-> Nothing]
NoBuild == [step |-> "idle", current |-> FALSE, forms |-> [f \in Forms |-> 0]]
NoScan == [step |-> "idle", tpls |-> [t \in Templates |-> 0], forms |-> [f \in Forms |-> 0],
           loadT |-> {}, loadF |-> {}, batch |-> Nothing, alone |-> FALSE]

----------------------------------------------------------------------------
(* Which operations run beside each other *)

Active == {call[e].kind : e \in {d \in Editors : call[d].step # "idle"}}
          \cup (IF scan.step # "idle" \/ changed THEN {"rescan"} ELSE {})

MayStart(kind) ==
    Active = {} \/ Active \cup {kind} \subseteq Overlap \cup {"rescan"}

Starts ==
    /\ overlapped' = IF Active = {} THEN overlapped ELSE "yes"
    /\ scan' = [scan EXCEPT !.alone = FALSE]

Quiet == Active = {}

----------------------------------------------------------------------------
(* LoadTemplate: cached, one reader of a name at a time *)

Seen(t)     == IF cache[t] # 0 THEN cache[t] ELSE tpl[t]
Loadable(t) == cache[t] # 0 \/ (tpl[t] # 0 /\ tpl[t] \notin broken)
Cached(ts)  == [t \in Templates |-> IF t \in ts /\ Loadable(t) THEN Seen(t) ELSE cache[t]]
NotLocked(ts) == \A t \in ts : cache[t] = 0 => reading[t] = 0

\* A reader of its own: the file is read, the parsed template cached later.
LoadRead(t) ==
    /\ "load" \in Overlap \/ Quiet
    /\ cache[t] = 0 /\ reading[t] = 0 /\ Loadable(t)
    /\ reading' = [reading EXCEPT ![t] = tpl[t]]
    /\ UNCHANGED <<files, cache, rows, call, scan, changed, decks, past>>

LoadPut(t) ==
    /\ reading[t] # 0
    /\ cache' = [cache EXCEPT ![t] = reading[t]]
    /\ reading' = [reading EXCEPT ![t] = 0]
    /\ UNCHANGED <<files, rows, call, scan, changed, decks, past>>

Settled == "load" \in Overlap \/ \A t \in Templates : reading[t] = 0

----------------------------------------------------------------------------
(* Reconcile: one transaction *)

TemplatesAfter(b) ==
    [t \in Templates |-> IF t \in b.tdel THEN NoTRow
                         ELSE IF b.tpls[t] # NoTRow THEN b.tpls[t] ELSE trow[t]]

\* Deletes come after upserts; a template takes its forms with it.
FormsAfter(b) ==
    [f \in Forms |-> IF f \in b.fdel \/ TplOf[f] \in b.tdel THEN NoFRow
                     ELSE IF b.forms[f] # NoFRow THEN b.forms[f] ELSE frow[f]]

\* The foreign key of a form row, checked when the row is written.
KeysHold(b) ==
    \A f \in Forms : b.forms[f] # NoFRow => b.tpls[TplOf[f]] # NoTRow \/ trow[TplOf[f]] # NoTRow

\* Upserts always bump the revision, deletes when they hit a row.
Bumps(b) ==
    \/ b.tpls # Nothing.tpls \/ b.forms # Nothing.forms
    \/ \E t \in b.tdel : trow[t] # NoTRow
    \/ \E f \in b.fdel : frow[f] # NoFRow

\* The revision keys the cached deck: after a bump no earlier key matches.
NewRevision ==
    /\ deck'  = [deck EXCEPT !.current = FALSE]
    /\ build' = [build EXCEPT !.current = FALSE]

Reconcile(b) ==
    IF KeysHold(b)
    THEN /\ trow' = TemplatesAfter(b)
         /\ frow' = FormsAfter(b)
         /\ IF Bumps(b) THEN NewRevision ELSE UNCHANGED decks
    ELSE UNCHANGED <<rows, decks>>

----------------------------------------------------------------------------
(* Forms *)

Start(e, kind, step, on) ==
    /\ Settled
    /\ call[e].step = "idle" /\ MayStart(kind)
    /\ Starts
    /\ call' = [call EXCEPT ![e] = [NoCall EXCEPT !.step = step, !.kind = kind, !.on = on]]

Go(e, step, batch) == call' = [call EXCEPT ![e].step = step, ![e].batch = batch]
End(e) == call' = [call EXCEPT ![e] = NoCall]

\* SaveForm and SaveFormExact: the template is loaded for its fields, the file written.
SaveForm(e, f) ==
    /\ writes < MaxWrites
    /\ NotLocked({TplOf[f]})
    /\ Start(e, "form", "changed", f)
    /\ writes' = writes + 1
    /\ form' = [form EXCEPT ![f] = writes']
    /\ cache' = Cached({TplOf[f]})
    /\ UNCHANGED <<tpl, broken, reading, rows, changed, decks, recreated>>

DeleteForm(e, f) ==
    /\ form[f] # 0
    /\ Start(e, "form", "reconcile", f)
    /\ form' = [form EXCEPT ![f] = 0]
    /\ UNCHANGED <<tpl, broken, writes, cache, reading, rows, changed, decks, recreated>>

\* Mutant: a row of the write after the one on disk.
HookRowAhead(f, by) == [of |-> form[f] + 1, by |-> by, stamp |-> 0]

\* The size of a row written by a hook is 0, so its stamp never matches a file's.
HookRow(f, by) == [of |-> form[f], by |-> by, stamp |-> 0]
Parses(f) == form[f] # 0 /\ form[f] \notin broken

\* OnFormChanged: loads the template and the form; without either it is an error.
OnFormChanged(e) ==
    /\ call[e].step = "changed" /\ call[e].kind = "form"
    /\ LET f == call[e].on IN
       /\ NotLocked({TplOf[f]})
       /\ cache' = Cached({TplOf[f]})
       /\ IF Loadable(TplOf[f]) /\ Parses(f)
          THEN Go(e, "reconcile", [Nothing EXCEPT !.forms[f] = HookRow(f, Seen(TplOf[f]))])
          ELSE End(e)
    /\ UNCHANGED <<files, reading, rows, scan, changed, decks, past>>

\* OnFormDeleted needs to load nothing.
DeleteBatch(c) ==
    IF c.kind = "form" THEN [Nothing EXCEPT !.fdel = {c.on}] ELSE [Nothing EXCEPT !.tdel = {c.on}]

HookReconcile(e) ==
    /\ call[e].step = "reconcile"
    /\ Reconcile(IF call[e].batch = Nothing THEN DeleteBatch(call[e]) ELSE call[e].batch)
    /\ End(e)
    /\ UNCHANGED <<files, cache, reading, scan, changed, past>>

----------------------------------------------------------------------------
(* Templates *)

\* SaveTemplate loads what it replaces and writes the file; the cache is cleared after it.
SaveTemplate(e, t) ==
    /\ writes < MaxWrites
    /\ NotLocked({t})
    /\ Start(e, "template", "clear", t)
    /\ writes' = writes + 1
    /\ tpl' = [tpl EXCEPT ![t] = writes']
    /\ cache' = Cached({t})
    /\ recreated' = IF tpl[t] = 0 THEN recreated \cup {t} ELSE recreated
    /\ UNCHANGED <<form, broken, reading, rows, changed, decks>>

DeleteTemplate(e, t) ==
    /\ tpl[t] # 0
    /\ Start(e, "template", "clearDeleted", t)
    /\ tpl' = [tpl EXCEPT ![t] = 0]
    /\ UNCHANGED <<form, broken, writes, cache, reading, rows, changed, decks, recreated>>

CacheClear(e) ==
    /\ call[e].step \in {"clear", "clearDeleted"}
    /\ cache' = [cache EXCEPT ![call[e].on] = 0]
    /\ Go(e, IF call[e].step = "clear" THEN "changed" ELSE "reconcile", Nothing)
    /\ UNCHANGED <<files, reading, rows, scan, changed, decks, past>>

\* The template's row, and those of the forms given that parse.
TemplateBatch(t, fs, trw, stamps) ==
    [Nothing EXCEPT
        !.tpls[t] = trw,
        !.forms = [f \in Forms |-> IF f \in fs /\ Parses(f)
                                   THEN [HookRow(f, Seen(t)) EXCEPT !.stamp = stamps[f]] ELSE NoFRow]]

Unsized == [f \in Forms |-> 0]

\* Every form the index has of the template is projected again.
OnTemplateChanged(e) ==
    /\ call[e].step = "changed" /\ call[e].kind = "template"
    /\ LET t == call[e].on IN
       /\ NotLocked({t})
       /\ cache' = Cached({t})
       /\ IF Loadable(t)
          THEN Go(e, "reconcile",
                  TemplateBatch(t, {f \in Forms : TplOf[f] = t /\ frow[f] # NoFRow},
                                [by |-> Seen(t), stamp |-> 0], Unsized))
          ELSE End(e)
    /\ UNCHANGED <<files, reading, rows, scan, changed, decks, past>>

\* RescanTemplate: everything of one template, whatever the stamps say.
RescanTemplate(e, t) ==
    /\ tpl[t] # 0 => Loadable(t)
    /\ NotLocked({t})
    /\ Settled
    /\ call[e].step = "idle" /\ MayStart("template")
    /\ Starts
    /\ cache' = IF tpl[t] = 0 THEN cache ELSE Cached({t})
    /\ call' = [call EXCEPT ![e] =
          [step |-> "reconcile", kind |-> "template", on |-> t,
           batch |-> IF tpl[t] = 0 THEN [Nothing EXCEPT !.tdel = {t}]
                     ELSE [TemplateBatch(t, {f \in Forms : TplOf[f] = t},
                                         [by |-> Seen(t), stamp |-> tpl[t]], form)
                           EXCEPT !.fdel = {f \in Forms : /\ TplOf[f] = t
                                                          /\ form[f] = 0 /\ frow[f] # NoFRow}]]]
    /\ recreated' = IF tpl[t] = 0 THEN recreated ELSE recreated \ {t}
    /\ UNCHANGED <<files, reading, rows, changed, decks>>

----------------------------------------------------------------------------
(* RescanAll *)

\* A pull, a clone or a discard changes files, then announces context:reloaded.
Pull ==
    /\ writes < MaxWrites
    /\ ~ changed /\ scan.step = "idle" /\ MayStart("rescan") /\ Settled
    /\ Starts
    /\ writes' = writes + 1
    /\ \E ts \in SUBSET (IF "template" \in Externals THEN Templates ELSE {}), fs \in SUBSET Forms :
       \E gone \in SUBSET (ts \cup fs) :
          /\ tpl'  = [t \in Templates |-> IF t \in gone THEN 0 ELSE IF t \in ts THEN writes' ELSE tpl[t]]
          /\ form' = [f \in Forms |-> IF f \in gone THEN 0 ELSE IF f \in fs THEN writes' ELSE form[f]]
          /\ broken' \in {broken} \cup IF "broken" \in Externals THEN {broken \cup {writes'}} ELSE {}
    /\ changed' = TRUE
    /\ UNCHANGED <<cache, reading, rows, call, decks, recreated>>

\* scanDisk
ScanDisk ==
    /\ changed /\ scan.step = "idle"
    /\ scan' = [NoScan EXCEPT !.step = "db", !.tpls = tpl, !.forms = form,
                              !.alone = \A e \in Editors : call[e].step = "idle"]
    /\ UNCHANGED <<files, cache, reading, rows, call, changed, decks, past>>

Differs(disk, stamp, present) == disk # 0 /\ (~ present \/ stamp # disk)

\* scanIndexState reads one table after the other, and both are compared with the tree.
ScanTemplates ==
    /\ scan.step = "db"
    /\ scan' = [scan EXCEPT !.step = "forms",
           !.loadT = {t \in Templates : Differs(scan.tpls[t], trow[t].stamp, trow[t] # NoTRow)},
           !.batch.tdel = {t \in Templates : scan.tpls[t] = 0 /\ trow[t] # NoTRow}]
    /\ UNCHANGED <<files, cache, reading, rows, call, changed, decks, past>>

\* Mutant: the rows of forms that are gone are not looked for.
ScanFormsAdds ==
    /\ scan.step = "forms"
    /\ LET here == {f \in Forms : scan.tpls[TplOf[f]] # 0} IN
       scan' = [scan EXCEPT !.step = "load",
           !.loadF = {f \in here : Differs(scan.forms[f], frow[f].stamp, frow[f] # NoFRow)}]
    /\ UNCHANGED <<files, cache, reading, rows, call, changed, decks, past>>

\* Folders without a template on disk are passed over.
ScanForms ==
    /\ scan.step = "forms"
    /\ LET here == {f \in Forms : scan.tpls[TplOf[f]] # 0} IN
       scan' = [scan EXCEPT !.step = "load",
           !.loadF = {f \in here : Differs(scan.forms[f], frow[f].stamp, frow[f] # NoFRow)},
           !.batch.fdel = {f \in here : scan.forms[f] = 0 /\ frow[f] # NoFRow}]
    /\ UNCHANGED <<files, cache, reading, rows, call, changed, decks, past>>

\* The files that differ are loaded one after the other, with the stamps of the scan:
\* templates come from the cache, forms from disk; what does not load is passed over.
ScanLoadTemplate(t) ==
    /\ scan.step = "load" /\ t \in scan.loadT
    /\ NotLocked({t})
    /\ cache' = Cached({t})
    /\ scan' = [scan EXCEPT !.loadT = @ \ {t},
           !.batch.tpls[t] = IF Loadable(t) THEN [by |-> Seen(t), stamp |-> scan.tpls[t]] ELSE @]
    /\ UNCHANGED <<files, reading, rows, call, changed, decks, past>>

ScanLoadForm(f) ==
    /\ scan.step = "load" /\ scan.loadT = {} /\ f \in scan.loadF
    /\ NotLocked({TplOf[f]})
    /\ cache' = Cached({TplOf[f]})
    /\ scan' = [scan EXCEPT !.loadF = @ \ {f},
           !.batch.forms[f] = IF Loadable(TplOf[f]) /\ Parses(f)
                              THEN [HookRow(f, Seen(TplOf[f])) EXCEPT !.stamp = scan.forms[f]] ELSE @]
    /\ UNCHANGED <<files, reading, rows, call, changed, decks, past>>

ScanReconcile ==
    /\ scan.step = "load" /\ scan.loadT = {} /\ scan.loadF = {}
    /\ Reconcile(scan.batch)
    /\ scan' = NoScan
    /\ changed' = FALSE
    /\ overlapped' = IF scan.alone /\ overlapped = "yes" THEN "cured" ELSE overlapped
    /\ recreated' = {}
    /\ UNCHANGED <<files, cache, reading, call>>

\* The process ends and starts again, with a rescan; an upgrade empties the forms
\* table or adds a column to templates.
Restart ==
    /\ ~ changed \/ \E e \in Editors : call[e].step # "idle"
    /\ "crash" \notin Externals => \A e \in Editors : call[e].kind = "template" => tpl[call[e].on] = 0
    /\ cache' = [t \in Templates |-> 0] /\ reading' = [t \in Templates |-> 0]
    /\ call' = [e \in Editors |-> NoCall]
    /\ scan' = NoScan /\ changed' = TRUE
    /\ \E upgrade \in {"none", "forms"} \cup (Externals \cap {"column"}) :
          /\ frow' = IF upgrade = "forms" THEN [f \in Forms |-> NoFRow] ELSE frow
          /\ trow' = IF upgrade = "column"
                     THEN [t \in Templates |-> IF trow[t] = NoTRow THEN NoTRow ELSE [trow[t] EXCEPT !.by = Blank]]
                     ELSE trow
    /\ deck' = [deck EXCEPT !.current = FALSE] /\ build' = NoBuild
    /\ UNCHANGED <<files, past>>

----------------------------------------------------------------------------
(* BuildDeck, of all forms *)

Shown == [f \in Forms |-> IF Parses(f) THEN form[f] ELSE 0]

\* The revision is read, and matches no cached deck.
DeckStart ==
    /\ build.step = "idle" /\ ~ deck.current
    /\ build' = [build EXCEPT !.step = "rev", !.current = TRUE]
    /\ UNCHANGED <<files, cache, reading, rows, call, scan, changed, deck, past>>

DeckRead ==
    /\ build.step = "rev"
    /\ build' = [build EXCEPT !.step = "built", !.forms = Shown]
    /\ UNCHANGED <<files, cache, reading, rows, call, scan, changed, deck, past>>

\* Mutant: cached under the revision of the end of the build.
DeckLate ==
    /\ build.step = "built"
    /\ deck' = [current |-> TRUE, forms |-> build.forms]
    /\ build' = NoBuild
    /\ UNCHANGED <<files, cache, reading, rows, call, scan, changed, past>>

\* Cached under the revision read when the build started.
DeckEnd ==
    /\ build.step = "built"
    /\ deck' = [current |-> build.current, forms |-> build.forms]
    /\ build' = NoBuild
    /\ UNCHANGED <<files, cache, reading, rows, call, scan, changed, past>>

----------------------------------------------------------------------------

Init ==
    /\ tpl = [t \in Templates |-> 0] /\ form = [f \in Forms |-> 0]
    /\ broken = {} /\ writes = 0
    /\ cache = [t \in Templates |-> 0] /\ reading = [t \in Templates |-> 0]
    /\ trow = [t \in Templates |-> NoTRow] /\ frow = [f \in Forms |-> NoFRow]
    /\ call = [e \in Editors |-> NoCall]
    /\ scan = NoScan /\ changed = TRUE
    /\ deck = [current |-> FALSE, forms |-> [f \in Forms |-> 0]]
    /\ build = NoBuild
    /\ overlapped = "never" /\ recreated = {}

Next ==
    \/ \E t \in Templates : LoadRead(t) \/ LoadPut(t)
    \/ \E e \in Editors :
        \/ \E f \in Forms : SaveForm(e, f) \/ DeleteForm(e, f)
        \/ \E t \in Templates : SaveTemplate(e, t) \/ DeleteTemplate(e, t) \/ RescanTemplate(e, t)
        \/ OnFormChanged(e) \/ CacheClear(e) \/ OnTemplateChanged(e) \/ HookReconcile(e)
    \/ Pull \/ ScanDisk \/ ScanTemplates \/ ScanForms \/ ScanReconcile
    \/ \E t \in Templates : ScanLoadTemplate(t)
    \/ \E f \in Forms : ScanLoadForm(f)
    \/ Restart
    \/ DeckStart \/ DeckRead \/ DeckEnd

Spec == Init /\ [][Next]_vars

----------------------------------------------------------------------------
(* Properties *)

TypeInv ==
    /\ tpl \in [Templates -> Stamps] /\ form \in [Forms -> Stamps]
    /\ broken \subseteq Stamps /\ writes \in Stamps
    /\ cache \in [Templates -> Stamps] /\ reading \in [Templates -> Stamps]
    /\ trow \in [Templates -> TRows] /\ frow \in [Forms -> FRows]
    /\ \A e \in Editors :
        /\ call[e].step \in {"idle", "changed", "clear", "clearDeleted", "reconcile"}
        /\ call[e].kind = "form" => call[e].on \in Forms \cup {0}
        /\ call[e].kind = "template" => call[e].on \in Templates
        /\ call[e].batch \in Batches
    /\ scan.step \in {"idle", "db", "forms", "load"} /\ scan.batch \in Batches
    /\ changed \in BOOLEAN
    /\ deck \in [current : BOOLEAN, forms : [Forms -> Stamps]]
    /\ build \in [step : {"idle", "rev", "built"}, current : BOOLEAN, forms : [Forms -> Stamps]]
    /\ overlapped \in {"never", "yes", "cured"} /\ recreated \subseteq Templates

Right(f) == frow[f].of = form[f] /\ frow[f].by = tpl[TplOf[f]]

\* "the op is not done until the index reflects disk" (app.go:90): whenever nothing
\* runs, no row is a phantom or stale, and every form of a template that was not
\* created since the last rescan has its row; a rescan on its own cures what
\* overlapping operations left.  Files that do not parse are passed over.
IndexReflectsDisk ==
    Quiet /\ overlapped # "yes" =>
        /\ \A t \in Templates : tpl[t] \notin broken => trow[t].by = tpl[t]
        /\ \A f \in Forms :
              form[f] \notin broken /\ tpl[TplOf[f]] \notin broken =>
                  IF form[f] = 0 \/ tpl[TplOf[f]] = 0 THEN frow[f] = NoFRow
                  ELSE Right(f) \/ (frow[f] = NoFRow /\ TplOf[f] \in recreated)

\* "any write bumps the rev and rebuilds" (render/slide.go:67): a deck served from
\* the cache shows the forms that are there as they are, even when its build ran
\* beside a write.  (A deck is asked for by the list of its forms, so one that still
\* holds a deleted form is not asked for again.)
DeckShowsForms ==
    Quiet /\ overlapped = "never" /\ deck.current =>
        \A f \in Forms : form[f] # 0 /\ form[f] \notin broken /\ tpl[TplOf[f]] # 0 => deck.forms[f] = form[f]
===============================================================================
