----------------------------- MODULE IndexProofs -----------------------------
(***************************************************************************)
(* Proofs about the index, for every set of templates, forms and editors   *)
(* and every number of writes.  What is proved of the rows and of the deck *)
(* assumes that only operations on forms overlap.                          *)
(***************************************************************************)
EXTENDS ContextIndex, TLAPS

----------------------------------------------------------------------------
(* Types *)

CallSteps == {"idle", "changed", "clear", "clearDeleted", "reconcile"}
Calls == [step : CallSteps, kind : {"form", "template"}, on : Forms \cup Templates \cup {0}, batch : Batches]
Scans == [step : {"idle", "db", "forms", "load"}, tpls : [Templates -> Stamps], forms : [Forms -> Stamps],
          loadT : SUBSET Templates, loadF : SUBSET Forms, batch : Batches, alone : BOOLEAN]

\* A call is about a form or a template.
Aimed(c) ==
    /\ c.kind = "form" => c.on \in Forms \cup {0}
    /\ c.kind = "template" => c.on \in Templates
    /\ c.step # "idle" /\ c.kind = "form" => c.on \in Forms

\* TypeInv with the whole of a call and of a scan.
TypeOK ==
    /\ TypeInv
    /\ \A e \in Editors : Aimed(call[e])
    /\ call \in [Editors -> Calls]
    /\ scan \in Scans

LEMMA Numbers ==
    /\ Stamps \subseteq Nat /\ 0 \in Stamps /\ Stamps \subseteq 0 .. Blank
    /\ Blank \in 0 .. Blank /\ 0 \in 0 .. Blank
    /\ \A w \in Stamps : w < MaxWrites => w + 1 \in Stamps
BY BoundsAssumption DEF Stamps, Blank

\* A template's row, a form's row and a batch are made of their parts.
LEMMA RowTypes ==
    /\ NoTRow \in TRows /\ NoFRow \in FRows
    /\ \A b \in 0 .. Blank, s \in Stamps : [by |-> b, stamp |-> s] \in TRows
    /\ \A o \in Stamps, b \in Stamps, s \in Stamps : [of |-> o, by |-> b, stamp |-> s] \in FRows
BY Numbers DEF TRows, FRows, NoTRow, NoFRow

LEMMA NothingType ==
    /\ Nothing \in Batches
    /\ Nothing.tpls \in [Templates -> TRows] /\ Nothing.forms \in [Forms -> FRows]
BY RowTypes DEF Nothing, Batches

LEMMA MakeBatch ==
    ASSUME NEW ts \in [Templates -> TRows], NEW fs \in [Forms -> FRows],
           NEW td \in SUBSET Templates, NEW fd \in SUBSET Forms
    PROVE  [tpls |-> ts, forms |-> fs, tdel |-> td, fdel |-> fd] \in Batches
BY DEF Batches

LEMMA Altered ==
    ASSUME NEW a, NEW b, NEW td, NEW fd, NEW n, n = [tpls |-> a, forms |-> b, tdel |-> td, fdel |-> fd],
           NEW k, NEW r
    PROVE  /\ [n EXCEPT !.tpls[k] = r] = [tpls |-> [a EXCEPT ![k] = r], forms |-> b, tdel |-> td, fdel |-> fd]
           /\ [n EXCEPT !.forms[k] = r] = [tpls |-> a, forms |-> [b EXCEPT ![k] = r], tdel |-> td, fdel |-> fd]
           /\ [n EXCEPT !.forms = r] = [tpls |-> a, forms |-> r, tdel |-> td, fdel |-> fd]
           /\ [n EXCEPT !.fdel = r] = [tpls |-> a, forms |-> b, tdel |-> td, fdel |-> r]
           /\ [n EXCEPT !.tdel = r] = [tpls |-> a, forms |-> b, tdel |-> r, fdel |-> fd]
OBVIOUS

\* What the hooks put in a batch.
LEMMA NothingParts == Nothing = [tpls |-> Nothing.tpls, forms |-> Nothing.forms, tdel |-> {}, fdel |-> {}]
<1> DEFINE a == [t \in Templates |-> NoTRow]
           b == [f \in Forms |-> NoFRow]
<1>1. Nothing = [tpls |-> a, forms |-> b, tdel |-> {}, fdel |-> {}]
  BY DEF Nothing
<1> HIDE DEF a, b
<1> QED
  BY <1>1

LEMMA NothingBut ==
    ASSUME NEW k, NEW r, NEW rs
    PROVE  [Nothing EXCEPT !.tpls[k] = r, !.forms = rs] =
              [tpls |-> [Nothing.tpls EXCEPT ![k] = r], forms |-> rs, tdel |-> {}, fdel |-> {}]
<1> DEFINE n == [Nothing EXCEPT !.tpls[k] = r]
<1>1. n = [tpls |-> [Nothing.tpls EXCEPT ![k] = r], forms |-> Nothing.forms, tdel |-> {}, fdel |-> {}]
  BY NothingParts, Altered
<1>2. [Nothing EXCEPT !.tpls[k] = r, !.forms = rs] = [n EXCEPT !.forms = rs]
  OBVIOUS
<1> HIDE DEF n
<1>3. [n EXCEPT !.forms = rs] = [tpls |-> [Nothing.tpls EXCEPT ![k] = r], forms |-> rs, tdel |-> {}, fdel |-> {}]
  BY <1>1, Altered
<1> QED
  BY <1>2, <1>3

LEMMA NothingButForm ==
    ASSUME NEW k, NEW r
    PROVE  [Nothing EXCEPT !.forms[k] = r] =
              [tpls |-> Nothing.tpls, forms |-> [Nothing.forms EXCEPT ![k] = r], tdel |-> {}, fdel |-> {}]
BY NothingParts, Altered

\* The batch of OnFormChanged.
LEMMA FormBatchType ==
    ASSUME NEW f \in Forms, NEW r \in FRows
    PROVE  LET b == [Nothing EXCEPT !.forms[f] = r] IN
           /\ b \in Batches /\ b.tpls = Nothing.tpls /\ b.forms = [Nothing.forms EXCEPT ![f] = r]
           /\ b.tdel = {} /\ b.fdel = {}
<1> DEFINE b == [Nothing EXCEPT !.forms[f] = r]
           fs == [Nothing.forms EXCEPT ![f] = r]
<1>1. b = [tpls |-> Nothing.tpls, forms |-> fs, tdel |-> {}, fdel |-> {}]
  BY NothingButForm
<1>2. fs \in [Forms -> FRows] /\ Nothing.tpls \in [Templates -> TRows]
  BY NothingType
<1> HIDE DEF fs, b
<1>3. b \in Batches
  BY <1>1, <1>2, MakeBatch
<1>4. b.tpls = Nothing.tpls /\ b.forms = fs /\ b.tdel = {} /\ b.fdel = {}
  BY <1>1
<1> QED
  BY <1>3, <1>4 DEF b, fs

LEMMA IdleTypes == NoCall \in Calls /\ NoScan \in Scans
BY NothingType, Numbers DEF NoCall, NoScan, Calls, Scans, CallSteps

LEMMA BatchParts ==
    ASSUME NEW b \in Batches
    PROVE  /\ b.tpls \in [Templates -> TRows] /\ b.forms \in [Forms -> FRows]
           /\ b.tdel \subseteq Templates /\ b.fdel \subseteq Forms
           /\ b = [tpls |-> b.tpls, forms |-> b.forms, tdel |-> b.tdel, fdel |-> b.fdel]
BY DEF Batches

LEMMA CallParts ==
    ASSUME TypeOK, NEW e \in Editors
    PROVE  /\ call[e] \in Calls
           /\ call[e].step \in CallSteps /\ call[e].kind \in {"form", "template"}
           /\ call[e].batch \in Batches
           /\ Aimed(call[e])
           /\ call[e].kind = "template" => call[e].on \in Templates
           /\ call[e].step # "idle" /\ call[e].kind = "form" => call[e].on \in Forms
BY DEF TypeOK, Aimed, Calls

LEMMA ScanParts ==
    ASSUME TypeOK
    PROVE  /\ scan.step \in {"idle", "db", "forms", "load"}
           /\ scan.tpls \in [Templates -> Stamps] /\ scan.forms \in [Forms -> Stamps]
           /\ scan.loadT \subseteq Templates /\ scan.loadF \subseteq Forms
           /\ scan.batch \in Batches /\ scan.alone \in BOOLEAN
BY DEF TypeOK, Scans

\* The template cache stays well-formed (LoadTemplate).
LEMMA CachedType ==
    ASSUME TypeOK, NEW ts
    PROVE  Cached(ts) \in [Templates -> Stamps]
<1>1. \A t \in Templates : Seen(t) \in Stamps
  BY DEF TypeOK, TypeInv, Seen
<1> QED
  BY <1>1 DEF Cached, TypeOK, TypeInv

LEMMA SeenType ==
    ASSUME TypeOK, NEW t \in Templates
    PROVE  Seen(t) \in Stamps /\ Seen(t) \in 0 .. Blank
<1>1. Seen(t) \in Stamps
  BY DEF TypeOK, TypeInv, Seen
<1> QED
  BY <1>1, Numbers

LEMMA HookRowType ==
    ASSUME TypeOK, NEW f \in Forms, NEW w \in Stamps, NEW s \in Stamps
    PROVE  /\ HookRow(f, w) \in FRows
           /\ HookRow(f, w) = [of |-> form[f], by |-> w, stamp |-> 0]
           /\ [HookRow(f, w) EXCEPT !.stamp = s] = [of |-> form[f], by |-> w, stamp |-> s]
           /\ [HookRow(f, w) EXCEPT !.stamp = s] \in FRows
<1>1. form[f] \in Stamps
  BY DEF TypeOK, TypeInv
<1>2. HookRow(f, w) = [of |-> form[f], by |-> w, stamp |-> 0]
  BY DEF HookRow
<1>3. [HookRow(f, w) EXCEPT !.stamp = s] = [of |-> form[f], by |-> w, stamp |-> s]
  BY <1>2
<1> QED
  BY <1>1, <1>2, <1>3, RowTypes, Numbers

\* A batch of one template.
LEMMA TemplateBatchType ==
    ASSUME TypeOK, NEW t \in Templates, NEW fs, NEW r \in TRows, NEW st \in [Forms -> Stamps]
    PROVE  LET b == TemplateBatch(t, fs, r, st) IN
           /\ b \in Batches
           /\ b.tpls = [Nothing.tpls EXCEPT ![t] = r]
           /\ b.forms = [f \in Forms |-> IF f \in fs /\ Parses(f)
                                         THEN [of |-> form[f], by |-> Seen(t), stamp |-> st[f]] ELSE NoFRow]
           /\ b.tdel = {} /\ b.fdel = {}
<1> DEFINE rows1 == [f \in Forms |-> IF f \in fs /\ Parses(f)
                                     THEN [HookRow(f, Seen(t)) EXCEPT !.stamp = st[f]] ELSE NoFRow]
           rows2 == [f \in Forms |-> IF f \in fs /\ Parses(f)
                                     THEN [of |-> form[f], by |-> Seen(t), stamp |-> st[f]] ELSE NoFRow]
<1>1. rows1 = rows2 /\ rows2 \in [Forms -> FRows]
  <2>1. \A f \in Forms : st[f] \in Stamps
    OBVIOUS
  <2>2. \A f \in Forms : /\ [HookRow(f, Seen(t)) EXCEPT !.stamp = st[f]]
                               = [of |-> form[f], by |-> Seen(t), stamp |-> st[f]]
                         /\ [HookRow(f, Seen(t)) EXCEPT !.stamp = st[f]] \in FRows
    BY <2>1, SeenType, HookRowType
  <2> QED
    BY <2>2, RowTypes
<1>2. TemplateBatch(t, fs, r, st) = [Nothing EXCEPT !.tpls[t] = r, !.forms = rows1]
  BY DEF TemplateBatch
<1>3. [Nothing.tpls EXCEPT ![t] = r] \in [Templates -> TRows]
  BY NothingType
<1> HIDE DEF rows1
<1>4. TemplateBatch(t, fs, r, st) =
        [tpls |-> [Nothing.tpls EXCEPT ![t] = r], forms |-> rows1, tdel |-> {}, fdel |-> {}]
  BY <1>2, NothingBut
<1> HIDE DEF rows2
<1>5. TemplateBatch(t, fs, r, st) \in Batches
  BY <1>1, <1>3, <1>4, MakeBatch
<1>6. LET b == TemplateBatch(t, fs, r, st) IN
      b.tpls = [Nothing.tpls EXCEPT ![t] = r] /\ b.forms = rows2 /\ b.tdel = {} /\ b.fdel = {}
  BY <1>1, <1>4
<1> QED
  BY <1>5, <1>6 DEF rows2

\* The tables stay well-formed (Reconcile).
LEMMA AfterType ==
    ASSUME TypeOK, NEW b \in Batches
    PROVE  TemplatesAfter(b) \in [Templates -> TRows] /\ FormsAfter(b) \in [Forms -> FRows]
BY BatchParts, RowTypes DEF TemplatesAfter, FormsAfter, TypeOK, TypeInv

LEMMA ReconcileType ==
    ASSUME TypeOK, NEW b \in Batches, Reconcile(b)
    PROVE  /\ trow' \in [Templates -> TRows] /\ frow' \in [Forms -> FRows]
           /\ deck' \in [current : BOOLEAN, forms : [Forms -> Stamps]]
           /\ build' \in [step : {"idle", "rev", "built"}, current : BOOLEAN, forms : [Forms -> Stamps]]
<1>1. TypeInv
  BY DEF TypeOK
<1>2. CASE KeysHold(b)
  <2>1. trow' = TemplatesAfter(b) /\ frow' = FormsAfter(b)
    BY <1>2 DEF Reconcile
  <2>2. (deck' = [deck EXCEPT !.current = FALSE] /\ build' = [build EXCEPT !.current = FALSE])
           \/ (deck' = deck /\ build' = build)
    BY <1>2 DEF Reconcile, NewRevision, decks
  <2> QED
    BY <1>1, <2>1, <2>2, AfterType DEF TypeInv
<1>3. CASE ~ KeysHold(b)
  BY <1>1, <1>3 DEF Reconcile, TypeInv, rows, decks
<1> QED
  BY <1>2, <1>3

\* The batch a hook applies.
Batch(e) == IF call[e].batch = Nothing THEN DeleteBatch(call[e]) ELSE call[e].batch

LEMMA DeleteBatchType ==
    ASSUME TypeOK, NEW e \in Editors, call[e].step # "idle"
    PROVE  /\ DeleteBatch(call[e]) \in Batches
           /\ call[e].kind = "form" =>
                 DeleteBatch(call[e]) = [tpls |-> Nothing.tpls, forms |-> Nothing.forms, tdel |-> {}, fdel |-> {call[e].on}]
           /\ call[e].kind = "template" =>
                 DeleteBatch(call[e]) = [tpls |-> Nothing.tpls, forms |-> Nothing.forms, tdel |-> {call[e].on}, fdel |-> {}]
           /\ Batch(e) \in Batches
<1>1. call[e].kind = "form" =>
         DeleteBatch(call[e]) = [tpls |-> Nothing.tpls, forms |-> Nothing.forms, tdel |-> {}, fdel |-> {call[e].on}]
  BY DEF DeleteBatch, Nothing
<1>2. call[e].kind = "template" =>
         DeleteBatch(call[e]) = [tpls |-> Nothing.tpls, forms |-> Nothing.forms, tdel |-> {call[e].on}, fdel |-> {}]
  BY CallParts DEF DeleteBatch, Nothing
<1>3. DeleteBatch(call[e]) \in Batches
  BY <1>1, <1>2, CallParts, NothingType DEF Batches
<1> QED
  BY <1>1, <1>2, <1>3, CallParts DEF Batch

----------------------------------------------------------------------------
(* What a step does to the calls *)

LEMMA StartFacts ==
    ASSUME TypeOK, NEW e \in Editors, NEW kind \in {"form", "template"}, NEW step \in CallSteps,
           NEW on, on \in (IF kind = "form" THEN Forms ELSE Templates), Start(e, kind, step, on)
    PROVE  /\ call' = [call EXCEPT ![e] = [step |-> step, kind |-> kind, on |-> on, batch |-> Nothing]]
           /\ call' \in [Editors -> Calls]
           /\ \A d \in Editors : Aimed(call'[d])
           /\ scan' = [scan EXCEPT !.alone = FALSE] /\ scan' \in Scans
           /\ scan'.step = scan.step /\ scan'.batch = scan.batch
           /\ overlapped' \in {"never", "yes", "cured"}
<1> DEFINE c == [step |-> step, kind |-> kind, on |-> on, batch |-> Nothing]
           n1 == [NoCall EXCEPT !.step = step]
           n2 == [n1 EXCEPT !.kind = kind]
<1>1. n1 = [step |-> step, kind |-> "form", on |-> 0, batch |-> Nothing]
  BY DEF NoCall
<1>2. [NoCall EXCEPT !.step = step, !.kind = kind, !.on = on] = [n2 EXCEPT !.on = on]
  OBVIOUS
<1> HIDE DEF n1
<1>3. n2 = [step |-> step, kind |-> kind, on |-> 0, batch |-> Nothing]
  BY <1>1
<1> HIDE DEF n2
<1>4. [n2 EXCEPT !.on = on] = c
  BY <1>3
<1>5. call' = [call EXCEPT ![e] = c]
  BY <1>2, <1>4 DEF Start
<1>6. c \in Calls
  BY NothingType DEF Calls
<1>7. call \in [Editors -> Calls] /\ scan \in Scans /\ TypeInv
  BY DEF TypeOK
<1>8. call' \in [Editors -> Calls]
  BY <1>5, <1>6, <1>7
<1>9. \A d \in Editors : Aimed(call'[d])
  BY <1>5, <1>7, CallParts DEF Aimed
<1>10. scan' = [scan EXCEPT !.alone = FALSE]
  BY DEF Start, Starts
<1>11. scan' \in Scans /\ scan'.step = scan.step /\ scan'.batch = scan.batch
  BY <1>7, <1>10 DEF Scans
<1>12. overlapped' \in {"never", "yes", "cured"}
  BY <1>7 DEF Start, Starts, TypeInv
<1> QED
  BY <1>5, <1>8, <1>9, <1>10, <1>11, <1>12

LEMMA GoFacts ==
    ASSUME TypeOK, NEW e \in Editors, NEW step \in CallSteps, NEW b \in Batches, Go(e, step, b),
           call[e].step # "idle"
    PROVE  /\ call' \in [Editors -> Calls]
           /\ call'[e].step = step /\ call'[e].kind = call[e].kind
           /\ call'[e].on = call[e].on /\ call'[e].batch = b
           /\ \A d \in Editors : d # e => call'[d] = call[d]
           /\ \A d \in Editors : Aimed(call'[d])
<1> USE DEF Go
<1>1. call \in [Editors -> Calls] /\ TypeInv
  BY DEF TypeOK
<1>2. call' \in [Editors -> Calls]
  BY <1>1 DEF Calls
<1>3. call'[e].step = step
  BY <1>1 DEF Calls
<1>4. call'[e].kind = call[e].kind
  BY <1>1 DEF Calls
<1>5. call'[e].on = call[e].on
  BY <1>1 DEF Calls
<1>6. call'[e].batch = b
  BY <1>1 DEF Calls
<1>7. \A d \in Editors : d # e => call'[d] = call[d]
  BY <1>1
<1> HIDE DEF Go
<1>8. \A d \in Editors : Aimed(call'[d])
  BY <1>4, <1>5, <1>7, CallParts DEF Aimed
<1> QED
  BY <1>2, <1>3, <1>4, <1>5, <1>6, <1>7, <1>8

LEMMA EndFacts ==
    ASSUME TypeOK, NEW e \in Editors, End(e)
    PROVE  /\ call' \in [Editors -> Calls]
           /\ call'[e] = NoCall
           /\ \A d \in Editors : d # e => call'[d] = call[d]
           /\ \A d \in Editors : Aimed(call'[d])
<1>1. call \in [Editors -> Calls]
  BY DEF TypeOK
<1>2. call'[e] = NoCall /\ \A d \in Editors : d # e => call'[d] = call[d]
  BY <1>1 DEF End
<1>3. call' \in [Editors -> Calls]
  BY <1>1, IdleTypes DEF End
<1>4. Aimed(NoCall)
  BY DEF NoCall, Aimed
<1> QED
  BY <1>2, <1>3, <1>4, CallParts

----------------------------------------------------------------------------
(* Types, continued *)

LEMMA NextCases ==
    ASSUME Next
    PROVE  \/ \E t \in Templates : LoadRead(t) \/ LoadPut(t)
           \/ \E e \in Editors, f \in Forms : SaveForm(e, f) \/ DeleteForm(e, f)
           \/ \E e \in Editors, t \in Templates :
                 SaveTemplate(e, t) \/ DeleteTemplate(e, t) \/ RescanTemplate(e, t)
           \/ \E e \in Editors : \/ OnFormChanged(e) \/ CacheClear(e) \/ OnTemplateChanged(e)
                                 \/ HookReconcile(e)
           \/ Pull \/ ScanDisk \/ ScanTemplates \/ ScanForms \/ ScanReconcile \/ Restart
           \/ \E t \in Templates : ScanLoadTemplate(t)
           \/ \E f \in Forms : ScanLoadForm(f)
           \/ DeckStart \/ DeckRead \/ DeckEnd
BY DEF Next

\* TypeOK of the next state, from its parts.
LEMMA Typed ==
    ASSUME tpl' \in [Templates -> Stamps], form' \in [Forms -> Stamps],
           broken' \subseteq Stamps, writes' \in Stamps,
           cache' \in [Templates -> Stamps], reading' \in [Templates -> Stamps],
           trow' \in [Templates -> TRows], frow' \in [Forms -> FRows],
           call' \in [Editors -> Calls],
           \A d \in Editors : Aimed(call'[d]),
           scan' \in Scans, changed' \in BOOLEAN,
           deck' \in [current : BOOLEAN, forms : [Forms -> Stamps]],
           build' \in [step : {"idle", "rev", "built"}, current : BOOLEAN, forms : [Forms -> Stamps]],
           overlapped' \in {"never", "yes", "cured"}, recreated' \subseteq Templates
    PROVE  TypeOK'
<1>1. \A e \in Editors : call'[e].step \in CallSteps /\ call'[e].batch \in Batches
  BY DEF Calls
<1>2. scan'.step \in {"idle", "db", "forms", "load"} /\ scan'.batch \in Batches
  BY DEF Scans
<1>3. \A e \in Editors : /\ call'[e].kind = "form" => call'[e].on \in Forms \cup {0}
                         /\ call'[e].kind = "template" => call'[e].on \in Templates
  BY DEF Aimed
<1> QED
  BY <1>1, <1>2, <1>3 DEF TypeOK, TypeInv, CallSteps

\* The parts of TypeOK.
LEMMA Parts ==
    ASSUME TypeOK
    PROVE  /\ tpl \in [Templates -> Stamps] /\ form \in [Forms -> Stamps]
           /\ broken \subseteq Stamps /\ writes \in Stamps
           /\ cache \in [Templates -> Stamps] /\ reading \in [Templates -> Stamps]
           /\ trow \in [Templates -> TRows] /\ frow \in [Forms -> FRows]
           /\ call \in [Editors -> Calls]
           /\ \A d \in Editors : Aimed(call[d])
           /\ scan \in Scans /\ changed \in BOOLEAN
           /\ deck \in [current : BOOLEAN, forms : [Forms -> Stamps]]
           /\ build \in [step : {"idle", "rev", "built"}, current : BOOLEAN, forms : [Forms -> Stamps]]
           /\ overlapped \in {"never", "yes", "cured"} /\ recreated \subseteq Templates
BY DEF TypeOK, TypeInv

\* The diff and the batch of a rescan, field by field.
LEMMA ScanTemplatesFacts ==
    ASSUME TypeOK, ScanTemplates
    PROVE  /\ scan' \in Scans
           /\ scan'.step = "forms" /\ scan'.tpls = scan.tpls /\ scan'.forms = scan.forms
           /\ scan'.batch.tpls = scan.batch.tpls /\ scan'.batch.forms = scan.batch.forms
           /\ scan'.batch.tdel = {t \in Templates : scan.tpls[t] = 0 /\ trow[t] # NoTRow}
           /\ scan'.alone = scan.alone
<1> DEFINE lt == {t \in Templates : Differs(scan.tpls[t], trow[t].stamp, trow[t] # NoTRow)}
           td == {t \in Templates : scan.tpls[t] = 0 /\ trow[t] # NoTRow}
<1>1. scan' = [scan EXCEPT !.step = "forms", !.loadT = lt, !.batch.tdel = td]
  BY DEF ScanTemplates
<1>2. lt \in SUBSET Templates /\ td \in SUBSET Templates
  OBVIOUS
<1>3. scan \in Scans
  BY DEF TypeOK
<1> HIDE DEF lt, td
<1>4. scan' \in Scans
  BY <1>1, <1>2, <1>3 DEF Scans, Batches
<1>5. scan'.step = "forms" /\ scan'.tpls = scan.tpls /\ scan'.forms = scan.forms /\ scan'.alone = scan.alone
  BY <1>1, <1>3 DEF Scans
<1>6. scan'.batch.tpls = scan.batch.tpls /\ scan'.batch.forms = scan.batch.forms
  BY <1>1, <1>3 DEF Scans, Batches
<1>7. scan'.batch.tdel = td
  BY <1>1, <1>3 DEF Scans, Batches
<1> QED
  BY <1>4, <1>5, <1>6, <1>7 DEF td

LEMMA ScanFormsFacts ==
    ASSUME TypeOK, ScanForms
    PROVE  /\ scan' \in Scans
           /\ scan'.step = "load" /\ scan'.tpls = scan.tpls /\ scan'.forms = scan.forms
           /\ scan'.loadF = {f \in Forms : /\ scan.tpls[TplOf[f]] # 0
                                           /\ Differs(scan.forms[f], frow[f].stamp, frow[f] # NoFRow)}
           /\ scan'.batch.tpls = scan.batch.tpls /\ scan'.batch.forms = scan.batch.forms
           /\ scan'.batch.tdel = scan.batch.tdel
           /\ scan'.batch.fdel = {f \in Forms : /\ scan.tpls[TplOf[f]] # 0
                                                /\ scan.forms[f] = 0 /\ frow[f] # NoFRow}
           /\ scan'.alone = scan.alone
<1> DEFINE here == {f \in Forms : scan.tpls[TplOf[f]] # 0}
           lf == {f \in here : Differs(scan.forms[f], frow[f].stamp, frow[f] # NoFRow)}
           fd == {f \in here : scan.forms[f] = 0 /\ frow[f] # NoFRow}
<1>1. scan' = [scan EXCEPT !.step = "load", !.loadF = lf, !.batch.fdel = fd]
  BY DEF ScanForms
<1>2. lf \in SUBSET Forms /\ fd \in SUBSET Forms
  OBVIOUS
<1>3. lf = {f \in Forms : /\ scan.tpls[TplOf[f]] # 0
                          /\ Differs(scan.forms[f], frow[f].stamp, frow[f] # NoFRow)}
  OBVIOUS
<1>4. fd = {f \in Forms : scan.tpls[TplOf[f]] # 0 /\ scan.forms[f] = 0 /\ frow[f] # NoFRow}
  OBVIOUS
<1>5. scan \in Scans
  BY DEF TypeOK
<1> HIDE DEF here, lf, fd
<1>6. scan' \in Scans
  BY <1>1, <1>2, <1>5 DEF Scans, Batches
<1>7. scan'.step = "load" /\ scan'.tpls = scan.tpls /\ scan'.forms = scan.forms
  BY <1>1, <1>5 DEF Scans
<1>8. scan'.loadF = lf /\ scan'.alone = scan.alone
  BY <1>1, <1>5 DEF Scans
<1>9. scan'.batch.tpls = scan.batch.tpls /\ scan'.batch.forms = scan.batch.forms /\ scan'.batch.tdel = scan.batch.tdel
  BY <1>1, <1>5 DEF Scans, Batches
<1>10. scan'.batch.fdel = fd
  BY <1>1, <1>5 DEF Scans, Batches
<1> QED
  BY <1>3, <1>4, <1>6, <1>7, <1>8, <1>9, <1>10

\* What one load puts in the batch.
LEMMA ScanLoadTemplateFacts ==
    ASSUME TypeOK, NEW t \in Templates, ScanLoadTemplate(t)
    PROVE  /\ scan' \in Scans
           /\ scan'.step = "load" /\ scan'.tpls = scan.tpls /\ scan'.forms = scan.forms
           /\ scan'.alone = scan.alone /\ scan'.loadF = scan.loadF
           /\ scan'.batch.tdel = scan.batch.tdel /\ scan'.batch.fdel = scan.batch.fdel
           /\ scan'.batch.forms = scan.batch.forms
           /\ scan'.batch.tpls[t] = IF Loadable(t) THEN [by |-> Seen(t), stamp |-> scan.tpls[t]]
                                    ELSE scan.batch.tpls[t]
           /\ \A u \in Templates : u # t => scan'.batch.tpls[u] = scan.batch.tpls[u]
<1> DEFINE r == IF Loadable(t) THEN [by |-> Seen(t), stamp |-> scan.tpls[t]] ELSE scan.batch.tpls[t]
<1>1. scan' = [scan EXCEPT !.step = "load", !.loadT = @ \ {t}, !.batch.tpls[t] = r]
  <2>1. scan.step = "load" /\ scan' = [scan EXCEPT !.loadT = @ \ {t}, !.batch.tpls[t] = r]
    BY DEF ScanLoadTemplate
  <2>2. scan \in Scans
    BY DEF TypeOK
  <2> HIDE DEF r
  <2> QED
    BY <2>1, <2>2 DEF Scans
<1>2. scan.batch.tpls \in [Templates -> TRows]
  BY ScanParts DEF Batches
<1>3. r \in TRows
  BY <1>2, RowTypes, SeenType, ScanParts
<1>4. scan \in Scans
  BY DEF TypeOK
<1> HIDE DEF r
<1>5. scan' \in Scans
  BY <1>1, <1>2, <1>3, <1>4 DEF Scans, Batches
<1>6. /\ scan'.step = "load" /\ scan'.tpls = scan.tpls /\ scan'.forms = scan.forms /\ scan'.alone = scan.alone
      /\ scan'.loadF = scan.loadF
  BY <1>1, <1>4 DEF Scans
<1>7. /\ scan'.batch.tdel = scan.batch.tdel /\ scan'.batch.fdel = scan.batch.fdel
      /\ scan'.batch.forms = scan.batch.forms
  BY <1>1, <1>4 DEF Scans, Batches
<1>8. scan'.batch.tpls = [scan.batch.tpls EXCEPT ![t] = r]
  BY <1>1, <1>4 DEF Scans, Batches
<1> QED
  BY <1>2, <1>5, <1>6, <1>7, <1>8 DEF r

LEMMA ScanLoadFormFacts ==
    ASSUME TypeOK, NEW f \in Forms, ScanLoadForm(f)
    PROVE  /\ scan' \in Scans
           /\ scan'.step = "load" /\ scan'.tpls = scan.tpls /\ scan'.forms = scan.forms
           /\ scan'.alone = scan.alone /\ scan'.loadF = scan.loadF \ {f}
           /\ scan'.batch.tdel = scan.batch.tdel /\ scan'.batch.fdel = scan.batch.fdel
           /\ scan'.batch.tpls = scan.batch.tpls
           /\ scan'.batch.forms[f] = IF Loadable(TplOf[f]) /\ Parses(f)
                                     THEN [of |-> form[f], by |-> Seen(TplOf[f]), stamp |-> scan.forms[f]]
                                     ELSE scan.batch.forms[f]
           /\ \A g \in Forms : g # f => scan'.batch.forms[g] = scan.batch.forms[g]
<1> DEFINE s == IF Loadable(TplOf[f]) /\ Parses(f)
                THEN [HookRow(f, Seen(TplOf[f])) EXCEPT !.stamp = scan.forms[f]] ELSE scan.batch.forms[f]
           r == IF Loadable(TplOf[f]) /\ Parses(f)
                THEN [of |-> form[f], by |-> Seen(TplOf[f]), stamp |-> scan.forms[f]] ELSE scan.batch.forms[f]
<1>1. scan' = [scan EXCEPT !.step = "load", !.loadF = @ \ {f}, !.batch.forms[f] = s]
  <2>1. scan.step = "load" /\ scan' = [scan EXCEPT !.loadF = @ \ {f}, !.batch.forms[f] = s]
    BY DEF ScanLoadForm
  <2>2. scan \in Scans
    BY DEF TypeOK
  <2> HIDE DEF s
  <2> QED
    BY <2>1, <2>2 DEF Scans
<1>2. scan.batch.forms \in [Forms -> FRows]
  BY ScanParts DEF Batches
<1>3. s = r /\ r \in FRows
  <2>1. scan.forms[f] \in Stamps /\ TplOf[f] \in Templates
    BY ScanParts, TplOfAssumption
  <2>2. /\ [HookRow(f, Seen(TplOf[f])) EXCEPT !.stamp = scan.forms[f]]
              = [of |-> form[f], by |-> Seen(TplOf[f]), stamp |-> scan.forms[f]]
        /\ [HookRow(f, Seen(TplOf[f])) EXCEPT !.stamp = scan.forms[f]] \in FRows
    BY <2>1, SeenType, HookRowType
  <2> QED
    BY <1>2, <2>2
<1>4. scan \in Scans
  BY DEF TypeOK
<1> HIDE DEF r, s
<1>5. scan' \in Scans
  BY <1>1, <1>2, <1>3, <1>4 DEF Scans, Batches
<1>6. /\ scan'.step = "load" /\ scan'.tpls = scan.tpls /\ scan'.forms = scan.forms /\ scan'.alone = scan.alone
      /\ scan'.loadF = scan.loadF \ {f}
  BY <1>1, <1>4 DEF Scans
<1>7. /\ scan'.batch.tdel = scan.batch.tdel /\ scan'.batch.fdel = scan.batch.fdel
      /\ scan'.batch.tpls = scan.batch.tpls
  BY <1>1, <1>4 DEF Scans, Batches
<1>8. scan'.batch.forms = [scan.batch.forms EXCEPT ![f] = r]
  BY <1>1, <1>3, <1>4 DEF Scans, Batches
<1> QED
  BY <1>2, <1>5, <1>6, <1>7, <1>8 DEF r

\* scanDisk copies the tree.
LEMMA ScanDiskFacts ==
    ASSUME TypeOK, ScanDisk
    PROVE  /\ scan' \in Scans
           /\ scan'.step = "db" /\ scan'.tpls = tpl /\ scan'.forms = form /\ scan'.batch = Nothing
           /\ scan'.alone = (\A e \in Editors : call[e].step = "idle")
<1> DEFINE al == \A e \in Editors : call[e].step = "idle"
<1>1. scan' = [NoScan EXCEPT !.step = "db", !.tpls = tpl, !.forms = form, !.alone = al]
  BY DEF ScanDisk
<1>2. al \in BOOLEAN
  OBVIOUS
<1>3. NoScan \in Scans /\ NoScan.batch = Nothing
  BY IdleTypes DEF NoScan
<1>4. tpl \in [Templates -> Stamps] /\ form \in [Forms -> Stamps]
  BY Parts
<1> HIDE DEF al
<1>5. scan' \in Scans
  BY <1>1, <1>2, <1>3, <1>4 DEF Scans
<1>6. scan'.step = "db" /\ scan'.tpls = tpl /\ scan'.forms = form
  BY <1>1, <1>3 DEF Scans
<1>7. scan'.batch = Nothing
  BY <1>1, <1>3 DEF Scans
<1>8. scan'.alone = al
  BY <1>1, <1>2, <1>3 DEF Scans
<1> QED
  BY <1>5, <1>6, <1>7, <1>8 DEF al

\* The rows RescanTemplate projects and those it removes.
RescanRows(t) ==
    [f \in Forms |-> IF TplOf[f] = t /\ Parses(f)
                     THEN [of |-> form[f], by |-> Seen(t), stamp |-> form[f]] ELSE NoFRow]
RescanGone(t) == {f \in Forms : TplOf[f] = t /\ form[f] = 0 /\ frow[f] # NoFRow}

\* The call RescanTemplate leaves.
LEMMA RescanFacts ==
    ASSUME TypeOK, NEW e \in Editors, NEW t \in Templates, RescanTemplate(e, t)
    PROVE  /\ call' \in [Editors -> Calls]
           /\ call'[e].step = "reconcile" /\ call'[e].kind = "template" /\ call'[e].on = t
           /\ \A d \in Editors : d # e => call'[d] = call[d]
           /\ \A d \in Editors : Aimed(call'[d])
           /\ tpl[t] = 0 => call'[e].batch = [Nothing EXCEPT !.tdel = {t}]
           /\ tpl[t] # 0 =>
                 /\ call'[e].batch.tpls = [Nothing.tpls EXCEPT ![t] = [by |-> Seen(t), stamp |-> tpl[t]]]
                 /\ call'[e].batch.forms = RescanRows(t)
                 /\ call'[e].batch.tdel = {}
                 /\ call'[e].batch.fdel = RescanGone(t)
<1> DEFINE own == {f \in Forms : TplOf[f] = t}
           r == [by |-> Seen(t), stamp |-> tpl[t]]
           gone == {f \in Forms : TplOf[f] = t /\ form[f] = 0 /\ frow[f] # NoFRow}
           b == TemplateBatch(t, own, r, form)
           bt == IF tpl[t] = 0 THEN [Nothing EXCEPT !.tdel = {t}] ELSE [b EXCEPT !.fdel = gone]
<1>1. call' = [call EXCEPT ![e] = [step |-> "reconcile", kind |-> "template", on |-> t, batch |-> bt]]
  BY DEF RescanTemplate
<1>2. r \in TRows /\ form \in [Forms -> Stamps] /\ gone \in SUBSET Forms
  BY SeenType, RowTypes, Parts, Numbers
<1>3. /\ b \in Batches /\ b.tpls = [Nothing.tpls EXCEPT ![t] = r] /\ b.tdel = {} /\ b.fdel = {}
      /\ b.forms = [f \in Forms |-> IF f \in own /\ Parses(f)
                                    THEN [of |-> form[f], by |-> Seen(t), stamp |-> form[f]] ELSE NoFRow]
  <2> HIDE DEF r, own
  <2> QED
    BY <1>2, TemplateBatchType
<1>4. b.forms = RescanRows(t) /\ gone = RescanGone(t)
  BY <1>3 DEF RescanRows, RescanGone
<1> HIDE DEF own, r, gone, b
<1>5. /\ [b EXCEPT !.fdel = gone] \in Batches
      /\ [b EXCEPT !.fdel = gone].tpls = b.tpls /\ [b EXCEPT !.fdel = gone].forms = b.forms
      /\ [b EXCEPT !.fdel = gone].tdel = {} /\ [b EXCEPT !.fdel = gone].fdel = gone
  BY <1>2, <1>3 DEF Batches
<1>6. [Nothing EXCEPT !.tdel = {t}] \in Batches
  BY NothingType DEF Batches
<1>7. bt \in Batches
  BY <1>5, <1>6
<1>8. call \in [Editors -> Calls]
  BY Parts
<1>9. [step |-> "reconcile", kind |-> "template", on |-> t, batch |-> bt] \in Calls
  BY <1>7 DEF Calls, CallSteps
<1> HIDE DEF bt
<1>10. /\ call' \in [Editors -> Calls]
       /\ call'[e] = [step |-> "reconcile", kind |-> "template", on |-> t, batch |-> bt]
       /\ \A d \in Editors : d # e => call'[d] = call[d]
  BY <1>1, <1>8, <1>9
<1>11. call'[e].batch = bt
  BY <1>10
<1>12. call'[e].step = "reconcile" /\ call'[e].kind = "template" /\ call'[e].on = t
  BY <1>10
<1>13. \A d \in Editors : Aimed(call'[d])
  BY <1>10, <1>12, Parts DEF Aimed
<1>14. tpl[t] = 0 => bt = [Nothing EXCEPT !.tdel = {t}]
  BY DEF bt
<1>15. tpl[t] # 0 => bt = [b EXCEPT !.fdel = gone]
  BY DEF bt
<1> QED
  BY <1>3, <1>4, <1>5, <1>10, <1>11, <1>12, <1>13, <1>14, <1>15 DEF r

\* The batch of OnTemplateChanged, and what it reads.
LEMMA TemplateChangedBatch ==
    ASSUME TypeOK, NEW t \in Templates
    PROVE  LET b == TemplateBatch(t, {f \in Forms : TplOf[f] = t /\ frow[f] # NoFRow},
                                  [by |-> Seen(t), stamp |-> 0], Unsized) IN
           /\ b \in Batches
           /\ b.tpls = [Nothing.tpls EXCEPT ![t] = [by |-> Seen(t), stamp |-> 0]]
           /\ b.forms = [f \in Forms |-> IF TplOf[f] = t /\ frow[f] # NoFRow /\ Parses(f)
                                         THEN [of |-> form[f], by |-> Seen(t), stamp |-> 0] ELSE NoFRow]
           /\ b.tdel = {} /\ b.fdel = {}
<1> DEFINE own == {f \in Forms : TplOf[f] = t /\ frow[f] # NoFRow}
           r == [by |-> Seen(t), stamp |-> 0]
           b == TemplateBatch(t, own, r, Unsized)
<1>1. r \in TRows /\ Unsized \in [Forms -> Stamps]
  BY SeenType, RowTypes, Numbers DEF Unsized
<1>2. /\ b \in Batches /\ b.tpls = [Nothing.tpls EXCEPT ![t] = r] /\ b.tdel = {} /\ b.fdel = {}
      /\ b.forms = [f \in Forms |-> IF f \in own /\ Parses(f)
                                    THEN [of |-> form[f], by |-> Seen(t), stamp |-> Unsized[f]] ELSE NoFRow]
  <2> DEFINE u == Unsized
  <2>1. u \in [Forms -> Stamps]
    BY <1>1
  <2> HIDE DEF r, own, u
  <2>2. LET bb == TemplateBatch(t, own, r, u) IN
        /\ bb \in Batches /\ bb.tpls = [Nothing.tpls EXCEPT ![t] = r] /\ bb.tdel = {} /\ bb.fdel = {}
        /\ bb.forms = [f \in Forms |-> IF f \in own /\ Parses(f)
                                        THEN [of |-> form[f], by |-> Seen(t), stamp |-> u[f]] ELSE NoFRow]
    BY <1>1, <2>1, TemplateBatchType
  <2> QED
    BY <2>2 DEF u
<1>3. b.forms = [f \in Forms |-> IF TplOf[f] = t /\ frow[f] # NoFRow /\ Parses(f)
                                 THEN [of |-> form[f], by |-> Seen(t), stamp |-> 0] ELSE NoFRow]
  BY <1>2 DEF Unsized
<1> QED
  BY <1>2, <1>3

LEMMA TypeInit == Init => TypeOK
<1> SUFFICES ASSUME Init PROVE TypeOK
  OBVIOUS
<1>1. TypeInv
  BY RowTypes, NothingType, Numbers DEF Init, TypeInv, NoCall, NoScan, NoBuild
<1>2. call \in [Editors -> Calls] /\ scan \in Scans /\ \A e \in Editors : Aimed(call[e])
  BY IdleTypes DEF Init, Aimed, NoCall
<1> QED
  BY <1>1, <1>2 DEF TypeOK

LEMMA TypeStep == TypeOK /\ [Next]_vars => TypeOK'
<1> SUFFICES ASSUME TypeOK, [Next]_vars PROVE TypeOK'
  OBVIOUS
<1> USE DEF files, rows, decks, past
<1>0. \A f \in Forms : TplOf[f] \in Templates
  BY TplOfAssumption
<1>n. writes \in Stamps /\ (writes < MaxWrites => writes + 1 \in Stamps) /\ 0 \in Stamps
  BY Parts, Numbers
<1>1. ASSUME NEW t \in Templates, LoadRead(t) \/ LoadPut(t)
      PROVE  TypeOK'
  <2>1. reading' \in [Templates -> Stamps] /\ cache' \in [Templates -> Stamps]
    BY <1>1, <1>n, Parts DEF LoadRead, LoadPut
  <2> QED
    BY <1>1, <2>1, Parts, Typed DEF LoadRead, LoadPut
<1>2. ASSUME NEW e \in Editors, NEW f \in Forms, SaveForm(e, f)
      PROVE  TypeOK'
  <2>1. Start(e, "form", "changed", f)
    BY <1>2 DEF SaveForm
  <2>2. /\ call' \in [Editors -> Calls]
        /\ \A d \in Editors : Aimed(call'[d])
        /\ scan' \in Scans /\ overlapped' \in {"never", "yes", "cured"}
    BY <2>1, StartFacts DEF CallSteps
  <2>3. form' \in [Forms -> Stamps] /\ writes' \in Stamps /\ cache' \in [Templates -> Stamps]
    BY <1>2, <1>n, Parts, CachedType DEF SaveForm
  <2> QED
    BY <1>2, <2>2, <2>3, Parts, Typed DEF SaveForm
<1>3. ASSUME NEW e \in Editors, NEW f \in Forms, DeleteForm(e, f)
      PROVE  TypeOK'
  <2>1. Start(e, "form", "reconcile", f)
    BY <1>3 DEF DeleteForm
  <2>2. /\ call' \in [Editors -> Calls]
        /\ \A d \in Editors : Aimed(call'[d])
        /\ scan' \in Scans /\ overlapped' \in {"never", "yes", "cured"}
    BY <2>1, StartFacts DEF CallSteps
  <2>3. form' \in [Forms -> Stamps]
    BY <1>3, <1>n, Parts DEF DeleteForm
  <2> QED
    BY <1>3, <2>2, <2>3, Parts, Typed DEF DeleteForm
<1>4. ASSUME NEW e \in Editors, NEW t \in Templates, SaveTemplate(e, t)
      PROVE  TypeOK'
  <2>1. Start(e, "template", "clear", t)
    BY <1>4 DEF SaveTemplate
  <2>2. /\ call' \in [Editors -> Calls]
        /\ \A d \in Editors : Aimed(call'[d])
        /\ scan' \in Scans /\ overlapped' \in {"never", "yes", "cured"}
    BY <2>1, StartFacts DEF CallSteps
  <2>3. /\ tpl' \in [Templates -> Stamps] /\ writes' \in Stamps /\ cache' \in [Templates -> Stamps]
        /\ recreated' \subseteq Templates
    BY <1>4, <1>n, Parts, CachedType DEF SaveTemplate
  <2> QED
    BY <1>4, <2>2, <2>3, Parts, Typed DEF SaveTemplate
<1>5. ASSUME NEW e \in Editors, NEW t \in Templates, DeleteTemplate(e, t)
      PROVE  TypeOK'
  <2>1. Start(e, "template", "clearDeleted", t)
    BY <1>5 DEF DeleteTemplate
  <2>2. /\ call' \in [Editors -> Calls]
        /\ \A d \in Editors : Aimed(call'[d])
        /\ scan' \in Scans /\ overlapped' \in {"never", "yes", "cured"}
    BY <2>1, StartFacts DEF CallSteps
  <2>3. tpl' \in [Templates -> Stamps]
    BY <1>5, <1>n, Parts DEF DeleteTemplate
  <2> QED
    BY <1>5, <2>2, <2>3, Parts, Typed DEF DeleteTemplate
<1>6. ASSUME NEW e \in Editors, NEW t \in Templates, RescanTemplate(e, t)
      PROVE  TypeOK'
  <2>1. cache' \in [Templates -> Stamps] /\ recreated' \subseteq Templates
    BY <1>6, Parts, CachedType DEF RescanTemplate
  <2>2. scan' \in Scans /\ overlapped' \in {"never", "yes", "cured"}
    BY <1>6, Parts DEF RescanTemplate, Starts, Scans
  <2> QED
    BY <1>6, <2>1, <2>2, Parts, RescanFacts, Typed DEF RescanTemplate
<1>7. ASSUME NEW e \in Editors, OnFormChanged(e)
      PROVE  TypeOK'
  <2> DEFINE f == call[e].on
  <2>1. cache' \in [Templates -> Stamps]
    BY <1>7, CachedType DEF OnFormChanged
  <2>2. f \in Forms /\ call[e].step # "idle"
    BY <1>7, CallParts DEF OnFormChanged
  <2>3. CASE Loadable(TplOf[f]) /\ Parses(f)
    <3>1. Go(e, "reconcile", [Nothing EXCEPT !.forms[f] = HookRow(f, Seen(TplOf[f]))])
      BY <1>7, <2>3 DEF OnFormChanged
    <3>2. HookRow(f, Seen(TplOf[f])) \in FRows
      BY <1>0, <2>2, SeenType, HookRowType
    <3>3. [Nothing EXCEPT !.forms[f] = HookRow(f, Seen(TplOf[f]))] \in Batches
      BY <2>2, <3>2, FormBatchType
    <3>4. call' \in [Editors -> Calls] /\ \A d \in Editors : Aimed(call'[d])
      BY <2>2, <3>1, <3>3, GoFacts DEF CallSteps
    <3> QED
      BY <1>7, <2>1, <3>4, Parts, Typed DEF OnFormChanged
  <2>4. CASE ~ (Loadable(TplOf[f]) /\ Parses(f))
    <3>1. End(e)
      BY <1>7, <2>4 DEF OnFormChanged
    <3> QED
      BY <1>7, <2>1, <3>1, EndFacts, Parts, Typed DEF OnFormChanged
  <2> QED
    BY <2>3, <2>4
<1>8. ASSUME NEW e \in Editors, CacheClear(e)
      PROVE  TypeOK'
  <2>1. cache' \in [Templates -> Stamps]
    BY <1>8, <1>n, Parts DEF CacheClear
  <2>2. PICK s \in {"changed", "reconcile"} : Go(e, s, Nothing)
    BY <1>8 DEF CacheClear
  <2>3. call' \in [Editors -> Calls] /\ \A d \in Editors : Aimed(call'[d])
    BY <1>8, <2>2, NothingType, GoFacts DEF CallSteps, CacheClear
  <2> QED
    BY <1>8, <2>1, <2>3, Parts, Typed DEF CacheClear
<1>9. ASSUME NEW e \in Editors, OnTemplateChanged(e)
      PROVE  TypeOK'
  <2> DEFINE t == call[e].on
             b == TemplateBatch(t, {f \in Forms : TplOf[f] = t /\ frow[f] # NoFRow},
                                [by |-> Seen(t), stamp |-> 0], Unsized)
  <2>1. cache' \in [Templates -> Stamps]
    BY <1>9, CachedType DEF OnTemplateChanged
  <2>2. t \in Templates /\ call[e].step # "idle"
    BY <1>9, CallParts DEF OnTemplateChanged
  <2>3. Go(e, "reconcile", b) \/ End(e)
    BY <1>9 DEF OnTemplateChanged
  <2>4. b \in Batches
    BY <2>2, TemplateChangedBatch
  <2> HIDE DEF b, t
  <2>5. call' \in [Editors -> Calls] /\ \A d \in Editors : Aimed(call'[d])
    BY <2>2, <2>3, <2>4, GoFacts, EndFacts DEF CallSteps
  <2> QED
    BY <1>9, <2>1, <2>5, Parts, Typed DEF OnTemplateChanged
<1>10. ASSUME NEW e \in Editors, HookReconcile(e)
       PROVE  TypeOK'
  <2>1. Reconcile(Batch(e)) /\ End(e) /\ call[e].step # "idle"
    BY <1>10 DEF HookReconcile, Batch
  <2>2. Batch(e) \in Batches
    BY <2>1, DeleteBatchType
  <2> QED
    BY <1>10, <2>1, <2>2, ReconcileType, EndFacts, Parts, Typed DEF HookReconcile
<1>11. ASSUME Pull
       PROVE  TypeOK'
  <2>1. scan' \in Scans /\ overlapped' \in {"never", "yes", "cured"}
    BY <1>11, Parts DEF Pull, Starts, Scans
  <2>2. writes' \in Stamps
    BY <1>11, <1>n DEF Pull
  <2>3. tpl' \in [Templates -> Stamps] /\ form' \in [Forms -> Stamps] /\ broken' \subseteq Stamps
    BY <1>11, <1>n, <2>2, Parts DEF Pull
  <2> QED
    BY <1>11, <2>1, <2>2, <2>3, Parts, Typed DEF Pull
<1>12. CASE ScanDisk
  BY <1>12, ScanDiskFacts, Parts, Typed DEF ScanDisk
<1>13. CASE ScanTemplates \/ ScanForms
  <2>1. CASE ScanTemplates
    BY <2>1, ScanTemplatesFacts, Parts, Typed DEF ScanTemplates
  <2>2. CASE ScanForms
    BY <2>2, ScanFormsFacts, Parts, Typed DEF ScanForms
  <2> QED
    BY <1>13, <2>1, <2>2
<1>14. ASSUME NEW t \in Templates, ScanLoadTemplate(t)
       PROVE  TypeOK'
  <2>1. cache' \in [Templates -> Stamps]
    BY <1>14, CachedType DEF ScanLoadTemplate
  <2> QED
    BY <1>14, <2>1, ScanLoadTemplateFacts, Parts, Typed DEF ScanLoadTemplate
<1>19. ASSUME NEW f \in Forms, ScanLoadForm(f)
       PROVE  TypeOK'
  <2>1. cache' \in [Templates -> Stamps]
    BY <1>19, CachedType DEF ScanLoadForm
  <2> QED
    BY <1>19, <2>1, ScanLoadFormFacts, Parts, Typed DEF ScanLoadForm
<1>15. CASE ScanReconcile
  <2>1. Reconcile(scan.batch) /\ scan.batch \in Batches
    BY <1>15, ScanParts DEF ScanReconcile
  <2>2. scan' \in Scans /\ changed' \in BOOLEAN /\ recreated' \subseteq Templates
        /\ overlapped' \in {"never", "yes", "cured"}
    BY <1>15, IdleTypes, Parts DEF ScanReconcile
  <2> QED
    BY <1>15, <2>1, <2>2, ReconcileType, Parts, Typed DEF ScanReconcile
<1>16. CASE Restart
  <2>1. cache' \in [Templates -> Stamps] /\ reading' \in [Templates -> Stamps]
    BY <1>16, <1>n DEF Restart
  <2>2. call' \in [Editors -> Calls] /\ \A d \in Editors : Aimed(call'[d])
    BY <1>16, IdleTypes DEF Restart, Aimed, NoCall
  <2>3. scan' \in Scans /\ changed' \in BOOLEAN
    BY <1>16, IdleTypes DEF Restart
  <2>4. \A t \in Templates : [trow[t] EXCEPT !.by = Blank] \in TRows
    BY Parts, Numbers DEF TRows
  <2>5. trow' \in [Templates -> TRows] /\ frow' \in [Forms -> FRows]
    BY <1>16, <2>4, RowTypes, Parts DEF Restart
  <2>6. deck' \in [current : BOOLEAN, forms : [Forms -> Stamps]]
    BY <1>16, Parts DEF Restart
  <2>7. build' \in [step : {"idle", "rev", "built"}, current : BOOLEAN, forms : [Forms -> Stamps]]
    BY <1>16, <1>n DEF Restart, NoBuild
  <2> QED
    BY <1>16, <2>1, <2>2, <2>3, <2>5, <2>6, <2>7, Parts, Typed DEF Restart
<1>17. ASSUME DeckStart \/ DeckRead \/ DeckEnd
       PROVE  TypeOK'
  <2>1. Shown \in [Forms -> Stamps]
    BY <1>n, Parts DEF Shown
  <2>2. /\ deck' \in [current : BOOLEAN, forms : [Forms -> Stamps]]
        /\ build' \in [step : {"idle", "rev", "built"}, current : BOOLEAN, forms : [Forms -> Stamps]]
    <3>1. CASE DeckStart
      BY <3>1, Parts DEF DeckStart
    <3>2. CASE DeckRead
      BY <2>1, <3>2, Parts DEF DeckRead
    <3>3. CASE DeckEnd
      BY <1>n, <3>3, Parts DEF DeckEnd, NoBuild
    <3> QED
      BY <1>17, <3>1, <3>2, <3>3
  <2> QED
    BY <1>17, <2>2, Parts, Typed DEF DeckStart, DeckRead, DeckEnd
<1>18. CASE UNCHANGED vars
  BY <1>18, Parts, Typed DEF vars
<1> QED
  BY <1>1, <1>2, <1>3, <1>4, <1>5, <1>6, <1>7, <1>8, <1>9, <1>10, <1>11, <1>12, <1>13, <1>14, <1>15,
     <1>16, <1>17, <1>18, <1>19, NextCases

\* The tables, the caches, the calls and the scan keep their types, whatever overlaps.
THEOREM TypeCorrect == Spec => []TypeInv
<1>1. TypeOK => TypeInv
  BY DEF TypeOK
<1> QED
  BY <1>1, TypeInit, TypeStep, PTL DEF Spec

----------------------------------------------------------------------------
(* The inductive invariant *)

\* Operations on forms overlap each other and the rescans, nothing else does; a pull
\* brings forms and files that do not parse, an upgrade adds no column to templates,
\* and the process does not end between the write of a template and its hook.
OnlyForms == Overlap \subseteq {"form"} /\ Externals \subseteq {"broken"}

FormCall(e)     == call[e].step # "idle" /\ call[e].kind = "form"
TemplateCall(e) == call[e].step # "idle" /\ call[e].kind = "template"
InHand(t)       == \E e \in Editors : TemplateCall(e) /\ call[e].on = t
AllIdle         == \A e \in Editors : call[e].step = "idle"
Only(e)         == ~ changed /\ \A d \in Editors : d # e => call[d].step = "idle"

\* An operation on a template runs by itself, and as long as nothing overlapped so
\* does every other; a template is read for the cache only when nothing runs.
Exclusive ==
    /\ scan.step # "idle" => changed
    /\ \A e \in Editors : TemplateCall(e) \/ (overlapped # "yes" /\ call[e].step # "idle") => Only(e)
    /\ \A t \in Templates : reading[t] # 0 => reading[t] = tpl[t] /\ AllIdle /\ ~ changed
    /\ scan.step # "idle" /\ scan.alone => AllIdle
    /\ scan.step # "idle" /\ overlapped # "yes" => scan.alone

\* Nothing is left of what has ended.
Resting ==
    /\ \A e \in Editors : call[e].step = "idle" => call[e].batch = Nothing
    /\ scan.step = "idle" => scan.batch = Nothing

\* Writes are numbered as they come, and a template on disk parses.
Numbered ==
    /\ \A w \in broken : w # 0 /\ w <= writes
    /\ \A t \in Templates : tpl[t] <= writes /\ tpl[t] \notin broken
    /\ \A f \in Forms : form[f] <= writes

\* The template cache is right, but between a write and the clearing after it.
Clearing(t) ==
    \E e \in Editors : TemplateCall(e) /\ call[e].on = t /\ call[e].step \in {"clear", "clearDeleted"}
CacheFits == \A t \in Templates : cache[t] \in {0, tpl[t]} \/ Clearing(t)

\* The row of a template is right, or is being written, or is one too many that the
\* rescan under way removes; a stamp on it can be trusted.
TemplateRows ==
    \A t \in Templates :
        /\ trow[t].by = 0 => trow[t] = NoTRow
        /\ trow[t].stamp \in {0, trow[t].by}
        /\ trow[t].by = tpl[t] \/ InHand(t) \/ (changed /\ tpl[t] = 0)

\* A row is of a write that parsed, never of a later one than its form, and stamped no
\* later than that.
Sane(f, r) ==
    r # NoFRow =>
        /\ r.of # 0 /\ r.of <= writes /\ r.of \notin broken /\ r.stamp <= r.of
        /\ form[f] # 0 => r.of <= form[f]

\* A row has the row of its template, and one whose stamp is its form's needs no reading.
FormRows ==
    \A f \in Forms :
        /\ Sane(f, frow[f])
        /\ frow[f] # NoFRow => trow[TplOf[f]] # NoTRow
        /\ frow[f] # NoFRow /\ form[f] # 0 /\ frow[f].stamp = form[f] /\ tpl[TplOf[f]] # 0
              => frow[f].by = tpl[TplOf[f]] \/ InHand(TplOf[f])

\* What a batch brings was projected from the templates as they are.
BatchFits(b) ==
    /\ \A f \in Forms :
        /\ Sane(f, b.forms[f])
        /\ b.forms[f] # NoFRow => b.forms[f].by = tpl[TplOf[f]] /\ tpl[TplOf[f]] # 0
    /\ \A t \in Templates :
        b.tpls[t] # NoTRow => b.tpls[t].by = tpl[t] /\ tpl[t] # 0 /\ b.tpls[t].stamp \in {0, tpl[t]}
    /\ \A t \in b.tdel : tpl[t] = 0

FormCallFits(e) ==
    /\ call[e].step \in {"changed", "reconcile"}
    /\ call[e].batch.tpls = Nothing.tpls /\ call[e].batch.tdel = {} /\ call[e].batch.fdel = {}
    /\ \A f \in Forms : f # call[e].on => call[e].batch.forms[f] = NoFRow
    /\ call[e].step = "changed" => call[e].batch = Nothing
    /\ overlapped # "yes" =>
        IF call[e].step = "changed" THEN form[call[e].on] # 0 /\ form[call[e].on] \notin broken
        ELSE \/ call[e].batch = Nothing /\ form[call[e].on] = 0
             \/ call[e].batch.forms[call[e].on].of = form[call[e].on] /\ form[call[e].on] # 0

TemplateCallFits(e) ==
    LET t == call[e].on  b == call[e].batch IN
    /\ call[e].step # "reconcile" => b = Nothing
    /\ call[e].step = "clearDeleted" => tpl[t] = 0
    /\ call[e].step \in {"clear", "changed"} => tpl[t] # 0
    /\ call[e].step = "reconcile" /\ tpl[t] = 0 => b \in {Nothing, [Nothing EXCEPT !.tdel = {t}]}
    /\ call[e].step = "reconcile" /\ tpl[t] # 0 =>
        /\ b.tpls[t] # NoTRow /\ b.tdel = {}
        /\ \A u \in Templates : u # t => b.tpls[u] = NoTRow
        /\ \A f \in b.fdel : form[f] = 0 /\ TplOf[f] = t
        /\ \A f \in Forms :
            /\ b.forms[f] # NoFRow => TplOf[f] = t
            /\ TplOf[f] = t /\ form[f] # 0 /\ frow[f] # NoFRow /\ frow[f].stamp = form[f] => b.forms[f] # NoFRow

\* What each call in flight carries.
CallFits ==
    \A e \in Editors :
        /\ BatchFits(call[e].batch)
        /\ FormCall(e) => FormCallFits(e)
        /\ TemplateCall(e) => TemplateCallFits(e)

\* r is the row f should have.
Cured(f, r) ==
    form[f] \notin broken =>
        IF form[f] = 0 \/ tpl[TplOf[f]] = 0 THEN r = NoFRow
        ELSE r.of = form[f] /\ r.by = tpl[TplOf[f]]

Missed(f, r) == r = NoFRow /\ TplOf[f] \in recreated
Good(f, r)   == Cured(f, r) \/ Missed(f, r)
GoodBut(f) ==
    form[f] \notin broken =>
        IF form[f] = 0 THEN frow[f] = NoFRow ELSE frow[f].of = form[f] \/ Missed(f, frow[f])

\* As long as nothing overlapped, the rows are those of IndexReflectsDisk whenever
\* nothing runs, and a call leaves them so.
Settling ==
    overlapped # "yes" =>
        /\ AllIdle /\ ~ changed => \A f \in Forms : Good(f, frow[f])
        /\ \A e \in Editors :
            /\ FormCall(e) /\ call[e].step = "changed" => \A f \in Forms : f # call[e].on => Good(f, frow[f])
            /\ TemplateCall(e) /\ call[e].step # "reconcile" =>
                \A f \in Forms :
                    IF TplOf[f] # call[e].on THEN Good(f, frow[f]) ELSE tpl[TplOf[f]] = 0 \/ GoodBut(f)
            /\ call[e].step = "reconcile" => \A f \in Forms : Good(f, FormsAfter(Batch(e))[f])

\* A rescan reads f: it has a template, and no row with its stamp.
Unread(f) == tpl[TplOf[f]] # 0 /\ Differs(form[f], frow[f].stamp, frow[f] # NoFRow)

\* The batch has what f needs.
Passed(f, b) ==
    /\ Cured(f, FormsAfter(b)[f])
    /\ Unread(f) /\ form[f] \notin broken => b.forms[f] # NoFRow

\* What the rescan carries; one that ran alone leaves every row as it should be.
ScanFits ==
    /\ BatchFits(scan.batch)
    /\ scan.step # "idle" =>
        /\ scan.tpls = tpl
        /\ \A f \in Forms : scan.forms[f] <= writes /\ (form[f] # 0 => scan.forms[f] <= form[f])
        /\ scan.alone => scan.forms = form
    /\ scan.step = "db" => scan.batch = Nothing
    /\ scan.step = "forms" => scan.batch.forms = Nothing.forms
    /\ scan.step \in {"forms", "load"} =>
        scan.batch.tdel = {t \in Templates : tpl[t] = 0 /\ trow[t] # NoTRow}
    /\ scan.step = "load" /\ scan.alone =>
        /\ scan.batch.fdel = {f \in Forms : tpl[TplOf[f]] # 0 /\ form[f] = 0 /\ frow[f] # NoFRow}
        /\ \A f \in Forms : IF f \in scan.loadF THEN Unread(f) /\ scan.batch.forms[f] = NoFRow
                            ELSE Passed(f, scan.batch)

\* A change of f is still to be announced by a new revision.
Announced(f) ==
    \/ InHand(TplOf[f])
    \/ \E e \in Editors : FormCall(e) /\ call[e].on = f
    \/ changed /\ Unread(f)
Shows(forms) ==
    \A f \in Forms :
        form[f] # 0 /\ form[f] \notin broken /\ tpl[TplOf[f]] # 0 => forms[f] = form[f] \/ Announced(f)
DecksFit ==
    overlapped = "never" =>
        /\ deck.current => Shows(deck.forms)
        /\ build.step = "built" /\ build.current => Shows(build.forms)

IInv ==
    /\ TypeOK /\ Exclusive /\ Resting /\ Numbered /\ CacheFits /\ TemplateRows /\ FormRows
    /\ CallFits /\ Settling /\ ScanFits /\ DecksFit

----------------------------------------------------------------------------
(* What may run *)

LEMMA QuietIs ==
    ASSUME TypeOK
    PROVE  Quiet <=> AllIdle /\ scan.step = "idle" /\ ~ changed
<1>1. CASE Quiet
  <2>1. \A e \in Editors : call[e].step # "idle" => call[e].kind \in Active
    BY DEF Active
  <2>2. scan.step # "idle" \/ changed => "rescan" \in Active
    BY DEF Active
  <2> QED
    BY <1>1, <2>1, <2>2 DEF Quiet, AllIdle
<1>2. ASSUME AllIdle, scan.step = "idle", ~ changed
      PROVE  Quiet
  BY <1>2 DEF Quiet, Active, AllIdle
<1> QED
  BY <1>1, <1>2

\* Beside which operations one may start (the instance's overlap, not the code's).
LEMMA MayStartTemplate ==
    ASSUME OnlyForms, MayStart("template")
    PROVE  Quiet
BY DEF OnlyForms, MayStart, Quiet

LEMMA MayStartOther ==
    ASSUME OnlyForms, TypeOK, MayStart("form") \/ MayStart("rescan")
    PROVE  \A e \in Editors : ~ TemplateCall(e)
<1>1. \A e \in Editors : call[e].step # "idle" => call[e].kind \in Active
  BY DEF Active
<1>2. Active = {} \/ Active \subseteq {"form", "rescan"}
  BY DEF OnlyForms, MayStart
<1> QED
  BY <1>1, <1>2 DEF TemplateCall

LEMMA StartsAlone ==
    ASSUME TypeOK, Starts
    PROVE  /\ overlapped' # "yes" => Quiet /\ overlapped' = overlapped
           /\ scan' = [scan EXCEPT !.alone = FALSE]
           /\ scan'.step = scan.step /\ scan'.tpls = scan.tpls /\ scan'.forms = scan.forms
           /\ scan'.loadT = scan.loadT /\ scan'.loadF = scan.loadF /\ scan'.batch = scan.batch
           /\ scan'.alone = FALSE
<1>1. scan \in Scans
  BY Parts
<1> QED
  BY <1>1 DEF Starts, Quiet, Scans

LEMMA NoneReading ==
    ASSUME OnlyForms, Settled
    PROVE  \A t \in Templates : reading[t] = 0
BY DEF OnlyForms, Settled

\* What LoadTemplate gives, but between a template's write and its clearing.
LEMMA Loads ==
    ASSUME Numbered, NEW t \in Templates, cache[t] \in {0, tpl[t]}
    PROVE  /\ Loadable(t) <=> tpl[t] # 0
           /\ Loadable(t) => Seen(t) = tpl[t]
BY DEF Numbered, Loadable, Seen

LEMMA CachedFits ==
    ASSUME NEW ts, NEW t \in Templates, cache[t] \in {0, tpl[t]}
    PROVE  Cached(ts)[t] \in {0, tpl[t]}
BY DEF Cached, Loadable, Seen

LEMMA Rows ==
    /\ NoTRow.by = 0 /\ NoTRow.stamp = 0 /\ NoFRow.of = 0 /\ NoFRow.by = 0 /\ NoFRow.stamp = 0
    /\ \A f \in Forms : Nothing.forms[f] = NoFRow
    /\ \A t \in Templates : Nothing.tpls[t] = NoTRow
    /\ Nothing.tdel = {} /\ Nothing.fdel = {}
    /\ Nothing.tpls \in [Templates -> TRows] /\ Nothing.forms \in [Forms -> FRows]
BY NothingType DEF NoTRow, NoFRow, Nothing

\* Numbers are natural numbers.
LEMMA Naturally ==
    ASSUME TypeOK
    PROVE  /\ writes \in Nat
           /\ \A t \in Templates : tpl[t] \in Nat /\ cache[t] \in Nat /\ reading[t] \in Nat
           /\ \A f \in Forms : form[f] \in Nat /\ TplOf[f] \in Templates
           /\ \A w \in broken : w \in Nat
           /\ \A t \in Templates : trow[t] \in TRows /\ trow[t].by \in Nat /\ trow[t].stamp \in Nat
           /\ \A f \in Forms : frow[f] \in FRows /\ frow[f].of \in Nat /\ frow[f].by \in Nat /\ frow[f].stamp \in Nat
           /\ \A b \in Batches, f \in Forms :
                 b.forms[f] \in FRows /\ b.forms[f].of \in Nat /\ b.forms[f].by \in Nat /\ b.forms[f].stamp \in Nat
           /\ \A t \in Templates : scan.tpls[t] \in Nat
           /\ \A f \in Forms : scan.forms[f] \in Nat
<1>1. \A r \in FRows : r.of \in Nat /\ r.by \in Nat /\ r.stamp \in Nat
  BY Numbers DEF FRows
<1>2. \A r \in TRows : r.by \in Nat /\ r.stamp \in Nat
  BY BoundsAssumption DEF TRows, Stamps, Blank
<1>3. \A b \in Batches, f \in Forms : b.forms[f] \in FRows
  BY BatchParts
<1>4. \A s \in Stamps : s \in Nat
  BY Numbers
<1>5. writes \in Nat /\ \A w \in broken : w \in Nat
  BY <1>4, Parts
<1>6. \A t \in Templates : tpl[t] \in Nat /\ cache[t] \in Nat /\ reading[t] \in Nat
  BY <1>4, Parts
<1>7. \A f \in Forms : form[f] \in Nat /\ TplOf[f] \in Templates
  BY <1>4, Parts, TplOfAssumption
<1>8. \A t \in Templates : trow[t] \in TRows
  BY Parts
<1>9. \A f \in Forms : frow[f] \in FRows
  BY Parts
<1>10. (\A t \in Templates : scan.tpls[t] \in Nat) /\ (\A f \in Forms : scan.forms[f] \in Nat)
  BY <1>4, ScanParts
<1> QED
  BY <1>1, <1>2, <1>3, <1>5, <1>6, <1>7, <1>8, <1>9, <1>10

----------------------------------------------------------------------------
(* The actions, one by one *)

\* A form is written or deleted, and its hook is due.
LEMMA FormStartKeeps ==
    ASSUME OnlyForms, IInv, TypeOK', NEW e \in Editors, NEW f \in Forms, NEW step,
           Start(e, "form", step, f),
           tpl' = tpl, broken' = broken, trow' = trow, frow' = frow, changed' = changed,
           reading' = reading, recreated' = recreated, deck' = deck, build' = build,
           cache' = cache \/ cache' = Cached({TplOf[f]}),
           \/ step = "changed" /\ writes' = writes + 1 /\ form' = [form EXCEPT ![f] = writes + 1]
           \/ step = "reconcile" /\ writes' = writes /\ form' = [form EXCEPT ![f] = 0]
    PROVE  IInv'
<1>0. TypeOK
  BY DEF IInv
<1>1. Start(e, "form", step, f) /\ step \in {"changed", "reconcile"}
  OBVIOUS
<1>2. \A d \in Editors : ~ TemplateCall(d)
  BY <1>0, <1>1, MayStartOther DEF Start
<1>3. /\ call' = [call EXCEPT ![e] = [step |-> step, kind |-> "form", on |-> f, batch |-> Nothing]]
      /\ call \in [Editors -> Calls]
  BY <1>0, <1>1, StartFacts, Parts DEF CallSteps
<1>4. /\ call'[e].step = step /\ call'[e].kind = "form" /\ call'[e].on = f /\ call'[e].batch = Nothing
      /\ \A d \in Editors : d # e => call'[d] = call[d]
  BY <1>3
<1>5. \A d \in Editors : ~ TemplateCall(d)'
  BY <1>2, <1>4 DEF TemplateCall
<1>6. /\ tpl' = tpl /\ broken' = broken /\ trow' = trow /\ frow' = frow /\ changed' = changed
      /\ reading' = reading /\ recreated' = recreated /\ deck' = deck /\ build' = build
      /\ cache' = cache \/ cache' = Cached({TplOf[f]})
  OBVIOUS
<1>7. /\ \/ step = "changed" /\ writes' = writes + 1 /\ form'[f] = writes + 1
         \/ step = "reconcile" /\ writes' = writes /\ form'[f] = 0
      /\ \A g \in Forms : g # f => form'[g] = form[g]
  BY <1>0, Parts
<1>8. /\ overlapped' # "yes" => Quiet /\ overlapped' = overlapped
      /\ scan'.step = scan.step /\ scan'.tpls = scan.tpls /\ scan'.forms = scan.forms
      /\ scan'.loadT = scan.loadT /\ scan'.loadF = scan.loadF /\ scan'.batch = scan.batch
      /\ scan'.alone = FALSE
  BY <1>0, <1>1, StartsAlone DEF Start
<1>9. Quiet => AllIdle /\ scan.step = "idle" /\ ~ changed
  BY <1>0, QuietIs
<1>10. \A t \in Templates : reading[t] = 0
  BY <1>1, NoneReading DEF Start
<1>n. /\ writes \in Nat /\ \A g \in Forms : form[g] \in Nat /\ form'[g] \in Nat /\ TplOf[g] \in Templates
      /\ \A w \in broken : w \in Nat
      /\ \A t \in Templates : tpl[t] \in Nat
      /\ \A g \in Forms : frow[g].of \in Nat /\ frow[g].stamp \in Nat
      /\ \A b \in Batches, g \in Forms : b.forms[g].of \in Nat /\ b.forms[g].stamp \in Nat
      /\ \A g \in Forms : scan.forms[g] \in Nat
  <2>1. writes \in Nat /\ \A g \in Forms : form[g] \in Nat
    BY <1>0, Naturally
  <2>2. \A g \in Forms : form'[g] \in Nat
    BY <1>7, <2>1
  <2> QED
    BY <1>0, <2>1, <2>2, Naturally
<1>11. Exclusive'
  BY <1>2, <1>4, <1>5, <1>6, <1>8, <1>9, <1>10 DEF IInv, Exclusive, Only, AllIdle
<1>r. Resting'
  BY <1>1, <1>4, <1>8 DEF IInv, Resting
<1>12. Numbered'
  BY <1>6, <1>7, <1>n DEF IInv, Numbered
<1>13. CacheFits'
  <2>1. \A t \in Templates : cache[t] \in {0, tpl[t]}
    BY <1>2 DEF IInv, CacheFits, Clearing
  <2>2. \A t \in Templates : cache'[t] \in {0, tpl[t]}
    BY <1>6, <2>1, CachedFits
  <2> QED
    BY <1>6, <2>2 DEF CacheFits
<1>14. TemplateRows'
  <2>1. \A t \in Templates : ~ InHand(t)
    BY <1>2 DEF InHand
  <2> QED
    BY <1>6, <2>1 DEF IInv, TemplateRows
<1>15. \A g \in Forms, r \in FRows : Sane(g, r) => Sane(g, r)'
  <2>1. \A r \in FRows : r.of \in Nat /\ r.stamp \in Nat
    BY Numbers DEF FRows
  <2> QED
    BY <1>6, <1>7, <1>n, <2>1 DEF Sane
<1>16. FormRows'
  <2>1. \A g \in Forms : Sane(g, frow[g]) /\ frow[g] \in FRows
    BY <1>0, Parts DEF IInv, FormRows
  <2>2. \A g \in Forms : Sane(g, frow[g])'
    BY <1>6, <1>7, <1>n, <2>1 DEF Sane
  <2>3. \A t \in Templates : ~ InHand(t)
    BY <1>2 DEF InHand
  <2>4. frow[f] # NoFRow /\ form'[f] # 0 => frow[f].stamp # form'[f]
    BY <1>7, <1>n, <2>1 DEF Sane
  <2> QED
    BY <1>6, <1>7, <1>n, <2>2, <2>3, <2>4 DEF IInv, FormRows
<1>17. \A d \in Editors : call'[d].batch \in Batches
  BY <1>3, <1>4, <1>0, CallParts, NothingType
<1>18. ASSUME NEW b \in Batches, BatchFits(b)
       PROVE  /\ \A g \in Forms : Sane(g, b.forms[g])'
              /\ \A g \in Forms : b.forms[g] # NoFRow => b.forms[g].by = tpl'[TplOf[g]] /\ tpl'[TplOf[g]] # 0
              /\ \A t \in Templates :
                    b.tpls[t] # NoTRow => b.tpls[t].by = tpl'[t] /\ tpl'[t] # 0 /\ b.tpls[t].stamp \in {0, tpl'[t]}
              /\ \A t \in b.tdel : tpl'[t] = 0
  BY <1>6, <1>7, <1>n, <1>18 DEF BatchFits, Sane
<1>19. CallFits'
  <2> SUFFICES ASSUME NEW d \in Editors
               PROVE  BatchFits(call[d].batch)' /\ (FormCall(d) => FormCallFits(d))'
    BY <1>5 DEF CallFits
  <2>1. CASE d = e
    <3>1. BatchFits(call[d].batch)'
      BY <1>4, <2>1, Rows DEF BatchFits, Sane
    <3>2. FormCallFits(d)'
      BY <1>4, <1>6, <1>7, <1>n, <2>1, Rows DEF FormCallFits, IInv, Numbered
    <3> QED
      BY <3>1, <3>2
  <2>2. CASE d # e
    <3>1. BatchFits(call[d].batch) /\ call[d].batch \in Batches
      BY <1>0, CallParts DEF IInv, CallFits
    <3>2. BatchFits(call[d].batch)'
      BY <1>4, <1>18, <2>2, <3>1 DEF BatchFits
    <3>3. FormCall(d)' => FormCallFits(d)'
      BY <1>4, <1>8, <1>9, <2>2 DEF IInv, CallFits, FormCall, FormCallFits, AllIdle
    <3> QED
      BY <3>2, <3>3
  <2> QED
    BY <2>1, <2>2
<1>20. Settling'
  <2> SUFFICES ASSUME overlapped' # "yes"
               PROVE  /\ \A g \in Forms : g # f => Good(g, frow[g])'
                      /\ step = "reconcile" => \A g \in Forms : Good(g, FormsAfter(Batch(e))[g])'
    BY <1>4, <1>5, <1>8, <1>9 DEF Settling, AllIdle, FormCall
  <2>1. \A g \in Forms : Good(g, frow[g])
    BY <1>8, <1>9 DEF IInv, Settling
  <2>2. \A g \in Forms : g # f => Good(g, frow[g])'
    BY <1>6, <1>7, <2>1 DEF Good, Cured, Missed
  <2>3. ASSUME step = "reconcile", NEW g \in Forms
        PROVE  Good(g, FormsAfter(Batch(e))[g])'
    <3>1. Batch(e)' = DeleteBatch(call'[e])
      BY <1>4 DEF Batch
    <3>2. /\ DeleteBatch(call'[e]).fdel = {f} /\ DeleteBatch(call'[e]).tdel = {}
          /\ DeleteBatch(call'[e]).forms = Nothing.forms
      BY <1>4 DEF DeleteBatch, Nothing
    <3>3. FormsAfter(Batch(e))'[g] = IF g = f THEN NoFRow ELSE frow[g]
      BY <1>6, <3>1, <3>2, Rows DEF FormsAfter
    <3>4. form'[f] = 0
      BY <1>7, <2>3
    <3> QED
      BY <1>6, <1>7, <2>2, <3>3, <3>4 DEF Good, Cured, Missed
  <2> QED
    BY <2>2, <2>3
<1>21. ScanFits'
  <2>1. BatchFits(scan.batch)'
    BY <1>0, <1>8, <1>18, ScanParts DEF IInv, ScanFits, BatchFits
  <2>2. scan.step # "idle" => scan.tpls = tpl /\ \A g \in Forms : scan.forms[g] <= writes
                                /\ (form[g] # 0 => scan.forms[g] <= form[g])
    BY DEF IInv, ScanFits
  <2>3. scan'.step # "idle" => scan'.tpls = tpl' /\ \A g \in Forms : scan'.forms[g] <= writes'
                                /\ (form'[g] # 0 => scan'.forms[g] <= form'[g])
    BY <1>6, <1>7, <1>8, <1>n, <2>2
  <2> QED
    BY <1>6, <1>8, <2>1, <2>3 DEF IInv, ScanFits
<1>22. DecksFit'
  <2> SUFFICES ASSUME overlapped' = "never"
               PROVE  (deck.current => Shows(deck.forms))' /\ (build.step = "built" /\ build.current => Shows(build.forms))'
    BY DEF DecksFit
  <2>1. overlapped = "never" /\ AllIdle /\ ~ changed
    BY <1>8, <1>9
  <2>2. \A g \in Forms : ~ Announced(g)
    BY <1>2, <2>1 DEF Announced, InHand, AllIdle, FormCall
  <2>3. Announced(f)'
    BY <1>4 DEF Announced, FormCall
  <2> QED
    BY <1>6, <1>7, <2>1, <2>2, <2>3 DEF IInv, DecksFit, Shows
<1> QED
  BY <1>r, <1>11, <1>12, <1>13, <1>14, <1>16, <1>19, <1>20, <1>21, <1>22 DEF IInv

LEMMA SaveFormKeeps ==
    ASSUME OnlyForms, IInv, TypeOK', NEW e \in Editors, NEW f \in Forms, SaveForm(e, f)
    PROVE  IInv'
<1>1. Start(e, "form", "changed", f)
  BY DEF SaveForm
<1>2. /\ tpl' = tpl /\ broken' = broken /\ trow' = trow /\ frow' = frow /\ changed' = changed
      /\ reading' = reading /\ recreated' = recreated /\ deck' = deck /\ build' = build
      /\ cache' = Cached({TplOf[f]})
      /\ writes' = writes + 1 /\ form' = [form EXCEPT ![f] = writes + 1]
  BY DEF SaveForm, rows, decks
<1> QED
  BY <1>1, <1>2, FormStartKeeps

LEMMA DeleteFormKeeps ==
    ASSUME OnlyForms, IInv, TypeOK', NEW e \in Editors, NEW f \in Forms, DeleteForm(e, f)
    PROVE  IInv'
<1>1. Start(e, "form", "reconcile", f)
  BY DEF DeleteForm
<1>2. /\ tpl' = tpl /\ broken' = broken /\ trow' = trow /\ frow' = frow /\ changed' = changed
      /\ reading' = reading /\ recreated' = recreated /\ deck' = deck /\ build' = build
      /\ cache' = cache /\ writes' = writes /\ form' = [form EXCEPT ![f] = 0]
  BY DEF DeleteForm, rows, decks
<1> QED
  BY <1>1, <1>2, FormStartKeeps

\* While a call on a form is under way no template is touched, and no rescan is alone.
LEMMA FormUnderWay ==
    ASSUME IInv, NEW e \in Editors, FormCall(e)
    PROVE  /\ \A d \in Editors : ~ TemplateCall(d)
           /\ \A t \in Templates : ~ InHand(t) /\ ~ Clearing(t) /\ cache[t] \in {0, tpl[t]} /\ reading[t] = 0
           /\ scan.step = "idle" \/ ~ scan.alone
           /\ overlapped # "yes" => Only(e)
           /\ call[e].on \in Forms
<1>1. \A d \in Editors : ~ TemplateCall(d)
  BY DEF IInv, Exclusive, Only, TemplateCall, FormCall
<1> QED
  BY <1>1, CallParts DEF IInv, Exclusive, CacheFits, Clearing, InHand, AllIdle, FormCall

\* The call of OnFormChanged ends: there was nothing to project.
LEMMA FormChangedEnds ==
    ASSUME OnlyForms, IInv, TypeOK', NEW e \in Editors, FormCall(e), call[e].step = "changed",
           UNCHANGED <<files, reading, rows, scan, changed, decks, past>>,
           cache' = Cached({TplOf[call[e].on]}),
           ~ (Loadable(TplOf[call[e].on]) /\ Parses(call[e].on)), End(e)
    PROVE  IInv'
<1> DEFINE f == call[e].on
<1>0. TypeOK /\ f \in Forms /\ TplOf[f] \in Templates
  BY FormUnderWay, TplOfAssumption DEF IInv
<1>1. /\ tpl' = tpl /\ form' = form /\ broken' = broken /\ writes' = writes /\ reading' = reading
      /\ trow' = trow /\ frow' = frow /\ scan' = scan /\ changed' = changed /\ deck' = deck /\ build' = build
      /\ overlapped' = overlapped /\ recreated' = recreated /\ cache' = Cached({TplOf[f]})
  BY DEF files, rows, decks, past
<1>2. call'[e] = NoCall /\ \A d \in Editors : d # e => call'[d] = call[d]
  BY <1>0, EndFacts
<1>3. NoCall.step = "idle" /\ NoCall.batch = Nothing
  BY DEF NoCall
<1>4. /\ \A d \in Editors : ~ TemplateCall(d) /\ ~ TemplateCall(d)'
      /\ \A t \in Templates : ~ InHand(t) /\ cache[t] \in {0, tpl[t]} /\ reading[t] = 0
      /\ scan.step = "idle" \/ ~ scan.alone
      /\ overlapped # "yes" => Only(e)
  BY <1>2, <1>3, FormUnderWay DEF TemplateCall
<1>5. Exclusive'
  BY <1>1, <1>2, <1>3, <1>4 DEF IInv, Exclusive, Only, AllIdle
<1>r. Resting'
  BY <1>1, <1>2, <1>3 DEF IInv, Resting
<1>6. Numbered' /\ TemplateRows'
  BY <1>1, <1>4 DEF IInv, Numbered, TemplateRows
<1>7. CacheFits'
  BY <1>1, <1>4, CachedFits DEF CacheFits
<1>8. FormRows'
  BY <1>1, <1>4, TplOfAssumption DEF IInv, FormRows, Sane
<1>9. CallFits'
  <2> SUFFICES ASSUME NEW d \in Editors
               PROVE  BatchFits(call[d].batch)' /\ (FormCall(d) => FormCallFits(d))'
    BY <1>4 DEF CallFits
  <2>1. CASE d = e
    BY <1>2, <1>3, <2>1, Rows DEF BatchFits, Sane, FormCall
  <2>2. CASE d # e
    BY <1>1, <1>2, <2>2 DEF IInv, CallFits, BatchFits, Sane, FormCall, FormCallFits
  <2> QED
    BY <2>1, <2>2
<1>10. overlapped # "yes" => tpl[TplOf[f]] = 0 /\ frow[f] = NoFRow
  <2> SUFFICES ASSUME overlapped # "yes"
               PROVE  tpl[TplOf[f]] = 0 /\ frow[f] = NoFRow
    OBVIOUS
  <2>1. form[f] # 0 /\ form[f] \notin broken
    BY DEF IInv, CallFits, FormCallFits
  <2>2. ~ Loadable(TplOf[f])
    BY <2>1 DEF Parses
  <2>3. tpl[TplOf[f]] = 0
    BY <1>0, <1>4, <2>2, Loads DEF IInv
  <2>4. trow[TplOf[f]].by = 0
    BY <1>0, <1>4, <2>3 DEF IInv, TemplateRows, Only
  <2>5. trow[TplOf[f]] = NoTRow
    BY <1>0, <2>4 DEF IInv, TemplateRows
  <2> QED
    BY <1>0, <2>3, <2>5 DEF IInv, FormRows
<1>11. Settling'
  <2> SUFFICES ASSUME overlapped # "yes"
               PROVE  \A g \in Forms : Good(g, frow[g])'
    BY <1>1, <1>2, <1>3, <1>4 DEF Settling, Only, FormCall
  <2>1. \A g \in Forms : g # f => Good(g, frow[g])
    BY DEF IInv, Settling
  <2>2. Good(f, frow[f])
    BY <1>10 DEF Good, Cured
  <2> QED
    BY <1>1, <2>1, <2>2 DEF Good, Cured, Missed
<1>12. ScanFits'
  BY <1>1, <1>4 DEF IInv, ScanFits, BatchFits, Sane
<1>13. DecksFit'
  <2> SUFFICES ASSUME overlapped = "never"
               PROVE  (deck.current => Shows(deck.forms))' /\ (build.step = "built" /\ build.current => Shows(build.forms))'
    BY <1>1 DEF DecksFit
  <2>1. ~ changed /\ \A d \in Editors : d # e => call[d].step = "idle"
    BY <1>4 DEF Only
  <2>2. \A g \in Forms : g # f => ~ Announced(g)
    BY <1>0, <1>4, <2>1, TplOfAssumption DEF Announced, FormCall
  <2>3. tpl[TplOf[f]] = 0
    BY <1>10
  <2> QED
    BY <1>0, <1>1, <2>2, <2>3 DEF IInv, DecksFit, Shows
<1> QED
  BY <1>r, <1>5, <1>6, <1>7, <1>8, <1>9, <1>11, <1>12, <1>13 DEF IInv

\* OnFormChanged projected the form: its row is in the batch.
LEMMA FormChangedProjects ==
    ASSUME OnlyForms, IInv, TypeOK', NEW e \in Editors, FormCall(e), call[e].step = "changed",
           UNCHANGED <<files, reading, rows, scan, changed, decks, past>>,
           cache' = Cached({TplOf[call[e].on]}),
           Loadable(TplOf[call[e].on]), Parses(call[e].on),
           Go(e, "reconcile", [Nothing EXCEPT !.forms[call[e].on] = HookRow(call[e].on, Seen(TplOf[call[e].on]))])
    PROVE  IInv'
<1> DEFINE f == call[e].on
           t == TplOf[f]
           b == [Nothing EXCEPT !.forms[f] = HookRow(f, Seen(t))]
           r == [of |-> form[f], by |-> tpl[t], stamp |-> 0]
<1>0. TypeOK /\ f \in Forms /\ t \in Templates
  BY FormUnderWay, TplOfAssumption DEF IInv
<1>1. /\ tpl' = tpl /\ form' = form /\ broken' = broken /\ writes' = writes /\ reading' = reading
      /\ trow' = trow /\ frow' = frow /\ scan' = scan /\ changed' = changed /\ deck' = deck /\ build' = build
      /\ overlapped' = overlapped /\ recreated' = recreated /\ cache' = Cached({t})
  BY DEF files, rows, decks, past
<1>2. /\ \A d \in Editors : ~ TemplateCall(d)
      /\ \A u \in Templates : ~ InHand(u) /\ cache[u] \in {0, tpl[u]} /\ reading[u] = 0
      /\ scan.step = "idle" \/ ~ scan.alone
      /\ overlapped # "yes" => Only(e)
  BY FormUnderWay
<1>3. tpl[t] # 0 /\ Seen(t) = tpl[t]
  BY <1>0, <1>2, Loads DEF IInv
<1>4. form[f] # 0 /\ form[f] \notin broken /\ form[f] <= writes
  BY <1>0 DEF Parses, IInv, Numbered
<1>5. HookRow(f, Seen(t)) = r /\ r \in FRows
  <2>1. HookRow(f, Seen(t)) = r
    BY <1>3 DEF HookRow
  <2>2. form[f] \in Stamps /\ tpl[t] \in Stamps
    BY <1>0, Parts
  <2> QED
    BY <2>1, <2>2, RowTypes, Numbers
<1>6. r.of = form[f] /\ r.by = tpl[t] /\ r.stamp = 0 /\ r # NoFRow
  BY <1>4, Rows
<1>7. /\ b \in Batches /\ b.tpls = Nothing.tpls /\ b.tdel = {} /\ b.fdel = {}
      /\ b.forms = [Nothing.forms EXCEPT ![f] = r]
  BY <1>0, <1>5, FormBatchType
<1>8. b.forms[f] = r /\ \A g \in Forms : g # f => b.forms[g] = NoFRow
  BY <1>0, <1>7, Rows
<1>9. Go(e, "reconcile", b)
  OBVIOUS
<1> HIDE DEF b, r
<1>10. /\ call'[e].step = "reconcile" /\ call'[e].kind = "form" /\ call'[e].on = f /\ call'[e].batch = b
       /\ \A d \in Editors : d # e => call'[d] = call[d]
  BY <1>0, <1>7, <1>9, GoFacts DEF CallSteps, FormCall
<1>11. b # Nothing
  BY <1>0, <1>6, <1>8, Rows
<1> HIDE DEF f, t
<1>12. \A d \in Editors : ~ TemplateCall(d)'
  BY <1>2, <1>10 DEF TemplateCall
<1>13. Exclusive'
  BY <1>1, <1>2, <1>10, <1>12 DEF IInv, Exclusive, Only, AllIdle, FormCall
<1>r. Resting'
  BY <1>1, <1>10 DEF IInv, Resting
<1>14. Numbered' /\ TemplateRows'
  BY <1>1, <1>2 DEF IInv, Numbered, TemplateRows
<1>15. CacheFits'
  BY <1>1, <1>2, CachedFits DEF CacheFits
<1>16. FormRows'
  BY <1>0, <1>1, <1>2, TplOfAssumption DEF IInv, FormRows, Sane
<1>17. CallFits'
  <2> SUFFICES ASSUME NEW d \in Editors
               PROVE  BatchFits(call[d].batch)' /\ (FormCall(d) => FormCallFits(d))'
    BY <1>12 DEF CallFits
  <2>1. CASE d = e
    <3>1. form[f] \in Nat /\ writes \in Nat
      BY <1>0, Naturally
    <3>2. BatchFits(call[d].batch)'
      BY <1>0, <1>1, <1>3, <1>4, <1>6, <1>7, <1>8, <1>10, <2>1, <3>1, Rows DEF BatchFits, Sane, t
    <3>3. FormCallFits(d)'
      BY <1>1, <1>4, <1>6, <1>7, <1>8, <1>10, <2>1 DEF FormCallFits
    <3> QED
      BY <3>2, <3>3
  <2>2. CASE d # e
    <3>1. BatchFits(call[d].batch)'
      BY <1>1, <1>10, <2>2 DEF IInv, CallFits, BatchFits, Sane
    <3>2. FormCall(d)' => FormCallFits(d)'
      BY <1>1, <1>10, <2>2 DEF IInv, CallFits, FormCall, FormCallFits
    <3> QED
      BY <3>1, <3>2
  <2> QED
    BY <2>1, <2>2
<1>18. Settling'
  <2> SUFFICES ASSUME overlapped # "yes", NEW g \in Forms
               PROVE  Good(g, FormsAfter(Batch(e))[g])'
    BY <1>1, <1>2, <1>10, <1>12 DEF Settling, Only, FormCall, AllIdle
  <2>1. g # f => Good(g, frow[g])
    BY DEF IInv, Settling, f
  <2>2. Batch(e)' = b
    BY <1>10, <1>11 DEF Batch
  <2>3. FormsAfter(Batch(e))'[g] = IF g = f THEN r ELSE frow[g]
    BY <1>1, <1>6, <1>7, <1>8, <2>2 DEF FormsAfter
  <2> QED
    <3>1. CASE g = f
      <4>1. FormsAfter(Batch(e))'[g] = r
        BY <2>3, <3>1
      <4> QED
        BY <1>1, <1>3, <1>4, <1>6, <3>1, <4>1 DEF Good, Cured, t
    <3>2. CASE g # f
      <4>1. FormsAfter(Batch(e))'[g] = frow[g] /\ Good(g, frow[g])
        BY <2>1, <2>3, <3>2
      <4> QED
        BY <1>1, <4>1 DEF Good, Cured, Missed
    <3> QED
      BY <3>1, <3>2
<1>19. ScanFits'
  BY <1>1, <1>2 DEF IInv, ScanFits, BatchFits, Sane
<1>20. DecksFit'
  <2>1. \A g \in Forms : Announced(g) => Announced(g)'
    BY <1>1, <1>2, <1>10, TplOfAssumption DEF Announced, FormCall, Unread, Differs, f
  <2> QED
    BY <1>1, <2>1 DEF IInv, DecksFit, Shows
<1> QED
  BY <1>r, <1>13, <1>14, <1>15, <1>16, <1>17, <1>18, <1>19, <1>20 DEF IInv

LEMMA OnFormChangedKeeps ==
    ASSUME OnlyForms, IInv, TypeOK', NEW e \in Editors, OnFormChanged(e)
    PROVE  IInv'
<1>1. FormCall(e) /\ call[e].step = "changed"
  BY DEF OnFormChanged, FormCall
<1>2. /\ UNCHANGED <<files, reading, rows, scan, changed, decks, past>>
      /\ cache' = Cached({TplOf[call[e].on]})
  BY DEF OnFormChanged
<1>3. \/ /\ Loadable(TplOf[call[e].on]) /\ Parses(call[e].on)
         /\ Go(e, "reconcile",
               [Nothing EXCEPT !.forms[call[e].on] = HookRow(call[e].on, Seen(TplOf[call[e].on]))])
      \/ ~ (Loadable(TplOf[call[e].on]) /\ Parses(call[e].on)) /\ End(e)
  BY DEF OnFormChanged
<1> QED
  BY <1>1, <1>2, <1>3, FormChangedEnds, FormChangedProjects

\* Where an operation on a template may start.
LEMMA TemplateMayStart ==
    ASSUME OnlyForms, IInv, MayStart("template"), Settled, Starts
    PROVE  /\ AllIdle /\ scan.step = "idle" /\ ~ changed
           /\ \A u \in Templates : /\ reading[u] = 0 /\ ~ InHand(u) /\ ~ Clearing(u)
                                   /\ cache[u] \in {0, tpl[u]} /\ trow[u].by = tpl[u]
           /\ \A d \in Editors : ~ TemplateCall(d) /\ ~ FormCall(d) /\ call[d].batch = Nothing
           /\ overlapped # "yes" => \A g \in Forms : Good(g, frow[g])
           /\ overlapped' = overlapped /\ scan'.step = "idle" /\ scan'.batch = Nothing
<1>1. Quiet /\ TypeOK
  BY MayStartTemplate DEF IInv
<1>2. AllIdle /\ scan.step = "idle" /\ ~ changed
  BY <1>1, QuietIs
<1>3. \A d \in Editors : ~ TemplateCall(d) /\ ~ FormCall(d) /\ call[d].batch = Nothing
  BY <1>2 DEF AllIdle, TemplateCall, FormCall, IInv, Resting
<1>4. \A u \in Templates : ~ InHand(u) /\ ~ Clearing(u)
  BY <1>3 DEF InHand, Clearing
<1>5. \A u \in Templates : cache[u] \in {0, tpl[u]} /\ trow[u].by = tpl[u]
  BY <1>2, <1>4 DEF IInv, CacheFits, TemplateRows
<1>6. overlapped' = overlapped
  BY <1>1 DEF Starts, Quiet
<1>7. scan'.step = "idle" /\ scan'.batch = Nothing
  BY <1>1, <1>2, StartsAlone DEF IInv, Resting
<1>8. overlapped # "yes" => \A g \in Forms : Good(g, frow[g])
  BY <1>2 DEF IInv, Settling
<1> QED
  BY <1>2, <1>3, <1>4, <1>5, <1>6, <1>7, <1>8, NoneReading

\* An operation on a template starts: what it carries is left to each of them.
LEMMA TemplateStartKeeps ==
    ASSUME OnlyForms, IInv, TypeOK', NEW e \in Editors, NEW t \in Templates, NEW w,
           MayStart("template"), Settled, Starts,
           form' = form, broken' = broken, trow' = trow, frow' = frow, changed' = changed,
           reading' = reading, deck' = deck, build' = build,
           cache' = cache \/ cache' = Cached({t}),
           tpl' = [tpl EXCEPT ![t] = w],
           (w \in {0, tpl[t]} /\ writes' = writes) \/ (w = writes + 1 /\ writes' = writes + 1),
           \A u \in Templates : u # t => (u \in recreated' <=> u \in recreated),
           call'[e].step \in {"clear", "clearDeleted", "reconcile"}, call'[e].kind = "template", call'[e].on = t,
           \A d \in Editors : d # e => call'[d] = call[d],
           call'[e].step = "reconcile" => w = tpl[t],
           BatchFits(call[e].batch)', TemplateCallFits(e)',
           overlapped # "yes" =>
              /\ call'[e].step # "reconcile" =>
                    \A g \in Forms : TplOf[g] = t => w = 0 \/ GoodBut(g)'
              /\ call'[e].step = "reconcile" => \A g \in Forms : Good(g, FormsAfter(Batch(e))[g])'
    PROVE  IInv'
<1>0. TypeOK
  BY DEF IInv
<1>1. /\ AllIdle /\ scan.step = "idle" /\ ~ changed
      /\ \A u \in Templates : reading[u] = 0 /\ cache[u] \in {0, tpl[u]} /\ trow[u].by = tpl[u] /\ ~ InHand(u)
      /\ \A d \in Editors : ~ TemplateCall(d) /\ ~ FormCall(d) /\ call[d].batch = Nothing
      /\ overlapped # "yes" => \A g \in Forms : Good(g, frow[g])
      /\ overlapped' = overlapped /\ scan'.step = "idle" /\ scan'.batch = Nothing
  BY TemplateMayStart
<1>2. /\ tpl'[t] = w
      /\ \A u \in Templates : u # t => tpl'[u] = tpl[u]
  BY <1>0, Parts
<1>3. TemplateCall(e)' /\ InHand(t)' /\ \A d \in Editors : d # e => ~ TemplateCall(d)'
  BY <1>1 DEF TemplateCall, InHand
<1>n. /\ writes \in Nat /\ \A g \in Forms : form[g] \in Nat /\ TplOf[g] \in Templates /\ frow[g].of \in Nat
      /\ \A b \in broken : b \in Nat
      /\ \A u \in Templates : tpl[u] \in Nat
  BY <1>0, Naturally
<1>4. Exclusive'
  BY <1>1, <1>3 DEF Exclusive, Only, AllIdle
<1>5. Resting'
  BY <1>1 DEF Resting
<1>6. Numbered'
  BY <1>2, <1>n DEF IInv, Numbered
<1>7. CacheFits'
  <2>1. \A u \in Templates : cache'[u] \in {0, tpl[u]}
    BY <1>1, CachedFits
  <2>2. call'[e].step # "reconcile" => Clearing(t)'
    BY <1>3 DEF Clearing
  <2> QED
    BY <1>2, <2>1, <2>2 DEF CacheFits
<1>8. TemplateRows'
  BY <1>1, <1>2, <1>3 DEF IInv, TemplateRows
<1>9. FormRows'
  BY <1>1, <1>2, <1>3, <1>n DEF IInv, FormRows, Sane
<1>10. CallFits'
  BY <1>1, <1>3, Rows DEF CallFits, BatchFits, Sane, FormCall
<1>11. Settling'
  <2> SUFFICES ASSUME overlapped # "yes", call'[e].step # "reconcile"
               PROVE  \A g \in Forms : TplOf[g] # t => Good(g, frow[g])'
    BY <1>1, <1>2, <1>3 DEF Settling, AllIdle, FormCall
  <2> QED
    BY <1>1, <1>2, <1>n DEF Good, Cured, Missed
<1>12. ScanFits'
  BY <1>1, Rows DEF ScanFits, BatchFits, Sane
<1>13. DecksFit'
  <2>1. \A g \in Forms : ~ Announced(g)
    BY <1>1, <1>n DEF Announced
  <2>2. \A g \in Forms : TplOf[g] = t => Announced(g)'
    BY <1>3 DEF Announced
  <2> QED
    BY <1>1, <1>2, <1>n, <2>1, <2>2 DEF IInv, DecksFit, Shows
<1> QED
  BY <1>4, <1>5, <1>6, <1>7, <1>8, <1>9, <1>10, <1>11, <1>12, <1>13 DEF IInv

LEMMA SaveTemplateKeeps ==
    ASSUME OnlyForms, IInv, TypeOK', NEW e \in Editors, NEW t \in Templates, SaveTemplate(e, t)
    PROVE  IInv'
<1> DEFINE w == writes + 1
<1>0. TypeOK
  BY DEF IInv
<1>1. Start(e, "template", "clear", t)
  BY DEF SaveTemplate
<1>2. MayStart("template") /\ Settled /\ Starts /\ call[e].step = "idle"
  BY <1>1 DEF Start
<1>3. /\ form' = form /\ broken' = broken /\ trow' = trow /\ frow' = frow /\ changed' = changed
      /\ reading' = reading /\ deck' = deck /\ build' = build /\ cache' = Cached({t})
      /\ tpl' = [tpl EXCEPT ![t] = w] /\ writes' = w
      /\ recreated' = IF tpl[t] = 0 THEN recreated \cup {t} ELSE recreated
  BY DEF SaveTemplate, rows, decks
<1>4. /\ call'[e].step = "clear" /\ call'[e].kind = "template" /\ call'[e].on = t /\ call'[e].batch = Nothing
      /\ \A d \in Editors : d # e => call'[d] = call[d]
  BY <1>0, <1>1, StartFacts, Parts DEF CallSteps
<1>5. w \in Nat /\ w # 0 /\ tpl'[t] = w
  BY <1>0, <1>3, Naturally, Parts
<1>6. BatchFits(call[e].batch)'
  BY <1>4, Rows DEF BatchFits, Sane
<1>7. TemplateCallFits(e)'
  BY <1>4, <1>5 DEF TemplateCallFits
<1>8. ASSUME overlapped # "yes", NEW g \in Forms, TplOf[g] = t
      PROVE  GoodBut(g)'
  <2>1. Good(g, frow[g])
    BY <1>2, <1>8, TemplateMayStart
  <2> QED
    BY <1>3, <1>8, <2>1 DEF Good, Cured, GoodBut, Missed
<1>9. \A u \in Templates : u # t => (u \in recreated' <=> u \in recreated)
  BY <1>3
<1> QED
  BY <1>2, <1>3, <1>4, <1>6, <1>7, <1>8, <1>9, TemplateStartKeeps

LEMMA DeleteTemplateKeeps ==
    ASSUME OnlyForms, IInv, TypeOK', NEW e \in Editors, NEW t \in Templates, DeleteTemplate(e, t)
    PROVE  IInv'
<1>0. TypeOK
  BY DEF IInv
<1>1. Start(e, "template", "clearDeleted", t)
  BY DEF DeleteTemplate
<1>2. MayStart("template") /\ Settled /\ Starts /\ call[e].step = "idle"
  BY <1>1 DEF Start
<1>3. /\ form' = form /\ broken' = broken /\ trow' = trow /\ frow' = frow /\ changed' = changed
      /\ reading' = reading /\ deck' = deck /\ build' = build /\ cache' = cache
      /\ tpl' = [tpl EXCEPT ![t] = 0] /\ writes' = writes /\ recreated' = recreated
  BY DEF DeleteTemplate, rows, decks
<1>4. /\ call'[e].step = "clearDeleted" /\ call'[e].kind = "template" /\ call'[e].on = t /\ call'[e].batch = Nothing
      /\ \A d \in Editors : d # e => call'[d] = call[d]
  BY <1>0, <1>1, StartFacts, Parts DEF CallSteps
<1>5. tpl'[t] = 0
  BY <1>0, <1>3, Parts
<1>6. BatchFits(call[e].batch)'
  BY <1>4, Rows DEF BatchFits, Sane
<1>7. TemplateCallFits(e)'
  BY <1>4, <1>5 DEF TemplateCallFits
<1> DEFINE w == 0
<1>8. /\ tpl' = [tpl EXCEPT ![t] = w] /\ w \in {0, tpl[t]}
      /\ \A g \in Forms : TplOf[g] = t => w = 0
  BY <1>3
<1>9. \A u \in Templates : u # t => (u \in recreated' <=> u \in recreated)
  BY <1>3
<1>10. /\ (w \in {0, tpl[t]} /\ writes' = writes) \/ (w = writes + 1 /\ writes' = writes + 1)
       /\ cache' = cache \/ cache' = Cached({t})
       /\ call'[e].step = "reconcile" => w = tpl[t]
       /\ call'[e].step \in {"clear", "clearDeleted", "reconcile"}
  BY <1>3, <1>4, <1>8
<1>11. overlapped # "yes" =>
         /\ call'[e].step # "reconcile" => \A g \in Forms : TplOf[g] = t => w = 0 \/ GoodBut(g)'
         /\ call'[e].step = "reconcile" => \A g \in Forms : Good(g, FormsAfter(Batch(e))[g])'
  BY <1>4, <1>8
<1> HIDE DEF w
<1> QED
  BY <1>2, <1>3, <1>4, <1>6, <1>7, <1>8, <1>9, <1>10, <1>11, TemplateStartKeeps

LEMMA RescanTemplateKeeps ==
    ASSUME OnlyForms, IInv, TypeOK', NEW e \in Editors, NEW t \in Templates, RescanTemplate(e, t)
    PROVE  IInv'
<1> DEFINE b == call'[e].batch
<1>0. TypeOK
  BY DEF IInv
<1>2. MayStart("template") /\ Settled /\ Starts /\ call[e].step = "idle"
  BY DEF RescanTemplate
<1>3. /\ form' = form /\ broken' = broken /\ trow' = trow /\ frow' = frow /\ changed' = changed
      /\ reading' = reading /\ deck' = deck /\ build' = build
      /\ cache' = cache \/ cache' = Cached({t})
      /\ tpl' = tpl /\ writes' = writes
      /\ recreated' = IF tpl[t] = 0 THEN recreated ELSE recreated \ {t}
  BY DEF RescanTemplate, rows, decks, files
<1>4. /\ call'[e].step = "reconcile" /\ call'[e].kind = "template" /\ call'[e].on = t
      /\ \A d \in Editors : d # e => call'[d] = call[d]
  BY <1>0, RescanFacts
<1>5. cache[t] \in {0, tpl[t]} /\ (overlapped # "yes" => \A g \in Forms : Good(g, frow[g]))
  BY <1>2, TemplateMayStart
<1>n. /\ writes \in Nat
      /\ \A g \in Forms : /\ form[g] \in Nat /\ form[g] <= writes /\ TplOf[g] \in Templates
                          /\ frow[g].of \in Nat /\ frow[g].stamp \in Nat
  BY <1>0, Naturally DEF IInv, Numbered
<1>b. b \in Batches
  BY <1>4, CallParts DEF Calls, TypeOK
<1>6. tpl[t] = 0 =>
        /\ b = [Nothing EXCEPT !.tdel = {t}]
        /\ b.tpls = Nothing.tpls /\ b.forms = Nothing.forms /\ b.tdel = {t} /\ b.fdel = {}
  <2>1. [Nothing EXCEPT !.tdel = {t}] =
           [tpls |-> Nothing.tpls, forms |-> Nothing.forms, tdel |-> {t}, fdel |-> {}]
    BY NothingParts, Altered
  <2>2. tpl[t] = 0 => b = [Nothing EXCEPT !.tdel = {t}]
    BY <1>0, RescanFacts
  <2> HIDE DEF b
  <2> QED
    BY <2>1, <2>2
<1>7. tpl[t] # 0 =>
        /\ b.tpls = [Nothing.tpls EXCEPT ![t] = [by |-> tpl[t], stamp |-> tpl[t]]]
        /\ b.forms = RescanRows(t) /\ b.tdel = {} /\ b.fdel = RescanGone(t) /\ Seen(t) = tpl[t]
  <2> SUFFICES ASSUME tpl[t] # 0
               PROVE  /\ b.tpls = [Nothing.tpls EXCEPT ![t] = [by |-> tpl[t], stamp |-> tpl[t]]]
                      /\ b.forms = RescanRows(t) /\ b.tdel = {} /\ b.fdel = RescanGone(t) /\ Seen(t) = tpl[t]
    OBVIOUS
  <2>1. Seen(t) = tpl[t]
    BY <1>5, Loads DEF IInv
  <2>2. /\ b.tpls = [Nothing.tpls EXCEPT ![t] = [by |-> Seen(t), stamp |-> tpl[t]]]
        /\ b.forms = RescanRows(t) /\ b.tdel = {} /\ b.fdel = RescanGone(t)
    BY <1>0, RescanFacts
  <2> HIDE DEF b
  <2> QED
    BY <2>1, <2>2
<1> HIDE DEF b
<1>8. ASSUME tpl[t] # 0
      PROVE
        /\ b.tpls[t].by = tpl[t] /\ b.tpls[t].stamp = tpl[t] /\ b.tpls[t] # NoTRow
        /\ \A u \in Templates : u # t => b.tpls[u] = NoTRow
        /\ \A f \in Forms :
              /\ TplOf[f] = t /\ Parses(f) => /\ b.forms[f] # NoFRow /\ b.forms[f].of = form[f]
                                              /\ b.forms[f].by = tpl[t] /\ b.forms[f].stamp = form[f]
              /\ ~ (TplOf[f] = t /\ Parses(f)) => b.forms[f] = NoFRow
        /\ \A f \in Forms : f \in b.fdel <=> (TplOf[f] = t /\ form[f] = 0 /\ frow[f] # NoFRow)
        /\ \A f \in b.fdel : f \in Forms
  <2>1. b.tpls[t] = [by |-> tpl[t], stamp |-> tpl[t]] /\ \A u \in Templates : u # t => b.tpls[u] = NoTRow
    BY <1>7, <1>8, Rows
  <2>2. \A f \in Forms : RescanRows(t)[f] = IF TplOf[f] = t /\ Parses(f)
                                             THEN [of |-> form[f], by |-> tpl[t], stamp |-> form[f]] ELSE NoFRow
    BY <1>7, <1>8 DEF RescanRows
  <2>3. \A f \in Forms : f \in b.fdel <=> (TplOf[f] = t /\ form[f] = 0 /\ frow[f] # NoFRow)
    BY <1>7, <1>8 DEF RescanGone
  <2>4. \A f \in b.fdel : f \in Forms
    BY <1>7, <1>8 DEF RescanGone
  <2>5. b.tpls[t].by = tpl[t] /\ b.tpls[t].stamp = tpl[t] /\ b.tpls[t] # NoTRow
    BY <1>8, <2>1, Rows
  <2>6. \A f \in Forms :
              /\ TplOf[f] = t /\ Parses(f) => /\ b.forms[f] # NoFRow /\ b.forms[f].of = form[f]
                                              /\ b.forms[f].by = tpl[t] /\ b.forms[f].stamp = form[f]
              /\ ~ (TplOf[f] = t /\ Parses(f)) => b.forms[f] = NoFRow
    <3> SUFFICES ASSUME NEW f \in Forms
                 PROVE  /\ TplOf[f] = t /\ Parses(f) => /\ b.forms[f] # NoFRow /\ b.forms[f].of = form[f]
                                                        /\ b.forms[f].by = tpl[t] /\ b.forms[f].stamp = form[f]
                        /\ ~ (TplOf[f] = t /\ Parses(f)) => b.forms[f] = NoFRow
      OBVIOUS
    <3>1. b.forms[f] = IF TplOf[f] = t /\ Parses(f)
                       THEN [of |-> form[f], by |-> tpl[t], stamp |-> form[f]] ELSE NoFRow
      BY <1>7, <1>8, <2>2
    <3>2. Parses(f) => form[f] # 0
      BY DEF Parses
    <3> QED
      BY <3>1, <3>2, Rows
  <2> QED
    BY <2>1, <2>3, <2>4, <2>5, <2>6
<1>9. BatchFits(call[e].batch)'
  <2>1. CASE tpl[t] = 0
    BY <1>3, <1>6, <2>1, Rows DEF BatchFits, Sane, b
  <2>2. CASE tpl[t] # 0
    BY <1>3, <1>7, <1>8, <1>n, <2>2 DEF BatchFits, Sane, b, Parses
  <2> QED
    BY <2>1, <2>2
<1>10. TemplateCallFits(e)'
  <2>1. CASE tpl[t] = 0
    BY <1>3, <1>4, <1>6, <2>1 DEF TemplateCallFits, b
  <2>2. CASE tpl[t] # 0
    <3>1. \A f \in Forms : TplOf[f] = t /\ form[f] # 0 /\ frow[f] # NoFRow /\ frow[f].stamp = form[f] => Parses(f)
      BY <1>n DEF IInv, FormRows, Sane, Parses
    <3> QED
      BY <1>3, <1>4, <1>7, <1>8, <2>2, <3>1 DEF TemplateCallFits, b
  <2> QED
    BY <2>1, <2>2
<1>11. ASSUME overlapped # "yes", NEW g \in Forms
       PROVE  Good(g, FormsAfter(Batch(e))[g])'
  <2>1. b # Nothing
    BY <1>6, <1>8, Rows
  <2>2. Batch(e)' = b
    BY <2>1 DEF Batch, b
  <2>3. Good(g, frow[g])
    BY <1>5, <1>11
  <2>4. CASE tpl[t] = 0
    <3>1. FormsAfter(Batch(e))'[g] = IF TplOf[g] = t THEN NoFRow ELSE frow[g]
      BY <1>3, <1>6, <2>2, <2>4, Rows DEF FormsAfter
    <3> QED
      BY <1>3, <2>3, <2>4, <3>1 DEF Good, Cured, Missed
  <2>5. CASE tpl[t] # 0 /\ TplOf[g] = t
    <3>1. FormsAfter(Batch(e))'[g] = IF form[g] = 0 /\ frow[g] # NoFRow THEN NoFRow
                                     ELSE IF Parses(g) THEN b.forms[g] ELSE frow[g]
      BY <1>3, <1>7, <1>8, <2>2, <2>5 DEF FormsAfter, Parses
    <3> QED
      BY <1>3, <1>8, <2>3, <2>5, <3>1 DEF Good, Cured, Missed, Parses
  <2>6. CASE tpl[t] # 0 /\ TplOf[g] # t
    <3>1. FormsAfter(Batch(e))'[g] = frow[g]
      BY <1>3, <1>7, <1>8, <2>2, <2>6 DEF FormsAfter
    <3> QED
      BY <1>3, <2>3, <2>6, <3>1 DEF Good, Cured, Missed
  <2> QED
    BY <2>4, <2>5, <2>6
<1>12. \A u \in Templates : u # t => (u \in recreated' <=> u \in recreated)
  BY <1>3
<1> DEFINE w == tpl[t]
<1>13. tpl' = [tpl EXCEPT ![t] = w] /\ w \in {0, tpl[t]} /\ w = tpl[t]
  BY <1>0, <1>3, Parts
<1>14. /\ (w \in {0, tpl[t]} /\ writes' = writes) \/ (w = writes + 1 /\ writes' = writes + 1)
       /\ call'[e].step = "reconcile" => w = tpl[t]
       /\ call'[e].step \in {"clear", "clearDeleted", "reconcile"}
  BY <1>3, <1>4, <1>13
<1>15. overlapped # "yes" =>
         /\ call'[e].step # "reconcile" => \A g \in Forms : TplOf[g] = t => w = 0 \/ GoodBut(g)'
         /\ call'[e].step = "reconcile" => \A g \in Forms : Good(g, FormsAfter(Batch(e))[g])'
  BY <1>4, <1>11
<1>16. /\ form' = form /\ broken' = broken /\ trow' = trow /\ frow' = frow /\ changed' = changed
       /\ reading' = reading /\ deck' = deck /\ build' = build
       /\ cache' = cache \/ cache' = Cached({t})
       /\ tpl' = [tpl EXCEPT ![t] = w]
  BY <1>3, <1>13
<1> HIDE DEF w
<1> QED
  BY <1>2, <1>4, <1>9, <1>10, <1>12, <1>14, <1>15, <1>16, TemplateStartKeeps

\* While a call on a template is under way nothing else is.
LEMMA TemplateUnderWay ==
    ASSUME IInv, NEW e \in Editors, TemplateCall(e)
    PROVE  /\ call[e].on \in Templates /\ ~ changed /\ scan.step = "idle" /\ scan.batch = Nothing
           /\ \A d \in Editors : d # e => call[d].step = "idle" /\ call[d].batch = Nothing
           /\ \A u \in Templates : reading[u] = 0
           /\ \A u \in Templates : u # call[e].on =>
                 ~ InHand(u) /\ cache[u] \in {0, tpl[u]} /\ trow[u].by = tpl[u]
           /\ call[e].step \notin {"clear", "clearDeleted"} => \A u \in Templates : cache[u] \in {0, tpl[u]}
           /\ TemplateCallFits(e)
<1>1. Only(e) /\ call[e].on \in Templates
  BY CallParts DEF IInv, Exclusive, TemplateCall
<1>2. ~ changed /\ scan.step = "idle" /\ scan.batch = Nothing
  BY <1>1 DEF IInv, Exclusive, Only, Resting
<1>3. \A d \in Editors : d # e => call[d].step = "idle" /\ call[d].batch = Nothing
  BY <1>1 DEF Only, IInv, Resting
<1>4. \A u \in Templates : reading[u] = 0
  BY DEF IInv, Exclusive, AllIdle, TemplateCall
<1>5. \A u \in Templates : u # call[e].on => ~ InHand(u) /\ ~ Clearing(u)
  BY <1>3 DEF InHand, Clearing, TemplateCall
<1>6. call[e].step \notin {"clear", "clearDeleted"} => \A u \in Templates : ~ Clearing(u)
  BY <1>3 DEF Clearing, TemplateCall
<1>7. \A u \in Templates : u # call[e].on => cache[u] \in {0, tpl[u]} /\ trow[u].by = tpl[u]
  BY <1>2, <1>5 DEF IInv, CacheFits, TemplateRows
<1>8. call[e].step \notin {"clear", "clearDeleted"} => \A u \in Templates : cache[u] \in {0, tpl[u]}
  BY <1>6 DEF IInv, CacheFits
<1> QED
  BY <1>1, <1>2, <1>3, <1>4, <1>5, <1>7, <1>8 DEF IInv, CallFits

\* A call on a template goes from one step to the next.
LEMMA TemplateGoesOn ==
    ASSUME IInv, TypeOK', NEW e \in Editors, TemplateCall(e), call[e].step # "reconcile",
           UNCHANGED <<files, reading, rows, scan, changed, decks, past>>,
           \A u \in Templates : cache'[u] \in {0, tpl[u]},
           call'[e].step \in {"changed", "reconcile"}, call'[e].kind = "template", call'[e].on = call[e].on,
           \A d \in Editors : d # e => call'[d] = call[d],
           BatchFits(call[e].batch)', TemplateCallFits(e)',
           overlapped # "yes" /\ call'[e].step = "reconcile" =>
              \A g \in Forms : Good(g, FormsAfter(Batch(e))[g])'
    PROVE  IInv'
<1>1. /\ tpl' = tpl /\ form' = form /\ broken' = broken /\ writes' = writes /\ reading' = reading
      /\ trow' = trow /\ frow' = frow /\ scan' = scan /\ changed' = changed /\ deck' = deck /\ build' = build
      /\ overlapped' = overlapped /\ recreated' = recreated
  BY DEF files, rows, decks, past
<1>2. /\ ~ changed /\ scan.step = "idle" /\ scan.batch = Nothing
      /\ \A d \in Editors : d # e => call[d].step = "idle" /\ call[d].batch = Nothing
      /\ \A u \in Templates : reading[u] = 0
  BY TemplateUnderWay
<1>3. TemplateCall(e)' /\ \A d \in Editors : d # e => ~ TemplateCall(d)' /\ ~ FormCall(d)'
  BY <1>2 DEF TemplateCall, FormCall
<1>4. \A u \in Templates : InHand(u)' <=> InHand(u)
  BY <1>2, <1>3 DEF InHand, TemplateCall
<1>5. Exclusive'
  BY <1>1, <1>2, <1>3 DEF Exclusive, Only, AllIdle
<1>6. Resting'
  BY <1>1, <1>2 DEF Resting
<1>7. Numbered' /\ CacheFits'
  BY <1>1 DEF IInv, Numbered, CacheFits
<1>8. TemplateRows' /\ FormRows'
  BY <1>1, <1>4, TplOfAssumption DEF IInv, TemplateRows, FormRows, Sane
<1>9. CallFits'
  BY <1>2, <1>3, Rows DEF CallFits, BatchFits, Sane, FormCall, TemplateCall
<1>10. Settling'
  <2>1. ASSUME overlapped # "yes", call'[e].step # "reconcile", NEW g \in Forms
        PROVE  (IF TplOf[g] # call[e].on THEN Good(g, frow[g]) ELSE tpl[TplOf[g]] = 0 \/ GoodBut(g))'
    <3>1. IF TplOf[g] # call[e].on THEN Good(g, frow[g]) ELSE tpl[TplOf[g]] = 0 \/ GoodBut(g)
      BY <2>1 DEF IInv, Settling
    <3> QED
      BY <1>1, <3>1 DEF Good, Cured, Missed, GoodBut
  <2> QED
    BY <1>1, <1>2, <1>3, <2>1 DEF Settling, AllIdle, FormCall, TemplateCall
<1>11. ScanFits'
  BY <1>1, <1>2, Rows DEF ScanFits, BatchFits, Sane
<1>12. DecksFit'
  <2>1. \A g \in Forms : Announced(g) => Announced(g)'
    BY <1>1, <1>2, <1>4, TplOfAssumption DEF Announced, FormCall, TemplateCall
  <2> QED
    BY <1>1, <2>1 DEF IInv, DecksFit, Shows
<1> QED
  BY <1>5, <1>6, <1>7, <1>8, <1>9, <1>10, <1>11, <1>12 DEF IInv

LEMMA CacheClearKeeps ==
    ASSUME IInv, TypeOK', NEW e \in Editors, CacheClear(e)
    PROVE  IInv'
<1> DEFINE t == call[e].on
<1>0. TypeOK
  BY DEF IInv
<1>1. UNCHANGED <<files, reading, rows, scan, changed, decks, past>>
  BY DEF CacheClear
<1>2. call[e].step \in {"clear", "clearDeleted"} /\ cache' = [cache EXCEPT ![t] = 0]
  BY DEF CacheClear
<1>3. TemplateCall(e)
  BY <1>0, <1>2, CallParts DEF IInv, CallFits, FormCall, FormCallFits, TemplateCall
<1>4. /\ t \in Templates
      /\ \A u \in Templates : u # t => cache[u] \in {0, tpl[u]}
      /\ TemplateCallFits(e)
  BY <1>3, TemplateUnderWay
<1>5. \A u \in Templates : cache'[u] \in {0, tpl[u]}
  BY <1>0, <1>2, <1>4, Parts
<1>6. /\ call'[e].kind = "template" /\ call'[e].on = t /\ call'[e].batch = Nothing
      /\ \A d \in Editors : d # e => call'[d] = call[d]
      /\ \/ call[e].step = "clear" /\ call'[e].step = "changed"
         \/ call[e].step = "clearDeleted" /\ call'[e].step = "reconcile"
  <2>1. CASE call[e].step = "clear"
    <3>1. Go(e, "changed", Nothing)
      BY <2>1 DEF CacheClear
    <3> QED
      BY <1>0, <1>3, <2>1, <3>1, GoFacts, NothingType DEF CallSteps, TemplateCall
  <2>2. CASE call[e].step = "clearDeleted"
    <3>1. Go(e, "reconcile", Nothing)
      BY <2>2 DEF CacheClear
    <3> QED
      BY <1>0, <1>3, <2>2, <3>1, GoFacts, NothingType DEF CallSteps, TemplateCall
  <2> QED
    BY <1>2, <2>1, <2>2
<1>7. tpl' = tpl /\ form' = form /\ broken' = broken /\ frow' = frow /\ recreated' = recreated
  BY <1>1 DEF files, rows, past
<1>8. BatchFits(call[e].batch)'
  BY <1>6, Rows DEF BatchFits, Sane
<1>9. TemplateCallFits(e)'
  BY <1>4, <1>6, <1>7 DEF TemplateCallFits
<1>10. ASSUME overlapped # "yes", call'[e].step = "reconcile", NEW g \in Forms
       PROVE  Good(g, FormsAfter(Batch(e))[g])'
  <2>1. tpl[t] = 0
    BY <1>4, <1>6, <1>10 DEF TemplateCallFits
  <2>2. TplOf[g] # t => Good(g, frow[g])
    BY <1>2, <1>3, <1>10 DEF IInv, Settling
  <2>3. Batch(e)' = DeleteBatch(call'[e])
    BY <1>6 DEF Batch
  <2>4. DeleteBatch(call'[e]).tdel = {t} /\ DeleteBatch(call'[e]).fdel = {}
        /\ DeleteBatch(call'[e]).forms = Nothing.forms
    BY <1>6 DEF DeleteBatch, Nothing
  <2>5. FormsAfter(Batch(e))'[g] = IF TplOf[g] = t THEN NoFRow ELSE frow[g]
    BY <1>7, <2>3, <2>4, Rows DEF FormsAfter
  <2> HIDE DEF t
  <2> QED
    BY <1>7, <2>1, <2>2, <2>5 DEF Good, Cured, Missed
<1>11. call'[e].step \in {"changed", "reconcile"} /\ call[e].step # "reconcile"
  BY <1>2, <1>6
<1> QED
  BY <1>1, <1>3, <1>5, <1>6, <1>8, <1>9, <1>10, <1>11, TemplateGoesOn

LEMMA OnTemplateChangedKeeps ==
    ASSUME IInv, TypeOK', NEW e \in Editors, OnTemplateChanged(e)
    PROVE  IInv'
<1> DEFINE t == call[e].on
           b == TemplateBatch(t, {f \in Forms : TplOf[f] = t /\ frow[f] # NoFRow},
                              [by |-> Seen(t), stamp |-> 0], Unsized)
<1>0. TypeOK
  BY DEF IInv
<1>1. UNCHANGED <<files, reading, rows, scan, changed, decks, past>> /\ cache' = Cached({t})
  BY DEF OnTemplateChanged
<1>2. TemplateCall(e) /\ call[e].step = "changed"
  BY DEF OnTemplateChanged, TemplateCall
<1>3. t \in Templates /\ TemplateCallFits(e) /\ \A u \in Templates : cache[u] \in {0, tpl[u]}
  BY <1>2, TemplateUnderWay
<1>4. tpl[t] # 0
  BY <1>2, <1>3 DEF TemplateCallFits
<1>5. Loadable(t) /\ Seen(t) = tpl[t]
  BY <1>3, <1>4, Loads DEF IInv
<1>6. Go(e, "reconcile", b)
  BY <1>5 DEF OnTemplateChanged
<1>7. /\ b \in Batches
      /\ b.tpls = [Nothing.tpls EXCEPT ![t] = [by |-> Seen(t), stamp |-> 0]]
      /\ b.forms = [f \in Forms |-> IF TplOf[f] = t /\ frow[f] # NoFRow /\ Parses(f)
                                    THEN [of |-> form[f], by |-> Seen(t), stamp |-> 0] ELSE NoFRow]
      /\ b.tdel = {} /\ b.fdel = {}
  BY <1>0, <1>3, TemplateChangedBatch
<1> HIDE DEF b
<1>8. /\ call'[e].step = "reconcile" /\ call'[e].kind = "template" /\ call'[e].on = t /\ call'[e].batch = b
      /\ \A d \in Editors : d # e => call'[d] = call[d]
  BY <1>0, <1>2, <1>6, <1>7, GoFacts DEF CallSteps, TemplateCall
<1>9. /\ tpl' = tpl /\ form' = form /\ broken' = broken /\ frow' = frow /\ recreated' = recreated
      /\ writes' = writes
  BY <1>1 DEF files, rows, past
<1>10. \A u \in Templates : cache'[u] \in {0, tpl[u]}
  BY <1>1, <1>3, CachedFits
<1>n. /\ writes \in Nat
      /\ \A f \in Forms : /\ form[f] \in Nat /\ form[f] <= writes /\ TplOf[f] \in Templates
                          /\ frow[f].of \in Nat /\ frow[f].stamp \in Nat
  BY <1>0, Naturally DEF IInv, Numbered
<1> HIDE DEF t
<1>11. /\ b.tpls[t].by = tpl[t] /\ b.tpls[t].stamp = 0 /\ b.tpls[t] # NoTRow
       /\ \A u \in Templates : u # t => b.tpls[u] = NoTRow
  <2>1. b.tpls[t] = [by |-> tpl[t], stamp |-> 0] /\ \A u \in Templates : u # t => b.tpls[u] = NoTRow
    BY <1>3, <1>5, <1>7, Rows
  <2> QED
    BY <1>4, <2>1, Rows
<1>12. ASSUME NEW f \in Forms
       PROVE  IF TplOf[f] = t /\ frow[f] # NoFRow /\ Parses(f)
              THEN b.forms[f] # NoFRow /\ b.forms[f].of = form[f] /\ b.forms[f].by = tpl[t] /\ b.forms[f].stamp = 0
              ELSE b.forms[f] = NoFRow
  <2>1. b.forms[f] = IF TplOf[f] = t /\ frow[f] # NoFRow /\ Parses(f)
                     THEN [of |-> form[f], by |-> tpl[t], stamp |-> 0] ELSE NoFRow
    BY <1>5, <1>7
  <2>2. Parses(f) => form[f] # 0
    BY DEF Parses
  <2> QED
    BY <2>1, <2>2, Rows
<1>13. BatchFits(call[e].batch)'
  <2>1. \A f \in Forms : b.forms[f] # NoFRow => Parses(f) /\ TplOf[f] = t
    BY <1>12
  <2>2. \A f \in Forms : b.forms[f] # NoFRow =>
           /\ b.forms[f].of # 0 /\ b.forms[f].of <= writes /\ b.forms[f].of \notin broken
           /\ b.forms[f].stamp <= b.forms[f].of /\ b.forms[f].of <= form[f]
    BY <1>12, <1>n, <2>1 DEF Parses
  <2>3. \A f \in Forms : b.forms[f] # NoFRow => b.forms[f].by = tpl[TplOf[f]] /\ tpl[TplOf[f]] # 0
    BY <1>4, <1>12, <2>1
  <2> QED
    BY <1>4, <1>7, <1>8, <1>9, <1>11, <2>2, <2>3 DEF BatchFits, Sane
<1>14. TemplateCallFits(e)'
  <2>1. \A f \in Forms : TplOf[f] = t /\ form[f] # 0 /\ frow[f] # NoFRow /\ frow[f].stamp = form[f] => Parses(f)
    BY <1>n DEF IInv, FormRows, Sane, Parses
  <2> QED
    BY <1>4, <1>7, <1>8, <1>9, <1>11, <1>12, <2>1 DEF TemplateCallFits
<1>15. ASSUME overlapped # "yes", NEW g \in Forms
       PROVE  Good(g, FormsAfter(Batch(e))[g])'
  <2>1. b # Nothing
    BY <1>3, <1>11, Rows
  <2>2. Batch(e)' = b
    BY <1>8, <2>1 DEF Batch
  <2>3. IF TplOf[g] # t THEN Good(g, frow[g]) ELSE GoodBut(g)
    BY <1>2, <1>4, <1>15 DEF IInv, Settling, t
  <2>4. FormsAfter(Batch(e))'[g] = IF b.forms[g] # NoFRow THEN b.forms[g] ELSE frow[g]
    BY <1>7, <1>9, <2>2 DEF FormsAfter
  <2>5. CASE TplOf[g] = t /\ frow[g] # NoFRow /\ Parses(g)
    <3>1. FormsAfter(Batch(e))'[g] = b.forms[g] /\ b.forms[g].of = form[g] /\ b.forms[g].by = tpl[t]
      BY <1>12, <2>4, <2>5
    <3> QED
      BY <1>4, <1>9, <2>5, <3>1 DEF Good, Cured, Parses
  <2>6. CASE TplOf[g] = t /\ ~ (frow[g] # NoFRow /\ Parses(g))
    <3>1. FormsAfter(Batch(e))'[g] = frow[g]
      BY <1>12, <2>4, <2>6
    <3> QED
      BY <1>9, <2>3, <2>6, <3>1, Rows DEF Good, Cured, Missed, GoodBut, Parses
  <2>7. CASE TplOf[g] # t
    <3>1. FormsAfter(Batch(e))'[g] = frow[g]
      BY <1>12, <2>4, <2>7
    <3> QED
      BY <1>9, <2>3, <2>7, <3>1 DEF Good, Cured, Missed
  <2> QED
    BY <2>5, <2>6, <2>7
<1>16. call'[e].step \in {"changed", "reconcile"} /\ call'[e].on = call[e].on
  BY <1>8 DEF t
<1> QED
  BY <1>1, <1>2, <1>8, <1>10, <1>13, <1>14, <1>15, <1>16, TemplateGoesOn

\* A batch of what the templates are never misses the row of a template.
LEMMA KeysFit ==
    ASSUME IInv, NEW b \in Batches, BatchFits(b),
           \A u \in Templates : InHand(u) /\ tpl[u] # 0 => b.tpls[u] # NoTRow
    PROVE  KeysHold(b)
<1> SUFFICES ASSUME NEW f \in Forms, b.forms[f] # NoFRow, b.tpls[TplOf[f]] = NoTRow
             PROVE  trow[TplOf[f]] # NoTRow
  BY DEF KeysHold
<1>1. TplOf[f] \in Templates /\ tpl[TplOf[f]] # 0
  BY TplOfAssumption DEF BatchFits
<1>2. trow[TplOf[f]].by = tpl[TplOf[f]]
  BY <1>1 DEF IInv, TemplateRows
<1> QED
  BY <1>1, <1>2, Rows

\* What a transaction does to the decks.
LEMMA ReconcileFacts ==
    ASSUME TypeOK, NEW b \in Batches, KeysHold(b), Reconcile(b)
    PROVE  /\ trow' = TemplatesAfter(b) /\ frow' = FormsAfter(b)
           /\ deck'.forms = deck.forms /\ (deck'.current => deck.current)
           /\ build'.forms = build.forms /\ build'.step = build.step /\ (build'.current => build.current)
           /\ Bumps(b) => ~ deck'.current /\ ~ build'.current
<1>1. trow' = TemplatesAfter(b) /\ frow' = FormsAfter(b) /\ IF Bumps(b) THEN NewRevision ELSE UNCHANGED decks
  BY DEF Reconcile
<1>2. /\ deck \in [current : BOOLEAN, forms : [Forms -> Stamps]]
      /\ build \in [step : {"idle", "rev", "built"}, current : BOOLEAN, forms : [Forms -> Stamps]]
  BY Parts
<1>3. CASE Bumps(b)
  <2>1. deck' = [deck EXCEPT !.current = FALSE] /\ build' = [build EXCEPT !.current = FALSE]
    BY <1>1, <1>3 DEF NewRevision
  <2>2. deck'.forms = deck.forms /\ ~ deck'.current
    BY <1>2, <2>1
  <2>3. build'.forms = build.forms /\ build'.step = build.step /\ ~ build'.current
    BY <1>2, <2>1
  <2> QED
    BY <1>1, <2>2, <2>3
<1>4. CASE ~ Bumps(b)
  BY <1>1, <1>4 DEF decks
<1> QED
  BY <1>3, <1>4

\* The hook of a form has its transaction.
LEMMA FormReconcileKeeps ==
    ASSUME IInv, TypeOK', NEW e \in Editors, FormCall(e), call[e].step = "reconcile",
           Reconcile(Batch(e)), End(e), UNCHANGED <<files, cache, reading, scan, changed, past>>
    PROVE  IInv'
<1> DEFINE f == call[e].on
           b == Batch(e)
<1>0. TypeOK /\ call[e].batch \in Batches /\ FormCallFits(e) /\ BatchFits(call[e].batch)
  BY CallParts DEF IInv, CallFits
<1>1. /\ tpl' = tpl /\ form' = form /\ broken' = broken /\ writes' = writes /\ reading' = reading
      /\ cache' = cache /\ scan' = scan /\ changed' = changed
      /\ overlapped' = overlapped /\ recreated' = recreated
  BY DEF files, past
<1>2. call'[e] = NoCall /\ \A d \in Editors : d # e => call'[d] = call[d]
  BY <1>0, EndFacts
<1>3. NoCall.step = "idle" /\ NoCall.batch = Nothing
  BY DEF NoCall
<1>4. /\ \A d \in Editors : ~ TemplateCall(d) /\ ~ TemplateCall(d)'
      /\ \A u \in Templates : ~ InHand(u) /\ reading[u] = 0
      /\ scan.step = "idle" \/ ~ scan.alone
      /\ overlapped # "yes" => Only(e)
      /\ f \in Forms
  BY <1>2, <1>3, FormUnderWay DEF TemplateCall
<1>5. /\ b \in Batches /\ BatchFits(b) /\ b.tpls = Nothing.tpls /\ b.tdel = {}
      /\ \A g \in Forms : g # f => g \notin b.fdel /\ b.forms[g] = NoFRow
      /\ call[e].batch # Nothing => b = call[e].batch
  <2>1. b \in Batches
    BY <1>0, DeleteBatchType DEF FormCall
  <2>2. CASE call[e].batch = Nothing
    <3>1. b.tpls = Nothing.tpls /\ b.forms = Nothing.forms /\ b.tdel = {} /\ b.fdel = {f}
      <4>1. b = DeleteBatch(call[e]) /\ call[e].kind = "form" /\ call[e].step # "idle"
        BY <2>2 DEF FormCall, Batch
      <4>2. b = [tpls |-> Nothing.tpls, forms |-> Nothing.forms, tdel |-> {}, fdel |-> {f}]
        BY <1>0, <4>1, DeleteBatchType
      <4> HIDE DEF b
      <4> QED
        BY <4>2
    <3>2. BatchFits(b)
      BY <3>1, Rows DEF BatchFits, Sane
    <3> QED
      BY <2>1, <2>2, <3>1, <3>2, Rows
  <2>3. CASE call[e].batch # Nothing
    <3>1. b = call[e].batch
      BY <2>3 DEF Batch
    <3> HIDE DEF b
    <3> QED
      BY <1>0, <3>1 DEF FormCallFits
  <2> QED
    BY <2>2, <2>3
<1> HIDE DEF b
<1>6. KeysHold(b)
  BY <1>4, <1>5, KeysFit
<1>7. /\ trow' = TemplatesAfter(b) /\ frow' = FormsAfter(b)
      /\ deck'.forms = deck.forms /\ (deck'.current => deck.current)
      /\ build'.forms = build.forms /\ build'.step = build.step /\ (build'.current => build.current)
      /\ Bumps(b) => ~ deck'.current /\ ~ build'.current
  BY <1>0, <1>5, <1>6, ReconcileFacts DEF b
<1>8. \A u \in Templates : trow'[u] = trow[u]
  BY <1>5, <1>7, Rows DEF TemplatesAfter
<1>9. \A g \in Forms : IF g \in b.fdel THEN frow'[g] = NoFRow
                       ELSE IF b.forms[g] # NoFRow THEN frow'[g] = b.forms[g] ELSE frow'[g] = frow[g]
  BY <1>5, <1>7 DEF FormsAfter
<1> HIDE DEF f
<1>10. Exclusive'
  BY <1>1, <1>2, <1>3, <1>4 DEF IInv, Exclusive, Only, AllIdle
<1>r. Resting'
  BY <1>1, <1>2, <1>3 DEF IInv, Resting
<1>11. Numbered' /\ TemplateRows'
  BY <1>1, <1>4, <1>8 DEF IInv, Numbered, TemplateRows
<1>12. CacheFits'
  <2>1. \A u \in Templates : cache[u] \in {0, tpl[u]}
    BY FormUnderWay
  <2> QED
    BY <1>1, <2>1 DEF CacheFits
<1>13. FormRows'
  <2> SUFFICES ASSUME NEW g \in Forms
               PROVE  /\ Sane(g, frow[g])'
                      /\ frow'[g] # NoFRow => trow'[TplOf[g]] # NoTRow
                      /\ frow'[g] # NoFRow /\ form'[g] # 0 /\ frow'[g].stamp = form'[g] /\ tpl'[TplOf[g]] # 0
                            => frow'[g].by = tpl'[TplOf[g]]
    BY DEF FormRows
  <2>1. TplOf[g] \in Templates
    BY TplOfAssumption
  <2>2. CASE frow'[g] = NoFRow
    BY <2>2 DEF Sane
  <2>3. CASE frow'[g] = frow[g]
    BY <1>1, <1>4, <1>8, <2>1, <2>3 DEF IInv, FormRows, Sane
  <2>4. CASE b.forms[g] # NoFRow /\ frow'[g] = b.forms[g]
    <3>1. trow[TplOf[g]] # NoTRow
      BY <1>5, <1>6, <2>1, <2>4, Rows DEF KeysHold
    <3>2. /\ b.forms[g].by = tpl[TplOf[g]]
          /\ Sane(g, b.forms[g])
      BY <1>5, <2>4 DEF BatchFits
    <3> QED
      BY <1>1, <1>8, <2>1, <2>4, <3>1, <3>2 DEF Sane
  <2> QED
    BY <1>9, <2>2, <2>3, <2>4
<1>14. CallFits'
  <2> SUFFICES ASSUME NEW d \in Editors
               PROVE  BatchFits(call[d].batch)' /\ (FormCall(d) => FormCallFits(d))'
    BY <1>4 DEF CallFits
  <2>1. CASE d = e
    BY <1>2, <1>3, <2>1, Rows DEF BatchFits, Sane, FormCall
  <2>2. CASE d # e
    BY <1>1, <1>2, <2>2 DEF IInv, CallFits, BatchFits, Sane, FormCall, FormCallFits
  <2> QED
    BY <2>1, <2>2
<1>15. Settling'
  <2> SUFFICES ASSUME overlapped # "yes", NEW g \in Forms
               PROVE  Good(g, frow[g])'
    BY <1>1, <1>2, <1>3, <1>4 DEF Settling, Only, FormCall
  <2>1. Good(g, FormsAfter(b)[g])
    BY DEF IInv, Settling, b
  <2> QED
    BY <1>1, <1>7, <2>1 DEF Good, Cured, Missed
<1>16. ScanFits'
  <2>1. {u \in Templates : tpl[u] = 0 /\ trow'[u] # NoTRow} = {u \in Templates : tpl[u] = 0 /\ trow[u] # NoTRow}
    BY <1>8
  <2> QED
    BY <1>1, <1>4, <2>1 DEF IInv, ScanFits, BatchFits, Sane
<1>17. DecksFit'
  <2> SUFFICES ASSUME overlapped = "never"
               PROVE  (deck.current => Shows(deck.forms))' /\ (build.step = "built" /\ build.current => Shows(build.forms))'
    BY <1>1 DEF DecksFit
  <2>1. ~ changed /\ \A d \in Editors : d # e => call[d].step = "idle"
    BY <1>4 DEF Only
  <2>2. \A g \in Forms : g # f => ~ Announced(g)
    BY <1>4, <2>1, TplOfAssumption DEF Announced, FormCall, f
  <2>3. form[f] # 0 => Bumps(b)
    <3> SUFFICES ASSUME form[f] # 0 PROVE b.forms # Nothing.forms
      BY DEF Bumps
    <3>1. call[e].batch.forms[f].of # 0
      BY <1>0 DEF FormCallFits, f
    <3>2. call[e].batch.forms[f] # NoFRow
      BY <3>1, Rows
    <3>3. call[e].batch # Nothing
      BY <1>4, <3>2, Rows
    <3> QED
      BY <1>4, <1>5, <3>2, <3>3, Rows
  <2> QED
    BY <1>1, <1>4, <1>7, <2>2, <2>3 DEF IInv, DecksFit, Shows
<1> QED
  BY <1>r, <1>10, <1>11, <1>12, <1>13, <1>14, <1>15, <1>16, <1>17 DEF IInv

\* The hook of a template, or RescanTemplate, has its transaction.
LEMMA TemplateReconcileKeeps ==
    ASSUME IInv, TypeOK', NEW e \in Editors, TemplateCall(e), call[e].step = "reconcile",
           Reconcile(Batch(e)), End(e), UNCHANGED <<files, cache, reading, scan, changed, past>>
    PROVE  IInv'
<1> DEFINE t == call[e].on
           b == Batch(e)
<1>0. TypeOK /\ call[e].batch \in Batches /\ TemplateCallFits(e) /\ BatchFits(call[e].batch)
  BY CallParts DEF IInv, CallFits
<1>1. /\ tpl' = tpl /\ form' = form /\ broken' = broken /\ writes' = writes /\ reading' = reading
      /\ cache' = cache /\ scan' = scan /\ changed' = changed
      /\ overlapped' = overlapped /\ recreated' = recreated
  BY DEF files, past
<1>2. call'[e] = NoCall /\ \A d \in Editors : d # e => call'[d] = call[d]
  BY <1>0, EndFacts
<1>3. NoCall.step = "idle" /\ NoCall.batch = Nothing
  BY DEF NoCall
<1>4. /\ t \in Templates /\ ~ changed /\ scan.step = "idle" /\ scan.batch = Nothing
      /\ \A d \in Editors : d # e => call[d].step = "idle" /\ call[d].batch = Nothing
      /\ \A u \in Templates : reading[u] = 0 /\ cache[u] \in {0, tpl[u]}
      /\ \A u \in Templates : u # t => ~ InHand(u) /\ trow[u].by = tpl[u]
  BY TemplateUnderWay
<1>5. \A d \in Editors : call'[d].step = "idle" /\ call'[d].batch = Nothing /\ ~ TemplateCall(d)' /\ ~ FormCall(d)'
  BY <1>2, <1>3, <1>4 DEF TemplateCall, FormCall
<1>6. tpl[t] = 0 => b.tpls = Nothing.tpls /\ b.forms = Nothing.forms /\ b.tdel = {t} /\ b.fdel = {}
  <2> SUFFICES ASSUME tpl[t] = 0
               PROVE  b.tpls = Nothing.tpls /\ b.forms = Nothing.forms /\ b.tdel = {t} /\ b.fdel = {}
    OBVIOUS
  <2>1. b = DeleteBatch(call[e]) \/ b = [Nothing EXCEPT !.tdel = {t}]
    BY <1>0 DEF Batch, TemplateCallFits
  <2>2. call[e].kind = "template" /\ call[e].step # "idle"
    BY DEF TemplateCall
  <2>3. DeleteBatch(call[e]) = [tpls |-> Nothing.tpls, forms |-> Nothing.forms, tdel |-> {t}, fdel |-> {}]
    BY <1>0, <2>2, DeleteBatchType
  <2>4. [Nothing EXCEPT !.tdel = {t}] = [tpls |-> Nothing.tpls, forms |-> Nothing.forms, tdel |-> {t}, fdel |-> {}]
    BY NothingParts, Altered
  <2> HIDE DEF b
  <2> QED
    BY <2>1, <2>3, <2>4
<1>7. tpl[t] # 0 =>
        /\ b = call[e].batch /\ b.tpls[t] # NoTRow /\ b.tdel = {}
        /\ \A u \in Templates : u # t => b.tpls[u] = NoTRow
        /\ \A f \in b.fdel : form[f] = 0 /\ TplOf[f] = t
        /\ \A f \in Forms :
            /\ b.forms[f] # NoFRow => TplOf[f] = t
            /\ TplOf[f] = t /\ form[f] # 0 /\ frow[f] # NoFRow /\ frow[f].stamp = form[f] => b.forms[f] # NoFRow
  <2> SUFFICES ASSUME tpl[t] # 0 PROVE b = call[e].batch
    BY <1>0 DEF TemplateCallFits
  <2>1. call[e].batch.tpls[t] # NoTRow
    BY <1>0 DEF TemplateCallFits
  <2> QED
    BY <1>4, <2>1, Rows DEF Batch
<1>8. b \in Batches
  BY <1>0, DeleteBatchType DEF TemplateCall
<1> HIDE DEF b
<1>9. BatchFits(b)
  <2>1. CASE tpl[t] = 0
    BY <1>6, <2>1, Rows DEF BatchFits, Sane
  <2>2. CASE tpl[t] # 0
    BY <1>0, <1>7, <2>2
  <2> QED
    BY <2>1, <2>2
<1> HIDE DEF t
<1>10. KeysHold(b)
  BY <1>4, <1>7, <1>8, <1>9, KeysFit
<1>11. /\ trow' = TemplatesAfter(b) /\ frow' = FormsAfter(b)
       /\ deck'.forms = deck.forms /\ (deck'.current => deck.current)
       /\ build'.forms = build.forms /\ build'.step = build.step /\ (build'.current => build.current)
       /\ Bumps(b) => ~ deck'.current /\ ~ build'.current
  BY <1>0, <1>8, <1>10, ReconcileFacts DEF b
<1>12. /\ \A u \in Templates : u # t => trow'[u] = trow[u]
       /\ trow'[t] = IF tpl[t] = 0 THEN NoTRow ELSE b.tpls[t]
  <2>1. CASE tpl[t] = 0
    BY <1>4, <1>6, <1>11, <2>1, Rows DEF TemplatesAfter
  <2>2. CASE tpl[t] # 0
    BY <1>4, <1>7, <1>11, <2>2 DEF TemplatesAfter
  <2> QED
    BY <2>1, <2>2
<1>13. ASSUME NEW g \in Forms
       PROVE  \/ TplOf[g] # t /\ frow'[g] = frow[g]
              \/ frow'[g] = NoFRow
              \/ TplOf[g] = t /\ tpl[t] # 0 /\ b.forms[g] # NoFRow /\ frow'[g] = b.forms[g]
              \/ TplOf[g] = t /\ tpl[t] # 0 /\ b.forms[g] = NoFRow /\ frow'[g] = frow[g]
  <2>1. frow'[g] = IF g \in b.fdel \/ TplOf[g] \in b.tdel THEN NoFRow
                   ELSE IF b.forms[g] # NoFRow THEN b.forms[g] ELSE frow[g]
    BY <1>11 DEF FormsAfter
  <2>2. CASE tpl[t] = 0
    BY <1>6, <2>1, <2>2, Rows
  <2>3. CASE tpl[t] # 0
    BY <1>7, <2>1, <2>3
  <2> QED
    BY <2>2, <2>3
<1>14. Exclusive'
  BY <1>1, <1>4, <1>5 DEF Exclusive, Only, AllIdle
<1>r. Resting'
  BY <1>1, <1>4, <1>5 DEF Resting
<1>15. Numbered'
  BY <1>1 DEF IInv, Numbered
<1>16. CacheFits'
  BY <1>1, <1>4 DEF CacheFits
<1>17. TemplateRows'
  <2> SUFFICES ASSUME NEW u \in Templates
               PROVE  /\ trow'[u].by = 0 => trow'[u] = NoTRow
                      /\ trow'[u].stamp \in {0, trow'[u].by}
                      /\ trow'[u].by = tpl'[u]
    BY DEF TemplateRows
  <2>1. CASE u # t
    BY <1>1, <1>4, <1>12, <2>1 DEF IInv, TemplateRows
  <2>2. CASE u = t /\ tpl[t] = 0
    BY <1>1, <1>12, <2>2, Rows
  <2>3. CASE u = t /\ tpl[t] # 0
    <3>1. b.tpls[t].by = tpl[t] /\ b.tpls[t].stamp \in {0, tpl[t]}
      BY <1>4, <1>7, <1>9, <2>3 DEF BatchFits
    <3> QED
      BY <1>1, <1>12, <2>3, <3>1
  <2> QED
    BY <2>1, <2>2, <2>3
<1>18. FormRows'
  <2> SUFFICES ASSUME NEW g \in Forms
               PROVE  /\ Sane(g, frow[g])'
                      /\ frow'[g] # NoFRow => trow'[TplOf[g]] # NoTRow
                      /\ frow'[g] # NoFRow /\ form'[g] # 0 /\ frow'[g].stamp = form'[g] /\ tpl'[TplOf[g]] # 0
                            => frow'[g].by = tpl'[TplOf[g]]
    BY DEF FormRows
  <2>1. TplOf[g] \in Templates
    BY TplOfAssumption
  <2>2. /\ Sane(g, frow[g])
        /\ frow[g] # NoFRow => trow[TplOf[g]] # NoTRow
        /\ frow[g] # NoFRow /\ form[g] # 0 /\ frow[g].stamp = form[g] /\ tpl[TplOf[g]] # 0
              => frow[g].by = tpl[TplOf[g]] \/ InHand(TplOf[g])
    BY DEF IInv, FormRows
  <2>3. CASE TplOf[g] # t /\ frow'[g] = frow[g]
    BY <1>1, <1>4, <1>12, <2>1, <2>2, <2>3 DEF Sane
  <2>4. CASE frow'[g] = NoFRow
    BY <2>4 DEF Sane
  <2>5. CASE TplOf[g] = t /\ tpl[t] # 0 /\ b.forms[g] # NoFRow /\ frow'[g] = b.forms[g]
    <3>1. Sane(g, b.forms[g]) /\ b.forms[g].by = tpl[TplOf[g]]
      BY <1>9, <2>5 DEF BatchFits
    <3> QED
      BY <1>1, <1>7, <1>12, <2>5, <3>1 DEF Sane
  <2>6. CASE TplOf[g] = t /\ tpl[t] # 0 /\ b.forms[g] = NoFRow /\ frow'[g] = frow[g]
    <3>1. ~ (form[g] # 0 /\ frow[g] # NoFRow /\ frow[g].stamp = form[g])
      BY <1>7, <2>6
    <3> QED
      BY <1>1, <1>7, <1>12, <2>2, <2>6, <3>1 DEF Sane
  <2> QED
    BY <1>13, <2>3, <2>4, <2>5, <2>6
<1>19. CallFits'
  BY <1>5, Rows DEF CallFits, BatchFits, Sane
<1>20. Settling'
  <2> SUFFICES ASSUME overlapped # "yes", NEW g \in Forms
               PROVE  Good(g, frow[g])'
    BY <1>1, <1>5 DEF Settling
  <2>1. Good(g, FormsAfter(b)[g])
    BY DEF IInv, Settling, b
  <2> QED
    BY <1>1, <1>11, <2>1 DEF Good, Cured, Missed
<1>21. ScanFits'
  BY <1>1, <1>4, Rows DEF ScanFits, BatchFits, Sane
<1>22. DecksFit'
  <2> SUFFICES ASSUME overlapped = "never"
               PROVE  (deck.current => Shows(deck.forms))' /\ (build.step = "built" /\ build.current => Shows(build.forms))'
    BY <1>1 DEF DecksFit
  <2>1. \A g \in Forms : TplOf[g] # t => ~ Announced(g)
    BY <1>4, TplOfAssumption DEF Announced, FormCall, TemplateCall
  <2>2. tpl[t] # 0 => Bumps(b)
    BY <1>4, <1>7, Rows DEF Bumps
  <2> QED
    BY <1>1, <1>11, <2>1, <2>2 DEF IInv, DecksFit, Shows
<1> QED
  BY <1>r, <1>14, <1>15, <1>16, <1>17, <1>18, <1>19, <1>20, <1>21, <1>22 DEF IInv

LEMMA HookReconcileKeeps ==
    ASSUME IInv, TypeOK', NEW e \in Editors, HookReconcile(e)
    PROVE  IInv'
<1>1. /\ call[e].step = "reconcile" /\ Reconcile(Batch(e)) /\ End(e)
      /\ UNCHANGED <<files, cache, reading, scan, changed, past>>
  BY DEF HookReconcile, Batch
<1>2. FormCall(e) \/ TemplateCall(e)
  BY <1>1, CallParts DEF IInv, FormCall, TemplateCall
<1> QED
  BY <1>1, <1>2, FormReconcileKeeps, TemplateReconcileKeeps

\* Where nothing but the caches and the deck moves.
LEMMA RestKeeps ==
    ASSUME IInv, TypeOK', UNCHANGED <<files, rows, call, scan, changed, past>>, Exclusive', CacheFits', DecksFit'
    PROVE  IInv'
<1>1. /\ tpl' = tpl /\ form' = form /\ broken' = broken /\ writes' = writes /\ trow' = trow /\ frow' = frow
      /\ call' = call /\ scan' = scan /\ changed' = changed /\ overlapped' = overlapped /\ recreated' = recreated
  BY DEF files, rows, past
<1>2. Resting' /\ Numbered'
  BY <1>1 DEF IInv, Resting, Numbered
<1>3. TemplateRows' /\ FormRows'
  BY <1>1 DEF IInv, TemplateRows, FormRows, Sane, InHand, TemplateCall
<1>4. CallFits'
  <2> SUFFICES ASSUME NEW d \in Editors
               PROVE  BatchFits(call[d].batch)' /\ (FormCall(d) => FormCallFits(d))'
                      /\ (TemplateCall(d) => TemplateCallFits(d))'
    BY DEF CallFits
  <2>1. BatchFits(call[d].batch)'
    BY <1>1 DEF IInv, CallFits, BatchFits, Sane
  <2>2. (FormCall(d) => FormCallFits(d))'
    BY <1>1 DEF IInv, CallFits, FormCall, FormCallFits
  <2>3. (TemplateCall(d) => TemplateCallFits(d))'
    BY <1>1 DEF IInv, CallFits, TemplateCall, TemplateCallFits
  <2> QED
    BY <2>1, <2>2, <2>3
<1>5. Settling'
  BY <1>1 DEF IInv, Settling, AllIdle, FormCall, TemplateCall, Good, GoodBut, Cured, Missed, FormsAfter, Batch
<1>6. ScanFits'
  BY <1>1 DEF IInv, ScanFits, Passed, BatchFits, Sane, Cured, FormsAfter, Unread
<1> QED
  BY <1>2, <1>3, <1>4, <1>5, <1>6 DEF IInv

LEMMA LoadKeeps ==
    ASSUME OnlyForms, IInv, TypeOK', NEW t \in Templates, LoadRead(t) \/ LoadPut(t)
    PROVE  IInv'
<1>0. TypeOK
  BY DEF IInv
<1>1. /\ UNCHANGED <<files, rows, call, scan, changed, past>> /\ decks' = decks
      /\ call' = call /\ scan' = scan /\ changed' = changed /\ tpl' = tpl /\ overlapped' = overlapped
  BY DEF LoadRead, LoadPut, files, past
<1>2. reading[t] # 0 => reading[t] = tpl[t]
  BY DEF IInv, Exclusive
<1>3. \A u \in Templates : cache'[u] = cache[u] \/ cache'[u] = tpl[u]
  BY <1>0, <1>2, Parts DEF LoadRead, LoadPut
<1>4. CacheFits'
  BY <1>1, <1>3 DEF IInv, CacheFits, Clearing, TemplateCall
<1>5. Exclusive'
  <2>1. CASE LoadRead(t)
    <3>1. AllIdle /\ ~ changed
      BY <1>0, <2>1, QuietIs DEF OnlyForms, LoadRead
    <3>2. \A u \in Templates : reading'[u] = reading[u] \/ reading'[u] = tpl[u]
      BY <1>0, <2>1, Parts DEF LoadRead
    <3> QED
      BY <1>1, <3>1, <3>2 DEF IInv, Exclusive, Only, AllIdle, TemplateCall
  <2>2. CASE LoadPut(t)
    <3>1. \A u \in Templates : reading'[u] = reading[u] \/ reading'[u] = 0
      BY <1>0, <2>2, Parts DEF LoadPut
    <3> QED
      BY <1>1, <3>1 DEF IInv, Exclusive, Only, AllIdle, TemplateCall
  <2> QED
    BY <2>1, <2>2
<1>6. DecksFit'
  BY <1>1 DEF IInv, DecksFit, Shows, Announced, InHand, TemplateCall, FormCall, Unread, files, rows, decks, past
<1> QED
  BY <1>1, <1>4, <1>5, <1>6, RestKeeps

\* A deck is built: what it reads are the files.
LEMMA DeckKeeps ==
    ASSUME IInv, TypeOK', DeckStart \/ DeckRead \/ DeckEnd
    PROVE  IInv'
<1>1. /\ UNCHANGED <<files, rows, call, scan, changed, past>> /\ cache' = cache /\ reading' = reading
      /\ call' = call /\ changed' = changed /\ tpl' = tpl /\ form' = form /\ broken' = broken
      /\ overlapped' = overlapped /\ frow' = frow /\ scan' = scan
  BY DEF DeckStart, DeckRead, DeckEnd, files, rows, past
<1>2. CacheFits' /\ Exclusive'
  BY <1>1 DEF IInv, CacheFits, Clearing, Exclusive, Only, AllIdle, TemplateCall
<1>3. \A forms : Shows(forms) => Shows(forms)'
  BY <1>1 DEF Shows, Announced, InHand, TemplateCall, FormCall, Unread
<1>4. DecksFit'
  <2>0. /\ deck \in [current : BOOLEAN, forms : [Forms -> Stamps]]
        /\ build \in [step : {"idle", "rev", "built"}, current : BOOLEAN, forms : [Forms -> Stamps]]
    BY Parts DEF IInv
  <2>1. CASE DeckStart
    <3>1. build' = [build EXCEPT !.step = "rev", !.current = TRUE] /\ deck' = deck
      BY <2>1 DEF DeckStart
    <3>2. build'.step = "rev"
      BY <2>0, <3>1
    <3> QED
      BY <1>1, <1>3, <3>1, <3>2 DEF IInv, DecksFit
  <2>2. CASE DeckRead
    <3>1. build' = [build EXCEPT !.step = "built", !.forms = Shown] /\ deck' = deck
      BY <2>2 DEF DeckRead
    <3>2. build'.forms = Shown
      BY <2>0, <3>1
    <3>3. Shows(Shown)'
      BY <1>1 DEF Shows, Shown, Parses
    <3>4. Shown' = Shown
      BY <1>1 DEF Shown, Parses
    <3> QED
      BY <1>1, <1>3, <3>1, <3>2, <3>3, <3>4 DEF IInv, DecksFit, Shows
  <2>3. CASE DeckEnd
    <3>1. deck'.current = build.current /\ deck'.forms = build.forms /\ build' = NoBuild /\ build.step = "built"
      BY <2>3 DEF DeckEnd
    <3>2. build'.step = "idle"
      BY <3>1 DEF NoBuild
    <3>3. overlapped = "never" /\ build.current => Shows(build.forms)
      BY <3>1 DEF IInv, DecksFit
    <3> QED
      BY <1>1, <3>1, <3>2, <3>3 DEF DecksFit, Shows, Announced, InHand, TemplateCall, FormCall, Unread
  <2> QED
    BY <2>1, <2>2, <2>3
<1> QED
  BY <1>1, <1>2, <1>4, RestKeeps

LEMMA StutterKeeps ==
    ASSUME IInv, TypeOK', UNCHANGED vars
    PROVE  IInv'
<1>1. UNCHANGED <<files, rows, call, scan, changed, past>>
  BY DEF vars
<1>2. /\ cache' = cache /\ reading' = reading /\ deck' = deck /\ build' = build
      /\ tpl' = tpl /\ form' = form /\ broken' = broken /\ frow' = frow
      /\ call' = call /\ scan' = scan /\ changed' = changed /\ overlapped' = overlapped
  BY DEF vars, files, rows, decks, past
<1>3. Exclusive' /\ CacheFits'
  BY <1>2 DEF IInv, CacheFits, Clearing, Exclusive, Only, AllIdle, TemplateCall
<1>4. DecksFit'
  BY <1>2 DEF IInv, DecksFit, Shows, Announced, InHand, TemplateCall, FormCall, Unread
<1> QED
  BY <1>1, <1>3, <1>4, RestKeeps

\* Files are changed under the program: forms only.
LEMMA PullKeeps ==
    ASSUME OnlyForms, IInv, TypeOK', Pull
    PROVE  IInv'
<1>0. TypeOK
  BY DEF IInv
<1>1. MayStart("rescan") /\ Settled /\ Starts /\ ~ changed /\ scan.step = "idle"
  BY DEF Pull
<1>2. /\ \A d \in Editors : ~ TemplateCall(d)
      /\ \A u \in Templates : ~ InHand(u) /\ ~ Clearing(u) /\ reading[u] = 0
  BY <1>0, <1>1, MayStartOther, NoneReading DEF InHand, Clearing
<1>3. /\ overlapped' # "yes" => Quiet /\ overlapped' = overlapped
      /\ scan'.step = "idle" /\ scan'.batch = Nothing
  BY <1>0, <1>1, StartsAlone DEF IInv, Resting
<1>4. Quiet => AllIdle
  BY <1>0, QuietIs
<1>5. /\ cache' = cache /\ reading' = reading /\ trow' = trow /\ frow' = frow /\ call' = call
      /\ deck' = deck /\ build' = build /\ recreated' = recreated /\ changed' = TRUE /\ writes' = writes + 1
  BY DEF Pull, rows, decks
<1>6. /\ tpl' = tpl
      /\ \A g \in Forms : form'[g] \in {0, form[g], writes + 1}
      /\ broken' = broken \/ broken' = broken \cup {writes + 1}
  <2>1. "template" \notin Externals
    BY DEF OnlyForms
  <2>2. PICK ts \in SUBSET {}, fs \in SUBSET Forms : \E gone \in SUBSET (ts \cup fs) :
          /\ tpl'  = [t \in Templates |-> IF t \in gone THEN 0 ELSE IF t \in ts THEN writes' ELSE tpl[t]]
          /\ form' = [f \in Forms |-> IF f \in gone THEN 0 ELSE IF f \in fs THEN writes' ELSE form[f]]
          /\ broken' \in {broken} \cup IF "broken" \in Externals THEN {broken \cup {writes'}} ELSE {}
    BY <2>1 DEF Pull
  <2>3. PICK gone \in SUBSET (ts \cup fs) :
          /\ tpl'  = [t \in Templates |-> IF t \in gone THEN 0 ELSE IF t \in ts THEN writes' ELSE tpl[t]]
          /\ form' = [f \in Forms |-> IF f \in gone THEN 0 ELSE IF f \in fs THEN writes' ELSE form[f]]
          /\ broken' \in {broken} \cup IF "broken" \in Externals THEN {broken \cup {writes'}} ELSE {}
    BY <2>2
  <2>4. \A t \in Templates : t \notin gone /\ t \notin ts
    BY <2>3, KindsAssumption
  <2>5. tpl' = tpl
    BY <1>0, <2>3, <2>4, Parts
  <2>6. \A g \in Forms : form'[g] \in {0, form[g], writes + 1}
    BY <1>5, <2>3
  <2>7. broken' = broken \/ broken' = broken \cup {writes + 1}
    BY <1>5, <2>3
  <2> QED
    BY <2>5, <2>6, <2>7
<1>n. /\ writes \in Nat /\ \A g \in Forms : form[g] \in Nat /\ form[g] <= writes /\ TplOf[g] \in Templates
      /\ \A w \in broken : w \in Nat /\ w # 0 /\ w <= writes
      /\ \A t \in Templates : tpl[t] \in Nat /\ tpl[t] <= writes /\ tpl[t] \notin broken
      /\ \A g \in Forms : frow[g].of \in Nat /\ frow[g].stamp \in Nat
      /\ \A b \in Batches, g \in Forms : b.forms[g].of \in Nat /\ b.forms[g].stamp \in Nat
  BY <1>0, Naturally DEF IInv, Numbered
<1>7. Exclusive'
  BY <1>2, <1>3, <1>4, <1>5 DEF Exclusive, AllIdle, TemplateCall
<1>r. Resting'
  BY <1>3, <1>5 DEF IInv, Resting
<1>8. Numbered'
  <2>1. \A w \in broken' : w # 0 /\ w <= writes'
    BY <1>5, <1>6, <1>n
  <2>2. \A t \in Templates : tpl'[t] <= writes' /\ tpl'[t] \notin broken'
    BY <1>5, <1>6, <1>n
  <2>3. \A g \in Forms : form'[g] <= writes'
    BY <1>5, <1>6, <1>n
  <2> QED
    BY <2>1, <2>2, <2>3 DEF Numbered
<1>9. CacheFits' /\ TemplateRows'
  BY <1>2, <1>5, <1>6 DEF IInv, CacheFits, TemplateRows
<1>10. \A g \in Forms, r \in FRows : Sane(g, r) => Sane(g, r)' /\ (r # NoFRow => r.stamp # writes + 1)
  <2> SUFFICES ASSUME NEW g \in Forms, NEW r \in FRows, Sane(g, r), r # NoFRow
               PROVE  Sane(g, r)' /\ r.stamp # writes + 1
    BY DEF Sane
  <2>1. r.of \in Nat /\ r.stamp \in Nat
    BY Numbers DEF FRows
  <2>2. r.of # 0 /\ r.of <= writes /\ r.of \notin broken /\ r.stamp <= r.of /\ (form[g] # 0 => r.of <= form[g])
    BY DEF Sane
  <2>3. r.of <= writes' /\ r.of \notin broken' /\ r.stamp # writes + 1
    BY <1>5, <1>6, <1>n, <2>1, <2>2
  <2>4. form'[g] # 0 => r.of <= form'[g]
    BY <1>6, <1>n, <2>1, <2>2
  <2> QED
    BY <2>2, <2>3, <2>4 DEF Sane
<1>11. \A g \in Forms : frow[g] \in FRows /\ Sane(g, frow[g])
  BY <1>0, Naturally DEF IInv, FormRows
<1>12. FormRows'
  <2> SUFFICES ASSUME NEW g \in Forms
               PROVE  /\ Sane(g, frow[g])'
                      /\ frow[g] # NoFRow => trow[TplOf[g]] # NoTRow
                      /\ frow[g] # NoFRow /\ form'[g] # 0 /\ frow[g].stamp = form'[g] /\ tpl[TplOf[g]] # 0
                            => frow[g].by = tpl[TplOf[g]]
    BY <1>5, <1>6 DEF FormRows
  <2>1. Sane(g, frow[g])' /\ (frow[g] # NoFRow => frow[g].stamp # writes + 1)
    BY <1>5, <1>10, <1>11 DEF Sane
  <2>2. frow[g] # NoFRow /\ form'[g] # 0 /\ frow[g].stamp = form'[g] => form'[g] = form[g]
    BY <1>6, <2>1
  <2> QED
    BY <1>2, <1>n, <2>1, <2>2 DEF IInv, FormRows
<1>13. ASSUME NEW b \in Batches, BatchFits(b)
       PROVE  /\ \A g \in Forms : Sane(g, b.forms[g])'
              /\ \A g \in Forms : b.forms[g] # NoFRow => b.forms[g].by = tpl'[TplOf[g]] /\ tpl'[TplOf[g]] # 0
              /\ \A t \in Templates :
                    b.tpls[t] # NoTRow => b.tpls[t].by = tpl'[t] /\ tpl'[t] # 0 /\ b.tpls[t].stamp \in {0, tpl'[t]}
              /\ \A t \in b.tdel : tpl'[t] = 0
  <2>1. \A g \in Forms : b.forms[g] \in FRows /\ Sane(g, b.forms[g])
    BY <1>13, BatchParts DEF BatchFits
  <2>2. \A g \in Forms : Sane(g, b.forms[g])'
    BY <1>10, <2>1
  <2> QED
    BY <1>6, <1>13, <2>2 DEF BatchFits
<1>14. CallFits'
  <2> SUFFICES ASSUME NEW d \in Editors
               PROVE  BatchFits(call[d].batch)' /\ (FormCall(d) => FormCallFits(d))'
    BY <1>2, <1>5 DEF CallFits, TemplateCall
  <2>1. BatchFits(call[d].batch) /\ call[d].batch \in Batches
    BY <1>0, CallParts DEF IInv, CallFits
  <2>2. BatchFits(call[d].batch)'
    BY <1>5, <1>13, <2>1 DEF BatchFits, Sane
  <2>3. (FormCall(d) => FormCallFits(d))'
    BY <1>3, <1>4, <1>5 DEF IInv, CallFits, FormCall, FormCallFits, AllIdle
  <2> QED
    BY <2>2, <2>3
<1>15. Settling'
  BY <1>2, <1>3, <1>4, <1>5 DEF Settling, AllIdle, FormCall, TemplateCall
<1>16. ScanFits'
  BY <1>3, Rows DEF ScanFits, BatchFits, Sane
<1>17. DecksFit'
  <2> SUFFICES ASSUME overlapped' = "never"
               PROVE  (deck.current => Shows(deck.forms))' /\ (build.step = "built" /\ build.current => Shows(build.forms))'
    BY DEF DecksFit
  <2>1. overlapped = "never" /\ AllIdle
    BY <1>3, <1>4
  <2>2. \A g \in Forms : ~ Announced(g)
    BY <1>1, <1>2, <1>n, <2>1 DEF Announced, AllIdle, FormCall
  <2>3. \A g \in Forms : tpl[TplOf[g]] # 0 /\ form'[g] = writes + 1 => Announced(g)'
    BY <1>5, <1>6, <1>10, <1>11, <1>n DEF Announced, Unread, Differs
  <2>4. ASSUME NEW forms, Shows(forms), NEW g \in Forms,
               form'[g] # 0, form'[g] \notin broken', tpl'[TplOf[g]] # 0
        PROVE  forms[g] = form'[g] \/ Announced(g)'
    BY <1>6, <2>2, <2>3, <2>4 DEF Shows
  <2>5. \A forms : Shows(forms) => Shows(forms)'
    BY <2>4 DEF Shows
  <2> QED
    BY <1>5, <2>1, <2>5 DEF IInv, DecksFit, Shows
<1> QED
  BY <1>r, <1>7, <1>8, <1>9, <1>12, <1>14, <1>15, <1>16, <1>17 DEF IInv

\* The process ends and starts again.
LEMMA RestartKeeps ==
    ASSUME OnlyForms, IInv, TypeOK', Restart
    PROVE  IInv'
<1>0. TypeOK
  BY DEF IInv
<1>1. /\ tpl' = tpl /\ form' = form /\ broken' = broken /\ writes' = writes
      /\ overlapped' = overlapped /\ recreated' = recreated
      /\ \A u \in Templates : cache'[u] = 0 /\ reading'[u] = 0
      /\ \A d \in Editors : call'[d] = NoCall
      /\ scan' = NoScan /\ changed' = TRUE
  BY DEF Restart, files, past
<1>2. NoCall.step = "idle" /\ NoCall.batch = Nothing /\ NoScan.step = "idle" /\ NoScan.batch = Nothing
  BY DEF NoCall, NoScan
<1>3. \A u \in Templates : InHand(u) => tpl[u] = 0
  BY DEF Restart, OnlyForms, InHand, TemplateCall
<1>4. trow' = trow /\ \A g \in Forms : frow'[g] \in {NoFRow, frow[g]}
  BY DEF Restart, OnlyForms
<1>5. ~ deck'.current /\ build'.step = "idle"
  BY <1>0, Parts DEF Restart, NoBuild
<1>6. \A d \in Editors : ~ TemplateCall(d)' /\ ~ FormCall(d)'
  BY <1>1, <1>2 DEF TemplateCall, FormCall
<1>7. Exclusive'
  BY <1>1, <1>2, <1>6 DEF Exclusive
<1>r. Resting'
  BY <1>1, <1>2 DEF Resting
<1>8. Numbered'
  BY <1>1 DEF IInv, Numbered
<1>9. CacheFits'
  BY <1>1 DEF CacheFits
<1>10. TemplateRows'
  BY <1>1, <1>3, <1>4 DEF IInv, TemplateRows
<1>11. FormRows'
  BY <1>1, <1>3, <1>4, TplOfAssumption DEF IInv, FormRows, Sane
<1>12. CallFits'
  BY <1>1, <1>2, <1>6, Rows DEF CallFits, BatchFits, Sane
<1>13. Settling'
  BY <1>1, <1>2, <1>6 DEF Settling
<1>14. ScanFits'
  BY <1>1, <1>2, Rows DEF ScanFits, BatchFits, Sane
<1>15. DecksFit'
  BY <1>5 DEF DecksFit
<1> QED
  BY <1>r, <1>7, <1>8, <1>9, <1>10, <1>11, <1>12, <1>13, <1>14, <1>15 DEF IInv

\* While a rescan is under way no template is touched.
LEMMA ScanUnderWay ==
    ASSUME IInv, changed
    PROVE  /\ \A d \in Editors : ~ TemplateCall(d)
           /\ \A u \in Templates : /\ ~ InHand(u) /\ ~ Clearing(u) /\ reading[u] = 0 /\ cache[u] \in {0, tpl[u]}
                                   /\ trow[u].by = tpl[u] \/ tpl[u] = 0
           /\ overlapped # "yes" => AllIdle
<1>1. \A d \in Editors : ~ TemplateCall(d)
  BY DEF IInv, Exclusive, Only
<1>2. \A u \in Templates : ~ InHand(u) /\ ~ Clearing(u)
  BY <1>1 DEF InHand, Clearing
<1>3. overlapped # "yes" => AllIdle
  BY DEF IInv, Exclusive, Only, AllIdle
<1>4. \A u \in Templates : reading[u] = 0
  BY DEF IInv, Exclusive
<1>5. \A u \in Templates : cache[u] \in {0, tpl[u]} /\ (trow[u].by = tpl[u] \/ tpl[u] = 0)
  BY <1>2 DEF IInv, CacheFits, TemplateRows
<1> QED
  BY <1>1, <1>2, <1>3, <1>4, <1>5

\* Where only the rescan and the template cache move.
LEMMA ScanGoesOn ==
    ASSUME IInv, TypeOK', changed, UNCHANGED <<files, reading, rows, call, changed, decks, past>>,
           \A u \in Templates : cache'[u] \in {0, tpl[u]},
           scan'.step # "idle", scan'.alone => AllIdle, overlapped # "yes" => scan'.alone, ScanFits'
    PROVE  IInv'
<1>1. /\ tpl' = tpl /\ form' = form /\ broken' = broken /\ writes' = writes /\ reading' = reading
      /\ trow' = trow /\ frow' = frow /\ call' = call /\ changed' = changed /\ deck' = deck /\ build' = build
      /\ overlapped' = overlapped /\ recreated' = recreated
  BY DEF files, rows, decks, past
<1>2. Exclusive'
  BY <1>1 DEF IInv, Exclusive, Only, AllIdle, TemplateCall
<1>3. Resting' /\ Numbered' /\ CacheFits'
  BY <1>1 DEF IInv, Resting, Numbered, CacheFits
<1>4. TemplateRows' /\ FormRows'
  BY <1>1 DEF IInv, TemplateRows, FormRows, Sane, InHand, TemplateCall
<1>5. CallFits'
  <2> SUFFICES ASSUME NEW d \in Editors
               PROVE  BatchFits(call[d].batch)' /\ (FormCall(d) => FormCallFits(d))'
    BY <1>1, ScanUnderWay DEF CallFits, TemplateCall
  <2>1. BatchFits(call[d].batch)'
    BY <1>1 DEF IInv, CallFits, BatchFits, Sane
  <2>2. (FormCall(d) => FormCallFits(d))'
    BY <1>1 DEF IInv, CallFits, FormCall, FormCallFits
  <2> QED
    BY <2>1, <2>2
<1>6. Settling'
  BY <1>1 DEF IInv, Settling, AllIdle, FormCall, TemplateCall, Good, GoodBut, Cured, Missed, FormsAfter, Batch
<1>7. DecksFit'
  BY <1>1 DEF IInv, DecksFit, Shows, Announced, InHand, TemplateCall, FormCall, Unread
<1> QED
  BY <1>2, <1>3, <1>4, <1>5, <1>6, <1>7 DEF IInv

\* scanDisk
LEMMA ScanDiskKeeps ==
    ASSUME IInv, TypeOK', ScanDisk
    PROVE  IInv'
<1>0. TypeOK /\ changed
  BY DEF IInv, ScanDisk
<1>1. UNCHANGED <<files, reading, rows, call, changed, decks, past>> /\ cache' = cache
  BY DEF ScanDisk
<1>2. scan'.step = "db" /\ scan'.tpls = tpl /\ scan'.forms = form /\ scan'.batch = Nothing /\ scan'.alone = AllIdle
  BY <1>0, ScanDiskFacts DEF AllIdle
<1>3. tpl' = tpl /\ form' = form /\ broken' = broken /\ writes' = writes
  BY <1>1 DEF files
<1>4. \A f \in Forms : form[f] \in Nat /\ form[f] <= writes
  BY <1>0, Naturally DEF IInv, Numbered
<1>5. BatchFits(scan.batch)'
  BY <1>2, Rows DEF BatchFits, Sane
<1>6. ScanFits'
  BY <1>2, <1>3, <1>4, <1>5 DEF ScanFits
<1>7. \A u \in Templates : cache'[u] \in {0, tpl[u]}
  BY <1>0, <1>1, ScanUnderWay
<1>8. overlapped # "yes" => AllIdle
  BY <1>0, ScanUnderWay
<1> QED
  BY <1>0, <1>1, <1>2, <1>6, <1>7, <1>8, ScanGoesOn

\* scanIndexState and the diff: the templates
LEMMA ScanTemplatesKeeps ==
    ASSUME IInv, TypeOK', ScanTemplates
    PROVE  IInv'
<1>0. TypeOK /\ changed /\ scan.step = "db" /\ scan.batch = Nothing
  BY DEF IInv, Exclusive, ScanFits, ScanTemplates
<1>1. UNCHANGED <<files, reading, rows, call, changed, decks, past>> /\ cache' = cache
  BY DEF ScanTemplates
<1>2. /\ scan'.step = "forms" /\ scan'.tpls = scan.tpls /\ scan'.forms = scan.forms /\ scan'.alone = scan.alone
      /\ scan'.batch.tpls = scan.batch.tpls /\ scan'.batch.forms = scan.batch.forms
      /\ scan'.batch.tdel = {t \in Templates : scan.tpls[t] = 0 /\ trow[t] # NoTRow}
  BY <1>0, ScanTemplatesFacts
<1>3. tpl' = tpl /\ form' = form /\ broken' = broken /\ writes' = writes /\ trow' = trow /\ frow' = frow
  BY <1>1 DEF files, rows
<1>4. /\ scan.tpls = tpl
      /\ \A f \in Forms : scan.forms[f] <= writes /\ (form[f] # 0 => scan.forms[f] <= form[f])
      /\ scan.alone => scan.forms = form
  BY <1>0 DEF IInv, ScanFits
<1>5. BatchFits(scan.batch)'
  BY <1>0, <1>2, <1>3, <1>4, Rows DEF BatchFits, Sane
<1>6. ScanFits'
  BY <1>0, <1>2, <1>3, <1>4, <1>5 DEF ScanFits
<1>7. \A u \in Templates : cache'[u] \in {0, tpl[u]}
  BY <1>0, <1>1, ScanUnderWay
<1>8. (scan.alone => AllIdle) /\ (overlapped # "yes" => scan.alone)
  BY <1>0 DEF IInv, Exclusive
<1> QED
  BY <1>0, <1>1, <1>2, <1>6, <1>7, <1>8, ScanGoesOn

\* A batch with the row of a form that is to be read and parses, and none of a form
\* that is not, has what the form needs.
LEMMA BatchPasses ==
    ASSUME IInv, changed, NEW b, NEW f \in Forms,
           b.tdel = {t \in Templates : tpl[t] = 0 /\ trow[t] # NoTRow},
           b.fdel = {g \in Forms : tpl[TplOf[g]] # 0 /\ form[g] = 0 /\ frow[g] # NoFRow},
           IF Unread(f) /\ Parses(f)
           THEN b.forms[f] # NoFRow /\ b.forms[f].of = form[f] /\ b.forms[f].by = tpl[TplOf[f]]
           ELSE b.forms[f] = NoFRow
    PROVE  Passed(f, b)
<1>0. TplOf[f] \in Templates /\ ~ InHand(TplOf[f])
  BY TplOfAssumption, ScanUnderWay
<1>1. FormsAfter(b)[f] = IF f \in b.fdel \/ TplOf[f] \in b.tdel THEN NoFRow
                         ELSE IF b.forms[f] # NoFRow THEN b.forms[f] ELSE frow[f]
  BY DEF FormsAfter
<1>2. CASE form[f] \in broken
  BY <1>2 DEF Passed, Cured
<1>3. CASE tpl[TplOf[f]] = 0
  <2>1. ~ Unread(f)
    BY <1>3 DEF Unread
  <2>2. frow[f] # NoFRow => TplOf[f] \in b.tdel
    BY <1>0, <1>3 DEF IInv, FormRows
  <2>3. FormsAfter(b)[f] = NoFRow
    BY <1>1, <2>1, <2>2
  <2> QED
    BY <1>3, <2>1, <2>3 DEF Passed, Cured
<1>4. CASE tpl[TplOf[f]] # 0 /\ form[f] = 0
  <2>1. ~ Unread(f)
    BY <1>4 DEF Unread, Differs
  <2>2. frow[f] # NoFRow => f \in b.fdel
    BY <1>4
  <2>3. FormsAfter(b)[f] = NoFRow
    BY <1>1, <2>1, <2>2
  <2> QED
    BY <1>4, <2>1, <2>3 DEF Passed, Cured
<1>5. CASE tpl[TplOf[f]] # 0 /\ form[f] # 0 /\ form[f] \notin broken
  <2>1. f \notin b.fdel /\ TplOf[f] \notin b.tdel /\ Parses(f)
    BY <1>5 DEF Parses
  <2>2. CASE Unread(f)
    <3>1. b.forms[f] # NoFRow /\ b.forms[f].of = form[f] /\ b.forms[f].by = tpl[TplOf[f]]
      BY <2>1, <2>2
    <3>2. FormsAfter(b)[f] = b.forms[f]
      BY <1>1, <2>1, <3>1
    <3> QED
      BY <1>5, <3>1, <3>2 DEF Passed, Cured
  <2>3. CASE ~ Unread(f)
    <3>1. FormsAfter(b)[f] = frow[f]
      BY <1>1, <2>1, <2>3
    <3>2. frow[f] # NoFRow /\ frow[f].stamp = form[f]
      BY <1>5, <2>3 DEF Unread, Differs
    <3>3. frow[f].by = tpl[TplOf[f]]
      BY <1>0, <1>5, <3>2 DEF IInv, FormRows
    <3>4. form[f] \in Nat /\ frow[f].of \in Nat
      BY Naturally DEF IInv
    <3>5. frow[f].of = form[f]
      BY <1>5, <3>2, <3>4 DEF IInv, FormRows, Sane
    <3> QED
      BY <1>5, <2>3, <3>1, <3>3, <3>5 DEF Passed, Cured
  <2> QED
    BY <2>2, <2>3
<1> QED
  BY <1>2, <1>3, <1>4, <1>5

\* ... and the forms
LEMMA ScanFormsKeeps ==
    ASSUME IInv, TypeOK', ScanForms
    PROVE  IInv'
<1>0. TypeOK /\ changed /\ scan.step = "forms" /\ scan.batch.forms = Nothing.forms /\ BatchFits(scan.batch)
  BY DEF IInv, Exclusive, ScanFits, ScanForms
<1>1. UNCHANGED <<files, reading, rows, call, changed, decks, past>> /\ cache' = cache
  BY DEF ScanForms
<1>2. /\ scan'.step = "load" /\ scan'.tpls = scan.tpls /\ scan'.forms = scan.forms /\ scan'.alone = scan.alone
      /\ scan'.loadF = {f \in Forms : /\ scan.tpls[TplOf[f]] # 0
                                      /\ Differs(scan.forms[f], frow[f].stamp, frow[f] # NoFRow)}
      /\ scan'.batch.tpls = scan.batch.tpls /\ scan'.batch.forms = scan.batch.forms
      /\ scan'.batch.tdel = scan.batch.tdel
      /\ scan'.batch.fdel = {f \in Forms : /\ scan.tpls[TplOf[f]] # 0
                                           /\ scan.forms[f] = 0 /\ frow[f] # NoFRow}
  BY <1>0, ScanFormsFacts
<1>3. tpl' = tpl /\ form' = form /\ broken' = broken /\ writes' = writes /\ trow' = trow /\ frow' = frow
  BY <1>1 DEF files, rows
<1>4. /\ scan.tpls = tpl
      /\ \A f \in Forms : scan.forms[f] <= writes /\ (form[f] # 0 => scan.forms[f] <= form[f])
      /\ scan.alone => scan.forms = form
      /\ scan.batch.tdel = {t \in Templates : tpl[t] = 0 /\ trow[t] # NoTRow}
  BY <1>0 DEF IInv, ScanFits
<1>5. BatchFits(scan.batch)'
  BY <1>0, <1>2, <1>3 DEF BatchFits, Sane
<1>6. \A f \in Forms : scan'.batch.forms[f] = NoFRow
  BY <1>0, <1>2, Rows
<1>7. scan.alone =>
         /\ scan'.batch.fdel = {f \in Forms : tpl[TplOf[f]] # 0 /\ form[f] = 0 /\ frow[f] # NoFRow}
         /\ \A f \in Forms : f \in scan'.loadF <=> Unread(f)
  BY <1>2, <1>4 DEF Unread
<1>8. \A f \in Forms : scan.alone /\ ~ Unread(f) => Passed(f, scan'.batch)
  BY <1>0, <1>2, <1>4, <1>6, <1>7, BatchPasses
<1>9. \A f \in Forms : /\ Unread(f)' <=> Unread(f)
                       /\ Passed(f, scan'.batch) => Passed(f, scan.batch)'
  BY <1>3 DEF Unread, Passed, Cured, FormsAfter
<1>10. ScanFits'
  BY <1>2, <1>3, <1>4, <1>5, <1>6, <1>7, <1>8, <1>9 DEF ScanFits
<1>11. \A u \in Templates : cache'[u] \in {0, tpl[u]}
  BY <1>0, <1>1, ScanUnderWay
<1>12. (scan.alone => AllIdle) /\ (overlapped # "yes" => scan.alone)
  BY <1>0 DEF IInv, Exclusive
<1> QED
  BY <1>0, <1>1, <1>2, <1>10, <1>11, <1>12, ScanGoesOn

\* What every load of a rescan can count on.
LEMMA ScanLoading ==
    ASSUME IInv, scan.step = "load"
    PROVE  /\ TypeOK /\ changed /\ BatchFits(scan.batch)
           /\ scan.tpls = tpl
           /\ \A f \in Forms : scan.forms[f] <= writes /\ (form[f] # 0 => scan.forms[f] <= form[f])
           /\ scan.alone => scan.forms = form
           /\ scan.batch.tdel = {t \in Templates : tpl[t] = 0 /\ trow[t] # NoTRow}
           /\ scan.alone =>
                /\ scan.batch.fdel = {f \in Forms : tpl[TplOf[f]] # 0 /\ form[f] = 0 /\ frow[f] # NoFRow}
                /\ \A f \in Forms : IF f \in scan.loadF THEN Unread(f) /\ scan.batch.forms[f] = NoFRow
                                    ELSE Passed(f, scan.batch)
           /\ \A t \in Templates : (Loadable(t) <=> tpl[t] # 0) /\ (Loadable(t) => Seen(t) = tpl[t])
           /\ (scan.alone => AllIdle) /\ (overlapped # "yes" => scan.alone)
<1>1. TypeOK /\ changed /\ (scan.alone => AllIdle) /\ (overlapped # "yes" => scan.alone)
  BY DEF IInv, Exclusive
<1>2. \A u \in Templates : ~ InHand(u) /\ cache[u] \in {0, tpl[u]}
  BY <1>1, ScanUnderWay
<1>3. \A t \in Templates : (Loadable(t) <=> tpl[t] # 0) /\ (Loadable(t) => Seen(t) = tpl[t])
  BY <1>2, Loads DEF IInv
<1> QED
  BY <1>1, <1>3 DEF IInv, ScanFits

\* A rescan loads a template that differs.
LEMMA ScanLoadTemplateKeeps ==
    ASSUME IInv, TypeOK', NEW t \in Templates, ScanLoadTemplate(t)
    PROVE  IInv'
<1>0. scan.step = "load"
  BY DEF ScanLoadTemplate
<1>1. UNCHANGED <<files, reading, rows, call, changed, decks, past>> /\ cache' = Cached({t})
  BY DEF ScanLoadTemplate
<1>2. /\ scan'.step = "load" /\ scan'.tpls = scan.tpls /\ scan'.forms = scan.forms
      /\ scan'.alone = scan.alone /\ scan'.loadF = scan.loadF
      /\ scan'.batch.tdel = scan.batch.tdel /\ scan'.batch.fdel = scan.batch.fdel
      /\ scan'.batch.forms = scan.batch.forms
      /\ scan'.batch.tpls[t] = IF Loadable(t) THEN [by |-> Seen(t), stamp |-> scan.tpls[t]]
                               ELSE scan.batch.tpls[t]
      /\ \A u \in Templates : u # t => scan'.batch.tpls[u] = scan.batch.tpls[u]
  BY <1>0, ScanLoading, ScanLoadTemplateFacts
<1>3. tpl' = tpl /\ form' = form /\ broken' = broken /\ writes' = writes /\ trow' = trow /\ frow' = frow
  BY <1>1 DEF files, rows
<1>4. \A u \in Templates :
         scan'.batch.tpls[u] # NoTRow => /\ scan'.batch.tpls[u].by = tpl[u] /\ tpl[u] # 0
                                         /\ scan'.batch.tpls[u].stamp \in {0, tpl[u]}
  BY <1>0, <1>2, ScanLoading DEF BatchFits
<1>5. BatchFits(scan.batch)'
  BY <1>0, <1>2, <1>3, <1>4, ScanLoading DEF BatchFits, Sane
<1>6. \A f \in Forms : /\ Unread(f)' <=> Unread(f)
                       /\ Passed(f, scan.batch) => Passed(f, scan.batch)'
  BY <1>2, <1>3 DEF Unread, Passed, Cured, FormsAfter
<1>7. ScanFits'
  BY <1>0, <1>2, <1>3, <1>5, <1>6, ScanLoading DEF ScanFits
<1>8. \A u \in Templates : cache'[u] \in {0, tpl[u]}
  BY <1>0, <1>1, ScanLoading, ScanUnderWay, CachedFits
<1> QED
  BY <1>0, <1>1, <1>2, <1>7, <1>8, ScanLoading, ScanGoesOn

\* A rescan loads a form that differs.
LEMMA ScanLoadFormKeeps ==
    ASSUME IInv, TypeOK', NEW f \in Forms, ScanLoadForm(f)
    PROVE  IInv'
<1> DEFINE b == scan'.batch
<1>0. scan.step = "load" /\ f \in scan.loadF /\ TplOf[f] \in Templates
  BY TplOfAssumption DEF ScanLoadForm
<1>1. UNCHANGED <<files, reading, rows, call, changed, decks, past>> /\ cache' = Cached({TplOf[f]})
  BY DEF ScanLoadForm
<1>2. /\ scan'.step = "load" /\ scan'.tpls = scan.tpls /\ scan'.forms = scan.forms
      /\ scan'.alone = scan.alone /\ scan'.loadF = scan.loadF \ {f}
      /\ b.tdel = scan.batch.tdel /\ b.fdel = scan.batch.fdel
      /\ b.tpls = scan.batch.tpls
      /\ b.forms[f] = IF tpl[TplOf[f]] # 0 /\ Parses(f)
                      THEN [of |-> form[f], by |-> tpl[TplOf[f]], stamp |-> scan.forms[f]]
                      ELSE scan.batch.forms[f]
      /\ \A g \in Forms : g # f => b.forms[g] = scan.batch.forms[g]
  BY <1>0, ScanLoading, ScanLoadFormFacts
<1>3. tpl' = tpl /\ form' = form /\ broken' = broken /\ writes' = writes /\ trow' = trow /\ frow' = frow
  BY <1>1 DEF files, rows
<1>4. /\ writes \in Nat /\ form[f] \in Nat /\ form[f] <= writes /\ scan.forms[f] \in Nat
      /\ Parses(f) => form[f] # 0 /\ form[f] \notin broken
  BY <1>0, ScanLoading, Naturally DEF IInv, Numbered, Parses
<1>5. tpl[TplOf[f]] # 0 /\ Parses(f) =>
         /\ b.forms[f].of = form[f] /\ b.forms[f].by = tpl[TplOf[f]] /\ b.forms[f].stamp = scan.forms[f]
         /\ b.forms[f] # NoFRow
  BY <1>2, <1>4, Rows
<1> HIDE DEF b
<1>6. \A g \in Forms :
         b.forms[g] # NoFRow =>
            /\ b.forms[g].of # 0 /\ b.forms[g].of <= writes /\ b.forms[g].of \notin broken
            /\ b.forms[g].stamp <= b.forms[g].of /\ (form[g] # 0 => b.forms[g].of <= form[g])
            /\ b.forms[g].by = tpl[TplOf[g]] /\ tpl[TplOf[g]] # 0
  <2> SUFFICES ASSUME NEW g \in Forms, b.forms[g] # NoFRow
               PROVE  /\ b.forms[g].of # 0 /\ b.forms[g].of <= writes /\ b.forms[g].of \notin broken
                      /\ b.forms[g].stamp <= b.forms[g].of /\ (form[g] # 0 => b.forms[g].of <= form[g])
                      /\ b.forms[g].by = tpl[TplOf[g]] /\ tpl[TplOf[g]] # 0
    OBVIOUS
  <2>1. CASE g = f /\ tpl[TplOf[f]] # 0 /\ Parses(f)
    BY <1>0, <1>4, <1>5, <2>1, ScanLoading
  <2>2. CASE ~ (g = f /\ tpl[TplOf[f]] # 0 /\ Parses(f))
    BY <1>0, <1>2, <2>2, ScanLoading DEF BatchFits, Sane
  <2> QED
    BY <2>1, <2>2
<1>7. /\ \A t \in Templates :
            b.tpls[t] # NoTRow => b.tpls[t].by = tpl[t] /\ tpl[t] # 0 /\ b.tpls[t].stamp \in {0, tpl[t]}
      /\ \A t \in b.tdel : tpl[t] = 0
  BY <1>0, <1>2, ScanLoading DEF BatchFits
<1>8. BatchFits(scan.batch)'
  BY <1>3, <1>6, <1>7 DEF BatchFits, Sane, b
<1>9. scan.alone => Passed(f, b)
  <2> SUFFICES ASSUME scan.alone PROVE Passed(f, b)
    OBVIOUS
  <2>1. Unread(f) /\ scan.batch.forms[f] = NoFRow /\ changed
    BY <1>0, ScanLoading
  <2>2. tpl[TplOf[f]] # 0
    BY <2>1 DEF Unread
  <2>3. IF Unread(f) /\ Parses(f)
        THEN b.forms[f] # NoFRow /\ b.forms[f].of = form[f] /\ b.forms[f].by = tpl[TplOf[f]]
        ELSE b.forms[f] = NoFRow
    BY <1>2, <1>5, <2>1, <2>2 DEF b
  <2>4. /\ b.tdel = {t \in Templates : tpl[t] = 0 /\ trow[t] # NoTRow}
        /\ b.fdel = {g \in Forms : tpl[TplOf[g]] # 0 /\ form[g] = 0 /\ frow[g] # NoFRow}
    BY <1>0, <1>2, ScanLoading DEF b
  <2> QED
    BY <2>1, <2>3, <2>4, BatchPasses
<1>10. \A g \in Forms : g # f /\ Passed(g, scan.batch) => Passed(g, b)
  BY <1>2 DEF Passed, Cured, FormsAfter, b
<1>11. \A g \in Forms : /\ Unread(g)' <=> Unread(g)
                        /\ Passed(g, b) => Passed(g, scan.batch)'
  BY <1>3 DEF Unread, Passed, Cured, FormsAfter, b
<1>12. scan.alone =>
          /\ scan'.batch.fdel = {g \in Forms : tpl[TplOf[g]] # 0 /\ form[g] = 0 /\ frow[g] # NoFRow}
          /\ \A g \in Forms : IF g \in scan'.loadF THEN Unread(g) /\ scan'.batch.forms[g] = NoFRow
                              ELSE Passed(g, b)
  BY <1>0, <1>2, <1>9, <1>10, ScanLoading DEF b
<1>13. ScanFits'
  BY <1>0, <1>2, <1>3, <1>8, <1>11, <1>12, ScanLoading DEF ScanFits, b
<1>14. \A u \in Templates : cache'[u] \in {0, tpl[u]}
  BY <1>0, <1>1, ScanLoading, ScanUnderWay, CachedFits
<1> QED
  BY <1>0, <1>1, <1>2, <1>13, <1>14, ScanLoading, ScanGoesOn

\* The rescan's transaction: one that ran alone cures every row.
LEMMA ScanReconcileKeeps ==
    ASSUME IInv, TypeOK', ScanReconcile
    PROVE  IInv'
<1> DEFINE b == scan.batch
<1>0. TypeOK /\ changed /\ scan.step = "load" /\ scan.loadF = {} /\ b \in Batches /\ BatchFits(b)
  BY ScanParts DEF IInv, Exclusive, ScanReconcile, ScanFits
<1>1. /\ tpl' = tpl /\ form' = form /\ broken' = broken /\ writes' = writes /\ reading' = reading
      /\ cache' = cache /\ call' = call /\ scan' = NoScan /\ changed' = FALSE /\ recreated' = {}
      /\ overlapped' = IF scan.alone /\ overlapped = "yes" THEN "cured" ELSE overlapped
  BY DEF ScanReconcile, files
<1>2. NoScan.step = "idle" /\ NoScan.batch = Nothing
  BY DEF NoScan
<1>3. /\ \A d \in Editors : ~ TemplateCall(d)
      /\ \A u \in Templates : /\ ~ InHand(u) /\ reading[u] = 0 /\ cache[u] \in {0, tpl[u]}
                              /\ trow[u].by = tpl[u] \/ tpl[u] = 0
  BY <1>0, ScanUnderWay
<1>4. overlapped' # "yes" => scan.alone /\ AllIdle
  BY <1>0, <1>1 DEF IInv, Exclusive
<1>5. b.tdel = {t \in Templates : tpl[t] = 0 /\ trow[t] # NoTRow}
  BY <1>0 DEF IInv, ScanFits
<1>6. scan.alone => \A f \in Forms :
         /\ Cured(f, FormsAfter(b)[f])
         /\ Unread(f) /\ form[f] \notin broken => b.forms[f] # NoFRow
  BY <1>0 DEF IInv, ScanFits, Passed
<1>7. Reconcile(b)
  BY DEF ScanReconcile
<1> HIDE DEF b
<1>8. KeysHold(b)
  BY <1>0, <1>3, KeysFit
<1>9. /\ trow' = TemplatesAfter(b) /\ frow' = FormsAfter(b)
      /\ deck'.forms = deck.forms /\ (deck'.current => deck.current)
      /\ build'.forms = build.forms /\ build'.step = build.step /\ (build'.current => build.current)
      /\ Bumps(b) => ~ deck'.current /\ ~ build'.current
  BY <1>0, <1>7, <1>8, ReconcileFacts
<1>10. \A u \in Templates : IF tpl[u] = 0 THEN trow'[u] = NoTRow
                            ELSE trow'[u] = IF b.tpls[u] # NoTRow THEN b.tpls[u] ELSE trow[u]
  BY <1>0, <1>5, <1>9 DEF TemplatesAfter, BatchFits
<1>11. \A g \in Forms : \/ frow'[g] = NoFRow
                        \/ TplOf[g] \notin b.tdel /\ b.forms[g] # NoFRow /\ frow'[g] = b.forms[g]
                        \/ TplOf[g] \notin b.tdel /\ b.forms[g] = NoFRow /\ frow'[g] = frow[g]
  BY <1>9 DEF FormsAfter
<1>12. \A d \in Editors : ~ TemplateCall(d)'
  BY <1>1, <1>3 DEF TemplateCall
<1>13. Exclusive'
  BY <1>1, <1>2, <1>3, <1>4, <1>12 DEF Exclusive, Only, AllIdle
<1>r. Resting'
  BY <1>1, <1>2 DEF IInv, Resting
<1>14. Numbered' /\ CacheFits'
  BY <1>1, <1>3 DEF IInv, Numbered, CacheFits
<1>15. TemplateRows'
  <2> SUFFICES ASSUME NEW u \in Templates
               PROVE  /\ trow'[u].by = 0 => trow'[u] = NoTRow
                      /\ trow'[u].stamp \in {0, trow'[u].by}
                      /\ trow'[u].by = tpl'[u]
    BY DEF TemplateRows
  <2>1. CASE tpl[u] = 0
    BY <1>1, <1>10, <2>1, Rows
  <2>2. CASE tpl[u] # 0 /\ b.tpls[u] # NoTRow
    <3>1. b.tpls[u].by = tpl[u] /\ b.tpls[u].stamp \in {0, tpl[u]}
      BY <1>0, <2>2 DEF BatchFits
    <3> QED
      BY <1>1, <1>10, <2>2, <3>1
  <2>3. CASE tpl[u] # 0 /\ b.tpls[u] = NoTRow
    BY <1>1, <1>3, <1>10, <2>3 DEF IInv, TemplateRows
  <2> QED
    BY <2>1, <2>2, <2>3
<1>16. FormRows'
  <2> SUFFICES ASSUME NEW g \in Forms
               PROVE  /\ Sane(g, frow[g])'
                      /\ frow'[g] # NoFRow => trow'[TplOf[g]] # NoTRow
                      /\ frow'[g] # NoFRow /\ form'[g] # 0 /\ frow'[g].stamp = form'[g] /\ tpl'[TplOf[g]] # 0
                            => frow'[g].by = tpl'[TplOf[g]]
    BY DEF FormRows
  <2>1. TplOf[g] \in Templates
    BY TplOfAssumption
  <2>2. /\ Sane(g, frow[g])
        /\ frow[g] # NoFRow => trow[TplOf[g]] # NoTRow
        /\ frow[g] # NoFRow /\ form[g] # 0 /\ frow[g].stamp = form[g] /\ tpl[TplOf[g]] # 0
              => frow[g].by = tpl[TplOf[g]]
    BY <1>3, <2>1 DEF IInv, FormRows
  <2>3. CASE frow'[g] = NoFRow
    BY <2>3 DEF Sane
  <2>4. CASE TplOf[g] \notin b.tdel /\ b.forms[g] # NoFRow /\ frow'[g] = b.forms[g]
    <3>1. Sane(g, b.forms[g]) /\ b.forms[g].by = tpl[TplOf[g]] /\ tpl[TplOf[g]] # 0
      BY <1>0, <2>4 DEF BatchFits
    <3>2. b.tpls[TplOf[g]] # NoTRow \/ trow[TplOf[g]] # NoTRow
      BY <1>8, <2>4 DEF KeysHold
    <3> QED
      BY <1>1, <1>10, <2>1, <2>4, <3>1, <3>2 DEF Sane
  <2>5. CASE TplOf[g] \notin b.tdel /\ b.forms[g] = NoFRow /\ frow'[g] = frow[g]
    <3>1. frow[g] # NoFRow => tpl[TplOf[g]] # 0
      BY <1>5, <2>1, <2>2, <2>5
    <3> QED
      BY <1>1, <1>10, <2>1, <2>2, <2>5, <3>1 DEF Sane
  <2> QED
    BY <1>11, <2>3, <2>4, <2>5
<1>17. CallFits'
  <2> SUFFICES ASSUME NEW d \in Editors
               PROVE  BatchFits(call[d].batch)' /\ (FormCall(d) => FormCallFits(d))'
    BY <1>12 DEF CallFits
  <2>1. BatchFits(call[d].batch)'
    BY <1>1 DEF IInv, CallFits, BatchFits, Sane
  <2>2. (FormCall(d) => FormCallFits(d))'
    BY <1>1, <1>4 DEF IInv, CallFits, FormCall, FormCallFits, AllIdle
  <2> QED
    BY <2>1, <2>2
<1>18. Settling'
  <2> SUFFICES ASSUME overlapped' # "yes", NEW g \in Forms
               PROVE  Good(g, frow[g])'
    BY <1>1, <1>4 DEF Settling, AllIdle, FormCall, TemplateCall
  <2>1. Cured(g, FormsAfter(b)[g])
    BY <1>4, <1>6
  <2> QED
    BY <1>1, <1>9, <2>1 DEF Good, Cured
<1>19. ScanFits'
  BY <1>1, <1>2, Rows DEF ScanFits, BatchFits, Sane
<1>20. DecksFit'
  <2> SUFFICES ASSUME overlapped' = "never"
               PROVE  (deck.current => Shows(deck.forms))' /\ (build.step = "built" /\ build.current => Shows(build.forms))'
    BY DEF DecksFit
  <2>1. overlapped = "never" /\ scan.alone /\ AllIdle
    BY <1>1, <1>4
  <2>2. \A g \in Forms : Announced(g) => Unread(g)
    BY <1>3, <2>1, TplOfAssumption DEF Announced, AllIdle, FormCall
  <2>3. (\E g \in Forms : Unread(g) /\ form[g] \notin broken) => Bumps(b)
    <3> SUFFICES ASSUME NEW g \in Forms, Unread(g), form[g] \notin broken PROVE b.forms # Nothing.forms
      BY DEF Bumps
    <3> QED
      BY <1>6, <2>1, Rows
  <2> QED
    BY <1>1, <1>9, <2>1, <2>2, <2>3 DEF IInv, DecksFit, Shows
<1> QED
  BY <1>r, <1>13, <1>14, <1>15, <1>16, <1>17, <1>18, <1>19, <1>20 DEF IInv

----------------------------------------------------------------------------
(* The theorems *)

LEMMA InvInit == Init => IInv
<1> SUFFICES ASSUME Init PROVE IInv
  OBVIOUS
<1>0. TypeOK
  BY TypeInit
<1>1. /\ \A t \in Templates : tpl[t] = 0 /\ cache[t] = 0 /\ reading[t] = 0 /\ trow[t] = NoTRow
      /\ \A f \in Forms : form[f] = 0 /\ frow[f] = NoFRow
      /\ \A e \in Editors : call[e].step = "idle" /\ call[e].batch = Nothing
      /\ scan.step = "idle" /\ scan.batch = Nothing /\ changed
      /\ broken = {} /\ writes = 0 /\ ~ deck.current /\ build.step = "idle"
  BY DEF Init, NoCall, NoScan, NoBuild
<1>2. \A f \in Forms : TplOf[f] \in Templates
  BY TplOfAssumption
<1>3. \A e \in Editors : ~ FormCall(e) /\ ~ TemplateCall(e)
  BY <1>1 DEF FormCall, TemplateCall
<1>4. Exclusive /\ Resting
  BY <1>1, <1>3 DEF Exclusive, Resting
<1>5. Numbered /\ CacheFits /\ TemplateRows
  BY <1>1, Rows DEF Numbered, CacheFits, TemplateRows
<1>6. FormRows
  BY <1>1, <1>2 DEF FormRows, Sane
<1>7. CallFits /\ ScanFits
  BY <1>1, <1>3, Rows DEF CallFits, ScanFits, BatchFits, Sane
<1>8. Settling /\ DecksFit
  BY <1>1, <1>3 DEF Settling, DecksFit
<1> QED
  BY <1>0, <1>4, <1>5, <1>6, <1>7, <1>8 DEF IInv

LEMMA InvStep ==
    ASSUME OnlyForms, IInv, [Next]_vars
    PROVE  IInv'
<1>1. TypeOK'
  BY TypeStep DEF IInv
<1>2. CASE UNCHANGED vars
  BY <1>1, <1>2, StutterKeeps
<1>3. ASSUME NEW t \in Templates, LoadRead(t) \/ LoadPut(t)
      PROVE  IInv'
  BY <1>1, <1>3, LoadKeeps
<1>4. ASSUME NEW e \in Editors, NEW f \in Forms, SaveForm(e, f) \/ DeleteForm(e, f)
      PROVE  IInv'
  BY <1>1, <1>4, SaveFormKeeps, DeleteFormKeeps
<1>5. ASSUME NEW e \in Editors, NEW t \in Templates,
             SaveTemplate(e, t) \/ DeleteTemplate(e, t) \/ RescanTemplate(e, t)
      PROVE  IInv'
  BY <1>1, <1>5, SaveTemplateKeeps, DeleteTemplateKeeps, RescanTemplateKeeps
<1>6. ASSUME NEW e \in Editors, OnFormChanged(e) \/ CacheClear(e) \/ OnTemplateChanged(e) \/ HookReconcile(e)
      PROVE  IInv'
  BY <1>1, <1>6, OnFormChangedKeeps, CacheClearKeeps, OnTemplateChangedKeeps, HookReconcileKeeps
<1>7. CASE Pull \/ Restart
  BY <1>1, <1>7, PullKeeps, RestartKeeps
<1>8. CASE ScanDisk \/ ScanTemplates \/ ScanForms \/ ScanReconcile
  BY <1>1, <1>8, ScanDiskKeeps, ScanTemplatesKeeps, ScanFormsKeeps, ScanReconcileKeeps
<1>10. ASSUME NEW t \in Templates, ScanLoadTemplate(t)
       PROVE  IInv'
  BY <1>1, <1>10, ScanLoadTemplateKeeps
<1>11. ASSUME NEW f \in Forms, ScanLoadForm(f)
       PROVE  IInv'
  BY <1>1, <1>11, ScanLoadFormKeeps
<1>9. CASE DeckStart \/ DeckRead \/ DeckEnd
  BY <1>1, <1>9, DeckKeeps
<1> QED
  BY <1>2, <1>3, <1>4, <1>5, <1>6, <1>7, <1>8, <1>9, <1>10, <1>11, NextCases

\* Whenever nothing runs, no row of the index is a phantom or stale, and only forms of a
\* template created since the last rescan may lack theirs, whatever forms were saved and
\* deleted, pulled or broken beside each other and beside the rescans, once a rescan ran
\* alone after an overlap (app.go:90).
THEOREM RowsReflectDisk ==
    ASSUME OnlyForms
    PROVE  Spec => []IndexReflectsDisk
<1>1. IInv => IndexReflectsDisk
  <2> SUFFICES ASSUME IInv, Quiet, overlapped # "yes"
               PROVE  /\ \A t \in Templates : trow[t].by = tpl[t]
                      /\ \A f \in Forms : Good(f, frow[f])
    BY DEF IndexReflectsDisk, Right, Good, Cured, Missed
  <2>1. AllIdle /\ ~ changed
    BY QuietIs DEF IInv
  <2>2. \A t \in Templates : ~ InHand(t)
    BY <2>1 DEF InHand, TemplateCall, AllIdle
  <2> QED
    BY <2>1, <2>2 DEF IInv, TemplateRows, Settling
<1>2. IInv /\ [Next]_vars => IInv'
  BY InvStep
<1> QED
  BY <1>1, <1>2, InvInit, PTL DEF Spec

\* A deck served from the cache shows the forms that are there as they are, even when its
\* build ran beside a write, as long as operations do not overlap (render/slide.go:67).
THEOREM DecksAreCurrent ==
    ASSUME OnlyForms
    PROVE  Spec => []DeckShowsForms
<1>1. IInv => DeckShowsForms
  <2> SUFFICES ASSUME IInv, Quiet, overlapped = "never", deck.current, NEW f \in Forms,
                      form[f] # 0, form[f] \notin broken, tpl[TplOf[f]] # 0
               PROVE  deck.forms[f] = form[f]
    BY DEF DeckShowsForms
  <2>1. AllIdle /\ ~ changed
    BY QuietIs DEF IInv
  <2>2. ~ Announced(f)
    BY <2>1 DEF Announced, InHand, TemplateCall, FormCall, AllIdle
  <2> QED
    BY <2>2 DEF IInv, DecksFit, Shows
<1>2. IInv /\ [Next]_vars => IInv'
  BY InvStep
<1> QED
  BY <1>1, <1>2, InvInit, PTL DEF Spec
===============================================================================
