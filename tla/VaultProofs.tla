------------------------------ MODULE VaultProofs ------------------------------
(***************************************************************************)
(* Proofs about the vault, for every set of goroutines and names and every *)
(* bound.  What is proved of the swap assumes that it is Undisturbed.      *)
(***************************************************************************)
EXTENDS Vault, TLAPS

\* A change of the password runs by itself, no lock falls between a set's session and
\* its seal, the program does not stop between the first and the last rename of a
\* swap, and the backup can be removed.
Undisturbed ==
    /\ {"rekey", "lock"} \subseteq Alone
    /\ Crashes \cap {"oldheader", "new", "newheader"} = {}
    /\ "clean" \notin Failures

----------------------------------------------------------------------------
(* Types *)

\* The state a step carries, by the name of the step.
LEMMA CallType ==
    ASSUME TypeInv, NEW g \in Procs
    PROVE  /\ call[g] \in Call
           /\ call[g].step = "derived" => call[g].key \in Keys
           /\ call[g].step = "seal" =>
                 /\ call[g].name \in Names /\ call[g].key \in Keys \cup {Zeroed}
                 /\ call[g].value \in Values
                 /\ call[g] = [step |-> "seal", name |-> call[g].name, key |-> call[g].key,
                               value |-> call[g].value]
           /\ call[g].step = "write" => call[g].name \in Names /\ call[g].rec \in Records
           /\ call[g].step = "remove" => call[g].name \in Names
           /\ call[g].step \in RekeySteps => call[g].new \in Keys
           /\ call[g].step \in {"list", "read"} => call[g].key \in Keys \cup {Zeroed}
           /\ call[g].step \in {"read", "clear", "stage"} => call[g].plain \in [Names -> {0} \cup Values]
           /\ call[g].step = "list" =>
                 call[g] = [step |-> "list", key |-> call[g].key, new |-> call[g].new]
           /\ call[g].step = "read" =>
                 /\ call[g].todo \in SUBSET Names
                 /\ call[g] = [step |-> "read", key |-> call[g].key, new |-> call[g].new,
                               plain |-> call[g].plain, todo |-> call[g].todo]
<1>1. call[g] \in Call
  BY DEF TypeInv
<1> QED
  BY <1>1 DEF Call, RekeySteps

\* Zeroing the key slice changes the key of some calls and nothing else.
LEMMA ZeroedKeys ==
    ASSUME TypeInv, NEW g \in Procs
    PROVE  LET z == WithZeroedKey(call)[g] IN
           /\ z \in Call
           /\ z.step = call[g].step
           /\ z.step \in RekeySteps => z.new = call[g].new
           /\ z.step \in {"list", "read"} => z.key = Zeroed
           /\ z.step = "read" => z.plain = call[g].plain /\ z.todo = call[g].todo
           /\ z.step \notin {"seal", "list", "read"} => z = call[g]
<1>1. CASE call[g].step = "seal"
  <2>1. [call[g] EXCEPT !.key = Zeroed] =
           [step |-> "seal", name |-> call[g].name, key |-> Zeroed, value |-> call[g].value]
    <3>1. call[g] = [step |-> "seal", name |-> call[g].name, key |-> call[g].key, value |-> call[g].value]
      BY <1>1, CallType
    <3>2. [[step |-> "seal", name |-> call[g].name, key |-> call[g].key, value |-> call[g].value]
              EXCEPT !.key = Zeroed] =
             [step |-> "seal", name |-> call[g].name, key |-> Zeroed, value |-> call[g].value]
      OBVIOUS
    <3> QED
      BY <3>1, <3>2, Zenon
  <2>2. [step |-> "seal", name |-> call[g].name, key |-> Zeroed, value |-> call[g].value] \in Call
    BY <1>1, CallType DEF Call
  <2> QED
    BY <1>1, <2>1, <2>2 DEF WithZeroedKey, RekeySteps
<1>2. CASE call[g].step = "list"
  <2>1. [call[g] EXCEPT !.key = Zeroed] = [step |-> "list", key |-> Zeroed, new |-> call[g].new]
    <3>1. call[g] = [step |-> "list", key |-> call[g].key, new |-> call[g].new]
      BY <1>2, CallType
    <3>2. [[step |-> "list", key |-> call[g].key, new |-> call[g].new] EXCEPT !.key = Zeroed] =
             [step |-> "list", key |-> Zeroed, new |-> call[g].new]
      OBVIOUS
    <3> QED
      BY <3>1, <3>2, Zenon
  <2>2. [step |-> "list", key |-> Zeroed, new |-> call[g].new] \in Call
    BY <1>2, CallType DEF Call, RekeySteps
  <2> QED
    BY <1>2, <2>1, <2>2 DEF WithZeroedKey
<1>3. CASE call[g].step = "read"
  <2>1. [call[g] EXCEPT !.key = Zeroed] =
           [step |-> "read", key |-> Zeroed, new |-> call[g].new, plain |-> call[g].plain,
            todo |-> call[g].todo]
    <3>1. call[g] = [step |-> "read", key |-> call[g].key, new |-> call[g].new,
                     plain |-> call[g].plain, todo |-> call[g].todo]
      BY <1>3, CallType
    <3>2. [[step |-> "read", key |-> call[g].key, new |-> call[g].new, plain |-> call[g].plain,
            todo |-> call[g].todo] EXCEPT !.key = Zeroed] =
             [step |-> "read", key |-> Zeroed, new |-> call[g].new, plain |-> call[g].plain,
              todo |-> call[g].todo]
      OBVIOUS
    <3> QED
      BY <3>1, <3>2, Zenon
  <2>2. [step |-> "read", key |-> Zeroed, new |-> call[g].new, plain |-> call[g].plain,
            todo |-> call[g].todo] \in Call
    BY <1>3, CallType DEF Call, RekeySteps
  <2> QED
    BY <1>3, <2>1, <2>2 DEF WithZeroedKey
<1>4. CASE call[g].step \notin {"seal", "list", "read"}
  BY <1>4, CallType DEF WithZeroedKey, RekeySteps
<1> QED
  BY <1>1, <1>2, <1>3, <1>4

LEMMA ZeroedType ==
    ASSUME TypeInv
    PROVE  WithZeroedKey(call) \in [Procs -> Call]
  BY ZeroedKeys DEF WithZeroedKey

\* Every step of the vault, one CASE per action of Next.
LEMMA NextCases ==
    ASSUME Next
    PROVE  \/ Create \/ Open \/ Lock \/ Crash
           \/ \E g \in Procs, n \in Names : Set(g, n) \/ Delete(g, n) \/ Read(g, n)
           \/ \E g \in Procs : Unlock(g) \/ Unlocked(g) \/ Seal(g) \/ Write(g) \/ Remove(g)
           \/ \E g \in Procs :
                 \/ ChangePassword(g) \/ List(g) \/ Reseal(g) \/ Clear(g) \/ Stage(g)
                 \/ MoveOld(g) \/ MoveOldHeader(g) \/ MoveNew(g) \/ MoveNewHeader(g)
                 \/ Clean(g) \/ Undo(g) \/ Install(g) \/ GiveUp(g)
  BY DEF Next, Step

LEMMA NothingType == Nothing \in Place /\ NoRecords \in [Names -> Records] /\ NoRecord \in Records
  BY DEF Nothing, Place, NoRecords, NoRecord, Records, NoKey

LEMMA IdleType == Idle \in Call /\ Idle.step = "idle"
  BY DEF Idle, Call

LEMMA TypeStep ==
    ASSUME TypeInv, [Next]_vars
    PROVE  TypeInv'
<1> USE BoundsAssumption, NothingType, IdleType DEF TypeInv
<1>1. CASE Create
  <2>1. keys' \in Keys /\ keys' \in 0 .. MaxKeys
    BY <1>1 DEF Create, Keys
  <2>2. live' \in Place
    BY <1>1, <2>1 DEF Create, Place
  <2> QED
    BY <1>1, <2>1, <2>2 DEF Create
<1>2. CASE Open
  BY <1>2 DEF Open, disk, Place
<1>3. CASE Lock
  BY <1>3, ZeroedType DEF Lock, disk
<1>4. CASE Crash
  BY <1>4 DEF Crash, disk
<1>5. ASSUME NEW g \in Procs, NEW n \in Names, Set(g, n)
      PROVE  TypeInv'
  <2>1. sets' \in Values /\ sets' \in 0 .. MaxSets /\ held \in Keys
    BY <1>5 DEF Set, Values
  <2>2. [step |-> "seal", name |-> n, key |-> held, value |-> sets'] \in Call
    BY <2>1 DEF Call
  <2> QED
    BY <1>5, <2>1, <2>2 DEF Set, Start, Go, disk
<1>6. ASSUME NEW g \in Procs, NEW n \in Names, Delete(g, n)
      PROVE  TypeInv'
  <2>1. [step |-> "remove", name |-> n] \in Call
    BY DEF Call
  <2> QED
    BY <1>6, <2>1 DEF Delete, Start, Go, disk
<1>7. ASSUME NEW g \in Procs, NEW n \in Names, Read(g, n)
      PROVE  TypeInv'
  <2> DEFINE rec == live.recs[n]
  <2>0. call[g].step = "read" /\ rec \in Records
    BY <1>7 DEF Read, Place
  <2>1. CASE rec # NoRecord /\ rec.key = call[g].key
    <3>1. rec.value \in Values
      BY <2>0, <2>1 DEF Records
    <3>3. [step |-> "read", key |-> call[g].key, new |-> call[g].new,
              plain |-> [call[g].plain EXCEPT ![n] = rec.value], todo |-> call[g].todo \ {n}] \in Call
      BY <2>0, <3>1, CallType DEF Call, RekeySteps
    <3> QED
      BY <1>7, <2>1, <3>3 DEF Read, Go, disk
  <2>2. CASE ~ (rec # NoRecord /\ rec.key = call[g].key)
    BY <1>7, <2>2 DEF Read, Go, disk
  <2> QED
    BY <2>1, <2>2
<1>8. ASSUME NEW g \in Procs, Unlock(g)
      PROVE  TypeInv'
  <2>1. [step |-> "derived", key |-> head] \in Call
    BY <1>8 DEF Call, Unlock
  <2> QED
    BY <1>8, <2>1 DEF Unlock, Start, Go, disk
<1>9. ASSUME NEW g \in Procs, Unlocked(g)
      PROVE  TypeInv'
  BY <1>9, CallType DEF Unlocked, Go, disk
<1>10. ASSUME NEW g \in Procs, Seal(g)
       PROVE  TypeInv'
  <2>1. [step |-> "write", name |-> call[g].name,
         rec |-> [key |-> call[g].key, value |-> call[g].value]] \in Call
    BY <1>10, CallType DEF Seal, Call, Records
  <2> QED
    BY <1>10, <2>1 DEF Seal, Go, disk
<1>11. ASSUME NEW g \in Procs, Write(g)
       PROVE  TypeInv'
  <2>1. call[g].name \in Names /\ call[g].rec \in Records
    BY <1>11, CallType DEF Write
  <2>2. live' \in Place
    BY <1>11, <2>1 DEF Write, Place
  <2> QED
    BY <1>11, <2>2 DEF Write, Go
<1>12. ASSUME NEW g \in Procs, Remove(g)
       PROVE  TypeInv'
  <2>1. call[g].name \in Names
    BY <1>12, CallType DEF Remove
  <2>2. live' \in Place
    BY <1>12, <2>1 DEF Remove, Place
  <2> QED
    BY <1>12, <2>2 DEF Remove, Go
<1>13. ASSUME NEW g \in Procs, ChangePassword(g)
       PROVE  TypeInv'
  <2>1. keys' \in Keys /\ keys' \in 0 .. MaxKeys /\ held \in Keys
    BY <1>13 DEF ChangePassword, Keys
  <2>2. [step |-> "list", key |-> held, new |-> keys'] \in Call
    BY <2>1 DEF Call
  <2> QED
    BY <1>13, <2>1, <2>2 DEF ChangePassword, Start, Go, disk
<1>14. ASSUME NEW g \in Procs, List(g)
       PROVE  TypeInv'
  <2>1. [step |-> "read", key |-> call[g].key, new |-> call[g].new,
              plain |-> [n \in Names |-> 0],
              todo |-> {n \in Names : live.recs[n] # NoRecord}] \in Call
    BY <1>14, CallType DEF List, Call, RekeySteps
  <2> QED
    BY <1>14, <2>1 DEF List, Go, disk
<1>15. ASSUME NEW g \in Procs, Reseal(g)
       PROVE  TypeInv'
  <2>1. [step |-> "clear", new |-> call[g].new, plain |-> call[g].plain] \in Call
    BY <1>15, CallType DEF Reseal, Call, RekeySteps
  <2> QED
    BY <1>15, <2>1 DEF Reseal, Go, disk
<1>16. ASSUME NEW g \in Procs, Clear(g)
       PROVE  TypeInv'
  <2>1. [step |-> "stage", new |-> call[g].new, plain |-> call[g].plain] \in Call
    BY <1>16, CallType DEF Clear, Call, RekeySteps
  <2> QED
    BY <1>16, <2>1 DEF Clear, Go
<1>17. ASSUME NEW g \in Procs, Stage(g)
       PROVE  TypeInv'
  <2>1. call[g].new \in Keys /\ call[g].plain \in [Names -> {0} \cup Values]
    BY <1>17, CallType DEF Stage, RekeySteps
  <2>2. Sealed(call[g].new, call[g].plain) \in [Names -> Records]
    BY <2>1 DEF Sealed, Records
  <2>3. stage' \in Place
    BY <1>17, <2>1, <2>2 DEF Stage, Place
  <2>4. [step |-> "old", new |-> call[g].new] \in Call
    BY <2>1 DEF Call
  <2> QED
    BY <1>17, <2>3, <2>4 DEF Stage, Go
<1>18. ASSUME NEW g \in Procs, NEW s \in {"oldheader", "new", "newheader", "clean", "install"},
              call[g].step \in RekeySteps
       PROVE  [step |-> s, new |-> call[g].new] \in Call
  BY <1>18, CallType DEF Call
<1>19. ASSUME NEW g \in Procs, MoveOld(g)
       PROVE  TypeInv'
  <2>1. live' \in Place /\ backup' \in Place
    BY <1>19 DEF MoveOld, Place
  <2> QED
    BY <1>18, <1>19, <2>1 DEF MoveOld, Advance, Go, RekeySteps
<1>20. ASSUME NEW g \in Procs, MoveOldHeader(g)
       PROVE  TypeInv'
  <2>1. live' \in Place /\ backup' \in Place
    BY <1>20 DEF MoveOldHeader, Place
  <2> QED
    BY <1>18, <1>20, <2>1 DEF MoveOldHeader, Advance, Go, RekeySteps
<1>21. ASSUME NEW g \in Procs, MoveNew(g)
       PROVE  TypeInv'
  <2>1. live' \in Place /\ stage' \in Place
    BY <1>21 DEF MoveNew, Place
  <2> QED
    BY <1>18, <1>21, <2>1 DEF MoveNew, Advance, Go, RekeySteps
<1>22. ASSUME NEW g \in Procs, MoveNewHeader(g)
       PROVE  TypeInv'
  <2>1. live' \in Place /\ stage' \in Place
    BY <1>22 DEF MoveNewHeader, Place
  <2> QED
    BY <1>18, <1>22, <2>1 DEF MoveNewHeader, Advance, Go, RekeySteps
<1>23. ASSUME NEW g \in Procs, Clean(g)
       PROVE  TypeInv'
  BY <1>18, <1>23 DEF Clean, Advance, Go, RekeySteps
<1>24. ASSUME NEW g \in Procs, Undo(g)
       PROVE  TypeInv'
  <2>1. ASSUME NEW l \in Place, Restore(l)
        PROVE  live' \in Place /\ backup' \in Place
    BY <2>1 DEF Restore, Place
  <2>2. [live EXCEPT !.secrets = FALSE, !.recs = NoRecords] \in Place
    BY DEF Place
  <2>3. live' \in Place /\ backup' \in Place
    BY <1>24, <2>1, <2>2 DEF Undo
  <2> QED
    BY <1>24, <2>3 DEF Undo, Go
<1>25. ASSUME NEW g \in Procs, Install(g)
       PROVE  TypeInv'
  <2>1. call[g].new \in Keys
    BY <1>25, CallType DEF Install, RekeySteps
  <2> QED
    BY <1>25, <2>1, ZeroedType DEF Install, disk
<1>26. ASSUME NEW g \in Procs, GiveUp(g)
       PROVE  TypeInv'
  BY <1>26 DEF GiveUp, Go, disk
<1>27. CASE UNCHANGED vars
  BY <1>27 DEF vars, disk
<1> QED
  BY <1>1, <1>2, <1>3, <1>4, <1>5, <1>6, <1>7, <1>8, <1>9, <1>10, <1>11, <1>12, <1>13, <1>14, <1>15,
     <1>16, <1>17, <1>19, <1>20, <1>21, <1>22, <1>23, <1>24, <1>25, <1>26, <1>27, NextCases

\* Every variable keeps its type, whatever overlaps and wherever the program stops.
THEOREM TypeCorrect == Spec => []TypeInv
<1>1. Init => TypeInv
  BY BoundsAssumption, NothingType, IdleType DEF Init, TypeInv
<1> QED
  BY <1>1, TypeStep, PTL DEF Spec

----------------------------------------------------------------------------
(* The inductive invariant *)

\* The records of p open with k.
Holds(p, k) == p.secrets /\ \A n \in Names : p.recs[n].key \in {NoKey, k}

\* p is a vault by itself.
Whole(p) == p.header # NoKey /\ Holds(p, p.header)

\* The values of recs under another key.
Resealed(k, recs) ==
    [n \in Names |-> IF recs[n] = NoRecord THEN NoRecord ELSE [key |-> k, value |-> recs[n].value]]

\* The copy of a swap: the new header and the values of recs.
Copy(k, recs) == [header |-> k, secrets |-> TRUE, recs |-> Resealed(k, recs)]

\* A call that writes does it under the key of the open vault.
CallInv(h) ==
    /\ Busy(h) => head # NoKey
    /\ call[h].step \in {"derived", "seal"} => call[h].key = head
    /\ call[h].step = "write" => call[h].rec.key = head

\* A change of the password is alone, and its key is the newest.
AloneInv(g) ==
    /\ \A h \in Procs \ {g} : ~ Busy(h)
    /\ head < call[g].new /\ call[g].new = keys

\* Before the swap the old vault is in place; what was read of it is what it holds.
ReadInv(g) ==
    /\ call[g].step \in {"list", "read", "clear", "stage", "old"} => Whole(live) /\ live.header = head
    /\ call[g].step \in {"list", "read"} => call[g].key \in {head, Zeroed}
    /\ call[g].step = "read" => \A n \in Names \ call[g].todo : call[g].plain[n] = live.recs[n].value
    /\ call[g].step \in {"clear", "stage"} => \A n \in Names : call[g].plain[n] = live.recs[n].value
    /\ call[g].step \in {"stage", "old"} => backup = Nothing
    /\ call[g].step = "old" => stage = Copy(call[g].new, live.recs)

\* In the swap the old vault is in two places at most, and the copy has its values.
SwapInv(g) ==
    /\ call[g].step \in {"oldheader", "new", "newheader"} => Holds(backup, head)
    /\ call[g].step \in {"new", "newheader"} => backup.header = head
    /\ call[g].step \in {"oldheader", "new"} => stage = Copy(call[g].new, backup.recs)
    /\ call[g].step = "oldheader" =>
          live = [header |-> head, secrets |-> FALSE, recs |-> NoRecords] /\ backup.header = NoKey
    /\ call[g].step = "new" => live = Nothing
    /\ call[g].step = "newheader" =>
          /\ live = [header |-> NoKey, secrets |-> TRUE, recs |-> Resealed(call[g].new, backup.recs)]
          /\ stage.header = call[g].new
    /\ call[g].step \in {"clean", "install"} => Whole(live) /\ live.header = call[g].new

RekeyInv(g) == AloneInv(g) /\ ReadInv(g) /\ SwapInv(g)

\* Outside a change of the password there is no vault yet, or a whole one.
AtRest ==
    \/ live = Nothing /\ backup = Nothing /\ keys = 0 /\ head = NoKey
    \/ Whole(live) /\ live.header <= keys /\ head \in {NoKey, live.header}

IInv ==
    /\ held \in {NoKey, head}
    /\ \A h \in Procs : CallInv(h)
    /\ \A g \in Procs : Rekeying(g) => RekeyInv(g)
    /\ (\A g \in Procs : ~ Rekeying(g)) => AtRest

\* What a call's step says of its kind.
LEMMA Kinds ==
    ASSUME NEW g \in Procs
    PROVE  /\ call[g].step \in {"derived", "seal", "write", "remove"} => Busy(g) /\ ~ Rekeying(g)
           /\ Rekeying(g) => Busy(g)
  BY DEF Busy, Rekeying, RekeySteps

\* A step of goroutine g leaves the other calls alone.
LEMMA Others ==
    ASSUME TypeInv, NEW g \in Procs, NEW c, Go(g, c)
    PROVE  /\ call'[g] = c
           /\ \A h \in Procs \ {g} : call'[h] = call[h]
  BY DEF TypeInv, Go

\* While a call other than a change of the password is busy there is no change.
LEMMA NoChange ==
    ASSUME IInv, NEW g \in Procs, Busy(g), ~ Rekeying(g)
    PROVE  (\A h \in Procs : ~ Rekeying(h)) /\ AtRest
  BY DEF IInv, RekeyInv, AloneInv

\* A step of such a call keeps the invariant when the vault stays as whole as it was.
LEMMA PlainStep ==
    ASSUME TypeInv, IInv, NEW g \in Procs, NEW c, Go(g, c),
           \A h \in Procs : ~ Rekeying(h),
           c.step \notin RekeySteps, CallInv(g)', AtRest',
           head' = head, held' \in {NoKey, head}
    PROVE  IInv'
<1>1. \A h \in Procs : ~ Rekeying(h)'
  BY Others DEF Rekeying
<1>2. \A h \in Procs : CallInv(h)'
  BY Others DEF IInv, CallInv, Busy
<1> QED
  BY <1>1, <1>2 DEF IInv

\* A step of a change that goes on.
LEMMA ChangeStep ==
    ASSUME TypeInv, IInv, NEW g \in Procs, Rekeying(g), NEW c, Go(g, c),
           c.step \in RekeySteps, c.new = call[g].new, keys' = keys, head' = head, held' = held,
           ReadInv(g)', SwapInv(g)'
    PROVE  IInv'
<1>1. RekeyInv(g) /\ head # NoKey
  BY DEF IInv, CallInv, Rekeying, RekeySteps, Busy
<1>2. call'[g] = c /\ \A h \in Procs \ {g} : ~ Busy(h)' /\ ~ Rekeying(h)'
  BY <1>1, Others DEF RekeyInv, AloneInv, Busy, Rekeying, RekeySteps
<1>3. RekeyInv(g)'
  BY <1>1, <1>2 DEF RekeyInv, AloneInv
<1>4. \A h \in Procs : CallInv(h)'
  BY <1>1, <1>2 DEF CallInv, Busy, RekeySteps
<1>5. Rekeying(g)'
  BY <1>2 DEF Rekeying
<1> QED
  BY <1>2, <1>3, <1>4, <1>5 DEF IInv

\* The end of a change that leaves a whole vault.
LEMMA ChangeEnd ==
    ASSUME TypeInv, IInv, NEW g \in Procs, Rekeying(g), Go(g, Idle),
           keys' = keys, head' = head, held' = held, AtRest'
    PROVE  IInv'
<1>1. \A h \in Procs : ~ Busy(h)'
  BY Others, IdleType DEF IInv, RekeyInv, AloneInv, Busy
<1>2. \A h \in Procs : ~ Rekeying(h)' /\ CallInv(h)'
  BY <1>1, IdleType DEF Rekeying, RekeySteps, Busy, CallInv
<1> QED
  BY <1>2 DEF IInv

LEMMA InvInit == Init => IInv
<1> SUFFICES ASSUME Init PROVE IInv
  OBVIOUS
<1>1. \A g \in Procs : ~ Busy(g) /\ ~ Rekeying(g) /\ CallInv(g)
  BY IdleType DEF Init, Busy, Rekeying, RekeySteps, CallInv
<1> QED
  BY <1>1 DEF Init, IInv, AtRest

\* A write of a name under the key of the open vault leaves a whole vault whole.
LEMMA WholeWrite ==
    ASSUME TypeInv, Whole(live), NEW n \in Names, NEW rec \in Records,
           rec.key \in {NoKey, live.header},
           live' = [live EXCEPT !.secrets = TRUE, !.recs[n] = rec]
    PROVE  Whole(live') /\ live'.header = live.header
<1>1. live' = [header |-> live.header, secrets |-> TRUE, recs |-> [live.recs EXCEPT ![n] = rec]]
  BY DEF TypeInv, Place
<1>2. live.recs \in [Names -> Records]
  BY DEF TypeInv, Place
<1> QED
  BY <1>1, <1>2 DEF Whole, Holds

\* The calls that do not change the password, create, open, lock and crash.
LEMMA PlainInv ==
    ASSUME TypeInv, IInv, Undisturbed, NEW g \in Procs,
           \/ \E n \in Names : Set(g, n) \/ Delete(g, n)
           \/ Unlock(g) \/ Unlocked(g) \/ Seal(g) \/ Write(g) \/ Remove(g)
    PROVE  IInv'
<1>1. ASSUME NEW n \in Names, Set(g, n)
      PROVE  IInv'
  <2>1. \A h \in Procs : ~ Rekeying(h)
    BY <1>1 DEF Set, Start, Undisturbed
  <2>2. held = head /\ head # NoKey
    BY <1>1 DEF Set, IInv
  <2> DEFINE c == [step |-> "seal", name |-> n, key |-> held, value |-> sets']
  <2>3. Go(g, c)
    BY <1>1 DEF Set, Start
  <2>4. CallInv(g)' /\ AtRest'
    BY <1>1, <2>1, <2>2, <2>3, Others DEF Set, disk, CallInv, IInv, AtRest
  <2> QED
    BY <1>1, <2>1, <2>2, <2>3, <2>4, PlainStep DEF Set, RekeySteps
<1>2. ASSUME NEW n \in Names, Delete(g, n)
      PROVE  IInv'
  <2>1. \A h \in Procs : ~ Rekeying(h)
    BY <1>2 DEF Delete, Start, Undisturbed
  <2>2. held = head /\ head # NoKey
    BY <1>2 DEF Delete, IInv
  <2> DEFINE c == [step |-> "remove", name |-> n]
  <2>3. Go(g, c)
    BY <1>2 DEF Delete, Start
  <2>4. CallInv(g)' /\ AtRest'
    BY <1>2, <2>1, <2>2, <2>3, Others DEF Delete, disk, CallInv, IInv, AtRest
  <2> QED
    BY <1>2, <2>1, <2>2, <2>3, <2>4, PlainStep DEF Delete, RekeySteps
<1>3. CASE Unlock(g)
  <2>1. \A h \in Procs : ~ Rekeying(h)
    BY <1>3 DEF Unlock, Start, Undisturbed
  <2> DEFINE c == [step |-> "derived", key |-> head]
  <2>3. Go(g, c)
    BY <1>3 DEF Unlock, Start
  <2>4. CallInv(g)' /\ AtRest'
    BY <1>3, <2>1, <2>3, Others DEF Unlock, disk, CallInv, IInv, AtRest
  <2> QED
    BY <1>3, <2>1, <2>3, <2>4, PlainStep DEF Unlock, RekeySteps, IInv
<1>4. CASE Unlocked(g)
  <2>1. (\A h \in Procs : ~ Rekeying(h)) /\ AtRest
    BY <1>4, Kinds, NoChange DEF Unlocked
  <2>2. call[g].key = head
    BY <1>4 DEF Unlocked, IInv, CallInv
  <2>3. Go(g, Idle)
    BY <1>4 DEF Unlocked
  <2>4. CallInv(g)' /\ AtRest'
    BY <1>4, <2>1, <2>3, Others, IdleType DEF Unlocked, disk, CallInv, AtRest, Busy
  <2> QED
    BY <1>4, <2>1, <2>2, <2>3, <2>4, PlainStep, IdleType DEF Unlocked, RekeySteps, IInv
<1>5. CASE Seal(g)
  <2>1. (\A h \in Procs : ~ Rekeying(h)) /\ AtRest
    BY <1>5, Kinds, NoChange DEF Seal
  <2>2. call[g].key = head /\ head # NoKey
    BY <1>5, Kinds DEF Seal, IInv, CallInv
  <2> DEFINE c == [step |-> "write", name |-> call[g].name,
                   rec |-> [key |-> call[g].key, value |-> call[g].value]]
  <2>3. Go(g, c)
    BY <1>5 DEF Seal
  <2>4. CallInv(g)' /\ AtRest'
    BY <1>5, <2>1, <2>2, <2>3, Others DEF Seal, disk, CallInv, AtRest
  <2> QED
    BY <1>5, <2>1, <2>3, <2>4, PlainStep DEF Seal, RekeySteps, IInv
<1>6. CASE Write(g)
  <2>1. (\A h \in Procs : ~ Rekeying(h)) /\ AtRest
    BY <1>6, Kinds, NoChange DEF Write
  <2>2. call[g].rec.key = head /\ head # NoKey /\ call[g].rec \in Records /\ call[g].name \in Names
    BY <1>6, Kinds, CallType DEF Write, IInv, CallInv
  <2>3. Go(g, Idle)
    BY <1>6 DEF Write
  <2>4. Whole(live) /\ head = live.header
    BY <2>1, <2>2 DEF AtRest
  <2>5. Whole(live') /\ live'.header = live.header
    BY <1>6, <2>2, <2>4, WholeWrite DEF Write
  <2>6. CallInv(g)' /\ AtRest'
    BY <1>6, <2>1, <2>2, <2>3, <2>4, <2>5, Others, IdleType DEF Write, CallInv, AtRest, Busy, Whole, Holds
  <2> QED
    BY <1>6, <2>1, <2>3, <2>6, PlainStep, IdleType DEF Write, RekeySteps, IInv
<1>7. CASE Remove(g)
  <2>1. (\A h \in Procs : ~ Rekeying(h)) /\ AtRest
    BY <1>7, Kinds, NoChange DEF Remove
  <2>2. head # NoKey /\ call[g].name \in Names
    BY <1>7, Kinds, CallType DEF Remove, IInv, CallInv
  <2>3. Go(g, Idle)
    BY <1>7 DEF Remove
  <2>4. Whole(live) /\ head = live.header
    BY <2>1, <2>2 DEF AtRest
  <2>5. live' = [live EXCEPT !.secrets = TRUE, !.recs[call[g].name] = NoRecord]
    BY <1>7, <2>4 DEF Remove, TypeInv, Place, Whole, Holds
  <2>6. Whole(live') /\ live'.header = live.header
    BY <2>2, <2>4, <2>5, WholeWrite, NothingType DEF NoRecord, TypeInv, Place
  <2>7. CallInv(g)' /\ AtRest'
    BY <1>7, <2>1, <2>2, <2>3, <2>4, <2>6, Others, IdleType DEF Remove, CallInv, AtRest, Busy, Whole, Holds
  <2> QED
    BY <1>7, <2>1, <2>3, <2>7, PlainStep, IdleType DEF Remove, RekeySteps, IInv
<1> QED
  BY <1>1, <1>2, <1>3, <1>4, <1>5, <1>6, <1>7

\* Without a vault open, no call is busy.
LEMMA ClosedIdle ==
    ASSUME IInv, head = NoKey
    PROVE  (\A h \in Procs : ~ Busy(h) /\ ~ Rekeying(h)) /\ AtRest
  BY Kinds DEF IInv, CallInv

\* Create, open, lock and crash.
LEMMA OwnerInv ==
    ASSUME TypeInv, IInv, Undisturbed, Create \/ Open \/ Lock \/ Crash
    PROVE  IInv'
<1>1. CASE Create
  <2>1. (\A h \in Procs : ~ Busy(h) /\ ~ Rekeying(h)) /\ AtRest
    BY <1>1, ClosedIdle DEF Create
  <2>2. live = Nothing /\ keys = 0
    BY <1>1, <2>1 DEF Create, AtRest, Whole
  <2>3. keys' = 1 /\ live' = [header |-> 1, secrets |-> TRUE, recs |-> NoRecords]
    <3>1. keys' = 1 /\ live' = [live EXCEPT !.header = keys', !.secrets = TRUE]
      BY <1>1, <2>2 DEF Create
    <3> QED
      BY <2>2, <3>1 DEF Nothing
  <2>4. Whole(live')
    BY <2>3 DEF Whole, Holds, NoRecords, NoRecord, NoKey
  <2>5. AtRest'
    BY <1>1, <2>3, <2>4 DEF Create, AtRest, Whole, Holds
  <2>6. \A h \in Procs : ~ Rekeying(h)' /\ CallInv(h)'
    BY <1>1, <2>1, Kinds DEF Create, Rekeying, CallInv, Busy
  <2> QED
    BY <1>1, <2>5, <2>6 DEF Create, IInv
<1>2. CASE Open
  <2>1. (\A h \in Procs : ~ Busy(h) /\ ~ Rekeying(h)) /\ AtRest
    BY <1>2, ClosedIdle DEF Open
  <2>2. AtRest'
    BY <1>2, <2>1 DEF Open, disk, AtRest, Nothing, Whole, Holds
  <2>3. \A h \in Procs : ~ Rekeying(h)' /\ CallInv(h)'
    BY <1>2, <2>1, Kinds DEF Open, Rekeying, CallInv, Busy
  <2> QED
    BY <1>2, <2>2, <2>3 DEF Open, IInv
<1>3. CASE Lock
  <2>1. ASSUME NEW h \in Procs
        PROVE  /\ call'[h].step = call[h].step
               /\ call[h].step \notin {"list", "read"} => call'[h] = call[h]
               /\ call[h].step \in RekeySteps => call'[h].new = call[h].new
               /\ call[h].step \in {"list", "read"} => call'[h].key = Zeroed
               /\ call[h].step = "read" => call'[h].plain = call[h].plain /\ call'[h].todo = call[h].todo
    BY <1>3, ZeroedKeys DEF Lock, Undisturbed
  <2>2. \A h \in Procs : CallInv(h)'
    BY <1>3, <2>1 DEF Lock, IInv, CallInv, Busy
  <2>3. ASSUME NEW g \in Procs, Rekeying(g)'
        PROVE  RekeyInv(g)'
    <3>1. RekeyInv(g)
      BY <2>1, <2>3 DEF IInv, Rekeying
    <3>2. AloneInv(g)'
      BY <1>3, <2>1, <2>3, <3>1 DEF RekeyInv, AloneInv, Lock, Busy, Rekeying
    <3>3. ReadInv(g)'
      BY <1>3, <2>1, <2>3, <3>1 DEF RekeyInv, ReadInv, Lock, disk, Rekeying, Whole, Holds
    <3>4. SwapInv(g)'
      BY <1>3, <2>1, <2>3, <3>1 DEF RekeyInv, SwapInv, Lock, disk, Rekeying, Whole, Holds
    <3> QED
      BY <3>2, <3>3, <3>4 DEF RekeyInv
  <2>4. (\A h \in Procs : ~ Rekeying(h)') => AtRest'
    BY <1>3, <2>1 DEF IInv, AtRest, Lock, disk, Rekeying, Whole, Holds
  <2> QED
    BY <1>3, <2>2, <2>3, <2>4 DEF Lock, IInv
<1>4. CASE Crash
  <2>1. \A h \in Procs : ~ Rekeying(h)' /\ CallInv(h)'
    BY <1>4, IdleType DEF Crash, Rekeying, RekeySteps, CallInv, Busy
  <2>2. Whole(live) /\ live.header <= keys
    <3>1. CASE \A h \in Procs : ~ Rekeying(h)
      BY <1>4, <3>1 DEF IInv, AtRest, Crash
    <3>2. ASSUME NEW g \in Procs, Rekeying(g)
          PROVE  Whole(live) /\ live.header <= keys
      <4>1. call[g].step \in RekeySteps \ {"oldheader", "new", "newheader"}
        BY <1>4, <3>2 DEF Crash, Undisturbed, Rekeying
      <4>2. RekeyInv(g)
        BY <3>2 DEF IInv
      <4> QED
        BY <4>1, <4>2 DEF RekeyInv, AloneInv, ReadInv, SwapInv, RekeySteps, TypeInv, Keys, NoKey
    <3> QED
      BY <3>1, <3>2
  <2>3. AtRest'
    BY <1>4, <2>2 DEF Crash, disk, AtRest, Whole, Holds
  <2> QED
    BY <1>4, <2>1, <2>3 DEF Crash, IInv
<1> QED
  BY <1>1, <1>2, <1>3, <1>4

\* The change of the password, up to the swap.
LEMMA ReadingInv ==
    ASSUME TypeInv, IInv, Undisturbed, NEW g \in Procs,
           \/ \E n \in Names : Read(g, n)
           \/ ChangePassword(g) \/ List(g) \/ Reseal(g) \/ Clear(g) \/ Stage(g)
    PROVE  IInv'
<1>1. CASE ChangePassword(g)
  <2>1. Quiet /\ held = head /\ head # NoKey
    BY <1>1 DEF ChangePassword, Start, Undisturbed, IInv
  <2>2. \A h \in Procs : ~ Rekeying(h)
    BY <2>1, Kinds DEF Quiet
  <2>3. Whole(live) /\ live.header = head /\ head <= keys
    BY <2>1, <2>2 DEF IInv, AtRest
  <2> DEFINE c == [step |-> "list", key |-> held, new |-> keys']
  <2>4. Go(g, c) /\ keys' = keys + 1
    BY <1>1 DEF ChangePassword, Start
  <2>5. call'[g] = c /\ \A h \in Procs \ {g} : ~ Busy(h)' /\ ~ Rekeying(h)'
    BY <2>1, <2>2, <2>4, Others DEF Quiet, Busy, Rekeying
  <2>6. RekeyInv(g)'
    BY <1>1, <2>1, <2>3, <2>4, <2>5
       DEF RekeyInv, AloneInv, ReadInv, SwapInv, ChangePassword, disk, TypeInv, Keys, NoKey, Whole, Holds
  <2>7. \A h \in Procs : CallInv(h)'
    BY <1>1, <2>1, <2>5 DEF CallInv, Busy, ChangePassword
  <2>8. Rekeying(g)'
    BY <2>5 DEF Rekeying, RekeySteps
  <2> QED
    BY <1>1, <2>1, <2>5, <2>6, <2>7, <2>8 DEF IInv, ChangePassword
<1>2. CASE List(g)
  <2> DEFINE c == [step |-> "read", key |-> call[g].key, new |-> call[g].new,
                   plain |-> [m \in Names |-> 0],
                   todo |-> {m \in Names : live.recs[m] # NoRecord}]
  <2>1. Rekeying(g) /\ RekeyInv(g)
    BY <1>2 DEF List, IInv, Rekeying, RekeySteps
  <2>2. Go(g, c) /\ call'[g] = c
    BY <1>2, Others DEF List
  <2>3. ReadInv(g)'
    BY <1>2, <2>1, <2>2 DEF RekeyInv, ReadInv, List, disk, Whole, Holds, NoRecord
  <2>4. SwapInv(g)'
    BY <2>2 DEF SwapInv
  <2> QED
    BY <1>2, <2>1, <2>2, <2>3, <2>4, ChangeStep DEF List, RekeySteps
<1>3. ASSUME NEW n \in Names, Read(g, n)
      PROVE  IInv'
  <2> DEFINE rec == live.recs[n]
             c == [step |-> "read", key |-> call[g].key, new |-> call[g].new,
                   plain |-> [call[g].plain EXCEPT ![n] = rec.value], todo |-> call[g].todo \ {n}]
  <2>1. Rekeying(g) /\ RekeyInv(g) /\ call[g].plain \in [Names -> {0} \cup Values]
    BY <1>3, CallType DEF Read, IInv, Rekeying, RekeySteps
  <2>2. CASE rec # NoRecord /\ rec.key = call[g].key
    <3>1. Go(g, c) /\ call'[g] = c
      BY <1>3, <2>2, Others DEF Read
    <3>2. ReadInv(g)'
      BY <1>3, <2>1, <3>1 DEF RekeyInv, ReadInv, Read, disk, Whole, Holds
    <3>3. SwapInv(g)'
      BY <3>1 DEF SwapInv
    <3> QED
      BY <1>3, <2>1, <3>1, <3>2, <3>3, ChangeStep DEF Read, RekeySteps
  <2>3. CASE ~ (rec # NoRecord /\ rec.key = call[g].key)
    <3>1. Go(g, Idle)
      BY <1>3, <2>3 DEF Read
    <3>2. AtRest'
      BY <1>3, <2>1 DEF RekeyInv, AloneInv, ReadInv, Read, disk, AtRest, Whole, Holds, TypeInv, Keys, NoKey
    <3> QED
      BY <1>3, <2>1, <3>1, <3>2, ChangeEnd DEF Read
  <2> QED
    BY <2>2, <2>3
<1>4. CASE Reseal(g)
  <2> DEFINE c == [step |-> "clear", new |-> call[g].new, plain |-> call[g].plain]
  <2>1. Rekeying(g) /\ RekeyInv(g)
    BY <1>4 DEF Reseal, IInv, Rekeying, RekeySteps
  <2>2. Go(g, c) /\ call'[g] = c
    BY <1>4, Others DEF Reseal
  <2>3. ReadInv(g)'
    BY <1>4, <2>1, <2>2 DEF RekeyInv, ReadInv, Reseal, disk, Whole, Holds
  <2>4. SwapInv(g)'
    BY <2>2 DEF SwapInv
  <2> QED
    BY <1>4, <2>1, <2>2, <2>3, <2>4, ChangeStep DEF Reseal, RekeySteps
<1>5. CASE Clear(g)
  <2> DEFINE c == [step |-> "stage", new |-> call[g].new, plain |-> call[g].plain]
  <2>1. Rekeying(g) /\ RekeyInv(g)
    BY <1>5 DEF Clear, IInv, Rekeying, RekeySteps
  <2>2. Go(g, c) /\ call'[g] = c
    BY <1>5, Others DEF Clear
  <2>3. ReadInv(g)'
    BY <1>5, <2>1, <2>2 DEF RekeyInv, ReadInv, Clear, Whole, Holds
  <2>4. SwapInv(g)'
    BY <2>2 DEF SwapInv
  <2> QED
    BY <1>5, <2>1, <2>2, <2>3, <2>4, ChangeStep DEF Clear, RekeySteps
<1>6. CASE Stage(g)
  <2> DEFINE c == [step |-> "old", new |-> call[g].new]
  <2>1. Rekeying(g) /\ RekeyInv(g) /\ call[g].plain \in [Names -> {0} \cup Values]
    BY <1>6, CallType DEF Stage, IInv, Rekeying, RekeySteps
  <2>2. Go(g, c) /\ call'[g] = c
    BY <1>6, Others DEF Stage
  <2>3. Sealed(call[g].new, call[g].plain) = Resealed(call[g].new, live.recs)
    <3>1. \A m \in Names : call[g].plain[m] = live.recs[m].value /\ live.recs[m] \in Records
      BY <1>6, <2>1 DEF RekeyInv, ReadInv, Stage, TypeInv, Place
    <3>2. \A m \in Names : live.recs[m].value = 0 <=> live.recs[m] = NoRecord
      BY <3>1 DEF Records, NoRecord, Values
    <3> QED
      BY <3>1, <3>2 DEF Sealed, Resealed
  <2>4. ReadInv(g)'
    BY <1>6, <2>1, <2>2, <2>3 DEF RekeyInv, ReadInv, Stage, Copy, Whole, Holds
  <2>5. SwapInv(g)'
    BY <2>2 DEF SwapInv
  <2> QED
    BY <1>6, <2>1, <2>2, <2>4, <2>5, ChangeStep DEF Stage, RekeySteps
<1> QED
  BY <1>1, <1>2, <1>3, <1>4, <1>5, <1>6

\* A copy under key k opens with k.
LEMMA CopyHolds ==
    ASSUME NEW k, NEW recs
    PROVE  Holds(Copy(k, recs), k)
  BY DEF Holds, Copy, Resealed, NoRecord

\* What is left of the live files when the new secrets are thrown away.
LEMMA Emptied ==
    ASSUME TypeInv, live.header = NoKey, NEW l, l = [live EXCEPT !.secrets = FALSE, !.recs = NoRecords]
    PROVE  l = Nothing
  BY DEF Nothing, TypeInv, Place

\* A failed rename after the first one: restore() leaves the old vault, whole.
LEMMA RestoreWhole ==
    ASSUME NEW k \in Keys, backup \in Place, Holds(backup, k), NEW l \in Place, l.recs = NoRecords,
           \/ l.header = k /\ backup.header = NoKey
           \/ l.header = NoKey /\ backup.header = k,
           Restore(l)
    PROVE  Whole(live') /\ live'.header = k /\ live'.recs = backup.recs
<1>1. live' = [header |-> k, secrets |-> TRUE, recs |-> backup.recs]
  BY DEF Restore, Holds, Place, NoKey, Keys
<1> QED
  BY <1>1 DEF Whole, Holds, Keys, NoKey

\* The swap, step by step and undone.
LEMMA SwappingInv ==
    ASSUME TypeInv, IInv, Undisturbed, NEW g \in Procs,
           MoveOld(g) \/ MoveOldHeader(g) \/ MoveNew(g) \/ MoveNewHeader(g) \/ Clean(g) \/ Undo(g)
    PROVE  IInv'
<1>0. Rekeying(g) /\ RekeyInv(g) /\ head \in Keys /\ head <= keys /\ call[g].new \in Keys
  <2>1. Rekeying(g)
    BY DEF MoveOld, MoveOldHeader, MoveNew, MoveNewHeader, Clean, Undo, Rekeying, RekeySteps
  <2>2. RekeyInv(g) /\ head # NoKey
    BY <2>1, Kinds DEF IInv, CallInv
  <2> QED
    BY <2>1, <2>2, CallType DEF RekeyInv, AloneInv, TypeInv, Keys, Rekeying
<1> DEFINE c(s) == [step |-> s, new |-> call[g].new]
<1>1. CASE MoveOld(g)
  <2>1. Go(g, c("oldheader")) /\ call'[g] = c("oldheader")
    BY <1>1, Others DEF MoveOld, Advance
  <2>2. live.header = head /\ Holds(live, head) /\ backup = Nothing /\ stage = Copy(call[g].new, live.recs)
    BY <1>0, <1>1 DEF MoveOld, RekeyInv, ReadInv, Whole
  <2>3. /\ live' = [header |-> head, secrets |-> FALSE, recs |-> NoRecords]
        /\ backup' = [header |-> NoKey, secrets |-> TRUE, recs |-> live.recs]
    BY <1>1, <2>2 DEF MoveOld, Nothing, TypeInv, Place, Holds
  <2>4. Holds(backup', head)
    BY <2>2, <2>3 DEF Holds
  <2>5. head' = head /\ stage' = Copy(call[g].new, backup'.recs)
    BY <1>1, <2>2, <2>3 DEF MoveOld, Advance
  <2>6. SwapInv(g)'
    BY <2>1, <2>3, <2>4, <2>5 DEF SwapInv, Copy, Resealed, Holds
  <2>7. ReadInv(g)'
    BY <2>1 DEF ReadInv
  <2> QED
    BY <1>0, <1>1, <2>1, <2>6, <2>7, ChangeStep DEF MoveOld, Advance, RekeySteps
<1>2. CASE MoveOldHeader(g)
  <2>1. Go(g, c("new")) /\ call'[g] = c("new")
    BY <1>2, Others DEF MoveOldHeader, Advance
  <2>2. /\ live = [header |-> head, secrets |-> FALSE, recs |-> NoRecords] /\ Holds(backup, head)
        /\ stage = Copy(call[g].new, backup.recs)
    BY <1>0, <1>2 DEF MoveOldHeader, RekeyInv, SwapInv
  <2>3. live' = Nothing /\ backup'.header = head /\ backup'.secrets = backup.secrets /\ backup'.recs = backup.recs
    BY <1>2, <2>2 DEF MoveOldHeader, Nothing, TypeInv, Place
  <2>4. Holds(backup', head)
    BY <2>2, <2>3 DEF Holds
  <2>5. head' = head /\ stage' = Copy(call[g].new, backup'.recs)
    BY <1>2, <2>2, <2>3 DEF MoveOldHeader, Advance
  <2>6. SwapInv(g)'
    BY <2>1, <2>3, <2>4, <2>5 DEF SwapInv, Copy, Resealed, Holds, Nothing, NoRecords
  <2>7. ReadInv(g)'
    BY <2>1 DEF ReadInv
  <2> QED
    BY <1>0, <1>2, <2>1, <2>6, <2>7, ChangeStep DEF MoveOldHeader, Advance, RekeySteps
<1>3. CASE MoveNew(g)
  <2>1. Go(g, c("newheader")) /\ call'[g] = c("newheader")
    BY <1>3, Others DEF MoveNew, Advance
  <2>2. /\ live = Nothing /\ Holds(backup, head) /\ backup.header = head
        /\ stage = Copy(call[g].new, backup.recs)
    BY <1>0, <1>3 DEF MoveNew, RekeyInv, SwapInv
  <2>3. /\ live' = [header |-> NoKey, secrets |-> TRUE, recs |-> Resealed(call[g].new, backup.recs)]
        /\ stage'.header = call[g].new
    <3>1. stage.recs = Resealed(call[g].new, backup.recs) /\ stage.header = call[g].new
      BY <2>2 DEF Copy
    <3>2. live' = [live EXCEPT !.secrets = TRUE, !.recs = stage.recs]
      BY <1>3 DEF MoveNew
    <3>3. live' = [header |-> NoKey, secrets |-> TRUE, recs |-> stage.recs]
      BY <2>2, <3>2 DEF Nothing
    <3>4. stage'.header = stage.header
      BY <1>3 DEF MoveNew, TypeInv, Place
    <3> QED
      BY <3>1, <3>3, <3>4
  <2>4. head' = head /\ backup' = backup
    BY <1>3 DEF MoveNew, Advance
  <2>6. SwapInv(g)'
    BY <2>1, <2>2, <2>3, <2>4 DEF SwapInv, Holds, Resealed
  <2>5. ReadInv(g)'
    BY <2>1 DEF ReadInv
  <2> QED
    BY <1>0, <1>3, <2>1, <2>5, <2>6, ChangeStep DEF MoveNew, Advance, RekeySteps
<1>4. CASE MoveNewHeader(g)
  <2>1. Go(g, c("clean")) /\ call'[g] = c("clean")
    BY <1>4, Others DEF MoveNewHeader, Advance
  <2>2. /\ live = [header |-> NoKey, secrets |-> TRUE, recs |-> Resealed(call[g].new, backup.recs)]
        /\ stage.header = call[g].new
    BY <1>0, <1>4 DEF MoveNewHeader, RekeyInv, SwapInv
  <2>3. live' = Copy(call[g].new, backup.recs)
    BY <1>4, <2>2 DEF MoveNewHeader, Copy
  <2>4. Whole(live') /\ live'.header = call[g].new
    BY <1>0, <2>3, CopyHolds DEF Whole, Copy, Keys, NoKey
  <2>5. SwapInv(g)'
    BY <2>1, <2>4 DEF SwapInv, Whole, Holds
  <2>6. ReadInv(g)'
    BY <2>1 DEF ReadInv
  <2> QED
    BY <1>0, <1>4, <2>1, <2>5, <2>6, ChangeStep DEF MoveNewHeader, Advance, RekeySteps
<1>5. CASE Clean(g)
  <2>1. Go(g, c("install")) /\ call'[g] = c("install")
    BY <1>5, Others DEF Clean, Advance
  <2>2. SwapInv(g)' /\ ReadInv(g)'
    BY <1>0, <1>5, <2>1 DEF RekeyInv, SwapInv, ReadInv, Clean, Whole, Holds
  <2> QED
    BY <1>0, <1>5, <2>1, <2>2, ChangeStep DEF Clean, Advance, RekeySteps
<1>6. CASE Undo(g)
  <2>1. Whole(live') /\ live'.header = head
    <3>1. CASE call[g].step = "old"
      BY <1>0, <1>6, <3>1 DEF Undo, RekeyInv, ReadInv, Whole, Holds
    <3>2. CASE call[g].step = "oldheader"
      BY <1>0, <1>6, <3>2, RestoreWhole DEF Undo, RekeyInv, SwapInv, TypeInv, Nothing
    <3>3. CASE call[g].step = "new"
      BY <1>0, <1>6, <3>3, RestoreWhole DEF Undo, RekeyInv, SwapInv, TypeInv, Nothing
    <3>4. CASE call[g].step = "newheader"
      <4> DEFINE l == [live EXCEPT !.secrets = FALSE, !.recs = NoRecords]
      <4>1. live.header = NoKey
        BY <1>0, <3>4 DEF RekeyInv, SwapInv
      <4>2. l = Nothing
        BY <4>1, Emptied, Zenon
      <4> QED
        BY <1>0, <1>6, <3>4, <4>2, NothingType, RestoreWhole DEF Undo, RekeyInv, SwapInv, TypeInv, Nothing
    <3> QED
      BY <1>6, <3>1, <3>2, <3>3, <3>4 DEF Undo, Undisturbed
  <2>2. AtRest'
    BY <1>0, <1>6, <2>1 DEF Undo, AtRest, Whole, Holds
  <2> QED
    BY <1>0, <1>6, <2>2, ChangeEnd DEF Undo
<1> QED
  BY <1>1, <1>2, <1>3, <1>4, <1>5, <1>6

\* The new key is installed, or a call is given up.
LEMMA EndingInv ==
    ASSUME TypeInv, IInv, NEW g \in Procs, Install(g) \/ GiveUp(g)
    PROVE  IInv'
<1>1. CASE Install(g)
  <2>1. Rekeying(g) /\ RekeyInv(g) /\ call[g].new \in Keys
    BY <1>1, CallType DEF Install, IInv, Rekeying, RekeySteps
  <2>2. \A h \in Procs : call'[h].step = "idle"
    BY <1>1, <2>1, ZeroedKeys, ZeroedType, IdleType DEF Install, RekeyInv, AloneInv, Busy
  <2>3. \A h \in Procs : ~ Rekeying(h)' /\ CallInv(h)'
    BY <2>2 DEF Rekeying, RekeySteps, CallInv, Busy
  <2>4. AtRest'
    BY <1>1, <2>1 DEF Install, RekeyInv, AloneInv, SwapInv, AtRest, disk, Whole, Holds, TypeInv
  <2> QED
    BY <1>1, <2>3, <2>4 DEF Install, IInv
<1>2. CASE GiveUp(g)
  <2>1. Go(g, Idle)
    BY <1>2 DEF GiveUp
  <2>2. CASE Rekeying(g)
    <3>1. AtRest'
      BY <1>2, <2>2 DEF GiveUp, IInv, RekeyInv, AloneInv, ReadInv, AtRest, disk, Whole, Holds, TypeInv,
             Keys, NoKey, Rekeying, RekeySteps
    <3> QED
      BY <1>2, <2>1, <2>2, <3>1, ChangeEnd DEF GiveUp
  <2>3. CASE ~ Rekeying(g)
    <3>1. (\A h \in Procs : ~ Rekeying(h)) /\ AtRest
      BY <1>2, <2>3, NoChange DEF GiveUp, Busy
    <3>2. CallInv(g)' /\ AtRest'
      BY <1>2, <2>1, <3>1, Others, IdleType DEF GiveUp, disk, CallInv, Busy, AtRest, Whole, Holds
    <3> QED
      BY <1>2, <2>1, <3>1, <3>2, PlainStep, IdleType DEF GiveUp, RekeySteps, IInv
  <2> QED
    BY <2>2, <2>3
<1> QED
  BY <1>1, <1>2

LEMMA InvStep ==
    ASSUME TypeInv, IInv, Undisturbed, [Next]_vars
    PROVE  IInv'
<1>1. CASE Next
  BY <1>1, NextCases, OwnerInv, PlainInv, ReadingInv, SwappingInv, EndingInv
<1>2. CASE UNCHANGED vars
  BY <1>2 DEF vars, disk, IInv, CallInv, RekeyInv, AloneInv, ReadInv, SwapInv, AtRest, Busy, Rekeying,
              Whole, Holds
<1> QED
  BY <1>1, <1>2

\* The invariant, when a change of the password is alone and no crash falls into its swap.
THEOREM Invariance ==
    ASSUME Undisturbed
    PROVE  Spec => [](TypeInv /\ IInv)
<1>1. Init => IInv
  BY InvInit
<1>2. TypeInv /\ IInv /\ [Next]_vars => IInv'
  BY InvStep
<1> QED
  BY <1>1, <1>2, TypeCorrect, PTL DEF Spec

\* An unlocked vault has the key its files are under, whatever was changed before.
THEOREM HeldOpensAlways ==
    ASSUME Undisturbed
    PROVE  Spec => []HeldOpens
<1>1. IInv => HeldOpens
  <2> SUFFICES ASSUME IInv, Quiet, held # NoKey
               PROVE  held = live.header /\ head = held
    BY DEF HeldOpens
  <2>1. AtRest
    BY Kinds DEF IInv, Quiet
  <2> QED
    BY <2>1 DEF IInv, AtRest
<1> QED
  BY <1>1, Invariance, PTL

\* What a crash outside the swap leaves is a header with its records.
THEOREM CrashSafe ==
    ASSUME Undisturbed
    PROVE  Spec => []CrashLeavesAVault
<1>1. IInv => CrashLeavesAVault
  <2> SUFFICES ASSUME IInv, head = NoKey, keys > 0
               PROVE  live.header # NoKey /\ live.secrets
    BY DEF CrashLeavesAVault
  <2>1. AtRest
    BY ClosedIdle
  <2> QED
    BY <2>1 DEF AtRest, Whole, Holds
<1> QED
  BY <1>1, Invariance, PTL

----------------------------------------------------------------------------
(* The vault implements the store *)

\* The values of recs.
ValuesOf(recs) == [n \in Names |-> recs[n].value]

\* The records of the vault open with its key: what the store maps is their values.
LEMMA SecretsAre ==
    ASSUME NEW k, k = CurrentHeader, k # NoKey, NEW recs \in [Names -> Records], recs = CurrentRecs,
           \A n \in Names : recs[n].key \in {NoKey, k}
    PROVE  [n \in Names |-> Shown(CurrentRecs[n])] = ValuesOf(recs)
<1>1. ASSUME NEW n \in Names
      PROVE  Shown(recs[n]) = recs[n].value
  BY <1>1 DEF Shown, Records, NoRecord, Keys, Zeroed, NoKey
<1> QED
  BY <1>1 DEF ValuesOf

\* A whole vault is in the live files.
LEMMA CurrentWhole ==
    ASSUME TypeInv, Whole(live)
    PROVE  /\ CurrentHeader = live.header /\ CurrentRecs = live.recs
           /\ [n \in Names |-> Shown(CurrentRecs[n])] = ValuesOf(live.recs)
<1>1. CurrentHeader = live.header /\ CurrentRecs = live.recs
  BY DEF CurrentHeader, CurrentRecs, Whole, Holds
<1>2. live.recs \in [Names -> Records]
  BY DEF TypeInv, Place
<1> QED
  BY <1>1, <1>2, SecretsAre DEF Whole, Holds

\* A step that moves files and changes none of them is no step of the store.
LEMMA Stutter ==
    ASSUME CurrentHeader' = CurrentHeader, CurrentRecs' = CurrentRecs
    PROVE  UNCHANGED Store!vars
  BY DEF Store!vars, Shown

LEMMA InitStore == Init => Store!Init
  BY DEF Init, Store!Init, CurrentHeader, CurrentRecs, Shown, Nothing, NoRecords, NoKey

\* Where the vault is at every step of a change of the password.
LEMMA Located ==
    ASSUME TypeInv, IInv, NEW g \in Procs, Rekeying(g)
    PROVE  /\ head \in Keys /\ call[g].new \in Keys /\ head < call[g].new
           /\ call[g].step \in {"clear", "stage", "old", "clean", "install"} => Whole(live)
           /\ call[g].step \in {"old", "oldheader", "new", "newheader"} => CurrentHeader = head
           /\ call[g].step = "old" => CurrentRecs = live.recs
           /\ call[g].step \in {"oldheader", "new", "newheader"} =>
                 CurrentRecs = backup.recs /\ Holds(backup, head) /\ backup.recs \in [Names -> Records]
<1>1. RekeyInv(g) /\ head # NoKey
  BY Kinds DEF IInv, CallInv
<1>2. call[g].new \in Keys /\ head \in Keys
  BY <1>1, CallType DEF Rekeying, TypeInv
<1>3. CASE call[g].step \in {"clear", "stage", "old", "clean", "install", "list", "read"}
  BY <1>1, <1>2, <1>3, CurrentWhole DEF RekeyInv, AloneInv, ReadInv, SwapInv
<1>4. CASE call[g].step \in {"oldheader", "new", "newheader"}
  BY <1>1, <1>2, <1>4 DEF RekeyInv, AloneInv, SwapInv, CurrentHeader, CurrentRecs, Nothing, TypeInv,
                             Place, Keys, NoKey
<1> QED
  BY <1>1, <1>2, <1>3, <1>4 DEF RekeyInv, AloneInv, Rekeying, RekeySteps

\* A write of one name is a Put of it or a Drop.
LEMMA WriteIsPut ==
    ASSUME TypeInv, Whole(live), NEW n \in Names, NEW rec \in Records,
           rec.key \in {NoKey, live.header},
           live' = [live EXCEPT !.secrets = TRUE, !.recs[n] = rec], backup' = backup
    PROVE  Store!Put \/ Store!Drop
<1>1. live' = [header |-> live.header, secrets |-> TRUE, recs |-> [live.recs EXCEPT ![n] = rec]]
  BY DEF TypeInv, Place
<1>2. live.recs \in [Names -> Records] /\ live.header \in Keys
  BY DEF TypeInv, Place, Whole
<1>3. CurrentHeader = live.header /\ CurrentHeader' = live.header /\ CurrentHeader # 0
  BY <1>1, CurrentWhole DEF CurrentHeader, Whole, NoKey
<1>4. [m \in Names |-> Shown(CurrentRecs[m])] = ValuesOf(live.recs)
  BY CurrentWhole
<1>5. [m \in Names |-> Shown(CurrentRecs[m])]' = [ValuesOf(live.recs) EXCEPT ![n] = rec.value]
  <2>1. CurrentRecs' = [live.recs EXCEPT ![n] = rec]
    BY <1>1, <1>3 DEF CurrentRecs, Whole
  <2>2. ASSUME NEW m \in Names
        PROVE  Shown(CurrentRecs[m])' = IF m = n THEN rec.value ELSE live.recs[m].value
    BY <1>2, <1>3, <2>1 DEF Shown, Whole, Holds, Records, NoRecord, Keys, Zeroed, NoKey
  <2> QED
    BY <2>2 DEF ValuesOf
<1>6. rec.value = 0 \/ rec.value \in Values
  BY DEF Records, NoRecord
<1>7. CASE rec.value = 0
  BY <1>3, <1>4, <1>5, <1>7 DEF Store!Drop
<1>8. CASE rec.value \in Values
  BY <1>3, <1>4, <1>5, <1>8 DEF Store!Put
<1> QED
  BY <1>6, <1>7, <1>8

\* Every step of the vault is a step of the store or none.
LEMMA StoreStep ==
    ASSUME TypeInv, IInv, TypeInv', IInv', Undisturbed, [Next]_vars
    PROVE  [Store!Next]_Store!vars
<1>1. CASE UNCHANGED disk
  BY <1>1, Stutter DEF disk, CurrentHeader, CurrentRecs
<1>2. CASE Create
  <2>1. AtRest /\ live = Nothing /\ backup = Nothing
    BY <1>2, ClosedIdle DEF Create, AtRest, Whole
  <2>2. keys' \in Keys /\ live' = [header |-> keys', secrets |-> TRUE, recs |-> NoRecords]
    <3>1. keys' = keys + 1 /\ live' = [live EXCEPT !.header = keys', !.secrets = TRUE] /\ keys < MaxKeys
      BY <1>2 DEF Create
    <3>2. keys' \in Keys
      BY <3>1, BoundsAssumption DEF TypeInv, Keys
    <3>3. live' = [header |-> keys', secrets |-> TRUE, recs |-> NoRecords]
      BY <2>1, <3>1 DEF Nothing
    <3> QED
      BY <3>2, <3>3
  <2>3. CurrentHeader = 0 /\ CurrentHeader' = keys' /\ CurrentRecs = NoRecords /\ CurrentRecs' = NoRecords
    BY <2>1, <2>2 DEF CurrentHeader, CurrentRecs, Nothing, NoKey, Keys
  <2>4. Store!Create
    BY <2>2, <2>3 DEF Store!Create, Shown, NoRecords
  <2> QED
    BY <2>4 DEF Store!Next
<1>3. ASSUME NEW g \in Procs, Write(g) \/ Remove(g)
      PROVE  Store!Next
  <2>1. Busy(g) /\ ~ Rekeying(g)
    BY <1>3, Kinds DEF Write, Remove
  <2>2. Whole(live) /\ head = live.header
    BY <2>1, NoChange DEF IInv, CallInv, AtRest
  <2>3. call[g].name \in Names
    BY <1>3, CallType DEF Write, Remove
  <2>4. CASE Write(g)
    BY <2>2, <2>3, <2>4, CallType, WriteIsPut DEF Write, Store!Next, IInv, CallInv
  <2>5. CASE Remove(g)
    <3>1. live' = [live EXCEPT !.secrets = TRUE, !.recs[call[g].name] = NoRecord]
      BY <2>2, <2>5 DEF Remove, TypeInv, Place, Whole, Holds
    <3> QED
      BY <2>2, <2>3, <2>5, <3>1, WriteIsPut, NothingType DEF Remove, Store!Next, NoRecord
  <2> QED
    BY <1>3, <2>4, <2>5
<1>4. ASSUME NEW g \in Procs, Clear(g) \/ Stage(g) \/ Clean(g)
      PROVE  UNCHANGED Store!vars
  <2>1. Whole(live) /\ live' = live
    BY <1>4, Located DEF Clear, Stage, Clean, Rekeying, RekeySteps
  <2> QED
    BY <2>1, Stutter DEF CurrentHeader, CurrentRecs, Whole, Holds
<1>5. ASSUME NEW g \in Procs, MoveOld(g) \/ MoveOldHeader(g) \/ MoveNew(g)
      PROVE  UNCHANGED Store!vars
  <2>1. Rekeying(g) /\ head' = head
    BY <1>5 DEF MoveOld, MoveOldHeader, MoveNew, Advance, Rekeying, RekeySteps
  <2>2. call'[g].step \in {"oldheader", "new", "newheader"} /\ Rekeying(g)'
    BY <1>5, Others DEF MoveOld, MoveOldHeader, MoveNew, Advance, Rekeying, RekeySteps
  <2>3. CurrentHeader = head /\ CurrentHeader' = head
    <3>1. CurrentHeader = head
      BY <1>5, <2>1, Located DEF MoveOld, MoveOldHeader, MoveNew
    <3>2. CurrentHeader' = head'
      BY <2>2 DEF IInv, RekeyInv, SwapInv, CurrentHeader, Nothing, NoKey, TypeInv
    <3> QED
      BY <2>1, <3>1, <3>2
  <2>4. CurrentRecs' = backup'.recs
    BY <2>2 DEF IInv, RekeyInv, SwapInv, CurrentRecs, Nothing, NoKey
  <2>5. CurrentRecs = backup'.recs
    BY <1>5, <2>1, Located DEF MoveOld, MoveOldHeader, MoveNew, TypeInv, Place
  <2> QED
    BY <2>3, <2>4, <2>5, Stutter
<1>6. ASSUME NEW g \in Procs, MoveNewHeader(g)
      PROVE  Store!ChangePassword
  <2>1. Rekeying(g) /\ RekeyInv(g) /\ head \in Keys /\ call[g].new \in Keys /\ head < call[g].new
    BY <1>6, Located DEF MoveNewHeader, Rekeying, RekeySteps, IInv
  <2>2. /\ CurrentHeader = head /\ CurrentRecs = backup.recs
        /\ Holds(backup, head) /\ backup.recs \in [Names -> Records]
    BY <1>6, <2>1, Located DEF MoveNewHeader
  <2>3. [n \in Names |-> Shown(CurrentRecs[n])] = ValuesOf(backup.recs)
    BY <2>1, <2>2, SecretsAre DEF Holds, Keys, NoKey
  <2>4. live' = Copy(call[g].new, backup.recs)
    <3>1. /\ live = [header |-> NoKey, secrets |-> TRUE, recs |-> Resealed(call[g].new, backup.recs)]
          /\ stage.header = call[g].new
      BY <1>6, <2>1 DEF MoveNewHeader, RekeyInv, SwapInv
    <3> QED
      BY <1>6, <3>1 DEF MoveNewHeader, Copy
  <2>5. CurrentHeader' = call[g].new /\ CurrentRecs' = Resealed(call[g].new, backup.recs)
    BY <2>1, <2>4 DEF CurrentHeader, CurrentRecs, Copy, Keys, NoKey
  <2>6. [n \in Names |-> Shown(CurrentRecs[n])]' = ValuesOf(backup.recs)
    <3>1. ASSUME NEW n \in Names
          PROVE  Shown(CurrentRecs[n])' = backup.recs[n].value
      BY <2>1, <2>2, <2>5 DEF Shown, Resealed, Records, NoRecord
    <3> QED
      BY <3>1 DEF ValuesOf
  <2> QED
    BY <2>1, <2>2, <2>3, <2>5, <2>6 DEF Store!ChangePassword, Keys
<1>7. ASSUME NEW g \in Procs, Undo(g)
      PROVE  UNCHANGED Store!vars
  <2>1. Rekeying(g) /\ RekeyInv(g) /\ head \in Keys
    BY <1>7, Located DEF Undo, Rekeying, RekeySteps, IInv
  <2>2. CASE call[g].step = "old"
    BY <1>7, <2>1, <2>2, Stutter DEF Undo, CurrentHeader, CurrentRecs
  <2>3. CASE call[g].step \in {"oldheader", "new", "newheader"}
    <3>1. CurrentHeader = head /\ CurrentRecs = backup.recs
      BY <2>1, <2>3, Located
    <3>2. Whole(live') /\ live'.header = head /\ live'.recs = backup.recs
      <4>1. CASE call[g].step \in {"oldheader", "new"}
        BY <1>7, <2>1, <4>1, RestoreWhole DEF Undo, RekeyInv, SwapInv, TypeInv, Nothing
      <4>2. CASE call[g].step = "newheader"
        <5> DEFINE l == [live EXCEPT !.secrets = FALSE, !.recs = NoRecords]
        <5>1. live.header = NoKey
          BY <2>1, <4>2 DEF RekeyInv, SwapInv
        <5>2. l = Nothing
          BY <5>1, Emptied, Zenon
        <5> QED
          BY <1>7, <2>1, <4>2, <5>2, NothingType, RestoreWhole DEF Undo, RekeyInv, SwapInv, TypeInv, Nothing
      <4> QED
        BY <2>3, <4>1, <4>2
    <3>3. CurrentHeader' = head /\ CurrentRecs' = backup.recs
      BY <3>2 DEF CurrentHeader, CurrentRecs, Whole, Holds
    <3> QED
      BY <3>1, <3>3, Stutter
  <2> QED
    BY <1>7, <2>2, <2>3 DEF Undo, Undisturbed
<1>8. CASE Next
  <2>1. \/ UNCHANGED disk
        \/ Create
        \/ \E g \in Procs : \/ Write(g) \/ Remove(g) \/ Clear(g) \/ Stage(g) \/ MoveOld(g) \/ MoveOldHeader(g)
                            \/ MoveNew(g) \/ MoveNewHeader(g) \/ Clean(g) \/ Undo(g)
    BY <1>8, NextCases DEF Open, Lock, Crash, Set, Delete, Read, Unlock, Unlocked, Seal, ChangePassword, List,
                           Reseal, Install, GiveUp
  <2> QED
    BY <1>1, <1>2, <1>3, <1>4, <1>5, <1>6, <1>7, <2>1 DEF Store!Next
<1> QED
  BY <1>1, <1>8 DEF vars, disk

\* A vault whose changes of the password run alone and are not cut off in the swap
\* is a store: no secret is lost, revived or garbled, by any step.
THEOREM Implements ==
    ASSUME Undisturbed
    PROVE  Spec => IsStore
<1>1. Init => Store!Init
  BY InitStore
<1>2. TypeInv /\ IInv /\ (TypeInv /\ IInv)' /\ [Next]_vars => [Store!Next]_Store!vars
  BY StoreStep
<1> QED
  BY <1>1, <1>2, Invariance, PTL DEF Spec, IsStore, Store!Spec
=============================================================================
