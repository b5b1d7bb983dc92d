---------------------------- MODULE ConfigProofs ----------------------------
(***************************************************************************)
(* Proofs about the profiles and the manager that caches the active one,   *)
(* for any profiles, folders, templates, goroutines and number of calls.   *)
(***************************************************************************)
EXTENDS Config, SequenceTheorems, TLAPS

\* What the run config says of the world, where not even a seed meets another call: only
\* these steps fail, and of the meetings the code does not survive at most that one happens.
Undisturbed ==
    /\ Exposed \subseteq {"seed"}
    /\ Failures \subseteq {"read", "write", "point", "copy", "list", "migrate", "resolve"}

\* Under it what is there is found.
LEMMA NothingMissed ==
    ASSUME Undisturbed
    PROVE  Missed = {FALSE}
BY DEF Undisturbed, Missed

----------------------------------------------------------------------------
(* The steps a call has still to make *)

\* Before the first b, if there is one, s has an a.
First(s, a, b) == \E i \in 1 .. Len(s) : s[i] = a /\ \A j \in 1 .. (i - 1) : s[j] # b

Kinds == {"none", "boot", "load", "update", "folder", "history", "switch", "list",
          "create", "remove", "import", "delete"}

Steps == {"migrate", "unlegacy", "resolve", "ensure", "look", "read", "keep", "sync", "build", "seed",
          "lock", "write", "swap", "unlock", "snapshot", "point", "turn", "list", "scoped",
          "create", "erase", "copy", "parse", "fill", "forget", "check", "discard"}

\* The steps calls of a kind are made of.
Makes(k, x) ==
    CASE k = "import" -> x \in {"copy", "parse", "fill", "forget"}
      [] k = "delete" -> x \in {"check", "discard"}
      [] OTHER -> \/ x \in {"lock", "look", "read", "keep", "sync", "write", "swap", "unlock"}
                  \/ k = "boot" /\ x \in {"migrate", "unlegacy", "resolve", "ensure", "build", "seed"}
                  \/ k = "switch" /\ x \in {"point", "turn", "ensure", "seed"}
                  \/ k = "history" /\ x = "snapshot"
                  \/ k \in {"list", "remove"} /\ x \in {"list", "scoped"}
                  \/ k = "create" /\ x = "create"
                  \/ k = "remove" /\ x = "erase"

\* y comes next after x.
Follows(x, y) ==
    \/ x = "lock"     /\ y \in {"look", "point"}
    \/ x = "look"     /\ y = "read"
    \/ x = "read"     /\ y = "keep"
    \/ x = "keep"     /\ y = "sync"
    \/ x = "sync"     /\ y \in {"write", "unlock", "build", "seed", "scoped", "snapshot"}
    \/ x = "write"    /\ y = "swap"
    \/ x = "swap"     /\ y = "sync"
    \/ x = "unlock"   /\ y = "look"
    \/ x = "point"    /\ y = "turn"
    \/ x = "turn"     /\ y = "ensure"
    \/ x = "ensure"   /\ y \in {"unlock", "look"}
    \/ x = "migrate"  /\ y = "unlegacy"
    \/ x = "unlegacy" /\ y = "resolve"
    \/ x = "resolve"  /\ y = "ensure"
    \/ x = "build"    /\ y = "look"
    \/ x = "seed"     /\ y = "look"
    \/ x = "snapshot" /\ y = "lock"
    \/ x = "list"     /\ y \in {"look", "lock"}
    \/ x = "scoped"   /\ y \in {"lock", "list"}
    \/ x = "create"   /\ y = "lock"
    \/ x = "erase"    /\ y = "look"
    \/ x = "copy"     /\ y = "parse"
    \/ x = "parse"    /\ y = "fill"
    \/ x = "fill"     /\ y = "forget"
    \/ x = "check"    /\ y = "discard"

Ends == {"sync", "unlock", "seed", "forget", "discard"}

\* The steps of a call of kind k come in the code's order, what swaps the cache or turns
\* the manager to a profile goes on to unlock, and no lock is given back twice.
Links(k, s) ==
    /\ s \in Seq(Steps)
    /\ \A i \in 1 .. Len(s) : Makes(k, s[i])
    /\ \A i \in 1 .. (Len(s) - 1) : Follows(s[i], s[i + 1])
    /\ \A i \in 1 .. Len(s) : s[i] \in {"swap", "turn"} => i + 2 <= Len(s) /\ s[i + 2] = "unlock"
    /\ \A i, j \in 1 .. Len(s) : s[i] \in {"unlock", "seed"} /\ i < j => s[j] # "unlock"

Fit(k, s) == Links(k, s) /\ (s # <<>> => s[Len(s)] \in Ends)

\* g has the lock and will give it back.
Holds(g) == First(call[g].todo, "unlock", "lock")

----------------------------------------------------------------------------
(* The invariant *)

Patches ==
    [key : {"note", "history"}, to : 0 .. MaxCalls] \cup [key : {"folder"}, to : Folders]
    \cup [key : {"seed", "prune"}, to : SUBSET Templates]
    \cup [key : {"show", "hide", "enable"}, to : Templates]

Calls == [kind : Kinds, todo : Seq(Steps), to : Profiles \cup Templates \cup {None},
          patch : Patches, at : Profiles \cup {None}, got : Configs \cup {None}]

Stored == [Profiles -> Configs \cup {None, Malformed}]

TypeInv ==
    /\ disk \in Stored /\ due \in [Profiles -> Configs \cup {None}]
    /\ pointer \in Profiles \cup {None} /\ legacy \in Profiles \cup {None}
    /\ files \in [Folders -> SUBSET Templates]
    /\ path \in Profiles \cup {None} /\ cached \in Configs \cup {None}
    /\ updateMu \in Threads \cup {None}
    /\ follows \in Folders \cup {None} /\ root \in Folders \cup {None}
    /\ call \in [Threads -> Calls] /\ calls \in 0 .. MaxCalls
    /\ chosen \in Profiles /\ curated \in SUBSET Profiles

Solos == {"boot", "import", "delete", "history"}

\* What a call knows when it comes to a step.
Ready(g) ==
    /\ ~ Busy(g) => call[g] = Idle
    /\ Busy(g) => call[g].todo # <<>> /\ Fit(call[g].kind, call[g].todo)
    /\ \A x \in {"keep", "write", "swap", "sync", "seed", "scoped", "snapshot", "fill", "build"} :
          At(g, x) => call[g].got \in Configs
    /\ At(g, "read") \/ At(g, "keep") => call[g].at \in Profiles
    /\ ~ At(g, "read") /\ ~ At(g, "keep") => call[g].at = None
    /\ call[g].kind \in {"switch", "import", "delete"} => call[g].to \in Profiles
    /\ call[g].kind \in {"create", "remove"} => call[g].to \in Templates

\* The start of the program: until then there is no manager, and no application.
Starting(g) ==
    /\ Busy(g) /\ path = None => At(g, "migrate") \/ At(g, "unlegacy") \/ At(g, "resolve")
    /\ At(g, "migrate") \/ At(g, "unlegacy") \/ At(g, "resolve") => path = None
    /\ Busy(g) /\ root = None => call[g].kind = "boot" /\ First(call[g].todo, "build", "seed")

\* The types, and what belongs together.
TInv ==
    /\ TypeInv
    /\ \A g \in Threads : Ready(g) /\ Starting(g)
    /\ path = None => cached = None /\ root = None
    /\ root = None /\ path # None => ~ Idling

\* Who may run beside whom, and who has the lock.
XInv ==
    /\ \A g, h \in Threads : call[g].kind \in Solos /\ Busy(h) => g = h
    /\ \A g, h \in Threads : call[g].kind = "switch" /\ call[h].kind = "switch" => g = h
    /\ \A g \in Threads : Holds(g) => updateMu = g
    /\ \A g \in Threads : At(g, "sync") => Holds(g)

\* The profile chosen last is the one the pointer names, and its file stays readable.
AInv ==
    /\ IF pointer # None THEN pointer = chosen
       ELSE chosen = IF legacy = None THEN Default ELSE legacy
    /\ disk[chosen] # Malformed
    /\ ActiveStays
    /\ \A g \in Threads :
          /\ At(g, "unlegacy") => pointer # None \/ legacy = None
          /\ At(g, "resolve") => legacy = None
          /\ At(g, "turn") => chosen = call[g].to
          /\ At(g, "ensure") => path = chosen
          /\ At(g, "discard") => call[g].to # path
          /\ call[g].kind = "switch" => disk[call[g].to] # Malformed

\* What a call is about to write, keep or build is what the manager has.
JInv ==
    /\ root # None /\ cached # None => follows = cached.folder \/ \E g \in Threads : At(g, "sync")
    /\ \A g \in Threads :
          At(g, "write") \/ At(g, "sync") \/ At(g, "build") \/ At(g, "snapshot") => call[g].got = cached

Importing(p) == \E g \in Threads : call[g].to = p /\ (At(g, "parse") \/ At(g, "fill") \/ At(g, "forget"))

\* A file is what it should be, unless it is none.
Accounted == \A p \in Profiles : disk[p] = due[p] \/ (disk[p] = Malformed /\ due[p] = None)

\* The cache is the file, but between the two writes of an update and in an import.
NInv ==
    /\ Accounted
    /\ cached # None => cached = disk[path] \/ (\E g \in Threads : At(g, "swap")) \/ Importing(path)
    /\ \A g \in Threads :
          /\ At(g, "swap") => call[g].got = disk[path] /\ cached # None
          /\ At(g, "keep") /\ call[g].at = path /\ cached = None => call[g].got = disk[path]
          /\ At(g, "fill") => disk[call[g].to] \in Configs /\ call[g].got = parseUserConfig(disk[call[g].to])
          /\ call[g].patch.key = "history" =>
                /\ call[g].kind = "history" /\ cached # None /\ cached.note = call[g].patch.to
                /\ At(g, "swap") => call[g].got.note = call[g].patch.to

IInv == TInv /\ XInv /\ AInv /\ JInv /\ NInv

\* Patches that touch the list of templates, and the calls that carry them.
OnKeys == Picks \cup {"seed", "enable", "prune"}
Suits(kind, key) ==
    /\ key = "seed"   => kind \in {"boot", "switch"}
    /\ key = "prune"  => kind \in {"list", "remove"}
    /\ key = "enable" => kind = "create"
    /\ key = "folder" => kind = "folder"
    /\ key \in Picks  => kind = "update"

\* The steps that lead from the seed's update to the end of it.
Ahead == {"look", "read", "keep", "sync", "write", "swap", "unlock", "build", "seed"}
Seeding(g) == \/ call[g].todo # <<>> /\ Head(call[g].todo) \in Ahead
              \/ At(g, "lock") /\ call[g].todo[2] = "look"

\* What a call that touches the list of templates knows of the profile it is about.
Curating(g) ==
    /\ Suits(call[g].kind, call[g].patch.key)
    /\ call[g].kind \in Lists => disk[path] \in Configs /\ disk[path].folder = root
    /\ call[g].patch.key = "prune" => call[g].patch.to = files[root] /\ ~ At(g, "erase")
    /\ call[g].patch.key = "seed" =>
          Seeding(g) /\ disk[path] \in Configs /\ disk[path].on \in {Unset, call[g].patch.to}
    /\ At(g, "seed") => disk[path] \in Configs /\ call[g].got.on = disk[path].on
    /\ At(g, "swap") /\ call[g].patch.key \notin OnKeys => cached.on = disk[path].on

\* Who may touch the list beside whom.
Paired ==
    /\ \A g, h \in Threads : call[g].kind \in Lists /\ call[h].kind \in Lists \cup Moves => g = h
    /\ \A g, h \in Threads : call[g].patch.key \in Picks => call[h].kind # "switch"

CInv == Paired /\ \A g \in Threads : Curating(g)

----------------------------------------------------------------------------
(* Lemmas about sequences of steps *)

\* What is left after n steps.
LEMMA DropWhole ==
    ASSUME NEW s \in Seq(Steps), NEW n \in 0 .. Len(s)
    PROVE  /\ Drop(n, s) \in Seq(Steps)
           /\ Len(Drop(n, s)) = Len(s) - n
           /\ \A i \in 1 .. (Len(s) - n) : Drop(n, s)[i] = s[n + i]
<1>1. n + 1 \in 1 .. (Len(s) + 1) /\ Len(s) \in Nat
  OBVIOUS
<1>2. CASE n < Len(s)
  <2>1. n + 1 \in 1 .. Len(s) /\ Len(s) \in 1 .. Len(s)
    BY <1>2
  <2>2. /\ SubSeq(s, n + 1, Len(s)) \in Seq(Steps)
        /\ Len(SubSeq(s, n + 1, Len(s))) = Len(s) - n
    BY <2>1
  <2>3. ASSUME NEW i \in 1 .. (Len(s) - n) PROVE SubSeq(s, n + 1, Len(s))[i] = s[n + i]
    <3>1. i \in 1 .. ((Len(s) - (n + 1)) + 1) /\ ((n + 1) + i) - 1 = n + i
      BY <1>1
    <3>2. SubSeq(s, n + 1, Len(s))[i] = s[((n + 1) + i) - 1]
      BY <2>1, <3>1
    <3> QED BY <3>1, <3>2
  <2> QED BY <2>2, <2>3 DEF Drop
<1>3. CASE n = Len(s)
  BY <1>3 DEF Drop
<1> QED BY <1>2, <1>3

\* What is left of a call still fits its kind.
LEMMA DropFits ==
    ASSUME NEW k, NEW s, Fit(k, s), NEW n \in 0 .. Len(s)
    PROVE  Fit(k, Drop(n, s))
<1> DEFINE t == Drop(n, s)
<1>1. s \in Seq(Steps)
  BY DEF Fit, Links
<1>2. /\ t \in Seq(Steps)
      /\ Len(t) = Len(s) - n
      /\ \A i \in 1 .. (Len(s) - n) : t[i] = s[n + i]
  BY <1>1, DropWhole
<1> HIDE DEF t
<1>3. Len(s) \in Nat /\ Len(t) \in Nat /\ n \in Nat
  BY <1>1, <1>2
<1>4. \A i \in 1 .. Len(t) : n + i \in 1 .. Len(s) /\ t[i] = s[n + i]
  BY <1>2, <1>3
<1>5. \A i \in 1 .. Len(t) : Makes(k, t[i])
  BY <1>4 DEF Fit, Links
<1>6. \A i \in 1 .. (Len(t) - 1) : Follows(t[i], t[i + 1])
  <2> TAKE i \in 1 .. (Len(t) - 1)
  <2>1. i \in 1 .. Len(t) /\ i + 1 \in 1 .. Len(t) /\ n + i \in 1 .. (Len(s) - 1) /\ n + (i + 1) = (n + i) + 1
    BY <1>2, <1>3
  <2>2. Follows(s[n + i], s[(n + i) + 1])
    BY <2>1 DEF Fit, Links
  <2> QED BY <2>1, <2>2, <1>4
<1>7. \A i \in 1 .. Len(t) : t[i] \in {"swap", "turn"} => i + 2 <= Len(t) /\ t[i + 2] = "unlock"
  <2> SUFFICES ASSUME NEW i \in 1 .. Len(t), t[i] \in {"swap", "turn"}
               PROVE  i + 2 <= Len(t) /\ t[i + 2] = "unlock"
    OBVIOUS
  <2>1. (n + i) + 2 <= Len(s) /\ s[(n + i) + 2] = "unlock"
    BY <1>4 DEF Fit, Links
  <2>2. i + 2 \in 1 .. Len(t) /\ n + (i + 2) = (n + i) + 2
    BY <2>1, <1>2, <1>3
  <2> QED BY <2>1, <2>2, <1>4
<1>8. \A i, j \in 1 .. Len(t) : t[i] \in {"unlock", "seed"} /\ i < j => t[j] # "unlock"
  <2> SUFFICES ASSUME NEW i \in 1 .. Len(t), NEW j \in 1 .. Len(t), t[i] \in {"unlock", "seed"}, i < j
               PROVE  t[j] # "unlock"
    OBVIOUS
  <2>1. n + i \in 1 .. Len(s) /\ n + j \in 1 .. Len(s) /\ n + i < n + j
    BY <1>3, <1>4
  <2>2. s[n + i] \in {"unlock", "seed"}
    BY <1>4
  <2>3. s[n + j] # "unlock"
    BY <2>1, <2>2 DEF Fit, Links
  <2> QED BY <2>3, <1>4
<1>9. t # <<>> => t[Len(t)] \in Ends
  <2> SUFFICES ASSUME t # <<>> PROVE t[Len(t)] \in Ends
    OBVIOUS
  <2>1. Len(t) \in 1 .. Len(t) /\ n + Len(t) = Len(s) /\ s # <<>>
    BY <1>1, <1>2, <1>3
  <2> QED BY <2>1, <1>4 DEF Fit
<1>10. Fit(k, t)
  BY <1>2, <1>5, <1>6, <1>7, <1>8, <1>9 DEF Fit, Links
<1> QED BY <1>10 DEF t

\* The steps that an a of what is left comes before, when they come neither among those done.
LEMMA DropFirst ==
    ASSUME NEW s \in Seq(Steps), NEW n \in 0 .. Len(s), NEW a, NEW b,
           \A i \in 1 .. n : s[i] # a /\ s[i] # b
    PROVE  First(Drop(n, s), a, b) <=> First(s, a, b)
<1> DEFINE t == Drop(n, s)
<1>1. /\ t \in Seq(Steps)
      /\ Len(t) = Len(s) - n
      /\ \A i \in 1 .. (Len(s) - n) : t[i] = s[n + i]
  BY DropWhole
<1> HIDE DEF t
<1>2. Len(s) \in Nat /\ n \in Nat
  OBVIOUS
<1>3. ASSUME First(t, a, b) PROVE First(s, a, b)
  <2>1. PICK i \in 1 .. Len(t) : t[i] = a /\ \A j \in 1 .. (i - 1) : t[j] # b
    BY <1>3 DEF First
  <2>2. n + i \in 1 .. Len(s) /\ s[n + i] = a
    BY <2>1, <1>1, <1>2
  <2>3. ASSUME NEW j \in 1 .. ((n + i) - 1) PROVE s[j] # b
    <3>1. CASE j <= n
      <4>1. j \in 1 .. n
        BY <3>1, <1>2
      <4> QED BY <4>1
    <3>2. CASE j > n
      <4>1. j - n \in 1 .. (i - 1) /\ j - n \in 1 .. (Len(s) - n) /\ n + (j - n) = j
        BY <3>2, <1>1, <1>2
      <4>2. t[j - n] = s[n + (j - n)]
        BY <4>1, <1>1
      <4> QED BY <4>1, <4>2, <2>1
    <3> QED BY <3>1, <3>2, <1>2
  <2> QED BY <2>2, <2>3 DEF First
<1>4. ASSUME First(s, a, b) PROVE First(t, a, b)
  <2>1. PICK i \in 1 .. Len(s) : s[i] = a /\ \A j \in 1 .. (i - 1) : s[j] # b
    BY <1>4 DEF First
  <2>2. i > n
    <3>1. i <= n => i \in 1 .. n
      BY <1>2
    <3> QED BY <3>1, <2>1, <1>2
  <2>3. i - n \in 1 .. Len(t) /\ n + (i - n) = i
    BY <2>2, <1>1, <1>2
  <2>4. t[i - n] = a
    BY <2>1, <2>3, <1>1
  <2>5. ASSUME NEW j \in 1 .. ((i - n) - 1) PROVE t[j] # b
    <3>1. j \in 1 .. (Len(s) - n) /\ n + j \in 1 .. (i - 1)
      BY <2>3, <1>1, <1>2
    <3> QED BY <3>1, <2>1, <1>1
  <2> QED BY <2>3, <2>4, <2>5 DEF First
<1> QED BY <1>3, <1>4 DEF t

\* One step.
LEMMA OneStep ==
    ASSUME NEW k, NEW s, Fit(k, s), s # <<>>
    PROVE  LET t == Drop(1, s) IN
           /\ s \in Seq(Steps) /\ t \in Seq(Steps) /\ Len(s) \in Nat \ {0}
           /\ Head(s) = s[1] /\ Makes(k, Head(s)) /\ Fit(k, t)
           /\ t # <<>> => Len(s) >= 2 /\ Head(t) = s[2] /\ Follows(Head(s), Head(t))
           /\ t = <<>> => Head(s) \in Ends
<1> DEFINE t == Drop(1, s)
<1>1. s \in Seq(Steps) /\ Len(s) \in Nat \ {0} /\ Head(s) = s[1] /\ 1 \in 1 .. Len(s) /\ 1 \in 0 .. Len(s)
  BY DEF Fit, Links
<1>2. /\ t \in Seq(Steps)
      /\ Len(t) = Len(s) - 1
      /\ \A i \in 1 .. (Len(s) - 1) : t[i] = s[1 + i]
  BY <1>1, DropWhole
<1>3. Fit(k, t)
  BY <1>1, DropFits
<1>4. Makes(k, Head(s))
  BY <1>1 DEF Fit, Links
<1> HIDE DEF t
<1>5. t # <<>> => Len(s) >= 2 /\ Head(t) = s[2] /\ Follows(Head(s), Head(t))
  <2> SUFFICES ASSUME t # <<>> PROVE Len(s) >= 2 /\ Head(t) = s[2] /\ Follows(Head(s), Head(t))
    OBVIOUS
  <2>1. Len(t) >= 1 /\ Head(t) = t[1]
    BY <1>2
  <2>2. Len(s) >= 2 /\ 1 \in 1 .. (Len(s) - 1) /\ t[1] = s[2]
    BY <2>1, <1>1, <1>2
  <2>3. Follows(s[1], s[1 + 1])
    BY <2>2 DEF Fit, Links
  <2> QED BY <2>1, <2>2, <2>3, <1>1
<1>6. t = <<>> => Head(s) \in Ends
  <2> SUFFICES ASSUME t = <<>> PROVE Head(s) \in Ends
    OBVIOUS
  <2>1. Len(s) = 1
    BY <1>1, <1>2
  <2> QED BY <2>1, <1>1 DEF Fit
<1> QED BY <1>1, <1>2, <1>3, <1>4, <1>5, <1>6 DEF t

\* The load that starts or goes on here: the steps up to its end, and what may come after.
LEMMA LoadAhead ==
    ASSUME NEW k, NEW s, Fit(k, s), s # <<>>
    PROVE  /\ Head(s) = "look" => /\ Len(s) >= 4 /\ s[1] = "look" /\ s[2] = "read" /\ s[3] = "keep" /\ s[4] = "sync"
                                  /\ Len(s) >= 5 => Follows("sync", s[5])
           /\ Head(s) = "keep" => /\ Len(s) >= 2 /\ s[1] = "keep" /\ s[2] = "sync"
                                  /\ Len(s) >= 3 => Follows("sync", s[3])
           /\ Head(s) = "write" => /\ Len(s) >= 4 /\ s[1] = "write" /\ s[2] = "swap" /\ s[3] = "sync" /\ s[4] = "unlock"
           /\ Head(s) = "swap" => Len(s) >= 3 /\ s[2] = "sync" /\ s[3] = "unlock"
           /\ Head(s) = "turn" => Len(s) >= 3 /\ s[2] = "ensure" /\ s[3] = "unlock"
           /\ Head(s) = "point" => Len(s) >= 4 /\ s[2] = "turn" /\ s[3] = "ensure" /\ s[4] = "unlock"
<1>1. s \in Seq(Steps) /\ Len(s) \in Nat \ {0} /\ Head(s) = s[1] /\ s[Len(s)] \in Ends
  BY DEF Fit, Links
<1>2. \A i \in 1 .. Len(s) : s[i] \notin Ends => i + 1 \in 1 .. Len(s) /\ Follows(s[i], s[i + 1])
  <2> SUFFICES ASSUME NEW i \in 1 .. Len(s), s[i] \notin Ends
               PROVE  i + 1 \in 1 .. Len(s) /\ Follows(s[i], s[i + 1])
    OBVIOUS
  <2>1. i # Len(s)
    BY <1>1
  <2>2. i \in 1 .. (Len(s) - 1) /\ i + 1 \in 1 .. Len(s)
    BY <2>1, <1>1
  <2> QED BY <2>2 DEF Fit, Links
<1>3. \A i \in 1 .. Len(s) : i + 1 \in 1 .. Len(s) => Follows(s[i], s[i + 1])
  <2> SUFFICES ASSUME NEW i \in 1 .. Len(s), i + 1 \in 1 .. Len(s) PROVE Follows(s[i], s[i + 1])
    OBVIOUS
  <2>1. i \in 1 .. (Len(s) - 1)
    BY <1>1
  <2> QED BY <2>1 DEF Fit, Links
<1>4. \A i \in 1 .. Len(s) : s[i] \in {"swap", "turn"} => i + 2 \in 1 .. Len(s) /\ s[i + 2] = "unlock"
  BY <1>1 DEF Fit, Links
<1>5. 1 \in 1 .. Len(s)
  BY <1>1
<1>6. \A i \in 1 .. Len(s) : /\ s[i] = "look" => i + 1 \in 1 .. Len(s) /\ s[i + 1] = "read"
                             /\ s[i] = "read" => i + 1 \in 1 .. Len(s) /\ s[i + 1] = "keep"
                             /\ s[i] = "keep" => i + 1 \in 1 .. Len(s) /\ s[i + 1] = "sync"
                             /\ s[i] = "write" => i + 1 \in 1 .. Len(s) /\ s[i + 1] = "swap"
                             /\ s[i] = "swap" => i + 1 \in 1 .. Len(s) /\ s[i + 1] = "sync"
                             /\ s[i] = "point" => i + 1 \in 1 .. Len(s) /\ s[i + 1] = "turn"
                             /\ s[i] = "turn" => i + 1 \in 1 .. Len(s) /\ s[i + 1] = "ensure"
  BY <1>2 DEF Follows, Ends
<1> HIDE DEF Fit, Follows
<1>7. ASSUME Head(s) = "look" PROVE /\ Len(s) >= 4 /\ s[1] = "look" /\ s[2] = "read" /\ s[3] = "keep" /\ s[4] = "sync"
                                    /\ Len(s) >= 5 => Follows("sync", s[5])
  <2>1. 2 \in 1 .. Len(s) /\ s[1] = "look" /\ s[2] = "read"
    BY <1>1, <1>5, <1>6, <1>7
  <2>2. 3 \in 1 .. Len(s) /\ s[3] = "keep"
    BY <2>1, <1>6
  <2>3. 4 \in 1 .. Len(s) /\ s[4] = "sync"
    BY <2>2, <1>6
  <2>4. Len(s) >= 5 => 5 \in 1 .. Len(s)
    BY <1>1
  <2>5. Len(s) >= 5 => Follows(s[4], s[5])
    BY <2>3, <2>4, <1>3
  <2> QED BY <2>1, <2>2, <2>3, <2>5
<1>8. ASSUME Head(s) = "keep" PROVE /\ Len(s) >= 2 /\ s[1] = "keep" /\ s[2] = "sync"
                                    /\ Len(s) >= 3 => Follows("sync", s[3])
  <2>1. 2 \in 1 .. Len(s) /\ s[1] = "keep" /\ s[2] = "sync"
    BY <1>1, <1>5, <1>6, <1>8
  <2>4. Len(s) >= 3 => 3 \in 1 .. Len(s)
    BY <1>1
  <2>5. Len(s) >= 3 => Follows(s[2], s[3])
    BY <2>1, <2>4, <1>3
  <2> QED BY <2>1, <2>5
<1>9. ASSUME Head(s) = "write" PROVE Len(s) >= 4 /\ s[1] = "write" /\ s[2] = "swap" /\ s[3] = "sync" /\ s[4] = "unlock"
  <2>1. 2 \in 1 .. Len(s) /\ s[1] = "write" /\ s[2] = "swap"
    BY <1>1, <1>5, <1>6, <1>9
  <2>2. 3 \in 1 .. Len(s) /\ s[3] = "sync" /\ 4 \in 1 .. Len(s) /\ s[4] = "unlock"
    BY <2>1, <1>4, <1>6
  <2> QED BY <2>1, <2>2
<1>10. ASSUME Head(s) = "swap" PROVE Len(s) >= 3 /\ s[2] = "sync" /\ s[3] = "unlock"
  <2>1. 2 \in 1 .. Len(s) /\ s[2] = "sync" /\ 3 \in 1 .. Len(s) /\ s[3] = "unlock"
    BY <1>1, <1>4, <1>5, <1>6, <1>10
  <2> QED BY <2>1
<1>11. ASSUME Head(s) = "turn" PROVE Len(s) >= 3 /\ s[2] = "ensure" /\ s[3] = "unlock"
  <2>1. 2 \in 1 .. Len(s) /\ s[2] = "ensure" /\ 3 \in 1 .. Len(s) /\ s[3] = "unlock"
    BY <1>1, <1>4, <1>5, <1>6, <1>11
  <2> QED BY <2>1
<1>12. ASSUME Head(s) = "point" PROVE Len(s) >= 4 /\ s[2] = "turn" /\ s[3] = "ensure" /\ s[4] = "unlock"
  <2>1. 2 \in 1 .. Len(s) /\ s[2] = "turn"
    BY <1>1, <1>5, <1>6, <1>12
  <2>2. 3 \in 1 .. Len(s) /\ s[3] = "ensure" /\ 4 \in 1 .. Len(s) /\ s[4] = "unlock"
    BY <2>1, <1>4, <1>6
  <2> QED BY <2>1, <2>2
<1>13. Head(s) = "look" => /\ Len(s) >= 4 /\ s[1] = "look" /\ s[2] = "read" /\ s[3] = "keep" /\ s[4] = "sync"
                           /\ Len(s) >= 5 => Follows("sync", s[5])
  BY <1>7
<1>14. Head(s) = "keep" => /\ Len(s) >= 2 /\ s[1] = "keep" /\ s[2] = "sync"
                           /\ Len(s) >= 3 => Follows("sync", s[3])
  BY <1>8
<1> QED BY <1>9, <1>10, <1>11, <1>12, <1>13, <1>14

\* One sequence after another.
LEMMA Joined ==
    ASSUME NEW S, NEW r \in Seq(S), NEW l \in Seq(S)
    PROVE  /\ l \o r \in Seq(S) /\ Len(l \o r) = Len(l) + Len(r)
           /\ \A i \in 1 .. Len(l) : (l \o r)[i] = l[i]
           /\ \A i \in 1 .. Len(r) : (l \o r)[Len(l) + i] = r[i]
  OBVIOUS

\* Four steps are a sequence.
LEMMA FourSteps ==
    ASSUME NEW S, NEW a \in S, NEW b \in S, NEW c \in S, NEW d \in S
    PROVE  <<a, b, c, d>> \in Seq(S)
  OBVIOUS

\* What is joined below gives no lock back, or not twice.
Quiet(s) == \A i \in 1 .. Len(s) : s[i] # "unlock"
Clean(s) == \A i \in 1 .. Len(s) : s[i] \notin {"unlock", "seed"}

\* Two parts of a program.
LEMMA LinksJoin ==
    ASSUME NEW k, NEW a, NEW r, Links(k, a), Links(k, r), a # <<>>, r # <<>>,
           Follows(a[Len(a)], r[1]), Clean(a) \/ Quiet(r)
    PROVE  Links(k, a \o r)
<1> DEFINE t == a \o r
<1>1. a \in Seq(Steps) /\ r \in Seq(Steps)
  BY DEF Links
<1>2. /\ t \in Seq(Steps) /\ Len(t) = Len(a) + Len(r)
      /\ \A i \in 1 .. Len(a) : t[i] = a[i]
      /\ \A i \in 1 .. Len(r) : t[Len(a) + i] = r[i]
  BY ONLY <1>1, Joined, Zenon
<1> HIDE DEF t
<1>3. Len(a) \in Nat \ {0} /\ Len(r) \in Nat \ {0} /\ Len(t) \in Nat
  BY <1>1, <1>2
<1>4. \A i \in 1 .. Len(t) : \/ i \in 1 .. Len(a) /\ t[i] = a[i]
                             \/ i - Len(a) \in 1 .. Len(r) /\ t[i] = r[i - Len(a)]
  <2> TAKE i \in 1 .. Len(t)
  <2>1. CASE i <= Len(a)
    <3>1. i \in 1 .. Len(a)
      BY <2>1, <1>3
    <3> QED BY <3>1, <1>2
  <2>2. CASE i > Len(a)
    <3>1. i - Len(a) \in 1 .. Len(r) /\ Len(a) + (i - Len(a)) = i
      BY <2>2, <1>2, <1>3
    <3>2. t[Len(a) + (i - Len(a))] = r[i - Len(a)]
      BY <3>1, <1>2
    <3> QED BY <3>1, <3>2
  <2> QED BY <2>1, <2>2, <1>3
<1>5. \A i \in 1 .. Len(t) : Makes(k, t[i])
  BY <1>4 DEF Links
<1>6. ASSUME NEW i \in 1 .. (Len(t) - 1) PROVE Follows(t[i], t[i + 1])
  <2>1. CASE i < Len(a)
    <3>1. i \in 1 .. (Len(a) - 1) /\ i \in 1 .. Len(a) /\ i + 1 \in 1 .. Len(a)
      BY <2>1, <1>3
    <3>2. Follows(a[i], a[i + 1])
      BY <3>1 DEF Links
    <3> QED BY <3>1, <3>2, <1>2
  <2>2. CASE i = Len(a)
    <3>1. i \in 1 .. Len(a) /\ 1 \in 1 .. Len(r)
      BY <2>2, <1>3
    <3>2. t[i] = a[Len(a)] /\ t[i + 1] = r[1]
      BY <3>1, <2>2, <1>2
    <3> QED BY <3>2
  <2>3. CASE i > Len(a)
    <3>1. /\ i - Len(a) \in 1 .. (Len(r) - 1) /\ i - Len(a) \in 1 .. Len(r) /\ (i - Len(a)) + 1 \in 1 .. Len(r)
          /\ Len(a) + (i - Len(a)) = i /\ Len(a) + ((i - Len(a)) + 1) = i + 1
      BY <2>3, <1>2, <1>3
    <3>2. Follows(r[i - Len(a)], r[(i - Len(a)) + 1])
      BY <3>1 DEF Links
    <3>3. t[Len(a) + (i - Len(a))] = r[i - Len(a)] /\ t[Len(a) + ((i - Len(a)) + 1)] = r[(i - Len(a)) + 1]
      BY <3>1, <1>2
    <3> QED BY <3>1, <3>2, <3>3
  <2> QED BY <2>1, <2>2, <2>3, <1>3
<1>7. ASSUME NEW i \in 1 .. Len(t), t[i] \in {"swap", "turn"} PROVE i + 2 <= Len(t) /\ t[i + 2] = "unlock"
  <2>1. CASE i \in 1 .. Len(a) /\ t[i] = a[i]
    <3>1. i + 2 <= Len(a) /\ a[i + 2] = "unlock"
      BY <2>1, <1>7 DEF Links
    <3>2. i + 2 \in 1 .. Len(a) /\ i + 2 <= Len(t)
      BY <3>1, <1>2, <1>3
    <3> QED BY <3>1, <3>2, <1>2
  <2>2. CASE i - Len(a) \in 1 .. Len(r) /\ t[i] = r[i - Len(a)]
    <3>1. (i - Len(a)) + 2 <= Len(r) /\ r[(i - Len(a)) + 2] = "unlock"
      BY <2>2, <1>7 DEF Links
    <3>2. (i - Len(a)) + 2 \in 1 .. Len(r) /\ Len(a) + ((i - Len(a)) + 2) = i + 2 /\ i + 2 <= Len(t)
      BY <2>2, <3>1, <1>2, <1>3
    <3>3. t[Len(a) + ((i - Len(a)) + 2)] = r[(i - Len(a)) + 2]
      BY <3>2, <1>2
    <3> QED BY <3>1, <3>2, <3>3
  <2> QED BY <2>1, <2>2, <1>4
<1>8. ASSUME NEW i \in 1 .. Len(t), NEW j \in 1 .. Len(t), t[i] \in {"unlock", "seed"}, i < j
      PROVE  t[j] # "unlock"
  <2>1. CASE i \in 1 .. Len(a) /\ t[i] = a[i]
    <3>1. Quiet(r)
      BY <2>1, <1>8 DEF Clean
    <3>2. CASE j \in 1 .. Len(a) /\ t[j] = a[j]
      BY <2>1, <3>2, <1>8 DEF Links
    <3>3. CASE j - Len(a) \in 1 .. Len(r) /\ t[j] = r[j - Len(a)]
      BY <3>1, <3>3 DEF Quiet
    <3> QED BY <3>2, <3>3, <1>4
  <2>2. CASE i - Len(a) \in 1 .. Len(r) /\ t[i] = r[i - Len(a)]
    <3>1. j - Len(a) \in 1 .. Len(r) /\ t[j] = r[j - Len(a)] /\ i - Len(a) < j - Len(a)
      <4>1. j \notin 1 .. Len(a)
        BY <2>2, <1>8, <1>3
      <4> QED BY <4>1, <2>2, <1>8, <1>3, <1>4
    <3> QED BY <2>2, <3>1, <1>8 DEF Links
  <2> QED BY <2>1, <2>2, <1>4
<1>9. Links(k, t)
  BY <1>2, <1>5, <1>6, <1>7, <1>8 DEF Links
<1> QED BY <1>9 DEF t

\* The steps of a load.
LEMMA LoadLinks ==
    /\ Load \in Seq(Steps) /\ Len(Load) = 4 /\ Load # <<>>
    /\ Load[1] = "look" /\ Load[2] = "read" /\ Load[3] = "keep" /\ Load[4] = "sync"
    /\ Clean(Load) /\ Quiet(Load)
    /\ \A k : Makes(k, "look") => Links(k, Load)
<1>1. Load \in Seq(Steps)
  <2>1. "look" \in Steps /\ "read" \in Steps /\ "keep" \in Steps /\ "sync" \in Steps
    BY DEF Steps
  <2> HIDE DEF Steps
  <2> QED BY <2>1, FourSteps DEF Load
<1>2. Len(Load) = 4 /\ Load # <<>>
  BY DEF Load
<1>3. Load[1] = "look" /\ Load[2] = "read" /\ Load[3] = "keep" /\ Load[4] = "sync"
  BY DEF Load
<1>4. \A i \in 1 .. Len(Load) : Load[i] \in {"look", "read", "keep", "sync"}
  BY <1>2, <1>3
<1>5. Clean(Load) /\ Quiet(Load)
  BY <1>4 DEF Clean, Quiet
<1>6. ASSUME NEW k, Makes(k, "look") PROVE Links(k, Load)
  <2>1. \A x \in {"look", "read", "keep", "sync"} : Makes(k, x)
    BY <1>6 DEF Makes
  <2>2. \A i \in 1 .. (Len(Load) - 1) : Follows(Load[i], Load[i + 1])
    BY <1>2, <1>3 DEF Follows
  <2>3. \A i \in 1 .. Len(Load) : Makes(k, Load[i])
    BY <1>4, <2>1
  <2> QED BY <1>1, <1>4, <2>2, <2>3 DEF Links
<1> QED BY <1>1, <1>2, <1>3, <1>5, <1>6

\* A load that finds the profile switched starts once more.
LEMMA LoadAgain ==
    ASSUME NEW k, NEW s, Fit(k, s), s # <<>>, Head(s) = "keep"
    PROVE  LET t == Load \o Drop(2, s) IN
           /\ Fit(k, t) /\ t # <<>> /\ Head(t) = "look"
           /\ First(t, "unlock", "lock") <=> First(s, "unlock", "lock")
           /\ First(t, "build", "seed") <=> First(s, "build", "seed")
<1> DEFINE r == Drop(2, s)
           t == Load \o r
<1>1. /\ s \in Seq(Steps) /\ Len(s) \in Nat \ {0} /\ Head(s) = s[1] /\ Makes(k, "keep")
  BY OneStep
<1>2. Len(s) >= 2 /\ s[1] = "keep" /\ s[2] = "sync" /\ (Len(s) >= 3 => Follows("sync", s[3]))
  BY LoadAhead
<1>3. 2 \in 0 .. Len(s)
  BY <1>1, <1>2
<1>4. /\ r \in Seq(Steps)
      /\ Len(r) = Len(s) - 2
      /\ \A i \in 1 .. (Len(s) - 2) : r[i] = s[2 + i]
  BY <1>1, <1>3, DropWhole
<1>5. Fit(k, r)
  BY <1>3, DropFits
<1>6. \A i \in 1 .. 2 : s[i] # "unlock" /\ s[i] # "lock" /\ s[i] # "build" /\ s[i] # "seed"
  BY <1>2
<1>7. /\ First(r, "unlock", "lock") <=> First(s, "unlock", "lock")
      /\ First(r, "build", "seed") <=> First(s, "build", "seed")
  <2>1. \A i \in 1 .. 2 : s[i] # "unlock" /\ s[i] # "lock"
    BY <1>6
  <2>2. \A i \in 1 .. 2 : s[i] # "build" /\ s[i] # "seed"
    BY <1>6
  <2> QED BY <2>1, <2>2, <1>1, <1>3, DropFirst
<1> HIDE DEF r
<1>8. Load \in Seq(Steps) /\ Len(Load) = 4 /\ Load[1] = "look" /\ Load[2] = "read" /\ Load[3] = "keep" /\ Load[4] = "sync"
  BY LoadLinks
<1>9. /\ t \in Seq(Steps) /\ Len(t) = Len(r) + 4
      /\ t[1] = "look" /\ t[2] = "read" /\ t[3] = "keep" /\ t[4] = "sync"
      /\ \A i \in 1 .. Len(r) : t[4 + i] = r[i]
  <2>1. /\ t \in Seq(Steps) /\ Len(t) = Len(Load) + Len(r)
        /\ \A i \in 1 .. Len(Load) : t[i] = Load[i]
        /\ \A i \in 1 .. Len(r) : t[Len(Load) + i] = r[i]
    <3>1. Load \in Seq(Steps) /\ r \in Seq(Steps)
      BY <1>4, <1>8
    <3>2. /\ Load \o r \in Seq(Steps) /\ Len(Load \o r) = Len(Load) + Len(r)
          /\ \A i \in 1 .. Len(Load) : (Load \o r)[i] = Load[i]
          /\ \A i \in 1 .. Len(r) : (Load \o r)[Len(Load) + i] = r[i]
      BY ONLY <3>1, Joined, Zenon
    <3> QED BY <3>2
  <2> HIDE DEF t
  <2>2. t[1] = "look" /\ t[2] = "read" /\ t[3] = "keep" /\ t[4] = "sync"
    BY <2>1, <1>8
  <2>3. Len(t) = Len(r) + 4
    BY <2>1, <1>4, <1>8
  <2> QED BY <2>1, <2>2, <2>3, <1>8
<1> HIDE DEF t
<1>10. Drop(4, t) = r
  <2>1. 4 \in 0 .. Len(t)
    BY <1>4, <1>9
  <2>2. /\ Drop(4, t) \in Seq(Steps)
        /\ Len(Drop(4, t)) = Len(t) - 4
        /\ \A i \in 1 .. (Len(t) - 4) : Drop(4, t)[i] = t[4 + i]
    BY <2>1, <1>9, DropWhole
  <2>3. Len(Drop(4, t)) = Len(r) /\ \A i \in 1 .. Len(r) : Drop(4, t)[i] = r[i]
    BY <2>2, <1>4, <1>9
  <2> QED BY <2>2, <2>3, <1>4, SeqEqual
<1>11. /\ First(t, "unlock", "lock") <=> First(r, "unlock", "lock")
       /\ First(t, "build", "seed") <=> First(r, "build", "seed")
  <2>1. 4 \in 0 .. Len(t)
    BY <1>4, <1>9
  <2>2. \A i \in 1 .. 4 : t[i] # "unlock" /\ t[i] # "lock"
    BY <1>9
  <2>3. \A i \in 1 .. 4 : t[i] # "build" /\ t[i] # "seed"
    BY <1>9
  <2>4. First(Drop(4, t), "unlock", "lock") <=> First(t, "unlock", "lock")
    BY <2>1, <2>2, <1>9, DropFirst
  <2>5. First(Drop(4, t), "build", "seed") <=> First(t, "build", "seed")
    BY <2>1, <2>3, <1>9, DropFirst
  <2> QED BY <2>4, <2>5, <1>10
<1>12. Fit(k, t)
  <2>1. Links(k, Load) /\ Quiet(Load)
    <3>1. Makes(k, "look")
      BY <1>1 DEF Makes
    <3> QED BY <3>1, LoadLinks
  <2>2. CASE r = <<>>
    <3>1. t = Load
      BY <2>2, <1>8, <1>9, SeqEqual
    <3> QED BY <3>1, <2>1, <1>8 DEF Fit, Ends
  <2>3. CASE r # <<>>
    <3>1. Len(r) \in 1 .. Len(r) /\ Len(s) >= 3 /\ r[1] = s[3]
      BY <2>3, <1>4
    <3>2. Clean(Load)
      BY LoadLinks
    <3>3. Links(k, Load \o r)
      <4>1. Follows(Load[Len(Load)], r[1])
        BY <3>1, <1>2, <1>8
      <4>2. Links(k, r)
        BY <1>5 DEF Fit
      <4>3. Load # <<>>
        BY LoadLinks
      <4> QED BY <4>1, <4>2, <4>3, <3>2, <2>1, <2>3, LinksJoin
    <3>4. r[Len(r)] \in Ends
      BY <2>3, <1>5 DEF Fit
    <3>5. t[Len(t)] = r[Len(r)]
      BY <3>1, <1>4, <1>9
    <3>6. t = Load \o r
      BY DEF t
    <3> QED BY <3>3, <3>4, <3>5, <3>6 DEF Fit
  <2> QED BY <2>2, <2>3
<1>13. t # <<>> /\ Head(t) = "look"
  BY <1>4, <1>9
<1> QED BY <1>7, <1>11, <1>12, <1>13 DEF t, r

\* The steps of an update come in the code's order.
LEMMA UpdateLinks ==
    /\ Update \in Seq(Steps) /\ Len(Update) = 9 /\ Update # <<>>
    /\ Update[1] = "lock" /\ Update[2] = "look" /\ Update[9] = "unlock"
    /\ \A k : Makes(k, "look") => Links(k, Update)
<1> DEFINE l == <<"lock">>
           w == <<"write", "swap", "sync", "unlock">>
           m == l \o Load
<1>1. l \in Seq(Steps) /\ Len(l) = 1 /\ l[1] = "lock" /\ l # <<>>
  <2>1. "lock" \in Steps
    BY DEF Steps
  <2> HIDE DEF Steps
  <2> QED BY <2>1
<1>2. w \in Seq(Steps) /\ Len(w) = 4 /\ w # <<>>
      /\ w[1] = "write" /\ w[2] = "swap" /\ w[3] = "sync" /\ w[4] = "unlock"
  <2>1. "write" \in Steps /\ "swap" \in Steps /\ "sync" \in Steps /\ "unlock" \in Steps
    BY DEF Steps
  <2> HIDE DEF Steps
  <2>2. w \in Seq(Steps)
    BY <2>1, FourSteps
  <2> QED BY <2>2
<1>3. Update = m \o w
  BY DEF Update
<1> HIDE DEF l, w
<1>4. /\ m \in Seq(Steps) /\ Len(m) = Len(l) + Len(Load)
      /\ \A i \in 1 .. Len(l) : m[i] = l[i]
      /\ \A i \in 1 .. Len(Load) : m[Len(l) + i] = Load[i]
  <2>1. l \in Seq(Steps) /\ Load \in Seq(Steps)
    BY <1>1, LoadLinks
  <2> QED BY ONLY <2>1, Joined, Zenon DEF m
<1>5. ASSUME NEW k, Makes(k, "look") PROVE Links(k, m)
  <2>1. Makes(k, "lock")
    BY <1>5 DEF Makes
  <2>2. Links(k, l) /\ Clean(l)
    BY <2>1, <1>1 DEF Links, Clean
  <2>3. Links(k, Load) /\ Load # <<>> /\ Load[1] = "look"
    BY <1>5, LoadLinks
  <2>4. Follows(l[Len(l)], Load[1])
    BY <2>3, <1>1 DEF Follows
  <2>5. l # <<>>
    BY <1>1
  <2> QED BY <2>2, <2>3, <2>4, <2>5, LinksJoin
<1> HIDE DEF m
<1>6. Len(m) = 5 /\ m # <<>> /\ m[1] = "lock" /\ m[2] = "look" /\ m[5] = "sync" /\ Clean(m)
  <2>1. Len(m) = 5 /\ m[1] = "lock"
    BY <1>1, <1>4, LoadLinks
  <2>2. m[1 + 1] = "look" /\ m[1 + 2] = "read" /\ m[1 + 3] = "keep" /\ m[1 + 4] = "sync"
    BY <1>1, <1>4, LoadLinks
  <2>3. m[2] = "look" /\ m[3] = "read" /\ m[4] = "keep" /\ m[5] = "sync"
    BY <2>2
  <2>4. \A i \in 1 .. Len(m) : m[i] \in {"lock", "look", "read", "keep", "sync"}
    BY <2>1, <2>3
  <2>5. Clean(m)
    BY <2>4 DEF Clean
  <2>6. m # <<>>
    BY <2>1, <1>4
  <2> QED BY <2>1, <2>3, <2>5, <2>6
<1>7. /\ Update \in Seq(Steps) /\ Len(Update) = Len(m) + Len(w)
      /\ \A i \in 1 .. Len(m) : Update[i] = m[i]
      /\ \A i \in 1 .. Len(w) : Update[Len(m) + i] = w[i]
  <2>1. m \in Seq(Steps) /\ w \in Seq(Steps)
    BY <1>2, <1>4
  <2>2. /\ m \o w \in Seq(Steps) /\ Len(m \o w) = Len(m) + Len(w)
        /\ \A i \in 1 .. Len(m) : (m \o w)[i] = m[i]
        /\ \A i \in 1 .. Len(w) : (m \o w)[Len(m) + i] = w[i]
    BY ONLY <2>1, Joined, Zenon
  <2> QED BY <2>2, <1>3
<1>8. ASSUME NEW k, Makes(k, "look") PROVE Links(k, Update)
  <2>1. Makes(k, "write") /\ Makes(k, "swap") /\ Makes(k, "sync") /\ Makes(k, "unlock")
    BY <1>8 DEF Makes
  <2>2. Links(k, w)
    <3>1. \A i \in 1 .. Len(w) : Makes(k, w[i])
      BY <2>1, <1>2
    <3>2. \A i \in 1 .. (Len(w) - 1) : Follows(w[i], w[i + 1])
      BY <1>2 DEF Follows
    <3>3. \A i \in 1 .. Len(w) : w[i] \in {"swap", "turn"} => i + 2 <= Len(w) /\ w[i + 2] = "unlock"
      BY <1>2
    <3>4. \A i, j \in 1 .. Len(w) : w[i] \in {"unlock", "seed"} /\ i < j => w[j] # "unlock"
      BY <1>2
    <3> QED BY <1>2, <3>1, <3>2, <3>3, <3>4 DEF Links
  <2>3. Follows(m[Len(m)], w[1])
    BY <1>2, <1>6 DEF Follows
  <2>4. w # <<>> /\ m # <<>> /\ Clean(m) /\ Links(k, m)
    BY <1>2, <1>5, <1>6, <1>8
  <2>5. Links(k, m \o w)
    BY <2>2, <2>3, <2>4, LinksJoin
  <2> QED BY <2>5, <1>3
<1>9. Len(Update) = 9 /\ Update[1] = "lock" /\ Update[2] = "look" /\ Update[5 + 4] = "unlock"
  BY <1>2, <1>6, <1>7
<1>10. Update # <<>> /\ Update[9] = "unlock"
  BY <1>7, <1>9
<1> QED BY <1>7, <1>8, <1>9, <1>10

\* The seed goes on with an update.
LEMMA SeedUpdates ==
    ASSUME NEW k, NEW s, Fit(k, s), s # <<>>, Head(s) = "seed"
    PROVE  LET t == Update \o Drop(1, s) IN
           Fit(k, t) /\ t # <<>> /\ Head(t) = "lock" /\ t[2] = "look" /\ ~ First(t, "unlock", "lock")
<1> DEFINE r == Drop(1, s)
           t == Update \o r
<1>1. /\ s \in Seq(Steps) /\ Len(s) \in Nat \ {0} /\ Head(s) = s[1] /\ Makes(k, "seed")
      /\ r \in Seq(Steps) /\ Fit(k, r)
      /\ r # <<>> => Head(r) = s[2] /\ Follows("seed", Head(r))
  BY OneStep
<1>2. 1 \in 0 .. Len(s)
  BY <1>1
<1>3. Len(r) = Len(s) - 1 /\ \A i \in 1 .. (Len(s) - 1) : r[i] = s[1 + i]
  BY <1>1, <1>2, DropWhole
<1>4. Quiet(r)
  <2> SUFFICES ASSUME NEW i \in 1 .. Len(r) PROVE r[i] # "unlock"
    BY DEF Quiet
  <2>1. 1 \in 1 .. Len(s) /\ 1 + i \in 1 .. Len(s) /\ 1 < 1 + i /\ r[i] = s[1 + i]
    BY <1>1, <1>3
  <2>2. s[1 + i] # "unlock"
    BY <2>1, <1>1 DEF Fit, Links
  <2> QED BY <2>1, <2>2
<1> HIDE DEF r
<1>5. /\ t \in Seq(Steps) /\ Len(t) = Len(Update) + Len(r)
      /\ \A i \in 1 .. Len(Update) : t[i] = Update[i]
      /\ \A i \in 1 .. Len(r) : t[Len(Update) + i] = r[i]
  <2>1. Update \in Seq(Steps) /\ r \in Seq(Steps)
    BY <1>1, UpdateLinks
  <2> QED BY ONLY <2>1, Joined, Zenon DEF t
<1>6. Makes(k, "look")
  BY <1>1 DEF Makes
<1> HIDE DEF t
<1>7. t # <<>> /\ t[1] = "lock" /\ Head(t) = "lock" /\ t[2] = "look"
  BY <1>1, <1>3, <1>5, UpdateLinks
<1>8. ~ First(t, "unlock", "lock")
  <2> SUFFICES ASSUME NEW i \in 1 .. Len(t), t[i] = "unlock", \A j \in 1 .. (i - 1) : t[j] # "lock"
               PROVE  FALSE
    BY DEF First
  <2>1. i # 1
    BY <1>7
  <2>2. 1 \in 1 .. (i - 1)
    BY <2>1, <1>1, <1>5
  <2> QED BY <2>2, <1>7
<1>9. CASE r = <<>>
  <2>1. t = Update
    <3>1. Len(t) = Len(Update) /\ \A i \in 1 .. Len(t) : t[i] = Update[i]
      BY <1>9, <1>5, UpdateLinks
    <3> QED BY <3>1, <1>5, UpdateLinks, SeqEqual
  <2>2. Fit(k, t)
    BY <2>1, <1>6, UpdateLinks DEF Fit, Ends
  <2> QED BY <2>2, <1>7, <1>8 DEF t, r
<1>10. CASE r # <<>>
  <2>1. Len(r) \in 1 .. Len(r) /\ Head(r) = r[1] /\ r[1] = "look"
    BY <1>10, <1>1 DEF Follows
  <2>2. Links(k, r) /\ r[Len(r)] \in Ends
    BY <1>10, <1>1 DEF Fit
  <2>3. Links(k, Update) /\ Update # <<>> /\ Follows(Update[Len(Update)], r[1])
    BY <2>1, <1>6, UpdateLinks DEF Follows
  <2>4. Links(k, t)
    BY <1>4, <1>10, <2>2, <2>3, LinksJoin DEF t
  <2>5. t[Len(t)] = r[Len(r)]
    BY <2>1, <1>5
  <2>6. Fit(k, t)
    BY <2>2, <2>4, <2>5 DEF Fit
  <2> QED BY <2>6, <1>7, <1>8 DEF t, r
<1> QED BY <1>9, <1>10

\* A part of a program of kind k, from x to y, that takes the lock before it gives it back.
Part(k, s, x, y) ==
    /\ Links(k, s) /\ s # <<>> /\ s[1] = x /\ s[Len(s)] = y
    /\ ~ First(s, "unlock", "lock")

\* Two parts of a call, the one after the other.
LEMMA PartsJoin ==
    ASSUME NEW k, NEW a, NEW r, NEW x, NEW y, NEW z, NEW u,
           Part(k, a, x, y), Part(k, r, z, u), Follows(y, z), Clean(a) \/ Quiet(r)
    PROVE  /\ Part(k, a \o r, x, u)
           /\ Clean(a) /\ Clean(r) => Clean(a \o r)
<1> DEFINE t == a \o r
<1>1. a \in Seq(Steps) /\ r \in Seq(Steps) /\ a # <<>> /\ r # <<>>
  BY DEF Part, Links
<1>2. /\ t \in Seq(Steps) /\ Len(t) = Len(a) + Len(r)
      /\ \A i \in 1 .. Len(a) : t[i] = a[i]
      /\ \A i \in 1 .. Len(r) : t[Len(a) + i] = r[i]
  BY ONLY <1>1, Joined, Zenon
<1>3. Links(k, t)
  BY LinksJoin DEF Part
<1> HIDE DEF t
<1>4. Len(a) \in Nat \ {0} /\ Len(r) \in Nat \ {0} /\ Len(t) \in Nat
  BY <1>1, <1>2
<1>5. t # <<>> /\ t[1] = x /\ t[Len(t)] = u
  <2>1. 1 \in 1 .. Len(a) /\ Len(r) \in 1 .. Len(r)
    BY <1>4
  <2> QED BY <2>1, <1>2, <1>4 DEF Part
<1>6. \A i \in 1 .. Len(t) : \/ i \in 1 .. Len(a) /\ t[i] = a[i]
                             \/ i - Len(a) \in 1 .. Len(r) /\ t[i] = r[i - Len(a)]
  <2> TAKE i \in 1 .. Len(t)
  <2>1. CASE i <= Len(a)
    <3>1. i \in 1 .. Len(a)
      BY <2>1, <1>4
    <3> QED BY <3>1, <1>2
  <2>2. CASE i > Len(a)
    <3>1. i - Len(a) \in 1 .. Len(r) /\ Len(a) + (i - Len(a)) = i
      BY <2>2, <1>2, <1>4
    <3>2. t[Len(a) + (i - Len(a))] = r[i - Len(a)]
      BY <3>1, <1>2
    <3> QED BY <3>1, <3>2
  <2> QED BY <2>1, <2>2, <1>4
<1>7. ~ First(t, "unlock", "lock")
  <2> SUFFICES ASSUME NEW i \in 1 .. Len(t), t[i] = "unlock", \A j \in 1 .. (i - 1) : t[j] # "lock"
               PROVE  FALSE
    BY DEF First
  <2>1. CASE i \in 1 .. Len(a) /\ t[i] = a[i]
    <3>1. \A j \in 1 .. (i - 1) : j \in 1 .. Len(a)
      BY <2>1, <1>4
    <3>2. \A j \in 1 .. (i - 1) : a[j] # "lock"
      BY <3>1, <1>2
    <3> QED BY <2>1, <3>2 DEF Part, First
  <2>2. CASE i - Len(a) \in 1 .. Len(r) /\ t[i] = r[i - Len(a)]
    <3>1. ASSUME NEW j \in 1 .. ((i - Len(a)) - 1) PROVE r[j] # "lock"
      <4>1. j \in 1 .. Len(r) /\ Len(a) + j \in 1 .. (i - 1)
        BY <2>2, <1>4
      <4> QED BY <4>1, <1>2
    <3> QED BY <2>2, <3>1 DEF Part, First
  <2> QED BY <2>1, <2>2, <1>6
<1>8. Clean(a) /\ Clean(r) => Clean(t)
  BY <1>6 DEF Clean
<1> QED BY <1>3, <1>5, <1>7, <1>8 DEF t, Part

\* A part of one step.
LEMMA StepPart ==
    ASSUME NEW k, NEW x \in Steps, Makes(k, x), x \notin {"swap", "turn", "unlock"}
    PROVE  Part(k, <<x>>, x, x) /\ Quiet(<<x>>) /\ (x # "seed" => Clean(<<x>>))
<1> DEFINE s == <<x>>
<1>1. s \in Seq(Steps) /\ Len(s) = 1 /\ s[1] = x /\ s # <<>>
  <2> HIDE DEF Steps
  <2> QED OBVIOUS
<1> HIDE DEF s
<1>2. \A i \in 1 .. Len(s) : s[i] = x
  BY <1>1
<1>3. Quiet(s) /\ (x # "seed" => Clean(s)) /\ ~ First(s, "unlock", "lock")
  BY <1>2 DEF Quiet, Clean, First
<1>4. Links(k, s)
  BY <1>1, <1>2 DEF Links
<1>5. Part(k, s, x, x)
  BY <1>1, <1>3, <1>4 DEF Part
<1> QED BY <1>3, <1>5 DEF s

\* A load and an update are parts of any call that makes them.
LEMMA LoadUpdateParts ==
    ASSUME NEW k, Makes(k, "look")
    PROVE  Part(k, Load, "look", "sync") /\ Part(k, Update, "lock", "unlock")
<1>1. ~ First(Load, "unlock", "lock")
  BY LoadLinks DEF Quiet, First
<1>2. ~ First(Update, "unlock", "lock")
  <2> SUFFICES ASSUME NEW i \in 1 .. Len(Update), Update[i] = "unlock", \A j \in 1 .. (i - 1) : Update[j] # "lock"
               PROVE  FALSE
    BY DEF First
  <2>1. i # 1
    BY UpdateLinks
  <2>2. 1 \in 1 .. (i - 1)
    BY <2>1, UpdateLinks
  <2> QED BY <2>2, UpdateLinks
<1> QED BY <1>1, <1>2, LoadLinks, UpdateLinks DEF Part

\* What begins with the lock.
LEMMA LockFirst ==
    ASSUME NEW s \in Seq(Steps), s[1] = "lock"
    PROVE  ~ First(s, "unlock", "lock")
<1> SUFFICES ASSUME NEW i \in 1 .. Len(s), s[i] = "unlock", \A j \in 1 .. (i - 1) : s[j] # "lock"
             PROVE  FALSE
  BY DEF First
<1>1. i # 1
  OBVIOUS
<1>2. 1 \in 1 .. (i - 1)
  BY <1>1
<1> QED BY <1>2

\* So are the steps of a switch under its lock.
LEMMA TurnPart == Part("switch", Turn, "lock", "unlock")
<1> HIDE DEF Steps
<1>1. Turn \in Seq(Steps) /\ Len(Turn) = 5 /\ Turn # <<>>
  <2>1. "lock" \in Steps /\ "point" \in Steps /\ "turn" \in Steps /\ "ensure" \in Steps /\ "unlock" \in Steps
    BY DEF Steps
  <2>2. Turn = <<"lock", "point", "turn", "ensure", "unlock">>
    BY DEF Turn
  <2>3. <<"lock", "point", "turn", "ensure", "unlock">> \in Seq(Steps)
    BY <2>1
  <2>4. Len(Turn) = 5 /\ Turn # <<>>
    BY <2>2
  <2> QED BY <2>2, <2>3, <2>4
<1>2. Turn[1] = "lock" /\ Turn[2] = "point" /\ Turn[3] = "turn" /\ Turn[4] = "ensure" /\ Turn[5] = "unlock"
  BY DEF Turn
<1>3. \A i \in 1 .. Len(Turn) : Makes("switch", Turn[i])
  BY <1>1, <1>2 DEF Makes
<1>4. \A i \in 1 .. (Len(Turn) - 1) : Follows(Turn[i], Turn[i + 1])
  BY <1>1, <1>2 DEF Follows
<1>5. \A i \in 1 .. Len(Turn) : Turn[i] \in {"swap", "turn"} => i + 2 <= Len(Turn) /\ Turn[i + 2] = "unlock"
  BY <1>1, <1>2
<1>6. \A i, j \in 1 .. Len(Turn) : Turn[i] \in {"unlock", "seed"} /\ i < j => Turn[j] # "unlock"
  BY <1>1, <1>2
<1>7. ~ First(Turn, "unlock", "lock")
  BY <1>1, <1>2, LockFirst
<1> QED BY <1>1, <1>2, <1>3, <1>4, <1>5, <1>6, <1>7 DEF Part, Links

\* Four steps in a row that neither lock, swap nor seed.
LEMMA FourPart ==
    ASSUME NEW k, NEW a \in Steps, NEW b \in Steps, NEW c \in Steps, NEW d \in Steps,
           Makes(k, a), Makes(k, b), Makes(k, c), Makes(k, d),
           Follows(a, b), Follows(b, c), Follows(c, d),
           \A x \in {a, b, c, d} : x \notin {"swap", "turn", "unlock", "seed"}
    PROVE  Part(k, <<a, b, c, d>>, a, d) /\ Clean(<<a, b, c, d>>)
<1> HIDE DEF Steps
<1> DEFINE s == <<a, b, c, d>>
<1>1. s \in Seq(Steps)
  BY FourSteps
<1>2. Len(s) = 4 /\ s # <<>> /\ s[1] = a /\ s[2] = b /\ s[3] = c /\ s[4] = d
  OBVIOUS
<1> HIDE DEF s
<1>3. \A i \in 1 .. Len(s) : s[i] \in {a, b, c, d}
  BY <1>2
<1>4. \A i \in 1 .. Len(s) : Makes(k, s[i])
  BY <1>3
<1>5. \A i \in 1 .. (Len(s) - 1) : Follows(s[i], s[i + 1])
  BY <1>2
<1>6. \A i \in 1 .. Len(s) : s[i] \notin {"swap", "turn", "unlock", "seed"}
  BY <1>3
<1>7. Clean(s) /\ ~ First(s, "unlock", "lock")
  BY <1>6 DEF Clean, First
<1>8. Links(k, s)
  BY <1>1, <1>4, <1>5, <1>6 DEF Links
<1> QED BY <1>2, <1>7, <1>8 DEF s, Part

\* What gives no lock back, twice.
LEMMA QuietJoin ==
    ASSUME NEW a \in Seq(Steps), NEW r \in Seq(Steps), Quiet(a), Quiet(r)
    PROVE  Quiet(a \o r)
<1> DEFINE t == a \o r
<1>1. /\ t \in Seq(Steps) /\ Len(t) = Len(a) + Len(r)
      /\ \A i \in 1 .. Len(a) : t[i] = a[i]
      /\ \A i \in 1 .. Len(r) : t[Len(a) + i] = r[i]
  BY ONLY a \in Seq(Steps), r \in Seq(Steps), Joined, Zenon
<1> HIDE DEF t
<1>2. Len(a) \in Nat /\ Len(r) \in Nat
  OBVIOUS
<1>3. ASSUME NEW i \in 1 .. Len(t) PROVE t[i] # "unlock"
  <2>1. CASE i <= Len(a)
    <3>1. i \in 1 .. Len(a)
      BY <2>1, <1>2
    <3> QED BY <3>1, <1>1 DEF Quiet
  <2>2. CASE i > Len(a)
    <3>1. i - Len(a) \in 1 .. Len(r) /\ Len(a) + (i - Len(a)) = i
      BY <2>2, <1>1, <1>2
    <3>2. t[Len(a) + (i - Len(a))] = r[i - Len(a)]
      BY <3>1, <1>1
    <3> QED BY <3>1, <3>2 DEF Quiet
  <2> QED BY <2>1, <2>2, <1>2
<1> QED BY <1>3 DEF t, Quiet

\* The build of the application comes before its first seed.
LEMMA BuildFirst ==
    ASSUME NEW a \in Seq(Steps), NEW r \in Seq(Steps), Clean(a)
    PROVE  First((a \o <<"build">>) \o r, "build", "seed")
<1> DEFINE l == <<"build">>
           b == a \o l
           t == b \o r
<1>1. l \in Seq(Steps) /\ Len(l) = 1 /\ l[1] = "build"
  <2>1. "build" \in Steps
    BY DEF Steps
  <2> HIDE DEF Steps
  <2> QED BY <2>1
<1> HIDE DEF l
<1>2. /\ b \in Seq(Steps) /\ Len(b) = Len(a) + Len(l)
      /\ \A i \in 1 .. Len(a) : b[i] = a[i]
      /\ \A i \in 1 .. Len(l) : b[Len(a) + i] = l[i]
  BY ONLY a \in Seq(Steps), <1>1, Joined, Zenon
<1> HIDE DEF b
<1>3. /\ t \in Seq(Steps) /\ Len(t) = Len(b) + Len(r)
      /\ \A i \in 1 .. Len(b) : t[i] = b[i]
      /\ \A i \in 1 .. Len(r) : t[Len(b) + i] = r[i]
  <2>1. b \in Seq(Steps)
    BY <1>2
  <2> QED BY ONLY r \in Seq(Steps), <2>1, Joined, Zenon
<1> HIDE DEF t
<1>4. Len(a) \in Nat /\ Len(r) \in Nat /\ Len(b) = Len(a) + 1
  BY <1>1, <1>2
<1>5. Len(a) + 1 \in 1 .. Len(t) /\ Len(a) + 1 \in 1 .. Len(b) /\ 1 \in 1 .. Len(l)
  BY <1>1, <1>3, <1>4
<1>6. t[Len(a) + 1] = "build"
  BY <1>1, <1>2, <1>3, <1>5
<1>7. ASSUME NEW j \in 1 .. ((Len(a) + 1) - 1) PROVE t[j] # "seed"
  <2>1. j \in 1 .. Len(a) /\ j \in 1 .. Len(b)
    BY <1>4
  <2> QED BY <2>1, <1>2, <1>3 DEF Clean
<1>8. First(t, "build", "seed")
  BY <1>5, <1>6, <1>7 DEF First
<1> QED BY <1>8 DEF t, b, l

Started(k, s) == /\ Fit(k, s) /\ s # <<>> /\ ~ First(s, "unlock", "lock")
                 /\ k = "boot" => Head(s) = "migrate" /\ First(s, "build", "seed")
                 /\ k # "boot" => Head(s) \in {"look", "lock", "list", "create", "erase", "copy", "check"}

\* A program is a part, which ends where a call may end.
LEMMA PartStarts ==
    ASSUME NEW k, NEW s, NEW x, NEW y, Part(k, s, x, y), y \in Ends,
           k # "boot", x \in {"look", "lock", "list", "create", "erase", "copy", "check"}
    PROVE  Started(k, s)
<1>1. s \in Seq(Steps) /\ s # <<>> /\ Head(s) = s[1]
  BY DEF Part, Links
<1> QED BY <1>1 DEF Part, Started, Fit

\* Every program fits its kind.
LEMMA Programs ==
    ASSUME NEW k \in Kinds \ {"none"}
    PROVE  Started(k, Program(k))
<1>0. /\ \A j : Makes(j, "look") => Part(j, Load, "look", "sync") /\ Part(j, Update, "lock", "unlock")
      /\ Clean(Load) /\ Quiet(Load)
  BY LoadUpdateParts, LoadLinks
<1>a. \A j \in Kinds \ {"import", "delete"} : Makes(j, "look")
  BY DEF Kinds, Makes
<1>1. CASE k = "boot"
  <2> DEFINE m == <<"migrate", "unlegacy", "resolve", "ensure">>
             b == <<"build">>
             e == <<"seed">>
  <2>1. Part("boot", m, "migrate", "ensure") /\ Clean(m)
    <3>1. "migrate" \in Steps /\ "unlegacy" \in Steps /\ "resolve" \in Steps /\ "ensure" \in Steps
      BY DEF Steps
    <3>2. Makes("boot", "migrate") /\ Makes("boot", "unlegacy") /\ Makes("boot", "resolve") /\ Makes("boot", "ensure")
      BY DEF Makes
    <3>3. Follows("migrate", "unlegacy") /\ Follows("unlegacy", "resolve") /\ Follows("resolve", "ensure")
      BY DEF Follows
    <3>4. \A x \in {"migrate", "unlegacy", "resolve", "ensure"} : x \notin {"swap", "turn", "unlock", "seed"}
      OBVIOUS
    <3> QED BY <3>1, <3>2, <3>3, <3>4, FourPart
  <2>2. Part("boot", Load, "look", "sync") /\ Part("boot", b, "build", "build") /\ Clean(b)
    BY <1>0, <1>a, StepPart DEF Steps, Makes, Kinds
  <2>3. Part("boot", e, "seed", "seed") /\ Quiet(e)
    BY StepPart DEF Steps, Makes
  <2> HIDE DEF m, b, e
  <2>4. Part("boot", m \o Load, "migrate", "sync") /\ Clean(m \o Load)
    <3>1. Follows("ensure", "look")
      BY DEF Follows
    <3> QED BY <3>1, <2>1, <2>2, <1>0, PartsJoin
  <2>5. Part("boot", (m \o Load) \o b, "migrate", "build") /\ Clean((m \o Load) \o b)
    <3>1. Follows("sync", "build")
      BY DEF Follows
    <3> QED BY <3>1, <2>2, <2>4, PartsJoin
  <2>6. Part("boot", Load \o e, "look", "seed")
    <3>1. Follows("sync", "seed")
      BY DEF Follows
    <3> QED BY <3>1, <2>2, <2>3, <1>0, PartsJoin
  <2>7. Part("boot", ((m \o Load) \o b) \o (Load \o e), "migrate", "seed")
    <3>1. Follows("build", "look")
      BY DEF Follows
    <3> QED BY <3>1, <2>5, <2>6, PartsJoin
  <2>8. First(((m \o Load) \o b) \o (Load \o e), "build", "seed")
    <3>1. m \o Load \in Seq(Steps) /\ Load \o e \in Seq(Steps)
      BY <2>4, <2>6 DEF Part, Links
    <3> QED BY <3>1, <2>4, BuildFirst DEF b
  <2>9. Program("boot") = ((m \o Load) \o b) \o (Load \o e)
    BY DEF Program, Seed, m, b, e
  <2> DEFINE s == ((m \o Load) \o b) \o (Load \o e)
  <2>10. Part("boot", s, "migrate", "seed") /\ First(s, "build", "seed")
    BY <2>7, <2>8
  <2> HIDE DEF s
  <2>11. s \in Seq(Steps) /\ s # <<>> /\ Head(s) = s[1]
    BY <2>10 DEF Part, Links
  <2>12. Started("boot", s)
    BY <2>10, <2>11 DEF Part, Started, Fit, Ends
  <2> QED BY <2>9, <2>12, <1>1 DEF s
<1>2. CASE k = "load"
  <2>1. Part("load", Load, "look", "sync")
    BY <1>0, <1>a DEF Kinds
  <2>2. Started("load", Load)
    BY <2>1, PartStarts DEF Ends
  <2> QED BY <1>2, <2>2 DEF Program
<1>3. CASE k \in {"update", "folder"}
  <2>1. Part(k, Update, "lock", "unlock")
    BY <1>0, <1>a, <1>3 DEF Kinds
  <2>2. Started(k, Update)
    BY <1>3, <2>1, PartStarts DEF Ends
  <2> QED BY <1>3, <2>2 DEF Program
<1>4. CASE k = "history"
  <2> DEFINE b == <<"snapshot">>
  <2>1. /\ Part(k, Load, "look", "sync") /\ Part(k, Update, "lock", "unlock")
        /\ Part(k, b, "snapshot", "snapshot") /\ Clean(b)
    BY <1>0, <1>a, <1>4, StepPart DEF Steps, Makes, Kinds
  <2> HIDE DEF b
  <2>2. Part(k, Load \o b, "look", "snapshot") /\ Clean(Load \o b)
    <3>1. Follows("sync", "snapshot")
      BY DEF Follows
    <3> QED BY <3>1, <2>1, <1>0, PartsJoin
  <2>3. Part(k, (Load \o b) \o Update, "look", "unlock")
    <3>1. Follows("snapshot", "lock")
      BY DEF Follows
    <3> QED BY <3>1, <2>1, <2>2, PartsJoin
  <2>4. Started(k, (Load \o b) \o Update)
    BY <1>4, <2>3, PartStarts DEF Ends
  <2> QED BY <1>4, <2>4 DEF Program, b
<1>5. CASE k = "switch"
  <2> DEFINE e == <<"seed">>
  <2>1. Part(k, Load, "look", "sync") /\ Part(k, e, "seed", "seed") /\ Quiet(e) /\ Part(k, Turn, "lock", "unlock")
    BY <1>0, <1>a, <1>5, StepPart, TurnPart DEF Steps, Makes, Kinds
  <2> HIDE DEF e
  <2>2. Part(k, Load \o e, "look", "seed") /\ Quiet(Load \o e)
    <3>1. Follows("sync", "seed")
      BY DEF Follows
    <3>2. Part(k, Load \o e, "look", "seed")
      BY <3>1, <2>1, <1>0, PartsJoin
    <3>3. Quiet(Load \o e)
      <4>1. Load \in Seq(Steps) /\ e \in Seq(Steps)
        BY <2>1 DEF Part, Links
      <4> QED BY <4>1, <1>0, <2>1, QuietJoin
    <3> QED BY <3>2, <3>3
  <2>3. Part(k, Turn \o (Load \o e), "lock", "seed")
    <3>1. Follows("unlock", "look")
      BY DEF Follows
    <3> QED BY <3>1, <2>1, <2>2, PartsJoin
  <2>4. Part(k, (Turn \o (Load \o e)) \o Load, "lock", "sync")
    <3>1. Follows("seed", "look")
      BY DEF Follows
    <3> QED BY <3>1, <2>1, <2>3, <1>0, PartsJoin
  <2>5. Started(k, (Turn \o (Load \o e)) \o Load)
    BY <1>5, <2>4, PartStarts DEF Ends
  <2> QED BY <1>5, <2>5 DEF Program, Seed, e
<1>6. CASE k = "list"
  <2> DEFINE a == <<"list">>
             b == <<"scoped">>
  <2>1. /\ Part(k, Load, "look", "sync") /\ Part(k, Update, "lock", "unlock")
        /\ Part(k, a, "list", "list") /\ Clean(a) /\ Part(k, b, "scoped", "scoped") /\ Clean(b)
    BY <1>0, <1>a, <1>6, StepPart DEF Steps, Makes, Kinds
  <2> HIDE DEF a, b
  <2>0. Follows("list", "look") /\ Follows("sync", "scoped") /\ Follows("scoped", "lock") /\ Follows("unlock", "look")
    BY DEF Follows
  <2>2. Part(k, a \o Load, "list", "sync") /\ Clean(a \o Load)
    BY <2>0, <2>1, <1>0, PartsJoin
  <2>3. Part(k, (a \o Load) \o b, "list", "scoped") /\ Clean((a \o Load) \o b)
    BY <2>0, <2>1, <2>2, PartsJoin
  <2>4. Part(k, ((a \o Load) \o b) \o Update, "list", "unlock")
    BY <2>0, <2>1, <2>3, PartsJoin
  <2>5. Part(k, (((a \o Load) \o b) \o Update) \o Load, "list", "sync")
    BY <2>0, <2>1, <2>4, <1>0, PartsJoin
  <2>6. Started(k, (((a \o Load) \o b) \o Update) \o Load)
    BY <1>6, <2>5, PartStarts DEF Ends
  <2> QED BY <1>6, <2>6 DEF Program, a, b
<1>7. CASE k = "create"
  <2> DEFINE a == <<"create">>
  <2>1. Part(k, Update, "lock", "unlock") /\ Part(k, a, "create", "create") /\ Clean(a)
    BY <1>0, <1>a, <1>7, StepPart DEF Steps, Makes, Kinds
  <2> HIDE DEF a
  <2>2. Follows("create", "lock")
    BY DEF Follows
  <2>3. Part(k, a \o Update, "create", "unlock")
    BY <2>1, <2>2, PartsJoin
  <2>4. Started(k, a \o Update)
    BY <1>7, <2>3, PartStarts DEF Ends
  <2> QED BY <1>7, <2>4 DEF Program, a
<1>8. CASE k = "remove"
  <2> DEFINE a == <<"erase">>
             b == <<"scoped", "list">>
             c == <<"scoped">>
             d == <<"list">>
  <2>1. /\ Part(k, Load, "look", "sync") /\ Part(k, Update, "lock", "unlock")
        /\ Part(k, a, "erase", "erase") /\ Clean(a) /\ Part(k, c, "scoped", "scoped") /\ Clean(c)
        /\ Part(k, d, "list", "list") /\ Clean(d)
    BY <1>0, <1>a, <1>8, StepPart DEF Steps, Makes, Kinds
  <2>b. b = c \o d
    OBVIOUS
  <2> HIDE DEF a, b, c, d
  <2>0. /\ Follows("erase", "look") /\ Follows("sync", "scoped") /\ Follows("scoped", "list")
        /\ Follows("list", "lock") /\ Follows("unlock", "look")
    BY DEF Follows
  <2>9. Part(k, b, "scoped", "list") /\ Clean(b)
    BY <2>0, <2>1, <2>b, PartsJoin
  <2>2. Part(k, a \o Load, "erase", "sync") /\ Clean(a \o Load)
    BY <2>0, <2>1, <1>0, PartsJoin
  <2>3. Part(k, (a \o Load) \o b, "erase", "list") /\ Clean((a \o Load) \o b)
    BY <2>0, <2>9, <2>2, PartsJoin
  <2>4. Part(k, ((a \o Load) \o b) \o Update, "erase", "unlock")
    BY <2>0, <2>1, <2>3, PartsJoin
  <2>5. Part(k, (((a \o Load) \o b) \o Update) \o Load, "erase", "sync")
    BY <2>0, <2>1, <2>4, <1>0, PartsJoin
  <2>6. Started(k, (((a \o Load) \o b) \o Update) \o Load)
    BY <1>8, <2>5, PartStarts DEF Ends
  <2> QED BY <1>8, <2>6 DEF Program, a, b
<1>9. CASE k = "import"
  <2>1. Part(k, <<"copy", "parse", "fill", "forget">>, "copy", "forget")
    <3>1. "copy" \in Steps /\ "parse" \in Steps /\ "fill" \in Steps /\ "forget" \in Steps
      BY DEF Steps
    <3>2. Makes(k, "copy") /\ Makes(k, "parse") /\ Makes(k, "fill") /\ Makes(k, "forget")
      BY <1>9 DEF Makes
    <3>3. Follows("copy", "parse") /\ Follows("parse", "fill") /\ Follows("fill", "forget")
      BY DEF Follows
    <3>4. \A x \in {"copy", "parse", "fill", "forget"} : x \notin {"swap", "turn", "unlock", "seed"}
      OBVIOUS
    <3> QED BY <3>1, <3>2, <3>3, <3>4, FourPart
  <2>2. Started(k, <<"copy", "parse", "fill", "forget">>)
    BY <1>9, <2>1, PartStarts DEF Ends
  <2> QED BY <1>9, <2>2 DEF Program
<1>10. CASE k = "delete"
  <2> DEFINE a == <<"check">>
             b == <<"discard">>
             c == <<"check", "discard">>
  <2>1. Part(k, a, "check", "check") /\ Clean(a) /\ Part(k, b, "discard", "discard")
    BY <1>10, StepPart DEF Steps, Makes
  <2>2. Follows("check", "discard")
    BY DEF Follows
  <2>3. c = a \o b
    OBVIOUS
  <2> HIDE DEF a, b, c
  <2>4. Part(k, a \o b, "check", "discard")
    BY <2>1, <2>2, PartsJoin
  <2>5. Started(k, c)
    BY <1>10, <2>3, <2>4, PartStarts DEF Ends
  <2> QED BY <1>10, <2>5 DEF Program, c
<1> QED BY <1>1, <1>2, <1>3, <1>4, <1>5, <1>6, <1>7, <1>8, <1>9, <1>10 DEF Kinds

----------------------------------------------------------------------------
(* Profiles, and what the steps make of them *)

\* No file and a damaged file are no profiles.
LEMMA NotConfigs == /\ None \notin Configs /\ Malformed \notin Configs /\ Malformed # None
                    /\ \A c \in Configs : c # None /\ c # Malformed
<1>1. Malformed \notin Configs
  BY NamesAssumption DEF Malformed, Configs
<1> QED BY <1>1, NoneAssumption

\* A new profile is one.
LEMMA DefaultIsConfig == defaultConfig \in Configs
  BY NamesAssumption, BoundAssumption DEF defaultConfig, Configs

\* Parsing fills in the keys that miss, and leaves what there is.
LEMMA ParseKeeps ==
    ASSUME NEW c \in Configs
    PROVE  /\ parseUserConfig(c) \in Configs
           /\ parseUserConfig(c).folder = c.folder /\ parseUserConfig(c).note = c.note
           /\ c.whole => parseUserConfig(c) = c
  BY DEF parseUserConfig, Configs

\* What a profile shows are templates.
LEMMA ShownTemplates ==
    ASSUME NEW c \in Configs
    PROVE  Shown(c) \in SUBSET Templates
  BY DEF Shown, Configs

\* A patched profile is a profile.
LEMMA PatchedIsConfig ==
    ASSUME NEW x \in Patches, NEW c \in Configs
    PROVE  Patched(x, c) \in Configs
<1>1. CASE x.key \in {"note", "history"}
  <2>1. x.to \in 0 .. MaxCalls
    BY <1>1 DEF Patches
  <2> QED BY <1>1, <2>1 DEF Patched, Configs
<1>2. CASE x.key = "folder"
  <2>1. x.to \in Folders
    BY <1>2 DEF Patches
  <2> QED BY <1>2, <2>1 DEF Patched, Configs
<1>3. CASE x.key = "seed"
  <2>1. x.to \in SUBSET Templates
    BY <1>3 DEF Patches
  <2> QED BY <1>3, <2>1 DEF Patched, Configs
<1>4. CASE x.key = "show"
  <2>1. x.to \in Templates /\ Shown(c) \in SUBSET Templates
    BY <1>4, ShownTemplates DEF Patches
  <2>2. Shown(c) \cup {x.to} \in SUBSET Templates
    BY <2>1
  <2> HIDE DEF Shown
  <2> QED BY <1>4, <2>2 DEF Patched, Configs
<1>5. CASE x.key = "hide"
  <2>1. Shown(c) \in SUBSET Templates
    BY ShownTemplates
  <2>2. Shown(c) \ {x.to} \in SUBSET Templates
    BY <2>1
  <2> QED BY <1>5, <2>2 DEF Patched, Configs
<1>6. CASE x.key = "enable"
  <2>1. x.to \in Templates
    BY <1>6 DEF Patches
  <2>2. CASE Shown(c) = {}
    BY <1>6, <2>2 DEF Patched
  <2>3. CASE Shown(c) # {}
    <3>1. c.on \in SUBSET Templates
      BY <2>3 DEF Shown, Configs
    <3>2. c.on \cup {x.to} \in SUBSET Templates
      BY <3>1, <2>1
    <3> QED BY <1>6, <2>3, <3>2 DEF Patched, Configs
  <2> QED BY <2>2, <2>3
<1>7. CASE x.key = "prune"
  <2>2. CASE Shown(c) = {}
    BY <1>7, <2>2 DEF Patched
  <2>3. CASE Shown(c) # {}
    <3>1. c.on \in SUBSET Templates
      BY <2>3 DEF Shown, Configs
    <3>2. c.on \cap x.to \in SUBSET Templates
      BY <3>1
    <3> QED BY <1>7, <2>3, <3>2 DEF Patched, Configs
  <2> QED BY <2>2, <2>3
<1>8. x.key \in {"note", "history", "folder", "seed", "prune", "show", "hide", "enable"}
  BY DEF Patches
<1> QED BY <1>1, <1>2, <1>3, <1>4, <1>5, <1>6, <1>7, <1>8

\* A snapshot that has seen the note as it is changes nothing beside its stack.
LEMMA SnapshotOwesNothing ==
    ASSUME NEW x, NEW c \in Configs, x.key = "history" => c.note = x.to
    PROVE  Owed(x, c) = Patched(x, c)
  BY DEF Owed, Patched, Configs

----------------------------------------------------------------------------
(* A call that goes on *)

\* g goes on with the steps s, asking for p, reading a and with v in hand.
Turned(g, s, p, a, v) ==
    /\ call' \in [Threads -> Calls]
    /\ \A h \in Threads : h # g => call'[h] = call[h]
    /\ s = <<>> => call'[g] = Idle
    /\ s # <<>> => /\ call'[g].kind = call[g].kind /\ call'[g].to = call[g].to /\ call'[g].todo = s
                   /\ call'[g].patch = p /\ call'[g].at = a /\ call'[g].got = v

\* What an idle thread has.
LEMMA IdleCall == /\ Idle \in Calls /\ Idle.kind = "none" /\ Idle.todo = <<>> /\ Idle.to = None
                  /\ Idle.patch = NoPatch /\ Idle.at = None /\ Idle.got = None
  BY BoundAssumption DEF Idle, Calls, Kinds, Patches, NoPatch

\* A call goes on with what is left of it, or is over when nothing is.
LEMMA BecomesTurned ==
    ASSUME TypeInv, NEW g \in Threads, NEW c \in Calls, c.kind = call[g].kind, c.to = call[g].to,
           Becomes(g, c)
    PROVE  Turned(g, c.todo, c.patch, c.at, c.got)
<1>1. call \in [Threads -> Calls]
  BY DEF TypeInv
<1>2. (IF c.todo = <<>> THEN Idle ELSE c) \in Calls
  BY IdleCall
<1> HIDE DEF Calls, Idle
<1>3. /\ call' \in [Threads -> Calls]
      /\ call'[g] = IF c.todo = <<>> THEN Idle ELSE c
      /\ \A h \in Threads : h # g => call'[h] = call[h]
  BY <1>1, <1>2 DEF Becomes
<1> QED BY <1>3 DEF Turned

\* g goes on to one of the steps S, or its call ends.
Moved(g, S, p, a, v) ==
    /\ call' \in [Threads -> Calls]
    /\ \A h \in Threads : h # g => call'[h] = call[h]
    /\ \/ call'[g] = Idle
       \/ /\ call'[g].kind = call[g].kind /\ call'[g].to = call[g].to
          /\ call'[g].todo # <<>> /\ Head(call'[g].todo) \in S /\ Fit(call[g].kind, call'[g].todo)
          /\ call'[g].patch = p /\ call'[g].at = a /\ call'[g].got = v

\* g has the lock after this step as it had before.
Keeps(g) == First(call'[g].todo, "unlock", "lock") <=> First(call[g].todo, "unlock", "lock")

\* What was still to be built is still to be built.
Builds(g) == First(call[g].todo, "build", "seed") => First(call'[g].todo, "build", "seed")

\* Who comes to a step has a call that makes it.
LEMMA AtStep ==
    ASSUME TInv, NEW g \in Threads, NEW x, At(g, x)
    PROVE  /\ Busy(g) /\ call[g] \in Calls /\ call[g].todo # <<>> /\ Head(call[g].todo) = x
           /\ Fit(call[g].kind, call[g].todo) /\ Makes(call[g].kind, x)
           /\ call[g].todo \in Seq(Steps) /\ call[g].todo[1] = x /\ Len(call[g].todo) \in Nat \ {0}
<1>1. call[g].todo # <<>> /\ Head(call[g].todo) = x
  BY DEF At
<1>2. Busy(g)
  BY <1>1, IdleCall DEF TInv, Ready
<1>3. Fit(call[g].kind, call[g].todo)
  BY <1>2 DEF TInv, Ready
<1>4. call[g] \in Calls
  BY DEF TInv, TypeInv
<1> QED BY <1>1, <1>2, <1>3, <1>4, OneStep

\* Nothing is first where there is nothing.
LEMMA EmptyFirst == ~ First(<<>>, "build", "seed") /\ ~ First(<<>>, "unlock", "lock")
  BY DEF First

\* Several steps at once, none about the lock, the build or the seed.
LEMMA MovedMany ==
    ASSUME TInv, NEW g \in Threads, NEW x, At(g, x), NEW n \in 1 .. Len(call[g].todo),
           \A i \in 1 .. n : call[g].todo[i] \notin {"lock", "unlock", "build", "seed"},
           NEW S, n < Len(call[g].todo) => call[g].todo[n + 1] \in S,
           NEW p, NEW a, NEW v, Turned(g, Drop(n, call[g].todo), p, a, v)
    PROVE  Moved(g, S, p, a, v) /\ Keeps(g) /\ Builds(g)
<1> DEFINE s == call[g].todo
           t == Drop(n, s)
<1>1. s \in Seq(Steps) /\ Fit(call[g].kind, s) /\ Len(s) \in Nat \ {0}
  BY AtStep
<1>2. n \in 0 .. Len(s) /\ n \in Nat
  BY <1>1
<1>3. Fit(call[g].kind, t)
  BY <1>1, <1>2, DropFits
<1>4. /\ t \in Seq(Steps)
      /\ Len(t) = Len(s) - n
      /\ \A i \in 1 .. (Len(s) - n) : t[i] = s[n + i]
  BY <1>1, <1>2, DropWhole
<1>5. First(t, "unlock", "lock") <=> First(s, "unlock", "lock")
  <2>1. \A i \in 1 .. n : s[i] # "unlock" /\ s[i] # "lock"
    OBVIOUS
  <2> QED BY <2>1, <1>1, <1>2, DropFirst
<1>6. First(t, "build", "seed") <=> First(s, "build", "seed")
  <2>1. \A i \in 1 .. n : s[i] # "build" /\ s[i] # "seed"
    OBVIOUS
  <2> QED BY <2>1, <1>1, <1>2, DropFirst
<1>7. Turned(g, t, p, a, v)
  OBVIOUS
<1>8. n < Len(s) => s[n + 1] \in S
  OBVIOUS
<1> HIDE DEF t
<1>9. CASE t = <<>>
  <2>1. call'[g] = Idle
    BY <1>7, <1>9 DEF Turned
  <2>2. ~ First(s, "unlock", "lock") /\ ~ First(s, "build", "seed")
    BY <1>5, <1>6, <1>9, EmptyFirst
  <2>3. Keeps(g) /\ Builds(g)
    BY <2>1, <2>2, IdleCall, EmptyFirst DEF Keeps, Builds
  <2> QED BY <2>1, <2>3, <1>7 DEF Moved, Turned
<1>10. CASE t # <<>>
  <2>1. Len(t) >= 1 /\ Head(t) = t[1] /\ n < Len(s) /\ 1 \in 1 .. (Len(s) - n)
    BY <1>1, <1>2, <1>4, <1>10
  <2>2. Head(t) \in S
    BY <2>1, <1>4, <1>8
  <2>3. call'[g].todo = t
    BY <1>7, <1>10 DEF Turned
  <2>4. Keeps(g) /\ Builds(g)
    BY <2>3, <1>5, <1>6 DEF Keeps, Builds
  <2>5. Moved(g, S, p, a, v)
    BY <2>2, <2>3, <1>3, <1>7, <1>10 DEF Moved, Turned
  <2> QED BY <2>4, <2>5
<1> QED BY <1>9, <1>10

Nexts(x) == {y \in Steps : Follows(x, y)}

\* One step.
LEMMA MovedOne ==
    ASSUME TInv, NEW g \in Threads, NEW x, At(g, x),
           NEW p, NEW a, NEW v, Turned(g, Drop(1, call[g].todo), p, a, v)
    PROVE  /\ Moved(g, Nexts(x), p, a, v)
           /\ x \notin {"lock", "unlock"} => Keeps(g)
           /\ x = "unlock" => ~ First(call'[g].todo, "unlock", "lock")
           /\ x # "build" => Builds(g)
<1> DEFINE s == call[g].todo
           t == Drop(1, s)
<1>1. /\ s \in Seq(Steps) /\ Fit(call[g].kind, s) /\ Len(s) \in Nat \ {0} /\ s # <<>> /\ Head(s) = x /\ s[1] = x
  BY AtStep
<1>2. 1 \in 0 .. Len(s) /\ \A i \in 1 .. 1 : s[i] = x
  BY <1>1
<1>3. /\ t \in Seq(Steps) /\ Fit(call[g].kind, t)
      /\ t # <<>> => Follows(x, Head(t))
  BY <1>1, OneStep
<1>4. Len(t) = Len(s) - 1 /\ \A i \in 1 .. (Len(s) - 1) : t[i] = s[1 + i]
  BY <1>1, <1>2, DropWhole
<1>5. x \notin {"lock", "unlock"} => (First(t, "unlock", "lock") <=> First(s, "unlock", "lock"))
  <2> SUFFICES ASSUME x \notin {"lock", "unlock"} PROVE First(t, "unlock", "lock") <=> First(s, "unlock", "lock")
    OBVIOUS
  <2>1. \A i \in 1 .. 1 : s[i] # "unlock" /\ s[i] # "lock"
    BY <1>2
  <2> QED BY <2>1, <1>1, <1>2, DropFirst
<1>6. x # "build" => (First(s, "build", "seed") => First(t, "build", "seed"))
  <2>1. CASE x = "seed"
    <3> SUFFICES ASSUME NEW i \in 1 .. Len(s), s[i] = "build", \A j \in 1 .. (i - 1) : s[j] # "seed"
                 PROVE  FALSE
      BY DEF First
    <3>1. i # 1
      BY <2>1, <1>1
    <3>2. 1 \in 1 .. (i - 1)
      BY <3>1, <1>1
    <3> QED BY <3>2, <2>1, <1>1
  <2>2. CASE x # "seed" /\ x # "build"
    <3>1. \A i \in 1 .. 1 : s[i] # "build" /\ s[i] # "seed"
      BY <2>2, <1>2
    <3> QED BY <3>1, <1>1, <1>2, DropFirst
  <2> QED BY <2>1, <2>2
<1>7. x = "unlock" => ~ First(t, "unlock", "lock")
  <2> SUFFICES ASSUME x = "unlock", NEW i \in 1 .. Len(t), t[i] = "unlock" PROVE FALSE
    BY DEF First
  <2>1. 1 \in 1 .. Len(s) /\ 1 + i \in 1 .. Len(s) /\ 1 < 1 + i /\ t[i] = s[1 + i]
    BY <1>1, <1>4
  <2>2. s[1 + i] # "unlock"
    BY <2>1, <1>1 DEF Fit, Links
  <2> QED BY <2>1, <2>2
<1>8. Turned(g, t, p, a, v)
  OBVIOUS
<1>9. t # <<>> => Head(t) \in Nexts(x)
  <2>1. t # <<>> => Head(t) \in Steps
    <3> HIDE DEF Steps
    <3> QED BY <1>3
  <2> QED BY <2>1, <1>3 DEF Nexts
<1> HIDE DEF t, Nexts
<1>10. CASE t = <<>>
  <2>1. call'[g] = Idle
    BY <1>8, <1>10 DEF Turned
  <2> QED BY <2>1, <1>5, <1>6, <1>8, <1>10, IdleCall, EmptyFirst DEF Keeps, Builds, Moved, Turned
<1>11. CASE t # <<>>
  <2>1. call'[g].todo = t
    BY <1>8, <1>11 DEF Turned
  <2>2. Moved(g, Nexts(x), p, a, v)
    BY <2>1, <1>3, <1>8, <1>9, <1>11 DEF Moved, Turned
  <2> QED BY <2>1, <2>2, <1>5, <1>6, <1>7 DEF Keeps, Builds
<1> QED BY <1>10, <1>11

\* The rest of a load at once.
AfterLoad == {"write", "unlock", "build", "seed", "scoped", "snapshot"}

\* The rest of a load at once.
LEMMA MovedLoad ==
    ASSUME TInv, NEW g \in Threads, NEW x, NEW n, (x = "look" /\ n = 4) \/ (x = "keep" /\ n = 2), At(g, x),
           NEW p, NEW a, NEW v, Turned(g, Drop(n, call[g].todo), p, a, v)
    PROVE  Moved(g, AfterLoad, p, a, v) /\ Keeps(g) /\ Builds(g)
<1> DEFINE s == call[g].todo
<1>1. /\ s \in Seq(Steps) /\ Fit(call[g].kind, s) /\ Len(s) \in Nat \ {0} /\ s # <<>> /\ Head(s) = x
  BY AtStep
<1>2. n \in 1 .. Len(s) /\ \A i \in 1 .. n : s[i] \in {"look", "read", "keep", "sync"}
  BY <1>1, LoadAhead
<1>3. n < Len(s) => Follows("sync", s[n + 1])
  BY <1>1, LoadAhead
<1>4. n < Len(s) => s[n + 1] \in AfterLoad
  BY <1>3 DEF Follows, AfterLoad
<1>5. \A i \in 1 .. n : s[i] \notin {"lock", "unlock", "build", "seed"}
  BY <1>2
<1> QED BY <1>2, <1>4, <1>5, MovedMany

\* A mutation that changes nothing.
LEMMA MovedWrite ==
    ASSUME TInv, NEW g \in Threads, At(g, "write"),
           NEW p, NEW a, NEW v, Turned(g, Drop(3, call[g].todo), p, a, v)
    PROVE  Moved(g, {"unlock"}, p, a, v) /\ Keeps(g) /\ Builds(g)
<1> DEFINE s == call[g].todo
<1>1. /\ s \in Seq(Steps) /\ Fit(call[g].kind, s) /\ Len(s) \in Nat \ {0} /\ s # <<>> /\ Head(s) = "write"
  BY AtStep
<1>2. Len(s) >= 4 /\ s[1] = "write" /\ s[2] = "swap" /\ s[3] = "sync" /\ s[4] = "unlock"
  BY <1>1, LoadAhead
<1>3. 3 \in 1 .. Len(s) /\ 3 < Len(s) /\ s[3 + 1] = "unlock"
  BY <1>1, <1>2
<1>4. \A i \in 1 .. 3 : s[i] \notin {"lock", "unlock", "build", "seed"}
  BY <1>2
<1>5. 3 < Len(s) => s[3 + 1] \in {"unlock"}
  BY <1>3
<1> QED BY <1>3, <1>4, <1>5, MovedMany

\* Who is about to write, swap, move the pointer or turn has the lock.
LEMMA HoldsAt ==
    ASSUME TInv, NEW g \in Threads, At(g, "write") \/ At(g, "swap") \/ At(g, "point") \/ At(g, "turn")
    PROVE  Holds(g)
<1> DEFINE s == call[g].todo
<1>1. /\ s \in Seq(Steps) /\ Fit(call[g].kind, s) /\ Len(s) \in Nat \ {0} /\ s # <<>> /\ Head(s) = s[1]
      /\ s[1] \in {"write", "swap", "point", "turn"}
  BY AtStep DEF At
<1>2. CASE s[1] \in {"write", "point"}
  <2>1. Len(s) >= 4 /\ s[2] # "lock" /\ s[3] # "lock" /\ s[4] = "unlock"
    BY <1>1, <1>2, LoadAhead
  <2>2. 4 \in 1 .. Len(s) /\ \A j \in 1 .. (4 - 1) : s[j] # "lock"
    BY <2>1, <1>1, <1>2
  <2>3. First(s, "unlock", "lock")
    BY <2>1, <2>2 DEF First
  <2> QED BY <2>3 DEF Holds
<1>3. CASE s[1] \in {"swap", "turn"}
  <2>1. Len(s) >= 3 /\ s[2] # "lock" /\ s[3] = "unlock"
    BY <1>1, <1>3, LoadAhead
  <2>2. 3 \in 1 .. Len(s) /\ \A j \in 1 .. (3 - 1) : s[j] # "lock"
    BY <2>1, <1>1, <1>3
  <2>3. First(s, "unlock", "lock")
    BY <2>1, <2>2 DEF First
  <2> QED BY <2>3 DEF Holds
<1> QED BY <1>1, <1>2, <1>3

\* g's call with n of its steps done.
LEMMA GoFields ==
    ASSUME TInv, NEW g \in Threads, NEW n \in 0 .. Len(call[g].todo)
    PROVE  /\ TypeInv /\ Go(g, n) \in Calls /\ Go(g, n).kind = call[g].kind /\ Go(g, n).to = call[g].to
           /\ Go(g, n).todo = Drop(n, call[g].todo) /\ Go(g, n).patch = call[g].patch
           /\ Go(g, n).at = call[g].at /\ Go(g, n).got = call[g].got
<1> DEFINE c == call[g]
           s == Drop(n, c.todo)
           e == [c EXCEPT !.todo = s]
<1>1. c \in Calls /\ TypeInv
  BY DEF TInv, TypeInv
<1>2. s \in Seq(Steps)
  BY <1>1, DropWhole DEF Calls
<1>3. Go(g, n) = e
  BY DEF Go
<1> HIDE DEF c, s
<1>4. /\ e \in Calls /\ e.kind = c.kind /\ e.to = c.to /\ e.todo = s /\ e.patch = c.patch /\ e.at = c.at /\ e.got = c.got
  BY <1>1, <1>2 DEF Calls
<1> QED BY <1>1, <1>3, <1>4 DEF c, s

\* It may go on like that, or with other locals.
LEMMA GoTurned ==
    ASSUME TInv, NEW g \in Threads, NEW n \in 0 .. Len(call[g].todo),
           Becomes(g, Go(g, n))
    PROVE  Turned(g, Drop(n, call[g].todo), call[g].patch, call[g].at, call[g].got)
<1> DEFINE e == Go(g, n)
           d == e
<1>1. /\ TypeInv /\ e \in Calls /\ e.kind = call[g].kind /\ e.to = call[g].to
      /\ e.todo = Drop(n, call[g].todo) /\ e.patch = call[g].patch
      /\ e.at = call[g].at /\ e.got = call[g].got
  BY GoFields
<1>2. Becomes(g, d)
  OBVIOUS
<1> HIDE DEF e
<1>3. /\ d \in Calls /\ d.kind = call[g].kind /\ d.to = call[g].to /\ d.todo = Drop(n, call[g].todo)
      /\ d.patch = call[g].patch /\ d.at = call[g].at /\ d.got = call[g].got
  BY <1>1 DEF Calls
<1> HIDE DEF d
<1> QED BY <1>1, <1>2, <1>3, BecomesTurned

\* With a profile in hand.
LEMMA GoGot ==
    ASSUME TInv, NEW g \in Threads, NEW n \in 0 .. Len(call[g].todo), NEW v \in Configs \cup {None},
           Becomes(g, [Go(g, n) EXCEPT !.got = v])
    PROVE  Turned(g, Drop(n, call[g].todo), call[g].patch, call[g].at, v)
<1> DEFINE e == Go(g, n)
           d == [e EXCEPT !.got = v]
<1>1. /\ TypeInv /\ e \in Calls /\ e.kind = call[g].kind /\ e.to = call[g].to
      /\ e.todo = Drop(n, call[g].todo) /\ e.patch = call[g].patch
      /\ e.at = call[g].at /\ e.got = call[g].got
  BY GoFields
<1>2. Becomes(g, d)
  OBVIOUS
<1> HIDE DEF e
<1>3. /\ d \in Calls /\ d.kind = call[g].kind /\ d.to = call[g].to /\ d.todo = Drop(n, call[g].todo)
      /\ d.patch = call[g].patch /\ d.at = call[g].at /\ d.got = v
  BY <1>1 DEF Calls
<1> HIDE DEF d
<1> QED BY <1>1, <1>2, <1>3, BecomesTurned

\* With a file to read.
LEMMA GoAt ==
    ASSUME TInv, NEW g \in Threads, NEW n \in 0 .. Len(call[g].todo), NEW a \in Profiles,
           Becomes(g, [Go(g, n) EXCEPT !.at = a])
    PROVE  Turned(g, Drop(n, call[g].todo), call[g].patch, a, call[g].got)
<1> DEFINE e == Go(g, n)
           d == [e EXCEPT !.at = a]
<1>1. /\ TypeInv /\ e \in Calls /\ e.kind = call[g].kind /\ e.to = call[g].to
      /\ e.todo = Drop(n, call[g].todo) /\ e.patch = call[g].patch
      /\ e.at = call[g].at /\ e.got = call[g].got
  BY GoFields
<1>2. Becomes(g, d)
  OBVIOUS
<1> HIDE DEF e
<1>3. /\ d \in Calls /\ d.kind = call[g].kind /\ d.to = call[g].to /\ d.todo = Drop(n, call[g].todo)
      /\ d.patch = call[g].patch /\ d.at = a /\ d.got = call[g].got
  BY <1>1 DEF Calls
<1> HIDE DEF d
<1> QED BY <1>1, <1>2, <1>3, BecomesTurned

\* With what was read.
LEMMA GoLoaded ==
    ASSUME TInv, NEW g \in Threads, NEW n \in 0 .. Len(call[g].todo), NEW v \in Configs \cup {None},
           Becomes(g, [Go(g, n) EXCEPT !.got = v, !.at = None])
    PROVE  Turned(g, Drop(n, call[g].todo), call[g].patch, None, v)
<1> DEFINE e == Go(g, n)
           d == [e EXCEPT !.got = v, !.at = None]
<1>1. /\ TypeInv /\ e \in Calls /\ e.kind = call[g].kind /\ e.to = call[g].to
      /\ e.todo = Drop(n, call[g].todo) /\ e.patch = call[g].patch
      /\ e.at = call[g].at /\ e.got = call[g].got
  BY GoFields
<1>2. Becomes(g, d)
  OBVIOUS
<1> HIDE DEF e
<1>3. /\ d \in Calls /\ d.kind = call[g].kind /\ d.to = call[g].to /\ d.todo = Drop(n, call[g].todo)
      /\ d.patch = call[g].patch /\ d.at = None /\ d.got = v
  BY <1>1 DEF Calls
<1> HIDE DEF d
<1> QED BY <1>1, <1>2, <1>3, BecomesTurned

\* With something to ask for.
LEMMA GoPatch ==
    ASSUME TInv, NEW g \in Threads, NEW n \in 0 .. Len(call[g].todo), NEW p \in Patches,
           Becomes(g, [Go(g, n) EXCEPT !.patch = p])
    PROVE  Turned(g, Drop(n, call[g].todo), p, call[g].at, call[g].got)
<1> DEFINE e == Go(g, n)
           d == [e EXCEPT !.patch = p]
<1>1. /\ TypeInv /\ e \in Calls /\ e.kind = call[g].kind /\ e.to = call[g].to
      /\ e.todo = Drop(n, call[g].todo) /\ e.patch = call[g].patch
      /\ e.at = call[g].at /\ e.got = call[g].got
  BY GoFields
<1>2. Becomes(g, d)
  OBVIOUS
<1> HIDE DEF e
<1>3. /\ d \in Calls /\ d.kind = call[g].kind /\ d.to = call[g].to /\ d.todo = Drop(n, call[g].todo)
      /\ d.patch = p /\ d.at = call[g].at /\ d.got = call[g].got
  BY <1>1 DEF Calls
<1> HIDE DEF d
<1> QED BY <1>1, <1>2, <1>3, BecomesTurned

\* g goes on to one of the steps S with or without the lock as before.
Effect(g, S, p, a, v) == Moved(g, S, p, a, v) /\ Keeps(g) /\ Builds(g)

\* One step, none of the lock's.
LEMMA OneOf ==
    ASSUME TInv, NEW g \in Threads, NEW x, At(g, x), NEW p, NEW a, NEW v, Turned(g, Drop(1, call[g].todo), p, a, v),
           x \notin {"lock", "unlock", "build"}
    PROVE  Effect(g, Nexts(x), p, a, v)
  BY MovedOne DEF Effect

\* What may come after each step.
LEMMA NextSets ==
    /\ Nexts("look") = {"read"} /\ Nexts("read") = {"keep"} /\ Nexts("sync") = AfterLoad
    /\ Nexts("lock") = {"look", "point"} /\ Nexts("unlock") = {"look"}
    /\ Nexts("write") = {"swap"} /\ Nexts("swap") = {"sync"}
    /\ Nexts("point") = {"turn"} /\ Nexts("turn") = {"ensure"} /\ Nexts("ensure") = {"unlock", "look"}
    /\ Nexts("seed") = {"look"} /\ Nexts("list") = {"look", "lock"} /\ Nexts("scoped") = {"lock", "list"}
    /\ Nexts("create") = {"lock"} /\ Nexts("erase") = {"look"} /\ Nexts("snapshot") = {"lock"}
    /\ Nexts("copy") = {"parse"} /\ Nexts("parse") = {"fill"} /\ Nexts("fill") = {"forget"} /\ Nexts("forget") = {}
    /\ Nexts("check") = {"discard"} /\ Nexts("discard") = {}
    /\ Nexts("migrate") = {"unlegacy"} /\ Nexts("unlegacy") = {"resolve"} /\ Nexts("resolve") = {"ensure"}
    /\ Nexts("build") = {"look"}
<1>1. \A x, y : y \in Nexts(x) <=> y \in Steps /\ Follows(x, y)
  BY DEF Nexts
<1>2. Nexts("look") = {"read"}
  BY <1>1 DEF Follows, Steps
<1>3. Nexts("read") = {"keep"}
  BY <1>1 DEF Follows, Steps
<1>4. Nexts("sync") = AfterLoad
  BY <1>1 DEF Follows, Steps, AfterLoad
<1>5. Nexts("lock") = {"look", "point"} /\ Nexts("unlock") = {"look"}
  BY <1>1 DEF Follows, Steps
<1>6. Nexts("write") = {"swap"} /\ Nexts("swap") = {"sync"}
  BY <1>1 DEF Follows, Steps
<1>7. Nexts("point") = {"turn"} /\ Nexts("turn") = {"ensure"} /\ Nexts("ensure") = {"unlock", "look"}
  BY <1>1 DEF Follows, Steps
<1>8. Nexts("seed") = {"look"} /\ Nexts("list") = {"look", "lock"} /\ Nexts("scoped") = {"lock", "list"}
  BY <1>1 DEF Follows, Steps
<1>9. Nexts("create") = {"lock"} /\ Nexts("erase") = {"look"} /\ Nexts("snapshot") = {"lock"}
  BY <1>1 DEF Follows, Steps
<1>10. Nexts("copy") = {"parse"} /\ Nexts("parse") = {"fill"} /\ Nexts("fill") = {"forget"} /\ Nexts("forget") = {}
  BY <1>1 DEF Follows, Steps
<1>11. Nexts("check") = {"discard"} /\ Nexts("discard") = {}
  BY <1>1 DEF Follows, Steps
<1>12. Nexts("migrate") = {"unlegacy"} /\ Nexts("unlegacy") = {"resolve"} /\ Nexts("resolve") = {"ensure"}
  BY <1>1 DEF Follows, Steps
<1>13. Nexts("build") = {"look"}
  BY <1>1 DEF Follows, Steps
<1> QED BY <1>2, <1>3, <1>4, <1>5, <1>6, <1>7, <1>8, <1>9, <1>10, <1>11, <1>12, <1>13

\* A call that ends.
LEMMA IdleTurned ==
    ASSUME TInv, NEW g \in Threads, Becomes(g, Idle) \/ Return(g)
    PROVE  call' \in [Threads -> Calls] /\ call'[g] = Idle /\ \A h \in Threads : h # g => call'[h] = call[h]
<1>1. call \in [Threads -> Calls]
  BY DEF TInv, TypeInv
<1> HIDE DEF Idle, Calls
<1>2. call' = [call EXCEPT ![g] = Idle]
  BY DEF Becomes, Return
<1> QED BY <1>1, <1>2, IdleCall

\* One step, the locals as they were.
LEMMA GoOne ==
    ASSUME TInv, NEW g \in Threads, NEW x, At(g, x), Becomes(g, Go(g, 1))
    PROVE  /\ Moved(g, Nexts(x), call[g].patch, call[g].at, call[g].got)
           /\ x \notin {"lock", "unlock"} => Keeps(g)
           /\ x = "unlock" => ~ First(call'[g].todo, "unlock", "lock")
           /\ x # "build" => Builds(g)
<1>1. Busy(g) /\ Len(call[g].todo) \in Nat \ {0}
  BY AtStep
<1>2. 1 \in 0 .. Len(call[g].todo)
  BY <1>1
<1>3. Turned(g, Drop(1, call[g].todo), call[g].patch, call[g].at, call[g].got)
  BY <1>1, <1>2, GoTurned
<1> QED BY <1>3, MovedOne

\* One step, with v in hand.
LEMMA GotOne ==
    ASSUME TInv, NEW g \in Threads, NEW x, At(g, x), NEW v \in Configs \cup {None},
           Becomes(g, [Go(g, 1) EXCEPT !.got = v]), x \notin {"lock", "unlock", "build"}
    PROVE  Effect(g, Nexts(x), call[g].patch, call[g].at, v)
<1>1. Busy(g) /\ Len(call[g].todo) \in Nat \ {0}
  BY AtStep
<1>2. 1 \in 0 .. Len(call[g].todo)
  BY <1>1
<1>3. Turned(g, Drop(1, call[g].todo), call[g].patch, call[g].at, v)
  BY <1>1, <1>2, GoGot
<1> QED BY <1>3, OneOf

\* One step, asking for p.
LEMMA PatchOne ==
    ASSUME TInv, NEW g \in Threads, NEW x, At(g, x), NEW p \in Patches,
           Becomes(g, [Go(g, 1) EXCEPT !.patch = p]), x \notin {"lock", "unlock", "build"}
    PROVE  Effect(g, Nexts(x), p, call[g].at, call[g].got)
<1>1. Busy(g) /\ Len(call[g].todo) \in Nat \ {0}
  BY AtStep
<1>2. 1 \in 0 .. Len(call[g].todo)
  BY <1>1
<1>3. Turned(g, Drop(1, call[g].todo), p, call[g].at, call[g].got)
  BY <1>1, <1>2, GoPatch
<1> QED BY <1>3, OneOf

\* A load finds the profile in the cache, or goes on to read its file.
LEMMA LookMoves ==
    ASSUME TInv, NEW g \in Threads, Look(g)
    PROVE  /\ cached # None => Effect(g, AfterLoad, call[g].patch, call[g].at, cached)
           /\ cached = None => path \in Profiles /\ Effect(g, {"read"}, call[g].patch, path, call[g].got)
<1>1. At(g, "look")
  BY DEF Look
<1>2. Busy(g) /\ Len(call[g].todo) \in Nat \ {0} /\ Fit(call[g].kind, call[g].todo) /\ call[g].todo # <<>> /\ Head(call[g].todo) = "look"
  BY <1>1, AtStep
<1>3. CASE cached # None
  <2>1. 4 \in 0 .. Len(call[g].todo)
    BY <1>2, LoadAhead
  <2>2. Becomes(g, [Go(g, 4) EXCEPT !.got = cached]) /\ cached \in Configs \cup {None}
    BY <1>3 DEF Look, TInv, TypeInv
  <2>3. Turned(g, Drop(4, call[g].todo), call[g].patch, call[g].at, cached)
    BY <1>2, <2>1, <2>2, GoGot
  <2>4. Effect(g, AfterLoad, call[g].patch, call[g].at, cached)
    BY <1>1, <2>3, MovedLoad DEF Effect
  <2> QED BY <1>3, <2>4
<1>4. CASE cached = None
  <2>1. 1 \in 0 .. Len(call[g].todo)
    BY <1>2
  <2>2. path \in Profiles
    <3>1. path \in Profiles \cup {None}
      BY DEF TInv, TypeInv
    <3>2. path # None
      BY <1>1, <1>2 DEF TInv, Starting, At
    <3> QED BY <3>1, <3>2
  <2>3. Becomes(g, [Go(g, 1) EXCEPT !.at = path])
    BY <1>4 DEF Look
  <2>4. Turned(g, Drop(1, call[g].todo), call[g].patch, path, call[g].got)
    BY <1>2, <2>1, <2>2, <2>3, GoAt
  <2>5. Effect(g, Nexts("look"), call[g].patch, path, call[g].got)
    BY <1>1, <2>4, OneOf
  <2>6. Nexts("look") = {"read"}
    BY NextSets
  <2> QED BY <1>4, <2>2, <2>5, <2>6
<1> QED BY <1>3, <1>4

\* A load that finds a newer value has it.
LEMMA KeepNewerMoves ==
    ASSUME TInv, NEW g \in Threads, KeepNewer(g)
    PROVE  Effect(g, AfterLoad, call[g].patch, None, cached)
<1>1. At(g, "keep")
  BY DEF KeepNewer
<1>2. Busy(g) /\ Len(call[g].todo) \in Nat \ {0} /\ Fit(call[g].kind, call[g].todo) /\ call[g].todo # <<>> /\ Head(call[g].todo) = "keep"
  BY <1>1, AtStep
<1>3. 2 \in 0 .. Len(call[g].todo)
  BY <1>2, LoadAhead
<1>4. Becomes(g, [Go(g, 2) EXCEPT !.got = cached, !.at = None])
  BY DEF KeepNewer
<1>5. cached \in Configs \cup {None}
  BY DEF TInv, TypeInv
<1>6. Turned(g, Drop(2, call[g].todo), call[g].patch, None, cached)
  BY <1>3, <1>4, <1>5, GoLoaded, Zenon
<1> QED BY <1>1, <1>6, MovedLoad DEF Effect

\* What was read is kept, and the load is over.
LEMMA KeepMoves ==
    ASSUME Undisturbed, TInv, NEW g \in Threads, Keep(g)
    PROVE  LET cfg == parseUserConfig(call[g].got) IN
           /\ cfg \in Configs /\ call[g].got \in Configs
           /\ Effect(g, AfterLoad, call[g].patch, None, cfg)
           /\ cached' = cfg /\ follows' = Followed(g, cfg)
<1> DEFINE c == call[g]
           cfg == parseUserConfig(c.got)
           kept == [c EXCEPT !.got = cfg, !.at = None]
           s == Drop(2, c.todo)
           d == [kept EXCEPT !.todo = s]
<1>1. At(g, "keep")
  BY DEF Keep
<1>2. /\ c \in Calls /\ Busy(g) /\ Len(c.todo) \in Nat \ {0} /\ Fit(c.kind, c.todo)
      /\ c.todo # <<>> /\ Head(c.todo) = "keep" /\ c.todo \in Seq(Steps)
  BY <1>1, AtStep
<1>3. 2 \in 0 .. Len(c.todo)
  BY <1>2, LoadAhead
<1>4. s \in Seq(Steps)
  BY <1>2, <1>3, DropWhole
<1>5. c.got \in Configs
  BY <1>1 DEF TInv, Ready
<1>6. cfg \in Configs
  BY <1>5, ParseKeeps
<1>7. /\ Becomes(g, [kept EXCEPT !.todo = Drop(2, @)])
      /\ cached' = cfg /\ follows' = Followed(g, cfg)
  BY DEF Keep, Undisturbed
<1> HIDE DEF c, s, cfg
<1>8. /\ kept \in Calls /\ kept.kind = c.kind /\ kept.to = c.to /\ kept.todo = c.todo /\ kept.patch = c.patch
      /\ kept.at = None /\ kept.got = cfg
  BY <1>2, <1>6 DEF Calls
<1> HIDE DEF kept
<1>9. d = [kept EXCEPT !.todo = Drop(2, @)]
  BY <1>8 DEF s, Calls
<1>10. /\ d \in Calls /\ d.kind = c.kind /\ d.to = c.to /\ d.todo = s /\ d.patch = c.patch /\ d.at = None /\ d.got = cfg
  BY <1>4, <1>8 DEF Calls
<1>11. Becomes(g, d)
  BY <1>7, <1>9
<1> HIDE DEF d
<1>12. TypeInv
  BY DEF TInv
<1>13. Turned(g, s, c.patch, None, cfg)
  BY <1>10, <1>11, <1>12, BecomesTurned DEF c
<1>14. Effect(g, AfterLoad, c.patch, None, cfg)
  BY <1>1, <1>13, MovedLoad DEF Effect, s, c
<1> QED BY <1>5, <1>6, <1>7, <1>14 DEF cfg, c

\* A load that finds another profile begins anew.
LEMMA KeepSwitchedMoves ==
    ASSUME TInv, NEW g \in Threads, KeepSwitched(g)
    PROVE  Effect(g, {"look"}, call[g].patch, None, None)
<1> DEFINE c == call[g]
           s == Load \o Drop(2, c.todo)
           d == [c EXCEPT !.todo = s, !.at = None, !.got = None]
<1>1. At(g, "keep")
  BY DEF KeepSwitched
<1>2. /\ c \in Calls /\ Busy(g) /\ Fit(c.kind, c.todo) /\ c.todo # <<>> /\ Head(c.todo) = "keep"
  BY <1>1, AtStep
<1>3. /\ Fit(c.kind, s) /\ s # <<>> /\ Head(s) = "look"
      /\ First(s, "unlock", "lock") <=> First(c.todo, "unlock", "lock")
      /\ First(s, "build", "seed") <=> First(c.todo, "build", "seed")
  BY <1>2, LoadAgain
<1>4. s \in Seq(Steps)
  BY <1>3 DEF Fit, Links
<1>5. Becomes(g, [c EXCEPT !.todo = Load \o Drop(2, @), !.at = None, !.got = None])
  BY DEF KeepSwitched
<1>6. d = [c EXCEPT !.todo = Load \o Drop(2, @), !.at = None, !.got = None]
  BY <1>2 DEF Calls
<1> HIDE DEF c, s
<1>7. /\ d \in Calls /\ d.kind = c.kind /\ d.to = c.to /\ d.todo = s /\ d.patch = c.patch /\ d.at = None /\ d.got = None
  BY <1>2, <1>4 DEF Calls
<1>8. Becomes(g, d)
  BY <1>5, <1>6
<1> HIDE DEF d
<1>9. TypeInv
  BY DEF TInv
<1>10. Turned(g, s, c.patch, None, None)
  BY <1>7, <1>8, <1>9, BecomesTurned DEF c
<1>11. call'[g].todo = s
  BY <1>3, <1>10 DEF Turned
<1>12. Moved(g, {"look"}, c.patch, None, None)
  BY <1>3, <1>10 DEF Turned, Moved, c
<1>13. Keeps(g) /\ Builds(g)
  BY <1>3, <1>11 DEF Keeps, Builds, c
<1> QED BY <1>12, <1>13 DEF Effect, c

\* The seed goes on with an update when the profile was never set up.
LEMMA SeedMoves ==
    ASSUME Undisturbed, TInv, NEW g \in Threads, SeedEnabledTemplatesIfUnset(g)
    PROVE  \/ Effect(g, {"look"}, call[g].patch, call[g].at, call[g].got)
           \/ /\ \E p \in Patches : p.key = "seed" /\ Moved(g, {"lock"}, p, call[g].at, call[g].got)
              /\ ~ First(call'[g].todo, "unlock", "lock") /\ ~ First(call[g].todo, "build", "seed")
              /\ call[g].got.on = Unset /\ call'[g].todo # <<>> /\ call'[g].todo[2] = "look"
<1> DEFINE c == call[g]
           s == Update \o Drop(1, c.todo)
           p == [key |-> "seed", to |-> files[root]]
           d == [c EXCEPT !.todo = s, !.patch = p]
<1>1. At(g, "seed")
  BY NothingMissed DEF SeedEnabledTemplatesIfUnset
<1>2. /\ c \in Calls /\ Busy(g) /\ Fit(c.kind, c.todo) /\ c.todo # <<>> /\ Head(c.todo) = "seed"
      /\ c.todo \in Seq(Steps) /\ c.todo[1] = "seed"
  BY <1>1, AtStep
<1>3. CASE Becomes(g, Go(g, 1))
  <2>1. Moved(g, Nexts("seed"), c.patch, c.at, c.got) /\ Keeps(g) /\ Builds(g)
    BY <1>1, <1>3, GoOne
  <2> QED BY <2>1, NextSets DEF Effect
<1>4. CASE c.got.on = Unset /\ Becomes(g, [c EXCEPT !.todo = Update \o Drop(1, @), !.patch = p])
  <2>1. Fit(c.kind, s) /\ s # <<>> /\ Head(s) = "lock" /\ s[2] = "look" /\ ~ First(s, "unlock", "lock")
    BY <1>2, SeedUpdates
  <2>2. s \in Seq(Steps)
    BY <2>1 DEF Fit, Links
  <2>3. ~ First(c.todo, "build", "seed")
    <3> SUFFICES ASSUME NEW i \in 1 .. Len(c.todo), c.todo[i] = "build", \A j \in 1 .. (i - 1) : c.todo[j] # "seed"
                 PROVE  FALSE
      BY DEF First
    <3>1. i # 1
      BY <1>2
    <3>2. 1 \in 1 .. (i - 1)
      BY <3>1, <1>2
    <3> QED BY <3>2, <1>2
  <2>4. p \in Patches /\ p.key = "seed"
    <3>1. First(c.todo, "build", "seed") \/ root # None
      BY <1>2 DEF TInv, Starting
    <3>2. root \in Folders
      BY <3>1, <2>3 DEF TInv, TypeInv
    <3>3. files[root] \in SUBSET Templates
      BY <3>2 DEF TInv, TypeInv
    <3> QED BY <3>3 DEF Patches
  <2>5. d = [c EXCEPT !.todo = Update \o Drop(1, @), !.patch = p]
    BY <1>2 DEF Calls
  <2> HIDE DEF c, s, p
  <2>6. /\ d \in Calls /\ d.kind = c.kind /\ d.to = c.to /\ d.todo = s /\ d.patch = p /\ d.at = c.at /\ d.got = c.got
    BY <1>2, <2>2, <2>4 DEF Calls
  <2>7. Becomes(g, d)
    BY <1>4, <2>5
  <2> HIDE DEF d
  <2>8. TypeInv
    BY DEF TInv
  <2>9. Turned(g, s, p, c.at, c.got)
    BY <2>6, <2>7, <2>8, BecomesTurned DEF c
  <2>10. Moved(g, {"lock"}, p, c.at, c.got)
    BY <2>1, <2>9 DEF Turned, Moved, c
  <2>11. ~ First(call'[g].todo, "unlock", "lock") /\ call'[g].todo # <<>> /\ call'[g].todo[2] = "look"
    BY <2>1, <2>9 DEF Turned
  <2> QED BY <1>4, <2>3, <2>4, <2>10, <2>11 DEF c
<1>5. \/ Becomes(g, Go(g, 1))
      \/ c.got.on = Unset /\ Becomes(g, [c EXCEPT !.todo = Update \o Drop(1, @), !.patch = p])
  BY NothingMissed DEF SeedEnabledTemplatesIfUnset
<1> QED BY <1>3, <1>4, <1>5

\* An update writes the file, or has nothing to write.
LEMMA PersistMoves ==
    ASSUME TInv, NEW g \in Threads, PersistFile(g)
    PROVE  LET x == call[g].patch
               merged == Patched(x, call[g].got) IN
           /\ path \in Profiles /\ call[g].got \in Configs /\ x \in Patches /\ merged \in Configs
           /\ IF x.key \in Mutations /\ merged = call[g].got
              THEN Effect(g, {"unlock"}, x, call[g].at, call[g].got) /\ UNCHANGED <<disk, due, curated>>
              ELSE /\ Effect(g, {"swap"}, x, call[g].at, merged)
                   /\ disk' = [disk EXCEPT ![path] = merged]
                   /\ due' = [due EXCEPT ![path] = IF @ \in Configs THEN Owed(x, @) ELSE merged]
                   /\ curated' = IF x.key \in Picks THEN curated \cup {path} ELSE curated
<1> DEFINE x == call[g].patch
           merged == Patched(x, call[g].got)
<1>1. At(g, "write")
  BY DEF PersistFile
<1>2. /\ call[g] \in Calls /\ Busy(g) /\ Fit(call[g].kind, call[g].todo) /\ call[g].todo # <<>> /\ Head(call[g].todo) = "write"
      /\ call[g].todo \in Seq(Steps)
  BY <1>1, AtStep
<1>3. path \in Profiles
  <2>1. path \in Profiles \cup {None}
    BY DEF TInv, TypeInv
  <2>2. path # None
    BY <1>1, <1>2 DEF TInv, Starting, At
  <2> QED BY <2>1, <2>2
<1>4. call[g].got \in Configs
  BY <1>1 DEF TInv, Ready
<1>5. x \in Patches
  BY <1>2 DEF Calls
<1>6. merged \in Configs
  BY <1>4, <1>5, PatchedIsConfig
<1>7. CASE x.key \in Mutations /\ merged = call[g].got
  <2>1. Becomes(g, Go(g, 3)) /\ UNCHANGED <<disk, due, curated>>
    BY <1>7 DEF PersistFile
  <2>2. 3 \in 0 .. Len(call[g].todo)
    BY <1>2, LoadAhead
  <2>3. Turned(g, Drop(3, call[g].todo), x, call[g].at, call[g].got)
    BY <2>1, <2>2, GoTurned
  <2>4. Effect(g, {"unlock"}, x, call[g].at, call[g].got)
    BY <1>1, <2>3, MovedWrite DEF Effect
  <2> QED BY <1>3, <1>4, <1>5, <1>6, <1>7, <2>1, <2>4
<1>8. CASE ~ (x.key \in Mutations /\ merged = call[g].got)
  <2>1. /\ Becomes(g, [Go(g, 1) EXCEPT !.got = merged])
        /\ disk' = [disk EXCEPT ![path] = merged]
        /\ due' = [due EXCEPT ![path] = IF @ \in Configs THEN Owed(x, @) ELSE merged]
        /\ curated' = IF x.key \in Picks THEN curated \cup {path} ELSE curated
    BY <1>8 DEF PersistFile
  <2> HIDE DEF merged
  <2>2. Effect(g, Nexts("write"), x, call[g].at, merged)
    BY <1>1, <1>6, <2>1, GotOne
  <2>3. Effect(g, {"swap"}, x, call[g].at, merged)
    BY <2>2, NextSets
  <2> QED BY <1>3, <1>4, <1>5, <1>6, <1>8, <2>1, <2>3 DEF merged
<1> QED BY <1>7, <1>8

----------------------------------------------------------------------------
(* The types *)

\* After a step that is none of the start's, and leaves the manager a profile.
LEMMA TQuiet ==
    ASSUME TInv, NEW g \in Threads, NEW x, At(g, x), x \notin {"migrate", "unlegacy", "resolve"},
           NEW S, NEW p, NEW a, NEW v, Moved(g, S, p, a, v), Builds(g),
           TypeInv', path' # None, root' = root,
           \A y \in {"migrate", "unlegacy", "resolve"} : y \notin S,
           ("read" \notin S /\ "keep" \notin S /\ a = None) \/ (S \subseteq {"read", "keep"} /\ a \in Profiles),
           (\A y \in {"keep", "write", "swap", "sync", "seed", "scoped", "snapshot", "fill", "build"} : y \notin S)
             \/ v \in Configs
    PROVE  TInv' /\ path # None
<1>1. /\ Busy(g) /\ call[g] \in Calls /\ call[g].todo # <<>> /\ Head(call[g].todo) = x
  BY AtStep
<1>2. path # None
  BY <1>1 DEF TInv, Starting, At
<1>3. ASSUME NEW h \in Threads, h # g PROVE Ready(h)' /\ Starting(h)'
  <2>1. call'[h] = call[h]
    BY <1>3 DEF Moved
  <2>2. Ready(h)'
    BY <2>1 DEF TInv, Ready, Busy, At
  <2>3. Starting(h)'
    BY <2>1, <1>2 DEF TInv, Starting, Busy, At
  <2> QED BY <2>2, <2>3
<1>4. CASE call'[g] = Idle
  <2>1. Ready(g)'
    BY <1>4, IdleCall DEF Ready, Busy, At
  <2>2. Starting(g)'
    BY <1>4, IdleCall DEF Starting, Busy, At
  <2>3. root # None
    BY <1>1, <1>4, IdleCall, EmptyFirst DEF TInv, Starting, Builds
  <2>4. TInv'
    BY <1>3, <2>1, <2>2, <2>3 DEF TInv
  <2> QED BY <1>2, <2>4
<1>5. CASE call'[g] # Idle
  <2>1. /\ call'[g].kind = call[g].kind /\ call'[g].to = call[g].to
        /\ call'[g].todo # <<>> /\ Head(call'[g].todo) \in S /\ Fit(call[g].kind, call'[g].todo)
        /\ call'[g].patch = p /\ call'[g].at = a /\ call'[g].got = v
    BY <1>5 DEF Moved
  <2>2. Busy(g)'
    BY <1>1, <2>1 DEF Busy
  <2>3. Ready(g)'
    <3>1. (Busy(g) => call[g].todo # <<>> /\ Fit(call[g].kind, call[g].todo))'
      BY <2>1
    <3>2. (\A y \in {"keep", "write", "swap", "sync", "seed", "scoped", "snapshot", "fill", "build"} :
             At(g, y) => call[g].got \in Configs)'
      BY <2>1 DEF At
    <3>3. (At(g, "read") \/ At(g, "keep") => call[g].at \in Profiles)'
      BY <2>1 DEF At
    <3>4. (~ At(g, "read") /\ ~ At(g, "keep") => call[g].at = None)'
      BY <2>1 DEF At
    <3>5. (call[g].kind \in {"switch", "import", "delete"} => call[g].to \in Profiles)'
      BY <2>1 DEF TInv, Ready
    <3>6. (call[g].kind \in {"create", "remove"} => call[g].to \in Templates)'
      BY <2>1 DEF TInv, Ready
    <3> QED BY <2>2, <3>1, <3>2, <3>3, <3>4, <3>5, <3>6 DEF Ready
  <2>4. Starting(g)'
    <3>1. (~ At(g, "migrate") /\ ~ At(g, "unlegacy") /\ ~ At(g, "resolve"))'
      BY <2>1 DEF At
    <3>2. root' = None => call'[g].kind = "boot" /\ First(call'[g].todo, "build", "seed")
      BY <1>1, <2>1 DEF TInv, Starting, Builds
    <3> QED BY <3>1, <3>2 DEF Starting
  <2>5. ~ Idling'
    BY <2>2 DEF Idling
  <2>6. TInv'
    BY <1>3, <2>3, <2>4, <2>5 DEF TInv
  <2> QED BY <1>2, <2>6
<1> QED BY <1>4, <1>5

\* After a step that ends a call of an application that runs.
LEMMA TEnds ==
    ASSUME TInv, NEW g \in Threads, call'[g] = Idle, \A h \in Threads : h # g => call'[h] = call[h],
           TypeInv', path' = path, root' = root, root # None
    PROVE  TInv'
<1>1. path # None
  BY DEF TInv
<1>2. ASSUME NEW h \in Threads, h # g PROVE Ready(h)' /\ Starting(h)'
  <2>1. call'[h] = call[h]
    BY <1>2
  <2>2. Ready(h)'
    BY <2>1 DEF TInv, Ready, Busy, At
  <2>3. Starting(h)'
    BY <2>1, <1>1 DEF TInv, Starting, Busy, At
  <2> QED BY <2>2, <2>3
<1>3. Ready(g)' /\ Starting(g)'
  BY IdleCall DEF Ready, Starting, Busy, At
<1> QED BY <1>1, <1>2, <1>3 DEF TInv

\* After a step that ends a call, or the start with its application.
LEMMA TReturns ==
    ASSUME TInv, XInv, NEW g \in Threads, Busy(g), Return(g), TypeInv', root' = root
    PROVE  TInv'
<1>1. call' \in [Threads -> Calls] /\ call'[g] = Idle /\ \A h \in Threads : h # g => call'[h] = call[h]
  BY IdleTurned
<1>2. CASE root # None
  <2>1. path' = path
    BY <1>2 DEF Return
  <2> QED BY <1>1, <1>2, <2>1, TEnds
<1>3. CASE root = None
  <2>1. path' = None /\ cached' = None
    BY <1>3 DEF Return
  <2>2. ASSUME NEW h \in Threads PROVE call'[h] = Idle
    <3>1. CASE h = g
      BY <3>1, <1>1
    <3>2. CASE h # g
      <4>1. call[g].kind = "boot"
        BY <1>3 DEF TInv, Starting
      <4>2. ~ Busy(h)
        BY <3>2, <4>1 DEF XInv, Solos
      <4>3. call[h] = Idle
        BY <4>2 DEF TInv, Ready
      <4> QED BY <3>2, <4>3, <1>1
    <3> QED BY <3>1, <3>2
  <2>3. ASSUME NEW h \in Threads PROVE Ready(h)' /\ Starting(h)'
    BY <2>2, IdleCall DEF Ready, Starting, Busy, At
  <2> QED BY <1>3, <2>1, <2>3 DEF TInv
<1> QED BY <1>2, <1>3

----------------------------------------------------------------------------
(* The types, who may run beside whom, and who has the lock *)

\* At any step but those of the start there is a profile.
LEMMA PathThere ==
    ASSUME TInv, NEW g \in Threads, NEW x, At(g, x), x \notin {"migrate", "unlegacy", "resolve"}
    PROVE  path \in Profiles /\ path # None
<1>1. Busy(g) /\ Head(call[g].todo) = x
  BY AtStep
<1>2. path # None
  BY <1>1 DEF TInv, Starting, At
<1> QED BY <1>2 DEF TInv, TypeInv

\* Any call but the start has an application.
LEMMA RootThere ==
    ASSUME TInv, NEW g \in Threads, NEW x, At(g, x), call[g].kind # "boot"
    PROVE  root \in Folders /\ root # None
<1>1. Busy(g)
  BY AtStep
<1>2. root # None
  BY <1>1 DEF TInv, Starting
<1> QED BY <1>2 DEF TInv, TypeInv

\* After a step that leaves the lock as it is.
LEMMA XQuiet ==
    ASSUME TInv, XInv, NEW g \in Threads, NEW x, At(g, x),
           NEW S, NEW p, NEW a, NEW v, Moved(g, S, p, a, v), updateMu' = updateMu,
           "sync" \notin S, Keeps(g) \/ ~ First(call'[g].todo, "unlock", "lock")
    PROVE  XInv'
<1>1. Busy(g)
  BY AtStep
<1>2. \A h \in Threads : h # g => call'[h] = call[h]
  BY DEF Moved
<1>3. call'[g].kind \in {call[g].kind, "none"}
  BY IdleCall DEF Moved
<1>4. \A h \in Threads : call'[h].kind \in {call[h].kind, "none"}
  BY <1>2, <1>3
<1>5. \A h, k \in Threads : call'[h].kind \in Solos /\ call'[k].kind # "none" => h = k
  BY <1>4 DEF XInv, Solos, Busy
<1>6. \A h, k \in Threads : call'[h].kind = "switch" /\ call'[k].kind = "switch" => h = k
  BY <1>4 DEF XInv
<1>7. \A h \in Threads : First(call'[h].todo, "unlock", "lock") => updateMu' = h
  BY <1>2 DEF XInv, Holds, Keeps
<1>8. ASSUME NEW h \in Threads, At(h, "sync")' PROVE First(call'[h].todo, "unlock", "lock")
  <2>1. CASE h = g
    BY <2>1, <1>8, IdleCall DEF Moved, At
  <2>2. CASE h # g
    BY <2>2, <1>2, <1>8 DEF XInv, Holds, At
  <2> QED BY <2>1, <2>2
<1> QED BY <1>5, <1>6, <1>7, <1>8 DEF XInv, Holds, Busy

\* After the end of a call, which gives the lock back.
LEMMA XEnds ==
    ASSUME TInv, XInv, NEW g \in Threads, call'[g] = Idle, \A h \in Threads : h # g => call'[h] = call[h],
           updateMu' = updateMu \/ updateMu' = IF updateMu = g THEN None ELSE updateMu
    PROVE  XInv'
<1>1. \A h \in Threads : call'[h].kind \in {call[h].kind, "none"}
  BY IdleCall
<1>2. \A h, k \in Threads : call'[h].kind \in Solos /\ call'[k].kind # "none" => h = k
  BY <1>1 DEF XInv, Solos, Busy
<1>3. \A h, k \in Threads : call'[h].kind = "switch" /\ call'[k].kind = "switch" => h = k
  BY <1>1 DEF XInv
<1>4. ASSUME NEW h \in Threads, First(call'[h].todo, "unlock", "lock") PROVE updateMu' = h
  <2>1. h # g
    BY <1>4, IdleCall, EmptyFirst
  <2>2. updateMu = h
    BY <2>1, <1>4 DEF XInv, Holds
  <2> QED BY <2>1, <2>2
<1>5. ASSUME NEW h \in Threads, At(h, "sync")' PROVE First(call'[h].todo, "unlock", "lock")
  <2>1. h # g
    BY <1>5, IdleCall DEF At
  <2> QED BY <2>1, <1>5 DEF XInv, Holds, At
<1> QED BY <1>2, <1>3, <1>4, <1>5 DEF XInv, Holds, Busy

\* The steps that leave a call's locals alone.
Plain == {"sync", "unlock", "point", "turn", "ensure", "seed", "scoped", "create", "erase",
          "copy", "fill", "forget", "check", "discard"}

\* Plain keeps the types and the order of the calls.
LEMMA PlainTX ==
    ASSUME TInv, XInv, NEW g \in Threads, NEW x \in Plain, At(g, x), Becomes(g, Go(g, 1)),
           call' \in [Threads -> Calls] => TypeInv', path' # None, root' = root,
           updateMu' = updateMu \/ (x = "unlock" /\ updateMu' = None)
    PROVE  TInv' /\ XInv'
<1> DEFINE p == call[g].patch
           a == call[g].at
           v == call[g].got
<1>1. /\ Moved(g, Nexts(x), p, a, v) /\ Builds(g)
      /\ Keeps(g) \/ ~ First(call'[g].todo, "unlock", "lock")
      /\ x = "unlock" => ~ First(call'[g].todo, "unlock", "lock")
  BY GoOne DEF Plain
<1>2. TypeInv'
  BY <1>1 DEF Moved
<1>3. a = None
  BY DEF TInv, Ready, At, Plain
<1>4. x = "sync" => v \in Configs
  BY DEF TInv, Ready
<1>5. \A y \in {"migrate", "unlegacy", "resolve", "read", "keep", "sync"} : y \notin Nexts(x)
  BY DEF Nexts, Follows, Plain
<1>6. x # "sync" => \A y \in {"keep", "write", "swap", "sync", "seed", "scoped", "snapshot", "fill", "build"} : y \notin Nexts(x)
  BY DEF Nexts, Follows, Plain
<1>7. x \notin {"migrate", "unlegacy", "resolve"}
  BY DEF Plain
<1> HIDE DEF p, a, v
<1>8. TInv'
  <2>1. \A y \in {"migrate", "unlegacy", "resolve"} : y \notin Nexts(x)
    BY <1>5
  <2>2. "read" \notin Nexts(x) /\ "keep" \notin Nexts(x) /\ a = None
    BY <1>3, <1>5
  <2>3. (\A y \in {"keep", "write", "swap", "sync", "seed", "scoped", "snapshot", "fill", "build"} : y \notin Nexts(x)) \/ v \in Configs
    BY <1>4, <1>6
  <2> QED BY <2>1, <2>2, <2>3, <1>1, <1>2, <1>7, TQuiet
<1>9. CASE updateMu' = updateMu
  <2>1. "sync" \notin Nexts(x)
    BY <1>5
  <2>2. XInv'
    BY <1>1, <1>9, <2>1, XQuiet
  <2> QED BY <1>8, <2>2
<1>10. CASE x = "unlock" /\ updateMu' = None
  <2>1. \A h \in Threads : h # g => call'[h] = call[h]
    BY <1>1 DEF Moved
  <2>2. \A h \in Threads : call'[h].kind \in {call[h].kind, "none"}
    BY <1>1, <2>1, IdleCall DEF Moved
  <2>3. \A h, k \in Threads : call'[h].kind \in Solos /\ call'[k].kind # "none" => h = k
    BY <2>2 DEF XInv, Solos, Busy
  <2>4. \A h, k \in Threads : call'[h].kind = "switch" /\ call'[k].kind = "switch" => h = k
    BY <2>2 DEF XInv
  <2>5. Holds(g)
    <3>1. /\ call[g].todo \in Seq(Steps) /\ call[g].todo[1] = "unlock" /\ Len(call[g].todo) \in Nat \ {0}
      BY <1>10, AtStep
    <3>2. 1 \in 1 .. Len(call[g].todo) /\ \A j \in 1 .. (1 - 1) : call[g].todo[j] # "lock"
      BY <3>1
    <3> QED BY <3>1, <3>2 DEF Holds, First
  <2>6. ASSUME NEW h \in Threads PROVE ~ First(call'[h].todo, "unlock", "lock")
    <3>1. CASE h = g
      BY <3>1, <1>1, <1>10
    <3>2. CASE h # g
      BY <3>2, <2>1, <2>5 DEF XInv, Holds
    <3> QED BY <3>1, <3>2
  <2>7. ASSUME NEW h \in Threads PROVE ~ At(h, "sync")'
    <3>1. CASE h = g
      BY <3>1, <1>1, <1>5, IdleCall DEF Moved, At
    <3>2. CASE h # g
      BY <3>2, <2>1, <2>5 DEF XInv, Holds, At
    <3> QED BY <3>1, <3>2
  <2>8. XInv'
    BY <2>3, <2>4, <2>6, <2>7 DEF XInv, Holds, Busy
  <2> QED BY <1>8, <2>8
<1> QED BY <1>9, <1>10

\* A step that changes what a call has in hand, or asks for.
LEMMA EffectTX ==
    ASSUME TInv, XInv, NEW g \in Threads, NEW x, At(g, x), x \notin {"migrate", "unlegacy", "resolve"},
           NEW S, NEW p, NEW a, NEW v, Effect(g, S, p, a, v),
           TypeInv', path' # None, root' = root, updateMu' = updateMu,
           \A y \in {"migrate", "unlegacy", "resolve", "sync"} : y \notin S,
           ("read" \notin S /\ "keep" \notin S /\ a = None) \/ (S \subseteq {"read", "keep"} /\ a \in Profiles),
           (\A y \in {"keep", "write", "swap", "sync", "seed", "scoped", "snapshot", "fill", "build"} : y \notin S)
             \/ v \in Configs
    PROVE  TInv' /\ XInv'
<1>1. Moved(g, S, p, a, v) /\ Builds(g) /\ Keeps(g)
  BY DEF Effect
<1>2. TInv'
  <2>1. \A y \in {"migrate", "unlegacy", "resolve"} : y \notin S
    OBVIOUS
  <2> QED BY <1>1, <2>1, TQuiet
<1>3. XInv'
  <2>1. "sync" \notin S
    OBVIOUS
  <2> QED BY <1>1, <2>1, XQuiet
<1> QED BY <1>2, <1>3

\* No step but those of a load reads a file.
LEMMA NotReading ==
    ASSUME TInv, NEW g \in Threads, NEW x, At(g, x), x \notin {"read", "keep"}
    PROVE  call[g].at = None
  BY DEF TInv, Ready, At

\* End keeps the types and the order of the calls.
LEMMA EndTX ==
    ASSUME TInv, XInv, NEW g \in Threads, NEW x, At(g, x), call[g].kind # "boot", Becomes(g, Idle),
           call' \in [Threads -> Calls] => TypeInv', path' = path, root' = root, updateMu' = updateMu
    PROVE  TInv' /\ XInv'
<1>1. call' \in [Threads -> Calls] /\ call'[g] = Idle /\ \A h \in Threads : h # g => call'[h] = call[h]
  BY IdleTurned
<1>2. root # None
  BY RootThere
<1>3. TInv'
  BY <1>1, <1>2, TEnds
<1>4. XInv'
  BY <1>1, XEnds
<1> QED BY <1>3, <1>4

\* Return keeps the types and the order of the calls.
LEMMA ReturnTX ==
    ASSUME TInv, XInv, NEW g \in Threads, NEW x, At(g, x), Return(g),
           disk' \in Stored, UNCHANGED <<pointer, legacy, files, follows, root, calls, due, chosen, curated>>
    PROVE  TInv' /\ XInv'
<1>1. Busy(g)
  BY AtStep
<1>2. call' \in [Threads -> Calls] /\ call'[g] = Idle /\ \A h \in Threads : h # g => call'[h] = call[h]
  BY IdleTurned
<1>3. TypeInv'
  BY <1>2 DEF TInv, TypeInv, Return
<1>4. TInv'
  BY <1>1, <1>3, TReturns
<1>5. updateMu' = IF updateMu = g THEN None ELSE updateMu
  BY DEF Return
<1>6. XInv'
  BY <1>2, <1>5, XEnds
<1> QED BY <1>4, <1>6

\* Look keeps the types and the order of the calls.
LEMMA LookTX ==
    ASSUME TInv, XInv, NEW g \in Threads, Look(g)
    PROVE  TInv' /\ XInv'
<1>1. At(g, "look")
  BY DEF Look
<1>2. call' \in [Threads -> Calls] => TypeInv'
  BY DEF Look, TInv, TypeInv, memory, history
<1>3. path # None /\ path' = path /\ root' = root /\ updateMu' = updateMu
  BY <1>1, PathThere DEF Look, memory
<1>4. call[g].at = None
  BY <1>1, NotReading
<1>5. CASE cached # None
  <2>1. Effect(g, AfterLoad, call[g].patch, None, cached)
    BY <1>4, <1>5, LookMoves
  <2>2. TypeInv' /\ cached \in Configs
    BY <1>2, <1>5, <2>1 DEF Effect, Moved, TInv, TypeInv
  <2>3. \A y \in {"migrate", "unlegacy", "resolve", "sync", "read", "keep"} : y \notin AfterLoad
    BY DEF AfterLoad
  <2> QED BY <1>1, <1>3, <2>1, <2>2, <2>3, EffectTX
<1>6. CASE cached = None
  <2>1. path \in Profiles /\ Effect(g, {"read"}, call[g].patch, path, call[g].got)
    BY <1>6, LookMoves
  <2>2. TypeInv'
    BY <1>2, <2>1 DEF Effect, Moved
  <2>3. {"read"} \subseteq {"read", "keep"}
    OBVIOUS
  <2> QED BY <1>1, <1>3, <2>1, <2>2, <2>3, EffectTX
<1> QED BY <1>5, <1>6

\* Read keeps the types and the order of the calls.
LEMMA ReadTX ==
    ASSUME TInv, XInv, NEW g \in Threads, Read(g)
    PROVE  TInv' /\ XInv'
<1>1. At(g, "read")
  BY DEF Read
<1>2. call[g].at \in Profiles
  BY <1>1 DEF TInv, Ready
<1>3. CASE disk[call[g].at] \in Configs
  <2>1. Becomes(g, [Go(g, 1) EXCEPT !.got = disk[call[g].at]]) /\ UNCHANGED memory
    BY <1>3 DEF Read
  <2> DEFINE v == disk[call[g].at]
  <2>2. Becomes(g, [Go(g, 1) EXCEPT !.got = v]) /\ v \in Configs /\ v \in Configs \cup {None}
    BY <1>3, <2>1
  <2> HIDE DEF v
  <2>3. Effect(g, Nexts("read"), call[g].patch, call[g].at, v)
    BY <1>1, <2>2, GotOne
  <2>4. Effect(g, {"keep"}, call[g].patch, call[g].at, v)
    BY <2>3, NextSets
  <2>5. path' # None /\ root' = root /\ updateMu' = updateMu
    BY <1>1, <2>1, PathThere DEF memory
  <2>6. TypeInv'
    BY <2>1, <2>4 DEF Effect, Moved, Read, memory, history, TInv, TypeInv
  <2>7. {"keep"} \subseteq {"read", "keep"}
    OBVIOUS
  <2> QED BY <1>1, <1>2, <2>2, <2>4, <2>5, <2>6, <2>7, EffectTX
<1>4. CASE disk[call[g].at] \notin Configs
  <2>1. Return(g) /\ UNCHANGED <<pointer, legacy, files, follows, root, calls, due, chosen, curated>>
    BY <1>4 DEF Read, history
  <2>2. disk' \in Stored
    BY DEF Read, TInv, TypeInv
  <2> QED BY <1>1, <2>1, <2>2, ReturnTX
<1> QED BY <1>3, <1>4

\* KeepSwitched keeps the types and the order of the calls.
LEMMA KeepSwitchedTX ==
    ASSUME TInv, XInv, NEW g \in Threads, KeepSwitched(g)
    PROVE  TInv' /\ XInv'
<1>1. At(g, "keep")
  BY DEF KeepSwitched
<1>2. Effect(g, {"look"}, call[g].patch, None, None)
  BY KeepSwitchedMoves
<1>3. TypeInv'
  BY <1>2 DEF Effect, Moved, KeepSwitched, memory, history, TInv, TypeInv
<1>4. path' # None /\ root' = root /\ updateMu' = updateMu
  BY <1>1, PathThere DEF KeepSwitched, memory
<1> QED BY <1>1, <1>2, <1>3, <1>4, EffectTX

\* KeepNewer keeps the types and the order of the calls.
LEMMA KeepNewerTX ==
    ASSUME TInv, XInv, NEW g \in Threads, KeepNewer(g)
    PROVE  TInv' /\ XInv'
<1>1. At(g, "keep") /\ cached # None
  BY DEF KeepNewer
<1>2. Effect(g, AfterLoad, call[g].patch, None, cached)
  BY KeepNewerMoves
<1>3. TypeInv' /\ cached \in Configs
  BY <1>1, <1>2 DEF Effect, Moved, KeepNewer, memory, history, TInv, TypeInv
<1>4. path' # None /\ root' = root /\ updateMu' = updateMu
  BY <1>1, PathThere DEF KeepNewer, memory
<1>5. \A y \in {"migrate", "unlegacy", "resolve", "sync", "read", "keep"} : y \notin AfterLoad
  BY DEF AfterLoad
<1> QED BY <1>1, <1>2, <1>3, <1>4, <1>5, EffectTX

\* Keep keeps the types and the order of the calls.
LEMMA KeepTX ==
    ASSUME Undisturbed, TInv, XInv, NEW g \in Threads, Keep(g)
    PROVE  TInv' /\ XInv'
<1> DEFINE cfg == parseUserConfig(call[g].got)
<1>1. At(g, "keep")
  BY DEF Keep
<1>2. /\ cfg \in Configs /\ Effect(g, AfterLoad, call[g].patch, None, cfg)
      /\ cached' = cfg /\ follows' = Followed(g, cfg)
  BY KeepMoves
<1>3. \/ UNCHANGED <<disk, due>>
      \/ /\ disk' = [disk EXCEPT ![path] = cfg]
         /\ due' = [due EXCEPT ![path] = IF @ \in Configs THEN parseUserConfig(@) ELSE cfg]
  BY DEF Keep
<1>4. path' # None /\ root' = root /\ updateMu' = updateMu
  BY <1>1, PathThere DEF Keep
<1>5. path \in Profiles
  BY <1>1, PathThere
<1>6. UNCHANGED <<pointer, legacy, files, path, updateMu, root, calls, chosen, curated>>
  BY DEF Keep
<1>0. due[path] \in Configs => parseUserConfig(due[path]) \in Configs
  BY ParseKeeps
<1> HIDE DEF cfg
<1>7. disk' \in Stored /\ due' \in [Profiles -> Configs \cup {None}]
  <2> HIDE DEF Configs
  <2> QED BY <1>0, <1>2, <1>3, <1>5 DEF TInv, TypeInv, Stored
<1>8. follows' \in Folders \cup {None}
  BY <1>2 DEF Followed, TInv, TypeInv, Configs
<1>9. TypeInv'
  BY <1>2, <1>6, <1>7, <1>8 DEF Effect, Moved, TInv, TypeInv
<1>10. \A y \in {"migrate", "unlegacy", "resolve", "sync", "read", "keep"} : y \notin AfterLoad
  BY DEF AfterLoad
<1> QED BY <1>1, <1>2, <1>4, <1>9, <1>10, EffectTX

\* syncJournal keeps the types and the order of the calls.
LEMMA syncJournalTX ==
    ASSUME TInv, XInv, NEW g \in Threads, syncJournal(g)
    PROVE  TInv' /\ XInv'
<1>1. At(g, "sync") /\ Becomes(g, Go(g, 1))
  BY DEF syncJournal
<1>2. call' \in [Threads -> Calls] => TypeInv'
  <2>1. call[g].got \in Configs
    BY <1>1 DEF TInv, Ready
  <2>2. follows' \in Folders \cup {None}
    BY <2>1 DEF syncJournal, Followed, TInv, TypeInv, Configs
  <2> QED BY <2>2 DEF syncJournal, TInv, TypeInv, history
<1>3. path' # None /\ root' = root
  BY <1>1, PathThere DEF syncJournal, memory
<1>4. updateMu' = updateMu
  BY DEF syncJournal, memory
<1>5. "sync" \in Plain
  BY DEF Plain
<1> QED BY <1>1, <1>2, <1>3, <1>4, <1>5, PlainTX

\* Lock keeps the types and the order of the calls.
LEMMA LockTX ==
    ASSUME TInv, XInv, NEW g \in Threads, Lock(g)
    PROVE  TInv' /\ XInv'
<1>1. At(g, "lock") /\ Becomes(g, Go(g, 1)) /\ updateMu = None /\ updateMu' = g
  BY DEF Lock
<1>2. Moved(g, Nexts("lock"), call[g].patch, call[g].at, call[g].got) /\ Builds(g)
  BY <1>1, GoOne
<1>3. Moved(g, {"look", "point"}, call[g].patch, call[g].at, call[g].got)
  BY <1>2, NextSets
<1>4. TypeInv'
  BY <1>1, <1>3 DEF Moved, Lock, history, TInv, TypeInv
<1>5. path' # None /\ root' = root
  BY <1>1, PathThere DEF Lock
<1>6. call[g].at = None
  BY <1>1, NotReading
<1>7. TInv'
  BY <1>1, <1>2, <1>3, <1>4, <1>5, <1>6, TQuiet
<1>8. \A h \in Threads : h # g => call'[h] = call[h]
  BY <1>3 DEF Moved
<1>9. \A h \in Threads : call'[h].kind \in {call[h].kind, "none"}
  BY <1>3, <1>8, IdleCall DEF Moved
<1>10. \A h, k \in Threads : call'[h].kind \in Solos /\ call'[k].kind # "none" => h = k
  BY <1>9 DEF XInv, Solos, Busy
<1>11. \A h, k \in Threads : call'[h].kind = "switch" /\ call'[k].kind = "switch" => h = k
  BY <1>9 DEF XInv
<1>12. \A h \in Threads : ~ First(call[h].todo, "unlock", "lock")
  BY <1>1, NamesAssumption DEF XInv, Holds
<1>13. \A h \in Threads : First(call'[h].todo, "unlock", "lock") => updateMu' = h
  BY <1>1, <1>8, <1>12
<1>14. ASSUME NEW h \in Threads PROVE ~ At(h, "sync")'
  <2>1. CASE h = g
    BY <2>1, <1>3, IdleCall DEF Moved, At
  <2>2. CASE h # g
    BY <2>2, <1>8, <1>12 DEF XInv, Holds, At
  <2> QED BY <2>1, <2>2
<1>15. XInv'
  BY <1>10, <1>11, <1>13, <1>14 DEF XInv, Holds, Busy
<1> QED BY <1>7, <1>15

\* Unlock keeps the types and the order of the calls.
LEMMA UnlockTX ==
    ASSUME TInv, XInv, NEW g \in Threads, Unlock(g)
    PROVE  TInv' /\ XInv'
<1>1. At(g, "unlock") /\ Becomes(g, Go(g, 1)) /\ updateMu' = None
  BY DEF Unlock
<1>2. call' \in [Threads -> Calls] => TypeInv'
  BY DEF Unlock, TInv, TypeInv, history
<1>3. path' # None /\ root' = root
  BY <1>1, PathThere DEF Unlock
<1>4. "unlock" \in Plain
  BY DEF Plain
<1> QED BY <1>1, <1>2, <1>3, <1>4, PlainTX

\* PersistFile keeps the types and the order of the calls.
LEMMA PersistFileTX ==
    ASSUME TInv, XInv, NEW g \in Threads, PersistFile(g)
    PROVE  TInv' /\ XInv'
<1> DEFINE x == call[g].patch
           merged == Patched(x, call[g].got)
<1>1. At(g, "write")
  BY DEF PersistFile
<1>2. /\ path \in Profiles /\ call[g].got \in Configs /\ x \in Patches /\ merged \in Configs
      /\ \/ Effect(g, {"unlock"}, x, call[g].at, call[g].got) /\ UNCHANGED <<disk, due, curated>>
         \/ /\ Effect(g, {"swap"}, x, call[g].at, merged)
            /\ disk' = [disk EXCEPT ![path] = merged]
            /\ due' = [due EXCEPT ![path] = IF @ \in Configs THEN Owed(x, @) ELSE merged]
            /\ curated' = IF x.key \in Picks THEN curated \cup {path} ELSE curated
  BY PersistMoves
<1>3. path' # None /\ root' = root /\ updateMu' = updateMu
  BY <1>1, PathThere DEF PersistFile, memory
<1>4. UNCHANGED <<pointer, legacy, files, memory, calls, chosen>>
  BY DEF PersistFile
<1>5. call[g].at = None
  BY <1>1, NotReading
<1>6. due[path] \in Configs => Owed(x, due[path]) \in Configs
  BY <1>2, PatchedIsConfig DEF Owed
<1> HIDE DEF x, merged
<1>7. CASE Effect(g, {"unlock"}, x, call[g].at, call[g].got) /\ UNCHANGED <<disk, due, curated>>
  <2>1. TypeInv'
    BY <1>4, <1>7 DEF Effect, Moved, memory, TInv, TypeInv
  <2> QED BY <1>1, <1>3, <1>5, <1>7, <2>1, EffectTX
<1>8. CASE /\ Effect(g, {"swap"}, x, call[g].at, merged)
           /\ disk' = [disk EXCEPT ![path] = merged]
           /\ due' = [due EXCEPT ![path] = IF @ \in Configs THEN Owed(x, @) ELSE merged]
           /\ curated' = IF x.key \in Picks THEN curated \cup {path} ELSE curated
  <2>1. disk' \in Stored /\ due' \in [Profiles -> Configs \cup {None}] /\ curated' \in SUBSET Profiles
    <3> HIDE DEF Configs
    <3> QED BY <1>2, <1>6, <1>8 DEF TInv, TypeInv, Stored
  <2>2. TypeInv'
    BY <1>4, <1>8, <2>1 DEF Effect, Moved, memory, TInv, TypeInv
  <2> QED BY <1>1, <1>2, <1>3, <1>5, <1>8, <2>2, EffectTX
<1> QED BY <1>2, <1>7, <1>8

\* PersistCache keeps the types and the order of the calls.
LEMMA PersistCacheTX ==
    ASSUME TInv, XInv, NEW g \in Threads, PersistCache(g)
    PROVE  TInv' /\ XInv'
<1>1. At(g, "swap") /\ Becomes(g, Go(g, 1)) /\ cached' = call[g].got
  BY DEF PersistCache
<1>2. Moved(g, Nexts("swap"), call[g].patch, call[g].at, call[g].got) /\ Builds(g) /\ Keeps(g)
  BY <1>1, GoOne
<1>3. Moved(g, {"sync"}, call[g].patch, call[g].at, call[g].got)
  BY <1>2, NextSets
<1>4. call[g].got \in Configs /\ call[g].at = None
  BY <1>1 DEF TInv, Ready, At
<1>5. TypeInv'
  BY <1>1, <1>3, <1>4 DEF Moved, PersistCache, history, TInv, TypeInv
<1>6. path' # None /\ root' = root /\ updateMu' = updateMu
  BY <1>1, PathThere DEF PersistCache
<1>7. TInv'
  BY <1>1, <1>2, <1>3, <1>4, <1>5, <1>6, TQuiet
<1>8. \A h \in Threads : h # g => call'[h] = call[h]
  BY <1>3 DEF Moved
<1>9. \A h \in Threads : call'[h].kind \in {call[h].kind, "none"}
  BY <1>3, <1>8, IdleCall DEF Moved
<1>10. \A h, k \in Threads : call'[h].kind \in Solos /\ call'[k].kind # "none" => h = k
  BY <1>9 DEF XInv, Solos, Busy
<1>11. \A h, k \in Threads : call'[h].kind = "switch" /\ call'[k].kind = "switch" => h = k
  BY <1>9 DEF XInv
<1>12. First(call[g].todo, "unlock", "lock")
  BY <1>1, HoldsAt DEF Holds
<1>13. \A h \in Threads : First(call'[h].todo, "unlock", "lock") => updateMu' = h
  BY <1>2, <1>6, <1>8, <1>12 DEF XInv, Holds, Keeps
<1>14. ASSUME NEW h \in Threads, At(h, "sync")' PROVE First(call'[h].todo, "unlock", "lock")
  <2>1. CASE h = g
    BY <2>1, <1>2, <1>12 DEF Keeps
  <2>2. CASE h # g
    BY <2>2, <1>8, <1>14 DEF XInv, Holds, At
  <2> QED BY <2>1, <2>2
<1>15. XInv'
  BY <1>10, <1>11, <1>13, <1>14 DEF XInv, Holds, Busy
<1> QED BY <1>7, <1>15

\* SwitchPointer keeps the types and the order of the calls.
LEMMA SwitchPointerTX ==
    ASSUME TInv, XInv, NEW g \in Threads, SwitchPointer(g)
    PROVE  TInv' /\ XInv'
<1>1. At(g, "point") /\ Becomes(g, Go(g, 1))
  BY DEF SwitchPointer
<1>2. call' \in [Threads -> Calls] => TypeInv'
  <2>1. call[g].kind = "switch"
    BY <1>1, AtStep DEF Makes
  <2>2. call[g].to \in Profiles
    BY <2>1 DEF TInv, Ready
  <2> QED BY <2>2 DEF SwitchPointer, TInv, TypeInv, memory
<1>3. path' # None /\ root' = root
  BY <1>1, PathThere DEF SwitchPointer, memory
<1>4. updateMu' = updateMu
  BY DEF SwitchPointer, memory
<1>5. "point" \in Plain
  BY DEF Plain
<1> QED BY <1>1, <1>2, <1>3, <1>4, <1>5, PlainTX

\* setConfigPath keeps the types and the order of the calls.
LEMMA setConfigPathTX ==
    ASSUME TInv, XInv, NEW g \in Threads, setConfigPath(g)
    PROVE  TInv' /\ XInv'
<1>1. At(g, "turn") /\ Becomes(g, Go(g, 1))
  BY DEF setConfigPath
<1>2. call' \in [Threads -> Calls] => TypeInv'
  <2>1. call[g].kind = "switch"
    BY <1>1, AtStep DEF Makes
  <2>2. call[g].to \in Profiles
    BY <2>1 DEF TInv, Ready
  <2> QED BY <2>2 DEF setConfigPath, TInv, TypeInv, history
<1>3. path' # None /\ root' = root
  <2>1. call[g].kind = "switch"
    BY <1>1, AtStep DEF Makes
  <2>2. call[g].to \in Profiles
    BY <2>1 DEF TInv, Ready
  <2> QED BY <2>2, NamesAssumption DEF setConfigPath
<1>4. updateMu' = updateMu
  BY DEF setConfigPath, memory
<1>5. "turn" \in Plain
  BY DEF Plain
<1> QED BY <1>1, <1>2, <1>3, <1>4, <1>5, PlainTX

\* ensureUserConfigFile keeps the types and the order of the calls.
LEMMA ensureUserConfigFileTX ==
    ASSUME Undisturbed, TInv, XInv, NEW g \in Threads, ensureUserConfigFile(g)
    PROVE  TInv' /\ XInv'
<1>1. At(g, "ensure") /\ Becomes(g, Go(g, 1))
  BY NothingMissed DEF ensureUserConfigFile
<1>2. call' \in [Threads -> Calls] => TypeInv'
  <2>1. path \in Profiles
    BY <1>1, PathThere
  <2>2. disk' \in Stored /\ due' \in [Profiles -> Configs \cup {None}]
    <3>1. defaultConfig \in Configs
      BY DefaultIsConfig
    <3> HIDE DEF Configs, defaultConfig
    <3> QED BY NothingMissed, <2>1, <3>1 DEF ensureUserConfigFile, TInv, TypeInv, Stored
  <2> QED BY NothingMissed, <2>2 DEF ensureUserConfigFile, TInv, TypeInv, memory
<1>3. path' # None /\ root' = root
  BY NothingMissed, <1>1, PathThere DEF ensureUserConfigFile, memory
<1>4. updateMu' = updateMu
  BY NothingMissed DEF ensureUserConfigFile, memory
<1>5. "ensure" \in Plain
  BY DEF Plain
<1> QED BY <1>1, <1>2, <1>3, <1>4, <1>5, PlainTX

\* Seed keeps the types and the order of the calls.
LEMMA SeedTX ==
    ASSUME Undisturbed, TInv, XInv, NEW g \in Threads, SeedEnabledTemplatesIfUnset(g)
    PROVE  TInv' /\ XInv'
<1>1. At(g, "seed")
  BY NothingMissed DEF SeedEnabledTemplatesIfUnset
<1>2. path' # None /\ root' = root /\ updateMu' = updateMu
  BY NothingMissed, <1>1, PathThere DEF SeedEnabledTemplatesIfUnset, memory
<1>3. call' \in [Threads -> Calls] => TypeInv'
  BY NothingMissed DEF SeedEnabledTemplatesIfUnset, memory, history, TInv, TypeInv
<1>4. call[g].at = None
  BY <1>1, NotReading
<1>5. CASE Effect(g, {"look"}, call[g].patch, call[g].at, call[g].got)
  <2>1. TypeInv'
    BY <1>3, <1>5 DEF Effect, Moved
  <2> QED BY <1>1, <1>2, <1>4, <1>5, <2>1, EffectTX
<1>6. CASE /\ \E p \in Patches : p.key = "seed" /\ Moved(g, {"lock"}, p, call[g].at, call[g].got)
           /\ ~ First(call'[g].todo, "unlock", "lock") /\ ~ First(call[g].todo, "build", "seed")
  <2>1. PICK p \in Patches : Moved(g, {"lock"}, p, call[g].at, call[g].got)
    BY <1>6
  <2>2. Builds(g)
    BY <1>6 DEF Builds
  <2>3. TypeInv'
    BY <1>3, <2>1 DEF Moved
  <2>4. TInv'
    BY <1>1, <1>2, <1>4, <2>1, <2>2, <2>3, TQuiet
  <2>5. XInv'
    BY <1>1, <1>2, <1>6, <2>1, XQuiet
  <2> QED BY <2>4, <2>5
<1> QED BY <1>5, <1>6, SeedMoves

\* ListTemplates keeps the types and the order of the calls.
LEMMA ListTemplatesTX ==
    ASSUME Undisturbed, TInv, XInv, NEW g \in Threads, ListTemplates(g)
    PROVE  TInv' /\ XInv'
<1> DEFINE p == [key |-> "prune", to |-> files[root]]
<1>1. At(g, "list") /\ Becomes(g, [Go(g, 1) EXCEPT !.patch = p])
  BY NothingMissed DEF ListTemplates
<1>2. p \in Patches
  <2>1. call[g].kind # "boot"
    BY <1>1, AtStep DEF Makes
  <2>2. root \in Folders
    BY <1>1, <2>1, RootThere
  <2>3. files[root] \in SUBSET Templates
    BY <2>2 DEF TInv, TypeInv
  <2> QED BY <2>3 DEF Patches
<1> HIDE DEF p
<1>3. Effect(g, Nexts("list"), p, call[g].at, call[g].got)
  BY <1>1, <1>2, PatchOne
<1>4. Effect(g, {"look", "lock"}, p, call[g].at, call[g].got)
  BY <1>3, NextSets
<1>5. path' # None /\ root' = root /\ updateMu' = updateMu
  BY NothingMissed, <1>1, PathThere DEF ListTemplates, memory
<1>6. TypeInv'
  BY NothingMissed, <1>4 DEF Effect, Moved, ListTemplates, memory, history, TInv, TypeInv
<1>7. call[g].at = None
  BY <1>1, NotReading
<1> QED BY <1>1, <1>4, <1>5, <1>6, <1>7, EffectTX

\* PersistSnapshot keeps the types and the order of the calls.
LEMMA PersistSnapshotTX ==
    ASSUME TInv, XInv, NEW g \in Threads, PersistSnapshot(g)
    PROVE  TInv' /\ XInv'
<1> DEFINE p == [key |-> "history", to |-> call[g].got.note]
<1>1. At(g, "snapshot") /\ Becomes(g, [Go(g, 1) EXCEPT !.patch = p])
  BY DEF PersistSnapshot
<1>2. p \in Patches
  <2>1. call[g].got \in Configs
    BY <1>1 DEF TInv, Ready
  <2>2. call[g].got.note \in 0 .. MaxCalls
    BY <2>1 DEF Configs
  <2> QED BY <2>2 DEF Patches
<1> HIDE DEF p
<1>3. Effect(g, Nexts("snapshot"), p, call[g].at, call[g].got)
  BY <1>1, <1>2, PatchOne
<1>4. Effect(g, {"lock"}, p, call[g].at, call[g].got)
  BY <1>3, NextSets
<1>5. path' # None /\ root' = root /\ updateMu' = updateMu
  BY <1>1, PathThere DEF PersistSnapshot, memory
<1>6. TypeInv'
  BY <1>4 DEF Effect, Moved, PersistSnapshot, memory, history, TInv, TypeInv
<1>7. call[g].at = None
  BY <1>1, NotReading
<1> QED BY <1>1, <1>4, <1>5, <1>6, <1>7, EffectTX

\* Scoped keeps the types and the order of the calls.
LEMMA ScopedTX ==
    ASSUME TInv, XInv, NEW g \in Threads, Scoped(g)
    PROVE  TInv' /\ XInv'
<1>1. At(g, "scoped") /\ (Becomes(g, Idle) \/ Becomes(g, Go(g, 1)))
  BY DEF Scoped
<1>2. call[g].kind # "boot"
  BY <1>1, AtStep DEF Makes
<1>3. call' \in [Threads -> Calls] => TypeInv'
  BY DEF Scoped, memory, history, TInv, TypeInv
<1>4. path' = path /\ root' = root /\ updateMu' = updateMu /\ path' # None
  BY <1>1, PathThere DEF Scoped, memory
<1>5. CASE Becomes(g, Idle)
  BY <1>1, <1>2, <1>3, <1>4, <1>5, EndTX
<1>6. CASE Becomes(g, Go(g, 1))
  <2>1. "scoped" \in Plain
    BY DEF Plain
  <2> QED BY <1>1, <1>3, <1>4, <1>6, <2>1, PlainTX
<1> QED BY <1>1, <1>5, <1>6

\* CreateTemplate keeps the types and the order of the calls.
LEMMA CreateTemplateTX ==
    ASSUME TInv, XInv, NEW g \in Threads, CreateTemplate(g)
    PROVE  TInv' /\ XInv'
<1>1. At(g, "create") /\ (Becomes(g, Idle) \/ Becomes(g, Go(g, 1)))
  BY DEF CreateTemplate
<1>2. call[g].kind # "boot"
  BY <1>1, AtStep DEF Makes
<1>3. call' \in [Threads -> Calls] => TypeInv'
  <2>1. root \in Folders
    BY <1>1, <1>2, RootThere
  <2>2. call[g].kind = "create"
    BY <1>1, AtStep DEF Makes
  <2>3. call[g].to \in Templates
    BY <2>2 DEF TInv, Ready
  <2>4. files' \in [Folders -> SUBSET Templates]
    BY <2>1, <2>3 DEF CreateTemplate, TInv, TypeInv
  <2> QED BY <2>4 DEF CreateTemplate, memory, history, TInv, TypeInv
<1>4. path' = path /\ root' = root /\ updateMu' = updateMu /\ path' # None
  BY <1>1, PathThere DEF CreateTemplate, memory
<1>5. CASE Becomes(g, Idle)
  BY <1>1, <1>2, <1>3, <1>4, <1>5, EndTX
<1>6. CASE Becomes(g, Go(g, 1))
  <2>1. "create" \in Plain
    BY DEF Plain
  <2> QED BY <1>1, <1>3, <1>4, <1>6, <2>1, PlainTX
<1> QED BY <1>1, <1>5, <1>6

\* DeleteTemplate keeps the types and the order of the calls.
LEMMA DeleteTemplateTX ==
    ASSUME TInv, XInv, NEW g \in Threads, DeleteTemplate(g)
    PROVE  TInv' /\ XInv'
<1>1. At(g, "erase") /\ Becomes(g, Go(g, 1))
  BY DEF DeleteTemplate
<1>2. call' \in [Threads -> Calls] => TypeInv'
  <2>1. call[g].kind # "boot"
    BY <1>1, AtStep DEF Makes
  <2>2. root \in Folders
    BY <1>1, <2>1, RootThere
  <2>4. files' \in [Folders -> SUBSET Templates]
    BY <2>2 DEF DeleteTemplate, TInv, TypeInv
  <2> QED BY <2>4 DEF DeleteTemplate, memory, history, TInv, TypeInv
<1>3. path' # None /\ root' = root
  BY <1>1, PathThere DEF DeleteTemplate, memory
<1>4. updateMu' = updateMu
  BY DEF DeleteTemplate, memory
<1>5. "erase" \in Plain
  BY DEF Plain
<1> QED BY <1>1, <1>2, <1>3, <1>4, <1>5, PlainTX

\* ImportCopy keeps the types and the order of the calls.
LEMMA ImportCopyTX ==
    ASSUME TInv, XInv, NEW g \in Threads, ImportCopy(g)
    PROVE  TInv' /\ XInv'
<1>1. At(g, "copy") /\ Becomes(g, Go(g, 1))
  BY DEF ImportCopy
<1>2. call' \in [Threads -> Calls] => TypeInv'
  <2>1. call[g].kind = "import"
    BY <1>1, AtStep DEF Makes
  <2>2. call[g].to \in Profiles
    BY <2>1 DEF TInv, Ready
  <2>3. Incoming \subseteq Configs \cup {Malformed}
    <3>1. calls \in 0 .. MaxCalls
      BY DEF TInv, TypeInv
    <3> QED BY <3>1 DEF Incoming, Configs
  <2>4. PICK raw \in Incoming : /\ disk' = [disk EXCEPT ![call[g].to] = raw]
                               /\ due' = [due EXCEPT ![call[g].to] = IF raw = Malformed THEN @ ELSE raw]
                               /\ curated' = curated \cup {call[g].to}
    BY DEF ImportCopy
  <2>5. disk' \in Stored /\ due' \in [Profiles -> Configs \cup {None}] /\ curated' \in SUBSET Profiles
    <3>1. raw \in Configs \cup {Malformed}
      BY <2>3
    <3> HIDE DEF Configs, Malformed, Incoming
    <3> QED BY <2>2, <2>4, <3>1 DEF TInv, TypeInv, Stored
  <2> QED BY <2>5 DEF ImportCopy, memory, TInv, TypeInv
<1>3. path' # None /\ root' = root
  BY <1>1, PathThere DEF ImportCopy, memory
<1>4. updateMu' = updateMu
  BY DEF ImportCopy, memory
<1>5. "copy" \in Plain
  BY DEF Plain
<1> QED BY <1>1, <1>2, <1>3, <1>4, <1>5, PlainTX

\* ImportParse keeps the types and the order of the calls.
LEMMA ImportParseTX ==
    ASSUME TInv, XInv, NEW g \in Threads, ImportParse(g)
    PROVE  TInv' /\ XInv'
<1>1. At(g, "parse")
  BY DEF ImportParse
<1>2. call[g].kind = "import"
  BY <1>1, AtStep DEF Makes
<1>3. call[g].to \in Profiles
  BY <1>2 DEF TInv, Ready
<1>4. CASE disk[call[g].to] \in Configs
  <2> DEFINE v == parseUserConfig(disk[call[g].to])
  <2>1. Becomes(g, [Go(g, 1) EXCEPT !.got = v]) /\ UNCHANGED <<disk, memory>>
    BY <1>4 DEF ImportParse
  <2>2. v \in Configs /\ v \in Configs \cup {None}
    BY <1>4, ParseKeeps
  <2> HIDE DEF v
  <2>3. Effect(g, Nexts("parse"), call[g].patch, call[g].at, v)
    BY <1>1, <2>1, <2>2, GotOne
  <2>4. Effect(g, {"fill"}, call[g].patch, call[g].at, v)
    BY <2>3, NextSets
  <2>5. path' # None /\ root' = root /\ updateMu' = updateMu
    BY <1>1, <2>1, PathThere DEF memory
  <2>6. TypeInv'
    BY <2>1, <2>4 DEF Effect, Moved, ImportParse, memory, history, TInv, TypeInv
  <2>7. call[g].at = None
    BY <1>1, NotReading
  <2> QED BY <1>1, <2>2, <2>4, <2>5, <2>6, <2>7, EffectTX
<1>5. CASE disk[call[g].to] \notin Configs
  <2>1. Return(g) /\ UNCHANGED <<pointer, legacy, files, follows, root, calls, due, chosen, curated>>
    BY <1>5 DEF ImportParse, history
  <2>2. disk' = [disk EXCEPT ![call[g].to] = None]
    BY <1>5 DEF ImportParse
  <2>3. disk' \in Stored
    <3> HIDE DEF Configs, Malformed
    <3> QED BY <1>3, <2>2 DEF TInv, TypeInv, Stored
  <2> QED BY <1>1, <2>1, <2>3, ReturnTX
<1> QED BY <1>4, <1>5

\* ImportFill keeps the types and the order of the calls.
LEMMA ImportFillTX ==
    ASSUME TInv, XInv, NEW g \in Threads, ImportFill(g)
    PROVE  TInv' /\ XInv'
<1>1. At(g, "fill") /\ Becomes(g, Go(g, 1))
  BY DEF ImportFill
<1>2. call' \in [Threads -> Calls] => TypeInv'
  <2>1. call[g].kind = "import"
    BY <1>1, AtStep DEF Makes
  <2>2. call[g].to \in Profiles
    BY <2>1 DEF TInv, Ready
  <2>3. call[g].got \in Configs
    BY <1>1 DEF TInv, Ready
  <2>4. due[call[g].to] \in Configs => parseUserConfig(due[call[g].to]) \in Configs
    BY ParseKeeps
  <2>5. disk' \in Stored /\ due' \in [Profiles -> Configs \cup {None}]
    <3> HIDE DEF Configs, parseUserConfig
    <3> QED BY <2>2, <2>3, <2>4 DEF ImportFill, TInv, TypeInv, Stored
  <2> QED BY <2>5 DEF ImportFill, memory, TInv, TypeInv
<1>3. path' # None /\ root' = root
  BY <1>1, PathThere DEF ImportFill, memory
<1>4. updateMu' = updateMu
  BY DEF ImportFill, memory
<1>5. "fill" \in Plain
  BY DEF Plain
<1> QED BY <1>1, <1>2, <1>3, <1>4, <1>5, PlainTX

\* InvalidateConfigCache keeps the types and the order of the calls.
LEMMA InvalidateConfigCacheTX ==
    ASSUME TInv, XInv, NEW g \in Threads, InvalidateConfigCache(g)
    PROVE  TInv' /\ XInv'
<1>1. At(g, "forget") /\ Becomes(g, Go(g, 1))
  BY DEF InvalidateConfigCache
<1>2. call' \in [Threads -> Calls] => TypeInv'
  BY DEF InvalidateConfigCache, history, TInv, TypeInv
<1>3. path' # None /\ root' = root
  BY <1>1, PathThere DEF InvalidateConfigCache, memory
<1>4. updateMu' = updateMu
  BY DEF InvalidateConfigCache, memory
<1>5. "forget" \in Plain
  BY DEF Plain
<1> QED BY <1>1, <1>2, <1>3, <1>4, <1>5, PlainTX

\* DeleteCheck keeps the types and the order of the calls.
LEMMA DeleteCheckTX ==
    ASSUME TInv, XInv, NEW g \in Threads, DeleteCheck(g)
    PROVE  TInv' /\ XInv'
<1>1. At(g, "check") /\ (Becomes(g, Idle) \/ Becomes(g, Go(g, 1)))
  BY DEF DeleteCheck
<1>2. call[g].kind # "boot"
  BY <1>1, AtStep DEF Makes
<1>3. call' \in [Threads -> Calls] => TypeInv'
  BY DEF DeleteCheck, memory, history, TInv, TypeInv
<1>4. path' = path /\ root' = root /\ updateMu' = updateMu /\ path' # None
  BY <1>1, PathThere DEF DeleteCheck, memory
<1>5. CASE Becomes(g, Idle)
  BY <1>1, <1>2, <1>3, <1>4, <1>5, EndTX
<1>6. CASE Becomes(g, Go(g, 1))
  <2>1. "check" \in Plain
    BY DEF Plain
  <2> QED BY <1>1, <1>3, <1>4, <1>6, <2>1, PlainTX
<1> QED BY <1>1, <1>5, <1>6

\* DeleteFile keeps the types and the order of the calls.
LEMMA DeleteFileTX ==
    ASSUME TInv, XInv, NEW g \in Threads, DeleteFile(g)
    PROVE  TInv' /\ XInv'
<1>1. At(g, "discard") /\ Becomes(g, Go(g, 1))
  BY DEF DeleteFile
<1>2. call' \in [Threads -> Calls] => TypeInv'
  <2>1. call[g].kind = "delete"
    BY <1>1, AtStep DEF Makes
  <2>2. call[g].to \in Profiles
    BY <2>1 DEF TInv, Ready
  <2>5. disk' \in Stored /\ due' \in [Profiles -> Configs \cup {None}] /\ curated' \in SUBSET Profiles
    <3> HIDE DEF Configs, Malformed
    <3> QED BY <2>2 DEF DeleteFile, TInv, TypeInv, Stored
  <2> QED BY <2>5 DEF DeleteFile, memory, TInv, TypeInv
<1>3. path' # None /\ root' = root
  BY <1>1, PathThere DEF DeleteFile, memory
<1>4. updateMu' = updateMu
  BY DEF DeleteFile, memory
<1>5. "discard" \in Plain
  BY DEF Plain
<1> QED BY <1>1, <1>2, <1>3, <1>4, <1>5, PlainTX

\* Fail keeps the types and the order of the calls.
LEMMA FailTX ==
    ASSUME TInv, XInv, NEW g \in Threads, Fail(g)
    PROVE  TInv' /\ XInv'
<1>1. PICK x \in Failures : At(g, x)
  BY DEF Fail
<1>2. Return(g) /\ UNCHANGED <<disk, pointer, legacy, files, follows, root, calls, due, chosen, curated>>
  BY DEF Fail, history
<1>3. disk' \in Stored
  BY <1>2 DEF TInv, TypeInv
<1> QED BY <1>1, <1>2, <1>3, ReturnTX

\* The start's first steps, with no manager yet.
LEMMA StartTX ==
    ASSUME TInv, XInv, NEW g \in Threads, NEW x, At(g, x), Becomes(g, Go(g, 1)),
           ((x = "migrate" \/ x = "unlegacy") /\ path' = path) \/ (x = "resolve" /\ path' # None),
           call' \in [Threads -> Calls] => TypeInv', cached' = cached, root' = root, updateMu' = updateMu
    PROVE  TInv' /\ XInv'
<1> DEFINE p == call[g].patch
           a == call[g].at
           v == call[g].got
           S == Nexts(x)
<1>1. /\ Moved(g, S, p, a, v) /\ Builds(g) /\ Keeps(g)
  BY GoOne
<1>2. TypeInv'
  BY <1>1 DEF Moved
<1>3. a = None
  BY NotReading
<1>4. /\ Busy(g) /\ call[g] \in Calls /\ call[g].todo # <<>> /\ Head(call[g].todo) = x /\ Makes(call[g].kind, x)
  BY AtStep
<1>5. path = None
  BY DEF TInv, Starting
<1>6. call[g].kind = "boot"
  BY <1>4 DEF Makes
<1>7. /\ x = "migrate" => S = {"unlegacy"}
      /\ x = "unlegacy" => S = {"resolve"}
      /\ x = "resolve" => S = {"ensure"}
  BY NextSets
<1>8. root = None /\ cached = None
  BY <1>5 DEF TInv
<1>9. call'[g] # Idle
  BY <1>1, <1>4, <1>8, IdleCall, EmptyFirst DEF TInv, Starting, Builds
<1>10. /\ call'[g].kind = call[g].kind /\ call'[g].to = call[g].to
       /\ call'[g].todo # <<>> /\ Head(call'[g].todo) \in S /\ Fit(call[g].kind, call'[g].todo)
       /\ call'[g].patch = p /\ call'[g].at = a /\ call'[g].got = v
  BY <1>1, <1>9 DEF Moved
<1> HIDE DEF S, p, a, v
<1>11. ASSUME NEW h \in Threads, h # g PROVE Ready(h)' /\ Starting(h)'
  <2>1. call'[h] = call[h]
    BY <1>1, <1>11 DEF Moved
  <2>2. ~ Busy(h)
    BY <1>6, <1>11 DEF XInv, Solos
  <2>3. call'[h] = Idle
    BY <2>1, <2>2 DEF TInv, Ready
  <2> QED BY <2>3, IdleCall DEF Ready, Starting, Busy, At
<1>12. Ready(g)'
  <2>1. (~ At(g, "read") /\ ~ At(g, "keep"))'
    BY <1>7, <1>10 DEF At
  <2>2. (\A y \in {"keep", "write", "swap", "sync", "seed", "scoped", "snapshot", "fill", "build"} : ~ At(g, y))'
    BY <1>7, <1>10 DEF At
  <2> QED BY <1>3, <1>4, <1>6, <1>10, <2>1, <2>2 DEF Ready, Busy
<1>13. Busy(g)' /\ ~ Idling'
  BY <1>4, <1>10 DEF Busy, Idling
<1>14. Starting(g)'
  <2>1. First(call'[g].todo, "build", "seed")
    BY <1>1, <1>4, <1>8 DEF TInv, Starting, Builds
  <2>2. CASE x = "resolve" /\ path' # None
    BY <2>1, <2>2, <1>6, <1>7, <1>10 DEF Starting, At
  <2>3. CASE (x = "migrate" \/ x = "unlegacy") /\ path' = path
    BY <2>1, <2>3, <1>5, <1>6, <1>7, <1>10 DEF Starting, At
  <2> QED BY <2>2, <2>3
<1>15. TInv'
  BY <1>2, <1>8, <1>11, <1>12, <1>13, <1>14 DEF TInv
<1>16. "sync" \notin S
  BY <1>7
<1>17. XInv'
  BY <1>1, <1>16, XQuiet DEF S
<1> QED BY <1>15, <1>17

\* migrateLegacyBoot keeps the types and the order of the calls.
LEMMA migrateLegacyBootTX ==
    ASSUME TInv, XInv, NEW g \in Threads, migrateLegacyBoot(g)
    PROVE  TInv' /\ XInv'
<1>1. At(g, "migrate") /\ Becomes(g, Go(g, 1))
  BY DEF migrateLegacyBoot
<1>2. call' \in [Threads -> Calls] => TypeInv'
  BY NamesAssumption DEF migrateLegacyBoot, memory, history, TInv, TypeInv
<1>3. path' = path
  BY DEF migrateLegacyBoot, memory
<1>4. cached' = cached /\ root' = root /\ updateMu' = updateMu
  BY DEF migrateLegacyBoot, memory
<1>5. (("migrate" = "migrate" \/ "migrate" = "unlegacy") /\ path' = path) \/ ("migrate" = "resolve" /\ path' # None)
  BY <1>3
<1> QED BY <1>1, <1>2, <1>4, <1>5, StartTX

\* RemoveLegacy keeps the types and the order of the calls.
LEMMA RemoveLegacyTX ==
    ASSUME TInv, XInv, NEW g \in Threads, RemoveLegacy(g)
    PROVE  TInv' /\ XInv'
<1>1. At(g, "unlegacy") /\ Becomes(g, Go(g, 1))
  BY DEF RemoveLegacy
<1>2. call' \in [Threads -> Calls] => TypeInv'
  BY NamesAssumption DEF RemoveLegacy, memory, history, TInv, TypeInv
<1>3. path' = path
  BY DEF RemoveLegacy, memory
<1>4. cached' = cached /\ root' = root /\ updateMu' = updateMu
  BY DEF RemoveLegacy, memory
<1>5. (("unlegacy" = "migrate" \/ "unlegacy" = "unlegacy") /\ path' = path) \/ ("unlegacy" = "resolve" /\ path' # None)
  BY <1>3
<1> QED BY <1>1, <1>2, <1>4, <1>5, StartTX

\* resolveBootProfile keeps the types and the order of the calls.
LEMMA resolveBootProfileTX ==
    ASSUME Undisturbed, TInv, XInv, NEW g \in Threads, resolveBootProfile(g)
    PROVE  TInv' /\ XInv'
<1>1. At(g, "resolve") /\ Becomes(g, Go(g, 1))
  BY NothingMissed DEF resolveBootProfile
<1>2. call' \in [Threads -> Calls] => TypeInv'
  BY NothingMissed, NamesAssumption DEF resolveBootProfile, memory, history, TInv, TypeInv
<1>3. path' # None
  BY NothingMissed, NamesAssumption DEF resolveBootProfile, memory, TInv, TypeInv
<1>4. cached' = cached /\ root' = root /\ updateMu' = updateMu
  BY NothingMissed DEF resolveBootProfile, memory
<1> QED BY <1>1, <1>2, <1>3, <1>4, StartTX

\* Build keeps the types and the order of the calls.
LEMMA BuildTX ==
    ASSUME TInv, XInv, NEW g \in Threads, Build(g)
    PROVE  TInv' /\ XInv'
<1> DEFINE p == call[g].patch
           a == call[g].at
           v == call[g].got
<1>1. At(g, "build") /\ Becomes(g, Go(g, 1)) /\ root' = v.folder /\ follows' = v.folder
  BY DEF Build
<1>2. Moved(g, Nexts("build"), p, a, v) /\ Keeps(g)
  BY <1>1, GoOne
<1>3. Moved(g, {"look"}, p, a, v)
  BY <1>2, NextSets
<1>4. a = None
  BY <1>1, NotReading
<1>5. v \in Configs
  BY <1>1 DEF TInv, Ready
<1>6. root' \in Folders /\ follows' \in Folders /\ root' # None
  BY <1>1, <1>5, NamesAssumption DEF Configs
<1>7. TypeInv'
  BY <1>3, <1>6 DEF Moved, Build, history, TInv, TypeInv
<1>8. /\ Busy(g) /\ call[g].todo # <<>> /\ Head(call[g].todo) = "build" /\ call[g].kind = "boot"
  BY <1>1, AtStep DEF Makes
<1>9. path # None /\ path' = path /\ cached' = cached /\ updateMu' = updateMu
  BY <1>1, PathThere DEF Build
<1> HIDE DEF p, a, v
<1>10. ASSUME NEW h \in Threads, h # g PROVE Ready(h)' /\ Starting(h)'
  <2>1. call'[h] = call[h]
    BY <1>3, <1>10 DEF Moved
  <2>2. ~ Busy(h)
    BY <1>8, <1>10 DEF XInv, Solos
  <2>3. call'[h] = Idle
    BY <2>1, <2>2 DEF TInv, Ready
  <2> QED BY <2>3, IdleCall DEF Ready, Starting, Busy, At
<1>11. Ready(g)' /\ Starting(g)'
  <2>1. CASE call'[g] = Idle
    BY <2>1, IdleCall DEF Ready, Starting, Busy, At
  <2>2. CASE call'[g] # Idle
    <3>1. /\ call'[g].kind = call[g].kind /\ call'[g].to = call[g].to
          /\ call'[g].todo # <<>> /\ Head(call'[g].todo) = "look" /\ Fit(call[g].kind, call'[g].todo)
          /\ call'[g].at = None
      BY <1>3, <1>4, <2>2 DEF Moved
    <3>2. Ready(g)'
      BY <1>8, <3>1 DEF Ready, Busy, At
    <3>3. Starting(g)'
      BY <1>6, <1>9, <3>1 DEF Starting, At
    <3> QED BY <3>2, <3>3
  <2> QED BY <2>1, <2>2
<1>12. TInv'
  BY <1>6, <1>7, <1>9, <1>10, <1>11 DEF TInv
<1>13. XInv'
  BY <1>1, <1>2, <1>3, <1>9, XQuiet
<1> QED BY <1>12, <1>13

\* A call that begins.
LEMMA Begins ==
    ASSUME TInv, NEW g \in Threads, NEW d \in Calls, d.kind # "none", d.todo = Program(d.kind),
           call' = [call EXCEPT ![g] = d]
    PROVE  /\ call' \in [Threads -> Calls] /\ \A h \in Threads : h # g => call'[h] = call[h]
           /\ call'[g] = d /\ Started(d.kind, d.todo)
<1>1. call \in [Threads -> Calls]
  BY DEF TInv, TypeInv
<1>2. d.kind \in Kinds \ {"none"}
  BY DEF Calls
<1>3. Started(d.kind, Program(d.kind))
  BY <1>2, Programs
<1> HIDE DEF Calls, Program
<1> QED BY <1>1, <1>3

\* The call of the start.
LEMMA FreshBoot ==
    LET d == [Idle EXCEPT !.kind = "boot", !.todo = Program("boot")] IN
    /\ d \in Calls /\ d.kind = "boot" /\ d.todo = Program("boot") /\ d.to = None /\ d.patch = NoPatch
    /\ d.at = None /\ d.got = None
<1>1. Program("boot") \in Seq(Steps) /\ "boot" \in Kinds
  BY Programs DEF Started, Fit, Links, Kinds
<1> HIDE DEF Program, Idle, NoPatch
<1> QED BY <1>1, IdleCall DEF Calls

\* A call begins beside those under way.
LEMMA StartTXAny ==
    ASSUME Undisturbed, TInv, XInv, NEW g \in Threads, NEW k \in Kinds \ {"none", "boot"},
           NEW to \in Profiles \cup Templates \cup {None}, NEW p \in Patches,
           k \in {"switch", "import", "delete"} => to \in Profiles,
           k \in {"create", "remove"} => to \in Templates,
           Start(g, k, to, p)
    PROVE  TInv' /\ XInv'
<1>1. /\ ~ Busy(g) /\ Running /\ calls < MaxCalls /\ MayStart(k, to, p) /\ calls' = calls + 1
      /\ UNCHANGED <<disk, pointer, legacy, files, memory, due, chosen, curated>>
  BY DEF Start
<1>3. /\ call' \in [Threads -> Calls] /\ \A h \in Threads : h # g => call'[h] = call[h]
      /\ call'[g].kind = k /\ call'[g].to = to /\ call'[g].patch = p
      /\ call'[g].at = None /\ call'[g].got = None
      /\ Started(k, call'[g].todo)
  <2> DEFINE d == [Idle EXCEPT !.kind = k, !.todo = Program(k), !.to = to, !.patch = p]
  <2>1. call' = [call EXCEPT ![g] = d]
    BY DEF Start
  <2>2. /\ d \in Calls /\ d.kind = k /\ d.todo = Program(k) /\ d.to = to /\ d.patch = p
        /\ d.at = None /\ d.got = None
    <3>1. Program(k) \in Seq(Steps)
      BY Programs DEF Started, Fit, Links
    <3> HIDE DEF Program, Idle
    <3> QED BY <3>1, IdleCall DEF Calls
  <2> HIDE DEF d
  <2>3. /\ call' \in [Threads -> Calls] /\ \A h \in Threads : h # g => call'[h] = call[h]
        /\ call'[g] = d /\ Started(d.kind, d.todo)
    BY <2>1, <2>2, Begins
  <2> QED BY <2>2, <2>3
<1>4. root # None /\ path # None
  BY <1>1 DEF Running, TInv
<1>5. /\ call'[g].todo # <<>> /\ Fit(k, call'[g].todo) /\ ~ First(call'[g].todo, "unlock", "lock")
      /\ Head(call'[g].todo) \in {"look", "lock", "list", "create", "erase", "copy", "check"}
  BY <1>3 DEF Started
<1>6. TypeInv'
  <2>1. calls' \in 0 .. MaxCalls
    BY <1>1, BoundAssumption DEF TInv, TypeInv
  <2> QED BY <1>1, <1>3, <2>1 DEF memory, TInv, TypeInv
<1>7. ASSUME NEW h \in Threads, h # g PROVE Ready(h)' /\ Starting(h)'
  <2>1. call'[h] = call[h]
    BY <1>3, <1>7
  <2>2. Ready(h)'
    BY <2>1 DEF TInv, Ready, Busy, At
  <2>3. Starting(h)'
    BY <2>1, <1>1 DEF TInv, Starting, Busy, At, memory
  <2> QED BY <2>2, <2>3
<1>8. Ready(g)' /\ Starting(g)'
  BY <1>1, <1>3, <1>4, <1>5 DEF Ready, Starting, Busy, At, memory
<1>9. TInv'
  BY <1>1, <1>4, <1>6, <1>7, <1>8 DEF TInv, memory
<1>10. \A h \in Threads : call[h].kind # "boot"
  BY <1>1 DEF Running
<1>11. /\ k \in Solos => \A h \in Threads : ~ Busy(h)
       /\ \A h \in Threads : call[h].kind \notin Solos
       /\ k = "switch" => \A h \in Threads : call[h].kind # "switch"
  BY <1>1, <1>10 DEF MayStart, Undisturbed, Apart, Idling, Solos
<1>12. \A h, j \in Threads : call'[h].kind \in Solos /\ call'[j].kind # "none" => h = j
  BY <1>3, <1>11 DEF Busy
<1>13. \A h, j \in Threads : call'[h].kind = "switch" /\ call'[j].kind = "switch" => h = j
  BY <1>3, <1>11 DEF XInv
<1>14. \A h \in Threads : First(call'[h].todo, "unlock", "lock") => updateMu' = h
  BY <1>1, <1>3, <1>5 DEF XInv, Holds, memory
<1>15. \A h \in Threads : At(h, "sync")' => First(call'[h].todo, "unlock", "lock")
  BY <1>3, <1>5 DEF XInv, Holds, At
<1>16. XInv'
  BY <1>12, <1>13, <1>14, <1>15 DEF XInv, Holds, Busy
<1> QED BY <1>9, <1>16

\* What may begin, and with what.
LEMMA StartsAny ==
    ASSUME TInv, NEW g \in Threads, Starts(g)
    PROVE  \E k \in Kinds \ {"none", "boot"}, to \in Profiles \cup Templates \cup {None}, p \in Patches :
              /\ k \in {"switch", "import", "delete"} => to \in Profiles
              /\ k \in {"create", "remove"} => to \in Templates
              /\ p.key \notin {"history", "seed", "prune"} /\ Suits(k, p.key)
              /\ Start(g, k, to, p)
<1>1. NoPatch \in Patches /\ NoPatch.key = "note"
  BY BoundAssumption DEF NoPatch, Patches
<1>2. CASE Start(g, "update", None, [key |-> "note", to |-> calls + 1])
  <2>1. calls + 1 \in 0 .. MaxCalls
    BY <1>2, BoundAssumption DEF Start, TInv, TypeInv
  <2>2. [key |-> "note", to |-> calls + 1] \in Patches
    BY <2>1 DEF Patches
  <2> QED BY <1>2, <2>2 DEF Kinds, Suits, Picks
<1>3. ASSUME NEW f \in Folders, Start(g, "folder", None, [key |-> "folder", to |-> f])
      PROVE  \E k \in Kinds \ {"none", "boot"}, to \in Profiles \cup Templates \cup {None}, p \in Patches :
              /\ k \in {"switch", "import", "delete"} => to \in Profiles
              /\ k \in {"create", "remove"} => to \in Templates
              /\ p.key \notin {"history", "seed", "prune"} /\ Suits(k, p.key)
              /\ Start(g, k, to, p)
  <2>1. [key |-> "folder", to |-> f] \in Patches
    BY DEF Patches
  <2> QED BY <1>3, <2>1 DEF Kinds, Suits, Picks
<1>4. ASSUME NEW t \in Templates, NEW key \in Picks, Start(g, "update", None, [key |-> key, to |-> t])
      PROVE  \E k \in Kinds \ {"none", "boot"}, to \in Profiles \cup Templates \cup {None}, p \in Patches :
              /\ k \in {"switch", "import", "delete"} => to \in Profiles
              /\ k \in {"create", "remove"} => to \in Templates
              /\ p.key \notin {"history", "seed", "prune"} /\ Suits(k, p.key)
              /\ Start(g, k, to, p)
  <2>1. [key |-> key, to |-> t] \in Patches
    BY DEF Patches, Picks
  <2> QED BY <1>4, <2>1 DEF Kinds, Suits, Picks
<1>5. ASSUME NEW t \in Templates, Start(g, "create", t, [key |-> "enable", to |-> t])
      PROVE  \E k \in Kinds \ {"none", "boot"}, to \in Profiles \cup Templates \cup {None}, p \in Patches :
              /\ k \in {"switch", "import", "delete"} => to \in Profiles
              /\ k \in {"create", "remove"} => to \in Templates
              /\ p.key \notin {"history", "seed", "prune"} /\ Suits(k, p.key)
              /\ Start(g, k, to, p)
  <2>1. [key |-> "enable", to |-> t] \in Patches
    BY DEF Patches
  <2> QED BY <1>5, <2>1 DEF Kinds, Suits, Picks
<1>6. ASSUME NEW t \in Templates, Start(g, "remove", t, NoPatch)
      PROVE  \E k \in Kinds \ {"none", "boot"}, to \in Profiles \cup Templates \cup {None}, p \in Patches :
              /\ k \in {"switch", "import", "delete"} => to \in Profiles
              /\ k \in {"create", "remove"} => to \in Templates
              /\ p.key \notin {"history", "seed", "prune"} /\ Suits(k, p.key)
              /\ Start(g, k, to, p)
  BY <1>1, <1>6 DEF Kinds, Suits, Picks
<1>7. ASSUME NEW k \in {"switch", "import", "delete"}, NEW to \in Profiles, Start(g, k, to, NoPatch)
      PROVE  \E j \in Kinds \ {"none", "boot"}, t \in Profiles \cup Templates \cup {None}, p \in Patches :
              /\ j \in {"switch", "import", "delete"} => t \in Profiles
              /\ j \in {"create", "remove"} => t \in Templates
              /\ p.key \notin {"history", "seed", "prune"} /\ Suits(j, p.key)
              /\ Start(g, j, t, p)
  BY <1>1, <1>7 DEF Kinds, Suits, Picks
<1>8. ASSUME NEW k \in {"load", "history", "list"}, Start(g, k, None, NoPatch)
      PROVE  \E j \in Kinds \ {"none", "boot"}, t \in Profiles \cup Templates \cup {None}, p \in Patches :
              /\ j \in {"switch", "import", "delete"} => t \in Profiles
              /\ j \in {"create", "remove"} => t \in Templates
              /\ p.key \notin {"history", "seed", "prune"} /\ Suits(j, p.key)
              /\ Start(g, j, t, p)
  BY <1>1, <1>8 DEF Kinds, Suits, Picks
<1> QED BY <1>2, <1>3, <1>4, <1>5, <1>6, <1>7, <1>8 DEF Starts

\* Boot keeps the types and the order of the calls.
LEMMA BootTX ==
    ASSUME TInv, XInv, NEW g \in Threads, Boot(g)
    PROVE  TInv' /\ XInv'
<1>1. /\ path = None /\ Idling
      /\ call' = [call EXCEPT ![g] = [Idle EXCEPT !.kind = "boot", !.todo = Program("boot")]]
      /\ UNCHANGED <<disk, pointer, legacy, files, memory, calls, history>>
  BY DEF Boot
<1>4. /\ call' \in [Threads -> Calls] /\ \A h \in Threads : h # g => call'[h] = call[h]
      /\ call'[g].kind = "boot" /\ call'[g].to = None /\ call'[g].patch = NoPatch
      /\ call'[g].at = None /\ call'[g].got = None
      /\ Started("boot", call'[g].todo)
  <2> DEFINE d == [Idle EXCEPT !.kind = "boot", !.todo = Program("boot")]
  <2>1. call' = [call EXCEPT ![g] = d]
    BY <1>1
  <2>2. /\ d \in Calls /\ d.kind = "boot" /\ d.todo = Program("boot") /\ d.to = None /\ d.patch = NoPatch
        /\ d.at = None /\ d.got = None
    BY FreshBoot, Zenon
  <2> HIDE DEF d
  <2>3. /\ call' \in [Threads -> Calls] /\ \A h \in Threads : h # g => call'[h] = call[h]
        /\ call'[g] = d /\ Started(d.kind, d.todo)
    BY <2>1, <2>2, Begins
  <2> QED BY <2>2, <2>3
<1>5. /\ call'[g].todo # <<>> /\ Fit("boot", call'[g].todo) /\ ~ First(call'[g].todo, "unlock", "lock")
      /\ Head(call'[g].todo) = "migrate" /\ First(call'[g].todo, "build", "seed")
  BY <1>4 DEF Started
<1>6. \A h \in Threads : call[h] = Idle /\ ~ Busy(h)
  BY <1>1 DEF TInv, Ready, Idling
<1>7. TypeInv'
  BY <1>1, <1>4 DEF memory, history, TInv, TypeInv
<1>8. ASSUME NEW h \in Threads, h # g PROVE Ready(h)' /\ Starting(h)'
  BY <1>4, <1>6, <1>8, IdleCall DEF Ready, Starting, Busy, At
<1>9. Ready(g)' /\ Starting(g)'
  BY <1>1, <1>4, <1>5 DEF Ready, Starting, Busy, At, memory
<1>10. TInv'
  BY <1>1, <1>7, <1>8, <1>9 DEF TInv, memory
<1>11. \A h \in Threads : h # g => call'[h] = Idle
  BY <1>4, <1>6
<1>12. \A h \in Threads : h # g => call'[h].kind = "none" /\ call'[h].todo = <<>>
  BY <1>11, IdleCall
<1>13. \A h \in Threads : ~ First(call'[h].todo, "unlock", "lock")
  BY <1>5, <1>12, EmptyFirst
<1>14. \A h \in Threads : ~ At(h, "sync")'
  BY <1>5, <1>12 DEF At
<1>15. \A h, j \in Threads : call'[h].kind # "none" /\ call'[j].kind # "none" => h = j
  BY <1>12
<1>16. \A h \in Threads : call'[h].kind # "switch"
  BY <1>4, <1>12
<1>17. XInv'
  BY <1>13, <1>14, <1>15, <1>16 DEF XInv, Holds, Busy, Solos
<1> QED BY <1>10, <1>17

\* Exit keeps the types and the order of the calls.
LEMMA ExitTX ==
    ASSUME TInv, XInv, Exit
    PROVE  TInv' /\ XInv'
<1>1. /\ calls < MaxCalls /\ calls' = calls + 1
      /\ path' = None /\ cached' = None /\ updateMu' = None /\ follows' = None /\ root' = None
      /\ call' = [g \in Threads |-> Idle]
      /\ UNCHANGED <<disk, pointer, legacy, files, history>>
  BY DEF Exit
<1>2. calls' \in 0 .. MaxCalls
  BY <1>1, BoundAssumption DEF TInv, TypeInv
<1>3. call' \in [Threads -> Calls] /\ \A g \in Threads : call'[g] = Idle
  <2> HIDE DEF Idle, Calls
  <2> QED BY <1>1, IdleCall
<1>4. TypeInv'
  BY <1>1, <1>2, <1>3 DEF history, TInv, TypeInv
<1>5. \A g \in Threads : Ready(g)' /\ Starting(g)'
  BY <1>3, IdleCall DEF Ready, Starting, Busy, At
<1>6. TInv'
  BY <1>1, <1>4, <1>5 DEF TInv
<1>7. XInv'
  BY <1>3, IdleCall, EmptyFirst DEF XInv, Holds, Busy, At, Solos
<1> QED BY <1>6, <1>7

\* Still keeps the types and the order of the calls.
LEMMA StillTX ==
    ASSUME TInv, XInv, UNCHANGED vars
    PROVE  TInv' /\ XInv'
<1>1. UNCHANGED <<disk, pointer, legacy, files, path, cached, updateMu, follows, root, call, calls, due, chosen, curated>>
  BY DEF vars, memory
<1>2. TypeInv'
  BY <1>1 DEF TInv, TypeInv
<1>3. \A g \in Threads : Ready(g)' /\ Starting(g)'
  BY <1>1 DEF TInv, Ready, Starting, Busy, At
<1>4. TInv'
  BY <1>1, <1>2, <1>3 DEF TInv, Idling, Busy
<1>5. XInv'
  BY <1>1 DEF XInv, Holds, Busy, At
<1> QED BY <1>4, <1>5

\* What every step keeps.
LEMMA NextTX ==
    ASSUME Undisturbed, TInv, XInv, [Next]_vars
    PROVE  TInv' /\ XInv'
<1>1. ASSUME NEW g \in Threads, Starts(g) PROVE TInv' /\ XInv'
  BY <1>1, StartsAny, StartTXAny
<1>2. ASSUME NEW g \in Threads, Step(g) PROVE TInv' /\ XInv'
  BY <1>2, LookTX, ReadTX, KeepSwitchedTX, KeepNewerTX, KeepTX, syncJournalTX, LockTX, UnlockTX,
     PersistFileTX, PersistCacheTX, SwitchPointerTX, setConfigPathTX, ensureUserConfigFileTX,
     SeedTX, ListTemplatesTX, ScopedTX, CreateTemplateTX, DeleteTemplateTX, PersistSnapshotTX,
     ImportCopyTX, ImportParseTX, ImportFillTX, InvalidateConfigCacheTX, DeleteCheckTX, DeleteFileTX,
     migrateLegacyBootTX, RemoveLegacyTX, resolveBootProfileTX, BuildTX DEF Step
<1>3. ASSUME NEW g \in Threads, Fail(g) \/ Boot(g) PROVE TInv' /\ XInv'
  BY <1>3, FailTX, BootTX
<1> QED BY <1>1, <1>2, <1>3, ExitTX, StillTX DEF Next

\* Init keeps the types and the order of the calls.
LEMMA InitTX ==
    ASSUME Init
    PROVE  TInv /\ XInv
<1>1. call \in [Threads -> Calls] /\ \A g \in Threads : call[g] = Idle
  <2> HIDE DEF Idle, Calls
  <2> QED BY IdleCall DEF Init
<1>2. Old \subseteq Configs
  <2> SUFFICES ASSUME NEW c \in Old PROVE c \in Configs
    OBVIOUS
  <2>1. MaxCalls \in Nat /\ 0 \in 0 .. MaxCalls
    BY BoundAssumption
  <2> QED BY <2>1 DEF Old, Configs
<1>3. disk \in [Profiles -> Configs \cup {None}] /\ legacy \in Profiles \cup {None}
  <2>1. CASE legacy = None /\ disk = [p \in Profiles |-> None]
    BY <2>1
  <2>2. CASE legacy \in Profiles /\ disk \in [Profiles -> Old \cup {None}] /\ disk[legacy] \in Old
    <3> HIDE DEF Configs, Old
    <3> QED BY <2>2, <1>2
  <2> QED BY <2>1, <2>2 DEF Init
<1>4. TypeInv
  <2>1. disk \in Stored
    <3> HIDE DEF Configs, Malformed
    <3> QED BY <1>3 DEF Stored
  <2>2. chosen \in Profiles
    BY <1>3, NamesAssumption DEF Init
  <2>3. files \in [Folders -> SUBSET Templates]
    BY DEF Init
  <2>4. calls \in 0 .. MaxCalls
    BY BoundAssumption DEF Init
  <2> HIDE DEF Configs, Calls
  <2> QED BY <1>1, <1>3, <2>1, <2>2, <2>3, <2>4 DEF Init, TypeInv
<1>5. \A g \in Threads : Ready(g) /\ Starting(g)
  BY <1>1, IdleCall DEF Ready, Starting, Busy, At
<1>6. TInv
  BY <1>4, <1>5 DEF TInv, Init
<1>7. XInv
  BY <1>1, IdleCall, EmptyFirst DEF XInv, Holds, Busy, At, Solos
<1> QED BY <1>6, <1>7

(* Who may be where *)

\* An ended call is at no step.
LEMMA IdleNowhere ==
    ASSUME NEW g \in Threads, call'[g] = Idle, NEW y
    PROVE  ~ At(g, y)' /\ call'[g].kind = "none" /\ call'[g].patch.key # "history"
  BY IdleCall DEF At, NoPatch

\* The steps of the calls that run alone.
Alone == {"copy", "parse", "fill", "forget", "check", "discard", "build", "snapshot",
          "migrate", "unlegacy", "resolve"}

\* They are steps of the calls that run alone.
LEMMA AloneKinds ==
    ASSUME TInv, NEW g \in Threads, NEW x \in Alone, At(g, x)
    PROVE  call[g].kind \in Solos
<1>1. Makes(call[g].kind, x)
  BY AtStep
<1> QED BY <1>1 DEF Makes, Alone, Solos

\* Beside them every thread is idle.
LEMMA OthersIdle ==
    ASSUME TInv, XInv, NEW g \in Threads, call[g].kind \in Solos, NEW h \in Threads, h # g
    PROVE  ~ Busy(h) /\ call[h] = Idle
<1>1. ~ Busy(h)
  BY DEF XInv
<1> QED BY <1>1 DEF TInv, Ready

\* Beside a call under way nobody is at one of their steps.
LEMMA NobodyAlone ==
    ASSUME TInv, XInv, NEW g \in Threads, Busy(g), NEW h \in Threads, h # g, NEW y \in Alone
    PROVE  ~ At(h, y)
<1> SUFFICES ASSUME At(h, y) PROVE FALSE
  OBVIOUS
<1>1. call[h].kind \in Solos
  BY AloneKinds
<1> QED BY <1>1 DEF XInv

\* Beside the one who has the lock nobody is at a step that needs it.
LEMMA NobodyLocked ==
    ASSUME TInv, XInv, NEW g \in Threads, Holds(g), NEW h \in Threads, h # g
    PROVE  ~ At(h, "write") /\ ~ At(h, "swap") /\ ~ At(h, "sync") /\ ~ At(h, "turn") /\ ~ At(h, "point")
<1>1. ~ Holds(h)
  BY DEF XInv
<1> QED BY <1>1, HoldsAt DEF XInv

\* A call only ends after some of its steps.
LEMMA GoesOn ==
    ASSUME TInv, NEW g \in Threads, NEW x, At(g, x), x \notin Ends, NEW v \in Configs \cup {None},
           Becomes(g, Go(g, 1)) \/ Becomes(g, [Go(g, 1) EXCEPT !.got = v])
    PROVE  call'[g] # Idle
<1>1. /\ Fit(call[g].kind, call[g].todo) /\ call[g].todo # <<>> /\ Head(call[g].todo) = x
      /\ Len(call[g].todo) \in Nat \ {0}
  BY AtStep
<1>2. Drop(1, call[g].todo) # <<>>
  BY <1>1, OneStep
<1>3. 1 \in 0 .. Len(call[g].todo)
  BY <1>1
<1>4. \E w : Turned(g, Drop(1, call[g].todo), call[g].patch, call[g].at, w)
  BY <1>3, GoTurned, GoGot
<1>5. call'[g].todo # <<>>
  BY <1>2, <1>4 DEF Turned
<1> QED BY <1>5, IdleCall

----------------------------------------------------------------------------
(* What a step keeps that is none of those the invariant is about *)

\* A file that can be read stays one, and none is damaged.
Kept == \A q \in Profiles : /\ disk[q] \in Configs => disk'[q] \in Configs
                            /\ disk[q] # Malformed => disk'[q] # Malformed

\* A step that moves neither the pointer nor the manager keeps the profile chosen.
LEMMA AQuiet ==
    ASSUME TInv, AInv, NEW g \in Threads, NEW x, At(g, x), x \notin {"turn", "ensure"},
           NEW S, NEW p, NEW a, NEW v, Moved(g, S, p, a, v), Kept,
           path' = path, pointer' = pointer, legacy' = legacy, chosen' = chosen,
           \A y \in {"unlegacy", "resolve", "turn", "ensure", "discard"} : y \notin S
    PROVE  AInv'
<1>1. \A h \in Threads : h # g => call'[h] = call[h]
  BY DEF Moved
<1>2. chosen \in Profiles /\ path \in Profiles \cup {None}
  BY DEF TInv, TypeInv
<1>3. ASSUME NEW h \in Threads, NEW y \in {"unlegacy", "resolve", "turn", "ensure", "discard"}, At(h, y)'
      PROVE  At(h, y) /\ call'[h] = call[h]
  <2>1. h # g
    BY <1>3, IdleNowhere DEF Moved, At
  <2> QED BY <2>1, <1>1, <1>3 DEF At
<1>4. ASSUME NEW h \in Threads, At(h, "turn") \/ At(h, "ensure") PROVE (At(h, "turn") \/ At(h, "ensure"))'
  <2>1. h # g
    BY <1>4 DEF At
  <2> QED BY <2>1, <1>1, <1>4 DEF At
<1>5. ActiveStays'
  BY <1>2, <1>4 DEF AInv, ActiveStays, Kept
<1>6. disk'[chosen] # Malformed
  BY <1>2 DEF AInv, Kept
<1>7. ASSUME NEW h \in Threads, call'[h].kind = "switch" PROVE disk'[call'[h].to] # Malformed
  <2>1. call[h].kind = "switch" /\ call'[h].to = call[h].to
    <3>1. CASE h = g
      BY <3>1, <1>7, IdleNowhere DEF Moved
    <3>2. CASE h # g
      BY <3>2, <1>1, <1>7
    <3> QED BY <3>1, <3>2
  <2>2. call[h].to \in Profiles
    BY <2>1 DEF TInv, Ready
  <2> QED BY <2>1, <2>2 DEF AInv, Kept
<1>8. (IF pointer # None THEN pointer = chosen ELSE chosen = IF legacy = None THEN Default ELSE legacy)'
  BY DEF AInv
<1>9. ASSUME NEW h \in Threads
      PROVE  /\ At(h, "unlegacy")' => pointer # None \/ legacy = None
             /\ At(h, "resolve")' => legacy = None
             /\ At(h, "turn")' => chosen = call'[h].to
             /\ At(h, "ensure")' => path = chosen
             /\ At(h, "discard")' => call'[h].to # path
  BY <1>3 DEF AInv
<1> QED BY <1>5, <1>6, <1>7, <1>8, <1>9 DEF AInv

\* A step that leaves the cache and the journal alone.
LEMMA JQuiet ==
    ASSUME JInv, NEW g \in Threads, NEW x, At(g, x), x # "sync",
           NEW S, NEW p, NEW a, NEW v, Moved(g, S, p, a, v),
           cached' = cached, follows' = follows, root' = root,
           (\A y \in {"write", "sync", "build", "snapshot"} : y \notin S) \/ v = cached
    PROVE  JInv'
<1>1. \A h \in Threads : h # g => call'[h] = call[h]
  BY DEF Moved
<1>2. ASSUME NEW h \in Threads, At(h, "sync") PROVE At(h, "sync")'
  <2>1. h # g
    BY <1>2 DEF At
  <2> QED BY <2>1, <1>1, <1>2 DEF At
<1>3. ASSUME NEW h \in Threads, NEW y \in {"write", "sync", "build", "snapshot"}, At(h, y)' PROVE call'[h].got = cached
  <2>1. CASE h = g
    BY <2>1, <1>3, IdleNowhere DEF Moved, At
  <2>2. CASE h # g
    BY <2>2, <1>1, <1>3 DEF JInv, At
  <2> QED BY <2>1, <2>2
<1> QED BY <1>2, <1>3 DEF JInv

\* A step that writes no file and leaves the cache alone.
LEMMA NQuiet ==
    ASSUME NInv, NEW g \in Threads, NEW x, At(g, x), x \notin {"swap", "parse", "fill", "forget"},
           NEW S, NEW p, NEW a, NEW v, Moved(g, S, p, a, v),
           disk' = disk, due' = due, path' = path, cached' = cached,
           "swap" \notin S /\ "fill" \notin S,
           "keep" \notin S \/ v = disk[a],
           p = call[g].patch \/ p.key # "history"
    PROVE  NInv'
<1>1. \A h \in Threads : h # g => call'[h] = call[h]
  BY DEF Moved
<1>2. ASSUME NEW h \in Threads, NEW y \in {"swap", "parse", "fill", "forget"}, At(h, y)
      PROVE  At(h, y)' /\ call'[h].to = call[h].to
  <2>1. h # g
    BY <1>2 DEF At
  <2> QED BY <2>1, <1>1, <1>2 DEF At
<1>3. Accounted'
  BY DEF NInv, Accounted
<1>4. cached # None => cached = disk[path] \/ (\E h \in Threads : At(h, "swap")') \/ Importing(path)'
  BY <1>2 DEF NInv, Importing
<1>5. ASSUME NEW h \in Threads, NEW y \in {"swap", "fill"}, At(h, y)' PROVE At(h, y) /\ call'[h] = call[h]
  <2>1. h # g
    BY <1>5, IdleNowhere DEF Moved, At
  <2> QED BY <2>1, <1>1, <1>5 DEF At
<1>6. ASSUME NEW h \in Threads, At(h, "keep")', call'[h].at = path, cached = None PROVE call'[h].got = disk[path]
  <2>1. CASE h = g
    BY <2>1, <1>6, IdleNowhere DEF Moved, At
  <2>2. CASE h # g
    BY <2>2, <1>1, <1>6 DEF NInv, At
  <2> QED BY <2>1, <2>2
<1>7. ASSUME NEW h \in Threads, call'[h].patch.key = "history"
      PROVE  call'[h].kind = "history" /\ cached # None /\ cached.note = call'[h].patch.to
  <2>1. CASE h = g
    <3>1. call'[g] # Idle
      BY <2>1, <1>7, IdleNowhere
    <3> QED BY <2>1, <3>1, <1>7 DEF Moved, NInv
  <2>2. CASE h # g
    BY <2>2, <1>1, <1>7 DEF NInv
  <2> QED BY <2>1, <2>2
<1>8. ASSUME NEW h \in Threads, call'[h].patch.key = "history", At(h, "swap")'
      PROVE  call'[h].got.note = call'[h].patch.to
  BY <1>5, <1>8 DEF NInv
<1>9. ASSUME NEW h \in Threads
      PROVE  /\ At(h, "swap")' => call'[h].got = disk[path] /\ cached # None
             /\ At(h, "fill")' => disk[call'[h].to] \in Configs /\ call'[h].got = parseUserConfig(disk[call'[h].to])
  BY <1>5 DEF NInv
<1> QED BY <1>3, <1>4, <1>6, <1>7, <1>8, <1>9 DEF NInv, Importing

\* The three at once.
LEMMA AllQuiet ==
    ASSUME TInv, AInv, JInv, NInv, NEW g \in Threads, NEW x, At(g, x),
           x \notin {"turn", "ensure", "sync", "swap", "parse", "fill", "forget"},
           NEW S, NEW p, NEW a, NEW v, Moved(g, S, p, a, v),
           UNCHANGED <<disk, due, path, pointer, legacy, chosen, cached, follows, root>>,
           \A y \in {"unlegacy", "resolve", "turn", "ensure", "discard", "sync", "swap", "fill"} : y \notin S,
           (\A y \in {"write", "build", "snapshot"} : y \notin S) \/ v = cached,
           "keep" \notin S \/ v = disk[a],
           p = call[g].patch \/ p.key # "history"
    PROVE  AInv' /\ JInv' /\ NInv'
<1>1. AInv'
  <2>1. Kept /\ path' = path /\ pointer' = pointer /\ legacy' = legacy /\ chosen' = chosen
    BY DEF Kept
  <2>2. \A y \in {"unlegacy", "resolve", "turn", "ensure", "discard"} : y \notin S
    OBVIOUS
  <2> QED BY <2>1, <2>2, AQuiet
<1>2. JInv'
  <2>1. (\A y \in {"write", "sync", "build", "snapshot"} : y \notin S) \/ v = cached
    OBVIOUS
  <2>2. cached' = cached /\ follows' = follows /\ root' = root /\ x # "sync"
    OBVIOUS
  <2> QED BY <2>1, <2>2, JQuiet
<1>3. NInv'
  <2>1. "swap" \notin S /\ "fill" \notin S
    OBVIOUS
  <2>2. disk' = disk /\ due' = due /\ path' = path /\ cached' = cached /\ x \notin {"swap", "parse", "fill", "forget"}
    OBVIOUS
  <2> QED BY <2>1, <2>2, NQuiet
<1> QED BY <1>1, <1>2, <1>3

----------------------------------------------------------------------------
(* The profile chosen, the files, the cache and the journal *)

\* Lock keeps the rest of the invariant.
LEMMA LockAJN ==
    ASSUME TInv, XInv, AInv, JInv, NInv, NEW g \in Threads, Lock(g)
    PROVE  AInv' /\ JInv' /\ NInv'
<1>1. At(g, "lock") /\ Becomes(g, Go(g, 1)) /\ UNCHANGED <<disk, due, path, pointer, legacy, chosen, cached, follows, root>>
  BY DEF Lock, history
<1>2. Moved(g, Nexts("lock"), call[g].patch, call[g].at, call[g].got)
  BY <1>1, GoOne
<1>3. Moved(g, {"look", "point"}, call[g].patch, call[g].at, call[g].got)
  BY <1>2, NextSets
<1> QED BY <1>1, <1>3, AllQuiet

\* Unlock keeps the rest of the invariant.
LEMMA UnlockAJN ==
    ASSUME TInv, XInv, AInv, JInv, NInv, NEW g \in Threads, Unlock(g)
    PROVE  AInv' /\ JInv' /\ NInv'
<1>1. At(g, "unlock") /\ Becomes(g, Go(g, 1)) /\ UNCHANGED <<disk, due, path, pointer, legacy, chosen, cached, follows, root>>
  BY DEF Unlock, history
<1>2. Moved(g, Nexts("unlock"), call[g].patch, call[g].at, call[g].got)
  BY <1>1, GoOne
<1>3. Moved(g, {"look"}, call[g].patch, call[g].at, call[g].got)
  BY <1>2, NextSets
<1> QED BY <1>1, <1>3, AllQuiet

\* DeleteTemplate keeps the rest of the invariant.
LEMMA DeleteTemplateAJN ==
    ASSUME TInv, XInv, AInv, JInv, NInv, NEW g \in Threads, DeleteTemplate(g)
    PROVE  AInv' /\ JInv' /\ NInv'
<1>1. At(g, "erase") /\ Becomes(g, Go(g, 1)) /\ UNCHANGED <<disk, due, path, pointer, legacy, chosen, cached, follows, root>>
  BY DEF DeleteTemplate, history, memory
<1>2. Moved(g, Nexts("erase"), call[g].patch, call[g].at, call[g].got)
  BY <1>1, GoOne
<1>3. Moved(g, {"look"}, call[g].patch, call[g].at, call[g].got)
  BY <1>2, NextSets
<1> QED BY <1>1, <1>3, AllQuiet

\* Look keeps the rest of the invariant.
LEMMA LookAJN ==
    ASSUME TInv, XInv, AInv, JInv, NInv, NEW g \in Threads, Look(g)
    PROVE  AInv' /\ JInv' /\ NInv'
<1>1. At(g, "look") /\ UNCHANGED <<disk, due, path, pointer, legacy, chosen, cached, follows, root>>
  BY DEF Look, memory, history
<1>2. CASE cached # None
  <2>1. Moved(g, AfterLoad, call[g].patch, call[g].at, cached)
    BY <1>2, LookMoves DEF Effect
  <2>2. \A y \in {"unlegacy", "resolve", "turn", "ensure", "discard", "sync", "swap", "fill"} : y \notin AfterLoad
    BY DEF AfterLoad
  <2>3. "keep" \notin AfterLoad
    BY DEF AfterLoad
  <2> QED BY <1>1, <2>1, <2>2, <2>3, AllQuiet
<1>3. CASE cached = None
  <2>1. Moved(g, {"read"}, call[g].patch, path, call[g].got)
    BY <1>3, LookMoves DEF Effect
  <2> QED BY <1>1, <2>1, AllQuiet
<1> QED BY <1>2, <1>3

\* KeepNewer keeps the rest of the invariant.
LEMMA KeepNewerAJN ==
    ASSUME TInv, XInv, AInv, JInv, NInv, NEW g \in Threads, KeepNewer(g)
    PROVE  AInv' /\ JInv' /\ NInv'
<1>1. At(g, "keep") /\ UNCHANGED <<disk, due, path, pointer, legacy, chosen, cached, follows, root>>
  BY DEF KeepNewer, memory, history
<1>2. Moved(g, AfterLoad, call[g].patch, None, cached)
  BY KeepNewerMoves DEF Effect
<1>3. \A y \in {"unlegacy", "resolve", "turn", "ensure", "discard", "sync", "swap", "fill"} : y \notin AfterLoad
  BY DEF AfterLoad
<1>4. "keep" \notin AfterLoad
  BY DEF AfterLoad
<1> QED BY <1>1, <1>2, <1>3, <1>4, AllQuiet

\* KeepSwitched keeps the rest of the invariant.
LEMMA KeepSwitchedAJN ==
    ASSUME TInv, XInv, AInv, JInv, NInv, NEW g \in Threads, KeepSwitched(g)
    PROVE  AInv' /\ JInv' /\ NInv'
<1>1. At(g, "keep") /\ UNCHANGED <<disk, due, path, pointer, legacy, chosen, cached, follows, root>>
  BY DEF KeepSwitched, memory, history
<1>2. Moved(g, {"look"}, call[g].patch, None, None)
  BY KeepSwitchedMoves DEF Effect
<1> QED BY <1>1, <1>2, AllQuiet

\* SeedEnabledTemplatesIfUnset keeps the rest of the invariant.
LEMMA SeedEnabledTemplatesIfUnsetAJN ==
    ASSUME Undisturbed, TInv, XInv, AInv, JInv, NInv, NEW g \in Threads, SeedEnabledTemplatesIfUnset(g)
    PROVE  AInv' /\ JInv' /\ NInv'
<1>1. At(g, "seed") /\ UNCHANGED <<disk, due, path, pointer, legacy, chosen, cached, follows, root>>
  BY NothingMissed DEF SeedEnabledTemplatesIfUnset, memory, history
<1>2. CASE Moved(g, {"look"}, call[g].patch, call[g].at, call[g].got)
  BY <1>1, <1>2, AllQuiet
<1>3. ASSUME NEW p \in Patches, p.key = "seed", Moved(g, {"lock"}, p, call[g].at, call[g].got)
      PROVE  AInv' /\ JInv' /\ NInv'
  <2>1. p.key # "history"
    BY <1>3
  <2> QED BY <1>1, <1>3, <2>1, AllQuiet
<1> QED BY <1>2, <1>3, SeedMoves DEF Effect

\* ListTemplates keeps the rest of the invariant.
LEMMA ListTemplatesAJN ==
    ASSUME Undisturbed, TInv, XInv, AInv, JInv, NInv, NEW g \in Threads, ListTemplates(g)
    PROVE  AInv' /\ JInv' /\ NInv'
<1> DEFINE p == [key |-> "prune", to |-> files[root]]
<1>1. At(g, "list") /\ Becomes(g, [Go(g, 1) EXCEPT !.patch = p]) /\ UNCHANGED <<disk, due, path, pointer, legacy, chosen, cached, follows, root>>
  BY NothingMissed DEF ListTemplates, memory, history
<1>2. p \in Patches /\ p.key # "history"
  <2>1. call[g].kind # "boot"
    BY <1>1, AtStep DEF Makes
  <2>2. root \in Folders
    BY <1>1, <2>1, RootThere
  <2>3. files[root] \in SUBSET Templates
    BY <2>2 DEF TInv, TypeInv
  <2> QED BY <2>3 DEF Patches
<1> HIDE DEF p
<1>3. Moved(g, Nexts("list"), p, call[g].at, call[g].got)
  BY <1>1, <1>2, PatchOne DEF Effect
<1>4. Moved(g, {"look", "lock"}, p, call[g].at, call[g].got)
  BY <1>3, NextSets
<1> QED BY <1>1, <1>2, <1>4, AllQuiet

\* Scoped keeps the rest of the invariant.
LEMMA ScopedAJN ==
    ASSUME TInv, XInv, AInv, JInv, NInv, NEW g \in Threads, Scoped(g)
    PROVE  AInv' /\ JInv' /\ NInv'
<1>1. At(g, "scoped") /\ (Becomes(g, Idle) \/ Becomes(g, Go(g, 1))) /\ UNCHANGED <<disk, due, path, pointer, legacy, chosen, cached, follows, root>>
  BY DEF Scoped, memory, history
<1>2. CASE Becomes(g, Idle)
  <2>1. Moved(g, {}, call[g].patch, None, None)
    BY <1>2, IdleTurned DEF Moved
  <2> QED BY <1>1, <2>1, AllQuiet
<1>3. CASE Becomes(g, Go(g, 1))
  <2>1. Moved(g, Nexts("scoped"), call[g].patch, call[g].at, call[g].got)
    BY <1>1, <1>3, GoOne
  <2>2. Moved(g, {"lock", "list"}, call[g].patch, call[g].at, call[g].got)
    BY <2>1, NextSets
  <2> QED BY <1>1, <2>2, AllQuiet
<1> QED BY <1>1, <1>2, <1>3

\* CreateTemplate keeps the rest of the invariant.
LEMMA CreateTemplateAJN ==
    ASSUME TInv, XInv, AInv, JInv, NInv, NEW g \in Threads, CreateTemplate(g)
    PROVE  AInv' /\ JInv' /\ NInv'
<1>1. At(g, "create") /\ (Becomes(g, Idle) \/ Becomes(g, Go(g, 1))) /\ UNCHANGED <<disk, due, path, pointer, legacy, chosen, cached, follows, root>>
  BY DEF CreateTemplate, memory, history
<1>2. CASE Becomes(g, Idle)
  <2>1. Moved(g, {}, call[g].patch, None, None)
    BY <1>2, IdleTurned DEF Moved
  <2> QED BY <1>1, <2>1, AllQuiet
<1>3. CASE Becomes(g, Go(g, 1))
  <2>1. Moved(g, Nexts("create"), call[g].patch, call[g].at, call[g].got)
    BY <1>1, <1>3, GoOne
  <2>2. Moved(g, {"lock"}, call[g].patch, call[g].at, call[g].got)
    BY <2>1, NextSets
  <2> QED BY <1>1, <2>2, AllQuiet
<1> QED BY <1>1, <1>2, <1>3

\* A step of a call that runs alone.
LEMMA OnlyThere ==
    ASSUME TInv, XInv, NEW g \in Threads, NEW x \in Alone, At(g, x), NEW S, NEW p, NEW a, NEW v, Moved(g, S, p, a, v)
    PROVE  \A h \in Threads : h # g => call[h] = Idle /\ ~ Busy(h) /\ call'[h] = Idle
<1>1. call[g].kind \in Solos
  BY AloneKinds
<1> QED BY <1>1, OthersIdle DEF Moved

\* Nothing runs any more.
LEMMA NothingRuns ==
    ASSUME AInv, NInv, \A h \in Threads : call'[h] = Idle, path' = None, cached' = None,
           UNCHANGED <<disk, due, pointer, legacy, chosen>>
    PROVE  AInv' /\ JInv' /\ NInv'
<1>1. \A h \in Threads : /\ call'[h].kind = "none" /\ call'[h].patch.key # "history"
                         /\ \A y : ~ At(h, y)'
  BY IdleNowhere
<1>2. AInv'
  BY <1>1 DEF AInv, ActiveStays
<1>3. JInv'
  BY <1>1 DEF JInv
<1>4. NInv'
  BY <1>1 DEF NInv, Accounted
<1> QED BY <1>2, <1>3, <1>4

\* A call that returns, in the start too.
LEMMA Returns ==
    ASSUME TInv, XInv, AInv, JInv, NInv, NEW g \in Threads, NEW x, At(g, x), Return(g),
           x \notin {"turn", "ensure", "sync", "swap", "parse", "fill", "forget"},
           UNCHANGED <<disk, due, pointer, legacy, chosen, follows, root>>
    PROVE  AInv' /\ JInv' /\ NInv'
<1>1. call' \in [Threads -> Calls] /\ call'[g] = Idle /\ \A h \in Threads : h # g => call'[h] = call[h]
  BY IdleTurned
<1>2. CASE root # None
  <2>1. UNCHANGED <<disk, due, path, pointer, legacy, chosen, cached, follows, root>>
    BY <1>2 DEF Return
  <2>2. Moved(g, {}, call[g].patch, None, None)
    BY <1>1 DEF Moved
  <2> QED BY <2>1, <2>2, AllQuiet
<1>3. CASE root = None
  <2>1. path' = None /\ cached' = None
    BY <1>3 DEF Return
  <2>2. Busy(g)
    BY AtStep
  <2>3. call[g].kind \in Solos
    BY <1>3, <2>2 DEF TInv, Starting, Solos
  <2>4. \A h \in Threads : call'[h] = Idle
    BY <1>1, <2>3, OthersIdle
  <2> QED BY <2>1, <2>4, NothingRuns
<1> QED BY <1>2, <1>3

\* Read keeps the rest of the invariant.
LEMMA ReadAJN ==
    ASSUME TInv, XInv, AInv, JInv, NInv, NEW g \in Threads, Read(g)
    PROVE  AInv' /\ JInv' /\ NInv'
<1>1. At(g, "read") /\ UNCHANGED <<disk, due, pointer, legacy, chosen>>
  BY DEF Read, history
<1> DEFINE at == call[g].at
           v == disk[at]
<1>2. CASE v \in Configs
  <2>1. Becomes(g, [Go(g, 1) EXCEPT !.got = v]) /\ UNCHANGED <<path, cached, follows, root>> /\ v \in Configs \cup {None}
    BY <1>2 DEF Read, memory
  <2>2. v = disk[at]
    OBVIOUS
  <2> HIDE DEF v
  <2>3. Moved(g, Nexts("read"), call[g].patch, at, v)
    BY <1>1, <2>1, GotOne DEF Effect
  <2>4. Moved(g, {"keep"}, call[g].patch, at, v)
    BY <2>3, NextSets
  <2> HIDE DEF at
  <2> QED BY <1>1, <2>1, <2>2, <2>4, AllQuiet
<1>3. CASE v \notin Configs
  <2>1. Return(g) /\ UNCHANGED <<disk, due, pointer, legacy, chosen, follows, root>>
    BY <1>3 DEF Read, history
  <2> QED BY <1>1, <2>1, Returns
<1> QED BY <1>2, <1>3

\* Fail keeps the rest of the invariant.
LEMMA FailAJN ==
    ASSUME Undisturbed, TInv, XInv, AInv, JInv, NInv, NEW g \in Threads, Fail(g)
    PROVE  AInv' /\ JInv' /\ NInv'
<1>1. PICK x \in Failures : At(g, x)
  BY DEF Fail
<1>2. x \notin {"turn", "ensure", "sync", "swap", "parse", "fill", "forget"}
  BY DEF Undisturbed
<1>3. Return(g) /\ UNCHANGED <<disk, due, pointer, legacy, chosen, follows, root>>
  BY DEF Fail, history
<1> QED BY <1>1, <1>2, <1>3, Returns

\* Exit keeps the rest of the invariant.
LEMMA ExitAJN ==
    ASSUME AInv, NInv, Exit
    PROVE  AInv' /\ JInv' /\ NInv'
<1>1. \A h \in Threads : call'[h] = Idle
  BY DEF Exit
<1> QED BY <1>1, NothingRuns DEF Exit, history

\* Keep keeps the rest of the invariant.
LEMMA KeepAJN ==
    ASSUME Undisturbed, TInv, XInv, AInv, JInv, NInv, NEW g \in Threads, Keep(g)
    PROVE  AInv' /\ JInv' /\ NInv'
<1> DEFINE got == call[g].got
           cfg == parseUserConfig(got)
<1>1. /\ At(g, "keep") /\ path = call[g].at /\ cached = None
      /\ UNCHANGED <<pointer, legacy, path, root, chosen>>
      /\ IF got.whole THEN UNCHANGED <<disk, due>>
         ELSE /\ disk' = [disk EXCEPT ![path] = cfg]
              /\ due' = [due EXCEPT ![path] = IF @ \in Configs THEN parseUserConfig(@) ELSE cfg]
  BY DEF Keep
<1>2. /\ cfg \in Configs /\ got \in Configs /\ Moved(g, AfterLoad, call[g].patch, None, cfg)
      /\ cached' = cfg /\ follows' = Followed(g, cfg)
  BY KeepMoves DEF Effect
<1>3. path \in Profiles /\ Busy(g)
  BY <1>1, PathThere, AtStep
<1>4. got = disk[path]
  BY <1>1 DEF NInv
<1>5. due[path] = got
  BY <1>2, <1>3, <1>4, NotConfigs DEF NInv, Accounted
<1>6. got.whole => cfg = got
  BY <1>2, ParseKeeps
<1>7. disk \in Stored /\ due \in [Profiles -> Configs \cup {None}]
  BY DEF TInv, TypeInv
<1>8. cfg = parseUserConfig(got)
  OBVIOUS
<1> HIDE DEF cfg, got
<1>9. /\ disk'[path] = cfg /\ due'[path] = cfg
      /\ \A q \in Profiles : q # path => disk'[q] = disk[q] /\ due'[q] = due[q]
  <2>1. CASE got.whole
    BY <2>1, <1>1, <1>4, <1>5, <1>6
  <2>2. CASE ~ got.whole
    <3> HIDE DEF Configs, parseUserConfig
    <3> QED BY <2>2, <1>1, <1>2, <1>3, <1>5, <1>7, <1>8 DEF Stored
  <2> QED BY <2>1, <2>2
<1>10. \A h \in Threads : h # g => call'[h] = call[h]
  BY <1>2 DEF Moved
<1>11. AInv'
  <2>1. Kept
    BY <1>2, <1>9, NotConfigs DEF Kept
  <2>2. \A y \in {"unlegacy", "resolve", "turn", "ensure", "discard"} : y \notin AfterLoad
    BY DEF AfterLoad
  <2>3. path' = path /\ pointer' = pointer /\ legacy' = legacy /\ chosen' = chosen
    BY <1>1
  <2> QED BY <1>1, <1>2, <2>1, <2>2, <2>3, AQuiet
<1>12. JInv'
  <2>1. ASSUME NEW h \in Threads, NEW y \in {"write", "sync", "build", "snapshot"}, At(h, y)' PROVE call'[h].got = cfg
    <3>1. CASE h = g
      BY <3>1, <2>1, <1>2, IdleNowhere DEF Moved
    <3>2. CASE h # g
      <4>1. At(h, y)
        BY <3>2, <2>1, <1>10 DEF At
      <4>2. call[h].got \in Configs
        BY <4>1 DEF TInv, Ready
      <4>3. call[h].got = None
        BY <4>1, <1>1 DEF JInv
      <4> QED BY <4>2, <4>3, NotConfigs
    <3> QED BY <3>1, <3>2
  <2>2. root # None => follows' = cfg.folder
    BY <1>2 DEF Followed
  <2> QED BY <1>1, <1>2, <2>1, <2>2 DEF JInv
<1>13. NInv'
  <2>1. Accounted'
    BY <1>9 DEF NInv, Accounted
  <2>2. cached' = disk'[path] /\ cached' # None /\ path' = path
    BY <1>1, <1>2, <1>9, NotConfigs
  <2>3. ASSUME NEW h \in Threads PROVE ~ At(h, "swap")' /\ ~ At(h, "fill")' /\ call'[h].patch.key # "history"
    <3>1. CASE h = g
      <4>1. call[g].patch.key # "history"
        BY <1>1 DEF NInv
      <4>2. "swap" \notin AfterLoad /\ "fill" \notin AfterLoad
        BY DEF AfterLoad
      <4> QED BY <3>1, <4>1, <4>2, <1>2, IdleNowhere DEF Moved, At
    <3>2. CASE h # g
      <4>1. ~ At(h, "swap") /\ call[h].patch.key # "history"
        BY <1>1 DEF NInv
      <4>2. ~ At(h, "fill")
        BY <3>2, <1>3, NobodyAlone DEF Alone
      <4> QED BY <3>2, <4>1, <4>2, <1>10 DEF At
    <3> QED BY <3>1, <3>2
  <2> QED BY <2>1, <2>2, <2>3 DEF NInv
<1> QED BY <1>11, <1>12, <1>13

\* syncJournal keeps the rest of the invariant.
LEMMA syncJournalAJN ==
    ASSUME TInv, XInv, AInv, JInv, NInv, NEW g \in Threads, syncJournal(g)
    PROVE  AInv' /\ JInv' /\ NInv'
<1>1. /\ At(g, "sync") /\ Becomes(g, Go(g, 1)) /\ follows' = Followed(g, call[g].got)
      /\ UNCHANGED <<disk, due, path, pointer, legacy, chosen, cached, root>>
  BY DEF syncJournal, history
<1>2. Moved(g, Nexts("sync"), call[g].patch, call[g].at, call[g].got)
  BY <1>1, GoOne
<1>3. Moved(g, AfterLoad, call[g].patch, call[g].at, call[g].got)
  BY <1>2, NextSets
<1>4. call[g].got = cached
  BY <1>1 DEF JInv
<1>5. AInv'
  <2>1. Kept /\ path' = path /\ pointer' = pointer /\ legacy' = legacy /\ chosen' = chosen
    BY <1>1 DEF Kept
  <2>2. \A y \in {"unlegacy", "resolve", "turn", "ensure", "discard"} : y \notin AfterLoad
    BY DEF AfterLoad
  <2> QED BY <1>1, <1>3, <2>1, <2>2, AQuiet
<1>6. JInv'
  <2>1. ASSUME NEW h \in Threads, NEW y \in {"write", "sync", "build", "snapshot"}, At(h, y)' PROVE call'[h].got = cached
    <3>1. CASE h = g
      BY <3>1, <2>1, <1>3, <1>4, IdleNowhere DEF Moved
    <3>2. CASE h # g
      BY <3>2, <2>1, <1>3 DEF Moved, JInv, At
    <3> QED BY <3>1, <3>2
  <2>2. root # None => follows' = cached.folder
    BY <1>1, <1>4 DEF Followed
  <2> QED BY <1>1, <2>1, <2>2 DEF JInv
<1>7. NInv'
  <2>1. "swap" \notin AfterLoad /\ "fill" \notin AfterLoad /\ "keep" \notin AfterLoad
    BY DEF AfterLoad
  <2>2. disk' = disk /\ due' = due /\ path' = path /\ cached' = cached
    BY <1>1
  <2> QED BY <1>1, <1>3, <2>1, <2>2, NQuiet
<1> QED BY <1>5, <1>6, <1>7

\* PersistFile keeps the rest of the invariant.
LEMMA PersistFileAJN ==
    ASSUME TInv, XInv, AInv, JInv, NInv, NEW g \in Threads, PersistFile(g)
    PROVE  AInv' /\ JInv' /\ NInv'
<1> DEFINE x == call[g].patch
           got == call[g].got
           merged == Patched(x, got)
<1>1. /\ At(g, "write") /\ UNCHANGED <<path, pointer, legacy, chosen, cached, follows, root>>
  BY DEF PersistFile, memory
<1>2. /\ path \in Profiles /\ got \in Configs /\ x \in Patches /\ merged \in Configs
      /\ IF x.key \in Mutations /\ merged = got
         THEN Moved(g, {"unlock"}, x, call[g].at, got) /\ UNCHANGED <<disk, due>>
         ELSE /\ Moved(g, {"swap"}, x, call[g].at, merged)
              /\ disk' = [disk EXCEPT ![path] = merged]
              /\ due' = [due EXCEPT ![path] = IF @ \in Configs THEN Owed(x, @) ELSE merged]
  BY PersistMoves DEF Effect
<1>3. CASE x.key \in Mutations /\ merged = got
  <2>1. Moved(g, {"unlock"}, x, call[g].at, got) /\ UNCHANGED <<disk, due>>
    BY <1>2, <1>3
  <2> QED BY <1>1, <2>1, AllQuiet
<1>5. CASE ~ (x.key \in Mutations /\ merged = got)
  <2>17. Becomes(g, [Go(g, 1) EXCEPT !.got = merged])
    BY <1>5 DEF PersistFile
  <2>16. /\ Moved(g, {"swap"}, x, call[g].at, merged)
         /\ disk' = [disk EXCEPT ![path] = merged]
         /\ due' = [due EXCEPT ![path] = IF @ \in Configs THEN Owed(x, @) ELSE merged]
    BY <1>2, <1>5
  <2>1. Busy(g) /\ Holds(g) /\ call[g].kind # "import"
    BY <1>1, AtStep, HoldsAt DEF Makes
  <2>2. got = cached /\ cached # None
    BY <1>1, <1>2, NotConfigs DEF JInv
  <2>3. \A h \in Threads : ~ At(h, "swap")
    BY <1>1, <2>1, NobodyLocked DEF At
  <2>4. ASSUME NEW h \in Threads, NEW y \in {"parse", "fill", "forget"} PROVE ~ At(h, y)
    BY <1>1, <2>1, NobodyAlone DEF Alone, At
  <2>5. got = disk[path]
    BY <2>2, <2>3, <2>4 DEF NInv, Importing
  <2>6. due[path] = got
    BY <1>2, <2>5, NotConfigs DEF NInv, Accounted
  <2>7. x.key = "history" => got.note = x.to
    BY <2>2 DEF NInv
  <2>8. Owed(x, got) = merged
    BY <1>2, <2>7, SnapshotOwesNothing
  <2>9. disk \in Stored /\ due \in [Profiles -> Configs \cup {None}]
    BY DEF TInv, TypeInv
  <2>10. x.key = "history" => merged.note = x.to
    BY <1>2 DEF Patched, Configs
  <2> HIDE DEF x, got, merged
  <2>11. /\ disk'[path] = merged /\ due'[path] = merged
         /\ \A q \in Profiles : q # path => disk'[q] = disk[q] /\ due'[q] = due[q]
    <3> HIDE DEF Configs, Owed
    <3> QED BY <1>2, <2>16, <2>6, <2>8, <2>9 DEF Stored
  <2>12. \A h \in Threads : h # g => call'[h] = call[h]
    BY <2>16 DEF Moved
  <2>13. AInv'
    <3>1. Kept
      BY <1>2, <2>11, NotConfigs DEF Kept
    <3>2. path' = path /\ pointer' = pointer /\ legacy' = legacy /\ chosen' = chosen
      BY <1>1
    <3> QED BY <1>1, <2>16, <3>1, <3>2, AQuiet
  <2>14. JInv'
    <3>1. cached' = cached /\ follows' = follows /\ root' = root
      BY <1>1
    <3> QED BY <1>1, <2>16, <3>1, JQuiet
  <2>15. NInv'
    <3>1. Accounted'
      BY <2>11 DEF NInv, Accounted
    <3>2. call'[g] # Idle
      <4>1. merged \in Configs \cup {None} /\ "write" \notin Ends
        BY <1>2 DEF Ends
      <4> QED BY <1>1, <2>17, <4>1, GoesOn
    <3>3. At(g, "swap")' /\ call'[g].got = merged
      BY <2>16, <3>2 DEF Moved, At
    <3>4. ASSUME NEW h \in Threads, h # g PROVE ~ At(h, "swap")' /\ ~ At(h, "fill")' /\ call'[h].patch.key # "history"
      <4>1. call[h].patch.key # "history"
        <5> SUFFICES ASSUME call[h].patch.key = "history" PROVE FALSE
          OBVIOUS
        <5>1. call[h].kind \in Solos
          BY DEF NInv, Solos
        <5> QED BY <3>4, <5>1, <2>1 DEF XInv
      <4> QED BY <4>1, <3>4, <2>3, <2>4, <2>12 DEF At
    <3>5. ~ At(g, "fill")'
      BY <3>3 DEF At
    <3>6. call'[g].patch = x /\ call'[g].kind = call[g].kind
      BY <2>16, <3>2 DEF Moved
    <3>7. x.key = "history" => call[g].kind = "history" /\ cached # None /\ cached.note = x.to
      BY DEF NInv, x
    <3>8. cached' = cached /\ path' = path
      BY <1>1
    <3> QED BY <2>2, <2>10, <2>11, <3>1, <3>3, <3>4, <3>5, <3>6, <3>7, <3>8 DEF NInv
  <2> QED BY <2>13, <2>14, <2>15
<1> QED BY <1>3, <1>5

\* PersistCache keeps the rest of the invariant.
LEMMA PersistCacheAJN ==
    ASSUME TInv, XInv, AInv, JInv, NInv, NEW g \in Threads, PersistCache(g)
    PROVE  AInv' /\ JInv' /\ NInv'
<1> DEFINE got == call[g].got
<1>1. /\ At(g, "swap") /\ Becomes(g, Go(g, 1)) /\ cached' = got
      /\ UNCHANGED <<disk, due, path, pointer, legacy, chosen, follows, root>>
  BY DEF PersistCache, history
<1>2. Moved(g, Nexts("swap"), call[g].patch, call[g].at, got)
  BY <1>1, GoOne
<1>3. Moved(g, {"sync"}, call[g].patch, call[g].at, got)
  BY <1>2, NextSets
<1>4. Busy(g) /\ Holds(g) /\ got \in Configs /\ got # None
  BY <1>1, AtStep, HoldsAt, NotConfigs DEF TInv, Ready
<1>5. got = disk[path] /\ cached # None
  BY <1>1 DEF NInv
<1>6. \A h \in Threads : h # g => call'[h] = call[h]
  BY <1>3 DEF Moved
<1>7. call'[g] # Idle
  BY <1>1, GoesOn DEF Ends
<1>8. At(g, "sync")' /\ call'[g].got = got /\ call'[g].patch = call[g].patch /\ call'[g].kind = call[g].kind
  BY <1>3, <1>7 DEF Moved, At
<1>9. ASSUME NEW h \in Threads, h # g
      PROVE  /\ \A y \in {"write", "swap", "sync", "build", "snapshot", "fill"} : ~ At(h, y)'
             /\ call'[h].patch.key # "history"
  <2>1. ~ At(h, "write") /\ ~ At(h, "swap") /\ ~ At(h, "sync")
    BY <1>4, <1>9, NobodyLocked
  <2>2. ~ At(h, "build") /\ ~ At(h, "snapshot") /\ ~ At(h, "fill")
    BY <1>4, <1>9, NobodyAlone DEF Alone
  <2>3. call[h].patch.key # "history"
    <3> SUFFICES ASSUME call[h].patch.key = "history" PROVE FALSE
      OBVIOUS
    <3>1. call[h].kind \in Solos
      BY DEF NInv, Solos
    <3> QED BY <1>4, <1>9, <3>1 DEF XInv
  <2> QED BY <1>6, <1>9, <2>1, <2>2, <2>3 DEF At
<1>10. AInv'
  <2>1. Kept /\ path' = path /\ pointer' = pointer /\ legacy' = legacy /\ chosen' = chosen
    BY <1>1 DEF Kept
  <2> QED BY <1>1, <1>3, <2>1, AQuiet
<1>11. JInv'
  <2>1. \A y \in {"write", "build", "snapshot"} : ~ At(g, y)'
    BY <1>8 DEF At
  <2> QED BY <1>1, <1>8, <1>9, <2>1 DEF JInv
<1>12. NInv'
  <2>1. Accounted'
    BY <1>1 DEF NInv, Accounted
  <2>2. \A y \in {"swap", "fill"} : ~ At(g, y)'
    BY <1>8 DEF At
  <2>3. call[g].patch.key = "history" => call[g].kind = "history" /\ got.note = call[g].patch.to
    BY <1>1 DEF NInv
  <2> QED BY <1>1, <1>4, <1>5, <1>8, <1>9, <2>1, <2>2, <2>3 DEF NInv
<1> QED BY <1>10, <1>11, <1>12

\* Beside a switch there is no other, and no call that runs alone.
LEMMA BesideSwitch ==
    ASSUME TInv, XInv, NInv, NEW g \in Threads, call[g].kind = "switch", NEW h \in Threads, h # g
    PROVE  /\ \A y \in Alone : ~ At(h, y)
           /\ ~ At(h, "turn") /\ ~ At(h, "ensure") /\ call[h].patch.key # "history"
<1>1. Busy(g)
  BY DEF Busy
<1>2. call[h].kind # "switch" /\ call[h].kind \notin Solos
  BY <1>1 DEF XInv
<1>3. \A y \in Alone : ~ At(h, y)
  BY <1>1, NobodyAlone
<1>4. ASSUME NEW y \in {"turn", "ensure"}, At(h, y) PROVE FALSE
  <2>1. Makes(call[h].kind, y)
    BY <1>4, AtStep
  <2> QED BY <2>1, <1>2 DEF Makes, Solos
<1>5. call[h].patch.key # "history"
  BY <1>2 DEF NInv, Solos
<1> QED BY <1>3, <1>4, <1>5

\* SwitchPointer keeps the rest of the invariant.
LEMMA SwitchPointerAJN ==
    ASSUME TInv, XInv, AInv, JInv, NInv, NEW g \in Threads, SwitchPointer(g)
    PROVE  AInv' /\ JInv' /\ NInv'
<1> DEFINE to == call[g].to
<1>1. /\ At(g, "point") /\ Becomes(g, Go(g, 1)) /\ pointer' = to /\ chosen' = to
      /\ UNCHANGED <<disk, due, path, legacy, cached, follows, root>>
  BY DEF SwitchPointer, memory
<1>2. Moved(g, Nexts("point"), call[g].patch, call[g].at, call[g].got)
  BY <1>1, GoOne
<1>3. Moved(g, {"turn"}, call[g].patch, call[g].at, call[g].got)
  BY <1>2, NextSets
<1>4. call[g].kind = "switch"
  BY <1>1, AtStep DEF Makes
<1>5. to \in Profiles /\ to # None /\ disk[to] # Malformed
  BY <1>4, NamesAssumption DEF TInv, Ready, AInv
<1>6. call'[g] # Idle
  BY <1>1, GoesOn DEF Ends
<1>7. At(g, "turn")' /\ call'[g].to = to /\ call'[g].kind = call[g].kind
  BY <1>3, <1>6 DEF Moved, At
<1>8. \A h \in Threads : h # g => call'[h] = call[h]
  BY <1>3 DEF Moved
<1> HIDE DEF to
<1>9. AInv'
  <2>1. ActiveStays'
    BY <1>7 DEF ActiveStays
  <2>2. ASSUME NEW h \in Threads, NEW y \in {"unlegacy", "resolve", "ensure", "discard"} PROVE ~ At(h, y)'
    <3>1. CASE h = g
      BY <3>1, <1>7 DEF At
    <3>2. CASE h # g
      BY <3>2, <1>4, <1>8, BesideSwitch DEF Alone, At
    <3> QED BY <3>1, <3>2
  <2>3. ASSUME NEW h \in Threads, At(h, "turn")' PROVE call'[h].to = to
    <3>1. CASE h = g
      BY <3>1, <1>7
    <3>2. CASE h # g
      BY <3>2, <2>3, <1>4, <1>8, BesideSwitch DEF At
    <3> QED BY <3>1, <3>2
  <2>4. ASSUME NEW h \in Threads, call'[h].kind = "switch" PROVE disk[call'[h].to] # Malformed
    BY <2>4, <1>5, <1>7, <1>8 DEF AInv
  <2> QED BY <1>1, <1>5, <2>1, <2>2, <2>3, <2>4 DEF AInv
<1>10. JInv'
  <2>1. cached' = cached /\ follows' = follows /\ root' = root
    BY <1>1
  <2> QED BY <1>1, <1>3, <2>1, JQuiet
<1>11. NInv'
  <2>1. disk' = disk /\ due' = due /\ path' = path /\ cached' = cached
    BY <1>1
  <2> QED BY <1>1, <1>3, <2>1, NQuiet
<1> QED BY <1>9, <1>10, <1>11

\* setConfigPath keeps the rest of the invariant.
LEMMA setConfigPathAJN ==
    ASSUME Undisturbed, TInv, XInv, AInv, JInv, NInv, NEW g \in Threads, setConfigPath(g)
    PROVE  AInv' /\ JInv' /\ NInv'
<1> DEFINE to == call[g].to
<1>1. /\ At(g, "turn") /\ Becomes(g, Go(g, 1)) /\ path' = to /\ cached' = None
      /\ \A h \in Threads : call[h].at # to
      /\ UNCHANGED <<disk, due, pointer, legacy, chosen, follows, root>>
  BY DEF setConfigPath, history, Undisturbed
<1>2. Moved(g, Nexts("turn"), call[g].patch, call[g].at, call[g].got)
  BY <1>1, GoOne
<1>3. Moved(g, {"ensure"}, call[g].patch, call[g].at, call[g].got)
  BY <1>2, NextSets
<1>4. call[g].kind = "switch" /\ Holds(g)
  BY <1>1, AtStep, HoldsAt DEF Makes
<1>5. to \in Profiles /\ to # None /\ chosen = to
  BY <1>1, <1>4, NamesAssumption DEF TInv, Ready, AInv
<1>6. call'[g] # Idle
  BY <1>1, GoesOn DEF Ends
<1>7. At(g, "ensure")' /\ call'[g].to = to /\ call'[g].kind = call[g].kind /\ call'[g].patch = call[g].patch
  BY <1>3, <1>6 DEF Moved, At
<1>8. \A h \in Threads : h # g => call'[h] = call[h]
  BY <1>3 DEF Moved
<1> HIDE DEF to
<1>9. AInv'
  <2>1. ActiveStays'
    BY <1>7 DEF ActiveStays
  <2>2. ASSUME NEW h \in Threads, NEW y \in {"unlegacy", "resolve", "turn", "discard"} PROVE ~ At(h, y)'
    <3>1. CASE h = g
      BY <3>1, <1>7 DEF At
    <3>2. CASE h # g
      BY <3>2, <1>4, <1>8, BesideSwitch DEF Alone, At
    <3> QED BY <3>1, <3>2
  <2>3. ASSUME NEW h \in Threads, call'[h].kind = "switch" PROVE disk[call'[h].to] # Malformed
    BY <2>3, <1>4, <1>7, <1>8 DEF AInv, to
  <2> QED BY <1>1, <1>5, <2>1, <2>2, <2>3 DEF AInv
<1>10. JInv'
  <2>1. ASSUME NEW h \in Threads, NEW y \in {"write", "sync", "build", "snapshot"} PROVE ~ At(h, y)'
    <3>1. CASE h = g
      BY <3>1, <1>7 DEF At
    <3>2. CASE h # g
      BY <3>2, <1>4, <1>8, BesideSwitch, NobodyLocked DEF Alone, At
    <3> QED BY <3>1, <3>2
  <2> QED BY <1>1, <2>1 DEF JInv
<1>11. NInv'
  <2>1. Accounted'
    BY <1>1 DEF NInv, Accounted
  <2>2. ASSUME NEW h \in Threads PROVE ~ At(h, "swap")' /\ ~ At(h, "fill")' /\ call'[h].patch.key # "history"
    <3>1. CASE h = g
      <4>1. call[g].patch.key # "history"
        BY <1>4 DEF NInv
      <4> QED BY <3>1, <4>1, <1>7 DEF At
    <3>2. CASE h # g
      BY <3>2, <1>4, <1>8, BesideSwitch, NobodyLocked DEF Alone, At
    <3> QED BY <3>1, <3>2
  <2>3. ASSUME NEW h \in Threads, At(h, "keep")' PROVE call'[h].at # to
    <3>1. h # g
      BY <2>3, <1>7 DEF At
    <3> QED BY <3>1, <1>1, <1>8
  <2> QED BY <1>1, <2>1, <2>2, <2>3 DEF NInv
<1> QED BY <1>9, <1>10, <1>11

\* ensureUserConfigFile keeps the rest of the invariant.
LEMMA ensureUserConfigFileAJN ==
    ASSUME Undisturbed, TInv, XInv, AInv, JInv, NInv, NEW g \in Threads, ensureUserConfigFile(g)
    PROVE  AInv' /\ JInv' /\ NInv'
<1>1. /\ At(g, "ensure") /\ Becomes(g, Go(g, 1))
      /\ UNCHANGED <<path, pointer, legacy, chosen, cached, follows, root>>
      /\ IF disk[path] # None THEN UNCHANGED <<disk, due>>
         ELSE /\ disk' = [disk EXCEPT ![path] = defaultConfig]
              /\ due' = [due EXCEPT ![path] = defaultConfig]
  BY NothingMissed DEF ensureUserConfigFile, memory
<1>2. Moved(g, Nexts("ensure"), call[g].patch, call[g].at, call[g].got)
  BY <1>1, GoOne
<1>3. Moved(g, {"unlock", "look"}, call[g].patch, call[g].at, call[g].got)
  BY <1>2, NextSets
<1>4. path \in Profiles /\ Busy(g) /\ path = chosen /\ disk[path] # Malformed
  BY <1>1, PathThere, AtStep DEF AInv
<1>5. disk \in Stored /\ due \in [Profiles -> Configs \cup {None}] /\ defaultConfig \in Configs
  BY DefaultIsConfig DEF TInv, TypeInv
<1>6. /\ \A q \in Profiles : q # path => disk'[q] = disk[q] /\ due'[q] = due[q]
      /\ disk'[path] \in Configs
      /\ disk[path] # None => disk' = disk /\ due' = due
      /\ disk[path] = None => disk'[path] = due'[path]
  <2> HIDE DEF Configs, defaultConfig, Malformed
  <2> QED BY <1>1, <1>4, <1>5 DEF Stored
<1>7. \A h \in Threads : h # g => call'[h] = call[h]
  BY <1>3 DEF Moved
<1>8. \A h \in Threads : h # g => ~ At(h, "turn") /\ ~ At(h, "ensure")
  <2>1. Makes(call[g].kind, "ensure")
    BY <1>1, AtStep
  <2>2. CASE call[g].kind = "switch"
    BY <2>2, BesideSwitch
  <2>3. CASE call[g].kind = "boot"
    BY <2>3, OthersIdle, IdleCall DEF Solos, At
  <2> QED BY <2>1, <2>2, <2>3 DEF Makes
<1>9. AInv'
  <2>1. ActiveStays'
    BY <1>1, <1>4, <1>6 DEF ActiveStays
  <2>2. ASSUME NEW h \in Threads, NEW y \in {"unlegacy", "resolve", "turn", "ensure", "discard"}, At(h, y)'
        PROVE  At(h, y) /\ call'[h] = call[h] /\ y # "turn" /\ y # "ensure"
    <3>1. h # g
      BY <2>2, <1>3, IdleNowhere DEF Moved, At
    <3> QED BY <3>1, <2>2, <1>7, <1>8 DEF At
  <2>3. \A q \in Profiles : disk[q] # Malformed => disk'[q] # Malformed
    BY <1>6, NotConfigs
  <2>4. ASSUME NEW h \in Threads, call'[h].kind = "switch" PROVE disk'[call'[h].to] # Malformed
    <3>1. call[h].kind = "switch" /\ call'[h].to = call[h].to
      BY <2>4, <1>3, <1>7, IdleNowhere DEF Moved
    <3>2. call[h].to \in Profiles
      BY <3>1 DEF TInv, Ready
    <3> QED BY <2>3, <3>1, <3>2 DEF AInv
  <2>5. disk'[chosen] # Malformed
    BY <1>4, <2>3 DEF AInv
  <2> QED BY <1>1, <2>1, <2>2, <2>4, <2>5 DEF AInv
<1>10. JInv'
  <2>1. cached' = cached /\ follows' = follows /\ root' = root
    BY <1>1
  <2> QED BY <1>1, <1>3, <2>1, JQuiet
<1>11. NInv'
  <2>1. CASE disk[path] # None
    <3>1. disk' = disk /\ due' = due /\ path' = path /\ cached' = cached
      BY <2>1, <1>1, <1>6
    <3> QED BY <1>1, <1>3, <3>1, NQuiet
  <2>2. CASE disk[path] = None
    <3>1. \A h \in Threads : ~ At(h, "swap")
      BY <2>2, NotConfigs DEF NInv, TInv, Ready
    <3>2. ASSUME NEW h \in Threads, NEW y \in {"parse", "fill", "forget"} PROVE ~ At(h, y)
      <4>1. y \in Alone
        BY DEF Alone
      <4> QED BY <1>1, <1>4, <4>1, NobodyAlone DEF At
    <3>3. cached = None
      <4> SUFFICES ASSUME cached # None PROVE FALSE
        OBVIOUS
      <4>1. cached = disk[path]
        BY <3>1, <3>2 DEF NInv, Importing
      <4> QED BY <4>1, <2>2
    <3>4. ASSUME NEW h \in Threads PROVE ~ At(h, "swap")' /\ ~ At(h, "fill")' /\ call'[h].patch.key # "history"
      <4>1. call[h].patch.key # "history"
        BY <3>3 DEF NInv
      <4>2. CASE h = g
        BY <4>1, <4>2, <1>3, IdleNowhere DEF Moved, At
      <4>3. CASE h # g
        BY <4>1, <4>3, <3>1, <3>2, <1>7 DEF At
      <4> QED BY <4>2, <4>3
    <3>5. ASSUME NEW h \in Threads, At(h, "keep")' PROVE call'[h].at # path
      <4>1. h # g
        BY <3>5, <1>3, IdleNowhere DEF Moved, At
      <4>2. At(h, "keep") /\ call'[h] = call[h]
        BY <3>5, <4>1, <1>7 DEF At
      <4>3. call[h].got \in Configs
        BY <4>2 DEF TInv, Ready
      <4> QED BY <2>2, <3>3, <4>2, <4>3, NotConfigs DEF NInv
    <3>6. Accounted'
      <4>1. disk'[path] = due'[path]
        BY <2>2, <1>6
      <4> QED BY <4>1, <1>6 DEF NInv, Accounted
    <3> QED BY <1>1, <3>3, <3>4, <3>5, <3>6 DEF NInv
  <2> QED BY <2>1, <2>2
<1> QED BY <1>9, <1>10, <1>11

\* PersistSnapshot keeps the rest of the invariant.
LEMMA PersistSnapshotAJN ==
    ASSUME TInv, XInv, AInv, JInv, NInv, NEW g \in Threads, PersistSnapshot(g)
    PROVE  AInv' /\ JInv' /\ NInv'
<1> DEFINE p == [key |-> "history", to |-> call[g].got.note]
<1>1. /\ At(g, "snapshot") /\ Becomes(g, [Go(g, 1) EXCEPT !.patch = p])
      /\ UNCHANGED <<disk, due, path, pointer, legacy, chosen, cached, follows, root>>
  BY DEF PersistSnapshot, memory, history
<1>2. call[g].got \in Configs /\ call[g].got = cached /\ cached # None
  BY <1>1, NotConfigs DEF TInv, Ready, JInv
<1>3. p \in Patches /\ p.to = cached.note
  <2>1. call[g].got.note \in 0 .. MaxCalls
    BY <1>2 DEF Configs
  <2> QED BY <1>2, <2>1 DEF Patches
<1> HIDE DEF p
<1>4. Moved(g, Nexts("snapshot"), p, call[g].at, call[g].got)
  BY <1>1, <1>3, PatchOne DEF Effect
<1>5. Moved(g, {"lock"}, p, call[g].at, call[g].got)
  BY <1>4, NextSets
<1>6. call[g].kind = "history"
  BY <1>1, AtStep DEF Makes
<1>7. AInv'
  <2>1. Kept /\ path' = path /\ pointer' = pointer /\ legacy' = legacy /\ chosen' = chosen
    BY <1>1 DEF Kept
  <2> QED BY <1>1, <1>5, <2>1, AQuiet
<1>8. JInv'
  <2>1. cached' = cached /\ follows' = follows /\ root' = root
    BY <1>1
  <2> QED BY <1>1, <1>5, <2>1, JQuiet
<1>9. NInv'
  <2>1. \A h \in Threads : h # g => call[h] = Idle /\ ~ Busy(h) /\ call'[h] = Idle
    BY <1>1, <1>5, OnlyThere DEF Alone
  <2>2. ASSUME NEW h \in Threads PROVE \A y \in {"swap", "parse", "fill", "forget", "keep"} : ~ At(h, y)'
    <3>1. CASE h = g
      BY <3>1, <1>5, IdleNowhere DEF Moved, At
    <3>2. CASE h # g
      BY <3>2, <2>1, IdleNowhere
    <3> QED BY <3>1, <3>2
  <2>3. ASSUME NEW h \in Threads PROVE \A y \in {"swap", "parse", "fill", "forget"} : ~ At(h, y)
    BY <1>1, <2>1, IdleCall DEF At
  <2>4. cached = disk[path]
    BY <1>2, <2>3 DEF NInv, Importing
  <2>5. ASSUME NEW h \in Threads, call'[h].patch.key = "history"
        PROVE  call'[h].kind = "history" /\ cached.note = call'[h].patch.to
    <3>1. call'[h] # Idle /\ h = g
      BY <2>1, <2>5, IdleNowhere
    <3> QED BY <3>1, <1>3, <1>5, <1>6 DEF Moved
  <2>6. Accounted'
    BY <1>1 DEF NInv, Accounted
  <2> QED BY <1>1, <1>2, <2>2, <2>4, <2>5, <2>6 DEF NInv
<1> QED BY <1>7, <1>8, <1>9

\* Where a call runs alone, its step is the only one.
LEMMA OnlyStep ==
    ASSUME NEW g \in Threads, NEW x, At(g, x), \A h \in Threads : h # g => call[h] = Idle
    PROVE  \A h \in Threads : \A y : y # x => ~ At(h, y)
<1>1. \A h \in Threads : h # g => call[h].todo = <<>>
  BY IdleCall
<1> QED BY <1>1 DEF At

\* And the next one is.
LEMMA OnlyStepNext ==
    ASSUME NEW g \in Threads, NEW x, At(g, x)', \A h \in Threads : h # g => call'[h] = Idle
    PROVE  \A h \in Threads : \A y : y # x => ~ At(h, y)'
<1>1. \A h \in Threads : h # g => call'[h].todo = <<>>
  BY IdleCall
<1> QED BY <1>1 DEF At

\* ImportCopy keeps the rest of the invariant.
LEMMA ImportCopyAJN ==
    ASSUME Undisturbed, TInv, XInv, AInv, JInv, NInv, NEW g \in Threads, ImportCopy(g)
    PROVE  AInv' /\ JInv' /\ NInv'
<1> DEFINE to == call[g].to
<1>1. /\ At(g, "copy") /\ Becomes(g, Go(g, 1))
      /\ UNCHANGED <<path, pointer, legacy, chosen, cached, follows, root>>
  BY DEF ImportCopy, memory
<1>2. PICK raw \in Incoming : /\ raw = Malformed => disk[to] = None
                             /\ disk' = [disk EXCEPT ![to] = raw]
                             /\ due' = [due EXCEPT ![to] = IF raw = Malformed THEN @ ELSE raw]
  BY DEF ImportCopy, Undisturbed
<1>3. call[g].kind = "import" /\ path \in Profiles /\ path # None
  BY <1>1, AtStep, PathThere DEF Makes
<1>4. to \in Profiles
  BY <1>3 DEF TInv, Ready
<1>5. Moved(g, Nexts("copy"), call[g].patch, call[g].at, call[g].got)
  BY <1>1, GoOne
<1>6. Moved(g, {"parse"}, call[g].patch, call[g].at, call[g].got)
  BY <1>5, NextSets
<1>7. \A h \in Threads : h # g => call[h] = Idle /\ ~ Busy(h) /\ call'[h] = Idle
  BY <1>1, <1>6, OnlyThere DEF Alone
<1>8. call'[g] # Idle
  BY <1>1, GoesOn DEF Ends
<1>9. At(g, "parse")' /\ call'[g].to = to /\ call'[g].kind = "import" /\ call'[g].patch = call[g].patch
  BY <1>3, <1>6, <1>8 DEF Moved, At
<1>10. ASSUME NEW h \in Threads, NEW y, y # "copy" PROVE ~ At(h, y)
  BY <1>1, <1>7, <1>10, OnlyStep
<1>11. ASSUME NEW h \in Threads, NEW y, y # "parse" PROVE ~ At(h, y)'
  BY <1>7, <1>9, <1>11, OnlyStepNext
<1>12. path = chosen /\ disk[path] \in Configs
  BY <1>3, <1>10 DEF AInv, ActiveStays
<1>13. raw \in Configs \cup {Malformed}
  <2>1. calls \in 0 .. MaxCalls
    BY DEF TInv, TypeInv
  <2> QED BY <2>1 DEF Incoming, Configs
<1>14. disk \in Stored /\ due \in [Profiles -> Configs \cup {None}]
  BY DEF TInv, TypeInv
<1> HIDE DEF to
<1>15. /\ disk'[to] = raw /\ due'[to] = IF raw = Malformed THEN due[to] ELSE raw
       /\ \A q \in Profiles : q # to => disk'[q] = disk[q] /\ due'[q] = due[q]
  <2> HIDE DEF Configs, Malformed, Incoming
  <2> QED BY <1>2, <1>4, <1>14 DEF Stored
<1>16. disk'[path] \in Configs
  BY <1>2, <1>3, <1>12, <1>13, <1>15, NotConfigs
<1>17. \A h \in Threads : call'[h].kind # "switch" /\ call'[h].patch.key # "history"
  BY <1>3, <1>7, <1>9, IdleNowhere DEF NInv
<1>18. AInv'
  <2>1. ActiveStays'
    BY <1>1, <1>12, <1>16 DEF ActiveStays
  <2> QED BY <1>1, <1>11, <1>12, <1>16, <1>17, <2>1, NotConfigs DEF AInv
<1>19. JInv'
  <2>1. cached' = cached /\ follows' = follows /\ root' = root
    BY <1>1
  <2> QED BY <1>1, <1>6, <2>1, JQuiet
<1>20. NInv'
  <2>1. Accounted'
    <3>1. raw = Malformed => due[to] = None
      BY <1>2, <1>4, NotConfigs DEF NInv, Accounted
    <3> QED BY <1>4, <1>15, <3>1 DEF NInv, Accounted
  <2>2. cached # None => cached = disk'[path] \/ Importing(path)'
    <3>1. CASE to = path
      BY <1>1, <1>9, <3>1 DEF Importing
    <3>2. CASE to # path
      <4>1. disk'[path] = disk[path]
        BY <1>3, <1>15, <3>2
      <4> QED BY <1>10, <4>1 DEF NInv, Importing
    <3> QED BY <3>1, <3>2
  <2> QED BY <1>1, <1>11, <1>17, <2>1, <2>2 DEF NInv, Importing
<1> QED BY <1>18, <1>19, <1>20

\* ImportParse keeps the rest of the invariant.
LEMMA ImportParseAJN ==
    ASSUME TInv, XInv, AInv, JInv, NInv, NEW g \in Threads, ImportParse(g)
    PROVE  AInv' /\ JInv' /\ NInv'
<1> DEFINE to == call[g].to
           v == parseUserConfig(disk[to])
<1>1. At(g, "parse") /\ UNCHANGED <<due, pointer, legacy, chosen>>
  BY DEF ImportParse, history
<1>2. call[g].kind = "import" /\ path \in Profiles /\ path # None /\ root # None /\ Busy(g)
  BY <1>1, AtStep, PathThere, RootThere DEF Makes
<1>3. to \in Profiles
  BY <1>2 DEF TInv, Ready
<1>4. \A h \in Threads : h # g => call[h] = Idle
  BY <1>2, OthersIdle DEF Solos
<1>5. ASSUME NEW h \in Threads, NEW y, y # "parse" PROVE ~ At(h, y)
  BY <1>1, <1>4, <1>5, OnlyStep
<1>6. path = chosen /\ disk[path] \in Configs
  BY <1>2, <1>5 DEF AInv, ActiveStays
<1>7. CASE disk[to] \in Configs
  <2>1. /\ Becomes(g, [Go(g, 1) EXCEPT !.got = v]) /\ v \in Configs \cup {None}
        /\ UNCHANGED <<disk, due, path, pointer, legacy, chosen, cached, follows, root>>
    BY <1>1, <1>7, ParseKeeps DEF ImportParse, memory
  <2>2. v = parseUserConfig(disk[to])
    OBVIOUS
  <2> HIDE DEF v
  <2>3. Moved(g, Nexts("parse"), call[g].patch, call[g].at, v)
    BY <1>1, <2>1, GotOne DEF Effect
  <2>4. Moved(g, {"fill"}, call[g].patch, call[g].at, v)
    BY <2>3, NextSets
  <2>5. \A h \in Threads : h # g => call'[h] = Idle
    BY <1>4, <2>4 DEF Moved
  <2>6. call'[g] # Idle
    BY <1>1, <2>1, GoesOn DEF Ends
  <2>7. /\ At(g, "fill")' /\ call'[g].to = to /\ call'[g].kind = "import" /\ call'[g].patch = call[g].patch
        /\ call'[g].got = v
    BY <1>2, <2>4, <2>6 DEF Moved, At
  <2>8. ASSUME NEW h \in Threads, NEW y, y # "fill" \/ h # g PROVE ~ At(h, y)'
    BY <2>5, <2>7, <2>8, IdleNowhere DEF At
  <2> HIDE DEF to
  <2>9. AInv'
    <3>1. Kept /\ path' = path /\ pointer' = pointer /\ legacy' = legacy /\ chosen' = chosen
      BY <2>1 DEF Kept
    <3> QED BY <1>1, <2>4, <3>1, AQuiet
  <2>10. JInv'
    <3>1. cached' = cached /\ follows' = follows /\ root' = root
      BY <2>1
    <3> QED BY <1>1, <2>4, <3>1, JQuiet
  <2>11. NInv'
    <3>1. Accounted'
      BY <2>1 DEF NInv, Accounted
    <3>2. cached # None => cached = disk[path] \/ Importing(path)'
      <4>1. CASE to = path
        BY <2>1, <2>7, <4>1 DEF Importing
      <4>2. CASE to # path
        BY <1>4, <1>5, <4>2, IdleCall DEF NInv, Importing, At, to
      <4> QED BY <4>1, <4>2
    <3>3. \A h \in Threads : call'[h].patch.key # "history"
      BY <1>2, <2>5, <2>7, IdleNowhere DEF NInv
    <3>4. ASSUME NEW h \in Threads, At(h, "fill")'
          PROVE  disk[call'[h].to] \in Configs /\ call'[h].got = parseUserConfig(disk[call'[h].to])
      BY <1>7, <2>2, <2>7, <2>8, <3>4
    <3> QED BY <2>1, <2>8, <3>1, <3>2, <3>3, <3>4 DEF NInv, Importing
  <2> QED BY <2>9, <2>10, <2>11
<1>8. CASE disk[to] \notin Configs
  <2>1. Return(g) /\ disk' = [disk EXCEPT ![to] = None] /\ UNCHANGED <<follows, root>>
    BY <1>8 DEF ImportParse
  <2>2. path' = path /\ cached' = cached
    BY <1>2, <2>1 DEF Return
  <2>3. \A h \in Threads : call'[h] = Idle
    BY <1>4, <2>1, IdleTurned
  <2>4. to # path
    BY <1>6, <1>8
  <2>5. disk \in Stored
    BY DEF TInv, TypeInv
  <2> HIDE DEF to
  <2>6. disk'[to] = None /\ \A q \in Profiles : q # to => disk'[q] = disk[q]
    BY <1>3, <2>1, <2>5 DEF Stored
  <2>7. \A h \in Threads : /\ call'[h].kind = "none" /\ call'[h].patch.key # "history"
                           /\ \A y : ~ At(h, y)'
    BY <2>3, IdleNowhere
  <2>8. disk'[path] = disk[path]
    BY <1>2, <2>4, <2>6
  <2>9. AInv'
    <3>1. ActiveStays'
      BY <1>1, <1>6, <2>2, <2>8 DEF ActiveStays
    <3> QED BY <1>1, <1>6, <2>2, <2>7, <2>8, <3>1, NotConfigs DEF AInv
  <2>10. JInv'
    BY <1>5, <2>1, <2>2, <2>7 DEF JInv
  <2>11. NInv'
    <3>1. due[to] = None
      BY <1>3, <1>8, NotConfigs DEF NInv, Accounted, TInv, TypeInv
    <3>2. Accounted'
      BY <1>1, <2>6, <3>1 DEF NInv, Accounted
    <3>3. cached # None => cached = disk[path]
      BY <1>4, <1>5, <2>4, IdleCall DEF NInv, Importing, At, to
    <3> QED BY <2>2, <2>7, <2>8, <3>2, <3>3 DEF NInv
  <2> QED BY <2>9, <2>10, <2>11
<1> QED BY <1>7, <1>8

\* ImportFill keeps the rest of the invariant.
LEMMA ImportFillAJN ==
    ASSUME TInv, XInv, AInv, JInv, NInv, NEW g \in Threads, ImportFill(g)
    PROVE  AInv' /\ JInv' /\ NInv'
<1> DEFINE to == call[g].to
           got == call[g].got
<1>1. /\ At(g, "fill") /\ Becomes(g, Go(g, 1))
      /\ disk' = [disk EXCEPT ![to] = got]
      /\ due' = [due EXCEPT ![to] = IF @ \in Configs THEN parseUserConfig(@) ELSE got]
      /\ UNCHANGED <<path, pointer, legacy, chosen, cached, follows, root>>
  BY DEF ImportFill, memory
<1>2. call[g].kind = "import" /\ path \in Profiles /\ path # None
  BY <1>1, AtStep, PathThere DEF Makes
<1>3. to \in Profiles /\ got \in Configs /\ disk[to] \in Configs /\ got = parseUserConfig(disk[to])
  BY <1>1, <1>2 DEF TInv, Ready, NInv
<1>4. Moved(g, Nexts("fill"), call[g].patch, call[g].at, got)
  BY <1>1, GoOne
<1>5. Moved(g, {"forget"}, call[g].patch, call[g].at, got)
  BY <1>4, NextSets
<1>6. \A h \in Threads : h # g => call[h] = Idle /\ ~ Busy(h) /\ call'[h] = Idle
  BY <1>1, <1>5, OnlyThere DEF Alone
<1>7. call'[g] # Idle
  BY <1>1, GoesOn DEF Ends
<1>8. At(g, "forget")' /\ call'[g].to = to /\ call'[g].kind = "import" /\ call'[g].patch = call[g].patch
  BY <1>2, <1>5, <1>7 DEF Moved, At
<1>9. ASSUME NEW h \in Threads, NEW y, y # "forget" PROVE ~ At(h, y)'
  BY <1>6, <1>8, <1>9, OnlyStepNext
<1>10. due[to] = disk[to]
  BY <1>3, NotConfigs DEF NInv, Accounted
<1>11. disk \in Stored /\ due \in [Profiles -> Configs \cup {None}]
  BY DEF TInv, TypeInv
<1> HIDE DEF to, got
<1>12. /\ disk'[to] = got /\ due'[to] = got
       /\ \A q \in Profiles : q # to => disk'[q] = disk[q] /\ due'[q] = due[q]
  <2> HIDE DEF Configs, parseUserConfig
  <2> QED BY <1>1, <1>3, <1>10, <1>11 DEF Stored
<1>13. AInv'
  <2>1. Kept
    BY <1>3, <1>12, NotConfigs DEF Kept
  <2>2. path' = path /\ pointer' = pointer /\ legacy' = legacy /\ chosen' = chosen
    BY <1>1
  <2> QED BY <1>1, <1>5, <2>1, <2>2, AQuiet
<1>14. JInv'
  <2>1. cached' = cached /\ follows' = follows /\ root' = root
    BY <1>1
  <2> QED BY <1>1, <1>5, <2>1, JQuiet
<1>15. NInv'
  <2>1. Accounted'
    BY <1>12 DEF NInv, Accounted
  <2>2. cached # None => cached = disk'[path] \/ Importing(path)'
    <3>1. CASE to = path
      BY <1>1, <1>8, <3>1 DEF Importing
    <3>2. CASE to # path
      <4>1. disk'[path] = disk[path]
        BY <1>2, <1>12, <3>2
      <4>2. \A h \in Threads : ~ At(h, "swap")
        BY <1>1, <1>6, <1>9, OnlyStep
      <4>3. ~ Importing(path)
        BY <1>6, <3>2, IdleCall DEF Importing, At, to
      <4> QED BY <4>1, <4>2, <4>3 DEF NInv
    <3> QED BY <3>1, <3>2
  <2>3. \A h \in Threads : call'[h].patch.key # "history"
    BY <1>2, <1>6, <1>8, IdleNowhere DEF NInv
  <2> QED BY <1>1, <1>9, <2>1, <2>2, <2>3 DEF NInv, Importing
<1> QED BY <1>13, <1>14, <1>15

\* InvalidateConfigCache keeps the rest of the invariant.
LEMMA InvalidateConfigCacheAJN ==
    ASSUME TInv, XInv, AInv, JInv, NInv, NEW g \in Threads, InvalidateConfigCache(g)
    PROVE  AInv' /\ JInv' /\ NInv'
<1>1. /\ At(g, "forget") /\ Becomes(g, Go(g, 1)) /\ cached' = None
      /\ UNCHANGED <<disk, due, path, pointer, legacy, chosen, follows, root>>
  BY DEF InvalidateConfigCache, history
<1>2. call[g].kind = "import"
  BY <1>1, AtStep DEF Makes
<1>3. Moved(g, Nexts("forget"), call[g].patch, call[g].at, call[g].got)
  BY <1>1, GoOne
<1>4. Moved(g, {}, call[g].patch, call[g].at, call[g].got)
  BY <1>3, NextSets
<1>5. \A h \in Threads : h # g => call'[h] = Idle
  BY <1>1, <1>4, OnlyThere DEF Alone
<1>6. \A h \in Threads : call'[h] = Idle
  BY <1>4, <1>5 DEF Moved
<1>7. \A h \in Threads : call'[h].patch.key # "history" /\ \A y : ~ At(h, y)'
  BY <1>6, IdleNowhere
<1>8. AInv'
  <2>1. Kept /\ path' = path /\ pointer' = pointer /\ legacy' = legacy /\ chosen' = chosen
    BY <1>1 DEF Kept
  <2> QED BY <1>1, <1>4, <2>1, AQuiet
<1>9. JInv'
  BY <1>1, <1>7 DEF JInv
<1>10. NInv'
  BY <1>1, <1>7 DEF NInv, Accounted
<1> QED BY <1>8, <1>9, <1>10

\* DeleteCheck keeps the rest of the invariant.
LEMMA DeleteCheckAJN ==
    ASSUME TInv, XInv, AInv, JInv, NInv, NEW g \in Threads, DeleteCheck(g)
    PROVE  AInv' /\ JInv' /\ NInv'
<1>1. /\ At(g, "check") /\ (Becomes(g, Idle) \/ (Becomes(g, Go(g, 1)) /\ call[g].to # path))
      /\ UNCHANGED <<disk, due, path, pointer, legacy, chosen, cached, follows, root>>
  BY DEF DeleteCheck, memory, history
<1>2. CASE Becomes(g, Idle)
  <2>1. Moved(g, {}, call[g].patch, None, None)
    BY <1>2, IdleTurned DEF Moved
  <2> QED BY <1>1, <2>1, AllQuiet
<1>3. CASE Becomes(g, Go(g, 1)) /\ call[g].to # path
  <2>1. Moved(g, Nexts("check"), call[g].patch, call[g].at, call[g].got)
    BY <1>1, <1>3, GoOne
  <2>2. Moved(g, {"discard"}, call[g].patch, call[g].at, call[g].got)
    BY <2>1, NextSets
  <2>3. call[g].kind = "delete"
    BY <1>1, AtStep DEF Makes
  <2>4. \A h \in Threads : h # g => call[h] = Idle /\ ~ Busy(h) /\ call'[h] = Idle
    BY <1>1, <2>2, OnlyThere DEF Alone
  <2>5. AInv'
    <3>1. ASSUME NEW h \in Threads, NEW y, y # "discard" PROVE ~ At(h, y)'
      BY <2>2, <2>4, <3>1, IdleNowhere DEF Moved, At
    <3>2. ASSUME NEW h \in Threads, NEW y, y # "check" PROVE ~ At(h, y)
      BY <1>1, <2>4, <3>2, OnlyStep
    <3>3. \A h \in Threads : call'[h].kind # "switch"
      BY <2>2, <2>3, <2>4, IdleNowhere DEF Moved
    <3>4. ASSUME NEW h \in Threads, At(h, "discard")' PROVE call'[h].to # path
      BY <1>3, <2>2, <2>4, <3>4, IdleNowhere DEF Moved
    <3>5. ActiveStays'
      BY <1>1, <3>2 DEF AInv, ActiveStays
    <3> QED BY <1>1, <3>1, <3>3, <3>4, <3>5 DEF AInv
  <2>6. JInv'
    <3>1. cached' = cached /\ follows' = follows /\ root' = root
      BY <1>1
    <3> QED BY <1>1, <2>2, <3>1, JQuiet
  <2>7. NInv'
    <3>1. disk' = disk /\ due' = due /\ path' = path /\ cached' = cached
      BY <1>1
    <3> QED BY <1>1, <2>2, <3>1, NQuiet
  <2> QED BY <2>5, <2>6, <2>7
<1> QED BY <1>1, <1>2, <1>3

\* DeleteFile keeps the rest of the invariant.
LEMMA DeleteFileAJN ==
    ASSUME TInv, XInv, AInv, JInv, NInv, NEW g \in Threads, DeleteFile(g)
    PROVE  AInv' /\ JInv' /\ NInv'
<1> DEFINE to == call[g].to
<1>1. /\ At(g, "discard") /\ Becomes(g, Go(g, 1))
      /\ disk' = [disk EXCEPT ![to] = None] /\ due' = [due EXCEPT ![to] = None]
      /\ UNCHANGED <<path, pointer, legacy, chosen, cached, follows, root>>
  BY DEF DeleteFile, memory
<1>2. call[g].kind = "delete" /\ path \in Profiles /\ path # None
  BY <1>1, AtStep, PathThere DEF Makes
<1>3. to \in Profiles /\ to # path
  BY <1>1, <1>2 DEF TInv, Ready, AInv
<1>4. Moved(g, Nexts("discard"), call[g].patch, call[g].at, call[g].got)
  BY <1>1, GoOne
<1>5. Moved(g, {}, call[g].patch, call[g].at, call[g].got)
  BY <1>4, NextSets
<1>6. \A h \in Threads : h # g => call[h] = Idle /\ ~ Busy(h) /\ call'[h] = Idle
  BY <1>1, <1>5, OnlyThere DEF Alone
<1>7. \A h \in Threads : call'[h] = Idle
  BY <1>5, <1>6 DEF Moved
<1>8. \A h \in Threads : /\ call'[h].kind = "none" /\ call'[h].patch.key # "history"
                         /\ \A y : ~ At(h, y)'
  BY <1>7, IdleNowhere
<1>9. ASSUME NEW h \in Threads, NEW y, y # "discard" PROVE ~ At(h, y)
  BY <1>1, <1>6, <1>9, OnlyStep
<1>10. path = chosen /\ disk[path] \in Configs
  BY <1>2, <1>9 DEF AInv, ActiveStays
<1>11. disk \in Stored /\ due \in [Profiles -> Configs \cup {None}]
  BY DEF TInv, TypeInv
<1> HIDE DEF to
<1>12. /\ disk'[to] = None /\ due'[to] = None
       /\ \A q \in Profiles : q # to => disk'[q] = disk[q] /\ due'[q] = due[q]
  BY <1>1, <1>3, <1>11 DEF Stored
<1>13. disk'[path] = disk[path]
  BY <1>2, <1>3, <1>12
<1>14. AInv'
  <2>1. ActiveStays'
    BY <1>1, <1>10, <1>13 DEF ActiveStays
  <2> QED BY <1>1, <1>8, <1>10, <1>13, <2>1, NotConfigs DEF AInv
<1>15. JInv'
  <2>1. cached' = cached /\ follows' = follows /\ root' = root
    BY <1>1
  <2> QED BY <1>1, <1>5, <2>1, JQuiet
<1>16. NInv'
  <2>1. Accounted'
    BY <1>12 DEF NInv, Accounted
  <2>2. cached # None => cached = disk[path]
    BY <1>9 DEF NInv, Importing
  <2> QED BY <1>1, <1>8, <1>13, <2>1, <2>2 DEF NInv
<1> QED BY <1>14, <1>15, <1>16

\* The first steps of a start: nobody else is there, and nothing is loaded yet.
LEMMA BootSteps ==
    ASSUME TInv, XInv, NEW g \in Threads, NEW x \in {"migrate", "unlegacy", "resolve"}, At(g, x),
           Becomes(g, Go(g, 1)), NEW z, Nexts(x) = {z}
    PROVE  /\ path = None /\ cached = None /\ root = None
           /\ \A h \in Threads : \A y : y # z => ~ At(h, y)'
           /\ \A h \in Threads : call'[h].kind # "switch" /\ (call'[h].patch = call[g].patch \/ call'[h].patch.key # "history")
           /\ call[g].kind = "boot"
<1>1. x \in Alone /\ x \notin Ends
  BY DEF Alone, Ends
<1>2. Moved(g, {z}, call[g].patch, call[g].at, call[g].got)
  BY GoOne
<1>3. call[g].got \in Configs \cup {None}
  BY DEF TInv, TypeInv, Calls
<1>4. call'[g] # Idle
  BY <1>1, <1>3, GoesOn
<1>5. \A h \in Threads : h # g => call'[h] = Idle
  BY <1>1, <1>2, OnlyThere
<1>6. call[g].kind = "boot"
  BY AtStep DEF Makes
<1>7. At(g, z)' /\ call'[g].kind = "boot" /\ call'[g].patch = call[g].patch
  BY <1>2, <1>4, <1>6 DEF Moved, At
<1>8. \A h \in Threads : \A y : y # z => ~ At(h, y)'
  BY <1>5, <1>7, OnlyStepNext
<1>9. path = None /\ cached = None /\ root = None
  BY DEF TInv, Starting
<1>10. \A h \in Threads : call'[h].kind # "switch" /\ (call'[h].patch = call[g].patch \/ call'[h].patch.key # "history")
  BY <1>5, <1>7, IdleNowhere
<1> QED BY <1>6, <1>8, <1>9, <1>10

\* They write no profile and load none.
LEMMA BootStepsJN ==
    ASSUME TInv, XInv, JInv, NInv, NEW g \in Threads, NEW x \in {"migrate", "unlegacy", "resolve"}, At(g, x),
           Becomes(g, Go(g, 1)), NEW z \in {"unlegacy", "resolve", "ensure"}, Nexts(x) = {z},
           UNCHANGED <<disk, due, cached, follows, root>>
    PROVE  JInv' /\ NInv'
<1>1. /\ path = None /\ cached = None /\ root = None
      /\ \A h \in Threads : \A y : y # z => ~ At(h, y)'
      /\ \A h \in Threads : call'[h].patch = call[g].patch \/ call'[h].patch.key # "history"
      /\ call[g].kind = "boot"
  BY BootSteps
<1>2. JInv'
  <2>1. \A h \in Threads : \A y \in {"write", "sync", "build", "snapshot"} : ~ At(h, y)'
    BY <1>1
  <2> QED BY <1>1, <2>1 DEF JInv
<1>3. NInv'
  <2>1. \A h \in Threads : \A y \in {"swap", "keep", "fill"} : ~ At(h, y)'
    BY <1>1
  <2>2. \A h \in Threads : call'[h].patch.key # "history"
    BY <1>1 DEF NInv
  <2>3. Accounted'
    BY DEF NInv, Accounted
  <2> QED BY <1>1, <2>1, <2>2, <2>3 DEF NInv
<1> QED BY <1>2, <1>3

\* migrateLegacyBoot keeps the rest of the invariant.
LEMMA migrateLegacyBootAJN ==
    ASSUME TInv, XInv, AInv, JInv, NInv, NEW g \in Threads, migrateLegacyBoot(g)
    PROVE  AInv' /\ JInv' /\ NInv'
<1>1. /\ At(g, "migrate") /\ Becomes(g, Go(g, 1)) /\ pointer' = IF pointer = None THEN legacy ELSE pointer
      /\ UNCHANGED <<disk, due, path, legacy, chosen, cached, follows, root>>
  BY DEF migrateLegacyBoot, memory, history
<1>2. Nexts("migrate") = {"unlegacy"}
  BY NextSets
<1>3. /\ path = None
      /\ \A h \in Threads : \A y : y # "unlegacy" => ~ At(h, y)'
      /\ \A h \in Threads : call'[h].kind # "switch"
  BY <1>1, <1>2, BootSteps
<1>4. JInv' /\ NInv'
  BY <1>1, <1>2, BootStepsJN
<1>5. \A h \in Threads : \A y \in {"resolve", "turn", "ensure", "discard"} : ~ At(h, y)'
  BY <1>3
<1>6. ActiveStays'
  BY <1>1, <1>3 DEF ActiveStays
<1>7. IF pointer' # None THEN pointer' = chosen ELSE chosen = IF legacy = None THEN Default ELSE legacy
  BY <1>1 DEF AInv
<1>8. pointer' # None \/ legacy = None
  BY <1>1
<1>9. AInv'
  BY <1>1, <1>3, <1>5, <1>6, <1>7, <1>8 DEF AInv
<1> QED BY <1>4, <1>9

\* RemoveLegacy keeps the rest of the invariant.
LEMMA RemoveLegacyAJN ==
    ASSUME TInv, XInv, AInv, JInv, NInv, NEW g \in Threads, RemoveLegacy(g)
    PROVE  AInv' /\ JInv' /\ NInv'
<1>1. /\ At(g, "unlegacy") /\ Becomes(g, Go(g, 1)) /\ legacy' = None
      /\ UNCHANGED <<disk, due, path, pointer, chosen, cached, follows, root>>
  BY DEF RemoveLegacy, memory, history
<1>2. Nexts("unlegacy") = {"resolve"}
  BY NextSets
<1>3. /\ path = None
      /\ \A h \in Threads : \A y : y # "resolve" => ~ At(h, y)'
      /\ \A h \in Threads : call'[h].kind # "switch"
  BY <1>1, <1>2, BootSteps
<1>4. JInv' /\ NInv'
  BY <1>1, <1>2, BootStepsJN
<1>5. \A h \in Threads : \A y \in {"unlegacy", "turn", "ensure", "discard"} : ~ At(h, y)'
  BY <1>3
<1>6. ActiveStays'
  BY <1>1, <1>3 DEF ActiveStays
<1>7. IF pointer # None THEN pointer = chosen ELSE chosen = Default
  BY <1>1 DEF AInv
<1>9. AInv'
  BY <1>1, <1>3, <1>5, <1>6, <1>7 DEF AInv
<1> QED BY <1>4, <1>9

\* resolveBootProfile keeps the rest of the invariant.
LEMMA resolveBootProfileAJN ==
    ASSUME Undisturbed, TInv, XInv, AInv, JInv, NInv, NEW g \in Threads, resolveBootProfile(g)
    PROVE  AInv' /\ JInv' /\ NInv'
<1>1. /\ At(g, "resolve") /\ Becomes(g, Go(g, 1))
      /\ pointer' = IF pointer = None THEN Default ELSE pointer
      /\ path' = pointer'
      /\ UNCHANGED <<disk, due, legacy, chosen, cached, follows, root>>
  BY NothingMissed DEF resolveBootProfile, history
<1>2. Nexts("resolve") = {"ensure"}
  BY NextSets
<1>3. /\ \A h \in Threads : \A y : y # "ensure" => ~ At(h, y)'
      /\ \A h \in Threads : call'[h].kind # "switch"
  BY <1>1, <1>2, BootSteps
<1>4. JInv' /\ NInv'
  BY <1>1, <1>2, BootStepsJN
<1>5. \A h \in Threads : \A y \in {"unlegacy", "resolve", "turn", "discard"} : ~ At(h, y)'
  BY <1>3
<1>6. pointer' = chosen /\ path' = chosen
  BY <1>1 DEF AInv
<1>7. At(g, "ensure")'
  <2>1. Moved(g, {"ensure"}, call[g].patch, call[g].at, call[g].got)
    BY <1>1, <1>2, GoOne
  <2>2. call[g].got \in Configs \cup {None}
    BY DEF TInv, TypeInv, Calls
  <2>3. call'[g] # Idle
    BY <1>1, <2>2, GoesOn DEF Ends
  <2> QED BY <2>1, <2>3 DEF Moved, At
<1>8. ActiveStays'
  BY <1>7 DEF ActiveStays
<1>9. pointer' # None
  BY <1>1, NamesAssumption
<1>10. AInv'
  BY <1>1, <1>3, <1>5, <1>6, <1>8, <1>9 DEF AInv
<1> QED BY <1>4, <1>10

\* The managers are made for the profile the manager has.
LEMMA BuildAJN ==
    ASSUME TInv, XInv, AInv, JInv, NInv, NEW g \in Threads, Build(g)
    PROVE  AInv' /\ JInv' /\ NInv'
<1>1. /\ At(g, "build") /\ Becomes(g, Go(g, 1)) /\ root' = call[g].got.folder /\ follows' = call[g].got.folder
      /\ UNCHANGED <<disk, due, path, pointer, legacy, chosen, cached>>
  BY DEF Build, history
<1>2. Moved(g, Nexts("build"), call[g].patch, call[g].at, call[g].got)
  BY <1>1, GoOne
<1>3. Moved(g, {"look"}, call[g].patch, call[g].at, call[g].got)
  BY <1>2, NextSets
<1>4. Kept
  BY <1>1 DEF Kept
<1>5. AInv'
  BY <1>1, <1>3, <1>4, AQuiet
<1>6. NInv'
  BY <1>1, <1>3, NQuiet
<1>7. \A h \in Threads : h # g => call'[h] = Idle
  BY <1>1, <1>3, OnlyThere DEF Alone
<1>8. \A h \in Threads : \A y \in {"write", "sync", "build", "snapshot"} : ~ At(h, y)'
  <2> TAKE h \in Threads
  <2> TAKE y \in {"write", "sync", "build", "snapshot"}
  <2>1. CASE call'[h] = Idle
    BY <2>1, IdleNowhere
  <2>2. CASE call'[h] # Idle
    BY <1>3, <1>7, <2>2 DEF Moved, At
  <2> QED BY <2>1, <2>2
<1>9. call[g].got = cached
  BY <1>1 DEF JInv
<1>10. JInv'
  BY <1>1, <1>8, <1>9 DEF JInv
<1> QED BY <1>5, <1>6, <1>10

\* A call that begins beside the others.
LEMMA StartAJN ==
    ASSUME Undisturbed, TInv, XInv, AInv, JInv, NInv, NEW g \in Threads, NEW k \in Kinds \ {"none", "boot"},
           NEW to \in Profiles \cup Templates \cup {None}, NEW p \in Patches, p.key # "history",
           Start(g, k, to, p)
    PROVE  AInv' /\ JInv' /\ NInv'
<1>1. /\ ~ Busy(g) /\ MayStart(k, to, p)
      /\ UNCHANGED <<disk, due, path, pointer, legacy, chosen, cached, follows, root>>
  BY DEF Start, memory
<1>2. /\ \A h \in Threads : h # g => call'[h] = call[h]
      /\ call'[g].kind = k /\ call'[g].to = to /\ call'[g].patch = p
      /\ Started(k, call'[g].todo)
  <2> DEFINE d == [Idle EXCEPT !.kind = k, !.todo = Program(k), !.to = to, !.patch = p]
  <2>1. call' = [call EXCEPT ![g] = d]
    BY DEF Start
  <2>2. d \in Calls /\ d.kind = k /\ d.todo = Program(k) /\ d.to = to /\ d.patch = p
    <3>1. Program(k) \in Seq(Steps)
      BY Programs DEF Started, Fit, Links
    <3> HIDE DEF Program, Idle
    <3> QED BY <3>1, IdleCall DEF Calls
  <2> HIDE DEF d
  <2>3. /\ \A h \in Threads : h # g => call'[h] = call[h]
        /\ call'[g] = d /\ Started(d.kind, d.todo)
    BY <2>1, <2>2, Begins
  <2> QED BY <2>2, <2>3
<1>3. Head(call'[g].todo) \in {"look", "lock", "list", "create", "erase", "copy", "check"}
  BY <1>2 DEF Started
<1> DEFINE L == {"unlegacy", "resolve", "turn", "ensure", "discard", "write", "sync", "build", "snapshot",
                 "swap", "keep", "parse", "fill", "forget"}
<1>4. \A h \in Threads : \A y \in L : At(h, y)' <=> At(h, y)
  <2> TAKE h \in Threads
  <2> TAKE y \in L
  <2>1. CASE h = g
    <3>1. call[g] = Idle
      BY <1>1 DEF TInv, Ready
    <3>2. call[g].todo = <<>>
      BY <3>1, IdleCall
    <3> QED BY <2>1, <1>3, <3>2 DEF At
  <2>2. CASE h # g
    BY <2>2, <1>2 DEF At
  <2> QED BY <2>1, <2>2
<1>5. \A h \in Threads : \A y \in L : At(h, y) => call'[h] = call[h]
  <2> TAKE h \in Threads
  <2> TAKE y \in L
  <2>1. CASE h = g
    <3>1. call[g] = Idle
      BY <1>1 DEF TInv, Ready
    <3> QED BY <2>1, <3>1, IdleCall DEF At
  <2>2. CASE h # g
    BY <2>2, <1>2
  <2> QED BY <2>1, <2>2
<1>6. AInv'
  <2>1. ActiveStays'
    BY <1>1, <1>4 DEF AInv, ActiveStays
  <2>2. k = "switch" => disk[to] # Malformed
    BY <1>1 DEF MayStart, Undisturbed
  <2>3. \A h \in Threads : call'[h].kind = "switch" => disk[call'[h].to] # Malformed
    BY <1>2, <2>2 DEF AInv
  <2>4. ASSUME NEW h \in Threads
        PROVE  /\ At(h, "unlegacy")' => pointer # None \/ legacy = None
               /\ At(h, "resolve")' => legacy = None
               /\ At(h, "turn")' => chosen = call'[h].to
               /\ At(h, "ensure")' => path = chosen
               /\ At(h, "discard")' => call'[h].to # path
    <3>1. \A y \in {"unlegacy", "resolve", "turn", "ensure", "discard"} : At(h, y)' => At(h, y) /\ call'[h] = call[h]
      BY <1>4, <1>5
    <3> QED BY <3>1 DEF AInv
  <2> QED BY <1>1, <2>1, <2>3, <2>4 DEF AInv
<1>7. JInv'
  BY <1>1, <1>4, <1>5 DEF JInv
<1>8. NInv'
  <2>1. Accounted'
    BY <1>1 DEF NInv, Accounted
  <2>2. cached # None => cached = disk[path] \/ (\E h \in Threads : At(h, "swap")') \/ Importing(path)'
    <3>1. ASSUME NEW h \in Threads
          PROVE  \A y \in {"swap", "parse", "fill", "forget"} : At(h, y) => At(h, y)' /\ call'[h].to = call[h].to
      <4>1. \A y \in {"swap", "parse", "fill", "forget"} : y \in L
        OBVIOUS
      <4> HIDE DEF L
      <4> QED BY <4>1, <1>4, <1>5
    <3> HIDE DEF L
    <3>2. Importing(path) => Importing(path)'
      BY <1>1, <3>1 DEF Importing
    <3>3. (\E h \in Threads : At(h, "swap")) => (\E h \in Threads : At(h, "swap")')
      BY <3>1
    <3> QED BY <3>2, <3>3 DEF NInv
  <2>3. ASSUME NEW h \in Threads
        PROVE  /\ At(h, "swap")' => call'[h].got = disk[path] /\ cached # None
               /\ At(h, "keep")' /\ call'[h].at = path /\ cached = None => call'[h].got = disk[path]
               /\ At(h, "fill")' => disk[call'[h].to] \in Configs /\ call'[h].got = parseUserConfig(disk[call'[h].to])
    <3>1. \A y \in {"swap", "keep", "fill"} : At(h, y)' => At(h, y) /\ call'[h] = call[h]
      BY <1>4, <1>5
    <3> QED BY <3>1 DEF NInv
  <2>4. ASSUME NEW h \in Threads, call'[h].patch.key = "history" PROVE call'[h] = call[h]
    BY <1>2, <2>4
  <2>5. ASSUME NEW h \in Threads, call'[h].patch.key = "history"
        PROVE  /\ call'[h].kind = "history" /\ cached # None /\ cached.note = call'[h].patch.to
               /\ At(h, "swap")' => call'[h].got.note = call'[h].patch.to
    <3>1. call'[h] = call[h]
      BY <2>4, <2>5
    <3>2. At(h, "swap")' => At(h, "swap")
      BY <1>4
    <3> QED BY <2>5, <3>1, <3>2 DEF NInv
  <2> QED BY <1>1, <2>1, <2>2, <2>3, <2>5 DEF NInv
<1> QED BY <1>6, <1>7, <1>8

\* The start of the program.
LEMMA BootAJN ==
    ASSUME TInv, AInv, JInv, NInv, NEW g \in Threads, Boot(g)
    PROVE  AInv' /\ JInv' /\ NInv'
<1>1. /\ path = None /\ Idling
      /\ call' = [call EXCEPT ![g] = [Idle EXCEPT !.kind = "boot", !.todo = Program("boot")]]
      /\ UNCHANGED <<disk, due, path, pointer, legacy, chosen, cached, follows, root>>
  BY DEF Boot, memory, history
<1>2. /\ \A h \in Threads : h # g => call'[h] = call[h]
      /\ call'[g].kind = "boot" /\ call'[g].patch = NoPatch
      /\ Started("boot", call'[g].todo)
  <2> DEFINE d == [Idle EXCEPT !.kind = "boot", !.todo = Program("boot")]
  <2>1. call' = [call EXCEPT ![g] = d]
    BY <1>1
  <2>2. /\ d \in Calls /\ d.kind = "boot" /\ d.todo = Program("boot") /\ d.patch = NoPatch
    BY FreshBoot, Zenon
  <2> HIDE DEF d
  <2>3. /\ \A h \in Threads : h # g => call'[h] = call[h]
        /\ call'[g] = d /\ Started(d.kind, d.todo)
    BY <2>1, <2>2, Begins
  <2> QED BY <2>2, <2>3
<1>3. At(g, "migrate")'
  BY <1>2 DEF Started, At
<1>4. \A h \in Threads : h # g => call'[h] = Idle
  BY <1>1, <1>2 DEF TInv, Ready, Idling
<1>5. \A h \in Threads : \A y : y # "migrate" => ~ At(h, y)'
  BY <1>3, <1>4, OnlyStepNext
<1>6. \A h \in Threads : \A y \in {"unlegacy", "resolve", "turn", "ensure", "discard", "write", "sync", "build",
                                   "snapshot", "swap", "keep", "fill"} : ~ At(h, y)'
  BY <1>5
<1>7. \A h \in Threads : call'[h].kind # "switch" /\ call'[h].patch.key # "history"
  BY <1>2, <1>4, IdleNowhere DEF NoPatch
<1>8. cached = None
  BY <1>1 DEF TInv
<1>9. AInv'
  <2>1. ActiveStays'
    BY <1>1 DEF ActiveStays
  <2> QED BY <1>1, <1>6, <1>7, <2>1 DEF AInv
<1>10. JInv'
  BY <1>1, <1>6, <1>8 DEF JInv
<1>11. NInv'
  <2>1. Accounted'
    BY <1>1 DEF NInv, Accounted
  <2> QED BY <1>1, <1>6, <1>7, <1>8, <2>1 DEF NInv
<1> QED BY <1>9, <1>10, <1>11

\* Still keeps the rest of the invariant.
LEMMA StillAJN ==
    ASSUME AInv, JInv, NInv, UNCHANGED vars
    PROVE  AInv' /\ JInv' /\ NInv'
<1>1. UNCHANGED <<disk, pointer, legacy, path, cached, follows, root, call, due, chosen>>
  BY DEF vars, memory
<1>2. AInv'
  BY <1>1 DEF AInv, ActiveStays, At
<1>3. JInv'
  BY <1>1 DEF JInv, At
<1>4. NInv'
  BY <1>1 DEF NInv, Accounted, Importing, At
<1> QED BY <1>2, <1>3, <1>4

\* What every step keeps of the files, the cache and the journal.
LEMMA NextAJN ==
    ASSUME Undisturbed, TInv, XInv, AInv, JInv, NInv, [Next]_vars
    PROVE  AInv' /\ JInv' /\ NInv'
<1>1. ASSUME NEW g \in Threads, Starts(g) PROVE AInv' /\ JInv' /\ NInv'
  BY <1>1, StartsAny, StartAJN
<1>2. ASSUME NEW g \in Threads, Step(g) PROVE AInv' /\ JInv' /\ NInv'
  BY <1>2, LookAJN, ReadAJN, KeepSwitchedAJN, KeepNewerAJN, KeepAJN, syncJournalAJN, LockAJN, UnlockAJN,
     PersistFileAJN, PersistCacheAJN, SwitchPointerAJN, setConfigPathAJN, ensureUserConfigFileAJN,
     SeedEnabledTemplatesIfUnsetAJN, ListTemplatesAJN, ScopedAJN, CreateTemplateAJN, DeleteTemplateAJN,
     PersistSnapshotAJN, ImportCopyAJN, ImportParseAJN, ImportFillAJN, InvalidateConfigCacheAJN,
     DeleteCheckAJN, DeleteFileAJN, migrateLegacyBootAJN, RemoveLegacyAJN, resolveBootProfileAJN,
     BuildAJN DEF Step
<1>3. ASSUME NEW g \in Threads, Fail(g) \/ Boot(g) PROVE AInv' /\ JInv' /\ NInv'
  BY <1>3, FailAJN, BootAJN
<1> QED BY <1>1, <1>2, <1>3, ExitAJN, StillAJN DEF Next

\* Init keeps the rest of the invariant.
LEMMA InitAJN ==
    ASSUME Init
    PROVE  AInv /\ JInv /\ NInv
<1>1. call \in [Threads -> Calls] /\ \A g \in Threads : call[g] = Idle
  <2> HIDE DEF Idle, Calls
  <2> QED BY IdleCall DEF Init
<1>2. \A g \in Threads : call[g].kind = "none" /\ call[g].patch.key # "history" /\ \A y : ~ At(g, y)
  BY <1>1, IdleCall DEF At, NoPatch
<1>3. disk[chosen] # Malformed
  <2>1. CASE legacy = None /\ disk = [p \in Profiles |-> None]
    BY <2>1, NamesAssumption, NotConfigs DEF Init
  <2>2. CASE legacy \in Profiles /\ disk[legacy] \in Old
    <3>1. legacy # None
      BY <2>2, NamesAssumption
    <3>2. \A c \in Old : c # Malformed
      BY NamesAssumption DEF Old, Malformed
    <3> QED BY <2>2, <3>1, <3>2 DEF Init
  <2> QED BY <2>1, <2>2 DEF Init
<1>4. ActiveStays
  BY DEF Init, ActiveStays
<1>5. AInv
  BY <1>2, <1>3, <1>4 DEF Init, AInv
<1>6. JInv
  BY <1>2 DEF Init, JInv
<1>7. NInv
  BY <1>2 DEF Init, NInv, Accounted
<1> QED BY <1>5, <1>6, <1>7

----------------------------------------------------------------------------
(* The list of templates *)

\* Calls that go on or end meet whom they met.
LEMMA PairedStays ==
    ASSUME Paired, \A h \in Threads : call'[h].kind \in {call[h].kind, "none"},
           \A h \in Threads : call'[h].patch.key \in Picks => call[h].patch.key \in Picks
    PROVE  Paired'
<1>1. \A k \in Lists \cup Moves : k # "none"
  BY DEF Lists, Moves
<1>2. \A g, h \in Threads : call'[g].kind \in Lists /\ call'[h].kind \in Lists \cup Moves => g = h
  BY <1>1 DEF Paired
<1>3. \A g, h \in Threads : call'[g].patch.key \in Picks => call'[h].kind # "switch"
  BY DEF Paired
<1> QED BY <1>2, <1>3 DEF Paired

\* An ended call has nothing to do with it.
LEMMA CuratingIdle ==
    ASSUME NEW g \in Threads, call'[g] = Idle
    PROVE  Curating(g)'
<1>1. /\ call'[g].kind = "none" /\ call'[g].patch.key = "note" /\ call'[g].todo = <<>>
  BY IdleCall DEF NoPatch
<1>2. Suits(call'[g].kind, call'[g].patch.key)
  BY <1>1 DEF Suits, Picks
<1>3. call'[g].kind \notin Lists
  BY <1>1 DEF Lists
<1>4. ~ At(g, "seed")' /\ ~ At(g, "swap")'
  BY <1>1 DEF At
<1> QED BY <1>1, <1>2, <1>3, <1>4 DEF Curating

\* The active profile keeps its folder and its list.
Steady == /\ path' = path /\ root' = root
          /\ disk[path] \in Configs => /\ disk'[path] \in Configs
                                       /\ disk'[path].folder = disk[path].folder
                                       /\ disk'[path].on = disk[path].on

\* A call that does nothing meanwhile.
LEMMA CuratingWaits ==
    ASSUME TInv, NInv, NEW h \in Threads, Curating(h), call'[h] = call[h], Steady,
           At(h, "swap") => cached' = cached,
           call[h].patch.key = "prune" => files'[root] = files[root]
    PROVE  Curating(h)'
<1>1. /\ call'[h].kind = call[h].kind /\ call'[h].patch = call[h].patch /\ call'[h].got = call[h].got
      /\ call'[h].todo = call[h].todo
  OBVIOUS
<1>2. At(h, "swap") => disk[path] \in Configs
  BY DEF TInv, Ready, NInv
<1>3. At(h, "swap")' <=> At(h, "swap")
  BY <1>1 DEF At
<1>4. At(h, "seed")' <=> At(h, "seed")
  BY <1>1 DEF At
<1>5. At(h, "erase")' <=> At(h, "erase")
  BY <1>1 DEF At
<1>6. Seeding(h) => Seeding(h)'
  BY <1>1 DEF Seeding, At
<1> QED BY <1>1, <1>2, <1>3, <1>4, <1>5, <1>6 DEF Curating, Steady

\* A call that goes on with its load or its update.
LEMMA CuratingMoves ==
    ASSUME TInv, NEW g \in Threads, Curating(g), NEW x, At(g, x), NEW S, NEW p, NEW a, NEW v,
           Moved(g, S, p, a, v), Steady,
           \/ p = call[g].patch
           \/ p.key = "history"
           \/ p.key = "prune" /\ p.to = files[root] /\ call[g].kind \in {"list", "remove"},
           p.key = "prune" => files'[root] = files[root],
           "erase" \notin S, "swap" \notin S,
           "seed" \in S /\ call[g].kind \in {"boot", "switch"} => disk[path] \in Configs /\ v.on = disk[path].on,
           x \in Ahead => S \subseteq Ahead \cup {"scoped", "snapshot"},
           x = "lock" => S = {"look"} \/ call[g].todo[2] # "look"
    PROVE  Curating(g)'
<1>1. CASE call'[g] = Idle
  BY <1>1, CuratingIdle
<1>2. CASE call'[g] # Idle
  <2>1. /\ call'[g].kind = call[g].kind /\ call'[g].todo # <<>> /\ Head(call'[g].todo) \in S
        /\ Fit(call[g].kind, call'[g].todo) /\ call'[g].patch = p /\ call'[g].got = v
    BY <1>2 DEF Moved
  <2>2. ~ At(g, "erase")' /\ ~ At(g, "swap")'
    BY <2>1 DEF At
  <2>3. Makes(call[g].kind, Head(call'[g].todo))
    BY <2>1, OneStep
  <2>4. Suits(call[g].kind, p.key)
    <3>1. CASE p = call[g].patch
      BY <3>1 DEF Curating
    <3>2. CASE p.key = "history"
      BY <3>2 DEF Suits, Picks
    <3>3. CASE p.key = "prune" /\ call[g].kind \in {"list", "remove"}
      BY <3>3 DEF Suits, Picks
    <3> QED BY <3>1, <3>2, <3>3
  <2>5. p.key = "prune" => p.to = files'[root']
    BY DEF Curating, Steady
  <2>6. ASSUME p.key = "seed" PROVE Seeding(g)' /\ disk'[path'] \in Configs /\ disk'[path'].on \in {Unset, p.to}
    <3>1. p = call[g].patch
      BY <2>6
    <3>2. call[g].kind \in {"boot", "switch"}
      BY <2>4, <2>6 DEF Suits
    <3>3. Head(call'[g].todo) \notin {"scoped", "snapshot"}
      BY <2>3, <3>2 DEF Makes
    <3>4. Seeding(g) /\ disk[path] \in Configs /\ disk[path].on \in {Unset, p.to}
      BY <2>6, <3>1 DEF Curating
    <3>5. x \in Ahead \/ (x = "lock" /\ call[g].todo[2] = "look")
      BY <3>4 DEF Seeding, At
    <3>6. Head(call'[g].todo) \in Ahead
      <4>1. "look" \in Ahead
        BY DEF Ahead
      <4> QED BY <2>1, <3>3, <3>5, <4>1
    <3>7. Seeding(g)'
      BY <2>1, <3>6 DEF Seeding
    <3> QED BY <3>4, <3>7 DEF Steady
  <2>7. ASSUME At(g, "seed")' PROVE disk'[path'] \in Configs /\ v.on = disk'[path'].on
    <3>1. Head(call'[g].todo) = "seed" /\ "seed" \in S
      BY <2>1, <2>7 DEF At
    <3>2. call[g].kind \in {"boot", "switch"}
      BY <2>3, <3>1 DEF Makes
    <3> QED BY <3>1, <3>2 DEF Steady
  <2>8. call[g].kind \in Lists => disk'[path'] \in Configs /\ disk'[path'].folder = root'
    BY DEF Curating, Steady
  <2> QED BY <2>1, <2>2, <2>4, <2>5, <2>6, <2>7, <2>8 DEF Curating
<1> QED BY <1>1, <1>2

\* The others wait.
LEMMA CQuiet ==
    ASSUME TInv, NInv, CInv, NEW g \in Threads, NEW x, At(g, x), NEW S, NEW p, NEW a, NEW v,
           Moved(g, S, p, a, v), Steady,
           \/ p = call[g].patch
           \/ p.key = "history"
           \/ p.key = "prune" /\ p.to = files[root] /\ call[g].kind \in {"list", "remove"},
           files' = files \/ (call[g].kind \in Lists /\ p.key # "prune"),
           \A h \in Threads : h # g /\ At(h, "swap") => cached' = cached,
           "erase" \notin S, "swap" \notin S,
           "seed" \in S /\ call[g].kind \in {"boot", "switch"} => disk[path] \in Configs /\ v.on = disk[path].on,
           x \in Ahead => S \subseteq Ahead \cup {"scoped", "snapshot"},
           x = "lock" => S = {"look"} \/ call[g].todo[2] # "look"
    PROVE  CInv'
<1>1. Paired /\ \A h \in Threads : Curating(h)
  BY DEF CInv
<1>2. \A h \in Threads : h # g => call'[h] = call[h]
  BY DEF Moved
<1>3. Curating(g)'
  <2>1. p.key = "prune" => files'[root] = files[root]
    OBVIOUS
  <2> QED BY <1>1, <2>1, CuratingMoves
<1>4. ASSUME NEW h \in Threads, h # g PROVE Curating(h)'
  <2>1. call[h].patch.key = "prune" => files'[root] = files[root]
    <3>1. call[h].patch.key = "prune" => call[h].kind \in Lists
      BY <1>1 DEF Curating, Suits, Lists
    <3>2. call[h].patch.key = "prune" => call[g].kind \notin Lists
      BY <1>1, <1>4, <3>1 DEF Paired
    <3> QED BY <3>2
  <2>2. At(h, "swap") => cached' = cached
    BY <1>4
  <2> QED BY <1>1, <1>2, <1>4, <2>1, <2>2, CuratingWaits
<1>5. Paired'
  <2>1. call'[g].kind \in {call[g].kind, "none"}
    BY IdleCall DEF Moved
  <2>2. call'[g].patch.key \in Picks => call[g].patch.key \in Picks
    <3>1. "note" \notin Picks /\ "history" \notin Picks /\ "prune" \notin Picks
      BY DEF Picks
    <3>2. call'[g].patch.key = "note" \/ call'[g].patch = p
      BY IdleCall DEF Moved, NoPatch
    <3> QED BY <3>1, <3>2
  <2>3. \A h \in Threads : call'[h].kind \in {call[h].kind, "none"}
    BY <1>2, <2>1
  <2>4. \A h \in Threads : call'[h].patch.key \in Picks => call[h].patch.key \in Picks
    BY <1>2, <2>2
  <2> QED BY <1>1, <2>3, <2>4, PairedStays
<1> QED BY <1>3, <1>4, <1>5 DEF CInv

\* Beside a start or a switch nobody touches the list.
LEMMA BesideSeeder ==
    ASSUME TInv, XInv, CInv, NEW g \in Threads, call[g].kind \in {"boot", "switch"},
           NEW h \in Threads, h # g, Busy(h)
    PROVE  call[h].patch.key \notin OnKeys
<1>1. Busy(g)
  BY DEF Busy
<1>2. call[g].kind = "switch" /\ call[h].kind \notin {"boot", "switch"}
  BY <1>1 DEF XInv, Solos
<1>3. call[h].kind \notin Lists
  BY <1>2 DEF CInv, Paired, Moves
<1>4. call[h].patch.key \notin Picks
  BY <1>2 DEF CInv, Paired
<1>5. Suits(call[h].kind, call[h].patch.key)
  BY DEF CInv, Curating
<1> QED BY <1>2, <1>3, <1>4, <1>5 DEF Suits, OnKeys, Lists

\* What a start or a switch finds in the cache has the list the file has.
LEMMA CachedOn ==
    ASSUME TInv, XInv, NInv, CInv, NEW g \in Threads, call[g].kind \in {"boot", "switch"}, ~ At(g, "swap"),
           cached # None
    PROVE  disk[path] \in Configs /\ cached.on = disk[path].on
<1>1. Busy(g)
  BY DEF Busy
<1>2. CASE cached = disk[path]
  BY <1>2 DEF TInv, TypeInv
<1>3. CASE \E h \in Threads : At(h, "swap")
  <2>1. PICK h \in Threads : At(h, "swap")
    BY <1>3
  <2>2. h # g /\ Busy(h)
    BY <2>1, AtStep
  <2>3. call[h].patch.key \notin OnKeys
    BY <2>2, BesideSeeder
  <2>4. disk[path] \in Configs
    BY <2>1 DEF NInv, TInv, Ready
  <2> QED BY <2>1, <2>3, <2>4 DEF CInv, Curating
<1>4. CASE Importing(path)
  <2>1. PICK h \in Threads : At(h, "parse") \/ At(h, "fill") \/ At(h, "forget")
    BY <1>4 DEF Importing
  <2>2. h = g
    BY <1>1, <2>1, NobodyAlone DEF Alone
  <2>3. \E y \in {"parse", "fill", "forget"} : Makes(call[g].kind, y)
    BY <2>1, <2>2, AtStep
  <2> QED BY <2>3 DEF Makes
<1> QED BY <1>2, <1>3, <1>4 DEF NInv

\* What is about to be written was merged into the file as it is.
LEMMA WriteIsDisk ==
    ASSUME TInv, XInv, JInv, NInv, NEW g \in Threads, At(g, "write")
    PROVE  /\ path \in Profiles /\ disk[path] \in Configs
           /\ call[g].got = disk[path] /\ cached = disk[path]
<1>1. Busy(g) /\ Holds(g) /\ call[g].kind # "import"
  BY AtStep, HoldsAt DEF Makes
<1>2. call[g].got = cached /\ cached \in Configs /\ cached # None
  BY NotConfigs DEF JInv, TInv, Ready
<1>3. \A h \in Threads : ~ At(h, "swap")
  BY <1>1, NobodyLocked DEF At
<1>4. ASSUME NEW h \in Threads, NEW y \in {"parse", "fill", "forget"} PROVE ~ At(h, y)
  BY <1>1, NobodyAlone DEF Alone, At
<1>5. cached = disk[path]
  BY <1>2, <1>3, <1>4 DEF NInv, Importing
<1>6. path \in Profiles
  BY PathThere
<1> QED BY <1>2, <1>5, <1>6

----------------------------------------------------------------------------
(* The list of templates, step by step *)

\* The steps that leave files, manager and list alone.
LEMMA CPlain ==
    ASSUME TInv, XInv, NInv, CInv, NEW g \in Threads, NEW x, At(g, x),
           NEW S, NEW p, NEW a, NEW v, Moved(g, S, p, a, v),
           UNCHANGED <<disk, path, root, files, cached>>,
           \/ p = call[g].patch
           \/ p.key = "history"
           \/ p.key = "prune" /\ p.to = files[root] /\ call[g].kind \in {"list", "remove"},
           "erase" \notin S, "swap" \notin S,
           "seed" \in S /\ call[g].kind \in {"boot", "switch"} => disk[path] \in Configs /\ v.on = disk[path].on,
           x \in Ahead => S \subseteq Ahead \cup {"scoped", "snapshot"},
           x = "lock" => S = {"look"} \/ call[g].todo[2] # "look"
    PROVE  CInv'
<1>1. Steady
  BY DEF Steady
<1>2. files' = files \/ (call[g].kind \in Lists /\ p.key # "prune")
  OBVIOUS
<1>3. \A h \in Threads : h # g /\ At(h, "swap") => cached' = cached
  OBVIOUS
<1> QED BY <1>1, <1>2, <1>3, CQuiet

\* After the rest of a load come the steps of what it was for.
LEMMA AfterLoadSteps ==
    /\ "erase" \notin AfterLoad /\ "swap" \notin AfterLoad
    /\ AfterLoad \subseteq Ahead \cup {"scoped", "snapshot"}
  BY DEF AfterLoad, Ahead

\* Look keeps what is known of the list.
LEMMA LookC ==
    ASSUME TInv, XInv, JInv, NInv, CInv, NEW g \in Threads, Look(g)
    PROVE  CInv'
<1>1. At(g, "look") /\ UNCHANGED <<disk, path, root, files, cached>> /\ ~ At(g, "swap")
  BY DEF Look, memory, At
<1>2. CASE cached # None
  <2>1. Moved(g, AfterLoad, call[g].patch, call[g].at, cached)
    BY <1>2, LookMoves DEF Effect
  <2>2. call[g].kind \in {"boot", "switch"} => disk[path] \in Configs /\ cached.on = disk[path].on
    BY <1>1, <1>2, CachedOn
  <2> QED BY <1>1, <2>1, <2>2, AfterLoadSteps, CPlain
<1>3. CASE cached = None
  <2>1. Moved(g, {"read"}, call[g].patch, path, call[g].got)
    BY <1>3, LookMoves DEF Effect
  <2> QED BY <1>1, <2>1, CPlain DEF Ahead
<1> QED BY <1>2, <1>3

\* KeepNewer keeps what is known of the list.
LEMMA KeepNewerC ==
    ASSUME TInv, XInv, JInv, NInv, CInv, NEW g \in Threads, KeepNewer(g)
    PROVE  CInv'
<1>1. At(g, "keep") /\ UNCHANGED <<disk, path, root, files, cached>> /\ ~ At(g, "swap") /\ cached # None
  BY DEF KeepNewer, memory, At
<1>2. Moved(g, AfterLoad, call[g].patch, None, cached)
  BY KeepNewerMoves DEF Effect
<1>3. call[g].kind \in {"boot", "switch"} => disk[path] \in Configs /\ cached.on = disk[path].on
  BY <1>1, CachedOn
<1> QED BY <1>1, <1>2, <1>3, AfterLoadSteps, CPlain

\* KeepSwitched keeps what is known of the list.
LEMMA KeepSwitchedC ==
    ASSUME TInv, XInv, NInv, CInv, NEW g \in Threads, KeepSwitched(g)
    PROVE  CInv'
<1>1. At(g, "keep") /\ UNCHANGED <<disk, path, root, files, cached>>
  BY DEF KeepSwitched, memory
<1>2. Moved(g, {"look"}, call[g].patch, None, None)
  BY KeepSwitchedMoves DEF Effect
<1> QED BY <1>1, <1>2, CPlain DEF Ahead

\* syncJournal keeps what is known of the list.
LEMMA syncJournalC ==
    ASSUME TInv, XInv, JInv, NInv, CInv, NEW g \in Threads, syncJournal(g)
    PROVE  CInv'
<1>1. /\ At(g, "sync") /\ ~ At(g, "swap") /\ Becomes(g, Go(g, 1)) /\ UNCHANGED <<disk, path, root, files, cached>>
  BY DEF syncJournal, At
<1>2. Moved(g, Nexts("sync"), call[g].patch, call[g].at, call[g].got)
  BY <1>1, GoOne
<1>3. Moved(g, AfterLoad, call[g].patch, call[g].at, call[g].got)
  BY <1>2, NextSets
<1>4. call[g].got = cached /\ cached # None
  BY <1>1, NotConfigs DEF JInv, TInv, Ready
<1>5. call[g].kind \in {"boot", "switch"} => disk[path] \in Configs /\ cached.on = disk[path].on
  BY <1>1, <1>4, CachedOn
<1> QED BY <1>1, <1>3, <1>4, <1>5, AfterLoadSteps, CPlain

\* Lock keeps what is known of the list.
LEMMA LockC ==
    ASSUME TInv, XInv, NInv, CInv, NEW g \in Threads, Lock(g)
    PROVE  CInv'
<1>1. At(g, "lock") /\ Becomes(g, Go(g, 1)) /\ UNCHANGED <<disk, path, root, files, cached>>
  BY DEF Lock
<1>2. Moved(g, Nexts("lock"), call[g].patch, call[g].at, call[g].got)
  BY <1>1, GoOne
<1>3. Moved(g, {"look", "point"}, call[g].patch, call[g].at, call[g].got)
  BY <1>2, NextSets
<1>4. CASE call[g].todo[2] = "look"
  <2>1. call'[g] # Idle => Head(call'[g].todo) = "look"
    <3>1. Busy(g) /\ Fit(call[g].kind, call[g].todo) /\ call[g].todo # <<>> /\ Len(call[g].todo) \in Nat \ {0}
      BY <1>1, AtStep
    <3>2. 1 \in 0 .. Len(call[g].todo)
      BY <3>1
    <3>3. Turned(g, Drop(1, call[g].todo), call[g].patch, call[g].at, call[g].got)
      BY <1>1, <3>2, GoTurned
    <3>4. Drop(1, call[g].todo) # <<>> => Head(Drop(1, call[g].todo)) = call[g].todo[2]
      BY <3>1, OneStep
    <3> QED BY <1>4, <3>3, <3>4 DEF Turned
  <2>2. Moved(g, {"look"}, call[g].patch, call[g].at, call[g].got)
    BY <1>3, <2>1 DEF Moved
  <2> QED BY <1>1, <2>2, CPlain DEF Ahead
<1>5. CASE call[g].todo[2] # "look"
  BY <1>1, <1>3, <1>5, CPlain DEF Ahead
<1> QED BY <1>4, <1>5

\* Unlock keeps what is known of the list.
LEMMA UnlockC ==
    ASSUME TInv, XInv, NInv, CInv, NEW g \in Threads, Unlock(g)
    PROVE  CInv'
<1>1. At(g, "unlock") /\ Becomes(g, Go(g, 1)) /\ UNCHANGED <<disk, path, root, files, cached>>
  BY DEF Unlock
<1>2. Moved(g, Nexts("unlock"), call[g].patch, call[g].at, call[g].got)
  BY <1>1, GoOne
<1>3. Moved(g, {"look"}, call[g].patch, call[g].at, call[g].got)
  BY <1>2, NextSets
<1> QED BY <1>1, <1>3, CPlain DEF Ahead

\* SwitchPointer keeps what is known of the list.
LEMMA SwitchPointerC ==
    ASSUME TInv, XInv, NInv, CInv, NEW g \in Threads, SwitchPointer(g)
    PROVE  CInv'
<1>1. At(g, "point") /\ Becomes(g, Go(g, 1)) /\ UNCHANGED <<disk, path, root, files, cached>>
  BY DEF SwitchPointer, memory
<1>2. Moved(g, Nexts("point"), call[g].patch, call[g].at, call[g].got)
  BY <1>1, GoOne
<1>3. Moved(g, {"turn"}, call[g].patch, call[g].at, call[g].got)
  BY <1>2, NextSets
<1> QED BY <1>1, <1>3, CPlain DEF Ahead

\* DeleteCheck keeps what is known of the list.
LEMMA DeleteCheckC ==
    ASSUME TInv, XInv, NInv, CInv, NEW g \in Threads, DeleteCheck(g)
    PROVE  CInv'
<1>1. At(g, "check") /\ (Becomes(g, Idle) \/ Becomes(g, Go(g, 1))) /\ UNCHANGED <<disk, path, root, files, cached>>
  BY DEF DeleteCheck, memory
<1>2. CASE Becomes(g, Idle)
  <2>1. Moved(g, {}, call[g].patch, None, None)
    BY <1>2, IdleTurned DEF Moved
  <2> QED BY <1>1, <2>1, CPlain
<1>3. CASE Becomes(g, Go(g, 1))
  <2>1. Moved(g, Nexts("check"), call[g].patch, call[g].at, call[g].got)
    BY <1>1, <1>3, GoOne
  <2>2. Moved(g, {"discard"}, call[g].patch, call[g].at, call[g].got)
    BY <2>1, NextSets
  <2> QED BY <1>1, <2>2, CPlain DEF Ahead
<1> QED BY <1>1, <1>2, <1>3

\* Scoped keeps what is known of the list.
LEMMA ScopedC ==
    ASSUME TInv, XInv, NInv, CInv, NEW g \in Threads, Scoped(g)
    PROVE  CInv'
<1>1. At(g, "scoped") /\ (Becomes(g, Idle) \/ Becomes(g, Go(g, 1))) /\ UNCHANGED <<disk, path, root, files, cached>>
  BY DEF Scoped, memory
<1>2. CASE Becomes(g, Idle)
  <2>1. Moved(g, {}, call[g].patch, None, None)
    BY <1>2, IdleTurned DEF Moved
  <2> QED BY <1>1, <2>1, CPlain
<1>3. CASE Becomes(g, Go(g, 1))
  <2>1. Moved(g, Nexts("scoped"), call[g].patch, call[g].at, call[g].got)
    BY <1>1, <1>3, GoOne
  <2>2. Moved(g, {"lock", "list"}, call[g].patch, call[g].at, call[g].got)
    BY <2>1, NextSets
  <2> QED BY <1>1, <2>2, CPlain DEF Ahead
<1> QED BY <1>1, <1>2, <1>3

\* PersistSnapshot keeps what is known of the list.
LEMMA PersistSnapshotC ==
    ASSUME TInv, XInv, NInv, CInv, NEW g \in Threads, PersistSnapshot(g)
    PROVE  CInv'
<1> DEFINE p == [key |-> "history", to |-> call[g].got.note]
<1>1. /\ At(g, "snapshot") /\ Becomes(g, [Go(g, 1) EXCEPT !.patch = p])
      /\ UNCHANGED <<disk, path, root, files, cached>>
  BY DEF PersistSnapshot, memory
<1>2. call[g].got \in Configs
  BY <1>1 DEF TInv, Ready
<1>3. p \in Patches /\ p.key = "history"
  <2>1. call[g].got.note \in 0 .. MaxCalls
    BY <1>2 DEF Configs
  <2> QED BY <2>1 DEF Patches
<1> HIDE DEF p
<1>4. Moved(g, Nexts("snapshot"), p, call[g].at, call[g].got)
  BY <1>1, <1>3, PatchOne DEF Effect
<1>5. Moved(g, {"lock"}, p, call[g].at, call[g].got)
  BY <1>4, NextSets
<1> QED BY <1>1, <1>3, <1>5, CPlain DEF Ahead

\* ListTemplates keeps what is known of the list.
LEMMA ListTemplatesC ==
    ASSUME Undisturbed, TInv, XInv, NInv, CInv, NEW g \in Threads, ListTemplates(g)
    PROVE  CInv'
<1> DEFINE p == [key |-> "prune", to |-> files[root]]
<1>1. At(g, "list") /\ Becomes(g, [Go(g, 1) EXCEPT !.patch = p]) /\ UNCHANGED <<disk, path, root, files, cached>>
  BY NothingMissed DEF ListTemplates, memory
<1>2. call[g].kind \in {"list", "remove"}
  BY <1>1, AtStep DEF Makes
<1>3. p \in Patches /\ p.key = "prune" /\ p.to = files[root]
  <2>1. root \in Folders
    BY <1>1, <1>2, RootThere
  <2>2. files[root] \in SUBSET Templates
    BY <2>1 DEF TInv, TypeInv
  <2> QED BY <2>2 DEF Patches
<1> HIDE DEF p
<1>4. Moved(g, Nexts("list"), p, call[g].at, call[g].got)
  BY <1>1, <1>3, PatchOne DEF Effect
<1>5. Moved(g, {"look", "lock"}, p, call[g].at, call[g].got)
  BY <1>4, NextSets
<1> QED BY <1>1, <1>2, <1>3, <1>5, CPlain DEF Ahead

\* When nothing runs, nobody needs to know.
LEMMA NobodyC ==
    ASSUME \A h \in Threads : call'[h] = Idle
    PROVE  CInv'
<1>1. \A h \in Threads : Curating(h)'
  BY CuratingIdle
<1>2. \A h \in Threads : call'[h].kind = "none" /\ call'[h].patch.key = "note"
  BY IdleCall DEF NoPatch
<1>3. "none" \notin Lists
  BY DEF Lists
<1>4. "none" # "switch"
  OBVIOUS
<1>5. Paired'
  BY <1>2, <1>3, <1>4 DEF Paired
<1> QED BY <1>1, <1>5 DEF CInv

\* A call that returns leaves the others what they know.
LEMMA ReturnsC ==
    ASSUME TInv, XInv, NInv, CInv, NEW g \in Threads, NEW x, At(g, x), x # "lock", Return(g),
           UNCHANGED <<disk, root, files>>
    PROVE  CInv'
<1>1. call' \in [Threads -> Calls] /\ call'[g] = Idle /\ \A h \in Threads : h # g => call'[h] = call[h]
  BY IdleTurned
<1>2. CASE root # None
  <2>1. UNCHANGED <<disk, path, root, files, cached>>
    BY <1>2 DEF Return
  <2>2. Moved(g, {}, call[g].patch, None, None)
    BY <1>1 DEF Moved
  <2> QED BY <2>1, <2>2, CPlain
<1>3. CASE root = None
  <2>1. Busy(g)
    BY AtStep
  <2>2. call[g].kind \in Solos
    BY <1>3, <2>1 DEF TInv, Starting, Solos
  <2>3. \A h \in Threads : call'[h] = Idle
    BY <1>1, <2>2, OthersIdle
  <2> QED BY <2>3, NobodyC
<1> QED BY <1>2, <1>3

\* Read keeps what is known of the list.
LEMMA ReadC ==
    ASSUME TInv, XInv, NInv, CInv, NEW g \in Threads, Read(g)
    PROVE  CInv'
<1>1. At(g, "read") /\ UNCHANGED <<disk, files, root>>
  BY DEF Read, memory
<1> DEFINE at == call[g].at
           v == disk[at]
<1>2. CASE v \in Configs
  <2>1. Becomes(g, [Go(g, 1) EXCEPT !.got = v]) /\ UNCHANGED <<disk, path, root, files, cached>> /\ v \in Configs \cup {None}
    BY <1>1, <1>2 DEF Read, memory
  <2> HIDE DEF v
  <2>2. Moved(g, Nexts("read"), call[g].patch, at, v)
    BY <1>1, <2>1, GotOne DEF Effect
  <2>3. Moved(g, {"keep"}, call[g].patch, at, v)
    BY <2>2, NextSets
  <2> HIDE DEF at
  <2> QED BY <1>1, <2>1, <2>3, CPlain DEF Ahead
<1>3. CASE v \notin Configs
  <2>1. Return(g)
    BY <1>3 DEF Read
  <2> QED BY <1>1, <2>1, ReturnsC
<1> QED BY <1>2, <1>3

\* Fail keeps what is known of the list.
LEMMA FailC ==
    ASSUME Undisturbed, TInv, XInv, NInv, CInv, NEW g \in Threads, Fail(g)
    PROVE  CInv'
<1>1. PICK x \in Failures : At(g, x)
  BY DEF Fail
<1>2. x # "lock"
  BY DEF Undisturbed
<1>3. Return(g) /\ UNCHANGED <<disk, root, files>>
  BY DEF Fail
<1> QED BY <1>1, <1>2, <1>3, ReturnsC

\* Exit keeps what is known of the list.
LEMMA ExitC ==
    ASSUME Exit
    PROVE  CInv'
<1>1. \A h \in Threads : call'[h] = Idle
  BY DEF Exit
<1> QED BY <1>1, NobodyC

\* What is read keeps its list.
LEMMA ParseKeepsOn ==
    ASSUME NEW c \in Configs
    PROVE  parseUserConfig(c).on = c.on
  BY DEF parseUserConfig, Configs

\* Keep keeps what is known of the list.
LEMMA KeepC ==
    ASSUME Undisturbed, TInv, XInv, NInv, CInv, NEW g \in Threads, Keep(g)
    PROVE  CInv'
<1> DEFINE got == call[g].got
           cfg == parseUserConfig(got)
<1>1. /\ At(g, "keep") /\ path = call[g].at /\ cached = None
      /\ UNCHANGED <<path, root, files>>
      /\ IF got.whole THEN UNCHANGED disk ELSE disk' = [disk EXCEPT ![path] = cfg]
  BY DEF Keep
<1>2. cfg \in Configs /\ got \in Configs /\ Moved(g, AfterLoad, call[g].patch, None, cfg)
  BY KeepMoves DEF Effect
<1>3. path \in Profiles
  BY <1>1, PathThere
<1>4. got = disk[path]
  BY <1>1 DEF NInv
<1>5. cfg.on = got.on /\ cfg.folder = got.folder /\ (got.whole => cfg = got)
  BY <1>2, ParseKeeps, ParseKeepsOn
<1>6. disk \in Stored
  BY DEF TInv, TypeInv
<1> HIDE DEF cfg, got
<1>7. disk'[path] = cfg
  <2>1. CASE got.whole
    BY <2>1, <1>1, <1>4, <1>5
  <2>2. CASE ~ got.whole
    <3> HIDE DEF Configs
    <3> QED BY <2>2, <1>1, <1>3, <1>6 DEF Stored
  <2> QED BY <2>1, <2>2
<1>8. Steady
  BY <1>1, <1>2, <1>4, <1>5, <1>7 DEF Steady
<1>9. \A h \in Threads : h # g /\ At(h, "swap") => cached' = cached
  BY <1>1 DEF NInv
<1>10. disk[path] \in Configs /\ cfg.on = disk[path].on
  BY <1>2, <1>4, <1>5
<1>11. files' = files
  BY <1>1
<1> QED BY <1>1, <1>2, <1>8, <1>9, <1>10, <1>11, AfterLoadSteps, CQuiet

\* PersistCache keeps what is known of the list.
LEMMA PersistCacheC ==
    ASSUME TInv, XInv, NInv, CInv, NEW g \in Threads, PersistCache(g)
    PROVE  CInv'
<1>1. At(g, "swap") /\ Becomes(g, Go(g, 1)) /\ UNCHANGED <<disk, path, root, files>>
  BY DEF PersistCache
<1>2. Moved(g, Nexts("swap"), call[g].patch, call[g].at, call[g].got)
  BY <1>1, GoOne
<1>3. Moved(g, {"sync"}, call[g].patch, call[g].at, call[g].got)
  BY <1>2, NextSets
<1>4. Holds(g)
  BY <1>1, HoldsAt
<1>5. \A h \in Threads : h # g /\ At(h, "swap") => cached' = cached
  BY <1>4, NobodyLocked
<1>6. Steady
  BY <1>1 DEF Steady
<1>7. {"sync"} \subseteq Ahead \cup {"scoped", "snapshot"}
  BY DEF Ahead
<1>8. files' = files
  BY <1>1
<1> QED BY <1>1, <1>3, <1>5, <1>6, <1>7, <1>8, CQuiet

\* ensureUserConfigFile keeps what is known of the list.
LEMMA ensureUserConfigFileC ==
    ASSUME Undisturbed, TInv, XInv, NInv, CInv, NEW g \in Threads, ensureUserConfigFile(g)
    PROVE  CInv'
<1>1. /\ At(g, "ensure") /\ Becomes(g, Go(g, 1)) /\ UNCHANGED <<path, root, files, cached>>
      /\ disk[path] # None => UNCHANGED disk
  BY NothingMissed DEF ensureUserConfigFile, memory
<1>2. Moved(g, Nexts("ensure"), call[g].patch, call[g].at, call[g].got)
  BY <1>1, GoOne
<1>3. Moved(g, {"unlock", "look"}, call[g].patch, call[g].at, call[g].got)
  BY <1>2, NextSets
<1>4. Steady
  BY <1>1, NotConfigs DEF Steady
<1>5. "ensure" \notin Ahead
  BY DEF Ahead
<1>6. files' = files /\ cached' = cached
  BY <1>1
<1> QED BY <1>1, <1>3, <1>4, <1>5, <1>6, CQuiet

\* CreateTemplate keeps what is known of the list.
LEMMA CreateTemplateC ==
    ASSUME TInv, XInv, NInv, CInv, NEW g \in Threads, CreateTemplate(g)
    PROVE  CInv'
<1>1. At(g, "create") /\ (Becomes(g, Idle) \/ Becomes(g, Go(g, 1))) /\ UNCHANGED <<disk, path, root, cached>>
  BY DEF CreateTemplate, memory
<1>2. call[g].kind = "create"
  BY <1>1, AtStep DEF Makes
<1>3. call[g].kind \in Lists /\ call[g].patch.key # "prune"
  BY <1>2 DEF CInv, Curating, Suits, Lists
<1>4. Steady /\ "create" \notin Ahead /\ cached' = cached
  BY <1>1 DEF Steady, Ahead
<1>5. CASE Becomes(g, Idle)
  <2>1. Moved(g, {}, call[g].patch, None, None)
    BY <1>5, IdleTurned DEF Moved
  <2> QED BY <1>1, <1>3, <1>4, <2>1, CQuiet
<1>6. CASE Becomes(g, Go(g, 1))
  <2>1. Moved(g, Nexts("create"), call[g].patch, call[g].at, call[g].got)
    BY <1>1, <1>6, GoOne
  <2>2. Moved(g, {"lock"}, call[g].patch, call[g].at, call[g].got)
    BY <2>1, NextSets
  <2> QED BY <1>1, <1>3, <1>4, <2>2, CQuiet
<1> QED BY <1>1, <1>5, <1>6

\* DeleteTemplate keeps what is known of the list.
LEMMA DeleteTemplateC ==
    ASSUME TInv, XInv, NInv, CInv, NEW g \in Threads, DeleteTemplate(g)
    PROVE  CInv'
<1>1. At(g, "erase") /\ Becomes(g, Go(g, 1)) /\ UNCHANGED <<disk, path, root, cached>>
  BY DEF DeleteTemplate, memory
<1>2. call[g].kind = "remove"
  BY <1>1, AtStep DEF Makes
<1>3. call[g].kind \in Lists /\ call[g].patch.key # "prune"
  BY <1>1, <1>2 DEF CInv, Curating, Lists
<1>4. Steady /\ "erase" \notin Ahead /\ cached' = cached
  BY <1>1 DEF Steady, Ahead
<1>5. Moved(g, Nexts("erase"), call[g].patch, call[g].at, call[g].got)
  BY <1>1, GoOne
<1>6. Moved(g, {"look"}, call[g].patch, call[g].at, call[g].got)
  BY <1>5, NextSets
<1> QED BY <1>1, <1>3, <1>4, <1>6, CQuiet

\* A step of a call that runs alone and does not touch the list.
LEMMA CAlone ==
    ASSUME TInv, XInv, CInv, NEW g \in Threads, call[g].kind \in {"boot", "import", "delete"}, NEW x, At(g, x),
           NEW S, NEW a, NEW v, Moved(g, S, call[g].patch, a, v), "seed" \notin S, "swap" \notin S,
           \/ call[g].kind # "boot"
           \/ x \notin Ahead \cup {"lock"}
           \/ S \subseteq Ahead /\ path' = path /\ disk' = disk
    PROVE  CInv'
<1>1. \A h \in Threads : h # g => call'[h] = Idle /\ call'[h] = call[h]
  <2>1. call[g].kind \in Solos
    BY DEF Solos
  <2> QED BY <2>1, OthersIdle DEF Moved
<1>2. Paired /\ Curating(g)
  BY DEF CInv
<1>3. Curating(g)'
  <2>1. CASE call'[g] = Idle
    BY <2>1, CuratingIdle
  <2>2. CASE call'[g] # Idle
    <3>1. /\ call'[g].kind = call[g].kind /\ call'[g].todo # <<>> /\ Head(call'[g].todo) \in S
          /\ call'[g].patch = call[g].patch
      BY <2>2 DEF Moved
    <3>2. ~ At(g, "seed")' /\ ~ At(g, "swap")'
      BY <3>1 DEF At
    <3>3. call[g].kind \notin Lists /\ Suits(call[g].kind, call[g].patch.key)
      BY <1>2 DEF Curating, Lists
    <3>4. call[g].patch.key # "prune"
      BY <3>3 DEF Suits
    <3>5. ASSUME call[g].patch.key = "seed"
          PROVE  Seeding(g)' /\ disk'[path'] \in Configs /\ disk'[path'].on \in {Unset, call[g].patch.to}
      <4>1. Seeding(g) /\ disk[path] \in Configs /\ disk[path].on \in {Unset, call[g].patch.to} /\ call[g].kind = "boot"
        BY <1>2, <3>3, <3>5 DEF Curating, Suits
      <4>2. x \in Ahead \cup {"lock"}
        BY <4>1 DEF Seeding, At
      <4>3. S \subseteq Ahead /\ path' = path /\ disk' = disk
        BY <4>1, <4>2
      <4>4. Seeding(g)'
        BY <3>1, <4>3 DEF Seeding
      <4> QED BY <4>1, <4>3, <4>4
    <3> QED BY <3>1, <3>2, <3>3, <3>4, <3>5 DEF Curating
  <2> QED BY <2>1, <2>2
<1>4. ASSUME NEW h \in Threads, h # g PROVE Curating(h)'
  BY <1>1, <1>4, CuratingIdle
<1>5. Paired'
  <2>1. call'[g].kind \in {call[g].kind, "none"}
    BY IdleCall DEF Moved
  <2>2. call'[g].patch.key \in Picks => call[g].patch.key \in Picks
    <3>1. "note" \notin Picks
      BY DEF Picks
    <3>2. call'[g].patch.key = "note" \/ call'[g].patch = call[g].patch
      BY IdleCall DEF Moved, NoPatch
    <3> QED BY <3>1, <3>2
  <2>3. \A h \in Threads : call'[h].kind \in {call[h].kind, "none"}
    BY <1>1, <2>1
  <2>4. \A h \in Threads : call'[h].patch.key \in Picks => call[h].patch.key \in Picks
    BY <1>1, <2>2
  <2> QED BY <1>2, <2>3, <2>4, PairedStays
<1> QED BY <1>3, <1>4, <1>5 DEF CInv

\* The same, where the step only goes on.
LEMMA CAloneOne ==
    ASSUME TInv, XInv, CInv, NEW g \in Threads,
           NEW x \in {"copy", "fill", "forget", "discard", "migrate", "unlegacy", "resolve"}, At(g, x),
           Becomes(g, Go(g, 1))
    PROVE  CInv'
<1>1. call[g].kind \in {"boot", "import", "delete"}
  BY AtStep DEF Makes
<1>2. Moved(g, Nexts(x), call[g].patch, call[g].at, call[g].got)
  BY GoOne
<1>3. "seed" \notin Nexts(x) /\ "swap" \notin Nexts(x)
  BY NextSets
<1>4. x \notin Ahead \cup {"lock"}
  BY DEF Ahead
<1> QED BY <1>1, <1>2, <1>3, <1>4, CAlone

\* The steps of a start or an import that touch files keep what is known of the list.
LEMMA ImportStepsC ==
    ASSUME TInv, XInv, CInv, NEW g \in Threads,
           ImportCopy(g) \/ ImportFill(g) \/ InvalidateConfigCache(g) \/ DeleteFile(g)
             \/ migrateLegacyBoot(g) \/ RemoveLegacy(g) \/ resolveBootProfile(g)
    PROVE  CInv'
<1>1. \E x \in {"copy", "fill", "forget", "discard", "migrate", "unlegacy", "resolve"} : At(g, x)
  BY DEF ImportCopy, ImportFill, InvalidateConfigCache, DeleteFile, migrateLegacyBoot, RemoveLegacy, resolveBootProfile
<1>2. Becomes(g, Go(g, 1))
  BY DEF ImportCopy, ImportFill, InvalidateConfigCache, DeleteFile, migrateLegacyBoot, RemoveLegacy, resolveBootProfile
<1> QED BY <1>1, <1>2, CAloneOne

\* ImportParse keeps what is known of the list.
LEMMA ImportParseC ==
    ASSUME TInv, XInv, CInv, NEW g \in Threads, ImportParse(g)
    PROVE  CInv'
<1> DEFINE to == call[g].to
           v == parseUserConfig(disk[to])
<1>1. At(g, "parse")
  BY DEF ImportParse
<1>2. call[g].kind = "import"
  BY <1>1, AtStep DEF Makes
<1>3. CASE disk[to] \in Configs
  <2>1. Becomes(g, [Go(g, 1) EXCEPT !.got = v]) /\ v \in Configs \cup {None}
    BY <1>3, ParseKeeps DEF ImportParse
  <2> HIDE DEF v
  <2>2. Moved(g, Nexts("parse"), call[g].patch, call[g].at, v)
    BY <1>1, <2>1, GotOne DEF Effect
  <2>3. Moved(g, {"fill"}, call[g].patch, call[g].at, v)
    BY <2>2, NextSets
  <2>4. "seed" \notin {"fill"} /\ "swap" \notin {"fill"} /\ call[g].kind \in {"boot", "import", "delete"} /\ call[g].kind # "boot"
    BY <1>2
  <2> QED BY <1>1, <2>3, <2>4, CAlone
<1>4. CASE disk[to] \notin Configs
  <2>1. Return(g)
    BY <1>4 DEF ImportParse
  <2>2. \A h \in Threads : h # g => call[h] = Idle
    BY <1>2, OthersIdle DEF Solos
  <2>3. \A h \in Threads : call'[h] = Idle
    BY <2>1, <2>2, IdleTurned
  <2> QED BY <2>3, NobodyC
<1> QED BY <1>3, <1>4

\* Build keeps what is known of the list.
LEMMA BuildC ==
    ASSUME TInv, XInv, CInv, NEW g \in Threads, Build(g)
    PROVE  CInv'
<1>1. At(g, "build") /\ Becomes(g, Go(g, 1)) /\ path' = path /\ disk' = disk
  BY DEF Build
<1>2. call[g].kind = "boot"
  BY <1>1, AtStep DEF Makes
<1>3. Moved(g, Nexts("build"), call[g].patch, call[g].at, call[g].got)
  BY <1>1, GoOne
<1>4. Moved(g, {"look"}, call[g].patch, call[g].at, call[g].got)
  BY <1>3, NextSets
<1>5. {"look"} \subseteq Ahead
  BY DEF Ahead
<1> QED BY <1>1, <1>2, <1>4, <1>5, CAlone

\* The seed keeps what is known of the list.
LEMMA SeedC ==
    ASSUME Undisturbed, TInv, XInv, NInv, CInv, NEW g \in Threads, SeedEnabledTemplatesIfUnset(g)
    PROVE  CInv'
<1>1. At(g, "seed") /\ UNCHANGED <<disk, path, root, files, cached>>
  BY NothingMissed DEF SeedEnabledTemplatesIfUnset, memory
<1>2. CASE Moved(g, {"look"}, call[g].patch, call[g].at, call[g].got)
  <2>1. {"look"} \subseteq Ahead \cup {"scoped", "snapshot"}
    BY DEF Ahead
  <2> QED BY <1>1, <1>2, <2>1, CPlain
<1>3. ASSUME NEW p \in Patches, p.key = "seed", Moved(g, {"lock"}, p, call[g].at, call[g].got),
             call[g].got.on = Unset, call'[g].todo # <<>>, call'[g].todo[2] = "look"
      PROVE  CInv'
  <2>1. call[g].kind \in {"boot", "switch"}
    BY <1>1, AtStep DEF Makes
  <2>2. disk[path] \in Configs /\ disk[path].on = Unset
    BY <1>1, <1>3 DEF CInv, Curating
  <2>3. call'[g] # Idle
    BY <1>3, IdleCall
  <2>4. call'[g].kind = call[g].kind /\ Head(call'[g].todo) = "lock" /\ call'[g].patch = p
    BY <1>3, <2>3 DEF Moved
  <2>5. ~ At(g, "seed")' /\ ~ At(g, "swap")' /\ ~ At(g, "erase")' /\ At(g, "lock")'
    BY <1>3, <2>4 DEF At
  <2>6. Seeding(g)'
    BY <1>3, <2>5 DEF Seeding
  <2>7. Suits(call[g].kind, p.key) /\ call[g].kind \notin Lists
    BY <1>3, <2>1 DEF Suits, Picks, Lists
  <2>8. Curating(g)'
    BY <1>1, <1>3, <2>2, <2>4, <2>5, <2>6, <2>7 DEF Curating
  <2>9. \A h \in Threads : h # g => call'[h] = call[h]
    BY <1>3 DEF Moved
  <2>10. Steady
    BY <1>1 DEF Steady
  <2>11. ASSUME NEW h \in Threads, h # g PROVE Curating(h)'
    <3>1. Curating(h) /\ cached' = cached /\ files'[root] = files[root]
      BY <1>1 DEF CInv
    <3> QED BY <2>9, <2>10, <2>11, <3>1, CuratingWaits
  <2>12. Paired'
    <3>1. p.key \notin Picks /\ Paired
      BY <1>3 DEF Picks, CInv
    <3>2. \A h \in Threads : call'[h].kind \in {call[h].kind, "none"}
      BY <2>4, <2>9
    <3>3. \A h \in Threads : call'[h].patch.key \in Picks => call[h].patch.key \in Picks
      BY <2>4, <2>9, <3>1
    <3> QED BY <3>1, <3>2, <3>3, PairedStays
  <2> QED BY <2>8, <2>11, <2>12 DEF CInv
<1> QED BY <1>2, <1>3, SeedMoves DEF Effect

\* setConfigPath keeps what is known of the list.
LEMMA setConfigPathC ==
    ASSUME TInv, XInv, NInv, CInv, NEW g \in Threads, setConfigPath(g)
    PROVE  CInv'
<1>1. At(g, "turn") /\ Becomes(g, Go(g, 1))
  BY DEF setConfigPath
<1>2. Moved(g, Nexts("turn"), call[g].patch, call[g].at, call[g].got)
  BY <1>1, GoOne
<1>3. Moved(g, {"ensure"}, call[g].patch, call[g].at, call[g].got)
  BY <1>2, NextSets
<1>4. call[g].kind = "switch" /\ Holds(g) /\ Busy(g)
  BY <1>1, AtStep, HoldsAt DEF Makes
<1>5. Paired /\ \A h \in Threads : Curating(h)
  BY DEF CInv
<1>6. ASSUME NEW h \in Threads
      PROVE  /\ call[h].kind \notin Lists /\ call[h].patch.key \notin {"prune", "seed"}
             /\ Suits(call[h].kind, call[h].patch.key)
  <2>1. Suits(call[h].kind, call[h].patch.key) /\ (call[h].patch.key = "seed" => Seeding(h))
    BY <1>5 DEF Curating
  <2>2. CASE h = g
    <3>1. call[h].kind \notin Lists
      BY <1>4, <2>2 DEF Lists
    <3>2. ~ Seeding(h)
      BY <1>1, <2>2 DEF Seeding, At, Ahead
    <3> QED BY <1>4, <2>1, <2>2, <3>1, <3>2 DEF Suits
  <2>3. CASE h # g
    <3>1. call[h].kind \notin Lists
      BY <1>4, <1>5, <2>3 DEF Paired, Moves
    <3>2. call[h].kind # "switch" /\ call[h].kind # "boot"
      BY <1>4, <2>3 DEF XInv, Solos
    <3> QED BY <2>1, <3>1, <3>2 DEF Suits, Lists
  <2> QED BY <2>2, <2>3
<1>7. \A h \in Threads : h # g => call'[h] = call[h]
  BY <1>3 DEF Moved
<1>8. Curating(g)'
  <2>1. CASE call'[g] = Idle
    BY <2>1, CuratingIdle
  <2>2. CASE call'[g] # Idle
    <3>1. call'[g].kind = call[g].kind /\ call'[g].patch = call[g].patch /\ Head(call'[g].todo) = "ensure"
      BY <1>3, <2>2 DEF Moved
    <3>2. ~ At(g, "seed")' /\ ~ At(g, "swap")'
      BY <3>1 DEF At
    <3> QED BY <1>6, <3>1, <3>2 DEF Curating
  <2> QED BY <2>1, <2>2
<1>9. ASSUME NEW h \in Threads, h # g PROVE Curating(h)'
  <2>1. ~ At(h, "swap")
    BY <1>4, <1>9, NobodyLocked
  <2>2. ~ At(h, "seed")
    <3> SUFFICES ASSUME At(h, "seed") PROVE FALSE
      OBVIOUS
    <3>1. call[h].kind \in {"boot", "switch"}
      BY AtStep DEF Makes
    <3> QED BY <1>4, <1>9, <3>1 DEF XInv, Solos
  <2>3. ~ At(h, "swap")' /\ ~ At(h, "seed")'
    BY <1>7, <1>9, <2>1, <2>2 DEF At
  <2>4. call'[h].kind = call[h].kind /\ call'[h].patch = call[h].patch
    BY <1>7, <1>9
  <2> QED BY <1>6, <2>3, <2>4 DEF Curating
<1>10. Paired'
  <2>1. call'[g].kind \in {call[g].kind, "none"} /\ (call'[g].patch = call[g].patch \/ call'[g].patch.key = "note")
    BY <1>3, IdleCall DEF Moved, NoPatch
  <2>2. "note" \notin Picks
    BY DEF Picks
  <2>3. \A h \in Threads : call'[h].kind \in {call[h].kind, "none"}
    BY <1>7, <2>1
  <2>4. \A h \in Threads : call'[h].patch.key \in Picks => call[h].patch.key \in Picks
    BY <1>7, <2>1, <2>2
  <2> QED BY <1>5, <2>3, <2>4, PairedStays
<1> QED BY <1>8, <1>9, <1>10 DEF CInv

\* What an update leaves alone, and what the seed makes of the list.
LEMMA PatchedKeeps ==
    ASSUME NEW x \in Patches, NEW c \in Configs
    PROVE  /\ x.key # "folder" => Patched(x, c).folder = c.folder
           /\ x.key \notin OnKeys => Patched(x, c).on = c.on
           /\ x.key = "seed" => Patched(x, c).on = x.to
<1>1. x.key \in {"note", "history", "folder", "seed", "prune", "show", "hide", "enable"}
  BY DEF Patches
<1>2. CASE x.key \in {"note", "history"}
  BY <1>2 DEF Patched, Configs, OnKeys, Picks
<1>3. CASE x.key = "folder"
  BY <1>3 DEF Patched, Configs, OnKeys, Picks
<1>4. CASE x.key = "seed"
  BY <1>4 DEF Patched, Configs, OnKeys, Picks
<1>5. CASE x.key = "prune"
  BY <1>5 DEF Patched, Configs, OnKeys, Picks
<1>6. CASE x.key = "show"
  BY <1>6 DEF Patched, Configs, OnKeys, Picks
<1>7. CASE x.key = "hide"
  BY <1>7 DEF Patched, Configs, OnKeys, Picks
<1>8. CASE x.key = "enable"
  BY <1>8 DEF Patched, Configs, OnKeys, Picks
<1> QED BY <1>1, <1>2, <1>3, <1>4, <1>5, <1>6, <1>7, <1>8

\* PersistFile keeps what is known of the list.
LEMMA PersistFileC ==
    ASSUME TInv, XInv, JInv, NInv, CInv, NEW g \in Threads, PersistFile(g)
    PROVE  CInv'
<1> DEFINE x == call[g].patch
           got == call[g].got
           merged == Patched(x, got)
<1>1. At(g, "write") /\ UNCHANGED <<path, root, files, cached>>
  BY DEF PersistFile, memory
<1>2. /\ path \in Profiles /\ got \in Configs /\ x \in Patches /\ merged \in Configs
      /\ IF x.key \in Mutations /\ merged = got
         THEN Moved(g, {"unlock"}, x, call[g].at, got) /\ UNCHANGED disk
         ELSE Moved(g, {"swap"}, x, call[g].at, merged) /\ disk' = [disk EXCEPT ![path] = merged]
  BY PersistMoves DEF Effect
<1>3. CASE x.key \in Mutations /\ merged = got
  <2>1. Moved(g, {"unlock"}, x, call[g].at, got) /\ UNCHANGED disk
    BY <1>2, <1>3
  <2>2. {"unlock"} \subseteq Ahead \cup {"scoped", "snapshot"}
    BY DEF Ahead
  <2>3. UNCHANGED <<disk, path, root, files, cached>>
    BY <1>1, <2>1
  <2> QED BY <1>1, <2>1, <2>2, <2>3, CPlain
<1>4. CASE ~ (x.key \in Mutations /\ merged = got)
  <2>1. Moved(g, {"swap"}, x, call[g].at, merged) /\ disk' = [disk EXCEPT ![path] = merged]
    BY <1>2, <1>4
  <2>2. disk[path] \in Configs /\ got = disk[path] /\ cached = disk[path]
    BY <1>1, WriteIsDisk
  <2>3. disk \in Stored
    BY DEF TInv, TypeInv
  <2>4. /\ x.key # "folder" => merged.folder = got.folder
        /\ x.key \notin OnKeys => merged.on = got.on
        /\ x.key = "seed" => merged.on = x.to
    BY <1>2, PatchedKeeps
  <2>5. Holds(g) /\ Busy(g)
    BY <1>1, AtStep, HoldsAt
  <2>6. Paired /\ \A h \in Threads : Curating(h)
    BY DEF CInv
  <2>7. x.key = "folder" => call[g].kind = "folder"
    BY <2>6 DEF Curating, Suits
  <2> HIDE DEF merged, got
  <2>8. disk'[path] = merged /\ path' = path /\ root' = root /\ files' = files /\ cached' = cached
    <3> HIDE DEF Configs
    <3> QED BY <1>1, <1>2, <2>1, <2>3 DEF Stored
  <2>9. \A h \in Threads : h # g => call'[h] = call[h]
    BY <2>1 DEF Moved
  <2>10. Curating(g)'
    <3>1. CASE call'[g] = Idle
      BY <3>1, CuratingIdle
    <3>2. CASE call'[g] # Idle
      <4>1. call'[g].kind = call[g].kind /\ call'[g].patch = x /\ call'[g].todo # <<>> /\ Head(call'[g].todo) = "swap"
        BY <2>1, <3>2 DEF Moved
      <4>2. ~ At(g, "seed")' /\ ~ At(g, "erase")'
        BY <4>1 DEF At
      <4>3. Seeding(g)'
        BY <4>1 DEF Seeding, Ahead
      <4>4. call[g].kind \in Lists => merged \in Configs /\ merged.folder = root
        <5>1. "folder" \notin Lists
          BY DEF Lists
        <5> QED BY <1>2, <2>2, <2>4, <2>6, <2>7, <5>1 DEF Curating
      <4>5. x.key = "prune" => x.to = files[root]
        BY <2>6 DEF Curating
      <4>6. x.key \notin OnKeys => cached.on = merged.on
        BY <2>2, <2>4
      <4>7. Suits(call[g].kind, x.key)
        BY <2>6 DEF Curating
      <4> HIDE DEF x
      <4> QED BY <1>2, <2>4, <2>8, <4>1, <4>2, <4>3, <4>4, <4>5, <4>6, <4>7 DEF Curating
    <3> QED BY <3>1, <3>2
  <2>11. ASSUME NEW h \in Threads, h # g PROVE Curating(h)'
    <3>1. call'[h] = call[h] /\ Curating(h)
      BY <2>6, <2>9, <2>11
    <3>2. ~ At(h, "swap")
      BY <2>5, <2>11, NobodyLocked
    <3>3. call[h].kind \in Lists => merged.folder = got.folder
      <4>1. call[h].kind \in Lists => call[g].kind \notin Moves
        BY <2>6, <2>11 DEF Paired
      <4>2. "folder" \in Moves
        BY DEF Moves
      <4> QED BY <2>4, <2>7, <4>1, <4>2
    <3>4. call[h].kind \in {"boot", "switch"} => merged.on = got.on
      <4>1. call[h].kind \in {"boot", "switch"} => x.key \notin OnKeys
        BY <2>5, <2>11, BesideSeeder
      <4> QED BY <2>4, <4>1
    <3>5. call[h].patch.key = "seed" => call[h].kind \in {"boot", "switch"}
      BY <3>1 DEF Curating, Suits
    <3>6. At(h, "seed") => call[h].kind \in {"boot", "switch"}
      BY AtStep DEF Makes
    <3>7. /\ At(h, "seed")' <=> At(h, "seed")
          /\ At(h, "swap")' <=> At(h, "swap")
          /\ At(h, "erase")' <=> At(h, "erase")
      BY <3>1 DEF At
    <3>8. Seeding(h) => Seeding(h)'
      BY <3>1 DEF Seeding, At
    <3> HIDE DEF x
    <3> QED BY <1>2, <2>2, <2>8, <3>1, <3>2, <3>3, <3>4, <3>5, <3>6, <3>7, <3>8 DEF Curating
  <2>12. Paired'
    <3>1. call'[g].kind \in {call[g].kind, "none"} /\ (call'[g].patch = call[g].patch \/ call'[g].patch.key = "note")
      BY <2>1, IdleCall DEF Moved, NoPatch
    <3>2. "note" \notin Picks
      BY DEF Picks
    <3>3. \A h \in Threads : call'[h].kind \in {call[h].kind, "none"}
      BY <2>9, <3>1
    <3>4. \A h \in Threads : call'[h].patch.key \in Picks => call[h].patch.key \in Picks
      BY <2>9, <3>1, <3>2
    <3> QED BY <2>6, <3>3, <3>4, PairedStays
  <2> QED BY <2>10, <2>11, <2>12 DEF CInv
<1> QED BY <1>3, <1>4

\* Starting a call keeps what is known of the list.
LEMMA StartC ==
    ASSUME Undisturbed, "seed" \notin Exposed, TInv, XInv, NInv, CInv, NEW g \in Threads, NEW k \in Kinds \ {"none", "boot"},
           NEW to \in Profiles \cup Templates \cup {None}, NEW p \in Patches,
           p.key \notin {"history", "seed", "prune"}, Suits(k, p.key),
           Start(g, k, to, p)
    PROVE  CInv'
<1>1. ~ Busy(g) /\ MayStart(k, to, p) /\ UNCHANGED <<disk, path, root, files, cached>>
  BY DEF Start, memory
<1>2. /\ \A h \in Threads : h # g => call'[h] = call[h]
      /\ call'[g].kind = k /\ call'[g].to = to /\ call'[g].patch = p
      /\ Started(k, call'[g].todo)
  <2> DEFINE d == [Idle EXCEPT !.kind = k, !.todo = Program(k), !.to = to, !.patch = p]
  <2>1. call' = [call EXCEPT ![g] = d]
    BY DEF Start
  <2>2. d \in Calls /\ d.kind = k /\ d.todo = Program(k) /\ d.to = to /\ d.patch = p
    <3>1. Program(k) \in Seq(Steps)
      BY Programs DEF Started, Fit, Links
    <3> HIDE DEF Program, Idle
    <3> QED BY <3>1, IdleCall DEF Calls
  <2> HIDE DEF d
  <2>3. /\ \A h \in Threads : h # g => call'[h] = call[h]
        /\ call'[g] = d /\ Started(d.kind, d.todo)
    BY <2>1, <2>2, Begins
  <2> QED BY <2>2, <2>3
<1>3. ~ At(g, "seed")' /\ ~ At(g, "swap")'
  BY <1>2 DEF Started, At
<1>4. Curating(g)'
  <2>1. k \in Lists => disk[path] \in Configs /\ disk[path].folder = root
    BY <1>1 DEF MayStart, Undisturbed
  <2> QED BY <1>1, <1>2, <1>3, <2>1 DEF Curating
<1>5. ASSUME NEW h \in Threads, h # g PROVE Curating(h)'
  <2>1. Steady /\ cached' = cached /\ files'[root] = files[root]
    BY <1>1 DEF Steady
  <2>2. Curating(h) /\ call'[h] = call[h]
    BY <1>2, <1>5 DEF CInv
  <2> QED BY <2>1, <2>2, CuratingWaits
<1>6. Paired'
  <2>1. /\ k \in Lists => \A h \in Threads : call[h].kind \notin Lists \cup Moves
        /\ k \in Moves => \A h \in Threads : call[h].kind \notin Lists
    <3>1. IF k \in Lists THEN Apart(Lists \cup Moves) ELSE k \in Moves => Apart(Lists)
      BY <1>1 DEF MayStart, Undisturbed
    <3>2. k \notin Lists \/ k \notin Moves
      BY DEF Lists, Moves
    <3> QED BY <3>1, <3>2 DEF Apart
  <2>2. /\ p.key \in Picks => \A h \in Threads : call[h].kind # "switch"
        /\ k = "switch" => \A h \in Threads : call[h].patch.key \notin Picks
    BY <1>1 DEF MayStart, Undisturbed, Apart
  <2>3. p.key \in Picks => k # "switch"
    BY DEF Suits
  <2>4. \A h, j \in Threads : call'[h].kind \in Lists /\ call'[j].kind \in Lists \cup Moves => h = j
    BY <1>2, <2>1 DEF CInv, Paired
  <2>5. \A h, j \in Threads : call'[h].patch.key \in Picks => call'[j].kind # "switch"
    BY <1>2, <2>2, <2>3 DEF CInv, Paired
  <2> QED BY <2>4, <2>5 DEF Paired
<1> QED BY <1>4, <1>5, <1>6 DEF CInv

\* The start of the program.
LEMMA BootC ==
    ASSUME TInv, NEW g \in Threads, Boot(g)
    PROVE  CInv'
<1>1. Idling /\ call' = [call EXCEPT ![g] = [Idle EXCEPT !.kind = "boot", !.todo = Program("boot")]]
  BY DEF Boot
<1>2. /\ \A h \in Threads : h # g => call'[h] = call[h]
      /\ call'[g].kind = "boot" /\ call'[g].patch = NoPatch
      /\ Started("boot", call'[g].todo)
  <2> DEFINE d == [Idle EXCEPT !.kind = "boot", !.todo = Program("boot")]
  <2>1. call' = [call EXCEPT ![g] = d]
    BY <1>1
  <2>2. /\ d \in Calls /\ d.kind = "boot" /\ d.todo = Program("boot") /\ d.patch = NoPatch
    BY FreshBoot, Zenon
  <2> HIDE DEF d
  <2>3. /\ \A h \in Threads : h # g => call'[h] = call[h]
        /\ call'[g] = d /\ Started(d.kind, d.todo)
    BY <2>1, <2>2, Begins
  <2> QED BY <2>2, <2>3
<1>3. ~ At(g, "seed")' /\ ~ At(g, "swap")'
  BY <1>2 DEF Started, At
<1>4. \A h \in Threads : h # g => call'[h] = Idle
  BY <1>1, <1>2 DEF TInv, Ready, Idling
<1>5. Curating(g)'
  <2>1. "boot" \notin Lists /\ Suits("boot", "note") /\ NoPatch.key = "note"
    BY DEF Lists, Suits, Picks, NoPatch
  <2> QED BY <1>2, <1>3, <2>1 DEF Curating
<1>6. ASSUME NEW h \in Threads, h # g PROVE Curating(h)'
  BY <1>4, <1>6, CuratingIdle
<1>7. Paired'
  <2>1. \A h \in Threads : call'[h].kind \in {"boot", "none"} /\ call'[h].patch.key = "note"
    BY <1>2, <1>4, IdleCall DEF NoPatch
  <2>2. "boot" \notin Lists /\ "none" \notin Lists /\ "note" \notin Picks
    BY DEF Lists, Picks
  <2> QED BY <2>1, <2>2 DEF Paired
<1> QED BY <1>5, <1>6, <1>7 DEF CInv

\* Nothing happens.
LEMMA StillC ==
    ASSUME CInv, UNCHANGED vars
    PROVE  CInv'
<1>1. UNCHANGED <<disk, files, path, cached, root, call>>
  BY DEF vars, memory
<1> QED BY <1>1 DEF CInv, Paired, Curating, Seeding, At

\* What every step keeps of the list.
LEMMA NextC ==
    ASSUME Undisturbed, "seed" \notin Exposed, TInv, XInv, JInv, NInv, CInv, [Next]_vars
    PROVE  CInv'
<1>1. ASSUME NEW g \in Threads, Starts(g) PROVE CInv'
  BY <1>1, StartsAny, StartC
<1>2. ASSUME NEW g \in Threads, Step(g) PROVE CInv'
  BY <1>2, LookC, ReadC, KeepSwitchedC, KeepNewerC, KeepC, syncJournalC, LockC, UnlockC,
     PersistFileC, PersistCacheC, SwitchPointerC, setConfigPathC, ensureUserConfigFileC,
     SeedC, ListTemplatesC, ScopedC, CreateTemplateC, DeleteTemplateC, PersistSnapshotC,
     ImportStepsC, ImportParseC, DeleteCheckC, BuildC DEF Step
<1>3. ASSUME NEW g \in Threads, Fail(g) \/ Boot(g) PROVE CInv'
  BY <1>3, FailC, BootC
<1> QED BY <1>1, <1>2, <1>3, ExitC, StillC DEF Next

\* At first nobody knows of a list.
LEMMA InitC ==
    ASSUME Init
    PROVE  CInv
<1>1. \A g \in Threads : call[g].kind = "none" /\ call[g].todo = <<>> /\ call[g].patch.key = "note"
  <2>1. \A g \in Threads : call[g] = Idle
    <3> HIDE DEF Idle
    <3> QED BY DEF Init
  <2> QED BY <2>1, IdleCall DEF NoPatch
<1>2. "none" \notin Lists /\ "note" \notin Picks /\ Suits("none", "note")
  BY DEF Lists, Picks, Suits
<1>3. Paired
  BY <1>1, <1>2 DEF Paired
<1>4. ASSUME NEW g \in Threads PROVE Curating(g)
  <2>1. ~ At(g, "seed") /\ ~ At(g, "swap")
    BY <1>1 DEF At
  <2> QED BY <1>1, <1>2, <2>1 DEF Curating
<1> QED BY <1>3, <1>4 DEF CInv

\* What CurationKept asks of a step, for one profile.
KeepsList(p) ==
    disk[p] \in Configs /\ disk'[p] \in Configs =>
        \A t \in Shown(disk[p]) \cap files[disk[p].folder] :
            \/ t \in Shown(disk'[p])
            \/ \E g \in Threads : \/ At(g, "copy") /\ call[g].to = p
                                  \/ At(g, "write") /\ call[g].patch.key = "hide" /\ call[g].patch.to = t

\* Repairing, importing and removing a file never shortens a list.
LEMMA RepairKeepsList ==
    ASSUME Undisturbed, TInv, NInv, NEW g \in Threads,
           Keep(g) \/ ensureUserConfigFile(g) \/ ImportParse(g) \/ ImportFill(g) \/ DeleteFile(g) \/ ImportCopy(g),
           NEW p \in Profiles
    PROVE  KeepsList(p)
<1>1. disk \in Stored
  BY DEF TInv, TypeInv
<1>2. CASE Keep(g)
  <2> DEFINE got == call[g].got
             cfg == parseUserConfig(got)
  <2>1. /\ At(g, "keep") /\ path = call[g].at /\ cached = None
        /\ IF got.whole THEN UNCHANGED disk ELSE disk' = [disk EXCEPT ![path] = cfg]
    BY <1>2 DEF Keep
  <2>2. got = disk[path] /\ path \in Profiles /\ got \in Configs
    BY <2>1, PathThere DEF NInv, TInv, Ready
  <2>3. cfg.on = got.on
    BY <2>2, ParseKeepsOn
  <2> HIDE DEF cfg, got
  <2>4. disk'[p] = disk[p] \/ (p = path /\ disk'[p] = cfg)
    <3> HIDE DEF Configs
    <3> QED BY <1>1, <2>1, <2>2 DEF Stored
  <2>5. disk'[p] = disk[p] \/ disk'[p].on = disk[p].on
    BY <2>2, <2>3, <2>4
  <2> QED BY <2>5 DEF KeepsList, Shown
<1>3. CASE ensureUserConfigFile(g)
  <2>1. IF disk[path] # None THEN UNCHANGED disk ELSE disk' = [disk EXCEPT ![path] = defaultConfig]
    BY NothingMissed, <1>3 DEF ensureUserConfigFile
  <2>2. disk'[p] = disk[p] \/ disk[p] = None
    <3> HIDE DEF Configs, defaultConfig
    <3> QED BY <1>1, <2>1 DEF Stored
  <2> QED BY <2>2, NotConfigs DEF KeepsList
<1>4. CASE ImportParse(g)
  <2>1. \/ UNCHANGED disk
        \/ disk' = [disk EXCEPT ![call[g].to] = None]
    BY <1>4 DEF ImportParse
  <2>2. disk'[p] = disk[p] \/ disk'[p] = None
    <3> HIDE DEF Configs
    <3> QED BY <1>1, <2>1 DEF Stored
  <2> QED BY <2>2, NotConfigs DEF KeepsList
<1>5. CASE ImportFill(g)
  <2> DEFINE to == call[g].to
             got == call[g].got
  <2>1. At(g, "fill") /\ disk' = [disk EXCEPT ![to] = got]
    BY <1>5 DEF ImportFill
  <2>2. disk[to] \in Configs /\ got = parseUserConfig(disk[to])
    BY <2>1 DEF NInv
  <2>3. got.on = disk[to].on
    BY <2>2, ParseKeepsOn
  <2> HIDE DEF to, got
  <2>4. disk'[p] = disk[p] \/ (p = to /\ disk'[p] = got)
    <3> HIDE DEF Configs, parseUserConfig
    <3> QED BY <1>1, <2>1 DEF Stored
  <2>5. disk'[p] = disk[p] \/ disk'[p].on = disk[p].on
    BY <2>3, <2>4
  <2> QED BY <2>5 DEF KeepsList, Shown
<1>6. CASE DeleteFile(g)
  <2>1. disk' = [disk EXCEPT ![call[g].to] = None]
    BY <1>6 DEF DeleteFile
  <2>2. disk'[p] = disk[p] \/ disk'[p] = None
    <3> HIDE DEF Configs
    <3> QED BY <1>1, <2>1 DEF Stored
  <2> QED BY <2>2, NotConfigs DEF KeepsList
<1>7. CASE ImportCopy(g)
  <2> DEFINE to == call[g].to
  <2>1. At(g, "copy") /\ \E c \in Incoming : disk' = [disk EXCEPT ![to] = c]
    BY <1>7 DEF ImportCopy
  <2> HIDE DEF to
  <2>2. p = to \/ disk'[p] = disk[p]
    <3> HIDE DEF Configs
    <3> QED BY <1>1, <2>1 DEF Stored
  <2> QED BY <2>1, <2>2 DEF KeepsList, to
<1> QED BY <1>2, <1>3, <1>4, <1>5, <1>6, <1>7

\* Of the templates that are there, an update takes only the one the user hides.
LEMMA PatchedList ==
    ASSUME NEW x \in Patches, NEW c \in Configs, NEW t \in Shown(c),
           x.key = "hide" => t # x.to,
           x.key = "seed" => c.on \in {Unset, x.to},
           x.key = "prune" => t \in x.to
    PROVE  t \in Shown(Patched(x, c))
<1>1. x.key \in {"note", "history", "folder", "seed", "prune", "show", "hide", "enable"}
  BY DEF Patches
<1>2. c.on # Unset /\ t \in c.on /\ Shown(c) = c.on /\ Shown(c) # {}
  BY DEF Shown
<1>3. c.on \in SUBSET Templates
  BY <1>2 DEF Configs
<1>4. \A S \in SUBSET Templates : Unset # S
  BY NamesAssumption
<1>5. CASE x.key \in {"note", "history", "folder"}
  <2>1. Patched(x, c).on = c.on
    <3>1. x.key \notin OnKeys
      BY <1>5 DEF OnKeys, Picks
    <3> QED BY <3>1, PatchedKeeps
  <2> QED BY <1>2, <2>1 DEF Shown
<1>6. CASE x.key = "seed"
  <2>1. Patched(x, c).on = c.on
    BY <1>2, <1>6, PatchedKeeps
  <2> QED BY <1>2, <2>1 DEF Shown
<1>7. CASE x.key = "show"
  <2>1. x.to \in Templates
    BY <1>7 DEF Patches
  <2>2. Patched(x, c).on = c.on \cup {x.to}
    BY <1>2, <1>7 DEF Patched, Configs
  <2>3. c.on \cup {x.to} \in SUBSET Templates
    BY <1>3, <2>1
  <2> QED BY <1>2, <1>4, <2>2, <2>3 DEF Shown
<1>8. CASE x.key = "enable"
  <2>1. x.to \in Templates
    BY <1>8 DEF Patches
  <2>2. Patched(x, c).on = c.on \cup {x.to}
    BY <1>2, <1>8 DEF Patched, Configs
  <2>3. c.on \cup {x.to} \in SUBSET Templates
    BY <1>3, <2>1
  <2> QED BY <1>2, <1>4, <2>2, <2>3 DEF Shown
<1>9. CASE x.key = "prune"
  <2>1. Patched(x, c).on = c.on \cap x.to
    BY <1>2, <1>9 DEF Patched, Configs
  <2>2. c.on \cap x.to \in SUBSET Templates
    BY <1>3
  <2> QED BY <1>2, <1>4, <1>9, <2>1, <2>2 DEF Shown
<1>10. CASE x.key = "hide"
  <2>1. Patched(x, c).on = c.on \ {x.to}
    BY <1>2, <1>10 DEF Patched, Configs
  <2>2. c.on \ {x.to} \in SUBSET Templates
    BY <1>3
  <2> QED BY <1>2, <1>4, <1>10, <2>1, <2>2 DEF Shown
<1> QED BY <1>1, <1>5, <1>6, <1>7, <1>8, <1>9, <1>10

\* Nor does an update, whoever else is under way: the seed finds the list it was made
\* for, and what is pruned is the list of the folder that was read.
LEMMA PersistKeepsList ==
    ASSUME TInv, XInv, JInv, NInv, CInv, NEW g \in Threads, PersistFile(g), NEW p \in Profiles
    PROVE  KeepsList(p)
<1> DEFINE x == call[g].patch
           got == call[g].got
           merged == Patched(x, got)
<1>1. At(g, "write")
  BY DEF PersistFile
<1>2. /\ path \in Profiles /\ got \in Configs /\ x \in Patches
      /\ UNCHANGED disk \/ disk' = [disk EXCEPT ![path] = merged]
  BY PersistMoves
<1>3. got = disk[path]
  BY <1>1, WriteIsDisk
<1>4. disk \in Stored
  BY DEF TInv, TypeInv
<1>5. Curating(g)
  BY DEF CInv
<1>6. SUFFICES ASSUME p = path, disk'[path] = merged,
                      NEW t \in Shown(got), t \in files[got.folder], x.key = "hide" => t # x.to
               PROVE  t \in Shown(merged)
  <2> HIDE DEF merged
  <2>1. disk'[p] = disk[p] \/ (p = path /\ disk'[path] = merged)
    <3> HIDE DEF Configs
    <3> QED BY <1>2, <1>4 DEF Stored
  <2> QED BY <1>1, <1>3, <2>1 DEF KeepsList
<1>7. x.key = "seed" => got.on \in {Unset, x.to}
  BY <1>3, <1>5 DEF Curating
<1>8. x.key = "prune" => t \in x.to
  <2>1. x.key = "prune" => call[g].kind \in Lists
    BY <1>5 DEF Curating, Suits, Lists
  <2> QED BY <1>3, <1>5, <1>6, <2>1 DEF Curating
<1> HIDE DEF got, x
<1> QED BY <1>2, <1>6, <1>7, <1>8, PatchedList

\* Every other step leaves the files.
LEMMA CurationStep ==
    ASSUME Undisturbed, TInv, XInv, JInv, NInv, CInv, [Next]_vars
    PROVE  \A p \in Profiles : KeepsList(p)
<1> TAKE p \in Profiles
<1>1. disk' = disk => KeepsList(p)
  BY DEF KeepsList
<1>2. ASSUME NEW g \in Threads, Starts(g) \/ Fail(g) \/ Boot(g) PROVE disk' = disk
  BY <1>2 DEF Starts, Start, Fail, Boot
<1>3. ASSUME NEW g \in Threads, Step(g) PROVE KeepsList(p)
  <2>1. CASE Look(g) \/ Read(g) \/ KeepSwitched(g) \/ KeepNewer(g) \/ syncJournal(g) \/ Lock(g) \/ Unlock(g)
             \/ PersistCache(g) \/ SwitchPointer(g) \/ setConfigPath(g)
    BY <1>1, <2>1 DEF Look, Read, KeepSwitched, KeepNewer, syncJournal, Lock, Unlock, PersistCache, SwitchPointer, setConfigPath
  <2>2. CASE SeedEnabledTemplatesIfUnset(g) \/ ListTemplates(g) \/ Scoped(g) \/ CreateTemplate(g) \/ DeleteTemplate(g)
             \/ PersistSnapshot(g) \/ InvalidateConfigCache(g) \/ DeleteCheck(g)
    BY <1>1, <2>2 DEF SeedEnabledTemplatesIfUnset, ListTemplates, Scoped, CreateTemplate, DeleteTemplate,
       PersistSnapshot, InvalidateConfigCache, DeleteCheck
  <2>3. CASE migrateLegacyBoot(g) \/ RemoveLegacy(g) \/ resolveBootProfile(g) \/ Build(g)
    BY <1>1, <2>3 DEF migrateLegacyBoot, RemoveLegacy, resolveBootProfile, Build
  <2>4. CASE Keep(g) \/ ensureUserConfigFile(g) \/ ImportParse(g) \/ ImportFill(g) \/ DeleteFile(g) \/ ImportCopy(g)
    BY <2>4, RepairKeepsList
  <2>5. CASE PersistFile(g)
    BY <2>5, PersistKeepsList
  <2> QED BY <1>3, <2>1, <2>2, <2>3, <2>4, <2>5 DEF Step
<1>4. CASE Exit
  BY <1>1, <1>4 DEF Exit
<1>5. CASE UNCHANGED vars
  BY <1>1, <1>5 DEF vars
<1> QED BY <1>1, <1>2, <1>3, <1>4, <1>5 DEF Next

----------------------------------------------------------------------------
(* The theorems *)

\* The invariant holds, whatever calls are under way and wherever they stop.
THEOREM Inductive ==
    ASSUME Undisturbed
    PROVE  Spec => []IInv
<1>1. Init => IInv
  BY InitTX, InitAJN DEF IInv
<1>2. IInv /\ [Next]_vars => IInv'
  <2> SUFFICES ASSUME TInv, XInv, AInv, JInv, NInv, [Next]_vars PROVE IInv'
    BY DEF IInv
  <2> QED BY NextTX, NextAJN DEF IInv
<1> QED BY <1>1, <1>2, PTL DEF Spec

\* The types, of what the program keeps and of what a call carries.
THEOREM TypeCorrect ==
    ASSUME Undisturbed
    PROVE  Spec => []TypeInv
<1>1. IInv => TypeInv
  BY DEF IInv, TInv
<1> QED BY <1>1, Inductive, PTL

\* "so the manager stays loadable" (profiles.go:311), "a crash mid-migration leaves a
\* recoverable state" (boot.go:72): whatever stopped where, a program that runs has the
\* profile chosen last, and its file is one it can read.
THEOREM ChosenStays ==
    ASSUME Undisturbed
    PROVE  Spec => []ActiveStays
<1>1. IInv => ActiveStays
  BY DEF IInv, AInv
<1> QED BY <1>1, Inductive, PTL

\* syncJournal: when no call is under way the journal watches the folder of the profile
\* the program works with, however loads, updates, switches and restarts interleaved.
THEOREM JournalIsTold ==
    ASSUME Undisturbed
    PROVE  Spec => []JournalFollows
<1>1. ASSUME IInv PROVE JournalFollows
  <2>1. SUFFICES ASSUME Running, Idling, cached # None PROVE follows = cached.folder
    BY DEF JournalFollows
  <2>2. \A g \in Threads : ~ At(g, "sync")
    <3>1. \A g \in Threads : call[g] = Idle
      BY <1>1, <2>1 DEF IInv, TInv, Ready, Idling
    <3> QED BY <3>1, IdleCall DEF At
  <2> QED BY <1>1, <2>1, <2>2 DEF IInv, JInv, Running
<1> QED BY <1>1, Inductive, PTL

\* "so concurrent Update + SwitchProfile callers can't lose each other's writes"
\* (config_io.go:13): a file is what its updates, repairs and imports make of it, one
\* after another.
THEOREM WritesAreKept ==
    ASSUME Undisturbed
    PROVE  Spec => []NoLostUpdate
<1>1. ASSUME IInv PROVE NoLostUpdate
  <2>1. \A p \in Profiles : disk[p] = due[p] \/ (disk[p] = Malformed /\ due[p] = None)
    BY <1>1, Zenon DEF IInv, NInv, Accounted
  <2> QED BY <2>1, Zenon DEF NoLostUpdate
<1> QED BY <1>1, Inductive, PTL

\* The pruning of lists against the folder (enabled_templates.go:155) and the seed: an
\* enabled template that is there leaves the list only when the user hides that one, when
\* what the user shows and hides does not meet a switch.
THEOREM CurationIsKept ==
    ASSUME Undisturbed, "seed" \notin Exposed
    PROVE  Spec => CurationKept
<1>1. IInv /\ CInv /\ [Next]_vars => CInv'
  BY NextC DEF IInv
<1>2. IInv /\ CInv /\ [Next]_vars => [\A p \in Profiles : KeepsList(p)]_vars
  BY CurationStep DEF IInv
<1>3. Spec => []IInv
  BY Inductive
<1>4. Init => CInv
  BY InitC
<1>5. Spec => [][\A p \in Profiles : KeepsList(p)]_vars
  BY <1>1, <1>2, <1>3, <1>4, PTL DEF Spec
<1> QED BY <1>5 DEF CurationKept, KeepsList
=============================================================================
