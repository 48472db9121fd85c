---- MODULE SoundLibrary_proofs ----
(***************************************************************************)
(* Proofs about SoundLibrary for any file names and any number of changes  *)
(* to the directories while they are walked.                               *)
(***************************************************************************)
EXTENDS SoundLibrary, TLAPS

Types ==
  /\ entry \in [Paths -> Kinds]
  /\ dir \in SoundSource
  /\ buffer \subseteq Paths
  /\ pc \in {"idle", "open", "walk", "end", "done", "failed"}

\* Before a listing there is nothing; during it, what is there was seen.
SeenIsTracked ==
  IF pc = "idle" THEN sounds = {} ELSE Files \subseteq seen

\* ListedCanBeArmed with its reason: an id is listed on account of a path of the
\* right extension, which is still a file unless someone touched it.
ListedHasFile ==
  \A id \in sounds :
    \E p \in Paths : Id(p) = id /\ FromPath(p) /\ p \in Files \cup touched

\* A file that a listing must not miss.
Steady(p) == p \in Files \ touched /\ FromPath(p) /\ p.source \in readable

\* The walk has finished with the directory of p.
Passed(p) ==
  \/ pc = "done"
  \/ pc = "end" /\ dir = p.source
  \/ pc \in {"open", "walk", "end"} /\ dir = "custom" /\ p.source = "builtin"

\* SteadyIsListed for an unfinished walk: steady files of the directory at hand are
\* still to be yielded, or listed; those of a directory that is done are listed.
SteadyOnItsWay ==
  \A p \in Paths : Steady(p) =>
    /\ (pc = "walk" /\ dir = p.source) =>
         p \in buffer /\ (p \in yielded => Id(p) \in sounds)
    /\ Passed(p) => Id(p) \in sounds

IInv == Types /\ SeenIsTracked /\ NothingInvented /\ ListedHasFile /\ SteadyOnItsWay

\* No listing is under way at the start.
LEMMA InitInv == Init => IInv
BY DEF Init, IInv, Types, SeenIsTracked, NothingInvented, ListedHasFile, SteadyOnItsWay,
       Passed, SoundSource, Kinds

\* A listing begins with nothing collected.
LEMMA ListSoundsInv ==
  ASSUME IInv, ListSounds
  PROVE  IInv'
BY DEF IInv, ListSounds, fsVars, Types, SeenIsTracked, NothingInvented, ListedHasFile,
       SteadyOnItsWay, Steady, Passed, Files, SoundSource

\* A directory is opened: its steady files are in the buffer.
LEMMA OpenDirInv ==
  ASSUME IInv, OpenDir
  PROVE  IInv'
<1> USE DEF IInv
<1>0. /\ pc = "open" /\ pc' = "walk" /\ yielded' = {} /\ buffer' = Entries(dir)
      /\ UNCHANGED <<entry, readable, dir, sounds, touched, seen>>
  BY DEF OpenDir, fsVars
<1>1. Files' = Files /\ \A p : Steady(p)' <=> Steady(p)
  BY <1>0 DEF Files, Steady
<1>2. Types' /\ SeenIsTracked' /\ NothingInvented' /\ ListedHasFile'
  BY <1>0, <1>1 DEF Types, SeenIsTracked, NothingInvented, ListedHasFile, Entries
<1>3. SteadyOnItsWay'
  <2> SUFFICES ASSUME NEW p \in Paths, Steady(p)
      PROVE  /\ dir = p.source => p \in Entries(dir)
             /\ Passed(p)' => Id(p) \in sounds
    BY <1>0, <1>1 DEF SteadyOnItsWay
  <2>1. dir = p.source => p \in Entries(dir)
    BY DEF Steady, Files, Entries
  <2>2. Passed(p)' => Passed(p)
    BY <1>0 DEF Passed
  <2> QED
    BY <2>1, <2>2 DEF SteadyOnItsWay
<1> QED
  BY <1>2, <1>3

\* The steps after which nothing more is claimed of any file than before.
LEMMA WalkInv ==
  ASSUME IInv, OpenFails \/ EntryFails \/ EndOfDir \/ NextDir
  PROVE  IInv'
<1> USE DEF IInv
<1>0. UNCHANGED <<entry, readable, edits, yielded, buffer, sounds, touched, seen>>
  BY DEF OpenFails, EntryFails, EndOfDir, NextDir, fsVars
<1>1. Files' = Files /\ \A p : Steady(p)' <=> Steady(p)
  BY <1>0 DEF Files, Steady
<1>2. Types' /\ SeenIsTracked' /\ NothingInvented' /\ ListedHasFile'
  BY <1>0, <1>1
  DEF OpenFails, EntryFails, EndOfDir, NextDir, Types, SeenIsTracked, NothingInvented,
      ListedHasFile, SoundSource
<1>3. SteadyOnItsWay'
  <2> SUFFICES ASSUME NEW p \in Paths, Steady(p), Passed(p)'
      PROVE  Id(p) \in sounds
    BY <1>0, <1>1 DEF SteadyOnItsWay, OpenFails, EntryFails, EndOfDir, NextDir
  <2>1. CASE OpenFails
    BY <2>1 DEF OpenFails, Passed, Steady, SteadyOnItsWay
  <2>2. CASE EntryFails
    BY <2>2 DEF EntryFails, Passed
  <2>3. CASE EndOfDir
    BY <2>3 DEF EndOfDir, Passed, Steady, SteadyOnItsWay
  <2>4. CASE NextDir
    <3>1. p.source \in SoundSource
      BY DEF Paths
    <3> QED
      BY <2>4, <3>1 DEF NextDir, Passed, SteadyOnItsWay, SoundSource
  <2> QED
    BY <2>1, <2>2, <2>3, <2>4
<1> QED
  BY <1>2, <1>3

\* An entry is looked at: a steady file passes every test.
LEMMA YieldInv ==
  ASSUME IInv, NEW q \in Paths, Skip(q) \/ Collect(q) \/ MetadataFails(q)
  PROVE  IInv'
<1> USE DEF IInv
<1>0. /\ pc = "walk" /\ yielded' = yielded \cup {q}
      /\ UNCHANGED <<entry, readable, dir, buffer, touched, seen>>
  BY DEF Skip, Collect, MetadataFails, Yield, fsVars
<1>1. Files' = Files /\ \A p : Steady(p)' <=> Steady(p)
  BY <1>0 DEF Files, Steady
<1>2. \/ ~FromPath(q) /\ UNCHANGED <<pc, sounds>>
      \/ FromPath(q) /\ q \in Files /\ sounds' = sounds \cup {Id(q)} /\ UNCHANGED pc
      \/ pc' = "failed" /\ UNCHANGED sounds
  BY DEF Skip, Collect, MetadataFails, Files
<1>3. Types' /\ SeenIsTracked' /\ NothingInvented' /\ ListedHasFile'
  BY <1>0, <1>1, <1>2 DEF Types, SeenIsTracked, NothingInvented, ListedHasFile
<1>4. SteadyOnItsWay'
  <2> SUFFICES ASSUME NEW p \in Paths, Steady(p)
      PROVE  /\ (pc' = "walk" /\ dir = p.source) =>
                  p \in buffer /\ (p \in yielded' => Id(p) \in sounds')
             /\ Passed(p)' => Id(p) \in sounds'
    BY <1>0, <1>1 DEF SteadyOnItsWay
  <2>1. Passed(p)' => Passed(p)
    BY <1>0, <1>2 DEF Passed
  <2>2. FromPath(p)
    BY DEF Steady
  <2> QED
    BY <1>0, <1>2, <2>1, <2>2 DEF SteadyOnItsWay
<1> QED
  BY <1>3, <1>4

\* The reply is used up.
LEMMA ForgetInv ==
  ASSUME IInv, Forget
  PROVE  IInv'
BY DEF IInv, Forget, fsVars, Types, SeenIsTracked, NothingInvented, ListedHasFile,
       SteadyOnItsWay, Passed, SoundSource

\* A change to the directories: what it touches is steady no more.
LEMMA EditInv ==
  ASSUME IInv, NEW q \in Paths, NEW k \in Kinds, Edit(q, k)
  PROVE  IInv'
<1> USE DEF IInv
<1>0. /\ entry' = [entry EXCEPT ![q] = k] /\ touched' = touched \cup {q}
      /\ seen' = (IF k = "file" THEN seen \cup {q} ELSE seen)
      /\ UNCHANGED <<readable, pc, dir, yielded, buffer, sounds>>
  BY DEF Edit
<1>1. Types'
  BY <1>0 DEF Types
<1>2. \A p \in Paths \ {q} : p \in Files' <=> p \in Files
  BY <1>0 DEF Types, Files
<1>3. q \in Files' => q \in seen'
  BY <1>0 DEF Types, Files
<1>4. Files' \subseteq Paths /\ seen \subseteq seen'
  BY <1>0 DEF Files
<1>5. SeenIsTracked' /\ NothingInvented'
  BY <1>0, <1>2, <1>3, <1>4 DEF SeenIsTracked, NothingInvented
<1>6. ListedHasFile'
  BY <1>0, <1>2 DEF ListedHasFile
<1>7. \A p \in Paths : Steady(p)' => Steady(p)
  BY <1>0, <1>2 DEF Steady
<1>8. SteadyOnItsWay'
  BY <1>0, <1>7 DEF SteadyOnItsWay, Passed
<1> QED
  BY <1>1, <1>5, <1>6, <1>8

\* A directory that becomes readable was touched as a whole.
LEMMA ChmodInv ==
  ASSUME IInv, NEW d \in SoundSource, Chmod(d)
  PROVE  IInv'
<1> USE DEF IInv
<1>0. /\ readable' = IF d \in readable THEN readable \ {d} ELSE readable \cup {d}
      /\ touched' = touched \cup {p \in Paths : p.source = d}
      /\ UNCHANGED <<entry, pc, dir, yielded, buffer, sounds, seen>>
  BY DEF Chmod
<1>1. Files' = Files
  BY <1>0 DEF Files
<1>2. Types' /\ SeenIsTracked' /\ NothingInvented' /\ ListedHasFile'
  BY <1>0, <1>1 DEF Types, SeenIsTracked, NothingInvented, ListedHasFile
<1>3. \A p \in Paths : Steady(p)' => Steady(p)
  BY <1>0, <1>1 DEF Steady
<1>4. SteadyOnItsWay'
  BY <1>0, <1>3 DEF SteadyOnItsWay, Passed
<1> QED
  BY <1>2, <1>4

\* Every step keeps the invariant.
LEMMA NextInv == IInv /\ [Next]_vars => IInv'
<1> SUFFICES ASSUME IInv, [Next]_vars PROVE IInv'
  OBVIOUS
<1>1. CASE UNCHANGED vars
  BY <1>1 DEF vars, fsVars, IInv, Types, SeenIsTracked, NothingInvented, ListedHasFile,
              SteadyOnItsWay, Steady, Passed, Files
<1> QED
  BY <1>1, ListSoundsInv, OpenDirInv, WalkInv, YieldInv, ForgetInv, EditInv, ChmodInv DEF Next

----
\* What list_sounds returns, resolve_path accepts, unless its files were touched.
THEOREM WhatIsListedCanBeArmed == Spec => []ListedCanBeArmed
<1>1. IInv => ListedCanBeArmed
  <2> SUFFICES ASSUME ListedHasFile, NEW id \in sounds
      PROVE  Resolves(id) \/ \E p \in touched : Id(p) = id
    BY DEF IInv, ListedCanBeArmed
  <2>1. PICK p \in Paths : Id(p) = id /\ FromPath(p) /\ p \in Files \cup touched
    BY DEF ListedHasFile
  <2>2. id.source = p.source /\ id.stem = p.stem
    BY <2>1 DEF Id
  <2> QED
    BY <2>1, <2>2 DEF Resolves, ResolveIn, FromPath
<1> QED
  BY <1>1, InitInv, NextInv, PTL DEF Spec

\* A sound that was in a readable directory during the whole listing is listed.
THEOREM ReadableIsListed == Spec => []SteadyIsListed
<1>1. IInv => SteadyIsListed
  BY DEF IInv, SteadyOnItsWay, Steady, Passed, SteadyIsListed, Files
<1> QED
  BY <1>1, InitInv, NextInv, PTL DEF Spec

\* Every id that was listed was a file at some time during the listing.
THEOREM ListingInventsNothing == Spec => []NothingInvented
<1>1. IInv => NothingInvented
  BY DEF IInv
<1> QED
  BY <1>1, InitInv, NextInv, PTL DEF Spec
====
