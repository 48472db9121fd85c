---- MODULE SoundLibrary ----
(***************************************************************************)
(* The sound library (audio/sounds.rs): list_sounds walks the two sound    *)
(* directories entry by entry while an out-of-band tool adds and removes   *)
(* files; resolve_path looks one id up when an alarm is armed.             *)
(*                                                                         *)
(* The file system is external.  read_dir yields every entry that stays in *)
(* the directory during the walk, and may or may not yield one that comes  *)
(* or goes.                                                                *)
(***************************************************************************)
EXTENDS Naturals

CONSTANTS Stems,        \* file names without extension
          MaxEdits      \* bound: changes to the directories

ASSUME EditsAssumption == MaxEdits \in Nat

VARIABLES entry,        \* what each path of the directories is
          readable,     \* the directories that read_dir can open
          pc,           \* where list_sounds is
          dir,          \* the directory it is at
          yielded,      \* entries read_dir has yielded of it
          buffer,       \* entries that were in it when it was opened
          sounds,       \* ids collected so far
          edits,        \* changes to the directories so far
          touched,      \* paths that changed since the listing began
          seen          \* files that were there at some time since it began

fsVars == <<entry, readable, edits>>

vars == <<fsVars, pc, dir, yielded, buffer, sounds, touched, seen>>

SoundSource == {"builtin", "custom"}

\* A stem of "" makes ".wav", a file without extension for Path::extension.
Paths == [source : SoundSource, stem : Stems, ext : {"wav", "flac", "txt"}]

\* "<source>:<stem>"
Id(p) == [source |-> p.source, stem |-> p.stem]

\* A dangling link is an entry of its directory, but has no metadata.
Kinds == {"none", "file", "dangling"}

Entries(d) == {p \in Paths : p.source = d /\ entry[p] # "none"}

Files == {p \in Paths : entry[p] = "file"}

\* Mutant of FromPath: every file with a stem counts.
FromPathAny(p) == p.stem # ""

\* SoundFormat::from_path(p).is_some()
FromPath(p) == p.stem # "" /\ p.ext \in {"wav", "flac"}

\* resolve_in: <stem>.wav or <stem>.flac exists.
ResolveIn(d, stem) ==
  \E p \in Files : p.source = d /\ p.stem = stem /\ p.ext \in {"wav", "flac"}

\* resolve_path(id).is_ok(): the prefix of the id selects the directory.
Resolves(id) == ResolveIn(id.source, id.stem)

Init ==
  /\ \E S \in SUBSET {p \in Paths : p.ext = "wav"} :
       entry = [p \in Paths |-> IF p \in S THEN "file" ELSE "none"]
  /\ readable = SoundSource
  /\ pc = "idle" /\ dir = "builtin" /\ yielded = {} /\ buffer = {} /\ sounds = {}
  /\ edits = 0 /\ touched = {} /\ seen = {}

----
(* list_sounds and collect *)

ListSounds ==
  /\ pc = "idle"
  /\ pc' = "open"
  /\ dir' = "builtin"
  /\ sounds' = {}
  /\ touched' = {}
  /\ seen' = Files
  /\ UNCHANGED <<fsVars, yielded, buffer>>

\* Mutant of OpenDir: the second directory replaces what the first one gave.
OpenDirAnew ==
  /\ pc = "open"
  /\ dir \in readable
  /\ pc' = "walk"
  /\ yielded' = {}
  /\ buffer' = Entries(dir)
  /\ sounds' = {}
  /\ UNCHANGED <<fsVars, dir, touched, seen>>

OpenDir ==
  /\ pc = "open"
  /\ dir \in readable
  /\ pc' = "walk"
  /\ yielded' = {}
  /\ buffer' = Entries(dir)
  /\ UNCHANGED <<fsVars, dir, sounds, touched, seen>>

\* A directory that cannot be opened counts as empty.
OpenFails ==
  /\ pc = "open"
  /\ dir \notin readable
  /\ pc' = "end"
  /\ UNCHANGED <<fsVars, dir, yielded, buffer, sounds, touched, seen>>

\* read_dir yields p, which was there when the directory was opened or is now.
Yield(p) ==
  /\ pc = "walk"
  /\ p \in (buffer \cup Entries(dir)) \ yielded
  /\ yielded' = yielded \cup {p}
  /\ UNCHANGED buffer

Skip(p) ==
  /\ Yield(p)
  /\ ~FromPath(p)
  /\ UNCHANGED <<fsVars, pc, dir, sounds, touched, seen>>

\* Mutant of Collect: the id is listed without a look at the file.
CollectUnseen(p) ==
  /\ Yield(p)
  /\ FromPath(p)
  /\ sounds' = sounds \cup {Id(p)}
  /\ UNCHANGED <<fsVars, pc, dir, touched, seen>>

Collect(p) ==
  /\ Yield(p)
  /\ FromPath(p)
  /\ entry[p] = "file"
  /\ sounds' = sounds \cup {Id(p)}
  /\ UNCHANGED <<fsVars, pc, dir, touched, seen>>

\* metadata() fails, and with it the whole listing.
MetadataFails(p) ==
  /\ Yield(p)
  /\ FromPath(p)
  /\ entry[p] # "file"
  /\ pc' = "failed"
  /\ UNCHANGED <<fsVars, dir, sounds, touched, seen>>

\* The next entry cannot be read.
EntryFails ==
  /\ pc = "walk"
  /\ pc' = "failed"
  /\ UNCHANGED <<fsVars, dir, yielded, buffer, sounds, touched, seen>>

\* The end of the directory: what came or went need not have been yielded.
EndOfDir ==
  /\ pc = "walk"
  /\ buffer \subseteq yielded \cup touched
  /\ pc' = "end"
  /\ UNCHANGED <<fsVars, dir, yielded, buffer, sounds, touched, seen>>

NextDir ==
  /\ pc = "end"
  /\ \/ dir = "builtin" /\ dir' = "custom" /\ pc' = "open"
     \/ dir = "custom" /\ pc' = "done" /\ UNCHANGED dir
  /\ UNCHANGED <<fsVars, yielded, buffer, sounds, touched, seen>>

\* The reply is used up.
Forget ==
  /\ pc \in {"done", "failed"}
  /\ pc' = "idle"
  /\ dir' = "builtin"
  /\ yielded' = {} /\ buffer' = {} /\ sounds' = {}
  /\ touched' = {} /\ seen' = {}
  /\ UNCHANGED fsVars

----
(* The file system *)

\* Something else than this daemon adds, removes or breaks an entry.
Edit(p, k) ==
  /\ edits < MaxEdits
  /\ entry[p] # k
  /\ entry' = [entry EXCEPT ![p] = k]
  /\ edits' = edits + 1
  /\ touched' = touched \cup {p}
  /\ seen' = IF k = "file" THEN seen \cup {p} ELSE seen
  /\ UNCHANGED <<readable, pc, dir, yielded, buffer, sounds>>

Chmod(d) ==
  /\ edits < MaxEdits
  /\ readable' = IF d \in readable THEN readable \ {d} ELSE readable \cup {d}
  /\ edits' = edits + 1
  /\ touched' = touched \cup {p \in Paths : p.source = d}
  /\ UNCHANGED <<entry, pc, dir, yielded, buffer, sounds, seen>>

Next ==
  \/ ListSounds \/ OpenDir \/ OpenFails \/ EntryFails \/ EndOfDir \/ NextDir \/ Forget
  \/ \E p \in Paths : Skip(p) \/ Collect(p) \/ MetadataFails(p)
  \/ \E p \in Paths, k \in Kinds : Edit(p, k)
  \/ \E d \in SoundSource : Chmod(d)

Spec == Init /\ [][Next]_vars

----
\* What is listed can be armed: list_sounds filters by extension and resolve_path
\* looks for extensions, and the two agree on every id whose files nobody touched
\* ("all installed sound IDs you can use with Arm").
ListedCanBeArmed ==
  pc = "done" =>
    \A id \in sounds : Resolves(id) \/ \E p \in touched : Id(p) = id

\* A listing is complete for the directories that can be read: a sound of theirs
\* that was there all the time is in it, whatever came and went meanwhile in
\* either directory and in whatever order the entries were yielded.  A directory
\* that cannot be opened is listed as if it were empty (see ListingIsWhole).
SteadyIsListed ==
  pc = "done" =>
    \A p \in Files \ touched :
      (FromPath(p) /\ p.source \in readable) => Id(p) \in sounds

\* A listing that succeeds is complete: it has every sound that was there all the
\* time, or else the call fails, as the interface says of a directory that cannot
\* be read.
ListingIsWhole ==
  pc = "done" =>
    \A p \in Files \ touched : FromPath(p) => Id(p) \in sounds

\* Nothing is listed that was not a file at some time during the listing: neither
\* entries that had gone before their turn nor dangling links.
NothingInvented == \A id \in sounds : \E p \in seen : Id(p) = id
====
