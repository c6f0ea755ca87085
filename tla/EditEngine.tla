------------------------------ MODULE EditEngine ------------------------------
(***************************************************************************)
(* The edit engine, app/workers/edit_engine.py: a plan is staged in memory *)
(* edit by edit, written, and reverted when validation fails.              *)
(*                                                                         *)
(* Stages are kept by the name the plan uses, files are what a name        *)
(* resolves to: two names may be one file ("a.py" and "./a.py").  A text   *)
(* is the set of the edits that are in it, 0 for what was there before the *)
(* plan; a file that is not there has none.                                *)
(***************************************************************************)
EXTENDS Naturals, Sequences

CONSTANTS PathNames,    \* names a plan may use
          PathOf(_),    \* the file that a name resolves to
          Present,      \* the files of the worktree before the plan
          EditBound     \* bound: edits in a plan

ASSUME EditAssumption == EditBound \in Nat

Paths == {PathOf(n) : n \in PathNames}
NoFile == {}
Text == SUBSET (0..EditBound)

VARIABLES phase,     \* staging -> writing -> written -> reverting -> reverted; refused
          original,  \* name -> the text read before the first edit of that name
          staged,    \* name -> the text to write, NoFile for a deletion
          prepared,  \* the edits so far: action and name
          files,     \* the worktree: file -> text
          done       \* edits of prepared written, or reverted

editVars == <<phase, original, staged, prepared, files, done>>

Base == [f \in Paths |-> IF f \in Present THEN {0} ELSE NoFile]
NoTexts == [n \in {} |-> NoFile]

EditInit == /\ phase = "staging" /\ original = NoTexts /\ staged = NoTexts
            /\ prepared = <<>> /\ files = Base /\ done = 0

Exists(n) == files[PathOf(n)] # NoFile
With(map, n, text) == [m \in DOMAIN map \cup {n} |-> IF m = n THEN text ELSE map[m]]
This == Len(prepared) + 1
Staged(action, n) ==
  /\ prepared' = Append(prepared, [action |-> action, name |-> n])
  /\ UNCHANGED <<phase, files, done>>

-----------------------------------------------------------------------------
(* prepare_edits                                                           *)

StageCreate(n) ==
  /\ phase = "staging" /\ This <= EditBound /\ ~Exists(n)
  /\ staged' = With(staged, n, {This}) /\ UNCHANGED original
  /\ Staged("create", n)

StageDelete(n) ==
  /\ phase = "staging" /\ This <= EditBound /\ Exists(n)
  /\ original' = With(original, n, files[PathOf(n)])
  /\ staged' = With(staged, n, NoFile)
  /\ Staged("delete", n)

\* The text to change is the staged one, else the one on disk.
StageEdit(n) ==
  /\ phase = "staging" /\ This <= EditBound /\ Exists(n)
  /\ LET first == IF n \in DOMAIN original THEN original[n] ELSE files[PathOf(n)]
         current == IF n \in DOMAIN staged THEN staged[n] ELSE first
     IN  /\ current # NoFile
         /\ original' = With(original, n, first)
         /\ staged' = With(staged, n, current \cup {This})
  /\ Staged("edit", n)

\* A text that is not found, an escape, a file that is or is not there, an edit of
\* a name the plan has deleted: the whole plan is refused, nothing has been written.
Refuse == /\ phase = "staging" /\ phase' = "refused"
          /\ UNCHANGED <<original, staged, prepared, files, done>>

Accepted == /\ phase = "staging" /\ prepared # <<>> /\ phase' = "writing"
            /\ UNCHANGED <<original, staged, prepared, files, done>>

-----------------------------------------------------------------------------
(* apply_edits and restore_originals                                       *)

Write ==
  /\ phase = "writing"
  /\ LET e == prepared[done + 1]
     IN  files' = [files EXCEPT ![PathOf(e.name)] =
                     IF e.action # "delete" /\ staged[e.name] = NoFile THEN @
                     ELSE IF e.action = "delete" THEN NoFile ELSE staged[e.name]]
  /\ IF done + 1 = Len(prepared) THEN phase' = "written" /\ done' = 0
     ELSE done' = done + 1 /\ UNCHANGED phase
  /\ UNCHANGED <<original, staged, prepared>>

\* Validation has failed.
Revert == /\ phase = "written" /\ phase' = "reverting"
          /\ UNCHANGED <<original, staged, prepared, files, done>>

\* What restore_originals makes of the file of one edit.
RestoredText(e) ==
  IF e.action = "create" THEN NoFile
  ELSE IF e.name \in DOMAIN original THEN original[e.name] ELSE files[PathOf(e.name)]

\* Mutant: only what the plan edited is written back; what it deleted stays away.
RestoreEdited ==
  /\ phase = "reverting"
  /\ LET e == prepared[done + 1]
     IN  files' = [files EXCEPT ![PathOf(e.name)] =
                     IF e.action = "delete" THEN @ ELSE RestoredText(e)]
  /\ IF done + 1 = Len(prepared) THEN phase' = "reverted" /\ done' = 0
     ELSE done' = done + 1 /\ UNCHANGED phase
  /\ UNCHANGED <<original, staged, prepared>>

Restore ==
  /\ phase = "reverting"
  /\ LET e == prepared[done + 1]
     IN  files' = [files EXCEPT ![PathOf(e.name)] = RestoredText(e)]
  /\ IF done + 1 = Len(prepared) THEN phase' = "reverted" /\ done' = 0
     ELSE done' = done + 1 /\ UNCHANGED phase
  /\ UNCHANGED <<original, staged, prepared>>

EditNext == \/ \E n \in PathNames : StageCreate(n) \/ StageDelete(n) \/ StageEdit(n)
            \/ Refuse \/ Accepted \/ Write \/ Revert \/ Restore

EditSpec == EditInit /\ [][EditNext]_editVars

-----------------------------------------------------------------------------
(* Properties                                                              *)

\* Types, and the stages of a name that was not deleted by the plan are kept with
\* the text to go back to.
EditTypeOK ==
  /\ DOMAIN original \subseteq PathNames /\ DOMAIN staged \subseteq PathNames
  /\ files \in [Paths -> Text]
  /\ done \in 0..EditBound
  /\ \A i \in DOMAIN prepared :
       prepared[i].action # "create" => prepared[i].name \in DOMAIN original

\* A refused plan has written nothing; a plan that was reverted has left nothing
\* behind, whatever it created, deleted and edited, under however many names
\* (restore_originals, edit_engine.py:338-376: "byte-for-byte").
RestoreIsExact == phase \in {"refused", "reverted"} => files = Base

\* Every edit of a plan that has been written is in the file it names, or the file
\* is gone by a deletion or made again: false when two names are one file.
NoEditLost ==
  phase = "written" =>
    \A i \in DOMAIN prepared :
      prepared[i].action = "edit" =>
        \/ files[PathOf(prepared[i].name)] = NoFile
        \/ i \in files[PathOf(prepared[i].name)]

=============================================================================
