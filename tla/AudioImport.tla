----------------------------- MODULE AudioImport -----------------------------
(***************************************************************************)
(* package/nfsmw/prepare_audio.py: before each launch the sound files of   *)
(* the OBB are unpacked beside it, unless a marker file says they already  *)
(* are.  The launcher plays without music when the script fails.  Between  *)
(* any two steps the device may be switched off, a step may fail with an   *)
(* I/O error, and between launches the user may change the OBB or delete   *)
(* the sounds.                                                             *)
(*                                                                         *)
(* A file is the OBB it was unpacked from, or Absent; an OBB is what the   *)
(* script compares, its size and modification time.  File operations take  *)
(* effect in order and rename is atomic.                                   *)
(***************************************************************************)
EXTENDS Naturals

CONSTANTS Files,        (* names under published/sounds/                   *)
          Required,     (* REQUIRED: the names the script looks for        *)
          Obbs,         (* OBB files the user may install, one at a time  *)
          NoFile,       (* no file                                         *)
          Torn,         (* a file that was opened and not written to its   *)
                        (* end                                             *)
          MaxMishaps    (* power failures, I/O errors, deletions           *)

ASSUME AudioAssumption ==
    /\ Required \subseteq Files
    /\ Required # {}
    /\ NoFile \notin Obbs
    /\ Torn \notin Obbs \cup {NoFile}
    /\ MaxMishaps \in Nat

VARIABLES obb,     (* the OBB in gamefiles                                 *)
          target,  (* target[f]: published/sounds as the game reads it     *)
          stage,   (* stage[f]: .nfsmw-audio-stage                         *)
          source,  (* .nfsmw-audio-source: an OBB, NoFile, or Torn         *)
          step,    (* where the script is                                  *)
          music,   (* how the last launch went: "none", "on" or "silent"   *)
          import,  (* history: "whole", "cut" from the first change of the *)
                   (* target to the new marker, "trusted" when the user    *)
                   (* puts back the OBB whose marker a cut import left     *)
          lost,    (* history: sounds the user deleted since the last      *)
                   (* import brought them                                  *)
          mishaps  (* faults so far                                        *)

importVars == <<obb, target, stage, source, step, music, import, lost, mishaps>>
sounds == <<target, stage, source>>

Empty == [f \in Files |-> NoFile]

ImportTypeOK ==
    /\ obb \in Obbs
    /\ target \in [Files -> Obbs \cup {NoFile}]
    /\ stage \in [Files -> Obbs \cup {NoFile, Torn}]
    /\ source \in Obbs \cup {NoFile, Torn}
    /\ step \in {"idle", "check", "clean", "extract", "remove", "rename",
               "truncate", "write", "finally", "failing"}
    /\ music \in {"none", "on", "silent"}
    /\ import \in {"whole", "cut", "trusted"}
    /\ lost \in SUBSET Files
    /\ mishaps \in 0..MaxMishaps

\* A fresh installation: an OBB and nothing beside it.
ImportInit ==
    /\ obb \in Obbs
    /\ target = Empty
    /\ stage = Empty
    /\ source = NoFile
    /\ step = "idle"
    /\ music = "none"
    /\ import = "whole"
    /\ lost = {}
    /\ mishaps = 0

\* Every file of the OBB is in place, as this OBB has it.
Complete(dir) == \A f \in Files : dir[f] = obb

HasRequired == \A f \in Required : target[f] # NoFile
-----------------------------------------------------------------------------
(* The script.                                                             *)

StartImport ==
    /\ step = "idle"
    /\ step' = "check"
    /\ music' = "none"
    /\ UNCHANGED <<obb, sounds, import, lost, mishaps>>

\* Mutant: only the files are looked at.
CheckFilesOnly ==
    /\ step = "check"
    /\ IF HasRequired
       THEN step' = "idle" /\ music' = "on"
       ELSE step' = "clean" /\ UNCHANGED music
    /\ UNCHANGED <<obb, sounds, import, lost, mishaps>>

\* The marker names this OBB and the required files exist: nothing to do.
Check ==
    /\ step = "check"
    /\ IF source = obb /\ HasRequired
       THEN step' = "idle" /\ music' = "on"
       ELSE step' = "clean" /\ UNCHANGED music
    /\ UNCHANGED <<obb, sounds, import, lost, mishaps>>

\* rmtree(stage): what an interrupted run left is deleted.
Clean ==
    /\ step = "clean"
    /\ stage' = Empty
    /\ step' = "extract"
    /\ UNCHANGED <<obb, target, source, music, import, lost, mishaps>>

\* rmtree ignores an error: old files stay and are written over.
CleanFails ==
    /\ step = "clean"
    /\ mishaps < MaxMishaps
    /\ mishaps' = mishaps + 1
    /\ step' = "extract"
    /\ UNCHANGED <<obb, sounds, music, import, lost>>

\* A member of the archive is copied to the stage; opening it empties it.
Open(f) ==
    /\ step = "extract"
    /\ stage[f] \notin {obb, Torn}
    /\ stage' = [stage EXCEPT ![f] = Torn]
    /\ UNCHANGED <<obb, target, source, step, music, import, lost, mishaps>>

Copy(f) ==
    /\ step = "extract"
    /\ stage[f] = Torn
    /\ stage' = [stage EXCEPT ![f] = obb]
    /\ UNCHANGED <<obb, target, source, step, music, import, lost, mishaps>>

Extracted ==
    /\ step = "extract"
    /\ Complete(stage)
    /\ step' = "remove"
    /\ UNCHANGED <<obb, sounds, music, import, lost, mishaps>>

\* The target changes, and the marker is still the old one.
CutsImport == import' = IF import = "whole" THEN "cut" ELSE import

\* rmtree(target) deletes one file.
Remove(f) ==
    /\ step = "remove"
    /\ target[f] # NoFile
    /\ target' = [target EXCEPT ![f] = NoFile]
    /\ CutsImport
    /\ UNCHANGED <<obb, stage, source, step, music, lost, mishaps>>

Removed ==
    /\ step = "remove"
    /\ target = Empty
    /\ step' = "rename"
    /\ UNCHANGED <<obb, sounds, music, import, lost, mishaps>>

\* rmtree ignores an error and leaves files behind.
RemoveFails ==
    /\ step = "remove"
    /\ target # Empty
    /\ mishaps < MaxMishaps
    /\ mishaps' = mishaps + 1
    /\ step' = "rename"
    /\ UNCHANGED <<obb, sounds, music, import, lost>>

\* Mutant: the rename is tried again until it works.
RenameRetrying ==
    /\ step = "rename"
    /\ IF target = Empty
       THEN /\ target' = stage
            /\ stage' = Empty
            /\ step' = "truncate"
            /\ CutsImport
            /\ lost' = {}
       ELSE UNCHANGED <<target, stage, step, import, lost>>
    /\ UNCHANGED <<obb, source, music, mishaps>>

\* os.replace: the stage becomes the target; a target that is not empty
\* cannot be replaced.
Rename ==
    /\ step = "rename"
    /\ IF target = Empty
       THEN /\ target' = stage
            /\ stage' = Empty
            /\ step' = "truncate"
            /\ CutsImport
            /\ lost' = {}
       ELSE /\ step' = "failing"
            /\ UNCHANGED <<target, stage, import, lost>>
    /\ UNCHANGED <<obb, source, music, mishaps>>

\* marker.write_text opens the file, which empties it, and writes.
Truncate ==
    /\ step = "truncate"
    /\ source' = Torn
    /\ step' = "write"
    /\ UNCHANGED <<obb, target, stage, music, import, lost, mishaps>>

Write ==
    /\ step = "write"
    /\ source' = obb
    /\ step' = "finally"
    /\ import' = "whole"
    /\ UNCHANGED <<obb, target, stage, music, lost, mishaps>>

\* finally: rmtree(stage).  The launcher turns the music on, or off after an
\* exception.
Finally ==
    /\ step \in {"finally", "failing"}
    /\ stage' = Empty
    /\ music' = IF step = "finally" THEN "on" ELSE "silent"
    /\ step' = "idle"
    /\ UNCHANGED <<obb, target, source, import, lost, mishaps>>
-----------------------------------------------------------------------------
(* The environment.                                                        *)

\* A step that writes raises an exception: the disk is full or broken, or
\* the archive cannot be read.
StepRaises ==
    /\ step \in {"extract", "rename", "truncate", "write"}
    /\ mishaps < MaxMishaps
    /\ mishaps' = mishaps + 1
    /\ step' = "failing"
    /\ UNCHANGED <<obb, sounds, music, import, lost>>

\* The device is switched off: no finally clause, no launcher.
PowerLost ==
    /\ step # "idle"
    /\ mishaps < MaxMishaps
    /\ mishaps' = mishaps + 1
    /\ step' = "idle"
    /\ UNCHANGED <<obb, sounds, music, import, lost>>

\* The user installs another OBB, a new one or one that was there before.
ChangeObb(o) ==
    /\ step = "idle"
    /\ o # obb
    /\ obb' = o
    /\ music' = "none"
    /\ import' = IF import = "cut" /\ source = o THEN "trusted" ELSE import
    /\ UNCHANGED <<sounds, step, lost, mishaps>>

\* The user, or a broken card, takes some of the unpacked sounds away.
DeleteSounds(gone) ==
    /\ step = "idle"
    /\ gone # {} /\ \A f \in gone : target[f] # NoFile
    /\ mishaps < MaxMishaps
    /\ mishaps' = mishaps + 1
    /\ target' = [f \in Files |-> IF f \in gone THEN NoFile ELSE target[f]]
    /\ lost' = lost \cup gone
    /\ music' = "none"
    /\ UNCHANGED <<obb, stage, source, step, import>>

Script ==
    \/ Check
    \/ Clean
    \/ \E f \in Files : Open(f) \/ Copy(f) \/ Remove(f)
    \/ Extracted
    \/ Removed
    \/ Rename
    \/ Truncate
    \/ Write
    \/ Finally

ImportNext ==
    \/ StartImport
    \/ Script
    \/ CleanFails
    \/ RemoveFails
    \/ StepRaises
    \/ PowerLost
    \/ \E o \in Obbs : ChangeObb(o)
    \/ \E gone \in SUBSET Files : DeleteSounds(gone)

ImportSpec == ImportInit /\ [][ImportNext]_importVars

\* The script runs while the device is on, and the user keeps launching.
FairImport == ImportSpec /\ WF_importVars(Script) /\ WF_importVars(StartImport)
-----------------------------------------------------------------------------
\* A launch that plays music has every sound of the OBB that is installed:
\* whatever an earlier run left when the power went or a step failed is
\* found and unpacked again (prepare_audio.py:22-23, 39-41).  The marker is
\* believed wrongly in two ways: an import for another OBB was cut short and
\* the user then put back the OBB the old marker names; or a sound that is
\* not REQUIRED was taken away, which the script does not look for.
MusicIsComplete ==
    music = "on" /\ import # "trusted" =>
        \A f \in Files : target[f] = obb \/ f \in lost \ Required

\* However often the OBB changes, once the faults have stopped the user gets
\* to play with music again and again: no leftover blocks the import.
MusicReturns == []<>(music = "on")
=============================================================================
