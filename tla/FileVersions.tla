---------------------------- MODULE FileVersions ---------------------------
(***************************************************************************)
(* What buffers promise about their files, whatever histories, sessions    *)
(* and settings are made of: the file changes only by a save or by another *)
(* program, a save writes the buffer's content, and a buffer reads as      *)
(* saved only over the content of its file.  Modules Buffer and            *)
(* EditSession implement it.                                               *)
(***************************************************************************)
CONSTANTS File, Content

VARIABLES
  here,    \* the content each file's buffer holds
  clean,   \* the buffers that read as saved
  disk,    \* the content of each file
  foreign  \* the files another program wrote since the buffer last did

vars == <<here, clean, disk, foreign>>

Init ==
  /\ here \in [File -> Content]
  /\ clean = File
  /\ disk = here
  /\ foreign = {}

(* The buffer changes, by an edit, a walk or a setting, or only what is    *)
(* known of it does.  It may come to read as saved only where it is.       *)
Change(f) ==
  /\ f \in clean' /\ f \notin foreign => here'[f] = disk[f]
  /\ disk'[f] = disk[f]
  /\ f \in foreign' <=> f \in foreign

Save(f) ==
  /\ disk'[f] = here[f]
  /\ here'[f] = here[f]
  /\ f \in clean'
  /\ f \notin foreign'

(* The buffer takes what the file holds.                                   *)
Read(f) ==
  /\ here'[f] = disk[f]
  /\ disk'[f] = disk[f]
  /\ f \in clean'
  /\ f \notin foreign'

OtherProgramWrites(f) ==
  /\ here'[f] = here[f]
  /\ f \in clean' <=> f \in clean
  /\ f \in foreign'

Next ==
  /\ here' \in [File -> Content]
  /\ disk' \in [File -> Content]
  /\ \A f \in File : Change(f) \/ Save(f) \/ Read(f) \/ OtherProgramWrites(f)

Spec == Init /\ [][Next]_vars

-----------------------------------------------------------------------------
(* What follows: a buffer that reads as saved holds its file's content,    *)
(* unless another program wrote it.                                        *)
CleanIsSaved == \A f \in File : f \in clean /\ f \notin foreign => here[f] = disk[f]

=============================================================================
