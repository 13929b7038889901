------------------------------ MODULE NoteKeeper ------------------------------
(***************************************************************************)
(* What a checkpointed memory promises of the notes an agent takes: while  *)
(* the process runs no note is lost, and a process that resumes has every  *)
(* note taken up to the last save.                                         *)
(***************************************************************************)
CONSTANT Notes

VARIABLES live,     \* the notes of the running process
          saved,    \* the notes of the checkpoint
          up        \* a process is running

Init == live = {} /\ saved = {} /\ up = FALSE

Start(resume) ==
  /\ ~up
  /\ up' = TRUE
  /\ live' = IF resume THEN saved ELSE {}
  /\ UNCHANGED saved

Take(n) == up /\ live' = live \cup {n} /\ UNCHANGED <<saved, up>>

Save == up /\ saved' = live /\ UNCHANGED <<live, up>>

Stop == up /\ up' = FALSE /\ live' = {} /\ UNCHANGED saved

Next ==
  \/ \E resume \in BOOLEAN : Start(resume)
  \/ \E n \in Notes : Take(n)
  \/ Save
  \/ Stop

Spec == Init /\ [][Next]_<<live, saved, up>>
===============================================================================
