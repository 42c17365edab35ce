------------------------------- MODULE Build -------------------------------
(***************************************************************************)
(* What a linker is for, whatever its passes, buckets and chains: it turns *)
(* its inputs, one after the other, into files that load as programs in    *)
(* which every reference means what it should, or says that it could not.  *)
(***************************************************************************)
EXTENDS Naturals, Sequences

CONSTANTS
  Loaded(_),     \* the program that a file is loaded as
  Wanted(_, _),  \* [program, unusable, overflow, full]: what an input of a job
                 \* should become, and why that may be impossible
  Lost           \* stands for the file of an input of which none was made

VARIABLES
  job,      \* its objects are the inputs
  made,     \* the files made up to now
  exit      \* "running", or how the linker ended

build == <<job, made, exit>>

BuildInit == made = <<>> /\ exit = "running"

This == Wanted(job, Len(made) + 1)
Working == exit = "running" /\ Len(made) < Len(job.objects)
MadeOne == Len(made') = Len(made) + 1 /\ SubSeq(made', 1, Len(made)) = made

Make == /\ Working /\ MadeOne /\ UNCHANGED exit
        /\ made'[Len(made')] # Lost /\ ~This.unusable
        /\ Loaded(made'[Len(made')]) = This.program
Lose == /\ Working /\ MadeOne /\ UNCHANGED exit
        /\ made'[Len(made')] = Lost
        /\ This.unusable \/ This.full
\* A file is cut short, and nobody is told.
Shorten == Working /\ MadeOne /\ UNCHANGED exit /\ This.full
Crash == Working /\ This.overflow /\ exit' = "panic" /\ UNCHANGED made

\* The script or an object cannot be read: nothing is made.
Reject == Working /\ made = <<>> /\ exit' = "rejected" /\ UNCHANGED made

End == /\ exit = "running" /\ Len(made) = Len(job.objects)
       /\ exit' = IF \E i \in DOMAIN made : made[i] = Lost THEN "errors" ELSE "ok"
       /\ UNCHANGED made

BuildNext == (Make \/ Lose \/ Shorten \/ Crash \/ Reject \/ End) /\ UNCHANGED job

BuildSpec == BuildInit /\ [][BuildNext]_build
=============================================================================
