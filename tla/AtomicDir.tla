----------------------------- MODULE AtomicDir -----------------------------
(***************************************************************************)
(* What internal/cachedir promises: "a partially written directory is      *)
(* never visible to other runs".  The directory is absent until it appears *)
(* whole, it never changes after that, and whoever got its path found it   *)
(* whole.                                                                  *)
(***************************************************************************)
CONSTANT Setups  \* the processes that ask for the directory

VARIABLES dir,   \* "absent" or "whole"
          users  \* the processes that have got its path

dirVars == <<dir, users>>

DirInit == dir = "absent" /\ users = {}

\* The process that populated it is its first user.
Appear(p) ==
  /\ dir = "absent"
  /\ dir' = "whole" /\ users' = users \cup {p}

Reuse(p) ==
  /\ dir = "whole"
  /\ users' = users \cup {p} /\ UNCHANGED dir

\* The process ends, or dies.
Quit(p) == users' = users \ {p} /\ UNCHANGED dir

DirNext == \E p \in Setups : Appear(p) \/ Reuse(p) \/ Quit(p)

DirSpec == DirInit /\ [][DirNext]_dirVars
============================================================================
