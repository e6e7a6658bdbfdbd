------------------------------ MODULE CacheDir ------------------------------
(***************************************************************************)
(* A directory of the user's cache: Ensure (internal/cachedir/cachedir.go) *)
(* and Download (internal/clients/hfmodel/hfmodel.go), with which every    *)
(* process unpacks exiftool, ffmpeg, vec1 and onnxruntime and fetches the  *)
(* models.                                                                 *)
(*                                                                         *)
(* Several processes race for one directory name.  A populate function     *)
(* writes the files of the directory into a staging directory of its own;  *)
(* each file is written from the binary or downloaded.  Any system call    *)
(* may fail, a transfer may be cut or corrupted, and a process may die     *)
(* anywhere (log.Fatal runs no deferred function either).  The file system *)
(* keeps what was renamed: a loss of power is not modelled.                *)
(***************************************************************************)
EXTENDS Naturals

CONSTANTS
  Setups,      \* the processes that call Ensure
  Parts,       \* the files that populate writes
  Downloaded,  \* those that it downloads
  Absent,      \* no directory, no file
  MaxDeaths    \* bound: how many processes die inside Ensure

ASSUME CacheAssumption ==
  /\ Downloaded \subseteq Parts
  /\ Absent \notin [Parts -> {"missing", "cut", "bad", "whole"}]
  /\ MaxDeaths \in Nat

\* What the bytes of a file are: fewer than they should be, others, or right.
Bytes == {"missing", "cut", "bad", "whole"}
Dirs == [Parts -> Bytes]
Empty == [f \in Parts |-> "missing"]
Whole == [f \in Parts |-> "whole"]

VARIABLES
  target,   \* the directory under its final name, or Absent
  staging,  \* each process's staging directory, or Absent
  temp,     \* the staging file of its Download, as <<file, bytes>>, or Absent
  doing,       \* where it is in Ensure
  litter    \* the staging directories that dead processes have left

cacheVars == <<target, staging, temp, doing, litter>>

CachePlaces == {"out", "stat", "stage", "populate", "body", "sum", "rename", "restat",
           "failing", "blind", "losing", "got", "error"}

CacheInit ==
  /\ target = Absent
  /\ staging = [p \in Setups |-> Absent] /\ temp = [p \in Setups |-> Absent]
  /\ doing = [p \in Setups |-> "out"]
  /\ litter = 0

Move(p, here, there) == doing[p] = here /\ doing' = [doing EXCEPT ![p] = there]

----------------------------------------------------------------------------
\* Ensure

Call(p) ==
  /\ Move(p, "out", "stat")
  /\ UNCHANGED <<target, staging, temp, litter>>

\* The directory is there already, or has to be made; a stat that fails for
\* another reason counts as the latter.
StatTarget(p) ==
  /\ \/ Move(p, "stat", IF target # Absent THEN "got" ELSE "stage")
     \/ Move(p, "stat", "stage")
  /\ UNCHANGED <<target, staging, temp, litter>>

\* MkdirTemp, under a name of its own.
Stage(p) ==
  /\ \/ /\ Move(p, "stage", "populate")
        /\ staging' = [staging EXCEPT ![p] = Empty]
     \/ Move(p, "stage", "error") /\ UNCHANGED staging
  /\ UNCHANGED <<target, temp, litter>>

\* populate writes a file of the binary; a failed write leaves a part of it.
WritePart(p, f) ==
  /\ f \notin Downloaded /\ doing[p] = "populate" /\ staging[p][f] = "missing"
  /\ \/ staging' = [staging EXCEPT ![p][f] = "whole"] /\ UNCHANGED doing
     \/ staging' = [staging EXCEPT ![p][f] = "cut"] /\ Move(p, "populate", "failing")
  /\ UNCHANGED <<target, temp, litter>>

\* All the files are there; chmod.
Chmod(p) ==
  /\ doing[p] = "populate" /\ \A f \in Parts : staging[p][f] # "missing"
  /\ Move(p, "populate", "rename") \/ Move(p, "populate", "failing")
  /\ UNCHANGED <<target, staging, temp, litter>>

\* Bug form: an error of rename is returned as it is.
RenameOrFail(p) ==
  /\ \/ /\ target = Absent
        /\ target' = staging[p] /\ staging' = [staging EXCEPT ![p] = Absent]
        /\ Move(p, "rename", "got")
     \/ Move(p, "rename", "failing") /\ UNCHANGED <<target, staging>>
  /\ UNCHANGED <<temp, litter>>
\* A rename onto an existing directory fails, and any rename may.
Rename(p) ==
  /\ \/ /\ target = Absent
        /\ target' = staging[p] /\ staging' = [staging EXCEPT ![p] = Absent]
        /\ Move(p, "rename", "got")
     \/ Move(p, "rename", "restat") /\ UNCHANGED <<target, staging>>
  /\ UNCHANGED <<temp, litter>>

\* rename failed: is it because another process was first?  A stat that
\* fails leaves the error of rename, whatever is there.
StatAgain(p) ==
  /\ \/ Move(p, "restat", IF target # Absent THEN "losing" ELSE "failing")
     \/ Move(p, "restat", "blind")
  /\ UNCHANGED <<target, staging, temp, litter>>

\* The deferred functions of Download and Ensure, and the return.
CleanUp(p) ==
  /\ Move(p, "failing", "error") \/ Move(p, "blind", "error") \/ Move(p, "losing", "got")
  /\ staging' = [staging EXCEPT ![p] = Absent] /\ temp' = [temp EXCEPT ![p] = Absent]
  /\ UNCHANGED <<target, litter>>

----------------------------------------------------------------------------
\* Download, of one file into the staging directory

\* The file is not there; the server answers, or it is an error.
Request(p, f) ==
  /\ f \in Downloaded /\ doing[p] = "populate" /\ staging[p][f] = "missing"
  /\ \/ temp' = [temp EXCEPT ![p] = <<f, "cut">>] /\ Move(p, "populate", "body")
     \/ Move(p, "populate", "failing") /\ UNCHANGED temp
  /\ UNCHANGED <<target, staging, litter>>

\* The body ends, though its bytes need not be the pinned ones (a body
\* without a length may also end early), or its transfer is an error.
Receive(p) ==
  /\ doing[p] = "body"
  /\ \/ /\ \E b \in {"cut", "bad", "whole"} : temp' = [temp EXCEPT ![p][2] = b]
        /\ Move(p, "body", "sum")
     \/ Move(p, "body", "failing") /\ UNCHANGED temp
  /\ UNCHANGED <<target, staging, litter>>

\* Bug form: the sum is not compared.
MoveFileUnchecked(p) ==
  /\ doing[p] = "sum"
  /\ \/ /\ staging' = [staging EXCEPT ![p][temp[p][1]] = temp[p][2]]
        /\ temp' = [temp EXCEPT ![p] = Absent]
        /\ Move(p, "sum", "populate")
     \/ Move(p, "sum", "failing") /\ UNCHANGED <<staging, temp>>
  /\ UNCHANGED <<target, litter>>
\* The sum is the pinned one, and the file is renamed into place.
MoveFile(p) ==
  /\ doing[p] = "sum"
  /\ \/ /\ temp[p][2] = "whole"
        /\ staging' = [staging EXCEPT ![p][temp[p][1]] = temp[p][2]]
        /\ temp' = [temp EXCEPT ![p] = Absent]
        /\ Move(p, "sum", "populate")
     \/ Move(p, "sum", "failing") /\ UNCHANGED <<staging, temp>>
  /\ UNCHANGED <<target, litter>>

----------------------------------------------------------------------------
\* The process dies; another one may be started in its place.
Die(p) ==
  /\ doing[p] \notin {"out", "got", "error"} /\ litter < MaxDeaths
  /\ doing' = [doing EXCEPT ![p] = "out"]
  /\ staging' = [staging EXCEPT ![p] = Absent] /\ temp' = [temp EXCEPT ![p] = Absent]
  /\ litter' = litter + 1
  /\ UNCHANGED target

\* main ends: after an error at once.
Exit(p) ==
  /\ Move(p, "got", "out") \/ Move(p, "error", "out")
  /\ UNCHANGED <<target, staging, temp, litter>>

Ensure(p) ==
  \/ StatTarget(p) \/ Stage(p) \/ Chmod(p) \/ Rename(p) \/ StatAgain(p) \/ CleanUp(p)
  \/ Receive(p) \/ MoveFile(p)
  \/ \E f \in Parts : WritePart(p, f) \/ Request(p, f)

CacheNext == \E p \in Setups : Call(p) \/ Ensure(p) \/ Die(p) \/ Exit(p)

CacheSpec == CacheInit /\ [][CacheNext]_cacheVars

----------------------------------------------------------------------------
CacheTypeOK ==
  /\ target \in Dirs \cup {Absent}
  /\ staging \in [Setups -> Dirs \cup {Absent}]
  /\ temp \in [Setups -> (Downloaded \X Bytes) \cup {Absent}]
  /\ doing \in [Setups -> CachePlaces]
  /\ litter \in Nat

\* A process finds the directory absent or whole, from its first call to its
\* last, however many of them race, fail or die, and whatever the server
\* sends: Ensure implements AtomicDir.
Cache == INSTANCE AtomicDir WITH
           dir <- IF target = Absent THEN "absent"
                  ELSE IF target = Whole THEN "whole" ELSE "partial",
           users <- {p \in Setups : doing[p] = "got"}
ImplementsAtomicDir == Cache!DirSpec

\* "The first one to rename wins and the others reuse the winner's
\* directory": a process that comes to rename when the directory exists ends
\* with the directory, and with an error only if it cannot even stat it.
LosersReuse ==
  [][\A p \in Setups : target # Absent /\ doing[p] \in {"rename", "restat", "losing"}
                          => doing'[p] \notin {"failing", "error"}]_cacheVars
============================================================================
