---------------------------- MODULE InstallBuild ----------------------------
(***************************************************************************)
(* scripts/install-nas-build.sh: swapping the runtime files of a           *)
(* deployment directory for those of a transferred build, with the trap    *)
(* that puts the old files back.                                           *)
(*                                                                         *)
(* The shell runs one command at a time.  A move within the directory is   *)
(* one rename; any command may fail, a signal is handled between two       *)
(* commands, and the machine may stop anywhere.  Transfers run one after   *)
(* the other, as the workflow's concurrency group makes them.              *)
(***************************************************************************)
EXTENDS Integers, FiniteSets

CONSTANTS
    LastEntry,         \* the entries are 1..LastEntry in the order of the loop
    Directories,  \* the entries that are directories (app, .packages)
    Transfers,    \* how many transfers a behaviour has
    Nothing       \* no such file

VARIABLES
    dest,         \* the deployment directory: entry -> what is there
    runtime,      \* transfer -> entry -> what its runtime directory has
    previous,     \* transfer -> entry -> what its previous directory has
    transfer,     \* the transfer under way, or the last one
    pc,           \* where its script is
    at,           \* the entry the loop is at
    installed, saved,  \* the variables of the script, as sets of entries
    before,       \* the deployment directory as the transfer found it
    trouble       \* transfer -> what kept its restore from being exact

vars == <<dest, runtime, previous, transfer, pc, at, installed, saved, before, trouble>>

Entries == 1..LastEntry
\* The last entry is TRANSFER_COMPLETE, which names the transfer.
Marker == LastEntry
\* Build 0 was there before the first transfer; transfer n brings build n.
Builds == 0..Transfers
\* What a path leads to: a build's file or directory, and for a directory the
\* build of another one that was moved inside it.
Node == [of : Builds \cup {Nothing}, holds : Builds \cup {Nothing}]
Empty == [of |-> Nothing, holds |-> Nothing]
Whole(n) == [of |-> n, holds |-> Nothing]
Tree == [Entries -> Node]
All(node) == [e \in Entries |-> node]

ASSUME EntriesAssumption ==
    /\ LastEntry \in Nat \ {0}
    /\ Directories \subseteq Entries /\ Marker \notin Directories
ASSUME TransfersAssumption == Transfers \in Nat /\ Nothing \notin Int

Looping == {"save", "noteSaved", "install", "noteInstalled", "finish"}
Ended == {"idle", "done", "failed", "killed"}

InstallInit ==
    /\ dest \in {All(Empty), All(Whole(0))}
    /\ runtime = [n \in 1..Transfers |-> All(Empty)]
    /\ previous = [n \in 1..Transfers |-> All(Empty)]
    /\ transfer = 0 /\ pc = "idle" /\ at = 1
    /\ installed = {} /\ saved = {}
    /\ before = dest
    /\ trouble = [n \in 1..Transfers |-> {}]

\* Checksum, unpacking, the tests and both directories: until the trap is set
\* a failure just ends the script, and the deployment has not been touched.
Unpack ==
    /\ pc \in Ended /\ transfer < Transfers
    /\ transfer' = transfer + 1
    /\ before' = dest /\ at' = 1 /\ installed' = {} /\ saved' = {}
    /\ \/ pc' = "failed" /\ UNCHANGED runtime
       \/ /\ pc' = "save"
          /\ runtime' = [runtime EXCEPT ![transfer + 1] = All(Whole(transfer + 1))]
    /\ UNCHANGED <<dest, previous, trouble>>

\* set -e: a failing command ends the script, and the trap runs restore.
CommandFails == pc' = "restore" /\ UNCHANGED <<dest, runtime, previous>>

\* An entry that exists is moved away.
SaveEntry ==
    /\ pc = "save"
    /\ \/ dest[at] = Empty /\ pc' = "install" /\ UNCHANGED <<dest, runtime, previous>>
       \/ /\ dest[at] # Empty
          /\ previous' = [previous EXCEPT ![transfer][at] = dest[at]]
          /\ dest' = [dest EXCEPT ![at] = Empty]
          /\ pc' = "noteSaved" /\ UNCHANGED runtime
       \/ dest[at] # Empty /\ CommandFails
    /\ UNCHANGED <<transfer, at, installed, saved, before, trouble>>

NoteSaved ==
    /\ pc = "noteSaved" /\ saved' = saved \cup {at} /\ pc' = "install"
    /\ UNCHANGED <<dest, runtime, previous, transfer, at, installed, before, trouble>>

InstallEntry ==
    /\ pc = "install"
    /\ \/ /\ dest' = [dest EXCEPT ![at] = runtime[transfer][at]]
          /\ runtime' = [runtime EXCEPT ![transfer][at] = Empty]
          /\ pc' = "noteInstalled" /\ UNCHANGED previous
       \/ CommandFails
    /\ UNCHANGED <<transfer, at, installed, saved, before, trouble>>

\* Mutant: at moves on after the last entry too.
NoteInstalledAndGoOn ==
    /\ pc = "noteInstalled" /\ installed' = installed \cup {at}
    /\ at' = at + 1 /\ pc' = IF at < LastEntry THEN "save" ELSE "finish"
    /\ UNCHANGED <<dest, runtime, previous, transfer, saved, before, trouble>>

NoteInstalled ==
    /\ pc = "noteInstalled" /\ installed' = installed \cup {at}
    /\ \/ at < LastEntry /\ at' = at + 1 /\ pc' = "save"
       \/ at = LastEntry /\ at' = at /\ pc' = "finish"
    /\ UNCHANGED <<dest, runtime, previous, transfer, saved, before, trouble>>

\* The trap is removed, nothing is undone any more, and the script ends.
Finish ==
    /\ pc = "finish" /\ pc' = "done"
    /\ at' = 1 /\ installed' = {} /\ saved' = {}
    /\ UNCHANGED <<dest, runtime, previous, transfer, before, trouble>>

\* HUP, INT or TERM: exit 1 and so restore.  Between a move and the
\* assignment that notes it, the restore will not know of the move.
Signal ==
    /\ pc \in Looping /\ pc' = "restore"
    /\ trouble' = IF pc \in {"noteSaved", "noteInstalled"}
                  THEN [trouble EXCEPT ![transfer] = @ \cup {"unnoted"}] ELSE trouble
    /\ UNCHANGED <<dest, runtime, previous, transfer, at, installed, saved, before>>

\* A move of the restore fails; set +e goes on with the next.
MoveFails ==
    /\ trouble' = [trouble EXCEPT ![transfer] = @ \cup {"stuck"}]
    /\ UNCHANGED <<dest, runtime, previous>>

\* Mutant: the names are appended, so the first one noted is undone first.
EarliestOf(e, S) == e \in S /\ \A f \in S : e <= f

\* Every name was put in front of the list, so the latest comes first.
LatestOf(e, S) == e \in S /\ \A f \in S : f <= e

\* Mutant: the loop over saved does not come after the other.
InAnyOrder == TRUE

\* The loop over saved starts when the one over installed is through.
InstalledFirst == installed = {}

RestoreInstalled ==
    /\ pc = "restore"
    /\ \E e \in Entries :
         /\ LatestOf(e, installed)
         /\ installed' = installed \ {e}
         /\ \/ /\ runtime' = [runtime EXCEPT ![transfer][e] = dest[e]]
               /\ dest' = [dest EXCEPT ![e] = Empty]
               /\ UNCHANGED <<previous, trouble>>
            \/ MoveFails
    /\ UNCHANGED <<transfer, pc, at, saved, before>>

\* Moving onto a directory puts the old one inside it; a file is replaced.
Onto(e, there, moved) ==
    IF there # Empty /\ e \in Directories THEN [there EXCEPT !.holds = moved.of] ELSE moved

RestoreSaved ==
    /\ pc = "restore" /\ InstalledFirst
    /\ \E e \in Entries :
         /\ LatestOf(e, saved)
         /\ saved' = saved \ {e}
         /\ \/ /\ dest' = [dest EXCEPT ![e] = Onto(e, dest[e], previous[transfer][e])]
               /\ previous' = [previous EXCEPT ![transfer][e] = Empty]
               /\ UNCHANGED <<runtime, trouble>>
            \/ MoveFails
    /\ UNCHANGED <<transfer, pc, at, installed, before>>

EndRestore ==
    /\ pc = "restore" /\ installed = {} /\ saved = {} /\ pc' = "failed" /\ at' = 1
    /\ UNCHANGED <<dest, runtime, previous, transfer, installed, saved, before, trouble>>

\* Power loss, kill, or a signal once the trap is reset: the script is gone
\* and its variables with it.
Killed ==
    /\ pc \in Looping \cup {"restore"} /\ pc' = "killed"
    /\ at' = 1 /\ installed' = {} /\ saved' = {}
    /\ UNCHANGED <<dest, runtime, previous, transfer, before, trouble>>

AllTransferred == pc \in Ended /\ transfer = Transfers /\ UNCHANGED vars

InstallNext ==
    \/ Unpack \/ SaveEntry \/ NoteSaved \/ InstallEntry \/ NoteInstalled \/ Finish
    \/ Signal \/ RestoreInstalled \/ RestoreSaved \/ EndRestore \/ Killed
    \/ AllTransferred

InstallSpec == InstallInit /\ [][InstallNext]_vars

----------------------------------------------------------------------------
(* Properties *)

TypeOK ==
    /\ dest \in Tree /\ before \in Tree
    /\ runtime \in [1..Transfers -> Tree] /\ previous \in [1..Transfers -> Tree]
    /\ transfer \in 0..Transfers
    /\ pc \in Looping \cup Ended \cup {"restore"}
    /\ at \in Entries
    /\ installed \subseteq Entries /\ saved \subseteq Entries
    /\ trouble \in [1..Transfers -> SUBSET {"unnoted", "stuck"}]

\* A script that ran through has swapped every entry.
AllSwapped ==
    pc = "done" => \A e \in Entries : /\ dest[e] = Whole(transfer)
                                      /\ previous[transfer][e] = before[e]

\* A failed command, or a signal that does not fall between a move and its
\* note, leaves the deployment exactly as it was.
PutBack == pc = "failed" /\ trouble[transfer] = {} => dest = before

\* Wherever the script stops and whatever its restore could not move, each
\* old file is in its place, inside its successor, or in previous.
NothingLost ==
    transfer > 0 => \A e \in Entries : before[e] # Empty =>
        before[e].of \in {dest[e].of, dest[e].holds, previous[transfer][e].of}

\* A TRANSFER_COMPLETE that names the transfer stands for a whole build, also
\* while a restore takes the build away and when it is cut off.
MarkerTrue ==
    transfer > 0 /\ trouble[transfer] = {} /\ dest[Marker].of = transfer =>
        \A e \in Entries : dest[e].of = transfer

\* The swap is all or nothing where the script says so, and never loses the
\* old build where it cannot promise that.
SwapSafe == AllSwapped /\ PutBack /\ NothingLost /\ MarkerTrue
=============================================================================
