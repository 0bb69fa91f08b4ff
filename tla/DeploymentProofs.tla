-------------------------- MODULE DeploymentProofs --------------------------
(***************************************************************************)
(* What brings a new version into service: SwapSafe of InstallBuild, for   *)
(* any number of entries and transfers, and the properties of Migrations,  *)
(* for any people, catalogue and number of commands.                       *)
(*                                                                         *)
(* The invariant of InstallBuild says of every entry how far the script is *)
(* with it: the loop has swapped those before at, and a restore has in     *)
(* installed and saved exactly what it still has to move, unless a move    *)
(* was not noted.                                                          *)
(*                                                                         *)
(* That of Migrations says what a running command has taken so far, and    *)
(* that a schema is one of two of its revision: the one an old database    *)
(* gets there, or from 4528840cd462 on the one a bootstrapped database     *)
(* has.  Schema1 to Schema20 write those schemas out, and for each         *)
(* revision a lemma says that upgrade() makes the next schema of the one   *)
(* before and downgrade() undoes it, or that a statement is refused.  So   *)
(* votes hold their reasons from e0d9472e53f0 on, which is why the         *)
(* downgrade of the catalogue stops before it takes anybody's vote.        *)
(*                                                                         *)
(* For the type invariant, Fits says what the rows of each revision        *)
(* satisfy, and Good that nicknames are unique where there is a key of     *)
(* them: only at 4528840cd462 and after.                                   *)
(***************************************************************************)
EXTENDS InstallBuild, Migrations, FiniteSetTheorems, WellFoundedInduction, TLAPS

Swapped(e) == dest[e] = Whole(transfer) /\ previous[transfer][e] = before[e]
Untouched(e) ==
    /\ dest[e] = before[e] /\ previous[transfer][e] = Empty
    /\ runtime[transfer][e] = Whole(transfer)
Away(e) ==
    /\ dest[e] = Empty /\ previous[transfer][e] = before[e]
    /\ runtime[transfer][e] = Whole(transfer)
Kept(e) ==
    before[e] # Empty => before[e].of \in {dest[e].of, dest[e].holds, previous[transfer][e].of}

\* Transfers to come have met no trouble and saved nothing yet.
Fresh == \A n \in 1..Transfers :
    n > transfer => trouble[n] = {} /\ \A e \in Entries : previous[n][e] = Empty

\* Nothing is there from a transfer to come.
Older ==
    /\ \A e \in Entries : dest[e].of \in Int => dest[e].of <= transfer
    /\ transfer > 0 => \A e \in Entries : before[e].of \in Int => before[e].of < transfer

Begun == (pc = "idle" => transfer = 0) /\ (pc # "idle" => transfer > 0)

PastInstall(e) == e < at \/ (e = at /\ pc \in {"noteInstalled", "finish"})
PastSave(e) == e = at /\ pc \in {"noteSaved", "install"}

LoopInv ==
    pc \in Looping =>
        /\ trouble[transfer] = {}
        /\ pc = "finish" => at = LastEntry
        /\ pc = "noteSaved" => before[at] # Empty
        /\ \A e \in Entries :
             /\ PastInstall(e) => Swapped(e)
             /\ PastSave(e) => Away(e)
             /\ ~PastInstall(e) /\ ~PastSave(e) => Untouched(e)
             /\ e \in installed <=> e < at \/ (e = at /\ pc = "finish")
             /\ e \in saved <=> /\ before[e] # Empty
                                /\ \/ e < at
                                   \/ e = at /\ pc \in {"install", "noteInstalled", "finish"}

RestoreInv ==
    pc = "restore" => \A e \in Entries :
        /\ e \in installed => Swapped(e)
        /\ e \in saved => /\ previous[transfer][e] = before[e]
                          /\ dest[e] \in {Empty, Whole(transfer)}
        /\ Kept(e)

\* Without trouble, the two lists are exact.
ExactInv ==
    pc = "restore" /\ trouble[transfer] = {} =>
        /\ Marker \in installed => installed = Entries
        /\ \A e \in Entries :
             /\ e \in installed => (e \in saved <=> before[e] # Empty)
             /\ e \notin installed /\ e \in saved => dest[e] = Empty
             /\ e \notin installed /\ e \notin saved => dest[e] = before[e]

EndInv ==
    /\ pc = "done" => \A e \in Entries : Swapped(e)
    /\ pc = "failed" => \A e \in Entries :
          Kept(e) /\ (trouble[transfer] = {} => dest[e] = before[e])
    /\ pc = "killed" => MarkerTrue /\ \A e \in Entries : Kept(e)

IInv == TypeOK /\ Fresh /\ Older /\ Begun /\ LoopInv /\ RestoreInv /\ ExactInv /\ EndInv

----------------------------------------------------------------------------
\* Nothing is no build, so an empty place is told from an occupied one.
LEMMA EmptyIsNoBuild ==
    /\ Empty \in Node /\ Empty.of = Nothing /\ Empty.holds = Nothing
    /\ \A n \in Builds : /\ Whole(n) \in Node /\ Whole(n).of = n /\ Whole(n).holds = Nothing
                         /\ Whole(n) # Empty /\ n # Nothing /\ n \in Int
  BY TransfersAssumption DEF Empty, Whole, Node, Builds

\* The typed state has the parts the steps below rely on.
LEMMA TypeParts ==
    ASSUME TypeOK, transfer > 0
    PROVE  /\ transfer \in 1..Transfers /\ transfer \in Builds /\ transfer \in Int
           /\ previous[transfer] \in Tree /\ runtime[transfer] \in Tree
           /\ LastEntry \in Entries /\ at \in Int
  BY TransfersAssumption, EntriesAssumption DEF TypeOK, Builds, Entries

LEMMA InitInv == InstallInit => IInv
<1> SUFFICES ASSUME InstallInit PROVE IInv
  OBVIOUS
<1>0. All(Empty) \in Tree /\ All(Whole(0)) \in Tree
  BY EmptyIsNoBuild, TransfersAssumption DEF All, Tree, Builds
<1>1. TypeOK
  BY <1>0, TransfersAssumption, EntriesAssumption DEF InstallInit, TypeOK, Entries, Ended
<1>2. Fresh /\ Begun
  BY DEF InstallInit, Fresh, Begun, All
<1>3. Older
  <2> SUFFICES ASSUME NEW e \in Entries, dest[e].of \in Int PROVE dest[e].of <= transfer
    BY DEF InstallInit, Older
  <2> QED
    BY EmptyIsNoBuild, TransfersAssumption DEF InstallInit, All, Builds
<1>4. LoopInv /\ RestoreInv /\ ExactInv /\ EndInv
  BY DEF InstallInit, LoopInv, RestoreInv, ExactInv, EndInv, Looping
<1> QED
  BY <1>1, <1>2, <1>3, <1>4 DEF IInv

LEMMA Safe == IInv => SwapSafe
<1> SUFFICES ASSUME IInv PROVE SwapSafe
  OBVIOUS
<1> USE DEF IInv
<1>1. AllSwapped
  BY DEF EndInv, AllSwapped, Swapped
<1>2. PutBack
  <2> SUFFICES ASSUME pc = "failed", trouble[transfer] = {} PROVE dest = before
    BY DEF PutBack
  <2>1. \A e \in Entries : dest[e] = before[e]
    BY DEF EndInv
  <2> QED
    BY <2>1 DEF TypeOK, Tree
<1>3. NothingLost
  <2> SUFFICES ASSUME transfer > 0, NEW e \in Entries PROVE Kept(e)
    BY DEF NothingLost, Kept
  <2>1. CASE pc \in Looping
    BY <2>1, EmptyIsNoBuild, TypeParts DEF LoopInv, Swapped, Away, Untouched, Kept
  <2>2. CASE pc = "restore"
    BY <2>2 DEF RestoreInv
  <2>3. CASE pc \in Ended
    BY <2>3 DEF EndInv, Swapped, Kept, Begun, Ended
  <2> QED
    BY <2>1, <2>2, <2>3 DEF TypeOK
<1>4. MarkerTrue
  <2> SUFFICES ASSUME transfer > 0, trouble[transfer] = {}, dest[Marker].of = transfer
               PROVE  \A e \in Entries : dest[e].of = transfer
    BY DEF MarkerTrue
  <2>1. CASE pc \in Looping
    <3>1. PastInstall(Marker)
      BY <2>1, EmptyIsNoBuild, TypeParts DEF LoopInv, Away, Untouched, Older, Marker
    <3>2. \A e \in Entries : PastInstall(e)
      BY <3>1, TypeParts DEF PastInstall, Marker, Entries, TypeOK
    <3> QED
      BY <2>1, <3>2, EmptyIsNoBuild, TypeParts DEF LoopInv, Swapped
  <2>2. CASE pc = "restore"
    <3>1. Marker \in installed
      BY <2>2, EmptyIsNoBuild, TypeParts DEF ExactInv, Older, Marker
    <3> QED
      BY <2>2, <3>1, EmptyIsNoBuild, TypeParts DEF ExactInv, RestoreInv, Swapped
  <2>3. CASE pc = "done"
    BY <2>3, EmptyIsNoBuild, TypeParts DEF EndInv, Swapped
  <2>4. CASE pc = "failed"
    BY <2>4, EmptyIsNoBuild, TypeParts DEF EndInv, Older, Marker
  <2>5. CASE pc = "killed"
    BY <2>5 DEF EndInv, MarkerTrue
  <2> QED
    BY <2>1, <2>2, <2>3, <2>4, <2>5 DEF TypeOK, Ended, Begun
<1> QED
  BY <1>1, <1>2, <1>3, <1>4 DEF SwapSafe

----------------------------------------------------------------------------
\* Putting something at a path changes that path only.
LEMMA PutAt ==
    ASSUME NEW T \in Tree, NEW e \in Entries, NEW x \in Node
    PROVE  /\ [T EXCEPT ![e] = x] \in Tree
           /\ \A f \in Entries : [T EXCEPT ![e] = x][f] = IF f = e THEN x ELSE T[f]
  BY DEF Tree

LEMMA PutIn ==
    ASSUME NEW D \in [1..Transfers -> Tree], NEW n \in 1..Transfers,
           NEW e \in Entries, NEW x \in Node
    PROVE  /\ [D EXCEPT ![n][e] = x] \in [1..Transfers -> Tree]
           /\ \A f \in Entries : [D EXCEPT ![n][e] = x][n][f] = IF f = e THEN x ELSE D[n][f]
<1>1. [D EXCEPT ![n][e] = x] = [D EXCEPT ![n] = [D[n] EXCEPT ![e] = x]]
  OBVIOUS
<1>2. [D[n] EXCEPT ![e] = x] \in Tree
  BY PutAt
<1>3. [D EXCEPT ![n][e] = x][n] = [D[n] EXCEPT ![e] = x]
  BY <1>1
<1>4. \A f \in Entries : [D[n] EXCEPT ![e] = x][f] = IF f = e THEN x ELSE D[n][f]
  BY DEF Tree
<1> QED
  BY <1>1, <1>2, <1>3, <1>4

\* Types first: what a step does to one entry of one transfer.
LEMMA TypeStep == TypeOK /\ Begun /\ [InstallNext]_vars => TypeOK'
<1> SUFFICES ASSUME TypeOK, Begun, [InstallNext]_vars PROVE TypeOK'
  OBVIOUS
<1> USE TransfersAssumption, EntriesAssumption
<1>0. \A n \in Builds : Whole(n) \in Node /\ All(Whole(n)) \in Tree
  BY EmptyIsNoBuild DEF All, Tree
<1>00. Empty \in Node
  BY EmptyIsNoBuild
<1>1. CASE Unpack
  BY <1>1, <1>0 DEF Unpack, TypeOK, Entries, Looping, Ended, Builds
<1>2. CASE SaveEntry
  <2>1. pc = "save" /\ transfer \in 1..Transfers
    BY <1>2 DEF SaveEntry, Begun, TypeOK
  <2>0. at \in Entries /\ dest[at] \in Node
    BY DEF TypeOK, Tree
  <2>3. [dest EXCEPT ![at] = Empty] \in Tree
    BY <1>00, <2>0, PutAt DEF TypeOK
  <2>4. [previous EXCEPT ![transfer][at] = dest[at]] \in [1..Transfers -> Tree]
    BY <2>0, <2>1, PutIn DEF TypeOK
  <2>2. dest' \in Tree /\ previous' \in [1..Transfers -> Tree]
    BY <1>2, <2>3, <2>4 DEF SaveEntry, CommandFails, TypeOK
  <2> QED
    BY <1>2, <2>2 DEF SaveEntry, CommandFails, TypeOK, Looping
<1>3. CASE NoteSaved
  BY <1>3 DEF NoteSaved, TypeOK, Looping
<1>4. CASE InstallEntry
  <2>1. pc = "install" /\ transfer \in 1..Transfers
    BY <1>4 DEF InstallEntry, Begun, TypeOK
  <2>0. at \in Entries /\ runtime[transfer][at] \in Node
    BY <2>1 DEF TypeOK, Tree
  <2>3. [dest EXCEPT ![at] = runtime[transfer][at]] \in Tree
    BY <2>0, PutAt DEF TypeOK
  <2>4. [runtime EXCEPT ![transfer][at] = Empty] \in [1..Transfers -> Tree]
    BY <1>00, <2>0, <2>1, PutIn DEF TypeOK
  <2>2. dest' \in Tree /\ runtime' \in [1..Transfers -> Tree]
    BY <1>4, <2>3, <2>4 DEF InstallEntry, CommandFails, TypeOK
  <2> QED
    BY <1>4, <2>2 DEF InstallEntry, CommandFails, TypeOK, Looping
<1>5. CASE NoteInstalled
  BY <1>5 DEF NoteInstalled, TypeOK, Looping, Entries
<1>6. CASE Finish
  BY <1>6 DEF Finish, TypeOK, Ended, Entries
<1>7. CASE Signal
  <2>1. transfer \in 1..Transfers
    BY <1>7 DEF Signal, Begun, TypeOK, Looping
  <2>2. trouble' \in [1..Transfers -> SUBSET {"unnoted", "stuck"}]
    BY <1>7, <2>1 DEF Signal, TypeOK
  <2> QED
    BY <1>7, <2>2 DEF Signal, TypeOK
<1>8. CASE RestoreInstalled
  <2>1. transfer \in 1..Transfers
    BY <1>8 DEF RestoreInstalled, Begun, TypeOK
  <2>2. PICK e \in Entries : RestoreInstalled!2!(e)
    BY <1>8 DEF RestoreInstalled
  <2>0. dest[e] \in Node
    BY DEF TypeOK, Tree
  <2>5. [dest EXCEPT ![e] = Empty] \in Tree
    BY <1>00, PutAt DEF TypeOK
  <2>6. [runtime EXCEPT ![transfer][e] = dest[e]] \in [1..Transfers -> Tree]
    BY <2>0, <2>1, PutIn DEF TypeOK
  <2>3. dest' \in Tree /\ runtime' \in [1..Transfers -> Tree]
    BY <2>2, <2>5, <2>6 DEF MoveFails, TypeOK
  <2>4. trouble' \in [1..Transfers -> SUBSET {"unnoted", "stuck"}]
    BY <2>1, <2>2 DEF MoveFails, TypeOK
  <2> QED
    BY <1>8, <2>2, <2>3, <2>4 DEF RestoreInstalled, MoveFails, TypeOK
<1>9. CASE RestoreSaved
  <2>1. transfer \in 1..Transfers
    BY <1>9 DEF RestoreSaved, Begun, TypeOK
  <2>2. PICK e \in Entries : RestoreSaved!2!(e)
    BY <1>9 DEF RestoreSaved
  <2>3. Onto(e, dest[e], previous[transfer][e]) \in Node
    BY <2>1 DEF Onto, TypeOK, Tree, Node
  <2>6. [dest EXCEPT ![e] = Onto(e, dest[e], previous[transfer][e])] \in Tree
    BY <2>3, PutAt DEF TypeOK
  <2>7. [previous EXCEPT ![transfer][e] = Empty] \in [1..Transfers -> Tree]
    BY <1>00, <2>1, PutIn DEF TypeOK
  <2>4. dest' \in Tree /\ previous' \in [1..Transfers -> Tree]
    BY <2>2, <2>6, <2>7 DEF MoveFails, TypeOK
  <2>5. trouble' \in [1..Transfers -> SUBSET {"unnoted", "stuck"}]
    BY <2>1, <2>2 DEF MoveFails, TypeOK
  <2> QED
    BY <1>9, <2>2, <2>4, <2>5 DEF RestoreSaved, MoveFails, TypeOK
<1>10. CASE EndRestore
  BY <1>10 DEF EndRestore, TypeOK, Ended, Entries
<1>11. CASE Killed
  BY <1>11 DEF Killed, TypeOK, Ended, Entries
<1>12. CASE AllTransferred
  BY <1>12 DEF AllTransferred, vars, TypeOK
<1>13. CASE UNCHANGED vars
  BY <1>13 DEF vars, TypeOK
<1> QED
  BY <1>1, <1>2, <1>3, <1>4, <1>5, <1>6, <1>7, <1>8, <1>9, <1>10, <1>11, <1>12, <1>13 DEF InstallNext

\* A new transfer starts from whatever is there.
LEMMA UnpackInv == IInv /\ TypeOK' /\ Unpack => IInv'
<1> SUFFICES ASSUME IInv, TypeOK', Unpack PROVE IInv'
  OBVIOUS
<1> USE DEF IInv
<1>1. /\ transfer \in Int /\ transfer' = transfer + 1 /\ transfer' \in 1..Transfers
      /\ dest' = dest /\ before' = dest /\ trouble' = trouble /\ trouble'[transfer'] = {}
      /\ previous' = previous /\ \A e \in Entries : previous[transfer'][e] = Empty
  BY TransfersAssumption DEF Unpack, Fresh, TypeOK
<1>2. Fresh' /\ Begun'
  BY <1>1 DEF Fresh, Begun, Unpack
<1>3. Older'
  BY <1>1 DEF Older
<1>4. LoopInv'
  <2>1. CASE pc' = "failed"
    BY <2>1 DEF LoopInv, Looping
  <2>2. CASE pc' = "save"
    <3>1. /\ at' = 1 /\ installed' = {} /\ saved' = {}
          /\ \A e \in Entries : runtime'[transfer'][e] = Whole(transfer')
      BY <1>1, <2>2 DEF Unpack, All, TypeOK
    <3>2. \A e \in Entries : e \in Int /\ e >= 1
      BY DEF Entries
    <3> QED
      BY <1>1, <2>2, <3>1, <3>2 DEF LoopInv, PastInstall, PastSave, Untouched
  <2> QED
    BY <2>1, <2>2 DEF Unpack
<1>5. EndInv'
  <2>1. pc' \notin {"done", "killed"}
    BY DEF Unpack
  <2> QED
    BY <1>1, <2>1 DEF EndInv, Kept
<1> QED
  BY <1>2, <1>3, <1>4, <1>5 DEF RestoreInv, ExactInv, Unpack

\* The steps of the loop.
LEMMA LoopStep ==
    IInv /\ TypeOK' /\ (SaveEntry \/ NoteSaved \/ InstallEntry \/ NoteInstalled \/ Finish \/ Signal)
        => Fresh' /\ Older' /\ Begun'
<1> SUFFICES ASSUME IInv, TypeOK',
                    SaveEntry \/ NoteSaved \/ InstallEntry \/ NoteInstalled \/ Finish \/ Signal
             PROVE  Fresh' /\ Older' /\ Begun'
  OBVIOUS
<1> USE DEF IInv
<1>1. /\ pc \in Looping /\ pc' # "idle" /\ transfer' = transfer /\ before' = before
      /\ transfer > 0 /\ at \in Entries
  BY DEF SaveEntry, NoteSaved, InstallEntry, NoteInstalled, Finish, Signal, CommandFails,
         Looping, Begun, TypeOK
<1>2. Fresh' /\ Begun'
  <2>1. \A n \in 1..Transfers : n > transfer => trouble'[n] = trouble[n] /\ previous'[n] = previous[n]
    BY <1>1, TypeParts DEF TypeOK, SaveEntry, NoteSaved, InstallEntry, NoteInstalled, Finish, Signal,
       CommandFails
  <2> QED
    BY <1>1, <2>1 DEF Fresh, Begun
<1>3. \A e \in Entries : \/ dest'[e] = dest[e] \/ dest'[e] = Empty
                         \/ dest'[e] = Whole(transfer)
  <2>1. CASE SaveEntry
    BY <1>1, <2>1 DEF SaveEntry, CommandFails, TypeOK, Tree
  <2>2. CASE InstallEntry
    <3>1. runtime[transfer][at] = Whole(transfer)
      BY <1>1, <2>2 DEF InstallEntry, LoopInv, Away, PastSave, PastInstall
    <3> QED
      BY <1>1, <2>2, <3>1 DEF InstallEntry, CommandFails, TypeOK, Tree
  <2> QED
    BY <2>1, <2>2 DEF NoteSaved, NoteInstalled, Finish, Signal
<1>4. Older'
  BY <1>1, <1>3, EmptyIsNoBuild, TypeParts, TransfersAssumption DEF Older
<1> QED
  BY <1>2, <1>4

\* A loop position says how every entry stands; on leaving the loop for the
\* restore with nothing unnoted, the lists are exact.
LEMMA LeaveLoop ==
    ASSUME IInv, TypeOK', pc \in Looping, pc' = "restore",
           UNCHANGED <<dest, runtime, previous, transfer, at, installed, saved, before>>,
           \/ trouble' = trouble /\ pc \notin {"noteSaved", "noteInstalled"}
           \/ trouble'[transfer] # {}
    PROVE  LoopInv' /\ RestoreInv' /\ ExactInv' /\ EndInv'
<1> USE DEF IInv
<1>0. transfer > 0 /\ \A e \in Entries : e \in Int /\ e >= 1 /\ e <= LastEntry
  BY DEF Begun, Looping, Entries
<1>1. LoopInv' /\ EndInv'
  BY DEF LoopInv, Looping, EndInv
<1>2. RestoreInv'
  <2> SUFFICES ASSUME NEW e \in Entries
               PROVE  /\ e \in installed => Swapped(e)
                      /\ e \in saved => /\ previous[transfer][e] = before[e]
                                        /\ dest[e] \in {Empty, Whole(transfer)}
                      /\ Kept(e)
    BY DEF RestoreInv, Swapped, Kept
  <2>1. e \in installed => PastInstall(e)
    BY DEF LoopInv, PastInstall
  <2>2. e \in saved => PastInstall(e) \/ PastSave(e)
    BY <1>0 DEF LoopInv, PastInstall, PastSave
  <2>3. PastInstall(e) => Swapped(e)
    BY DEF LoopInv
  <2>4. PastSave(e) => Away(e)
    BY DEF LoopInv
  <2>5. ~PastInstall(e) /\ ~PastSave(e) => dest[e] = before[e]
    BY DEF LoopInv, Untouched
  <2> QED
    BY <2>1, <2>2, <2>3, <2>4, <2>5 DEF Swapped, Away, Kept
<1>3. ExactInv'
  <2> SUFFICES ASSUME pc \notin {"noteSaved", "noteInstalled"}
               PROVE  /\ Marker \in installed => installed = Entries
                      /\ \A e \in Entries :
                           /\ e \in installed => (e \in saved <=> before[e] # Empty)
                           /\ e \notin installed /\ e \in saved => dest[e] = Empty
                           /\ e \notin installed /\ e \notin saved => dest[e] = before[e]
    BY DEF ExactInv
  <2>1. pc \in {"save", "install", "finish"}
    BY DEF Looping
  <2>2. \A e \in installed : e \in Entries
    BY DEF TypeOK
  <2>3. at \in Entries /\ at \in Int
    BY <1>0 DEF TypeOK
  <2>4. Marker \in installed => pc = "finish" /\ at = LastEntry
    BY <1>0, <2>2, <2>3, EntriesAssumption DEF LoopInv, Marker, Entries
  <2>5. Marker \in installed => \A e \in Entries : e \in installed
    BY <1>0, <2>3, <2>4 DEF LoopInv
  <2>6. Marker \in installed => installed = Entries
    BY <2>2, <2>5
  <2>7. ASSUME NEW e \in Entries
        PROVE  /\ e \in installed => (e \in saved <=> before[e] # Empty)
               /\ e \notin installed /\ e \in saved => dest[e] = Empty
               /\ e \notin installed /\ e \notin saved => dest[e] = before[e]
    <3>1. e \in installed => (e \in saved <=> before[e] # Empty)
      BY DEF LoopInv
    <3>2. CASE e = at /\ pc = "install"
      <4>1. Away(e) /\ e \notin installed /\ (e \in saved <=> before[e] # Empty)
        BY <1>0, <3>2 DEF LoopInv, PastSave
      <4> QED
        BY <4>1 DEF Away
    <3>3. CASE ~(e = at /\ pc = "install")
      <4>1. ~PastSave(e) /\ (e \in installed <=> PastInstall(e))
        BY <2>1, <3>3 DEF LoopInv, PastSave, PastInstall
      <4>2. e \notin installed => dest[e] = before[e] /\ e \notin saved
        BY <4>1, <2>1, <3>3 DEF LoopInv, PastInstall, Untouched
      <4> QED
        BY <3>1, <4>2
    <3> QED
      BY <3>2, <3>3, <3>1
  <2> QED
    BY <2>6, <2>7
<1> QED
  BY <1>1, <1>2, <1>3

LEMMA SaveInv == IInv /\ TypeOK' /\ SaveEntry => LoopInv' /\ RestoreInv' /\ ExactInv' /\ EndInv'
<1> SUFFICES ASSUME IInv, TypeOK', SaveEntry PROVE LoopInv' /\ RestoreInv' /\ ExactInv' /\ EndInv'
  OBVIOUS
<1> USE DEF IInv
<1>0. /\ pc = "save" /\ pc \in Looping /\ transfer \in 1..Transfers /\ at \in Entries /\ at \in Int
      /\ dest[at] \in Node /\ dest[at] = before[at] /\ runtime[transfer][at] = Whole(transfer)
      /\ previous[transfer][at] = Empty
  BY DEF SaveEntry, Looping, Begun, TypeOK, Entries, Tree, LoopInv, Untouched, PastInstall, PastSave
<1>1. CASE pc' = "restore"
  BY <1>0, <1>1, LeaveLoop DEF SaveEntry, CommandFails
<1>2. CASE pc' \in {"install", "noteSaved"}
  <2>1. /\ dest' \in Tree /\ \A f \in Entries : dest'[f] = IF f = at THEN Empty ELSE dest[f]
        /\ \A f \in Entries : f # at => previous'[transfer][f] = previous[transfer][f]
        /\ pc' = "noteSaved" => previous'[transfer][at] = before[at] /\ before[at] # Empty
        /\ pc' = "install" => dest[at] = Empty /\ previous' = previous
    BY <1>0, <1>2, EmptyIsNoBuild, PutAt, PutIn DEF SaveEntry, CommandFails, TypeOK
  <2>2. runtime' = runtime /\ UNCHANGED <<transfer, at, installed, saved, before, trouble>>
    BY <1>2 DEF SaveEntry, CommandFails
  <2>3. trouble'[transfer'] = {}
    BY <1>0, <2>2 DEF LoopInv
  <2>4. ASSUME NEW e \in Entries
        PROVE  /\ PastInstall(e)' <=> PastInstall(e)
               /\ PastSave(e)' <=> e = at
               /\ ~PastSave(e) /\ (PastInstall(e) => e # at)
    BY <1>0, <1>2, <2>2 DEF PastInstall, PastSave
  <2>7. ASSUME NEW e \in Entries
        PROVE  (e \in installed <=> e < at) /\ (e \in saved <=> before[e] # Empty /\ e < at)
    BY <1>0 DEF LoopInv
  <2>8. before'[at'] = Empty <=> pc' = "install"
    BY <1>0, <1>2, <2>1, <2>2
  <2>9. ASSUME NEW e \in Entries
        PROVE  /\ PastInstall(e)' => Swapped(e)'
               /\ PastSave(e)' => Away(e)'
               /\ ~PastInstall(e)' /\ ~PastSave(e)' => Untouched(e)'
    <3>1. /\ PastInstall(e) => Swapped(e)
          /\ ~PastInstall(e) /\ ~PastSave(e) => Untouched(e)
      BY <1>0 DEF LoopInv
    <3>2. e = at => Away(e)'
      BY <1>0, <1>2, <2>1, <2>2 DEF Away
    <3>3. e # at => (Swapped(e) => Swapped(e)') /\ (Untouched(e) => Untouched(e)')
      BY <2>1, <2>2 DEF Swapped, Untouched
    <3> QED
      BY <3>1, <3>2, <3>3, <2>4
  <2>10. LoopInv'
    BY <1>0, <1>2, <2>2, <2>3, <2>7, <2>8, <2>9 DEF LoopInv
  <2> QED
    BY <1>2, <2>10 DEF RestoreInv, ExactInv, EndInv
<1> QED
  BY <1>1, <1>2 DEF SaveEntry, CommandFails

\* A note changes a list and nothing else; at moves on after the second one.
LEMMA NoteInv ==
    IInv /\ TypeOK' /\ (NoteSaved \/ NoteInstalled) => LoopInv' /\ RestoreInv' /\ ExactInv' /\ EndInv'
<1> SUFFICES ASSUME IInv, TypeOK', NoteSaved \/ NoteInstalled
             PROVE  LoopInv' /\ RestoreInv' /\ ExactInv' /\ EndInv'
  OBVIOUS
<1> USE DEF IInv
<1>0. /\ pc \in Looping /\ at \in Entries /\ at \in Int /\ LastEntry \in Int
      /\ \A e \in Entries : e \in Int /\ e <= LastEntry
      /\ UNCHANGED <<dest, runtime, previous, transfer, before, trouble>>
  BY EntriesAssumption DEF NoteSaved, NoteInstalled, Looping, TypeOK, Entries
<1>1. pc' \in {"install", "save", "finish"} /\ (pc' = "finish" => at' = LastEntry)
  BY <1>0 DEF NoteSaved, NoteInstalled, Entries
<1>2. ASSUME NEW e \in Entries
      PROVE  (PastInstall(e)' <=> PastInstall(e)) /\ (PastSave(e)' <=> PastSave(e))
  BY <1>0 DEF NoteSaved, NoteInstalled, PastInstall, PastSave
<1>3. ASSUME NEW e \in Entries
      PROVE  /\ PastInstall(e)' => Swapped(e)'
             /\ PastSave(e)' => Away(e)'
             /\ ~PastInstall(e)' /\ ~PastSave(e)' => Untouched(e)'
  <2>1. /\ PastInstall(e) => Swapped(e)
        /\ PastSave(e) => Away(e)
        /\ ~PastInstall(e) /\ ~PastSave(e) => Untouched(e)
    BY <1>0 DEF LoopInv
  <2> QED
    BY <1>0, <1>2, <2>1 DEF Swapped, Away, Untouched
<1>4. ASSUME NEW e \in Entries
      PROVE  e \in installed' <=> e < at' \/ (e = at' /\ pc' = "finish")
  <2>1. e \in installed <=> e < at \/ (e = at /\ pc = "finish")
    BY <1>0 DEF LoopInv
  <2> QED
    BY <1>0, <2>1 DEF NoteSaved, NoteInstalled
<1>5. ASSUME NEW e \in Entries
      PROVE  e \in saved' <=> /\ before'[e] # Empty
                              /\ \/ e < at'
                                 \/ e = at' /\ pc' \in {"install", "noteInstalled", "finish"}
  <2>1. e \in saved <=> /\ before[e] # Empty
                        /\ \/ e < at
                           \/ e = at /\ pc \in {"install", "noteInstalled", "finish"}
    BY <1>0 DEF LoopInv
  <2>2. pc = "noteSaved" => before[at] # Empty
    BY DEF LoopInv, Looping
  <2> QED
    BY <1>0, <2>1, <2>2 DEF NoteSaved, NoteInstalled
<1>6. trouble'[transfer'] = {}
  BY <1>0 DEF LoopInv
<1>7. LoopInv'
  BY <1>1, <1>3, <1>4, <1>5, <1>6 DEF LoopInv
<1> QED
  BY <1>1, <1>7 DEF RestoreInv, ExactInv, EndInv

LEMMA InstallEntryInv ==
    IInv /\ TypeOK' /\ InstallEntry => LoopInv' /\ RestoreInv' /\ ExactInv' /\ EndInv'
<1> SUFFICES ASSUME IInv, TypeOK', InstallEntry
             PROVE  LoopInv' /\ RestoreInv' /\ ExactInv' /\ EndInv'
  OBVIOUS
<1> USE DEF IInv
<1>0. /\ pc = "install" /\ pc \in Looping /\ transfer \in 1..Transfers
      /\ at \in Entries /\ at \in Int /\ Away(at)
  BY DEF InstallEntry, Looping, Begun, TypeOK, Entries, LoopInv, PastInstall, PastSave
<1>1. CASE pc' = "restore"
  BY <1>0, <1>1, LeaveLoop DEF InstallEntry, CommandFails
<1>2. CASE pc' = "noteInstalled"
  <2>1. /\ runtime[transfer][at] \in Node /\ runtime[transfer][at] = Whole(transfer)
        /\ UNCHANGED <<previous, transfer, at, installed, saved, before, trouble>>
    BY <1>0, <1>2 DEF InstallEntry, CommandFails, TypeOK, Tree, Away
  <2>2. /\ \A f \in Entries : dest'[f] = IF f = at THEN Whole(transfer) ELSE dest[f]
        /\ \A f \in Entries : f # at => runtime'[transfer][f] = runtime[transfer][f]
    <3>1. /\ dest' = [dest EXCEPT ![at] = Whole(transfer)] /\ dest \in Tree
          /\ runtime' = [runtime EXCEPT ![transfer][at] = Empty]
          /\ runtime \in [1..Transfers -> Tree]
      BY <1>2, <2>1 DEF InstallEntry, CommandFails, TypeOK
    <3>2. Whole(transfer) \in Node /\ Empty \in Node
      BY <2>1, EmptyIsNoBuild
    <3> QED
      BY <1>0, <3>1, <3>2, PutAt, PutIn
  <2>3. ASSUME NEW e \in Entries
        PROVE  /\ PastInstall(e)' <=> PastInstall(e) \/ e = at
               /\ ~PastSave(e)' /\ (PastSave(e) <=> e = at) /\ ~PastInstall(at)
    BY <1>0, <1>2, <2>1 DEF PastInstall, PastSave
  <2>4. ASSUME NEW e \in Entries
        PROVE  /\ PastInstall(e)' => Swapped(e)'
               /\ PastSave(e)' => Away(e)'
               /\ ~PastInstall(e)' /\ ~PastSave(e)' => Untouched(e)'
    <3>1. /\ PastInstall(e) => Swapped(e)
          /\ ~PastInstall(e) /\ ~PastSave(e) => Untouched(e)
      BY <1>0 DEF LoopInv
    <3> QED
      BY <1>0, <3>1, <2>1, <2>2, <2>3 DEF Swapped, Away, Untouched
  <2>5. ASSUME NEW e \in Entries
        PROVE  /\ e \in installed <=> e < at
               /\ e \in saved <=> before[e] # Empty /\ (e < at \/ e = at)
    BY <1>0 DEF LoopInv
  <2>6. trouble'[transfer'] = {}
    BY <1>0, <2>1 DEF LoopInv
  <2>7. LoopInv'
    BY <1>0, <1>2, <2>1, <2>4, <2>5, <2>6 DEF LoopInv
  <2> QED
    BY <1>2, <2>7 DEF RestoreInv, ExactInv, EndInv
<1> QED
  BY <1>1, <1>2 DEF InstallEntry, CommandFails

\* The script ends, or a signal interrupts it.
LEMMA EndOfLoopInv ==
    IInv /\ TypeOK' /\ (Finish \/ Signal) => LoopInv' /\ RestoreInv' /\ ExactInv' /\ EndInv'
<1> SUFFICES ASSUME IInv, TypeOK', Finish \/ Signal
             PROVE  LoopInv' /\ RestoreInv' /\ ExactInv' /\ EndInv'
  OBVIOUS
<1> USE DEF IInv
<1>1. CASE Signal
  <2>1. pc \in Looping /\ transfer \in 1..Transfers /\ trouble \in [1..Transfers -> SUBSET {"unnoted", "stuck"}]
    BY <1>1 DEF Signal, Begun, TypeOK, Looping
  <2>2. \/ trouble' = trouble /\ pc \notin {"noteSaved", "noteInstalled"}
        \/ trouble'[transfer] # {}
    BY <1>1, <2>1 DEF Signal
  <2> QED
    BY <1>1, <2>1, <2>2, LeaveLoop DEF Signal
<1>2. CASE Finish
  <2>1. /\ pc = "finish" /\ pc \in Looping /\ at = LastEntry /\ pc' = "done"
        /\ UNCHANGED <<dest, previous, transfer, before>>
    BY <1>2 DEF Finish, Looping, LoopInv
  <2>2. ASSUME NEW e \in Entries PROVE Swapped(e)'
    <3>1. PastInstall(e)
      BY <2>1, EntriesAssumption DEF PastInstall, Entries
    <3>2. Swapped(e)
      BY <2>1, <3>1 DEF LoopInv
    <3> QED
      BY <2>1, <3>2 DEF Swapped
  <2> QED
    BY <2>1, <2>2 DEF LoopInv, Looping, RestoreInv, ExactInv, EndInv
<1> QED
  BY <1>1, <1>2

----------------------------------------------------------------------------
\* The steps of the restore.
LEMMA Stuck ==
    ASSUME TypeOK, transfer \in 1..Transfers,
           trouble' = [trouble EXCEPT ![transfer] = @ \cup {"stuck"}]
    PROVE  /\ trouble'[transfer] # {}
           /\ \A n \in 1..Transfers : n > transfer => trouble'[n] = trouble[n]
<1>1. trouble'[transfer] = trouble[transfer] \cup {"stuck"}
  BY DEF TypeOK
<1>2. \A n \in 1..Transfers : n # transfer => trouble'[n] = trouble[n]
  BY DEF TypeOK
<1> QED
  BY <1>1, <1>2

LEMMA RestoreInstalledInv ==
    IInv /\ TypeOK' /\ RestoreInstalled =>
        Fresh' /\ Older' /\ Begun' /\ LoopInv' /\ RestoreInv' /\ ExactInv' /\ EndInv'
<1> SUFFICES ASSUME IInv, TypeOK', RestoreInstalled
             PROVE  Fresh' /\ Older' /\ Begun' /\ LoopInv' /\ RestoreInv' /\ ExactInv' /\ EndInv'
  OBVIOUS
<1> USE DEF IInv
<1>0. /\ pc = "restore" /\ transfer > 0 /\ transfer \in 1..Transfers
      /\ UNCHANGED <<transfer, pc, at, saved, before, previous>>
  BY DEF RestoreInstalled, MoveFails, Begun, TypeOK
<1>1. PICK e \in Entries : RestoreInstalled!2!(e)
  BY DEF RestoreInstalled
<1>2. /\ e \in installed /\ installed' = installed \ {e} /\ Swapped(e)
      /\ \A f \in installed : f <= e
  BY <1>0, <1>1 DEF LatestOf, RestoreInv, TypeOK
<1>3. /\ \A n \in 1..Transfers : n > transfer => trouble'[n] = trouble[n]
      /\ trouble'[transfer] = {} => /\ trouble[transfer] = {}
                                    /\ dest' = [dest EXCEPT ![e] = Empty]
      /\ \A f \in Entries : f # e => dest'[f] = dest[f]
      /\ dest'[e] \in {dest[e], Empty}
  <2>1. CASE MoveFails
    BY <1>0, <2>1, Stuck DEF MoveFails
  <2>2. CASE dest' = [dest EXCEPT ![e] = Empty] /\ trouble' = trouble
    BY <2>2 DEF TypeOK, Tree
  <2> QED
    BY <1>1, <2>1, <2>2
<1>4. Fresh' /\ Begun'
  BY <1>0, <1>3 DEF Fresh, Begun
<1>5. Older'
  BY <1>0, <1>3, EmptyIsNoBuild, TransfersAssumption DEF Older
<1>6. RestoreInv'
  <2> SUFFICES ASSUME NEW f \in Entries
               PROVE  /\ f \in installed' => Swapped(f)'
                      /\ f \in saved' => /\ previous'[transfer'][f] = before'[f]
                                         /\ dest'[f] \in {Empty, Whole(transfer')}
                      /\ Kept(f)'
    BY <1>0 DEF RestoreInv
  <2>1. CASE f = e
    BY <1>0, <1>2, <1>3, <2>1 DEF Swapped, Kept
  <2>2. CASE f # e
    <3>1. /\ f \in installed => Swapped(f)
          /\ f \in saved => /\ previous[transfer][f] = before[f]
                            /\ dest[f] \in {Empty, Whole(transfer)}
          /\ Kept(f)
      BY <1>0 DEF RestoreInv
    <3> QED
      BY <1>0, <1>2, <1>3, <2>2, <3>1 DEF Swapped, Kept
  <2> QED
    BY <2>1, <2>2
<1>7. ExactInv'
  <2> SUFFICES ASSUME trouble'[transfer] = {}
               PROVE  /\ Marker \notin installed'
                      /\ \A f \in Entries :
                           /\ f \in installed' => (f \in saved <=> before[f] # Empty)
                           /\ f \notin installed' /\ f \in saved => dest'[f] = Empty
                           /\ f \notin installed' /\ f \notin saved => dest'[f] = before[f]
    BY <1>0 DEF ExactInv
  <2>1. Marker \notin installed'
    <3>1. e \in Int /\ e <= LastEntry /\ LastEntry \in Int
      BY EntriesAssumption DEF Entries
    <3> QED
      BY <1>2, <3>1 DEF Marker
  <2>2. \A f \in Entries :
          /\ f \in installed => (f \in saved <=> before[f] # Empty)
          /\ f \notin installed /\ f \in saved => dest[f] = Empty
          /\ f \notin installed /\ f \notin saved => dest[f] = before[f]
    BY <1>0, <1>3 DEF ExactInv
  <2>3. dest'[e] = Empty
    BY <1>3 DEF TypeOK, Tree
  <2> QED
    BY <1>2, <1>3, <2>1, <2>2, <2>3
<1> QED
  BY <1>0, <1>4, <1>5, <1>6, <1>7 DEF LoopInv, EndInv, Looping

LEMMA RestoreSavedInv ==
    IInv /\ TypeOK' /\ RestoreSaved =>
        Fresh' /\ Older' /\ Begun' /\ LoopInv' /\ RestoreInv' /\ ExactInv' /\ EndInv'
<1> SUFFICES ASSUME IInv, TypeOK', RestoreSaved
             PROVE  Fresh' /\ Older' /\ Begun' /\ LoopInv' /\ RestoreInv' /\ ExactInv' /\ EndInv'
  OBVIOUS
<1> USE DEF IInv
<1>0. /\ pc = "restore" /\ transfer > 0 /\ transfer \in 1..Transfers /\ installed = {}
      /\ UNCHANGED <<transfer, pc, at, installed, before, runtime>>
  BY DEF RestoreSaved, InstalledFirst, MoveFails, Begun, TypeOK
<1>1. PICK e \in Entries : RestoreSaved!2!(e)
  BY DEF RestoreSaved
<1>2. /\ e \in saved /\ saved' = saved \ {e}
      /\ previous[transfer][e] = before[e] /\ dest[e] \in {Empty, Whole(transfer)} /\ Kept(e)
  BY <1>0, <1>1 DEF LatestOf, RestoreInv
<1> DEFINE landed == Onto(e, dest[e], before[e])
<1>3. /\ before[e] \in Node /\ dest[e] \in Node
      /\ landed.of \in {dest[e].of, before[e].of}
      /\ before[e].of \in {landed.of, landed.holds}
      /\ dest[e] = Empty => landed = before[e]
      /\ landed \in Node
  BY EmptyIsNoBuild DEF Onto, TypeOK, Tree, Node
<1>4. \/ /\ dest' = [dest EXCEPT ![e] = landed] /\ trouble' = trouble
         /\ previous' = [previous EXCEPT ![transfer][e] = Empty]
      \/ /\ trouble' = [trouble EXCEPT ![transfer] = @ \cup {"stuck"}]
         /\ UNCHANGED <<dest, previous>>
  BY <1>1, <1>2 DEF MoveFails
<1> HIDE DEF landed
<1>5. /\ \A f \in Entries : f # e => /\ dest'[f] = dest[f]
                                     /\ previous'[transfer][f] = previous[transfer][f]
      /\ \A n \in 1..Transfers : n > transfer => /\ trouble'[n] = trouble[n]
                                                 /\ previous'[n] = previous[n]
      /\ trouble'[transfer] = {} => trouble[transfer] = {} /\ dest'[e] = landed
      /\ \/ dest'[e] = landed
         \/ dest'[e] = dest[e] /\ previous'[transfer][e] = previous[transfer][e]
  <2>1. CASE /\ trouble' = [trouble EXCEPT ![transfer] = @ \cup {"stuck"}]
             /\ UNCHANGED <<dest, previous>>
    BY <1>0, <2>1, Stuck
  <2>2. CASE /\ dest' = [dest EXCEPT ![e] = landed] /\ trouble' = trouble
             /\ previous' = [previous EXCEPT ![transfer][e] = Empty]
    <3>1. \A f \in Entries : dest'[f] = IF f = e THEN landed ELSE dest[f]
      BY <1>3, <2>2, PutAt DEF TypeOK
    <3>2. \A f \in Entries :
             previous'[transfer][f] = IF f = e THEN Empty ELSE previous[transfer][f]
      <4>1. previous \in [1..Transfers -> Tree] /\ transfer \in 1..Transfers
        BY <1>0 DEF TypeOK
      <4>2. previous'[transfer] = [previous[transfer] EXCEPT ![e] = Empty]
        BY <2>2, <4>1
      <4>3. previous[transfer] \in Tree
        BY <4>1
      <4> QED
        BY <4>2, <4>3 DEF Tree
    <3>3. \A n \in 1..Transfers : n > transfer => previous'[n] = previous[n]
      BY <1>0, <2>2 DEF TypeOK
    <3> QED
      BY <2>2, <3>1, <3>2, <3>3
  <2> QED
    BY <1>4, <2>1, <2>2
<1>6. Fresh' /\ Begun'
  BY <1>0, <1>5 DEF Fresh, Begun
<1>7. Older'
  <2> SUFFICES ASSUME NEW f \in Entries, dest'[f].of \in Int PROVE dest'[f].of <= transfer
    BY <1>0 DEF Older
  <2>1. transfer \in Int /\ \A x \in Entries : dest[x].of \in Int => dest[x].of <= transfer
    BY <1>0 DEF Older
  <2>2. before[e].of \in Int => before[e].of < transfer
    BY <1>0 DEF Older
  <2> QED
    BY <1>3, <1>5, <2>1, <2>2
<1>8. RestoreInv'
  <2> SUFFICES ASSUME NEW f \in Entries
               PROVE  /\ f \in saved' => /\ previous'[transfer][f] = before[f]
                                         /\ dest'[f] \in {Empty, Whole(transfer)}
                      /\ Kept(f)'
    BY <1>0 DEF RestoreInv
  <2>1. CASE f = e
    BY <1>0, <1>2, <1>3, <1>5, <2>1 DEF Kept
  <2>2. CASE f # e
    <3>1. /\ f \in saved => /\ previous[transfer][f] = before[f]
                            /\ dest[f] \in {Empty, Whole(transfer)}
          /\ Kept(f)
      BY <1>0 DEF RestoreInv
    <3> QED
      BY <1>0, <1>2, <1>5, <2>2, <3>1 DEF Kept
  <2> QED
    BY <2>1, <2>2
<1>9. ExactInv'
  <2> SUFFICES ASSUME trouble'[transfer] = {}
               PROVE  \A f \in Entries : /\ f \in saved' => dest'[f] = Empty
                                         /\ f \notin saved' => dest'[f] = before[f]
    BY <1>0 DEF ExactInv
  <2>1. \A f \in Entries : /\ f \in saved => dest[f] = Empty
                           /\ f \notin saved => dest[f] = before[f]
    BY <1>0, <1>5 DEF ExactInv
  <2> QED
    BY <1>2, <1>3, <1>5, <2>1
<1> QED
  BY <1>0, <1>6, <1>7, <1>8, <1>9 DEF LoopInv, EndInv, Looping

\* The restore is through, or the script is cut off: nothing moves.
LEMMA EndInvs ==
    IInv /\ TypeOK' /\ (EndRestore \/ Killed) =>
        Fresh' /\ Older' /\ Begun' /\ LoopInv' /\ RestoreInv' /\ ExactInv' /\ EndInv'
<1> SUFFICES ASSUME IInv, TypeOK', EndRestore \/ Killed
             PROVE  Fresh' /\ Older' /\ Begun' /\ LoopInv' /\ RestoreInv' /\ ExactInv' /\ EndInv'
  OBVIOUS
<1>0. /\ pc' \in {"failed", "killed"} /\ transfer > 0
      /\ UNCHANGED <<dest, runtime, previous, transfer, before, trouble>>
  BY DEF EndRestore, Killed, IInv, Begun, Looping
<1>1. Fresh' /\ Older' /\ Begun'
  BY <1>0 DEF IInv, Fresh, Older, Begun
<1>2. LoopInv' /\ RestoreInv' /\ ExactInv'
  BY <1>0 DEF LoopInv, RestoreInv, ExactInv, Looping
<1>3. EndInv'
  <2>1. CASE EndRestore
    <3>1. pc = "restore" /\ installed = {} /\ saved = {} /\ pc' = "failed"
      BY <2>1 DEF EndRestore
    <3>2. \A e \in Entries : Kept(e) /\ (trouble[transfer] = {} => dest[e] = before[e])
      BY <3>1 DEF IInv, RestoreInv, ExactInv
    <3> QED
      BY <1>0, <3>1, <3>2 DEF EndInv, Kept
  <2>2. CASE Killed
    <3>1. MarkerTrue /\ \A e \in Entries : Kept(e)
      BY <1>0, Safe DEF SwapSafe, NothingLost, Kept
    <3> QED
      BY <1>0, <2>2, <3>1 DEF EndInv, Kept, MarkerTrue, Killed
  <2> QED
    BY <2>1, <2>2
<1> QED
  BY <1>1, <1>2, <1>3

LEMMA NextInv == IInv /\ [InstallNext]_vars => IInv'
<1> SUFFICES ASSUME IInv, [InstallNext]_vars PROVE IInv'
  OBVIOUS
<1>0. TypeOK'
  BY TypeStep DEF IInv
<1>1. CASE Unpack
  BY <1>0, <1>1, UnpackInv
<1>2. CASE SaveEntry
  BY <1>0, <1>2, LoopStep, SaveInv DEF IInv
<1>3. CASE NoteSaved \/ NoteInstalled
  BY <1>0, <1>3, LoopStep, NoteInv DEF IInv
<1>4. CASE InstallEntry
  BY <1>0, <1>4, LoopStep, InstallEntryInv DEF IInv
<1>5. CASE Finish \/ Signal
  BY <1>0, <1>5, LoopStep, EndOfLoopInv DEF IInv
<1>6. CASE RestoreInstalled
  BY <1>0, <1>6, RestoreInstalledInv DEF IInv
<1>7. CASE RestoreSaved
  BY <1>0, <1>7, RestoreSavedInv DEF IInv
<1>8. CASE EndRestore \/ Killed
  BY <1>0, <1>8, EndInvs DEF IInv
<1>9. CASE AllTransferred \/ UNCHANGED vars
  <2>1. UNCHANGED vars
    BY <1>9 DEF AllTransferred
  <2> QED
    BY <2>1 DEF vars, IInv, TypeOK, Fresh, Older, Begun, LoopInv, RestoreInv, ExactInv, EndInv,
       Swapped, Untouched, Away, Kept, PastInstall, PastSave, MarkerTrue
<1> QED
  BY <1>1, <1>2, <1>3, <1>4, <1>5, <1>6, <1>7, <1>8, <1>9 DEF InstallNext

\* install-nas-build.sh keeps its variables and directories in their types.
THEOREM InstallTypeCorrect == InstallSpec => []TypeOK
<1>1. IInv => TypeOK
  BY DEF IInv
<1> QED
  BY InitInv, NextInv, <1>1, PTL DEF InstallSpec

\* The swap is all or nothing, the old build is never lost, and the marker
\* tells the truth: for any entries, however many transfers and wherever they
\* are interrupted.
THEOREM InstallSwapSafe == InstallSpec => []SwapSafe
<1> QED
  BY InitInv, NextInv, Safe, PTL DEF InstallSpec

----------------------------------------------------------------------------
----------------------------------------------------------------------------
(* Migrations.  First the schemas, revision by revision: After is a        *)
(* recursive function, which exists for every sequence of operations.      *)

\* Induction over the positions of a sequence of operations.
LEMMA UpTo ==
    ASSUME NEW n \in Nat, NEW P \in SUBSET (0..n), 0 \in P,
           \A i \in 1..n : i - 1 \in P => i \in P
    PROVE  P = 0..n
  <1> DEFINE bad == (0..n) \ P
             R == OpToRel(<, Nat)
  <1> SUFFICES ASSUME bad # {} PROVE FALSE
    OBVIOUS
  <1>0. IsWellFoundedOn(R, Nat)
    BY NatLessThanWellFounded, Zenon
  <1>4. ASSUME NEW i \in 1..n PROVE <<i - 1, i>> \in R
    <2>1. i \in Nat /\ i - 1 \in Nat /\ i - 1 < i
      OBVIOUS
    <2>2. <<i - 1, i>> \in Nat \X Nat /\ <<i - 1, i>>[1] < <<i - 1, i>>[2]
      BY <2>1
    <2>3. R = {ss \in Nat \X Nat : ss[1] < ss[2]}
      BY Zenon DEF OpToRel
    <2> HIDE DEF R
    <2> QED BY <2>2, <2>3
  <1> HIDE DEF R
  <1>1. PICK i \in bad : \A j \in bad : <<j, i>> \notin R
    <2>1. bad \subseteq Nat
      OBVIOUS
    <2> HIDE DEF bad
    <2>2. \E i \in bad : \A j \in bad : ~(<<j, i>> \in R)
      BY <1>0, <2>1, WFMin
    <2> QED BY <2>2
  <1>2. i \in 1..n /\ i - 1 \in 0..n
    BY <1>1
  <1>3. i - 1 \in P
    BY <1>1, <1>2, <1>4
  <1> QED BY <1>2, <1>3
\* g[i] is the schema after the first i operations.
Runs(g, s, ops) == g = [i \in 0..Len(ops) |-> IF i = 0 THEN s ELSE Apply(g[i - 1], ops[i])]
Run(s, ops) == CHOOSE g : Runs(g, s, ops)

LEMMA AfterIsRun ==
    ASSUME NEW s, NEW ops PROVE After(s, ops) = Run(s, ops)[Len(ops)]
  BY Zenon DEF After, Run, Runs

LEMMA RunExists ==
    ASSUME NEW s, NEW ops, Len(ops) \in Nat
    PROVE  Runs(Run(s, ops), s, ops)
  <1> DEFINE n == Len(ops)
             Partial(g, k) == /\ g[0] = s
                              /\ \A i \in 1..k : g[i] = Apply(g[i - 1], ops[i])
             P == {k \in 0..n : \E g : Partial(g, k)}
  <1>1. 0 \in P
    <2> DEFINE g == [i \in {0} |-> s]
    <2>1. g[0] = s /\ 1..0 = {}
      OBVIOUS
    <2> HIDE DEF g
    <2>2. Partial(g, 0)
      BY <2>1
    <2> QED BY <2>2
  <1>2. ASSUME NEW k \in 1..n, k - 1 \in P
        PROVE  k \in P
    <2>1. PICK g : Partial(g, k - 1)
      BY <1>2
    <2> DEFINE h == [i \in 0..n |-> IF i = k THEN Apply(g[k - 1], ops[k]) ELSE g[i]]
    <2>2. h[0] = s
      BY <2>1
    <2>3. ASSUME NEW i \in 1..k
          PROVE  h[i] = Apply(h[i - 1], ops[i])
      BY <2>1
    <2>4. Partial(h, k)
      BY <2>2, <2>3
    <2> HIDE DEF h
    <2> QED BY <2>4
  <1>3. n \in P
    <2> HIDE DEF P
    <2>1. P \in SUBSET (0..n)
      BY DEF P
    <2>2. P = 0..n
      BY <1>1, <1>2, <2>1, UpTo
    <2> QED BY <2>2
  <1>4. PICK g : Partial(g, n)
    BY <1>3
  <1> DEFINE h == [i \in 0..n |-> g[i]]
  <1>5. Runs(h, s, ops)
    <2>1. ASSUME NEW i \in 0..n
          PROVE  h[i] = IF i = 0 THEN s ELSE Apply(h[i - 1], ops[i])
      BY <1>4
    <2> QED BY <2>1 DEF Runs
  <1> HIDE DEF h
  <1> QED BY <1>5 DEF Run

\* The schemas on the way, as facts to be used one after the other.
Passes(g, s, ops) ==
    /\ g[0] = s /\ After(s, ops) = g[Len(ops)]
    /\ \A i \in 1..Len(ops) : g[i] = Apply(g[i - 1], ops[i])

LEMMA OnTheWay == ASSUME NEW s, NEW ops, Len(ops) \in Nat PROVE \E g : Passes(g, s, ops)
  <1> DEFINE g == Run(s, ops)
  <1>1. g[0] = s /\ \A i \in 1..Len(ops) : g[i] = Apply(g[i - 1], ops[i])
    BY RunExists DEF Runs
  <1>2. After(s, ops) = g[Len(ops)]
    BY AfterIsRun
  <1> HIDE DEF g
  <1> QED BY <1>1, <1>2 DEF Passes
----------------------------------------------------------------------------
\* A schema PostgreSQL would have: every object is on a table there is, and
\* every foreign key has a target.
Fitting(s) ==
    /\ s # {}
    /\ \A o \in s : o.of \in TablesIn(s) /\ (o.to = "" \/ o.to \in TablesIn(s))
\* Objects that are no tables.
Bare(x) == \A o \in x : o.name # o.of
\* Where objects are: on tables of T, referring to tables of T.
On(s, T) == \A o \in s : o.of \in T /\ (o.to = "" \/ o.to \in T)
\* Table t with its parts and keys.
Entire(x, t) == (\A o \in x : o.of = t) /\ t \in TablesIn(x)
\* The same, to be made in s.
NewIn(s, x, t) == t \notin TablesIn(s) /\ Entire(x, t) /\ On(x, TablesIn(s) \cup {t})
\* What comes of making it, and of dropping it again.
Made(s, x, t) ==
    /\ x \cap s = {}
    /\ Apply(s, Create(x)) = s \cup x /\ Fitting(s \cup x)
    /\ TablesIn(s \cup x) = TablesIn(s) \cup {t}
    /\ Apply(s \cup x, DropTable(t)) = s

LEMMA TablesAre ==
    ASSUME NEW s, NEW t
    PROVE  t \in TablesIn(s) <=> \E o \in s : o.of = t /\ o.name = t
  BY DEF TablesIn

LEMMA TablesOfBoth == ASSUME NEW x, NEW y PROVE TablesIn(x \cup y) = TablesIn(x) \cup TablesIn(y)
  BY DEF TablesIn

LEMMA TablesOfBare == ASSUME NEW x, Bare(x) PROVE TablesIn(x) = {}
  BY DEF TablesIn, Bare

\* What Parts, Table and Key make.
LEMMA PartsMake ==
    ASSUME NEW t, NEW N PROVE Parts(t, N) = [of : {t}, name : N, to : {""}]
  <1>1. ASSUME NEW o \in [of : {t}, name : N, to : {""}]
        PROVE  o \in Parts(t, N)
    <2>1. o = [of |-> t, name |-> o.name, to |-> ""] /\ o.name \in N
      OBVIOUS
    <2> QED BY <2>1 DEF Parts
  <1>2. ASSUME NEW o \in Parts(t, N)
        PROVE  o \in [of : {t}, name : N, to : {""}]
    <2>1. PICK n \in N : o = [of |-> t, name |-> n, to |-> ""]
      BY DEF Parts
    <2> QED BY <2>1
  <1> QED BY <1>1, <1>2

LEMMA KeyMakes ==
    ASSUME NEW t, NEW n, NEW u PROVE Key(t, n, u) = [of : {t}, name : {n}, to : {u}]
  <1>1. ASSUME NEW o \in [of : {t}, name : {n}, to : {u}]
        PROVE  o = [of |-> t, name |-> n, to |-> u]
    OBVIOUS
  <1>2. [of |-> t, name |-> n, to |-> u] \in [of : {t}, name : {n}, to : {u}]
    OBVIOUS
  <1> QED BY <1>1, <1>2 DEF Key

LEMMA TablesOfTable == ASSUME NEW t PROVE TablesIn(Table(t)) = {t}
  <1>1. Table(t) = [of : {t}, name : {t}, to : {""}]
    BY PartsMake DEF Table
  <1>2. [of |-> t, name |-> t, to |-> ""] \in Table(t)
    BY <1>1
  <1>3. ASSUME NEW o \in Table(t) PROVE o.of = t
    <2>1. o \in [of : {t}, name : {t}, to : {""}]
      BY <1>1
    <2> QED BY <2>1
  <1>4. t \in TablesIn(Table(t))
    BY <1>2, TablesAre
  <1> QED BY <1>3, <1>4 DEF TablesIn

\* An operation that is not refused.
LEMMA Applied ==
    ASSUME NEW s, NEW op, s # {}, op.drop \subseteq s, op.tables \subseteq TablesIn(s),
           NEW rest, rest = {o \in s : o.of \notin op.tables} \ op.drop, op.add \cap rest = {},
           Fitting(rest \cup op.add)
    PROVE  Apply(s, op) = rest \cup op.add
  BY DEF Apply, Fitting, Failed

\* Creating what is not there, on tables and with targets that are there then;
\* dropping it again, part by part or with its table.
LEMMA Created ==
    ASSUME NEW s, Fitting(s), NEW x, x \cap s = {},
           \A o \in x : /\ o.of \in TablesIn(s) \cup TablesIn(x)
                        /\ o.to = "" \/ o.to \in TablesIn(s) \cup TablesIn(x)
    PROVE  /\ Apply(s, Create(x)) = s \cup x /\ Fitting(s \cup x)
           /\ Apply(s \cup x, Drop(x)) = s
  <1>1. TablesIn(s \cup x) = TablesIn(s) \cup TablesIn(x)
    BY TablesOfBoth
  <1>2. Fitting(s \cup x)
    BY <1>1 DEF Fitting
  <1>3. Apply(s, Create(x)) = s \cup x
    <2> DEFINE op == Create(x)
    <2>1. op.tables = {} /\ op.drop = {} /\ op.add = x
      BY DEF Create, Replace
    <2> HIDE DEF op
    <2>2. {o \in s : o.of \notin op.tables} \ op.drop = s
      BY <2>1
    <2>3. s # {} /\ Apply(s, op) = s \cup op.add
      BY <1>2, <2>1, <2>2, Applied DEF Fitting
    <2> QED BY <2>1, <2>3 DEF op
  <1>4. Apply(s \cup x, Drop(x)) = s
    <2> DEFINE op == Drop(x)
    <2>1. op.tables = {} /\ op.drop = x /\ op.add = {}
      BY DEF Drop, Replace
    <2> HIDE DEF op
    <2>2. {o \in s \cup x : o.of \notin op.tables} \ op.drop = s
      BY <2>1
    <2>3. s \cup x # {} /\ op.tables \subseteq TablesIn(s \cup x) /\ op.drop \subseteq s \cup x
      BY <2>1 DEF Fitting
    <2>4. op.add \cap s = {} /\ s \cup op.add = s /\ Fitting(s \cup op.add)
      <3>1. s \cup op.add = s
        BY <2>1
      <3> QED BY <2>1, <3>1
    <2> DEFINE y == s \cup x
    <2>5. y # {} /\ op.drop \subseteq y /\ op.tables \subseteq TablesIn(y)
          /\ s = {o \in y : o.of \notin op.tables} \ op.drop
      BY <2>2, <2>3
    <2> HIDE DEF y
    <2>6. Apply(y, op) = s \cup op.add
      BY <2>4, <2>5, Applied
    <2> QED BY <2>4, <2>6 DEF op, y
  <1> QED BY <1>2, <1>3, <1>4

\* A new table, with its parts and keys, and the old schema without it.
LEMMA CreatedTable ==
    ASSUME NEW s, Fitting(s), NEW t, NEW x, NewIn(s, x, t)
    PROVE  Made(s, x, t)
  <1>1. x \cap s = {}
    BY DEF Fitting, NewIn, Entire
  <1>2. TablesIn(x) = {t}
    BY DEF TablesIn, NewIn, Entire
  <1>3. Apply(s, Create(x)) = s \cup x /\ Fitting(s \cup x)
    BY <1>1, <1>2, Created DEF NewIn, On
  <1>4. TablesIn(s \cup x) = TablesIn(s) \cup {t}
    <2>1. TablesIn(s \cup x) = TablesIn(s) \cup TablesIn(x)
      BY TablesOfBoth
    <2> QED BY <1>2, <2>1
  <1>5. Apply(s \cup x, DropTable(t)) = s
    <2> DEFINE op == DropTable(t)
    <2>1. op.tables = {t} /\ op.drop = {} /\ op.add = {}
      BY DEF DropTable
    <2> HIDE DEF op
    <2>2. {o \in s \cup x : o.of \notin op.tables} \ op.drop = s
      BY <2>1 DEF Fitting, NewIn, Entire
    <2>3. s \cup x # {} /\ op.tables \subseteq TablesIn(s \cup x) /\ op.drop \subseteq s \cup x
      BY <1>4, <2>1 DEF Fitting
    <2>4. op.add \cap s = {} /\ s \cup op.add = s /\ Fitting(s \cup op.add)
      <3>1. s \cup op.add = s
        BY <2>1
      <3> QED BY <2>1, <3>1
    <2> DEFINE y == s \cup x
    <2>5. y # {} /\ op.drop \subseteq y /\ op.tables \subseteq TablesIn(y)
          /\ s = {o \in y : o.of \notin op.tables} \ op.drop
      BY <2>2, <2>3
    <2> HIDE DEF y
    <2>6. Apply(y, op) = s \cup op.add
      BY <2>4, <2>5, Applied
    <2> QED BY <2>4, <2>6 DEF op, y
  <1> QED BY <1>1, <1>3, <1>4, <1>5 DEF Made

\* New parts of tables there are.
LEMMA CreatedParts ==
    ASSUME NEW s, Fitting(s), NEW x, x \cap s = {}, Bare(x),
           \A o \in x : o.of \in TablesIn(s) /\ (o.to = "" \/ o.to \in TablesIn(s))
    PROVE  /\ Apply(s, Create(x)) = s \cup x /\ Fitting(s \cup x)
           /\ TablesIn(s \cup x) = TablesIn(s)
           /\ Apply(s \cup x, Drop(x)) = s
  <1>1. TablesIn(x) = {}
    BY TablesOfBare
  <1>2. TablesIn(s \cup x) = TablesIn(s)
    <2>1. TablesIn(s \cup x) = TablesIn(s) \cup TablesIn(x)
      BY TablesOfBoth
    <2> QED BY <1>1, <2>1
  <1> QED BY <1>1, <1>2, Created

\* Parts replaced by others, and back.
LEMMA Replaced ==
    ASSUME NEW s, Fitting(s), NEW old, NEW new, old \subseteq s, new \cap s = {}, Bare(old), Bare(new),
           \A o \in new : o.of \in TablesIn(s) /\ (o.to = "" \/ o.to \in TablesIn(s))
    PROVE  LET t == (s \ old) \cup new
           IN  /\ Apply(s, Replace(old, new)) = t /\ Fitting(t) /\ TablesIn(t) = TablesIn(s)
               /\ Apply(t, Replace(new, old)) = s
  <1> DEFINE t == (s \ old) \cup new
  <1>1. TablesIn(t) = TablesIn(s)
    BY DEF Bare, TablesIn
  <1>2. \A o \in t : o.of \in TablesIn(t) /\ (o.to = "" \/ o.to \in TablesIn(t))
    BY <1>1 DEF Fitting
  <1>3. t # {}
    BY <1>1 DEF Fitting, TablesIn
  <1>4. Apply(s, Replace(old, new)) = t
    <2> DEFINE op == Replace(old, new)
    <2>1. op.tables = {} /\ op.drop = old /\ op.add = new
      BY DEF Replace
    <2> HIDE DEF op
    <2>2. {o \in s : o.of \notin op.tables} \ op.drop = s \ old
      BY <2>1
    <2>3. s # {} /\ op.drop \subseteq s /\ op.tables \subseteq TablesIn(s) /\ op.add \cap (s \ old) = {}
      BY <2>1 DEF Fitting
    <2>4. Fitting((s \ old) \cup op.add)
      BY <1>2, <1>3, <2>1 DEF Fitting
    <2>5. Apply(s, op) = (s \ old) \cup op.add
      BY <2>2, <2>3, <2>4, Applied
    <2> QED BY <2>1, <2>5 DEF op
  <1>5. Apply(t, Replace(new, old)) = s
    <2> DEFINE op == Replace(new, old)
    <2>1. op.tables = {} /\ op.drop = new /\ op.add = old
      BY DEF Replace
    <2> HIDE DEF op
    <2>2. {o \in t : o.of \notin op.tables} \ op.drop = s \ old
      BY <2>1
    <2>3. (s \ old) \cup old = s /\ old \cap (s \ old) = {} /\ new \subseteq t
      OBVIOUS
    <2>4. op.drop \subseteq t /\ op.tables \subseteq TablesIn(t) /\ op.add \cap (s \ old) = {}
          /\ (s \ old) \cup op.add = s /\ Fitting((s \ old) \cup op.add)
      <3>1. (s \ old) \cup op.add = s
        BY <2>1, <2>3
      <3> QED BY <1>1, <2>1, <2>3, <3>1
    <2> HIDE DEF t
    <2>5. Apply(t, op) = (s \ old) \cup op.add
      BY <1>3, <2>2, <2>4, Applied
    <2> QED BY <2>4, <2>5 DEF op
  <1> QED BY <1>1, <1>2, <1>3, <1>4, <1>5 DEF Fitting

\* Dropping parts, or a table nothing else refers to.
LEMMA Dropped ==
    ASSUME NEW s, Fitting(s), NEW x, x \subseteq s, Bare(x)
    PROVE  Apply(s, Drop(x)) = s \ x /\ Fitting(s \ x) /\ TablesIn(s \ x) = TablesIn(s)
  <1>1. TablesIn(s \ x) = TablesIn(s)
    BY DEF Bare, TablesIn
  <1>2. Fitting(s \ x)
    <2>1. s \ x # {}
      BY <1>1 DEF Fitting, TablesIn
    <2> QED BY <1>1, <2>1 DEF Fitting
  <1> DEFINE op == Drop(x)
  <1>3. op.tables = {} /\ op.drop = x /\ op.add = {}
    BY DEF Drop, Replace
  <1> HIDE DEF op
  <1>4. {o \in s : o.of \notin op.tables} \ op.drop = s \ x
    BY <1>3
  <1>5. Apply(s, op) = s \ x
    BY <1>2, <1>3, <1>4 DEF Apply, Fitting, Failed
  <1> QED BY <1>1, <1>2, <1>5 DEF op


----------------------------------------------------------------------------
\* The history as it was meant to be: the schema of every revision, spelled out.

LegacyTables ==
    {"daily_briefings", "guest_interests", "interest_embeddings", "issue_clusters", "news_embeddings",
     "schedules", "shared_briefings", "stocks", "user_briefings", "user_interests", "users",
     "raw_articles", "commute_routes", "commute_queries"}

\* What the first revision leaves alone.
LegacyKeys ==
    Key("issue_clusters", "fk_issue_clusters_centroid", "news_embeddings")
    \cup Key("raw_articles", "raw_articles_cluster_id_fkey", "issue_clusters")
    \cup Key("news_embeddings", "news_embeddings_article_id_fkey", "raw_articles")
    \cup Key("user_briefings", "user_briefings_user_id_fkey", "users")
    \cup Key("shared_briefings", "shared_briefings_created_by_user_id_fkey", "users")
    \cup Key("user_interests", "user_interests_user_id_fkey", "users")
    \cup Key("commute_queries", "commute_queries_user_id_fkey", "users")
    \cup Key("commute_routes", "commute_routes_user_id_fkey", "users")
    \cup Key("schedules", "schedules_user_id_fkey", "users")
LegacyUnique == Parts("raw_articles", {"raw_articles_url_key"}) \cup Parts("users", {"users_email_key"})
LegacyRest == (UNION {Table(t) : t \in LegacyTables}) \cup LegacyUnique \cup LegacyKeys

Password == Parts("users", {"password_hash"})
Schema1 == LegacyRest \cup PartsOf(RenamedNames)
Schema2 == Schema1 \cup Password
Schema3 == Schema2 \cup ProviderKeys
Schema4 == (Schema3 \ JsonLists) \cup ArrayLists
Schema5 == Schema4 \cup WeatherFavorites
Schema6 == Schema5 \cup CommuteFavorites
Schema7 == Schema4 \cup CommuteFavorites

LEMMA LegacyTablesAre ==
    DOMAIN LegacyNames \cup {"raw_articles", "commute_routes", "commute_queries"} = LegacyTables
  BY DEF LegacyNames, LegacyTables

LEMMA LegacyIs == LegacySchema = PartsOf(LegacyNames) \cup LegacyRest
  <1> DEFINE T == DOMAIN LegacyNames \cup {"raw_articles", "commute_routes", "commute_queries"}
  <1>1. T = LegacyTables
    BY LegacyTablesAre
  <1>2. LegacySchema
        = PartsOf(LegacyNames) \cup (UNION {Table(t) : t \in T})
          \cup Parts("raw_articles", {"raw_articles_url_key"}) \cup Parts("users", {"users_email_key"})
          \cup Key("issue_clusters", "fk_issue_clusters_centroid", "news_embeddings")
          \cup Key("raw_articles", "raw_articles_cluster_id_fkey", "issue_clusters")
          \cup Key("news_embeddings", "news_embeddings_article_id_fkey", "raw_articles")
          \cup Key("user_briefings", "user_briefings_user_id_fkey", "users")
          \cup Key("shared_briefings", "shared_briefings_created_by_user_id_fkey", "users")
          \cup Key("user_interests", "user_interests_user_id_fkey", "users")
          \cup Key("commute_queries", "commute_queries_user_id_fkey", "users")
          \cup Key("commute_routes", "commute_routes_user_id_fkey", "users")
          \cup Key("schedules", "schedules_user_id_fkey", "users")
    BY DEF LegacySchema
  <1> HIDE DEF T
  <1>3. UNION {Table(t) : t \in T} = UNION {Table(t) : t \in LegacyTables}
    BY <1>1
  <1> QED BY <1>2, <1>3 DEF LegacyRest, LegacyUnique, LegacyKeys

\* The names of objects.
Named(s, N) == \A o \in s : o.name \in N

LEMMA NamedParts == ASSUME NEW t, NEW N, NEW M, N \subseteq M PROVE Named(Parts(t, N), M)
  BY PartsMake DEF Named

LEMMA NamedKey == ASSUME NEW t, NEW n, NEW u, NEW M, n \in M PROVE Named(Key(t, n, u), M)
  BY KeyMakes DEF Named

LEMMA NamedTable == ASSUME NEW t, NEW M, t \in M PROVE Named(Table(t), M)
  BY NamedParts DEF Table

LEMMA NamedBoth == ASSUME NEW x, NEW y, NEW M PROVE Named(x \cup y, M) <=> Named(x, M) /\ Named(y, M)
  BY DEF Named

LEMMA NamedApart == ASSUME NEW x, NEW y, NEW M, NEW N, Named(x, M), Named(y, N), M \cap N = {} PROVE x \cap y = {}
  BY DEF Named

LEMMA NamedMore == ASSUME NEW x, NEW M, NEW N, Named(x, M), M \subseteq N PROVE Named(x, N)
  BY DEF Named

LEMMA NamedPartsOf ==
    ASSUME NEW f, NEW M, \A t \in DOMAIN f : f[t] \subseteq M PROVE Named(PartsOf(f), M)
  <1> SUFFICES ASSUME NEW t \in DOMAIN f, NEW o \in Parts(t, f[t]) PROVE o.name \in M
    BY DEF Named, PartsOf
  <1>1. Named(Parts(t, f[t]), M)
    BY NamedParts
  <1> QED BY <1>1 DEF Named

LegacyPartNames ==
    {"top_issue_ids_jsonb", "daily_briefings_briefing_date_time_slot_key", "idx_daily_briefings_date",
     "idx_guest_interests_session_token", "embedding_jsonb",
     "interest_embeddings_owner_type_owner_ref_id_keyword_key", "related_stock_codes_jsonb",
     "idx_issue_clusters_active_date", "idx_issue_clusters_category", "news_embeddings_article_id_key",
     "idx_schedules_date", "idx_shared_briefings_token", "shared_briefings_share_token_key",
     "idx_stocks_name", "stocks_code_key", "matched_issue_ids_jsonb", "idx_user_briefings_date",
     "user_briefings_user_id_briefing_date_time_slot_key", "user_interests_user_id_type_value_key",
     "users_provider_provider_id_key"}
RenamedPartNames ==
    {"top_issue_ids_json", "ix_daily_briefings_briefing_date", "ix_guest_interests_session_token",
     "embedding_json", "related_stock_codes_json", "ix_schedules_schedule_date",
     "ix_shared_briefings_share_token", "ix_stocks_code", "ix_stocks_name", "matched_issue_ids_json",
     "ix_user_briefings_briefing_date"}
LegacyRestNames ==
    LegacyTables \cup
    {"raw_articles_url_key", "users_email_key", "fk_issue_clusters_centroid", "raw_articles_cluster_id_fkey",
     "news_embeddings_article_id_fkey", "user_briefings_user_id_fkey",
     "shared_briefings_created_by_user_id_fkey", "user_interests_user_id_fkey",
     "commute_queries_user_id_fkey", "commute_routes_user_id_fkey", "schedules_user_id_fkey"}
ArrayNames == {"top_issue_ids_array", "matched_issue_ids_array", "related_stock_codes_array"}

LEMMA LegacyNamed == Named(PartsOf(LegacyNames), LegacyPartNames)
  <1>1. ASSUME NEW t \in DOMAIN LegacyNames PROVE LegacyNames[t] \subseteq LegacyPartNames
    <2>1. t \in {"daily_briefings", "guest_interests", "interest_embeddings",
               "issue_clusters", "news_embeddings", "schedules", "shared_briefings",
               "stocks", "user_briefings", "user_interests", "users"}
      BY DEF LegacyNames
    <2>2. /\ LegacyNames["daily_briefings"] \subseteq LegacyPartNames
          /\ LegacyNames["guest_interests"] \subseteq LegacyPartNames
          /\ LegacyNames["interest_embeddings"] \subseteq LegacyPartNames
          /\ LegacyNames["issue_clusters"] \subseteq LegacyPartNames
          /\ LegacyNames["news_embeddings"] \subseteq LegacyPartNames
          /\ LegacyNames["schedules"] \subseteq LegacyPartNames
          /\ LegacyNames["shared_briefings"] \subseteq LegacyPartNames
          /\ LegacyNames["stocks"] \subseteq LegacyPartNames
          /\ LegacyNames["user_briefings"] \subseteq LegacyPartNames
          /\ LegacyNames["user_interests"] \subseteq LegacyPartNames
          /\ LegacyNames["users"] \subseteq LegacyPartNames
      BY DEF LegacyNames, LegacyPartNames
    <2> QED BY <2>1, <2>2
  <1> QED BY <1>1, NamedPartsOf

LEMMA RenamedNamed == Named(PartsOf(RenamedNames), RenamedPartNames)
  <1>1. ASSUME NEW t \in DOMAIN RenamedNames PROVE RenamedNames[t] \subseteq RenamedPartNames
    <2>1. t \in {"daily_briefings", "guest_interests", "interest_embeddings",
               "issue_clusters", "news_embeddings", "schedules", "shared_briefings",
               "stocks", "user_briefings"}
      BY DEF RenamedNames
    <2>2. /\ RenamedNames["daily_briefings"] \subseteq RenamedPartNames
          /\ RenamedNames["guest_interests"] \subseteq RenamedPartNames
          /\ RenamedNames["interest_embeddings"] \subseteq RenamedPartNames
          /\ RenamedNames["issue_clusters"] \subseteq RenamedPartNames
          /\ RenamedNames["news_embeddings"] \subseteq RenamedPartNames
          /\ RenamedNames["schedules"] \subseteq RenamedPartNames
          /\ RenamedNames["shared_briefings"] \subseteq RenamedPartNames
          /\ RenamedNames["stocks"] \subseteq RenamedPartNames
          /\ RenamedNames["user_briefings"] \subseteq RenamedPartNames
      BY DEF RenamedNames, RenamedPartNames
    <2> QED BY <2>1, <2>2
  <1> QED BY <1>1, NamedPartsOf

LEMMA RestNamed == Named(LegacyRest, LegacyRestNames)
  <1> DEFINE M == LegacyRestNames
  <1>1. \A t \in LegacyTables : Named(Table(t), M)
    <2>1. \A t \in LegacyTables : t \in M
      BY DEF LegacyRestNames
    <2> HIDE DEF M
    <2> QED BY <2>1, NamedTable
  <1>2. Named(UNION {Table(t) : t \in LegacyTables}, M)
    BY <1>1 DEF Named
  <1>3. /\ "fk_issue_clusters_centroid" \in M /\ "raw_articles_cluster_id_fkey" \in M
        /\ "news_embeddings_article_id_fkey" \in M /\ "user_briefings_user_id_fkey" \in M
        /\ "shared_briefings_created_by_user_id_fkey" \in M /\ "user_interests_user_id_fkey" \in M
        /\ "commute_queries_user_id_fkey" \in M /\ "commute_routes_user_id_fkey" \in M
        /\ "schedules_user_id_fkey" \in M
        /\ {"raw_articles_url_key"} \subseteq M /\ {"users_email_key"} \subseteq M
    BY DEF LegacyRestNames
  <1> HIDE DEF M
  <1>4. Named(LegacyKeys, M)
    <2>1. /\ Named(Key("issue_clusters", "fk_issue_clusters_centroid", "news_embeddings"), M)
          /\ Named(Key("raw_articles", "raw_articles_cluster_id_fkey", "issue_clusters"), M)
          /\ Named(Key("news_embeddings", "news_embeddings_article_id_fkey", "raw_articles"), M)
          /\ Named(Key("user_briefings", "user_briefings_user_id_fkey", "users"), M)
          /\ Named(Key("shared_briefings", "shared_briefings_created_by_user_id_fkey", "users"), M)
          /\ Named(Key("user_interests", "user_interests_user_id_fkey", "users"), M)
          /\ Named(Key("commute_queries", "commute_queries_user_id_fkey", "users"), M)
          /\ Named(Key("commute_routes", "commute_routes_user_id_fkey", "users"), M)
          /\ Named(Key("schedules", "schedules_user_id_fkey", "users"), M)
      BY <1>3, NamedKey
    <2> QED BY <2>1 DEF LegacyKeys, Named
  <1>5. Named(LegacyUnique, M)
    BY <1>3, NamedParts, NamedBoth DEF LegacyUnique
  <1>6. Named(LegacyRest, M)
    <2> DEFINE T == UNION {Table(t) : t \in LegacyTables}
    <2>1. Named(T, M)
      BY <1>2
    <2>2. LegacyRest = T \cup LegacyUnique \cup LegacyKeys
      BY DEF LegacyRest
    <2> HIDE DEF T
    <2> QED BY <1>4, <1>5, <2>1, <2>2, NamedBoth
  <1> QED BY <1>6 DEF M

----------------------------------------------------------------------------
\* A revision of one operation, of two and so on, through the schemas on the way.
LEMMA AfterOne ==
    ASSUME NEW s0, NEW a1, NEW s1,
           s1 = Apply(s0, a1)
    PROVE  After(s0, <<a1>>) = s1
  <1> DEFINE ops == <<a1>>
  <1>1. /\ Len(ops) = 1
        /\ ops[1] = a1
    OBVIOUS
  <1> HIDE DEF ops
  <1>2. Len(ops) \in Nat
    BY <1>1
  <1>3. PICK g : Passes(g, s0, ops)
    BY <1>2, OnTheWay
  <1>4. g[1] = Apply(g[0], a1)
    BY <1>1, <1>3 DEF Passes
  <1> QED BY <1>1, <1>3, <1>4 DEF Passes, ops

LEMMA AfterTwo ==
    ASSUME NEW s0, NEW a1, NEW a2, NEW s1, NEW s2,
           s1 = Apply(s0, a1), s2 = Apply(s1, a2)
    PROVE  After(s0, <<a1, a2>>) = s2
  <1> DEFINE ops == <<a1, a2>>
  <1>1. /\ Len(ops) = 2
        /\ ops[1] = a1 /\ ops[2] = a2
    OBVIOUS
  <1> HIDE DEF ops
  <1>2. Len(ops) \in Nat
    BY <1>1
  <1>3. PICK g : Passes(g, s0, ops)
    BY <1>2, OnTheWay
  <1>4. /\ g[1] = Apply(g[0], a1) /\ g[2] = Apply(g[1], a2)
    BY <1>1, <1>3 DEF Passes
  <1> QED BY <1>1, <1>3, <1>4 DEF Passes, ops

LEMMA AfterThree ==
    ASSUME NEW s0, NEW a1, NEW a2, NEW a3, NEW s1, NEW s2, NEW s3,
           s1 = Apply(s0, a1), s2 = Apply(s1, a2), s3 = Apply(s2, a3)
    PROVE  After(s0, <<a1, a2, a3>>) = s3
  <1> DEFINE ops == <<a1, a2, a3>>
  <1>1. /\ Len(ops) = 3
        /\ ops[1] = a1 /\ ops[2] = a2 /\ ops[3] = a3
    OBVIOUS
  <1> HIDE DEF ops
  <1>2. Len(ops) \in Nat
    BY <1>1
  <1>3. PICK g : Passes(g, s0, ops)
    BY <1>2, OnTheWay
  <1>4. /\ g[1] = Apply(g[0], a1) /\ g[2] = Apply(g[1], a2) /\ g[3] = Apply(g[2], a3)
    BY <1>1, <1>3 DEF Passes
  <1> QED BY <1>1, <1>3, <1>4 DEF Passes, ops

LEMMA AfterFour ==
    ASSUME NEW s0, NEW a1, NEW a2, NEW a3, NEW a4, NEW s1, NEW s2, NEW s3, NEW s4,
           s1 = Apply(s0, a1), s2 = Apply(s1, a2), s3 = Apply(s2, a3), s4 = Apply(s3, a4)
    PROVE  After(s0, <<a1, a2, a3, a4>>) = s4
  <1> DEFINE ops == <<a1, a2, a3, a4>>
  <1>1. /\ Len(ops) = 4
        /\ ops[1] = a1 /\ ops[2] = a2 /\ ops[3] = a3 /\ ops[4] = a4
    OBVIOUS
  <1> HIDE DEF ops
  <1>2. Len(ops) \in Nat
    BY <1>1
  <1>3. PICK g : Passes(g, s0, ops)
    BY <1>2, OnTheWay
  <1>4. /\ g[1] = Apply(g[0], a1) /\ g[2] = Apply(g[1], a2) /\ g[3] = Apply(g[2], a3)
        /\ g[4] = Apply(g[3], a4)
    BY <1>1, <1>3 DEF Passes
  <1> QED BY <1>1, <1>3, <1>4 DEF Passes, ops

LEMMA AfterSix ==
    ASSUME NEW s0, NEW a1, NEW a2, NEW a3, NEW a4, NEW a5, NEW a6, NEW s1, NEW s2, NEW s3, NEW s4,
           NEW s5, NEW s6,
           s1 = Apply(s0, a1), s2 = Apply(s1, a2), s3 = Apply(s2, a3), s4 = Apply(s3, a4),
           s5 = Apply(s4, a5), s6 = Apply(s5, a6)
    PROVE  After(s0, <<a1, a2, a3, a4, a5, a6>>) = s6
  <1> DEFINE ops == <<a1, a2, a3, a4, a5, a6>>
  <1>1. /\ Len(ops) = 6
        /\ ops[1] = a1 /\ ops[2] = a2 /\ ops[3] = a3 /\ ops[4] = a4 /\ ops[5] = a5 /\ ops[6] = a6
    OBVIOUS
  <1> HIDE DEF ops
  <1>2. Len(ops) \in Nat
    BY <1>1
  <1>3. PICK g : Passes(g, s0, ops)
    BY <1>2, OnTheWay
  <1>4. /\ g[1] = Apply(g[0], a1) /\ g[2] = Apply(g[1], a2) /\ g[3] = Apply(g[2], a3)
        /\ g[4] = Apply(g[3], a4) /\ g[5] = Apply(g[4], a5) /\ g[6] = Apply(g[5], a6)
    BY <1>1, <1>3 DEF Passes
  <1> QED BY <1>1, <1>3, <1>4 DEF Passes, ops

LEMMA AfterSeven ==
    ASSUME NEW s0, NEW a1, NEW a2, NEW a3, NEW a4, NEW a5, NEW a6, NEW a7, NEW s1, NEW s2, NEW s3,
           NEW s4, NEW s5, NEW s6, NEW s7,
           s1 = Apply(s0, a1), s2 = Apply(s1, a2), s3 = Apply(s2, a3), s4 = Apply(s3, a4),
           s5 = Apply(s4, a5), s6 = Apply(s5, a6), s7 = Apply(s6, a7)
    PROVE  After(s0, <<a1, a2, a3, a4, a5, a6, a7>>) = s7
  <1> DEFINE ops == <<a1, a2, a3, a4, a5, a6, a7>>
  <1>1. /\ Len(ops) = 7
        /\ ops[1] = a1 /\ ops[2] = a2 /\ ops[3] = a3 /\ ops[4] = a4 /\ ops[5] = a5 /\ ops[6] = a6
        /\ ops[7] = a7
    OBVIOUS
  <1> HIDE DEF ops
  <1>2. Len(ops) \in Nat
    BY <1>1
  <1>3. PICK g : Passes(g, s0, ops)
    BY <1>2, OnTheWay
  <1>4. /\ g[1] = Apply(g[0], a1) /\ g[2] = Apply(g[1], a2) /\ g[3] = Apply(g[2], a3)
        /\ g[4] = Apply(g[3], a4) /\ g[5] = Apply(g[4], a5) /\ g[6] = Apply(g[5], a6)
        /\ g[7] = Apply(g[6], a7)
    BY <1>1, <1>3 DEF Passes
  <1> QED BY <1>1, <1>3, <1>4 DEF Passes, ops

LEMMA AfterEight ==
    ASSUME NEW s0, NEW a1, NEW a2, NEW a3, NEW a4, NEW a5, NEW a6, NEW a7, NEW a8, NEW s1, NEW s2,
           NEW s3, NEW s4, NEW s5, NEW s6, NEW s7, NEW s8,
           s1 = Apply(s0, a1), s2 = Apply(s1, a2), s3 = Apply(s2, a3), s4 = Apply(s3, a4),
           s5 = Apply(s4, a5), s6 = Apply(s5, a6), s7 = Apply(s6, a7), s8 = Apply(s7, a8)
    PROVE  After(s0, <<a1, a2, a3, a4, a5, a6, a7, a8>>) = s8
  <1> DEFINE ops == <<a1, a2, a3, a4, a5, a6, a7, a8>>
  <1>1. /\ Len(ops) = 8
        /\ ops[1] = a1 /\ ops[2] = a2 /\ ops[3] = a3 /\ ops[4] = a4 /\ ops[5] = a5 /\ ops[6] = a6
        /\ ops[7] = a7 /\ ops[8] = a8
    OBVIOUS
  <1> HIDE DEF ops
  <1>2. Len(ops) \in Nat
    BY <1>1
  <1>3. PICK g : Passes(g, s0, ops)
    BY <1>2, OnTheWay
  <1>4. /\ g[1] = Apply(g[0], a1) /\ g[2] = Apply(g[1], a2) /\ g[3] = Apply(g[2], a3)
        /\ g[4] = Apply(g[3], a4) /\ g[5] = Apply(g[4], a5) /\ g[6] = Apply(g[5], a6)
        /\ g[7] = Apply(g[6], a7) /\ g[8] = Apply(g[7], a8)
    BY <1>1, <1>3 DEF Passes
  <1> QED BY <1>1, <1>3, <1>4 DEF Passes, ops

LEMMA AfterTen ==
    ASSUME NEW s0, NEW a1, NEW a2, NEW a3, NEW a4, NEW a5, NEW a6, NEW a7, NEW a8, NEW a9, NEW a10,
           NEW s1, NEW s2, NEW s3, NEW s4, NEW s5, NEW s6, NEW s7, NEW s8, NEW s9, NEW s10,
           s1 = Apply(s0, a1), s2 = Apply(s1, a2), s3 = Apply(s2, a3), s4 = Apply(s3, a4),
           s5 = Apply(s4, a5), s6 = Apply(s5, a6), s7 = Apply(s6, a7), s8 = Apply(s7, a8),
           s9 = Apply(s8, a9), s10 = Apply(s9, a10)
    PROVE  After(s0, <<a1, a2, a3, a4, a5, a6, a7, a8, a9, a10>>) = s10
  <1> DEFINE ops == <<a1, a2, a3, a4, a5, a6, a7, a8, a9, a10>>
  <1>1. /\ Len(ops) = 10
        /\ ops[1] = a1 /\ ops[2] = a2 /\ ops[3] = a3 /\ ops[4] = a4 /\ ops[5] = a5 /\ ops[6] = a6
        /\ ops[7] = a7 /\ ops[8] = a8 /\ ops[9] = a9 /\ ops[10] = a10
    OBVIOUS
  <1> HIDE DEF ops
  <1>2. Len(ops) \in Nat
    BY <1>1
  <1>3. PICK g : Passes(g, s0, ops)
    BY <1>2, OnTheWay
  <1>4. /\ g[1] = Apply(g[0], a1) /\ g[2] = Apply(g[1], a2) /\ g[3] = Apply(g[2], a3)
        /\ g[4] = Apply(g[3], a4) /\ g[5] = Apply(g[4], a5) /\ g[6] = Apply(g[5], a6)
        /\ g[7] = Apply(g[6], a7) /\ g[8] = Apply(g[7], a8) /\ g[9] = Apply(g[8], a9)
        /\ g[10] = Apply(g[9], a10)
    BY <1>1, <1>3 DEF Passes
  <1> QED BY <1>1, <1>3, <1>4 DEF Passes, ops

LEMMA AfterTwelve ==
    ASSUME NEW s0, NEW a1, NEW a2, NEW a3, NEW a4, NEW a5, NEW a6, NEW a7, NEW a8, NEW a9, NEW a10,
           NEW a11, NEW a12, NEW s1, NEW s2, NEW s3, NEW s4, NEW s5, NEW s6, NEW s7, NEW s8, NEW s9,
           NEW s10, NEW s11, NEW s12,
           s1 = Apply(s0, a1), s2 = Apply(s1, a2), s3 = Apply(s2, a3), s4 = Apply(s3, a4),
           s5 = Apply(s4, a5), s6 = Apply(s5, a6), s7 = Apply(s6, a7), s8 = Apply(s7, a8),
           s9 = Apply(s8, a9), s10 = Apply(s9, a10), s11 = Apply(s10, a11), s12 = Apply(s11, a12)
    PROVE  After(s0, <<a1, a2, a3, a4, a5, a6, a7, a8, a9, a10, a11, a12>>) = s12
  <1> DEFINE ops == <<a1, a2, a3, a4, a5, a6, a7, a8, a9, a10, a11, a12>>
  <1>1. /\ Len(ops) = 12
        /\ ops[1] = a1 /\ ops[2] = a2 /\ ops[3] = a3 /\ ops[4] = a4 /\ ops[5] = a5 /\ ops[6] = a6
        /\ ops[7] = a7 /\ ops[8] = a8 /\ ops[9] = a9 /\ ops[10] = a10 /\ ops[11] = a11 /\ ops[12] = a12
    OBVIOUS
  <1> HIDE DEF ops
  <1>2. Len(ops) \in Nat
    BY <1>1
  <1>3. PICK g : Passes(g, s0, ops)
    BY <1>2, OnTheWay
  <1>4. /\ g[1] = Apply(g[0], a1) /\ g[2] = Apply(g[1], a2) /\ g[3] = Apply(g[2], a3)
        /\ g[4] = Apply(g[3], a4) /\ g[5] = Apply(g[4], a5) /\ g[6] = Apply(g[5], a6)
        /\ g[7] = Apply(g[6], a7) /\ g[8] = Apply(g[7], a8) /\ g[9] = Apply(g[8], a9)
        /\ g[10] = Apply(g[9], a10) /\ g[11] = Apply(g[10], a11) /\ g[12] = Apply(g[11], a12)
    BY <1>1, <1>3 DEF Passes
  <1> QED BY <1>1, <1>3, <1>4 DEF Passes, ops

----------------------------------------------------------------------------
LEMMA OnParts == ASSUME NEW t, NEW N, NEW T, t \in T PROVE On(Parts(t, N), T)
  BY PartsMake DEF On

LEMMA OnKey == ASSUME NEW t, NEW n, NEW u, NEW T, t \in T, u \in T PROVE On(Key(t, n, u), T)
  BY KeyMakes DEF On

LEMMA OnTable == ASSUME NEW t, NEW T, t \in T PROVE On(Table(t), T)
  BY OnParts DEF Table

LEMMA OnBoth == ASSUME NEW x, NEW y, NEW T PROVE On(x \cup y, T) <=> On(x, T) /\ On(y, T)
  BY DEF On

LEMMA OnPartsOf == ASSUME NEW f, NEW T, DOMAIN f \subseteq T PROVE On(PartsOf(f), T)
  <1> SUFFICES ASSUME NEW t \in DOMAIN f, NEW o \in Parts(t, f[t])
               PROVE  o.of \in T /\ (o.to = "" \/ o.to \in T)
    BY DEF On, PartsOf
  <1>1. On(Parts(t, f[t]), T)
    BY OnParts
  <1> QED BY <1>1 DEF On

LEMMA OnFits == ASSUME NEW s, s # {}, On(s, TablesIn(s)) PROVE Fitting(s)
  BY DEF On, Fitting

\* Parts and keys whose names are no tables' are no tables.
LEMMA BareByName == ASSUME NEW x, NEW N, NEW T, Named(x, N), On(x, T), N \cap T = {} PROVE Bare(x)
  BY DEF Named, On, Bare

LEMMA BareParts == ASSUME NEW t, NEW N, t \notin N PROVE Bare(Parts(t, N))
  BY PartsMake DEF Bare

LEMMA BareKey == ASSUME NEW t, NEW n, NEW u, n # t PROVE Bare(Key(t, n, u))
  BY KeyMakes DEF Bare

LEMMA BareBoth == ASSUME NEW x, NEW y PROVE Bare(x \cup y) <=> Bare(x) /\ Bare(y)
  BY DEF Bare

\* The same lemma as CreatedParts and Replaced, for parts on known tables.
LEMMA NewParts ==
    ASSUME NEW s, Fitting(s), NEW x, x \cap s = {}, Bare(x), On(x, TablesIn(s))
    PROVE  /\ Apply(s, Create(x)) = s \cup x /\ Fitting(s \cup x)
           /\ TablesIn(s \cup x) = TablesIn(s)
           /\ Apply(s \cup x, Drop(x)) = s
  BY CreatedParts DEF On

LEMMA OtherParts ==
    ASSUME NEW rest, NEW old, NEW new, Fitting(rest \cup old), old \cap rest = {},
           new \cap (rest \cup old) = {}, Bare(old), Bare(new), On(new, TablesIn(rest \cup old))
    PROVE  /\ Apply(rest \cup old, Replace(old, new)) = rest \cup new
           /\ Fitting(rest \cup new) /\ TablesIn(rest \cup new) = TablesIn(rest \cup old)
           /\ Apply(rest \cup new, Replace(new, old)) = rest \cup old
  <1> DEFINE s == rest \cup old
             t == (s \ old) \cup new
  <1>1. t = rest \cup new /\ old \subseteq s
    OBVIOUS
  <1>2. /\ Fitting(s) /\ new \cap s = {}
        /\ \A o \in new : o.of \in TablesIn(s) /\ (o.to = "" \/ o.to \in TablesIn(s))
    BY DEF On
  <1> HIDE DEF s
  <1>3. /\ Apply(s, Replace(old, new)) = t /\ Fitting(t) /\ TablesIn(t) = TablesIn(s)
        /\ Apply(t, Replace(new, old)) = s
    BY <1>1, <1>2, Replaced
  <1> HIDE DEF t
  <1> QED BY <1>1, <1>3 DEF s

----------------------------------------------------------------------------
\* The legacy service.

LEMMA LegacyKeysOn == On(LegacyKeys, LegacyTables) /\ On(LegacyUnique, LegacyTables)
  <1> DEFINE T == LegacyTables
  <1>1. /\ "issue_clusters" \in T /\ "news_embeddings" \in T /\ "raw_articles" \in T
        /\ "user_briefings" \in T /\ "shared_briefings" \in T /\ "user_interests" \in T
        /\ "commute_queries" \in T /\ "commute_routes" \in T /\ "schedules" \in T /\ "users" \in T
    BY DEF LegacyTables
  <1> HIDE DEF T
  <1>2. /\ On(Key("issue_clusters", "fk_issue_clusters_centroid", "news_embeddings"), T)
        /\ On(Key("raw_articles", "raw_articles_cluster_id_fkey", "issue_clusters"), T)
        /\ On(Key("news_embeddings", "news_embeddings_article_id_fkey", "raw_articles"), T)
        /\ On(Key("user_briefings", "user_briefings_user_id_fkey", "users"), T)
        /\ On(Key("shared_briefings", "shared_briefings_created_by_user_id_fkey", "users"), T)
        /\ On(Key("user_interests", "user_interests_user_id_fkey", "users"), T)
        /\ On(Key("commute_queries", "commute_queries_user_id_fkey", "users"), T)
        /\ On(Key("commute_routes", "commute_routes_user_id_fkey", "users"), T)
        /\ On(Key("schedules", "schedules_user_id_fkey", "users"), T)
    BY <1>1, OnKey
  <1>3. On(LegacyKeys, T)
    BY <1>2 DEF LegacyKeys, On
  <1>4. On(Parts("raw_articles", {"raw_articles_url_key"}), T) /\ On(Parts("users", {"users_email_key"}), T)
    BY <1>1, OnParts
  <1> QED BY <1>3, <1>4, OnBoth DEF LegacyUnique, T

LEMMA RestFits == /\ On(LegacyRest, LegacyTables) /\ TablesIn(LegacyRest) = LegacyTables
                  /\ Fitting(LegacyRest)
  <1> DEFINE T == LegacyTables
             made == UNION {Table(t) : t \in T}
  <1>1. /\ \A t \in T : On(Table(t), T) /\ TablesIn(Table(t)) = {t}
    BY OnTable, TablesOfTable
  <1>2. On(made, T)
    BY <1>1 DEF On
  <1>3. TablesIn(made) = T
    <2>1. ASSUME NEW t \in T PROVE t \in TablesIn(made)
      <3>1. t \in TablesIn(Table(t))
        BY <1>1
      <3>2. PICK o \in Table(t) : o.of = t /\ o.name = t
        BY <3>1, TablesAre
      <3>3. o \in made
        BY <3>2
      <3> HIDE DEF made
      <3> QED BY <3>2, <3>3, TablesAre
    <2>2. ASSUME NEW u \in TablesIn(made) PROVE u \in T
      <3>1. PICK o \in made : o.of = u /\ o.name = u
        BY DEF TablesIn
      <3> QED BY <1>2, <3>1 DEF On
    <2> QED BY <2>1, <2>2
  <1>4. Bare(LegacyKeys) /\ Bare(LegacyUnique)
    <2>1. /\ Bare(Key("issue_clusters", "fk_issue_clusters_centroid", "news_embeddings"))
          /\ Bare(Key("raw_articles", "raw_articles_cluster_id_fkey", "issue_clusters"))
          /\ Bare(Key("news_embeddings", "news_embeddings_article_id_fkey", "raw_articles"))
          /\ Bare(Key("user_briefings", "user_briefings_user_id_fkey", "users"))
          /\ Bare(Key("shared_briefings", "shared_briefings_created_by_user_id_fkey", "users"))
          /\ Bare(Key("user_interests", "user_interests_user_id_fkey", "users"))
          /\ Bare(Key("commute_queries", "commute_queries_user_id_fkey", "users"))
          /\ Bare(Key("commute_routes", "commute_routes_user_id_fkey", "users"))
          /\ Bare(Key("schedules", "schedules_user_id_fkey", "users"))
      BY BareKey
    <2>2. Bare(Parts("raw_articles", {"raw_articles_url_key"})) /\ Bare(Parts("users", {"users_email_key"}))
      BY BareParts
    <2> QED BY <2>1, <2>2 DEF LegacyKeys, LegacyUnique, Bare
  <1>5. LegacyRest = made \cup LegacyUnique \cup LegacyKeys
    BY DEF LegacyRest
  <1> HIDE DEF made, T
  <1>6. TablesIn(LegacyRest) = T
    <2>1. TablesIn(LegacyUnique) = {} /\ TablesIn(LegacyKeys) = {}
      BY <1>4, TablesOfBare
    <2>2. TablesIn(made \cup LegacyUnique) = TablesIn(made) \cup TablesIn(LegacyUnique)
      BY TablesOfBoth
    <2>3. TablesIn((made \cup LegacyUnique) \cup LegacyKeys)
          = TablesIn(made \cup LegacyUnique) \cup TablesIn(LegacyKeys)
      BY TablesOfBoth
    <2> QED BY <1>3, <1>5, <2>1, <2>2, <2>3
  <1>7. On(LegacyRest, T)
    BY <1>2, <1>5, LegacyKeysOn, OnBoth DEF T
  <1>8. LegacyRest # {}
    <2>1. "users" \in T
      BY DEF T, LegacyTables
    <2> QED BY <1>6, <2>1, TablesAre
  <1> QED BY <1>6, <1>7, <1>8, OnFits DEF T

\* Revision 1: the legacy names of parts become the ones autogenerate gives.
LEMMA PartsOfBare == Bare(PartsOf(LegacyNames)) /\ Bare(PartsOf(RenamedNames))
  <1>1. /\ On(PartsOf(LegacyNames), LegacyTables) /\ On(PartsOf(RenamedNames), LegacyTables)
    <2>1. DOMAIN LegacyNames \subseteq LegacyTables
      BY LegacyTablesAre
    <2>2. DOMAIN RenamedNames \subseteq LegacyTables
      BY DEF RenamedNames, LegacyTables
    <2> QED BY <2>1, <2>2, OnPartsOf
  <1>2. LegacyPartNames \cap LegacyTables = {}
    BY DEF LegacyPartNames, LegacyTables
  <1>3. RenamedPartNames \cap LegacyTables = {}
    BY DEF RenamedPartNames, LegacyTables
  <1> QED BY <1>1, <1>2, <1>3, LegacyNamed, RenamedNamed, BareByName

LEMMA Revision1 ==
    /\ Fitting(LegacySchema) /\ Fitting(Schema1) /\ TablesIn(Schema1) = LegacyTables
    /\ After(LegacySchema, R_a395b8e042c1.up) = Schema1
    /\ After(Schema1, R_a395b8e042c1.down) = LegacySchema
  <1> DEFINE old == PartsOf(LegacyNames)
             new == PartsOf(RenamedNames)
  <1>1. old \cap LegacyRest = {}
    <2>1. LegacyPartNames \cap LegacyRestNames = {}
      BY DEF LegacyPartNames, LegacyRestNames, LegacyTables
    <2> QED BY <2>1, LegacyNamed, RestNamed, NamedApart
  <1>2. new \cap LegacyRest = {}
    <2>1. RenamedPartNames \cap LegacyRestNames = {}
      BY DEF RenamedPartNames, LegacyRestNames, LegacyTables
    <2> QED BY <2>1, RenamedNamed, RestNamed, NamedApart
  <1>3. new \cap old = {}
    <2>1. RenamedPartNames \cap LegacyPartNames = {}
      BY DEF RenamedPartNames, LegacyPartNames
    <2> QED BY <2>1, RenamedNamed, LegacyNamed, NamedApart
  <1>4. On(old, LegacyTables) /\ On(new, LegacyTables) /\ Bare(old) /\ Bare(new)
    <2>1. DOMAIN LegacyNames \subseteq LegacyTables
      BY LegacyTablesAre
    <2>2. DOMAIN RenamedNames \subseteq LegacyTables
      BY DEF RenamedNames, LegacyTables
    <2> QED BY <2>1, <2>2, OnPartsOf, PartsOfBare
  <1>5. /\ R_a395b8e042c1.up = <<Replace(old, new)>> /\ R_a395b8e042c1.down = <<Replace(new, old)>>
    BY DEF R_a395b8e042c1
  <1> HIDE DEF old, new
  <1>6. Fitting(LegacyRest \cup old) /\ TablesIn(LegacyRest \cup old) = LegacyTables
    <2>1. Apply(LegacyRest, Create(old)) = LegacyRest \cup old /\ Fitting(LegacyRest \cup old)
          /\ TablesIn(LegacyRest \cup old) = TablesIn(LegacyRest)
      BY <1>1, <1>4, RestFits, NewParts
    <2> QED BY <2>1, RestFits
  <1>7. new \cap (LegacyRest \cup old) = {}
    BY <1>2, <1>3
  <1>8. /\ Apply(LegacyRest \cup old, Replace(old, new)) = LegacyRest \cup new
        /\ Fitting(LegacyRest \cup new) /\ TablesIn(LegacyRest \cup new) = TablesIn(LegacyRest \cup old)
        /\ Apply(LegacyRest \cup new, Replace(new, old)) = LegacyRest \cup old
    BY <1>1, <1>4, <1>6, <1>7, OtherParts
  <1>9. LegacySchema = LegacyRest \cup old /\ Schema1 = LegacyRest \cup new
    BY LegacyIs DEF Schema1, old, new
  <1> QED BY <1>5, <1>6, <1>8, <1>9, AfterOne

\* The names of the parts that the later revisions make of these tables.
LEMMA Schema1Named == Named(Schema1, LegacyRestNames \cup RenamedPartNames)
  BY RestNamed, RenamedNamed DEF Schema1, Named

LEMMA Revision2 ==
    /\ Fitting(Schema2) /\ TablesIn(Schema2) = LegacyTables
    /\ After(Schema1, R_b32f1a2c1781.up) = Schema2 /\ After(Schema2, R_b32f1a2c1781.down) = Schema1
    /\ Named(Password, {"password_hash"})
  <1>1. R_b32f1a2c1781.up = <<Create(Password)>> /\ R_b32f1a2c1781.down = <<Drop(Password)>>
    BY DEF R_b32f1a2c1781, Password
  <1>2. Named(Password, {"password_hash"}) /\ Bare(Password) /\ On(Password, LegacyTables)
    <2>1. "users" \in LegacyTables
      BY DEF LegacyTables
    <2> QED BY <2>1, NamedParts, BareParts, OnParts DEF Password
  <1>3. Password \cap Schema1 = {}
    <2>1. {"password_hash"} \cap (LegacyRestNames \cup RenamedPartNames) = {}
      BY DEF LegacyRestNames, RenamedPartNames, LegacyTables
    <2> QED BY <1>2, <2>1, Schema1Named, NamedApart
  <1>4. /\ Apply(Schema1, Create(Password)) = Schema1 \cup Password /\ Fitting(Schema1 \cup Password)
        /\ TablesIn(Schema1 \cup Password) = TablesIn(Schema1)
        /\ Apply(Schema1 \cup Password, Drop(Password)) = Schema1
    BY <1>2, <1>3, Revision1, NewParts
  <1> QED BY <1>1, <1>2, <1>4, Revision1, AfterOne DEF Schema2

ProviderNames == {"uq_user_interests_user_id_type_value", "uq_users_provider_provider_id"}

LEMMA ProviderKeysAre ==
    Named(ProviderKeys, ProviderNames) /\ Bare(ProviderKeys) /\ On(ProviderKeys, LegacyTables)
  <1> DEFINE a == Parts("user_interests", {"uq_user_interests_user_id_type_value"})
             b == Parts("users", {"uq_users_provider_provider_id"})
  <1>1. "users" \in LegacyTables /\ "user_interests" \in LegacyTables
    BY DEF LegacyTables
  <1>2. On(a, LegacyTables) /\ On(b, LegacyTables)
    BY <1>1, OnParts
  <1>3. Bare(a) /\ Bare(b)
    BY BareParts
  <1>4. Named(a, ProviderNames) /\ Named(b, ProviderNames)
    BY NamedParts DEF ProviderNames
  <1>5. ProviderKeys = a \cup b
    BY DEF ProviderKeys
  <1> HIDE DEF a, b
  <1> QED BY <1>2, <1>3, <1>4, <1>5, OnBoth, BareBoth, NamedBoth

Names3 == LegacyRestNames \cup RenamedPartNames \cup {"password_hash"} \cup ProviderNames

LEMMA Revision3 ==
    /\ Fitting(Schema3) /\ TablesIn(Schema3) = LegacyTables /\ Named(Schema3, Names3)
    /\ After(Schema2, R_1dd57a123049.up) = Schema3 /\ After(Schema3, R_1dd57a123049.down) = Schema2
  <1>1. R_1dd57a123049.up = <<Create(ProviderKeys)>> /\ R_1dd57a123049.down = <<Drop(ProviderKeys)>>
    BY DEF R_1dd57a123049
  <1>2. Named(Schema2, LegacyRestNames \cup RenamedPartNames \cup {"password_hash"})
    BY Schema1Named, Revision2 DEF Schema2, Named
  <1>3. ProviderKeys \cap Schema2 = {}
    <2>1. ProviderNames \cap (LegacyRestNames \cup RenamedPartNames \cup {"password_hash"}) = {}
      BY DEF ProviderNames, LegacyRestNames, RenamedPartNames, LegacyTables
    <2> QED BY <1>2, <2>1, ProviderKeysAre, NamedApart
  <1>4. /\ Apply(Schema2, Create(ProviderKeys)) = Schema2 \cup ProviderKeys /\ Fitting(Schema2 \cup ProviderKeys)
        /\ TablesIn(Schema2 \cup ProviderKeys) = TablesIn(Schema2)
        /\ Apply(Schema2 \cup ProviderKeys, Drop(ProviderKeys)) = Schema2
    BY <1>3, ProviderKeysAre, Revision2, NewParts
  <1>5. Named(Schema3, Names3)
    BY <1>2, ProviderKeysAre DEF Schema3, Names3, Named
  <1> QED BY <1>1, <1>4, <1>5, Revision2, AfterOne DEF Schema3

\* Revision 4: three lists of ids change their type.
JsonNames == {"top_issue_ids_json", "matched_issue_ids_json", "related_stock_codes_json"}
Lists4 ==
    /\ Named(JsonLists, JsonNames) /\ Named(ArrayLists, ArrayNames)
    /\ Bare(JsonLists) /\ Bare(ArrayLists) /\ On(ArrayLists, LegacyTables)
    /\ JsonLists \subseteq PartsOf(RenamedNames)

LEMMA PartsOfLess ==
    ASSUME NEW f, NEW g, DOMAIN f \subseteq DOMAIN g, \A t \in DOMAIN f : f[t] \subseteq g[t]
    PROVE  PartsOf(f) \subseteq PartsOf(g)
  <1> SUFFICES ASSUME NEW t \in DOMAIN f, NEW o \in Parts(t, f[t]) PROVE o \in PartsOf(g)
    BY DEF PartsOf
  <1>1. o \in Parts(t, g[t])
    BY DEF Parts
  <1> QED BY <1>1 DEF PartsOf

LEMMA Lists4Are == Lists4
  <1> DEFINE f == [daily_briefings |-> {"top_issue_ids_json"}, user_briefings |-> {"matched_issue_ids_json"},
                   issue_clusters |-> {"related_stock_codes_json"}]
             g == [daily_briefings |-> {"top_issue_ids_array"}, user_briefings |-> {"matched_issue_ids_array"},
                   issue_clusters |-> {"related_stock_codes_array"}]
             T == {"daily_briefings", "user_briefings", "issue_clusters"}
  <1>1. DOMAIN f = T /\ DOMAIN g = T /\ T \subseteq LegacyTables /\ DOMAIN f \subseteq DOMAIN RenamedNames
    BY DEF LegacyTables, RenamedNames
  <1>2. \A t \in T : f[t] \subseteq JsonNames
    <2>1. /\ f["daily_briefings"] \subseteq JsonNames /\ f["user_briefings"] \subseteq JsonNames
          /\ f["issue_clusters"] \subseteq JsonNames
      BY DEF JsonNames
    <2> HIDE DEF f
    <2> QED BY <2>1
  <1>3. \A t \in T : g[t] \subseteq ArrayNames
    <2>1. /\ g["daily_briefings"] \subseteq ArrayNames /\ g["user_briefings"] \subseteq ArrayNames
          /\ g["issue_clusters"] \subseteq ArrayNames
      BY DEF ArrayNames
    <2> HIDE DEF g
    <2> QED BY <2>1
  <1>4. \A t \in T : f[t] \subseteq RenamedNames[t]
    <2>1. /\ f["daily_briefings"] \subseteq RenamedNames["daily_briefings"]
          /\ f["user_briefings"] \subseteq RenamedNames["user_briefings"]
          /\ f["issue_clusters"] \subseteq RenamedNames["issue_clusters"]
      BY DEF RenamedNames
    <2> HIDE DEF f
    <2> QED BY <2>1
  <1>5. JsonLists = PartsOf(f) /\ ArrayLists = PartsOf(g)
    BY DEF JsonLists, ArrayLists
  <1>6. JsonNames \cap LegacyTables = {} /\ ArrayNames \cap LegacyTables = {}
    BY DEF JsonNames, ArrayNames, LegacyTables
  <1> HIDE DEF f, g, T
  <1>7. Named(JsonLists, JsonNames) /\ Named(ArrayLists, ArrayNames)
    BY <1>1, <1>2, <1>3, <1>5, NamedPartsOf
  <1>8. On(JsonLists, LegacyTables) /\ On(ArrayLists, LegacyTables)
    BY <1>1, <1>5, OnPartsOf
  <1>9. JsonLists \subseteq PartsOf(RenamedNames)
    BY <1>1, <1>4, <1>5, PartsOfLess
  <1> QED BY <1>6, <1>7, <1>8, <1>9, BareByName DEF Lists4

LEMMA Revision4 ==
    /\ Fitting(Schema4) /\ TablesIn(Schema4) = LegacyTables
    /\ After(Schema3, R_503b754c8b0b.up) = Schema4 /\ After(Schema4, R_503b754c8b0b.down) = Schema3
  <1> DEFINE rest == Schema3 \ JsonLists
  <1>1. /\ R_503b754c8b0b.up = <<Replace(JsonLists, ArrayLists)>>
        /\ R_503b754c8b0b.down = <<Replace(ArrayLists, JsonLists)>>
    BY DEF R_503b754c8b0b
  <1>2. ArrayLists \cap Schema3 = {}
    <2>1. ArrayNames \cap Names3 = {}
      BY DEF ArrayNames, Names3, ProviderNames, LegacyRestNames, RenamedPartNames, LegacyTables
    <2> QED BY <2>1, Lists4Are, Revision3, NamedApart DEF Lists4
  <1>3. Schema3 = rest \cup JsonLists /\ JsonLists \cap rest = {}
    BY Lists4Are DEF Lists4, Schema3, Schema2, Schema1
  <1>4. Schema4 = rest \cup ArrayLists
    BY DEF Schema4
  <1> HIDE DEF rest
  <1>5. /\ Fitting(rest \cup JsonLists) /\ TablesIn(rest \cup JsonLists) = LegacyTables
        /\ ArrayLists \cap (rest \cup JsonLists) = {}
        /\ Bare(JsonLists) /\ Bare(ArrayLists) /\ On(ArrayLists, TablesIn(rest \cup JsonLists))
    <2>1. TablesIn(rest \cup JsonLists) = LegacyTables /\ Fitting(rest \cup JsonLists)
      BY <1>3, Revision3
    <2> QED BY <1>2, <1>3, <2>1, Lists4Are DEF Lists4
  <1>6. /\ Apply(rest \cup JsonLists, Replace(JsonLists, ArrayLists)) = rest \cup ArrayLists
        /\ Fitting(rest \cup ArrayLists) /\ TablesIn(rest \cup ArrayLists) = TablesIn(rest \cup JsonLists)
        /\ Apply(rest \cup ArrayLists, Replace(ArrayLists, JsonLists)) = rest \cup JsonLists
    BY <1>3, <1>5, OtherParts
  <1> QED BY <1>1, <1>3, <1>4, <1>5, <1>6, AfterOne

\* A table of its own, whose one foreign key is to users.
OwnTable(x, t) == Entire(x, t) /\ On(x, {t, "users"})

LEMMA OwnTableOf ==
    ASSUME NEW t, NEW n, NEW N PROVE /\ OwnTable(Table(t) \cup Key(t, n, "users"), t)
                                     /\ OwnTable(Table(t) \cup Parts(t, N) \cup Key(t, n, "users"), t)
                                     /\ OwnTable(Table(t) \cup Parts(t, N), t)
  <1>1. On(Table(t), {t, "users"}) /\ On(Key(t, n, "users"), {t, "users"}) /\ On(Parts(t, N), {t, "users"})
    BY OnTable, OnKey, OnParts
  <1>2. (\A o \in Key(t, n, "users") : o.of = t) /\ (\A o \in Parts(t, N) : o.of = t)
    BY KeyMakes, PartsMake
  <1>3. \A o \in Table(t) : o.of = t
    BY PartsMake DEF Table
  <1>4. PICK o \in Table(t) : o.of = t /\ o.name = t
    BY TablesOfTable, TablesAre
  <1>5. t \in TablesIn(Table(t) \cup Key(t, n, "users"))
    BY <1>4 DEF TablesIn
  <1>6. t \in TablesIn(Table(t) \cup Parts(t, N) \cup Key(t, n, "users"))
    BY <1>4 DEF TablesIn
  <1>7. t \in TablesIn(Table(t) \cup Parts(t, N))
    BY <1>4 DEF TablesIn
  <1> QED BY <1>1, <1>2, <1>3, <1>5, <1>6, <1>7, OnBoth DEF OwnTable, Entire

LEMMA NewTable ==
    ASSUME NEW s, Fitting(s), NEW t, t \notin TablesIn(s), "users" \in TablesIn(s), NEW x, OwnTable(x, t)
    PROVE  /\ Apply(s, Create(x)) = s \cup x /\ Fitting(s \cup x)
           /\ TablesIn(s \cup x) = TablesIn(s) \cup {t}
           /\ Apply(s \cup x, DropTable(t)) = s
  <1>1. NewIn(s, x, t)
    BY DEF OwnTable, On, NewIn
  <1>2. Made(s, x, t)
    BY <1>1, CreatedTable
  <1> QED BY <1>2 DEF Made

LEMMA Revision5 ==
    /\ Fitting(Schema5) /\ TablesIn(Schema5) = LegacyTables \cup {"weather_favorites"}
    /\ After(Schema4, R_7f3a9c2e5b1d.up) = Schema5 /\ After(Schema5, R_7f3a9c2e5b1d.down) = Schema4
  <1>1. /\ R_7f3a9c2e5b1d.up = <<Create(WeatherFavorites)>>
        /\ R_7f3a9c2e5b1d.down = <<DropTable("weather_favorites")>>
    BY DEF R_7f3a9c2e5b1d
  <1>2. OwnTable(WeatherFavorites, "weather_favorites")
    BY OwnTableOf DEF WeatherFavorites
  <1>3. "weather_favorites" \notin LegacyTables /\ "users" \in LegacyTables
    BY DEF LegacyTables
  <1>4. Fitting(Schema4) /\ "weather_favorites" \notin TablesIn(Schema4) /\ "users" \in TablesIn(Schema4)
    BY <1>3, Revision4
  <1> DEFINE s == Schema4 \cup WeatherFavorites
  <1>5. /\ Apply(Schema4, Create(WeatherFavorites)) = s /\ Fitting(s)
        /\ TablesIn(s) = TablesIn(Schema4) \cup {"weather_favorites"}
        /\ Apply(s, DropTable("weather_favorites")) = Schema4
    BY <1>2, <1>4, NewTable
  <1>6. Schema5 = s
    BY DEF Schema5
  <1> HIDE DEF s
  <1> QED BY <1>1, <1>5, <1>6, Revision4, AfterOne

LEMMA CommuteFavoritesAre == OwnTable(CommuteFavorites, "commute_favorites")
  BY OwnTableOf DEF CommuteFavorites

LEMMA Revision6 ==
    /\ Fitting(Schema6) /\ TablesIn(Schema6) = LegacyTables \cup {"weather_favorites", "commute_favorites"}
    /\ After(Schema5, R_2a6d8e1f4c93.up) = Schema6 /\ After(Schema6, R_2a6d8e1f4c93.down) = Schema5
  <1>1. /\ R_2a6d8e1f4c93.up = <<Create(CommuteFavorites)>>
        /\ R_2a6d8e1f4c93.down = <<DropTable("commute_favorites")>>
    BY DEF R_2a6d8e1f4c93
  <1>2. Fitting(Schema5) /\ "commute_favorites" \notin TablesIn(Schema5) /\ "users" \in TablesIn(Schema5)
    BY Revision5 DEF LegacyTables
  <1> DEFINE s == Schema5 \cup CommuteFavorites
  <1>3. /\ Apply(Schema5, Create(CommuteFavorites)) = s /\ Fitting(s)
        /\ TablesIn(s) = TablesIn(Schema5) \cup {"commute_favorites"}
        /\ Apply(s, DropTable("commute_favorites")) = Schema5
    BY <1>2, CommuteFavoritesAre, NewTable
  <1>4. Schema6 = s
    BY DEF Schema6
  <1> HIDE DEF s
  <1> QED BY <1>1, <1>3, <1>4, Revision5, AfterOne

\* Revision 7 takes away what revision 5 made; its downgrade is refused.
LEMMA Revision7 ==
    /\ Fitting(Schema7) /\ TablesIn(Schema7) = LegacyTables \cup {"commute_favorites"}
    /\ After(Schema6, R_7968d1b7732e.up) = Schema7 /\ After(Schema7, R_7968d1b7732e.down) = Failed
  <1>1. R_7968d1b7732e.up = <<DropTable("weather_favorites")>> /\ R_7968d1b7732e.down = <<Unknown>>
    BY DEF R_7968d1b7732e
  <1>2. /\ "commute_favorites" \notin LegacyTables /\ "weather_favorites" \notin LegacyTables
        /\ "users" \in LegacyTables /\ "" \notin LegacyTables
        /\ "weather_favorites" # "commute_favorites" /\ "" # "commute_favorites"
    BY DEF LegacyTables
  <1>3. Fitting(Schema7) /\ TablesIn(Schema7) = LegacyTables \cup {"commute_favorites"}
    <2>1. Fitting(Schema4) /\ "commute_favorites" \notin TablesIn(Schema4) /\ "users" \in TablesIn(Schema4)
      BY <1>2, Revision4
    <2> DEFINE s == Schema4 \cup CommuteFavorites
    <2>2. Fitting(s) /\ TablesIn(s) = TablesIn(Schema4) \cup {"commute_favorites"}
      BY <2>1, CommuteFavoritesAre, NewTable
    <2>3. Schema7 = s
      BY DEF Schema7
    <2> HIDE DEF s
    <2> QED BY <2>2, <2>3, Revision4
  <1>4. OwnTable(WeatherFavorites, "weather_favorites")
    BY OwnTableOf DEF WeatherFavorites
  <1>5. Apply(Schema7 \cup WeatherFavorites, DropTable("weather_favorites")) = Schema7
    BY <1>2, <1>3, <1>4, NewTable
  <1>6. Schema6 = Schema7 \cup WeatherFavorites
    BY DEF Schema5, Schema6, Schema7
  <1>7. Apply(Schema7, Unknown) = Failed
    <2> DEFINE x == Parts("", {"unknown type"})
               o == [of |-> "", name |-> "unknown type", to |-> ""]
    <2>1. Unknown.add = x /\ Unknown.tables = {} /\ Unknown.drop = {}
      BY DEF Unknown, Replace
    <2>2. o \in x /\ o.of = ""
      BY DEF Parts
    <2>3. TablesIn(x) = {}
      BY BareParts, TablesOfBare
    <2>4. TablesIn(Schema7 \cup x) = TablesIn(Schema7) \cup TablesIn(x)
      BY TablesOfBoth
    <2> HIDE DEF x, o
    <2>5. "" \notin TablesIn(Schema7 \cup x)
      BY <1>2, <1>3, <2>3, <2>4
    <2>6. {p \in Schema7 : p.of \notin Unknown.tables} \ Unknown.drop = Schema7
      BY <2>1
    <2> QED BY <2>1, <2>2, <2>5, <2>6 DEF Apply
  <1> QED BY <1>1, <1>3, <1>5, <1>6, <1>7, AfterOne

----------------------------------------------------------------------------
\* Revision 8: the tables of the briefings go.  They are spelled out in the
\* order the upgrade drops them in, from the last one.
OldUsers ==
    Table("users") \cup Parts("users", {"users_email_key"}) \cup Password
    \cup Parts("users", {"uq_users_provider_provider_id"})
Schema8 ==
    OldUsers \cup UserInterests \cup CommuteQueries \cup Stocks \cup CommuteFavorites
    \cup GuestInterests \cup Schedules \cup CommuteRoutes

UserBriefings ==
    Table("user_briefings") \cup Parts("user_briefings", {"matched_issue_ids_array"})
    \cup Key("user_briefings", "user_briefings_user_id_fkey", "users")
UserBriefingDates == Parts("user_briefings", {"ix_user_briefings_briefing_date"})
InterestEmbeddings == Table("interest_embeddings") \cup Parts("interest_embeddings", {"embedding_json"})
Clusters == Table("issue_clusters") \cup Parts("issue_clusters", {"related_stock_codes_array"})
Articles == Table("raw_articles") \cup Parts("raw_articles", {"raw_articles_url_key"})
NewsEmbeddings ==
    Table("news_embeddings") \cup Parts("news_embeddings", {"embedding_json"})
    \cup Key("news_embeddings", "news_embeddings_article_id_fkey", "raw_articles")
ArticleKey == Key("raw_articles", "raw_articles_cluster_id_fkey", "issue_clusters")
ClusterKey == Key("issue_clusters", "fk_issue_clusters_centroid", "news_embeddings")
SharedBriefings ==
    Table("shared_briefings") \cup Key("shared_briefings", "shared_briefings_created_by_user_id_fkey", "users")
SharedTokens == Parts("shared_briefings", {"ix_shared_briefings_share_token"})
DailyBriefings == Table("daily_briefings") \cup Parts("daily_briefings", {"top_issue_ids_array"})
DailyDates == Parts("daily_briefings", {"ix_daily_briefings_briefing_date"})

LEMMA PartsTwo == ASSUME NEW t, NEW a, NEW b PROVE Parts(t, {a, b}) = Parts(t, {a}) \cup Parts(t, {b})
  BY DEF Parts

\* What autogenerate renamed, but for the three lists.
RenamedRest ==
    DailyDates \cup Parts("guest_interests", {"ix_guest_interests_session_token"})
    \cup Parts("interest_embeddings", {"embedding_json"}) \cup Parts("news_embeddings", {"embedding_json"})
    \cup Parts("schedules", {"ix_schedules_schedule_date"}) \cup SharedTokens
    \cup Parts("stocks", {"ix_stocks_code", "ix_stocks_name"}) \cup UserBriefingDates

LEMMA ListsAre ==
    /\ JsonLists = Parts("daily_briefings", {"top_issue_ids_json"})
                   \cup Parts("user_briefings", {"matched_issue_ids_json"})
                   \cup Parts("issue_clusters", {"related_stock_codes_json"})
    /\ ArrayLists = Parts("daily_briefings", {"top_issue_ids_array"})
                    \cup Parts("user_briefings", {"matched_issue_ids_array"})
                    \cup Parts("issue_clusters", {"related_stock_codes_array"})
  <1>1. ASSUME NEW f, DOMAIN f = {"daily_briefings", "user_briefings", "issue_clusters"}
        PROVE  PartsOf(f) = Parts("daily_briefings", f["daily_briefings"])
                            \cup Parts("user_briefings", f["user_briefings"])
                            \cup Parts("issue_clusters", f["issue_clusters"])
    BY <1>1 DEF PartsOf
  <1> DEFINE f == [daily_briefings |-> {"top_issue_ids_json"}, user_briefings |-> {"matched_issue_ids_json"},
                   issue_clusters |-> {"related_stock_codes_json"}]
             g == [daily_briefings |-> {"top_issue_ids_array"}, user_briefings |-> {"matched_issue_ids_array"},
                   issue_clusters |-> {"related_stock_codes_array"}]
  <1>2. /\ DOMAIN f = {"daily_briefings", "user_briefings", "issue_clusters"}
        /\ f["daily_briefings"] = {"top_issue_ids_json"} /\ f["user_briefings"] = {"matched_issue_ids_json"}
        /\ f["issue_clusters"] = {"related_stock_codes_json"}
    OBVIOUS
  <1>3. /\ DOMAIN g = {"daily_briefings", "user_briefings", "issue_clusters"}
        /\ g["daily_briefings"] = {"top_issue_ids_array"} /\ g["user_briefings"] = {"matched_issue_ids_array"}
        /\ g["issue_clusters"] = {"related_stock_codes_array"}
    OBVIOUS
  <1>4. JsonLists = PartsOf(f) /\ ArrayLists = PartsOf(g)
    BY DEF JsonLists, ArrayLists
  <1> HIDE DEF f, g
  <1>5. PartsOf(f) = Parts("daily_briefings", f["daily_briefings"])
                     \cup Parts("user_briefings", f["user_briefings"])
                     \cup Parts("issue_clusters", f["issue_clusters"])
    BY <1>1, <1>2
  <1>6. PartsOf(g) = Parts("daily_briefings", g["daily_briefings"])
                     \cup Parts("user_briefings", g["user_briefings"])
                     \cup Parts("issue_clusters", g["issue_clusters"])
    BY <1>1, <1>3
  <1> QED BY <1>2, <1>3, <1>4, <1>5, <1>6

LEMMA RenamedAre == PartsOf(RenamedNames) = RenamedRest \cup JsonLists
  <1> DEFINE f == RenamedNames
  <1>1. DOMAIN f = {"daily_briefings", "guest_interests", "interest_embeddings", "issue_clusters",
                    "news_embeddings", "schedules", "shared_briefings", "stocks", "user_briefings"}
    BY DEF RenamedNames
  <1>2. /\ f["daily_briefings"] = {"top_issue_ids_json", "ix_daily_briefings_briefing_date"}
        /\ f["guest_interests"] = {"ix_guest_interests_session_token"}
        /\ f["interest_embeddings"] = {"embedding_json"}
        /\ f["issue_clusters"] = {"related_stock_codes_json"}
        /\ f["news_embeddings"] = {"embedding_json"}
        /\ f["schedules"] = {"ix_schedules_schedule_date"}
        /\ f["shared_briefings"] = {"ix_shared_briefings_share_token"}
        /\ f["stocks"] = {"ix_stocks_code", "ix_stocks_name"}
        /\ f["user_briefings"] = {"matched_issue_ids_json", "ix_user_briefings_briefing_date"}
    BY DEF RenamedNames
  <1>3. /\ Parts("daily_briefings", {"top_issue_ids_json", "ix_daily_briefings_briefing_date"})
           = Parts("daily_briefings", {"top_issue_ids_json"}) \cup DailyDates
        /\ Parts("user_briefings", {"matched_issue_ids_json", "ix_user_briefings_briefing_date"})
           = Parts("user_briefings", {"matched_issue_ids_json"}) \cup UserBriefingDates
    BY PartsTwo DEF DailyDates, UserBriefingDates
  <1> HIDE DEF f
  <1>4. PartsOf(f)
        = Parts("daily_briefings", f["daily_briefings"]) \cup Parts("guest_interests", f["guest_interests"])
          \cup Parts("interest_embeddings", f["interest_embeddings"])
          \cup Parts("issue_clusters", f["issue_clusters"]) \cup Parts("news_embeddings", f["news_embeddings"])
          \cup Parts("schedules", f["schedules"]) \cup Parts("shared_briefings", f["shared_briefings"])
          \cup Parts("stocks", f["stocks"]) \cup Parts("user_briefings", f["user_briefings"])
    BY <1>1 DEF PartsOf
  <1>5. PartsOf(f)
        = (Parts("daily_briefings", {"top_issue_ids_json"}) \cup DailyDates)
          \cup Parts("guest_interests", {"ix_guest_interests_session_token"})
          \cup Parts("interest_embeddings", {"embedding_json"})
          \cup Parts("issue_clusters", {"related_stock_codes_json"})
          \cup Parts("news_embeddings", {"embedding_json"})
          \cup Parts("schedules", {"ix_schedules_schedule_date"}) \cup SharedTokens
          \cup Parts("stocks", {"ix_stocks_code", "ix_stocks_name"})
          \cup (Parts("user_briefings", {"matched_issue_ids_json"}) \cup UserBriefingDates)
    BY <1>2, <1>3, <1>4 DEF SharedTokens
  <1> QED BY <1>5, ListsAre DEF RenamedRest, f

LEMMA Schema4Is == Schema4 = LegacyRest \cup RenamedRest \cup Password \cup ProviderKeys \cup ArrayLists
  <1>1. JsonLists \cap LegacyRest = {}
    <2>1. JsonNames \cap LegacyRestNames = {}
      BY DEF JsonNames, LegacyRestNames, LegacyTables
    <2> QED BY <2>1, Lists4Are, RestNamed, NamedApart DEF Lists4
  <1>2. JsonLists \cap Password = {} /\ JsonLists \cap ProviderKeys = {}
    <2>1. JsonNames \cap {"password_hash"} = {} /\ JsonNames \cap ProviderNames = {}
      BY DEF JsonNames, ProviderNames
    <2> QED BY <2>1, Lists4Are, Revision2, ProviderKeysAre, NamedApart DEF Lists4
  <1>3. JsonLists \cap RenamedRest = {}
    <2> DEFINE N == RenamedPartNames \ JsonNames
    <2>1. /\ {"ix_daily_briefings_briefing_date"} \subseteq N /\ {"ix_guest_interests_session_token"} \subseteq N
          /\ {"embedding_json"} \subseteq N /\ {"ix_schedules_schedule_date"} \subseteq N
          /\ {"ix_shared_briefings_share_token"} \subseteq N /\ {"ix_stocks_code", "ix_stocks_name"} \subseteq N
          /\ {"ix_user_briefings_briefing_date"} \subseteq N
      BY DEF RenamedPartNames, JsonNames
    <2>2. N \cap JsonNames = {}
      OBVIOUS
    <2> HIDE DEF N
    <2>3. Named(DailyDates, N) /\ Named(SharedTokens, N) /\ Named(UserBriefingDates, N)
      <3>1. Named(DailyDates, N)
        BY <2>1, NamedParts DEF DailyDates
      <3>2. Named(SharedTokens, N)
        BY <2>1, NamedParts DEF SharedTokens
      <3>3. Named(UserBriefingDates, N)
        BY <2>1, NamedParts DEF UserBriefingDates
      <3> QED BY <3>1, <3>2, <3>3
    <2>4. /\ Named(Parts("guest_interests", {"ix_guest_interests_session_token"}), N)
          /\ Named(Parts("interest_embeddings", {"embedding_json"}), N)
          /\ Named(Parts("news_embeddings", {"embedding_json"}), N)
          /\ Named(Parts("schedules", {"ix_schedules_schedule_date"}), N)
          /\ Named(Parts("stocks", {"ix_stocks_code", "ix_stocks_name"}), N)
      <3>1. Named(Parts("stocks", {"ix_stocks_code", "ix_stocks_name"}), N)
        <4> DEFINE K == {"ix_stocks_code", "ix_stocks_name"}
        <4>1. K \subseteq N
          BY <2>1
        <4> HIDE DEF K
        <4>2. Named(Parts("stocks", K), N)
          BY <4>1, NamedParts
        <4> QED BY <4>2 DEF K
      <3>2. Named(Parts("guest_interests", {"ix_guest_interests_session_token"}), N)
        BY <2>1, NamedParts
      <3>3. Named(Parts("interest_embeddings", {"embedding_json"}), N)
        BY <2>1, NamedParts
      <3>4. Named(Parts("news_embeddings", {"embedding_json"}), N)
        BY <2>1, NamedParts
      <3>5. Named(Parts("schedules", {"ix_schedules_schedule_date"}), N)
        BY <2>1, NamedParts
      <3> QED BY <3>1, <3>2, <3>3, <3>4, <3>5
    <2>5. Named(RenamedRest, N)
      BY <2>3, <2>4 DEF RenamedRest, Named
    <2> QED BY <2>2, <2>5, Lists4Are, NamedApart DEF Lists4
  <1>4. Schema3 = LegacyRest \cup (RenamedRest \cup JsonLists) \cup Password \cup ProviderKeys
    BY RenamedAre DEF Schema3, Schema2, Schema1
  <1> QED BY <1>1, <1>2, <1>3, <1>4 DEF Schema4

LEMMA LegacyTablesMade ==
    UNION {Table(t) : t \in LegacyTables}
    = Table("daily_briefings") \cup Table("guest_interests") \cup Table("interest_embeddings")
      \cup Table("issue_clusters") \cup Table("news_embeddings") \cup Table("schedules")
      \cup Table("shared_briefings") \cup Table("stocks") \cup Table("user_briefings")
      \cup Table("user_interests") \cup Table("users") \cup Table("raw_articles")
      \cup Table("commute_routes") \cup Table("commute_queries")
  BY DEF LegacyTables

Kept8 == Schema8 \cup UserBriefings \cup UserBriefingDates \cup InterestEmbeddings
LEMMA Schema7Is ==
    Schema7 = Kept8 \cup Clusters \cup Articles \cup NewsEmbeddings \cup ArticleKey \cup ClusterKey
              \cup SharedBriefings \cup SharedTokens \cup DailyBriefings \cup DailyDates
  <1> DEFINE tDB == Table("daily_briefings")
             tGI == Table("guest_interests")
             tIE == Table("interest_embeddings")
             tIC == Table("issue_clusters")
             tNE == Table("news_embeddings")
             tSC == Table("schedules")
             tSB == Table("shared_briefings")
             tST == Table("stocks")
             tUB == Table("user_briefings")
             tUI == Table("user_interests")
             tU == Table("users")
             tRA == Table("raw_articles")
             tCR == Table("commute_routes")
             tCQ == Table("commute_queries")
             uRA == Parts("raw_articles", {"raw_articles_url_key"})
             uU == Parts("users", {"users_email_key"})
             kIC == Key("issue_clusters", "fk_issue_clusters_centroid", "news_embeddings")
             kRA == Key("raw_articles", "raw_articles_cluster_id_fkey", "issue_clusters")
             kNE == Key("news_embeddings", "news_embeddings_article_id_fkey", "raw_articles")
             kUB == Key("user_briefings", "user_briefings_user_id_fkey", "users")
             kSB == Key("shared_briefings", "shared_briefings_created_by_user_id_fkey", "users")
             kUI == Key("user_interests", "user_interests_user_id_fkey", "users")
             kCQ == Key("commute_queries", "commute_queries_user_id_fkey", "users")
             kCR == Key("commute_routes", "commute_routes_user_id_fkey", "users")
             kSC == Key("schedules", "schedules_user_id_fkey", "users")
             xGI == Parts("guest_interests", {"ix_guest_interests_session_token"})
             xIE == Parts("interest_embeddings", {"embedding_json"})
             xNE == Parts("news_embeddings", {"embedding_json"})
             xSC == Parts("schedules", {"ix_schedules_schedule_date"})
             xST == Parts("stocks", {"ix_stocks_code", "ix_stocks_name"})
             qUI == Parts("user_interests", {"uq_user_interests_user_id_type_value"})
             qU == Parts("users", {"uq_users_provider_provider_id"})
             aDB == Parts("daily_briefings", {"top_issue_ids_array"})
             aUB == Parts("user_briefings", {"matched_issue_ids_array"})
             aIC == Parts("issue_clusters", {"related_stock_codes_array"})
  <1>1. LegacyRest = tDB \cup tGI \cup tIE \cup tIC \cup tNE \cup tSC \cup tSB \cup tST \cup tUB \cup tUI \cup tU
                    \cup tRA \cup tCR \cup tCQ \cup LegacyUnique \cup LegacyKeys
    BY LegacyTablesMade DEF LegacyRest
  <1>2. LegacyUnique = uRA \cup uU
    BY DEF LegacyUnique
  <1>3. LegacyKeys = kIC \cup kRA \cup kNE \cup kUB \cup kSB \cup kUI \cup kCQ \cup kCR \cup kSC
    BY DEF LegacyKeys
  <1>4. RenamedRest = DailyDates \cup xGI \cup xIE \cup xNE \cup xSC \cup SharedTokens \cup xST \cup UserBriefingDates
    BY DEF RenamedRest
  <1>5. ProviderKeys = qUI \cup qU
    BY DEF ProviderKeys
  <1>6. ArrayLists = aDB \cup aUB \cup aIC
    BY ListsAre
  <1>7. OldUsers = tU \cup uU \cup Password \cup qU
    BY DEF OldUsers
  <1>8. UserInterests = tUI \cup qUI \cup kUI /\ CommuteQueries = tCQ \cup kCQ
    BY DEF UserInterests, CommuteQueries
  <1>9. Stocks = tST \cup xST
    BY PartsTwo DEF Stocks
  <1>10. GuestInterests = tGI \cup xGI /\ Schedules = tSC \cup xSC \cup kSC /\ CommuteRoutes = tCR \cup kCR
    BY DEF GuestInterests, Schedules, CommuteRoutes
  <1>11. UserBriefings = tUB \cup aUB \cup kUB /\ InterestEmbeddings = tIE \cup xIE
    BY DEF UserBriefings, InterestEmbeddings
  <1>12. Clusters = tIC \cup aIC /\ Articles = tRA \cup uRA /\ NewsEmbeddings = tNE \cup xNE \cup kNE
    BY DEF Clusters, Articles, NewsEmbeddings
  <1>13. ArticleKey = kRA /\ ClusterKey = kIC
    BY DEF ArticleKey, ClusterKey
  <1>14. SharedBriefings = tSB \cup kSB /\ DailyBriefings = tDB \cup aDB
    BY DEF SharedBriefings, DailyBriefings
  <1> HIDE DEF tDB, tGI, tIE, tIC, tNE, tSC, tSB, tST, tUB, tUI, tU, tRA, tCR, tCQ, uRA, uU, kIC, kRA,
               kNE, kUB, kSB, kUI, kCQ, kCR, kSC, xGI, xIE, xNE, xSC, xST, qUI, qU, aDB, aUB, aIC
  <1>15. Schema7 = LegacyRest \cup RenamedRest \cup Password \cup ProviderKeys \cup ArrayLists \cup CommuteFavorites
    BY Schema4Is DEF Schema7
  <1> QED BY <1>1, <1>2, <1>3, <1>4, <1>5, <1>6, <1>7, <1>8, <1>9, <1>10, <1>11, <1>12,
             <1>13, <1>14, <1>15 DEF Kept8, Schema8

\* A table made with its parts, and dropped after some of the parts.
InTwo(s, x, p, t) == Apply(s \cup x, Drop(p)) = s \cup (x \ p) /\ Apply(s \cup (x \ p), DropTable(t)) = s

LEMMA DroppedInTwo ==
    ASSUME NEW s, Fitting(s), NEW t, NEW x, NewIn(s, x, t), NEW p, p \subseteq x, Bare(p)
    PROVE  InTwo(s, x, p, t)
  <1>1. Made(s, x, t)
    BY CreatedTable
  <1>2. (s \cup x) \ p = s \cup (x \ p)
    BY <1>1 DEF Made
  <1>3. Apply(s \cup x, Drop(p)) = s \cup (x \ p)
    <2> DEFINE y == s \cup x
    <2>1. Fitting(y) /\ p \subseteq y
      BY <1>1 DEF Made
    <2> HIDE DEF y
    <2>2. Apply(y, Drop(p)) = y \ p
      BY <2>1, Dropped
    <2> QED BY <1>2, <2>2 DEF y
  <1>4. NewIn(s, x \ p, t)
    BY DEF NewIn, Entire, On, Bare, TablesIn
  <1>5. Made(s, x \ p, t)
    BY <1>4, CreatedTable
  <1> QED BY <1>3, <1>5 DEF Made, InTwo

LEMMA OwnMade ==
    ASSUME NEW s, Fitting(s), NEW t, t \notin TablesIn(s), "users" \in TablesIn(s), NEW x, OwnTable(x, t)
    PROVE  NewIn(s, x, t) /\ Made(s, x, t)
  <1>1. NewIn(s, x, t)
    BY DEF OwnTable, On, NewIn
  <1> QED BY <1>1, CreatedTable

----------------------------------------------------------------------------
\* Revision 10, or the part of it that is the same for any schema: the other
\* services go, and the downgrade makes their tables again.
RemovedTables ==
    {"user_interests", "commute_queries", "stocks", "commute_favorites", "guest_interests", "schedules",
     "commute_routes"}
Services(s) ==
    s \cup UserInterests \cup CommuteQueries \cup Stocks \cup CommuteFavorites
    \cup GuestInterests \cup Schedules \cup CommuteRoutes

LEMMA ServicesAre ==
    /\ OwnTable(UserInterests, "user_interests") /\ OwnTable(CommuteQueries, "commute_queries")
    /\ OwnTable(Stocks, "stocks") /\ OwnTable(CommuteFavorites, "commute_favorites")
    /\ OwnTable(GuestInterests, "guest_interests") /\ OwnTable(Schedules, "schedules")
    /\ OwnTable(CommuteRoutes, "commute_routes")
  <1>1. OwnTable(UserInterests, "user_interests")
    BY OwnTableOf DEF UserInterests
  <1>2. OwnTable(CommuteQueries, "commute_queries")
    BY OwnTableOf DEF CommuteQueries
  <1>3. OwnTable(Stocks, "stocks")
    BY OwnTableOf DEF Stocks
  <1>4. OwnTable(GuestInterests, "guest_interests")
    BY OwnTableOf DEF GuestInterests
  <1>5. OwnTable(Schedules, "schedules")
    BY OwnTableOf DEF Schedules
  <1>6. OwnTable(CommuteRoutes, "commute_routes")
    BY OwnTableOf DEF CommuteRoutes
  <1> QED BY <1>1, <1>2, <1>3, <1>4, <1>5, <1>6, CommuteFavoritesAre

LEMMA ServicesMade ==
    ASSUME NEW s, Fitting(s), "users" \in TablesIn(s), TablesIn(s) \cap RemovedTables = {}
    PROVE  /\ Fitting(Services(s)) /\ TablesIn(Services(s)) = TablesIn(s) \cup RemovedTables
           /\ After(s, R_12badf3b9d7e.down) = Services(s) /\ After(Services(s), R_12badf3b9d7e.up) = s
  <1> DEFINE T == TablesIn(s)
             c1 == s \cup UserInterests
             c2 == c1 \cup CommuteQueries
             c3 == c2 \cup Stocks
             c4 == c3 \cup CommuteFavorites
             c5 == c4 \cup GuestInterests
             c6 == c5 \cup Schedules
             c7 == c6 \cup CommuteRoutes
             p3 == Parts("stocks", {"ix_stocks_code", "ix_stocks_name"})
             p5 == Parts("guest_interests", {"ix_guest_interests_session_token"})
             p6 == Parts("schedules", {"ix_schedules_schedule_date"})
  <1>0. /\ "users" \in T /\ T \cap RemovedTables = {} /\ RemovedTables = {"user_interests", "commute_queries", "stocks", "commute_favorites",
            "guest_interests", "schedules", "commute_routes"}
    BY DEF RemovedTables
  <1>1. NewIn(s, UserInterests, "user_interests") /\ Made(s, UserInterests, "user_interests")
    BY <1>0, ServicesAre, OwnMade
  <1>2. Fitting(c1) /\ TablesIn(c1) = T \cup {"user_interests"}
    BY <1>1 DEF Made
  <1> HIDE DEF T
  <1>3. NewIn(c1, CommuteQueries, "commute_queries") /\ Made(c1, CommuteQueries, "commute_queries")
    <2> HIDE DEF c1
    <2>1. "commute_queries" \notin TablesIn(c1) /\ "users" \in TablesIn(c1)
      BY <1>0, <1>2
    <2> QED BY <1>2, <2>1, ServicesAre, OwnMade
  <1>4. Fitting(c2) /\ TablesIn(c2) = T \cup {"user_interests", "commute_queries"}
    BY <1>2, <1>3 DEF Made
  <1>5. NewIn(c2, Stocks, "stocks") /\ Made(c2, Stocks, "stocks")
    <2> HIDE DEF c2
    <2>1. "stocks" \notin TablesIn(c2) /\ "users" \in TablesIn(c2)
      BY <1>0, <1>4
    <2> QED BY <1>4, <2>1, ServicesAre, OwnMade
  <1>6. Fitting(c3) /\ TablesIn(c3) = T \cup {"user_interests", "commute_queries", "stocks"}
    BY <1>4, <1>5 DEF Made
  <1>7. NewIn(c3, CommuteFavorites, "commute_favorites") /\ Made(c3, CommuteFavorites, "commute_favorites")
    <2> HIDE DEF c3
    <2>1. "commute_favorites" \notin TablesIn(c3) /\ "users" \in TablesIn(c3)
      BY <1>0, <1>6
    <2> QED BY <1>6, <2>1, ServicesAre, OwnMade
  <1>8. Fitting(c4) /\ TablesIn(c4) = T \cup {"user_interests", "commute_queries", "stocks", "commute_favorites"}
    BY <1>6, <1>7 DEF Made
  <1>9. NewIn(c4, GuestInterests, "guest_interests") /\ Made(c4, GuestInterests, "guest_interests")
    <2> HIDE DEF c4
    <2>1. "guest_interests" \notin TablesIn(c4) /\ "users" \in TablesIn(c4)
      BY <1>0, <1>8
    <2> QED BY <1>8, <2>1, ServicesAre, OwnMade
  <1>10. Fitting(c5) /\ TablesIn(c5) = T \cup {"user_interests", "commute_queries", "stocks", "commute_favorites",
                                               "guest_interests"}
    BY <1>8, <1>9 DEF Made
  <1>11. NewIn(c5, Schedules, "schedules") /\ Made(c5, Schedules, "schedules")
    <2> HIDE DEF c5
    <2>1. "schedules" \notin TablesIn(c5) /\ "users" \in TablesIn(c5)
      BY <1>0, <1>10
    <2> QED BY <1>10, <2>1, ServicesAre, OwnMade
  <1>12. Fitting(c6) /\ TablesIn(c6) = T \cup {"user_interests", "commute_queries", "stocks", "commute_favorites",
                                               "guest_interests", "schedules"}
    BY <1>10, <1>11 DEF Made
  <1>13. NewIn(c6, CommuteRoutes, "commute_routes") /\ Made(c6, CommuteRoutes, "commute_routes")
    <2> HIDE DEF c6
    <2>1. "commute_routes" \notin TablesIn(c6) /\ "users" \in TablesIn(c6)
      BY <1>0, <1>12
    <2> QED BY <1>12, <2>1, ServicesAre, OwnMade
  <1>14. Fitting(c7) /\ TablesIn(c7) = T \cup RemovedTables
    BY <1>0, <1>12, <1>13 DEF Made
  <1>15. /\ p3 \subseteq Stocks /\ p5 \subseteq GuestInterests /\ p6 \subseteq Schedules
         /\ Bare(p3) /\ Bare(p5) /\ Bare(p6)
    BY PartsTwo, BareParts DEF Stocks, GuestInterests, Schedules
  <1>16. /\ InTwo(c2, Stocks, p3, "stocks") /\ InTwo(c4, GuestInterests, p5, "guest_interests")
         /\ InTwo(c5, Schedules, p6, "schedules")
    <2> HIDE DEF c2, c4, c5, p3, p5, p6
    <2> QED BY <1>4, <1>5, <1>8, <1>9, <1>10, <1>11, <1>15, DroppedInTwo
  <1>17. After(s, R_12badf3b9d7e.down) = c7
    <2>1. /\ c1 = Apply(s, Create(UserInterests)) /\ c2 = Apply(c1, Create(CommuteQueries))
          /\ c3 = Apply(c2, Create(Stocks)) /\ c4 = Apply(c3, Create(CommuteFavorites))
          /\ c5 = Apply(c4, Create(GuestInterests)) /\ c6 = Apply(c5, Create(Schedules))
          /\ c7 = Apply(c6, Create(CommuteRoutes))
      BY <1>1, <1>3, <1>5, <1>7, <1>9, <1>11, <1>13 DEF Made
    <2> HIDE DEF c1, c2, c3, c4, c5, c6, c7
    <2> QED BY <2>1, AfterSeven DEF R_12badf3b9d7e
  <1>18. After(c7, R_12badf3b9d7e.up) = s
    <2> DEFINE d6 == c5 \cup (Schedules \ p6)
               d5 == c4 \cup (GuestInterests \ p5)
               d3 == c2 \cup (Stocks \ p3)
    <2>1. /\ c6 = Apply(c7, DropTable("commute_routes"))
          /\ d6 = Apply(c6, Drop(p6)) /\ c5 = Apply(d6, DropTable("schedules"))
          /\ d5 = Apply(c5, Drop(p5)) /\ c4 = Apply(d5, DropTable("guest_interests"))
          /\ c3 = Apply(c4, DropTable("commute_favorites"))
          /\ d3 = Apply(c3, Drop(p3)) /\ c2 = Apply(d3, DropTable("stocks"))
          /\ c1 = Apply(c2, DropTable("commute_queries")) /\ s = Apply(c1, DropTable("user_interests"))
      BY <1>1, <1>3, <1>7, <1>13, <1>16 DEF Made, InTwo
    <2>2. R_12badf3b9d7e.up = << DropTable("commute_routes"), Drop(p6), DropTable("schedules"), Drop(p5),
                                 DropTable("guest_interests"), DropTable("commute_favorites"), Drop(p3),
                                 DropTable("stocks"), DropTable("commute_queries"), DropTable("user_interests") >>
      BY DEF R_12badf3b9d7e
    <2> HIDE DEF c1, c2, c3, c4, c5, c6, c7, d3, d5, d6, p3, p5, p6
    <2> QED BY <2>1, <2>2, AfterTen
  <1>19. Services(s) = c7
    BY DEF Services
  <1> HIDE DEF c7
  <1> QED BY <1>14, <1>17, <1>18, <1>19 DEF T

\* Users as the old service leaves them.
LEMMA OldUsersFit == /\ Fitting(OldUsers) /\ TablesIn(OldUsers) = {"users"}
                     /\ \A o \in OldUsers : o.of = "users" /\ o.to = ""
  <1>1. \A o \in OldUsers : o.of = "users" /\ o.to = ""
    <2>1. \A N : \A o \in Parts("users", N) : o.of = "users" /\ o.to = ""
      BY PartsMake
    <2> QED BY <2>1 DEF OldUsers, Password, Table
  <1>2. TablesIn(OldUsers) = {"users"}
    <2>1. "users" \in TablesIn(Table("users"))
      BY TablesOfTable
    <2>2. PICK o \in Table("users") : o.of = "users" /\ o.name = "users"
      BY <2>1, TablesAre
    <2> QED BY <1>1, <2>2 DEF OldUsers, TablesIn
  <1>3. OldUsers # {}
    BY <1>2 DEF TablesIn
  <1> QED BY <1>1, <1>2, <1>3, OnFits DEF On

LEMMA Schema8Fits == Fitting(Schema8) /\ TablesIn(Schema8) = {"users"} \cup RemovedTables
  <1>1. "users" \notin RemovedTables
    BY DEF RemovedTables
  <1>2. /\ Fitting(OldUsers) /\ "users" \in TablesIn(OldUsers)
        /\ TablesIn(OldUsers) \cap RemovedTables = {}
    BY <1>1, OldUsersFit
  <1>3. /\ Fitting(Services(OldUsers))
        /\ TablesIn(Services(OldUsers)) = TablesIn(OldUsers) \cup RemovedTables
    BY <1>2, ServicesMade
  <1>4. Schema8 = Services(OldUsers)
    BY DEF Schema8, Services
  <1> QED BY <1>3, <1>4, OldUsersFit

LEMMA WholeTable == ASSUME NEW t, NEW y, \A o \in y : o.of = t PROVE Entire(Table(t) \cup y, t)
  <1>1. \A o \in Table(t) : o.of = t
    BY PartsMake DEF Table
  <1>2. t \in TablesIn(Table(t))
    BY TablesOfTable
  <1>3. t \in TablesIn(Table(t) \cup y)
    BY <1>2 DEF TablesIn
  <1> QED BY <1>1, <1>3 DEF Entire

\* A part or key of the new table that is none of those it was made with.
LEMMA FreshPart ==
    ASSUME NEW s, Fitting(s), NEW t, NEW x, NewIn(s, x, t), NEW p, \A o \in p : o.of = t, p \cap x = {}
    PROVE  p \cap (s \cup x) = {}
  BY DEF Fitting, NewIn

LEMMA OtherNames == ASSUME NEW t, NEW a, NEW b, a # b PROVE Parts(t, {a}) \cap Parts(t, {b}) = {}
  BY PartsMake

LEMMA NotTheTable == ASSUME NEW t, NEW x, Bare(x) PROVE x \cap Table(t) = {}
  BY PartsMake DEF Bare, Table

LEMMA BriefingsAre ==
    /\ OwnTable(UserBriefings, "user_briefings") /\ OwnTable(InterestEmbeddings, "interest_embeddings")
    /\ OwnTable(Clusters, "issue_clusters") /\ OwnTable(Articles, "raw_articles")
    /\ OwnTable(SharedBriefings, "shared_briefings") /\ OwnTable(DailyBriefings, "daily_briefings")
    /\ Entire(NewsEmbeddings, "news_embeddings") /\ On(NewsEmbeddings, {"news_embeddings", "raw_articles"})
  <1>1. OwnTable(UserBriefings, "user_briefings")
    BY OwnTableOf DEF UserBriefings
  <1>2. OwnTable(InterestEmbeddings, "interest_embeddings")
    BY OwnTableOf DEF InterestEmbeddings
  <1>3. OwnTable(Clusters, "issue_clusters")
    BY OwnTableOf DEF Clusters
  <1>4. OwnTable(Articles, "raw_articles")
    BY OwnTableOf DEF Articles
  <1>5. OwnTable(SharedBriefings, "shared_briefings")
    BY OwnTableOf DEF SharedBriefings
  <1>6. OwnTable(DailyBriefings, "daily_briefings")
    BY OwnTableOf DEF DailyBriefings
  <1>7. Entire(NewsEmbeddings, "news_embeddings") /\ On(NewsEmbeddings, {"news_embeddings", "raw_articles"})
    <2> DEFINE a == Table("news_embeddings")
               b == Parts("news_embeddings", {"embedding_json"})
               c == Key("news_embeddings", "news_embeddings_article_id_fkey", "raw_articles")
               T == {"news_embeddings", "raw_articles"}
    <2>1. (\A o \in b : o.of = "news_embeddings") /\ (\A o \in c : o.of = "news_embeddings")
      BY PartsMake, KeyMakes
    <2>2. On(a, T) /\ On(b, T) /\ On(c, T)
      <3>1. "news_embeddings" \in T /\ "raw_articles" \in T
        OBVIOUS
      <3> HIDE DEF T
      <3> QED BY <3>1, OnTable, OnParts, OnKey
    <2>3. Entire(a \cup (b \cup c), "news_embeddings")
      <3> HIDE DEF b, c
      <3> QED BY <2>1, WholeTable
    <2>4. NewsEmbeddings = a \cup (b \cup c)
      BY DEF NewsEmbeddings
    <2> HIDE DEF a, b, c, T
    <2>5. On(NewsEmbeddings, T)
      BY <2>2, <2>4 DEF On
    <2> QED BY <2>3, <2>4, <2>5 DEF T
  <1> QED BY <1>1, <1>2, <1>3, <1>4, <1>5, <1>6, <1>7

\* Three indexes and two foreign keys that are dropped by themselves.
LEMMA BriefingParts ==
    /\ Bare(UserBriefingDates) /\ Bare(SharedTokens) /\ Bare(DailyDates) /\ Bare(ArticleKey) /\ Bare(ClusterKey)
    /\ \A o \in UserBriefingDates : o.of = "user_briefings" /\ o.to = ""
    /\ \A o \in SharedTokens : o.of = "shared_briefings" /\ o.to = ""
    /\ \A o \in DailyDates : o.of = "daily_briefings" /\ o.to = ""
    /\ \A o \in ArticleKey : o.of = "raw_articles" /\ o.to = "issue_clusters"
    /\ \A o \in ClusterKey : o.of = "issue_clusters" /\ o.to = "news_embeddings"
    /\ UserBriefingDates \cap UserBriefings = {} /\ SharedTokens \cap SharedBriefings = {}
    /\ DailyDates \cap DailyBriefings = {}
    /\ (\A o \in Clusters : o.to = "") /\ (\A o \in Articles : o.to = "")
  <1>1. Bare(UserBriefingDates) /\ Bare(SharedTokens) /\ Bare(DailyDates) /\ Bare(ArticleKey) /\ Bare(ClusterKey)
    BY BareParts, BareKey DEF UserBriefingDates, SharedTokens, DailyDates, ArticleKey, ClusterKey
  <1>2. /\ \A o \in UserBriefingDates : o.of = "user_briefings" /\ o.to = ""
        /\ \A o \in SharedTokens : o.of = "shared_briefings" /\ o.to = ""
        /\ \A o \in DailyDates : o.of = "daily_briefings" /\ o.to = ""
    BY PartsMake DEF UserBriefingDates, SharedTokens, DailyDates
  <1>3. /\ \A o \in ArticleKey : o.of = "raw_articles" /\ o.to = "issue_clusters"
        /\ \A o \in ClusterKey : o.of = "issue_clusters" /\ o.to = "news_embeddings"
    BY KeyMakes DEF ArticleKey, ClusterKey
  <1>4. (\A o \in Clusters : o.to = "") /\ (\A o \in Articles : o.to = "")
    BY PartsMake DEF Clusters, Articles, Table
  <1>5. \A t, n, u : u # "" => \A o \in Key(t, n, u) : o.to # ""
    BY KeyMakes
  <1>6. UserBriefingDates \cap UserBriefings = {}
    <2>1. UserBriefingDates \cap Parts("user_briefings", {"matched_issue_ids_array"}) = {}
      BY OtherNames DEF UserBriefingDates
    <2>2. UserBriefingDates \cap Table("user_briefings") = {}
      BY <1>1, NotTheTable
    <2>3. UserBriefingDates \cap Key("user_briefings", "user_briefings_user_id_fkey", "users") = {}
      BY <1>2, <1>5
    <2> QED BY <2>1, <2>2, <2>3 DEF UserBriefings
  <1>7. SharedTokens \cap SharedBriefings = {}
    <2>1. SharedTokens \cap Table("shared_briefings") = {}
      BY <1>1, NotTheTable
    <2>2. SharedTokens \cap Key("shared_briefings", "shared_briefings_created_by_user_id_fkey", "users") = {}
      BY <1>2, <1>5
    <2> QED BY <2>1, <2>2 DEF SharedBriefings
  <1>8. DailyDates \cap DailyBriefings = {}
    <2>1. DailyDates \cap Parts("daily_briefings", {"top_issue_ids_array"}) = {}
      BY OtherNames DEF DailyDates
    <2>2. DailyDates \cap Table("daily_briefings") = {}
      BY <1>1, NotTheTable
    <2> QED BY <2>1, <2>2 DEF DailyBriefings
  <1> QED BY <1>1, <1>2, <1>3, <1>4, <1>6, <1>7, <1>8

\* The first three steps of the downgrade of revision 8 are the last of its upgrade.
Down1 == Schema8 \cup UserBriefings
Down2 == Down1 \cup UserBriefingDates
Down3 == Down2 \cup InterestEmbeddings
BriefingTables == {"user_briefings", "interest_embeddings"}

LEMMA Down3Fits ==
    /\ NewIn(Schema8, UserBriefings, "user_briefings") /\ Made(Schema8, UserBriefings, "user_briefings")
    /\ Apply(Down1, Create(UserBriefingDates)) = Down2 /\ Apply(Down2, Drop(UserBriefingDates)) = Down1
    /\ Made(Down2, InterestEmbeddings, "interest_embeddings")
    /\ Fitting(Down3) /\ TablesIn(Down3) = {"users"} \cup RemovedTables \cup BriefingTables
  <1>1. /\ "user_briefings" \notin {"users"} \cup RemovedTables
        /\ "interest_embeddings" \notin {"users", "user_briefings"} \cup RemovedTables
    BY DEF RemovedTables
  <1>2. NewIn(Schema8, UserBriefings, "user_briefings") /\ Made(Schema8, UserBriefings, "user_briefings")
    <2>1. Fitting(Schema8) /\ "user_briefings" \notin TablesIn(Schema8) /\ "users" \in TablesIn(Schema8)
      BY <1>1, Schema8Fits
    <2> QED BY <2>1, BriefingsAre, OwnMade
  <1>3. Fitting(Down1) /\ TablesIn(Down1) = {"users"} \cup RemovedTables \cup {"user_briefings"}
    BY <1>2, Schema8Fits DEF Made, Down1
  <1>4. UserBriefingDates \cap Down1 = {}
    <2>1. \A o \in UserBriefingDates : o.of = "user_briefings"
      BY BriefingParts
    <2>2. UserBriefingDates \cap UserBriefings = {} /\ Fitting(Schema8)
      BY BriefingParts, Schema8Fits
    <2> QED BY <1>2, <2>1, <2>2, FreshPart DEF Down1
  <1>5. Bare(UserBriefingDates) /\ On(UserBriefingDates, TablesIn(Down1))
    BY <1>3, BriefingParts DEF On
  <1>6. /\ Apply(Down1, Create(UserBriefingDates)) = Down2 /\ Apply(Down2, Drop(UserBriefingDates)) = Down1
        /\ Fitting(Down2) /\ TablesIn(Down2) = TablesIn(Down1)
    <2> DEFINE y == Down1 \cup UserBriefingDates
    <2>1. /\ Apply(Down1, Create(UserBriefingDates)) = y /\ Fitting(y) /\ TablesIn(y) = TablesIn(Down1)
          /\ Apply(y, Drop(UserBriefingDates)) = Down1
      BY <1>3, <1>4, <1>5, NewParts
    <2>2. y = Down2
      BY DEF Down2
    <2> HIDE DEF y
    <2> QED BY <2>1, <2>2
  <1>7. Made(Down2, InterestEmbeddings, "interest_embeddings")
    <2>1. "interest_embeddings" \notin TablesIn(Down2) /\ "users" \in TablesIn(Down2)
      BY <1>1, <1>3, <1>6
    <2> QED BY <1>6, <2>1, BriefingsAre, OwnMade
  <1>8. Fitting(Down3) /\ TablesIn(Down3) = TablesIn(Down2) \cup {"interest_embeddings"}
    BY <1>7 DEF Made, Down3
  <1> QED BY <1>2, <1>3, <1>6, <1>7, <1>8 DEF BriefingTables

\* The whole way down, for the upgrade.
Down4 == Down3 \cup Clusters
Down5 == Down4 \cup Articles
Down6 == Down5 \cup NewsEmbeddings
Down7 == Down6 \cup ArticleKey
Down8 == Down7 \cup ClusterKey
Down9 == Down8 \cup SharedBriefings
Down10 == Down9 \cup SharedTokens
Down11 == Down10 \cup DailyBriefings

LEMMA BriefingsDropped ==
    /\ Made(Down3, Clusters, "issue_clusters") /\ Made(Down4, Articles, "raw_articles")
    /\ Made(Down5, NewsEmbeddings, "news_embeddings")
    /\ Apply(Down7, Drop(ArticleKey)) = Down6 /\ Apply(Down8, Drop(ClusterKey)) = Down7
    /\ Made(Down8, SharedBriefings, "shared_briefings") /\ Apply(Down10, Drop(SharedTokens)) = Down9
    /\ Made(Down10, DailyBriefings, "daily_briefings") /\ Apply(Schema7, Drop(DailyDates)) = Down11
  <1> DEFINE T == {"users"} \cup RemovedTables \cup BriefingTables
  <1>1. /\ "issue_clusters" \notin T /\ "raw_articles" \notin T /\ "news_embeddings" \notin T
        /\ "shared_briefings" \notin T /\ "daily_briefings" \notin T /\ "users" \in T
    BY DEF RemovedTables, BriefingTables
  <1> HIDE DEF T
  <1>2. Fitting(Down3) /\ TablesIn(Down3) = T
    BY Down3Fits DEF T
  <1>3. NewIn(Down3, Clusters, "issue_clusters") /\ Made(Down3, Clusters, "issue_clusters")
    BY <1>1, <1>2, BriefingsAre, OwnMade
  <1>4. Fitting(Down4) /\ TablesIn(Down4) = T \cup {"issue_clusters"}
    BY <1>2, <1>3 DEF Made, Down4
  <1>5. NewIn(Down4, Articles, "raw_articles") /\ Made(Down4, Articles, "raw_articles")
    <2>1. "raw_articles" \notin TablesIn(Down4) /\ "users" \in TablesIn(Down4)
      BY <1>1, <1>4
    <2> QED BY <1>4, <2>1, BriefingsAre, OwnMade
  <1>6. Fitting(Down5) /\ TablesIn(Down5) = T \cup {"issue_clusters", "raw_articles"}
    BY <1>4, <1>5 DEF Made, Down5
  <1>7. NewIn(Down5, NewsEmbeddings, "news_embeddings") /\ Made(Down5, NewsEmbeddings, "news_embeddings")
    <2>1. NewIn(Down5, NewsEmbeddings, "news_embeddings")
      BY <1>1, <1>6, BriefingsAre DEF NewIn, On
    <2> QED BY <1>6, <2>1, CreatedTable
  <1>8. Fitting(Down6) /\ TablesIn(Down6) = T \cup {"issue_clusters", "raw_articles", "news_embeddings"}
    BY <1>6, <1>7 DEF Made, Down6
  <1>9. /\ Apply(Down7, Drop(ArticleKey)) = Down6 /\ Fitting(Down7) /\ TablesIn(Down7) = TablesIn(Down6)
    <2>1. ArticleKey \cap Down6 = {}
      <3>1. \A o \in NewsEmbeddings : o.of = "news_embeddings"
        BY BriefingsAre DEF Entire
      <3>2. \A o \in Down4 : o.of # "raw_articles"
        BY <1>1, <1>4 DEF Fitting
      <3> QED BY <3>1, <3>2, BriefingParts DEF Down6, Down5
    <2>2. Bare(ArticleKey) /\ On(ArticleKey, TablesIn(Down6))
      BY <1>8, BriefingParts DEF On
    <2> DEFINE y == Down6 \cup ArticleKey
    <2>3. Fitting(y) /\ TablesIn(y) = TablesIn(Down6) /\ Apply(y, Drop(ArticleKey)) = Down6
      BY <1>8, <2>1, <2>2, NewParts
    <2>4. y = Down7
      BY DEF Down7
    <2> HIDE DEF y
    <2> QED BY <2>3, <2>4
  <1>10. /\ Apply(Down8, Drop(ClusterKey)) = Down7 /\ Fitting(Down8) /\ TablesIn(Down8) = TablesIn(Down6)
    <2>1. ClusterKey \cap Down7 = {}
      <3>1. (\A o \in NewsEmbeddings : o.of = "news_embeddings") /\ (\A o \in Articles : o.of = "raw_articles")
        BY BriefingsAre DEF OwnTable, Entire
      <3>2. \A o \in Down3 : o.of # "issue_clusters"
        BY <1>1, <1>2 DEF Fitting
      <3> QED BY <3>1, <3>2, BriefingParts DEF Down7, Down6, Down5, Down4
    <2>2. Bare(ClusterKey) /\ On(ClusterKey, TablesIn(Down7))
      BY <1>8, <1>9, BriefingParts DEF On
    <2> DEFINE y == Down7 \cup ClusterKey
    <2>3. Fitting(y) /\ TablesIn(y) = TablesIn(Down7) /\ Apply(y, Drop(ClusterKey)) = Down7
      BY <1>9, <2>1, <2>2, NewParts
    <2>4. y = Down8
      BY DEF Down8
    <2> HIDE DEF y
    <2> QED BY <1>9, <2>3, <2>4
  <1>11. /\ NewIn(Down8, SharedBriefings, "shared_briefings")
         /\ Made(Down8, SharedBriefings, "shared_briefings")
    <2>1. "shared_briefings" \notin TablesIn(Down8) /\ "users" \in TablesIn(Down8)
      BY <1>1, <1>8, <1>10
    <2> QED BY <1>10, <2>1, BriefingsAre, OwnMade
  <1>12. Fitting(Down9) /\ TablesIn(Down9) = TablesIn(Down8) \cup {"shared_briefings"}
    BY <1>11 DEF Made, Down9
  <1>13. /\ Apply(Down10, Drop(SharedTokens)) = Down9 /\ Fitting(Down10) /\ TablesIn(Down10) = TablesIn(Down9)
    <2>1. SharedTokens \cap Down9 = {}
      <3>1. (\A o \in SharedTokens : o.of = "shared_briefings") /\ SharedTokens \cap SharedBriefings = {}
        BY BriefingParts
      <3> QED BY <1>10, <1>11, <3>1, FreshPart DEF Down9
    <2>2. Bare(SharedTokens) /\ On(SharedTokens, TablesIn(Down9))
      BY <1>12, BriefingParts DEF On
    <2> DEFINE y == Down9 \cup SharedTokens
    <2>3. Fitting(y) /\ TablesIn(y) = TablesIn(Down9) /\ Apply(y, Drop(SharedTokens)) = Down9
      BY <1>12, <2>1, <2>2, NewParts
    <2>4. y = Down10
      BY DEF Down10
    <2> HIDE DEF y
    <2> QED BY <2>3, <2>4
  <1>14. NewIn(Down10, DailyBriefings, "daily_briefings") /\ Made(Down10, DailyBriefings, "daily_briefings")
    <2>1. "daily_briefings" \notin TablesIn(Down10) /\ "users" \in TablesIn(Down10)
      BY <1>1, <1>8, <1>10, <1>12, <1>13
    <2> QED BY <1>13, <2>1, BriefingsAre, OwnMade
  <1>15. Fitting(Down11) /\ TablesIn(Down11) = TablesIn(Down10) \cup {"daily_briefings"}
    BY <1>14 DEF Made, Down11
  <1>16. Apply(Schema7, Drop(DailyDates)) = Down11
    <2>1. DailyDates \cap Down11 = {}
      <3>1. (\A o \in DailyDates : o.of = "daily_briefings") /\ DailyDates \cap DailyBriefings = {}
        BY BriefingParts
      <3> QED BY <1>13, <1>14, <3>1, FreshPart DEF Down11
    <2>2. Bare(DailyDates) /\ On(DailyDates, TablesIn(Down11))
      BY <1>15, BriefingParts DEF On
    <2> DEFINE y == Down11 \cup DailyDates
    <2>3. Apply(y, Drop(DailyDates)) = Down11
      BY <1>15, <2>1, <2>2, NewParts
    <2>4. y = Schema7
      BY Schema7Is DEF Kept8, Down1, Down2, Down3, Down4, Down5, Down6, Down7, Down8, Down9, Down10, Down11
    <2> HIDE DEF y
    <2> QED BY <2>3, <2>4
  <1> QED BY <1>3, <1>5, <1>7, <1>9, <1>10, <1>11, <1>13, <1>14, <1>16

\* A statement after one that is refused is refused.
LEMMA NothingAfter == ASSUME NEW op PROVE Apply(Failed, op) = Failed
  BY DEF Apply

LEMMA Revision8 ==
    /\ After(Schema7, R_698d4567056f.up) = Schema8 /\ After(Schema8, R_698d4567056f.down) = Failed
  <1>1. After(Schema7, R_698d4567056f.up) = Schema8
    <2>1. R_698d4567056f.up
          = << Drop(DailyDates), DropTable("daily_briefings"), Drop(SharedTokens), DropTable("shared_briefings"),
               Drop(ClusterKey), Drop(ArticleKey), DropTable("news_embeddings"), DropTable("raw_articles"),
               DropTable("issue_clusters"), DropTable("interest_embeddings"), Drop(UserBriefingDates),
               DropTable("user_briefings") >>
      BY DEF R_698d4567056f, DailyDates, SharedTokens, ClusterKey, ArticleKey, UserBriefingDates
    <2>2. /\ Down11 = Apply(Schema7, Drop(DailyDates)) /\ Down10 = Apply(Down11, DropTable("daily_briefings"))
          /\ Down9 = Apply(Down10, Drop(SharedTokens)) /\ Down8 = Apply(Down9, DropTable("shared_briefings"))
          /\ Down7 = Apply(Down8, Drop(ClusterKey)) /\ Down6 = Apply(Down7, Drop(ArticleKey))
          /\ Down5 = Apply(Down6, DropTable("news_embeddings")) /\ Down4 = Apply(Down5, DropTable("raw_articles"))
          /\ Down3 = Apply(Down4, DropTable("issue_clusters"))
          /\ Down2 = Apply(Down3, DropTable("interest_embeddings"))
          /\ Down1 = Apply(Down2, Drop(UserBriefingDates)) /\ Schema8 = Apply(Down1, DropTable("user_briefings"))
      BY BriefingsDropped, Down3Fits DEF Made, Down1, Down3, Down4, Down5, Down6, Down9, Down11
    <2> QED BY <2>1, <2>2, AfterTwelve
  <1>2. After(Schema8, R_698d4567056f.down) = Failed
    <2> DEFINE ops == R_698d4567056f.down
               x == Articles \cup ArticleKey
    <2>1. /\ ops = <<ops[1], ops[2], ops[3], ops[4], ops[5], ops[6], ops[7], ops[8]>>
          /\ ops[1] = Create(UserBriefings) /\ ops[2] = Create(UserBriefingDates)
          /\ ops[3] = Create(InterestEmbeddings) /\ ops[4] = Create(x)
      BY DEF R_698d4567056f, UserBriefings, UserBriefingDates, InterestEmbeddings, Articles, ArticleKey
    <2>2. /\ Down1 = Apply(Schema8, ops[1]) /\ Down2 = Apply(Down1, ops[2]) /\ Down3 = Apply(Down2, ops[3])
      BY <2>1, Down3Fits DEF Made, Down1, Down3
    <2>3. Failed = Apply(Down3, Create(x))
      <3> DEFINE op == Create(x)
                 o == [of |-> "raw_articles", name |-> "raw_articles_cluster_id_fkey", to |-> "issue_clusters"]
      <3>1. op.tables = {} /\ op.drop = {} /\ op.add = x
        BY DEF Create, Replace
      <3>2. o \in x /\ o.to = "issue_clusters"
        BY DEF ArticleKey, Key
      <3>3. "issue_clusters" \notin TablesIn(Down3) /\ "issue_clusters" # ""
        BY Down3Fits DEF RemovedTables, BriefingTables
      <3>4. "issue_clusters" \notin TablesIn(x)
        <4>1. (\A p \in Articles : p.of = "raw_articles") /\ (\A p \in ArticleKey : p.of = "raw_articles")
          BY BriefingsAre, BriefingParts DEF OwnTable, Entire
        <4> QED BY <4>1 DEF TablesIn
      <3> HIDE DEF x, o, op
      <3>5. "issue_clusters" \notin TablesIn(Down3 \cup x)
        BY <3>3, <3>4, TablesOfBoth
      <3>6. {p \in Down3 : p.of \notin op.tables} \ op.drop = Down3
        BY <3>1
      <3>7. Apply(Down3, op) = Failed
        BY <3>1, <3>2, <3>3, <3>5, <3>6 DEF Apply
      <3> QED BY <3>7 DEF op
    <2> HIDE DEF ops, x
    <2>4. /\ Failed = Apply(Down3, ops[4]) /\ Failed = Apply(Failed, ops[5]) /\ Failed = Apply(Failed, ops[6])
          /\ Failed = Apply(Failed, ops[7]) /\ Failed = Apply(Failed, ops[8])
      BY <2>1, <2>3, NothingAfter
    <2>5. After(Schema8, <<ops[1], ops[2], ops[3], ops[4], ops[5], ops[6], ops[7], ops[8]>>) = Failed
      BY <2>2, <2>4, AfterEight
    <2> QED BY <2>1, <2>5 DEF ops
  <1> QED BY <1>1, <1>2

----------------------------------------------------------------------------
\* Revision 9, for any schema with users: questions, reasons and votes.
FirstVotes == VoteTable \cup ReasonKey("SET NULL") \cup ReasonId("NULL") \cup VoteOptions("AB")
WithChoices(s) == s \cup QuestionTable \cup ReasonTable \cup FirstVotes \cup VoteIndexes
ChoiceTables == {"choice_questions", "choice_reasons", "choice_votes"}

QuestionNames ==
    {"choice_questions", "ix_choice_questions_category", "ix_choice_questions_is_active",
     "ix_choice_questions_is_daily", "ix_choice_questions_published_at"}
ReasonNames == {"choice_reasons", "ix_choice_reasons_question_id", "choice_reasons_question_id_fkey"}
VoteTableNames ==
    {"choice_votes", "ck_choice_votes_participant", "choice_votes_question_id_fkey", "choice_votes_user_id_fkey"}
VoteIndexNames ==
    {"ix_choice_votes_guest_session_id", "ix_choice_votes_question_id", "ix_choice_votes_user_id",
     "uq_choice_votes_question_guest", "uq_choice_votes_question_user"}

LEMMA QuestionTableIs ==
    /\ OwnTable(QuestionTable, "choice_questions") /\ Named(QuestionTable, QuestionNames)
    /\ Bare(QuestionTable \ Table("choice_questions"))
  <1> DEFINE t == "choice_questions"
             N == {"ix_choice_questions_category", "ix_choice_questions_is_active",
                   "ix_choice_questions_is_daily", "ix_choice_questions_published_at"}
  <1>1. QuestionTable = Table(t) \cup Parts(t, N)
    BY DEF QuestionTable
  <1>2. t \in QuestionNames /\ N \subseteq QuestionNames /\ t \notin N
    BY DEF QuestionNames
  <1> HIDE DEF t, N
  <1>3. OwnTable(QuestionTable, t)
    BY <1>1, OwnTableOf
  <1>4. Named(QuestionTable, QuestionNames)
    BY <1>1, <1>2, NamedTable, NamedParts, NamedBoth
  <1>5. Bare(QuestionTable \ Table(t))
    BY <1>1, <1>2, BareParts DEF Bare
  <1> QED BY <1>3, <1>4, <1>5 DEF t

LEMMA ReasonTableIs ==
    /\ Entire(ReasonTable, "choice_reasons") /\ On(ReasonTable, {"choice_reasons", "choice_questions"})
    /\ Named(ReasonTable, ReasonNames)
    /\ Parts("choice_reasons", {"ix_choice_reasons_question_id"}) \subseteq ReasonTable
    /\ Bare(Parts("choice_reasons", {"ix_choice_reasons_question_id"}))
  <1> DEFINE t == "choice_reasons"
             T == {"choice_reasons", "choice_questions"}
             b == Parts(t, {"ix_choice_reasons_question_id"})
             c == Key(t, "choice_reasons_question_id_fkey", "choice_questions")
  <1>1. ReasonTable = Table(t) \cup (b \cup c)
    BY DEF ReasonTable
  <1>2. \A o \in b \cup c : o.of = t
    BY PartsMake, KeyMakes
  <1>3. On(Table(t), T) /\ On(b, T) /\ On(c, T)
    <2>1. t \in T /\ "choice_questions" \in T
      OBVIOUS
    <2> HIDE DEF t, T
    <2> QED BY <2>1, OnTable, OnParts, OnKey
  <1>4. Named(Table(t), ReasonNames) /\ Named(b, ReasonNames) /\ Named(c, ReasonNames)
    <2>1. /\ t \in ReasonNames /\ {"ix_choice_reasons_question_id"} \subseteq ReasonNames
          /\ "choice_reasons_question_id_fkey" \in ReasonNames
      BY DEF ReasonNames
    <2> HIDE DEF t
    <2> QED BY <2>1, NamedTable, NamedParts, NamedKey
  <1>5. Bare(b)
    BY BareParts
  <1> HIDE DEF b, c, T
  <1>6. Entire(ReasonTable, t)
    BY <1>1, <1>2, WholeTable
  <1>7. On(ReasonTable, T) /\ Named(ReasonTable, ReasonNames) /\ b \subseteq ReasonTable
    BY <1>1, <1>3, <1>4 DEF On, Named
  <1> QED BY <1>5, <1>6, <1>7 DEF T, b

LEMMA VoteTableIs ==
    /\ Entire(VoteTable, "choice_votes") /\ On(VoteTable, {"choice_votes", "choice_questions", "users"})
    /\ Named(VoteTable, VoteTableNames)
  <1> DEFINE t == "choice_votes"
             T == {"choice_votes", "choice_questions", "users"}
             N == VoteTableNames
             b == Parts(t, {"ck_choice_votes_participant"})
             c == Key(t, "choice_votes_question_id_fkey", "choice_questions")
             d == Key(t, "choice_votes_user_id_fkey", "users")
  <1>1. VoteTable = Table(t) \cup (b \cup c \cup d)
    BY DEF VoteTable
  <1>2. \A o \in b \cup c \cup d : o.of = t
    BY PartsMake, KeyMakes
  <1>3. On(Table(t), T) /\ On(b, T) /\ On(c, T) /\ On(d, T)
    <2>1. t \in T /\ "choice_questions" \in T /\ "users" \in T
      OBVIOUS
    <2> HIDE DEF t, T
    <2> QED BY <2>1, OnTable, OnParts, OnKey
  <1>4. Named(Table(t), N) /\ Named(b, N) /\ Named(c, N) /\ Named(d, N)
    <2>1. /\ t \in N /\ {"ck_choice_votes_participant"} \subseteq N
          /\ "choice_votes_question_id_fkey" \in N /\ "choice_votes_user_id_fkey" \in N
      BY DEF VoteTableNames
    <2> HIDE DEF t, N
    <2> QED BY <2>1, NamedTable, NamedParts, NamedKey
  <1> HIDE DEF b, c, d, T, N
  <1>5. Entire(VoteTable, t)
    BY <1>1, <1>2, WholeTable
  <1>6. On(VoteTable, T) /\ Named(VoteTable, N)
    BY <1>1, <1>3, <1>4 DEF On, Named
  <1> QED BY <1>5, <1>6 DEF T, N

\* The three parts of votes that change.
LEMMA VotePartsAre ==
    /\ \A k : Named(ReasonKey(k), {k}) /\ Named(ReasonId(k), {k}) /\ Named(VoteOptions(k), {k})
    /\ \A k : k # "choice_votes" => Bare(ReasonKey(k)) /\ Bare(ReasonId(k)) /\ Bare(VoteOptions(k))
    /\ \A k : /\ \A o \in ReasonKey(k) : o.of = "choice_votes" /\ o.to = "choice_reasons"
              /\ \A o \in ReasonId(k) : o.of = "choice_votes" /\ o.to = ""
              /\ \A o \in VoteOptions(k) : o.of = "choice_votes" /\ o.to = ""
  <1>1. \A k : Named(ReasonKey(k), {k}) /\ Named(ReasonId(k), {k}) /\ Named(VoteOptions(k), {k})
    BY PartsMake, KeyMakes DEF Named, ReasonKey, ReasonId, VoteOptions
  <1>2. \A k : /\ \A o \in ReasonKey(k) : o.of = "choice_votes" /\ o.to = "choice_reasons"
               /\ \A o \in ReasonId(k) : o.of = "choice_votes" /\ o.to = ""
               /\ \A o \in VoteOptions(k) : o.of = "choice_votes" /\ o.to = ""
    BY PartsMake, KeyMakes DEF ReasonKey, ReasonId, VoteOptions
  <1>3. ASSUME NEW k, k # "choice_votes"
        PROVE  Bare(ReasonKey(k)) /\ Bare(ReasonId(k)) /\ Bare(VoteOptions(k))
    <2>1. \A o \in ReasonKey(k) \cup ReasonId(k) \cup VoteOptions(k) : o.name = k
      BY <1>1 DEF Named
    <2>2. \A o \in ReasonKey(k) \cup ReasonId(k) \cup VoteOptions(k) : o.of = "choice_votes"
      BY <1>2
    <2> QED BY <1>3, <2>1, <2>2 DEF Bare
  <1> QED BY <1>1, <1>2, <1>3

LEMMA VoteIndexesAre ==
    /\ Named(VoteIndexes, VoteIndexNames) /\ Bare(VoteIndexes)
    /\ \A o \in VoteIndexes : o.of = "choice_votes" /\ o.to = ""
  <1> DEFINE N == VoteIndexNames
  <1>1. VoteIndexes = Parts("choice_votes", N)
    BY DEF VoteIndexes, VoteIndexNames
  <1>2. "choice_votes" \notin N
    BY DEF VoteIndexNames
  <1> HIDE DEF N
  <1>3. Named(VoteIndexes, N) /\ Bare(VoteIndexes)
    BY <1>1, <1>2, NamedParts, BareParts
  <1>4. \A o \in VoteIndexes : o.of = "choice_votes" /\ o.to = ""
    BY <1>1, PartsMake
  <1> QED BY <1>3, <1>4 DEF N

FirstVoteNames == VoteTableNames \cup {"SET NULL", "NULL", "AB"}

LEMMA FirstVotesAre ==
    /\ Entire(FirstVotes, "choice_votes") /\ Named(FirstVotes, FirstVoteNames)
    /\ On(FirstVotes, {"choice_votes", "choice_reasons", "choice_questions", "users"})
  <1>1. Entire(FirstVotes, "choice_votes")
    <2>1. \A o \in FirstVotes : o.of = "choice_votes"
      BY VoteTableIs, VotePartsAre DEF FirstVotes, Entire
    <2>2. "choice_votes" \in TablesIn(FirstVotes)
      BY VoteTableIs DEF Entire, FirstVotes, TablesIn
    <2> QED BY <2>1, <2>2 DEF Entire
  <1>2. Named(FirstVotes, FirstVoteNames)
    BY VoteTableIs, VotePartsAre DEF FirstVotes, FirstVoteNames, Named
  <1>3. On(FirstVotes, {"choice_votes", "choice_reasons", "choice_questions", "users"})
    BY VoteTableIs, VotePartsAre DEF FirstVotes, On
  <1> QED BY <1>1, <1>2, <1>3

LEMMA ChoicesMade ==
    ASSUME NEW s, Fitting(s), "users" \in TablesIn(s), TablesIn(s) \cap ChoiceTables = {}
    PROVE  /\ Fitting(WithChoices(s)) /\ TablesIn(WithChoices(s)) = TablesIn(s) \cup ChoiceTables
           /\ After(s, R_9830cbc3c7c6.up) = WithChoices(s) /\ After(WithChoices(s), R_9830cbc3c7c6.down) = s
  <1> DEFINE T == TablesIn(s)
             c1 == s \cup QuestionTable
             c2 == c1 \cup ReasonTable
             c3 == c2 \cup FirstVotes
             c4 == c3 \cup VoteIndexes
             p1 == QuestionTable \ Table("choice_questions")
             p2 == Parts("choice_reasons", {"ix_choice_reasons_question_id"})
  <1>1. /\ "users" \in T /\ T \cap ChoiceTables = {}
        /\ ChoiceTables = {"choice_questions", "choice_reasons", "choice_votes"}
    BY DEF ChoiceTables
  <1>2. NewIn(s, QuestionTable, "choice_questions") /\ Made(s, QuestionTable, "choice_questions")
    BY <1>1, QuestionTableIs, OwnMade
  <1>3. Fitting(c1) /\ TablesIn(c1) = T \cup {"choice_questions"}
    BY <1>2 DEF Made
  <1> HIDE DEF T
  <1>4. NewIn(c1, ReasonTable, "choice_reasons") /\ Made(c1, ReasonTable, "choice_reasons")
    <2> HIDE DEF c1
    <2>1. NewIn(c1, ReasonTable, "choice_reasons")
      BY <1>1, <1>3, ReasonTableIs DEF NewIn, On
    <2> QED BY <1>3, <2>1, CreatedTable
  <1>5. Fitting(c2) /\ TablesIn(c2) = T \cup {"choice_questions", "choice_reasons"}
    BY <1>3, <1>4 DEF Made
  <1>6. NewIn(c2, FirstVotes, "choice_votes") /\ Made(c2, FirstVotes, "choice_votes")
    <2> HIDE DEF c2
    <2>1. NewIn(c2, FirstVotes, "choice_votes")
      BY <1>1, <1>5, FirstVotesAre DEF NewIn, On
    <2> QED BY <1>5, <2>1, CreatedTable
  <1>7. Fitting(c3) /\ TablesIn(c3) = T \cup ChoiceTables
    BY <1>1, <1>5, <1>6 DEF Made
  <1>8. VoteIndexes \cap c3 = {}
    <2>1. VoteIndexes \cap FirstVotes = {}
      <3>1. VoteIndexNames \cap FirstVoteNames = {}
        BY DEF VoteIndexNames, FirstVoteNames, VoteTableNames
      <3> QED BY <3>1, VoteIndexesAre, FirstVotesAre, NamedApart
    <2>2. \A o \in VoteIndexes : o.of = "choice_votes"
      BY VoteIndexesAre
    <2> HIDE DEF c2
    <2> QED BY <1>5, <1>6, <2>1, <2>2, FreshPart
  <1>9. /\ Apply(c3, Create(VoteIndexes)) = c4 /\ Fitting(c4) /\ TablesIn(c4) = T \cup ChoiceTables
        /\ Apply(c4, Drop(VoteIndexes)) = c3
    <2> HIDE DEF c3
    <2>1. Bare(VoteIndexes) /\ On(VoteIndexes, TablesIn(c3))
      BY <1>1, <1>7, VoteIndexesAre DEF On
    <2> QED BY <1>7, <1>8, <2>1, NewParts
  <1>10. InTwo(c1, ReasonTable, p2, "choice_reasons") /\ InTwo(s, QuestionTable, p1, "choice_questions")
    <2>1. p1 \subseteq QuestionTable /\ Bare(p1) /\ p2 \subseteq ReasonTable /\ Bare(p2)
      BY QuestionTableIs, ReasonTableIs
    <2> HIDE DEF c1, p1, p2
    <2> QED BY <1>2, <1>3, <1>4, <2>1, DroppedInTwo
  <1>11. After(s, R_9830cbc3c7c6.up) = c4
    <2>1. /\ c1 = Apply(s, Create(QuestionTable)) /\ c2 = Apply(c1, Create(ReasonTable))
          /\ c3 = Apply(c2, Create(FirstVotes)) /\ c4 = Apply(c3, Create(VoteIndexes))
      BY <1>2, <1>4, <1>6, <1>9 DEF Made
    <2>2. R_9830cbc3c7c6.up = << Create(QuestionTable), Create(ReasonTable), Create(FirstVotes),
                                 Create(VoteIndexes) >>
      BY DEF R_9830cbc3c7c6, FirstVotes
    <2> HIDE DEF c1, c2, c3, c4
    <2> QED BY <2>1, <2>2, AfterFour
  <1>12. After(c4, R_9830cbc3c7c6.down) = s
    <2> DEFINE d2 == c1 \cup (ReasonTable \ p2)
               d1 == s \cup (QuestionTable \ p1)
    <2>1. /\ c3 = Apply(c4, Drop(VoteIndexes)) /\ c2 = Apply(c3, DropTable("choice_votes"))
          /\ d2 = Apply(c2, Drop(p2)) /\ c1 = Apply(d2, DropTable("choice_reasons"))
          /\ d1 = Apply(c1, Drop(p1)) /\ s = Apply(d1, DropTable("choice_questions"))
      BY <1>6, <1>9, <1>10 DEF Made, InTwo
    <2>2. R_9830cbc3c7c6.down = << Drop(VoteIndexes), DropTable("choice_votes"), Drop(p2),
                                   DropTable("choice_reasons"), Drop(p1), DropTable("choice_questions") >>
      BY DEF R_9830cbc3c7c6
    <2> HIDE DEF c1, c2, c3, c4, d1, d2, p1, p2
    <2> QED BY <2>1, <2>2, AfterSix
  <1>13. WithChoices(s) = c4
    BY DEF WithChoices
  <1> HIDE DEF c4
  <1> QED BY <1>9, <1>11, <1>12, <1>13 DEF T

----------------------------------------------------------------------------
\* The schemas from revision 9 on.
Schema10 == WithChoices(OldUsers)
Schema9 == Services(Schema10)

LEMMA Schema10Fits == Fitting(Schema10) /\ TablesIn(Schema10) = {"users"} \cup ChoiceTables
  <1>1. /\ Fitting(OldUsers) /\ "users" \in TablesIn(OldUsers) /\ TablesIn(OldUsers) \cap ChoiceTables = {}
    BY OldUsersFit DEF ChoiceTables
  <1>2. Fitting(WithChoices(OldUsers)) /\ TablesIn(WithChoices(OldUsers)) = TablesIn(OldUsers) \cup ChoiceTables
    BY <1>1, ChoicesMade
  <1> QED BY <1>2, OldUsersFit DEF Schema10

LEMMA Revision9 ==
    After(Schema8, R_9830cbc3c7c6.up) = Schema9 /\ After(Schema9, R_9830cbc3c7c6.down) = Schema8
  <1>1. /\ Fitting(Schema8) /\ "users" \in TablesIn(Schema8) /\ TablesIn(Schema8) \cap ChoiceTables = {}
    BY Schema8Fits DEF ChoiceTables, RemovedTables
  <1>2. /\ After(Schema8, R_9830cbc3c7c6.up) = WithChoices(Schema8)
        /\ After(WithChoices(Schema8), R_9830cbc3c7c6.down) = Schema8
    BY <1>1, ChoicesMade
  <1>3. WithChoices(Schema8) = Schema9
    BY DEF WithChoices, Schema8, Schema9, Schema10, Services
  <1> QED BY <1>2, <1>3

LEMMA Revision10 ==
    After(Schema9, R_12badf3b9d7e.up) = Schema10 /\ After(Schema10, R_12badf3b9d7e.down) = Schema9
  <1>1. /\ Fitting(Schema10) /\ "users" \in TablesIn(Schema10) /\ TablesIn(Schema10) \cap RemovedTables = {}
    BY Schema10Fits DEF ChoiceTables, RemovedTables
  <1> QED BY <1>1, ServicesMade DEF Schema9

\* What no later revision touches, and the names of what they do.
Core == OldUsers \cup QuestionTable \cup ReasonTable \cup VoteTable \cup VoteIndexes
OldUserNames == {"users", "users_email_key", "password_hash", "uq_users_provider_provider_id"}
CoreNames == OldUserNames \cup QuestionNames \cup ReasonNames \cup VoteTableNames \cup VoteIndexNames
LaterNames ==
    {"SET NULL", "RESTRICT", "NULL", "NOT NULL", "AB", "ABCD", "option_c", "option_d",
     "ck_choice_questions_option_order", "author_id", "ix_choice_questions_author_id",
     "fk_choice_questions_author_id_users", "uq_users_nickname"}
VoteParts(k, n, o) == ReasonKey(k) \cup ReasonId(n) \cup VoteOptions(o)
Nickname == Parts("users", {"uq_users_nickname"})
Author == AuthorKey("fk_choice_questions_author_id_users")
\* The tables of questions, reasons, votes and users.
ChoiceAndUsers == {"users"} \cup ChoiceTables

Schema11 == Core \cup VoteParts("RESTRICT", "NOT NULL", "AB")
Schema12 == Core \cup VoteParts("RESTRICT", "NOT NULL", "ABCD") \cup ExtraOptions \cup OptionOrder
Schema13 == Schema12 \cup AuthorId \cup AuthorIndex \cup Author
Schema15 == Schema13 \cup Nickname

LEMMA CoreNamed == Named(Core, CoreNames) /\ CoreNames \cap LaterNames = {}
  <1>1. Named(OldUsers, OldUserNames)
    <2>1. /\ "users" \in OldUserNames /\ {"users_email_key"} \subseteq OldUserNames
          /\ {"password_hash"} \subseteq OldUserNames
          /\ {"uq_users_provider_provider_id"} \subseteq OldUserNames
      BY DEF OldUserNames
    <2>2. Named(Table("users"), OldUserNames) /\ Named(Parts("users", {"users_email_key"}), OldUserNames)
      BY <2>1, NamedTable, NamedParts
    <2>3. Named(Password, OldUserNames) /\ Named(Parts("users", {"uq_users_provider_provider_id"}), OldUserNames)
      BY <2>1, NamedParts DEF Password
    <2> QED BY <2>2, <2>3 DEF OldUsers, Named
  <1>2. Named(Core, CoreNames)
    BY <1>1, QuestionTableIs, ReasonTableIs, VoteTableIs, VoteIndexesAre DEF Core, CoreNames, Named
  <1>3. CoreNames \cap LaterNames = {}
    BY DEF CoreNames, LaterNames, OldUserNames, QuestionNames, ReasonNames, VoteTableNames, VoteIndexNames
  <1> QED BY <1>2, <1>3

LEMMA Schema10Is == Schema10 = Core \cup VoteParts("SET NULL", "NULL", "AB")
  BY DEF Schema10, WithChoices, FirstVotes, Core, VoteParts

LEMMA OneName ==
    ASSUME NEW x, NEW n, Named(x, {n}), NEW y, NEW N, Named(y, N), n \notin N PROVE x \cap y = {}
  BY DEF Named

\* Parts created and dropped again, or replaced and put back.
Added(s, x) ==
    /\ Apply(s, Create(x)) = s \cup x /\ Apply(s \cup x, Drop(x)) = s
    /\ Fitting(s \cup x) /\ TablesIn(s \cup x) = TablesIn(s)
Renewed(rest, old, new) ==
    /\ Apply(rest \cup old, Replace(old, new)) = rest \cup new
    /\ Apply(rest \cup new, Replace(new, old)) = rest \cup old
    /\ Fitting(rest \cup new) /\ TablesIn(rest \cup new) = TablesIn(rest \cup old)

LEMMA PartsAdded ==
    ASSUME NEW s, Fitting(s), NEW x, x \cap s = {}, Bare(x), On(x, TablesIn(s))
    PROVE  Added(s, x)
  BY NewParts DEF Added

LEMMA PartsSwapped ==
    ASSUME NEW rest, NEW old, NEW new, Fitting(rest \cup old), old \cap rest = {},
           new \cap (rest \cup old) = {}, Bare(old), Bare(new), On(new, TablesIn(rest \cup old))
    PROVE  Renewed(rest, old, new)
  <1>1. /\ Apply(rest \cup old, Replace(old, new)) = rest \cup new
        /\ Fitting(rest \cup new) /\ TablesIn(rest \cup new) = TablesIn(rest \cup old)
        /\ Apply(rest \cup new, Replace(new, old)) = rest \cup old
    BY OtherParts, Zenon
  <1> QED BY <1>1 DEF Renewed

\* Revision 11: a vote's reason becomes required, and held by it.
LEMMA Revision11 ==
    /\ Fitting(Schema11) /\ TablesIn(Schema11) = ChoiceAndUsers
    /\ After(Schema10, R_e0d9472e53f0.up) = Schema11 /\ After(Schema11, R_e0d9472e53f0.down) = Schema10
  <1> DEFINE T == ChoiceAndUsers
             k0 == ReasonKey("SET NULL")
             k1 == ReasonKey("RESTRICT")
             n0 == ReasonId("NULL")
             n1 == ReasonId("NOT NULL")
             o == VoteOptions("AB")
             r1 == Core \cup k0 \cup o
             r2 == Core \cup n1 \cup o
  <1>1. /\ Named(k0, {"SET NULL"}) /\ Named(k1, {"RESTRICT"}) /\ Named(n0, {"NULL"}) /\ Named(n1, {"NOT NULL"})
        /\ Named(o, {"AB"}) /\ Bare(k0) /\ Bare(k1) /\ Bare(n0) /\ Bare(n1)
        /\ On(n0, T) /\ On(n1, T) /\ On(k0, T) /\ On(k1, T)
    BY VotePartsAre DEF On, ChoiceAndUsers, ChoiceTables
  <1>2. R_e0d9472e53f0.up = <<Replace(n0, n1), Replace(k0, k1)>>
        /\ R_e0d9472e53f0.down = <<Replace(k1, k0), Replace(n1, n0)>>
    BY DEF R_e0d9472e53f0
  <1>3. Schema10 = r1 \cup n0 /\ Schema11 = r2 \cup k1 /\ r1 \cup n1 = r2 \cup k0
    BY Schema10Is DEF Schema11, VoteParts
  <1> HIDE DEF T, k0, k1, n0, n1, o
  <1>4. /\ n0 \cap r1 = {} /\ n1 \cap r1 = {} /\ n0 \cap n1 = {}
        /\ k0 \cap r2 = {} /\ k1 \cap r2 = {} /\ k0 \cap k1 = {}
    <2>1. \A x \in LaterNames : x \notin CoreNames
      BY CoreNamed
    <2>2. {"SET NULL", "RESTRICT", "NULL", "NOT NULL", "AB"} \subseteq LaterNames
      BY DEF LaterNames
    <2>3. n0 \cap Core = {} /\ n1 \cap Core = {} /\ k0 \cap Core = {} /\ k1 \cap Core = {}
      BY <1>1, <2>1, <2>2, CoreNamed, OneName
    <2>4. /\ n0 \cap k0 = {} /\ n0 \cap o = {} /\ n1 \cap k0 = {} /\ n1 \cap o = {} /\ n0 \cap n1 = {}
          /\ k0 \cap n1 = {} /\ k0 \cap o = {} /\ k1 \cap n1 = {} /\ k1 \cap o = {} /\ k0 \cap k1 = {}
      BY <1>1 DEF Named
    <2> QED BY <2>3, <2>4
  <1> HIDE DEF r1, r2
  <1>5. Fitting(r1 \cup n0) /\ TablesIn(r1 \cup n0) = T
    BY <1>3, Schema10Fits DEF ChoiceAndUsers, T
  <1>6. Renewed(r1, n0, n1)
    <2>1. n1 \cap (r1 \cup n0) = {} /\ n0 \cap r1 = {} /\ Bare(n0) /\ Bare(n1)
      BY <1>1, <1>4
    <2>2. Fitting(r1 \cup n0) /\ On(n1, TablesIn(r1 \cup n0))
      BY <1>1, <1>5
    <2> QED BY <2>1, <2>2, PartsSwapped
  <1>7. Fitting(r2 \cup k0) /\ TablesIn(r2 \cup k0) = T
    BY <1>3, <1>5, <1>6 DEF Renewed
  <1>8. Renewed(r2, k0, k1)
    <2>1. k1 \cap (r2 \cup k0) = {} /\ k0 \cap r2 = {} /\ Bare(k0) /\ Bare(k1)
      BY <1>1, <1>4
    <2>2. Fitting(r2 \cup k0) /\ On(k1, TablesIn(r2 \cup k0))
      BY <1>1, <1>7
    <2> QED BY <2>1, <2>2, PartsSwapped
  <1>9. After(Schema10, R_e0d9472e53f0.up) = Schema11
    <2>1. r1 \cup n1 = Apply(Schema10, Replace(n0, n1)) /\ Schema11 = Apply(r1 \cup n1, Replace(k0, k1))
      BY <1>3, <1>6, <1>8 DEF Renewed
    <2> QED BY <1>2, <2>1, AfterTwo
  <1>10. After(Schema11, R_e0d9472e53f0.down) = Schema10
    <2>1. r1 \cup n1 = Apply(Schema11, Replace(k1, k0)) /\ Schema10 = Apply(r1 \cup n1, Replace(n1, n0))
      BY <1>3, <1>6, <1>8 DEF Renewed
    <2> QED BY <1>2, <2>1, AfterTwo
  <1> QED BY <1>3, <1>7, <1>8, <1>9, <1>10 DEF T, Renewed

\* Revision 12: four options.
LEMMA ExtrasAre ==
    /\ Named(ExtraOptions, {"option_c", "option_d"}) /\ Named(OptionOrder, {"ck_choice_questions_option_order"})
    /\ Bare(ExtraOptions) /\ Bare(OptionOrder)
    /\ \A o \in ExtraOptions \cup OptionOrder : o.of = "choice_questions" /\ o.to = ""
  <1> DEFINE t == "choice_questions"
             M == {"option_c", "option_d"}
             N == {"ck_choice_questions_option_order"}
  <1>1. ExtraOptions = Parts(t, M) /\ OptionOrder = Parts(t, N) /\ t \notin M /\ t \notin N
    BY DEF ExtraOptions, OptionOrder
  <1> HIDE DEF t, M, N
  <1>2. Named(ExtraOptions, M) /\ Named(OptionOrder, N)
    BY <1>1, NamedParts
  <1>3. Bare(ExtraOptions) /\ Bare(OptionOrder)
    BY <1>1, BareParts
  <1>4. \A o \in ExtraOptions \cup OptionOrder : o.of = t /\ o.to = ""
    BY <1>1, PartsMake
  <1> QED BY <1>2, <1>3, <1>4 DEF t, M, N

LEMMA Revision12 ==
    /\ Fitting(Schema12) /\ TablesIn(Schema12) = ChoiceAndUsers
    /\ After(Schema11, R_175b07ee1691.up) = Schema12 /\ After(Schema12, R_175b07ee1691.down) = Schema11
  <1> DEFINE T == ChoiceAndUsers
             x == ExtraOptions
             y == OptionOrder
             a == VoteOptions("AB")
             b == VoteOptions("ABCD")
             k == ReasonKey("RESTRICT")
             n == ReasonId("NOT NULL")
             s1 == Schema11 \cup x
             s2 == s1 \cup y
             r == Core \cup k \cup n \cup x \cup y
  <1>1. /\ Named(a, {"AB"}) /\ Named(b, {"ABCD"}) /\ Named(k, {"RESTRICT"}) /\ Named(n, {"NOT NULL"})
        /\ Named(x, {"option_c", "option_d"}) /\ Named(y, {"ck_choice_questions_option_order"})
        /\ Bare(a) /\ Bare(b) /\ Bare(x) /\ Bare(y)
    BY VotePartsAre, ExtrasAre
  <1>2. On(b, T) /\ On(x, T) /\ On(y, T)
    BY VotePartsAre, ExtrasAre DEF On, ChoiceAndUsers, ChoiceTables
  <1>3. /\ R_175b07ee1691.up = <<Create(x), Create(y), Replace(a, b)>>
        /\ R_175b07ee1691.down = <<Replace(b, a), Drop(y), Drop(x)>>
    BY DEF R_175b07ee1691
  <1>4. Schema11 = Core \cup k \cup n \cup a /\ Schema12 = Core \cup k \cup n \cup b \cup x \cup y
    BY DEF Schema11, Schema12, VoteParts
  <1>5. Fitting(Schema11) /\ TablesIn(Schema11) = T
    BY Revision11
  <1> HIDE DEF T, x, y, a, b, k, n
  <1>6. /\ a \cap Core = {} /\ b \cap Core = {} /\ x \cap Core = {} /\ y \cap Core = {}
    <2>1. /\ {"AB"} \subseteq LaterNames /\ {"ABCD"} \subseteq LaterNames
          /\ {"option_c", "option_d"} \subseteq LaterNames /\ {"ck_choice_questions_option_order"} \subseteq LaterNames
      BY DEF LaterNames
    <2> QED BY <1>1, <2>1, CoreNamed DEF Named
  <1>7. /\ a \cap b = {} /\ a \cap x = {} /\ a \cap y = {} /\ b \cap x = {} /\ b \cap y = {} /\ x \cap y = {}
        /\ a \cap k = {} /\ a \cap n = {} /\ b \cap k = {} /\ b \cap n = {}
        /\ x \cap k = {} /\ x \cap n = {} /\ y \cap k = {} /\ y \cap n = {}
    BY <1>1 DEF Named
  <1>8. Added(Schema11, x)
    <2>1. x \cap Schema11 = {} /\ On(x, TablesIn(Schema11))
      BY <1>2, <1>4, <1>5, <1>6, <1>7
    <2> QED BY <1>1, <1>5, <2>1, PartsAdded
  <1>9. Fitting(s1) /\ TablesIn(s1) = T
    BY <1>5, <1>8 DEF Added
  <1>10. Added(s1, y)
    <2>1. y \cap s1 = {} /\ On(y, TablesIn(s1))
      BY <1>2, <1>4, <1>6, <1>7, <1>9
    <2> HIDE DEF s1
    <2> QED BY <1>1, <1>9, <2>1, PartsAdded
  <1>11. Fitting(s2) /\ TablesIn(s2) = T
    BY <1>9, <1>10 DEF Added
  <1>12. s2 = r \cup a /\ Schema12 = r \cup b
    BY <1>4
  <1>13. Renewed(r, a, b)
    <2>1. b \cap (r \cup a) = {} /\ a \cap r = {}
      BY <1>6, <1>7
    <2>2. Fitting(r \cup a) /\ On(b, TablesIn(r \cup a))
      <3> HIDE DEF s2, r
      <3> QED BY <1>2, <1>11, <1>12
    <2> HIDE DEF r
    <2> QED BY <1>1, <2>1, <2>2, PartsSwapped
  <1>14. After(Schema11, R_175b07ee1691.up) = Schema12
    <2>1. s1 = Apply(Schema11, Create(x)) /\ s2 = Apply(s1, Create(y)) /\ Schema12 = Apply(s2, Replace(a, b))
      BY <1>8, <1>10, <1>12, <1>13 DEF Added, Renewed
    <2> HIDE DEF s1, s2
    <2> QED BY <1>3, <2>1, AfterThree
  <1>15. After(Schema12, R_175b07ee1691.down) = Schema11
    <2>1. s2 = Apply(Schema12, Replace(b, a)) /\ s1 = Apply(s2, Drop(y)) /\ Schema11 = Apply(s1, Drop(x))
      BY <1>8, <1>10, <1>12, <1>13 DEF Added, Renewed
    <2> HIDE DEF s1, s2
    <2> QED BY <1>3, <2>1, AfterThree
  <1>16. Fitting(Schema12) /\ TablesIn(Schema12) = T
    <2> HIDE DEF s2, r
    <2> QED BY <1>11, <1>12, <1>13 DEF Renewed
  <1> QED BY <1>14, <1>15, <1>16 DEF T

\* Revision 13: authors.
LEMMA AuthorsAre ==
    /\ Named(AuthorId, {"author_id"}) /\ Named(AuthorIndex, {"ix_choice_questions_author_id"})
    /\ Bare(AuthorId) /\ Bare(AuthorIndex)
    /\ \A o \in AuthorId \cup AuthorIndex : o.of = "choice_questions" /\ o.to = ""
    /\ \A n : Named(AuthorKey(n), {n}) /\ (\A o \in AuthorKey(n) : o.of = "choice_questions" /\ o.to = "users")
    /\ \A n : n # "choice_questions" => Bare(AuthorKey(n))
  <1> DEFINE t == "choice_questions"
             M == {"author_id"}
             N == {"ix_choice_questions_author_id"}
  <1>1. AuthorId = Parts(t, M) /\ AuthorIndex = Parts(t, N) /\ t \notin M /\ t \notin N
    BY DEF AuthorId, AuthorIndex
  <1> HIDE DEF t, M, N
  <1>2. Named(AuthorId, M) /\ Named(AuthorIndex, N)
    BY <1>1, NamedParts
  <1>3. Bare(AuthorId) /\ Bare(AuthorIndex)
    BY <1>1, BareParts
  <1>4. \A o \in AuthorId \cup AuthorIndex : o.of = t /\ o.to = ""
    BY <1>1, PartsMake
  <1>5. \A n : Named(AuthorKey(n), {n}) /\ (\A o \in AuthorKey(n) : o.of = "choice_questions" /\ o.to = "users")
    BY KeyMakes DEF AuthorKey, Named
  <1>6. \A n : n # "choice_questions" => Bare(AuthorKey(n))
    BY <1>5 DEF Bare, Named
  <1> QED BY <1>2, <1>3, <1>4, <1>5, <1>6 DEF t, M, N

LEMMA Schema12Named == Named(Schema12, CoreNames \cup {"RESTRICT", "NOT NULL", "ABCD", "option_c", "option_d",
                                                       "ck_choice_questions_option_order"})
  <1> DEFINE N == CoreNames \cup {"RESTRICT", "NOT NULL", "ABCD", "option_c", "option_d",
                                  "ck_choice_questions_option_order"}
  <1>1. /\ CoreNames \subseteq N /\ "RESTRICT" \in N /\ "NOT NULL" \in N /\ "ABCD" \in N
        /\ {"option_c", "option_d"} \subseteq N /\ {"ck_choice_questions_option_order"} \subseteq N
    OBVIOUS
  <1> HIDE DEF N
  <1>2. Named(Core, N) /\ Named(ExtraOptions, N) /\ Named(OptionOrder, N)
    BY <1>1, CoreNamed, ExtrasAre, NamedMore
  <1>3. Named(VoteParts("RESTRICT", "NOT NULL", "ABCD"), N)
    <2>1. Named(ReasonKey("RESTRICT"), N)
      BY <1>1, VotePartsAre DEF Named
    <2>2. Named(ReasonId("NOT NULL"), N)
      BY <1>1, VotePartsAre DEF Named
    <2>3. Named(VoteOptions("ABCD"), N)
      BY <1>1, VotePartsAre DEF Named
    <2> QED BY <2>1, <2>2, <2>3 DEF VoteParts, Named
  <1>4. Named(Schema12, N)
    BY <1>2, <1>3 DEF Schema12, Named
  <1> QED BY <1>4 DEF N

LEMMA Revision13 ==
    /\ Fitting(Schema13) /\ TablesIn(Schema13) = ChoiceAndUsers
    /\ After(Schema12, R_0bee734e8685.up) = Schema13 /\ After(Schema13, R_0bee734e8685.down) = Schema12
  <1> DEFINE T == ChoiceAndUsers
             x == AuthorId
             y == AuthorIndex
             z == Author
             s1 == Schema12 \cup x
             s2 == s1 \cup y
  <1>1. /\ Named(x, {"author_id"}) /\ Named(y, {"ix_choice_questions_author_id"})
        /\ Named(z, {"fk_choice_questions_author_id_users"}) /\ Bare(x) /\ Bare(y) /\ Bare(z)
    BY AuthorsAre DEF Author
  <1>2. On(x, T) /\ On(y, T) /\ On(z, T)
    BY AuthorsAre DEF On, ChoiceAndUsers, ChoiceTables, Author
  <1>3. /\ R_0bee734e8685.up = <<Create(x), Create(y), Create(z)>>
        /\ R_0bee734e8685.down = <<Drop(z), Drop(y), Drop(x)>>
    BY DEF R_0bee734e8685, Author
  <1>4. Schema13 = s2 \cup z
    BY DEF Schema13
  <1>5. Fitting(Schema12) /\ TablesIn(Schema12) = T
    BY Revision12
  <1> HIDE DEF T, x, y, z
  <1>6. x \cap Schema12 = {} /\ y \cap Schema12 = {} /\ z \cap Schema12 = {}
    <2> DEFINE N == {"RESTRICT", "NOT NULL", "ABCD", "option_c", "option_d", "ck_choice_questions_option_order"}
               A == {"author_id", "ix_choice_questions_author_id", "fk_choice_questions_author_id_users"}
    <2>1. A \subseteq LaterNames /\ A \cap N = {}
      BY DEF LaterNames
    <2>2. Named(x, A) /\ Named(y, A) /\ Named(z, A)
      BY <1>1 DEF Named
    <2>3. Named(Schema12, CoreNames \cup N)
      BY Schema12Named
    <2> HIDE DEF N, A
    <2> QED BY <2>1, <2>2, <2>3, CoreNamed DEF Named
  <1>7. x \cap y = {} /\ x \cap z = {} /\ y \cap z = {}
    BY <1>1 DEF Named
  <1>8. Added(Schema12, x)
    <2>1. x \cap Schema12 = {} /\ On(x, TablesIn(Schema12))
      BY <1>2, <1>5, <1>6
    <2> QED BY <1>1, <1>5, <2>1, PartsAdded
  <1>9. Fitting(s1) /\ TablesIn(s1) = T
    BY <1>5, <1>8 DEF Added
  <1>10. Added(s1, y)
    <2>1. y \cap s1 = {} /\ On(y, TablesIn(s1))
      BY <1>2, <1>6, <1>7, <1>9
    <2> HIDE DEF s1
    <2> QED BY <1>1, <1>9, <2>1, PartsAdded
  <1>11. Fitting(s2) /\ TablesIn(s2) = T
    BY <1>9, <1>10 DEF Added
  <1>12. Added(s2, z)
    <2>1. z \cap s2 = {} /\ On(z, TablesIn(s2))
      BY <1>2, <1>6, <1>7, <1>11
    <2> HIDE DEF s2
    <2> QED BY <1>1, <1>11, <2>1, PartsAdded
  <1>13. Fitting(s2 \cup z) /\ TablesIn(s2 \cup z) = T
    BY <1>11, <1>12 DEF Added
  <1>14. After(Schema12, R_0bee734e8685.up) = Schema13
    <2>1. s1 = Apply(Schema12, Create(x)) /\ s2 = Apply(s1, Create(y)) /\ Schema13 = Apply(s2, Create(z))
      BY <1>4, <1>8, <1>10, <1>12 DEF Added
    <2> HIDE DEF s1, s2
    <2> QED BY <1>3, <2>1, AfterThree
  <1>15. After(Schema13, R_0bee734e8685.down) = Schema12
    <2>1. s2 = Apply(Schema13, Drop(z)) /\ s1 = Apply(s2, Drop(y)) /\ Schema12 = Apply(s1, Drop(x))
      BY <1>4, <1>8, <1>10, <1>12 DEF Added
    <2> HIDE DEF s1, s2
    <2> QED BY <1>3, <2>1, AfterThree
  <1> QED BY <1>4, <1>13, <1>14, <1>15 DEF T

\* Revision 15: unique nicknames.
LEMMA NicknameIs ==
    /\ Named(Nickname, {"uq_users_nickname"}) /\ Bare(Nickname)
    /\ \A o \in Nickname : o.of = "users" /\ o.to = ""
  <1> DEFINE N == {"uq_users_nickname"}
  <1>1. Nickname = Parts("users", N) /\ "users" \notin N
    BY DEF Nickname
  <1> HIDE DEF N
  <1>2. Named(Nickname, N) /\ Bare(Nickname)
    BY <1>1, NamedParts, BareParts
  <1>3. \A o \in Nickname : o.of = "users" /\ o.to = ""
    BY <1>1, PartsMake
  <1> QED BY <1>2, <1>3 DEF N

Names13 ==
    CoreNames \cup {"RESTRICT", "NOT NULL", "ABCD", "option_c", "option_d", "ck_choice_questions_option_order",
                    "author_id", "ix_choice_questions_author_id", "fk_choice_questions_author_id_users"}

LEMMA Schema13Named == Named(Schema13, Names13) /\ "uq_users_nickname" \notin Names13
  <1>1. Named(Schema13, Names13)
    BY Schema12Named, AuthorsAre DEF Schema13, Author, Names13, Named
  <1>2. "uq_users_nickname" \notin Names13
    BY DEF Names13, CoreNames, OldUserNames, QuestionNames, ReasonNames, VoteTableNames, VoteIndexNames
  <1> QED BY <1>1, <1>2

LEMMA Revision15 ==
    /\ Fitting(Schema15) /\ TablesIn(Schema15) = ChoiceAndUsers
    /\ After(Schema13, R_4528840cd462.up) = Schema15 /\ After(Schema15, R_4528840cd462.down) = Schema13
  <1>1. R_4528840cd462.up = <<Create(Nickname)>> /\ R_4528840cd462.down = <<Drop(Nickname)>>
    BY DEF R_4528840cd462, Nickname
  <1>2. Nickname \cap Schema13 = {}
    BY Schema13Named, NicknameIs DEF Named
  <1>3. Fitting(Schema13) /\ TablesIn(Schema13) = ChoiceAndUsers
    BY Revision13
  <1>4. On(Nickname, TablesIn(Schema13))
    BY <1>3, NicknameIs DEF On, ChoiceAndUsers
  <1>5. Added(Schema13, Nickname)
    BY <1>2, <1>3, <1>4, NicknameIs, PartsAdded
  <1>6. Schema15 = Apply(Schema13, Create(Nickname)) /\ Schema13 = Apply(Schema15, Drop(Nickname))
    BY <1>5 DEF Added, Schema15
  <1> QED BY <1>1, <1>3, <1>5, <1>6, AfterOne DEF Added, Schema15

\* A revision that writes rows only.
LEMMA AfterNone == ASSUME NEW s PROVE After(s, <<>>) = s
  <1> DEFINE ops == <<>>
  <1>1. Len(ops) = 0
    OBVIOUS
  <1> HIDE DEF ops
  <1>2. Len(ops) \in Nat
    BY <1>1
  <1>3. PICK g : Passes(g, s, ops)
    BY <1>2, OnTheWay
  <1> QED BY <1>1, <1>3 DEF Passes, ops

----------------------------------------------------------------------------
\* A table and then its indexes; the indexes dropped and then the table.
InSteps(s, x, p, t) ==
    /\ Apply(s, Create(x)) = s \cup x /\ Apply(s \cup x, Create(p)) = s \cup x \cup p
    /\ Apply(s \cup x \cup p, Drop(p)) = s \cup x /\ Apply(s \cup x, DropTable(t)) = s
    /\ Fitting(s \cup x \cup p) /\ TablesIn(s \cup x \cup p) = TablesIn(s) \cup {t}
\* Indexes of table t.
IndexesOf(p, t) == Bare(p) /\ \A o \in p : o.of = t /\ o.to = ""

LEMMA TableInSteps ==
    ASSUME NEW s, Fitting(s), NEW t, NEW x, NewIn(s, x, t), NEW p, IndexesOf(p, t), p \cap x = {}
    PROVE  InSteps(s, x, p, t)
  <1> DEFINE y == s \cup x
  <1>1. Made(s, x, t)
    BY CreatedTable
  <1>2. p \cap y = {}
    BY FreshPart DEF IndexesOf
  <1>3. Fitting(y) /\ TablesIn(y) = TablesIn(s) \cup {t} /\ Apply(s, Create(x)) = y /\ Apply(y, DropTable(t)) = s
    BY <1>1 DEF Made
  <1> HIDE DEF y
  <1>4. Bare(p) /\ On(p, TablesIn(y))
    BY <1>3 DEF IndexesOf, On
  <1>5. Added(y, p)
    BY <1>2, <1>3, <1>4, PartsAdded
  <1> QED BY <1>3, <1>5 DEF Added, InSteps, y

\* A table with one part and two keys, and its indexes.
Complete(x, p, t, T) == Entire(x, t) /\ On(x, T) /\ p \cap x = {} /\ IndexesOf(p, t)

LEMMA TableOfFour ==
    ASSUME NEW t, NEW n, NEW k, NEW u, NEW l, NEW v, NEW T, t \in T, u \in T, v \in T,
           NEW x, x = Table(t) \cup Parts(t, {n}) \cup Key(t, k, u) \cup Key(t, l, v),
           NEW N, t \notin N, n \notin N, u # "", v # ""
    PROVE  Complete(x, Parts(t, N), t, T)
  <1> DEFINE a == Parts(t, {n})
             b == Key(t, k, u)
             c == Key(t, l, v)
  <1>1. On(Table(t), T) /\ On(a, T) /\ On(b, T) /\ On(c, T)
    BY OnTable, OnParts, OnKey
  <1>2. \A o \in a \cup b \cup c : o.of = t
    BY PartsMake, KeyMakes
  <1>3. IndexesOf(Parts(t, N), t)
    <2>1. Bare(Parts(t, N))
      BY BareParts
    <2>2. \A o \in Parts(t, N) : o.of = t /\ o.to = ""
      BY PartsMake
    <2> QED BY <2>1, <2>2 DEF IndexesOf
  <1>4. Parts(t, N) \cap x = {}
    <2>1. Parts(t, N) \cap Table(t) = {} /\ Parts(t, N) \cap a = {}
      BY PartsMake DEF Table
    <2>2. Parts(t, N) \cap b = {} /\ Parts(t, N) \cap c = {}
      BY PartsMake, KeyMakes
    <2> QED BY <2>1, <2>2
  <1> HIDE DEF a, b, c
  <1>5. x = Table(t) \cup (a \cup b \cup c)
    BY DEF a, b, c
  <1>6. Entire(x, t)
    BY <1>2, <1>5, WholeTable
  <1>7. On(x, T)
    BY <1>1, <1>5 DEF On
  <1> QED BY <1>3, <1>4, <1>6, <1>7 DEF Complete

Likes(s) == s \cup LikeTable \cup LikeIndexes
Comments(s) == s \cup CommentTable \cup CommentIndexes \cup CommentLikeTable \cup CommentLikeIndexes
Replies(s) == s \cup ReplyTable \cup ReplyIndexes

LEMMA LikesAre ==
    /\ Entire(LikeTable, "choice_likes") /\ On(LikeTable, {"choice_likes", "choice_questions", "users"})
    /\ LikeIndexes \cap LikeTable = {} /\ IndexesOf(LikeIndexes, "choice_likes")
  <1> DEFINE t == "choice_likes"
             n == "uq_choice_likes_question_user"
             k == "choice_likes_question_id_fkey"
             l == "choice_likes_user_id_fkey"
             u == "choice_questions"
             v == "users"
             N == {"ix_choice_likes_question_id", "ix_choice_likes_user_id"}
             T == {"choice_likes", "choice_questions", "users"}
  <1>1. /\ LikeTable = Table(t) \cup Parts(t, {n}) \cup Key(t, k, u) \cup Key(t, l, v)
        /\ LikeIndexes = Parts(t, N)
    BY DEF LikeTable, LikeIndexes
  <1>2. t \in T /\ u \in T /\ v \in T /\ t \notin N /\ n \notin N /\ u # "" /\ v # ""
    OBVIOUS
  <1> HIDE DEF t, n, k, l, u, v, N, T
  <1>3. Complete(LikeTable, Parts(t, N), t, T)
    BY <1>1, <1>2, TableOfFour
  <1> QED BY <1>1, <1>3 DEF t, T, Complete

LEMMA CommentsAre ==
    /\ Entire(CommentTable, "choice_comments") /\ On(CommentTable, {"choice_comments", "choice_questions", "users"})
    /\ CommentIndexes \cap CommentTable = {} /\ IndexesOf(CommentIndexes, "choice_comments")
  <1> DEFINE t == "choice_comments"
             n == "ck_choice_comments_content"
             k == "choice_comments_question_id_fkey"
             l == "choice_comments_user_id_fkey"
             u == "choice_questions"
             v == "users"
             N == {"ix_choice_comments_question_id_id", "ix_choice_comments_user_id"}
             T == {"choice_comments", "choice_questions", "users"}
  <1>1. /\ CommentTable = Table(t) \cup Parts(t, {n}) \cup Key(t, k, u) \cup Key(t, l, v)
        /\ CommentIndexes = Parts(t, N)
    BY DEF CommentTable, CommentIndexes
  <1>2. t \in T /\ u \in T /\ v \in T /\ t \notin N /\ n \notin N /\ u # "" /\ v # ""
    OBVIOUS
  <1> HIDE DEF t, n, k, l, u, v, N, T
  <1>3. Complete(CommentTable, Parts(t, N), t, T)
    BY <1>1, <1>2, TableOfFour
  <1> QED BY <1>1, <1>3 DEF t, T, Complete

LEMMA CommentLikesAre ==
    /\ Entire(CommentLikeTable, "choice_comment_likes")
    /\ On(CommentLikeTable, {"choice_comment_likes", "choice_comments", "users"})
    /\ CommentLikeIndexes \cap CommentLikeTable = {} /\ IndexesOf(CommentLikeIndexes, "choice_comment_likes")
  <1> DEFINE t == "choice_comment_likes"
             n == "uq_choice_comment_likes_comment_user"
             k == "choice_comment_likes_comment_id_fkey"
             l == "choice_comment_likes_user_id_fkey"
             u == "choice_comments"
             v == "users"
             N == {"ix_choice_comment_likes_user_id"}
             T == {"choice_comment_likes", "choice_comments", "users"}
  <1>1. /\ CommentLikeTable = Table(t) \cup Parts(t, {n}) \cup Key(t, k, u) \cup Key(t, l, v)
        /\ CommentLikeIndexes = Parts(t, N)
    BY DEF CommentLikeTable, CommentLikeIndexes
  <1>2. t \in T /\ u \in T /\ v \in T /\ t \notin N /\ n \notin N /\ u # "" /\ v # ""
    OBVIOUS
  <1> HIDE DEF t, n, k, l, u, v, N, T
  <1>3. Complete(CommentLikeTable, Parts(t, N), t, T)
    BY <1>1, <1>2, TableOfFour
  <1> QED BY <1>1, <1>3 DEF t, T, Complete

LEMMA RepliesAre ==
    /\ Entire(ReplyTable, "choice_replies") /\ On(ReplyTable, {"choice_replies", "choice_comments", "users"})
    /\ ReplyIndexes \cap ReplyTable = {} /\ IndexesOf(ReplyIndexes, "choice_replies")
  <1> DEFINE t == "choice_replies"
             n == "ck_choice_replies_content"
             k == "choice_replies_comment_id_fkey"
             l == "choice_replies_user_id_fkey"
             u == "choice_comments"
             v == "users"
             N == {"ix_choice_replies_comment_id_id", "ix_choice_replies_user_id"}
             T == {"choice_replies", "choice_comments", "users"}
  <1>1. /\ ReplyTable = Table(t) \cup Parts(t, {n}) \cup Key(t, k, u) \cup Key(t, l, v)
        /\ ReplyIndexes = Parts(t, N)
    BY DEF ReplyTable, ReplyIndexes
  <1>2. t \in T /\ u \in T /\ v \in T /\ t \notin N /\ n \notin N /\ u # "" /\ v # ""
    OBVIOUS
  <1> HIDE DEF t, n, k, l, u, v, N, T
  <1>3. Complete(ReplyTable, Parts(t, N), t, T)
    BY <1>1, <1>2, TableOfFour
  <1> QED BY <1>1, <1>3 DEF t, T, Complete

\* Revisions 17, 19 and 20, for every schema with the tables they need.
LEMMA LikesMade ==
    ASSUME NEW s, Fitting(s), TablesIn(s) = ChoiceAndUsers
    PROVE  /\ Fitting(Likes(s)) /\ TablesIn(Likes(s)) = ChoiceAndUsers \cup {"choice_likes"}
           /\ After(s, R_dae844e0f9d2.up) = Likes(s) /\ After(Likes(s), R_dae844e0f9d2.down) = s
  <1> DEFINE c1 == s \cup LikeTable
             c2 == c1 \cup LikeIndexes
  <1>1. "choice_likes" \notin ChoiceAndUsers /\ {"choice_questions", "users"} \subseteq ChoiceAndUsers
    BY DEF ChoiceAndUsers, ChoiceTables
  <1>2. NewIn(s, LikeTable, "choice_likes")
    BY <1>1, LikesAre DEF NewIn, On
  <1>3. InSteps(s, LikeTable, LikeIndexes, "choice_likes")
    BY <1>2, LikesAre, TableInSteps
  <1>4. /\ c1 = Apply(s, Create(LikeTable)) /\ c2 = Apply(c1, Create(LikeIndexes))
        /\ c1 = Apply(c2, Drop(LikeIndexes)) /\ s = Apply(c1, DropTable("choice_likes"))
        /\ Fitting(c2) /\ TablesIn(c2) = ChoiceAndUsers \cup {"choice_likes"}
    BY <1>3 DEF InSteps
  <1>5. Likes(s) = c2
    BY DEF Likes
  <1>6. /\ R_dae844e0f9d2.up = <<Create(LikeTable), Create(LikeIndexes)>>
        /\ R_dae844e0f9d2.down = <<Drop(LikeIndexes), DropTable("choice_likes")>>
    BY DEF R_dae844e0f9d2
  <1> HIDE DEF c1, c2
  <1>7. After(s, R_dae844e0f9d2.up) = c2
    <2>1. c1 = Apply(s, Create(LikeTable)) /\ c2 = Apply(c1, Create(LikeIndexes))
      BY <1>4
    <2> QED BY <1>6, <2>1, AfterTwo
  <1>8. After(c2, R_dae844e0f9d2.down) = s
    <2>1. c1 = Apply(c2, Drop(LikeIndexes)) /\ s = Apply(c1, DropTable("choice_likes"))
      BY <1>4
    <2> QED BY <1>6, <2>1, AfterTwo
  <1> QED BY <1>4, <1>5, <1>7, <1>8

CommentTables == {"choice_comments", "choice_comment_likes"}

LEMMA CommentsMade ==
    ASSUME NEW s, Fitting(s), TablesIn(s) = ChoiceAndUsers \cup {"choice_likes"}
    PROVE  /\ Fitting(Comments(s)) /\ TablesIn(Comments(s)) = ChoiceAndUsers \cup {"choice_likes"} \cup CommentTables
           /\ After(s, R_1c159ec384dd.up) = Comments(s) /\ After(Comments(s), R_1c159ec384dd.down) = s
  <1> DEFINE T == ChoiceAndUsers \cup {"choice_likes"}
             c1 == s \cup CommentTable
             c2 == c1 \cup CommentIndexes
             c3 == c2 \cup CommentLikeTable
             c4 == c3 \cup CommentLikeIndexes
  <1>1. "choice_comments" \notin T /\ "choice_comment_likes" \notin T \cup {"choice_comments"}
        /\ {"choice_questions", "users"} \subseteq T
    BY DEF ChoiceAndUsers, ChoiceTables
  <1> HIDE DEF T
  <1>2. NewIn(s, CommentTable, "choice_comments")
    BY <1>1, CommentsAre DEF NewIn, On, T
  <1>3. InSteps(s, CommentTable, CommentIndexes, "choice_comments")
    BY <1>2, CommentsAre, TableInSteps
  <1>4. /\ c1 = Apply(s, Create(CommentTable)) /\ c2 = Apply(c1, Create(CommentIndexes))
        /\ c1 = Apply(c2, Drop(CommentIndexes)) /\ s = Apply(c1, DropTable("choice_comments"))
        /\ Fitting(c2) /\ TablesIn(c2) = T \cup {"choice_comments"}
    BY <1>3 DEF InSteps, T
  <1>5. R_1c159ec384dd.up = << Create(CommentTable), Create(CommentIndexes),
                               Create(CommentLikeTable), Create(CommentLikeIndexes) >>
        /\ R_1c159ec384dd.down = << Drop(CommentLikeIndexes), DropTable("choice_comment_likes"),
                                    Drop(CommentIndexes), DropTable("choice_comments") >>
    BY DEF R_1c159ec384dd
  <1>6. Comments(s) = c4
    BY DEF Comments
  <1> HIDE DEF c1, c2
  <1>7. NewIn(c2, CommentLikeTable, "choice_comment_likes")
    BY <1>1, <1>4, CommentLikesAre DEF NewIn, On
  <1>8. InSteps(c2, CommentLikeTable, CommentLikeIndexes, "choice_comment_likes")
    BY <1>4, <1>7, CommentLikesAre, TableInSteps
  <1>9. /\ c3 = Apply(c2, Create(CommentLikeTable)) /\ c4 = Apply(c3, Create(CommentLikeIndexes))
        /\ c3 = Apply(c4, Drop(CommentLikeIndexes)) /\ c2 = Apply(c3, DropTable("choice_comment_likes"))
        /\ Fitting(c4) /\ TablesIn(c4) = T \cup CommentTables
    BY <1>4, <1>8 DEF InSteps, CommentTables
  <1> HIDE DEF c3, c4
  <1>10. After(s, R_1c159ec384dd.up) = c4
    <2>1. /\ c1 = Apply(s, Create(CommentTable)) /\ c2 = Apply(c1, Create(CommentIndexes))
          /\ c3 = Apply(c2, Create(CommentLikeTable)) /\ c4 = Apply(c3, Create(CommentLikeIndexes))
      BY <1>4, <1>9
    <2> QED BY <1>5, <2>1, AfterFour
  <1>11. After(c4, R_1c159ec384dd.down) = s
    <2>1. /\ c3 = Apply(c4, Drop(CommentLikeIndexes)) /\ c2 = Apply(c3, DropTable("choice_comment_likes"))
          /\ c1 = Apply(c2, Drop(CommentIndexes)) /\ s = Apply(c1, DropTable("choice_comments"))
      BY <1>4, <1>9
    <2> QED BY <1>5, <2>1, AfterFour
  <1> QED BY <1>6, <1>9, <1>10, <1>11 DEF T

LEMMA RepliesMade ==
    ASSUME NEW s, Fitting(s), TablesIn(s) = ChoiceAndUsers \cup {"choice_likes"} \cup CommentTables
    PROVE  /\ Fitting(Replies(s))
           /\ After(s, R_87af8eca06fd.up) = Replies(s) /\ After(Replies(s), R_87af8eca06fd.down) = s
  <1> DEFINE T == TablesIn(s)
             c1 == s \cup ReplyTable
             c2 == c1 \cup ReplyIndexes
  <1>1. "choice_replies" \notin T /\ {"choice_comments", "users"} \subseteq T
    BY DEF ChoiceAndUsers, ChoiceTables, CommentTables
  <1>2. NewIn(s, ReplyTable, "choice_replies")
    BY <1>1, RepliesAre DEF NewIn, On
  <1>3. InSteps(s, ReplyTable, ReplyIndexes, "choice_replies")
    BY <1>2, RepliesAre, TableInSteps
  <1>4. /\ c1 = Apply(s, Create(ReplyTable)) /\ c2 = Apply(c1, Create(ReplyIndexes))
        /\ c1 = Apply(c2, Drop(ReplyIndexes)) /\ s = Apply(c1, DropTable("choice_replies")) /\ Fitting(c2)
    BY <1>3 DEF InSteps
  <1>5. Replies(s) = c2
    BY DEF Replies
  <1>6. /\ R_87af8eca06fd.up = <<Create(ReplyTable), Create(ReplyIndexes)>>
        /\ R_87af8eca06fd.down = <<Drop(ReplyIndexes), DropTable("choice_replies")>>
    BY DEF R_87af8eca06fd
  <1> HIDE DEF c1, c2
  <1>7. After(s, R_87af8eca06fd.up) = c2
    <2>1. c1 = Apply(s, Create(ReplyTable)) /\ c2 = Apply(c1, Create(ReplyIndexes))
      BY <1>4
    <2> QED BY <1>6, <2>1, AfterTwo
  <1>8. After(c2, R_87af8eca06fd.down) = s
    <2>1. c1 = Apply(c2, Drop(ReplyIndexes)) /\ s = Apply(c1, DropTable("choice_replies"))
      BY <1>4
    <2> QED BY <1>6, <2>1, AfterTwo
  <1> QED BY <1>4, <1>5, <1>7, <1>8

----------------------------------------------------------------------------
\* A bootstrapped database has the same schemas, but for the names PostgreSQL
\* gave two constraints.
ModelNickname == Parts("users", {"users_nickname_key"})
ModelAuthor == AuthorKey("choice_questions_author_id_fkey")
Schema13Rest == Schema12 \cup AuthorId \cup AuthorIndex
Model15 == Schema13Rest \cup ModelAuthor \cup ModelNickname

Schema17 == Likes(Schema15)
Schema19 == Comments(Schema17)
Schema20 == Replies(Schema19)
Model17 == Likes(Model15)
Model19 == Comments(Model17)
Model20 == Replies(Model19)

LEMMA Model20Is == Model20 = ModelSchema
  <1> DEFINE u == Table("users")
             e == Parts("users", {"users_email_key"})
             p == Password
             q == Parts("users", {"uq_users_provider_provider_id"})
             n == ModelNickname
             qt == QuestionTable
             rt == ReasonTable
             vt == VoteTable
             vi == VoteIndexes
             k == ReasonKey("RESTRICT")
             i == ReasonId("NOT NULL")
             o == VoteOptions("ABCD")
             x == ExtraOptions
             y == OptionOrder
             ai == AuthorId
             ax == AuthorIndex
             ak == ModelAuthor
             lt == LikeTable
             li == LikeIndexes
             ct == CommentTable
             ci == CommentIndexes
             cl == CommentLikeTable
             cx == CommentLikeIndexes
             yt == ReplyTable
             yi == ReplyIndexes
  <1>1. UserModel = u \cup (p \cup q \cup e \cup n)
    <2>1. Parts("users", {"password_hash", "uq_users_provider_provider_id", "users_email_key", "users_nickname_key"})
          = p \cup q \cup e \cup n
      BY DEF Parts, Password, ModelNickname
    <2>2. UserModel = u \cup Parts("users", {"password_hash", "uq_users_provider_provider_id",
                                            "users_email_key", "users_nickname_key"})
      BY DEF UserModel
    <2> QED BY <2>1, <2>2, Zenon
  <1>2. QuestionModel = qt \cup ax \cup ai \cup x \cup y \cup ak
    BY DEF QuestionModel, ModelAuthor
  <1>3. VoteModel = vt \cup vi \cup k \cup i \cup o
    BY DEF VoteModel
  <1>4. CommentModel = ct \cup ci \cup cl \cup cx \cup yt \cup yi
    BY DEF CommentModel
  <1>5. ModelSchema = UserModel \cup QuestionModel \cup rt \cup VoteModel \cup lt \cup li \cup CommentModel
    BY DEF ModelSchema
  <1>6. Model15 = u \cup e \cup p \cup q \cup qt \cup rt \cup vt \cup vi \cup (k \cup i \cup o) \cup x \cup y
                  \cup ai \cup ax \cup ak \cup n
    BY DEF Model15, Schema13Rest, Schema12, Core, OldUsers, VoteParts
  <1>7. Model20 = Model15 \cup lt \cup li \cup ct \cup ci \cup cl \cup cx \cup yt \cup yi
    BY DEF Model20, Model19, Model17, Replies, Comments, Likes
  <1> HIDE DEF u, e, p, q, n, qt, rt, vt, vi, k, i, o, x, y, ai, ax, ak, lt, li, ct, ci, cl, cx, yt, yi
  <1> QED BY <1>1, <1>2, <1>3, <1>4, <1>5, <1>6, <1>7

LEMMA BareAdded ==
    ASSUME NEW s, Fitting(s), NEW x, Bare(x), On(x, TablesIn(s))
    PROVE  Fitting(s \cup x) /\ TablesIn(s \cup x) = TablesIn(s)
  <1>1. TablesIn(s \cup x) = TablesIn(s)
    BY TablesOfBoth, TablesOfBare
  <1> QED BY <1>1 DEF Fitting, On

LEMMA Model15Fits ==
    /\ Fitting(Model15) /\ TablesIn(Model15) = ChoiceAndUsers
    /\ After(Model15, R_4528840cd462.down) = Failed
  <1> DEFINE T == ChoiceAndUsers
             a == AuthorId \cup AuthorIndex
             b == ModelAuthor \cup ModelNickname
  <1>1. Bare(ModelNickname) /\ \A o \in ModelNickname : o.of = "users" /\ o.to = ""
    <2> DEFINE N == {"users_nickname_key"}
    <2>1. ModelNickname = Parts("users", N) /\ "users" \notin N
      BY DEF ModelNickname
    <2> HIDE DEF N
    <2> QED BY <2>1, PartsMake, BareParts
  <1>2. Bare(a) /\ Bare(b)
    BY <1>1, AuthorsAre DEF ModelAuthor, Bare
  <1>3. On(a, T) /\ On(b, T)
    BY <1>1, AuthorsAre DEF On, ChoiceAndUsers, ChoiceTables, ModelAuthor
  <1>4. Model15 = (Schema12 \cup a) \cup b
    BY DEF Model15, Schema13Rest
  <1>5. Fitting(Schema12) /\ TablesIn(Schema12) = T
    BY Revision12
  <1> HIDE DEF T, a, b
  <1>6. Fitting(Schema12 \cup a) /\ TablesIn(Schema12 \cup a) = T
    BY <1>2, <1>3, <1>5, BareAdded
  <1>7. Fitting((Schema12 \cup a) \cup b) /\ TablesIn((Schema12 \cup a) \cup b) = T
    <2> DEFINE s == Schema12 \cup a
    <2>1. Fitting(s) /\ TablesIn(s) = T
      BY <1>6
    <2> HIDE DEF s
    <2>2. Fitting(s \cup b) /\ TablesIn(s \cup b) = T
      BY <1>2, <1>3, <2>1, BareAdded
    <2> QED BY <2>2 DEF s
  <1>8. ~ (Nickname \subseteq Model15)
    <2>1. Named(Schema13Rest, Names13) /\ "uq_users_nickname" \notin Names13
      <3>1. Schema13Rest \subseteq Schema13
        BY DEF Schema13Rest, Schema13
      <3> QED BY <3>1, Schema13Named DEF Named
    <2>2. Named(ModelAuthor, {"choice_questions_author_id_fkey"}) /\ Named(ModelNickname, {"users_nickname_key"})
      BY AuthorsAre, NamedParts DEF ModelAuthor, ModelNickname
    <2>3. [of |-> "users", name |-> "uq_users_nickname", to |-> ""] \in Nickname
      BY PartsMake DEF Nickname
    <2>4. [of |-> "users", name |-> "uq_users_nickname", to |-> ""] \notin Model15
      BY <2>1, <2>2 DEF Model15, Named
    <2> QED BY <2>3, <2>4
  <1>9. Failed = Apply(Model15, Drop(Nickname))
    BY <1>8 DEF Apply, Drop, Replace
  <1>10. R_4528840cd462.down = <<Drop(Nickname)>>
    BY DEF R_4528840cd462, Nickname
  <1>11. After(Model15, R_4528840cd462.down) = Failed
    BY <1>9, <1>10, AfterOne
  <1> QED BY <1>4, <1>7, <1>11 DEF T

\* The later revisions, on both.
LEMMA LaterSchemas ==
    /\ Fitting(Schema17) /\ Fitting(Schema19) /\ Fitting(Schema20)
    /\ After(Schema15, R_dae844e0f9d2.up) = Schema17 /\ After(Schema17, R_dae844e0f9d2.down) = Schema15
    /\ After(Schema17, R_1c159ec384dd.up) = Schema19 /\ After(Schema19, R_1c159ec384dd.down) = Schema17
    /\ After(Schema19, R_87af8eca06fd.up) = Schema20 /\ After(Schema20, R_87af8eca06fd.down) = Schema19
  <1>1. Fitting(Schema15) /\ TablesIn(Schema15) = ChoiceAndUsers
    BY Revision15
  <1>2. /\ Fitting(Schema17) /\ TablesIn(Schema17) = ChoiceAndUsers \cup {"choice_likes"}
        /\ After(Schema15, R_dae844e0f9d2.up) = Schema17 /\ After(Schema17, R_dae844e0f9d2.down) = Schema15
    BY <1>1, LikesMade DEF Schema17
  <1>3. /\ Fitting(Schema19) /\ TablesIn(Schema19) = ChoiceAndUsers \cup {"choice_likes"} \cup CommentTables
        /\ After(Schema17, R_1c159ec384dd.up) = Schema19 /\ After(Schema19, R_1c159ec384dd.down) = Schema17
    BY <1>2, CommentsMade DEF Schema19
  <1>4. /\ Fitting(Schema20)
        /\ After(Schema19, R_87af8eca06fd.up) = Schema20 /\ After(Schema20, R_87af8eca06fd.down) = Schema19
    BY <1>3, RepliesMade DEF Schema20
  <1> QED BY <1>2, <1>3, <1>4

LEMMA LaterModels ==
    /\ Fitting(Model17) /\ Fitting(Model19) /\ Fitting(Model20)
    /\ After(Model15, R_dae844e0f9d2.up) = Model17 /\ After(Model17, R_dae844e0f9d2.down) = Model15
    /\ After(Model17, R_1c159ec384dd.up) = Model19 /\ After(Model19, R_1c159ec384dd.down) = Model17
    /\ After(Model19, R_87af8eca06fd.up) = Model20 /\ After(Model20, R_87af8eca06fd.down) = Model19
  <1>1. Fitting(Model15) /\ TablesIn(Model15) = ChoiceAndUsers
    BY Model15Fits
  <1>2. /\ Fitting(Model17) /\ TablesIn(Model17) = ChoiceAndUsers \cup {"choice_likes"}
        /\ After(Model15, R_dae844e0f9d2.up) = Model17 /\ After(Model17, R_dae844e0f9d2.down) = Model15
    BY <1>1, LikesMade DEF Model17
  <1>3. /\ Fitting(Model19) /\ TablesIn(Model19) = ChoiceAndUsers \cup {"choice_likes"} \cup CommentTables
        /\ After(Model17, R_1c159ec384dd.up) = Model19 /\ After(Model19, R_1c159ec384dd.down) = Model17
    BY <1>2, CommentsMade DEF Model19
  <1>4. /\ Fitting(Model20)
        /\ After(Model19, R_87af8eca06fd.up) = Model20 /\ After(Model20, R_87af8eca06fd.down) = Model19
    BY <1>3, RepliesMade DEF Model20
  <1> QED BY <1>2, <1>3, <1>4

----------------------------------------------------------------------------
\* The whole history: the schema of each revision.
History ==
    << Schema1, Schema2, Schema3, Schema4, Schema5, Schema6, Schema7, Schema8, Schema9, Schema10,
       Schema11, Schema12, Schema13, Schema13, Schema15, Schema15, Schema17, Schema17, Schema19, Schema20 >>
SchemaAt(r) == IF r = 0 THEN LegacySchema ELSE History[r]
\* Where a bootstrapped database can be.
ModelAt(r) ==
    CASE r \in {15, 16} -> Model15
      [] r \in {17, 18} -> Model17
      [] r = 19         -> Model19
      [] OTHER          -> ModelSchema

LEMMA SchemasAre ==
    /\ SchemaAt(0) = LegacySchema /\ SchemaAt(1) = Schema1 /\ SchemaAt(2) = Schema2 /\ SchemaAt(3) = Schema3
    /\ SchemaAt(4) = Schema4 /\ SchemaAt(5) = Schema5 /\ SchemaAt(6) = Schema6 /\ SchemaAt(7) = Schema7
    /\ SchemaAt(8) = Schema8 /\ SchemaAt(9) = Schema9 /\ SchemaAt(10) = Schema10
    /\ SchemaAt(11) = Schema11 /\ SchemaAt(12) = Schema12 /\ SchemaAt(13) = Schema13
    /\ SchemaAt(14) = Schema13 /\ SchemaAt(15) = Schema15 /\ SchemaAt(16) = Schema15
    /\ SchemaAt(17) = Schema17 /\ SchemaAt(18) = Schema17 /\ SchemaAt(19) = Schema19
    /\ SchemaAt(20) = Schema20
  BY DEF SchemaAt, History

LEMMA ModelsAre ==
    /\ ModelAt(15) = Model15 /\ ModelAt(16) = Model15 /\ ModelAt(17) = Model17 /\ ModelAt(18) = Model17
    /\ ModelAt(19) = Model19 /\ ModelAt(20) = ModelSchema
  BY DEF ModelAt

LEMMA AllFit == ASSUME NEW r \in 0..20 PROVE SchemaAt(r) # Failed
  <1>1. \A s : Fitting(s) => s # Failed
    BY DEF Fitting, Failed
  <1>2. /\ LegacySchema # Failed /\ Schema1 # Failed /\ Schema2 # Failed /\ Schema3 # Failed /\ Schema4 # Failed
        /\ Schema5 # Failed /\ Schema6 # Failed /\ Schema7 # Failed
    BY <1>1, Revision1, Revision2, Revision3, Revision4, Revision5, Revision6, Revision7
  <1>3. Schema8 # Failed /\ Schema10 # Failed
    BY <1>1, Schema8Fits, Schema10Fits
  <1>4. Schema9 # Failed
    <2>1. Schema10 \subseteq Schema9
      BY DEF Schema9, Services
    <2> QED BY <1>3, <2>1 DEF Failed
  <1>5. /\ Schema11 # Failed /\ Schema12 # Failed /\ Schema13 # Failed /\ Schema15 # Failed
    BY <1>1, Revision11, Revision12, Revision13, Revision15
  <1>6. /\ Schema17 # Failed /\ Schema19 # Failed /\ Schema20 # Failed
    BY <1>1, LaterSchemas
  <1>7. r \in {0, 1, 2, 3, 4, 5, 6, 7, 8, 9, 10, 11, 12, 13, 14, 15, 16, 17, 18, 19, 20}
    OBVIOUS
  <1> QED BY <1>2, <1>3, <1>4, <1>5, <1>6, <1>7, SchemasAre

LEMMA ModelsFit == ASSUME NEW r \in 15..20 PROVE ModelAt(r) # Failed
  <1>1. /\ Model15 # Failed /\ Model17 # Failed /\ Model19 # Failed /\ ModelSchema # Failed
    BY Model15Fits, LaterModels, Model20Is DEF Fitting, Failed
  <1>2. r \in {15, 16, 17, 18, 19, 20}
    OBVIOUS
  <1> QED BY <1>1, <1>2, ModelsAre

LEMMA EarlierRevisions ==
    /\ Revisions[1] = R_a395b8e042c1 /\ Revisions[2] = R_b32f1a2c1781
    /\ Revisions[3] = R_1dd57a123049 /\ Revisions[4] = R_503b754c8b0b
    /\ Revisions[5] = R_7f3a9c2e5b1d /\ Revisions[6] = R_2a6d8e1f4c93
    /\ Revisions[7] = R_7968d1b7732e /\ Revisions[8] = R_698d4567056f
    /\ Revisions[9] = R_9830cbc3c7c6 /\ Revisions[10] = R_12badf3b9d7e
    /\ Revisions[11] = R_e0d9472e53f0
  BY DEF Revisions

LEMMA LaterRevisions ==
    /\ Revisions[12] = R_175b07ee1691 /\ Revisions[13] = R_0bee734e8685
    /\ Revisions[14] = RowsOnly /\ Revisions[15] = R_4528840cd462 /\ Revisions[16] = RowsOnly
    /\ Revisions[17] = R_dae844e0f9d2 /\ Revisions[18] = RowsOnly /\ Revisions[19] = R_1c159ec384dd
    /\ Revisions[20] = R_87af8eca06fd
  BY DEF Revisions

LEMMA RowsOnlyStays == ASSUME NEW s PROVE After(s, RowsOnly.up) = s /\ After(s, RowsOnly.down) = s
  BY AfterNone DEF RowsOnly

\* Every revision takes the schema of the one before to its own.
LEMMA UpTheHistory == ASSUME NEW r \in 1..20 PROVE After(SchemaAt(r - 1), Revisions[r].up) = SchemaAt(r)
  <1>1. CASE r \in 1..10
    <2>1. r \in {1, 2, 3, 4, 5, 6, 7, 8, 9, 10}
      BY <1>1
    <2> QED BY <2>1, SchemasAre, EarlierRevisions, Revision1, Revision2, Revision3, Revision4, Revision5,
               Revision6, Revision7, Revision8, Revision9, Revision10
  <1>2. CASE r \in 11..15
    <2>1. r \in {11, 12, 13, 14, 15}
      BY <1>2
    <2> QED BY <2>1, SchemasAre, EarlierRevisions, LaterRevisions, Revision11, Revision12, Revision13,
               RowsOnlyStays, Revision15
  <1>3. CASE r \in 16..20
    <2>1. r \in {16, 17, 18, 19, 20}
      BY <1>3
    <2> QED BY <2>1, SchemasAre, LaterRevisions, RowsOnlyStays, LaterSchemas
  <1> QED BY <1>1, <1>2, <1>3

\* And back, but for the two revisions that took the old services away.
LEMMA DownTheHistory ==
    ASSUME NEW r \in 1..20
    PROVE  After(SchemaAt(r), Revisions[r].down) = IF r \in {7, 8} THEN Failed ELSE SchemaAt(r - 1)
  <1>1. CASE r \in 1..10
    <2>1. r \in {1, 2, 3, 4, 5, 6, 7, 8, 9, 10}
      BY <1>1
    <2> QED BY <2>1, SchemasAre, EarlierRevisions, Revision1, Revision2, Revision3, Revision4, Revision5,
               Revision6, Revision7, Revision8, Revision9, Revision10
  <1>2. CASE r \in 11..15
    <2>1. r \in {11, 12, 13, 14, 15}
      BY <1>2
    <2> QED BY <2>1, SchemasAre, EarlierRevisions, LaterRevisions, Revision11, Revision12, Revision13,
               RowsOnlyStays, Revision15
  <1>3. CASE r \in 16..20
    <2>1. r \in {16, 17, 18, 19, 20}
      BY <1>3
    <2> QED BY <2>1, SchemasAre, LaterRevisions, RowsOnlyStays, LaterSchemas
  <1> QED BY <1>1, <1>2, <1>3

\* A bootstrapped database goes the same way, down to revision 15.
LEMMA AlongTheModels ==
    ASSUME NEW r \in 15..20
    PROVE  /\ r > 15 => After(ModelAt(r - 1), Revisions[r].up) = ModelAt(r)
           /\ After(ModelAt(r), Revisions[r].down) = IF r = 15 THEN Failed ELSE ModelAt(r - 1)
  <1>1. r \in {15, 16, 17, 18, 19, 20}
    OBVIOUS
  <1> QED BY <1>1, ModelsAre, LaterRevisions, RowsOnlyStays, LaterModels, Model15Fits, Model20Is

\* The definition of the property computes this history.
LEMMA SchemasAreHistory == ASSUME NEW r \in 0..20 PROVE Schemas[r] = SchemaAt(r)
  <1> DEFINE Makes(g) == g = [k \in 0..HeadRevision |->
                              IF k = 0 THEN LegacySchema ELSE After(g[k - 1], Revisions[k].up)]
             h == CHOOSE g : Makes(g)
             s == [k \in 0..20 |-> SchemaAt(k)]
  <1>1. HeadRevision = 20
    BY DEF HeadRevision, Revisions
  <1>2. Schemas = [k \in 0..HeadRevision |-> h[k]]
    BY Zenon DEF Schemas
  <1>3. Makes(s)
    <2>1. ASSUME NEW k \in 0..20
          PROVE  s[k] = IF k = 0 THEN LegacySchema ELSE After(s[k - 1], Revisions[k].up)
      <3>1. s[k] = SchemaAt(k)
        OBVIOUS
      <3>2. CASE k = 0
        BY <3>1, <3>2, SchemasAre
      <3>3. CASE k # 0
        <4>1. k \in 1..20 /\ k - 1 \in 0..20
          BY <3>3
        <4>2. s[k - 1] = SchemaAt(k - 1)
          BY <4>1
        <4> QED BY <3>1, <3>3, <4>1, <4>2, UpTheHistory
      <3> QED BY <3>2, <3>3
    <2> QED BY <1>1, <2>1
  <1> HIDE DEF s
  <1>4. Makes(h)
    BY <1>3
  <1> HIDE DEF h
  <1> DEFINE P == {k \in 0..20 : h[k] = SchemaAt(k)}
  <1>5. h[0] = LegacySchema /\ \A k \in 1..20 : h[k] = After(h[k - 1], Revisions[k].up)
    <2>1. \A k \in 0..20 : h[k] = IF k = 0 THEN LegacySchema ELSE After(h[k - 1], Revisions[k].up)
      BY <1>1, <1>4
    <2> QED BY <2>1
  <1>6. 0 \in P
    BY <1>5, SchemasAre
  <1>7. ASSUME NEW k \in 1..20, k - 1 \in P PROVE k \in P
    BY <1>5, <1>7, UpTheHistory
  <1> HIDE DEF P
  <1>8. P = 0..20
    <2>1. P \in SUBSET (0..20)
      BY DEF P
    <2> QED BY <1>6, <1>7, <2>1, UpTo
  <1> QED BY <1>1, <1>2, <1>8 DEF P

----------------------------------------------------------------------------
\* What the names of a bootstrapped database mean.  The schemas before revision
\* 15 have none of these names, and mean themselves.
OldNames == {"users_nickname_key", "choice_questions_author_id_fkey", "uq_users_nickname"}
Usual(s) == \A o \in s : o.name \notin OldNames /\ [o EXCEPT !.name = Given(@)] = o

LEMMA UsualMeaning == ASSUME NEW s, Usual(s) PROVE Meaning(s) = s
  BY DEF Usual, Meaning

LEMMA MeaningBoth == ASSUME NEW x, NEW y PROVE Meaning(x \cup y) = Meaning(x) \cup Meaning(y)
  BY DEF Meaning

LEMMA MeaningThree ==
    ASSUME NEW x, NEW y, NEW z PROVE Meaning(x \cup y \cup z) = Meaning(x) \cup Meaning(y) \cup Meaning(z)
  <1> DEFINE a == x \cup y
  <1>1. Meaning(a) = Meaning(x) \cup Meaning(y)
    BY MeaningBoth
  <1> HIDE DEF a
  <1>2. Meaning(a \cup z) = Meaning(a) \cup Meaning(z)
    BY MeaningBoth
  <1> QED BY <1>1, <1>2 DEF a

LEMMA UsualBoth == ASSUME NEW x, NEW y PROVE Usual(x \cup y) <=> Usual(x) /\ Usual(y)
  BY DEF Usual

LEMMA NewName ==
    ASSUME NEW t, NEW n, NEW u, NEW o, o = [of |-> t, name |-> n, to |-> u]
    PROVE  o.name = n /\ [o EXCEPT !.name = Given(@)] = [of |-> t, name |-> Given(n), to |-> u]
  OBVIOUS

LEMMA GivenNames ==
    /\ \A n : n \notin OldNames => Given(n) = n
    /\ Given("users_nickname_key") = "uq_users_nickname" /\ Given("uq_users_nickname") = "uq_users_nickname"
    /\ Given("choice_questions_author_id_fkey") = "fk_choice_questions_author_id_users"
  BY DEF Given, OldNames

LEMMA UsualKey == ASSUME NEW t, NEW n, NEW u, n \notin OldNames PROVE Usual(Key(t, n, u))
  <1> DEFINE o == [of |-> t, name |-> n, to |-> u]
  <1>1. Key(t, n, u) = {o} /\ Given(n) = n
    BY GivenNames DEF Key
  <1>2. o.name = n /\ [o EXCEPT !.name = Given(@)] = [of |-> t, name |-> Given(n), to |-> u]
    BY NewName
  <1>3. [o EXCEPT !.name = Given(@)] = o
    BY <1>1, <1>2
  <1> HIDE DEF o
  <1> QED BY <1>1, <1>2, <1>3 DEF Usual

LEMMA UsualParts == ASSUME NEW t, NEW N, N \cap OldNames = {} PROVE Usual(Parts(t, N))
  <1>1. ASSUME NEW n \in N PROVE Usual({[of |-> t, name |-> n, to |-> ""]})
    <2>1. Usual(Key(t, n, ""))
      BY UsualKey
    <2> QED BY <2>1 DEF Key
  <1>2. ASSUME NEW o \in Parts(t, N) PROVE Usual({o})
    <2>1. PICK n \in N : o = [of |-> t, name |-> n, to |-> ""]
      BY DEF Parts
    <2> QED BY <1>1, <2>1
  <1> QED BY <1>2 DEF Usual

LEMMA UsualTable == ASSUME NEW t, t \notin OldNames PROVE Usual(Table(t))
  BY UsualParts DEF Table

LEMMA UsualPartsOf ==
    ASSUME NEW f, NEW N, Named(PartsOf(f), N), N \cap OldNames = {} PROVE Usual(PartsOf(f))
  <1>1. ASSUME NEW t \in DOMAIN f PROVE Usual(Parts(t, f[t]))
    <2>1. Parts(t, f[t]) \subseteq PartsOf(f)
      BY DEF PartsOf
    <2>2. \A n \in f[t] : [of |-> t, name |-> n, to |-> ""] \in Parts(t, f[t])
      BY PartsMake
    <2>3. \A n \in f[t] : n \in N
      BY <2>1, <2>2 DEF Named
    <2> QED BY <2>3, UsualParts
  <1> QED BY <1>1 DEF PartsOf, Usual

LEMMA UsualSubset == ASSUME NEW x, NEW y, Usual(y), x \subseteq y PROVE Usual(x)
  BY DEF Usual

LEMMA UsualLegacy ==
    /\ Usual(PartsOf(LegacyNames)) /\ Usual(PartsOf(RenamedNames)) /\ Usual(LegacyRest)
  <1>1. LegacyPartNames \cap OldNames = {} /\ RenamedPartNames \cap OldNames = {}
    BY DEF LegacyPartNames, RenamedPartNames, OldNames
  <1>2. Usual(PartsOf(LegacyNames)) /\ Usual(PartsOf(RenamedNames))
    BY <1>1, LegacyNamed, RenamedNamed, UsualPartsOf
  <1>3. Usual(LegacyKeys)
    <2> DEFINE A == {"fk_issue_clusters_centroid", "raw_articles_cluster_id_fkey",
                     "news_embeddings_article_id_fkey", "user_briefings_user_id_fkey",
                     "shared_briefings_created_by_user_id_fkey", "user_interests_user_id_fkey",
                     "commute_queries_user_id_fkey", "commute_routes_user_id_fkey", "schedules_user_id_fkey"}
    <2>1. \A n \in A : n \notin OldNames
      BY DEF OldNames
    <2>2. /\ "fk_issue_clusters_centroid" \in A /\ "raw_articles_cluster_id_fkey" \in A
          /\ "news_embeddings_article_id_fkey" \in A /\ "user_briefings_user_id_fkey" \in A
          /\ "shared_briefings_created_by_user_id_fkey" \in A /\ "user_interests_user_id_fkey" \in A
          /\ "commute_queries_user_id_fkey" \in A /\ "commute_routes_user_id_fkey" \in A
          /\ "schedules_user_id_fkey" \in A
      OBVIOUS
    <2> HIDE DEF A
    <2>3. \A n \in A : \A t, u : Usual(Key(t, n, u))
      BY <2>1, UsualKey
    <2>4. /\ Usual(Key("issue_clusters", "fk_issue_clusters_centroid", "news_embeddings"))
          /\ Usual(Key("raw_articles", "raw_articles_cluster_id_fkey", "issue_clusters"))
          /\ Usual(Key("news_embeddings", "news_embeddings_article_id_fkey", "raw_articles"))
          /\ Usual(Key("user_briefings", "user_briefings_user_id_fkey", "users"))
          /\ Usual(Key("shared_briefings", "shared_briefings_created_by_user_id_fkey", "users"))
          /\ Usual(Key("user_interests", "user_interests_user_id_fkey", "users"))
          /\ Usual(Key("commute_queries", "commute_queries_user_id_fkey", "users"))
          /\ Usual(Key("commute_routes", "commute_routes_user_id_fkey", "users"))
          /\ Usual(Key("schedules", "schedules_user_id_fkey", "users"))
      BY <2>2, <2>3
    <2> QED BY <2>4 DEF LegacyKeys, Usual
  <1>4. Usual(LegacyUnique)
    <2> DEFINE a == {"raw_articles_url_key"}
               b == {"users_email_key"}
    <2>1. a \cap OldNames = {} /\ b \cap OldNames = {}
      BY DEF OldNames
    <2>2. LegacyUnique = Parts("raw_articles", a) \cup Parts("users", b)
      BY DEF LegacyUnique
    <2> HIDE DEF a, b
    <2> QED BY <2>1, <2>2, UsualParts, UsualBoth
  <1>5. Usual(UNION {Table(t) : t \in LegacyTables})
    <2>1. \A t \in LegacyTables : t \notin OldNames
      BY DEF LegacyTables, OldNames
    <2>2. \A t \in LegacyTables : Usual(Table(t))
      BY <2>1, UsualTable
    <2> QED BY <2>2 DEF Usual
  <1>6. Usual(LegacyRest)
    <2> DEFINE x == UNION {Table(t) : t \in LegacyTables}
    <2>1. LegacyRest = x \cup LegacyUnique \cup LegacyKeys /\ Usual(x)
      BY <1>5 DEF LegacyRest
    <2> HIDE DEF x
    <2> QED BY <1>3, <1>4, <2>1, UsualBoth
  <1> QED BY <1>2, <1>6

LEMMA UsualUsers ==
    /\ Usual(Password) /\ Usual(ProviderKeys) /\ Usual(ArrayLists) /\ Usual(OldUsers)
  <1> DEFINE a == {"password_hash"}
             b == {"uq_user_interests_user_id_type_value"}
             c == {"uq_users_provider_provider_id"}
             e == {"users_email_key"}
  <1>1. /\ a \cap OldNames = {} /\ b \cap OldNames = {} /\ c \cap OldNames = {} /\ e \cap OldNames = {}
        /\ "users" \notin OldNames
    BY DEF OldNames
  <1>2. /\ Password = Parts("users", a) /\ ProviderKeys = Parts("user_interests", b) \cup Parts("users", c)
        /\ OldUsers = Table("users") \cup Parts("users", e) \cup Password \cup Parts("users", c)
    BY DEF Password, ProviderKeys, OldUsers
  <1>3. Usual(ArrayLists)
    <2>1. ArrayNames \cap OldNames = {}
      BY DEF ArrayNames, OldNames
    <2>2. Named(ArrayLists, ArrayNames)
      BY Lists4Are DEF Lists4
    <2> QED BY <2>1, <2>2, UsualPartsOf DEF ArrayLists
  <1> HIDE DEF a, b, c, e
  <1>4. Usual(Parts("users", a)) /\ Usual(Parts("user_interests", b)) /\ Usual(Parts("users", c))
        /\ Usual(Parts("users", e)) /\ Usual(Table("users"))
    BY <1>1, UsualParts, UsualTable
  <1> QED BY <1>2, <1>3, <1>4, UsualBoth

LEMMA UsualServices ==
    /\ Usual(UserInterests) /\ Usual(CommuteQueries) /\ Usual(Stocks) /\ Usual(CommuteFavorites)
    /\ Usual(GuestInterests) /\ Usual(Schedules) /\ Usual(CommuteRoutes) /\ Usual(WeatherFavorites)
  <1> USE DEF OldNames
  <1>1. Usual(UserInterests)
    <2>1. Usual(Table("user_interests"))
      BY UsualTable
    <2>2. Usual(Parts("user_interests", {"uq_user_interests_user_id_type_value"}))
      BY UsualParts
    <2>3. Usual(Key("user_interests", "user_interests_user_id_fkey", "users"))
      BY UsualKey
    <2> QED BY <2>1, <2>2, <2>3, UsualBoth DEF UserInterests
  <1>2. Usual(CommuteQueries)
    <2>1. Usual(Table("commute_queries"))
      BY UsualTable
    <2>2. Usual(Key("commute_queries", "commute_queries_user_id_fkey", "users"))
      BY UsualKey
    <2> QED BY <2>1, <2>2, UsualBoth DEF CommuteQueries
  <1>3. Usual(Stocks)
    <2>1. Usual(Table("stocks"))
      BY UsualTable
    <2>2. Usual(Parts("stocks", {"ix_stocks_name", "ix_stocks_code"}))
      BY UsualParts
    <2> QED BY <2>1, <2>2, UsualBoth DEF Stocks
  <1>4. Usual(CommuteFavorites)
    <2>1. Usual(Table("commute_favorites"))
      BY UsualTable
    <2>2. Usual(Key("commute_favorites", "commute_favorites_user_id_fkey", "users"))
      BY UsualKey
    <2> QED BY <2>1, <2>2, UsualBoth DEF CommuteFavorites
  <1>5. Usual(GuestInterests)
    <2>1. Usual(Table("guest_interests"))
      BY UsualTable
    <2>2. Usual(Parts("guest_interests", {"ix_guest_interests_session_token"}))
      BY UsualParts
    <2> QED BY <2>1, <2>2, UsualBoth DEF GuestInterests
  <1>6. Usual(Schedules)
    <2>1. Usual(Table("schedules"))
      BY UsualTable
    <2>2. Usual(Parts("schedules", {"ix_schedules_schedule_date"}))
      BY UsualParts
    <2>3. Usual(Key("schedules", "schedules_user_id_fkey", "users"))
      BY UsualKey
    <2> QED BY <2>1, <2>2, <2>3, UsualBoth DEF Schedules
  <1>7. Usual(CommuteRoutes)
    <2>1. Usual(Table("commute_routes"))
      BY UsualTable
    <2>2. Usual(Key("commute_routes", "commute_routes_user_id_fkey", "users"))
      BY UsualKey
    <2> QED BY <2>1, <2>2, UsualBoth DEF CommuteRoutes
  <1>8. Usual(WeatherFavorites)
    <2>1. Usual(Table("weather_favorites"))
      BY UsualTable
    <2>2. Usual(Key("weather_favorites", "weather_favorites_user_id_fkey", "users"))
      BY UsualKey
    <2> QED BY <2>1, <2>2, UsualBoth DEF WeatherFavorites
  <1> QED BY <1>1, <1>2, <1>3, <1>4, <1>5, <1>6, <1>7, <1>8

LEMMA UsualChoices ==
    /\ Usual(QuestionTable) /\ Usual(ReasonTable) /\ Usual(VoteTable) /\ Usual(VoteIndexes)
    /\ Usual(ExtraOptions) /\ Usual(OptionOrder) /\ Usual(AuthorId) /\ Usual(AuthorIndex)
  <1> USE DEF OldNames
  <1>1. Usual(QuestionTable)
    <2>1. Usual(Table("choice_questions"))
      BY UsualTable
    <2>2. Usual(Parts("choice_questions", 
                    {"ix_choice_questions_category", "ix_choice_questions_is_active", "ix_choice_questions_is_daily",
                     "ix_choice_questions_published_at"}))
      BY UsualParts
    <2> QED BY <2>1, <2>2, UsualBoth DEF QuestionTable
  <1>2. Usual(ReasonTable)
    <2>1. Usual(Table("choice_reasons"))
      BY UsualTable
    <2>2. Usual(Parts("choice_reasons", {"ix_choice_reasons_question_id"}))
      BY UsualParts
    <2>3. Usual(Key("choice_reasons", "choice_reasons_question_id_fkey", "choice_questions"))
      BY UsualKey
    <2> QED BY <2>1, <2>2, <2>3, UsualBoth DEF ReasonTable
  <1>3. Usual(VoteTable)
    <2>1. Usual(Table("choice_votes"))
      BY UsualTable
    <2>2. Usual(Parts("choice_votes", {"ck_choice_votes_participant"}))
      BY UsualParts
    <2>3. Usual(Key("choice_votes", "choice_votes_question_id_fkey", "choice_questions"))
      BY UsualKey
    <2>4. Usual(Key("choice_votes", "choice_votes_user_id_fkey", "users"))
      BY UsualKey
    <2> QED BY <2>1, <2>2, <2>3, <2>4, UsualBoth DEF VoteTable
  <1>4. Usual(VoteIndexes)
    BY UsualParts DEF VoteIndexes
  <1>5. Usual(ExtraOptions)
    BY UsualParts DEF ExtraOptions
  <1>6. Usual(OptionOrder)
    BY UsualParts DEF OptionOrder
  <1>7. Usual(AuthorId)
    BY UsualParts DEF AuthorId
  <1>8. Usual(AuthorIndex)
    BY UsualParts DEF AuthorIndex
  <1> QED BY <1>1, <1>2, <1>3, <1>4, <1>5, <1>6, <1>7, <1>8

LEMMA UsualAuthor == Usual(Author)
  <1>1. "fk_choice_questions_author_id_users" \notin OldNames
    BY DEF OldNames
  <1> QED BY <1>1, UsualKey DEF Author, AuthorKey

LEMMA UsualVotes ==
    ASSUME NEW k, k \notin OldNames, NEW i, i \notin OldNames, NEW o, o \notin OldNames
    PROVE  Usual(VoteParts(k, i, o))
  <1>1. Usual(ReasonKey(k)) /\ Usual(ReasonId(i)) /\ Usual(VoteOptions(o))
    BY UsualKey, UsualParts DEF ReasonKey, ReasonId, VoteOptions
  <1> QED BY <1>1, UsualBoth DEF VoteParts

LEMMA UsualTalk ==
    /\ Usual(LikeTable) /\ Usual(LikeIndexes) /\ Usual(CommentTable) /\ Usual(CommentIndexes)
    /\ Usual(CommentLikeTable) /\ Usual(CommentLikeIndexes) /\ Usual(ReplyTable) /\ Usual(ReplyIndexes)
  <1> USE DEF OldNames
  <1>1. Usual(LikeTable)
    <2>1. Usual(Table("choice_likes"))
      BY UsualTable
    <2>2. Usual(Parts("choice_likes", {"uq_choice_likes_question_user"}))
      BY UsualParts
    <2>3. Usual(Key("choice_likes", "choice_likes_question_id_fkey", "choice_questions"))
      BY UsualKey
    <2>4. Usual(Key("choice_likes", "choice_likes_user_id_fkey", "users"))
      BY UsualKey
    <2> QED BY <2>1, <2>2, <2>3, <2>4, UsualBoth DEF LikeTable
  <1>2. Usual(LikeIndexes)
    BY UsualParts DEF LikeIndexes
  <1>3. Usual(CommentTable)
    <2>1. Usual(Table("choice_comments"))
      BY UsualTable
    <2>2. Usual(Parts("choice_comments", {"ck_choice_comments_content"}))
      BY UsualParts
    <2>3. Usual(Key("choice_comments", "choice_comments_question_id_fkey", "choice_questions"))
      BY UsualKey
    <2>4. Usual(Key("choice_comments", "choice_comments_user_id_fkey", "users"))
      BY UsualKey
    <2> QED BY <2>1, <2>2, <2>3, <2>4, UsualBoth DEF CommentTable
  <1>4. Usual(CommentIndexes)
    BY UsualParts DEF CommentIndexes
  <1>5. Usual(CommentLikeTable)
    <2>1. Usual(Table("choice_comment_likes"))
      BY UsualTable
    <2>2. Usual(Parts("choice_comment_likes", {"uq_choice_comment_likes_comment_user"}))
      BY UsualParts
    <2>3. Usual(Key("choice_comment_likes", "choice_comment_likes_comment_id_fkey", "choice_comments"))
      BY UsualKey
    <2>4. Usual(Key("choice_comment_likes", "choice_comment_likes_user_id_fkey", "users"))
      BY UsualKey
    <2> QED BY <2>1, <2>2, <2>3, <2>4, UsualBoth DEF CommentLikeTable
  <1>6. Usual(CommentLikeIndexes)
    BY UsualParts DEF CommentLikeIndexes
  <1>7. Usual(ReplyTable)
    <2>1. Usual(Table("choice_replies"))
      BY UsualTable
    <2>2. Usual(Parts("choice_replies", {"ck_choice_replies_content"}))
      BY UsualParts
    <2>3. Usual(Key("choice_replies", "choice_replies_comment_id_fkey", "choice_comments"))
      BY UsualKey
    <2>4. Usual(Key("choice_replies", "choice_replies_user_id_fkey", "users"))
      BY UsualKey
    <2> QED BY <2>1, <2>2, <2>3, <2>4, UsualBoth DEF ReplyTable
  <1>8. Usual(ReplyIndexes)
    BY UsualParts DEF ReplyIndexes
  <1> QED BY <1>1, <1>2, <1>3, <1>4, <1>5, <1>6, <1>7, <1>8

\* The schemas of the history mean themselves, those of the models the same.
LEMMA UsualHistory == ASSUME NEW r \in 0..14 PROVE Usual(SchemaAt(r))
  <1>1. Usual(LegacySchema) /\ Usual(Schema1)
    BY LegacyIs, UsualLegacy, UsualBoth DEF Schema1
  <1>2. Usual(Schema2) /\ Usual(Schema3) /\ Usual(Schema4)
    BY <1>1, UsualUsers DEF Schema2, Schema3, Schema4, Usual
  <1>3. Usual(Schema5) /\ Usual(Schema6) /\ Usual(Schema7)
    BY <1>2, UsualServices DEF Schema5, Schema6, Schema7, Usual
  <1>4. Usual(Schema8)
    BY UsualUsers, UsualServices, UsualBoth DEF Schema8
  <1>5. Usual(Core)
    BY UsualUsers, UsualChoices, UsualBoth DEF Core
  <1>6. Usual(Schema10) /\ Usual(Schema9)
    <2>1. Usual(VoteParts("SET NULL", "NULL", "AB"))
      BY UsualVotes DEF OldNames
    <2>2. Usual(Schema10)
      BY <1>5, <2>1, Schema10Is, UsualBoth
    <2> QED BY <2>2, UsualServices, UsualBoth DEF Schema9, Services
  <1>7. Usual(Schema11)
    <2>1. Usual(VoteParts("RESTRICT", "NOT NULL", "AB"))
      BY UsualVotes DEF OldNames
    <2> QED BY <1>5, <2>1, UsualBoth DEF Schema11
  <1>8. Usual(Schema12)
    <2>1. Usual(VoteParts("RESTRICT", "NOT NULL", "ABCD"))
      BY UsualVotes DEF OldNames
    <2>2. Usual(ExtraOptions) /\ Usual(OptionOrder)
      BY UsualChoices
    <2> QED BY <1>5, <2>1, <2>2 DEF Schema12, Usual
  <1>9. Usual(Schema13)
    BY <1>8, UsualChoices, UsualAuthor, UsualBoth DEF Schema13
  <1>10. r \in {0, 1, 2, 3, 4, 5, 6, 7, 8, 9, 10, 11, 12, 13, 14}
    OBVIOUS
  <1> QED BY <1>1, <1>2, <1>3, <1>4, <1>6, <1>7, <1>8, <1>9, <1>10, SchemasAre

LEMMA MeaningOfKey == ASSUME NEW t, NEW n, NEW u PROVE Meaning(Key(t, n, u)) = Key(t, Given(n), u)
  <1> DEFINE o == [of |-> t, name |-> n, to |-> u]
  <1>1. [o EXCEPT !.name = Given(@)] = [of |-> t, name |-> Given(n), to |-> u]
    OBVIOUS
  <1>2. Key(t, n, u) = {o}
    BY DEF Key
  <1> HIDE DEF o
  <1>3. Meaning({o}) = {[o EXCEPT !.name = Given(@)]}
    BY DEF Meaning
  <1> QED BY <1>1, <1>2, <1>3 DEF Key

LEMMA MeaningOfNames ==
    Meaning(ModelNickname) = Nickname /\ Meaning(Nickname) = Nickname /\ Meaning(ModelAuthor) = Author
  <1>1. /\ ModelNickname = Key("users", "users_nickname_key", "")
        /\ Nickname = Key("users", "uq_users_nickname", "")
    BY DEF ModelNickname, Nickname, Parts, Key
  <1>2. /\ ModelAuthor = Key("choice_questions", "choice_questions_author_id_fkey", "users")
        /\ Author = Key("choice_questions", "fk_choice_questions_author_id_users", "users")
    BY DEF ModelAuthor, Author, AuthorKey
  <1>3. Meaning(ModelNickname) = Key("users", Given("users_nickname_key"), "")
    BY <1>1, MeaningOfKey
  <1>4. Meaning(Nickname) = Key("users", Given("uq_users_nickname"), "")
    BY <1>1, MeaningOfKey
  <1>5. Meaning(ModelAuthor) = Key("choice_questions", Given("choice_questions_author_id_fkey"), "users")
    BY <1>2, MeaningOfKey
  <1> QED BY <1>1, <1>2, <1>3, <1>4, <1>5, GivenNames

\* The later schemas mean what the earlier ones do, and the later tables.
LEMMA MeaningOfLater ==
    ASSUME NEW s
    PROVE  /\ Meaning(Likes(s)) = Likes(Meaning(s)) /\ Meaning(Comments(s)) = Comments(Meaning(s))
           /\ Meaning(Replies(s)) = Replies(Meaning(s))
  <1>1. /\ Meaning(LikeTable) = LikeTable /\ Meaning(LikeIndexes) = LikeIndexes
        /\ Meaning(CommentTable) = CommentTable /\ Meaning(CommentIndexes) = CommentIndexes
        /\ Meaning(CommentLikeTable) = CommentLikeTable /\ Meaning(CommentLikeIndexes) = CommentLikeIndexes
        /\ Meaning(ReplyTable) = ReplyTable /\ Meaning(ReplyIndexes) = ReplyIndexes
    BY UsualTalk, UsualMeaning
  <1>2. Meaning(Likes(s)) = Likes(Meaning(s))
    <2>1. Meaning(s \cup LikeTable \cup LikeIndexes) = Meaning(s) \cup Meaning(LikeTable) \cup Meaning(LikeIndexes)
      BY MeaningThree
    <2> QED BY <1>1, <2>1 DEF Likes
  <1>3. Meaning(Comments(s)) = Comments(Meaning(s))
    <2> DEFINE y == s \cup CommentTable \cup CommentIndexes
    <2>1. Meaning(y) = Meaning(s) \cup CommentTable \cup CommentIndexes
      <3>1. Meaning(y) = Meaning(s) \cup Meaning(CommentTable) \cup Meaning(CommentIndexes)
        BY MeaningThree
      <3> QED BY <1>1, <3>1
    <2>2. Comments(s) = y \cup CommentLikeTable \cup CommentLikeIndexes
      BY DEF Comments
    <2> HIDE DEF y
    <2>3. Meaning(y \cup CommentLikeTable \cup CommentLikeIndexes)
          = Meaning(y) \cup Meaning(CommentLikeTable) \cup Meaning(CommentLikeIndexes)
      BY MeaningThree
    <2> QED BY <1>1, <2>1, <2>2, <2>3 DEF Comments
  <1>4. Meaning(Replies(s)) = Replies(Meaning(s))
    <2>1. Meaning(s \cup ReplyTable \cup ReplyIndexes) = Meaning(s) \cup Meaning(ReplyTable) \cup Meaning(ReplyIndexes)
      BY MeaningThree
    <2> QED BY <1>1, <2>1 DEF Replies
  <1> QED BY <1>2, <1>3, <1>4

LEMMA MeaningOfModels ==
    /\ Meaning(Schema15) = Schema15 /\ Meaning(Schema17) = Schema17
    /\ Meaning(Schema19) = Schema19 /\ Meaning(Schema20) = Schema20
    /\ Meaning(Model15) = Schema15 /\ Meaning(Model17) = Schema17
    /\ Meaning(Model19) = Schema19 /\ Meaning(Model20) = Schema20
  <1>1. Meaning(Schema13) = Schema13 /\ Meaning(Schema13Rest) = Schema13Rest
    <2>1. Schema13Rest \subseteq SchemaAt(13) /\ SchemaAt(13) = Schema13
      BY SchemasAre DEF Schema13, Schema13Rest
    <2>2. Usual(SchemaAt(13))
      BY UsualHistory
    <2> QED BY <2>1, <2>2, UsualSubset, UsualMeaning
  <1>2. Meaning(Model15) = Schema15
    <2>1. Meaning(Model15) = (Meaning(Schema13Rest) \cup Meaning(ModelAuthor)) \cup Meaning(ModelNickname)
      BY MeaningThree DEF Model15
    <2>2. Schema15 = (Schema13Rest \cup Author) \cup Nickname
      BY DEF Schema13Rest, Schema13, Schema15
    <2> QED BY <1>1, <2>1, <2>2, MeaningOfNames
  <1>3. Meaning(Schema15) = Schema15
    <2>1. Meaning(Schema13 \cup Nickname) = Meaning(Schema13) \cup Meaning(Nickname)
      BY MeaningBoth
    <2> QED BY <1>1, <2>1, MeaningOfNames DEF Schema15
  <1> QED BY <1>2, <1>3, MeaningOfLater DEF Model17, Model19, Model20, Schema17, Schema19, Schema20

LEMMA MeaningOfHistory == ASSUME NEW r \in 0..20 PROVE Meaning(SchemaAt(r)) = SchemaAt(r)
  <1>1. CASE r \in 0..14
    BY <1>1, UsualHistory, UsualMeaning
  <1>2. CASE r \in 15..20
    <2>1. r \in {15, 16, 17, 18, 19, 20}
      BY <1>2
    <2> QED BY <2>1, MeaningOfModels, SchemasAre
  <1> QED BY <1>1, <1>2

\* The schema of a revision: that of the history, or from revision 15 on that
\* of a bootstrapped database.
Versioned(d) ==
    /\ d.rev \in 0..20
    /\ d.schema = SchemaAt(d.rev) \/ (d.rev >= 15 /\ d.schema = ModelAt(d.rev))

LEMMA VersionedMeans == ASSUME NEW d, Versioned(d) PROVE Meaning(d.schema) = Schemas[d.rev]
  <1> DEFINE r == d.rev
  <1>1. Schemas[r] = SchemaAt(r)
    BY SchemasAreHistory DEF Versioned
  <1>2. CASE d.schema = SchemaAt(r)
    BY <1>1, <1>2, MeaningOfHistory DEF Versioned
  <1>3. CASE r >= 15 /\ d.schema = ModelAt(r)
    <2>1. r \in {15, 16, 17, 18, 19, 20}
      BY <1>3 DEF Versioned
    <2>2. \A n \in {15, 16, 17, 18, 19, 20} : Meaning(ModelAt(n)) = SchemaAt(n)
      BY SchemasAre, ModelsAre, MeaningOfModels, Model20Is
    <2>3. Meaning(ModelAt(r)) = SchemaAt(r)
      BY <2>1, <2>2
    <2> QED BY <1>1, <1>3, <2>3
  <1> QED BY <1>2, <1>3 DEF Versioned

\* One revision up: the statements of its schema are never refused.
LEMMA VersionedUp ==
    ASSUME NEW d, Versioned(d), d.rev < 20, NEW e, e.rev = d.rev + 1,
           e.schema = After(d.schema, Revisions[e.rev].up)
    PROVE  Versioned(e) /\ e.schema # Failed
  <1> DEFINE r == d.rev
             q == e.rev
  <1>1. r \in 0..20 /\ r < 20 /\ q = r + 1 /\ q \in 1..20 /\ q - 1 = r
    BY DEF Versioned
  <1>2. CASE d.schema = SchemaAt(r)
    <2>1. e.schema = SchemaAt(q)
      BY <1>1, <1>2, UpTheHistory
    <2> QED BY <1>1, <2>1, AllFit DEF Versioned
  <1>3. CASE r >= 15 /\ d.schema = ModelAt(r)
    <2>1. q \in 15..20 /\ q > 15
      BY <1>1, <1>3
    <2>2. e.schema = ModelAt(q)
      BY <1>1, <1>3, <2>1, AlongTheModels
    <2> QED BY <1>1, <2>1, <2>2, ModelsFit DEF Versioned
  <1> QED BY <1>2, <1>3 DEF Versioned

\* One revision down: refused where the old services would have to come back,
\* and where PostgreSQL named the key of nicknames.
LEMMA VersionedDown ==
    ASSUME NEW d, Versioned(d), d.rev > 0, NEW e, e.rev = d.rev - 1,
           e.schema = After(d.schema, Revisions[d.rev].down)
    PROVE  /\ e.schema # Failed => Versioned(e)
           /\ e.schema = Failed => d.rev \in {7, 8} \/ (d.rev = 15 /\ d.schema = Model15)
  <1> DEFINE r == d.rev
             q == e.rev
  <1>1. r \in 1..20 /\ q = r - 1 /\ q \in 0..20
    BY DEF Versioned
  <1>2. CASE d.schema = SchemaAt(r)
    <2>1. e.schema = IF r \in {7, 8} THEN Failed ELSE SchemaAt(q)
      BY <1>1, <1>2, DownTheHistory
    <2> QED BY <1>1, <2>1, AllFit DEF Versioned
  <1>3. CASE r >= 15 /\ d.schema = ModelAt(r)
    <2>1. r \in 15..20
      BY <1>1, <1>3
    <2>2. e.schema = IF r = 15 THEN Failed ELSE ModelAt(q)
      BY <1>1, <1>3, <2>1, AlongTheModels
    <2>3. CASE r = 15
      BY <1>3, <2>2, <2>3, ModelsAre
    <2>4. CASE r # 15
      <3>1. q \in 15..20
        BY <1>1, <2>1, <2>4
      <3> QED BY <1>1, <2>2, <2>4, <3>1, ModelsFit DEF Versioned
    <2> QED BY <2>3, <2>4
  <1> QED BY <1>2, <1>3 DEF Versioned

LEMMA VersionsAtFirst ==
    ASSUME NEW d PROVE /\ d.rev = 0 /\ d.schema = LegacySchema => Versioned(d)
                       /\ d.rev = 20 /\ d.schema = ModelSchema => Versioned(d)
  BY SchemasAre, ModelsAre DEF Versioned

\* The name by which StopsOnlyHere knows a bootstrapped database.
LEMMA ModelsNickname == ASSUME NEW d, d.schema = Model15 PROVE Has(d, "users_nickname_key")
  <1>1. [of |-> "users", name |-> "users_nickname_key", to |-> ""] \in Model15
    BY PartsMake DEF Model15, ModelNickname
  <1> QED BY <1>1 DEF Has

\* A key of nicknames is there from revision 15 on.
LEMMA NicknamesUnique == ASSUME NEW d, Versioned(d) PROVE Unique(d) <=> d.rev >= 15
  <1> DEFINE r == d.rev
  <1>1. Nickname \subseteq NicknameKeys /\ ModelNickname \subseteq NicknameKeys
    BY DEF Nickname, ModelNickname, NicknameKeys, Parts
  <1>2. [of |-> "users", name |-> "uq_users_nickname", to |-> ""] \in Nickname
        /\ [of |-> "users", name |-> "users_nickname_key", to |-> ""] \in ModelNickname
    BY PartsMake DEF Nickname, ModelNickname
  <1>3. ASSUME r >= 15 PROVE Unique(d)
    <2>1. r \in {15, 16, 17, 18, 19, 20}
      BY <1>3 DEF Versioned
    <2>2. Nickname \subseteq Schema15 /\ ModelNickname \subseteq Model15
      BY DEF Schema15, Model15
    <2>3. /\ Schema15 \subseteq Schema17 /\ Schema17 \subseteq Schema19 /\ Schema19 \subseteq Schema20
          /\ Model15 \subseteq Model17 /\ Model17 \subseteq Model19 /\ Model19 \subseteq Model20
      BY DEF Schema17, Schema19, Schema20, Model17, Model19, Model20, Likes, Comments, Replies
    <2>4. Nickname \subseteq SchemaAt(r) /\ ModelNickname \subseteq ModelAt(r)
      BY <2>1, <2>2, <2>3, SchemasAre, ModelsAre, Model20Is
    <2> QED BY <1>1, <1>2, <2>4 DEF Versioned, Unique
  <1>4. ASSUME r < 15 PROVE ~ Unique(d)
    <2>1. d.schema = SchemaAt(r) /\ r \in 0..14
      BY <1>4 DEF Versioned
    <2>2. Usual(SchemaAt(r))
      BY <2>1, UsualHistory
    <2>3. \A o \in NicknameKeys : o.name \in OldNames
      BY PartsMake DEF NicknameKeys, OldNames
    <2> QED BY <2>1, <2>2, <2>3 DEF Unique, Usual
  <1> QED BY <1>3, <1>4 DEF Versioned

LEMMA HeadIsTwenty == HeadRevision = 20
    BY DEF Revisions, HeadRevision

----------------------------------------------------------------------------
\* Next the rows, whose fields are all the proofs need of their types.
UserRow(u) == u = [id |-> u.id, account |-> u.account, nick |-> u.nick]
QuestionRow(q) ==
    q = [id |-> q.id, title |-> q.title, author |-> q.author, options |-> q.options,
         created |-> q.created]
Shaped(d) ==
    d = [rev |-> d.rev, schema |-> d.schema, users |-> d.users, questions |-> d.questions,
         votes |-> d.votes]
Database(d) ==
    /\ Shaped(d)
    /\ \A u \in d.users : UserRow(u)
    /\ \A q \in d.questions : QuestionRow(q)

\* e has all of people's that d has; or all but votes on the catalogue; and e has
\* no question of the catalogue that d has not.
KeepsPeople(d, e) ==
    /\ PersonsVotes(d) \subseteq PersonsVotes(e)
    /\ PersonsAccounts(d) \subseteq PersonsAccounts(e)
    /\ OwnQuestions(d) \subseteq OwnQuestions(e)
KeepsOthers(d, e) ==
    /\ \A v \in PersonsVotes(d) : v \in PersonsVotes(e) \/ v \in VotesOn(d, Seeds(d))
    /\ PersonsAccounts(d) \subseteq PersonsAccounts(e)
    /\ OwnQuestions(d) \subseteq OwnQuestions(e)
KeepsAuthors(d, e) == \A q \in d.questions : q.author \in People => q \in e.questions
SeedsFrom(d, e) == \A p \in Seeds(e) : \E q \in Seeds(d) : q.id = p.id

\* A question of people's in d stays, if its text does.
LEMMA OwnKept ==
    ASSUME NEW d, NEW e,
           \A q \in d.questions : q.created # "seed" =>
               \E p \in e.questions : /\ p.created # "seed" /\ p.id = q.id
                                      /\ p.title = q.title /\ p.options = q.options
    PROVE  OwnQuestions(d) \subseteq OwnQuestions(e)
  BY DEF OwnQuestions, Seeds

LEMMA KeepsItself == ASSUME NEW d PROVE KeepsPeople(d, d) /\ KeepsAuthors(d, d) /\ SeedsFrom(d, d)
  BY DEF KeepsPeople, KeepsAuthors, SeedsFrom

LEMMA AllAreMost == ASSUME NEW d, NEW e, KeepsPeople(d, e) PROVE KeepsOthers(d, e)
  BY DEF KeepsPeople, KeepsOthers

\* What only the rows, of which e and f have the same, say.
LEMMA RowsAlone ==
    ASSUME NEW d, NEW e, NEW f, e.users = f.users, e.questions = f.questions, e.votes = f.votes
    PROVE  /\ KeepsPeople(d, e) <=> KeepsPeople(d, f)
           /\ KeepsAuthors(d, e) <=> KeepsAuthors(d, f)
           /\ KeepsOthers(d, e) <=> KeepsOthers(d, f)
           /\ SeedsFrom(d, e) <=> SeedsFrom(d, f)
  <1>1. /\ PersonsVotes(e) = PersonsVotes(f) /\ PersonsAccounts(e) = PersonsAccounts(f)
        /\ OwnQuestions(e) = OwnQuestions(f) /\ Seeds(e) = Seeds(f)
    BY DEF PersonsVotes, PersonsAccounts, OwnQuestions, Seeds
  <1> QED BY <1>1 DEF KeepsPeople, KeepsAuthors, KeepsOthers, SeedsFrom

\* What two steps keep, both together keep.
LEMMA KeepsAlong ==
    ASSUME NEW d, NEW e, NEW f
    PROVE  /\ KeepsPeople(d, e) /\ KeepsPeople(e, f) => KeepsPeople(d, f)
           /\ KeepsAuthors(d, e) /\ KeepsAuthors(e, f) => KeepsAuthors(d, f)
           /\ SeedsFrom(d, e) /\ SeedsFrom(e, f) => SeedsFrom(d, f)
           /\ KeepsOthers(d, e) /\ SeedsFrom(d, e) /\ KeepsOthers(e, f) => KeepsOthers(d, f)
  <1>1. ASSUME KeepsOthers(d, e), SeedsFrom(d, e), KeepsOthers(e, f),
               NEW v \in PersonsVotes(d), v \notin VotesOn(d, Seeds(d))
        PROVE  v \in PersonsVotes(f)
    <2>1. v \in PersonsVotes(e) /\ v \in d.votes
      BY <1>1 DEF KeepsOthers, PersonsVotes
    <2>2. v \notin VotesOn(e, Seeds(e))
      BY <1>1, <2>1 DEF SeedsFrom, VotesOn
    <2> QED BY <1>1, <2>1, <2>2 DEF KeepsOthers
  <1> QED BY <1>1 DEF KeepsPeople, KeepsAuthors, KeepsOthers, SeedsFrom

\* A revision that stops has left the rows alone.
LEMMA StoppedRows ==
    ASSUME NEW d, Database(d)
    PROVE  /\ Database(Stopped(d)) /\ Stopped(d).rev = d.rev /\ Stopped(d).schema = Failed
           /\ Stopped(d).users = d.users /\ Stopped(d).questions = d.questions
           /\ Stopped(d).votes = d.votes
  <1>1. Stopped(d) = [rev |-> d.rev, schema |-> Failed, users |-> d.users,
                      questions |-> d.questions, votes |-> d.votes]
    BY DEF Stopped, Database, Shaped
  <1> QED BY <1>1 DEF Database, Shaped

\* The database d with these rows.
With(d, U, Q, V) == [rev |-> d.rev, schema |-> d.schema, users |-> U, questions |-> Q, votes |-> V]

LEMMA WithFields ==
    ASSUME NEW d, NEW U, NEW Q, NEW V
    PROVE  LET e == With(d, U, Q, V)
           IN  /\ Shaped(e) /\ e.rev = d.rev /\ e.schema = d.schema
               /\ e.users = U /\ e.questions = Q /\ e.votes = V
  BY DEF With, Shaped

LEMMA UsersReplaced ==
    ASSUME NEW d, Shaped(d), NEW U
    PROVE  [d EXCEPT !.users = U] = With(d, U, d.questions, d.votes)
  BY DEF Shaped, With

LEMMA QuestionsReplaced ==
    ASSUME NEW d, Shaped(d), NEW Q
    PROVE  [d EXCEPT !.questions = Q] = With(d, d.users, Q, d.votes)
  BY DEF Shaped, With

LEMMA VotesReplaced ==
    ASSUME NEW d, Shaped(d), NEW V
    PROVE  [d EXCEPT !.votes = V] = With(d, d.users, d.questions, V)
  BY DEF Shaped, With

LEMMA QuestionsAndVotesReplaced ==
    ASSUME NEW d, Shaped(d), NEW Q, NEW V
    PROVE  [d EXCEPT !.questions = Q, !.votes = V] = With(d, d.users, Q, V)
  <1> DEFINE e == [d EXCEPT !.questions = Q]
  <1>1. [d EXCEPT !.questions = Q, !.votes = V] = [e EXCEPT !.votes = V]
    OBVIOUS
  <1>2. e = With(d, d.users, Q, d.votes)
    BY QuestionsReplaced
  <1> HIDE DEF e
  <1>3. /\ Shaped(e) /\ e.rev = d.rev /\ e.schema = d.schema
        /\ e.users = d.users /\ e.questions = Q
    BY <1>2, WithFields
  <1>4. [e EXCEPT !.votes = V] = With(e, e.users, e.questions, V)
    BY <1>3, VotesReplaced
  <1> QED BY <1>1, <1>3, <1>4 DEF With

\* A question somebody else is the author of.
Reauthored(q, a) == [q EXCEPT !.author = a]

LEMMA NewAuthor ==
    ASSUME NEW q, QuestionRow(q), NEW a
    PROVE  LET p == Reauthored(q, a)
           IN  /\ QuestionRow(p) /\ p.author = a /\ p.id = q.id /\ p.title = q.title
               /\ p.options = q.options /\ p.created = q.created
  <1>1. Reauthored(q, a) = [id |-> q.id, title |-> q.title, author |-> a, options |-> q.options,
                            created |-> q.created]
    BY DEF QuestionRow, Reauthored
  <1> QED BY <1>1 DEF QuestionRow

\* What a user or a question made by a step looks like.
LEMMA RowsMade ==
    ASSUME NEW i, NEW a, NEW n, NEW o, NEW c
    PROVE  /\ UserRow(User(i, a, n)) /\ User(i, a, n).account = a
           /\ QuestionRow(Question(i, n, a, o, c))
  BY DEF UserRow, User, QuestionRow, Question

LEMMA RowsOf ==
    ASSUME NEW d, NEW U, NEW Q, NEW V, \A u \in U : UserRow(u), \A q \in Q : QuestionRow(q)
    PROVE  /\ Database(With(d, U, Q, V)) /\ With(d, U, Q, V).rev = d.rev
           /\ With(d, U, Q, V).schema = d.schema /\ With(d, U, Q, V).users = U
           /\ With(d, U, Q, V).questions = Q /\ With(d, U, Q, V).votes = V
  BY WithFields DEF Database

\* What a revision does to the rows: their shape stays, and so does the schema
\* unless the revision stops.
Moves(d, e) == Database(e) /\ e.rev = d.rev /\ e.schema \in {d.schema, Failed}

\* More users, or more questions, take nothing away.
LEMMA MoreUsers ==
    ASSUME NEW d, Database(d), NEW U, \A u \in U : UserRow(u),
           \A u \in d.users : \E x \in U : x.account = u.account
    PROVE  /\ Moves(d, [d EXCEPT !.users = U])
           /\ KeepsPeople(d, [d EXCEPT !.users = U]) /\ KeepsAuthors(d, [d EXCEPT !.users = U])
  <1> DEFINE e == [d EXCEPT !.users = U]
  <1>1. e = With(d, U, d.questions, d.votes)
    BY UsersReplaced DEF Database
  <1> HIDE DEF e
  <1>2. /\ Database(e) /\ e.rev = d.rev /\ e.schema = d.schema /\ e.users = U
        /\ e.questions = d.questions /\ e.votes = d.votes
    BY <1>1, RowsOf DEF Database
  <1>3. KeepsPeople(d, e)
    BY <1>2 DEF KeepsPeople, PersonsVotes, PersonsAccounts, OwnQuestions, Seeds
  <1> QED BY <1>2, <1>3 DEF Moves, KeepsAuthors, e

LEMMA MoreQuestions ==
    ASSUME NEW d, Database(d), NEW Q, \A q \in Q : QuestionRow(q)
    PROVE  LET e == [d EXCEPT !.questions = d.questions \cup Q]
           IN  Moves(d, e) /\ KeepsPeople(d, e) /\ KeepsAuthors(d, e)
  <1> DEFINE e == [d EXCEPT !.questions = d.questions \cup Q]
  <1>1. e = With(d, d.users, d.questions \cup Q, d.votes)
    BY QuestionsReplaced DEF Database
  <1> HIDE DEF e
  <1>2. /\ Database(e) /\ e.rev = d.rev /\ e.schema = d.schema /\ e.users = d.users
        /\ e.questions = d.questions \cup Q /\ e.votes = d.votes
    BY <1>1, RowsOf DEF Database
  <1>3. KeepsPeople(d, e)
    BY <1>2 DEF KeepsPeople, PersonsVotes, PersonsAccounts, OwnQuestions, Seeds
  <1> QED BY <1>2, <1>3 DEF Moves, KeepsAuthors, e

\* Questions Q in which some of d's have another author, none of them a person's.
LEMMA NewAuthors ==
    ASSUME NEW d, Database(d), NEW Q,
           \A p \in Q : \E q \in d.questions : p = q \/ \E x : p = Reauthored(q, x),
           \A q \in d.questions :
               q \in Q \/ (q.author \notin People /\ \E x : Reauthored(q, x) \in Q)
    PROVE  LET e == [d EXCEPT !.questions = Q]
           IN  Moves(d, e) /\ KeepsPeople(d, e) /\ KeepsAuthors(d, e) /\ SeedsFrom(d, e)
  <1> DEFINE e == [d EXCEPT !.questions = Q]
  <1>1. e = With(d, d.users, Q, d.votes)
    BY QuestionsReplaced DEF Database
  <1>2. \A q \in d.questions : QuestionRow(q)
    BY DEF Database
  <1>3. \A q \in Q : QuestionRow(q)
    BY <1>2, NewAuthor
  <1> HIDE DEF e
  <1>4. /\ Database(e) /\ e.rev = d.rev /\ e.schema = d.schema /\ e.users = d.users
        /\ e.questions = Q /\ e.votes = d.votes
    BY <1>1, <1>3, RowsOf DEF Database
  <1>5. ASSUME NEW q \in d.questions, q.created # "seed"
        PROVE  \E p \in e.questions : /\ p.created # "seed" /\ p.id = q.id
                                      /\ p.title = q.title /\ p.options = q.options
    BY <1>2, <1>4, <1>5, NewAuthor
  <1>6. OwnQuestions(d) \subseteq OwnQuestions(e)
    BY <1>5, OwnKept
  <1>7. KeepsAuthors(d, e)
    BY <1>4 DEF KeepsAuthors
  <1>8. SeedsFrom(d, e)
    <2>1. ASSUME NEW p \in Q, p.created = "seed"
          PROVE  \E q \in d.questions : q.created = "seed" /\ q.id = p.id
      BY <1>2, <2>1, NewAuthor
    <2> QED BY <1>4, <2>1 DEF SeedsFrom, Seeds
  <1> QED BY <1>4, <1>6, <1>7, <1>8 DEF Moves, KeepsPeople, PersonsVotes, PersonsAccounts, e

LEMMA StoppedMoves ==
    ASSUME NEW d, Database(d)
    PROVE  Moves(d, Stopped(d)) /\ KeepsPeople(d, Stopped(d)) /\ KeepsAuthors(d, Stopped(d))
  <1> DEFINE e == Stopped(d)
  <1>1. /\ Database(e) /\ e.rev = d.rev /\ e.schema = Failed
        /\ e.users = d.users /\ e.questions = d.questions /\ e.votes = d.votes
    BY StoppedRows
  <1> HIDE DEF e
  <1>2. KeepsPeople(d, e) /\ KeepsAuthors(d, e)
    BY <1>1, KeepsItself, RowsAlone
  <1> QED BY <1>1, <1>2 DEF Moves, e

\* The rows an upgrade leaves: from the four options on, those of people stay.
LEMMA UpMoves ==
    ASSUME NEW d, Database(d), NEW r \in 1..20
    PROVE  /\ Moves(d, RowsUp(r, d))
           /\ r > FourOptions => KeepsPeople(d, RowsUp(r, d)) /\ KeepsAuthors(d, RowsUp(r, d))
  <1> USE DEF FirstQuestions, ReasonsRequired, FourOptions, SeedCatalogue, UniqueNicknames, SeedUsers,
              SeedAuthors
  <1>1. CASE r = FirstQuestions
    <2> DEFINE Q == {Question(i, SetToSeq(FirstTitles)[i], Nobody, "AB", today) :
                     i \in DOMAIN SetToSeq(FirstTitles)}
    <2>1. RowsUp(r, d) = [d EXCEPT !.questions = Q]
      BY <1>1 DEF RowsUp, SeedFirstQuestions
    <2>2. \A q \in Q : QuestionRow(q)
      BY RowsMade
    <2> HIDE DEF Q
    <2>3. RowsUp(r, d) = With(d, d.users, Q, d.votes)
      BY <2>1, QuestionsReplaced DEF Database
    <2> QED BY <1>1, <2>2, <2>3, RowsOf DEF Moves, Database
  <1>2. CASE r = ReasonsRequired
    <2> DEFINE V == {v \in d.votes : v.reason}
    <2>1. RowsUp(r, d) = [d EXCEPT !.votes = V]
      BY <1>2 DEF RowsUp, DropUnreasonedVotes
    <2> HIDE DEF V
    <2>3. RowsUp(r, d) = With(d, d.users, d.questions, V)
      BY <2>1, VotesReplaced DEF Database
    <2> QED BY <1>2, <2>3, RowsOf DEF Moves, Database
  <1>3. CASE r = SeedCatalogue
    <2> DEFINE missing == Quota - Cardinality(d.questions)
               available == {i \in DOMAIN Catalogue : \A q \in d.questions : q.title # Catalogue[i]}
               base == NextId(d.questions) - 1
               Q == {Question(base + Place(i, available), Catalogue[i], Nobody, "AB", "seed") :
                        i \in {j \in available : Place(j, available) <= missing}}
    <2>1. RowsUp(r, d) = TopUpCatalogue(d)
      BY <1>3 DEF RowsUp
    <2>2. TopUpCatalogue(d) = [d EXCEPT !.questions = d.questions \cup Q]
      BY DEF TopUpCatalogue
    <2> HIDE DEF missing, available, base
    <2>3. \A q \in Q : QuestionRow(q)
      BY RowsMade
    <2> HIDE DEF Q
    <2> QED BY <2>1, <2>2, <2>3, MoreQuestions
  <1>4. CASE r = UniqueNicknames
    <2> DEFINE U == {IF \E v \in d.users : v.nick = u.nick /\ v.id < u.id
                     THEN [u EXCEPT !.nick = Fallback(u)] ELSE u : u \in d.users}
    <2>1. RowsUp(r, d) = [d EXCEPT !.users = U]
      BY <1>4 DEF RowsUp, RenameDuplicates
    <2>2. ASSUME NEW u \in d.users
          PROVE  /\ UserRow(u) /\ UserRow([u EXCEPT !.nick = Fallback(u)])
                 /\ [u EXCEPT !.nick = Fallback(u)].account = u.account
      <3>1. UserRow(u)
        BY DEF Database
      <3>2. [u EXCEPT !.nick = Fallback(u)] = [id |-> u.id, account |-> u.account, nick |-> Fallback(u)]
        BY <3>1 DEF UserRow
      <3> QED BY <3>1, <3>2 DEF UserRow
    <2>3. \A u \in U : UserRow(u)
      BY <2>2
    <2>4. \A u \in d.users : \E x \in U : x.account = u.account
      BY <2>2
    <2> HIDE DEF U
    <2> QED BY <2>1, <2>3, <2>4, MoreUsers
  <1>5. CASE r = SeedUsers
    <2>1. RowsUp(r, d) = AddTestUsers(d)
      BY <1>5 DEF RowsUp
    <2>2. CASE \E u \in d.users : u.account \in Tests \/ \E t \in Tests : u.nick = Plain(t)
      <3>1. AddTestUsers(d) = Stopped(d)
        BY <2>2 DEF AddTestUsers
      <3> QED BY <2>1, <3>1, StoppedMoves
    <2>3. CASE ~\E u \in d.users : u.account \in Tests \/ \E t \in Tests : u.nick = Plain(t)
      <3> DEFINE New == {User(NextId(d.users) + i - 1, TestUsers[i], TestUsers[i]) : i \in DOMAIN TestUsers}
                 U == d.users \cup New
      <3>1. AddTestUsers(d) = [d EXCEPT !.users = U]
        BY <2>3 DEF AddTestUsers
      <3>2. \A u \in U : UserRow(u)
        BY RowsMade DEF Database
      <3>3. \A u \in d.users : \E x \in U : x.account = u.account
        OBVIOUS
      <3> HIDE DEF U
      <3> QED BY <2>1, <3>1, <3>2, <3>3, MoreUsers
    <2> QED BY <2>2, <2>3
  <1>6. CASE r = SeedAuthors
    <2> DEFINE orphans == {q \in d.questions : q.author = Nobody /\ ByCutoff(q)}
               users == TestUsersIn(d)
               Turn(q) == CHOOSE i \in users :
                   Place(i, users) = (Cardinality({p \in orphans : p.id < q.id}) % Cardinality(users)) + 1
               a == [q \in orphans |-> TestUsers[Turn(q)]]
               S == orphans
    <2>1. RowsUp(r, d) = AssignAuthors(d)
      BY <1>6 DEF RowsUp
    <2>2. CASE users = {}
      <3>1. AssignAuthors(d) = Stopped(d)
        BY <2>2 DEF AssignAuthors
      <3> QED BY <2>1, <3>1, StoppedMoves
    <2>3. CASE users # {}
      <3> DEFINE Q == {IF q \in S THEN Reauthored(q, a[q]) ELSE q : q \in d.questions}
                 e == [d EXCEPT !.questions = Q]
      <3>1. AssignAuthors(d) = e
        BY <2>3 DEF AssignAuthors, Reauthored
      <3>2. \A q \in S : q.author \notin People
        BY AccountsAssumption DEF Accounts
      <3>3. ASSUME NEW p \in Q
            PROVE  \E q \in d.questions : p = q \/ \E x : p = Reauthored(q, x)
        <4> HIDE DEF S, a
        <4>1. PICK q \in d.questions : p = IF q \in S THEN Reauthored(q, a[q]) ELSE q
          OBVIOUS
        <4> QED BY <4>1
      <3>4. \A q \in d.questions :
               q \in Q \/ (q.author \notin People /\ \E x : Reauthored(q, x) \in Q)
        <4> HIDE DEF S, a
        <4> QED BY <3>2
      <3> HIDE DEF Q
      <3>5. Moves(d, e) /\ KeepsPeople(d, e) /\ KeepsAuthors(d, e)
        BY <3>3, <3>4, NewAuthors
      <3> HIDE DEF e
      <3> QED BY <2>1, <3>1, <3>5
    <2> QED BY <2>2, <2>3
  <1>7. CASE r \notin {FirstQuestions, ReasonsRequired, SeedCatalogue, UniqueNicknames, SeedUsers, SeedAuthors}
    <2>1. RowsUp(r, d) = d
      BY <1>7 DEF RowsUp
    <2> QED BY <2>1, KeepsItself DEF Moves
  <1> QED BY <1>1, <1>2, <1>3, <1>4, <1>5, <1>6, <1>7
\* Users who are deleted take their votes along, and leave their questions.
LEMMA UsersGone ==
    ASSUME NEW d, Database(d), NEW gone
    PROVE  LET e == WithoutUsers(d, gone)
           IN  /\ Moves(d, e) /\ e.schema = d.schema
               /\ gone \cap (People \cup Guests) = {} =>
                     KeepsPeople(d, e) /\ KeepsAuthors(d, e) /\ SeedsFrom(d, e)
  <1> DEFINE U == {u \in d.users : u.account \notin gone}
             V == {v \in d.votes : v.by \notin gone}
             Q == {IF q.author \in gone THEN Reauthored(q, Nobody) ELSE q : q \in d.questions}
             c == [d EXCEPT !.questions = Q]
             e == WithoutUsers(d, gone)
  <1>1. e = [d EXCEPT !.users = U, !.votes = V, !.questions = Q]
    BY DEF WithoutUsers, Reauthored
  <1>2. ASSUME NEW p \in Q
        PROVE  \E q \in d.questions : p = q \/ \E x : p = Reauthored(q, x)
    <2>1. PICK q \in d.questions : p = IF q.author \in gone THEN Reauthored(q, Nobody) ELSE q
      OBVIOUS
    <2> QED BY <2>1
  <1>3. \A q \in Q : QuestionRow(q)
    BY <1>2, NewAuthor DEF Database
  <1>4. ASSUME gone \cap (People \cup Guests) = {}
        PROVE  KeepsAuthors(d, c) /\ KeepsPeople(d, c) /\ SeedsFrom(d, c)
    <2>1. \A q \in d.questions :
               q \in Q \/ (q.author \notin People /\ \E x : Reauthored(q, x) \in Q)
      BY <1>4
    <2> HIDE DEF Q
    <2> QED BY <1>2, <2>1, NewAuthors
  <1>5. c = With(d, d.users, Q, d.votes)
    <2> HIDE DEF Q
    <2> QED BY QuestionsReplaced DEF Database
  <1> HIDE DEF U, V, Q, c, e
  <1>6. e = With(d, U, Q, V)
    <2>1. Shaped(d)
      BY DEF Database
    <2> DEFINE x == [d EXCEPT !.users = U]
               y == [x EXCEPT !.votes = V]
    <2>2. e = [y EXCEPT !.questions = Q]
      BY <1>1
    <2> HIDE DEF x, y
    <2>3. x = With(d, U, d.questions, d.votes)
      BY <2>1, UsersReplaced DEF x
    <2>4. /\ Shaped(x) /\ x.rev = d.rev /\ x.schema = d.schema
          /\ x.users = U /\ x.questions = d.questions
      BY <2>3, WithFields
    <2>5. y = With(x, x.users, x.questions, V)
      BY <2>4, VotesReplaced DEF y
    <2>6. /\ Shaped(y) /\ y.rev = d.rev /\ y.schema = d.schema /\ y.users = U /\ y.votes = V
      BY <2>4, <2>5, WithFields
    <2>7. e = With(y, y.users, Q, y.votes)
      BY <2>2, <2>6, QuestionsReplaced
    <2> QED BY <2>6, <2>7 DEF With
  <1>7. \A u \in U : UserRow(u)
    BY DEF U, Database
  <1>8. /\ Database(e) /\ e.rev = d.rev /\ e.schema = d.schema
        /\ e.users = U /\ e.questions = Q /\ e.votes = V /\ c.questions = Q
    BY <1>3, <1>5, <1>6, <1>7, RowsOf, WithFields
  <1>9. ASSUME gone \cap (People \cup Guests) = {}
        PROVE  KeepsPeople(d, e) /\ KeepsAuthors(d, e) /\ SeedsFrom(d, e)
    <2>1. OwnQuestions(d) \subseteq OwnQuestions(e) /\ KeepsAuthors(d, e) /\ SeedsFrom(d, e)
      BY <1>4, <1>8, <1>9 DEF KeepsPeople, KeepsAuthors, SeedsFrom, OwnQuestions, Seeds
    <2>2. PersonsVotes(d) \subseteq PersonsVotes(e)
      BY <1>8, <1>9 DEF PersonsVotes, V
    <2>3. PersonsAccounts(d) \subseteq PersonsAccounts(e)
      BY <1>8, <1>9 DEF PersonsAccounts, U
    <2> QED BY <2>1, <2>2, <2>3 DEF KeepsPeople
  <1> QED BY <1>8, <1>9 DEF Moves, e

\* The rows a downgrade leaves: down to the four options those of people stay,
\* but votes on the catalogue that is removed; down to the authors their
\* questions stay as they are.
LEMMA DownMoves ==
    ASSUME NEW d, Database(d), NEW r \in 1..20
    PROVE  LET e == RowsDown(r, d)
           IN  /\ Moves(d, e) /\ e.schema = d.schema
               /\ r > FourOptions => KeepsOthers(d, e) /\ SeedsFrom(d, e)
               /\ r > FourOptions /\ r # SeedCatalogue => KeepsPeople(d, e)
               /\ r > Authors => KeepsAuthors(d, e)
  <1> USE DEF FirstQuestions, ReasonsRequired, FourOptions, Authors, SeedCatalogue, UniqueNicknames,
              SeedUsers, SeedAuthors
  <1>1. CASE r = FirstQuestions
    <2>1. RowsDown(r, d) = [d EXCEPT !.questions = {}, !.votes = {}]
      BY <1>1 DEF RowsDown, DropQuestions
    <2>2. RowsDown(r, d) = With(d, d.users, {}, {})
      BY <2>1, QuestionsAndVotesReplaced DEF Database
    <2> QED BY <1>1, <2>2, RowsOf DEF Moves, Database
  <1>2. CASE r = FourOptions
    <2> DEFINE V == {v \in d.votes : v.option \notin {"C", "D"}}
               Q == {[q EXCEPT !.options = "AB"] : q \in d.questions}
    <2>1. RowsDown(r, d) = [d EXCEPT !.votes = V, !.questions = Q]
      BY <1>2 DEF RowsDown, ForgetExtraOptions
    <2>2. ASSUME NEW p \in Q
          PROVE  QuestionRow(p)
      <3>1. PICK q \in d.questions : p = [q EXCEPT !.options = "AB"]
        OBVIOUS
      <3>2. p = [id |-> q.id, title |-> q.title, author |-> q.author, options |-> "AB",
                 created |-> q.created]
        BY <3>1 DEF Database, QuestionRow
      <3> QED BY <3>2 DEF QuestionRow
    <2> HIDE DEF V, Q
    <2>3. RowsDown(r, d) = [d EXCEPT !.questions = Q, !.votes = V]
      BY <2>1
    <2>4. RowsDown(r, d) = With(d, d.users, Q, V)
      BY <2>3, QuestionsAndVotesReplaced DEF Database
    <2> QED BY <1>2, <2>2, <2>4, RowsOf DEF Moves, Database
  <1>3. CASE r = Authors
    <2> DEFINE Q == {Reauthored(q, Nobody) : q \in d.questions}
               e == [d EXCEPT !.questions = Q]
    <2>1. RowsDown(r, d) = e
      BY <1>3 DEF RowsDown, ForgetAuthors, Reauthored
    <2>2. \A q \in d.questions : QuestionRow(q)
      BY DEF Database
    <2>3. /\ \A p \in Q : QuestionRow(p)
          /\ \A q \in d.questions : Reauthored(q, Nobody) \in Q
      BY <2>2, NewAuthor
    <2>4. e = With(d, d.users, Q, d.votes)
      <3> HIDE DEF Q
      <3> QED BY QuestionsReplaced DEF Database
    <2> HIDE DEF Q, e
    <2>5. /\ Database(e) /\ e.rev = d.rev /\ e.schema = d.schema /\ e.users = d.users
          /\ e.questions = Q /\ e.votes = d.votes
      BY <2>3, <2>4, RowsOf DEF Database
    <2>6. ASSUME NEW q \in d.questions, q.created # "seed"
          PROVE  \E p \in e.questions : /\ p.created # "seed" /\ p.id = q.id
                                        /\ p.title = q.title /\ p.options = q.options
      BY <2>2, <2>3, <2>5, <2>6, NewAuthor
    <2>7. OwnQuestions(d) \subseteq OwnQuestions(e)
      BY <2>6, OwnKept
    <2>8. SeedsFrom(d, e)
      <3>1. ASSUME NEW p \in e.questions, p.created = "seed"
            PROVE  \E q \in d.questions : q.created = "seed" /\ q.id = p.id
        BY <2>2, <2>5, <3>1, NewAuthor DEF Q
      <3> QED BY <3>1 DEF SeedsFrom, Seeds
    <2>9. KeepsPeople(d, e)
      BY <2>5, <2>7 DEF KeepsPeople, PersonsVotes, PersonsAccounts
    <2> QED BY <1>3, <2>1, <2>5, <2>8, <2>9, AllAreMost DEF Moves
  <1>4. CASE r = SeedCatalogue
    <2> DEFINE gone == {q \in Seeds(d) : q.author = Nobody}
               Q == d.questions \ gone
               V == d.votes \ VotesOn(d, gone)
               e == [d EXCEPT !.questions = Q, !.votes = V]
    <2>1. RowsDown(r, d) = RemoveCatalogue(d)
      BY <1>4 DEF RowsDown
    <2>2. RemoveCatalogue(d) = e
      BY DEF RemoveCatalogue
    <2>3. Q \subseteq d.questions /\ \A q \in d.questions :
              q.created # "seed" \/ q.author \in People => q \in Q
      BY AccountsAssumption DEF Seeds, Accounts
    <2>4. \A v \in d.votes : v \in V \/ v \in VotesOn(d, Seeds(d))
      BY DEF VotesOn
    <2>5. e = With(d, d.users, Q, V)
      <3> HIDE DEF Q, V
      <3> QED BY QuestionsAndVotesReplaced DEF Database
    <2> HIDE DEF Q, V, e
    <2>6. \A q \in Q : QuestionRow(q)
      BY <2>3 DEF Database
    <2>7. /\ Database(e) /\ e.rev = d.rev /\ e.schema = d.schema /\ e.users = d.users
          /\ e.questions = Q /\ e.votes = V
      BY <2>5, <2>6, RowsOf DEF Database
    <2>8. KeepsOthers(d, e) /\ KeepsAuthors(d, e)
      BY <2>3, <2>4, <2>7 DEF KeepsOthers, KeepsAuthors, PersonsVotes, PersonsAccounts, OwnQuestions, Seeds
    <2>9. SeedsFrom(d, e)
      BY <2>3, <2>7 DEF SeedsFrom, Seeds
    <2> QED BY <1>4, <2>1, <2>2, <2>7, <2>8, <2>9 DEF Moves
  <1>5. CASE r = SeedUsers
    <2>1. RowsDown(r, d) = WithoutUsers(d, Tests)
      BY <1>5 DEF RowsDown, RemoveTestUsers
    <2>2. Tests \cap (People \cup Guests) = {}
      BY AccountsAssumption DEF Accounts
    <2> QED BY <2>1, <2>2, UsersGone, AllAreMost
  <1>6. CASE r = SeedAuthors
    <2> DEFINE Q == {IF ByCutoff(q) /\ q.author \in Tests THEN Reauthored(q, Nobody) ELSE q : q \in d.questions}
               e == [d EXCEPT !.questions = Q]
    <2>1. RowsDown(r, d) = e
      BY <1>6 DEF RowsDown, UnassignAuthors, Reauthored
    <2>2. ASSUME NEW p \in Q
          PROVE  \E q \in d.questions : p = q \/ \E x : p = Reauthored(q, x)
      <3>1. PICK q \in d.questions :
                p = IF ByCutoff(q) /\ q.author \in Tests THEN Reauthored(q, Nobody) ELSE q
        OBVIOUS
      <3> QED BY <3>1
    <2>3. \A q \in d.questions :
               q \in Q \/ (q.author \notin People /\ \E x : Reauthored(q, x) \in Q)
      <3>1. \A q \in d.questions : q.author \in Tests => q.author \notin People
        BY AccountsAssumption
      <3> QED BY <3>1
    <2> HIDE DEF Q
    <2>4. Moves(d, e) /\ KeepsPeople(d, e) /\ KeepsAuthors(d, e) /\ SeedsFrom(d, e)
      BY <2>2, <2>3, NewAuthors
    <2>5. e.schema = d.schema
      BY QuestionsReplaced, WithFields DEF Database
    <2> HIDE DEF e
    <2> QED BY <2>1, <2>4, <2>5, AllAreMost
  <1>7. CASE r \notin {FirstQuestions, FourOptions, Authors, SeedCatalogue, SeedUsers, SeedAuthors}
    <2>1. RowsDown(r, d) = d
      BY <1>7 DEF RowsDown
    <2> QED BY <2>1, KeepsItself, AllAreMost DEF Moves
  <1> QED BY <1>1, <1>2, <1>3, <1>4, <1>5, <1>6, <1>7

\* A refused command stays refused.
LEMMA FailedStays == ASSUME NEW ops, Len(ops) \in Nat PROVE After(Failed, ops) = Failed
  <1> DEFINE g == Run(Failed, ops)
             P == {k \in 0..Len(ops) : g[k] = Failed}
  <1>1. g[0] = Failed /\ \A i \in 1..Len(ops) : g[i] = Apply(g[i - 1], ops[i])
    BY RunExists DEF Runs
  <1>2. ASSUME NEW k \in 1..Len(ops), k - 1 \in P
        PROVE  k \in P
    <2>1. g[k] = Apply(g[k - 1], ops[k]) /\ g[k - 1] = Failed
      BY <1>1, <1>2
    <2> HIDE DEF g
    <2>2. g[k] = Failed
      BY <2>1 DEF Apply
    <2> QED BY <2>2
  <1>3. Len(ops) \in P
    <2>1. 0 \in P
      BY <1>1
    <2> HIDE DEF P
    <2>2. P \in SUBSET (0..Len(ops))
      BY DEF P
    <2>3. P = 0..Len(ops)
      BY <1>2, <2>1, <2>2, UpTo
    <2> QED BY <2>3
  <1> QED BY <1>3, AfterIsRun

LEMMA StatementsCounted ==
    ASSUME NEW r \in 1..20 PROVE Len(Revisions[r].up) \in Nat /\ Len(Revisions[r].down) \in Nat
  <1>1. CASE r \in 1..11
    <2>1. r \in {1, 2, 3, 4, 5, 6, 7, 8, 9, 10, 11}
      BY <1>1
    <2>2. /\ Len(R_a395b8e042c1.up) \in Nat /\ Len(R_a395b8e042c1.down) \in Nat
          /\ Len(R_b32f1a2c1781.up) \in Nat /\ Len(R_b32f1a2c1781.down) \in Nat
          /\ Len(R_1dd57a123049.up) \in Nat /\ Len(R_1dd57a123049.down) \in Nat
      BY DEF R_a395b8e042c1, R_b32f1a2c1781, R_1dd57a123049
    <2>3. /\ Len(R_503b754c8b0b.up) \in Nat /\ Len(R_503b754c8b0b.down) \in Nat
          /\ Len(R_7f3a9c2e5b1d.up) \in Nat /\ Len(R_7f3a9c2e5b1d.down) \in Nat
          /\ Len(R_2a6d8e1f4c93.up) \in Nat /\ Len(R_2a6d8e1f4c93.down) \in Nat
          /\ Len(R_7968d1b7732e.up) \in Nat /\ Len(R_7968d1b7732e.down) \in Nat
      BY DEF R_503b754c8b0b, R_7f3a9c2e5b1d, R_2a6d8e1f4c93, R_7968d1b7732e
    <2>4. Len(R_698d4567056f.up) \in Nat /\ Len(R_698d4567056f.down) \in Nat
      BY DEF R_698d4567056f
    <2>5. Len(R_9830cbc3c7c6.up) \in Nat /\ Len(R_9830cbc3c7c6.down) \in Nat
      BY DEF R_9830cbc3c7c6
    <2>6. Len(R_12badf3b9d7e.up) \in Nat /\ Len(R_12badf3b9d7e.down) \in Nat
      BY DEF R_12badf3b9d7e
    <2>7. Len(R_e0d9472e53f0.up) \in Nat /\ Len(R_e0d9472e53f0.down) \in Nat
      BY DEF R_e0d9472e53f0
    <2> QED BY <2>1, <2>2, <2>3, <2>4, <2>5, <2>6, <2>7, EarlierRevisions
  <1>2. CASE r \in 12..20
    <2>1. r \in {12, 13, 14, 15, 16, 17, 18, 19, 20}
      BY <1>2
    <2>2. /\ Len(R_175b07ee1691.up) \in Nat /\ Len(R_175b07ee1691.down) \in Nat
          /\ Len(R_0bee734e8685.up) \in Nat /\ Len(R_0bee734e8685.down) \in Nat
          /\ Len(RowsOnly.up) \in Nat /\ Len(RowsOnly.down) \in Nat
      BY DEF R_175b07ee1691, R_0bee734e8685, RowsOnly
    <2>3. /\ Len(R_4528840cd462.up) \in Nat /\ Len(R_4528840cd462.down) \in Nat
          /\ Len(R_dae844e0f9d2.up) \in Nat /\ Len(R_dae844e0f9d2.down) \in Nat
      BY DEF R_4528840cd462, R_dae844e0f9d2
    <2>4. /\ Len(R_1c159ec384dd.up) \in Nat /\ Len(R_1c159ec384dd.down) \in Nat
          /\ Len(R_87af8eca06fd.up) \in Nat /\ Len(R_87af8eca06fd.down) \in Nat
      BY DEF R_1c159ec384dd, R_87af8eca06fd
    <2> QED BY <2>1, <2>2, <2>3, <2>4, LaterRevisions
  <1> QED BY <1>1, <1>2

LEMMA VersionedStands == ASSUME NEW d, Versioned(d) PROVE d.schema # Failed
  BY AllFit, ModelsFit DEF Versioned

----------------------------------------------------------------------------
\* A database after one more revision, or one less, unless it is refused.

Turned(d, r, s) == [[d EXCEPT !.rev = r] EXCEPT !.schema = s]

LEMMA RowsTurned ==
    ASSUME NEW d, Database(d), NEW r, NEW s
    PROVE  LET e == Turned(d, r, s)
           IN  /\ Database(e) /\ e.rev = r /\ e.schema = s
               /\ e.users = d.users /\ e.questions = d.questions /\ e.votes = d.votes
  <1> DEFINE x == [d EXCEPT !.rev = r]
  <1>1. x = [rev |-> r, schema |-> d.schema, users |-> d.users, questions |-> d.questions,
             votes |-> d.votes]
    BY DEF Database, Shaped
  <1>2. Turned(d, r, s) = [x EXCEPT !.schema = s]
    BY DEF Turned
  <1> HIDE DEF x
  <1>3. [x EXCEPT !.schema = s]
        = [rev |-> r, schema |-> s, users |-> d.users, questions |-> d.questions, votes |-> d.votes]
    BY <1>1
  <1> QED BY <1>2, <1>3 DEF Database, Shaped

\* The revisions whose rows stop an upgrade, and why; no rows stop a downgrade.
StopsUp(r, d) ==
    \/ r = SeedUsers /\ \E u \in d.users : u.account \in Tests \/ u.nick.name \in Tests
    \/ r = SeedAuthors /\ TestUsersIn(d) = {}

LEMMA StopsUpOnly ==
    ASSUME NEW d, Database(d), d.schema # Failed, NEW r \in 1..20, RowsUp(r, d).schema = Failed
    PROVE  StopsUp(r, d)
  <1> USE DEF FirstQuestions, ReasonsRequired, FourOptions, SeedCatalogue, UniqueNicknames, SeedUsers,
              SeedAuthors
  <1>1. /\ \A U : [d EXCEPT !.users = U].schema = d.schema
        /\ \A Q : [d EXCEPT !.questions = Q].schema = d.schema
        /\ \A V : [d EXCEPT !.votes = V].schema = d.schema
    <2>1. Shaped(d)
      BY DEF Database
    <2>2. ASSUME NEW X PROVE [d EXCEPT !.users = X].schema = d.schema
      BY <2>1, UsersReplaced, WithFields
    <2>3. ASSUME NEW X PROVE [d EXCEPT !.questions = X].schema = d.schema
      BY <2>1, QuestionsReplaced, WithFields
    <2>4. ASSUME NEW X PROVE [d EXCEPT !.votes = X].schema = d.schema
      BY <2>1, VotesReplaced, WithFields
    <2> QED BY <2>2, <2>3, <2>4
  <1>2. r # FirstQuestions
    BY <1>1 DEF RowsUp, SeedFirstQuestions
  <1>3. r # ReasonsRequired
    BY <1>1 DEF RowsUp, DropUnreasonedVotes
  <1>4. r # SeedCatalogue
    BY <1>1 DEF RowsUp, TopUpCatalogue
  <1>5. r # UniqueNicknames
    BY <1>1 DEF RowsUp, RenameDuplicates
  <1>6. CASE r = SeedUsers
    <2>1. RowsUp(r, d) = AddTestUsers(d)
      BY <1>6 DEF RowsUp
    <2>2. PICK u \in d.users : u.account \in Tests \/ \E t \in Tests : u.nick = Plain(t)
      BY <1>1, <2>1 DEF AddTestUsers
    <2>3. \A t : Plain(t).name = t
      BY DEF Plain
    <2> QED BY <1>6, <2>2, <2>3 DEF StopsUp
  <1>7. CASE r = SeedAuthors
    <2>1. RowsUp(r, d) = AssignAuthors(d)
      BY <1>7 DEF RowsUp
    <2>2. TestUsersIn(d) = {}
      BY <1>1, <2>1 DEF AssignAuthors
    <2> QED BY <1>7, <2>2 DEF StopsUp
  <1>8. CASE r \notin {FirstQuestions, ReasonsRequired, SeedCatalogue, UniqueNicknames, SeedUsers, SeedAuthors}
    BY <1>8 DEF RowsUp
  <1> QED BY <1>2, <1>3, <1>4, <1>5, <1>6, <1>7, <1>8

\* One revision up, which only its rows stop, ...
LEMMA UpKeeps ==
    ASSUME NEW d, Database(d), Versioned(d), d.rev \in 0..19
    PROVE  LET e == Upgraded(d)
           IN  /\ e.schema = Failed => StopsUp(d.rev + 1, d)
               /\ e.schema # Failed =>
                    /\ Database(e) /\ Versioned(e) /\ e.rev = d.rev + 1
                    /\ e.rev > FourOptions => KeepsPeople(d, e) /\ KeepsAuthors(d, e)
  <1> DEFINE r == d.rev + 1
             rows == RowsUp(r, d)
             s == After(rows.schema, Revisions[r].up)
             e == Upgraded(d)
  <1>1. e = Turned(rows, r, s)
    BY DEF Upgraded, Turned
  <1>2. /\ Moves(d, rows)
        /\ r > FourOptions => KeepsPeople(d, rows) /\ KeepsAuthors(d, rows)
    <2>1. r \in 1..20
      OBVIOUS
    <2> HIDE DEF r
    <2> QED BY <2>1, UpMoves
  <1>3. r \in 1..20 /\ r = d.rev + 1
    OBVIOUS
  <1>4. rows.schema = Failed => StopsUp(r, d)
    <2> HIDE DEF r
    <2> QED BY <1>3, VersionedStands, StopsUpOnly
  <1> HIDE DEF rows, r, s, e
  <1>5. /\ Database(e) /\ e.rev = r /\ e.schema = s
        /\ e.users = rows.users /\ e.questions = rows.questions /\ e.votes = rows.votes
    BY <1>1, <1>2, RowsTurned DEF Moves
  <1>6. r > FourOptions => KeepsPeople(d, e) /\ KeepsAuthors(d, e)
    BY <1>2, <1>5, RowsAlone
  <1>7. CASE rows.schema = Failed
    <2>1. s = Failed
      BY <1>3, <1>7, StatementsCounted, FailedStays DEF s
    <2> QED BY <1>3, <1>4, <1>5, <1>7, <2>1 DEF e
  <1>8. CASE rows.schema # Failed
    <2>1. e.schema = After(d.schema, Revisions[e.rev].up) /\ e.rev = d.rev + 1 /\ d.rev < 20
      BY <1>2, <1>3, <1>5, <1>8 DEF Moves, s
    <2>2. Versioned(e) /\ e.schema # Failed
      BY <2>1, VersionedUp
    <2> QED BY <1>3, <1>5, <1>6, <2>2 DEF e
  <1> QED BY <1>7, <1>8

\* ... and one down, which the removed services and PostgreSQL's name for the
\* key of nicknames stop as well.
LEMMA DownKeeps ==
    ASSUME NEW d, Database(d), Versioned(d), d.rev \in 1..20
    PROVE  LET e == Downgraded(d)
           IN  /\ e.schema = Failed => d.rev \in {7, 8} \/ (d.rev = 15 /\ d.schema = Model15)
               /\ e.schema # Failed =>
                    /\ Database(e) /\ Versioned(e) /\ e.rev = d.rev - 1
                    /\ e.rev >= FourOptions => KeepsOthers(d, e) /\ SeedsFrom(d, e)
                    /\ e.rev >= FourOptions /\ d.rev # SeedCatalogue => KeepsPeople(d, e)
                    /\ e.rev >= Authors => KeepsAuthors(d, e)
  <1> DEFINE r == d.rev
             rows == RowsDown(r, d)
             s == After(rows.schema, Revisions[r].down)
             e == Downgraded(d)
  <1>1. e = Turned(rows, r - 1, s)
    BY DEF Downgraded, Turned
  <1>2. r \in 1..20
    OBVIOUS
  <1>3. /\ Moves(d, rows) /\ rows.schema = d.schema
        /\ r > FourOptions => KeepsOthers(d, rows) /\ SeedsFrom(d, rows)
        /\ r > FourOptions /\ r # SeedCatalogue => KeepsPeople(d, rows)
        /\ r > Authors => KeepsAuthors(d, rows)
    BY DownMoves
  <1> HIDE DEF rows, s, e
  <1>4. /\ Database(e) /\ e.rev = r - 1 /\ e.schema = s
        /\ e.users = rows.users /\ e.questions = rows.questions /\ e.votes = rows.votes
    BY <1>1, <1>3, RowsTurned DEF Moves
  <1>5. /\ r > FourOptions => KeepsOthers(d, e) /\ SeedsFrom(d, e)
        /\ r > FourOptions /\ r # SeedCatalogue => KeepsPeople(d, e)
        /\ r > Authors => KeepsAuthors(d, e)
    BY <1>3, <1>4, RowsAlone
  <1>6. /\ r - 1 >= FourOptions => r > FourOptions
        /\ r - 1 >= Authors => r > Authors
    BY <1>2 DEF FourOptions, Authors
  <1>7. e.schema = After(d.schema, Revisions[d.rev].down) /\ e.rev = d.rev - 1 /\ d.rev > 0
    BY <1>2, <1>3, <1>4 DEF s
  <1>8. /\ e.schema # Failed => Versioned(e)
        /\ e.schema = Failed => d.rev \in {7, 8} \/ (d.rev = 15 /\ d.schema = Model15)
    BY <1>7, VersionedDown
  <1> HIDE DEF r
  <1> QED BY <1>4, <1>5, <1>6, <1>7, <1>8 DEF e, r

----------------------------------------------------------------------------
\* The inductive invariant: what is committed and what a command sees are
\* databases with a schema of their revision; the command lies between the
\* revision it came from and its goal, and has taken nothing of people's, or
\* with the catalogue nothing but votes on it.
Between(a, b, c) == (a <= b /\ b <= c) \/ (c <= b /\ b <= a)
Taken(d, e) ==
    /\ d.rev >= FourOptions /\ e.rev >= FourOptions =>
          /\ KeepsOthers(d, e)
          /\ KeepsPeople(d, e) \/ (e.rev < SeedCatalogue /\ SeedCatalogue <= d.rev)
          /\ e.rev <= d.rev => SeedsFrom(d, e)
    /\ d.rev >= Authors /\ e.rev >= Authors => KeepsAuthors(d, e)

DatabaseInv == Database(db) /\ Versioned(db) /\ db.rev \in 0..20
CommandInv ==
    work # Idle =>
        /\ Database(work) /\ Versioned(work) /\ work.rev \in 0..20
        /\ Between(db.rev, work.rev, goal) /\ Taken(db, work)
MigrationsInv == DatabaseInv /\ CommandInv /\ goal \in 0..20

LEMMA MigrationsInitInv == MigrationsInit => MigrationsInv
  <1> SUFFICES ASSUME MigrationsInit PROVE MigrationsInv
    OBVIOUS
  <1>1. CommandInv /\ goal \in 0..20
    BY DEF MigrationsInit, CommandInv
  <1>2. CASE db = [rev |-> 0, schema |-> LegacySchema, users |-> {}, questions |-> {}, votes |-> {}]
    <2>1. Shaped(db) /\ db.users = {} /\ db.questions = {} /\ db.rev = 0
      BY <1>2 DEF Shaped
    <2>2. Versioned(db)
      BY <1>2, VersionsAtFirst
    <2> QED BY <1>1, <2>1, <2>2 DEF MigrationsInv, DatabaseInv, Database
  <1>3. CASE db = [rev |-> HeadRevision, schema |-> ModelSchema, users |-> {User(1, Demo, Demo)},
                   questions |-> {Question(i, Catalogue[i], Demo, "AB", today) : i \in DOMAIN Catalogue},
                   votes |-> {}]
    <2> DEFINE Q == {Question(i, Catalogue[i], Demo, "AB", today) : i \in DOMAIN Catalogue}
               U == {User(1, Demo, Demo)}
    <2>1. (\A q \in Q : QuestionRow(q)) /\ (\A u \in U : UserRow(u))
      BY RowsMade
    <2>2. db = [rev |-> HeadRevision, schema |-> ModelSchema, users |-> U, questions |-> Q, votes |-> {}]
      BY <1>3
    <2> HIDE DEF U, Q
    <2>3. Shaped(db) /\ db.users = U /\ db.questions = Q /\ db.rev = 20 /\ db.schema = ModelSchema
      BY <2>2, HeadIsTwenty DEF Shaped
    <2>4. Versioned(db)
      BY <2>3, VersionsAtFirst
    <2> QED BY <1>1, <2>1, <2>3, <2>4 DEF MigrationsInv, DatabaseInv, Database
  <1> QED BY <1>2, <1>3 DEF MigrationsInit

\* What people do between commands.
LEMMA ActKeeps ==
    ASSUME MigrationsInv, NEW e, Act(e), Moves(db, e), e.schema = db.schema
    PROVE  MigrationsInv'
  <1>1. DatabaseInv'
    BY DEF MigrationsInv, DatabaseInv, Act, Moves, Versioned
  <1>2. CommandInv' /\ (goal \in 0..20)'
    BY DEF MigrationsInv, CommandInv, Act
  <1> QED BY <1>1, <1>2 DEF MigrationsInv

LEMMA SignUpKeeps == ASSUME MigrationsInv, NEW account, NEW name, SignUp(account, name) PROVE MigrationsInv'
  <1> DEFINE U == db.users \cup {User(NextId(db.users), account, name)}
             e == [db EXCEPT !.users = U]
  <1>1. Act(e)
    BY DEF SignUp
  <1>2. \A u \in U : UserRow(u)
    BY RowsMade DEF MigrationsInv, DatabaseInv, Database
  <1>3. \A u \in db.users : \E x \in U : x.account = u.account
    OBVIOUS
  <1> HIDE DEF U
  <1>4. Moves(db, e)
    BY <1>2, <1>3, MoreUsers DEF MigrationsInv, DatabaseInv
  <1>5. e.schema = db.schema
    BY UsersReplaced, WithFields DEF MigrationsInv, DatabaseInv, Database
  <1> HIDE DEF e
  <1> QED BY <1>1, <1>4, <1>5, ActKeeps

LEMMA WithdrawKeeps == ASSUME MigrationsInv, NEW account, Withdraw(account) PROVE MigrationsInv'
  <1> DEFINE e == WithoutUsers(db, {account})
  <1>1. Act(e)
    BY DEF Withdraw
  <1>2. Moves(db, e)
    BY UsersGone DEF MigrationsInv, DatabaseInv
  <1>3. e.schema = db.schema
    BY UsersGone DEF MigrationsInv, DatabaseInv
  <1> HIDE DEF e
  <1> QED BY <1>1, <1>2, <1>3, ActKeeps

LEMMA VoteKeeps ==
    ASSUME MigrationsInv, NEW by, NEW id, NEW option, NEW reason, Vote(by, id, option, reason)
    PROVE  MigrationsInv'
  <1> DEFINE V == db.votes \cup {[question |-> id, by |-> by, option |-> option, reason |-> reason]}
             e == [db EXCEPT !.votes = V]
  <1>1. Act(e)
    BY DEF Vote
  <1> HIDE DEF V
  <1>2. e = With(db, db.users, db.questions, V)
    BY VotesReplaced DEF MigrationsInv, DatabaseInv, Database
  <1> HIDE DEF e
  <1>3. Moves(db, e) /\ e.schema = db.schema
    BY <1>2, RowsOf DEF MigrationsInv, DatabaseInv, Database, Moves
  <1> QED BY <1>1, <1>3, ActKeeps

LEMMA PublishKeeps ==
    ASSUME MigrationsInv, NEW author, NEW title, NEW options, Publish(author, title, options)
    PROVE  MigrationsInv'
  <1> DEFINE Q == {Question(NextId(db.questions), title, author, options, today)}
             e == [db EXCEPT !.questions = db.questions \cup Q]
  <1>1. Act(e)
    BY DEF Publish
  <1>2. \A q \in Q : QuestionRow(q)
    BY RowsMade
  <1> HIDE DEF Q
  <1>3. Moves(db, e)
    BY <1>2, MoreQuestions DEF MigrationsInv, DatabaseInv
  <1>4. e.schema = db.schema
    BY QuestionsReplaced, WithFields DEF MigrationsInv, DatabaseInv, Database
  <1> HIDE DEF e
  <1> QED BY <1>1, <1>3, <1>4, ActKeeps

LEMMA MigrationsNextInv ==
    ASSUME MigrationsInv, MigrationsNext
    PROVE  MigrationsInv'
  <1>1. ASSUME NEW target \in Targets, Command(target)
        PROVE  MigrationsInv'
    <2>1. target \in 0..20
      BY TargetsAssumption, HeadIsTwenty
    <2>2. Taken(db, db)
      BY KeepsItself, AllAreMost DEF Taken
    <2> QED BY <1>1, <2>1, <2>2 DEF MigrationsInv, DatabaseInv, CommandInv, Command, Between
  <1>2. ASSUME StepUp
        PROVE  MigrationsInv'
    <2> DEFINE e == Upgraded(work)
    <2>1. /\ work # Idle /\ work.rev < goal /\ e.schema # Failed /\ work' = e
          /\ UNCHANGED <<db, goal>>
      BY <1>2 DEF StepUp
    <2>2. /\ Database(work) /\ Versioned(work) /\ work.rev \in 0..20 /\ db.rev \in 0..20
          /\ goal \in 0..20 /\ Between(db.rev, work.rev, goal) /\ Taken(db, work)
      BY <2>1 DEF MigrationsInv, DatabaseInv, CommandInv
    <2>3. work.rev \in 0..19 /\ db.rev <= work.rev
      BY <2>1, <2>2 DEF Between
    <2>4. /\ Database(e) /\ Versioned(e) /\ e.rev = work.rev + 1
          /\ e.rev > FourOptions => KeepsPeople(work, e) /\ KeepsAuthors(work, e)
      BY <2>1, <2>2, <2>3, UpKeeps
    <2> HIDE DEF e
    <2>5. Between(db.rev, e.rev, goal)
      BY <2>1, <2>2, <2>3, <2>4 DEF Between
    <2>6. Taken(db, e)
      <3>1. CASE db.rev < FourOptions
        BY <2>2, <2>3, <2>4, <3>1 DEF Taken, FourOptions, Authors
      <3>2. CASE db.rev >= FourOptions
        <4>1. work.rev >= FourOptions /\ e.rev > FourOptions
          BY <2>2, <2>3, <2>4, <3>2 DEF FourOptions
        <4>2. db.rev >= Authors => work.rev >= Authors
          BY <2>2, <2>3 DEF Authors
        <4>3. KeepsPeople(db, work)
          BY <2>2, <2>3, <3>2, <4>1 DEF Taken, SeedCatalogue
        <4>4. KeepsPeople(db, e) /\ (db.rev >= Authors => KeepsAuthors(db, e))
          BY <2>2, <2>4, <4>1, <4>2, <4>3, KeepsAlong DEF Taken
        <4>5. ~(e.rev <= db.rev)
          BY <2>2, <2>3, <2>4
        <4> QED BY <4>4, <4>5, AllAreMost DEF Taken
      <3> QED BY <2>2, <3>1, <3>2 DEF FourOptions
    <2>7. e.rev \in 0..20
      BY <2>3, <2>4
    <2>8. CommandInv'
      BY <2>1, <2>4, <2>5, <2>6, <2>7 DEF CommandInv
    <2> QED BY <2>1, <2>8 DEF MigrationsInv, DatabaseInv
  <1>3. ASSUME StepDown
        PROVE  MigrationsInv'
    <2> DEFINE e == Downgraded(work)
    <2>1. /\ work # Idle /\ work.rev > goal /\ e.schema # Failed /\ work' = e
          /\ UNCHANGED <<db, goal>>
      BY <1>3 DEF StepDown
    <2>2. /\ Database(work) /\ Versioned(work) /\ work.rev \in 0..20 /\ db.rev \in 0..20
          /\ goal \in 0..20 /\ Between(db.rev, work.rev, goal) /\ Taken(db, work)
      BY <2>1 DEF MigrationsInv, DatabaseInv, CommandInv
    <2>3. work.rev \in 1..20 /\ work.rev <= db.rev
      BY <2>1, <2>2 DEF Between
    <2>4. /\ Database(e) /\ Versioned(e) /\ e.rev = work.rev - 1
          /\ e.rev >= FourOptions => KeepsOthers(work, e) /\ SeedsFrom(work, e)
          /\ e.rev >= FourOptions /\ work.rev # SeedCatalogue => KeepsPeople(work, e)
          /\ e.rev >= Authors => KeepsAuthors(work, e)
      BY <2>1, <2>2, <2>3, DownKeeps
    <2> HIDE DEF e
    <2>5. Between(db.rev, e.rev, goal)
      BY <2>1, <2>2, <2>3, <2>4 DEF Between
    <2>6. Taken(db, e)
      <3>1. /\ e.rev >= FourOptions => work.rev >= FourOptions
            /\ e.rev >= Authors => work.rev >= Authors /\ e.rev >= FourOptions
        BY <2>3, <2>4 DEF FourOptions, Authors
      <3>2. db.rev >= Authors /\ e.rev >= Authors => KeepsAuthors(db, e)
        BY <2>2, <2>4, <3>1, KeepsAlong DEF Taken
      <3>3. ASSUME db.rev >= FourOptions, e.rev >= FourOptions
            PROVE  /\ KeepsOthers(db, e) /\ SeedsFrom(db, e)
                   /\ KeepsPeople(db, e) \/ (e.rev < SeedCatalogue /\ SeedCatalogue <= db.rev)
        <4>1. /\ KeepsOthers(db, work) /\ SeedsFrom(db, work)
              /\ KeepsPeople(db, work) \/ (work.rev < SeedCatalogue /\ SeedCatalogue <= db.rev)
          BY <2>2, <2>3, <3>1, <3>3 DEF Taken
        <4>2. KeepsOthers(db, e) /\ SeedsFrom(db, e)
          BY <2>4, <3>3, <4>1, KeepsAlong
        <4>3. CASE KeepsPeople(db, work) /\ work.rev # SeedCatalogue
          BY <2>4, <3>3, <4>2, <4>3, KeepsAlong
        <4>4. CASE work.rev = SeedCatalogue
          BY <2>2, <2>3, <2>4, <4>2, <4>4 DEF SeedCatalogue
        <4>5. CASE work.rev < SeedCatalogue /\ SeedCatalogue <= db.rev
          BY <2>2, <2>3, <2>4, <4>2, <4>5 DEF SeedCatalogue
        <4> QED BY <4>1, <4>3, <4>4, <4>5
      <3> QED BY <3>2, <3>3 DEF Taken
    <2>7. e.rev \in 0..20
      BY <2>3, <2>4
    <2>8. CommandInv'
      BY <2>1, <2>4, <2>5, <2>6, <2>7 DEF CommandInv
    <2> QED BY <2>1, <2>8 DEF MigrationsInv, DatabaseInv
  <1>4. ASSUME Commit
        PROVE  MigrationsInv'
    BY <1>4 DEF MigrationsInv, DatabaseInv, CommandInv, Commit
  <1>5. ASSUME Rollback
        PROVE  MigrationsInv'
    BY <1>5 DEF MigrationsInv, DatabaseInv, CommandInv, Rollback
  <1>6. ASSUME DayPasses \/ Finished
        PROVE  MigrationsInv'
    BY <1>6 DEF MigrationsInv, DatabaseInv, CommandInv, DayPasses, Finished, migrationVars
  <1> QED BY <1>1, <1>2, <1>3, <1>4, <1>5, <1>6, SignUpKeeps, WithdrawKeeps, VoteKeeps, PublishKeeps
          DEF MigrationsNext

\* However far up and down the commands go, one that begins and ends where
\* votes have reasons and four options loses no account of a person and no
\* question of theirs, whatever it did in between, and of the votes of people
\* and guests none but those on the catalogue, if it goes below its revision.
THEOREM PeopleStay == MigrationsSpec => PeopleKept
  <1>1. MigrationsInv /\ [MigrationsNext]_migrationVars => MigrationsInv'
    <2> SUFFICES ASSUME MigrationsInv, [MigrationsNext]_migrationVars PROVE MigrationsInv'
      OBVIOUS
    <2>1. CASE UNCHANGED migrationVars
      BY <2>1 DEF MigrationsInv, DatabaseInv, CommandInv, migrationVars
    <2> QED BY <2>1, MigrationsNextInv
  <1> DEFINE StaysKept ==
        Commit /\ db.rev >= FourOptions /\ db'.rev >= FourOptions =>
          /\ \A v \in PersonsVotes(db) \ PersonsVotes(db') :
                /\ db'.rev < SeedCatalogue /\ SeedCatalogue <= db.rev
                /\ v \in VotesOn(db, Seeds(db))
          /\ PersonsAccounts(db) \subseteq PersonsAccounts(db')
          /\ OwnQuestions(db) \subseteq OwnQuestions(db')
          /\ db.rev >= Authors /\ db'.rev >= Authors =>
                \A q \in db.questions : q.author \in People => q \in db'.questions
  <1>2. MigrationsInv => StaysKept
    BY DEF MigrationsInv, CommandInv, Commit, Taken, KeepsPeople, KeepsOthers, KeepsAuthors
  <1>3. MigrationsSpec => []MigrationsInv
    BY <1>1, MigrationsInitInv, PTL DEF MigrationsSpec
  <1>4. MigrationsInv /\ [MigrationsNext]_migrationVars => [StaysKept]_migrationVars
    BY <1>2
  <1> QED BY <1>3, <1>4, PTL DEF MigrationsSpec, PeopleKept

----------------------------------------------------------------------------
(* MigrationsTypeOK: the rows satisfy what the schema of their revision     *)
(* demands of them.  First the numbers rows are given.                      *)

Numbered(R) == \E n \in Nat : \A r \in R : r.id \in 1..n

\* The next id is above all there are.
LEMMA NextIsFresh ==
    ASSUME NEW R, Numbered(R)
    PROVE  NextId(R) \in Nat \ {0} /\ \A r \in R : r.id \in Nat \ {0} /\ r.id < NextId(R)
  <1>1. PICK n \in Nat : \A r \in R : r.id \in 1..n
    BY DEF Numbered
  <1> DEFINE S == {0} \cup {r.id : r \in R}
             Top(x, k) == x \in S /\ x <= k /\ \A y \in S : y <= k => y <= x
             P == {k \in 0..n : \E x \in S : Top(x, k)}
  <1>2. S \subseteq 0..n /\ 0 \in S
    BY <1>1
  <1>3. \A r \in R : r.id \in S
    OBVIOUS
  <1>4. NextId(R) = 1 + Max(S)
    BY DEF NextId
  <1> HIDE DEF S
  <1>5. 0 \in P
    <2>1. \A y \in S : y \in Nat
      BY <1>2
    <2>2. Top(0, 0)
      BY <1>2, <2>1
    <2> QED BY <1>2, <2>2
  <1>6. ASSUME NEW k \in 1..n, k - 1 \in P
        PROVE  k \in P
    <2>1. PICK x \in S : Top(x, k - 1)
      BY <1>6
    <2>2. \A y \in S : y \in Nat
      BY <1>2
    <2>3. CASE k \in S
      <3>1. Top(k, k)
        BY <2>2, <2>3
      <3> QED BY <2>3, <3>1
    <2>4. CASE k \notin S
      <3>1. Top(x, k)
        BY <2>1, <2>2, <2>4
      <3> QED BY <3>1
    <2> QED BY <2>3, <2>4
  <1>7. n \in P
    <2> HIDE DEF P
    <2>1. P \in SUBSET (0..n)
      BY DEF P
    <2>2. P = 0..n
      BY <1>5, <1>6, <2>1, UpTo
    <2> QED BY <2>2
  <1>8. PICK x \in S : \A y \in S : x >= y
    <2>1. PICK x \in S : Top(x, n)
      BY <1>7
    <2>2. \A y \in S : x >= y
      BY <1>2, <2>1
    <2> QED BY <2>2
  <1>9. PICK m \in S : m = Max(S) /\ \A y \in S : m >= y
    BY <1>8 DEF Max
  <1>10. m \in Nat
    BY <1>2, <1>9
  <1>11. NextId(R) = 1 + m
    BY <1>4, <1>9
  <1>12. \A r \in R : m >= r.id
    BY <1>3, <1>9
  <1> QED BY <1>1, <1>10, <1>11, <1>12

\* Of the members of a set of numbers exactly one has each place, and the places
\* are in the order of the numbers.
LEMMA PlacesAre ==
    ASSUME NEW n \in Nat, NEW S \in SUBSET (1..n)
    PROVE  /\ IsFiniteSet(S) /\ Cardinality(S) \in Nat
           /\ \A i \in S : Place(i, S) \in 1..Cardinality(S)
           /\ \A i, j \in S : i < j => Place(i, S) < Place(j, S)
  <1>0. IsFiniteSet(1..n)
    BY FS_Interval
  <1>1. IsFiniteSet(S) /\ Cardinality(S) \in Nat
    BY <1>0, FS_Subset, FS_CardinalityType
  <1>2. ASSUME NEW i \in S
        PROVE  Place(i, S) \in 1..Cardinality(S)
    <2> DEFINE T == {j \in S : j <= i}
    <2>1. T \subseteq S /\ i \in T
      OBVIOUS
    <2> HIDE DEF T
    <2>2. IsFiniteSet(T) /\ Cardinality(T) <= Cardinality(S) /\ Cardinality(T) \in Nat
      BY <1>1, <2>1, FS_Subset, FS_CardinalityType
    <2>3. Cardinality(T) # 0
      BY <2>1, <2>2, FS_EmptySet
    <2> QED BY <1>1, <2>2, <2>3 DEF Place, T
  <1>3. ASSUME NEW i \in S, NEW j \in S, i < j
        PROVE  Place(i, S) < Place(j, S)
    <2> DEFINE T == {k \in S : k <= i}
               U == {k \in S : k <= j}
    <2>0. \A k \in S : k \in Int /\ k <= k /\ (k <= i => k <= j)
      BY <1>3
    <2>6. ~(j <= i)
      BY <1>3
    <2>1. T \subseteq U /\ U \subseteq S /\ j \in U /\ j \notin T
      BY <2>0, <2>6, Zenon
    <2> HIDE DEF T, U
    <2>2. IsFiniteSet(U) /\ IsFiniteSet(T) /\ T # U
      BY <1>1, <2>1, FS_Subset
    <2>3. Cardinality(T) \in Nat /\ Cardinality(U) \in Nat
      BY <2>2, FS_CardinalityType
    <2>4. Cardinality(T) <= Cardinality(U) /\ Cardinality(U) # Cardinality(T)
      BY <2>1, <2>2, FS_Subset
    <2>5. Cardinality(T) < Cardinality(U)
      BY <2>3, <2>4
    <2> QED BY <2>5 DEF Place, T, U
  <1> QED BY <1>1, <1>2, <1>3

LEMMA PlaceTaken ==
    ASSUME NEW n \in Nat, NEW S \in SUBSET (1..n), NEW c \in 1..Cardinality(S)
    PROVE  \E i \in S : Place(i, S) = c
  <1> DEFINE Full(T) == \A k \in 1..Cardinality(T) : \E i \in T : Place(i, T) = k
             P == {k \in 0..n : \A T \in SUBSET (1..k) : Full(T)}
  <1>1. 0 \in P
    <2>1. \A T \in SUBSET (1..0) : T = {}
      OBVIOUS
    <2>2. Cardinality({}) = 0
      BY FS_EmptySet
    <2>3. Full({})
      BY <2>2
    <2> HIDE DEF Full
    <2>4. \A T \in SUBSET (1..0) : Full(T)
      BY <2>1, <2>3
    <2>5. 0 \in 0..n
      OBVIOUS
    <2> QED BY <2>4, <2>5
  <1>2. ASSUME NEW k \in 1..n, k - 1 \in P
        PROVE  k \in P
    <2>1. ASSUME NEW T \in SUBSET (1..k), NEW l \in 1..Cardinality(T)
          PROVE  \E i \in T : Place(i, T) = l
      <3>1. CASE k \notin T
        <4>1. T \in SUBSET (1..(k - 1))
          BY <3>1
        <4> QED BY <1>2, <4>1
      <3>2. CASE k \in T
        <4> DEFINE U == T \ {k}
        <4>0. IsFiniteSet(1..k)
          BY FS_Interval
        <4>7. \A j \in T : j \in 1..k /\ (j # k => j \in 1..(k - 1))
          OBVIOUS
        <4>1. U \in SUBSET (1..(k - 1)) /\ IsFiniteSet(T)
          BY <4>0, <4>7, FS_Subset
        <4>2. T = U \cup {k} /\ k \notin U
          BY <3>2
        <4> HIDE DEF U
        <4>3. IsFiniteSet(U)
          BY <4>1, <4>2, FS_Subset
        <4>4. Cardinality(T) = Cardinality(U) + 1 /\ Cardinality(U) \in Nat
          BY <4>2, <4>3, FS_AddElement, FS_CardinalityType
        <4>5. CASE l = Cardinality(T)
          <5>1. \A j \in T : j <= k
            OBVIOUS
          <5>2. {j \in T : j <= k} = T
            BY <5>1, Zenon
          <5> QED BY <3>2, <4>5, <5>2 DEF Place
        <4>6. CASE l # Cardinality(T)
          <5>1. l \in 1..Cardinality(U)
            BY <4>4, <4>6
          <5>2. PICK i \in U : Place(i, U) = l
            BY <1>2, <4>1, <5>1
          <5>3. {j \in T : j <= i} = {j \in U : j <= i}
            BY <4>1, <4>2
          <5>4. Place(i, T) = l
            BY <5>2, <5>3 DEF Place
          <5> QED BY <4>2, <5>4
        <4> QED BY <4>5, <4>6
      <3> QED BY <3>1, <3>2
    <2>2. \A T \in SUBSET (1..k) : Full(T)
      BY <2>1
    <2> HIDE DEF Full
    <2> QED BY <2>2
  <1>3. n \in P
    <2> HIDE DEF P
    <2>1. P \in SUBSET (0..n)
      BY DEF P
    <2>2. P = 0..n
      BY <1>1, <1>2, <2>1, UpTo
    <2> QED BY <2>2
  <1> QED BY <1>3

\* Rows with ids of their own are finitely many.
LEMMA FiniteRows ==
    ASSUME NEW R, Numbered(R), \A r, s \in R : r # s => r.id # s.id
    PROVE  IsFiniteSet(R)
  <1>1. PICK n \in Nat : \A r \in R : r.id \in 1..n
    BY DEF Numbered
  <1> DEFINE f == [r \in R |-> r.id]
  <1>2. f \in Injection(R, 1..n)
    BY <1>1 DEF Injection, IsInjective
  <1>3. IsFiniteSet(1..n)
    BY <1>1, FS_Interval
  <1> HIDE DEF f
  <1> QED BY <1>2, <1>3, FS_Injection

\* What the rows of revision r satisfy, whatever the schema says.
UsersFit(d) ==
    /\ Numbered(d.users)
    /\ \A u \in d.users : u.nick.of \in {0, u.id}
    /\ \A u, v \in d.users : u # v => u.id # v.id /\ u.account # v.account
NicksFit(d) == \A u, v \in d.users : u # v => u.nick # v.nick
QuestionsFit(d, r) ==
    /\ Numbered(d.questions)
    /\ \A p, q \in d.questions : p # q => p.id # q.id
    /\ \A q \in d.questions :
          /\ q.author \in AccountsIn(d) \cup {Nobody}
          /\ r < Authors => q.author = Nobody
          /\ r < FourOptions => q.options = "AB"
          /\ r >= FirstQuestions
VotesFit(d, r) ==
    \A v \in d.votes :
        /\ \E q \in d.questions : q.id = v.question
        /\ v.by \in Guests \cup AccountsIn(d)
        /\ r >= ReasonsRequired => v.reason
        /\ v.option \in {"A", "C"}
        /\ r < FourOptions => v.option = "A"
SeedsFit(d, r) ==
    /\ r < SeedCatalogue => Seeds(d) = {}
    /\ r < SeedAuthors => \A q \in Seeds(d) : q.author = Nobody
    /\ \A q \in Seeds(d) : q.author \in Tests \cup {Nobody}
    /\ \A p, q \in d.questions : p # q /\ p \in Seeds(d) => p.title # q.title \/ q.id > p.id
Fits(d, r) == UsersFit(d) /\ QuestionsFit(d, r) /\ SeedsFit(d, r) /\ VotesFit(d, r)

LEMMA SeedsSame ==
    ASSUME NEW d, NEW e, e.questions = d.questions, NEW r, SeedsFit(d, r)
    PROVE  SeedsFit(e, r)
  <1>1. Seeds(e) = Seeds(d)
    BY DEF Seeds
  <1> QED BY <1>1 DEF SeedsFit

\* Only the rows matter.
LEMMA FitsByRows ==
    ASSUME NEW d, NEW e, e.users = d.users, e.questions = d.questions, e.votes = d.votes,
           NEW r, Fits(d, r)
    PROVE  Fits(e, r) /\ (NicksFit(d) => NicksFit(e))
  BY SeedsSame DEF Fits, UsersFit, NicksFit, QuestionsFit, VotesFit, AccountsIn

\* No revision but these asks more of the rows than the one before it, or
\* than the one after it.
LEMMA FitsOn ==
    ASSUME NEW d, NEW r \in 0..20, NEW s \in 0..20, Fits(d, r),
           \/ s = r + 1 /\ s \notin {FirstQuestions, ReasonsRequired}
           \/ s = r - 1 /\ r \notin {FirstQuestions, FourOptions, Authors, SeedCatalogue, SeedAuthors}
    PROVE  Fits(d, s)
  <1> USE DEF FirstQuestions, ReasonsRequired, FourOptions, Authors, SeedCatalogue, SeedAuthors
  <1>1. /\ s < Authors => r < Authors
        /\ s < SeedCatalogue => r < SeedCatalogue
        /\ s < SeedAuthors => r < SeedAuthors
        /\ s < FourOptions => r < FourOptions
        /\ s >= ReasonsRequired => r >= ReasonsRequired
        /\ r >= FirstQuestions => s >= FirstQuestions
    OBVIOUS
  <1>2. QuestionsFit(d, s)
    BY <1>1 DEF Fits, QuestionsFit
  <1>3. SeedsFit(d, s)
    BY <1>1 DEF Fits, SeedsFit
  <1>4. VotesFit(d, s)
    BY <1>1 DEF Fits, VotesFit
  <1> QED BY <1>2, <1>3, <1>4 DEF Fits

\* Another nickname for a user.
Renamed(u, n) == [u EXCEPT !.nick = n]

LEMMA NewNick ==
    ASSUME NEW u, UserRow(u), NEW n
    PROVE  LET v == Renamed(u, n) IN UserRow(v) /\ v.nick = n /\ v.id = u.id /\ v.account = u.account
  <1>1. Renamed(u, n) = [id |-> u.id, account |-> u.account, nick |-> n]
    BY DEF UserRow, Renamed
  <1> QED BY <1>1 DEF UserRow

LEMMA MadeFields ==
    ASSUME NEW i, NEW a, NEW n, NEW o, NEW c
    PROVE  /\ User(i, a, n).id = i /\ User(i, a, n).account = a /\ User(i, a, n).nick = Plain(n)
           /\ Plain(n).name = n /\ Plain(n).of = 0
           /\ Question(i, n, a, o, c).id = i /\ Question(i, n, a, o, c).author = a
           /\ Question(i, n, a, o, c).options = o /\ Question(i, n, a, o, c).title = n
           /\ Question(i, n, a, o, c).created = c
  BY DEF User, Question, Plain


\* Questions changed one by one keep their ids.
LEMMA QuestionsChanged ==
    ASSUME NEW d, NEW e, NEW r, NEW s, QuestionsFit(d, r), NEW f,
           e.questions = {f[q] : q \in d.questions},
           \A q \in d.questions :
               /\ f[q].id = q.id
               /\ f[q].author \in AccountsIn(e) \cup {Nobody}
               /\ s < Authors => f[q].author = Nobody
               /\ s < FourOptions => f[q].options = "AB"
               /\ s >= FirstQuestions
    PROVE  QuestionsFit(e, s)
  <1>1. \A p \in e.questions : \E q \in d.questions : p = f[q]
    OBVIOUS
  <1>2. PICK n \in Nat : \A q \in d.questions : q.id \in 1..n
    BY DEF QuestionsFit, Numbered
  <1>3. Numbered(e.questions)
    BY <1>1, <1>2 DEF Numbered
  <1>4. ASSUME NEW p \in e.questions, NEW q \in e.questions, p # q
        PROVE  p.id # q.id
    BY <1>1, <1>4 DEF QuestionsFit
  <1> QED BY <1>1, <1>3, <1>4 DEF QuestionsFit

\* None of them becomes one of the catalogue.
LEMMA SeedsChanged ==
    ASSUME NEW d, NEW e, NEW r, NEW s, SeedsFit(d, r), NEW f,
           s < SeedCatalogue => r < SeedCatalogue,
           e.questions = {f[q] : q \in d.questions},
           \A q \in d.questions : f[q].id = q.id /\ f[q].title = q.title /\ f[q].created = q.created,
           \A q \in d.questions : q.created = "seed" =>
               /\ f[q].author \in Tests \cup {Nobody}
               /\ s < SeedAuthors => f[q].author = Nobody
    PROVE  SeedsFit(e, s)
  <1>1. \A p \in e.questions : \E q \in d.questions : p = f[q]
    OBVIOUS
  <1>2. \A q \in d.questions : f[q] \in Seeds(e) <=> q \in Seeds(d)
    BY DEF Seeds
  <1>3. ASSUME NEW p \in e.questions, NEW q \in e.questions, p # q, p \in Seeds(e)
        PROVE  p.title # q.title \/ q.id > p.id
    <2>1. PICK x \in d.questions : p = f[x]
      BY <1>1
    <2>2. PICK y \in d.questions : q = f[y]
      BY <1>1
    <2>3. x # y /\ x \in Seeds(d)
      BY <1>2, <1>3, <2>1, <2>2
    <2>4. x.title # y.title \/ y.id > x.id
      BY <2>3 DEF SeedsFit
    <2> QED BY <2>1, <2>2, <2>4
  <1>4. ASSUME NEW p \in Seeds(e)
        PROVE  /\ p.author \in Tests \cup {Nobody} /\ (s < SeedAuthors => p.author = Nobody)
               /\ Seeds(d) # {}
    <2>1. PICK q \in d.questions : p = f[q]
      BY <1>1 DEF Seeds
    <2>2. q \in Seeds(d) /\ q.created = "seed"
      BY <1>2, <2>1 DEF Seeds
    <2> QED BY <2>1, <2>2
  <1>5. s < SeedCatalogue => Seeds(e) = {}
    BY <1>4 DEF SeedsFit
  <1> QED BY <1>3, <1>4, <1>5 DEF SeedsFit

\* 9830cbc3c7c6 finds no question there, and so no vote.
LEMMA FirstFit ==
    ASSUME NEW d, Database(d), Fits(d, 8), today \in {"early", "late"}
    PROVE  LET e == SeedFirstQuestions(d) IN e.users = d.users /\ e.schema = d.schema /\ Fits(e, 9)
  <1> USE DEF FirstQuestions, ReasonsRequired, FourOptions, Authors
  <1> DEFINE t == SetToSeq(FirstTitles)
             Q == {Question(i, t[i], Nobody, "AB", today) : i \in DOMAIN t}
             n == Cardinality(FirstTitles)
             e == SeedFirstQuestions(d)
  <1>1. t \in [1..n -> FirstTitles] /\ n \in Nat
    <2>1. n \in Nat /\ ExistsBijection(1..n, FirstTitles)
      BY CatalogueAssumption, FS_CardinalityType
    <2>2. PICK f \in [1..n -> FirstTitles] : IsInjective(f)
      BY <2>1 DEF ExistsBijection, Bijection, Injection
    <2> HIDE DEF n
    <2> QED BY <2>1, <2>2 DEF SetToSeq, n
  <1>2. e = [d EXCEPT !.questions = Q]
    BY DEF SeedFirstQuestions
  <1> HIDE DEF t, n
  <1>3. \A p \in Q : \E i \in DOMAIN t : p = Question(i, t[i], Nobody, "AB", today)
    OBVIOUS
  <1> HIDE DEF Q, e
  <1>4. e = With(d, d.users, Q, d.votes)
    BY <1>2, QuestionsReplaced DEF Database
  <1>5. e.users = d.users /\ e.questions = Q /\ e.votes = d.votes /\ e.schema = d.schema
    BY <1>4, WithFields
  <1>6. d.votes = {}
    BY DEF Fits, VotesFit, QuestionsFit
  <1>7. \A p \in Q : p.id \in 1..n /\ p.author = Nobody /\ p.options = "AB" /\ p.created # "seed"
    BY <1>1, <1>3, MadeFields
  <1>8. \A p, q \in Q : p # q => p.id # q.id
    BY <1>3, MadeFields
  <1>9. Numbered(Q)
    BY <1>1, <1>7 DEF Numbered
  <1>10. QuestionsFit(e, 9)
    BY <1>5, <1>7, <1>8, <1>9 DEF QuestionsFit
  <1>11. UsersFit(e) /\ VotesFit(e, 9)
    BY <1>5, <1>6 DEF Fits, UsersFit, VotesFit
  <1>12. SeedsFit(e, 9)
    BY <1>5, <1>7 DEF SeedsFit, Seeds
  <1> QED BY <1>5, <1>10, <1>11, <1>12 DEF Fits, e

\* e0d9472e53f0 has only votes with a reason left.
LEMMA ReasonedFit ==
    ASSUME NEW d, Database(d), Fits(d, 10)
    PROVE  LET e == DropUnreasonedVotes(d) IN e.users = d.users /\ e.schema = d.schema /\ Fits(e, 11)
  <1> USE DEF FirstQuestions, ReasonsRequired, FourOptions, Authors
  <1> DEFINE V == {v \in d.votes : v.reason}
             e == DropUnreasonedVotes(d)
  <1>1. e = [d EXCEPT !.votes = V]
    BY DEF DropUnreasonedVotes
  <1>2. V \subseteq d.votes /\ \A v \in V : v.reason
    OBVIOUS
  <1> HIDE DEF V, e
  <1>3. e = With(d, d.users, d.questions, V)
    BY <1>1, VotesReplaced DEF Database
  <1>4. e.users = d.users /\ e.questions = d.questions /\ e.votes = V /\ e.schema = d.schema
    BY <1>3, WithFields
  <1>5. AccountsIn(e) = AccountsIn(d)
    BY <1>4 DEF AccountsIn
  <1>6. UsersFit(e) /\ QuestionsFit(e, 11)
    BY <1>4, <1>5 DEF Fits, UsersFit, QuestionsFit
  <1>7. VotesFit(e, 11)
    BY <1>2, <1>4, <1>5 DEF Fits, VotesFit
  <1>8. SeedsFit(e, 11)
    <2>1. SeedsFit(d, 11)
      BY DEF Fits, SeedsFit, SeedCatalogue, SeedAuthors
    <2> QED BY <1>4, <2>1, SeedsSame
  <1> QED BY <1>4, <1>6, <1>7, <1>8 DEF Fits, e

\* 6108ff5d4fe3 gives its questions ids after those there are.
LEMMA CatalogueFit ==
    ASSUME NEW d, Database(d), NEW r \in SeedCatalogue..20, Fits(d, r)
    PROVE  LET e == TopUpCatalogue(d) IN e.users = d.users /\ e.schema = d.schema /\ Fits(e, r)
  <1> USE DEF FirstQuestions, ReasonsRequired, FourOptions, Authors, SeedCatalogue
  <1> DEFINE missing == Quota - Cardinality(d.questions)
             S == {i \in DOMAIN Catalogue : \A q \in d.questions : q.title # Catalogue[i]}
             base == NextId(d.questions) - 1
             Q == {Question(base + Place(i, S), Catalogue[i], Nobody, "AB", "seed") :
                      i \in {j \in S : Place(j, S) <= missing}}
             e == TopUpCatalogue(d)
  <1>1. e = [d EXCEPT !.questions = d.questions \cup Q]
    BY DEF TopUpCatalogue
  <1>2. Len(Catalogue) \in Nat /\ DOMAIN Catalogue = 1..Len(Catalogue)
    BY CatalogueAssumption
  <1>3. S \in SUBSET (1..Len(Catalogue))
    BY <1>2
  <1>4. \A i \in S : \A q \in d.questions : q.title # Catalogue[i]
    OBVIOUS
  <1> HIDE DEF missing, S
  <1>5. /\ Cardinality(S) \in Nat /\ \A i \in S : Place(i, S) \in 1..Cardinality(S)
        /\ \A i, j \in S : i < j => Place(i, S) < Place(j, S)
    BY <1>2, <1>3, PlacesAre
  <1>6. Numbered(d.questions)
    BY DEF Fits, QuestionsFit
  <1>7. base \in Nat /\ \A q \in d.questions : q.id \in 1..base
    <2>1. NextId(d.questions) \in Nat \ {0}
          /\ \A q \in d.questions : q.id \in Nat \ {0} /\ q.id < NextId(d.questions)
      BY <1>6, NextIsFresh
    <2> QED BY <2>1
  <1>8. \A p \in Q : \E i \in S : p = Question(base + Place(i, S), Catalogue[i], Nobody, "AB", "seed")
    OBVIOUS
  <1> HIDE DEF base, Q, e
  <1>9. e = With(d, d.users, d.questions \cup Q, d.votes)
    BY <1>1, QuestionsReplaced DEF Database
  <1>10. /\ e.users = d.users /\ e.questions = d.questions \cup Q /\ e.votes = d.votes
        /\ e.schema = d.schema
    BY <1>9, WithFields
  <1>11. ASSUME NEW p \in Q
         PROVE  /\ p.author = Nobody
                /\ p.id \in (base + 1)..(base + Cardinality(S))
    <2>1. PICK i \in S : p = Question(base + Place(i, S), Catalogue[i], Nobody, "AB", "seed")
      BY <1>8
    <2>2. p.id = base + Place(i, S) /\ p.author = Nobody
      BY <2>1, MadeFields
    <2>3. Place(i, S) \in 1..Cardinality(S)
      BY <1>5
    <2> QED BY <1>5, <1>7, <2>2, <2>3
  <1>12. ASSUME NEW p \in Q, NEW q \in Q, p # q
         PROVE  p.id # q.id /\ p.title # q.title
    <2>1. PICK i \in S : p = Question(base + Place(i, S), Catalogue[i], Nobody, "AB", "seed")
      BY <1>8
    <2>2. PICK j \in S : q = Question(base + Place(j, S), Catalogue[j], Nobody, "AB", "seed")
      BY <1>8
    <2>3. /\ p.id = base + Place(i, S) /\ q.id = base + Place(j, S)
          /\ p.title = Catalogue[i] /\ q.title = Catalogue[j]
      BY <2>1, <2>2, MadeFields
    <2>4. i # j /\ i \in Int /\ j \in Int
      BY <1>3, <1>12, <2>1, <2>2
    <2>5. Place(i, S) # Place(j, S) /\ Place(i, S) \in Int /\ Place(j, S) \in Int
      BY <1>5, <2>4
    <2>6. Catalogue[i] # Catalogue[j]
      BY <1>2, <1>3, <2>4, CatalogueAssumption DEF IsInjective
    <2> QED BY <1>7, <2>3, <2>5, <2>6
  <1>13. ASSUME NEW p \in d.questions \cup Q, NEW q \in d.questions \cup Q, p # q
         PROVE  p.id # q.id
    <2>1. CASE p \in d.questions /\ q \in d.questions
      BY <1>13, <2>1 DEF Fits, QuestionsFit
    <2>2. CASE p \in Q /\ q \in Q
      BY <1>12, <1>13, <2>2
    <2>3. CASE p \in d.questions /\ q \in Q
      BY <1>5, <1>7, <1>11, <2>3
    <2>4. CASE p \in Q /\ q \in d.questions
      BY <1>5, <1>7, <1>11, <2>4
    <2> QED BY <2>1, <2>2, <2>3, <2>4
  <1>14. Numbered(d.questions \cup Q)
    <2>1. base + Cardinality(S) \in Nat
      BY <1>5, <1>7
    <2>2. \A q \in d.questions : q.id \in 1..(base + Cardinality(S))
      BY <1>5, <1>7
    <2>3. \A q \in Q : q.id \in 1..(base + Cardinality(S))
      BY <1>5, <1>7, <1>11
    <2> QED BY <2>1, <2>2, <2>3 DEF Numbered
  <1>15. AccountsIn(e) = AccountsIn(d)
    BY <1>10 DEF AccountsIn
  <1>16. QuestionsFit(e, r)
    BY <1>10, <1>11, <1>13, <1>14, <1>15 DEF Fits, QuestionsFit
  <1>17. UsersFit(e) /\ VotesFit(e, r)
    BY <1>10, <1>15 DEF Fits, UsersFit, VotesFit
  <1>18. ASSUME NEW p \in Q
         PROVE  p.author = Nobody /\ \A q \in d.questions : p.title # q.title
    <2>1. PICK i \in S : p = Question(base + Place(i, S), Catalogue[i], Nobody, "AB", "seed")
      BY <1>8
    <2>2. p.title = Catalogue[i] /\ p.author = Nobody
      BY <2>1, MadeFields
    <2> QED BY <1>4, <2>2
  <1>19. SeedsFit(e, r)
    <2>1. SeedsFit(d, r)
      BY DEF Fits
    <2>2. \A q \in Seeds(e) : q \in Seeds(d) \/ q \in Q
      BY <1>10 DEF Seeds
    <2>3. ASSUME NEW p \in Seeds(e)
          PROVE  p.author \in Tests \cup {Nobody} /\ (r < SeedAuthors => p.author = Nobody)
      BY <1>18, <2>1, <2>2 DEF SeedsFit
    <2>4. ASSUME NEW p \in e.questions, NEW q \in e.questions, p # q, p \in Seeds(e)
          PROVE  p.title # q.title \/ q.id > p.id
      <3>1. CASE p \in Q /\ q \in Q
        BY <1>12, <2>4, <3>1
      <3>2. CASE p \in Q /\ q \in d.questions
        BY <1>18, <3>2
      <3>3. CASE p \in d.questions /\ q \in Q
        BY <1>18, <3>3
      <3>4. CASE p \in d.questions /\ q \in d.questions
        BY <2>1, <2>4, <3>4 DEF SeedsFit, Seeds
      <3> QED BY <1>10, <3>1, <3>2, <3>3, <3>4
    <2> QED BY <2>3, <2>4 DEF SeedsFit
  <1> QED BY <1>10, <1>16, <1>17, <1>19 DEF Fits, e

\* Of two users with one nickname the later has another after 4528840cd462, one
\* that nobody can have chosen.
LEMMA RenamedFit ==
    ASSUME NEW d, Database(d), NEW r, Fits(d, r)
    PROVE  LET e == RenameDuplicates(d) IN e.schema = d.schema /\ Fits(e, r) /\ NicksFit(e)
  <1> DEFINE Later(u) == \E v \in d.users : v.nick = u.nick /\ v.id < u.id
             New(u) == IF Later(u) THEN Renamed(u, Fallback(u)) ELSE u
             U == {New(u) : u \in d.users}
             e == RenameDuplicates(d)
  <1>1. e = [d EXCEPT !.users = U]
    BY DEF RenameDuplicates, Renamed
  <1>2. ASSUME NEW u \in d.users
        PROVE  /\ New(u).id = u.id /\ New(u).account = u.account
               /\ New(u).nick = IF Later(u) THEN Fallback(u) ELSE u.nick
               /\ New(u).nick.of \in {0, u.id}
    <2>1. UserRow(u) /\ u.nick.of \in {0, u.id}
      BY DEF Database, Fits, UsersFit
    <2>2. Fallback(u).of = u.id
      BY DEF Fallback
    <2>3. CASE Later(u)
      <3>1. New(u) = Renamed(u, Fallback(u))
        BY <2>3
      <3> HIDE DEF New, Later
      <3> QED BY <2>1, <2>2, <2>3, <3>1, NewNick
    <2>4. CASE ~Later(u)
      BY <2>1, <2>4
    <2> QED BY <2>3, <2>4
  <1> HIDE DEF New
  <1>3. \A x \in U : \E u \in d.users : x = New(u)
    OBVIOUS
  <1>4. \A u \in d.users : New(u) \in U
    OBVIOUS
  <1> HIDE DEF U, e
  <1>5. e = With(d, U, d.questions, d.votes)
    BY <1>1, UsersReplaced DEF Database
  <1>6. e.users = U /\ e.questions = d.questions /\ e.votes = d.votes /\ e.schema = d.schema
    BY <1>5, WithFields
  <1>7. AccountsIn(e) = AccountsIn(d)
    BY <1>2, <1>3, <1>4, <1>6 DEF AccountsIn
  <1>8. PICK n \in Nat : \A u \in d.users : u.id \in 1..n
    BY DEF Fits, UsersFit, Numbered
  <1>9. UsersFit(e)
    <2>1. Numbered(e.users)
      BY <1>2, <1>3, <1>6, <1>8 DEF Numbered
    <2>2. \A x \in U : x.nick.of \in {0, x.id}
      BY <1>2, <1>3
    <2>3. ASSUME NEW x \in U, NEW y \in U, x # y
          PROVE  x.id # y.id /\ x.account # y.account
      BY <1>2, <1>3, <2>3 DEF Fits, UsersFit
    <2> QED BY <1>6, <2>1, <2>2, <2>3 DEF UsersFit
  <1>10. NicksFit(e)
    <2>1. ASSUME NEW u \in d.users, NEW v \in d.users, u # v, New(u).nick = New(v).nick
          PROVE  FALSE
      <3>1. u.id # v.id /\ u.id \in Nat \ {0} /\ v.id \in Nat \ {0}
        BY <1>8, <2>1 DEF Fits, UsersFit
      <3>2. Fallback(u).of = u.id /\ Fallback(v).of = v.id
        BY DEF Fallback
      <3>3. CASE Later(u) /\ Later(v)
        BY <1>2, <2>1, <3>1, <3>2, <3>3
      <3>4. CASE Later(u) /\ ~Later(v)
        BY <1>2, <2>1, <3>1, <3>2, <3>4
      <3>5. CASE ~Later(u) /\ Later(v)
        BY <1>2, <2>1, <3>1, <3>2, <3>5
      <3>6. CASE ~Later(u) /\ ~Later(v)
        <4>1. u.nick = v.nick
          BY <1>2, <2>1, <3>6
        <4>2. u.id < v.id \/ v.id < u.id
          BY <3>1
        <4> QED BY <3>6, <4>1, <4>2
      <3> QED BY <3>3, <3>4, <3>5, <3>6
    <2> QED BY <1>3, <1>6, <2>1 DEF NicksFit
  <1>11. QuestionsFit(e, r) /\ VotesFit(e, r)
    BY <1>6, <1>7 DEF Fits, QuestionsFit, VotesFit
  <1>12. SeedsFit(e, r)
    BY <1>6, SeedsSame DEF Fits
  <1> QED BY <1>6, <1>9, <1>10, <1>11, <1>12 DEF Fits, e

\* fce3f83af5da stops rather than make a second account of an email or a
\* second user of a name.
LEMMA TestUsersFit ==
    ASSUME NEW d, Database(d), NEW r, Fits(d, r), AddTestUsers(d).schema # Failed
    PROVE  LET e == AddTestUsers(d) IN e.schema = d.schema /\ Fits(e, r) /\ (NicksFit(d) => NicksFit(e))
  <1> DEFINE New == {User(NextId(d.users) + i - 1, TestUsers[i], TestUsers[i]) : i \in DOMAIN TestUsers}
             U == d.users \cup New
             e == AddTestUsers(d)
             n == Len(TestUsers)
             base == NextId(d.users) - 1
  <1>1. \A u \in d.users : u.account \notin Tests /\ \A t \in Tests : u.nick # Plain(t)
    BY StoppedRows DEF AddTestUsers
  <1>2. e = [d EXCEPT !.users = U]
    BY <1>1 DEF AddTestUsers
  <1>3. /\ n \in Nat /\ DOMAIN TestUsers = 1..n /\ \A i \in 1..n : TestUsers[i] \in Tests
        /\ \A i, j \in 1..n : TestUsers[i] = TestUsers[j] => i = j
    BY CatalogueAssumption DEF IsInjective
  <1>4. base \in Nat /\ \A u \in d.users : u.id \in 1..base
    <2>1. Numbered(d.users)
      BY DEF Fits, UsersFit
    <2>2. NextId(d.users) \in Nat \ {0}
          /\ \A q \in d.users : q.id \in Nat \ {0} /\ q.id < NextId(d.users)
      BY <2>1, NextIsFresh
    <2> QED BY <2>2
  <1>5. ASSUME NEW x \in New
        PROVE  \E i \in 1..n : /\ x.id = base + i /\ x.account = TestUsers[i]
                               /\ x.nick = Plain(TestUsers[i]) /\ x = User(base + i, TestUsers[i], TestUsers[i])
    <2>1. PICK i \in 1..n : x = User(NextId(d.users) + i - 1, TestUsers[i], TestUsers[i])
      BY <1>3
    <2>2. NextId(d.users) + i - 1 = base + i
      <3>1. NextId(d.users) \in Int
        BY NextIsFresh DEF Fits, UsersFit
      <3>2. i \in Int
        BY <1>3
      <3> QED BY <3>1, <3>2
    <2>3. x = User(base + i, TestUsers[i], TestUsers[i])
      BY <2>1, <2>2
    <2> HIDE DEF base, n
    <2> QED BY <2>3, MadeFields
  <1> HIDE DEF n, base, New, e
  <1>6. e = With(d, U, d.questions, d.votes)
    <2> HIDE DEF U
    <2> QED BY <1>2, UsersReplaced DEF Database
  <1>7. e.users = U /\ e.questions = d.questions /\ e.votes = d.votes /\ e.schema = d.schema
    <2> HIDE DEF U
    <2> QED BY <1>6, WithFields
  <1>8. AccountsIn(d) \subseteq AccountsIn(e)
    BY <1>7 DEF AccountsIn
  <1>9. Numbered(U)
    <2>1. base + n \in Nat /\ \A u \in d.users : u.id \in 1..(base + n)
      BY <1>3, <1>4
    <2>2. \A x \in New : x.id \in 1..(base + n)
      BY <1>3, <1>4, <1>5
    <2> QED BY <2>1, <2>2 DEF Numbered
  <1>10. \A x \in U : x.nick.of \in {0, x.id}
    <2>1. \A x \in d.users : x.nick.of \in {0, x.id}
      BY DEF Fits, UsersFit
    <2>2. ASSUME NEW x \in New
          PROVE  x.nick.of = 0
      <3>1. PICK i \in 1..n : x.nick = Plain(TestUsers[i])
        BY <1>5
      <3> QED BY <3>1, MadeFields
    <2> QED BY <2>1, <2>2
  <1>11. ASSUME NEW x \in d.users, NEW y \in New
         PROVE  x.id # y.id /\ x.account # y.account /\ x.nick # y.nick
    <2>1. PICK i \in 1..n : y.id = base + i /\ y.account = TestUsers[i] /\ y.nick = Plain(TestUsers[i])
      BY <1>5
    <2>2. x.id # y.id
      BY <1>3, <1>4, <2>1
    <2> QED BY <1>1, <1>3, <2>1, <2>2
  <1>12. ASSUME NEW x \in New, NEW y \in New, x # y
         PROVE  x.id # y.id /\ x.account # y.account /\ x.nick # y.nick
    <2>1. PICK i \in 1..n : /\ x.id = base + i /\ x.account = TestUsers[i]
                            /\ x.nick = Plain(TestUsers[i]) /\ x = User(base + i, TestUsers[i], TestUsers[i])
      BY <1>5
    <2>2. PICK j \in 1..n : /\ y.id = base + j /\ y.account = TestUsers[j]
                            /\ y.nick = Plain(TestUsers[j]) /\ y = User(base + j, TestUsers[j], TestUsers[j])
      BY <1>5
    <2>3. i # j
      BY <1>12, <2>1, <2>2
    <2>4. x.id # y.id
      BY <1>3, <1>4, <2>1, <2>2, <2>3
    <2>5. TestUsers[i] # TestUsers[j]
      BY <1>3, <2>3
    <2> QED BY <2>1, <2>2, <2>4, <2>5, MadeFields
  <1>13. \A x, y \in U : x # y => x.id # y.id /\ x.account # y.account
    BY <1>11, <1>12 DEF Fits, UsersFit
  <1>14. NicksFit(d) => NicksFit(e)
    BY <1>7, <1>11, <1>12 DEF NicksFit
  <1> HIDE DEF U
  <1>15. UsersFit(e)
    BY <1>7, <1>9, <1>10, <1>13 DEF UsersFit
  <1>16. QuestionsFit(e, r) /\ VotesFit(e, r)
    BY <1>7, <1>8 DEF Fits, QuestionsFit, VotesFit
  <1>17. SeedsFit(e, r)
    BY <1>7, SeedsSame DEF Fits
  <1> QED BY <1>7, <1>14, <1>15, <1>16, <1>17 DEF Fits, e

\* e has the users of d, of each question what f makes of it, and votes of d,
\* all of which fits revision s if d fits revision r.
OneByOneFits(d, e, f, r, s) ==
    /\ e.users = d.users
    /\ e.questions = {f[q] : q \in d.questions}
    /\ \A q \in d.questions :
          /\ f[q].id = q.id /\ f[q].title = q.title /\ f[q].created = q.created
          /\ f[q].author \in AccountsIn(d) \cup {Nobody}
          /\ s < Authors => f[q].author = Nobody
          /\ s < FourOptions => f[q].options = "AB"
          /\ s >= FirstQuestions
          /\ q.created = "seed" =>
               /\ f[q].author \in Tests \cup {Nobody}
               /\ s < SeedAuthors => f[q].author = Nobody
    /\ s < SeedCatalogue => r < SeedCatalogue
    /\ \A v \in e.votes :
          /\ v \in d.votes
          /\ s >= ReasonsRequired => v.reason
          /\ s < FourOptions => v.option = "A"

\* The same users; every question changed by itself; no new votes.
LEMMA OneByOne ==
    ASSUME NEW d, NEW e, NEW f, NEW r, NEW s, Fits(d, r), OneByOneFits(d, e, f, r, s)
    PROVE  Fits(e, s) /\ (NicksFit(d) => NicksFit(e))
  <1> USE DEF OneByOneFits
  <1>1. AccountsIn(e) = AccountsIn(d)
    BY DEF AccountsIn
  <1>2. UsersFit(e) /\ (NicksFit(d) => NicksFit(e))
    BY DEF Fits, UsersFit, NicksFit
  <1>3. QuestionsFit(e, s)
    <2>1. QuestionsFit(d, r)
      BY DEF Fits
    <2>2. \A q \in d.questions :
               /\ f[q].id = q.id
               /\ f[q].author \in AccountsIn(e) \cup {Nobody}
               /\ s < Authors => f[q].author = Nobody
               /\ s < FourOptions => f[q].options = "AB"
               /\ s >= FirstQuestions
      BY <1>1
    <2> QED BY <2>1, <2>2, QuestionsChanged
  <1>4. VotesFit(e, s)
    <2>1. ASSUME NEW v \in e.votes
          PROVE  \E p \in e.questions : p.id = v.question
      <3>1. PICK q \in d.questions : q.id = v.question
        BY DEF Fits, VotesFit
      <3>2. f[q] \in e.questions
        OBVIOUS
      <3> QED BY <3>1, <3>2
    <2> QED BY <1>1, <2>1 DEF Fits, VotesFit
  <1>5. SeedsFit(e, s)
    <2>1. SeedsFit(d, r)
      BY DEF Fits
    <2>2. \A q \in d.questions : f[q].id = q.id /\ f[q].title = q.title /\ f[q].created = q.created
      OBVIOUS
    <2>3. ASSUME NEW q \in d.questions, q.created = "seed"
          PROVE  f[q].author \in Tests \cup {Nobody} /\ (s < SeedAuthors => f[q].author = Nobody)
      BY <2>3
    <2>4. s < SeedCatalogue => r < SeedCatalogue
      OBVIOUS
    <2>5. e.questions = {f[q] : q \in d.questions}
      OBVIOUS
    <2> HIDE DEF OneByOneFits
    <2> QED BY <2>1, <2>2, <2>3, <2>4, <2>5, SeedsChanged
  <1> QED BY <1>2, <1>3, <1>4, <1>5 DEF Fits

\* 947cff0bfa96 has an account of a test user for every turn.
LEMMA AuthorsFit ==
    ASSUME NEW d, Database(d), NEW r \in SeedAuthors..20, Fits(d, r), AssignAuthors(d).schema # Failed
    PROVE  LET e == AssignAuthors(d) IN e.users = d.users /\ e.schema = d.schema /\ Fits(e, r)
  <1> USE DEF FirstQuestions, ReasonsRequired, FourOptions, Authors, SeedCatalogue, SeedAuthors
  <1> DEFINE S == {q \in d.questions : q.author = Nobody /\ ByCutoff(q)}
             users == TestUsersIn(d)
             Before(q) == {p \in S : p.id < q.id}
             Turn(q) == CHOOSE i \in users :
                 Place(i, users) = (Cardinality(Before(q)) % Cardinality(users)) + 1
             a == [q \in S |-> TestUsers[Turn(q)]]
             f == [q \in d.questions |-> IF q \in S THEN Reauthored(q, a[q]) ELSE q]
             Q == {f[q] : q \in d.questions}
             e == AssignAuthors(d)
  <1>1. users # {}
    <2>1. users = {} => e = Stopped(d)
      BY DEF AssignAuthors
    <2> QED BY <2>1, StoppedRows
  <1>2. e = [d EXCEPT !.questions = Q]
    BY <1>1 DEF AssignAuthors, Reauthored
  <1>3. ASSUME NEW q \in S
        PROVE  a[q] \in AccountsIn(d) \cap Tests
    <2>1. Len(TestUsers) \in Nat /\ users \in SUBSET (1..Len(TestUsers))
      <3>1. DOMAIN TestUsers = 1..Len(TestUsers) /\ Len(TestUsers) \in Nat
        BY CatalogueAssumption
      <3> QED BY <3>1 DEF TestUsersIn
    <2> HIDE DEF users
    <2>2. Cardinality(users) \in Nat /\ IsFiniteSet(users)
      BY <2>1, PlacesAre
    <2>3. Cardinality(users) # 0
      BY <1>1, <2>2, FS_EmptySet
    <2>4. IsFiniteSet(d.questions)
      BY FiniteRows DEF Fits, QuestionsFit
    <2>5. Before(q) \subseteq d.questions
      OBVIOUS
    <2> HIDE DEF Before, S
    <2>6. Cardinality(Before(q)) \in Nat
      <3>1. IsFiniteSet(Before(q))
        BY <2>4, <2>5, FS_Subset
      <3> QED BY <3>1, FS_CardinalityType
    <2> DEFINE c == (Cardinality(Before(q)) % Cardinality(users)) + 1
    <2>7. c \in 1..Cardinality(users)
      BY <2>2, <2>3, <2>6
    <2> HIDE DEF c
    <2>8. \E i \in users : Place(i, users) = c
      BY <2>1, <2>7, PlaceTaken
    <2>9. Turn(q) \in users
      BY <2>8 DEF c
    <2>10. a[q] = TestUsers[Turn(q)]
      OBVIOUS
    <2> HIDE DEF Turn, a
    <2> QED BY <2>9, <2>10 DEF users, TestUsersIn, Tests
  <1>4. \A q \in S : q \in d.questions
    OBVIOUS
  <1> HIDE DEF S, a, users
  <1>5. \A q \in d.questions : f[q] = IF q \in S THEN Reauthored(q, a[q]) ELSE q
    OBVIOUS
  <1> HIDE DEF f, e
  <1>6. e = With(d, d.users, Q, d.votes)
    <2> HIDE DEF Q
    <2> QED BY <1>2, QuestionsReplaced DEF Database
  <1>7. e.users = d.users /\ e.questions = Q /\ e.votes = d.votes /\ e.schema = d.schema
    <2> HIDE DEF Q
    <2> QED BY <1>6, WithFields
  <1>8. ASSUME NEW q \in d.questions
        PROVE  /\ f[q].id = q.id /\ f[q].title = q.title /\ f[q].created = q.created
               /\ f[q].author \in AccountsIn(d) \cup {Nobody}
               /\ q.created = "seed" => f[q].author \in Tests \cup {Nobody}
    <2>1. QuestionRow(q) /\ q.author \in AccountsIn(d) \cup {Nobody}
      BY DEF Database, Fits, QuestionsFit
    <2>2. q.created = "seed" => q.author \in Tests \cup {Nobody}
      BY DEF Fits, SeedsFit, Seeds
    <2> QED BY <1>3, <1>5, <2>1, <2>2, NewAuthor
  <1>9. /\ ~(r < Authors) /\ ~(r < FourOptions) /\ r >= FirstQuestions
        /\ ~(r < SeedCatalogue) /\ ~(r < SeedAuthors)
    OBVIOUS
  <1>10. \A v \in d.votes : /\ r >= ReasonsRequired => v.reason
                            /\ r < FourOptions => v.option = "A"
    BY DEF Fits, VotesFit
  <1>11. OneByOneFits(d, e, f, r, r)
    BY <1>7, <1>8, <1>9, <1>10 DEF OneByOneFits, Q
  <1>12. Fits(e, r)
    BY <1>11, OneByOne
  <1> QED BY <1>7, <1>12 DEF e

\* The rows an upgrade leaves satisfy what its revision asks, and nicknames that
\* differ stay different.
LEMMA UpFits ==
    ASSUME NEW d, Database(d), NEW r \in 1..20, Fits(d, r - 1), RowsUp(r, d).schema # Failed,
           today \in {"early", "late"}
    PROVE  LET e == RowsUp(r, d)
           IN  /\ Fits(e, r) /\ e.schema = d.schema
               /\ NicksFit(d) \/ r = UniqueNicknames => NicksFit(e)
  <1> USE DEF FirstQuestions, ReasonsRequired, SeedCatalogue, UniqueNicknames, SeedUsers, SeedAuthors
  <1> DEFINE e == RowsUp(r, d)
  <1>1. ASSUME e.users = d.users
        PROVE  NicksFit(d) => NicksFit(e)
    BY <1>1 DEF NicksFit
  <1>2. CASE r = FirstQuestions
    <2>1. e = SeedFirstQuestions(d) /\ Fits(d, 8)
      BY <1>2 DEF RowsUp
    <2> HIDE DEF e
    <2> QED BY <1>1, <1>2, <2>1, FirstFit DEF e
  <1>3. CASE r = ReasonsRequired
    <2>1. e = DropUnreasonedVotes(d) /\ Fits(d, 10)
      BY <1>3 DEF RowsUp
    <2> HIDE DEF e
    <2> QED BY <1>1, <1>3, <2>1, ReasonedFit DEF e
  <1>4. CASE r \notin {FirstQuestions, ReasonsRequired}
    <2>1. Fits(d, r)
      <3>1. r - 1 \in 0..20 /\ r \in 0..20 /\ r = (r - 1) + 1
        OBVIOUS
      <3> QED BY <1>4, <3>1, FitsOn
    <2>2. CASE r = SeedCatalogue
      <3>1. e = TopUpCatalogue(d) /\ r \in SeedCatalogue..20
        BY <2>2 DEF RowsUp
      <3> HIDE DEF e
      <3> QED BY <1>1, <2>1, <2>2, <3>1, CatalogueFit DEF e
    <2>3. CASE r = UniqueNicknames
      <3>1. e = RenameDuplicates(d)
        BY <2>3 DEF RowsUp
      <3> HIDE DEF e
      <3> QED BY <2>1, <2>3, <3>1, RenamedFit DEF e
    <2>4. CASE r = SeedUsers
      <3>1. e = AddTestUsers(d)
        BY <2>4 DEF RowsUp
      <3> HIDE DEF e
      <3> QED BY <2>1, <2>4, <3>1, TestUsersFit DEF e
    <2>5. CASE r = SeedAuthors
      <3>1. e = AssignAuthors(d) /\ r \in SeedAuthors..20
        BY <2>5 DEF RowsUp
      <3> HIDE DEF e
      <3> QED BY <1>1, <2>1, <2>5, <3>1, AuthorsFit DEF e
    <2>6. CASE r \notin {SeedCatalogue, UniqueNicknames, SeedUsers, SeedAuthors}
      <3>1. e = d
        BY <1>4, <2>6 DEF RowsUp
      <3> HIDE DEF e
      <3> QED BY <2>1, <2>6, <3>1 DEF e
    <2> QED BY <2>2, <2>3, <2>4, <2>5, <2>6
  <1> QED BY <1>2, <1>3, <1>4

\* Whoever is deleted takes the votes along and leaves no question as its author.
LEMMA WithoutFit ==
    ASSUME NEW d, Database(d), NEW r, Fits(d, r), NEW gone, gone \cap Guests = {}
    PROVE  LET e == WithoutUsers(d, gone) IN Fits(e, r) /\ (NicksFit(d) => NicksFit(e))
  <1> DEFINE U == {u \in d.users : u.account \notin gone}
             V == {v \in d.votes : v.by \notin gone}
             f == [q \in d.questions |-> IF q.author \in gone THEN Reauthored(q, Nobody) ELSE q]
             Q == {f[q] : q \in d.questions}
             e == WithoutUsers(d, gone)
             x == [d EXCEPT !.users = U]
             y == [x EXCEPT !.votes = V]
  <1>1. e = [y EXCEPT !.questions = Q]
    BY DEF WithoutUsers, Reauthored
  <1>2. Shaped(d)
    BY DEF Database
  <1>3. \A q \in d.questions : f[q] = IF q.author \in gone THEN Reauthored(q, Nobody) ELSE q
    OBVIOUS
  <1>4. \A q \in d.questions : f[q] \in Q
    OBVIOUS
  <1> HIDE DEF U, V, f, Q, e, x, y
  <1>5. x = With(d, U, d.questions, d.votes)
    BY <1>2, UsersReplaced DEF x
  <1>6. Shaped(x) /\ x.rev = d.rev /\ x.schema = d.schema /\ x.users = U /\ x.questions = d.questions
    BY <1>5, WithFields
  <1>7. y = With(x, x.users, x.questions, V)
    BY <1>6, VotesReplaced DEF y
  <1>8. Shaped(y) /\ y.rev = d.rev /\ y.schema = d.schema /\ y.users = U /\ y.votes = V
    BY <1>6, <1>7, WithFields
  <1>9. e = With(y, y.users, Q, y.votes)
    BY <1>1, <1>8, QuestionsReplaced
  <1>10. e.users = U /\ e.questions = Q /\ e.votes = V
    BY <1>8, <1>9, WithFields
  <1>11. e.questions = {f[q] : q \in d.questions}
    BY <1>10 DEF Q
  <1>12. AccountsIn(e) = AccountsIn(d) \ gone
    BY <1>10 DEF AccountsIn, U
  <1>13. UsersFit(e) /\ (NicksFit(d) => NicksFit(e))
    BY <1>10 DEF Fits, UsersFit, NicksFit, Numbered, U
  <1>14. ASSUME NEW q \in d.questions
         PROVE  /\ f[q].id = q.id /\ f[q].options = q.options
                /\ f[q].title = q.title /\ f[q].created = q.created
                /\ f[q].author \in AccountsIn(e) \cup {Nobody}
                /\ f[q].author \in {q.author, Nobody}
    <2>1. QuestionRow(q) /\ q.author \in AccountsIn(d) \cup {Nobody}
      BY DEF Database, Fits, QuestionsFit
    <2> QED BY <1>3, <1>12, <2>1, NewAuthor
  <1>15. QuestionsFit(e, r)
    <2>1. QuestionsFit(d, r)
      BY DEF Fits
    <2>2. \A q \in d.questions :
               /\ f[q].id = q.id
               /\ f[q].author \in AccountsIn(e) \cup {Nobody}
               /\ r < Authors => f[q].author = Nobody
               /\ r < FourOptions => f[q].options = "AB"
               /\ r >= FirstQuestions
      BY <1>14, <2>1 DEF QuestionsFit
    <2> QED BY <1>11, <2>1, <2>2, QuestionsChanged
  <1>16. VotesFit(e, r)
    <2>1. ASSUME NEW v \in V
          PROVE  /\ v \in d.votes /\ \E p \in Q : p.id = v.question
                 /\ v.by \in Guests \cup AccountsIn(e)
      <3>1. v \in d.votes /\ v.by \notin gone
        BY DEF V
      <3>2. PICK q \in d.questions : q.id = v.question
        BY <3>1 DEF Fits, VotesFit
      <3>3. v.by \in Guests \cup AccountsIn(d)
        BY <3>1 DEF Fits, VotesFit
      <3> QED BY <1>4, <1>12, <1>14, <3>1, <3>2, <3>3
    <2> QED BY <1>10, <2>1 DEF Fits, VotesFit
  <1>17. SeedsFit(e, r)
    <2>1. SeedsFit(d, r)
      BY DEF Fits
    <2>2. \A q \in d.questions : f[q].id = q.id /\ f[q].title = q.title /\ f[q].created = q.created
      BY <1>14
    <2>3. \A q \in d.questions : q.created = "seed" =>
               /\ f[q].author \in Tests \cup {Nobody}
               /\ r < SeedAuthors => f[q].author = Nobody
      BY <1>14, <2>1 DEF SeedsFit, Seeds
    <2> QED BY <1>11, <2>1, <2>2, <2>3, SeedsChanged
  <1> QED BY <1>13, <1>15, <1>16, <1>17 DEF Fits, e

\* The rows a downgrade leaves satisfy what the revision before asks.
LEMMA DownFits ==
    ASSUME NEW d, Database(d), NEW r \in 1..20, Fits(d, r)
    PROVE  LET e == RowsDown(r, d) IN Fits(e, r - 1) /\ (NicksFit(d) => NicksFit(e))
  <1> USE DEF FirstQuestions, FourOptions, Authors, SeedCatalogue, SeedUsers, SeedAuthors
  <1> DEFINE e == RowsDown(r, d)
  <1>0. \A q \in d.questions : /\ QuestionRow(q) /\ q.author \in AccountsIn(d) \cup {Nobody}
                               /\ q.created = "seed" => q.author \in Tests \cup {Nobody}
    BY DEF Database, Fits, QuestionsFit, SeedsFit, Seeds
  <1>1. CASE r = FirstQuestions
    <2>1. e = [d EXCEPT !.questions = {}, !.votes = {}]
      BY <1>1 DEF RowsDown, DropQuestions
    <2>2. e = With(d, d.users, {}, {})
      BY <2>1, QuestionsAndVotesReplaced DEF Database
    <2> HIDE DEF e
    <2>3. e.users = d.users /\ e.questions = {} /\ e.votes = {}
      BY <2>2, WithFields
    <2>4. Numbered({})
      BY DEF Numbered
    <2>5. UsersFit(e) /\ QuestionsFit(e, r - 1) /\ VotesFit(e, r - 1)
      BY <2>3, <2>4 DEF Fits, UsersFit, QuestionsFit, VotesFit
    <2>6. SeedsFit(e, r - 1)
      BY <2>3 DEF SeedsFit, Seeds
    <2> QED BY <2>3, <2>5, <2>6 DEF Fits, NicksFit, e
  <1>2. CASE r = FourOptions
    <2> DEFINE V == {v \in d.votes : v.option \notin {"C", "D"}}
               f == [q \in d.questions |-> [q EXCEPT !.options = "AB"]]
               Q == {f[q] : q \in d.questions}
    <2>1. e = [d EXCEPT !.questions = Q, !.votes = V]
      <3>1. Q = {[q EXCEPT !.options = "AB"] : q \in d.questions}
        BY Zenon
      <3>2. e = [d EXCEPT !.votes = V, !.questions = {[q EXCEPT !.options = "AB"] : q \in d.questions}]
        BY <1>2 DEF RowsDown, ForgetExtraOptions
      <3>3. e = [d EXCEPT !.votes = V, !.questions = Q]
        BY <3>1, <3>2, Zenon
      <3> HIDE DEF Q, V, e
      <3> QED BY <3>3
    <2>2. ASSUME NEW q \in d.questions
          PROVE  /\ f[q].id = q.id /\ f[q].author = q.author /\ f[q].options = "AB"
                 /\ f[q].title = q.title /\ f[q].created = q.created
      <3>1. f[q] = [id |-> q.id, title |-> q.title, author |-> q.author, options |-> "AB",
                    created |-> q.created]
        BY <1>0 DEF QuestionRow
      <3> QED BY <3>1
    <2>3. ASSUME NEW v \in V
          PROVE  v \in d.votes /\ v.reason /\ v.option = "A"
      BY <1>2 DEF Fits, VotesFit, ReasonsRequired
    <2>4. \A q \in d.questions : q.author = Nobody
      BY <1>2 DEF Fits, QuestionsFit
    <2> HIDE DEF V, f
    <2>5. e = With(d, d.users, Q, V)
      <3> HIDE DEF Q, e
      <3> QED BY <2>1, QuestionsAndVotesReplaced DEF Database
    <2> HIDE DEF e
    <2>6. e.users = d.users /\ e.questions = Q /\ e.votes = V
      <3> HIDE DEF Q
      <3> QED BY <2>5, WithFields
    <2>7. OneByOneFits(d, e, f, r, r - 1)
      BY <1>0, <1>2, <2>2, <2>3, <2>4, <2>6 DEF OneByOneFits
    <2>8. Fits(e, r - 1) /\ (NicksFit(d) => NicksFit(e))
      BY <2>7, OneByOne
    <2> QED BY <2>8 DEF e
  <1>3. CASE r = Authors
    <2> DEFINE f == [q \in d.questions |-> Reauthored(q, Nobody)]
               Q == {f[q] : q \in d.questions}
    <2>1. e = [d EXCEPT !.questions = Q]
      <3>1. Q = {Reauthored(q, Nobody) : q \in d.questions}
        BY Zenon
      <3>2. e = [d EXCEPT !.questions = {Reauthored(q, Nobody) : q \in d.questions}]
        BY <1>3 DEF RowsDown, ForgetAuthors, Reauthored
      <3> QED BY <3>1, <3>2, Zenon
    <2>2. ASSUME NEW q \in d.questions
          PROVE  /\ f[q].id = q.id /\ f[q].author = Nobody
                 /\ f[q].title = q.title /\ f[q].created = q.created
      BY <1>0, NewAuthor
    <2> HIDE DEF f
    <2>3. e = With(d, d.users, Q, d.votes)
      <3> HIDE DEF Q, e
      <3> QED BY <2>1, QuestionsReplaced DEF Database
    <2> HIDE DEF e
    <2>4. e.users = d.users /\ e.questions = Q /\ e.votes = d.votes
      <3> HIDE DEF Q
      <3> QED BY <2>3, WithFields
    <2>5. \A v \in d.votes : /\ r - 1 >= ReasonsRequired => v.reason
                             /\ r - 1 < FourOptions => v.option = "A"
      BY <1>3 DEF Fits, VotesFit, ReasonsRequired
    <2>6. OneByOneFits(d, e, f, r, r - 1)
      BY <1>0, <1>3, <2>2, <2>4, <2>5 DEF OneByOneFits
    <2>7. Fits(e, r - 1) /\ (NicksFit(d) => NicksFit(e))
      BY <2>6, OneByOne
    <2> QED BY <2>7 DEF e
  <1>4. CASE r = SeedCatalogue
    <2> DEFINE gone == {q \in Seeds(d) : q.author = Nobody}
               W == VotesOn(d, gone)
               Q == d.questions \ gone
               V == d.votes \ W
    <2>1. e = RemoveCatalogue(d)
      BY <1>4 DEF RowsDown
    <2>2. e = [d EXCEPT !.questions = Q, !.votes = V]
      BY <2>1 DEF RemoveCatalogue
    <2>3. ASSUME NEW v \in V
          PROVE  v \in d.votes /\ \E q \in Q : q.id = v.question
      <3>1. PICK q \in d.questions : q.id = v.question
        BY DEF Fits, VotesFit
      <3>2. q \notin gone
        BY <3>1 DEF VotesOn
      <3> QED BY <3>1, <3>2
    <2>4. Q \subseteq d.questions /\ \A q \in Q : q.created # "seed"
      <3>1. \A q \in Seeds(d) : q.author = Nobody
        BY <1>4 DEF Fits, SeedsFit
      <3> QED BY <3>1 DEF Seeds
    <2> HIDE DEF Q, V, e
    <2>5. e = With(d, d.users, Q, V)
      BY <2>2, QuestionsAndVotesReplaced DEF Database
    <2>6. e.users = d.users /\ e.questions = Q /\ e.votes = V
      BY <2>5, WithFields
    <2>7. AccountsIn(e) = AccountsIn(d)
      BY <2>6 DEF AccountsIn
    <2>8. UsersFit(e) /\ QuestionsFit(e, r - 1)
      BY <1>4, <2>4, <2>6, <2>7 DEF Fits, UsersFit, QuestionsFit, Numbered
    <2>9. SeedsFit(e, r - 1)
      BY <2>4, <2>6 DEF SeedsFit, Seeds
    <2>10. VotesFit(e, r - 1)
      BY <1>4, <2>3, <2>6, <2>7 DEF Fits, VotesFit, ReasonsRequired
    <2> QED BY <2>6, <2>8, <2>9, <2>10 DEF Fits, NicksFit, e
  <1>5. CASE r = SeedUsers
    <2>1. e = WithoutUsers(d, Tests)
      BY <1>5 DEF RowsDown, RemoveTestUsers
    <2>2. Tests \cap Guests = {}
      BY AccountsAssumption DEF Accounts
    <2>3. Fits(d, r - 1)
      <3>1. r - 1 \in 0..20 /\ r \in 0..20
        OBVIOUS
      <3> QED BY <1>5, <3>1, FitsOn
    <2> HIDE DEF e
    <2> QED BY <2>1, <2>2, <2>3, WithoutFit DEF e
  <1>6. CASE r = SeedAuthors
    <2> DEFINE f == [q \in d.questions |-> IF ByCutoff(q) /\ q.author \in Tests
                                           THEN Reauthored(q, Nobody) ELSE q]
               Q == {f[q] : q \in d.questions}
               R == {IF ByCutoff(q) /\ q.author \in Tests THEN Reauthored(q, Nobody) ELSE q :
                         q \in d.questions}
    <2>1. e = [d EXCEPT !.questions = Q]
      <3>1. Q = R
        BY Zenon
      <3>2. e = [d EXCEPT !.questions = R]
        BY <1>6 DEF RowsDown, UnassignAuthors, Reauthored
      <3> QED BY <3>1, <3>2, Zenon
    <2>2. ASSUME NEW q \in d.questions
          PROVE  /\ f[q].id = q.id /\ f[q].author \in {q.author, Nobody}
                 /\ f[q].title = q.title /\ f[q].created = q.created
                 /\ q.created = "seed" => f[q].author = Nobody
      <3>1. CASE ByCutoff(q) /\ q.author \in Tests
        BY <1>0, <3>1, NewAuthor
      <3>2. CASE ~(ByCutoff(q) /\ q.author \in Tests)
        BY <1>0, <3>2 DEF ByCutoff
      <3> QED BY <3>1, <3>2
    <2> HIDE DEF f
    <2>3. e = With(d, d.users, Q, d.votes)
      <3> HIDE DEF Q, e
      <3> QED BY <2>1, QuestionsReplaced DEF Database
    <2> HIDE DEF e
    <2>4. e.users = d.users /\ e.questions = Q /\ e.votes = d.votes
      <3> HIDE DEF Q
      <3> QED BY <2>3, WithFields
    <2>5. \A v \in d.votes : /\ r - 1 >= ReasonsRequired => v.reason
                             /\ r - 1 < FourOptions => v.option = "A"
      BY <1>6 DEF Fits, VotesFit, ReasonsRequired
    <2>6. OneByOneFits(d, e, f, r, r - 1)
      BY <1>0, <1>6, <2>2, <2>4, <2>5 DEF OneByOneFits
    <2>7. Fits(e, r - 1) /\ (NicksFit(d) => NicksFit(e))
      BY <2>6, OneByOne
    <2> QED BY <2>7 DEF e
  <1>7. CASE r \notin {FirstQuestions, FourOptions, Authors, SeedCatalogue, SeedUsers, SeedAuthors}
    <2>1. e = d
      BY <1>7 DEF RowsDown
    <2>2. Fits(d, r - 1)
      <3>1. r - 1 \in 0..20 /\ r \in 0..20
        OBVIOUS
      <3> QED BY <1>7, <3>1, FitsOn
    <2> HIDE DEF e
    <2> QED BY <2>1, <2>2 DEF e
  <1> QED BY <1>1, <1>2, <1>3, <1>4, <1>5, <1>6, <1>7

----------------------------------------------------------------------------
\* The invariant: what is committed and what a command sees fit their revision,
\* and nicknames differ wherever the schema holds a key of them.
Good(d) == Fits(d, d.rev) /\ (Unique(d) => NicksFit(d))
GoodInv ==
    /\ Good(db) /\ (work # Idle => Good(work))
    /\ goal \in Targets \cup {0} /\ today \in {"early", "late"}
    /\ acts \in 0..MaxActs /\ commands \in 0..MaxCommands

LEMMA GoodIsSound == ASSUME NEW d, Good(d) PROVE Sound(d)
  BY DEF Good, Sound, Fits, UsersFit, NicksFit, QuestionsFit, VotesFit

LEMMA UpGood ==
    ASSUME NEW d, Database(d), Versioned(d), d.rev \in 0..19, Good(d), Upgraded(d).schema # Failed,
           today \in {"early", "late"}
    PROVE  Good(Upgraded(d))
  <1> DEFINE r == d.rev + 1
             rows == RowsUp(r, d)
             ops == Revisions[r].up
             s == After(rows.schema, ops)
             e == Upgraded(d)
  <1>1. e = Turned(rows, r, s)
    BY DEF Upgraded, Turned
  <1>2. r \in 1..20 /\ r - 1 = d.rev
    OBVIOUS
  <1> HIDE DEF r
  <1>3. Moves(d, rows)
    BY <1>2, UpMoves
  <1>4. Fits(d, r - 1)
    BY <1>2 DEF Good
  <1>5. Versioned(e)
    <2> HIDE DEF rows, s
    <2> QED BY UpKeeps
  <1> HIDE DEF e, s
  <1>6. /\ e.rev = r /\ e.schema = s
        /\ e.users = rows.users /\ e.questions = rows.questions /\ e.votes = rows.votes
    <2> HIDE DEF rows
    <2> QED BY <1>1, <1>3, RowsTurned DEF Moves
  <1>7. rows.schema # Failed
    <2>1. Len(ops) \in Nat
      BY <1>2, StatementsCounted
    <2> HIDE DEF rows, ops
    <2> QED BY <1>6, <2>1, FailedStays DEF e, s
  <1>8. /\ Fits(rows, r) /\ rows.schema = d.schema
        /\ NicksFit(d) \/ r = UniqueNicknames => NicksFit(rows)
    BY <1>2, <1>4, <1>7, UpFits
  <1> HIDE DEF rows
  <1>9. Fits(e, r) /\ (NicksFit(rows) => NicksFit(e))
    BY <1>6, <1>8, FitsByRows
  <1>10. ASSUME Unique(e), r # UniqueNicknames
         PROVE  Unique(d)
    <2>1. e.rev >= 15
      BY <1>5, <1>10, NicknamesUnique
    <2>2. d.rev >= 15
      BY <1>2, <1>6, <1>10, <2>1 DEF UniqueNicknames
    <2> QED BY <2>2, NicknamesUnique
  <1> QED BY <1>6, <1>8, <1>9, <1>10 DEF Good, e

LEMMA DownGood ==
    ASSUME NEW d, Database(d), Versioned(d), d.rev \in 1..20, Good(d), Downgraded(d).schema # Failed
    PROVE  Good(Downgraded(d))
  <1> DEFINE r == d.rev
             rows == RowsDown(r, d)
             s == After(rows.schema, Revisions[r].down)
             e == Downgraded(d)
  <1>1. e = Turned(rows, r - 1, s)
    BY DEF Downgraded, Turned
  <1>2. r \in 1..20 /\ Fits(d, r)
    BY DEF Good
  <1>3. Moves(d, rows)
    BY DownMoves
  <1>4. Versioned(e)
    <2> HIDE DEF rows, s
    <2> QED BY DownKeeps
  <1> HIDE DEF e, s
  <1>5. /\ e.rev = r - 1 /\ e.schema = s
        /\ e.users = rows.users /\ e.questions = rows.questions /\ e.votes = rows.votes
    <2> HIDE DEF rows
    <2> QED BY <1>1, <1>3, RowsTurned DEF Moves
  <1>6. Fits(rows, r - 1) /\ (NicksFit(d) => NicksFit(rows))
    BY <1>2, DownFits
  <1> HIDE DEF rows
  <1>7. Fits(e, r - 1) /\ (NicksFit(rows) => NicksFit(e))
    BY <1>5, <1>6, FitsByRows
  <1>8. Unique(e) => Unique(d)
    BY <1>2, <1>4, <1>5, NicknamesUnique
  <1> QED BY <1>5, <1>6, <1>7, <1>8 DEF Good, e

LEMMA GoodInit == MigrationsInit => GoodInv
  <1> SUFFICES ASSUME MigrationsInit PROVE GoodInv
    OBVIOUS
  <1>1. /\ work = Idle /\ goal = 0 /\ today \in {"early", "late"}
        /\ acts \in 0..MaxActs /\ commands \in 0..MaxCommands
    BY QuotaAssumption DEF MigrationsInit
  <1>2. CASE db = [rev |-> 0, schema |-> LegacySchema, users |-> {}, questions |-> {}, votes |-> {}]
    <2>1. db.users = {} /\ db.questions = {} /\ db.votes = {}
      BY <1>2
    <2>2. Numbered({})
      BY DEF Numbered
    <2>3. Good(db)
      BY <2>1, <2>2 DEF Good, Fits, UsersFit, NicksFit, QuestionsFit, SeedsFit, Seeds, VotesFit
    <2> QED BY <1>1, <2>3 DEF GoodInv
  <1>3. CASE db = [rev |-> HeadRevision, schema |-> ModelSchema, users |-> {User(1, Demo, Demo)},
                   questions |-> {Question(i, Catalogue[i], Demo, "AB", today) : i \in DOMAIN Catalogue},
                   votes |-> {}]
    <2> DEFINE Q == {Question(i, Catalogue[i], Demo, "AB", today) : i \in DOMAIN Catalogue}
               u == User(1, Demo, Demo)
               n == Len(Catalogue)
    <2>1. /\ n \in Nat /\ DOMAIN Catalogue = 1..n
      BY CatalogueAssumption
    <2> HIDE DEF n
    <2>2. \A q \in Q : \E i \in 1..n : q = Question(i, Catalogue[i], Demo, "AB", today)
      BY <2>1
    <2>3. db = [rev |-> HeadRevision, schema |-> ModelSchema, users |-> {u}, questions |-> Q, votes |-> {}]
      BY <1>3
    <2> HIDE DEF Q, u
    <2>4. db.rev = 20 /\ db.users = {u} /\ db.questions = Q /\ db.votes = {}
      BY <2>3, HeadIsTwenty
    <2>5. u.id = 1 /\ u.account = Demo /\ u.nick.of = 0
      BY MadeFields DEF u
    <2>6. Numbered({u})
      BY <2>5 DEF Numbered
    <2>7. UsersFit(db) /\ NicksFit(db) /\ AccountsIn(db) = {Demo}
      BY <2>4, <2>5, <2>6 DEF UsersFit, NicksFit, AccountsIn
    <2>8. \A q \in Q : q.id \in 1..n /\ q.author = Demo /\ q.created # "seed"
      BY <1>1, <2>2, MadeFields
    <2>9. \A p, q \in Q : p # q => p.id # q.id
      BY <2>2, MadeFields
    <2>10. Numbered(Q)
      BY <2>1, <2>8 DEF Numbered
    <2>11. QuestionsFit(db, 20) /\ VotesFit(db, 20)
      BY <2>4, <2>7, <2>8, <2>9, <2>10 DEF QuestionsFit, VotesFit, Authors, FourOptions, FirstQuestions
    <2>12. SeedsFit(db, 20)
      BY <2>4, <2>8 DEF SeedsFit, Seeds, SeedCatalogue, SeedAuthors
    <2>13. Good(db)
      BY <2>4, <2>7, <2>11, <2>12 DEF Good, Fits
    <2> QED BY <1>1, <2>13 DEF GoodInv
  <1> QED BY <1>2, <1>3 DEF MigrationsInit

LEMMA ActGood ==
    ASSUME GoodInv, NEW e, Act(e), Good(e)
    PROVE  GoodInv'
  <1>1. acts' \in 0..MaxActs
    BY QuotaAssumption DEF GoodInv, Act
  <1> QED BY <1>1 DEF GoodInv, Act

LEMMA SignUpGood ==
    ASSUME MigrationsInv, GoodInv, NEW account, NEW name, SignUp(account, name)
    PROVE  GoodInv'
  <1> DEFINE x == User(NextId(db.users), account, name)
             U == db.users \cup {x}
             e == [db EXCEPT !.users = U]
  <1>1. Act(e)
    BY DEF SignUp
  <1>2. x.id = NextId(db.users) /\ x.account = account /\ x.nick = Plain(name) /\ x.nick.of = 0
    BY MadeFields
  <1>3. Fits(db, db.rev) /\ (Unique(db) => NicksFit(db))
    BY DEF GoodInv, Good
  <1>4. Numbered(db.users)
    BY <1>3 DEF Fits, UsersFit
  <1>5. x.id \in Nat \ {0} /\ \A u \in db.users : u.id \in 1..x.id /\ u.id # x.id
    <2>1. NextId(db.users) \in Nat \ {0}
          /\ \A u \in db.users : u.id \in Nat \ {0} /\ u.id < NextId(db.users)
      BY <1>4, NextIsFresh
    <2> HIDE DEF x
    <2> QED BY <1>2, <2>1
  <1> HIDE DEF x, e
  <1>6. e = With(db, U, db.questions, db.votes)
    <2> HIDE DEF U
    <2> QED BY UsersReplaced DEF MigrationsInv, DatabaseInv, Database, e
  <1>7. /\ e.users = U /\ e.questions = db.questions /\ e.votes = db.votes
        /\ e.schema = db.schema /\ e.rev = db.rev
    <2> HIDE DEF U
    <2> QED BY <1>6, WithFields
  <1>8. AccountsIn(db) \subseteq AccountsIn(e)
    BY <1>7 DEF AccountsIn
  <1>9. \A u \in db.users : u.account # x.account
    BY <1>2 DEF SignUp, AccountsIn
  <1>10. Numbered(U)
    BY <1>5 DEF Numbered
  <1>11. UsersFit(e)
    <2>1. \A u \in U : u.nick.of \in {0, u.id}
      BY <1>2, <1>3 DEF Fits, UsersFit
    <2>2. \A u, v \in U : u # v => u.id # v.id /\ u.account # v.account
      BY <1>3, <1>5, <1>9 DEF Fits, UsersFit
    <2> QED BY <1>7, <1>10, <2>1, <2>2 DEF UsersFit
  <1>12. Unique(e) => NicksFit(e)
    <2>1. Unique(e) = Unique(db)
      BY <1>7 DEF Unique
    <2>2. Unique(db) => \A u \in db.users : u.nick # x.nick
      BY <1>2 DEF SignUp
    <2> QED BY <1>3, <1>7, <2>1, <2>2 DEF NicksFit
  <1>13. QuestionsFit(e, e.rev) /\ SeedsFit(e, e.rev) /\ VotesFit(e, e.rev)
    <2> HIDE DEF U
    <2> QED BY <1>3, <1>7, <1>8, SeedsSame DEF Fits, QuestionsFit, VotesFit
  <1>14. Good(e)
    BY <1>11, <1>12, <1>13 DEF Good, Fits
  <1> QED BY <1>1, <1>14, ActGood

LEMMA WithdrawGood ==
    ASSUME MigrationsInv, GoodInv, NEW account \in People \cup Tests, Withdraw(account)
    PROVE  GoodInv'
  <1> DEFINE e == WithoutUsers(db, {account})
  <1>1. Act(e)
    BY DEF Withdraw
  <1>2. Database(db)
    BY DEF MigrationsInv, DatabaseInv
  <1>3. {account} \cap Guests = {}
    BY AccountsAssumption DEF Accounts
  <1>4. Fits(e, db.rev) /\ (NicksFit(db) => NicksFit(e))
    BY <1>2, <1>3, WithoutFit DEF GoodInv, Good
  <1>5. e.rev = db.rev /\ e.schema = db.schema
    BY <1>2, UsersGone DEF Moves
  <1> HIDE DEF e
  <1>6. Good(e)
    BY <1>4, <1>5 DEF Good, GoodInv, Unique
  <1> QED BY <1>1, <1>6, ActGood

LEMMA VoteGood ==
    ASSUME MigrationsInv, GoodInv, NEW by, NEW id, NEW option \in {"A", "C"}, NEW reason,
           Vote(by, id, option, reason)
    PROVE  GoodInv'
  <1> DEFINE w == [question |-> id, by |-> by, option |-> option, reason |-> reason]
             V == db.votes \cup {w}
             e == [db EXCEPT !.votes = V]
  <1>1. Act(e)
    BY DEF Vote
  <1>2. w.question = id /\ w.by = by /\ w.option = option /\ w.reason = reason
    OBVIOUS
  <1>3. Fits(db, db.rev) /\ (Unique(db) => NicksFit(db))
    BY DEF GoodInv, Good
  <1>4. PICK q \in db.questions : q.id = id /\ (option = "C" => q.options = "ABC")
    BY DEF Vote
  <1>5. db.rev < FourOptions => option = "A"
    BY <1>3, <1>4 DEF Fits, QuestionsFit
  <1>6. by \in Guests \cup AccountsIn(db) /\ (db.rev >= ReasonsRequired => reason)
    BY DEF Vote
  <1> HIDE DEF w, e
  <1>7. e = With(db, db.users, db.questions, V)
    <2> HIDE DEF V
    <2> QED BY VotesReplaced DEF MigrationsInv, DatabaseInv, Database, e
  <1>8. /\ e.users = db.users /\ e.questions = db.questions /\ e.votes = V
        /\ e.schema = db.schema /\ e.rev = db.rev
    <2> HIDE DEF V
    <2> QED BY <1>7, WithFields
  <1>9. AccountsIn(e) = AccountsIn(db)
    BY <1>8 DEF AccountsIn
  <1>10. UsersFit(e) /\ QuestionsFit(e, e.rev) /\ (Unique(e) => NicksFit(e))
    BY <1>3, <1>8, <1>9 DEF Fits, UsersFit, QuestionsFit, NicksFit, Unique
  <1>11. VotesFit(e, e.rev)
    <2>1. ASSUME NEW v \in V
          PROVE  /\ \E p \in e.questions : p.id = v.question
                 /\ v.by \in Guests \cup AccountsIn(e)
                 /\ e.rev >= ReasonsRequired => v.reason
                 /\ v.option \in {"A", "C"}
                 /\ e.rev < FourOptions => v.option = "A"
      <3>1. CASE v \in db.votes
        BY <1>3, <1>8, <1>9, <3>1 DEF Fits, VotesFit
      <3>2. CASE v = w
        BY <1>2, <1>4, <1>5, <1>6, <1>8, <1>9, <3>2
      <3> QED BY <3>1, <3>2
    <2> QED BY <1>8, <2>1 DEF VotesFit
  <1>12. SeedsFit(e, e.rev)
    BY <1>3, <1>8, SeedsSame DEF Fits
  <1>13. Good(e)
    BY <1>10, <1>11, <1>12 DEF Good, Fits
  <1> QED BY <1>1, <1>13, ActGood

LEMMA PublishGood ==
    ASSUME MigrationsInv, GoodInv, NEW author, NEW title, NEW options, Publish(author, title, options)
    PROVE  GoodInv'
  <1> DEFINE x == Question(NextId(db.questions), title, author, options, today)
             Q == db.questions \cup {x}
             e == [db EXCEPT !.questions = Q]
  <1>1. Act(e)
    BY DEF Publish
  <1>2. x.id = NextId(db.questions) /\ x.author = author /\ x.options = options
    BY MadeFields
  <1>3. Fits(db, db.rev) /\ (Unique(db) => NicksFit(db))
    BY DEF GoodInv, Good
  <1>4. Numbered(db.questions)
    BY <1>3 DEF Fits, QuestionsFit
  <1>5. x.id \in Nat \ {0} /\ \A q \in db.questions : q.id \in 1..x.id /\ q.id # x.id
    <2>1. NextId(db.questions) \in Nat \ {0}
          /\ \A q \in db.questions : q.id \in Nat \ {0} /\ q.id < NextId(db.questions)
      BY <1>4, NextIsFresh
    <2> HIDE DEF x
    <2> QED BY <1>2, <2>1
  <1> HIDE DEF x, e
  <1>6. e = With(db, db.users, Q, db.votes)
    <2> HIDE DEF Q
    <2> QED BY QuestionsReplaced DEF MigrationsInv, DatabaseInv, Database, e
  <1>7. /\ e.users = db.users /\ e.questions = Q /\ e.votes = db.votes
        /\ e.schema = db.schema /\ e.rev = db.rev
    <2> HIDE DEF Q
    <2> QED BY <1>6, WithFields
  <1>8. AccountsIn(e) = AccountsIn(db)
    BY <1>7 DEF AccountsIn
  <1>9. /\ x.author \in AccountsIn(db) \cup {Nobody}
        /\ db.rev < Authors => x.author = Nobody
        /\ db.rev < FourOptions => x.options = "AB"
        /\ db.rev >= FirstQuestions
    BY <1>2 DEF Publish
  <1>10. Numbered(Q)
    BY <1>5 DEF Numbered
  <1>11. QuestionsFit(e, e.rev)
    <2>1. \A p, q \in Q : p # q => p.id # q.id
      BY <1>3, <1>5 DEF Fits, QuestionsFit
    <2>2. ASSUME NEW q \in Q
          PROVE  /\ q.author \in AccountsIn(e) \cup {Nobody}
                 /\ e.rev < Authors => q.author = Nobody
                 /\ e.rev < FourOptions => q.options = "AB"
                 /\ e.rev >= FirstQuestions
      BY <1>3, <1>7, <1>8, <1>9 DEF Fits, QuestionsFit
    <2> QED BY <1>7, <1>10, <2>1, <2>2 DEF QuestionsFit
  <1>12. VotesFit(e, e.rev)
    <2>1. \A q \in db.questions : q \in e.questions
      BY <1>7
    <2> HIDE DEF Q
    <2> QED BY <1>3, <1>7, <1>8, <2>1 DEF Fits, VotesFit
  <1>13. UsersFit(e) /\ (Unique(e) => NicksFit(e))
    <2> HIDE DEF Q
    <2> QED BY <1>3, <1>7 DEF Fits, UsersFit, NicksFit, Unique
  <1>14. SeedsFit(e, e.rev)
    <2>1. x.created # "seed"
      BY MadeFields DEF GoodInv, x
    <2>2. SeedsFit(db, db.rev)
      BY <1>3 DEF Fits
    <2>3. Seeds(e) = Seeds(db)
      BY <1>7, <2>1 DEF Seeds
    <2>4. ASSUME NEW p \in Q, NEW q \in Q, p # q, p \in Seeds(db)
          PROVE  p.title # q.title \/ q.id > p.id
      <3>1. p \in db.questions
        BY <2>4 DEF Seeds
      <3>2. CASE q \in db.questions
        BY <2>2, <2>4, <3>1, <3>2 DEF SeedsFit
      <3>3. CASE q = x
        BY <1>5, <3>1, <3>3
      <3> QED BY <3>2, <3>3
    <2> QED BY <1>7, <2>2, <2>3, <2>4 DEF SeedsFit
  <1>15. Good(e)
    BY <1>11, <1>12, <1>13, <1>14 DEF Good, Fits
  <1> QED BY <1>1, <1>15, ActGood

LEMMA GoodNext ==
    ASSUME MigrationsInv, GoodInv, MigrationsNext
    PROVE  GoodInv'
  <1>1. ASSUME NEW target \in Targets, Command(target)
        PROVE  GoodInv'
    <2>1. commands' \in 0..MaxCommands
      BY <1>1, QuotaAssumption DEF GoodInv, Command
    <2> QED BY <1>1, <2>1 DEF GoodInv, Command
  <1>2. ASSUME StepUp
        PROVE  GoodInv'
    <2>1. /\ work # Idle /\ work.rev < goal /\ Upgraded(work).schema # Failed
          /\ work' = Upgraded(work) /\ UNCHANGED <<db, goal, today, acts, commands>>
      BY <1>2 DEF StepUp
    <2>2. Database(work) /\ Versioned(work) /\ work.rev \in 0..19
      BY <2>1 DEF MigrationsInv, CommandInv
    <2>3. Good(work')
      BY <2>1, <2>2, UpGood DEF GoodInv
    <2> QED BY <2>1, <2>3 DEF GoodInv
  <1>3. ASSUME StepDown
        PROVE  GoodInv'
    <2>1. /\ work # Idle /\ work.rev > goal /\ Downgraded(work).schema # Failed
          /\ work' = Downgraded(work) /\ UNCHANGED <<db, goal, today, acts, commands>>
      BY <1>3 DEF StepDown
    <2>2. Database(work) /\ Versioned(work) /\ work.rev \in 1..20
      BY <2>1 DEF MigrationsInv, CommandInv
    <2>3. Good(work')
      BY <2>1, <2>2, DownGood DEF GoodInv
    <2> QED BY <2>1, <2>3 DEF GoodInv
  <1>4. ASSUME Commit \/ Rollback
        PROVE  GoodInv'
    BY <1>4 DEF GoodInv, Commit, Rollback
  <1>5. ASSUME DayPasses \/ Finished
        PROVE  GoodInv'
    BY <1>5 DEF GoodInv, DayPasses, Finished, migrationVars
  <1> QED BY <1>1, <1>2, <1>3, <1>4, <1>5, SignUpGood, WithdrawGood, VoteGood, PublishGood
          DEF MigrationsNext

LEMMA BothInvs == MigrationsSpec => [](MigrationsInv /\ GoodInv)
  <1>1. MigrationsInv /\ GoodInv /\ [MigrationsNext]_migrationVars => MigrationsInv' /\ GoodInv'
    <2> SUFFICES ASSUME MigrationsInv, GoodInv, [MigrationsNext]_migrationVars
                 PROVE  MigrationsInv' /\ GoodInv'
      OBVIOUS
    <2>1. CASE UNCHANGED migrationVars
      BY <2>1 DEF MigrationsInv, DatabaseInv, CommandInv, GoodInv, migrationVars
    <2> QED BY <2>1, MigrationsNextInv, GoodNext
  <1> QED BY <1>1, MigrationsInitInv, GoodInit, PTL DEF MigrationsSpec

\* At every revision, however it was reached, the rows satisfy what its schema
\* demands: ids, accounts and, where there is a key of them, nicknames are
\* unique, an author or voter has an account, a vote has its question and, from
\* e0d9472e53f0 on, its reason; the same holds of what a running command sees.
THEOREM MigrationsTypeCorrect == MigrationsSpec => []MigrationsTypeOK
  <1>1. MigrationsInv /\ GoodInv => MigrationsTypeOK
    <2> SUFFICES ASSUME MigrationsInv, GoodInv PROVE MigrationsTypeOK
      OBVIOUS
    <2>1. Sound(db) /\ (work # Idle => Sound(work))
      BY GoodIsSound DEF GoodInv
    <2>2. db.rev \in 0..HeadRevision /\ (work # Idle => work.rev \in 0..HeadRevision)
      BY HeadIsTwenty DEF MigrationsInv, DatabaseInv, CommandInv
    <2> QED BY <2>1, <2>2 DEF GoodInv, MigrationsTypeOK
  <1> QED BY <1>1, BothInvs, PTL

\* However often the catalogue is inserted, deleted and inserted again, and
\* whatever was published or given authors in between: it is there and has
\* authors only from the revisions on that do so, and repeats no title there was.
THEOREM CatalogueStaysOnce == MigrationsSpec => []CatalogueFits(db)
  <1>1. MigrationsInv /\ GoodInv => CatalogueFits(db)
    BY DEF GoodInv, Good, Fits, SeedsFit, CatalogueFits
  <1> QED BY <1>1, BothInvs, PTL

\* Every upgrade of an old database makes a schema, and every downgrade restores
\* the one before it; but for the two that would have to bring the removed
\* services back, of which PostgreSQL refuses a statement.
THEOREM DowngradesUndoUpgrades ==
    ASSUME NEW r \in 1..HeadRevision
    PROVE  /\ After(Schemas[r - 1], Revisions[r].up) = Schemas[r] /\ Schemas[r] # Failed
           /\ After(Schemas[r], Revisions[r].down) = IF r \in {7, 8} THEN Failed ELSE Schemas[r - 1]
  <1>1. r \in 1..20 /\ r \in 0..20 /\ r - 1 \in 0..20
    BY HeadIsTwenty
  <1>2. Schemas[r] = SchemaAt(r) /\ Schemas[r - 1] = SchemaAt(r - 1)
    BY <1>1, SchemasAreHistory
  <1> QED BY <1>1, <1>2, AllFit, UpTheHistory, DownTheHistory

\* However a database came to its revision, up, down and up again or from the
\* models: it has the tables, columns, indexes, constraints and keys of that
\* revision, two of them perhaps under PostgreSQL's names, and of the catalogue
\* what that revision allows, no title twice.
THEOREM SchemaIsOfRevision == MigrationsSpec => []SchemaOfRevision
  <1>1. MigrationsInv /\ GoodInv => SchemaOfRevision
    <2> SUFFICES ASSUME MigrationsInv, GoodInv PROVE SchemaOfRevision
      OBVIOUS
    <2>1. Meaning(db.schema) = Schemas[db.rev]
      BY VersionedMeans DEF MigrationsInv, DatabaseInv
    <2>2. CatalogueFits(db)
      BY DEF GoodInv, Good, Fits, SeedsFit, CatalogueFits
    <2> QED BY <2>1, <2>2 DEF SchemaOfRevision
  <1> QED BY <1>1, BothInvs, PTL

\* A command is refused only for the reasons StopsOnlyHere names: what it asks
\* of the schema is always there to be changed, but for the removed services
\* and for the key of nicknames a bootstrap has made; rows stop no way down, and
\* on the way up only test users, or the lack of them.
THEOREM CommandsStopOnlyHere == MigrationsSpec => []StopsOnlyHere
  <1>1. MigrationsInv => StopsOnlyHere
    <2> SUFFICES ASSUME MigrationsInv, work # Idle PROVE StopsOnlyHere
      BY DEF StopsOnlyHere
    <2>1. Database(work) /\ Versioned(work) /\ work.rev \in 0..20 /\ goal \in 0..20
      BY DEF MigrationsInv, CommandInv
    <2>2. ASSUME work.rev < goal, Upgraded(work).schema = Failed
          PROVE  StopsUp(work.rev + 1, work)
      <3>1. work.rev \in 0..19
        BY <2>1, <2>2
      <3> QED BY <2>1, <2>2, <3>1, UpKeeps
    <2>3. ASSUME work.rev > goal, Downgraded(work).schema = Failed
          PROVE  \/ work.rev \in {7, 8}
                 \/ work.rev = UniqueNicknames /\ Has(work, "users_nickname_key")
      <3>1. work.rev \in 1..20
        BY <2>1, <2>3
      <3>2. \/ work.rev \in {7, 8}
            \/ work.rev = 15 /\ work.schema = Model15
        BY <2>1, <2>3, <3>1, DownKeeps
      <3> QED BY <3>2, ModelsNickname DEF UniqueNicknames
    <2> QED BY <2>2, <2>3 DEF StopsOnlyHere, StopsUp
  <1>2. MigrationsSpec => []MigrationsInv
    BY BothInvs, PTL
  <1> QED BY <1>1, <1>2, PTL
=============================================================================
