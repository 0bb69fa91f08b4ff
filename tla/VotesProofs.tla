---------------------------- MODULE VotesProofs ----------------------------
(***************************************************************************)
(* Proofs about Votes, for any accounts, guests, questions and requests.   *)
(*                                                                         *)
(* That no participant has two votes on a question is not inductive over   *)
(* the committed table alone: a commit publishes rows written earlier, a   *)
(* rollback brings old versions back.  IsolationInv says why neither can   *)
(* collide: what a transaction wrote never clashes with a committed row it *)
(* did not write, locks are exclusive, and unlocked rows are committed.    *)
(*                                                                         *)
(* A merge decides row by row from two reads.  HandlersInv says what its   *)
(* rows are, MergesInv that every vote of the guest it has not yet written *)
(* is still on one of its lists, on the right one.  That holds as long as  *)
(* no two merges of one guest overlap (NoRivalMerges), and then no choice  *)
(* is lost and each commit is one step of VoteLedger.                      *)
(***************************************************************************)
EXTENDS VoteOverlaps, FiniteSetTheorems, TLAPS

\* What a handler has established when it stands at a step.
HandlerOK ==
    \A r \in Requests :
        /\ pc[r] \in {"lookup", "save"} => req[r] \in VoteRequest /\ mem[r].owner \in Participants
        /\ pc[r] \in {"list", "split", "drop", "move"} => mem[r].owner \in Users

TypeInv == TypeOK /\ HandlerOK

\* No uncommitted row of transaction r clashes with a committed row that r
\* has not itself rewritten.
WritesFit ==
    \A r \in Requests : \A i \in dirty[r] : \A j \in Ids \ dirty[r] :
        draft[i] # None => ~HasKey(vote, j, draft[i].question, draft[i].owner)

LocksExclusive == \A r, o \in Requests : r # o => dirty[r] \cap dirty[o] = {}

CleanIsCommitted == \A i \in Ids : (\A r \in Requests : i \notin dirty[r]) => draft[i] = vote[i]

IsolationInv ==
    /\ DistinctKeys(vote) /\ DistinctKeys(draft)
    /\ WritesFit /\ LocksExclusive /\ CleanIsCommitted

----------------------------------------------------------------------------
LEMMA IdsFinite == ASSUME NEW S \in SUBSET Ids
                   PROVE  Cardinality(S) \in Nat
<1>1. IsFiniteSet(Ids)
  BY IdsAssumption, FS_Union DEF Ids
<1> QED
  BY <1>1, FS_Subset, FS_CardinalityType

\* The three ways a transaction changes the tables keep their types.
LEMMA WriteTyped ==
    ASSUME TypeOK, NEW r \in Requests, NEW i \in Ids, NEW row \in Row \cup {None}, Write(r, i, row)
    PROVE  draft' \in Table /\ dirty' \in [Requests -> SUBSET Ids]
BY DEF TypeOK, Write, Table

LEMMA CommitTyped ==
    ASSUME TypeOK, NEW r \in Requests, CommitTx(r)
    PROVE  vote' \in Table /\ dirty' \in [Requests -> SUBSET Ids]
BY DEF TypeOK, CommitTx, Table

LEMMA RollBackTyped ==
    ASSUME TypeOK, NEW r \in Requests, RollBack(r)
    PROVE  draft' \in Table /\ dirty' \in [Requests -> SUBSET Ids]
BY DEF TypeOK, RollBack, Table

LEMMA StepTyped ==
    ASSUME TypeOK, NEW r \in Requests, NEW step \in Steps, GoTo(r, step)
    PROVE  pc' \in [Requests -> Steps]
BY DEF TypeOK, GoTo

LEMMA RespondTyped ==
    ASSUME TypeOK, NEW r \in Requests, NEW a \in Answers, Respond(r, a)
    PROVE  pc' \in [Requests -> Steps] /\ answer' \in [Requests -> Answers]
BY DEF TypeOK, Respond, Steps

LEMMA RaiseTyped ==
    ASSUME TypeInv, NEW r \in Requests, Raise(r)
    PROVE  TypeInv'
<1>1. "error" \in Answers
  BY DEF Answers
<1>2. TypeOK'
  BY <1>1, RollBackTyped, RespondTyped DEF Raise, TypeInv, TypeOK
<1>3. HandlerOK'
  BY DEF Raise, Respond, TypeInv, TypeOK, HandlerOK
<1> QED
  BY <1>2, <1>3 DEF TypeInv

LEMMA MemoryFields ==
    ASSUME TypeOK, NEW r \in Requests
    PROVE  /\ mem[r] \in Memory
           /\ mem[r].drops \in SUBSET Ids /\ mem[r].moves \in SUBSET Ids
           /\ mem[r].listed \in SUBSET Listing
           /\ mem[r].row \in Ids \cup {None}
BY DEF TypeOK, Memory

\* Setting a local variable to a legal value keeps mem typed, and only the
\* authentication step sets the owner.
LEMMA MemoryReplaced ==
    ASSUME TypeOK, NEW r \in Requests, NEW m \in Memory, mem' = [mem EXCEPT ![r] = m]
    PROVE  /\ mem' \in [Requests -> Memory] /\ mem'[r] = m
           /\ \A o \in Requests \ {r} : mem'[o] = mem[o]
BY DEF TypeOK

LEMMA OwnerSet ==
    ASSUME TypeOK, NEW r \in Requests, NEW p \in Participants,
           mem' = [mem EXCEPT ![r].owner = p]
    PROVE  /\ mem' \in [Requests -> Memory]
           /\ mem'[r].owner = p /\ \A o \in Requests \ {r} : mem'[o] = mem[o]
           /\ mem'[r].row = mem[r].row
<1> DEFINE m == [mem[r] EXCEPT !.owner = p]
<1>1. mem[r] \in Memory
  BY MemoryFields
<1>2. m \in Memory /\ m.owner = p /\ m.row = mem[r].row
  BY <1>1 DEF Memory
<1>3. mem' = [mem EXCEPT ![r] = m]
  OBVIOUS
<1> HIDE DEF m
<1> QED
  BY <1>2, <1>3, MemoryReplaced

LEMMA RowSet ==
    ASSUME TypeOK, NEW r \in Requests, NEW i \in Ids,
           mem' = [mem EXCEPT ![r].row = i]
    PROVE  /\ mem' \in [Requests -> Memory]
           /\ \A o \in Requests : mem'[o].owner = mem[o].owner
           /\ \A o \in Requests \ {r} : mem'[o] = mem[o]
           /\ mem'[r].row = i /\ mem'[r].option = mem[r].option /\ mem'[r].reason = mem[r].reason
<1> DEFINE m == [mem[r] EXCEPT !.row = i]
<1>1. mem[r] \in Memory
  BY MemoryFields
<1>2. /\ m \in Memory /\ m.owner = mem[r].owner
      /\ m.row = i /\ m.option = mem[r].option /\ m.reason = mem[r].reason
  BY <1>1 DEF Memory
<1>3. mem' = [mem EXCEPT ![r] = m]
  OBVIOUS
<1> HIDE DEF m
<1> QED
  BY <1>2, <1>3, MemoryReplaced

LEMMA LoadedSet ==
    ASSUME TypeOK, NEW r \in Requests, NEW i \in Ids, NEW a \in Options, NEW s \in Reasons,
           mem' = [mem EXCEPT ![r].row = i, ![r].option = a, ![r].reason = s]
    PROVE  /\ mem' \in [Requests -> Memory]
           /\ \A o \in Requests : mem'[o].owner = mem[o].owner
           /\ \A o \in Requests \ {r} : mem'[o] = mem[o]
           /\ mem'[r].row = i /\ mem'[r].option = a /\ mem'[r].reason = s
<1> DEFINE m == [mem[r] EXCEPT !.row = i, !.option = a, !.reason = s]
<1>1. mem[r] \in Memory
  BY MemoryFields
<1>2. /\ m \in Memory /\ m.owner = mem[r].owner
      /\ m.row = i /\ m.option = a /\ m.reason = s
  BY <1>1 DEF Memory
<1>3. mem' = [mem EXCEPT ![r] = m]
  OBVIOUS
<1> HIDE DEF m
<1> QED
  BY <1>2, <1>3, MemoryReplaced

LEMMA ListedSet ==
    ASSUME TypeOK, NEW r \in Requests, NEW S \in SUBSET Listing,
           mem' = [mem EXCEPT ![r].listed = S]
    PROVE  /\ mem' \in [Requests -> Memory]
           /\ \A o \in Requests : mem'[o].owner = mem[o].owner
           /\ \A o \in Requests \ {r} : mem'[o] = mem[o]
           /\ mem'[r].listed = S /\ mem'[r].row = mem[r].row
<1> DEFINE m == [mem[r] EXCEPT !.listed = S]
<1>1. mem[r] \in Memory
  BY MemoryFields
<1>2. /\ m \in Memory /\ m.owner = mem[r].owner
      /\ m.listed = S /\ m.row = mem[r].row
  BY <1>1 DEF Memory
<1>3. mem' = [mem EXCEPT ![r] = m]
  OBVIOUS
<1> HIDE DEF m
<1> QED
  BY <1>2, <1>3, MemoryReplaced

LEMMA SplitSet ==
    ASSUME TypeOK, NEW r \in Requests, NEW S \in SUBSET Ids, NEW T \in SUBSET Ids, NEW b \in BOOLEAN, NEW n \in Nat,
           mem' = [mem EXCEPT ![r].drops = S, ![r].moves = T, ![r].several = b, ![r].migrated = n]
    PROVE  /\ mem' \in [Requests -> Memory]
           /\ \A o \in Requests : mem'[o].owner = mem[o].owner
           /\ \A o \in Requests \ {r} : mem'[o] = mem[o]
           /\ mem'[r].drops = S /\ mem'[r].moves = T /\ mem'[r].migrated = n
           /\ mem'[r].row = mem[r].row /\ mem'[r].listed = mem[r].listed
<1> DEFINE m == [mem[r] EXCEPT !.drops = S, !.moves = T, !.several = b, !.migrated = n]
<1>1. mem[r] \in Memory
  BY MemoryFields
<1>2. /\ m \in Memory /\ m.owner = mem[r].owner
      /\ m.drops = S /\ m.moves = T /\ m.migrated = n
      /\ m.row = mem[r].row /\ m.listed = mem[r].listed
  BY <1>1 DEF Memory
<1>3. mem' = [mem EXCEPT ![r] = m]
  OBVIOUS
<1> HIDE DEF m
<1> QED
  BY <1>2, <1>3, MemoryReplaced

LEMMA DropsSet ==
    ASSUME TypeOK, NEW r \in Requests, NEW S \in SUBSET Ids,
           mem' = [mem EXCEPT ![r].drops = S]
    PROVE  /\ mem' \in [Requests -> Memory]
           /\ \A o \in Requests : mem'[o].owner = mem[o].owner
           /\ \A o \in Requests \ {r} : mem'[o] = mem[o]
           /\ mem'[r].drops = S /\ mem'[r].moves = mem[r].moves /\ mem'[r].row = mem[r].row
           /\ mem'[r].listed = mem[r].listed /\ mem'[r].migrated = mem[r].migrated
<1> DEFINE m == [mem[r] EXCEPT !.drops = S]
<1>1. mem[r] \in Memory
  BY MemoryFields
<1>2. /\ m \in Memory /\ m.owner = mem[r].owner
      /\ m.drops = S /\ m.moves = mem[r].moves /\ m.row = mem[r].row
      /\ m.listed = mem[r].listed /\ m.migrated = mem[r].migrated
  BY <1>1 DEF Memory
<1>3. mem' = [mem EXCEPT ![r] = m]
  OBVIOUS
<1> HIDE DEF m
<1> QED
  BY <1>2, <1>3, MemoryReplaced

LEMMA MovesSet ==
    ASSUME TypeOK, NEW r \in Requests, NEW S \in SUBSET Ids,
           mem' = [mem EXCEPT ![r].moves = S]
    PROVE  /\ mem' \in [Requests -> Memory]
           /\ \A o \in Requests : mem'[o].owner = mem[o].owner
           /\ \A o \in Requests \ {r} : mem'[o] = mem[o]
           /\ mem'[r].moves = S /\ mem'[r].drops = mem[r].drops /\ mem'[r].row = mem[r].row
           /\ mem'[r].listed = mem[r].listed /\ mem'[r].migrated = mem[r].migrated
<1> DEFINE m == [mem[r] EXCEPT !.moves = S]
<1>1. mem[r] \in Memory
  BY MemoryFields
<1>2. /\ m \in Memory /\ m.owner = mem[r].owner
      /\ m.moves = S /\ m.drops = mem[r].drops /\ m.row = mem[r].row
      /\ m.listed = mem[r].listed /\ m.migrated = mem[r].migrated
  BY <1>1 DEF Memory
<1>3. mem' = [mem EXCEPT ![r] = m]
  OBVIOUS
<1> HIDE DEF m
<1> QED
  BY <1>2, <1>3, MemoryReplaced

----------------------------------------------------------------------------
LEMMA TypeInit == Init => TypeInv
<1> SUFFICES ASSUME Init PROVE TypeInv
  OBVIOUS
<1>1. NoRequest \in Request
  BY DEF NoRequest, Request
<1>2. NoMemory \in Memory
  BY DEF NoMemory, Memory
<1>3. vote \in Table
  BY HistoriesAssumption DEF Init
<1>4. TypeOK
  BY <1>1, <1>2, <1>3 DEF Init, TypeOK, Steps, Answers
<1>5. HandlerOK
  BY DEF Init, HandlerOK
<1> QED
  BY <1>4, <1>5 DEF TypeInv

LEMMA TypeStep == TypeInv /\ [Next]_vars => TypeInv'
<1> SUFFICES ASSUME TypeInv, [Next]_vars PROVE TypeInv'
  OBVIOUS
<1> USE DEF TypeInv
<1>a. ASSUME NEW r \in Requests, VoteArrives(r) PROVE TypeInv'
  <2>1. PICK x \in VoteRequest :
          /\ req' = [req EXCEPT ![r] = x]
          /\ mem' = [mem EXCEPT ![r].owner = IF TokenUser(x.user) = None THEN x.guest ELSE x.user]
    BY <1>a DEF VoteArrives
  <2> DEFINE o == IF TokenUser(x.user) = None THEN x.guest ELSE x.user
  <2>2. o \in Participants
    BY IdsAssumption DEF VoteRequest, Participants, TokenUser, TypeOK
  <2>3. req' \in [Requests -> Request]
    BY <2>1 DEF TypeOK, VoteRequest, Request
  <2> HIDE DEF o
  <2>4. mem' \in [Requests -> Memory] /\ mem'[r].owner = o
    BY <2>1, <2>2, OwnerSet DEF o
  <2>5. pc' \in [Requests -> Steps]
    BY <1>a, StepTyped DEF VoteArrives, Steps
  <2>6. TypeOK'
    BY <1>a, <2>3, <2>4, <2>5 DEF VoteArrives, TypeOK
  <2>7. HandlerOK'
    BY <1>a, <2>1, <2>2, <2>4 DEF VoteArrives, GoTo, HandlerOK, TypeOK
  <2> QED BY <2>6, <2>7
<1>b. ASSUME NEW r \in Requests, LookUpVote(r) PROVE TypeInv'
  <2>1. mem' \in [Requests -> Memory] /\ \A o \in Requests : mem'[o].owner = mem[o].owner
    <3>1. CASE UNCHANGED mem
      BY <3>1 DEF TypeOK
    <3>2. CASE \E i \in StoredFor(req[r].question, mem[r].owner) :
                  mem' = [mem EXCEPT ![r].row = i, ![r].option = vote[i].option,
                                     ![r].reason = vote[i].reason]
      <4>1. PICK i \in StoredFor(req[r].question, mem[r].owner) :
                  mem' = [mem EXCEPT ![r].row = i, ![r].option = vote[i].option,
                                     ![r].reason = vote[i].reason]
        BY <3>2
      <4>2. i \in Ids /\ vote[i] \in Row
        BY <4>1 DEF StoredFor, HasKey, TypeOK, Table
      <4>3. vote[i].option \in Options /\ vote[i].reason \in Reasons
        BY <4>2 DEF Row
      <4> QED
        BY <4>1, <4>2, <4>3, LoadedSet
    <3> QED
      BY <1>b, <3>1, <3>2 DEF LookUpVote
  <2>3. pc' \in [Requests -> Steps] /\ answer' \in [Requests -> Answers]
    BY <1>b DEF LookUpVote, Respond, GoTo, TypeOK, Steps, Answers
  <2>4. TypeOK'
    BY <1>b, <2>1, <2>3 DEF LookUpVote, TypeOK
  <2>5. HandlerOK'
    BY <1>b, <2>1 DEF LookUpVote, Respond, GoTo, HandlerOK, TypeOK
  <2> QED BY <2>4, <2>5
<1>c. ASSUME NEW r \in Requests, InsertVote(r) PROVE TypeInv'
  <2>1. CASE Raise(r)
    BY <2>1, RaiseTyped
  <2>2. CASE ~Raise(r)
    <3> DEFINE row == [question |-> req[r].question, owner |-> mem[r].owner,
                       option |-> req[r].option, reason |-> req[r].reason]
    <3>1. row \in Row /\ r \in Ids
      BY <1>c DEF InsertVote, HandlerOK, VoteRequest, Row, Ids
    <3>2. /\ Write(r, r, row) /\ mem' = [mem EXCEPT ![r].row = r]
          /\ GoTo(r, "flushed") /\ UNCHANGED <<live, vote, req, answer>>
      BY <1>c, <2>2 DEF InsertVote
    <3>3. draft' \in Table /\ dirty' \in [Requests -> SUBSET Ids]
      BY <3>1, <3>2, WriteTyped
    <3>4. mem' \in [Requests -> Memory] /\ \A o \in Requests : mem'[o].owner = mem[o].owner
      BY <3>1, <3>2, RowSet
    <3>5. pc' \in [Requests -> Steps]
      BY <3>2, StepTyped DEF Steps
    <3>6. TypeOK'
      BY <3>2, <3>3, <3>4, <3>5 DEF TypeOK
    <3>7. HandlerOK'
      BY <3>2, <3>4 DEF GoTo, HandlerOK, TypeOK
    <3> QED BY <3>6, <3>7
  <2> QED BY <2>1, <2>2
<1>d. ASSUME NEW r \in Requests, ChangeVote(r) PROVE TypeInv'
  <2>1. CASE Raise(r)
    BY <2>1, RaiseTyped
  <2>2. CASE GoTo(r, "flushed") /\ UNCHANGED <<live, vote, draft, dirty, req, mem, answer>>
    <3>1. pc' \in [Requests -> Steps]
      BY <2>2, StepTyped DEF Steps
    <3> QED BY <2>2, <3>1 DEF GoTo, HandlerOK, TypeOK
  <2>3. CASE /\ draft[mem[r].row] # None
             /\ Write(r, mem[r].row, WithNewBallot(draft[mem[r].row], req[r], mem[r]))
             /\ GoTo(r, "flushed") /\ UNCHANGED <<live, vote, req, mem, answer>>
    <3> DEFINE i == mem[r].row
               row == WithNewBallot(draft[i], req[r], mem[r])
    <3>1. i \in Ids
      BY <1>d, MemoryFields DEF ChangeVote
    <3>2. draft[i] \in Row /\ req[r].option \in Options /\ req[r].reason \in Reasons
      BY <1>d, <2>3, <3>1 DEF ChangeVote, TypeOK, Table, HandlerOK, VoteRequest
    <3>3. row \in Row
      BY <3>2 DEF WithNewBallot, Row
    <3>4. draft' \in Table /\ dirty' \in [Requests -> SUBSET Ids]
      BY <2>3, <3>1, <3>3, WriteTyped
    <3>5. pc' \in [Requests -> Steps]
      BY <2>3, StepTyped DEF Steps
    <3>6. TypeOK'
      BY <2>3, <3>4, <3>5 DEF TypeOK
    <3>7. HandlerOK'
      BY <2>3 DEF GoTo, HandlerOK, TypeOK
    <3> QED BY <3>6, <3>7
  <2> QED BY <1>d, <2>1, <2>2, <2>3 DEF ChangeVote
<1>e. ASSUME NEW r \in Requests, CommitVote(r) PROVE TypeInv'
  <2>1. pc' \in [Requests -> Steps]
    BY <1>e, StepTyped DEF CommitVote, Steps
  <2>2. TypeOK'
    BY <1>e, <2>1, CommitTyped DEF CommitVote, TypeOK
  <2>3. HandlerOK'
    BY <1>e DEF CommitVote, GoTo, HandlerOK, TypeOK
  <2> QED BY <2>2, <2>3
<1>f. ASSUME NEW r \in Requests, RefreshVote(r) PROVE TypeInv'
  <2>1. PICK a \in Answers : Respond(r, a)
    BY <1>f DEF RefreshVote, Answers
  <2>2. UNCHANGED <<live, vote, draft, dirty, req, mem>>
    BY <1>f DEF RefreshVote
  <2>3. pc' \in [Requests -> Steps] /\ answer' \in [Requests -> Answers]
    BY <2>1 DEF Respond, TypeOK, Steps
  <2>4. TypeOK'
    BY <2>2, <2>3 DEF TypeOK
  <2>5. HandlerOK'
    BY <2>1, <2>2 DEF Respond, HandlerOK, TypeOK
  <2> QED BY <2>4, <2>5
<1>g. ASSUME NEW r \in Requests, MigrateArrives(r) PROVE TypeInv'
  <2>1. PICK u \in Users, g \in Guests :
          /\ req' = [req EXCEPT ![r].user = u, ![r].guest = g]
          /\ \/ /\ mem' = [mem EXCEPT ![r].owner = u]
                /\ GoTo(r, "list") /\ UNCHANGED answer
             \/ Respond(r, "unauthorized") /\ UNCHANGED mem
    BY <1>g DEF MigrateArrives
  <2>2. req' \in [Requests -> Request] /\ \A o \in Requests : o # r => req'[o] = req[o]
    <3>1. req \in [Requests -> Request]
      BY DEF TypeOK
    <3>2. [req[r] EXCEPT !.user = u, !.guest = g] \in Request
      BY <3>1 DEF Request
    <3>3. req' = [req EXCEPT ![r] = [req[r] EXCEPT !.user = u, !.guest = g]]
      BY <2>1, <3>1
    <3> QED BY <3>1, <3>2, <3>3
  <2>3. CASE mem' = [mem EXCEPT ![r].owner = u] /\ GoTo(r, "list") /\ UNCHANGED answer
    <3>1. mem' \in [Requests -> Memory] /\ mem'[r].owner = u
      BY <2>3, OwnerSet DEF Participants
    <3>2. pc' \in [Requests -> Steps]
      BY <2>3, StepTyped DEF Steps
    <3>3. TypeOK'
      BY <1>g, <2>2, <2>3, <3>1, <3>2 DEF MigrateArrives, TypeOK
    <3>4. HandlerOK'
      BY <2>2, <2>3, <3>1 DEF GoTo, HandlerOK, TypeOK
    <3> QED BY <3>3, <3>4
  <2>4. CASE Respond(r, "unauthorized") /\ UNCHANGED mem
    <3>1. pc' \in [Requests -> Steps] /\ answer' \in [Requests -> Answers]
      BY <2>4, RespondTyped DEF Answers
    <3>2. TypeOK'
      BY <1>g, <2>2, <2>4, <3>1 DEF MigrateArrives, TypeOK
    <3>3. HandlerOK'
      BY <2>2, <2>4 DEF Respond, HandlerOK, TypeOK
    <3> QED BY <3>2, <3>3
  <2> QED BY <2>1, <2>3, <2>4
<1>h. ASSUME NEW r \in Requests, ListGuestVotes(r) PROVE TypeInv'
  <2> DEFINE found == {x \in Listing : x[1] \in StoredFor(x[2], req[r].guest)}
  <2>1. mem' \in [Requests -> Memory] /\ \A o \in Requests : mem'[o].owner = mem[o].owner
    <3>1. found \in SUBSET Listing
      OBVIOUS
    <3>2. mem' = [mem EXCEPT ![r].listed = found]
      BY <1>h DEF ListGuestVotes
    <3> HIDE DEF found
    <3> QED BY <3>1, <3>2, ListedSet
  <2>2. pc' \in [Requests -> Steps]
    BY <1>h, StepTyped DEF ListGuestVotes, Steps
  <2>3. TypeOK'
    BY <1>h, <2>1, <2>2 DEF ListGuestVotes, TypeOK
  <2>4. HandlerOK'
    BY <1>h, <2>1 DEF ListGuestVotes, GoTo, HandlerOK, TypeOK
  <2> QED BY <2>3, <2>4
<1>i. ASSUME NEW r \in Requests, ListAccountVotes(r) PROVE TypeInv'
  <2> DEFINE split == Split(mem[r].listed, AnsweredBy(mem[r].owner))
             d == split.drops
             m == split.moves
             n == split.migrated
             b == Cardinality(m) > 1
  <2>1. d \in SUBSET Ids /\ m \in SUBSET Ids /\ n = Cardinality(m)
    <3>1. mem[r].listed \in SUBSET Listing
      BY MemoryFields
    <3> QED BY <3>1 DEF Split, IdsOf, Listing
  <2>2. n \in Nat /\ b \in BOOLEAN
    BY <2>1, IdsFinite
  <2>3. mem' = [mem EXCEPT ![r].drops = d, ![r].moves = m, ![r].several = b, ![r].migrated = n]
    BY <1>i DEF ListAccountVotes
  <2>4. mem' \in [Requests -> Memory] /\ \A o \in Requests : mem'[o].owner = mem[o].owner
    <3> HIDE DEF d, m, n, b
    <3> QED BY <2>1, <2>2, <2>3, SplitSet
  <2>5. pc' \in [Requests -> Steps]
    BY <1>i, StepTyped DEF ListAccountVotes, Steps
  <2>6. TypeOK'
    BY <1>i, <2>4, <2>5 DEF ListAccountVotes, TypeOK
  <2>7. HandlerOK'
    BY <1>i, <2>4 DEF ListAccountVotes, GoTo, HandlerOK, TypeOK
  <2> QED BY <2>6, <2>7
<1>j. ASSUME NEW r \in Requests, DropOne(r) PROVE TypeInv'
  <2>1. PICK i \in mem[r].drops : Write(r, i, None) /\ mem' = [mem EXCEPT ![r].drops = @ \ {i}]
    BY <1>j DEF DropOne
  <2>2. i \in Ids
    BY MemoryFields
  <2>3. draft' \in Table /\ dirty' \in [Requests -> SUBSET Ids]
    BY <2>1, <2>2, WriteTyped
  <2>4. mem' \in [Requests -> Memory] /\ \A o \in Requests : mem'[o].owner = mem[o].owner
    <3> DEFINE S == mem[r].drops \ {i}
    <3>1. S \in SUBSET Ids
      BY MemoryFields
    <3>2. mem' = [mem EXCEPT ![r].drops = S]
      BY <2>1
    <3> HIDE DEF S
    <3> QED BY <3>1, <3>2, DropsSet
  <2> QED BY <1>j, <2>3, <2>4 DEF DropOne, TypeOK, HandlerOK
<1>k. ASSUME NEW r \in Requests, BeginMoves(r) PROVE TypeInv'
  <2>1. pc' \in [Requests -> Steps]
    BY <1>k, StepTyped DEF BeginMoves, Steps
  <2> QED BY <1>k, <2>1 DEF BeginMoves, GoTo, TypeOK, HandlerOK
<1>l. ASSUME NEW r \in Requests, MoveOne(r) PROVE TypeInv'
  <2>1. CASE Raise(r)
    BY <2>1, RaiseTyped
  <2>2. CASE ~Raise(r)
    <3>1. PICK i \in mem[r].moves :
            /\ mem' = [mem EXCEPT ![r].moves = @ \ {i}]
            /\ UNCHANGED <<live, vote, pc, req, answer>>
            /\ \/ /\ draft[i] # None
                  /\ Write(r, i, [draft[i] EXCEPT !.owner = mem[r].owner])
               \/ UNCHANGED <<draft, dirty>>
      BY <1>l, <2>2 DEF MoveOne
    <3>2. i \in Ids
      BY MemoryFields
    <3>3. mem[r].owner \in Participants
      BY <1>l DEF MoveOne, HandlerOK, Participants
    <3>4. draft' \in Table /\ dirty' \in [Requests -> SUBSET Ids]
      <4>1. CASE UNCHANGED <<draft, dirty>>
        BY <4>1 DEF TypeOK
      <4>2. CASE draft[i] # None /\ Write(r, i, [draft[i] EXCEPT !.owner = mem[r].owner])
        <5>1. draft[i] \in Row
          BY <3>2, <4>2 DEF TypeOK, Table
        <5>2. [draft[i] EXCEPT !.owner = mem[r].owner] \in Row
          BY <3>3, <5>1 DEF Row
        <5> QED BY <3>2, <4>2, <5>2, WriteTyped
      <4> QED BY <3>1, <4>1, <4>2
    <3>5. mem' \in [Requests -> Memory] /\ \A o \in Requests : mem'[o].owner = mem[o].owner
      <4> DEFINE S == mem[r].moves \ {i}
      <4>1. S \in SUBSET Ids
        BY MemoryFields
      <4>2. mem' = [mem EXCEPT ![r].moves = S]
        BY <3>1
      <4> HIDE DEF S
      <4> QED BY <4>1, <4>2, MovesSet
    <3> QED BY <3>1, <3>4, <3>5 DEF TypeOK, HandlerOK
  <2> QED BY <2>1, <2>2
<1>m. ASSUME NEW r \in Requests, CommitMigration(r) PROVE TypeInv'
  <2>1. pc' \in [Requests -> Steps] /\ answer' \in [Requests -> Answers]
    BY <1>m, RespondTyped DEF CommitMigration, Answers
  <2>2. TypeOK'
    BY <1>m, <2>1, CommitTyped DEF CommitMigration, TypeOK
  <2>3. HandlerOK'
    BY <1>m DEF CommitMigration, Respond, HandlerOK, TypeOK
  <2> QED BY <2>2, <2>3
<1>n. ASSUME NEW r \in Requests, WithdrawArrives(r) PROVE TypeInv'
  <2>1. PICK u \in Users :
          /\ req' = [req EXCEPT ![r].user = u]
          /\ \/ GoTo(r, "delete") /\ UNCHANGED answer
             \/ Respond(r, "unauthorized")
    BY <1>n DEF WithdrawArrives
  <2>2. req' \in [Requests -> Request] /\ \A o \in Requests : o # r => req'[o] = req[o]
    <3> DEFINE x == [req[r] EXCEPT !.user = u]
    <3>1. x \in Request
      BY DEF TypeOK, Request
    <3>2. req' = [req EXCEPT ![r] = x]
      BY <2>1
    <3> HIDE DEF x
    <3> QED BY <3>1, <3>2 DEF TypeOK
  <2>3. pc' \in [Requests -> Steps] /\ answer' \in [Requests -> Answers]
    BY <2>1, StepTyped, RespondTyped DEF Steps, Answers, TypeOK
  <2>4. TypeOK'
    BY <1>n, <2>2, <2>3 DEF WithdrawArrives, TypeOK
  <2>5. HandlerOK'
    BY <1>n, <2>1, <2>2 DEF WithdrawArrives, GoTo, Respond, HandlerOK, TypeOK
  <2> QED BY <2>4, <2>5
<1>o. ASSUME NEW r \in Requests, DeleteAccount(r) PROVE TypeInv'
  <2>1. pc' \in [Requests -> Steps] /\ answer' \in [Requests -> Answers]
    BY <1>o, RespondTyped DEF DeleteAccount, Answers
  <2>2. vote' \in Table /\ draft' \in Table
    BY <1>o DEF DeleteAccount, WithoutAccount, TypeOK, Table
  <2>3. live' \subseteq Users
    BY <1>o DEF DeleteAccount, TypeOK
  <2>4. TypeOK'
    BY <1>o, <2>1, <2>2, <2>3 DEF DeleteAccount, TypeOK
  <2>5. HandlerOK'
    BY <1>o DEF DeleteAccount, Respond, HandlerOK, TypeOK
  <2> QED BY <2>4, <2>5
<1>p. ASSUME NEW r \in Requests, Die(r) \/ BreakDeadlock(r) PROVE TypeInv'
  BY <1>p, RaiseTyped DEF Die, BreakDeadlock
<1>q. ASSUME UNCHANGED vars PROVE TypeInv'
  BY <1>q DEF vars, TypeOK, HandlerOK
<1> QED
  BY <1>a, <1>b, <1>c, <1>d, <1>e, <1>f, <1>g, <1>h, <1>i, <1>j, <1>k, <1>l, <1>m,
     <1>n, <1>o, <1>p, <1>q DEF Next, Arrive, Serve, Terminating

\* Whatever requests run, the tables, the locks and the handlers' variables
\* keep the values their columns and code give them.
THEOREM TypeCorrect == Spec => []TypeOK
<1>1. TypeInv => TypeOK
  BY DEF TypeInv
<1> QED
  BY <1>1, TypeInit, TypeStep, PTL DEF Spec

----------------------------------------------------------------------------
(* One vote per participant *)

\* The row may take its key: it is new or moved and passed the unique check,
\* or it keeps the key of the version it replaces.
MayTake(r, i, row) ==
    \/ row = None
    \/ KeyHolders(r, row.question, row.owner) = {} /\ ~KeyTaken(i, row.question, row.owner)
    \/ draft[i] # None /\ row.question = draft[i].question /\ row.owner = draft[i].owner

LEMMA WriteIsolated ==
    ASSUME TypeOK, IsolationInv, NEW r \in Requests, NEW i \in Ids, NEW row \in Row \cup {None},
           Holders(r, i) = {}, MayTake(r, i, row), Write(r, i, row), vote' = vote
    PROVE  IsolationInv'
<1> USE DEF HasKey
<1>1. \A o \in Requests \ {r} : i \notin dirty[o]
  BY DEF Holders
<1>2. /\ draft'[i] = row /\ \A j \in Ids \ {i} : draft'[j] = draft[j]
      /\ dirty'[r] = dirty[r] \cup {i} /\ \A o \in Requests \ {r} : dirty'[o] = dirty[o]
  BY DEF Write, TypeOK, Table
<1>3. \A o \in Requests : dirty[o] \subseteq Ids
  BY DEF TypeOK
<1>4. row # None => \A j \in Ids \ {i} : ~HasKey(draft, j, row.question, row.owner)
  BY DEF MayTake, KeyTaken, IsolationInv, DistinctKeys
<1>5. row # None => \A j \in Ids \ (dirty[r] \cup {i}) : ~HasKey(vote, j, row.question, row.owner)
  <2> SUFFICES ASSUME row # None, NEW j \in Ids \ (dirty[r] \cup {i})
               PROVE  ~HasKey(vote, j, row.question, row.owner)
    OBVIOUS
  <2>1. CASE KeyHolders(r, row.question, row.owner) = {} /\ ~KeyTaken(i, row.question, row.owner)
    <3>1. CASE \E o \in Requests : j \in dirty[o]
      BY <2>1, <3>1 DEF KeyHolders
    <3>2. CASE \A o \in Requests : j \notin dirty[o]
      BY <2>1, <3>2 DEF KeyTaken, IsolationInv, CleanIsCommitted
    <3> QED BY <3>1, <3>2
  <2>2. CASE draft[i] # None /\ row.question = draft[i].question /\ row.owner = draft[i].owner
    <3>1. CASE i \in dirty[r]
      BY <2>2, <3>1 DEF IsolationInv, WritesFit
    <3>2. CASE i \notin dirty[r]
      <4>1. draft[i] = vote[i]
        BY <1>1, <3>2 DEF IsolationInv, CleanIsCommitted
      <4> QED BY <2>2, <4>1 DEF IsolationInv, DistinctKeys
    <3> QED BY <3>1, <3>2
  <2> QED BY <2>1, <2>2 DEF MayTake
<1>6. DistinctKeys(draft)'
  BY <1>2, <1>4 DEF IsolationInv, DistinctKeys
<1>7. DistinctKeys(vote)'
  BY DEF IsolationInv, DistinctKeys
<1>8. WritesFit'
  <2> SUFFICES ASSUME NEW o \in Requests, NEW k \in dirty'[o], NEW j \in Ids \ dirty'[o],
                      draft'[k] # None
               PROVE  ~HasKey(vote, j, draft'[k].question, draft'[k].owner)
    BY DEF WritesFit
  <2>1. CASE k = i /\ o = r
    BY <1>2, <1>5, <2>1
  <2>2. CASE k # i
    BY <1>2, <1>3, <2>2 DEF IsolationInv, WritesFit
  <2>3. CASE k = i /\ o # r
    BY <1>1, <1>2, <2>3
  <2> QED BY <2>1, <2>2, <2>3
<1>9. LocksExclusive'
  BY <1>1, <1>2 DEF IsolationInv, LocksExclusive
<1>10. CleanIsCommitted'
  BY <1>2 DEF IsolationInv, CleanIsCommitted
<1> QED
  BY <1>6, <1>7, <1>8, <1>9, <1>10 DEF IsolationInv

LEMMA CommitIsolated ==
    ASSUME TypeOK, IsolationInv, NEW r \in Requests, CommitTx(r), draft' = draft
    PROVE  IsolationInv'
<1> USE DEF HasKey
<1>1. \A i \in Ids : vote'[i] = IF i \in dirty[r] THEN draft[i] ELSE vote[i]
  BY DEF CommitTx
<1>2. dirty'[r] = {} /\ \A o \in Requests \ {r} : dirty'[o] = dirty[o]
  BY DEF CommitTx, TypeOK
<1>3. \A o \in Requests : dirty[o] \subseteq Ids
  BY DEF TypeOK
<1>4. DistinctKeys(vote)'
  BY <1>1 DEF IsolationInv, DistinctKeys, WritesFit
<1>5. DistinctKeys(draft)'
  BY DEF IsolationInv, DistinctKeys
<1>6. WritesFit'
  BY <1>1, <1>2, <1>3 DEF IsolationInv, WritesFit, DistinctKeys, LocksExclusive
<1>7. LocksExclusive'
  BY <1>2 DEF IsolationInv, LocksExclusive
<1>8. CleanIsCommitted'
  BY <1>1, <1>2 DEF IsolationInv, CleanIsCommitted
<1> QED
  BY <1>4, <1>5, <1>6, <1>7, <1>8 DEF IsolationInv

LEMMA RollBackIsolated ==
    ASSUME TypeOK, IsolationInv, NEW r \in Requests, RollBack(r), vote' = vote
    PROVE  IsolationInv'
<1> USE DEF HasKey
<1>1. \A i \in Ids : draft'[i] = IF i \in dirty[r] THEN vote[i] ELSE draft[i]
  BY DEF RollBack
<1>2. dirty'[r] = {} /\ \A o \in Requests \ {r} : dirty'[o] = dirty[o]
  BY DEF RollBack, TypeOK
<1>3. \A o \in Requests : dirty[o] \subseteq Ids
  BY DEF TypeOK
<1>4. \A i \in Ids : draft'[i] = vote[i] \/ \E o \in Requests \ {r} : i \in dirty[o] /\ draft'[i] = draft[i]
  BY <1>1 DEF IsolationInv, CleanIsCommitted
<1>5. DistinctKeys(draft)'
  <2> SUFFICES ASSUME NEW i \in Ids, NEW j \in Ids, i # j, draft'[i] # None
               PROVE  ~HasKey(draft', j, draft'[i].question, draft'[i].owner)
    BY DEF DistinctKeys
  <2>1. CASE i \notin dirty[r] /\ j \notin dirty[r]
    BY <1>1, <2>1 DEF IsolationInv, DistinctKeys
  <2>2. CASE draft'[i] = vote[i] /\ draft'[j] = vote[j]
    BY <2>2 DEF IsolationInv, DistinctKeys
  <2>3. CASE i \in dirty[r] /\ j \notin dirty[r]
    BY <1>1, <1>4, <2>2, <2>3 DEF IsolationInv, WritesFit, LocksExclusive
  <2>4. CASE i \notin dirty[r] /\ j \in dirty[r]
    BY <1>1, <1>4, <2>2, <2>4 DEF IsolationInv, WritesFit, LocksExclusive
  <2>5. CASE i \in dirty[r] /\ j \in dirty[r]
    BY <1>1, <2>2, <2>5
  <2> QED BY <2>1, <2>3, <2>4, <2>5
<1>6. DistinctKeys(vote)'
  BY DEF IsolationInv, DistinctKeys
<1>7. WritesFit'
  BY <1>1, <1>2, <1>3 DEF IsolationInv, WritesFit, LocksExclusive
<1>8. LocksExclusive'
  BY <1>2 DEF IsolationInv, LocksExclusive
<1>9. CleanIsCommitted'
  BY <1>1, <1>2 DEF IsolationInv, CleanIsCommitted
<1> QED
  BY <1>5, <1>6, <1>7, <1>8, <1>9 DEF IsolationInv

LEMMA SameTables ==
    ASSUME IsolationInv, UNCHANGED <<vote, draft, dirty>>
    PROVE  IsolationInv'
BY DEF IsolationInv, DistinctKeys, HasKey, WritesFit, LocksExclusive, CleanIsCommitted

LEMMA IsolationInit == Init => IsolationInv
BY HistoriesAssumption DEF Init, IsolationInv, DistinctKeys, WritesFit, LocksExclusive, CleanIsCommitted

LEMMA IsolationStep == TypeInv /\ IsolationInv /\ [Next]_vars => IsolationInv'
<1> SUFFICES ASSUME TypeInv, IsolationInv, [Next]_vars PROVE IsolationInv'
  OBVIOUS
<1> USE DEF TypeInv
<1>0. ASSUME NEW r \in Requests, Raise(r) PROVE IsolationInv'
  BY <1>0, RollBackIsolated DEF Raise
<1>1. ASSUME NEW r \in Requests,
             VoteArrives(r) \/ LookUpVote(r) \/ RefreshVote(r) \/ MigrateArrives(r) \/ ListGuestVotes(r)
               \/ ListAccountVotes(r) \/ BeginMoves(r) \/ WithdrawArrives(r)
      PROVE  IsolationInv'
  BY <1>1, SameTables DEF VoteArrives, LookUpVote, RefreshVote, MigrateArrives, ListGuestVotes,
     ListAccountVotes, BeginMoves, WithdrawArrives
<1>2. ASSUME NEW r \in Requests, InsertVote(r) PROVE IsolationInv'
  <2> DEFINE row == [question |-> req[r].question, owner |-> mem[r].owner,
                     option |-> req[r].option, reason |-> req[r].reason]
  <2>1. CASE Raise(r)
    BY <1>0, <2>1
  <2>2. CASE ~Raise(r)
    <3>1. /\ KeyHolders(r, req[r].question, mem[r].owner) = {}
          /\ ~KeyTaken(r, req[r].question, mem[r].owner)
          /\ Holders(r, r) = {} /\ Write(r, r, row) /\ UNCHANGED vote
      BY <1>2, <2>2 DEF InsertVote, Admits
    <3>2. row \in Row /\ r \in Ids
      BY <1>2 DEF InsertVote, HandlerOK, VoteRequest, Row, Ids
    <3>3. MayTake(r, r, row)
      BY <3>1 DEF MayTake
    <3> QED BY <3>1, <3>2, <3>3, WriteIsolated
  <2> QED BY <2>1, <2>2
<1>3. ASSUME NEW r \in Requests, ChangeVote(r) PROVE IsolationInv'
  <2> DEFINE i == mem[r].row
             row == WithNewBallot(draft[i], req[r], mem[r])
  <2>1. CASE Raise(r)
    BY <1>0, <2>1
  <2>2. CASE UNCHANGED <<vote, draft, dirty>>
    BY <2>2, SameTables
  <2>3. CASE Holders(r, i) = {} /\ draft[i] # None /\ Write(r, i, row) /\ UNCHANGED vote
    <3>1. i \in Ids
      BY <1>3, MemoryFields DEF ChangeVote
    <3>2. draft[i] \in Row /\ req[r].option \in Options /\ req[r].reason \in Reasons
      BY <1>3, <2>3, <3>1 DEF ChangeVote, TypeOK, Table, HandlerOK, VoteRequest
    <3>3. row \in Row /\ row.question = draft[i].question /\ row.owner = draft[i].owner
      BY <3>2 DEF WithNewBallot, Row
    <3>4. MayTake(r, i, row)
      BY <2>3, <3>3 DEF MayTake
    <3> QED BY <2>3, <3>1, <3>3, <3>4, WriteIsolated
  <2> QED BY <1>3, <2>1, <2>2, <2>3 DEF ChangeVote
<1>4. ASSUME NEW r \in Requests, CommitVote(r) \/ CommitMigration(r) PROVE IsolationInv'
  BY <1>4, CommitIsolated DEF CommitVote, CommitMigration
<1>5. ASSUME NEW r \in Requests, DropOne(r) PROVE IsolationInv'
  <2>1. PICK i \in mem[r].drops : Holders(r, i) = {} /\ Write(r, i, None) /\ UNCHANGED vote
    BY <1>5 DEF DropOne
  <2>2. i \in Ids
    BY MemoryFields
  <2>3. MayTake(r, i, None)
    BY DEF MayTake
  <2> QED BY <2>1, <2>2, <2>3, WriteIsolated
<1>6. ASSUME NEW r \in Requests, MoveOne(r) PROVE IsolationInv'
  <2>1. CASE Raise(r)
    BY <1>0, <2>1
  <2>2. CASE UNCHANGED <<vote, draft, dirty>>
    BY <2>2, SameTables
  <2>3. CASE \E i \in mem[r].moves :
               /\ Holders(r, i) = {} /\ draft[i] # None
               /\ KeyHolders(r, draft[i].question, mem[r].owner) = {}
               /\ Admits(i, draft[i].question, mem[r].owner)
               /\ Write(r, i, [draft[i] EXCEPT !.owner = mem[r].owner])
               /\ UNCHANGED vote
    <3>1. PICK i \in mem[r].moves :
               /\ Holders(r, i) = {} /\ draft[i] # None
               /\ KeyHolders(r, draft[i].question, mem[r].owner) = {}
               /\ ~KeyTaken(i, draft[i].question, mem[r].owner)
               /\ Write(r, i, [draft[i] EXCEPT !.owner = mem[r].owner])
               /\ UNCHANGED vote
      BY <2>3 DEF Admits
    <3> DEFINE row == [draft[i] EXCEPT !.owner = mem[r].owner]
    <3>2. i \in Ids
      BY MemoryFields
    <3>3. draft[i] \in Row /\ mem[r].owner \in Participants
      BY <1>6, <3>1, <3>2 DEF MoveOne, TypeOK, Table, HandlerOK, Participants
    <3>4. row \in Row /\ row.question = draft[i].question /\ row.owner = mem[r].owner
      BY <3>3 DEF Row
    <3>5. MayTake(r, i, row)
      BY <3>1, <3>4 DEF MayTake
    <3> HIDE DEF row
    <3> QED BY <3>1, <3>2, <3>4, <3>5, WriteIsolated DEF row
  <2> QED BY <1>6, <2>1, <2>2, <2>3 DEF MoveOne
<1>7. ASSUME NEW r \in Requests, DeleteAccount(r) PROVE IsolationInv'
  <2> DEFINE u == req[r].user
  <2>1. /\ \A i \in Ids : vote'[i] = vote[i] \/ vote'[i] = None
        /\ \A i \in Ids : draft'[i] = draft[i] \/ draft'[i] = None
        /\ \A i \in Ids : draft[i] = vote[i] => draft'[i] = vote'[i]
        /\ dirty' = dirty
    BY <1>7 DEF DeleteAccount, WithoutAccount, OwnedBy
  <2>2. \A o \in Requests : dirty[o] \subseteq Ids
    BY DEF TypeOK
  <2>3. DistinctKeys(vote)' /\ DistinctKeys(draft)'
    BY <2>1 DEF IsolationInv, DistinctKeys, HasKey
  <2>4. WritesFit'
    BY <2>1, <2>2 DEF IsolationInv, WritesFit, HasKey
  <2>5. LocksExclusive' /\ CleanIsCommitted'
    BY <2>1 DEF IsolationInv, LocksExclusive, CleanIsCommitted
  <2> QED BY <2>3, <2>4, <2>5 DEF IsolationInv
<1>8. ASSUME NEW r \in Requests, Die(r) \/ BreakDeadlock(r) PROVE IsolationInv'
  BY <1>0, <1>8 DEF Die, BreakDeadlock
<1>9. ASSUME UNCHANGED vars PROVE IsolationInv'
  BY <1>9, SameTables DEF vars
<1> QED
  BY <1>1, <1>2, <1>3, <1>4, <1>5, <1>6, <1>7, <1>8, <1>9 DEF Next, Arrive, Serve, Terminating

\* No interleaving of votes, merges and withdrawals, and no rollback, stores
\* two votes of one participant on one question.
THEOREM OneVote == Spec => []OneVotePerParticipant
<1>1. IsolationInv => OneVotePerParticipant
  BY DEF IsolationInv, OneVotePerParticipant
<1> QED
  BY <1>1, TypeInit, TypeStep, IsolationInit, IsolationStep, PTL DEF Spec

----------------------------------------------------------------------------
(* No vote of an account that is gone *)

\* Neither a committed nor an uncommitted row has an owner that withdrew.
OwnerInv ==
    \A i \in Ids :
        /\ vote[i] # None /\ vote[i].owner \in Users => vote[i].owner \in live
        /\ draft[i] # None /\ draft[i].owner \in Users => draft[i].owner \in live

LEMMA OwnerInit == Init => OwnerInv
<1> SUFFICES ASSUME Init PROVE OwnerInv
  OBVIOUS
<1>1. vote \in Table /\ draft = vote /\ live = Users
  BY HistoriesAssumption DEF Init
<1> QED
  BY <1>1 DEF OwnerInv

LEMMA OwnerWrite ==
    ASSUME TypeOK, OwnerInv, NEW r \in Requests, NEW i \in Ids, NEW row, Write(r, i, row),
           row # None /\ row.owner \in Users => row.owner \in live, UNCHANGED <<live, vote>>
    PROVE  OwnerInv'
BY DEF OwnerInv, Write, TypeOK, Table

LEMMA OwnerRollBack ==
    ASSUME OwnerInv, NEW r \in Requests, RollBack(r), UNCHANGED <<live, vote>>
    PROVE  OwnerInv'
BY DEF OwnerInv, RollBack

LEMMA OwnerStep == TypeInv /\ OwnerInv /\ [Next]_vars => OwnerInv'
<1> SUFFICES ASSUME TypeInv, OwnerInv, [Next]_vars PROVE OwnerInv'
  OBVIOUS
<1> USE DEF TypeInv
<1>0. ASSUME NEW r \in Requests, Raise(r) PROVE OwnerInv'
  BY <1>0, OwnerRollBack DEF Raise
<1>1. ASSUME UNCHANGED <<live, vote, draft>> PROVE OwnerInv'
  BY <1>1 DEF OwnerInv
<1>2. ASSUME NEW r \in Requests,
             VoteArrives(r) \/ LookUpVote(r) \/ RefreshVote(r) \/ MigrateArrives(r) \/ ListGuestVotes(r)
               \/ ListAccountVotes(r) \/ BeginMoves(r) \/ WithdrawArrives(r)
      PROVE  OwnerInv'
  BY <1>1, <1>2 DEF VoteArrives, LookUpVote, RefreshVote, MigrateArrives, ListGuestVotes,
     ListAccountVotes, BeginMoves, WithdrawArrives
<1>3. ASSUME NEW r \in Requests, InsertVote(r) PROVE OwnerInv'
  <2> DEFINE row == [question |-> req[r].question, owner |-> mem[r].owner,
                     option |-> req[r].option, reason |-> req[r].reason]
  <2>1. CASE Raise(r)
    BY <1>0, <2>1
  <2>2. CASE ~Raise(r)
    <3>1. /\ Write(r, r, row) /\ UNCHANGED <<live, vote>>
          /\ mem[r].owner \in Users => mem[r].owner \in live
      BY <1>3, <2>2 DEF InsertVote, Admits
    <3>2. r \in Ids
      BY DEF Ids
    <3> QED BY <3>1, <3>2, OwnerWrite
  <2> QED BY <2>1, <2>2
<1>4. ASSUME NEW r \in Requests, ChangeVote(r) PROVE OwnerInv'
  <2> DEFINE i == mem[r].row
             row == WithNewBallot(draft[i], req[r], mem[r])
  <2>1. CASE Raise(r)
    BY <1>0, <2>1
  <2>2. CASE UNCHANGED <<live, vote, draft>>
    BY <1>1, <2>2
  <2>3. CASE draft[i] # None /\ Write(r, i, row) /\ UNCHANGED <<live, vote>>
    <3>1. i \in Ids
      BY <1>4, MemoryFields DEF ChangeVote
    <3>2. draft[i] \in Row
      BY <2>3, <3>1 DEF TypeOK, Table
    <3>3. row.owner = draft[i].owner
      BY <3>2 DEF WithNewBallot, Row
    <3> HIDE DEF row, i
    <3> QED BY <2>3, <3>1, <3>3, OwnerWrite DEF OwnerInv
  <2> QED BY <1>4, <2>1, <2>2, <2>3 DEF ChangeVote
<1>5. ASSUME NEW r \in Requests, CommitVote(r) \/ CommitMigration(r) PROVE OwnerInv'
  BY <1>5 DEF CommitVote, CommitMigration, CommitTx, OwnerInv
<1>6. ASSUME NEW r \in Requests, DropOne(r) PROVE OwnerInv'
  <2>1. PICK i \in mem[r].drops : Write(r, i, None) /\ UNCHANGED <<live, vote>>
    BY <1>6 DEF DropOne
  <2>2. i \in Ids
    BY MemoryFields
  <2> QED BY <2>1, <2>2, OwnerWrite
<1>7. ASSUME NEW r \in Requests, MoveOne(r) PROVE OwnerInv'
  <2>1. CASE Raise(r)
    BY <1>0, <2>1
  <2>2. CASE UNCHANGED <<live, vote, draft>>
    BY <1>1, <2>2
  <2>3. CASE \E i \in mem[r].moves :
               /\ draft[i] # None /\ Admits(i, draft[i].question, mem[r].owner)
               /\ Write(r, i, [draft[i] EXCEPT !.owner = mem[r].owner])
               /\ UNCHANGED <<live, vote>>
    <3>1. PICK i \in mem[r].moves :
               /\ draft[i] # None
               /\ mem[r].owner \in Users => mem[r].owner \in live
               /\ Write(r, i, [draft[i] EXCEPT !.owner = mem[r].owner])
               /\ UNCHANGED <<live, vote>>
      BY <2>3 DEF Admits
    <3> DEFINE row == [draft[i] EXCEPT !.owner = mem[r].owner]
    <3>2. i \in Ids
      BY MemoryFields
    <3>3. draft[i] \in Row
      BY <2>3, <3>1, <3>2 DEF TypeOK, Table
    <3>4. row.owner = mem[r].owner
      BY <3>3 DEF Row
    <3>5. Write(r, i, row)
      BY <3>1
    <3> HIDE DEF row
    <3> QED BY <3>1, <3>2, <3>4, <3>5, OwnerWrite
  <2> QED BY <1>7, <2>1, <2>2, <2>3 DEF MoveOne
<1>8. ASSUME NEW r \in Requests, DeleteAccount(r) PROVE OwnerInv'
  BY <1>8 DEF DeleteAccount, WithoutAccount, OwnedBy, OwnerInv
<1>9. ASSUME NEW r \in Requests, Die(r) \/ BreakDeadlock(r) PROVE OwnerInv'
  BY <1>0, <1>9 DEF Die, BreakDeadlock
<1>10. ASSUME UNCHANGED vars PROVE OwnerInv'
  BY <1>1, <1>10 DEF vars
<1> QED
  BY <1>2, <1>3, <1>4, <1>5, <1>6, <1>7, <1>8, <1>9, <1>10 DEF Next, Arrive, Serve, Terminating

\* A withdrawal leaves no vote behind, although other requests checked the
\* account before it went and write after.
THEOREM NoOrphanVotes == Spec => []OwnersExist
<1>1. OwnerInv => OwnersExist
  BY DEF OwnerInv, OwnersExist
<1> QED
  BY <1>1, TypeInit, TypeStep, OwnerInit, OwnerStep, PTL DEF Spec

----------------------------------------------------------------------------
(* The steps of a request, summarised                                      *)
(*                                                                         *)
(* The properties that relate a handler to the tables are proved from what *)
(* a step can do to the tables: nothing, write one row, publish or revert  *)
(* the transaction's rows, or remove an account's rows.                    *)

SameKey(a, b) == a.question = b.question /\ a.owner = b.owner
SameBallot(a, b) == a.question = b.question /\ a.option = b.option /\ a.reason = b.reason

\* What a handler's step and its uncommitted rows say of the request.
KindAt(r) ==
    /\ pc[r] \in {"lookup", "save", "flushed", "refresh"} => Kind[r] = "vote"
    /\ pc[r] \in {"list", "split", "drop", "move"} => Kind[r] = "migrate"
    /\ pc[r] = "delete" => Kind[r] = "withdraw" /\ req[r].user \in Users
    /\ dirty[r] # {} => pc[r] \in {"flushed", "drop", "move"}

\* A step of r touches no other handler.
Frame(r) ==
    \A o \in Requests \ {r} : /\ pc'[o] = pc[o] /\ mem'[o] = mem[o] /\ req'[o] = req[o]
                              /\ dirty'[o] = dirty[o]

Quiet == UNCHANGED <<live, vote, draft, dirty>>

\* The row r writes at i: its own new vote, a change of the vote it loaded,
\* a deletion, or a change of owner.
Inserts(r, i, row) ==
    /\ i = r /\ pc[r] = "save" /\ Kind[r] = "vote" /\ mem[r].row = None
    /\ row = [question |-> req[r].question, owner |-> mem[r].owner,
              option |-> req[r].option, reason |-> req[r].reason]
Changes(r, i, row) ==
    /\ pc[r] = "save" /\ Kind[r] = "vote" /\ i = mem[r].row
    /\ draft[i] # None /\ row = WithNewBallot(draft[i], req[r], mem[r])
Drops(r, i, row) == pc[r] = "drop" /\ Kind[r] = "migrate" /\ i \in mem[r].drops /\ row = None
Moves(r, i, row) ==
    /\ pc[r] = "move" /\ Kind[r] = "migrate" /\ i \in mem[r].moves
    /\ draft[i] # None /\ row = [draft[i] EXCEPT !.owner = mem[r].owner]

Writes(r, i, row) ==
    /\ Holders(r, i) = {}
    /\ draft'[i] = row /\ \A j \in Ids \ {i} : draft'[j] = draft[j]
    /\ dirty'[r] = dirty[r] \cup {i}
    /\ UNCHANGED <<live, vote>>

Publishes(r) ==
    /\ \A i \in Ids : vote'[i] = IF i \in dirty[r] THEN draft[i] ELSE vote[i]
    /\ dirty'[r] = {}
    /\ UNCHANGED <<live, draft>>

Reverts(r) ==
    /\ \A i \in Ids : draft'[i] = IF i \in dirty[r] THEN vote[i] ELSE draft[i]
    /\ dirty'[r] = {}
    /\ UNCHANGED <<live, vote>>

Removes(u) ==
    /\ \A o \in Requests : \A i \in dirty[o] : ~OwnedBy(vote, i, u) /\ ~OwnedBy(draft, i, u)
    /\ live' = live \ {u}
    /\ \A i \in Ids : /\ vote'[i] = IF OwnedBy(vote, i, u) THEN None ELSE vote[i]
                      /\ draft'[i] = IF OwnedBy(draft, i, u) THEN None ELSE draft[i]
    /\ UNCHANGED dirty

LEMMA WriteEffect ==
    ASSUME TypeOK, NEW r \in Requests, NEW i \in Ids, NEW row, Write(r, i, row),
           Holders(r, i) = {}, UNCHANGED <<live, vote>>
    PROVE  Writes(r, i, row) /\ \A o \in Requests \ {r} : dirty'[o] = dirty[o]
BY DEF TypeOK, Table, Write, Writes

LEMMA CommitEffect ==
    ASSUME TypeOK, NEW r \in Requests, CommitTx(r), UNCHANGED <<live, draft>>
    PROVE  Publishes(r) /\ \A o \in Requests \ {r} : dirty'[o] = dirty[o]
BY DEF TypeOK, CommitTx, Publishes

LEMMA RaiseEffect ==
    ASSUME TypeOK, NEW r \in Requests, Raise(r)
    PROVE  Frame(r) /\ Reverts(r) /\ pc'[r] = "done" /\ mem'[r] = mem[r] /\ req'[r] = req[r]
BY DEF TypeOK, Raise, RollBack, Respond, Reverts, Frame

LEMMA VoteArrivesEffect ==
    ASSUME TypeInv, NEW r \in Requests, VoteArrives(r)
    PROVE  /\ Frame(r) /\ Quiet /\ Kind[r] = "vote"
           /\ pc[r] = "idle" /\ pc'[r] = "lookup" /\ mem'[r].row = mem[r].row
<1>1. PICK x \in VoteRequest :
        /\ req' = [req EXCEPT ![r] = x]
        /\ mem' = [mem EXCEPT ![r].owner = IF TokenUser(x.user) = None THEN x.guest ELSE x.user]
  BY DEF VoteArrives
<1> DEFINE p == IF TokenUser(x.user) = None THEN x.guest ELSE x.user
<1>2. p \in Participants
  BY IdsAssumption DEF VoteRequest, Participants, TokenUser, TypeInv, TypeOK
<1> HIDE DEF p
<1>3. mem'[r].row = mem[r].row /\ \A o \in Requests \ {r} : mem'[o] = mem[o]
  BY <1>1, <1>2, OwnerSet DEF p, TypeInv
<1>4. \A o \in Requests \ {r} : req'[o] = req[o]
  BY <1>1 DEF TypeInv, TypeOK
<1>5. pc[r] = "idle" /\ Kind[r] = "vote" /\ pc' = [pc EXCEPT ![r] = "lookup"] /\ Quiet
  BY DEF VoteArrives, GoTo, Quiet
<1> QED
  BY <1>3, <1>4, <1>5 DEF Frame, Quiet, TypeInv, TypeOK

LEMMA LookUpVoteEffect ==
    ASSUME TypeInv, NEW r \in Requests, LookUpVote(r)
    PROVE  /\ Frame(r) /\ Quiet /\ pc[r] = "lookup" /\ req'[r] = req[r]
           /\ \/ pc'[r] = "done" /\ mem'[r] = mem[r]
              \/ /\ pc'[r] = "save" /\ req[r].question \in Active /\ Accepts(req[r])
                 /\ \/ mem'[r] = mem[r]
                    \/ \E i \in Ids : /\ HasKey(vote, i, req[r].question, mem[r].owner)
                                      /\ mem'[r].row = i /\ mem'[r].option = vote[i].option
                                      /\ mem'[r].reason = vote[i].reason
<1> USE DEF TypeInv
<1>1. pc[r] = "lookup" /\ req' = req /\ Quiet
  BY DEF LookUpVote, Quiet
<1>2. CASE pc' = [pc EXCEPT ![r] = "done"] /\ mem' = mem
  BY <1>1, <1>2 DEF Frame, Quiet, TypeOK
<1>3. CASE pc' = [pc EXCEPT ![r] = "save"] /\ mem' = mem /\ req[r].question \in Active /\ Accepts(req[r])
  BY <1>1, <1>3 DEF Frame, Quiet, TypeOK
<1>4. CASE /\ pc' = [pc EXCEPT ![r] = "save"] /\ req[r].question \in Active /\ Accepts(req[r])
           /\ \E i \in StoredFor(req[r].question, mem[r].owner) :
                  mem' = [mem EXCEPT ![r].row = i, ![r].option = vote[i].option,
                                     ![r].reason = vote[i].reason]
  <2>1. PICK i \in StoredFor(req[r].question, mem[r].owner) :
              mem' = [mem EXCEPT ![r].row = i, ![r].option = vote[i].option,
                                 ![r].reason = vote[i].reason]
    BY <1>4
  <2>2. i \in Ids /\ HasKey(vote, i, req[r].question, mem[r].owner)
    BY <2>1 DEF StoredFor
  <2>3. vote[i] \in Row
    BY <2>2 DEF HasKey, TypeOK, Table
  <2>4. vote[i].option \in Options /\ vote[i].reason \in Reasons
    BY <2>3 DEF Row
  <2>5. /\ mem'[r].row = i /\ mem'[r].option = vote[i].option /\ mem'[r].reason = vote[i].reason
        /\ \A o \in Requests \ {r} : mem'[o] = mem[o]
    <3> DEFINE m == [mem[r] EXCEPT !.row = i, !.option = vote[i].option, !.reason = vote[i].reason]
    <3>1. mem[r] \in Memory
      BY MemoryFields
    <3>2. m.row = i /\ m.option = vote[i].option /\ m.reason = vote[i].reason
      BY <3>1 DEF Memory
    <3>3. mem' = [mem EXCEPT ![r] = m]
      BY <2>1
    <3> HIDE DEF m
    <3>4. mem'[r] = m /\ \A o \in Requests \ {r} : mem'[o] = mem[o]
      BY <3>3 DEF TypeOK
    <3> QED BY <3>2, <3>4
  <2>6. Frame(r) /\ pc'[r] = "save"
    BY <1>1, <1>4, <2>5 DEF Frame, Quiet, TypeOK
  <2> QED BY <1>1, <1>4, <2>2, <2>5, <2>6
<1> QED
  BY <1>2, <1>3, <1>4 DEF LookUpVote, Respond, GoTo

LEMMA InsertVoteEffect ==
    ASSUME TypeInv, NEW r \in Requests, KindAt(r), InsertVote(r)
    PROVE  /\ Frame(r) /\ pc[r] = "save" /\ mem[r].row = None /\ req'[r] = req[r]
           /\ \/ Reverts(r) /\ pc'[r] = "done" /\ mem'[r] = mem[r]
              \/ /\ \E row \in Row : Writes(r, r, row) /\ Inserts(r, r, row)
                 /\ pc'[r] = "flushed" /\ mem'[r].row = r
<1> USE DEF TypeInv
<1>1. pc[r] = "save" /\ mem[r].row = None /\ Kind[r] = "vote"
  BY DEF InsertVote, KindAt
<1>2. CASE Raise(r)
  BY <1>1, <1>2, RaiseEffect
<1>3. CASE ~Raise(r)
  <2> DEFINE row == [question |-> req[r].question, owner |-> mem[r].owner,
                     option |-> req[r].option, reason |-> req[r].reason]
  <2>1. row \in Row /\ r \in Ids
    BY <1>1 DEF HandlerOK, VoteRequest, Row, Ids
  <2>2. /\ Holders(r, r) = {} /\ Write(r, r, row) /\ mem' = [mem EXCEPT ![r].row = r]
        /\ pc' = [pc EXCEPT ![r] = "flushed"] /\ UNCHANGED <<live, vote, req>>
    BY <1>3 DEF InsertVote, GoTo
  <2>3. Inserts(r, r, row)
    BY <1>1 DEF Inserts
  <2> HIDE DEF row
  <2>4. Writes(r, r, row) /\ \A o \in Requests \ {r} : dirty'[o] = dirty[o]
    BY <2>1, <2>2, WriteEffect
  <2>5. mem'[r].row = r /\ \A o \in Requests \ {r} : mem'[o] = mem[o]
    BY <2>1, <2>2, RowSet
  <2>6. Frame(r) /\ pc'[r] = "flushed" /\ req'[r] = req[r]
    BY <2>2, <2>4, <2>5 DEF Frame, TypeOK
  <2> QED BY <1>1, <2>1, <2>3, <2>4, <2>5, <2>6
<1> QED
  BY <1>2, <1>3

LEMMA ChangeVoteEffect ==
    ASSUME TypeInv, NEW r \in Requests, KindAt(r), ChangeVote(r)
    PROVE  /\ Frame(r) /\ pc[r] = "save" /\ mem[r].row \in Ids /\ req'[r] = req[r] /\ mem'[r] = mem[r]
           /\ \/ Reverts(r) /\ pc'[r] = "done"
              \/ Quiet /\ pc'[r] = "flushed" /\ req[r].option = mem[r].option /\ req[r].reason = mem[r].reason
              \/ /\ \E row \in Row : Writes(r, mem[r].row, row) /\ Changes(r, mem[r].row, row)
                 /\ pc'[r] = "flushed"
<1> USE DEF TypeInv
<1> DEFINE i == mem[r].row
           row == WithNewBallot(draft[i], req[r], mem[r])
<1>1. pc[r] = "save" /\ i \in Ids /\ Kind[r] = "vote"
  BY MemoryFields DEF ChangeVote, KindAt
<1>2. CASE Raise(r)
  BY <1>1, <1>2, RaiseEffect
<1>3. CASE /\ req[r].option = mem[r].option /\ req[r].reason = mem[r].reason
           /\ GoTo(r, "flushed") /\ UNCHANGED <<live, vote, draft, dirty, req, mem, answer>>
  BY <1>1, <1>3 DEF GoTo, Frame, Quiet, TypeOK
<1>4. CASE /\ Holders(r, i) = {} /\ draft[i] # None /\ Write(r, i, row)
           /\ GoTo(r, "flushed") /\ UNCHANGED <<live, vote, req, mem, answer>>
  <2>1. draft[i] \in Row /\ req[r].option \in Options /\ req[r].reason \in Reasons
    BY <1>1, <1>4 DEF TypeOK, Table, HandlerOK, VoteRequest
  <2>2. row \in Row
    BY <2>1 DEF WithNewBallot, Row
  <2>3. Changes(r, i, row)
    BY <1>1, <1>4 DEF Changes
  <2> HIDE DEF row
  <2>4. Writes(r, i, row) /\ \A o \in Requests \ {r} : dirty'[o] = dirty[o]
    BY <1>1, <1>4, WriteEffect
  <2>5. Frame(r) /\ pc'[r] = "flushed" /\ req'[r] = req[r] /\ mem'[r] = mem[r]
    BY <1>4, <2>4 DEF GoTo, Frame, TypeOK
  <2> QED BY <1>1, <2>2, <2>3, <2>4, <2>5
<1> QED
  BY <1>2, <1>3, <1>4 DEF ChangeVote

LEMMA CommitVoteEffect ==
    ASSUME TypeInv, NEW r \in Requests, CommitVote(r)
    PROVE  /\ Frame(r) /\ Publishes(r) /\ pc[r] = "flushed" /\ pc'[r] = "refresh"
           /\ Kind[r] = "vote" /\ mem'[r] = mem[r] /\ req'[r] = req[r]
<1>1. Publishes(r) /\ \A o \in Requests \ {r} : dirty'[o] = dirty[o]
  BY CommitEffect DEF TypeInv, CommitVote
<1> QED
  BY <1>1 DEF CommitVote, GoTo, Frame, TypeInv, TypeOK

LEMMA RefreshVoteEffect ==
    ASSUME TypeInv, NEW r \in Requests, RefreshVote(r)
    PROVE  Frame(r) /\ Quiet /\ pc[r] = "refresh" /\ pc'[r] = "done" /\ mem'[r] = mem[r] /\ req'[r] = req[r]
BY DEF RefreshVote, Respond, Frame, Quiet, TypeInv, TypeOK

LEMMA MigrateArrivesEffect ==
    ASSUME TypeInv, NEW r \in Requests, MigrateArrives(r)
    PROVE  /\ Frame(r) /\ Quiet /\ pc[r] = "idle" /\ Kind[r] = "migrate"
           /\ mem'[r].row = mem[r].row
           /\ pc'[r] = "done" \/ (pc'[r] = "list" /\ req'[r].guest \in Guests)
<1> USE DEF TypeInv
<1>1. PICK u \in Users, g \in Guests :
        /\ req' = [req EXCEPT ![r].user = u, ![r].guest = g]
        /\ \/ /\ mem' = [mem EXCEPT ![r].owner = u]
              /\ GoTo(r, "list")
           \/ Respond(r, "unauthorized") /\ UNCHANGED mem
  BY DEF MigrateArrives
<1>2. req'[r].guest = g /\ \A o \in Requests \ {r} : req'[o] = req[o]
  <2> DEFINE x == [req[r] EXCEPT !.user = u, !.guest = g]
  <2>1. req \in [Requests -> Request]
    BY DEF TypeOK
  <2>2. x.guest = g
    BY <2>1 DEF Request
  <2>3. req' = [req EXCEPT ![r] = x]
    BY <1>1, <2>1
  <2> HIDE DEF x
  <2> QED BY <2>1, <2>2, <2>3
<1>3. mem'[r].row = mem[r].row /\ \A o \in Requests \ {r} : mem'[o] = mem[o]
  BY <1>1, OwnerSet DEF Participants
<1>4. pc[r] = "idle" /\ Kind[r] = "migrate" /\ Quiet
  BY DEF MigrateArrives, Quiet
<1>5. /\ pc'[r] \in {"done", "list"} /\ \A o \in Requests \ {r} : pc'[o] = pc[o]
  BY <1>1 DEF GoTo, Respond, TypeOK
<1> QED
  BY <1>2, <1>3, <1>4, <1>5 DEF Frame, Quiet

LEMMA ListGuestVotesEffect ==
    ASSUME TypeInv, NEW r \in Requests, ListGuestVotes(r)
    PROVE  /\ Frame(r) /\ Quiet /\ pc[r] = "list" /\ pc'[r] = "split" /\ req'[r] = req[r]
           /\ mem'[r].row = mem[r].row
           /\ mem'[r].listed = {x \in Listing : HasKey(vote, x[1], x[2], req[r].guest)}
<1> DEFINE found == {x \in Listing : x[1] \in StoredFor(x[2], req[r].guest)}
<1>1. found \in SUBSET Listing /\ mem' = [mem EXCEPT ![r].listed = found]
  BY DEF ListGuestVotes
<1>2. found = {x \in Listing : HasKey(vote, x[1], x[2], req[r].guest)}
  BY DEF StoredFor, Listing
<1> HIDE DEF found
<1>3. /\ mem'[r].row = mem[r].row /\ mem'[r].listed = found
      /\ \A o \in Requests \ {r} : mem'[o] = mem[o]
  BY <1>1, ListedSet DEF TypeInv
<1>4. /\ pc[r] = "list" /\ pc' = [pc EXCEPT ![r] = "split"] /\ req' = req /\ Quiet
  BY DEF ListGuestVotes, GoTo, Quiet
<1> QED
  BY <1>2, <1>3, <1>4 DEF Frame, Quiet, TypeInv, TypeOK

LEMMA ListAccountVotesEffect ==
    ASSUME TypeInv, NEW r \in Requests, ListAccountVotes(r)
    PROVE  /\ Frame(r) /\ Quiet /\ pc[r] = "split" /\ pc'[r] = "drop" /\ req'[r] = req[r]
           /\ mem'[r].row = mem[r].row /\ mem'[r].owner = mem[r].owner /\ mem'[r].listed = mem[r].listed
           /\ mem'[r].drops = IdsOf({x \in mem[r].listed : x[2] \in AnsweredBy(mem[r].owner)})
           /\ mem'[r].moves = IdsOf({x \in mem[r].listed : x[2] \notin AnsweredBy(mem[r].owner)})
           /\ mem'[r].migrated = Cardinality(mem'[r].moves)
<1> DEFINE d == IdsOf({x \in mem[r].listed : x[2] \in AnsweredBy(mem[r].owner)})
           m == IdsOf({x \in mem[r].listed : x[2] \notin AnsweredBy(mem[r].owner)})
           n == Cardinality(m)
           b == Cardinality(m) > 1
<1>1. d \in SUBSET Ids /\ m \in SUBSET Ids
  <2>1. mem[r].listed \in SUBSET Listing
    BY MemoryFields DEF TypeInv
  <2> QED BY <2>1 DEF IdsOf, Listing
<1>2. n \in Nat /\ b \in BOOLEAN
  BY <1>1, IdsFinite
<1>3. mem' = [mem EXCEPT ![r].drops = d, ![r].moves = m, ![r].several = b, ![r].migrated = n]
  BY DEF ListAccountVotes, Split
<1>4. /\ mem'[r].drops = d /\ mem'[r].moves = m /\ mem'[r].migrated = n
      /\ mem'[r].row = mem[r].row /\ mem'[r].listed = mem[r].listed /\ mem'[r].owner = mem[r].owner
      /\ \A o \in Requests \ {r} : mem'[o] = mem[o]
  <2> HIDE DEF d, m, n, b
  <2> DEFINE all == [mem[r] EXCEPT !.drops = d, !.moves = m, !.several = b, !.migrated = n]
  <2>1. mem[r] \in Memory /\ mem \in [Requests -> Memory]
    BY MemoryFields DEF TypeInv, TypeOK
  <2>2. /\ all.drops = d /\ all.moves = m /\ all.migrated = n
        /\ all.row = mem[r].row /\ all.listed = mem[r].listed /\ all.owner = mem[r].owner
    BY <2>1 DEF Memory
  <2>3. mem' = [mem EXCEPT ![r] = all]
    BY <1>3
  <2> HIDE DEF all
  <2>4. mem'[r] = all /\ \A o \in Requests \ {r} : mem'[o] = mem[o]
    BY <2>1, <2>3
  <2> QED BY <2>2, <2>4
<1>5. pc[r] = "split" /\ pc' = [pc EXCEPT ![r] = "drop"] /\ req' = req /\ Quiet
  BY DEF ListAccountVotes, GoTo, Quiet
<1>6. Frame(r) /\ Quiet /\ pc[r] = "split" /\ pc'[r] = "drop" /\ req'[r] = req[r]
  BY <1>4, <1>5 DEF Frame, Quiet, TypeInv, TypeOK
<1> QED
  BY <1>4, <1>6

LEMMA DropOneEffect ==
    ASSUME TypeInv, NEW r \in Requests, KindAt(r), DropOne(r)
    PROVE  /\ Frame(r) /\ pc[r] = "drop" /\ pc'[r] = "drop" /\ req'[r] = req[r]
           /\ mem'[r].row = mem[r].row /\ mem'[r].owner = mem[r].owner /\ mem'[r].listed = mem[r].listed
           /\ mem'[r].moves = mem[r].moves /\ mem'[r].migrated = mem[r].migrated
           /\ \E i \in Ids : /\ Writes(r, i, None) /\ Drops(r, i, None)
                             /\ mem'[r].drops = mem[r].drops \ {i}
<1> USE DEF TypeInv
<1>1. PICK i \in mem[r].drops :
        Holders(r, i) = {} /\ Write(r, i, None) /\ mem' = [mem EXCEPT ![r].drops = @ \ {i}]
  BY DEF DropOne
<1>2. i \in Ids
  BY MemoryFields
<1>3. pc[r] = "drop" /\ Kind[r] = "migrate" /\ UNCHANGED <<live, vote, pc, req>>
  BY DEF DropOne, KindAt
<1>4. Writes(r, i, None) /\ \A o \in Requests \ {r} : dirty'[o] = dirty[o]
  BY <1>1, <1>2, <1>3, WriteEffect
<1>5. Drops(r, i, None)
  BY <1>1, <1>3 DEF Drops
<1> DEFINE S == mem[r].drops \ {i}
<1>6. S \in SUBSET Ids /\ mem' = [mem EXCEPT ![r].drops = S]
  BY <1>1, MemoryFields
<1> HIDE DEF S
<1>7. /\ mem'[r].drops = S /\ mem'[r].row = mem[r].row /\ mem'[r].owner = mem[r].owner
      /\ mem'[r].listed = mem[r].listed
      /\ mem'[r].moves = mem[r].moves /\ mem'[r].migrated = mem[r].migrated
      /\ \A o \in Requests \ {r} : mem'[o] = mem[o]
  BY <1>6, DropsSet
<1> QED
  BY <1>2, <1>3, <1>4, <1>5, <1>7 DEF Frame, S

LEMMA BeginMovesEffect ==
    ASSUME TypeInv, NEW r \in Requests, BeginMoves(r)
    PROVE  /\ Frame(r) /\ Quiet /\ pc[r] = "drop" /\ pc'[r] = "move" /\ mem[r].drops = {}
           /\ mem'[r] = mem[r] /\ req'[r] = req[r]
BY DEF BeginMoves, GoTo, Frame, Quiet, TypeInv, TypeOK

LEMMA MoveOneEffect ==
    ASSUME TypeInv, NEW r \in Requests, KindAt(r), MoveOne(r)
    PROVE  /\ Frame(r) /\ pc[r] = "move" /\ req'[r] = req[r]
           /\ \/ Reverts(r) /\ pc'[r] = "done" /\ mem'[r] = mem[r]
              \/ /\ pc'[r] = "move"
                 /\ mem'[r].row = mem[r].row /\ mem'[r].owner = mem[r].owner
                 /\ mem'[r].listed = mem[r].listed
                 /\ mem'[r].drops = mem[r].drops /\ mem'[r].migrated = mem[r].migrated
                 /\ \E i \in Ids : /\ i \in mem[r].moves /\ mem'[r].moves = mem[r].moves \ {i}
                                   /\ \/ \E row \in Row : Writes(r, i, row) /\ Moves(r, i, row)
                                      \/ Quiet /\ draft[i] = None /\ Holders(r, i) = {}
<1> USE DEF TypeInv
<1>1. pc[r] = "move" /\ Kind[r] = "migrate" /\ mem[r].owner \in Participants
  BY DEF MoveOne, KindAt, HandlerOK, Participants
<1>2. CASE Raise(r)
  BY <1>1, <1>2, RaiseEffect
<1>3. CASE ~Raise(r)
  <2>1. PICK i \in mem[r].moves :
          /\ Holders(r, i) = {}
          /\ mem' = [mem EXCEPT ![r].moves = @ \ {i}]
          /\ UNCHANGED <<live, vote, pc, req, answer>>
          /\ \/ /\ draft[i] # None
                /\ Write(r, i, [draft[i] EXCEPT !.owner = mem[r].owner])
             \/ draft[i] = None /\ UNCHANGED <<draft, dirty>>
    BY <1>3 DEF MoveOne
  <2>2. i \in Ids
    BY MemoryFields
  <2> DEFINE S == mem[r].moves \ {i}
  <2>3. S \in SUBSET Ids /\ mem' = [mem EXCEPT ![r].moves = S]
    BY <2>1, MemoryFields
  <2> HIDE DEF S
  <2>4. /\ mem'[r].moves = S /\ mem'[r].row = mem[r].row /\ mem'[r].owner = mem[r].owner
        /\ mem'[r].listed = mem[r].listed
        /\ mem'[r].drops = mem[r].drops /\ mem'[r].migrated = mem[r].migrated
        /\ \A o \in Requests \ {r} : mem'[o] = mem[o]
    BY <2>3, MovesSet
  <2>5. CASE draft[i] # None /\ Write(r, i, [draft[i] EXCEPT !.owner = mem[r].owner])
    <3> DEFINE row == [draft[i] EXCEPT !.owner = mem[r].owner]
    <3>1. draft[i] \in Row
      BY <2>2, <2>5 DEF TypeOK, Table
    <3>2. row \in Row
      BY <1>1, <3>1 DEF Row
    <3>3. Moves(r, i, row)
      BY <1>1, <2>5 DEF Moves
    <3> HIDE DEF row
    <3>4. Write(r, i, row) /\ UNCHANGED <<live, vote, pc, req>>
      BY <2>1, <2>5 DEF row
    <3>5. Writes(r, i, row) /\ \A o \in Requests \ {r} : dirty'[o] = dirty[o]
      BY <2>1, <2>2, <3>4, WriteEffect
    <3>6. Frame(r)
      BY <2>4, <3>4, <3>5 DEF Frame
    <3> QED BY <1>1, <2>2, <2>4, <3>2, <3>3, <3>4, <3>5, <3>6 DEF S
  <2>6. CASE draft[i] = None /\ UNCHANGED <<draft, dirty>>
    <3>1. Frame(r) /\ Quiet
      BY <2>1, <2>4, <2>6 DEF Frame, Quiet
    <3> QED BY <1>1, <2>1, <2>2, <2>4, <2>6, <3>1 DEF S
  <2> QED BY <2>1, <2>5, <2>6
<1> QED
  BY <1>2, <1>3

LEMMA CommitMigrationEffect ==
    ASSUME TypeInv, NEW r \in Requests, KindAt(r), CommitMigration(r)
    PROVE  /\ Frame(r) /\ Publishes(r) /\ pc[r] = "move" /\ pc'[r] = "done"
           /\ Kind[r] = "migrate" /\ mem[r].moves = {} /\ mem'[r] = mem[r] /\ req'[r] = req[r]
<1>1. Publishes(r) /\ \A o \in Requests \ {r} : dirty'[o] = dirty[o]
  BY CommitEffect DEF TypeInv, CommitMigration
<1> QED
  BY <1>1 DEF CommitMigration, Respond, Frame, KindAt, TypeInv, TypeOK

LEMMA WithdrawArrivesEffect ==
    ASSUME TypeInv, NEW r \in Requests, WithdrawArrives(r)
    PROVE  /\ Frame(r) /\ Quiet /\ pc[r] = "idle" /\ Kind[r] = "withdraw" /\ mem'[r] = mem[r]
           /\ pc'[r] = "done" \/ (pc'[r] = "delete" /\ req'[r].user \in Users)
<1> USE DEF TypeInv
<1>1. PICK u \in Users :
        /\ req' = [req EXCEPT ![r].user = u]
        /\ GoTo(r, "delete") \/ Respond(r, "unauthorized")
  BY DEF WithdrawArrives
<1>2. req'[r].user = u /\ \A o \in Requests \ {r} : req'[o] = req[o]
  <2> DEFINE x == [req[r] EXCEPT !.user = u]
  <2>1. req \in [Requests -> Request]
    BY DEF TypeOK
  <2>2. x.user = u
    BY <2>1 DEF Request
  <2>3. req' = [req EXCEPT ![r] = x]
    BY <1>1, <2>1
  <2> HIDE DEF x
  <2> QED BY <2>1, <2>2, <2>3
<1>3. pc[r] = "idle" /\ Kind[r] = "withdraw" /\ Quiet /\ mem' = mem
  BY DEF WithdrawArrives, Quiet
<1>4. pc'[r] \in {"done", "delete"} /\ \A o \in Requests \ {r} : pc'[o] = pc[o]
  BY <1>1 DEF GoTo, Respond, TypeOK
<1> QED
  BY <1>2, <1>3, <1>4 DEF Frame, Quiet

LEMMA DeleteAccountEffect ==
    ASSUME TypeInv, NEW r \in Requests, KindAt(r), DeleteAccount(r)
    PROVE  /\ Frame(r) /\ Removes(req[r].user) /\ req[r].user \in Users
           /\ pc[r] = "delete" /\ pc'[r] = "done" /\ mem'[r] = mem[r] /\ req'[r] = req[r]
<1> DEFINE u == req[r].user
<1>1. pc[r] = "delete" /\ dirty[r] = {} /\ u \in Users
  BY DEF DeleteAccount, KindAt
<1>2. Removes(u)
  BY <1>1 DEF DeleteAccount, Removes, WithoutAccount
<1>3. Frame(r) /\ pc'[r] = "done" /\ mem'[r] = mem[r] /\ req'[r] = req[r]
  BY DEF DeleteAccount, Respond, Frame, TypeInv, TypeOK
<1> QED
  BY <1>1, <1>2, <1>3

----------------------------------------------------------------------------
(* What the handlers know of the tables                                    *)

\* Every row carries a ballot its question offers.
RowsOffered ==
    \A i \in Ids :
        /\ vote[i] # None => Offers(vote[i].question, vote[i].option, vote[i].reason)
        /\ draft[i] # None => Offers(draft[i].question, draft[i].option, draft[i].reason)

\* The row a voter holds is one on the question it asked for.
RowAsked(t, r) ==
    mem[r].row # None /\ t[mem[r].row] # None => t[mem[r].row].question = req[r].question

\* A voter past its checks has an acceptable request; what it wrote is its new
\* row, or the row it loaded with the same question and owner.
VoterOK(r) ==
    /\ pc[r] \in {"idle", "lookup"} => mem[r].row = None
    /\ pc[r] \in {"save", "flushed"} =>
         /\ req[r].question \in Active /\ Accepts(req[r])
         /\ RowAsked(vote, r) /\ RowAsked(draft, r)
    /\ pc[r] \in {"flushed", "refresh"} => mem[r].row # None
    /\ pc[r] = "flushed" => \A i \in dirty[r] :
         /\ i = mem[r].row /\ draft[i] # None
         /\ draft[i].question = req[r].question
         /\ vote[i] = None => i = r
         /\ vote[i] # None => SameKey(vote[i], draft[i])

\* Nobody sees the row of a vote that has not been committed.
Unpublished(r) ==
    /\ Kind[r] = "vote" /\ pc[r] \in {"idle", "lookup", "save", "flushed"} => vote[r] = None
    /\ Kind[r] = "vote" /\ pc[r] \in {"idle", "lookup", "save"} =>
         \A o \in Requests : mem[o].row # r

\* A merge keeps the ballots of the rows it rewrites.
MergeWrites(r) ==
    pc[r] \in {"drop", "move"} => \A i \in dirty[r] :
        draft[i] # None => vote[i] # None /\ SameBallot(vote[i], draft[i])

HandlersInv ==
    /\ RowsOffered
    /\ \A r \in Requests : KindAt(r) /\ VoterOK(r) /\ Unpublished(r) /\ MergeWrites(r)

\* What a step of r can do to the tables.
TableEffect(r) ==
    \/ Quiet
    \/ \E i \in Ids, row \in Row \cup {None} :
          /\ Writes(r, i, row)
          /\ Inserts(r, i, row) \/ Changes(r, i, row) \/ Drops(r, i, row) \/ Moves(r, i, row)
    \/ Publishes(r) /\ pc[r] \in {"flushed", "move"}
    \/ Reverts(r)
    \/ Removes(req[r].user) /\ req[r].user \in Users

\* How a step of r can choose the row its handler holds.
RowChoice(r) ==
    \/ mem'[r].row = mem[r].row
    \/ mem'[r].row = r /\ pc[r] = "save"
    \/ mem'[r].row \in Ids /\ vote[mem'[r].row] # None

Step(r) == Arrive(r) \/ Serve(r) \/ Die(r)

LEMMA StepEffect ==
    ASSUME TypeInv, NEW r \in Requests, KindAt(r), Step(r)
    PROVE  Frame(r) /\ TableEffect(r) /\ RowChoice(r)
<1> USE DEF TableEffect, RowChoice
<1>1. ASSUME VoteArrives(r) PROVE Frame(r) /\ TableEffect(r) /\ RowChoice(r)
  BY <1>1, VoteArrivesEffect
<1>2. ASSUME LookUpVote(r) PROVE Frame(r) /\ TableEffect(r) /\ RowChoice(r)
  BY <1>2, LookUpVoteEffect DEF HasKey
<1>3. ASSUME InsertVote(r) PROVE Frame(r) /\ TableEffect(r) /\ RowChoice(r)
  <2>1. r \in Ids
    BY DEF Ids
  <2> QED BY <1>3, <2>1, InsertVoteEffect
<1>4. ASSUME ChangeVote(r) PROVE Frame(r) /\ TableEffect(r) /\ RowChoice(r)
  BY <1>4, ChangeVoteEffect
<1>5. ASSUME CommitVote(r) PROVE Frame(r) /\ TableEffect(r) /\ RowChoice(r)
  BY <1>5, CommitVoteEffect
<1>6. ASSUME RefreshVote(r) PROVE Frame(r) /\ TableEffect(r) /\ RowChoice(r)
  BY <1>6, RefreshVoteEffect
<1>7. ASSUME MigrateArrives(r) PROVE Frame(r) /\ TableEffect(r) /\ RowChoice(r)
  BY <1>7, MigrateArrivesEffect
<1>8. ASSUME ListGuestVotes(r) PROVE Frame(r) /\ TableEffect(r) /\ RowChoice(r)
  BY <1>8, ListGuestVotesEffect
<1>9. ASSUME ListAccountVotes(r) PROVE Frame(r) /\ TableEffect(r) /\ RowChoice(r)
  BY <1>9, ListAccountVotesEffect
<1>10. ASSUME DropOne(r) PROVE Frame(r) /\ TableEffect(r) /\ RowChoice(r)
  <2>1. PICK i \in Ids : Writes(r, i, None) /\ Drops(r, i, None)
    BY <1>10, DropOneEffect
  <2> QED BY <1>10, <2>1, DropOneEffect
<1>11. ASSUME BeginMoves(r) PROVE Frame(r) /\ TableEffect(r) /\ RowChoice(r)
  BY <1>11, BeginMovesEffect
<1>12. ASSUME MoveOne(r) PROVE Frame(r) /\ TableEffect(r) /\ RowChoice(r)
  BY <1>12, MoveOneEffect
<1>13. ASSUME CommitMigration(r) PROVE Frame(r) /\ TableEffect(r) /\ RowChoice(r)
  BY <1>13, CommitMigrationEffect
<1>14. ASSUME WithdrawArrives(r) PROVE Frame(r) /\ TableEffect(r) /\ RowChoice(r)
  BY <1>14, WithdrawArrivesEffect
<1>15. ASSUME DeleteAccount(r) PROVE Frame(r) /\ TableEffect(r) /\ RowChoice(r)
  BY <1>15, DeleteAccountEffect
<1>16. ASSUME Die(r) \/ BreakDeadlock(r) PROVE Frame(r) /\ TableEffect(r) /\ RowChoice(r)
  BY <1>16, RaiseEffect DEF Die, BreakDeadlock, TypeInv
<1> QED
  BY <1>1, <1>2, <1>3, <1>4, <1>5, <1>6, <1>7, <1>8, <1>9, <1>10, <1>11, <1>12, <1>13,
     <1>14, <1>15, <1>16 DEF Step, Arrive, Serve

LEMMA NextIsStep ==
    ASSUME [Next]_vars
    PROVE  UNCHANGED vars \/ \E r \in Requests : Step(r)
BY DEF Next, Terminating, Step

LEMMA RowsOfferedKept ==
    ASSUME TypeInv, HandlersInv, NEW r \in Requests, TableEffect(r)
    PROVE  RowsOffered'
<1> USE DEF TypeInv, HandlersInv
<1>1. CASE Quiet
  BY <1>1 DEF Quiet, RowsOffered
<1>2. ASSUME NEW i \in Ids, NEW row \in Row \cup {None}, Writes(r, i, row),
             row # None => Offers(row.question, row.option, row.reason)
      PROVE  RowsOffered'
  BY <1>2 DEF Writes, RowsOffered
<1>3. ASSUME NEW i \in Ids, NEW row \in Row \cup {None}, Writes(r, i, row), Inserts(r, i, row)
      PROVE  RowsOffered'
  <2>1. /\ row.question = req[r].question /\ row.option = req[r].option
        /\ row.reason = req[r].reason /\ Accepts(req[r])
    BY <1>3 DEF Inserts, VoterOK
  <2> QED BY <1>2, <1>3, <2>1 DEF Accepts
<1>4. ASSUME NEW i \in Ids, NEW row \in Row \cup {None}, Writes(r, i, row), Changes(r, i, row)
      PROVE  RowsOffered'
  <2>1. draft[i] \in Row /\ i = mem[r].row /\ draft[i] # None /\ mem[r].row # None
    BY <1>4, IdsAssumption DEF Changes, TypeOK, Table
  <2>2. /\ row.question = draft[i].question
        /\ row.option \in {req[r].option, draft[i].option}
        /\ row.reason \in {req[r].reason, draft[i].reason}
    BY <1>4, <2>1 DEF Changes, WithNewBallot, Row
  <2>3. Accepts(req[r]) /\ draft[i].question = req[r].question
    BY <1>4, <2>1 DEF Changes, VoterOK, RowAsked
  <2>4. Offers(draft[i].question, draft[i].option, draft[i].reason)
    BY <2>1 DEF RowsOffered
  <2>5. Offers(row.question, row.option, row.reason)
    BY <2>2, <2>3, <2>4 DEF Accepts, Offers
  <2> QED BY <1>2, <1>4, <2>5
<1>5. ASSUME NEW i \in Ids, NEW row \in Row \cup {None}, Writes(r, i, row), Drops(r, i, row)
      PROVE  RowsOffered'
  BY <1>2, <1>5 DEF Drops
<1>6. ASSUME NEW i \in Ids, NEW row \in Row \cup {None}, Writes(r, i, row), Moves(r, i, row)
      PROVE  RowsOffered'
  <2>1. draft[i] \in Row /\ draft[i] # None
    BY <1>6 DEF Moves, TypeOK, Table
  <2>2. row.question = draft[i].question /\ row.option = draft[i].option /\ row.reason = draft[i].reason
    BY <1>6, <2>1 DEF Moves, Row
  <2>3. Offers(draft[i].question, draft[i].option, draft[i].reason)
    BY <2>1 DEF RowsOffered
  <2> QED BY <1>2, <1>6, <2>2, <2>3
<1>7. CASE Publishes(r)
  BY <1>7 DEF Publishes, RowsOffered
<1>8. CASE Reverts(r)
  BY <1>8 DEF Reverts, RowsOffered
<1>9. CASE Removes(req[r].user)
  BY <1>9 DEF Removes, RowsOffered
<1> QED
  BY <1>1, <1>3, <1>4, <1>5, <1>6, <1>7, <1>8, <1>9 DEF TableEffect

\* The four parts for a handler o that does not take the step.
LEMMA OthersKept ==
    ASSUME TypeInv, IsolationInv, HandlersInv, NEW r \in Requests, Frame(r), TableEffect(r), RowChoice(r),
           NEW o \in Requests \ {r}
    PROVE  KindAt(o)' /\ VoterOK(o)' /\ Unpublished(o)' /\ MergeWrites(o)'
<1>0. /\ pc'[o] = pc[o] /\ mem'[o] = mem[o] /\ req'[o] = req[o] /\ dirty'[o] = dirty[o]
      /\ mem[o].row \in Ids \cup {None} /\ dirty[o] \subseteq Ids /\ dirty[r] \subseteq Ids
  BY MemoryFields DEF Frame, TypeInv, TypeOK
<1>a. KindAt(o) /\ VoterOK(o) /\ Unpublished(o) /\ MergeWrites(o)
  BY DEF HandlersInv
<1>b. KindAt(r) /\ VoterOK(r) /\ Unpublished(r) /\ MergeWrites(r)
  BY DEF HandlersInv
<1>c. KindAt(o)'
  BY <1>0, <1>a DEF KindAt
<1>d. ASSUME vote' = vote PROVE Unpublished(o)'
  <2>1. Kind[o] = "vote" /\ pc[o] \in {"idle", "lookup", "save"} => mem'[r].row # o
    BY <1>a DEF Unpublished, RowChoice
  <2>2. \A x \in Requests \ {r} : mem'[x].row = mem[x].row
    BY DEF Frame
  <2> QED BY <1>0, <1>a, <1>d, <2>1, <2>2 DEF Unpublished
<1>e. dirty[r] \cap dirty[o] = {}
  BY DEF IsolationInv, LocksExclusive
<1>1. CASE Quiet
  <2>1. Unpublished(o)'
    BY <1>1, <1>d DEF Quiet
  <2> QED BY <1>0, <1>1, <1>a, <1>c, <2>1 DEF Quiet, VoterOK, RowAsked, MergeWrites
<1>2. ASSUME NEW i \in Ids, NEW row \in Row \cup {None}, Writes(r, i, row),
             Inserts(r, i, row) \/ Changes(r, i, row) \/ Drops(r, i, row) \/ Moves(r, i, row)
      PROVE  VoterOK(o)' /\ Unpublished(o)' /\ MergeWrites(o)'
  <2>1. i \notin dirty[o] /\ vote' = vote /\ draft'[i] = row /\ \A j \in Ids \ {i} : draft'[j] = draft[j]
    BY <1>2 DEF Writes, Holders
  <2>2. \/ row = None
        \/ draft[i] # None /\ row.question = draft[i].question
        \/ mem[o].row # i
    <3>1. CASE Inserts(r, i, row)
      BY <1>b, <3>1 DEF Inserts, Unpublished
    <3>2. CASE Changes(r, i, row)
      <4>1. draft[i] \in Row
        BY <3>2 DEF Changes, TypeInv, TypeOK, Table
      <4>2. row = WithNewBallot(draft[i], req[r], mem[r]) /\ draft[i] # None
        BY <3>2 DEF Changes
      <4>3. row.question = draft[i].question
        BY <4>1, <4>2 DEF WithNewBallot, Row
      <4> QED BY <4>2, <4>3
    <3>3. CASE Moves(r, i, row)
      <4>1. draft[i] \in Row
        BY <3>3 DEF Moves, TypeInv, TypeOK, Table
      <4>2. row = [draft[i] EXCEPT !.owner = mem[r].owner] /\ draft[i] # None
        BY <3>3 DEF Moves
      <4>3. row.question = draft[i].question
        BY <4>1, <4>2 DEF Row
      <4> QED BY <4>2, <4>3
    <3>4. CASE Drops(r, i, row)
      BY <3>4 DEF Drops
    <3> QED BY <1>2, <3>1, <3>2, <3>3, <3>4
  <2>3. RowAsked(draft, o) => RowAsked(draft, o)'
    BY <1>0, <2>1, <2>2 DEF RowAsked
  <2>4. Unpublished(o)'
    BY <1>d, <2>1
  <2>5. \A k \in dirty[o] : draft'[k] = draft[k]
    BY <1>0, <2>1
  <2>6. VoterOK(o)'
    BY <1>0, <1>a, <2>1, <2>3, <2>5 DEF VoterOK, RowAsked
  <2>7. MergeWrites(o)'
    BY <1>0, <1>a, <2>1, <2>5 DEF MergeWrites
  <2> QED BY <2>4, <2>6, <2>7
<1>3. CASE Publishes(r) /\ pc[r] \in {"flushed", "move"}
  <2>1. draft' = draft /\ \A k \in Ids : vote'[k] = IF k \in dirty[r] THEN draft[k] ELSE vote[k]
    BY <1>3 DEF Publishes
  <2>2. \A k \in dirty[o] : vote'[k] = vote[k]
    BY <1>0, <2>1, <1>e
  <2>3. VoterOK(o)'
    <3>1. pc[o] \in {"save", "flushed"} => RowAsked(vote, o)' /\ RowAsked(draft, o)'
      BY <1>0, <1>a, <2>1 DEF VoterOK, RowAsked
    <3>2. \A k \in dirty[o] : vote'[k] = vote[k] /\ draft'[k] = draft[k]
      BY <2>1, <2>2
    <3>3. pc'[o] = "flushed" => \A i \in dirty'[o] :
             /\ i = mem'[o].row /\ draft'[i] # None
             /\ draft'[i].question = req'[o].question
             /\ vote'[i] = None => i = o
             /\ vote'[i] # None => SameKey(vote'[i], draft'[i])
      BY <1>0, <1>a, <3>2 DEF VoterOK
    <3>4. /\ pc'[o] \in {"idle", "lookup"} => mem'[o].row = None
          /\ pc'[o] \in {"save", "flushed"} => req'[o].question \in Active /\ Accepts(req'[o])
          /\ pc'[o] \in {"flushed", "refresh"} => mem'[o].row # None
      BY <1>0, <1>a DEF VoterOK
    <3> QED BY <1>0, <3>1, <3>3, <3>4 DEF VoterOK, RowAsked, SameKey, Accepts, Offers
  <2>4. MergeWrites(o)'
    BY <1>0, <1>a, <2>1, <2>2 DEF MergeWrites
  <2>5. vote[o] = None => vote'[o] = None
    <3>1. o \in Ids
      BY DEF Ids
    <3> QED BY <1>0, <1>3, <1>b, <2>1, <3>1 DEF VoterOK, MergeWrites
  <2>6. Unpublished(o)'
    <3>1. Kind[o] = "vote" /\ pc[o] \in {"idle", "lookup", "save"} => mem'[r].row # o
      BY <1>a DEF Unpublished, RowChoice
    <3>2. \A x \in Requests \ {r} : mem'[x].row = mem[x].row
      BY DEF Frame
    <3> QED BY <1>0, <1>a, <2>5, <3>1, <3>2 DEF Unpublished
  <2> QED BY <1>c, <2>3, <2>4, <2>6
<1>4. CASE Reverts(r)
  <2>1. vote' = vote /\ \A k \in Ids : draft'[k] = IF k \in dirty[r] THEN vote[k] ELSE draft[k]
    BY <1>4 DEF Reverts
  <2>2. \A k \in dirty[o] : draft'[k] = draft[k]
    BY <1>0, <1>e, <2>1
  <2>3. VoterOK(o)'
    <3>1. pc[o] \in {"save", "flushed"} => RowAsked(vote, o)' /\ RowAsked(draft, o)'
      BY <1>0, <1>a, <2>1 DEF VoterOK, RowAsked
    <3>2. \A k \in dirty[o] : vote'[k] = vote[k] /\ draft'[k] = draft[k]
      BY <2>1, <2>2
    <3>3. pc'[o] = "flushed" => \A i \in dirty'[o] :
             /\ i = mem'[o].row /\ draft'[i] # None
             /\ draft'[i].question = req'[o].question
             /\ vote'[i] = None => i = o
             /\ vote'[i] # None => SameKey(vote'[i], draft'[i])
      BY <1>0, <1>a, <3>2 DEF VoterOK
    <3>4. /\ pc'[o] \in {"idle", "lookup"} => mem'[o].row = None
          /\ pc'[o] \in {"save", "flushed"} => req'[o].question \in Active /\ Accepts(req'[o])
          /\ pc'[o] \in {"flushed", "refresh"} => mem'[o].row # None
      BY <1>0, <1>a DEF VoterOK
    <3> QED BY <1>0, <3>1, <3>3, <3>4 DEF VoterOK, RowAsked, SameKey, Accepts, Offers
  <2>4. MergeWrites(o)'
    BY <1>0, <1>a, <2>1, <2>2 DEF MergeWrites
  <2> QED BY <1>c, <1>d, <2>1, <2>3, <2>4
<1>5. CASE Removes(req[r].user)
  <2> DEFINE u == req[r].user
  <2>1. /\ \A k \in Ids : vote'[k] \in {vote[k], None} /\ draft'[k] \in {draft[k], None}
        /\ \A k \in dirty[o] : vote'[k] = vote[k] /\ draft'[k] = draft[k]
    BY <1>0, <1>5 DEF Removes
  <2>2. VoterOK(o)'
    <3>1. pc[o] \in {"save", "flushed"} => RowAsked(vote, o)' /\ RowAsked(draft, o)'
      BY <1>0, <1>a, <2>1 DEF VoterOK, RowAsked
    <3>2. \A k \in dirty[o] : vote'[k] = vote[k] /\ draft'[k] = draft[k]
      BY <2>1
    <3>3. pc'[o] = "flushed" => \A i \in dirty'[o] :
             /\ i = mem'[o].row /\ draft'[i] # None
             /\ draft'[i].question = req'[o].question
             /\ vote'[i] = None => i = o
             /\ vote'[i] # None => SameKey(vote'[i], draft'[i])
      BY <1>0, <1>a, <3>2 DEF VoterOK
    <3>4. /\ pc'[o] \in {"idle", "lookup"} => mem'[o].row = None
          /\ pc'[o] \in {"save", "flushed"} => req'[o].question \in Active /\ Accepts(req'[o])
          /\ pc'[o] \in {"flushed", "refresh"} => mem'[o].row # None
      BY <1>0, <1>a DEF VoterOK
    <3> QED BY <1>0, <3>1, <3>3, <3>4 DEF VoterOK, RowAsked, SameKey, Accepts, Offers
  <2>3. MergeWrites(o)'
    BY <1>0, <1>a, <2>1 DEF MergeWrites
  <2>4. vote[o] = None => vote'[o] = None
    BY <2>1 DEF Ids
  <2>5. Unpublished(o)'
    <3>1. Kind[o] = "vote" /\ pc[o] \in {"idle", "lookup", "save"} => mem'[r].row # o
      BY <1>a DEF Unpublished, RowChoice
    <3>2. \A x \in Requests \ {r} : mem'[x].row = mem[x].row
      BY DEF Frame
    <3> QED BY <1>0, <1>a, <2>4, <3>1, <3>2 DEF Unpublished
  <2> QED BY <1>c, <2>2, <2>3, <2>5
<1> QED
  BY <1>1, <1>2, <1>3, <1>4, <1>5, <1>c DEF TableEffect

\* The four parts for the handler that takes the step.
LEMMA OwnKept ==
    ASSUME TypeInv, IsolationInv, HandlersInv, NEW r \in Requests, Step(r)
    PROVE  KindAt(r)' /\ VoterOK(r)' /\ Unpublished(r)' /\ MergeWrites(r)'
<1> DEFINE Kept == KindAt(r)' /\ VoterOK(r)' /\ Unpublished(r)' /\ MergeWrites(r)'
<1> SUFFICES Kept
  OBVIOUS
<1>a. KindAt(r) /\ VoterOK(r) /\ Unpublished(r) /\ MergeWrites(r)
  BY DEF HandlersInv
<1>b. r \in Ids /\ mem[r].row \in Ids \cup {None} /\ dirty[r] \subseteq Ids /\ None \notin Ids
  BY MemoryFields, IdsAssumption DEF TypeInv, TypeOK, Ids
<1>c. \A o \in Requests \ {r} : mem'[o].row = mem[o].row
  BY <1>a, StepEffect DEF Frame
<1> USE DEF VoterOK, RowAsked, Unpublished, MergeWrites, KindAt
<1>d. ASSUME pc'[r] = "done", dirty'[r] = {} PROVE Kept
  BY <1>d
<1>1. ASSUME VoteArrives(r) PROVE Kept
  BY <1>1, <1>a, <1>c, VoteArrivesEffect DEF Quiet
<1>2. ASSUME LookUpVote(r) PROVE Kept
  <2>1. /\ Quiet /\ pc[r] = "lookup" /\ req'[r] = req[r]
    BY <1>2, LookUpVoteEffect
  <2>2. CASE pc'[r] = "done"
    BY <1>a, <1>d, <2>1, <2>2 DEF Quiet
  <2>3. CASE pc'[r] = "save" /\ mem'[r] = mem[r]
    <3>1. req[r].question \in Active /\ Accepts(req[r])
      BY <1>2, <2>3, LookUpVoteEffect
    <3> QED BY <1>a, <1>b, <1>c, <2>1, <2>3, <3>1 DEF Quiet
  <2>4. CASE /\ pc'[r] = "save"
             /\ \E i \in Ids : HasKey(vote, i, req[r].question, mem[r].owner) /\ mem'[r].row = i
    <3>1. req[r].question \in Active /\ Accepts(req[r])
      BY <1>2, <2>4, LookUpVoteEffect
    <3>2. PICK i \in Ids : HasKey(vote, i, req[r].question, mem[r].owner) /\ mem'[r].row = i
      BY <2>4
    <3>3. vote[i] # None /\ vote[i].question = req[r].question
      BY <3>2 DEF HasKey
    <3>4. draft[i] # None => draft[i].question = req[r].question
      <4>1. CASE \E o \in Requests : i \in dirty[o]
        <5>1. PICK o \in Requests : i \in dirty[o]
          BY <4>1
        <5>2. KindAt(o) /\ VoterOK(o) /\ MergeWrites(o)
          BY DEF HandlersInv
        <5> QED BY <3>3, <5>1, <5>2 DEF SameKey, SameBallot
      <4>2. CASE \A o \in Requests : i \notin dirty[o]
        BY <3>3, <4>2 DEF IsolationInv, CleanIsCommitted
      <4> QED BY <4>1, <4>2
    <3>5. i # r /\ dirty'[r] = {}
      BY <1>a, <2>1, <3>3 DEF Quiet
    <3> QED BY <1>a, <1>b, <1>c, <2>1, <2>4, <3>1, <3>2, <3>3, <3>4, <3>5 DEF Quiet
  <2> QED BY <1>2, <2>2, <2>3, <2>4, LookUpVoteEffect
<1>3. ASSUME InsertVote(r) PROVE Kept
  <2>1. /\ pc[r] = "save" /\ mem[r].row = None /\ req'[r] = req[r]
    BY <1>3, <1>a, InsertVoteEffect
  <2>2. CASE Reverts(r) /\ pc'[r] = "done"
    BY <1>d, <2>2 DEF Reverts
  <2>3. CASE /\ \E row \in Row : Writes(r, r, row) /\ Inserts(r, r, row)
             /\ pc'[r] = "flushed" /\ mem'[r].row = r
    <3>1. PICK row \in Row : Writes(r, r, row) /\ Inserts(r, r, row)
      BY <2>3
    <3>2. row # None /\ row.question = req[r].question
      BY <3>1, IdsAssumption DEF Inserts
    <3>3. vote' = vote /\ draft'[r] = row /\ dirty'[r] = {r}
      BY <1>a, <2>1, <3>1 DEF Writes
    <3>4. Kind[r] = "vote" /\ vote[r] = None
      BY <1>a, <2>1
    <3> QED BY <1>a, <1>b, <2>1, <2>3, <3>2, <3>3, <3>4
  <2> QED BY <1>3, <1>a, <2>2, <2>3, InsertVoteEffect
<1>4. ASSUME ChangeVote(r) PROVE Kept
  <2>1. /\ pc[r] = "save" /\ mem[r].row \in Ids /\ req'[r] = req[r] /\ mem'[r] = mem[r]
    BY <1>4, <1>a, ChangeVoteEffect
  <2>2. CASE Reverts(r) /\ pc'[r] = "done"
    BY <1>d, <2>2 DEF Reverts
  <2>3. CASE Quiet /\ pc'[r] = "flushed"
    BY <1>a, <1>b, <2>1, <2>3 DEF Quiet
  <2>4. CASE /\ \E row \in Row : Writes(r, mem[r].row, row) /\ Changes(r, mem[r].row, row)
             /\ pc'[r] = "flushed"
    <3> DEFINE i == mem[r].row
    <3>1. PICK row \in Row : Writes(r, i, row) /\ Changes(r, i, row)
      BY <2>4
    <3>2. row # None
      BY IdsAssumption
    <3>3. vote' = vote /\ draft'[i] = row /\ dirty'[r] = {i} /\ Holders(r, i) = {}
      BY <1>a, <2>1, <3>1 DEF Writes
    <3>4. draft[i] = vote[i]
      BY <1>a, <2>1, <3>3 DEF Holders, IsolationInv, CleanIsCommitted
    <3>5. draft[i] # None /\ row = WithNewBallot(draft[i], req[r], mem[r])
      BY <3>1 DEF Changes
    <3>6. draft[i] \in Row
      BY <2>1, <3>5 DEF TypeInv, TypeOK, Table
    <3>7. row.question = draft[i].question /\ row.owner = draft[i].owner
      BY <3>5, <3>6 DEF WithNewBallot, Row
    <3>8. Kind[r] = "vote" /\ vote[r] = None /\ draft[i].question = req[r].question
      BY <1>a, <1>b, <2>1, <3>5
    <3> HIDE DEF i
    <3>9. mem'[r].row = i /\ i # None /\ i = mem[r].row
      BY <1>b, <2>1 DEF i
    <3> QED BY <1>a, <1>b, <2>1, <2>4, <3>2, <3>3, <3>4, <3>5, <3>7, <3>8, <3>9 DEF SameKey
  <2> QED BY <1>4, <1>a, <2>2, <2>3, <2>4, ChangeVoteEffect
<1>5. ASSUME CommitVote(r) PROVE Kept
  <2>1. /\ Publishes(r) /\ pc[r] = "flushed" /\ pc'[r] = "refresh" /\ mem'[r] = mem[r] /\ req'[r] = req[r]
    BY <1>5, CommitVoteEffect
  <2> QED BY <1>a, <2>1 DEF Publishes
<1>6. ASSUME RefreshVote(r) PROVE Kept
  BY <1>6, <1>a, <1>d, RefreshVoteEffect DEF Quiet
<1>7. ASSUME MigrateArrives(r) PROVE Kept
  <2>1. Quiet /\ pc[r] = "idle" /\ Kind[r] = "migrate" /\ pc'[r] \in {"done", "list"}
    BY <1>7, MigrateArrivesEffect
  <2> QED BY <1>a, <2>1 DEF Quiet
<1>8. ASSUME ListGuestVotes(r) \/ ListAccountVotes(r) PROVE Kept
  <2>1. Quiet /\ pc[r] \in {"list", "split"} /\ pc'[r] \in {"split", "drop"}
    BY <1>8, ListGuestVotesEffect, ListAccountVotesEffect
  <2> QED BY <1>a, <2>1 DEF Quiet
<1>9. ASSUME DropOne(r) PROVE Kept
  <2>1. pc[r] = "drop" /\ pc'[r] = "drop"
    BY <1>9, <1>a, DropOneEffect
  <2>2. PICK i \in Ids : Writes(r, i, None)
    BY <1>9, <1>a, DropOneEffect
  <2>3. /\ vote' = vote /\ draft'[i] = None /\ \A j \in Ids \ {i} : draft'[j] = draft[j]
        /\ dirty'[r] = dirty[r] \cup {i}
    BY <2>2 DEF Writes
  <2> QED BY <1>a, <1>b, <2>1, <2>3
<1>10. ASSUME BeginMoves(r) PROVE Kept
  <2>1. Quiet /\ pc[r] = "drop" /\ pc'[r] = "move"
    BY <1>10, BeginMovesEffect
  <2> QED BY <1>a, <2>1 DEF Quiet
<1>11. ASSUME MoveOne(r) PROVE Kept
  <2>1. pc[r] = "move"
    BY <1>11, <1>a, MoveOneEffect
  <2>2. CASE Reverts(r) /\ pc'[r] = "done"
    BY <1>d, <2>2 DEF Reverts
  <2>3. CASE pc'[r] = "move" /\ Quiet
    BY <1>a, <2>1, <2>3 DEF Quiet
  <2>4. CASE pc'[r] = "move" /\ \E i \in Ids, row \in Row : Writes(r, i, row) /\ Moves(r, i, row)
    <3>1. PICK i \in Ids, row \in Row : Writes(r, i, row) /\ Moves(r, i, row)
      BY <2>4
    <3>2. /\ vote' = vote /\ draft'[i] = row /\ \A j \in Ids \ {i} : draft'[j] = draft[j]
          /\ dirty'[r] = dirty[r] \cup {i} /\ Holders(r, i) = {}
      BY <3>1 DEF Writes
    <3>3. draft[i] # None /\ row = [draft[i] EXCEPT !.owner = mem[r].owner]
      BY <3>1 DEF Moves
    <3>4. draft[i] \in Row
      BY <3>3 DEF TypeInv, TypeOK, Table
    <3>5. SameBallot(draft[i], row)
      BY <3>3, <3>4 DEF Row, SameBallot
    <3>6. vote[i] # None /\ SameBallot(vote[i], draft[i])
      <4>1. CASE i \in dirty[r]
        BY <1>a, <2>1, <3>3, <4>1
      <4>2. CASE i \notin dirty[r]
        <5>1. draft[i] = vote[i]
          BY <3>2, <4>2 DEF Holders, IsolationInv, CleanIsCommitted
        <5> QED BY <3>3, <5>1 DEF SameBallot
      <4> QED BY <4>1, <4>2
    <3>7. SameBallot(vote[i], row)
      BY <3>5, <3>6 DEF SameBallot
    <3>8. \A j \in dirty'[r] : draft'[j] # None => vote'[j] # None /\ SameBallot(vote'[j], draft'[j])
      BY <1>a, <1>b, <2>1, <3>2, <3>6, <3>7
    <3> QED BY <1>a, <2>1, <2>4, <3>2, <3>8 DEF SameBallot
  <2> QED BY <1>11, <1>a, <2>2, <2>3, <2>4, MoveOneEffect
<1>12. ASSUME CommitMigration(r) PROVE Kept
  BY <1>12, <1>a, <1>d, CommitMigrationEffect DEF Publishes
<1>13. ASSUME WithdrawArrives(r) PROVE Kept
  <2>1. /\ Quiet /\ pc[r] = "idle" /\ Kind[r] = "withdraw" /\ mem'[r] = mem[r]
        /\ pc'[r] = "done" \/ (pc'[r] = "delete" /\ req'[r].user \in Users)
    BY <1>13, WithdrawArrivesEffect
  <2> QED BY <1>a, <2>1 DEF Quiet
<1>14. ASSUME DeleteAccount(r) PROVE Kept
  <2>1. pc[r] = "delete" /\ pc'[r] = "done" /\ dirty' = dirty
    BY <1>14, <1>a, DeleteAccountEffect DEF Removes
  <2> QED BY <1>a, <1>d, <2>1
<1>15. ASSUME Die(r) \/ BreakDeadlock(r) PROVE Kept
  BY <1>15, <1>d, RaiseEffect DEF Die, BreakDeadlock, TypeInv, Reverts
<1> HIDE DEF Kept
<1> QED
  BY <1>1, <1>2, <1>3, <1>4, <1>5, <1>6, <1>7, <1>8, <1>9, <1>10, <1>11, <1>12, <1>13,
     <1>14, <1>15 DEF Step, Arrive, Serve

LEMMA HandlersInit == Init => HandlersInv
<1> SUFFICES ASSUME Init PROVE HandlersInv
  OBVIOUS
<1>1. /\ vote \in Table /\ draft = vote
      /\ \A i \in Ids : vote[i] # None => Offers(vote[i].question, vote[i].option, vote[i].reason)
      /\ \A r \in Requests : vote[r] = None
  BY HistoriesAssumption DEF Init
<1>2. RowsOffered
  BY <1>1 DEF RowsOffered
<1>3. ASSUME NEW r \in Requests PROVE KindAt(r) /\ VoterOK(r) /\ Unpublished(r) /\ MergeWrites(r)
  <2>1. /\ pc[r] = "idle" /\ dirty[r] = {} /\ \A o \in Requests : mem[o].row = None
    BY DEF Init, NoMemory
  <2>2. r # None
    BY IdsAssumption DEF Ids
  <2> QED BY <1>1, <2>1, <2>2 DEF KindAt, VoterOK, Unpublished, MergeWrites
<1> QED
  BY <1>2, <1>3 DEF HandlersInv

LEMMA HandlersStep == TypeInv /\ IsolationInv /\ HandlersInv /\ [Next]_vars => HandlersInv'
<1> SUFFICES ASSUME TypeInv, IsolationInv, HandlersInv, [Next]_vars PROVE HandlersInv'
  OBVIOUS
<1>1. CASE UNCHANGED vars
  BY <1>1 DEF vars, HandlersInv, RowsOffered, KindAt, VoterOK, RowAsked, Unpublished, MergeWrites
<1>2. ASSUME NEW r \in Requests, Step(r) PROVE HandlersInv'
  <2>1. KindAt(r)
    BY DEF HandlersInv
  <2>2. Frame(r) /\ TableEffect(r) /\ RowChoice(r)
    BY <1>2, <2>1, StepEffect
  <2>3. RowsOffered'
    BY <2>2, RowsOfferedKept
  <2>4. \A o \in Requests : KindAt(o)' /\ VoterOK(o)' /\ Unpublished(o)' /\ MergeWrites(o)'
    BY <1>2, <2>2, OwnKept, OthersKept
  <2> QED BY <2>3, <2>4 DEF HandlersInv
<1> QED
  BY <1>1, <1>2, NextIsStep

----------------------------------------------------------------------------
(* One merge of a guest at a time                                          *)
(*                                                                         *)
(* Two merges of the same guest can delete each other's rows, and then an  *)
(* answer is lost.  What follows is about behaviours in which no guest is  *)
(* merged by two requests at a time, among any votes, withdrawals and      *)
(* merges of other guests, into the same account or not.                   *)

Merging(r) == pc[r] \in {"list", "split", "drop", "move"}
NoRivalMerges ==
    \A r, o \in Requests : r # o /\ Merging(r) /\ Merging(o) => req[r].guest # req[o].guest

\* Rows a merge deletes or has deleted, and rows it moves or has moved.
Dropped(r) == mem[r].drops \cup {i \in dirty[r] : draft[i] = None}
Moved(r) == mem[r].moves \cup {i \in dirty[r] : draft[i] # None}

\* The rows the merge listed are still the guest's.
ListedKept(r) ==
    pc[r] \in {"split", "drop", "move"} =>
        \A i \in Ids, q \in Questions : <<i, q>> \in mem[r].listed =>
            /\ HasKey(vote, i, q, req[r].guest)
            /\ i \notin dirty[r] => HasKey(draft, i, q, req[r].guest)

\* They are all accounted for, each once, and counted if moved.
Accounted(r) ==
    pc[r] \in {"drop", "move"} =>
        /\ Dropped(r) \cup Moved(r) = IdsOf(mem[r].listed)
        /\ mem[r].drops \cap mem[r].moves = {}
        /\ (mem[r].drops \cup mem[r].moves) \cap dirty[r] = {}
        /\ mem[r].migrated = Cardinality(Moved(r))
        /\ pc[r] = "move" => mem[r].drops = {}

\* Only votes on questions the account has answered are deleted, and the
\* others keep their ballot.
FairlySplit(r) ==
    pc[r] \in {"drop", "move"} =>
        /\ \A i \in Dropped(r) : Voted(vote[i].question, mem[r].owner) \/ mem[r].owner \notin live
        /\ \A i \in dirty[r] : draft[i] # None => draft[i] = [vote[i] EXCEPT !.owner = mem[r].owner]

GuestKnown(r) == pc[r] \in {"list", "split", "drop", "move"} => req[r].guest \in Guests

MergerOK(r) == GuestKnown(r) /\ ListedKept(r) /\ Accounted(r) /\ FairlySplit(r)

MergesInv == \A r \in Requests : MergerOK(r)

LEMMA ListedIds ==
    ASSUME TypeOK, NEW r \in Requests, NEW i
    PROVE  i \in IdsOf(mem[r].listed) <=> i \in Ids /\ \E q \in Questions : <<i, q>> \in mem[r].listed
<1>1. mem[r].listed \subseteq Ids \X Questions
  BY MemoryFields DEF Listing
<1>2. ASSUME i \in IdsOf(mem[r].listed)
      PROVE  i \in Ids /\ \E q \in Questions : <<i, q>> \in mem[r].listed
  <2>1. PICK x \in mem[r].listed : i = x[1]
    BY <1>2 DEF IdsOf
  <2>2. x = <<x[1], x[2]>> /\ x[1] \in Ids /\ x[2] \in Questions
    BY <1>1
  <2> QED BY <2>1, <2>2
<1>3. ASSUME NEW q \in Questions, <<i, q>> \in mem[r].listed
      PROVE  i \in IdsOf(mem[r].listed)
  <2>1. <<i, q>>[1] = i
    OBVIOUS
  <2> QED BY <1>3, <2>1 DEF IdsOf
<1> QED
  BY <1>2, <1>3

\* The rows a merge deletes and moves are its guest's.
LEMMA MergerRows ==
    ASSUME TypeInv, NEW r \in Requests, MergerOK(r), pc[r] \in {"drop", "move"},
           NEW i \in Dropped(r) \cup Moved(r)
    PROVE  /\ i \in Ids /\ vote[i] # None /\ vote[i].owner = req[r].guest
           /\ i \notin dirty[r] => draft[i] # None /\ draft[i].owner = req[r].guest
<1>1. PICK q \in Questions : i \in Ids /\ <<i, q>> \in mem[r].listed
  BY ListedIds DEF MergerOK, Accounted, TypeInv
<1> QED
  BY <1>1 DEF MergerOK, ListedKept, HasKey

LEMMA OtherMergerKept ==
    ASSUME TypeInv, IsolationInv, HandlersInv, NoRivalMerges, NEW r \in Requests, Step(r), MergerOK(r),
           NEW o \in Requests \ {r}, MergerOK(o)
    PROVE  MergerOK(o)'
<1> DEFINE g == req[o].guest
           u == mem[o].owner
<1>a. KindAt(r) /\ VoterOK(r) /\ Unpublished(r) /\ KindAt(o)
  BY DEF HandlersInv
<1>b. Frame(r) /\ TableEffect(r)
  BY <1>a, StepEffect
<1>c. /\ pc'[o] = pc[o] /\ mem'[o] = mem[o] /\ req'[o] = req[o] /\ dirty'[o] = dirty[o]
      /\ dirty[o] \subseteq Ids /\ dirty[r] \subseteq Ids /\ dirty[r] \cap dirty[o] = {}
  BY <1>b DEF Frame, TypeInv, TypeOK, IsolationInv, LocksExclusive
<1>d. GuestKnown(o)'
  BY <1>c DEF MergerOK, GuestKnown
<1>e. CASE pc[o] \notin {"split", "drop", "move"}
  BY <1>c, <1>d, <1>e DEF MergerOK, ListedKept, Accounted, FairlySplit
<1>f. CASE pc[o] \in {"split", "drop", "move"}
  <2>1. g \in Guests /\ u \in Users
    BY <1>f DEF MergerOK, GuestKnown, TypeInv, HandlerOK
  <2>r. ASSUME pc[r] \in {"drop", "move"}, NEW i \in Dropped(r) \cup Moved(r)
        PROVE  /\ i \in Ids /\ vote[i].owner \notin {g, u}
               /\ i \notin dirty[r] => draft[i] # None /\ draft[i].owner \notin {g, u}
    <3>1. req[r].guest # g
      BY <1>f, <2>r DEF NoRivalMerges, Merging
    <3>2. req[r].guest # u
      BY <2>r, <2>1, IdsAssumption DEF MergerOK, GuestKnown
    <3> QED BY <2>r, <3>1, <3>2, MergerRows
  <2> DEFINE Undisturbed ==
        /\ \A i \in dirty[o] : vote'[i] = vote[i] /\ draft'[i] = draft[i]
        /\ \A i \in Ids, q \in Questions : HasKey(vote, i, q, g) => HasKey(vote', i, q, g)
        /\ \A i \in Ids, q \in Questions :
              HasKey(vote, i, q, g) /\ HasKey(draft, i, q, g) => HasKey(draft', i, q, g)
        /\ u \in live' =>
              u \in live /\ \A i \in Ids, q \in Questions : HasKey(vote, i, q, u) => HasKey(vote', i, q, u)
  <2>2. Undisturbed
    <3> USE DEF HasKey
    <3>1. CASE Quiet
      BY <1>c, <3>1 DEF Quiet
    <3>2. ASSUME NEW i \in Ids, NEW row \in Row \cup {None}, Writes(r, i, row), Inserts(r, i, row)
          PROVE  Undisturbed
      <4>1. i \notin dirty[o] /\ vote[i] = None
        BY <1>a, <3>2 DEF Writes, Holders, Inserts, Unpublished
      <4> QED BY <1>c, <3>2, <4>1 DEF Writes
    <3>3. ASSUME NEW i \in Ids, NEW row \in Row \cup {None}, Writes(r, i, row), Changes(r, i, row)
          PROVE  Undisturbed
      <4>1. draft[i] \in Row /\ draft[i] # None
        BY <3>3 DEF Changes, TypeInv, TypeOK, Table
      <4>2. row.question = draft[i].question /\ row.owner = draft[i].owner /\ row \in Row
        <5>1. req[r].option \in Options /\ req[r].reason \in Reasons
          BY <3>3 DEF Changes, TypeInv, HandlerOK, VoteRequest
        <5> QED BY <3>3, <4>1, <5>1 DEF Changes, WithNewBallot, Row
      <4>3. i \notin dirty[o] /\ row # None
        BY <3>3, <4>2, IdsAssumption DEF Writes, Holders
      <4> QED BY <1>c, <3>3, <4>1, <4>2, <4>3 DEF Writes
    <3>4. CASE Publishes(r) /\ pc[r] \in {"flushed", "move"}
      <4>1. CASE pc[r] = "flushed"
        <5>1. \A i \in dirty[r] : draft[i] # None /\ (vote[i] # None => SameKey(vote[i], draft[i]))
          BY <1>a, <4>1 DEF VoterOK
        <5> QED BY <1>c, <3>4, <5>1 DEF Publishes, SameKey
      <4>2. CASE pc[r] = "move"
        <5>1. \A i \in dirty[r] : vote[i].owner \notin {g, u}
          BY <2>r, <4>2 DEF Dropped, Moved
        <5> QED BY <1>c, <3>4, <5>1 DEF Publishes
      <4> QED BY <3>4, <4>1, <4>2
    <3>5. CASE Reverts(r)
      BY <1>c, <3>5 DEF Reverts
    <3>6. CASE Removes(req[r].user) /\ req[r].user \in Users
      <4>1. g # req[r].user
        BY <2>1, <3>6, IdsAssumption
      <4>2. \A i \in Ids : /\ vote[i] # None /\ vote[i].owner # req[r].user => vote'[i] = vote[i]
                           /\ draft[i] # None /\ draft[i].owner # req[r].user => draft'[i] = draft[i]
        BY <3>6 DEF Removes, OwnedBy
      <4>3. u \in live' => u \in live /\ u # req[r].user
        BY <3>6 DEF Removes
      <4>4. \A i \in dirty[o] : vote'[i] = vote[i] /\ draft'[i] = draft[i]
        BY <1>c, <3>6 DEF Removes
      <4> QED BY <4>1, <4>2, <4>3, <4>4
    <3>7. ASSUME NEW i \in Ids, NEW row \in Row \cup {None}, Writes(r, i, row),
                 Drops(r, i, row) \/ Moves(r, i, row)
          PROVE  Undisturbed
      <4>1. pc[r] \in {"drop", "move"} /\ i \in Dropped(r) \cup Moved(r) /\ i \notin dirty[r]
        <5>1. CASE Drops(r, i, row)
          BY <5>1 DEF Drops, Dropped, MergerOK, Accounted
        <5>2. CASE Moves(r, i, row)
          BY <5>2 DEF Moves, Moved, MergerOK, Accounted
        <5> QED BY <3>7, <5>1, <5>2
      <4>2. draft[i].owner \notin {g, u}
        BY <2>r, <4>1
      <4>3. i \notin dirty[o]
        BY <3>7 DEF Writes, Holders
      <4> QED BY <1>c, <3>7, <4>2, <4>3 DEF Writes
    <3> QED BY <1>b, <3>1, <3>2, <3>3, <3>4, <3>5, <3>6, <3>7 DEF TableEffect
  <2>3. Dropped(o)' = Dropped(o) /\ Moved(o)' = Moved(o)
    BY <1>c, <2>2 DEF Dropped, Moved
  <2>4. ListedKept(o)'
    BY <1>c, <2>2 DEF MergerOK, ListedKept
  <2>5. Accounted(o)'
    BY <1>c, <2>3 DEF MergerOK, Accounted
  <2>6. FairlySplit(o)'
    <3> SUFFICES ASSUME pc[o] \in {"drop", "move"} PROVE FairlySplit(o)'
      BY <1>c DEF FairlySplit
    <3>1. ASSUME NEW i \in Dropped(o)
          PROVE  (Voted(vote[i].question, mem[o].owner) \/ mem[o].owner \notin live)'
      <4>1. PICK q \in Questions : i \in Ids /\ HasKey(vote, i, q, g)
        <5>1. i \in IdsOf(mem[o].listed)
          BY DEF MergerOK, Accounted
        <5> QED BY <5>1, ListedIds DEF MergerOK, ListedKept, TypeInv
      <4>2. vote[i].question = q /\ vote'[i].question = q
        BY <2>2, <4>1 DEF HasKey
      <4>3. Voted(q, u) \/ u \notin live
        BY <4>2 DEF MergerOK, FairlySplit
      <4> QED BY <1>c, <2>2, <4>1, <4>2, <4>3 DEF Voted
    <3>2. \A i \in dirty[o] : draft'[i] # None => draft'[i] = [vote'[i] EXCEPT !.owner = u]
      BY <2>2 DEF MergerOK, FairlySplit
    <3> QED BY <1>c, <2>3, <3>1, <3>2 DEF FairlySplit
  <2> QED BY <1>d, <2>4, <2>5, <2>6 DEF MergerOK
<1> QED
  BY <1>e, <1>f

LEMMA OwnMergerKept ==
    ASSUME TypeInv, IsolationInv, HandlersInv, NoRivalMerges, MergesInv, NEW r \in Requests, Step(r)
    PROVE  MergerOK(r)'
<1>m. MergerOK(r)
  BY DEF MergesInv
<1>a. KindAt(r) /\ VoterOK(r)
  BY DEF HandlersInv
<1>b. dirty[r] \subseteq Ids /\ mem[r].drops \subseteq Ids /\ mem[r].moves \subseteq Ids
  BY MemoryFields DEF TypeInv, TypeOK
<1>c. ASSUME pc'[r] \notin {"list", "split", "drop", "move"} PROVE MergerOK(r)'
  BY <1>c DEF MergerOK, GuestKnown, ListedKept, Accounted, FairlySplit
<1>1. ASSUME VoteArrives(r) \/ LookUpVote(r) \/ InsertVote(r) \/ ChangeVote(r) \/ CommitVote(r)
               \/ RefreshVote(r) \/ CommitMigration(r) \/ WithdrawArrives(r) \/ DeleteAccount(r)
               \/ Die(r) \/ BreakDeadlock(r)
      PROVE  MergerOK(r)'
  <2>1. pc'[r] \in {"lookup", "save", "flushed", "refresh", "delete", "done"}
    BY <1>1, <1>a, VoteArrivesEffect, LookUpVoteEffect, InsertVoteEffect, ChangeVoteEffect,
       CommitVoteEffect, RefreshVoteEffect, CommitMigrationEffect, WithdrawArrivesEffect,
       DeleteAccountEffect, RaiseEffect DEF Die, BreakDeadlock, TypeInv
  <2> QED BY <1>c, <2>1
<1>2. ASSUME MigrateArrives(r) PROVE MergerOK(r)'
  <2>1. pc'[r] = "done" \/ (pc'[r] = "list" /\ req'[r].guest \in Guests)
    BY <1>2, MigrateArrivesEffect
  <2> QED BY <1>m, <1>c, <2>1 DEF MergerOK, GuestKnown, ListedKept, Accounted, FairlySplit
<1>3. ASSUME ListGuestVotes(r) PROVE MergerOK(r)'
  <2>1. /\ Quiet /\ pc[r] = "list" /\ pc'[r] = "split" /\ req'[r] = req[r]
        /\ mem'[r].listed = {x \in Listing : HasKey(vote, x[1], x[2], req[r].guest)}
    BY <1>3, ListGuestVotesEffect
  <2>2. req[r].guest \in Guests
    BY <1>m, <2>1 DEF MergerOK, GuestKnown
  <2>3. ASSUME NEW i \in Ids, NEW q \in Questions, <<i, q>> \in mem'[r].listed
        PROVE  HasKey(vote, i, q, req[r].guest) /\ HasKey(draft, i, q, req[r].guest)
    <3>1. HasKey(vote, i, q, req[r].guest)
      BY <2>1, <2>3
    <3>2. CASE \E o \in Requests : i \in dirty[o]
      <4>1. PICK o \in Requests : i \in dirty[o]
        BY <3>2
      <4>2. KindAt(o) /\ VoterOK(o) /\ MergerOK(o)
        BY DEF HandlersInv, MergesInv
      <4>3. pc[o] = "flushed"
        <5>1. ASSUME pc[o] \in {"drop", "move"} PROVE FALSE
          <6>1. i \in Dropped(o) \cup Moved(o)
            BY <4>1 DEF Dropped, Moved
          <6>2. vote[i].owner = req[o].guest
            BY <4>2, <5>1, <6>1, MergerRows
          <6>3. o # r /\ Merging(r) /\ Merging(o)
            BY <2>1, <5>1 DEF Merging
          <6> QED BY <3>1, <6>2, <6>3 DEF NoRivalMerges, HasKey
        <5> QED BY <4>1, <4>2, <5>1 DEF KindAt
      <4>4. draft[i] # None /\ (vote[i] # None => SameKey(vote[i], draft[i]))
        BY <4>1, <4>2, <4>3 DEF VoterOK
      <4> QED BY <3>1, <4>4 DEF HasKey, SameKey
    <3>3. CASE \A o \in Requests : i \notin dirty[o]
      BY <3>1, <3>3 DEF IsolationInv, CleanIsCommitted, HasKey
    <3> QED BY <3>1, <3>2, <3>3
  <2>4. ListedKept(r)'
    BY <2>1, <2>3 DEF Quiet, ListedKept, HasKey
  <2> QED BY <1>m, <2>1, <2>2, <2>4 DEF MergerOK, GuestKnown, Accounted, FairlySplit
<1>4. ASSUME ListAccountVotes(r) PROVE MergerOK(r)'
  <2> DEFINE L == mem[r].listed
             A == AnsweredBy(mem[r].owner)
  <2>1. /\ Quiet /\ pc[r] = "split" /\ pc'[r] = "drop" /\ req'[r] = req[r]
        /\ mem'[r].owner = mem[r].owner /\ mem'[r].listed = L
        /\ mem'[r].drops = IdsOf({x \in L : x[2] \in A})
        /\ mem'[r].moves = IdsOf({x \in L : x[2] \notin A})
        /\ mem'[r].migrated = Cardinality(mem'[r].moves)
    BY <1>4, ListAccountVotesEffect
  <2>2. dirty[r] = {} /\ dirty'[r] = {}
    BY <1>a, <2>1 DEF KindAt, Quiet
  <2>3. \A x \in L : x = <<x[1], x[2]>> /\ x[1] \in Ids /\ x[2] \in Questions
    <3>1. L \subseteq Ids \X Questions
      BY MemoryFields DEF TypeInv, Listing
    <3> QED BY <3>1
  <2>4. \A x \in L : HasKey(vote, x[1], x[2], req[r].guest)
    BY <1>m, <2>1, <2>3 DEF MergerOK, ListedKept
  <2>5. mem'[r].drops \cup mem'[r].moves = IdsOf(L)
    BY <2>1 DEF IdsOf
  <2>6. mem'[r].drops \cap mem'[r].moves = {}
    <3> SUFFICES ASSUME NEW x \in L, NEW y \in L, x[1] = y[1], x[2] \in A, y[2] \notin A
                 PROVE  FALSE
      BY <2>1 DEF IdsOf
    <3> QED BY <2>4 DEF HasKey
  <2>7. \A i \in mem'[r].drops : Voted(vote[i].question, mem[r].owner)
    <3> SUFFICES ASSUME NEW x \in L, x[2] \in A PROVE Voted(vote[x[1]].question, mem[r].owner)
      BY <2>1 DEF IdsOf
    <3> QED BY <2>4 DEF HasKey, AnsweredBy, StoredFor, Voted
  <2>8. Dropped(r)' = mem'[r].drops /\ Moved(r)' = mem'[r].moves
    BY <2>2 DEF Dropped, Moved
  <2>9. GuestKnown(r)' /\ ListedKept(r)'
    BY <1>m, <2>1, <2>2 DEF MergerOK, GuestKnown, ListedKept, HasKey, Quiet
  <2>10. Accounted(r)'
    BY <2>1, <2>2, <2>5, <2>6, <2>8 DEF Accounted
  <2>11. FairlySplit(r)'
    BY <2>1, <2>2, <2>7, <2>8 DEF FairlySplit, Voted, HasKey, Quiet
  <2> QED BY <1>m, <2>9, <2>10, <2>11 DEF MergerOK
<1>5. ASSUME NEW i \in Ids, NEW row \in Row \cup {None}, Writes(r, i, row),
             i \in mem[r].drops \cup mem[r].moves,
             pc[r] \in {"drop", "move"}, pc'[r] = pc[r], req'[r] = req[r],
             mem'[r].owner = mem[r].owner, mem'[r].listed = mem[r].listed,
             mem'[r].migrated = mem[r].migrated,
             \/ row = None /\ mem'[r].drops = mem[r].drops \ {i} /\ mem'[r].moves = mem[r].moves
                /\ i \in mem[r].drops
             \/ row # None /\ mem'[r].drops = mem[r].drops /\ mem'[r].moves = mem[r].moves \ {i}
                /\ row = [vote[i] EXCEPT !.owner = mem[r].owner] /\ i \in mem[r].moves
      PROVE  MergerOK(r)'
  <2>1. /\ vote' = vote /\ live' = live /\ draft'[i] = row /\ \A j \in Ids \ {i} : draft'[j] = draft[j]
        /\ dirty'[r] = dirty[r] \cup {i}
    BY <1>5 DEF Writes
  <2>2. i \notin dirty[r] /\ mem[r].drops \cap mem[r].moves = {}
    BY <1>m, <1>5 DEF MergerOK, Accounted
  <2>3. Dropped(r)' = Dropped(r)
    BY <1>5, <1>b, <2>1, <2>2 DEF Dropped
  <2>4. Moved(r)' = Moved(r)
    BY <1>5, <1>b, <2>1, <2>2 DEF Moved
  <2>5. GuestKnown(r)'
    BY <1>m, <1>5 DEF MergerOK, GuestKnown
  <2>6. ListedKept(r)'
    BY <1>m, <1>5, <2>1 DEF MergerOK, ListedKept, HasKey
  <2>7. Accounted(r)'
    BY <1>m, <1>5, <2>1, <2>2, <2>3, <2>4 DEF MergerOK, Accounted
  <2>8. FairlySplit(r)'
    <3>1. \A k \in Dropped(r) : (Voted(vote[k].question, mem[r].owner) \/ mem[r].owner \notin live)'
      BY <1>m, <1>5, <2>1 DEF MergerOK, FairlySplit, Voted, HasKey
    <3>2. \A k \in dirty'[r] : draft'[k] # None => draft'[k] = [vote'[k] EXCEPT !.owner = mem[r].owner]
      BY <1>m, <1>5, <1>b, <2>1 DEF MergerOK, FairlySplit
    <3> QED BY <1>5, <2>3, <3>1, <3>2 DEF FairlySplit
  <2> QED BY <1>m, <2>5, <2>6, <2>7, <2>8 DEF MergerOK
<1>6. ASSUME DropOne(r) PROVE MergerOK(r)'
  <2>1. /\ pc[r] = "drop" /\ pc'[r] = "drop" /\ req'[r] = req[r]
        /\ mem'[r].owner = mem[r].owner /\ mem'[r].listed = mem[r].listed
        /\ mem'[r].moves = mem[r].moves /\ mem'[r].migrated = mem[r].migrated
    BY <1>6, <1>a, DropOneEffect
  <2>2. PICK i \in Ids : /\ Writes(r, i, None) /\ Drops(r, i, None)
                         /\ mem'[r].drops = mem[r].drops \ {i}
    BY <1>6, <1>a, DropOneEffect
  <2>3. i \in mem[r].drops
    BY <2>2 DEF Drops
  <2> QED BY <1>5, <2>1, <2>2, <2>3
<1>7. ASSUME BeginMoves(r) PROVE MergerOK(r)'
  <2>1. /\ Quiet /\ pc[r] = "drop" /\ pc'[r] = "move" /\ mem[r].drops = {}
        /\ mem'[r] = mem[r] /\ req'[r] = req[r]
    BY <1>7, BeginMovesEffect
  <2>2. dirty'[r] = dirty[r] /\ Dropped(r)' = Dropped(r) /\ Moved(r)' = Moved(r)
    BY <2>1 DEF Quiet, Dropped, Moved
  <2>3. GuestKnown(r)' /\ ListedKept(r)'
    BY <1>m, <2>1 DEF MergerOK, GuestKnown, ListedKept, HasKey, Quiet
  <2>4. Accounted(r)'
    BY <1>m, <2>1, <2>2 DEF MergerOK, Accounted
  <2>5. FairlySplit(r)'
    BY <1>m, <2>1, <2>2 DEF MergerOK, FairlySplit, Voted, HasKey, Quiet
  <2> QED BY <1>m, <2>3, <2>4, <2>5 DEF MergerOK
<1>8. ASSUME MoveOne(r) PROVE MergerOK(r)'
  <2>1. pc[r] = "move" /\ req'[r] = req[r]
    BY <1>8, <1>a, MoveOneEffect
  <2>2. CASE pc'[r] = "done"
    BY <1>c, <2>2
  <2>3. CASE pc'[r] = "move"
    <3>1. PICK i \in Ids : /\ i \in mem[r].moves /\ mem'[r].moves = mem[r].moves \ {i}
                           /\ \/ \E row \in Row : Writes(r, i, row) /\ Moves(r, i, row)
                              \/ Quiet /\ draft[i] = None /\ Holders(r, i) = {}
      BY <1>8, <1>a, <2>3, MoveOneEffect
    <3>2. /\ mem'[r].owner = mem[r].owner /\ mem'[r].listed = mem[r].listed
          /\ mem'[r].drops = mem[r].drops /\ mem'[r].migrated = mem[r].migrated
      BY <1>8, <1>a, <2>3, MoveOneEffect
    <3>3. i \in IdsOf(mem[r].listed) /\ i \notin dirty[r]
      BY <1>m, <2>1, <3>1 DEF MergerOK, Accounted, Moved
    <3>4. draft[i] # None
      BY <1>m, <2>1, <3>3, ListedIds DEF MergerOK, ListedKept, HasKey, TypeInv
    <3>5. PICK row \in Row : Writes(r, i, row) /\ Moves(r, i, row)
      BY <3>1, <3>4
    <3>6. row = [draft[i] EXCEPT !.owner = mem[r].owner] /\ Holders(r, i) = {}
      BY <3>5 DEF Moves, Writes
    <3>7. draft[i] = vote[i]
      BY <3>3, <3>6 DEF Holders, IsolationInv, CleanIsCommitted
    <3>8. row # None /\ row = [vote[i] EXCEPT !.owner = mem[r].owner]
      BY <3>6, <3>7, IdsAssumption
    <3> QED BY <1>5, <2>1, <2>3, <3>1, <3>2, <3>5, <3>8
  <2> QED BY <1>8, <1>a, <2>2, <2>3, MoveOneEffect
<1> QED
  BY <1>1, <1>2, <1>3, <1>4, <1>6, <1>7, <1>8 DEF Step, Arrive, Serve

LEMMA MergesInit == Init => MergesInv
<1> SUFFICES ASSUME Init, NEW r \in Requests PROVE MergerOK(r)
  BY DEF MergesInv
<1>1. pc[r] = "idle"
  BY DEF Init
<1> QED
  BY <1>1 DEF MergerOK, GuestKnown, ListedKept, Accounted, FairlySplit

LEMMA MergesStep ==
    TypeInv /\ IsolationInv /\ HandlersInv /\ MergesInv /\ NoRivalMerges /\ [Next]_vars => MergesInv'
<1> SUFFICES ASSUME TypeInv, IsolationInv, HandlersInv, MergesInv, NoRivalMerges, [Next]_vars
             PROVE  MergesInv'
  OBVIOUS
<1>1. CASE UNCHANGED vars
  <2> SUFFICES ASSUME NEW r \in Requests PROVE MergerOK(r)'
    BY DEF MergesInv
  <2>1. /\ MergerOK(r) /\ Dropped(r)' = Dropped(r) /\ Moved(r)' = Moved(r)
        /\ UNCHANGED <<live, vote, draft, dirty, pc, req, mem>>
    BY <1>1 DEF vars, MergesInv, Dropped, Moved
  <2>2. GuestKnown(r)' /\ ListedKept(r)'
    BY <2>1 DEF MergerOK, GuestKnown, ListedKept, HasKey
  <2>3. Accounted(r)'
    BY <2>1 DEF MergerOK, Accounted
  <2>4. FairlySplit(r)'
    BY <2>1 DEF MergerOK, FairlySplit, Voted, HasKey
  <2> QED BY <2>2, <2>3, <2>4 DEF MergerOK
<1>2. ASSUME NEW r \in Requests, Step(r) PROVE MergesInv'
  BY <1>2, OwnMergerKept, OtherMergerKept DEF MergesInv
<1> QED
  BY <1>1, <1>2, NextIsStep

----------------------------------------------------------------------------
(* Steps that change what is committed                                     *)

LEMMA CommittedBy ==
    ASSUME TypeInv, NEW r \in Requests, KindAt(r), Step(r)
    PROVE  \/ UNCHANGED <<live, vote>>
           \/ CommitVote(r) \/ CommitMigration(r) \/ DeleteAccount(r)
<1>1. ASSUME VoteArrives(r) \/ LookUpVote(r) \/ RefreshVote(r) \/ MigrateArrives(r) \/ ListGuestVotes(r)
               \/ ListAccountVotes(r) \/ BeginMoves(r) \/ WithdrawArrives(r)
      PROVE  UNCHANGED <<live, vote>>
  BY <1>1 DEF VoteArrives, LookUpVote, RefreshVote, MigrateArrives, ListGuestVotes, ListAccountVotes,
     BeginMoves, WithdrawArrives
<1>2. ASSUME InsertVote(r) \/ ChangeVote(r) \/ DropOne(r) \/ MoveOne(r) \/ Die(r) \/ BreakDeadlock(r)
      PROVE  UNCHANGED <<live, vote>>
  BY <1>2 DEF InsertVote, ChangeVote, DropOne, MoveOne, Die, BreakDeadlock, Raise
<1> QED
  BY <1>1, <1>2 DEF Step, Arrive, Serve

\* A vote's commit publishes nothing, or one row: a new one or a change of
\* the ballot of its owner.
LEMMA VotePublished ==
    ASSUME TypeInv, HandlersInv, NEW r \in Requests, CommitVote(r)
    PROVE  /\ live' = live
           /\ \/ UNCHANGED vote
              \/ \E i \in Ids : /\ \A j \in Ids \ {i} : vote'[j] = vote[j]
                                /\ vote'[i] = draft[i] /\ draft[i] \in Row
                                /\ draft[i].question \in Active
                                /\ vote[i] # None => SameKey(vote[i], draft[i])
<1>1. /\ Publishes(r) /\ pc[r] = "flushed"
  BY CommitVoteEffect
<1>2. /\ live' = live
      /\ \A i \in Ids : vote'[i] = IF i \in dirty[r] THEN draft[i] ELSE vote[i]
  BY <1>1 DEF Publishes
<1>3. /\ req[r].question \in Active
      /\ \A i \in dirty[r] : /\ i = mem[r].row /\ draft[i] # None
                             /\ draft[i].question = req[r].question
                             /\ vote[i] # None => SameKey(vote[i], draft[i])
  BY <1>1 DEF HandlersInv, VoterOK
<1>4. vote \in Table /\ draft \in Table /\ vote' \in Table /\ dirty[r] \subseteq Ids
  <2>1. TypeOK
    BY DEF TypeInv
  <2> QED BY <2>1, CommitTyped DEF CommitVote, TypeOK
<1>5. CASE dirty[r] = {}
  BY <1>2, <1>4, <1>5 DEF Table
<1>6. CASE dirty[r] # {}
  <2>1. PICK i \in dirty[r] : TRUE
    BY <1>6
  <2>2. dirty[r] = {i} /\ i \in Ids /\ draft[i] \in Row
    BY <1>3, <1>4, <2>1 DEF Table
  <2> QED BY <1>2, <1>3, <2>2
<1> QED
  BY <1>2, <1>5, <1>6

\* A merge's commit publishes rows of its guest only: deleted where the
\* account has an answer or is gone, and otherwise given to the account.
LEMMA MergePublished ==
    ASSUME TypeInv, HandlersInv, MergesInv, NEW r \in Requests, CommitMigration(r)
    PROVE  /\ live' = live /\ req[r].guest \in Guests /\ mem[r].owner \in Users /\ Kind[r] = "migrate"
           /\ \A i \in Ids \ dirty[r] : vote'[i] = vote[i]
           /\ dirty[r] = IdsOf(mem[r].listed)
           /\ \A i \in dirty[r] :
                /\ i \in Ids /\ vote[i] \in Row /\ vote[i].owner = req[r].guest
                /\ \/ /\ draft[i] = None /\ vote'[i] = None
                      /\ Voted(vote[i].question, mem[r].owner) \/ mem[r].owner \notin live
                   \/ draft[i] # None /\ vote'[i] = [vote[i] EXCEPT !.owner = mem[r].owner]
<1>1. /\ Publishes(r) /\ pc[r] = "move" /\ mem[r].moves = {} /\ Kind[r] = "migrate"
  BY CommitMigrationEffect DEF HandlersInv
<1>2. /\ live' = live
      /\ \A i \in Ids : vote'[i] = IF i \in dirty[r] THEN draft[i] ELSE vote[i]
  BY <1>1 DEF Publishes
<1>3. MergerOK(r)
  BY DEF MergesInv
<1>4. req[r].guest \in Guests /\ mem[r].owner \in Users
  BY <1>1, <1>3 DEF MergerOK, GuestKnown, TypeInv, HandlerOK
<1>5. mem[r].drops = {} /\ Dropped(r) \cup Moved(r) = IdsOf(mem[r].listed)
  BY <1>1, <1>3 DEF MergerOK, Accounted
<1>6. dirty[r] = IdsOf(mem[r].listed)
  BY <1>1, <1>5 DEF Dropped, Moved
<1>7. \A i \in dirty[r] : i \in Ids /\ vote[i] \in Row /\ vote[i].owner = req[r].guest
  <2> SUFFICES ASSUME NEW i \in dirty[r]
               PROVE  i \in Ids /\ vote[i] \in Row /\ vote[i].owner = req[r].guest
    OBVIOUS
  <2>1. PICK q \in Questions : i \in Ids /\ <<i, q>> \in mem[r].listed
    BY <1>6, ListedIds DEF TypeInv
  <2>2. HasKey(vote, i, q, req[r].guest)
    BY <1>1, <1>3, <2>1 DEF MergerOK, ListedKept
  <2> QED BY <2>1, <2>2 DEF HasKey, TypeInv, TypeOK, Table
<1>8. \A i \in dirty[r] : draft[i] = None =>
          Voted(vote[i].question, mem[r].owner) \/ mem[r].owner \notin live
  BY <1>1, <1>3 DEF MergerOK, FairlySplit, Dropped
<1>9. \A i \in dirty[r] : draft[i] # None => draft[i] = [vote[i] EXCEPT !.owner = mem[r].owner]
  BY <1>1, <1>3 DEF MergerOK, FairlySplit
<1>10. \A i \in dirty[r] :
         \/ /\ draft[i] = None /\ vote'[i] = None
            /\ Voted(vote[i].question, mem[r].owner) \/ mem[r].owner \notin live
         \/ draft[i] # None /\ vote'[i] = [vote[i] EXCEPT !.owner = mem[r].owner]
  BY <1>2, <1>7, <1>8, <1>9
<1> QED
  BY <1>1, <1>2, <1>4, <1>6, <1>7, <1>10

LEMMA MergeReported ==
    ASSUME TypeInv, HandlersInv, MergesInv, NEW r \in Requests, CommitMigration(r)
    PROVE  /\ \A x \in mem[r].listed : ~OwnedBy(vote', x[1], req[r].guest)
           /\ mem[r].migrated = Cardinality({i \in Ids : /\ OwnedBy(vote', i, mem[r].owner)
                                                         /\ ~OwnedBy(vote, i, mem[r].owner)})
<1> DEFINE g == req[r].guest
           u == mem[r].owner
<1>1. g # u /\ None # u
  BY MergePublished, IdsAssumption DEF Participants
<1>2. \A i \in dirty[r] : \/ draft[i] = None /\ vote'[i] = None
                          \/ draft[i] # None /\ vote'[i] \in Row /\ vote'[i].owner = u
  <2> SUFFICES ASSUME NEW i \in dirty[r], vote'[i] = [vote[i] EXCEPT !.owner = u]
               PROVE  vote'[i] \in Row /\ vote'[i].owner = u
    BY MergePublished
  <2>1. vote[i] \in Row /\ u \in Participants
    BY MergePublished DEF Participants
  <2> HIDE DEF u
  <2> QED BY <2>1 DEF Row
<1>3. \A x \in mem[r].listed : ~OwnedBy(vote', x[1], g)
  <2>1. \A x \in mem[r].listed : x[1] \in dirty[r]
    BY MergePublished DEF IdsOf
  <2> QED BY <1>1, <1>2, <2>1 DEF OwnedBy
<1>4. {i \in Ids : OwnedBy(vote', i, u) /\ ~OwnedBy(vote, i, u)} = {i \in dirty[r] : draft[i] # None}
  <2>1. \A i \in Ids \ dirty[r] : vote'[i] = vote[i]
    BY MergePublished
  <2>2. \A i \in dirty[r] : i \in Ids /\ vote[i].owner = g
    BY MergePublished
  <2> QED BY <1>1, <1>2, <2>1, <2>2, IdsAssumption DEF OwnedBy
<1>5. mem[r].migrated = Cardinality({i \in dirty[r] : draft[i] # None})
  <2>1. pc[r] = "move" /\ mem[r].moves = {}
    BY CommitMigrationEffect DEF HandlersInv
  <2>2. Moved(r) = {i \in dirty[r] : draft[i] # None}
    BY <2>1 DEF Moved
  <2> QED BY <2>1, <2>2 DEF MergesInv, MergerOK, Accounted
<1> QED
  BY <1>3, <1>4, <1>5

\* With one merge of a guest at a time, a merge leaves none of the votes
\* it listed with the guest, whatever votes and withdrawals ran meanwhile,
\* and reports the number of votes its commit hands over.
THEOREM MergeReportsWhatItMoved == Spec /\ []NoRivalMerges => MergeAsReported
<1>1. TypeInv /\ HandlersInv /\ MergesInv /\ [Next]_vars =>
        [\A r \in Requests : CommitMigration(r) =>
         /\ \A x \in mem[r].listed : ~OwnedBy(vote', x[1], req[r].guest)
         /\ mem[r].migrated = Cardinality({i \in Ids : /\ OwnedBy(vote', i, mem[r].owner)
                                                      /\ ~OwnedBy(vote, i, mem[r].owner)})]_vars
  BY MergeReported
<1> QED
  BY <1>1, TypeInit, TypeStep, IsolationInit, IsolationStep, HandlersInit, HandlersStep,
     MergesInit, MergesStep, PTL DEF Spec, MergeAsReported

\* Which participants lose their answer to a question in a step: members
\* none, guests only to an account with an answer or without existence.
LEMMA AnswersKept ==
    ASSUME TypeInv, HandlersInv, MergesInv, NEW r \in Requests, Step(r),
           NEW q \in Questions, NEW p \in Participants, Voted(q, p), ~Voted(q, p)'
    PROVE  \/ p \in Users /\ p \notin live'
           \/ /\ p \in Guests
              /\ \E u \in Users : MergedInto(p, u) /\ (Voted(q, u)' \/ u \notin live')
<1> USE DEF HasKey
<1>1. PICK i \in Ids : HasKey(vote, i, q, p)
  BY DEF Voted
<1>2. ~HasKey(vote', i, q, p)
  BY DEF Voted
<1>3. ~UNCHANGED vote
  BY <1>1, <1>2
<1>4. ASSUME CommitVote(r) PROVE FALSE
  <2>1. PICK j \in Ids : /\ \A k \in Ids \ {j} : vote'[k] = vote[k]
                         /\ vote'[j] = draft[j] /\ draft[j] \in Row
                         /\ vote[j] # None => SameKey(vote[j], draft[j])
    BY <1>3, <1>4, VotePublished
  <2> QED BY <1>1, <1>2, <2>1, IdsAssumption DEF SameKey
<1>5. ASSUME CommitMigration(r) PROVE p \in Guests /\ \E u \in Users : MergedInto(p, u) /\ (Voted(q, u)' \/ u \notin live')
  <2> DEFINE u == mem[r].owner
  <2>1. /\ live' = live /\ u \in Users /\ Kind[r] = "migrate" /\ req[r].guest \in Guests
        /\ \A k \in Ids \ dirty[r] : vote'[k] = vote[k]
        /\ \A k \in dirty[r] : /\ k \in Ids /\ vote[k] \in Row /\ vote[k].owner = req[r].guest
    BY <1>5, MergePublished
  <2>2. i \in dirty[r] /\ p = req[r].guest /\ vote[i].question = q
    BY <1>1, <1>2, <2>1
  <2>3. MergedInto(p, u)
    BY <2>1, <2>2 DEF MergedInto
  <2>4. CASE vote'[i] = None /\ (Voted(vote[i].question, u) \/ u \notin live)
    <3>1. CASE u \notin live
      BY <2>1, <2>2, <2>3, <3>1
    <3>2. CASE Voted(q, u)
      <4>1. PICK j \in Ids : HasKey(vote, j, q, u)
        BY <3>2 DEF Voted
      <4>2. j \notin dirty[r]
        BY <2>1, <4>1, IdsAssumption
      <4>3. HasKey(vote', j, q, u)
        BY <2>1, <4>1, <4>2
      <4>4. \E k \in Ids : HasKey(vote', k, q, u)
        BY <4>3
      <4> QED BY <2>1, <2>2, <2>3, <4>4 DEF Voted
    <3> QED BY <2>2, <2>4, <3>1, <3>2
  <2>5. CASE vote'[i] = [vote[i] EXCEPT !.owner = u]
    <3>1. vote'[i] # None /\ vote'[i].question = q /\ vote'[i].owner = u
      <4>1. u \in Participants /\ vote[i] \in Row
        BY <2>1, <2>2 DEF Participants
      <4> HIDE DEF u
      <4>2. vote'[i] \in Row
        BY <2>5, <4>1 DEF Row
      <4> QED BY <2>2, <2>5, <4>1, <4>2, IdsAssumption DEF Row
    <3>2. \E k \in Ids : HasKey(vote', k, q, u)
      BY <1>1, <3>1
    <3> QED BY <2>1, <2>2, <2>3, <3>2 DEF Voted
  <2> QED BY <1>5, <2>2, <2>4, <2>5, MergePublished
<1>6. ASSUME DeleteAccount(r) PROVE p \in Users /\ p \notin live'
  <2>1. live' = live \ {req[r].user} /\ vote' = WithoutAccount(vote, req[r].user) /\ req[r].user \in Users
    BY <1>6, DeleteAccountEffect DEF DeleteAccount, HandlersInv
  <2>2. OwnedBy(vote, i, req[r].user)
    BY <1>1, <1>2, <2>1 DEF WithoutAccount
  <2> QED BY <1>1, <2>1, <2>2 DEF OwnedBy
<1> QED
  BY <1>3, <1>4, <1>5, <1>6, CommittedBy DEF HandlersInv

\* With one merge of a guest at a time, no interleaving of votes, merges and withdrawals,
\* no lock wait and no rollback loses an answer.
THEOREM NoChoiceLost == Spec /\ []NoRivalMerges => ChoiceKept
<1> DEFINE Kept ==
      /\ \A q \in Questions, u \in live' : Voted(q, u) => Voted(q, u)'
      /\ \A q \in Questions, g \in Guests :
           Voted(q, g) /\ ~Voted(q, g)' =>
              \E u \in Users : MergedInto(g, u) /\ (Voted(q, u)' \/ u \notin live')
<1>1. TypeInv /\ HandlersInv /\ MergesInv /\ [Next]_vars => [Kept]_vars
  <2> SUFFICES ASSUME TypeInv, HandlersInv, MergesInv, NEW r \in Requests, Step(r) PROVE Kept
    BY NextIsStep
  <2>1. live' \subseteq Users
    <3>1. KindAt(r)
      BY DEF HandlersInv
    <3>2. TableEffect(r)
      BY <3>1, StepEffect
    <3> QED BY <3>2 DEF TableEffect, Quiet, Writes, Publishes, Reverts, Removes, TypeInv, TypeOK
  <2>2. ASSUME NEW q \in Questions, NEW u \in live', Voted(q, u) PROVE Voted(q, u)'
    BY <2>1, <2>2, AnswersKept, IdsAssumption DEF Participants
  <2>3. ASSUME NEW q \in Questions, NEW g \in Guests, Voted(q, g), ~Voted(q, g)'
        PROVE  \E u \in Users : MergedInto(g, u) /\ (Voted(q, u)' \/ u \notin live')
    BY <2>3, AnswersKept, IdsAssumption DEF Participants
  <2> QED BY <2>2, <2>3
<1> QED
  BY <1>1, TypeInit, TypeStep, IsolationInit, IsolationStep, HandlersInit, HandlersStep,
     MergesInit, MergesStep, PTL DEF Spec, ChoiceKept

----------------------------------------------------------------------------
(* The requests together behave like the ledger                            *)

\* The ballot a table holds for a question and a participant.
BallotIn(t, q, p) ==
    IF \E i \in Ids : HasKey(t, i, q, p)
    THEN LET i == CHOOSE i \in Ids : HasKey(t, i, q, p)
         IN [option |-> t[i].option, reason |-> t[i].reason]
    ELSE None

BallotOf(row) == [option |-> row.option, reason |-> row.reason]

LEMMA BallotFound ==
    ASSUME NEW t, DistinctKeys(t), NEW q, NEW p, NEW i \in Ids, HasKey(t, i, q, p)
    PROVE  BallotIn(t, q, p) = BallotOf(t[i])
<1> DEFINE j == CHOOSE j \in Ids : HasKey(t, j, q, p)
<1>1. j \in Ids /\ HasKey(t, j, q, p)
  OBVIOUS
<1>2. j = i
  BY <1>1 DEF DistinctKeys, HasKey
<1> QED
  BY <1>1, <1>2 DEF BallotIn, BallotOf

LEMMA BallotMissing ==
    ASSUME NEW t, NEW q, NEW p, \A i \in Ids : ~HasKey(t, i, q, p)
    PROVE  BallotIn(t, q, p) = None
BY DEF BallotIn

LEMMA BallotIsSomething ==
    ASSUME NEW row \in Row
    PROVE  BallotOf(row) # None /\ BallotOf(row) \in [option : Options, reason : Reasons]
<1>1. row.option \in Options /\ row.reason \in Reasons
  BY DEF Row
<1>2. BallotOf(row) \in [option : Options, reason : Reasons]
  BY <1>1 DEF BallotOf
<1> QED
  BY <1>2, IdsAssumption

\* Two tables that have the same rows with a key have the same ballot for it.
LEMMA BallotAgrees ==
    ASSUME NEW t, NEW s, DistinctKeys(t), DistinctKeys(s), NEW q, NEW p,
           \A i \in Ids : HasKey(t, i, q, p) => HasKey(s, i, q, p) /\ s[i] = t[i],
           \A i \in Ids : HasKey(s, i, q, p) => HasKey(t, i, q, p)
    PROVE  BallotIn(s, q, p) = BallotIn(t, q, p)
<1>1. CASE \E i \in Ids : HasKey(t, i, q, p)
  <2>1. PICK i \in Ids : HasKey(t, i, q, p)
    BY <1>1
  <2>2. HasKey(s, i, q, p) /\ s[i] = t[i]
    BY <2>1
  <2>3. BallotIn(t, q, p) = BallotOf(t[i]) /\ BallotIn(s, q, p) = BallotOf(s[i])
    BY <2>1, <2>2, BallotFound
  <2> QED BY <2>2, <2>3
<1>2. CASE \A i \in Ids : ~HasKey(t, i, q, p)
  <2>1. \A i \in Ids : ~HasKey(s, i, q, p)
    BY <1>2
  <2>2. BallotIn(t, q, p) = None /\ BallotIn(s, q, p) = None
    BY <1>2, <2>1, BallotMissing
  <2> QED BY <2>2
<1> QED
  BY <1>1, <1>2

Slots == Questions \X Participants

LEMMA LedgerSlots == Ledger!Slots = Slots /\ Ledger!Participants = Participants
BY DEF Ledger!Slots, Slots, Ledger!Participants, Participants

LEMMA BallotNowIs ==
    /\ BallotNow = [x \in Slots |-> BallotIn(vote, x[1], x[2])]
    /\ BallotNow' = [x \in Slots |-> BallotIn(vote', x[1], x[2])]
<1>1. BallotNow = [x \in Slots |-> BallotIn(vote, x[1], x[2])]
  BY DEF BallotNow, Voted, BallotIn, Slots
<1>2. BallotNow' = [x \in Slots |-> BallotIn(vote', x[1], x[2])]
  BY DEF BallotNow, Voted, BallotIn, Slots
<1> QED
  BY <1>1, <1>2

LEMMA LedgerInit == Init => Ledger!Init
<1> SUFFICES ASSUME Init PROVE Ledger!Init
  OBVIOUS
<1>1. /\ live = Users /\ vote \in Table /\ DistinctKeys(vote)
      /\ \A i \in Ids : vote[i] # None => Offers(vote[i].question, vote[i].option, vote[i].reason)
  BY HistoriesAssumption DEF Init
<1>2. DOMAIN BallotNow = Slots
  BY BallotNowIs
<1>3. ASSUME NEW x \in Slots, BallotNow[x] # None
      PROVE  BallotNow[x] \in Ledger!Ballots(x[1]) /\ x[2] \in live \cup Guests
  <2>1. BallotNow[x] = BallotIn(vote, x[1], x[2])
    BY BallotNowIs
  <2>2. PICK i \in Ids : HasKey(vote, i, x[1], x[2])
    BY <1>3, <2>1, BallotMissing
  <2>3. BallotNow[x] = BallotOf(vote[i])
    BY <1>1, <2>1, <2>2, BallotFound
  <2>4. vote[i].option \in OptionsOf[x[1]] /\ vote[i].reason \in ReasonsOf[x[1]]
    BY <1>1, <2>2 DEF HasKey, Offers
  <2>5. x[2] \in Participants
    BY DEF Slots
  <2> QED BY <1>1, <2>3, <2>4, <2>5 DEF BallotOf, Ledger!Ballots, Participants
<1> QED
  BY <1>1, <1>2, <1>3, LedgerSlots DEF Ledger!Init, Ledger!LegalLedger

LEMMA LedgerStutters ==
    ASSUME UNCHANGED <<live, vote>>
    PROVE  UNCHANGED Ledger!vars
BY BallotNowIs DEF Ledger!vars

\* A vote's commit casts one ballot.
LEMMA VoteIsCast ==
    ASSUME TypeInv, IsolationInv, OwnerInv, HandlersInv, NEW r \in Requests, CommitVote(r),
           DistinctKeys(vote)'
    PROVE  [Ledger!Next]_Ledger!vars
<1> USE DEF HasKey
<1>1. live' = live /\ draft' = draft
  BY VotePublished DEF CommitVote
<1>2. CASE UNCHANGED vote
  BY <1>1, <1>2, LedgerStutters
<1>3. CASE ~UNCHANGED vote
  <2>1. PICK i \in Ids : /\ \A j \in Ids \ {i} : vote'[j] = vote[j]
                         /\ vote'[i] = draft[i] /\ draft[i] \in Row
                         /\ draft[i].question \in Active
                         /\ vote[i] # None => SameKey(vote[i], draft[i])
    BY <1>3, VotePublished
  <2> DEFINE q == draft[i].question
             p == draft[i].owner
             b == BallotOf(draft[i])
  <2>2. q \in Questions /\ q \in Active /\ p \in Participants /\ draft[i] # None
    BY <2>1, IdsAssumption DEF Row
  <2>3. p \in live \cup Guests
    BY <2>2 DEF OwnerInv, Participants
  <2>4. b \in Ledger!Ballots(q)
    BY <2>2 DEF HandlersInv, RowsOffered, Offers, BallotOf, Ledger!Ballots
  <2>5. HasKey(vote', i, q, p)
    BY <2>1, <2>2
  <2>6. BallotIn(vote', q, p) = b
    <3>1. DistinctKeys(vote')
      OBVIOUS
    <3>2. BallotIn(vote', q, p) = BallotOf(vote'[i])
      BY <2>5, <3>1, BallotFound
    <3> QED BY <2>1, <3>2
  <2>7. ASSUME NEW x \in Slots, x # <<q, p>> PROVE BallotIn(vote', x[1], x[2]) = BallotIn(vote, x[1], x[2])
    <3>1. x[1] # q \/ x[2] # p
      BY <2>7 DEF Slots
    <3>2. ~HasKey(vote', i, x[1], x[2]) /\ ~HasKey(vote, i, x[1], x[2])
      BY <2>1, <3>1 DEF SameKey
    <3>3. DistinctKeys(vote) /\ DistinctKeys(vote')
      BY DEF IsolationInv
    <3>4. /\ \A j \in Ids : HasKey(vote, j, x[1], x[2]) => HasKey(vote', j, x[1], x[2]) /\ vote'[j] = vote[j]
          /\ \A j \in Ids : HasKey(vote', j, x[1], x[2]) => HasKey(vote, j, x[1], x[2])
      BY <2>1, <3>2
    <3> HIDE DEF HasKey
    <3> QED BY <3>3, <3>4, BallotAgrees
  <2>8. <<q, p>> \in Slots
    BY <2>2 DEF Slots
  <2> HIDE DEF q, p, b
  <2>9. BallotNow' = [BallotNow EXCEPT ![<<q, p>>] = b]
    <3>1. BallotIn(vote', <<q, p>>[1], <<q, p>>[2]) = b
      BY <2>6
    <3>2. BallotNow \in [Slots -> {BallotIn(vote, x[1], x[2]) : x \in Slots}]
      BY BallotNowIs
    <3> QED BY <2>7, <2>8, <3>1, BallotNowIs
  <2>10. Ledger!Cast(q, p)
    BY <1>1, <2>2, <2>3, <2>4, <2>9 DEF Ledger!Cast
  <2>11. Ledger!Next
    BY <2>2, <2>10, LedgerSlots DEF Ledger!Next
  <2> QED BY <2>11
<1> QED
  BY <1>2, <1>3

\* A withdrawal takes the account's ballots out.
LEMMA WithdrawalIsOne ==
    ASSUME TypeInv, IsolationInv, OwnerInv, HandlersInv, NEW r \in Requests, DeleteAccount(r),
           DistinctKeys(vote)'
    PROVE  [Ledger!Next]_Ledger!vars
<1> USE DEF HasKey
<1> DEFINE u == req[r].user
<1>1. live' = live \ {u} /\ vote' = WithoutAccount(vote, u) /\ u \in Users
  BY DeleteAccountEffect DEF DeleteAccount, HandlersInv
<1> HIDE DEF u
<1>2. \A i \in Ids : vote'[i] = IF OwnedBy(vote, i, u) THEN None ELSE vote[i]
  BY <1>1 DEF WithoutAccount
<1>3. CASE u \notin live
  <2>1. live' = live
    BY <1>1, <1>3
  <2>2. vote' = vote
    <3>1. \A i \in Ids : vote'[i] = vote[i]
      BY <1>1, <1>2, <1>3 DEF OwnedBy, OwnerInv
    <3>2. vote \in Table /\ DOMAIN vote' = Ids
      BY <1>1 DEF WithoutAccount, TypeInv, TypeOK
    <3> QED BY <1>1, <3>1, <3>2 DEF WithoutAccount, Table
  <2> QED BY <2>1, <2>2, LedgerStutters
<1>4. CASE u \in live
  <2>1. ASSUME NEW x \in Slots
        PROVE  BallotIn(vote', x[1], x[2]) = IF x[2] = u THEN None ELSE BallotIn(vote, x[1], x[2])
    <3>1. CASE x[2] = u
      <4>1. \A i \in Ids : ~HasKey(vote', i, x[1], x[2])
        BY <1>2, <3>1 DEF OwnedBy
      <4> HIDE DEF HasKey
      <4> QED BY <3>1, <4>1, BallotMissing
    <3>2. CASE x[2] # u
      <4>1. DistinctKeys(vote) /\ DistinctKeys(vote')
        BY DEF IsolationInv
      <4>2. /\ \A j \in Ids : HasKey(vote, j, x[1], x[2]) => HasKey(vote', j, x[1], x[2]) /\ vote'[j] = vote[j]
            /\ \A j \in Ids : HasKey(vote', j, x[1], x[2]) => HasKey(vote, j, x[1], x[2])
        BY <1>2, <3>2 DEF OwnedBy
      <4> HIDE DEF HasKey
      <4> QED BY <3>2, <4>1, <4>2, BallotAgrees
    <3> QED BY <3>1, <3>2
  <2>2. BallotNow' = [x \in Slots |-> IF x[2] = u THEN None ELSE BallotNow[x]]
    BY <2>1, BallotNowIs
  <2>3. Ledger!Withdraw(u)
    BY <1>1, <1>4, <2>2, LedgerSlots DEF Ledger!Withdraw
  <2> QED BY <1>1, <2>3 DEF Ledger!Next
<1> QED
  BY <1>3, <1>4

\* A merge's commit hands over or drops the guest's ballots on the questions
\* of the rows it listed.
LEMMA MergeIsOne ==
    ASSUME TypeInv, IsolationInv, OwnerInv, HandlersInv, MergesInv, NEW r \in Requests,
           CommitMigration(r), DistinctKeys(vote)'
    PROVE  Ledger!Next
<1> DEFINE g == req[r].guest
           u == mem[r].owner
           D == dirty[r]
           S == {vote[i].question : i \in D}
           Given(i) == draft[i] # None /\ vote'[i] = [vote[i] EXCEPT !.owner = u]
           Gone(i) == vote'[i] = None /\ (Voted(vote[i].question, u) \/ u \notin live)
<1>1. /\ live' = live /\ g \in Guests /\ u \in Users
      /\ \A i \in Ids \ D : vote'[i] = vote[i]
      /\ \A i \in D : i \in Ids /\ vote[i] \in Row /\ vote[i].owner = g /\ (Gone(i) \/ Given(i))
  BY MergePublished
<1>2. g # u /\ g \in Participants /\ u \in Participants
  BY <1>1, IdsAssumption DEF Participants
<1>3. \A i \in D : vote[i] # None /\ vote[i].question \in Questions /\ vote[i].question \in S
  BY <1>1, IdsAssumption DEF Row
<1>4. DistinctKeys(vote) /\ DistinctKeys(vote')
  BY DEF IsolationInv
<1>5. ASSUME NEW i \in D, Given(i)
      PROVE  /\ u \in live /\ vote'[i] \in Row
             /\ vote'[i].question = vote[i].question /\ vote'[i].owner = u
             /\ BallotOf(vote'[i]) = BallotOf(vote[i])
             /\ \A j \in Ids : ~HasKey(vote, j, vote[i].question, u)
  <2>1. vote[i] \in Row /\ vote'[i] = [vote[i] EXCEPT !.owner = u] /\ i \in Ids /\ draft[i] # None
    BY <1>1, <1>5
  <2>2. vote'[i] = draft[i]
    <3>1. Publishes(r)
      BY CommitMigrationEffect DEF HandlersInv
    <3> QED BY <2>1, <3>1 DEF Publishes
  <2> HIDE DEF u, g
  <2>3. /\ vote'[i] \in Row /\ vote'[i].question = vote[i].question /\ vote'[i].owner = u
        /\ BallotOf(vote'[i]) = BallotOf(vote[i])
    BY <1>2, <2>1 DEF Row, BallotOf
  <2>4. u \in live
    BY <1>1, <2>1, <2>2, <2>3 DEF OwnerInv
  <2>5. \A j \in Ids \ D : ~HasKey(vote, j, vote[i].question, u)
    BY <2>1, <2>2, <2>3 DEF IsolationInv, WritesFit
  <2>6. \A j \in D : ~HasKey(vote, j, vote[i].question, u)
    BY <1>1, <1>2 DEF HasKey
  <2> QED BY <2>3, <2>4, <2>5, <2>6
<1> HIDE DEF g, u, D, Given
<1>6. \A q \in S : q \in Questions /\ \E i \in D : HasKey(vote, i, q, g)
  <2> SUFFICES ASSUME NEW i \in D PROVE vote[i].question \in Questions /\ HasKey(vote, i, vote[i].question, g)
    OBVIOUS
  <2> QED BY <1>1, <1>3 DEF HasKey
<1>7. \A i \in D : vote'[i] = None \/ (vote'[i].question = vote[i].question /\ vote'[i].owner = u)
  BY <1>1, <1>5
<1> HIDE DEF S, Gone
<1>8. ASSUME NEW x \in Slots, x[1] \notin S \/ x[2] \notin {g, u}
      PROVE  BallotIn(vote', x[1], x[2]) = BallotIn(vote, x[1], x[2])
  <2>1. \A j \in Ids : HasKey(vote, j, x[1], x[2]) => HasKey(vote', j, x[1], x[2]) /\ vote'[j] = vote[j]
    BY <1>1, <1>3, <1>8 DEF HasKey
  <2>2. \A j \in Ids : HasKey(vote', j, x[1], x[2]) => HasKey(vote, j, x[1], x[2])
    BY <1>1, <1>3, <1>7, <1>8 DEF HasKey
  <2> QED BY <1>4, <2>1, <2>2, BallotAgrees
<1>9. ASSUME NEW q \in S PROVE BallotIn(vote', q, g) = None
  <2>1. PICK i \in D : HasKey(vote, i, q, g)
    BY <1>6
  <2>2. ASSUME NEW j \in Ids, HasKey(vote', j, q, g) PROVE FALSE
    <3>1. j \notin D
      BY <1>2, <1>7, <2>2 DEF HasKey
    <3>2. HasKey(vote, j, q, g)
      BY <1>1, <2>2, <3>1 DEF HasKey
    <3>3. i \in Ids /\ i # j
      BY <1>1, <3>1
    <3> QED BY <1>4, <2>1, <3>2, <3>3 DEF DistinctKeys, HasKey
  <2> QED BY <2>2, BallotMissing
<1>10. ASSUME NEW q \in S
       PROVE  BallotIn(vote', q, u) =
                IF u \in live /\ BallotIn(vote, q, u) = None THEN BallotIn(vote, q, g)
                ELSE BallotIn(vote, q, u)
  <2>1. PICK i \in D : HasKey(vote, i, q, g)
    BY <1>6
  <2>2. i \in Ids /\ vote[i].question = q /\ vote[i] \in Row
    BY <1>1, <2>1 DEF HasKey
  <2>3. CASE Given(i)
    <3>1. BallotIn(vote, q, u) = None
      BY <1>5, <2>2, <2>3, BallotMissing
    <3>2. HasKey(vote', i, q, u)
      BY <1>5, <2>2, <2>3, IdsAssumption DEF HasKey
    <3>3. BallotIn(vote', q, u) = BallotOf(vote'[i])
      BY <1>4, <2>2, <3>2, BallotFound
    <3>4. BallotIn(vote, q, g) = BallotOf(vote[i])
      BY <1>4, <2>1, <2>2, BallotFound
    <3> QED BY <1>5, <2>3, <3>1, <3>3, <3>4
  <2>4. CASE Gone(i)
    <3>1. u \notin live \/ BallotIn(vote, q, u) # None
      <4>1. ASSUME Voted(q, u) PROVE BallotIn(vote, q, u) # None
        <5>1. PICK j \in Ids : HasKey(vote, j, q, u)
          BY <4>1 DEF Voted
        <5>2. vote[j] \in Row
          BY <5>1 DEF HasKey, TypeInv, TypeOK, Table
        <5>3. BallotIn(vote, q, u) = BallotOf(vote[j])
          BY <1>4, <5>1, BallotFound
        <5> QED BY <5>2, <5>3, BallotIsSomething
      <4> QED BY <2>2, <2>4, <4>1 DEF Gone
    <3>2. \A j \in Ids : HasKey(vote, j, q, u) => HasKey(vote', j, q, u) /\ vote'[j] = vote[j]
      BY <1>1, <1>2 DEF HasKey
    <3>3. ASSUME NEW j \in Ids, HasKey(vote', j, q, u) PROVE HasKey(vote, j, q, u)
      <4>1. CASE j \notin D
        BY <1>1, <3>3, <4>1 DEF HasKey
      <4>2. CASE j \in D
        <5>1. vote[j].question = q /\ vote[j].owner = g /\ vote[j] # None
          BY <1>1, <1>3, <1>7, <3>3, <4>2 DEF HasKey
        <5>2. j = i
          BY <1>4, <2>1, <2>2, <5>1 DEF DistinctKeys, HasKey
        <5> QED BY <2>4, <3>3, <5>2 DEF Gone, HasKey
      <4> QED BY <4>1, <4>2
    <3>4. BallotIn(vote', q, u) = BallotIn(vote, q, u)
      BY <1>4, <3>2, <3>3, BallotAgrees
    <3> QED BY <3>1, <3>4
  <2> QED BY <1>1, <2>3, <2>4
<1>11. \A q \in S : BallotNow[<<q, g>>] = BallotIn(vote, q, g) /\ BallotNow[<<q, g>>] # None
  <2> SUFFICES ASSUME NEW q \in S
               PROVE  BallotNow[<<q, g>>] = BallotIn(vote, q, g) /\ BallotNow[<<q, g>>] # None
    OBVIOUS
  <2>1. PICK i \in D : HasKey(vote, i, q, g)
    BY <1>6
  <2>2. BallotIn(vote, q, g) = BallotOf(vote[i]) /\ vote[i] \in Row
    BY <1>1, <1>4, <2>1, BallotFound
  <2>3. <<q, g>> \in Slots /\ <<q, g>>[1] = q /\ <<q, g>>[2] = g
    BY <1>2, <1>6 DEF Slots
  <2>4. BallotNow[<<q, g>>] = BallotIn(vote, q, g)
    BY <2>3, BallotNowIs
  <2> QED BY <2>2, <2>4, BallotIsSomething
<1>12. BallotNow' = [x \in Slots |->
          IF x[1] \notin S THEN BallotNow[x]
          ELSE IF x[2] = g THEN None
          ELSE IF x[2] = u /\ u \in live /\ BallotNow[x] = None THEN BallotNow[<<x[1], g>>]
          ELSE BallotNow[x]]
  <2>1. ASSUME NEW x \in Slots
        PROVE  BallotIn(vote', x[1], x[2]) =
                  IF x[1] \notin S THEN BallotNow[x]
                  ELSE IF x[2] = g THEN None
                  ELSE IF x[2] = u /\ u \in live /\ BallotNow[x] = None THEN BallotNow[<<x[1], g>>]
                  ELSE BallotNow[x]
    <3>1. BallotNow[x] = BallotIn(vote, x[1], x[2])
      BY BallotNowIs
    <3>2. CASE x[1] \notin S \/ x[2] \notin {g, u}
      BY <1>8, <3>1, <3>2
    <3>3. CASE x[1] \in S /\ x[2] = g
      BY <1>9, <3>3
    <3>4. CASE x[1] \in S /\ x[2] = u
      BY <1>2, <1>10, <1>11, <3>1, <3>4
    <3> QED BY <3>2, <3>3, <3>4
  <2> QED BY <2>1, BallotNowIs
<1>13. Ledger!Merge(g, u, S)
  BY <1>1, <1>11, <1>12, LedgerSlots DEF Ledger!Merge
<1>14. S \in SUBSET Questions
  BY <1>6
<1> QED
  BY <1>1, <1>13, <1>14 DEF Ledger!Next

LEMMA LedgerStep ==
    ASSUME TypeInv, IsolationInv, OwnerInv, HandlersInv, MergesInv, [Next]_vars, DistinctKeys(vote)'
    PROVE  [Ledger!Next]_Ledger!vars
<1>1. CASE UNCHANGED <<live, vote>>
  BY <1>1, LedgerStutters
<1>2. ASSUME NEW r \in Requests, Step(r) PROVE [Ledger!Next]_Ledger!vars
  <2>1. KindAt(r)
    BY DEF HandlersInv
  <2> QED BY <1>1, <1>2, <2>1, CommittedBy, VoteIsCast, MergeIsOne, WithdrawalIsOne
<1> QED
  BY <1>1, <1>2, NextIsStep DEF vars

\* With one merge of a guest at a time, the requests together implement the atomic
\* ledger: whatever a transaction does before its commit is invisible, and
\* its commit is one vote, one merge or one withdrawal.
THEOREM RefinesLedger == Spec /\ []NoRivalMerges => ActsAsLedger
<1>1. IsolationInv' => DistinctKeys(vote)'
  BY DEF IsolationInv
<1>2. TypeInv /\ IsolationInv /\ IsolationInv' /\ OwnerInv /\ HandlersInv /\ MergesInv /\ [Next]_vars
        => [Ledger!Next]_Ledger!vars
  BY <1>1, LedgerStep
<1> QED
  BY <1>2, LedgerInit, TypeInit, TypeStep, IsolationInit, IsolationStep, OwnerInit, OwnerStep,
     HandlersInit, HandlersStep, MergesInit, MergesStep, PTL DEF Spec, ActsAsLedger, Ledger!Spec

----------------------------------------------------------------------------
(* The ballot a client is told was recorded                                *)
(*                                                                         *)
(* Votes on one row overlap freely here.  An UPDATE sets what differs from *)
(* the values loaded and leaves what another vote has put there meanwhile, *)
(* so option and reason are followed apart: each is the one sent, the one  *)
(* loaded, which is then the same, or the one of a rival.                  *)

Senders(r) == {r} \cup rivals[r]

\* The row of voter r, in a table, has what r or a rival sent; what r has
\* loaded or a rival sent; what r has written is its own or was there.
AsSent(t, r) ==
    LET row == t[mem[r].row]
    IN row # None => /\ \E o \in Senders(r) : row.option = req[o].option
                     /\ \E o \in Senders(r) : row.reason = req[o].reason
AsLoaded(t, r) ==
    LET row == t[mem[r].row]
    IN row # None => /\ row.option = mem[r].option \/ \E o \in rivals[r] : row.option = req[o].option
                     /\ row.reason = mem[r].reason \/ \E o \in rivals[r] : row.reason = req[o].reason

\* Each column of row a is the one of request x or the one of row b.
Overlays(a, x, b) ==
    a # None => /\ a.option = x.option \/ (b # None /\ a.option = b.option)
                /\ a.reason = x.reason \/ (b # None /\ a.reason = b.reason)

BallotOK(r) ==
    LET i == mem[r].row
    IN /\ pc[r] = "save" /\ i # None => AsLoaded(vote, r)
       /\ pc[r] = "flushed" /\ i \notin dirty[r] => AsSent(vote, r)
       /\ pc[r] = "flushed" /\ i \in dirty[r] => AsSent(draft, r) /\ Overlays(draft[i], req[r], vote[i])
       /\ pc[r] = "refresh" => AsSent(vote, r)

\* A rival has committed, and what it sent no longer changes.
RivalsOK ==
    /\ rivals \in [Requests -> SUBSET Requests]
    /\ \A r \in Requests : \A o \in rivals[r] : pc[o] \in {"refresh", "done"}

BallotsInv == RivalsOK /\ \A r \in Requests : BallotOK(r)

Recorded == rivals' = [r \in Requests |-> rivals[r] \cup {o \in Requests \ {r} : Overtakes(o, r)}]

LEMMA CommittedIsOver ==
    ASSUME TypeInv, NEW r \in Requests, Step(r), pc[r] \in {"refresh", "done"}
    PROVE  pc'[r] = "done" /\ req'[r] = req[r]
<1>1. CASE Die(r) \/ BreakDeadlock(r)
  BY <1>1, RaiseEffect DEF Die, BreakDeadlock, TypeInv
<1>2. CASE RefreshVote(r)
  BY <1>2, RefreshVoteEffect
<1> QED
  BY <1>1, <1>2
     DEF Step, Arrive, Serve, VoteArrives, MigrateArrives, WithdrawArrives, LookUpVote, InsertVote,
         ChangeVote, CommitVote, ListGuestVotes, ListAccountVotes, DropOne, BeginMoves, MoveOne,
         CommitMigration, DeleteAccount

LEMMA FlushedCommits ==
    ASSUME TypeInv, NEW r \in Requests, Step(r), pc[r] = "flushed"
    PROVE  CommitVote(r) \/ Reverts(r)
<1>1. CASE Die(r) \/ BreakDeadlock(r)
  BY <1>1, RaiseEffect DEF Die, BreakDeadlock, TypeInv
<1> QED
  BY <1>1
     DEF Step, Arrive, Serve, VoteArrives, MigrateArrives, WithdrawArrives, LookUpVote, InsertVote,
         ChangeVote, RefreshVote, ListGuestVotes, ListAccountVotes, DropOne, BeginMoves, MoveOne,
         CommitMigration, DeleteAccount

\* Rivals stay, and so does what they have sent.
LEMMA RivalsKept ==
    ASSUME TypeInv, HandlersInv, RivalsOK, Recorded, UNCHANGED vars \/ \E r \in Requests : Step(r)
    PROVE  /\ RivalsOK'
           /\ \A o \in Requests : \A p \in rivals[o] : p \in rivals'[o] /\ req'[p] = req[p]
<1>1. ASSUME NEW p \in Requests, pc[p] \in {"refresh", "done"}
      PROVE  pc'[p] \in {"refresh", "done"} /\ req'[p] = req[p]
  <2>1. CASE UNCHANGED vars
    BY <1>1, <2>1 DEF vars
  <2>2. ASSUME NEW r \in Requests, Step(r)
        PROVE  pc'[p] \in {"refresh", "done"} /\ req'[p] = req[p]
    <3>1. CASE p = r
      BY <1>1, <2>2, <3>1, CommittedIsOver
    <3>2. CASE p # r
      <4>1. Frame(r)
        BY <2>2, StepEffect DEF HandlersInv
      <4> QED BY <1>1, <3>2, <4>1 DEF Frame
    <3> QED BY <3>1, <3>2
  <2> QED BY <2>1, <2>2
<1>2. ASSUME NEW o \in Requests
      PROVE  rivals'[o] = rivals[o] \cup {p \in Requests \ {o} : Overtakes(p, o)}
  BY DEF Recorded
<1>3. ASSUME NEW o \in Requests, NEW p \in Requests, Overtakes(p, o)
      PROVE  pc'[p] = "refresh"
  BY <1>3, CommitVoteEffect DEF Overtakes
<1>4. rivals' \in [Requests -> SUBSET Requests]
  <2>1. \A o \in Requests : rivals[o] \cup {p \in Requests \ {o} : Overtakes(p, o)} \in SUBSET Requests
    BY DEF RivalsOK
  <2> QED BY <2>1 DEF Recorded
<1>5. ASSUME NEW o \in Requests, NEW p \in rivals'[o]
      PROVE  pc'[p] \in {"refresh", "done"}
  <2>1. CASE p \in rivals[o]
    BY <1>1, <2>1 DEF RivalsOK
  <2>2. CASE p \in Requests /\ Overtakes(p, o)
    BY <1>3, <2>2
  <2> QED BY <1>2, <1>5, <2>1, <2>2
<1>6. ASSUME NEW o \in Requests, NEW p \in rivals[o]
      PROVE  p \in rivals'[o] /\ req'[p] = req[p]
  BY <1>1, <1>2, <1>6 DEF RivalsOK
<1> QED
  BY <1>4, <1>5, <1>6 DEF RivalsOK

\* A voter's row under the steps of others: unchanged while it locks it; or
\* with a vote's columns over its own, and then the vote is a rival.
LEMMA OtherBallotKept ==
    ASSUME TypeInv, IsolationInv, HandlersInv, BallotsInv, Recorded, NEW r \in Requests, Step(r),
           NEW o \in Requests \ {r}
    PROVE  BallotOK(o)'
<1> DEFINE i == mem[o].row
           Same(a, b) == a # None => b # None /\ a.option = b.option /\ a.reason = b.reason
<1>a. KindAt(r) /\ VoterOK(r) /\ MergeWrites(r) /\ KindAt(o) /\ VoterOK(o) /\ BallotOK(o) /\ BallotOK(r)
  BY DEF HandlersInv, BallotsInv
<1>b. Frame(r) /\ TableEffect(r)
  BY <1>a, StepEffect
<1>c. /\ pc'[o] = pc[o] /\ mem'[o] = mem[o] /\ req'[o] = req[o] /\ dirty'[o] = dirty[o]
      /\ dirty[r] \cap dirty[o] = {}
  BY <1>b DEF Frame, IsolationInv, LocksExclusive
<1>d. /\ \A p \in rivals[o] : p \in rivals'[o] /\ req'[p] = req[p]
      /\ \A p \in Senders(o) : p \in Senders(o)' /\ req'[p] = req[p]
  BY <1>c, RivalsKept DEF BallotsInv, Senders
<1>e. CASE ~(pc[o] \in {"save", "flushed", "refresh"} /\ i # None)
  BY <1>a, <1>c, <1>e DEF BallotOK, VoterOK
<1>f. CASE pc[o] \in {"save", "flushed", "refresh"} /\ i # None
  <2>1. i \in Ids
    BY <1>f, MemoryFields DEF TypeInv
  <2>2. i \in dirty[o] => draft'[i] = draft[i] /\ vote'[i] = vote[i]
    <3> SUFFICES ASSUME i \in dirty[o] PROVE draft'[i] = draft[i] /\ vote'[i] = vote[i]
      OBVIOUS
    <3>1. i \notin dirty[r]
      BY <1>c
    <3>2. ASSUME NEW j \in Ids, NEW row, Writes(r, j, row) PROVE draft'[i] = draft[i] /\ vote'[i] = vote[i]
      BY <2>1, <3>2 DEF Writes, Holders
    <3>3. ASSUME Removes(req[r].user) PROVE draft'[i] = draft[i] /\ vote'[i] = vote[i]
      BY <2>1, <3>3 DEF Removes
    <3> QED BY <1>b, <2>1, <3>1, <3>2, <3>3 DEF TableEffect, Quiet, Publishes, Reverts
  <2>3. \/ Same(vote'[i], vote[i])
        \/ r \in rivals'[o] /\ req'[r] = req[r] /\ Overlays(vote'[i], req[r], vote[i])
    <3>1. CASE pc[r] = "flushed" /\ CommitVote(r)
      <4>1. Publishes(r) /\ req'[r] = req[r]
        BY <3>1, CommitVoteEffect
      <4>2. CASE i \notin dirty[r]
        BY <2>1, <4>1, <4>2 DEF Publishes
      <4>3. CASE i \in dirty[r]
        <5>1. mem[r].row = i
          BY <1>a, <3>1, <4>3 DEF VoterOK
        <5>2. vote'[i] = draft[i] /\ Overlays(draft[i], req[r], vote[i])
          BY <1>a, <2>1, <3>1, <4>1, <4>3, <5>1 DEF Publishes, BallotOK
        <5>3. Overtakes(r, o)
          BY <1>f, <3>1, <4>3 DEF Overtakes, InFlight
        <5>4. r \in rivals'[o]
          BY <5>3 DEF Recorded
        <5> QED BY <4>1, <5>2, <5>4
      <4> QED BY <4>2, <4>3
    <3>2. CASE pc[r] = "flushed" /\ Reverts(r)
      BY <3>2 DEF Reverts
    <3>3. CASE pc[r] # "flushed"
      <4>1. CASE Publishes(r) /\ pc[r] = "move"
        BY <1>a, <2>1, <4>1 DEF Publishes, MergeWrites, SameBallot
      <4>2. CASE Removes(req[r].user)
        BY <2>1, <4>2 DEF Removes
      <4>3. CASE vote' = vote
        BY <4>3
      <4> QED BY <1>b, <3>3, <4>1, <4>2, <4>3 DEF TableEffect, Quiet, Writes, Reverts
    <3> QED BY <3>1, <3>2, <3>3, FlushedCommits
  <2>4. r \in rivals'[o] => r \in Senders(o)'
    BY DEF Senders
  <2>5. pc[o] = "save" => AsLoaded(vote, o)'
    <3> SUFFICES ASSUME pc[o] = "save" PROVE AsLoaded(vote, o)'
      OBVIOUS
    <3>1. AsLoaded(vote, o)
      BY <1>a, <1>f DEF BallotOK
    <3> QED BY <1>c, <1>d, <2>3, <3>1 DEF AsLoaded, Overlays
  <2>6. AsSent(vote, o) => AsSent(vote, o)'
    BY <1>c, <1>d, <2>3, <2>4 DEF AsSent, Overlays
  <2>7. i \in dirty[o] /\ AsSent(draft, o) => AsSent(draft, o)'
    BY <1>c, <1>d, <2>2 DEF AsSent
  <2> QED BY <1>a, <1>c, <1>f, <2>2, <2>5, <2>6, <2>7 DEF BallotOK
<1> QED
  BY <1>e, <1>f

LEMMA OwnBallotKept ==
    ASSUME TypeInv, IsolationInv, HandlersInv, BallotsInv, Recorded, NEW r \in Requests, Step(r)
    PROVE  BallotOK(r)'
<1>a. KindAt(r) /\ VoterOK(r) /\ BallotOK(r)
  BY DEF HandlersInv, BallotsInv
<1>b. ASSUME pc'[r] \notin {"save", "flushed", "refresh"} PROVE BallotOK(r)'
  BY <1>b DEF BallotOK
<1>c. ASSUME req'[r] = req[r]
      PROVE  \A p \in Senders(r) : p \in Senders(r)' /\ req'[p] = req[p]
  BY <1>c, RivalsKept DEF BallotsInv, Senders
<1>1. ASSUME VoteArrives(r) \/ MigrateArrives(r) \/ WithdrawArrives(r) PROVE BallotOK(r)'
  BY <1>1, <1>b, VoteArrivesEffect, MigrateArrivesEffect, WithdrawArrivesEffect
<1>2. ASSUME LookUpVote(r) PROVE BallotOK(r)'
  <2>1. Quiet /\ pc[r] = "lookup"
    BY <1>2, LookUpVoteEffect
  <2>2. CASE pc'[r] = "done"
    BY <1>b, <2>2
  <2>3. CASE pc'[r] = "save" /\ mem'[r] = mem[r]
    BY <1>a, <2>1, <2>3 DEF VoterOK, BallotOK
  <2>4. CASE /\ pc'[r] = "save"
             /\ \E i \in Ids : /\ HasKey(vote, i, req[r].question, mem[r].owner)
                               /\ mem'[r].row = i /\ mem'[r].option = vote[i].option
                               /\ mem'[r].reason = vote[i].reason
    <3>1. AsLoaded(vote, r)'
      BY <2>1, <2>4 DEF Quiet, AsLoaded
    <3> QED BY <2>4, <3>1 DEF BallotOK
  <2> QED BY <1>2, <2>2, <2>3, <2>4, LookUpVoteEffect
<1>3. ASSUME InsertVote(r) PROVE BallotOK(r)'
  <2>1. CASE pc'[r] = "done"
    BY <1>b, <2>1
  <2>2. CASE /\ \E row \in Row : Writes(r, r, row) /\ Inserts(r, r, row)
             /\ pc'[r] = "flushed" /\ mem'[r].row = r
    <3>1. PICK row \in Row : Writes(r, r, row) /\ Inserts(r, r, row)
      BY <2>2
    <3>2. row.option = req[r].option /\ row.reason = req[r].reason
      BY <3>1 DEF Inserts
    <3>3. req'[r] = req[r]
      BY <1>3, <1>a, InsertVoteEffect
    <3>4. r \in dirty'[r] /\ draft'[r] = row
      BY <3>1 DEF Writes
    <3>5. AsSent(draft, r)'
      BY <2>2, <3>2, <3>3, <3>4 DEF AsSent, Senders
    <3>6. Overlays(draft'[r], req'[r], vote'[r])
      BY <3>2, <3>3, <3>4 DEF Overlays
    <3> QED BY <2>2, <3>4, <3>5, <3>6 DEF BallotOK
  <2> QED BY <1>3, <1>a, <2>1, <2>2, InsertVoteEffect
<1>4. ASSUME ChangeVote(r) PROVE BallotOK(r)'
  <2> DEFINE i == mem[r].row
  <2>1. pc[r] = "save" /\ i \in Ids /\ i # None /\ req'[r] = req[r] /\ mem'[r] = mem[r]
    BY <1>4, <1>a, ChangeVoteEffect, IdsAssumption
  <2>2. AsLoaded(vote, r) /\ dirty[r] = {}
    BY <1>a, <2>1 DEF BallotOK, KindAt
  <2>3. CASE pc'[r] = "done"
    BY <1>b, <2>3
  <2>4. CASE Quiet /\ pc'[r] = "flushed" /\ req[r].option = mem[r].option /\ req[r].reason = mem[r].reason
    <3>1. vote'[i] = vote[i] /\ dirty'[r] = {}
      BY <2>2, <2>4 DEF Quiet
    <3>2. AsSent(vote, r)
      BY <2>2, <2>4 DEF AsLoaded, AsSent, Senders
    <3>3. AsSent(vote, r)'
      BY <1>c, <2>1, <3>1, <3>2 DEF AsSent
    <3> QED BY <2>4, <3>1, <3>3 DEF BallotOK
  <2>5. CASE (\E row \in Row : Writes(r, i, row) /\ Changes(r, i, row)) /\ pc'[r] = "flushed"
    <3>1. PICK row \in Row : Writes(r, i, row) /\ Changes(r, i, row)
      BY <2>5
    <3>2. draft[i] \in Row /\ draft[i] # None /\ row = WithNewBallot(draft[i], req[r], mem[r])
      BY <2>1, <3>1 DEF Changes, TypeInv, TypeOK, Table
    <3>3. draft[i] = vote[i]
      <4>1. \A o \in Requests : i \notin dirty[o]
        BY <2>2, <3>1 DEF Writes, Holders
      <4> QED BY <2>1, <4>1 DEF IsolationInv, CleanIsCommitted
    <3>4. /\ row.option = IF req[r].option # mem[r].option THEN req[r].option ELSE draft[i].option
          /\ row.reason = IF req[r].reason # mem[r].reason THEN req[r].reason ELSE draft[i].reason
      BY <3>2 DEF WithNewBallot, Row
    <3>5. draft'[i] = row /\ i \in dirty'[r] /\ vote'[i] = vote[i]
      BY <3>1 DEF Writes
    <3>6. /\ \E o \in Senders(r) : row.option = req[o].option
          /\ \E o \in Senders(r) : row.reason = req[o].reason
      BY <2>2, <3>2, <3>3, <3>4 DEF AsLoaded, Senders
    <3>7. AsSent(draft, r)'
      BY <1>c, <2>1, <3>5, <3>6 DEF AsSent
    <3>8. Overlays(row, req[r], vote[i])
      BY <3>2, <3>3, <3>4 DEF Overlays
    <3> QED BY <2>1, <2>5, <3>5, <3>7, <3>8 DEF BallotOK
  <2> QED BY <1>4, <1>a, <2>3, <2>4, <2>5, ChangeVoteEffect
<1>5. ASSUME CommitVote(r) PROVE BallotOK(r)'
  <2> DEFINE i == mem[r].row
  <2>1. Publishes(r) /\ pc[r] = "flushed" /\ pc'[r] = "refresh" /\ mem'[r] = mem[r] /\ req'[r] = req[r]
    BY <1>5, CommitVoteEffect
  <2>2. i \in Ids
    BY <1>a, <2>1, MemoryFields DEF VoterOK, TypeInv
  <2>3. AsSent(vote, r)'
    <3>1. CASE i \in dirty[r]
      <4>1. vote'[i] = draft[i] /\ AsSent(draft, r)
        BY <1>a, <2>1, <2>2, <3>1 DEF Publishes, BallotOK
      <4> QED BY <1>c, <2>1, <4>1 DEF AsSent
    <3>2. CASE i \notin dirty[r]
      <4>1. vote'[i] = vote[i] /\ AsSent(vote, r)
        BY <1>a, <2>1, <2>2, <3>2 DEF Publishes, BallotOK
      <4> QED BY <1>c, <2>1, <4>1 DEF AsSent
    <3> QED BY <3>1, <3>2
  <2> QED BY <2>1, <2>3 DEF BallotOK
<1>6. ASSUME RefreshVote(r) \/ ListGuestVotes(r) \/ ListAccountVotes(r) \/ BeginMoves(r) PROVE BallotOK(r)'
  BY <1>6, <1>b, RefreshVoteEffect, ListGuestVotesEffect, ListAccountVotesEffect, BeginMovesEffect
<1>7. ASSUME DropOne(r) PROVE BallotOK(r)'
  BY <1>7, <1>a, <1>b, DropOneEffect
<1>8. ASSUME MoveOne(r) PROVE BallotOK(r)'
  BY <1>8, <1>a, <1>b, MoveOneEffect
<1>9. ASSUME CommitMigration(r) \/ DeleteAccount(r) PROVE BallotOK(r)'
  BY <1>9, <1>a, <1>b, CommitMigrationEffect, DeleteAccountEffect
<1>10. ASSUME Die(r) \/ BreakDeadlock(r) PROVE BallotOK(r)'
  BY <1>10, <1>b, RaiseEffect DEF Die, BreakDeadlock, TypeInv
<1> QED
  BY <1>1, <1>2, <1>3, <1>4, <1>5, <1>6, <1>7, <1>8, <1>9, <1>10 DEF Step, Arrive, Serve

LEMMA BallotsInit == OverlapInit => BallotsInv
BY DEF OverlapInit, Init, BallotsInv, RivalsOK, BallotOK

LEMMA BallotsStep ==
    TypeInv /\ IsolationInv /\ HandlersInv /\ BallotsInv /\ [OverlapNext]_overlapVars => BallotsInv'
<1> SUFFICES ASSUME TypeInv, IsolationInv, HandlersInv, BallotsInv, [OverlapNext]_overlapVars
             PROVE  BallotsInv'
  OBVIOUS
<1>1. CASE UNCHANGED overlapVars
  BY <1>1 DEF overlapVars, vars, BallotsInv, RivalsOK, BallotOK, AsSent, AsLoaded, Overlays, Senders
<1>2. CASE OverlapNext
  <2>1. Recorded /\ (UNCHANGED vars \/ \E r \in Requests : Step(r))
    BY <1>2, NextIsStep DEF OverlapNext, Recorded
  <2>2. RivalsOK' /\ \A o \in Requests : \A p \in rivals[o] : p \in rivals'[o] /\ req'[p] = req[p]
    BY <2>1, RivalsKept DEF BallotsInv
  <2>3. CASE UNCHANGED vars
    <3>1. ASSUME NEW o \in Requests PROVE BallotOK(o)'
      <4>1. BallotOK(o)
        BY DEF BallotsInv
      <4>2. \A p \in Senders(o) : p \in Senders(o)'
        BY <2>2 DEF Senders
      <4> QED BY <2>2, <2>3, <4>1, <4>2 DEF vars, BallotOK, AsSent, AsLoaded, Overlays
    <3> QED BY <2>2, <3>1 DEF BallotsInv
  <2>4. ASSUME NEW r \in Requests, Step(r) PROVE BallotsInv'
    <3>1. \A o \in Requests : BallotOK(o)'
      BY <2>1, <2>4, OtherBallotKept, OwnBallotKept
    <3> QED BY <2>2, <3>1 DEF BallotsInv
  <2> QED BY <2>1, <2>3, <2>4
<1> QED
  BY <1>1, <1>2

LEMMA AnswerTellsTheBallot ==
    ASSUME TypeInv, BallotsInv, NEW r \in Requests, RefreshVote(r), answer'[r] = "ok"
    PROVE  LET row == vote[mem[r].row]
               senders == {r} \cup rivals[r]
           IN /\ \E o \in senders : row.option = req[o].option
              /\ \E o \in senders : row.reason = req[o].reason
<1>1. pc[r] = "refresh" /\ vote[mem[r].row] # None
  BY DEF RefreshVote, Respond, TypeInv, TypeOK
<1> QED
  BY <1>1 DEF BallotsInv, BallotOK, AsSent, Senders

\* Whatever votes on one row overlap, and whatever merges, withdrawals and
\* rollbacks rewrite rows between its steps: a client that is told its vote was
\* recorded finds the option and the reason it sent, each unless a vote on the
\* same row that was committed meanwhile sent the one that is there.
THEOREM BallotIsOfItsSenders == OverlapSpec => BallotStoredAsSent
<1>1. TypeInv /\ BallotsInv /\ [OverlapNext]_overlapVars =>
        [\A r \in Requests : RefreshVote(r) /\ answer'[r] = "ok" =>
          LET row == vote[mem[r].row]
              senders == {r} \cup rivals[r]
          IN /\ \E o \in senders : row.option = req[o].option
             /\ \E o \in senders : row.reason = req[o].reason]_overlapVars
  BY AnswerTellsTheBallot
<1>2. [OverlapNext]_overlapVars => [Next]_vars
  BY DEF OverlapNext, overlapVars
<1>3. OverlapInit => Init
  BY DEF OverlapInit
<1> QED
  BY <1>1, <1>2, <1>3, TypeInit, TypeStep, IsolationInit, IsolationStep, HandlersInit, HandlersStep,
     BallotsInit, BallotsStep, PTL DEF OverlapSpec, BallotStoredAsSent
=============================================================================
