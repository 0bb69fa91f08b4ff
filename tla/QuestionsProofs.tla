-------------------------- MODULE QuestionsProofs --------------------------
(***************************************************************************)
(* Types, LikesAsAsked and DetailSound of Questions, for any number of     *)
(* users, guests, options and requests.                                    *)
(*                                                                         *)
(* The argument for the likes is about a request to unlike that found a row: either the  *)
(* row is still the user's, and then the delete leaves the user without a  *)
(* like, since there is one row at most, or it was removed meanwhile, and  *)
(* then the user was without a like at that moment.                        *)
(*                                                                         *)
(* The detail needs sums: the counts of the options add up to the number   *)
(* of votes, and rounding each share is off by half a unit at most.  Both  *)
(* are shown element by element along the order in which the library's     *)
(* fold picks them.                                                        *)
(***************************************************************************)
EXTENDS Questions, FiniteSetTheorems, WellFoundedInduction, TLAPS

OneRowPerUser == \A k, l \in likes : k.user = l.user => k = l

Working == {"look", "write", "count"}

LikeInv(r) ==
    /\ pc[r] # "idle" => who[r] \in Participants
    /\ kind[r] \in LikeKinds =>
        /\ pc[r] \in Working \cup {"idle", "done"}
        /\ pc[r] # "done" => answer[r] = "none"
        /\ pc[r] \in Working => Standing(who[r], likes) \in seen[r]
        /\ pc[r] = "write" /\ kind[r] = "unlike" =>
             \/ "unlike" \in seen[r]
             \/ \E l \in likes : l.user = who[r] /\ l.id = mem[r].row
        /\ pc[r] = "count" => kind[r] \in seen[r]
        /\ answer[r] = "ok" \/ (answer[r] = "error" /\ who[r] \in members) => kind[r] \in seen[r]

IInv ==
    /\ TypeOK /\ IsFiniteSet(likes) /\ OneRowPerUser
    /\ \A r \in Requests : LikeInv(r)

----------------------------------------------------------------------------
\* The three local updates of a handler keep the types of what they assign.
LEMMA RespondTyped ==
    ASSUME TypeOK, NEW r \in Requests, NEW a \in {"ok", "unauthorized", "error"}, Respond(r, a)
    PROVE  /\ pc' \in [Requests -> Steps]
           /\ answer' \in [Requests -> {"none", "ok", "unauthorized", "error"}]
  BY DEF TypeOK, Respond, GoTo, Steps

LEMMA GoToTyped ==
    ASSUME TypeOK, NEW r \in Requests, NEW s \in Steps, GoTo(r, s)
    PROVE  pc' \in [Requests -> Steps]
  BY DEF TypeOK, GoTo

\* Remember assigns one field and keeps the others.
LEMMA RememberRow ==
    ASSUME TypeOK, NEW r \in Requests, NEW row \in Ids \cup {None}, Remember(r, "row", row)
    PROVE  mem' \in [Requests -> Memory] /\ mem'[r].row = row
  <1>1. mem \in [Requests -> Memory] /\ mem[r] \in Memory
    BY DEF TypeOK
  <1>2. [mem[r] EXCEPT !["row"] = row] \in Memory /\ [mem[r] EXCEPT !["row"] = row].row = row
    BY <1>1 DEF Memory
  <1> QED BY <1>1, <1>2 DEF Remember

LEMMA RememberVote ==
    ASSUME TypeOK, NEW r \in Requests,
           NEW v \in [option : Options, reason : Reasons] \cup {None}, Remember(r, "vote", v)
    PROVE  mem' \in [Requests -> Memory]
  <1>1. mem \in [Requests -> Memory] /\ mem[r] \in Memory
    BY DEF TypeOK
  <1>2. [mem[r] EXCEPT !["vote"] = v] \in Memory
    BY <1>1 DEF Memory
  <1> QED BY <1>1, <1>2 DEF Remember

LEMMA RememberOptions ==
    ASSUME TypeOK, NEW r \in Requests, NEW f \in [Options -> Nat], Remember(r, "options", f)
    PROVE  mem' \in [Requests -> Memory]
  <1>1. mem \in [Requests -> Memory] /\ mem[r] \in Memory
    BY DEF TypeOK
  <1>2. [mem[r] EXCEPT !["options"] = f] \in Memory
    BY <1>1 DEF Memory
  <1> QED BY <1>1, <1>2 DEF Remember

LEMMA RememberReasons ==
    ASSUME TypeOK, NEW r \in Requests, NEW f \in [Reasons -> Nat], Remember(r, "reasons", f)
    PROVE  mem' \in [Requests -> Memory]
  <1>1. mem \in [Requests -> Memory] /\ mem[r] \in Memory
    BY DEF TypeOK
  <1>2. [mem[r] EXCEPT !["reasons"] = f] \in Memory
    BY <1>1 DEF Memory
  <1> QED BY <1>1, <1>2 DEF Remember

LEMMA RememberLikes ==
    ASSUME TypeOK, NEW r \in Requests, NEW n \in Nat, Remember(r, "likes", n)
    PROVE  mem' \in [Requests -> Memory]
  <1>1. mem \in [Requests -> Memory] /\ mem[r] \in Memory
    BY DEF TypeOK
  <1>2. [mem[r] EXCEPT !["likes"] = n] \in Memory
    BY <1>1 DEF Memory
  <1> QED BY <1>1, <1>2 DEF Remember

\* What is remembered of one request leaves the others' memory alone.
LEMMA RememberOnly ==
    ASSUME TypeOK, NEW r \in Requests, NEW x \in Requests, x # r,
           NEW f, NEW v, Remember(r, f, v)
    PROVE  mem'[x] = mem[x]
  BY DEF TypeOK, Remember

\* The two ghosts keep their types, and Watch records what a request at work sees.
LEMMA WatchSees ==
    ASSUME TypeOK, Watch
    PROVE  /\ seen' \in [Requests -> SUBSET LikeKinds]
           /\ moved' \in [Requests -> SUBSET {"own", "others"}]
           /\ \A x \in Requests :
                /\ seen[x] \subseteq seen'[x]
                /\ kind[x] \in LikeKinds /\ pc[x] \in Working =>
                     Standing(who[x], likes') \in seen'[x]
  <1>1. seen' \in [Requests -> SUBSET LikeKinds]
    BY DEF TypeOK, Watch, Standing, LikeKinds
  <1>2. moved' \in [Requests -> SUBSET {"own", "others"}]
    BY DEF TypeOK, Watch
  <1>3. ASSUME NEW x \in Requests
        PROVE  /\ seen[x] \subseteq seen'[x]
               /\ kind[x] \in LikeKinds /\ pc[x] \in Working =>
                    Standing(who[x], likes') \in seen'[x]
    BY DEF TypeOK, Watch, LikeKinds, Working
  <1> QED BY <1>1, <1>2, <1>3

\* A request that does not move keeps its invariant, whatever is liked meanwhile:
\* if the row it found goes away, it sees its user without a like.
LEMMA Bystander ==
    ASSUME IInv, NEW x \in Requests, kind' = kind, members' \subseteq members,
           pc'[x] = pc[x], who'[x] = who[x], mem'[x] = mem[x], answer'[x] = answer[x],
           likes \subseteq likes' \/ likes' \subseteq likes,
           seen[x] \subseteq seen'[x],
           kind[x] \in LikeKinds /\ pc[x] \in Working => Standing(who[x], likes') \in seen'[x]
    PROVE  LikeInv(x)'
  <1>1. LikeInv(x) /\ OneRowPerUser
    BY DEF IInv
  <1> SUFFICES ASSUME kind[x] \in LikeKinds PROVE LikeInv(x)'
    BY <1>1 DEF LikeInv
  <1>2. ASSUME pc[x] = "write", kind[x] = "unlike", "unlike" \notin seen'[x]
        PROVE  \E l \in likes' : l.user = who[x] /\ l.id = mem[x].row
    <2>1. PICK l \in likes : l.user = who[x] /\ l.id = mem[x].row
      BY <1>1, <1>2 DEF LikeInv
    <2>2. PICK k \in likes' : k.user = who[x]
      BY <1>2 DEF Standing, Working
    <2>3. CASE likes \subseteq likes'
      BY <2>1, <2>3
    <2>4. CASE likes' \subseteq likes
      BY <1>1, <2>1, <2>2, <2>4 DEF OneRowPerUser
    <2> QED BY <2>3, <2>4
  <1> QED BY <1>1, <1>2 DEF LikeInv

\* The request of a step aside, a step of a handler leaves all invariants alone.
LEMMA OthersKeep ==
    ASSUME IInv, NEW r \in Requests, LikeInv(r)', kind' = kind, members' \subseteq members,
           \A x \in Requests \ {r} :
               /\ pc'[x] = pc[x] /\ who'[x] = who[x]
               /\ mem'[x] = mem[x] /\ answer'[x] = answer[x],
           likes \subseteq likes' \/ likes' \subseteq likes,
           \A x \in Requests \ {r} :
               /\ seen[x] \subseteq seen'[x]
               /\ kind[x] \in LikeKinds /\ pc[x] \in Working =>
                    Standing(who[x], likes') \in seen'[x]
    PROVE  \A x \in Requests : LikeInv(x)'
  <1> SUFFICES ASSUME NEW x \in Requests, x # r PROVE LikeInv(x)'
    OBVIOUS
  <1> QED BY Bystander

\* A set of likes that stays leaves the facts about it.
LEMMA LikesKept ==
    ASSUME IInv, likes' = likes
    PROVE  IsFiniteSet(likes)' /\ OneRowPerUser'
  BY DEF IInv, OneRowPerUser

----------------------------------------------------------------------------
\* One lemma for each action.
LEMMA BeginKeeps ==
    ASSUME IInv, NEW r \in Requests, NEW p \in Participants, Begin(r, p)
    PROVE  IInv'
  <1>1. TypeOK /\ LikeInv(r) /\ likes' = likes /\ members' = members /\ kind' = kind
    BY DEF IInv, Begin
  <1>2. TypeOK'
    <2>1. pc' \in [Requests -> Steps]
          /\ answer' \in [Requests -> {"none", "ok", "unauthorized", "error"}]
      BY <1>1 DEF Begin, TypeOK, Respond, GoTo, Steps
    <2>2. who' \in [Requests -> Participants \cup {None}]
      BY <1>1 DEF Begin, TypeOK
    <2>3. seen' \in [Requests -> SUBSET LikeKinds]
      BY <1>1 DEF Begin, TypeOK, Standing, LikeKinds
    <2> QED BY <1>1, <2>1, <2>2, <2>3 DEF Begin, TypeOK
  <1>3. LikeInv(r)'
    <2>1. CASE pc'[r] = "look"
      BY <1>1, <2>1 DEF Begin, TypeOK, LikeInv, Working, LikeKinds, GoTo, Respond, Standing
    <2>2. CASE pc'[r] # "look"
      <3>1. pc'[r] = "done" /\ answer'[r] = "unauthorized" /\ who'[r] \in Participants
        BY <1>1, <2>2 DEF Begin, TypeOK, GoTo, Respond
      <3> QED BY <1>1, <3>1 DEF LikeInv, Working
    <2> QED BY <2>1, <2>2
  <1>4. \A x \in Requests : LikeInv(x)'
    <2>1. ASSUME NEW x \in Requests, x # r
          PROVE  /\ pc'[x] = pc[x] /\ who'[x] = who[x] /\ mem'[x] = mem[x]
                 /\ answer'[x] = answer[x] /\ seen'[x] = seen[x]
      BY <1>1, <2>1 DEF Begin, TypeOK, GoTo, Respond
    <2>2. ASSUME NEW x \in Requests, kind[x] \in LikeKinds, pc[x] \in Working
          PROVE  Standing(who[x], likes') \in seen[x]
      BY <1>1, <2>2 DEF IInv, LikeInv
    <2> QED BY <1>1, <1>3, <2>1, <2>2, OthersKeep
  <1> QED BY <1>1, <1>2, <1>4, LikesKept DEF IInv

LEMMA LookForLikeKeeps ==
    ASSUME IInv, NEW r \in Requests, LookForLike(r)
    PROVE  IInv'
  <1>1. /\ TypeOK /\ LikeInv(r) /\ likes' = likes /\ members' = members /\ kind' = kind
        /\ who' = who /\ answer' = answer /\ ballot' = ballot /\ Watch
        /\ pc[r] = "look" /\ kind[r] \in LikeKinds
    BY DEF IInv, LookForLike
  <1>2. PICK row \in Ids \cup {None} :
          /\ IF RowOf(who[r]) = {} THEN row = None ELSE \E l \in RowOf(who[r]) : row = l.id
          /\ Remember(r, "row", row)
          /\ GoTo(r, IF (kind[r] = "like") = (row = None) THEN "write" ELSE "count")
    BY DEF LookForLike
  <1>3. pc'[r] = IF (kind[r] = "like") = (row = None) THEN "write" ELSE "count"
    BY <1>1, <1>2 DEF TypeOK, GoTo
  <1>4. mem' \in [Requests -> Memory] /\ mem'[r].row = row
    BY <1>1, <1>2, RememberRow
  <1>5. TypeOK'
    <2>1. pc' \in [Requests -> Steps]
      BY <1>1, <1>2 DEF TypeOK, GoTo, Steps
    <2> QED BY <1>1, <1>4, <2>1, WatchSees DEF TypeOK
  <1>6. LikeInv(r)'
    <2>1. Standing(who[r], likes) \in seen'[r]
      BY <1>1, WatchSees DEF Working
    <2>2. CASE row = None
      <3>1. \A l \in likes : l.user # who[r]
        BY <1>1, <1>2, <2>2, QuestionAssumption DEF RowOf, TypeOK, Like
      <3>2. "unlike" \in seen'[r]
        BY <2>1, <3>1 DEF Standing
      <3> QED BY <1>1, <1>3, <2>1, <2>2, <3>2 DEF LikeInv, Working, LikeKinds
    <2>3. CASE row # None
      <3>1. PICK l \in likes : l.user = who[r] /\ row = l.id
        BY <1>2, <2>3 DEF RowOf
      <3>2. "like" \in seen'[r]
        BY <2>1, <3>1 DEF Standing
      <3> QED BY <1>1, <1>3, <1>4, <2>1, <2>3, <3>1, <3>2 DEF LikeInv, Working, LikeKinds
    <2> QED BY <2>2, <2>3
  <1>7. \A x \in Requests : LikeInv(x)'
    <2>1. ASSUME NEW x \in Requests, x # r
          PROVE  pc'[x] = pc[x] /\ mem'[x] = mem[x]
      BY <1>1, <1>2, <2>1, RememberOnly DEF TypeOK, GoTo
    <2> QED BY <1>1, <1>6, <2>1, WatchSees, OthersKeep
  <1> QED BY <1>1, <1>5, <1>7, LikesKept DEF IInv

LEMMA InsertLikeKeeps ==
    ASSUME IInv, NEW r \in Requests, InsertLike(r)
    PROVE  IInv'
  <1>1. /\ TypeOK /\ LikeInv(r) /\ members' = members /\ kind' = kind
        /\ who' = who /\ mem' = mem /\ ballot' = ballot /\ Watch
        /\ pc[r] = "write" /\ kind[r] = "like"
    BY DEF IInv, InsertLike
  <1>2. /\ likes \subseteq likes' /\ IsFiniteSet(likes')
        /\ \A l \in likes' : l.user \in members
        /\ likes' \subseteq Like /\ OneRowPerUser'
    <2>1. CASE /\ ~Liked(who[r]) /\ who[r] \in members
               /\ likes' = likes \cup {[id |-> r, user |-> who[r]]}
      <3>1. IsFiniteSet(likes')
        BY <2>1, FS_AddElement DEF IInv
      <3>2. [id |-> r, user |-> who[r]] \in Like
        BY <1>1, <2>1 DEF TypeOK, Like, Ids
      <3> QED BY <1>1, <2>1, <3>1, <3>2 DEF IInv, TypeOK, OneRowPerUser, Liked
    <2>2. CASE likes' = likes
      BY <1>1, <2>2, LikesKept DEF IInv, TypeOK
    <2> QED BY <2>1, <2>2 DEF InsertLike
  <1>3. TypeOK'
    <2>1. pc' \in [Requests -> Steps]
          /\ answer' \in [Requests -> {"none", "ok", "unauthorized", "error"}]
      BY <1>1 DEF InsertLike, TypeOK, Respond, GoTo, Steps
    <2> QED BY <1>1, <1>2, <2>1, WatchSees DEF TypeOK
  <1>4. LikeInv(r)'
    <2>1. Standing(who[r], likes') \in seen'[r]
      BY <1>1, WatchSees DEF Working, LikeKinds
    <2>2. CASE GoTo(r, "count") /\ likes' = likes \cup {[id |-> r, user |-> who[r]]}
               /\ answer' = answer
      <3>1. pc'[r] = "count" /\ answer'[r] = "none"
        BY <1>1, <2>2 DEF TypeOK, GoTo, LikeInv, LikeKinds
      <3>2. [id |-> r, user |-> who[r]] \in likes'
        BY <2>2
      <3>3. Standing(who[r], likes') = "like"
        BY <3>2 DEF Standing
      <3>4. "like" \in seen'[r]
        BY <2>1, <3>3
      <3> QED BY <1>1, <2>1, <3>1, <3>4 DEF LikeInv, Working
    <2>3. CASE (Liked(who[r]) \/ who[r] \notin members) /\ Respond(r, "error") /\ likes' = likes
      <3>1. pc'[r] = "done" /\ answer'[r] = "error"
        BY <1>1, <2>3 DEF TypeOK, GoTo, Respond
      <3>2. Liked(who[r]) => "like" \in seen'[r]
        BY <2>1, <2>3 DEF Standing, Liked
      <3> QED BY <1>1, <2>3, <3>1, <3>2 DEF LikeInv, Working
    <2> QED BY <2>2, <2>3 DEF InsertLike
  <1>5. \A x \in Requests : LikeInv(x)'
    <2>1. ASSUME NEW x \in Requests, x # r
          PROVE  pc'[x] = pc[x] /\ answer'[x] = answer[x]
      BY <1>1, <2>1 DEF InsertLike, TypeOK, GoTo, Respond
    <2> QED BY <1>1, <1>2, <1>4, <2>1, WatchSees, OthersKeep
  <1> QED BY <1>2, <1>3, <1>5 DEF IInv

LEMMA DeleteLikeKeeps ==
    ASSUME IInv, NEW r \in Requests, DeleteLike(r)
    PROVE  IInv'
  <1>1. /\ TypeOK /\ LikeInv(r) /\ members' = members /\ kind' = kind
        /\ who' = who /\ mem' = mem /\ ballot' = ballot /\ answer' = answer /\ Watch
        /\ pc[r] = "write" /\ kind[r] = "unlike" /\ GoTo(r, "count")
        /\ likes' = {l \in likes : l.id # mem[r].row}
    BY DEF IInv, DeleteLike
  <1>2. likes' \subseteq likes /\ IsFiniteSet(likes') /\ OneRowPerUser'
    BY <1>1, FS_Subset DEF IInv, OneRowPerUser
  <1>3. TypeOK'
    <2>1. pc' \in [Requests -> Steps]
      BY <1>1 DEF TypeOK, GoTo, Steps
    <2> QED BY <1>1, <1>2, <2>1, WatchSees DEF TypeOK
  <1>4. LikeInv(r)'
    <2>1. /\ Standing(who[r], likes') \in seen'[r] /\ seen[r] \subseteq seen'[r]
          /\ pc'[r] = "count" /\ answer'[r] = "none"
      BY <1>1, WatchSees DEF TypeOK, GoTo, LikeInv, Working, LikeKinds
    <2>2. "unlike" \in seen'[r]
      <3>1. CASE \E l \in likes : l.user = who[r] /\ l.id = mem[r].row
        <4>1. \A l \in likes' : l.user # who[r]
          BY <1>1, <3>1 DEF IInv, OneRowPerUser
        <4> QED BY <2>1, <4>1 DEF Standing
      <3>2. CASE "unlike" \in seen[r]
        BY <2>1, <3>2
      <3> QED BY <1>1, <3>1, <3>2 DEF LikeInv, LikeKinds
    <2> QED BY <1>1, <2>1, <2>2 DEF LikeInv, Working
  <1>5. \A x \in Requests : LikeInv(x)'
    <2>1. ASSUME NEW x \in Requests, x # r PROVE pc'[x] = pc[x]
      BY <1>1, <2>1 DEF TypeOK, GoTo
    <2> QED BY <1>1, <1>2, <1>4, <2>1, WatchSees, OthersKeep
  <1> QED BY <1>2, <1>3, <1>5 DEF IInv

LEMMA CountLikesKeeps ==
    ASSUME IInv, NEW r \in Requests, CountLikes(r)
    PROVE  IInv'
  <1>1. /\ TypeOK /\ LikeInv(r) /\ likes' = likes /\ members' = members /\ kind' = kind
        /\ who' = who /\ ballot' = ballot /\ Watch /\ pc[r] = "count"
        /\ Remember(r, "likes", Cardinality(likes)) /\ Respond(r, "ok")
    BY DEF IInv, CountLikes
  <1>2. TypeOK'
    <2>1. Cardinality(likes) \in Nat
      BY FS_CardinalityType DEF IInv
    <2>2. mem' \in [Requests -> Memory]
      BY <1>1, <2>1, RememberLikes
    <2> QED BY <1>1, <2>2, RespondTyped, WatchSees DEF TypeOK
  <1>3. LikeInv(r)'
    <2>1. pc'[r] = "done" /\ seen[r] \subseteq seen'[r]
      BY <1>1, WatchSees DEF TypeOK, Respond, GoTo
    <2> QED BY <1>1, <2>1 DEF LikeInv, Working
  <1>4. \A x \in Requests : LikeInv(x)'
    <2>1. ASSUME NEW x \in Requests, x # r
          PROVE  pc'[x] = pc[x] /\ answer'[x] = answer[x] /\ mem'[x] = mem[x]
      BY <1>1, <2>1, RememberOnly DEF TypeOK, Respond, GoTo
    <2> QED BY <1>1, <1>3, <2>1, WatchSees, OthersKeep
  <1> QED BY <1>1, <1>2, <1>4, LikesKept DEF IInv

----------------------------------------------------------------------------
\* The steps of a detail: they only assign what is theirs.
LEMMA DetailStepKeeps ==
    ASSUME IInv, NEW r \in Requests, kind[r] \notin LikeKinds, pc[r] # "idle", likes' = likes,
           members' = members, kind' = kind, who' = who, ballot' = ballot, Watch,
           pc' \in [Requests -> Steps], mem' \in [Requests -> Memory],
           answer' \in [Requests -> {"none", "ok", "unauthorized", "error"}],
           \A x \in Requests \ {r} :
               pc'[x] = pc[x] /\ mem'[x] = mem[x] /\ answer'[x] = answer[x]
    PROVE  IInv'
  <1>1. TypeOK
    BY DEF IInv
  <1>2. TypeOK'
    BY <1>1, WatchSees DEF TypeOK
  <1>3. \A x \in Requests : LikeInv(x)'
    <2>1. LikeInv(r)'
      BY DEF IInv, LikeInv
    <2> QED BY <1>1, <2>1, WatchSees, OthersKeep
  <1> QED BY <1>2, <1>3, LikesKept DEF IInv

\* A request on its way through a detail is not one for a like.
LEMMA InDetail ==
    ASSUME IInv, NEW r \in Requests, pc[r] \in {"like", "options", "reasons", "result"}
    PROVE  kind[r] \notin LikeKinds
  BY DEF IInv, LikeInv, Working

LEMMA ReadVoteKeeps ==
    ASSUME IInv, NEW r \in Requests, ReadVote(r)
    PROVE  IInv'
  <1>1. TypeOK /\ kind[r] \notin LikeKinds /\ pc[r] # "idle"
        /\ Remember(r, "vote", BallotOf(who[r])) /\ answer' = answer
        /\ likes' = likes /\ members' = members /\ kind' = kind /\ who' = who
        /\ ballot' = ballot /\ Watch
    BY DEF IInv, ReadVote, LikeKinds
  <1>2. pc' \in [Requests -> Steps] /\ \A x \in Requests \ {r} : pc'[x] = pc[x]
    BY <1>1 DEF ReadVote, TypeOK, GoTo, Steps
  <1>3. mem' \in [Requests -> Memory]
    <2>1. who[r] \in Participants
      BY DEF IInv, LikeInv, ReadVote, TypeOK
    <2>2. BallotOf(who[r]) \in [option : Options, reason : Reasons] \cup {None}
      BY <1>1, <2>1 DEF TypeOK, BallotOf, Ballots
    <2> QED BY <1>1, <2>2, RememberVote
  <1>4. \A x \in Requests \ {r} : mem'[x] = mem[x]
    BY <1>1, RememberOnly
  <1> QED BY <1>1, <1>2, <1>3, <1>4, DetailStepKeeps DEF TypeOK

LEMMA ReadLikeKeeps ==
    ASSUME IInv, NEW r \in Requests, ReadLike(r)
    PROVE  IInv'
  <1>1. TypeOK /\ kind[r] \notin LikeKinds /\ pc[r] # "idle"
        /\ answer' = answer /\ GoTo(r, "options")
        /\ likes' = likes /\ members' = members /\ kind' = kind /\ who' = who
        /\ ballot' = ballot /\ Watch
    BY InDetail DEF IInv, ReadLike
  <1>2. PICK row \in Ids \cup {None} : Remember(r, "row", row)
    BY DEF ReadLike
  <1>3. pc' \in [Requests -> Steps] /\ \A x \in Requests \ {r} : pc'[x] = pc[x]
    BY <1>1 DEF TypeOK, GoTo, Steps
  <1>4. mem' \in [Requests -> Memory] /\ \A x \in Requests \ {r} : mem'[x] = mem[x]
    BY <1>1, <1>2, RememberRow, RememberOnly
  <1> QED BY <1>1, <1>3, <1>4, DetailStepKeeps DEF TypeOK

\* Any set of votes is counted by a number, for the participants are finitely many.
LEMMA VotesCounted ==
    ASSUME NEW S, S \subseteq Votes
    PROVE  Cardinality(S) \in Nat
  <1>1. S \subseteq Users \cup Guests
    BY DEF Votes, Participants
  <1> QED BY <1>1, FS_Subset, FS_CardinalityType, QuestionAssumption

LEMMA CountVotesKeeps ==
    ASSUME IInv, NEW r \in Requests, CountVotes(r)
    PROVE  IInv'
  <1>1. TypeOK /\ kind[r] \notin LikeKinds /\ pc[r] # "idle"
        /\ answer' = answer /\ GoTo(r, "reasons")
        /\ likes' = likes /\ members' = members /\ kind' = kind /\ who' = who
        /\ ballot' = ballot /\ Watch
        /\ Remember(r, "options", [o \in Options |-> VotesFor(o)])
    BY InDetail DEF IInv, CountVotes
  <1>2. pc' \in [Requests -> Steps] /\ \A x \in Requests \ {r} : pc'[x] = pc[x]
    BY <1>1 DEF TypeOK, GoTo, Steps
  <1>3. [o \in Options |-> VotesFor(o)] \in [Options -> Nat]
    <2>1. ASSUME NEW o \in Options PROVE VotesFor(o) \in Nat
      BY VotesCounted DEF VotesFor
    <2> QED BY <2>1
  <1>4. mem' \in [Requests -> Memory] /\ \A x \in Requests \ {r} : mem'[x] = mem[x]
    BY <1>1, <1>3, RememberOptions, RememberOnly
  <1> QED BY <1>1, <1>2, <1>4, DetailStepKeeps DEF TypeOK

LEMMA CountReasonsKeeps ==
    ASSUME IInv, NEW r \in Requests, CountReasons(r)
    PROVE  IInv'
  <1> DEFINE counts == [s \in Reasons |-> Cardinality({p \in Votes : BallotOf(p).reason = s})]
  <1>1. TypeOK /\ kind[r] \notin LikeKinds /\ pc[r] # "idle"
        /\ answer' = answer /\ GoTo(r, "result")
        /\ likes' = likes /\ members' = members /\ kind' = kind /\ who' = who
        /\ ballot' = ballot /\ Watch /\ Remember(r, "reasons", counts)
    BY InDetail DEF IInv, CountReasons
  <1>2. pc' \in [Requests -> Steps] /\ \A x \in Requests \ {r} : pc'[x] = pc[x]
    BY <1>1 DEF TypeOK, GoTo, Steps
  <1>3. counts \in [Reasons -> Nat]
    <2>1. ASSUME NEW s \in Reasons
          PROVE  Cardinality({p \in Votes : BallotOf(p).reason = s}) \in Nat
      BY VotesCounted
    <2> QED BY <2>1
  <1>4. mem' \in [Requests -> Memory] /\ \A x \in Requests \ {r} : mem'[x] = mem[x]
    <2> HIDE DEF counts
    <2> QED BY <1>1, <1>3, RememberReasons, RememberOnly
  <1> QED BY <1>1, <1>2, <1>4, DetailStepKeeps DEF TypeOK

LEMMA BuildResultKeeps ==
    ASSUME IInv, NEW r \in Requests, BuildResult(r)
    PROVE  IInv'
  <1>1. TypeOK /\ kind[r] \notin LikeKinds /\ pc[r] # "idle"
        /\ mem' = mem
        /\ likes' = likes /\ members' = members /\ kind' = kind /\ who' = who
        /\ ballot' = ballot /\ Watch
        /\ (Respond(r, "error") \/ (GoTo(r, "count") /\ answer' = answer))
    BY InDetail DEF IInv, BuildResult
  <1>2. /\ pc' \in [Requests -> Steps]
        /\ answer' \in [Requests -> {"none", "ok", "unauthorized", "error"}]
        /\ \A x \in Requests \ {r} : pc'[x] = pc[x] /\ answer'[x] = answer[x]
    BY <1>1 DEF TypeOK, GoTo, Respond, Steps
  <1> QED BY <1>1, <1>2, DetailStepKeeps DEF TypeOK

----------------------------------------------------------------------------
LEMMA VotesChangeKeeps ==
    ASSUME IInv, VotesChange
    PROVE  IInv'
  <1>1. TypeOK /\ likes' = likes /\ kind' = kind /\ pc' = pc /\ who' = who /\ mem' = mem
        /\ answer' = answer /\ Watch
    BY DEF IInv, VotesChange, requestVars
  <1>2. members' = members /\ ballot' \in Ballots
    <2>1. CASE \E p \in Participants : Ledger!Cast(Question, p)
      <3>1. PICK p \in Participants : Ledger!Cast(Question, p)
        BY <2>1
      <3>2. PICK b \in [option : Options, reason : Reasons] :
              ballot' = [ballot EXCEPT ![<<Question, p>>] = b]
        BY <3>1 DEF Ledger!Cast, Ledger!Ballots
      <3> QED BY <1>1, <3>1, <3>2 DEF TypeOK, Ballots, Ledger!Cast
    <2>2. CASE \E g \in Guests, u \in Users : Ledger!Merge(g, u, {Question})
      <3>1. PICK g \in Guests, u \in Users : Ledger!Merge(g, u, {Question})
        BY <2>2
      <3>2. ASSUME NEW x \in Ledger!Slots
            PROVE  ballot'[x] \in [option : Options, reason : Reasons] \cup {None}
        <4>1. x \in {Question} \X Participants /\ ballot[x] \in [option : Options, reason : Reasons] \cup {None}
          BY <1>1 DEF TypeOK, Ballots, Ledger!Slots, Ledger!Participants, Participants
        <4>2. ballot[<<x[1], g>>] \in [option : Options, reason : Reasons] \cup {None}
          BY <1>1, <4>1 DEF TypeOK, Ballots, Participants
        <4> QED BY <3>1, <4>1, <4>2 DEF Ledger!Merge
      <3>3. Ledger!Slots = {Question} \X Participants
        BY DEF Ledger!Slots, Ledger!Participants, Participants
      <3> QED BY <3>1, <3>2, <3>3 DEF Ballots, Ledger!Merge
    <2> QED BY <2>1, <2>2 DEF VotesChange
  <1>3. TypeOK'
    BY <1>1, <1>2, WatchSees DEF TypeOK
  <1>4. \A x \in Requests : LikeInv(x)'
    BY <1>1, <1>2, WatchSees, Bystander
  <1> QED BY <1>1, <1>3, <1>4, LikesKept DEF IInv

LEMMA UserWithdrawsKeeps ==
    ASSUME IInv, UserWithdraws
    PROVE  IInv'
  <1>1. TypeOK /\ kind' = kind /\ pc' = pc /\ who' = who /\ mem' = mem
        /\ answer' = answer /\ Watch
    BY DEF IInv, UserWithdraws, requestVars
  <1>2. PICK u \in Users : Ledger!Withdraw(u) /\ likes' = {l \in likes : l.user # u}
    BY DEF UserWithdraws, LikesWithout
  <1>3. members' = members \ {u}
    BY <1>2 DEF Ledger!Withdraw
  <1>4. ballot' \in Ballots
    <2>1. Ledger!Slots = {Question} \X Participants
      BY DEF Ledger!Slots, Ledger!Participants, Participants
    <2> QED BY <1>1, <1>2, <2>1 DEF TypeOK, Ballots, Ledger!Withdraw
  <1>5. likes' \subseteq likes /\ IsFiniteSet(likes') /\ OneRowPerUser'
    BY <1>2, FS_Subset DEF IInv, OneRowPerUser
  <1>6. TypeOK'
    BY <1>1, <1>2, <1>3, <1>4, <1>5, WatchSees DEF TypeOK
  <1>7. \A x \in Requests : LikeInv(x)'
    BY <1>1, <1>3, <1>5, WatchSees, Bystander
  <1> QED BY <1>5, <1>6, <1>7 DEF IInv

LEMMA Inductive ==
    ASSUME IInv, [QuestionsNext]_vars
    PROVE  IInv'
  <1>1. ASSUME NEW r \in Requests, NEW p \in Participants, Begin(r, p) PROVE IInv'
    BY <1>1, BeginKeeps
  <1>2. ASSUME NEW r \in Requests,
               LookForLike(r) \/ InsertLike(r) \/ DeleteLike(r) \/ CountLikes(r)
        PROVE  IInv'
    BY <1>2, LookForLikeKeeps, InsertLikeKeeps, DeleteLikeKeeps, CountLikesKeeps
  <1>3. ASSUME NEW r \in Requests,
               ReadVote(r) \/ ReadLike(r) \/ CountVotes(r) \/ CountReasons(r) \/ BuildResult(r)
        PROVE  IInv'
    BY <1>3, ReadVoteKeeps, ReadLikeKeeps, CountVotesKeeps, CountReasonsKeeps, BuildResultKeeps
  <1>4. CASE UNCHANGED vars
    BY <1>4 DEF vars, IInv, TypeOK, OneRowPerUser, LikeInv, Standing
  <1>5. CASE VotesChange \/ UserWithdraws
    BY <1>5, VotesChangeKeeps, UserWithdrawsKeeps
  <1> QED BY <1>1, <1>2, <1>3, <1>4, <1>5 DEF QuestionsNext, AllDone

LEMMA Initially == QuestionsInit => IInv
  <1> SUFFICES ASSUME QuestionsInit PROVE IInv
    OBVIOUS
  <1>1. PICK S \in SUBSET Users :
          Cardinality(S) <= 1 /\ likes = {[id |-> Stored, user |-> u] : u \in S}
    BY DEF QuestionsInit
  <1>2. likes \subseteq Like /\ (\A l \in likes : l.user \in Users) /\ OneRowPerUser
    BY <1>1 DEF Like, Ids, OneRowPerUser
  <1>3. IsFiniteSet(likes)
    <2>1. IsFiniteSet(S)
      BY FS_Subset, QuestionAssumption
    <2>2. CASE S = {}
      <3>1. likes = {}
        BY <1>1, <2>2
      <3> QED BY <3>1, FS_EmptySet
    <2>3. CASE \E u : S = {u}
      <3>1. PICK u : S = {u}
        BY <2>3
      <3>2. likes = {[id |-> Stored, user |-> u]}
        BY <1>1, <3>1
      <3> QED BY <3>2, FS_Singleton
    <2>4. Cardinality(S) = 0 \/ Cardinality(S) = 1
      BY <1>1, <2>1, FS_CardinalityType
    <2> QED BY <2>1, <2>2, <2>3, <2>4, FS_EmptySet, FS_Singleton
  <1>4. NoMemory \in Memory
    BY DEF NoMemory, Memory
  <1>5. TypeOK
    BY <1>2, <1>4 DEF QuestionsInit, TypeOK, Steps
  <1> QED BY <1>2, <1>3, <1>5 DEF QuestionsInit, IInv, LikeInv, Working

\* Every state keeps the types, with the likes among the accounts there are:
\* set_like, get_question and withdrawals in any order.
THEOREM QuestionsTypeCorrect == QuestionsSpec => []TypeOK
  <1>1. IInv => TypeOK
    BY DEF IInv
  <1> QED BY <1>1, Initially, Inductive, PTL DEF QuestionsSpec

\* A request for a like is answered when the question was as it asked at some
\* moment since it came, for any number of requests of a user: set_like.
THEOREM LikesGranted == QuestionsSpec => []LikesAsAsked
  <1>1. IInv => LikesAsAsked
    BY DEF IInv, LikeInv, LikesAsAsked
  <1> QED BY <1>1, Initially, Inductive, PTL DEF QuestionsSpec

----------------------------------------------------------------------------
(* Sums.  FoldFunction adds the elements of a finite set in an order of its own; *)
(* Adds is the recursion it is defined by, and Sigma its value on a subset.      *)

Pick(T) == CHOOSE y \in T : TRUE
Adds(f, g, S) == g = [T \in SUBSET S |-> IF T = {} THEN 0 ELSE f[Pick(T)] + g[T \ {Pick(T)}]]
SumIn(f, S) == CHOOSE g : Adds(f, g, S)
Sigma(f, T) == SumIn(f, T)[T]

\* What the properties of Questions call FoldFunction(+, 0, f).
Sum(f) == FoldFunction(+, 0, f)

\* The library's sum is that recursion's value.
LEMMA SumIsSigma == ASSUME NEW f PROVE Sum(f) = Sigma(f, DOMAIN f)
  BY Zenon DEF Sum, FoldFunction, FoldFunctionOnSet, MapThenFoldSet, Sigma, SumIn, Adds, Pick

\* Induction over the subsets of a finite set: a least subset outside P, which the
\* well-foundedness of the strict subset order gives, would be in P.
LEMMA OverSubsets ==
    ASSUME NEW S, IsFiniteSet(S), NEW P \in SUBSET SUBSET S,
           \A T \in SUBSET S : (\A U \in SUBSET T : U # T => U \in P) => T \in P
    PROVE  P = SUBSET S
  <1> DEFINE bad == (SUBSET S) \ P
  <1> SUFFICES ASSUME bad # {} PROVE FALSE
    OBVIOUS
  <1>1. IsWellFoundedOn(StrictSubsetOrdering(S), SUBSET S)
    <2>1. FiniteSubsetsOf(S) = SUBSET S
      BY FS_FiniteSubsetsOfFinite
    <2>2. IsWellFoundedOn(StrictSubsetOrdering(S), FiniteSubsetsOf(S))
      BY FS_StrictSubsetOrderingWellFounded
    <2> QED BY ONLY <2>1, <2>2, Zenon
  <1>2. PICK T \in bad : \A U \in bad : <<U, T>> \notin StrictSubsetOrdering(S)
    <2>1. bad \subseteq SUBSET S
      OBVIOUS
    <2> HIDE DEF bad
    <2>2. \E T \in bad : \A U \in bad : <<U, T>> \notin StrictSubsetOrdering(S)
      BY <1>1, <2>1, WFMin
    <2> QED BY <2>2
  <1>3. ASSUME NEW U \in SUBSET T, U # T, U \notin P
        PROVE  FALSE
    <2>1. <<U, T>> \in StrictSubsetOrdering(S)
      BY <1>2, <1>3 DEF StrictSubsetOrdering
    <2> QED BY <1>2, <1>3, <2>1
  <1> QED BY <1>2, <1>3

\* The element that a sum takes next.
LEMMA Picked == ASSUME NEW T, T # {} PROVE Pick(T) \in T
  BY DEF Pick

\* The recursion has one solution at most, its restriction to a subset is the
\* solution there, and it has one.
LEMMA AddsOnce ==
    ASSUME NEW S, IsFiniteSet(S), NEW f, NEW g, NEW h, Adds(f, g, S), Adds(f, h, S)
    PROVE  g = h
  <1> DEFINE P == {T \in SUBSET S : g[T] = h[T]}
  <1>1. ASSUME NEW T \in SUBSET S, \A U \in SUBSET T : U # T => U \in P
        PROVE  T \in P
    <2>1. CASE T = {}
      BY <2>1 DEF Adds
    <2>2. CASE T # {}
      <3>1. T \ {Pick(T)} \in SUBSET T /\ T \ {Pick(T)} # T
        BY <2>2, Picked
      <3>2. g[T \ {Pick(T)}] = h[T \ {Pick(T)}]
        BY <1>1, <3>1
      <3>3. g[T] = f[Pick(T)] + g[T \ {Pick(T)}] /\ h[T] = f[Pick(T)] + h[T \ {Pick(T)}]
        BY <2>2 DEF Adds
      <3> QED BY <3>2, <3>3
    <2> QED BY <2>1, <2>2
  <1>2. P = SUBSET S
    <2> HIDE DEF P
    <2>1. P \in SUBSET SUBSET S
      BY DEF P
    <2> QED BY <1>1, <2>1, OverSubsets
  <1>3. g = [T \in SUBSET S |-> g[T]] /\ h = [T \in SUBSET S |-> h[T]]
    BY DEF Adds
  <1>4. \A T \in SUBSET S : g[T] = h[T]
    BY <1>2
  <1> QED BY <1>3, <1>4

LEMMA AddsWithin ==
    ASSUME NEW S, IsFiniteSet(S), NEW f, NEW g, Adds(f, g, S), NEW T \in SUBSET S
    PROVE  g[T] = Sigma(f, T)
  <1> DEFINE h == [U \in SUBSET T |-> g[U]]
  <1>1. Adds(f, h, T)
    <2>1. ASSUME NEW U \in SUBSET T
          PROVE  h[U] = IF U = {} THEN 0 ELSE f[Pick(U)] + h[U \ {Pick(U)}]
      BY DEF Adds
    <2> QED BY <2>1 DEF Adds
  <1>2. Adds(f, SumIn(f, T), T)
    BY <1>1 DEF SumIn
  <1>3. IsFiniteSet(T)
    BY FS_Subset
  <1>4. SumIn(f, T) = h
    BY <1>1, <1>2, <1>3, AddsOnce
  <1> QED BY <1>4 DEF Sigma

LEMMA AddsAll ==
    ASSUME NEW S, IsFiniteSet(S), NEW f
    PROVE  Adds(f, SumIn(f, S), S)
  <1> DEFINE P == {T \in SUBSET S : Adds(f, SumIn(f, T), T)}
  <1>1. ASSUME NEW T \in SUBSET S, \A U \in SUBSET T : U # T => U \in P
        PROVE  T \in P
    <2> DEFINE g == [U \in SUBSET T |->
                       IF U = {} THEN 0 ELSE f[Pick(U)] + Sigma(f, U \ {Pick(U)})]
    <2>1. ASSUME NEW U \in SUBSET T, U # T
          PROVE  g[U] = Sigma(f, U)
      <3>1. Adds(f, SumIn(f, U), U) /\ IsFiniteSet(U)
        BY <1>1, <2>1, FS_Subset
      <3>2. CASE U = {}
        BY <3>1, <3>2 DEF Adds, Sigma
      <3>3. CASE U # {}
        <4>1. SumIn(f, U)[U] = f[Pick(U)] + SumIn(f, U)[U \ {Pick(U)}]
          BY <3>1, <3>3 DEF Adds
        <4>2. SumIn(f, U)[U \ {Pick(U)}] = Sigma(f, U \ {Pick(U)})
          BY <3>1, AddsWithin
        <4> QED BY <3>3, <4>1, <4>2 DEF Sigma
      <3> QED BY <3>2, <3>3
    <2>2. Adds(f, g, T)
      <3>1. ASSUME NEW U \in SUBSET T, U # {}
            PROVE  g[U] = f[Pick(U)] + g[U \ {Pick(U)}]
        <4>1. U \ {Pick(U)} \in SUBSET T /\ U \ {Pick(U)} # T
          BY <3>1, Picked
        <4> QED BY <2>1, <3>1, <4>1
      <3>2. g = [U \in SUBSET T |-> IF U = {} THEN 0 ELSE f[Pick(U)] + g[U \ {Pick(U)}]]
        BY <3>1
      <3> QED BY <3>2 DEF Adds
    <2> QED BY <2>2 DEF SumIn
  <1>2. P = SUBSET S
    <2> HIDE DEF P
    <2>1. P \in SUBSET SUBSET S
      BY DEF P
    <2> QED BY <1>1, <2>1, OverSubsets
  <1> QED BY <1>2

\* A sum over a finite set: nothing is 0, and one element is added to the rest.
LEMMA SigmaStep ==
    ASSUME NEW S, IsFiniteSet(S), NEW f
    PROVE  /\ Sigma(f, {}) = 0
           /\ \A T \in SUBSET S : T # {} => Sigma(f, T) = f[Pick(T)] + Sigma(f, T \ {Pick(T)})
  <1>1. Adds(f, SumIn(f, S), S)
    BY AddsAll
  <1>2. \A T \in SUBSET S : SumIn(f, S)[T] = Sigma(f, T)
    BY <1>1, AddsWithin
  <1>3. SumIn(f, S)[{}] = 0
    BY <1>1 DEF Adds
  <1>4. ASSUME NEW T \in SUBSET S, T # {}
        PROVE  SumIn(f, S)[T] = f[Pick(T)] + SumIn(f, S)[T \ {Pick(T)}]
    BY <1>1, <1>4 DEF Adds
  <1> QED BY <1>2, <1>3, <1>4

\* What holds of nothing, and of a set when it holds of all but the picked
\* element, holds of every subset.
LEMMA OneByOne ==
    ASSUME NEW S, IsFiniteSet(S), NEW P \in SUBSET SUBSET S, {} \in P,
           \A T \in SUBSET S : T # {} /\ T \ {Pick(T)} \in P => T \in P
    PROVE  P = SUBSET S
  <1>1. ASSUME NEW T \in SUBSET S, \A U \in SUBSET T : U # T => U \in P
        PROVE  T \in P
    BY <1>1, Picked
  <1> QED BY <1>1, OverSubsets

\* A sum of natural numbers is one.
LEMMA SigmaNat ==
    ASSUME NEW S, IsFiniteSet(S), NEW f \in [S -> Nat]
    PROVE  \A T \in SUBSET S : Sigma(f, T) \in Nat
  <1> DEFINE P == {T \in SUBSET S : Sigma(f, T) \in Nat}
  <1>1. {} \in P
    BY SigmaStep
  <1>2. ASSUME NEW T \in SUBSET S, T # {}, T \ {Pick(T)} \in P
        PROVE  T \in P
    <2>1. f[Pick(T)] \in Nat
      BY <1>2, Picked
    <2> QED BY <1>2, <2>1, SigmaStep
  <1>3. P = SUBSET S
    <2> HIDE DEF P
    <2>1. P \in SUBSET SUBSET S
      BY DEF P
    <2> QED BY <1>1, <1>2, <2>1, OneByOne
  <1> QED BY <1>3

\* The sizes of the parts of a finite set add up to its size.
LEMMA SigmaCounts ==
    ASSUME NEW S, IsFiniteSet(S), NEW V, IsFiniteSet(V), NEW key, NEW f,
           f = [x \in S |-> Cardinality({p \in V : key[p] = x})]
    PROVE  \A T \in SUBSET S : Sigma(f, T) = Cardinality({p \in V : key[p] \in T})
  <1> DEFINE With(T) == {p \in V : key[p] \in T}
             P == {T \in SUBSET S : Sigma(f, T) = Cardinality(With(T))}
  <1>1. {} \in P
    <2>1. With({}) = {}
      OBVIOUS
    <2> QED BY <2>1, SigmaStep, FS_EmptySet
  <1>2. ASSUME NEW T \in SUBSET S, T # {}, T \ {Pick(T)} \in P
        PROVE  T \in P
    <2> DEFINE x == Pick(T)
               A == {p \in V : key[p] = x}
               B == With(T \ {x})
    <2>1. x \in T
      BY <1>2, Picked
    <2>2. A \cup B = With(T) /\ A \cap B = {} /\ A \in SUBSET V /\ B \in SUBSET V
      BY <2>1
    <2>3. f[x] = Cardinality(A) /\ Sigma(f, T \ {x}) = Cardinality(B)
      BY <1>2, <2>1
    <2>4. Sigma(f, T) = f[x] + Sigma(f, T \ {x})
      BY <1>2, SigmaStep
    <2>5. Cardinality(With(T)) = Cardinality(A) + Cardinality(B)
      <3> HIDE DEF A, B, With, x
      <3>1. IsFiniteSet(A) /\ IsFiniteSet(B) /\ Cardinality(A) \in Nat /\ Cardinality(B) \in Nat
        BY <2>2, FS_Subset, FS_CardinalityType
      <3>2. Cardinality(A \cup B) = Cardinality(A) + Cardinality(B) - Cardinality(A \cap B)
        BY <3>1, FS_Union
      <3>3. Cardinality(A \cap B) = 0
        BY <2>2, FS_EmptySet
      <3>4. Cardinality(A \cup B) = Cardinality(A) + Cardinality(B)
        BY <3>1, <3>2, <3>3
      <3> QED BY <2>2, <3>4
    <2> QED BY <2>3, <2>4, <2>5
  <1>3. P = SUBSET S
    <2> HIDE DEF P
    <2>1. P \in SUBSET SUBSET S
      BY DEF P
    <2> QED BY <1>1, <1>2, <2>1, OneByOne
  <1> QED BY <1>3

\* Rounding is off by half a unit at most, written without the division.
LEMMA RoundedError ==
    ASSUME NEW c \in Nat, NEW t \in Nat, t > 0
    PROVE  /\ Rounded(c, t) \in Nat
           /\ 2 * t * Rounded(c, t) <= 2000 * c + t
           /\ 2000 * c - t <= 2 * t * Rounded(c, t)
  <1> DEFINE a == 2000 * c + t
             b == 2 * t
             q == a \div b
  <1>1. a \in Nat /\ b \in Nat /\ b > 0
    OBVIOUS
  <1>2. q \in Int /\ a = b * q + (a % b) /\ (a % b) \in 0..(b - 1)
    <2> HIDE DEF a, b
    <2> QED BY <1>1
  <1>3. q >= 0
    <2> SUFFICES ASSUME q <= -1 PROVE FALSE
      BY <1>2
    <2> HIDE DEF a, b, q
    <2>1. b * q <= b * (-1)
      BY <1>1, <1>2
    <2> QED BY <1>1, <1>2, <2>1
  <1>4. b * q = 2 * t * q
    OBVIOUS
  <1> HIDE DEF q
  <1> QED BY <1>2, <1>3, <1>4 DEF Rounded, q

\* The errors add up to half a unit for each element at most.
LEMMA SigmaRounded ==
    ASSUME NEW S, IsFiniteSet(S), NEW f \in [S -> Nat], NEW t \in Nat, t > 0, NEW h,
           h = [x \in S |-> Rounded(f[x], t)]
    PROVE  \A T \in SUBSET S :
             /\ Sigma(h, T) \in Nat
             /\ 2 * t * Sigma(h, T) <= 2000 * Sigma(f, T) + t * Cardinality(T)
             /\ 2000 * Sigma(f, T) <= 2 * t * Sigma(h, T) + t * Cardinality(T)
  <1> DEFINE P == {T \in SUBSET S :
             /\ 2 * t * Sigma(h, T) <= 2000 * Sigma(f, T) + t * Cardinality(T)
             /\ 2000 * Sigma(f, T) <= 2 * t * Sigma(h, T) + t * Cardinality(T)}
  <1>1. h \in [S -> Nat]
    BY RoundedError
  <1>2. {} \in P
    BY SigmaStep, FS_EmptySet
  <1>3. ASSUME NEW T \in SUBSET S, T # {}, T \ {Pick(T)} \in P
        PROVE  T \in P
    <2> DEFINE x == Pick(T)
               U == T \ {x}
               n == Cardinality(U)
               sf == Sigma(f, U)
               sh == Sigma(h, U)
    <2>1. x \in T /\ x \in S /\ f[x] \in Nat /\ h[x] = Rounded(f[x], t) /\ h[x] \in Nat
      BY <1>1, <1>3, Picked
    <2>2. Sigma(f, T) = f[x] + sf /\ Sigma(h, T) = h[x] + sh
      BY <1>3, SigmaStep
    <2>3. n \in Nat /\ Cardinality(T) = n + 1
      <3>1. IsFiniteSet(T) /\ IsFiniteSet(U)
        BY FS_Subset
      <3>2. U \cup {x} = T /\ x \notin U
        BY <2>1
      <3> HIDE DEF U, x
      <3>3. Cardinality(U) \in Nat
        BY <3>1, FS_CardinalityType
      <3>4. Cardinality(U \cup {x}) = Cardinality(U) + 1
        BY <3>1, <3>2, FS_AddElement
      <3> QED BY <3>2, <3>3, <3>4
    <2>4. sf \in Nat /\ sh \in Nat
      BY <1>1, SigmaNat
    <2>5. 2 * t * sh <= 2000 * sf + t * n /\ 2000 * sf <= 2 * t * sh + t * n
      BY <1>3
    <2>6. 2 * t * h[x] <= 2000 * f[x] + t /\ 2000 * f[x] - t <= 2 * t * h[x]
      <3> DEFINE c == f[x]
                 v == h[x]
      <3>1. c \in Nat /\ v = Rounded(c, t)
        BY <2>1
      <3> HIDE DEF c, v
      <3>2. 2 * t * v <= 2000 * c + t /\ 2000 * c - t <= 2 * t * v
        BY <3>1, RoundedError
      <3> QED BY <3>2 DEF c, v
    <2> HIDE DEF n, sf, sh, U, x
    <2>7. t * (n + 1) = t * n + t
      BY <2>3
    <2>8. 2 * t * (h[x] + sh) = 2 * t * h[x] + 2 * t * sh
      BY <2>1, <2>4
    <2>9. /\ 2 * t * (h[x] + sh) <= 2000 * (f[x] + sf) + t * (n + 1)
          /\ 2000 * (f[x] + sf) <= 2 * t * (h[x] + sh) + t * (n + 1)
      <3> DEFINE a == 2 * t * h[x]
                 b == 2 * t * sh
                 c == t * n
      <3>1. a \in Int /\ b \in Int /\ c \in Int
        BY <2>1, <2>3, <2>4
      <3>2. /\ a <= 2000 * f[x] + t /\ 2000 * f[x] - t <= a
            /\ b <= 2000 * sf + c /\ 2000 * sf <= b + c
        BY <2>5, <2>6
      <3> HIDE DEF a, b, c
      <3>3. a + b <= 2000 * (f[x] + sf) + (c + t) /\ 2000 * (f[x] + sf) <= a + b + (c + t)
        BY <2>1, <2>4, <3>1, <3>2
      <3> QED BY <2>7, <2>8, <3>3 DEF a, b, c
    <2> QED BY <2>2, <2>3, <2>9
  <1>4. P = SUBSET S
    <2> HIDE DEF P
    <2>1. P \in SUBSET SUBSET S
      BY DEF P
    <2> QED BY <1>2, <1>3, <2>1, OneByOne
  <1>5. \A T \in SUBSET S : Sigma(h, T) \in Nat
    BY <1>1, SigmaNat
  <1> QED BY <1>4, <1>5

\* The percentages of an answer with t votes are off 100.0 by half a tenth of a
\* percent for each of them at most.
LEMMA PercentagesAddUp ==
    ASSUME NEW S, IsFiniteSet(S), NEW f \in [S -> Nat], NEW t \in Nat, t > 0, Sum(f) = t,
           NEW h, h = [x \in S |-> Rounded(f[x], t)]
    PROVE  2 * (Sum(h) - 1000) \in (- Cardinality(S))..Cardinality(S)
  <1> DEFINE n == Cardinality(S)
             s == Sigma(h, S)
  <1>1. n \in Nat
    BY FS_CardinalityType
  <1>2. Sigma(f, S) = t /\ Sum(h) = s
    BY SumIsSigma
  <1>3. s \in Nat /\ 2 * t * s <= 2000 * t + t * n /\ 2000 * t <= 2 * t * s + t * n
    BY <1>2, SigmaRounded
  <1> HIDE DEF n, s
  <1>4. t * (2 * s) <= t * (2000 + n) /\ t * 2000 <= t * (2 * s + n)
    BY <1>1, <1>3
  <1>5. 2 * s <= 2000 + n
    <2> SUFFICES ASSUME 2 * s >= 2000 + n + 1 PROVE FALSE
      BY <1>1, <1>3
    <2>1. t * (2 * s) >= t * (2000 + n + 1)
      BY <1>1, <1>3
    <2>2. t * (2000 + n + 1) = t * (2000 + n) + t
      BY <1>1
    <2> DEFINE a == t * (2 * s)
               b == t * (2000 + n)
    <2>3. a \in Int /\ b \in Int /\ a <= b /\ a >= b + t
      BY <1>1, <1>3, <1>4, <2>1, <2>2
    <2> HIDE DEF a, b
    <2> QED BY <2>3
  <1>6. 2000 <= 2 * s + n
    <2> SUFFICES ASSUME 2000 >= 2 * s + n + 1 PROVE FALSE
      BY <1>1, <1>3
    <2>1. t * 2000 >= t * (2 * s + n + 1)
      BY <1>1, <1>3
    <2> QED BY <1>1, <1>3, <1>4, <2>1
  <1> QED BY <1>1, <1>2, <1>3, <1>5, <1>6 DEF n

----------------------------------------------------------------------------
(* Detail and results *)

AddsUp(m) ==
    /\ Sum(m.reasons) = Sum(m.options)
    /\ \A f \in {OptionShares(m), ReasonShares(m)} :
         2 * (Sum(f) - 1000) \in (- Cardinality(DOMAIN f))..Cardinality(DOMAIN f)

VotesWith(s) == Cardinality({p \in Votes : BallotOf(p).reason = s})

\* A caller's vote stays what was read until its own ballot moves, and is in the
\* counts; and the options' counts are those of the votes there are while no
\* ballot moves, so that the reasons, counted next, agree with them.
DetailInv(r) == kind[r] = "detail" =>
    /\ pc[r] # "write" /\ answer[r] # "error" /\ (pc[r] # "done" => answer[r] = "none")
    /\ pc[r] \in {"like", "options", "reasons"} /\ "own" \notin moved[r] =>
         BallotOf(who[r]) = mem[r].vote
    /\ pc[r] = "reasons" /\ moved[r] = {} => mem[r].options = [o \in Options |-> VotesFor(o)]
    /\ mem[r].vote # None /\ "own" \notin moved[r] =>
         /\ pc[r] \in {"reasons", "result", "count"} \/ answer[r] = "ok" =>
              mem[r].options[mem[r].vote.option] > 0
         /\ pc[r] \in {"result", "count"} \/ answer[r] = "ok" =>
              mem[r].reasons[mem[r].vote.reason] > 0
    /\ (pc[r] \in {"result", "count"} \/ answer[r] = "ok") /\ mem[r].vote # None /\ moved[r] = {} =>
         AddsUp(mem[r])

DInv == IInv /\ \A r \in Requests : DetailInv(r)

\* Every vote has one of the options and one of the reasons, and so their counts
\* have the same sum, which is above 0 when there is a vote.
LEMMA CountsAddUp ==
    ASSUME ballot \in Ballots, Votes # {}, NEW m,
           m.options = [o \in Options |-> VotesFor(o)], m.reasons = [s \in Reasons |-> VotesWith(s)]
    PROVE  AddsUp(m)
  <1> DEFINE t == Cardinality(Votes)
             byOption == [p \in Participants |-> BallotOf(p).option]
             byReason == [p \in Participants |-> BallotOf(p).reason]
  <1>1. Votes \in SUBSET Participants /\ IsFiniteSet(Votes)
    <2>1. Votes \in SUBSET (Users \cup Guests)
      BY DEF Votes, Participants
    <2> QED BY <2>1, FS_Subset, QuestionAssumption DEF Participants
  <1>2. t \in Nat /\ t > 0
    BY <1>1, FS_CardinalityType, FS_EmptySet
  <1>3. \A p \in Votes : BallotOf(p).option \in Options /\ BallotOf(p).reason \in Reasons
    BY DEF Ballots, Votes, BallotOf
  <1>4. Sum(m.options) = t
    <2>1. m.options = [o \in Options |-> Cardinality({p \in Votes : byOption[p] = o})]
      <3>1. ASSUME NEW o \in Options
            PROVE  {p \in Votes : byOption[p] = o} = {p \in Votes : BallotOf(p).option = o}
        BY <1>1
      <3> QED BY <3>1 DEF VotesFor
    <2>2. {p \in Votes : byOption[p] \in Options} = Votes
      BY <1>1, <1>3
    <2> HIDE DEF byOption
    <2>3. Sigma(m.options, Options) = Cardinality({p \in Votes : byOption[p] \in Options})
      BY <1>1, <2>1, SigmaCounts, QuestionAssumption
    <2> QED BY <2>2, <2>3, SumIsSigma
  <1>5. Sum(m.reasons) = t
    <2>1. m.reasons = [s \in Reasons |-> Cardinality({p \in Votes : byReason[p] = s})]
      <3>1. ASSUME NEW s \in Reasons
            PROVE  {p \in Votes : byReason[p] = s} = {p \in Votes : BallotOf(p).reason = s}
        BY <1>1
      <3> QED BY <3>1 DEF VotesWith
    <2>2. {p \in Votes : byReason[p] \in Reasons} = Votes
      BY <1>1, <1>3
    <2> HIDE DEF byReason
    <2>3. Sigma(m.reasons, Reasons) = Cardinality({p \in Votes : byReason[p] \in Reasons})
      BY <1>1, <2>1, SigmaCounts, QuestionAssumption
    <2> QED BY <2>2, <2>3, SumIsSigma
  <1>6. m.options \in [Options -> Nat] /\ m.reasons \in [Reasons -> Nat]
    BY VotesCounted DEF VotesFor, VotesWith
  <1>7. Total(m) = t
    BY <1>4 DEF Total, Sum
  <1> HIDE DEF t
  <1>8. OptionShares(m) = [o \in Options |-> Rounded(m.options[o], t)]
    BY <1>2, <1>7 DEF OptionShares, Share
  <1>9. ReasonShares(m) = [s \in Reasons |-> Rounded(m.reasons[s], t)]
    BY <1>2, <1>7 DEF ReasonShares, Share
  <1>10. 2 * (Sum(OptionShares(m)) - 1000) \in (- Cardinality(Options))..Cardinality(Options)
    BY <1>2, <1>4, <1>6, <1>8, PercentagesAddUp, QuestionAssumption
  <1>11. 2 * (Sum(ReasonShares(m)) - 1000) \in (- Cardinality(Reasons))..Cardinality(Reasons)
    BY <1>2, <1>5, <1>6, <1>9, PercentagesAddUp, QuestionAssumption
  <1>12. DOMAIN OptionShares(m) = Options /\ DOMAIN ReasonShares(m) = Reasons
    BY <1>8, <1>9
  <1> QED BY <1>4, <1>5, <1>10, <1>11, <1>12 DEF AddsUp

\* No share is undefined, whatever was counted: a total of 0 is asked about first.
LEMMA SharesDefined ==
    ASSUME NEW m \in Memory
    PROVE  /\ \A o \in Options : OptionShares(m)[o] # Undefined
           /\ \A s \in Reasons : ReasonShares(m)[s] # Undefined
  <1>1. m.options \in [Options -> Nat] /\ m.reasons \in [Reasons -> Nat]
    BY DEF Memory
  <1>2. Total(m) \in Nat
    <2>1. Sigma(m.options, Options) \in Nat
      BY <1>1, SigmaNat, QuestionAssumption
    <2>2. Sum(m.options) = Sigma(m.options, Options)
      BY <1>1, SumIsSigma
    <2> QED BY <2>1, <2>2 DEF Total, Sum
  <1>3. ASSUME NEW c \in Nat PROVE Share(c, Total(m)) \in Nat
    <2> DEFINE t == Total(m)
    <2>1. t \in Nat /\ (t # 0 => t > 0)
      BY <1>2
    <2> HIDE DEF t
    <2>2. Share(c, t) \in Nat
      BY <1>3, <2>1, RoundedError DEF Share
    <2> QED BY <2>2 DEF t
  <1>4. ASSUME NEW o \in Options PROVE OptionShares(m)[o] \in Nat
    BY <1>1, <1>3 DEF OptionShares
  <1>5. ASSUME NEW s \in Reasons PROVE ReasonShares(m)[s] \in Nat
    BY <1>1, <1>3 DEF ReasonShares
  <1> QED BY <1>4, <1>5 DEF Undefined

\* A caller that has a vote is counted for its option and for its reason.
LEMMA OwnVoteCounts ==
    ASSUME NEW p \in Participants, BallotOf(p) # None
    PROVE  VotesFor(BallotOf(p).option) > 0 /\ VotesWith(BallotOf(p).reason) > 0
  <1> DEFINE A == {x \in Votes : BallotOf(x).option = BallotOf(p).option}
             B == {x \in Votes : BallotOf(x).reason = BallotOf(p).reason}
  <1>1. p \in A /\ p \in B
    BY DEF Votes, BallotOf
  <1>2. A \in SUBSET (Users \cup Guests) /\ B \in SUBSET (Users \cup Guests)
    BY DEF Votes, Participants
  <1>3. VotesFor(BallotOf(p).option) = Cardinality(A) /\ VotesWith(BallotOf(p).reason) = Cardinality(B)
    BY DEF VotesFor, VotesWith
  <1> HIDE DEF A, B
  <1>4. IsFiniteSet(A) /\ IsFiniteSet(B)
    BY <1>2, FS_Subset, QuestionAssumption
  <1>5. Cardinality(A) \in Nat /\ Cardinality(B) \in Nat /\ Cardinality(A) # 0 /\ Cardinality(B) # 0
    BY <1>1, <1>4, FS_CardinalityType, FS_EmptySet
  <1> QED BY <1>3, <1>5

\* What Watch records of the ballots while a detail is under way.
LEMMA WatchMoves ==
    ASSUME TypeOK, Watch, ballot' \in Ballots, NEW x \in Requests, kind[x] = "detail"
    PROVE  /\ moved[x] \subseteq moved'[x]
           /\ pc[x] = "done" => moved'[x] = moved[x]
           /\ pc[x] \notin {"idle", "look", "done"} =>
                /\ who[x] \in Participants /\ "own" \notin moved'[x] =>
                     ballot'[<<Question, who[x]>>] = BallotOf(who[x])
                /\ moved'[x] = {} => ballot' = ballot
  <1>1. moved'[x] = IF pc[x] \in {"idle", "look", "done"} THEN moved[x]
                    ELSE moved[x] \cup {IF p = who[x] THEN "own" ELSE "others" :
                             p \in {p \in Participants : ballot'[<<Question, p>>] # BallotOf(p)}}
    BY DEF Watch
  <1>2. ASSUME pc[x] \notin {"idle", "look", "done"}, who[x] \in Participants, "own" \notin moved'[x]
        PROVE  ballot'[<<Question, who[x]>>] = BallotOf(who[x])
    BY <1>1, <1>2
  <1>3. ASSUME pc[x] \notin {"idle", "look", "done"}, moved'[x] = {}
        PROVE  ballot' = ballot
    <2>1. ASSUME NEW p \in Participants, ballot'[<<Question, p>>] # BallotOf(p)
          PROVE  FALSE
      <3>1. (IF p = who[x] THEN "own" ELSE "others") \in moved'[x]
        BY <1>1, <1>3, <2>1
      <3> QED BY <1>3, <3>1
    <2>2. \A p \in Participants : ballot'[<<Question, p>>] = ballot[<<Question, p>>]
      BY <2>1 DEF BallotOf
    <2> QED BY <2>2 DEF TypeOK, Ballots
  <1> QED BY <1>1, <1>2, <1>3

\* A request that does not move keeps its part, whatever happens to the ballots.
LEMMA DetailWaits ==
    ASSUME IInv, TypeOK', NEW x \in Requests, DetailInv(x), kind' = kind,
           pc'[x] = pc[x], who'[x] = who[x], mem'[x] = mem[x], answer'[x] = answer[x],
           Watch \/ (moved'[x] = moved[x] /\ ballot' = ballot)
    PROVE  DetailInv(x)'
  <1> SUFFICES ASSUME kind[x] = "detail" PROVE DetailInv(x)'
    BY DEF DetailInv
  <1>1. TypeOK /\ (pc[x] # "idle" => who[x] \in Participants) /\ ballot' \in Ballots
    BY DEF IInv, LikeInv, TypeOK
  <1>2. /\ moved[x] \subseteq moved'[x]
        /\ pc[x] = "done" => moved'[x] = moved[x]
        /\ pc[x] \in {"like", "options", "reasons"} /\ "own" \notin moved'[x] =>
             ballot'[<<Question, who[x]>>] = BallotOf(who[x])
        /\ pc[x] = "reasons" /\ moved'[x] = {} => ballot' = ballot
    <2>1. CASE Watch
      BY <1>1, <2>1, WatchMoves
    <2>2. CASE moved'[x] = moved[x] /\ ballot' = ballot
      BY <2>2 DEF BallotOf
    <2> QED BY <2>1, <2>2
  <1>3. pc[x] \in {"like", "options", "reasons"} /\ "own" \notin moved'[x] =>
             BallotOf(who[x])' = mem[x].vote
    <2> SUFFICES ASSUME pc[x] \in {"like", "options", "reasons"}, "own" \notin moved'[x]
                 PROVE  ballot'[<<Question, who'[x]>>] = mem[x].vote
      BY DEF BallotOf
    <2>1. BallotOf(who[x]) = mem[x].vote
      BY <1>2 DEF DetailInv
    <2> QED BY <1>2, <2>1
  <1>4. pc[x] = "reasons" /\ moved'[x] = {} => mem[x].options = [o \in Options |-> VotesFor(o)]'
    <2> SUFFICES ASSUME pc[x] = "reasons", moved'[x] = {}
                 PROVE  mem[x].options = [o \in Options |-> VotesFor(o)]'
      OBVIOUS
    <2>1. ballot' = ballot /\ moved[x] = {}
      BY <1>2
    <2>2. mem[x].options = [o \in Options |-> VotesFor(o)]
      BY <2>1 DEF DetailInv
    <2>3. [o \in Options |-> VotesFor(o)]' = [o \in Options |-> VotesFor(o)]
      BY <2>1 DEF VotesFor, Votes, BallotOf
    <2> QED BY <2>2, <2>3
  <1>5. AddsUp(mem[x])' <=> AddsUp(mem[x])
    OBVIOUS
  <1> QED
    <2>1. "own" \notin moved'[x] => "own" \notin moved[x]
      BY <1>2
    <2>2. moved'[x] = {} => moved[x] = {}
      BY <1>2
    <2> QED BY <1>3, <1>4, <1>5, <2>1, <2>2 DEF DetailInv

\* The request of a step aside, a step of a handler leaves all details alone.
LEMMA OtherDetails ==
    ASSUME DInv, TypeOK', NEW r \in Requests, DetailInv(r)', kind' = kind,
           \A x \in Requests \ {r} :
               /\ pc'[x] = pc[x] /\ who'[x] = who[x]
               /\ mem'[x] = mem[x] /\ answer'[x] = answer[x]
               /\ Watch \/ (moved'[x] = moved[x] /\ ballot' = ballot)
    PROVE  \A x \in Requests : DetailInv(x)'
  <1> SUFFICES ASSUME NEW x \in Requests, x # r PROVE DetailInv(x)'
    OBVIOUS
  <1> QED BY DetailWaits DEF DInv

\* Whether an answer adds up is a matter of its counts.
LEMMA SameCounts ==
    ASSUME NEW m, NEW n, m.options = n.options, m.reasons = n.reasons, AddsUp(m)
    PROVE  AddsUp(n)
  <1>1. Total(m) = Total(n)
    <2>1. Total(m) = Sum(m.options) /\ Total(n) = Sum(n.options)
      BY DEF Total, Sum
    <2> QED BY <2>1
  <1>2. OptionShares(m) = OptionShares(n) /\ ReasonShares(m) = ReasonShares(n)
    BY <1>1 DEF OptionShares, ReasonShares
  <1> QED BY <1>2 DEF AddsUp

\* The fields that Remember does not assign are kept.
LEMMA Remembered ==
    ASSUME TypeOK, NEW r \in Requests, NEW v
    PROVE  /\ Remember(r, "vote", v) => mem'[r] = [mem[r] EXCEPT !.vote = v]
           /\ Remember(r, "row", v) => mem'[r] = [mem[r] EXCEPT !.row = v]
           /\ Remember(r, "options", v) => mem'[r] = [mem[r] EXCEPT !.options = v]
           /\ Remember(r, "reasons", v) => mem'[r] = [mem[r] EXCEPT !.reasons = v]
           /\ Remember(r, "likes", v) => mem'[r] = [mem[r] EXCEPT !.likes = v]
  BY DEF TypeOK, Remember

----------------------------------------------------------------------------
\* The parts of a detail, one lemma for each action.
LEMMA BeginDetail ==
    ASSUME DInv, NEW r \in Requests, NEW p \in Participants, Begin(r, p)
    PROVE  \A x \in Requests : DetailInv(x)'
  <1>1. TypeOK /\ DetailInv(r) /\ kind' = kind /\ pc[r] = "idle" /\ TypeOK'
        /\ moved' = moved /\ ballot' = ballot /\ mem' = mem
    BY BeginKeeps DEF DInv, IInv, Begin
  <1>2. \/ pc'[r] = "look" /\ answer'[r] = answer[r]
        \/ pc'[r] = "done" /\ answer'[r] = "unauthorized"
    BY <1>1 DEF Begin, TypeOK, GoTo, Respond
  <1>3. DetailInv(r)'
    BY <1>1, <1>2 DEF DetailInv
  <1>4. \A x \in Requests \ {r} : pc'[x] = pc[x] /\ who'[x] = who[x] /\ answer'[x] = answer[x]
    BY <1>1 DEF Begin, TypeOK, GoTo, Respond
  <1> QED BY <1>1, <1>3, <1>4, OtherDetails

LEMMA LikeStepDetail ==
    ASSUME DInv, NEW r \in Requests, kind[r] \in LikeKinds,
           LookForLike(r) \/ InsertLike(r) \/ DeleteLike(r) \/ CountLikes(r)
    PROVE  \A x \in Requests : DetailInv(x)'
  <1>1. TypeOK /\ kind' = kind /\ who' = who /\ Watch /\ kind[r] # "detail"
    BY DEF DInv, IInv, LookForLike, InsertLike, DeleteLike, CountLikes, LikeKinds
  <1>2. TypeOK'
    BY LookForLikeKeeps, InsertLikeKeeps, DeleteLikeKeeps, CountLikesKeeps DEF DInv, IInv
  <1>3. \A x \in Requests \ {r} : pc'[x] = pc[x] /\ answer'[x] = answer[x]
    BY <1>1 DEF LookForLike, InsertLike, DeleteLike, CountLikes, TypeOK, GoTo, Respond
  <1>4. \A x \in Requests \ {r} : mem'[x] = mem[x]
    BY <1>1, RememberOnly DEF LookForLike, InsertLike, DeleteLike, CountLikes
  <1>5. DetailInv(r)'
    BY <1>1 DEF DetailInv
  <1> QED BY <1>1, <1>2, <1>3, <1>4, <1>5, OtherDetails

LEMMA ReadVoteDetail ==
    ASSUME DInv, NEW r \in Requests, ReadVote(r)
    PROVE  \A x \in Requests : DetailInv(x)'
  <1>1. TypeOK /\ DetailInv(r) /\ kind' = kind /\ who' = who /\ ballot' = ballot /\ answer' = answer
        /\ Watch /\ kind[r] = "detail" /\ pc[r] = "look" /\ TypeOK'
        /\ Remember(r, "vote", BallotOf(who[r]))
    BY ReadVoteKeeps DEF DInv, IInv, ReadVote
  <1>2. pc'[r] \in {"like", "options"} /\ \A x \in Requests \ {r} : pc'[x] = pc[x]
    BY <1>1 DEF ReadVote, TypeOK, GoTo
  <1>3. mem'[r].vote = BallotOf(who[r]) /\ \A x \in Requests \ {r} : mem'[x] = mem[x]
    BY <1>1, Remembered, RememberOnly DEF TypeOK, Memory
  <1>4. DetailInv(r)'
    BY <1>1, <1>2, <1>3 DEF DetailInv, BallotOf
  <1> QED BY <1>1, <1>2, <1>3, <1>4, OtherDetails

LEMMA ReadLikeDetail ==
    ASSUME DInv, NEW r \in Requests, ReadLike(r)
    PROVE  \A x \in Requests : DetailInv(x)'
  <1>1. TypeOK /\ DetailInv(r) /\ kind' = kind /\ who' = who /\ ballot' = ballot /\ answer' = answer
        /\ Watch /\ pc[r] = "like" /\ GoTo(r, "options") /\ TypeOK' /\ who[r] \in Participants
    BY ReadLikeKeeps DEF DInv, IInv, LikeInv, ReadLike
  <1>2. pc'[r] = "options" /\ \A x \in Requests \ {r} : pc'[x] = pc[x]
    BY <1>1 DEF TypeOK, GoTo
  <1>3. mem'[r].vote = mem[r].vote /\ \A x \in Requests \ {r} : mem'[x] = mem[x]
    BY <1>1, Remembered, RememberOnly DEF TypeOK, Memory, ReadLike
  <1>4. DetailInv(r)'
    <2> SUFFICES ASSUME kind[r] = "detail" PROVE DetailInv(r)'
      BY <1>1 DEF DetailInv
    <2>1. moved[r] \subseteq moved'[r]
      BY <1>1, WatchMoves DEF TypeOK
    <2>2. "own" \notin moved'[r] => BallotOf(who[r])' = mem'[r].vote
      BY <1>1, <1>3, <2>1 DEF DetailInv, BallotOf
    <2> QED BY <1>1, <1>2, <2>2 DEF DetailInv
  <1> QED BY <1>1, <1>2, <1>3, <1>4, OtherDetails

LEMMA CountVotesDetail ==
    ASSUME DInv, NEW r \in Requests, CountVotes(r)
    PROVE  \A x \in Requests : DetailInv(x)'
  <1>1. TypeOK /\ DetailInv(r) /\ kind' = kind /\ who' = who /\ ballot' = ballot /\ answer' = answer
        /\ Watch /\ pc[r] = "options" /\ GoTo(r, "reasons") /\ TypeOK' /\ who[r] \in Participants
        /\ Remember(r, "options", [o \in Options |-> VotesFor(o)])
    BY CountVotesKeeps DEF DInv, IInv, LikeInv, CountVotes
  <1>2. pc'[r] = "reasons" /\ \A x \in Requests \ {r} : pc'[x] = pc[x]
    BY <1>1 DEF TypeOK, GoTo
  <1>3. /\ mem'[r].vote = mem[r].vote /\ mem'[r].options = [o \in Options |-> VotesFor(o)]
        /\ \A x \in Requests \ {r} : mem'[x] = mem[x]
    <2> DEFINE f == [o \in Options |-> VotesFor(o)]
    <2>1. mem[r] \in Memory /\ Remember(r, "options", f)
      BY <1>1 DEF TypeOK
    <2> HIDE DEF f
    <2>2. mem'[r] = [mem[r] EXCEPT !.options = f]
      BY <1>1, <2>1, Remembered
    <2>3. mem'[r].vote = mem[r].vote /\ mem'[r].options = f
      BY <2>1, <2>2 DEF Memory
    <2>4. \A x \in Requests \ {r} : mem'[x] = mem[x]
      BY <1>1, <2>1, RememberOnly
    <2> QED BY <2>3, <2>4 DEF f
  <1>4. DetailInv(r)'
    <2> SUFFICES ASSUME kind[r] = "detail" PROVE DetailInv(r)'
      BY <1>1 DEF DetailInv
    <2>1. moved[r] \subseteq moved'[r]
      BY <1>1, WatchMoves DEF TypeOK
    <2>2. "own" \notin moved'[r] => BallotOf(who[r]) = mem[r].vote /\ BallotOf(who[r])' = mem'[r].vote
      BY <1>1, <1>3, <2>1 DEF DetailInv, BallotOf
    <2>3. mem'[r].options = [o \in Options |-> VotesFor(o)]'
      BY <1>1, <1>3 DEF VotesFor, Votes, BallotOf
    <2>4. "own" \notin moved'[r] /\ mem[r].vote # None => mem'[r].options[mem[r].vote.option] > 0
      <3> SUFFICES ASSUME BallotOf(who[r]) = mem[r].vote, mem[r].vote # None
                   PROVE  mem'[r].options[mem[r].vote.option] > 0
        BY <2>2
      <3>1. mem[r].vote.option \in Options
        BY <1>1 DEF TypeOK, Memory
      <3>2. VotesFor(mem[r].vote.option) > 0
        BY <1>1, OwnVoteCounts
      <3> QED BY <1>3, <3>1, <3>2
    <2>5. answer'[r] = "none"
      BY <1>1 DEF DetailInv
    <2> QED BY <1>1, <1>2, <1>3, <2>2, <2>3, <2>4, <2>5 DEF DetailInv
  <1> QED BY <1>1, <1>2, <1>3, <1>4, OtherDetails

LEMMA CountReasonsDetail ==
    ASSUME DInv, NEW r \in Requests, CountReasons(r)
    PROVE  \A x \in Requests : DetailInv(x)'
  <1> DEFINE f == [s \in Reasons |-> VotesWith(s)]
  <1>1. TypeOK /\ DetailInv(r) /\ kind' = kind /\ who' = who /\ ballot' = ballot /\ answer' = answer
        /\ Watch /\ pc[r] = "reasons" /\ GoTo(r, "result") /\ TypeOK' /\ who[r] \in Participants
        /\ Remember(r, "reasons", f)
    BY CountReasonsKeeps DEF DInv, IInv, LikeInv, CountReasons, VotesWith
  <1>2. pc'[r] = "result" /\ \A x \in Requests \ {r} : pc'[x] = pc[x]
    BY <1>1 DEF TypeOK, GoTo
  <1> HIDE DEF f
  <1>3. /\ mem'[r].vote = mem[r].vote /\ mem'[r].options = mem[r].options /\ mem'[r].reasons = f
        /\ \A x \in Requests \ {r} : mem'[x] = mem[x]
    <2>1. mem[r] \in Memory
      BY <1>1 DEF TypeOK
    <2>2. mem'[r] = [mem[r] EXCEPT !.reasons = f]
      BY <1>1, Remembered
    <2>3. mem'[r].vote = mem[r].vote /\ mem'[r].options = mem[r].options /\ mem'[r].reasons = f
      BY <2>1, <2>2 DEF Memory
    <2> QED BY <1>1, <2>3, RememberOnly
  <1>4. DetailInv(r)'
    <2> SUFFICES ASSUME kind[r] = "detail" PROVE DetailInv(r)'
      BY <1>1 DEF DetailInv
    <2>1. moved[r] \subseteq moved'[r]
      BY <1>1, WatchMoves DEF TypeOK
    <2>2. "own" \notin moved'[r] => BallotOf(who[r]) = mem[r].vote
      BY <1>1, <2>1 DEF DetailInv
    <2>3. "own" \notin moved'[r] /\ mem[r].vote # None => mem'[r].reasons[mem[r].vote.reason] > 0
      <3> SUFFICES ASSUME BallotOf(who[r]) = mem[r].vote, mem[r].vote # None
                   PROVE  mem'[r].reasons[mem[r].vote.reason] > 0
        BY <2>2
      <3>1. mem[r].vote.reason \in Reasons
        BY <1>1 DEF TypeOK, Memory
      <3>2. VotesWith(mem[r].vote.reason) > 0
        BY <1>1, OwnVoteCounts
      <3> QED BY <1>3, <3>1, <3>2 DEF f
    <2>4. "own" \notin moved'[r] /\ mem[r].vote # None => mem'[r].options[mem[r].vote.option] > 0
      BY <1>1, <1>3, <2>1 DEF DetailInv
    <2>5. moved'[r] = {} /\ mem[r].vote # None => AddsUp(mem'[r])
      <3> SUFFICES ASSUME moved'[r] = {}, mem[r].vote # None PROVE AddsUp(mem'[r])
        OBVIOUS
      <3>1. mem'[r].options = [o \in Options |-> VotesFor(o)]
        BY <1>1, <1>3, <2>1 DEF DetailInv
      <3>2. who[r] \in Votes
        BY <1>1, <2>2 DEF Votes, BallotOf
      <3>3. ballot \in Ballots
        BY <1>1 DEF TypeOK
      <3> QED BY <1>3, <3>1, <3>2, <3>3, CountsAddUp DEF f
    <2>6. answer'[r] = "none"
      BY <1>1 DEF DetailInv
    <2> QED BY <1>1, <1>2, <1>3, <2>3, <2>4, <2>5, <2>6 DEF DetailInv
  <1> QED BY <1>1, <1>2, <1>3, <1>4, OtherDetails

LEMMA BuildResultDetail ==
    ASSUME DInv, NEW r \in Requests, BuildResult(r)
    PROVE  \A x \in Requests : DetailInv(x)'
  <1>1. TypeOK /\ DetailInv(r) /\ kind' = kind /\ who' = who /\ ballot' = ballot /\ mem' = mem
        /\ Watch /\ pc[r] = "result" /\ TypeOK' /\ mem[r] \in Memory
    BY BuildResultKeeps DEF DInv, IInv, BuildResult, TypeOK
  <1>2. GoTo(r, "count") /\ answer' = answer
    BY <1>1, SharesDefined DEF BuildResult
  <1>3. pc'[r] = "count" /\ \A x \in Requests \ {r} : pc'[x] = pc[x]
    BY <1>1, <1>2 DEF TypeOK, GoTo
  <1>4. DetailInv(r)'
    <2>1. kind[r] = "detail" => moved[r] \subseteq moved'[r]
      BY <1>1, WatchMoves DEF TypeOK
    <2>2. AddsUp(mem[r])' <=> AddsUp(mem[r])
      BY <1>1
    <2> QED BY <1>1, <1>2, <1>3, <2>1, <2>2 DEF DetailInv
  <1> QED BY <1>1, <1>2, <1>3, <1>4, OtherDetails

LEMMA CountLikesDetail ==
    ASSUME DInv, NEW r \in Requests, CountLikes(r)
    PROVE  \A x \in Requests : DetailInv(x)'
  <1> DEFINE n == Cardinality(likes)
  <1>1. TypeOK /\ DetailInv(r) /\ kind' = kind /\ who' = who /\ ballot' = ballot
        /\ Watch /\ pc[r] = "count" /\ TypeOK' /\ mem[r] \in Memory
        /\ Remember(r, "likes", n) /\ Respond(r, "ok")
    BY CountLikesKeeps DEF DInv, IInv, CountLikes, TypeOK
  <1> HIDE DEF n
  <1>2. /\ pc'[r] = "done" /\ answer'[r] = "ok"
        /\ \A x \in Requests \ {r} : pc'[x] = pc[x] /\ answer'[x] = answer[x]
    BY <1>1 DEF TypeOK, GoTo, Respond
  <1>3. /\ mem'[r].vote = mem[r].vote /\ mem'[r].options = mem[r].options
        /\ mem'[r].reasons = mem[r].reasons
        /\ \A x \in Requests \ {r} : mem'[x] = mem[x]
    <2>1. mem'[r] = [mem[r] EXCEPT !.likes = n]
      BY <1>1, Remembered
    <2>2. mem'[r].vote = mem[r].vote /\ mem'[r].options = mem[r].options
          /\ mem'[r].reasons = mem[r].reasons
      BY <1>1, <2>1 DEF Memory
    <2> QED BY <1>1, <2>2, RememberOnly
  <1>4. DetailInv(r)'
    <2>1. kind[r] = "detail" => moved[r] \subseteq moved'[r]
      BY <1>1, WatchMoves DEF TypeOK
    <2>2. AddsUp(mem[r]) => AddsUp(mem'[r])
      BY <1>3, SameCounts
    <2> QED BY <1>1, <1>2, <1>3, <2>1, <2>2 DEF DetailInv
  <1> QED BY <1>1, <1>2, <1>3, <1>4, OtherDetails

LEMMA DetailInductive ==
    ASSUME DInv, [QuestionsNext]_vars
    PROVE  DInv'
  <1>1. IInv'
    BY Inductive DEF DInv
  <1>2. ASSUME NEW r \in Requests, NEW p \in Participants, Begin(r, p)
        PROVE  \A x \in Requests : DetailInv(x)'
    BY <1>2, BeginDetail
  <1>3. ASSUME NEW r \in Requests,
               LookForLike(r) \/ InsertLike(r) \/ DeleteLike(r) \/ CountLikes(r)
        PROVE  \A x \in Requests : DetailInv(x)'
    <2>1. kind[r] \in LikeKinds \/ CountLikes(r)
      BY <1>3 DEF LookForLike, InsertLike, DeleteLike, LikeKinds
    <2> QED BY <1>3, <2>1, LikeStepDetail, CountLikesDetail
  <1>4. ASSUME NEW r \in Requests,
               ReadVote(r) \/ ReadLike(r) \/ CountVotes(r) \/ CountReasons(r) \/ BuildResult(r)
        PROVE  \A x \in Requests : DetailInv(x)'
    BY <1>4, ReadVoteDetail, ReadLikeDetail, CountVotesDetail, CountReasonsDetail, BuildResultDetail
  <1>5. CASE VotesChange \/ UserWithdraws
    <2>1. kind' = kind /\ pc' = pc /\ who' = who /\ mem' = mem /\ answer' = answer /\ Watch
      BY <1>5 DEF VotesChange, UserWithdraws, requestVars
    <2>2. TypeOK'
      BY <1>1 DEF IInv
    <2> QED BY <1>1, <2>1, <2>2, DetailWaits DEF DInv
  <1>6. CASE UNCHANGED vars
    <2>1. /\ kind' = kind /\ pc' = pc /\ who' = who /\ mem' = mem /\ answer' = answer
          /\ moved' = moved /\ ballot' = ballot
      BY <1>6 DEF vars
    <2>2. TypeOK'
      BY <1>1 DEF IInv
    <2> QED BY <1>1, <2>1, <2>2, DetailWaits DEF DInv
  <1> QED BY <1>1, <1>2, <1>3, <1>4, <1>5, <1>6 DEF QuestionsNext, AllDone, DInv

LEMMA DetailInitially == QuestionsInit => DInv
  BY Initially DEF DInv, DetailInv, QuestionsInit

\* Every detail is answered, the caller's vote is among the counts unless it moved
\* itself, and what is shown adds up when no vote moved, for any number of voters,
\* options and reasons: get_question and its counts.
THEOREM DetailAddsUp == QuestionsSpec => []DetailSound
  <1>1. ASSUME DInv PROVE DetailSound
    <2> SUFFICES ASSUME NEW r \in Requests, kind[r] = "detail"
                 PROVE  /\ answer[r] # "error"
                        /\ LET m == mem[r] IN answer[r] = "ok" /\ Counted(m) =>
                             /\ "own" \notin moved[r] =>
                                  m.options[m.vote.option] > 0 /\ m.reasons[m.vote.reason] > 0
                             /\ moved[r] = {} =>
                                  /\ FoldFunction(+, 0, m.reasons) = Total(m)
                                  /\ \A f \in {OptionShares(m), ReasonShares(m)} :
                                       2 * (FoldFunction(+, 0, f) - 1000) \in
                                           (- Cardinality(DOMAIN f))..Cardinality(DOMAIN f)
      BY DEF DetailSound
    <2>1. DetailInv(r)
      BY <1>1 DEF DInv
    <2>2. ASSUME answer[r] = "ok", Counted(mem[r]), moved[r] = {}
          PROVE  /\ FoldFunction(+, 0, mem[r].reasons) = Total(mem[r])
                 /\ \A f \in {OptionShares(mem[r]), ReasonShares(mem[r])} :
                      2 * (FoldFunction(+, 0, f) - 1000) \in
                          (- Cardinality(DOMAIN f))..Cardinality(DOMAIN f)
      <3>1. AddsUp(mem[r])
        BY <2>1, <2>2 DEF DetailInv, Counted
      <3> QED BY <3>1, Zenon DEF AddsUp, Sum, Total
    <2>3. answer[r] = "ok" /\ Counted(mem[r]) /\ "own" \notin moved[r] =>
            mem[r].options[mem[r].vote.option] > 0 /\ mem[r].reasons[mem[r].vote.reason] > 0
      BY <2>1 DEF DetailInv, Counted
    <2>4. answer[r] # "error"
      BY <2>1 DEF DetailInv
    <2> QED BY <2>2, <2>3, <2>4, Zenon
  <1> QED BY <1>1, DetailInitially, DetailInductive, PTL DEF QuestionsSpec
=============================================================================
