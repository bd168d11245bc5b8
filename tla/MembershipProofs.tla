--------------------------- MODULE MembershipProofs ---------------------------
(***************************************************************************)
(* Proofs about Membership, for any users, brands, requests and lists: the *)
(* brand of an account, and one subscription where one was asked for.      *)
(*                                                                         *)
(* The first rests on the brand being made before the write that names it; *)
(* the second on who stands between a read and its write: for a            *)
(* subscription not crossed there is at most one, and then no document.    *)
(***************************************************************************)
EXTENDS Membership, TLAPS

PickTypeOK ==
    /\ up \in BOOLEAN
    /\ type \in [Users -> {None, "user", "business"}]
    /\ brandOf \in [Users -> Picks \cup {None}]
    /\ brands \subseteq Picks
    /\ pick \in [Picks -> PickStates]
    /\ declared \subseteq Users

\* A brand is made before it is written.
PickInv ==
    /\ PickTypeOK
    /\ \A u \in Users \ declared : type[u] = "business" => brandOf[u] \in brands
    /\ \A p \in Picks : pick[p].at = "set" /\ pick[p].type = "business" => p \in brands

-------------------------------------------------------------------------------
(* The account type *)

LEMMA PickInvInit == Init => PickInv
  BY MembershipAssumption DEF Init, PickInv, PickTypeOK, PickStates, Idle

\* A request under way names its user and a type.
LEMMA PickShape ==
  ASSUME PickTypeOK, NEW p \in Picks, pick[p].at \in {"brand", "set"}
  PROVE  pick[p] \in [at: {"brand", "set"}, user: Users, type: {"user", "business"}]
  BY DEF PickTypeOK, PickStates, Idle, Ended

LEMMA PickReadKeeps ==
  ASSUME PickInv, NEW p \in Picks, NEW u \in Users, NEW t \in {"user", "business"},
         PickRead(p, u, t)
  PROVE  PickInv'
  <1>. DEFINE new == [at |-> IF t = "business" THEN "brand" ELSE "set", user |-> u, type |-> t]
  <1>1. /\ pick' = [pick EXCEPT ![p] = new] /\ pick \in [Picks -> PickStates]
        /\ UNCHANGED <<up, type, brandOf, brands, declared>>
    BY DEF PickRead, PickInv, PickTypeOK
  <1>2. new \in [at: {"brand", "set"}, user: Users, type: {"user", "business"}]
    OBVIOUS
  <1>3. new.user = u /\ new.type = t /\ (new.at = "set" => t = "user")
    OBVIOUS
  <1>. HIDE DEF new
  <1>4. pick'[p] = new /\ \A q \in Picks : q # p => pick'[q] = pick[q]
    BY <1>1
  <1>5. PickTypeOK'
    BY <1>1, <1>2 DEF PickInv, PickTypeOK, PickStates
  <1>6. \A q \in Picks : pick'[q].at = "set" /\ pick'[q].type = "business" => q \in brands'
    BY <1>1, <1>3, <1>4 DEF PickInv
  <1>. QED BY <1>1, <1>5, <1>6 DEF PickInv

LEMMA MakeBrandKeeps ==
  ASSUME PickInv, NEW p \in Picks, MakeBrand(p)
  PROVE  PickInv'
  <1>1. /\ pick[p] \in [at: {"brand", "set"}, user: Users, type: {"user", "business"}]
        /\ pick \in [Picks -> PickStates]
    BY PickShape DEF MakeBrand, PickInv, PickTypeOK
  <1>2. /\ pick' = [pick EXCEPT ![p] = [pick[p] EXCEPT !.at = "set"]]
        /\ brands' = brands \cup {p} /\ pick[p].at = "brand"
        /\ UNCHANGED <<up, type, brandOf, declared>>
    BY DEF MakeBrand
  <1>3. /\ pick'[p] \in [at: {"set"}, user: Users, type: {"user", "business"}]
        /\ pick'[p].user = pick[p].user
        /\ \A q \in Picks : q # p => pick'[q] = pick[q]
    BY <1>1, <1>2
  <1>4. PickTypeOK'
    BY <1>1, <1>2, <1>3 DEF PickInv, PickTypeOK, PickStates
  <1>5. \A q \in Picks : pick'[q].at = "set" /\ pick'[q].type = "business" => q \in brands'
    BY <1>2, <1>3 DEF PickInv
  <1>6. \A u \in Users \ declared' : type'[u] = "business" => brandOf'[u] \in brands'
    BY <1>2 DEF PickInv
  <1>. QED BY <1>2, <1>4, <1>5, <1>6 DEF PickInv

\* A request ends without a write.
LEMMA PickEndKeeps ==
  ASSUME PickInv, NEW p \in Picks, pick' = [pick EXCEPT ![p] = Ended],
         UNCHANGED <<up, brands>>, type' \in [Users -> {None, "user", "business"}],
         brandOf' \in [Users -> Picks \cup {None}], declared' \subseteq Users,
         \A u \in Users \ declared' : type'[u] = "business" => brandOf'[u] \in brands
  PROVE  PickInv'
  <1>1. /\ pick'[p] = Ended /\ pick' \in [Picks -> PickStates]
        /\ \A q \in Picks : q # p => pick'[q] = pick[q]
    BY DEF PickInv, PickTypeOK, PickStates
  <1>2. PickTypeOK'
    BY <1>1 DEF PickInv, PickTypeOK
  <1>3. \A q \in Picks : pick'[q].at = "set" /\ pick'[q].type = "business" => q \in brands'
    BY <1>1 DEF PickInv, Ended
  <1>. QED BY <1>2, <1>3 DEF PickInv

LEMMA SetTypeKeeps ==
  ASSUME PickInv, NEW p \in Picks, SetType(p)
  PROVE  PickInv'
  <1>. DEFINE u == pick[p].user
  <1>1. pick[p] \in [at: {"brand", "set"}, user: Users, type: {"user", "business"}]
    BY PickShape DEF SetType, PickInv
  <1>2. u \in Users /\ pick[p].at = "set"
    BY <1>1 DEF SetType
  <1>3. /\ type' = [type EXCEPT ![u] = pick[p].type]
        /\ brandOf' = [brandOf EXCEPT ![u] = IF pick[p].type = "business" THEN p ELSE @]
        /\ pick' = [pick EXCEPT ![p] = Ended] /\ UNCHANGED <<up, brands>>
        /\ declared' = IF pick[p].type = "business" THEN declared \ {u} ELSE declared
        /\ pick[p].type \in {"user", "business"}
    BY <1>1 DEF SetType
  <1>. HIDE DEF u
  <1>4. /\ type' \in [Users -> {None, "user", "business"}]
        /\ brandOf' \in [Users -> Picks \cup {None}]
        /\ declared' \subseteq Users
    BY <1>2, <1>3 DEF PickInv, PickTypeOK
  <1>5. \A v \in Users \ declared' : type'[v] = "business" => brandOf'[v] \in brands
    <2>1. pick[p].type = "business" => p \in brands
      BY <1>2 DEF PickInv
    <2>2. /\ type'[u] = pick[p].type
          /\ brandOf'[u] = IF pick[p].type = "business" THEN p ELSE brandOf[u]
          /\ \A v \in Users : v # u => type'[v] = type[v] /\ brandOf'[v] = brandOf[v]
      BY <1>2, <1>3 DEF PickInv, PickTypeOK
    <2>. QED BY <2>1, <2>2, <1>3 DEF PickInv
  <1>. QED BY <1>3, <1>4, <1>5, PickEndKeeps

LEMMA PickInvNext ==
  ASSUME PickInv, [Next]_vars
  PROVE  PickInv'
  <1>1. CASE UNCHANGED typeVars
    <2>1. up' \in BOOLEAN
      BY DEF PickInv, PickTypeOK, Next, vars, PickStep, PickRead, MakeBrand, SetType, FailPick,
             JoinStep, JoinCheck, JoinCreate, FailJoin, Leave, FollowStep, EmitFollow,
             LoseFollow, TakeFollow, LoopStep, FollowCheck, FollowCreate, FollowRejects, Restart,
             UpdateUser
    <2>. QED BY <1>1, <2>1 DEF typeVars, PickInv, PickTypeOK
  <1>2. ASSUME NEW p \in Picks, PickStep(p)
        PROVE  PickInv'
    <2>1. FailPick(p) => PickInv'
      <3>. SUFFICES ASSUME FailPick(p) PROVE PickInv'
        OBVIOUS
      <3>1. pick' = [pick EXCEPT ![p] = Ended] /\ UNCHANGED <<up, type, brandOf, brands, declared>>
        BY DEF FailPick
      <3>. QED BY <3>1, PickEndKeeps DEF PickInv, PickTypeOK
    <2>. QED BY <1>2, <2>1, PickReadKeeps, MakeBrandKeeps, SetTypeKeeps DEF PickStep
  <1>3. ASSUME NEW u \in Users, NEW b \in Picks \cup {None}, UpdateUser(u, b)
        PROVE  PickInv'
    <2>1. /\ brandOf' = [brandOf EXCEPT ![u] = b] /\ declared' = declared \cup {u}
          /\ UNCHANGED <<up, type, brands, pick>>
      BY <1>3 DEF UpdateUser
    <2>2. brandOf' \in [Users -> Picks \cup {None}] /\ PickTypeOK'
      BY <2>1 DEF PickInv, PickTypeOK
    <2>3. \A v \in Users \ declared' : type'[v] = "business" => brandOf'[v] \in brands'
      BY <2>1 DEF PickInv, PickTypeOK
    <2>. QED BY <2>1, <2>2, <2>3 DEF PickInv
  <1>4. \/ UNCHANGED typeVars \/ \E p \in Picks : PickStep(p)
        \/ \E u \in Users, b \in Picks \cup {None} : UpdateUser(u, b)
    BY DEF Next, vars, JoinStep, JoinCheck, JoinCreate, FailJoin, Leave, FollowStep, EmitFollow,
           LoseFollow, TakeFollow, LoopStep, FollowCheck, FollowCreate, FollowRejects, Restart
  <1>. QED BY <1>1, <1>2, <1>3, <1>4

\* A business account has a brand that was created, however choices overlap and
\* wherever they fail (users.service.ts, setAccountType), unless a body that was
\* stored as it came (create, updateUser) has set its type or brand since.
THEOREM BusinessHasItsBrand == Spec => []BusinessHasBrand
  <1>1. PickInv => BusinessHasBrand
    BY DEF PickInv, BusinessHasBrand
  <1>. QED BY <1>1, PickInvInit, PickInvNext, PTL DEF Spec

-------------------------------------------------------------------------------
(* Subscriptions *)

\* The requests that stand between the search for a subscription and its write.
JoinsAt(j, x) == {k \in Joins : j[k].at = "create" /\ j[k].pair = x}
FollowsAt(f, x) ==
    {k \in Follows : f[k].at = "create" /\ <<f[k].user, BrandsOf[k][f[k].next]>> = x}
Wanters(j, f, x) ==
    {<<"join", k>> : k \in JoinsAt(j, x)} \cup {<<"follow", k>> : k \in FollowsAt(f, x)}

MemberTypeOK ==
    /\ members \in [Pairs -> Nat]
    /\ join \in [Joins -> JoinStates]
    /\ follow \in [Follows -> FollowStates]
    /\ \A f \in Follows :
          follow[f].at \in {"queued", "check", "create"} => follow[f].next <= Len(BrandsOf[f])
    /\ asked \subseteq Pairs
    /\ crossed \subseteq Pairs

Sole(ms, as, cs, j, f) ==
    \A x \in Pairs \ cs :
        /\ ms[x] = IF x \in as THEN 1 ELSE 0
        /\ Wanters(j, f, x) # {} => ms[x] = 0
        /\ \A a, b \in Wanters(j, f, x) : a = b

MemberInv == MemberTypeOK /\ Sole(members, asked, crossed, join, follow)

LEMMA CreatingIsWanted == \A x : Creating(x) <=> Wanters(join, follow, x) # {}
  BY DEF Creating, Wanters, JoinsAt, FollowsAt

\* A request passes the search for x, enters it, or stops wanting it.
LEMMA SoleEnter ==
  ASSUME MemberInv, NEW x \in Pairs, NEW w, SearchPasses(x), UNCHANGED <<members, asked>>,
         \A y \in Pairs : Wanters(join', follow', y)
                             \subseteq Wanters(join, follow, y) \cup {v \in {w} : y = x}
  PROVE  /\ Sole(members', asked', crossed', join', follow')
         /\ crossed' \subseteq Pairs
  <1>1. /\ crossed \subseteq crossed' /\ crossed' \subseteq crossed \cup {x}
        /\ x \notin crossed' => members[x] = 0 /\ Wanters(join, follow, x) = {}
    BY CreatingIsWanted DEF SearchPasses
  <1>2. ASSUME NEW y \in Pairs \ crossed'
        PROVE  /\ members[y] = IF y \in asked THEN 1 ELSE 0
               /\ Wanters(join', follow', y) # {} => members[y] = 0
               /\ \A a, b \in Wanters(join', follow', y) : a = b
    <2>1. CASE y = x
      BY <1>1, <1>2, <2>1 DEF MemberInv, Sole
    <2>2. CASE y # x
      BY <1>1, <1>2, <2>2 DEF MemberInv, Sole
    <2>. QED BY <2>1, <2>2
  <1>. QED BY <1>1, <1>2 DEF Sole, MemberInv, MemberTypeOK

LEMMA SoleWrite ==
  ASSUME MemberInv, NEW x \in Pairs, NEW w \in Wanters(join, follow, x), Subscribe(x),
         UNCHANGED crossed,
         \A y \in Pairs : Wanters(join', follow', y) \subseteq Wanters(join, follow, y) \ {w}
  PROVE  /\ Sole(members', asked', crossed', join', follow')
         /\ members' \in [Pairs -> Nat] /\ asked' \subseteq Pairs
  <1>1. /\ members' = [members EXCEPT ![x] = @ + 1] /\ members \in [Pairs -> Nat]
        /\ asked' = IF x \in crossed THEN asked \ {x} ELSE asked \cup {x}
        /\ asked \subseteq Pairs
    BY DEF Subscribe, MemberInv, MemberTypeOK
  <1>2. ASSUME NEW y \in Pairs \ crossed'
        PROVE  /\ members'[y] = IF y \in asked' THEN 1 ELSE 0
               /\ Wanters(join', follow', y) # {} => members'[y] = 0
               /\ \A a, b \in Wanters(join', follow', y) : a = b
    <2>1. CASE y = x
      <3>1. members[x] = 0 /\ Wanters(join', follow', x) = {}
        BY <1>2, <2>1 DEF MemberInv, Sole
      <3>. QED BY <1>1, <1>2, <2>1, <3>1
    <2>2. CASE y # x
      <3>1. members'[y] = members[y] /\ (y \in asked' <=> y \in asked)
        BY <1>1, <2>2
      <3>. QED BY <1>2, <3>1 DEF MemberInv, Sole
    <2>. QED BY <2>1, <2>2
  <1>. QED BY <1>1, <1>2 DEF Sole

LEMMA SoleShrink ==
  ASSUME MemberInv, UNCHANGED <<members, asked, crossed>>,
         \A y \in Pairs : Wanters(join', follow', y) \subseteq Wanters(join, follow, y)
  PROVE  Sole(members', asked', crossed', join', follow')
  BY DEF MemberInv, Sole

LEMMA LeaveKeeps ==
  ASSUME MemberInv, NEW x \in Pairs, Leave(x)
  PROVE  MemberInv'
  <1>1. /\ members' = [members EXCEPT ![x] = @ - 1] /\ members \in [Pairs -> Nat]
        /\ members[x] > 0 /\ asked' = asked \ {x} /\ UNCHANGED <<join, follow>>
        /\ crossed' = IF Wanters(join, follow, x) # {} THEN crossed \cup {x} ELSE crossed
    BY CreatingIsWanted DEF Leave, MemberInv, MemberTypeOK
  <1>2. MemberTypeOK'
    BY <1>1 DEF MemberInv, MemberTypeOK
  <1>3. ASSUME NEW y \in Pairs \ crossed'
        PROVE  /\ members'[y] = IF y \in asked' THEN 1 ELSE 0
               /\ Wanters(join, follow, y) # {} => members'[y] = 0
               /\ \A a, b \in Wanters(join, follow, y) : a = b
    <2>1. CASE y = x
      BY <1>1, <1>3, <2>1 DEF MemberInv, Sole
    <2>2. CASE y # x
      BY <1>1, <1>3, <2>2 DEF MemberInv, Sole
    <2>. QED BY <2>1, <2>2
  <1>4. Sole(members', asked', crossed', join, follow)
    BY <1>3 DEF Sole
  <1>. QED BY <1>1, <1>2, <1>4 DEF MemberInv

LEMMA MemberInvInit == Init => MemberInv
  <1>. SUFFICES ASSUME Init PROVE MemberInv
    OBVIOUS
  <1>1. /\ members = [x \in Pairs |-> 0] /\ asked = {} /\ crossed = {}
        /\ join = [j \in Joins |-> Idle] /\ follow = [f \in Follows |-> Idle]
    BY DEF Init
  <1>2. /\ \A j \in Joins : join[j].at = "idle"
        /\ \A f \in Follows : follow[f].at = "idle"
    BY <1>1 DEF Idle
  <1>3. MemberTypeOK
    BY <1>1, <1>2 DEF MemberTypeOK, JoinStates, FollowStates
  <1>4. \A x : Wanters(join, follow, x) = {}
    BY <1>2 DEF Wanters, JoinsAt, FollowsAt
  <1>. QED BY <1>1, <1>3, <1>4 DEF MemberInv, Sole

\* What a request wants when it is of the first kind, and of the second.
LEMMA JoinShape ==
  ASSUME MemberTypeOK, NEW j \in Joins, join[j].at = "create"
  PROVE  /\ join[j] \in [at: {"create"}, pair: Pairs]
         /\ <<"join", j>> \in Wanters(join, follow, join[j].pair)
  BY DEF MemberTypeOK, JoinStates, Idle, Ended, Wanters, JoinsAt

LEMMA FollowShape ==
  ASSUME MemberTypeOK, NEW f \in Follows, follow[f].at \in {"queued", "check", "create"}
  PROVE  /\ follow[f] \in [at: {"queued", "check", "create"}, user: Users, next: Nat \ {0}]
         /\ follow[f].next <= Len(BrandsOf[f])
         /\ PairOf(f) \in Pairs
  <1>1. /\ follow[f] \in [at: {"queued", "check", "create"}, user: Users, next: Nat \ {0}]
        /\ follow[f].next <= Len(BrandsOf[f])
    BY DEF MemberTypeOK, FollowStates, Idle, Ended
  <1>2. BrandsOf[f] \in Seq(Brands)
    BY MembershipAssumption
  <1>3. BrandsOf[f][follow[f].next] \in Brands
    BY <1>1, <1>2
  <1>. QED BY <1>1, <1>3 DEF PairOf, Pairs

LEMMA JoinCheckKeeps ==
  ASSUME MemberInv, NEW j \in Joins, NEW x \in Pairs, JoinCheck(j, x)
  PROVE  MemberInv'
  <1>. DEFINE new == [at |-> "create", pair |-> x]
  <1>1. /\ join' = [join EXCEPT ![j] = new] /\ join \in [Joins -> JoinStates]
        /\ SearchPasses(x) /\ UNCHANGED <<members, follow, asked>>
    BY DEF JoinCheck, MemberInv, MemberTypeOK
  <1>2. new \in [at: {"create"}, pair: Pairs] /\ new.pair = x
    OBVIOUS
  <1>. HIDE DEF new
  <1>3. /\ join'[j] = new /\ \A k \in Joins : k # j => join'[k] = join[k]
        /\ join' \in [Joins -> JoinStates]
    BY <1>1, <1>2 DEF JoinStates
  <1>4. \A y \in Pairs : Wanters(join', follow', y)
            \subseteq Wanters(join, follow, y) \cup {v \in {<<"join", j>>} : y = x}
    BY <1>1, <1>2, <1>3 DEF Wanters, JoinsAt, FollowsAt
  <1>5. Sole(members', asked', crossed', join', follow') /\ crossed' \subseteq Pairs
    BY <1>1, <1>4, SoleEnter
  <1>. QED BY <1>1, <1>3, <1>5 DEF MemberInv, MemberTypeOK

LEMMA JoinEndKeeps ==
  ASSUME MemberInv, NEW j \in Joins, JoinCreate(j) \/ FailJoin(j)
  PROVE  MemberInv'
  <1>1. /\ join' = [join EXCEPT ![j] = Ended] /\ join \in [Joins -> JoinStates]
        /\ join[j].at = "create" /\ UNCHANGED <<follow, crossed>>
    BY DEF JoinCreate, FailJoin, MemberInv, MemberTypeOK
  <1>2. /\ join'[j] = Ended /\ \A k \in Joins : k # j => join'[k] = join[k]
        /\ join' \in [Joins -> JoinStates]
    BY <1>1 DEF JoinStates
  <1>3. \A y \in Pairs : Wanters(join', follow', y)
            \subseteq Wanters(join, follow, y) \ {<<"join", j>>}
    BY <1>1, <1>2 DEF Wanters, JoinsAt, FollowsAt, Ended
  <1>4. join[j].pair \in Pairs /\ <<"join", j>> \in Wanters(join, follow, join[j].pair)
    BY <1>1, JoinShape DEF MemberInv
  <1>5. CASE JoinCreate(j)
    <2>1. Subscribe(join[j].pair)
      BY <1>5 DEF JoinCreate
    <2>2. /\ Sole(members', asked', crossed', join', follow')
          /\ members' \in [Pairs -> Nat] /\ asked' \subseteq Pairs
      BY <1>1, <1>3, <1>4, <2>1, SoleWrite
    <2>. QED BY <1>1, <1>2, <2>2 DEF MemberInv, MemberTypeOK
  <1>6. CASE FailJoin(j)
    <2>1. UNCHANGED <<members, asked>>
      BY <1>6 DEF FailJoin
    <2>2. Sole(members', asked', crossed', join', follow')
      BY <1>1, <1>3, <2>1, SoleShrink
    <2>. QED BY <1>1, <1>2, <2>1, <2>2 DEF MemberInv, MemberTypeOK
  <1>. QED BY <1>5, <1>6

\* An event that is emitted, lost or taken wants nothing.
LEMMA FollowIdleKeeps ==
  ASSUME MemberInv, NEW f \in Follows, NEW new \in FollowStates,
         follow' = [follow EXCEPT ![f] = new], new.at # "create",
         new.at \in {"queued", "check", "create"} => new.next <= Len(BrandsOf[f]),
         UNCHANGED <<members, join, asked, crossed>>
  PROVE  MemberInv'
  <1>1. /\ follow'[f] = new /\ \A k \in Follows : k # f => follow'[k] = follow[k]
        /\ follow' \in [Follows -> FollowStates]
    BY DEF MemberInv, MemberTypeOK
  <1>2. \A y \in Pairs : Wanters(join', follow', y) \subseteq Wanters(join, follow, y)
    BY <1>1 DEF Wanters, JoinsAt, FollowsAt
  <1>3. Sole(members', asked', crossed', join', follow')
    BY <1>2, SoleShrink
  <1>. QED BY <1>1, <1>3 DEF MemberInv, MemberTypeOK

LEMMA EmitKeeps ==
  ASSUME MemberInv, NEW f \in Follows, NEW u \in Users, EmitFollow(f, u)
  PROVE  MemberInv'
  <1>. DEFINE new == [at |-> "queued", user |-> u, next |-> 1]
  <1>1. BrandsOf[f] \in Seq(Brands) /\ BrandsOf[f] # <<>>
    BY MembershipAssumption
  <1>2. 1 <= Len(BrandsOf[f])
    BY <1>1
  <1>3. new \in FollowStates /\ new.at = "queued" /\ new.next = 1
    BY DEF FollowStates
  <1>4. follow' = [follow EXCEPT ![f] = new] /\ UNCHANGED <<members, join, asked, crossed>>
    BY DEF EmitFollow
  <1>. HIDE DEF new
  <1>. QED BY <1>2, <1>3, <1>4, FollowIdleKeeps

LEMMA QueueKeeps ==
  ASSUME MemberInv, NEW f \in Follows, LoseFollow(f) \/ TakeFollow(f)
  PROVE  MemberInv'
  <1>1. CASE LoseFollow(f)
    <2>1. Ended \in FollowStates /\ Ended.at = "done"
      BY DEF FollowStates, Ended
    <2>. QED BY <1>1, <2>1, FollowIdleKeeps DEF LoseFollow
  <1>2. CASE TakeFollow(f)
    <2>. DEFINE new == [follow[f] EXCEPT !.at = "check"]
    <2>1. /\ follow[f] \in [at: {"queued", "check", "create"}, user: Users, next: Nat \ {0}]
          /\ follow[f].next <= Len(BrandsOf[f])
      BY <1>2, FollowShape DEF TakeFollow, MemberInv
    <2>2. new \in FollowStates /\ new.at = "check" /\ new.next = follow[f].next
      BY <2>1 DEF FollowStates
    <2>3. follow' = [follow EXCEPT ![f] = new] /\ UNCHANGED <<members, join, asked, crossed>>
      BY <1>2 DEF TakeFollow
    <2>. HIDE DEF new
    <2>. QED BY <2>1, <2>2, <2>3, FollowIdleKeeps
  <1>. QED BY <1>1, <1>2

LEMMA FollowCheckKeeps ==
  ASSUME MemberInv, NEW f \in Follows, FollowCheck(f)
  PROVE  MemberInv'
  <1>. DEFINE new == [follow[f] EXCEPT !.at = "create"]
  <1>1. /\ follow[f] \in [at: {"queued", "check", "create"}, user: Users, next: Nat \ {0}]
        /\ follow[f].next <= Len(BrandsOf[f]) /\ PairOf(f) \in Pairs
    BY FollowShape DEF FollowCheck, MemberInv
  <1>2. /\ new \in FollowStates /\ new.next = follow[f].next /\ new.user = follow[f].user
    BY <1>1 DEF FollowStates
  <1>3. /\ follow' = [follow EXCEPT ![f] = new] /\ SearchPasses(PairOf(f))
        /\ UNCHANGED <<members, join, asked>>
    BY DEF FollowCheck
  <1>. HIDE DEF new
  <1>4. /\ follow'[f] = new /\ \A k \in Follows : k # f => follow'[k] = follow[k]
        /\ follow' \in [Follows -> FollowStates]
    BY <1>2, <1>3 DEF MemberInv, MemberTypeOK
  <1>5. \A y \in Pairs : Wanters(join', follow', y)
            \subseteq Wanters(join, follow, y) \cup {v \in {<<"follow", f>>} : y = PairOf(f)}
    BY <1>2, <1>3, <1>4 DEF Wanters, JoinsAt, FollowsAt, PairOf
  <1>6. Sole(members', asked', crossed', join', follow') /\ crossed' \subseteq Pairs
    BY <1>1, <1>3, <1>5, SoleEnter
  <1>. QED BY <1>1, <1>2, <1>3, <1>4, <1>6 DEF MemberInv, MemberTypeOK

LEMMA FollowCreateKeeps ==
  ASSUME MemberInv, NEW f \in Follows, FollowCreate(f)
  PROVE  MemberInv'
  <1>. DEFINE new == IF follow[f].next = Len(BrandsOf[f]) THEN Ended
                     ELSE [follow[f] EXCEPT !.at = "check", !.next = @ + 1]
  <1>1. /\ follow[f] \in [at: {"queued", "check", "create"}, user: Users, next: Nat \ {0}]
        /\ follow[f].next <= Len(BrandsOf[f]) /\ PairOf(f) \in Pairs
        /\ follow[f].at = "create" /\ Len(BrandsOf[f]) \in Nat
    BY FollowShape, MembershipAssumption DEF FollowCreate, MemberInv
  <1>2. /\ new \in FollowStates /\ new.at \in {"done", "check"}
        /\ new.at = "check" => new.next <= Len(BrandsOf[f])
    <2>1. CASE follow[f].next = Len(BrandsOf[f])
      BY <2>1 DEF FollowStates, Ended
    <2>2. CASE follow[f].next # Len(BrandsOf[f])
      <3>1. new = [at |-> "check", user |-> follow[f].user, next |-> follow[f].next + 1]
        BY <1>1, <2>2
      <3>2. follow[f].next + 1 <= Len(BrandsOf[f]) /\ follow[f].next + 1 \in Nat \ {0}
        BY <1>1, <2>2
      <3>. QED BY <1>1, <3>1, <3>2 DEF FollowStates
    <2>. QED BY <2>1, <2>2
  <1>3. /\ follow' = [follow EXCEPT ![f] = new] /\ Subscribe(PairOf(f))
        /\ UNCHANGED <<join, crossed>>
    BY DEF FollowCreate
  <1>. HIDE DEF new
  <1>4. /\ follow'[f] = new /\ \A k \in Follows : k # f => follow'[k] = follow[k]
        /\ follow' \in [Follows -> FollowStates]
    BY <1>2, <1>3 DEF MemberInv, MemberTypeOK
  <1>5. \A y \in Pairs : Wanters(join', follow', y)
            \subseteq Wanters(join, follow, y) \ {<<"follow", f>>}
    BY <1>2, <1>3, <1>4 DEF Wanters, JoinsAt, FollowsAt
  <1>6. <<"follow", f>> \in Wanters(join, follow, PairOf(f))
    BY <1>1 DEF Wanters, FollowsAt, PairOf
  <1>7. /\ Sole(members', asked', crossed', join', follow')
        /\ members' \in [Pairs -> Nat] /\ asked' \subseteq Pairs
    BY <1>1, <1>3, <1>5, <1>6, SoleWrite
  <1>. QED BY <1>2, <1>3, <1>4, <1>7 DEF MemberInv, MemberTypeOK

\* The process ends: no request wants anything any more.
LEMMA FollowRejectsKeeps ==
  ASSUME MemberInv, NEW f \in Follows, FollowRejects(f)
  PROVE  MemberInv'
  <1>1. /\ join' = [j \in Joins |-> IF join[j].at = "create" THEN Ended ELSE join[j]]
        /\ follow' = [g \in Follows |->
                         IF follow[g].at \in {"check", "create"} THEN Ended ELSE follow[g]]
        /\ UNCHANGED <<members, asked, crossed>>
    BY DEF FollowRejects
  <1>2. join' \in [Joins -> JoinStates] /\ follow' \in [Follows -> FollowStates]
    BY <1>1 DEF MemberInv, MemberTypeOK, JoinStates, FollowStates
  <1>3. \A g \in Follows : follow'[g].at \in {"queued", "check", "create"}
                               => follow'[g] = follow[g]
    BY <1>1 DEF Ended
  <1>4. \A y \in Pairs : Wanters(join', follow', y) \subseteq Wanters(join, follow, y)
    BY <1>1 DEF Wanters, JoinsAt, FollowsAt, Ended
  <1>5. Sole(members', asked', crossed', join', follow')
    BY <1>1, <1>4, SoleShrink
  <1>. QED BY <1>1, <1>2, <1>3, <1>5 DEF MemberInv, MemberTypeOK

LEMMA MemberInvNext ==
  ASSUME MemberInv, [Next]_vars
  PROVE  MemberInv'
  <1>1. CASE UNCHANGED memberVars
    BY <1>1 DEF memberVars, MemberInv, MemberTypeOK, Sole
  <1>2. ASSUME NEW j \in Joins, JoinStep(j) PROVE MemberInv'
    BY <1>2, JoinCheckKeeps, JoinEndKeeps DEF JoinStep
  <1>3. ASSUME NEW x \in Pairs, Leave(x) PROVE MemberInv'
    BY <1>3, LeaveKeeps
  <1>4. ASSUME NEW f \in Follows, FollowStep(f) PROVE MemberInv'
    BY <1>4, EmitKeeps, QueueKeeps, FollowCheckKeeps, FollowCreateKeeps, FollowRejectsKeeps
       DEF FollowStep, LoopStep
  <1>5. \/ UNCHANGED memberVars \/ \E j \in Joins : JoinStep(j)
        \/ (\E x \in Pairs : Leave(x)) \/ \E f \in Follows : FollowStep(f)
    BY DEF Next, vars, PickStep, PickRead, MakeBrand, SetType, FailPick, UpdateUser,
           Restart
  <1>. QED BY <1>1, <1>2, <1>3, <1>4, <1>5

\* Every variable keeps its type; a loop never passes the end of its list.
THEOREM MembershipTypeCorrect == Spec => []TypeOK
  <1>1. PickInv /\ MemberInv => TypeOK
    BY DEF PickInv, PickTypeOK, MemberInv, MemberTypeOK, TypeOK
  <1>. QED BY <1>1, PickInvInit, PickInvNext, MemberInvInit, MemberInvNext, PTL DEF Spec

\* Requests for a subscription that do not overlap leave one document or none,
\* as the last one asked (brand app.service.ts, addMemberToBrand and
\* addMemberToBrands, removeMemberFromBrand).
THEOREM SubscriptionsAreAsAsked == Spec => []SubscribedAsAsked
  <1>1. MemberInv => SubscribedAsAsked
    BY DEF MemberInv, Sole, SubscribedAsAsked
  <1>. QED BY <1>1, MemberInvInit, MemberInvNext, PTL DEF Spec

===============================================================================
