------------------------------ MODULE Membership ------------------------------
(***************************************************************************)
(* The account type of users and their subscriptions to brands: the auth   *)
(* service asks the brand service for a brand, for one subscription or, by *)
(* an event, for several.                                                  *)
(*                                                                         *)
(* A subscription is a document; there is no index on its user and brand,  *)
(* and any error of the search for one is taken for "there is none".  The  *)
(* handler of the event calls addMemberToBrands and does not return its    *)
(* promise: when the loop meets a subscription that exists, or an error,   *)
(* the rejection is unhandled and the brand process ends.                  *)
(***************************************************************************)
EXTENDS Integers, Sequences

CONSTANTS
    Users, Brands,
    Picks,      \* setAccountType requests; each also names its brand
    Joins,      \* subscribeChannel requests
    Follows,    \* updateUser requests with brands to follow
    BrandsOf,   \* those brands, in the order of the request
    None,       \* no account type, no brand
    Faults      \* whether "fail" may happen

ASSUME MembershipAssumption ==
    /\ BrandsOf \in [Follows -> Seq(Brands)]
    /\ \A f \in Follows : BrandsOf[f] # <<>>
    /\ None \notin {"user", "business"} \cup Picks
    /\ Faults \subseteq {"fail"}

VARIABLES
    up,         \* the brand process runs
    type,       \* account_type
    brandOf,    \* brand_uuid
    brands,     \* brands created for an account type
    pick,       \* the await each setAccountType is at, with its user and type
    members,    \* number of subscription documents of each user and brand
    join,       \* the await each subscribeChannel is at
    follow,     \* the await each event's loop is at, and its place in the list
    declared,   \* history: users whose type or brand is what a body last said
    asked,      \* history: who was told last to be subscribed to what
    crossed     \* history: subscriptions asked for twice at once, or unsearched

typeVars == <<type, brandOf, brands, pick, declared>>
memberVars == <<members, join, follow, asked, crossed>>
vars == <<up, typeVars, memberVars>>

-------------------------------------------------------------------------------
Pairs == Users \X Brands
Idle == [at |-> "idle"]
Ended == [at |-> "done"]
PickStates == {Idle, Ended} \cup
    [at: {"brand", "set"}, user: Users, type: {"user", "business"}]
JoinStates == {Idle, Ended} \cup [at: {"create"}, pair: Pairs]
FollowStates == {Idle, Ended} \cup
    [at: {"queued", "check", "create"}, user: Users, next: Nat \ {0}]

TypeOK ==
    /\ up \in BOOLEAN
    /\ type \in [Users -> {None, "user", "business"}]
    /\ brandOf \in [Users -> Picks \cup {None}]
    /\ brands \subseteq Picks
    /\ pick \in [Picks -> PickStates]
    /\ members \in [Pairs -> Nat]
    /\ join \in [Joins -> JoinStates]
    /\ follow \in [Follows -> FollowStates]
    /\ \A f \in Follows :
          follow[f].at \in {"queued", "check", "create"} => follow[f].next <= Len(BrandsOf[f])
    /\ declared \subseteq Users
    /\ asked \subseteq Pairs
    /\ crossed \subseteq Pairs

\* The body of a registration is stored as it is: a user may start with a type
\* and with a brand that nobody created.
Init ==
    /\ up = TRUE
    /\ type \in [Users -> {None, "user", "business"}]
    /\ brandOf \in [Users -> Picks \cup {None}]
    /\ declared = {u \in Users : type[u] = "business"}
    /\ brands = {}
    /\ pick = [p \in Picks |-> Idle]
    /\ members = [x \in Pairs |-> 0]
    /\ join = [j \in Joins |-> Idle]
    /\ follow = [f \in Follows |-> Idle]
    /\ asked = {} /\ crossed = {}

-------------------------------------------------------------------------------
(* setAccountType *)

PickRead(p, u, t) ==
    /\ pick[p] = Idle
    /\ type[u] = None
    /\ pick' = [pick EXCEPT ![p] =
                  [at |-> IF t = "business" THEN "brand" ELSE "set", user |-> u, type |-> t]]
    /\ UNCHANGED <<up, type, brandOf, brands, declared, memberVars>>

\* Variant for the mutation runs: the brand service only answers.
MakeBrandNot(p) ==
    /\ up
    /\ pick[p].at = "brand"
    /\ pick' = [pick EXCEPT ![p].at = "set"]
    /\ UNCHANGED <<up, type, brandOf, brands, declared, memberVars>>

\* createBrand of the brand service.
MakeBrand(p) ==
    /\ up
    /\ pick[p].at = "brand"
    /\ brands' = brands \cup {p}
    /\ pick' = [pick EXCEPT ![p].at = "set"]
    /\ UNCHANGED <<up, type, brandOf, declared, memberVars>>

SetType(p) ==
    /\ pick[p].at = "set"
    /\ type' = [type EXCEPT ![pick[p].user] = pick[p].type]
    /\ brandOf' = [brandOf EXCEPT ![pick[p].user] = IF pick[p].type = "business" THEN p ELSE @]
    /\ declared' = IF pick[p].type = "business" THEN declared \ {pick[p].user} ELSE declared
    /\ pick' = [pick EXCEPT ![p] = Ended]
    /\ UNCHANGED <<up, brands, memberVars>>

FailPick(p) ==
    /\ "fail" \in Faults
    /\ pick[p].at \in {"brand", "set"}
    /\ pick' = [pick EXCEPT ![p] = Ended]
    /\ UNCHANGED <<up, type, brandOf, brands, declared, memberVars>>

\* updateUser without brands to follow writes the brand its body names, if any.
UpdateUser(u, b) ==
    /\ brandOf' = [brandOf EXCEPT ![u] = b]
    /\ declared' = declared \cup {u}
    /\ UNCHANGED <<up, type, brands, pick, memberVars>>

-------------------------------------------------------------------------------
(* Subscriptions *)

\* History: another request for the subscription is between search and write.
Creating(x) ==
    \/ \E j \in Joins : join[j].at = "create" /\ join[j].pair = x
    \/ \E f \in Follows :
          follow[f].at = "create" /\ <<follow[f].user, BrandsOf[f][follow[f].next]>> = x

\* Variant for the mutation runs: a subscription is not searched for.
SearchesNothing(x) == crossed' = crossed

\* The search lets a request go on: there is no document, or it fails.
SearchPasses(x) ==
    \/ members[x] = 0 /\ crossed' = IF Creating(x) THEN crossed \cup {x} ELSE crossed
    \/ "fail" \in Faults /\ crossed' = crossed \cup {x}

Subscribe(x) ==
    /\ members' = [members EXCEPT ![x] = @ + 1]
    /\ asked' = IF x \in crossed THEN asked \ {x} ELSE asked \cup {x}

JoinCheck(j, x) ==
    /\ up
    /\ join[j] = Idle
    /\ type[x[1]] = "user"
    /\ SearchPasses(x)
    /\ join' = [join EXCEPT ![j] = [at |-> "create", pair |-> x]]
    /\ UNCHANGED <<up, typeVars, members, follow, asked>>

JoinCreate(j) ==
    /\ join[j].at = "create"
    /\ Subscribe(join[j].pair)
    /\ join' = [join EXCEPT ![j] = Ended]
    /\ UNCHANGED <<up, typeVars, follow, crossed>>

FailJoin(j) ==
    /\ "fail" \in Faults
    /\ join[j].at = "create"
    /\ join' = [join EXCEPT ![j] = Ended]
    /\ UNCHANGED <<up, typeVars, members, follow, asked, crossed>>

\* removeMemberFromBrand deletes one document.
Leave(x) ==
    /\ up
    /\ type[x[1]] = "user"
    /\ members[x] > 0
    /\ members' = [members EXCEPT ![x] = @ - 1]
    /\ asked' = asked \ {x}
    /\ crossed' = IF Creating(x) THEN crossed \cup {x} ELSE crossed
    /\ UNCHANGED <<up, typeVars, join, follow>>

-------------------------------------------------------------------------------
(* updateUser with brands, and addMemberToBrands                           *)

\* Of a user, or of one who says so in the request.
EmitFollow(f, u) ==
    /\ follow[f] = Idle
    /\ follow' = [follow EXCEPT ![f] = [at |-> "queued", user |-> u, next |-> 1]]
    /\ UNCHANGED <<up, typeVars, members, join, asked, crossed>>

\* The broker drops an event of which nothing was acknowledged.
LoseFollow(f) ==
    /\ "fail" \in Faults
    /\ follow[f].at = "queued"
    /\ follow' = [follow EXCEPT ![f] = Ended]
    /\ UNCHANGED <<up, typeVars, members, join, asked, crossed>>

TakeFollow(f) ==
    /\ up
    /\ follow[f].at = "queued"
    /\ follow' = [follow EXCEPT ![f].at = "check"]
    /\ UNCHANGED <<up, typeVars, members, join, asked, crossed>>

PairOf(f) == <<follow[f].user, BrandsOf[f][follow[f].next]>>

FollowCheck(f) ==
    /\ follow[f].at = "check"
    /\ SearchPasses(PairOf(f))
    /\ follow' = [follow EXCEPT ![f].at = "create"]
    /\ UNCHANGED <<up, typeVars, members, join, asked>>

FollowCreate(f) ==
    /\ follow[f].at = "create"
    /\ Subscribe(PairOf(f))
    /\ follow' = [follow EXCEPT ![f] =
                    IF follow[f].next = Len(BrandsOf[f]) THEN Ended
                    ELSE [follow[f] EXCEPT !.at = "check", !.next = @ + 1]]
    /\ UNCHANGED <<up, typeVars, join, crossed>>

\* The rest of the list is lost, with every other request of the process.
FollowRejects(f) ==
    /\ \/ follow[f].at = "check" /\ members[PairOf(f)] > 0
       \/ follow[f].at = "create" /\ "fail" \in Faults
    /\ up' = FALSE
    /\ join' = [j \in Joins |-> IF join[j].at = "create" THEN Ended ELSE join[j]]
    /\ follow' = [g \in Follows |-> IF follow[g].at \in {"check", "create"} THEN Ended ELSE follow[g]]
    /\ UNCHANGED <<typeVars, members, asked, crossed>>

Restart ==
    /\ ~up
    /\ up' = TRUE
    /\ UNCHANGED <<typeVars, memberVars>>

-------------------------------------------------------------------------------
PickStep(p) ==
    \/ \E u \in Users, t \in {"user", "business"} : PickRead(p, u, t)
    \/ MakeBrand(p) \/ SetType(p) \/ FailPick(p)

JoinStep(j) == (\E x \in Pairs : JoinCheck(j, x)) \/ JoinCreate(j) \/ FailJoin(j)

LoopStep(f) == FollowCheck(f) \/ FollowCreate(f) \/ FollowRejects(f)

FollowStep(f) ==
    \/ \E u \in Users : EmitFollow(f, u)
    \/ LoseFollow(f) \/ TakeFollow(f) \/ LoopStep(f)

Next ==
    \/ \E p \in Picks : PickStep(p)
    \/ \E j \in Joins : JoinStep(j)
    \/ \E u \in Users, b \in Picks \cup {None} : UpdateUser(u, b)
    \/ \E x \in Pairs : Leave(x)
    \/ \E f \in Follows : FollowStep(f)
    \/ Restart

Spec == Init /\ [][Next]_vars

-------------------------------------------------------------------------------
(* Properties *)

\* A business account has a brand that exists, however choices overlap and
\* fail, unless the body of a registration or of an update has said otherwise
\* since the type was chosen.
BusinessHasBrand ==
    \A u \in Users \ declared : type[u] = "business" => brandOf[u] \in brands

\* A user has one subscription to a brand or none, as asked for last, unless
\* two requests for it overlapped or a search failed.
SubscribedAsAsked ==
    \A x \in Pairs \ crossed : members[x] = IF x \in asked THEN 1 ELSE 0

===============================================================================
