--------------------------- MODULE ReferralsProofs ---------------------------
(***************************************************************************)
(* Theorems about Referrals, for any users, requests, thresholds, rewards  *)
(* and levels, and any number of codes and grants.                         *)
(***************************************************************************)
EXTENDS Referrals, FiniteSetTheorems, WellFoundedInduction, TLAPS

-----------------------------------------------------------------------------
(* The inductive invariant.                                                *)

\* What a request holds, when users k are known and r is the table of
\* referrals.
Fits(s, k, r) ==
  /\ s # Idle => s.user \in k
  /\ s.at \in {"claimed", "pay"} => s.number \in Thresholds
  /\ s.at = "upgrade" => s.number \in 2 .. MaxLevel
  /\ s.at \in {"insert", "update"} => s.referrer \in k \ {s.user}
  /\ s.at = "update" => r[s.user] # Nobody

Applies(j, u) == request[j].user = u /\ request[j].at \in Applying

\* A user who applies codes one at a time, and to the end: his referrer is in
\* none of the tables, or in the first and in the hands of his request, or in
\* both.
Whole(u) ==
  /\ \A j, k \in Requests : Applies(j, u) /\ Applies(k, u) => j = k
  /\ \A j \in Requests : request[j].user = u /\ request[j].at \in {"find", "insert"} =>
                           referral[u] = Nobody
  /\ \A j \in Requests : request[j].user = u /\ request[j].at = "update" =>
                           referral[u] = request[j].referrer /\ referredBy[u] = Nobody
  /\ (\A j \in Requests : request[j].user = u => request[j].at # "update") =>
        referredBy[u] = referral[u]

Invite(u) ==
  /\ referral[u] # u /\ referredBy[u] # u
  /\ referredBy[u] # Nobody => referral[u] # Nobody
  /\ referral[u] # Nobody => u \in known
  /\ u \notin torn => Whole(u)

RequestsFit == \A j \in Requests : Fits(request[j], known, referral)
CodesDrawn == \A u \in Users : code[u] \in 0 .. drawn
Invited == \A u \in Users : Invite(u)

IInv == TypeOK /\ RequestsFit /\ CodesDrawn /\ Invited

-----------------------------------------------------------------------------
(* A request moves; the others stay.                                       *)

Moved(j, at, user, referrer, number) ==
  /\ request' \in [Requests -> Served]
  /\ request'[j] = [at |-> at, user |-> user, referrer |-> referrer, number |-> number]
  /\ \A k \in Requests : k # j => request'[k] = request[k]

LEMMA GoMoves ==
  ASSUME TypeOK, NEW j \in Requests, NEW stage \in Stages, Go(j, stage)
  PROVE  Moved(j, stage, request[j].user, request[j].referrer, request[j].number)
  <1> DEFINE new == [request[j] EXCEPT !.at = stage]
  <1>1. request[j] \in Served /\ request \in [Requests -> Served]
    BY DEF TypeOK
  <1>2. request' = [request EXCEPT ![j] = new]
    BY <1>1 DEF Go
  <1>3. /\ new \in Served
        /\ new = [at |-> stage, user |-> request[j].user, referrer |-> request[j].referrer,
                  number |-> request[j].number]
    BY <1>1 DEF Served
  <1> HIDE DEF new
  <1> QED
    BY <1>1, <1>2, <1>3 DEF Moved

LEMMA DoneMoves ==
  ASSUME TypeOK, NEW j \in Requests, Done(j)
  PROVE  Moved(j, "idle", Nobody, Nobody, 0)
  <1>1. Idle \in Served
    BY DEF Idle, Served, Stages
  <1> QED
    BY <1>1 DEF TypeOK, Done, Moved, Idle

LEMMA StartMoves ==
  ASSUME TypeOK, NEW j \in Requests, NEW u \in Users, NEW stage \in Stages, NEW n \in Nat,
         Start(j, u, stage, n)
  PROVE  Moved(j, stage, u, Nobody, n) /\ request[j] = Idle /\ request[j].at = "idle"
  <1> DEFINE new == [at |-> stage, user |-> u, referrer |-> Nobody, number |-> n]
  <1>1. new \in Served
    BY DEF Served
  <1>2. request' = [request EXCEPT ![j] = new] /\ request[j] = Idle
    BY DEF Start
  <1> HIDE DEF new
  <1>3. request' \in [Requests -> Served] /\ request'[j] = new
          /\ \A k \in Requests : k # j => request'[k] = request[k]
    BY <1>1, <1>2 DEF TypeOK
  <1> QED
    BY <1>2, <1>3 DEF Moved, Idle, new

\* Once there, a referral stays as it is.
ReferralsStay == \A u \in Users : referral[u] # Nobody => referral'[u] = referral[u]

LEMMA FitMoved ==
  ASSUME IInv, NEW j \in Requests, NEW a, NEW u, NEW v, NEW n, Moved(j, a, u, v, n),
         known \subseteq known', known' \subseteq Users, ReferralsStay,
         a = "idle" => u = Nobody /\ v = Nobody /\ n = 0,
         a # "idle" => u \in known',
         a \in {"claimed", "pay"} => n \in Thresholds,
         a = "upgrade" => n \in 2 .. MaxLevel,
         a \in {"insert", "update"} => v \in known' \ {u},
         a = "update" => referral'[u] # Nobody
  PROVE  RequestsFit' /\ request' \in [Requests -> Served]
  <1>1. \A k \in Requests : Fits(request[k], known, referral)
    BY DEF IInv, RequestsFit
  <1>2. ASSUME NEW k \in Requests
        PROVE  Fits(request'[k], known', referral')
    <2>1. CASE k = j
      <3> DEFINE s == request'[j]
      <3>1. s.at = a /\ s.user = u /\ s.referrer = v /\ s.number = n /\ (a = "idle" => s = Idle)
        BY DEF Moved, Idle
      <3> HIDE DEF s
      <3>2. Fits(s, known', referral')
        BY <3>1 DEF Fits
      <3> QED
        BY <2>1, <3>2 DEF s
    <2>2. CASE k # j
      <3> DEFINE s == request[k]
      <3>1. request'[k] = s /\ s \in Served /\ Fits(s, known, referral)
        BY <1>1, <2>2 DEF Moved, IInv, TypeOK
      <3>2. s.at = "update" => s.user \in Users
        BY <3>1 DEF IInv, TypeOK, Idle, Fits
      <3> HIDE DEF s
      <3>3. Fits(s, known', referral')
        BY <3>1, <3>2 DEF Fits, ReferralsStay
      <3> QED
        BY <3>1, <3>3
    <2> QED
      BY <2>1, <2>2
  <1> QED
    BY <1>2 DEF Moved, RequestsFit

LEMMA FitStays ==
  ASSUME IInv, request' = request, known \subseteq known', known' \subseteq Users,
         referral' = referral
  PROVE  RequestsFit'
  BY DEF IInv, RequestsFit, Fits

\* A request that writes no referral is not one that applies a code, or was
\* not yet done with the tables.
LEMMA QuietInvited ==
  ASSUME IInv, NEW j \in Requests, NEW a, NEW u, NEW v, NEW n, Moved(j, a, u, v, n),
         a \notin Applying, request[j].at # "update",
         UNCHANGED <<known, referredBy, referral, torn>>
  PROVE  Invited'
  <1> SUFFICES ASSUME NEW w \in Users
               PROVE  Invite(w)'
    BY DEF Invited
  <1>1. \A k \in Requests :
          \/ request'[k] = request[k]
          \/ k = j /\ request'[k].at \notin Applying /\ request[k].at # "update"
    BY DEF Moved
  <1>2. Invite(w)
    BY DEF IInv, Invited
  <1>3. ASSUME w \notin torn, Whole(w)
        PROVE  Whole(w)'
    BY <1>1, <1>3 DEF Whole, Applies, Applying
  <1> QED
    BY <1>2, <1>3 DEF Invite

LEMMA InvitedStays ==
  ASSUME IInv, known \subseteq known', UNCHANGED <<request, referredBy, referral, torn>>
  PROVE  Invited'
  BY DEF IInv, Invited, Invite, Whole, Applies

LEMMA RequestType ==
  ASSUME IInv, NEW j \in Requests, request[j].at # "idle"
  PROVE  /\ request[j] \in Served /\ request[j].user \in known /\ request[j].user \in Users
         /\ request[j].number \in Nat
         /\ Fits(request[j], known, referral)
  BY DEF IInv, TypeOK, RequestsFit, Fits, Idle, Served

-----------------------------------------------------------------------------
(* Requests that write no referral.                                        *)

GkTyped ==
  /\ claimed \in [Users -> SUBSET Thresholds]
  /\ gk \in [Users -> Int] /\ level \in [Users -> Levels] /\ granted \in [Users -> Int]
  /\ grants \in 0 .. MaxGrants /\ hasty \subseteq Users

CodesTyped ==
  /\ code \in [Users -> Codes \cup {NoCode}]
  /\ \A u, v \in Users : code[u] = code[v] /\ code[u] # NoCode => u = v
  /\ drawn \in 0 .. MaxCodes
  /\ CodesDrawn

LEMMA Quiet ==
  ASSUME IInv, NEW j \in Requests, NEW a, NEW u, NEW v, NEW n, Moved(j, a, u, v, n),
         request[j].at # "update", UNCHANGED <<known, referredBy, referral, torn>>,
         GkTyped', CodesTyped', a \notin Applying,
         a = "idle" => u = Nobody /\ v = Nobody /\ n = 0,
         a # "idle" => u \in known,
         a \in {"claimed", "pay"} => n \in Thresholds,
         a = "upgrade" => n \in 2 .. MaxLevel
  PROVE  IInv'
  <1>1. /\ known' = known /\ known \subseteq Users /\ referral' = referral
        /\ known \subseteq known' /\ known' \subseteq Users /\ ReferralsStay
        /\ a \notin {"insert", "update"} /\ a # "update"
    BY DEF IInv, TypeOK, ReferralsStay, Applying
  <1>2. RequestsFit' /\ request' \in [Requests -> Served]
    BY <1>1, FitMoved
  <1>3. Invited'
    BY QuietInvited
  <1> QED
    BY <1>1, <1>2, <1>3 DEF IInv, TypeOK, GkTyped, CodesTyped, RequestsFit, Fits

LEMMA CodesStay ==
  ASSUME IInv, UNCHANGED codeVars
  PROVE  CodesTyped'
  BY DEF IInv, TypeOK, codeVars, CodesDrawn, CodesTyped

LEMMA GkStays ==
  ASSUME IInv, UNCHANGED gkVars
  PROVE  GkTyped'
  BY DEF IInv, TypeOK, gkVars, GkTyped

LEMMA AskCodeHolds ==
  ASSUME IInv, NEW j \in Requests, NEW u \in Users, AskCode(j, u)
  PROVE  IInv'
  <1>1. Moved(j, "newcode", u, Nobody, 0) /\ request[j].at = "idle"
    BY StartMoves DEF AskCode, IInv, Stages
  <1>2. u \in known /\ UNCHANGED <<known, referredBy, referral, torn>> /\ GkTyped' /\ CodesTyped'
    BY CodesStay, GkStays DEF AskCode, inviteVars
  <1> QED
    BY <1>1, <1>2, Quiet DEF Applying

LEMMA SetCodeHolds ==
  ASSUME IInv, NEW j \in Requests, SetCode(j)
  PROVE  IInv'
  <1> DEFINE u == request[j].user
  <1>1. Moved(j, "idle", Nobody, Nobody, 0) /\ request[j].at = "newcode" /\ u \in Users
    BY DoneMoves, RequestType DEF SetCode, IInv
  <1>2. UNCHANGED <<known, referredBy, referral, torn>> /\ GkTyped'
    BY GkStays DEF SetCode, inviteVars
  <1>3. /\ drawn \in Nat /\ drawn < MaxCodes /\ drawn' = drawn + 1 /\ MaxCodes \in Nat
        /\ code' = [code EXCEPT ![u] = drawn + 1] /\ code \in [Users -> Codes \cup {NoCode}]
    BY ReferralsAssumption DEF SetCode, IInv, TypeOK
  <1> HIDE DEF u
  <1>4. /\ code'[u] = drawn + 1 /\ \A w \in Users : w # u => code'[w] = code[w]
        /\ code' \in [Users -> Codes \cup {NoCode}]
    BY <1>1, <1>3 DEF Codes
  <1>5. \A w \in Users : code[w] \in 0 .. drawn
    BY DEF IInv, CodesDrawn
  <1>6. CodesTyped'
    <2>1. \A w \in Users : code'[w] \in 0 .. drawn'
      BY <1>3, <1>4, <1>5
    <2>2. \A w \in Users : code[w] # drawn + 1
      BY <1>3, <1>5
    <2>3. \A w, x \in Users : code'[w] = code'[x] /\ code'[w] # NoCode => w = x
      BY <1>4, <2>2 DEF IInv, TypeOK
    <2> QED
      BY <1>3, <1>4, <2>1, <2>3 DEF CodesTyped, CodesDrawn
  <1> QED
    BY <1>1, <1>2, <1>6, Quiet DEF Applying

LEMMA GetReferralStatsHolds ==
  ASSUME IInv, NEW j \in Requests, NEW u \in Users, NEW t \in Thresholds, GetReferralStats(j, u, t)
  PROVE  IInv'
  <1>1. Moved(j, "claimed", u, Nobody, t) /\ request[j].at = "idle"
    BY StartMoves, ReferralsAssumption DEF GetReferralStats, IInv, Stages
  <1>2. u \in known /\ UNCHANGED <<known, referredBy, referral, torn>> /\ CodesTyped'
    BY CodesStay DEF GetReferralStats, inviteVars
  <1>3. hasty' \subseteq Users
    BY DEF GetReferralStats, IInv, TypeOK
  <1>4. GkTyped'
    BY <1>3 DEF GetReferralStats, IInv, TypeOK, GkTyped
  <1> QED
    BY <1>1, <1>2, <1>4, Quiet DEF Applying

LEMMA IsGKRewardClaimedHolds ==
  ASSUME IInv, NEW j \in Requests, IsGKRewardClaimed(j)
  PROVE  IInv'
  <1> DEFINE s == request[j]
  <1>1. s.at = "claimed" /\ s.user \in known /\ s.user \in Users /\ s.number \in Thresholds
    BY RequestType DEF IsGKRewardClaimed, Fits
  <1>2. UNCHANGED <<known, referredBy, referral, torn>> /\ CodesTyped'
    BY CodesStay DEF IsGKRewardClaimed, inviteVars
  <1>3. GkTyped'
    <2>1. hasty' \subseteq Users
      BY <1>1 DEF IsGKRewardClaimed, IInv, TypeOK
    <2> QED
      BY <2>1 DEF IsGKRewardClaimed, IInv, TypeOK, GkTyped
  <1>4. CASE Done(j)
    <2>1. Moved(j, "idle", Nobody, Nobody, 0)
      BY <1>4, DoneMoves DEF IInv
    <2> QED
      BY <1>1, <1>2, <1>3, <2>1, Quiet DEF Applying
  <1>5. CASE Go(j, "pay")
    <2>1. Moved(j, "pay", s.user, s.referrer, s.number)
      BY <1>5, GoMoves DEF IInv, Stages
    <2> HIDE DEF s
    <2> QED
      BY <1>1, <1>2, <1>3, <2>1, Quiet DEF Applying, s
  <1> QED
    BY <1>4, <1>5 DEF IsGKRewardClaimed

LEMMA ClaimGKRewardHolds ==
  ASSUME IInv, NEW j \in Requests, ClaimGKReward(j)
  PROVE  IInv'
  <1> DEFINE u == request[j].user
             t == request[j].number
  <1>1. /\ Moved(j, "idle", Nobody, Nobody, 0) /\ request[j].at = "pay"
        /\ u \in Users /\ t \in Thresholds
    BY DoneMoves, RequestType DEF ClaimGKReward, IInv, Fits
  <1>2. UNCHANGED <<known, referredBy, referral, torn>> /\ CodesTyped'
    BY CodesStay DEF ClaimGKReward, inviteVars
  <1>3. /\ claimed' = [claimed EXCEPT ![u] = @ \cup {t}]
        /\ gk' = [gk EXCEPT ![u] = @ + Reward[t]]
        /\ UNCHANGED <<level, granted, grants, hasty>>
    BY DEF ClaimGKReward
  <1> HIDE DEF u, t
  <1>4. Reward[t] \in Int
    <2>1. Reward \in [Thresholds -> Nat]
      BY ReferralsAssumption
    <2> QED
      BY <1>1, <2>1
  <1>5. claimed' \in [Users -> SUBSET Thresholds] /\ gk' \in [Users -> Int]
    BY <1>1, <1>3, <1>4 DEF IInv, TypeOK
  <1>6. GkTyped'
    BY <1>3, <1>5 DEF IInv, TypeOK, GkTyped
  <1> QED
    BY <1>1, <1>2, <1>6, Quiet DEF Applying

LEMMA GetCharacterLevelHolds ==
  ASSUME IInv, NEW j \in Requests, NEW u \in Users, GetCharacterLevel(j, u)
  PROVE  IInv'
  <1> DEFINE n == level[u] + 1
  <1>1. n \in 2 .. MaxLevel /\ n \in Nat /\ u \in known
    BY ReferralsAssumption DEF GetCharacterLevel, IInv, TypeOK, Levels
  <1>2. Start(j, u, "upgrade", n)
    BY DEF GetCharacterLevel
  <1> HIDE DEF n
  <1>3. Moved(j, "upgrade", u, Nobody, n) /\ request[j].at = "idle"
    BY <1>1, <1>2, StartMoves DEF IInv, Stages
  <1>4. UNCHANGED <<known, referredBy, referral, torn>> /\ GkTyped' /\ CodesTyped'
    BY CodesStay, GkStays DEF GetCharacterLevel, inviteVars
  <1> QED
    BY <1>1, <1>3, <1>4, Quiet DEF Applying

LEMMA UpgradeCharacterHolds ==
  ASSUME IInv, NEW j \in Requests, UpgradeCharacter(j)
  PROVE  IInv'
  <1> DEFINE u == request[j].user
             new == request[j].number
  <1>1. /\ Moved(j, "idle", Nobody, Nobody, 0) /\ request[j].at = "upgrade"
        /\ u \in Users /\ new \in 2 .. MaxLevel
    BY DoneMoves, RequestType DEF UpgradeCharacter, IInv, Fits
  <1>2. UNCHANGED <<known, referredBy, referral, torn>> /\ CodesTyped'
    BY CodesStay DEF UpgradeCharacter, inviteVars
  <1>3. /\ \/ level' = [level EXCEPT ![u] = new] /\ gk' = [gk EXCEPT ![u] = @ - Cost[new]]
           \/ level' = level /\ gk' = gk
        /\ UNCHANGED <<claimed, granted, grants, hasty>>
    BY DEF UpgradeCharacter
  <1>4. Cost[new] \in Int /\ new \in Levels
    BY <1>1, ReferralsAssumption DEF Levels
  <1> HIDE DEF u, new
  <1>5. level' \in [Users -> Levels] /\ gk' \in [Users -> Int]
    BY <1>1, <1>3, <1>4 DEF IInv, TypeOK
  <1>6. GkTyped'
    BY <1>3, <1>5 DEF IInv, TypeOK, GkTyped
  <1> QED
    BY <1>1, <1>2, <1>6, Quiet DEF Applying

LEMMA AddUserGKHolds ==
  ASSUME IInv, NEW u \in Users, NEW amount \in Grants, AddUserGK(u, amount)
  PROVE  IInv'
  <1>1. /\ UNCHANGED <<known, referredBy, referral, torn, request, claimed, level, hasty>>
        /\ CodesTyped'
    BY CodesStay DEF AddUserGK, inviteVars
  <1>2. amount \in Int
    BY ReferralsAssumption
  <1>3. gk' \in [Users -> Int] /\ granted' \in [Users -> Int]
    BY <1>2 DEF AddUserGK, IInv, TypeOK
  <1>4. grants' \in 0 .. MaxGrants
    BY ReferralsAssumption DEF AddUserGK, IInv, TypeOK
  <1>5. known \subseteq known' /\ known' \subseteq Users
    BY <1>1 DEF IInv, TypeOK
  <1>6. RequestsFit' /\ Invited'
    BY <1>1, <1>5, FitStays, InvitedStays
  <1> QED
    BY <1>1, <1>3, <1>4, <1>6 DEF IInv, TypeOK, CodesTyped

-----------------------------------------------------------------------------
(* Requests that apply a code.                                             *)

\* What is left when the requests fit and the users are invited well.
LEMMA Inviting ==
  ASSUME IInv, RequestsFit', request' \in [Requests -> Served], Invited',
         known \subseteq known', known' \subseteq Users, torn' \subseteq Users,
         referredBy' \in [Users -> known' \cup {Nobody}],
         referral' \in [Users -> known' \cup {Nobody}],
         UNCHANGED codeVars, UNCHANGED gkVars
  PROVE  IInv'
  <1>1. GkTyped' /\ CodesTyped'
    BY CodesStay, GkStays
  <1> QED
    BY <1>1 DEF IInv, TypeOK, GkTyped, CodesTyped, RequestsFit, Fits

\* The tables as they were.
LEMMA TablesType ==
  ASSUME IInv, known \subseteq known', known' \subseteq Users,
         UNCHANGED <<referredBy, referral>>
  PROVE  /\ referredBy' \in [Users -> known' \cup {Nobody}]
         /\ referral' \in [Users -> known' \cup {Nobody}]
         /\ ReferralsStay
  BY DEF IInv, TypeOK, ReferralsStay

\* Nobody applies a code for the user: a request may begin to.
LEMMA Begins ==
  ASSUME IInv, NEW j \in Requests, NEW u \in Users, NEW n, Moved(j, "find", u, Nobody, n),
         request[j].at = "idle", request[j].user = Nobody,
         referral[u] = Nobody, known \subseteq known',
         UNCHANGED <<referredBy, referral>>, torn \subseteq torn',
         u \notin torn' => \A k \in Requests : ~Applies(k, u)
  PROVE  Invited'
  <1> SUFFICES ASSUME NEW w \in Users
               PROVE  Invite(w)'
    BY DEF Invited
  <1>1. /\ request'[j].at = "find" /\ request'[j].user = u
        /\ \A k \in Requests : k # j => request'[k] = request[k]
        /\ Invite(w)
    BY DEF Moved, IInv, Invited
  <1>2. ASSUME w \notin torn'
        PROVE  Whole(w)'
    <2>1. Whole(w)
      BY <1>1, <1>2 DEF Invite
    <2>2. CASE w # u
      BY <1>1, <2>1, <2>2 DEF Whole, Applies
    <2>3. CASE w = u
      <3>1. \A k \in Requests : k # j => ~(request'[k].user = u /\ request'[k].at \in Applying)
        BY <1>1, <1>2, <2>3 DEF Applies
      <3>2. referredBy[u] = referral[u]
        BY <1>2, <2>1, <2>3 DEF Whole, Applies, Applying
      <3> QED
        BY <1>1, <2>3, <3>1, <3>2 DEF Whole, Applies, Applying
    <2> QED
      BY <2>2, <2>3
  <1> QED
    BY <1>1, <1>2 DEF Invite

LEMMA AuthHolds ==
  ASSUME IInv, NEW j \in Requests, NEW u \in Users, Auth(j, u)
  PROVE  IInv'
  <1>1. /\ known' = known \cup {u} /\ u \notin known
        /\ known \subseteq known' /\ known' \subseteq Users /\ u \in known'
        /\ UNCHANGED <<referredBy, referral, torn>> /\ UNCHANGED codeVars /\ UNCHANGED gkVars
    BY DEF Auth, inviteVars, IInv, TypeOK
  <1>2. torn' \subseteq Users
    BY <1>1 DEF IInv, TypeOK
  <1>3. CASE UNCHANGED request
    <2>1. RequestsFit' /\ Invited' /\ request' \in [Requests -> Served]
      BY <1>1, <1>3, FitStays, InvitedStays DEF IInv, TypeOK
    <2> QED
      BY <1>1, <1>2, <2>1, TablesType, Inviting
  <1>4. ASSUME NEW c \in 1 .. drawn, Start(j, u, "find", c)
        PROVE  IInv'
    <2>1. Moved(j, "find", u, Nobody, c) /\ request[j].at = "idle" /\ request[j].user = Nobody
      <3>1. c \in Nat
        BY DEF IInv, TypeOK
      <3>2. request[j] = Idle
        BY <1>4 DEF Start
      <3> QED
        BY <1>4, <3>1, <3>2, StartMoves DEF IInv, Stages, Applying, Idle
    <2>2. referral[u] = Nobody
      BY <1>1 DEF IInv, Invited, Invite
    <2>3. \A k \in Requests : request[k].user # u
      BY <1>1, ReferralsAssumption DEF IInv, TypeOK, Idle
    <2>4. Invited'
      BY <1>1, <2>1, <2>2, <2>3, Begins DEF Applies
    <2>5. RequestsFit' /\ request' \in [Requests -> Served]
      BY <1>1, <2>1, TablesType, FitMoved
    <2> QED
      BY <1>1, <1>2, <2>4, <2>5, TablesType, Inviting
  <1> QED
    BY <1>3, <1>4 DEF Auth

LEMMA ApplyReferralCodeHolds ==
  ASSUME IInv, NEW j \in Requests, NEW u \in Users, NEW c \in Codes, ApplyReferralCode(j, u, c)
  PROVE  IInv'
  <1>1. /\ known \subseteq known' /\ known' \subseteq Users /\ u \in known' /\ known' = known
        /\ UNCHANGED <<referredBy, referral>> /\ UNCHANGED codeVars /\ UNCHANGED gkVars
        /\ referral[u] = Nobody
    BY DEF ApplyReferralCode, IInv, TypeOK
  <1>2. /\ torn' \subseteq Users /\ torn \subseteq torn'
        /\ u \notin torn' => Busy(u, Applying) = {}
    BY DEF ApplyReferralCode, IInv, TypeOK
  <1>3. Moved(j, "find", u, Nobody, c) /\ request[j].at = "idle" /\ request[j].user = Nobody
    <2>1. c \in Nat /\ Start(j, u, "find", c) /\ request[j] = Idle
      BY DEF ApplyReferralCode, Start, Codes
    <2> QED
      BY <2>1, StartMoves DEF IInv, Stages, Applying, Idle
  <1>4. u \notin torn' => \A k \in Requests : ~Applies(k, u)
    BY <1>2 DEF Busy, Applies
  <1>5. Invited'
    BY <1>1, <1>2, <1>3, <1>4, Begins
  <1>6. RequestsFit' /\ request' \in [Requests -> Served]
    BY <1>1, <1>3, TablesType, FitMoved
  <1> QED
    BY <1>1, <1>2, <1>5, <1>6, TablesType, Inviting

LEMMA FoundType ==
  ASSUME NEW s \in Served, NEW v
  PROVE  [s EXCEPT !.at = "insert", !.referrer = v]
           = [at |-> "insert", user |-> s.user, referrer |-> v, number |-> s.number]
  <1> DEFINE t == [at |-> "insert", user |-> s.user, referrer |-> s.referrer, number |-> s.number]
  <1>1. [s EXCEPT !.at = "insert"] = t
    BY DEF Served
  <1>2. [t EXCEPT !.referrer = v]
          = [at |-> "insert", user |-> s.user, referrer |-> v, number |-> s.number]
    OBVIOUS
  <1> QED
    BY <1>1, <1>2, Zenon

LEMMA GetUserByReferralCodeHolds ==
  ASSUME IInv, NEW j \in Requests, GetUserByReferralCode(j)
  PROVE  IInv'
  <1> DEFINE s == request[j]
  <1>1. s \in Served /\ s.at = "find" /\ s.user \in Users /\ s.user \in known
    BY RequestType DEF GetUserByReferralCode
  <1>2. /\ UNCHANGED <<known, referredBy, referral, torn>> /\ UNCHANGED codeVars
        /\ UNCHANGED gkVars /\ GkTyped' /\ CodesTyped'
        /\ known \subseteq known' /\ known' \subseteq Users /\ torn' \subseteq Users
    BY CodesStay, GkStays DEF GetUserByReferralCode, inviteVars, IInv, TypeOK
  <1>3. CASE Done(j)
    <2>1. Moved(j, "idle", Nobody, Nobody, 0)
      BY <1>3, DoneMoves DEF IInv
    <2> QED
      BY <1>1, <1>2, <2>1, Quiet DEF Applying
  <1>4. ASSUME NEW v \in known \ {s.user},
               request' = [request EXCEPT ![j].at = "insert", ![j].referrer = v]
        PROVE  IInv'
    <2> DEFINE u == s.user
               n == s.number
               new == [s EXCEPT !.at = "insert", !.referrer = v]
    <2>1. /\ request \in [Requests -> Served] /\ v \in Users
      BY DEF IInv, TypeOK
    <2>2. request' = [request EXCEPT ![j] = new]
      BY <1>4, <2>1
    <2> HIDE DEF s
    <2>3. /\ new \in Served
          /\ new = [at |-> "insert", user |-> u, referrer |-> v, number |-> n]
      <3>1. "insert" \in Stages
        BY DEF Stages, Applying
      <3>2. s \in [at : Stages, user : Users \cup {Nobody}, referrer : Users \cup {Nobody},
                   number : Nat]
        BY <1>1 DEF Served
      <3>3. new = [at |-> "insert", user |-> u, referrer |-> v, number |-> n]
        BY <1>1, FoundType
      <3>4. u \in Users \cup {Nobody} /\ n \in Nat
        BY <3>2
      <3> HIDE DEF u, n, new
      <3> QED
        BY <2>1, <3>1, <3>3, <3>4 DEF Served
    <2> HIDE DEF new
    <2> USE DEF s
    <2>4. Moved(j, "insert", u, v, n)
      BY <2>1, <2>2, <2>3 DEF Moved
    <2>5. RequestsFit' /\ request' \in [Requests -> Served]
      BY <1>1, <1>2, <2>4, TablesType, FitMoved
    <2>6. Invited'
      <3> SUFFICES ASSUME NEW w \in Users
                   PROVE  Invite(w)'
        BY DEF Invited
      <3>1. /\ request'[j].at = "insert" /\ request'[j].user = request[j].user
            /\ request[j].at = "find" /\ Invite(w)
            /\ \A k \in Requests : k # j => request'[k] = request[k]
        BY <1>1, <2>4 DEF Moved, IInv, Invited
      <3>2. ASSUME Whole(w)
            PROVE  Whole(w)'
        BY <1>2, <3>1, <3>2 DEF Whole, Applies, Applying
      <3> QED
        BY <1>2, <3>1, <3>2 DEF Invite
    <2> QED
      BY <1>2, <2>5, <2>6, TablesType, Inviting
  <1> QED
    BY <1>3, <1>4 DEF GetUserByReferralCode

LEMMA CreateReferralHolds ==
  ASSUME IInv, NEW j \in Requests, CreateReferral(j)
  PROVE  IInv' /\ ReferralsStay
  <1> DEFINE u == request[j].user
             v == request[j].referrer
             n == request[j].number
             r == IF referral[u] = Nobody THEN v ELSE referral[u]
  <1>1. /\ request[j].at = "insert" /\ u \in Users /\ u \in known /\ v \in known \ {u}
        /\ v # Nobody
    BY RequestType, ReferralsAssumption DEF CreateReferral, Fits, IInv, TypeOK
  <1>2. /\ UNCHANGED <<known, referredBy, torn>> /\ UNCHANGED codeVars /\ UNCHANGED gkVars
        /\ known \subseteq known' /\ known' \subseteq Users /\ torn' \subseteq Users
        /\ referral \in [Users -> known \cup {Nobody}]
        /\ referredBy' \in [Users -> known' \cup {Nobody}]
    BY DEF CreateReferral, IInv, TypeOK
  <1>3. referral' = [referral EXCEPT ![u] = r]
    BY <1>1, <1>2 DEF CreateReferral
  <1>4. Moved(j, "update", u, v, n)
    BY GoMoves DEF CreateReferral, IInv, Stages, Applying
  <1>5. /\ r \in known /\ r # u /\ r # Nobody /\ (referral[u] # Nobody => r = referral[u])
        /\ (referral[u] = Nobody => r = v)
    BY <1>1, <1>2, ReferralsAssumption DEF IInv, TypeOK, Invited, Invite
  <1> HIDE DEF r, u, v, n
  <1>6. /\ referral'[u] = r /\ \A w \in Users : w # u => referral'[w] = referral[w]
        /\ referral' \in [Users -> known' \cup {Nobody}]
        /\ ReferralsStay
    BY <1>1, <1>2, <1>3, <1>5 DEF ReferralsStay
  <1>7. RequestsFit' /\ request' \in [Requests -> Served]
    BY <1>1, <1>2, <1>4, <1>5, <1>6, FitMoved
  <1>8. Invited'
    <2> SUFFICES ASSUME NEW w \in Users
                 PROVE  Invite(w)'
      BY DEF Invited
    <2>1. /\ request'[j].at = "update" /\ request'[j].user = u /\ request'[j].referrer = v
          /\ request[j].at = "insert" /\ request[j].user = u
          /\ \A k \in Requests : k # j => request'[k] = request[k]
      BY <1>1, <1>4 DEF Moved, u
    <2>2. Invite(w)
      BY DEF IInv, Invited
    <2>3. CASE w # u
      <3>1. ASSUME Whole(w)
            PROVE  Whole(w)'
        BY <1>2, <1>6, <2>1, <2>3, <3>1 DEF Whole, Applies
      <3> QED
        BY <1>2, <1>6, <2>2, <2>3, <3>1 DEF Invite
    <2>4. CASE w = u
      <3>1. ASSUME Whole(w)
            PROVE  Whole(w)'
        \* The only request of his: neither table has him.
        <4>1. \A k \in Requests : request[k].user = u /\ request[k].at \in Applying => k = j
          BY <2>1, <2>4, <3>1 DEF Whole, Applies, Applying
        <4>2. referral[u] = Nobody /\ referredBy[u] = Nobody
          BY <2>1, <2>4, <3>1, <4>1 DEF Whole, Applying
        <4> QED
          BY <1>2, <1>5, <1>6, <2>1, <2>4, <4>1, <4>2 DEF Whole, Applies, Applying
      <3> QED
        BY <1>1, <1>2, <1>5, <1>6, <2>2, <2>4, <3>1 DEF Invite
    <2> QED
      BY <2>3, <2>4
  <1> QED
    BY <1>2, <1>6, <1>7, <1>8, Inviting

LEMMA SetReferredByHolds ==
  ASSUME IInv, NEW j \in Requests, SetReferredBy(j)
  PROVE  /\ IInv'
         /\ \A u \in Users : referredBy[u] # Nobody => referredBy'[u] = referredBy[u]
  <1> DEFINE u == request[j].user
             v == request[j].referrer
             b == IF referredBy[u] = Nobody THEN v ELSE referredBy[u]
  <1>1. /\ request[j].at = "update" /\ u \in Users /\ v \in known \ {u} /\ v # Nobody
        /\ referral[u] # Nobody
    BY RequestType, ReferralsAssumption DEF SetReferredBy, Fits, IInv, TypeOK
  <1>2. /\ UNCHANGED <<known, referral, torn>> /\ UNCHANGED codeVars /\ UNCHANGED gkVars
        /\ known \subseteq known' /\ known' \subseteq Users /\ torn' \subseteq Users
        /\ referredBy \in [Users -> known \cup {Nobody}]
        /\ referral' \in [Users -> known' \cup {Nobody}]
        /\ ReferralsStay
    BY DEF SetReferredBy, IInv, TypeOK, ReferralsStay
  <1>3. referredBy' = [referredBy EXCEPT ![u] = b]
    BY <1>1, <1>2 DEF SetReferredBy
  <1>4. Moved(j, "idle", Nobody, Nobody, 0)
    BY DoneMoves DEF SetReferredBy, IInv
  <1>5. /\ b \in known /\ b # u /\ b # Nobody /\ (referredBy[u] # Nobody => b = referredBy[u])
        /\ (referredBy[u] = Nobody => b = v)
    BY <1>1, <1>2, ReferralsAssumption DEF IInv, TypeOK, Invited, Invite
  <1> HIDE DEF b, u, v
  <1>6. /\ referredBy'[u] = b /\ \A w \in Users : w # u => referredBy'[w] = referredBy[w]
        /\ referredBy' \in [Users -> known' \cup {Nobody}]
        /\ \A w \in Users : referredBy[w] # Nobody => referredBy'[w] = referredBy[w]
    BY <1>1, <1>2, <1>3, <1>5
  <1>7. RequestsFit' /\ request' \in [Requests -> Served]
    BY <1>2, <1>4, FitMoved
  <1>8. Invited'
    <2> SUFFICES ASSUME NEW w \in Users
                 PROVE  Invite(w)'
      BY DEF Invited
    <2>1. /\ request'[j].at = "idle" /\ request'[j].user = Nobody
          /\ request[j].at = "update" /\ request[j].user = u /\ request[j].referrer = v
          /\ \A k \in Requests : k # j => request'[k] = request[k]
      BY <1>1, <1>4 DEF Moved, u, v
    <2>2. Invite(w) /\ w # Nobody
      BY ReferralsAssumption DEF IInv, Invited
    <2>3. CASE w # u
      <3>1. ASSUME Whole(w)
            PROVE  Whole(w)'
        BY <1>2, <1>6, <2>1, <2>2, <2>3, <3>1 DEF Whole, Applies
      <3> QED
        BY <1>2, <1>6, <2>2, <2>3, <3>1 DEF Invite
    <2>4. CASE w = u
      <3>1. ASSUME Whole(w)
            PROVE  Whole(w)'
        <4>1. \A k \in Requests : request[k].user = u /\ request[k].at \in Applying => k = j
          BY <2>1, <2>4, <3>1 DEF Whole, Applies, Applying
        <4>2. referral[u] = v /\ referredBy[u] = Nobody
          BY <2>1, <2>4, <3>1 DEF Whole
        <4> QED
          BY <1>2, <1>5, <1>6, <2>1, <2>2, <2>4, <4>1, <4>2 DEF Whole, Applies, Applying
      <3> QED
        BY <1>1, <1>2, <1>5, <1>6, <2>2, <2>4, <3>1 DEF Invite
    <2> QED
      BY <2>3, <2>4
  <1> QED
    BY <1>2, <1>6, <1>7, <1>8, Inviting

LEMMA FailHolds ==
  ASSUME IInv, NEW j \in Requests, Fail(j)
  PROVE  IInv'
  <1>1. Moved(j, "idle", Nobody, Nobody, 0)
    BY DoneMoves DEF Fail, IInv
  <1>2. /\ UNCHANGED <<known, referredBy, referral>> /\ UNCHANGED codeVars /\ UNCHANGED gkVars
        /\ known \subseteq known' /\ known' \subseteq Users /\ torn \subseteq torn'
        /\ GkTyped' /\ CodesTyped'
    BY CodesStay, GkStays DEF Fail, IInv, TypeOK
  <1>3. CASE request[j].at # "update"
    BY <1>1, <1>2, <1>3, Quiet DEF Fail, Applying
  <1>4. CASE request[j].at = "update"
    <2> DEFINE u == request[j].user
    <2>1. u \in Users /\ torn' = torn \cup {u}
      BY <1>4, RequestType DEF Fail
    <2>2. torn' \subseteq Users
      BY <2>1 DEF IInv, TypeOK
    <2>3. RequestsFit' /\ request' \in [Requests -> Served]
      BY <1>1, <1>2, TablesType, FitMoved
    <2>4. Invited'
      <3> SUFFICES ASSUME NEW w \in Users
                   PROVE  Invite(w)'
        BY DEF Invited
      <3>1. /\ request'[j].user = Nobody /\ w # Nobody /\ Invite(w)
            /\ \A k \in Requests : k # j => request'[k] = request[k]
        BY <1>1, ReferralsAssumption DEF Moved, IInv, Invited
      <3>2. ASSUME w # u, Whole(w)
            PROVE  Whole(w)'
        BY <1>2, <3>1, <3>2 DEF Whole, Applies
      <3> QED
        BY <1>2, <2>1, <3>1, <3>2 DEF Invite
    <2> QED
      BY <1>2, <2>2, <2>3, <2>4, TablesType, Inviting
  <1> QED
    BY <1>3, <1>4

-----------------------------------------------------------------------------
(* The theorems.                                                           *)

LEMMA InitHolds == Init => IInv
  <1> SUFFICES ASSUME Init
               PROVE  IInv
    OBVIOUS
  <1>1. Idle \in Served /\ Idle.at = "idle" /\ Idle.user = Nobody
    BY DEF Idle, Served, Stages
  <1>2. TypeOK
    BY <1>1, ReferralsAssumption DEF Init, TypeOK, Levels, NoCode
  <1>3. RequestsFit /\ CodesDrawn
    BY <1>1 DEF Init, RequestsFit, Fits, CodesDrawn, NoCode
  <1>4. Invited
    BY <1>1, ReferralsAssumption DEF Init, Invited, Invite, Whole, Applies, Applying
  <1> QED
    BY <1>2, <1>3, <1>4 DEF IInv

LEMMA NextHolds == IInv /\ [Next]_vars => IInv'
  <1> SUFFICES ASSUME IInv, [Next]_vars
               PROVE  IInv'
    OBVIOUS
  <1>1. ASSUME NEW j \in Requests, Step(j)
        PROVE  IInv'
    BY <1>1, SetCodeHolds, GetUserByReferralCodeHolds, CreateReferralHolds, SetReferredByHolds,
       IsGKRewardClaimedHolds, ClaimGKRewardHolds, UpgradeCharacterHolds, FailHolds DEF Step
  <1>2. ASSUME NEW j \in Requests, NEW u \in Users, Ask(j, u)
        PROVE  IInv'
    BY <1>2, AskCodeHolds, AuthHolds, ApplyReferralCodeHolds, GetReferralStatsHolds,
       GetCharacterLevelHolds DEF Ask
  <1>3. CASE UNCHANGED vars
    <2>1. UNCHANGED <<known, code, drawn, referredBy, referral, torn, claimed, gk, level, granted,
                      grants, hasty, request>>
      BY <1>3 DEF vars, codeVars, inviteVars, gkVars
    <2> QED
      BY <2>1 DEF IInv, TypeOK, RequestsFit, Fits, CodesDrawn, Invited, Invite, Whole, Applies
  <1> QED
    BY <1>1, <1>2, <1>3, AddUserGKHolds DEF Next

LEMMA IInvHolds == Spec => []IInv
  BY InitHolds, NextHolds, PTL DEF Spec

\* Codes are unique, referrers are users, and no request works for somebody
\* who is not there, whatever requests overlap and wherever they stop.
THEOREM ReferralsTypeCorrect == Spec => []TypeOK
  BY IInvHolds, PTL DEF IInv

\* A step does not change a referral, or a referred_by, that is there.
LEMMA TablesStay ==
  ASSUME IInv, [Next]_vars
  PROVE  \A u \in Users :
           /\ referral[u] # Nobody => referral'[u] = referral[u]
           /\ referredBy[u] # Nobody => referredBy'[u] = referredBy[u]
  <1>1. ASSUME NEW j \in Requests, CreateReferral(j)
        PROVE  ReferralsStay /\ referredBy' = referredBy
    BY <1>1, CreateReferralHolds DEF CreateReferral
  <1>2. ASSUME NEW j \in Requests, SetReferredBy(j)
        PROVE  /\ referral' = referral
               /\ \A u \in Users : referredBy[u] # Nobody => referredBy'[u] = referredBy[u]
    BY <1>2, SetReferredByHolds DEF SetReferredBy
  <1>3. \/ UNCHANGED <<referral, referredBy>>
        \/ \E j \in Requests : CreateReferral(j) \/ SetReferredBy(j)
    BY DEF Next, Step, Ask, vars, inviteVars, SetCode, GetUserByReferralCode, IsGKRewardClaimed,
           ClaimGKReward, UpgradeCharacter, Fail, AskCode, Auth, ApplyReferralCode,
           GetReferralStats, GetCharacterLevel, AddUserGK
  <1> QED
    BY <1>1, <1>2, <1>3 DEF ReferralsStay

\* In each table the referrer of a user, once there, stays and is somebody else,
\* and the second table names one only if the first does, whatever applications
\* overlap or stop.  Both name the same for a user whose applications do neither.
THEOREM ReferrerStaysHolds == Spec => ReferrerStays
  <1>1. IInv /\ IInv' /\ [Next]_vars =>
          [\A u \in Users :
             /\ referral[u] # Nobody => referral'[u] = referral[u]
             /\ referredBy[u] # Nobody => referredBy'[u] = referredBy[u]
             /\ referral'[u] # u /\ referredBy'[u] # u
             /\ referredBy'[u] # Nobody => referral'[u] # Nobody
             /\ u \notin torn' => \/ referredBy'[u] = referral'[u]
                                  \/ Busy(u, {"insert", "update"})' # {}]_vars
    <2> SUFFICES ASSUME IInv, IInv', [Next]_vars, NEW u \in Users
                 PROVE  /\ referral[u] # Nobody => referral'[u] = referral[u]
                        /\ referredBy[u] # Nobody => referredBy'[u] = referredBy[u]
                        /\ referral'[u] # u /\ referredBy'[u] # u
                        /\ referredBy'[u] # Nobody => referral'[u] # Nobody
                        /\ u \notin torn' => \/ referredBy'[u] = referral'[u]
                                             \/ Busy(u, {"insert", "update"})' # {}
      OBVIOUS
    <2>1. Invite(u)'
      BY DEF IInv, Invited
    <2>2. ASSUME Whole(u)'
          PROVE  referredBy'[u] = referral'[u] \/ Busy(u, {"insert", "update"})' # {}
      BY <2>2 DEF Whole, Busy
    <2> QED
      BY <2>1, <2>2, TablesStay DEF Invite
  <1> QED
    BY <1>1, IInvHolds, PTL DEF Spec, ReferrerStays

-----------------------------------------------------------------------------
(* Sums over finite sets.  No element is special: whichever is taken first, *)
(* the rest of the sum is the sum of the rest.                              *)

\* A non-empty set of numbers has a least one.
LEMMA Least ==
  ASSUME NEW S \in SUBSET Nat, S # {}
  PROVE  \E m \in S : \A n \in S : m <= n
  <1> DEFINE R == {ss \in Nat \X Nat : ss[1] < ss[2]}
  <1>1. OpToRel(<, Nat) = R
    BY Zenon DEF OpToRel
  <1>2. IsWellFoundedOn(R, Nat)
    BY NatLessThanWellFounded, <1>1, Zenon
  <1>3. \A n, k \in Nat : n < k => <<n, k>> \in R
    OBVIOUS
  <1> HIDE DEF R
  <1>4. PICK m \in S : \A n \in S : ~ (<<n, m>> \in R)
    BY <1>2, WFMin
  <1>5. \A n \in S : ~(n < m)
    BY <1>3, <1>4
  <1> QED
    BY <1>5

\* A non-empty set of subsets of a finite set has a smallest one.
LEMMA Smallest ==
  ASSUME NEW S, IsFiniteSet(S), NEW B \in SUBSET SUBSET S, B # {}
  PROVE  \E T \in B : \A U \in SUBSET T : U # T => U \notin B
  <1>1. IsWellFoundedOn(StrictSubsetOrdering(S), SUBSET S)
    BY FS_StrictSubsetOrderingWellFounded, FS_FiniteSubsetsOfFinite
  <1>2. PICK T \in B : \A U \in B : ~(<<U, T>> \in StrictSubsetOrdering(S))
    BY <1>1, WFMin
  <1> QED
    BY <1>2 DEF StrictSubsetOrdering

Pick(T) == CHOOSE x \in T : TRUE
Rest(T) == T \ {Pick(T)}

\* g sums up f over every subset of S, in the order of Pick.
SumsUp(g, f, S) ==
  g = [T \in SUBSET S |-> IF T = {} THEN 0 ELSE f[Pick(T)] + g[Rest(T)]]

Totals(g, f, S) == g \in [SUBSET S -> Int] /\ SumsUp(g, f, S)

LEMMA PickType ==
  ASSUME NEW T, T # {}
  PROVE  Pick(T) \in T
  BY DEF Pick

\* Such a function exists: one that is right up to n elements gives one that is
\* right up to n + 1.
LEMMA SumExists ==
  ASSUME NEW S, IsFiniteSet(S), NEW f, \A x \in S : f[x] \in Int
  PROVE  \E g \in [SUBSET S -> Int] : SumsUp(g, f, S)
  <1> DEFINE Sub(n) == {T \in SUBSET S : Cardinality(T) <= n}
             More(g) == [T \in SUBSET S |-> IF T = {} THEN 0 ELSE f[Pick(T)] + g[Rest(T)]]
             Upto(n) == \E g \in [SUBSET S -> Int] : \A T \in Sub(n) : g[T] = More(g)[T]
             Bad == {n \in Nat : ~Upto(n)}
  <1>1. \A T \in SUBSET S : /\ IsFiniteSet(T) /\ Cardinality(T) \in Nat
                            /\ Cardinality(T) <= Cardinality(S)
    BY FS_Subset, FS_CardinalityType
  <1>2. \A T \in SUBSET S : T # {} => /\ Pick(T) \in S /\ Rest(T) \in SUBSET S
                                      /\ Cardinality(Rest(T)) = Cardinality(T) - 1
    BY <1>1, PickType, FS_RemoveElement DEF Rest
  <1>3. \A g \in [SUBSET S -> Int] : More(g) \in [SUBSET S -> Int]
    BY <1>2
  <1>4. Upto(0)
    <2> DEFINE z == [T \in SUBSET S |-> 0]
    <2>1. \A T \in Sub(0) : T = {}
      BY <1>1, FS_EmptySet
    <2>2. z \in [SUBSET S -> Int] /\ \A T \in Sub(0) : z[T] = More(z)[T]
      BY <2>1
    <2> QED
      BY <2>2
  <1>5. ASSUME NEW n \in Nat, Upto(n)
        PROVE  Upto(n + 1)
    <2>1. PICK g \in [SUBSET S -> Int] : \A T \in Sub(n) : g[T] = More(g)[T]
      BY <1>5
    <2>2. ASSUME NEW T \in Sub(n + 1)
          PROVE  More(g)[T] = More(More(g))[T]
      <3>1. CASE T = {}
        BY <3>1
      <3>2. CASE T # {}
        <4>1. Rest(T) \in Sub(n)
          BY <1>1, <1>2, <3>2
        <4>2. g[Rest(T)] = More(g)[Rest(T)]
          BY <2>1, <4>1
        <4> QED
          BY <3>2, <4>2
      <3> QED
        BY <3>1, <3>2
    <2> HIDE DEF More, Sub
    <2> QED
      BY <1>3, <2>2
  <1> HIDE DEF Upto
  <1>6. Bad = {}
    <2> SUFFICES ASSUME Bad # {}
                 PROVE  FALSE
      OBVIOUS
    <2>1. PICK m \in Bad : \A n \in Bad : m <= n
      BY Least
    <2>2. m - 1 \in Nat /\ m - 1 \notin Bad
      BY <1>4, <2>1
    <2>3. Upto((m - 1) + 1)
      BY <1>5, <2>2
    <2> QED
      BY <2>1, <2>3
  <1>7. Upto(Cardinality(S))
    BY <1>1, <1>6
  <1>8. PICK g \in [SUBSET S -> Int] : \A T \in Sub(Cardinality(S)) : g[T] = More(g)[T]
    BY <1>7 DEF Upto
  <1>9. \A T \in SUBSET S : g[T] = More(g)[T]
    BY <1>1, <1>8
  <1>10. g = More(g)
    BY <1>9
  <1> QED
    BY <1>10 DEF SumsUp

\* Any element may be taken first.
LEMMA SumsUpAny ==
  ASSUME NEW S, IsFiniteSet(S), NEW f, \A x \in S : f[x] \in Int,
         NEW g, Totals(g, f, S), NEW y \in S
  PROVE  g[S] = f[y] + g[S \ {y}]
  <1> DEFINE Bad == {T \in SUBSET S : \E x \in T : g[T] # f[x] + g[T \ {x}]}
  <1> USE DEF Totals
  <1>0. \A T \in SUBSET S : T # {} => g[T] = f[Pick(T)] + g[T \ {Pick(T)}]
    BY DEF SumsUp, Rest
  <1> SUFFICES ASSUME Bad # {}
               PROVE  FALSE
    OBVIOUS
  <1>1. PICK T \in Bad : \A U \in SUBSET T : U # T => U \notin Bad
    <2>1. Bad \in SUBSET SUBSET S
      OBVIOUS
    <2> HIDE DEF Bad
    <2> QED
      BY <2>1, Smallest
  <1>2. PICK x \in T : g[T] # f[x] + g[T \ {x}]
    BY <1>1
  <1> DEFINE p == Pick(T)
  <1>3. p \in T /\ p # x /\ T \in SUBSET S /\ g[T] = f[p] + g[T \ {p}]
    BY <1>0, <1>2, PickType
  <1> HIDE DEF p
  <1>4. g[T \ {p}] = f[x] + g[(T \ {p}) \ {x}]
    <2>1. T \ {p} \notin Bad /\ T \ {p} \in SUBSET S /\ x \in T \ {p}
      BY <1>1, <1>3
    <2> QED
      BY <2>1
  <1>5. g[T \ {x}] = f[p] + g[(T \ {x}) \ {p}]
    <2>1. T \ {x} \notin Bad /\ T \ {x} \in SUBSET S /\ p \in T \ {x}
      BY <1>1, <1>2, <1>3
    <2> QED
      BY <2>1
  <1> DEFINE V == (T \ {x}) \ {p}
  <1>6. (T \ {p}) \ {x} = V /\ V \in SUBSET S
    BY <1>3
  <1>7. g[V] \in Int /\ f[x] \in Int /\ f[p] \in Int
    BY <1>3, <1>6
  <1>8. g[T \ {p}] = f[x] + g[V] /\ g[T \ {x}] = f[p] + g[V]
    BY <1>4, <1>5, <1>6
  <1> HIDE DEF V
  <1>9. g[T] = f[x] + g[T \ {x}]
    BY <1>3, <1>7, <1>8
  <1> QED
    BY <1>2, <1>9

\* What a set sums up to depends on its elements only.
LEMMA SumsUpSame ==
  ASSUME NEW S, IsFiniteSet(S), NEW f, NEW g, SumsUp(g, f, S),
         NEW U, NEW h, NEW k, SumsUp(k, h, U), S \subseteq U, \A x \in S : f[x] = h[x]
  PROVE  g[S] = k[S]
  <1> DEFINE Bad == {T \in SUBSET S : g[T] # k[T]}
  <1>0. \A T \in SUBSET S : g[T] = (IF T = {} THEN 0 ELSE f[Pick(T)] + g[Rest(T)])
    BY DEF SumsUp
  <1>1. \A T \in SUBSET S : k[T] = (IF T = {} THEN 0 ELSE h[Pick(T)] + k[Rest(T)])
    BY DEF SumsUp
  <1> SUFFICES ASSUME Bad # {}
               PROVE  FALSE
    OBVIOUS
  <1>2. PICK T \in Bad : \A V \in SUBSET T : V # T => V \notin Bad
    <2>1. Bad \in SUBSET SUBSET S
      OBVIOUS
    <2> HIDE DEF Bad
    <2> QED
      BY <2>1, Smallest
  <1>3. T \in SUBSET S /\ T # {} /\ Pick(T) \in T
    BY <1>0, <1>1, <1>2, PickType
  <1>4. g[Rest(T)] = k[Rest(T)] /\ f[Pick(T)] = h[Pick(T)]
    BY <1>2, <1>3 DEF Rest
  <1> QED
    BY <1>0, <1>1, <1>2, <1>3, <1>4


\* What SumFunctionOnSet stands for.
LEMMA SumIs ==
  ASSUME NEW S, IsFiniteSet(S), NEW f, \A x \in S : f[x] \in Int
  PROVE  \E g \in [SUBSET S -> Int] : SumsUp(g, f, S) /\ SumFunctionOnSet(f, S) = g[S]
  <1> DEFINE g == CHOOSE g : SumsUp(g, f, S)
  <1>1. PICK h \in [SUBSET S -> Int] : SumsUp(h, f, S)
    BY SumExists
  <1>2. SumsUp(g, f, S)
    BY <1>1
  <1>3. SumFunctionOnSet(f, S) = g[S]
    BY DEF SumFunctionOnSet, FoldFunctionOnSet, MapThenFoldSet, SumsUp, Pick, Rest
  <1> HIDE DEF g
  <1>4. g[S] = h[S]
    BY <1>1, <1>2, SumsUpSame
  <1> QED
    BY <1>1, <1>3, <1>4

\* The facts about sums that are used below.
LEMMA SumType ==
  ASSUME NEW S, IsFiniteSet(S), NEW f, \A x \in S : f[x] \in Int
  PROVE  SumFunctionOnSet(f, S) \in Int
  <1>1. PICK g \in [SUBSET S -> Int] : SumFunctionOnSet(f, S) = g[S]
    BY SumIs
  <1> QED
    BY <1>1

LEMMA SumNone ==
  ASSUME NEW f
  PROVE  SumFunctionOnSet(f, {}) = 0
  <1>1. IsFiniteSet({}) /\ \A x \in {} : f[x] \in Int
    BY FS_EmptySet
  <1>2. PICK g \in [SUBSET {} -> Int] : SumsUp(g, f, {}) /\ SumFunctionOnSet(f, {}) = g[{}]
    BY <1>1, SumIs
  <1> QED
    BY <1>2 DEF SumsUp

LEMMA SumTake ==
  ASSUME NEW S, IsFiniteSet(S), NEW f, \A x \in S : f[x] \in Int, NEW x \in S
  PROVE  SumFunctionOnSet(f, S) = f[x] + SumFunctionOnSet(f, S \ {x})
  <1> DEFINE R == S \ {x}
  <1>1. PICK g \in [SUBSET S -> Int] : SumsUp(g, f, S) /\ SumFunctionOnSet(f, S) = g[S]
    BY SumIs
  <1>2. g[S] = f[x] + g[R]
    <2>1. Totals(g, f, S)
      BY <1>1 DEF Totals
    <2>2. g[S] = f[x] + g[S \ {x}]
      BY <2>1, SumsUpAny
    <2> QED
      BY <2>2
  <1>3. IsFiniteSet(R) /\ R \subseteq S /\ \A y \in R : f[y] \in Int
    BY FS_Subset
  <1> HIDE DEF R
  <1>4. PICK k \in [SUBSET R -> Int] : SumsUp(k, f, R) /\ SumFunctionOnSet(f, R) = k[R]
    BY <1>3, SumIs
  <1>5. k[R] = g[R]
    BY <1>1, <1>3, <1>4, SumsUpSame
  <1> QED
    BY <1>1, <1>2, <1>4, <1>5 DEF R

-----------------------------------------------------------------------------
(* The GK of a user are what he earned.  His requests at a milestone tell   *)
(* whether a claim can still be paid twice: unless he is hasty each of them *)
(* is at a milestone of its own, and those about to pay at one that is not  *)
(* claimed yet.                                                             *)

Claiming == {"claimed", "pay"}
Claims(j, u) == request[j].user = u /\ request[j].at \in Claiming

OneClaim(u) ==
  /\ \A j, k \in Requests :
       Claims(j, u) /\ Claims(k, u) /\ request[j].number = request[k].number => j = k
  /\ \A j \in Requests :
       Claims(j, u) /\ request[j].at = "pay" => request[j].number \notin claimed[u]

Earns(u) ==
  /\ IsFiniteSet(claimed[u])
  /\ gk[u] >= Earned(u)
  /\ u \notin hasty => gk[u] = Earned(u) /\ OneClaim(u)
  /\ \A t \in claimed[u] : Referrals(u) >= t
  /\ \A j \in Requests : Claims(j, u) => Referrals(u) >= request[j].number

EarnedInv == IsFiniteSet(known) /\ \A u \in Users : Earns(u)

\* The invited users are known, so there are finitely many of them, and they
\* stay.
LEMMA ReferralsGrow ==
  ASSUME IInv, IInv', ReferralsStay, IsFiniteSet(known)', NEW u \in Users, NEW t \in Int,
         Referrals(u) >= t
  PROVE  Referrals(u)' >= t
  <1> DEFINE S == {v \in Users : referral[v] = u}
             T == {v \in Users : referral'[v] = u}
  <1>1. u # Nobody
    BY ReferralsAssumption
  <1>2. S \subseteq T
    BY <1>1 DEF ReferralsStay
  <1>3. T \subseteq known'
    BY <1>1 DEF IInv, Invited, Invite
  <1>4. Referrals(u) = Cardinality(S) /\ Referrals(u)' = Cardinality(T)
    BY DEF Referrals
  <1> HIDE DEF S, T
  <1>5. IsFiniteSet(T)
    BY <1>3, FS_Subset
  <1>6. IsFiniteSet(S) /\ Cardinality(S) <= Cardinality(T)
    BY <1>2, <1>5, FS_Subset
  <1>7. Cardinality(S) \in Nat /\ Cardinality(T) \in Nat
    BY <1>5, <1>6, FS_CardinalityType
  <1> QED
    BY <1>4, <1>6, <1>7

LEMMA PricesType ==
  ASSUME NEW n \in Levels
  PROVE  IsFiniteSet(2 .. n) /\ \A x \in 2 .. n : Cost[x] \in Int
  <1>1. IsFiniteSet(2 .. n)
    BY FS_Interval DEF Levels
  <1>2. MaxLevel \in Nat /\ Cost \in [2 .. MaxLevel -> Nat]
    BY ReferralsAssumption
  <1> QED
    BY <1>1, <1>2 DEF Levels

LEMMA RewardsType ==
  ASSUME NEW S \in SUBSET Thresholds
  PROVE  \A x \in S : Reward[x] \in Int
  <1>1. Reward \in [Thresholds -> Nat]
    BY ReferralsAssumption
  <1> QED
    BY <1>1

LEMMA EarnedType ==
  ASSUME IInv, NEW u \in Users, IsFiniteSet(claimed[u])
  PROVE  /\ Milestones(u) \in Int /\ Prices(u) \in Int /\ granted[u] \in Int /\ gk[u] \in Int
         /\ claimed[u] \in SUBSET Thresholds /\ level[u] \in Levels
  <1>1. /\ claimed[u] \in SUBSET Thresholds /\ level[u] \in Levels
        /\ granted[u] \in Int /\ gk[u] \in Int
    BY DEF IInv, TypeOK
  <1>2. Milestones(u) \in Int
    BY <1>1, RewardsType, SumType DEF Milestones
  <1>3. Prices(u) \in Int
    BY <1>1, PricesType, SumType DEF Prices
  <1> QED
    BY <1>1, <1>2, <1>3

\* Nothing happens to the GK of a user, and no request of his comes nearer to
\* paying him a milestone.
Still(u) ==
  /\ claimed'[u] = claimed[u] /\ gk'[u] = gk[u] /\ level'[u] = level[u]
  /\ granted'[u] = granted[u] /\ (u \in hasty => u \in hasty')
  /\ \A k \in Requests : request'[k] = request[k] \/ ~Claims(k, u)'

LEMMA StillEarns ==
  ASSUME IInv, IInv', EarnedInv, ReferralsStay, IsFiniteSet(known)', NEW u \in Users, Still(u)
  PROVE  Earns(u)'
  <1>1. Earns(u)
    BY DEF EarnedInv
  <1>2. Earned(u)' = Earned(u)
    BY DEF Still, Earned, Milestones, Prices
  <1>3. \A t \in claimed'[u] : Referrals(u)' >= t
    <2>1. \A t \in claimed[u] : t \in Int
      BY ReferralsAssumption DEF IInv, TypeOK
    <2> QED
      BY <1>1, <2>1, ReferralsGrow DEF Still, Earns
  <1>4. \A k \in Requests : Claims(k, u)' => request'[k] = request[k] /\ Claims(k, u)
    BY DEF Still, Claims
  <1>5. \A k \in Requests : Claims(k, u)' => Referrals(u)' >= request'[k].number
    <2> SUFFICES ASSUME NEW k \in Requests, Claims(k, u)'
                 PROVE  Referrals(u)' >= request'[k].number
      OBVIOUS
    <2>1. request'[k].number = request[k].number /\ request[k].number \in Nat
      BY <1>4, RequestType DEF Claims, Claiming
    <2>2. Referrals(u) >= request[k].number
      BY <1>1, <1>4 DEF Earns
    <2> QED
      BY <2>1, <2>2, ReferralsGrow
  <1>6. OneClaim(u) => OneClaim(u)'
    BY <1>4 DEF OneClaim, Still
  <1> QED
    BY <1>1, <1>2, <1>3, <1>5, <1>6 DEF Earns, Still

\* One claim of a user moves on; his GK stay.
LEMMA ClaimMoves ==
  ASSUME IInv, IInv', EarnedInv, ReferralsStay, IsFiniteSet(known)', NEW u \in Users,
         NEW j \in Requests, NEW t \in Thresholds,
         request'[j].number = t, \A k \in Requests : k # j => request'[k] = request[k],
         claimed'[u] = claimed[u], gk'[u] = gk[u], level'[u] = level[u],
         granted'[u] = granted[u], u \in hasty => u \in hasty',
         Referrals(u) >= t, u \notin hasty' => OneClaim(u)'
  PROVE  Earns(u)'
  <1>1. Earns(u)
    BY DEF EarnedInv
  <1>2. Earned(u)' = Earned(u)
    BY DEF Earned, Milestones, Prices
  <1>3. \A s \in claimed'[u] : Referrals(u)' >= s
    <2>1. \A s \in claimed[u] : s \in Int
      BY ReferralsAssumption DEF IInv, TypeOK
    <2> QED
      BY <1>1, <2>1, ReferralsGrow DEF Earns
  <1>4. \A k \in Requests : Claims(k, u)' => Referrals(u)' >= request'[k].number
    <2> SUFFICES ASSUME NEW k \in Requests, Claims(k, u)'
                 PROVE  Referrals(u)' >= request'[k].number
      OBVIOUS
    <2>1. CASE k = j
      <3>1. t \in Int
        BY ReferralsAssumption
      <3> QED
        BY <2>1, <3>1, ReferralsGrow
    <2>2. CASE k # j
      <3>1. request'[k] = request[k] /\ Claims(k, u)
        BY <2>2 DEF Claims
      <3>2. Referrals(u) >= request[k].number
        BY <1>1, <3>1 DEF Earns
      <3>3. request[k].number \in Nat
        BY <3>1, RequestType DEF Claims, Claiming
      <3> QED
        BY <3>1, <3>2, <3>3, ReferralsGrow
    <2> QED
      BY <2>1, <2>2
  <1> QED
    BY <1>1, <1>2, <1>3, <1>4 DEF Earns

LEMMA GetReferralStatsEarns ==
  ASSUME IInv, IInv', EarnedInv, ReferralsStay, IsFiniteSet(known)', NEW j \in Requests,
         NEW v \in Users, NEW t \in Thresholds, GetReferralStats(j, v, t), NEW u \in Users
  PROVE  Earns(u)'
  <1>1. Moved(j, "claimed", v, Nobody, t)
    BY StartMoves, ReferralsAssumption DEF GetReferralStats, IInv, Stages
  <1>2. /\ UNCHANGED <<claimed, gk, level, granted>>
        /\ u \in hasty => u \in hasty'
        /\ Referrals(v) >= t
        /\ v \notin hasty' => \A k \in Requests : Claims(k, v) => request[k].number # t
    BY DEF GetReferralStats, Busy, Claims, Claiming
  <1>3. /\ request'[j].user = v /\ request'[j].at = "claimed" /\ request'[j].number = t
        /\ \A k \in Requests : k # j => request'[k] = request[k]
    BY <1>1 DEF Moved
  <1>4. CASE u # v
    <2>1. Still(u)
      BY <1>2, <1>3, <1>4 DEF Still, Claims
    <2> QED
      BY <2>1, StillEarns
  <1>5. CASE u = v
    <2>1. ASSUME u \notin hasty'
          PROVE  OneClaim(u)'
      <3>1. OneClaim(u)
        BY <1>2, <2>1 DEF EarnedInv, Earns
      <3>2. \A k \in Requests : k # j => (Claims(k, u)' <=> Claims(k, u))
        BY <1>3 DEF Claims
      <3>3. \A k \in Requests : Claims(k, u) => request[k].number # t
        BY <1>2, <1>5, <2>1
      <3> QED
        BY <1>2, <1>3, <3>1, <3>2, <3>3 DEF OneClaim
    <2> QED
      BY <1>2, <1>3, <1>5, <2>1, ClaimMoves
  <1> QED
    BY <1>4, <1>5

LEMMA IsGKRewardClaimedEarns ==
  ASSUME IInv, IInv', EarnedInv, ReferralsStay, IsFiniteSet(known)', NEW j \in Requests,
         IsGKRewardClaimed(j), NEW u \in Users
  PROVE  Earns(u)'
  <1> DEFINE s == request[j]
  <1>1. s.at = "claimed" /\ s.user \in Users /\ s.number \in Thresholds
    BY RequestType DEF IsGKRewardClaimed, Fits
  <1>2. UNCHANGED <<claimed, gk, level, granted>> /\ (u \in hasty => u \in hasty')
    BY DEF IsGKRewardClaimed
  <1>3. CASE Done(j)
    <2>1. Moved(j, "idle", Nobody, Nobody, 0)
      BY <1>3, DoneMoves DEF IInv
    <2>2. Still(u)
      BY <1>2, <2>1 DEF Still, Claims, Claiming, Moved
    <2> QED
      BY <2>2, StillEarns
  <1>4. ASSUME Go(j, "pay"), s.number \notin claimed[s.user] \/ s.user \in hasty'
        PROVE  Earns(u)'
    <2>1. Moved(j, "pay", s.user, s.referrer, s.number)
      BY <1>4, GoMoves DEF IInv, Stages
    <2>2. /\ request'[j].user = s.user /\ request'[j].at = "pay" /\ request'[j].number = s.number
          /\ \A k \in Requests : k # j => request'[k] = request[k]
      BY <2>1 DEF Moved
    <2>3. CASE u # s.user
      <3>1. Still(u)
        BY <1>2, <2>2, <2>3 DEF Still, Claims
      <3> QED
        BY <3>1, StillEarns
    <2>4. CASE u = s.user
      <3>1. Claims(j, u) /\ Earns(u)
        BY <1>1, <2>4 DEF Claims, Claiming, EarnedInv
      <3>2. Referrals(u) >= s.number
        BY <3>1 DEF Earns
      <3>3. ASSUME u \notin hasty'
            PROVE  OneClaim(u)'
        <4>1. OneClaim(u) /\ s.number \notin claimed[u]
          BY <1>2, <1>4, <2>4, <3>1, <3>3 DEF Earns
        <4>2. \A k \in Requests : Claims(k, u)' => /\ Claims(k, u)
                                                   /\ request'[k].number = request[k].number
          BY <2>2, <3>1 DEF Claims
        <4> QED
          BY <1>2, <2>2, <4>1, <4>2 DEF OneClaim
      <3> QED
        BY <1>1, <1>2, <2>2, <3>2, <3>3, ClaimMoves
    <2> QED
      BY <2>3, <2>4
  <1> QED
    BY <1>3, <1>4 DEF IsGKRewardClaimed

LEMMA ClaimGKRewardEarns ==
  ASSUME IInv, IInv', EarnedInv, ReferralsStay, IsFiniteSet(known)', NEW j \in Requests,
         ClaimGKReward(j), NEW u \in Users
  PROVE  Earns(u)'
  <1>1. PICK v \in Users, t \in Thresholds : v = request[j].user /\ t = request[j].number
    BY RequestType DEF ClaimGKReward, Fits
  <1>2. /\ Moved(j, "idle", Nobody, Nobody, 0) /\ request[j].at = "pay"
        /\ claimed' = [claimed EXCEPT ![v] = @ \cup {t}]
        /\ gk' = [gk EXCEPT ![v] = @ + Reward[t]]
        /\ UNCHANGED <<level, granted, hasty>>
    BY <1>1, DoneMoves DEF ClaimGKReward, IInv
  <1>3. /\ ~Claims(j, u)' /\ \A k \in Requests : k # j => request'[k] = request[k]
    BY <1>2 DEF Moved, Claims, Claiming
  <1>4. /\ claimed'[u] = IF u = v THEN claimed[u] \cup {t} ELSE claimed[u]
        /\ gk'[u] = IF u = v THEN gk[u] + Reward[t] ELSE gk[u]
    BY <1>2 DEF IInv, TypeOK
  <1>5. CASE u # v
    <2>1. Still(u)
      BY <1>2, <1>3, <1>4, <1>5 DEF Still
    <2> QED
      BY <2>1, StillEarns
  <1>6. CASE u = v
    <2>1. Earns(u) /\ Claims(j, u)
      BY <1>1, <1>2, <1>6 DEF EarnedInv, Claims, Claiming
    <2>2. IsFiniteSet(claimed[u]) /\ IsFiniteSet(claimed'[u])
      <3>1. IsFiniteSet(claimed[u])
        BY <2>1 DEF Earns
      <3>2. IsFiniteSet(claimed[u] \cup {t})
        BY <3>1, FS_AddElement
      <3> QED
        BY <1>4, <1>6, <3>1, <3>2
    <2>3. /\ Reward[t] \in Nat /\ t \in Int
          /\ \A x \in claimed[u] : x \in Int
      BY ReferralsAssumption DEF IInv, TypeOK
    <2>4. Milestones(u)' = Milestones(u) + (IF t \in claimed[u] THEN 0 ELSE Reward[t])
      <3> DEFINE S == claimed[u]
                 T == claimed'[u]
      <3>1. Milestones(u) = SumFunctionOnSet(Reward, S)
              /\ Milestones(u)' = SumFunctionOnSet(Reward, T) /\ Milestones(u) \in Int
        BY <2>2, EarnedType DEF Milestones
      <3>2. CASE t \in S
        <4>1. T = S
          BY <1>4, <1>6, <3>2
        <4> QED
          BY <3>1, <3>2, <4>1
      <3>3. CASE t \notin S
        <4>1. T \ {t} = S /\ t \in T
          BY <1>4, <1>6, <3>3
        <4>2. \A x \in T : Reward[x] \in Int
          <5>1. T \in SUBSET Thresholds
            BY DEF IInv, TypeOK
          <5> QED
            BY <5>1, RewardsType
        <4> HIDE DEF S, T
        <4>3. SumFunctionOnSet(Reward, T) = Reward[t] + SumFunctionOnSet(Reward, S)
          <5>1. IsFiniteSet(T)
            BY <2>2 DEF T
          <5>2. SumFunctionOnSet(Reward, T) = Reward[t] + SumFunctionOnSet(Reward, T \ {t})
            BY <4>1, <4>2, <5>1, SumTake
          <5> QED
            BY <4>1, <5>2
        <4> QED
          BY <2>3, <3>1, <3>3, <4>3 DEF S
      <3> QED
        BY <3>2, <3>3
    <2>5. /\ Earned(u) = granted[u] + Milestones(u) - Prices(u)
          /\ Earned(u)' = granted[u] + Milestones(u)' - Prices(u)
          /\ Milestones(u) \in Int /\ Prices(u) \in Int /\ granted[u] \in Int /\ gk[u] \in Int
      BY <1>2, <2>2, EarnedType DEF Earned, Prices
    <2>6. gk'[u] >= Earned(u)'
      BY <1>4, <1>6, <2>1, <2>3, <2>4, <2>5 DEF Earns
    <2>7. ASSUME u \notin hasty'
          PROVE  gk'[u] = Earned(u)' /\ OneClaim(u)'
      <3>1. gk[u] = Earned(u) /\ OneClaim(u)
        BY <1>2, <2>1, <2>7 DEF Earns
      <3>2. t \notin claimed[u]
        BY <1>1, <1>2, <2>1, <3>1 DEF OneClaim
      <3>3. gk'[u] = Earned(u)'
        BY <1>4, <1>6, <2>3, <2>4, <2>5, <3>1, <3>2
      <3>4. \A k \in Requests : Claims(k, u)' => /\ Claims(k, u) /\ request'[k] = request[k]
                                                 /\ request[k].number # t
        BY <1>1, <1>3, <2>1, <3>1 DEF OneClaim, Claims
      <3>5. OneClaim(u)'
        BY <1>4, <3>1, <3>4 DEF OneClaim
      <3> QED
        BY <3>3, <3>5
    <2>8. \A x \in claimed'[u] : Referrals(u)' >= x
      <3>1. \A x \in claimed'[u] : Referrals(u) >= x
        BY <1>1, <1>4, <1>6, <2>1 DEF Earns
      <3> QED
        BY <1>4, <1>6, <2>3, <3>1, ReferralsGrow
    <2>9. \A k \in Requests : Claims(k, u)' => Referrals(u)' >= request'[k].number
      <3> SUFFICES ASSUME NEW k \in Requests, Claims(k, u)'
                   PROVE  Referrals(u)' >= request'[k].number
        OBVIOUS
      <3>1. Claims(k, u) /\ request'[k] = request[k]
        BY <1>3 DEF Claims
      <3>2. Referrals(u) >= request[k].number /\ request[k].number \in Nat
        BY <2>1, <3>1, RequestType DEF Earns, Claims, Claiming
      <3> QED
        BY <3>1, <3>2, ReferralsGrow
    <2> QED
      BY <2>2, <2>6, <2>7, <2>8, <2>9 DEF Earns
  <1> QED
    BY <1>5, <1>6

\* The GK of a user change as much as what he earned.
LEMMA AccountMoves ==
  ASSUME IInv, IInv', EarnedInv, ReferralsStay, IsFiniteSet(known)', NEW u \in Users, NEW d \in Int,
         claimed'[u] = claimed[u], hasty' = hasty,
         gk'[u] = gk[u] + d, Earned(u)' = Earned(u) + d, Earned(u) \in Int,
         \A k \in Requests : request'[k] = request[k] \/ ~Claims(k, u)'
  PROVE  Earns(u)'
  <1>1. Earns(u) /\ gk[u] \in Int
    BY DEF EarnedInv, IInv, TypeOK
  <1>3. \A t \in claimed'[u] : Referrals(u)' >= t
    <2>1. \A t \in claimed[u] : t \in Int
      BY ReferralsAssumption DEF IInv, TypeOK
    <2> QED
      BY <1>1, <2>1, ReferralsGrow DEF Earns
  <1>4. \A k \in Requests : Claims(k, u)' => request'[k] = request[k] /\ Claims(k, u)
    BY DEF Claims
  <1>5. \A k \in Requests : Claims(k, u)' => Referrals(u)' >= request'[k].number
    <2> SUFFICES ASSUME NEW k \in Requests, Claims(k, u)'
                 PROVE  Referrals(u)' >= request'[k].number
      OBVIOUS
    <2>1. request'[k].number = request[k].number /\ request[k].number \in Nat
      BY <1>4, RequestType DEF Claims, Claiming
    <2>2. Referrals(u) >= request[k].number
      BY <1>1, <1>4 DEF Earns
    <2> QED
      BY <2>1, <2>2, ReferralsGrow
  <1>6. OneClaim(u) => OneClaim(u)'
    BY <1>4 DEF OneClaim
  <1>7. gk'[u] >= Earned(u)' /\ (u \notin hasty' => gk'[u] = Earned(u)')
    BY <1>1 DEF Earns
  <1> QED
    BY <1>1, <1>3, <1>5, <1>6, <1>7 DEF Earns

LEMMA UpgradeCharacterEarns ==
  ASSUME IInv, IInv', EarnedInv, ReferralsStay, IsFiniteSet(known)', NEW j \in Requests,
         UpgradeCharacter(j), NEW u \in Users
  PROVE  Earns(u)'
  <1>1. PICK v \in Users, new \in 2 .. MaxLevel : v = request[j].user /\ new = request[j].number
    BY RequestType DEF UpgradeCharacter, Fits
  <1>2. /\ Moved(j, "idle", Nobody, Nobody, 0)
        /\ UNCHANGED <<claimed, granted, hasty>>
        /\ \/ UNCHANGED <<level, gk>>
           \/ /\ level[v] = new - 1
              /\ level' = [level EXCEPT ![v] = new]
              /\ gk' = [gk EXCEPT ![v] = @ - Cost[new]]
    BY <1>1, DoneMoves DEF UpgradeCharacter, IInv
  <1>3. \A k \in Requests : request'[k] = request[k] \/ ~Claims(k, u)'
    BY <1>2 DEF Moved, Claims, Claiming
  <1>4. CASE UNCHANGED <<level, gk>> \/ u # v
    <2>1. Still(u)
      BY <1>2, <1>3, <1>4 DEF Still, IInv, TypeOK
    <2> QED
      BY <2>1, StillEarns
  <1>5. CASE u = v /\ ~UNCHANGED <<level, gk>>
    <2>1. level[u] = new - 1 /\ level'[u] = new /\ gk'[u] = gk[u] - Cost[new]
      BY <1>2, <1>5 DEF IInv, TypeOK
    <2>2. IsFiniteSet(claimed[u])
      BY DEF EarnedInv, Earns
    <2>3. /\ Milestones(u) \in Int /\ Prices(u) \in Int /\ granted[u] \in Int /\ gk[u] \in Int
          /\ level[u] \in Levels
      BY <2>2, EarnedType
    <2>4. Cost[new] \in Int /\ new \in Levels /\ MaxLevel \in Nat
      BY ReferralsAssumption DEF Levels
    <2>5. Prices(u)' = Prices(u) + Cost[new]
      <3> DEFINE S == 2 .. new - 1
                 T == 2 .. new
      <3>1. Prices(u) = SumFunctionOnSet(Cost, S) /\ Prices(u)' = SumFunctionOnSet(Cost, T)
        BY <2>1 DEF Prices
      <3>2. T \ {new} = S /\ new \in T
        BY <2>4
      <3>3. IsFiniteSet(T) /\ \A x \in T : Cost[x] \in Int
        BY <2>4, PricesType
      <3> HIDE DEF S, T
      <3>4. SumFunctionOnSet(Cost, T) = Cost[new] + SumFunctionOnSet(Cost, T \ {new})
        BY <3>2, <3>3, SumTake
      <3>5. Prices(u)' = Cost[new] + Prices(u)
        <4> HIDE DEF Prices
        <4> QED
          BY <3>1, <3>2, <3>4, Zenon
      <3> QED
        BY <2>3, <2>4, <3>5
    <2>6. /\ Earned(u) = granted[u] + Milestones(u) - Prices(u)
          /\ Earned(u)' = granted[u] + Milestones(u) - Prices(u)'
      BY <1>2 DEF Earned, Milestones
    <2> DEFINE d == 0 - Cost[new]
    <2>7. /\ d \in Int /\ gk'[u] = gk[u] + d /\ Earned(u)' = Earned(u) + d /\ Earned(u) \in Int
      BY <2>1, <2>3, <2>4, <2>5, <2>6
    <2> HIDE DEF d
    <2> QED
      BY <1>2, <1>3, <2>7, AccountMoves
  <1> QED
    BY <1>4, <1>5

LEMMA AddUserGKEarns ==
  ASSUME IInv, IInv', EarnedInv, ReferralsStay, IsFiniteSet(known)', NEW v \in Users,
         NEW amount \in Grants, AddUserGK(v, amount), NEW u \in Users
  PROVE  Earns(u)'
  <1>1. /\ gk' = [gk EXCEPT ![v] = @ + amount] /\ granted' = [granted EXCEPT ![v] = @ + amount]
        /\ UNCHANGED <<claimed, level, hasty, request>>
    BY DEF AddUserGK
  <1>2. CASE u # v
    <2>1. Still(u)
      BY <1>1, <1>2 DEF Still, IInv, TypeOK
    <2> QED
      BY <2>1, StillEarns
  <1>3. CASE u = v
    <2>1. gk'[u] = gk[u] + amount /\ granted'[u] = granted[u] + amount /\ amount \in Int
      BY <1>1, <1>3, ReferralsAssumption DEF IInv, TypeOK
    <2>2. IsFiniteSet(claimed[u])
      BY DEF EarnedInv, Earns
    <2>3. Milestones(u) \in Int /\ Prices(u) \in Int /\ granted[u] \in Int
      BY <2>2, EarnedType
    <2>4. /\ Earned(u) = granted[u] + Milestones(u) - Prices(u)
          /\ Earned(u)' = granted'[u] + Milestones(u) - Prices(u)
      BY <1>1 DEF Earned, Milestones, Prices
    <2>5. Earned(u)' = Earned(u) + amount /\ Earned(u) \in Int
      BY <2>1, <2>3, <2>4
    <2> QED
      BY <1>1, <2>1, <2>5, AccountMoves
  <1> QED
    BY <1>2, <1>3

\* Any other step.
LEMMA OthersStill ==
  ASSUME IInv, NEW u \in Users,
         \/ UNCHANGED vars
         \/ \E j \in Requests : \/ SetCode(j) \/ GetUserByReferralCode(j) \/ CreateReferral(j)
                                \/ SetReferredBy(j) \/ Fail(j)
         \/ \E j \in Requests, v \in Users : \/ AskCode(j, v) \/ Auth(j, v)
                                             \/ GetCharacterLevel(j, v)
                                             \/ \E c \in Codes : ApplyReferralCode(j, v, c)
  PROVE  Still(u)
  <1> DEFINE Same == UNCHANGED gkVars
             Quietly(j) == /\ \A k \in Requests : k # j => request'[k] = request[k]
                           /\ request'[j] = request[j] \/ request'[j].at \notin Claiming
  <1>1. ASSUME Same, NEW j \in Requests, Quietly(j)
        PROVE  Still(u)
    BY <1>1 DEF Still, Claims, gkVars
  <1>2. CASE UNCHANGED vars
    BY <1>2 DEF Still, vars, gkVars
  <1>3. ASSUME NEW j \in Requests, SetCode(j) \/ SetReferredBy(j) \/ Fail(j)
        PROVE  Still(u)
    <2>1. Done(j) /\ Same
      BY <1>3 DEF SetCode, SetReferredBy, Fail
    <2>2. Quietly(j)
      BY <2>1, DoneMoves DEF IInv, Moved, Claiming
    <2> QED
      BY <1>1, <2>1, <2>2
  <1>4. ASSUME NEW j \in Requests, CreateReferral(j)
        PROVE  Still(u)
    <2>1. Go(j, "update") /\ Same
      BY <1>4 DEF CreateReferral
    <2>2. Moved(j, "update", request[j].user, request[j].referrer, request[j].number)
      BY <2>1, GoMoves DEF IInv, Stages, Applying
    <2>3. Quietly(j)
      BY <2>2 DEF Moved, Claiming
    <2> QED
      BY <1>1, <2>1, <2>3
  <1>5. ASSUME NEW j \in Requests, GetUserByReferralCode(j)
        PROVE  Still(u)
    <2>1. Same
      BY <1>5 DEF GetUserByReferralCode
    <2>2. CASE Done(j)
      <3>1. Quietly(j)
        BY <2>2, DoneMoves DEF IInv, Moved, Claiming
      <3> QED
        BY <1>1, <2>1, <3>1
    <2>3. ASSUME NEW v, request' = [request EXCEPT ![j].at = "insert", ![j].referrer = v]
          PROVE  Still(u)
      <3> DEFINE s == request[j]
                 new == [s EXCEPT !.at = "insert", !.referrer = v]
      <3>1. request \in [Requests -> Served] /\ s \in Served
        BY DEF IInv, TypeOK
      <3>2. request' = [request EXCEPT ![j] = new]
        BY <2>3, <3>1
      <3>3. new.at = "insert"
        BY <3>1, FoundType
      <3> HIDE DEF new
      <3>4. Quietly(j)
        BY <3>1, <3>2, <3>3 DEF Claiming
      <3> QED
        BY <1>1, <2>1, <3>4
    <2> QED
      BY <1>5, <2>2, <2>3 DEF GetUserByReferralCode
  <1>6. ASSUME NEW j \in Requests, NEW v \in Users, NEW stage \in Stages \ Claiming, NEW n \in Nat,
               Start(j, v, stage, n), Same
        PROVE  Still(u)
    <2>1. Moved(j, stage, v, Nobody, n)
      BY <1>6, StartMoves DEF IInv
    <2>2. Quietly(j)
      BY <1>6, <2>1 DEF Moved
    <2> QED
      BY <1>1, <1>6, <2>2
  <1>7. {"newcode", "find", "upgrade"} \subseteq Stages \ Claiming
    BY DEF Stages, Applying, Claiming
  <1>8. ASSUME NEW j \in Requests, NEW v \in Users, AskCode(j, v)
        PROVE  Still(u)
    <2> HIDE DEF Same
    <2>1. Start(j, v, "newcode", 0) /\ Same
      BY <1>8 DEF AskCode, Same
    <2> QED
      BY <1>6, <1>7, <2>1
  <1>9. ASSUME NEW j \in Requests, NEW v \in Users, Auth(j, v)
        PROVE  Still(u)
    <2>1. Same
      BY <1>9 DEF Auth
    <2>2. CASE UNCHANGED request
      BY <2>1, <2>2 DEF Still, gkVars
    <2>3. ASSUME NEW c \in 1 .. drawn, Start(j, v, "find", c)
          PROVE  Still(u)
      <3>1. c \in Nat
        BY DEF IInv, TypeOK
      <3> HIDE DEF Same
      <3> QED
        BY <1>6, <1>7, <2>1, <2>3, <3>1
    <2> QED
      BY <1>9, <2>2, <2>3 DEF Auth
  <1>10. ASSUME NEW j \in Requests, NEW v \in Users, NEW c \in Codes, ApplyReferralCode(j, v, c)
         PROVE  Still(u)
    <2>1. Start(j, v, "find", c) /\ Same /\ c \in Nat
      BY <1>10 DEF ApplyReferralCode, Codes
    <2> HIDE DEF Same
    <2> QED
      BY <1>6, <1>7, <2>1
  <1>11. ASSUME NEW j \in Requests, NEW v \in Users, GetCharacterLevel(j, v)
         PROVE  Still(u)
    <2> DEFINE n == level[v] + 1
    <2>1. Start(j, v, "upgrade", n) /\ Same /\ n \in Nat
      BY <1>11 DEF GetCharacterLevel, IInv, TypeOK, Levels
    <2> HIDE DEF n, Same
    <2> QED
      BY <1>6, <1>7, <2>1
  <1> QED
    BY <1>2, <1>3, <1>4, <1>5, <1>8, <1>9, <1>10, <1>11

LEMMA EarnedInit == Init => EarnedInv
  <1> SUFFICES ASSUME Init, NEW u \in Users
               PROVE  IsFiniteSet(known) /\ Earns(u)
    BY FS_EmptySet DEF EarnedInv, Init
  <1>1. /\ known = {} /\ claimed[u] = {} /\ gk[u] = 0 /\ granted[u] = 0 /\ level[u] = 1
        /\ \A j \in Requests : request[j].at = "idle"
    BY DEF Init, Idle
  <1>2. IsFiniteSet(known) /\ IsFiniteSet(claimed[u])
    BY <1>1, FS_EmptySet
  <1>3. 2 .. level[u] = {}
    BY <1>1
  <1>4. Earned(u) = 0
    BY <1>1, <1>3, SumNone DEF Earned, Milestones, Prices
  <1>5. \A j \in Requests : ~Claims(j, u)
    BY <1>1 DEF Claims, Claiming
  <1> QED
    BY <1>1, <1>2, <1>4, <1>5 DEF Earns, OneClaim

LEMMA EarnedNext ==
  ASSUME IInv, IInv', EarnedInv, [Next]_vars
  PROVE  EarnedInv'
  <1>1. ReferralsStay
    BY TablesStay DEF ReferralsStay
  <1>2. IsFiniteSet(known)'
    <2>1. known' = known \/ \E u \in Users : known' = known \cup {u}
      BY DEF Next, Step, Ask, vars, SetCode, GetUserByReferralCode, IsGKRewardClaimed,
             ClaimGKReward, UpgradeCharacter, Fail, AskCode, Auth, ApplyReferralCode,
             GetReferralStats, GetCharacterLevel, AddUserGK, CreateReferral, SetReferredBy
    <2> QED
      BY <2>1, FS_AddElement DEF EarnedInv
  <1>3. ASSUME NEW u \in Users
        PROVE  Earns(u)'
    <2>1. CASE \E j \in Requests, v \in Users, t \in Thresholds : GetReferralStats(j, v, t)
      BY <1>1, <1>2, <2>1, GetReferralStatsEarns
    <2>2. CASE \E j \in Requests : IsGKRewardClaimed(j)
      BY <1>1, <1>2, <2>2, IsGKRewardClaimedEarns
    <2>3. CASE \E j \in Requests : ClaimGKReward(j)
      BY <1>1, <1>2, <2>3, ClaimGKRewardEarns
    <2>4. CASE \E j \in Requests : UpgradeCharacter(j)
      BY <1>1, <1>2, <2>4, UpgradeCharacterEarns
    <2>5. CASE \E v \in Users, amount \in Grants : AddUserGK(v, amount)
      BY <1>1, <1>2, <2>5, AddUserGKEarns
    <2>6. CASE \/ UNCHANGED vars
               \/ \E j \in Requests : \/ SetCode(j) \/ GetUserByReferralCode(j)
                                      \/ CreateReferral(j) \/ SetReferredBy(j) \/ Fail(j)
               \/ \E j \in Requests, v \in Users :
                    \/ AskCode(j, v) \/ Auth(j, v) \/ GetCharacterLevel(j, v)
                    \/ \E c \in Codes : ApplyReferralCode(j, v, c)
      <3>1. Still(u)
        BY <2>6, OthersStill
      <3> QED
        BY <1>1, <1>2, <3>1, StillEarns
    <2> QED
      BY <2>1, <2>2, <2>3, <2>4, <2>5, <2>6 DEF Next, Step, Ask
  <1> QED
    BY <1>2, <1>3 DEF EarnedInv

\* The GK of a user are what the admin gave and each of his milestones once,
\* less the price of each of his levels once, however his claims and upgrades
\* overlap; claims of one milestone that overlap, or are not looked up, can
\* only leave him more.  He has invited as many as each of them asks for.
THEOREM GkIsEarnedHolds == Spec => []GkIsEarned
  <1>1. EarnedInv => GkIsEarned
    BY DEF EarnedInv, Earns, GkIsEarned
  <1>2. EarnedInv /\ IInv /\ IInv' /\ [Next]_vars => EarnedInv'
    BY EarnedNext
  <1> QED
    BY <1>1, <1>2, EarnedInit, IInvHolds, PTL DEF Spec
=============================================================================
