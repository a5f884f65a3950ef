----------------------------- MODULE Referrals -----------------------------
(***************************************************************************)
(* Referral codes, who invited whom, the GK paid for milestones of invited *)
(* users, and the levels bought with GK: repository/referral_repo.go,      *)
(* http/handlers/{referral,upgrade,auth}.go.                               *)
(*                                                                         *)
(* A request runs its SQL statements one by one; only the payment of a     *)
(* milestone is a transaction, modelled as a step because nothing in it    *)
(* reads.  Any request may stop after any statement: the statement fails,  *)
(* the client goes away (which cancels it), the process restarts.          *)
(***************************************************************************)
EXTENDS Integers, FiniteSets, Functions

CONSTANTS Users, Nobody,
          Requests,    \* goroutines that serve one request at a time
          Thresholds,  \* domain of ReferralGKRewards
          Reward, Cost,  \* ReferralGKRewards; UpgradeCosts
          MaxLevel,
          Grants,      \* what the admin adds to the GK of a user
          MaxCodes,    \* bound on the codes that are ever drawn
          MaxGK,       \* bound on the GK of a user who claims
          MaxGrants

ASSUME ReferralsAssumption ==
  /\ Nobody \notin Users
  /\ Thresholds \subseteq Nat \ {0}
  /\ Reward \in [Thresholds -> Nat]
  /\ MaxLevel \in Nat \ {0}
  /\ Cost \in [2 .. MaxLevel -> Nat]
  /\ Grants \subseteq Int
  /\ MaxCodes \in Nat /\ MaxGK \in Nat /\ MaxGrants \in Nat

NoCode == 0
Codes == 1 .. MaxCodes
Levels == 1 .. MaxLevel
Applying == {"find", "insert", "update"}
Stages == {"idle", "newcode", "upgrade", "claimed", "pay"} \cup Applying
Served == [at : Stages, user : Users \cup {Nobody}, referrer : Users \cup {Nobody},
           number : Nat]  \* the code, the threshold or the level it is about
Idle == [at |-> "idle", user |-> Nobody, referrer |-> Nobody, number |-> 0]

VARIABLES
  known,       \* users with a row
  code,        \* users.referral_code
  drawn,       \* how many codes were drawn
  referredBy,  \* users.referred_by
  referral,    \* table referrals: who invited a user
  claimed,     \* table gk_rewards_claimed
  gk, level,   \* users.gk, users.character_level
  granted, grants,  \* what the admin has given, and how often
  request,
  torn,        \* users with overlapping or unfinished applications of a code
  hasty        \* users with overlapping claims, or a claim not looked up

codeVars == <<code, drawn>>
inviteVars == <<referredBy, referral, torn>>
gkVars == <<claimed, gk, level, granted, grants, hasty>>
vars == <<known, codeVars, inviteVars, gkVars, request>>

TypeOK ==
  /\ known \subseteq Users
  /\ code \in [Users -> Codes \cup {NoCode}]
  /\ \A u, v \in Users : code[u] = code[v] /\ code[u] # NoCode => u = v
  /\ drawn \in 0 .. MaxCodes
  /\ referredBy \in [Users -> known \cup {Nobody}]
  /\ referral \in [Users -> known \cup {Nobody}]
  /\ claimed \in [Users -> SUBSET Thresholds]
  /\ gk \in [Users -> Int]
  /\ level \in [Users -> Levels]
  /\ granted \in [Users -> Int]
  /\ grants \in 0 .. MaxGrants
  /\ request \in [Requests -> Served]
  /\ \A j \in Requests : request[j] # Idle => request[j].user \in known
  /\ torn \subseteq Users
  /\ hasty \subseteq Users

Init ==
  /\ known = {}
  /\ code = [u \in Users |-> NoCode]
  /\ drawn = 0
  /\ referredBy = [u \in Users |-> Nobody]
  /\ referral = [u \in Users |-> Nobody]
  /\ claimed = [u \in Users |-> {}]
  /\ gk = [u \in Users |-> 0]
  /\ level = [u \in Users |-> 1]
  /\ granted = [u \in Users |-> 0]
  /\ grants = 0
  /\ request = [j \in Requests |-> Idle]
  /\ torn = {}
  /\ hasty = {}
-----------------------------------------------------------------------------
Go(j, stage) == request' = [request EXCEPT ![j].at = stage]
Done(j) == request' = [request EXCEPT ![j] = Idle]
Start(j, u, stage, number) ==
  /\ request[j] = Idle
  /\ request' = [request EXCEPT ![j] =
       [at |-> stage, user |-> u, referrer |-> Nobody, number |-> number]]

\* Requests of u that are at one of these stages, with this number.
Busy(u, stages) == {j \in Requests : request[j].user = u /\ request[j].at \in stages}
-----------------------------------------------------------------------------
(* Codes.                                                                  *)

\* GetOrCreateReferralCode asks for the code; when there is none, or the
\* SELECT fails, it goes on to a new one.
AskCode(j, u) ==
  /\ u \in known
  /\ Start(j, u, "newcode", 0)
  /\ UNCHANGED <<known, codeVars, inviteVars, gkVars>>

\* Mutant of SetCode: a code may be another user's (no UNIQUE, no retry).
SetAnyCode(j) ==
  /\ request[j].at = "newcode"
  /\ drawn < MaxCodes
  /\ drawn' = drawn + 1
  /\ \E c \in 1 .. drawn + 1 : code' = [code EXCEPT ![request[j].user] = c]
  /\ Done(j)
  /\ UNCHANGED <<known, inviteVars, gkVars>>

\* A random code replaces whatever is there by now.
SetCode(j) ==
  /\ request[j].at = "newcode"
  /\ drawn < MaxCodes
  /\ drawn' = drawn + 1
  /\ code' = [code EXCEPT ![request[j].user] = drawn + 1]
  /\ Done(j)
  /\ UNCHANGED <<known, inviteVars, gkVars>>
-----------------------------------------------------------------------------
(* Invitations.                                                            *)

\* Auth creates the row of a new user, and goes on when he came by a link.
Auth(j, u) ==
  /\ u \notin known
  /\ known' = known \cup {u}
  /\ \/ \E c \in 1 .. drawn : Start(j, u, "find", c)
     \/ UNCHANGED request
  /\ UNCHANGED <<codeVars, inviteVars, gkVars>>

\* ApplyReferralCode: IsReferred.
ApplyReferralCode(j, u, c) ==
  /\ u \in known
  /\ c \in 1 .. drawn
  /\ referral[u] = Nobody
  /\ Start(j, u, "find", c)
  /\ torn' = IF Busy(u, Applying) # {} THEN torn \cup {u} ELSE torn
  /\ UNCHANGED <<known, codeVars, referredBy, referral, gkVars>>

\* The code must be somebody else's now.
GetUserByReferralCode(j) ==
  /\ request[j].at = "find"
  /\ LET others == {v \in known \ {request[j].user} : code[v] = request[j].number} IN
       IF others = {} THEN Done(j)
       ELSE \E v \in others :
              request' = [request EXCEPT ![j].at = "insert", ![j].referrer = v]
  /\ UNCHANGED <<known, codeVars, inviteVars, gkVars>>

\* Mutant of CreateReferral: ON CONFLICT DO UPDATE.
UpsertReferral(j) ==
  /\ request[j].at = "insert"
  /\ referral' = [referral EXCEPT ![request[j].user] = request[j].referrer]
  /\ Go(j, "update")
  /\ UNCHANGED <<known, codeVars, referredBy, torn, gkVars>>

\* CreateReferral: INSERT, ON CONFLICT DO NOTHING, ...
CreateReferral(j) ==
  /\ request[j].at = "insert"
  /\ referral' = [referral EXCEPT ![request[j].user] =
                    IF @ = Nobody THEN request[j].referrer ELSE @]
  /\ Go(j, "update")
  /\ UNCHANGED <<known, codeVars, referredBy, torn, gkVars>>

\* ... then UPDATE users, WHERE referred_by IS NULL.
SetReferredBy(j) ==
  /\ request[j].at = "update"
  /\ referredBy' = [referredBy EXCEPT ![request[j].user] =
                      IF @ = Nobody THEN request[j].referrer ELSE @]
  /\ Done(j)
  /\ UNCHANGED <<known, codeVars, referral, torn, gkVars>>
-----------------------------------------------------------------------------
(* GK.                                                                     *)

Referrals(u) == Cardinality({v \in Users : referral[v] = u})

\* ClaimReferralReward: GetReferralStats.
GetReferralStats(j, u, t) ==
  /\ u \in known
  /\ Referrals(u) >= t
  /\ gk[u] <= MaxGK
  /\ Start(j, u, "claimed", t)
  /\ hasty' = IF \E k \in Busy(u, {"claimed", "pay"}) : request[k].number = t
              THEN hasty \cup {u} ELSE hasty
  /\ UNCHANGED <<known, codeVars, inviteVars, claimed, gk, level, granted, grants>>

\* IsGKRewardClaimed; an error counts as no.
IsGKRewardClaimed(j) ==
  /\ request[j].at = "claimed"
  /\ LET u == request[j].user IN
       \/ /\ IF request[j].number \in claimed[u] THEN Done(j) ELSE Go(j, "pay")
          /\ UNCHANGED hasty
       \/ Go(j, "pay") /\ hasty' = hasty \cup {u}
  /\ UNCHANGED <<known, codeVars, inviteVars, claimed, gk, level, granted, grants>>

\* One transaction: INSERT, ON CONFLICT DO NOTHING, and the credit either way.
ClaimGKReward(j) ==
  /\ request[j].at = "pay"
  /\ LET u == request[j].user
         t == request[j].number IN
       /\ claimed' = [claimed EXCEPT ![u] = @ \cup {t}]
       /\ gk' = [gk EXCEPT ![u] = @ + Reward[t]]
  /\ Done(j)
  /\ UNCHANGED <<known, codeVars, inviteVars, level, granted, grants, hasty>>

\* UpgradeCharacter of the handler: the level it read, and the next.
GetCharacterLevel(j, u) ==
  /\ u \in known
  /\ level[u] < MaxLevel
  /\ Start(j, u, "upgrade", level[u] + 1)
  /\ UNCHANGED <<known, codeVars, inviteVars, gkVars>>

\* Mutant of UpgradeCharacter: WHERE asks for the GK only.
UpgradeUnchecked(j) ==
  /\ request[j].at = "upgrade"
  /\ LET u == request[j].user
         new == request[j].number IN
       IF gk[u] >= Cost[new]
       THEN /\ level' = [level EXCEPT ![u] = new]
            /\ gk' = [gk EXCEPT ![u] = @ - Cost[new]]
       ELSE UNCHANGED <<level, gk>>
  /\ Done(j)
  /\ UNCHANGED <<known, codeVars, inviteVars, claimed, granted, grants, hasty>>

\* UpgradeCharacter of the repository: one UPDATE, of a user who is still one
\* level below and can pay.
UpgradeCharacter(j) ==
  /\ request[j].at = "upgrade"
  /\ LET u == request[j].user
         new == request[j].number IN
       IF level[u] = new - 1 /\ gk[u] >= Cost[new]
       THEN /\ level' = [level EXCEPT ![u] = new]
            /\ gk' = [gk EXCEPT ![u] = @ - Cost[new]]
       ELSE UNCHANGED <<level, gk>>
  /\ Done(j)
  /\ UNCHANGED <<known, codeVars, inviteVars, claimed, granted, grants, hasty>>

\* AddUserGK: /addgk of the admin, any amount.
AddUserGK(u, amount) ==
  /\ u \in known
  /\ grants < MaxGrants
  /\ grants' = grants + 1
  /\ gk' = [gk EXCEPT ![u] = @ + amount]
  /\ granted' = [granted EXCEPT ![u] = @ + amount]
  /\ UNCHANGED <<known, codeVars, inviteVars, claimed, level, hasty, request>>
-----------------------------------------------------------------------------
\* A request stops where it is.
Fail(j) ==
  /\ request[j] # Idle
  /\ torn' = IF request[j].at = "update" THEN torn \cup {request[j].user} ELSE torn
  /\ Done(j)
  /\ UNCHANGED <<known, codeVars, referredBy, referral, gkVars>>

Step(j) ==
  \/ SetCode(j)
  \/ GetUserByReferralCode(j) \/ CreateReferral(j) \/ SetReferredBy(j)
  \/ IsGKRewardClaimed(j) \/ ClaimGKReward(j)
  \/ UpgradeCharacter(j)
  \/ Fail(j)

Ask(j, u) ==
  \/ AskCode(j, u)
  \/ Auth(j, u)
  \/ \E c \in Codes : ApplyReferralCode(j, u, c)
  \/ \E t \in Thresholds : GetReferralStats(j, u, t)
  \/ GetCharacterLevel(j, u)

Next ==
  \/ \E j \in Requests : Step(j) \/ \E u \in Users : Ask(j, u)
  \/ \E u \in Users, amount \in Grants : AddUserGK(u, amount)

Spec == Init /\ [][Next]_vars
-----------------------------------------------------------------------------
(* Every level is paid for once and every milestone is earned and paid     *)
(* once: the GK of a user are what the admin gave and his milestones,      *)
(* less the price of his levels.  A user who claims a milestone twice at a *)
(* time, or whose claim could not be looked up, is paid again and may only *)
(* have more.                                                              *)
Milestones(u) == SumFunctionOnSet(Reward, claimed[u])
Prices(u) == SumFunctionOnSet(Cost, 2 .. level[u])
Earned(u) == granted[u] + Milestones(u) - Prices(u)

GkIsEarned ==
  \A u \in Users :
    /\ gk[u] >= Earned(u)
    /\ u \notin hasty => gk[u] = Earned(u)
    /\ \A t \in claimed[u] : Referrals(u) >= t

\* In either table whoever invited a user stays his referrer and is another
\* user, and whoever is in users is in referrals too, for everybody.  That both
\* name the same one is for users whose applications neither overlap nor stop
\* between the tables (not `torn`): when none of theirs is under way.
ReferrerStays ==
  [][\A u \in Users :
       /\ referral[u] # Nobody => referral'[u] = referral[u]
       /\ referredBy[u] # Nobody => referredBy'[u] = referredBy[u]
       /\ referral'[u] # u /\ referredBy'[u] # u
       /\ referredBy'[u] # Nobody => referral'[u] # Nobody
       /\ u \notin torn' => \/ referredBy'[u] = referral'[u]
                            \/ Busy(u, {"insert", "update"})' # {}]_vars
-----------------------------------------------------------------------------
(* What the code says and does not do (README, section 4).                 *)

\* "each user can only be referred once" (migrations/014_referrals.sql:8) and
\* "we also update referred_by in the table users" (referral_repo.go:91): the
\* tables never name different referrers.  Two applications that overlap leave
\* the referrer of one in each.
OneReferrer ==
  \A u \in Users : referral[u] # Nobody /\ referredBy[u] # Nobody
                     => referral[u] = referredBy[u]
=============================================================================
