------------------------- MODULE Conversation_proofs ------------------------
(***************************************************************************)
(* The caching finder implements the directory, for any users, callers and *)
(* size of the cache, however lookups overlap, fail and evict; and the     *)
(* workers' lookups are those of the caching finder, so that whatever is   *)
(* said, to however many workers, every lookup is true.  And the quoter    *)
(* treats all versions of a message alike.                                 *)
(***************************************************************************)
EXTENDS Conversation, WellFoundedInduction, TLAPS

USE MaxProfilesAssumption, UserInfoCacheSizeAssumption
USE DEF Profiles, NoProfile

(* What the cache has, and what a lookup is about to add to it, Slack has  *)
(* given for that very user.                                               *)
KeptWasTold == \A u \in Users : userProfileCache[u] \subseteq told[u]
LoadedWasTold ==
    \A c \in Callers : lookup[c].at = "loaded" => lookup[c].result \in told[lookup[c].user]

CacheInv == CacheTypeOK /\ KeptWasTold /\ LoadedWasTold

(* What a lookup knows, by where it is.                                    *)
LEMMA LookupType ==
    ASSUME DirectoryTypeOK, NEW c \in Callers
    PROVE  /\ lookup[c].at \in {"asked", "loading", "loaded", "answered"} =>
                lookup[c].user \in Users
           /\ lookup[c].at = "loaded" => lookup[c].result \in Profiles
<1>1. lookup[c] \in {NoLookup} \cup [at : {"asked", "loading"}, user : Users]
                     \cup [at : {"loaded"}, user : Users, result : Profiles]
                     \cup [at : {"answered"}, user : Users, result : Profiles \cup {NoProfile}]
  BY DEF DirectoryTypeOK
<1>. QED
  BY <1>1 DEF NoLookup

(* Adding a profile Slack has given for u keeps the cache true.            *)
LEMMA AddedWasTold ==
    ASSUME CacheTypeOK, KeptWasTold, NEW u \in Users, NEW p \in told[u], p \in Profiles,
           AddProfile(u, p)
    PROVE  /\ userProfileCache' \in [Users -> SUBSET Profiles]
           /\ \A v \in Users : userProfileCache'[v] \subseteq told[v]
<1>1. PICK victims : userProfileCache' = [v \in Users |-> IF v = u THEN {p}
                                             ELSE IF v \in victims THEN {}
                                             ELSE userProfileCache[v]]
  BY DEF AddProfile
<1>2. userProfileCache \in [Users -> SUBSET Profiles]
  BY DEF CacheTypeOK
<1>. QED
  BY <1>1, <1>2 DEF KeptWasTold

LEMMA CacheInvInit == CacheInit => CacheInv
<1>. SUFFICES ASSUME CacheInit PROVE CacheInv
  OBVIOUS
<1>1. DirectoryTypeOK
  BY DEF CacheInit, DirectoryInit, DirectoryTypeOK
<1>2. userProfileCache \in [Users -> SUBSET Profiles]
  BY DEF CacheInit
<1>3. \A c \in Callers : lookup[c].at = "none"
  BY DEF CacheInit, DirectoryInit, NoLookup
<1>. QED
  BY <1>1, <1>2, <1>3 DEF CacheInv, CacheTypeOK, KeptWasTold, LoadedWasTold, CacheInit,
                          DirectoryInit

(* A step that adds nothing to the cache and takes nothing from what was   *)
(* told, of lookups that have not loaded what was not told.                *)
LEMMA CacheInvKept ==
    ASSUME CacheInv, DirectoryTypeOK', UNCHANGED userProfileCache,
           \A u \in Users : told[u] \subseteq told'[u],
           \A c \in Callers : \/ lookup'[c] = lookup[c]
                              \/ lookup'[c].at # "loaded"
                              \/ lookup'[c].result \in told'[lookup'[c].user]
    PROVE  CacheInv'
<1>1. \A c \in Callers : lookup[c].at = "loaded" => lookup[c].user \in Users
  BY LookupType DEF CacheInv, CacheTypeOK
<1>. QED
  BY <1>1 DEF CacheInv, CacheTypeOK, KeptWasTold, LoadedWasTold

LEMMA CacheInvStep == CacheInv /\ [CacheNext]_cacheVars => CacheInv'
<1>. SUFFICES ASSUME CacheInv, [CacheNext]_cacheVars PROVE CacheInv'
  OBVIOUS
<1>0. /\ profile \in [Users -> Profiles \cup {NoProfile}]
      /\ told \in [Users -> SUBSET Profiles]
      /\ userProfileCache \in [Users -> SUBSET Profiles]
  BY DEF CacheInv, CacheTypeOK, DirectoryTypeOK
<1>. DEFINE Lookups == {NoLookup} \cup [at : {"asked", "loading"}, user : Users]
                         \cup [at : {"loaded"}, user : Users, result : Profiles]
                         \cup [at : {"answered"}, user : Users,
                               result : Profiles \cup {NoProfile}]
<1>1. lookup \in [Callers -> Lookups]
  BY DEF CacheInv, CacheTypeOK, DirectoryTypeOK
<1>2. ASSUME NEW u \in Users, ChangeProfile(u), UNCHANGED userProfileCache PROVE CacheInv'
  <2>1. profile' \in [Users -> Profiles \cup {NoProfile}] /\ UNCHANGED <<told, lookup>>
    BY <1>0, <1>2 DEF ChangeProfile
  <2>2. DirectoryTypeOK'
    BY <2>1 DEF CacheInv, CacheTypeOK, DirectoryTypeOK
  <2>. QED
    BY <1>2, <2>1, <2>2, CacheInvKept
<1>3. ASSUME NEW c \in Callers, NEW l \in Lookups, l.at # "loaded",
             lookup' = [lookup EXCEPT ![c] = l], UNCHANGED <<profile, told, userProfileCache>>
      PROVE  CacheInv'
  <2>1. DirectoryTypeOK'
    BY <1>1, <1>3 DEF CacheInv, CacheTypeOK, DirectoryTypeOK
  <2>2. \A d \in Callers : lookup'[d] = lookup[d] \/ lookup'[d].at # "loaded"
    BY <1>1, <1>3
  <2>. QED
    BY <1>3, <2>1, <2>2, CacheInvKept
<1>4. ASSUME NEW c \in Callers, NEW u \in Users, Ask(c, u), UNCHANGED userProfileCache
      PROVE  CacheInv'
  <2>. DEFINE l == [at |-> "asked", user |-> u]
  <2>1. l \in Lookups /\ l.at # "loaded"
    OBVIOUS
  <2>2. lookup' = [lookup EXCEPT ![c] = l] /\ UNCHANGED <<profile, told, userProfileCache>>
    BY <1>4 DEF Ask
  <2>. HIDE DEF l, Lookups
  <2>. QED
    BY <1>3, <2>1, <2>2
<1>5. ASSUME NEW c \in Callers, Hit(c) PROVE CacheInv'
  <2>. DEFINE u == lookup[c].user
  <2>1. u \in Users
    BY <1>5, LookupType DEF Hit, CacheInv, CacheTypeOK
  <2>2. PICK p \in userProfileCache[u] :
          lookup' = [lookup EXCEPT ![c] = [at |-> "answered", user |-> u, result |-> p]]
    BY <1>5 DEF Hit
  <2>. DEFINE l == [at |-> "answered", user |-> u, result |-> p]
  <2>3. l \in Lookups /\ l.at # "loaded"
    BY <1>0, <2>1, <2>2
  <2>4. lookup' = [lookup EXCEPT ![c] = l] /\ UNCHANGED <<profile, told, userProfileCache>>
    BY <1>5, <2>2 DEF Hit
  <2>. HIDE DEF l, Lookups
  <2>. QED
    BY <1>3, <2>3, <2>4
<1>6. ASSUME NEW c \in Callers, Miss(c) PROVE CacheInv'
  <2>. DEFINE l == [at |-> "loading", user |-> lookup[c].user]
  <2>1. lookup[c].user \in Users
    BY <1>6, LookupType DEF Miss, CacheInv, CacheTypeOK
  <2>2. l \in Lookups /\ l.at # "loaded"
    BY <2>1
  <2>3. lookup' = [lookup EXCEPT ![c] = l] /\ UNCHANGED <<profile, told, userProfileCache>>
    BY <1>6 DEF Miss
  <2>. HIDE DEF l, Lookups
  <2>. QED
    BY <1>3, <2>2, <2>3
<1>7. ASSUME NEW c \in Callers, Load(c) PROVE CacheInv'
  <2>. DEFINE u == lookup[c].user
              l == [at |-> "loaded", user |-> u, result |-> profile[u]]
  <2>1. u \in Users
    BY <1>7, LookupType DEF Load, Tell, CacheInv, CacheTypeOK
  <2>2. /\ profile[u] # NoProfile /\ UNCHANGED <<profile, userProfileCache>>
        /\ told' = [told EXCEPT ![u] = @ \cup {profile[u]}]
        /\ lookup' = [lookup EXCEPT ![c] = l]
    BY <1>7 DEF Load, Tell
  <2>3. profile[u] \in Profiles /\ l \in Lookups
    BY <1>0, <2>1, <2>2
  <2>4. told' \in [Users -> SUBSET Profiles] /\ lookup' \in [Callers -> Lookups]
    <3>. HIDE DEF l, Lookups
    <3>. QED
      BY <1>0, <1>1, <2>1, <2>2, <2>3
  <2>5. DirectoryTypeOK'
    BY <2>2, <2>4 DEF CacheInv, CacheTypeOK, DirectoryTypeOK
  <2>6. \A v \in Users : told[v] \subseteq told'[v]
    BY <1>0, <2>1, <2>2
  <2>7. profile[u] \in told'[u]
    BY <1>0, <2>1, <2>2
  <2>8. \A d \in Callers : lookup'[d] = lookup[d] \/ lookup'[d].result \in told'[lookup'[d].user]
    BY <1>1, <2>2, <2>7
  <2>. QED
    BY <2>2, <2>5, <2>6, <2>8, CacheInvKept
<1>8. ASSUME NEW c \in Callers, LoadFails(c) PROVE CacheInv'
  <2>. DEFINE l == [at |-> "answered", user |-> lookup[c].user, result |-> NoProfile]
  <2>1. lookup[c].user \in Users
    BY <1>8, LookupType DEF LoadFails, Refuse, CacheInv, CacheTypeOK
  <2>2. l \in Lookups /\ l.at # "loaded"
    BY <2>1
  <2>3. lookup' = [lookup EXCEPT ![c] = l] /\ UNCHANGED <<profile, told, userProfileCache>>
    BY <1>8 DEF LoadFails, Refuse
  <2>. HIDE DEF l, Lookups
  <2>. QED
    BY <1>3, <2>2, <2>3
<1>9. ASSUME NEW c \in Callers, AddLoaded(c) PROVE CacheInv'
  <2>. DEFINE u == lookup[c].user  p == lookup[c].result
              l == [at |-> "answered", user |-> u, result |-> p]
  <2>1. lookup[c].at = "loaded" /\ u \in Users /\ p \in Profiles /\ p \in told[u]
    BY <1>9, LookupType DEF AddLoaded, Relay, CacheInv, CacheTypeOK, LoadedWasTold
  <2>2. lookup' = [lookup EXCEPT ![c] = l] /\ UNCHANGED <<profile, told>>
    BY <1>9 DEF AddLoaded, Relay
  <2>3. l \in Lookups /\ l.at # "loaded"
    BY <2>1
  <2>4. lookup' \in [Callers -> Lookups] /\ \A d \in Callers : lookup'[d] \in {lookup[d], l}
    <3>. HIDE DEF l, Lookups
    <3>. QED
      BY <1>1, <2>2, <2>3
  <2>5. DirectoryTypeOK'
    BY <2>2, <2>4 DEF CacheInv, CacheTypeOK, DirectoryTypeOK
  <2>6. /\ userProfileCache' \in [Users -> SUBSET Profiles]
        /\ \A v \in Users : userProfileCache'[v] \subseteq told[v]
    <3>1. CASE Disabled
      BY <1>0, <1>9, <3>1 DEF AddLoaded, CacheInv, KeptWasTold
    <3>2. CASE ~Disabled
      BY <1>9, <2>1, <3>2, AddedWasTold DEF AddLoaded, CacheInv
    <3>. QED
      BY <3>1, <3>2
  <2>7. LoadedWasTold'
    BY <2>2, <2>3, <2>4 DEF CacheInv, LoadedWasTold
  <2>. QED
    BY <2>2, <2>5, <2>6, <2>7 DEF CacheInv, CacheTypeOK, KeptWasTold
<1>10. ASSUME NEW c \in Callers, Return(c), UNCHANGED userProfileCache PROVE CacheInv'
  <2>1. NoLookup \in Lookups /\ NoLookup.at # "loaded"
    BY DEF NoLookup
  <2>2. lookup' = [lookup EXCEPT ![c] = NoLookup] /\ UNCHANGED <<profile, told>>
    BY <1>10 DEF Return
  <2>. HIDE DEF Lookups
  <2>. QED
    BY <1>3, <1>10, <2>1, <2>2
<1>11. CASE UNCHANGED cacheVars
  BY <1>11 DEF cacheVars, CacheInv, CacheTypeOK, DirectoryTypeOK, KeptWasTold, LoadedWasTold
<1>. QED
  BY <1>2, <1>4, <1>5, <1>6, <1>7, <1>8, <1>9, <1>10, <1>11 DEF CacheNext, GetUserInfo

(* The cache of user.go keeps its types, and each of its entries is of the *)
(* user it is kept for.                                                    *)
THEOREM CacheInvariant == CacheSpec => []CacheInv
BY CacheInvInit, CacheInvStep, PTL DEF CacheSpec

(* A step of the finder is one the directory allows.                       *)
LEMMA CacheStepsAreAllowed ==
    CacheInv /\ [CacheNext]_cacheVars => [DirectoryNext]_directoryVars
<1>. SUFFICES ASSUME CacheInv, CacheNext PROVE [DirectoryNext]_directoryVars
  BY DEF cacheVars, directoryVars
<1>1. ASSUME NEW c \in Callers, Hit(c) PROVE Recall(c)
  <2>1. lookup[c].at = "asked" /\ lookup[c].user \in Users
    BY <1>1, LookupType DEF Hit, CacheInv, CacheTypeOK
  <2>2. userProfileCache[lookup[c].user] \subseteq told[lookup[c].user]
    BY <2>1 DEF CacheInv, KeptWasTold
  <2>. QED
    BY <1>1, <2>1, <2>2 DEF Hit, Recall
<1>2. ASSUME NEW c \in Callers, Miss(c) PROVE Inquire(c)
  BY <1>2 DEF Miss, Inquire
<1>. QED
  BY <1>1, <1>2 DEF CacheNext, GetUserInfo, Load, LoadFails, AddLoaded, DirectoryNext

(* GetUserInfo, with its unlocked check, load and add, answers as the      *)
(* directory promises: never with another user's profile, nor with one     *)
(* Slack never gave, nor with none that Slack was not asked for.           *)
THEOREM CacheImplementsDirectory == CacheSpec => DirectorySpec
<1>1. CacheInit => DirectoryInit
  BY DEF CacheInit
<1>. QED
  BY <1>1, CacheInvariant, CacheStepsAreAllowed, PTL DEF CacheSpec, DirectorySpec

-----------------------------------------------------------------------------
(* The workers' lookups *)

USE MaxEventsAssumption, SaidAssumption, CallersAssumption
USE DEF EventIds, MessageIds

(* A handler only looks up users, and is in a lookup only while it has one *)
(* to look up.                                                             *)
Asking ==
    \A i \in EventIds :
        /\ at[i] = "answering" => i \in active
        /\ at[i] # "answering" => asks[i] = <<>>
        /\ asks[i] = <<>> => lookup[i] = NoLookup

TalkTypeOK ==
    /\ OrderTypeOK
    /\ asks \in [EventIds -> Seq(Users)]
    /\ at \in [EventIds -> {"waiting", "answering", "finished"}]
    /\ lookup = [i \in EventIds |-> lookup[i]]

TalkInv == TalkTypeOK /\ Asking

LEMMA TalkInvInit == TalkInit => TalkInv
BY DEF TalkInit, OrderInit, CacheInit, DirectoryInit, TalkInv, TalkTypeOK, OrderTypeOK, Asking

(* A step of a lookup that a handler is in leaves it in one.               *)
LEMMA StillLookingUp ==
    ASSUME NEW i, GetUserInfo(i)
    PROVE  /\ lookup[i] # NoLookup
           /\ \E l : l # NoLookup /\ lookup' = [lookup EXCEPT ![i] = l]
<1>1. /\ lookup[i].at \in {"asked", "loading", "loaded"}
      /\ \E l : l.at # "none" /\ lookup' = [lookup EXCEPT ![i] = l]
  BY DEF GetUserInfo, Hit, Miss, Load, Tell, LoadFails, Refuse, AddLoaded, Relay
<1>2. NoLookup.at = "none"
  BY DEF NoLookup
<1>. QED
  BY <1>1, <1>2

LEMMA TalkInvStep == TalkInv /\ [TalkNext]_talkVars => TalkInv'
<1>. SUFFICES ASSUME TalkInv, [TalkNext]_talkVars PROVE TalkInv'
  OBVIOUS
<1>0. /\ OrderTypeOK /\ asks \in [EventIds -> Seq(Users)]
      /\ at \in [EventIds -> {"waiting", "answering", "finished"}]
      /\ lookup = [i \in EventIds |-> lookup[i]]
  BY DEF TalkInv, TalkTypeOK
<1>1. ASSUME NEW e \in Events, HearEvent(e) PROVE TalkInv'
  <2>1. OrderTypeOK' /\ UNCHANGED <<active, lookup, asks, at>>
    BY <1>0, <1>1 DEF HearEvent, Receive, OrderTypeOK, serviceVars, answerVars
  <2>. QED
    BY <2>1 DEF TalkInv, TalkTypeOK, Asking
<1>2. ASSUME NEW i \in EventIds, StartAnswer(i) PROVE TalkInv'
  <2>1. /\ i \in 1..Len(received) /\ i \notin active /\ active' = active \cup {i}
        /\ UNCHANGED <<received, done, lookup>>
    BY <1>2 DEF StartAnswer, Begin, Ready, serviceVars
  <2>2. /\ at' = [at EXCEPT ![i] = IF IsHandled(i) THEN "answering" ELSE "finished"]
        /\ asks' = [asks EXCEPT ![i] = IF IsHandled(i) THEN received[i].content.users ELSE <<>>]
    BY <1>2 DEF StartAnswer
  <2>3. received[i] \in Events
    BY <1>0, <2>1 DEF OrderTypeOK
  <2>4. received[i].content.users \in Seq(Users)
    BY <2>3 DEF Events
  <2>5. lookup[i] = NoLookup
    BY <2>1 DEF TalkInv, Asking
  <2>6. OrderTypeOK'
    BY <1>0, <2>1 DEF OrderTypeOK
  <2>7. /\ asks' \in [EventIds -> Seq(Users)]
        /\ at' \in [EventIds -> {"waiting", "answering", "finished"}]
    BY <1>0, <2>2, <2>4
  <2>8. /\ at'[i] = "answering" \/ (at'[i] = "finished" /\ asks'[i] = <<>>)
        /\ \A j \in EventIds : j # i => at'[j] = at[j] /\ asks'[j] = asks[j]
    BY <1>0, <2>2
  <2>. QED
    BY <2>1, <2>5, <2>6, <2>7, <2>8 DEF TalkInv, TalkTypeOK, Asking
<1>3. ASSUME NEW i \in EventIds, LookUp(i) PROVE TalkInv'
  <2>1. /\ asks[i] # <<>> /\ UNCHANGED <<received, active, done, asks, at>>
        /\ \E l : lookup' = [lookup EXCEPT ![i] = l]
    BY <1>3 DEF LookUp, Ask, answerVars
  <2>. QED
    BY <1>0, <2>1 DEF TalkInv, TalkTypeOK, Asking, OrderTypeOK
<1>4. ASSUME NEW i \in EventIds, UseProfile(i) PROVE TalkInv'
  <2>1. /\ at[i] = "answering" /\ lookup[i].at = "answered"
        /\ lookup' = [lookup EXCEPT ![i] = NoLookup]
        /\ asks' = [asks EXCEPT ![i] = Tail(@)]
        /\ UNCHANGED <<received, active, done, at>>
    BY <1>4 DEF UseProfile, Return
  <2>2. asks[i] # <<>>
    BY <2>1 DEF TalkInv, Asking, NoLookup
  <2>3. Tail(asks[i]) \in Seq(Users)
    BY <1>0, <2>2
  <2>4. asks' \in [EventIds -> Seq(Users)] /\ lookup' = [j \in EventIds |-> lookup'[j]]
    BY <1>0, <2>1, <2>3
  <2>5. /\ lookup'[i] = NoLookup
        /\ \A j \in EventIds : j # i => asks'[j] = asks[j] /\ lookup'[j] = lookup[j]
    BY <1>0, <2>1
  <2>. QED
    BY <1>0, <2>1, <2>4, <2>5 DEF TalkInv, TalkTypeOK, Asking, OrderTypeOK
<1>5. ASSUME NEW i \in EventIds, ShowHelp(i) \/ HearText(i) PROVE TalkInv'
  <2>1. /\ asks[i] = <<>> /\ at' = [at EXCEPT ![i] = "finished"]
        /\ UNCHANGED <<received, active, done, asks, lookup>>
    BY <1>5 DEF ShowHelp, HearText, Hears, serviceVars
  <2>. QED
    BY <1>0, <2>1 DEF TalkInv, TalkTypeOK, Asking, OrderTypeOK
<1>6. ASSUME NEW i \in EventIds, EndAnswer(i) PROVE TalkInv'
  <2>1. /\ at[i] = "finished" /\ i \in active
        /\ active' = active \ {i} /\ done' = done \cup {i}
        /\ UNCHANGED <<received, asks, at, lookup>>
    BY <1>6 DEF EndAnswer, Finish, serviceVars, answerVars
  <2>. QED
    BY <1>0, <2>1 DEF TalkInv, TalkTypeOK, Asking, OrderTypeOK
<1>7. ASSUME NEW i \in EventIds, GetUserInfo(i), UNCHANGED <<received, active, done, answerVars>>
      PROVE  TalkInv'
  <2>1. lookup[i] # NoLookup /\ UNCHANGED <<received, active, done, asks, at>>
    BY <1>7, StillLookingUp DEF answerVars
  <2>2. PICK l : lookup' = [lookup EXCEPT ![i] = l]
    BY <1>7, StillLookingUp
  <2>. QED
    BY <1>0, <2>1, <2>2 DEF TalkInv, TalkTypeOK, Asking, OrderTypeOK
<1>8. CASE UNCHANGED <<received, active, done, lookup, answerVars>>
  BY <1>8 DEF TalkInv, TalkTypeOK, Asking, OrderTypeOK, answerVars
<1>9. ASSUME NEW i \in EventIds, AnswerStep(i) PROVE TalkInv'
  <2>1. CASE Panic(i)
    BY <1>8, <2>1 DEF Panic, serviceVars
  <2>. QED
    BY <1>2, <1>3, <1>4, <1>5, <1>6, <1>7, <1>9, <2>1 DEF AnswerStep
<1>10. ASSUME NEW u \in Users, UserChanges(u) PROVE TalkInv'
  BY <1>8, <1>10 DEF UserChanges, ChangeProfile
<1>. QED
  BY <1>1, <1>8, <1>9, <1>10 DEF TalkNext, talkVars, serviceVars

(* Whatever the workers do, the finder only sees lookups of users.         *)
LEMMA FinderSteps == TalkInv /\ [TalkNext]_talkVars => [CacheNext]_cacheVars
<1>. SUFFICES ASSUME TalkInv, [TalkNext]_talkVars PROVE [CacheNext]_cacheVars
  OBVIOUS
<1>1. ASSUME NEW i \in EventIds, LookUp(i) PROVE CacheNext
  <2>1. asks[i] \in Seq(Users) /\ asks[i] # <<>>
    BY <1>1 DEF LookUp, TalkInv, TalkTypeOK
  <2>2. Head(asks[i]) \in Users
    BY <2>1
  <2>. QED
    BY <1>1, <2>2 DEF LookUp, CacheNext
<1>2. ASSUME NEW i \in EventIds, UseProfile(i) \/ GetUserInfo(i) PROVE CacheNext
  BY <1>2 DEF UseProfile, CacheNext
<1>3. ASSUME NEW i \in EventIds, AnswerStep(i) PROVE [CacheNext]_cacheVars
  BY <1>1, <1>2, <1>3 DEF AnswerStep, StartAnswer, ShowHelp, HearText, Panic, EndAnswer,
                          serviceVars, cacheVars
<1>. QED
  BY <1>3 DEF TalkNext, HearEvent, UserChanges, CacheNext, talkVars, serviceVars, cacheVars

(* Every lookup that help and karma make of the finder they share answers  *)
(* as the directory promises, for any events, contents, users and size of  *)
(* the cache, and any workers that interleave.                             *)
THEOREM LookupsAnswerTruly == TalkSpec => LookupsAreTrue
<1>1. TalkInit => CacheInit
  BY DEF TalkInit
<1>2. TalkSpec => CacheSpec
  BY <1>1, TalkInvInit, TalkInvStep, FinderSteps, PTL DEF TalkSpec, CacheSpec
<1>. QED
  BY <1>2, CacheImplementsDirectory DEF LookupsAreTrue
-----------------------------------------------------------------------------
(* The quoter's decisions *)

LEMMA Least ==
    ASSUME NEW T \in SUBSET Nat, T # {}
    PROVE  \E x \in T : \A y \in T : x <= y
<1>. DEFINE R == {p \in Nat \X Nat : p[1] < p[2]}
<1>1. R = OpToRel(<, Nat)
  BY Zenon DEF OpToRel
<1>2. IsWellFoundedOn(R, Nat)
  BY <1>1, NatLessThanWellFounded
<1>3. PICK x \in T : \A y \in T : ~(<<y, x>> \in R)
  <2>. HIDE DEF R
  <2>. QED
    BY <1>2, WFMin
<1>4. \A y \in T : ~(y < x)
  BY <1>3
<1>. QED
  BY <1>4

(* A number drawn for a choice among n is one of n.                        *)
LEMMA DrawnBelow ==
    ASSUME NEW m \in MessageIds, NEW n \in Nat, n > 0, n < 2^Width
    PROVE  Int31n(Draws[m], n) \in 0..n - 1
<1>. DEFINE draws == Draws[m]
            S == Accepted(draws, n)
<1>1. draws \in Seq(Nat) /\ S # {}
  <2>1. n \in 1..(2^Width - 1)
    BY WidthAssumption
  <2>. QED
    BY <2>1, DrawsAssumption
<1>2. S \subseteq DOMAIN draws
  BY DEF Accepted
<1>. HIDE DEF draws, S
<1>3. S \in SUBSET Nat
  BY <1>1, <1>2
<1>4. Min(S) \in S
  BY <1>1, <1>3, Least DEF Min
<1>5. draws[Min(S)] \in Nat
  BY <1>1, <1>2, <1>4
<1>. DEFINE v == draws[Min(S)]
<1>6. Int31n(draws, n) = v % n
  BY DEF Int31n, S
<1>. HIDE DEF v
<1>7. v \in Nat
  BY <1>5 DEF v
<1>8. v % n \in 0..n - 1
  BY <1>7
<1>. QED
  BY <1>6, <1>8 DEF draws

Heard(i) == IsHandled(i) /\ ~IsCommand(i)

(* What the quoter makes of the version i of a message: its seed is the    *)
(* message's, whichever version it is.                                     *)
Decision(i) ==
    LET draws == Draws[received[i].about]
    IN  IF Listens(i) /\ Triggers(draws, config.frequency) THEN Quote(draws, Text(i)) ELSE <<>>

NewIsAboutItself ==
    \A i \in 1..Len(received) : received[i].kind = "new" => received[i].about = i

Quoted ==
    /\ quote = [i \in EventIds |-> quote[i]]
    /\ \A i \in EventIds : at[i] # "waiting" => i \in active \cup done
    /\ \A i \in done : at[i] = "finished"
    /\ \A i \in EventIds : at[i] = "finished" /\ Heard(i) => quote[i] = Decision(i)

QuoteInv == TalkInv /\ NewIsAboutItself /\ Quoted

LEMMA QuoteInvInit == TalkInit => QuoteInv
BY TalkInvInit DEF QuoteInv, TalkInit, OrderInit, NewIsAboutItself, Quoted

(* The events received do not change, nor does what depends on them.       *)
LEMMA StillHeard ==
    ASSUME NEW i, received'[i] = received[i], config' = config
    PROVE  Heard(i)' = Heard(i) /\ Decision(i)' = Decision(i)
BY DEF Heard, Decision, IsHandled, IsCommand, Listens, Text

(* What a handler may do to the quotes and to where it is.                 *)
LEMMA QuotedStep ==
    ASSUME QuoteInv, UNCHANGED <<received, config>>, NEW i \in EventIds,
           \A j \in EventIds \ {i} : at'[j] = at[j] /\ quote'[j] = quote[j],
           quote' = [j \in EventIds |-> quote'[j]],
           active \cup done \subseteq active' \cup done', done' \subseteq done \cup {i},
           at'[i] # "waiting" => i \in active' \cup done',
           i \in done' => at'[i] = "finished",
           at'[i] = "finished" /\ Heard(i) => quote'[i] = Decision(i)
    PROVE  NewIsAboutItself' /\ Quoted'
<1>1. \A j \in EventIds : Heard(j)' = Heard(j) /\ Decision(j)' = Decision(j)
  BY StillHeard
<1>2. done \subseteq EventIds
  BY DEF QuoteInv, TalkInv, TalkTypeOK, OrderTypeOK
<1>3. NewIsAboutItself'
  BY DEF QuoteInv, NewIsAboutItself
<1>. QED
  BY <1>1, <1>2, <1>3 DEF QuoteInv, Quoted

LEMMA QuoteInvStep == QuoteInv /\ [TalkNext]_talkVars => QuoteInv'
<1>. SUFFICES ASSUME QuoteInv, [TalkNext]_talkVars PROVE QuoteInv'
  OBVIOUS
<1>0. /\ OrderTypeOK /\ at \in [EventIds -> {"waiting", "answering", "finished"}]
      /\ quote = [i \in EventIds |-> quote[i]]
      /\ active \cup done \subseteq EventIds
  BY DEF QuoteInv, TalkInv, TalkTypeOK, OrderTypeOK, Quoted
<1>1. TalkInv'
  BY TalkInvStep DEF QuoteInv
<1>2. ASSUME NEW e \in Events, HearEvent(e) PROVE NewIsAboutItself' /\ Quoted'
  <2>1. /\ received' = Append(received, e) /\ e \in Deliverable(received)
        /\ UNCHANGED <<active, done, config, at, quote>>
    BY <1>2 DEF HearEvent, Receive, answerVars
  <2>2. e.kind = "new" => e.about = Len(received) + 1
    BY <2>1 DEF Deliverable, CanFollow
  <2>3. /\ received \in Seq(Events) /\ Len(received') = Len(received) + 1
        /\ received'[Len(received) + 1] = e
        /\ \A i \in 1..Len(received) : received'[i] = received[i]
    BY <1>0, <2>1 DEF OrderTypeOK
  <2>4. NewIsAboutItself'
    BY <2>2, <2>3 DEF QuoteInv, NewIsAboutItself
  <2>5. \A i \in active \cup done : Heard(i)' = Heard(i) /\ Decision(i)' = Decision(i)
    BY <1>0, <2>1, <2>3, StillHeard DEF OrderTypeOK
  <2>6. \A i \in EventIds : at[i] = "finished" => i \in active \cup done
    BY DEF QuoteInv, Quoted
  <2>. QED
    BY <2>1, <2>4, <2>5, <2>6 DEF QuoteInv, Quoted
<1>3. ASSUME NEW i \in EventIds, StartAnswer(i) PROVE NewIsAboutItself' /\ Quoted'
  <2>1. /\ i \notin active \cup done /\ active' = active \cup {i}
        /\ at' = [at EXCEPT ![i] = IF IsHandled(i) THEN "answering" ELSE "finished"]
        /\ UNCHANGED <<received, done, config, quote>>
    BY <1>3 DEF StartAnswer, Begin, Ready
  <2>2. /\ at'[i] = (IF IsHandled(i) THEN "answering" ELSE "finished")
        /\ \A j \in EventIds \ {i} : at'[j] = at[j]
    BY <1>0, <2>1
  <2>3. at'[i] = "finished" => ~Heard(i)
    BY <2>2 DEF Heard
  <2>. QED
    BY <1>0, <2>1, <2>2, <2>3, QuotedStep
<1>4. ASSUME NEW i \in EventIds, ShowHelp(i) PROVE NewIsAboutItself' /\ Quoted'
  <2>1. /\ at[i] = "answering" /\ at' = [at EXCEPT ![i] = "finished"] /\ ~Heard(i)
        /\ UNCHANGED <<received, active, done, config, quote>>
    BY <1>4 DEF ShowHelp, Heard
  <2>2. at'[i] = "finished" /\ \A j \in EventIds \ {i} : at'[j] = at[j]
    BY <1>0, <2>1
  <2>3. i \in active \cup done
    BY <2>1 DEF QuoteInv, Quoted
  <2>. QED
    BY <1>0, <2>1, <2>2, <2>3, QuotedStep
<1>5. ASSUME NEW i \in EventIds, HearText(i) PROVE NewIsAboutItself' /\ Quoted'
  <2>. DEFINE word == IF Listens(i) /\ Triggers(Draws[Timestamp(i)], config.frequency)
                      THEN Quote(Draws[Timestamp(i)], Text(i)) ELSE <<>>
  <2>1. /\ at[i] = "answering" /\ at' = [at EXCEPT ![i] = "finished"]
        /\ UNCHANGED <<received, active, done, config>>
        /\ quote' = [quote EXCEPT ![i] = word]
    BY <1>5 DEF HearText, Hears
  <2>2. i \in active \cup done
    BY <2>1 DEF QuoteInv, Quoted
  <2>3. Heard(i) => Timestamp(i) = received[i].about
    <3>1. i \in 1..Len(received)
      BY <1>0, <2>2 DEF OrderTypeOK
    <3>. QED
      BY <3>1 DEF QuoteInv, NewIsAboutItself, Heard, IsHandled, Timestamp
  <2>4. Heard(i) => word = Decision(i)
    BY <2>3 DEF Decision
  <2>. HIDE DEF word
  <2>5. /\ at'[i] = "finished" /\ quote'[i] = word
        /\ \A j \in EventIds \ {i} : at'[j] = at[j] /\ quote'[j] = quote[j]
        /\ quote' = [j \in EventIds |-> quote'[j]]
    BY <1>0, <2>1
  <2>. QED
    BY <2>1, <2>2, <2>4, <2>5, QuotedStep
<1>6. ASSUME NEW i \in EventIds, EndAnswer(i) PROVE NewIsAboutItself' /\ Quoted'
  <2>1. /\ at[i] = "finished" /\ i \in active
        /\ active' = active \ {i} /\ done' = done \cup {i}
        /\ UNCHANGED <<received, config, quote, at>>
    BY <1>6 DEF EndAnswer, Finish, answerVars
  <2>2. Heard(i) => quote[i] = Decision(i)
    BY <2>1 DEF QuoteInv, Quoted
  <2>. QED
    BY <1>0, <2>1, <2>2, QuotedStep
<1>7. ASSUME UNCHANGED <<received, active, done, config, quote, at>>
      PROVE  NewIsAboutItself' /\ Quoted'
  <2>1. \A j \in EventIds : Heard(j)' = Heard(j) /\ Decision(j)' = Decision(j)
    BY <1>7, StillHeard
  <2>. QED
    BY <1>7, <2>1 DEF QuoteInv, NewIsAboutItself, Quoted
<1>8. ASSUME NEW i \in EventIds, AnswerStep(i) PROVE NewIsAboutItself' /\ Quoted'
  <2>1. CASE LookUp(i) \/ UseProfile(i) \/ Panic(i)
    <3>1. UNCHANGED <<received, active, done, config, quote, at>>
      BY <2>1 DEF LookUp, UseProfile, Panic, answerVars
    <3>. QED
      BY <1>7, <3>1
  <2>2. CASE UNCHANGED <<received, active, done, config, answerVars, panicked>>
    BY <1>7, <2>2 DEF answerVars
  <2>. QED
    BY <1>3, <1>4, <1>5, <1>6, <1>8, <2>1, <2>2 DEF AnswerStep
<1>9. ASSUME NEW u \in Users, UserChanges(u) PROVE NewIsAboutItself' /\ Quoted'
  BY <1>7, <1>9 DEF UserChanges, answerVars
<1>10. CASE UNCHANGED talkVars
  BY <1>1, <1>7, <1>10 DEF QuoteInv, talkVars, answerVars
<1>. QED
  BY <1>1, <1>2, <1>8, <1>9, <1>10 DEF TalkNext, QuoteInv

(* The version's number of candidates decides the place of the quoted one. *)
LEMMA Quotes ==
    ASSUME TalkInv, NEW i \in 1..Len(received), NEW words, words = Candidates(Text(i)),
           words # <<>>
    PROVE  /\ Int31n(Draws[received[i].about], Len(words)) + 1 \in 1..Len(words)
           /\ Decision(i) =
                IF /\ Listens(i)
                   /\ Triggers(Draws[received[i].about], config.frequency)
                THEN <<words[Int31n(Draws[received[i].about], Len(words)) + 1]>>
                ELSE <<>>
<1>1. received[i] \in Events
  BY DEF TalkInv, TalkTypeOK, OrderTypeOK
<1>2. received[i].about \in MessageIds /\ received[i].content \in Contents
  BY <1>1 DEF Events
<1>3. words \in Seq(LongWords) /\ Len(words) < 2^Width
  BY <1>2, CandidatesAssumption DEF Text
<1>4. Len(words) \in Nat /\ Len(words) > 0
  BY <1>3
<1>5. Int31n(Draws[received[i].about], Len(words)) \in 0..Len(words) - 1
  BY <1>2, <1>3, <1>4, DrawnBelow
<1>6. Decision(i) =
        IF /\ Listens(i)
           /\ Triggers(Draws[received[i].about], config.frequency)
        THEN <<words[Int31n(Draws[received[i].about], Len(words)) + 1]>>
        ELSE <<>>
  BY DEF Decision, Quote
<1>. QED
  BY <1>4, <1>5, <1>6

LEMMA DecisionsAgree == QuoteInv => EditsKeepTheDecision
<1>. SUFFICES ASSUME QuoteInv, NEW i \in done, NEW j \in done, Heard(i), Heard(j),
                     received[i].about = received[j].about,
                     Candidates(Text(i)) # <<>>, Candidates(Text(j)) # <<>>
              PROVE  LET ci == Candidates(Text(i))
                         cj == Candidates(Text(j))
                     IN  /\ quote[i] = <<>> <=> quote[j] = <<>>
                         /\ Len(ci) = Len(cj) /\ quote[i] # <<>> =>
                              \E k \in 1..Len(ci) : quote[i] = <<ci[k]>> /\ quote[j] = <<cj[k]>>
  BY DEF EditsKeepTheDecision, Heard
<1>. DEFINE ci == Candidates(Text(i))
            cj == Candidates(Text(j))
            draws == Draws[received[i].about]
            yes == Listens(i) /\ Triggers(draws, config.frequency)
<1>1. i \in 1..Len(received) /\ j \in 1..Len(received) /\ TalkInv
  BY DEF QuoteInv, TalkInv, TalkTypeOK, OrderTypeOK
<1>2. quote[i] = Decision(i) /\ quote[j] = Decision(j)
  <2>1. done \subseteq EventIds
    BY DEF QuoteInv, TalkInv, TalkTypeOK, OrderTypeOK
  <2>. QED
    BY <2>1 DEF QuoteInv, Quoted
<1>3. Listens(j) = Listens(i)
  BY DEF Listens
<1>4. /\ Int31n(draws, Len(ci)) + 1 \in 1..Len(ci)
      /\ Decision(i) = IF yes THEN <<ci[Int31n(draws, Len(ci)) + 1]>> ELSE <<>>
  BY <1>1, Quotes
<1>5. /\ Int31n(draws, Len(cj)) + 1 \in 1..Len(cj)
      /\ Decision(j) = IF yes THEN <<cj[Int31n(draws, Len(cj)) + 1]>> ELSE <<>>
  BY <1>1, <1>3, Quotes
<1>. HIDE DEF ci, cj, draws, yes
<1>6. \A x : <<x>> # <<>>
  OBVIOUS
<1>7. quote[i] = <<>> <=> quote[j] = <<>>
  BY <1>2, <1>4, <1>5, <1>6
<1>8. ASSUME Len(ci) = Len(cj), quote[i] # <<>>
      PROVE  \E k \in 1..Len(ci) : quote[i] = <<ci[k]>> /\ quote[j] = <<cj[k]>>
  BY <1>2, <1>4, <1>5, <1>8
<1>. QED
  BY <1>7, <1>8 DEF ci, cj

(* For any texts, configuration and generator: the versions of a message   *)
(* share their fate with the quoter, whatever comes between them.          *)
THEOREM EditsAreQuotedAlike == TalkSpec => []EditsKeepTheDecision
BY QuoteInvInit, QuoteInvStep, DecisionsAgree, PTL DEF TalkSpec
=============================================================================
