--------------------------- MODULE UserInfoCache ---------------------------
(***************************************************************************)
(* The user info finder that all plugins share (user.go): a cache over the *)
(* Slack API, without a lock around the two.  Looking into the cache,      *)
(* loading and adding are steps of their own, so that lookups of one user  *)
(* may load at the same time, and add in another order.                    *)
(***************************************************************************)
EXTENDS UserDirectory, Integers, FiniteSets

CONSTANT UserInfoCacheSize  \* as configured: it may be negative

ASSUME UserInfoCacheSizeAssumption == UserInfoCacheSize \in Int

VARIABLE userProfileCache  \* by user id, one profile or none

cacheVars == <<profile, told, lookup, userProfileCache>>

CacheTypeOK ==
    /\ DirectoryTypeOK
    /\ userProfileCache \in [Users -> SUBSET Profiles]

(* NewCachingUserInfoFinder makes no cache of size 0 or less.              *)
Disabled == UserInfoCacheSize <= 0

CacheInit ==
    /\ DirectoryInit
    /\ userProfileCache = [u \in Users |-> {}]

Kept == {u \in Users : userProfileCache[u] # {}}

(* An ARC cache adds, and evicts any entry when it is full.                *)
AddProfile(u, p) ==
    \E victims \in IF u \in Kept \/ Cardinality(Kept) < UserInfoCacheSize
                   THEN {{}} ELSE {{v} : v \in Kept} :
        userProfileCache' = [v \in Users |-> IF v = u THEN {p}
                                             ELSE IF v \in victims THEN {}
                                             ELSE userProfileCache[v]]

Hit(c) ==
    /\ lookup[c].at = "asked" /\ ~Disabled
    /\ \E p \in userProfileCache[lookup[c].user] :
         lookup' = [lookup EXCEPT ![c] =
                      [at |-> "answered", user |-> lookup[c].user, result |-> p]]
    /\ UNCHANGED <<profile, told, userProfileCache>>

Miss(c) ==
    /\ lookup[c].at = "asked"
    /\ Disabled \/ userProfileCache[lookup[c].user] = {}
    /\ lookup' = [lookup EXCEPT ![c] = [at |-> "loading", user |-> lookup[c].user]]
    /\ UNCHANGED <<profile, told, userProfileCache>>

(* loader.GetUserInfo                                                      *)
Load(c) == Tell(c) /\ UNCHANGED userProfileCache

(* MUTANT of LoadFails: what comes with an error is added too.             *)
LoadFailsAndAdds(c) == Refuse(c) /\ AddProfile(lookup[c].user, NoProfile)

(* A user that was not found, or not got, comes with an error: it is not   *)
(* added, and the next lookup asks Slack again.                            *)
LoadFails(c) == Refuse(c) /\ UNCHANGED userProfileCache

(* What was loaded is added, whoever has added what in the meantime.       *)
AddLoaded(c) ==
    /\ Relay(c)
    /\ IF Disabled THEN UNCHANGED userProfileCache
       ELSE AddProfile(lookup[c].user, lookup[c].result)

(* A step of GetUserInfo.                                                  *)
GetUserInfo(c) == Hit(c) \/ Miss(c) \/ Load(c) \/ LoadFails(c) \/ AddLoaded(c)

CacheNext ==
    \/ \E u \in Users : ChangeProfile(u) /\ UNCHANGED userProfileCache
    \/ \E c \in Callers :
         \/ \E u \in Users : Ask(c, u) /\ UNCHANGED userProfileCache
         \/ GetUserInfo(c)
         \/ Return(c) /\ UNCHANGED userProfileCache

CacheSpec == CacheInit /\ [][CacheNext]_cacheVars
=============================================================================
