------------------------------ MODULE Accounts ------------------------------
(***************************************************************************)
(* The sessions of one user: tokens carry the version they were issued     *)
(* with, a change of the password through a mailed link raises it, and the *)
(* middleware compares the two, with a cached version.                     *)
(***************************************************************************)
EXTENDS Setbacks, FiniteSets

CONSTANTS Links,     \* mailed links, each with a new password
          Uses,      \* calls of Valid
          Requests   \* requests that look the version up

ASSUME AccountAssumption == IsFiniteSet(Links) /\ IsFiniteSet(Uses)

VARIABLES
  account,      \* the row: password_digest, token_version
  mailed,       \* links that have been sent
  linkUsed,     \* email:token:used:<hash>
  use,          \* calls of Valid
  sessions,     \* tokens: version, and the password they were issued for
  versionCache, \* tokenVerCache
  lookup        \* requests between the lookup and the store

accountVars == <<account, mailed, linkUsed, use, sessions, versionCache, lookup, setbacks>>

NoVersion == -1
MaxVersion == Cardinality(Links) + MaxSetbacks
Passwords == {"first"} \cup Links

AccountTypeOK ==
  /\ account \in [password : Passwords, version : 0..MaxVersion]
  /\ mailed \subseteq Links /\ linkUsed \subseteq mailed
  /\ use \in [Uses -> [at : {"idle", "updates", "bumps", "invalidates", "releases"},
                       link : {L \in SUBSET Links : Cardinality(L) <= 1}]]
  /\ sessions \subseteq [version : 0..MaxVersion, password : Passwords]
  /\ versionCache \in NoVersion..MaxVersion
  /\ lookup \in [Requests -> NoVersion..MaxVersion]

AccountInit ==
  /\ account = [password |-> "first", version |-> 0]
  /\ mailed = {} /\ linkUsed = {} /\ sessions = {} /\ versionCache = NoVersion
  /\ use = [u \in Uses |-> [at |-> "idle", link |-> {}]]
  /\ lookup = [r \in Requests |-> NoVersion]

UseAt(u, at) == use' = [use EXCEPT ![u] = [at |-> at, link |-> IF at = "idle" THEN {} ELSE @.link]]

-----------------------------------------------------------------------------
SendEmail(l) ==
  /\ l \notin mailed /\ mailed' = mailed \cup {l}
  /\ UNCHANGED <<account, linkUsed, use, sessions, versionCache, lookup, setbacks>>

\* Password and version are read together.
UserLogin ==
  /\ sessions' = sessions \cup {[version |-> account.version, password |-> account.password]}
  /\ UNCHANGED <<account, mailed, linkUsed, use, versionCache, lookup, setbacks>>

(* Valid *)

emailTokenClaim(u, l) ==
  /\ use[u].at = "idle" /\ l \in mailed \ linkUsed
  /\ linkUsed' = linkUsed \cup {l}
  /\ use' = [use EXCEPT ![u] = [at |-> "updates", link |-> {l}]]
  /\ UNCHANGED <<account, mailed, sessions, versionCache, lookup, setbacks>>

\* A write whose reply is lost has been made or not; the link is given free.
UpdateUserColumns(u) ==
  LET writes == account' = [account EXCEPT !.password = CHOOSE l \in use[u].link : TRUE] IN
  /\ use[u].at = "updates"
  /\ \/ Smooth /\ writes /\ UseAt(u, "bumps")
     \/ Setback /\ (writes \/ UNCHANGED account) /\ UseAt(u, "releases")
  /\ UNCHANGED <<mailed, linkUsed, sessions, versionCache, lookup>>

BumpTokenVersion(u) ==
  LET bumps == account' = [account EXCEPT !.version = @ + 1] IN
  /\ use[u].at = "bumps"
  /\ \/ Smooth /\ bumps /\ UseAt(u, "invalidates")
     \/ Setback /\ (bumps \/ UNCHANGED account) /\ UseAt(u, "releases")
  /\ UNCHANGED <<mailed, linkUsed, sessions, versionCache, lookup>>

InvalidateTokenVersionCache(u) ==
  /\ use[u].at = "invalidates" /\ versionCache' = NoVersion /\ UseAt(u, "idle")
  /\ UNCHANGED <<account, mailed, linkUsed, sessions, lookup, setbacks>>

emailTokenRelease(u) ==
  /\ use[u].at = "releases"
  /\ \/ Smooth /\ linkUsed' = linkUsed \ use[u].link
     \/ Setback /\ UNCHANGED linkUsed
  /\ UseAt(u, "idle") /\ UNCHANGED <<account, mailed, sessions, versionCache, lookup>>

UseDies(u) ==
  /\ use[u].at # "idle" /\ Setback /\ UseAt(u, "idle")
  /\ UNCHANGED <<account, mailed, linkUsed, sessions, versionCache, lookup>>

-----------------------------------------------------------------------------
(* AuthMiddleware *)

\* Renewal hands the version on; a token passes when it has the cached version,
\* or the row's when none is cached.
Admits(s) == s.version = IF versionCache = NoVersion THEN account.version ELSE versionCache

currentTokenVersion(r) ==
  /\ lookup[r] = NoVersion /\ versionCache = NoVersion
  /\ lookup' = [lookup EXCEPT ![r] = account.version]
  /\ UNCHANGED <<account, mailed, linkUsed, use, sessions, versionCache, setbacks>>

\* The window the code accepts: a lookup that lasts from before the version is
\* raised until after the cache is cleared.
StoreVersion(r) ==
  /\ lookup[r] # NoVersion
  /\ \/ (lookup[r] = account.version \/ \E u \in Uses : use[u].at = "invalidates") /\ Smooth
     \/ lookup[r] # account.version /\ Setback
  /\ versionCache' = lookup[r] /\ lookup' = [lookup EXCEPT ![r] = NoVersion]
  /\ UNCHANGED <<account, mailed, linkUsed, use, sessions>>

VersionExpires ==
  /\ versionCache # NoVersion /\ versionCache' = NoVersion
  /\ UNCHANGED <<account, mailed, linkUsed, use, sessions, lookup, setbacks>>

AccountNext ==
  \/ \E l \in Links : SendEmail(l) \/ \E u \in Uses : emailTokenClaim(u, l)
  \/ \E u \in Uses : \/ UpdateUserColumns(u) \/ BumpTokenVersion(u) \/ emailTokenRelease(u)
                     \/ InvalidateTokenVersionCache(u) \/ UseDies(u)
  \/ \E r \in Requests : currentTokenVersion(r) \/ StoreVersion(r)
  \/ UserLogin \/ VersionExpires

AccountSpec == AccountInit /\ SetbacksInit /\ [][AccountNext]_accountVars

-----------------------------------------------------------------------------
\* However links, logins and lookups interleave, once no change is under way the
\* middleware admits the sessions of the current version and no others, and they
\* were issued for the current password: those from before the change have ended.
SessionsEnd ==
  setbacks = 0 /\ (\A u \in Uses : use[u].at \in {"idle", "updates"}) =>
    \A s \in sessions : /\ Admits(s) <=> s.version = account.version
                        /\ Admits(s) => s.password = account.password
=============================================================================
