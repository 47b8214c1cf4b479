------------------------------ MODULE RbacKeys ------------------------------
(***************************************************************************)
(* API keys as credentials of the requests of Rbac                         *)
(* (internal/identity/apikeys_service.go, apikeys_repository.go and the    *)
(* middleware's branch for them).                                          *)
(*                                                                         *)
(* A key acts as its owner, with the permissions chosen when it was made   *)
(* and no roles.  The handlers it reaches are those of Rbac: all they know *)
(* of the credential is the `access` and the users row the middleware put  *)
(* in the request.  Two of them ask that row and not the access:           *)
(* CreateAPIKey, for the owner of a new key, and SetUserActive, whose      *)
(* last-admin guard is waived for a superuser.                             *)
(*                                                                         *)
(* The permissions of a key are inserted with it and never updated, so the *)
(* query that reads them is not a step of its own.                         *)
(***************************************************************************)
EXTENDS Rbac

CONSTANTS
    KeyIds,          \* rows of api_keys that will ever be inserted
    NoKey,           \* the credential is a session
    PermAPIKeysCreate, PermAPIKeysDelete

ASSUME RbacKeysAssumption ==
    /\ NoKey \notin KeyIds
    /\ {PermAPIKeysCreate, PermAPIKeysDelete} \subseteq Catalog

VARIABLES
    keys,     \* rows of api_keys with their api_key_permissions
    via       \* the key a request in flight came with

keyVars == <<vars, keys, via>>

\* expires_at is optional and revoked_at final.
KeyRow == [state : {"unused", "live", "expired", "revoked"},
           owner : Users \cup {Nobody}, perms : SUBSET Perms]
UnusedKey == [state |-> "unused", owner |-> Nobody, perms |-> {}]

\* The WHERE clause of AuthenticateAPIKey.
Authenticates(k) == keys[k].state = "live" /\ active[keys[k].owner]

-----------------------------------------------------------------------------
(* The middleware. *)

\* requireAuth with a key: the key's row, of an owner who is active.
AuthenticateAPIKey(q, k) ==
    /\ req[q].pc = "idle"
    /\ Authenticates(k)
    /\ req' = [req EXCEPT ![q] = [Idle EXCEPT !.pc = "authenticated",
                                              !.actor = keys[k].owner]]
    /\ via' = [via EXCEPT ![q] = k]
    /\ UNCHANGED <<db, conferred, keys>>

\* The request goes on with its owner's row and access a.
EnterWithKey(q, a) ==
    /\ req[q].pc = "authenticated" /\ via[q] # NoKey
    /\ req' = [req EXCEPT ![q] = [@ EXCEPT !.pc = "authorized",
                                           !.isSuper = superuser[req[q].actor],
                                           !.access = a]]
    /\ UNCHANGED <<db, conferred, keys, via>>

\* Bug: the owner's authority instead of the key's scope.
AuthorizeAsOwner(q) ==
    EnterWithKey(q, AccessOf(req[q].actor, superuser[req[q].actor]))

\* GetUserByID for the owner's row, and requireAccess for the frozen scope.
AuthorizeKey(q) ==
    EnterWithKey(q, [perms |-> keys[via[q]].perms, roles |-> {},
                     viaSuperuser |-> FALSE])

-----------------------------------------------------------------------------
(* Managing keys. *)

\* The row, owned by the caller, and its permissions.
InsertKey(q, k, perms) ==
    keys' = [keys EXCEPT ![k] = [state |-> "live", owner |-> req[q].actor,
                                 perms |-> perms]]

\* Bug: checkEscalation is not called.
CreateAPIKeyAny(q, k, perms) ==
    /\ Authorized(q, PermAPIKeysCreate) /\ keys[k].state = "unused"
    /\ ValidPerms(perms)
    /\ InsertKey(q, k, perms)
    /\ Answer(q, "ok") /\ UNCHANGED <<db, conferred>>

\* The guard reads the snapshot alone, so one step serves: k is the new row's id.
CreateAPIKey(q, k, perms) ==
    /\ Authorized(q, PermAPIKeysCreate)
    /\ keys[k].state = "unused"
    /\ UNCHANGED <<db, conferred>>
    /\ \/ ~ValidPerms(perms) /\ Answer(q, "invalid") /\ UNCHANGED keys
       \/ /\ ValidPerms(perms) /\ ~MayGrant(q, perms)
          /\ Answer(q, "escalation") /\ UNCHANGED keys
       \/ /\ ValidPerms(perms) /\ MayGrant(q, perms)
          /\ InsertKey(q, k, perms)
          /\ Answer(q, "ok")

\* Any key of the installation, expired or not, and whoever owns it.
RevokeAPIKey(q, k) ==
    /\ Authorized(q, PermAPIKeysDelete)
    /\ UNCHANGED <<db, conferred>>
    /\ \/ /\ keys[k].state \in {"unused", "revoked"}
          /\ Answer(q, "not_found") /\ UNCHANGED keys
       \/ /\ keys[k].state \in {"live", "expired"}
          /\ keys' = [keys EXCEPT ![k].state = "revoked"]
          /\ Answer(q, "ok")

\* expires_at has passed, for a key that has one.
ExpireAPIKey(k) ==
    /\ keys[k].state = "live"
    /\ keys' = [keys EXCEPT ![k].state = "expired"]
    /\ UNCHANGED <<vars, via>>

-----------------------------------------------------------------------------

KeysInit ==
    /\ Init
    /\ keys = [k \in KeyIds |-> UnusedKey]
    /\ via = [q \in Reqs |-> NoKey]

\* An answered request keeps no credential.
Release ==
    via' = [q \in Reqs |-> IF req'[q].pc \in {"idle", "done"} THEN NoKey ELSE via[q]]

KeyMiddleware(q) ==
    \/ \E k \in KeyIds : AuthenticateAPIKey(q, k)
    \/ AuthorizeKey(q)
    \/ \E p \in {PermAPIKeysCreate, PermAPIKeysDelete} :
         Forbid(q, p) /\ Release /\ UNCHANGED keys

KeyHandlers(q) ==
    /\ \/ \E k \in KeyIds, perms \in SUBSET Perms : CreateAPIKey(q, k, perms)
       \/ \E k \in KeyIds : RevokeAPIKey(q, k)
    /\ Release

\* Rbac's middleware; its Authorize is requireAccess without a key.
SessionMiddleware(q) ==
    \/ \E u \in Callers : Authenticate(q, u)
    \/ via[q] = NoKey /\ Authorize(q)
    \/ \E p \in RoutePerms : Forbid(q, p)
    \/ Finish(q)

RbacStep ==
    /\ \/ \E q \in Reqs : SessionMiddleware(q) \/ RoleHandlers(q) \/ UserHandlers(q)
       \/ \E u \in Users : Register(u)
       \/ Cli
    /\ Release /\ UNCHANGED keys

KeysNext ==
    \/ \E q \in Reqs : KeyMiddleware(q) \/ KeyHandlers(q)
    \/ \E k \in KeyIds : ExpireAPIKey(k)
    \/ RbacStep

KeysSpec == KeysInit /\ [][KeysNext]_keyVars

-----------------------------------------------------------------------------
(* Properties. *)

\* The type invariant, with the rows and the credentials of this module.
KeysTypeOK ==
    /\ TypeOK
    /\ keys \in [KeyIds -> KeyRow]
    /\ via \in [Reqs -> KeyIds \cup {NoKey}]

\* "You can't mint a key more powerful than yourself" (README.md:306-309), for all
\* callers together and for ever: whoever is promoted or demoted, and whatever is
\* minted through other keys or edited meanwhile, no caller, no key and no request
\* holds a permission that nobody conferred on the callers.
NoKeyEscalation ==
    /\ NoEscalation
    /\ \A k \in KeyIds : keys[k].perms \subseteq conferred
    /\ \A q \in Reqs : req[q].access.perms \subseteq conferred

\* "That set is frozen at creation" (README.md:300-309): whatever its owner has become
\* since, a request that came with a key writes no permission that is not in the key's
\* scope, be it into a role, another key or the hands of a user, and touches no role
\* that exceeds it.  Where other requests run beside it, a role may be edited between
\* the guard and the write, so what is said of the role's old permissions is said of a
\* request that is alone.
Confined(scope, alone) ==
    /\ \A r \in RoleIds : rolePerms'[r] # rolePerms[r] =>
         /\ rolePerms'[r] \subseteq scope
         /\ alone /\ roleState[r] = "live" => rolePerms[r] \subseteq scope
    /\ \A k \in KeyIds : keys'[k].perms # keys[k].perms => keys'[k].perms \subseteq scope
    /\ alone => \A u \in Users : \A r \in userRoles'[u] \ userRoles[u] :
         rolePerms[r] \subseteq scope

KeysConfined ==
    [][\A q \in Reqs :
         via[q] # NoKey /\ req'[q].pc = "done" /\ req'[q].result = "ok" =>
           Confined(keys[via[q]].perms, Reqs = {q})]_keyVars
=============================================================================
