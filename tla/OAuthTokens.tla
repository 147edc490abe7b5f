---------------------------- MODULE OAuthTokens ----------------------------
(***************************************************************************)
(* The OAuth 2.0 token cache of a workspace: voleeo_oauth::ensure_token,   *)
(* token_cache, and the commands that fetch or clear a token.              *)
(*                                                                         *)
(* ensure_token holds a lock per cache key from its load to its save.  All *)
(* keys of a workspace share one file, which save and clear read, truncate *)
(* and rewrite under no lock; fetch and clear do not take the key's lock.  *)
(***************************************************************************)
CONSTANTS
    Keys,         \* cache keys, one per client configuration
    Ensures,      \* calls of ensure_token
    Fetches,      \* calls of oauth2_fetch_token
    Clears,       \* calls of oauth2_clear_token
    KeyOf,        \* call -> the key it is for
    None          \* no token: neither a key nor a call

Calls == Ensures \cup Fetches \cup Clears

\* A token is named for the call that acquired it, one cached from the start for
\* its key; so is a refresh token, for the call that first received it.
Tokens == Keys \cup Calls

VARIABLES
    interactive,  \* the keys whose grant needs a browser; never changes
    file,         \* the token each key has in oauth_tokens.yaml, or None
    expired,      \* the tokens past their expiry
    refresh,      \* the refresh token that came with each token, or None
    pc,           \* where each call is
    cached,       \* the expired token a call refreshes, or refreshed
    read          \* what the read_all of a call that is writing returned

vars == <<interactive, file, expired, refresh, pc, cached, read>>

Content == [Keys -> Tokens \cup {None}]

Empty == [k \in Keys |-> None]

TypeOK ==
    /\ interactive \subseteq Keys
    /\ file \in Content
    /\ expired \subseteq Tokens
    /\ refresh \in [Tokens -> Tokens \cup {None}]
    /\ pc \in [Calls -> {"idle", "wait", "locked", "refresh", "fetch", "save",
                         "read", "truncated", "done", "reused", "failed", "unacquired"}]
    /\ cached \in [Calls -> Tokens \cup {None}]
    /\ read \in [Calls -> Content]

\* Each key starts with a token from an earlier session or without one.
Init ==
    /\ interactive \in SUBSET Keys
    /\ file \in {f \in Content : \A k \in Keys : f[k] \in {k, None}}
    /\ expired = {}
    /\ refresh = [t \in Tokens |-> IF t \in Keys THEN file[t] ELSE None]
    /\ pc = [o \in Calls |-> "idle"]
    /\ cached = [o \in Calls |-> None]
    /\ read = [o \in Calls |-> Empty]

Goto(o, from, to) ==
    /\ pc[o] = from
    /\ pc' = [pc EXCEPT ![o] = to]

\* Where a call for a key goes that cannot refresh, or whose refresh failed: a
\* browser grant has to be acquired interactively first.
WithoutRefresh(k, error) == IF k \in interactive THEN error ELSE "fetch"

Holds(o) == o \in Ensures /\ pc[o] \notin {"idle", "wait", "done", "reused", "failed", "unacquired"}

\* A call acquired its token and has not failed to save it.
Acquired(o) ==
    o \notin Clears /\ pc[o] \in {"save", "read", "truncated", "done"}

----------------------------------------------------------------------------
(* ensure_token                                                            *)

Ensure(e) ==
    /\ Goto(e, "idle", "wait")
    /\ UNCHANGED <<interactive, file, expired, refresh, cached, read>>

\* Seeded fault: no lock is taken.
AcquireUnlocked(e) ==
    /\ Goto(e, "wait", "locked")
    /\ UNCHANGED <<interactive, file, expired, refresh, cached, read>>

Acquire(e) ==
    /\ \A o \in Ensures : Holds(o) => KeyOf[o] # KeyOf[e]
    /\ Goto(e, "wait", "locked")
    /\ UNCHANGED <<interactive, file, expired, refresh, cached, read>>

\* The cached token if it is live; its refresh if it expired and can be; an error
\* if it cannot be decrypted.
Load(e) ==
    LET t == file[KeyOf[e]] IN
    /\ \/ /\ t # None /\ t \notin expired
          /\ Goto(e, "locked", "reused")
          /\ UNCHANGED cached
       \/ /\ t # None /\ t \in expired /\ refresh[t] # None
          /\ Goto(e, "locked", "refresh")
          /\ cached' = [cached EXCEPT ![e] = t]
       \/ /\ t = None \/ (t \in expired /\ refresh[t] = None)
          /\ Goto(e, "locked", WithoutRefresh(KeyOf[e], "unacquired"))
          /\ UNCHANGED cached
       \/ /\ t # None
          /\ Goto(e, "locked", "failed")
          /\ UNCHANGED cached
    /\ UNCHANGED <<interactive, file, expired, refresh, read>>

\* The server answers with a new refresh token, or without one and the old one
\* is carried over.
Refreshed(e) ==
    /\ Goto(e, "refresh", "save")
    /\ refresh' \in {[refresh EXCEPT ![e] = r] : r \in {e, refresh[cached[e]]}}
    /\ UNCHANGED <<interactive, file, expired, cached, read>>

RefreshFailed(e) ==
    /\ Goto(e, "refresh", WithoutRefresh(KeyOf[e], "failed"))
    /\ cached' = [cached EXCEPT ![e] = None]
    /\ UNCHANGED <<interactive, file, expired, refresh, read>>

----------------------------------------------------------------------------
(* Acquiring from nothing: the end of ensure_token, and oauth2_fetch_token,   *)
(* whose browser flow, timeout and closed window are its failures.           *)

Fetch(f) ==
    /\ Goto(f, "idle", "fetch")
    /\ UNCHANGED <<interactive, file, expired, refresh, cached, read>>

Fetched(o) ==
    /\ Goto(o, "fetch", "save")
    /\ refresh' \in {[refresh EXCEPT ![o] = r] : r \in {o, None}}
    /\ UNCHANGED <<interactive, file, expired, cached, read>>

FetchFailed(o) ==
    /\ Goto(o, "fetch", "failed")
    /\ UNCHANGED <<interactive, file, expired, refresh, cached, read>>

----------------------------------------------------------------------------
(* token_cache::save and clear                                             *)

SaveRead(o) ==
    /\ Goto(o, "save", "read")
    /\ read' = [read EXCEPT ![o] = file]
    /\ UNCHANGED <<interactive, file, expired, refresh, cached>>

\* Clearing a key that is not there writes nothing.
ClearRead(c) ==
    /\ \/ /\ file[KeyOf[c]] # None
          /\ Goto(c, "idle", "read")
          /\ read' = [read EXCEPT ![c] = file]
       \/ /\ file[KeyOf[c]] = None
          /\ Goto(c, "idle", "done")
          /\ UNCHANGED read
    /\ UNCHANGED <<interactive, file, expired, refresh, cached>>

\* The token cannot be encrypted, the directory not be made, the file not be
\* opened, or not be written once it is truncated.
WriteFail(o) ==
    /\ \E step \in {"save", "read", "truncated"} : Goto(o, step, "failed")
    /\ read' = [read EXCEPT ![o] = Empty]
    /\ UNCHANGED <<interactive, file, expired, refresh, cached>>

\* Opening the file truncates it; an empty file parses to no tokens.
Truncate(o) ==
    /\ Goto(o, "read", "truncated")
    /\ file' = Empty
    /\ UNCHANGED <<interactive, expired, refresh, cached, read>>

\* Writing over what another call wrote since may leave the tail of a longer
\* text behind: the file no longer parses, which reads as no tokens.
Write(o) ==
    /\ Goto(o, "truncated", "done")
    /\ \/ file' = [read[o] EXCEPT ![KeyOf[o]] = IF o \in Clears THEN None ELSE o]
       \/ file # Empty /\ file' = Empty
    /\ read' = [read EXCEPT ![o] = Empty]
    /\ UNCHANGED <<interactive, expired, refresh, cached>>

\* Time passes the expiry of a token that was issued.
Expire(t) ==
    /\ t \in Keys \cup {o \in Calls : Acquired(o)}
    /\ t \notin expired
    /\ expired' = expired \cup {t}
    /\ UNCHANGED <<interactive, file, refresh, pc, cached, read>>

----------------------------------------------------------------------------
EnsureStep(e) ==
    Ensure(e) \/ Acquire(e) \/ Load(e) \/ Refreshed(e) \/ RefreshFailed(e)

CacheStep(o) == SaveRead(o) \/ WriteFail(o) \/ Truncate(o) \/ Write(o)

Next ==
    \/ \E e \in Ensures : EnsureStep(e)
    \/ \E f \in Fetches : Fetch(f)
    \/ \E c \in Clears : ClearRead(c)
    \/ \E o \in Ensures \cup Fetches : Fetched(o) \/ FetchFailed(o)
    \/ \E o \in Calls : CacheStep(o)
    \/ \E t \in Tokens : Expire(t)

Spec == Init /\ [][Next]_vars

----------------------------------------------------------------------------
(* Properties                                                              *)

\* A call's answer replaced the refresh token it presented.
Rotated(o) == cached[o] # None /\ Acquired(o) /\ refresh[o] = o

\* No call presents a refresh token that the server has already replaced in an
\* answer to another: such reuse makes servers revoke the whole grant.  The key
\* lock has to hold from before the load until after the save, and fetching or
\* clearing the key beside it must not bring an old token back.  A failed save
\* is excepted: the file still has the old token.
RefreshTokenSpentOnce ==
    \A e, o \in Ensures :
        (pc[e] = "refresh" /\ Rotated(o)) => refresh[cached[e]] # refresh[cached[o]]

\* What key_lock's comment says is prevented, "racing and clobbering the cache
\* write": once no write is under way, the token a call saved is in the file if
\* no other call for its key has run.
SavedTokenKept ==
    \A e \in Ensures :
        (/\ pc[e] = "done" /\ Acquired(e)
         /\ \A o \in Calls : pc[o] \notin {"read", "truncated"}
         /\ \A o \in Calls \ {e} : KeyOf[o] = KeyOf[e] => pc[o] = "idle")
            => file[KeyOf[e]] = e
=============================================================================
