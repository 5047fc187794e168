---- MODULE OAuthSource ----
(***************************************************************************)
(* What the OAuth sources of Rust (auth.rs: OAuthSource), Go (auth.go:     *)
(* oauthSource) and Java (Runtime.java: OAuthSource) have in common: their *)
(* callers, the lock that spans a call, the token pair, its store and Box. *)
(* RustOAuth and LockedOAuth add what each runtime keeps besides, and all  *)
(* that they do.                                                           *)
(***************************************************************************)
EXTENDS Integers

CONSTANTS
    Task,       \* the tasks or threads that share the source
    Free,       \* the lock's holder when no task holds it
    MaxTokens   \* bound on the token pairs Box issues

ASSUME OAuthAssumption ==
    /\ MaxTokens \in Nat \ {0}
    /\ Free \notin Task

VARIABLES
    lock,     \* the task that holds the source's lock, or Free
    op,       \* op[t]: the call t is in, "none" between calls
    at,       \* at[t]: the wait t's call stands at
    got,      \* got[t]: the token t's last call returned, 0 when it returned none
    token,    \* the cached access token
    refresh,  \* the refresh token in memory
    revoked,  \* the source was told to revoke, and Box confirmed
    store,    \* the refresh token in the durable store
    box       \* the refresh token Box accepts, 0 once the grant is revoked
====
