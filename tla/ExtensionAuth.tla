---------------------------- MODULE ExtensionAuth ----------------------------
(***************************************************************************)
(* The tokens of the browser extension (background.js, options.js).  Every *)
(* menu click or tooltip button runs getAccessToken on its own: read the   *)
(* stored tokens, refresh them when the access token is old, store what    *)
(* came back or clear the tokens.  The options page logs in and out of the *)
(* same storage.  The identity provider is external: it gives no refresh   *)
(* tokens, always the same one, or rotates them, accepting each one once.  *)
(***************************************************************************)
EXTENDS Integers, FiniteSets

CONSTANTS
    Clicks,         \* requests that need an access token
    NoToken,
    MaxLogins,      \* bound: logins
    MaxFaults       \* bound: tokens that grow old, requests that fail, ...

ASSUME AuthAssumption ==
    /\ NoToken \notin Nat
    /\ {MaxLogins, MaxFaults} \subseteq Nat

VARIABLES
    provider,   \* "none", "keeps" or "rotates" refresh tokens
    access,     \* there is an access token in api.storage.sync
    stored,     \* and this refresh token
    endpoint,   \* and the address to refresh it at, written by a login
    old,        \* the stored access token is about to expire
    valid,      \* refresh tokens the provider accepts
    issued,     \* newest refresh token given out
    pc,         \* where each click is
    sent,       \* the refresh token each click has read
    held,       \* the one it sends, then the one it has received
    logins, faults

tokenVars == <<provider, access, stored, endpoint, old, valid, issued, pc, sent, held, logins>>
authVars == <<tokenVars, faults>>

Tokens == Nat \cup {NoToken}

AuthTypeOK ==
    /\ provider \in {"none", "keeps", "rotates"} /\ access \in BOOLEAN
    /\ stored \in Tokens /\ endpoint \in BOOLEAN /\ old \in BOOLEAN
    /\ valid \subseteq 1..issued
    /\ issued \in Nat
    /\ pc \in [Clicks -> {"idle", "sending", "received", "refused",
                        "authorized", "anonymous", "killed"}]
    /\ sent \in [Clicks -> Tokens] /\ held \in [Clicks -> Tokens]
    /\ logins \in Nat /\ faults \in Nat
    /\ old \/ stored # NoToken => access

AuthInit ==
    /\ provider \in {"none", "keeps", "rotates"} /\ access = FALSE
    /\ stored = NoToken /\ endpoint = FALSE /\ old = FALSE
    /\ valid = {} /\ issued = 0
    /\ pc = [c \in Clicks |-> "idle"]
    /\ sent = [c \in Clicks |-> NoToken]
    /\ held = sent
    /\ logins = 0 /\ faults = 0

-----------------------------------------------------------------------------
(* getAccessToken up to its fetch: a young token is returned at once, and  *)
(* null if there is none, nothing to refresh it with or nowhere to do so.  *)
ReadTokens(c) ==
    /\ pc[c] = "idle"
    /\ pc' = [pc EXCEPT ![c] = IF access /\ ~old THEN "authorized"
                               ELSE IF stored # NoToken /\ endpoint THEN "sending"
                               ELSE "anonymous"]
    /\ sent' = [sent EXCEPT ![c] = IF pc'[c] = "sending" THEN stored ELSE NoToken]
    /\ held' = [held EXCEPT ![c] = sent'[c]]
    /\ UNCHANGED <<provider, access, stored, endpoint, old, valid, issued, logins, faults>>

(* The provider answers: a new token in exchange, or the same one again.   *)
Grant(c) ==
    /\ pc[c] = "sending" /\ held[c] \in valid
    /\ IF provider = "rotates"
       THEN /\ issued' = issued + 1
            /\ valid' = (valid \ {held[c]}) \cup {issued + 1}
            /\ held' = [held EXCEPT ![c] = issued + 1]
       ELSE UNCHANGED <<issued, valid, held>>
    /\ pc' = [pc EXCEPT ![c] = "received"]
    /\ UNCHANGED <<provider, access, stored, endpoint, old, sent, logins, faults>>

(* It refuses a token it does not know (res.ok is false), cannot be        *)
(* reached, or its answer is lost after it has retired the token.          *)
Refuse(c) ==
    /\ pc[c] = "sending"
    /\ \/ held[c] \notin valid /\ UNCHANGED <<valid, faults>>
       \/ /\ faults < MaxFaults /\ faults' = faults + 1
          /\ valid' \in {valid, IF provider = "rotates" THEN valid \ {held[c]} ELSE valid}
    /\ pc' = [pc EXCEPT ![c] = "refused"]
    /\ UNCHANGED <<provider, access, stored, endpoint, old, issued, sent, held, logins>>

(* tokens.refresh_token || refreshToken                                    *)
KeptOld(c) == stored                            \* mutant: old token kept
Received(c) == held[c]

StoreTokens(c) ==
    /\ pc[c] = "received"
    /\ access' = TRUE /\ old' = FALSE
    /\ stored' = Received(c)
    /\ pc' = [pc EXCEPT ![c] = "authorized"]
    /\ UNCHANGED <<provider, endpoint, valid, issued, sent, held, logins, faults>>

(* The catch block: whatever is stored by now is removed.                  *)
ClearTokens(c) ==
    /\ pc[c] = "refused"
    /\ access' = FALSE /\ old' = FALSE
    /\ stored' = NoToken
    /\ pc' = [pc EXCEPT ![c] = "anonymous"]
    /\ UNCHANGED <<provider, endpoint, valid, issued, sent, held, logins, faults>>

GetAccessToken(c) ==
    ReadTokens(c) \/ Grant(c) \/ Refuse(c) \/ StoreTokens(c) \/ ClearTokens(c)

(* The options page.                                                       *)
Login ==
    /\ logins < MaxLogins /\ logins' = logins + 1
    /\ access' = TRUE /\ endpoint' = TRUE /\ old' = FALSE
    /\ IF provider = "none"
       THEN stored' = NoToken /\ UNCHANGED <<issued, valid>>
       ELSE /\ stored' = issued + 1 /\ issued' = issued + 1
            /\ valid' = valid \cup {issued + 1}
    /\ UNCHANGED <<provider, pc, sent, held, faults>>

Logout ==
    /\ access \/ endpoint
    /\ access' = FALSE /\ endpoint' = FALSE /\ old' = FALSE
    /\ stored' = NoToken
    /\ UNCHANGED <<provider, valid, issued, pc, sent, held, logins, faults>>

(* Time: the access token comes within 60 s of its end.                    *)
Expire ==
    /\ faults < MaxFaults /\ faults' = faults + 1
    /\ access /\ ~old
    /\ old' = TRUE
    /\ UNCHANGED <<provider, access, stored, endpoint, valid, issued, pc, sent, held, logins>>

(* The browser stops the service worker: a getAccessToken under way never  *)
(* stores or clears anything, but what it sent may still arrive and retire *)
(* the token.                                                              *)
StopClicks(stopped) ==
    /\ faults < MaxFaults /\ faults' = faults + 1
    /\ pc' = [c \in Clicks |-> IF c \in stopped THEN "killed" ELSE pc[c]]
    /\ \E arrived \in SUBSET {c \in stopped : pc[c] = "sending"} :
          valid' = IF provider = "rotates" THEN valid \ {held[c] : c \in arrived} ELSE valid
    /\ UNCHANGED <<provider, access, stored, endpoint, old, issued, sent, held, logins>>

-----------------------------------------------------------------------------
(* Once no refresh is under way, the stored token is one the provider      *)
(* still accepts: concurrent refreshes, logins, logouts and lost answers   *)
(* never leave a token behind that another one has replaced.  The one      *)
(* exception is a token that a click had sent to a rotating provider when  *)
(* its service worker was stopped.                                         *)
StoredIsAccepted ==
    /\ \A c \in Clicks : pc[c] \notin {"sending", "received", "refused"}
    /\ stored # NoToken
    => \/ stored \in valid
       \/ provider = "rotates" /\ \E c \in Clicks : pc[c] = "killed" /\ sent[c] = stored
=============================================================================
