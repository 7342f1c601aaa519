------------------------------ MODULE TokenStore ------------------------------
(***************************************************************************)
(* The tokens of one Google account: the refresh token in the keyring and  *)
(* the access token in memory (auth/token_store.rs), the login that stores *)
(* them (gdriver-api/src/auth.rs, complete_oauth_flow), the refresh by the *)
(* engine (build_client_for_account, AccountTokenRefresher) and the        *)
(* disconnect that wipes them.  Login, refresh and disconnect run in three *)
(* tasks; each keyring, cache or table access is a step.                   *)
(*                                                                         *)
(* Google issues tokens in numbered pairs; it may put a new refresh token  *)
(* in the place of the one it was shown (auth.rs, refresh_access_token).   *)
(***************************************************************************)
EXTENDS Naturals

CONSTANTS
    None,          \* no token, nothing in progress
    MaxIssued,     \* bound: tokens Google issues
    MaxOps,        \* bound: what the user does, and tokens that expire
    MaxFaults      \* bound: failed calls, lost answers, restarts

ASSUME TokenConstants ==
    /\ MaxIssued \in Nat \ {0} /\ {MaxOps, MaxFaults} \subseteq Nat /\ None \notin Nat

VARIABLES
    account,             \* the row of accounts exists
    keyring, cache,      \* refresh token; access token with its age
    grants, live,        \* the refresh and the access tokens Google accepts
    issued,
    flow,                \* the login under way
    leaving,             \* the disconnect under way
    refresh,             \* the engine's refresh under way
    client,              \* the access token of the engine's DriveClient
    ops, faults,
    spoilt               \* a refresh token of ours was revoked or its successor lost

google == <<grants, live, issued>>
tokenVars == <<account, keyring, cache, google, flow, leaving, refresh, client, ops,
               faults, spoilt>>

-----------------------------------------------------------------------------
Token == 1..MaxIssued

\* fresh is ~should_refresh(): more than five minutes to live.
TokenSet == [access_token : Token, fresh : BOOLEAN]

Flow == [at : {"callback", "code"}]
        \cup [at : {"tokens", "row", "saved"}, new : Token]

Refresh == [at : {"asked"}, rt : Token]
           \cup [at : {"answered", "saved"}, rt : Token, new_rt : Token, new : Token]

ASSUME NoneIsNoRefresh == None \notin Refresh

TokenTypeOK ==
    /\ account \in BOOLEAN /\ spoilt \in BOOLEAN
    /\ keyring \in Token \cup {None} /\ client \in Token \cup {None}
    /\ cache \in TokenSet \cup {None}
    /\ grants \subseteq Token /\ live \subseteq Token /\ issued \in 0..MaxIssued
    /\ flow \in Flow \cup {None} /\ refresh \in Refresh \cup {None}
    /\ leaving \in {"no", "keyring", "cache"}
    /\ ops \in 0..MaxOps /\ faults \in 0..MaxFaults

\* Some time after a login.
TokenInit ==
    /\ account = TRUE /\ keyring = 1 /\ cache = [access_token |-> 1, fresh |-> TRUE]
    /\ grants = {1} /\ live = {1} /\ issued = 1
    /\ flow = None /\ leaving = "no" /\ refresh = None /\ client = None
    /\ ops = 0 /\ faults = 0 /\ spoilt = FALSE

Op == ops < MaxOps /\ ops' = ops + 1

Fault == faults < MaxFaults /\ faults' = faults + 1

save_refresh_token(rt) == keyring' = rt

cache_access_token(t) == cache' = [access_token |-> t, fresh |-> TRUE]

-----------------------------------------------------------------------------
\* Login.

Login == UNCHANGED <<leaving, refresh, client, spoilt>>

\* auth.start_flow: the listener waits for the browser, without a limit.
begin_auth_flow ==
    /\ flow = None /\ issued < MaxIssued /\ Op
    /\ flow' = [at |-> "callback"]
    /\ UNCHANGED <<account, keyring, cache, google, faults>> /\ Login

\* The one connection it accepts: the redirect with a code and this flow's
\* state, or a refusal, a malformed request or another flow's state.
handle_callback ==
    /\ flow # None /\ flow.at = "callback"
    /\ \/ flow' = [at |-> "code"] /\ UNCHANGED faults
       \/ flow' = None /\ Fault
    /\ UNCHANGED <<account, keyring, cache, google, ops>> /\ Login

exchange_code ==
    /\ flow # None /\ flow.at = "code"
    /\ \/ /\ issued < MaxIssued /\ issued' = issued + 1
          /\ grants' = grants \cup {issued'} /\ live' = live \cup {issued'}
          /\ flow' = [at |-> "tokens", new |-> issued'] /\ UNCHANGED faults
       \/ flow' = None /\ Fault /\ UNCHANGED google
    /\ UNCHANGED <<account, keyring, cache, ops>> /\ Login

\* fetch_and_store_account: the row is there before the tokens are.
fetch_and_store_account ==
    /\ flow # None /\ flow.at = "tokens"
    /\ \/ account' = TRUE /\ flow' = [flow EXCEPT !.at = "row"] /\ UNCHANGED faults
       \/ flow' = None /\ Fault /\ UNCHANGED account
    /\ UNCHANGED <<keyring, cache, google, ops>> /\ Login

\* A keyring that cannot be written is logged, and the login goes on.
LoginSaves ==
    /\ flow # None /\ flow.at = "row"
    /\ \/ save_refresh_token(flow.new) /\ UNCHANGED faults
       \/ Fault /\ UNCHANGED keyring
    /\ flow' = [flow EXCEPT !.at = "saved"]
    /\ UNCHANGED <<account, cache, google, ops>> /\ Login

LoginCaches ==
    /\ flow # None /\ flow.at = "saved"
    /\ cache_access_token(flow.new)
    /\ flow' = None
    /\ UNCHANGED <<account, keyring, google, faults, ops>> /\ Login

-----------------------------------------------------------------------------
\* Disconnect: delete_all, then delete_account.

Leave == UNCHANGED <<google, flow, refresh, client, spoilt>>

\* An unavailable keyring is logged and the cache is cleared all the same.
delete_refresh_token ==
    /\ leaving = "no" /\ account /\ Op
    /\ leaving' = "keyring"
    /\ \/ keyring' = None /\ UNCHANGED faults
       \/ Fault /\ UNCHANGED keyring
    /\ UNCHANGED <<account, cache>> /\ Leave

clear_access_token ==
    /\ leaving = "keyring" /\ leaving' = "cache"
    /\ cache' = None
    /\ UNCHANGED <<account, keyring, faults, ops>> /\ Leave

delete_account ==
    /\ leaving = "cache" /\ leaving' = "no"
    /\ account' = FALSE
    /\ UNCHANGED <<keyring, cache, faults, ops>> /\ Leave

-----------------------------------------------------------------------------
\* Refresh, by the engine: when it builds a client with no fresh access token,
\* and when a request was answered 401.

load_refresh_token == refresh' = [at |-> "asked", rt |-> keyring]

Refreshing(at) == refresh # None /\ refresh.at = at

NotTheStore == UNCHANGED <<account, flow, leaving>>

\* Google answers with an access token and with the old or a new refresh token.
refresh_access_token ==
    /\ Refreshing("asked") /\ refresh.rt \in grants
    /\ issued < MaxIssued /\ issued' = issued + 1
    /\ live' = live \cup {issued'}
    /\ \E rt \in {refresh.rt, issued'} :
         /\ grants' = (grants \ {refresh.rt}) \cup {rt}
         /\ refresh' = [at |-> "answered", rt |-> refresh.rt, new_rt |-> rt, new |-> issued']
    /\ UNCHANGED <<keyring, cache, client, faults, spoilt, ops>> /\ NotTheStore

\* It refuses the token, or the call fails, its effect done or not: the caller
\* has no token.
RefreshFails ==
    /\ Refreshing("asked")
    /\ refresh' = None
    /\ \/ /\ refresh.rt \notin grants \/ issued = MaxIssued
          /\ UNCHANGED <<grants, faults, spoilt>>
       \/ Fault /\ UNCHANGED <<grants, spoilt>>
       \/ Fault /\ grants' = grants \ {refresh.rt} /\ spoilt' = TRUE
    /\ UNCHANGED <<live, issued, keyring, cache, client, ops>> /\ NotTheStore

\* Mutant: the new refresh token is not kept.
RefreshSavesNot ==
    /\ Refreshing("answered")
    /\ UNCHANGED <<keyring, faults, spoilt>>
    /\ refresh' = [refresh EXCEPT !.at = "saved"]
    /\ UNCHANGED <<google, cache, client, ops>> /\ NotTheStore

\* Only a new refresh token is written; an error of the keyring is ignored.
RefreshSaves ==
    /\ Refreshing("answered")
    /\ \/ refresh.new_rt = refresh.rt /\ UNCHANGED <<keyring, faults, spoilt>>
       \/ /\ refresh.new_rt # refresh.rt
          /\ save_refresh_token(refresh.new_rt) /\ UNCHANGED <<faults, spoilt>>
       \/ refresh.new_rt # refresh.rt /\ Fault /\ spoilt' = TRUE /\ UNCHANGED keyring
    /\ refresh' = [refresh EXCEPT !.at = "saved"]
    /\ UNCHANGED <<google, cache, client, ops>> /\ NotTheStore

\* The access token goes to the cache and to the client that asked.
RefreshCaches ==
    /\ Refreshing("saved")
    /\ cache_access_token(refresh.new)
    /\ client' = refresh.new
    /\ refresh' = None
    /\ UNCHANGED <<google, keyring, faults, spoilt, ops>> /\ NotTheStore

\* build_client_for_account: the cached token when it is fresh ...
BuildFromCache ==
    /\ client = None /\ refresh = None /\ cache # None /\ cache.fresh
    /\ client' = cache.access_token
    /\ UNCHANGED <<google, keyring, cache, refresh, faults, spoilt, ops>> /\ NotTheStore

\* ... or a refresh with the keyring's; without one the account has no client.
BuildByRefresh ==
    /\ client = None /\ refresh = None /\ keyring # None
    /\ cache # None => ~cache.fresh
    /\ load_refresh_token
    /\ UNCHANGED <<google, keyring, cache, client, faults, spoilt, ops>> /\ NotTheStore

-----------------------------------------------------------------------------
\* Time, the user at Google's account page, a crash of the daemon (external).

CacheAges ==
    /\ cache # None /\ cache.fresh /\ Op
    /\ cache' = [cache EXCEPT !.fresh = FALSE]
    /\ UNCHANGED <<google, keyring, refresh, client, faults, spoilt>> /\ NotTheStore

AccessExpires(t) ==
    /\ t \in live /\ Op /\ live' = live \ {t}
    /\ UNCHANGED <<grants, issued, keyring, cache, refresh, client, faults, spoilt>>
    /\ NotTheStore

GrantRevoked(t) ==
    /\ t \in grants /\ Fault /\ grants' = grants \ {t}
    /\ spoilt' = TRUE
    /\ UNCHANGED <<live, issued, keyring, cache, refresh, client, ops>> /\ NotTheStore

\* The keyring and the tables stay; a rotation that was not saved is lost.
TokensRestart ==
    /\ Fault
    /\ cache' = None /\ flow' = None /\ leaving' = "no" /\ refresh' = None /\ client' = None
    /\ spoilt' = (spoilt \/ (Refreshing("answered") /\ refresh.new_rt # refresh.rt))
    /\ UNCHANGED <<account, keyring, google, ops>>

-----------------------------------------------------------------------------
LoginNext ==
    begin_auth_flow \/ handle_callback \/ exchange_code \/ fetch_and_store_account
    \/ LoginSaves \/ LoginCaches

DisconnectNext == delete_refresh_token \/ clear_access_token \/ delete_account

RefreshNext == refresh_access_token \/ RefreshFails \/ RefreshSaves \/ RefreshCaches

GoogleNext == CacheAges \/ \E t \in Token : AccessExpires(t) \/ GrantRevoked(t)
=============================================================================
