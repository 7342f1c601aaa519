----------------------------- MODULE DriveClient -----------------------------
(***************************************************************************)
(* The requests of the engine's DriveClient (gdriver-api/src/client.rs):   *)
(* each is sent with the current access token; 401 asks for a refresh,     *)
(* once; 429 and 5xx are waited out, up to MaxRetries times; anything else *)
(* that is not a success, a transport error included, ends the request.    *)
(* The four execute functions have this loop each; they differ in what     *)
(* they take for a success and in what they hand back.                     *)
(*                                                                         *)
(* Drive itself is external.  It may do what it is asked and answer 5xx,   *)
(* or do it while the answer, or its body, gets lost.                      *)
(***************************************************************************)
EXTENDS TokenStore

CONSTANT MaxRetries     \* max_retries: 3 in the code

ASSUME RetryConstant == MaxRetries \in Nat

VARIABLES
    req,        \* the request under way
    sends       \* how often it has been sent

\* Via which helper a request goes, by what it is for.
Purpose == {"read", "fetch", "trash", "multipart", "start", "chunk", "query", "bytes",
            "create"}

Request == [for : Purpose, attempt : 0..MaxRetries, token_refreshed : BOOLEAN,
            at : {"send", "refresh", "ok", "err"}]

ASSUME NoneIsNoRequest == None \notin Request

RequestTypeOK == req \in Request \cup {None} /\ sends \in Nat

RequestInit == req = None /\ sends = 0

\* get_json, post_json, get_raw, post_raw, delete_empty, put_raw_no_redirect.
Ask(purpose) ==
    /\ req' = [for |-> purpose, attempt |-> 0, token_refreshed |-> FALSE, at |-> "send"]
    /\ sends' = 0

InRequest(at) == req # None /\ req.at = at

Returned(result) == InRequest(result)

-----------------------------------------------------------------------------
Sent == sends' = sends + 1

\* Drive takes the token and answers with a success.
Accepted ==
    /\ InRequest("send") /\ client \in live
    /\ Sent
    /\ req' = [req EXCEPT !.at = "ok"]

\* Mutant: every 401 asks for another refresh.
UnauthorizedAgain ==
    /\ InRequest("send") /\ client \notin live
    /\ Sent
    /\ IF keyring # None
       THEN req' = [req EXCEPT !.at = "refresh"] /\ load_refresh_token
       ELSE req' = [req EXCEPT !.at = "err"] /\ UNCHANGED refresh

\* 401: one refresh with the keyring's token.
Unauthorized ==
    /\ InRequest("send") /\ client \notin live
    /\ Sent
    /\ IF ~req.token_refreshed /\ keyring # None
       THEN req' = [req EXCEPT !.at = "refresh"] /\ load_refresh_token
       ELSE req' = [req EXCEPT !.at = "err"] /\ UNCHANGED refresh

\* 429 or 5xx.
Busy ==
    /\ InRequest("send")
    /\ Sent
    /\ req' = IF req.attempt < MaxRetries THEN [req EXCEPT !.attempt = @ + 1]
              ELSE [req EXCEPT !.at = "err"]

\* Another 4xx, an error of the transport, a body that cannot be read.
Refused ==
    /\ InRequest("send")
    /\ Sent
    /\ req' = [req EXCEPT !.at = "err"]

\* The refresh came back with a token, now the client's: send again.
Refreshed ==
    /\ InRequest("refresh") /\ RefreshCaches
    /\ req' = [req EXCEPT !.at = "send", !.token_refreshed = TRUE]
    /\ UNCHANGED sends

\* It failed: the 401 is the answer.
NotRefreshed ==
    /\ InRequest("refresh") /\ RefreshFails
    /\ req' = [req EXCEPT !.at = "err"]
    /\ UNCHANGED sends

-----------------------------------------------------------------------------
\* One sending of a request that Drive answers by doing something (done) or by
\* leaving everything as it is (undone).  A success has been done; so may have
\* what is answered 5xx or not at all.
Attempt(done, undone) ==
    /\ \/ Accepted /\ done /\ UNCHANGED <<refresh, faults>>
       \/ Unauthorized /\ undone /\ UNCHANGED faults
       \/ Busy /\ undone /\ Fault /\ UNCHANGED refresh
       \/ Refused /\ undone /\ Fault /\ UNCHANGED refresh
       \/ client \in live /\ Busy /\ done /\ Fault /\ UNCHANGED refresh
       \/ client \in live /\ Refused /\ done /\ Fault /\ UNCHANGED refresh
    /\ UNCHANGED <<account, keyring, cache, google, flow, leaving, client, ops,
                   spoilt>>

\* The execute functions.
execute_json(done, undone) ==
    req # None /\ req.for \in {"read", "create"} /\ Attempt(done, undone)

execute_no_content(done, undone) ==
    req # None /\ req.for = "trash" /\ Attempt(done, undone)

execute_raw(done, undone) ==
    req # None /\ req.for \in {"fetch", "multipart", "start", "bytes"} /\ Attempt(done, undone)

\* 308, the answer to a chunk that is not the last, is a success here.
execute_raw_no_redirect(done, undone) ==
    req # None /\ req.for \in {"chunk", "query"} /\ Attempt(done, undone)

-----------------------------------------------------------------------------
\* A request is sent once, once more after a refresh, and once per retry: the
\* loop of each execute function ends, whatever Drive answers.
AttemptsBounded == req # None => sends <= 2 + MaxRetries
=============================================================================
